---- MODULE AlgorithmChecks ----
(***************************************************************************)
(* The pure algorithms of the system against what they are to guarantee,   *)
(* over bounded inputs: a behaviour picks one input of one algorithm, and  *)
(* the invariants state what the algorithm makes of it.                    *)
(***************************************************************************)
EXTENDS RunComparison, Annotation, RowChecks, SwiftChecks, Placement

CONSTANTS
  Losses,    \* last losses of a run
  PoolLosses,\* readings of a calibration
  Objects,   \* JSON objects, to be compared with one another
  Calls,     \* tool calls, in completions and targets
  Pieces,    \* pieces of markup an edit may put anywhere
  JsonPieces \* and pieces of JSON

-----------------------------------------------------------------------------
\* Two runs of a tier (RunComparison).

\* A pool, one of whose readings may have come from a run to be judged.
Calibrate ==
  \E n \in 1..5 : \E readings \in [1..n -> PoolLosses], judged \in {{}, {1}} :
    picks([of |-> "calibration",
           pool |-> [readings |-> readings, run_roots |-> [i \in 1..n |-> i],
                     card_set |-> {4}, judged |-> judged]])

LookUp ==
  \E backend \in {"native", "ms-swift", None}, cards \in {1, 2, 4, None},
     algorithm \in {"SFT", "GRPO", "GRASPO", "OPD", None} :
    picks([of |-> "lookup",
           key |-> [backend |-> backend, cards |-> cards, algorithm |-> algorithm]])

Run(key, last, stamp, root, sha) ==
  [key |-> key, exit_code |-> 0, optimizer_steps |-> 2, weight_changed |-> TRUE,
   losses |-> <<500, last>>, first_logged_step |-> 1, timestamp |-> stamp,
   run_root |-> root, output_identity |-> root, sha |-> sha]

\* A second run, or the files of the first one copied to another root.
Compare ==
  \E key \in [backend : {"native", "ms-swift"}, cards : {1, 2}, algorithm : {"SFT", "GRPO"}],
     x, y \in Losses, stamped, copied \in BOOLEAN, shas \in [1..2 -> {None, 1, 2}] :
    LET stamp(t) == IF stamped THEN t ELSE None
        first == Run(key, x, stamp(1), 1, shas[1]) IN
    picks([of |-> "pair", copied |-> copied, first |-> first,
           second |-> IF copied THEN Run(key, x, stamp(1), 2, shas[1])
                      ELSE Run(key, y, stamp(2), 2, shas[2])])

-----------------------------------------------------------------------------
\* Rewards (Rewards).

RewardConfig(order, tolerance, think, markdown) ==
  [marker |-> Unit, content |-> 4 * Unit, anti_useless |-> Unit, order |-> order,
   tolerance |-> tolerance, check_think |-> think, check_json_markdown |-> markdown]

CompareObjects ==
  \E checked, target \in Objects, order \in BOOLEAN, tolerance \in {0, 1} :
    picks([of |-> "objects", checked |-> checked, target |-> target, order |-> order,
           tolerance |-> tolerance])

CallLists(n) == UNION {[1..k -> Calls] : k \in 0..n}

RewardToolCalls ==
  \E calls \in CallLists(2), targets \in [1..2 -> CallLists(2) \ {<<>>}],
     thinks, errors \in BOOLEAN, extra \in 0..2 :
    picks([of |-> "tool_calls", config |-> RewardConfig(TRUE, 0, TRUE, FALSE),
           parsed |-> [calls |-> calls, thinks |-> thinks, errors |-> errors, extra |-> extra],
           targets |-> targets])

Tokens ==
  {[kind |-> "marker", s |-> m] : m \in Markers} \cup {[kind |-> "text", v |-> 2]} \cup Calls

RewardAnswer ==
  \E n \in 0..5 : \E completion \in [1..n -> Tokens], target \in Calls, think \in BOOLEAN :
    picks([of |-> "answer", config |-> RewardConfig(FALSE, 0, think, TRUE),
           completion |-> completion, targets |-> <<target>>])

-----------------------------------------------------------------------------
\* Labels and advantages (Annotation, Parsing).

\* A text as it is, or with one piece put in, replaced, taken away or behind the end.
Edits(text, pieces) ==
  {[edit |-> "none", at |-> 0, text |-> text]}
    \cup {[edit |-> "cut", at |-> i, text |-> SubSeq(text, 1, i - 1)] : i \in DOMAIN text}
    \cup {[edit |-> "cut in", at |-> i, text |-> SubSeq(text, 1, i - 1) \o <<cut(text[i])>>] :
            i \in {j \in DOMAIN text : text[j].kind \in {"mark", "name"}}}
    \cup {[edit |-> "delete", at |-> i,
            text |-> SubSeq(text, 1, i - 1) \o SubSeq(text, i + 1, Len(text))] : i \in DOMAIN text}
    \cup {[edit |-> "insert", at |-> i,
            text |-> SubSeq(text, 1, i - 1) \o <<p>> \o SubSeq(text, i, Len(text))] :
            i \in 1..(Len(text) + 1), p \in pieces}
    \cup {[edit |-> "replace", at |-> i, text |-> [text EXCEPT ![i] = p]] :
            i \in DOMAIN text, p \in pieces}

Openings == {<<>>, <<word(Str("so")), ws>>, <<mark("<think>"), word(Str("so")), mark("</think>"), ws>>}
Target == [name |-> "f", arguments |-> [x |-> Num(10), y |-> Str("s")]]
SpacedTarget == [Target EXCEPT !.arguments.y = two_words]
Tools == [f |-> [x |-> "number", y |-> "string"]]

Answer(order, x, y, spaced) ==
  LET text == tool_calls_to_xml([name |-> "f", order |-> order, arguments |-> [x |-> x, y |-> y]])
  IN IF spaced THEN text ELSE SelectSeq(text, LAMBDA piece : piece # ws)

LabelToolCall ==
  \E order \in {<<"x", "y">>, <<"y", "x">>}, spaced, truncated, think \in BOOLEAN,
     prefix \in Openings :
    \E e \in Edits(prefix \o Answer(order, Num(10), Str("s"), spaced), Pieces) :
      picks([of |-> "labels", format |-> "tool_call", edit |-> e.edit, at |-> e.at,
             text |-> e.text, truncated |-> truncated, think |-> think, target |-> Target])

\* The value of a parameter is two words.
LabelTwoWords ==
  \E order \in {<<"x", "y">>, <<"y", "x">>}, truncated \in BOOLEAN, prefix \in Openings :
    \E e \in Edits(prefix \o Answer(order, Num(10), two_words, TRUE), Pieces) :
      picks([of |-> "labels", format |-> "tool_call", edit |-> e.edit, at |-> e.at,
             text |-> e.text, truncated |-> truncated, think |-> TRUE,
             target |-> SpacedTarget])

\* The call is written in JSON, which its parser takes as well.
JsonCall(target) ==
  json_dumps(Dict([k \in {"name", "arguments"} |->
                     IF k = "name" THEN Str(target.name) ELSE Dict(target.arguments)]))

LabelJsonCall ==
  \E target \in {Target, SpacedTarget}, prefix \in Openings, spaced \in BOOLEAN :
    LET space == IF spaced THEN <<ws>> ELSE <<>> IN
    picks([of |-> "labels", format |-> "tool_call", edit |-> "json", at |-> 0,
           text |-> prefix \o <<mark("<tool_call>")>> \o space \o JsonCall(target) \o space
                    \o <<mark("</tool_call>")>>,
           truncated |-> FALSE, think |-> TRUE, target |-> target])

JsonTarget == Dict([x |-> Num(10), y |-> Str("s"), z |-> List(<<Dict([u |-> Num(1)]), Str("t")>>)])

LabelJson ==
  \E truncated, fence \in BOOLEAN :
    \E e \in Edits(IF fence THEN fenced_json(JsonTarget) ELSE json_dumps(JsonTarget), JsonPieces) :
      /\ e.edit # "cut in"
      /\ picks([of |-> "labels", format |-> "json", edit |-> e.edit, at |-> e.at,
                text |-> e.text, truncated |-> truncated, think |-> fence, target |-> Target])

\* Tokens of one piece each; or those of a tokenizer that takes a quote together with what
\* is next to it on the outside of the string.
Tokens_of(text, joined) ==
  LET quotes == ascending({i \in DOMAIN text : text[i] = mark("quote")})
      joins == IF joined THEN {IF k % 2 = 1 THEN quotes[k] ELSE quotes[k] + 1 : k \in DOMAIN quotes}
               ELSE {}
      starts == ascending({i \in DOMAIN text : i \notin joins})
  IN [k \in DOMAIN starts |->
        <<starts[k], IF k = Len(starts) THEN Len(text) + 1 ELSE starts[k + 1]>>]

JsonAnswer(x, y) == fenced_json(Dict([x |-> x, y |-> y]))

\* A group of completions, the last of which may have lost its end, by itself or because it
\* was too long; in the largest groups all are whole.
Advantages ==
  \E format \in {"tool_call", "json"}, joined, truncated \in BOOLEAN, n \in 1..3,
     tolerance \in {0, 1}, lost \in {0, 1, 4, 5, 6} :
    \E xs \in [1..n -> {Num(10), Num(15), Num(30)}],
       ys \in [1..n -> {Str("s"), Str("t"), two_words}] :
      LET whole(c) == IF format = "json" THEN JsonAnswer(xs[c], ys[c])
                      ELSE Answer(<<"x", "y">>, xs[c], ys[c], TRUE)
          text(c) == IF c = n THEN SubSeq(whole(c), 1, Len(whole(c)) - lost) ELSE whole(c)
          labels(c) == IF format = "json" THEN annotate_json(text(c), Dict(Target.arguments), TRUE)
                       ELSE annotate_tool_call(text(c), <<<<Target>>>>, FALSE) IN
      /\ n = 3 => lost = 0 /\ two_words \notin {ys[c] : c \in 1..n}
      /\ truncated => lost > 0
      /\ picks([of |-> "group", format |-> format, tolerance |-> tolerance,
                group |-> [c \in 1..n |-> [text |-> text(c), labels |-> labels(c),
                                          truncated_by_max |-> truncated /\ c = n,
                                          tokens |-> Tokens_of(text(c), joined)]]])

-----------------------------------------------------------------------------
Next ==
  \/ in_area("launches") /\ (Configuration \/ Seeding \/ Batch)
  \/ in_area("placement") /\ (PlaceLayers \/ PlaceManually \/ PlaceRanks)
  \/ in_area("rows") /\ (Record \/ Rollout \/ Experiences \/ SupervisedBatch)
  \/ in_area("runs") /\ (Calibrate \/ LookUp \/ Compare)
  \/ in_area("objects") /\ CompareObjects
  \/ in_area("rewards") /\ (RewardToolCalls \/ RewardAnswer)
  \/ in_area("labels") /\ (LabelToolCall \/ LabelTwoWords \/ LabelJsonCall \/ LabelJson)
  \/ in_area("groups") /\ Advantages

Spec == Init /\ [][Next]_case

-----------------------------------------------------------------------------
\* Properties.

\* Whatever readings a calibration is given, not-a-number included, the tolerance it enters
\* is a number not below the drift measured without a bug and at most half of the smallest
\* signature of a true bug; with enough readings that are numbers and not alike, two of
\* them agree under it unless it was cut at that bound (calibrated_tolerance, derive).
CalibrationSound ==
  case.of = "calibration" =>
    LET entry == derive(case.pool)
        r == case.pool.readings IN
    entry # None =>
      /\ entry.tol \notin {NonFinite, Infinity}
      /\ A4_MEASURED_BF16_FINAL_LOSS_DRIFT <= entry.tol
      /\ 2 * entry.tol <= A4_MIN_TRUE_BUG_SIGNATURE
      /\ entry.outcome = "calibrated" => Len(r) >= A4_CALIBRATION_MIN_N
      /\ (entry.outcome = "calibrated" /\ entry.tol < A4_TOLERANCE_HARD_UPPER_BOUND) =>
           \A i, j \in DOMAIN r : ~gt(distance(r[i], r[j]), entry.tol)

\* A run is measured by a calibration of its own family as far as the family is known: GRASPO
\* by that of GRPO, and nothing stands in for an algorithm without one.
FamilyKept ==
  case.of = "lookup" =>
    LET r == resolve_tier_calibration(case.key) IN
    r # None =>
      /\ case.key.backend \in {None, r.backend} /\ case.key.cards \in {None, r.cards}
      /\ case.key.algorithm = None \/ normalize_a4_algorithm(case.key.algorithm) = r.algorithm

\* Runs whose last losses are apart by the signature of a true bug never agree, unless the
\* difference is no number, as that of a NaN or of two infinities is; files copied
\* to another root never pass for a second run where steps carry a time; the verdict does
\* not depend on which run comes first; and two runs within the tolerance of their family
\* with their checkpoints at hand do agree, whatever the signs of their losses.
PairSound ==
  case.of = "pair" =>
    LET x == Last(case.first.losses)
        y == Last(case.second.losses)
        delta == IF Missing \in {x, y} THEN NonFinite ELSE distance(x, y)
        verdict == judge_a4(case.first, case.second)
        family == resolve_tier_calibration(case.first.key) IN
    /\ delta # NonFinite /\ ~gt(A4_MIN_TRUE_BUG_SIGNATURE, delta) => ~verdict.passed
    /\ case.copied /\ case.first.timestamp # None /\ IsReading(x) /\ x # Infinity => ~verdict.passed
    /\ verdict.passed = judge_a4(case.second, case.first).passed
    /\ (/\ family # None /\ ~case.copied /\ None \notin {case.first.sha, case.second.sha}
        /\ delta # NonFinite /\ ~gt(delta, family.tol)) => verdict.passed

\* Two objects are alike as a reader would say, without counting points: the same keys,
\* every element of either list in the other, leaves equal and numbers near.
RECURSIVE Alike(_, _, _, _)
Alike(x, y, order, tolerance) ==
  LET element(e, f) == IF e.kind = "dict" /\ f.kind = "dict" THEN Alike(e, f, order, tolerance)
                       ELSE py_eq(e, f)
      value(k) ==
        LET a == x.m[k]
            b == y.m[k] IN
        IF a.kind = "dict" /\ b.kind = "dict" THEN Alike(a, b, order, tolerance)
        ELSE IF a.kind = "list" /\ b.kind = "list"
        THEN /\ \A f \in Items(b) : \E e \in Items(a) : element(e, f)
             /\ \A e \in Items(a) : \E f \in Items(b) : element(f, e)
             /\ order => py_eq(a, b)
        ELSE IF "num" \in {a.kind} \cap {b.kind}
        THEN LET wrong == abs(a.v - b.v) IN
             IF b.v = 0 THEN wrong = 0 ELSE wrong <= tolerance * abs(b.v)
        ELSE a.kind = b.kind /\ py_eq(a, b)
  IN keys(x) = keys(y) /\ \A k \in keys(x) : value(k)

\* Comparing two objects gives between nothing and all of the points, and all of them if and
\* only if they are alike; without the numbers, if and only if they are alike without them
\* (dict_compare_score).
ComparisonSound ==
  case.of = "objects" =>
    LET sound(r) ==
          /\ 0 <= r.check /\ r.check <= r.total
          /\ 0 <= r.base_check /\ r.base_check <= r.base_total
          /\ r.check = r.total <=> Alike(case.checked, case.target, case.order, case.tolerance)
          /\ all_right(r) <=> Alike(strip_numeric(case.checked), strip_numeric(case.target),
                                    case.order, 0)
    IN sound(dict_compare_score(case.checked, case.target, case.order, case.tolerance))

\* A reward is within its bounds, and only calls that are all right but for numbers, with
\* nothing parsed in error, get more than half of what there is for content.  Conversely
\* what is laid out as asked and is like one target, numbers included, or like all of them
\* but for numbers, is found all right.  A completion like one of several targets but for
\* its numbers need not be: the target with the most points decides, numbers included, and
\* a wrong one may have more of them (score_parsed, reward.py:136; score, reward.py:235).
RewardBounded ==
  LET sound(config, result, right, surely) ==
        /\ 0 <= result.raw /\ result.raw <= result.max + config.anti_useless
        /\ result.raw - (result.max - 2 * config.content) - config.anti_useless > config.content
             => result.all_right
        /\ result.all_right => right
        /\ surely => result.all_right
      alike(x, y) == Alike(strip_numeric(x), strip_numeric(y), case.config.order, 0)
      same(x, y) == Alike(x, y, case.config.order, case.config.tolerance)
      object(calls) == Dict([k \in {"tool_calls"} |-> List(calls)])
      called == object(case.parsed.calls)
      wanted == {object(case.targets[i]) : i \in DOMAIN case.targets}
      clean == ~case.parsed.errors /\ case.parsed.thinks
      marker(m) == [kind |-> "marker", s |-> m]
      fence(x) == <<marker("fence_json"), x, marker("fence")>>
      thought(text) == <<marker("<think>")>> \o text \o <<marker("</think>")>>
      laid_out(x) == IF case.config.check_think
                     THEN case.completion \in {thought(t) \o fence(x) :
                                                 t \in {<<>>, <<[kind |-> "text", v |-> 2]>>}}
                     ELSE case.completion = fence(x)
      answers(test(_)) == \E i \in DOMAIN case.completion :
                            /\ case.completion[i].kind = "dict"
                            /\ alike(case.completion[i], case.targets[1])
                            /\ test(case.completion[i])
  IN /\ case.of = "tool_calls" =>
          sound(case.config, score_tool_calls(case.config, case.parsed, case.targets),
                clean /\ \E t \in wanted : alike(called, t),
                /\ clean /\ case.parsed.calls # <<>> /\ case.parsed.extra <= 1
                /\ (\E t \in wanted : same(called, t)) \/ (\A t \in wanted : alike(called, t)))
     /\ case.of = "answer" =>
          sound(case.config, score_answer(case.config, case.completion, case.targets),
                answers(LAMBDA x : TRUE), answers(laid_out))

\* Comparisons of objects give what a reader would say; a wrong completion is never rewarded
\* as right, and a right one always is, but for what several targets hide (ripple/reward).
RewardSound == ComparisonSound /\ RewardBounded

\* The labels of the case, without and with the penalty for an unfinished end.
labelled ==
  IF case.format = "json" THEN annotate_json(case.text, JsonTarget, case.think)
  ELSE annotate_tool_call(case.text, <<<<case.target>>>>, case.think)
ended(tags) == apply_tail_eos(case.text, tags, case.format, case.truncated)

\* There is one first wrong piece at most, everything behind it is dropped, and nothing
\* else is.
OneError(tags) ==
  \A i \in DOMAIN case.text :
    tags[i] = "D" <=> \E j \in 1..(i - 1) : tags[j] = "E"

\* The labeler of tool calls takes a value to be one word: these pieces it finds wrong, though
\* they are the target's.
second_words ==
  {i \in DOMAIN case.text :
     case.format = "tool_call" /\ case.target = SpacedTarget /\ i > 2
       /\ SubSeq(case.text, i - 2, i) = value_text(two_words)}

\* What the target is rendered as has nothing wrong in it, in whatever order and with
\* whatever white space between its pieces, as long as no value has white space in it; each
\* of its values is a span of its field.
RightIsRight(labels, end) ==
  case.edit = "none" =>
    IF second_words # {} THEN \A i \in DOMAIN end : end[i] = "E" <=> i \in second_words
    ELSE
    /\ \A i \in DOMAIN end : end[i] \in {"S", "V", "T", "W"}
    /\ {span[3] : span \in value_spans(labels)} \ {""} =
         IF case.format = "json" THEN {"x", "y", "u"} ELSE {"x", "y"}

\* A right text that ends early has nothing wrong in it either, unless it ends within the name
\* of a parameter or in a mark right behind a value; only one that ended by itself is punished, at its end.
EndsEarly(tags, end) ==
  (/\ case.edit = "cut" \/ /\ case.edit = "cut in" /\ Last(case.text).of.kind = "mark"
                               /\ ~(case.at > 1 /\ case.text[case.at - 1].kind = "word")
   /\ case.format = "tool_call" => ~at(case.text, Len(case.text), mark("<parameter="))) =>
    /\ \A i \in DOMAIN case.text : tags[i] = "E" => i \in second_words
    /\ case.truncated => end = tags
    /\ (/\ ~case.truncated /\ \E i \in DOMAIN case.text : case.text[i] # ws
        /\ structure_incomplete(case.text, case.format)) => \E i \in DOMAIN case.text : end[i] = "E"

\* A text with structure and with nothing wrong in it is parsed to one call of the target's
\* function with the target's parameters, or to an object with keys of the target, as long
\* as no markup stands in a value, in thought or in waste.
LabelsAgreeWithParser(end, parsed) ==
  LET outside == {mark(m) : m \in {"<think>", "</think>", "quote", "fence", "fence_json"}}
      clean == /\ \E i \in DOMAIN end : end[i] = "S" /\ case.text[i] \notin outside
               /\ \A i \in DOMAIN end :
                    /\ end[i] # "E"
                    /\ end[i] \in {"V", "W", "T"} /\ case.text[i].kind = "mark" =>
                         case.text[i] \in IF end[i] = "V" THEN {mark("quote")} ELSE outside
      one_call(calls) == /\ Len(calls) = 1 /\ calls[1].name = Target.name
                         /\ DOMAIN calls[1].arguments = DOMAIN Target.arguments
      one_object(object) ==
        object.ok /\ (object.v.kind = "dict" => keys(object.v) \subseteq keys(JsonTarget))
  IN clean /\ ~case.truncated =>
       IF case.format = "tool_call" THEN one_call(parsed.calls)
       ELSE one_object(json_loads(json_body(case.text)))

\* A call in JSON is parsed without an error to the target's own, and yet its first brace is
\* labelled wrong.
JsonCallParsed(tags, parsed) ==
  case.edit = "json" =>
    LET brace == find(case.text, mark("{"), 1) IN
    /\ parsed.calls = <<case.target>> /\ ~parsed.errors
    /\ \A i \in DOMAIN tags : tags[i] = "E" <=> i = brace

LabelsSound ==
  case.of = "labels" =>
    \A labels \in {labelled}, parsed \in {parse_qwen_tool_completion(case.text, Tools)} :
      \A end \in {ended(labels.tags)} :
        /\ OneError(labels.tags) /\ RightIsRight(labels, end) /\ EndsEarly(labels.tags, end)
        /\ LabelsAgreeWithParser(end, parsed) /\ JsonCallParsed(end, parsed)

\* Value tokens of the completions of the group with their fields and advantages.
value_tokens(advantages) ==
  LET counted == [c \in DOMAIN case.group |-> ended_labels(case.group[c], case.format)]
      label(c, t) == token_label(counted[c], case.group[c].tokens[t])
  IN {[c |-> c, t |-> t, field |-> label(c, t).field, advantage |-> advantages[c][t]] :
        <<c, t>> \in {p \in UNION {{c} \X DOMAIN case.group[c].tokens : c \in DOMAIN case.group} :
                      label(p[1], p[2]).tag = "V"}}

\* Within a group the values of a field are measured against one another: a value that scores
\* more gets more, and where every value has a token within it, what some gain others lose.
\* Tokens that reach beyond their value are left out (compute_group_advantages).
AdvantagesSound ==
  case.of = "group" =>
    \A scores \in {span_scores(case.group, <<Target.arguments>>, case.format, case.tolerance)} :
    LET span(token) == {s \in scores :
                          LET at_ == case.group[token.c].tokens[token.t] IN
                          s.completion = token.c /\ at_[1] >= s.start /\ at_[2] <= s.end}
        raw(token) == (CHOOSE s \in span(token) : TRUE).raw
        firsts(of_f) == {token \in of_f : \A o \in of_f : span(o) = span(token) => token.t <= o.t}
        fair(f, of_f) ==
          /\ {s \in scores : s.field = f} = UNION {span(token) : token \in of_f} =>
               sum(firsts(of_f), LAMBDA token : token.advantage.n) = 0
          /\ \A a, b \in of_f : raw(a) > raw(b) => a.advantage.n > b.advantage.n
    IN \A advantages \in {compute_group_advantages(case.group, <<Target.arguments>>,
                                                    case.format, case.tolerance)} :
       \A tokens \in {value_tokens(advantages)}, f \in {"x", "y"} :
         fair(f, {token \in tokens : token.field = f /\ span(token) # {}})

\* The labels name one first wrong piece at most and drop what follows it; a right text, whole
\* or ended early, has none unless a value has white space in it; a text of the labelled form
\* without one is parsed to the target's names; and of the tokens that lie within their value
\* those that score more in the group get more (ripple/annotation).
AnnotationSound == LabelsSound /\ AdvantagesSound

\* A4 tells two runs that agree from two that do not, by a tolerance calibrated for their
\* family that no reading can raise beyond the signature of a bug (judge_a4, derive).
A4Sound == CalibrationSound /\ FamilyKept /\ PairSound
====
