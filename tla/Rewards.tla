---- MODULE Rewards ----
(***************************************************************************)
(* The reward of a completion (ripple/reward): how JSON objects are        *)
(* compared, with and without their numbers, and how the comparison with   *)
(* every target, the markers and the text around them make a reward.       *)
(*                                                                         *)
(* Scores are in units of 1/Unit.  A completion is the sequence of its     *)
(* markers, texts and JSON values; the length of a text counts in half     *)
(* lengths, as the penalty for it does.                                    *)
(***************************************************************************)
EXTENDS Integers, Sequences, FiniteSets

LOCAL INSTANCE FiniteSetsExt
LOCAL INSTANCE Functions

Unit == 60

\* JSON values.
Num(v) == [kind |-> "num", v |-> v]
Bool(v) == [kind |-> "bool", v |-> v]
Str(s) == [kind |-> "str", s |-> s]
Null == [kind |-> "null"]
Dict(m) == [kind |-> "dict", m |-> m]
List(l) == [kind |-> "list", l |-> l]

IsNumber(x) == x.kind = "num"
keys(d) == DOMAIN d.m
Items(x) == {x.l[i] : i \in DOMAIN x.l}
sum(S, op(_)) == MapThenSumSet(op, S)

\* Equality of Python, for which True is 1.
RECURSIVE py_eq(_, _)
py_eq(x, y) ==
  CASE x.kind \in {"num", "bool"} -> y.kind \in {"num", "bool"} /\ x.v = y.v
    [] x.kind = "list" -> /\ y.kind = "list" /\ Len(x.l) = Len(y.l)
                          /\ \A i \in DOMAIN x.l : py_eq(x.l[i], y.l[i])
    [] x.kind = "dict" -> /\ y.kind = "dict" /\ keys(x) = keys(y)
                          /\ \A k \in keys(x) : py_eq(x.m[k], y.m[k])
    [] OTHER -> x = y

-----------------------------------------------------------------------------
\* Comparison.

\* _strip_numeric: a number of a list becomes null; a key with a number, null or nothing
\* but numbers goes.
RECURSIVE strip_numeric(_)
strip_numeric(x) ==
  IF x.kind = "dict"
  THEN LET kept == {k \in keys(x) : strip_numeric(x.m[k]) \notin {Null, Dict(<<>>)}}
       IN Dict([k \in kept |-> strip_numeric(x.m[k])])
  ELSE IF x.kind = "list" THEN List([i \in DOMAIN x.l |-> strip_numeric(x.l[i])])
  ELSE IF IsNumber(x) THEN Null ELSE x

\* Points a target gives: one for itself, one for each key and one for each leaf; a list
\* has one for having no other elements, and one for its order where that is checked.
RECURSIVE count_target_score(_, _)
count_target_score(target, order) ==
  LET item(x) == IF x.kind = "dict" THEN count_target_score(x, order) ELSE 1
      points(k) ==
        LET x == target.m[k] IN
        1 + (IF x.kind = "list"
             THEN 1 + sum(DOMAIN x.l, LAMBDA i : item(x.l[i])) + (IF order THEN 1 ELSE 0)
             ELSE item(x))
  IN 1 + sum(keys(target), points)

\* A number scores by its relative error beyond the tolerance; else right is right.
leaf_compare_score(checked, target, tolerance) ==
  IF "bool" \in {checked.kind, target.kind} THEN IF checked = target THEN Unit ELSE 0
  ELSE IF IsNumber(checked) /\ IsNumber(target)
  THEN LET size(x) == IF x < 0 THEN -x ELSE x
           wrong == size(checked.v - target.v)
           clipped == IF wrong > tolerance * size(target.v)
                      THEN wrong - tolerance * size(target.v) ELSE 0
       IN IF target.v = 0 THEN Unit \div (1 + wrong)
          ELSE (Unit * size(target.v)) \div (size(target.v) + clipped)
  ELSE IF py_eq(checked, target) THEN Unit ELSE 0

\* Variant: elements of the completion beyond those of the target cost nothing.
no_extra_any(items, matched) == TRUE

\* Every element of the completion's list is matched by one of the target's.
no_extra(items, matched) == items \subseteq matched

RECURSIVE count_check_score(_, _, _, _)
count_check_score(checked, target, order, tolerance) ==
  LET best(items, e) ==
        IF e.kind # "dict" THEN IF \E x \in items : py_eq(x, e) THEN Unit ELSE 0
        ELSE Max({0} \cup {count_check_score(x, e, order, tolerance) :
                             x \in {y \in items : y.kind = "dict"}})
      full(e) == IF e.kind = "dict" THEN Unit * count_target_score(e, order) ELSE Unit
      found(items, e) == best(items, e) = full(e)
      list_score(x, y) ==
        LET all_checked == no_extra(Items(x), {e \in Items(x) : found(Items(y), e)})
            all_target == \A e \in Items(y) : found(Items(x), e) IN
        sum(DOMAIN y.l, LAMBDA i : best(Items(x), y.l[i]))
        + (IF all_checked THEN Unit ELSE 0)
        + (IF all_checked /\ all_target /\ order /\ py_eq(x, y) THEN Unit ELSE 0)
      value_score(x, y) ==
        IF x.kind = "dict" /\ y.kind = "dict" THEN count_check_score(x, y, order, tolerance)
        ELSE IF x.kind = "list" /\ y.kind = "list" THEN list_score(x, y)
        ELSE leaf_compare_score(x, y, tolerance)
  IN sum(keys(target) \intersect keys(checked),
         LAMBDA k : Unit + value_score(checked.m[k], target.m[k]))
     + (IF keys(checked) \subseteq keys(target) THEN Unit ELSE 0)

\* The share of the points is a number of units over all points.
dict_compare_score(checked, target, order, tolerance) ==
  LET c == strip_numeric(checked)
      t == strip_numeric(target)
  IN [check |-> count_check_score(checked, target, order, tolerance),
      total |-> Unit * count_target_score(target, order),
      base_check |-> count_check_score(c, t, order, 0),
      base_total |-> Unit * count_target_score(t, order)]

share(check, total) == (Unit * Unit * check) \div total
dcs(r) == share(r.check, r.total)
base_dcs(r) == share(r.base_check, r.base_total)
all_right(r) == r.base_check = r.base_total

-----------------------------------------------------------------------------
\* The reward.  Weights are in units of dcs.

\* Half as much for each half length of other text.
useless_text_score(config, length) == config.anti_useless \div (2 ^ length)

\* The first of the targets with the best comparison decides.
best_target(results) ==
  IF results = <<>> THEN 0
  ELSE CHOOSE i \in DOMAIN results :
         /\ \A j \in DOMAIN results : dcs(results[j]) <= dcs(results[i])
         /\ \A j \in DOMAIN results : j < i => dcs(results[j]) < dcs(results[i])

\* The content counts only when all but its numbers is right, and then once more.
content_reward(config, r, right) ==
  IF r.base_check = r.base_total
  THEN (config.content * dcs(r)) \div (Unit * Unit) + (IF right THEN config.content ELSE 0)
  ELSE (config.content * base_dcs(r)) \div (Unit * Unit)

\* What the comparisons bring: the reward for the content, and whether all of it is right.
content_part(config, results, errors) ==
  LET i == best_target(results)
      right == i # 0 /\ all_right(results[i]) /\ ~errors
  IN [reward |-> IF i = 0 THEN 0 ELSE content_reward(config, results[i], right),
      all_right |-> right]

\* score_parsed for tool calls: the calls of a completion against those of each target, as
\* long as there are not more than of the longest and not much other text.
score_tool_calls(config, parsed, targets) ==
  LET think_ok == ~config.check_think \/ parsed.thinks
      max_tc == Max({0} \cup {Len(t) : t \in {targets[i] : i \in DOMAIN targets}})
      counted == parsed.calls # <<>> /\ think_ok
      compared == counted /\ Len(parsed.calls) <= max_tc /\ parsed.extra <= 1
      object(calls) == Dict([k \in {"tool_calls"} |-> List(calls)])
      results == IF ~compared THEN <<>>
                 ELSE [i \in DOMAIN targets |->
                         dict_compare_score(object(parsed.calls), object(targets[i]),
                                            config.order, config.tolerance)]
      content == content_part(config, results, parsed.errors)
  IN [raw |-> (IF config.check_think /\ parsed.thinks THEN 2 * config.marker ELSE 0)
              + (IF counted /\ Len(parsed.calls) <= max_tc THEN config.marker ELSE 0)
              + content.reward + useless_text_score(config, parsed.extra),
      max |-> 2 * config.content + config.marker
              + (IF config.check_think THEN 2 * config.marker ELSE 0),
      all_right |-> content.all_right]

\* _build_check_list: markers, the field of the answer, and "-" where text is of no field.
build_check_list(config) ==
  (IF config.check_think THEN <<"<think>", "-", "</think>", "-">> ELSE <<>>)
  \o (IF config.check_json_markdown THEN <<"fence_json", "answer", "fence">> ELSE <<"answer">>)

Markers == {"<think>", "</think>", "fence_json", "fence"}

\* The walk through a completion along the check list, from a position of it: what is
\* extracted for the answer, the other text, and the markers found.  A marker that is
\* missing ends the walk; the field it would have closed is all that is left.
RECURSIVE walk(_, _, _, _)
walk(completion, list, pos, field) ==
  LET rest(from) == SubSeq(completion, from, Len(completion))
      ended == [answer |-> IF field THEN <<rest(pos)>> ELSE <<>>,
                useless |-> IF field THEN <<>> ELSE rest(pos), found |-> 0]
  IN IF list = <<>> THEN ended
     ELSE IF Head(list) \notin Markers
     THEN walk(completion, Tail(list), pos, Head(list) = "answer")
     ELSE LET hits == {i \in pos..Len(completion) :
                         completion[i].kind = "marker" /\ completion[i].s = Head(list)}
              at == Min(hits)
              passed == SubSeq(completion, pos, at - 1)
              after == walk(completion, Tail(list), at + 1, FALSE)
          IN IF hits = {} THEN ended
             ELSE [answer |-> IF field THEN <<passed>> \o after.answer ELSE after.answer,
                   useless |-> IF field THEN after.useless ELSE passed \o after.useless,
                   found |-> after.found + 1]

length(texts) == sum({i \in DOMAIN texts : texts[i].kind = "text"}, LAMBDA i : texts[i].v)

\* score for a JSON answer: what was extracted must be one JSON value, an object to be
\* compared.
score_answer(config, completion, targets) ==
  LET list == build_check_list(config)
      json(w) == w.answer # <<>> /\ Len(Head(w.answer)) = 1
              /\ Head(w.answer)[1].kind \notin {"text", "marker"}
      results(w) ==
        IF json(w) /\ length(w.useless) <= 1 /\ Head(w.answer)[1].kind = "dict"
        THEN [i \in DOMAIN targets |-> dict_compare_score(Head(w.answer)[1], targets[i],
                                                         config.order, config.tolerance)]
        ELSE <<>>
      markers == Cardinality({j \in DOMAIN list : list[j] \in Markers})
      scored(w, content) ==
        [raw |-> w.found * config.marker + (IF json(w) THEN config.marker ELSE 0)
                 + content.reward + useless_text_score(config, length(w.useless)),
         max |-> markers * config.marker + 2 * config.content + config.marker,
         all_right |-> content.all_right]
      walked == walk(completion, list, 1, FALSE)
  IN scored(walked, content_part(config, results(walked), FALSE))
====
