---- MODULE Annotation ----
(***************************************************************************)
(* What a completion is told piece by piece (ripple/annotation): the label *)
(* of every piece of a tool call or a JSON answer against the target, the  *)
(* penalty for an unfinished end, the label of a token made of pieces, and *)
(* the advantage every token gets within its group.  A label is S          *)
(* (structure), V (value), T (think), W (waste), E (the first wrong piece) *)
(* or D (whatever follows it).                                             *)
(***************************************************************************)
EXTENDS Parsing

LOCAL INSTANCE FiniteSetsExt
LOCAL INSTANCE SequencesExt

\* Labels and fields of a text; waste, of no field, to begin with.
unlabelled(text) ==
  [tags |-> [i \in DOMAIN text |-> "W"], fields |-> [i \in DOMAIN text |-> ""]]

tag(labels, places, t) ==
  [labels EXCEPT !.tags = [i \in DOMAIN @ |-> IF i \in places THEN t ELSE @[i]]]

of_field(labels, places, f) ==
  [labels EXCEPT !.fields = [i \in DOMAIN @ |-> IF i \in places THEN f ELSE @[i]]]

\* Variant: what follows the first wrong piece keeps its label.
error_only(labels, i) == tag(labels, {i}, "E")

\* The first wrong piece, and all that follows dropped.
error(labels, i) ==
  tag(tag(labels, {i}, "E"), {j \in DOMAIN labels.tags : j > i}, "D")

-----------------------------------------------------------------------------
\* Tool calls.

\* What the targets expect: the first function named, its parameters, their values.
calls_of(targets) == FlattenSeq(targets)
target_fn_name(targets) == Head(calls_of(targets)).name
target_param_types(targets) ==
  FoldSeq(LAMBDA call, types : types @@ call.arguments, <<>>,
          SelectSeq(calls_of(targets), LAMBDA call : call.name = target_fn_name(targets)))
target_params(targets) == DOMAIN Head(calls_of(targets)).arguments

\* The expected pieces against the text from the place of a state on, white space skipped:
\* as far as the text goes they must be these.  A state that is wrong already stays.
match_expected(state, text, expected, consume_newline) ==
  LET first == first_non_blank(text, state.pos)
      there(i) == first + i - 1
      same(i) == \/ text[there(i)] = expected[i]
                 \/ text[there(i)] = cut(expected[i]) /\ there(i) = Len(text)
      reached == {i \in DOMAIN expected : there(i) <= Len(text)}
      wrong == {i \in reached : ~same(i)}
      end == Min({first + Len(expected), Len(text) + 1})
      newline == IF consume_newline /\ at(text, end, ws) THEN 1 ELSE 0
  IN IF ~state.ok THEN state
     ELSE IF wrong # {}
     THEN LET w == Min(wrong) IN
          [ok |-> FALSE, pos |-> there(w),
           labels |-> error(tag(state.labels, {there(i) : i \in 1..(w - 1)}, "S"), there(w))]
     ELSE [ok |-> TRUE, pos |-> end + newline,
           labels |-> tag(state.labels, first..(end + newline - 1), "S")]

\* A value without white space, a number where the target has one.
fits_type(value, wanted) ==
  wanted.kind # "num" \/ (Len(value) = 1 /\ value[1].kind = "word" /\ value[1].v.kind = "num")

\* One parameter, from its mark on; they come in any order, but one the target does not
\* have is wrong.  Without the ">" of its name, what should be it is
\* wrong, or the mark if the text ends.
param_chunk(labels, text, first, targets) ==
  LET n == Len(text)
      stop(l) == [ok |-> FALSE, pos |-> first, labels |-> l, name |-> ""]
      the_name == text[first + 1]
      next == Min({i \in (first + 1)..n : text[i].kind \in {"ws", "mark", "name"}} \cup {n + 1})
      complete == next <= n /\ text[next].kind # "ws"
      opened == tag(labels, {first, first + 1}, "S")
      v_start == first_non_blank(text, first + 2)
      v_end == Min({i \in v_start..n : text[i] \in {ws, mark("</parameter>")}} \cup {n + 1})
      value == v_start..(v_end - 1)
      valued == of_field(tag(opened, value, "V"), value, the_name.s)
      closed == match_expected([ok |-> TRUE, pos |-> v_end, labels |-> valued], text,
                               <<mark("</parameter>")>>, TRUE)
  IN IF next > n THEN stop(error(labels, first))
     ELSE IF ~complete THEN stop(error(tag(labels, first..(next - 1), "S"), next))
     ELSE IF the_name.kind # "name" \/ the_name.s \notin target_params(targets)
     THEN stop(error(tag(labels, {first}, "S"), first + 1))
     ELSE IF v_end = v_start /\ v_start <= n
     THEN stop(error(opened, IF v_start > first + 2 THEN v_start - 1 ELSE v_start))
     ELSE IF value # {} /\ ~fits_type(SubSeq(text, v_start, v_end - 1),
                                      target_param_types(targets)[the_name.s])
     THEN stop(error(opened, v_start))
     ELSE closed @@ [name |-> the_name.s]

\* All parameters; a parameter of the target that is missing is expected in their place.
RECURSIVE match_parameters(_, _, _, _)
match_parameters(state, text, targets, seen) ==
  LET first == first_non_blank(text, state.pos)
      chunk == param_chunk(state.labels, text, first, targets)
      missing == target_params(targets) \ seen
  IN IF ~state.ok THEN state
     ELSE IF at(text, first, mark("<parameter="))
     THEN match_parameters(chunk, text, targets, seen \cup {chunk.name})
     ELSE IF missing = {} THEN state
     ELSE match_expected(state, text,
                         <<mark("<parameter="), name(CHOOSE p \in missing : TRUE)>>, TRUE)

\* The labels of a tool call: what is behind it is wrong, what is before it waste.
annotate_tool_call(text, targets, check_think) ==
  LET th_open == find(text, mark("<think>"), 1)
      th_close == find(text, mark("</think>"), th_open + 1)
      thinks == check_think /\ th_open # 0 /\ th_close # 0
      thought == IF ~thinks THEN unlabelled(text)
                 ELSE tag(tag(unlabelled(text), {th_open, th_close}, "S"),
                          (th_open + 1)..(th_close - 1), "T")
      open == find(text, mark("<tool_call>"), IF thinks THEN th_close + 1 ELSE 1)
      opened == match_expected([ok |-> TRUE, pos |-> open, labels |-> thought], text,
                               <<mark("<tool_call>")>>, TRUE)
      function == match_expected(opened, text,
                                 <<mark("<function="), name(target_fn_name(targets))>>, TRUE)
      params == match_parameters(function, text, targets, {})
      closed == match_expected(params, text, <<mark("</function>")>>, TRUE)
      finished(state) == IF state.ok /\ state.pos <= Len(text) THEN error(state.labels, state.pos)
                         ELSE state.labels
  IN IF open = 0 THEN thought
     ELSE finished(match_expected(closed, text, <<mark("</tool_call>")>>, FALSE))

-----------------------------------------------------------------------------
\* JSON.

\* What is known of the target at a key: its object, or the first object of its list.
child_gt(ctx, key) ==
  LET value == ctx.m[key]
      objects == SelectSeq(value.l, LAMBDA e : e.kind = "dict") IN
  IF ctx = Null \/ key \notin keys(ctx) THEN Null
  ELSE IF value.kind = "dict" THEN value
  ELSE IF value.kind = "list" /\ objects # <<>> THEN Head(objects) ELSE Null

\* Keys that begin alike are taken for typing errors of one another.
CONSTANT Typos

\* A key is one of the target's, a typing error of one, or one too many.
check_key(key, gt) ==
  IF gt = Null \/ key \in keys(gt) THEN "ok"
  ELSE IF \E k \in keys(gt) : <<key, k>> \in Typos THEN "typo" ELSE "extra"

closes(bracket) == IF bracket = "}" THEN "{" ELSE "["

\* What happens to the state of the scan at its place: the labels, the open brackets, the
\* targets they stand for, whether a colon was read, and the key whose value is to come.
scan_mark(state, text) ==
  LET i == state.i
      c == text[i].s
      next == [state EXCEPT !.labels = tag(@, {i}, "S"), !.i = i + 1, !.after_colon = FALSE]
      failed == [state EXCEPT !.labels = error(@, i), !.i = Len(text) + 1, !.ok = FALSE]
      top == state.stack # <<>> /\ c \in {"}", "]"} /\ Last(state.stack) = closes(c)
  IN CASE c = "{" -> [next EXCEPT !.stack = Append(@, "{"),
                        !.ctx = Append(@, IF state.stack = <<>> THEN Last(@)
                                          ELSE child_gt(Last(@), state.key))]
       [] c = "[" -> [next EXCEPT !.stack = Append(@, "[")]
       [] c = "}" /\ top -> [next EXCEPT !.stack = Front(@), !.ctx = Front(@), !.key = ""]
       [] c = "]" /\ top -> [next EXCEPT !.stack = Front(@)]
       [] c = ":" -> [next EXCEPT !.after_colon = TRUE]
       [] c = "," -> next
       [] OTHER -> failed

\* A string is a key or a value; one that does not end is a value.
scan_string(state, text) ==
  LET i == state.i
      end == find(text, mark("quote"), i + 1)
      inside == SubSeq(text, i + 1, end - 1)
      key == as_string(inside).s
      gt == Last(state.ctx)
      in_object == state.stack # <<>> /\ Last(state.stack) = "{"
      in_array == state.stack # <<>> /\ Last(state.stack) = "["
      is_key == in_object /\ ~state.after_colon
      verdict == check_key(key, gt)
      number == ~in_array /\ gt # Null /\ state.key \in keys(gt) /\ IsNumber(gt.m[state.key])
      failed(labels, at_) == [state EXCEPT !.labels = error(labels, at_), !.i = Len(text) + 1,
                                           !.ok = FALSE]
  IN IF is_key /\ i > 1 /\ text[i - 1] \in {mark("]"), mark("}")} THEN failed(state.labels, i)
     ELSE IF end = 0
     THEN [state EXCEPT !.labels = of_field(tag(@, i..Len(text), "V"), i..Len(text), state.key),
                        !.i = Len(text) + 1, !.ok = FALSE]
     ELSE IF is_key /\ verdict = "ok"
     THEN [state EXCEPT !.labels = tag(@, i..end, "S"), !.key = key, !.i = end + 1]
     ELSE IF is_key
     THEN IF verdict = "typo" THEN failed(tag(state.labels, {i}, "S"), i + 1)
          ELSE failed(state.labels, i)
     ELSE IF number THEN failed(state.labels, i)
     ELSE [state EXCEPT !.labels = of_field(tag(@, i..end, "V"), i..end,
                                            IF in_array THEN "" ELSE state.key),
                        !.key = "", !.i = end + 1]

\* A number, true, false or null, as a value only.
scan_scalar(state, text) ==
  LET i == state.i
      end == Min({j \in i..Len(text) : text[j] \in {ws, mark(","), mark("}"), mark("]")}}
                 \cup {Len(text) + 1}) - 1
      in_array == state.stack # <<>> /\ Last(state.stack) = "["
  IN IF text[i].v.kind \in {"num", "bool", "null"} /\ (state.after_colon \/ in_array)
     THEN [state EXCEPT !.labels = of_field(tag(@, i..end, "V"), i..end,
                                            IF in_array THEN "" ELSE state.key),
                        !.key = "", !.i = end + 1]
     ELSE [state EXCEPT !.labels = error(@, i), !.i = Len(text) + 1, !.ok = FALSE]

is_fence(piece) == piece \in {mark("fence"), mark("fence_json")}

RECURSIVE scan(_, _)
scan(state, text) ==
  IF state.i > Len(text) \/ is_fence(text[state.i]) THEN state
  ELSE LET piece == text[state.i] IN
       IF piece = ws THEN scan([state EXCEPT !.i = @ + 1], text)
       ELSE IF piece = mark("quote") THEN scan(scan_string(state, text), text)
       ELSE IF piece.kind = "word" THEN scan(scan_scalar(state, text), text)
       ELSE scan(scan_mark(state, text), text)

\* The labels of a JSON answer: without its fence the first piece that could begin one is
\* wrong; with it, the scan, and the fence that ends it.
annotate_json(text, gt, check_json_markdown) ==
  LET fence == find(text, mark("fence_json"), 1)
      first == first_non_blank(text, 1)
      begins == first <= Len(text)
                /\ (text[first] \in {mark("{"), mark("["), mark("quote")}
                    \/ (text[first].kind = "word" /\ IsNumber(text[first].v)))
      newline == IF at(text, fence + 1, ws) THEN {fence + 1} ELSE {}
      from == IF check_json_markdown THEN Max({fence} \cup newline) + 1 ELSE 1
      fenced == IF check_json_markdown THEN tag(unlabelled(text), {fence} \cup newline, "S")
                ELSE unlabelled(text)
      end == scan([labels |-> fenced, i |-> from, stack |-> <<>>, ctx |-> <<gt>>,
                   after_colon |-> FALSE, key |-> "", ok |-> TRUE], text)
      fend == Min({i \in from..Len(text) : is_fence(text[i])} \cup {Len(text) + 1})
  IN IF check_json_markdown /\ fence = 0
     THEN IF begins THEN error(unlabelled(text), first) ELSE unlabelled(text)
     ELSE IF end.ok /\ check_json_markdown /\ fend <= Len(text)
     THEN tag(end.labels, {fend} \cup (IF at(text, fend - 1, ws) THEN {fend - 1} ELSE {}), "S")
     ELSE end.labels

-----------------------------------------------------------------------------
\* The end of a completion.

structure_incomplete(text, format) ==
  IF format = "tool_call" THEN find(text, mark("</tool_call>"), 1) = 0
  ELSE ~json_loads(json_body(text)).ok

\* A completion that ends too early by itself has its last piece wrong.
apply_tail_eos(text, tags, format, truncated_by_max) ==
  LET solid == {i \in DOMAIN text : text[i] # ws} IN
  IF truncated_by_max \/ solid = {} \/ (\E i \in DOMAIN tags : tags[i] = "E")
     \/ ~structure_incomplete(text, format)
  THEN tags ELSE [tags EXCEPT ![Max(solid)] = "E"]

-----------------------------------------------------------------------------
\* Tokens.  A token is <<start, end>>, the pieces from start to end - 1; a score is in
\* units, an advantage a fraction [n, d] of them.

MergeOrder == <<"E", "V", "S", "T", "D", "W">>

\* The first of these labels that a piece of the token has, and the first field.
token_label(labels, token) ==
  LET pieces == token[1]..(token[2] - 1)
      tags == {labels.tags[i] : i \in pieces}
      fielded == {i \in pieces : labels.fields[i] # ""} IN
  [tag |-> MergeOrder[Min({k \in DOMAIN MergeOrder : MergeOrder[k] \in tags})],
   field |-> IF fielded = {} THEN "" ELSE labels.fields[Min(fielded)]]

\* The runs of value pieces of one field.
value_spans(labels) ==
  LET of(i, f) == i \in DOMAIN labels.tags /\ labels.tags[i] = "V" /\ labels.fields[i] = f
      end(i, f) == Min({j \in (i + 1)..(Len(labels.tags) + 1) : ~of(j, f)})
      starts == {<<i, f>> \in (DOMAIN labels.tags) \X Range(labels.fields) :
                   of(i, f) /\ ~of(i - 1, f)}
  IN {<<s[1], end(s[1], s[2]), s[2]>> : s \in starts}

\* A value between quotes is a string, a number a number, and all else a string.
parse_value(pieces) ==
  LET inner == IF Len(pieces) >= 2 /\ Head(pieces) = mark("quote") /\ Last(pieces) = mark("quote")
               THEN Front(Tail(pieces)) ELSE pieces IN
  IF inner = pieces /\ Len(pieces) = 1 /\ pieces[1].kind = "word" /\ IsNumber(pieces[1].v)
  THEN pieces[1].v ELSE as_string(inner)

\* The value of a list is right if it is one of its elements.
field_score(pieces, gt, tolerance) ==
  LET v == parse_value(pieces)
      found(e) == IF IsNumber(e) THEN IsNumber(v) /\ leaf_compare_score(v, e, tolerance) = Unit
                  ELSE py_eq(v, e) IN
  IF gt.kind = "list" THEN IF \E e \in Items(gt) : found(e) THEN Unit ELSE 0
  ELSE leaf_compare_score(v, gt, tolerance)

\* The first target that has the field, whichever target the completion follows.
gt_value_for_field(contents, field) ==
  LET having == {i \in DOMAIN contents : field \in DOMAIN contents[i]} IN
  IF having = {} THEN Null ELSE contents[Min(having)][field]

\* A completion of a group with its labels as they count: with the penalty for its end.
ended_labels(completion, format) ==
  [completion.labels EXCEPT !.tags = apply_tail_eos(completion.text, @, format,
                                                    completion.truncated_by_max)]

\* Spans of a group of completions with what they score; a field without a target scores
\* nothing.
span_scores(group, contents, format, tolerance) ==
  {[completion |-> c, start |-> span[1], end |-> span[2], field |-> span[3],
    raw |-> LET gt == gt_value_for_field(contents, span[3]) IN
            IF gt = Null THEN 0
            ELSE field_score(SubSeq(group[c].text, span[1], span[2] - 1), gt, tolerance)] :
     <<c, span>> \in UNION {{c} \X value_spans(ended_labels(group[c], format)) : c \in DOMAIN group}}

\* Variant: a value counts for what it scores, whatever the others of its group do.
relative_to_nothing(raw, scores) == [n |-> raw, d |-> 1]

\* A value counts for what it scores more than the mean of its field in the group.
relative(raw, scores) ==
  [n |-> raw * Cardinality(scores) - sum(scores, LAMBDA s : s.raw), d |-> Cardinality(scores)]

\* The advantage of every token: right structure gains, the first wrong piece loses, a
\* value counts as the span it lies in, whole, does.
compute_group_advantages(group, contents, format, tolerance) ==
  LET spans == span_scores(group, contents, format, tolerance)
      ended == [c \in DOMAIN group |-> ended_labels(group[c], format)]
      field_scores(f) == {s \in spans : s.field = f}
      of(c, token) ==
        LET label == token_label(ended[c], token)
            within == {s \in spans : s.completion = c /\ token[1] >= s.start /\ token[2] <= s.end}
            raw == IF within = {} THEN 0 ELSE (CHOOSE s \in within : TRUE).raw
            scores == field_scores(label.field)
        IN CASE label.tag = "S" -> [n |-> Unit, d |-> 1]
             [] label.tag = "V" -> IF scores = {} THEN [n |-> raw, d |-> 1]
                                   ELSE relative(raw, scores)
             [] label.tag = "E" -> [n |-> -Unit, d |-> 1]
             [] OTHER -> [n |-> 0, d |-> 1]
  IN [c \in DOMAIN group |-> [t \in DOMAIN group[c].tokens |-> of(c, group[c].tokens[t])]]
====
