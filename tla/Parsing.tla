---- MODULE Parsing ----
(***************************************************************************)
(* The texts of completions and how they are parsed (ripple/parsing): tool *)
(* calls in the markup of Qwen or in JSON, their arguments by the types of *)
(* the tools, what is reported as an error and what is left as other text; *)
(* and the text a target is rendered as.                                   *)
(*                                                                         *)
(* A text is a sequence of pieces: marks of the markup or of JSON, names   *)
(* with the ">" behind them, values and white space.                       *)
(***************************************************************************)
EXTENDS Rewards

LOCAL INSTANCE FiniteSetsExt
LOCAL INSTANCE SequencesExt

mark(s) == [kind |-> "mark", s |-> s]
name(s) == [kind |-> "name", s |-> s]
bare(s) == [kind |-> "bare", s |-> s]      \* a name without the ">"
word(v) == [kind |-> "word", v |-> v]
cut(piece) == [kind |-> "cut", of |-> piece] \* its first characters, at the end of a text
ws == [kind |-> "ws"]

\* A string of two words, which stands for all strings that are not one word.
two_words == Str("other")

\* The string of some pieces.
as_string(pieces) ==
  IF Len(pieces) = 1 /\ pieces[1].kind = "word" /\ pieces[1].v.kind = "str"
  THEN pieces[1].v ELSE two_words

at(text, i, piece) == i \in DOMAIN text /\ text[i] = piece

\* The first place of a piece, 0 if there is none.
find(text, piece, from) == Min({i \in from..Len(text) : text[i] = piece} \cup {Len(text) + 1})
                             % (Len(text) + 1)

\* The places of a set in order.
ascending(S) == SelectSeq([i \in 1..Max(S \cup {0}) |-> i], LAMBDA i : i \in S)

first_non_blank(text, from) == Min({i \in from..Len(text) : text[i] # ws} \cup {Len(text) + 1})

-----------------------------------------------------------------------------
\* JSON.

\* json.loads of a text of pieces: what the value at a place is and where it ends, 0 for
\* no value.
RECURSIVE json_value(_, _), json_members(_, _, _)
json_value(text, i) ==
  LET none == [v |-> Null, end |-> 0]
      close == find(text, mark("quote"), i + 1) IN
  IF i > Len(text) THEN none
  ELSE IF text[i].kind = "word" /\ text[i].v.kind # "str" THEN [v |-> text[i].v, end |-> i + 1]
  ELSE IF at(text, i, mark("quote")) /\ close # 0
  THEN [v |-> as_string(SubSeq(text, i + 1, close - 1)), end |-> close + 1]
  ELSE IF at(text, i, mark("{"))
  THEN IF at(text, i + 1, mark("}")) THEN [v |-> Dict(<<>>), end |-> i + 2]
       ELSE LET m == json_members(text, i + 1, "{") IN
            IF m.end = 0 THEN none
            ELSE [v |-> Dict([k \in {p[1] : p \in Range(m.list)} |->
                                LET last == Max({j \in DOMAIN m.list : m.list[j][1] = k})
                                IN m.list[last][2]]), end |-> m.end]
  ELSE IF at(text, i, mark("["))
  THEN IF at(text, i + 1, mark("]")) THEN [v |-> List(<<>>), end |-> i + 2]
       ELSE LET m == json_members(text, i + 1, "[") IN
            IF m.end = 0 THEN none
            ELSE [v |-> List([j \in DOMAIN m.list |-> m.list[j][2]]), end |-> m.end]
  ELSE none

json_members(text, i, bracket) ==
  LET key == json_value(text, i)
      keyed == key.end # 0 /\ key.v.kind = "str" /\ at(text, key.end, mark(":"))
      value == json_value(text, IF bracket = "{" THEN key.end + 1 ELSE i)
      member == <<IF bracket = "{" THEN key.v.s ELSE "", value.v>>
      others == json_members(text, value.end + 1, bracket)
  IN IF (bracket = "{" /\ ~keyed) \/ value.end = 0 THEN [list |-> <<>>, end |-> 0]
     ELSE IF at(text, value.end, mark(IF bracket = "{" THEN "}" ELSE "]"))
     THEN [list |-> <<member>>, end |-> value.end + 1]
     ELSE IF at(text, value.end, mark(","))
     THEN [list |-> <<member>> \o others.list, end |-> others.end]
     ELSE [list |-> <<>>, end |-> 0]

json_loads(text) ==
  LET solid == SelectSeq(text, LAMBDA piece : piece # ws)
      value == json_value(solid, 1) IN
  [ok |-> value.end = Len(solid) + 1, v |-> value.v]

\* What is between the fences.
json_body(text) ==
  LET fence == find(text, mark("fence_json"), 1)
      end == Min({i \in (fence + 1)..Len(text) : text[i] \in {mark("fence"), mark("fence_json")}}
                 \cup {Len(text) + 1}) IN
  IF fence = 0 THEN text ELSE SubSeq(text, fence + 1, end - 1)

-----------------------------------------------------------------------------
\* Tool calls.

Opening == {"<think>", "<tool_call>", "<function=", "<parameter="}
closing_of(s) == CASE s = "<think>" -> "</think>" [] s = "<tool_call>" -> "</tool_call>"
                   [] s = "<function=" -> "</function>" [] s = "<parameter=" -> "</parameter>"
Closing == {closing_of(s) : s \in Opening}

is_open(piece) == piece.kind = "mark" /\ piece.s \in Opening
is_close(piece) == piece.kind = "mark" /\ piece.s \in Closing
named(s) == s \in {"<function=", "<parameter="}

\* Open elements behind every place, and where the element that begins at one ends.
depths(text) ==
  LET step(piece) == IF is_open(piece) THEN 1 ELSE IF is_close(piece) THEN -1 ELSE 0
      d[i \in 0..Len(text)] == IF i = 0 THEN 0 ELSE d[i - 1] + step(text[i])
  IN d
partner(d, i) == Min({j \in (i + 1)..Max(DOMAIN d) : d[j] < d[i]})

\* Elements within one another, each begun, named and ended as it must be.
well_formed(text, d) ==
  /\ d[Len(text)] = 0
  /\ \A i \in DOMAIN text :
       /\ d[i] >= 0 /\ text[i].kind # "cut"
       /\ is_open(text[i]) => /\ text[partner(d, i)] = mark(closing_of(text[i].s))
                              /\ named(text[i].s) => text[i + 1].kind = "name"

\* An argument by the type the tools give its parameter; what does not fit stays a string.
coerce_tool_argument(type, raw) ==
  LET only == Len(raw) = 1 /\ raw[1].kind = "word" IN
  IF type = "number" /\ only /\ raw[1].v.kind = "num" THEN [v |-> raw[1].v, error |-> FALSE]
  ELSE IF type = "boolean" /\ only /\ raw[1].v.kind = "bool" THEN [v |-> raw[1].v, error |-> FALSE]
  ELSE [v |-> as_string(raw), error |-> type \in {"number", "boolean"}]

\* The calls of one body: the functions directly in it, with the parameters directly in
\* them; text behind a function or between its parameters goes unnoticed.
parse_xml(text, tools) ==
  LET d == depths(text)
      child(i, level) == is_open(text[i]) /\ d[i] = level
      functions == {i \in DOMAIN text : child(i, 1) /\ text[i].s = "<function="}
      inside(i) == {j \in i..partner(d, i) : child(j, 2) /\ text[j].s = "<parameter="}
      raw(j) == LET e == Min({k \in (j + 1)..Len(text) : is_open(text[k]) \/ is_close(text[k])})
                IN SelectSeq(SubSeq(text, j + 2, e - 1), LAMBDA piece : piece # ws)
      args(i) == {text[j + 1].s : j \in inside(i)}
      last(i, p) == Max({j \in inside(i) : text[j + 1].s = p})
      type(i, p) == IF text[i + 1].s \in DOMAIN tools /\ p \in DOMAIN tools[text[i + 1].s]
                    THEN tools[text[i + 1].s][p] ELSE "string"
      value(i, j) == coerce_tool_argument(type(i, text[j + 1].s), raw(j))
      required(i) == IF text[i + 1].s \in DOMAIN tools THEN DOMAIN tools[text[i + 1].s] ELSE {}
      before == \E i \in DOMAIN text : text[i].kind = "word" /\ \A j \in 1..i : ~is_open(text[j])
      sorted == ascending({i \in functions : inside(i) # {}})
  IN IF text = <<>> \/ ~well_formed(text, d) THEN [calls |-> <<>>, errors |-> TRUE]
     ELSE [calls |-> [k \in DOMAIN sorted |->
                        [name |-> text[sorted[k] + 1].s,
                         arguments |-> [p \in args(sorted[k]) |->
                                          value(sorted[k], last(sorted[k], p)).v]]],
           errors |-> \/ before
                      \/ \E i \in DOMAIN text : child(i, 1) /\ i \notin functions
                      \/ \E i \in functions :
                           \/ \E j \in i..partner(d, i) : child(j, 2) /\ j \notin inside(i)
                           \/ \E j \in inside(i) : value(i, j).error
                           \/ ~(required(i) \subseteq args(i))]

\* Blocks from one mark to the next of another, as a regular expression finds them, and
\* what is left without them.
RECURSIVE blocks(_, _, _)
blocks(text, open, from) ==
  LET i == find(text, mark(open), from)
      j == find(text, mark(closing_of(open)), i + 1) IN
  IF i = 0 \/ j = 0 THEN <<>> ELSE <<<<i, j>>>> \o blocks(text, open, j + 1)

without(text, open) ==
  LET gone == UNION {b[1]..b[2] : b \in Range(blocks(text, open, 1))}
      kept == ascending(DOMAIN text \ gone)
  IN [k \in DOMAIN kept |-> text[kept[k]]]

\* A body that is a call in JSON, or a list of them; nothing if it is anything else.
canonical_tool_call(value) ==
  /\ value.kind = "dict" /\ {"name", "arguments"} \subseteq keys(value)
  /\ value.m["name"].kind = "str" /\ value.m["arguments"].kind = "dict"

try_parse_json_tool_call(body) ==
  LET loaded == json_loads(body)
      values == IF loaded.v.kind = "list" THEN loaded.v.l ELSE <<loaded.v>>
      calls == SelectSeq(values, canonical_tool_call) IN
  [parsed |-> loaded.ok /\ calls = values,
   calls |-> [k \in DOMAIN calls |-> [name |-> calls[k].m["name"].s,
                                     arguments |-> calls[k].m["arguments"].m]]]

\* One body, as JSON if it is, else in the markup of Qwen.
parse_body(body, tools) ==
  LET json == try_parse_json_tool_call(body)
      xml == parse_xml(body, tools) IN
  IF json.parsed THEN [calls |-> json.calls, errors |-> FALSE]
  ELSE [xml EXCEPT !.errors = @ \/ xml.calls = <<>>]

parse_qwen_tool_completion(text, tools) ==
  LET solid(pieces) == SelectSeq(pieces, LAMBDA piece : piece # ws)
      found == blocks(text, "<tool_call>", 1)
      completion(parsed, unwrapped) ==
        LET wrapped == FlattenSeq([k \in DOMAIN parsed |-> parsed[k].calls])
            bare_calls == wrapped = <<>> /\ find(text, mark("<function="), 1) # 0
                          /\ unwrapped.calls # <<>>
            calls == IF bare_calls THEN unwrapped.calls ELSE wrapped
        IN [calls |-> calls,
            thinks |-> blocks(text, "<think>", 1) # <<>>,
            errors |-> \/ \E k \in DOMAIN parsed : parsed[k].errors
                       \/ bare_calls /\ unwrapped.errors
                       \/ calls = <<>>,
            extra |-> solid(without(without(without(text, "<think>"), "<tool_call>"), "<function="))]
  IN completion([k \in DOMAIN found |->
                   parse_body(solid(SubSeq(text, found[k][1] + 1, found[k][2] - 1)), tools)],
                parse_xml(solid(without(text, "<think>")), tools))

-----------------------------------------------------------------------------
\* The text of a target, which supervised training teaches.

value_text(v) == IF v = two_words THEN <<word(Str("s")), ws, word(Str("t"))>> ELSE <<word(v)>>

rendered_parameter(p, v) ==
  <<mark("<parameter="), name(p), ws>> \o value_text(v) \o <<ws, mark("</parameter>"), ws>>

tool_calls_to_xml(call) ==
  <<mark("<tool_call>"), ws, mark("<function="), name(call.name), ws>>
  \o FlattenSeq([i \in DOMAIN call.order |->
                   rendered_parameter(call.order[i], call.arguments[call.order[i]])])
  \o <<mark("</function>"), ws, mark("</tool_call>")>>

quoted(s) == <<mark("quote")>> \o value_text(Str(s)) \o <<mark("quote")>>

\* json.dumps with its indentation.
RECURSIVE json_dumps(_)
json_dumps(v) ==
  LET lines(items) ==
        IF items = <<>> THEN <<>>
        ELSE <<ws>> \o FlattenSeq([i \in DOMAIN items |->
               IF i = Len(items) THEN items[i] ELSE items[i] \o <<mark(","), ws>>]) \o <<ws>>
      order == SetToSeq(keys(v))
  IN CASE v.kind = "dict" ->
            <<mark("{")>> \o lines([i \in DOMAIN order |->
               quoted(order[i]) \o <<mark(":"), ws>> \o json_dumps(v.m[order[i]])]) \o <<mark("}")>>
       [] v.kind = "list" ->
            <<mark("[")>> \o lines([i \in DOMAIN v.l |-> json_dumps(v.l[i])]) \o <<mark("]")>>
       [] v.kind = "str" -> quoted(v.s)
       [] OTHER -> <<word(v)>>

fenced_json(v) == <<mark("fence_json"), ws>> \o json_dumps(v) \o <<ws, mark("fence")>>
====
