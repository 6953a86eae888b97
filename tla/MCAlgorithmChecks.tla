---- MODULE MCAlgorithmChecks ----
\* Values for TLC of the constants of AlgorithmChecks that a .cfg cannot state.
EXTENDS AlgorithmChecks

MCAreas ==
  {"launches", "placement", "rows", "runs", "objects", "rewards", "labels", "groups"}

\* Below, at and above the tolerances and the signature.
MCLosses == {0, 10302, 10303, -217349, 67202, 467500, 935000, NonFinite, Infinity, Missing}
MCPoolLosses == {0, 6868, 40000, -400000, NonFinite, Infinity}

\* Leaves of every kind, where True is 1 and a number 0, and lists of them and of objects.
Leaves == {Num(10), Num(20), Num(1), Num(0), Bool(1), Str("s"), Null}
Elements == {Num(10), Num(1), Bool(1), Str("s"), Dict([a |-> Num(10)]), Dict([a |-> Str("s")])}
Lists == {List(l) : l \in UNION {[1..n -> Elements] : n \in 0..2}}
Values == Leaves \cup Lists \cup {Dict([a |-> v]) : v \in {Num(10), Str("s")}} \cup {Dict(<<>>)}
MCObjects ==
  {Dict([a |-> v]) : v \in Values} \cup {Dict(<<>>)}
    \cup {Dict([a |-> v, b |-> w]) : v, w \in {Num(10), Num(20), Str("s")}}

Call(action, x) == Dict([action |-> Str(action), x |-> Num(x)])
MCCalls == {Call("click", 10), Call("click", 20), Call("type", 10)}

MCPieces ==
  {mark(m) : m \in {"<tool_call>", "</tool_call>", "<function=", "</function>", "<parameter=",
                    "</parameter>", "<think>"}}
    \cup {name("f"), name("x"), name("z"), bare("x"), ws, word(Num(10)), word(Str("t"))}

MCJsonPieces ==
  {mark(m) : m \in {"{", "}", "[", "]", ":", ",", "quote", "fence", "fence_json"}}
    \cup {ws, word(Num(10)), word(Str("x")), word(Str("xx")), word(Str("w")), word(Null)}

MCTypos == {<<"xx", "x">>}
====
