---- MODULE CollectedRunProofs ----
(***************************************************************************)
(* Proofs about CollectedRun and the judgement of ResultJudge, for any     *)
(* tiers, any number of replicas, steps and restarts, whatever a run       *)
(* records and wherever it dies: a run that is judged usable was trained   *)
(* to its end, and only one that ran out of memory bounds the context.     *)
(***************************************************************************)
EXTENDS CollectedRun, WellFoundedInduction, TLAPS

-----------------------------------------------------------------------------
(* The invariant.                                                          *)

Readings == {Finite, NonFinite, Missing}
RowType == [loss : Readings, grad_norm : Readings, optimizer_steps : Nat,
            skipped_nonfinite : Nat, delta : BOOLEAN]
LineType == [loss : Readings, grad_norm : Readings]
ContentType == [by : Nat, moved : BOOLEAN]
Texts ==
  {"numeric", "native_sft_path", "oom", "nccl_timeout", "alarm", "comm_hardware"}
Endings == {d.why : d \in Deaths} \cup {"hard_fail", "finished"}

DirType ==
  [exit_code : Int \cup {None}, stdout : BOOLEAN, log : SUBSET Texts,
   pairs : Seq(LineType), lone : Seq(Readings), config : BOOLEAN, rows : Seq(RowType), logging : Seq(LineType), trainer_state : Nat,
   checkpoint : {None} \cup Checkpoints,
   probe : {None} \cup [content : ContentType]]

HistoryType ==
  [updates : Nat, frozen : Nat, moved : BOOLEAN, stalled : BOOLEAN, broken : BOOLEAN,
   ended_by : Endings \cup {None}]

\* Types of the variables of CollectedRun.
TypeOK ==
  /\ plan \in Plans
  /\ pc \in {"running", "saving", "ended", "lost"}
  /\ step \in Nat /\ attempt \in Nat
  /\ dir \in DirType /\ history \in HistoryType

over == pc \in {"ended", "lost"}

\* Every recorded step of every attempt has its row, unless the file of the rows is lost:
\* how many there are, whether one was without an update, and whether one made the weights
\* NaN can be read there.
RowsInv ==
  dir.rows # <<>> \/ pc # "lost" =>
    /\ Len(dir.rows) = history.updates + history.frozen
    /\ history.frozen > 0 =>
         \E i \in DOMAIN dir.rows : dir.rows[i].optimizer_steps = 0
    /\ history.broken =>
         \E i \in DOMAIN dir.rows : dir.rows[i].grad_norm = NonFinite

\* A step of the attempt that left all weights as they were is printed without a loss, and
\* of those printed with one each was an update, unless stdout.log is lost.
PairsInv ==
  /\ history.stalled => history.frozen > 0
  /\ dir.pairs # <<>> \/ pc # "lost" =>
       \/ ~history.stalled /\ Len(dir.pairs) <= history.updates
       \/ \E i \in DOMAIN dir.pairs : dir.pairs[i].loss = Missing

\* The same of the lines of ms-swift, which has no rows and leaves out no update.
LinesInv ==
  /\ dir.rows = <<>> /\ dir.lone = <<>>
  /\ dir.pairs # <<>> \/ pc # "lost" => dir.pairs = dir.logging
  /\ Len(dir.logging) = history.updates /\ history.frozen = 0 /\ ~history.stalled
  /\ history.broken =>
       \E i \in DOMAIN dir.logging : dir.logging[i].grad_norm = NonFinite

RecordInv == IF native THEN RowsInv /\ PairsInv /\ dir.logging = <<>> ELSE LinesInv

\* What is recorded or saved as moved has moved.
MovedInv ==
  /\ \A i \in DOMAIN dir.rows : dir.rows[i].delta => history.moved
  /\ dir.checkpoint # None /\ dir.checkpoint.content.moved => history.moved

\* The code 0 is left only behind a whole checkpoint of this attempt.
EndInv ==
  /\ ~over => dir.exit_code = None
  /\ dir.exit_code # None /\ dir.exit_code = 0 => history.ended_by = "finished"
  /\ over => history.ended_by \in Endings
  /\ pc = "saving" => dir.checkpoint # None /\ dir.checkpoint.content.by = attempt
  /\ over /\ history.ended_by = "finished" /\ dir.checkpoint # None =>
       dir.checkpoint.whole /\ dir.checkpoint.content.by = attempt

\* The text of running out of memory is left only by an attempt that did.
LogInv == "oom" \in dir.log => over /\ history.ended_by = "oom"

Inv == TypeOK /\ RecordInv /\ MovedInv /\ EndInv /\ LogInv

-----------------------------------------------------------------------------
(* Steps and rows.                                                         *)

LEMMA OutcomeTypes ==
  ASSUME NEW o \in Outcomes
  PROVE  /\ o.skipping \in Nat /\ o.stepping \in Nat
         /\ o.grad \in Readings /\ o.moves \in BOOLEAN
         /\ o.grad = NonFinite => o.stepping > 0
<1>1. ranks \in Nat /\ ranks - 1 \in Nat /\ ranks > 0 /\ Finite # NonFinite
  BY CollectedAssumption
<1> DEFINE many == {Outcome(s, n, Finite, n > 0) : s \in {0, 1, ranks}, n \in {0, ranks - 1, ranks}}
<1>2. Outcomes = {good} \cup many \cup {Outcome(0, ranks, Finite, FALSE),
                                       Outcome(0, ranks, NonFinite, TRUE)}
  BY DEF Outcomes
<1>3. ASSUME o \in many
      PROVE  \E s \in {0, 1, ranks}, n \in {0, ranks - 1, ranks} : o = Outcome(s, n, Finite, n > 0)
  BY <1>3
<1> HIDE DEF many
<1>4. CASE o \in many
  <2>1. PICK s \in {0, 1, ranks}, n \in {0, ranks - 1, ranks} :
          o = Outcome(s, n, Finite, n > 0)
    BY <1>3, <1>4
  <2> DEFINE m == n > 0
  <2>2. /\ s \in Nat /\ n \in Nat /\ m \in BOOLEAN
        /\ Finite \in Readings /\ Finite # NonFinite
    BY <1>1 DEF Readings
  <2>3. o = Outcome(s, n, Finite, m)
    BY <2>1
  <2> HIDE DEF m
  <2> QED
    BY <2>2, <2>3 DEF Outcome
<1>5. CASE o = good
  BY <1>1, <1>5 DEF good, Outcome, Readings
<1>6. CASE o = Outcome(0, ranks, Finite, FALSE)
  BY <1>1, <1>6 DEF Outcome, Readings
<1>7. CASE o = Outcome(0, ranks, NonFinite, TRUE)
  BY <1>1, <1>7 DEF Outcome, Readings
<1> QED
  BY <1>2, <1>4, <1>5, <1>6, <1>7

LEMMA RowOf ==
  ASSUME NEW o \in Outcomes
  PROVE  /\ row(o) \in RowType
         /\ row(o).optimizer_steps = o.stepping
         /\ row(o).grad_norm = o.grad /\ row(o).delta = o.moves
         /\ o.stepping = 0 => row(o).loss = Missing
BY OutcomeTypes DEF row, RowType, Readings

\* An element is appended.
LEMMA Appended ==
  ASSUME NEW T, NEW s \in Seq(T), NEW x \in T
  PROVE  /\ Append(s, x) \in Seq(T) /\ Append(s, x) # <<>>
         /\ Len(Append(s, x)) = Len(s) + 1
         /\ \A i \in DOMAIN s : i \in DOMAIN Append(s, x) /\ Append(s, x)[i] = s[i]
         /\ Len(s) + 1 \in DOMAIN Append(s, x) /\ Append(s, x)[Len(s) + 1] = x
         /\ \A i \in DOMAIN Append(s, x) : i \in DOMAIN s \/ i = Len(s) + 1
OBVIOUS

\* What a step prints: with its gradient norm, if that can be read.
LEMMA Printed ==
  ASSUME NEW d \in DirType, NEW x \in RowType
  PROVE  /\ printed(d, x) \in DirType
         /\ printed(d, x).exit_code = d.exit_code /\ printed(d, x).log = d.log
         /\ printed(d, x).rows = d.rows /\ printed(d, x).logging = d.logging
         /\ printed(d, x).checkpoint = d.checkpoint
         /\ printed(d, x).pairs =
              IF x.grad_norm = NonFinite THEN d.pairs
              ELSE Append(d.pairs, [loss |-> x.loss, grad_norm |-> x.grad_norm])
<1> DEFINE line == [loss |-> x.loss, grad_norm |-> x.grad_norm]
<1>1. line \in LineType /\ x.loss \in Readings
  BY DEF RowType, LineType
<1> HIDE DEF line
<1>2. d.pairs \in Seq(LineType) /\ d.lone \in Seq(Readings)
  BY DEF DirType
<1>3. Append(d.pairs, line) \in Seq(LineType) /\ Append(d.lone, x.loss) \in Seq(Readings)
  BY <1>1, <1>2, Appended
<1>4. CASE x.grad_norm = NonFinite
  <2>1. printed(d, x) = [d EXCEPT !.lone = Append(d.lone, x.loss)]
    BY <1>4 DEF printed
  <2> QED
    BY <1>3, <1>4, <2>1 DEF DirType
<1>5. CASE x.grad_norm # NonFinite
  <2>1. printed(d, x) = [d EXCEPT !.pairs = Append(d.pairs, line)]
    BY <1>5 DEF printed, line
  <2> QED
    BY <1>3, <1>5, <2>1 DEF DirType, line
<1> QED
  BY <1>4, <1>5

-----------------------------------------------------------------------------
(* Directories and what happened.                                          *)

\* What an attempt that ends leaves in the directory.
LEMMA EndedDir ==
  ASSUME dir \in DirType, NEW code \in Int \cup {None}, NEW text \in SUBSET Texts,
         ended(code, text)
  PROVE  /\ pc' = "ended" /\ dir' \in DirType
         /\ dir'.exit_code = code /\ dir'.log = dir.log \cup text
         /\ dir'.rows = dir.rows /\ dir'.logging = dir.logging
         /\ dir'.pairs = dir.pairs /\ dir'.lone = dir.lone
         /\ dir'.checkpoint = dir.checkpoint
<1>1. pc' = "ended" /\ dir' = [dir EXCEPT !.exit_code = code, !.log = dir.log \cup text]
  BY DEF ended
<1>2. dir.log \cup text \in SUBSET Texts
  BY DEF DirType
<1> QED
  BY <1>1, <1>2 DEF DirType

LEMMA EndedHistory ==
  ASSUME history \in HistoryType, NEW why \in Endings,
         history' = [history EXCEPT !.ended_by = why]
  PROVE  /\ history' \in HistoryType /\ history'.ended_by = why
         /\ history'.updates = history.updates /\ history'.frozen = history.frozen
         /\ history'.moved = history.moved /\ history'.broken = history.broken
         /\ history'.stalled = history.stalled
BY DEF HistoryType

LEMMA DeathTypes ==
  ASSUME NEW d \in Deaths
  PROVE  /\ d.code \in Int \cup {None} /\ (d.code # 0 \/ d.code = None)
         /\ d.text \in SUBSET Texts /\ d.why \in Endings /\ d.why # "finished"
         /\ "oom" \in d.text => d.why = "oom"
<1>1. d.why \in Endings
  BY DEF Endings
<1> DEFINE oom == {[why |-> "oom", code |-> 1, text |-> {"oom"} \cup t] : t \in SUBSET {"nccl_timeout"}}
<1>2. CASE d \in oom
  <2>1. PICK t \in SUBSET {"nccl_timeout"} :
          d = [why |-> "oom", code |-> 1, text |-> {"oom"} \cup t]
    BY <1>2
  <2>2. {"oom"} \cup t \in SUBSET Texts
    BY DEF Texts
  <2> QED
    BY <1>1, <2>1, <2>2
<1>3. CASE d \notin oom
  <2>1. d \in {[why |-> "timeout", code |-> 124, text |-> {}],
               [why |-> "timeout", code |-> 137, text |-> {"alarm"}],
               [why |-> "nccl", code |-> 134, text |-> {"nccl_timeout", "comm_hardware"}],
               [why |-> "killed", code |-> None, text |-> {}]}
    BY <1>3 DEF Deaths
  <2> QED
    BY <1>1, <2>1 DEF Texts
<1> QED
  BY <1>2, <1>3

\* The account of the steps stays as it is.
LEMMA RecordKept ==
  ASSUME Inv, UNCHANGED plan, pc # "lost",
         dir'.rows = dir.rows, dir'.logging = dir.logging,
         dir'.pairs = dir.pairs, dir'.lone = dir.lone,
         history'.updates = history.updates, history'.frozen = history.frozen,
         history'.stalled = history.stalled, history'.broken => history.broken
  PROVE  RecordInv'
<1>1. native' = native
  BY DEF native
<1>2. RecordInv
  BY DEF Inv
<1>3. CASE native
  BY <1>1, <1>2, <1>3 DEF RecordInv, RowsInv, PairsInv
<1>4. CASE ~native
  BY <1>1, <1>2, <1>4 DEF RecordInv, LinesInv
<1> QED
  BY <1>3, <1>4

LEMMA MovedKept ==
  ASSUME Inv, dir'.rows = dir.rows, dir'.checkpoint = dir.checkpoint,
         history'.moved = history.moved
  PROVE  MovedInv'
BY DEF Inv, MovedInv

-----------------------------------------------------------------------------
(* The invariant holds.                                                    *)

LEMMA InitInv == Init => Inv
<1> SUFFICES ASSUME Init PROVE Inv
  OBVIOUS
<1> USE DEF Init, EmptyDir
<1>1. TypeOK
  BY DEF TypeOK, DirType, HistoryType
<1>2. RecordInv
  BY DEF RecordInv, RowsInv, PairsInv, LinesInv
<1>3. MovedInv
  BY DEF MovedInv
<1>4. EndInv /\ LogInv
  BY DEF EndInv, LogInv, over
<1> QED
  BY <1>1, <1>2, <1>3, <1>4 DEF Inv

LEMMA TrainKeeps ==
  ASSUME Inv, NEW o \in Outcomes, Train(o)
  PROVE  Inv'
<1>1. /\ native /\ native' /\ pc = "running" /\ UNCHANGED <<plan, pc, attempt>>
      /\ step' = step + 1
      /\ TypeOK /\ RowsInv /\ PairsInv /\ dir.logging = <<>>
      /\ MovedInv /\ EndInv /\ LogInv
  BY DEF Inv, RecordInv, Train, native
<1>2. /\ o.skipping \in Nat /\ o.stepping \in Nat /\ o.grad \in Readings
      /\ o.moves \in BOOLEAN
      /\ row(o) \in RowType /\ row(o).optimizer_steps = o.stepping
      /\ row(o).grad_norm = o.grad /\ row(o).delta = o.moves
      /\ o.grad = NonFinite => o.stepping > 0
      /\ o.stepping = 0 => row(o).loss = Missing
  BY OutcomeTypes, RowOf
<1> DEFINE line == [loss |-> row(o).loss, grad_norm |-> row(o).grad_norm]
<1>3. /\ dir' \in DirType /\ dir'.rows = Append(dir.rows, row(o))
      /\ dir'.exit_code = dir.exit_code /\ dir'.logging = dir.logging
      /\ dir'.checkpoint = dir.checkpoint
      /\ dir'.pairs = IF o.grad = NonFinite THEN dir.pairs ELSE Append(dir.pairs, line)
      /\ "oom" \in dir'.log => "oom" \in dir.log
  <2> DEFINE text == IF o.skipping > 0 THEN {"numeric", "native_sft_path"} ELSE {}
             d == printed(dir, row(o))
  <2>1. dir' = [d EXCEPT !.rows = Append(@, row(o)), !.log = @ \cup text]
    BY DEF Train
  <2>2. text \subseteq Texts /\ "oom" \notin text
    BY DEF Texts
  <2>3. /\ d \in DirType /\ d.exit_code = dir.exit_code /\ d.log = dir.log
        /\ d.rows = dir.rows /\ d.logging = dir.logging /\ d.checkpoint = dir.checkpoint
        /\ d.pairs = IF o.grad = NonFinite THEN dir.pairs ELSE Append(dir.pairs, line)
    BY <1>1, <1>2, Printed DEF TypeOK
  <2> HIDE DEF text, d, line
  <2>4. DOMAIN d = {"exit_code", "stdout", "log", "pairs", "lone", "config", "rows",
                    "logging", "trainer_state", "checkpoint", "probe"}
    BY <2>3 DEF DirType
  <2>5. d.log \cup text \in SUBSET Texts /\ Append(d.rows, row(o)) \in Seq(RowType)
    BY <1>2, <2>2, <2>3, Appended DEF DirType
  <2>6. dir' = [[d EXCEPT !.rows = Append(d.rows, row(o))] EXCEPT !.log = d.log \cup text]
    BY <2>1, <2>4
  <2>7. dir' \in DirType
    BY <2>3, <2>5, <2>6 DEF DirType
  <2>8. /\ dir'.rows = Append(d.rows, row(o)) /\ dir'.log = d.log \cup text
        /\ dir'.exit_code = d.exit_code /\ dir'.logging = d.logging
        /\ dir'.checkpoint = d.checkpoint /\ dir'.pairs = d.pairs
    BY <2>4, <2>6
  <2> QED
    BY <2>2, <2>3, <2>7, <2>8
<1>4. /\ history' \in HistoryType /\ history'.ended_by = history.ended_by
      /\ history'.updates + history'.frozen = history.updates + history.frozen + 1
      /\ o.stepping > 0 => /\ history'.frozen = history.frozen
                           /\ history'.updates = history.updates + 1
      /\ o.stepping = 0 => history'.frozen > 0
      /\ history'.stalled = (history.stalled \/ o.stepping = 0)
      /\ history'.moved = (history.moved \/ o.moves)
      /\ history'.broken = (history.broken \/ o.grad = NonFinite)
  <2> DEFINE u == history.updates + (IF o.stepping > 0 THEN 1 ELSE 0)
             f == history.frozen + (IF o.stepping > 0 THEN 0 ELSE 1)
             m == history.moved \/ o.moves
             l == history.stalled \/ o.stepping = 0
             b == history.broken \/ o.grad = NonFinite
  <2>1. history \in HistoryType
    BY <1>1 DEF TypeOK
  <2>2. history' = [history EXCEPT !.updates = u, !.frozen = f, !.moved = m, !.stalled = l,
                                 !.broken = b]
    BY DEF Train, applied
  <2>3. /\ u \in Nat /\ f \in Nat
        /\ u + f = history.updates + history.frozen + 1
        /\ o.stepping > 0 => f = history.frozen /\ u = history.updates + 1
        /\ o.stepping = 0 => f > 0
    BY <1>2, <2>1 DEF HistoryType
  <2>4. m \in BOOLEAN /\ l \in BOOLEAN /\ b \in BOOLEAN
    OBVIOUS
  <2> HIDE DEF u, f, m, l, b
  <2>5. /\ history' \in HistoryType /\ history'.ended_by = history.ended_by
        /\ history'.updates = u /\ history'.frozen = f
        /\ history'.moved = m /\ history'.stalled = l /\ history'.broken = b
    BY <2>1, <2>2, <2>3, <2>4 DEF HistoryType
  <2> QED
    BY <2>3, <2>5 DEF m, l, b
<1>5. TypeOK'
  BY <1>1, <1>3, <1>4 DEF TypeOK
<1>6. dir.rows \in Seq(RowType)
  BY <1>1 DEF TypeOK, DirType
<1> DEFINE s == dir.rows
           t == Append(dir.rows, row(o))
<1>7. /\ Len(t) = Len(s) + 1 /\ t # <<>>
      /\ \A i \in DOMAIN s : i \in DOMAIN t /\ t[i] = s[i]
      /\ Len(s) + 1 \in DOMAIN t /\ t[Len(s) + 1] = row(o)
      /\ \A i \in DOMAIN t : i \in DOMAIN s \/ i = Len(s) + 1
  BY <1>2, <1>6, Appended
<1>8. RowsInv'
  <2> SUFFICES /\ Len(t) = history'.updates + history'.frozen
               /\ history'.frozen > 0 => \E i \in DOMAIN t : t[i].optimizer_steps = 0
               /\ history'.broken => \E i \in DOMAIN t : t[i].grad_norm = NonFinite
    BY <1>3 DEF RowsInv
  <2>1. /\ Len(s) = history.updates + history.frozen
        /\ history.frozen > 0 => \E i \in DOMAIN s : s[i].optimizer_steps = 0
        /\ history.broken => \E i \in DOMAIN s : s[i].grad_norm = NonFinite
    BY <1>1 DEF RowsInv
  <2> HIDE DEF s, t
  <2>2. Len(t) = history'.updates + history'.frozen
    BY <1>4, <1>7, <2>1
  <2>3. ASSUME history'.frozen > 0 PROVE \E i \in DOMAIN t : t[i].optimizer_steps = 0
    <3>1. CASE o.stepping > 0
      BY <1>4, <1>7, <2>1, <2>3, <3>1
    <3>2. CASE o.stepping = 0
      BY <1>2, <1>7, <3>2
    <3> QED
      BY <1>2, <3>1, <3>2
  <2>4. ASSUME history'.broken PROVE \E i \in DOMAIN t : t[i].grad_norm = NonFinite
    <3>1. CASE history.broken
      BY <1>7, <2>1, <3>1
    <3>2. CASE o.grad = NonFinite
      BY <1>2, <1>7, <3>2
    <3> QED
      BY <1>4, <2>4, <3>1, <3>2
  <2> QED
    BY <2>2, <2>3, <2>4
<1>9. PairsInv'
  <2> DEFINE p == dir.pairs
             q == IF o.grad = NonFinite THEN p ELSE Append(p, line)
  <2>1. /\ p \in Seq(LineType) /\ line \in LineType /\ line.loss = row(o).loss
        /\ history.updates \in Nat
    BY <1>1, <1>2 DEF TypeOK, DirType, HistoryType, RowType, LineType
  <2>2. /\ \A i \in DOMAIN p : i \in DOMAIN Append(p, line) /\ Append(p, line)[i] = p[i]
        /\ Len(Append(p, line)) = Len(p) + 1 /\ Len(p) + 1 \in DOMAIN Append(p, line)
        /\ Append(p, line)[Len(p) + 1] = line /\ Len(p) \in Nat
    BY <2>1, Appended
  <2>3. /\ history.stalled => history.frozen > 0
        /\ \/ ~history.stalled /\ Len(p) <= history.updates
           \/ \E i \in DOMAIN p : p[i].loss = Missing
    BY <1>1 DEF PairsInv
  <2>4. dir'.pairs = q
    BY <1>3
  <2> HIDE DEF line, p
  <2>5. \/ ~history'.stalled /\ Len(q) <= history'.updates
        \/ \E i \in DOMAIN q : q[i].loss = Missing
    <3>1. CASE \E i \in DOMAIN p : p[i].loss = Missing
      BY <2>2, <3>1
    <3>2. CASE o.stepping = 0
      BY <1>2, <2>1, <2>2, <3>2
    <3>3. CASE o.stepping > 0 /\ ~history.stalled /\ Len(p) <= history.updates
      <4>1. o.stepping # 0
        BY <1>2, <3>3
      <4>2. ~history'.stalled
        BY <1>4, <3>3, <4>1, Zenon
      <4>3. history'.updates = history.updates + 1
        BY <1>4, <3>3
      <4>4. Len(q) <= history.updates + 1
        BY <2>1, <2>2, <3>3
      <4> QED
        BY <4>2, <4>3, <4>4
    <3>4. o.stepping = 0 \/ o.stepping > 0
      BY <1>2
    <3> HIDE DEF q
    <3> QED
      BY <2>3, <3>1, <3>2, <3>3, <3>4
  <2>6. history'.stalled => history'.frozen > 0
    <3>1. CASE o.stepping = 0
      BY <1>4, <3>1
    <3>2. CASE o.stepping # 0
      <4>1. o.stepping > 0
        BY <1>2, <3>2
      <4>2. history'.stalled => history.stalled
        BY <1>4, <3>2, Zenon
      <4> QED
        BY <1>4, <2>3, <4>1, <4>2
    <3> QED
      BY <3>1, <3>2
  <2> HIDE DEF q
  <2> QED
    BY <2>4, <2>5, <2>6 DEF PairsInv
<1>10. RecordInv' /\ MovedInv'
  <2>1. \A i \in DOMAIN t : t[i].delta => history'.moved
    <3> HIDE DEF t
    <3> QED
      BY <1>1, <1>2, <1>4, <1>7 DEF MovedInv
  <2>2. MovedInv'
    BY <1>1, <1>3, <1>4, <2>1 DEF MovedInv
  <2> QED
    BY <1>1, <1>3, <1>8, <1>9, <2>2 DEF RecordInv
<1>11. EndInv' /\ LogInv'
  BY <1>1, <1>3, <1>4 DEF EndInv, LogInv, over
<1> QED
  BY <1>5, <1>10, <1>11 DEF Inv

LEMMA HardFailKeeps ==
  ASSUME Inv, NEW o \in Outcomes, HardFail(o)
  PROVE  Inv'
<1>1. /\ pc = "running" /\ UNCHANGED <<plan, step, attempt>> /\ TypeOK /\ EndInv /\ LogInv
      /\ history' = [history EXCEPT !.ended_by = "hard_fail"]
      /\ ended(1, {"numeric", "native_sft_path"})
  BY DEF Inv, HardFail
<1>2. /\ {"numeric", "native_sft_path"} \in SUBSET Texts /\ "hard_fail" \in Endings
      /\ 1 \in Int \cup {None} /\ dir \in DirType /\ history \in HistoryType
  BY <1>1 DEF Texts, Endings, TypeOK
<1>3. /\ pc' = "ended" /\ dir' \in DirType
      /\ dir'.exit_code = 1 /\ dir'.log = dir.log \cup {"numeric", "native_sft_path"}
      /\ dir'.rows = dir.rows /\ dir'.logging = dir.logging /\ dir'.checkpoint = dir.checkpoint
      /\ dir'.pairs = dir.pairs /\ dir'.lone = dir.lone
  BY <1>1, <1>2, EndedDir
<1>4. /\ history' \in HistoryType /\ history'.ended_by = "hard_fail"
      /\ history'.updates = history.updates /\ history'.frozen = history.frozen
      /\ history'.moved = history.moved /\ history'.broken = history.broken
      /\ history'.stalled = history.stalled
  BY <1>1, <1>2, EndedHistory
<1>5. TypeOK'
  BY <1>1, <1>3, <1>4 DEF TypeOK
<1>6. RecordInv' /\ MovedInv'
  BY <1>1, <1>3, <1>4, RecordKept, MovedKept
<1>7. EndInv' /\ LogInv'
  BY <1>1, <1>2, <1>3, <1>4 DEF EndInv, LogInv, over
<1> QED
  BY <1>5, <1>6, <1>7 DEF Inv

LEMMA DieKeeps ==
  ASSUME Inv, NEW d \in Deaths, Die(d)
  PROVE  Inv'
<1>1. /\ pc \in {"running", "saving"} /\ UNCHANGED <<plan, step, attempt>>
      /\ TypeOK /\ EndInv /\ LogInv
      /\ history' = [history EXCEPT !.ended_by = d.why] /\ ended(d.code, d.text)
  BY DEF Inv, Die
<1>2. /\ d.code \in Int \cup {None} /\ (d.code # 0 \/ d.code = None)
      /\ d.text \in SUBSET Texts /\ d.why \in Endings /\ d.why # "finished"
      /\ "oom" \in d.text => d.why = "oom"
      /\ dir \in DirType /\ history \in HistoryType
  BY <1>1, DeathTypes DEF TypeOK
<1>3. /\ pc' = "ended" /\ dir' \in DirType
      /\ dir'.exit_code = d.code /\ dir'.log = dir.log \cup d.text
      /\ dir'.rows = dir.rows /\ dir'.logging = dir.logging /\ dir'.checkpoint = dir.checkpoint
      /\ dir'.pairs = dir.pairs /\ dir'.lone = dir.lone
  BY <1>1, <1>2, EndedDir
<1>4. /\ history' \in HistoryType /\ history'.ended_by = d.why
      /\ history'.updates = history.updates /\ history'.frozen = history.frozen
      /\ history'.moved = history.moved /\ history'.broken = history.broken
      /\ history'.stalled = history.stalled
  BY <1>1, <1>2, EndedHistory
<1>5. TypeOK'
  BY <1>1, <1>3, <1>4 DEF TypeOK
<1>6. RecordInv' /\ MovedInv'
  BY <1>1, <1>3, <1>4, RecordKept, MovedKept
<1>7. EndInv' /\ LogInv'
  BY <1>1, <1>2, <1>3, <1>4 DEF EndInv, LogInv, over
<1> QED
  BY <1>5, <1>6, <1>7 DEF Inv

LEMMA SwiftStepKeeps ==
  ASSUME Inv, NEW grad \in {Finite, NonFinite}, NEW moves \in BOOLEAN, NEW saves \in BOOLEAN,
         SwiftStep(grad, moves, saves)
  PROVE  Inv'
<1>1. /\ ~native /\ ~native' /\ pc = "running" /\ UNCHANGED <<plan, pc, attempt>>
      /\ step' = step + 1
      /\ TypeOK /\ LinesInv /\ MovedInv /\ EndInv /\ LogInv
      /\ dir \in DirType /\ history \in HistoryType /\ step \in Nat
  BY DEF Inv, RecordInv, SwiftStep, native, TypeOK
<1> DEFINE line == [loss |-> IF history.broken THEN NonFinite ELSE Finite, grad_norm |-> grad]
           s == dir.logging
           t == Append(s, line)
           m == history.moved \/ moves
           b == history.broken \/ grad = NonFinite
           state == IF saves THEN step + 1 ELSE dir.trainer_state
           p == Append(dir.pairs, line)
<1>2. line \in LineType /\ line.grad_norm = grad
  BY DEF LineType, Readings
<1>3. s \in Seq(LineType) /\ dir.pairs = s /\ state \in Nat
  BY <1>1 DEF DirType, LinesInv
<1>4. history' = [history EXCEPT !.updates = history.updates + 1, !.moved = m, !.broken = b]
  BY DEF SwiftStep
<1>5. dir' = [dir EXCEPT !.logging = t, !.pairs = t, !.trainer_state = state]
  <2>1. dir' = [dir EXCEPT !.logging = t, !.pairs = p, !.trainer_state = state]
    BY DEF SwiftStep
  <2>2. p = t
    BY <1>3
  <2> QED
    BY <2>1, <2>2
<1>6. m \in BOOLEAN /\ b \in BOOLEAN
  OBVIOUS
<1>7. history.moved => m
  OBVIOUS
<1>8. b => history.broken \/ grad = NonFinite
  OBVIOUS
<1> HIDE DEF line, m, b, state, p
<1>9. /\ t \in Seq(LineType) /\ Len(t) = Len(s) + 1
      /\ \A i \in DOMAIN s : i \in DOMAIN t /\ t[i] = s[i]
      /\ Len(s) + 1 \in DOMAIN t /\ t[Len(s) + 1] = line
  BY <1>2, <1>3, Appended
<1> HIDE DEF s, t
<1>10. /\ dir' \in DirType /\ dir'.logging = t /\ dir'.rows = dir.rows
       /\ dir'.exit_code = dir.exit_code /\ dir'.log = dir.log
       /\ dir'.checkpoint = dir.checkpoint /\ dir'.pairs = t /\ dir'.lone = dir.lone
  <2> DEFINE d == [dir EXCEPT !.logging = t, !.pairs = t]
  <2>1. /\ d \in DirType /\ d.logging = t /\ d.pairs = t /\ d.rows = dir.rows
        /\ d.exit_code = dir.exit_code /\ d.log = dir.log /\ d.lone = dir.lone
        /\ d.checkpoint = dir.checkpoint
    BY <1>1, <1>9 DEF DirType
  <2>2. dir' = [d EXCEPT !.trainer_state = state]
    BY <1>5
  <2> HIDE DEF d
  <2> QED
    BY <1>3, <2>1, <2>2 DEF DirType
<1>11. /\ history' \in HistoryType /\ history'.ended_by = history.ended_by
       /\ history'.updates = history.updates + 1 /\ history'.frozen = history.frozen
       /\ history'.moved = m /\ history'.broken = b /\ history'.stalled = history.stalled
  <2>1. history.updates + 1 \in Nat
    BY <1>1 DEF HistoryType
  <2>2. history' = [[[history EXCEPT !.updates = history.updates + 1] EXCEPT !.moved = m]
                      EXCEPT !.broken = b]
    BY <1>4
  <2> DEFINE h == [history EXCEPT !.updates = history.updates + 1]
  <2>3. /\ h \in HistoryType /\ h.updates = history.updates + 1 /\ h.frozen = history.frozen
        /\ h.ended_by = history.ended_by /\ h.stalled = history.stalled
    BY <1>1, <2>1 DEF HistoryType
  <2>4. history' = [[h EXCEPT !.moved = m] EXCEPT !.broken = b]
    BY <2>2
  <2> HIDE DEF h
  <2> QED
    BY <1>6, <2>3, <2>4 DEF HistoryType
<1>12. TypeOK'
  BY <1>1, <1>10, <1>11 DEF TypeOK
<1>13. LinesInv'
  <2>1. /\ dir.rows = <<>> /\ dir.lone = <<>> /\ Len(s) = history.updates
        /\ history.frozen = 0 /\ ~history.stalled
        /\ history.broken => \E i \in DOMAIN s : s[i].grad_norm = NonFinite
    BY <1>1 DEF LinesInv, s
  <2>2. b => \E i \in DOMAIN t : t[i].grad_norm = NonFinite
    BY <1>2, <1>8, <1>9, <2>1
  <2> QED
    BY <1>9, <1>10, <1>11, <2>1, <2>2 DEF LinesInv
<1>14. RecordInv'
  BY <1>1, <1>13 DEF RecordInv
<1>15. MovedInv'
  BY <1>1, <1>7, <1>10, <1>11 DEF MovedInv
<1>16. EndInv' /\ LogInv'
  BY <1>1, <1>10, <1>11 DEF EndInv, LogInv, over
<1> QED
  BY <1>12, <1>14, <1>15, <1>16 DEF Inv

LEMMA SaveShardsKeeps ==
  ASSUME Inv, SaveShards
  PROVE  Inv'
<1> DEFINE c == [content |-> Content, whole |-> ~native]
           state == IF native THEN dir.trainer_state ELSE Steps
<1>1. /\ pc = "running" /\ pc' = "saving" /\ UNCHANGED <<plan, step, attempt, history>>
      /\ TypeOK /\ MovedInv /\ EndInv /\ LogInv
      /\ dir \in DirType /\ history \in HistoryType /\ attempt \in Nat
  BY DEF Inv, SaveShards, TypeOK
<1>2. dir' = [dir EXCEPT !.checkpoint = c, !.trainer_state = state]
  BY DEF SaveShards
<1>3. /\ Content \in ContentType /\ Content.by = attempt /\ Content.moved = history.moved
  BY <1>1 DEF Content, ContentType, HistoryType
<1> DEFINE w == ~native
<1>4. c = [content |-> Content, whole |-> w] /\ w \in BOOLEAN
  OBVIOUS
<1>5. /\ c \in Checkpoints /\ c.content = Content /\ c # None
  <2> HIDE DEF c, w
  <2>1. c \in Checkpoints /\ c.content = Content
    BY <1>3, <1>4 DEF Checkpoints, ContentType
  <2> QED
    BY <2>1, CollectedAssumption
<1>6. state \in Nat
  BY <1>1, CollectedAssumption DEF DirType
<1> HIDE DEF c, state
<1>7. /\ dir' \in DirType /\ dir'.checkpoint = c
      /\ dir'.rows = dir.rows /\ dir'.logging = dir.logging
      /\ dir'.exit_code = dir.exit_code /\ dir'.log = dir.log
      /\ dir'.pairs = dir.pairs /\ dir'.lone = dir.lone
  BY <1>1, <1>2, <1>5, <1>6 DEF DirType
<1>8. TypeOK'
  BY <1>1, <1>7 DEF TypeOK
<1>9. RecordInv'
  BY <1>1, <1>7, RecordKept
<1>10. MovedInv'
  BY <1>1, <1>3, <1>5, <1>7 DEF MovedInv
<1>11. EndInv' /\ LogInv'
  <2>1. dir'.checkpoint # None /\ dir'.checkpoint.content.by = attempt
    BY <1>3, <1>5, <1>7
  <2> QED
    BY <1>1, <1>7, <2>1 DEF EndInv, LogInv, over
<1> QED
  BY <1>8, <1>9, <1>10, <1>11 DEF Inv

LEMMA SaveManifestKeeps ==
  ASSUME Inv, SaveManifest
  PROVE  Inv'
<1>1. /\ pc = "saving" /\ pc' = "ended" /\ UNCHANGED <<plan, step, attempt>>
      /\ TypeOK /\ MovedInv /\ EndInv /\ LogInv
      /\ dir \in DirType /\ history \in HistoryType
      /\ history' = [history EXCEPT !.ended_by = "finished"] /\ "finished" \in Endings
  BY DEF Inv, SaveManifest, TypeOK, Endings
<1>2. /\ history' \in HistoryType /\ history'.ended_by = "finished"
      /\ history'.updates = history.updates /\ history'.frozen = history.frozen
      /\ history'.moved = history.moved /\ history'.broken = history.broken
      /\ history'.stalled = history.stalled
  BY <1>1, EndedHistory
<1> DEFINE c == dir.checkpoint
           d == [c EXCEPT !.whole = TRUE]
<1>3. c # None /\ c.content.by = attempt /\ c \in Checkpoints
  BY <1>1 DEF EndInv, DirType
<1>4. /\ d \in Checkpoints
      /\ d.content = c.content /\ d.whole = TRUE
  <2> HIDE DEF c
  <2> QED
    BY <1>3 DEF Checkpoints
<1>5. dir' = [dir EXCEPT !.checkpoint = d, !.exit_code = 0]
  BY DEF SaveManifest
<1> HIDE DEF d
<1>6. /\ dir' \in DirType /\ dir'.checkpoint = d
      /\ dir'.rows = dir.rows /\ dir'.logging = dir.logging
      /\ dir'.exit_code = 0 /\ dir'.log = dir.log
      /\ dir'.pairs = dir.pairs /\ dir'.lone = dir.lone
  <2> DEFINE e == [dir EXCEPT !.checkpoint = d]
  <2>1. /\ e \in DirType /\ e.checkpoint = d /\ e.rows = dir.rows
        /\ e.logging = dir.logging /\ e.log = dir.log
        /\ e.pairs = dir.pairs /\ e.lone = dir.lone
    BY <1>1, <1>4 DEF DirType
  <2>2. dir' = [e EXCEPT !.exit_code = 0] /\ 0 \in Int \cup {None}
    BY <1>5
  <2> HIDE DEF e
  <2> QED
    BY <2>1, <2>2 DEF DirType
<1>7. TypeOK'
  BY <1>1, <1>2, <1>6 DEF TypeOK
<1>8. RecordInv'
  BY <1>1, <1>2, <1>6, RecordKept
<1>9. MovedInv'
  BY <1>1, <1>2, <1>3, <1>4, <1>6 DEF MovedInv
<1>10. EndInv' /\ LogInv'
  BY <1>1, <1>2, <1>3, <1>4, <1>6 DEF EndInv, LogInv, over
<1> QED
  BY <1>7, <1>8, <1>9, <1>10 DEF Inv

LEMMA RestartKeeps ==
  ASSUME Inv, NEW from \in 0..Steps, Restart(from)
  PROVE  Inv'
<1>1. /\ native /\ native' /\ pc = "ended" /\ pc' = "running"
      /\ step' = from /\ attempt' = attempt + 1
      /\ UNCHANGED plan /\ from \in Nat
      /\ TypeOK /\ RecordInv /\ MovedInv /\ LogInv
      /\ dir \in DirType /\ history \in HistoryType
      /\ dir' = [dir EXCEPT !.exit_code = None, !.log = {}, !.pairs = <<>>, !.lone = <<>>]
      /\ history' = [history EXCEPT !.ended_by = None, !.stalled = FALSE, !.broken = FALSE]
  BY CollectedAssumption DEF Inv, Restart, TypeOK, native
<1>2. /\ dir' \in DirType /\ dir'.rows = dir.rows /\ dir'.logging = dir.logging
      /\ dir'.exit_code = None /\ dir'.log = {} /\ dir'.checkpoint = dir.checkpoint
      /\ dir'.pairs = <<>>
  <2> DEFINE d == [dir EXCEPT !.exit_code = None, !.log = {}]
  <2>1. /\ d \in DirType /\ d.rows = dir.rows /\ d.logging = dir.logging
        /\ d.exit_code = None /\ d.log = {} /\ d.checkpoint = dir.checkpoint
    BY <1>1 DEF DirType
  <2>2. dir' = [d EXCEPT !.pairs = <<>>, !.lone = <<>>]
    BY <1>1
  <2>3. <<>> \in Seq(LineType) /\ <<>> \in Seq(Readings)
    OBVIOUS
  <2> HIDE DEF d
  <2> QED
    BY <2>1, <2>2, <2>3 DEF DirType
<1>3. /\ history' \in HistoryType /\ history'.broken = FALSE /\ history'.stalled = FALSE
      /\ history'.updates = history.updates /\ history'.frozen = history.frozen
      /\ history'.moved = history.moved
  BY <1>1 DEF HistoryType
<1>4. TypeOK'
  BY <1>1, <1>2, <1>3 DEF TypeOK
<1>5. RecordInv' /\ MovedInv'
  <2>1. RowsInv' /\ dir'.logging = <<>>
    BY <1>1, <1>2, <1>3 DEF RecordInv, RowsInv
  <2>2. PairsInv'
    <3>1. history.updates \in Nat /\ Len(<<>>) = 0
      BY <1>1 DEF HistoryType
    <3> QED
      BY <1>2, <1>3, <3>1 DEF PairsInv
  <2>3. MovedInv'
    BY <1>1, <1>2, <1>3 DEF MovedInv
  <2> QED
    BY <1>1, <2>1, <2>2, <2>3 DEF RecordInv
<1>6. EndInv' /\ LogInv'
  BY <1>1, <1>2 DEF EndInv, LogInv, over
<1> QED
  BY <1>4, <1>5, <1>6 DEF Inv

LEMMA NoiseKeeps ==
  ASSUME Inv, Noise
  PROVE  Inv'
<1>1. /\ pc = "saving" /\ UNCHANGED <<plan, pc, step, attempt, history>>
      /\ TypeOK /\ EndInv /\ LogInv /\ dir \in DirType
      /\ dir' = [dir EXCEPT !.log = dir.log \cup {"comm_hardware"}]
  BY DEF Inv, Noise, TypeOK
<1>2. dir.log \cup {"comm_hardware"} \in SUBSET Texts
  BY <1>1 DEF DirType, Texts
<1>3. /\ dir' \in DirType /\ dir'.rows = dir.rows /\ dir'.logging = dir.logging
      /\ dir'.exit_code = dir.exit_code /\ dir'.log = dir.log \cup {"comm_hardware"}
      /\ dir'.checkpoint = dir.checkpoint /\ dir'.pairs = dir.pairs /\ dir'.lone = dir.lone
  BY <1>1, <1>2 DEF DirType
<1>4. TypeOK'
  BY <1>1, <1>3 DEF TypeOK
<1>5. RecordInv' /\ MovedInv'
  BY <1>1, <1>3, RecordKept, MovedKept
<1>6. EndInv' /\ LogInv'
  BY <1>1, <1>3 DEF EndInv, LogInv, over
<1> QED
  BY <1>4, <1>5, <1>6 DEF Inv

LEMMA ProbeKeeps ==
  ASSUME Inv, Probe
  PROVE  Inv'
<1> DEFINE p == [content |-> dir.checkpoint.content]
<1>1. /\ pc = "ended" /\ UNCHANGED <<plan, pc, step, attempt, history>>
      /\ TypeOK /\ EndInv /\ LogInv /\ dir \in DirType /\ dir.checkpoint # None
      /\ dir' = [dir EXCEPT !.probe = p]
  BY DEF Inv, Probe, TypeOK
<1>2. p \in [content : ContentType]
  <2>1. dir.checkpoint \in Checkpoints
    BY <1>1 DEF DirType
  <2>2. dir.checkpoint.content \in ContentType
    BY <2>1 DEF Checkpoints, ContentType
  <2> QED
    BY <2>2
<1> HIDE DEF p
<1>3. /\ dir' \in DirType /\ dir'.rows = dir.rows /\ dir'.logging = dir.logging
      /\ dir'.exit_code = dir.exit_code /\ dir'.log = dir.log
      /\ dir'.checkpoint = dir.checkpoint /\ dir'.pairs = dir.pairs /\ dir'.lone = dir.lone
  BY <1>1, <1>2 DEF DirType
<1>4. TypeOK'
  BY <1>1, <1>3 DEF TypeOK
<1>5. RecordInv' /\ MovedInv'
  BY <1>1, <1>3, RecordKept, MovedKept
<1>6. EndInv' /\ LogInv'
  BY <1>1, <1>3 DEF EndInv, LogInv, over
<1> QED
  BY <1>4, <1>5, <1>6 DEF Inv

LEMMA LoseKeeps ==
  ASSUME Inv, NEW file \in Files, Lose(file)
  PROVE  Inv'
<1>1. /\ pc = "ended" /\ pc' = "lost" /\ UNCHANGED <<plan, step, attempt, history>>
      /\ TypeOK /\ MovedInv /\ EndInv /\ LogInv /\ RecordInv
      /\ dir \in DirType /\ dir' = without(dir, file) /\ native' = native
  BY DEF Inv, Lose, TypeOK, native
<1> DEFINE code == IF file = "exit_code" THEN None ELSE dir.exit_code
           out == dir.stdout /\ file # "stdout"
           text == IF file = "stdout" THEN {} ELSE dir.log
           p == IF file = "stdout" THEN <<>> ELSE dir.pairs
           l == IF file = "stdout" THEN <<>> ELSE dir.lone
           conf == dir.config /\ file # "config"
           prob == IF file = "probe" THEN None ELSE dir.probe
           s == IF file = "rows" THEN <<>> ELSE dir.rows
<1>2. dir' = [dir EXCEPT !.exit_code = code, !.stdout = out, !.log = text, !.pairs = p,
                         !.lone = l, !.config = conf, !.probe = prob, !.rows = s]
  BY <1>1 DEF without
<1>3. /\ code = None \/ code = dir.exit_code
      /\ text = {} \/ text = dir.log
      /\ s = <<>> \/ s = dir.rows
      /\ p = <<>> \/ p = dir.pairs
      /\ l = <<>> \/ l = dir.lone
      /\ prob = None \/ prob = dir.probe
  OBVIOUS
<1>4. conf \in BOOLEAN /\ out \in BOOLEAN
  OBVIOUS
<1> HIDE DEF code, out, text, p, l, conf, prob, s
<1>5. /\ code \in Int \cup {None} /\ text \in SUBSET Texts /\ s \in Seq(RowType)
      /\ p \in Seq(LineType) /\ l \in Seq(Readings)
      /\ prob \in {None} \cup [content : ContentType]
  <2>1. /\ dir.exit_code \in Int \cup {None} /\ dir.log \in SUBSET Texts
        /\ dir.rows \in Seq(RowType) /\ dir.probe \in {None} \cup [content : ContentType]
        /\ dir.pairs \in Seq(LineType) /\ dir.lone \in Seq(Readings)
    BY <1>1 DEF DirType
  <2>2. code \in Int \cup {None} /\ prob \in {None} \cup [content : ContentType]
    BY <1>3, <2>1
  <2>3. text \in SUBSET Texts
    BY <1>3, <2>1
  <2>4. s \in Seq(RowType) /\ p \in Seq(LineType) /\ l \in Seq(Readings)
    <3>1. <<>> \in Seq(RowType) /\ <<>> \in Seq(LineType) /\ <<>> \in Seq(Readings)
      OBVIOUS
    <3> QED
      BY <1>3, <2>1, <3>1
  <2> QED
    BY <2>2, <2>3, <2>4
<1>6. /\ dir' \in DirType /\ dir'.rows = s /\ dir'.logging = dir.logging
      /\ dir'.exit_code = code /\ dir'.log = text /\ dir'.checkpoint = dir.checkpoint
      /\ dir'.pairs = p /\ dir'.lone = l
  <2> DEFINE d == [dir EXCEPT !.exit_code = code, !.stdout = out, !.log = text]
             e == [d EXCEPT !.pairs = p, !.lone = l]
  <2>1. /\ d \in DirType /\ d.rows = dir.rows /\ d.logging = dir.logging
        /\ d.exit_code = code /\ d.log = text /\ d.checkpoint = dir.checkpoint
    BY <1>1, <1>4, <1>5 DEF DirType
  <2>2. dir' = [e EXCEPT !.config = conf, !.probe = prob, !.rows = s]
    BY <1>2
  <2> HIDE DEF d
  <2>3. /\ e \in DirType /\ e.logging = dir.logging /\ e.pairs = p /\ e.lone = l
        /\ e.exit_code = code /\ e.log = text /\ e.checkpoint = dir.checkpoint
    BY <1>5, <2>1 DEF DirType
  <2> HIDE DEF e
  <2> QED
    BY <1>4, <1>5, <2>2, <2>3 DEF DirType
<1>7. TypeOK'
  BY <1>1, <1>6 DEF TypeOK
<1>8. RecordInv'
  <2>1. CASE native
    <3>1. RowsInv' /\ dir'.logging = <<>>
      BY <1>1, <1>3, <1>6, <2>1 DEF RecordInv, RowsInv
    <3>2. PairsInv'
      BY <1>1, <1>3, <1>6, <2>1 DEF RecordInv, PairsInv
    <3> QED
      BY <1>1, <2>1, <3>1, <3>2 DEF RecordInv
  <2>2. CASE ~native
    BY <1>1, <1>3, <1>6, <2>2 DEF RecordInv, LinesInv
  <2> QED
    BY <2>1, <2>2
<1>9. MovedInv'
  BY <1>1, <1>3, <1>6 DEF MovedInv
<1>10. EndInv' /\ LogInv'
  BY <1>1, <1>3, <1>6 DEF EndInv, LogInv, over
<1> QED
  BY <1>7, <1>8, <1>9, <1>10 DEF Inv

LEMMA StepInv == Inv /\ [Next]_vars => Inv'
<1> SUFFICES ASSUME Inv, [Next]_vars PROVE Inv'
  OBVIOUS
<1>1. ASSUME NEW o \in Outcomes, Train(o) \/ HardFail(o) PROVE Inv'
  BY <1>1, TrainKeeps, HardFailKeeps
<1>2. ASSUME NEW grad \in {Finite, NonFinite}, NEW moves \in BOOLEAN, NEW saves \in BOOLEAN,
             SwiftStep(grad, moves, saves)
      PROVE  Inv'
  BY <1>2, SwiftStepKeeps
<1>3. CASE SaveShards \/ SaveManifest
  BY <1>3, SaveShardsKeeps, SaveManifestKeeps
<1>4. ASSUME NEW d \in Deaths, Die(d) PROVE Inv'
  BY <1>4, DieKeeps
<1>5. ASSUME NEW from \in 0..Steps, Restart(from) PROVE Inv'
  BY <1>5, RestartKeeps
<1>6. CASE Noise \/ Probe
  BY <1>6, NoiseKeeps, ProbeKeeps
<1>7. ASSUME NEW file \in Files, Lose(file) PROVE Inv'
  BY <1>7, LoseKeeps
<1>8. CASE UNCHANGED vars
  BY <1>8 DEF vars, Inv, TypeOK, RecordInv, RowsInv, PairsInv, LinesInv, MovedInv, EndInv,
              LogInv, over, native
<1> QED
  BY <1>1, <1>2, <1>3, <1>4, <1>5, <1>6, <1>7, <1>8 DEF Next

\* The invariant, for every set of tiers and every number of replicas, steps and restarts.
THEOREM Invariant == Spec => []Inv
BY InitInv, StepInv, PTL DEF Spec

-----------------------------------------------------------------------------
(* The criteria.                                                           *)

LEMMA Verdicts ==
  /\ met.passed = TRUE
  /\ \A why : failed(why).passed = FALSE /\ failed(why).why = why
  /\ \A why : gap(why).passed = FALSE /\ gap(why).why = why
BY DEF met, failed, gap

\* A run passes that meets every criterion.
LEMMA AllMet ==
  ASSUME NEW e, judge_tier(e).passed
  PROVE  /\ judge_a1(e).passed /\ judge_a2(e).passed /\ judge_a3(e).passed
         /\ judge_a5(e).passed /\ judge_a6(e).passed
<1> DEFINE k == Criteria(e)
<1>1. \A c \in PRIMARY_CRITERIA : k[c].passed
  BY DEF judge_tier
<1>2. /\ k["A1"] = judge_a1(e) /\ k["A2"] = judge_a2(e) /\ k["A3"] = judge_a3(e)
      /\ k["A5"] = judge_a5(e) /\ k["A6"] = judge_a6(e)
  BY DEF Criteria, PRIMARY_CRITERIA
<1> HIDE DEF k
<1> QED
  BY <1>1, <1>2 DEF PRIMARY_CRITERIA

LEMMA MetA1 ==
  ASSUME NEW e, judge_a1(e).passed
  PROVE  e.exit_code # None /\ e.exit_code = 0
BY Verdicts DEF judge_a1

LEMMA MetA2 ==
  ASSUME NEW e, judge_a2(e).passed
  PROVE  LET t == resolve_min_optimizer_steps(e.min_optimizer_steps) IN
         /\ ~a_step_stalled(e) /\ e.optimizer_steps # None /\ t # None
         /\ \/ step_gate_not_applicable(e, t)
            \/ ~(e.optimizer_steps < t) /\ e.weight_changed # None /\ e.weight_changed
<1> DEFINE t == resolve_min_optimizer_steps(e.min_optimizer_steps)
<1> HIDE DEF t
<1>1. judge_a2(e) =
        IF a_step_stalled(e) THEN failed("stalled")
        ELSE IF e.optimizer_steps = None THEN gap("steps")
        ELSE IF e.steps_declared_total # None /\ e.optimizer_steps < e.steps_declared_total
          THEN failed("declared")
        ELSE IF t = None THEN failed("threshold")
        ELSE IF e.optimizer_steps = 0 THEN failed("none")
        ELSE IF step_gate_not_applicable(e, t)
          THEN IF reached_plan(e) THEN met ELSE failed("plan")
        ELSE IF e.optimizer_steps < t THEN failed("short")
        ELSE IF e.weight_changed = None THEN gap("weights")
        ELSE IF e.weight_changed THEN met ELSE failed("weights")
  BY DEF judge_a2, t
<1> QED
  BY <1>1, Verdicts DEF t

LEMMA MetA3 ==
  ASSUME NEW e, judge_a3(e).passed
  PROVE  /\ e.checkpoint_reloadable # None
         /\ e.a3_source \notin {"safetensors_header", "skipped", "missing"}
BY Verdicts DEF judge_a3

LEMMA MetA5 ==
  ASSUME NEW e, judge_a5(e).passed
  PROVE  REQUIRED_ARTIFACTS \subseteq e.artifacts_present
BY Verdicts DEF judge_a5

LEMMA MetA6 ==
  ASSUME NEW e, judge_a6(e).passed
  PROVE  /\ e.losses # <<>> /\ \A i \in DOMAIN e.losses : e.losses[i] # Missing
         /\ e.grad_norms # <<>> /\ \A i \in DOMAIN e.grad_norms : e.grad_norms[i] # NonFinite
BY Verdicts DEF judge_a6

\* A set of natural numbers that is not empty has a least one.
LEMMA LeastOf ==
  ASSUME NEW S, S \subseteq Nat, S # {}
  PROVE  \E n \in S : \A m \in S : n <= m
<1>1. PICK n \in S : \A m \in S : <<m, n>> \notin OpToRel(<, Nat)
  BY NatLessThanWellFounded, WFMin
<1>2. \A m \in S : ~(m < n)
  BY <1>1 DEF OpToRel
<1> QED
  BY <1>2

\* The first of the patterns that occur is one that occurs.
LEMMA FirstPattern ==
  ASSUME NEW log, first_pattern(log) # None
  PROVE  first_pattern(log) \in log
<1> DEFINE hits == {i \in DOMAIN LogPatterns : LogPatterns[i] \in log}
<1>1. hits # {} /\ first_pattern(log) = LogPatterns[CHOOSE i \in hits : \A j \in hits : i <= j]
  BY DEF first_pattern
<1>2. hits \subseteq Nat
  BY DEF LogPatterns
<1>3. \E n \in hits : \A j \in hits : n <= j
  <2> HIDE DEF hits
  <2> QED
    BY <1>1, <1>2, LeastOf
<1>4. (CHOOSE n \in hits : \A j \in hits : n <= j) \in hits
  <2> HIDE DEF hits
  <2> QED
    BY <1>3
<1> QED
  BY <1>1, <1>4

\* Only a run whose log says so is of the class "oom", and none whose numbers are NaN.
LEMMA OutOfMemory ==
  ASSUME NEW e, recorded_context(judge_tier(e), 1) = "oom_boundary"
  PROVE  /\ "oom" \in e.log
         /\ ~(~judge_a6(e).passed /\ judge_a6(e).why = "NaN/Inf")
<1> DEFINE k == Criteria(e)
           class == substantive_failure(e, k)
           a6 == judge_a6(e)
           failing == {c \in PRIMARY_CRITERIA : ~k[c].passed}
           exempt == usability_gate_not_applicable(e) /\ failing \subseteq {"A2"}
           gaps == (\A c \in failing : k[c].evidence_missing) /\ class = None
<1>1. judge_tier(e).failure_class = "oom" /\ ~judge_tier(e).passed
  BY DEF recorded_context, counts_toward_max_context
<1>2. class = "oom" /\ class # None
  <2>1. judge_tier(e).passed = (failing = {})
    BY DEF judge_tier
  <2>2. judge_tier(e).failure_class =
          IF failing = {} THEN None
          ELSE IF exempt THEN "gate_not_applicable"
          ELSE IF gaps THEN "evidence_gap"
          ELSE IF class # None THEN class ELSE "unclassified"
    BY DEF judge_tier
  <2> HIDE DEF failing, exempt, gaps, class
  <2> QED
    BY <1>1, <2>1, <2>2
<1>3. k["A6"] = a6
  BY DEF Criteria, PRIMARY_CRITERIA
<1>4. classify_failure(e, a6) = "oom"
  <2> HIDE DEF k, a6
  <2> QED
    BY <1>2, <1>3 DEF class, substantive_failure
<1> HIDE DEF a6
<1>5. first_pattern(e.log) # None /\ first_pattern(e.log) = "oom"
  BY <1>2, <1>4 DEF classify_failure, EXIT_CODE_FAILURE_CLASSES
<1>6. ~(~a6.passed /\ a6.why = "NaN/Inf")
  BY <1>4 DEF classify_failure, EXIT_CODE_FAILURE_CLASSES
<1> QED
  BY <1>5, <1>6, FirstPattern DEF a6

-----------------------------------------------------------------------------
(* What is collected.                                                      *)

\* The steps that were recorded.
recorded == IF native THEN dir.rows ELSE dir.logging

LEMMA RecordedLength ==
  ASSUME TypeOK
  PROVE  /\ Len(recorded) \in Nat /\ DOMAIN recorded = 1..Len(recorded)
         /\ native => \A i \in DOMAIN recorded : recorded[i] \in RowType
<1>1. dir.rows \in Seq(RowType) /\ dir.logging \in Seq(LineType)
  BY DEF TypeOK, DirType
<1>2. CASE native
  BY <1>1, <1>2 DEF recorded
<1>3. CASE ~native
  BY <1>1, <1>3 DEF recorded
<1> QED
  BY <1>2, <1>3

\* Where the steps can be read, and there is a number of steps or a loss, all recorded
\* steps are in the evidence.
LEMMA SeriesRead ==
  ASSUME TypeOK, RecordInv, steps_read,
         evidence.losses # <<>> \/ evidence.optimizer_steps # None
  PROVE  /\ recorded # <<>> /\ evidence.optimizer_steps = Len(recorded)
         /\ evidence.grad_norms = column(recorded, "grad_norm")
         /\ native => evidence.optimizer_steps_per_step = column(dir.rows, "optimizer_steps")
<1> DEFINE x == extract_steps_and_series(plan, dir)
           rows == Rows(plan, dir)
           state == best_trainer_state(plan, dir)
<1>1. /\ evidence.losses = x.losses /\ evidence.optimizer_steps = x.steps
      /\ evidence.grad_norms = x.grad_norms /\ evidence.optimizer_steps_per_step = x.per_step
  BY DEF evidence, collect_run
<1>2. CASE native
  <2>1. rows # <<>> /\ rows = dir.rows /\ recorded = dir.rows
    BY <1>2 DEF steps_read, Rows, recorded
  <2>2. /\ x.steps = Len(rows) /\ x.grad_norms = column(rows, "grad_norm")
        /\ x.per_step = column(rows, "optimizer_steps")
    BY <2>1 DEF extract_steps_and_series
  <2> QED
    BY <1>1, <2>1, <2>2
<1>3. CASE ~native
  <2>1. /\ rows = <<>> /\ recorded = dir.logging /\ dir.lone = <<>>
        /\ dir.pairs # <<>> => dir.pairs = dir.logging
    BY <1>3 DEF RecordInv, LinesInv, Rows, recorded
  <2>2. CASE state # None
    <3>1. state.log_history = dir.logging /\ dir.logging # <<>>
      BY <1>3, <2>2 DEF best_trainer_state, output_located, native
    <3>2. x.steps = Len(dir.logging) /\ x.grad_norms = column(dir.logging, "grad_norm")
      BY <2>1, <2>2, <3>1 DEF extract_steps_and_series
    <3> QED
      BY <1>1, <1>3, <2>1, <3>1, <3>2
  <2>3. CASE state = None
    <3>1. dir.pairs # <<>>
      <4>1. dir.pairs = <<>> => x.losses = <<>> /\ x.steps = None
        BY <2>1, <2>3 DEF extract_steps_and_series
      <4> QED
        BY <1>1, <4>1
    <3>2. x.steps = Len(dir.pairs) /\ x.grad_norms = column(dir.pairs, "grad_norm")
      BY <2>1, <2>3, <3>1 DEF extract_steps_and_series
    <3> QED
      BY <1>1, <1>3, <2>1, <3>1, <3>2
  <2> QED
    BY <2>2, <2>3
<1> QED
  BY <1>2, <1>3

\* Where they cannot, what stdout.log shows with a gradient norm is.
LEMMA SeriesPrinted ==
  ASSUME TypeOK, ~steps_read, evidence.grad_norms # <<>>
  PROVE  /\ dir.pairs # <<>> /\ evidence.optimizer_steps = Len(dir.pairs)
         /\ evidence.losses = column(dir.pairs, "loss")
<1> DEFINE x == extract_steps_and_series(plan, dir)
<1>1. /\ evidence.losses = x.losses /\ evidence.optimizer_steps = x.steps
      /\ evidence.grad_norms = x.grad_norms
  BY DEF evidence, collect_run
<1>2. Rows(plan, dir) = <<>> /\ best_trainer_state(plan, dir) = None
  BY DEF steps_read, best_trainer_state, native
<1>3. dir.pairs # <<>>
  <2>1. dir.pairs = <<>> => x.grad_norms = <<>>
    BY <1>2 DEF extract_steps_and_series
  <2> QED
    BY <1>1, <2>1
<1>4. x.steps = Len(dir.pairs) /\ x.losses = column(dir.pairs, "loss")
  BY <1>2, <1>3 DEF extract_steps_and_series
<1> QED
  BY <1>1, <1>3, <1>4

\* Weights that are NaN are seen in the recorded steps, if any of these is.
LEMMA NaNRecorded ==
  ASSUME TypeOK, RecordInv, recorded # <<>>, history.broken
  PROVE  \E i \in DOMAIN column(recorded, "grad_norm") :
           column(recorded, "grad_norm")[i] = NonFinite
<1>1. \E i \in DOMAIN recorded : recorded[i].grad_norm = NonFinite
  <2>1. CASE native
    BY <2>1 DEF RecordInv, RowsInv, recorded
  <2>2. CASE ~native
    BY <2>2 DEF RecordInv, LinesInv, recorded
  <2> QED
    BY <2>1, <2>2
<1> QED
  BY <1>1 DEF column

\* Where the steps can be read and none stalled, each of them was an update.
LEMMA EachRead ==
  ASSUME Inv, steps_read, ~a_step_stalled(evidence), evidence.optimizer_steps # None
  PROVE  /\ history.frozen = 0 /\ ~history.stalled
         /\ evidence.optimizer_steps = history.updates
<1> DEFINE e == evidence
<1>1. TypeOK /\ RecordInv /\ history \in HistoryType /\ dir \in DirType
  BY DEF Inv, TypeOK
<1>2. /\ recorded # <<>> /\ e.optimizer_steps = Len(recorded)
      /\ native => e.optimizer_steps_per_step = column(dir.rows, "optimizer_steps")
  BY <1>1, SeriesRead
<1>3. history.updates \in Nat /\ history.frozen \in Nat
  BY <1>1 DEF HistoryType
<1>4. CASE ~native
  BY <1>1, <1>2, <1>3, <1>4 DEF RecordInv, LinesInv, recorded
<1>5. CASE native
  <2> DEFINE s == column(dir.rows, "optimizer_steps")
  <2>1. dir.rows \in Seq(RowType) /\ recorded = dir.rows /\ dir.rows # <<>>
    BY <1>1, <1>2, <1>5 DEF DirType, recorded
  <2>2. s \in Seq(Nat)
    <3> DEFINE n == Len(dir.rows)
    <3>1. n \in Nat /\ DOMAIN dir.rows = 1..n /\ \A i \in 1..n : dir.rows[i] \in RowType
      BY <2>1
    <3>2. \A i \in 1..n : dir.rows[i].optimizer_steps \in Nat
      BY <3>1 DEF RowType
    <3>3. s = [i \in 1..n |-> dir.rows[i].optimizer_steps]
      BY <3>1 DEF column
    <3> HIDE DEF n, s
    <3> QED
      BY <3>1, <3>2, <3>3
  <2>3. s # None
    BY <2>2, CollectedAssumption
  <2>4. \A i \in DOMAIN dir.rows : dir.rows[i].optimizer_steps # 0
    <3>1. \A i \in DOMAIN s : ~(s[i] <= 0)
      BY <1>2, <1>5, <2>3 DEF a_step_stalled
    <3>2. DOMAIN s = DOMAIN dir.rows /\ \A i \in DOMAIN s : s[i] = dir.rows[i].optimizer_steps
      BY DEF column
    <3> HIDE DEF s
    <3> QED
      BY <3>1, <3>2
  <2>5. RowsInv /\ PairsInv
    BY <1>1, <1>5 DEF RecordInv
  <2>6. history.frozen = 0 /\ Len(dir.rows) = history.updates
    BY <1>3, <2>1, <2>4, <2>5 DEF RowsInv
  <2> QED
    BY <1>2, <2>1, <2>5, <2>6 DEF PairsInv
<1> QED
  BY <1>4, <1>5

\* Where they cannot: a step without a loss is seen, and each with one was an update.
LEMMA EachPrinted ==
  ASSUME Inv, ~steps_read, judge_a6(evidence).passed
  PROVE  /\ ~history.stalled
         /\ evidence.optimizer_steps \in Nat /\ evidence.optimizer_steps <= history.updates
<1> DEFINE e == evidence
<1>1. TypeOK /\ PairsInv /\ dir.pairs \in Seq(LineType)
  BY DEF Inv, TypeOK, DirType, RecordInv, steps_read
<1>2. /\ dir.pairs # <<>> /\ e.optimizer_steps = Len(dir.pairs)
      /\ e.losses = column(dir.pairs, "loss")
  BY <1>1, MetA6, SeriesPrinted
<1>3. \A i \in DOMAIN dir.pairs : dir.pairs[i].loss # Missing
  BY <1>2, MetA6 DEF column
<1> QED
  BY <1>1, <1>2, <1>3 DEF PairsInv

\* A run that is judged usable moved the weights as often as its tier asks for, or its tier
\* cannot.
LEMMA Advanced ==
  ASSUME Inv, judge_a2(evidence).passed, judge_a6(evidence).passed
  PROVE  /\ ~history.stalled
         /\ steps_read => history.frozen = 0
         /\ below_gate \/ (history.moved /\ history.updates >= threshold)
<1> DEFINE e == evidence
<1>1. TypeOK /\ RecordInv /\ MovedInv /\ history \in HistoryType /\ dir \in DirType
  BY DEF Inv, TypeOK
<1>2. e.min_optimizer_steps = plan.min_optimizer_steps
  BY DEF evidence, collect_run
<1>3. /\ ~a_step_stalled(e) /\ e.optimizer_steps # None /\ threshold # None
      /\ \/ step_gate_not_applicable(e, threshold)
         \/ ~(e.optimizer_steps < threshold) /\ e.weight_changed # None /\ e.weight_changed
  BY <1>2, MetA2 DEF threshold
<1>4. history.updates \in Nat /\ history.frozen \in Nat
  BY <1>1 DEF HistoryType
<1>5. /\ ~history.stalled
      /\ steps_read => history.frozen = 0
      /\ e.optimizer_steps \in Nat /\ e.optimizer_steps <= history.updates
  <2>1. CASE steps_read
    BY <1>3, <1>4, <2>1, EachRead
  <2>2. CASE ~steps_read
    BY <2>2, EachPrinted
  <2> QED
    BY <2>1, <2>2
<1>6. CASE step_gate_not_applicable(e, threshold)
  BY <1>3, <1>5, <1>6 DEF below_gate
<1>7. CASE ~(e.optimizer_steps < threshold) /\ e.weight_changed # None /\ e.weight_changed
  <2>1. threshold \in Int
    <3>1. plan.min_optimizer_steps \in Int \cup {None}
      BY <1>1, CollectedAssumption DEF TypeOK, IsPlan
    <3> QED
      BY <1>3, <3>1 DEF threshold, resolve_min_optimizer_steps, MIN_OPTIMIZER_STEPS
  <2>2. history.updates >= threshold
    BY <1>4, <1>5, <1>7, <2>1
  <2>3. history.moved
    <3>1. /\ extract_weight_changed(plan, dir) # None /\ extract_weight_changed(plan, dir)
      BY <1>7 DEF evidence, collect_run
    <3>2. CASE Rows(plan, dir) # <<>>
      BY <1>1, <3>1, <3>2 DEF extract_weight_changed, Rows, MovedInv
    <3>3. CASE Rows(plan, dir) = <<>>
      <4>1. dir.checkpoint # None /\ dir.checkpoint.content.moved
        BY <3>1, <3>3 DEF extract_weight_changed
      <4> QED
        BY <1>1, <4>1 DEF MovedInv
    <3> QED
      BY <3>2, <3>3
  <2> QED
    BY <1>5, <2>2, <2>3
<1> QED
  BY <1>3, <1>6, <1>7

-----------------------------------------------------------------------------
(* The theorems.                                                           *)

LEMMA Trained == Inv => PassMeansTrained
<1> SUFFICES ASSUME Inv, judgement.passed
             PROVE  /\ history.ended_by = "finished"
                    /\ dir.checkpoint # None /\ dir.checkpoint.whole
                    /\ dir.checkpoint.content.by = attempt
                    /\ \/ plan.host_torch
                       \/ dir.probe # None /\ dir.probe.content = dir.checkpoint.content
                    /\ below_gate \/ (history.moved /\ history.updates >= threshold)
                    /\ ~history.stalled
                    /\ steps_read => ~history.broken /\ history.frozen = 0
  BY DEF PassMeansTrained
<1> DEFINE e == evidence
<1>1. /\ judge_a1(e).passed /\ judge_a2(e).passed /\ judge_a3(e).passed
      /\ judge_a5(e).passed /\ judge_a6(e).passed
  BY AllMet DEF judgement
<1>2. TypeOK /\ RecordInv /\ EndInv
  BY DEF Inv
<1>3. /\ ~history.stalled
      /\ steps_read => history.frozen = 0
      /\ below_gate \/ (history.moved /\ history.updates >= threshold)
  BY <1>1, Advanced
<1>4. dir.checkpoint # None
  <2>1. "checkpoint" \in extract_artifacts(plan, dir)
    BY <1>1, MetA5 DEF evidence, collect_run, REQUIRED_ARTIFACTS
  <2> QED
    BY <2>1 DEF extract_artifacts
<1>5. /\ history.ended_by = "finished" /\ dir.checkpoint.whole
      /\ dir.checkpoint.content.by = attempt
  <2>1. dir.exit_code # None /\ dir.exit_code = 0
    BY <1>1, MetA1 DEF evidence, collect_run
  <2> QED
    BY <1>2, <1>4, <2>1 DEF EndInv
<1>6. plan.host_torch \/ (dir.probe # None /\ dir.probe.content = dir.checkpoint.content)
  <2> DEFINE r == extract_checkpoint_reloadable(plan, dir)
  <2>1. r.value # None /\ r.source \notin {"safetensors_header", "skipped", "missing"}
    BY <1>1, MetA3 DEF evidence, collect_run
  <2>2. read_torch_probe(dir) \/ plan.host_torch
    BY <2>1 DEF extract_checkpoint_reloadable
  <2> QED
    BY <2>2 DEF read_torch_probe
<1>7. ASSUME steps_read PROVE ~history.broken
  <2>1. e.losses # <<>> /\ \A i \in DOMAIN e.grad_norms : e.grad_norms[i] # NonFinite
    BY <1>1, MetA6
  <2>2. recorded # <<>> /\ e.grad_norms = column(recorded, "grad_norm")
    BY <1>2, <1>7, <2>1, SeriesRead
  <2> QED
    BY <1>2, <2>1, <2>2, NaNRecorded
<1> QED
  BY <1>3, <1>4, <1>5, <1>6, <1>7

LEMMA Bounded == Inv => OOMBoundary
<1> SUFFICES ASSUME Inv, recorded_context(judgement, 1) = "oom_boundary"
             PROVE  /\ history.ended_by = "oom"
                    /\ history.broken /\ steps_read => evidence.losses = <<>>
  BY DEF OOMBoundary
<1> DEFINE e == evidence
<1>1. TypeOK /\ RecordInv /\ LogInv
  BY DEF Inv
<1>2. "oom" \in e.log /\ ~(~judge_a6(e).passed /\ judge_a6(e).why = "NaN/Inf")
  BY OutOfMemory DEF judgement
<1>3. history.ended_by = "oom"
  BY <1>1, <1>2 DEF LogInv, evidence, collect_run
<1>4. ASSUME history.broken, steps_read, e.losses # <<>> PROVE FALSE
  <2>1. recorded # <<>> /\ e.grad_norms = column(recorded, "grad_norm")
    BY <1>1, <1>4, SeriesRead
  <2>2. \E i \in DOMAIN e.grad_norms : e.grad_norms[i] = NonFinite
    BY <1>1, <1>4, <2>1, NaNRecorded
  <2>3. e.grad_norms # <<>>
    BY <2>2
  <2>4. judge_a6(e) = failed("NaN/Inf")
    BY <1>4, <2>2, <2>3 DEF judge_a6
  <2> QED
    BY <1>2, <2>4, Verdicts
<1> QED
  BY <1>3, <1>4

\* Variables keep their types.
THEOREM Typing == Spec => []TypeOK
BY Invariant, PTL DEF Inv

\* A run judged usable was trained to its end, with a whole checkpoint that has been loaded
\* and as many effective updates as its tier asks for, and no recorded step of its last
\* attempt, nor of any where its steps can be read, left all weights as they were
\* (judge_tier over collect_run).
THEOREM Usable == Spec => []PassMeansTrained
BY Invariant, Trained, PTL

\* Only a run that ran out of memory bounds the context length, and where its steps can be
\* read none whose numbers are NaN (classify_failure, ledger_row).
THEOREM Boundary == Spec => []OOMBoundary
BY Invariant, Bounded, PTL
====
