---- MODULE OneFOneB ----
(***************************************************************************)
(* Pipeline-parallel RL training with the 1F1B schedule: the stages of one *)
(* pipeline, the two point-to-point channels between neighbours with their *)
(* back-pressure (flow/parallel/pipeline_comm.py), the schedule            *)
(* (flow/parallel/scheduling), and the WORLD collectives that decide, once *)
(* for all stages, whether an optimizer step is taken                      *)
(* (flow/adapters/models/qwen35_36/training.py).                           *)
(*                                                                         *)
(* A message is named by its direction, optimizer step and chunk.  Tensors *)
(* are left out; whether a loss or a gradient is finite is left open.      *)
(* Messages between two neighbours on one process group are transported    *)
(* pairwise in the order in which each side posted its sends and receives; *)
(* tags play no part, as with NCCL.  A send is complete when its receive   *)
(* has been posted and the message moved: nothing is buffered on the way.  *)
(***************************************************************************)
EXTENDS Integers, Sequences, FiniteSets

CONSTANTS
  pp_size,      \* number of stages
  num_chunks,   \* micro-batches of one optimizer step
  max_inflight, \* native.pp_max_inflight_microbatches (0: unbounded)
  Steps         \* bound: optimizer steps explored

ASSUME PipelineAssumption ==
  /\ pp_size \in Nat \ {0}
  /\ num_chunks \in Nat \ {0}
  /\ max_inflight \in Nat
  /\ Steps \in Nat \ {0}

Stages == 0..(pp_size - 1)
Chunks == 0..(num_chunks - 1)
Directions == {"fwd", "bwd"}

First(p) == p = 0
Last(p) == p = pp_size - 1

\* The process group of a direction: pp_group_fwd and pp_group_bwd.
ProcessGroups == {"pp_group_fwd", "pp_group_bwd"}

\* Variant: one group for both directions.
group_shared(d) == "pp_group_fwd"

group_of(d) == IF d = "fwd" THEN "pp_group_fwd" ELSE "pp_group_bwd"

\* The two ends of the link between stages e and e + 1.
Links == 0..(pp_size - 2)
Ends == {"upstream", "downstream"}

Messages == [dir : Directions, step : 1..Steps, chunk : Chunks]
NoMessage == [dir |-> "none", step |-> 0, chunk |-> 0]
Posts == [kind : {"send", "recv"}, msg : Messages]

VARIABLES
  pc,       \* pc[p]: where stage p is
  step,     \* step[p]: the optimizer step stage p works on
  at,       \* at[p]: operations of the schedule done in this step
  records,  \* records[p]: chunks whose forward state stage p holds
  posted,   \* posted[e][g][end]: sends and receives not yet transported
  inflight, \* inflight[p][d]: the send window of PipelineComm
  works,    \* works[p]: send_works, all waited for at the end of the step
  got,      \* got[p]: what the pending receive of stage p was given
  finite,   \* finite[p]: all losses of stage p are finite in this step
  outcome,  \* outcome[p]: for each step, "stepped" or "skipped"
  peak      \* history: peak[p], the most forward states held at once

vars == <<pc, step, at, records, posted, inflight, works, got, finite, outcome, peak>>

-----------------------------------------------------------------------------
(* The schedule: fill, steady, drain.                                      *)

\* Variant: one forward too many.
warmup_longer(p) == IF pp_size - p < num_chunks THEN pp_size - p ELSE num_chunks

warmup(p) == IF pp_size - p - 1 < num_chunks THEN pp_size - p - 1 ELSE num_chunks

forward(c)  == [op |-> "forward", chunk |-> c]
backward(c) == [op |-> "backward", chunk |-> c]

\* Variant: the drain goes backwards.
operation_lifo(p, n) ==
  LET w == warmup(p) IN
  IF n <= w THEN forward(n - 1)
  ELSE IF n > 2 * num_chunks - w THEN backward(3 * num_chunks - w - n)
  ELSE IF (n - w) % 2 = 1 THEN forward(w + (n - w - 1) \div 2)
  ELSE backward((n - w - 1) \div 2)

\* The n-th operation that OneFOneBScheduler.run performs on stage p.
operation(p, n) ==
  LET w == warmup(p)
      steady_end == w + 2 * (num_chunks - w)
      k == (n - w - 1) \div 2
  IN IF n <= w THEN forward(n - 1)
     ELSE IF n > steady_end THEN backward(n - num_chunks - 1)
     ELSE IF (n - w) % 2 = 1 THEN forward(w + k)
     ELSE backward(k)

schedule_done(p) == at[p] = 2 * num_chunks
next_op(p) == operation(p, at[p] + 1)

-----------------------------------------------------------------------------
(* PipelineComm.                                                           *)

message(d, p, c) == [dir |-> d, step |-> step[p], chunk |-> c]

\* Stage p talks to its successor on link p and to its predecessor on link p - 1.
end_of(p, e) == IF e = p THEN "upstream" ELSE "downstream"

post(p, e, kind, m) ==
  posted' = [posted EXCEPT ![e][group_of(m.dir)][end_of(p, e)] =
               Append(@, [kind |-> kind, msg |-> m])]

\* Sends go downstream in the forward direction and upstream in the backward one.
send_link(p, d) == IF d = "fwd" THEN p ELSE p - 1
recv_link(p, d) == IF d = "fwd" THEN p - 1 ELSE p
sends(p, d) == IF d = "fwd" THEN ~Last(p) ELSE ~First(p)
receives(p, d) == IF d = "fwd" THEN ~First(p) ELSE ~Last(p)

\* What stage p has posted on direction d of link e and is not yet transported.
posts(p, e, d) == posted[e][group_of(d)][end_of(p, e)]

\* The work of a send is done when the message has left its sender's posts.
work_done(p, m) ==
  LET pending == posts(p, send_link(p, m.dir), m.dir)
  IN \A i \in DOMAIN pending : pending[i] # [kind |-> "send", msg |-> m]

\* _acquire_slot, after a send joined its window: wait for the oldest one if the
\* window holds more than max_inflight.
must_wait(window) == max_inflight > 0 /\ Len(window) > max_inflight

\* Where a stage waits for its receive, and for a place in its send window.
recv_label(d) == IF d = "fwd" THEN "recv_fwd" ELSE "recv_bwd"
slot_label(d) == IF d = "fwd" THEN "slot_fwd" ELSE "slot_bwd"

\* A send of chunk c, its place in the window, and where the stage goes on.
PostSend(p, d, c) ==
  LET m == message(d, p, c)
      window == Append(inflight[p][d], m)
  IN /\ post(p, send_link(p, d), "send", m)
     /\ inflight' = [inflight EXCEPT ![p][d] = window]
     /\ works' = [works EXCEPT ![p] = Append(@, m)]
     /\ pc' = [pc EXCEPT ![p] = IF must_wait(window) THEN slot_label(d) ELSE "next"]

\* _acquire_slot's wait for the oldest send in the window.
AcquireSlot(p, d) ==
  /\ pc[p] = slot_label(d)
  /\ work_done(p, Head(inflight[p][d]))
  /\ inflight' = [inflight EXCEPT ![p][d] = Tail(@)]
  /\ pc' = [pc EXCEPT ![p] = "next"]
  /\ UNCHANGED <<step, at, records, posted, works, got, finite, outcome, peak>>

PostRecv(p, d, c) ==
  /\ post(p, recv_link(p, d), "recv", message(d, p, c))
  /\ pc' = [pc EXCEPT ![p] = recv_label(d)]

\* NCCL: the oldest posts of both ends of a link on one group, a send and a
\* receive, are paired and the message moves.
Transport(e, g) ==
  LET up == posted[e][g]["upstream"]
      down == posted[e][g]["downstream"]
  IN /\ up # <<>> /\ down # <<>>
     /\ Head(up).kind # Head(down).kind
     /\ posted' = [posted EXCEPT ![e][g]["upstream"] = Tail(@),
                                 ![e][g]["downstream"] = Tail(@)]
     /\ got' = IF Head(up).kind = "send"
               THEN [got EXCEPT ![e + 1] = Head(up).msg]
               ELSE [got EXCEPT ![e] = Head(down).msg]
     /\ UNCHANGED <<pc, step, at, records, inflight, works, finite, outcome, peak>>

-----------------------------------------------------------------------------
(* The optimizer step of one stage.                                        *)

Init ==
  /\ pc = [p \in Stages |-> "next"]
  /\ step = [p \in Stages |-> 1]
  /\ at = [p \in Stages |-> 0]
  /\ records = [p \in Stages |-> {}]
  /\ posted = [e \in Links |-> [g \in ProcessGroups |-> [s \in Ends |-> <<>>]]]
  /\ inflight = [p \in Stages |-> [d \in Directions |-> <<>>]]
  /\ works = [p \in Stages |-> <<>>]
  /\ got = [p \in Stages |-> NoMessage]
  /\ finite = [p \in Stages |-> TRUE]
  /\ outcome = [p \in Stages |-> <<>>]
  /\ peak = [p \in Stages |-> 0]

\* What follows the computation of an operation on chunk c: the result is sent
\* on, if there is a stage to send it to.
SendOn(p, d, c) ==
  IF sends(p, d) THEN PostSend(p, d, c)
  ELSE pc' = [pc EXCEPT ![p] = "next"] /\ UNCHANGED <<posted, inflight, works>>

\* forward_chunk once its input is there.  The last stage computes the loss of
\* the chunk, finite or not.
RunForward(p, c) ==
  /\ records' = [records EXCEPT ![p] = @ \cup {c}]
  /\ peak' = [peak EXCEPT ![p] = LET n == Cardinality(records'[p])
                                 IN IF n > @ THEN n ELSE @]
  /\ \E loss_finite \in BOOLEAN :
       /\ ~Last(p) => loss_finite
       /\ finite' = [finite EXCEPT ![p] = @ /\ loss_finite]
  /\ at' = [at EXCEPT ![p] = @ + 1]
  /\ got' = [got EXCEPT ![p] = NoMessage]
  /\ SendOn(p, "fwd", c)
  /\ UNCHANGED <<step, outcome>>

\* backward_chunk once the gradient of its output is there.
RunBackward(p, c) ==
  /\ records' = [records EXCEPT ![p] = @ \ {c}]
  /\ at' = [at EXCEPT ![p] = @ + 1]
  /\ got' = [got EXCEPT ![p] = NoMessage]
  /\ SendOn(p, "bwd", c)
  /\ UNCHANGED <<step, finite, outcome, peak>>

ready(p) == pc[p] = "next" /\ ~schedule_done(p)

StartForward(p) ==
  /\ ready(p)
  /\ next_op(p).op = "forward"
  /\ IF receives(p, "fwd")
     THEN /\ PostRecv(p, "fwd", next_op(p).chunk)
          /\ UNCHANGED <<step, at, records, inflight, works, got, finite, outcome, peak>>
     ELSE RunForward(p, next_op(p).chunk)

FinishForward(p) ==
  /\ pc[p] = "recv_fwd"
  /\ got[p] # NoMessage
  /\ RunForward(p, next_op(p).chunk)

\* backward_chunk raises when the forward of the chunk was not done.
StartBackward(p) ==
  /\ ready(p)
  /\ next_op(p).op = "backward"
  /\ IF next_op(p).chunk \notin records[p]
     THEN /\ pc' = [pc EXCEPT ![p] = "error"]
          /\ UNCHANGED <<step, at, records, posted, inflight, works, got, finite,
                         outcome, peak>>
     ELSE IF receives(p, "bwd")
     THEN /\ PostRecv(p, "bwd", next_op(p).chunk)
          /\ UNCHANGED <<step, at, records, inflight, works, got, finite, outcome, peak>>
     ELSE RunBackward(p, next_op(p).chunk)

FinishBackward(p) ==
  /\ pc[p] = "recv_bwd"
  /\ got[p] # NoMessage
  /\ RunBackward(p, next_op(p).chunk)

\* wait_all(send_works), after which the stage enters the finiteness collective.
WaitAll(p) ==
  /\ pc[p] = "next"
  /\ schedule_done(p)
  /\ \A i \in DOMAIN works[p] : work_done(p, works[p][i])
  /\ works' = [works EXCEPT ![p] = <<>>]
  /\ pc' = [pc EXCEPT ![p] = "finite"]
  /\ UNCHANGED <<step, at, records, posted, inflight, got, finite, outcome, peak>>

-----------------------------------------------------------------------------
(* The collectives of a step.  One completes when every stage has entered  *)
(* it; stages in different collectives wait for ever.                      *)

All(here) == \A p \in Stages : pc[p] = here

\* Stages of the set S go on with their next step, with a new PipelineComm; the
\* others go on to label other.
NextStep(S, other) ==
  /\ step' = [p \in Stages |-> IF p \in S THEN step[p] + 1 ELSE step[p]]
  /\ pc' = [p \in Stages |-> IF p \notin S THEN other
                             ELSE IF step[p] = Steps THEN "done" ELSE "next"]
  /\ at' = [p \in Stages |-> IF p \in S THEN 0 ELSE at[p]]
  /\ inflight' = [p \in Stages |-> IF p \in S THEN [d \in Directions |-> <<>>]
                                   ELSE inflight[p]]
  /\ finite' = [p \in Stages |-> p \in S \/ finite[p]]
  /\ UNCHANGED <<records, posted, works, got, peak>>

Skip(S) ==
  outcome' = [p \in Stages |-> IF p \in S THEN Append(outcome[p], "skipped") ELSE outcome[p]]

\* The minimum of the stages' finite flags: one infinite loss skips the step.
all_finite(p) == \A q \in Stages : finite[q]

AllReduceFinite ==
  /\ All("finite")
  /\ LET skipping == {p \in Stages : ~all_finite(p)}
     IN NextStep(skipping, "flags") /\ Skip(skipping)

\* reduced_grad_flags and grad_gate_verdict: a gradient that is not finite, or a
\* stage that received none, on any stage, fails the step on every stage.
GradReports == {"finite", "nonfinite", "unpopulated"}

\* Variant: every stage goes by its own gradients.
grad_failed_here(p, report) == report[p] # "finite"

grad_failed(p, report) == \E q \in Stages : report[q] # "finite"

AllReduceGradFlags ==
  /\ All("flags")
  /\ \E report \in [Stages -> GradReports] :
       LET skipping == {p \in Stages : grad_failed(p, report)}
       IN NextStep(skipping, "update") /\ Skip(skipping)

\* Clip the gradients and step the optimizer.
OptimizerStep(p) ==
  /\ pc[p] = "update"
  /\ outcome' = [outcome EXCEPT ![p] = Append(@, "stepped")]
  /\ pc' = [pc EXCEPT ![p] = "loss"]
  /\ UNCHANGED <<step, at, records, posted, inflight, works, got, finite, peak>>

\* The sum of the losses, which only the last stage has.
AllReduceLoss ==
  /\ All("loss")
  /\ NextStep(Stages, "loss")
  /\ UNCHANGED outcome

-----------------------------------------------------------------------------

Terminated == All("done") /\ UNCHANGED vars

Collective == AllReduceFinite \/ AllReduceGradFlags \/ AllReduceLoss

Stage(p) ==
  \/ StartForward(p) \/ FinishForward(p)
  \/ StartBackward(p) \/ FinishBackward(p)
  \/ \E d \in Directions : AcquireSlot(p, d)
  \/ WaitAll(p)
  \/ OptimizerStep(p)

Next ==
  \/ \E p \in Stages : Stage(p)
  \/ \E e \in Links, g \in ProcessGroups : Transport(e, g)
  \/ Collective
  \/ Terminated

Spec == Init /\ [][Next]_vars

\* Every process goes on, and the transport and the collectives progress.
FairSpec ==
  /\ Spec
  /\ \A p \in Stages : WF_vars(Stage(p))
  /\ \A e \in Links, g \in ProcessGroups : WF_vars(Transport(e, g))
  /\ WF_vars(Collective)

-----------------------------------------------------------------------------
(* Properties.                                                             *)

Labels == {"next", "recv_fwd", "recv_bwd", "slot_fwd", "slot_bwd", "finite",
           "flags", "update", "loss", "done", "error"}

TypeOK ==
  /\ pc \in [Stages -> Labels]
  /\ step \in [Stages -> 1..(Steps + 1)]
  /\ at \in [Stages -> 0..(2 * num_chunks)]
  /\ records \in [Stages -> SUBSET Chunks]
  /\ posted \in [Links -> [ProcessGroups -> [Ends -> Seq(Posts)]]]
  /\ inflight \in [Stages -> [Directions -> Seq(Messages)]]
  /\ works \in [Stages -> Seq(Messages)]
  /\ got \in [Stages -> Messages \cup {NoMessage}]
  /\ finite \in [Stages -> BOOLEAN]
  /\ outcome \in [Stages -> Seq({"stepped", "skipped"})]
  /\ peak \in [Stages -> Nat]

\* Tags are not checked by the transport: that a stage computes on the hidden
\* state, or the gradient, of the chunk and the step it is working on rests on
\* the order in which the schedules of two neighbours send and receive.
PairedByOrder ==
  \A p \in Stages : got[p] # NoMessage =>
    /\ pc[p] \in {"recv_fwd", "recv_bwd"}
    /\ got[p] = message(IF pc[p] = "recv_fwd" THEN "fwd" ELSE "bwd", p, next_op(p).chunk)

\* "1F1B attempted backward before forward" is never raised, and a stage enters
\* the collectives with every chunk done in both directions.
WholeStep ==
  \A p \in Stages :
    /\ pc[p] # "error"
    /\ pc[p] \in {"finite", "flags", "update", "loss"} =>
         schedule_done(p) /\ records[p] = {} /\ works[p] = <<>>

\* The point of 1F1B: stage p never holds the forward state of more than
\* pp_size - p chunks, however many the step has.
ActivationBound == \A p \in Stages : peak[p] <= pp_size - p

\* All stages take the same optimizer steps, each after every chunk in both directions:
\* none steps on a step that another skips, also while some have stepped and others are
\* about to.
AgreeOnSteps ==
  /\ WholeStep
  /\ \A p, q \in Stages : \A n \in DOMAIN outcome[p] \cap DOMAIN outcome[q] :
       outcome[p][n] = outcome[q][n]

\* No stage waits for ever: every step comes to its end on every stage.
AllStepsEnd == <>All("done")

=============================================================================
