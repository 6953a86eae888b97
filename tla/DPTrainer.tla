---- MODULE DPTrainer ----
(***************************************************************************)
(* RL training by several data-parallel replicas (flow/trainer/trainer.py, *)
(* optimize.py; train_batch in qwen35_36/training.py; the gradient sync of *)
(* flow/lora/lora_linear.py).  Each replica rolls out its own shard and    *)
(* fills its own buffer, at its own speed; the replicas meet in the        *)
(* collectives: the WORLD decision to train, the gradient average, the     *)
(* gathering of metrics, and the barriers of saves and of the teardown.    *)
(*                                                                         *)
(* One rank per replica (tp_size = pp_size = 1).  Collectives are paired   *)
(* in the order in which each rank enters them, as NCCL does.  Rollout,    *)
(* retries and the queue of one replica are in RLTrainer.                  *)
(***************************************************************************)
EXTENDS Integers, Sequences, FiniteSets

CONSTANTS
  dp_size,       \* number of replicas
  samples,       \* number of samples in the dataset
  MaxEpochs,     \* training.max_epochs
  QueueSize,     \* the replay threshold, in groups
  SaveSteps,     \* training.save_steps (0: off)
  SaveEveryEpoch,\* training.save_checkpoint_every_epoch
  TimedSaves     \* training.save_checkpoint_time_period_minutes > 0

ASSUME DPAssumption ==
  /\ dp_size \in Nat \ {0}
  /\ samples \in Nat
  /\ MaxEpochs \in Nat
  /\ QueueSize \in Nat \ {0}
  /\ SaveSteps \in Nat
  /\ SaveEveryEpoch \in BOOLEAN /\ TimedSaves \in BOOLEAN

Ranks == 0..(dp_size - 1)

\* Two groups of LoRA parameters: the visual ones get a gradient only from
\* micro-batches with images.
Params == {"language", "visual"}

\* The length of samples[r :: dp_size].
shard_size(r) == (samples - r + dp_size - 1) \div dp_size

VARIABLES
  epoch,       \* epoch[r]: the epoch rank r is in
  seen,        \* seen[r]: samples of its shard finalised in this epoch
  buffer,      \* buffer[r]: groups in its replay buffer
  agenda,      \* agenda[r]: the collectives rank r has ahead, the head entered
  valid,       \* valid[r]: train_batch found a finite micro-batch
  touched,     \* touched[r]: the parameters that have a gradient
  global_step, \* global_step[r]
  weights,     \* weights[r][x]: the steps whose update parameter x has had
  appended,    \* history: groups that ever entered the buffer of r
  trained      \* history: groups that r handed to train_batch

vars == <<epoch, seen, buffer, agenda, valid, touched, global_step, weights,
          appended, trained>>

\* The calls.  The decision to train is one all_reduce, forced or not.
Decisions == {"want", "flush"}
Barriers  == {"save", "teardown", "close"}
Calls     == Decisions \cup {"sync", "gather"} \cup Barriers

rolling(r) == agenda[r] = <<>> /\ epoch[r] <= MaxEpochs
done(r) == agenda[r] = <<>> /\ epoch[r] > MaxEpochs

\* Rank r has entered a collective of the set C.
in_call(r, C) == agenda[r] # <<>> /\ Head(agenda[r]) \in C

-----------------------------------------------------------------------------

Init ==
  /\ epoch = [r \in Ranks |-> 0]
  /\ seen = [r \in Ranks |-> 0]
  /\ buffer = [r \in Ranks |-> 0]
  /\ agenda = [r \in Ranks |-> <<>>]
  /\ valid = [r \in Ranks |-> FALSE]
  /\ touched = [r \in Ranks |-> {}]
  /\ global_step = [r \in Ranks |-> 0]
  /\ weights = [r \in Ranks |-> [x \in Params |-> {}]]
  /\ appended = [r \in Ranks |-> 0]
  /\ trained = [r \in Ranks |-> 0]

\* _finalize_sample: the sample's group is trainable or not; then _maybe_optimize.
FinalizeSample(r) ==
  /\ rolling(r) /\ epoch[r] < MaxEpochs /\ seen[r] < shard_size(r)
  /\ \E groups \in {0, 1} :
       /\ buffer' = [buffer EXCEPT ![r] = @ + groups]
       /\ appended' = [appended EXCEPT ![r] = @ + groups]
  /\ seen' = [seen EXCEPT ![r] = @ + 1]
  /\ agenda' = [agenda EXCEPT ![r] = <<"want">>]
  /\ UNCHANGED <<epoch, valid, touched, global_step, weights, trained>>

\* The end of an epoch: flush and save, when that is configured.
EndEpoch(r) ==
  /\ rolling(r) /\ epoch[r] < MaxEpochs /\ seen[r] = shard_size(r)
  /\ epoch' = [epoch EXCEPT ![r] = @ + 1]
  /\ seen' = [seen EXCEPT ![r] = 0]
  /\ agenda' = [agenda EXCEPT ![r] = IF SaveEveryEpoch THEN <<"flush", "save">> ELSE <<>>]
  /\ UNCHANGED <<buffer, valid, touched, global_step, weights, appended, trained>>

\* After the last epoch: flush, save "final", align with a WORLD barrier, and
\* close the runtime, which starts with another one.
Finish(r) ==
  /\ rolling(r) /\ epoch[r] = MaxEpochs
  /\ epoch' = [epoch EXCEPT ![r] = @ + 1]
  /\ agenda' = [agenda EXCEPT ![r] = <<"flush", "save", "teardown", "close">>]
  /\ UNCHANGED <<seen, buffer, valid, touched, global_step, weights, appended, trained>>

\* _maybe_optimize's local_wants_train: a forced call wants any data.
local_wants(r) ==
  IF Head(agenda[r]) = "flush" THEN buffer[r] > 0 ELSE buffer[r] >= QueueSize

\* Variant: every rank for itself.
global_wants_here(r) == local_wants(r)

\* The WORLD all_reduce (MAX) of local_wants_train, on rank r's side.
global_wants(r) == \E q \in Ranks : local_wants(q)

\* Variant: a rank below the threshold takes part without its data.
usable_full(r) == IF local_wants(r) THEN buffer[r] ELSE 0

\* take: everything on a flush, at most the threshold otherwise.
usable(r) ==
  IF Head(agenda[r]) = "flush" \/ buffer[r] < QueueSize THEN buffer[r] ELSE QueueSize

\* All ranks are in the decision.  Those that go on enter train_batch, also the
\* ones without data.  Forward and backward: a rank without data, or whose losses
\* are all infinite, has no valid micro-batch and fills in zeros; another has
\* gradients for the language model, and for the visual encoder if it had images.
Decide ==
  /\ \A r \in Ranks : in_call(r, Decisions)
  /\ agenda' = [r \in Ranks |->
                  (IF global_wants(r) THEN <<"sync", "gather">> ELSE <<>>) \o Tail(agenda[r])]
  /\ trained' = [r \in Ranks |-> IF global_wants(r) THEN trained[r] + usable(r) ELSE trained[r]]
  /\ valid' \in {v \in [Ranks -> BOOLEAN] :
                   \A r \in Ranks : v[r] => global_wants(r) /\ usable(r) > 0}
  /\ touched' \in {t \in [Ranks -> {{}, {"language"}, Params}] :
                     \A r \in Ranks : IF ~global_wants(r) THEN t[r] = {}
                                      ELSE IF valid'[r] THEN t[r] # {}
                                      ELSE t[r] = Params}
  /\ UNCHANGED <<epoch, seen, buffer, global_step, weights, appended>>

\* The average over the dp group, parameter by parameter, then clip and step.
\* A rank without a gradient for a parameter contributes a zero tensor and drops
\* the average; a rank without a valid micro-batch does not step.
stepped(r) == IF valid[r] THEN touched[r] ELSE {}

SyncGradients ==
  /\ \A r \in Ranks : in_call(r, {"sync"})
  /\ weights' = [r \in Ranks |-> [x \in Params |->
                   IF x \in stepped(r) THEN weights[r][x] \cup {global_step[r] + 1}
                   ELSE weights[r][x]]]
  /\ agenda' = [r \in Ranks |-> Tail(agenda[r])]
  /\ UNCHANGED <<epoch, seen, buffer, valid, touched, global_step, appended, trained>>

\* The metrics are gathered; back in _maybe_optimize the buffer is cleared, the
\* step counted, and a checkpoint saved if it is due, by this rank's clock where
\* the clock decides.
Gather ==
  /\ \A r \in Ranks : in_call(r, {"gather"})
  /\ buffer' = [r \in Ranks |-> 0]
  /\ global_step' = [r \in Ranks |-> global_step[r] + 1]
  /\ \E clock \in [Ranks -> IF TimedSaves THEN BOOLEAN ELSE {FALSE}] :
       agenda' = [r \in Ranks |->
         (IF (SaveSteps > 0 /\ global_step'[r] % SaveSteps = 0) \/ clock[r]
          THEN <<"save">> ELSE <<>>) \o Tail(agenda[r])]
  /\ valid' = [r \in Ranks |-> FALSE]
  /\ touched' = [r \in Ranks |-> {}]
  /\ UNCHANGED <<epoch, seen, weights, appended, trained>>

\* A WORLD barrier: after the shard of a checkpoint is written, or at the end.
Barrier ==
  /\ \A r \in Ranks : in_call(r, Barriers)
  /\ agenda' = [r \in Ranks |-> Tail(agenda[r])]
  /\ UNCHANGED <<epoch, seen, buffer, valid, touched, global_step, weights, appended, trained>>

Replica(r) == FinalizeSample(r) \/ EndEpoch(r) \/ Finish(r)

Collective == Decide \/ SyncGradients \/ Gather \/ Barrier

Terminated == (\A r \in Ranks : done(r)) /\ UNCHANGED vars

Next == (\E r \in Ranks : Replica(r)) \/ Collective \/ Terminated

Spec == Init /\ [][Next]_vars

FairSpec ==
  /\ Spec
  /\ \A r \in Ranks : WF_vars(Replica(r))
  /\ WF_vars(Collective)

-----------------------------------------------------------------------------
(* Properties.                                                             *)

TypeOK ==
  /\ epoch \in [Ranks -> 0..(MaxEpochs + 1)]
  /\ seen \in [Ranks -> Nat] /\ \A r \in Ranks : seen[r] <= shard_size(r)
  /\ buffer \in [Ranks -> 0..QueueSize]
  /\ agenda \in [Ranks -> Seq(Calls)]
  /\ valid \in [Ranks -> BOOLEAN]
  /\ touched \in [Ranks -> SUBSET Params]
  /\ global_step \in [Ranks -> Nat]
  /\ weights \in [Ranks -> [Params -> SUBSET Nat]]
  /\ appended \in [Ranks -> Nat] /\ trained \in [Ranks -> Nat]

\* Replicas decide together, train together and save together: ranks that have
\* entered a collective have entered the same one, for the same purpose, and no
\* rank has left the run while another waits for it.
CollectivesMatch ==
  \A r, q \in Ranks : agenda[r] # <<>> =>
    /\ ~done(q)
    /\ agenda[q] # <<>> => agenda[r] = agenda[q]

\* A replica's experiences all reach train_batch, also those below the threshold
\* that another replica's full buffer takes along.
NothingDropped ==
  \A r \in Ranks :
    appended[r] = trained[r] + (IF in_call(r, {"sync", "gather"}) THEN 0 ELSE buffer[r])

\* No replica ever waits for ever.
AllEnd == <>(\A r \in Ranks : done(r))

=============================================================================
