---- MODULE SFTTrainer ----
(***************************************************************************)
(* The SFT training loop of all data-parallel replicas                     *)
(* (flow/trainer/sft_trainer.py) over the non-pipelined train_batch_sft    *)
(* (flow/adapters/models/qwen35_36/training_sft.py): epochs that shuffle   *)
(* the sample list in place, the batch count agreed on over the replicas,  *)
(* micro-batches with infinite losses and what is done about them,         *)
(* checkpoints within and after an epoch, and restarts from the newest.    *)
(*                                                                         *)
(* A sample is named by its place in its rank's shard.  Losses are left    *)
(* out, except whether they are finite.  A launch may be given --smoke.    *)
(***************************************************************************)
EXTENDS Integers, Sequences, FiniteSets

CONSTANTS
  dp_size,      \* number of replicas
  samples,      \* number of samples in the dataset
  MaxEpochs,    \* training.max_epochs
  Shuffle,      \* Shuffle[e][n]: what Random(seed + e).shuffle does to n places
  MicroBatches, \* training.gradient_accumulation_micro_batches
  MicroSize,    \* native.micro_batch_size
  SaveSteps,    \* training.save_steps (0: off)
  SaveEveryEpoch, \* training.save_checkpoint_every_epoch
  TimedSaves,   \* training.save_checkpoint_time_period_minutes > 0
  AllowSkip,    \* native.allow_nonfinite_grad_skip
  MaxRestarts,  \* bound on the restarts explored
  NoCheckpoint  \* no checkpoint written yet

Ranks == 0..(dp_size - 1)
Epochs == 0..(MaxEpochs - 1)
effective_batch_size == MicroSize * MicroBatches

\* The length of samples[r :: dp_size].
shard_size(r) == (samples - r + dp_size - 1) \div dp_size
Places(r) == 1..shard_size(r)

ASSUME SFTAssumption ==
  /\ dp_size \in Nat \ {0} /\ samples \in Nat
  /\ MaxEpochs \in Nat \ {0}
  /\ MicroBatches \in Nat \ {0} /\ MicroSize \in Nat \ {0}
  /\ SaveSteps \in Nat /\ MaxRestarts \in Nat
  /\ {SaveEveryEpoch, TimedSaves, AllowSkip} \subseteq BOOLEAN

ASSUME ShuffleAssumption ==
  \A e \in Epochs, r \in Ranks :
    {Shuffle[e][shard_size(r)][i] : i \in Places(r)} = Places(r)

\* No checkpoint is not one: shards as save_checkpoint writes them.
ASSUME NoCheckpointAssumption ==
  NoCheckpoint \notin
    [Ranks -> [epoch : Nat, batch_idx : Int, is_epoch_end : BOOLEAN, global_step : Nat,
               trained : [Epochs -> Seq(Nat)]]]

VARIABLES
  pc,          \* pc[r]: where rank r is
  smoke,       \* this launch's --smoke
  epoch,       \* epoch[r]: the epoch of the loop
  resume_at,   \* resume_at[r]: _resume_epoch and _resume_batch_idx
  tokenized,   \* tokenized[r]: the sample list, in its present order
  n_batches,   \* n_batches[r]: batches of this epoch
  batch_idx,   \* batch_idx[r]: the batch in hand
  valid,       \* valid[r]: micro-batches of this batch with a finite loss
  global_step, \* global_step[r]
  skips,       \* skips[r]: the adapter's nonfinite_grad_skips, never saved
  trained,     \* trained[r][e][s]: times sample s was in a batch of epoch e, in the
               \*   past of the weights: it stands for them and is saved
  disk,        \* the newest checkpoint: the shard of every rank
  final,       \* history: this launch has written "final"
  resumed,     \* history: epochs that were resumed at a batch within them
  restarts     \* restarts so far

vars == <<pc, smoke, epoch, resume_at, tokenized, n_batches, batch_idx, valid,
          global_step, skips, trained, disk, final, resumed, restarts>>

loopVars == <<epoch, resume_at, tokenized, n_batches, batch_idx>>
historyVars == <<final, resumed, restarts>>

\* Labels at which a rank waits for all others; a save is a barrier whatever it
\* is written for.
Saves == {"save_step", "save_epoch", "save_smoke", "save_final"}
Waiting == {"count", "sync", "gather", "close"} \cup Saves
Labels == {"start", "epoch", "batch", "done", "failed", "killed"} \cup Waiting

goto(r, l) == pc' = [pc EXCEPT ![r] = l]
All(S) == \A r \in Ranks : pc[r] \in S

NeverTrained(r) == [e \in Epochs |-> [s \in Places(r) |-> 0]]
FileOrder(r) == [i \in Places(r) |-> i]

-----------------------------------------------------------------------------

Init ==
  /\ pc = [r \in Ranks |-> "start"]
  /\ smoke \in BOOLEAN
  /\ epoch = [r \in Ranks |-> 0]
  /\ resume_at = [r \in Ranks |-> [epoch |-> 0, batch_idx |-> 0]]
  /\ tokenized = [r \in Ranks |-> FileOrder(r)]
  /\ n_batches = [r \in Ranks |-> 0]
  /\ batch_idx = [r \in Ranks |-> 0]
  /\ valid = [r \in Ranks |-> 0]
  /\ global_step = [r \in Ranks |-> 0]
  /\ skips = [r \in Ranks |-> 0]
  /\ trained = [r \in Ranks |-> NeverTrained(r)]
  /\ disk = NoCheckpoint
  /\ final = FALSE /\ resumed = {} /\ restarts = 0

\* Variant: the saved batch again.
resume_position_same(c) ==
  IF c.is_epoch_end THEN [epoch |-> c.epoch + 1, batch_idx |-> 0]
  ELSE [epoch |-> c.epoch, batch_idx |-> c.batch_idx]

\* A checkpoint of an epoch's end goes on with the next epoch, another one with the
\* batch after the one it was saved behind.
resume_position(c) ==
  IF c.is_epoch_end THEN [epoch |-> c.epoch + 1, batch_idx |-> 0]
  ELSE [epoch |-> c.epoch, batch_idx |-> c.batch_idx + 1]

\* _resume_if_requested, from the rank's shard of the newest checkpoint.
Start(r) ==
  /\ pc[r] = "start"
  /\ IF disk = NoCheckpoint
     THEN UNCHANGED <<epoch, resume_at, global_step, trained, resumed>>
     ELSE LET c == disk[r]
              at == resume_position(c)
          IN /\ resume_at' = [resume_at EXCEPT ![r] = at]
             /\ epoch' = [epoch EXCEPT ![r] = at.epoch]
             /\ global_step' = [global_step EXCEPT ![r] = c.global_step]
             /\ trained' = [trained EXCEPT ![r] = c.trained]
             /\ resumed' = IF c.is_epoch_end THEN resumed ELSE resumed \cup {c.epoch}
  /\ goto(r, "epoch")
  /\ UNCHANGED <<smoke, tokenized, n_batches, batch_idx, valid, skips, disk, final, restarts>>

\* The incomplete last batch is dropped.
local_batches(r) == Len(tokenized[r]) \div effective_batch_size

\* The head of the epoch loop: the list is shuffled in place, as the last epoch of
\* this launch left it, and cut into batches.
BeginEpoch(r) ==
  /\ pc[r] = "epoch"
  /\ epoch[r] < MaxEpochs
  /\ tokenized' = [tokenized EXCEPT ![r] =
                     [i \in Places(r) |-> @[Shuffle[epoch[r]][shard_size(r)][i]]]]
  /\ n_batches' = [n_batches EXCEPT ![r] = local_batches(r)]
  /\ goto(r, "count")
  /\ UNCHANGED <<smoke, epoch, resume_at, batch_idx, valid, global_step, skips, trained,
                 disk, historyVars>>

\* Variant: no agreement.
agreed_batches_here(r) == n_batches[r]

\* The all_reduce (MIN) over the data-parallel group, on rank r's side.
agreed_batches(r) ==
  CHOOSE n \in {n_batches[q] : q \in Ranks} : \A q \in Ranks : n <= n_batches[q]

AgreeOnBatches ==
  /\ All({"count"})
  /\ n_batches' = [r \in Ranks |-> agreed_batches(r)]
  /\ batch_idx' = [r \in Ranks |->
       IF epoch[r] = resume_at[r].epoch THEN resume_at[r].batch_idx ELSE 0]
  /\ pc' = [r \in Ranks |-> "batch"]
  /\ UNCHANGED <<smoke, epoch, resume_at, tokenized, valid, global_step, skips, trained,
                 disk, historyVars>>

\* train_batch_sft up to the gradients: forward and backward of the micro-batches,
\* those with an infinite loss left out.
TrainBatch(r) ==
  /\ pc[r] = "batch"
  /\ batch_idx[r] < n_batches[r]
  /\ \E n \in 0..MicroBatches : valid' = [valid EXCEPT ![r] = n]
  /\ goto(r, "sync")
  /\ UNCHANGED <<smoke, loopVars, global_step, skips, trained, disk, historyVars>>

\* Variant: batches overlap by a sample.
batch_overlapping(r) ==
  {tokenized[r][i] : i \in (batch_idx[r] * effective_batch_size + 1)..
                           ((batch_idx[r] + 1) * effective_batch_size + 1)}

\* The samples of the batch in hand.
batch(r) ==
  {tokenized[r][i] : i \in (batch_idx[r] * effective_batch_size + 1)..
                           ((batch_idx[r] + 1) * effective_batch_size)}

\* Variant: only when no micro-batch was left.
raises_without_any(r) == valid[r] = 0 /\ ~AllowSkip

\* _record_nonfinite_skip: hard failure unless skipping is allowed.
raises(r) == valid[r] < MicroBatches /\ ~AllowSkip

\* _sync_grads_and_step: the gradients are averaged over the replicas, also those
\* without one of their own.  Then the infinite losses are accounted for; a
\* rank that raises leaves for runtime.close().
SyncAndStep ==
  /\ All({"sync"})
  /\ trained' = [r \in Ranks |->
       [trained[r] EXCEPT ![epoch[r]] =
          [s \in Places(r) |-> @[s] + IF s \in batch(r) THEN 1 ELSE 0]]]
  /\ skips' = [r \in Ranks |-> skips[r] + (MicroBatches - valid[r])]
  /\ pc' = [r \in Ranks |-> IF raises(r) THEN "close" ELSE "gather"]
  /\ UNCHANGED <<smoke, loopVars, valid, global_step, disk, historyVars>>

\* The trainer's own nonfinite_grad_skips: set when the trainer is made, and
\* counted up nowhere.  (The adapter counts in an attribute of its own.)
nonfinite_grad_skips(r) == 0

\* _assert_no_frozen_steps, before "final" is saved.
final_label(r, l) == IF nonfinite_grad_skips(r) > 0 THEN "close" ELSE l

save_due(r, clock) ==
  \/ SaveSteps > 0 /\ global_step'[r] % SaveSteps = 0
  \/ TimedSaves /\ clock[r]

\* Back in the loop: a smoke launch ends here; a checkpoint is saved if it is due.
after_step(r, clock) ==
  IF smoke THEN final_label(r, "save_smoke")
  ELSE IF save_due(r, clock) THEN "save_step"
  ELSE "batch"

\* _aggregate_rank_metrics gathers over all ranks; the step is counted.
Gather ==
  /\ All({"gather"})
  /\ global_step' = [r \in Ranks |-> global_step[r] + 1]
  /\ \E clock \in [Ranks -> BOOLEAN] :
       pc' = [r \in Ranks |-> after_step(r, clock)]
  /\ batch_idx' = [r \in Ranks |->
                     IF pc'[r] = "batch" THEN batch_idx[r] + 1 ELSE batch_idx[r]]
  /\ valid' = [r \in Ranks |-> 0]
  /\ UNCHANGED <<smoke, epoch, resume_at, tokenized, n_batches, skips, trained, disk,
                 historyVars>>

\* _sft_trainer_state, for what is saved at label l.
trainer_state(r, l) ==
  CASE l = "save_epoch" -> [epoch |-> epoch[r], batch_idx |-> n_batches[r] - 1,
                            is_epoch_end |-> TRUE, global_step |-> global_step[r]]
    [] l = "save_final" -> [epoch |-> MaxEpochs - 1, batch_idx |-> 0,
                            is_epoch_end |-> TRUE, global_step |-> global_step[r]]
    [] OTHER -> [epoch |-> epoch[r], batch_idx |-> batch_idx[r],
                 is_epoch_end |-> FALSE, global_step |-> global_step[r]]

checkpoint(r) ==
  LET t == trainer_state(r, pc[r])
  IN [epoch |-> t.epoch, batch_idx |-> t.batch_idx, is_epoch_end |-> t.is_epoch_end,
      global_step |-> t.global_step, trained |-> trained[r]]

\* save_checkpoint: every rank writes its shard and waits for the others; rank 0
\* makes it a checkpoint.
SaveCheckpoint ==
  /\ All(Saves)
  /\ disk' = [r \in Ranks |-> checkpoint(r)]
  /\ final' = (final \/ pc[0] \in {"save_smoke", "save_final"})
  /\ pc' = [r \in Ranks |-> CASE pc[r] = "save_step" -> "batch"
                              [] pc[r] = "save_epoch" -> "epoch"
                              [] OTHER -> "close"]
  /\ batch_idx' = [r \in Ranks |->
                     IF pc[r] = "save_step" THEN batch_idx[r] + 1 ELSE batch_idx[r]]
  /\ epoch' = [r \in Ranks |-> IF pc[r] = "save_epoch" THEN epoch[r] + 1 ELSE epoch[r]]
  /\ UNCHANGED <<smoke, resume_at, tokenized, n_batches, valid, global_step, skips,
                 trained, resumed, restarts>>

\* The batches of the epoch are done.
EndEpoch(r) ==
  /\ pc[r] = "batch"
  /\ batch_idx[r] >= n_batches[r]
  /\ goto(r, IF SaveEveryEpoch THEN "save_epoch" ELSE "epoch")
  /\ epoch' = IF SaveEveryEpoch THEN epoch ELSE [epoch EXCEPT ![r] = @ + 1]
  /\ UNCHANGED <<smoke, resume_at, tokenized, n_batches, batch_idx, valid, global_step,
                 skips, trained, disk, historyVars>>

Finish(r) ==
  /\ pc[r] = "epoch"
  /\ epoch[r] >= MaxEpochs
  /\ goto(r, final_label(r, "save_final"))
  /\ UNCHANGED <<smoke, loopVars, valid, global_step, skips, trained, disk, historyVars>>

\* runtime.close(), on the way out of train() with or without an error.
Close ==
  /\ All({"close"})
  /\ pc' = [r \in Ranks |-> IF skips[r] > 0 /\ ~AllowSkip THEN "failed" ELSE "done"]
  /\ UNCHANGED <<smoke, loopVars, valid, global_step, skips, trained, disk, historyVars>>

\* Variant: no time limit.
NoTimeout == FALSE /\ UNCHANGED vars

\* torch.distributed: ranks that wait in different collectives time out, and the
\* launcher ends the job.
CollectiveTimeout ==
  /\ All(Waiting)
  /\ \A S \in {{"count"}, {"sync"}, {"gather"}, {"close"}, Saves} : ~All(S)
  /\ pc' = [r \in Ranks |-> "killed"]
  /\ UNCHANGED <<smoke, loopVars, valid, global_step, skips, trained, disk, historyVars>>

\* All processes die, or have ended, and are launched again into a new output
\* directory, resuming from the newest checkpoint.
Restart ==
  /\ ~All({"start"})
  /\ restarts < MaxRestarts
  /\ restarts' = restarts + 1
  /\ pc' = [r \in Ranks |-> "start"]
  /\ smoke' \in BOOLEAN
  /\ epoch' = [r \in Ranks |-> 0]
  /\ resume_at' = [r \in Ranks |-> [epoch |-> 0, batch_idx |-> 0]]
  /\ tokenized' = [r \in Ranks |-> FileOrder(r)]
  /\ n_batches' = [r \in Ranks |-> 0]
  /\ batch_idx' = [r \in Ranks |-> 0]
  /\ valid' = [r \in Ranks |-> 0]
  /\ global_step' = [r \in Ranks |-> 0]
  /\ skips' = [r \in Ranks |-> 0]
  /\ trained' = [r \in Ranks |-> NeverTrained(r)]
  /\ final' = FALSE
  /\ UNCHANGED <<disk, resumed>>

Ended == All({"done", "failed", "killed"})
Terminated == Ended /\ UNCHANGED vars

Rank(r) == Start(r) \/ BeginEpoch(r) \/ TrainBatch(r) \/ EndEpoch(r) \/ Finish(r)

Collective ==
  AgreeOnBatches \/ SyncAndStep \/ Gather \/ SaveCheckpoint \/ Close \/ CollectiveTimeout

Next == (\E r \in Ranks : Rank(r)) \/ Collective \/ Restart \/ Terminated

Spec == Init /\ [][Next]_vars

\* Every process goes on, and collectives that all have entered complete.
FairSpec ==
  /\ Spec
  /\ \A r \in Ranks : WF_vars(Rank(r))
  /\ WF_vars(Collective)

-----------------------------------------------------------------------------
(* Properties.                                                             *)

Checkpoints(r) ==
  [epoch : Nat, batch_idx : Int, is_epoch_end : BOOLEAN, global_step : Nat,
   trained : [Epochs -> [Places(r) -> Nat]]]

TypeOK ==
  /\ pc \in [Ranks -> Labels] /\ smoke \in BOOLEAN
  /\ epoch \in [Ranks -> 0..MaxEpochs]
  /\ resume_at \in [Ranks -> [epoch : 0..MaxEpochs, batch_idx : Nat]]
  /\ n_batches \in [Ranks -> Nat] /\ batch_idx \in [Ranks -> Nat]
  /\ valid \in [Ranks -> 0..MicroBatches]
  /\ global_step \in [Ranks -> Nat] /\ skips \in [Ranks -> Nat]
  /\ \A r \in Ranks :
       /\ tokenized[r] \in [Places(r) -> Places(r)]
       /\ trained[r] \in [Epochs -> [Places(r) -> Nat]]
       /\ disk # NoCheckpoint => disk[r] \in Checkpoints(r)
  /\ final \in BOOLEAN /\ resumed \subseteq Epochs /\ restarts \in 0..MaxRestarts

\* Some rank has met an infinite loss and is not allowed to go on.
raised == \E r \in Ranks : skips[r] > 0 /\ ~AllowSkip

\* Replicas whose shards differ in length wait for each other in the same
\* collective, at the same batch of the same epoch, after the same number of
\* steps; only after an infinite loss has ended one of them may the job be killed.
LockStep ==
  \/ raised
  \/ /\ \A r \in Ranks : pc[r] # "killed"
     /\ \A r, q \in Ranks : {pc[r], pc[q]} \subseteq Waiting =>
          /\ pc[r] = pc[q]
          /\ epoch[r] = epoch[q] /\ batch_idx[r] = batch_idx[q]
          /\ global_step[r] = global_step[q]

\* The number of batches an epoch has on every rank: the shortest shard decides.
epoch_batches ==
  LET counts == {shard_size(r) \div effective_batch_size : r \in Ranks}
  IN CHOOSE n \in counts : \A m \in counts : n <= m

\* A smoke launch never starts a batch after its first step, wherever in an epoch
\* its checkpoint left it.
SmokeOneStep ==
  \A r \in Ranks :
    smoke /\ pc[r] = "batch" =>
      global_step[r] = IF disk = NoCheckpoint THEN 0 ELSE disk[r].global_step

\* The step counter, which the learning rate and the save interval go by, stays in
\* step with the place in the data over epochs and restarts: no batch is skipped
\* or repeated by number, whatever kind of checkpoint was resumed from, and a smoke launch
\* takes one step.
StepAccount ==
  /\ SmokeOneStep
  /\ \A r \in Ranks :
       pc[r] = "batch" => global_step[r] = epoch[r] * epoch_batches + batch_idx[r]

\* An epoch that was not resumed within takes no sample twice, although the
\* list it is cut from was left shuffled by earlier epochs, or is in file order
\* after a restart; the first epoch not even when it was resumed within.
NoSampleTwice ==
  \A r \in Ranks : \A e \in Epochs, s \in Places(r) :
    trained[r][e][s] > 1 => e \in resumed \ {0}

\* "Hard failure": once a rank has met an infinite loss it is not allowed to skip,
\* no checkpoint of any kind is written by any rank of this launch.
FailClosed ==
  [][\A r \in Ranks : (skips[r] > 0 /\ ~AllowSkip) => (disk' = disk /\ (final' => final))]_vars

\* Every launch that is not killed from outside ends; no rank waits for ever.
AllEnd == <>[]Ended

=============================================================================
