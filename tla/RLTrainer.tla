---- MODULE RLTrainer ----
(***************************************************************************)
(* The RL training loop of one data-parallel replica (flow/trainer): epochs *)
(* of rollout queues, retries of undecided groups, finalisation of every   *)
(* sample, the replay buffer and the optimizer steps it triggers,          *)
(* checkpoints, the smoke boundary, and restarts from a checkpoint.        *)
(*                                                                         *)
(* One process runs the loop; what interleaves with it is the restart, at  *)
(* any point between two steps.  A launch may be given --smoke or not.     *)
(* What the wall clock decides (a time-based save) is left open.           *)
(***************************************************************************)
EXTENDS GroupDecision

CONSTANTS
  Samples,        \* the training samples
  MaxEpochs,      \* training.max_epochs
  Order,          \* Order[e]: Random(seed + e).shuffle of the samples
  QueueSize,      \* training.rollout_queue_batch_size
  GroupSize,      \* training.rollout_group_size
  Groups,         \* the scored groups a rollout may return
  SaveSteps,      \* training.save_steps (0: off)
  SaveEveryEpoch, \* training.save_checkpoint_every_epoch
  TimedSaves,     \* training.save_checkpoint_time_period_minutes > 0
  MaxRestarts,    \* bound on the restarts explored
  NoCheckpoint    \* no checkpoint written yet

Epochs == 0..(MaxEpochs - 1)
N == Cardinality(Samples)
Keys == Epochs \X Samples

ASSUME ParametersAssumption ==
  /\ IsFiniteSet(Samples) /\ Samples # {}
  /\ MaxEpochs \in Nat \ {0}
  /\ QueueSize \in Nat \ {0}
  /\ GroupSize \in Nat \ {0}
  /\ SaveSteps \in Nat
  /\ SaveEveryEpoch \in BOOLEAN /\ TimedSaves \in BOOLEAN
  /\ MaxRestarts \in Nat

\* A shuffle is a permutation of the samples.
ASSUME OrderAssumption ==
  Order \in [Epochs -> {o \in [1..N -> Samples] :
                          \A s \in Samples : \E i \in 1..N : o[i] = s}]

VARIABLES
  pc,         \* where train() is
  smoke,      \* this launch's --smoke
  epoch,      \* the epoch of the loop
  position,   \* samples of this epoch already handed to a queue or skipped
  active,     \* _sample_queue: samples of the current round still to roll out
  next_active,\* _sample_queue: samples of the current round to retry
  finished,   \* _sample_queue: samples with a final decision
  stop,       \* _sample_queue: stop_requested
  self,       \* the trainer object: buffer, counters, statistics, weights
  disk,       \* the newest checkpoint
  restarts,   \* restarts so far
  launch_step,\* history: global_step when this launch entered the loop
  queue_step  \* history: global_step when the current queue or epoch began

vars == <<pc, smoke, epoch, position, active, next_active, finished, stop,
          self, disk, restarts, launch_step, queue_step>>

queueVars == <<active, next_active, finished, stop>>

threshold == replay_buffer_optimize_threshold(QueueSize, GroupSize)

\* Statistics: RunStats is never reset, EpochStats starts again every epoch.
\* The skipped, invalid and gapless samples are counted together as rejected.
RunStats == [total_groups : Nat, retries : Nat, rejected : Nat, trainable : Nat]
EpochStats == [epoch : Nat, samples_seen : Nat, attempt_groups : Nat,
               retries : Nat, trainable : Nat]

NoRunStats == [total_groups |-> 0, retries |-> 0, rejected |-> 0, trainable |-> 0]
NewEpochStats(e) == [epoch |-> e, samples_seen |-> 0, attempt_groups |-> 0,
                     retries |-> 0, trainable |-> 0]

\* An experience is named by the epoch and the sample it was rolled out for.
\* handed counts, for each name, the experiences that train_batch has been handed
\* in the past of the LoRA weights: it goes with the weights and is saved with
\* them.  What train_batch makes of them is left out: it drops an incomplete last
\* micro-batch and one whose loss is not finite (training.py:89, 125).  finalized
\* and appended are history: how often, in the past that the weights come
\* from, a sample was finalised, and how many experiences it brought.
NewTrainer ==
  [replay_buffer |-> <<>>, global_step |-> 0, sample_index |-> 0,
   stats |-> NoRunStats, epoch_stats |-> NewEpochStats(0),
   handed    |-> [k \in Keys |-> 0],
   finalized |-> [k \in Keys |-> 0],
   appended  |-> [k \in Keys |-> 0]]

Trainers ==
  [replay_buffer : Seq(Keys), global_step : Nat, sample_index : Nat,
   stats : RunStats, epoch_stats : EpochStats, handed : [Keys -> Nat],
   finalized : [Keys -> Nat], appended : [Keys -> Nat]]

Checkpoints ==
  [global_step : Nat, sample_index : Nat, stats : RunStats,
   epoch_stats : EpochStats, handed : [Keys -> Nat],
   finalized : [Keys -> Nat], appended : [Keys -> Nat]]

ASSUME NoCheckpointAssumption == NoCheckpoint \notin Checkpoints

QueuedSamples == [sample : Samples, retry_count : Nat]
FinishedSamples == [sample : Samples, retry_count : Nat, attempt : AttemptRecords]

-----------------------------------------------------------------------------
(* Handlers of the trainer object: what a method leaves in self.           *)

\* The trainer state written to a checkpoint; refused over a non-empty buffer.
checkpoint_trainer_state(t) ==
  [global_step |-> t.global_step, sample_index |-> t.sample_index,
   stats |-> t.stats, epoch_stats |-> t.epoch_stats, handed |-> t.handed,
   finalized |-> t.finalized, appended |-> t.appended]

restore_trainer_state(c) ==
  [replay_buffer |-> <<>>, global_step |-> c.global_step,
   sample_index |-> c.sample_index, stats |-> c.stats,
   epoch_stats |-> c.epoch_stats, handed |-> c.handed,
   finalized |-> c.finalized, appended |-> c.appended]

\* _append_experiences: one experience per completion of the group.
append_experiences(t, k) ==
  [t EXCEPT !.replay_buffer = @ \o [i \in 1..GroupSize |-> k],
            !.appended[k] = @ + GroupSize]

\* A group is trained on when it was decided so and its rewards really differ.
trains(attempt) == attempt.decision \in TrainableDecisions /\ attempt.variance

\* _commit_sample_attempts: every attempt goes into the epoch statistics.  They
\* count by the decision logged, which a group without variance keeps.
commit_sample_attempts(s, q) ==
  [s EXCEPT !.attempt_groups = @ + 1,
            !.retries = @ + q.retry_count,
            !.trainable = @ + IF q.attempt.decision \in TrainableDecisions THEN 1 ELSE 0]

finish_sample(s) == [s EXCEPT !.samples_seen = @ + 1]

\* _finalize_sample up to the optimizer: experiences and run statistics, the
\* epoch statistics, then the sample counters.
finalize_sample(t, q) ==
  LET k  == <<epoch, q.sample>>
      t1 == IF trains(q.attempt)
            THEN [append_experiences(t, k) EXCEPT !.stats.trainable = @ + 1]
            ELSE [t EXCEPT !.stats.rejected = @ + 1]
  IN [t1 EXCEPT
        !.epoch_stats = finish_sample(commit_sample_attempts(@, q)),
        !.sample_index = @ + 1,
        !.finalized[k] = @ + 1]

\* Variants: force is ignored; the comparison is strict.
wants_train_unforced(t, force) == Len(t.replay_buffer) >= threshold
wants_train_strict(t, force) ==
  IF force THEN Len(t.replay_buffer) > 0 ELSE Len(t.replay_buffer) > threshold

\* _maybe_optimize: does this replica want to train, and on how much.
wants_train(t, force) ==
  IF force THEN Len(t.replay_buffer) > 0
           ELSE Len(t.replay_buffer) >= threshold

usable(t, force) ==
  IF force \/ Len(t.replay_buffer) < threshold THEN Len(t.replay_buffer) ELSE threshold

\* Variant: the buffer is not cleared behind the step.
optimize_kept(t, force) ==
  LET data == SubSeq(t.replay_buffer, 1, usable(t, force))
      copies(k) == Cardinality({i \in DOMAIN data : data[i] = k})
  IN [t EXCEPT !.handed = [k \in Keys |-> @[k] + copies(k)],
               !.global_step = @ + 1]

\* train_batch is handed the first usable experiences; then the whole buffer is cleared.
optimize(t, force) ==
  LET data == SubSeq(t.replay_buffer, 1, usable(t, force))
      copies(k) == Cardinality({i \in DOMAIN data : data[i] = k})
  IN [t EXCEPT !.handed = [k \in Keys |-> @[k] + copies(k)],
               !.replay_buffer = <<>>,
               !.global_step = @ + 1]

maybe_optimize(t, force) == IF wants_train(t, force) THEN optimize(t, force) ELSE t

\* _maybe_optimize saves a step_N checkpoint every save_steps steps, otherwise a
\* time_* checkpoint when the period has elapsed (clock).
saves_after_step(t, clock) ==
  \/ SaveSteps > 0 /\ t.global_step % SaveSteps = 0
  \/ TimedSaves /\ clock

-----------------------------------------------------------------------------

Init ==
  /\ pc = "start"
  /\ smoke \in BOOLEAN
  /\ epoch = 0
  /\ position = 0
  /\ active = <<>> /\ next_active = <<>> /\ finished = <<>> /\ stop = FALSE
  /\ self = NewTrainer
  /\ disk = NoCheckpoint
  /\ restarts = 0
  /\ launch_step = 0
  /\ queue_step = 0

next_epoch(s) == [s EXCEPT !.epoch = @ + 1, !.samples_seen = 0]

\* train() up to the epoch loop: restore the checkpoint the launch names (the
\* newest), then decide the first epoch; a checkpoint taken at the end of an
\* epoch moves on to the next one.
Start ==
  /\ pc = "start"
  /\ LET t == IF disk = NoCheckpoint THEN NewTrainer ELSE restore_trainer_state(disk)
     IN IF t.epoch_stats.samples_seen >= N
        THEN /\ epoch' = t.epoch_stats.epoch + 1
             /\ self' = [t EXCEPT !.epoch_stats = next_epoch(@)]
        ELSE /\ epoch' = t.epoch_stats.epoch
             /\ self' = t
  /\ launch_step' = self'.global_step
  /\ queue_step' = self'.global_step
  /\ pc' = "first_epoch"
  /\ UNCHANGED <<smoke, position, queueVars, disk, restarts>>

\* Variants: no offset; the start of the queue.
resume_offset_zero == 0
resume_offset_queue == (self.epoch_stats.samples_seen \div QueueSize) * QueueSize

\* Where the epoch that a checkpoint was saved in goes on.
resume_offset == self.epoch_stats.samples_seen

\* The head of the epoch loop.  The first epoch of a launch goes on with the
\* samples and statistics that the checkpoint left; every other epoch, and a
\* first epoch of which nothing was seen, starts afresh.
BeginEpoch ==
  /\ pc \in {"first_epoch", "epoch"}
  /\ epoch < MaxEpochs
  /\ LET resumed == pc = "first_epoch" /\ self.epoch_stats.samples_seen # 0
     IN /\ position' = IF resumed THEN resume_offset ELSE 0
        /\ self' = IF resumed THEN self
                   ELSE [self EXCEPT !.epoch_stats = NewEpochStats(epoch)]
  /\ queue_step' = self.global_step
  /\ pc' = "queues"
  /\ UNCHANGED <<smoke, epoch, queueVars, disk, restarts, launch_step>>

\* The next rollout queue: up to QueueSize samples, in the epoch's order.
BeginQueue ==
  /\ pc = "queues"
  /\ position < N
  /\ LET last == IF position + QueueSize <= N THEN position + QueueSize ELSE N
     IN /\ active' = [i \in 1..(last - position) |->
                        [sample |-> Order[epoch][position + i], retry_count |-> 0]]
        /\ position' = last
  /\ next_active' = <<>> /\ finished' = <<>> /\ stop' = FALSE
  /\ queue_step' = self.global_step
  /\ pc' = "rollout"
  /\ UNCHANGED <<smoke, epoch, self, disk, restarts, launch_step>>

\* The run statistics of one attempt.
count_attempt(s, retry) ==
  [s EXCEPT !.total_groups = @ + 1, !.retries = IF retry THEN @ + 1 ELSE @]

\* One sample of the current round of _sample_queue: its group is rolled out,
\* scored and classified, and the sample goes to the next round or is finished.
\* The round ends with its last sample; the queue when no sample is left.
RolloutAttempt ==
  /\ pc = "rollout"
  /\ active # <<>>
  /\ \E group \in Groups :
       LET q == Head(active)
           attempt == AttemptOf(group, q.retry_count)
           retry == attempt.decision = "retry"
           retries == IF retry
                      THEN Append(next_active, [q EXCEPT !.retry_count = @ + 1])
                      ELSE next_active
           round_over == Tail(active) = <<>>
       IN /\ self' = [self EXCEPT !.stats = count_attempt(@, retry)]
          /\ finished' = IF retry THEN finished
                         ELSE Append(finished, [sample |-> q.sample,
                                                retry_count |-> q.retry_count,
                                                attempt |-> attempt])
          /\ active' = IF round_over THEN retries ELSE Tail(active)
          /\ next_active' = IF round_over THEN <<>> ELSE retries
          /\ pc' = IF retry /\ q.retry_count + 1 >= MaxRetries + 1 THEN "retry_overflow"
                   ELSE IF active' = <<>> THEN "finalize"
                   ELSE "rollout"
  /\ UNCHANGED <<smoke, epoch, position, stop, disk, restarts, launch_step, queue_step>>

\* _finalize_sample's boundary_reached.
boundary_reached == smoke /\ self.global_step >= 1

\* _finalize_sample of the next finished sample: statistics, experiences, the
\* optimizer step they may trigger with its checkpoint, and the smoke boundary,
\* which is read before the step.
FinalizeSample ==
  /\ pc = "finalize"
  /\ finished # <<>>
  /\ LET t == finalize_sample(self, Head(finished))
         steps == wants_train(t, FALSE)
         stop_now == stop \/ (steps /\ boundary_reached)
     IN /\ self' = maybe_optimize(t, FALSE)
        /\ \E clock \in BOOLEAN :
             disk' = IF steps /\ saves_after_step(self', clock)
                     THEN checkpoint_trainer_state(self') ELSE disk
        /\ stop' = stop_now
        /\ pc' = IF Tail(finished) # <<>> THEN "finalize"
                 ELSE IF stop_now THEN "smoke_stop"
                 ELSE "queues"
  /\ finished' = Tail(finished)
  /\ UNCHANGED <<smoke, epoch, position, active, next_active, restarts,
                 launch_step, queue_step>>

\* _maybe_optimize(force=True), then _save_checkpoint, which refuses a buffer
\* that is not empty.  (The step's own save, if any, is superseded at once.)
FlushAndSave(next_pc) ==
  /\ self' = maybe_optimize(self, TRUE)
  /\ IF self'.replay_buffer # <<>>
     THEN pc' = "save_refused" /\ UNCHANGED disk
     ELSE pc' = next_pc /\ disk' = checkpoint_trainer_state(self')

\* The queue asked to stop: flush, save "final" and return.
SmokeStop ==
  /\ pc = "smoke_stop"
  /\ FlushAndSave("done")
  /\ UNCHANGED <<smoke, epoch, position, queueVars, restarts, launch_step, queue_step>>

\* The end of an epoch, with its checkpoint when that is configured.
EndEpoch ==
  /\ pc = "queues"
  /\ position >= N
  /\ IF SaveEveryEpoch THEN FlushAndSave("epoch")
     ELSE pc' = "epoch" /\ UNCHANGED <<self, disk>>
  /\ epoch' = epoch + 1
  /\ UNCHANGED <<smoke, position, queueVars, restarts, launch_step, queue_step>>

\* After the last epoch: flush and save "final".
Finish ==
  /\ pc \in {"first_epoch", "epoch"}
  /\ epoch >= MaxEpochs
  /\ FlushAndSave("done")
  /\ UNCHANGED <<smoke, epoch, position, queueVars, restarts, launch_step, queue_step>>

\* The process dies, or has ended, and is launched again: only the newest
\* checkpoint is left of it.
Restart ==
  /\ pc # "start"
  /\ restarts < MaxRestarts
  /\ restarts' = restarts + 1
  /\ pc' = "start"
  /\ smoke' \in BOOLEAN
  /\ epoch' = 0 /\ position' = 0
  /\ active' = <<>> /\ next_active' = <<>> /\ finished' = <<>> /\ stop' = FALSE
  /\ self' = NewTrainer
  /\ launch_step' = 0 /\ queue_step' = 0
  /\ UNCHANGED disk

Step == \/ Start \/ BeginEpoch \/ BeginQueue \/ RolloutAttempt \/ FinalizeSample
        \/ SmokeStop \/ EndEpoch \/ Finish

\* The only place where the loop may stop: not on an error.
Terminated == pc = "done" /\ UNCHANGED vars

Next == Step \/ Restart \/ Terminated

Spec == Init /\ [][Next]_vars

\* The loop runs on as long as the process lives.
FairSpec == Spec /\ WF_vars(Step)

-----------------------------------------------------------------------------
(* Properties.                                                             *)

inLoop == pc \in {"queues", "rollout", "finalize", "smoke_stop"}

\* Every variable stays in its domain.
TypeOK ==
  /\ pc \in {"start", "first_epoch", "epoch", "queues", "rollout", "finalize",
             "smoke_stop", "done", "retry_overflow", "save_refused"}
  /\ smoke \in BOOLEAN
  /\ epoch \in Nat /\ position \in 0..N
  /\ active \in Seq(QueuedSamples) /\ next_active \in Seq(QueuedSamples)
  /\ finished \in Seq(FinishedSamples)
  /\ stop \in BOOLEAN
  /\ self \in Trainers
  /\ disk \in Checkpoints \cup {NoCheckpoint}
  /\ restarts \in 0..MaxRestarts
  /\ launch_step \in Nat /\ queue_step \in Nat

\* No legal sequence of rollouts, steps, saves and restarts reaches one of the
\* two errors the loop raises about itself: a retry count beyond the maximum
\* (trainer.py), and a save over a replay buffer that is not empty
\* (checkpoint.py).
NoTrainerError == pc \notin {"retry_overflow", "save_refused"}

\* Every experience of a finalised sample is handed to train_batch once, or is
\* still in the buffer, although maybe_optimize hands over a prefix of the buffer
\* and then clears all of it, and although the buffer is not part of a checkpoint
\* (optimize.py).  That train_batch drops some of what it is handed is another
\* matter (training.py:89, 125).
ExperienceConservation ==
  \A k \in Keys :
    self.appended[k] = self.handed[k]
      + Cardinality({i \in DOMAIN self.replay_buffer : self.replay_buffer[i] = k})

\* A rollout queue triggers at most one optimizer step, and leaves less in the
\* buffer than triggers the next, even when earlier queues left experiences.
StepCadence ==
  /\ Len(self.replay_buffer) < threshold
  /\ inLoop => self.global_step <= queue_step + 1

\* How often samples of epoch e were finalised in the past of the weights.
finalizations(e) ==
  Cardinality(UNION {{s} \X (1..self.finalized[<<e, s>>]) : s \in Samples})

\* Across restarts in the middle of an epoch, an epoch finalises as many samples as the
\* dataset has, never more or fewer: samples_seen, the only thing a resume goes by, counts
\* them.
SamplesCounted ==
  /\ \A e \in Epochs : e < epoch => finalizations(e) = N
  /\ inLoop =>
       /\ finalizations(epoch) = self.epoch_stats.samples_seen
       /\ self.sample_index = epoch * N + self.epoch_stats.samples_seen

\* A restart may displace samples of the interrupted queue, no others: an epoch
\* misses fewer than a queue of samples for each restart.
BoundedDisplacement ==
  \A e \in Epochs : e < epoch =>
    Cardinality({s \in Samples : self.finalized[<<e, s>>] = 0})
      <= restarts * (QueueSize - 1)

\* The two sets of statistics agree with what was finalised, also in the middle
\* of a queue; the run's group count, which a checkpoint in the middle of a queue
\* takes ahead of the samples, drifts by less than a queue for each restart.
StatsAgree ==
  inLoop =>
    /\ self.epoch_stats.attempt_groups = self.epoch_stats.samples_seen
    /\ self.stats.rejected + self.stats.trainable = self.sample_index
    /\ pc = "queues" =>
         LET drift == self.stats.total_groups - self.stats.retries - self.sample_index
         IN 0 <= drift /\ drift <= restarts * (QueueSize - 1)

\* The step a smoke launch may be at when it rolls out: its first one, if it began with none,
\* and one more for each epoch that has ended with a checkpoint, whose flush is a step that no
\* boundary is asked for.
smoke_limit == (IF launch_step = 0 THEN 1 ELSE launch_step)
                 + (IF SaveEveryEpoch THEN epoch ELSE 0)

\* A smoke launch rolls out nothing more after the step that found the boundary
\* reached: its second step, or its first one if it resumed a run that had made
\* steps.
SmokeBounded == smoke /\ pc = "rollout" => self.global_step <= smoke_limit

\* What launches make of an epoch between them, wherever each is stopped and resumed: the
\* number of its samples, the samples displaced, the statistics, and the end of a smoke
\* launch within it (train, _sample_queue, the checkpoint's position).
EpochAccount == SamplesCounted /\ BoundedDisplacement /\ StatsAgree /\ SmokeBounded

\* The ledger that a state of the trainer stands for.  A process that has not restored its
\* checkpoint yet stands for the checkpoint.
savedLedger == IF disk = NoCheckpoint THEN NewTrainer.finalized ELSE disk.finalized

Ledger == INSTANCE EpochLedger WITH
  ledger <- IF pc = "start" THEN savedLedger ELSE self.finalized,
  saved <- savedLedger

\* Without retries the trainer implements the ledger, with saves in the middle of a queue
\* and restarts anywhere: every sample of every epoch is finalised once, in the shuffled
\* order.
ImplementsLedger == Ledger!Spec

\* Training ends: every launch that is not killed reaches the end of train().
Termination == <>[](pc = "done")

=============================================================================
