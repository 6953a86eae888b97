---- MODULE RLTrainerProofs ----
(***************************************************************************)
(* Proofs about RLTrainer, for every dataset, shuffle, set of rollout      *)
(* groups and configuration: type correctness, the absence of the errors   *)
(* the loop raises about itself, the cadence of optimizer steps, the       *)
(* conservation of experiences, the account of an epoch over any number of *)
(* restarts, and, without retries, that the loop implements EpochLedger.   *)
(***************************************************************************)
EXTENDS RLTrainer, FiniteSetTheorems, SequenceTheorems, TLAPS

Count(b, k) == Cardinality({i \in DOMAIN b : b[i] = k})

-----------------------------------------------------------------------------
(* Arithmetic of the replay threshold.                                     *)

\* Groups below the threshold leave room for one more.
LEMMA RoomForOne ==
  ASSUME NEW a \in Nat, NEW b \in Nat, NEW g \in Nat \ {0}, a < b
  PROVE  a * g + g <= b * g
<1> DEFINE d == b - a - 1
<1>1. d \in Nat /\ b = a + 1 + d
  OBVIOUS
<1>2. (a + 1 + d) * g = a * g + g + d * g
  BY <1>1
<1>3. d * g >= 0
  BY <1>1
<1>4. a * g \in Nat /\ d * g \in Nat
  BY <1>1
<1> HIDE DEF d
<1>5. b * g = a * g + g + d * g
  BY <1>1, <1>2
<1> QED
  BY <1>3, <1>4, <1>5

\* The threshold is reached exactly, by the QueueSize-th group.
LEMMA ThresholdExact ==
  ASSUME NEW k \in 0..(QueueSize - 1)
  PROVE  /\ k * GroupSize \in Nat
         /\ k * GroupSize < threshold
         /\ k * GroupSize + GroupSize <= threshold
         /\ k * GroupSize + GroupSize >= threshold <=> k = QueueSize - 1
         /\ k * GroupSize + GroupSize = (k + 1) * GroupSize
<1>1. QueueSize \in Nat \ {0} /\ GroupSize \in Nat \ {0} /\ k \in Nat
  BY ParametersAssumption
<1>2. threshold = QueueSize * GroupSize
  BY DEF threshold, replay_buffer_optimize_threshold
<1>3. k * GroupSize \in Nat /\ k * GroupSize + GroupSize = (k + 1) * GroupSize
  BY <1>1
<1>4. k * GroupSize + GroupSize <= QueueSize * GroupSize
  BY <1>1, RoomForOne
<1>5. CASE k = QueueSize - 1
  <2>1. k + 1 = QueueSize
    BY <1>1, <1>5
  <2>2. k * GroupSize + GroupSize = QueueSize * GroupSize
    BY <1>3, <2>1
  <2> QED
    BY <1>1, <1>2, <1>3, <1>5, <2>2
<1>6. CASE k < QueueSize - 1
  <2>1. (k + 1) * GroupSize + GroupSize <= QueueSize * GroupSize
    BY <1>1, <1>6, RoomForOne
  <2> QED
    BY <1>1, <1>2, <1>3, <1>4, <1>6, <2>1
<1> QED
  BY <1>1, <1>5, <1>6

\* The threshold is a positive number of experiences.
LEMMA ThresholdPositive == threshold \in Nat \ {0}
<1>1. 0 \in 0..(QueueSize - 1)
  BY ParametersAssumption
<1>2. 0 * GroupSize = 0
  BY ParametersAssumption
<1>3. QueueSize * GroupSize \in Nat
  BY ParametersAssumption
<1> QED
  BY <1>1, <1>2, <1>3, ThresholdExact DEF threshold, replay_buffer_optimize_threshold

\* A dataset has a number of samples.
LEMMA SampleCount == N \in Nat
BY ParametersAssumption, FS_CardinalityType DEF N

-----------------------------------------------------------------------------
(* Counting experiences.                                                   *)

\* Only finitely many places of a buffer hold a given name.
LEMMA CountType ==
  ASSUME NEW b \in Seq(Keys), NEW k
  PROVE  /\ IsFiniteSet({i \in DOMAIN b : b[i] = k})
         /\ Count(b, k) \in Nat
<1>1. DOMAIN b = 1..Len(b) /\ Len(b) \in Nat
  BY LenProperties
<1>2. IsFiniteSet(DOMAIN b)
  BY <1>1, FS_Interval
<1>3. IsFiniteSet({i \in DOMAIN b : b[i] = k})
  BY <1>2, FS_Subset
<1> QED
  BY <1>3, FS_CardinalityType DEF Count

\* The m numbers after n are m in number.
LEMMA IntervalAfter ==
  ASSUME NEW n \in Nat, NEW m \in Nat \ {0}
  PROVE  IsFiniteSet((n + 1)..(n + m)) /\ Cardinality((n + 1)..(n + m)) = m
<1> DEFINE a == n + 1
           b == n + m
<1>1. a \in Int /\ b \in Int /\ ~(a > b) /\ b - a + 1 = m
  OBVIOUS
<1> HIDE DEF a, b
<1>2. IsFiniteSet(a..b) /\ Cardinality(a..b) = b - a + 1
  BY <1>1, FS_Interval
<1> QED
  BY <1>1, <1>2 DEF a, b

\* An empty buffer holds no experience.
LEMMA CountEmpty ==
  ASSUME NEW k
  PROVE  Count(<<>>, k) = 0
<1>1. {i \in DOMAIN <<>> : <<>>[i] = k} = {}
  OBVIOUS
<1> QED
  BY <1>1, FS_EmptySet DEF Count

\* The experiences of one group are a sequence of its name.
LEMMA GroupIsSeq ==
  ASSUME NEW k \in Keys
  PROVE  /\ [i \in 1..GroupSize |-> k] \in Seq(Keys)
         /\ Len([i \in 1..GroupSize |-> k]) = GroupSize
BY ParametersAssumption

\* Appending a group counts GroupSize more of its name, and no more of another.
LEMMA CountAppend ==
  ASSUME NEW b \in Seq(Keys), NEW j \in Keys, NEW k \in Keys
  PROVE  Count(b \o [i \in 1..GroupSize |-> j], k)
           = Count(b, k) + (IF k = j THEN GroupSize ELSE 0)
<1> DEFINE g == [i \in 1..GroupSize |-> j]
           old == {i \in DOMAIN b : b[i] = k}
           new == IF k = j THEN (Len(b) + 1)..(Len(b) + GroupSize) ELSE {}
           all == {i \in DOMAIN (b \o g) : (b \o g)[i] = k}
<1>1. GroupSize \in Nat \ {0}
  BY ParametersAssumption
<1>4. /\ \A i \in 1..GroupSize : g[i] = j
      /\ g \in Seq(Keys) /\ Len(g) = GroupSize
  BY GroupIsSeq
<1> HIDE DEF g
<1>2. /\ DOMAIN b = 1..Len(b) /\ Len(b) \in Nat
      /\ b \o g \in Seq(Keys)
      /\ Len(b \o g) = Len(b) + GroupSize
      /\ \A i \in 1..(Len(b) + GroupSize) :
           (b \o g)[i] = IF i <= Len(b) THEN b[i] ELSE g[i - Len(b)]
  BY <1>4, LenProperties, ConcatProperties
<1>3. DOMAIN (b \o g) = 1..(Len(b) + GroupSize)
  BY <1>2, LenProperties
<1>5. \A i \in 1..(Len(b) + GroupSize) :
        (b \o g)[i] = IF i <= Len(b) THEN b[i] ELSE j
  BY <1>1, <1>2, <1>4
<1>6. all = old \cup new
  BY <1>1, <1>2, <1>3, <1>5
<1>7. old \cap new = {}
  BY <1>1, <1>2
<1>8. IsFiniteSet(old) /\ Cardinality(old) = Count(b, k) /\ Count(b, k) \in Nat
  BY CountType DEF Count
<1>9. IsFiniteSet(new) /\ Cardinality(new) = IF k = j THEN GroupSize ELSE 0
  <2>2. /\ IsFiniteSet((Len(b) + 1)..(Len(b) + GroupSize))
        /\ Cardinality((Len(b) + 1)..(Len(b) + GroupSize)) = GroupSize
    BY <1>1, <1>2, IntervalAfter
  <2> QED
    BY <2>2, FS_EmptySet
<1>10. Count(b \o g, k) = Cardinality(all)
  BY DEF Count
<1> HIDE DEF old, new, all
<1>11. Cardinality(all) = Cardinality(old) + Cardinality(new) - Cardinality(old \cap new)
  BY <1>6, <1>8, <1>9, FS_Union, Zenon
<1>12. Cardinality(old \cap new) = 0
  BY <1>7, FS_EmptySet
<1>13. Count(b \o g, k) = Count(b, k) + (IF k = j THEN GroupSize ELSE 0)
  BY <1>1, <1>8, <1>9, <1>10, <1>11, <1>12
<1> QED
  BY <1>13 DEF g

-----------------------------------------------------------------------------
(* The operators of the loop.                                              *)

\* Every attempt has a decision, and is retried only below the maximum.
LEMMA Classified ==
  ASSUME NEW group, NEW n \in Nat
  PROVE  /\ AttemptOf(group, n) \in AttemptRecords
         /\ AttemptOf(group, n).decision = "retry" => n < MaxRetries
<1>1. /\ classify_group(group, n) \in Decisions
      /\ classify_group(group, n) = "retry" => n < MaxRetries
  BY DEF classify_group, may_retry, Decisions, TrainableDecisions
<1>2. has_reward_variance(group.rewards) \in BOOLEAN
  BY DEF has_reward_variance
<1> QED
  BY <1>1, <1>2 DEF AttemptOf, AttemptRecords

\* The state of the trainer object accounts for its experiences.
Conserved(t) ==
  \A k \in Keys : t.appended[k] = t.handed[k] + Count(t.replay_buffer, k)

Grown(t, u) ==
  \/ u.replay_buffer = t.replay_buffer /\ u.appended = t.appended
  \/ \E k \in Keys :
       /\ u.replay_buffer = t.replay_buffer \o [i \in 1..GroupSize |-> k]
       /\ u.appended = [t.appended EXCEPT ![k] = @ + GroupSize]

\* A new trainer is well formed and has nothing to account for.
LEMMA NewTrainerType ==
  /\ NewTrainer \in Trainers
  /\ NewTrainer.replay_buffer = <<>>
  /\ NewTrainer.global_step = 0
  /\ NewTrainer.epoch_stats.samples_seen = 0
  /\ Conserved(NewTrainer)
<1>1. NewTrainer \in Trainers
  BY DEF NewTrainer, Trainers, NoRunStats, RunStats, NewEpochStats, EpochStats
<1>2. Conserved(NewTrainer)
  BY CountEmpty DEF NewTrainer, Conserved
<1> QED
  BY <1>1, <1>2 DEF NewTrainer, NewEpochStats

\* The fields of a trainer object.
LEMMA TrainerFields ==
  ASSUME NEW t \in Trainers
  PROVE  /\ t.replay_buffer \in Seq(Keys)
         /\ t.global_step \in Nat /\ t.sample_index \in Nat
         /\ t.stats \in RunStats /\ t.epoch_stats \in EpochStats
         /\ t.handed \in [Keys -> Nat]
         /\ t.finalized \in [Keys -> Nat] /\ t.appended \in [Keys -> Nat]
BY DEF Trainers

\* The run statistics stay counters.
LEMMA TrainableCounted ==
  ASSUME NEW s \in RunStats
  PROVE  /\ [s EXCEPT !.trainable = @ + 1] \in RunStats
         /\ [s EXCEPT !.rejected = @ + 1] \in RunStats
BY DEF RunStats

\* The epoch statistics stay counters.
LEMMA CommitType ==
  ASSUME NEW s \in EpochStats, NEW q \in FinishedSamples
  PROVE  finish_sample(commit_sample_attempts(s, q)) \in EpochStats
<1> DEFINE a == s.attempt_groups + 1
           r == s.retries + q.retry_count
           w == s.trainable + IF q.attempt.decision \in TrainableDecisions THEN 1 ELSE 0
           m == s.samples_seen + 1
<1>1. a \in Nat /\ r \in Nat /\ w \in Nat /\ m \in Nat
  BY DEF EpochStats, FinishedSamples
<1>2. finish_sample(commit_sample_attempts(s, q))
        = [s EXCEPT !.attempt_groups = a, !.retries = r, !.trainable = w, !.samples_seen = m]
  BY DEF commit_sample_attempts, finish_sample, EpochStats
<1> HIDE DEF a, r, w, m
<1> QED
  BY <1>1, <1>2 DEF EpochStats

\* _append_experiences adds one group under one name.
LEMMA AppendType ==
  ASSUME NEW t \in Trainers, NEW k \in Keys
  PROVE  /\ append_experiences(t, k) \in Trainers
         /\ append_experiences(t, k).global_step = t.global_step
         /\ append_experiences(t, k).handed = t.handed
         /\ append_experiences(t, k).replay_buffer
              = t.replay_buffer \o [i \in 1..GroupSize |-> k]
         /\ append_experiences(t, k).appended = [t.appended EXCEPT ![k] = @ + GroupSize]
<1> DEFINE b == t.replay_buffer \o [i \in 1..GroupSize |-> k]
           p == [t.appended EXCEPT ![k] = @ + GroupSize]
<1>1. b \in Seq(Keys)
  BY TrainerFields, GroupIsSeq, ConcatProperties
<1>2. p \in [Keys -> Nat]
  BY TrainerFields, ParametersAssumption
<1>3. append_experiences(t, k) = [t EXCEPT !.replay_buffer = b, !.appended = p]
  BY DEF append_experiences, Trainers
<1> HIDE DEF b, p
<1>4. /\ append_experiences(t, k) \in Trainers
      /\ append_experiences(t, k).global_step = t.global_step
      /\ append_experiences(t, k).handed = t.handed
      /\ append_experiences(t, k).replay_buffer = b
      /\ append_experiences(t, k).appended = p
  BY <1>1, <1>2, <1>3 DEF Trainers
<1> QED
  BY <1>4 DEF b, p

\* A sample brings one whole group of experiences, or none.
LEMMA FinalizeType ==
  ASSUME NEW t \in Trainers, NEW q \in FinishedSamples, epoch \in Epochs
  PROVE  /\ finalize_sample(t, q) \in Trainers
         /\ finalize_sample(t, q).global_step = t.global_step
         /\ finalize_sample(t, q).handed = t.handed
         /\ Grown(t, finalize_sample(t, q))
<1> DEFINE k == <<epoch, q.sample>>
           a == append_experiences(t, k)
           t1 == IF trains(q.attempt) THEN [a EXCEPT !.stats.trainable = @ + 1]
                 ELSE [t EXCEPT !.stats.rejected = @ + 1]
<1>1. k \in Keys
  BY DEF Keys, FinishedSamples
<1> HIDE DEF k
<1>2. /\ a \in Trainers
      /\ a.global_step = t.global_step /\ a.handed = t.handed
      /\ a.replay_buffer = t.replay_buffer \o [i \in 1..GroupSize |-> k]
      /\ a.appended = [t.appended EXCEPT ![k] = @ + GroupSize]
  BY <1>1, AppendType
<1>3. /\ t1 \in Trainers
      /\ t1.global_step = t.global_step /\ t1.handed = t.handed
      /\ Grown(t, t1)
  <2>1. CASE trains(q.attempt)
    <3> DEFINE st == [a.stats EXCEPT !.trainable = @ + 1]
    <3>1. t1 = [a EXCEPT !.stats = st]
      BY <2>1
    <3>2. st \in RunStats
      BY <1>2, TrainerFields, TrainableCounted
    <3> HIDE DEF a, t1, st
    <3>3. /\ t1 \in Trainers
          /\ t1.global_step = a.global_step /\ t1.handed = a.handed
          /\ t1.replay_buffer = a.replay_buffer /\ t1.appended = a.appended
      BY <1>2, <3>1, <3>2 DEF Trainers
    <3> QED
      BY <1>1, <1>2, <3>3 DEF Grown
  <2>2. CASE ~trains(q.attempt)
    <3> DEFINE st == [t.stats EXCEPT !.rejected = @ + 1]
    <3>1. t1 = [t EXCEPT !.stats = st]
      BY <2>2
    <3>2. st \in RunStats
      BY TrainerFields, TrainableCounted
    <3> HIDE DEF t1, st
    <3>3. /\ t1 \in Trainers
          /\ t1.global_step = t.global_step /\ t1.handed = t.handed
          /\ t1.replay_buffer = t.replay_buffer /\ t1.appended = t.appended
      BY <3>1, <3>2 DEF Trainers
    <3> QED
      BY <3>3 DEF Grown
  <2> QED
    BY <2>1, <2>2
<1> HIDE DEF t1
<1> DEFINE e == finish_sample(commit_sample_attempts(t1.epoch_stats, q))
           f == [t1.finalized EXCEPT ![k] = @ + 1]
           n == t1.sample_index + 1
<1>4. e \in EpochStats
  BY <1>3, TrainerFields, CommitType
<1>5. f \in [Keys -> Nat] /\ n \in Nat
  BY <1>1, <1>3, TrainerFields
<1>6. finalize_sample(t, q)
        = [t1 EXCEPT !.epoch_stats = e, !.sample_index = n, !.finalized = f]
  <2> DEFINE z == t1.finalized[k] + 1
  <2>1. finalize_sample(t, q)
          = [t1 EXCEPT !.epoch_stats = e, !.sample_index = n, !.finalized[k] = z]
    BY Zenon DEF finalize_sample, t1, a, k
  <2>2. f = [t1.finalized EXCEPT ![k] = z]
    OBVIOUS
  <2> HIDE DEF e, n, f, z
  <2>3. [t1 EXCEPT !.epoch_stats = e, !.sample_index = n, !.finalized[k] = z]
          = [t1 EXCEPT !.epoch_stats = e, !.sample_index = n, !.finalized = f]
    BY <1>3, <2>2 DEF Trainers
  <2> QED
    BY <2>1, <2>3
<1> HIDE DEF e, f, n
<1>7. /\ finalize_sample(t, q) \in Trainers
      /\ finalize_sample(t, q).global_step = t1.global_step
      /\ finalize_sample(t, q).handed = t1.handed
      /\ finalize_sample(t, q).replay_buffer = t1.replay_buffer
      /\ finalize_sample(t, q).appended = t1.appended
  BY <1>3, <1>4, <1>5, <1>6 DEF Trainers
<1> QED
  BY <1>3, <1>7 DEF Grown

\* An optimizer step empties the buffer; all of it is handed over if all is usable.
LEMMA OptimizeType ==
  ASSUME NEW t \in Trainers, NEW force \in BOOLEAN
  PROVE  /\ optimize(t, force) \in Trainers
         /\ optimize(t, force).replay_buffer = <<>>
         /\ optimize(t, force).global_step = t.global_step + 1
         /\ optimize(t, force).epoch_stats = t.epoch_stats
         /\ (usable(t, force) = Len(t.replay_buffer) /\ Conserved(t))
              => Conserved(optimize(t, force))
<1> DEFINE data == SubSeq(t.replay_buffer, 1, usable(t, force))
           tr == [k \in Keys |-> t.handed[k] + Count(data, k)]
           n == t.global_step + 1
           b == <<>>
           u == optimize(t, force)
<1>1. t.replay_buffer \in Seq(Keys) /\ Len(t.replay_buffer) \in Nat
  BY TrainerFields, LenProperties
<1>2. usable(t, force) \in 0..Len(t.replay_buffer)
  BY <1>1, ThresholdPositive DEF usable
<1>3. data \in Seq(Keys)
  BY <1>1, <1>2
<1>4. u = [t EXCEPT !.handed = tr, !.replay_buffer = b, !.global_step = n]
  BY DEF optimize, Count
<1> HIDE DEF data
<1>5. \A k \in Keys : Count(data, k) \in Nat
  BY <1>3, CountType
<1>6. tr \in [Keys -> Nat] /\ n \in Nat /\ b \in Seq(Keys)
  BY <1>5, TrainerFields
<1> HIDE DEF tr, u, n, b
<1>7. /\ u \in Trainers /\ u.replay_buffer = b /\ u.global_step = n
      /\ u.handed = tr /\ u.appended = t.appended /\ u.epoch_stats = t.epoch_stats
  BY <1>4, <1>6 DEF Trainers
<1>8. ASSUME usable(t, force) = Len(t.replay_buffer), Conserved(t)
      PROVE  Conserved(u)
  <2>1. data = t.replay_buffer
    BY <1>1, <1>8, SubSeqFull DEF data
  <2>2. \A k \in Keys : tr[k] = t.handed[k] + Count(t.replay_buffer, k)
    BY <2>1 DEF tr
  <2>3. \A k \in Keys : tr[k] \in Nat /\ Count(b, k) = 0
    BY <1>6, CountEmpty DEF b
  <2> QED
    BY <1>7, <1>8, <2>2, <2>3 DEF Conserved
<1> QED
  BY <1>7, <1>8 DEF u, n, b

\* New statistics leave the rest of the object alone.
LEMMA WithEpochStats ==
  ASSUME NEW t \in Trainers, NEW e \in EpochStats
  PROVE  /\ [t EXCEPT !.epoch_stats = e] \in Trainers
         /\ [t EXCEPT !.epoch_stats = e].replay_buffer = t.replay_buffer
         /\ [t EXCEPT !.epoch_stats = e].global_step = t.global_step
         /\ [t EXCEPT !.epoch_stats = e].epoch_stats = e
         /\ Conserved(t) => Conserved([t EXCEPT !.epoch_stats = e])
BY DEF Trainers, Conserved

\* New run statistics leave the rest of the object alone.
LEMMA WithStats ==
  ASSUME NEW t \in Trainers, NEW s \in RunStats
  PROVE  /\ [t EXCEPT !.stats = s] \in Trainers
         /\ [t EXCEPT !.stats = s].replay_buffer = t.replay_buffer
         /\ [t EXCEPT !.stats = s].global_step = t.global_step
         /\ [t EXCEPT !.stats = s].epoch_stats = t.epoch_stats
         /\ Conserved(t) => Conserved([t EXCEPT !.stats = s])
BY DEF Trainers, Conserved

\* An attempt counts in the run statistics, which stay counters.
LEMMA AttemptCounted ==
  ASSUME NEW s \in RunStats, NEW retry \in BOOLEAN
  PROVE  count_attempt(s, retry) \in RunStats
<1> DEFINE g == s.total_groups + 1
           r == IF retry THEN s.retries + 1 ELSE s.retries
<1>1. g \in Nat /\ r \in Nat
  BY DEF RunStats
<1>2. count_attempt(s, retry) = [s EXCEPT !.total_groups = g, !.retries = r]
  BY DEF count_attempt
<1> HIDE DEF g, r
<1> QED
  BY <1>1, <1>2 DEF RunStats

\* The statistics of a new epoch are counters.
LEMMA EpochStatsTypes ==
  /\ \A e \in Nat : NewEpochStats(e) \in EpochStats
  /\ \A s \in EpochStats :
       /\ next_epoch(s) \in EpochStats
       /\ next_epoch(s).samples_seen = 0
       /\ s.epoch \in Nat /\ s.samples_seen \in Nat
<1>1. \A e \in Nat : NewEpochStats(e) \in EpochStats
  BY DEF NewEpochStats, EpochStats
<1>2. ASSUME NEW s \in EpochStats
      PROVE  /\ next_epoch(s) \in EpochStats
             /\ next_epoch(s).samples_seen = 0
             /\ s.epoch \in Nat /\ s.samples_seen \in Nat
  <2> DEFINE n == s.epoch + 1
             z == 0
  <2>1. n \in Nat /\ z \in Nat /\ s.epoch \in Nat /\ s.samples_seen \in Nat
    BY DEF EpochStats
  <2>2. next_epoch(s) = [s EXCEPT !.epoch = n, !.samples_seen = z]
    BY DEF next_epoch
  <2> HIDE DEF n, z
  <2>3. next_epoch(s) \in EpochStats /\ next_epoch(s).samples_seen = z
    BY <2>1, <2>2 DEF EpochStats
  <2> QED
    BY <2>1, <2>3 DEF z
<1> QED
  BY <1>1, <1>2

\* What a checkpoint keeps of a conserving trainer, and gives back.
Balanced(c) == \A k \in Keys : c.appended[k] = c.handed[k]

\* A checkpoint of an empty buffer has an account that balances.
LEMMA CheckpointType ==
  ASSUME NEW t \in Trainers
  PROVE  /\ checkpoint_trainer_state(t) \in Checkpoints
         /\ (t.replay_buffer = <<>> /\ Conserved(t))
              => Balanced(checkpoint_trainer_state(t))
<1>1. checkpoint_trainer_state(t) \in Checkpoints
  BY DEF checkpoint_trainer_state, Checkpoints, Trainers
<1>2. ASSUME t.replay_buffer = <<>>, Conserved(t)
      PROVE  Balanced(checkpoint_trainer_state(t))
  <2>1. \A k \in Keys : t.handed[k] \in Nat
    BY TrainerFields
  <2> QED
    BY <1>2, <2>1, CountEmpty DEF Conserved, Balanced, checkpoint_trainer_state
<1> QED
  BY <1>1, <1>2

\* A trainer restored from such a checkpoint is conserved.
LEMMA RestoreType ==
  ASSUME NEW c \in Checkpoints
  PROVE  /\ restore_trainer_state(c) \in Trainers
         /\ restore_trainer_state(c).replay_buffer = <<>>
         /\ Balanced(c) => Conserved(restore_trainer_state(c))
<1> DEFINE b == <<>>
<1>1. b \in Seq(Keys) /\ \A k \in Keys : Count(b, k) = 0
  BY CountEmpty
<1>2. restore_trainer_state(c) =
        [replay_buffer |-> b, global_step |-> c.global_step,
         sample_index |-> c.sample_index, stats |-> c.stats,
         epoch_stats |-> c.epoch_stats, handed |-> c.handed,
         finalized |-> c.finalized, appended |-> c.appended]
  BY DEF restore_trainer_state
<1> HIDE DEF b
<1>3. restore_trainer_state(c) \in Trainers
  BY <1>1, <1>2 DEF Trainers, Checkpoints
<1>4. \A k \in Keys : c.handed[k] \in Nat
  BY DEF Checkpoints
<1>5. Balanced(c) => Conserved(restore_trainer_state(c))
  BY <1>1, <1>2, <1>4 DEF Balanced, Conserved
<1> QED
  BY <1>2, <1>3, <1>5 DEF b

-----------------------------------------------------------------------------
(* The inductive invariant.                                                *)

\* The loop handles samples of an epoch that exists, from a place within it.
LoopInv ==
  /\ pc \in {"queues", "rollout", "finalize"} => epoch < MaxEpochs
  /\ pc = "first_epoch" => self.epoch_stats.samples_seen <= N

\* The buffer holds k whole groups, less than triggers a step.  Once a queue has
\* made its step, the samples it has left cannot trigger another.
BufferLevel(k) ==
  /\ k \in 0..(QueueSize - 1)
  /\ Len(self.replay_buffer) = k * GroupSize
  /\ (pc = "finalize" /\ self.global_step # queue_step) =>
        self.global_step = queue_step + 1 /\ k + Len(finished) <= QueueSize - 1

QueueInv ==
  /\ \E k \in 0..(QueueSize - 1) : BufferLevel(k)
  /\ pc = "rollout" =>
       /\ self.global_step = queue_step
       /\ Len(active) + Len(next_active) + Len(finished) <= QueueSize
  /\ pc = "finalize" => Len(finished) <= QueueSize
  /\ pc \in {"queues", "smoke_stop"} => self.global_step <= queue_step + 1

\* A checkpoint has no experience that was not handed over.
ConservationInv == Conserved(self) /\ (disk # NoCheckpoint => Balanced(disk))

IInv == TypeOK /\ NoTrainerError /\ LoopInv /\ QueueInv /\ ConservationInv

-----------------------------------------------------------------------------
(* What the optimizer call does to a buffer of whole groups.               *)

\* A sample raises the level of the buffer by one group or not at all.
LEMMA GrownLevel ==
  ASSUME NEW t \in Trainers, NEW u \in Trainers, Grown(t, u),
         NEW k \in 0..(QueueSize - 1), Len(t.replay_buffer) = k * GroupSize
  PROVE  \E m \in {k, k + 1} : Len(u.replay_buffer) = m * GroupSize
<1>1. CASE u.replay_buffer = t.replay_buffer
  BY <1>1
<1>2. ASSUME NEW j \in Keys,
             u.replay_buffer = t.replay_buffer \o [i \in 1..GroupSize |-> j]
      PROVE  Len(u.replay_buffer) = (k + 1) * GroupSize
  <2> DEFINE g == [i \in 1..GroupSize |-> j]
  <2>1. g \in Seq(Keys) /\ Len(g) = GroupSize
    BY GroupIsSeq
  <2> HIDE DEF g
  <2>2. Len(t.replay_buffer \o g) = Len(t.replay_buffer) + Len(g)
    BY <2>1, TrainerFields, ConcatProperties
  <2>3. Len(u.replay_buffer) = k * GroupSize + GroupSize
    BY <1>2, <2>1, <2>2 DEF g
  <2> QED
    BY <2>3, ThresholdExact
<1> QED
  BY <1>1, <1>2 DEF Grown

\* What a sample appends is accounted for in the buffer.
LEMMA GrownConserved ==
  ASSUME NEW t \in Trainers, NEW u \in Trainers, Grown(t, u),
         u.handed = t.handed, Conserved(t)
  PROVE  Conserved(u)
<1>1. CASE u.replay_buffer = t.replay_buffer /\ u.appended = t.appended
  BY <1>1 DEF Conserved
<1>2. ASSUME NEW j \in Keys,
             u.replay_buffer = t.replay_buffer \o [i \in 1..GroupSize |-> j],
             u.appended = [t.appended EXCEPT ![j] = @ + GroupSize]
      PROVE  Conserved(u)
  <2> SUFFICES ASSUME NEW k \in Keys
               PROVE  u.appended[k] = u.handed[k] + Count(u.replay_buffer, k)
    BY DEF Conserved
  <2> DEFINE b == t.replay_buffer
             x == IF k = j THEN GroupSize ELSE 0
             p == t.appended
  <2>0. b \in Seq(Keys) /\ p \in [Keys -> Nat] /\ GroupSize \in Nat
    BY TrainerFields, ParametersAssumption
  <2>1. Count(u.replay_buffer, k) = Count(b, k) + x
    <3>1. u.replay_buffer = b \o [i \in 1..GroupSize |-> j]
      BY <1>2
    <3> HIDE DEF b
    <3>2. Count(b \o [i \in 1..GroupSize |-> j], k) = Count(b, k) + x
      BY <2>0, CountAppend
    <3> QED
      BY <3>1, <3>2
  <2>2. u.appended[k] = t.appended[k] + x
    <3>1. u.appended = [p EXCEPT ![j] = p[j] + GroupSize]
      BY <1>2
    <3> HIDE DEF p
    <3>2. u.appended[k] = p[k] + x
      BY <2>0, <3>1
    <3> QED
      BY <3>2 DEF p
  <2>3. t.appended[k] = t.handed[k] + Count(t.replay_buffer, k)
    BY DEF Conserved
  <2>4. t.handed[k] \in Nat /\ Count(t.replay_buffer, k) \in Nat /\ GroupSize \in Nat
    BY TrainerFields, CountType, ParametersAssumption
  <2> QED
    BY <2>1, <2>2, <2>3, <2>4
<1> QED
  BY <1>1, <1>2 DEF Grown

\* _maybe_optimize trains when the buffer holds QueueSize groups, on all of them.
LEMMA MaybeOptimize ==
  ASSUME NEW t \in Trainers, NEW m \in 0..QueueSize,
         Len(t.replay_buffer) = m * GroupSize
  PROVE  /\ maybe_optimize(t, FALSE) \in Trainers
         /\ Conserved(t) => Conserved(maybe_optimize(t, FALSE))
         /\ wants_train(t, FALSE) <=> m = QueueSize
         /\ m = QueueSize => /\ maybe_optimize(t, FALSE).replay_buffer = <<>>
                             /\ maybe_optimize(t, FALSE).global_step = t.global_step + 1
         /\ m < QueueSize => maybe_optimize(t, FALSE) = t
<1>1. QueueSize \in Nat \ {0} /\ GroupSize \in Nat \ {0}
  BY ParametersAssumption
<1>2. CASE m < QueueSize
  <2>1. Len(t.replay_buffer) < threshold
    BY <1>1, <1>2, ThresholdExact
  <2>2. ~wants_train(t, FALSE)
    BY <2>1, ThresholdPositive, TrainerFields, LenProperties DEF wants_train
  <2>3. maybe_optimize(t, FALSE) = t
    BY <2>2 DEF maybe_optimize
  <2>4. m # QueueSize
    BY <1>1, <1>2
  <2> QED
    BY <2>2, <2>3, <2>4, Zenon
<1>3. CASE m = QueueSize
  <2>1. Len(t.replay_buffer) = threshold
    BY <1>3 DEF threshold, replay_buffer_optimize_threshold
  <2>2. wants_train(t, FALSE) /\ usable(t, FALSE) = Len(t.replay_buffer)
    BY <2>1, ThresholdPositive DEF wants_train, usable
  <2>3. maybe_optimize(t, FALSE) = optimize(t, FALSE)
    BY <2>2 DEF maybe_optimize
  <2>4. /\ optimize(t, FALSE) \in Trainers
        /\ optimize(t, FALSE).replay_buffer = <<>>
        /\ optimize(t, FALSE).global_step = t.global_step + 1
        /\ Conserved(t) => Conserved(optimize(t, FALSE))
    BY <2>2, OptimizeType
  <2>5. ~(m < QueueSize)
    BY <1>1, <1>3
  <2> QED
    BY <1>3, <2>2, <2>3, <2>4, <2>5, Zenon
<1>4. m < QueueSize \/ m = QueueSize
  BY <1>1
<1> QED
  BY <1>2, <1>3, <1>4

\* A forced call leaves an empty buffer.
LEMMA Flush ==
  ASSUME NEW t \in Trainers
  PROVE  /\ maybe_optimize(t, TRUE) \in Trainers
         /\ maybe_optimize(t, TRUE).replay_buffer = <<>>
         /\ maybe_optimize(t, TRUE).epoch_stats = t.epoch_stats
         /\ Conserved(t) => Conserved(maybe_optimize(t, TRUE))
<1>1. CASE Len(t.replay_buffer) > 0
  <2>1. maybe_optimize(t, TRUE) = optimize(t, TRUE)
        /\ usable(t, TRUE) = Len(t.replay_buffer)
    BY <1>1 DEF maybe_optimize, wants_train, usable
  <2> QED
    BY <2>1, OptimizeType
<1>2. CASE ~(Len(t.replay_buffer) > 0)
  <2>1. maybe_optimize(t, TRUE) = t
    BY <1>2 DEF maybe_optimize, wants_train
  <2>2. t.replay_buffer = <<>>
    BY <1>2, TrainerFields, LenProperties, EmptySeq
  <2> QED
    BY <2>1, <2>2
<1> QED
  BY <1>1, <1>2

\* A save finds the buffer empty, and writes a checkpoint without loose ends.
LEMMA FlushAndSaveType ==
  ASSUME TypeOK, ConservationInv, NEW l, FlushAndSave(l)
  PROVE  /\ self' \in Trainers /\ self'.replay_buffer = <<>> /\ Conserved(self')
         /\ self'.epoch_stats = self.epoch_stats
         /\ pc' = l
         /\ disk' \in Checkpoints /\ Balanced(disk')
<1>1. self \in Trainers /\ Conserved(self)
  BY DEF TypeOK, ConservationInv
<1>2. self' = maybe_optimize(self, TRUE)
  BY DEF FlushAndSave
<1>3. /\ self' \in Trainers /\ self'.replay_buffer = <<>> /\ Conserved(self')
      /\ self'.epoch_stats = self.epoch_stats
  BY <1>1, <1>2, Flush
<1>4. pc' = l /\ disk' = checkpoint_trainer_state(self')
  BY <1>3 DEF FlushAndSave
<1> QED
  BY <1>3, <1>4, CheckpointType

\* An empty buffer is at level 0.
LEMMA EmptyLevel ==
  ASSUME self.replay_buffer = <<>>, pc # "finalize"
  PROVE  \E k \in 0..(QueueSize - 1) : BufferLevel(k)
<1>1. 0 \in 0..(QueueSize - 1) /\ 0 * GroupSize = 0 /\ Len(<<>>) = 0
  BY ParametersAssumption
<1>2. BufferLevel(0)
  BY <1>1 DEF BufferLevel
<1> QED
  BY <1>1, <1>2

-----------------------------------------------------------------------------
(* Every action preserves the invariant.                                   *)

\* The parts of the invariant that say something only of certain labels.
LEMMA Elsewhere ==
  ASSUME pc \notin {"first_epoch", "queues", "rollout", "finalize", "smoke_stop"},
         self.replay_buffer = <<>>
  PROVE  LoopInv /\ QueueInv
BY EmptyLevel DEF LoopInv, QueueInv

\* The invariant holds when the process starts.
LEMMA InitInv == Init => IInv
<1> SUFFICES ASSUME Init PROVE IInv
  OBVIOUS
<1> USE DEF Init
<1>1. TypeOK
  <2>1. smoke \in BOOLEAN /\ stop \in BOOLEAN
    BY Zenon
  <2>2. /\ position \in 0..N /\ restarts \in 0..MaxRestarts
        /\ epoch \in Nat /\ launch_step \in Nat /\ queue_step \in Nat
    BY SampleCount, ParametersAssumption
  <2>3. /\ active \in Seq(QueuedSamples) /\ next_active \in Seq(QueuedSamples)
        /\ finished \in Seq(FinishedSamples)
    OBVIOUS
  <2> QED
    BY <2>1, <2>2, <2>3, NewTrainerType DEF TypeOK
<1>2. NoTrainerError
  BY DEF NoTrainerError
<1>3. LoopInv /\ QueueInv
  BY NewTrainerType, Elsewhere
<1>4. ConservationInv
  BY NewTrainerType DEF ConservationInv
<1> QED
  BY <1>1, <1>2, <1>3, <1>4 DEF IInv

\* Start restores an account that balances.
LEMMA StartInv ==
  ASSUME IInv, Start
  PROVE  IInv'
<1> DEFINE t == IF disk = NoCheckpoint THEN NewTrainer ELSE restore_trainer_state(disk)
<1>1. t \in Trainers /\ t.replay_buffer = <<>> /\ Conserved(t)
  BY NewTrainerType, RestoreType DEF IInv, TypeOK, ConservationInv
<1>2. /\ IF t.epoch_stats.samples_seen >= N
         THEN /\ epoch' = t.epoch_stats.epoch + 1
              /\ self' = [t EXCEPT !.epoch_stats = next_epoch(@)]
         ELSE /\ epoch' = t.epoch_stats.epoch
              /\ self' = t
      /\ launch_step' = self'.global_step /\ queue_step' = self'.global_step
      /\ pc' = "first_epoch"
      /\ UNCHANGED <<smoke, position, queueVars, disk, restarts>>
  BY DEF Start
<1> HIDE DEF t
<1>3. /\ t.epoch_stats \in EpochStats
      /\ t.epoch_stats.epoch \in Nat /\ t.epoch_stats.samples_seen \in Nat
      /\ next_epoch(t.epoch_stats) \in EpochStats
      /\ next_epoch(t.epoch_stats).samples_seen = 0
  BY <1>1, TrainerFields, EpochStatsTypes
<1>4. /\ self' \in Trainers /\ self'.replay_buffer = <<>> /\ Conserved(self')
      /\ epoch' \in Nat /\ self'.epoch_stats.samples_seen <= N
  <2>1. CASE t.epoch_stats.samples_seen >= N
    <3>1. self' = [t EXCEPT !.epoch_stats = next_epoch(t.epoch_stats)]
      BY <1>2, <2>1
    <3>2. /\ self' \in Trainers /\ self'.replay_buffer = <<>> /\ Conserved(self')
          /\ self'.epoch_stats.samples_seen = 0
      BY <1>1, <1>3, <3>1, WithEpochStats
    <3> QED
      BY <1>2, <1>3, <2>1, <3>2, SampleCount
  <2>2. CASE ~(t.epoch_stats.samples_seen >= N)
    BY <1>1, <1>2, <1>3, <2>2, SampleCount
  <2> QED
    BY <2>1, <2>2
<1>5. self'.global_step \in Nat
  BY <1>4, TrainerFields
<1>6. TypeOK'
  BY <1>2, <1>4, <1>5 DEF IInv, TypeOK, queueVars
<1>7. NoTrainerError' /\ LoopInv'
  BY <1>2, <1>4 DEF NoTrainerError, LoopInv
<1>8. QueueInv'
  <2>1. \E k \in 0..(QueueSize - 1) : BufferLevel(k)'
    <3>1. 0 \in 0..(QueueSize - 1) /\ 0 * GroupSize = 0 /\ Len(<<>>) = 0
      BY ParametersAssumption
    <3> QED
      BY <1>2, <1>4, <3>1 DEF BufferLevel
  <2> QED
    BY <1>2, <2>1 DEF QueueInv
<1>9. ConservationInv'
  BY <1>2, <1>4 DEF IInv, ConservationInv
<1> QED
  BY <1>6, <1>7, <1>8, <1>9 DEF IInv

\* BeginEpoch goes on from a place within the epoch.
LEMMA BeginEpochInv ==
  ASSUME IInv, BeginEpoch
  PROVE  IInv'
<1> DEFINE resumed == pc = "first_epoch" /\ self.epoch_stats.samples_seen # 0
<1>1. self \in Trainers /\ epoch \in Nat
  BY DEF IInv, TypeOK
<1>2. self.epoch_stats.samples_seen \in Nat /\ NewEpochStats(epoch) \in EpochStats
  BY <1>1, TrainerFields, EpochStatsTypes
<1>3. /\ self' \in Trainers
      /\ self'.replay_buffer = self.replay_buffer
      /\ self'.global_step = self.global_step
      /\ Conserved(self')
  <2>1. CASE resumed
    BY <1>1, <2>1 DEF BeginEpoch, IInv, ConservationInv
  <2>2. CASE ~resumed
    <3>1. self' = [self EXCEPT !.epoch_stats = NewEpochStats(epoch)]
      BY <2>2 DEF BeginEpoch
    <3> QED
      BY <1>1, <1>2, <3>1, WithEpochStats DEF IInv, ConservationInv
  <2> QED
    BY <2>1, <2>2
<1>4. position' \in 0..N
  <2>1. CASE resumed
    BY <1>2, <2>1, SampleCount DEF BeginEpoch, IInv, LoopInv, resume_offset
  <2>2. CASE ~resumed
    BY <2>2, SampleCount DEF BeginEpoch
  <2> QED
    BY <2>1, <2>2
<1>5. self'.global_step \in Nat /\ queue_step' = self'.global_step
  BY <1>3, TrainerFields DEF BeginEpoch
<1>6. /\ pc' = "queues" /\ epoch < MaxEpochs
      /\ UNCHANGED <<smoke, epoch, queueVars, disk, restarts, launch_step>>
  BY DEF BeginEpoch
<1>7. TypeOK'
  BY <1>3, <1>4, <1>5, <1>6 DEF IInv, TypeOK, queueVars
<1>8. NoTrainerError' /\ LoopInv'
  BY <1>6 DEF NoTrainerError, LoopInv
<1>9. QueueInv'
  <2>1. \E k \in 0..(QueueSize - 1) : BufferLevel(k)'
    BY <1>3, <1>6 DEF IInv, QueueInv, BufferLevel
  <2> QED
    BY <1>5, <1>6, <2>1 DEF QueueInv
<1>10. ConservationInv'
  BY <1>3, <1>6 DEF IInv, ConservationInv
<1> QED
  BY <1>7, <1>8, <1>9, <1>10 DEF IInv

\* BeginQueue takes at most QueueSize samples.
LEMMA BeginQueueInv ==
  ASSUME IInv, BeginQueue
  PROVE  IInv'
<1> DEFINE last == IF position + QueueSize <= N THEN position + QueueSize ELSE N
           n == last - position
<1>1. /\ position \in 0..N /\ N \in Nat /\ QueueSize \in Nat \ {0}
      /\ epoch \in Epochs
  BY SampleCount, ParametersAssumption DEF BeginQueue, IInv, TypeOK, LoopInv, Epochs
<1>2. last \in 0..N /\ n \in Nat /\ n <= QueueSize
      /\ \A i \in 1..n : position + i \in 1..N
  BY <1>1 DEF BeginQueue
<1>3. active' = [i \in 1..n |-> [sample |-> Order[epoch][position + i], retry_count |-> 0]]
      /\ position' = last
  BY DEF BeginQueue
<1> HIDE DEF last, n
<1>4. \A i \in 1..n : Order[epoch][position + i] \in Samples
  BY <1>1, <1>2, OrderAssumption
<1>5. \A i \in 1..n :
        [sample |-> Order[epoch][position + i], retry_count |-> 0] \in QueuedSamples
  BY <1>4 DEF QueuedSamples
<1>6. active' \in Seq(QueuedSamples) /\ Len(active') = n
  BY <1>2, <1>3, <1>5
<1>7. /\ next_active' = <<>> /\ finished' = <<>> /\ stop' = FALSE
      /\ queue_step' = self.global_step
      /\ pc' = "rollout"
      /\ UNCHANGED <<smoke, epoch, self, disk, restarts, launch_step>>
  BY DEF BeginQueue
<1>8. self.global_step \in Nat
  BY TrainerFields DEF IInv, TypeOK
<1>9. TypeOK'
  <2>1. stop' \in BOOLEAN
    BY <1>7, Zenon
  <2>2. next_active' \in Seq(QueuedSamples) /\ finished' \in Seq(FinishedSamples)
    BY <1>7
  <2> QED
    BY <1>2, <1>3, <1>6, <1>7, <1>8, <2>1, <2>2 DEF IInv, TypeOK
<1>10. NoTrainerError' /\ LoopInv'
  BY <1>7 DEF NoTrainerError, LoopInv, BeginQueue, IInv
<1>11. QueueInv'
  <2>1. \E k \in 0..(QueueSize - 1) : BufferLevel(k)'
    BY <1>7 DEF IInv, QueueInv, BufferLevel
  <2>2. Len(active') + Len(next_active') + Len(finished') <= QueueSize
    BY <1>1, <1>2, <1>6, <1>7
  <2> QED
    BY <1>7, <2>1, <2>2 DEF QueueInv
<1>12. ConservationInv'
  BY <1>7 DEF IInv, ConservationInv
<1> QED
  BY <1>9, <1>10, <1>11, <1>12 DEF IInv

\* A sample that leaves the head of a round is in the next one or finished.
LEMMA LengthsMove ==
  ASSUME NEW a \in Nat, NEW b \in Nat, NEW c \in Nat, NEW a1 \in Nat, NEW b1 \in Nat,
         NEW c1 \in Nat, NEW t \in Nat, NEW r \in Nat, NEW n \in Nat,
         a + b + c <= n, t = a - 1, r + c1 = b + c + 1, a1 + b1 = t + r
  PROVE  /\ a1 + b1 + c1 <= n
         /\ a1 = 0 /\ b1 = 0 => c1 <= n
OBVIOUS

\* The empty sequence adds nothing to a length.
LEMMA NoneAdded ==
  ASSUME NEW S, NEW s \in Seq(S)
  PROVE  Len(s) + Len(<<>>) = Len(<<>>) + Len(s)
OBVIOUS

\* RolloutAttempt keeps every sample of its queue, and retries below the maximum.
LEMMA RolloutAttemptInv ==
  ASSUME IInv, RolloutAttempt
  PROVE  IInv'
<1>0. PICK group \in Groups :
      LET q == Head(active)
          attempt == AttemptOf(group, q.retry_count)
          retry == attempt.decision = "retry"
          retries == IF retry
                     THEN Append(next_active, [q EXCEPT !.retry_count = @ + 1])
                     ELSE next_active
          round_over == Tail(active) = <<>>
      IN /\ self' = [self EXCEPT !.stats = count_attempt(@, retry)]
         /\ finished' = IF retry THEN finished
                        ELSE Append(finished, [sample |-> q.sample,
                                               retry_count |-> q.retry_count,
                                               attempt |-> attempt])
         /\ active' = IF round_over THEN retries ELSE Tail(active)
         /\ next_active' = IF round_over THEN <<>> ELSE retries
         /\ pc' = IF retry /\ q.retry_count + 1 >= MaxRetries + 1 THEN "retry_overflow"
                  ELSE IF active' = <<>> THEN "finalize"
                  ELSE "rollout"
  BY DEF RolloutAttempt
<1> DEFINE q == Head(active)
           attempt == AttemptOf(group, q.retry_count)
           retry == attempt.decision = "retry"
           again == [q EXCEPT !.retry_count = @ + 1]
           record == [sample |-> q.sample, retry_count |-> q.retry_count, attempt |-> attempt]
           retries == IF retry THEN Append(next_active, again) ELSE next_active
           over == Tail(active) = <<>>
<1>1. /\ active \in Seq(QueuedSamples) /\ next_active \in Seq(QueuedSamples)
      /\ finished \in Seq(FinishedSamples) /\ active # <<>>
      /\ self \in Trainers
      /\ pc = "rollout" /\ epoch < MaxEpochs
  BY DEF RolloutAttempt, IInv, TypeOK, LoopInv
<1>2. /\ q \in QueuedSamples /\ Tail(active) \in Seq(QueuedSamples)
      /\ Len(Tail(active)) = Len(active) - 1
  BY <1>1, HeadTailProperties
<1>3. q.retry_count \in Nat /\ q.sample \in Samples
  BY <1>2 DEF QueuedSamples
<1>4. attempt \in AttemptRecords /\ (retry => q.retry_count < MaxRetries)
  BY <1>3, Classified
<1>5. /\ self' = [self EXCEPT !.stats = count_attempt(self.stats, retry)]
      /\ finished' = IF retry THEN finished ELSE Append(finished, record)
      /\ active' = IF over THEN retries ELSE Tail(active)
      /\ next_active' = IF over THEN <<>> ELSE retries
      /\ pc' = IF retry /\ q.retry_count + 1 >= MaxRetries + 1 THEN "retry_overflow"
               ELSE IF active' = <<>> THEN "finalize" ELSE "rollout"
      /\ UNCHANGED <<smoke, epoch, position, stop, disk, restarts, launch_step, queue_step>>
  BY <1>0 DEF RolloutAttempt
<1> HIDE DEF attempt
<1>6. again \in QueuedSamples /\ record \in FinishedSamples
  <2> DEFINE n == q.retry_count + 1
  <2>1. n \in Nat /\ again = [q EXCEPT !.retry_count = n]
    BY <1>3
  <2> HIDE DEF q, n, again
  <2>2. again \in QueuedSamples
    BY <1>2, <2>1 DEF QueuedSamples
  <2>3. record \in FinishedSamples
    BY <1>3, <1>4 DEF FinishedSamples
  <2> QED
    BY <2>2, <2>3
<1> HIDE DEF again, record
<1>7. /\ self' \in Trainers
      /\ self'.replay_buffer = self.replay_buffer
      /\ self'.global_step = self.global_step
      /\ Conserved(self')
  <2>1. count_attempt(self.stats, retry) \in RunStats
    BY <1>1, TrainerFields, AttemptCounted
  <2> QED
    BY <1>1, <1>5, <2>1, WithStats DEF IInv, ConservationInv
<1>8. retries \in Seq(QueuedSamples) /\ finished' \in Seq(FinishedSamples)
  BY <1>1, <1>5, <1>6
<1>9. Len(retries) + Len(finished') = Len(next_active) + Len(finished) + 1
  <2>1. CASE retry
    <3>1. retries = Append(next_active, again) /\ finished' = finished
      BY <1>5, <2>1
    <3>2. Len(retries) = Len(next_active) + 1
      BY <1>1, <1>6, <3>1
    <3> HIDE DEF retries, retry
    <3> QED
      BY <1>1, <3>1, <3>2, LenProperties
  <2>2. CASE ~retry
    <3>1. retries = next_active /\ finished' = Append(finished, record)
      BY <1>5, <2>2
    <3>2. Len(finished') = Len(finished) + 1
      BY <1>1, <1>6, <3>1
    <3> HIDE DEF retries, retry
    <3> QED
      BY <1>1, <3>1, <3>2, LenProperties
  <2> QED
    BY <2>1, <2>2
<1> HIDE DEF q, retry, retries
<1>10. /\ active' \in Seq(QueuedSamples) /\ next_active' \in Seq(QueuedSamples)
       /\ Len(active') + Len(next_active') = Len(Tail(active)) + Len(retries)
  <2>1. CASE over
    <3>1. active' = retries /\ next_active' = <<>> /\ Tail(active) = <<>>
      BY <1>5, <2>1
    <3> HIDE DEF over
    <3>2. Len(active') + Len(next_active') = Len(Tail(active)) + Len(retries)
      BY <1>8, <3>1, NoneAdded
    <3> QED
      BY <1>8, <3>1, <3>2
  <2>2. CASE ~over
    <3>1. active' = Tail(active) /\ next_active' = retries
      BY <1>5, <2>2
    <3> QED
      BY <1>2, <1>8, <3>1
  <2> QED
    BY <2>1, <2>2
<1>11. pc' \in {"finalize", "rollout"}
  BY <1>3, <1>4, <1>5, MaxRetriesAssumption
<1>12. pc' = "finalize" => Len(active') = 0 /\ Len(next_active') = 0
  <2> SUFFICES ASSUME pc' = "finalize" PROVE Len(active') = 0 /\ Len(next_active') = 0
    OBVIOUS
  <2>1. active' = <<>>
    BY <1>5
  <2>2. over
    BY <1>5, <2>1
  <2> QED
    BY <1>5, <2>1, <2>2
<1>13. /\ self.global_step = queue_step
       /\ Len(active) + Len(next_active) + Len(finished) <= QueueSize
  BY <1>1 DEF IInv, QueueInv
<1>14. /\ Len(active') + Len(next_active') + Len(finished') <= QueueSize
       /\ Len(active') = 0 /\ Len(next_active') = 0 => Len(finished') <= QueueSize
  <2>1. /\ Len(active) \in Nat /\ Len(next_active) \in Nat /\ Len(finished) \in Nat
        /\ Len(active') \in Nat /\ Len(next_active') \in Nat /\ Len(finished') \in Nat
        /\ Len(Tail(active)) \in Nat /\ Len(retries) \in Nat /\ QueueSize \in Nat
    BY <1>1, <1>2, <1>8, <1>10, LenProperties, ParametersAssumption
  <2> QED
    BY <1>2, <1>9, <1>10, <1>13, <2>1, LengthsMove
<1>15. TypeOK'
  BY <1>5, <1>7, <1>8, <1>10, <1>11 DEF IInv, TypeOK
<1>16. NoTrainerError' /\ LoopInv'
  BY <1>1, <1>5, <1>11 DEF NoTrainerError, LoopInv
<1>17. QueueInv'
  <2>1. \E k \in 0..(QueueSize - 1) : BufferLevel(k)'
    BY <1>5, <1>7, <1>13 DEF IInv, QueueInv, BufferLevel
  <2>2. pc' = "rollout" => self'.global_step = queue_step'
    BY <1>5, <1>7, <1>13
  <2>3. pc' = "finalize" => Len(finished') <= QueueSize
    BY <1>12, <1>14
  <2> QED
    BY <1>11, <1>14, <2>1, <2>2, <2>3 DEF QueueInv
<1>18. ConservationInv'
  BY <1>5, <1>7 DEF IInv, ConservationInv
<1> QED
  BY <1>15, <1>16, <1>17, <1>18 DEF IInv

\* FinalizeSample steps only when its sample fills the buffer.
LEMMA FinalizeSampleInv ==
  ASSUME IInv, FinalizeSample
  PROVE  IInv'
<1> DEFINE q == Head(finished)
           t == finalize_sample(self, q)
           steps == wants_train(t, FALSE)
           stop_now == stop \/ (steps /\ boundary_reached)
<1>1. /\ finished \in Seq(FinishedSamples) /\ finished # <<>>
      /\ self \in Trainers /\ pc = "finalize"
      /\ epoch \in Epochs /\ epoch < MaxEpochs
      /\ QueueSize \in Nat \ {0}
  BY ParametersAssumption DEF FinalizeSample, IInv, TypeOK, LoopInv, Epochs
<1>2. /\ q \in FinishedSamples /\ Tail(finished) \in Seq(FinishedSamples)
      /\ Len(Tail(finished)) = Len(finished) - 1 /\ Len(finished) \in Nat \ {0}
  BY <1>1, HeadTailProperties, EmptySeq
<1>3. /\ t \in Trainers /\ t.global_step = self.global_step
      /\ t.handed = self.handed /\ Grown(self, t)
  BY <1>1, <1>2, FinalizeType
<1>4. Conserved(t)
  BY <1>1, <1>3, GrownConserved DEF IInv, ConservationInv
<1>5. PICK k \in 0..(QueueSize - 1) : BufferLevel(k)
  BY DEF IInv, QueueInv
<1>6. PICK m \in {k, k + 1} : Len(t.replay_buffer) = m * GroupSize
  BY <1>1, <1>3, <1>5, GrownLevel DEF BufferLevel
<1>7. /\ self' = maybe_optimize(t, FALSE)
      /\ disk' \in {disk, checkpoint_trainer_state(self')}
      /\ (disk' # disk => steps)
      /\ stop' = stop_now
      /\ finished' = Tail(finished)
      /\ pc' = IF Tail(finished) # <<>> THEN "finalize"
               ELSE IF stop_now THEN "smoke_stop" ELSE "queues"
      /\ UNCHANGED <<smoke, epoch, position, active, next_active, restarts,
                     launch_step, queue_step>>
  BY DEF FinalizeSample
<1> HIDE DEF q, t
<1>8. m \in 0..QueueSize
  BY <1>1, <1>5, <1>6
<1>9. /\ self' \in Trainers /\ Conserved(self')
      /\ steps <=> m = QueueSize
      /\ m = QueueSize => self'.replay_buffer = <<>> /\ self'.global_step = t.global_step + 1
      /\ m < QueueSize => self' = t
  BY <1>3, <1>4, <1>6, <1>7, <1>8, MaybeOptimize
<1>10. stop' \in BOOLEAN
  BY <1>7, Zenon DEF IInv, TypeOK
<1>11. /\ disk' \in Checkpoints \cup {NoCheckpoint}
       /\ disk' # NoCheckpoint => Balanced(disk')
  <2>1. CASE disk' = disk
    BY <2>1 DEF IInv, TypeOK, ConservationInv
  <2>2. CASE disk' # disk
    BY <1>7, <1>9, <2>2, CheckpointType
  <2> QED
    BY <2>1, <2>2
<1>12. pc' \in {"finalize", "smoke_stop", "queues"}
  BY <1>7
<1> HIDE DEF steps, stop_now
<1>13. TypeOK'
  BY <1>2, <1>7, <1>9, <1>10, <1>11, <1>12 DEF IInv, TypeOK
<1>14. NoTrainerError' /\ LoopInv'
  BY <1>1, <1>7, <1>12 DEF NoTrainerError, LoopInv
<1>15. ConservationInv'
  BY <1>9, <1>11 DEF ConservationInv
<1>16. /\ self.global_step \in Nat /\ queue_step \in Nat
       /\ Len(finished) <= QueueSize
       /\ self.global_step # queue_step =>
            self.global_step = queue_step + 1 /\ k + Len(finished) <= QueueSize - 1
  BY <1>1, <1>5, TrainerFields DEF BufferLevel, IInv, TypeOK, QueueInv
<1>17. Len(finished') = Len(finished) - 1 /\ queue_step' = queue_step
  BY <1>2, <1>7
<1>18. /\ \E j \in 0..(QueueSize - 1) : BufferLevel(j)'
       /\ self'.global_step <= queue_step' + 1
  <2>1. CASE m = QueueSize
    <3>1. k = QueueSize - 1
      BY <1>1, <1>5, <1>6, <2>1
    <3>2. self.global_step = queue_step
      BY <1>1, <1>2, <1>16, <3>1
    <3>3. self'.global_step = queue_step' + 1 /\ self'.replay_buffer = <<>>
      BY <1>3, <1>9, <1>17, <2>1, <3>2
    <3>4. 0 \in 0..(QueueSize - 1) /\ 0 * GroupSize = 0 /\ Len(<<>>) = 0
      BY ParametersAssumption
    <3>5. 0 + Len(finished') <= QueueSize - 1
      BY <1>1, <1>2, <1>16, <1>17
    <3>6. BufferLevel(0)'
      BY <3>3, <3>4, <3>5 DEF BufferLevel
    <3> QED
      BY <1>16, <1>17, <3>3, <3>4, <3>6
  <2>2. CASE m < QueueSize
    <3>1. m \in 0..(QueueSize - 1)
      BY <1>1, <1>8, <2>2
    <3>2. /\ Len(self'.replay_buffer) = m * GroupSize
          /\ self'.global_step = self.global_step
      BY <1>3, <1>6, <1>9, <2>2
    <3>3. self.global_step # queue_step => m + Len(finished') <= QueueSize - 1
      BY <1>1, <1>2, <1>5, <1>6, <1>16, <1>17
    <3>4. BufferLevel(m)'
      BY <1>16, <1>17, <3>1, <3>2, <3>3 DEF BufferLevel
    <3> QED
      BY <1>16, <1>17, <3>1, <3>2, <3>4
  <2> QED
    BY <1>1, <1>8, <2>1, <2>2
<1>19. QueueInv'
  <2>1. Len(finished') <= QueueSize
    BY <1>1, <1>2, <1>16, <1>17
  <2> QED
    BY <1>12, <1>18, <2>1 DEF QueueInv
<1> QED
  BY <1>13, <1>14, <1>15, <1>19 DEF IInv

\* Out of the loop, with an empty buffer, only types and the account matter.
LEMMA EmptiedInv ==
  ASSUME TypeOK', pc' \in {"start", "epoch", "done"},
         self'.replay_buffer = <<>>, Conserved(self'),
         disk' # NoCheckpoint => Balanced(disk')
  PROVE  IInv'
<1>1. NoTrainerError' /\ LoopInv' /\ ConservationInv'
  BY DEF NoTrainerError, LoopInv, ConservationInv
<1>2. QueueInv'
  <2>1. \E k \in 0..(QueueSize - 1) : BufferLevel(k)'
    <3>1. 0 \in 0..(QueueSize - 1) /\ 0 * GroupSize = 0 /\ Len(<<>>) = 0
      BY ParametersAssumption
    <3> QED
      BY <3>1 DEF BufferLevel
  <2> QED
    BY <2>1 DEF QueueInv
<1> QED
  BY <1>1, <1>2 DEF IInv

\* SmokeStop and Finish: flush and save "final".
LEMMA FinalSaveInv ==
  ASSUME IInv, FlushAndSave("done"),
         UNCHANGED <<smoke, epoch, position, queueVars, restarts, launch_step, queue_step>>
  PROVE  IInv'
<1>1. /\ self' \in Trainers /\ self'.replay_buffer = <<>> /\ Conserved(self')
      /\ pc' = "done"
      /\ disk' \in Checkpoints /\ Balanced(disk')
  BY FlushAndSaveType DEF IInv
<1>2. TypeOK'
  BY <1>1 DEF IInv, TypeOK, queueVars
<1> QED
  BY <1>1, <1>2, EmptiedInv

\* SmokeStop is a final save.
LEMMA SmokeStopInv ==
  ASSUME IInv, SmokeStop
  PROVE  IInv'
BY FinalSaveInv DEF SmokeStop

\* Finish is a final save.
LEMMA FinishInv ==
  ASSUME IInv, Finish
  PROVE  IInv'
BY FinalSaveInv DEF Finish

\* The end of an epoch keeps what is in the buffer, unless it saves.
LEMMA EndEpochInv ==
  ASSUME IInv, EndEpoch
  PROVE  IInv'
<1>1. epoch \in Nat /\ epoch' = epoch + 1 /\ epoch' \in Nat
  BY DEF EndEpoch, IInv, TypeOK
<1>2. CASE SaveEveryEpoch
  <2>1. FlushAndSave("epoch")
    BY <1>2 DEF EndEpoch
  <2>2. /\ self' \in Trainers /\ self'.replay_buffer = <<>> /\ Conserved(self')
        /\ pc' = "epoch"
        /\ disk' \in Checkpoints /\ Balanced(disk')
    BY <2>1, FlushAndSaveType DEF IInv
  <2>3. TypeOK'
    BY <1>1, <2>2 DEF EndEpoch, IInv, TypeOK, queueVars
  <2> QED
    BY <2>2, <2>3, EmptiedInv
<1>3. CASE ~SaveEveryEpoch
  <2>1. pc' = "epoch" /\ UNCHANGED <<self, disk, smoke, position, queueVars, restarts,
                                     launch_step, queue_step>>
    BY <1>3 DEF EndEpoch
  <2>2. TypeOK'
    BY <1>1, <2>1 DEF IInv, TypeOK, queueVars
  <2>3. NoTrainerError' /\ LoopInv' /\ ConservationInv'
    BY <2>1 DEF NoTrainerError, LoopInv, IInv, ConservationInv
  <2>4. \E k \in 0..(QueueSize - 1) : BufferLevel(k)'
    BY <2>1 DEF IInv, QueueInv, BufferLevel
  <2>5. QueueInv'
    BY <2>1, <2>4 DEF QueueInv
  <2> QED
    BY <2>2, <2>3, <2>5 DEF IInv
<1> QED
  BY <1>2, <1>3

\* A new process starts with an empty buffer, over the checkpoint it finds.
LEMMA RestartInv ==
  ASSUME IInv, Restart
  PROVE  IInv'
<1>1. self' = NewTrainer /\ pc' = "start" /\ disk' = disk
  BY DEF Restart
<1>2. restarts' \in 0..MaxRestarts
  BY ParametersAssumption DEF Restart, IInv, TypeOK
<1>3. smoke' \in BOOLEAN /\ stop' \in BOOLEAN
  BY Zenon DEF Restart
<1>4. /\ position' \in 0..N
      /\ epoch' \in Nat /\ launch_step' \in Nat /\ queue_step' \in Nat
  BY SampleCount DEF Restart
<1>5. /\ active' \in Seq(QueuedSamples) /\ next_active' \in Seq(QueuedSamples)
      /\ finished' \in Seq(FinishedSamples)
  BY DEF Restart
<1>6. self' \in Trainers /\ self'.replay_buffer = <<>> /\ Conserved(self')
  BY <1>1, NewTrainerType
<1>7. TypeOK'
  BY <1>1, <1>2, <1>3, <1>4, <1>5, <1>6 DEF IInv, TypeOK
<1> QED
  BY <1>1, <1>6, <1>7, EmptiedInv DEF IInv, ConservationInv

\* A step that changes nothing preserves the invariant.
LEMMA UnchangedInv ==
  ASSUME IInv, UNCHANGED vars
  PROVE  IInv'
<1>1. UNCHANGED <<pc, smoke, epoch, position, active, next_active, finished, stop,
                  self, disk, restarts, launch_step, queue_step>>
  BY DEF vars
<1>2. TypeOK' /\ NoTrainerError' /\ LoopInv' /\ ConservationInv'
  BY <1>1 DEF IInv, TypeOK, NoTrainerError, LoopInv, ConservationInv
<1>3. \E k \in 0..(QueueSize - 1) : BufferLevel(k)'
  BY <1>1 DEF IInv, QueueInv, BufferLevel
<1>4. QueueInv'
  BY <1>1, <1>3 DEF IInv, QueueInv
<1> QED
  BY <1>2, <1>4 DEF IInv

-----------------------------------------------------------------------------
(* The theorems.                                                           *)

\* The invariant is inductive, so it holds of every behaviour.
THEOREM Inductive == Spec => []IInv
<1>1. Init => IInv
  BY InitInv
<1>2. IInv /\ [Next]_vars => IInv'
  <2> SUFFICES ASSUME IInv, [Next]_vars PROVE IInv'
    OBVIOUS
  <2>1. CASE Start          BY <2>1, StartInv
  <2>2. CASE BeginEpoch     BY <2>2, BeginEpochInv
  <2>3. CASE BeginQueue     BY <2>3, BeginQueueInv
  <2>4. CASE RolloutAttempt BY <2>4, RolloutAttemptInv
  <2>5. CASE FinalizeSample BY <2>5, FinalizeSampleInv
  <2>6. CASE SmokeStop      BY <2>6, SmokeStopInv
  <2>7. CASE EndEpoch       BY <2>7, EndEpochInv
  <2>8. CASE Finish         BY <2>8, FinishInv
  <2>9. CASE Restart        BY <2>9, RestartInv
  <2>10. CASE Terminated \/ UNCHANGED vars
    BY <2>10, UnchangedInv DEF Terminated
  <2> QED
    BY <2>1, <2>2, <2>3, <2>4, <2>5, <2>6, <2>7, <2>8, <2>9, <2>10 DEF Next, Step
<1> QED
  BY <1>1, <1>2, PTL DEF Spec

\* Every variable of the training loop stays in its domain, restarts included.
THEOREM TypeCorrect == Spec => []TypeOK
<1>1. IInv => TypeOK
  BY DEF IInv
<1> QED
  BY <1>1, Inductive, PTL

\* The training loop never raises one of its own two errors: trainer.py's retry
\* count beyond the maximum, checkpoint.py's save over a buffer in use.
THEOREM NoErrors == Spec => []NoTrainerError
<1>1. IInv => NoTrainerError
  BY DEF IInv
<1> QED
  BY <1>1, Inductive, PTL

\* Between _append_experiences and train_batch no experience is lost and none is handed
\* over twice, whatever the rollouts, the saves and the restarts.
THEOREM Conservation == Spec => []ExperienceConservation
<1>1. IInv => ExperienceConservation
  BY DEF IInv, ConservationInv, Conserved, Count, ExperienceConservation
<1> QED
  BY <1>1, Inductive, PTL

\* A rollout queue makes _maybe_optimize step at most once, and leaves less in
\* the replay buffer than triggers the next step.
THEOREM Cadence == Spec => []StepCadence
<1>1. IInv => StepCadence
  <2> SUFFICES ASSUME IInv PROVE StepCadence
    OBVIOUS
  <2>1. PICK k \in 0..(QueueSize - 1) : BufferLevel(k)
    BY DEF IInv, QueueInv
  <2>2. Len(self.replay_buffer) < threshold
    BY <2>1, ThresholdExact DEF BufferLevel
  <2>3. queue_step \in Nat
    BY DEF IInv, TypeOK
  <2>4. inLoop => self.global_step <= queue_step + 1
    BY <2>1, <2>3 DEF inLoop, IInv, QueueInv, BufferLevel
  <2> QED
    BY <2>2, <2>4 DEF StepCadence
<1> QED
  BY <1>1, Inductive, PTL

-----------------------------------------------------------------------------
(* The account of an epoch.                                                *)

\* The finalisations of epoch e that a ledger f holds, and their number.
Tally(f, e) == UNION {{s} \X (1..f[<<e, s>>]) : s \in Samples}

\* Ledger f holds n finalisations of epoch e.
Tallied(f, e, n) == IsFiniteSet(Tally(f, e)) /\ Cardinality(Tally(f, e)) = n

\* The samples of S that epoch e has missed.
Missed(f, e, S) == {s \in S : f[<<e, s>>] = 0}

\* The first n samples of epoch e.
Cover(e, n) == {Order[e][i] : i \in 1..n}

\* The samples a queue holds.
SamplesOf(queue) == {queue[i].sample : i \in 1..Len(queue)}

\* The samples that the queue has not finalised yet.
Underway == SamplesOf(active) \cup SamplesOf(next_active) \cup SamplesOf(finished)

\* What restarts may displace.
Loss(n) == n * (QueueSize - 1)

\* A trainer object, or a checkpoint, that is at sample n of epoch e: all epochs before e
\* are whole, those after it untouched, and the statistics say so.
Counted(t) ==
  LET e == t.epoch_stats.epoch
      n == t.epoch_stats.samples_seen
  IN /\ n <= N
     /\ \A d \in Epochs :
          /\ d < e => Tallied(t.finalized, d, N)
          /\ d = e => Tallied(t.finalized, d, n)
          /\ d > e => Tallied(t.finalized, d, 0)
     /\ t.sample_index = e * N + n
     /\ t.stats.rejected + t.stats.trainable = t.sample_index
     /\ n # 0 => t.epoch_stats.attempt_groups = n

\* At most b samples were missed by each epoch behind it, and of S by its own.
Displaced(t, S, b) ==
  \A d \in Epochs :
    /\ d < t.epoch_stats.epoch => Cardinality(Missed(t.finalized, d, Samples)) <= b
    /\ d = t.epoch_stats.epoch => Cardinality(Missed(t.finalized, d, S)) <= b

\* The run's statistics are ahead of the samples by the m that wait to be finalised and by
\* at most b that restarts have made it forget.
Drifted(t, m, b) ==
  /\ t.sample_index + m <= t.stats.total_groups - t.stats.retries
  /\ t.stats.total_groups - t.stats.retries <= t.sample_index + m + b

\* What has been seen, in or out of a queue.
Seen(t) == Cover(t.epoch_stats.epoch, t.epoch_stats.samples_seen)

\* The samples of the loop's epoch that are finalised, or displaced for good.
Settled == IF pc \in {"rollout", "finalize"} THEN Cover(epoch, position) \ Underway
           ELSE Seen(self)

\* Where the loop is in its epoch.
PlaceInv ==
  /\ pc = "start" => epoch = 0 /\ self = NewTrainer
  /\ pc # "rollout" => active = <<>> /\ next_active = <<>>
  /\ pc \notin {"rollout", "finalize"} => finished = <<>>
  /\ pc \in {"first_epoch"} \/ inLoop => self.epoch_stats.epoch = epoch
  /\ pc = "first_epoch" => self.epoch_stats.samples_seen < N
  /\ inLoop =>
       /\ epoch \in Epochs
       /\ self.epoch_stats.attempt_groups = self.epoch_stats.samples_seen
       /\ self.epoch_stats.samples_seen + Len(active) + Len(next_active) + Len(finished)
            = position
  /\ pc = "epoch" =>
       epoch = self.epoch_stats.epoch + 1 /\ self.epoch_stats.samples_seen = N
  /\ pc = "done" =>
       \/ epoch = self.epoch_stats.epoch
       \/ epoch = self.epoch_stats.epoch + 1 /\ self.epoch_stats.samples_seen = N

\* The restarts whose losses a checkpoint may hold: the next one included.
restarts_ahead == IF pc = "start" THEN restarts ELSE restarts + 1

\* A checkpoint has its own account, of the samples it says were seen.
DiskInv ==
  disk # NoCheckpoint =>
    /\ Counted(disk)
    /\ Displaced(disk, Seen(disk), Loss(restarts_ahead))
    /\ Drifted(disk, 0, Loss(restarts_ahead))

\* The inductive invariant of the account, relative to IInv.
AccountInv ==
  /\ Counted(self)
  /\ Displaced(self, Settled, Loss(restarts))
  /\ Drifted(self, Len(finished), Loss(restarts))
  /\ PlaceInv
  /\ DiskInv

-----------------------------------------------------------------------------
(* What the parts of the account are made of.                              *)

\* A further restart loses less than a queue.
LEMMA LossFacts ==
  /\ Loss(0) = 0
  /\ \A n \in Nat : /\ Loss(n) \in Nat
                    /\ Loss(n + 1) \in Nat
                    /\ Loss(n + 1) = Loss(n) + (QueueSize - 1)
<1> DEFINE k == QueueSize - 1
<1>1. k \in Nat
  BY ParametersAssumption
<1>2. \A n : Loss(n) = n * k
  BY DEF Loss
<1> HIDE DEF k
<1>3. 0 * k = 0 /\ \A n \in Nat : n * k \in Nat /\ (n + 1) * k = n * k + k
  BY <1>1
<1>4. \A n \in Nat : Loss(n) \in Nat /\ Loss(n + 1) \in Nat /\ Loss(n + 1) = Loss(n) + k
  BY <1>1, <1>2, <1>3
<1> QED
  BY <1>2, <1>3, <1>4 DEF k

\* The dataset is not empty, and an epoch's order has all of it.
LEMMA DatasetFacts ==
  /\ N \in Nat \ {0}
  /\ IsFiniteSet(Samples) /\ Cardinality(Samples) = N
  /\ Epochs \subseteq Nat
  /\ \A e \in Epochs : /\ e < MaxEpochs
                       /\ Order[e] \in [1..N -> Samples]
                       /\ Cover(e, N) = Samples
  /\ \A e \in Nat : e < MaxEpochs => e \in Epochs
<1>1. N \in Nat /\ IsFiniteSet(Samples) /\ Cardinality(Samples) = N
  BY ParametersAssumption, SampleCount DEF N
<1>2. N # 0
  BY <1>1, ParametersAssumption, FS_EmptySet
<1>3. \A e \in Epochs : Order[e] \in [1..N -> Samples]
                        /\ \A s \in Samples : \E i \in 1..N : Order[e][i] = s
  BY OrderAssumption
<1>4. ASSUME NEW e \in Epochs
      PROVE  Cover(e, N) = Samples
  <2> DEFINE o == Order[e]
  <2>1. o \in [1..N -> Samples] /\ \A s \in Samples : \E i \in 1..N : o[i] = s
    BY <1>3
  <2>2. Cover(e, N) = {o[i] : i \in 1..N}
    BY DEF Cover
  <2> HIDE DEF o
  <2>3. Cover(e, N) \subseteq Samples
    BY <2>1, <2>2
  <2>4. Samples \subseteq Cover(e, N)
    BY <2>1, <2>2
  <2> QED
    BY <2>3, <2>4
<1> QED
  BY <1>1, <1>2, <1>3, <1>4, ParametersAssumption DEF Epochs

\* Sets of missed samples are finite, and a smaller one has fewer.
LEMMA MissedFacts ==
  ASSUME NEW S \in SUBSET Samples, NEW T \in SUBSET Samples, S \subseteq T
  PROVE  IsFiniteSet(S) /\ Cardinality(S) \in Nat /\ Cardinality(S) <= Cardinality(T)
BY DatasetFacts, FS_Subset, FS_CardinalityType

\* A finalisation names a sample, and numbers how often it was finalised.
Finalization(f, e, p) == \E s \in Samples : \E i \in 1..f[<<e, s>>] : p = <<s, i>>

\* A tally consists of finalisations.
LEMMA TallyMember ==
  ASSUME NEW f, NEW e, NEW p
  PROVE  p \in Tally(f, e) <=> Finalization(f, e, p)
<1>1. p \in Tally(f, e) <=> \E s \in Samples : p \in {s} \X (1..f[<<e, s>>])
  BY Zenon DEF Tally
<1>2. \A s, S : p \in {s} \X S <=> \E i \in S : p = <<s, i>>
  OBVIOUS
<1> QED
  BY <1>1, <1>2, ZenonT(30) DEF Finalization

\* The ledger g has one finalisation more than f.
Added(f, g, e, s) == g = [f EXCEPT ![<<e, s>>] = f[<<e, s>>] + 1]

\* Finalising a sample adds one to the tally of its epoch, and none to another.
LEMMA TallyUp ==
  ASSUME NEW f \in [Keys -> Nat], NEW e \in Epochs, NEW s \in Samples, NEW g,
         Added(f, g, e, s)
  PROVE  /\ \A n \in Nat : Tallied(f, e, n) => Tallied(g, e, n + 1)
         /\ \A d \in Epochs, n \in Nat : d # e /\ Tallied(f, d, n) => Tallied(g, d, n)
<1>1. \A d \in Epochs, x \in Samples : <<d, x>> \in Keys
  BY DEF Keys
<1>2. \A d \in Epochs, x \in Samples :
        /\ f[<<d, x>>] \in Nat
        /\ g[<<d, x>>] = IF d = e /\ x = s THEN f[<<d, x>>] + 1 ELSE f[<<d, x>>]
  BY <1>1 DEF Added
<1>3. ASSUME NEW d \in Epochs, d # e
      PROVE  Tally(g, d) = Tally(f, d)
  <2>1. \A x \in Samples : g[<<d, x>>] = f[<<d, x>>]
    BY <1>2, <1>3
  <2>2. \A p : Finalization(g, d, p) <=> Finalization(f, d, p)
    BY <2>1 DEF Finalization
  <2>3. \A p : p \in Tally(g, d) <=> p \in Tally(f, d)
    BY <2>2, TallyMember
  <2> QED
    BY <2>3
<1> DEFINE x == <<s, f[<<e, s>>] + 1>>
<1>4. \A p : p \in Tally(g, e) <=> p \in Tally(f, e) \/ p = x
  <2>1. ASSUME NEW y \in Samples, NEW i
        PROVE  i \in 1..g[<<e, y>>] <=> i \in 1..f[<<e, y>>] \/ (y = s /\ i = f[<<e, s>>] + 1)
    BY <1>2
  <2>2. \A p : Finalization(g, e, p) <=> Finalization(f, e, p) \/ p = x
    BY <2>1, Zenon DEF Finalization
  <2> QED
    BY <2>2, TallyMember, Zenon
<1>5. x \notin Tally(f, e)
  <2>1. \A y, i : x = <<y, i>> => y = s /\ i = f[<<e, s>>] + 1
    OBVIOUS
  <2>2. f[<<e, s>>] + 1 \notin 1..f[<<e, s>>]
    BY <1>2
  <2> HIDE DEF x
  <2>3. ~Finalization(f, e, x)
    BY <2>1, <2>2 DEF Finalization
  <2> QED
    BY <2>3, TallyMember
<1>6. ASSUME NEW n \in Nat, Tallied(f, e, n)
      PROVE  Tallied(g, e, n + 1)
  <2>1. Tally(g, e) = Tally(f, e) \cup {x}
    BY <1>4
  <2> DEFINE T == Tally(f, e)
  <2> HIDE DEF x, T
  <2>2. IsFiniteSet(T) /\ Cardinality(T) = n /\ x \notin T
    BY <1>5, <1>6 DEF Tallied, T
  <2>3. IsFiniteSet(T \cup {x}) /\ Cardinality(T \cup {x}) = n + 1
    BY <2>2, FS_AddElement
  <2> QED
    BY <2>1, <2>3 DEF Tallied, T
<1> QED
  BY <1>3, <1>6 DEF Tallied

\* Nothing has been finalised by a new trainer.
LEMMA TallyNone ==
  ASSUME NEW d \in Epochs
  PROVE  Tallied(NewTrainer.finalized, d, 0)
<1>1. \A s \in Samples : NewTrainer.finalized[<<d, s>>] = 0
  BY DEF NewTrainer, Keys
<1>2. \A p : ~Finalization(NewTrainer.finalized, d, p)
  <2>1. \A s \in Samples : \A i : i \notin 1..NewTrainer.finalized[<<d, s>>]
    BY <1>1
  <2> QED
    BY <2>1, Zenon DEF Finalization
<1>3. \A p : p \notin Tally(NewTrainer.finalized, d)
  BY <1>2, TallyMember
<1>4. Tally(NewTrainer.finalized, d) = {}
  BY <1>3
<1> QED
  BY <1>4, FS_EmptySet DEF Tallied

-----------------------------------------------------------------------------
(* The samples of a queue.                                                 *)

\* An empty queue holds none.
LEMMA SamplesOfEmpty == SamplesOf(<<>>) = {} /\ Len(<<>>) = 0
BY DEF SamplesOf

\* An appended entry brings its sample.
LEMMA SamplesOfAppend ==
  ASSUME NEW S, NEW queue \in Seq(S), NEW q \in S
  PROVE  SamplesOf(Append(queue, q)) = SamplesOf(queue) \cup {q.sample}
<1>1. /\ Len(Append(queue, q)) = Len(queue) + 1 /\ Len(queue) \in Nat
      /\ Append(queue, q)[Len(queue) + 1] = q
      /\ \A i \in 1..Len(queue) : Append(queue, q)[i] = queue[i]
  BY AppendProperties, LenProperties
<1>2. 1..(Len(queue) + 1) = 1..Len(queue) \cup {Len(queue) + 1}
  BY <1>1
<1> QED
  BY <1>1, <1>2 DEF SamplesOf

\* The head of a queue, and the samples after it.
LEMMA SamplesOfTail ==
  ASSUME NEW S, NEW queue \in Seq(S), queue # <<>>
  PROVE  SamplesOf(queue) = {Head(queue).sample} \cup SamplesOf(Tail(queue))
<1>1. /\ Len(queue) \in Nat /\ Len(queue) >= 1
      /\ Len(Tail(queue)) = Len(queue) - 1
      /\ \A i \in 1..(Len(queue) - 1) : Tail(queue)[i] = queue[i + 1]
      /\ Head(queue) = queue[1]
  BY HeadTailProperties, LenProperties, EmptySeq
<1>2. ASSUME NEW i \in 1..Len(queue), i # 1
      PROVE  queue[i].sample \in SamplesOf(Tail(queue))
  <2>1. i - 1 \in 1..(Len(queue) - 1) /\ (i - 1) + 1 = i
    BY <1>1, <1>2
  <2>2. Tail(queue)[i - 1] = queue[i]
    BY <1>1, <2>1
  <2> QED
    BY <1>1, <2>1, <2>2 DEF SamplesOf
<1>3. SamplesOf(Tail(queue)) \subseteq SamplesOf(queue)
  <2>1. \A i \in 1..(Len(queue) - 1) : i + 1 \in 1..Len(queue)
    BY <1>1
  <2> QED
    BY <1>1, <2>1 DEF SamplesOf
<1>4. Head(queue).sample \in SamplesOf(queue)
  BY <1>1 DEF SamplesOf
<1>5. SamplesOf(queue) \subseteq {Head(queue).sample} \cup SamplesOf(Tail(queue))
  BY <1>1, <1>2 DEF SamplesOf
<1> QED
  BY <1>3, <1>4, <1>5

\* A queue has no more samples than entries.
LEMMA SamplesOfSize ==
  ASSUME NEW S, NEW queue \in Seq(S)
  PROVE  IsFiniteSet(SamplesOf(queue)) /\ Cardinality(SamplesOf(queue)) <= Len(queue)
<1> DEFINE f == [i \in 1..Len(queue) |-> queue[i].sample]
<1>1. Len(queue) \in Nat
  BY LenProperties
<1>2. IsFiniteSet(1..Len(queue)) /\ Cardinality(1..Len(queue)) = Len(queue)
  <2> DEFINE n == Len(queue)
  <2> HIDE DEF f, n
  <2>1. n \in Int /\ 1 \in Int
    BY <1>1 DEF n
  <2>2. IsFiniteSet(1..n) /\ Cardinality(1..n) = IF 1 > n THEN 0 ELSE n - 1 + 1
    BY <2>1, FS_Interval
  <2>3. n \in Nat
    BY <1>1 DEF n
  <2>4. Cardinality(1..n) = n
    BY <2>2, <2>3
  <2> QED
    BY <2>2, <2>4 DEF n
<1>3. f \in Surjection(1..Len(queue), SamplesOf(queue))
  <2> DEFINE R == SamplesOf(queue)
  <2>1. R = {queue[i].sample : i \in 1..Len(queue)}
    BY DEF SamplesOf
  <2>2. f \in [1..Len(queue) -> R]
    BY <2>1
  <2>3. \A x \in R : \E i \in 1..Len(queue) : f[i] = x
    BY <2>1
  <2> HIDE DEF f, R
  <2>4. f \in Surjection(1..Len(queue), R)
    BY <2>2, <2>3 DEF Surjection
  <2> QED
    BY <2>4 DEF R
<1> HIDE DEF f
<1> QED
  BY <1>2, <1>3, FS_Surjection

-----------------------------------------------------------------------------
(* What the handlers leave of the account.                                 *)

\* The account of a trainer object does not change.
SameAccount(t, u) ==
  /\ u.epoch_stats = t.epoch_stats /\ u.stats = t.stats
  /\ u.sample_index = t.sample_index /\ u.finalized = t.finalized

\* An optimizer step changes weights, buffer and step counter.
LEMMA OptimizeAccount ==
  ASSUME NEW t \in Trainers, NEW force \in BOOLEAN
  PROVE  /\ SameAccount(t, maybe_optimize(t, force))
         /\ maybe_optimize(t, force).global_step
              = IF wants_train(t, force) THEN t.global_step + 1 ELSE t.global_step
<1> DEFINE data == SubSeq(t.replay_buffer, 1, usable(t, force))
           tr == [k \in Keys |-> t.handed[k] + Count(data, k)]
           n == t.global_step + 1
           b == <<>>
<1>1. optimize(t, force) = [t EXCEPT !.handed = tr, !.replay_buffer = b, !.global_step = n]
  BY DEF optimize, Count
<1> HIDE DEF tr, n, b
<1>2. SameAccount(t, optimize(t, force)) /\ optimize(t, force).global_step = n
  BY <1>1 DEF Trainers, SameAccount
<1>3. SameAccount(t, t)
  BY DEF SameAccount
<1> QED
  BY <1>2, <1>3 DEF maybe_optimize, n

\* A checkpoint has the account of its trainer, and gives it back.
LEMMA CheckpointAccount ==
  /\ \A t : SameAccount(t, checkpoint_trainer_state(t))
  /\ \A c : SameAccount(c, restore_trainer_state(c))
BY DEF SameAccount, checkpoint_trainer_state, restore_trainer_state

\* A finalised sample is one more in all counts.
OneMore(t, u, e, s) ==
  /\ u.epoch_stats.epoch = t.epoch_stats.epoch
  /\ u.epoch_stats.samples_seen = t.epoch_stats.samples_seen + 1
  /\ u.epoch_stats.attempt_groups = t.epoch_stats.attempt_groups + 1
  /\ u.sample_index = t.sample_index + 1
  /\ u.stats.rejected + u.stats.trainable = t.stats.rejected + t.stats.trainable + 1
  /\ u.stats.total_groups = t.stats.total_groups /\ u.stats.retries = t.stats.retries
  /\ Added(t.finalized, u.finalized, e, s)

\* A committed sample is one more attempt and one more sample seen.
LEMMA CommitCounts ==
  ASSUME NEW s \in EpochStats, NEW q \in FinishedSamples
  PROVE  LET u == finish_sample(commit_sample_attempts(s, q))
         IN /\ u.epoch = s.epoch /\ u.samples_seen = s.samples_seen + 1
            /\ u.attempt_groups = s.attempt_groups + 1
<1> DEFINE a == s.attempt_groups + 1
           r == s.retries + q.retry_count
           w == s.trainable + IF q.attempt.decision \in TrainableDecisions THEN 1 ELSE 0
           m == s.samples_seen + 1
<1>1. finish_sample(commit_sample_attempts(s, q))
        = [s EXCEPT !.attempt_groups = a, !.retries = r, !.trainable = w, !.samples_seen = m]
  BY DEF commit_sample_attempts, finish_sample, EpochStats
<1> HIDE DEF a, r, w, m
<1>2. /\ finish_sample(commit_sample_attempts(s, q)).epoch = s.epoch
      /\ finish_sample(commit_sample_attempts(s, q)).samples_seen = m
      /\ finish_sample(commit_sample_attempts(s, q)).attempt_groups = a
  BY <1>1 DEF EpochStats
<1> QED
  BY <1>2 DEF a, m

\* finalize_sample adds one to every count.
LEMMA FinalizeAccount ==
  ASSUME NEW t \in Trainers, NEW q \in FinishedSamples, epoch \in Epochs
  PROVE  OneMore(t, finalize_sample(t, q), epoch, q.sample)
<1> DEFINE k == <<epoch, q.sample>>
           a == append_experiences(t, k)
           t1 == IF trains(q.attempt) THEN [a EXCEPT !.stats.trainable = @ + 1]
                 ELSE [t EXCEPT !.stats.rejected = @ + 1]
<1>1. k \in Keys
  BY DEF Keys, FinishedSamples
<1>2. a \in Trainers /\ SameAccount(t, a)
  <2> DEFINE b == t.replay_buffer \o [i \in 1..GroupSize |-> k]
             p == [t.appended EXCEPT ![k] = @ + GroupSize]
  <2>1. a = [t EXCEPT !.replay_buffer = b, !.appended = p]
    BY DEF append_experiences, Trainers
  <2>2. a \in Trainers
    BY <1>1, AppendType
  <2> HIDE DEF b, p, a
  <2>3. SameAccount(t, a)
    BY <2>1 DEF Trainers, SameAccount
  <2> QED
    BY <2>2, <2>3
<1> HIDE DEF a
<1>3. /\ t1 \in Trainers
      /\ t1.epoch_stats = t.epoch_stats /\ t1.sample_index = t.sample_index
      /\ t1.finalized = t.finalized
      /\ t1.stats.rejected + t1.stats.trainable = t.stats.rejected + t.stats.trainable + 1
      /\ t1.stats.total_groups = t.stats.total_groups /\ t1.stats.retries = t.stats.retries
  <2>1. CASE trains(q.attempt)
    <3> DEFINE st == [a.stats EXCEPT !.trainable = a.stats.trainable + 1]
    <3>1. t1 = [a EXCEPT !.stats = st]
      BY <2>1
    <3>2. a.stats \in RunStats /\ a.stats = t.stats
      BY <1>2, TrainerFields DEF SameAccount
    <3>3. /\ st \in RunStats /\ st.rejected = t.stats.rejected
          /\ st.trainable = t.stats.trainable + 1
          /\ st.total_groups = t.stats.total_groups /\ st.retries = t.stats.retries
      BY <3>2 DEF RunStats
    <3> HIDE DEF t1, st
    <3>4. /\ t1 \in Trainers /\ t1.stats = st
          /\ t1.epoch_stats = a.epoch_stats /\ t1.sample_index = a.sample_index
          /\ t1.finalized = a.finalized
      BY <1>2, <3>1, <3>3 DEF Trainers
    <3>5. t.stats.rejected \in Nat /\ t.stats.trainable \in Nat
      BY TrainerFields DEF RunStats
    <3> QED
      BY <1>2, <3>3, <3>4, <3>5 DEF SameAccount
  <2>2. CASE ~trains(q.attempt)
    <3> DEFINE st == [t.stats EXCEPT !.rejected = t.stats.rejected + 1]
    <3>1. t1 = [t EXCEPT !.stats = st]
      BY <2>2
    <3>2. t.stats \in RunStats
      BY TrainerFields
    <3>3. /\ st \in RunStats /\ st.rejected = t.stats.rejected + 1
          /\ st.trainable = t.stats.trainable
          /\ st.total_groups = t.stats.total_groups /\ st.retries = t.stats.retries
      BY <3>2 DEF RunStats
    <3> HIDE DEF t1, st
    <3>4. /\ t1 \in Trainers /\ t1.stats = st
          /\ t1.epoch_stats = t.epoch_stats /\ t1.sample_index = t.sample_index
          /\ t1.finalized = t.finalized
      BY <3>1, <3>3 DEF Trainers
    <3>5. t.stats.rejected \in Nat /\ t.stats.trainable \in Nat
      BY TrainerFields DEF RunStats
    <3> QED
      BY <3>3, <3>4, <3>5
  <2> QED
    BY <2>1, <2>2
<1> HIDE DEF t1
<1> DEFINE e == finish_sample(commit_sample_attempts(t1.epoch_stats, q))
           f == [t1.finalized EXCEPT ![k] = t1.finalized[k] + 1]
           n == t1.sample_index + 1
<1>4. /\ e.epoch = t.epoch_stats.epoch
      /\ e.samples_seen = t.epoch_stats.samples_seen + 1
      /\ e.attempt_groups = t.epoch_stats.attempt_groups + 1
  BY <1>3, TrainerFields, CommitCounts
<1>5. finalize_sample(t, q)
        = [t1 EXCEPT !.epoch_stats = e, !.sample_index = n, !.finalized = f]
  <2> DEFINE z == t1.finalized[k] + 1
  <2>1. finalize_sample(t, q)
          = [t1 EXCEPT !.epoch_stats = e, !.sample_index = n, !.finalized[k] = z]
    BY Zenon DEF finalize_sample, t1, a
  <2>2. f = [t1.finalized EXCEPT ![k] = z]
    OBVIOUS
  <2> HIDE DEF e, n, f, z
  <2>3. [t1 EXCEPT !.epoch_stats = e, !.sample_index = n, !.finalized[k] = z]
          = [t1 EXCEPT !.epoch_stats = e, !.sample_index = n, !.finalized = f]
    BY <1>3, <2>2 DEF Trainers
  <2> QED
    BY <2>1, <2>3
<1> HIDE DEF e, f, n
<1>6. /\ finalize_sample(t, q).epoch_stats = e
      /\ finalize_sample(t, q).sample_index = n
      /\ finalize_sample(t, q).finalized = f
      /\ finalize_sample(t, q).stats = t1.stats
  BY <1>3, <1>5 DEF Trainers
<1>7. n = t.sample_index + 1 /\ f = [t.finalized EXCEPT ![k] = t.finalized[k] + 1]
  BY <1>3 DEF n, f
<1> QED
  BY <1>3, <1>4, <1>6, <1>7 DEF OneMore, Added

-----------------------------------------------------------------------------
(* How the account moves between objects and epochs.                       *)

\* The numbers of a trainer object.
LEMMA TrainerNumbers ==
  ASSUME NEW t \in Trainers \cup Checkpoints
  PROVE  /\ t.sample_index \in Nat /\ t.finalized \in [Keys -> Nat]
         /\ t.stats.total_groups \in Nat /\ t.stats.retries \in Nat
         /\ t.stats.rejected \in Nat /\ t.stats.trainable \in Nat
         /\ t.epoch_stats.epoch \in Nat /\ t.epoch_stats.samples_seen \in Nat
         /\ t.epoch_stats.attempt_groups \in Nat
<1>1. /\ t.sample_index \in Nat /\ t.finalized \in [Keys -> Nat]
      /\ t.stats \in RunStats /\ t.epoch_stats \in EpochStats
  BY DEF Trainers, Checkpoints
<1> QED
  BY <1>1 DEF RunStats, EpochStats

\* An epoch's order only has samples, and its beginning grows.
LEMMA CoverFacts ==
  /\ \A e : Cover(e, 0) = {}
  /\ \A e, m, n : m \in Nat /\ n \in Nat /\ m <= n => Cover(e, m) \subseteq Cover(e, n)
  /\ \A e \in Epochs, n \in 0..N : Cover(e, n) \subseteq Samples
<1>1. \A e : Cover(e, 0) = {}
  BY DEF Cover
<1>2. \A e, m, n : m \in Nat /\ n \in Nat /\ m <= n => Cover(e, m) \subseteq Cover(e, n)
  BY DEF Cover
<1>3. ASSUME NEW e \in Epochs, NEW n \in 0..N
      PROVE  Cover(e, n) \subseteq Samples
  BY <1>2, DatasetFacts
<1> QED
  BY <1>1, <1>2, <1>3

\* Of fewer samples no more are missed.
LEMMA MissedLess ==
  ASSUME NEW f, NEW g, NEW d, NEW S, NEW T \in SUBSET Samples, NEW a \in Nat, NEW b \in Nat,
         a <= b, Missed(g, d, S) \subseteq Missed(f, d, T),
         Cardinality(Missed(f, d, T)) <= a
  PROVE  Cardinality(Missed(g, d, S)) <= b
<1>1. Missed(f, d, T) \in SUBSET Samples /\ Missed(g, d, S) \in SUBSET Samples
  BY DEF Missed
<1>2. /\ Cardinality(Missed(g, d, S)) \in Nat
      /\ Cardinality(Missed(f, d, T)) \in Nat
      /\ Cardinality(Missed(g, d, S)) <= Cardinality(Missed(f, d, T))
  BY <1>1, MissedFacts
<1> QED
  BY <1>2

\* Fewer samples in view, or a higher bound, leave no more displaced.
LEMMA DisplacedLess ==
  ASSUME NEW t, NEW S, NEW T, NEW a \in Nat, NEW b \in Nat, a <= b, S \subseteq T,
         t.epoch_stats.epoch \in Epochs => T \subseteq Samples, Displaced(t, T, a)
  PROVE  Displaced(t, S, b)
<1> SUFFICES ASSUME NEW d \in Epochs
             PROVE  /\ d < t.epoch_stats.epoch =>
                         Cardinality(Missed(t.finalized, d, Samples)) <= b
                    /\ d = t.epoch_stats.epoch =>
                         Cardinality(Missed(t.finalized, d, S)) <= b
  BY DEF Displaced
<1>1. ASSUME d < t.epoch_stats.epoch
      PROVE  Cardinality(Missed(t.finalized, d, Samples)) <= b
  <2>1. Cardinality(Missed(t.finalized, d, Samples)) <= a
    BY <1>1 DEF Displaced
  <2> QED
    BY <2>1, MissedLess
<1>2. ASSUME d = t.epoch_stats.epoch
      PROVE  Cardinality(Missed(t.finalized, d, S)) <= b
  <2>1. Cardinality(Missed(t.finalized, d, T)) <= a /\ T \subseteq Samples
    BY <1>2 DEF Displaced
  <2>2. Missed(t.finalized, d, S) \subseteq Missed(t.finalized, d, T)
    BY DEF Missed
  <2> QED
    BY <2>1, <2>2, MissedLess
<1> QED
  BY <1>1, <1>2

\* Objects with the same account have the same properties.
LEMMA AccountMoves ==
  ASSUME NEW t, NEW u, SameAccount(t, u)
  PROVE  /\ Counted(t) => Counted(u)
         /\ \A S, b : Displaced(t, S, b) => Displaced(u, S, b)
         /\ \A m, b : Drifted(t, m, b) => Drifted(u, m, b)
         /\ Seen(u) = Seen(t)
<1>1. Counted(t) => Counted(u)
  BY DEF SameAccount, Counted
<1>2. \A S, b : Displaced(t, S, b) => Displaced(u, S, b)
  BY DEF SameAccount, Displaced
<1>3. \A m, b : Drifted(t, m, b) => Drifted(u, m, b)
  BY DEF SameAccount, Drifted
<1>4. Seen(u) = Seen(t)
  BY DEF SameAccount, Seen
<1> QED
  BY <1>1, <1>2, <1>3, <1>4

\* Epochs of n samples.
LEMMA Products ==
  ASSUME NEW n \in Nat
  PROVE  0 * n = 0 /\ \A e \in Nat : e * n \in Nat /\ (e + 1) * n = e * n + n
OBVIOUS

\* A new trainer has nothing to account for.
LEMMA NewAccount ==
  ASSUME NEW n \in Nat
  PROVE  /\ Counted(NewTrainer)
         /\ Displaced(NewTrainer, Seen(NewTrainer), Loss(n))
         /\ Drifted(NewTrainer, 0, Loss(n))
         /\ NewTrainer.epoch_stats.epoch = 0 /\ NewTrainer.epoch_stats.samples_seen = 0
<1>1. /\ NewTrainer.epoch_stats.epoch = 0 /\ NewTrainer.epoch_stats.samples_seen = 0
      /\ NewTrainer.sample_index = 0
      /\ NewTrainer.stats.rejected = 0 /\ NewTrainer.stats.trainable = 0
      /\ NewTrainer.stats.total_groups = 0 /\ NewTrainer.stats.retries = 0
  BY DEF NewTrainer, NewEpochStats, NoRunStats
<1>2. Loss(n) \in Nat /\ N \in Nat /\ Epochs \subseteq Nat
  BY LossFacts, DatasetFacts
<1>3. Counted(NewTrainer)
  <2>1. 0 * N = 0
    BY <1>2, Products
  <2>2. \A d \in Epochs : ~(d < 0) /\ Tallied(NewTrainer.finalized, d, 0)
    BY <1>2, TallyNone
  <2>3. 0 = 0 * N + 0
    BY <2>1
  <2>4. /\ NewTrainer.sample_index = NewTrainer.epoch_stats.epoch * N
                                      + NewTrainer.epoch_stats.samples_seen
        /\ NewTrainer.stats.rejected + NewTrainer.stats.trainable = NewTrainer.sample_index
    BY <1>1, <2>3
  <2>5. NewTrainer.epoch_stats.samples_seen <= N
    BY <1>1, <1>2
  <2>6. \A d \in Epochs :
          /\ d < NewTrainer.epoch_stats.epoch => Tallied(NewTrainer.finalized, d, N)
          /\ d = NewTrainer.epoch_stats.epoch =>
               Tallied(NewTrainer.finalized, d, NewTrainer.epoch_stats.samples_seen)
          /\ d > NewTrainer.epoch_stats.epoch => Tallied(NewTrainer.finalized, d, 0)
    BY <1>1, <2>2
  <2> QED
    BY <1>1, <2>4, <2>5, <2>6 DEF Counted
<1>4. Displaced(NewTrainer, Seen(NewTrainer), Loss(n))
  <2>1. Seen(NewTrainer) = {}
    BY <1>1, CoverFacts DEF Seen
  <2>2. \A d : Missed(NewTrainer.finalized, d, {}) = {}
    BY DEF Missed
  <2>3. Cardinality({}) = 0
    BY FS_EmptySet
  <2> QED
    BY <1>1, <1>2, <2>1, <2>2, <2>3 DEF Displaced
<1>5. Drifted(NewTrainer, 0, Loss(n))
  BY <1>1, <1>2 DEF Drifted
<1> QED
  BY <1>1, <1>3, <1>4, <1>5

\* After the last sample of an epoch the next one has none.
LEMMA NextEpochAccount ==
  ASSUME NEW t \in Trainers, NEW u, NEW m, NEW b \in Nat,
         u.stats = t.stats, u.sample_index = t.sample_index, u.finalized = t.finalized,
         t.epoch_stats.samples_seen = N,
         u.epoch_stats.epoch = t.epoch_stats.epoch + 1, u.epoch_stats.samples_seen = 0,
         Counted(t), Displaced(t, Seen(t), b), Drifted(t, m, b)
  PROVE  Counted(u) /\ Displaced(u, Seen(u), b) /\ Drifted(u, m, b)
<1> DEFINE e == t.epoch_stats.epoch
<1>1. /\ N \in Nat /\ Epochs \subseteq Nat /\ e \in Nat /\ t.sample_index \in Nat
      /\ e * N \in Nat /\ (e + 1) * N = e * N + N
  <2>1. N \in Nat /\ Epochs \subseteq Nat /\ e \in Nat /\ t.sample_index \in Nat
    BY DatasetFacts, TrainerNumbers
  <2> HIDE DEF e
  <2> QED
    BY <2>1, Products
<1>2. Counted(u)
  <2>1. /\ \A d \in Epochs : /\ d < e => Tallied(t.finalized, d, N)
                             /\ d = e => Tallied(t.finalized, d, N)
                             /\ d > e => Tallied(t.finalized, d, 0)
        /\ t.sample_index = e * N + N
        /\ t.stats.rejected + t.stats.trainable = t.sample_index
    BY DEF Counted
  <2>2. \A d \in Epochs : /\ d < e + 1 => Tallied(u.finalized, d, N)
                          /\ d = e + 1 => Tallied(u.finalized, d, 0)
                          /\ d > e + 1 => Tallied(u.finalized, d, 0)
    BY <1>1, <2>1
  <2> HIDE DEF e
  <2>3. u.epoch_stats.epoch = e + 1
    BY DEF e
  <2> DEFINE p == e * N
             p1 == (e + 1) * N
  <2>4. p \in Nat /\ p1 = p + N /\ u.sample_index = p + N
    BY <1>1, <2>1
  <2> HIDE DEF p, p1
  <2>5. u.sample_index = p1 + 0 /\ 0 <= N
    BY <1>1, <2>4
  <2>6. u.sample_index = (e + 1) * N + 0
    BY <2>5 DEF p1
  <2>7. u.stats.rejected + u.stats.trainable = u.sample_index
    BY <2>1
  <2> QED
    BY <2>2, <2>3, <2>5, <2>6, <2>7 DEF Counted
<1>3. Displaced(u, Seen(u), b)
  <2>1. Seen(u) = {} /\ \A d : Missed(u.finalized, d, {}) = {}
    BY CoverFacts DEF Seen, Missed
  <2>2. e \in Epochs => Seen(t) = Samples
    BY DatasetFacts DEF Seen
  <2>3. \A d \in Epochs : d < e + 1 => Cardinality(Missed(u.finalized, d, Samples)) <= b
    BY <1>1, <2>2 DEF Displaced
  <2>4. Cardinality({}) <= b
    BY FS_EmptySet
  <2> QED
    BY <2>1, <2>3, <2>4 DEF Displaced
<1>4. Drifted(u, m, b)
  BY DEF Drifted
<1> QED
  BY <1>2, <1>3, <1>4

\* A checkpoint taken while m samples wait: with the next restart's allowance, the samples
\* that wait need not be told from those that were seen.
LEMMA SavedAccount ==
  ASSUME NEW t \in Trainers, NEW S, NEW m \in 0..(QueueSize - 1), NEW n \in Nat,
         t.epoch_stats.epoch \in Epochs =>
           /\ S \subseteq Samples /\ Seen(t) \subseteq Samples
           /\ Cardinality(Seen(t) \ S) <= m,
         Counted(t), Displaced(t, S, Loss(n)), Drifted(t, m, Loss(n))
  PROVE  LET c == checkpoint_trainer_state(t)
         IN Counted(c) /\ Displaced(c, Seen(c), Loss(n + 1)) /\ Drifted(c, 0, Loss(n + 1))
<1> DEFINE c == checkpoint_trainer_state(t)
           a == Loss(n)
           b == Loss(n + 1)
<1>1. a \in Nat /\ b \in Nat /\ QueueSize \in Nat \ {0} /\ b = a + (QueueSize - 1)
  BY LossFacts, ParametersAssumption
<1> HIDE DEF a, b
<1>2. m \in Nat /\ a + m <= b /\ a <= b
  BY <1>1
<1>3. SameAccount(t, c)
  BY CheckpointAccount
<1>4. Displaced(t, S, a) /\ Drifted(t, m, a)
  BY DEF a
<1>5. Displaced(t, Seen(t), b)
  <2> SUFFICES ASSUME NEW d \in Epochs
               PROVE  /\ d < t.epoch_stats.epoch =>
                           Cardinality(Missed(t.finalized, d, Samples)) <= b
                      /\ d = t.epoch_stats.epoch =>
                           Cardinality(Missed(t.finalized, d, Seen(t))) <= b
    BY DEF Displaced
  <2>1. ASSUME d < t.epoch_stats.epoch
        PROVE  Cardinality(Missed(t.finalized, d, Samples)) <= b
    <3>1. Cardinality(Missed(t.finalized, d, Samples)) <= a
      BY <1>4, <2>1 DEF Displaced
    <3> QED
      BY <1>1, <1>2, <3>1, MissedLess
  <2>2. ASSUME d = t.epoch_stats.epoch
        PROVE  Cardinality(Missed(t.finalized, d, Seen(t))) <= b
    <3> DEFINE X == Missed(t.finalized, d, Seen(t))
               Y == Missed(t.finalized, d, S)
               W == Seen(t) \ S
    <3>1. Cardinality(Y) <= a
      BY <1>4, <2>2 DEF Displaced
    <3>2. Cardinality(W) <= m /\ W \in SUBSET Samples
      BY <2>2
    <3>3. X \subseteq Y \cup W /\ Y \in SUBSET Samples /\ X \in SUBSET Samples
      BY <2>2 DEF Missed
    <3> HIDE DEF X, Y, W
    <3>4. /\ IsFiniteSet(Y) /\ IsFiniteSet(W)
          /\ Cardinality(Y) \in Nat /\ Cardinality(W) \in Nat
      BY <3>2, <3>3, MissedFacts
    <3>5. /\ Cardinality(Y \cup W) \in Nat
          /\ Cardinality(Y \cup W) <= Cardinality(Y) + Cardinality(W)
      <4>1. /\ IsFiniteSet(Y \cup W)
            /\ Cardinality(Y \cup W) = Cardinality(Y) + Cardinality(W) - Cardinality(Y \cap W)
        BY <3>4, FS_Union
      <4>2. Cardinality(Y \cap W) \in Nat /\ Cardinality(Y \cup W) \in Nat
        BY <3>4, <4>1, FS_CardinalityType, FS_Intersection
      <4> QED
        BY <3>4, <4>1, <4>2
    <3>6. Cardinality(X) \in Nat /\ Cardinality(X) <= Cardinality(Y \cup W)
      <4>1. Y \cup W \in SUBSET Samples
        BY <3>2, <3>3
      <4> QED
        BY <3>3, <4>1, MissedFacts
    <3>7. Cardinality(X) <= b
      BY <1>1, <1>2, <3>1, <3>2, <3>4, <3>5, <3>6
    <3> QED
      BY <3>7 DEF X
  <2> QED
    BY <2>1, <2>2
<1>6. Drifted(t, 0, b)
  <2>1. /\ t.sample_index \in Nat /\ t.stats.total_groups \in Nat /\ t.stats.retries \in Nat
    BY TrainerNumbers
  <2> QED
    BY <1>1, <1>2, <1>4, <2>1 DEF Drifted
<1>7. Counted(c) /\ Displaced(c, Seen(t), b) /\ Drifted(c, 0, b) /\ Seen(c) = Seen(t)
  BY <1>3, <1>5, <1>6, AccountMoves
<1> QED
  BY <1>7 DEF b

-----------------------------------------------------------------------------
(* Every action keeps the account.                                         *)

\* More restarts allow for more drift.
LEMMA DriftedLess ==
  ASSUME NEW t \in Trainers \cup Checkpoints, NEW m \in Nat, NEW a \in Nat, NEW b \in Nat,
         a <= b, Drifted(t, m, a)
  PROVE  Drifted(t, m, b)
BY TrainerNumbers DEF Drifted

\* What the queue and the loop hold: their types, as the account uses them.
LEMMA LoopTypes ==
  ASSUME TypeOK
  PROVE  /\ self \in Trainers /\ epoch \in Nat /\ position \in 0..N /\ N \in Nat \ {0}
         /\ restarts \in Nat /\ Loss(restarts) \in Nat /\ Loss(restarts + 1) \in Nat
         /\ Loss(restarts) <= Loss(restarts + 1)
         /\ active \in Seq(QueuedSamples) /\ next_active \in Seq(QueuedSamples)
         /\ finished \in Seq(FinishedSamples)
         /\ Len(active) \in Nat /\ Len(next_active) \in Nat /\ Len(finished) \in Nat
         /\ disk # NoCheckpoint => disk \in Checkpoints
<1>1. /\ self \in Trainers /\ epoch \in Nat /\ position \in 0..N
      /\ active \in Seq(QueuedSamples) /\ next_active \in Seq(QueuedSamples)
      /\ finished \in Seq(FinishedSamples)
      /\ disk # NoCheckpoint => disk \in Checkpoints
  BY DEF TypeOK
<1>2. restarts \in Nat
  BY ParametersAssumption DEF TypeOK
<1>3. QueueSize \in Nat \ {0}
  BY ParametersAssumption
<1>4. /\ Loss(restarts) \in Nat /\ Loss(restarts + 1) \in Nat
      /\ Loss(restarts) <= Loss(restarts + 1)
  BY <1>2, <1>3, LossFacts
<1>5. Len(active) \in Nat /\ Len(next_active) \in Nat /\ Len(finished) \in Nat
  BY <1>1, LenProperties
<1> QED
  BY <1>1, <1>2, <1>4, <1>5, DatasetFacts

\* No more samples of an epoch are seen than there are.
LEMMA CountedSeen ==
  ASSUME NEW t \in Trainers \cup Checkpoints, Counted(t)
  PROVE  t.epoch_stats.samples_seen \in 0..N
<1>1. t.epoch_stats.samples_seen <= N
  BY Zenon DEF Counted
<1>2. t.epoch_stats.samples_seen \in Nat /\ N \in Nat
  BY TrainerNumbers, DatasetFacts
<1> QED
  BY <1>1, <1>2

\* What has been seen of an epoch are samples.
LEMMA SeenSamples ==
  ASSUME NEW t \in Trainers, Counted(t), t.epoch_stats.epoch \in Epochs
  PROVE  Seen(t) \subseteq Samples
BY CountedSeen, CoverFacts DEF Seen

\* A checkpoint that is kept needs no more than it had.
LEMMA DiskKept ==
  ASSUME TypeOK, AccountInv, disk' = disk, restarts' = restarts, pc' # "start"
  PROVE  DiskInv'
<1> SUFFICES ASSUME disk # NoCheckpoint
             PROVE  /\ Counted(disk)
                    /\ Displaced(disk, Seen(disk), Loss(restarts + 1))
                    /\ Drifted(disk, 0, Loss(restarts + 1))
  BY DEF DiskInv, restarts_ahead
<1>1. /\ Counted(disk)
      /\ Displaced(disk, Seen(disk), Loss(restarts_ahead))
      /\ Drifted(disk, 0, Loss(restarts_ahead))
  BY DEF AccountInv, DiskInv
<1>2. /\ Loss(restarts_ahead) \in Nat /\ Loss(restarts + 1) \in Nat
      /\ Loss(restarts_ahead) <= Loss(restarts + 1)
  <2>1. restarts_ahead = restarts \/ restarts_ahead = restarts + 1
    BY DEF restarts_ahead
  <2> HIDE DEF restarts_ahead
  <2> QED
    BY <2>1, LoopTypes
<1>3. disk \in Checkpoints /\ disk.epoch_stats.samples_seen \in 0..N
  BY <1>1, LoopTypes, CountedSeen
<1>4. disk.epoch_stats.epoch \in Epochs => Seen(disk) \subseteq Samples
  BY <1>3, CoverFacts DEF Seen
<1> HIDE DEF restarts_ahead
<1>5. Displaced(disk, Seen(disk), Loss(restarts + 1))
  BY <1>1, <1>2, <1>4, DisplacedLess
<1>6. Drifted(disk, 0, Loss(restarts + 1))
  BY <1>1, <1>2, <1>3, DriftedLess
<1> QED
  BY <1>1, <1>5, <1>6

\* The account of a new process that has not restored anything.
LEMMA InitAccount == Init => AccountInv
<1> SUFFICES ASSUME Init PROVE AccountInv
  OBVIOUS
<1>1. /\ pc = "start" /\ epoch = 0 /\ self = NewTrainer /\ restarts = 0
      /\ active = <<>> /\ next_active = <<>> /\ finished = <<>> /\ disk = NoCheckpoint
  BY DEF Init
<1>2. Counted(self) /\ Displaced(self, Seen(self), Loss(0)) /\ Drifted(self, 0, Loss(0))
  BY <1>1, NewAccount
<1>3. Settled = Seen(self) /\ Len(finished) = 0
  BY <1>1 DEF Settled
<1>4. PlaceInv
  BY <1>1 DEF PlaceInv, inLoop
<1>5. DiskInv
  BY <1>1 DEF DiskInv
<1> QED
  BY <1>1, <1>2, <1>3, <1>4, <1>5 DEF AccountInv

\* What Start restores has the account that the checkpoint was written with.
LEMMA RestoredAccount ==
  ASSUME TypeOK, AccountInv, pc = "start",
         NEW t, t = IF disk = NoCheckpoint THEN NewTrainer ELSE restore_trainer_state(disk)
  PROVE  /\ t \in Trainers
         /\ Counted(t) /\ Displaced(t, Seen(t), Loss(restarts)) /\ Drifted(t, 0, Loss(restarts))
<1>1. CASE disk = NoCheckpoint
  BY <1>1, LoopTypes, NewAccount, NewTrainerType
<1>2. CASE disk # NoCheckpoint
  <2>1. /\ Counted(disk)
        /\ Displaced(disk, Seen(disk), Loss(restarts))
        /\ Drifted(disk, 0, Loss(restarts))
    BY <1>2 DEF AccountInv, DiskInv, restarts_ahead
  <2>2. SameAccount(disk, t) /\ t \in Trainers
    BY <1>2, LoopTypes, CheckpointAccount, RestoreType
  <2> QED
    BY <2>1, <2>2, AccountMoves
<1> QED
  BY <1>1, <1>2

\* Start goes on from that, or from the beginning of the next epoch.
LEMMA StartAccount ==
  ASSUME TypeOK, AccountInv, Start
  PROVE  AccountInv'
<1> DEFINE t == IF disk = NoCheckpoint THEN NewTrainer ELSE restore_trainer_state(disk)
<1>1. /\ pc = "start" /\ pc' = "first_epoch"
      /\ IF t.epoch_stats.samples_seen >= N
         THEN /\ epoch' = t.epoch_stats.epoch + 1
              /\ self' = [t EXCEPT !.epoch_stats = next_epoch(t.epoch_stats)]
         ELSE /\ epoch' = t.epoch_stats.epoch
              /\ self' = t
      /\ active' = active /\ next_active' = next_active /\ finished' = finished
      /\ restarts' = restarts /\ disk' = disk
  BY DEF Start, queueVars
<1>2. /\ t \in Trainers
      /\ Counted(t) /\ Displaced(t, Seen(t), Loss(restarts)) /\ Drifted(t, 0, Loss(restarts))
  BY <1>1, RestoredAccount
<1> HIDE DEF t
<1>3. /\ t.epoch_stats \in EpochStats /\ t.epoch_stats.epoch \in Nat
      /\ t.epoch_stats.samples_seen \in 0..N
      /\ N \in Nat \ {0} /\ Loss(restarts) \in Nat
  BY <1>2, TrainerFields, TrainerNumbers, LoopTypes, CountedSeen
<1>4. /\ Counted(self') /\ Displaced(self', Seen(self'), Loss(restarts))
      /\ Drifted(self', 0, Loss(restarts))
      /\ self'.epoch_stats.epoch = epoch' /\ self'.epoch_stats.samples_seen < N
  <2>1. CASE t.epoch_stats.samples_seen >= N
    <3> DEFINE s == next_epoch(t.epoch_stats)
    <3>1. s \in EpochStats /\ s.samples_seen = 0 /\ s.epoch = t.epoch_stats.epoch + 1
      BY <1>3, EpochStatsTypes DEF next_epoch, EpochStats
    <3>2. self' = [t EXCEPT !.epoch_stats = s]
      BY <1>1, <2>1
    <3> HIDE DEF s
    <3>3. /\ self'.epoch_stats = s /\ self'.stats = t.stats
          /\ self'.sample_index = t.sample_index /\ self'.finalized = t.finalized
      BY <1>2, <3>2 DEF Trainers
    <3>4. t.epoch_stats.samples_seen = N
      BY <1>3, <2>1
    <3>5. /\ Counted(self') /\ Displaced(self', Seen(self'), Loss(restarts))
          /\ Drifted(self', 0, Loss(restarts))
      BY <1>2, <1>3, <3>1, <3>3, <3>4, NextEpochAccount
    <3> QED
      BY <1>1, <1>3, <2>1, <3>1, <3>3, <3>5
  <2>2. CASE ~(t.epoch_stats.samples_seen >= N)
    BY <1>1, <1>2, <1>3, <2>2
  <2> QED
    BY <2>1, <2>2
<1>5. active' = <<>> /\ next_active' = <<>> /\ finished' = <<>> /\ Len(finished') = 0
  BY <1>1 DEF AccountInv, PlaceInv
<1>6. Settled' = Seen(self')
  BY <1>1 DEF Settled
<1>7. PlaceInv'
  BY <1>1, <1>4, <1>5 DEF PlaceInv, inLoop
<1>8. DiskInv'
  BY <1>1, DiskKept
<1> QED
  BY <1>1, <1>4, <1>5, <1>6, <1>7, <1>8 DEF AccountInv

\* BeginEpoch goes on with the account, in the same epoch or in the next one.
LEMMA BeginEpochAccount ==
  ASSUME TypeOK, AccountInv, BeginEpoch
  PROVE  AccountInv'
<1> DEFINE resumed == pc = "first_epoch" /\ self.epoch_stats.samples_seen # 0
           s == NewEpochStats(epoch)
<1>1. /\ pc \in {"first_epoch", "epoch"} /\ epoch < MaxEpochs /\ pc' = "queues"
      /\ position' = IF resumed THEN self.epoch_stats.samples_seen ELSE 0
      /\ self' = IF resumed THEN self ELSE [self EXCEPT !.epoch_stats = s]
      /\ epoch' = epoch /\ restarts' = restarts /\ disk' = disk
      /\ active' = active /\ next_active' = next_active /\ finished' = finished
  BY DEF BeginEpoch, queueVars, resume_offset
<1>2. /\ Counted(self) /\ Displaced(self, Settled, Loss(restarts))
      /\ Drifted(self, Len(finished), Loss(restarts))
      /\ PlaceInv
  BY DEF AccountInv
<1>3. /\ active' = <<>> /\ next_active' = <<>> /\ finished' = <<>> /\ finished = <<>>
      /\ Len(<<>>) = 0
  BY <1>1, <1>2 DEF PlaceInv
<1>4. Displaced(self, Seen(self), Loss(restarts)) /\ Drifted(self, 0, Loss(restarts))
  BY <1>1, <1>2, <1>3 DEF Settled
<1>5. epoch \in Epochs
  BY <1>1, LoopTypes, DatasetFacts
<1>6. /\ s.epoch = epoch /\ s.samples_seen = 0 /\ s.attempt_groups = 0
  BY DEF NewEpochStats
<1>7. /\ Counted(self') /\ Displaced(self', Seen(self'), Loss(restarts))
      /\ Drifted(self', 0, Loss(restarts))
      /\ self'.epoch_stats.epoch = epoch
      /\ self'.epoch_stats.attempt_groups = self'.epoch_stats.samples_seen
      /\ self'.epoch_stats.samples_seen = position'
  <2>1. CASE resumed
    <3>1. self' = self /\ position' = self.epoch_stats.samples_seen
      BY <1>1, <2>1
    <3>2. self.epoch_stats.epoch = epoch
      BY <2>1, <1>2 DEF PlaceInv
    <3>3. self.epoch_stats.attempt_groups = self.epoch_stats.samples_seen
      BY <1>2, <2>1 DEF Counted
    <3> QED
      BY <1>2, <1>4, <3>1, <3>2, <3>3
  <2>2. CASE ~resumed
    <3>1. self' = [self EXCEPT !.epoch_stats = s] /\ position' = 0
      BY <1>1, <2>2
    <3> HIDE DEF s
    <3>2. /\ self'.epoch_stats = s /\ self'.stats = self.stats
          /\ self'.sample_index = self.sample_index /\ self'.finalized = self.finalized
      BY <3>1, LoopTypes DEF Trainers
    <3>3. CASE pc = "first_epoch"
      <4>1. self.epoch_stats.epoch = epoch /\ self.epoch_stats.samples_seen = 0
        BY <1>2, <2>2, <3>3 DEF PlaceInv
      <4>2. Counted(self')
        BY <1>2, <1>6, <3>2, <4>1 DEF Counted
      <4>3. Displaced(self', Seen(self'), Loss(restarts))
        BY <1>4, <1>6, <3>2, <4>1 DEF Displaced, Seen
      <4>4. Drifted(self', 0, Loss(restarts))
        BY <1>4, <3>2 DEF Drifted
      <4> QED
        BY <1>6, <3>1, <3>2, <4>2, <4>3, <4>4
    <3>4. CASE pc = "epoch"
      <4>1. epoch = self.epoch_stats.epoch + 1 /\ self.epoch_stats.samples_seen = N
        BY <1>2, <3>4 DEF PlaceInv
      <4>2. /\ Counted(self') /\ Displaced(self', Seen(self'), Loss(restarts))
            /\ Drifted(self', 0, Loss(restarts))
        BY <1>2, <1>4, <1>6, <3>2, <4>1, LoopTypes, NextEpochAccount
      <4> QED
        BY <1>6, <3>1, <3>2, <4>2
    <3> QED
      BY <1>1, <3>3, <3>4
  <2> QED
    BY <2>1, <2>2
<1>8. Settled' = Seen(self')
  BY <1>1 DEF Settled
<1>9. PlaceInv'
  <2>1. self'.epoch_stats.samples_seen + 0 + 0 + 0 = position'
    BY <1>7, TrainerNumbers, LoopTypes, <1>1
  <2> QED
    BY <1>1, <1>3, <1>5, <1>7, <2>1 DEF PlaceInv, inLoop
<1>10. DiskInv'
  BY <1>1, DiskKept
<1> QED
  BY <1>1, <1>3, <1>7, <1>8, <1>9, <1>10 DEF AccountInv

\* BeginQueue hands out the samples that it moves the position over.
LEMMA BeginQueueAccount ==
  ASSUME TypeOK, AccountInv, BeginQueue
  PROVE  AccountInv'
<1> DEFINE last == IF position + QueueSize <= N THEN position + QueueSize ELSE N
           n == last - position
<1>1. /\ pc = "queues" /\ position < N /\ pc' = "rollout"
      /\ active' = [i \in 1..n |->
                      [sample |-> Order[epoch][position + i], retry_count |-> 0]]
      /\ position' = last /\ next_active' = <<>> /\ finished' = <<>>
      /\ epoch' = epoch /\ self' = self /\ disk' = disk /\ restarts' = restarts
  BY DEF BeginQueue
<1>2. /\ position \in 0..N /\ N \in Nat \ {0} /\ QueueSize \in Nat \ {0}
      /\ Loss(restarts) \in Nat
  BY LoopTypes, ParametersAssumption
<1>3. last \in 0..N /\ n \in Nat /\ position + n = last /\ position <= last
  BY <1>1, <1>2
<1> HIDE DEF last, n
<1>4. /\ Counted(self) /\ Displaced(self, Settled, Loss(restarts))
      /\ Drifted(self, Len(finished), Loss(restarts))
      /\ finished = <<>> /\ active = <<>> /\ next_active = <<>> /\ Len(<<>>) = 0
      /\ epoch \in Epochs /\ self.epoch_stats.epoch = epoch
      /\ self.epoch_stats.attempt_groups = self.epoch_stats.samples_seen
      /\ self.epoch_stats.samples_seen + 0 + 0 + 0 = position
  BY <1>1 DEF AccountInv, PlaceInv, inLoop
<1>5. self.epoch_stats.samples_seen = position
  BY <1>4, LoopTypes, TrainerNumbers
<1>6. Len(active') = n /\ \A i \in 1..n : active'[i].sample = Order[epoch][position + i]
  BY <1>1, <1>3
<1>7. Settled' = Cover(epoch, last) \ Underway'
  BY <1>1 DEF Settled
<1>8. Settled' \subseteq Seen(self)
  <2>1. \A i \in 1..n : Order[epoch][position + i] \in Underway'
    BY <1>6 DEF Underway, SamplesOf
  <2>2. \A j \in 1..last :
          j \in 1..position \/ (j - position \in 1..n /\ position + (j - position) = j)
    BY <1>2, <1>3
  <2>3. \A j \in 1..last : j \notin 1..position => Order[epoch][j] \in Underway'
    BY <2>1, <2>2
  <2> QED
    BY <1>4, <1>5, <1>7, <2>3 DEF Cover, Seen
<1>9. Displaced(self', Settled', Loss(restarts))
  <2>1. Displaced(self, Seen(self), Loss(restarts))
    BY <1>1, <1>4 DEF Settled
  <2>2. Seen(self) \subseteq Samples
    BY <1>4, LoopTypes, SeenSamples
  <2> QED
    BY <1>1, <1>2, <1>8, <2>1, <2>2, DisplacedLess
<1>10. PlaceInv'
  <2>1. self.epoch_stats.samples_seen + n + 0 + 0 = last
    BY <1>2, <1>3, <1>5
  <2> QED
    BY <1>1, <1>4, <1>6, <2>1 DEF PlaceInv, inLoop
<1>11. DiskInv'
  BY <1>1, DiskKept
<1> QED
  BY <1>1, <1>4, <1>9, <1>10, <1>11 DEF AccountInv

\* A sample that leaves the head of a round keeps the place; what it adds to the groups it
\* adds to the retries or to the samples that wait.
LEMMA PlaceKept ==
  ASSUME NEW s \in Nat, NEW a \in Nat, NEW b \in Nat, NEW c \in Nat, NEW a1 \in Nat,
         NEW b1 \in Nat, NEW c1 \in Nat, NEW t \in Nat, NEW r \in Nat, NEW p \in Nat,
         s + a + b + c = p, t = a - 1, c1 + r = c + b + 1, a1 + b1 = t + r
  PROVE  s + a1 + b1 + c1 = p
OBVIOUS

\* A rollout that is counted waits to be finalised, or was a retry.
LEMMA DriftKept ==
  ASSUME NEW x \in Nat, NEW g \in Nat, NEW r \in Nat, NEW m \in Nat, NEW r1 \in Nat,
         NEW m1 \in Nat, NEW b \in Nat,
         x + m <= g - r, g - r <= x + m + b, m1 - m = 1 - (r1 - r)
  PROVE  x + m1 <= g + 1 - r1 /\ g + 1 - r1 <= x + m1 + b
OBVIOUS

\* RolloutAttempt counts a group, and keeps its sample under way.
LEMMA RolloutAttemptAccount ==
  ASSUME TypeOK, AccountInv, RolloutAttempt, TypeOK', NoTrainerError'
  PROVE  AccountInv'
<1>0. PICK group \in Groups :
      LET q == Head(active)
          attempt == AttemptOf(group, q.retry_count)
          retry == attempt.decision = "retry"
          retries == IF retry
                     THEN Append(next_active, [q EXCEPT !.retry_count = @ + 1])
                     ELSE next_active
          round_over == Tail(active) = <<>>
      IN /\ self' = [self EXCEPT !.stats = count_attempt(@, retry)]
         /\ finished' = IF retry THEN finished
                        ELSE Append(finished, [sample |-> q.sample,
                                               retry_count |-> q.retry_count,
                                               attempt |-> attempt])
         /\ active' = IF round_over THEN retries ELSE Tail(active)
         /\ next_active' = IF round_over THEN <<>> ELSE retries
         /\ pc' = IF retry /\ q.retry_count + 1 >= MaxRetries + 1 THEN "retry_overflow"
                  ELSE IF active' = <<>> THEN "finalize"
                  ELSE "rollout"
  BY DEF RolloutAttempt
<1> DEFINE q == Head(active)
           attempt == AttemptOf(group, q.retry_count)
           retry == attempt.decision = "retry"
           again == [q EXCEPT !.retry_count = @ + 1]
           record == [sample |-> q.sample, retry_count |-> q.retry_count, attempt |-> attempt]
           retries == IF retry THEN Append(next_active, again) ELSE next_active
           over == Tail(active) = <<>>
           st == count_attempt(self.stats, retry)
<1>1. /\ active \in Seq(QueuedSamples) /\ next_active \in Seq(QueuedSamples)
      /\ finished \in Seq(FinishedSamples) /\ active # <<>>
      /\ self \in Trainers /\ pc = "rollout"
      /\ Loss(restarts) \in Nat
  BY LoopTypes DEF RolloutAttempt
<1>2. /\ q \in QueuedSamples /\ Tail(active) \in Seq(QueuedSamples)
      /\ Len(Tail(active)) = Len(active) - 1
  BY <1>1, HeadTailProperties
<1>3. /\ self' = [self EXCEPT !.stats = st]
      /\ finished' = IF retry THEN finished ELSE Append(finished, record)
      /\ active' = IF over THEN retries ELSE Tail(active)
      /\ next_active' = IF over THEN <<>> ELSE retries
      /\ pc' \in {"rollout", "finalize"} /\ (pc' = "finalize" => active' = <<>>)
      /\ UNCHANGED <<smoke, epoch, position, stop, disk, restarts, launch_step, queue_step>>
  BY <1>0 DEF RolloutAttempt, NoTrainerError
<1> HIDE DEF attempt
<1>4. /\ again \in QueuedSamples /\ again.sample = q.sample
      /\ record \in FinishedSamples /\ record.sample = q.sample
  <2>0. q.retry_count \in Nat /\ q.sample \in Samples
    BY <1>2 DEF QueuedSamples
  <2> DEFINE n == q.retry_count + 1
  <2>1. n \in Nat /\ again = [q EXCEPT !.retry_count = n]
    BY <2>0
  <2>2. attempt \in AttemptRecords
    BY <2>0, Classified DEF attempt
  <2> HIDE DEF q, n, again
  <2>3. again \in QueuedSamples /\ again.sample = q.sample
    BY <1>2, <2>1 DEF QueuedSamples
  <2>4. record \in FinishedSamples /\ record.sample = q.sample
    BY <2>0, <2>2 DEF FinishedSamples
  <2> QED
    BY <2>3, <2>4
<1> HIDE DEF again, record
<1>5. /\ self'.epoch_stats = self.epoch_stats /\ self'.finalized = self.finalized
      /\ self'.sample_index = self.sample_index /\ self'.stats = st
  <2> HIDE DEF st
  <2> QED
    BY <1>1, <1>3 DEF Trainers
<1>6. /\ st.total_groups = self.stats.total_groups + 1
      /\ st.retries = IF retry THEN self.stats.retries + 1 ELSE self.stats.retries
      /\ st.rejected = self.stats.rejected /\ st.trainable = self.stats.trainable
  <2>1. self.stats \in RunStats
    BY <1>1, TrainerFields
  <2> DEFINE g == self.stats.total_groups + 1
             r == IF retry THEN self.stats.retries + 1 ELSE self.stats.retries
  <2>2. st = [self.stats EXCEPT !.total_groups = g, !.retries = r]
    BY DEF count_attempt
  <2> HIDE DEF g, r, st
  <2>3. st.total_groups = g /\ st.retries = r /\ st.rejected = self.stats.rejected
        /\ st.trainable = self.stats.trainable
    BY <2>1, <2>2 DEF RunStats
  <2> QED
    BY <2>3 DEF g, r
<1> HIDE DEF st
<1>7. /\ finished' = IF retry THEN finished ELSE Append(finished, record)
      /\ Len(finished') = IF retry THEN Len(finished) ELSE Len(finished) + 1
      /\ Len(retries) = IF retry THEN Len(next_active) + 1 ELSE Len(next_active)
      /\ SamplesOf(finished') = SamplesOf(finished) \cup IF retry THEN {} ELSE {q.sample}
      /\ SamplesOf(retries) = SamplesOf(next_active) \cup IF retry THEN {q.sample} ELSE {}
      /\ retries \in Seq(QueuedSamples)
  <2>1. CASE retry
    <3>1. finished' = finished /\ retries = Append(next_active, again)
      BY <1>3, <2>1
    <3> HIDE DEF retries, retry, q
    <3>2. Len(retries) = Len(next_active) + 1 /\ retries \in Seq(QueuedSamples)
      BY <1>1, <1>4, <3>1, AppendProperties
    <3>3. SamplesOf(retries) = SamplesOf(next_active) \cup {q.sample}
      BY <1>1, <1>4, <3>1, SamplesOfAppend
    <3> QED
      BY <2>1, <3>1, <3>2, <3>3
  <2>2. CASE ~retry
    <3>1. finished' = Append(finished, record) /\ retries = next_active
      BY <1>3, <2>2
    <3> HIDE DEF retries, retry, q
    <3>2. Len(finished') = Len(finished) + 1
      BY <1>1, <1>4, <3>1, AppendProperties
    <3>3. SamplesOf(finished') = SamplesOf(finished) \cup {q.sample}
      BY <1>1, <1>4, <3>1, SamplesOfAppend
    <3> QED
      BY <1>1, <2>2, <3>1, <3>2, <3>3
  <2> QED
    BY <2>1, <2>2
<1> HIDE DEF retries
<1>8. /\ Len(active') + Len(next_active') = Len(Tail(active)) + Len(retries)
      /\ SamplesOf(active') \cup SamplesOf(next_active')
           = SamplesOf(Tail(active)) \cup SamplesOf(retries)
      /\ pc' = "finalize" => active' = <<>> /\ next_active' = <<>>
  <2>1. CASE over
    <3>1. active' = retries /\ next_active' = <<>> /\ Tail(active) = <<>>
      BY <1>3, <2>1
    <3> HIDE DEF over
    <3>2. Len(active') + Len(next_active') = Len(Tail(active)) + Len(retries)
      BY <1>7, <3>1, NoneAdded
    <3> QED
      BY <1>3, <3>1, <3>2, SamplesOfEmpty
  <2>2. CASE ~over
    <3>1. active' = Tail(active) /\ next_active' = retries /\ Tail(active) # <<>>
      BY <1>3, <2>2
    <3> HIDE DEF over
    <3> QED
      BY <1>3, <3>1
  <2> QED
    BY <2>1, <2>2
<1>9. SamplesOf(active) = {q.sample} \cup SamplesOf(Tail(active))
  BY <1>1, SamplesOfTail
<1>10. Underway \subseteq Underway'
  BY <1>7, <1>8, <1>9 DEF Underway
<1>11. /\ Counted(self) /\ Displaced(self, Settled, Loss(restarts))
       /\ Drifted(self, Len(finished), Loss(restarts))
       /\ epoch \in Epochs /\ self.epoch_stats.epoch = epoch
       /\ self.epoch_stats.attempt_groups = self.epoch_stats.samples_seen
       /\ self.epoch_stats.samples_seen + Len(active) + Len(next_active) + Len(finished)
            = position
  BY <1>1 DEF AccountInv, PlaceInv, inLoop
<1>11a. /\ Len(finished') + Len(retries) = Len(finished) + Len(next_active) + 1
        /\ Len(finished') - Len(finished) = 1 - (st.retries - self.stats.retries)
  <2>1. /\ Len(finished) \in Nat /\ Len(next_active) \in Nat /\ self.stats.retries \in Nat
    BY <1>1, LoopTypes, TrainerNumbers
  <2> HIDE DEF retry
  <2>2. CASE retry
    <3>1. /\ Len(finished') = Len(finished) /\ Len(retries) = Len(next_active) + 1
          /\ st.retries = self.stats.retries + 1
      BY <1>6, <1>7, <2>2
    <3> QED
      BY <2>1, <3>1
  <2>3. CASE ~retry
    <3>1. /\ Len(finished') = Len(finished) + 1 /\ Len(retries) = Len(next_active)
          /\ st.retries = self.stats.retries
      BY <1>6, <1>7, <2>3
    <3> QED
      BY <2>1, <3>1
  <2> QED
    BY <2>2, <2>3
<1>11b. /\ Len(active') \in Nat /\ Len(next_active') \in Nat /\ Len(finished') \in Nat
        /\ Len(Tail(active)) \in Nat /\ Len(retries) \in Nat /\ st.retries \in Nat
  <2>1. /\ active' \in Seq(QueuedSamples) /\ next_active' \in Seq(QueuedSamples)
        /\ finished' \in Seq(FinishedSamples) /\ self' \in Trainers
    BY DEF TypeOK
  <2>2. st.retries \in Nat
    BY <1>5, <2>1, TrainerNumbers
  <2> QED
    BY <1>2, <1>7, <2>1, <2>2, LenProperties
<1> HIDE DEF q, retry, over
<1>12. Counted(self')
  BY <1>5, <1>6, <1>11 DEF Counted
<1>13. Displaced(self', Settled', Loss(restarts))
  <2>1. Settled = Cover(epoch, position) \ Underway
    BY <1>1 DEF Settled
  <2>2. Settled' = Cover(epoch, position) \ Underway'
    BY <1>3 DEF Settled
  <2>3. Settled \subseteq Samples /\ Settled' \subseteq Settled
    BY <1>10, <1>11, <2>1, <2>2, LoopTypes, CoverFacts
  <2>4. Displaced(self, Settled', Loss(restarts))
    BY <1>1, <1>11, <2>3, DisplacedLess
  <2> QED
    BY <1>5, <2>4 DEF Displaced
<1>14. Drifted(self', Len(finished'), Loss(restarts))
  <2>1. /\ self.sample_index \in Nat /\ self.stats.total_groups \in Nat
        /\ self.stats.retries \in Nat /\ Len(finished) \in Nat
    BY <1>1, LoopTypes, TrainerNumbers
  <2> DEFINE x == self.sample_index
             g == self.stats.total_groups
             r == self.stats.retries
             m == Len(finished)
             r1 == st.retries
             m1 == Len(finished')
             b == Loss(restarts)
  <2>2. /\ x \in Nat /\ g \in Nat /\ r \in Nat /\ m \in Nat /\ r1 \in Nat /\ m1 \in Nat
        /\ b \in Nat
    BY <1>1, <1>11b, <2>1
  <2>3. x + m <= g - r /\ g - r <= x + m + b /\ m1 - m = 1 - (r1 - r)
    BY <1>11, <1>11a DEF Drifted
  <2>4. /\ self'.sample_index = x /\ self'.stats.total_groups = g + 1
        /\ self'.stats.retries = r1
    BY <1>5, <1>6
  <2> HIDE DEF x, g, r, m, r1, m1, b
  <2>5. x + m1 <= g + 1 - r1 /\ g + 1 - r1 <= x + m1 + b
    BY <2>2, <2>3, DriftKept
  <2>6. /\ self'.sample_index + m1 <= self'.stats.total_groups - self'.stats.retries
        /\ self'.stats.total_groups - self'.stats.retries <= self'.sample_index + m1 + b
    BY <2>2, <2>4, <2>5
  <2> QED
    BY <2>6, Zenon DEF Drifted, m1, b
<1>15. PlaceInv'
  <2>1. /\ Len(active) \in Nat /\ Len(next_active) \in Nat /\ Len(finished) \in Nat
        /\ self.epoch_stats.samples_seen \in Nat /\ position \in Nat
    BY <1>1, LoopTypes, TrainerNumbers
  <2>2. self.epoch_stats.samples_seen + Len(active') + Len(next_active') + Len(finished')
          = position
    <3> DEFINE w == self.epoch_stats.samples_seen
               a == Len(active)
               b == Len(next_active)
               c == Len(finished)
               a1 == Len(active')
               b1 == Len(next_active')
               c1 == Len(finished')
               t == Len(Tail(active))
               r == Len(retries)
    <3>1. /\ w \in Nat /\ a \in Nat /\ b \in Nat /\ c \in Nat /\ a1 \in Nat /\ b1 \in Nat
          /\ c1 \in Nat /\ t \in Nat /\ r \in Nat /\ position \in Nat
      BY <1>11b, <2>1
    <3>2. w + a + b + c = position /\ t = a - 1 /\ c1 + r = c + b + 1 /\ a1 + b1 = t + r
      BY <1>2, <1>8, <1>11, <1>11a
    <3> HIDE DEF w, a, b, c, a1, b1, c1, t, r
    <3>3. w + a1 + b1 + c1 = position
      BY <3>1, <3>2, PlaceKept
    <3> QED
      BY <3>3 DEF w, a1, b1, c1
  <2> QED
    BY <1>3, <1>5, <1>8, <1>11, <2>2 DEF PlaceInv, inLoop
<1>16. DiskInv'
  BY <1>3, DiskKept
<1> QED
  BY <1>3, <1>12, <1>13, <1>14, <1>15, <1>16 DEF AccountInv

\* One more finalised sample is one more in the account, and none that is missed.
LEMMA OneMoreAccount ==
  ASSUME NEW t \in Trainers, NEW u \in Trainers, NEW e \in Epochs, NEW s \in Samples,
         NEW S \in SUBSET Samples, NEW m \in Nat, NEW a \in Nat,
         OneMore(t, u, e, s), t.epoch_stats.epoch = e, t.epoch_stats.samples_seen + 1 <= N,
         t.epoch_stats.attempt_groups = t.epoch_stats.samples_seen,
         Counted(t), Displaced(t, S, a), Drifted(t, m + 1, a)
  PROVE  Counted(u) /\ Displaced(u, S \cup {s}, a) /\ Drifted(u, m, a)
<1> DEFINE f == t.finalized
           g == u.finalized
           n == t.epoch_stats.samples_seen
<1>1. /\ f \in [Keys -> Nat] /\ n \in Nat /\ t.sample_index \in Nat
      /\ t.stats.total_groups \in Nat /\ t.stats.retries \in Nat
      /\ t.stats.rejected \in Nat /\ t.stats.trainable \in Nat
      /\ u.stats.rejected \in Nat /\ u.stats.trainable \in Nat
      /\ N \in Nat /\ e \in Nat /\ Epochs \subseteq Nat
  BY TrainerNumbers, DatasetFacts
<1>2. Added(f, g, e, s)
  BY DEF OneMore
<1>3. /\ \A i \in Nat : Tallied(f, e, i) => Tallied(g, e, i + 1)
      /\ \A d \in Epochs, i \in Nat : d # e /\ Tallied(f, d, i) => Tallied(g, d, i)
  <2>1. f \in [Keys -> Nat]
    BY <1>1
  <2> HIDE DEF f, g
  <2> QED
    BY <1>2, <2>1, TallyUp
<1>4. Counted(u)
  <2>1. \A d \in Epochs : /\ d < e => Tallied(g, d, N)
                          /\ d = e => Tallied(g, d, n + 1)
                          /\ d > e => Tallied(g, d, 0)
    <3>1. \A d \in Epochs : /\ d < e => Tallied(f, d, N)
                            /\ d = e => Tallied(f, d, n)
                            /\ d > e => Tallied(f, d, 0)
      BY DEF Counted
    <3> HIDE DEF f, g, n
    <3> QED
      BY <1>1, <1>3, <3>1
  <2>2. /\ u.epoch_stats.epoch = e /\ u.epoch_stats.samples_seen = n + 1
        /\ u.epoch_stats.attempt_groups = n + 1 /\ n + 1 <= N
    BY DEF OneMore
  <2>3. /\ u.sample_index = e * N + (n + 1)
        /\ u.stats.rejected + u.stats.trainable = u.sample_index
    <3>1. t.sample_index = e * N + n /\ t.stats.rejected + t.stats.trainable = t.sample_index
      BY DEF Counted
    <3>2. e * N \in Nat
      BY <1>1, Products
    <3>3. /\ u.sample_index = t.sample_index + 1
          /\ u.stats.rejected + u.stats.trainable = t.stats.rejected + t.stats.trainable + 1
      BY DEF OneMore
    <3> DEFINE p == e * N
    <3> HIDE DEF p, n
    <3>4. p \in Nat /\ t.sample_index = p + n
      BY <3>1, <3>2 DEF p
    <3>5. u.sample_index = p + (n + 1)
      BY <1>1, <3>3, <3>4
    <3> QED
      BY <1>1, <3>1, <3>3, <3>5 DEF p
  <2> HIDE DEF n
  <2> QED
    BY <2>1, <2>2, <2>3 DEF Counted
<1>5. Displaced(u, S \cup {s}, a)
  <2> SUFFICES ASSUME NEW d \in Epochs
               PROVE  /\ d < e => Cardinality(Missed(g, d, Samples)) <= a
                      /\ d = e => Cardinality(Missed(g, d, S \cup {s})) <= a
    BY DEF Displaced, OneMore
  <2>1. \A x \in Samples : <<d, x>> \in Keys /\ <<e, x>> \in Keys
    BY DEF Keys
  <2>2. \A x \in Samples :
          g[<<d, x>>] = IF d = e /\ x = s THEN f[<<e, s>>] + 1 ELSE f[<<d, x>>]
    BY <1>1, <1>2, <2>1 DEF Added
  <2> HIDE DEF f, g
  <2>3. f[<<e, s>>] + 1 # 0
    <3>1. f[<<e, s>>] \in Nat
      BY <1>1, <2>1
    <3> QED
      BY <3>1
  <2>4. ASSUME d < e
        PROVE  Cardinality(Missed(g, d, Samples)) <= a
    <3>1. Cardinality(Missed(f, d, Samples)) <= a
      BY <2>4 DEF Displaced, f
    <3>2. Missed(g, d, Samples) \subseteq Missed(f, d, Samples)
      BY <2>2, <2>3 DEF Missed
    <3> QED
      BY <3>1, <3>2, MissedLess
  <2>5. ASSUME d = e
        PROVE  Cardinality(Missed(g, d, S \cup {s})) <= a
    <3>1. Cardinality(Missed(f, d, S)) <= a
      BY <2>5 DEF Displaced, f
    <3>2. Missed(g, d, S \cup {s}) \subseteq Missed(f, d, S)
      BY <2>2, <2>3, <2>5 DEF Missed
    <3> QED
      BY <3>1, <3>2, MissedLess
  <2> QED
    BY <2>4, <2>5
<1>6. Drifted(u, m, a)
  <2>1. /\ u.sample_index = t.sample_index + 1
        /\ u.stats.total_groups = t.stats.total_groups /\ u.stats.retries = t.stats.retries
    BY DEF OneMore
  <2> QED
    BY <1>1, <2>1 DEF Drifted
<1> QED
  BY <1>4, <1>5, <1>6

\* FinalizeSample moves the account on by the sample it finalises; what it saves has it.
LEMMA FinalizeSampleAccount ==
  ASSUME IInv, AccountInv, FinalizeSample
  PROVE  AccountInv'
<1> DEFINE q == Head(finished)
           t == finalize_sample(self, q)
           rest == Tail(finished)
<1>1. /\ pc = "finalize" /\ finished # <<>>
      /\ self' = maybe_optimize(t, FALSE)
      /\ disk' \in {disk, checkpoint_trainer_state(self')}
      /\ pc' \in {"finalize", "smoke_stop", "queues"}
      /\ pc' # "finalize" => rest = <<>>
      /\ finished' = rest
      /\ epoch' = epoch /\ position' = position /\ active' = active
      /\ next_active' = next_active /\ restarts' = restarts
  BY DEF FinalizeSample
<1>2. TypeOK /\ Len(finished) <= QueueSize
  BY <1>1 DEF IInv, QueueInv
<1>3. /\ self \in Trainers /\ finished \in Seq(FinishedSamples) /\ position \in 0..N
      /\ N \in Nat \ {0} /\ Loss(restarts) \in Nat /\ restarts \in Nat
      /\ QueueSize \in Nat \ {0} /\ Len(finished) \in Nat
  BY <1>2, LoopTypes, ParametersAssumption
<1>4. /\ q \in FinishedSamples /\ rest \in Seq(FinishedSamples)
      /\ Len(rest) \in Nat /\ Len(finished) = Len(rest) + 1
  <2>1. q \in FinishedSamples /\ rest \in Seq(FinishedSamples)
    BY <1>1, <1>3, HeadTailProperties, EmptySeq
  <2>2. Len(rest) = Len(finished) - 1 /\ Len(rest) \in Nat
    BY <1>1, <1>3, <2>1, HeadTailProperties, LenProperties
  <2> QED
    BY <1>3, <2>1, <2>2
<1>5. /\ Counted(self) /\ Displaced(self, Settled, Loss(restarts))
      /\ Drifted(self, Len(finished), Loss(restarts))
      /\ active = <<>> /\ next_active = <<>> /\ Len(<<>>) = 0
      /\ epoch \in Epochs /\ self.epoch_stats.epoch = epoch
      /\ self.epoch_stats.attempt_groups = self.epoch_stats.samples_seen
      /\ self.epoch_stats.samples_seen + 0 + 0 + Len(finished) = position
  BY <1>1 DEF AccountInv, PlaceInv, inLoop
<1> DEFINE s == self.epoch_stats.samples_seen
           S == Cover(epoch, position) \ SamplesOf(rest)
           a == Loss(restarts)
<1>6. s \in Nat /\ s + 1 + Len(rest) = position /\ s + 1 <= N
  <2>1. s \in Nat /\ position \in 0..N /\ N \in Nat
    BY <1>3, TrainerNumbers
  <2>2. s + 0 + 0 + Len(finished) = position
    BY <1>5
  <2> HIDE DEF s, rest
  <2> QED
    BY <1>4, <2>1, <2>2
<1>7. t \in Trainers
  BY <1>3, <1>4, <1>5, FinalizeType
<1>8. OneMore(self, t, epoch, q.sample) /\ q.sample \in Samples
  BY <1>3, <1>4, <1>5, FinalizeAccount DEF FinishedSamples
<1> HIDE DEF q, t, rest, s, a
<1>9. Settled = Cover(epoch, position) \ ({q.sample} \cup SamplesOf(rest))
  <2>1. SamplesOf(finished) = {q.sample} \cup SamplesOf(rest)
    BY <1>1, <1>3, SamplesOfTail DEF q, rest
  <2> QED
    BY <1>1, <1>5, <2>1, SamplesOfEmpty DEF Settled, Underway
<1>10. Cover(epoch, position) \subseteq Samples /\ Settled \in SUBSET Samples
  BY <1>3, <1>5, <1>9, CoverFacts
<1>11. Counted(t) /\ Displaced(t, S, a) /\ Drifted(t, Len(rest), a)
  <2>1. Drifted(self, Len(rest) + 1, a) /\ Displaced(self, Settled, a)
    BY <1>4, <1>5 DEF a
  <2>2. a \in Nat
    BY <1>3 DEF a
  <2>3. /\ self.epoch_stats.samples_seen + 1 <= N
        /\ self.epoch_stats.attempt_groups = self.epoch_stats.samples_seen
        /\ self.epoch_stats.epoch = epoch
    BY <1>5, <1>6 DEF s
  <2>4. Counted(t) /\ Displaced(t, Settled \cup {q.sample}, a) /\ Drifted(t, Len(rest), a)
    BY <1>3, <1>4, <1>5, <1>7, <1>8, <1>10, <2>1, <2>2, <2>3, OneMoreAccount
  <2>5. S \subseteq Settled \cup {q.sample} /\ Settled \cup {q.sample} \subseteq Samples
    BY <1>8, <1>9, <1>10
  <2>6. Displaced(t, S, a)
    BY <2>2, <2>4, <2>5, DisplacedLess
  <2> QED
    BY <2>4, <2>6
<1>12. /\ t.epoch_stats.epoch = epoch /\ t.epoch_stats.samples_seen = s + 1
       /\ t.epoch_stats.attempt_groups = s + 1
  BY <1>5, <1>8 DEF OneMore, s
<1>13. SameAccount(t, self') /\ self' \in Trainers
  <2>1. FALSE \in BOOLEAN
    OBVIOUS
  <2>2. SameAccount(t, self')
    BY <1>1, <1>7, <2>1, OptimizeAccount
  <2>3. self' \in Trainers
    <3>1. optimize(t, FALSE) \in Trainers
      BY <1>7, <2>1, OptimizeType
    <3> QED
      BY <1>1, <1>7, <3>1 DEF maybe_optimize
  <2> QED
    BY <2>2, <2>3
<1>14. /\ Counted(self') /\ Displaced(self', S, a) /\ Drifted(self', Len(rest), a)
       /\ self'.epoch_stats.epoch = epoch /\ self'.epoch_stats.samples_seen = s + 1
       /\ self'.epoch_stats.attempt_groups = s + 1
  <2>1. self'.epoch_stats = t.epoch_stats
    BY <1>13 DEF SameAccount
  <2> QED
    BY <1>11, <1>12, <1>13, <2>1, AccountMoves
<1>15. Seen(self') = Cover(epoch, s + 1)
  BY <1>14 DEF Seen
<1>16. Displaced(self', Settled', a)
  <2>1. CASE pc' = "finalize"
    <3>1. Settled' = Cover(epoch, position) \ Underway'
      BY <1>1, <2>1 DEF Settled
    <3>2. Underway' = SamplesOf(rest)
      BY <1>1, <1>5, SamplesOfEmpty DEF Underway
    <3> QED
      BY <1>14, <3>1, <3>2
  <2>2. CASE pc' # "finalize"
    <3>1. rest = <<>> /\ Settled' = Seen(self')
      BY <1>1, <2>2 DEF Settled
    <3>2. s + 1 = position
      BY <1>3, <1>5, <1>6, <3>1
    <3>3. S = Seen(self')
      BY <1>15, <3>1, <3>2, SamplesOfEmpty
    <3> QED
      BY <1>14, <3>1, <3>3
  <2> QED
    BY <2>1, <2>2
<1>17. PlaceInv'
  <2>1. s + 1 + 0 + 0 + Len(rest) = position
    BY <1>3, <1>4, <1>6
  <2>2. pc' # "finalize" => rest = <<>>
    BY <1>1
  <2> HIDE DEF S
  <2> QED
    BY <1>1, <1>5, <1>14, <2>1, <2>2 DEF PlaceInv, inLoop
<1>18. DiskInv'
  <2>1. CASE disk' = disk
    <3>1. pc' # "start"
      BY <1>1
    <3> QED
      BY <1>1, <1>2, <2>1, <3>1, DiskKept
  <2>2. CASE disk' = checkpoint_trainer_state(self')
    <3>1. Len(rest) \in 0..(QueueSize - 1)
      BY <1>2, <1>3, <1>4
    <3>2. Seen(self') \subseteq Cover(epoch, position)
      BY <1>3, <1>4, <1>6, <1>15, CoverFacts
    <3>3. Cardinality(Seen(self') \ S) <= Len(rest)
      <4>1. Seen(self') \ S \subseteq SamplesOf(rest)
        BY <3>2
      <4>2. IsFiniteSet(SamplesOf(rest)) /\ Cardinality(SamplesOf(rest)) <= Len(rest)
        BY <1>4, SamplesOfSize
      <4> DEFINE W == Seen(self') \ S
                 Z == SamplesOf(rest)
      <4> HIDE DEF W, Z
      <4>3. W \subseteq Z /\ IsFiniteSet(Z) /\ Cardinality(Z) <= Len(rest)
        BY <4>1, <4>2 DEF W, Z
      <4>4. /\ Cardinality(W) <= Cardinality(Z)
            /\ Cardinality(W) \in Nat /\ Cardinality(Z) \in Nat
        BY <4>3, FS_Subset, FS_CardinalityType
      <4>5. Cardinality(W) <= Len(rest)
        BY <1>4, <4>3, <4>4
      <4> QED
        BY <4>5 DEF W
    <3>4. S \subseteq Samples /\ Seen(self') \subseteq Samples
      BY <1>10, <3>2
    <3>5. /\ Counted(disk') /\ Displaced(disk', Seen(disk'), Loss(restarts + 1))
          /\ Drifted(disk', 0, Loss(restarts + 1))
      <4> HIDE DEF S
      <4> QED
        BY <1>3, <1>13, <1>14, <2>2, <3>1, <3>3, <3>4, SavedAccount DEF a
    <3> QED
      BY <1>1, <3>5 DEF DiskInv, restarts_ahead
  <2> QED
    BY <1>1, <2>1, <2>2
<1> QED
  BY <1>1, <1>14, <1>16, <1>17, <1>18 DEF AccountInv, a

\* Flushing and saving between queues: what was seen is settled.
LEMMA FlushAndSaveAccount ==
  ASSUME IInv, AccountInv, NEW l \in {"epoch", "done"}, FlushAndSave(l),
         pc \in {"first_epoch", "epoch", "queues", "smoke_stop"}, restarts' = restarts
  PROVE  /\ Counted(self') /\ Displaced(self', Seen(self'), Loss(restarts))
         /\ Drifted(self', 0, Loss(restarts))
         /\ self'.epoch_stats = self.epoch_stats
         /\ pc' = l /\ DiskInv'
<1>1. TypeOK /\ ConservationInv
  BY DEF IInv
<1>2. self' \in Trainers /\ pc' = l /\ self'.replay_buffer = <<>>
  BY <1>1, FlushAndSaveType
<1>3. self' = maybe_optimize(self, TRUE) /\ disk' = checkpoint_trainer_state(self')
  BY <1>2 DEF FlushAndSave
<1>4. SameAccount(self, self')
  <2>1. TRUE \in BOOLEAN
    OBVIOUS
  <2> QED
    BY <1>1, <1>3, <2>1, LoopTypes, OptimizeAccount
<1>5. /\ Counted(self) /\ Displaced(self, Seen(self), Loss(restarts))
      /\ Drifted(self, 0, Loss(restarts))
  <2>1. finished = <<>> /\ Len(<<>>) = 0 /\ Settled = Seen(self)
    BY DEF AccountInv, PlaceInv, Settled
  <2> QED
    BY <2>1 DEF AccountInv
<1>6. /\ Counted(self') /\ Displaced(self', Seen(self'), Loss(restarts))
      /\ Drifted(self', 0, Loss(restarts))
  BY <1>4, <1>5, AccountMoves
<1>7. /\ Counted(disk') /\ Displaced(disk', Seen(disk'), Loss(restarts + 1))
      /\ Drifted(disk', 0, Loss(restarts + 1))
  <2>1. 0 \in 0..(QueueSize - 1) /\ restarts \in Nat
    BY <1>1, LoopTypes, ParametersAssumption
  <2>2. self'.epoch_stats.epoch \in Epochs => Seen(self') \subseteq Samples
    BY <1>2, <1>6, SeenSamples
  <2>3. Cardinality(Seen(self') \ Seen(self')) <= 0
    <3>1. Seen(self') \ Seen(self') = {}
      OBVIOUS
    <3> QED
      BY <3>1, FS_EmptySet
  <2> QED
    BY <1>2, <1>3, <1>6, <2>1, <2>2, <2>3, SavedAccount
<1>8. DiskInv'
  BY <1>2, <1>7 DEF DiskInv, restarts_ahead
<1> QED
  BY <1>2, <1>4, <1>6, <1>8 DEF SameAccount

\* A final save ends the launch where it is.
LEMMA FinalSaveAccount ==
  ASSUME IInv, AccountInv, FlushAndSave("done"), pc \in {"first_epoch", "epoch", "smoke_stop"},
         UNCHANGED <<smoke, epoch, position, queueVars, restarts, launch_step, queue_step>>
  PROVE  AccountInv'
<1>1. /\ Counted(self') /\ Displaced(self', Seen(self'), Loss(restarts))
      /\ Drifted(self', 0, Loss(restarts))
      /\ self'.epoch_stats = self.epoch_stats
      /\ pc' = "done" /\ DiskInv'
  BY FlushAndSaveAccount
<1>2. /\ finished' = finished /\ active' = active /\ next_active' = next_active
      /\ epoch' = epoch /\ restarts' = restarts
  BY DEF queueVars
<1>3. /\ finished = <<>> /\ active = <<>> /\ next_active = <<>> /\ Len(<<>>) = 0
      /\ \/ epoch = self.epoch_stats.epoch
         \/ epoch = self.epoch_stats.epoch + 1 /\ self.epoch_stats.samples_seen = N
  BY DEF AccountInv, PlaceInv, inLoop
<1>4. PlaceInv'
  BY <1>1, <1>2, <1>3 DEF PlaceInv, inLoop
<1>5. Settled' = Seen(self')
  BY <1>1 DEF Settled
<1> QED
  BY <1>1, <1>2, <1>3, <1>4, <1>5 DEF AccountInv

\* At the end of an epoch all of it has been seen.
LEMMA EndEpochAccount ==
  ASSUME IInv, AccountInv, EndEpoch
  PROVE  AccountInv'
<1>1. /\ pc = "queues" /\ position >= N /\ epoch' = epoch + 1 /\ restarts' = restarts
      /\ finished' = finished /\ active' = active /\ next_active' = next_active
  BY DEF EndEpoch, queueVars
<1>2. TypeOK
  BY DEF IInv
<1>3. /\ finished = <<>> /\ active = <<>> /\ next_active = <<>> /\ Len(<<>>) = 0
      /\ self.epoch_stats.epoch = epoch
      /\ self.epoch_stats.samples_seen + 0 + 0 + 0 = position
      /\ Settled = Seen(self)
  BY <1>1 DEF AccountInv, PlaceInv, inLoop, Settled
<1>4. self.epoch_stats.samples_seen = N
  BY <1>1, <1>2, <1>3, LoopTypes, TrainerNumbers
<1>5. /\ Counted(self') /\ Displaced(self', Seen(self'), Loss(restarts))
      /\ Drifted(self', 0, Loss(restarts))
      /\ self'.epoch_stats = self.epoch_stats
      /\ pc' = "epoch" /\ DiskInv'
  <2>1. CASE SaveEveryEpoch
    <3>1. FlushAndSave("epoch")
      BY <2>1 DEF EndEpoch
    <3> QED
      BY <1>1, <3>1, FlushAndSaveAccount
  <2>2. CASE ~SaveEveryEpoch
    <3>1. pc' = "epoch" /\ self' = self /\ disk' = disk
      BY <2>2 DEF EndEpoch
    <3>2. DiskInv'
      BY <1>1, <1>2, <3>1, DiskKept
    <3> QED
      BY <1>3, <3>1, <3>2 DEF AccountInv
  <2> QED
    BY <2>1, <2>2
<1>6. PlaceInv'
  BY <1>1, <1>3, <1>4, <1>5 DEF PlaceInv, inLoop
<1>7. Settled' = Seen(self')
  BY <1>5 DEF Settled
<1> QED
  BY <1>1, <1>3, <1>5, <1>6, <1>7 DEF AccountInv

\* A restart leaves the checkpoint, which has allowed for it.
LEMMA RestartAccount ==
  ASSUME TypeOK, AccountInv, Restart, TypeOK'
  PROVE  AccountInv'
<1>1. /\ pc # "start" /\ pc' = "start" /\ restarts' = restarts + 1 /\ epoch' = 0
      /\ active' = <<>> /\ next_active' = <<>> /\ finished' = <<>>
      /\ self' = NewTrainer /\ disk' = disk
  BY DEF Restart
<1>2. restarts + 1 \in Nat
  BY LoopTypes
<1>3. /\ Counted(self') /\ Displaced(self', Seen(self'), Loss(restarts'))
      /\ Drifted(self', 0, Loss(restarts'))
  BY <1>1, <1>2, NewAccount
<1>4. Settled' = Seen(self') /\ Len(finished') = 0
  BY <1>1 DEF Settled
<1>5. PlaceInv'
  BY <1>1 DEF PlaceInv, inLoop
<1>6. DiskInv'
  BY <1>1 DEF AccountInv, DiskInv, restarts_ahead
<1> QED
  BY <1>3, <1>4, <1>5, <1>6 DEF AccountInv

\* A step that changes nothing keeps the account.
LEMMA UnchangedAccount ==
  ASSUME AccountInv, UNCHANGED vars
  PROVE  AccountInv'
<1>1. UNCHANGED <<pc, smoke, epoch, position, active, next_active, finished, stop,
                  self, disk, restarts, launch_step, queue_step>>
  BY DEF vars
<1>2. Settled' = Settled
  BY <1>1 DEF Settled, Underway
<1>3. PlaceInv' /\ DiskInv'
  BY <1>1 DEF AccountInv, PlaceInv, inLoop, DiskInv, restarts_ahead
<1> QED
  BY <1>1, <1>2, <1>3 DEF AccountInv

-----------------------------------------------------------------------------
(* The smoke boundary.                                                     *)

\* A smoke launch makes no step over the limit without having asked to stop.
SmokeInv ==
  /\ pc # "start" => launch_step <= self.global_step
  /\ smoke /\ pc \in {"first_epoch", "epoch", "queues", "rollout"} =>
       self.global_step <= smoke_limit
  /\ smoke /\ pc = "finalize" => stop \/ self.global_step <= smoke_limit

\* A step that FinalizeSample makes without asking to stop is the first of a first launch.
LEMMA FinalizeSampleSmoke ==
  ASSUME IInv, SmokeInv, FinalizeSample
  PROVE  SmokeInv'
<1> DEFINE q == Head(finished)
           t == finalize_sample(self, q)
           steps == wants_train(t, FALSE)
<1>1. /\ pc = "finalize" /\ finished # <<>>
      /\ self' = maybe_optimize(t, FALSE)
      /\ stop' = (stop \/ (steps /\ boundary_reached))
      /\ pc' = IF Tail(finished) # <<>> THEN "finalize"
               ELSE IF stop' THEN "smoke_stop" ELSE "queues"
      /\ smoke' = smoke /\ launch_step' = launch_step
  BY DEF FinalizeSample
<1>2. /\ self \in Trainers /\ finished \in Seq(FinishedSamples) /\ epoch \in Epochs
      /\ launch_step \in Nat
  <2>1. TypeOK /\ epoch < MaxEpochs
    BY <1>1 DEF IInv, LoopInv
  <2> QED
    BY <2>1, DatasetFacts DEF TypeOK
<1>3. q \in FinishedSamples
  BY <1>1, <1>2, HeadTailProperties, EmptySeq
<1>4. t \in Trainers /\ t.global_step = self.global_step
  BY <1>2, <1>3, FinalizeType
<1> HIDE DEF q, t
<1>5. self'.global_step = IF steps THEN self.global_step + 1 ELSE self.global_step
  <2>1. FALSE \in BOOLEAN
    OBVIOUS
  <2> QED
    BY <1>1, <1>4, <2>1, OptimizeAccount
<1>6. self.global_step \in Nat
  BY <1>2, TrainerFields
<1>7. launch_step <= self.global_step
  BY <1>1 DEF SmokeInv
<1> HIDE DEF steps
<1>8. pc' \in {"finalize", "smoke_stop", "queues"} /\ (pc' = "queues" => ~stop')
  BY <1>1
<1>9. ASSUME smoke, ~stop'
      PROVE  self'.global_step <= smoke_limit
  <2>1. ~stop /\ ~(steps /\ boundary_reached)
    BY <1>1, <1>9
  <2>2. self.global_step <= smoke_limit
    BY <1>1, <1>9, <2>1 DEF SmokeInv
  <2>3. CASE ~steps
    BY <1>5, <2>2, <2>3
  <2>4. CASE steps
    <3>1. self.global_step = 0
      BY <1>6, <1>9, <2>1, <2>4 DEF boundary_reached
    <3>2. launch_step = 0
      BY <1>2, <1>7, <3>1
    <3>3. smoke_limit \in Nat /\ 1 <= smoke_limit
      BY <1>2, <3>2, DatasetFacts DEF smoke_limit
    <3> QED
      BY <1>5, <2>4, <3>1, <3>3
  <2> QED
    BY <2>3, <2>4
<1>10. smoke_limit' = smoke_limit
  BY <1>1 DEF FinalizeSample, smoke_limit
<1>11. launch_step' <= self'.global_step
  <2>1. launch_step' = launch_step
    BY <1>1
  <2>2. self'.global_step = self.global_step \/ self'.global_step = self.global_step + 1
    BY <1>5
  <2> QED
    BY <1>2, <1>6, <1>7, <2>1, <2>2
<1> QED
  BY <1>1, <1>8, <1>9, <1>10, <1>11 DEF SmokeInv

\* A flush makes a step or none.
LEMMA FlushSteps ==
  ASSUME TypeOK, NEW l, FlushAndSave(l)
  PROVE  /\ self.global_step \in Nat /\ self'.global_step \in Nat
         /\ self.global_step <= self'.global_step
         /\ self'.global_step = self.global_step \/ self'.global_step = self.global_step + 1
<1>1. self \in Trainers /\ self' = maybe_optimize(self, TRUE)
  BY DEF TypeOK, FlushAndSave
<1>2. self.global_step \in Nat
  BY <1>1, TrainerFields
<1>3. self'.global_step
        = IF wants_train(self, TRUE) THEN self.global_step + 1 ELSE self.global_step
  <2>1. TRUE \in BOOLEAN
    OBVIOUS
  <2> QED
    BY <1>1, <2>1, OptimizeAccount
<1>4. self'.global_step = self.global_step \/ self'.global_step = self.global_step + 1
  BY <1>3
<1> QED
  BY <1>2, <1>4

\* Only a flush makes a step that the smoke boundary is not asked for.
LEMMA StepSmoke ==
  ASSUME IInv, SmokeInv, [Next]_vars, IInv'
  PROVE  SmokeInv'
<1>1. TypeOK /\ TypeOK' /\ launch_step \in Nat /\ self \in Trainers /\ self' \in Trainers
  BY DEF IInv, TypeOK
<1>2. /\ self.global_step \in Nat /\ self'.global_step \in Nat
      /\ epoch \in Nat /\ epoch' \in Nat
  BY <1>1, TrainerFields DEF TypeOK
<1>3. CASE Start
  <2>1. launch_step' = self'.global_step /\ pc' = "first_epoch"
    BY <1>3 DEF Start
  <2> QED
    BY <1>2, <2>1 DEF SmokeInv, smoke_limit
<1>4. CASE BeginEpoch
  <2>1. /\ pc \in {"first_epoch", "epoch"} /\ pc' = "queues"
        /\ smoke' = smoke /\ launch_step' = launch_step /\ epoch' = epoch
    BY <1>4 DEF BeginEpoch
  <2>2. self'.global_step = self.global_step
    <3>1. \/ self' = self
          \/ self' = [self EXCEPT !.epoch_stats = NewEpochStats(epoch)]
      BY <1>4 DEF BeginEpoch
    <3> QED
      BY <1>1, <3>1 DEF Trainers
  <2> QED
    BY <2>1, <2>2 DEF SmokeInv, smoke_limit
<1>5. CASE BeginQueue
  <2>1. /\ pc = "queues" /\ pc' = "rollout" /\ smoke' = smoke /\ self' = self
        /\ launch_step' = launch_step /\ epoch' = epoch
    BY <1>5 DEF BeginQueue
  <2> QED
    BY <2>1 DEF SmokeInv, smoke_limit
<1>6. CASE RolloutAttempt
  <2>1. /\ pc = "rollout" /\ pc' \in {"rollout", "finalize", "retry_overflow"}
        /\ smoke' = smoke /\ launch_step' = launch_step /\ epoch' = epoch
    BY <1>6 DEF RolloutAttempt
  <2>2. self'.global_step = self.global_step
    <3>1. PICK st : self' = [self EXCEPT !.stats = st]
      BY <1>6 DEF RolloutAttempt
    <3> QED
      BY <1>1, <3>1 DEF Trainers
  <2> QED
    BY <2>1, <2>2 DEF SmokeInv, smoke_limit
<1>7. CASE FinalizeSample
  BY <1>7, FinalizeSampleSmoke
<1>8. CASE SmokeStop \/ Finish
  <2>1. /\ FlushAndSave("done") /\ launch_step' = launch_step /\ pc # "start"
    BY <1>8 DEF SmokeStop, Finish
  <2>2. pc' \notin {"first_epoch", "epoch", "queues", "rollout", "finalize"}
    BY <2>1 DEF FlushAndSave
  <2>3. self.global_step <= self'.global_step /\ launch_step <= self.global_step
    BY <1>1, <2>1, FlushSteps DEF SmokeInv
  <2>4. launch_step' <= self'.global_step
    BY <1>1, <1>2, <2>1, <2>3
  <2> QED
    BY <2>2, <2>4 DEF SmokeInv
<1>9. CASE EndEpoch
  <2>1. /\ pc = "queues" /\ smoke' = smoke /\ launch_step' = launch_step
        /\ epoch' = epoch + 1
    BY <1>9 DEF EndEpoch
  <2>2. launch_step <= self.global_step /\ (smoke => self.global_step <= smoke_limit)
    BY <2>1 DEF SmokeInv
  <2>3. /\ launch_step' <= self'.global_step
        /\ smoke' => self'.global_step <= smoke_limit'
    <3>1. CASE SaveEveryEpoch
      <4>1. FlushAndSave("epoch")
        BY <1>9, <3>1 DEF EndEpoch
      <4>2. self'.global_step = self.global_step \/ self'.global_step = self.global_step + 1
        BY <1>1, <4>1, FlushSteps
      <4>3. smoke_limit \in Nat /\ smoke_limit' = smoke_limit + 1
        BY <1>1, <1>2, <2>1, <3>1 DEF smoke_limit
      <4> QED
        BY <1>1, <1>2, <2>1, <2>2, <4>2, <4>3
    <3>2. CASE ~SaveEveryEpoch
      <4>1. self' = self
        BY <1>9, <3>2 DEF EndEpoch
      <4>2. smoke_limit' = smoke_limit
        BY <2>1, <3>2 DEF smoke_limit
      <4> QED
        BY <2>1, <2>2, <4>1, <4>2
    <3> QED
      BY <3>1, <3>2
  <2>4. pc' \in {"epoch", "save_refused"}
    BY <1>9 DEF EndEpoch, FlushAndSave
  <2> QED
    BY <2>3, <2>4 DEF SmokeInv
<1>10. CASE Restart
  BY <1>10 DEF Restart, SmokeInv
<1>11. CASE Terminated \/ UNCHANGED vars
  BY <1>11 DEF Terminated, vars, SmokeInv, smoke_limit
<1> QED
  BY <1>3, <1>4, <1>5, <1>6, <1>7, <1>8, <1>9, <1>10, <1>11 DEF Next, Step

-----------------------------------------------------------------------------
(* What the account says.                                                  *)

\* Of every epoch before the loop's, all samples have been counted, and few were missed.
LEMMA EpochBehind ==
  ASSUME IInv, AccountInv, NEW e \in Epochs, e < epoch
  PROVE  /\ finalizations(e) = N
         /\ Cardinality(Missed(self.finalized, e, Samples)) <= Loss(restarts)
<1> DEFINE d == self.epoch_stats.epoch
<1>1. /\ Counted(self) /\ Displaced(self, Settled, Loss(restarts)) /\ PlaceInv
      /\ TypeOK /\ NoTrainerError
  BY DEF AccountInv, IInv
<1>2. e \in Nat /\ epoch \in Nat /\ d \in Nat /\ N \in Nat
  BY <1>1, LoopTypes, DatasetFacts, TrainerNumbers
<1>3. \/ e < d
      \/ /\ e = d /\ self.epoch_stats.samples_seen = N
         /\ pc \in {"epoch", "done"}
  <2>1. pc # "start"
    BY <1>1, <1>2 DEF PlaceInv
  <2>2. \/ epoch = d
        \/ /\ epoch = d + 1 /\ self.epoch_stats.samples_seen = N
           /\ pc \in {"epoch", "done"}
    BY <1>1, <2>1 DEF PlaceInv, TypeOK, NoTrainerError, inLoop
  <2> QED
    BY <1>2, <2>2
<1>4. finalizations(e) = Cardinality(Tally(self.finalized, e))
  BY DEF finalizations, Tally
<1>5. CASE e < d
  <2>1. Tallied(self.finalized, e, N)
    BY <1>1, <1>5 DEF Counted
  <2>2. Cardinality(Missed(self.finalized, e, Samples)) <= Loss(restarts)
    BY <1>1, <1>5 DEF Displaced
  <2> QED
    BY <1>4, <2>1, <2>2 DEF Tallied
<1>6. CASE e = d /\ self.epoch_stats.samples_seen = N /\ pc \in {"epoch", "done"}
  <2>1. Tallied(self.finalized, e, N)
    BY <1>1, <1>6 DEF Counted
  <2>2. Settled = Samples
    <3>1. Settled = Cover(e, N)
      BY <1>6 DEF Settled, Seen
    <3> QED
      BY <3>1, DatasetFacts
  <2>3. Cardinality(Missed(self.finalized, e, Samples)) <= Loss(restarts)
    BY <1>1, <1>6, <2>2 DEF Displaced
  <2> QED
    BY <1>4, <2>1, <2>3 DEF Tallied
<1> QED
  BY <1>3, <1>5, <1>6

\* The account gives the three parts of EpochAccount it is about.
LEMMA AccountSays ==
  ASSUME IInv, AccountInv
  PROVE  SamplesCounted /\ BoundedDisplacement /\ StatsAgree
<1>1. SamplesCounted
  <2>1. ASSUME inLoop
        PROVE  /\ finalizations(epoch) = self.epoch_stats.samples_seen
               /\ self.sample_index = epoch * N + self.epoch_stats.samples_seen
    <3>1. Counted(self) /\ self.epoch_stats.epoch = epoch /\ epoch \in Epochs
      BY <2>1 DEF AccountInv, PlaceInv
    <3>2. Tallied(self.finalized, epoch, self.epoch_stats.samples_seen)
      BY <3>1 DEF Counted
    <3>3. finalizations(epoch) = Cardinality(Tally(self.finalized, epoch))
      BY DEF finalizations, Tally
    <3>4. self.sample_index = epoch * N + self.epoch_stats.samples_seen
      BY <3>1 DEF Counted
    <3> QED
      BY <3>2, <3>3, <3>4 DEF Tallied
  <2> QED
    BY <2>1, EpochBehind DEF SamplesCounted
<1>2. BoundedDisplacement
  <2>1. \A e : Missed(self.finalized, e, Samples)
                 = {s \in Samples : self.finalized[<<e, s>>] = 0}
    BY DEF Missed
  <2>2. Loss(restarts) = restarts * (QueueSize - 1)
    BY DEF Loss
  <2> QED
    BY <2>1, <2>2, EpochBehind DEF BoundedDisplacement
<1>3. StatsAgree
  <2> SUFFICES ASSUME inLoop PROVE StatsAgree
    BY DEF StatsAgree
  <2>1. /\ self.epoch_stats.attempt_groups = self.epoch_stats.samples_seen
        /\ self.stats.rejected + self.stats.trainable = self.sample_index
    BY DEF AccountInv, PlaceInv, Counted
  <2>2. ASSUME pc = "queues"
        PROVE  LET drift == self.stats.total_groups - self.stats.retries - self.sample_index
               IN 0 <= drift /\ drift <= Loss(restarts)
    <3>1. finished = <<>> /\ Len(<<>>) = 0 /\ Drifted(self, Len(finished), Loss(restarts))
      BY <2>2 DEF AccountInv, PlaceInv
    <3>2. Drifted(self, 0, Loss(restarts))
      BY <3>1
    <3>3. /\ self.sample_index \in Nat /\ self.stats.total_groups \in Nat
          /\ self.stats.retries \in Nat /\ Loss(restarts) \in Nat
      BY LoopTypes, TrainerNumbers DEF IInv
    <3> QED
      BY <3>2, <3>3 DEF Drifted
  <2> QED
    BY <2>1, <2>2 DEF StatsAgree, Loss
<1> QED
  BY <1>1, <1>2, <1>3

\* The account is kept by every step.
LEMMA StepAccount ==
  ASSUME IInv, AccountInv, [Next]_vars, IInv'
  PROVE  AccountInv'
<1>1. TypeOK /\ TypeOK' /\ NoTrainerError'
  BY DEF IInv
<1>2. CASE Start          BY <1>1, <1>2, StartAccount
<1>3. CASE BeginEpoch     BY <1>1, <1>3, BeginEpochAccount
<1>4. CASE BeginQueue     BY <1>1, <1>4, BeginQueueAccount
<1>5. CASE RolloutAttempt BY <1>1, <1>5, RolloutAttemptAccount
<1>6. CASE FinalizeSample BY <1>6, FinalizeSampleAccount
<1>7. CASE SmokeStop      BY <1>7, FinalSaveAccount DEF SmokeStop
<1>8. CASE Finish         BY <1>8, FinalSaveAccount DEF Finish
<1>9. CASE EndEpoch       BY <1>9, EndEpochAccount
<1>10. CASE Restart       BY <1>1, <1>10, RestartAccount
<1>11. CASE Terminated \/ UNCHANGED vars
  BY <1>11, UnchangedAccount DEF Terminated
<1> QED
  BY <1>2, <1>3, <1>4, <1>5, <1>6, <1>7, <1>8, <1>9, <1>10, <1>11 DEF Next, Step

\* The account holds in every state, also of a launch that resumes another.
THEOREM AccountInductive == Spec => []AccountInv
<1>1. Init => AccountInv
  BY InitAccount
<1>2. IInv /\ AccountInv /\ [Next]_vars /\ IInv' => AccountInv'
  BY StepAccount
<1> QED
  BY <1>1, <1>2, Inductive, PTL DEF Spec

\* Wherever launches are killed and resumed, an epoch finalises as many samples as the
\* dataset has, misses fewer than a queue of them for each restart, and the statistics
\* agree with what was finalised.
THEOREM Accounted == Spec => [](SamplesCounted /\ BoundedDisplacement /\ StatsAgree)
<1>1. IInv /\ AccountInv => SamplesCounted /\ BoundedDisplacement /\ StatsAgree
  BY AccountSays
<1> QED
  BY <1>1, Inductive, AccountInductive, PTL

\* And a smoke launch rolls out nothing more after a step that has found the boundary reached.
THEOREM WholeAccount == Spec => []EpochAccount
<1>1. Init => SmokeInv
  BY DEF Init, SmokeInv
<1>2. IInv /\ SmokeInv /\ [Next]_vars /\ IInv' => SmokeInv'
  BY StepSmoke
<1>3. SmokeInv /\ SamplesCounted /\ BoundedDisplacement /\ StatsAgree => EpochAccount
  BY DEF SmokeInv, EpochAccount, SmokeBounded
<1> QED
  BY <1>1, <1>2, <1>3, Inductive, Accounted, PTL DEF Spec

-----------------------------------------------------------------------------
(* The ledger of a launch without retries.                                 *)

\* The ledger f has all epochs before e and the first n samples of e, each once.
InOrder(f, e, n) ==
  \A d \in Epochs, s \in Samples :
    f[<<d, s>>] = IF d < e \/ (d = e /\ s \in Cover(e, n)) THEN 1 ELSE 0

\* A trainer object, or a checkpoint, whose ledger is in the epochs' order.
Ordered(t) == InOrder(t.finalized, t.epoch_stats.epoch, t.epoch_stats.samples_seen)

\* The queue hands out the samples that follow, and does not change their order.
LineInv ==
  LET n == self.epoch_stats.samples_seen
  IN pc \in {"rollout", "finalize"} =>
       /\ next_active = <<>>
       /\ \A i \in 1..Len(finished) : finished[i].sample = Order[epoch][n + i]
       /\ \A i \in 1..Len(active) :
            active[i].sample = Order[epoch][n + Len(finished) + i]

\* The inductive invariant of the order, relative to IInv and AccountInv.
OrderInv == Ordered(self) /\ (disk # NoCheckpoint => Ordered(disk)) /\ LineInv

\* A shuffle has every sample once.
LEMMA OrderOnce ==
  ASSUME NEW e \in Epochs, NEW i \in 1..N
  PROVE  Order[e][i] \in Samples /\ Order[e][i] \notin Cover(e, i - 1)
<1>1. /\ Order[e] \in [1..N -> Samples] /\ \A s \in Samples : \E j \in 1..N : Order[e][j] = s
  BY OrderAssumption
<1> DEFINE o == Order[e]
<1>2. N \in Nat /\ IsFiniteSet(Samples) /\ Cardinality(Samples) = N
  BY DatasetFacts
<1>3. IsFiniteSet(1..N) /\ Cardinality(1..N) = N
  BY <1>2, FS_Interval
<1>4. o \in Surjection(1..N, Samples)
  BY <1>1 DEF Surjection
<1> HIDE DEF o
<1>5. o \in Injection(1..N, Samples)
  BY <1>2, <1>3, <1>4, FS_SurjSameCardinalityImpliesInj
<1>6. \A j \in 1..N : o[j] = o[i] => j = i
  BY <1>5 DEF Injection, IsInjective
<1>7. Order[e][i] \notin Cover(e, i - 1)
  <2>1. \A j \in 1..(i - 1) : j \in 1..N /\ j # i
    BY <1>2
  <2> QED
    BY <1>6, <2>1 DEF Cover, o
<1> QED
  BY <1>1, <1>7

\* The next sample of an epoch extends its beginning.
LEMMA CoverNext ==
  ASSUME NEW e, NEW n \in Nat
  PROVE  Cover(e, n + 1) = Cover(e, n) \cup {Order[e][n + 1]}
<1>1. 1..(n + 1) = 1..n \cup {n + 1}
  OBVIOUS
<1> QED
  BY <1>1 DEF Cover

\* Objects with the same account have the same order.
LEMMA OrderMoves ==
  ASSUME NEW t, NEW u, SameAccount(t, u), Ordered(t)
  PROVE  Ordered(u)
BY DEF SameAccount, Ordered

\* A new trainer has an empty ledger.
LEMMA NewOrdered == Ordered(NewTrainer)
<1>1. /\ NewTrainer.epoch_stats.epoch = 0 /\ NewTrainer.epoch_stats.samples_seen = 0
      /\ NewTrainer.finalized = [k \in Keys |-> 0]
  BY DEF NewTrainer, NewEpochStats
<1>2. \A d \in Epochs, s \in Samples : <<d, s>> \in Keys /\ ~(d < 0)
  BY DatasetFacts DEF Keys
<1>3. Cover(0, 0) = {}
  BY CoverFacts
<1> QED
  BY <1>1, <1>2, <1>3 DEF Ordered, InOrder

\* After the last sample of an epoch the ledger is at the beginning of the next one.
LEMMA NextEpochOrdered ==
  ASSUME NEW t \in Trainers, NEW u, u.finalized = t.finalized,
         t.epoch_stats.samples_seen = N,
         u.epoch_stats.epoch = t.epoch_stats.epoch + 1, u.epoch_stats.samples_seen = 0,
         Ordered(t)
  PROVE  Ordered(u)
<1> DEFINE e == t.epoch_stats.epoch
<1>1. e \in Nat /\ Epochs \subseteq Nat
  BY TrainerNumbers, DatasetFacts
<1>2. Cover(e + 1, 0) = {} /\ (e \in Epochs => Cover(e, N) = Samples)
  BY CoverFacts, DatasetFacts
<1>3. InOrder(t.finalized, e, N)
  BY DEF Ordered
<1> HIDE DEF e
<1>4. InOrder(t.finalized, e + 1, 0)
  <2> SUFFICES ASSUME NEW d \in Epochs, NEW s \in Samples
               PROVE  t.finalized[<<d, s>>]
                        = IF d < e + 1 \/ (d = e + 1 /\ s \in Cover(e + 1, 0)) THEN 1 ELSE 0
    BY DEF InOrder
  <2>1. t.finalized[<<d, s>>] = IF d < e \/ (d = e /\ s \in Cover(e, N)) THEN 1 ELSE 0
    BY <1>3 DEF InOrder
  <2>2. d < e \/ (d = e /\ s \in Cover(e, N)) <=> d < e + 1
    BY <1>1, <1>2
  <2> QED
    BY <1>2, <2>1, <2>2
<1> QED
  BY <1>4 DEF Ordered, e

\* Without retries every attempt decides.
LEMMA NoRetry ==
  ASSUME MaxRetries = 0, NEW group, NEW n \in Nat
  PROVE  AttemptOf(group, n).decision # "retry"
BY Classified

-----------------------------------------------------------------------------
(* Every action keeps the order, and is a step of the ledger.              *)

\* A flush, and what it saves, leave the ledger.
LEMMA FlushAndSaveOrdered ==
  ASSUME IInv, OrderInv, NEW l \in {"epoch", "done"}, FlushAndSave(l)
  PROVE  /\ OrderInv'
         /\ self'.finalized = self.finalized
         /\ disk' # NoCheckpoint /\ disk'.finalized = self.finalized /\ pc' = l
<1>1. TypeOK /\ ConservationInv
  BY DEF IInv
<1>2. self' \in Trainers /\ pc' = l /\ self'.replay_buffer = <<>> /\ disk' \in Checkpoints
  BY <1>1, FlushAndSaveType
<1>3. self' = maybe_optimize(self, TRUE) /\ disk' = checkpoint_trainer_state(self')
  BY <1>2 DEF FlushAndSave
<1>4. SameAccount(self, self')
  <2>1. TRUE \in BOOLEAN
    OBVIOUS
  <2> QED
    BY <1>1, <1>3, <2>1, LoopTypes, OptimizeAccount
<1>5. SameAccount(self', disk')
  BY <1>3, CheckpointAccount
<1>6. Ordered(self') /\ Ordered(disk')
  BY <1>4, <1>5, OrderMoves DEF OrderInv
<1>7. LineInv'
  BY <1>2 DEF LineInv
<1>8. disk' # NoCheckpoint
  BY <1>2, NoCheckpointAssumption
<1> QED
  BY <1>2, <1>4, <1>5, <1>6, <1>7, <1>8 DEF OrderInv, SameAccount

\* Start restores an account in order.
LEMMA StartOrdered ==
  ASSUME TypeOK, AccountInv, OrderInv, Start
  PROVE  OrderInv' /\ self'.finalized = savedLedger
<1> DEFINE t == IF disk = NoCheckpoint THEN NewTrainer ELSE restore_trainer_state(disk)
<1>1. /\ pc = "start" /\ pc' = "first_epoch" /\ disk' = disk
      /\ IF t.epoch_stats.samples_seen >= N
         THEN self' = [t EXCEPT !.epoch_stats = next_epoch(t.epoch_stats)]
         ELSE self' = t
  BY DEF Start
<1>2. t \in Trainers /\ Counted(t)
  BY <1>1, RestoredAccount
<1>3. Ordered(t) /\ t.finalized = savedLedger
  <2>1. CASE disk = NoCheckpoint
    BY <2>1, NewOrdered DEF savedLedger
  <2>2. CASE disk # NoCheckpoint
    <3>1. SameAccount(disk, t)
      BY <2>2, CheckpointAccount
    <3> QED
      BY <2>2, <3>1, OrderMoves DEF OrderInv, savedLedger, SameAccount
  <2> QED
    BY <2>1, <2>2
<1> HIDE DEF t
<1>4. /\ t.epoch_stats \in EpochStats /\ t.epoch_stats.samples_seen \in 0..N
      /\ N \in Nat \ {0}
  BY <1>2, TrainerFields, CountedSeen, DatasetFacts
<1>5. Ordered(self') /\ self'.finalized = savedLedger
  <2>1. CASE t.epoch_stats.samples_seen >= N
    <3> DEFINE s == next_epoch(t.epoch_stats)
    <3>1. s \in EpochStats /\ s.samples_seen = 0 /\ s.epoch = t.epoch_stats.epoch + 1
      BY <1>4, EpochStatsTypes DEF next_epoch, EpochStats
    <3>2. self' = [t EXCEPT !.epoch_stats = s]
      BY <1>1, <2>1
    <3> HIDE DEF s
    <3>3. self'.epoch_stats = s /\ self'.finalized = t.finalized
      BY <1>2, <3>2 DEF Trainers
    <3>4. t.epoch_stats.samples_seen = N
      BY <1>4, <2>1
    <3> QED
      BY <1>2, <1>3, <3>1, <3>3, <3>4, NextEpochOrdered
  <2>2. CASE ~(t.epoch_stats.samples_seen >= N)
    BY <1>1, <1>3, <2>2
  <2> QED
    BY <2>1, <2>2
<1>6. LineInv'
  BY <1>1 DEF LineInv
<1> QED
  BY <1>1, <1>5, <1>6 DEF OrderInv

\* BeginEpoch is at the beginning of its epoch, or where the launch has resumed.
LEMMA BeginEpochOrdered ==
  ASSUME TypeOK, AccountInv, OrderInv, BeginEpoch
  PROVE  OrderInv' /\ self'.finalized = self.finalized
<1> DEFINE s == NewEpochStats(epoch)
<1>1. /\ pc \in {"first_epoch", "epoch"} /\ pc' = "queues" /\ disk' = disk
      /\ self' = IF pc = "first_epoch" /\ self.epoch_stats.samples_seen # 0 THEN self
                 ELSE [self EXCEPT !.epoch_stats = s]
  BY DEF BeginEpoch
<1>2. s.epoch = epoch /\ s.samples_seen = 0
  BY DEF NewEpochStats
<1> HIDE DEF s
<1>3. Ordered(self') /\ self'.finalized = self.finalized
  <2>1. CASE self' = self
    BY <2>1 DEF OrderInv
  <2>2. CASE self' # self
    <3>1. self' = [self EXCEPT !.epoch_stats = s]
      BY <1>1, <2>2
    <3>2. self'.epoch_stats = s /\ self'.finalized = self.finalized
      BY <3>1, LoopTypes DEF Trainers
    <3>3. CASE pc = "first_epoch"
      <4>1. self.epoch_stats.epoch = epoch /\ self.epoch_stats.samples_seen = 0
        BY <1>1, <2>2, <3>3 DEF AccountInv, PlaceInv
      <4> QED
        BY <1>2, <3>2, <4>1 DEF OrderInv, Ordered
    <3>4. CASE pc = "epoch"
      <4>1. epoch = self.epoch_stats.epoch + 1 /\ self.epoch_stats.samples_seen = N
        BY <3>4 DEF AccountInv, PlaceInv
      <4> QED
        BY <1>2, <3>2, <4>1, LoopTypes, NextEpochOrdered DEF OrderInv
    <3> QED
      BY <1>1, <3>3, <3>4
  <2> QED
    BY <2>1, <2>2
<1>4. LineInv'
  BY <1>1 DEF LineInv
<1> QED
  BY <1>1, <1>3, <1>4 DEF OrderInv

\* BeginQueue lines up the samples that follow.
LEMMA BeginQueueOrdered ==
  ASSUME TypeOK, AccountInv, OrderInv, BeginQueue
  PROVE  OrderInv'
<1> DEFINE n == (IF position + QueueSize <= N THEN position + QueueSize ELSE N) - position
<1>1. /\ pc = "queues" /\ position < N /\ pc' = "rollout"
      /\ active' = [i \in 1..n |->
                      [sample |-> Order[epoch][position + i], retry_count |-> 0]]
      /\ next_active' = <<>> /\ finished' = <<>>
      /\ epoch' = epoch /\ self' = self /\ disk' = disk
  BY DEF BeginQueue
<1>2. n \in Nat
  BY <1>1, LoopTypes, ParametersAssumption
<1> HIDE DEF n
<1>3. self.epoch_stats.samples_seen = position
  <2>1. /\ finished = <<>> /\ active = <<>> /\ next_active = <<>> /\ Len(<<>>) = 0
        /\ self.epoch_stats.samples_seen + 0 + 0 + 0 = position
    BY <1>1 DEF AccountInv, PlaceInv, inLoop
  <2> QED
    BY <2>1, LoopTypes, TrainerNumbers
<1>4. /\ Len(active') = n
      /\ \A i \in 1..n : active'[i].sample = Order[epoch][position + i]
  BY <1>1, <1>2, LoopTypes
<1>5. LineInv'
  <2>1. /\ epoch' = epoch /\ self'.epoch_stats.samples_seen = position
        /\ next_active' = <<>> /\ Len(finished') = 0
    BY <1>1, <1>3
  <2>2. \A i \in 1..Len(finished') :
          finished'[i].sample = Order[epoch][position + i]
    BY <2>1
  <2>3. position \in Nat /\ position + 0 = position
    BY LoopTypes
  <2>4. \A i \in 1..Len(active') :
          active'[i].sample = Order[epoch][position + Len(finished') + i]
    BY <1>4, <2>1, <2>3
  <2> QED
    BY <2>1, <2>2, <2>4 DEF LineInv
<1> QED
  BY <1>1, <1>5 DEF OrderInv

\* Without retries RolloutAttempt moves the head of the round to the finished samples.
LEMMA RolloutAttemptOrdered ==
  ASSUME MaxRetries = 0, TypeOK, OrderInv, RolloutAttempt
  PROVE  OrderInv' /\ self'.finalized = self.finalized
<1> DEFINE q == Head(active)
<1>1. /\ active \in Seq(QueuedSamples) /\ finished \in Seq(FinishedSamples) /\ active # <<>>
      /\ self \in Trainers /\ pc = "rollout"
  BY LoopTypes DEF RolloutAttempt
<1>2. /\ q \in QueuedSamples /\ Tail(active) \in Seq(QueuedSamples)
      /\ q = active[1] /\ Len(active) \in Nat \ {0}
      /\ Len(Tail(active)) = Len(active) - 1
      /\ \A i \in 1..Len(Tail(active)) : Tail(active)[i] = active[i + 1]
  BY <1>1, HeadTailProperties, EmptySeq, LenProperties
<1>3. q.retry_count \in Nat
  BY <1>2 DEF QueuedSamples
<1>4. next_active = <<>>
  BY <1>1 DEF OrderInv, LineInv
<1>5. PICK group \in Groups :
        LET attempt == AttemptOf(group, q.retry_count)
        IN /\ finished' = IF attempt.decision = "retry" THEN finished
                          ELSE Append(finished, [sample |-> q.sample,
                                                 retry_count |-> q.retry_count,
                                                 attempt |-> attempt])
           /\ attempt.decision # "retry" =>
                /\ active' = IF Tail(active) = <<>> THEN next_active ELSE Tail(active)
                /\ next_active' = IF Tail(active) = <<>> THEN <<>> ELSE next_active
                /\ self' = [self EXCEPT !.stats = count_attempt(self.stats, FALSE)]
  BY DEF RolloutAttempt
<1> DEFINE attempt == AttemptOf(group, q.retry_count)
<1> DEFINE record == [sample |-> q.sample, retry_count |-> q.retry_count, attempt |-> attempt]
<1>6. attempt.decision # "retry"
  BY <1>3, <1>5, NoRetry
<1>7. /\ finished' = Append(finished, record)
      /\ active' = Tail(active) /\ next_active' = <<>>
      /\ self' = [self EXCEPT !.stats = count_attempt(self.stats, FALSE)]
      /\ epoch' = epoch /\ disk' = disk
  BY <1>4, <1>5, <1>6 DEF RolloutAttempt
<1>8. record.sample = q.sample
  OBVIOUS
<1> HIDE DEF record
<1>9. /\ self'.epoch_stats = self.epoch_stats /\ self'.finalized = self.finalized
  <2> DEFINE st == count_attempt(self.stats, FALSE)
  <2>1. self' = [self EXCEPT !.stats = st]
    BY <1>7
  <2> HIDE DEF st
  <2> QED
    BY <1>1, <2>1 DEF Trainers
<1>10. /\ Len(finished') = Len(finished) + 1 /\ Len(finished) \in Nat
       /\ finished'[Len(finished) + 1] = record
       /\ \A i \in 1..Len(finished) : finished'[i] = finished[i]
  <2> DEFINE R == [sample : {q.sample}, retry_count : {q.retry_count}, attempt : {attempt}]
             S == FinishedSamples \cup R
  <2>1. record \in R
    BY DEF record
  <2> HIDE DEF R, q
  <2>2. record \in S /\ finished \in Seq(S)
    BY <1>1, <2>1
  <2> HIDE DEF S
  <2> QED
    BY <1>7, <2>2, AppendProperties, LenProperties
<1> DEFINE n == self.epoch_stats.samples_seen
           m == Len(finished)
<1>11. /\ \A i \in 1..m : finished[i].sample = Order[epoch][n + i]
       /\ \A i \in 1..Len(active) : active[i].sample = Order[epoch][n + m + i]
  BY <1>1 DEF OrderInv, LineInv
<1>12. n \in Nat
  BY <1>1, TrainerNumbers
<1> HIDE DEF n, m, q
<1>13. \A i \in 1..(m + 1) : finished'[i].sample = Order[epoch][n + i]
  <2>1. n + m + 1 = n + (m + 1) /\ 1 \in 1..Len(active) /\ m \in Nat
    BY <1>2, <1>10, <1>12 DEF m
  <2>2. finished'[m + 1].sample = Order[epoch][n + (m + 1)]
    BY <1>2, <1>8, <1>10, <1>11, <2>1 DEF m
  <2>3. \A i \in 1..m : finished'[i].sample = Order[epoch][n + i]
    BY <1>10, <1>11 DEF m
  <2> QED
    BY <2>1, <2>2, <2>3
<1>14. \A i \in 1..Len(active') : active'[i].sample = Order[epoch][n + (m + 1) + i]
  <2> SUFFICES ASSUME NEW i \in 1..Len(Tail(active))
               PROVE  Tail(active)[i].sample = Order[epoch][n + (m + 1) + i]
    BY <1>7
  <2>1. m \in Nat /\ i + 1 \in 1..Len(active) /\ n + m + (i + 1) = n + (m + 1) + i
    BY <1>2, <1>10, <1>12 DEF m
  <2>2. active[i + 1].sample = Order[epoch][n + m + (i + 1)]
    BY <1>11, <2>1
  <2> QED
    BY <1>2, <2>1, <2>2
<1>15. LineInv'
  BY <1>7, <1>9, <1>10, <1>13, <1>14 DEF LineInv, n, m
<1>16. Ordered(self')
  BY <1>9 DEF OrderInv, Ordered
<1> QED
  BY <1>7, <1>9, <1>15, <1>16 DEF OrderInv


\* Taking the next sample of an epoch.
LEMMA TakenOrdered ==
  ASSUME NEW f \in [Keys -> Nat], NEW e \in Epochs, NEW n \in 0..(N - 1), NEW g,
         InOrder(f, e, n), Added(f, g, e, Order[e][n + 1])
  PROVE  /\ InOrder(g, e, n + 1)
         /\ f[<<e, Order[e][n + 1]>>] = 0
         /\ g = [f EXCEPT ![<<e, Order[e][n + 1]>>] = 1]
         /\ \A d \in Epochs, j \in 1..N :
              d < e \/ (d = e /\ j < n + 1) => f[<<d, Order[d][j]>>] = 1
<1> DEFINE x == Order[e][n + 1]
<1>1. n \in Nat /\ N \in Nat /\ n + 1 \in 1..N /\ (n + 1) - 1 = n
  BY DatasetFacts
<1>2. x \in Samples /\ x \notin Cover(e, n)
  BY <1>1, OrderOnce
<1>3. Cover(e, n + 1) = Cover(e, n) \cup {x}
  BY <1>1, CoverNext
<1>4. e \in Nat /\ Epochs \subseteq Nat /\ \A d \in Epochs, s \in Samples : <<d, s>> \in Keys
  BY DatasetFacts DEF Keys
<1>5. \A d \in Epochs, s \in Samples :
        f[<<d, s>>] = IF d < e \/ (d = e /\ s \in Cover(e, n)) THEN 1 ELSE 0
  BY DEF InOrder
<1>6. \A d \in Epochs, j \in 1..N :
        d < e \/ (d = e /\ j < n + 1) => f[<<d, Order[d][j]>>] = 1
  <2> SUFFICES ASSUME NEW d \in Epochs, NEW j \in 1..N, d < e \/ (d = e /\ j < n + 1)
               PROVE  f[<<d, Order[d][j]>>] = 1
    OBVIOUS
  <2>1. Order[d][j] \in Samples
    BY OrderOnce
  <2>2. CASE d < e
    BY <1>5, <2>1, <2>2
  <2>3. CASE d = e /\ j < n + 1
    <3>1. j \in 1..n
      BY <1>1, <2>3
    <3>2. Order[d][j] \in Cover(e, n)
      BY <2>3, <3>1 DEF Cover
    <3> QED
      BY <1>5, <2>1, <2>3, <3>2
  <2> QED
    BY <2>2, <2>3
<1> HIDE DEF x
<1>7. f[<<e, x>>] = 0
  BY <1>2, <1>4, <1>5
<1>8. g = [f EXCEPT ![<<e, x>>] = 1]
  BY <1>7 DEF Added, x
<1>9. InOrder(g, e, n + 1)
  <2> SUFFICES ASSUME NEW d \in Epochs, NEW s \in Samples
               PROVE  g[<<d, s>>] = IF d < e \/ (d = e /\ s \in Cover(e, n + 1)) THEN 1 ELSE 0
    BY DEF InOrder
  <2>1. g[<<d, s>>] = IF d = e /\ s = x THEN 1 ELSE f[<<d, s>>]
    BY <1>2, <1>4, <1>8
  <2>2. CASE d = e
    <3>1. ~(d < e)
      BY <1>4, <2>2
    <3> QED
      BY <1>3, <1>5, <2>1, <2>2, <3>1
  <2>3. CASE d # e
    BY <1>5, <2>1, <2>3
  <2> QED
    BY <2>2, <2>3
<1> QED
  BY <1>6, <1>7, <1>8, <1>9 DEF x

\* FinalizeSample takes the next sample of the epoch.
LEMMA FinalizeSampleOrdered ==
  ASSUME IInv, AccountInv, OrderInv, FinalizeSample
  PROVE  /\ OrderInv'
         /\ pc # "start" /\ pc' # "start"
         /\ Ledger!Next
<1> DEFINE q == Head(finished)
           t == finalize_sample(self, q)
           rest == Tail(finished)
           n == self.epoch_stats.samples_seen
<1>1. /\ pc = "finalize" /\ finished # <<>>
      /\ self' = maybe_optimize(t, FALSE)
      /\ disk' \in {disk, checkpoint_trainer_state(self')}
      /\ pc' \in {"finalize", "smoke_stop", "queues"}
      /\ finished' = rest
      /\ epoch' = epoch /\ active' = active /\ next_active' = next_active
  BY DEF FinalizeSample
<1>2. /\ self \in Trainers /\ finished \in Seq(FinishedSamples) /\ position \in 0..N
      /\ N \in Nat \ {0} /\ Len(finished) \in Nat
      /\ disk # NoCheckpoint => disk \in Checkpoints
  BY LoopTypes DEF IInv
<1>3. /\ q \in FinishedSamples /\ q = finished[1]
      /\ Len(rest) \in Nat /\ Len(finished) = Len(rest) + 1
      /\ \A i \in 1..Len(rest) : rest[i] = finished[i + 1]
  <2>1. q \in FinishedSamples /\ rest \in Seq(FinishedSamples) /\ q = finished[1]
    BY <1>1, <1>2, HeadTailProperties, EmptySeq
  <2>2. /\ Len(rest) = Len(finished) - 1 /\ Len(rest) \in Nat
        /\ \A i \in 1..Len(rest) : rest[i] = finished[i + 1]
    BY <1>1, <1>2, <2>1, HeadTailProperties, LenProperties
  <2> QED
    BY <1>2, <2>1, <2>2
<1>4. /\ active = <<>> /\ next_active = <<>> /\ Len(<<>>) = 0
      /\ epoch \in Epochs /\ self.epoch_stats.epoch = epoch
      /\ n + 0 + 0 + Len(finished) = position
  BY <1>1 DEF AccountInv, PlaceInv, inLoop
<1>5. /\ Ordered(self) /\ (disk # NoCheckpoint => Ordered(disk))
      /\ \A i \in 1..Len(finished) : finished[i].sample = Order[epoch][n + i]
  BY <1>1 DEF OrderInv, LineInv
<1>6. n \in Nat /\ n \in 0..(N - 1)
  <2>1. n \in Nat /\ position \in 0..N /\ N \in Nat
    BY <1>2, TrainerNumbers
  <2>2. n + 0 + 0 + Len(finished) = position
    BY <1>4
  <2> HIDE DEF n, rest
  <2> QED
    BY <1>3, <2>1, <2>2
<1>7. q.sample = Order[epoch][n + 1]
  <2>1. 1 \in 1..Len(finished)
    BY <1>3
  <2> QED
    BY <1>3, <1>5, <2>1
<1>8. t \in Trainers
  BY <1>2, <1>3, <1>4, FinalizeType
<1>9. OneMore(self, t, epoch, q.sample)
  BY <1>2, <1>3, <1>4, FinalizeAccount
<1>10. SameAccount(t, self')
  <2>1. FALSE \in BOOLEAN
    OBVIOUS
  <2> QED
    BY <1>1, <1>8, <2>1, OptimizeAccount
<1> HIDE DEF q, t, rest, n
<1>11. /\ self'.epoch_stats.epoch = epoch /\ self'.epoch_stats.samples_seen = n + 1
       /\ self'.finalized = t.finalized
       /\ Added(self.finalized, t.finalized, epoch, Order[epoch][n + 1])
  BY <1>4, <1>7, <1>9, <1>10 DEF OneMore, SameAccount, n
<1>12. InOrder(self.finalized, epoch, n)
  BY <1>4, <1>5 DEF Ordered, n
<1>13. self.finalized \in [Keys -> Nat]
  BY <1>2, TrainerFields
<1>14. /\ InOrder(t.finalized, epoch, n + 1)
       /\ self.finalized[<<epoch, Order[epoch][n + 1]>>] = 0
       /\ t.finalized = [self.finalized EXCEPT ![<<epoch, Order[epoch][n + 1]>>] = 1]
       /\ \A d \in Epochs, j \in 1..N :
            d < epoch \/ (d = epoch /\ j < n + 1)
              => self.finalized[<<d, Order[d][j]>>] = 1
  <2> DEFINE f == self.finalized
             g == t.finalized
  <2>1. /\ f \in [Keys -> Nat] /\ epoch \in Epochs /\ n \in 0..(N - 1)
        /\ InOrder(f, epoch, n) /\ Added(f, g, epoch, Order[epoch][n + 1])
    BY <1>4, <1>6, <1>11, <1>12, <1>13
  <2> HIDE DEF f, g
  <2>2. /\ InOrder(g, epoch, n + 1)
        /\ f[<<epoch, Order[epoch][n + 1]>>] = 0
        /\ g = [f EXCEPT ![<<epoch, Order[epoch][n + 1]>>] = 1]
        /\ \A d \in Epochs, j \in 1..N :
             d < epoch \/ (d = epoch /\ j < n + 1) => f[<<d, Order[d][j]>>] = 1
    BY <2>1, TakenOrdered, ZenonT(60)
  <2> QED
    BY <2>2 DEF f, g
<1>15. Ordered(self')
  BY <1>11, <1>14 DEF Ordered
<1>16. /\ disk' = disk \/ /\ disk' # NoCheckpoint /\ SameAccount(self', disk')
                          /\ disk'.finalized = self'.finalized
  <2> SUFFICES ASSUME disk' = checkpoint_trainer_state(self')
               PROVE  /\ disk' # NoCheckpoint /\ SameAccount(self', disk')
                      /\ disk'.finalized = self'.finalized
    BY <1>1
  <2>1. self' \in Trainers
    <3>1. optimize(t, FALSE) \in Trainers
      BY <1>8, OptimizeType
    <3> QED
      BY <1>1, <1>8, <3>1 DEF maybe_optimize
  <2>2. disk' \in Checkpoints
    BY <2>1, CheckpointType
  <2>3. SameAccount(self', disk')
    BY CheckpointAccount
  <2> QED
    BY <2>2, <2>3, NoCheckpointAssumption DEF SameAccount
<1>17. disk' # NoCheckpoint => Ordered(disk')
  BY <1>5, <1>15, <1>16, OrderMoves
<1>18. LineInv'
  <2>1. Len(active') = 0 /\ next_active' = <<>> /\ epoch' = epoch /\ finished' = rest
    BY <1>1, <1>4
  <2>2. ASSUME NEW i \in 1..Len(rest)
        PROVE  rest[i].sample = Order[epoch][(n + 1) + i]
    <3>1. i + 1 \in 1..Len(finished) /\ n + (i + 1) = (n + 1) + i
      BY <1>3, <1>6
    <3>2. finished[i + 1].sample = Order[epoch][n + (i + 1)]
      BY <1>5, <3>1 DEF n
    <3> QED
      BY <1>3, <3>1, <3>2
  <2>3. \A i \in 1..Len(active') : FALSE
    BY <2>1
  <2> QED
    BY <1>11, <2>1, <2>2, <2>3 DEF LineInv
<1>19. n + 1 \in 1..N /\ pc # "start" /\ pc' # "start"
  BY <1>1, <1>2, <1>6
<1>20. Ledger!Take(epoch, n + 1)
  <2>1. savedLedger' \in {savedLedger, self'.finalized}
    BY <1>16 DEF savedLedger
  <2>2. /\ (IF pc = "start" THEN savedLedger ELSE self.finalized) = self.finalized
        /\ (IF pc = "start" THEN savedLedger ELSE self.finalized)' = self'.finalized
    BY <1>19
  <2> DEFINE x == Order[epoch][n + 1]
             led == IF pc = "start" THEN savedLedger ELSE self.finalized
  <2>3. /\ led = self.finalized /\ led' = [led EXCEPT ![<<epoch, x>>] = 1]
        /\ led[<<epoch, x>>] = 0
        /\ savedLedger' \in {savedLedger, led'}
    BY <1>11, <1>14, <2>1, <2>2
  <2>4. \A d \in Ledger!Epochs : \A j \in DOMAIN Order[d] :
          d < epoch \/ (d = epoch /\ j < n + 1) => led[<<d, Order[d][j]>>] = 1
    BY <1>14, <2>3, DatasetFacts DEF Ledger!Epochs, Epochs
  <2> QED
    BY <2>3, <2>4 DEF Ledger!Take
<1>21. Ledger!Next
  <2>1. epoch \in Ledger!Epochs /\ n + 1 \in DOMAIN Order[epoch]
    BY <1>4, <1>19, DatasetFacts DEF Ledger!Epochs, Epochs
  <2> QED
    BY <1>20, <2>1 DEF Ledger!Next
<1> QED
  BY <1>15, <1>17, <1>18, <1>19, <1>21 DEF OrderInv


\* Restarting leaves the checkpoint, whose ledger the next launch goes on with.
LEMMA RestartOrdered ==
  ASSUME OrderInv, Restart
  PROVE  OrderInv' /\ pc' = "start" /\ disk' = disk
<1>1. self' = NewTrainer /\ disk' = disk /\ pc' = "start"
  BY DEF Restart
<1>2. Ordered(self')
  BY <1>1, NewOrdered
<1> QED
  BY <1>1, <1>2 DEF OrderInv, LineInv

\* A step that leaves ledger and checkpoint is a stutter, one that saves is a save.
LEMMA KeptOrSaved ==
  ASSUME pc # "start", pc' # "start", self'.finalized = self.finalized,
         disk' = disk \/ (disk' # NoCheckpoint /\ disk'.finalized = self.finalized)
  PROVE  [Ledger!Next]_Ledger!vars
<1> DEFINE led == IF pc = "start" THEN savedLedger ELSE self.finalized
<1>1. led = self.finalized /\ led' = self.finalized
  OBVIOUS
<1>2. savedLedger' \in {savedLedger, self.finalized}
  BY DEF savedLedger
<1>3. CASE savedLedger' = savedLedger
  BY <1>1, <1>3 DEF Ledger!vars
<1>4. CASE savedLedger' = self.finalized
  BY <1>1, <1>4 DEF Ledger!Next, Ledger!Save
<1> QED
  BY <1>2, <1>3, <1>4

\* Where the ledger becomes the saved one, it resumes.
LEMMA Resumed ==
  ASSUME savedLedger' = savedLedger,
         (IF pc = "start" THEN savedLedger ELSE self.finalized)' = savedLedger
  PROVE  [Ledger!Next]_Ledger!vars
BY DEF Ledger!Next, Ledger!Resume

\* Every step keeps the order and is a step of the ledger, or none.
LEMMA StepOrdered ==
  ASSUME MaxRetries = 0, IInv, AccountInv, OrderInv, [Next]_vars
  PROVE  OrderInv' /\ [Ledger!Next]_Ledger!vars
<1>1. TypeOK
  BY DEF IInv
<1>2. CASE Start
  <2>1. OrderInv' /\ self'.finalized = savedLedger
    BY <1>1, <1>2, StartOrdered
  <2>2. pc' = "first_epoch" /\ disk' = disk
    BY <1>2 DEF Start
  <2>3. /\ savedLedger' = savedLedger
        /\ (IF pc = "start" THEN savedLedger ELSE self.finalized)' = savedLedger
    BY <2>1, <2>2 DEF savedLedger
  <2> QED
    BY <2>1, <2>3, Resumed
<1>3. CASE BeginEpoch
  <2>1. OrderInv' /\ self'.finalized = self.finalized
    BY <1>1, <1>3, BeginEpochOrdered
  <2>2. pc # "start" /\ pc' # "start" /\ disk' = disk
    BY <1>3 DEF BeginEpoch
  <2> QED
    BY <2>1, <2>2, KeptOrSaved
<1>4. CASE BeginQueue
  <2>1. OrderInv'
    BY <1>1, <1>4, BeginQueueOrdered
  <2>2. pc # "start" /\ pc' # "start" /\ disk' = disk /\ self' = self
    BY <1>4 DEF BeginQueue
  <2> QED
    BY <2>1, <2>2, KeptOrSaved
<1>5. CASE RolloutAttempt
  <2>1. OrderInv' /\ self'.finalized = self.finalized
    BY <1>1, <1>5, RolloutAttemptOrdered
  <2>2. pc # "start" /\ pc' # "start" /\ disk' = disk
    BY <1>5 DEF RolloutAttempt
  <2> QED
    BY <2>1, <2>2, KeptOrSaved
<1>6. CASE FinalizeSample
  BY <1>6, FinalizeSampleOrdered
<1>7. CASE SmokeStop \/ Finish
  <2>1. FlushAndSave("done") /\ pc # "start"
    BY <1>7 DEF SmokeStop, Finish
  <2> QED
    BY <2>1, FlushAndSaveOrdered, KeptOrSaved
<1>8. CASE EndEpoch
  <2>1. pc # "start"
    BY <1>8 DEF EndEpoch
  <2>2. CASE SaveEveryEpoch
    <3>1. FlushAndSave("epoch")
      BY <1>8, <2>2 DEF EndEpoch
    <3> QED
      BY <2>1, <3>1, FlushAndSaveOrdered, KeptOrSaved
  <2>3. CASE ~SaveEveryEpoch
    <3>1. pc' = "epoch" /\ self' = self /\ disk' = disk
      BY <1>8, <2>3 DEF EndEpoch
    <3>2. OrderInv'
      BY <3>1 DEF OrderInv, LineInv
    <3> QED
      BY <2>1, <3>1, <3>2, KeptOrSaved
  <2> QED
    BY <2>2, <2>3
<1>9. CASE Restart
  <2>1. OrderInv' /\ pc' = "start" /\ disk' = disk
    BY <1>9, RestartOrdered
  <2>2. /\ savedLedger' = savedLedger
        /\ (IF pc = "start" THEN savedLedger ELSE self.finalized)' = savedLedger
    BY <2>1 DEF savedLedger
  <2> QED
    BY <2>1, <2>2, Resumed
<1>10. CASE Terminated \/ UNCHANGED vars
  <2>1. /\ pc' = pc /\ self' = self /\ disk' = disk /\ epoch' = epoch /\ active' = active
        /\ next_active' = next_active /\ finished' = finished
    BY <1>10 DEF Terminated, vars
  <2>2. OrderInv'
    BY <2>1 DEF OrderInv, LineInv
  <2>3. UNCHANGED Ledger!vars
    BY <2>1 DEF Ledger!vars, savedLedger
  <2> QED
    BY <2>2, <2>3
<1> QED
  BY <1>2, <1>3, <1>4, <1>5, <1>6, <1>7, <1>8, <1>9, <1>10 DEF Next, Step

\* A launch from nothing begins with the empty ledger.
LEMMA InitOrdered == Init => OrderInv /\ Ledger!Init
<1> SUFFICES ASSUME Init PROVE OrderInv /\ Ledger!Init
  OBVIOUS
<1>1. pc = "start" /\ self = NewTrainer /\ disk = NoCheckpoint
  BY DEF Init
<1>2. OrderInv
  BY <1>1, NewOrdered DEF OrderInv, LineInv
<1>3. NewTrainer.finalized = [k \in Ledger!Epochs \X Samples |-> 0]
  BY DEF NewTrainer, Keys, Epochs, Ledger!Epochs
<1> QED
  BY <1>1, <1>2, <1>3 DEF Ledger!Init, savedLedger

\* Without retries the trainer implements the ledger: every sample of every epoch is
\* finalised once and in the shuffled order, wherever launches are killed and resumed.
THEOREM Refinement == ASSUME MaxRetries = 0 PROVE Spec => ImplementsLedger
<1>1. Init => OrderInv /\ Ledger!Init
  BY InitOrdered
<1>2. IInv /\ AccountInv /\ OrderInv /\ [Next]_vars => OrderInv' /\ [Ledger!Next]_Ledger!vars
  BY StepOrdered
<1> QED
  BY <1>1, <1>2, Inductive, AccountInductive, PTL DEF Spec, ImplementsLedger, Ledger!Spec

=============================================================================
