---- MODULE SFTTrainerProofs ----
(***************************************************************************)
(* Proofs about SFTTrainer, for every number of replicas, samples and      *)
(* epochs, every batch size and every shuffle: types, the step counter     *)
(* against the place in the data, no sample taken twice in an epoch that   *)
(* was not resumed within, no checkpoint after a hard failure, and, when   *)
(* no save goes by the clock, replicas that meet in the same collectives.  *)
(***************************************************************************)
EXTENDS SFTTrainer, FiniteSetTheorems, FunctionTheorems, WellFoundedInduction, TLAPS

-----------------------------------------------------------------------------
(* Shards, batches and epochs.                                             *)

LEMMA ShardSize ==
  ASSUME NEW r \in Ranks
  PROVE  shard_size(r) \in Nat
<1> DEFINE n == samples - r + dp_size - 1
<1>1. n \in Nat /\ dp_size \in Nat \ {0}
  BY SFTAssumption DEF Ranks
<1> HIDE DEF n
<1>2. n \div dp_size \in Nat
  BY <1>1
<1> QED
  BY <1>2 DEF n, shard_size

LEMMA BatchSize == effective_batch_size \in Nat \ {0}
<1>1. MicroSize \in Nat /\ MicroSize > 0 /\ MicroBatches \in Nat /\ MicroBatches > 0
  BY SFTAssumption
<1>2. MicroSize * MicroBatches \in Nat /\ MicroSize * MicroBatches > 0
  BY <1>1
<1> QED
  BY <1>2 DEF effective_batch_size

\* A set of natural numbers has a least one.
LEMMA Least ==
  ASSUME NEW S, S \subseteq Nat, S # {}
  PROVE  \E n \in S : \A m \in S : n <= m
<1>1. PICK n \in S : \A m \in S : <<m, n>> \notin OpToRel(<, Nat)
  BY NatLessThanWellFounded, WFMin
<1>2. \A m \in S : ~(m < n)
  BY <1>1 DEF OpToRel
<1> QED
  BY <1>2

\* The batches of an epoch fit into every shard.
LEMMA EpochBatches ==
  /\ epoch_batches \in Nat
  /\ \A r \in Ranks : epoch_batches * effective_batch_size <= shard_size(r)
<1> DEFINE S == {shard_size(r) \div effective_batch_size : r \in Ranks}
<1>1. \A r \in Ranks : shard_size(r) \in Nat /\ effective_batch_size \in Nat \ {0}
  BY ShardSize, BatchSize
<1>2. \A r \in Ranks : shard_size(r) \div effective_batch_size \in Nat
  BY <1>1
<1>3. 0 \in Ranks
  BY SFTAssumption DEF Ranks
<1>4. S \subseteq Nat /\ S # {}
  BY <1>2, <1>3
<1>5. epoch_batches = CHOOSE n \in S : \A m \in S : n <= m
  BY DEF epoch_batches
<1> HIDE DEF S
<1>6. epoch_batches \in S /\ \A m \in S : epoch_batches <= m
  BY <1>4, <1>5, Least
<1>7. epoch_batches \in Nat
  BY <1>4, <1>6
<1>8. ASSUME NEW r \in Ranks PROVE epoch_batches * effective_batch_size <= shard_size(r)
  <2> DEFINE b == epoch_batches
             g == effective_batch_size
             n == shard_size(r)
             d == n \div g
  <2>1. b \in Nat /\ d \in Nat /\ b <= d /\ g \in Nat \ {0} /\ n \in Nat
    BY <1>1, <1>2, <1>6, <1>7 DEF S
  <2>2. d * g <= n
    <3> HIDE DEF n, g
    <3> QED
      BY <2>1
  <2> HIDE DEF b, d, g, n
  <2>3. PICK c \in Nat : d = b + c
    <3>1. d - b \in Nat /\ d = b + (d - b)
      BY <2>1
    <3> QED
      BY <3>1
  <2>4. (b + c) * g = b * g + c * g /\ c * g \in Nat /\ b * g \in Nat
    BY <2>1, <2>3
  <2>5. b * g <= n
    BY <2>1, <2>2, <2>3, <2>4
  <2> QED
    BY <2>5 DEF b, g, n
<1> QED
  BY <1>7, <1>8

\* The places of a batch.
LEMMA BatchFits ==
  ASSUME NEW r \in Ranks, NEW b \in Nat, b <= epoch_batches
  PROVE  LET g == effective_batch_size
         IN /\ b * g \in Nat /\ g \in Nat \ {0} /\ b * g <= shard_size(r)
            /\ (b + 1) * g = b * g + g
            /\ b < epoch_batches => b * g + g <= shard_size(r)
<1> DEFINE g == effective_batch_size
           n == epoch_batches
           k == shard_size(r)
<1>1. n \in Nat /\ g \in Nat \ {0} /\ k \in Nat /\ n * g <= k /\ b \in Nat /\ b <= n
  BY EpochBatches, BatchSize, ShardSize
<1> HIDE DEF g, n, k
<1>2. b * g \in Nat /\ (b + 1) * g = b * g + g
  BY <1>1
<1>3. PICK c \in Nat : n = b + c
  <2>1. n - b \in Nat /\ n = b + (n - b)
    BY <1>1
  <2> QED
    BY <2>1
<1>4. n * g = b * g + c * g /\ c * g \in Nat
  BY <1>1, <1>3
<1>5. b < n => c >= 1 /\ c * g >= g
  <2> SUFFICES ASSUME b < n PROVE c >= 1 /\ c * g >= g
    OBVIOUS
  <2>1. c >= 1 /\ c - 1 \in Nat
    BY <1>1, <1>3
  <2>2. c * g = (c - 1) * g + g /\ (c - 1) * g \in Nat
    BY <1>1, <2>1
  <2> QED
    BY <1>1, <2>1, <2>2
<1>6. b * g <= k /\ (b < n => b * g + g <= k)
  BY <1>1, <1>2, <1>4, <1>5
<1> QED
  BY <1>1, <1>2, <1>6 DEF g, n, k

LEMMA EpochSteps ==
  ASSUME NEW e \in Nat
  PROVE  /\ e * epoch_batches \in Nat /\ (e + 1) * epoch_batches = e * epoch_batches + epoch_batches
         /\ 0 * epoch_batches = 0
<1>1. epoch_batches \in Nat
  BY EpochBatches
<1> QED
  BY <1>1

\* A shuffle permutes the places of a shard.
LEMMA Permutation ==
  ASSUME NEW r \in Ranks, NEW e \in Epochs
  PROVE  LET s == Shuffle[e][shard_size(r)]
         IN /\ \A i \in Places(r) : s[i] \in Places(r)
            /\ \A i, j \in Places(r) : s[i] = s[j] => i = j
<1> DEFINE s == Shuffle[e][shard_size(r)]
           S == Places(r)
           f == [i \in S |-> s[i]]
<1>1. {s[i] : i \in S} = S
  BY ShuffleAssumption
<1>2. IsFiniteSet(S)
  BY ShardSize, FS_Interval DEF Places
<1> HIDE DEF s, S
<1>3. f \in [S -> S] /\ \A i \in S : f[i] = s[i]
  BY <1>1
<1>4. f \in Surjection(S, S)
  <2>1. \A t \in S : \E i \in S : f[i] = t
    BY <1>1, <1>3
  <2> QED
    BY <1>3, <2>1 DEF Surjection
<1>5. f \in Injection(S, S)
  BY <1>2, <1>4, FS_SurjSameCardinalityImpliesInj
<1>6. \A i, j \in S : f[i] = f[j] => i = j
  BY <1>5 DEF Injection, IsInjective
<1>7. /\ \A i \in S : s[i] \in S
      /\ \A i, j \in S : s[i] = s[j] => i = j
  BY <1>1, <1>3, <1>6
<1> QED
  BY <1>7 DEF s, S

\* The list of a rank, as a sequence.
LEMMA ListLength ==
  ASSUME NEW r \in Ranks, NEW f \in [Places(r) -> Places(r)]
  PROVE  Len(f) = shard_size(r)
<1>1. shard_size(r) \in Nat /\ f \in [1..shard_size(r) -> Places(r)]
  BY ShardSize DEF Places
<1> QED
  BY <1>1

-----------------------------------------------------------------------------
(* The inductive invariant.                                                *)

\* The functions of which TypeOK says only what they are at each rank.
TypeInv == TypeOK /\ DOMAIN tokenized = Ranks /\ DOMAIN trained = Ranks

AtHead == {"epoch", "count", "save_final"}
InBody == {"batch", "sync", "gather", "save_step", "save_smoke", "save_epoch"}

\* The batches of its epoch behind which a rank at the head of the epoch loop goes on.
resumed_batches(r) == IF epoch[r] = resume_at[r].epoch THEN resume_at[r].batch_idx ELSE 0

\* A resume position is within the epochs and batches that there are.
PositionOK(at) ==
  /\ at.epoch \in 0..MaxEpochs /\ at.batch_idx \in 0..epoch_batches
  /\ at.epoch = MaxEpochs => at.batch_idx = 0

\* The step counter of a rank against its place in the data.
HeadOf(r) ==
  /\ pc[r] = "start" => epoch[r] = 0 /\ global_step[r] = 0 /\ batch_idx[r] = 0
  /\ pc[r] = "start" => resume_at[r] = [epoch |-> 0, batch_idx |-> 0]
  /\ pc[r] \in AtHead \cup InBody =>
       resume_at[r].epoch <= epoch[r] /\ PositionOK(resume_at[r])
  /\ pc[r] \in AtHead => global_step[r] = epoch[r] * epoch_batches + resumed_batches(r)
  /\ pc[r] = "count" => n_batches[r] = local_batches(r) /\ epoch[r] < MaxEpochs
  /\ pc[r] = "save_final" => epoch[r] = MaxEpochs

BodyOf(r) ==
  pc[r] \in InBody =>
    /\ n_batches[r] = epoch_batches /\ epoch[r] < MaxEpochs
    /\ pc[r] \in {"batch", "sync", "gather", "save_epoch"} =>
         global_step[r] = epoch[r] * epoch_batches + batch_idx[r]
    /\ pc[r] \in {"save_step", "save_smoke"} =>
         global_step[r] = epoch[r] * epoch_batches + (batch_idx[r] + 1)
    /\ pc[r] = "batch" => batch_idx[r] <= epoch_batches
    /\ pc[r] \in {"sync", "gather", "save_step", "save_smoke"} => batch_idx[r] < epoch_batches
    /\ pc[r] = "save_epoch" => batch_idx[r] = epoch_batches

\* The step at which a smoke launch has begun.
first_step(r) == IF disk = NoCheckpoint THEN 0 ELSE disk[r].global_step

SmokeOf(r) ==
  smoke =>
    /\ pc[r] # "save_step"
    /\ pc[r] \in {"epoch", "count", "batch", "sync", "gather", "save_epoch"} =>
         global_step[r] = first_step(r)

\* A rank that has raised has left the loop.
RaisedOf(r) == skips[r] > 0 /\ ~AllowSkip => pc[r] \in {"close", "failed", "killed"}

\* Each place is in the list once.
Permuted(r, list) ==
  /\ list \in [Places(r) -> Places(r)]
  /\ \A i, j \in Places(r) : list[i] = list[j] => i = j

\* The list of the first epoch, whenever it is resumed.
first_list(r) == [i \in Places(r) |-> Shuffle[0][shard_size(r)][i]]

Never(r) == [s \in Places(r) |-> 0]

\* The samples of the first n batches of a list have been taken once, the others never.
Once(r, times, list, n) ==
  \A s \in Places(r) :
    times[s] = IF \E i \in 1..(n * effective_batch_size) : list[i] = s THEN 1 ELSE 0

Counted(r, t) == \A e \in Epochs, s \in Places(r) : t[e][s] > 1 => e \in resumed \ {0}

ListOf(r) ==
  /\ Permuted(r, tokenized[r])
  /\ pc[r] = "start" => tokenized[r] = FileOrder(r)
  /\ pc[r] = "epoch" /\ epoch[r] = 0 => tokenized[r] = FileOrder(r)
  /\ pc[r] \in {"count"} \cup InBody /\ epoch[r] = 0 => tokenized[r] = first_list(r)

\* The samples that a rank has taken: none of the epochs to come, and of the one it is in
\* those of the batches behind it.
SamplesOf(r) ==
  /\ Counted(r, trained[r])
  /\ pc[r] = "start" => trained[r] = NeverTrained(r)
  /\ pc[r] \in AtHead \cup InBody =>
       \A e \in Epochs : e > epoch[r] => trained[r][e] = Never(r)
  /\ pc[r] \in {"epoch", "count"} /\ epoch[r] < MaxEpochs =>
       \/ epoch[r] \in resumed \ {0}
       \/ epoch[r] = 0 /\ Once(r, trained[r][0], first_list(r), resumed_batches(r))
       \/ trained[r][epoch[r]] = Never(r) /\ resumed_batches(r) = 0
  /\ pc[r] \in {"batch", "sync"} /\ epoch[r] \notin resumed \ {0} =>
       Once(r, trained[r][epoch[r]], tokenized[r], batch_idx[r])
  /\ pc[r] \in {"gather", "save_step", "save_smoke"} /\ epoch[r] \notin resumed \ {0} =>
       Once(r, trained[r][epoch[r]], tokenized[r], batch_idx[r] + 1)

RankInv(r) ==
  HeadOf(r) /\ BodyOf(r) /\ SmokeOf(r) /\ RaisedOf(r) /\ ListOf(r) /\ SamplesOf(r)

\* What a launch makes of a rank's shard of a checkpoint.
ShardOf(r, c) ==
  LET at == resume_position(c)
  IN /\ c.epoch \in Epochs /\ PositionOK(at)
     /\ c.global_step = at.epoch * epoch_batches + at.batch_idx
     /\ Counted(r, c.trained)
     /\ \A e \in Epochs : e > at.epoch => c.trained[e] = Never(r)
     /\ c.is_epoch_end /\ at.epoch < MaxEpochs => c.trained[at.epoch] = Never(r)
     /\ ~c.is_epoch_end /\ at.epoch = 0 => Once(r, c.trained[0], first_list(r), at.batch_idx)

DiskInv == disk # NoCheckpoint => \A r \in Ranks : ShardOf(r, disk[r])

Inv == TypeInv /\ DiskInv /\ \A r \in Ranks : RankInv(r)

-----------------------------------------------------------------------------
(* What the invariant says of one rank, and what leaves it alone.          *)

LEMMA OfRank ==
  ASSUME Inv, NEW r \in Ranks
  PROVE  /\ pc[r] \in Labels /\ epoch[r] \in 0..MaxEpochs /\ epoch[r] \in Nat
         /\ MaxEpochs \in Nat \ {0}
         /\ resume_at[r].epoch \in 0..MaxEpochs /\ resume_at[r].batch_idx \in Nat
         /\ n_batches[r] \in Nat /\ batch_idx[r] \in Nat /\ valid[r] \in 0..MicroBatches
         /\ global_step[r] \in Nat /\ skips[r] \in Nat
         /\ tokenized[r] \in [Places(r) -> Places(r)]
         /\ trained[r] \in [Epochs -> [Places(r) -> Nat]]
         /\ epoch_batches \in Nat
         /\ HeadOf(r) /\ BodyOf(r) /\ SmokeOf(r) /\ RaisedOf(r) /\ ListOf(r) /\ SamplesOf(r)
<1>1. MaxEpochs \in Nat \ {0} /\ epoch_batches \in Nat
  BY SFTAssumption, EpochBatches
<1>2. /\ pc[r] \in Labels /\ epoch[r] \in 0..MaxEpochs
      /\ resume_at[r] \in [epoch : 0..MaxEpochs, batch_idx : Nat]
      /\ n_batches[r] \in Nat /\ batch_idx[r] \in Nat /\ valid[r] \in 0..MicroBatches
      /\ global_step[r] \in Nat /\ skips[r] \in Nat
      /\ tokenized[r] \in [Places(r) -> Places(r)]
      /\ trained[r] \in [Epochs -> [Places(r) -> Nat]]
  BY DEF Inv, TypeInv, TypeOK
<1>3. RankInv(r)
  BY DEF Inv
<1> QED
  BY <1>1, <1>2, <1>3 DEF RankInv

LEMMA CountedKept ==
  ASSUME NEW r \in Ranks, NEW t, Counted(r, t), resumed \subseteq resumed'
  PROVE  Counted(r, t)'
BY DEF Counted

LEMMA RankKept ==
  ASSUME NEW r \in Ranks, RankInv(r),
         pc'[r] = pc[r], epoch'[r] = epoch[r], resume_at'[r] = resume_at[r],
         tokenized'[r] = tokenized[r], n_batches'[r] = n_batches[r],
         batch_idx'[r] = batch_idx[r], global_step'[r] = global_step[r],
         skips'[r] = skips[r], trained'[r] = trained[r],
         smoke' = smoke, disk' = disk, resumed \subseteq resumed'
  PROVE  RankInv(r)'
<1>1. HeadOf(r)'
  BY DEF RankInv, HeadOf, resumed_batches, PositionOK, local_batches
<1>2. BodyOf(r)'
  BY DEF RankInv, BodyOf
<1>3. SmokeOf(r)' /\ RaisedOf(r)'
  BY DEF RankInv, SmokeOf, RaisedOf, first_step
<1>4. ListOf(r)'
  BY DEF RankInv, ListOf, Permuted, FileOrder, first_list
<1>5. SamplesOf(r)'
  BY DEF RankInv, SamplesOf, Counted, Once, Never, resumed_batches, first_list, NeverTrained
<1> QED
  BY <1>1, <1>2, <1>3, <1>4, <1>5 DEF RankInv

LEMMA DiskKept ==
  ASSUME DiskInv, disk' = disk, resumed \subseteq resumed'
  PROVE  DiskInv'
<1>1. ASSUME NEW r \in Ranks, ShardOf(r, disk[r])
      PROVE  ShardOf(r, disk[r])'
  BY <1>1 DEF ShardOf, PositionOK, Counted, Once, Never, first_list
<1> QED
  BY <1>1 DEF DiskInv

\* A step of rank r on its own.
Alone(r) ==
  /\ smoke' = smoke /\ disk' = disk /\ resumed \subseteq resumed'
  /\ \A q \in Ranks : q # r =>
       /\ pc'[q] = pc[q] /\ epoch'[q] = epoch[q] /\ resume_at'[q] = resume_at[q]
       /\ tokenized'[q] = tokenized[q] /\ n_batches'[q] = n_batches[q]
       /\ batch_idx'[q] = batch_idx[q] /\ global_step'[q] = global_step[q]
       /\ skips'[q] = skips[q] /\ trained'[q] = trained[q]

LEMMA AloneStep ==
  ASSUME Inv, NEW r \in Ranks, Alone(r), TypeInv', RankInv(r)'
  PROVE  Inv'
<1>1. DiskInv'
  BY DiskKept DEF Inv, Alone
<1>2. ASSUME NEW q \in Ranks PROVE RankInv(q)'
  <2>1. CASE q = r
    BY <2>1
  <2>2. CASE q # r
    BY <2>2, RankKept DEF Inv, Alone
  <2> QED
    BY <2>1, <2>2
<1> QED
  BY <1>1, <1>2 DEF Inv

-----------------------------------------------------------------------------
(* The steps of one rank.                                                  *)

LEMMA ShuffledList ==
  ASSUME NEW r \in Ranks, NEW e \in Epochs, NEW list, Permuted(r, list),
         NEW s, s = [i \in Places(r) |-> list[Shuffle[e][shard_size(r)][i]]]
  PROVE  Permuted(r, s)
<1>1. /\ \A i \in Places(r) : Shuffle[e][shard_size(r)][i] \in Places(r)
      /\ \A i, j \in Places(r) :
           Shuffle[e][shard_size(r)][i] = Shuffle[e][shard_size(r)][j] => i = j
  BY Permutation
<1>2. \A i \in Places(r) : s[i] = list[Shuffle[e][shard_size(r)][i]]
  OBVIOUS
<1>3. s \in [Places(r) -> Places(r)]
  BY <1>1 DEF Permuted
<1> QED
  BY <1>1, <1>2, <1>3 DEF Permuted

LEMMA StartStep ==
  ASSUME Inv, NEW r \in Ranks, Start(r)
  PROVE  Inv'
<1>1. pc[r] = "start"
  BY DEF Start
<1>2. /\ epoch[r] = 0 /\ global_step[r] = 0 /\ resume_at[r] = [epoch |-> 0, batch_idx |-> 0]
      /\ tokenized[r] = FileOrder(r) /\ trained[r] = NeverTrained(r) /\ Permuted(r, tokenized[r])
      /\ MaxEpochs \in Nat \ {0} /\ epoch_batches \in Nat
      /\ ~(skips[r] > 0 /\ ~AllowSkip)
  BY <1>1, OfRank DEF HeadOf, ListOf, SamplesOf, RaisedOf
<1>3. /\ pc' = [pc EXCEPT ![r] = "epoch"]
      /\ UNCHANGED <<smoke, tokenized, n_batches, batch_idx, valid, skips, disk, final, restarts>>
  BY DEF Start, goto
<1>4. pc' \in [Ranks -> Labels] /\ pc'[r] = "epoch" /\ \A q \in Ranks : q # r => pc'[q] = pc[q]
  BY <1>3 DEF Inv, TypeInv, TypeOK, Labels
<1>5. ListOf(r)' /\ BodyOf(r)' /\ RaisedOf(r)'
  <2>1. ListOf(r)'
    BY <1>2, <1>3, <1>4 DEF ListOf, Permuted, FileOrder, InBody
  <2>2. BodyOf(r)' /\ RaisedOf(r)'
    BY <1>2, <1>3, <1>4 DEF BodyOf, RaisedOf, InBody
  <2> QED
    BY <2>1, <2>2
<1>6. CASE disk = NoCheckpoint
  <2>1. UNCHANGED <<epoch, resume_at, global_step, trained, resumed>>
    BY <1>6 DEF Start
  <2>2. TypeInv'
    BY <1>3, <1>4, <2>1 DEF Inv, TypeInv, TypeOK, Checkpoints
  <2>3. HeadOf(r)'
    <3>1. global_step[r] = epoch[r] * epoch_batches + resumed_batches(r)
      BY <1>2, EpochSteps DEF resumed_batches
    <3>2. PositionOK(resume_at[r])
      BY <1>2 DEF PositionOK
    <3> QED
      BY <1>2, <1>4, <2>1, <3>1, <3>2 DEF HeadOf, AtHead, InBody, resumed_batches, PositionOK
  <2>4. SmokeOf(r)'
    BY <1>2, <1>3, <1>4, <1>6, <2>1 DEF SmokeOf, first_step
  <2>5. SamplesOf(r)'
    <3>1. Counted(r, trained[r])
      BY OfRank DEF SamplesOf
    <3>2. \A e \in Epochs : trained[r][e] = Never(r)
      BY <1>2 DEF NeverTrained, Never
    <3>3. 0 \in Epochs /\ resumed_batches(r) = 0
      BY <1>2 DEF Epochs, resumed_batches
    <3> QED
      BY <1>2, <1>4, <2>1, <3>1, <3>2, <3>3
      DEF SamplesOf, Counted, Never, resumed_batches, InBody, AtHead
  <2>6. Alone(r)
    BY <1>3, <1>4, <2>1 DEF Alone
  <2> QED
    BY <1>5, <2>2, <2>3, <2>4, <2>5, <2>6, AloneStep DEF RankInv
<1>7. CASE disk # NoCheckpoint
  <2> DEFINE c == disk[r]
             at == resume_position(c)
  <2>1. /\ resume_at' = [resume_at EXCEPT ![r] = at]
        /\ epoch' = [epoch EXCEPT ![r] = at.epoch]
        /\ global_step' = [global_step EXCEPT ![r] = c.global_step]
        /\ trained' = [trained EXCEPT ![r] = c.trained]
        /\ resumed' = IF c.is_epoch_end THEN resumed ELSE resumed \cup {c.epoch}
    BY <1>7 DEF Start
  <2>2. c \in Checkpoints(r) /\ ShardOf(r, c)
    BY <1>7 DEF Inv, TypeInv, TypeOK, DiskInv
  <2>3. /\ c.epoch \in Epochs /\ c.is_epoch_end \in BOOLEAN /\ c.global_step \in Nat
        /\ c.trained \in [Epochs -> [Places(r) -> Nat]]
    BY <2>2 DEF Checkpoints, ShardOf
  <2>4. /\ at.epoch \in 0..MaxEpochs /\ at.batch_idx \in 0..epoch_batches
        /\ at.epoch = MaxEpochs => at.batch_idx = 0
        /\ c.global_step = at.epoch * epoch_batches + at.batch_idx
    BY <2>2 DEF ShardOf, PositionOK
  <2>5. /\ c.is_epoch_end => at.batch_idx = 0
        /\ ~c.is_epoch_end => at.epoch = c.epoch
        /\ at \in [epoch : 0..MaxEpochs, batch_idx : Nat]
    <3>1. /\ c.is_epoch_end => at = [epoch |-> c.epoch + 1, batch_idx |-> 0]
          /\ ~c.is_epoch_end => at = [epoch |-> c.epoch, batch_idx |-> c.batch_idx + 1]
      BY DEF resume_position
    <3>2. at.batch_idx \in Nat
      BY <2>4, <1>2
    <3> QED
      BY <2>3, <2>4, <3>1, <3>2
  <2> HIDE DEF at
  <2>6. /\ resume_at'[r] = at /\ epoch'[r] = at.epoch /\ global_step'[r] = c.global_step
        /\ trained'[r] = c.trained
        /\ \A q \in Ranks : q # r =>
             /\ resume_at'[q] = resume_at[q] /\ epoch'[q] = epoch[q]
             /\ global_step'[q] = global_step[q] /\ trained'[q] = trained[q]
        /\ DOMAIN trained' = Ranks
    BY <2>1 DEF Inv, TypeInv, TypeOK
  <2>7. resumed' \subseteq Epochs /\ resumed \subseteq resumed'
    BY <2>1, <2>3 DEF Inv, TypeInv, TypeOK
  <2>8. TypeInv'
    <3>1. /\ epoch' \in [Ranks -> 0..MaxEpochs] /\ global_step' \in [Ranks -> Nat]
          /\ resume_at' \in [Ranks -> [epoch : 0..MaxEpochs, batch_idx : Nat]]
      BY <2>1, <2>3, <2>4, <2>5 DEF Inv, TypeInv, TypeOK
    <3>2. \A q \in Ranks : trained'[q] \in [Epochs -> [Places(q) -> Nat]]
      BY <2>3, <2>6, OfRank
    <3> QED
      BY <1>3, <1>4, <2>6, <2>7, <3>1, <3>2 DEF Inv, TypeInv, TypeOK, Checkpoints
  <2>9. HeadOf(r)'
    <3>1. resumed_batches(r)' = at.batch_idx
      BY <2>6 DEF resumed_batches
    <3>2. PositionOK(at)
      BY <2>4 DEF PositionOK
    <3> QED
      BY <1>4, <2>3, <2>4, <2>6, <3>1, <3>2 DEF HeadOf, AtHead, InBody, PositionOK
  <2>10. SmokeOf(r)'
    BY <1>3, <1>4, <1>7, <2>6 DEF SmokeOf, first_step
  <2>11. SamplesOf(r)'
    <3>1. Counted(r, c.trained)
      BY <2>2 DEF ShardOf
    <3>2. \A e \in Epochs : e > at.epoch => c.trained[e] = Never(r)
      BY <2>2 DEF ShardOf, at
    <3>3. /\ c.is_epoch_end /\ at.epoch < MaxEpochs => c.trained[at.epoch] = Never(r)
          /\ ~c.is_epoch_end /\ at.epoch = 0 => Once(r, c.trained[0], first_list(r), at.batch_idx)
      BY <2>2 DEF ShardOf, at
    <3>4. resumed_batches(r)' = at.batch_idx
      BY <2>6 DEF resumed_batches
    <3>5. Counted(r, trained[r])'
      BY <2>6, <2>7, <3>1 DEF Counted
    <3>6. ~c.is_epoch_end => at.epoch \in resumed'
      BY <2>1, <2>5
    <3>7. at.epoch < MaxEpochs =>
            \/ at.epoch \in resumed' \ {0}
            \/ at.epoch = 0 /\ Once(r, c.trained[0], first_list(r), at.batch_idx)
            \/ c.trained[at.epoch] = Never(r) /\ at.batch_idx = 0
      BY <2>3, <2>5, <3>3, <3>6
    <3> HIDE DEF c
    <3>8. \A e \in Epochs : e > epoch'[r] => trained'[r][e] = Never(r)
      BY <2>6, <3>2
    <3>9. epoch'[r] < MaxEpochs =>
            \/ epoch'[r] \in resumed' \ {0}
            \/ epoch'[r] = 0 /\ Once(r, trained'[r][0], first_list(r), resumed_batches(r)')
            \/ trained'[r][epoch'[r]] = Never(r) /\ resumed_batches(r)' = 0
      BY <2>6, <3>4, <3>7
    <3> QED
      BY <1>4, <3>5, <3>8, <3>9
      DEF SamplesOf, Never, Once, first_list, InBody, AtHead
  <2>12. Alone(r)
    BY <1>3, <1>4, <2>6, <2>7 DEF Alone
  <2> QED
    BY <1>5, <2>8, <2>9, <2>10, <2>11, <2>12, AloneStep DEF RankInv
<1> QED
  BY <1>6, <1>7

LEMMA BeginEpochStep ==
  ASSUME Inv, NEW r \in Ranks, BeginEpoch(r)
  PROVE  Inv'
<1> DEFINE list == [i \in Places(r) |-> tokenized[r][Shuffle[epoch[r]][shard_size(r)][i]]]
<1>1. /\ pc[r] = "epoch" /\ epoch[r] < MaxEpochs
      /\ tokenized' = [tokenized EXCEPT ![r] = list]
      /\ n_batches' = [n_batches EXCEPT ![r] = local_batches(r)]
      /\ pc' = [pc EXCEPT ![r] = "count"]
      /\ UNCHANGED <<smoke, epoch, resume_at, batch_idx, valid, global_step, skips, trained,
                     disk, historyVars>>
  BY DEF BeginEpoch, goto, Inv, TypeInv
<1>2. epoch[r] \in Epochs /\ Permuted(r, tokenized[r])
  BY <1>1, OfRank DEF Epochs, ListOf
<1>3. Permuted(r, list)
  BY <1>2, ShuffledList
<1>4. epoch[r] = 0 => list = first_list(r)
  <2> SUFFICES ASSUME epoch[r] = 0 PROVE list = first_list(r)
    OBVIOUS
  <2>1. tokenized[r] = FileOrder(r)
    BY <1>1, OfRank DEF ListOf
  <2>2. \A i \in Places(r) : Shuffle[0][shard_size(r)][i] \in Places(r)
    BY <1>2, Permutation
  <2> QED
    BY <2>1, <2>2 DEF first_list, FileOrder
<1> HIDE DEF list
<1>5. local_batches(r) = shard_size(r) \div effective_batch_size /\ local_batches(r) \in Nat
      /\ Len(list) = shard_size(r)
  <2>1. Len(tokenized[r]) = shard_size(r) /\ Len(list) = shard_size(r)
    BY <1>2, <1>3, ListLength DEF Permuted
  <2> QED
    BY <2>1, ShardSize, BatchSize DEF local_batches
<1>6. /\ pc' \in [Ranks -> Labels] /\ pc'[r] = "count" /\ tokenized'[r] = list
      /\ n_batches' \in [Ranks -> Nat] /\ n_batches'[r] = local_batches(r)
      /\ DOMAIN tokenized' = Ranks
      /\ \A q \in Ranks : q # r =>
           /\ pc'[q] = pc[q] /\ tokenized'[q] = tokenized[q] /\ n_batches'[q] = n_batches[q]
  BY <1>1, <1>5 DEF Inv, TypeInv, TypeOK, Labels, Waiting
<1>7. TypeInv'
  <2>1. \A q \in Ranks : tokenized'[q] \in [Places(q) -> Places(q)]
    BY <1>3, <1>6, OfRank DEF Permuted
  <2> QED
    BY <1>1, <1>6, <2>1 DEF Inv, TypeInv, TypeOK, Checkpoints, historyVars
<1>8. HeadOf(r)'
  <2>1. n_batches'[r] = local_batches(r)'
    BY <1>5, <1>6 DEF local_batches
  <2> QED
    BY <1>1, <1>6, <2>1, OfRank DEF HeadOf, AtHead, resumed_batches, PositionOK
<1>9. BodyOf(r)' /\ SmokeOf(r)' /\ RaisedOf(r)'
  BY <1>1, <1>6, OfRank DEF BodyOf, SmokeOf, RaisedOf, InBody, first_step
<1>10. ListOf(r)'
  <2>1. Permuted(r, tokenized'[r])
    BY <1>3, <1>6
  <2> QED
    BY <1>1, <1>4, <1>6, <2>1 DEF ListOf, Permuted, first_list
<1>11. SamplesOf(r)'
  <2>1. Counted(r, trained[r])'
    BY <1>1, OfRank DEF SamplesOf, Counted, historyVars
  <2>2. \A e \in Epochs : e > epoch[r] => trained[r][e] = Never(r)
    BY <1>1, OfRank DEF SamplesOf, AtHead
  <2>3. \/ epoch[r] \in resumed \ {0}
        \/ epoch[r] = 0 /\ Once(r, trained[r][0], first_list(r), resumed_batches(r))
        \/ trained[r][epoch[r]] = Never(r) /\ resumed_batches(r) = 0
    BY <1>1, OfRank DEF SamplesOf
  <2>4. resumed_batches(r)' = resumed_batches(r)
    BY <1>1 DEF resumed_batches
  <2> QED
    BY <1>1, <1>6, <2>1, <2>2, <2>3, <2>4
    DEF SamplesOf, AtHead, InBody, Never, Once, first_list, historyVars
<1>12. Alone(r)
  BY <1>1, <1>6 DEF Alone, historyVars
<1> QED
  BY <1>7, <1>8, <1>9, <1>10, <1>11, <1>12, AloneStep DEF RankInv

LEMMA TrainBatchStep ==
  ASSUME Inv, NEW r \in Ranks, TrainBatch(r)
  PROVE  Inv'
<1>1. /\ pc[r] = "batch" /\ batch_idx[r] < n_batches[r]
      /\ pc' = [pc EXCEPT ![r] = "sync"]
      /\ UNCHANGED <<smoke, epoch, resume_at, tokenized, n_batches, batch_idx, global_step,
                     skips, trained, disk, final, resumed, restarts>>
  BY DEF TrainBatch, goto, loopVars, historyVars
<1>2. valid' \in [Ranks -> 0..MicroBatches]
  BY DEF TrainBatch, Inv, TypeInv, TypeOK
<1>3. pc' \in [Ranks -> Labels] /\ pc'[r] = "sync" /\ \A q \in Ranks : q # r => pc'[q] = pc[q]
  BY <1>1 DEF Inv, TypeInv, TypeOK, Labels, Waiting
<1>4. TypeInv'
  BY <1>1, <1>2, <1>3 DEF Inv, TypeInv, TypeOK, Checkpoints
<1>5. HeadOf(r)'
  BY <1>1, <1>3, OfRank DEF HeadOf, AtHead, InBody, PositionOK
<1>6. BodyOf(r)'
  BY <1>1, <1>3, OfRank DEF BodyOf, InBody
<1>7. SmokeOf(r)' /\ RaisedOf(r)'
  BY <1>1, <1>3, OfRank DEF SmokeOf, RaisedOf, first_step
<1>8. ListOf(r)'
  BY <1>1, <1>3, OfRank DEF ListOf, Permuted, first_list, InBody
<1>9. SamplesOf(r)'
  BY <1>1, <1>3, OfRank DEF SamplesOf, AtHead, InBody, Never, Once, Counted
<1>10. Alone(r)
  BY <1>1, <1>3 DEF Alone
<1> QED
  BY <1>4, <1>5, <1>6, <1>7, <1>8, <1>9, <1>10, AloneStep DEF RankInv

\* The epoch is over: the batch after the last one is the first one of the next epoch.
LEMMA EndEpochStep ==
  ASSUME Inv, NEW r \in Ranks, EndEpoch(r)
  PROVE  Inv'
<1>1. /\ pc[r] = "batch" /\ batch_idx[r] >= n_batches[r]
      /\ pc' = [pc EXCEPT ![r] = IF SaveEveryEpoch THEN "save_epoch" ELSE "epoch"]
      /\ epoch' = IF SaveEveryEpoch THEN epoch ELSE [epoch EXCEPT ![r] = @ + 1]
      /\ UNCHANGED <<smoke, resume_at, tokenized, n_batches, batch_idx, valid, global_step,
                     skips, trained, disk, final, resumed, restarts>>
  BY DEF EndEpoch, goto, historyVars
<1>2. /\ batch_idx[r] = epoch_batches /\ epoch[r] < MaxEpochs /\ n_batches[r] = epoch_batches
      /\ resume_at[r].epoch <= epoch[r] /\ PositionOK(resume_at[r])
      /\ global_step[r] = epoch[r] * epoch_batches + batch_idx[r]
      /\ \A e \in Epochs : e > epoch[r] => trained[r][e] = Never(r)
      /\ Counted(r, trained[r]) /\ Permuted(r, tokenized[r])
      /\ epoch[r] \in Nat /\ epoch_batches \in Nat /\ MaxEpochs \in Nat
      /\ ~(skips[r] > 0 /\ ~AllowSkip) /\ (epoch[r] = 0 => tokenized[r] = first_list(r))
      /\ resume_at[r].epoch \in Nat
      /\ smoke => global_step[r] = first_step(r)
  <2>1. pc[r] = "batch" /\ pc[r] \in InBody
    BY <1>1 DEF InBody
  <2>2. /\ epoch[r] \in Nat /\ epoch_batches \in Nat /\ MaxEpochs \in Nat
        /\ batch_idx[r] \in Nat /\ resume_at[r].epoch \in Nat
    BY OfRank
  <2>3. /\ epoch[r] < MaxEpochs /\ n_batches[r] = epoch_batches
        /\ batch_idx[r] <= epoch_batches
        /\ global_step[r] = epoch[r] * epoch_batches + batch_idx[r]
    BY <2>1, OfRank DEF BodyOf
  <2>4. batch_idx[r] = epoch_batches
    <3>1. n_batches[r] = epoch_batches /\ batch_idx[r] <= epoch_batches
      BY <2>3
    <3>2. epoch_batches \in Nat /\ batch_idx[r] \in Nat
      BY <2>2
    <3>3. batch_idx[r] >= n_batches[r]
      BY <1>1
    <3> HIDE <1>1
    <3> QED
      BY <3>1, <3>2, <3>3
  <2>5. resume_at[r].epoch <= epoch[r] /\ PositionOK(resume_at[r])
    BY <2>1, OfRank DEF HeadOf
  <2>6. /\ \A e \in Epochs : e > epoch[r] => trained[r][e] = Never(r)
        /\ Counted(r, trained[r])
    BY <2>1, OfRank DEF SamplesOf
  <2>7. Permuted(r, tokenized[r]) /\ (epoch[r] = 0 => tokenized[r] = first_list(r))
    BY <2>1, OfRank DEF ListOf
  <2>8. ~(skips[r] > 0 /\ ~AllowSkip) /\ (smoke => global_step[r] = first_step(r))
    BY <2>1, OfRank DEF RaisedOf, SmokeOf
  <2> QED
    BY <2>2, <2>3, <2>4, <2>5, <2>6, <2>7, <2>8
<1>3. Counted(r, trained[r])'
  BY <1>1, <1>2 DEF Counted
<1>4. CASE SaveEveryEpoch
  <2>1. /\ pc' \in [Ranks -> Labels] /\ pc'[r] = "save_epoch" /\ epoch' = epoch
        /\ \A q \in Ranks : q # r => pc'[q] = pc[q]
    BY <1>1, <1>4 DEF Inv, TypeInv, TypeOK, Labels, Waiting, Saves
  <2>2. TypeInv'
    BY <1>1, <2>1 DEF Inv, TypeInv, TypeOK, Checkpoints
  <2>3. HeadOf(r)' /\ BodyOf(r)'
    BY <1>1, <1>2, <2>1 DEF HeadOf, BodyOf, AtHead, InBody, PositionOK
  <2>4. SmokeOf(r)' /\ RaisedOf(r)'
    BY <1>1, <1>2, <2>1 DEF SmokeOf, RaisedOf, first_step
  <2>5. ListOf(r)'
    BY <1>1, <1>2, <2>1 DEF ListOf, Permuted, first_list
  <2>6. SamplesOf(r)'
    BY <1>1, <1>2, <1>3, <2>1 DEF SamplesOf, AtHead, InBody, Never
  <2>7. Alone(r)
    BY <1>1, <2>1 DEF Alone
  <2> QED
    BY <2>2, <2>3, <2>4, <2>5, <2>6, <2>7, AloneStep DEF RankInv
<1>5. CASE ~SaveEveryEpoch
  <2>1. /\ pc' \in [Ranks -> Labels] /\ pc'[r] = "epoch" /\ epoch'[r] = epoch[r] + 1
        /\ epoch' \in [Ranks -> 0..MaxEpochs]
        /\ \A q \in Ranks : q # r => pc'[q] = pc[q] /\ epoch'[q] = epoch[q]
    BY <1>1, <1>2, <1>5 DEF Inv, TypeInv, TypeOK, Labels
  <2>2. TypeInv'
    BY <1>1, <2>1 DEF Inv, TypeInv, TypeOK, Checkpoints
  <2>3. resumed_batches(r)' = 0
    BY <1>1, <1>2, <2>1 DEF resumed_batches
  <2>4. HeadOf(r)' /\ BodyOf(r)'
    <3>1. global_step'[r] = epoch'[r] * epoch_batches + resumed_batches(r)'
      BY <1>1, <1>2, <2>1, <2>3, EpochSteps
    <3> QED
      BY <1>1, <1>2, <2>1, <3>1 DEF HeadOf, BodyOf, AtHead, InBody, PositionOK
  <2>5. SmokeOf(r)' /\ RaisedOf(r)'
    BY <1>1, <1>2, <2>1 DEF SmokeOf, RaisedOf, first_step
  <2>6. ListOf(r)'
    BY <1>1, <1>2, <2>1 DEF ListOf, Permuted, InBody
  <2>7. SamplesOf(r)'
    <3>1. \A e \in Epochs : e > epoch[r] + 1 => e > epoch[r]
      BY <1>2 DEF Epochs
    <3>2. epoch[r] + 1 < MaxEpochs => epoch[r] + 1 \in Epochs /\ epoch[r] + 1 > epoch[r]
      BY <1>2 DEF Epochs
    <3>3. \A e \in Epochs : e > epoch'[r] => trained'[r][e] = Never(r)
      BY <1>1, <1>2, <2>1, <3>1
    <3>4. epoch'[r] < MaxEpochs => trained'[r][epoch'[r]] = Never(r)
      BY <1>1, <1>2, <2>1, <3>2
    <3> QED
      BY <1>3, <2>1, <2>3, <3>3, <3>4 DEF SamplesOf, AtHead, InBody, Never
  <2>8. Alone(r)
    BY <1>1, <2>1 DEF Alone
  <2> QED
    BY <2>2, <2>4, <2>5, <2>6, <2>7, <2>8, AloneStep DEF RankInv
<1> QED
  BY <1>4, <1>5

LEMMA FinishStep ==
  ASSUME Inv, NEW r \in Ranks, Finish(r)
  PROVE  Inv'
<1>1. /\ pc[r] = "epoch" /\ epoch[r] >= MaxEpochs
      /\ pc' = [pc EXCEPT ![r] = "save_final"]
      /\ UNCHANGED <<smoke, epoch, resume_at, tokenized, n_batches, batch_idx, valid,
                     global_step, skips, trained, disk, final, resumed, restarts>>
  BY DEF Finish, goto, final_label, nonfinite_grad_skips, loopVars, historyVars
<1>2. /\ pc' \in [Ranks -> Labels] /\ pc'[r] = "save_final"
      /\ \A q \in Ranks : q # r => pc'[q] = pc[q]
  BY <1>1 DEF Inv, TypeInv, TypeOK, Labels, Waiting, Saves
<1>3. TypeInv'
  BY <1>1, <1>2 DEF Inv, TypeInv, TypeOK, Checkpoints
<1>4. HeadOf(r)' /\ BodyOf(r)'
  <2>1. /\ epoch[r] = MaxEpochs /\ resume_at[r].epoch <= epoch[r] /\ PositionOK(resume_at[r])
        /\ global_step[r] = epoch[r] * epoch_batches + resumed_batches(r)
    <3>1. epoch[r] \in 0..MaxEpochs /\ MaxEpochs \in Nat /\ epoch[r] >= MaxEpochs
      BY <1>1, OfRank
    <3>2. epoch[r] = MaxEpochs
      BY <3>1
    <3>3. pc[r] \in AtHead
      BY <1>1 DEF AtHead
    <3> QED
      BY <3>2, <3>3, OfRank DEF HeadOf
  <2> QED
    BY <1>1, <1>2, <2>1 DEF HeadOf, BodyOf, AtHead, InBody, PositionOK, resumed_batches
<1>5. SmokeOf(r)' /\ RaisedOf(r)'
  BY <1>1, <1>2, OfRank DEF SmokeOf, RaisedOf, first_step
<1>6. ListOf(r)'
  BY <1>1, <1>2, OfRank DEF ListOf, Permuted, first_list, InBody
<1>7. SamplesOf(r)'
  BY <1>1, <1>2, OfRank DEF SamplesOf, AtHead, InBody, Never, Counted
<1>8. Alone(r)
  BY <1>1, <1>2 DEF Alone
<1> QED
  BY <1>3, <1>4, <1>5, <1>6, <1>7, <1>8, AloneStep DEF RankInv

-----------------------------------------------------------------------------
(* The samples of a batch.                                                 *)

LEMMA OnceNone ==
  ASSUME NEW r \in Ranks, NEW list
  PROVE  Once(r, Never(r), list, 0)
<1>1. 0 * effective_batch_size = 0
  BY BatchSize
<1> QED
  BY <1>1 DEF Once, Never

\* The next batch takes samples that the batches before it have not.
LEMMA OnceMore ==
  ASSUME NEW r \in Ranks, NEW list, Permuted(r, list), NEW b \in Nat, b < epoch_batches,
         NEW t \in [Places(r) -> Nat], Once(r, t, list, b), NEW u,
         \A s \in Places(r) :
           u[s] = t[s] + IF \E i \in (b * effective_batch_size + 1)..((b + 1) * effective_batch_size) :
                              s = list[i]
                         THEN 1 ELSE 0
  PROVE  Once(r, u, list, b + 1)
<1> DEFINE g == effective_batch_size
           m == b * g
           k == (b + 1) * g
<1>1. m \in Nat /\ g \in Nat \ {0} /\ k = m + g /\ k <= shard_size(r) /\ shard_size(r) \in Nat
  <2>1. b <= epoch_batches /\ epoch_batches \in Nat
    BY EpochBatches
  <2> QED
    BY <2>1, BatchFits, ShardSize
<1>2. Once(r, t, list, b) <=>
        \A s \in Places(r) : t[s] = IF \E i \in 1..m : list[i] = s THEN 1 ELSE 0
  BY DEF Once
<1>3. Once(r, u, list, b + 1) <=>
        \A s \in Places(r) : u[s] = IF \E i \in 1..k : list[i] = s THEN 1 ELSE 0
  BY DEF Once
<1>4. \A s \in Places(r) : u[s] = t[s] + IF \E i \in (m + 1)..k : s = list[i] THEN 1 ELSE 0
  OBVIOUS
<1> HIDE DEF g, m, k
<1>5. \A i : i \in 1..k <=> i \in 1..m \/ i \in (m + 1)..k
  BY <1>1
<1>6. \A i \in 1..m, j \in (m + 1)..k :
        i \in Places(r) /\ j \in Places(r) /\ i # j
  BY <1>1 DEF Places
<1>7. \A i \in 1..m, j \in (m + 1)..k : list[i] # list[j]
  BY <1>6 DEF Permuted
<1>8. ASSUME NEW s \in Places(r)
      PROVE  u[s] = IF \E i \in 1..k : list[i] = s THEN 1 ELSE 0
  <2>1. CASE \E i \in 1..m : list[i] = s
    <3>1. t[s] = 1 /\ ~(\E i \in (m + 1)..k : s = list[i])
      BY <1>2, <1>7, <2>1
    <3> QED
      BY <1>4, <1>5, <2>1, <3>1
  <2>2. CASE ~(\E i \in 1..m : list[i] = s)
    <3>1. t[s] = 0
      BY <1>2, <2>2
    <3> QED
      BY <1>4, <1>5, <2>2, <3>1
  <2> QED
    BY <2>1, <2>2
<1> QED
  BY <1>3, <1>8

LEMMA OnceCounts ==
  ASSUME NEW r \in Ranks, NEW t, NEW list, NEW n, Once(r, t, list, n), NEW s \in Places(r)
  PROVE  ~(t[s] > 1)
BY DEF Once

-----------------------------------------------------------------------------
(* The steps of all ranks together.                                        *)

\* The agreement is the number of batches of the shortest shard.
LEMMA AgreeStep ==
  ASSUME Inv, AgreeOnBatches
  PROVE  Inv'
<1>1. /\ \A r \in Ranks : pc[r] = "count"
      /\ n_batches' = [r \in Ranks |-> agreed_batches(r)]
      /\ batch_idx' = [r \in Ranks |-> resumed_batches(r)]
      /\ pc' = [r \in Ranks |-> "batch"]
      /\ UNCHANGED <<smoke, epoch, resume_at, tokenized, valid, global_step, skips, trained,
                     disk, final, resumed, restarts>>
  BY DEF AgreeOnBatches, All, resumed_batches, historyVars
<1>2. \A r \in Ranks : agreed_batches(r) = epoch_batches
  <2>1. \A r \in Ranks : n_batches[r] = shard_size(r) \div effective_batch_size
    <3> TAKE r \in Ranks
    <3>1. n_batches[r] = local_batches(r)
      BY <1>1, OfRank DEF HeadOf
    <3>2. Len(tokenized[r]) = shard_size(r)
      BY OfRank, ListLength
    <3> QED
      BY <3>1, <3>2 DEF local_batches
  <2>2. {n_batches[q] : q \in Ranks} = {shard_size(r) \div effective_batch_size : r \in Ranks}
    BY <2>1
  <2>3. \A r \in Ranks :
          agreed_batches(r) = CHOOSE n \in {n_batches[q] : q \in Ranks} :
                                \A m \in {n_batches[q] : q \in Ranks} : n <= m
    <3>1. \A n : (\A m \in {n_batches[q] : q \in Ranks} : n <= m) <=>
                 (\A q \in Ranks : n <= n_batches[q])
      OBVIOUS
    <3> QED
      BY <3>1 DEF agreed_batches
  <2> QED
    BY <2>2, <2>3 DEF epoch_batches
<1>3. \A r \in Ranks : resumed_batches(r) \in 0..epoch_batches /\ resumed_batches(r) \in Nat
  <2> TAKE r \in Ranks
  <2>1. PositionOK(resume_at[r]) /\ epoch_batches \in Nat
    BY <1>1, OfRank DEF HeadOf, AtHead
  <2> QED
    BY <2>1 DEF PositionOK, resumed_batches
<1>4. TypeInv'
  <2>1. pc' \in [Ranks -> Labels] /\ n_batches' \in [Ranks -> Nat] /\ batch_idx' \in [Ranks -> Nat]
    BY <1>1, <1>2, <1>3, EpochBatches DEF Labels
  <2> QED
    BY <1>1, <2>1 DEF Inv, TypeInv, TypeOK, Checkpoints
<1>5. ASSUME NEW r \in Ranks PROVE RankInv(r)'
  <2>1. pc'[r] = "batch" /\ n_batches'[r] = epoch_batches /\ batch_idx'[r] = resumed_batches(r)
    BY <1>1, <1>2
  <2>2. HeadOf(r)'
    BY <1>1, <2>1, OfRank DEF HeadOf, AtHead, InBody, PositionOK
  <2>3. BodyOf(r)'
    <3>1. /\ epoch[r] < MaxEpochs
          /\ global_step[r] = epoch[r] * epoch_batches + resumed_batches(r)
      BY <1>1, OfRank DEF HeadOf, AtHead
    <3>2. resumed_batches(r) <= epoch_batches
      BY <1>3, EpochBatches
    <3> QED
      BY <1>1, <2>1, <3>1, <3>2 DEF BodyOf, InBody
  <2>4. SmokeOf(r)' /\ RaisedOf(r)'
    BY <1>1, <2>1, OfRank DEF SmokeOf, RaisedOf, first_step
  <2>5. ListOf(r)'
    BY <1>1, <2>1, OfRank DEF ListOf, Permuted, first_list, InBody
  <2>6. SamplesOf(r)'
    <3>1. Counted(r, trained[r])'
      BY <1>1, OfRank DEF SamplesOf, Counted
    <3>2. \A e \in Epochs : e > epoch[r] => trained[r][e] = Never(r)
      BY <1>1, OfRank DEF SamplesOf, AtHead
    <3>3. \/ epoch[r] \in resumed \ {0}
          \/ epoch[r] = 0 /\ Once(r, trained[r][0], first_list(r), resumed_batches(r))
          \/ trained[r][epoch[r]] = Never(r) /\ resumed_batches(r) = 0
      BY <1>1, OfRank DEF SamplesOf, HeadOf
    <3>4. epoch[r] = 0 => tokenized[r] = first_list(r)
      BY <1>1, OfRank DEF ListOf
    <3>5. epoch[r] \notin resumed \ {0} =>
            Once(r, trained[r][epoch[r]], tokenized[r], resumed_batches(r))
      BY <3>3, <3>4, OnceNone
    <3>6. epoch'[r] \notin resumed' \ {0} =>
            Once(r, trained'[r][epoch'[r]], tokenized'[r], batch_idx'[r])
      BY <1>1, <2>1, <3>5
    <3> QED
      BY <1>1, <2>1, <3>1, <3>2, <3>6 DEF SamplesOf, AtHead, InBody, Never, Once
  <2> QED
    BY <2>2, <2>3, <2>4, <2>5, <2>6 DEF RankInv
<1>6. DiskInv'
  BY <1>1, DiskKept DEF Inv
<1> QED
  BY <1>4, <1>5, <1>6 DEF Inv

\* A batch counts each of its samples once, in the epoch of its rank.
LEMMA SyncStep ==
  ASSUME Inv, SyncAndStep
  PROVE  Inv'
<1>1. /\ \A r \in Ranks : pc[r] = "sync"
      /\ trained' = [r \in Ranks |->
           [trained[r] EXCEPT ![epoch[r]] =
              [s \in Places(r) |-> trained[r][epoch[r]][s] + IF s \in batch(r) THEN 1 ELSE 0]]]
      /\ skips' = [r \in Ranks |-> skips[r] + (MicroBatches - valid[r])]
      /\ pc' = [r \in Ranks |-> IF raises(r) THEN "close" ELSE "gather"]
      /\ UNCHANGED <<smoke, epoch, resume_at, tokenized, n_batches, batch_idx, valid,
                     global_step, disk, final, resumed, restarts>>
  <2>1. \A r \in Ranks : epoch[r] \in Epochs
    BY OfRank DEF SyncAndStep, All, BodyOf, InBody, Epochs
  <2>2. \A r \in Ranks :
          [trained[r] EXCEPT ![epoch[r]] =
             [s \in Places(r) |-> @[s] + IF s \in batch(r) THEN 1 ELSE 0]]
          = [trained[r] EXCEPT ![epoch[r]] =
              [s \in Places(r) |-> trained[r][epoch[r]][s] + IF s \in batch(r) THEN 1 ELSE 0]]
    BY <2>1, OfRank
  <2> QED
    BY <2>2 DEF SyncAndStep, All, loopVars, historyVars
<1>2. ASSUME NEW r \in Ranks
      PROVE  /\ epoch[r] \in Epochs /\ epoch[r] \in Nat
             /\ trained'[r] \in [Epochs -> [Places(r) -> Nat]]
             /\ \A e \in Epochs : e # epoch[r] => trained'[r][e] = trained[r][e]
             /\ \A s \in Places(r) :
                  trained'[r][epoch[r]][s]
                    = trained[r][epoch[r]][s] + IF s \in batch(r) THEN 1 ELSE 0
  <2>1. epoch[r] \in Epochs /\ epoch[r] \in Nat
    BY <1>1, OfRank DEF BodyOf, InBody, Epochs
  <2>2. trained[r] \in [Epochs -> [Places(r) -> Nat]]
    BY OfRank
  <2> DEFINE u == [s \in Places(r) |->
                     trained[r][epoch[r]][s] + IF s \in batch(r) THEN 1 ELSE 0]
  <2>3. trained'[r] = [trained[r] EXCEPT ![epoch[r]] = u]
    BY <1>1
  <2>4. u \in [Places(r) -> Nat]
    BY <2>1, <2>2
  <2>5. \A s \in Places(r) : u[s] = trained[r][epoch[r]][s] + IF s \in batch(r) THEN 1 ELSE 0
    OBVIOUS
  <2> HIDE DEF u
  <2> QED
    BY <2>1, <2>2, <2>3, <2>4, <2>5
<1>3. TypeInv'
  <2>1. pc' \in [Ranks -> Labels]
    BY <1>1 DEF Labels, Waiting
  <2>2. skips' \in [Ranks -> Nat]
    <3>1. \A r \in Ranks : skips[r] + (MicroBatches - valid[r]) \in Nat
      BY OfRank, SFTAssumption
    <3> QED
      BY <1>1, <3>1
  <2> QED
    BY <1>1, <1>2, <2>1, <2>2 DEF Inv, TypeInv, TypeOK, Checkpoints
<1>4. ASSUME NEW r \in Ranks PROVE RankInv(r)'
  <2>1. /\ pc'[r] = (IF raises(r) THEN "close" ELSE "gather")
        /\ skips'[r] = skips[r] + (MicroBatches - valid[r])
    BY <1>1
  <2>2. HeadOf(r)'
    BY <1>1, <2>1, OfRank DEF HeadOf, AtHead, InBody, PositionOK
  <2>3. BodyOf(r)'
    BY <1>1, <2>1, OfRank DEF BodyOf, InBody
  <2>4. SmokeOf(r)' /\ RaisedOf(r)'
    <3>1. skips[r] > 0 => AllowSkip
      BY <1>1, OfRank DEF RaisedOf
    <3>2. skips'[r] > 0 /\ ~AllowSkip => raises(r)
      BY <2>1, <3>1, OfRank, SFTAssumption DEF raises
    <3> QED
      BY <1>1, <2>1, <3>2, OfRank DEF SmokeOf, RaisedOf, first_step
  <2>5. ListOf(r)'
    BY <1>1, <2>1, OfRank DEF ListOf, Permuted, first_list, InBody
  <2>6. SamplesOf(r)'
    <3>1. epoch[r] \notin resumed \ {0} =>
            Once(r, trained'[r][epoch[r]], tokenized[r], batch_idx[r] + 1)
      <4> SUFFICES ASSUME epoch[r] \notin resumed \ {0}
                   PROVE  Once(r, trained'[r][epoch[r]], tokenized[r], batch_idx[r] + 1)
        OBVIOUS
      <4>1. /\ Once(r, trained[r][epoch[r]], tokenized[r], batch_idx[r])
            /\ Permuted(r, tokenized[r]) /\ batch_idx[r] \in Nat /\ batch_idx[r] < epoch_batches
            /\ trained[r][epoch[r]] \in [Places(r) -> Nat]
        BY <1>1, <1>2, OfRank DEF SamplesOf, ListOf, BodyOf, InBody
      <4>2. \A s : s \in batch(r) <=>
              \E i \in (batch_idx[r] * effective_batch_size + 1)..((batch_idx[r] + 1) * effective_batch_size) :
                s = tokenized[r][i]
        BY DEF batch
      <4>3. \A s \in Places(r) :
              trained'[r][epoch[r]][s]
                = trained[r][epoch[r]][s]
                  + IF \E i \in (batch_idx[r] * effective_batch_size + 1)..((batch_idx[r] + 1) * effective_batch_size) :
                         s = tokenized[r][i]
                    THEN 1 ELSE 0
        BY <1>2, <4>2
      <4> QED
        BY <4>1, <4>3, OnceMore
    <3>2. Counted(r, trained[r])'
      <4> SUFFICES ASSUME NEW e \in Epochs, NEW s \in Places(r), trained'[r][e][s] > 1
                   PROVE  e \in resumed \ {0}
        BY <1>1 DEF Counted
      <4>1. CASE e # epoch[r]
        BY <1>2, <4>1, OfRank DEF SamplesOf, Counted
      <4>2. CASE e = epoch[r]
        BY <3>1, <4>2, OnceCounts
      <4> QED
        BY <4>1, <4>2
    <3>3. \A e \in Epochs : e > epoch[r] => trained'[r][e] = Never(r)
      <4> TAKE e \in Epochs
      <4> HAVE e > epoch[r]
      <4>1. e # epoch[r]
        BY <1>2 DEF Epochs
      <4>2. trained[r][e] = Never(r)
        BY <1>1, OfRank DEF SamplesOf, InBody
      <4> QED
        BY <1>2, <4>1, <4>2
    <3>4. epoch'[r] \notin resumed' \ {0} =>
            Once(r, trained'[r][epoch'[r]], tokenized'[r], batch_idx'[r] + 1)
      BY <1>1, <3>1
    <3> QED
      BY <1>1, <2>1, <3>2, <3>3, <3>4 DEF SamplesOf, AtHead, InBody, Never, Once
  <2> QED
    BY <2>2, <2>3, <2>4, <2>5, <2>6 DEF RankInv
<1>5. DiskInv'
  BY <1>1, DiskKept DEF Inv
<1> QED
  BY <1>3, <1>4, <1>5 DEF Inv

\* A smoke launch goes on to save, another one saves when it is due.
LEMMA GatherStep ==
  ASSUME Inv, Gather
  PROVE  Inv'
<1>1. /\ \A r \in Ranks : pc[r] = "gather"
      /\ global_step' = [r \in Ranks |-> global_step[r] + 1]
      /\ batch_idx' = [r \in Ranks |->
                         IF pc'[r] = "batch" THEN batch_idx[r] + 1 ELSE batch_idx[r]]
      /\ valid' = [r \in Ranks |-> 0]
      /\ UNCHANGED <<smoke, epoch, resume_at, tokenized, n_batches, skips, trained, disk,
                     final, resumed, restarts>>
  BY DEF Gather, All, historyVars
<1>2. PICK clock \in [Ranks -> BOOLEAN] : pc' = [r \in Ranks |-> after_step(r, clock)]
  BY DEF Gather
<1>3. /\ pc' \in [Ranks -> Labels]
      /\ \A r \in Ranks :
           IF smoke THEN pc'[r] = "save_smoke" ELSE pc'[r] \in {"save_step", "batch"}
  BY <1>2 DEF after_step, final_label, nonfinite_grad_skips, Labels, Waiting, Saves
<1>4. TypeInv'
  <2>1. batch_idx' \in [Ranks -> Nat] /\ global_step' \in [Ranks -> Nat]
    BY <1>1, OfRank
  <2>2. valid' \in [Ranks -> 0..MicroBatches]
    BY <1>1, SFTAssumption
  <2> QED
    BY <1>1, <1>3, <2>1, <2>2 DEF Inv, TypeInv, TypeOK, Checkpoints
<1>5. ASSUME NEW r \in Ranks PROVE RankInv(r)'
  <2>1. /\ pc'[r] \in {"save_smoke", "save_step", "batch"}
        /\ smoke => pc'[r] = "save_smoke"
        /\ global_step'[r] = global_step[r] + 1
        /\ batch_idx'[r] = IF pc'[r] = "batch" THEN batch_idx[r] + 1 ELSE batch_idx[r]
    BY <1>1, <1>3
  <2>2. HeadOf(r)'
    BY <1>1, <2>1, OfRank DEF HeadOf, AtHead, InBody, PositionOK
  <2>3. BodyOf(r)'
    <3>1. /\ n_batches[r] = epoch_batches /\ epoch[r] < MaxEpochs /\ batch_idx[r] < epoch_batches
          /\ global_step[r] = epoch[r] * epoch_batches + batch_idx[r]
          /\ epoch[r] * epoch_batches \in Nat
      BY <1>1, OfRank, EpochSteps DEF BodyOf, InBody
    <3>2. global_step'[r] = epoch[r] * epoch_batches + (batch_idx[r] + 1)
      BY <2>1, <3>1, OfRank
    <3>3. batch_idx[r] + 1 <= epoch_batches
      BY <3>1, OfRank
    <3> QED
      BY <1>1, <2>1, <3>1, <3>2, <3>3 DEF BodyOf, InBody
  <2>4. SmokeOf(r)' /\ RaisedOf(r)'
    BY <1>1, <2>1, OfRank DEF SmokeOf, RaisedOf, first_step
  <2>5. ListOf(r)'
    BY <1>1, <2>1, OfRank DEF ListOf, Permuted, first_list, InBody
  <2>6. SamplesOf(r)'
    <3>1. Counted(r, trained[r])'
      BY <1>1, OfRank DEF SamplesOf, Counted
    <3>2. \A e \in Epochs : e > epoch[r] => trained[r][e] = Never(r)
      BY <1>1, OfRank DEF SamplesOf, InBody
    <3>3. epoch[r] \notin resumed \ {0} =>
            Once(r, trained[r][epoch[r]], tokenized[r], batch_idx[r] + 1)
      BY <1>1, OfRank DEF SamplesOf
    <3>4. /\ pc'[r] = "batch" => batch_idx'[r] = batch_idx[r] + 1
          /\ pc'[r] # "batch" => batch_idx'[r] + 1 = batch_idx[r] + 1
      BY <2>1
    <3>5. epoch'[r] \notin resumed' \ {0} =>
            /\ pc'[r] = "batch" => Once(r, trained'[r][epoch'[r]], tokenized'[r], batch_idx'[r])
            /\ pc'[r] # "batch" => Once(r, trained'[r][epoch'[r]], tokenized'[r], batch_idx'[r] + 1)
      BY <1>1, <3>3, <3>4
    <3> QED
      BY <1>1, <2>1, <3>1, <3>2, <3>5 DEF SamplesOf, AtHead, InBody, Never, Once
  <2> QED
    BY <2>2, <2>3, <2>4, <2>5, <2>6 DEF RankInv
<1>6. DiskInv'
  BY <1>1, DiskKept DEF Inv
<1> QED
  BY <1>4, <1>5, <1>6 DEF Inv

\* A rank that has left the loop.
LEMMA LeftRank ==
  ASSUME Inv, NEW r \in Ranks, pc'[r] \in {"close", "done", "failed", "killed"},
         skips'[r] > 0 /\ ~AllowSkip => pc'[r] # "done",
         tokenized'[r] = tokenized[r], trained'[r] = trained[r], resumed' = resumed
  PROVE  RankInv(r)'
<1>1. HeadOf(r)' /\ BodyOf(r)' /\ SmokeOf(r)' /\ RaisedOf(r)'
  BY DEF HeadOf, BodyOf, SmokeOf, RaisedOf, AtHead, InBody
<1>2. ListOf(r)' /\ SamplesOf(r)'
  BY OfRank DEF ListOf, Permuted, SamplesOf, Counted, AtHead, InBody
<1> QED
  BY <1>1, <1>2 DEF RankInv

LEMMA CloseStep ==
  ASSUME Inv, Close
  PROVE  Inv'
<1>1. /\ pc' = [r \in Ranks |-> IF skips[r] > 0 /\ ~AllowSkip THEN "failed" ELSE "done"]
      /\ UNCHANGED <<smoke, epoch, resume_at, tokenized, n_batches, batch_idx, valid,
                     global_step, skips, trained, disk, final, resumed, restarts>>
  BY DEF Close, loopVars, historyVars
<1>2. pc' \in [Ranks -> Labels]
  BY <1>1 DEF Labels
<1>3. TypeInv'
  BY <1>1, <1>2 DEF Inv, TypeInv, TypeOK, Checkpoints
<1>4. ASSUME NEW r \in Ranks PROVE RankInv(r)'
  BY <1>1, LeftRank
<1>5. DiskInv'
  BY <1>1, DiskKept DEF Inv
<1> QED
  BY <1>3, <1>4, <1>5 DEF Inv

LEMMA TimeoutStep ==
  ASSUME Inv, CollectiveTimeout
  PROVE  Inv'
<1>1. /\ pc' = [r \in Ranks |-> "killed"]
      /\ UNCHANGED <<smoke, epoch, resume_at, tokenized, n_batches, batch_idx, valid,
                     global_step, skips, trained, disk, final, resumed, restarts>>
  BY DEF CollectiveTimeout, loopVars, historyVars
<1>2. pc' \in [Ranks -> Labels]
  BY <1>1 DEF Labels
<1>3. TypeInv'
  BY <1>1, <1>2 DEF Inv, TypeInv, TypeOK, Checkpoints
<1>4. ASSUME NEW r \in Ranks PROVE RankInv(r)'
  BY <1>1, LeftRank
<1>5. DiskInv'
  BY <1>1, DiskKept DEF Inv
<1> QED
  BY <1>3, <1>4, <1>5 DEF Inv

\* A launch that has not begun.
NewLaunch ==
  /\ pc = [r \in Ranks |-> "start"]
  /\ smoke \in BOOLEAN
  /\ epoch = [r \in Ranks |-> 0]
  /\ resume_at = [r \in Ranks |-> [epoch |-> 0, batch_idx |-> 0]]
  /\ tokenized = [r \in Ranks |-> FileOrder(r)]
  /\ n_batches = [r \in Ranks |-> 0]
  /\ batch_idx = [r \in Ranks |-> 0]
  /\ valid = [r \in Ranks |-> 0]
  /\ global_step = [r \in Ranks |-> 0]
  /\ skips = [r \in Ranks |-> 0]
  /\ trained = [r \in Ranks |-> NeverTrained(r)]
  /\ final = FALSE

\* What it finds.
Found ==
  /\ DiskInv /\ resumed \subseteq Epochs /\ restarts \in 0..MaxRestarts
  /\ disk # NoCheckpoint => \A r \in Ranks : disk[r] \in Checkpoints(r)

LEMMA LaunchInv == NewLaunch /\ Found => Inv
<1> SUFFICES ASSUME NewLaunch, Found PROVE Inv
  OBVIOUS
<1>1. MaxEpochs \in Nat \ {0} /\ MicroBatches \in Nat /\ epoch_batches \in Nat
  BY SFTAssumption, EpochBatches
<1>2. TypeInv
  <2>1. pc \in [Ranks -> Labels] /\ smoke \in BOOLEAN
    BY DEF NewLaunch, Labels
  <2>2. /\ epoch \in [Ranks -> 0..MaxEpochs]
        /\ resume_at \in [Ranks -> [epoch : 0..MaxEpochs, batch_idx : Nat]]
        /\ n_batches \in [Ranks -> Nat] /\ batch_idx \in [Ranks -> Nat]
        /\ valid \in [Ranks -> 0..MicroBatches]
        /\ global_step \in [Ranks -> Nat] /\ skips \in [Ranks -> Nat] /\ final \in BOOLEAN
    <3>1. 0 \in 0..MaxEpochs /\ 0 \in Nat /\ 0 \in 0..MicroBatches
      BY <1>1
    <3>2. [epoch |-> 0, batch_idx |-> 0] \in [epoch : 0..MaxEpochs, batch_idx : Nat]
      BY <3>1
    <3> QED
      BY <3>1, <3>2 DEF NewLaunch
  <2>3. \A r \in Ranks :
          /\ tokenized[r] \in [Places(r) -> Places(r)]
          /\ trained[r] \in [Epochs -> [Places(r) -> Nat]]
    BY DEF NewLaunch, FileOrder, NeverTrained
  <2>4. DOMAIN tokenized = Ranks /\ DOMAIN trained = Ranks
    BY DEF NewLaunch
  <2> QED
    BY <2>1, <2>2, <2>3, <2>4 DEF TypeInv, TypeOK, Found
<1>3. ASSUME NEW r \in Ranks PROVE RankInv(r)
  <2>1. /\ pc[r] = "start" /\ epoch[r] = 0 /\ global_step[r] = 0 /\ batch_idx[r] = 0
        /\ resume_at[r] = [epoch |-> 0, batch_idx |-> 0] /\ skips[r] = 0
        /\ tokenized[r] = FileOrder(r) /\ trained[r] = NeverTrained(r)
    BY DEF NewLaunch
  <2>2. HeadOf(r) /\ BodyOf(r) /\ SmokeOf(r) /\ RaisedOf(r)
    BY <2>1 DEF HeadOf, BodyOf, SmokeOf, RaisedOf, AtHead, InBody
  <2>3. ListOf(r)
    BY <2>1 DEF ListOf, Permuted, FileOrder, InBody
  <2>4. SamplesOf(r)
    BY <2>1 DEF SamplesOf, Counted, NeverTrained, AtHead, InBody
  <2> QED
    BY <2>2, <2>3, <2>4 DEF RankInv
<1> QED
  BY <1>2, <1>3 DEF Inv, Found

LEMMA RestartStep ==
  ASSUME Inv, Restart
  PROVE  Inv'
<1>1. NewLaunch' /\ disk' = disk /\ resumed' = resumed /\ restarts' = restarts + 1
  BY DEF Restart, NewLaunch, FileOrder, NeverTrained
<1>2. restarts' \in 0..MaxRestarts
  BY <1>1, SFTAssumption DEF Inv, TypeInv, TypeOK, Restart
<1>3. DiskInv'
  BY <1>1, DiskKept DEF Inv
<1>4. resumed' \subseteq Epochs
  BY <1>1 DEF Inv, TypeInv, TypeOK
<1>5. disk' # NoCheckpoint => \A r \in Ranks : disk'[r] \in Checkpoints(r)
  BY <1>1 DEF Inv, TypeInv, TypeOK
<1>6. Found'
  BY <1>2, <1>3, <1>4, <1>5 DEF Found, Checkpoints
<1>7. NewLaunch'
  BY <1>1
<1> QED
  BY <1>6, <1>7, LaunchInv, PTL

LEMMA ShardAt ==
  ASSUME NEW r \in Ranks, NEW c, NEW e \in Nat, NEW b \in Nat,
         resume_position(c) = [epoch |-> e, batch_idx |-> b],
         c.epoch \in Epochs, PositionOK([epoch |-> e, batch_idx |-> b]),
         c.global_step = e * epoch_batches + b, Counted(r, c.trained),
         \A f \in Epochs : f > e => c.trained[f] = Never(r),
         c.is_epoch_end /\ e < MaxEpochs => c.trained[e] = Never(r),
         ~c.is_epoch_end /\ e = 0 => Once(r, c.trained[0], first_list(r), b)
  PROVE  ShardOf(r, c)
<1> DEFINE at == resume_position(c)
<1>1. at.epoch = e /\ at.batch_idx = b /\ at = [epoch |-> e, batch_idx |-> b]
  OBVIOUS
<1> HIDE DEF at
<1>2. c.global_step = at.epoch * epoch_batches + at.batch_idx
  BY <1>1
<1>3. PositionOK(at)
  BY <1>1
<1>4. \A f \in Epochs : f > at.epoch => c.trained[f] = Never(r)
  BY <1>1
<1>5. c.is_epoch_end /\ at.epoch < MaxEpochs => c.trained[at.epoch] = Never(r)
  BY <1>1
<1>6. ~c.is_epoch_end /\ at.epoch = 0 => Once(r, c.trained[0], first_list(r), at.batch_idx)
  BY <1>1
<1> QED
  BY <1>2, <1>3, <1>4, <1>5, <1>6 DEF ShardOf, at

\* What a rank saves tells a later launch where to go on, at the step it was saved at.
LEMMA ShardSaved ==
  ASSUME Inv, NEW r \in Ranks, pc[r] \in Saves, NEW c, c = checkpoint(r)
  PROVE  c \in Checkpoints(r) /\ ShardOf(r, c) /\ c.global_step = global_step[r]
<1>1. /\ epoch[r] \in Nat /\ MaxEpochs \in Nat \ {0} /\ batch_idx[r] \in Nat
      /\ global_step[r] \in Nat /\ n_batches[r] \in Nat /\ epoch_batches \in Nat
      /\ trained[r] \in [Epochs -> [Places(r) -> Nat]]
      /\ HeadOf(r) /\ BodyOf(r) /\ ListOf(r) /\ SamplesOf(r)
  BY OfRank
<1>2. /\ Counted(r, trained[r])
      /\ \A e \in Epochs : e > epoch[r] => trained[r][e] = Never(r)
  BY <1>1 DEF SamplesOf, Saves, AtHead, InBody
<1>3. CASE pc[r] \in {"save_step", "save_smoke"}
  <2>1. c = [epoch |-> epoch[r], batch_idx |-> batch_idx[r], is_epoch_end |-> FALSE,
             global_step |-> global_step[r], trained |-> trained[r]]
    BY <1>3 DEF checkpoint, trainer_state
  <2>2. /\ epoch[r] < MaxEpochs /\ batch_idx[r] < epoch_batches
        /\ global_step[r] = epoch[r] * epoch_batches + (batch_idx[r] + 1)
        /\ epoch[r] \in Epochs
    BY <1>1, <1>3 DEF BodyOf, InBody, Epochs
  <2>3. resume_position(c) = [epoch |-> epoch[r], batch_idx |-> batch_idx[r] + 1]
    BY <2>1 DEF resume_position
  <2>4. PositionOK([epoch |-> epoch[r], batch_idx |-> batch_idx[r] + 1])
    BY <1>1, <2>2 DEF PositionOK
  <2>5. epoch[r] = 0 => Once(r, trained[r][0], first_list(r), batch_idx[r] + 1)
    BY <1>1, <1>3 DEF SamplesOf, ListOf, InBody
  <2>6. c \in Checkpoints(r)
    BY <1>1, <2>1 DEF Checkpoints
  <2> QED
    <3>1. ShardOf(r, c)
      BY <1>1, <1>2, <2>1, <2>2, <2>3, <2>4, <2>5, ShardAt
    <3> QED
      BY <2>1, <2>6, <3>1
<1>4. CASE pc[r] = "save_epoch"
  <2>1. c = [epoch |-> epoch[r], batch_idx |-> n_batches[r] - 1, is_epoch_end |-> TRUE,
             global_step |-> global_step[r], trained |-> trained[r]]
    BY <1>4 DEF checkpoint, trainer_state
  <2>2. /\ epoch[r] < MaxEpochs /\ batch_idx[r] = epoch_batches
        /\ global_step[r] = epoch[r] * epoch_batches + batch_idx[r]
        /\ epoch[r] \in Epochs
    BY <1>1, <1>4 DEF BodyOf, InBody, Epochs
  <2>3. resume_position(c) = [epoch |-> epoch[r] + 1, batch_idx |-> 0]
    BY <2>1 DEF resume_position
  <2>4. PositionOK([epoch |-> epoch[r] + 1, batch_idx |-> 0])
    BY <1>1, <2>2 DEF PositionOK
  <2>5. global_step[r] = (epoch[r] + 1) * epoch_batches + 0
    <3>1. (epoch[r] + 1) * epoch_batches = epoch[r] * epoch_batches + epoch_batches
      BY <1>1, EpochSteps
    <3>2. global_step[r] = epoch[r] * epoch_batches + epoch_batches
      BY <2>2
    <3>3. (epoch[r] + 1) * epoch_batches = global_step[r]
      BY <3>1, <3>2
    <3> QED
      BY <1>1, <3>3
  <2>6. /\ \A e \in Epochs : e > epoch[r] + 1 => trained[r][e] = Never(r)
        /\ epoch[r] + 1 < MaxEpochs => trained[r][epoch[r] + 1] = Never(r)
    <3>1. \A e \in Epochs : e > epoch[r] + 1 => e > epoch[r]
      BY <1>1 DEF Epochs
    <3>2. epoch[r] + 1 < MaxEpochs => epoch[r] + 1 \in Epochs /\ epoch[r] + 1 > epoch[r]
      BY <1>1 DEF Epochs
    <3> QED
      BY <1>2, <3>1, <3>2
  <2>7. c \in Checkpoints(r)
    BY <1>1, <2>1 DEF Checkpoints
  <2> QED
    <3>1. ShardOf(r, c)
      <4> DEFINE e == epoch[r] + 1
      <4>1. e \in Nat
        BY <1>1
      <4>2. /\ resume_position(c) = [epoch |-> e, batch_idx |-> 0]
            /\ PositionOK([epoch |-> e, batch_idx |-> 0]) /\ c.epoch \in Epochs
            /\ c.global_step = e * epoch_batches + 0 /\ c.is_epoch_end /\ c.trained = trained[r]
            /\ \A f \in Epochs : f > e => trained[r][f] = Never(r)
            /\ e < MaxEpochs => trained[r][e] = Never(r)
        BY <2>1, <2>2, <2>3, <2>4, <2>5, <2>6
      <4> HIDE DEF e
      <4> QED
        BY <1>2, <4>1, <4>2, ShardAt
    <3> QED
      BY <2>1, <2>7, <3>1
<1>5. CASE pc[r] = "save_final"
  <2>1. c = [epoch |-> MaxEpochs - 1, batch_idx |-> 0, is_epoch_end |-> TRUE,
             global_step |-> global_step[r], trained |-> trained[r]]
    BY <1>5 DEF checkpoint, trainer_state
  <2>2. /\ epoch[r] = MaxEpochs /\ MaxEpochs - 1 \in Epochs /\ MaxEpochs - 1 \in Nat
        /\ MaxEpochs - 1 + 1 = MaxEpochs
        /\ global_step[r] = epoch[r] * epoch_batches + resumed_batches(r)
        /\ PositionOK(resume_at[r])
    BY <1>1, <1>5 DEF HeadOf, AtHead, Epochs
  <2>3. resume_position(c) = [epoch |-> MaxEpochs, batch_idx |-> 0]
    BY <2>1, <2>2 DEF resume_position
  <2>4. PositionOK([epoch |-> MaxEpochs, batch_idx |-> 0])
    BY <1>1 DEF PositionOK
  <2>5. resumed_batches(r) = 0
    BY <2>2 DEF resumed_batches, PositionOK
  <2>6. global_step[r] = MaxEpochs * epoch_batches + 0
    BY <2>2, <2>5
  <2>7. \A e \in Epochs : e > MaxEpochs => trained[r][e] = Never(r)
    BY <1>2, <2>2
  <2>8. c \in Checkpoints(r)
    BY <1>1, <2>1, <2>2 DEF Checkpoints
  <2>9. ~(MaxEpochs < MaxEpochs)
    BY <1>1
  <2> QED
    <3>1. ShardOf(r, c)
      BY <1>1, <1>2, <2>1, <2>2, <2>3, <2>4, <2>6, <2>7, <2>9, ShardAt
    <3> QED
      BY <2>1, <2>8, <3>1
<1> QED
  BY <1>3, <1>4, <1>5 DEF Saves

\* What has been written is a checkpoint.
LEMMA Written ==
  ASSUME NEW d, d = [r \in Ranks |-> d[r]], \A r \in Ranks : d[r] \in Checkpoints(r)
  PROVE  d # NoCheckpoint
<1> DEFINE S == [epoch : Nat, batch_idx : Int, is_epoch_end : BOOLEAN, global_step : Nat,
                 trained : [Epochs -> Seq(Nat)]]
<1>1. ASSUME NEW r \in Ranks PROVE d[r] \in S
  <2>1. shard_size(r) \in Nat
    BY ShardSize
  <2>2. [Places(r) -> Nat] \subseteq Seq(Nat)
    BY <2>1 DEF Places
  <2>3. [Epochs -> [Places(r) -> Nat]] \subseteq [Epochs -> Seq(Nat)]
    BY <2>2
  <2> QED
    BY <2>3 DEF Checkpoints
<1>2. d \in [Ranks -> S]
  BY <1>1
<1> QED
  BY <1>2, NoCheckpointAssumption

LEMMA SaveStep ==
  ASSUME Inv, SaveCheckpoint
  PROVE  Inv'
<1>1. /\ \A r \in Ranks : pc[r] \in Saves
      /\ disk' = [r \in Ranks |-> checkpoint(r)]
      /\ final' = (final \/ pc[0] \in {"save_smoke", "save_final"})
      /\ pc' = [r \in Ranks |-> CASE pc[r] = "save_step" -> "batch"
                                  [] pc[r] = "save_epoch" -> "epoch"
                                  [] OTHER -> "close"]
      /\ batch_idx' = [r \in Ranks |->
                         IF pc[r] = "save_step" THEN batch_idx[r] + 1 ELSE batch_idx[r]]
      /\ epoch' = [r \in Ranks |-> IF pc[r] = "save_epoch" THEN epoch[r] + 1 ELSE epoch[r]]
      /\ UNCHANGED <<smoke, resume_at, tokenized, n_batches, valid, global_step, skips,
                     trained, resumed, restarts>>
  BY DEF SaveCheckpoint, All
<1>2. \A r \in Ranks :
        /\ disk'[r] \in Checkpoints(r) /\ ShardOf(r, disk'[r])
        /\ disk'[r].global_step = global_step[r]
  BY <1>1, ShardSaved
<1>3. \A r \in Ranks : pc[r] = "save_epoch" => epoch[r] < MaxEpochs
  BY OfRank DEF BodyOf, InBody
<1>4. TypeInv'
  <2>1. pc' \in [Ranks -> Labels] /\ batch_idx' \in [Ranks -> Nat]
    BY <1>1, OfRank DEF Labels, Waiting, Saves
  <2>2. epoch' \in [Ranks -> 0..MaxEpochs]
    <3>1. \A r \in Ranks :
            (IF pc[r] = "save_epoch" THEN epoch[r] + 1 ELSE epoch[r]) \in 0..MaxEpochs
      BY <1>3, OfRank
    <3> QED
      BY <1>1, <3>1
  <2>3. final' \in BOOLEAN
    BY <1>1 DEF Inv, TypeInv, TypeOK
  <2> QED
    BY <1>1, <1>2, <2>1, <2>2, <2>3 DEF Inv, TypeInv, TypeOK, Checkpoints
<1>5. DiskInv'
  <2>1. ASSUME NEW r \in Ranks PROVE ShardOf(r, disk[r])'
    BY <1>1, <1>2 DEF ShardOf, PositionOK, Counted, Once, Never, first_list
  <2> QED
    BY <2>1 DEF DiskInv
<1>6. disk' # NoCheckpoint
  BY <1>1, <1>2, Written
<1>7. ASSUME NEW r \in Ranks PROVE RankInv(r)'
  <2>1. /\ pc[r] \in Saves /\ disk'[r].global_step = global_step[r]
        /\ smoke' = smoke /\ global_step'[r] = global_step[r] /\ skips'[r] = skips[r]
        /\ tokenized'[r] = tokenized[r] /\ trained'[r] = trained[r] /\ resumed' = resumed
        /\ resume_at'[r] = resume_at[r] /\ n_batches'[r] = n_batches[r]
    BY <1>1, <1>2
  <2>2. CASE pc[r] = "save_step"
    <3>1. pc'[r] = "batch" /\ batch_idx'[r] = batch_idx[r] + 1 /\ epoch'[r] = epoch[r]
      BY <1>1, <2>2
    <3>2. HeadOf(r)'
      BY <2>1, <2>2, <3>1, OfRank DEF HeadOf, AtHead, InBody, PositionOK
    <3>3. BodyOf(r)'
      <4>1. /\ n_batches[r] = epoch_batches /\ epoch[r] < MaxEpochs /\ batch_idx[r] < epoch_batches
            /\ global_step[r] = epoch[r] * epoch_batches + (batch_idx[r] + 1)
        BY <2>2, OfRank DEF BodyOf, InBody
      <4>2. batch_idx[r] + 1 <= epoch_batches
        BY <4>1, OfRank
      <4> QED
        BY <2>1, <3>1, <4>1, <4>2 DEF BodyOf, InBody
    <3>4. SmokeOf(r)' /\ RaisedOf(r)'
      BY <2>1, <2>2, <3>1, OfRank DEF SmokeOf, RaisedOf, first_step
    <3>5. ListOf(r)'
      BY <2>1, <2>2, <3>1, OfRank DEF ListOf, Permuted, first_list, InBody
    <3>6. SamplesOf(r)'
      BY <2>1, <2>2, <3>1, OfRank DEF SamplesOf, Counted, AtHead, InBody, Never, Once
    <3> QED
      BY <3>2, <3>3, <3>4, <3>5, <3>6 DEF RankInv
  <2>3. CASE pc[r] = "save_epoch"
    <3>1. pc'[r] = "epoch" /\ batch_idx'[r] = batch_idx[r] /\ epoch'[r] = epoch[r] + 1
      BY <1>1, <2>3
    <3>2. /\ epoch[r] \in Nat /\ MaxEpochs \in Nat /\ epoch[r] < MaxEpochs
          /\ resume_at[r].epoch <= epoch[r] /\ resume_at[r].epoch \in Nat
          /\ PositionOK(resume_at[r]) /\ batch_idx[r] = epoch_batches
          /\ global_step[r] = epoch[r] * epoch_batches + batch_idx[r]
      BY <2>3, OfRank DEF HeadOf, BodyOf, InBody
    <3>3. resumed_batches(r)' = 0
      BY <2>1, <3>1, <3>2 DEF resumed_batches
    <3>4. HeadOf(r)' /\ BodyOf(r)'
      <4>1. (epoch[r] + 1) * epoch_batches = epoch[r] * epoch_batches + epoch_batches
        BY <3>2, EpochSteps
      <4>2. (epoch[r] + 1) * epoch_batches = global_step[r] /\ global_step[r] \in Nat
        BY <3>2, <4>1, OfRank
      <4>3. global_step'[r] = epoch'[r] * epoch_batches + resumed_batches(r)'
        BY <2>1, <3>1, <3>3, <4>2
      <4>4. resume_at'[r].epoch <= epoch'[r]
        BY <2>1, <3>1, <3>2
      <4>5. PositionOK(resume_at[r])'
        BY <2>1, <3>2 DEF PositionOK
      <4> QED
        BY <3>1, <4>3, <4>4, <4>5 DEF HeadOf, BodyOf, AtHead, InBody
    <3>5. SmokeOf(r)' /\ RaisedOf(r)'
      BY <1>6, <2>1, <2>3, <3>1, OfRank DEF SmokeOf, RaisedOf, first_step
    <3>6. ListOf(r)'
      BY <2>1, <2>3, <3>1, <3>2, OfRank DEF ListOf, Permuted, InBody
    <3>7. SamplesOf(r)'
      <4>1. /\ Counted(r, trained[r])
            /\ \A e \in Epochs : e > epoch[r] => trained[r][e] = Never(r)
        BY <2>3, OfRank DEF SamplesOf, AtHead, InBody
      <4>2. \A e \in Epochs : e > epoch[r] + 1 => e > epoch[r]
        BY <3>2 DEF Epochs
      <4>3. epoch[r] + 1 < MaxEpochs => epoch[r] + 1 \in Epochs /\ epoch[r] + 1 > epoch[r]
        BY <3>2 DEF Epochs
      <4>4. \A e \in Epochs : e > epoch'[r] => trained'[r][e] = Never(r)
        BY <2>1, <3>1, <4>1, <4>2
      <4>5. epoch'[r] < MaxEpochs => trained'[r][epoch'[r]] = Never(r)
        BY <2>1, <3>1, <4>1, <4>3
      <4>6. Counted(r, trained[r])'
        BY <2>1, <4>1 DEF Counted
      <4> QED
        BY <3>1, <3>3, <4>4, <4>5, <4>6 DEF SamplesOf, AtHead, InBody, Never
    <3> QED
      BY <3>4, <3>5, <3>6, <3>7 DEF RankInv
  <2>4. CASE pc[r] \in {"save_smoke", "save_final"}
    <3>1. pc'[r] = "close"
      BY <1>1, <2>4
    <3> QED
      BY <2>1, <3>1, LeftRank
  <2> QED
    BY <2>1, <2>2, <2>3, <2>4 DEF Saves
<1> QED
  BY <1>4, <1>5, <1>7 DEF Inv

-----------------------------------------------------------------------------
(* Every step keeps the invariant.                                         *)

LEMMA InvInit == Init => Inv
<1> SUFFICES ASSUME Init PROVE Inv
  OBVIOUS
<1>1. NewLaunch /\ disk = NoCheckpoint /\ resumed = {} /\ restarts = 0
  BY DEF Init, NewLaunch
<1>2. Found
  BY <1>1, SFTAssumption DEF Found, DiskInv
<1> QED
  BY <1>1, <1>2, LaunchInv

LEMMA InvStutter ==
  ASSUME Inv, UNCHANGED vars
  PROVE  Inv'
<1>1. UNCHANGED <<pc, smoke, epoch, resume_at, tokenized, n_batches, batch_idx, valid,
                  global_step, skips, trained, disk, final, resumed, restarts>>
  BY DEF vars
<1>2. TypeInv'
  BY <1>1 DEF Inv, TypeInv, TypeOK, Checkpoints
<1>3. DiskInv'
  BY <1>1, DiskKept DEF Inv
<1>4. ASSUME NEW r \in Ranks PROVE RankInv(r)'
  BY <1>1, RankKept DEF Inv
<1> QED
  BY <1>2, <1>3, <1>4 DEF Inv

LEMMA InvNext == Inv /\ [Next]_vars => Inv'
<1> SUFFICES ASSUME Inv, [Next]_vars PROVE Inv'
  OBVIOUS
<1>1. CASE \E r \in Ranks : Rank(r)
  BY <1>1, StartStep, BeginEpochStep, TrainBatchStep, EndEpochStep, FinishStep DEF Rank
<1>2. CASE Collective
  BY <1>2, AgreeStep, SyncStep, GatherStep, SaveStep, CloseStep, TimeoutStep DEF Collective
<1>3. CASE Restart
  BY <1>3, RestartStep
<1>4. CASE UNCHANGED vars
  BY <1>4, InvStutter
<1> QED
  BY <1>1, <1>2, <1>3, <1>4 DEF Next, Terminated

\* The step counter, the order of the samples and what of them has been taken fit the
\* place of every rank in its epochs, in memory and on disk.
THEOREM Invariant == Spec => []Inv
<1>1. Init => Inv
  BY InvInit
<1>2. Inv /\ [Next]_vars => Inv'
  BY InvNext
<1> QED
  BY <1>1, <1>2, PTL DEF Spec

\* Type correctness of the training loop of sft_trainer.py and of what it saves.
THEOREM Typing == Spec => []TypeOK
<1>1. Inv => TypeOK
  BY DEF Inv, TypeInv
<1> QED
  BY <1>1, Invariant, PTL

\* Before each batch the step counter is the number of batches behind the rank in all
\* epochs, whatever was resumed, and a smoke launch takes one step.
THEOREM Steps == Spec => []StepAccount
<1>1. Inv => StepAccount
  <2> SUFFICES ASSUME Inv PROVE StepAccount
    OBVIOUS
  <2>1. SmokeOneStep
    BY OfRank DEF SmokeOneStep, SmokeOf, first_step
  <2>2. ASSUME NEW r \in Ranks, pc[r] = "batch"
        PROVE  global_step[r] = epoch[r] * epoch_batches + batch_idx[r]
    BY <2>2, OfRank DEF BodyOf, InBody
  <2> QED
    BY <2>1, <2>2 DEF StepAccount
<1> QED
  BY <1>1, Invariant, PTL

\* No sample is taken twice in an epoch, but for a later one that was resumed within.
THEOREM Samples == Spec => []NoSampleTwice
<1>1. Inv => NoSampleTwice
  BY OfRank DEF NoSampleTwice, SamplesOf, Counted
<1> QED
  BY <1>1, Invariant, PTL

\* No rank writes a checkpoint once one has raised at an infinite loss.
THEOREM Closed == Spec => FailClosed
<1> DEFINE A == \A r \in Ranks : (skips[r] > 0 /\ ~AllowSkip) => (disk' = disk /\ (final' => final))
<1>1. Inv /\ [Next]_vars => [A]_vars
  <2> SUFFICES ASSUME Inv, Next, NEW r \in Ranks, skips[r] > 0, ~AllowSkip
               PROVE  disk' = disk /\ (final' => final)
    OBVIOUS
  <2>1. pc[r] \in {"close", "failed", "killed"}
    BY OfRank DEF RaisedOf
  <2>2. CASE \E q \in Ranks : Rank(q)
    BY <2>2 DEF Rank, Start, BeginEpoch, TrainBatch, EndEpoch, Finish, historyVars
  <2>3. CASE Collective
    <3>1. ~SaveCheckpoint
      BY <2>1 DEF SaveCheckpoint, All, Saves
    <3> QED
      BY <2>3, <3>1
      DEF Collective, AgreeOnBatches, SyncAndStep, Gather, Close, CollectiveTimeout, historyVars
  <2>4. CASE Restart
    BY <2>4 DEF Restart
  <2>5. CASE Terminated
    BY <2>5 DEF Terminated, vars
  <2> QED
    BY <2>2, <2>3, <2>4, <2>5 DEF Next
<1> QED
  BY <1>1, Invariant, PTL DEF Spec, FailClosed

-----------------------------------------------------------------------------
(* Ranks that meet, when no save goes by the clock.                        *)

head(e, b, at) == <<IF e < MaxEpochs THEN "count" ELSE "save_final", e, b, at>>

start_at(r) ==
  IF disk = NoCheckpoint THEN [epoch |-> 0, batch_idx |-> 0] ELSE resume_position(disk[r])

\* The collective that rank r waits in, or is on the way to.
Meets(r) ==
  CASE pc[r] = "start" -> head(start_at(r).epoch, 0, start_at(r))
    [] pc[r] = "epoch" -> head(epoch[r], batch_idx[r], resume_at[r])
    [] pc[r] = "batch" ->
         IF batch_idx[r] < n_batches[r] THEN <<"sync", epoch[r], batch_idx[r], resume_at[r]>>
         ELSE IF SaveEveryEpoch THEN <<"save_epoch", epoch[r], batch_idx[r], resume_at[r]>>
         ELSE head(epoch[r] + 1, batch_idx[r], resume_at[r])
    [] OTHER -> <<pc[r], epoch[r], batch_idx[r], resume_at[r]>>

DiskAgrees ==
  disk # NoCheckpoint => \A r, q \in Ranks : resume_position(disk[r]) = resume_position(disk[q])

MeetInv ==
  /\ \A r \in Ranks : pc[r] \notin {"killed", "failed"}
  /\ \A r, q \in Ranks : Meets(r) = Meets(q)
  /\ \A r, q \in Ranks : pc[r] = "close" /\ pc[q] = "close" => global_step[r] = global_step[q]

LockInv == Inv /\ DiskAgrees /\ (raised \/ MeetInv)

\* Ranks that wait have the same step behind them.
LEMMA SameMeeting ==
  ASSUME LockInv, ~raised, NEW r \in Ranks, NEW q \in Ranks,
         pc[r] \in Waiting, pc[q] \in Waiting
  PROVE  /\ pc[r] = pc[q] /\ epoch[r] = epoch[q] /\ batch_idx[r] = batch_idx[q]
         /\ resume_at[r] = resume_at[q] /\ global_step[r] = global_step[q]
<1>1. MeetInv /\ Inv
  BY DEF LockInv
<1>2. /\ Meets(r) = <<pc[r], epoch[r], batch_idx[r], resume_at[r]>>
      /\ Meets(q) = <<pc[q], epoch[q], batch_idx[q], resume_at[q]>>
  BY DEF Meets, Waiting, Saves
<1>3. Meets(r) = Meets(q)
  BY <1>1 DEF MeetInv
<1>4. /\ pc[r] = pc[q] /\ epoch[r] = epoch[q] /\ batch_idx[r] = batch_idx[q]
      /\ resume_at[r] = resume_at[q]
  BY <1>2, <1>3
<1>5. resumed_batches(r) = resumed_batches(q)
  BY <1>4 DEF resumed_batches
<1>6. HeadOf(r) /\ HeadOf(q) /\ BodyOf(r) /\ BodyOf(q)
  BY <1>1, OfRank
<1>7. CASE pc[r] \in AtHead
  BY <1>4, <1>5, <1>6, <1>7 DEF HeadOf
<1>8. CASE pc[r] \in {"sync", "gather", "save_epoch"}
  BY <1>4, <1>6, <1>8 DEF BodyOf, InBody
<1>9. CASE pc[r] \in {"save_step", "save_smoke"}
  BY <1>4, <1>6, <1>9 DEF BodyOf, InBody
<1>10. CASE pc[r] = "close"
  BY <1>1, <1>4, <1>10 DEF MeetInv
<1> QED
  BY <1>4, <1>7, <1>8, <1>9, <1>10 DEF Waiting, Saves, AtHead

\* An infinite loss is not forgotten within a launch.
LEMMA RaisedStays ==
  ASSUME Inv, raised, skips' \in [Ranks -> Nat], \A r \in Ranks : skips'[r] >= skips[r]
  PROVE  raised'
<1>1. PICK r \in Ranks : skips[r] > 0 /\ ~AllowSkip
  BY DEF raised
<1>2. skips'[r] > 0
  BY <1>1, OfRank
<1> QED
  BY <1>1, <1>2 DEF raised

\* A rank on its own goes to where it was on the way to.
LEMMA OnTheWay ==
  ASSUME LockInv, NEW r \in Ranks, Alone(r), Meets(r)' = Meets(r),
         pc'[r] \notin {"killed", "failed", "close"}, skips' = skips
  PROVE  DiskAgrees' /\ (raised \/ MeetInv)'
<1>1. DiskAgrees'
  BY DEF LockInv, DiskAgrees, Alone, resume_position
<1>2. ASSUME ~raised' PROVE MeetInv'
  <2>1. MeetInv
    BY <1>2 DEF LockInv, raised
  <2>2. ASSUME NEW q \in Ranks PROVE Meets(q)' = Meets(q)
    <3>1. CASE q = r
      BY <3>1
    <3>2. CASE q # r
      BY <3>2 DEF Alone, Meets, head, start_at, resume_position
    <3> QED
      BY <3>1, <3>2
  <2>3. \A q, s \in Ranks : Meets(q)' = Meets(s)'
    BY <2>1, <2>2 DEF MeetInv
  <2>4. \A q \in Ranks : q # r => pc'[q] = pc[q] /\ global_step'[q] = global_step[q]
    BY DEF Alone
  <2>5. \A q \in Ranks : pc'[q] \notin {"killed", "failed"}
    BY <2>1, <2>4 DEF MeetInv
  <2>6. \A q, s \in Ranks : pc'[q] = "close" /\ pc'[s] = "close" => global_step'[q] = global_step'[s]
    BY <2>1, <2>4 DEF MeetInv
  <2> QED
    BY <2>3, <2>5, <2>6 DEF MeetInv
<1> QED
  BY <1>1, <1>2

LEMMA RankMeets ==
  ASSUME LockInv, NEW r \in Ranks, Rank(r)
  PROVE  DiskAgrees' /\ (raised \/ MeetInv)'
<1>1. Inv /\ pc \in [Ranks -> Labels]
  BY DEF LockInv, Inv, TypeInv, TypeOK
<1>2. CASE Start(r)
  <2>1. /\ pc[r] = "start" /\ pc' = [pc EXCEPT ![r] = "epoch"]
        /\ UNCHANGED <<smoke, tokenized, n_batches, batch_idx, skips, disk>>
        /\ resumed \subseteq resumed'
    BY <1>2 DEF Start, goto
  <2>2. /\ batch_idx[r] = 0 /\ epoch[r] = 0 /\ resume_at[r] = [epoch |-> 0, batch_idx |-> 0]
        /\ epoch \in [Ranks -> 0..MaxEpochs] /\ global_step \in [Ranks -> Nat]
        /\ resume_at \in [Ranks -> [epoch : 0..MaxEpochs, batch_idx : Nat]]
        /\ DOMAIN trained = Ranks
    BY <1>1, <2>1, OfRank DEF HeadOf, Inv, TypeInv, TypeOK
  <2>3. epoch'[r] = start_at(r).epoch /\ resume_at'[r] = start_at(r)
    BY <1>2, <2>2 DEF Start, start_at
  <2>4. Alone(r)
    <3>1. \A q \in Ranks : q # r =>
            /\ epoch'[q] = epoch[q] /\ resume_at'[q] = resume_at[q]
            /\ global_step'[q] = global_step[q] /\ trained'[q] = trained[q]
      BY <1>2, <2>2 DEF Start
    <3> QED
      BY <1>1, <2>1, <3>1 DEF Alone
  <2>5. pc'[r] = "epoch" /\ batch_idx'[r] = 0
    BY <1>1, <2>1, <2>2
  <2>6. Meets(r) = head(start_at(r).epoch, 0, start_at(r))
    BY <2>1 DEF Meets
  <2>7. Meets(r)' = head(start_at(r).epoch, 0, start_at(r))
    BY <2>3, <2>5 DEF Meets, head
  <2> QED
    BY <2>1, <2>4, <2>5, <2>6, <2>7, OnTheWay
<1>3. CASE BeginEpoch(r)
  <2>1. /\ pc[r] = "epoch" /\ pc' = [pc EXCEPT ![r] = "count"] /\ epoch[r] < MaxEpochs
        /\ UNCHANGED <<smoke, epoch, resume_at, batch_idx, global_step, skips, trained, disk, resumed>>
        /\ \A q \in Ranks : q # r => tokenized'[q] = tokenized[q] /\ n_batches'[q] = n_batches[q]
    BY <1>1, <1>3 DEF BeginEpoch, goto, historyVars, Inv, TypeInv, TypeOK
  <2>2. Alone(r) /\ pc'[r] = "count"
    BY <1>1, <2>1 DEF Alone
  <2>3. Meets(r) = <<"count", epoch[r], batch_idx[r], resume_at[r]>>
    BY <2>1 DEF Meets, head
  <2>4. Meets(r)' = <<"count", epoch[r], batch_idx[r], resume_at[r]>>
    BY <2>1, <2>2 DEF Meets
  <2> QED
    BY <2>1, <2>2, <2>3, <2>4, OnTheWay
<1>4. CASE TrainBatch(r)
  <2>1. /\ pc[r] = "batch" /\ pc' = [pc EXCEPT ![r] = "sync"] /\ batch_idx[r] < n_batches[r]
        /\ UNCHANGED <<smoke, epoch, resume_at, tokenized, n_batches, batch_idx, global_step,
                       skips, trained, disk, resumed>>
    BY <1>4 DEF TrainBatch, goto, loopVars, historyVars
  <2>2. Alone(r) /\ pc'[r] = "sync"
    BY <1>1, <2>1 DEF Alone
  <2>3. Meets(r) = <<"sync", epoch[r], batch_idx[r], resume_at[r]>>
    BY <2>1 DEF Meets
  <2>4. Meets(r)' = <<"sync", epoch[r], batch_idx[r], resume_at[r]>>
    BY <2>1, <2>2 DEF Meets
  <2> QED
    BY <2>1, <2>2, <2>3, <2>4, OnTheWay
<1>5. CASE EndEpoch(r)
  <2>1. /\ pc[r] = "batch" /\ ~(batch_idx[r] < n_batches[r])
        /\ UNCHANGED <<smoke, resume_at, tokenized, n_batches, batch_idx, global_step,
                       skips, trained, disk, resumed>>
    BY <1>1, <1>5, OfRank DEF EndEpoch, historyVars
  <2>2. epoch \in [Ranks -> 0..MaxEpochs]
    BY <1>1 DEF Inv, TypeInv, TypeOK
  <2>3. CASE SaveEveryEpoch
    <3>1. pc' = [pc EXCEPT ![r] = "save_epoch"] /\ epoch' = epoch
      BY <1>5, <2>3 DEF EndEpoch, goto
    <3>2. Alone(r) /\ pc'[r] = "save_epoch"
      BY <1>1, <2>1, <3>1 DEF Alone
    <3>3. Meets(r) = <<"save_epoch", epoch[r], batch_idx[r], resume_at[r]>>
      BY <2>1, <2>3 DEF Meets
    <3>4. Meets(r)' = <<"save_epoch", epoch[r], batch_idx[r], resume_at[r]>>
      BY <2>1, <3>1, <3>2 DEF Meets
    <3> QED
      BY <2>1, <3>2, <3>3, <3>4, OnTheWay
  <2>4. CASE ~SaveEveryEpoch
    <3>1. pc' = [pc EXCEPT ![r] = "epoch"] /\ epoch' = [epoch EXCEPT ![r] = epoch[r] + 1]
      BY <1>5, <2>4 DEF EndEpoch, goto
    <3>2. Alone(r) /\ pc'[r] = "epoch" /\ epoch'[r] = epoch[r] + 1
      BY <1>1, <2>1, <2>2, <3>1 DEF Alone
    <3>3. Meets(r) = head(epoch[r] + 1, batch_idx[r], resume_at[r])
      BY <2>1, <2>4 DEF Meets
    <3>4. Meets(r)' = head(epoch[r] + 1, batch_idx[r], resume_at[r])
      BY <2>1, <3>2 DEF Meets, head
    <3> QED
      BY <2>1, <3>2, <3>3, <3>4, OnTheWay
  <2> QED
    BY <2>3, <2>4
<1>6. CASE Finish(r)
  <2>1. /\ pc[r] = "epoch" /\ pc' = [pc EXCEPT ![r] = "save_final"] /\ ~(epoch[r] < MaxEpochs)
        /\ UNCHANGED <<smoke, epoch, resume_at, tokenized, n_batches, batch_idx, global_step,
                       skips, trained, disk, resumed>>
    BY <1>1, <1>6, OfRank
    DEF Finish, goto, final_label, nonfinite_grad_skips, loopVars, historyVars
  <2>2. Alone(r) /\ pc'[r] = "save_final"
    BY <1>1, <2>1 DEF Alone
  <2>3. Meets(r) = <<"save_final", epoch[r], batch_idx[r], resume_at[r]>>
    BY <2>1 DEF Meets, head
  <2>4. Meets(r)' = <<"save_final", epoch[r], batch_idx[r], resume_at[r]>>
    BY <2>1, <2>2 DEF Meets
  <2> QED
    BY <2>1, <2>2, <2>3, <2>4, OnTheWay
<1> QED
  BY <1>2, <1>3, <1>4, <1>5, <1>6 DEF Rank

\* After a collective all ranks are at the same place.
LEMMA AllAlike ==
  ASSUME \A r \in Ranks : pc'[r] \notin {"killed", "failed", "start"},
         \A r, q \in Ranks :
           /\ pc'[r] = pc'[q] /\ epoch'[r] = epoch'[q] /\ batch_idx'[r] = batch_idx'[q]
           /\ resume_at'[r] = resume_at'[q] /\ n_batches'[r] = n_batches'[q],
         \A r, q \in Ranks :
           pc'[r] = "close" /\ pc'[q] = "close" => global_step'[r] = global_step'[q]
  PROVE  MeetInv'
<1>1. ASSUME NEW r \in Ranks, NEW q \in Ranks PROVE Meets(r)' = Meets(q)'
  <2>1. /\ pc'[r] = pc'[q] /\ epoch'[r] = epoch'[q] /\ batch_idx'[r] = batch_idx'[q]
        /\ resume_at'[r] = resume_at'[q] /\ n_batches'[r] = n_batches'[q] /\ pc'[r] # "start"
    OBVIOUS
  <2> QED
    BY <2>1 DEF Meets, head
<1> QED
  BY <1>1 DEF MeetInv

LEMMA CollectiveMeets ==
  ASSUME LockInv, ~TimedSaves, Collective
  PROVE  DiskAgrees' /\ (raised \/ MeetInv)'
<1>1. Inv /\ DiskAgrees /\ (raised \/ MeetInv)
  BY DEF LockInv
<1>2. CASE raised
  <2>1. /\ \E r \in Ranks : pc[r] \notin Saves
        /\ ~SaveCheckpoint
    BY <1>1, <1>2, OfRank DEF raised, RaisedOf, SaveCheckpoint, All, Saves
  <2>2. disk' = disk
    BY <2>1 DEF Collective, AgreeOnBatches, SyncAndStep, Gather, Close, CollectiveTimeout
  <2>3. skips \in [Ranks -> Nat]
    BY <1>1 DEF Inv, TypeInv, TypeOK
  <2>4. skips' \in [Ranks -> Nat] /\ \A r \in Ranks : skips'[r] >= skips[r]
    <3>1. CASE SyncAndStep
      <4>1. \A r \in Ranks : skips[r] + (MicroBatches - valid[r]) \in Nat
                             /\ skips[r] + (MicroBatches - valid[r]) >= skips[r]
        BY <1>1, OfRank, SFTAssumption
      <4> QED
        BY <3>1, <4>1 DEF SyncAndStep
    <3>2. CASE ~SyncAndStep
      <4>1. skips' = skips
        BY <2>1, <3>2
        DEF Collective, AgreeOnBatches, SyncAndStep, Gather, Close, CollectiveTimeout
      <4> QED
        BY <2>3, <4>1
    <3> QED
      BY <3>1, <3>2
  <2> QED
    BY <1>1, <1>2, <2>2, <2>4, RaisedStays DEF DiskAgrees, resume_position
<1>3. CASE ~raised
  <2>1. MeetInv /\ \A r \in Ranks : ~(skips[r] > 0 /\ ~AllowSkip)
    BY <1>1, <1>3 DEF raised
  <2>2. ASSUME NEW r \in Ranks, NEW q \in Ranks, pc[r] \in Waiting, pc[q] \in Waiting
        PROVE  /\ pc[r] = pc[q] /\ epoch[r] = epoch[q] /\ batch_idx[r] = batch_idx[q]
               /\ resume_at[r] = resume_at[q] /\ global_step[r] = global_step[q]
    BY <1>3, <2>2, SameMeeting
  <2>3. CASE AgreeOnBatches
    <3>1. /\ \A r \in Ranks : pc[r] \in Waiting
          /\ n_batches' = [r \in Ranks |-> agreed_batches(r)]
          /\ batch_idx' = [r \in Ranks |-> resumed_batches(r)]
          /\ pc' = [r \in Ranks |-> "batch"]
          /\ UNCHANGED <<epoch, resume_at, global_step, disk>>
      BY <2>3 DEF AgreeOnBatches, All, resumed_batches, Waiting
    <3>2. \A r, q \in Ranks : n_batches'[r] = n_batches'[q]
      BY <3>1 DEF agreed_batches
    <3>3. \A r, q \in Ranks : batch_idx'[r] = batch_idx'[q] /\ epoch[r] = epoch[q] /\ resume_at[r] = resume_at[q]
      BY <2>2, <3>1 DEF resumed_batches
    <3>4. MeetInv'
      BY <3>1, <3>2, <3>3, AllAlike
    <3> QED
      BY <1>1, <3>1, <3>4 DEF DiskAgrees, resume_position
  <2>4. CASE SyncAndStep
    <3>1. /\ \A r \in Ranks : pc[r] \in Waiting
          /\ skips' = [r \in Ranks |-> skips[r] + (MicroBatches - valid[r])]
          /\ pc' = [r \in Ranks |-> IF raises(r) THEN "close" ELSE "gather"]
          /\ UNCHANGED <<epoch, resume_at, n_batches, batch_idx, global_step, disk>>
          /\ \A r \in Ranks : pc[r] = "sync"
      BY <2>4 DEF SyncAndStep, All, loopVars, Waiting
    <3>2. ASSUME ~raised' PROVE MeetInv'
      <4>1. \A r \in Ranks : ~raises(r)
        <5> SUFFICES ASSUME NEW r \in Ranks, raises(r) PROVE raised'
          BY <3>2
        <5>1. skips'[r] > 0 /\ ~AllowSkip
          BY <1>1, <3>1, OfRank, SFTAssumption DEF raises
        <5> QED
          BY <5>1 DEF raised
      <4>2. \A r \in Ranks : pc'[r] = "gather"
        BY <3>1, <4>1
      <4>3. \A r, q \in Ranks : n_batches[r] = n_batches[q]
        BY <1>1, <3>1, OfRank DEF BodyOf, InBody
      <4> QED
        BY <2>2, <3>1, <4>2, <4>3, AllAlike
    <3> QED
      BY <1>1, <3>1, <3>2 DEF DiskAgrees, resume_position
  <2>5. CASE Gather
    <3>1. /\ \A r \in Ranks : pc[r] \in Waiting /\ pc[r] = "gather"
          /\ global_step' = [r \in Ranks |-> global_step[r] + 1]
          /\ batch_idx' = [r \in Ranks |->
                             IF pc'[r] = "batch" THEN batch_idx[r] + 1 ELSE batch_idx[r]]
          /\ UNCHANGED <<smoke, epoch, resume_at, n_batches, skips, disk>>
      BY <2>5 DEF Gather, All, Waiting
    <3>2. PICK clock \in [Ranks -> BOOLEAN] : pc' = [r \in Ranks |-> after_step(r, clock)]
      BY <2>5 DEF Gather
    <3>3. \A r, q \in Ranks : global_step'[r] = global_step'[q]
      BY <2>2, <3>1
    <3>4. \A r, q \in Ranks : pc'[r] = pc'[q] /\ pc'[r] \in {"save_smoke", "save_step", "batch"}
      BY <3>2, <3>3 DEF after_step, save_due, final_label, nonfinite_grad_skips
    <3>5. \A r, q \in Ranks : n_batches[r] = n_batches[q]
      BY <1>1, <3>1, OfRank DEF BodyOf, InBody
    <3>6. \A r, q \in Ranks : batch_idx'[r] = batch_idx'[q]
      BY <2>2, <3>1, <3>4
    <3>7. MeetInv'
      BY <2>2, <3>1, <3>4, <3>5, <3>6, AllAlike
    <3> QED
      BY <1>1, <3>1, <3>7 DEF DiskAgrees, resume_position
  <2>6. CASE SaveCheckpoint
    <3>1. /\ \A r \in Ranks : pc[r] \in Waiting /\ pc[r] \in Saves
          /\ disk' = [r \in Ranks |-> checkpoint(r)]
          /\ pc' = [r \in Ranks |-> CASE pc[r] = "save_step" -> "batch"
                                      [] pc[r] = "save_epoch" -> "epoch"
                                      [] OTHER -> "close"]
          /\ batch_idx' = [r \in Ranks |->
                             IF pc[r] = "save_step" THEN batch_idx[r] + 1 ELSE batch_idx[r]]
          /\ epoch' = [r \in Ranks |-> IF pc[r] = "save_epoch" THEN epoch[r] + 1 ELSE epoch[r]]
          /\ UNCHANGED <<resume_at, n_batches, global_step, skips>>
      BY <2>6 DEF SaveCheckpoint, All, Waiting
    <3>2. ASSUME NEW r \in Ranks, NEW q \in Ranks
          PROVE  resume_position(disk'[r]) = resume_position(disk'[q])
      <4>1. disk'[r] = checkpoint(r) /\ disk'[q] = checkpoint(q)
        BY <3>1
      <4>2. pc[r] = pc[q] /\ epoch[r] = epoch[q] /\ batch_idx[r] = batch_idx[q]
        BY <2>2, <3>1
      <4>3. CASE pc[r] = "save_epoch"
        BY <4>1, <4>2, <4>3 DEF checkpoint, trainer_state, resume_position
      <4>4. CASE pc[r] = "save_final"
        BY <4>1, <4>2, <4>4 DEF checkpoint, trainer_state, resume_position
      <4>5. CASE pc[r] \in {"save_step", "save_smoke"}
        BY <4>1, <4>2, <4>5 DEF checkpoint, trainer_state, resume_position
      <4> QED
        BY <3>1, <4>3, <4>4, <4>5 DEF Saves
    <3>3. DiskAgrees'
      BY <3>2 DEF DiskAgrees, resume_position
    <3>4. \A r, q \in Ranks : pc[r] = pc[q] /\ epoch[r] = epoch[q] /\ batch_idx[r] = batch_idx[q]
                              /\ resume_at[r] = resume_at[q] /\ global_step[r] = global_step[q]
      BY <2>2, <3>1
    <3>5. \A r, q \in Ranks : pc'[r] = pc'[q] /\ pc'[r] \in {"batch", "epoch", "close"}
      BY <3>1, <3>4
    <3>6. \A r, q \in Ranks : epoch'[r] = epoch'[q] /\ batch_idx'[r] = batch_idx'[q]
      BY <3>1, <3>4
    <3>7. ASSUME NEW r \in Ranks, NEW q \in Ranks PROVE Meets(r)' = Meets(q)'
      <4>1. CASE pc'[r] = "batch"
        <5>1. pc[r] = "save_step" /\ pc[q] = "save_step"
          BY <3>1, <3>4, <4>1
        <5>2. n_batches'[r] = n_batches'[q]
          BY <1>1, <3>1, <5>1, OfRank DEF BodyOf, InBody
        <5> QED
          BY <3>1, <3>4, <3>5, <3>6, <4>1, <5>2 DEF Meets, head
      <4>2. CASE pc'[r] # "batch"
        BY <3>1, <3>4, <3>5, <3>6, <4>2 DEF Meets, head
      <4> QED
        BY <4>1, <4>2
    <3>8. MeetInv'
      BY <3>1, <3>4, <3>5, <3>7 DEF MeetInv
    <3> QED
      BY <3>3, <3>8
  <2>7. CASE Close
    <3>1. /\ \A r \in Ranks : pc[r] \in Waiting
          /\ pc' = [r \in Ranks |-> IF skips[r] > 0 /\ ~AllowSkip THEN "failed" ELSE "done"]
          /\ UNCHANGED <<epoch, resume_at, n_batches, batch_idx, global_step, disk>>
      BY <2>7 DEF Close, All, loopVars, Waiting
    <3>2. \A r \in Ranks : pc'[r] = "done"
      BY <2>1, <3>1
    <3>3. ASSUME NEW r \in Ranks, NEW q \in Ranks PROVE Meets(r)' = Meets(q)'
      <4>1. epoch'[r] = epoch'[q] /\ batch_idx'[r] = batch_idx'[q] /\ resume_at'[r] = resume_at'[q]
        BY <2>2, <3>1
      <4> QED
        BY <3>2, <4>1 DEF Meets
    <3> QED
      BY <1>1, <3>1, <3>2, <3>3 DEF DiskAgrees, resume_position, MeetInv
  <2>8. CASE CollectiveTimeout
    <3>1. /\ \A r \in Ranks : pc[r] \in Waiting
          /\ \A S \in {{"count"}, {"sync"}, {"gather"}, {"close"}, Saves} : ~All(S)
      BY <2>8 DEF CollectiveTimeout, All
    <3>2. 0 \in Ranks
      BY SFTAssumption DEF Ranks
    <3>3. \A r \in Ranks : pc[r] = pc[0]
      BY <2>2, <3>1, <3>2
    <3>4. All({pc[0]}) /\ (pc[0] \in Saves => All(Saves))
      BY <3>3 DEF All
    <3>5. pc[0] \in {"count", "sync", "gather", "close"} \cup Saves
      BY <3>1, <3>2 DEF Waiting
    <3> QED
      BY <3>1, <3>4, <3>5
  <2> QED
    BY <2>3, <2>4, <2>5, <2>6, <2>7, <2>8 DEF Collective
<1> QED
  BY <1>2, <1>3

LEMMA RestartMeets ==
  ASSUME LockInv, Restart
  PROVE  DiskAgrees' /\ (raised \/ MeetInv)'
<1>1. /\ pc' = [r \in Ranks |-> "start"] /\ disk' = disk
  BY DEF Restart
<1>2. DiskAgrees'
  BY <1>1 DEF LockInv, DiskAgrees, resume_position
<1>3. \A r, q \in Ranks : start_at(r)' = start_at(q)'
  BY <1>1, <1>2 DEF start_at, DiskAgrees, resume_position
<1>4. \A r \in Ranks : Meets(r)' = head(start_at(r).epoch, 0, start_at(r))'
  BY <1>1 DEF Meets
<1>5. \A r, q \in Ranks : Meets(r)' = Meets(q)'
  BY <1>3, <1>4 DEF head
<1> QED
  BY <1>1, <1>2, <1>5 DEF MeetInv

\* Replicas meet in the same collective at the same batch and step, and none is killed, as
\* long as no infinite loss has ended one, provided that no save goes by the clock: each
\* rank reads its own, and two that decide differently do part.
THEOREM Together == ASSUME ~TimedSaves PROVE Spec => []LockStep
<1>1. Init => LockInv
  <2> SUFFICES ASSUME Init PROVE LockInv
    OBVIOUS
  <2>1. Inv /\ disk = NoCheckpoint /\ pc = [r \in Ranks |-> "start"]
    BY InvInit DEF Init
  <2>2. \A r, q \in Ranks : Meets(r) = Meets(q)
    BY <2>1 DEF Meets, head, start_at
  <2> QED
    BY <2>1, <2>2 DEF LockInv, DiskAgrees, MeetInv
<1>2. LockInv /\ [Next]_vars => LockInv'
  <2> SUFFICES ASSUME LockInv, [Next]_vars PROVE LockInv'
    OBVIOUS
  <2>1. Inv'
    BY InvNext DEF LockInv
  <2>2. CASE \E r \in Ranks : Rank(r)
    BY <2>1, <2>2, RankMeets DEF LockInv
  <2>3. CASE Collective
    BY <2>1, <2>3, CollectiveMeets DEF LockInv
  <2>4. CASE Restart
    BY <2>1, <2>4, RestartMeets DEF LockInv
  <2>5. CASE UNCHANGED vars
    <3>1. /\ UNCHANGED <<pc, epoch, resume_at, n_batches, batch_idx, global_step, disk>>
          /\ UNCHANGED skips
      BY <2>5 DEF vars
    <3>2. DiskAgrees'
      BY <3>1 DEF LockInv, DiskAgrees, resume_position
    <3>3. \A r \in Ranks : Meets(r)' = Meets(r)
      BY <3>1 DEF Meets, head, start_at, resume_position
    <3>4. (raised \/ MeetInv)'
      BY <3>1, <3>3 DEF LockInv, MeetInv, raised
    <3> QED
      BY <2>1, <3>2, <3>4 DEF LockInv
  <2> QED
    BY <2>2, <2>3, <2>4, <2>5 DEF Next, Terminated
<1>3. LockInv => LockStep
  <2> SUFFICES ASSUME LockInv, ~raised PROVE LockStep
    BY DEF LockStep
  <2>1. \A r \in Ranks : pc[r] # "killed"
    BY DEF LockInv, MeetInv
  <2>2. ASSUME NEW r \in Ranks, NEW q \in Ranks, {pc[r], pc[q]} \subseteq Waiting
        PROVE  /\ pc[r] = pc[q] /\ epoch[r] = epoch[q] /\ batch_idx[r] = batch_idx[q]
               /\ global_step[r] = global_step[q]
    BY <2>2, SameMeeting
  <2> QED
    BY <2>1, <2>2 DEF LockStep
<1> QED
  BY <1>1, <1>2, <1>3, PTL DEF Spec

====
