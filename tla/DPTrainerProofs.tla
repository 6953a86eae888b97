---- MODULE DPTrainerProofs ----
(***************************************************************************)
(* Proofs about DPTrainer, for every number of replicas, samples, epochs   *)
(* and every queue size: type correctness and the account of experiences,  *)
(* whatever the shards and the clocks; and that the collectives match,     *)
(* when the shards are of one size and no save goes by the clock.          *)
(***************************************************************************)
EXTENDS DPTrainer, SequenceTheorems, TLAPS

-----------------------------------------------------------------------------
(* Agendas.                                                                *)

\* A training step is entered on its own or before the barriers of a save.
Before(c) == {<<c>> \o s : s \in Seq(Barriers)}
Deciding  == Before("want") \cup Before("flush")
Syncing   == {<<"sync", "gather">> \o s : s \in Seq(Barriers)}
Gathering == Before("gather")
Agendas   == Seq(Barriers) \cup Deciding \cup Syncing \cup Gathering

\* What is left of an agenda of each kind when its first call has returned.
LEMMA Kinds ==
  /\ \A a \in Agendas : a \in Seq(Calls)
  /\ \A a \in Seq(Barriers) :
       a # <<>> => Head(a) \in Barriers /\ Tail(a) \in Seq(Barriers)
  /\ \A a \in Deciding :
       a # <<>> /\ Head(a) \in Decisions /\ Tail(a) \in Seq(Barriers)
  /\ \A a \in Syncing :
       a # <<>> /\ Head(a) = "sync" /\ Tail(a) \in Gathering
  /\ \A a \in Gathering :
       a # <<>> /\ Head(a) = "gather" /\ Tail(a) \in Seq(Barriers)
<1>1. ASSUME NEW s \in Seq(Barriers), NEW c
      PROVE  /\ <<c>> \o s # <<>> /\ Head(<<c>> \o s) = c /\ Tail(<<c>> \o s) = s
             /\ <<"sync", "gather">> \o s # <<>>
             /\ Head(<<"sync", "gather">> \o s) = "sync"
             /\ Tail(<<"sync", "gather">> \o s) = <<"gather">> \o s
  OBVIOUS
<1>2. ASSUME NEW s \in Seq(Barriers)
      PROVE  /\ s \in Seq(Calls) /\ <<"sync", "gather">> \o s \in Seq(Calls)
             /\ \A c \in Decisions \cup {"gather"} : <<c>> \o s \in Seq(Calls)
  <2>1. s \in Seq(Calls)
    BY DEF Calls
  <2>2. <<"sync", "gather">> \in Seq(Calls)
        /\ \A c \in Decisions \cup {"gather"} : <<c>> \in Seq(Calls)
    BY DEF Calls
  <2> QED
    BY <2>1, <2>2, ConcatProperties
<1>3. ASSUME NEW c \in Decisions \cup {"gather"}, NEW a \in Before(c)
      PROVE  /\ a \in Seq(Calls)
             /\ a # <<>> /\ Head(a) = c /\ Tail(a) \in Seq(Barriers)
  <2>1. PICK s \in Seq(Barriers) : a = <<c>> \o s
    BY DEF Before
  <2>2. a # <<>> /\ Head(a) = c /\ Tail(a) = s
    BY <1>1, <2>1
  <2> QED
    BY <1>2, <2>1, <2>2
<1>4. ASSUME NEW a \in Syncing
      PROVE  /\ a \in Seq(Calls)
             /\ a # <<>> /\ Head(a) = "sync" /\ Tail(a) \in Gathering
  <2>1. PICK s \in Seq(Barriers) : a = <<"sync", "gather">> \o s
    BY DEF Syncing
  <2>2. a # <<>> /\ Head(a) = "sync" /\ Tail(a) = <<"gather">> \o s
    BY <1>1, <2>1
  <2> QED
    BY <1>2, <2>1, <2>2 DEF Gathering, Before
<1>5. \A a \in Deciding :
        /\ a \in Seq(Calls)
        /\ a # <<>> /\ Head(a) \in Decisions /\ Tail(a) \in Seq(Barriers)
  BY <1>3 DEF Deciding, Decisions
<1>6. \A a \in Gathering :
        /\ a \in Seq(Calls)
        /\ a # <<>> /\ Head(a) = "gather" /\ Tail(a) \in Seq(Barriers)
  BY <1>3 DEF Gathering
<1>7. \A a \in Seq(Barriers) :
        /\ a \in Seq(Calls)
        /\ a # <<>> => Head(a) \in Barriers /\ Tail(a) \in Seq(Barriers)
  BY <1>2, HeadTailProperties
<1> QED
  BY <1>4, <1>5, <1>6, <1>7 DEF Agendas

\* The calls of different kinds are different.
LEMMA Heads ==
  ASSUME NEW a \in Agendas, a # <<>>
  PROVE  /\ Head(a) \in Barriers => a \in Seq(Barriers)
         /\ Head(a) \in Decisions => a \in Deciding
         /\ Head(a) = "sync" => a \in Syncing
         /\ Head(a) = "gather" => a \in Gathering
BY Kinds DEF Agendas, Barriers, Decisions

-----------------------------------------------------------------------------
(* Types and the account of experiences.                                   *)

Full(r) == in_call(r, Decisions \cup {"sync", "gather"})

\* A buffer is full only while its rank is on its way to train on it.
AccountInv ==
  /\ agenda \in [Ranks -> Agendas]
  /\ \A r \in Ranks : ~Full(r) => buffer[r] < QueueSize

Account == TypeOK /\ AccountInv /\ NothingDropped

\* A shard has no negative number of samples.
LEMMA ShardSize ==
  ASSUME NEW r \in Ranks
  PROVE  shard_size(r) \in Nat
<1> DEFINE n == samples - r + dp_size - 1
<1>1. n \in Nat /\ dp_size \in Nat \ {0}
  BY DPAssumption DEF Ranks
<1> HIDE DEF n
<1>2. n \div dp_size \in Nat
  BY <1>1
<1> QED
  BY <1>2 DEF n, shard_size

\* Nothing is accounted for at the start.
LEMMA AccountInit == Init => Account
<1> SUFFICES ASSUME Init PROVE Account
  OBVIOUS
<1>1. TypeOK
  <2>1. /\ epoch \in [Ranks -> 0..(MaxEpochs + 1)] /\ buffer \in [Ranks -> 0..QueueSize]
        /\ seen \in [Ranks -> Nat] /\ global_step \in [Ranks -> Nat]
        /\ appended \in [Ranks -> Nat] /\ trained \in [Ranks -> Nat]
    BY DPAssumption DEF Init
  <2>2. /\ agenda \in [Ranks -> Seq(Calls)] /\ touched \in [Ranks -> SUBSET Params]
        /\ weights \in [Ranks -> [Params -> SUBSET Nat]]
    BY DEF Init
  <2>3. valid \in [Ranks -> BOOLEAN]
    BY Zenon DEF Init
  <2>4. \A r \in Ranks : seen[r] <= shard_size(r)
    BY ShardSize DEF Init
  <2> QED
    BY <2>1, <2>2, <2>3, <2>4 DEF TypeOK
<1>2. \A r \in Ranks : agenda[r] = <<>> /\ buffer[r] = 0
  BY DEF Init
<1>3. AccountInv
  BY <1>2, DPAssumption DEF Init, AccountInv, Agendas
<1>4. NothingDropped
  BY DEF Init, NothingDropped, in_call
<1> QED
  BY <1>1, <1>3, <1>4 DEF Account

\* What the invariant says of one rank.
LEMMA OfRank ==
  ASSUME Account, NEW r \in Ranks
  PROVE  /\ agenda[r] \in Agendas
         /\ buffer[r] \in Nat /\ buffer[r] <= QueueSize /\ QueueSize \in Nat \ {0}
         /\ appended[r] \in Nat /\ trained[r] \in Nat /\ seen[r] \in Nat
         /\ epoch[r] \in Nat /\ epoch[r] <= MaxEpochs + 1 /\ MaxEpochs \in Nat
         /\ global_step[r] \in Nat
         /\ agenda[r] = <<>> => buffer[r] < QueueSize
         /\ agenda[r] = <<>> => appended[r] = trained[r] + buffer[r]
BY DPAssumption DEF Account, AccountInv, TypeOK, NothingDropped, in_call, Full

\* A replica on its own adds at most a group to a buffer that is not full.
LEMMA AccountReplica ==
  ASSUME Account, NEW r \in Ranks, Replica(r)
  PROVE  Account'
<1>1. agenda[r] = <<>> /\ epoch[r] <= MaxEpochs
  BY DEF Replica, FinalizeSample, EndEpoch, Finish, rolling
<1>2. /\ UNCHANGED <<valid, touched, global_step, weights, trained>>
  BY DEF Replica, FinalizeSample, EndEpoch, Finish
<1>3. /\ <<"want">> \in Agendas /\ <<"flush", "save">> \in Agendas
      /\ <<"flush", "save", "teardown", "close">> \in Agendas /\ <<>> \in Agendas
  <2>1. /\ <<>> \in Seq(Barriers) /\ <<"save">> \in Seq(Barriers)
        /\ <<"save", "teardown", "close">> \in Seq(Barriers)
    BY DEF Barriers
  <2>2. /\ <<"want">> = <<"want">> \o <<>> /\ <<"flush", "save">> = <<"flush">> \o <<"save">>
        /\ <<"flush", "save", "teardown", "close">>
             = <<"flush">> \o <<"save", "teardown", "close">>
    OBVIOUS
  <2> QED
    BY <2>1, <2>2 DEF Agendas, Deciding, Before
<1>4. CASE FinalizeSample(r)
  <2>1. PICK g \in {0, 1} :
          /\ buffer' = [buffer EXCEPT ![r] = @ + g]
          /\ appended' = [appended EXCEPT ![r] = @ + g]
    BY <1>4 DEF FinalizeSample
  <2>2. /\ buffer' \in [Ranks -> 0..QueueSize] /\ appended' \in [Ranks -> Nat]
    <3>1. buffer[r] + g \in 0..QueueSize /\ appended[r] + g \in Nat
      BY <1>1, OfRank
    <3> QED
      BY <2>1, <3>1 DEF Account, TypeOK
  <2>3. /\ seen' \in [Ranks -> Nat] /\ \A q \in Ranks : seen'[q] <= shard_size(q)
    BY <1>4, ShardSize DEF FinalizeSample, Account, TypeOK
  <2>4. agenda' = [agenda EXCEPT ![r] = <<"want">>] /\ epoch' = epoch
    BY <1>4 DEF FinalizeSample
  <2>5. agenda' \in [Ranks -> Agendas]
    BY <1>3, <2>4 DEF Account, AccountInv
  <2>6. TypeOK'
    BY <1>2, <2>2, <2>3, <2>4, <2>5, Kinds DEF Account, TypeOK
  <2>7. \A q \in Ranks : ~Full(q)' => buffer'[q] < QueueSize
    BY <2>1, <2>4 DEF Account, AccountInv, TypeOK, Full, in_call, Decisions
  <2>8. NothingDropped'
    <3>1. appended[r] + g = trained[r] + (buffer[r] + g)
      BY <1>1, OfRank
    <3>2. ~in_call(r, {"sync", "gather"})'
      BY <2>4 DEF in_call, Account, TypeOK
    <3>3. appended'[r] = trained'[r] + buffer'[r]
      BY <1>2, <2>1, <3>1 DEF Account, TypeOK
    <3>4. ASSUME NEW q \in Ranks, q # r
          PROVE  UNCHANGED <<appended[q], trained[q], buffer[q], agenda[q]>>
      BY <1>2, <2>1, <2>4, <3>4 DEF Account, TypeOK
    <3> QED
      BY <3>2, <3>3, <3>4 DEF Account, NothingDropped, in_call
  <2> QED
    BY <2>5, <2>6, <2>7, <2>8 DEF Account, AccountInv
<1>5. CASE EndEpoch(r) \/ Finish(r)
  <2>1. PICK a \in Agendas : agenda' = [agenda EXCEPT ![r] = a]
                             /\ (a = <<>> \/ Head(a) = "flush")
    BY <1>3, <1>5 DEF EndEpoch, Finish
  <2>2. epoch' = [epoch EXCEPT ![r] = @ + 1] /\ UNCHANGED <<buffer, appended>>
    BY <1>5 DEF EndEpoch, Finish
  <2>3. /\ seen' \in [Ranks -> Nat] /\ \A q \in Ranks : seen'[q] <= shard_size(q)
    <3>1. seen' \in {seen, [seen EXCEPT ![r] = 0]}
      BY <1>5 DEF EndEpoch, Finish
    <3>2. \A q \in Ranks : shard_size(q) \in Nat
      BY ShardSize
    <3>3. CASE seen' = seen
      BY <3>3 DEF Account, TypeOK
    <3>4. CASE seen' = [seen EXCEPT ![r] = 0]
      BY <3>2, <3>4 DEF Account, TypeOK
    <3> QED
      BY <3>1, <3>3, <3>4
  <2>4. epoch' \in [Ranks -> 0..(MaxEpochs + 1)]
    <3>1. epoch[r] + 1 \in 0..(MaxEpochs + 1)
      BY <1>1, OfRank
    <3> QED
      BY <2>2, <3>1 DEF Account, TypeOK
  <2>5. agenda' \in [Ranks -> Agendas]
    BY <2>1 DEF Account, AccountInv
  <2>6. TypeOK'
    BY <1>2, <2>2, <2>3, <2>4, <2>5, Kinds DEF Account, TypeOK
  <2>7. \A q \in Ranks : ~Full(q)' => buffer'[q] < QueueSize
    BY <1>1, <2>1, <2>2, OfRank DEF Account, AccountInv, Full, in_call
  <2>8. NothingDropped'
    BY <1>1, <1>2, <2>1, <2>2, OfRank DEF Account, AccountInv, NothingDropped, in_call
  <2> QED
    BY <2>5, <2>6, <2>7, <2>8 DEF Account, AccountInv
<1> QED
  BY <1>4, <1>5 DEF Replica

\* In the decision of all ranks, those that go on train on all they have.
LEMMA AccountDecide ==
  ASSUME Account, Decide
  PROVE  Account'
<1> DEFINE go == \E q \in Ranks : local_wants(q)
<1>1. \A r \in Ranks : agenda[r] \in Deciding /\ Tail(agenda[r]) \in Seq(Barriers)
  BY OfRank, Heads, Kinds DEF Decide, in_call
<1>2. /\ agenda' = [r \in Ranks |->
                      (IF go THEN <<"sync", "gather">> ELSE <<>>) \o Tail(agenda[r])]
      /\ trained' = [r \in Ranks |-> IF go THEN trained[r] + usable(r) ELSE trained[r]]
      /\ valid' \in [Ranks -> BOOLEAN] /\ touched' \in [Ranks -> SUBSET Params]
      /\ UNCHANGED <<epoch, seen, buffer, global_step, weights, appended>>
  BY DEF Decide, global_wants, Params
<1>3. \A r \in Ranks : usable(r) = buffer[r]
  BY OfRank DEF usable
<1>4. CASE go
  <2>1. \A r \in Ranks : agenda'[r] \in Syncing
    BY <1>1, <1>2, <1>4 DEF Syncing
  <2>2. \A r \in Ranks : in_call(r, {"sync", "gather"})' /\ Full(r)'
    BY <2>1, Kinds DEF in_call, Full
  <2>3. trained' = [r \in Ranks |-> trained[r] + buffer[r]]
    BY <1>2, <1>3, <1>4
  <2>4. agenda' \in [Ranks -> Agendas]
    BY <1>2, <2>1 DEF Agendas
  <2>5. TypeOK'
    <3>1. trained' \in [Ranks -> Nat]
      BY <2>3, OfRank
    <3>2. agenda' \in [Ranks -> Seq(Calls)]
      BY <2>4, Kinds
    <3> QED
      BY <1>2, <3>1, <3>2 DEF Account, TypeOK
  <2>6. \A r \in Ranks : appended[r] = trained[r] + buffer[r]
    BY <1>1, Kinds DEF Account, NothingDropped, in_call, Decisions
  <2>7. NothingDropped'
    BY <1>2, <2>2, <2>3, <2>6, OfRank DEF NothingDropped
  <2> QED
    BY <2>2, <2>4, <2>5, <2>7 DEF Account, AccountInv
<1>5. CASE ~go
  <2>1. \A r \in Ranks : agenda'[r] = Tail(agenda[r]) /\ agenda'[r] \in Seq(Barriers)
    BY <1>1, <1>2, <1>5
  <2>2. \A r \in Ranks : ~in_call(r, {"sync", "gather"})' /\ ~Full(r)'
    BY <2>1, Kinds DEF in_call, Full, Barriers, Decisions
  <2>3. trained' = trained
    BY <1>2, <1>5 DEF Account, TypeOK
  <2>4. agenda' \in [Ranks -> Agendas]
    BY <1>2, <2>1 DEF Agendas
  <2>5. TypeOK'
    BY <1>2, <2>3, <2>4, Kinds DEF Account, TypeOK
  <2>6. \A r \in Ranks : buffer'[r] < QueueSize
    BY <1>2, <1>5, OfRank DEF local_wants
  <2>7. NothingDropped'
    BY <1>1, <1>2, <2>2, <2>3, Kinds DEF Account, NothingDropped, in_call, Decisions
  <2> QED
    BY <2>4, <2>5, <2>6, <2>7 DEF Account, AccountInv
<1> QED
  BY <1>4, <1>5

\* After the gradients come the metrics, and the data counts as trained on.
LEMMA AccountSync ==
  ASSUME Account, SyncGradients
  PROVE  Account'
<1>1. \A r \in Ranks : agenda[r] \in Syncing /\ Tail(agenda[r]) \in Gathering
  BY OfRank, Heads, Kinds DEF SyncGradients, in_call
<1>2. /\ agenda' = [r \in Ranks |-> Tail(agenda[r])]
      /\ UNCHANGED <<epoch, seen, buffer, valid, touched, global_step, appended, trained>>
  BY DEF SyncGradients
<1>3. \A r \in Ranks : agenda'[r] \in Gathering
  BY <1>1, <1>2
<1>4. \A r \in Ranks : in_call(r, {"sync", "gather"}) /\ in_call(r, {"sync", "gather"})' /\ Full(r)'
  BY <1>1, <1>3, Kinds DEF in_call, Full
<1>5. agenda' \in [Ranks -> Agendas]
  BY <1>2, <1>3 DEF Agendas
<1>6. weights' \in [Ranks -> [Params -> SUBSET Nat]]
  <2>1. weights' = [r \in Ranks |-> [x \in Params |->
                     IF x \in stepped(r) THEN weights[r][x] \cup {global_step[r] + 1}
                     ELSE weights[r][x]]]
    BY DEF SyncGradients
  <2>2. \A r \in Ranks : global_step[r] + 1 \in Nat
    BY OfRank
  <2>3. \A r \in Ranks, x \in Params :
          (IF x \in stepped(r) THEN weights[r][x] \cup {global_step[r] + 1}
           ELSE weights[r][x]) \in SUBSET Nat
    BY <2>2 DEF Account, TypeOK
  <2> QED
    BY <2>1, <2>3
<1>7. TypeOK'
  BY <1>2, <1>5, <1>6, Kinds DEF Account, TypeOK
<1>8. NothingDropped'
  BY <1>2, <1>4 DEF Account, NothingDropped
<1> QED
  BY <1>4, <1>5, <1>7, <1>8 DEF Account, AccountInv

\* A step leaves every buffer empty.
LEMMA AccountGather ==
  ASSUME Account, Gather
  PROVE  Account'
<1>1. \A r \in Ranks : agenda[r] \in Gathering /\ Tail(agenda[r]) \in Seq(Barriers)
  BY OfRank, Heads, Kinds DEF Gather, in_call
<1>2. /\ buffer' = [r \in Ranks |-> 0]
      /\ global_step' = [r \in Ranks |-> global_step[r] + 1]
      /\ touched' = [r \in Ranks |-> {}]
      /\ UNCHANGED <<epoch, seen, weights, appended, trained>>
  BY DEF Gather
<1>3. valid' \in [Ranks -> BOOLEAN]
  BY Zenon DEF Gather
<1>4. /\ agenda' \in [Ranks -> Agendas]
      /\ \A r \in Ranks : agenda'[r] \in Seq(Barriers)
  <2>1. \A r \in Ranks, t \in {<<"save">>, <<>>} : t \o Tail(agenda[r]) \in Seq(Barriers)
    <3>1. <<"save">> \in Seq(Barriers) /\ <<>> \in Seq(Barriers)
      BY DEF Barriers
    <3> QED
      BY <1>1, <3>1, ConcatProperties
  <2>2. PICK clock \in [Ranks -> BOOLEAN] :
          agenda' = [r \in Ranks |->
            (IF (SaveSteps > 0 /\ global_step'[r] % SaveSteps = 0) \/ clock[r]
             THEN <<"save">> ELSE <<>>) \o Tail(agenda[r])]
    BY DEF Gather
  <2> QED
    BY <2>1, <2>2 DEF Agendas
<1>5. \A r \in Ranks : ~in_call(r, {"sync", "gather"})'
  BY <1>4, Kinds DEF in_call, Barriers
<1>6. TypeOK'
  <2>1. global_step' \in [Ranks -> Nat] /\ buffer' \in [Ranks -> 0..QueueSize]
        /\ touched' \in [Ranks -> SUBSET Params]
    BY <1>2, OfRank, DPAssumption
  <2>2. agenda' \in [Ranks -> Seq(Calls)]
    BY <1>4, Kinds
  <2> QED
    BY <1>2, <1>3, <2>1, <2>2 DEF Account, TypeOK
<1>7. \A r \in Ranks : buffer'[r] < QueueSize
  BY <1>2, DPAssumption
<1>8. NothingDropped'
  <2>1. \A r \in Ranks : appended[r] = trained[r] /\ trained[r] \in Nat
    BY <1>1, Kinds, OfRank DEF Account, NothingDropped, in_call
  <2> QED
    BY <1>2, <1>5, <2>1 DEF NothingDropped
<1> QED
  BY <1>4, <1>6, <1>7, <1>8 DEF Account, AccountInv

\* Barriers touch no experience.
LEMMA AccountBarrier ==
  ASSUME Account, Barrier
  PROVE  Account'
<1>1. \A r \in Ranks : agenda[r] \in Seq(Barriers) /\ Tail(agenda[r]) \in Seq(Barriers)
  BY OfRank, Heads, Kinds DEF Barrier, in_call
<1>2. /\ agenda' = [r \in Ranks |-> Tail(agenda[r])]
      /\ UNCHANGED <<epoch, seen, buffer, valid, touched, global_step, weights, appended, trained>>
  BY DEF Barrier
<1>3. agenda' \in [Ranks -> Agendas]
  BY <1>1, <1>2 DEF Agendas
<1>4. \A r \in Ranks : /\ ~in_call(r, {"sync", "gather"}) /\ ~Full(r)
                       /\ ~in_call(r, {"sync", "gather"})'
  BY <1>1, <1>2, Kinds DEF in_call, Full, Barriers, Decisions
<1>5. TypeOK'
  BY <1>2, <1>3, Kinds DEF Account, TypeOK
<1>6. NothingDropped'
  BY <1>2, <1>4 DEF Account, NothingDropped
<1> QED
  BY <1>2, <1>3, <1>4, <1>5, <1>6 DEF Account, AccountInv

\* A step that changes nothing keeps the account.
LEMMA AccountUnchanged ==
  ASSUME Account, UNCHANGED vars
  PROVE  Account'
BY DEF vars, Account, AccountInv, TypeOK, NothingDropped, Full, in_call

\* The account is kept whatever the shards and the clocks are.
THEOREM AccountKept == Spec => []Account
<1>1. Init => Account
  BY AccountInit
<1>2. Account /\ [Next]_vars => Account'
  <2> SUFFICES ASSUME Account, [Next]_vars PROVE Account'
    OBVIOUS
  <2>1. CASE \E r \in Ranks : Replica(r) BY <2>1, AccountReplica
  <2>2. CASE Decide        BY <2>2, AccountDecide
  <2>3. CASE SyncGradients BY <2>3, AccountSync
  <2>4. CASE Gather        BY <2>4, AccountGather
  <2>5. CASE Barrier       BY <2>5, AccountBarrier
  <2>6. CASE Terminated \/ UNCHANGED vars
    BY <2>6, AccountUnchanged DEF Terminated
  <2> QED
    BY <2>1, <2>2, <2>3, <2>4, <2>5, <2>6 DEF Next, Collective
<1> QED
  BY <1>1, <1>2, PTL DEF Spec

\* Every variable of every replica stays in its domain; a buffer never holds more
\* groups than the replay threshold.
THEOREM ReplicasTypeCorrect == Spec => []TypeOK
<1>1. Account => TypeOK
  BY DEF Account
<1> QED
  BY <1>1, AccountKept, PTL

\* No replica's experience is dropped between its buffer and train_batch, also
\* when another replica's full buffer takes it along, and on shards of any size.
THEOREM ReplicasDropNothing == Spec => []NothingDropped
<1>1. Account => NothingDropped
  BY DEF Account
<1> QED
  BY <1>1, AccountKept, PTL

-----------------------------------------------------------------------------
(* The collectives match.                                                  *)

\* Every replica has as many samples.
EqualShards == \A r, q \in Ranks : shard_size(r) = shard_size(q)

\* Where a replica that has seen s samples of k in epoch e next meets the others:
\* epoch, samples seen and agenda it will have then.
Upcoming(e, s, k) ==
  IF e < MaxEpochs /\ s < k THEN <<e, s + 1, <<"want">>>>
  ELSE IF e < MaxEpochs /\ SaveEveryEpoch THEN <<e + 1, 0, <<"flush", "save">>>>
  ELSE IF e < MaxEpochs - 1 /\ 0 < k THEN <<e + 1, 1, <<"want">>>>
  ELSE IF e <= MaxEpochs THEN <<MaxEpochs + 1, 0, <<"flush", "save", "teardown", "close">>>>
  ELSE <<MaxEpochs + 1, 0, <<>>>>

\* Equal places have equal agendas.
LEMMA SameAgenda ==
  ASSUME NEW e, NEW s, NEW a, NEW e1, NEW s1, NEW a1, <<e, s, a>> = <<e1, s1, a1>>
  PROVE  a = a1
OBVIOUS

\* Where rank r meets the others, or is about to.
Place(r) == IF agenda[r] # <<>> THEN <<epoch[r], seen[r], agenda[r]>>
            ELSE Upcoming(epoch[r], seen[r], shard_size(r))

\* However far apart they run, all replicas head for the same rendezvous.
PlaceInv ==
  /\ \A r \in Ranks : epoch[r] >= MaxEpochs => seen[r] = 0
  /\ \A r, q \in Ranks : Place(r) = Place(q) /\ global_step[r] = global_step[q]

Together == Account /\ PlaceInv

\* All replicas start at the same place.
LEMMA TogetherInit ==
  ASSUME EqualShards
  PROVE  Init => Together
<1> SUFFICES ASSUME Init PROVE PlaceInv
  BY AccountInit DEF Together
<1>1. \A r \in Ranks : epoch[r] = 0 /\ seen[r] = 0 /\ agenda[r] = <<>> /\ global_step[r] = 0
  BY DEF Init
<1> QED
  BY <1>1 DEF EqualShards, PlaceInv, Place

\* On its own, a replica comes no nearer to another rendezvous.
LEMMA PlaceReplica ==
  ASSUME Together, EqualShards, NEW r \in Ranks, Replica(r)
  PROVE  PlaceInv'
<1>1. agenda[r] = <<>> /\ epoch[r] <= MaxEpochs /\ global_step' = global_step
  BY DEF Replica, FinalizeSample, EndEpoch, Finish, rolling
<1>2. /\ epoch[r] \in Nat /\ seen[r] \in Nat /\ MaxEpochs \in Nat
      /\ shard_size(r) \in Nat /\ seen[r] <= shard_size(r)
      /\ epoch[r] >= MaxEpochs => seen[r] = 0
  BY OfRank, ShardSize DEF Together, PlaceInv, Account, TypeOK
<1>3. Place(r) = Upcoming(epoch[r], seen[r], shard_size(r))
  BY <1>1 DEF Place
<1>4. \A q \in Ranks \ {r} : UNCHANGED <<epoch[q], seen[q], agenda[q]>>
  BY DEF Replica, FinalizeSample, EndEpoch, Finish, Together, Account, TypeOK
<1>5. Place(r)' = Place(r) /\ (epoch'[r] >= MaxEpochs => seen'[r] = 0)
  <2>1. CASE FinalizeSample(r)
    <3>1. /\ epoch[r] < MaxEpochs /\ seen[r] < shard_size(r)
          /\ epoch'[r] = epoch[r] /\ seen'[r] = seen[r] + 1 /\ agenda'[r] = <<"want">>
      BY <2>1 DEF FinalizeSample, Together, Account, TypeOK
    <3>2. Place(r)' = <<epoch[r], seen[r] + 1, <<"want">>>>
      BY <3>1 DEF Place
    <3>3. Place(r) = <<epoch[r], seen[r] + 1, <<"want">>>>
      BY <1>3, <3>1 DEF Upcoming
    <3> QED
      BY <1>2, <3>1, <3>2, <3>3
  <2>2. CASE EndEpoch(r)
    <3>1. /\ epoch[r] < MaxEpochs /\ seen[r] = shard_size(r)
          /\ epoch'[r] = epoch[r] + 1 /\ seen'[r] = 0
          /\ agenda'[r] = IF SaveEveryEpoch THEN <<"flush", "save">> ELSE <<>>
      BY <2>2 DEF EndEpoch, Together, Account, TypeOK
    <3>2. CASE SaveEveryEpoch
      <4>1. Place(r)' = <<epoch[r] + 1, 0, <<"flush", "save">>>>
        BY <3>1, <3>2 DEF Place
      <4>2. Place(r) = <<epoch[r] + 1, 0, <<"flush", "save">>>>
        BY <1>2, <1>3, <3>1, <3>2 DEF Upcoming
      <4> QED
        BY <3>1, <4>1, <4>2
    <3>3. CASE ~SaveEveryEpoch
      <4>1. Place(r)' = Upcoming(epoch[r] + 1, 0, shard_size(r))
        BY <3>1, <3>3 DEF Place, shard_size
      <4>2. Upcoming(epoch[r] + 1, 0, shard_size(r))
              = Upcoming(epoch[r], shard_size(r), shard_size(r))
        <5> DEFINE e == epoch[r]
                   k == shard_size(r)
        <5>1. /\ e \in Nat /\ e < MaxEpochs /\ MaxEpochs \in Nat /\ k \in Nat
              /\ ~(k < k) /\ 0 + 1 = 1
          BY <1>2, <3>1
        <5> HIDE DEF e, k
        <5>2. ASSUME e < MaxEpochs - 1 /\ 0 < k
              PROVE  Upcoming(e + 1, 0, k) = Upcoming(e, k, k)
          <6>1. Upcoming(e + 1, 0, k) = <<e + 1, 1, <<"want">>>>
            BY <5>1, <5>2 DEF Upcoming
          <6>2. Upcoming(e, k, k) = <<e + 1, 1, <<"want">>>>
            BY <3>3, <5>1, <5>2 DEF Upcoming
          <6> QED
            BY <6>1, <6>2
        <5>3. ASSUME ~(e < MaxEpochs - 1 /\ 0 < k)
              PROVE  Upcoming(e + 1, 0, k) = Upcoming(e, k, k)
          <6> DEFINE last == <<MaxEpochs + 1, 0, <<"flush", "save", "teardown", "close">>>>
          <6>1. Upcoming(e + 1, 0, k) = last
            BY <3>3, <5>1, <5>3 DEF Upcoming
          <6>2. Upcoming(e, k, k) = last
            BY <3>3, <5>1, <5>3 DEF Upcoming
          <6> QED
            BY <6>1, <6>2
        <5> QED
          BY <5>2, <5>3 DEF e, k
      <4> QED
        BY <1>3, <3>1, <4>1, <4>2
    <3> QED
      BY <3>2, <3>3
  <2>3. CASE Finish(r)
    <3>1. /\ epoch[r] = MaxEpochs /\ epoch'[r] = epoch[r] + 1 /\ seen'[r] = seen[r]
          /\ agenda'[r] = <<"flush", "save", "teardown", "close">>
      BY <2>3 DEF Finish, Together, Account, TypeOK
    <3>2. Place(r)' = <<MaxEpochs + 1, 0, <<"flush", "save", "teardown", "close">>>>
      BY <1>2, <3>1 DEF Place
    <3>3. Place(r) = <<MaxEpochs + 1, 0, <<"flush", "save", "teardown", "close">>>>
      BY <1>2, <1>3, <3>1 DEF Upcoming
    <3> QED
      BY <1>2, <3>1, <3>2, <3>3
  <2> QED
    BY <2>1, <2>2, <2>3 DEF Replica
<1>6. \A q \in Ranks \ {r} : Place(q)' = Place(q)
  BY <1>4 DEF Place, shard_size
<1>7. \A q \in Ranks : Place(q)' = Place(q)
  BY <1>5, <1>6
<1>8. \A q \in Ranks : epoch'[q] >= MaxEpochs => seen'[q] = 0
  BY <1>4, <1>5 DEF Together, PlaceInv
<1> QED
  BY <1>1, <1>7, <1>8 DEF Together, PlaceInv

\* Ranks that have all entered a collective are at one place, and stay so when
\* their agendas stay equal.
LEMMA PlaceCollective ==
  ASSUME Together, EqualShards,
         \A r \in Ranks : agenda[r] # <<>>,
         UNCHANGED <<epoch, seen>>,
         \A r, q \in Ranks : agenda[r] = agenda[q] => agenda'[r] = agenda'[q],
         \A r, q \in Ranks : global_step'[r] = global_step'[q]
  PROVE  PlaceInv'
<1>1. \A r, q \in Ranks :
        epoch[r] = epoch[q] /\ seen[r] = seen[q] /\ agenda[r] = agenda[q]
  BY DEF Together, PlaceInv, Place
<1>2. \A r, q \in Ranks : Place(r)' = Place(q)'
  BY <1>1 DEF Place, EqualShards, shard_size
<1> QED
  BY <1>2 DEF Together, PlaceInv

\* Every collective keeps the agendas equal.
LEMMA PlaceStep ==
  ASSUME Together, EqualShards, ~TimedSaves, Collective
  PROVE  PlaceInv'
<1>1. \A r, q \in Ranks : global_step[r] = global_step[q]
  BY DEF Together, PlaceInv
<1>2. CASE Decide
  <2>1. \A r, q \in Ranks : agenda[r] = agenda[q] => agenda'[r] = agenda'[q]
    BY <1>2 DEF Decide, global_wants
  <2> QED
    BY <1>1, <1>2, <2>1, PlaceCollective DEF Decide, in_call
<1>3. CASE SyncGradients
  <2>1. \A r, q \in Ranks : agenda[r] = agenda[q] => agenda'[r] = agenda'[q]
    BY <1>3 DEF SyncGradients
  <2> QED
    BY <1>1, <1>3, <2>1, PlaceCollective DEF SyncGradients, in_call
<1>4. CASE Gather
  <2>1. \A r, q \in Ranks : global_step'[r] = global_step'[q]
    BY <1>1, <1>4 DEF Gather
  <2>2. PICK clock \in [Ranks -> {FALSE}] :
          agenda' = [r \in Ranks |->
            (IF (SaveSteps > 0 /\ global_step'[r] % SaveSteps = 0) \/ clock[r]
             THEN <<"save">> ELSE <<>>) \o Tail(agenda[r])]
    BY <1>4 DEF Gather
  <2>3. \A r, q \in Ranks : agenda[r] = agenda[q] => agenda'[r] = agenda'[q]
    BY <2>1, <2>2
  <2> QED
    BY <1>4, <2>1, <2>3, PlaceCollective DEF Gather, in_call
<1>5. CASE Barrier
  <2>1. \A r, q \in Ranks : agenda[r] = agenda[q] => agenda'[r] = agenda'[q]
    BY <1>5 DEF Barrier
  <2> QED
    BY <1>1, <1>5, <2>1, PlaceCollective DEF Barrier, in_call
<1> QED
  BY <1>2, <1>3, <1>4, <1>5 DEF Collective

\* With equal shards and no saves by the clock, the replicas decide, train and
\* save together: no rank enters a collective that another one does not.
THEOREM ReplicasTogether ==
  ASSUME EqualShards, ~TimedSaves
  PROVE  Spec => []CollectivesMatch
<1>1. Init => Together
  BY TogetherInit
<1>2. Together /\ Account' /\ [Next]_vars => Together'
  <2> SUFFICES ASSUME Together, [Next]_vars PROVE PlaceInv'
    BY DEF Together
  <2>1. CASE \E r \in Ranks : Replica(r) BY <2>1, PlaceReplica
  <2>2. CASE Collective                  BY <2>2, PlaceStep
  <2>3. CASE Terminated \/ UNCHANGED vars
    BY <2>3 DEF Terminated, vars, Together, PlaceInv, Place, shard_size
  <2> QED
    BY <2>1, <2>2, <2>3 DEF Next
<1>3. Together => CollectivesMatch
  <2> SUFFICES ASSUME Together, NEW r \in Ranks, NEW q \in Ranks, agenda[r] # <<>>
               PROVE  ~done(q) /\ (agenda[q] # <<>> => agenda[r] = agenda[q])
    BY DEF CollectivesMatch
  <2>1. Place(r) = Place(q) /\ Place(r) = <<epoch[r], seen[r], agenda[r]>>
    BY DEF Together, PlaceInv, Place
  <2>2. ASSUME done(q) PROVE FALSE
    <3>1. Place(q) = <<MaxEpochs + 1, 0, <<>>>>
      BY <2>2, OfRank DEF done, Place, Upcoming, Together
    <3>2. <<epoch[r], seen[r], agenda[r]>> = <<MaxEpochs + 1, 0, <<>>>>
      BY <2>1, <3>1
    <3>3. agenda[r] = <<>>
      BY <3>2, SameAgenda
    <3> QED
      BY <3>3
  <2>3. agenda[q] # <<>> => agenda[r] = agenda[q]
    BY <2>1 DEF Place
  <2> QED
    BY <2>2, <2>3
<1> QED
  BY <1>1, <1>2, <1>3, AccountKept, PTL DEF Spec

====
