---- MODULE OneFOneBProofs ----
(***************************************************************************)
(* Proofs about OneFOneB, for every number of stages, chunks and optimizer *)
(* steps and every size of the send window.                                *)
(***************************************************************************)
EXTENDS OneFOneB, FiniteSetTheorems, SequenceTheorems, TLAPS

-----------------------------------------------------------------------------
(* The schedule.                                                           *)

\* Forwards among the first n operations of stage p.
Forwards(p, n) ==
  IF n <= warmup(p) THEN n
  ELSE IF n > 2 * num_chunks - warmup(p) THEN num_chunks
  ELSE warmup(p) + ((n - warmup(p) + 1) \div 2)
Backwards(p, n) == n - Forwards(p, n)

LEMMA WarmupBounds ==
  ASSUME NEW p \in Stages
  PROVE  warmup(p) \in 0..num_chunks /\ warmup(p) <= pp_size - p - 1
BY PipelineAssumption DEF Stages, warmup

LEMMA Halves ==
  ASSUME NEW m \in Nat
  PROVE  \E k \in Nat :
           \/ m = 2 * k /\ m \div 2 = k /\ (m + 1) \div 2 = k /\ (m + 2) \div 2 = k + 1
                /\ m % 2 = 0 /\ (m + 1) % 2 = 1
           \/ m = 2 * k + 1 /\ m \div 2 = k /\ (m + 1) \div 2 = k + 1 /\ (m + 2) \div 2 = k + 1
                /\ m % 2 = 1 /\ (m + 1) % 2 = 0
<1>1. \A k \in Nat : (2 * k) \div 2 = k /\ (2 * k + 1) \div 2 = k
                   /\ (2 * k) % 2 = 0 /\ (2 * k + 1) % 2 = 1
  OBVIOUS
<1>2. PICK k \in Nat : m = 2 * k \/ m = 2 * k + 1
  <2>1. m = 2 * (m \div 2) + (m % 2) /\ m % 2 \in 0..1 /\ m \div 2 \in Nat
    OBVIOUS
  <2> QED
    BY <2>1
<1>3. m + 2 = 2 * (k + 1) \/ m + 2 = 2 * (k + 1) + 1
  BY <1>2
<1>4. k + 1 \in Nat
  OBVIOUS
<1>5. CASE m = 2 * k
  <2>1. m + 1 = 2 * k + 1 /\ m + 2 = 2 * (k + 1)
    BY <1>5
  <2> QED
    BY <1>1, <1>4, <1>5, <2>1
<1>6. CASE m = 2 * k + 1
  <2>1. m + 1 = 2 * (k + 1) /\ m + 2 = 2 * (k + 1) + 1
    BY <1>6
  <2> QED
    BY <1>1, <1>4, <1>6, <2>1
<1> QED
  BY <1>2, <1>5, <1>6

\* The next operation is the next forward or the next backward, and a backward is one of a
\* chunk whose forward was done.
LEMMA NextOperation ==
  ASSUME NEW p \in Stages, NEW n \in 0..(2 * num_chunks - 1)
  PROVE  \/ /\ operation(p, n + 1) = forward(Forwards(p, n))
            /\ Forwards(p, n) \in Chunks
            /\ Forwards(p, n + 1) = Forwards(p, n) + 1
         \/ /\ operation(p, n + 1) = backward(Backwards(p, n))
            /\ Backwards(p, n) \in Chunks /\ Backwards(p, n) < Forwards(p, n)
            /\ Forwards(p, n + 1) = Forwards(p, n)
<1> DEFINE w == warmup(p)
<1>1. w \in 0..num_chunks /\ num_chunks \in Nat \ {0} /\ n \in Nat /\ n < 2 * num_chunks
  BY WarmupBounds, PipelineAssumption
<1>2. w + 2 * (num_chunks - w) = 2 * num_chunks - w
  BY <1>1
<1> HIDE DEF w
<1>3. CASE n + 1 <= w
  <2>1. operation(p, n + 1) = forward(n) /\ Forwards(p, n) = n /\ Forwards(p, n + 1) = n + 1
    BY <1>1, <1>3 DEF operation, Forwards, w
  <2> QED
    BY <1>1, <1>3, <2>1 DEF Chunks
<1>4. CASE n + 1 > w /\ n + 1 <= 2 * num_chunks - w
  <2> DEFINE m == n - w
  <2>1. m \in Nat /\ (n + 1) - w - 1 = m /\ (n + 1) - w = m + 1
        /\ n - w + 1 = m + 1 /\ (n + 1) - w + 1 = m + 2 /\ n = w + m
    BY <1>1, <1>4
  <2> HIDE DEF m
  <2>2. operation(p, n + 1) = IF (m + 1) % 2 = 1 THEN forward(w + (m \div 2)) ELSE backward(m \div 2)
    BY <1>1, <1>2, <1>4, <2>1 DEF operation, w
  <2>3. Forwards(p, n) = IF m = 0 THEN w ELSE w + ((m + 1) \div 2)
    BY <1>1, <1>4, <2>1 DEF Forwards, w
  <2>4. Forwards(p, n + 1) = w + ((m + 2) \div 2)
    BY <1>1, <1>4, <2>1 DEF Forwards, w
  <2>5. PICK k \in Nat :
           \/ m = 2 * k /\ m \div 2 = k /\ (m + 1) \div 2 = k /\ (m + 2) \div 2 = k + 1
                /\ m % 2 = 0 /\ (m + 1) % 2 = 1
           \/ m = 2 * k + 1 /\ m \div 2 = k /\ (m + 1) \div 2 = k + 1 /\ (m + 2) \div 2 = k + 1
                /\ m % 2 = 1 /\ (m + 1) % 2 = 0
    BY <2>1, Halves
  <2>6. CASE m = 2 * k /\ m \div 2 = k /\ (m + 1) \div 2 = k /\ (m + 2) \div 2 = k + 1
                /\ m % 2 = 0 /\ (m + 1) % 2 = 1
    <3>1. operation(p, n + 1) = forward(w + k) /\ Forwards(p, n) = w + k
          /\ Forwards(p, n + 1) = w + k + 1
      BY <1>1, <2>2, <2>3, <2>4, <2>6
    <3>2. w + k \in Chunks
      BY <1>1, <1>4, <2>1, <2>6 DEF Chunks
    <3> QED
      BY <3>1, <3>2
  <2>7. CASE m = 2 * k + 1 /\ m \div 2 = k /\ (m + 1) \div 2 = k + 1 /\ (m + 2) \div 2 = k + 1
                /\ m % 2 = 1 /\ (m + 1) % 2 = 0
    <3>1. operation(p, n + 1) = backward(k) /\ Forwards(p, n) = w + k + 1
          /\ Forwards(p, n + 1) = w + k + 1
      BY <1>1, <2>2, <2>3, <2>4, <2>7
    <3>2. Backwards(p, n) = k /\ k \in Chunks /\ k < w + k + 1
      BY <1>1, <1>4, <2>1, <2>7, <3>1 DEF Chunks, Backwards
    <3> QED
      BY <3>1, <3>2
  <2> QED
    BY <2>5, <2>6, <2>7
<1>5. CASE n + 1 > w /\ n + 1 > 2 * num_chunks - w
  <2>1. operation(p, n + 1) = backward(n - num_chunks)
    BY <1>1, <1>2, <1>5 DEF operation, w
  <2>2. Forwards(p, n + 1) = num_chunks
    BY <1>1, <1>5 DEF Forwards, w
  <2>3. Forwards(p, n) = num_chunks
    <3>1. CASE n > 2 * num_chunks - w
      BY <1>1, <3>1 DEF Forwards, w
    <3>2. CASE n = 2 * num_chunks - w /\ n > w
      <4>1. n - w + 1 = 2 * (num_chunks - w) + 1 /\ num_chunks - w \in Nat
        BY <1>1, <3>2
      <4>2. (2 * (num_chunks - w) + 1) \div 2 = num_chunks - w
        <5> DEFINE k == num_chunks - w
        <5>1. \A j \in Nat : (2 * j + 1) \div 2 = j
          OBVIOUS
        <5> QED
          BY <4>1, <5>1
      <4>3. Forwards(p, n) = w + ((n - w + 1) \div 2)
        BY <1>1, <3>2 DEF Forwards, w
      <4> QED
        BY <1>1, <4>1, <4>2, <4>3
    <3>3. CASE n = 2 * num_chunks - w /\ n <= w
      BY <1>1, <3>3 DEF Forwards, w
    <3> QED
      BY <1>1, <1>5, <3>1, <3>2, <3>3
  <2> QED
    BY <1>1, <1>5, <2>1, <2>2, <2>3 DEF Backwards, Chunks
<1> QED
  BY <1>1, <1>3, <1>4, <1>5

LEMMA ForwardsBounds ==
  ASSUME NEW p \in Stages, NEW n \in 0..(2 * num_chunks)
  PROVE  /\ Forwards(p, n) \in 0..num_chunks /\ Backwards(p, n) \in 0..num_chunks
         /\ Backwards(p, n) <= Forwards(p, n)
         /\ Forwards(p, n) - Backwards(p, n) <= pp_size - p
         /\ Forwards(p, 0) = 0
         /\ n = 2 * num_chunks => Forwards(p, n) = num_chunks
<1> DEFINE w == warmup(p)
<1>1. /\ w \in 0..num_chunks /\ w <= pp_size - p - 1
      /\ num_chunks \in Nat \ {0} /\ pp_size \in Nat /\ p \in Nat /\ n \in Nat
  BY WarmupBounds, PipelineAssumption DEF Stages
<1> HIDE DEF w
<1>2. CASE n <= w
  <2>1. Forwards(p, n) = n
    BY <1>2 DEF Forwards, w
  <2> QED
    BY <1>1, <1>2, <2>1 DEF Forwards, Backwards, w
<1>3. CASE n > w /\ n > 2 * num_chunks - w
  <2>1. Forwards(p, n) = num_chunks
    BY <1>1, <1>3 DEF Forwards, w
  <2> QED
    BY <1>1, <1>3, <2>1 DEF Forwards, Backwards, w
<1>4. CASE n > w /\ n <= 2 * num_chunks - w
  <2> DEFINE m == n - w
  <2>1. m \in Nat /\ n = w + m /\ n - w + 1 = m + 1
    BY <1>1, <1>4
  <2> HIDE DEF m
  <2>2. Forwards(p, n) = w + ((m + 1) \div 2)
    BY <1>1, <1>4, <2>1 DEF Forwards, w
  <2>3. PICK k \in Nat : \/ m = 2 * k /\ (m + 1) \div 2 = k
                         \/ m = 2 * k + 1 /\ (m + 1) \div 2 = k + 1
    BY <2>1, Halves
  <2>4. Forwards(p, 0) = 0
    BY <1>1 DEF Forwards, w
  <2> QED
    BY <1>1, <1>4, <2>1, <2>2, <2>3, <2>4 DEF Backwards
<1> QED
  BY <1>1, <1>2, <1>3, <1>4

-----------------------------------------------------------------------------
(* The inductive invariant.                                                *)

\* Operations of stage p on a direction that are done in this step.
done(p, d) == IF d = "fwd" THEN Forwards(p, at[p]) ELSE Backwards(p, at[p])

\* A stage holds the chunks that have gone forward and not yet backward.
Held(p) == Backwards(p, at[p])..(Forwards(p, at[p]) - 1)

Stepping == {"finite", "flags", "update", "loss"}

StageOK(p) ==
  /\ records[p] = Held(p)
  /\ peak[p] <= pp_size - p
  /\ pc[p] # "error"
  /\ pc[p] \in Stepping => at[p] = 2 * num_chunks /\ works[p] = <<>>
  /\ pc[p] = "done" => at[p] = 0
  /\ pc[p] = "recv_fwd" => /\ at[p] < 2 * num_chunks /\ receives(p, "fwd")
                           /\ next_op(p) = forward(done(p, "fwd"))
  /\ pc[p] = "recv_bwd" => /\ at[p] < 2 * num_chunks /\ receives(p, "bwd")
                           /\ next_op(p) = backward(done(p, "bwd"))
  /\ \A d \in Directions : pc[p] = slot_label(d) => inflight[p][d] # <<>>

StageInv == \A p \in Stages : StageOK(p)

\* All stages are in the same step, in whose collectives they are together.
StepInv ==
  /\ \A p, q \in Stages :
       /\ step[p] = step[q]
       /\ pc[p] = "flags" => pc[q] = "flags"
       /\ pc[p] \in {"update", "loss"} => pc[q] \in {"update", "loss"}
       /\ \A n \in 1..(step[p] - 1) : outcome[p][n] = outcome[q][n]
  /\ \A p \in Stages :
       /\ pc[p] = "done" <=> step[p] = Steps + 1
       /\ Len(outcome[p]) = IF pc[p] = "loss" THEN step[p] ELSE step[p] - 1
       /\ pc[p] = "loss" => outcome[p][step[p]] = "stepped"

sender(e, d) == IF d = "fwd" THEN e ELSE e + 1
receiver(e, d) == IF d = "fwd" THEN e + 1 ELSE e

awaiting(p, d) == pc[p] = recv_label(d) /\ got[p] = NoMessage
received(p, d) == pc[p] = recv_label(d) /\ got[p] # NoMessage
delivered(p, d) == IF received(p, d) THEN done(p, d) + 1 ELSE done(p, d)

\* What has been sent and not delivered, in order, and the receive that waits for it.
Outgoing(s, d, from, n) ==
  [i \in 1..n |-> [kind |-> "send", msg |-> message(d, s, from + i - 1)]]
Incoming(r, d) ==
  IF awaiting(r, d) THEN <<[kind |-> "recv", msg |-> message(d, r, done(r, d))]>> ELSE <<>>

\* What the sender has posted has been done and not delivered, and is in order; the receiver
\* has posted what it waits for.
Channel(e, d) ==
  LET s == sender(e, d)
      r == receiver(e, d) IN
  /\ delivered(r, d) <= done(s, d)
  /\ posts(s, e, d) = Outgoing(s, d, delivered(r, d), done(s, d) - delivered(r, d))
  /\ posts(r, e, d) = Incoming(r, d)

ChannelInv == \A e \in Links, d \in Directions : Channel(e, d)

\* What a stage was given is what it waits for.
GotInv ==
  \A p \in Stages : got[p] # NoMessage =>
    \E d \in Directions : pc[p] = recv_label(d) /\ got[p] = message(d, p, done(p, d))

IInv == TypeOK /\ StageInv /\ StepInv /\ ChannelInv /\ GotInv

-----------------------------------------------------------------------------
(* Links, posts and messages.                                              *)

other(d) == IF d = "fwd" THEN "bwd" ELSE "fwd"

LEMMA DoneBounds ==
  ASSUME TypeOK, NEW p \in Stages, NEW d \in Directions
  PROVE  done(p, d) \in 0..num_chunks
BY ForwardsBounds DEF TypeOK, done, Directions

LEMMA DeliveredType ==
  ASSUME TypeOK, NEW p \in Stages, NEW d \in Directions
  PROVE  delivered(p, d) \in Nat
BY DoneBounds, PipelineAssumption DEF delivered

\* Who is at the ends of a link, and the links of a stage.
LEMMA LinkEnds ==
  ASSUME NEW e \in Links, NEW d \in Directions
  PROVE  /\ sender(e, d) \in Stages /\ receiver(e, d) \in Stages
         /\ sender(e, d) # receiver(e, d)
         /\ sender(e, d) \in {e, e + 1} /\ receiver(e, d) \in {e, e + 1}
         /\ end_of(sender(e, d), e) \in Ends /\ end_of(receiver(e, d), e) \in Ends
         /\ end_of(sender(e, d), e) # end_of(receiver(e, d), e)
         /\ sends(sender(e, d), d) /\ send_link(sender(e, d), d) = e
         /\ receives(receiver(e, d), d) /\ recv_link(receiver(e, d), d) = e
BY PipelineAssumption
   DEF Links, Stages, Directions, sender, receiver, end_of, Ends, sends, receives,
       send_link, recv_link, First, Last

LEMMA StageLinks ==
  ASSUME NEW p \in Stages, NEW d \in Directions
  PROVE  /\ sends(p, d) => send_link(p, d) \in Links /\ sender(send_link(p, d), d) = p
         /\ receives(p, d) => recv_link(p, d) \in Links /\ receiver(recv_link(p, d), d) = p
BY PipelineAssumption
   DEF Links, Stages, Directions, sender, receiver, sends, receives, send_link, recv_link,
       First, Last

LEMMA Groups ==
  /\ \A d \in Directions : group_of(d) \in ProcessGroups
  /\ \A c, d \in Directions : group_of(c) = group_of(d) => c = d
  /\ \A g \in ProcessGroups : \E d \in Directions : g = group_of(d)
BY DEF group_of, Directions, ProcessGroups

\* A post is added at its own end of its own link and group, and nowhere else.
Posted(p, e, kind, m) ==
  \A f \in Links, d \in Directions : \A q \in {f, f + 1} :
    posts(q, f, d)' = IF f = e /\ q = p /\ d = m.dir
                      THEN Append(posts(q, f, d), [kind |-> kind, msg |-> m])
                      ELSE posts(q, f, d)

LEMMA PostEffect ==
  ASSUME TypeOK, NEW e \in Links, NEW p \in {e, e + 1}, NEW kind \in {"send", "recv"},
         NEW m \in Messages, post(p, e, kind, m)
  PROVE  /\ posted' \in [Links -> [ProcessGroups -> [Ends -> Seq(Posts)]]]
         /\ Posted(p, e, kind, m)
<1> DEFINE g == group_of(m.dir)
           s == end_of(p, e)
           x == [kind |-> kind, msg |-> m]
<1>1. g \in ProcessGroups /\ s \in Ends /\ x \in Posts /\ m.dir \in Directions
  BY Groups DEF Messages, end_of, Ends, Posts
<1>2. posted' = [posted EXCEPT ![e][g][s] = Append(@, x)]
  BY DEF post
<1>3. posted \in [Links -> [ProcessGroups -> [Ends -> Seq(Posts)]]]
  BY DEF TypeOK
<1>4. Append(posted[e][g][s], x) \in Seq(Posts)
  BY <1>1, <1>3, AppendProperties
<1>5. ASSUME NEW f \in Links, NEW d \in Directions, NEW q \in {f, f + 1}
      PROVE  posts(q, f, d)' = IF f = e /\ q = p /\ d = m.dir
                               THEN Append(posts(q, f, d), x) ELSE posts(q, f, d)
  <2>1. group_of(d) \in ProcessGroups /\ end_of(q, f) \in Ends
    BY Groups DEF end_of, Ends
  <2>2. f = e /\ q = p /\ d = m.dir <=> f = e /\ group_of(d) = g /\ end_of(q, f) = s
    BY <1>1, Groups DEF end_of, Links
  <2> HIDE DEF g, s, x
  <2>3. posted'[f][group_of(d)][end_of(q, f)] =
          IF f = e /\ group_of(d) = g /\ end_of(q, f) = s
          THEN Append(posted[e][g][s], x) ELSE posted[f][group_of(d)][end_of(q, f)]
    BY <1>1, <1>2, <1>3, <2>1
  <2> QED
    BY <2>2, <2>3 DEF posts
<1>6. posted' \in [Links -> [ProcessGroups -> [Ends -> Seq(Posts)]]]
  <2> HIDE DEF g, s, x
  <2> QED
    BY <1>1, <1>2, <1>3, <1>4
<1> QED
  BY <1>5, <1>6 DEF Posted

-----------------------------------------------------------------------------
(* Stages and steps that an action leaves alone.                           *)

LEMMA StageKept ==
  ASSUME NEW q \in Stages, StageOK(q), at'[q] = at[q], records'[q] = records[q],
         peak'[q] = peak[q], pc'[q] = pc[q], works'[q] = works[q], inflight'[q] = inflight[q]
  PROVE  StageOK(q)'
BY DEF StageOK, Held, done, next_op, Stepping, receives

\* Labels at which a stage is with the others.
Meeting == {"flags", "update", "loss", "done"}

LEMMA StepKept ==
  ASSUME TypeOK, StepInv, step' = step, outcome' = outcome, NEW p \in Stages, NEW label \in Labels,
         pc' = [pc EXCEPT ![p] = label], pc[p] \notin Meeting, label \notin Meeting
  PROVE  StepInv'
<1>1. \A q \in Stages : pc'[q] = IF q = p THEN label ELSE pc[q]
  BY DEF TypeOK
<1>2. \A q \in Stages : pc[q] \notin {"flags", "update", "loss"}
  BY DEF StepInv, Meeting
<1>3. \A q \in Stages : pc'[q] \notin {"flags", "update", "loss"} /\ (pc'[q] = "done" <=> pc[q] = "done")
  BY <1>1, <1>2 DEF Meeting
<1> QED
  BY <1>2, <1>3 DEF StepInv

LEMMA Working ==
  ASSUME TypeOK, StepInv, NEW p \in Stages, pc[p] # "done", NEW c \in Chunks, NEW d \in Directions
  PROVE  message(d, p, c) \in Messages
BY PipelineAssumption DEF TypeOK, StepInv, message, Messages

LEMMA ChannelKept ==
  ASSUME NEW e \in Links, NEW d \in Directions, Channel(e, d),
         step'[sender(e, d)] = step[sender(e, d)],
         done(sender(e, d), d)' = done(sender(e, d), d),
         delivered(receiver(e, d), d)' = delivered(receiver(e, d), d),
         Incoming(receiver(e, d), d)' = Incoming(receiver(e, d), d),
         posts(sender(e, d), e, d)' = posts(sender(e, d), e, d),
         posts(receiver(e, d), e, d)' = posts(receiver(e, d), e, d)
  PROVE  Channel(e, d)'
<1> DEFINE s == sender(e, d)
           r == receiver(e, d)
<1>1. \A from, n : Outgoing(s, d, from, n)' = Outgoing(s, d, from, n)
  BY DEF Outgoing, message, sender
<1> QED
  BY <1>1 DEF Channel, Outgoing, message, sender, receiver

\* Whoever does not wait for a message has had all that was delivered to it.
LEMMA NotWaiting ==
  ASSUME TypeOK, GotInv, NEW p \in Stages, NEW d \in Directions, pc[p] # recv_label(d)
  PROVE  ~awaiting(p, d) /\ ~received(p, d) /\ delivered(p, d) = done(p, d) /\ Incoming(p, d) = <<>>
BY DEF awaiting, received, delivered, Incoming

-----------------------------------------------------------------------------
(* Messages in a channel.                                                  *)

LEMMA OutgoingAppend ==
  ASSUME NEW s, NEW d, NEW from \in Nat, NEW n \in Nat,
         Outgoing(s, d, from, n) \in Seq(Posts),
         NEW x \in Posts, x = [kind |-> "send", msg |-> message(d, s, from + n)]
  PROVE  Append(Outgoing(s, d, from, n), x) = Outgoing(s, d, from, n + 1)
<1> DEFINE a == Outgoing(s, d, from, n)
           b == Outgoing(s, d, from, n + 1)
           f(i) == [kind |-> "send", msg |-> message(d, s, from + i - 1)]
<1>1. a = [i \in 1..n |-> f(i)] /\ b = [i \in 1..(n + 1) |-> f(i)]
  BY DEF Outgoing
<1>2. Len(a) = n
  <2>1. DOMAIN a = 1..n
    BY <1>1
  <2> QED
    BY <2>1, LenProperties
<1>3. Append(a, x) = [i \in 1..(n + 1) |-> IF i <= n THEN a[i] ELSE x]
  <2> HIDE DEF a
  <2>1. /\ Append(a, x) \in Seq(Posts) /\ Len(Append(a, x)) = n + 1
        /\ \A i \in 1..n : Append(a, x)[i] = a[i]
        /\ Append(a, x)[n + 1] = x
    BY <1>2, AppendProperties DEF a
  <2>2. Append(a, x) \in [1..(n + 1) -> Posts]
    BY <2>1, LenProperties
  <2> QED
    BY <2>1, <2>2
<1>4. x = f(n + 1)
  <2>1. from + (n + 1) - 1 = from + n
    OBVIOUS
  <2> QED
    BY <2>1
<1>5. \A i \in 1..(n + 1) : (IF i <= n THEN a[i] ELSE x) = f(i)
  <2> SUFFICES ASSUME NEW i \in 1..(n + 1)
               PROVE  (IF i <= n THEN a[i] ELSE x) = f(i)
    OBVIOUS
  <2> HIDE DEF f
  <2>1. CASE i <= n
    <3>1. i \in 1..n
      BY <2>1
    <3> HIDE DEF a
    <3> QED
      BY <1>1, <2>1, <3>1
  <2>2. CASE ~(i <= n)
    <3>1. i = n + 1
      BY <2>2
    <3> QED
      BY <1>4, <2>2, <3>1
  <2> QED
    BY <2>1, <2>2
<1> HIDE DEF a, b, f
<1> QED
  BY <1>1, <1>3, <1>5 DEF a, b

LEMMA OutgoingTail ==
  ASSUME NEW s, NEW d, NEW from \in Nat, NEW n \in Nat, n > 0,
         Outgoing(s, d, from, n) \in Seq(Posts)
  PROVE  /\ Outgoing(s, d, from, n) # <<>>
         /\ Head(Outgoing(s, d, from, n)) = [kind |-> "send", msg |-> message(d, s, from)]
         /\ Tail(Outgoing(s, d, from, n)) = Outgoing(s, d, from + 1, n - 1)
<1> DEFINE a == Outgoing(s, d, from, n)
           b == Outgoing(s, d, from + 1, n - 1)
           f(i) == [kind |-> "send", msg |-> message(d, s, i)]
<1>1. a = [i \in 1..n |-> f(from + i - 1)] /\ b = [i \in 1..(n - 1) |-> f((from + 1) + i - 1)]
  BY DEF Outgoing
<1> HIDE DEF f
<1>2. Len(a) = n
  <2>1. DOMAIN a = 1..n
    BY <1>1
  <2> QED
    BY <2>1, LenProperties
<1>3. a # <<>> /\ Head(a) = a[1] /\ a[1] = f(from)
  <2>1. 1 \in 1..n /\ from + 1 - 1 = from
    OBVIOUS
  <2>2. a[1] = f(from)
    BY <1>1, <2>1
  <2> HIDE DEF a
  <2> QED
    BY <1>2, <2>2, HeadTailProperties, EmptySeq
<1>4. Tail(a) = [i \in 1..(n - 1) |-> a[i + 1]]
  <2> HIDE DEF a
  <2>1. /\ Tail(a) \in Seq(Posts) /\ Len(Tail(a)) = n - 1
        /\ \A i \in 1..Len(Tail(a)) : Tail(a)[i] = a[i + 1]
    <3>1. a \in Seq(Posts)
      BY DEF a
    <3> QED
      BY <1>2, <1>3, <3>1, HeadTailProperties
  <2>2. Tail(a) \in [1..(n - 1) -> Posts]
    BY <2>1, LenProperties
  <2> QED
    BY <2>1, <2>2
<1>5. \A i \in 1..(n - 1) : a[i + 1] = f((from + 1) + i - 1)
  <2> SUFFICES ASSUME NEW i \in 1..(n - 1)
               PROVE  a[i + 1] = f((from + 1) + i - 1)
    OBVIOUS
  <2>1. i + 1 \in 1..n /\ from + (i + 1) - 1 = (from + 1) + i - 1
    OBVIOUS
  <2> HIDE DEF a
  <2> QED
    BY <1>1, <2>1
<1> HIDE DEF a, b
<1>6. Tail(a) = b
  BY <1>1, <1>4, <1>5
<1> QED
  BY <1>3, <1>6 DEF a, b, f

LEMMA NothingOutgoing ==
  \A s, d, from : Outgoing(s, d, from, 0) = <<>>
BY DEF Outgoing

-----------------------------------------------------------------------------
(* What an operation does to the channels.                                 *)

\* A message that a stage sends is behind all that it has sent.
LEMMA SentChannel ==
  ASSUME TypeOK, TypeOK', NEW e \in Links, NEW d \in Directions, Channel(e, d),
         step' = step,
         done(sender(e, d), d)' = done(sender(e, d), d) + 1,
         delivered(receiver(e, d), d)' = delivered(receiver(e, d), d),
         Incoming(receiver(e, d), d)' = Incoming(receiver(e, d), d),
         posts(receiver(e, d), e, d)' = posts(receiver(e, d), e, d),
         NEW x \in Posts,
         x = [kind |-> "send", msg |-> message(d, sender(e, d), done(sender(e, d), d))],
         posts(sender(e, d), e, d)' = Append(posts(sender(e, d), e, d), x)
  PROVE  Channel(e, d)'
<1> DEFINE s == sender(e, d)
           r == receiver(e, d)
           from == delivered(r, d)
           n == done(s, d) - from
<1>1. s \in Stages /\ r \in Stages /\ end_of(s, e) \in Ends /\ group_of(d) \in ProcessGroups
  BY LinkEnds, Groups
<1>2. done(s, d) \in Nat /\ from \in Nat /\ from <= done(s, d)
  BY <1>1, DoneBounds, DeliveredType, PipelineAssumption DEF Channel
<1>3. n \in Nat /\ from + n = done(s, d) /\ done(s, d)' - from = n + 1
  BY <1>2
<1>4. posts(s, e, d) \in Seq(Posts)
  BY <1>1 DEF TypeOK, posts
<1>5. posts(s, e, d) = Outgoing(s, d, from, n)
  BY DEF Channel
<1>6. x = [kind |-> "send", msg |-> message(d, s, from + n)]
  BY <1>3
<1>7. Append(posts(s, e, d), x) = Outgoing(s, d, from, n + 1)
  <2> HIDE DEF s, from, n
  <2>1. Append(Outgoing(s, d, from, n), x) = Outgoing(s, d, from, n + 1)
    BY <1>2, <1>3, <1>4, <1>5, <1>6, OutgoingAppend
  <2> QED
    BY <1>5, <2>1
<1>9. \A a, b : Outgoing(s, d, a, b)' = Outgoing(s, d, a, b)
  BY DEF Outgoing, message, sender
<1>10. delivered(r, d)' <= done(s, d)'
  BY <1>2
<1>11. posts(s, e, d)' = Outgoing(s, d, delivered(r, d)', done(s, d)' - delivered(r, d)')
  BY <1>3, <1>7
<1>12. posts(r, e, d)' = Incoming(r, d)'
  BY DEF Channel
<1> HIDE DEF s, r, from, n
<1> QED
  BY <1>10, <1>11, <1>12 DEF Channel, Outgoing, message, s, r, sender, receiver

\* Computing on a chunk and sending the result on.
LEMMA RunEffect ==
  ASSUME IInv, TypeOK', NEW p \in Stages, NEW d \in Directions,
         pc[p] \in {"next", recv_label(d)}, receives(p, d) => received(p, d),
         at' = [at EXCEPT ![p] = @ + 1],
         done(p, d)' = done(p, d) + 1, done(p, other(d))' = done(p, other(d)),
         step' = step, got' = [got EXCEPT ![p] = NoMessage],
         message(d, p, done(p, d)) \in Messages,
         SendOn(p, d, done(p, d))
  PROVE  ChannelInv' /\ GotInv'
<1> DEFINE m == message(d, p, done(p, d))
           x == [kind |-> "send", msg |-> m]
<1> USE DEF IInv
<1>1. \E label \in {"next", slot_label(d)} : pc' = [pc EXCEPT ![p] = label]
  BY DEF SendOn, PostSend
<1>2. \A b \in Directions : pc'[p] # recv_label(b)
  BY <1>1 DEF TypeOK, Directions, recv_label, slot_label
<1>3. \A q \in Stages \ {p} : pc'[q] = pc[q] /\ at'[q] = at[q] /\ got'[q] = got[q]
  BY <1>1 DEF TypeOK
<1>4. \A q \in Stages \ {p}, b \in Directions :
        /\ done(q, b)' = done(q, b)
        /\ delivered(q, b)' = delivered(q, b) /\ Incoming(q, b)' = Incoming(q, b)
  BY <1>3 DEF done, delivered, Incoming, awaiting, received, message
<1>5. x \in Posts /\ m.dir = d
  BY DEF Posts, message
<1>6. \A f \in Links, b \in Directions : \A q \in {f, f + 1} :
        posts(q, f, b)' = IF sends(p, d) /\ f = send_link(p, d) /\ q = p /\ b = d
                          THEN Append(posts(q, f, b), x) ELSE posts(q, f, b)
  <2>1. CASE sends(p, d)
    <3>1. send_link(p, d) \in Links /\ p \in {send_link(p, d), send_link(p, d) + 1}
      BY <2>1, StageLinks, LinkEnds
    <3>2. post(p, send_link(p, d), "send", m)
      BY <2>1 DEF SendOn, PostSend
    <3>3. \A f \in Links, b \in Directions : \A q \in {f, f + 1} :
            posts(q, f, b)' = IF f = send_link(p, d) /\ q = p /\ b = m.dir
                              THEN Append(posts(q, f, b), x) ELSE posts(q, f, b)
      <4> HIDE DEF m
      <4>1. m \in Messages
        BY DEF m
      <4>2. Posted(p, send_link(p, d), "send", m)
        BY <3>1, <3>2, <4>1, PostEffect
      <4> QED
        BY <4>2 DEF Posted
    <3> HIDE DEF m, x
    <3> QED
      BY <1>5, <2>1, <3>3
  <2>2. CASE ~sends(p, d)
    <3>1. posted' = posted
      BY <2>2 DEF SendOn
    <3> QED
      BY <2>2, <3>1 DEF posts
  <2> QED
    BY <2>1, <2>2
<1> HIDE DEF x
<1>7. ASSUME NEW b \in Directions, b = d => receives(p, d)
      PROVE  delivered(p, b)' = delivered(p, b) /\ Incoming(p, b)' = Incoming(p, b)
  <2>1. delivered(p, b)' = done(p, b)' /\ Incoming(p, b)' = <<>>
    BY <1>2 DEF delivered, Incoming, awaiting, received
  <2>2. CASE b = d
    <3>1. received(p, d)
      BY <1>7, <2>2
    <3>2. delivered(p, d) = done(p, d) + 1 /\ Incoming(p, d) = <<>>
      BY <3>1 DEF delivered, Incoming, awaiting, received
    <3> QED
      BY <2>1, <2>2, <3>2
  <2>3. CASE b # d
    <3>1. b = other(d)
      BY <2>3 DEF Directions, other
    <3>2. pc[p] # recv_label(b)
      BY <2>3 DEF Directions, recv_label
    <3>3. delivered(p, b) = done(p, b) /\ Incoming(p, b) = <<>>
      BY <3>2, NotWaiting
    <3> QED
      BY <2>1, <3>1, <3>3
  <2> QED
    BY <2>2, <2>3
<1>8. ASSUME NEW e \in Links, NEW b \in Directions
      PROVE  Channel(e, b)'
  <2> DEFINE s == sender(e, b)
             r == receiver(e, b)
  <2>1. /\ s \in Stages /\ r \in Stages /\ s # r /\ s \in {e, e + 1} /\ r \in {e, e + 1}
        /\ sends(s, b) /\ send_link(s, b) = e /\ receives(r, b) /\ recv_link(r, b) = e
    BY LinkEnds
  <2>2. Channel(e, b)
    BY DEF ChannelInv
  <2>3. delivered(r, b)' = delivered(r, b) /\ Incoming(r, b)' = Incoming(r, b)
    <3>1. CASE r = p
      BY <1>7, <2>1, <3>1
    <3>2. CASE r # p
      BY <1>4, <2>1, <3>2
    <3> QED
      BY <3>1, <3>2
  <2>4. posts(r, e, b)' = posts(r, e, b)
    <3>1. ~(sends(p, d) /\ e = send_link(p, d) /\ r = p /\ b = d)
      BY <2>1, StageLinks
    <3> QED
      BY <1>6, <2>1, <3>1
  <2>5. CASE s = p /\ b = d
    <3>1. posts(s, e, b)' = Append(posts(s, e, b), x)
      BY <1>6, <2>1, <2>5
    <3>2. x = [kind |-> "send", msg |-> message(b, s, done(s, b))]
      BY <2>5 DEF x
    <3>3. done(s, b)' = done(s, b) + 1
      BY <2>5
    <3> QED
      BY <1>5, <2>2, <2>3, <2>4, <3>1, <3>2, <3>3, SentChannel
  <2>6. CASE ~(s = p /\ b = d)
    <3>1. posts(s, e, b)' = posts(s, e, b)
      BY <1>6, <2>1, <2>6
    <3>2. done(s, b)' = done(s, b)
      <4>1. CASE s = p
        <5>1. b = other(d)
          BY <2>6, <4>1 DEF Directions, other
        <5> QED
          BY <4>1, <5>1
      <4>2. CASE s # p
        BY <1>4, <2>1, <4>2
      <4> QED
        BY <4>1, <4>2
    <3> QED
      BY <2>2, <2>3, <2>4, <3>1, <3>2, ChannelKept
  <2> QED
    BY <2>5, <2>6
<1>9. GotInv'
  <2> SUFFICES ASSUME NEW q \in Stages, got'[q] # NoMessage
               PROVE  \E b \in Directions :
                        pc'[q] = recv_label(b) /\ got'[q] = message(b, q, done(q, b))'
    BY DEF GotInv
  <2>1. q # p
    BY DEF TypeOK
  <2>2. PICK b \in Directions : pc[q] = recv_label(b) /\ got[q] = message(b, q, done(q, b))
    BY <1>3, <2>1 DEF GotInv
  <2>3. message(b, q, done(q, b))' = message(b, q, done(q, b))
    BY <1>4, <2>1 DEF message
  <2> QED
    BY <1>3, <2>1, <2>2, <2>3
<1> QED
  BY <1>8, <1>9 DEF ChannelInv

\* Beginning to wait for a message.
LEMMA RecvEffect ==
  ASSUME IInv, TypeOK', NEW p \in Stages, NEW d \in Directions, pc[p] = "next", receives(p, d),
         at' = at, step' = step, got' = got,
         message(d, p, done(p, d)) \in Messages,
         PostRecv(p, d, done(p, d))
  PROVE  ChannelInv' /\ GotInv'
<1> DEFINE m == message(d, p, done(p, d))
           x == [kind |-> "recv", msg |-> m]
           f == recv_link(p, d)
<1> USE DEF IInv
<1>1. pc' = [pc EXCEPT ![p] = recv_label(d)]
  BY DEF PostRecv
<1>2. \A q \in Stages : pc'[q] = IF q = p THEN recv_label(d) ELSE pc[q]
  BY <1>1 DEF TypeOK
<1>3. got[p] = NoMessage
  BY DEF GotInv, recv_label
<1>4. \A q \in Stages, b \in Directions : done(q, b)' = done(q, b)
  BY DEF done
<1>5. \A q \in Stages \ {p}, b \in Directions :
        delivered(q, b)' = delivered(q, b) /\ Incoming(q, b)' = Incoming(q, b)
  BY <1>2, <1>4 DEF delivered, Incoming, awaiting, received, message
<1>6. x \in Posts /\ m.dir = d /\ f \in Links /\ p \in {f, f + 1}
  BY StageLinks, LinkEnds DEF Posts, message
<1>7. \A g \in Links, b \in Directions : \A q \in {g, g + 1} :
        posts(q, g, b)' = IF g = f /\ q = p /\ b = d
                          THEN Append(posts(q, g, b), x) ELSE posts(q, g, b)
  <2>1. post(p, f, "recv", m)
    BY DEF PostRecv
  <2>2. \A g \in Links, b \in Directions : \A q \in {g, g + 1} :
          posts(q, g, b)' = IF g = f /\ q = p /\ b = m.dir
                            THEN Append(posts(q, g, b), x) ELSE posts(q, g, b)
    <3> HIDE DEF m, f
    <3>1. m \in Messages
      BY DEF m
    <3>2. Posted(p, f, "recv", m)
      BY <1>6, <2>1, <3>1, PostEffect
    <3> QED
      BY <3>2 DEF Posted
  <2> HIDE DEF m, x
  <2> QED
    BY <1>6, <2>2
<1>8. \A b \in Directions : /\ ~awaiting(p, b) /\ ~received(p, b)
                            /\ delivered(p, b) = done(p, b) /\ Incoming(p, b) = <<>>
  <2>1. \A b \in Directions : pc[p] # recv_label(b)
    BY DEF recv_label
  <2> QED
    BY <2>1, NotWaiting
<1>9. \A b \in Directions : delivered(p, b)' = done(p, b)'
  BY <1>3 DEF delivered, received
<1>10. awaiting(p, d)' /\ Incoming(p, d)' = <<x>>
  <2>1. awaiting(p, d)'
    BY <1>2, <1>3 DEF awaiting
  <2>2. m = message(d, p, done(p, d))'
    BY <1>4 DEF message
  <2> QED
    BY <2>1, <2>2 DEF Incoming
<1>11. \A b \in Directions \ {d} : Incoming(p, b)' = <<>>
  <2>1. \A b \in Directions \ {d} : pc'[p] # recv_label(b)
    BY <1>2 DEF recv_label, Directions
  <2> QED
    BY <2>1 DEF Incoming, awaiting
<1> HIDE DEF x, m
<1>12. ASSUME NEW e \in Links, NEW b \in Directions
       PROVE  Channel(e, b)'
  <2> DEFINE s == sender(e, b)
             r == receiver(e, b)
  <2>1. /\ s \in Stages /\ r \in Stages /\ s # r /\ s \in {e, e + 1} /\ r \in {e, e + 1}
        /\ receives(r, b) /\ recv_link(r, b) = e
    BY LinkEnds
  <2>2. Channel(e, b)
    BY DEF ChannelInv
  <2>3. delivered(r, b)' = delivered(r, b)
    BY <1>4, <1>5, <1>8, <1>9, <2>1
  <2>4. posts(s, e, b)' = posts(s, e, b)
    <3>1. ~(e = f /\ s = p /\ b = d)
      BY <2>1, StageLinks
    <3> QED
      BY <1>7, <2>1, <3>1
  <2>5. CASE r = p /\ b = d
    <3>1. posts(r, e, b) = <<>>
      BY <1>8, <2>2, <2>5 DEF Channel
    <3>2. posts(r, e, b)' = Append(<<>>, x)
      BY <1>7, <2>1, <2>5, <3>1
    <3>3. posts(r, e, b)' = Incoming(r, b)'
      BY <1>10, <2>5, <3>2
    <3>4. done(s, b)' = done(s, b)
      BY <1>4, <2>1
    <3>5. \A i, n : Outgoing(s, b, i, n)' = Outgoing(s, b, i, n)
      BY DEF Outgoing, message, sender
    <3>6. /\ delivered(r, b)' <= done(s, b)'
          /\ posts(s, e, b)' = Outgoing(s, b, delivered(r, b)', done(s, b)' - delivered(r, b)')
      BY <2>2, <2>3, <2>4, <3>4 DEF Channel
    <3> HIDE DEF s, r
    <3> QED
      BY <3>3, <3>6 DEF Channel, Outgoing, message, s, r, sender, receiver
  <2>6. CASE ~(r = p /\ b = d)
    <3>1. posts(r, e, b)' = posts(r, e, b)
      BY <1>7, <2>1, <2>6
    <3>2. Incoming(r, b)' = Incoming(r, b)
      BY <1>5, <1>8, <1>11, <2>1, <2>6
    <3>3. done(s, b)' = done(s, b)
      BY <1>4, <2>1
    <3> QED
      BY <2>2, <2>3, <2>4, <3>1, <3>2, <3>3, ChannelKept
  <2> QED
    BY <2>5, <2>6
<1>13. GotInv'
  <2> SUFFICES ASSUME NEW q \in Stages, got'[q] # NoMessage
               PROVE  \E b \in Directions :
                        pc'[q] = recv_label(b) /\ got'[q] = message(b, q, done(q, b))'
    BY DEF GotInv
  <2>1. q # p
    BY <1>3
  <2>2. PICK b \in Directions : pc[q] = recv_label(b) /\ got[q] = message(b, q, done(q, b))
    BY DEF GotInv
  <2>3. message(b, q, done(q, b))' = message(b, q, done(q, b))
    BY <1>4 DEF message
  <2> QED
    BY <1>2, <2>1, <2>2, <2>3
<1> QED
  BY <1>12, <1>13 DEF ChannelInv

-----------------------------------------------------------------------------
(* The operations of the schedule.                                         *)

LEMMA SendOnEffect ==
  ASSUME TypeOK, NEW p \in Stages, NEW d \in Directions, NEW c, message(d, p, c) \in Messages,
         SendOn(p, d, c)
  PROVE  /\ \E label \in {"next", slot_label(d)} : pc' = [pc EXCEPT ![p] = label]
         /\ posted' \in [Links -> [ProcessGroups -> [Ends -> Seq(Posts)]]]
         /\ inflight' \in [Stages -> [Directions -> Seq(Messages)]]
         /\ works' \in [Stages -> Seq(Messages)]
         /\ \A q \in Stages \ {p} : inflight'[q] = inflight[q] /\ works'[q] = works[q]
         /\ \A b \in Directions : pc'[p] = slot_label(b) => inflight'[p][b] # <<>>
<1>1. CASE sends(p, d)
  <2> DEFINE m == message(d, p, c)
             e == send_link(p, d)
             window == Append(inflight[p][d], m)
  <2>1. /\ post(p, e, "send", m) /\ inflight' = [inflight EXCEPT ![p][d] = window]
        /\ works' = [works EXCEPT ![p] = Append(@, m)]
        /\ pc' = [pc EXCEPT ![p] = IF must_wait(window) THEN slot_label(d) ELSE "next"]
    BY <1>1 DEF SendOn, PostSend
  <2>2. e \in Links /\ p \in {e, e + 1}
    BY <1>1, StageLinks, LinkEnds
  <2>3. posted' \in [Links -> [ProcessGroups -> [Ends -> Seq(Posts)]]]
    <3> HIDE DEF m, e
    <3>1. m \in Messages
      BY DEF m
    <3> QED
      BY <2>1, <2>2, <3>1, PostEffect
  <2>4. window \in Seq(Messages) /\ window # <<>> /\ Append(works[p], m) \in Seq(Messages)
    <3>1. inflight[p][d] \in Seq(Messages) /\ works[p] \in Seq(Messages) /\ m \in Messages
      BY DEF TypeOK
    <3> HIDE DEF m
    <3> QED
      BY <3>1, AppendProperties
  <2> HIDE DEF m, e, window
  <2>5. /\ inflight' \in [Stages -> [Directions -> Seq(Messages)]]
        /\ works' \in [Stages -> Seq(Messages)]
        /\ \A q \in Stages \ {p} : inflight'[q] = inflight[q] /\ works'[q] = works[q]
        /\ inflight'[p][d] = window
    BY <2>1, <2>4 DEF TypeOK
  <2>6. pc'[p] \in {"next", slot_label(d)}
    BY <2>1 DEF TypeOK
  <2>7. \A b \in Directions : pc'[p] = slot_label(b) => b = d
    BY <2>6 DEF slot_label, Directions
  <2>8. \E label \in {"next", slot_label(d)} : pc' = [pc EXCEPT ![p] = label]
    BY <2>1
  <2> QED
    BY <2>3, <2>4, <2>5, <2>7, <2>8
<1>2. CASE ~sends(p, d)
  <2>1. pc' = [pc EXCEPT ![p] = "next"] /\ UNCHANGED <<posted, inflight, works>>
    BY <1>2 DEF SendOn
  <2>2. pc'[p] = "next"
    BY <2>1 DEF TypeOK
  <2> QED
    BY <2>1, <2>2 DEF TypeOK, slot_label
<1> QED
  BY <1>1, <1>2

\* What an operation leaves of the stage that does it.
LEMMA RunStage ==
  ASSUME TypeOK, StageInv, NEW p \in Stages, NEW d \in Directions, NEW c,
         message(d, p, c) \in Messages, SendOn(p, d, c),
         at' = [at EXCEPT ![p] = @ + 1],
         records'[p] = Held(p)', peak'[p] <= pp_size - p,
         \A q \in Stages \ {p} : records'[q] = records[q] /\ peak'[q] = peak[q]
  PROVE  StageInv'
<1> USE SendOnEffect
<1>1. PICK label \in {"next", slot_label(d)} : pc' = [pc EXCEPT ![p] = label]
  OBVIOUS
<1>2. pc'[p] \in {"next", "slot_fwd", "slot_bwd"}
  BY <1>1 DEF TypeOK, slot_label, Directions
<1>3. StageOK(p)'
  <2>1. pc'[p] \notin Stepping /\ pc'[p] \notin {"error", "done", "recv_fwd", "recv_bwd"}
    BY <1>2 DEF Stepping
  <2>2. \A b \in Directions : (pc[p] = slot_label(b))' => inflight'[p][b] # <<>>
    BY DEF slot_label
  <2> QED
    BY <2>1, <2>2 DEF StageOK, slot_label
<1>4. ASSUME NEW q \in Stages \ {p}
      PROVE  StageOK(q)'
  <2>1. pc'[q] = pc[q] /\ at'[q] = at[q]
    BY <1>1 DEF TypeOK
  <2>2. inflight'[q] = inflight[q] /\ works'[q] = works[q]
    OBVIOUS
  <2>3. StageOK(q)
    BY DEF StageInv
  <2> QED
    BY <2>1, <2>2, <2>3, StageKept
<1> QED
  BY <1>3, <1>4 DEF StageInv

LEMMA ForwardStep ==
  ASSUME IInv, NEW p \in Stages, pc[p] \in {"next", "recv_fwd"}, at[p] < 2 * num_chunks,
         receives(p, "fwd") => received(p, "fwd"),
         next_op(p).op = "forward", RunForward(p, next_op(p).chunk)
  PROVE  IInv'
<1> DEFINE c == Forwards(p, at[p])
<1> USE DEF IInv
<1>1. at[p] \in 0..(2 * num_chunks - 1) /\ num_chunks \in Nat \ {0}
  BY PipelineAssumption DEF TypeOK
<1>2. /\ next_op(p).chunk = c /\ c \in Chunks
      /\ Forwards(p, at[p] + 1) = c + 1 /\ Backwards(p, at[p] + 1) = Backwards(p, at[p])
  <2>1. Forwards(p, at[p]) \in Int /\ at[p] \in Int
    BY <1>1, ForwardsBounds
  <2>2. CASE /\ operation(p, at[p] + 1) = forward(Forwards(p, at[p]))
             /\ Forwards(p, at[p]) \in Chunks
             /\ Forwards(p, at[p] + 1) = Forwards(p, at[p]) + 1
    BY <2>1, <2>2 DEF next_op, forward, Backwards
  <2>3. CASE operation(p, at[p] + 1) = backward(Backwards(p, at[p]))
    BY <2>3 DEF next_op, backward
  <2> QED
    BY <1>1, <2>2, <2>3, NextOperation
<1>3. message("fwd", p, c) \in Messages /\ "fwd" \in Directions
  BY <1>2, Working DEF Directions
<1>4. /\ at' = [at EXCEPT ![p] = @ + 1] /\ got' = [got EXCEPT ![p] = NoMessage]
      /\ records' = [records EXCEPT ![p] = @ \cup {c}]
      /\ peak' = [peak EXCEPT ![p] = LET n == Cardinality(records'[p]) IN IF n > @ THEN n ELSE @]
      /\ \E loss_finite \in BOOLEAN : finite' = [finite EXCEPT ![p] = @ /\ loss_finite]
      /\ SendOn(p, "fwd", c) /\ step' = step /\ outcome' = outcome
  BY <1>2 DEF RunForward
<1> HIDE DEF c
<1>5. at'[p] = at[p] + 1 /\ at' \in [Stages -> 0..(2 * num_chunks)]
  BY <1>1, <1>4 DEF TypeOK
<1>6. records'[p] = Held(p)' /\ Cardinality(records'[p]) \in Nat
      /\ Cardinality(records'[p]) <= pp_size - p
  <2> DEFINE b == Backwards(p, at[p])
  <2>1. b \in Nat /\ c \in Nat /\ b <= c /\ c + 1 - b <= pp_size - p
    <3>1. at[p] + 1 \in 0..(2 * num_chunks)
      BY <1>1
    <3>2. /\ Forwards(p, at[p] + 1) - Backwards(p, at[p] + 1) <= pp_size - p
          /\ Backwards(p, at[p]) <= Forwards(p, at[p])
          /\ Backwards(p, at[p]) \in 0..num_chunks /\ Forwards(p, at[p]) \in 0..num_chunks
      BY <1>1, <3>1, ForwardsBounds
    <3> QED
      BY <1>1, <1>2, <3>2 DEF c
  <2>2. records[p] = b..(c - 1)
    BY DEF StageInv, StageOK, Held, c
  <2>3. records'[p] = (b..(c - 1)) \cup {c}
    BY <1>4, <2>2 DEF TypeOK
  <2>4. Held(p)' = b..c
    <3>1. Held(p)' = Backwards(p, at[p] + 1)..(Forwards(p, at[p] + 1) - 1)
      BY <1>5 DEF Held, Forwards, Backwards, warmup
    <3>2. (c + 1) - 1 = c
      BY <2>1
    <3> QED
      BY <1>2, <3>1, <3>2
  <2> HIDE DEF b
  <2>5. (b..(c - 1)) \cup {c} = b..c
    BY <2>1
  <2>6. Cardinality(b..c) = c - b + 1
    BY <2>1, FS_Interval
  <2>7. Cardinality(records'[p]) = c - b + 1
    BY <2>3, <2>5, <2>6
  <2> QED
    BY <2>1, <2>3, <2>4, <2>5, <2>7, PipelineAssumption DEF Stages
<1>7. peak' \in [Stages -> Nat] /\ peak'[p] <= pp_size - p
      /\ \A q \in Stages \ {p} : peak'[q] = peak[q] /\ records'[q] = records[q]
  <2>1. peak[p] <= pp_size - p /\ peak \in [Stages -> Nat]
    BY DEF StageInv, StageOK, TypeOK
  <2> QED
    BY <1>4, <1>6, <2>1 DEF TypeOK
<1>8. PICK label \in {"next", slot_label("fwd")} : pc' = [pc EXCEPT ![p] = label]
  BY <1>3, <1>4, SendOnEffect
<1>9. label \in Labels /\ label \notin Meeting /\ pc[p] \notin Meeting
  BY DEF slot_label, Labels, Meeting
<1>10. TypeOK'
  <2>1. pc' \in [Stages -> Labels]
    BY <1>8, <1>9 DEF TypeOK
  <2>2. records' \in [Stages -> SUBSET Chunks]
    BY <1>2, <1>4 DEF TypeOK, c
  <2>3. finite' \in [Stages -> BOOLEAN]
    BY <1>4 DEF TypeOK
  <2>4. got' \in [Stages -> Messages \cup {NoMessage}]
    BY <1>4 DEF TypeOK
  <2>5. /\ posted' \in [Links -> [ProcessGroups -> [Ends -> Seq(Posts)]]]
        /\ inflight' \in [Stages -> [Directions -> Seq(Messages)]]
        /\ works' \in [Stages -> Seq(Messages)]
    BY <1>3, <1>4, SendOnEffect
  <2> QED
    BY <1>4, <1>5, <1>7, <2>1, <2>2, <2>3, <2>4, <2>5 DEF TypeOK
<1>11. StageInv'
  BY <1>3, <1>4, <1>6, <1>7, RunStage
<1>12. StepInv'
  BY <1>4, <1>8, <1>9, StepKept
<1>13. ChannelInv' /\ GotInv'
  <2>1. done(p, "fwd") = c /\ other("fwd") = "bwd"
    BY DEF done, other, c
  <2>2. done(p, "fwd")' = done(p, "fwd") + 1 /\ done(p, "bwd")' = done(p, "bwd")
    <3>1. done(p, "fwd")' = Forwards(p, at[p] + 1) /\ done(p, "bwd")' = Backwards(p, at[p] + 1)
      BY <1>5 DEF done, Forwards, Backwards, warmup
    <3>2. done(p, "bwd") = Backwards(p, at[p])
      BY DEF done
    <3> QED
      BY <1>2, <2>1, <3>1, <3>2
  <2>3. pc[p] \in {"next", recv_label("fwd")}
    BY DEF recv_label
  <2> QED
    BY <1>3, <1>4, <1>10, <2>1, <2>2, <2>3, RunEffect
<1> QED
  BY <1>10, <1>11, <1>12, <1>13

LEMMA BackwardStep ==
  ASSUME IInv, NEW p \in Stages, pc[p] \in {"next", "recv_bwd"}, at[p] < 2 * num_chunks,
         receives(p, "bwd") => received(p, "bwd"),
         next_op(p).op = "backward", RunBackward(p, next_op(p).chunk)
  PROVE  IInv'
<1> DEFINE c == Backwards(p, at[p])
<1> USE DEF IInv
<1>1. at[p] \in 0..(2 * num_chunks - 1) /\ num_chunks \in Nat \ {0}
  BY PipelineAssumption DEF TypeOK
<1>2. /\ next_op(p).chunk = c /\ c \in Chunks /\ c < Forwards(p, at[p])
      /\ Forwards(p, at[p] + 1) = Forwards(p, at[p]) /\ Backwards(p, at[p] + 1) = c + 1
      /\ Forwards(p, at[p]) \in Nat
  <2>1. Forwards(p, at[p]) \in Nat /\ at[p] \in Int
    BY <1>1, ForwardsBounds
  <2>2. CASE operation(p, at[p] + 1) = forward(Forwards(p, at[p]))
    BY <2>2 DEF next_op, forward
  <2>3. CASE /\ operation(p, at[p] + 1) = backward(Backwards(p, at[p]))
             /\ Backwards(p, at[p]) \in Chunks /\ Backwards(p, at[p]) < Forwards(p, at[p])
             /\ Forwards(p, at[p] + 1) = Forwards(p, at[p])
    <3>1. Backwards(p, at[p] + 1) = Backwards(p, at[p]) + 1
      BY <2>1, <2>3 DEF Backwards
    <3> QED
      BY <2>1, <2>3, <3>1 DEF next_op, backward
  <2> QED
    BY <1>1, <2>2, <2>3, NextOperation
<1>3. message("bwd", p, c) \in Messages /\ "bwd" \in Directions
  BY <1>2, Working DEF Directions
<1>4. /\ at' = [at EXCEPT ![p] = @ + 1] /\ got' = [got EXCEPT ![p] = NoMessage]
      /\ records' = [records EXCEPT ![p] = @ \ {c}]
      /\ SendOn(p, "bwd", c) /\ step' = step /\ outcome' = outcome /\ peak' = peak
      /\ finite' = finite
  BY <1>2 DEF RunBackward
<1>5. at'[p] = at[p] + 1 /\ at' \in [Stages -> 0..(2 * num_chunks)]
  BY <1>1, <1>4 DEF TypeOK
<1>6. records'[p] = Held(p)'
  <2> DEFINE f == Forwards(p, at[p])
  <2>1. records[p] = c..(f - 1)
    BY DEF StageInv, StageOK, Held
  <2>2. records'[p] = (c..(f - 1)) \ {c}
    BY <1>4, <2>1 DEF TypeOK
  <2>3. Held(p)' = (c + 1)..(f - 1)
    <3>1. Held(p)' = Backwards(p, at[p] + 1)..(Forwards(p, at[p] + 1) - 1)
      BY <1>5 DEF Held, Forwards, Backwards, warmup
    <3> QED
      BY <1>2, <3>1
  <2>4. c \in Nat /\ f \in Nat
    BY <1>1, <1>2 DEF Chunks
  <2> HIDE DEF c, f
  <2> QED
    BY <2>2, <2>3, <2>4
<1> HIDE DEF c
<1>7. peak'[p] <= pp_size - p /\ \A q \in Stages \ {p} : peak'[q] = peak[q] /\ records'[q] = records[q]
  BY <1>4 DEF StageInv, StageOK, TypeOK
<1>8. PICK label \in {"next", slot_label("bwd")} : pc' = [pc EXCEPT ![p] = label]
  BY <1>3, <1>4, SendOnEffect
<1>9. label \in Labels /\ label \notin Meeting /\ pc[p] \notin Meeting
  BY DEF slot_label, Labels, Meeting
<1>10. TypeOK'
  <2>1. pc' \in [Stages -> Labels]
    BY <1>8, <1>9 DEF TypeOK
  <2>2. records' \in [Stages -> SUBSET Chunks]
    BY <1>4 DEF TypeOK
  <2>3. got' \in [Stages -> Messages \cup {NoMessage}]
    BY <1>4 DEF TypeOK
  <2>4. /\ posted' \in [Links -> [ProcessGroups -> [Ends -> Seq(Posts)]]]
        /\ inflight' \in [Stages -> [Directions -> Seq(Messages)]]
        /\ works' \in [Stages -> Seq(Messages)]
    BY <1>3, <1>4, SendOnEffect
  <2> QED
    BY <1>4, <1>5, <2>1, <2>2, <2>3, <2>4 DEF TypeOK
<1>11. StageInv'
  BY <1>3, <1>4, <1>6, <1>7, RunStage
<1>12. StepInv'
  BY <1>4, <1>8, <1>9, StepKept
<1>13. ChannelInv' /\ GotInv'
  <2>1. done(p, "bwd") = c /\ other("bwd") = "fwd"
    BY DEF done, other, c
  <2>2. done(p, "bwd")' = done(p, "bwd") + 1 /\ done(p, "fwd")' = done(p, "fwd")
    <3>1. done(p, "fwd")' = Forwards(p, at[p] + 1) /\ done(p, "bwd")' = Backwards(p, at[p] + 1)
      BY <1>5 DEF done, Forwards, Backwards, warmup
    <3>2. done(p, "fwd") = Forwards(p, at[p])
      BY DEF done
    <3> QED
      BY <1>2, <2>1, <3>1, <3>2
  <2>3. pc[p] \in {"next", recv_label("bwd")}
    BY DEF recv_label
  <2> QED
    BY <1>3, <1>4, <1>10, <2>1, <2>2, <2>3, RunEffect
<1> QED
  BY <1>10, <1>11, <1>12, <1>13

LEMMA RecvStep ==
  ASSUME IInv, NEW p \in Stages, NEW d \in Directions, pc[p] = "next", at[p] < 2 * num_chunks,
         receives(p, d), next_op(p) = IF d = "fwd" THEN forward(done(p, d)) ELSE backward(done(p, d)),
         done(p, d) \in Chunks, PostRecv(p, d, done(p, d)),
         UNCHANGED <<step, at, records, inflight, works, got, finite, outcome, peak>>
  PROVE  IInv'
<1> DEFINE m == message(d, p, done(p, d))
           f == recv_link(p, d)
<1> USE DEF IInv
<1>1. m \in Messages
  BY Working
<1>2. pc' = [pc EXCEPT ![p] = recv_label(d)] /\ recv_label(d) \in Labels \ Meeting
      /\ pc[p] \notin Meeting
  BY DEF PostRecv, recv_label, Labels, Meeting
<1>3. posted' \in [Links -> [ProcessGroups -> [Ends -> Seq(Posts)]]]
  <2>1. f \in Links /\ p \in {f, f + 1} /\ post(p, f, "recv", m)
    BY StageLinks, LinkEnds DEF PostRecv
  <2> HIDE DEF m, f
  <2> QED
    BY <1>1, <2>1, PostEffect
<1>4. TypeOK'
  BY <1>2, <1>3 DEF TypeOK
<1>5. StageInv'
  <2>1. ASSUME NEW q \in Stages \ {p}
        PROVE  StageOK(q)'
    <3>1. pc'[q] = pc[q] /\ StageOK(q)
      BY <1>2 DEF TypeOK, StageInv
    <3> QED
      BY <3>1, StageKept
  <2>2. StageOK(p)'
    <3>1. pc'[p] = recv_label(d)
      BY <1>2 DEF TypeOK
    <3>2. next_op(p)' = next_op(p) /\ Held(p)' = Held(p) /\ \A b \in Directions : done(p, b)' = done(p, b)
      BY DEF next_op, Held, done
    <3>3. StageOK(p)
      BY DEF StageInv
    <3>4. /\ pc'[p] = "recv_fwd" => d = "fwd" /\ receives(p, "fwd") /\ next_op(p) = forward(done(p, "fwd"))
          /\ pc'[p] = "recv_bwd" => d = "bwd" /\ receives(p, "bwd") /\ next_op(p) = backward(done(p, "bwd"))
          /\ pc'[p] \notin {"error", "done", "slot_fwd", "slot_bwd"} \cup Stepping
      BY <3>1 DEF recv_label, Directions, Stepping
    <3>5. records'[p] = Held(p)' /\ peak'[p] <= pp_size - p /\ at'[p] = at[p]
      BY <3>2, <3>3 DEF StageOK
    <3> QED
      BY <3>2, <3>4, <3>5 DEF StageOK, slot_label, receives
  <2> QED
    BY <2>1, <2>2 DEF StageInv
<1>6. StepInv'
  BY <1>2, StepKept
<1>7. ChannelInv' /\ GotInv'
  BY <1>1, <1>4, RecvEffect
<1> QED
  BY <1>4, <1>5, <1>6, <1>7

LEMMA StartForwardStep ==
  ASSUME IInv, NEW p \in Stages, StartForward(p)
  PROVE  IInv'
<1> USE DEF IInv
<1>1. pc[p] = "next" /\ at[p] \in 0..(2 * num_chunks - 1) /\ next_op(p).op = "forward"
      /\ at[p] < 2 * num_chunks
  <2>1. ready(p) /\ next_op(p).op = "forward"
    BY DEF StartForward
  <2>2. at[p] \in 0..(2 * num_chunks) /\ num_chunks \in Nat \ {0}
    BY PipelineAssumption DEF TypeOK
  <2> QED
    BY <2>1, <2>2 DEF ready, schedule_done
<1>2. CASE receives(p, "fwd")
  <2>1. next_op(p) = forward(done(p, "fwd")) /\ done(p, "fwd") \in Chunks
    <3>1. CASE /\ operation(p, at[p] + 1) = forward(Forwards(p, at[p]))
               /\ Forwards(p, at[p]) \in Chunks
      BY <3>1 DEF next_op, done
    <3>2. CASE operation(p, at[p] + 1) = backward(Backwards(p, at[p]))
      BY <1>1, <3>2 DEF next_op, backward
    <3> QED
      BY <1>1, <3>1, <3>2, NextOperation
  <2>2. PostRecv(p, "fwd", next_op(p).chunk)
        /\ UNCHANGED <<step, at, records, inflight, works, got, finite, outcome, peak>>
    BY <1>2 DEF StartForward
  <2>3. next_op(p).chunk = done(p, "fwd")
    BY <2>1 DEF forward
  <2> QED
    BY <1>1, <1>2, <2>1, <2>2, <2>3, RecvStep DEF Directions
<1>3. CASE ~receives(p, "fwd")
  BY <1>1, <1>3, ForwardStep DEF StartForward
<1> QED
  BY <1>2, <1>3

LEMMA StartBackwardStep ==
  ASSUME IInv, NEW p \in Stages, StartBackward(p)
  PROVE  IInv'
<1> USE DEF IInv
<1>1. pc[p] = "next" /\ at[p] \in 0..(2 * num_chunks - 1) /\ next_op(p).op = "backward"
      /\ at[p] < 2 * num_chunks
  <2>1. ready(p) /\ next_op(p).op = "backward"
    BY DEF StartBackward
  <2>2. at[p] \in 0..(2 * num_chunks) /\ num_chunks \in Nat \ {0}
    BY PipelineAssumption DEF TypeOK
  <2> QED
    BY <2>1, <2>2 DEF ready, schedule_done
<1>2. next_op(p) = backward(done(p, "bwd")) /\ done(p, "bwd") \in Chunks
      /\ done(p, "bwd") < Forwards(p, at[p])
  <2>1. CASE operation(p, at[p] + 1) = forward(Forwards(p, at[p]))
    BY <1>1, <2>1 DEF next_op, forward
  <2>2. CASE /\ operation(p, at[p] + 1) = backward(Backwards(p, at[p]))
             /\ Backwards(p, at[p]) \in Chunks /\ Backwards(p, at[p]) < Forwards(p, at[p])
    BY <2>2 DEF next_op, done
  <2> QED
    BY <1>1, <2>1, <2>2, NextOperation
<1>3. next_op(p).chunk = done(p, "bwd")
  BY <1>2 DEF backward
<1>4. next_op(p).chunk \in records[p]
  <2>1. records[p] = done(p, "bwd")..(Forwards(p, at[p]) - 1)
    BY DEF StageInv, StageOK, Held, done
  <2>2. Forwards(p, at[p]) \in Int /\ done(p, "bwd") \in Int
    BY <1>1, <1>2, ForwardsBounds, PipelineAssumption DEF Chunks
  <2> QED
    BY <1>2, <1>3, <2>1, <2>2
<1>5. CASE receives(p, "bwd")
  <2>1. PostRecv(p, "bwd", next_op(p).chunk)
        /\ UNCHANGED <<step, at, records, inflight, works, got, finite, outcome, peak>>
    BY <1>4, <1>5 DEF StartBackward
  <2> QED
    BY <1>1, <1>2, <1>3, <1>5, <2>1, RecvStep DEF Directions
<1>6. CASE ~receives(p, "bwd")
  BY <1>1, <1>4, <1>6, BackwardStep DEF StartBackward
<1> QED
  BY <1>5, <1>6

LEMMA FinishForwardStep ==
  ASSUME IInv, NEW p \in Stages, FinishForward(p)
  PROVE  IInv'
<1>1. pc[p] = "recv_fwd" /\ got[p] # NoMessage /\ RunForward(p, next_op(p).chunk)
  BY DEF FinishForward
<1>2. at[p] < 2 * num_chunks /\ next_op(p).op = "forward"
  BY <1>1 DEF IInv, StageInv, StageOK, forward
<1>3. received(p, "fwd")
  BY <1>1 DEF received, recv_label
<1> QED
  BY <1>1, <1>2, <1>3, ForwardStep

LEMMA FinishBackwardStep ==
  ASSUME IInv, NEW p \in Stages, FinishBackward(p)
  PROVE  IInv'
<1>1. pc[p] = "recv_bwd" /\ got[p] # NoMessage /\ RunBackward(p, next_op(p).chunk)
  BY DEF FinishBackward
<1>2. at[p] < 2 * num_chunks /\ next_op(p).op = "backward"
  BY <1>1 DEF IInv, StageInv, StageOK, backward
<1>3. received(p, "bwd")
  BY <1>1 DEF received, recv_label
<1> QED
  BY <1>1, <1>2, <1>3, BackwardStep

-----------------------------------------------------------------------------
(* Waits, the transport, and the optimizer.                                *)

\* The channels do not notice where a stage goes on that neither begins nor ends a receive.
LEMMA ChannelsKept ==
  ASSUME TypeOK, ChannelInv, GotInv, at' = at, step' = step, posted' = posted, got' = got,
         NEW p \in Stages, NEW label, pc' = [pc EXCEPT ![p] = label],
         label \notin {"recv_fwd", "recv_bwd"}, pc[p] \notin {"recv_fwd", "recv_bwd"}
  PROVE  ChannelInv' /\ GotInv'
<1>1. \A q \in Stages, d \in Directions : (pc'[q] = recv_label(d)) <=> (pc[q] = recv_label(d))
  BY DEF TypeOK, recv_label
<1>2. \A q \in Stages, d \in Directions :
        /\ done(q, d)' = done(q, d) /\ message(d, q, done(q, d))' = message(d, q, done(q, d))
  BY DEF done, message
<1>3. \A q \in Stages, d \in Directions :
        delivered(q, d)' = delivered(q, d) /\ Incoming(q, d)' = Incoming(q, d)
  BY <1>1, <1>2 DEF delivered, Incoming, awaiting, received
<1>4. \A q, e, d : posts(q, e, d)' = posts(q, e, d)
  BY DEF posts
<1>5. ASSUME NEW e \in Links, NEW d \in Directions
      PROVE  Channel(e, d)'
  <2>1. sender(e, d) \in Stages /\ receiver(e, d) \in Stages /\ Channel(e, d)
    BY LinkEnds DEF ChannelInv
  <2> QED
    BY <1>2, <1>3, <1>4, <2>1, ChannelKept
<1>6. GotInv'
  BY <1>1, <1>2 DEF GotInv
<1> QED
  BY <1>5, <1>6 DEF ChannelInv

LEMMA AcquireSlotStep ==
  ASSUME IInv, NEW p \in Stages, NEW d \in Directions, AcquireSlot(p, d)
  PROVE  IInv'
<1> USE DEF IInv
<1>1. /\ pc[p] = slot_label(d) /\ pc' = [pc EXCEPT ![p] = "next"]
      /\ inflight' = [inflight EXCEPT ![p][d] = Tail(@)]
      /\ UNCHANGED <<step, at, records, posted, works, got, finite, outcome, peak>>
  BY DEF AcquireSlot
<1>2. "next" \in Labels \ Meeting /\ pc[p] \notin Meeting \cup {"recv_fwd", "recv_bwd"}
  BY <1>1 DEF Labels, Meeting, slot_label
<1>3. Tail(inflight[p][d]) \in Seq(Messages)
  <2>1. inflight[p][d] \in Seq(Messages) /\ inflight[p][d] # <<>>
    BY <1>1 DEF TypeOK, StageInv, StageOK
  <2> QED
    BY <2>1, HeadTailProperties
<1>4. inflight' \in [Stages -> [Directions -> Seq(Messages)]]
      /\ \A q \in Stages \ {p} : inflight'[q] = inflight[q]
  BY <1>1, <1>3 DEF TypeOK
<1>5. TypeOK'
  BY <1>1, <1>2, <1>4 DEF TypeOK
<1>6. StageInv'
  <2>1. ASSUME NEW q \in Stages \ {p}
        PROVE  StageOK(q)'
    <3>1. pc'[q] = pc[q] /\ StageOK(q)
      BY <1>1 DEF TypeOK, StageInv
    <3> QED
      BY <1>1, <1>4, <3>1, StageKept
  <2>2. StageOK(p)'
    <3>1. pc'[p] = "next" /\ StageOK(p)
      BY <1>1 DEF TypeOK, StageInv
    <3> QED
      BY <1>1, <3>1 DEF StageOK, Held, Stepping, slot_label
  <2> QED
    BY <2>1, <2>2 DEF StageInv
<1>7. StepInv'
  BY <1>1, <1>2, StepKept
<1>8. ChannelInv' /\ GotInv'
  BY <1>1, <1>2, ChannelsKept
<1> QED
  BY <1>5, <1>6, <1>7, <1>8

LEMMA WaitAllStep ==
  ASSUME IInv, NEW p \in Stages, WaitAll(p)
  PROVE  IInv'
<1> USE DEF IInv
<1>1. /\ pc[p] = "next" /\ at[p] = 2 * num_chunks /\ pc' = [pc EXCEPT ![p] = "finite"]
      /\ works' = [works EXCEPT ![p] = <<>>]
      /\ UNCHANGED <<step, at, records, posted, inflight, got, finite, outcome, peak>>
  BY DEF WaitAll, schedule_done
<1>2. "finite" \in Labels \ Meeting /\ pc[p] \notin Meeting \cup {"recv_fwd", "recv_bwd"}
  BY <1>1 DEF Labels, Meeting
<1>3. works' \in [Stages -> Seq(Messages)]
  BY <1>1, EmptySeq DEF TypeOK
<1>4. TypeOK'
  BY <1>1, <1>2, <1>3 DEF TypeOK
<1>5. StageInv'
  <2>1. ASSUME NEW q \in Stages \ {p}
        PROVE  StageOK(q)'
    <3>1. pc'[q] = pc[q] /\ works'[q] = works[q] /\ StageOK(q)
      BY <1>1 DEF TypeOK, StageInv
    <3> QED
      BY <1>1, <3>1, StageKept
  <2>2. StageOK(p)'
    <3>1. pc'[p] = "finite" /\ works'[p] = <<>> /\ StageOK(p)
      BY <1>1 DEF TypeOK, StageInv
    <3> QED
      BY <1>1, <3>1 DEF StageOK, Held, Stepping, slot_label
  <2> QED
    BY <2>1, <2>2 DEF StageInv
<1>6. StepInv'
  BY <1>1, <1>2, StepKept
<1>7. ChannelInv' /\ GotInv'
  BY <1>1, <1>2, ChannelsKept
<1> QED
  BY <1>4, <1>5, <1>6, <1>7

LEMMA OptimizerStepStep ==
  ASSUME IInv, NEW p \in Stages, OptimizerStep(p)
  PROVE  IInv'
<1> USE DEF IInv
<1>1. /\ pc[p] = "update" /\ pc' = [pc EXCEPT ![p] = "loss"]
      /\ outcome' = [outcome EXCEPT ![p] = Append(@, "stepped")]
      /\ UNCHANGED <<step, at, records, posted, inflight, works, got, finite, peak>>
  BY DEF OptimizerStep
<1>2. /\ step[p] \in Nat \ {0} /\ Len(outcome[p]) = step[p] - 1
      /\ outcome[p] \in Seq({"stepped", "skipped"})
  BY <1>1 DEF TypeOK, StepInv
<1>3. /\ outcome' \in [Stages -> Seq({"stepped", "skipped"})]
      /\ \A q \in Stages \ {p} : outcome'[q] = outcome[q] /\ pc'[q] = pc[q]
      /\ Len(outcome'[p]) = step[p] /\ outcome'[p][step[p]] = "stepped" /\ pc'[p] = "loss"
      /\ \A n \in 1..(step[p] - 1) : outcome'[p][n] = outcome[p][n]
  <2>1. /\ Append(outcome[p], "stepped") \in Seq({"stepped", "skipped"})
        /\ Len(Append(outcome[p], "stepped")) = step[p]
        /\ Append(outcome[p], "stepped")[step[p]] = "stepped"
        /\ \A n \in 1..(step[p] - 1) : Append(outcome[p], "stepped")[n] = outcome[p][n]
    BY <1>2, AppendProperties
  <2>2. outcome'[p] = Append(outcome[p], "stepped") /\ pc'[p] = "loss"
    BY <1>1 DEF TypeOK
  <2> QED
    BY <1>1, <2>1, <2>2 DEF TypeOK
<1>4. TypeOK'
  BY <1>1, <1>3 DEF TypeOK, Labels
<1>5. StageInv'
  <2>1. ASSUME NEW q \in Stages \ {p}
        PROVE  StageOK(q)'
    BY <1>1, <1>3, StageKept DEF StageInv
  <2>2. StageOK(p)'
    <3>1. StageOK(p)
      BY DEF StageInv
    <3> QED
      BY <1>1, <1>3, <3>1 DEF StageOK, Held, Stepping, slot_label
  <2> QED
    BY <2>1, <2>2 DEF StageInv
<1>6. StepInv'
  <2>1. \A q \in Stages : pc[q] \in {"update", "loss"} /\ step[q] = step[p]
    BY <1>1 DEF StepInv
  <2>2. \A q \in Stages : pc'[q] \in {"update", "loss"}
    BY <1>3, <2>1
  <2>3. ASSUME NEW q \in Stages, NEW r \in Stages, NEW n \in 1..(step[q] - 1)
        PROVE  outcome'[q][n] = outcome'[r][n]
    <3>1. outcome[q][n] = outcome[r][n]
      BY DEF StepInv
    <3>2. outcome'[q][n] = outcome[q][n] /\ outcome'[r][n] = outcome[r][n]
      BY <1>3, <2>1
    <3> QED
      BY <3>1, <3>2
  <2>4. \A q \in Stages : /\ Len(outcome'[q]) = IF pc'[q] = "loss" THEN step[q] ELSE step[q] - 1
                          /\ pc'[q] = "loss" => outcome'[q][step[q]] = "stepped"
    BY <1>3, <2>1 DEF StepInv
  <2>5. \A q \in Stages : pc'[q] = "done" <=> step[q] = Steps + 1
    BY <2>1, <2>2 DEF StepInv
  <2> QED
    BY <1>1, <2>1, <2>2, <2>3, <2>4, <2>5 DEF StepInv
<1>7. ChannelInv' /\ GotInv'
  BY <1>1, ChannelsKept
<1> QED
  BY <1>4, <1>5, <1>6, <1>7

\* The transport takes the oldest post of both ends of one link on one group.
LEMMA TakenPosts ==
  ASSUME TypeOK, NEW e \in Links, NEW d \in Directions, Transport(e, group_of(d))
  PROVE  /\ posted' \in [Links -> [ProcessGroups -> [Ends -> Seq(Posts)]]]
         /\ \A f \in Links, b \in Directions : \A q \in {f, f + 1} :
              posts(q, f, b)' = IF f = e /\ b = d THEN Tail(posts(q, f, b)) ELSE posts(q, f, b)
<1> DEFINE g == group_of(d)
           up == posted[e][g]["upstream"]
           down == posted[e][g]["downstream"]
<1>1. /\ up # <<>> /\ down # <<>>
      /\ posted' = [posted EXCEPT ![e][g]["upstream"] = Tail(@), ![e][g]["downstream"] = Tail(@)]
  BY DEF Transport
<1>2. posted \in [Links -> [ProcessGroups -> [Ends -> Seq(Posts)]]] /\ g \in ProcessGroups
  BY Groups DEF TypeOK
<1>3. Tail(up) \in Seq(Posts) /\ Tail(down) \in Seq(Posts)
  BY <1>1, <1>2, HeadTailProperties DEF Ends
<1>4. posted' = [posted EXCEPT ![e] = [posted[e] EXCEPT ![g] =
                   [posted[e][g] EXCEPT !["upstream"] = Tail(up), !["downstream"] = Tail(down)]]]
  BY <1>1, <1>2 DEF Ends
<1>5. ASSUME NEW f \in Links, NEW h \in ProcessGroups, NEW s \in Ends
      PROVE  posted'[f][h][s] = IF f = e /\ h = g THEN Tail(posted[f][h][s]) ELSE posted[f][h][s]
  <2> HIDE DEF g
  <2>1. CASE f = e /\ h = g
    BY <1>2, <1>4, <2>1 DEF Ends
  <2>2. CASE ~(f = e /\ h = g)
    BY <1>2, <1>4, <2>2
  <2> QED
    BY <2>1, <2>2
<1>6. posted' \in [Links -> [ProcessGroups -> [Ends -> Seq(Posts)]]]
  <2>1. [posted[e][g] EXCEPT !["upstream"] = Tail(up), !["downstream"] = Tail(down)]
          \in [Ends -> Seq(Posts)]
    <3> HIDE DEF g
    <3> QED
      BY <1>2, <1>3 DEF Ends
  <2> HIDE DEF g, up, down
  <2> QED
    BY <1>2, <1>4, <2>1
<1>7. ASSUME NEW f \in Links, NEW b \in Directions, NEW q \in {f, f + 1}
      PROVE  posts(q, f, b)' = IF f = e /\ b = d THEN Tail(posts(q, f, b)) ELSE posts(q, f, b)
  <2>1. group_of(b) \in ProcessGroups /\ end_of(q, f) \in Ends /\ (group_of(b) = g <=> b = d)
    BY Groups DEF end_of, Ends
  <2> HIDE DEF g
  <2> QED
    BY <1>5, <2>1 DEF posts
<1> QED
  BY <1>6, <1>7

\* What moves is the oldest message sent and not delivered, and the receiver waits for it.
LEMMA TransportMoves ==
  ASSUME IInv, NEW e \in Links, NEW d \in Directions, Transport(e, group_of(d))
  PROVE  LET s == sender(e, d)
             r == receiver(e, d) IN
         /\ awaiting(r, d) /\ delivered(r, d) = done(r, d) /\ done(r, d) < done(s, d)
         /\ message(d, r, done(r, d)) \in Messages
         /\ got' = [got EXCEPT ![r] = message(d, r, done(r, d))]
<1> DEFINE s == sender(e, d)
           r == receiver(e, d)
           m == message(d, r, done(r, d))
           n == done(s, d) - done(r, d)
<1> USE DEF IInv
<1>1. s \in Stages /\ r \in Stages
  BY LinkEnds
<1>2. Channel(e, d)
  BY DEF ChannelInv
<1>3. /\ posts(s, e, d) # <<>> /\ posts(r, e, d) # <<>>
      /\ posts(s, e, d) \in Seq(Posts)
  <2>1. \A x \in Ends : posted[e][group_of(d)][x] # <<>>
    BY DEF Transport, Ends
  <2>2. end_of(s, e) \in Ends /\ end_of(r, e) \in Ends /\ group_of(d) \in ProcessGroups
    BY LinkEnds, Groups
  <2> QED
    BY <2>1, <2>2 DEF posts, TypeOK
<1>4. awaiting(r, d) /\ posts(r, e, d) = <<[kind |-> "recv", msg |-> m]>>
  BY <1>2, <1>3 DEF Channel, Incoming
<1>5. delivered(r, d) = done(r, d)
  BY <1>4 DEF awaiting, delivered, received
<1>6. done(r, d) \in Nat /\ done(s, d) \in 0..num_chunks /\ n \in Nat
  BY <1>1, <1>2, <1>5, DoneBounds, PipelineAssumption DEF Channel
<1>7. posts(s, e, d) = Outgoing(s, d, done(r, d), n)
  BY <1>2, <1>5 DEF Channel
<1>8. n > 0
  <2>1. CASE n = 0
    <3> HIDE DEF n, s, r
    <3> QED
      BY <1>3, <1>7, <2>1, NothingOutgoing
  <2> QED
    BY <1>6, <2>1
<1>9. Head(posts(s, e, d)) = [kind |-> "send", msg |-> message(d, s, done(r, d))]
  <2> HIDE DEF n, s, r
  <2> QED
    BY <1>3, <1>6, <1>7, <1>8, OutgoingTail
<1>10. message(d, s, done(r, d)) = m
  BY <1>1 DEF message, StepInv
<1>11. m \in Messages
  <2>1. done(r, d) \in Chunks
    BY <1>6, <1>8, PipelineAssumption DEF Chunks
  <2>2. pc[r] # "done"
    BY <1>4 DEF awaiting, recv_label
  <2> QED
    BY <1>1, <2>1, <2>2, Working
<1>12. Head(posts(r, e, d)) = [kind |-> "recv", msg |-> m]
  <2> DEFINE x == [kind |-> "recv", msg |-> m]
  <2>1. posts(r, e, d) = <<x>>
    BY <1>4
  <2> HIDE DEF x
  <2>2. Head(<<x>>) = x
    OBVIOUS
  <2> QED
    BY <2>1, <2>2 DEF x
<1>13. got' = [got EXCEPT ![r] = m]
  <2>1. CASE d = "fwd"
    <3>1. /\ posts(s, e, d) = posted[e][group_of(d)]["upstream"] /\ r = e + 1
      BY <2>1, <1>1 DEF posts, end_of, sender, receiver
    <3>2. got' = IF Head(posted[e][group_of(d)]["upstream"]).kind = "send"
                 THEN [got EXCEPT ![e + 1] = Head(posted[e][group_of(d)]["upstream"]).msg]
                 ELSE [got EXCEPT ![e] = Head(posted[e][group_of(d)]["downstream"]).msg]
      BY DEF Transport
    <3> HIDE DEF s, r, m
    <3>3. Head(posted[e][group_of(d)]["upstream"]) = [kind |-> "send", msg |-> m]
      BY <1>9, <1>10, <3>1
    <3>4. /\ Head(posted[e][group_of(d)]["upstream"]).kind = "send"
          /\ Head(posted[e][group_of(d)]["upstream"]).msg = m
      BY <3>3
    <3>5. got' = [got EXCEPT ![e + 1] = m]
      BY <3>2, <3>4
    <3> QED
      BY <3>1, <3>5
  <2>2. CASE d = "bwd"
    <3>1. /\ posts(r, e, d) = posted[e][group_of(d)]["upstream"] /\ r = e
          /\ posts(s, e, d) = posted[e][group_of(d)]["downstream"]
      BY <2>2, <1>1 DEF posts, end_of, sender, receiver, Links
    <3>2. got' = IF Head(posted[e][group_of(d)]["upstream"]).kind = "send"
                 THEN [got EXCEPT ![e + 1] = Head(posted[e][group_of(d)]["upstream"]).msg]
                 ELSE [got EXCEPT ![e] = Head(posted[e][group_of(d)]["downstream"]).msg]
      BY DEF Transport
    <3> HIDE DEF s, r, m
    <3>3. /\ Head(posted[e][group_of(d)]["upstream"]) = [kind |-> "recv", msg |-> m]
          /\ Head(posted[e][group_of(d)]["downstream"]) = [kind |-> "send", msg |-> m]
      BY <1>9, <1>10, <1>12, <3>1
    <3>4. /\ Head(posted[e][group_of(d)]["upstream"]).kind # "send"
          /\ Head(posted[e][group_of(d)]["downstream"]).msg = m
      BY <3>3
    <3>5. got' = [got EXCEPT ![e] = m]
      BY <3>2, <3>4
    <3> QED
      BY <3>1, <3>5
  <2> QED
    BY <2>1, <2>2 DEF Directions
<1> QED
  BY <1>4, <1>5, <1>6, <1>8, <1>11, <1>13

LEMMA TransportStep ==
  ASSUME IInv, NEW e \in Links, NEW g \in ProcessGroups, Transport(e, g)
  PROVE  IInv'
<1> USE DEF IInv
<1>1. PICK d \in Directions : g = group_of(d)
  BY Groups
<1> DEFINE s == sender(e, d)
           r == receiver(e, d)
           m == message(d, r, done(r, d))
<1>2. s \in Stages /\ r \in Stages /\ s \in {e, e + 1} /\ r \in {e, e + 1}
  BY LinkEnds
<1>3. /\ awaiting(r, d) /\ delivered(r, d) = done(r, d) /\ done(r, d) < done(s, d)
      /\ m \in Messages /\ got' = [got EXCEPT ![r] = m]
  BY <1>1, TransportMoves
<1>4. /\ posted' \in [Links -> [ProcessGroups -> [Ends -> Seq(Posts)]]]
      /\ \A f \in Links, b \in Directions : \A q \in {f, f + 1} :
           posts(q, f, b)' = IF f = e /\ b = d THEN Tail(posts(q, f, b)) ELSE posts(q, f, b)
  BY <1>1, TakenPosts
<1>5. UNCHANGED <<pc, step, at, records, inflight, works, finite, outcome, peak>>
  BY DEF Transport
<1>6. TypeOK'
  BY <1>3, <1>4, <1>5 DEF TypeOK
<1>7. StageInv'
  BY <1>5, StageKept DEF StageInv
<1>8. StepInv'
  BY <1>5 DEF StepInv
<1>9. /\ got'[r] = m /\ m # NoMessage /\ pc'[r] = recv_label(d)
      /\ \A q \in Stages \ {r} : got'[q] = got[q]
  BY <1>2, <1>3, <1>5 DEF TypeOK, awaiting, Messages, NoMessage, Directions
<1>10. \A q \in Stages, b \in Directions :
         done(q, b)' = done(q, b) /\ message(b, q, done(q, b))' = message(b, q, done(q, b))
  BY <1>5 DEF done, message
<1>11. ASSUME NEW q \in Stages, NEW b \in Directions, ~(q = r /\ b = d)
       PROVE  delivered(q, b)' = delivered(q, b) /\ Incoming(q, b)' = Incoming(q, b)
  <2>1. CASE q # r
    BY <1>5, <1>9, <1>10, <2>1 DEF delivered, Incoming, awaiting, received
  <2>2. CASE q = r /\ b # d
    <3>1. pc[q] # recv_label(b) /\ pc'[q] # recv_label(b)
      BY <1>5, <1>9, <2>2 DEF recv_label, Directions
    <3> QED
      BY <1>10, <3>1 DEF delivered, Incoming, awaiting, received
  <2> QED
    BY <1>11, <2>1, <2>2
<1>12. delivered(r, d)' = done(r, d) + 1 /\ Incoming(r, d)' = <<>>
  BY <1>2, <1>9, <1>10 DEF delivered, Incoming, awaiting, received
<1>13. Channel(e, d)'
  <2> DEFINE n == done(s, d) - done(r, d)
  <2>1. Channel(e, d)
    BY DEF ChannelInv
  <2>2. done(r, d) \in Nat /\ done(s, d) \in Nat /\ n \in Nat /\ n > 0
    BY <1>2, <1>3, DoneBounds, PipelineAssumption
  <2>3. posts(s, e, d) = Outgoing(s, d, done(r, d), n) /\ posts(s, e, d) \in Seq(Posts)
    BY <1>2, <1>3, <2>1, LinkEnds, Groups DEF Channel, TypeOK, posts
  <2>4. posts(s, e, d)' = Outgoing(s, d, done(r, d) + 1, n - 1)
    <3>1. posts(s, e, d)' = Tail(posts(s, e, d))
      BY <1>2, <1>4
    <3>2. Tail(Outgoing(s, d, done(r, d), n)) = Outgoing(s, d, done(r, d) + 1, n - 1)
      <4> HIDE DEF s, r, n
      <4>1. Outgoing(s, d, done(r, d), n) \in Seq(Posts)
        BY <2>3
      <4> QED
        BY <2>2, <4>1, OutgoingTail
    <3> QED
      BY <2>3, <3>1, <3>2
  <2>5. posts(r, e, d)' = <<>>
    <3> DEFINE x == [kind |-> "recv", msg |-> m]
    <3>1. posts(r, e, d) = <<x>>
      BY <1>3, <2>1 DEF Channel, Incoming
    <3>2. posts(r, e, d)' = Tail(posts(r, e, d))
      BY <1>2, <1>4
    <3> HIDE DEF x
    <3>3. Tail(<<x>>) = <<>>
      OBVIOUS
    <3> QED
      BY <3>1, <3>2, <3>3
  <2>6. \A i, k : Outgoing(s, d, i, k)' = Outgoing(s, d, i, k)
    BY <1>5 DEF Outgoing, message, sender
  <2>7. done(s, d)' - delivered(r, d)' = n - 1 /\ delivered(r, d)' <= done(s, d)'
    BY <1>2, <1>3, <1>10, <1>12, <2>2
  <2>8. /\ posts(s, e, d)' = Outgoing(s, d, delivered(r, d)', done(s, d)' - delivered(r, d)')
        /\ posts(r, e, d)' = Incoming(r, d)'
    BY <1>12, <2>4, <2>5, <2>7
  <2> HIDE DEF s, r, n
  <2> QED
    BY <1>5, <2>7, <2>8 DEF Channel, Outgoing, message, s, r, sender, receiver
<1>14. ASSUME NEW f \in Links, NEW b \in Directions, ~(f = e /\ b = d)
       PROVE  Channel(f, b)'
  <2> DEFINE t == sender(f, b)
             v == receiver(f, b)
  <2>1. /\ t \in Stages /\ v \in Stages /\ t \in {f, f + 1} /\ v \in {f, f + 1}
        /\ recv_link(v, b) = f /\ recv_link(r, d) = e
    BY LinkEnds
  <2>2. ~(v = r /\ b = d)
    BY <1>14, <2>1
  <2>3. posts(t, f, b)' = posts(t, f, b) /\ posts(v, f, b)' = posts(v, f, b)
    BY <1>4, <1>14, <2>1
  <2>4. delivered(v, b)' = delivered(v, b) /\ Incoming(v, b)' = Incoming(v, b)
        /\ done(t, b)' = done(t, b)
    BY <1>10, <1>11, <2>1, <2>2
  <2>5. Channel(f, b) /\ step'[t] = step[t]
    BY <1>5 DEF ChannelInv
  <2> QED
    BY <2>3, <2>4, <2>5, ChannelKept
<1>15. ChannelInv'
  BY <1>13, <1>14 DEF ChannelInv
<1>16. GotInv'
  <2> SUFFICES ASSUME NEW q \in Stages, got'[q] # NoMessage
               PROVE  \E b \in Directions :
                        pc'[q] = recv_label(b) /\ got'[q] = message(b, q, done(q, b))'
    BY DEF GotInv
  <2>1. CASE q = r
    BY <1>9, <1>10, <2>1
  <2>2. CASE q # r
    <3>1. PICK b \in Directions : pc[q] = recv_label(b) /\ got[q] = message(b, q, done(q, b))
      BY <1>9, <2>2 DEF GotInv
    <3> QED
      BY <1>5, <1>9, <1>10, <2>2, <3>1
  <2> QED
    BY <2>1, <2>2
<1> QED
  BY <1>6, <1>7, <1>8, <1>15, <1>16

-----------------------------------------------------------------------------
(* The collectives.                                                        *)

\* Stages that meet have done everything and have nothing on the way.
LEMMA Synced ==
  ASSUME IInv, NEW here \in {"finite", "flags", "loss"}, All(here)
  PROVE  /\ \A p \in Stages :
              /\ at[p] = 2 * num_chunks /\ works[p] = <<>> /\ records[p] = {}
              /\ got[p] = NoMessage /\ step[p] \in 1..Steps
              /\ \A d \in Directions :
                   delivered(p, d) = done(p, d) /\ done(p, d) = num_chunks /\ Incoming(p, d) = <<>>
         /\ \A e \in Links, d \in Directions :
              posts(sender(e, d), e, d) = <<>> /\ posts(receiver(e, d), e, d) = <<>>
<1> USE DEF IInv
<1>1. num_chunks \in Nat \ {0} /\ Steps \in Nat \ {0} /\ 2 * num_chunks \in 0..(2 * num_chunks)
  BY PipelineAssumption
<1>2. ASSUME NEW p \in Stages
      PROVE  /\ at[p] = 2 * num_chunks /\ works[p] = <<>> /\ records[p] = {}
             /\ got[p] = NoMessage /\ step[p] \in 1..Steps
             /\ \A d \in Directions :
                  delivered(p, d) = done(p, d) /\ done(p, d) = num_chunks /\ Incoming(p, d) = <<>>
  <2>1. pc[p] = here
    BY DEF All
  <2>2. at[p] = 2 * num_chunks /\ works[p] = <<>> /\ records[p] = Held(p)
    BY <2>1 DEF StageInv, StageOK, Stepping
  <2>3. Forwards(p, at[p]) = num_chunks /\ Backwards(p, at[p]) = num_chunks
    <3>1. Forwards(p, at[p]) = num_chunks
      BY <1>1, <2>2, ForwardsBounds
    <3> QED
      BY <1>1, <2>2, <3>1 DEF Backwards
  <2>4. Held(p) = {}
    BY <1>1, <2>3 DEF Held
  <2>5. got[p] = NoMessage
    BY <2>1 DEF GotInv, recv_label
  <2>6. step[p] \in 1..Steps
    <3>1. step[p] \in 1..(Steps + 1) /\ step[p] # Steps + 1
      BY <2>1 DEF TypeOK, StepInv
    <3> QED
      BY <1>1, <3>1
  <2>7. \A d \in Directions : pc[p] # recv_label(d)
    BY <2>1 DEF recv_label
  <2>8. \A d \in Directions : delivered(p, d) = done(p, d) /\ Incoming(p, d) = <<>>
    BY <2>7, NotWaiting
  <2>9. \A d \in Directions : done(p, d) = num_chunks
    BY <2>3 DEF done
  <2> QED
    BY <2>2, <2>4, <2>5, <2>6, <2>8, <2>9
<1>3. ASSUME NEW e \in Links, NEW d \in Directions
      PROVE  posts(sender(e, d), e, d) = <<>> /\ posts(receiver(e, d), e, d) = <<>>
  <2> DEFINE s == sender(e, d)
             r == receiver(e, d)
  <2>1. s \in Stages /\ r \in Stages /\ Channel(e, d)
    BY LinkEnds DEF ChannelInv
  <2>2. delivered(r, d) = num_chunks /\ done(s, d) = num_chunks /\ Incoming(r, d) = <<>>
    BY <1>2, <2>1
  <2>3. posts(s, e, d) = Outgoing(s, d, num_chunks, num_chunks - num_chunks)
        /\ posts(r, e, d) = <<>>
    BY <2>1, <2>2 DEF Channel
  <2>4. num_chunks - num_chunks = 0
    BY <1>1
  <2> HIDE DEF s, r
  <2> QED
    BY <2>3, <2>4, NothingOutgoing DEF s, r
<1> QED
  BY <1>2, <1>3

LEMMA MeetingLengths ==
  ASSUME IInv, NEW here \in {"finite", "flags", "loss"}, All(here), NEW p \in Stages
  PROVE  Len(outcome[p]) = IF here = "loss" THEN step[p] ELSE step[p] - 1
BY DEF All, IInv, StepInv

\* From one collective of a step to what comes next in the step.
LEMMA StepGoesOn ==
  ASSUME IInv, NEW here \in {"finite", "flags"}, All(here), outcome' = outcome,
         NEW there \in {"flags", "update"}, NextStep({}, there)
  PROVE  IInv'
<1> USE DEF IInv
<1>1. /\ pc' = [p \in Stages |-> there]
      /\ UNCHANGED <<step, at, inflight, finite, records, posted, works, got, peak>>
  BY DEF NextStep, TypeOK
<1>2. /\ \A p \in Stages :
           /\ at[p] = 2 * num_chunks /\ works[p] = <<>> /\ got[p] = NoMessage
           /\ step[p] \in 1..Steps
           /\ \A d \in Directions : delivered(p, d) = done(p, d) /\ Incoming(p, d) = <<>>
  BY Synced
<1>3. \A p \in Stages : pc[p] = here /\ pc'[p] = there
  BY <1>1 DEF All
<1>4. TypeOK'
  BY <1>1 DEF TypeOK, Labels
<1>5. StageInv'
  <2> SUFFICES ASSUME NEW p \in Stages
               PROVE  StageOK(p)'
    BY DEF StageInv
  <2>1. StageOK(p)
    BY DEF StageInv
  <2>2. pc'[p] \in Stepping /\ pc'[p] \notin {"error", "done", "recv_fwd", "recv_bwd"}
        /\ \A d \in Directions : pc'[p] # slot_label(d)
    BY <1>3 DEF Stepping, slot_label
  <2> QED
    BY <1>1, <1>2, <2>1, <2>2 DEF StageOK, Held, slot_label
<1>6. StepInv'
  <2>1. \A p \in Stages : Len(outcome[p]) = step[p] - 1 /\ step[p] # Steps + 1
    <3>1. \A p \in Stages : Len(outcome[p]) = step[p] - 1
      BY MeetingLengths
    <3> QED
      BY <1>2, <3>1, PipelineAssumption
  <2>2. \A p, q \in Stages : /\ step[p] = step[q]
                             /\ \A n \in 1..(step[p] - 1) : outcome[p][n] = outcome[q][n]
    BY DEF StepInv
  <2> QED
    BY <1>1, <1>3, <2>1, <2>2 DEF StepInv
<1>7. ChannelInv'
  <2>1. \A p \in Stages, d \in Directions : /\ done(p, d)' = done(p, d)
                                            /\ delivered(p, d)' = done(p, d)'
                                            /\ Incoming(p, d)' = <<>>
    <3>1. \A p \in Stages, d \in Directions : pc'[p] # recv_label(d)
      BY <1>3 DEF recv_label
    <3> QED
      BY <1>1, <3>1 DEF done, delivered, Incoming, awaiting, received
  <2>2. ASSUME NEW e \in Links, NEW d \in Directions
        PROVE  Channel(e, d)'
    <3>1. sender(e, d) \in Stages /\ receiver(e, d) \in Stages /\ Channel(e, d)
      BY LinkEnds DEF ChannelInv
    <3>2. \A q : posts(q, e, d)' = posts(q, e, d)
      BY <1>1 DEF posts
    <3>3. /\ delivered(receiver(e, d), d)' = delivered(receiver(e, d), d)
          /\ Incoming(receiver(e, d), d)' = Incoming(receiver(e, d), d)
          /\ done(sender(e, d), d)' = done(sender(e, d), d)
      BY <1>2, <2>1, <3>1
    <3> QED
      BY <1>1, <3>1, <3>2, <3>3, ChannelKept
  <2> QED
    BY <2>2 DEF ChannelInv
<1>8. GotInv'
  BY <1>1, <1>2 DEF GotInv
<1> QED
  BY <1>4, <1>5, <1>6, <1>7, <1>8

\* From the collective that ends a step to the next step, or to the end.
LEMMA StepEnds ==
  ASSUME IInv, NEW here \in {"finite", "flags", "loss"}, All(here),
         NEW other_label, NextStep(Stages, other_label),
         outcome' \in [Stages -> Seq({"stepped", "skipped"})],
         \A p \in Stages : Len(outcome'[p]) = step[p],
         \A p, q \in Stages : \A n \in 1..step[p] : outcome'[p][n] = outcome'[q][n]
  PROVE  IInv'
<1> USE DEF IInv
<1>1. /\ step' = [p \in Stages |-> step[p] + 1]
      /\ pc' = [p \in Stages |-> IF step[p] = Steps THEN "done" ELSE "next"]
      /\ at' = [p \in Stages |-> 0]
      /\ inflight' = [p \in Stages |-> [d \in Directions |-> <<>>]]
      /\ finite' = [p \in Stages |-> TRUE]
      /\ UNCHANGED <<records, posted, works, got, peak>>
  BY DEF NextStep
<1>2. /\ \A p \in Stages :
           /\ works[p] = <<>> /\ records[p] = {} /\ got[p] = NoMessage /\ step[p] \in 1..Steps
      /\ \A e \in Links, d \in Directions :
           posts(sender(e, d), e, d) = <<>> /\ posts(receiver(e, d), e, d) = <<>>
  BY Synced
<1>3. num_chunks \in Nat \ {0} /\ Steps \in Nat \ {0}
  BY PipelineAssumption
<1>4. \A p \in Stages : /\ pc'[p] = IF step[p] = Steps THEN "done" ELSE "next"
                        /\ step'[p] = step[p] + 1 /\ at'[p] = 0
  BY <1>1
<1>5. TypeOK'
  <2>1. step' \in [Stages -> 1..(Steps + 1)]
    BY <1>1, <1>2, <1>3
  <2>2. pc' \in [Stages -> Labels] /\ at' \in [Stages -> 0..(2 * num_chunks)]
    BY <1>1, <1>3 DEF Labels
  <2>3. inflight' \in [Stages -> [Directions -> Seq(Messages)]]
    BY <1>1, EmptySeq
  <2>4. finite' \in [Stages -> BOOLEAN]
    BY <1>1
  <2> QED
    BY <1>1, <2>1, <2>2, <2>3, <2>4 DEF TypeOK
<1>6. \A p \in Stages, d \in Directions : done(p, d)' = 0 /\ Held(p)' = {}
  <2> SUFFICES ASSUME NEW p \in Stages, NEW d \in Directions
               PROVE  done(p, d)' = 0 /\ Held(p)' = {}
    OBVIOUS
  <2>1. Forwards(p, 0) = 0 /\ Backwards(p, 0) = 0
    <3>1. Forwards(p, 0) = 0
      BY <1>3, ForwardsBounds
    <3> QED
      BY <3>1 DEF Backwards
  <2>2. /\ done(p, d)' = IF d = "fwd" THEN Forwards(p, 0) ELSE Backwards(p, 0)
        /\ Held(p)' = Backwards(p, 0)..(Forwards(p, 0) - 1)
    BY <1>4 DEF done, Held, Forwards, Backwards, warmup
  <2> QED
    BY <2>1, <2>2
<1>7. StageInv'
  <2> SUFFICES ASSUME NEW p \in Stages
               PROVE  StageOK(p)'
    BY DEF StageInv
  <2>1. StageOK(p)
    BY DEF StageInv
  <2>2. pc'[p] \in {"done", "next"} /\ at'[p] = 0 /\ records'[p] = {} /\ peak'[p] <= pp_size - p
    BY <1>1, <1>2, <1>4, <2>1 DEF StageOK
  <2>3. Held(p)' = {}
    BY <1>6 DEF Directions
  <2> QED
    BY <2>2, <2>3 DEF StageOK, Stepping, slot_label
<1>8. StepInv'
  <2>1. \A p \in Stages : Len(outcome'[p]) = step'[p] - 1 /\ step'[p] - 1 = step[p]
    BY <1>2, <1>4
  <2>2. \A p, q \in Stages : /\ step'[p] = step'[q]
                             /\ \A n \in 1..(step'[p] - 1) : outcome'[p][n] = outcome'[q][n]
    <3>1. \A p, q \in Stages : step[p] = step[q]
      BY DEF StepInv
    <3> QED
      BY <1>4, <2>1, <3>1
  <2>3. \A p \in Stages : /\ pc'[p] \in {"done", "next"}
                          /\ (pc'[p] = "done" <=> step'[p] = Steps + 1)
    BY <1>2, <1>3, <1>4
  <2> QED
    BY <2>1, <2>2, <2>3 DEF StepInv
<1>9. \A p \in Stages, d \in Directions : pc'[p] # recv_label(d)
  BY <1>4 DEF recv_label
<1>10. ASSUME NEW e \in Links, NEW d \in Directions
       PROVE  Channel(e, d)'
  <2> DEFINE s == sender(e, d)
             r == receiver(e, d)
  <2>1. s \in Stages /\ r \in Stages
    BY LinkEnds
  <2>2. delivered(r, d)' = 0 /\ done(s, d)' = 0 /\ Incoming(r, d)' = <<>>
    BY <1>6, <1>9, <2>1 DEF delivered, received, Incoming, awaiting
  <2>3. posts(s, e, d)' = <<>> /\ posts(r, e, d)' = <<>>
    BY <1>1, <1>2 DEF posts
  <2>4. Outgoing(s, d, 0, 0)' = <<>>
    BY DEF Outgoing
  <2>5. /\ delivered(r, d)' <= done(s, d)'
        /\ posts(s, e, d)' = Outgoing(s, d, delivered(r, d), done(s, d) - delivered(r, d))'
        /\ posts(r, e, d)' = Incoming(r, d)'
    BY <2>2, <2>3, <2>4 DEF Outgoing
  <2> HIDE DEF s, r
  <2> QED
    BY <2>5 DEF Channel, s, r
<1>11. GotInv'
  BY <1>1, <1>2 DEF GotInv
<1> QED
  BY <1>5, <1>7, <1>8, <1>10, <1>11 DEF ChannelInv

\* Stages that all skip the step record the same outcome.
LEMMA SkipAll ==
  ASSUME IInv, NEW here \in {"finite", "flags"}, All(here), Skip(Stages)
  PROVE  /\ outcome' \in [Stages -> Seq({"stepped", "skipped"})]
         /\ \A p \in Stages : Len(outcome'[p]) = step[p]
         /\ \A p, q \in Stages : \A n \in 1..step[p] : outcome'[p][n] = outcome'[q][n]
<1>1. ASSUME NEW p \in Stages
      PROVE  /\ outcome'[p] \in Seq({"stepped", "skipped"}) /\ Len(outcome'[p]) = step[p]
             /\ outcome'[p][step[p]] = "skipped"
             /\ \A n \in 1..(step[p] - 1) : outcome'[p][n] = outcome[p][n]
             /\ step[p] \in Nat
  <2>1. Len(outcome[p]) = step[p] - 1 /\ step[p] \in Nat \ {0}
        /\ outcome[p] \in Seq({"stepped", "skipped"})
    BY MeetingLengths DEF IInv, TypeOK
  <2>2. outcome'[p] = Append(outcome[p], "skipped")
    BY DEF Skip
  <2> QED
    BY <2>1, <2>2, AppendProperties
<1>2. outcome' \in [Stages -> Seq({"stepped", "skipped"})]
  BY <1>1 DEF Skip
<1>3. ASSUME NEW p \in Stages, NEW q \in Stages, NEW n \in 1..step[p]
      PROVE  outcome'[p][n] = outcome'[q][n]
  <2>1. step[p] = step[q] /\ \A k \in 1..(step[p] - 1) : outcome[p][k] = outcome[q][k]
    BY DEF IInv, StepInv
  <2>2. n = step[p] \/ n \in 1..(step[p] - 1)
    BY <1>1
  <2> QED
    BY <1>1, <2>1, <2>2
<1> QED
  BY <1>1, <1>2, <1>3

\* All stages skip the step or none does.
LEMMA SkipStep ==
  ASSUME IInv, NEW here \in {"finite", "flags"}, All(here),
         NEW skipping \in {{}, Stages}, NEW there \in {"flags", "update"},
         NextStep(skipping, there), Skip(skipping)
  PROVE  IInv'
<1>1. CASE skipping = {}
  <2>1. outcome' = outcome
    BY <1>1 DEF Skip, IInv, TypeOK
  <2> QED
    BY <1>1, <2>1, StepGoesOn
<1>2. CASE skipping = Stages
  BY <1>2, SkipAll, StepEnds
<1> QED
  BY <1>1, <1>2

LEMMA AllReduceFiniteStep ==
  ASSUME IInv, AllReduceFinite
  PROVE  IInv'
<1> DEFINE skipping == {p \in Stages : ~all_finite(p)}
<1>1. All("finite") /\ NextStep(skipping, "flags") /\ Skip(skipping)
  BY DEF AllReduceFinite
<1>2. skipping \in {{}, Stages}
  BY DEF all_finite
<1> HIDE DEF skipping
<1> QED
  BY <1>1, <1>2, SkipStep

LEMMA AllReduceGradFlagsStep ==
  ASSUME IInv, AllReduceGradFlags
  PROVE  IInv'
<1>1. PICK report \in [Stages -> GradReports] :
        LET skipping == {p \in Stages : grad_failed(p, report)}
        IN NextStep(skipping, "update") /\ Skip(skipping)
  BY DEF AllReduceGradFlags
<1> DEFINE skipping == {p \in Stages : grad_failed(p, report)}
<1>2. All("flags") /\ NextStep(skipping, "update") /\ Skip(skipping)
  BY <1>1 DEF AllReduceGradFlags
<1>3. skipping \in {{}, Stages}
  BY DEF grad_failed
<1> HIDE DEF skipping
<1> QED
  BY <1>2, <1>3, SkipStep

LEMMA AllReduceLossStep ==
  ASSUME IInv, AllReduceLoss
  PROVE  IInv'
<1> USE DEF IInv
<1>1. All("loss") /\ NextStep(Stages, "loss") /\ outcome' = outcome
  BY DEF AllReduceLoss
<1>2. \A p \in Stages : Len(outcome[p]) = step[p] /\ step[p] \in Nat
  BY <1>1, MeetingLengths DEF TypeOK
<1>3. ASSUME NEW p \in Stages, NEW q \in Stages, NEW n \in 1..step[p]
      PROVE  outcome[p][n] = outcome[q][n]
  <2>1. /\ step[p] = step[q] /\ \A k \in 1..(step[p] - 1) : outcome[p][k] = outcome[q][k]
        /\ outcome[p][step[p]] = "stepped" /\ outcome[q][step[q]] = "stepped"
    BY <1>1 DEF StepInv, All
  <2>2. n = step[p] \/ n \in 1..(step[p] - 1)
    BY <1>2
  <2> QED
    BY <2>1, <2>2
<1>4. outcome' \in [Stages -> Seq({"stepped", "skipped"})]
  BY <1>1 DEF TypeOK
<1> QED
  BY <1>1, <1>2, <1>3, <1>4, StepEnds

-----------------------------------------------------------------------------
(* The theorems.                                                           *)

LEMMA InitIInv == Init => IInv
<1> SUFFICES ASSUME Init
             PROVE  IInv
  OBVIOUS
<1>1. num_chunks \in Nat \ {0} /\ Steps \in Nat \ {0} /\ pp_size \in Nat
  BY PipelineAssumption
<1>2. /\ pc = [p \in Stages |-> "next"] /\ step = [p \in Stages |-> 1]
      /\ at = [p \in Stages |-> 0] /\ records = [p \in Stages |-> {}]
      /\ posted = [e \in Links |-> [g \in ProcessGroups |-> [s \in Ends |-> <<>>]]]
      /\ inflight = [p \in Stages |-> [d \in Directions |-> <<>>]]
      /\ works = [p \in Stages |-> <<>>] /\ got = [p \in Stages |-> NoMessage]
      /\ finite = [p \in Stages |-> TRUE] /\ outcome = [p \in Stages |-> <<>>]
      /\ peak = [p \in Stages |-> 0]
  BY DEF Init
<1>3. TypeOK
  <2>1. step \in [Stages -> 1..(Steps + 1)] /\ at \in [Stages -> 0..(2 * num_chunks)]
    BY <1>1, <1>2
  <2>2. /\ pc \in [Stages -> Labels] /\ finite \in [Stages -> BOOLEAN]
        /\ records \in [Stages -> SUBSET Chunks] /\ peak \in [Stages -> Nat]
        /\ got \in [Stages -> Messages \cup {NoMessage}]
    BY <1>2 DEF Labels
  <2>3. /\ works \in [Stages -> Seq(Messages)]
        /\ outcome \in [Stages -> Seq({"stepped", "skipped"})]
        /\ inflight \in [Stages -> [Directions -> Seq(Messages)]]
        /\ posted \in [Links -> [ProcessGroups -> [Ends -> Seq(Posts)]]]
    BY <1>2, EmptySeq
  <2> QED
    BY <2>1, <2>2, <2>3 DEF TypeOK
<1>4. \A p \in Stages : Forwards(p, 0) = 0 /\ Backwards(p, 0) = 0
  <2>1. \A p \in Stages : Forwards(p, 0) = 0
    BY <1>1, ForwardsBounds
  <2> QED
    BY <2>1 DEF Backwards
<1>5. \A p \in Stages : at[p] = 0 /\ pc[p] = "next" /\ got[p] = NoMessage
  BY <1>2
<1>6. \A p \in Stages, d \in Directions : done(p, d) = 0 /\ Held(p) = {}
  BY <1>4, <1>5 DEF done, Held
<1>7. StageInv
  <2>1. \A p \in Stages : Held(p) = {}
    BY <1>6 DEF Directions
  <2>2. \A p \in Stages : records[p] = {} /\ peak[p] = 0 /\ 0 <= pp_size - p
    BY <1>1, <1>2 DEF Stages
  <2> QED
    BY <1>5, <2>1, <2>2 DEF StageInv, StageOK, Stepping, slot_label
<1>8. StepInv
  BY <1>1, <1>2, EmptySeq DEF StepInv
<1>9. ASSUME NEW e \in Links, NEW d \in Directions
      PROVE  Channel(e, d)
  <2> DEFINE s == sender(e, d)
             r == receiver(e, d)
  <2>1. s \in Stages /\ r \in Stages /\ group_of(d) \in ProcessGroups
        /\ end_of(s, e) \in Ends /\ end_of(r, e) \in Ends
    BY LinkEnds, Groups
  <2>2. posts(s, e, d) = <<>> /\ posts(r, e, d) = <<>>
    BY <1>2, <2>1 DEF posts
  <2>3. delivered(r, d) = 0 /\ done(s, d) = 0 /\ Incoming(r, d) = <<>>
    BY <1>5, <1>6, <2>1 DEF delivered, received, Incoming, awaiting, recv_label
  <2> HIDE DEF s, r
  <2>4. Outgoing(s, d, 0, 0) = <<>>
    BY NothingOutgoing
  <2> QED
    BY <2>2, <2>3, <2>4 DEF Channel, s, r
<1>10. GotInv
  BY <1>5 DEF GotInv
<1> QED
  BY <1>3, <1>7, <1>8, <1>9, <1>10 DEF IInv, ChannelInv

LEMMA StageStep ==
  ASSUME IInv, NEW p \in Stages, Stage(p)
  PROVE  IInv'
BY StartForwardStep, FinishForwardStep, StartBackwardStep, FinishBackwardStep,
   AcquireSlotStep, WaitAllStep, OptimizerStepStep DEF Stage

LEMMA Stutter ==
  ASSUME IInv, UNCHANGED vars
  PROVE  IInv'
<1>1. UNCHANGED <<pc, step, at, records, posted, inflight, works, got, finite, outcome, peak>>
  BY DEF vars
<1>2. TypeOK' /\ StepInv'
  BY <1>1 DEF IInv, TypeOK, StepInv
<1>3. StageInv'
  BY <1>1, StageKept DEF IInv, StageInv
<1>4. ASSUME NEW e \in Links, NEW d \in Directions
      PROVE  Channel(e, d)'
  <2>1. Channel(e, d)
    BY DEF IInv, ChannelInv
  <2> QED
    BY <1>1, <2>1, ChannelKept
       DEF done, delivered, received, Incoming, awaiting, posts, message, sender, receiver
<1>5. GotInv'
  BY <1>1 DEF IInv, GotInv, message, done
<1> QED
  BY <1>2, <1>3, <1>4, <1>5 DEF IInv, ChannelInv

LEMMA NextIInv == IInv /\ [Next]_vars => IInv'
<1> SUFFICES ASSUME IInv, [Next]_vars
             PROVE  IInv'
  OBVIOUS
<1>1. ASSUME NEW p \in Stages, Stage(p)
      PROVE  IInv'
  BY <1>1, StageStep
<1>2. ASSUME NEW e \in Links, NEW g \in ProcessGroups, Transport(e, g)
      PROVE  IInv'
  BY <1>2, TransportStep
<1>3. CASE Collective
  BY <1>3, AllReduceFiniteStep, AllReduceGradFlagsStep, AllReduceLossStep DEF Collective
<1>4. CASE Terminated
  BY <1>4, Stutter DEF Terminated
<1>5. CASE UNCHANGED vars
  BY <1>5, Stutter
<1> QED
  BY <1>1, <1>2, <1>3, <1>4, <1>5 DEF Next

\* The state of the schedule, of the channels and of the steps stays as the invariant says:
\* in every reachable state the posts between two neighbours are exactly what the sender has
\* done and the receiver has not been given.
THEOREM Invariant == Spec => []IInv
<1>1. Init => IInv
  BY InitIInv
<1>2. IInv /\ [Next]_vars => IInv'
  BY NextIInv
<1> QED
  BY <1>1, <1>2, PTL DEF Spec

\* Every variable keeps its type: the chunk counters stay within the schedule, the step
\* counter within the steps of the run.
THEOREM TypeCorrect == Spec => []TypeOK
<1>1. IInv => TypeOK
  BY DEF IInv
<1> QED
  BY <1>1, Invariant, PTL

\* PipelineComm pairs sends and receives by their order alone; whatever the number of stages
\* and chunks and the size of the window, a receive is given the message of the direction,
\* step and chunk its stage works on.
THEOREM MessagesMatch == Spec => []PairedByOrder
<1>1. IInv => PairedByOrder
  <2> SUFFICES ASSUME IInv, NEW p \in Stages, got[p] # NoMessage
               PROVE  /\ pc[p] \in {"recv_fwd", "recv_bwd"}
                      /\ got[p] = message(IF pc[p] = "recv_fwd" THEN "fwd" ELSE "bwd", p,
                                          next_op(p).chunk)
    BY DEF PairedByOrder
  <2>1. PICK d \in Directions : pc[p] = recv_label(d) /\ got[p] = message(d, p, done(p, d))
    BY DEF IInv, GotInv
  <2>2. d = IF pc[p] = "recv_fwd" THEN "fwd" ELSE "bwd"
    BY <2>1 DEF recv_label, Directions
  <2>3. next_op(p).chunk = done(p, d)
    BY <2>1 DEF IInv, StageInv, StageOK, recv_label, Directions, forward, backward
  <2> QED
    BY <2>1, <2>2, <2>3 DEF recv_label, Directions
<1> QED
  BY <1>1, Invariant, PTL

\* A stage of a 1F1B pipeline never holds the forward state of more chunks than there are
\* stages from it to the last, however many chunks a step has.
THEOREM MemoryBounded == Spec => []ActivationBound
<1>1. IInv => ActivationBound
  BY DEF IInv, StageInv, StageOK, ActivationBound
<1> QED
  BY <1>1, Invariant, PTL

\* A backward never comes before its forward, a stage enters the collectives with all chunks
\* done, and all stages step on, or skip, the same optimizer steps.
THEOREM StagesAgree == Spec => []AgreeOnSteps
<1>1. IInv => WholeStep
  <2> SUFFICES ASSUME IInv, NEW p \in Stages
               PROVE  /\ pc[p] # "error"
                      /\ pc[p] \in {"finite", "flags", "update", "loss"} =>
                           schedule_done(p) /\ records[p] = {} /\ works[p] = <<>>
    BY DEF WholeStep
  <2>1. StageOK(p) /\ num_chunks \in Nat \ {0}
    BY PipelineAssumption DEF IInv, StageInv
  <2>2. at[p] = 2 * num_chunks => Held(p) = {}
    <3> HAVE at[p] = 2 * num_chunks
    <3>1. Forwards(p, at[p]) = num_chunks
      BY <2>1, ForwardsBounds
    <3>2. Backwards(p, at[p]) = num_chunks
      BY <2>1, <3>1 DEF Backwards
    <3> QED
      BY <2>1, <3>1, <3>2 DEF Held
  <2> QED
    BY <2>1, <2>2 DEF StageOK, Stepping, schedule_done
<1>2. IInv => \A p, q \in Stages : \A n \in DOMAIN outcome[p] \cap DOMAIN outcome[q] :
                outcome[p][n] = outcome[q][n]
  <2> SUFFICES ASSUME IInv, NEW p \in Stages, NEW q \in Stages,
                      NEW n \in DOMAIN outcome[p] \cap DOMAIN outcome[q]
               PROVE  outcome[p][n] = outcome[q][n]
    OBVIOUS
  <2> USE DEF IInv
  <2>1. step[p] = step[q] /\ step[p] \in Nat
        /\ \A k \in 1..(step[p] - 1) : outcome[p][k] = outcome[q][k]
    BY DEF TypeOK, StepInv
  <2>2. n \in 1..Len(outcome[p]) /\ n \in 1..Len(outcome[q])
    <3>1. outcome[p] \in Seq({"stepped", "skipped"}) /\ outcome[q] \in Seq({"stepped", "skipped"})
      BY DEF TypeOK
    <3> QED
      BY <3>1, LenProperties
  <2>3. CASE n \in 1..(step[p] - 1)
    BY <2>1, <2>3
  <2>4. CASE n \notin 1..(step[p] - 1)
    <3>1. n = step[p] /\ pc[p] = "loss" /\ pc[q] = "loss"
      BY <2>1, <2>2, <2>4 DEF StepInv
    <3> QED
      BY <2>1, <3>1 DEF StepInv
  <2> QED
    BY <2>3, <2>4
<1> QED
  BY <1>1, <1>2, Invariant, PTL DEF AgreeOnSteps
=============================================================================
