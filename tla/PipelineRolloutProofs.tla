---- MODULE PipelineRolloutProofs ----
(***************************************************************************)
(* Proofs about PipelineRollout, for every number of stages and            *)
(* tensor-parallel ranks, any rows, tokens and number of chunks, and any   *)
(* ranks that fail or hang on the way: all ranks generate the same tokens, *)
(* rows end once, and a stage computes on the hidden state of its own      *)
(* tokens.                                                                 *)
(*                                                                         *)
(* No rank knows how far the others are.  The invariant says that there is *)
(* one sequence of positions, R[1], R[2], ..., R[n], that all ranks go     *)
(* through, and that rank r has arrived at R[ix[r]] and, in the round of   *)
(* the loop that starts there, at phase ph[r]: 0 before it has received    *)
(* the hidden state, 1 before it computes, 2 before it sends, 3 before the *)
(* broadcast of the token in its pp_group and 4 before the one in its      *)
(* tp_group.  A failed rank keeps its phase.  That ranks wait for each     *)
(* other in four places says which phases two of them can be in.           *)
(***************************************************************************)
EXTENDS PipelineRollout, TLAPS

-----------------------------------------------------------------------------
(* Positions.                                                              *)

Position == [chunk : 1..Chunks, sequences : Seq(Vectors), finished : SUBSET Rows]

IsFull(e) == Len(e.sequences) = max_new_tokens

\* The position after one that has max_new_tokens, in the next chunk, and the one after
\* a position to which a token is appended.
Roll(e) == [chunk |-> e.chunk + 1, sequences |-> <<>>, finished |-> {}]

Appended(e, v) ==
  [chunk |-> e.chunk, sequences |-> Append(e.sequences, v),
   finished |-> apply_stop_mask(e.finished, v)]

Follow(e, tokens) ==
  LET a == Appended(e, pad_finished(tokens, e.finished))
  IN IF a.finished = Rows /\ e.chunk < Chunks THEN Roll(e) ELSE a

Continues(t, s) == Len(s) <= Len(t) /\ \A i \in 1..Len(s) : t[i] = s[i]

\* The rows of a position are finished when they have stopped, and padded from then on.
Padded(e) ==
  /\ Len(e.sequences) <= max_new_tokens
  /\ \A row \in Rows :
       row \in e.finished <=>
         \E i \in 1..Len(e.sequences) : e.sequences[i][row] \in stop_token_ids
  /\ \A row \in Rows, i, j \in 1..Len(e.sequences) :
       i < j /\ e.sequences[i][row] \in stop_token_ids => e.sequences[j][row] = pad_token_id

\* The positions 1 .. n.
Track(n, R) ==
  /\ n \in Nat \ {0} /\ R \in [Nat -> Position]
  /\ \A k \in 1..n : Padded(R[k])
  /\ \A j, k \in 1..n : j <= k =>
       /\ R[j].chunk <= R[k].chunk
       /\ R[j].chunk = R[k].chunk => Continues(R[k].sequences, R[j].sequences)
  /\ \A k \in 1..n : k < n /\ IsFull(R[k]) => R[k].chunk < Chunks /\ R[k + 1] = Roll(R[k])

-----------------------------------------------------------------------------
(* Where the ranks are.                                                    *)

\* The phase in which a rank starts a round.
start(r) == IF r[1] = 0 THEN 1 ELSE 0

\* Rank r has come to phase f of round k.
Past(ix, ph, r, k, f) == ix[r] > k \/ (ix[r] = k /\ ph[r] >= f)

\* The neighbours meet in a transfer, the ranks of a stage when they compute and when they
\* append a token, the ranks of a pp_group in the broadcast of a token.
Synced(R, ix, ph) ==
  /\ \A r, q \in Ranks, k \in Nat : q[1] = r[1] + 1 /\ q[2] = r[2] =>
       (Past(ix, ph, r, k, 3) <=> Past(ix, ph, q, k, 1))
  /\ \A r, q \in Ranks, k \in Nat : r[1] = q[1] =>
       (Past(ix, ph, r, k, 2) <=> Past(ix, ph, q, k, 2))
  /\ \A r, q \in Ranks, k \in Nat : r[2] = q[2] /\ ~IsFull(R[k]) =>
       (Past(ix, ph, r, k, 4) <=> Past(ix, ph, q, k, 4))
  /\ \A r, q \in Ranks, k \in Nat : r[1] = q[1] /\ ~IsFull(R[k]) =>
       (ix[r] > k <=> ix[q] > k)

\* The token that ends a round is known once the ranks of tp_rank 0 have it.
Known(n, R, ix, ph) ==
  \A k \in 1..n : k < n /\ ~IsFull(R[k]) =>
    \A r \in Ranks : r[2] = 0 => Past(ix, ph, r, k, 4)

Places(n, R, ix, ph) ==
  /\ ix \in [Ranks -> Nat] /\ ph \in [Ranks -> 0..4]
  /\ \A r \in Ranks : ix[r] \in 1..n
  /\ Synced(R, ix, ph)
  /\ Known(n, R, ix, ph)

\* A rank's local variables me are those of its position R[i], and its program counter is
\* at its phase f.
LocatedAt(me, R, i, f) ==
  /\ me.chunk = R[i].chunk
  /\ me.sequences = R[i].sequences
  /\ me.finished = R[i].finished
  /\ me.pc = "recv" => f = 0
  /\ me.pc = "compute" => f = 1
  /\ me.pc = "send" => f = 2
  /\ me.pc \in {"sample", "token_broadcast"} => f = 3 /\ ~IsFull(R[i])
  /\ me.pc = "tp_broadcast" => f = 4
  /\ f = 4 => ~IsFull(R[i])
  /\ me.pc = "done" => IsFull(R[i]) \/ R[i].finished = Rows

\* The token that a rank of tp_rank 0 has from its pp_group, and the hidden state that a
\* rank has for its forward pass.
InformedAt(r, me, n, R, i, f) ==
  /\ r[2] = 0 /\ f = 4 => i < n /\ R[i + 1] = Follow(R[i], me.next_token)
  /\ me.pc = "send" \/ (me.pc = "compute" /\ r[1] > 0) =>
       me.hidden = <<me.chunk, me.sequences>>

Located(s, R, ix, ph) == \A r \in Ranks : LocatedAt(s[r], R, ix[r], ph[r])

Informed(s, n, R, ix, ph) == \A r \in Ranks : InformedAt(r, s[r], n, R, ix[r], ph[r])

Ghost(s, n, R, ix, ph) ==
  Track(n, R) /\ Places(n, R, ix, ph) /\ Located(s, R, ix, ph) /\ Informed(s, n, R, ix, ph)

Inv ==
  /\ self \in [Ranks -> Locals] /\ faults \subseteq Ranks
  /\ \E n, R, ix, ph : Ghost(self, n, R, ix, ph)

-----------------------------------------------------------------------------
(* Positions follow each other.                                            *)

LEMMA RankFacts ==
  /\ \A r \in Ranks : r[1] \in Stages /\ r[2] \in TPRanks /\ r = <<r[1], r[2]>>
  /\ \A p \in Stages, t \in TPRanks :
       <<p, t>> \in Ranks /\ <<p, t>>[1] = p /\ <<p, t>>[2] = t
  /\ \A p \in Stages : p \in Nat /\ p <= Last
  /\ Last \in Stages /\ 0 \in Stages /\ 0 \in TPRanks
  /\ \A r, q \in Ranks : r[1] = q[1] /\ r[2] = q[2] => r = q
BY RolloutAssumption DEF Ranks, Stages, TPRanks, Last

LEMMA PositionFacts ==
  ASSUME NEW e \in Position
  PROVE  /\ e.chunk \in 1..Chunks /\ e.chunk \in Nat
         /\ e.sequences \in Seq(Vectors) /\ Len(e.sequences) \in Nat
         /\ e.finished \subseteq Rows
BY RolloutAssumption DEF Position

LEMMA PadTypes ==
  ASSUME NEW tokens \in Vectors, NEW finished \in SUBSET Rows
  PROVE  /\ pad_finished(tokens, finished) \in Vectors
         /\ \A row \in finished : pad_finished(tokens, finished)[row] = pad_token_id
BY DEF Vectors, AnyToken, pad_finished

\* A token is appended to the rows that go on, and padding to the others.
LEMMA AppendedFacts ==
  ASSUME NEW e \in Position, Padded(e), ~IsFull(e), NEW tokens \in Vectors
  PROVE  LET a == Appended(e, pad_finished(tokens, e.finished))
         IN a \in Position /\ Padded(a) /\ Continues(a.sequences, e.sequences)
<1> DEFINE v == pad_finished(tokens, e.finished)
           a == Appended(e, v)
           s == e.sequences
           m == Len(s)
<1>1. /\ e.chunk \in 1..Chunks /\ s \in Seq(Vectors) /\ m \in Nat /\ e.finished \in SUBSET Rows
      /\ max_new_tokens \in Nat /\ m < max_new_tokens
  BY PositionFacts, RolloutAssumption DEF Padded, IsFull
<1>2. v \in Vectors /\ \A row \in e.finished : v[row] = pad_token_id
  BY <1>1, PadTypes
<1> HIDE DEF v
<1>3. /\ a.chunk = e.chunk /\ a.sequences = Append(s, v)
      /\ a.finished = apply_stop_mask(e.finished, v)
  BY DEF Appended
<1>4. a \in Position
  <2>1. Append(s, v) \in Seq(Vectors) /\ apply_stop_mask(e.finished, v) \in SUBSET Rows
    BY <1>1, <1>2 DEF apply_stop_mask
  <2> QED
    BY <1>1, <2>1 DEF Appended, Position
<1> HIDE DEF a
<1>5. /\ Len(a.sequences) = m + 1 /\ a.sequences[m + 1] = v
      /\ \A i \in 1..m : a.sequences[i] = s[i]
  BY <1>1, <1>2, <1>3
<1>6. Continues(a.sequences, s)
  BY <1>1, <1>5 DEF Continues
<1>7. ASSUME NEW row \in Rows
      PROVE  row \in a.finished <=>
               \E i \in 1..Len(a.sequences) : a.sequences[i][row] \in stop_token_ids
  <2>1. row \in a.finished <=> row \in e.finished \/ v[row] \in stop_token_ids
    BY <1>3 DEF apply_stop_mask
  <2>2. row \in e.finished <=> \E i \in 1..m : s[i][row] \in stop_token_ids
    BY DEF Padded
  <2>3. \A i : i \in 1..Len(a.sequences) <=> i \in 1..m \/ i = m + 1
    BY <1>1, <1>5
  <2>4. (\E i \in 1..Len(a.sequences) : a.sequences[i][row] \in stop_token_ids) <=>
          (\E i \in 1..m : s[i][row] \in stop_token_ids) \/ v[row] \in stop_token_ids
    BY <1>5, <2>3
  <2> QED
    BY <2>1, <2>2, <2>4
<1>8. ASSUME NEW row \in Rows, NEW i \in 1..Len(a.sequences), NEW j \in 1..Len(a.sequences),
             i < j, a.sequences[i][row] \in stop_token_ids
      PROVE  a.sequences[j][row] = pad_token_id
  <2>1. i \in 1..m /\ s[i][row] \in stop_token_ids
    BY <1>1, <1>5, <1>8
  <2>2. row \in e.finished
    BY <2>1 DEF Padded
  <2>3. CASE j = m + 1
    BY <1>2, <1>5, <2>2, <2>3
  <2>4. CASE j # m + 1
    <3>1. j \in 1..m
      BY <1>1, <1>5, <2>4
    <3> QED
      BY <1>5, <1>8, <2>1, <3>1 DEF Padded
  <2> QED
    BY <2>3, <2>4
<1>9. Padded(a)
  BY <1>1, <1>5, <1>7, <1>8 DEF Padded
<1> QED
  BY <1>4, <1>6, <1>9 DEF a, v

LEMMA RollFacts ==
  ASSUME NEW e \in Position, e.chunk < Chunks
  PROVE  /\ Roll(e) \in Position /\ Padded(Roll(e)) /\ ~IsFull(Roll(e))
         /\ Roll(e).chunk = e.chunk + 1
<1>1. /\ Roll(e).chunk = e.chunk + 1 /\ Roll(e).sequences = <<>> /\ Roll(e).finished = {}
  BY DEF Roll
<1>2. Roll(e) \in Position
  BY PositionFacts, RolloutAssumption DEF Roll, Position
<1> QED
  BY <1>1, <1>2, RolloutAssumption DEF Padded, IsFull

LEMMA ContinuesTransitive ==
  ASSUME NEW r \in Seq(Vectors), NEW s \in Seq(Vectors), NEW t \in Seq(Vectors),
         Continues(s, r), Continues(t, s)
  PROVE  Continues(t, r)
BY DEF Continues

\* A track can go on with any position that follows its last one.
LEMMA TrackOn ==
  ASSUME NEW n \in Nat, NEW R, Track(n, R), NEW e \in Position, Padded(e),
         \/ e.chunk = R[n].chunk + 1
         \/ e.chunk = R[n].chunk /\ Continues(e.sequences, R[n].sequences),
         IsFull(R[n]) => R[n].chunk < Chunks /\ e = Roll(R[n])
  PROVE  Track(n + 1, [R EXCEPT ![n + 1] = e])
<1> DEFINE S == [R EXCEPT ![n + 1] = e]
<1>1. /\ n \in Nat /\ n > 0 /\ n + 1 \in Nat \ {0} /\ S \in [Nat -> Position]
      /\ S[n + 1] = e /\ \A k \in 1..n : S[k] = R[k]
      /\ \A k \in 1..n : R[k] \in Position
      /\ \A k \in 1..(n + 1) : k \in 1..n \/ k = n + 1
  BY DEF Track
<1> HIDE DEF S
<1>2. \A k \in 1..(n + 1) : Padded(S[k])
  BY <1>1 DEF Track
<1>3. ASSUME NEW j \in 1..(n + 1), NEW k \in 1..(n + 1), j <= k
      PROVE  /\ S[j].chunk <= S[k].chunk
             /\ S[j].chunk = S[k].chunk => Continues(S[k].sequences, S[j].sequences)
  <2>1. CASE k \in 1..n
    <3>1. j \in 1..n
      BY <1>1, <1>3, <2>1
    <3> QED
      BY <1>1, <1>3, <2>1, <3>1 DEF Track
  <2>2. CASE k = n + 1 /\ j = n + 1
    BY <1>1, <2>2, PositionFacts DEF Continues
  <2>3. CASE k = n + 1 /\ j \in 1..n
    <3>1. /\ R[j].chunk <= R[n].chunk
          /\ R[j].chunk = R[n].chunk => Continues(R[n].sequences, R[j].sequences)
      BY <1>1, <2>3 DEF Track
    <3>2. /\ R[j].chunk \in Nat /\ R[n].chunk \in Nat /\ e.chunk \in Nat
          /\ R[j].sequences \in Seq(Vectors) /\ R[n].sequences \in Seq(Vectors)
          /\ e.sequences \in Seq(Vectors)
      BY <1>1, <2>3, PositionFacts
    <3>3. S[j] = R[j] /\ S[k] = e
      BY <1>1, <2>3
    <3>4. R[j].chunk <= e.chunk
      BY <3>1, <3>2
    <3>5. R[j].chunk = e.chunk =>
            R[j].chunk = R[n].chunk /\ Continues(e.sequences, R[n].sequences)
      BY <3>1, <3>2
    <3> QED
      BY <3>1, <3>2, <3>3, <3>4, <3>5, ContinuesTransitive
  <2> QED
    BY <1>1, <2>1, <2>2, <2>3
<1>4. ASSUME NEW k \in 1..(n + 1), k < n + 1, IsFull(S[k])
      PROVE  S[k].chunk < Chunks /\ S[k + 1] = Roll(S[k])
  <2>1. CASE k = n
    BY <1>1, <1>4, <2>1
  <2>2. CASE k < n
    <3>1. k \in 1..n /\ k + 1 \in 1..n
      BY <1>1, <1>4, <2>2
    <3> QED
      BY <1>1, <1>4, <2>2, <3>1 DEF Track
  <2> QED
    BY <1>1, <1>4, <2>1, <2>2
<1> QED
  BY <1>1, <1>2, <1>3, <1>4 DEF Track, S

\* The position after one to which a token is appended.
LEMMA TrackFollow ==
  ASSUME NEW n \in Nat, NEW R, Track(n, R), ~IsFull(R[n]), NEW tokens \in Vectors
  PROVE  Track(n + 1, [R EXCEPT ![n + 1] = Follow(R[n], tokens)])
<1> DEFINE a == Appended(R[n], pad_finished(tokens, R[n].finished))
<1>1. n \in 1..n /\ R[n] \in Position /\ Padded(R[n])
  BY DEF Track
<1>2. a \in Position /\ Padded(a) /\ Continues(a.sequences, R[n].sequences)
  BY <1>1, AppendedFacts
<1>3. a.chunk = R[n].chunk
  BY DEF Appended
<1> HIDE DEF a
<1>4. CASE a.finished = Rows /\ R[n].chunk < Chunks
  <2>1. Follow(R[n], tokens) = Roll(R[n])
    BY <1>4 DEF Follow, a
  <2> QED
    BY <1>1, <1>4, <2>1, RollFacts, TrackOn
<1>5. CASE ~(a.finished = Rows /\ R[n].chunk < Chunks)
  <2>1. Follow(R[n], tokens) = a
    BY <1>5 DEF Follow, a
  <2> QED
    BY <1>2, <1>3, <2>1, TrackOn
<1> QED
  BY <1>4, <1>5

LEMMA TrackRoll ==
  ASSUME NEW n \in Nat, NEW R, Track(n, R), IsFull(R[n]), R[n].chunk < Chunks
  PROVE  Track(n + 1, [R EXCEPT ![n + 1] = Roll(R[n])])
<1>1. R[n] \in Position
  BY DEF Track
<1> QED
  BY <1>1, RollFacts, TrackOn

\* A longer track says no less of the ranks.
LEMMA Longer ==
  ASSUME NEW n \in Nat, NEW R, NEW S, NEW ix, NEW ph, NEW s,
         Track(n, R), Places(n, R, ix, ph), Located(s, R, ix, ph), Informed(s, n, R, ix, ph),
         \A k \in Nat : k # n + 1 => S[k] = R[k]
  PROVE  Synced(S, ix, ph) /\ Located(s, S, ix, ph) /\ Informed(s, n + 1, S, ix, ph)
<1>1. n + 1 \in Nat /\ \A k \in 1..n : S[k] = R[k]
  OBVIOUS
<1>2. \A r \in Ranks : ix[r] \in 1..n /\ ix[r] \in Nat /\ ix[r] < n + 1
  BY <1>1 DEF Places
<1>3. Synced(S, ix, ph)
  <2>1. \A r \in Ranks, f \in Nat : ~Past(ix, ph, r, n + 1, f) /\ ~(ix[r] > n + 1)
    BY <1>1, <1>2 DEF Past
  <2> QED
    BY <1>1, <2>1 DEF Places, Synced
<1>4. Located(s, S, ix, ph)
  BY <1>1, <1>2 DEF Located, LocatedAt
<1>5. Informed(s, n + 1, S, ix, ph)
  <2>1. ASSUME NEW r \in Ranks, r[2] = 0, ph[r] = 4
        PROVE  ix[r] < n + 1 /\ S[ix[r] + 1] = Follow(S[ix[r]], s[r].next_token)
    <3>1. ix[r] < n /\ R[ix[r] + 1] = Follow(R[ix[r]], s[r].next_token)
      BY <2>1 DEF Informed, InformedAt
    <3>2. ix[r] + 1 \in 1..n
      BY <1>1, <1>2, <3>1
    <3> QED
      BY <1>1, <1>2, <3>1, <3>2
  <2> QED
    BY <2>1 DEF Informed, InformedAt
<1> QED
  BY <1>1, <1>3, <1>4, <1>5

\* Before a rank goes on from a full position, the next chunk is on the track.
LEMMA RollKnown ==
  ASSUME NEW n \in Nat, NEW R, NEW ix, NEW ph, NEW s, Ghost(s, n, R, ix, ph),
         NEW k \in 1..n, IsFull(R[k]), R[k].chunk < Chunks
  PROVE  \E m, S : /\ m \in Nat /\ Ghost(s, m, S, ix, ph) /\ k < m /\ S[k] = R[k]
                   /\ S[k + 1] = Roll(R[k])
<1>1. Track(n, R) /\ Places(n, R, ix, ph) /\ Located(s, R, ix, ph) /\ Informed(s, n, R, ix, ph)
  BY DEF Ghost
<1>2. n \in Nat /\ R[n] \in Position
  BY <1>1 DEF Track
<1>3. CASE k < n
  BY <1>1, <1>3 DEF Track
<1>4. CASE k = n
  <2> DEFINE S == [R EXCEPT ![n + 1] = Roll(R[n])]
  <2>1. Track(n + 1, S) /\ Roll(R[n]) \in Position
    BY <1>1, <1>2, <1>4, TrackRoll, RollFacts
  <2>5. S[n + 1] = Roll(R[n]) /\ \A j \in Nat : j # n + 1 => S[j] = R[j]
    BY <1>1, <1>2 DEF Track
  <2> HIDE DEF S
  <2>2. /\ Synced(S, ix, ph) /\ Located(s, S, ix, ph) /\ Informed(s, n + 1, S, ix, ph)
        /\ S[n + 1] = Roll(R[n]) /\ \A j \in 1..n : S[j] = R[j]
    <3>1. Synced(S, ix, ph) /\ Located(s, S, ix, ph) /\ Informed(s, n + 1, S, ix, ph)
      BY <1>1, <2>5, Longer
    <3> QED
      BY <1>2, <2>5, <3>1
  <2>3. Known(n + 1, S, ix, ph)
    <3> SUFFICES ASSUME NEW j \in 1..(n + 1), j < n + 1, ~IsFull(S[j]), NEW r \in Ranks, r[2] = 0
                 PROVE  Past(ix, ph, r, j, 4)
      BY DEF Known
    <3>1. j \in 1..n /\ S[j] = R[j] /\ j # n
      BY <1>2, <1>4, <2>2
    <3>2. j < n
      BY <1>2, <3>1
    <3> QED
      BY <1>1, <3>1, <3>2 DEF Places, Known
  <2>4. Places(n + 1, S, ix, ph)
    <3>1. \A r \in Ranks : ix[r] \in 1..(n + 1)
      BY <1>1, <1>2 DEF Places
    <3> QED
      BY <1>1, <2>2, <2>3, <3>1 DEF Places
  <2> QED
    BY <1>2, <1>4, <2>1, <2>2, <2>4 DEF Ghost
<1> QED
  BY <1>2, <1>3, <1>4
-----------------------------------------------------------------------------
(* Ranks that meet are in the same round, and going on together keeps them *)
(* in step.                                                                *)

LEMMA SameRound ==
  ASSUME NEW n \in Nat, NEW R, NEW ix, NEW ph, Places(n, R, ix, ph),
         NEW r \in Ranks, NEW q \in Ranks
  PROVE  /\ r[1] = q[1] /\ ph[r] = 1 /\ ph[q] = 1 => ix[r] = ix[q]
         /\ q[1] = r[1] + 1 /\ q[2] = r[2] /\ ph[r] = 2 /\ ph[q] = 0 => ix[r] = ix[q]
         /\ r[2] = q[2] /\ ph[r] = 3 /\ ph[q] = 3 /\ ~IsFull(R[ix[r]]) /\ ~IsFull(R[ix[q]])
              => ix[r] = ix[q]
         /\ r[1] = q[1] /\ ph[r] = 4 /\ ph[q] = 4 /\ ~IsFull(R[ix[r]]) /\ ~IsFull(R[ix[q]])
              => ix[r] = ix[q]
<1>1. /\ ix[r] \in Nat /\ ix[q] \in Nat /\ ph[r] \in 0..4 /\ ph[q] \in 0..4
      /\ ix[r] >= 1 /\ ix[q] >= 1 /\ Synced(R, ix, ph)
      /\ ix[r] - 1 \in Nat /\ ix[q] - 1 \in Nat
  BY DEF Places
<1>2. r[1] = q[1] /\ ph[r] = 1 /\ ph[q] = 1 => ix[r] = ix[q]
  <2>1. r[1] = q[1] => \A k \in Nat : Past(ix, ph, r, k, 2) <=> Past(ix, ph, q, k, 2)
    BY <1>1 DEF Synced
  <2> QED
    BY <1>1, <2>1 DEF Past
<1>3. q[1] = r[1] + 1 /\ q[2] = r[2] /\ ph[r] = 2 /\ ph[q] = 0 => ix[r] = ix[q]
  <2>1. q[1] = r[1] + 1 /\ q[2] = r[2] =>
          \A k \in Nat : Past(ix, ph, r, k, 3) <=> Past(ix, ph, q, k, 1)
    BY <1>1 DEF Synced
  <2> QED
    BY <1>1, <2>1 DEF Past
<1>4. r[2] = q[2] /\ ph[r] = 3 /\ ph[q] = 3 /\ ~IsFull(R[ix[r]]) /\ ~IsFull(R[ix[q]])
        => ix[r] = ix[q]
  <2>1. r[2] = q[2] => \A k \in Nat : ~IsFull(R[k]) =>
                         (Past(ix, ph, r, k, 4) <=> Past(ix, ph, q, k, 4))
    BY <1>1 DEF Synced
  <2> QED
    BY <1>1, <2>1 DEF Past
<1>5. r[1] = q[1] /\ ph[r] = 4 /\ ph[q] = 4 /\ ~IsFull(R[ix[r]]) /\ ~IsFull(R[ix[q]])
        => ix[r] = ix[q]
  <2>1. r[1] = q[1] => \A k \in Nat : ~IsFull(R[k]) => (ix[r] > k <=> ix[q] > k)
    BY <1>1 DEF Synced
  <2> QED
    BY <1>1, <2>1
<1> QED
  BY <1>2, <1>3, <1>4, <1>5

\* The ranks of stage p compute, and go on to a send, to a token or, from a full position,
\* to the next round.
LEMMA ComputeMove ==
  ASSUME NEW n \in Nat, NEW R, NEW ix, NEW ph, Places(n, R, ix, ph),
         NEW p \in Stages, NEW k \in Nat, NEW jx \in [Ranks -> Nat], NEW qh \in [Ranks -> 0..4],
         \A r \in Ranks : r[1] = p => ix[r] = k /\ ph[r] = 1,
         \A r \in Ranks : r[1] # p => jx[r] = ix[r] /\ qh[r] = ph[r],
         \/ \A r \in Ranks : r[1] = p => jx[r] = k /\ qh[r] = 2
         \/ p = Last /\ \A r \in Ranks : r[1] = p => jx[r] = k /\ qh[r] = 3
         \/ p = Last /\ IsFull(R[k]) /\ \A r \in Ranks : r[1] = p => jx[r] = k + 1 /\ qh[r] = start(r)
  PROVE  /\ Synced(R, jx, qh)
         /\ \A r \in Ranks : jx[r] >= ix[r] /\ (jx[r] = ix[r] => qh[r] >= ph[r])
<1>1. Synced(R, ix, ph) /\ ix \in [Ranks -> Nat] /\ ph \in [Ranks -> 0..4]
  BY DEF Places
<1>2. \A r \in Ranks : r[1] \in 0..Last /\ r[1] \in Nat /\ Last \in Nat
  BY RankFacts DEF Stages, Last
<1>3. ASSUME NEW r \in Ranks, NEW q \in Ranks, NEW j \in Nat, q[1] = r[1] + 1, q[2] = r[2]
      PROVE  Past(jx, qh, r, j, 3) <=> Past(jx, qh, q, j, 1)
  <2>1. Past(ix, ph, r, j, 3) <=> Past(ix, ph, q, j, 1)
    BY <1>1, <1>3 DEF Synced
  <2>2. Past(jx, qh, r, j, 3) <=> Past(ix, ph, r, j, 3)
    BY <1>1, <1>2, <1>3 DEF Past
  <2>3. Past(jx, qh, q, j, 1) <=> Past(ix, ph, q, j, 1)
    BY <1>1, <1>2, <1>3 DEF Past, start
  <2> QED
    BY <2>1, <2>2, <2>3
<1>4. ASSUME NEW r \in Ranks, NEW q \in Ranks, NEW j \in Nat, r[1] = q[1]
      PROVE  Past(jx, qh, r, j, 2) <=> Past(jx, qh, q, j, 2)
  <2>1. CASE r[1] = p
    BY <1>4, <2>1 DEF Past, start
  <2>2. CASE r[1] # p
    BY <1>1, <1>4, <2>2 DEF Synced, Past
  <2> QED
    BY <2>1, <2>2
<1>5. ASSUME NEW r \in Ranks, NEW j \in Nat, ~IsFull(R[j])
      PROVE  /\ Past(jx, qh, r, j, 4) <=> Past(ix, ph, r, j, 4)
             /\ jx[r] > j <=> ix[r] > j
  BY <1>1, <1>5 DEF Past, start
<1>6. Synced(R, jx, qh)
  <2>1. \A r, q \in Ranks, j \in Nat : r[2] = q[2] /\ ~IsFull(R[j]) =>
          (Past(jx, qh, r, j, 4) <=> Past(jx, qh, q, j, 4))
    BY <1>1, <1>5 DEF Synced
  <2>2. \A r, q \in Ranks, j \in Nat : r[1] = q[1] /\ ~IsFull(R[j]) =>
          (jx[r] > j <=> jx[q] > j)
    BY <1>1, <1>5 DEF Synced
  <2> QED
    BY <1>3, <1>4, <2>1, <2>2 DEF Synced
<1> QED
  BY <1>1, <1>6 DEF start

\* The last stage goes on to a token.
LEMMA ComputeToken ==
  ASSUME NEW n \in Nat, NEW R, NEW ix, NEW ph, Places(n, R, ix, ph),
         NEW k \in Nat, NEW qh \in [Ranks -> 0..4],
         \A r \in Ranks : r[1] = Last => ix[r] = k /\ ph[r] = 1 /\ qh[r] = 3,
         \A r \in Ranks : r[1] # Last => qh[r] = ph[r]
  PROVE  Synced(R, ix, qh)
<1>1. ix \in [Ranks -> Nat] /\ Last \in Stages
  BY RankFacts DEF Places
<1>2. \A r \in Ranks : r[1] = Last => ix[r] = k /\ qh[r] = 3
  OBVIOUS
<1> QED
  BY <1>1, <1>2, ComputeMove

\* A transfer: the sender goes on to a token or, from a full position, to the next round.
LEMMA TransferMove ==
  ASSUME NEW n \in Nat, NEW R, NEW ix, NEW ph, Places(n, R, ix, ph),
         NEW from \in Ranks, NEW to \in Ranks, to[1] = from[1] + 1, to[2] = from[2],
         NEW k \in Nat, NEW jx \in [Ranks -> Nat], NEW qh \in [Ranks -> 0..4],
         ix[from] = k, ph[from] = 2, ix[to] = k, ph[to] = 0,
         \A r \in Ranks : r # from /\ r # to => jx[r] = ix[r] /\ qh[r] = ph[r],
         jx[to] = k, qh[to] = 1,
         \/ jx[from] = k /\ qh[from] = 3
         \/ IsFull(R[k]) /\ jx[from] = k + 1 /\ qh[from] = start(from)
  PROVE  /\ Synced(R, jx, qh)
         /\ \A r \in Ranks : jx[r] >= ix[r] /\ (jx[r] = ix[r] => qh[r] >= ph[r])
<1>1. Synced(R, ix, ph) /\ ix \in [Ranks -> Nat] /\ ph \in [Ranks -> 0..4]
  BY DEF Places
<1>2. \A r \in Ranks : r[1] \in Nat
  BY RankFacts DEF Stages
<1>3. ASSUME NEW r \in Ranks, NEW q \in Ranks, NEW j \in Nat, q[1] = r[1] + 1, q[2] = r[2]
      PROVE  Past(jx, qh, r, j, 3) <=> Past(jx, qh, q, j, 1)
  <2>1. Past(ix, ph, r, j, 3) <=> Past(ix, ph, q, j, 1)
    BY <1>1, <1>3 DEF Synced
  <2>2. r = from <=> q = to
    BY <1>2, <1>3, RankFacts
  <2>3. CASE r = from
    BY <1>1, <1>3, <2>2, <2>3 DEF Past, start
  <2>4. CASE r # from
    <3>1. Past(jx, qh, r, j, 3) <=> Past(ix, ph, r, j, 3)
      BY <1>1, <2>4 DEF Past
    <3>2. Past(jx, qh, q, j, 1) <=> Past(ix, ph, q, j, 1)
      BY <1>1, <1>2, <1>3, <2>2, <2>4 DEF Past, start
    <3> QED
      BY <2>1, <3>1, <3>2
  <2> QED
    BY <2>3, <2>4
<1>4. ASSUME NEW r \in Ranks, NEW j \in Nat
      PROVE  /\ Past(jx, qh, r, j, 2) <=> Past(ix, ph, r, j, 2)
             /\ ~IsFull(R[j]) => /\ Past(jx, qh, r, j, 4) <=> Past(ix, ph, r, j, 4)
                                 /\ jx[r] > j <=> ix[r] > j
  BY <1>1 DEF Past, start
<1>5. Synced(R, jx, qh)
  <2>1. \A r, q \in Ranks, j \in Nat : r[1] = q[1] =>
          (Past(jx, qh, r, j, 2) <=> Past(jx, qh, q, j, 2))
    BY <1>1, <1>4 DEF Synced
  <2>2. \A r, q \in Ranks, j \in Nat : r[2] = q[2] /\ ~IsFull(R[j]) =>
          (Past(jx, qh, r, j, 4) <=> Past(jx, qh, q, j, 4))
    BY <1>1, <1>4 DEF Synced
  <2>3. \A r, q \in Ranks, j \in Nat : r[1] = q[1] /\ ~IsFull(R[j]) =>
          (jx[r] > j <=> jx[q] > j)
    BY <1>1, <1>4 DEF Synced
  <2> QED
    BY <1>3, <2>1, <2>2, <2>3 DEF Synced
<1> QED
  BY <1>1, <1>5 DEF start

\* The broadcast of a token in a pp_group.
LEMMA TokenMove ==
  ASSUME NEW R, NEW ix \in [Ranks -> Nat], NEW ph \in [Ranks -> 0..4], Synced(R, ix, ph),
         NEW t \in TPRanks, NEW k \in Nat, NEW qh \in [Ranks -> 0..4],
         \A r \in Ranks : r[2] = t => ix[r] = k /\ ph[r] = 3 /\ qh[r] = 4,
         \A r \in Ranks : r[2] # t => qh[r] = ph[r]
  PROVE  Synced(R, ix, qh)
<1>1. ASSUME NEW r \in Ranks, NEW j \in Nat, NEW f \in 0..3
      PROVE  Past(ix, qh, r, j, f) <=> Past(ix, ph, r, j, f)
  BY DEF Past
<1>2. ASSUME NEW r \in Ranks, NEW q \in Ranks, NEW j \in Nat, r[2] = q[2], ~IsFull(R[j])
      PROVE  Past(ix, qh, r, j, 4) <=> Past(ix, qh, q, j, 4)
  <2>1. CASE r[2] = t
    BY <1>2, <2>1 DEF Past
  <2>2. CASE r[2] # t
    BY <1>2, <2>2 DEF Synced, Past
  <2> QED
    BY <2>1, <2>2
<1> QED
  BY <1>1, <1>2 DEF Synced

\* The ranks of a stage append a token and start the next round.
LEMMA AppendMove ==
  ASSUME NEW n \in Nat, NEW R, NEW ix, NEW ph, Places(n, R, ix, ph),
         NEW p \in Stages, NEW k \in Nat, NEW jx \in [Ranks -> Nat], NEW qh \in [Ranks -> 0..4],
         \A r \in Ranks : r[1] = p => ix[r] = k /\ ph[r] = 4 /\ jx[r] = k + 1 /\ qh[r] = start(r),
         \A r \in Ranks : r[1] # p => jx[r] = ix[r] /\ qh[r] = ph[r]
  PROVE  Synced(R, jx, qh)
<1>1. Synced(R, ix, ph) /\ ix \in [Ranks -> Nat] /\ ph \in [Ranks -> 0..4]
  BY DEF Places
<1>2. \A r \in Ranks : r[1] \in Nat
  BY RankFacts DEF Stages
<1>3. ASSUME NEW r \in Ranks, NEW j \in Nat, NEW f \in 2..4
      PROVE  Past(jx, qh, r, j, f) <=> Past(ix, ph, r, j, f)
  <2>1. CASE r[1] = p
    <3>1. ix[r] = k /\ ph[r] = 4 /\ jx[r] = k + 1 /\ qh[r] \in 0..1
      BY <2>1 DEF start
    <3> QED
      BY <3>1 DEF Past
  <2>2. CASE r[1] # p
    BY <2>2 DEF Past
  <2> QED
    BY <2>1, <2>2
<1>4. ASSUME NEW r \in Ranks, NEW j \in Nat, r[1] # 0
      PROVE  Past(jx, qh, r, j, 1) <=> Past(ix, ph, r, j, 1)
  BY <1>1, <1>2, <1>4 DEF Past, start
<1>5. ASSUME NEW r \in Ranks, NEW q \in Ranks, NEW j \in Nat, r[1] = q[1], ~IsFull(R[j])
      PROVE  jx[r] > j <=> jx[q] > j
  <2>1. CASE r[1] = p
    BY <1>5, <2>1
  <2>2. CASE r[1] # p
    BY <1>1, <1>5, <2>2 DEF Synced
  <2> QED
    BY <2>1, <2>2
<1>6. \A r, q \in Ranks, j \in Nat : q[1] = r[1] + 1 /\ q[2] = r[2] =>
        (Past(jx, qh, r, j, 3) <=> Past(jx, qh, q, j, 1))
  BY <1>1, <1>2, <1>3, <1>4 DEF Synced
<1>7. \A r, q \in Ranks, j \in Nat : r[1] = q[1] =>
        (Past(jx, qh, r, j, 2) <=> Past(jx, qh, q, j, 2))
  BY <1>1, <1>3 DEF Synced
<1>8. \A r, q \in Ranks, j \in Nat : r[2] = q[2] /\ ~IsFull(R[j]) =>
        (Past(jx, qh, r, j, 4) <=> Past(jx, qh, q, j, 4))
  BY <1>1, <1>3 DEF Synced
<1> QED
  BY <1>5, <1>6, <1>7, <1>8 DEF Synced

-----------------------------------------------------------------------------
(* What the actions do to a rank.                                          *)

LEMMA LocalFacts ==
  ASSUME NEW me \in Locals
  PROVE  /\ me.pc \in Labels /\ me.chunk \in 1..Chunks /\ me.chunk \in Nat
         /\ me.sequences \in Seq(Vectors) /\ me.finished \in SUBSET Rows
         /\ me.next_token \in Vectors
         /\ me.hidden \in ((1..Chunks) \X Seq(Vectors)) \cup {NoTokens}
BY RolloutAssumption DEF Locals

LEMMA NextChunk ==
  ASSUME NEW r \in Ranks, NEW me \in Locals, NEW s, s = next_chunk(r, me)
  PROVE  /\ s \in Locals
         /\ \/ /\ me.chunk < Chunks /\ s.chunk = me.chunk + 1 /\ s.sequences = <<>>
               /\ s.finished = {} /\ s.pc = forward_of(r)
            \/ /\ me.chunk = Chunks /\ s.chunk = me.chunk /\ s.sequences = me.sequences
               /\ s.finished = me.finished /\ s.pc = "done"
<1>1. forward_of(r) \in Labels /\ "done" \in Labels /\ Chunks \in Nat
  BY RolloutAssumption DEF forward_of, Labels, Waiting
<1>2. CASE me.chunk < Chunks
  <2>1. s = [me EXCEPT !.chunk = @ + 1, !.sequences = <<>>, !.finished = {}, !.pc = forward_of(r)]
    BY <1>2 DEF next_chunk
  <2>2. me.chunk + 1 \in 1..Chunks /\ <<>> \in Seq(Vectors) /\ {} \in SUBSET Rows
    BY <1>1, <1>2, LocalFacts
  <2> QED
    BY <1>1, <1>2, <2>1, <2>2 DEF Locals
<1>3. CASE ~(me.chunk < Chunks)
  <2>1. s = [me EXCEPT !.pc = "done"] /\ me.chunk = Chunks
    BY <1>1, <1>3, LocalFacts DEF next_chunk
  <2> QED
    BY <1>1, <2>1 DEF Locals
<1> QED
  BY <1>2, <1>3

LEMMA AfterForward ==
  ASSUME NEW r \in Ranks, NEW me \in Locals, NEW s, s = after_forward(r, me)
  PROVE  /\ s \in Locals
         /\ \/ /\ loop_done(me) /\ me.chunk < Chunks /\ s.chunk = me.chunk + 1
               /\ s.sequences = <<>> /\ s.finished = {} /\ s.pc = forward_of(r)
            \/ /\ loop_done(me) /\ s.chunk = me.chunk /\ s.sequences = me.sequences
               /\ s.finished = me.finished /\ s.pc = "done" /\ me.chunk = Chunks
            \/ /\ ~loop_done(me) /\ s.chunk = me.chunk /\ s.sequences = me.sequences
               /\ s.finished = me.finished /\ s.pc \in {"sample", "token_broadcast"}
<1>1. CASE loop_done(me)
  <2>1. s = next_chunk(r, me)
    BY <1>1 DEF after_forward
  <2> QED
    BY <1>1, <2>1, NextChunk
<1>2. CASE ~loop_done(me)
  <2>1. zeros \in Vectors /\ "sample" \in Labels /\ "token_broadcast" \in Labels
    BY RolloutAssumption DEF zeros, Vectors, AnyToken, Labels, Waiting
  <2>2. s = [me EXCEPT !.pc = "sample"]
        \/ s = [me EXCEPT !.pc = "token_broadcast", !.next_token = zeros]
    BY <1>2 DEF after_forward
  <2> QED
    BY <1>2, <2>1, <2>2 DEF Locals
<1> QED
  BY <1>1, <1>2

\* A rank that starts a round is at phase start(r).
LEMMA StartPlace ==
  ASSUME NEW r \in Ranks, NEW s, NEW n \in Nat, NEW R, NEW j \in Nat,
         s.pc = forward_of(r),
         s.chunk = R[j].chunk, s.sequences = R[j].sequences, s.finished = R[j].finished
  PROVE  LocatedAt(s, R, j, start(r)) /\ InformedAt(r, s, n, R, j, start(r))
<1>1. CASE r[1] = 0
  <2>1. s.pc = "compute" /\ start(r) = 1
    BY <1>1 DEF forward_of, start
  <2> QED
    BY <1>1, <2>1 DEF LocatedAt, InformedAt
<1>2. CASE r[1] # 0
  <2>1. s.pc = "recv" /\ start(r) = 0
    BY <1>2 DEF forward_of, start
  <2> QED
    BY <2>1 DEF LocatedAt, InformedAt
<1> QED
  BY <1>1, <1>2

\* A rank that is done, before phase 4.
LEMMA DonePlace ==
  ASSUME NEW r \in Ranks, NEW s, NEW n \in Nat, NEW R, NEW j \in Nat, NEW f \in 0..3,
         s.pc = "done", IsFull(R[j]) \/ R[j].finished = Rows,
         s.chunk = R[j].chunk, s.sequences = R[j].sequences, s.finished = R[j].finished
  PROVE  LocatedAt(s, R, j, f) /\ InformedAt(r, s, n, R, j, f)
BY DEF LocatedAt, InformedAt

\* A forward pass ends at a token, in the next chunk, or with the last chunk.
LEMMA ForwardPlace ==
  ASSUME NEW r \in Ranks, NEW me \in Locals, NEW s, s = after_forward(r, me),
         NEW n \in Nat, NEW R, NEW i \in Nat,
         me.chunk = R[i].chunk, me.sequences = R[i].sequences, me.finished = R[i].finished
  PROVE  /\ s \in Locals
         /\ \/ /\ IsFull(R[i]) /\ R[i].chunk < Chunks
               /\ R[i + 1] = Roll(R[i]) =>
                    /\ LocatedAt(s, R, i + 1, start(r))
                    /\ InformedAt(r, s, n, R, i + 1, start(r))
            \/ /\ ~(IsFull(R[i]) /\ R[i].chunk < Chunks)
               /\ LocatedAt(s, R, i, 3) /\ InformedAt(r, s, n, R, i, 3)
<1>1. loop_done(me) <=> IsFull(R[i])
  BY DEF loop_done, IsFull
<1>2. /\ s \in Locals
      /\ \/ /\ loop_done(me) /\ me.chunk < Chunks /\ s.chunk = me.chunk + 1
            /\ s.sequences = <<>> /\ s.finished = {} /\ s.pc = forward_of(r)
         \/ /\ loop_done(me) /\ s.chunk = me.chunk /\ s.sequences = me.sequences
            /\ s.finished = me.finished /\ s.pc = "done" /\ me.chunk = Chunks
         \/ /\ ~loop_done(me) /\ s.chunk = me.chunk /\ s.sequences = me.sequences
            /\ s.finished = me.finished /\ s.pc \in {"sample", "token_broadcast"}
  BY AfterForward
<1>3. r[1] \in Nat /\ Chunks \in Nat /\ start(r) \in 0..1
  BY RankFacts, RolloutAssumption DEF start
<1>4. CASE IsFull(R[i]) /\ R[i].chunk < Chunks
  <2>1. /\ s.chunk = me.chunk + 1 /\ s.sequences = <<>> /\ s.finished = {} /\ s.pc = forward_of(r)
    BY <1>1, <1>2, <1>3, <1>4
  <2>2. Roll(R[i]).chunk = R[i].chunk + 1 /\ Roll(R[i]).sequences = <<>> /\ Roll(R[i]).finished = {}
    BY DEF Roll
  <2>3. R[i + 1] = Roll(R[i]) => LocatedAt(s, R, i + 1, start(r))
    BY <1>3, <2>1, <2>2 DEF LocatedAt, forward_of, start
  <2>4. InformedAt(r, s, n, R, i + 1, start(r))
    BY <1>3, <2>1 DEF InformedAt, forward_of, start
  <2> QED
    BY <1>2, <1>4, <2>3, <2>4
<1>5. CASE ~(IsFull(R[i]) /\ R[i].chunk < Chunks)
  <2>1. LocatedAt(s, R, i, 3)
    BY <1>1, <1>2, <1>5 DEF LocatedAt
  <2>2. InformedAt(r, s, n, R, i, 3)
    BY <1>1, <1>2, <1>5 DEF InformedAt
  <2> QED
    BY <1>2, <1>5, <2>1, <2>2
<1> QED
  BY <1>4, <1>5
\* The token of a round ends it, with a position that all ranks of the stage compute alike.
LEMMA AppendPlace ==
  ASSUME NEW r \in Ranks, NEW me \in Locals, NEW X \in Vectors, NEW a \in Locals, NEW s \in Locals,
         NEW v, v = pad_finished(X, me.finished),
         a.chunk = me.chunk, a.sequences = Append(me.sequences, v),
         a.finished = apply_stop_mask(me.finished, v),
         a.finished = Rows => s = next_chunk(r, a),
         a.finished # Rows =>
           /\ s.chunk = a.chunk /\ s.sequences = a.sequences /\ s.finished = a.finished
           /\ s.pc = forward_of(r),
         NEW n \in Nat, NEW R, NEW i \in Nat,
         me.chunk = R[i].chunk, me.sequences = R[i].sequences, me.finished = R[i].finished,
         R[i + 1] = Follow(R[i], X)
  PROVE  LocatedAt(s, R, i + 1, start(r)) /\ InformedAt(r, s, n, R, i + 1, start(r))
<1> DEFINE b == Appended(R[i], v)
           e == R[i + 1]
<1>1. Chunks \in Nat /\ start(r) \in 0..3 /\ me.chunk \in Nat /\ i + 1 \in Nat
  <2>1. me.chunk \in Nat
    BY LocalFacts
  <2> QED
    BY <2>1, RolloutAssumption DEF start
<1>2. /\ b.chunk = a.chunk /\ b.sequences = a.sequences /\ b.finished = a.finished
  BY DEF Appended
<1>3. e = IF b.finished = Rows /\ R[i].chunk < Chunks THEN Roll(R[i]) ELSE b
  BY DEF Follow
<1> HIDE DEF b, e
<1>4. CASE a.finished = Rows /\ me.chunk < Chunks
  <2>1. e = Roll(R[i])
    BY <1>2, <1>3, <1>4
  <2>2. e.chunk = me.chunk + 1 /\ e.sequences = <<>> /\ e.finished = {}
    BY <2>1 DEF Roll
  <2>3. s.chunk = me.chunk + 1 /\ s.sequences = <<>> /\ s.finished = {} /\ s.pc = forward_of(r)
    BY <1>1, <1>4, NextChunk
  <2>4. s.chunk = e.chunk /\ s.sequences = e.sequences /\ s.finished = e.finished
    BY <2>2, <2>3
  <2> QED
    BY <1>1, <2>3, <2>4, StartPlace DEF e
<1>5. CASE a.finished = Rows /\ ~(me.chunk < Chunks)
  <2>1. e = b
    BY <1>3, <1>5
  <2>2. /\ s.chunk = a.chunk /\ s.sequences = a.sequences /\ s.finished = a.finished
        /\ s.pc = "done"
    BY <1>1, <1>5, NextChunk
  <2>3. /\ s.chunk = e.chunk /\ s.sequences = e.sequences /\ s.finished = e.finished
        /\ e.finished = Rows
    BY <1>2, <1>5, <2>1, <2>2
  <2> QED
    BY <1>1, <2>2, <2>3, DonePlace DEF e
<1>6. CASE a.finished # Rows
  <2>1. e = b
    BY <1>2, <1>3, <1>6
  <2>2. s.chunk = e.chunk /\ s.sequences = e.sequences /\ s.finished = e.finished
    BY <1>2, <1>6, <2>1
  <2> QED
    BY <1>1, <1>6, <2>2, StartPlace DEF e
<1> QED
  BY <1>4, <1>5, <1>6

-----------------------------------------------------------------------------
(* The actions preserve the invariant.                                     *)

\* The hypothesis of the steps, with a name for the ghosts.
LEMMA GhostFacts ==
  ASSUME NEW s, NEW n, NEW R, NEW ix, NEW ph, Ghost(s, n, R, ix, ph)
  PROVE  /\ n \in Nat /\ n >= 1 /\ R \in [Nat -> Position] /\ Track(n, R)
         /\ ix \in [Ranks -> Nat] /\ ph \in [Ranks -> 0..4]
         /\ Places(n, R, ix, ph)
         /\ \A r \in Ranks :
              /\ ix[r] \in 1..n /\ ix[r] \in Nat /\ ph[r] \in 0..4
              /\ R[ix[r]] \in Position
              /\ LocatedAt(s[r], R, ix[r], ph[r]) /\ InformedAt(r, s[r], n, R, ix[r], ph[r])
BY DEF Ghost, Track, Places, Located, Informed

LEMMA InvInit == Init => Inv
<1> SUFFICES ASSUME Init PROVE Inv
  OBVIOUS
<1> DEFINE e == [chunk |-> 1, sequences |-> <<>>, finished |-> {}]
           R == [k \in Nat |-> e]
           ix == [r \in Ranks |-> 1]
           ph == [r \in Ranks |-> start(r)]
<1>1. e \in Position /\ Padded(e) /\ ~IsFull(e) /\ Continues(e.sequences, e.sequences)
  BY RolloutAssumption DEF Position, Padded, IsFull, Continues
<1>2. zeros \in Vectors /\ \A r \in Ranks : forward_of(r) \in Labels
  BY RolloutAssumption DEF zeros, Vectors, AnyToken, forward_of, Labels, Waiting
<1>3. self \in [Ranks -> Locals] /\ faults \subseteq Ranks
  <2>1. 1 \in 1..Chunks
    BY RolloutAssumption
  <2> QED
    BY <1>2, <2>1 DEF Init, Locals
<1>4. Track(1, R)
  <2> HIDE DEF e
  <2>1. R \in [Nat -> Position] /\ R[1] = e /\ 1 \in Nat \ {0}
    BY <1>1
  <2>2. \A k \in 1..1 : k = 1
    OBVIOUS
  <2> HIDE DEF R
  <2>3. \A k \in 1..1 : Padded(R[k]) /\ ~(k < 1)
    BY <1>1, <2>1, <2>2
  <2>4. \A j, k \in 1..1 : R[j] = e /\ R[k] = e
    BY <2>1, <2>2
  <2>5. e.chunk <= e.chunk /\ Continues(e.sequences, e.sequences)
    BY <1>1, PositionFacts
  <2>6. \A j, k \in 1..1 : j <= k =>
          /\ R[j].chunk <= R[k].chunk
          /\ R[j].chunk = R[k].chunk => Continues(R[k].sequences, R[j].sequences)
    BY <2>4, <2>5
  <2> QED
    BY <2>1, <2>3, <2>6 DEF Track
<1>5. \A r \in Ranks : r[1] \in Nat /\ start(r) \in 0..1
  BY RankFacts DEF start
<1>6. Places(1, R, ix, ph)
  <2> HIDE DEF e
  <2>1. ix \in [Ranks -> Nat] /\ ph \in [Ranks -> 0..4] /\ \A r \in Ranks : ix[r] \in 1..1
    BY <1>5
  <2>2. Synced(R, ix, ph)
    BY <1>5 DEF Synced, Past, start
  <2> QED
    BY <2>1, <2>2 DEF Places, Known
<1>7. \A r \in Ranks : LocatedAt(self[r], R, ix[r], ph[r]) /\ InformedAt(r, self[r], 1, R, ix[r], ph[r])
  <2> SUFFICES ASSUME NEW r \in Ranks
               PROVE  LocatedAt(self[r], R, ix[r], ph[r]) /\ InformedAt(r, self[r], 1, R, ix[r], ph[r])
    OBVIOUS
  <2>1. ix[r] = 1 /\ ph[r] = start(r) /\ R[1] = e
    OBVIOUS
  <2>2. e.chunk = 1 /\ e.sequences = <<>> /\ e.finished = {}
    OBVIOUS
  <2>3. /\ self[r].chunk = 1 /\ self[r].sequences = <<>> /\ self[r].finished = {}
        /\ self[r].pc = forward_of(r)
    BY DEF Init
  <2> HIDE DEF e, R, ix, ph
  <2> QED
    BY <2>1, <2>2, <2>3, StartPlace
<1>8. Ghost(self, 1, R, ix, ph)
  BY <1>4, <1>6, <1>7 DEF Ghost, Located, Informed
<1> QED
  BY <1>3, <1>8 DEF Inv

\* A rank that fails stays where it was, and one that samples has only a token of its own.
LEMMA StandStep ==
  ASSUME Inv, faults' \subseteq Ranks, self' \in [Ranks -> Locals],
         \A r \in Ranks :
           /\ self'[r].chunk = self[r].chunk /\ self'[r].sequences = self[r].sequences
           /\ self'[r].finished = self[r].finished /\ self'[r].hidden = self[r].hidden
           /\ \/ /\ self'[r].next_token = self[r].next_token
                 /\ self'[r].pc = self[r].pc \/ self'[r].pc \in {"raised", "hung", "exited"}
              \/ self[r].pc = "sample" /\ self'[r].pc = "token_broadcast"
  PROVE  Inv'
<1>1. PICK n, R, ix, ph : Ghost(self, n, R, ix, ph)
  BY DEF Inv
<1>2. ASSUME NEW r \in Ranks
      PROVE  LocatedAt(self'[r], R, ix[r], ph[r]) /\ InformedAt(r, self'[r], n, R, ix[r], ph[r])
  <2>1. LocatedAt(self[r], R, ix[r], ph[r]) /\ InformedAt(r, self[r], n, R, ix[r], ph[r])
    BY <1>1, GhostFacts
  <2>2. LocatedAt(self'[r], R, ix[r], ph[r])
    BY <2>1 DEF LocatedAt
  <2>3. InformedAt(r, self'[r], n, R, ix[r], ph[r])
    BY <2>1 DEF LocatedAt, InformedAt
  <2> QED
    BY <2>2, <2>3
<1>3. Ghost(self', n, R, ix, ph)
  BY <1>1, <1>2 DEF Ghost, Located, Informed
<1> QED
  BY <1>3 DEF Inv

LEMMA PcSet ==
  ASSUME NEW me \in Locals, NEW c \in Labels
  PROVE  /\ [me EXCEPT !.pc = c] \in Locals
         /\ [me EXCEPT !.pc = c].pc = c
         /\ [me EXCEPT !.pc = c].chunk = me.chunk
         /\ [me EXCEPT !.pc = c].sequences = me.sequences
         /\ [me EXCEPT !.pc = c].finished = me.finished
         /\ [me EXCEPT !.pc = c].next_token = me.next_token
         /\ [me EXCEPT !.pc = c].hidden = me.hidden
BY DEF Locals

LEMMA FailureSteps ==
  ASSUME Inv,
         \/ \E r \in Ranks, how \in {"raised", "hung"} : Fail(r, how)
         \/ \E r \in Ranks : Timeout(r) \/ WatchdogFires(r) \/ Abort(r)
         \/ Reap
  PROVE  Inv'
<1>1. self \in [Ranks -> Locals] /\ faults \subseteq Ranks
  BY DEF Inv
<1>2. /\ "raised" \in Labels /\ "hung" \in Labels /\ "exited" \in Labels
  BY DEF Labels
<1>3. CASE Reap
  <2>1. self' = [r \in Ranks |-> [self[r] EXCEPT !.pc = "exited"]] /\ faults' = faults
    BY <1>3 DEF Reap
  <2>2. \A r \in Ranks : self'[r] = [self[r] EXCEPT !.pc = "exited"]
    BY <2>1
  <2>3. self' \in [Ranks -> Locals]
    BY <1>1, <1>2, <2>1, PcSet
  <2>4. \A r \in Ranks :
          /\ self'[r].chunk = self[r].chunk /\ self'[r].sequences = self[r].sequences
          /\ self'[r].finished = self[r].finished /\ self'[r].hidden = self[r].hidden
          /\ self'[r].next_token = self[r].next_token /\ self'[r].pc = "exited"
    <3> TAKE r \in Ranks
    <3>1. self[r] \in Locals /\ self'[r] = [self[r] EXCEPT !.pc = "exited"]
      BY <1>1, <2>2
    <3> QED
      BY <1>2, <3>1, PcSet
  <2> QED
    BY <1>1, <2>1, <2>3, <2>4, StandStep
<1>4. CASE ~Reap
  <2>1. faults' \subseteq Ranks
    BY <1>1, <1>4 DEF Fail, Timeout, WatchdogFires, Abort
  <2>2. PICK r \in Ranks, how \in {"raised", "hung", "exited"} :
          self' = [self EXCEPT ![r].pc = how]
    BY <1>4 DEF Fail, Timeout, WatchdogFires, Abort
  <2>3. self' = [self EXCEPT ![r] = [self[r] EXCEPT !.pc = how]]
    BY <2>2
  <2>4. \A q \in Ranks : self'[q] = IF q = r THEN [self[r] EXCEPT !.pc = how] ELSE self[q]
    BY <1>1, <2>3
  <2>5. self' \in [Ranks -> Locals]
    BY <1>1, <1>2, <2>3, PcSet
  <2>6. how \in Labels
    BY <1>2
  <2>7. \A q \in Ranks :
          /\ self'[q].chunk = self[q].chunk /\ self'[q].sequences = self[q].sequences
          /\ self'[q].finished = self[q].finished /\ self'[q].hidden = self[q].hidden
          /\ self'[q].next_token = self[q].next_token
          /\ self'[q].pc = self[q].pc \/ self'[q].pc \in {"raised", "hung", "exited"}
    <3> TAKE q \in Ranks
    <3>1. CASE q = r
      <4>1. self[r] \in Locals /\ self'[q] = [self[r] EXCEPT !.pc = how]
        BY <1>1, <2>4, <3>1
      <4> QED
        BY <2>6, <3>1, <4>1, PcSet
    <3>2. CASE q # r
      BY <2>4, <3>2
    <3> QED
      BY <3>1, <3>2
  <2> QED
    BY <1>1, <2>1, <2>5, <2>7, StandStep
<1> QED
  BY <1>3, <1>4

LEMMA SampleStep ==
  ASSUME Inv, NEW r \in Ranks, Sample(r)
  PROVE  Inv'
<1>1. self \in [Ranks -> Locals] /\ faults' \subseteq Ranks /\ self[r].pc = "sample"
  BY DEF Inv, Sample
<1>2. PICK tokens \in [Rows -> Tokens] :
        self' = [self EXCEPT ![r].next_token = tokens, ![r].pc = "token_broadcast"]
  BY DEF Sample
<1> DEFINE me == [self[r] EXCEPT !.next_token = tokens, !.pc = "token_broadcast"]
<1>3. tokens \in Vectors /\ "token_broadcast" \in Labels
  BY DEF Vectors, AnyToken, Labels, Waiting
<1>4. /\ me \in Locals /\ me.chunk = self[r].chunk /\ me.sequences = self[r].sequences
      /\ me.finished = self[r].finished /\ me.hidden = self[r].hidden
      /\ me.pc = "token_broadcast"
  BY <1>1, <1>3 DEF Locals
<1>5. self' = [self EXCEPT ![r] = me]
  BY <1>1, <1>2
<1> HIDE DEF me
<1>6. \A q \in Ranks : self'[q] = IF q = r THEN me ELSE self[q]
  BY <1>1, <1>5
<1>7. self' \in [Ranks -> Locals]
  BY <1>1, <1>4, <1>5
<1> QED
  BY <1>1, <1>4, <1>6, <1>7, StandStep

\* Ranks that have gone on keep their track.
LEMMA GhostOn ==
  ASSUME NEW s, NEW n, NEW R, NEW ix, NEW ph, Track(n, R), Places(n, R, ix, ph),
         NEW jx \in [Ranks -> Nat], NEW qh \in [Ranks -> 0..4],
         \A r \in Ranks : jx[r] >= ix[r] /\ (jx[r] = ix[r] => qh[r] >= ph[r]),
         \A r \in Ranks : jx[r] <= n,
         Synced(R, jx, qh),
         \A r \in Ranks : LocatedAt(s[r], R, jx[r], qh[r]) /\ InformedAt(r, s[r], n, R, jx[r], qh[r])
  PROVE  Ghost(s, n, R, jx, qh)
<1>1. \A r \in Ranks : jx[r] \in Nat /\ qh[r] \in 0..4 /\ ix[r] \in 1..n /\ ph[r] \in 0..4 /\ n \in Nat
  BY DEF Places, Track
<1>2. \A r \in Ranks : jx[r] \in 1..n
  BY <1>1
<1>3. ASSUME NEW r \in Ranks, NEW j \in 1..n, Past(ix, ph, r, j, 4)
      PROVE  Past(jx, qh, r, j, 4)
  BY <1>1, <1>3 DEF Past
<1>4. Known(n, R, jx, qh)
  BY <1>3 DEF Places, Known
<1> QED
  BY <1>2, <1>4 DEF Ghost, Places, Located, Informed

LEMMA ComputeStep ==
  ASSUME Inv, NEW p \in Stages, Compute(p)
  PROVE  Inv'
<1>1. self \in [Ranks -> Locals] /\ faults' \subseteq Ranks /\ \A r \in Ranks : self[r] \in Locals
  BY DEF Inv, Compute
<1>2. PICK n, R, ix, ph : Ghost(self, n, R, ix, ph)
  BY DEF Inv
<1>3. /\ n \in Nat /\ n >= 1 /\ R \in [Nat -> Position] /\ Track(n, R)
      /\ ix \in [Ranks -> Nat] /\ ph \in [Ranks -> 0..4]
      /\ Places(n, R, ix, ph)
      /\ \A r \in Ranks :
           /\ ix[r] \in 1..n /\ ix[r] \in Nat /\ ph[r] \in 0..4
           /\ R[ix[r]] \in Position
           /\ LocatedAt(self[r], R, ix[r], ph[r]) /\ InformedAt(r, self[r], n, R, ix[r], ph[r])
  BY <1>2, GhostFacts
<1> DEFINE k == ix[<<p, 0>>]
           me(r) == IF p = 0 THEN [self[r] EXCEPT !.hidden = <<self[r].chunk, self[r].sequences>>]
                    ELSE self[r]
<1>4. /\ k \in 1..n /\ k \in Nat
      /\ \A r \in Ranks : r[1] = p => self[r].pc = "compute" /\ ph[r] = 1 /\ ix[r] = k
  <2>1. \A r \in Ranks : r[1] = p => self[r].pc = "compute" /\ ph[r] = 1
    BY <1>3 DEF Compute, Stage, LocatedAt
  <2>2. <<p, 0>> \in Ranks /\ <<p, 0>>[1] = p
    BY RankFacts
  <2> QED
    BY <1>3, <2>1, <2>2, SameRound
<1>5. \A r \in Ranks : r[1] = p =>
        /\ me(r) \in Locals /\ me(r).pc = "compute" /\ me(r).next_token = self[r].next_token
        /\ me(r).chunk = R[k].chunk /\ me(r).sequences = R[k].sequences
        /\ me(r).finished = R[k].finished
        /\ me(r).hidden = <<me(r).chunk, me(r).sequences>>
  <2> SUFFICES ASSUME NEW r \in Ranks, r[1] = p
               PROVE  /\ me(r) \in Locals /\ me(r).pc = "compute"
                      /\ me(r).next_token = self[r].next_token
                      /\ me(r).chunk = R[k].chunk /\ me(r).sequences = R[k].sequences
                      /\ me(r).finished = R[k].finished
                      /\ me(r).hidden = <<me(r).chunk, me(r).sequences>>
    OBVIOUS
  <2>1. /\ self[r] \in Locals /\ self[r].pc = "compute"
        /\ self[r].chunk = R[k].chunk /\ self[r].sequences = R[k].sequences
        /\ self[r].finished = R[k].finished
    BY <1>1, <1>3, <1>4 DEF LocatedAt
  <2>2. CASE p = 0
    <3>1. <<self[r].chunk, self[r].sequences>> \in (1..Chunks) \X Seq(Vectors)
      BY <2>1, LocalFacts
    <3> QED
      BY <2>1, <2>2, <3>1 DEF Locals
  <2>3. CASE p # 0
    <3>1. r[1] > 0
      BY <2>3, RankFacts
    <3>2. self[r].hidden = <<self[r].chunk, self[r].sequences>>
      BY <1>3, <2>1, <3>1 DEF InformedAt
    <3> QED
      BY <2>1, <2>3, <3>2
  <2> QED
    BY <2>2, <2>3
<1>6. /\ \A r \in Ranks :
           self'[r] = IF r[1] # p THEN self[r]
                      ELSE IF p = Last THEN after_forward(r, me(r)) ELSE [me(r) EXCEPT !.pc = "send"]
      /\ DOMAIN self' = Ranks /\ self' = [r \in Ranks |-> self'[r]]
  BY DEF Compute, Stage
<1> HIDE DEF k, me
<1>7. CASE p # Last
  <2> DEFINE qh == [r \in Ranks |-> IF r[1] = p THEN 2 ELSE ph[r]]
  <2>1. \A r \in Ranks : r[1] = p =>
          /\ self'[r] \in Locals /\ self'[r].pc = "send"
          /\ self'[r].chunk = R[k].chunk /\ self'[r].sequences = R[k].sequences
          /\ self'[r].finished = R[k].finished
          /\ self'[r].hidden = <<self'[r].chunk, self'[r].sequences>>
    <3> TAKE r \in Ranks
    <3> HAVE r[1] = p
    <3>1. self'[r] = [me(r) EXCEPT !.pc = "send"] /\ me(r) \in Locals /\ "send" \in Labels
      BY <1>5, <1>6, <1>7 DEF Labels, Waiting
    <3> QED
      BY <1>5, <3>1, PcSet
  <2>2. self' \in [Ranks -> Locals]
    BY <1>1, <1>6, <2>1
  <2>3. qh \in [Ranks -> 0..4] /\ \A r \in Ranks : qh[r] = IF r[1] = p THEN 2 ELSE ph[r]
    BY <1>3
  <2> HIDE DEF qh
  <2>7. /\ \A r \in Ranks : r[1] = p => ix[r] = k /\ qh[r] = 2
        /\ \A r \in Ranks : r[1] # p => ix[r] = ix[r] /\ qh[r] = ph[r]
        /\ \A r \in Ranks : r[1] = p => ix[r] = k /\ ph[r] = 1
        /\ \A r \in Ranks : ix[r] <= n
    BY <1>3, <1>4, <2>3
  <2>4. /\ Synced(R, ix, qh)
        /\ \A r \in Ranks : ix[r] >= ix[r] /\ (ix[r] = ix[r] => qh[r] >= ph[r])
    BY <1>3, <1>4, <2>3, <2>7, ComputeMove, SMTT(30)
  <2>5. \A r \in Ranks : LocatedAt(self'[r], R, ix[r], qh[r]) /\ InformedAt(r, self'[r], n, R, ix[r], qh[r])
    <3> TAKE r \in Ranks
    <3>1. CASE r[1] = p
      BY <1>4, <2>1, <2>3, <3>1 DEF LocatedAt, InformedAt
    <3>2. CASE r[1] # p
      BY <1>3, <1>6, <2>3, <3>2
    <3> QED
      BY <3>1, <3>2
  <2>6. Ghost(self', n, R, ix, qh)
    BY <1>3, <2>3, <2>4, <2>5, <2>7, GhostOn
  <2> QED
    BY <1>1, <2>2, <2>6 DEF Inv
<1>8. CASE p = Last /\ IsFull(R[k]) /\ R[k].chunk < Chunks
  <2>1. PICK m, S : /\ m \in Nat /\ Ghost(self, m, S, ix, ph) /\ k < m /\ S[k] = R[k]
                    /\ S[k + 1] = Roll(R[k])
    <3>1. IsFull(R[k]) /\ R[k].chunk < Chunks
      BY <1>8
    <3> QED
      BY <1>2, <1>3, <1>4, <3>1, RollKnown
  <2>2. /\ Track(m, S) /\ Places(m, S, ix, ph)
        /\ \A r \in Ranks :
             /\ ix[r] \in 1..m /\ ix[r] \in Nat /\ ph[r] \in 0..4
             /\ LocatedAt(self[r], S, ix[r], ph[r]) /\ InformedAt(r, self[r], m, S, ix[r], ph[r])
    BY <2>1, GhostFacts
  <2> DEFINE jx == [r \in Ranks |-> IF r[1] = p THEN k + 1 ELSE ix[r]]
             qh == [r \in Ranks |-> IF r[1] = p THEN start(r) ELSE ph[r]]
  <2>3. \A r \in Ranks : r[1] = p =>
          /\ self'[r] \in Locals
          /\ LocatedAt(self'[r], S, k + 1, start(r)) /\ InformedAt(r, self'[r], m, S, k + 1, start(r))
    <3> TAKE r \in Ranks
    <3> HAVE r[1] = p
    <3>1. self'[r] = after_forward(r, me(r)) /\ me(r) \in Locals
      BY <1>5, <1>6, <1>8
    <3>2. /\ me(r).chunk = S[k].chunk /\ me(r).sequences = S[k].sequences
          /\ me(r).finished = S[k].finished
          /\ S[k + 1] = Roll(S[k]) /\ IsFull(S[k]) /\ S[k].chunk < Chunks
      BY <1>5, <1>8, <2>1
    <3> QED
      BY <1>4, <2>1, <3>1, <3>2, ForwardPlace
  <2>4. self' \in [Ranks -> Locals]
    BY <1>1, <1>6, <2>3
  <2>5. /\ jx \in [Ranks -> Nat] /\ qh \in [Ranks -> 0..4]
        /\ \A r \in Ranks : jx[r] = IF r[1] = p THEN k + 1 ELSE ix[r]
        /\ \A r \in Ranks : qh[r] = IF r[1] = p THEN start(r) ELSE ph[r]
    BY <1>3, <1>4 DEF start
  <2> HIDE DEF jx, qh
  <2>6. IsFull(S[k])
    BY <1>8, <2>1
  <2>7. /\ Synced(S, jx, qh)
        /\ \A r \in Ranks : jx[r] >= ix[r] /\ (jx[r] = ix[r] => qh[r] >= ph[r])
    BY <1>4, <1>8, <2>1, <2>2, <2>5, <2>6, ComputeMove, SMTT(60)
  <2>8. \A r \in Ranks : LocatedAt(self'[r], S, jx[r], qh[r]) /\ InformedAt(r, self'[r], m, S, jx[r], qh[r])
    BY <1>6, <2>2, <2>3, <2>5
  <2>9. \A r \in Ranks : jx[r] <= m
    BY <1>4, <2>1, <2>2, <2>5
  <2>10. Ghost(self', m, S, jx, qh)
    BY <2>2, <2>5, <2>7, <2>8, <2>9, GhostOn
  <2> QED
    BY <1>1, <2>4, <2>10 DEF Inv
<1>9. CASE p = Last /\ ~(IsFull(R[k]) /\ R[k].chunk < Chunks)
  <2> DEFINE qh == [r \in Ranks |-> IF r[1] = p THEN 3 ELSE ph[r]]
  <2>1. \A r \in Ranks : r[1] = p =>
          /\ self'[r] \in Locals
          /\ LocatedAt(self'[r], R, k, 3) /\ InformedAt(r, self'[r], n, R, k, 3)
    <3> TAKE r \in Ranks
    <3> HAVE r[1] = p
    <3>1. self'[r] = after_forward(r, me(r)) /\ me(r) \in Locals
      BY <1>5, <1>6, <1>9
    <3>2. /\ me(r).chunk = R[k].chunk /\ me(r).sequences = R[k].sequences
          /\ me(r).finished = R[k].finished
      BY <1>5
    <3> QED
      BY <1>3, <1>4, <1>9, <3>1, <3>2, ForwardPlace
  <2>2. self' \in [Ranks -> Locals]
    BY <1>1, <1>6, <2>1
  <2>3. qh \in [Ranks -> 0..4] /\ \A r \in Ranks : qh[r] = IF r[1] = p THEN 3 ELSE ph[r]
    BY <1>3
  <2> HIDE DEF qh
  <2>7. /\ \A r \in Ranks : r[1] = p => ix[r] = k /\ qh[r] = 3
        /\ \A r \in Ranks : r[1] # p => ix[r] = ix[r] /\ qh[r] = ph[r]
        /\ \A r \in Ranks : r[1] = p => ix[r] = k /\ ph[r] = 1
        /\ \A r \in Ranks : ix[r] <= n
    BY <1>3, <1>4, <2>3
  <2>8. p = Last /\ \A r \in Ranks : r[1] = p => ix[r] = k /\ qh[r] = 3
    BY <1>9, <2>7
  <2>9. /\ \A r \in Ranks : r[1] # p => ix[r] = ix[r] /\ qh[r] = ph[r]
        /\ \A r \in Ranks : r[1] = p => ix[r] = k /\ ph[r] = 1
    BY <2>7
  <2>4. /\ Synced(R, ix, qh)
        /\ \A r \in Ranks : ix[r] >= ix[r] /\ (ix[r] = ix[r] => qh[r] >= ph[r])
    <3>1. Places(n, R, ix, ph) /\ ix \in [Ranks -> Nat] /\ k \in Nat
      BY <1>3, <1>4
    <3>2. \A r \in Ranks : ix[r] >= ix[r] /\ (ix[r] = ix[r] => qh[r] >= ph[r])
      BY <1>3, <2>3, <2>9
    <3>3. Synced(R, ix, qh)
      <4>1. /\ \A r \in Ranks : r[1] = Last => ix[r] = k /\ ph[r] = 1 /\ qh[r] = 3
            /\ \A r \in Ranks : r[1] # Last => qh[r] = ph[r]
        BY <2>8, <2>9
      <4> QED
        BY <1>3, <2>3, <3>1, <4>1, ComputeToken
    <3> QED
      BY <3>2, <3>3
  <2>5. \A r \in Ranks : LocatedAt(self'[r], R, ix[r], qh[r]) /\ InformedAt(r, self'[r], n, R, ix[r], qh[r])
    BY <1>3, <1>4, <1>6, <2>1, <2>3
  <2>6. Ghost(self', n, R, ix, qh)
    BY <1>3, <2>3, <2>4, <2>5, <2>7, GhostOn
  <2> QED
    BY <1>1, <2>2, <2>6 DEF Inv
<1> QED
  BY <1>7, <1>8, <1>9

LEMMA TransferStep ==
  ASSUME Inv, NEW p \in Stages, NEW t \in TPRanks, Transfer(p, t)
  PROVE  Inv'
<1> DEFINE from == <<p, t>>
           to == <<p + 1, t>>
<1>1. self \in [Ranks -> Locals] /\ faults' \subseteq Ranks /\ \A r \in Ranks : self[r] \in Locals
  BY DEF Inv, Transfer
<1>2. PICK n, R, ix, ph : Ghost(self, n, R, ix, ph)
  BY DEF Inv
<1>3. /\ n \in Nat /\ n >= 1 /\ R \in [Nat -> Position] /\ Track(n, R)
      /\ ix \in [Ranks -> Nat] /\ ph \in [Ranks -> 0..4]
      /\ Places(n, R, ix, ph)
      /\ \A r \in Ranks :
           /\ ix[r] \in 1..n /\ ix[r] \in Nat /\ ph[r] \in 0..4
           /\ R[ix[r]] \in Position
           /\ LocatedAt(self[r], R, ix[r], ph[r]) /\ InformedAt(r, self[r], n, R, ix[r], ph[r])
  BY <1>2, GhostFacts
<1>4. /\ from \in Ranks /\ to \in Ranks /\ from # to
      /\ to[1] = from[1] + 1 /\ to[2] = from[2]
  <2>1. p \in Nat /\ p + 1 \in Stages /\ p + 1 # p
    BY RolloutAssumption DEF Transfer, Stages, Last
  <2> QED
    BY <2>1, RankFacts
<1>5. self[from].pc = "send" /\ self[to].pc = "recv"
  BY DEF Transfer
<1>6. self' = [self EXCEPT ![from] = after_forward(from, self[from]),
                           ![to].pc = "compute", ![to].hidden = self[from].hidden]
  BY <1>1, <1>4 DEF Transfer
<1> DEFINE k == ix[from]
           you == [self[to] EXCEPT !.pc = "compute", !.hidden = self[from].hidden]
<1> HIDE DEF from, to
<1>7. /\ \A r \in Ranks : r # from /\ r # to => self'[r] = self[r]
      /\ self'[from] = after_forward(from, self[from]) /\ self'[to] = you
      /\ DOMAIN self' = Ranks /\ self' = [r \in Ranks |-> self'[r]]
  BY <1>1, <1>4, <1>6
<1>8. /\ k \in 1..n /\ k \in Nat /\ ix[from] = k /\ ph[from] = 2 /\ ph[to] = 0
  BY <1>3, <1>4, <1>5 DEF LocatedAt
<1>9. ix[to] = k
  BY <1>3, <1>4, <1>8, SameRound
<1>10. /\ self[from].chunk = R[k].chunk /\ self[from].sequences = R[k].sequences
       /\ self[from].finished = R[k].finished /\ self[from] \in Locals
       /\ self[from].hidden = <<R[k].chunk, R[k].sequences>>
  BY <1>1, <1>3, <1>4, <1>5, <1>8 DEF LocatedAt, InformedAt
<1>11. /\ self[to].chunk = R[k].chunk /\ self[to].sequences = R[k].sequences
       /\ self[to].finished = R[k].finished /\ self[to] \in Locals
  BY <1>1, <1>3, <1>4, <1>9 DEF LocatedAt
<1>12. /\ you \in Locals /\ you.pc = "compute" /\ you.chunk = R[k].chunk
       /\ you.sequences = R[k].sequences /\ you.finished = R[k].finished
       /\ you.hidden = <<you.chunk, you.sequences>>
  <2>1. self[from].hidden \in ((1..Chunks) \X Seq(Vectors)) \cup {NoTokens} /\ "compute" \in Labels
    BY <1>10, LocalFacts DEF Labels, Waiting
  <2> QED
    BY <1>10, <1>11, <2>1 DEF Locals
<1> HIDE DEF k, you
<1>13. \A m : LocatedAt(you, R, k, 1) /\ InformedAt(to, you, m, R, k, 1)
  BY <1>12 DEF LocatedAt, InformedAt
<1>14. CASE IsFull(R[k]) /\ R[k].chunk < Chunks
  <2>0. IsFull(R[k]) /\ R[k].chunk < Chunks
    BY <1>14
  <2>1. PICK m, S : /\ m \in Nat /\ Ghost(self, m, S, ix, ph) /\ k < m /\ S[k] = R[k]
                    /\ S[k + 1] = Roll(R[k])
    BY <1>2, <1>3, <1>8, <2>0, RollKnown
  <2>2. /\ Track(m, S) /\ Places(m, S, ix, ph)
        /\ \A r \in Ranks :
             /\ ix[r] \in 1..m /\ ix[r] \in Nat /\ ph[r] \in 0..4
             /\ LocatedAt(self[r], S, ix[r], ph[r]) /\ InformedAt(r, self[r], m, S, ix[r], ph[r])
    BY <2>1, GhostFacts
  <2> DEFINE jx == [r \in Ranks |-> IF r = from THEN k + 1 ELSE ix[r]]
             qh == [r \in Ranks |-> IF r = from THEN start(from) ELSE IF r = to THEN 1 ELSE ph[r]]
  <2>3. /\ self'[from] \in Locals
        /\ LocatedAt(self'[from], S, k + 1, start(from))
        /\ InformedAt(from, self'[from], m, S, k + 1, start(from))
    <3>1. /\ self[from].chunk = S[k].chunk /\ self[from].sequences = S[k].sequences
          /\ self[from].finished = S[k].finished
          /\ S[k + 1] = Roll(S[k]) /\ IsFull(S[k]) /\ S[k].chunk < Chunks
      BY <1>10, <2>0, <2>1
    <3> QED
      BY <1>4, <1>7, <1>8, <1>10, <2>1, <3>1, ForwardPlace
  <2>4. self' \in [Ranks -> Locals]
    BY <1>1, <1>7, <1>12, <2>3
  <2>5. /\ jx \in [Ranks -> Nat] /\ qh \in [Ranks -> 0..4]
        /\ jx[from] = k + 1 /\ qh[from] = start(from) /\ jx[to] = k /\ qh[to] = 1
        /\ \A r \in Ranks : r # from /\ r # to => jx[r] = ix[r] /\ qh[r] = ph[r]
    BY <1>3, <1>4, <1>8, <1>9 DEF start
  <2> HIDE DEF jx, qh
  <2>6. IsFull(S[k])
    BY <2>0, <2>1
  <2>7. /\ Synced(S, jx, qh)
        /\ \A r \in Ranks : jx[r] >= ix[r] /\ (jx[r] = ix[r] => qh[r] >= ph[r])
    BY <1>4, <1>8, <1>9, <2>1, <2>2, <2>5, <2>6, TransferMove
  <2>8. LocatedAt(you, S, k, 1) /\ InformedAt(to, you, m, S, k, 1)
    BY <1>12, <2>1 DEF LocatedAt, InformedAt
  <2>9. \A r \in Ranks : LocatedAt(self'[r], S, jx[r], qh[r]) /\ InformedAt(r, self'[r], m, S, jx[r], qh[r])
    BY <1>7, <2>2, <2>3, <2>5, <2>8
  <2>10. \A r \in Ranks : jx[r] <= m
    BY <1>8, <2>1, <2>2, <2>5
  <2>11. Ghost(self', m, S, jx, qh)
    BY <2>2, <2>5, <2>7, <2>9, <2>10, GhostOn
  <2> QED
    BY <1>1, <2>4, <2>11 DEF Inv
<1>15. CASE ~(IsFull(R[k]) /\ R[k].chunk < Chunks)
  <2>0. ~(IsFull(R[k]) /\ R[k].chunk < Chunks)
    BY <1>15
  <2> DEFINE qh == [r \in Ranks |-> IF r = from THEN 3 ELSE IF r = to THEN 1 ELSE ph[r]]
  <2>3. /\ self'[from] \in Locals
        /\ LocatedAt(self'[from], R, k, 3) /\ InformedAt(from, self'[from], n, R, k, 3)
    BY <1>3, <1>4, <1>7, <1>8, <1>10, <2>0, ForwardPlace
  <2>4. self' \in [Ranks -> Locals]
    BY <1>1, <1>7, <1>12, <2>3
  <2>5. /\ qh \in [Ranks -> 0..4] /\ qh[from] = 3 /\ qh[to] = 1
        /\ \A r \in Ranks : r # from /\ r # to => ix[r] = ix[r] /\ qh[r] = ph[r]
        /\ \A r \in Ranks : ix[r] <= n
    BY <1>3, <1>4
  <2> HIDE DEF qh
  <2>7. /\ Synced(R, ix, qh)
        /\ \A r \in Ranks : ix[r] >= ix[r] /\ (ix[r] = ix[r] => qh[r] >= ph[r])
    BY <1>3, <1>4, <1>8, <1>9, <2>5, TransferMove
  <2>9. \A r \in Ranks : LocatedAt(self'[r], R, ix[r], qh[r]) /\ InformedAt(r, self'[r], n, R, ix[r], qh[r])
    BY <1>3, <1>7, <1>8, <1>9, <1>13, <2>3, <2>5
  <2>11. Ghost(self', n, R, ix, qh)
    BY <1>3, <2>5, <2>7, <2>9, GhostOn
  <2> QED
    BY <1>1, <2>4, <2>11 DEF Inv
<1> QED
  BY <1>14, <1>15

\* The broadcast among the ranks of tp_rank 0 is what makes a position.
LEMMA TokenBroadcastStep ==
  ASSUME Inv, NEW t \in TPRanks, TokenBroadcast(t)
  PROVE  Inv'
<1>1. self \in [Ranks -> Locals] /\ faults' \subseteq Ranks /\ \A r \in Ranks : self[r] \in Locals
  BY DEF Inv, TokenBroadcast
<1>2. PICK n, R, ix, ph : Ghost(self, n, R, ix, ph)
  BY DEF Inv
<1>3. /\ n \in Nat /\ n >= 1 /\ R \in [Nat -> Position] /\ Track(n, R)
      /\ ix \in [Ranks -> Nat] /\ ph \in [Ranks -> 0..4]
      /\ Places(n, R, ix, ph)
      /\ \A r \in Ranks :
           /\ ix[r] \in 1..n /\ ix[r] \in Nat /\ ph[r] \in 0..4
           /\ R[ix[r]] \in Position
           /\ LocatedAt(self[r], R, ix[r], ph[r]) /\ InformedAt(r, self[r], n, R, ix[r], ph[r])
  BY <1>2, GhostFacts
<1> DEFINE k == ix[<<Last, t>>]
           X == self[<<Last, t>>].next_token
           qh == [r \in Ranks |-> IF r[2] = t THEN 4 ELSE ph[r]]
<1>4. <<Last, t>> \in Ranks /\ <<Last, t>>[2] = t /\ X \in Vectors
  <2>1. <<Last, t>> \in Ranks /\ <<Last, t>>[2] = t
    BY RankFacts
  <2> QED
    BY <1>1, <2>1, LocalFacts
<1>5. \A r \in Ranks : r[2] = t => ph[r] = 3 /\ ~IsFull(R[ix[r]])
  BY <1>3 DEF TokenBroadcast, PPGroup, LocatedAt
<1>6. /\ k \in 1..n /\ k \in Nat /\ ~IsFull(R[k])
      /\ \A r \in Ranks : r[2] = t => ph[r] = 3 /\ ix[r] = k
  BY <1>3, <1>4, <1>5, SameRound
<1>7. /\ qh \in [Ranks -> 0..4] /\ \A r \in Ranks : qh[r] = IF r[2] = t THEN 4 ELSE ph[r]
      /\ \A r \in Ranks : r[2] = t => ix[r] = k /\ ph[r] = 3 /\ qh[r] = 4
      /\ \A r \in Ranks : r[2] # t => qh[r] = ph[r]
      /\ \A r \in Ranks : ix[r] >= ix[r] /\ (ix[r] = ix[r] => qh[r] >= ph[r])
      /\ \A r \in Ranks : ix[r] <= n
  BY <1>3, <1>6
<1>8. /\ \A r \in Ranks :
           self'[r] = IF r[2] # t THEN self[r]
                      ELSE [self[r] EXCEPT !.pc = "tp_broadcast", !.next_token = X]
      /\ DOMAIN self' = Ranks /\ self' = [r \in Ranks |-> self'[r]]
  BY DEF TokenBroadcast, PPGroup, token_source
<1> HIDE DEF k, X, qh
<1>9. \A r \in Ranks : r[2] = t =>
        /\ self'[r] \in Locals /\ self'[r].pc = "tp_broadcast" /\ self'[r].next_token = X
        /\ self'[r].chunk = R[k].chunk /\ self'[r].sequences = R[k].sequences
        /\ self'[r].finished = R[k].finished
  <2> TAKE r \in Ranks
  <2> HAVE r[2] = t
  <2>1. /\ self[r].chunk = R[k].chunk /\ self[r].sequences = R[k].sequences
        /\ self[r].finished = R[k].finished /\ self[r] \in Locals
        /\ "tp_broadcast" \in Labels
    BY <1>1, <1>3, <1>6 DEF LocatedAt, Labels, Waiting
  <2>2. self'[r] = [self[r] EXCEPT !.pc = "tp_broadcast", !.next_token = X]
    BY <1>8
  <2> QED
    BY <1>4, <2>1, <2>2 DEF Locals
<1>10. self' \in [Ranks -> Locals]
  BY <1>1, <1>8, <1>9
<1>11. CASE t # 0
  <2>1. Synced(R, ix, ph)
    BY <1>3 DEF Places
  <2>2. Synced(R, ix, qh)
    BY <1>3, <1>6, <1>7, <2>1, TokenMove
  <2>3. \A r \in Ranks : LocatedAt(self'[r], R, ix[r], qh[r]) /\ InformedAt(r, self'[r], n, R, ix[r], qh[r])
    <3> TAKE r \in Ranks
    <3>1. CASE r[2] = t
      BY <1>6, <1>7, <1>9, <1>11, <3>1 DEF LocatedAt, InformedAt
    <3>2. CASE r[2] # t
      BY <1>3, <1>7, <1>8, <3>2
    <3> QED
      BY <3>1, <3>2
  <2>4. Ghost(self', n, R, ix, qh)
    BY <1>3, <1>7, <2>2, <2>3, GhostOn
  <2> QED
    BY <1>1, <1>10, <2>4 DEF Inv
<1>12. CASE t = 0
  <2>1. k = n
    <3>1. k < n => Past(ix, ph, <<Last, t>>, k, 4)
      BY <1>3, <1>4, <1>6, <1>12 DEF Places, Known
    <3> QED
      BY <1>3, <1>4, <1>6, <3>1 DEF Past
  <2> DEFINE S == [R EXCEPT ![n + 1] = Follow(R[n], X)]
  <2>2. Track(n + 1, S)
    BY <1>3, <1>4, <1>6, <2>1, TrackFollow
  <2>3. /\ n + 1 \in Nat /\ S[n + 1] = Follow(R[n], X)
        /\ \A j \in Nat : j # n + 1 => S[j] = R[j]
    BY <1>3
  <2> HIDE DEF S
  <2>4. Synced(S, ix, ph) /\ Located(self, S, ix, ph) /\ Informed(self, n + 1, S, ix, ph)
    <3>1. Located(self, R, ix, ph) /\ Informed(self, n, R, ix, ph)
      BY <1>2 DEF Ghost
    <3> QED
      BY <1>3, <2>3, <3>1, Longer
  <2>5. Synced(S, ix, qh)
    BY <1>3, <1>6, <1>7, <2>4, TokenMove
  <2>6. \A j \in 1..(n + 1) : j < n + 1 => S[j] = R[j] /\ j \in 1..n /\ (j = n \/ j < n)
    BY <1>3, <2>3
  <2>7. Known(n + 1, S, ix, qh)
    <3> SUFFICES ASSUME NEW j \in 1..(n + 1), j < n + 1, ~IsFull(S[j]), NEW r \in Ranks, r[2] = 0
                 PROVE  Past(ix, qh, r, j, 4)
      BY DEF Known
    <3>1. S[j] = R[j] /\ j \in 1..n /\ (j = n \/ j < n)
      BY <2>6
    <3>2. ix[r] = n /\ qh[r] = 4
      BY <1>7, <1>12, <2>1
    <3> QED
      BY <1>3, <3>1, <3>2 DEF Past
  <2>8. Places(n + 1, S, ix, qh)
    <3>1. \A r \in Ranks : ix[r] \in 1..(n + 1)
      BY <1>3
    <3> QED
      BY <1>3, <1>7, <2>5, <2>7, <3>1 DEF Places
  <2>9. S[k] = R[k] /\ S[k + 1] = Follow(S[k], X) /\ k < n + 1
    BY <1>3, <1>6, <2>1, <2>3
  <2>10. \A r \in Ranks : LocatedAt(self'[r], S, ix[r], qh[r]) /\ InformedAt(r, self'[r], n + 1, S, ix[r], qh[r])
    <3> TAKE r \in Ranks
    <3>1. CASE r[2] = t
      BY <1>6, <1>7, <1>9, <2>9, <3>1 DEF LocatedAt, InformedAt
    <3>2. CASE r[2] # t
      BY <1>7, <1>8, <2>4, <3>2 DEF Located, Informed
    <3> QED
      BY <3>1, <3>2
  <2>11. Ghost(self', n + 1, S, ix, qh)
    BY <2>2, <2>8, <2>10 DEF Ghost, Located, Informed
  <2> QED
    BY <1>1, <1>10, <2>11 DEF Inv
<1> QED
  BY <1>11, <1>12

\* The ranks of a stage append the token that their rank of tp_rank 0 has.
LEMMA TPBroadcastStep ==
  ASSUME Inv, NEW p \in Stages, TPBroadcast(p)
  PROVE  Inv'
<1>1. self \in [Ranks -> Locals] /\ faults' \subseteq Ranks /\ \A r \in Ranks : self[r] \in Locals
  BY DEF Inv, TPBroadcast
<1>2. PICK n, R, ix, ph : Ghost(self, n, R, ix, ph)
  BY DEF Inv
<1>3. /\ n \in Nat /\ n >= 1 /\ R \in [Nat -> Position] /\ Track(n, R)
      /\ ix \in [Ranks -> Nat] /\ ph \in [Ranks -> 0..4]
      /\ Places(n, R, ix, ph)
      /\ \A r \in Ranks :
           /\ ix[r] \in 1..n /\ ix[r] \in Nat /\ ph[r] \in 0..4
           /\ R[ix[r]] \in Position
           /\ LocatedAt(self[r], R, ix[r], ph[r]) /\ InformedAt(r, self[r], n, R, ix[r], ph[r])
  BY <1>2, GhostFacts
<1> DEFINE source == <<p, 0>>
           k == ix[source]
           X == self[source].next_token
           v(r) == pad_finished(X, self[r].finished)
           a(r) == [self[r] EXCEPT !.next_token = v(r), !.sequences = Append(@, v(r)),
                                   !.finished = apply_stop_mask(@, v(r))]
           jx == [r \in Ranks |-> IF r[1] = p THEN k + 1 ELSE ix[r]]
           qh == [r \in Ranks |-> IF r[1] = p THEN start(r) ELSE ph[r]]
<1>4. source \in Ranks /\ source[1] = p /\ source[2] = 0 /\ X \in Vectors
  <2>1. source \in Ranks /\ source[1] = p /\ source[2] = 0
    BY RankFacts
  <2> QED
    BY <1>1, <2>1, LocalFacts
<1>5. \A r \in Ranks :
        self'[r] = IF r[1] # p THEN self[r]
                   ELSE IF a(r).finished = Rows THEN next_chunk(r, a(r))
                   ELSE [a(r) EXCEPT !.pc = forward_of(r)]
  BY DEF TPBroadcast, Stage, tp_source
<1>6. DOMAIN self' = Ranks /\ self' = [r \in Ranks |-> self'[r]]
  BY DEF TPBroadcast
<1> HIDE DEF source, X, v, jx, qh
<1>7. \A r \in Ranks : r[1] = p => ph[r] = 4 /\ ~IsFull(R[ix[r]])
  BY <1>3 DEF TPBroadcast, Stage, LocatedAt
<1>8. /\ k \in 1..n /\ k \in Nat
      /\ \A r \in Ranks : r[1] = p => ix[r] = k /\ ph[r] = 4
  BY <1>3, <1>4, <1>7, SameRound
<1>9. k < n /\ R[k + 1] = Follow(R[k], X)
  BY <1>3, <1>4, <1>8 DEF InformedAt, X
<1> HIDE DEF k
<1>10. ASSUME NEW r \in Ranks, r[1] = p
       PROVE  /\ self'[r] \in Locals
              /\ LocatedAt(self'[r], R, k + 1, start(r)) /\ InformedAt(r, self'[r], n, R, k + 1, start(r))
  <2>1. /\ self[r] \in Locals /\ self[r].chunk = R[k].chunk
        /\ self[r].sequences = R[k].sequences /\ self[r].finished = R[k].finished
    BY <1>1, <1>3, <1>8, <1>10 DEF LocatedAt
  <2>2. v(r) \in Vectors
    BY <1>4, <2>1, LocalFacts, PadTypes DEF v
  <2>3. /\ Append(self[r].sequences, v(r)) \in Seq(Vectors)
        /\ apply_stop_mask(self[r].finished, v(r)) \in SUBSET Rows
    BY <2>1, <2>2, LocalFacts DEF apply_stop_mask
  <2>4. /\ a(r) \in Locals /\ a(r).chunk = self[r].chunk
        /\ a(r).sequences = Append(self[r].sequences, v(r))
        /\ a(r).finished = apply_stop_mask(self[r].finished, v(r))
    BY <2>1, <2>2, <2>3 DEF Locals
  <2>5. self'[r] = IF a(r).finished = Rows THEN next_chunk(r, a(r))
                   ELSE [a(r) EXCEPT !.pc = forward_of(r)]
    BY <1>5, <1>10
  <2>6. v(r) = pad_finished(X, self[r].finished)
    BY DEF v
  <2> HIDE DEF a
  <2>7. forward_of(r) \in Labels
    BY DEF forward_of, Labels, Waiting
  <2>8. a(r).finished # Rows =>
          /\ self'[r] \in Locals
          /\ self'[r].chunk = a(r).chunk /\ self'[r].sequences = a(r).sequences
          /\ self'[r].finished = a(r).finished /\ self'[r].pc = forward_of(r)
    BY <2>4, <2>5, <2>7, PcSet
  <2>9. a(r).finished = Rows => self'[r] = next_chunk(r, a(r)) /\ self'[r] \in Locals
    BY <2>4, <2>5, NextChunk
  <2>10. self'[r] \in Locals
    BY <2>8, <2>9
  <2>11. LocatedAt(self'[r], R, k + 1, start(r)) /\ InformedAt(r, self'[r], n, R, k + 1, start(r))
    <3> DEFINE me == self[r]
               b == a(r)
               s == self'[r]
               w == v(r)
    <3>1. /\ me \in Locals /\ b \in Locals /\ s \in Locals /\ X \in Vectors
          /\ w = pad_finished(X, me.finished)
          /\ b.chunk = me.chunk /\ b.sequences = Append(me.sequences, w)
          /\ b.finished = apply_stop_mask(me.finished, w)
      BY <1>4, <2>1, <2>4, <2>6, <2>10
    <3>2. b.finished = Rows => s = next_chunk(r, b)
      BY <2>9
    <3>3. b.finished # Rows =>
            /\ s.chunk = b.chunk /\ s.sequences = b.sequences /\ s.finished = b.finished
            /\ s.pc = forward_of(r)
      BY <2>8
    <3>4. /\ me.chunk = R[k].chunk /\ me.sequences = R[k].sequences
          /\ me.finished = R[k].finished /\ R[k + 1] = Follow(R[k], X)
          /\ n \in Nat /\ k \in Nat
      BY <1>3, <1>8, <1>9, <2>1
    <3> HIDE DEF me, b, s, w
    <3>5. LocatedAt(s, R, k + 1, start(r)) /\ InformedAt(r, s, n, R, k + 1, start(r))
      BY <3>1, <3>2, <3>3, <3>4, AppendPlace
    <3> QED
      BY <3>5 DEF s
  <2> QED
    BY <2>10, <2>11
<1>11. \A r \in Ranks : r[1] # p => self'[r] = self[r]
  BY <1>5
<1>12. self' \in [Ranks -> Locals]
  BY <1>1, <1>6, <1>10, <1>11
<1>13. /\ jx \in [Ranks -> Nat] /\ qh \in [Ranks -> 0..4]
       /\ \A r \in Ranks : jx[r] = IF r[1] = p THEN k + 1 ELSE ix[r]
       /\ \A r \in Ranks : qh[r] = IF r[1] = p THEN start(r) ELSE ph[r]
  BY <1>3, <1>8 DEF start, jx, qh
<1>14. Synced(R, jx, qh)
  <2>1. \A r \in Ranks : r[1] = p =>
          ix[r] = k /\ ph[r] = 4 /\ jx[r] = k + 1 /\ qh[r] = start(r)
    BY <1>8, <1>13
  <2>2. \A r \in Ranks : r[1] # p => jx[r] = ix[r] /\ qh[r] = ph[r]
    BY <1>13
  <2>3. /\ n \in Nat /\ k \in Nat /\ Places(n, R, ix, ph)
        /\ jx \in [Ranks -> Nat] /\ qh \in [Ranks -> 0..4]
    BY <1>3, <1>8, <1>13
  <2> QED
    BY <2>1, <2>2, <2>3, AppendMove, SMTT(60)
<1>15. /\ \A r \in Ranks : jx[r] >= ix[r] /\ (jx[r] = ix[r] => qh[r] >= ph[r])
       /\ \A r \in Ranks : jx[r] <= n
  BY <1>3, <1>8, <1>9, <1>13
<1>16. \A r \in Ranks : LocatedAt(self'[r], R, jx[r], qh[r]) /\ InformedAt(r, self'[r], n, R, jx[r], qh[r])
  BY <1>3, <1>10, <1>11, <1>13
<1>17. Ghost(self', n, R, jx, qh)
  BY <1>3, <1>13, <1>14, <1>15, <1>16, GhostOn
<1> QED
  BY <1>1, <1>12, <1>17 DEF Inv

LEMMA InvNext == Inv /\ [Next]_vars => Inv'
<1> SUFFICES ASSUME Inv, [Next]_vars PROVE Inv'
  OBVIOUS
<1>1. ASSUME NEW p \in Stages, Compute(p) PROVE Inv'
  BY <1>1, ComputeStep
<1>2. ASSUME NEW p \in Stages, TPBroadcast(p) PROVE Inv'
  BY <1>2, TPBroadcastStep
<1>3. ASSUME NEW p \in Stages, NEW t \in TPRanks, Transfer(p, t) PROVE Inv'
  BY <1>3, TransferStep
<1>4. ASSUME NEW t \in TPRanks, TokenBroadcast(t) PROVE Inv'
  BY <1>4, TokenBroadcastStep
<1>5. ASSUME NEW r \in Ranks, Sample(r) PROVE Inv'
  BY <1>5, SampleStep
<1>6. CASE \/ \E r \in Ranks, how \in {"raised", "hung"} : Fail(r, how)
           \/ \E r \in Ranks : Timeout(r) \/ WatchdogFires(r) \/ Abort(r)
           \/ Reap
  BY <1>6, FailureSteps
<1>7. CASE UNCHANGED vars
  BY <1>7 DEF vars, Inv
<1> QED
  BY <1>1, <1>2, <1>3, <1>4, <1>5, <1>6, <1>7 DEF Next, Progress

THEOREM Invariant == Spec => []Inv
BY InvInit, InvNext, PTL DEF Spec

-----------------------------------------------------------------------------
(* What follows.                                                           *)

\* Types, and the limit on the tokens of a row: the loop (_generate_tokens) takes no token
\* after max_new_tokens, whichever rank has sampled it.
THEOREM Typing == Spec => []TypeOK
<1>1. Inv => TypeOK
  <2> SUFFICES ASSUME Inv PROVE TypeOK
    OBVIOUS
  <2>1. PICK n, R, ix, ph : Ghost(self, n, R, ix, ph)
    BY DEF Inv
  <2>2. ASSUME NEW r \in Ranks PROVE Len(self[r].sequences) <= max_new_tokens
    BY <2>1, GhostFacts DEF LocatedAt, Track, Padded
  <2> QED
    BY <2>2 DEF Inv, TypeOK
<1> QED
  BY <1>1, Invariant, PTL

\* Of two positions of a track in the same chunk, one continues the other.
LEMMA OneContinues ==
  ASSUME NEW n, NEW R, Track(n, R), NEW i \in 1..n, NEW j \in 1..n, R[i].chunk = R[j].chunk
  PROVE  Continues(R[j].sequences, R[i].sequences) \/ Continues(R[i].sequences, R[j].sequences)
<1>1. n \in Nat /\ (i <= j \/ j <= i)
  BY DEF Track
<1> QED
  BY <1>1 DEF Track

LEMMA PrefixFacts ==
  ASSUME NEW s \in Seq(Vectors), NEW t \in Seq(Vectors), Continues(t, s)
  PROVE  SX!IsPrefix(s, t)
<1>1. Len(s) <= Len(t) /\ Len(s) \in Nat /\ Len(t) \in Nat /\ \A i \in 1..Len(s) : t[i] = s[i]
  BY DEF Continues
<1>2. SubSeq(s, 1, Len(s)) = SubSeq(t, 1, Len(s))
  BY <1>1
<1> QED
  BY <1>1, <1>2 DEF SX!IsPrefix

\* All ranks of a replica generate the same tokens, although every tensor-parallel rank of
\* the last stage samples its own (_next_token_from_logits): for any number of stages and
\* of tensor-parallel ranks, and whatever fails, the broadcast in the pp_groups and then in
\* the tp_groups (_broadcast_and_pad_finished) leaves one sequence of tokens, in which a row
\* holds only padding after its first stop token.
THEOREM SameTokens == Spec => []SameSequences
<1>1. Inv => SameSequences
  <2> SUFFICES ASSUME Inv PROVE SameSequences
    OBVIOUS
  <2>1. PICK n, R, ix, ph : Ghost(self, n, R, ix, ph)
    BY DEF Inv
  <2>2. /\ Track(n, R)
        /\ \A r \in Ranks :
             /\ ix[r] \in 1..n /\ R[ix[r]] \in Position /\ Padded(R[ix[r]])
             /\ LocatedAt(self[r], R, ix[r], ph[r])
    BY <2>1, GhostFacts DEF Track
  <2>3. ASSUME NEW r \in Ranks
        PROVE  LET s == self[r].sequences
                   stopped(row, k) == \E i \in 1..k : s[i][row] \in stop_token_ids
               IN /\ \A k \in DOMAIN s, row \in Rows : stopped(row, k - 1) => s[k][row] = pad_token_id
                  /\ self[r].pc = "done" => Len(s) = max_new_tokens \/ \A row \in Rows : stopped(row, Len(s))
    <3> DEFINE e == R[ix[r]]
               s == self[r].sequences
               stopped(row, k) == \E i \in 1..k : s[i][row] \in stop_token_ids
    <3>1. /\ s = e.sequences /\ e \in Position /\ Padded(e)
          /\ self[r].pc = "done" => IsFull(e) \/ e.finished = Rows
      BY <2>2 DEF LocatedAt
    <3>2. s \in Seq(Vectors) /\ Len(s) \in Nat /\ DOMAIN s = 1..Len(s)
      BY <3>1, PositionFacts
    <3> HIDE DEF e, s
    <3>3. ASSUME NEW k \in DOMAIN s, NEW row \in Rows, NEW i \in 1..(k - 1), s[i][row] \in stop_token_ids
          PROVE  s[k][row] = pad_token_id
      <4>1. i \in 1..Len(s) /\ k \in 1..Len(s) /\ i < k
        BY <3>2, <3>3
      <4> QED
        BY <3>1, <3>3, <4>1 DEF Padded
    <3>4. self[r].pc = "done" => Len(s) = max_new_tokens \/ \A row \in Rows : stopped(row, Len(s))
      BY <3>1 DEF IsFull, Padded
    <3> QED
      BY <3>3, <3>4 DEF s
  <2>4. RowsEndOnce
    BY <2>3 DEF RowsEndOnce
  <2>5. ASSUME NEW r \in Ranks, NEW q \in Ranks, self[r].chunk = self[q].chunk
        PROVE  \/ SX!IsPrefix(self[r].sequences, self[q].sequences)
               \/ SX!IsPrefix(self[q].sequences, self[r].sequences)
    <3>1. /\ self[r].sequences = R[ix[r]].sequences /\ self[q].sequences = R[ix[q]].sequences
          /\ R[ix[r]].chunk = R[ix[q]].chunk
      BY <2>2, <2>5 DEF LocatedAt
    <3>2. \/ Continues(R[ix[r]].sequences, R[ix[q]].sequences)
          \/ Continues(R[ix[q]].sequences, R[ix[r]].sequences)
      BY <2>2, <3>1, OneContinues
    <3>3. R[ix[r]].sequences \in Seq(Vectors) /\ R[ix[q]].sequences \in Seq(Vectors)
      BY <2>2, PositionFacts
    <3> QED
      BY <3>1, <3>2, <3>3, PrefixFacts
  <2> QED
    BY <2>4, <2>5 DEF SameSequences
<1> QED
  BY <1>1, Invariant, PTL

\* A stage computes on the hidden state of the tokens that it has itself: the messages of
\* fwd_send carry no tag, and the neighbours that meet in one are in the same round of the
\* same chunk, through every failure.
THEOREM Hidden == Spec => []HiddenForTokens
<1>1. Inv => HiddenForTokens
  <2> SUFFICES ASSUME Inv PROVE HiddenForTokens
    OBVIOUS
  <2>1. PICK n, R, ix, ph : Ghost(self, n, R, ix, ph)
    BY DEF Inv
  <2>2. \A r \in Ranks : InformedAt(r, self[r], n, R, ix[r], ph[r])
    BY <2>1, GhostFacts
  <2> QED
    BY <2>2 DEF InformedAt, HiddenForTokens
<1> QED
  BY <1>1, Invariant, PTL
====
