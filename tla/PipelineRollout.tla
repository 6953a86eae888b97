---- MODULE PipelineRollout ----
(***************************************************************************)
(* Generation of completions by one replica: the token loop that all ranks *)
(* of its stages run for one chunk of prompts after the other              *)
(* (adapters/models/qwen35_36/generation.py), with what ends it when a     *)
(* rank fails or hangs: the bounded waits of parallel/pipeline_comm.py and *)
(* the watchdog of parallel/rendezvous_watchdog.py.                        *)
(*                                                                         *)
(* A rank is <<stage, tp_rank>>.  Every tensor-parallel rank of the last   *)
(* stage samples for itself, from a random state of its own; the tokens    *)
(* become one by two broadcasts.                                           *)
(***************************************************************************)
EXTENDS Integers, Sequences, FiniteSets

SX == INSTANCE SequencesExt

CONSTANTS
  pp_size, tp_size,
  Rows,                  \* the rows of a chunk: its prompts, once for each rollout
  Chunks,                \* number of chunks
  Tokens,                \* the vocabulary
  stop_token_ids,        \* the tokens that end a row
  pad_token_id,
  zero_token,            \* what torch.zeros holds
  max_new_tokens,
  pp_rollout_p2p_timeout, \* whether pp_rollout_p2p_timeout_sec > 0
  MaxFaults,             \* bound: ranks that fail by themselves
  NoTokens               \* no hidden state yet

ASSUME RolloutAssumption ==
  /\ pp_size \in Nat \ {0} /\ tp_size \in Nat \ {0}
  /\ Chunks \in Nat \ {0} /\ max_new_tokens \in Nat \ {0}
  /\ stop_token_ids \subseteq Tokens /\ stop_token_ids # {}
  /\ zero_token \in Tokens
  /\ pp_rollout_p2p_timeout \in BOOLEAN
  /\ MaxFaults \in Nat

Stages  == 0..(pp_size - 1)
TPRanks == 0..(tp_size - 1)
Ranks   == Stages \X TPRanks
Last    == pp_size - 1

Stage(p)   == {r \in Ranks : r[1] = p}   \* tp_group
PPGroup(t) == {r \in Ranks : r[2] = t}   \* pp_group

AnyToken == Tokens \cup {pad_token_id}
Vectors  == [Rows -> AnyToken]           \* one token for every row

VARIABLES
  self,   \* self[r]: the local variables of rank r
  faults  \* the ranks that failed by themselves

vars == <<self, faults>>

\* Where a rank is.  It waits for others in those of Waiting.
Waiting == {"recv", "compute", "send", "token_broadcast", "tp_broadcast"}
Labels  == Waiting \cup {"sample", "hung", "raised", "exited", "done"}

\* sequences: the tokens generated so far.  hidden: the tokens of stage 0 that the
\* hidden state at hand was computed from.
Locals ==
  [pc : Labels, chunk : 1..Chunks, sequences : Seq(Vectors), finished : SUBSET Rows,
   next_token : Vectors, hidden : ((1..Chunks) \X Seq(Vectors)) \cup {NoTokens}]

\* The first thing that the forward pass of a rank does.
forward_of(r) == IF r[1] = 0 THEN "compute" ELSE "recv"

zeros == [row \in Rows |-> zero_token]

Init ==
  /\ self = [r \in Ranks |->
       [pc |-> forward_of(r), chunk |-> 1, sequences |-> <<>>, finished |-> {},
        next_token |-> zeros, hidden |-> NoTokens]]
  /\ faults = {}

-----------------------------------------------------------------------------
(* The token loop *)

loop_done(me) == Len(me.sequences) = max_new_tokens

\* The chunk is generated: the next one, or the end.
next_chunk(r, me) ==
  IF me.chunk < Chunks
  THEN [me EXCEPT !.chunk = @ + 1, !.sequences = <<>>, !.finished = {}, !.pc = forward_of(r)]
  ELSE [me EXCEPT !.pc = "done"]

\* After a forward pass, of the prompts or of the last token.
after_forward(r, me) ==
  IF loop_done(me) THEN next_chunk(r, me)
  ELSE IF r[1] = Last THEN [me EXCEPT !.pc = "sample"]
  ELSE [me EXCEPT !.pc = "token_broadcast", !.next_token = zeros]

\* forward_stage: the tensor-parallel ranks of a stage compute together.  Only stage 0
\* reads the tokens.
Compute(p) ==
  /\ \A r \in Stage(p) : self[r].pc = "compute"
  /\ self' = [r \in Ranks |->
       IF r \notin Stage(p) THEN self[r]
       ELSE LET me == IF p = 0 THEN [self[r] EXCEPT !.hidden = <<self[r].chunk, self[r].sequences>>]
                      ELSE self[r]
            IN IF p = Last THEN after_forward(r, me) ELSE [me EXCEPT !.pc = "send"]]
  /\ UNCHANGED faults

\* fwd_send and fwd_recv between neighbours of the same tp_rank; the sender waits for its
\* send (comm.wait_all) before it goes on.
Transfer(p, t) ==
  LET from == <<p, t>>
      to   == <<p + 1, t>>
  IN /\ p < Last
     /\ self[from].pc = "send" /\ self[to].pc = "recv"
     /\ self' = [self EXCEPT ![from] = after_forward(from, @),
                             ![to].pc = "compute", ![to].hidden = self[from].hidden]
     /\ UNCHANGED faults

\* _next_token_from_logits: any token for any row.
Sample(r) ==
  /\ self[r].pc = "sample"
  /\ \E tokens \in [Rows -> Tokens] :
       self' = [self EXCEPT ![r].next_token = tokens, ![r].pc = "token_broadcast"]
  /\ UNCHANGED faults

\* Variant: the group is taken for a group of one.
token_source_self(r) == r

\* _pp_generation_last_stage_rank.
token_source(r) == <<Last, r[2]>>

\* bounded_broadcast in pp_group.
TokenBroadcast(t) ==
  /\ \A r \in PPGroup(t) : self[r].pc = "token_broadcast"
  /\ self' = [r \in Ranks |->
       IF r \notin PPGroup(t) THEN self[r]
       ELSE [self[r] EXCEPT !.pc = "tp_broadcast",
                            !.next_token = self[token_source(r)].next_token]]
  /\ UNCHANGED faults

\* Variant: the broadcast is skipped.
tp_source_self(r) == r

\* The source of the broadcast in tp_group.
tp_source(r) == <<r[1], 0>>

pad_finished(tokens, finished) ==
  [row \in Rows |-> IF row \in finished THEN pad_token_id ELSE tokens[row]]

apply_stop_mask(finished, tokens) ==
  finished \cup {row \in Rows : tokens[row] \in stop_token_ids}

\* _broadcast_and_pad_finished, and the rest of the loop's body: append the token, mark the
\* finished rows, and leave the loop or go into the forward pass of that token.
TPBroadcast(p) ==
  /\ \A r \in Stage(p) : self[r].pc = "tp_broadcast"
  /\ self' = [r \in Ranks |->
       IF r \notin Stage(p) THEN self[r]
       ELSE LET tokens == pad_finished(self[tp_source(r)].next_token, self[r].finished)
                me == [self[r] EXCEPT !.next_token = tokens,
                                      !.sequences = Append(@, tokens),
                                      !.finished = apply_stop_mask(@, tokens)]
            IN IF me.finished = Rows THEN next_chunk(r, me)
               ELSE [me EXCEPT !.pc = forward_of(r)]]
  /\ UNCHANGED faults

-----------------------------------------------------------------------------
(* Failures *)

\* Out of memory in a forward pass: an exception, or a call that never returns.
Fail(r, how) ==
  /\ self[r].pc = "compute"
  /\ Cardinality(faults) < MaxFaults
  /\ self' = [self EXCEPT ![r].pc = how]
  /\ faults' = faults \cup {r}

\* The time limits are far longer than any wait in a job without faults: they are only
\* reached in one with a fault.
time_is_up(r) == faults # {} /\ self[r].pc \in Waiting \cup {"hung"}

\* PipelineP2PTimeoutError, of the waits that have a limit.
Timeout(r) ==
  /\ pp_rollout_p2p_timeout
  /\ time_is_up(r)
  /\ self[r].pc \in {"recv", "send", "token_broadcast"}
  /\ self' = [self EXCEPT ![r].pc = "raised"]
  /\ UNCHANGED faults

\* Variant: disarmed with the first chunk.
armed_once(r) == self[r].chunk = 1 /\ self[r].pc \in Waiting \cup {"sample", "hung"}

\* The watchdog is armed before the first chunk and disarmed after the last one, and when
\* an exception leaves the loop.
armed(r) == self[r].pc \in Waiting \cup {"sample", "hung"}

\* _default_on_stall: an exception in the main thread, for which a call that never returns
\* has no ear, or os._exit after the grace period.
WatchdogFires(r) ==
  /\ armed(r)
  /\ time_is_up(r)
  /\ \E how \in {"raised", "exited"} :
       /\ self[r].pc = "hung" => how = "exited"
       /\ self' = [self EXCEPT ![r].pc = how]
  /\ UNCHANGED faults

\* The exception leaves train(): _abort_distributed, and the process ends.
Abort(r) ==
  /\ self[r].pc = "raised"
  /\ self' = [self EXCEPT ![r].pc = "exited"]
  /\ UNCHANGED faults

\* torchrun stops the other ranks when one has exited.
Reap ==
  /\ \E r \in Ranks : self[r].pc = "exited"
  /\ \E r \in Ranks : self[r].pc # "exited"
  /\ self' = [r \in Ranks |-> [self[r] EXCEPT !.pc = "exited"]]
  /\ UNCHANGED faults

Progress ==
  \/ \E p \in Stages : Compute(p) \/ TPBroadcast(p) \/ \E t \in TPRanks : Transfer(p, t)
  \/ \E t \in TPRanks : TokenBroadcast(t)
  \/ \E r \in Ranks : Sample(r) \/ Timeout(r) \/ WatchdogFires(r) \/ Abort(r)
  \/ Reap

Next == Progress \/ \E r \in Ranks, how \in {"raised", "hung"} : Fail(r, how)

\* What can go on does; no rank has to fail.
Spec == Init /\ [][Next]_vars /\ WF_vars(Progress)

-----------------------------------------------------------------------------
(* Properties *)

\* Types; no row has more than max_new_tokens.
TypeOK ==
  /\ self \in [Ranks -> Locals]
  /\ \A r \in Ranks : Len(self[r].sequences) <= max_new_tokens
  /\ faults \subseteq Ranks

\* A row holds nothing but padding after its first stop token, while other rows go on, and
\* a rank leaves the last chunk only when every row has stopped or has max_new_tokens.
RowsEndOnce ==
  \A r \in Ranks :
    LET s == self[r].sequences
        stopped(row, n) == \E i \in 1..n : s[i][row] \in stop_token_ids
    IN /\ \A n \in DOMAIN s, row \in Rows : stopped(row, n - 1) => s[n][row] = pad_token_id
       /\ self[r].pc = "done" => Len(s) = max_new_tokens \/ \A row \in Rows : stopped(row, Len(s))

\* All ranks of the replica generate the same tokens, although each tensor-parallel rank of
\* the last stage has sampled its own: of two ranks in the same chunk, the tokens of one
\* continue those of the other; and their rows end once.
SameSequences ==
  /\ RowsEndOnce
  /\ \A r, q \in Ranks :
       self[r].chunk = self[q].chunk =>
         \/ SX!IsPrefix(self[r].sequences, self[q].sequences)
         \/ SX!IsPrefix(self[q].sequences, self[r].sequences)

\* A stage computes on the hidden state of the tokens that it has itself: messages carry no
\* tag, and none is left over from an earlier token or chunk.
HiddenForTokens ==
  \A r \in Ranks :
    self[r].pc = "compute" /\ r[1] > 0 => self[r].hidden = <<self[r].chunk, self[r].sequences>>

\* Whatever fails or hangs, and with whatever waits bounded, no rank waits for ever.
RolloutEnds == <>(\A r \in Ranks : self[r].pc \in {"done", "exited"})
====
