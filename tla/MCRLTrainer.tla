---- MODULE MCRLTrainer ----
(***************************************************************************)
(* Small instances of RLTrainer for TLC.  Rewards are in tenths of the     *)
(* perfect-skip threshold, with 1 unit within the rounding tolerance.      *)
(***************************************************************************)
EXTENDS RLTrainer

CONSTANT DatasetSize

MCSamples == 1..DatasetSize

\* Epoch e starts e samples further on, so that the two orders differ.
MCOrder == [e \in Epochs |-> [i \in MCSamples |-> ((i + e - 1) % DatasetSize) + 1]]

G(r1, r2, c1, c2, bad) ==
  [rewards |-> <<r1, r2>>, content |-> <<c1, c2>>, parse_errors |-> <<bad, bad>>]

\* One group for each way through classify_group and _finalize_sample: perfect,
\* best correct, preference gap, gap within rounding, equal rewards, and equal
\* rewards of unparseable completions.
MCGroups ==
  {G(10, 10, 10, 10, FALSE), G(0, 10, 0, 10, FALSE), G(2, 6, 2, 6, FALSE),
   G(5, 6, 5, 6, FALSE), G(5, 5, 5, 5, FALSE), G(5, 5, 0, 0, TRUE)}

=============================================================================
