---- MODULE MCSFTTrainer ----
(***************************************************************************)
(* Small instances of SFTTrainer for TLC.                                  *)
(***************************************************************************)
EXTENDS SFTTrainer

\* Two different permutations of n places: reversal in even epochs, rotation in
\* odd ones.
MCShuffle ==
  [e \in Epochs |-> [n \in 1..samples |-> [i \in 1..n |->
     IF e % 2 = 0 THEN n + 1 - i ELSE (i % n) + 1]]]

=============================================================================
