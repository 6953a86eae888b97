---- MODULE EpochLedger ----
(***************************************************************************)
(* What the epochs of a training run promise, whatever the queues, the     *)
(* optimizer steps and the restarts: every epoch takes every sample once,  *)
(* in the epoch's order, and a restart goes on from where a checkpoint     *)
(* left the ledger.                                                        *)
(***************************************************************************)
EXTENDS Integers

CONSTANTS Samples, MaxEpochs, Order

VARIABLES
  ledger, \* how often each sample was taken in each epoch
  saved   \* the ledger of the newest checkpoint

vars == <<ledger, saved>>

Epochs == 0..(MaxEpochs - 1)

Init ==
  /\ ledger = [k \in Epochs \X Samples |-> 0]
  /\ saved = ledger

\* The i-th sample of epoch e is taken after all samples before it.
Take(e, i) ==
  /\ ledger[<<e, Order[e][i]>>] = 0
  /\ \A d \in Epochs : \A j \in DOMAIN Order[d] :
       (d < e \/ (d = e /\ j < i)) => ledger[<<d, Order[d][j]>>] = 1
  /\ ledger' = [ledger EXCEPT ![<<e, Order[e][i]>>] = 1]
  /\ saved' \in {saved, ledger'}

Save == saved' = ledger /\ UNCHANGED ledger

Resume == ledger' = saved /\ UNCHANGED saved

Next ==
  \/ \E e \in Epochs : \E i \in DOMAIN Order[e] : Take(e, i)
  \/ Save
  \/ Resume

Spec == Init /\ [][Next]_vars

=============================================================================
