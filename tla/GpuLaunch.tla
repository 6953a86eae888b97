---- MODULE GpuLaunch ----
(***************************************************************************)
(* Launches of trainings on a machine with several GPUs: run.sh picks or   *)
(* takes cards and checks them on the host, the container runtime shows    *)
(* the container some cards under new numbers, `graspo launch` checks      *)
(* again, clears the output directory and starts the workers, each worker  *)
(* checks again and takes the card of its local rank.  Other work comes    *)
(* and goes on the cards meanwhile, and gpu_monitor samples them.          *)
(*                                                                         *)
(* External, modelled from how the code relies on it: docker and its GPU   *)
(* runtime, torchrun (which stops all workers when one fails), nvidia-smi, *)
(* and the work of others.                                                 *)
(***************************************************************************)
EXTENDS GpuGuard, FiniteSets, FiniteSetsExt

CONSTANTS
  None,      \* not set
  Machines,  \* machines explored, each the numbers of its cards
  Launches,  \* names of the launches explored
  Recipes    \* ways to launch explored, see IsRecipe

\* What the operator asks for: cards (or Word("unset"): pick them), an idleness check
\* first, how the cards reach the workers, and of the configuration the backend, the
\* processes asked for and those that the parallel sizes need.
\*   way "void": the runtime narrows the cards and writes void into the variable,
\*       "list": it narrows them and leaves the list,
\*       "open": the recipe lost its cards on the way, all are visible, with void,
\*       "all" : the same with the variable's value of the image,
\*       "host": no container at all, the variable is set by hand.
IsRecipe(r) ==
  /\ r.way \in {"void", "list", "open", "all", "host"}
  /\ r.backend \in {"native", "msswift"}
  /\ r.gpus.form \in {"unset", "list"}
  /\ {r.assert_idle, r.overwrite} \subseteq BOOLEAN
  /\ r.nproc \in Nat \cup {None} /\ r.world \in Nat \ {0}

ASSUME LaunchAssumption ==
  /\ \A m \in Machines : IsFiniteSet(m) /\ m # {} /\ m = 0..(Cardinality(m) - 1)
  /\ \A r \in Recipes : IsRecipe(r)

VARIABLES
  deployment,  \* the machine's cards, and the allowed and the reserved ones as the
               \*   environment of the host has them
  recipe,      \* of each launch
  phase,       \* of each launch
  gpus,        \* of each launch: the cards run.sh goes on with
  ranks,       \* of each launch: the state of each worker
  output,      \* of each launch: what is in its output directory
  others,      \* cards with other people's work on them
  seen,        \* of each launch: the cards it saw in use when it looked
  sampled      \* of each launch: the cards that gpu_monitor has sampled

vars == <<deployment, recipe, phase, gpus, ranks, output, others, seen, sampled>>

Deployments ==
  [cards : Machines, allowed : {Word("unset"), List(<<0, 1, 2, 3, 4, 5>>)},
   reserved : {Word("unset"), List(<<4>>)}]

cards == deployment.cards

Init ==
  /\ deployment \in Deployments
  /\ recipe \in [Launches -> Recipes]
  /\ phase = [l \in Launches |-> "new"]
  /\ gpus = [l \in Launches |-> <<>>]
  /\ ranks = [l \in Launches |-> <<>>]
  /\ output = [l \in Launches |-> "earlier results"]
  /\ others \in SUBSET {Max(cards)}
  /\ seen = [l \in Launches |-> {}]
  /\ sampled = [l \in Launches |-> {}]

-----------------------------------------------------------------------------
\* The machine.

\* The cards of a set by their numbers.
InOrder(S) ==
  [i \in 1..Cardinality(S) |-> CHOOSE c \in S : Cardinality({d \in S : d < c}) = i - 1]

\* What the workers of a launch can see: the runtime numbers the cards it shows anew,
\* from 0 and in the order of the host.
visible(l) ==
  InOrder(IF recipe[l].way \in {"void", "list"} THEN ToSet(gpus[l]) ELSE cards)

\* NVIDIA_VISIBLE_DEVICES where the workers run.
variable(l) ==
  CASE recipe[l].way \in {"void", "open"} -> Word("managed")
    [] recipe[l].way \in {"list", "host"} -> List(gpus[l])
    [] recipe[l].way = "all" -> Word("all")

\* run.sh passes no variable of the deployment into the container.
environment(l) ==
  IF recipe[l].way = "host" THEN deployment
  ELSE [cards |-> cards, allowed |-> Word("unset"), reserved |-> Word("unset")]

\* nvidia-smi -L, which fails now and then.
Probes(l) == {reject, accept([i \in DOMAIN visible(l) |-> i - 1])}

on_card(l, r) == ranks[l][r] \in {"taken", "loaded"}

\* Variant: a rank without a card of its own goes to the first one.
device_of_fallback(l, r) ==
  IF r <= Len(visible(l)) THEN visible(l)[r] ELSE visible(l)[1]

\* GraspoFlowState.initialize: local rank r - 1 takes the card of that number, or raises.
device_of(l, r) == IF r <= Len(visible(l)) THEN visible(l)[r] ELSE None

\* Cards with memory in use: by workers that have loaded the model, or by others.
loaded ==
  others \cup {device_of(p[1], p[2]) : p \in {q \in Launches \X (1..Cardinality(cards)) :
                 q[2] \in DOMAIN ranks[q[1]] /\ ranks[q[1]][q[2]] = "loaded"}}

\* Readings of nvidia-smi: a card in use may be without work for a moment, one that is
\* not in use may have a little memory taken.
Readings ==
  {[c \in cards |-> IF c \in loaded THEN used ELSE free] :
     used \in [memory : {20000}, utilization : {0, 90}], free \in [memory : {0, 60}, utilization : {0}]}

-----------------------------------------------------------------------------
\* run.sh

refuse(l) == phase' = [phase EXCEPT ![l] = "refused"]

\* Up to four cards with number at most 5 and no memory in use.
auto_selected(readings) ==
  LET free == InOrder({c \in cards : c <= 5 /\ readings[c].memory = 0}) IN
  SubSeq(free, 1, Min({MAX_CARDS, Len(free)}))

look(l) ==
  seen' = [seen EXCEPT ![l] = IF recipe[l].gpus.form = "unset" \/ recipe[l].assert_idle
                              THEN loaded ELSE {}]

Pick(l) ==
  /\ phase[l] = "new"
  /\ \E readings \in Readings :
       LET wanted == recipe[l].gpus
           picked == IF wanted.form = "list" THEN wanted.cards ELSE auto_selected(readings)
       IN /\ gpus' = [gpus EXCEPT ![l] = picked]
          /\ look(l)
          /\ IF \/ picked = <<>>
                \/ recipe[l].assert_idle
                     /\ ~assert_visible_gpus_idle(List(picked), reject, deployment, readings)
             THEN refuse(l) ELSE phase' = [phase EXCEPT ![l] = "picked"]
  /\ UNCHANGED <<deployment, recipe, ranks, output, others, sampled>>

\* The runtime narrows to cards of the machine only.
can_narrow(l) == recipe[l].way \in {"void", "list"} => ToSet(gpus[l]) \subseteq cards

\* gpu_lock_guard.py --visible, on the host, then the container.  Without one this is
\* refused only for what `graspo launch` refuses as well.
HostGuard(l) ==
  /\ phase[l] = "picked"
  /\ IF can_narrow(l) /\ assert_gpu_lock(List(gpus[l]), deployment).ok
     THEN phase' = [phase EXCEPT ![l] = "started"] ELSE refuse(l)
  /\ UNCHANGED <<deployment, recipe, gpus, ranks, output, others, seen, sampled>>

-----------------------------------------------------------------------------
\* graspo launch

Launch(l) ==
  /\ phase[l] = "started"
  /\ \E probe \in Probes(l) :
       IF require_gpu_lock_or_exit(variable(l), probe, environment(l)).ok
       THEN phase' = [phase EXCEPT ![l] = "locked"] ELSE refuse(l)
  /\ UNCHANGED <<deployment, recipe, gpus, ranks, output, others, seen, sampled>>

\* Variant: the output directory is prepared before the cards are checked.
may_prepare_early(l) == phase[l] \in {"started", "locked"}

may_prepare(l) == phase[l] = "locked"

\* _resolve_nproc_per_node of the native backend, on one node.
native_nproc(l) == IF recipe[l].nproc # None THEN recipe[l].nproc ELSE recipe[l].world

\* _build_msswift_launch_plan
msswift_nproc(l) == IF recipe[l].nproc # None THEN recipe[l].nproc ELSE 1

nproc_per_node(l) ==
  IF recipe[l].backend = "native" THEN native_nproc(l) ELSE msswift_nproc(l)

nproc_in_range(l) ==
  nproc_per_node(l) >= 1 /\ (recipe[l].backend = "native" => nproc_per_node(l) <= 32)

\* _validate_launch_paths: the directory is cleared, or must be empty.
PrepareOutput(l) ==
  /\ may_prepare(l)
  /\ IF nproc_in_range(l) /\ recipe[l].overwrite
     THEN /\ output' = [output EXCEPT ![l] = "cleared"]
          /\ phase' = [phase EXCEPT ![l] = "prepared"]
     ELSE refuse(l) /\ UNCHANGED output
  /\ UNCHANGED <<deployment, recipe, gpus, ranks, others, seen, sampled>>

\* _validate_launch_world, of the native backend only.
launch_world_valid(l) ==
  \/ recipe[l].backend = "msswift"
  \/ /\ nproc_per_node(l) = recipe[l].world
     /\ visible(l) # <<>> => nproc_per_node(l) <= Len(visible(l))

StartWorkers(l) ==
  /\ phase[l] = "prepared"
  /\ IF launch_world_valid(l)
     THEN /\ phase' = [phase EXCEPT ![l] = "workers"]
          /\ ranks' = [ranks EXCEPT ![l] = [r \in 1..nproc_per_node(l) |-> "started"]]
     ELSE refuse(l) /\ UNCHANGED ranks
  /\ UNCHANGED <<deployment, recipe, gpus, output, others, seen, sampled>>

-----------------------------------------------------------------------------
\* The workers.

\* All workers end, by themselves or stopped by torchrun; their cards come free.
stop(l) ==
  /\ phase' = [phase EXCEPT ![l] = "ended"]
  /\ ranks' = [ranks EXCEPT ![l] = <<>>]

advance(l, r, to) ==
  /\ ranks' = [ranks EXCEPT ![l][r] = to]
  /\ UNCHANGED phase

WorkerGuard(l, r) ==
  /\ phase[l] = "workers" /\ ranks[l][r] = "started"
  /\ \E probe \in Probes(l) :
       IF require_gpu_lock_or_exit(variable(l), probe, environment(l)).ok
       THEN advance(l, r, "guarded") ELSE stop(l)
  /\ UNCHANGED <<deployment, recipe, gpus, output, others, seen, sampled>>

TakeCard(l, r) ==
  /\ phase[l] = "workers" /\ ranks[l][r] = "guarded"
  /\ IF device_of(l, r) = None THEN stop(l) ELSE advance(l, r, "taken")
  /\ UNCHANGED <<deployment, recipe, gpus, output, others, seen, sampled>>

\* init_process_group waits for all ranks; then the model is loaded.
LoadModel(l, r) ==
  /\ phase[l] = "workers" /\ ranks[l][r] = "taken"
  /\ \A q \in DOMAIN ranks[l] : on_card(l, q)
  /\ advance(l, r, "loaded")
  /\ UNCHANGED <<deployment, recipe, gpus, output, others, seen, sampled>>

\* The training ends, fails or is stopped.
End(l) ==
  /\ phase[l] = "workers" /\ stop(l)
  /\ UNCHANGED <<deployment, recipe, gpus, output, others, seen, sampled>>

\* record_gpu_memory beside the workers: a number the driver does not know there ends
\* the sampling, without a sample.
Sample(l, explicit) ==
  /\ phase[l] = "workers" /\ sampled[l] = {}
  /\ \E probe \in Probes(l) :
       LET targets == resolve_sample_gpus(explicit, variable(l), probe, environment(l)) IN
       /\ targets.ok
       /\ \A t \in ToSet(targets.devices) : t + 1 \in DOMAIN visible(l)
       /\ sampled' = [sampled EXCEPT
                        ![l] = {visible(l)[t + 1] : t \in ToSet(targets.devices)}]
  /\ UNCHANGED <<deployment, recipe, phase, gpus, ranks, output, others, seen>>

\* Other work comes to a card that nobody uses, and goes.
OtherWork(c) ==
  /\ others' = IF c \in others THEN others \ {c} ELSE others \cup {c}
  /\ c \in loaded => c \in others
  /\ UNCHANGED <<deployment, recipe, phase, gpus, ranks, output, seen, sampled>>

Next ==
  \/ \E l \in Launches :
       \/ Pick(l) \/ HostGuard(l) \/ Launch(l) \/ PrepareOutput(l) \/ StartWorkers(l) \/ End(l)
       \/ \E r \in DOMAIN ranks[l] : WorkerGuard(l, r) \/ TakeCard(l, r) \/ LoadModel(l, r)
       \/ \E explicit \in {Word("unset"), List(<<0>>), List(<<4, 5>>)} : Sample(l, explicit)
  \/ \E c \in {Max(cards)} : OtherWork(c)

Spec == Init /\ [][Next]_vars

-----------------------------------------------------------------------------
\* Properties.

\* What the guard has judged are the cards that the workers see.  Not so without a
\* container: there it judges the numbers in the variable, and the workers count all cards of
\* the machine from 0 on.  And where a container has lost its cards but has the runtime's
\* marker, the guard only counts them, so that it needs more than it lets pass.
judged_as_seen(l) ==
  /\ recipe[l].way # "host"
  /\ recipe[l].way = "open" => Cardinality(cards) > MAX_CARDS

\* No two workers of a launch sit on one card; and where the guard has judged what they see,
\* a worker sits on a card that its launch has named, that the host allows and has not
\* reserved: over the picking, three checks, the new numbers of the container and the local
\* ranks (assert_gpu_lock, require_gpu_lock_or_exit, GraspoFlowState.initialize).  The peak
\* memory of any launch with a list, and of those others, is read from cards that it has
\* named, whatever numbers they have where the sampling runs (resolve_sample_gpus).
OwnCardsOnly ==
  \A l \in Launches :
    /\ judged_as_seen(l) \/ variable(l).form = "list" => sampled[l] \subseteq ToSet(gpus[l])
    /\ \A r \in DOMAIN ranks[l] :
         on_card(l, r) =>
           /\ \A q \in DOMAIN ranks[l] :
                on_card(l, q) /\ device_of(l, q) = device_of(l, r) => q = r
           /\ judged_as_seen(l) =>
                /\ device_of(l, r) \in ToSet(gpus[l])
                /\ assert_gpu_lock(List(<<device_of(l, r)>>), deployment).ok

\* A launch that looked first, or let run.sh pick, never has a worker on a card that was
\* in use when it looked: it shares a card only with work that came in between
\* (assert_gpu_idle, the selection of run.sh).  That is so where the guard has judged what the
\* workers see, whatever launches of the other kind run beside it; those themselves look at
\* the cards they name and sit on the first ones.
NeverOntoSeenWork ==
  \A l \in Launches : judged_as_seen(l) =>
    \A r \in DOMAIN ranks[l] : on_card(l, r) => device_of(l, r) \notin seen[l]

\* The output directory of an earlier run is cleared only by a launch that names no card
\* outside those the host allows, and not more than it may have; and where the guard has
\* judged what the workers see, that sees no other (cmd_launch).
ClearedBehindTheGuard ==
  \A l \in Launches : output[l] = "cleared" =>
    /\ assert_gpu_lock(List(gpus[l]), deployment).ok
    /\ judged_as_seen(l) => assert_gpu_lock(List(visible(l)), deployment).ok
====
