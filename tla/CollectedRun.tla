---- MODULE CollectedRun ----
(***************************************************************************)
(* A training run, the directory it leaves behind, and the verdict that    *)
(* scripts/collect_results.py and core/result_judge.py read out of it.     *)
(* The run is the non-pipelined SFT training of the native backend, on all *)
(* its ranks, with its restarts, or an ms-swift training.  The directory   *)
(* may be collected at any time, also while the run goes on, and files of  *)
(* it may be lost before that.                                             *)
(*                                                                         *)
(* External, modelled from how the collector reads it: the script that     *)
(* starts the run and writes exit_code and stdout.log, the probe in the    *)
(* container, ms-swift and what it logs, and how a process dies.           *)
(***************************************************************************)
EXTENDS ResultJudge

CONSTANTS
  Plans,       \* tiers explored, see IsPlan
  ranks,       \* number of data-parallel replicas
  Steps,       \* optimizer steps of the whole run
  MaxOdd,      \* bound on the recorded steps that are not as they should be
  MaxRestarts  \* bound on the restarts explored

\* A reading of a loss or of a gradient norm that is finite: which one does not
\* matter, the trend of the losses blocks nothing.
Finite == 1

\* A tier of the manifest, its configuration, and the host it is collected on.
IsPlan(p) ==
  /\ p.backend \in {"native", "ms-swift"} /\ p.tuner_type \in {"lora", "full"}
  /\ {p.allow_nonfinite_grad_skip, p.coverage, p.host_torch, p.base_model} \subseteq BOOLEAN
  /\ {p.min_optimizer_steps, p.reachable, p.per_epoch} \subseteq Int \cup {None}

\* Saved weights: of which attempt, whether they moved, and whether all parts are there.
Checkpoints == [content : [by : Nat, moved : BOOLEAN], whole : BOOLEAN]

ASSUME CollectedAssumption ==
  /\ \A p \in Plans : IsPlan(p)
  /\ ranks \in Nat \ {0} /\ Steps \in Nat \ {0} /\ {MaxOdd, MaxRestarts} \subseteq Nat
  /\ None \notin Checkpoints \cup Seq(Nat) /\ Finite \notin {NonFinite, Missing}

VARIABLES
  plan,     \* the tier
  pc,       \* running, saving, ended, and ended with a file lost
  step,     \* steps of this attempt and of those it resumed
  attempt,  \* restarts so far
  dir,      \* the run's directory
  history   \* what really happened, in all attempts: updates applied, recorded steps
            \*   without one, whether the weights moved, and of this attempt whether a step
            \*   was without one, whether the weights are NaN and what ended it

vars == <<plan, pc, step, attempt, dir, history>>

\* stdout.log is there or not (stdout) and is known by what the patterns find in it: the
\* texts of log, the readings of a loss with its gradient norm (pairs, _LOSS_DICT), and
\* those of a loss alone (lone, _LOSS_ANY).
EmptyDir ==
  [exit_code |-> None, stdout |-> TRUE, log |-> {}, pairs |-> <<>>, lone |-> <<>>,
   config |-> TRUE, rows |-> <<>>, logging |-> <<>>,
   trainer_state |-> 0, checkpoint |-> None, probe |-> None]

Init ==
  /\ plan \in Plans
  /\ pc = "running" /\ step = 0 /\ attempt = 0
  /\ dir = EmptyDir
  /\ history = [updates |-> 0, frozen |-> 0, moved |-> FALSE, stalled |-> FALSE,
                broken |-> FALSE, ended_by |-> None]

native == plan.backend = "native"

\* What the weights on disk are: by which attempt, whether they moved.
Content == [by |-> attempt, moved |-> history.moved]

-----------------------------------------------------------------------------
\* The run.

\* What one step of train_batch_sft comes to: micro-batches skipped and ranks that
\* take the optimizer step, which one with finite losses only does and one without a
\* finite loss does not.
Outcome(skipping, stepping, grad, moves) ==
  [skipping |-> skipping, stepping |-> stepping, grad |-> grad, moves |-> moves]

good == Outcome(0, ranks, Finite, TRUE)

Outcomes ==
  {good} \cup {Outcome(s, n, Finite, n > 0) : s \in {0, 1, ranks}, n \in {0, ranks - 1, ranks}}
  \cup {Outcome(0, ranks, Finite, FALSE), Outcome(0, ranks, NonFinite, TRUE)}

\* The row of rank_metrics, after the sums and means over the ranks.
row(o) ==
  [loss |-> IF o.stepping = 0 THEN Missing ELSE Finite, grad_norm |-> o.grad,
   optimizer_steps |-> o.stepping, skipped_nonfinite |-> o.skipping, delta |-> o.moves]

\* Weights that are NaN leave no loss finite.
possible(o) ==
  /\ ranks - o.stepping <= o.skipping
  /\ history.broken => o.stepping = 0
  /\ \/ o = good \/ history.broken
     \/ Cardinality({i \in DOMAIN dir.rows : dir.rows[i] # row(good)}) < MaxOdd

applied(o) ==
  [history EXCEPT !.updates = @ + (IF o.stepping > 0 THEN 1 ELSE 0),
                  !.frozen = @ + (IF o.stepping > 0 THEN 0 ELSE 1),
                  !.moved = @ \/ o.moves,
                  !.stalled = @ \/ o.stepping = 0,
                  !.broken = @ \/ o.grad = NonFinite]

ended(code, text) ==
  /\ pc' = "ended"
  /\ dir' = [dir EXCEPT !.exit_code = code, !.log = @ \cup text]

\* The line of the event sft_step.  JSON writes a norm that is not finite as NaN or
\* Infinity, which _LOSS_DICT does not know: only the loss can be read.  A loss that is
\* not there is a null, which it takes for a reading it has no number for.
printed(d, r) ==
  IF r.grad_norm = NonFinite
    THEN [d EXCEPT !.lone = Append(@, r.loss)]
    ELSE [d EXCEPT !.pairs = Append(@, [loss |-> r.loss, grad_norm |-> r.grad_norm])]

\* A step that is recorded: with a skip only where that is pre-authorised, and then
\* with a warning that names train_batch_sft.  Its row and its line count as one.
Train(o) ==
  /\ native /\ pc = "running" /\ step < Steps /\ possible(o)
  /\ o.skipping > 0 => plan.allow_nonfinite_grad_skip
  /\ step' = step + 1
  /\ history' = applied(o)
  /\ dir' = [printed(dir, row(o)) EXCEPT
               !.rows = Append(@, row(o)),
               !.log = @ \cup (IF o.skipping > 0 THEN {"numeric", "native_sft_path"} ELSE {})]
  /\ UNCHANGED <<plan, pc, attempt>>

\* _record_nonfinite_skip raises, after the step and before its row.
HardFail(o) ==
  /\ native /\ pc = "running" /\ step < Steps /\ possible(o)
  /\ o.skipping > 0 /\ ~plan.allow_nonfinite_grad_skip
  /\ history' = [history EXCEPT !.ended_by = "hard_fail"]
  /\ ended(1, {"numeric", "native_sft_path"})
  /\ UNCHANGED <<plan, step, attempt>>

\* A step of ms-swift: its line of logging.jsonl and the same on stdout, where nan can be
\* read, now and then a trainer_state.
SwiftStep(grad, moves, saves) ==
  /\ ~native /\ pc = "running" /\ step < Steps
  /\ history.broken => grad = NonFinite
  /\ step' = step + 1
  /\ history' = [history EXCEPT !.updates = @ + 1, !.moved = @ \/ moves,
                                !.broken = @ \/ grad = NonFinite]
  /\ LET line == [loss |-> IF history.broken THEN NonFinite ELSE Finite, grad_norm |-> grad]
     IN dir' = [dir EXCEPT !.logging = Append(@, line), !.pairs = Append(@, line),
                           !.trainer_state = IF saves THEN step + 1 ELSE @]
  /\ UNCHANGED <<plan, pc, attempt>>

\* The final checkpoint: the shards, then the manifest once all ranks are there.
SaveShards ==
  /\ pc = "running" /\ step = Steps
  /\ pc' = "saving"
  /\ dir' = [dir EXCEPT !.checkpoint = [content |-> Content, whole |-> ~native],
                        !.trainer_state = IF native THEN @ ELSE Steps]
  /\ UNCHANGED <<plan, step, attempt, history>>

SaveManifest ==
  /\ pc = "saving"
  /\ history' = [history EXCEPT !.ended_by = "finished"]
  /\ pc' = "ended"
  /\ dir' = [dir EXCEPT !.checkpoint.whole = TRUE, !.exit_code = 0]
  /\ UNCHANGED <<plan, step, attempt>>

\* How an attempt dies: the code and the text it leaves.  Peers of a rank that ran
\* out of memory may add what they saw.
Deaths ==
  {[why |-> "oom", code |-> 1, text |-> {"oom"} \cup t] : t \in SUBSET {"nccl_timeout"}}
  \cup {[why |-> "timeout", code |-> 124, text |-> {}],
        [why |-> "timeout", code |-> 137, text |-> {"alarm"}],
        [why |-> "nccl", code |-> 134, text |-> {"nccl_timeout", "comm_hardware"}],
        [why |-> "killed", code |-> None, text |-> {}]}

Die(d) ==
  /\ pc \in {"running", "saving"}
  /\ history' = [history EXCEPT !.ended_by = d.why]
  /\ ended(d.code, d.text)
  /\ UNCHANGED <<plan, step, attempt>>

\* The run is started again in the same directory, from the first step or behind a
\* checkpoint; its rows are added to those that are there, stdout.log is new.
Restart(from) ==
  /\ native /\ pc = "ended" /\ history.ended_by # "finished" /\ attempt < MaxRestarts
  /\ from \in {0, step}
  /\ from = 0 \/ ~history.broken
  /\ pc' = "running" /\ step' = from /\ attempt' = attempt + 1
  /\ dir' = [dir EXCEPT !.exit_code = None, !.log = {}, !.pairs = <<>>, !.lone = <<>>]
  /\ history' = [history EXCEPT !.ended_by = None, !.stalled = FALSE, !.broken = FALSE]
  /\ UNCHANGED plan

\* NCCL's chatter in the log of a run that is well.
Noise ==
  /\ pc = "saving" /\ "comm_hardware" \notin dir.log
  /\ dir' = [dir EXCEPT !.log = @ \cup {"comm_hardware"}]
  /\ UNCHANGED <<plan, pc, step, attempt, history>>

-----------------------------------------------------------------------------
\* Afterwards.

\* The probe loads what is there in the container and notes its digest.
Probe ==
  /\ pc = "ended" /\ dir.checkpoint # None
  /\ dir' = [dir EXCEPT !.probe = [content |-> dir.checkpoint.content]]
  /\ UNCHANGED <<plan, pc, step, attempt, history>>

Files == {"exit_code", "stdout", "config", "probe", "rows"}

\* The directory d without a file, which is gone or cannot be read.
without(d, file) ==
  [d EXCEPT !.exit_code = IF file = "exit_code" THEN None ELSE @,
            !.stdout = @ /\ file # "stdout",
            !.log = IF file = "stdout" THEN {} ELSE @,
            !.pairs = IF file = "stdout" THEN <<>> ELSE @,
            !.lone = IF file = "stdout" THEN <<>> ELSE @,
            !.config = @ /\ file # "config",
            !.probe = IF file = "probe" THEN None ELSE @,
            !.rows = IF file = "rows" THEN <<>> ELSE @]

\* One file, as a bound, is lost before the run is collected.
Lose(file) ==
  /\ pc = "ended"
  /\ dir' = without(dir, file)
  /\ pc' = "lost"
  /\ UNCHANGED <<plan, step, attempt, history>>

Next ==
  \/ \E o \in Outcomes : Train(o) \/ HardFail(o)
  \/ \E grad \in {Finite, NonFinite}, moves, saves \in BOOLEAN : SwiftStep(grad, moves, saves)
  \/ SaveShards \/ SaveManifest
  \/ \E d \in Deaths : Die(d)
  \/ \E from \in 0..Steps : Restart(from)
  \/ Noise \/ Probe
  \/ \E file \in Files : Lose(file)

Spec == Init /\ [][Next]_vars

-----------------------------------------------------------------------------
\* What collect_run reads out of the directory d of a tier p.

\* An output directory is known by its config.yaml, one of ms-swift by its log.
output_located(p, d) ==
  d.config /\ (p.backend = "native" \/ d.logging # <<>>)

Rows(p, d) == IF output_located(p, d) THEN d.rows ELSE <<>>

column(s, name) == [i \in DOMAIN s |-> s[i][name]]

\* The newest trainer_state, or what logging.jsonl says if it goes further.
best_trainer_state(p, d) ==
  IF ~output_located(p, d) \/ p.backend = "native" THEN None
  ELSE IF d.trainer_state >= Len(d.logging)
    THEN [global_step |-> d.trainer_state, log_history |-> d.logging]
    ELSE [global_step |-> Len(d.logging), log_history |-> d.logging]

\* Where the series come from: rank_metrics, a trainer state, the text of stdout.log,
\* which tells no number of steps but the readings, nor how many were planned.
extract_steps_and_series(p, d) ==
  LET rows == Rows(p, d)
      state == best_trainer_state(p, d)
      of(s, declared, per_step) ==
        [steps |-> Len(s), losses |-> column(s, "loss"), grad_norms |-> column(s, "grad_norm"),
         declared |-> declared, per_step |-> per_step]
  IN IF rows # <<>> THEN of(rows, None, column(rows, "optimizer_steps"))
     ELSE IF state # None THEN of(state.log_history, Steps, None)
     ELSE IF d.pairs # <<>> THEN of(d.pairs, None, None)
     ELSE [steps |-> IF d.lone = <<>> THEN None ELSE Len(d.lone), losses |-> d.lone,
           grad_norms |-> <<>>, declared |-> None, per_step |-> None]

\* Skips of the rows, of all attempts; None where no row has a count.
extract_skipped_nonfinite(p, d) ==
  IF Rows(p, d) = <<>> THEN None
  ELSE LET sum[i \in 0..Len(d.rows)] ==
             IF i = 0 THEN 0 ELSE sum[i - 1] + d.rows[i].skipped_nonfinite
       IN sum[Len(d.rows)]

\* ms-swift's own count where it covers every step: in the newest trainer_state, or as
\* last printed.
extract_ms_swift_nonfinite_count(p, d) ==
  IF p.backend = "native" \/ ~p.coverage THEN None
  ELSE IF output_located(p, d) /\ d.trainer_state > 0
    THEN Cardinality({i \in 1..d.trainer_state : d.logging[i].grad_norm = NonFinite})
  ELSE IF d.pairs # <<>>
    THEN Cardinality({i \in DOMAIN d.pairs : d.pairs[i].grad_norm = NonFinite})
  ELSE None

\* Without a count: the readings that are not finite, if there is one for every step,
\* and at least one where the text has the message of a hard failure.
inferred_skips(p, d) ==
  LET series == extract_steps_and_series(p, d)
      count == extract_ms_swift_nonfinite_count(p, d)
      n == IF count # None THEN count
           ELSE IF series.declared # None /\ Len(series.grad_norms) >= series.declared
             THEN Cardinality({i \in DOMAIN series.grad_norms :
                                 series.grad_norms[i] = NonFinite})
           ELSE None
  IN IF "numeric" \in d.log /\ n \in {None, 0} THEN 1 ELSE n

\* A run that names the native SFT path and ended with 0 is taken to have skipped
\* nothing: a skip would have stopped it.
nonfinite_fail_closed_guarantee(p, d) ==
  d.exit_code = 0 /\ "native_sft_path" \in d.log

\* Did the weights change: by the rows, else by the weights of the checkpoint.
extract_weight_changed(p, d) ==
  IF Rows(p, d) # <<>> THEN \E i \in DOMAIN d.rows : d.rows[i].delta
  ELSE IF ~output_located(p, d) \/ d.checkpoint = None THEN None
  ELSE IF p.backend = "native"
    THEN IF p.host_torch /\ p.tuner_type = "lora" THEN d.checkpoint.content.moved ELSE None
  ELSE IF p.tuner_type = "lora" \/ p.base_model THEN d.checkpoint.content.moved
  ELSE None

\* Variant: whatever the probe says, of whichever files.
read_torch_probe_any(d) == d.probe # None

\* The probe is believed only of the files that are still there as they were.
read_torch_probe(d) ==
  d.probe # None /\ d.checkpoint # None /\ d.probe.content = d.checkpoint.content

\* Can the checkpoint be loaded, and by what evidence.
extract_checkpoint_reloadable(p, d) ==
  IF read_torch_probe(d) THEN [value |-> TRUE, source |-> "native_probe"]
  ELSE IF ~output_located(p, d) \/ d.checkpoint = None \/ ~d.checkpoint.whole
    THEN [value |-> None, source |-> "missing"]
  ELSE IF p.backend = "ms-swift" THEN [value |-> None, source |-> "safetensors_header"]
  ELSE IF p.host_torch THEN [value |-> TRUE, source |-> "native_probe"]
  ELSE [value |-> None, source |-> "skipped"]

\* Which of the required files are there; stdout.log may stand for two of them.
extract_artifacts(p, d) ==
  LET located == output_located(p, d) IN
  {a \in {"config_backup", "training_log", "checkpoint", "metrics"} :
     \/ a = "config_backup" /\ located
     \/ a = "training_log" /\ (located \/ d.stdout)
     \/ a = "checkpoint" /\ located /\ d.checkpoint # None
     \/ a = "metrics" /\ ((located /\ (d.rows # <<>> \/ d.logging # <<>>))
                          \/ d.pairs # <<>> \/ d.lone # <<>>)}

collect_run(p, d) ==
  LET series == extract_steps_and_series(p, d)
      skips == extract_skipped_nonfinite(p, d)
      reload == extract_checkpoint_reloadable(p, d)
  IN [exit_code |-> d.exit_code,
      timed_out |-> d.exit_code = 124 \/ "alarm" \in d.log,
      log |-> d.log,
      tuner_type |-> p.tuner_type,
      optimizer_steps |-> series.steps,
      optimizer_steps_per_step |-> series.per_step,
      steps_declared_total |-> series.declared,
      losses |-> series.losses,
      grad_norms |-> series.grad_norms,
      weight_changed |-> extract_weight_changed(p, d),
      checkpoint_reloadable |-> reload.value,
      a3_source |-> reload.source,
      artifacts_present |-> extract_artifacts(p, d),
      output_located |-> output_located(p, d),
      nonfinite_skips |-> IF skips # None THEN skips ELSE inferred_skips(p, d),
      nonfinite_fail_closed_guarantee |-> nonfinite_fail_closed_guarantee(p, d),
      min_optimizer_steps |-> p.min_optimizer_steps,
      expected_reachable |-> p.reachable,
      expected_per_epoch |-> p.per_epoch]

evidence == collect_run(plan, dir)
judgement == judge_tier(evidence)

-----------------------------------------------------------------------------
\* Properties.

threshold == resolve_min_optimizer_steps(plan.min_optimizer_steps)
below_gate == threshold # None /\ step_gate_not_applicable(evidence, threshold)

\* The rows of a native run are read, those of every attempt; or the run is of ms-swift.
steps_read == ~native \/ Rows(plan, dir) # <<>>

\* A run judged usable was trained to its end (judge_tier over collect_run): its last
\* attempt finished, what is on disk is the whole checkpoint of that attempt and has been
\* loaded as it is, there were as many updates, with as much effect, as the tier asks for,
\* and no recorded step of the last attempt left all weights as they were.  Where its steps
\* can be read, no step of any attempt did, and none made the weights NaN.  Of a native run
\* without rank_metrics stdout.log is read instead (collect_results.py:662): that has the
\* last attempt only, and no gradient norm of a step that made the weights NaN.
PassMeansTrained ==
  judgement.passed =>
    /\ history.ended_by = "finished"
    /\ dir.checkpoint # None /\ dir.checkpoint.whole
    /\ dir.checkpoint.content.by = attempt
    /\ \/ plan.host_torch
       \/ dir.probe # None /\ dir.probe.content = dir.checkpoint.content
    /\ below_gate \/ (history.moved /\ history.updates >= threshold)
    /\ ~history.stalled
    /\ steps_read => ~history.broken /\ history.frozen = 0

\* Only a run that ran out of memory bounds the length of the context (classify_failure,
\* ledger_row), and one whose weights were NaN before that does not, where its steps can be
\* read.  On stdout.log, read where the rows are gone, the step that made them NaN does not
\* show, and those behind it only as losses that are missing.
OOMBoundary ==
  recorded_context(judgement, 1) = "oom_boundary" =>
    /\ history.ended_by = "oom"
    /\ history.broken /\ steps_read => evidence.losses = <<>>
====
