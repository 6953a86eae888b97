---- MODULE ResultJudge ----
(***************************************************************************)
(* The verdict on one run of a training tier (core/result_judge.py): the   *)
(* criteria A1 to A7 over the evidence collected from the run's directory, *)
(* the class of a failure, the status in the ledger and what the ledger    *)
(* says of the context length.  Pure operators: CollectedRun makes the     *)
(* evidence, AlgorithmChecks pairs of runs for A4.                         *)
(*                                                                         *)
(* A reading of a series is a number in units of 1e-7, NonFinite, or       *)
(* Missing (a field that is absent or null).  The text of a log is the set *)
(* of the failure classes whose patterns occur in it.                      *)
(***************************************************************************)
EXTENDS Integers, Sequences, FiniteSets

CONSTANTS
  None,       \* evidence that could not be read
  NonFinite,  \* a NaN or an infinity
  Missing     \* MISSING_SENTINEL, NAN_SENTINEL

\* What a criterion returns: why it failed is told apart where classify_failure
\* or the status does.
met == [passed |-> TRUE, evidence_missing |-> FALSE, why |-> "met"]
failed(why) == [passed |-> FALSE, evidence_missing |-> FALSE, why |-> why]
gap(why) == [passed |-> FALSE, evidence_missing |-> TRUE, why |-> why]

IsReading(x) == x # Missing /\ x # NonFinite
Last(s) == s[Len(s)]
abs(x) == IF x < 0 THEN -x ELSE x

-----------------------------------------------------------------------------
\* The number of optimizer steps a tier asks for.

MIN_OPTIMIZER_STEPS == 5

\* The manifest's threshold, the default without one, None for an illegal one.
resolve_min_optimizer_steps(raw) ==
  IF raw = None THEN MIN_OPTIMIZER_STEPS
  ELSE IF raw <= 0 THEN None ELSE raw

\* The tier's configuration can never reach the threshold.
step_gate_not_applicable(e, threshold) ==
  /\ e.expected_reachable # None
  /\ e.expected_reachable >= 1
  /\ e.expected_reachable < threshold

planned_steps(e) ==
  IF e.expected_per_epoch = None THEN e.expected_reachable ELSE e.expected_per_epoch

reached_plan(e) == planned_steps(e) > 0 /\ e.optimizer_steps >= planned_steps(e)

usability_gate_not_applicable(e) ==
  LET threshold == resolve_min_optimizer_steps(e.min_optimizer_steps) IN
  /\ threshold # None /\ e.optimizer_steps # None
  /\ step_gate_not_applicable(e, threshold)
  /\ ~reached_plan(e)

-----------------------------------------------------------------------------
\* The criteria.

\* Did the process end by itself and well.
judge_a1(e) ==
  IF e.timed_out THEN failed("timeout")
  ELSE IF e.exit_code = None THEN gap("exit_code")
  ELSE IF e.exit_code # 0 THEN failed("exit") ELSE met

a_step_stalled(e) ==
  /\ e.optimizer_steps_per_step # None
  /\ \E i \in DOMAIN e.optimizer_steps_per_step : e.optimizer_steps_per_step[i] <= 0

\* Did the training advance and the weights change.
judge_a2(e) ==
  LET threshold == resolve_min_optimizer_steps(e.min_optimizer_steps) IN
  IF a_step_stalled(e) THEN failed("stalled")
  ELSE IF e.optimizer_steps = None THEN gap("steps")
  ELSE IF e.steps_declared_total # None /\ e.optimizer_steps < e.steps_declared_total
    THEN failed("declared")
  ELSE IF threshold = None THEN failed("threshold")
  ELSE IF e.optimizer_steps = 0 THEN failed("none")
  ELSE IF step_gate_not_applicable(e, threshold)
    THEN IF reached_plan(e) THEN met ELSE failed("plan")
  ELSE IF e.optimizer_steps < threshold THEN failed("short")
  ELSE IF e.weight_changed = None THEN gap("weights")
  ELSE IF e.weight_changed THEN met ELSE failed("weights")

\* Can the checkpoint be loaded again: a header is not evidence enough.
judge_a3(e) ==
  IF e.checkpoint_reloadable = None THEN gap("reload")
  ELSE IF ~e.checkpoint_reloadable THEN failed("reload")
  ELSE IF e.a3_source \in {"safetensors_header", "skipped", "missing"} THEN gap("source")
  ELSE met

REQUIRED_ARTIFACTS == {"config_backup", "training_log", "checkpoint", "metrics"}

judge_a5(e) ==
  IF REQUIRED_ARTIFACTS \subseteq e.artifacts_present THEN met
  ELSE IF e.output_located THEN failed("artifacts") ELSE gap("artifacts")

\* Are the numbers healthy.
judge_a6(e) ==
  LET has(s, x) == \E i \in DOMAIN s : s[i] = x IN
  IF e.losses = <<>> THEN gap("losses")
  ELSE IF e.grad_norms = <<>> THEN gap("grads")
  ELSE IF has(e.losses, NonFinite) \/ has(e.grad_norms, NonFinite) THEN failed("NaN/Inf")
  ELSE IF has(e.losses, Missing) THEN gap("indeterminate")
  ELSE met

\* Was no update left out for a number that is not finite.
judge_a7(e) ==
  IF e.nonfinite_fail_closed_guarantee THEN met
  ELSE IF e.nonfinite_skips = None THEN gap("skips")
  ELSE IF e.nonfinite_skips # 0 THEN failed("skips")
  ELSE met

-----------------------------------------------------------------------------
\* The class of a failure.

\* _LOG_PATTERNS, in the order in which they are tried.
LogPatterns ==
  <<"numeric", "unimplemented", "config", "data", "pipeline_p2p_timeout",
    "rollout_cap", "nccl_timeout", "comm_hardware", "oom">>

first_pattern(log) ==
  LET hits == {i \in DOMAIN LogPatterns : LogPatterns[i] \in log} IN
  IF hits = {} THEN None
  ELSE LogPatterns[CHOOSE i \in hits : \A j \in hits : i <= j]

EXIT_CODE_FAILURE_CLASSES(code) ==
  IF code = 86 THEN "pipeline_p2p_timeout" ELSE IF code = 21 THEN "rollout_cap" ELSE None

\* Variant: the log is read before the codes a run ends with.
classify_log_first(e, a6) ==
  IF first_pattern(e.log) # None THEN first_pattern(e.log)
  ELSE IF e.timed_out \/ e.exit_code = 124 THEN "timeout"
  ELSE IF EXIT_CODE_FAILURE_CLASSES(e.exit_code) # None
    THEN EXIT_CODE_FAILURE_CLASSES(e.exit_code)
  ELSE IF ~a6.passed /\ a6.why = "NaN/Inf" THEN "numeric"
  ELSE IF ~a6.passed /\ a6.why = "indeterminate" THEN "unclassified"
  ELSE IF e.exit_code \notin {None, 0} THEN "unclassified" ELSE None

\* A timeout, a code that says what happened, the numbers, then the log.
classify_failure(e, a6) ==
  IF e.timed_out \/ e.exit_code = 124 THEN "timeout"
  ELSE IF EXIT_CODE_FAILURE_CLASSES(e.exit_code) # None
    THEN EXIT_CODE_FAILURE_CLASSES(e.exit_code)
  ELSE IF ~a6.passed /\ a6.why = "NaN/Inf" THEN "numeric"
  ELSE IF ~a6.passed /\ a6.why = "indeterminate" THEN "unclassified"
  ELSE IF first_pattern(e.log) # None THEN first_pattern(e.log)
  ELSE IF e.exit_code \notin {None, 0} THEN "unclassified"
  ELSE None

counts_toward_max_context(class) == class = "oom"

-----------------------------------------------------------------------------
\* The verdict.

PRIMARY_CRITERIA == {"A1", "A2", "A3", "A5", "A6", "A7"}

Criteria(e) ==
  [c \in PRIMARY_CRITERIA |->
     CASE c = "A1" -> judge_a1(e) [] c = "A2" -> judge_a2(e) [] c = "A3" -> judge_a3(e)
       [] c = "A5" -> judge_a5(e) [] c = "A6" -> judge_a6(e) [] c = "A7" -> judge_a7(e)]

\* An NCCL message in the log of a run that ended well is no failure.
substantive_failure(e, criteria) ==
  LET class == classify_failure(e, criteria["A6"]) IN
  IF class = "comm_hardware" /\ criteria["A1"].passed THEN None ELSE class

judge_tier(e) ==
  LET criteria == Criteria(e)
      failing == {c \in PRIMARY_CRITERIA : ~criteria[c].passed}
      substantive == substantive_failure(e, criteria)
      not_applicable == usability_gate_not_applicable(e)
      others_ok == failing \subseteq {"A2"}
      only_gaps == /\ \A c \in failing : criteria[c].evidence_missing
                   /\ substantive = None
      class == IF failing = {} THEN None
               ELSE IF not_applicable /\ others_ok THEN "gate_not_applicable"
               ELSE IF only_gaps THEN "evidence_gap"
               ELSE IF substantive # None THEN substantive ELSE "unclassified"
  IN [passed |-> failing = {}, failing |-> failing, failure_class |-> class,
      indeterminate |-> failing # {} /\ only_gaps,
      step_gate_not_applicable |-> not_applicable, others_ok |-> others_ok]

ledger_status(j) ==
  IF j.passed THEN "usable"
  ELSE IF j.indeterminate THEN "indeterminate"
  ELSE IF j.step_gate_not_applicable /\ j.others_ok THEN "gate_not_applicable"
  ELSE "unusable"

\* max_context_kind: what the ledger says of the context length of the run.
recorded_context(j, context) ==
  IF context = None THEN "none"
  ELSE IF j.passed THEN "feasible"
  ELSE IF counts_toward_max_context(j.failure_class) THEN "oom_boundary" ELSE "none"
====
