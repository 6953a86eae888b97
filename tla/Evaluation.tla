---- MODULE Evaluation ----
(***************************************************************************)
(* The evaluation of a model (graspo.eval, cli/eval_commands.py): a        *)
(* checkpoint is merged into its base, an inference server loads the       *)
(* result, the samples of a test set are asked of it by several workers,   *)
(* a report is written, and two reports are compared.  The merge, the      *)
(* server and the evaluation run beside each other; each may be killed.    *)
(*                                                                         *)
(* External, modelled from how eval_serve_vllm.sh and the client use it:   *)
(* the server, which loads what is in its directory when it loads, answers *)
(* at temperature 0, may fail a request, and may die.  One server at a     *)
(* time has the port.  An operator serves the directory the configuration  *)
(* names, and removes a server only between two evaluations.               *)
(***************************************************************************)
EXTENDS MergedExport, Integers, FiniteSetsExt

CONSTANTS
  Samples,     \* test set, as the numbers 1..n in the order of its file
  Ground,      \* tool call a sample asks for, by sample
  Answer,      \* what a model answers, by model and sample
  Tiers,       \* installations explored: base and its name, checkpoints, classes of transformers
  Configs,     \* configurations, see IsConfig
  MaxAttempts, \* probes of the server before an evaluation gives up
  MaxRetries,  \* posts of a request
  Workers,     \* requests under way at a time
  Threshold,   \* difference in right answers that counts as progress
  MaxRuns,     \* bound on the evaluations explored
  MaxExports,  \* bound on the merges explored
  MaxFaults    \* bound on kills, dying servers and requests that fail by themselves

IsConfig(c) ==
  /\ c.role \in {"base", "after", "sft", "other"}
  /\ c.role # "base" => c.checkpoint # None
  /\ DOMAIN c = {"role", "checkpoint", "merged_dir", "served_name", "output_dir", "overlap"}

Checkpoints == {c.checkpoint : c \in Configs} \ {None}

\* Models that a merge makes, those a server can hold (these, bases and checkpoints that are
\* models), and containers.
Merged == {Model(t.base, c.checkpoint, v) : t \in Tiers, c \in Configs, v \in BOOLEAN}
Servable ==
  Merged \cup {Model(t.base, None, t.vision) : t \in Tiers}
         \cup {Model(p, None, t.vision) : p \in Checkpoints, t \in Tiers}
Servers ==
  [name : {c.served_name : c \in Configs}, config : Configs,
   state : {"loading", "up", "dead"}, model : {None} \cup Servable]

ASSUME EvaluationAssumption ==
  /\ IsFiniteSet(Samples) /\ Samples = 1..Cardinality(Samples) /\ Samples # {}
  /\ \A c \in Configs : IsConfig(c) /\ (c.overlap = None \/ c.overlap \subseteq Samples)
  /\ {MaxAttempts, MaxRetries, Workers} \subseteq Nat \ {0}
  /\ {Threshold, MaxRuns, MaxExports, MaxFaults} \subseteq Nat
  /\ None \notin Servers

MergedDirs == {c.merged_dir : c \in Configs} \ {None}
OutputDirs == {c.output_dir : c \in Configs}

VARIABLES
  tier,     \* the installation
  dirs,     \* merged directories
  export,   \* the merge under way
  server,   \* the container, None if there is none
  run,      \* the evaluation under way
  reports,  \* eval_report.json, by output directory
  delta,    \* what the last comparison said
  used      \* evaluations, merges and faults so far

vars == <<tier, dirs, export, server, run, reports, delta, used>>

Idle == [pc |-> "idle"]

Init ==
  /\ tier \in Tiers
  /\ dirs = [d \in MergedDirs |-> Absent]
  /\ export = Idle /\ run = Idle
  /\ server = None
  /\ reports = [d \in OutputDirs |-> None]
  /\ delta = None
  /\ used = [runs |-> 0, exports |-> 0, faults |-> 0]

multimodal == is_multimodal_base_config(tier.markers)
kind(c) == classify_checkpoint(tier.files[c.checkpoint])

\* The model a configuration is about: the base, a checkpoint that is a model, or the base
\* with an adapter merged into it.
Subject(c) ==
  IF c.checkpoint = None THEN Model(tier.base, None, tier.vision)
  ELSE IF kind(c) = BASE_MODEL THEN Model(c.checkpoint, None, tier.vision)
  ELSE Model(tier.base, c.checkpoint, tier.vision)

fault == used.faults < MaxFaults /\ used' = [used EXCEPT !.faults = @ + 1]

-----------------------------------------------------------------------------
\* graspo eval export.

\* cmd_export and merge_peft_checkpoint up to the directory, which is cleared if it may be.
Export(c, overwrite) ==
  /\ export.pc = "idle" /\ used.exports < MaxExports
  /\ c.checkpoint # None /\ kind(c) = PEFT_ADAPTER /\ c.merged_dir # None
  /\ assert_base_matches(tier.recorded[c.checkpoint], tier.base_name)
  /\ prepare_output_directory(dirs[c.merged_dir], overwrite) # None
  /\ dirs' = [dirs EXCEPT ![c.merged_dir] = prepare_output_directory(@, overwrite)]
  /\ export' = [pc |-> "load", dir |-> c.merged_dir, adapter |-> c.checkpoint, model |-> None]
  /\ used' = [used EXCEPT !.exports = @ + 1]
  /\ UNCHANGED <<tier, server, run, reports, delta>>

\* The base is loaded and the adapter merged into it, or the export ends in an error.
Merge ==
  LET class == resolve_auto_model_class(tier.installed, multimodal)
      object == from_pretrained(class, tier.vision)
      targets == resolve_injection_targets(tier.targets, multimodal)
      merged == /\ class # None
                /\ assert_loader_class_matches_base(object, multimodal)
                /\ targets # None /\ injected(targets, object)
  IN /\ export.pc = "load"
     /\ export' = IF merged
                  THEN [export EXCEPT !.pc = "config",
                                      !.model = Model(tier.base, export.adapter, object.vision)]
                  ELSE Idle
     /\ UNCHANGED <<tier, dirs, server, run, reports, delta, used>>

written(dir) == dirs' = [dirs EXCEPT ![export.dir] = dir]

\* save_pretrained: the configuration first, the weights with their index last.
SaveConfig ==
  /\ export.pc = "config"
  /\ written([dirs[export.dir] EXCEPT !.config = TRUE])
  /\ export' = [export EXCEPT !.pc = "weights"]
  /\ UNCHANGED <<tier, server, run, reports, delta, used>>

SaveWeights ==
  /\ export.pc = "weights"
  /\ written([dirs[export.dir] EXCEPT !.weights = export.model])
  /\ export' = [export EXCEPT !.pc = "tokenizer"]
  /\ UNCHANGED <<tier, server, run, reports, delta, used>>

SaveTokenizer ==
  /\ export.pc = "tokenizer"
  /\ written([dirs[export.dir] EXCEPT !.tokenizer = TRUE])
  /\ export' = Idle
  /\ UNCHANGED <<tier, server, run, reports, delta, used>>

KillExport ==
  /\ export.pc # "idle" /\ fault
  /\ export' = Idle
  /\ UNCHANGED <<tier, dirs, server, run, reports, delta>>

-----------------------------------------------------------------------------
\* eval_serve_vllm.sh and the server.

\* The directory served for a configuration: a model's own, or the merged one.
served(c) ==
  IF c.checkpoint = None \/ kind(c) = BASE_MODEL
  THEN [config |-> TRUE, weights |-> Subject(c), tokenizer |-> TRUE]
  ELSE IF c.merged_dir = None THEN Absent ELSE dirs[c.merged_dir]

Serve(c) ==
  /\ server = None
  /\ served(c).config
  /\ server' = [name |-> c.served_name, config |-> c, state |-> "loading", model |-> None]
  /\ UNCHANGED <<tier, dirs, export, run, reports, delta, used>>

\* A directory that is not whole, or without the vision tower, cannot be loaded.
Load ==
  LET dir == served(server.config)
      whole == dir.weights # None /\ dir.tokenizer
  IN /\ server # None /\ server.state = "loading"
     /\ server' = IF whole /\ dir.weights.vision = tier.vision
                  THEN [server EXCEPT !.state = "up", !.model = dir.weights]
                  ELSE [server EXCEPT !.state = "dead"]
     /\ UNCHANGED <<tier, dirs, export, run, reports, delta, used>>

ServerDies ==
  /\ server # None /\ server.state # "dead" /\ fault
  /\ server' = [server EXCEPT !.state = "dead"]
  /\ UNCHANGED <<tier, dirs, export, run, reports, delta>>

Remove ==
  /\ server # None /\ run.pc = "idle"
  /\ server' = None
  /\ UNCHANGED <<tier, dirs, export, run, reports, delta, used>>

-----------------------------------------------------------------------------
\* The client.

\* Variant: a server answers to any name.
answers_any(c) == server # None /\ server.state = "up"

\* A request names its model: a server of another name refuses it.
answers(c) == server # None /\ server.state = "up" /\ server.name = c.served_name

\* extract_prediction: the first tool call, without an action if its arguments are not an
\* object, nothing if there is no call.
extract_prediction(response) ==
  IF response.tool = None THEN [tool |-> None, action |-> None]
  ELSE [tool |-> response.tool,
        action |-> IF response.parsed THEN response.action ELSE None]

is_all_right(prediction, ground) == prediction = ground

Error == [error |-> TRUE, all_right |-> FALSE]
record(response, s) ==
  [error |-> FALSE, all_right |-> is_all_right(extract_prediction(response), Ground[s])]

-----------------------------------------------------------------------------
\* graspo eval run.

\* resolve_eval_target: a checkpoint that is no model needs a directory to be merged into.
resolve_eval_target(c) ==
  \/ c.checkpoint = None /\ c.role = "base"
  \/ c.checkpoint # None /\ kind(c) # None /\ (kind(c) = BASE_MODEL \/ c.merged_dir # None)

StartRun(c) ==
  /\ run.pc = "idle" /\ used.runs < MaxRuns
  /\ resolve_eval_target(c)
  /\ run' = [pc |-> "waiting", config |-> c, attempt |-> 0,
             posts |-> [s \in Samples |-> 0], records |-> [s \in Samples |-> None],
             by |-> {}]
  /\ used' = [used EXCEPT !.runs = @ + 1]
  /\ UNCHANGED <<tier, dirs, export, server, reports, delta>>

\* Variant: there is always another probe.
gives_up_never(attempt, late) == FALSE

gives_up(attempt, late) == late \/ attempt + 1 >= MaxAttempts

\* wait_until_ready: a probe is answered, or fails, and the last one ends the run; so does
\* any once the time is up.
ProbeAnswered ==
  /\ run.pc = "waiting" /\ answers(run.config)
  /\ run' = [run EXCEPT !.pc = "sampling"]
  /\ UNCHANGED <<tier, dirs, export, server, reports, delta, used>>

ProbeFailed(late) ==
  /\ run.pc = "waiting" /\ ~answers(run.config)
  /\ run' = IF gives_up(run.attempt, late) THEN Idle
            ELSE [run EXCEPT !.attempt = IF @ < MaxAttempts THEN @ + 1 ELSE @]
  /\ UNCHANGED <<tier, dirs, export, server, reports, delta, used>>

\* The requests under way: those a worker has taken, in the order of the samples.
open_(s) == run.records[s] = None
under_way(s) == open_(s) /\ Cardinality({t \in Samples : t < s /\ open_(t)}) < Workers

Answered(s) ==
  /\ run.pc = "sampling" /\ under_way(s) /\ answers(run.config)
  /\ run' = [run EXCEPT !.records[s] = record(Answer[server.model][s], s),
                        !.by = @ \cup {server.model}]
  /\ UNCHANGED <<tier, dirs, export, server, reports, delta, used>>

\* _post: a request that fails is posted again; the last failure is the sample's error.
PostFails(s) ==
  /\ run.pc = "sampling" /\ under_way(s)
  /\ IF answers(run.config) THEN fault ELSE UNCHANGED used
  /\ run' = IF run.posts[s] + 1 = MaxRetries THEN [run EXCEPT !.records[s] = Error]
            ELSE [run EXCEPT !.posts[s] = @ + 1]
  /\ UNCHANGED <<tier, dirs, export, server, reports, delta>>

\* Variant: a sample without an answer counts as one that was not right.
summarize_all(records, overlap) ==
  LET correct == {s \in Samples : records[s].all_right}
      outside == IF overlap = None THEN {} ELSE Samples \ overlap
  IN [valid |-> Cardinality(Samples), errors |-> 0, correct |-> Cardinality(correct),
      overlap_performed |-> overlap # None,
      excluding |-> IF overlap = None THEN None
                    ELSE [correct |-> Cardinality(correct \intersect outside),
                          valid |-> Cardinality(outside)],
      excluded_count |-> IF overlap = None THEN None
                         ELSE Cardinality(Samples \ outside)]

\* Samples with an error are in no denominator; the overlap with the training set is
\* left out where it was analysed, and the count of what is left out has the errors in it.
summarize(records, overlap) ==
  LET valid == {s \in Samples : ~records[s].error}
      correct == {s \in valid : records[s].all_right}
      outside == IF overlap = None THEN {} ELSE valid \ overlap
  IN [valid |-> Cardinality(valid), errors |-> Cardinality(Samples \ valid),
      correct |-> Cardinality(correct),
      overlap_performed |-> overlap # None,
      excluding |-> IF overlap = None THEN None
                    ELSE [correct |-> Cardinality(correct \intersect outside),
                          valid |-> Cardinality(outside)],
      excluded_count |-> IF overlap = None THEN None
                         ELSE Cardinality(Samples) - Cardinality(outside)]

\* A server that hangs up in the middle of a request, dying or not, raises what _post does
\* not catch (RemoteDisconnected, ConnectionResetError): the whole evaluation ends.
ConnectionLost ==
  /\ run.pc # "idle" /\ (run.pc = "sampling" => \E s \in Samples : under_way(s))
  /\ server # None /\ server.state = "up" /\ fault
  /\ run' = Idle
  /\ server' \in {server, [server EXCEPT !.state = "dead"]}
  /\ UNCHANGED <<tier, dirs, export, reports, delta>>

WriteReport ==
  /\ run.pc = "sampling" /\ \A s \in Samples : ~open_(s)
  /\ reports' = [reports EXCEPT ![run.config.output_dir] =
                   [config |-> run.config, by |-> run.by,
                    summary |-> summarize(run.records, run.config.overlap)]]
  /\ run' = Idle
  /\ UNCHANGED <<tier, dirs, export, server, delta, used>>

KillRun ==
  /\ run.pc # "idle" /\ fault
  /\ run' = Idle
  /\ UNCHANGED <<tier, dirs, export, server, reports, delta>>

-----------------------------------------------------------------------------
\* graspo eval delta.

\* Variant: how many samples were valid is not compared.
comparable_any(before, after) == TRUE

\* _comparability_notes, of what may differ here: as many valid samples in both.
comparable(before, after) == before.summary.valid = after.summary.valid

\* compute_delta: from a report on the base, unless any role is allowed, over as many
\* samples; None is a refusal.  The difference of the accuracies, which have one
\* denominator, is one of counts.  sft_pass, which is of the second report alone, is left
\* out.
compute_delta(before, after, any_role) ==
  IF ~comparable(before, after) \/ ~(any_role \/ before.config.role = "base") THEN None
  ELSE LET difference == after.summary.correct - before.summary.correct
           n == before.summary.valid
       IN [before |-> before, after |-> after, any_role |-> any_role,
           graspo_pass |-> n > 0 /\ difference >= Threshold]

Delta(before, after, any_role) ==
  /\ reports[before] # None /\ reports[after] # None
  /\ delta' = compute_delta(reports[before], reports[after], any_role)
  /\ UNCHANGED <<tier, dirs, export, server, run, reports, used>>

-----------------------------------------------------------------------------
Next ==
  \/ \E c \in Configs : \/ \E overwrite \in BOOLEAN : Export(c, overwrite)
                        \/ Serve(c) \/ StartRun(c)
  \/ Merge \/ SaveConfig \/ SaveWeights \/ SaveTokenizer \/ KillExport
  \/ Load \/ ServerDies \/ Remove
  \/ ProbeAnswered \/ \E late \in BOOLEAN : ProbeFailed(late)
  \/ \E s \in Samples : Answered(s) \/ PostFails(s)
  \/ ConnectionLost \/ WriteReport \/ KillRun
  \/ \E before, after \in OutputDirs, any_role \in BOOLEAN : Delta(before, after, any_role)

\* An evaluation and a merge are programs that go on; a request ends with an answer or in
\* its time limit.  Nothing makes the server load, or an operator act.
Fairness ==
  /\ WF_vars(ProbeAnswered \/ \E late \in BOOLEAN : ProbeFailed(late))
  /\ WF_vars(\E s \in Samples : Answered(s) \/ PostFails(s))
  /\ WF_vars(WriteReport)
  /\ WF_vars(Merge \/ SaveConfig \/ SaveWeights \/ SaveTokenizer)

Spec == Init /\ [][Next]_vars /\ Fairness

-----------------------------------------------------------------------------
\* Properties.

Right(m) == {s \in Samples : is_all_right(extract_prediction(Answer[m][s]), Ground[s])}

Written == {reports[d] : d \in OutputDirs} \ {None}

own(c) == \A o \in Configs \ {c} :
  o.served_name # c.served_name /\ (c.merged_dir = None \/ o.merged_dir # c.merged_dir)

\* Where configurations have servers and directories of their own, all answers of a report
\* are of the model its configuration names: base, checkpoint and vision tower, whatever
\* merges were killed, repeated or refused before (merge_peft_checkpoint,
\* eval_serve_vllm.sh, wait_until_ready).
NamedModel ==
  \A r \in Written : own(r.config) => r.by \subseteq {Subject(r.config)}

\* A report counts for and against a model only what it answered: a server that dies or
\* fails requests makes samples errors, which are in no count, also where the overlap with
\* the training set is left out (evaluate_sample, summarize).
HonestAccuracy ==
  \A r \in Written : \A m \in r.by :
    LET s == r.summary
        missed == Samples \ Right(m) IN
    /\ s.valid + s.errors = Cardinality(Samples)
    /\ s.correct <= Cardinality(Right(m)) /\ s.valid - s.correct <= Cardinality(missed)
    /\ s.overlap_performed =>
         LET outside == Samples \ r.config.overlap IN
         /\ s.excluding.correct <= Cardinality(Right(m) \intersect outside)
         /\ s.excluding.valid - s.excluding.correct <= Cardinality(missed \intersect outside)

\* Progress is claimed of two models only where it is there: with all samples answered, if
\* and only if the second is right as much more often; a run that lost more samples than
\* the other gives no verdict, nor does a first report on another model than the base
\* unless that was asked for (compute_delta).
DeltaMeansProgress ==
  delta # None =>
    LET lost(r) == r.summary.errors IN
    /\ delta.before.config.role = "base" \/ delta.any_role
    /\ lost(delta.before) = lost(delta.after)
    /\ lost(delta.before) = 0 =>
         \A b \in delta.before.by, a \in delta.after.by :
           delta.graspo_pass <=> Cardinality(Right(a)) - Cardinality(Right(b)) >= Threshold

\* An evaluation ends, with its report or an error, whatever the server does, and so does
\* a merge (wait_until_ready, _post).
EvaluationEnds ==
  /\ run.pc # "idle" ~> run.pc = "idle"
  /\ export.pc # "idle" ~> export.pc = "idle"
====
