# A TLA+ verification project for GRASPO

GRASPO trains language models with LoRA: reinforcement learning from structured
rewards (the GRASPO trainer) and supervised fine-tuning (the SFT trainer), on a
native runtime with data, tensor and pipeline parallelism. This directory holds
TLA+ models of the part of it that decides what is trained, when, how often and
together with whom, what reward and which advantages a completion gets, on which cards a
job runs, and what is believed of a run or a model afterwards; TLC checks them on small
instances, TLAPS proves the most important results for every instance.

All source paths below are relative to `src/src/graspo/`, those that begin with
`scripts/`, `run.sh`, `README.md`, `docs/` or `tests/` to `src/`.

## 1. Inventory

### Components, their state and operations

| Component | Source | State | Operations |
|---|---|---|---|
| Group decision | `ripple/group_decision.py` | none (pure) | `classify_group`, `lower_median`, `has_reward_variance`, replay threshold |
| RL training loop | `flow/trainer/trainer.py`, `rollout.py`, `optimize.py` | epoch, queue, retries, replay buffer, counters, statistics | `train`, `_sample_queue`, `_rollout_queue_attempt`, `_finalize_sample`, `_maybe_optimize` |
| Replay buffer, statistics | `ripple/buffer.py`, `ripple/monitoring/stats.py` | list of experiences; run and epoch counters | append, take, clear; to/from a dict |
| Trainer checkpoints | `flow/trainer/checkpoint.py` | what is written and read | `_save_checkpoint`, `_resume_if_requested` |
| SFT training loop | `flow/trainer/sft_trainer.py`, `flow/adapters/models/qwen35_36/training_sft.py` | sample list, epoch, batch, step, skips | `train`, `train_batch_sft`, `_resume_if_requested` |
| RL optimizer step | `flow/adapters/models/qwen35_36/training.py` | gradients, optimizer, scheduler | `train_batch`, `_pipeline_train_batch_one_f_one_b` |
| Gradient sync and gate | `flow/lora/lora_linear.py`, `flow/adapters/models/common/grad_probe.py` | gradients | DP average, TP sum, finite/populated flags |
| 1F1B schedule | `flow/parallel/scheduling/` | position in the schedule | `run` |
| Pipeline communication | `flow/parallel/pipeline_comm.py` | posted sends and receives, send window | `fwd/bwd_send/recv`, `wait`, `wait_all` |
| Process groups, placement | `flow/parallel/state.py`, `placement_plan.py` | groups, ranks, layer ranges (every rank its own) | `initialize`, `build_placement_plan` |
| Rendezvous watchdog | `flow/parallel/rendezvous_watchdog.py` | armed deadline | arm, disarm, fire |
| Output directory and checkpoint files | `cli/app.py`, `flow/trainer/helpers.py`, `flow/adapters/transformer_adapter.py`, `flow/lora/lora_io.py` | shards, manifests, exports, logs on disk | check and clear, save, load, export |
| Generation | `.../qwen35_36/generation.py` | tokens, caches, finished rows | token loop, on one stage or several; micro-batches of rows with images |
| Rewards | `ripple/reward/` | none (pure) | compare two objects, score a completion against several targets |
| Parsing | `ripple/parsing/` | none (pure) | tool calls in markup or JSON, typed arguments, rendering of a target |
| Annotation, advantages | `ripple/annotation/` | none (pure) | label the pieces of a completion, penalise an unfinished end, token advantages |
| Data, multimodal rows | `ripple/data.py`, `ripple/multimodal/`, `flow/adapters/multimodal_tensors.py` | none (pure) | validate a record, encode and slice rows, collate a supervised batch |
| ms-swift backend | `flow/msswift/` | caches of prompts and advantages in a process | map the configuration, prepare rows, seed rollouts, replace advantages |
| Result judgement | `core/result_judge.py`, `scripts/collect_results.py`, `scripts/a4_calibrate.py` | the directory a run has left | collect, A1 to A7, classify a failure, calibrate, compare two runs |
| GPU guard | `core/gpu_guard.py`, `cli/gpu_monitor.py`, `run.sh` | environment of each process; cards in use | parse and check the cards, check idleness, sample |
| Evaluation | `eval/`, `cli/eval_commands.py`, `scripts/eval_serve_vllm.sh` | merged directory, server, report | merge, serve, wait, ask, report, compare |
| Command line, workers | `cli/app.py`, `cli/train_worker.py` | | check, clear, start workers |
| Loss, layers, optimizer offload, configuration schema, logging | `ripple/loss.py`, `flow/adapters/models/`, `core/schema.py`, `flow/logging.py` | tensors, files | not modelled |

### How they interact

* The trainers call the adapter through `flow/runtime.py`; there are no callbacks
  and no threads but the watchdog's. Concurrency is between processes: one per
  (data-parallel, pipeline, tensor) rank, all running the same `train()`.
* Ranks meet only in `torch.distributed` collectives (WORLD, `dp_group`,
  `tp_group`) and in point-to-point messages on `pp_group_fwd` and `pp_group_bwd`.
  Collectives pair by the order of the calls, messages by the order of the posts.
* Rewards, annotation and data are functions that the trainers call between two
  collectives; under ms-swift they are called by an external trainer instead.
* `run.sh`, the launcher and the workers are three processes on a chain, each of which
  checks the cards anew, under other numbers.
* A run and its judgement, a merge, a server and an evaluation share nothing but
  directories and a port, and may be killed or repeated independently.
* A restart is a new launch with `resume_from_checkpoint`. All that survives is a
  checkpoint: each rank's shard (weights, optimizer, random state) with the
  trainer state.

### What is hard here

* *Restarts in the middle of something*: a checkpoint is taken inside a rollout
  queue, whose samples are finished in another order than they were drawn; a resume
  knows only a count.
* *Two replicas that are not in the same place*: each decides by its own data how
  often it enters a collective.
* *A rank that fails where its peers wait*: infinite losses, missing gradients.
* *Pipelines*: bounded windows, two channels and a schedule that must neither
  deadlock nor cross messages.
* *Evidence that is out of date*: a probe of a checkpoint that has been replaced since, a
  card that was idle when it was looked at, a server of the right name with another model.
* *Formulas in several places*: ranks, points of a reward, offsets of images, labels and
  parser: two computations that have to agree on every input.
* *State that carries over*: the replay buffer from queue to queue, the shuffled list
  from epoch to epoch.

The hazards are listed in `PROJECT.json`, each at its line and with the properties
that cover it.

### What makes each component correct

* RL loop: no sample of an epoch lost or repeated (over restarts, as far as the code
  can keep that), no experience lost before it is handed to `train_batch` or handed to it
  twice, one optimizer step per
  queue, no error raised by the loop against itself, termination.
* Replicas: the same collective at the same time, the same updates, nothing dropped.
* Pipeline: every message reaches the computation it is for, no deadlock, bounded
  activations, one decision about each step.
* SFT loop: lock step of replicas, exact resume, nothing saved after a hard failure.
* Checkpoint files: whatever is killed when, nobody reads a mixture of two saves, and
  nothing is deleted that the configuration does not allow.
* Placement: ranks that compute everything by themselves agree on who holds what.
* Rewards, labels, advantages: a right completion is told from a wrong one, at the right
  place, and what scores more within its group gets more.
* Rows: every row is trained with its own images, and exactly the answers are trained.
* Judgement: a run that did not train, or not to its end, does not pass.
* GPU guard: no worker on a card it was not given; nothing cleared before the check.
* Evaluation: a number in a report is about the model it names.

## 2. Modules

| Module | Models | Rests on |
|---|---|---|
| `GroupDecision` | the decision on one rollout group, as operators | |
| `RLTrainer` | the RL loop of one replica with restarts | `GroupDecision`, `EpochLedger` |
| `EpochLedger` | abstract: every epoch takes every sample once, in order; `RLTrainer` has the refinement mapping to it (`ImplementsLedger`) | |
| `MCRLTrainer` | instances of `RLTrainer` | `RLTrainer` |
| `RLTrainerProofs` | theorems about `RLTrainer` | `RLTrainer`, TLAPS |
| `DPTrainer` | several replicas of the RL loop and their collectives | |
| `DPTrainerProofs` | theorems about `DPTrainer` | `DPTrainer`, TLAPS |
| `OneFOneB` | the stages of a pipeline through several optimizer steps | |
| `OneFOneBProofs` | theorems about `OneFOneB` | `OneFOneB`, TLAPS |
| `SFTTrainer` | all replicas of the SFT loop with restarts | |
| `MCSFTTrainer` | instances of `SFTTrainer` | `SFTTrainer` |
| `SFTTrainerProofs` | theorems about `SFTTrainer` | `SFTTrainer`, TLAPS |
| `CheckpointFiles` | the output directories over several launches | |
| `CheckpointFilesProofs` | theorems about `CheckpointFiles` | `CheckpointFiles`, TLAPS |
| `PipelineRollout` | the generation of completions by a pipeline, with ranks that fail or hang | |
| `PipelineRolloutProofs` | theorems about `PipelineRollout` | `PipelineRollout`, TLAPS |
| `ResultJudge` | the criteria on one run, failure classes, ledger status, as operators | |
| `CollectedRun` | a run, the directory it leaves, and the evidence collected from it | `ResultJudge` |
| `CollectedRunProofs` | theorems about `CollectedRun` and the judgement of `ResultJudge` | `CollectedRun`, TLAPS |
| `GpuGuard` | the rules on cards and the idleness check, as operators | |
| `GpuLaunch` | launches from the host to the loaded model, with other work on the cards | `GpuGuard` |
| `MergedExport` | what a checkpoint is and how it is merged, as operators | |
| `Evaluation` | merges, a server, evaluations and their comparison | `MergedExport` |
| `EvaluationProofs` | theorems about `Evaluation` | `Evaluation`, TLAPS |
| `Cases` | the frame of the checks of pure algorithms: a behaviour picks one input | |
| `RunComparison` | calibration and comparison of two runs | `ResultJudge` |
| `Rewards`, `Parsing`, `Annotation` | JSON comparison and rewards; texts and parsers; labels and advantages | each on the one before |
| `TrainingRows`, `MediaBatches` | records and the rows made of them; rollout and supervised batches | |
| `SwiftLaunch` | options, seeds and advantages under ms-swift | `GroupDecision` |
| `Placement` | ranks, groups, layers, with their cases and properties | `Cases` |
| `RowChecks`, `SwiftChecks`, `AlgorithmChecks` | cases and properties of the other pure algorithms | `Cases` and theirs |
| `MCCollectedRun`, `MCGpuLaunch`, `MCEvaluation`, `MCAlgorithmChecks` | instances | |

### `RLTrainer` and the code

`self` is the trainer object, `disk` the newest checkpoint, `pc` the place in
`train()`. An *experience* is named by the epoch and sample it was rolled out
for; a tensor is never modelled. `handed` counts how often each name was handed to
`train_batch`: it stands for the weights, and so it is saved and restored with them.
What `train_batch` makes of what it is handed is below the model: it leaves out an
incomplete last micro-batch (`training.py:86`) and micro-batches whose loss is not
finite (125), and the buffer is cleared of all of them.

| Action | Code |
|---|---|
| `Start` | `train` up to the loop: `_resume_if_requested`, then the epoch to begin with |
| `BeginEpoch`, `BeginQueue` | the epoch loop: shuffle, offset of a resumed epoch, the next queue |
| `RolloutAttempt` | one sample of `_rollout_queue_attempt` and what `_sample_queue` makes of the decision |
| `FinalizeSample` | `_finalize_sample` with `_maybe_optimize` and the save it may trigger |
| `SmokeStop`, `EndEpoch`, `Finish` | the three places that flush and save |
| `Restart` | the process dies or has ended, and is launched again |

A rollout returns any group of the constant `Groups`; the classification of it is the
code's, not a choice. The group's attempts of one round are taken sample by
sample: only a restart, which discards them, can come between two.

### `DPTrainer` and the code

Each replica has an `agenda`: the collectives it is committed to, the head of which it
has entered. `FinalizeSample`, `EndEpoch` and `Finish` are one replica's own
progress; `Decide`, `SyncGradients`, `Gather` and `Barrier` complete when every rank
has entered a call of that kind. `Decide` does not look at *why* a rank calls
(`want` or `flush`), as the all-reduce does not: that ranks with different reasons
meet is what `CollectivesMatch` excludes.

### `OneFOneB` and the code

A stage performs the operations of `OneFOneBScheduler.run` in order. `posted` holds
what each end of a link has posted on each process group; `Transport` pairs the oldest
posts of both ends (NCCL ignores tags). `inflight` is the send window of
`PipelineComm`, `works` the list that `wait_all` goes through. After the schedule
the stages go through the finiteness collective, the gradient gate, the step and the
loss collective, and start again.

### `SFTTrainer` and the code

One `pc` per rank; labels of `Waiting` are calls that wait for all ranks.
`tokenized` is the list in its present order, so that the in-place shuffle is
modelled by what it does. `trained` counts, per epoch and sample, the batches it was
in, and is saved with the weights. A rank that raises goes on to `close`, as the
`finally` of `train()` does, and waits there.

### `CheckpointFiles` and the code

`disk[d][f]` is a file of output directory `d`: absent, partly written, or the save it
holds (a launch and a step). A launch goes through the launcher's preparation of the
directory (`LauncherClears`, `LauncherRefuses`, `StartWorkers`), and each worker through
the trainer's constructor, `setup`, the second preparation (`Prepare` on rank 0,
`AwaitPrepared` elsewhere), its logger, the resume, and a save after every step. A save
is `BeginShard`, `CompleteShard`, `Barrier`, `WriteManifest` and, on rank 0 of an RL
trainer, `Export`. `RemoveFile` is one step of `rmtree`. `Kill` may come between any two.
`step_<n>` stands for every directory a save before the last may have; a manifest and an
export are written in one step.

At this commit the RL trainer refuses every launch that resumes (see the departures).
`Restart` of `RLTrainer` models the resume code that lies behind that refusal.

### `PipelineRollout` and the code

`self[r]` holds the locals of `_pipeline_generate_batch` on rank `<<stage, tp_rank>>`:
the tokens so far, the finished rows, the token being agreed on. `hidden` names the hidden
state at hand by the tokens it was computed from. One turn of the loop is `Sample` on
the last stage, `TokenBroadcast` down every `pp_group`, `TPBroadcast` in every stage (which
pads finished rows, appends, and decides whether to go on), and the forward pass of the
token: `Compute` and `Transfer` from stage to stage. `Fail` lets a rank raise or hang in a
forward pass; what ends the rollout then is `Timeout` (the waits with a limit),
`WatchdogFires`, `Abort` and `Reap`. Time is abstract: a limit may be reached in a job with
a fault and in no other, since the limits (300 and 600 seconds) are far from any healthy
wait (`core/schema.py:716`).

The code asks for `native.allow_unverified_pp_rollout` before it runs this path.
`generation_pp.py` has an older version of it that no adapter uses; `generation.py` is
what is modelled.

### `CollectedRun` and the code

`history` is what really happened, `dir` what is in the directory: exit code, the patterns
in the log, what stdout.log says of losses and gradients, the rows of `rank_metrics.jsonl`,
ms-swift's own state, the checkpoint with the
content it was written from, and the probe. `Train` is one optimizer step on all ranks with
what each saw (`Outcome`), `HardFail` the step that raises, `Die` every end of the process with
what it leaves in log and exit code, `Restart` a launch that resumes or begins anew in the
same directory, `Lose` a file that is gone when the run is collected. `evidence` is what
`collect_results.py` reads from that, the fallback to stdout.log where there are no rows
included (`extract_steps_and_series`, `extract_artifacts`), `judgement` what `judge_tier` says of it;
`PassMeansTrained` compares the judgement with `history`.

### `GpuLaunch` and the code

A launch goes through `Pick` and `HostGuard` (`run.sh`, `gpu_lock_guard.py`), the container,
`Launch` (`require_gpu_lock_or_exit` in the launcher), `PrepareOutput`, `StartWorkers`,
`WorkerGuard`, `TakeCard` (`torch.cuda.set_device(local_rank)`) and `LoadModel`, which is
where the card begins to be in use. `visible` says which cards a process is shown and under
which numbers. A *recipe* is a way to hand the cards over; among them are those that lose
them on the way, and one without a container (`host`). `OtherWork` changes the use of a card at any time.

### `Evaluation` and the code

`dirs` holds what a merged directory has in it (configuration, weights with the model they
are of, tokenizer), `server` what is loaded and under which name, `run` an evaluation with
its pool of workers. `Merge`, `SaveConfig`, `SaveWeights`, `SaveTokenizer` are the writes
of `merge_peft_checkpoint`, `KillExport` and `KillRun` come anywhere, `Load` reads the directory
as it is then. `ProbeAnswered` and `ProbeFailed` are one turn of `wait_until_ready`, `Answered`
and `PostFails` one post of a worker. `ConnectionLost` is a connection broken off while a
request is under way, which ends the evaluation. `WriteReport` is `summarize` and the write; `Delta` is
`compute_delta`.

### The pure algorithms

`AlgorithmChecks` enumerates inputs: a behaviour picks an area, then one case of it. What the
operators compute is compared with a definition of another kind: points of an object
with likeness of objects (`Alike`), labels with the position of the edit and with the
parser, split layers with all ways to split them, images of micro-batches with those of
the rows, options with what ms-swift accepts of them, the tolerance with the signature of a
bug. Texts are sequences of pieces: a mark, a name, a word, white space; a piece may be
cut in two. The functions of `ripple/` keep their names, `Annotation` and
`Parsing` rest on the same pieces, so that labeler and parser read the same text.

## 3. What TLC checks

| Run | Shows |
|---|---|
| `rl_trainer` | the loop never raises its own errors; experience conservation; step cadence; exact sample counts of every epoch over restarts, a restart displacing less than a queue of samples, statistics that agree, smoke runs that are bounded (`EpochAccount`); termination |
| `rl_ordered` | without retries `RLTrainer` implements `EpochLedger` |
| `one_f_one_b` | pairing without tags, activation bound, whole steps and agreement on them, no stage waits for ever |
| `dp_trainer` | matching collectives, nothing dropped; no replica waits for ever (deadlock check; behaviours are finite) |
| `sft_trainer` | lock step, exact step account, no sample twice in an epoch that was not resumed, hard failure, the job ends |
| `checkpoint_files` | shards of one directory are of one save; ranks resume alike; exports and manifests stand over complete saves; nothing is lost unasked, the logs of a running job included; every job ends |
| `pipeline_rollout` | all ranks hold the same tokens, although each tensor-parallel rank samples its own, and rows stay finished; untagged hidden states meet their tokens; no rank waits for ever, whatever fails or hangs |
| `judgement` | a run judged usable was trained to its end, its checkpoint is whole and its own, and it made the updates the tier asks for; no step of its last attempt was idle and, where the steps can be read, none of any attempt was idle or made the weights NaN; the context boundary moves only for memory |
| `gpu_launch` | no two workers of a launch on one card, nothing cleared by a launch that names a card the host does not allow, no peak memory read from a card that was not named; and, where the guard has judged what the workers see (`judged_as_seen`: in a container that has the cards it was given), every worker on a card that its launch named and the host allows, and none on one seen in use |
| `evaluation` | every answer of a report is of the model its configuration names; failures count neither for nor against; progress is claimed where it is; evaluations and merges end |
| `algorithms` | A4, rewards, annotation, rows, ms-swift hand-over, placement, each against its reference definition |
| `swift_skipped` | a counterexample, see below |

Each module with variables has a type invariant (`TypeOK`), proved for `RLTrainer`,
`DPTrainer`, `OneFOneB`, `SFTTrainer`, `CheckpointFiles`, `PipelineRollout`, `CollectedRun` and
`Evaluation` (the last two state it in their proof modules); the configurations list the invariants that say more.

### Where the code departs from what is written about it

`swift_skipped` ends in a counterexample, quoted in `PROJECT.json`: under ms-swift, a group
that `classify_group` rejects keeps the scalar advantages ms-swift has computed for it,
where log line and docstring say it gives no training signal (`flow/msswift/trainer.py:385`).

More were met while modelling; the modules model what the code does.

*Training.*

* A replica without a usable micro-batch, or without a gradient for a parameter, misses an
  update that the others make (`training.py:164`, `lora_linear.py:283`; `weights` of
  `DPTrainer` shows it), against docs/flow.md:459.
* A resume within the second SFT epoch cuts batches from a list shuffled once instead of twice
  (`sft_trainer.py:236`, against the comment at 494).
* `_assert_no_frozen_steps` reads the trainer's counter, the skips are counted in the
  adapter's: `final` is written after a skip (`sft_trainer.py:409`).
* The RL trainer makes `logs/` in its constructor and then refuses the output directory as
  not empty (`trainer.py:80`, against the comment at 100), also for every resume. `Restart` of
  `RLTrainer` models the resume code behind that refusal.
* The launcher clears the output directory also of a launch that is to resume from a
  checkpoint in it (`cli/app.py:364`, against `trainer.py:145`).
* The RL trainer does not trim the shards `samples[dp_rank::dp_size]` to one length, and each
  finalised sample is a WORLD all-reduce: with three samples on two replicas
  `CollectivesMatch` fails (`DPTrainer.cfg` with `samples = 3` shows it).
* `train` resumes an epoch at a count of finished samples, while retried samples finish out
  of order: a resume would finalise one sample twice and another never
  (`BoundedDisplacement` says how far that goes).
* A launch with `--smoke` is said to stop after its first optimizer step
  (`cli/train_worker.py:47`, `trainer.py:125`), but the boundary is read before the step
  (`rollout.py:433`): it goes on to the second. A flush at the end of an epoch
  (`save_checkpoint_every_epoch`) asks for no boundary at all: where every step is such a flush,
  a smoke launch goes through all epochs, so that `smoke_limit` counts them (`SmokeBounded`, a
  part of `EpochAccount`, states what holds).
* The prefill of a generation reads the logits of a row at its number of tokens minus one,
  not the last token of a row padded on the left (`generation.py:817`, against 806).
* `logprobs.py:123` broadcasts over WORLD from rank `(pp_size - 1) * tp_size`: with several
  replicas each gets the log-probabilities of the first one's sequences, against the comment
  at `generation.py:863`; they are the old log-probabilities of `loss.py:73`.
* `state.py:7` has another formula for `tp_rank` than line 107. Manual `layer_ranges` of
  another length than `pp_size` are ignored.

*Rewards, parsing, annotation.*

* The best target is chosen by its points, numbers included (`reward.py:136`, `reward.py:235`): one
  that is nearer in numbers but wrong hides one that is all right, against README.md:409. That a
  right completion is found right is therefore stated of one target (`RewardBounded`).
* A value token that reaches beyond its value gets raw 0 and so less than the mean of its
  field (`advantages.py:231`, against docs/ripple.md:159).
* A value with white space ends at the first blank and goes on as an error, in a completion that
  is right (`tool_call_labeler.py:306`, against README.md:453; `second_words` of `AlgorithmChecks`);
  a tool call in JSON is parsed and scored, but labelled wrong from its first brace on
  (`JsonCallParsed`). A value cut in two spans counts twice in the mean of its group; text cut within a parameter's name
  is an error, against README.md:450. The JSON labeler notices neither a missing comma nor a
  missing field, against README.md:456. Only the parameters of the first target are
  used, and a second right call is an error.
* `<tool_call>` mentioned in thinking makes parser and labeler disagree; the check of
  `root.tail` in `qwen_tool_parser.py:177` cannot fire; nested and array values have raw 0,
  booleans in JSON never score.

*Rows and ms-swift.*

* Messages behind the last user turn do not reach the rows of ms-swift
  (`dataset.py:331`), against `flow/msswift/dataset.py:54`; a system message that is not the first is dropped
  (`left_out` of `RowChecks` names both, and `PromptOf` says that all else is in the row); images of the history
  become text. An image used twice fails an assertion of the offset tables
  (`multimodal_tensors.py:245`). A prompt of `max_seq_length` leaves no trained label. Of a
  target with content and calls only the calls are trained.
* `generation.py:546` indexes rows by their place within a chunk: right only since
  `_shared_rollout_prompt_chunk_size` returns the whole queue (the mutant of `RowsSound` returns one).
* `_group_rewards` pairs by position where its docstring says by id
  (`flow/msswift/trainer.py:819`); `_rollout_groups` takes up to `num_generations` local
  samples as one group whatever their prompts; caches are never cleared, and a key that comes
  again, in another batch or for another sample, keeps the text it had first
  (`flow/msswift/trainer.py:254`, 536): it gets the labels of that text. With several processes
  each pairs its samples with the first rows of all rewards (849).
  `validate_rl_batch_divisibility` may advise sizes that it refuses again.
  Where LOCAL_RANK stands in for the rank, two nodes have the same seeds.

*Judgement, cards, evaluation.*

* `collect_results.py:1977` takes a log with `train_batch_sft` and exit code 0 for a
  guarantee that nothing was skipped; that word is printed by the warning of a skip that
  was allowed (`training_sft.py:331`). Rows of earlier attempts in a directory count as
  steps. Where the step gate does not apply, A2 passes without any evidence on weights.
* A native run without `rank_metrics.jsonl` is judged by stdout.log (`collect_results.py:662`), which
  has the last attempt only; a gradient that is NaN is not found there, since json writes `NaN`
  and the pattern knows lower case (66). A run with an idle step in an earlier attempt, or whose last step
  made the weights NaN, can pass then, and one that ran out of memory after such a step bounds the
  context: `PassMeansTrained` and `OOMBoundary` ask for rows where they speak of it (`steps_read`).
* Peers' timeouts come before out of memory in the order of the patterns, so that a
  multi-rank out of memory is not counted as one. `_is_sign_flip` cannot decide anything
  behind the tolerance; a last loss that is not a number, in either run, or infinite in both,
  passes A4, since every comparison with the difference is false (2199-2206). A family that is not known falls back to the one with the
  largest tolerance, against the docstring at `result_judge.py:980`.
* Without a container NVIDIA_VISIBLE_DEVICES passes the guard (`gpu_guard.py:118` describes that
  use) and the workers take the cards from 0 on, whatever was looked at. A container that lost its cards
  but has the runtime's marker is only counted: on a machine of no more cards than a job may have it
  passes. These two are the launches outside `judged_as_seen`. `run.sh:86` picks among cards 0 to 5 where the guard allows 4 to 7
  by default. The output directory is cleared (`app.py:174`) before the number of
  processes is checked (175).
* `prepare` says a merged directory is reused without looking at which adapter is in it;
  `existing_merged_output` accepts weights that are cut off; `classify_checkpoint` looks for
  safetensors in native checkpoints, which are `rank_*.pt`; `compute_delta` compares only the
  numbers of valid samples. `assert_base_matches` compares the last parts of two paths
  (`merged_export.py:579`). A connection that the server breaks off raises what `_post` does not catch
  (`vllm_client.py:420`): the whole evaluation ends without a report, against line 368. Nothing notices a server replaced by another of the same name,
  which is why `NamedModel` asks for names and directories of their own.

### Bounds, and why they are enough

* `RLTrainer`: 3 samples, 2 epochs, queues of 2 (so the last is short), groups of 2,
  1 retry, 1 restart; a save after every second step, or whenever the clock says so,
  which is after any step. Six groups, one for each way through
  `classify_group` and `_finalize_sample`. That is enough for a retry that overtakes,
  a carried-over buffer, a save in the middle of a queue, a restart there, and a
  resume in either epoch. `RLOrdered` has 4 samples and 2 restarts, so that one
  restart follows another in the same epoch.
* `DPTrainer`: 2 replicas, 4 (or 3) samples, 2 epochs, threshold 2. The proof removes
  the bounds.
* `OneFOneB`: 4 stages, 3 chunks, window 1, 2 steps. With fewer chunks than stages
  the first stage is all fill and the last all steady; a window of one is the tightest;
  the second step shows that nothing of the first is left on a channel.
* `SFTTrainer`: 2 replicas, 11 samples (shards of 6 and 5, batches of 2, so both a
  dropped batch and different counts), 2 restarts, saves of every kind.
* `CheckpointFiles`: 2 ranks, 2 directories, 2 launches, 2 steps: a second launch may meet
  whatever the first left behind, in its own directory or in the one it resumes from.
* `PipelineRollout`: 2 stages of 2 tensor-parallel ranks, so that there are two
  samples to part and two groups to agree; 2 rows, 3 tokens, so that one row can stop, be
  padded, and run on while the other is open; 2 chunks, so that something could be left over
  and the watchdog has to be on again; 1 fault, of any rank in any forward pass.
* `CollectedRun`: 2 ranks, 2 steps, one recorded step that is not as it should be, one
  restart: the smallest run with a step before and a step after whatever happens. The plans
  have thresholds below, at and above the number of steps, and every source of evidence
  present and absent.
* `GpuLaunch`: a machine of cards 0 to 6 (0 to 3 of which run.sh picks from and the guard does not
  allow by default, and are numbers inside a container; the others are allowed), which are more than a job may
  have, and one of cards 0 to 3; two launches and every way of handing cards over, `host` and
  `open` included; symmetry in the launches.
* `Evaluation`: 2 samples (one of which may be in the training set), 2 workers, 2 posts and
  2 probes, 2 evaluations and 2 merges, one fault: a report with an error can be
  compared with one without. The installations have bases with and without a vision tower, loaders
  that are missing, an adapter of another base, and a checkpoint that is a model.
* `algorithms`: jobs of up to 3 x 3 x 3 ranks and a rank too many; up to 5 layers on up to 4
  stages with every sequence of layer types; objects of two fields with lists of two and one
  level of nesting; two calls against two targets; completions of five pieces; every single
  edit of an answer with values of one word and of two, and of a call in JSON; groups of three, whole,
  with lost ends or truncated; two batches of ms-swift, the second with keys of the first; pools of five readings, NaN and infinity included; batches
  of four samples with images of different size.
* `Restart` is bounded by `MaxRestarts`, steps of the pipeline by `Steps`; nothing else
  is bounded but the size of the constants.

### Fairness

`WF_vars(Step)` (or of each rank's actions): a process that can go on does, which is
all that a sequential program under an operating system needs. `WF` of a
collective: `torch.distributed` completes a collective that all ranks have entered,
and moves a message whose two ends are posted. No fairness is assumed of restarts,
of saves by the clock, or of what a rollout returns; nobody has to launch or kill a job. In `SFTTrainer` the
collectives' fairness includes the time limit of mismatched collectives; `AllEnd`
needs it (a rank that raised and its peers wait in different calls), while in
`OneFOneB` and `DPTrainer` there is no time limit and everything ends without one.
In `PipelineRollout` no rank has to fail; `WF` of the time limits and of the watchdog says
that a clock runs on, and of `Reap` that torchrun notices an exit.
In `Evaluation` (`Fairness`) a merge, a loading server and an evaluation go on, a probe or a
post is answered or fails (they have a time limit), and nothing is assumed of operators,
kills and dying servers. The other new modules state safety only.

## 4. What is proved

`RLTrainerProofs`, for every finite set of samples, shuffle, set of groups and
configuration:

| Theorem | States |
|---|---|
| `Inductive` | `Spec => []IInv` |
| `TypeCorrect` | `Spec => []TypeOK` |
| `NoErrors` | `Spec => []NoTrainerError` |
| `Conservation` | `Spec => []ExperienceConservation` |
| `Cadence` | `Spec => []StepCadence` |
| `AccountInductive` | `Spec => []AccountInv` |
| `WholeAccount` | `Spec => []EpochAccount` |
| `Refinement` | without retries, `Spec => ImplementsLedger` |

The invariant of the first five is `IInv == TypeOK /\ NoTrainerError /\ LoopInv /\ QueueInv /\
ConservationInv`. `NoTrainerError` is not inductive: that a save meets an empty buffer
follows because the flush before it clears the buffer, and that a retry stays within
the bound because `classify_group` refuses the retry; `TypeOK` needs `LoopInv` (a
resumed position lies within the dataset). `StepCadence` needs `QueueInv`: the buffer
always holds a whole number of groups, fewer than `QueueSize` (`BufferLevel`), and a
queue has at most `QueueSize` samples, so that the threshold is passed at most once in
it. `ConservationInv` adds that a checkpoint on disk is *balanced* (all that was
appended was handed to `train_batch`), which holds because a save meets an empty buffer, and is what
a restart relies on. The lemmas before it say what `append_experiences`, `optimize`
and the flush do to buffer and accounts.

`EpochAccount` is about launches that follow one another, so its invariant `AccountInv` speaks
of the checkpoint as well: `Counted`, `Displaced` and `Drifted` are said of the trainer object
and of what is on disk. `Counted` fixes the tally of every epoch (those behind are whole, those
ahead empty), `Displaced` the samples an epoch has missed so far, `Drifted` how far the
run's statistics are ahead of the samples. In the middle of a queue a sample that is *under way*
is not yet missed (`Settled`). A checkpoint taken there has forgotten which samples were
under way: it holds the losses of one restart more than have happened (`restarts_ahead`), fewer
than a queue of samples, and a restart makes that true. The number of a set of finalisations is
followed by `TallyUp`, one element at a time. `SmokeInv` adds the smoke boundary: over its limit
a launch has asked to stop. Nothing is assumed of the configuration.

`Refinement` maps the trainer to the ledger of its weights' past, and a process that has not
restored yet to the ledger on disk. `OrderInv` says that this ledger always has the first
`samples_seen` samples of the epoch's order and no others, in memory and on disk, and that the
queue holds the next ones in order (`LineInv`). From it every finalisation is a `Take` of the
next sample, with or without a save; every other save is a `Save`, the end of a process a
`Resume`, and all else stutters (`StepOrdered`). `MaxRetries = 0` is needed: a sample that is
retried is finalised after those behind it, and a resume at a count then takes one sample twice
and another never, which is what `Displaced` allows.

`DPTrainerProofs`, for any number of replicas:

| Theorem | States |
|---|---|
| `AccountKept`, `ReplicasTypeCorrect`, `ReplicasDropNothing` | types, and `[]NothingDropped`, for any shards and any clocks |
| `ReplicasTogether` | with `EqualShards` and without timed saves, `[]CollectivesMatch` |

`CollectivesMatch` speaks of ranks in a call; a rank still rolling out is in none. The
invariant `Together` therefore gives each rank the *place* it is in or will next be in
(`Place`), and says that all ranks have the same: own progress does not change a
rank's place, and a collective moves all of them alike. `EqualShards` is the assumption
that shards of different length violate; without timed saves likewise, since the clocks of
two ranks may stand on different sides of the limit.

`OneFOneBProofs`, for every number of stages, chunks and optimizer steps and every size of
the send window:

| Theorem | States |
|---|---|
| `Invariant` | `Spec => []IInv` |
| `TypeCorrect` | `Spec => []TypeOK` |
| `MessagesMatch` | `Spec => []PairedByOrder` |
| `MemoryBounded` | `Spec => []ActivationBound` |
| `StagesAgree` | `Spec => []AgreeOnSteps` |

`PairedByOrder` speaks of the one message a stage has just been given; it holds because of
all that is on the way to it. `Channel` of the invariant `IInv == TypeOK /\ StageInv /\ StepInv
/\ ChannelInv /\ GotInv` therefore says what is on the way: the sender has posted the chunks
it has done and the receiver has not been given, in their order, and the receiver the one
receive it waits for. That needs the schedule: `NextOperation` shows that the n-th operation
of a stage is its next forward or its next backward, never one out of turn, and
`ForwardsBounds` that forwards lead backwards by at most `pp_size - p`, which is also the
bound on activations. `Synced` follows: stages that meet in a collective have empty
channels, so that nothing of a step is left for the next. A group for both directions or a
drain in another order breaks `Channel`; that the windows and channels never block for ever is
liveness and stays with TLC.

`SFTTrainerProofs`, for any number of replicas, samples, epochs and restarts, any shuffle and
any pattern of infinite losses:

| Theorem | States |
|---|---|
| `Invariant`, `Typing` | `Spec => []Inv`, `Spec => []TypeOK` |
| `Steps` | `Spec => []StepAccount` |
| `Samples` | `Spec => []NoSampleTwice` |
| `Closed` | `Spec => FailClosed`, an action property |
| `Together` | without timed saves, `Spec => []LockStep` |

`StepAccount` is about the head of the batch loop; the invariant `Inv` says at every place
what the counter is: at the head of the epoch loop (`HeadOf`) the batches of the epochs behind
it and those a resume skips, inside it (`BodyOf`) the batches of this epoch as well, and on
disk (`ShardOf`) the batches before the position that a resume makes of the shard. That is
arithmetic with products of two variables, which the lemmas on batches do once. Samples are
counted by sets: `Once` says that the samples of the first n batches of the list have been
taken once and the others never, and `Permuted` that the list has every place once, so that
the next batch takes none of them. A shuffle is a surjection of a finite set on itself and
therefore keeps that (`FiniteSetTheorems`); the list of a shard is sorted out by least
elements (`Least`, from well-founded induction on `Nat`), since induction over data is not to
be had. After a resume the list of the first epoch is the one that epoch began with; in a
later one it is not (see the departures), and `NoSampleTwice` makes no claim. `Closed`
follows because one rank that has raised never enters the barrier of a save, and no rank writes before
all have.

`LockStep` speaks of ranks in a call, as `CollectivesMatch` does, and is proved in the same way:
`Meets(r)` is the collective that rank r waits in or is on the way to, with epoch, batch and
resume position, and `MeetInv` says it is the same for all. This needs that
the number of batches is agreed (`n_batches`, a collective minimum), that the shards of a save hold one
position (`DiskAgrees`), and that shards of different length need no more: unlike in
`DPTrainer` no `EqualShards` is assumed. With timed saves two ranks part, as in `DPTrainer`.

`CheckpointFilesProofs`, for any number of ranks, directories, steps and launches, each of which may be killed between
any two file operations:

| Theorem | States |
|---|---|
| `Invariant`, `Typing` | `Spec => []Inv`, `Spec => []TypeOK` |
| `Directories` | `Spec => []OneSavePerDirectory` |
| `Resuming` | `Spec => []ResumedAlike` |
| `Exporting` | `Spec => ExportWhole`, an action property |
| `Keeping` | `Spec => NothingLostUnasked`, an action property |

`OneSavePerDirectory` is about complete shards and is kept by a rank that completes one only because
of what that rank cannot see. The invariant adds who may be where while a directory is
prepared (`PrepareInv`: no worker writes before rank 0 has answered, and what a job writes it writes in a
directory that was empty then), that all ranks train and save the same step
(`StepInv`: the barrier lets one be ahead by the way to the next save, and the last two
saves may have the same step), that nothing is written before it is due (`DueInv`), that the shards under a
manifest or an export stay as they are while it is written (`ManifestInv`: the others can at
most have gone on to `final`), and that what a rank has loaded is still on disk in a directory
that is not the job's own (`LoadInv`, the clearing of an output directory that holds the
checkpoint to resume from being the departure named above).

`PipelineRolloutProofs`, for any number of stages, tensor-parallel ranks, rows, tokens and chunks, whatever raises,
hangs or runs into a limit:

| Theorem | States |
|---|---|
| `Invariant`, `Typing` | `Spec => []Inv`, `Spec => []TypeOK` |
| `SameTokens` | `Spec => []SameSequences` |
| `Hidden` | `Spec => []HiddenForTokens` |

That ranks hold the same tokens is not inductive: the next token is known to some before
others, and each tensor-parallel rank of the last stage has another one in its hand. The
invariant says there *is* one sequence of positions (chunk, tokens, finished rows), each
following from the one before by an appended token or by the next chunk, and every rank is at
one of them, in one of five phases: receive, compute, send, sample, broadcast. `Synced` says
how far apart ranks may be: neighbours meet in a transfer, the ranks of a stage when they
compute and when they append, a `pp_group` in its broadcast; `Known` that the sequence
goes on only behind a token that the ranks which broadcast it in the stages (`tp_rank` 0) all have. The token of
another tensor-parallel rank is in no position, which is why it is lost without harm. The
sequence is an existentially quantified ghost, so that the module keeps no history.

`CollectedRunProofs`, for any tiers, any number of ranks, steps and restarts, whatever is recorded, dies
or is lost before the collection:

| Theorem | States |
|---|---|
| `Invariant`, `Typing` | `Spec => []Inv`, `Spec => []TypeOK` |
| `Usable` | `Spec => []PassMeansTrained` |
| `Boundary` | `Spec => []OOMBoundary` |

Both properties relate what `judge_tier` concludes from the directory to what happened, so the
invariant says what of it can be read there. `RecordInv`: the rows (of ms-swift: the lines)
account for every recorded step of every attempt, as long as their file is not lost; a step
without an update and one that made the weights NaN can be found in them. `PairsInv` says what
stdout.log keeps where they are lost: a step of the last attempt that moved nothing is a loss that
is missing, and any other line with a loss an update. `MovedInv`: what is
recorded or saved as moved has moved. `EndInv`: exit code 0 is left only behind a whole checkpoint
of the last attempt. `LogInv`: the text of running out of memory is left only by an attempt that
did. The other half is what each criterion lets through (`MetA1`, `MetA2`, `MetA3`, `MetA5` and `MetA6` from `AllMet`): A1
that the exit code was 0, A2 that no step was without an update and that there are as many as the tier asks
for, A3 that the checkpoint that is there has been loaded as it is, A6 that no reading is NaN,
A5 that the files it has been read from are there. A lost file leaves a criterion without its evidence, and `judge_tier` does not pass what it has none of.
The count of skips is a sum over the rows (`extract_skipped_nonfinite`); the proof needs no value
of it.

`EvaluationProofs`, for any installations, configurations and answers, any number of samples, workers and
retries, and any merges, servers and evaluations, killed anywhere:

| Theorem | States |
|---|---|
| `Invariant`, `Typing` | `Spec => []Inv`, `Spec => []TypeOK` |
| `Named` | `Spec => []NamedModel` |
| `Honest` | `Spec => []HonestAccuracy` |
| `Progress` | `Spec => []DeltaMeansProgress` |

`NamedModel` is about a report; that it names the right model is settled long before. The
invariant follows the adapter: a merge holds that of a configuration which names its directory
(`ExportInv`), weights in a directory are of such a configuration (`DirInv`), and so a server
that has loaded them holds the model of its configuration, if no other one names the directory
(`ServerInv`): base and adapter from the merge (a checkpoint that is a model is served as it is), the vision tower from the refusal to load
another. `RunInv` says that an evaluation hears one model: once there is an answer, its server
is neither loading nor gone, dead or not. A server of the same name is then the
configuration's own, which is where `own` is needed. `ReportInv` keeps, as an existential, the
records a report was made of, so that `HonestAccuracy` is a statement on one set of records: the
samples noted right are the valid ones among those the model is right on (`RightWhereNoted`), and
the rest is counting of finite sets (`Part`, `Counted`), once for all samples and once for those
outside the overlap. `DeltaInv` keeps the two reports of a verdict, which may have been
overwritten since; equal numbers of valid samples are equal numbers of lost ones (`Lost`).

Assumptions are the `ASSUME`s of the modules (`ParametersAssumption`,
`OrderAssumption`, `MaxRetriesAssumption`, `DPAssumption`, `PipelineAssumption`, `SFTAssumption`,
`ShuffleAssumption`, `NoCheckpointAssumption`, `CheckpointAssumption`, `RolloutAssumption`,
`CollectedAssumption`, `EvaluationAssumption`), which TLC evaluates in every run, and those stated in a
theorem. Those on `None` say that it is no value of the program: no checkpoint, no list of
steps, no container.

Only model-checked: liveness (`Termination`, `AllEnd`, `AllStepsEnd`, `EveryJobEnds`,
`RolloutEnds`, `EvaluationEnds`), all of `GpuLaunch`, and the pure algorithms.
Liveness and `ENABLED` are beyond the prover. `GpuLaunch` sorts sets of cards into sequences
(`SetToSortSeq`), which is defined by a choice among all sequences, so that nothing can be proved
of it without induction; and what its properties say holds of recipes that are listed one by one
in its instance, with the ways of handing cards over that the scripts have, where a theorem
would have to assume of every recipe what these have in common. The pure algorithms are
recursive over data (`Rewards`, `Parsing`, `Annotation`), where the prover has no induction,
or are compared with a reference by enumeration.

## 5. What is not modelled

* Tensors, losses, gradients, model layers, the optimizer's offload: only whether a loss or
  gradient is finite, present, or applied.
* Characters: texts end at pieces, tokens are made of pieces. Floating point: scores are
  integers in units of a point, losses in units of 1e-7, loads in 1/800 of a layer.
* The trainers take a save as one step; `CheckpointFiles` takes it apart, without what the
  shards hold.
* Tensor parallelism of a training step: its ranks run in lock step inside a stage.
* Data and pipeline parallelism together, but for the placement of their ranks.
* The exception path of `train()` (`_abort_distributed`) and bounded waits, but in
  `PipelineRollout`; the steps of the watchdog's own thread.
* ms-swift's training loop, vLLM, docker, torchrun and nvidia-smi are external: modelled from
  how the code relies on them.
* The configuration schema, logging, metrics, the rendering and merging of the ledger, analysis
  and development tools: files in, files out, without an order of events to get wrong. The
  checks of the schema that decide about a launch are in `GpuLaunch`, `SwiftLaunch` and
  `Evaluation`.

## 6. Plan

Done, in this order: `GroupDecision`, `RLTrainer`, `EpochLedger` with proofs; `DPTrainer` with
proofs; `OneFOneB` with proofs; `SFTTrainer`; `CheckpointFiles`; `PipelineRollout`; `CollectedRun`;
`GpuLaunch`; `Evaluation`; the pure algorithms; proofs of `SFTTrainer`, `CheckpointFiles`,
`PipelineRollout`, `CollectedRun` and `Evaluation`. Left:

1. `RendezvousWatchdog`: the thread itself. *A rollout that has returned is not ended;
   one that hangs is*; the two seconds of `disarm` against the ten of the firing.
2. `PipelineReplicas`: DP together with PP; different numbers of chunks.
3. `RLTrainer`'s atomic save as an abstraction of `CheckpointFiles`.
4. Proofs: `ClearedBehindTheGuard`, with the sorted cards as a parameter; the ranks and groups of
   `PlacementSound`.
