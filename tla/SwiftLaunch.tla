---- MODULE SwiftLaunch ----
(***************************************************************************)
(* The ms-swift backend: the options a configuration is turned into, the   *)
(* seeds of its rollouts, and the advantages this program puts into        *)
(* ms-swift's batches (flow/msswift).                                      *)
(*                                                                         *)
(* A field of the configuration or of the environment is a set: empty if   *)
(* it is not set, else with its value.  Options are a function from their  *)
(* names, of which the last one given counts.                              *)
(***************************************************************************)
EXTENDS GroupDecision

LOCAL INSTANCE SequencesExt

CONSTANT RankStride \* _RANK_STRIDE, distance of the seeds of two ranks

value_of(field) == CHOOSE v \in field : TRUE
\* int(field or 1), at least 1
or_one(field) == IF field \subseteq {0} THEN 1 ELSE value_of(field)
option(name, field) == [n \in {name : v \in field} |-> value_of(field)]

-----------------------------------------------------------------------------
\* Options (_config_mapping.py).

world_size(config) == or_one(config.nproc_per_node) * or_one(config.nnodes)
global_batch_size(config) == or_one(config.per_device_train_batch_size) * world_size(config)

\* As few batches as hold one group, at least one.
steps_per_generation(config) ==
  LET n == (config.rollout_group_size + global_batch_size(config) - 1) \div global_batch_size(config)
  IN IF n > 1 THEN n ELSE 1
generation_batch_size(config) == global_batch_size(config) * steps_per_generation(config)

\* validate_rl_batch_divisibility, as what it takes.
rl_batch_divisible(config) ==
  \/ config.train_method # "graspo"
  \/ config.rollout_group_size <= 1
  \/ generation_batch_size(config) % config.rollout_group_size = 0

DEFAULT_OPD_LMBDA == 10 \* in tenths

\* validate_combinations, as what it takes.
valid_combination(config) ==
  /\ rl_batch_divisible(config)
  /\ config.train_method = "opd" => \A lmbda \in config.lmbda : lmbda >= DEFAULT_OPD_LMBDA
  /\ ~config.fp8_param_gather
  /\ config.deepspeed_autotp_size \subseteq {0} \/ config.tuner_type = "full"

stage_of(config) == IF config.train_method = "graspo" THEN "rlhf" ELSE config.train_method

\* What every stage is given, and what a training run of adapters or of the whole model is.
common_options(config) ==
  option("max_completion_length",
         IF stage_of(config) \in {"rlhf", "opd"} THEN {config.max_new_tokens} ELSE {})
    @@ option("lora_rank", IF config.tuner_type = "lora" THEN {config.lora_r} ELSE {})
    @@ option("freeze_vit", IF config.tuner_type = "lora" THEN {}
                            ELSE IF config.freeze_vit = {} THEN {FALSE} ELSE config.freeze_vit)

save_options(config) ==
  IF config.save_steps > 0
  THEN [save_strategy |-> "steps", save_steps |-> config.save_steps]
  ELSE option("save_strategy", IF config.save_checkpoint_every_epoch THEN {"epoch"} ELSE {})

stage_options(config) ==
  CASE config.train_method = "cpt" -> [loss_scale |-> "all"]
    [] config.train_method = "graspo" ->
         [rlhf_type |-> "grpo", num_generations |-> config.rollout_group_size, beta |-> 0,
          generation_batch_size |-> generation_batch_size(config),
          steps_per_generation |-> steps_per_generation(config)]
    [] config.train_method = "opd" ->
         [rlhf_type |-> "gkd",
          lmbda |-> IF config.lmbda = {} THEN DEFAULT_OPD_LMBDA ELSE value_of(config.lmbda)]
    [] OTHER -> <<>>

\* msswift_passthrough_argv
passthrough_options(config) ==
  option("per_device_train_batch_size", config.per_device_train_batch_size)
    @@ option("deepspeed_autotp_size", config.deepspeed_autotp_size)
    @@ option("use_vllm", IF stage_of(config) \in {"rlhf", "opd"} THEN config.use_vllm ELSE {})
    @@ option("num_iterations",
              IF stage_of(config) # "rlhf" THEN {}
              ELSE IF config.num_iterations = {} THEN {1} ELSE config.num_iterations)

\* A smoke run saves after its first step.
smoke_options(config) ==
  [max_steps |-> IF config.train_method = "graspo" THEN or_one(config.num_iterations) ELSE 1,
   save_strategy |-> "steps", save_steps |-> 1, save_total_limit |-> 1]

\* graspo_to_ms_swift_argv, with what the trainers add.
graspo_to_ms_swift_argv(config, smoke) ==
  option("reward_funcs", IF config.train_method = "graspo" THEN {"graspo"} ELSE {})
    @@ (IF smoke THEN smoke_options(config) ELSE <<>>)
    @@ passthrough_options(config) @@ stage_options(config) @@ save_options(config)
    @@ common_options(config)

launcher_env(config) ==
  option("NPROC_PER_NODE", config.nproc_per_node) @@ option("NNODES", config.nnodes)

-----------------------------------------------------------------------------
\* Seeds of rollouts (_rollout_seed.py).

\* The first of these that is set, and a number.
resolve_rollout_rank(env) ==
  LET sources == <<env.RANK, env.LOCAL_RANK, env.dist>> IN
  IF \A i \in DOMAIN sources : sources[i] = {} THEN 0
  ELSE value_of(SelectSeq(sources, LAMBDA s : s # {})[1])

derive_rollout_seed(base_seed, rank, call_index) == base_seed + RankStride * rank + call_index

\* A training under rollout_seeding, which makes `calls` rollouts and then fails or not.  Of
\* the engine there may be nothing, no method to wrap, or one that is wrapped already.
run_seeded(engine, base_seed, rank, calls, fails) ==
  LET ends(outcome, seeds) ==
        [outcome |-> outcome, seeds |-> seeds, engine |-> engine] IN
  CASE engine = "drifted" -> ends("refused", <<>>)
    [] engine = "missing" -> ends(IF fails THEN "failed" ELSE "done", <<>>)
    [] engine = "wrapped" -> ends(IF fails THEN "failed" ELSE "refused", <<>>)
    [] engine = "plain" ->
         ends(IF fails THEN "failed" ELSE IF calls = 0 THEN "refused" ELSE "done",
              [i \in 1..calls |-> derive_rollout_seed(base_seed, rank, i - 1)])

-----------------------------------------------------------------------------
\* Advantages (trainer.py).  A sample is a completion: its place in the batch of all
\* processes, the ids of its request and of its prompt, its targets with their format, and
\* its text, which stands for its annotation too.  A text "fails" if it cannot be annotated.

Structured == {"right", "near"}

sample_key(sample) ==
  IF sample.request_id # {} THEN <<"request", value_of(sample.request_id)>>
  ELSE IF sample.prompt_id # {} THEN <<"prompt", value_of(sample.prompt_id)>>
  ELSE <<"id", sample.at>>

\* The text known under the key of a sample, whoever had it, or else its own.
completion_text(known, sample) ==
  IF sample_key(sample) \in DOMAIN known.texts THEN known.texts[sample_key(sample)]
  ELSE sample.text

\* _annotate_with_graspo: the first text of a key stays, over all batches of a process.
annotate_with_graspo(known, samples) ==
  FoldLeft(LAMBDA k, s :
             LET text == sample_key(s) :> completion_text(k, s) IN
             IF s.targets = {} THEN k
             ELSE [texts |-> text @@ k.texts,
                   annotations |-> IF text[sample_key(s)] = "fails" THEN k.annotations
                                   ELSE text @@ k.annotations],
           known, samples)

\* _global_sample_order, _group_rewards: the samples of this process in the order of their
\* requests are paired with the rows of the table, as far as it goes.
\* Variant: in the order of the batch.
global_sample_order_kept(samples) == samples
global_sample_order(samples) ==
  IF \E i \in DOMAIN samples : samples[i].request_id = {} THEN samples
  ELSE SortSeq(samples, LAMBDA a, b : value_of(a.request_id) < value_of(b.request_id))

group_rewards(samples, rewards) ==
  LET ordered == global_sample_order(samples)
      paired == {i \in DOMAIN ordered : i <= Len(rewards)}
      last(key) == CHOOSE i \in paired :
                     sample_key(ordered[i]) = key
                       /\ \A j \in paired : sample_key(ordered[j]) = key => j <= i
  IN [key \in {sample_key(ordered[i]) : i \in paired} |-> rewards[last(key)]]

\* _rollout_groups: samples of one prompt, or one after the other.  As many as one group has
\* or fewer are one group, whatever their prompts.
rollout_groups(samples, num_generations) ==
  LET prompts == FoldLeft(LAMBDA seen, s : IF Contains(seen, s.prompt_id) THEN seen
                                           ELSE Append(seen, s.prompt_id), <<>>, samples)
      piece(k) == SubSeq(samples, (k - 1) * num_generations + 1,
                         IF k * num_generations < Len(samples) THEN k * num_generations
                         ELSE Len(samples))
  IN IF num_generations <= 1 \/ Len(samples) <= num_generations THEN <<samples>>
     ELSE IF \A i \in DOMAIN samples : samples[i].prompt_id # {}
     THEN [k \in DOMAIN prompts |-> SelectSeq(samples, LAMBDA s : s.prompt_id = prompts[k])]
     ELSE [k \in 1..((Len(samples) + num_generations - 1) \div num_generations) |-> piece(k)]

decide(group, rewards, known) ==
  classify_group(
    [rewards |-> [i \in DOMAIN group |-> IF sample_key(group[i]) \in DOMAIN rewards
                                         THEN rewards[sample_key(group[i])] ELSE 0],
     content |-> [i \in DOMAIN group |->
                    IF known.annotations[sample_key(group[i])] \in Structured THEN FullContent ELSE 0],
     parse_errors |-> [i \in DOMAIN group |-> FALSE]], 0)

\* A group that can be annotated is decided upon.
decidable(group, known) ==
  /\ \A i \in DOMAIN group :
       sample_key(group[i]) \in DOMAIN known.annotations /\ group[i].targets # {}
  /\ Cardinality({value_of(group[i].targets).format : i \in DOMAIN group}) = 1

\* _compute_graspo_token_advantages, by key: a completion's advantages among those of its
\* group, with the targets of the first of them.
token_advantages(samples, known, rewards, num_generations) ==
  LET groups == SelectSeq(rollout_groups(samples, num_generations),
                          LAMBDA group : /\ decidable(group, known)
                                         /\ decide(group, rewards, known) \in TrainableDecisions)
      texts_of(group) == [i \in DOMAIN group |-> completion_text(known, group[i])]
      of_group(group) ==
        FoldLeft(LAMBDA f, i : (sample_key(group[i]) :>
                                  [kind |-> "graspo", text |-> texts_of(group)[i],
                                   group |-> texts_of(group),
                                   targets |-> value_of(group[1].targets)]) @@ f,
                 <<>>, [i \in DOMAIN group |-> i])
  IN FoldLeft(LAMBDA f, group : of_group(group) @@ f, <<>>, groups)

\* _overwrite_advantages: the rows of each piece of the batch get these advantages if all of
\* them have some, else they keep ms-swift's.
overwrite_advantages(samples, advantages, scalars, mini_batch) ==
  [i \in DOMAIN samples |->
     LET piece == {j \in DOMAIN samples : (j - 1) \div mini_batch = (i - 1) \div mini_batch} IN
     IF \A j \in piece : sample_key(samples[j]) \in DOMAIN advantages
     THEN advantages[sample_key(samples[i])] ELSE scalars[i]]

Nothing == [texts |-> <<>>, annotations |-> <<>>]

\* One batch of one process: _score_completions, _compute_advantages, _postprocess_batch.
train_batch(known, samples, rewards, scalars, num_generations, mini_batch) ==
  LET now == annotate_with_graspo(known, samples)
      advantages == token_advantages(samples, now, group_rewards(samples, rewards),
                                     num_generations) IN
  [known |-> now, rows |-> overwrite_advantages(samples, advantages, scalars, mini_batch)]
====
