---- MODULE SwiftChecks ----
(***************************************************************************)
(* Cases and properties of the ms-swift backend.                           *)
(***************************************************************************)
EXTENDS Cases, SwiftLaunch

LOCAL INSTANCE SequencesExt

Sizes == {{}, {0}, {1}, {2}, {3}}

Configuration ==
  \E method \in {"graspo", "sft", "cpt", "opd"}, per_device, nproc \in Sizes, nnodes \in {{}, {2}},
     G \in 1..6, smoke \in BOOLEAN :
    \E lmbda \in IF method = "opd" THEN {{}, {5}, {10}} ELSE {{}},
       tuner \in {"lora", "full"}, autotp \in {{}, {0}, {2}},
       save_steps \in {0, 5}, iterations \in {{}, {2}} :
      /\ method # "graspo" => G = 1 /\ nproc = {} /\ nnodes = {} /\ iterations = {}
      /\ picks([of |-> "launch", smoke |-> smoke,
                config |-> [train_method |-> method, per_device_train_batch_size |-> per_device,
                            nproc_per_node |-> nproc, nnodes |-> nnodes, rollout_group_size |-> G,
                            lmbda |-> lmbda, tuner_type |-> tuner, deepspeed_autotp_size |-> autotp,
                            fp8_param_gather |-> FALSE, max_new_tokens |-> 7, lora_r |-> 8,
                            freeze_vit |-> {}, save_steps |-> save_steps, use_vllm |-> {TRUE},
                            save_checkpoint_every_epoch |-> TRUE, num_iterations |-> iterations]])

\* Processes of a launcher, each with its rank, or one process by itself.
Seeding ==
  \E ranks \in 1..3, engine \in {"drifted", "missing", "wrapped", "plain"}, fails \in BOOLEAN,
     launched \in {"torchrun", "distributed", "alone"} :
    \E calls \in [1..ranks -> 0..(RankStride + 1)] :
      /\ launched = "alone" => ranks = 1
      /\ picks([of |-> "seeds", engine |-> engine, fails |-> fails, calls |-> calls,
                env |-> [r \in 1..ranks |->
                  [RANK |-> IF launched = "torchrun" THEN {r - 1} ELSE {},
                   LOCAL_RANK |-> IF launched = "torchrun" THEN {(r - 1) % 2} ELSE {},
                   dist |-> IF launched = "alone" THEN {} ELSE {r - 1}]]])

RewardOf == [right |-> Threshold, near |-> Threshold \div 2, prose |-> 0, fails |-> 0]

\* A batch of a launch that is taken, with requests that have their ids in any of some orders,
\* samples known by their prompts only, or by where they are in memory, which may be where one
\* of an earlier batch was; and what the completions of a batch before it said, if there was one.
Batch ==
  \E per_device \in 1..4, nproc \in 1..2, G \in 2..4 :
    LET n == per_device * nproc * ((G + per_device * nproc - 1) \div (per_device * nproc)) IN
    /\ n % G = 0 /\ n <= 6
    /\ \E texts_ \in [1..n -> IF n <= 4 THEN DOMAIN RewardOf ELSE {"right", "near", "prose"}],
          ids \in {"requests", "reversed", "prompts", "none", "recycled"}, untargeted \in {0, 1},
          earlier \in {"none", "near", "fails"},
          formats \in {<<"json", "json", "json">>, <<"json", "tool_call", "json">>} :
         /\ earlier # "none" => n <= 4
         /\ picks([of |-> "batch", earlier |-> earlier, nproc |-> nproc, mini_batch |-> per_device,
                   G |-> G, ids |-> ids,
                   samples |-> [i \in 1..n |->
                     LET prompt == ((i - 1) \div G) + 1 IN
                     [at |-> i, text |-> texts_[i],
                      request_id |-> CASE ids = "requests" -> {i} [] ids = "reversed" -> {n - i}
                                       [] OTHER -> {},
                      prompt_id |-> IF ids \in {"none", "recycled"} THEN {} ELSE {prompt},
                      targets |-> IF prompt = untargeted THEN {}
                                  ELSE {[prompt |-> prompt, format |-> formats[prompt]]}]]])

-----------------------------------------------------------------------------
\* What ms-swift demands of its options in a world of so many processes.
swift_accepts(argv, world) ==
  /\ "rlhf_type" \notin DOMAIN argv =>
       DOMAIN argv \cap {"num_iterations", "max_completion_length", "use_vllm"} = {}
  /\ "rlhf_type" \in DOMAIN argv =>
       /\ argv.rlhf_type = "gkd" => "num_iterations" \notin DOMAIN argv
       /\ argv.rlhf_type = "grpo" =>
            LET per_device == IF "per_device_train_batch_size" \notin DOMAIN argv THEN 1
                              ELSE argv.per_device_train_batch_size IN
            /\ argv.generation_batch_size % argv.num_generations = 0
            /\ per_device > 0 =>
                 argv.generation_batch_size = per_device * world * argv.steps_per_generation

\* What validation takes, ms-swift takes, and a batch it refuses ms-swift would refuse:
\* rollouts are whole groups, of as few batches as will do.  Nothing is distilled from
\* answers the rows do not have, adapters are never split over cards, and a smoke run
\* saves after its first step whatever the configuration says.
LaunchSound ==
  case.of = "launch" =>
    LET config == case.config
        argv == graspo_to_ms_swift_argv(config, case.smoke)
        processes == launcher_env(config)
        set(name) == IF name \notin DOMAIN processes THEN 1
                     ELSE IF processes[name] = 0 THEN 1 ELSE processes[name]
        world == set("NPROC_PER_NODE") * set("NNODES") IN
    /\ valid_combination(config) =>
         /\ swift_accepts(argv, world)
         /\ config.train_method = "opd" => argv.lmbda >= DEFAULT_OPD_LMBDA
         /\ "lora_rank" \in DOMAIN argv /\ "deepspeed_autotp_size" \in DOMAIN argv =>
              argv.deepspeed_autotp_size = 0
         /\ case.smoke => argv.save_strategy = "steps" /\ argv.save_steps = 1
         /\ config.train_method = "graspo" =>
              /\ argv.generation_batch_size >= config.rollout_group_size
              /\ argv.generation_batch_size - global_batch_size(config) < config.rollout_group_size
    /\ ~rl_batch_divisible(config) => ~swift_accepts(argv, world)

\* A training that ends as seeded had a seed for every rollout of every process, no two of
\* them alike as long as a process makes no more rollouts than its share of seeds.
SeedsSound ==
  case.of = "seeds" =>
    LET run(r) == run_seeded(case.engine, 17, resolve_rollout_rank(case.env[r]), case.calls[r],
                             case.fails)
        made == UNION {{r} \X DOMAIN run(r).seeds : r \in DOMAIN case.calls} IN
    /\ case.engine # "missing" =>
         \A r \in DOMAIN case.calls :
           run(r).outcome = "done" => Len(run(r).seeds) = case.calls[r] /\ case.calls[r] > 0
    /\ (\A r \in DOMAIN case.calls : case.calls[r] <= RankStride) =>
         \A a, b \in made : run(a[1]).seeds[a[2]] = run(b[1]).seeds[b[2]] => a = b

\* The batch of the case on every process, with ms-swift's own advantages: what a completion
\* has more or less than its prompt's completions on average.
local_samples(r) ==
  LET n == Len(case.samples) \div case.nproc IN SubSeq(case.samples, (r - 1) * n + 1, r * n)

same_prompt(a, b) == (a.at - 1) \div case.G = (b.at - 1) \div case.G
completions_of(sample) == SelectSeq(case.samples, LAMBDA s : same_prompt(s, sample))
scalar_advantage(sample) ==
  [kind |-> "ms-swift",
   v |-> case.G * RewardOf[sample.text]
           - FoldLeft(LAMBDA sum, s : sum + RewardOf[s.text], 0, completions_of(sample))]

\* ms-swift gathers the rewards of all processes in the order of their requests.
reward_table ==
  LET rewards == [i \in DOMAIN case.samples |-> RewardOf[case.samples[i].text]] IN
  IF case.ids = "reversed" THEN Reverse(rewards) ELSE rewards

\* The samples of the batch before, of the same prompts: requests have ids of their own.
earlier_samples(r) ==
  LET before(s) == [s EXCEPT !.text = case.earlier, !.request_id = {id + 100 : id \in @},
                             !.at = IF case.ids = "recycled" THEN @ ELSE @ + 100] IN
  IF case.earlier = "none" THEN <<>>
  ELSE [i \in DOMAIN local_samples(r) |-> before(local_samples(r)[i])]

trained_rows(r) ==
  LET samples == local_samples(r)
      known == annotate_with_graspo(Nothing, earlier_samples(r)) IN
  train_batch(known, samples, reward_table, [i \in DOMAIN samples |-> scalar_advantage(samples[i])],
              case.G, case.mini_batch).rows

\* Whether the native trainer would train on the sample's group.
group_trained(sample) ==
  LET group == completions_of(sample) IN
  /\ \A i \in DOMAIN group : group[i].targets # {} /\ group[i].text # "fails"
  /\ classify_group([rewards |-> [i \in DOMAIN group |-> RewardOf[group[i].text]],
                     content |-> [i \in DOMAIN group |-> IF group[i].text \in Structured
                                                         THEN FullContent ELSE 0],
                     parse_errors |-> [i \in DOMAIN group |-> FALSE]], 0) \in TrainableDecisions

\* Advantages put into a batch are those of the text first known under the row's key, in this
\* batch or one before it, and so, where requests have ids, of the row's own completion; a piece
\* of the batch has them for all of its rows or for none.  As long as processes share no
\* prompts but in equal parts, they are taken among completions of one prompt with its own
\* targets; one process puts them in where the native trainer would train on all of the rows,
\* and nowhere else.  Which groups several processes train is not stated: each of them pairs
\* its own samples with the first rows of the rewards of all.
AdvantagesOwn ==
  case.of = "batch" =>
    \A r \in 1..case.nproc :
      LET samples == local_samples(r)
          rows == trained_rows(r)
          piece(i) == {j \in DOMAIN rows : (j - 1) \div case.mini_batch = (i - 1) \div case.mini_batch}
          own_prompts == Len(samples) % case.G = 0 \/ case.G % Len(samples) = 0
      IN \A i \in DOMAIN rows :
           /\ \A j \in piece(i) : rows[i].kind = rows[j].kind
           /\ rows[i].kind = "graspo" =>
                LET alike == SelectSeq(earlier_samples(r) \o samples,
                                       LAMBDA s : sample_key(s) = sample_key(samples[i])) IN
                rows[i].text = alike[1].text
           /\ rows[i].kind = "graspo" /\ case.ids \in {"requests", "reversed"} =>
                /\ rows[i].text = samples[i].text
                /\ own_prompts =>
                     LET group == SelectSeq(samples, LAMBDA s : same_prompt(s, samples[i])) IN
                     /\ rows[i].group = [k \in DOMAIN group |-> group[k].text]
                     /\ rows[i].targets = value_of(samples[i].targets)
           /\ (case.nproc = 1 /\ case.ids \in {"requests", "reversed"}) =>
                (rows[i].kind = "graspo" <=> \A j \in piece(i) : group_trained(samples[j]))

\* "this group produces NO training signal" (trainer.py:391), and :285: the groups that are
\* not to be trained are set to nothing.
SkippedGroupsSilent ==
  case.of = "batch" /\ case.nproc = 1 /\ case.ids = "requests"
    /\ (\A i \in DOMAIN case.samples : case.samples[i].targets # {} /\ case.samples[i].text # "fails") =>
    \A i \in DOMAIN case.samples :
      LET row == trained_rows(1)[i] IN
      ~group_trained(case.samples[i]) /\ row.kind = "ms-swift" => row.v = 0

\* What is handed to ms-swift is what the configuration asks for, its rollouts have seeds of
\* their own, and a row is given the advantages of its own group (flow/msswift).
SwiftSound == LaunchSound /\ SeedsSound /\ AdvantagesOwn
====
