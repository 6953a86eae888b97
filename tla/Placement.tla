---- MODULE Placement ----
(***************************************************************************)
(* Which layers a rank of a native job holds and which ranks it talks to:  *)
(* placement_plan.py and GraspoFlowState.initialize.  Every rank computes  *)
(* both for itself; nothing is exchanged.  Loads are in 1/800 of a layer.  *)
(***************************************************************************)
EXTENDS Cases, Integers, Sequences, FiniteSetsExt
LOCAL INSTANCE SequencesExt

CONSTANTS
  Nobody,  \* no neighbour, no group
  Unplaced \* the launch is refused

-----------------------------------------------------------------------------
\* Ranks and process groups, of sizes s = [dp, tp, pp].

pp_tp_size(s) == s.tp * s.pp
job_size(s) == s.dp * s.tp * s.pp
Ranks(s) == 0..(job_size(s) - 1)

dp_rank_of(s, rank) == rank \div pp_tp_size(s)
pp_rank_of(s, rank) == (rank % pp_tp_size(s)) \div s.tp
\* Variant: as the docstring of state.py has it.
tp_rank_of_docstring(s, rank) == (rank \div s.pp) % s.tp
tp_rank_of(s, rank) == (rank % pp_tp_size(s)) % s.tp

rank_at(s, dp, pp, tp) == dp * pp_tp_size(s) + pp * s.tp + tp

group(kind, n, member(_)) == [kind |-> kind, ranks |-> [i \in 1..n |-> member(i - 1)]]

\* The calls of new_group a rank makes, each of which waits for all ranks of the job.
new_groups(s) ==
  LET tps == [k \in 1..(s.dp * s.pp) |->
                LET member(i) == rank_at(s, (k - 1) \div s.pp, (k - 1) % s.pp, i)
                IN group("tp", s.tp, member)]
      pp(kind, k) == LET member(i) == rank_at(s, (k - 1) \div s.tp, i, (k - 1) % s.tp)
                     IN group(kind, s.pp, member)
      pps == FlattenSeq([k \in 1..(s.dp * s.tp) |->
               <<pp("pp", k)>> \o IF s.pp > 1 THEN <<pp("fwd", k), pp("bwd", k)>> ELSE <<>>])
      dps == [k \in 1..(s.pp * s.tp) |->
                LET member(i) == rank_at(s, i, (k - 1) \div s.tp, (k - 1) % s.tp)
                IN group("dp", s.dp, member)]
  IN IF job_size(s) > 1 THEN tps \o pps \o dps ELSE <<>>

\* The group of a kind that a rank ends up with: the last one it is a member of.
group_of_rank(s, kind, rank) ==
  LET mine == SelectSeq(new_groups(s), LAMBDA g : g.kind = kind /\ Contains(g.ranks, rank))
  IN IF mine = <<>> THEN Nobody ELSE Last(mine).ranks

initialize(s, started, rank) ==
  IF started # job_size(s) THEN Unplaced
  ELSE LET pp_rank == pp_rank_of(s, rank) IN
       [dp_rank |-> dp_rank_of(s, rank), tp_rank |-> tp_rank_of(s, rank), pp_rank |-> pp_rank,
        groups |-> [kind \in {"tp", "pp", "fwd", "bwd", "dp"} |-> group_of_rank(s, kind, rank)],
        prev |-> IF pp_rank > 0 THEN rank - s.tp ELSE Nobody,
        next |-> IF pp_rank < s.pp - 1 THEN rank + s.tp ELSE Nobody]

\* The rank that _pipeline_sequence_log_probs takes the log-probabilities from, over WORLD.
log_probs_source(s) == (s.pp - 1) * s.tp

-----------------------------------------------------------------------------
\* Layers of a stage, of a model [family, layers, types] under a configuration
\* [strategy, manual], where manual may be empty.  Intervals are <<start, end>>, the end exclusive.

interval(r) == r[1]..(r[2] - 1)

valid_manual_ranges(ranges, layers) ==
  /\ \A i \in DOMAIN ranges : ranges[i][1] < ranges[i][2]
  /\ UNION {interval(ranges[i]) : i \in DOMAIN ranges} = 0..(layers - 1)
  /\ \A i \in 1..(Len(ranges) - 1) : ranges[i][2] = ranges[i + 1][1]

cost(model, i) ==
  IF Len(model.types) = model.layers /\ model.types[i + 1] = "full_attention" THEN 944 ELSE 800

stage_load(model, overheads, stage, start, stop) ==
  FoldSet(LAMBDA i, acc : acc + cost(model, i), overheads[stage], interval(<<start, stop>>))

\* Contiguous intervals for the stages with the least largest load, the shorter first on ties.
minimax_contiguous_ranges(model, overheads) ==
  LET stages == Len(overheads)
      n == model.layers
      solve[start \in 0..n, stage \in 1..stages] ==
        IF stage = stages
        THEN [value |-> stage_load(model, overheads, stage, start, n), ranges |-> <<<<start, n>>>>]
        ELSE LET stops == (start + 1)..(n - (stages - stage))
                 split == [stop \in stops |->
                   LET rest == solve[stop, stage + 1]
                       here == stage_load(model, overheads, stage, start, stop) IN
                   [value |-> Max({here, rest.value}),
                    ranges |-> <<<<start, stop>>>> \o rest.ranges]]
                 first_least(of) ==
                   of[Min({stop \in stops : \A other \in stops : of[stop].value <= of[other].value})]
             IN first_least(split)
  IN IF stages > n THEN Unplaced ELSE solve[0, 1].ranges

balanced_overheads(pp_size) ==
  [i \in 1..pp_size |-> IF i = 1 THEN 150 * pp_size ELSE IF i = pp_size THEN 800 * pp_size ELSE 0]
lm_head_only_overheads(pp_size) == [i \in 1..(pp_size - 1) |-> IF i = 1 THEN 1200 ELSE 0]

resolved_strategy(model, strategy, pp_size) ==
  IF strategy # "auto" THEN strategy
  ELSE IF model.family = "qwen3_5_text" /\ pp_size > 1 THEN "qwen36_pp8_static" ELSE "qwen3_tp"

stage_ranges(model, strategy, manual, pp_size) ==
  IF pp_size = 1 THEN <<<<0, model.layers>>>>
  ELSE IF Len(manual) = pp_size
  THEN IF valid_manual_ranges(manual, model.layers) THEN manual ELSE Unplaced
  ELSE LET requested == resolved_strategy(model, strategy, pp_size)
           with_head(decoders) == IF decoders = Unplaced THEN Unplaced
                                  ELSE Append(decoders, <<model.layers, model.layers>>) IN
       CASE \/ requested \notin {"qwen36_pp8_static", "qwen36_pp8_lm_head_only_final", "manual"}
            \/ model.family # "qwen3_5_text" -> Unplaced
         [] requested = "qwen36_pp8_lm_head_only_final" ->
              with_head(minimax_contiguous_ranges(model, lm_head_only_overheads(pp_size)))
         [] OTHER -> minimax_contiguous_ranges(model, balanced_overheads(pp_size))

build_placement_plan(model, strategy, manual, pp_size, pp_rank) ==
  LET plan(ranges) ==
        IF ranges = Unplaced THEN Unplaced
        ELSE [local_layers |-> interval(ranges[pp_rank + 1]),
              include_embeddings |-> pp_rank = 0,
              include_lm_head |-> pp_rank = pp_size - 1]
  IN plan(stage_ranges(model, strategy, manual, pp_size))

-----------------------------------------------------------------------------
\* Cases: a job, and its model's layers.

Families == {"qwen3_5_text", "qwen3_text"}
Strategies == {"auto", "manual", "qwen36_pp8_static", "qwen36_pp8_lm_head_only_final", "qwen3_tp"}
Types(n) == [1..n -> {"full_attention", "linear_attention"}] \cup {<<>>}

\* Every way to lay out the layers, on one rank a stage.
PlaceLayers ==
  \E pp \in 1..4, n \in 1..5, strategy \in Strategies, family \in Families :
    \E types \in Types(n) :
      picks([of |-> "placement", sizes |-> [dp |-> 1, tp |-> 1, pp |-> pp], started |-> pp,
             model |-> [family |-> family, layers |-> n, types |-> types],
             strategy |-> strategy, manual |-> <<>>])

PlaceManually ==
  \E pp, k \in 2..3 :
    \E ranges \in [1..k -> (0..2) \X (1..4)] :
      picks([of |-> "placement", sizes |-> [dp |-> 1, tp |-> 1, pp |-> pp], started |-> pp,
             model |-> [family |-> "qwen3_5_text", layers |-> 3, types |-> <<>>],
             strategy |-> "auto", manual |-> ranges])

\* Every shape of a job, and jobs of a rank too many.
PlaceRanks ==
  \E dp, tp, pp \in 1..3, extra \in {0, 1}, strategy \in {"auto", "qwen36_pp8_lm_head_only_final"} :
    picks([of |-> "placement", sizes |-> [dp |-> dp, tp |-> tp, pp |-> pp],
           started |-> dp * tp * pp + extra,
           model |-> [family |-> "qwen3_5_text", layers |-> 3, types |-> <<>>],
           strategy |-> strategy, manual |-> <<>>])

-----------------------------------------------------------------------------
\* What the ranks of the case have computed: their states, and their plans.

states == [r \in Ranks(case.sizes) |-> initialize(case.sizes, case.started, r)]
plans(of) ==
  [r \in Ranks(case.sizes) |->
     IF of[r] = Unplaced THEN Unplaced
     ELSE build_placement_plan(case.model, case.strategy, case.manual, case.sizes.pp, of[r].pp_rank)]

\* The ranks of a pipeline from one without a predecessor on, by their successors.
pipeline(state, first) ==
  LET walk[k \in 1..case.sizes.pp] ==
        IF k = 1 THEN <<first>>
        ELSE LET before == walk[k - 1]
                 next == state[Last(before)].next
             IN IF next = Nobody THEN before ELSE Append(before, next)
  IN walk[case.sizes.pp]

\* Every pipeline holds every layer once and in order, has its embeddings on its first and
\* its head on its last rank, and is the group of its ranks; a rank that is sent to takes
\* from the one that sends; and only the head of its own may stand without layers
\* (build_placement_plan, GraspoFlowState.initialize).
PipelinesWhole(state, plan) ==
  \A first \in {r \in Ranks(case.sizes) : state[r].prev = Nobody} :
    LET ranks == pipeline(state, first)
        layers(i) == plan[ranks[i]].local_layers IN
    /\ UNION {layers(i) : i \in DOMAIN ranks} = 0..(case.model.layers - 1)
    /\ \A i, j \in DOMAIN ranks : i < j => \A x \in layers(i), y \in layers(j) : x < y
    /\ \A i \in DOMAIN ranks :
         /\ plan[ranks[i]].include_embeddings <=> i = 1
         /\ plan[ranks[i]].include_lm_head <=> state[ranks[i]].next = Nobody
         /\ layers(i) = {} => i = Len(ranks) /\ case.strategy = "qwen36_pp8_lm_head_only_final"
         /\ i > 1 => state[ranks[i]].prev = ranks[i - 1]
         /\ job_size(case.sizes) > 1 => state[ranks[i]].groups["pp"] = ranks

\* The members of a rank's groups have the rank in the same group, at the place of its own
\* coordinate; ranks that share tensors hold the same layers, and replicas of a shard differ
\* in nothing but the replica.
GroupsAgree(state, plan) ==
  job_size(case.sizes) > 1 =>
    \A r \in Ranks(case.sizes) :
      LET s == state[r]
          place(kind) == CHOOSE i \in DOMAIN s.groups[kind] : s.groups[kind][i] = r
          peers(kind) == ToSet(s.groups[kind]) IN
      /\ \A kind \in {"tp", "pp", "dp"} :
           \A peer \in peers(kind) : state[peer].groups[kind] = s.groups[kind]
      /\ place("tp") = s.tp_rank + 1 /\ place("pp") = s.pp_rank + 1 /\ place("dp") = s.dp_rank + 1
      /\ \A peer \in peers("tp") \cup peers("dp") : plan[peer] = plan[r]
      /\ \A peer \in peers("dp") : state[peer].tp_rank = s.tp_rank
      /\ \A peer \in peers("pp") : state[peer].tp_rank = s.tp_rank
      /\ s.groups["fwd"] = s.groups["bwd"]
      /\ s.groups["fwd"] = IF case.sizes.pp > 1 THEN s.groups["pp"] ELSE Nobody

\* No other way to cut the layers has a smaller largest load (_minimax_contiguous_ranges).
Balanced ==
  LET pp == case.sizes.pp
      strategy == resolved_strategy(case.model, case.strategy, pp)
      head_only == strategy = "qwen36_pp8_lm_head_only_final"
      overheads == IF head_only THEN lm_head_only_overheads(pp) ELSE balanced_overheads(pp)
      stages == IF head_only THEN pp - 1 ELSE pp
      n == case.model.layers
      worst(loads, cuts) ==
        Max({stage_load(case.model, loads, i, cuts[i], cuts[i + 1]) : i \in 1..stages})
      all_cuts == {c \in [1..(stages + 1) -> 0..n] :
                     c[1] = 0 /\ c[stages + 1] = n /\ \A i \in 1..stages : c[i] < c[i + 1]}
      mine(chosen) == [i \in 1..(stages + 1) |-> IF i <= stages THEN chosen[i][1] ELSE n]
      least(loads, own) == \A cuts \in all_cuts : worst(loads, own) <= worst(loads, cuts)
  IN pp > 1 /\ case.manual = <<>> =>
       least(overheads, mine(stage_ranges(case.model, case.strategy, case.manual, pp)))

\* Log-probabilities come from a rank with a head, of the pipelines of one replica
\* (_pipeline_sequence_log_probs; with more replicas than one it is always the first).
LogProbsOwn(state, plan) ==
  case.sizes.pp > 1 =>
    LET source == log_probs_source(case.sizes) IN
    /\ plan[source].include_lm_head
    /\ case.sizes.dp = 1 =>
         \A r \in Ranks(case.sizes) : state[r].dp_rank = state[source].dp_rank

\* A job that is not refused is one that its ranks agree on without exchanging anything: who
\* holds what, who is whose neighbour, and who is in which group.
PlacementSound ==
  case.of = "placement" =>
    \A state \in {states} : \A plan \in {plans(state)} :
      LET refused == {r \in Ranks(case.sizes) : Unplaced \in {state[r], plan[r]}} IN
      \/ refused = Ranks(case.sizes)
      \/ /\ refused = {}
         /\ PipelinesWhole(state, plan) /\ GroupsAgree(state, plan)
         /\ Balanced /\ LogProbsOwn(state, plan)
====
