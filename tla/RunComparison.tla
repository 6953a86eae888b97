---- MODULE RunComparison ----
(***************************************************************************)
(* A4, the comparison of two runs of one configuration (core/              *)
(* result_judge.py, scripts/a4_calibrate.py): the tolerance a family of    *)
(* tiers gets from a pool of readings, the calibration that is looked up   *)
(* for a run, the fingerprint of the last checkpoint and the verdict on a  *)
(* pair.  Pure operators; losses are numbers in units of 1e-7, and here an *)
(* infinity, Infinity, is told from a NaN, NonFinite, as differences tell  *)
(* them.  NAN_SENTINEL, which no collector gives, would be such a NaN.     *)
(***************************************************************************)
EXTENDS ResultJudge

LOCAL INSTANCE FiniteSetsExt

CONSTANT Infinity  \* a loss beyond every number

\* The larger of two numbers as Python takes it: a NaN compares with nothing, so that the
\* first is kept.
gt(x, y) ==
  NonFinite \notin {x, y} /\ y # Infinity /\ (x = Infinity \/ x > y)
py_max(x, y) == IF gt(y, x) THEN y ELSE x
py_min(x, y) == IF gt(x, y) THEN y ELSE x
distance(x, y) ==
  IF NonFinite \in {x, y} \/ {x, y} = {Infinity} THEN NonFinite
  ELSE IF Infinity \in {x, y} THEN Infinity ELSE abs(x - y)

-----------------------------------------------------------------------------
\* The tolerance.

A4_MIN_TRUE_BUG_SIGNATURE == 935000
A4_TOLERANCE_HARD_UPPER_BOUND == 467500
A4_MEASURED_BF16_FINAL_LOSS_DRIFT == 10302
A4_CALIBRATION_MIN_N == 5

\* A4_WORST_PAIR_SAFETY_FACTOR times a distance.
with_safety(x) == IF x \in {NonFinite, Infinity} THEN x ELSE (3 * x) \div 2

\* The greatest distance; one that is not a number counts if it is that of the first pair,
\* and is passed over later.
worst_pair(readings) ==
  LET n == Len(readings)
      apart == {distance(readings[i], readings[j]) : i, j \in 1..n} IN
  IF n < 2 THEN 0
  ELSE IF distance(readings[1], readings[2]) = NonFinite THEN NonFinite
  ELSE IF Infinity \in apart THEN Infinity ELSE Max(apart \ {NonFinite})

validate_tier_tolerance(tol) ==
  ~gt(tol, A4_MIN_TRUE_BUG_SIGNATURE \div 2) /\ ~gt(A4_MEASURED_BF16_FINAL_LOSS_DRIFT, tol)

floor_with(outcome) == [tol |-> A4_MEASURED_BF16_FINAL_LOSS_DRIFT, outcome |-> outcome]

\* Variant: the measured drift is taken as it is.
tolerance_uncapped(readings) ==
  [tol |-> with_safety(worst_pair(readings)), outcome |-> "calibrated"]

\* Too few readings, or readings that are all alike, give the floor.
calibrated_tolerance(readings) ==
  LET measured == worst_pair(readings)
      capped == py_min(with_safety(measured), A4_MIN_TRUE_BUG_SIGNATURE \div 2)
  IN IF Len(readings) < A4_CALIBRATION_MIN_N THEN floor_with("insufficient_n")
     ELSE IF measured \notin {NonFinite, Infinity} /\ measured <= 0 THEN floor_with("degenerate")
     ELSE [tol |-> py_max(capped, A4_MEASURED_BF16_FINAL_LOSS_DRIFT), outcome |-> "calibrated"]

\* validate_pool: a reading per run, no run twice, none of the runs to be judged, cards.
validate_pool(pool) ==
  /\ pool.readings # <<>> /\ Len(pool.run_roots) = Len(pool.readings)
  /\ \A i, j \in DOMAIN pool.run_roots : i # j => pool.run_roots[i] # pool.run_roots[j]
  /\ pool.card_set # {}
  /\ \A i \in DOMAIN pool.run_roots : pool.run_roots[i] \notin pool.judged

\* build_tier_calibration with validate_tier_calibration_entry; None is a refusal.
derive(pool) ==
  LET result == calibrated_tolerance(pool.readings)
      worst == worst_pair(pool.readings)
  IN IF /\ validate_pool(pool) /\ validate_tier_tolerance(result.tol)
        /\ result.outcome = "calibrated" => gt(worst, 0)
     THEN [tol |-> result.tol, outcome |-> result.outcome, worst_pair |-> worst,
           n |-> Len(pool.readings)]
     ELSE None

-----------------------------------------------------------------------------
\* The calibration of a run's family.

row(backend, cards, algorithm, tol, outcome) ==
  [backend |-> backend, cards |-> cards, algorithm |-> algorithm, tol |-> tol,
   outcome |-> outcome]

\* The table: each row is for every model and mode.
A4_TIER_CALIBRATIONS ==
  {row("native", 1, "SFT", A4_TOLERANCE_HARD_UPPER_BOUND, "calibrated"),
   row("ms-swift", 1, "SFT", 67200, "calibrated"),
   row("ms-swift", 1, "GRPO", A4_MEASURED_BF16_FINAL_LOSS_DRIFT, "degenerate"),
   row("native", 2, "SFT", A4_MEASURED_BF16_FINAL_LOSS_DRIFT, "insufficient_n"),
   row("ms-swift", 2, "SFT", A4_MEASURED_BF16_FINAL_LOSS_DRIFT, "insufficient_n"),
   row("ms-swift", 2, "GRPO", 60209, "calibrated")}

normalize_a4_algorithm(algorithm) == IF algorithm = "GRASPO" THEN "GRPO" ELSE algorithm

find_tier_calibration(key) ==
  {r \in A4_TIER_CALIBRATIONS :
     /\ r.backend = key.backend /\ r.cards = key.cards
     /\ r.algorithm = normalize_a4_algorithm(key.algorithm)}

\* What is not known of a run is filled in, backend first, in the order of these.
A4_BACKEND_FALLBACK_ORDER == <<"native", "ms-swift">>
A4_CARDS_FALLBACK_ORDER == <<1, 2>>
A4_ALGORITHM_FALLBACK_ORDER == <<"SFT", "GRPO">>

resolve_tier_calibration(key) ==
  LET order(x, fallback) == IF x = None THEN fallback ELSE <<x>>
      bs == order(key.backend, A4_BACKEND_FALLBACK_ORDER)
      cs == order(key.cards, A4_CARDS_FALLBACK_ORDER)
      as == order(key.algorithm, A4_ALGORITHM_FALLBACK_ORDER)
      at(i) == find_tier_calibration([backend |-> bs[i[1]], cards |-> cs[i[2]],
                                      algorithm |-> as[i[3]]])
      hits == {i \in (DOMAIN bs) \X (DOMAIN cs) \X (DOMAIN as) : at(i) # {}}
      place(i) == 4 * i[1] + 2 * i[2] + i[3]
  IN IF hits = {} THEN None
     ELSE CHOOSE r \in at(CHOOSE i \in hits : \A j \in hits : place(i) <= place(j)) : TRUE

-----------------------------------------------------------------------------
\* The fingerprint of the last checkpoint.

FINAL_CKPT_WEIGHT_FILENAMES ==
  <<"adapter_model.safetensors", "model.safetensors", "pytorch_model.bin", "model.bin">>

\* The directories of a run's checkpoints by their step, that of final being greatest: the
\* one named for the steps the run took, or else the newest.
FINAL == 1000000000
newest(dirs) == CHOOSE d \in dirs : \A o \in dirs : o <= d

\* Contents by file, with the shards of a native save or of a split model as a function.
fingerprint(files) ==
  LET whole == {i \in DOMAIN FINAL_CKPT_WEIGHT_FILENAMES :
                  FINAL_CKPT_WEIGHT_FILENAMES[i] \in DOMAIN files.whole} IN
  IF whole # {}
  THEN files.whole[FINAL_CKPT_WEIGHT_FILENAMES[CHOOSE i \in whole : \A j \in whole : i <= j]]
  ELSE IF files.pp_shards # <<>> THEN files.pp_shards
  ELSE IF files.hf_shards # <<>> THEN files.hf_shards ELSE None

extract_final_ckpt_sha256(checkpoints, steps) ==
  LET dirs == DOMAIN checkpoints IN
  IF dirs = {} THEN None
  ELSE fingerprint(checkpoints[IF steps \in dirs THEN steps ELSE newest(dirs)])

-----------------------------------------------------------------------------
\* The verdict on a pair.

\* The first loss of two runs that both logged their first step must be the same.
first_step_differs(first, second) ==
  /\ first.first_logged_step = 1 /\ second.first_logged_step = 1
  /\ \/ Missing \in {first.losses[1], second.losses[1]}
     \/ NonFinite \in {first.losses[1], second.losses[1]}
     \/ first.losses[1] # second.losses[1]

A4_MIN_INDEPENDENCE_SIGNALS == 2

\* What speaks for two runs; equal time stamps speak for one, copied.
a4_independence_signals(first, second) ==
  LET differ(x, y) == IF x # None /\ y # None /\ x # y THEN 1 ELSE 0 IN
  IF first.timestamp # None /\ first.timestamp = second.timestamp THEN 0
  ELSE differ(first.run_root, second.run_root)
       + differ(first.output_identity, second.output_identity)
       + differ(first.timestamp, second.timestamp)

\* The signs differ and the losses are far from zero.
is_sign_flip(x, y, tolerance) ==
  /\ gt(x, 0) # gt(y, 0)
  /\ NonFinite \notin {x, y}
  /\ \/ abs(x) + abs(y) > tolerance
     \/ /\ abs(x) >= tolerance /\ abs(y) >= tolerance
        /\ abs(x - y) > 2 * py_max(abs(x), abs(y))

\* Two runs agree that changed weights alike, in as many steps, to losses within the
\* tolerance of the first one's family; where nothing tells the losses apart, the
\* checkpoints must differ or the runs be known to be two.
judge_a4(first, second) ==
  LET calibration == resolve_tier_calibration(first.key)
      x == Last(first.losses)
      y == Last(second.losses)
      delta == distance(x, y)
      hashes == first.sha # None /\ second.sha # None
  IN IF second = None THEN gap("second")
     ELSE IF first.exit_code # 0 \/ second.exit_code # 0 THEN failed("exit")
     ELSE IF first.optimizer_steps # second.optimizer_steps THEN failed("steps")
     ELSE IF first.weight_changed # second.weight_changed THEN failed("weights")
     ELSE IF <<>> \in {first.losses, second.losses} THEN gap("losses")
     ELSE IF first_step_differs(first, second) THEN failed("first step")
     ELSE IF calibration = None THEN gap("calibration")
     ELSE IF Missing \in {x, y} THEN failed("last loss")
     ELSE IF gt(delta, calibration.tol) THEN failed("tolerance")
     ELSE IF is_sign_flip(x, y, calibration.tol) THEN failed("sign")
     ELSE IF hashes /\ first.sha = second.sha /\ delta = 0
       THEN IF a4_independence_signals(first, second) >= A4_MIN_INDEPENDENCE_SIGNALS
            THEN met ELSE gap("independence")
     ELSE IF delta = 0 /\ ~hashes THEN gap("channel") ELSE met
====
