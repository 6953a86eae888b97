---- MODULE GroupDecision ----
(***************************************************************************)
(* The decision taken on one rollout group: the G completions sampled for  *)
(* one prompt, with their rewards (ripple/group_decision.py).              *)
(*                                                                         *)
(* Rewards and content scores are floats in the code.  Here they are       *)
(* integers on a fixed scale, coarse enough to enumerate and fine enough   *)
(* to keep what the decision looks at: their order, the perfect-skip       *)
(* threshold, the variance tolerance and the content scores 0.0 and 1.0.   *)
(***************************************************************************)
EXTENDS Integers, Sequences, FiniteSets

CONSTANTS
  Threshold,         \* training.perfect_skip_reward_threshold
  Eps,               \* has_reward_variance's eps: a smaller range is rounding
  FullContent,       \* the content score 1.0
  RejectUnparseable, \* training.reject_unparseable_groups
  MaxRetries         \* training.rollout_max_retries

ASSUME MaxRetriesAssumption == MaxRetries \in Nat

-----------------------------------------------------------------------------

TrainableDecisions == {"trainable_max_correct", "trainable_not_correct"}

Decisions ==
  TrainableDecisions \cup
  {"perfect_skip", "retry", "invalid", "invalid_no_preference_gap"}

\* A scored group: rewards, content scores and parse errors of its completions.
LargestOf(s) == CHOOSE v \in {s[i] : i \in DOMAIN s} : \A i \in DOMAIN s : s[i] <= v
SmallestOf(s) == CHOOSE v \in {s[i] : i \in DOMAIN s} : \A i \in DOMAIN s : s[i] >= v

\* sorted(values)[(n - 1) // 2], without sorting: the value with at most
\* (n - 1) // 2 values below it and more than that not above it.
lower_median(values) ==
  IF values = <<>> THEN 0
  ELSE LET k == (Len(values) - 1) \div 2
           below(v) == {i \in DOMAIN values : values[i] < v}
           upto(v)  == {i \in DOMAIN values : values[i] <= v}
       IN CHOOSE v \in {values[i] : i \in DOMAIN values} :
            Cardinality(below(v)) <= k /\ k < Cardinality(upto(v))

has_reward_variance(rewards) ==
  /\ Len(rewards) >= 2
  /\ LargestOf(rewards) - SmallestOf(rewards) > Eps

\* All content scores equal, and neither 0.0 nor 1.0.
is_uniform_partial_content(scores) ==
  /\ scores # <<>>
  /\ \A i \in DOMAIN scores : scores[i] = scores[1]
  /\ 0 < scores[1] /\ scores[1] < FullContent

is_invalid_group(group) ==
  \/ ~has_reward_variance(group.rewards)
  \/ is_uniform_partial_content(group.content)

\* The first completion of largest reward failed to parse or scored no content.
best_has_parse_error(group) ==
  LET best == CHOOSE i \in DOMAIN group.rewards :
                /\ group.rewards[i] = LargestOf(group.rewards)
                /\ \A j \in 1..(i - 1) : group.rewards[j] < group.rewards[i]
  IN group.parse_errors[best] \/ group.content[best] = 0

\* Variant: one retry too many.
may_retry_inclusive(retry_count) == retry_count <= MaxRetries
may_retry(retry_count) == retry_count < MaxRetries

classify_group(group, retry_count) ==
  LET rewards == group.rewards
      largest == LargestOf(rewards)
      median  == lower_median(rewards)
      retry_or_invalid == IF may_retry(retry_count) THEN "retry" ELSE "invalid"
  IN IF rewards = <<>> THEN "invalid"
     ELSE IF median >= Threshold THEN "perfect_skip"
     ELSE IF largest >= Threshold THEN "trainable_max_correct"
     ELSE IF RejectUnparseable /\ best_has_parse_error(group) THEN retry_or_invalid
     ELSE IF largest > median THEN "trainable_not_correct"
     ELSE IF may_retry(retry_count) THEN "retry"
     ELSE IF is_invalid_group(group) THEN "invalid"
     ELSE "invalid_no_preference_gap"

\* What the trainer keeps of one attempt: the decision, and whether the rewards
\* differ by more than rounding, which _finalize_sample looks at again.
AttemptOf(group, retry_count) ==
  [decision |-> classify_group(group, retry_count),
   variance |-> has_reward_variance(group.rewards)]

AttemptRecords == [decision : Decisions, variance : BOOLEAN]

replay_buffer_optimize_threshold(queue_size, group_size) == queue_size * group_size

=============================================================================
