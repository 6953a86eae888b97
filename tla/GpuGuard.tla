---- MODULE GpuGuard ----
(***************************************************************************)
(* The rules of core/gpu_guard.py on which GPUs a process may use, and the *)
(* idleness check and the sampling targets of cli/gpu_monitor.py: pure     *)
(* operators over the text of an environment variable and over what        *)
(* nvidia-smi reports.  GpuLaunch lets processes act on them.              *)
(*                                                                         *)
(* A text is what its parsing tells apart: unset, blank, "all", a marker   *)
(* of the container runtime ("void", "none"), a list with an empty part,   *)
(* a list with a part that is no number, or a list of numbers.             *)
(***************************************************************************)
EXTENDS Integers, Sequences, SequencesExt

Text(form, cards) == [form |-> form, cards |-> cards]
List(cards) == Text("list", cards)
Word(form) == Text(form, <<>>)

\* What a check returns: the devices, or its refusal.
accept(devices) == [ok |-> TRUE, devices |-> devices]
reject == [ok |-> FALSE, devices |-> <<>>]

DEFAULT_ALLOWED_INDICES == <<4, 5, 6, 7>>
DEFAULT_RESERVED_INDICES == <<>>
ALLOWED_MAX_INDEX == 7
MAX_CARDS == 4

-----------------------------------------------------------------------------
\* The environment.

\* _parse_index_set: the allowed or the reserved cards of a deployment.
parse_index_set(raw, default) ==
  IF raw.form \in {"unset", "blank"} THEN accept(default)
  ELSE IF raw.form = "list" /\ IsInjective(raw.cards) THEN accept(raw.cards)
  ELSE reject

resolve_allowed_indices(env) == parse_index_set(env.allowed, DEFAULT_ALLOWED_INDICES)
resolve_reserved_indices(env) == parse_index_set(env.reserved, DEFAULT_RESERVED_INDICES)

\* _device_source_value: which cards NVIDIA_VISIBLE_DEVICES names, or that the runtime
\* has taken the variable over.
is_runtime_managed(raw) == raw.form = "managed"

device_list_of(raw) ==
  IF raw.form = "list" /\ IsInjective(raw.cards) THEN accept(raw.cards) ELSE reject

\* assert_gpu_lock, on numbers of the host: no reserved card, only allowed ones, none
\* above the limit, not too many.
assert_gpu_lock(raw, env) ==
  LET named == device_list_of(raw)
      allowed == resolve_allowed_indices(env)
      reserved == resolve_reserved_indices(env)
      devices == ToSet(named.devices)
  IN IF /\ named.ok /\ allowed.ok /\ reserved.ok
        /\ devices \intersect ToSet(reserved.devices) = {}
        /\ devices \subseteq ToSet(allowed.devices)
        /\ \A d \in devices : d <= ALLOWED_MAX_INDEX
        /\ Len(named.devices) <= MAX_CARDS
     THEN named ELSE reject

\* assert_inventory_visible, on what nvidia-smi -L lists; -1 if no number is declared.
assert_inventory_visible(inventory, declared_count) ==
  IF \/ inventory = <<>> \/ Len(inventory) > MAX_CARDS
     \/ declared_count \notin {-1, Len(inventory)}
  THEN reject ELSE accept(inventory)

\* resolve_device_source: does the list decide, or what is visible; where the runtime has
\* taken the variable over nothing can be decided without an inventory.
resolve_device_source(raw, probed) ==
  IF is_runtime_managed(raw) THEN [by |-> "inventory", ok |-> probed.ok]
  ELSE [by |-> "list", ok |-> device_list_of(raw).ok]

assert_gpu_lock_inventory(raw, probed, env) ==
  LET source == resolve_device_source(raw, probed)
      named == assert_gpu_lock(raw, env)
  IN IF ~source.ok THEN reject
     ELSE IF source.by = "inventory" THEN assert_inventory_visible(probed.devices, -1)
     ELSE IF /\ probed.ok /\ named.ok
             /\ ~assert_inventory_visible(probed.devices, Len(named.devices)).ok
       THEN reject ELSE named

\* _probe_inventory_for and require_gpu_lock_or_exit: nvidia-smi is asked only where the
\* runtime has taken the variable over.
require_gpu_lock_or_exit(raw, probe, env) ==
  assert_gpu_lock_inventory(raw, IF is_runtime_managed(raw) THEN probe ELSE reject, env)

-----------------------------------------------------------------------------
\* Is a card in use.

IDLE_MEMORY_TOLERANCE_MIB == 64
IDLE_UTILIZATION_MAX_PCT == 5

\* Variant: only the utilisation is looked at.
idle_by_utilization(reading) == reading.utilization <= IDLE_UTILIZATION_MAX_PCT

\* assert_gpu_idle
assert_gpu_idle(reading) ==
  /\ reading.memory <= IDLE_MEMORY_TOLERANCE_MIB
  /\ reading.utilization <= IDLE_UTILIZATION_MAX_PCT

\* assert_target_gpus_idle: a card without a reading is a refusal.
assert_target_gpus_idle(targets, readings) ==
  /\ targets # <<>>
  /\ \A t \in ToSet(targets) : t \in DOMAIN readings /\ assert_gpu_idle(readings[t])

\* assert_visible_gpus_idle: the cards named, or all that are visible.
assert_visible_gpus_idle(raw, probe, env, readings) ==
  LET targets == IF is_runtime_managed(raw) THEN probe ELSE assert_gpu_lock(raw, env) IN
  targets.ok /\ assert_target_gpus_idle(targets.devices, readings)

-----------------------------------------------------------------------------
\* Which cards are sampled.

\* The cards asked for, if all of them are observed; all observed ones by default.
within(explicit, observed) ==
  IF explicit.form \in {"unset", "blank", "all"} THEN observed
  ELSE LET asked == device_list_of(explicit) IN
       IF asked.ok /\ ToSet(asked.devices) \subseteq ToSet(observed.devices)
       THEN asked ELSE reject

select_sample_targets(explicit, visible, env) ==
  LET observed == assert_gpu_lock(visible, env) IN
  IF observed.ok THEN within(explicit, observed) ELSE reject

select_sample_targets_for_inventory(explicit, probe) ==
  LET observed == IF probe.ok THEN assert_inventory_visible(probe.devices, -1) ELSE reject IN
  IF observed.ok THEN within(explicit, observed) ELSE reject

resolve_sample_gpus(explicit, visible, probe, env) ==
  IF is_runtime_managed(visible) THEN select_sample_targets_for_inventory(explicit, probe)
  ELSE select_sample_targets(explicit, visible, env)
====
