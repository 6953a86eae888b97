---- MODULE MCCollectedRun ----
\* Values for TLC of the constants of CollectedRun that a .cfg cannot state.
EXTENDS CollectedRun

Tier(backend, allow, coverage, host_torch, min, reachable) ==
  [backend |-> backend, tuner_type |-> "lora", allow_nonfinite_grad_skip |-> allow,
   coverage |-> coverage, host_torch |-> host_torch, base_model |-> FALSE,
   min_optimizer_steps |-> min, reachable |-> reachable, per_epoch |-> None]

\* Thresholds below, at and above the steps of the run, the default of 5 with and
\* without a tier that cannot reach it, and an illegal one.
MCPlans ==
  {Tier("native", TRUE, FALSE, h, 2, None) : h \in BOOLEAN}
  \cup {Tier("native", FALSE, FALSE, h, 3, None) : h \in BOOLEAN}
  \cup {Tier("native", TRUE, FALSE, TRUE, None, r) : r \in {None, 2}}
  \cup {Tier("native", FALSE, FALSE, TRUE, 0, None)}
  \cup {Tier("ms-swift", FALSE, c, FALSE, 2, None) : c \in BOOLEAN}
  \cup {[Tier("ms-swift", FALSE, TRUE, FALSE, 2, None) EXCEPT !.tuner_type = "full",
                                                              !.base_model = b] : b \in BOOLEAN}
====
