---- MODULE MCGpuLaunch ----
\* Values for TLC of the constants of GpuLaunch that a .cfg cannot state.
EXTENDS GpuLaunch, TLC

Symmetry == Permutations(Launches)

Recipe(way, named, idle, backend, nproc, world) ==
  [way |-> way, gpus |-> named, assert_idle |-> idle, backend |-> backend,
   nproc |-> nproc, world |-> world, overwrite |-> TRUE]

\* One with more cards than a job may have, one without.
MCMachines == {0..6, 0..3}

MCRecipes ==
  {Recipe(w, Word("unset"), FALSE, "native", None, 1) : w \in {"void", "open"}}
  \cup {Recipe(w, List(<<4, 5>>), TRUE, "native", None, 2) :
          w \in {"void", "list", "open", "all", "host"}}
  \cup {Recipe(w, List(<<4, 1>>), w = "list", "msswift", 3, 2) : w \in {"void", "list"}}
  \cup {Recipe("void", List(<<0, 1>>), TRUE, "native", None, 2),
        Recipe("void", List(<<4, 5>>), TRUE, "native", 1, 2),
        Recipe("void", List(<<6, 4>>), TRUE, "native", None, 2),
        [Recipe("void", List(<<6, 5>>), TRUE, "native", None, 2) EXCEPT !.overwrite = FALSE]}
====
