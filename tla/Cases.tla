---- MODULE Cases ----
(***************************************************************************)
(* The frame of the checks of pure algorithms: a behaviour begins in one   *)
(* area and picks one case of it, an input of one algorithm.               *)
(***************************************************************************)
CONSTANT Areas

VARIABLE case

in_area(area) == case = [of |-> "none", area |-> area]
Init == case \in {[of |-> "none", area |-> area] : area \in Areas}
picks(record) == case' = record
====
