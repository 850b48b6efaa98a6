----------------------------- MODULE MCAtomicTable -----------------------------
(***************************************************************************)
(* Instances of AtomicTable for TLC: two lanes of subgroup 0 and one lane  *)
(* of subgroup 1, so that lanes of one subgroup race for the same key and  *)
(* lanes of two subgroups for the same slots.                              *)
(***************************************************************************)
EXTENDS AtomicTable, TLC

CONSTANTS t1, t2, t3, flag

ThreeLanes == {t1, t2, t3}
ThreeLanesSubgroup == (t1 :> 0) @@ (t2 :> 0) @@ (t3 :> 1)

\* t1 and t2 are lanes of one subgroup
LaneSymmetry == Permutations({t1, t2})

\* Every key starts at the last slot: all chains collide and wrap around.
Colliding == [k \in Key |-> Capacity - 1]
===============================================================================
