---------------------------- MODULE MCAddressCache ----------------------------
(***************************************************************************)
(* An instance of AddressCache for TLC: one lane of each of three          *)
(* subgroups, and addresses that share one slot.                           *)
(***************************************************************************)
EXTENDS AddressCache, TLC

CONSTANTS l0, l1, l2

OneLaneEach == (l0 :> 0) @@ (l1 :> 1) @@ (l2 :> 2)
Colliding == [a \in Address |-> 0]
Symmetry == Permutations(Address)
===============================================================================
