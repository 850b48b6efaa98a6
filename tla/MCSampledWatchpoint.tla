--------------------------- MODULE MCSampledWatchpoint ---------------------------
(***************************************************************************)
(* An instance of SampledWatchpoint for TLC, with four cells and words of  *)
(* two: an access of three cells that ends with the last one, one across a *)
(* boundary of two cells, and one that leaves the cells.                   *)
(***************************************************************************)
EXTENDS SampledWatchpoint, TLC

CONSTANTS s1, s2

Sym == Permutations({s1, s2})

SomeAccesses == {<<5, 9>>, <<3, 2>>, <<13, 4>>}

\* A slot for each cell in the first launch; neighbours collide in the second.
SomeSlots ==
  [x \in Cell \X Epoch \X Generation |-> ((x[1] \div x[3]) + x[2] + x[3]) % Capacity]
===============================================================================
