------------------------- MODULE MCInventoryCollect -------------------------
(* A small instance of InventoryCollect: an object of a kind that must be  *)
(* listed, and one of a kind that need not be.                             *)
EXTENDS InventoryCollect, TLC

CONSTANTS x, A, B

Sorts == [o \in Objects |-> IF o = x THEN B ELSE A]

Order == <<A, B>>

Budget(writes, collections, faults) ==
  [what \in {"writes", "collections", "faults"} |->
     CASE what = "writes" -> writes [] what = "collections" -> collections [] what = "faults" -> faults]

Mixed == {Budget(1, 2, 0), Budget(2, 1, 1)}

Undisturbed == {Budget(0, 1, 0)}

Symmetry == Permutations(Collectors) \cup Permutations(Specs)
=============================================================================
