------------------------- MODULE MCProductRuntime -------------------------
(* Small instances of ProductRuntime; the constants are in the cfg files.  *)
EXTENDS ProductRuntime, TLC

CONSTANTS p1, p2

(* An open contract of p1, one of them without the purpose p1 asks for or  *)
(* not open, and one of p2.                                                *)
Posted == {[product |-> p1, open |-> TRUE, purpose |-> TRUE, limit |-> 1],
           [product |-> p1, open |-> FALSE, purpose |-> TRUE, limit |-> 1],
           [product |-> p2, open |-> TRUE, purpose |-> FALSE, limit |-> 0]}

Budget(queries, edits, faults, ticks) ==
  [what \in {"queries", "edits", "faults", "ticks"} |->
     CASE what = "queries" -> queries [] what = "edits" -> edits
       [] what = "faults" -> faults [] what = "ticks" -> ticks]

(* Two requests with a fault, one with a fault and an edit, three for the  *)
(* limiter, and one among several edits.                                   *)
Mixed == {Budget(2, 0, 1, 1), Budget(1, 1, 1, 0), Budget(3, 0, 0, 1), Budget(1, 3, 0, 0)}

Symmetry == Permutations(Clients) \cup Permutations(Grants) \cup Permutations(Contracts)
            \cup Permutations(Admins)
=============================================================================
