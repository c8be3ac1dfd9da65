--------------------------- MODULE MCChangeSets ---------------------------
(* A small instance of ChangeSets: two sets that share a setting.          *)
EXTENDS ChangeSets, TLC

CONSTANTS x, y, v1, v2, s1, s2

AllV1 == [k \in Keys |-> v1]

Item(k, v) == [key |-> k, val |-> v]

Both == (s1 :> <<Item(x, v2), Item(y, v2)>>) @@ (s2 :> <<Item(x, v1)>>)

Budget(requests, edits, faults) ==
  [what \in {"requests", "edits", "faults"} |->
     CASE what = "requests" -> requests [] what = "edits" -> edits [] what = "faults" -> faults]

Mixed == {Budget(5, 1, 0), Budget(4, 1, 1)}

Symmetry == Permutations(Clients)
=============================================================================
