------------------------- MODULE MCRuntimeSettings -------------------------
(* A small instance of RuntimeSettings.                                    *)
EXTENDS RuntimeSettings, TLC

CONSTANTS x, y, v1, v2

Set(k, v) == [key |-> k, val |-> v]

(* A setting, its revert, and a batch with another value of it.            *)
Asked == {<<Set(x, v1)>>, <<Set(x, None)>>, <<Set(x, v2), Set(y, v1)>>}

Budget(edits, faults, restarts) ==
  [what \in {"edits", "faults", "restarts"} |->
     CASE what = "edits" -> edits [] what = "faults" -> faults [] what = "restarts" -> restarts]

Mixed == {Budget(3, 0, 0), Budget(2, 1, 1)}
=============================================================================
