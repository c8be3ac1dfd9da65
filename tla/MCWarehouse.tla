----------------------------- MODULE MCWarehouse -----------------------------
(* A small instance of Warehouse.                                          *)
EXTENDS Warehouse, TLC

Budget(requests, queries, posts, faults, kills) ==
  [what \in Spendable |->
     CASE what = "requests" -> requests [] what = "queries" -> queries
       [] what \in {"rollups", "sinks", "ships", "retries"} -> IF what \in posts THEN 1 ELSE 0
       [] what = "faults" -> faults [] what = "kills" -> kills]

Setup(workers, budget) == [workers |-> workers, budget |-> budget]

(* Overlapping rollups; a wide one after a purge; a sink, failures and the *)
(* retry of one; shipments that fail, are cut off, overlap, are retried.   *)
Mixed == {Setup(Workers, Budget(2, 0, {}, 0, 0)),
          Setup({"retention"}, Budget(2, 0, {"rollups"}, 0, 0)),
          Setup({"retention"}, Budget(1, 0, {}, 1, 0)),
          Setup({"sink"}, Budget(1, 0, {"sinks"}, 0, 0)),
          Setup({"sink"}, Budget(1, 0, {"retries"}, 1, 0)),
          Setup({"sink"}, Budget(0, 2, {}, 1, 0)),
          Setup({"sink"}, Budget(0, 1, {}, 1, 1)),
          Setup({"sink"}, Budget(0, 2, {"ships"}, 0, 0)),
          Setup({"sink"}, Budget(0, 1, {}, 2, 0)),
          Setup({"sink"}, Budget(0, 1, {"retries"}, 1, 0))}
=============================================================================
