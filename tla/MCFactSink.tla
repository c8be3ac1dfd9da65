------------------------------ MODULE MCFactSink ------------------------------
(* A small instance of FactSink.                                           *)
EXTENDS FactSink, TLC

CONSTANTS r1, r2, r3, e1

InOrder == <<"request", "tool">>
Rows    == (r1 :> {"request", "tool"}) @@ (r2 :> {"request"}) @@ (r3 :> {"request"}) @@ (e1 :> {"event"})

All  == [url |-> TRUE, tables |-> {"request", "tool", "event"}]
Some == {All, [url |-> FALSE, tables |-> {"request"}], [url |-> TRUE, tables |-> {"tool"}]}

Budget(replays, changes, faults, deaths) ==
  [what \in Spendable |-> CASE what = "replays" -> replays [] what = "changes" -> changes
                            [] what = "faults" -> faults   [] what = "deaths" -> deaths]

(* A failure and two replays, two failures, and one with a change or death.*)
Mixed == {Budget(2, 0, 1, 0), Budget(1, 0, 2, 0), Budget(1, 1, 1, 0), Budget(1, 0, 1, 1)}
=============================================================================
