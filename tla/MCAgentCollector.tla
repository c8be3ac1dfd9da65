-------------------------- MODULE MCAgentCollector --------------------------
(* Small instances of AgentCollector.                                      *)
EXTENDS AgentCollector

Budget(compactions, errors, torn, deaths) ==
  [f \in Faults |-> CASE f = "compaction" -> compactions [] f = "error" -> errors
                     [] f = "torn" -> torn [] f = "death" -> deaths]

Deaths      == {Budget(0, 1, 0, 1)}
Faulty      == Deaths \cup {Budget(1, 0, 1, 0)}
OneDeath    == {Budget(0, 0, 0, 1)}
=============================================================================
