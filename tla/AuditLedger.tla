---------------------------- MODULE AuditLedger ----------------------------
(***************************************************************************)
(* What the audit logger promises (internal/store/async.go), record by     *)
(* record: Enqueue decides at once between accepting and dropping; an      *)
(* accepted record moves from the queue, possibly over the fallback file,  *)
(* to the database and never back; only a record that a fault has hit can  *)
(* get lost.                                                               *)
(***************************************************************************)
EXTENDS Naturals

CONSTANT Records

VARIABLES
  status,   \* where each record is
  hit       \* the records a fault may have cost

Status == {"unlogged", "dropped", "queued", "spilled", "stored", "lost"}

Init ==
  /\ status = [r \in Records |-> "unlogged"]
  /\ hit = {}

Move(r, from, to) ==
  /\ status[r] \in from
  /\ status' = [status EXCEPT ![r] = to]
  /\ hit' = hit

Accept(r) == Move(r, {"unlogged"}, "queued")
Drop(r)   == Move(r, {"unlogged"}, "dropped")
Spill(r)  == Move(r, {"queued"}, "spilled")
Store(r)  == Move(r, {"queued", "spilled"}, "stored")

\* A fault endangers the records R: those not stored get lost, at once or when
\* their last copy goes.
Fault ==
  \E R \in SUBSET Records :
    /\ hit' = hit \cup R
    /\ status' \in [Records -> Status]
    /\ \A r \in Records :
         \/ status'[r] = status[r]
         \/ r \in hit' /\ status[r] \in {"queued", "spilled"} /\ status'[r] = "lost"

Next ==
  \/ \E r \in Records : Accept(r) \/ Drop(r) \/ Spill(r) \/ Store(r)
  \/ Fault

Spec == Init /\ [][Next]_<<status, hit>>
=============================================================================
