---------------------------- MODULE ChangeSets ----------------------------
(***************************************************************************)
(* Change sets (internal/proxy/admin_change_sets.go, internal/store/       *)
(* change_sets.go): several settings proposed, submitted, approved, applied*)
(* and rolled back together.  Every request judges a copy of the set it    *)
(* read first, and writes the whole row back from that copy; the settings  *)
(* are written one transaction each.                                       *)
(*                                                                         *)
(* A setting without a row has its environment's value.  Items are known   *)
(* settings with valid values, other kinds of items are left out, and so   *)
(* are dry runs, which only read, and the reloads (see RuntimeSettings).   *)
(***************************************************************************)
EXTENDS Naturals, Sequences, FiniteSets

CONSTANTS
  Clients,   \* requests that may be served at the same time
  Keys, Values,
  Env,       \* the environment's value of each setting
  Sets,
  Proposed,  \* the items of each set
  Budgets,   \* how many requests, edits and faults may happen: one of these
  None

Items == [key: Keys, val: Values]
Ops   == {"submit", "approve", "apply", "rollback", "delete"}

ASSUME EnvAssumption      == Env \in [Keys -> Values]
ASSUME NoneAssumption     == None \notin Values \cup Sets \cup Ops
ASSUME ProposedAssumption == Proposed \in [Sets -> Seq(Items)]
ASSUME BudgetsAssumption  == Budgets \subseteq [{"requests", "edits", "faults"} -> Nat]

VARIABLES
  table,    \* admin_settings
  sets,     \* change_sets
  h,        \* the request each client has in a handler
  left,     \* what is left of the budget
  (* history *)
  base,     \* the settings each set found when it was first applied
  begun,    \* sets whose settings were listed for an apply and not rolled back
  muddled,  \* sets with a second apply meanwhile, or one that could not list
  approved, \* sets that were approved once
  since     \* settings others have written since each request wrote them

history == <<base, begun, muddled, approved, since>>
vars == <<table, sets, h, left, history>>

Effective == [k \in Keys |-> IF table[k] = None THEN Env[k] ELSE table[k]]
KeysOf(s) == {Proposed[s][i].key : i \in 1 .. Len(Proposed[s])}
Spend(what) == left[what] > 0 /\ left' = [left EXCEPT ![what] = @ - 1]

Idle == [pc |-> "idle", op |-> None, set |-> None, cs |-> None,
         todo |-> <<>>, prior |-> <<>>, skipped |-> {}]

At(c, pc) == h[c].pc = pc

(* The request ends.                                                       *)
Done(c) ==
  /\ h' = [h EXCEPT ![c] = Idle]
  /\ since' = [since EXCEPT ![c] = {}]

-----------------------------------------------------------------------------
Admits_Pending(op, status) ==
  \/ op = "submit"   /\ status = "draft"
  \/ op = "approve"  /\ status = "pending"
  \/ op = "apply"    /\ status \in {"pending", "approved"}
  \/ op = "rollback" /\ status = "applied"
  \/ op = "delete"

(* The status a set must have; any set may be deleted.                     *)
Admits(op, status) ==
  \/ op = "submit"   /\ status = "draft"
  \/ op = "approve"  /\ status = "pending"
  \/ op = "apply"    /\ status = "approved"
  \/ op = "rollback" /\ status = "applied"
  \/ op = "delete"

(* GetChangeSet, then the judgement of the copy; a refusal changes nothing.*)
Find(c, op, s) ==
  /\ At(c, "idle") /\ Spend("requests")
  /\ sets[s] # None /\ Admits(op, sets[s].status)
  /\ h' = [h EXCEPT ![c] =
             [Idle EXCEPT !.op = op, !.set = s, !.cs = sets[s],
                !.todo = IF op = "rollback" THEN sets[s].prior ELSE <<>>,
                !.pc = CASE op = "apply" -> "list" [] op = "rollback" -> "write"
                         [] op = "delete" -> "delete" [] OTHER -> "update"]]
  /\ UNCHANGED <<table, sets, history>>

Captured_Rows(s, vals) ==
  [i \in 1 .. Len(Proposed[s]) |-> [key |-> Proposed[s][i].key, val |-> table[Proposed[s][i].key]]]

Captured_Defaults(s, vals) ==
  [i \in 1 .. Len(Proposed[s]) |-> [key |-> Proposed[s][i].key, val |-> Env[Proposed[s][i].key]]]

(* The items with the values they replace: what a rollback will write.     *)
Captured(s, vals) ==
  [i \in 1 .. Len(Proposed[s]) |-> [key |-> Proposed[s][i].key, val |-> vals[Proposed[s][i].key]]]

Begins(c, vals) ==
  LET s == h[c].set IN
  /\ h' = [h EXCEPT ![c] = [@ EXCEPT !.pc = "write", !.todo = Proposed[s], !.prior = Captured(s, vals)]]
  /\ base' = IF s \in begun THEN base ELSE [base EXCEPT ![s] = Effective]
  /\ begun' = begun \cup {s}

(* changeSetApply: storedSettingsMap.                                      *)
List(c) ==
  /\ At(c, "list") /\ Begins(c, Effective)
  /\ muddled' = IF h[c].set \in begun THEN muddled \cup {h[c].set} ELSE muddled
  /\ UNCHANGED <<table, sets, left, approved, since>>

(* Its list fails: every setting seems to have its environment's value.    *)
ListFails(c) ==
  /\ At(c, "list") /\ Spend("faults") /\ Begins(c, Env)
  /\ muddled' = muddled \cup {h[c].set}
  /\ UNCHANGED <<table, sets, approved, since>>

Written(k, v) == table' = [table EXCEPT ![k] = v]

(* persistSettingValue of the next item.                                   *)
Write(c) ==
  /\ At(c, "write") /\ h[c].todo # <<>>
  /\ LET it == Head(h[c].todo) IN
       /\ Written(it.key, it.val)
       /\ since' = [d \in Clients |-> IF d = c THEN since[d] \ {it.key}
                                      ELSE IF At(d, "idle") THEN {} ELSE since[d] \cup {it.key}]
  /\ h' = [h EXCEPT ![c].todo = Tail(@)]
  /\ UNCHANGED <<sets, left, base, begun, muddled, approved>>

ApplyFails_GoesOn(c) ==
  /\ At(c, "write") /\ h[c].op = "apply" /\ h[c].todo # <<>> /\ Spend("faults")
  /\ h' = [h EXCEPT ![c].todo = Tail(@)]
  /\ UNCHANGED <<table, sets, history>>

(* A write of an apply fails: it stops, what is written stays.             *)
ApplyFails(c) ==
  /\ At(c, "write") /\ h[c].op = "apply" /\ h[c].todo # <<>> /\ Spend("faults")
  /\ Done(c)
  /\ UNCHANGED <<table, sets, base, begun, muddled, approved>>

(* A write of a rollback fails: it goes on with the others.                *)
RollbackFails(c) ==
  /\ At(c, "write") /\ h[c].op = "rollback" /\ h[c].todo # <<>> /\ Spend("faults")
  /\ h' = [h EXCEPT ![c].todo = Tail(@), ![c].skipped = @ \cup {Head(h[c].todo).key}]
  /\ UNCHANGED <<table, sets, history>>

(* The row the request makes of its copy.                                  *)
Outcome(c) ==
  CASE h[c].op = "submit"   -> [h[c].cs EXCEPT !.status = "pending"]
    [] h[c].op = "approve"  -> [h[c].cs EXCEPT !.status = "approved"]
    [] h[c].op = "apply"    -> [status |-> "applied", prior |-> h[c].prior]
    [] h[c].op = "rollback" -> [h[c].cs EXCEPT !.status = "rolled_back"]

Ready(c) == At(c, "update") \/ (At(c, "write") /\ h[c].todo = <<>>)

Rivals(c) == {d \in Clients \ {c} : h[d].set = h[c].set /\ h[d].op \in {"apply", "rollback"}}

(* UpdateChangeSet, which finds no row when the set was deleted.  A set    *)
(* that is rolled back starts afresh, unless another request is still at it*)
Update(c) ==
  /\ Ready(c)
  /\ LET s == h[c].set  op == h[c].op IN
       /\ sets' = [sets EXCEPT ![s] = IF @ = None THEN None ELSE Outcome(c)]
       /\ approved' = IF op = "approve" /\ sets[s] # None THEN approved \cup {s} ELSE approved
       /\ begun' = IF op = "rollback" THEN begun \ {s} ELSE begun
       /\ muddled' = CASE op = "rollback" /\ Rivals(c) # {} -> muddled \cup {s}
                       [] op = "rollback" /\ Rivals(c) = {} -> muddled \ {s}
                       [] op # "rollback" -> muddled
  /\ Done(c)
  /\ UNCHANGED <<table, left, base>>

UpdateFails(c) ==
  /\ Ready(c) /\ Spend("faults")
  /\ Done(c)
  /\ UNCHANGED <<table, sets, base, begun, muddled, approved>>

Delete(c) ==
  /\ At(c, "delete")
  /\ sets' = [sets EXCEPT ![h[c].set] = None]
  /\ Done(c)
  /\ UNCHANGED <<table, left, base, begun, muddled, approved>>

(* The pod that serves a request is replaced.                              *)
Dies(c) ==
  /\ ~At(c, "idle") /\ Spend("faults")
  /\ Done(c)
  /\ UNCHANGED <<table, sets, base, begun, muddled, approved>>

(* A setting is put or reverted on its own.                                *)
Edit(k, v) ==
  /\ Spend("edits")
  /\ Written(k, v)
  /\ since' = [d \in Clients |-> IF At(d, "idle") THEN {} ELSE since[d] \cup {k}]
  /\ UNCHANGED <<sets, h, base, begun, muddled, approved>>

-----------------------------------------------------------------------------
(* Sets on their way to an apply; a set is never created again.            *)
Init ==
  /\ table \in [Keys -> Values \cup {None}]
  /\ sets \in [Sets -> [status: {"draft", "pending", "approved"}, prior: {<<>>}]]
  /\ h = [c \in Clients |-> Idle]
  /\ left \in Budgets
  /\ base = [s \in Sets |-> Env]
  /\ begun = {} /\ muddled = {}
  /\ approved = {s \in Sets : sets[s].status = "approved"}
  /\ since = [c \in Clients |-> {}]

Handle(c) ==
  \/ \E op \in Ops, s \in Sets : Find(c, op, s)
  \/ List(c) \/ ListFails(c) \/ Write(c) \/ ApplyFails(c) \/ RollbackFails(c)
  \/ Update(c) \/ UpdateFails(c) \/ Delete(c) \/ Dies(c)

Next ==
  \/ \E c \in Clients : Handle(c)
  \/ \E k \in Keys, v \in Values \cup {None} : Edit(k, v)

Spec == Init /\ [][Next]_vars

-----------------------------------------------------------------------------
Statuses == {"draft", "pending", "approved", "applied", "rolled_back"}
Rows == [status: Statuses, prior: Seq(Items)]
Requests == [pc: {"idle", "list", "write", "update", "delete"}, op: Ops \cup {None},
             set: Sets \cup {None}, cs: Rows \cup {None}, todo: Seq(Items),
             prior: Seq(Items), skipped: SUBSET Keys]

TypeOK ==
  /\ table \in [Keys -> Values \cup {None}]
  /\ sets \in [Sets -> Rows \cup {None}]
  /\ h \in [Clients -> Requests]
  /\ left \in [{"requests", "edits", "faults"} -> Nat]
  /\ base \in [Sets -> [Keys -> Values]]
  /\ begun \subseteq Sets /\ muddled \subseteq Sets /\ approved \subseteq Sets
  /\ since \in [Clients -> SUBSET Keys]

\* Nothing of a set is written before it was approved, whatever copies the
\* requests of several administrators judge.
ApprovedFirst == \A c \in Clients : h[c].op = "apply" => h[c].set \in approved

\* An apply that is about to report its set applied has put each item in place;
\* others may have changed it since.
AppliedInFull ==
  \A c \in Clients : h[c].op = "apply" /\ Ready(c) =>
    \A i \in 1 .. Len(Proposed[h[c].set]) :
      LET it == Proposed[h[c].set][i] IN it.key \in since[c] \/ Effective[it.key] = it.val

\* A rollback that is about to report its set rolled back has given each setting
\* the value it had before the set was first applied, however many edits and
\* other sets came in between; not one it could not write, not one others have
\* written after it, and not if the set was applied twice.
RollbackRestores ==
  \A c \in Clients : h[c].op = "rollback" /\ Ready(c) /\ h[c].set \notin muddled =>
    \A k \in KeysOf(h[c].set) :
      k \in since[c] \cup h[c].skipped \/ Effective[k] = base[h[c].set][k]
=============================================================================
