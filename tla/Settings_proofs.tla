--------------------------- MODULE Settings_proofs ---------------------------
(***************************************************************************)
(* Proofs about the settings: ChangeSets for any number of clients,        *)
(* settings and sets, and any budget; RuntimeSettings, which shares no     *)
(* state with it, as an instance at the end.                               *)
(***************************************************************************)
EXTENDS ChangeSets, PodSettings, TLAPS

USE EnvAssumption, NoneAssumption, ProposedAssumption, BudgetsAssumption

\* The empty list.
LEMMA EmptyQueue == ASSUME NEW S PROVE <<>> \in Seq(S) /\ Len(<<>>) = 0
  OBVIOUS

\* A spent budget is a budget.
LEMMA SpendType ==
  ASSUME TypeOK, NEW what \in {"requests", "edits", "faults"}, Spend(what)
  PROVE  left' \in [{"requests", "edits", "faults"} -> Nat]
<1>1. left[what] - 1 \in Nat
  BY DEF TypeOK, Spend
<1>2. QED
  BY <1>1 DEF TypeOK, Spend

\* The values a set replaces are items of their own.
LEMMA CapturedType ==
  ASSUME NEW s \in Sets, NEW vals \in [Keys -> Values]
  PROVE  Proposed[s] \in Seq(Items) /\ Captured(s, vals) \in Seq(Items)
<1>1. Proposed[s] \in Seq(Items) /\ Len(Proposed[s]) \in Nat
  OBVIOUS
<1>2. \A i \in 1 .. Len(Proposed[s]) : Proposed[s][i] \in Items
  BY <1>1
<1>3. \A i \in 1 .. Len(Proposed[s]) :
        [key |-> Proposed[s][i].key, val |-> vals[Proposed[s][i].key]] \in Items
  BY <1>2 DEF Items
<1>4. Captured(s, vals) \in [1 .. Len(Proposed[s]) -> Items]
  BY <1>3 DEF Captured
<1>5. QED
  BY <1>1, <1>4

\* Settings in force are values.
LEMMA EffectiveType == ASSUME TypeOK PROVE Effective \in [Keys -> Values]
  BY DEF TypeOK, Effective

LEMMA IdleType == Idle \in Requests
  BY EmptyQueue DEF Idle, Requests

\* The head of what is left to write is an item.
LEMMA TodoType ==
  ASSUME TypeOK, NEW c \in Clients, h[c].todo # <<>>
  PROVE  Head(h[c].todo) \in Items /\ Tail(h[c].todo) \in Seq(Items)
<1>1. h[c].todo \in Seq(Items)
  BY DEF TypeOK, Requests
<1>2. QED
  BY <1>1

-----------------------------------------------------------------------------
(* A request stands where its operation may stand.                         *)
Stands(r) ==
  \/ r.pc = "idle" /\ r.op = None
  \/ /\ r.set \in Sets /\ r.cs \in Rows
     /\ \/ r.op = "apply" /\ r.pc \in {"list", "write"}
        \/ r.op = "rollback" /\ r.pc = "write"
        \/ r.op \in {"submit", "approve"} /\ r.pc = "update"
        \/ r.op = "delete" /\ r.pc = "delete"

Shape == \A c \in Clients : Stands(h[c])

TypeInv == TypeOK /\ Shape

LEMMA TypeInit == Init => TypeInv
<1> SUFFICES ASSUME Init PROVE TypeInv
  OBVIOUS
<1>1. sets \in [Sets -> Rows \cup {None}]
  <2>1. <<>> \in Seq(Items)
    BY EmptyQueue
  <2>2. [status: {"draft", "pending", "approved"}, prior: {<<>>}] \subseteq Rows
    BY <2>1 DEF Rows, Statuses
  <2>3. QED
    BY <2>2 DEF Init
<1>2. h \in [Clients -> Requests]
  BY IdleType DEF Init
<1>3. Shape
  BY DEF Init, Shape, Stands, Idle
<1>4. QED
  BY <1>1, <1>2, <1>3 DEF Init, TypeOK, TypeInv

\* A step of one client that leaves it in a proper place keeps all others there.
LEMMA Moves ==
  ASSUME TypeInv, NEW c \in Clients, NEW r \in Requests, Stands(r), h' = [h EXCEPT ![c] = r]
  PROVE  h' \in [Clients -> Requests] /\ Shape'
<1>1. h' \in [Clients -> Requests] /\ \A d \in Clients : h'[d] = IF d = c THEN r ELSE h[d]
  BY DEF TypeInv, TypeOK
<1>2. QED
  BY <1>1 DEF TypeInv, Shape, Stands

\* A request that ends leaves the types as they are.
LEMMA DoneType ==
  ASSUME TypeInv, NEW c \in Clients, Done(c)
  PROVE  h' \in [Clients -> Requests] /\ Shape' /\ since' \in [Clients -> SUBSET Keys]
<1>1. Stands(Idle)
  BY DEF Stands, Idle
<1>2. QED
  BY <1>1, IdleType, Moves DEF Done, TypeInv, TypeOK

LEMMA TypeNext == TypeInv /\ [Next]_vars => TypeInv'
<1> SUFFICES ASSUME TypeInv, [Next]_vars PROVE TypeInv'
  OBVIOUS
<1> USE DEF history
<1>0. TypeOK /\ \A c \in Clients : h[c] \in Requests /\ Stands(h[c])
  BY DEF TypeInv, TypeOK, Shape
<1>1. ASSUME NEW c \in Clients, NEW op \in Ops, NEW s \in Sets, Find(c, op, s) PROVE TypeInv'
  <2> DEFINE new == [Idle EXCEPT !.op = op, !.set = s, !.cs = sets[s],
                !.todo = IF op = "rollback" THEN sets[s].prior ELSE <<>>,
                !.pc = CASE op = "apply" -> "list" [] op = "rollback" -> "write"
                         [] op = "delete" -> "delete" [] OTHER -> "update"]
  <2>1. sets[s] \in Rows /\ sets[s].prior \in Seq(Items) /\ <<>> \in Seq(Items)
    BY <1>0, <1>1, EmptyQueue DEF Find, TypeOK, Rows
  <2>2. new \in Requests /\ Stands(new)
    BY <2>1 DEF Idle, Requests, Stands, Ops
  <2>3. h' \in [Clients -> Requests] /\ Shape'
    BY <1>1, <2>2, Moves DEF Find
  <2>4. left' \in [{"requests", "edits", "faults"} -> Nat]
    BY <1>0, <1>1, SpendType DEF Find
  <2>5. QED
    BY <1>0, <1>1, <2>3, <2>4 DEF Find, TypeOK, TypeInv
<1>2. ASSUME NEW c \in Clients, List(c) \/ ListFails(c) PROVE TypeInv'
  <2>1. PICK vals \in [Keys -> Values] : Begins(c, vals)
    BY <1>0, <1>2, EffectiveType DEF List, ListFails
  <2>2. At(c, "list") /\ h[c].set \in Sets /\ h[c].op = "apply" /\ h[c].cs \in Rows
    BY <1>0, <1>2 DEF List, ListFails, At, Stands
  <2> DEFINE new == [h[c] EXCEPT !.pc = "write", !.todo = Proposed[h[c].set],
                                 !.prior = Captured(h[c].set, vals)]
  <2>3. new \in Requests /\ Stands(new)
    <3>1. h[c] \in Requests
      BY <1>0
    <3>2. Proposed[h[c].set] \in Seq(Items) /\ Captured(h[c].set, vals) \in Seq(Items)
      BY <2>2, CapturedType
    <3>3. new \in Requests
      BY <3>1, <3>2 DEF Requests
    <3>4. new.set = h[c].set /\ new.cs = h[c].cs /\ new.op = h[c].op /\ new.pc = "write"
      BY <3>1 DEF Requests
    <3>5. QED
      BY <2>2, <3>3, <3>4 DEF Stands
  <2>4. h' = [h EXCEPT ![c] = new]
    BY <2>1 DEF Begins
  <2>5. h' \in [Clients -> Requests] /\ Shape'
    BY <2>3, <2>4, Moves
  <2>6. base' \in [Sets -> [Keys -> Values]] /\ begun' \subseteq Sets
    BY <1>0, <2>1, <2>2, EffectiveType DEF Begins, TypeOK
  <2>7. left' \in [{"requests", "edits", "faults"} -> Nat] /\ muddled' \subseteq Sets
    BY <1>0, <1>2, <2>2, SpendType DEF List, ListFails, TypeOK
  <2>8. QED
    BY <1>0, <1>2, <2>5, <2>6, <2>7 DEF List, ListFails, TypeOK, TypeInv
<1>3. ASSUME NEW c \in Clients, At(c, "write"), h[c].todo # <<>>, NEW r,
             h' = [h EXCEPT ![c] = r], NEW skipped \in SUBSET Keys,
             r = [h[c] EXCEPT !.todo = Tail(h[c].todo), !.skipped = skipped]
      PROVE  h' \in [Clients -> Requests] /\ Shape'
  <2>1. r \in Requests
    BY <1>0, <1>3, TodoType DEF Requests
  <2>2. Stands(r)
    BY <1>0, <1>3 DEF Stands, Requests
  <2>3. QED
    BY <1>3, <2>1, <2>2, Moves
<1>4. ASSUME NEW c \in Clients, Write(c) PROVE TypeInv'
  <2>1. Head(h[c].todo) \in Items
    BY <1>0, <1>4, TodoType DEF Write
  <2>2. table' \in [Keys -> Values \cup {None}] /\ since' \in [Clients -> SUBSET Keys]
    BY <1>0, <1>4, <2>1 DEF Write, Written, TypeOK, Items
  <2> DEFINE r == [h[c] EXCEPT !.todo = Tail(h[c].todo)]
  <2>3. r = [h[c] EXCEPT !.todo = Tail(h[c].todo), !.skipped = h[c].skipped] /\ h[c].skipped \in SUBSET Keys
    BY <1>0 DEF Requests
  <2>6. h' = [h EXCEPT ![c] = r]
    BY <1>0, <1>4 DEF Write, TypeOK
  <2>4. h' \in [Clients -> Requests] /\ Shape'
    BY <1>3, <1>4, <2>3, <2>6 DEF Write
  <2>5. QED
    BY <1>0, <1>4, <2>2, <2>4 DEF Write, TypeOK, TypeInv
<1>5. ASSUME NEW c \in Clients, RollbackFails(c) PROVE TypeInv'
  <2>1. Head(h[c].todo).key \in Keys
    BY <1>0, <1>5, TodoType DEF RollbackFails, Items
  <2> DEFINE skipped == h[c].skipped \cup {Head(h[c].todo).key}
             r == [h[c] EXCEPT !.todo = Tail(h[c].todo), !.skipped = skipped]
  <2>2. skipped \in SUBSET Keys
    BY <1>0, <2>1 DEF Requests
  <2>6. h' = [h EXCEPT ![c] = r]
    BY <1>0, <1>5 DEF RollbackFails, TypeOK
  <2>3. h' \in [Clients -> Requests] /\ Shape'
    BY <1>3, <1>5, <2>2, <2>6 DEF RollbackFails
  <2>4. left' \in [{"requests", "edits", "faults"} -> Nat]
    BY <1>0, <1>5, SpendType DEF RollbackFails
  <2>5. QED
    BY <1>0, <1>5, <2>3, <2>4 DEF RollbackFails, TypeOK, TypeInv
<1>6. ASSUME NEW c \in Clients, Update(c) PROVE TypeInv'
  <2>1. h[c].set \in Sets /\ h[c].cs \in Rows /\ h[c].op \in {"submit", "approve", "apply", "rollback"}
    BY <1>0, <1>6 DEF Update, Ready, At, Stands
  <2>2. Outcome(c) \in Rows
    BY <1>0, <2>1 DEF Outcome, Rows, Statuses, Requests
  <2>3. sets' \in [Sets -> Rows \cup {None}]
    BY <1>0, <1>6, <2>2 DEF Update, TypeOK
  <2>4. begun' \subseteq Sets /\ muddled' \subseteq Sets /\ approved' \subseteq Sets
    BY <1>0, <1>6, <2>1 DEF Update, TypeOK
  <2>5. QED
    BY <1>0, <1>6, <2>3, <2>4, DoneType DEF Update, TypeOK, TypeInv
<1>7. ASSUME NEW c \in Clients, ApplyFails(c) \/ UpdateFails(c) \/ Dies(c) PROVE TypeInv'
  <2>1. left' \in [{"requests", "edits", "faults"} -> Nat]
    BY <1>0, <1>7, SpendType DEF ApplyFails, UpdateFails, Dies
  <2>2. QED
    BY <1>0, <1>7, <2>1, DoneType DEF ApplyFails, UpdateFails, Dies, TypeOK, TypeInv
<1>8. ASSUME NEW c \in Clients, Delete(c) PROVE TypeInv'
  BY <1>0, <1>8, DoneType DEF Delete, TypeOK, TypeInv
<1>9. ASSUME NEW k \in Keys, NEW v \in Values \cup {None}, Edit(k, v) PROVE TypeInv'
  <2>1. left' \in [{"requests", "edits", "faults"} -> Nat]
    BY <1>0, <1>9, SpendType DEF Edit
  <2>2. table' \in [Keys -> Values \cup {None}] /\ since' \in [Clients -> SUBSET Keys]
    BY <1>0, <1>9 DEF Edit, Written, TypeOK
  <2>3. QED
    BY <1>0, <1>9, <2>1, <2>2 DEF Edit, TypeOK, TypeInv, Shape
<1>10. CASE UNCHANGED vars
  BY <1>10 DEF vars, TypeInv, TypeOK, Shape
<1>11. QED
  BY <1>1, <1>2, <1>4, <1>5, <1>6, <1>7, <1>8, <1>9, <1>10 DEF Next, Handle

\* Type correctness.
THEOREM TypeCorrect == Spec => []TypeOK
<1>1. TypeInv => TypeOK
  BY DEF TypeInv
<1>2. QED
  BY <1>1, TypeInit, TypeNext, PTL DEF Spec

-----------------------------------------------------------------------------
(* A set whose row says approved has been approved, and so has one that is *)
(* being applied.                                                          *)
ApprovedInv ==
  /\ \A s \in Sets : sets[s] # None => (sets[s].status = "approved" => s \in approved)
  /\ ApprovedFirst

LEMMA ApprovedInit == Init => ApprovedInv
  BY DEF Init, ApprovedInv, ApprovedFirst, Idle, Ops

LEMMA ApprovedStep == TypeInv /\ ApprovedInv /\ [Next]_vars => ApprovedInv'
<1> SUFFICES ASSUME TypeInv, ApprovedInv, [Next]_vars PROVE ApprovedInv'
  OBVIOUS
<1> USE DEF history
<1>0. /\ TypeOK /\ \A c \in Clients : h[c] \in Requests /\ Stands(h[c])
      /\ None \notin Ops
  BY DEF TypeInv, TypeOK, Shape
<1>1. ASSUME approved \subseteq approved', UNCHANGED sets, NEW c \in Clients, NEW r, h' = [h EXCEPT ![c] = r],
             r.op = "apply" => r.set \in approved'
      PROVE  ApprovedInv'
  BY <1>0, <1>1 DEF ApprovedInv, ApprovedFirst, TypeOK
<1>2. ASSUME NEW c \in Clients, NEW op \in Ops, NEW s \in Sets, Find(c, op, s) PROVE ApprovedInv'
  <2>1. PICK r : h' = [h EXCEPT ![c] = r] /\ r.op = op /\ r.set = s
    <3> DEFINE new == [Idle EXCEPT !.op = op, !.set = s, !.cs = sets[s],
                  !.todo = IF op = "rollback" THEN sets[s].prior ELSE <<>>,
                  !.pc = CASE op = "apply" -> "list" [] op = "rollback" -> "write"
                           [] op = "delete" -> "delete" [] OTHER -> "update"]
    <3>1. new.op = op /\ new.set = s
      BY DEF Idle
    <3>2. h' = [h EXCEPT ![c] = new]
      BY <1>2 DEF Find
    <3> HIDE DEF new
    <3>3. QED
      BY <3>1, <3>2
  <2>2. op = "apply" => s \in approved
    BY <1>2 DEF Find, Admits, ApprovedInv
  <2>4. UNCHANGED <<sets, approved>>
    BY <1>2 DEF Find
  <2>3. QED
    BY <1>1, <2>1, <2>2, <2>4
<1>3. ASSUME NEW c \in Clients, NEW r, h' = [h EXCEPT ![c] = r], r.op = h[c].op, r.set = h[c].set,
             UNCHANGED <<sets, approved>>
      PROVE  ApprovedInv'
  BY <1>1, <1>3 DEF ApprovedInv, ApprovedFirst
<1>4. ASSUME NEW c \in Clients, NEW vals, Begins(c, vals), UNCHANGED <<sets, approved>> PROVE ApprovedInv'
  <2> DEFINE new == [h[c] EXCEPT !.pc = "write", !.todo = Proposed[h[c].set],
                                 !.prior = Captured(h[c].set, vals)]
  <2>1. new.op = h[c].op /\ new.set = h[c].set
    BY <1>0 DEF Requests
  <2>2. h' = [h EXCEPT ![c] = new]
    BY <1>0, <1>4 DEF Begins, TypeOK
  <2>3. QED
    BY <1>3, <1>4, <2>1, <2>2
<1>5. ASSUME NEW c \in Clients, Write(c) \/ RollbackFails(c) PROVE ApprovedInv'
  <2>1. \A d \in Clients : h'[d].op = h[d].op /\ h'[d].set = h[d].set
    <3>1. ASSUME NEW skipped, h' = [h EXCEPT ![c] = [h[c] EXCEPT !.todo = Tail(@), !.skipped = skipped]]
          PROVE  \A d \in Clients : h'[d].op = h[d].op /\ h'[d].set = h[d].set
      BY <1>0, <3>1 DEF TypeOK, Requests
    <3>2. CASE Write(c)
      BY <1>0, <3>2 DEF Write, TypeOK, Requests
    <3>3. CASE RollbackFails(c)
      <4>1. h' = [h EXCEPT ![c] = [h[c] EXCEPT !.todo = Tail(@), !.skipped = @ \cup {Head(h[c].todo).key}]]
        BY <1>0, <3>3 DEF RollbackFails, TypeOK
      <4>2. QED
        BY <3>1, <4>1
    <3>4. QED
      BY <1>5, <3>2, <3>3
  <2>2. QED
    BY <1>5, <2>1 DEF Write, RollbackFails, ApprovedInv, ApprovedFirst
<1>6. ASSUME NEW c \in Clients, Done(c), UNCHANGED <<sets, approved>> PROVE ApprovedInv'
  BY <1>0, <1>1, <1>6 DEF Done, Idle, Ops
<1>7. ASSUME NEW c \in Clients, Update(c) PROVE ApprovedInv'
  <2> DEFINE s == h[c].set
  <2>1. s \in Sets /\ h[c].cs \in Rows /\ h[c].op \in {"submit", "approve", "apply", "rollback"}
    BY <1>0, <1>7 DEF Update, Ready, At, Stands
  <2>2. approved \subseteq approved'
    BY <1>7 DEF Update
  <2>3. Outcome(c).status = "approved" => h[c].op = "approve"
    BY <2>1 DEF Outcome, Rows
  <2>4. sets[s] # None /\ h[c].op = "approve" => s \in approved'
    BY <1>7 DEF Update
  <2>5. \A t \in Sets : sets'[t] = IF t = s THEN (IF sets[s] = None THEN None ELSE Outcome(c)) ELSE sets[t]
    BY <1>0, <1>7 DEF Update, TypeOK
  <2>6. \A t \in Sets : sets'[t] # None => (sets'[t].status = "approved" => t \in approved')
    BY <2>2, <2>3, <2>4, <2>5 DEF ApprovedInv
  <2>7. \A d \in Clients : h'[d].op = "apply" => h'[d].set \in approved'
    BY <1>0, <1>7, <2>2 DEF Update, Done, Idle, Ops, TypeOK, ApprovedInv, ApprovedFirst
  <2>8. QED
    BY <2>6, <2>7 DEF ApprovedInv, ApprovedFirst
<1>8. ASSUME NEW c \in Clients, Delete(c) PROVE ApprovedInv'
  <2>1. \A t \in Sets : sets'[t] = sets[t] \/ sets'[t] = None
    BY <1>0, <1>8 DEF Delete, TypeOK
  <2>2. \A d \in Clients : h'[d].op = "apply" => h'[d].set \in approved
    BY <1>0, <1>8 DEF Delete, Done, Idle, Ops, TypeOK, ApprovedInv, ApprovedFirst
  <2>3. QED
    BY <1>8, <2>1, <2>2 DEF Delete, ApprovedInv, ApprovedFirst
<1>9. CASE UNCHANGED <<sets, h, approved>>
  BY <1>9 DEF ApprovedInv, ApprovedFirst
<1>10. QED
  BY <1>2, <1>4, <1>5, <1>6, <1>7, <1>8, <1>9 DEF Next, Handle, vars, List, ListFails, ApplyFails,
     UpdateFails, Dies, Edit

\* Nothing of a set is written before it was approved, for any number of
\* clients that judge copies of any age.
THEOREM OnlyApprovedIsApplied == Spec => []ApprovedFirst
<1>1. ApprovedInv => ApprovedFirst
  BY DEF ApprovedInv
<1>2. QED
  BY <1>1, TypeInit, TypeNext, ApprovedInit, ApprovedStep, PTL DEF Spec

-----------------------------------------------------------------------------
(* No set names a setting twice.                                           *)
KeysOnce == \A s \in Sets : \A i, j \in 1 .. Len(Proposed[s]) :
              Proposed[s][i].key = Proposed[s][j].key => i = j

(* todo is the end of P.                                                   *)
Ends(todo, P) ==
  /\ Len(todo) <= Len(P)
  /\ \A i \in 1 .. Len(todo) : todo[i] = P[(Len(P) - Len(todo)) + i]

(* The first m items of P have their values, or others wrote them since.   *)
Placed(P, m, settings, others) ==
  \A i \in 1 .. m : P[i].key \in others \/ settings[P[i].key] = P[i].val

(* What an apply has still to write is the end of the proposal, and what it*)
(* has written is in place.                                                *)
InPlace(c) ==
  LET P == Proposed[h[c].set] IN
  /\ Ends(h[c].todo, P)
  /\ Placed(P, Len(P) - Len(h[c].todo), Effective, since[c])

PlaceInv == \A c \in Clients : h[c].op = "apply" /\ h[c].pc = "write" => InPlace(c)

LEMMA ItemAt ==
  ASSUME NEW P \in Seq(Items), NEW i \in 1 .. Len(P)
  PROVE  P[i] \in Items /\ P[i].key \in Keys /\ P[i].val \in Values
<1>1. P[i] \in Items
  OBVIOUS
<1>2. QED
  BY <1>1 DEF Items

\* The head of an end of P is the item before the end that is left.
LEMMA EndsTail ==
  ASSUME NEW P \in Seq(Items), NEW todo \in Seq(Items), todo # <<>>, Ends(todo, P)
  PROVE  /\ Ends(Tail(todo), P)
         /\ Len(P) - Len(todo) \in Nat
         /\ Len(P) - Len(Tail(todo)) = (Len(P) - Len(todo)) + 1
         /\ (Len(P) - Len(todo)) + 1 \in 1 .. Len(P)
         /\ Head(todo) = P[(Len(P) - Len(todo)) + 1]
<1>1. /\ Len(P) \in Nat /\ Len(todo) \in Nat \ {0} /\ Len(todo) <= Len(P)
      /\ Len(Tail(todo)) = Len(todo) - 1 /\ Head(todo) = todo[1]
  BY DEF Ends
<1>2. \A i \in 1 .. Len(Tail(todo)) : Tail(todo)[i] = todo[i + 1] /\ i + 1 \in 1 .. Len(todo)
  BY <1>1
<1>3. ASSUME NEW i \in 1 .. Len(Tail(todo)) PROVE Tail(todo)[i] = P[(Len(P) - Len(Tail(todo))) + i]
  <2>1. todo[i + 1] = P[(Len(P) - Len(todo)) + (i + 1)]
    BY <1>2 DEF Ends
  <2>2. (Len(P) - Len(todo)) + (i + 1) = (Len(P) - Len(Tail(todo))) + i
    BY <1>1
  <2>3. QED
    BY <1>2, <2>1, <2>2
<1>4. todo[1] = P[(Len(P) - Len(todo)) + 1]
  BY <1>1 DEF Ends
<1>5. Ends(Tail(todo), P)
  BY <1>1, <1>3 DEF Ends
<1>6. QED
  BY <1>1, <1>4, <1>5

\* A write of the next item keeps the items before it in place.
LEMMA PlacedNext ==
  ASSUME NEW P \in Seq(Items), NEW m \in Nat, m + 1 \in 1 .. Len(P),
         \A i, j \in 1 .. Len(P) : P[i].key = P[j].key => i = j,
         NEW settings, NEW others, Placed(P, m, settings, others),
         NEW settings2, settings2[P[m + 1].key] = P[m + 1].val,
         \A k \in Keys \ {P[m + 1].key} : settings2[k] = settings[k]
  PROVE  Placed(P, m + 1, settings2, others \ {P[m + 1].key})
<1> SUFFICES ASSUME NEW i \in 1 .. m + 1
             PROVE  P[i].key \in others \ {P[m + 1].key} \/ settings2[P[i].key] = P[i].val
  BY DEF Placed
<1>1. CASE i = m + 1
  BY <1>1
<1>2. CASE i # m + 1
  <2>1. i \in 1 .. m /\ i \in 1 .. Len(P)
    BY <1>2
  <2>2. P[i].key \in Keys
    BY <2>1, ItemAt
  <2>3. P[i].key \in Keys /\ P[i].key # P[m + 1].key
    BY <1>2, <2>1, <2>2
  <2>4. P[i].key \in others \/ settings[P[i].key] = P[i].val
    BY <2>1 DEF Placed
  <2>5. QED
    BY <2>3, <2>4
<1>3. QED
  BY <1>1, <1>2

\* What others write meanwhile is counted in since.
LEMMA OthersInPlace ==
  ASSUME TypeOK, NEW c \in Clients, h[c].set \in Sets, InPlace(c), h'[c] = h[c],
         since[c] \subseteq since'[c],
         \A k \in Keys : table'[k] = table[k] \/ k \in since'[c]
  PROVE  InPlace(c)'
<1> DEFINE P == Proposed[h[c].set]
           m == Len(P) - Len(h[c].todo)
<1>1. \A k \in Keys : Effective'[k] = Effective[k] \/ k \in since'[c]
  BY DEF Effective
<1>2. P \in Seq(Items) /\ Len(P) \in Nat /\ Len(h[c].todo) \in Nat /\ Len(h[c].todo) <= Len(P)
  BY DEF TypeOK, Requests, InPlace, Ends
<1>3. ASSUME NEW i \in 1 .. m PROVE P[i].key \in since'[c] \/ Effective'[P[i].key] = P[i].val
  <2>1. i \in 1 .. Len(P)
    BY <1>2
  <2>2. P[i].key \in Keys
    BY <1>2, <2>1, ItemAt
  <2>3. P[i].key \in since[c] \/ Effective[P[i].key] = P[i].val
    BY DEF InPlace, Placed
  <2>4. QED
    BY <1>1, <2>2, <2>3
<1>4. Placed(P, m, Effective', since'[c])
  BY <1>3 DEF Placed
<1>5. QED
  BY <1>4 DEF InPlace

\* A write puts the next item in place.
LEMMA WriteInPlace ==
  ASSUME KeysOnce, TypeInv, NEW c \in Clients, h[c].op = "apply", InPlace(c), Write(c)
  PROVE  InPlace(c)'
<1> DEFINE s == h[c].set
           P == Proposed[s]
           todo == h[c].todo
           m == Len(P) - Len(todo)
           it == P[m + 1]
<1>1. TypeOK /\ h[c] \in Requests /\ Stands(h[c])
  BY DEF TypeInv, TypeOK, Shape
<1>2. s \in Sets /\ todo \in Seq(Items) /\ todo # <<>> /\ P \in Seq(Items)
  BY <1>1 DEF Stands, Requests, Write, At
<1>3. Ends(todo, P) /\ Placed(P, m, Effective, since[c])
  BY DEF InPlace
<1>4. /\ Ends(Tail(todo), P) /\ m \in Nat /\ Len(P) - Len(Tail(todo)) = m + 1
      /\ m + 1 \in 1 .. Len(P) /\ Head(todo) = it
  BY <1>2, <1>3, EndsTail
<1>5. it.key \in Keys /\ it.val \in Values
  BY <1>2, <1>4, ItemAt
<1>6. it.key \in Keys /\ it.val \in Values /\ it.val # None
  BY <1>5
<1>7. table' = [table EXCEPT ![it.key] = it.val] /\ since'[c] = since[c] \ {it.key}
      /\ h'[c].set = s /\ h'[c].todo = Tail(todo)
  <2>1. table' = [table EXCEPT ![Head(todo).key] = Head(todo).val] /\ since'[c] = since[c] \ {Head(todo).key}
    BY DEF Write, Written
  <2>2. h'[c].set = s /\ h'[c].todo = Tail(todo)
    BY <1>1 DEF Write, TypeOK, Requests
  <2>3. QED
    BY <1>4, <2>1, <2>2
<1> HIDE DEF it
<1>8. Effective'[it.key] = it.val /\ \A k \in Keys \ {it.key} : Effective'[k] = Effective[k]
  BY <1>1, <1>6, <1>7 DEF Effective, TypeOK
<1>9. \A i, j \in 1 .. Len(P) : P[i].key = P[j].key => i = j
  BY <1>2 DEF KeysOnce
<1> HIDE DEF P, m
<1>10. Placed(P, m + 1, Effective', since[c] \ {it.key})
  BY <1>2, <1>3, <1>4, <1>8, <1>9, PlacedNext DEF it
<1>11. Placed(P, Len(P) - Len(Tail(todo)), Effective', since'[c])
  BY <1>4, <1>7, <1>10
<1>12. QED
  BY <1>4, <1>7, <1>11 DEF InPlace, P

LEMMA PlaceInit == Init => PlaceInv
  BY DEF Init, PlaceInv, Idle

LEMMA PlaceStep == KeysOnce /\ TypeInv /\ PlaceInv /\ [Next]_vars => PlaceInv'
<1> SUFFICES ASSUME KeysOnce, TypeInv, PlaceInv, [Next]_vars PROVE PlaceInv'
  OBVIOUS
<1> USE DEF history
<1>0. /\ TypeOK /\ \A c \in Clients : h[c] \in Requests /\ Stands(h[c])
      /\ None \notin Ops
  BY DEF TypeInv, TypeOK, Shape
<1>1. ASSUME NEW c \in Clients, h[c].op = "apply", h[c].pc = "write", h'[c] = h[c],
             since[c] \subseteq since'[c],
             \A k \in Keys : table'[k] = table[k] \/ k \in since'[c]
      PROVE  InPlace(c)'
  <2>1. h[c].set \in Sets
    BY <1>0, <1>1 DEF Stands
  <2>2. QED
    BY <1>0, <1>1, <2>1, OthersInPlace DEF PlaceInv
<1>2. ASSUME NEW c \in Clients, UNCHANGED table, \A d \in Clients \ {c} : h'[d] = h[d] /\ since'[d] = since[d],
             h'[c].op # "apply" \/ h'[c].pc # "write"
      PROVE  PlaceInv'
  BY <1>1, <1>2 DEF PlaceInv
<1>3. ASSUME NEW c \in Clients, NEW op \in Ops, NEW s \in Sets, Find(c, op, s) PROVE PlaceInv'
  <2>1. UNCHANGED <<table, since>> /\ \A d \in Clients \ {c} : h'[d] = h[d]
    BY <1>0, <1>3 DEF Find, TypeOK
  <2>2. h'[c].op = op /\ (op = "apply" => h'[c].pc = "list")
    BY <1>0, <1>3 DEF Find, TypeOK, Idle
  <2>3. QED
    BY <1>2, <2>1, <2>2
<1>4. ASSUME NEW c \in Clients, NEW vals, Begins(c, vals), At(c, "list"), UNCHANGED <<table, since>>
      PROVE  PlaceInv'
  <2>1. h'[c].todo = Proposed[h[c].set] /\ h'[c].set = h[c].set /\ h[c].set \in Sets
    BY <1>0, <1>4 DEF Begins, TypeOK, Requests, Stands, At
  <2>2. Proposed[h[c].set] \in Seq(Items) /\ Len(Proposed[h[c].set]) \in Nat
    BY <2>1
  <2>3. Ends(Proposed[h[c].set], Proposed[h[c].set])
    BY <2>2 DEF Ends
  <2>4. Placed(Proposed[h[c].set], Len(Proposed[h[c].set]) - Len(Proposed[h[c].set]), Effective', since'[c])
    BY <2>2 DEF Placed
  <2>5. InPlace(c)'
    BY <2>1, <2>3, <2>4 DEF InPlace
  <2>6. \A d \in Clients \ {c} : h'[d] = h[d]
    BY <1>0, <1>4 DEF Begins, TypeOK
  <2>7. QED
    BY <1>1, <1>4, <2>5, <2>6 DEF PlaceInv
<1>5. ASSUME NEW c \in Clients, Write(c) PROVE PlaceInv'
  <2>1. PICK k \in Keys : \A d \in Clients \ {c} :
          /\ h'[d] = h[d]
          /\ \A l \in Keys \ {k} : table'[l] = table[l]
          /\ h[d].pc = "write" => since'[d] = since[d] \cup {k}
    <3>1. Head(h[c].todo).key \in Keys
      BY <1>0, <1>5, TodoType DEF Write, Items
    <3>2. QED
      BY <1>0, <1>5, <3>1 DEF Write, Written, TypeOK, At
  <2>2. ASSUME NEW d \in Clients \ {c}, h'[d].op = "apply", h'[d].pc = "write" PROVE InPlace(d)'
    BY <1>1, <2>1, <2>2
  <2>3. ASSUME h'[c].op = "apply" PROVE InPlace(c)'
    <3>1. h[c].op = "apply" /\ h[c].pc = "write"
      BY <1>0, <1>5, <2>3 DEF Write, At, TypeOK, Requests
    <3>2. QED
      BY <1>5, <3>1, WriteInPlace DEF PlaceInv
  <2>4. QED
    BY <2>2, <2>3 DEF PlaceInv
<1>6. ASSUME NEW c \in Clients, RollbackFails(c) PROVE PlaceInv'
  <2>1. UNCHANGED <<table, since>> /\ (\A d \in Clients \ {c} : h'[d] = h[d]) /\ h'[c].op # "apply"
    BY <1>0, <1>6 DEF RollbackFails, TypeOK, Requests
  <2>2. QED
    BY <1>2, <2>1
<1>7. ASSUME NEW c \in Clients, Done(c), UNCHANGED table PROVE PlaceInv'
  <2>1. (\A d \in Clients \ {c} : h'[d] = h[d] /\ since'[d] = since[d]) /\ h'[c].op # "apply"
    BY <1>0, <1>7 DEF Done, Idle, TypeOK, Ops
  <2>2. QED
    BY <1>2, <1>7, <2>1
<1>8. ASSUME NEW k \in Keys, NEW v \in Values \cup {None}, Edit(k, v) PROVE PlaceInv'
  <2>1. ASSUME NEW d \in Clients, h[d].op = "apply", h[d].pc = "write" PROVE InPlace(d)'
    <3>1. since'[d] = since[d] \cup {k} /\ h'[d] = h[d]
      BY <1>8, <2>1 DEF Edit, At
    <3>2. \A l \in Keys \ {k} : table'[l] = table[l]
      BY <1>0, <1>8 DEF Edit, Written, TypeOK
    <3>3. QED
      BY <1>1, <2>1, <3>1, <3>2
  <2>2. QED
    BY <1>8, <2>1 DEF PlaceInv, Edit
<1>9. CASE UNCHANGED vars
  BY <1>1, <1>9 DEF vars, PlaceInv
<1>10. QED
  BY <1>3, <1>4, <1>5, <1>6, <1>7, <1>8, <1>9 DEF Next, Handle, List, ListFails, ApplyFails, Update,
     UpdateFails, Delete, Dies

\* An apply that is about to report its set applied has put each item in place,
\* for sets of any size that name each setting once.
THEOREM AppliedIsInPlace ==
  ASSUME KeysOnce
  PROVE  Spec => []AppliedInFull
<1>1. TypeInv /\ PlaceInv => AppliedInFull
  <2> SUFFICES ASSUME TypeInv, PlaceInv, NEW c \in Clients, h[c].op = "apply", Ready(c),
                      NEW i \in 1 .. Len(Proposed[h[c].set])
               PROVE  LET it == Proposed[h[c].set][i] IN it.key \in since[c] \/ Effective[it.key] = it.val
    BY DEF AppliedInFull
  <2>1. h[c].pc = "write" /\ h[c].todo = <<>> /\ h[c].set \in Sets
    BY DEF TypeInv, Shape, Stands, Ready, At
  <2>2. InPlace(c) /\ Len(h[c].todo) = 0 /\ Len(Proposed[h[c].set]) \in Nat
    BY <2>1, EmptyQueue DEF PlaceInv
  <2>3. Placed(Proposed[h[c].set], Len(Proposed[h[c].set]), Effective, since[c])
    BY <2>2 DEF InPlace
  <2>4. QED
    BY <2>3 DEF Placed
<1>2. QED
  BY <1>1, TypeInit, TypeNext, PlaceInit, PlaceStep, PTL DEF Spec
-----------------------------------------------------------------------------
(* The strengthening that makes RollbackRestores inductive.  While a set is*)
(* not muddled, base holds what its one apply has listed; a row that is    *)
(* applied, the apply itself and every copy a rollback works from hold     *)
(* these values; and what a rollback has written so far is restored.       *)
Found(s) == Captured(s, base[s])

RowInv(s) ==
  s \notin muddled /\ sets[s] # None /\ sets[s].status = "applied" =>
    s \in begun /\ sets[s].prior = Found(s)

Restored(c, m) ==
  \A i \in 1 .. m : LET k == Found(h[c].set)[i].key IN
    k \in since[c] \cup h[c].skipped \/ Effective[k] = base[h[c].set][k]

Restoring(c) ==
  /\ h[c].set \in begun /\ Ends(h[c].todo, Found(h[c].set))
  /\ Restored(c, Len(Found(h[c].set)) - Len(h[c].todo))

ReqInv(c) ==
  h[c].set \notin muddled =>
    /\ h[c].op = "apply" /\ h[c].pc = "write" => h[c].set \in begun /\ h[c].prior = Found(h[c].set)
    /\ h[c].op = "rollback" => Restoring(c)

RestoreInv == (\A s \in Sets : RowInv(s)) /\ (\A c \in Clients : ReqInv(c))

\* What a set found: one value for each of its items.
LEMMA FoundType ==
  ASSUME TypeOK, NEW s \in Sets
  PROVE  /\ Found(s) \in Seq(Items) /\ Len(Found(s)) = Len(Proposed[s]) /\ Len(Found(s)) \in Nat
         /\ \A i \in 1 .. Len(Found(s)) : /\ Found(s)[i].key = Proposed[s][i].key /\ Found(s)[i].key \in Keys
                                          /\ Found(s)[i].val = base[s][Found(s)[i].key]
<1>1. base[s] \in [Keys -> Values]
  BY DEF TypeOK
<1>2. Found(s) \in Seq(Items) /\ Proposed[s] \in Seq(Items)
  BY <1>1, CapturedType DEF Found
<1>3. Len(Proposed[s]) \in Nat /\ Len(Found(s)) = Len(Proposed[s])
  BY <1>2 DEF Found, Captured
<1>4. \A i \in 1 .. Len(Found(s)) : /\ Found(s)[i].key = Proposed[s][i].key
                                    /\ Found(s)[i].val = base[s][Found(s)[i].key]
  BY <1>3 DEF Found, Captured
<1>5. \A i \in 1 .. Len(Found(s)) : Found(s)[i].key \in Keys
  BY <1>2, ItemAt
<1>6. QED
  BY <1>2, <1>3, <1>4, <1>5

\* What a step of others leaves of a request: their writes are counted in since.
LEMMA RequestStays ==
  ASSUME TypeInv, NEW c \in Clients, ReqInv(c), h'[c] = h[c], since[c] \subseteq since'[c],
         \A k \in Keys : table'[k] = table[k] \/ h[c].pc = "idle" \/ k \in since'[c],
         h[c].set \notin muddled' =>
            h[c].set \notin muddled /\ base'[h[c].set] = base[h[c].set]
              /\ (h[c].set \in begun => h[c].set \in begun')
  PROVE  ReqInv(c)'
<1> SUFFICES ASSUME h[c].set \notin muddled', h[c].op \in {"apply", "rollback"} PROVE ReqInv(c)'
  BY DEF ReqInv
<1>1. h[c].set \in Sets /\ h[c].pc # "idle" /\ TypeOK
  BY DEF TypeInv, Shape, Stands, Ops
<1> DEFINE s == h[c].set
<1>2. /\ s \notin muddled /\ base'[s] = base[s] /\ (s \in begun => s \in begun')
      /\ Found(s)' = Found(s)
  BY DEF Found, Captured
<1>3. CASE h[c].op = "apply"
  BY <1>2, <1>3 DEF ReqInv
<1>4. CASE h[c].op = "rollback"
  <2>1. Restoring(c)
    BY <1>2, <1>4 DEF ReqInv
  <2>2. Len(Found(s)) - Len(h[c].todo) \in Nat /\ Len(Found(s)) - Len(h[c].todo) <= Len(Found(s))
    <3>1. h[c].todo \in Seq(Items) /\ Len(Found(s)) \in Nat
      BY <1>1, FoundType DEF TypeOK, Requests
    <3>2. Len(h[c].todo) \in Nat /\ Len(h[c].todo) <= Len(Found(s))
      BY <2>1, <3>1 DEF Restoring, Ends
    <3>3. \A a, b \in Nat : b <= a => a - b \in Nat /\ a - b <= a
      OBVIOUS
    <3>4. QED
      BY <3>1, <3>2, <3>3
  <2>3. \A i \in 1 .. Len(Found(s)) - Len(h[c].todo) : i \in 1 .. Len(Found(s)) /\ Found(s)[i].key \in Keys
    <3>1. \A a, b \in Nat : b <= a => 1 .. b \subseteq 1 .. a
      OBVIOUS
    <3>2. 1 .. Len(Found(s)) - Len(h[c].todo) \subseteq 1 .. Len(Found(s))
      BY <1>1, <2>2, <3>1, FoundType
    <3>3. QED
      BY <1>1, <3>2, FoundType
  <2>4. ASSUME NEW i \in 1 .. Len(Found(s)) - Len(h[c].todo)
        PROVE  Found(s)[i].key \in since'[c] \cup h[c].skipped
                 \/ Effective'[Found(s)[i].key] = base[s][Found(s)[i].key]
    <3>1. PICK k \in Keys : k = Found(s)[i].key
      BY <2>3
    <3>2. k \in since[c] \cup h[c].skipped \/ Effective[k] = base[s][k]
      BY <2>1, <3>1 DEF Restoring, Restored
    <3>3. Effective'[k] = Effective[k] \/ k \in since'[c]
      BY <1>1 DEF Effective
    <3>4. QED
      BY <3>1, <3>2, <3>3
  <2>5. Restored(c, Len(Found(s)) - Len(h[c].todo))'
    BY <1>2, <2>4 DEF Restored
  <2>6. Restoring(c)'
    BY <1>2, <2>1, <2>5 DEF Restoring
  <2>7. QED
    BY <1>4, <2>6 DEF ReqInv
<1>5. QED
  BY <1>3, <1>4

\* And of a set.
LEMMA RowStays ==
  ASSUME NEW s \in Sets, RowInv(s), sets'[s] = sets[s],
         s \notin muddled' => s \notin muddled /\ base'[s] = base[s] /\ (s \in begun => s \in begun')
  PROVE  RowInv(s)'
<1> SUFFICES ASSUME s \notin muddled' PROVE RowInv(s)'
  BY DEF RowInv
<1>1. Found(s)' = Found(s)
  BY DEF Found, Captured
<1>2. QED
  BY <1>1 DEF RowInv

\* A rollback's next item is written or skipped.
LEMMA RestoresNext ==
  ASSUME TypeInv, NEW c \in Clients, h[c].op = "rollback", h[c].set \notin muddled, Restoring(c),
         h[c].todo # <<>>, h'[c].set = h[c].set, h'[c].todo = Tail(h[c].todo),
         UNCHANGED <<base, begun>>,
         NEW k \in Keys, k = Head(h[c].todo).key, NEW v \in Values, v = Head(h[c].todo).val,
         \/ /\ table' = [table EXCEPT ![k] = v]
            /\ since'[c] = since[c] \ {k} /\ h'[c].skipped = h[c].skipped
         \/ /\ table' = table /\ since'[c] = since[c] /\ h'[c].skipped = h[c].skipped \cup {k}
  PROVE  Restoring(c)'
<1>1. PICK s \in Sets : s = h[c].set /\ TypeOK
  BY DEF TypeInv, Shape, Stands, Ops
<1>2. PICK P \in Seq(Items) :
        /\ P = Found(s) /\ P = Found(s)'
        /\ \A i \in 1 .. Len(P) : P[i].key \in Keys /\ P[i].val = base[s][P[i].key]
  <2>1. Found(s)' = Found(s)
    BY DEF Found, Captured
  <2>2. QED
    BY <1>1, <2>1, FoundType
<1>3. PICK todo \in Seq(Items) : todo = h[c].todo
  BY <1>1 DEF TypeOK, Requests
<1>4. /\ Ends(todo, P) /\ todo # <<>> /\ s \in begun
      /\ \A i \in 1 .. Len(P) - Len(todo) :
           P[i].key \in since[c] \cup h[c].skipped \/ Effective[P[i].key] = base[s][P[i].key]
  BY <1>1, <1>2, <1>3 DEF Restoring, Restored
<1>5. PICK m \in Nat : m = Len(P) - Len(todo)
  BY <1>4, EndsTail
<1>6. /\ Ends(Tail(todo), P) /\ Len(P) - Len(Tail(todo)) = m + 1
      /\ m + 1 \in 1 .. Len(P) /\ Head(todo) = P[m + 1] /\ Len(P) \in Nat
  BY <1>4, <1>5, EndsTail
<1>7. P[m + 1].key = k /\ v = base[s][k]
  BY <1>2, <1>3, <1>6
<1>8. ASSUME NEW i \in 1 .. m + 1
      PROVE  P[i].key \in since'[c] \cup h'[c].skipped \/ Effective'[P[i].key] = base[s][P[i].key]
  <2>1. i \in 1 .. Len(P)
    BY <1>6
  <2>2. PICK l \in Keys : l = P[i].key
    BY <1>2, <2>1
  <2>3. CASE l = k
    <3>1. CASE table' = [table EXCEPT ![k] = v]
      <4>1. table \in [Keys -> Values \cup {None}] /\ v # None
        <5>1. base[s] \in [Keys -> Values]
          BY <1>1 DEF TypeOK
        <5>2. QED
          BY <1>1, <1>7, <5>1 DEF TypeOK
      <4>2. Effective'[k] = v
        BY <3>1, <4>1 DEF Effective
      <4>3. QED
        BY <1>7, <2>2, <2>3, <4>2
    <3>2. CASE h'[c].skipped = h[c].skipped \cup {k}
      BY <2>2, <2>3, <3>2
    <3>3. QED
      BY <3>1, <3>2
  <2>4. CASE l # k
    <3>1. i # m + 1
      BY <1>7, <2>2, <2>4
    <3>2. i \in 1 .. m
      BY <3>1
    <3>3. l \in since[c] \cup h[c].skipped \/ Effective[l] = base[s][l]
      BY <1>4, <1>5, <2>2, <3>2
    <3>4. table'[l] = table[l]
      BY <1>1, <2>4 DEF TypeOK
    <3>5. Effective'[l] = Effective[l]
      BY <3>4 DEF Effective
    <3>6. QED
      BY <2>2, <2>4, <3>3, <3>5
  <2>5. QED
    BY <2>3, <2>4
<1>9. h'[c].set = s /\ h'[c].todo = Tail(todo) /\ base' = base /\ begun' = begun
  BY <1>1, <1>3
<1>10. Restored(c, Len(Found(h[c].set)) - Len(h[c].todo))'
  BY <1>2, <1>6, <1>8, <1>9 DEF Restored
<1>11. QED
  BY <1>2, <1>4, <1>6, <1>9, <1>10 DEF Restoring
\* An apply lists what its set finds.
LEMMA ListsFound ==
  ASSUME TypeInv, RestoreInv, NEW c \in Clients, List(c) \/ ListFails(c)
  PROVE  RestoreInv'
<1> USE DEF history
<1>1. PICK s \in Sets : s = h[c].set /\ TypeOK /\ h[c] \in Requests
  BY DEF List, ListFails, At, TypeInv, TypeOK, Shape, Stands
<1>2. PICK vals : Begins(c, vals) /\ (List(c) => vals = Effective)
  BY DEF List, ListFails
<1>3. /\ base' = IF s \in begun THEN base ELSE [base EXCEPT ![s] = Effective]
      /\ begun' = begun \cup {s} /\ UNCHANGED <<table, sets, since>> /\ muddled \subseteq muddled'
      /\ \A d \in Clients \ {c} : h'[d] = h[d]
      /\ h'[c].set = s /\ h'[c].op = h[c].op /\ h'[c].prior = Captured(s, vals)
  BY <1>1, <1>2 DEF Begins, List, ListFails, TypeOK, Requests
<1>4. s \notin muddled' => List(c) /\ s \notin begun /\ s \notin muddled
  BY <1>1, <1>3 DEF List, ListFails
<1>5. \A r \in Sets \ {s} : base'[r] = base[r]
  BY <1>1, <1>3 DEF TypeOK
<1>6. ASSUME NEW r \in Sets PROVE RowInv(r)'
  <2>1. CASE r = s
    BY <1>3, <1>4, <2>1 DEF RestoreInv, RowInv
  <2>2. CASE r # s
    <3>1. RowInv(r)
      BY DEF RestoreInv
    <3>2. QED
      BY <1>3, <1>5, <2>2, <3>1, RowStays
  <2>3. QED
    BY <2>1, <2>2
<1>7. ASSUME NEW d \in Clients \ {c} PROVE ReqInv(d)'
  <2>1. ReqInv(d) /\ h'[d] = h[d] /\ UNCHANGED <<table, since>>
    BY <1>3 DEF RestoreInv
  <2>2. CASE h[d].set = s
    BY <1>3, <1>4, <2>1, <2>2 DEF ReqInv, Restoring
  <2>3. CASE h[d].set # s
    <3>1. h[d].op \in {"apply", "rollback"} => h[d].set \in Sets
      BY DEF TypeInv, Shape, Stands, Ops
    <3>2. CASE h[d].op \in {"apply", "rollback"}
      <4>1. h[d].set \notin muddled' => h[d].set \notin muddled /\ base'[h[d].set] = base[h[d].set]
                                        /\ (h[d].set \in begun => h[d].set \in begun')
        BY <1>3, <1>5, <2>3, <3>1, <3>2
      <4>2. QED
        BY <2>1, <4>1, RequestStays
    <3>3. CASE h[d].op \notin {"apply", "rollback"}
      BY <2>1, <3>3 DEF ReqInv
    <3>4. QED
      BY <3>2, <3>3
  <2>4. QED
    BY <2>2, <2>3
<1>8. ReqInv(c)'
  <2>1. h'[c].op = "apply"
    BY <1>3 DEF List, ListFails, At, TypeInv, Shape, Stands
  <2>2. s \notin muddled' => h'[c].prior = Captured(s, base'[s]) /\ s \in begun'
    BY <1>1, <1>2, <1>3, <1>4 DEF TypeOK
  <2>3. Found(s)' = Captured(s, base'[s])
    BY DEF Found, Captured
  <2>4. QED
    BY <1>3, <2>1, <2>2, <2>3 DEF ReqInv
<1>9. QED
  BY <1>6, <1>7, <1>8 DEF RestoreInv

\* A request that ends, and writes its row or not.
LEMMA EndsRestore ==
  ASSUME TypeInv, RestoreInv, NEW c \in Clients, Done(c), UNCHANGED table,
         UNCHANGED <<sets, base, begun, muddled>> \/ Update(c) \/ Delete(c)
  PROVE  RestoreInv'
<1> USE DEF history
<1>1. /\ \A d \in Clients : h'[d] = (IF d = c THEN Idle ELSE h[d])
      /\ \A d \in Clients \ {c} : since'[d] = since[d]
      /\ base' = base
  BY DEF Done, TypeInv, TypeOK, Update, Delete
<1>2. ReqInv(c)'
  BY <1>1 DEF ReqInv, Idle, Ops
<1>3. CASE UNCHANGED <<sets, base, begun, muddled>>
  <2>1. ASSUME NEW s \in Sets PROVE RowInv(s)'
    BY <1>3, RowStays DEF RestoreInv
  <2>2. ASSUME NEW d \in Clients \ {c} PROVE ReqInv(d)'
    BY <1>1, <1>3, RequestStays DEF RestoreInv
  <2>3. QED
    BY <1>2, <2>1, <2>2 DEF RestoreInv
<1>4. CASE Delete(c)
  <2>1. UNCHANGED <<begun, muddled>> /\ \A s \in Sets : sets'[s] \in {sets[s], None}
    BY <1>4 DEF Delete, TypeInv, TypeOK
  <2>2. ASSUME NEW s \in Sets PROVE RowInv(s)'
    <3>1. RowInv(s)
      BY DEF RestoreInv
    <3>2. CASE sets'[s] = sets[s]
      BY <1>1, <2>1, <3>1, <3>2, RowStays
    <3>3. CASE sets'[s] = None
      BY <3>3 DEF RowInv
    <3>4. QED
      BY <2>1, <3>2, <3>3
  <2>3. ASSUME NEW d \in Clients \ {c} PROVE ReqInv(d)'
    BY <1>1, <2>1, RequestStays DEF RestoreInv
  <2>4. QED
    BY <1>2, <2>2, <2>3 DEF RestoreInv
<1>5. CASE Update(c)
  <2>1. PICK s \in Sets : s = h[c].set /\ TypeOK /\ h[c] \in Requests /\ Stands(h[c])
                          /\ h[c].cs \in Rows /\ h[c].op \in {"submit", "approve", "apply", "rollback"}
    BY <1>5 DEF Update, Ready, At, TypeInv, TypeOK, Shape, Stands
  <2>2. /\ \A r \in Sets \ {s} : sets'[r] = sets[r]
        /\ sets'[s] = IF sets[s] = None THEN None ELSE Outcome(c)
        /\ begun \ {s} \subseteq begun'
        /\ h[c].op # "rollback" => UNCHANGED <<begun, muddled>>
        /\ \A r \in Sets \ {s} : r \in muddled => r \in muddled'
        /\ h[c].op = "rollback" /\ s \notin muddled' => Rivals(c) = {}
    BY <1>5, <2>1 DEF Update, TypeOK
  <2>3. ASSUME NEW r \in Sets PROVE RowInv(r)'
    <3>1. RowInv(r)
      BY DEF RestoreInv
    <3>2. CASE r # s
      <4>1. sets'[r] = sets[r] /\ base'[r] = base[r] /\ (r \in begun => r \in begun')
            /\ (r \notin muddled' => r \notin muddled)
        BY <1>1, <2>2, <3>2
      <4>2. QED
        BY <3>1, <4>1, RowStays
    <3>3. CASE r = s /\ h[c].op = "apply"
      <4>1. h[c].pc = "write" /\ Outcome(c).prior = h[c].prior
        BY <1>5, <3>3 DEF Update, Ready, At, Outcome, TypeInv, Shape, Stands, Ops
      <4>2. ReqInv(c)
        BY DEF RestoreInv
      <4>3. s \notin muddled => s \in begun /\ h[c].prior = Found(s)
        BY <2>1, <3>3, <4>1, <4>2 DEF ReqInv
      <4>4. Found(s)' = Found(s)
        BY <1>1 DEF Found, Captured
      <4>5. QED
        BY <2>2, <3>3, <4>1, <4>3, <4>4 DEF RowInv
    <3>4. CASE r = s /\ h[c].op # "apply"
      <4>1. Outcome(c).status # "applied"
        BY <2>1, <3>4 DEF Outcome, Rows
      <4>2. QED
        BY <2>2, <3>4, <4>1 DEF RowInv
    <3>5. QED
      BY <3>2, <3>3, <3>4
  <2>4. ASSUME NEW d \in Clients \ {c} PROVE ReqInv(d)'
    <3>1. ReqInv(d) /\ h'[d] = h[d] /\ since'[d] = since[d]
      BY <1>1 DEF RestoreInv
    <3>2. CASE h[d].op \notin {"apply", "rollback"}
      BY <3>1, <3>2 DEF ReqInv
    <3>3. CASE h[d].op \in {"apply", "rollback"} /\ h[c].op = "rollback" /\ h[d].set = s /\ s \notin muddled'
      <4>1. d \in Rivals(c)
        BY <2>1, <3>3 DEF Rivals
      <4>2. QED
        BY <2>2, <3>3, <4>1
    <3>4. CASE h[d].op \in {"apply", "rollback"} /\ ~(h[c].op = "rollback" /\ h[d].set = s /\ s \notin muddled')
      <4>1. h[d].set \in Sets
        BY <3>4 DEF TypeInv, Shape, Stands, Ops
      <4>2. h[d].set \notin muddled' => h[d].set \notin muddled /\ base'[h[d].set] = base[h[d].set]
                                        /\ (h[d].set \in begun => h[d].set \in begun')
        BY <1>1, <2>2, <3>4, <4>1
      <4>3. QED
        BY <3>1, <4>2, RequestStays
    <3>5. QED
      BY <3>2, <3>3, <3>4
  <2>5. QED
    BY <1>2, <2>3, <2>4 DEF RestoreInv
<1>6. QED
  BY <1>3, <1>4, <1>5

LEMMA RestoreStep == TypeInv /\ RestoreInv /\ [Next]_vars => RestoreInv'
<1> SUFFICES ASSUME TypeInv, RestoreInv, [Next]_vars PROVE RestoreInv'
  OBVIOUS
<1> USE DEF history
<1>0. /\ TypeOK /\ \A c \in Clients : h[c] \in Requests /\ Stands(h[c]) /\ ReqInv(c)
      /\ \A s \in Sets : RowInv(s)
  BY DEF TypeInv, TypeOK, Shape, RestoreInv
<1>1. ASSUME UNCHANGED <<sets, base, begun, muddled>> PROVE \A s \in Sets : RowInv(s)'
  BY <1>0, <1>1, RowStays
<1>2. ASSUME NEW d \in Clients, h'[d] = h[d], UNCHANGED <<sets, base, begun, muddled>>,
             since[d] \subseteq since'[d],
             \A k \in Keys : table'[k] = table[k] \/ h[d].pc = "idle" \/ k \in since'[d]
      PROVE  ReqInv(d)'
  BY <1>0, <1>2, RequestStays
<1>3. ASSUME NEW c \in Clients, NEW op \in Ops, NEW s \in Sets, Find(c, op, s) PROVE RestoreInv'
  <2>1. /\ UNCHANGED <<table, sets, base, begun, muddled, since>>
        /\ \A d \in Clients \ {c} : h'[d] = h[d]
    BY <1>0, <1>3 DEF Find, TypeOK
  <2>2. /\ h'[c].op = op /\ h'[c].set = s
        /\ op = "apply" => h'[c].pc = "list"
        /\ op = "rollback" => h'[c].todo = sets[s].prior /\ sets[s].status = "applied" /\ sets[s] # None
    BY <1>0, <1>3 DEF Find, TypeOK, Idle, Admits
  <2>3. ReqInv(c)'
    <3>1. CASE op = "rollback" /\ s \notin muddled
      <4>1. s \in begun /\ sets[s].prior = Found(s)
        BY <1>0, <2>2, <3>1 DEF RowInv
      <4>2. Found(s) \in Seq(Items) /\ Len(Found(s)) \in Nat
        BY <1>0, FoundType
      <4>3. Ends(Found(s), Found(s)) /\ 1 .. (Len(Found(s)) - Len(Found(s))) = {}
        BY <4>2 DEF Ends
      <4>4. Found(s)' = Found(s)
        BY <2>1 DEF Found, Captured
      <4>5. h'[c].todo = Found(s) /\ h'[c].set = s /\ h'[c].op = "rollback" /\ s \in begun'
        BY <2>1, <2>2, <3>1, <4>1
      <4>6. Ends(h'[c].todo, Found(s)') /\ 1 .. (Len(Found(s)') - Len(h'[c].todo)) = {}
        BY <4>3, <4>4, <4>5
      <4>7. Restored(c, Len(Found(h[c].set)) - Len(h[c].todo))'
        BY <4>5, <4>6 DEF Restored
      <4>8. Restoring(c)'
        BY <4>5, <4>6, <4>7 DEF Restoring
      <4>9. QED
        BY <4>5, <4>8 DEF ReqInv
    <3>2. CASE op # "rollback" \/ s \in muddled
      BY <2>1, <2>2, <3>2 DEF ReqInv
    <3>3. QED
      BY <3>1, <3>2
  <2>4. ASSUME NEW d \in Clients \ {c} PROVE ReqInv(d)'
    BY <1>2, <2>1
  <2>5. QED
    BY <1>1, <2>1, <2>3, <2>4 DEF RestoreInv
<1>4. ASSUME NEW c \in Clients, Write(c) PROVE RestoreInv'
  <2>1. PICK k \in Keys, v \in Values : k = Head(h[c].todo).key /\ v = Head(h[c].todo).val
    BY <1>0, <1>4, TodoType DEF Write, Items
  <2>2. /\ table' = [table EXCEPT ![k] = v] /\ since'[c] = since[c] \ {k}
        /\ \A d \in Clients \ {c} : h[d].pc = "idle" \/ since'[d] = since[d] \cup {k}
        /\ UNCHANGED <<sets, base, begun, muddled>>
    BY <1>4, <2>1 DEF Write, Written, At
  <2>3. /\ \A d \in Clients \ {c} : h'[d] = h[d]
        /\ h'[c].todo = Tail(h[c].todo) /\ h'[c].op = h[c].op /\ h'[c].set = h[c].set
        /\ h'[c].pc = h[c].pc /\ h'[c].prior = h[c].prior /\ h'[c].skipped = h[c].skipped
    BY <1>0, <1>4 DEF Write, TypeOK, Requests
  <2>4. ASSUME NEW d \in Clients \ {c} PROVE ReqInv(d)'
    <3>1. CASE h[d].pc = "idle"
      <4>1. h'[d].op # "apply" /\ h'[d].op # "rollback"
        BY <1>0, <2>3, <3>1 DEF Stands, Ops
      <4>2. QED
        BY <4>1 DEF ReqInv
    <3>2. CASE h[d].pc # "idle"
      BY <1>0, <1>2, <2>2, <2>3, <3>2 DEF TypeOK
    <3>3. QED
      BY <3>1, <3>2
  <2>5. ReqInv(c)'
    <3>1. CASE h[c].op = "rollback" /\ h[c].set \notin muddled
      <4>1. Restoring(c) /\ h[c].todo # <<>>
        BY <1>0, <1>4, <3>1 DEF ReqInv, Write
      <4>2. Restoring(c)'
        BY <2>1, <2>2, <2>3, <3>1, <4>1, RestoresNext
      <4>3. QED
        BY <2>3, <3>1, <4>2 DEF ReqInv
    <3>2. CASE h[c].op = "apply"
      <4>1. Found(h[c].set)' = Captured(h'[c].set, base[h[c].set])
        BY <2>2, <2>3 DEF Found, Captured
      <4>2. QED
        BY <1>0, <2>2, <2>3, <3>2, <4>1 DEF ReqInv, Found
    <3>3. CASE h[c].op \notin {"apply", "rollback"} \/ h[c].set \in muddled
      BY <2>2, <2>3, <3>3 DEF ReqInv
    <3>4. QED
      BY <3>1, <3>2, <3>3
  <2>6. QED
    BY <1>1, <2>2, <2>4, <2>5 DEF RestoreInv
<1>5. ASSUME NEW c \in Clients, RollbackFails(c) PROVE RestoreInv'
  <2>1. PICK k \in Keys, v \in Values : k = Head(h[c].todo).key /\ v = Head(h[c].todo).val
    BY <1>0, <1>5, TodoType DEF RollbackFails, Items
  <2>2. /\ UNCHANGED <<table, since, sets, base, begun, muddled>> /\ h[c].op = "rollback" /\ h[c].todo # <<>>
        /\ \A d \in Clients \ {c} : h'[d] = h[d]
        /\ h'[c].todo = Tail(h[c].todo) /\ h'[c].op = h[c].op /\ h'[c].set = h[c].set
        /\ h'[c].skipped = h[c].skipped \cup {k}
    BY <1>0, <1>5, <2>1 DEF RollbackFails, TypeOK, Requests
  <2>3. ASSUME NEW d \in Clients \ {c} PROVE ReqInv(d)'
    BY <1>2, <2>2
  <2>4. ReqInv(c)'
    <3>1. CASE h[c].set \notin muddled
      <4>1. Restoring(c)
        BY <1>0, <2>2, <3>1 DEF ReqInv
      <4>2. Restoring(c)'
        BY <2>1, <2>2, <3>1, <4>1, RestoresNext
      <4>3. QED
        BY <2>2, <3>1, <4>2 DEF ReqInv
    <3>2. CASE h[c].set \in muddled
      BY <2>2, <3>2 DEF ReqInv
    <3>3. QED
      BY <3>1, <3>2
  <2>5. QED
    BY <1>1, <2>2, <2>3, <2>4 DEF RestoreInv
<1>6. ASSUME NEW k \in Keys, NEW v \in Values \cup {None}, Edit(k, v) PROVE RestoreInv'
  <2>1. /\ UNCHANGED <<sets, h, base, begun, muddled>>
        /\ \A l \in Keys \ {k} : table'[l] = table[l]
        /\ \A d \in Clients : h[d].pc = "idle" \/ since'[d] = since[d] \cup {k}
    BY <1>0, <1>6 DEF Edit, Written, At, TypeOK
  <2>2. ASSUME NEW d \in Clients PROVE ReqInv(d)'
    <3>1. CASE h[d].pc = "idle"
      <4>1. h'[d].op # "apply" /\ h'[d].op # "rollback"
        BY <1>0, <2>1, <3>1 DEF Stands, Ops
      <4>2. QED
        BY <4>1 DEF ReqInv
    <3>2. CASE h[d].pc # "idle"
      BY <1>2, <2>1, <3>2
    <3>3. QED
      BY <3>1, <3>2
  <2>3. QED
    BY <1>1, <2>1, <2>2 DEF RestoreInv
<1>7. CASE UNCHANGED vars
  <2>1. UNCHANGED <<table, h, since, sets, base, begun, muddled>>
    BY <1>7 DEF vars
  <2>2. \A d \in Clients : ReqInv(d)'
    BY <1>2, <2>1
  <2>3. QED
    BY <1>1, <2>1, <2>2 DEF RestoreInv
<1>8. ASSUME NEW c \in Clients, ApplyFails(c) \/ Update(c) \/ UpdateFails(c) \/ Delete(c) \/ Dies(c)
      PROVE  RestoreInv'
  <2>1. Done(c) /\ UNCHANGED table /\ (UNCHANGED <<sets, base, begun, muddled>> \/ Update(c) \/ Delete(c))
    BY <1>8 DEF ApplyFails, Update, UpdateFails, Delete, Dies
  <2>2. QED
    BY <2>1, EndsRestore
<1>9. QED
  BY <1>3, <1>4, <1>5, <1>6, <1>7, <1>8, ListsFound DEF Next, Handle

\* A rollback that is about to report its set rolled back has given each setting
\* the value it had before the set was first applied: for sets of any size,
\* even those that name a setting twice, and any number of requests and edits.
THEOREM RolledBackIsRestored == Spec => []RollbackRestores
<1>1. Init => RestoreInv
  <2> SUFFICES ASSUME Init PROVE RestoreInv
    OBVIOUS
  <2>1. \A s \in Sets : sets[s].status # "applied"
    BY DEF Init
  <2>2. \A c \in Clients : h[c].op = None /\ None # "apply" /\ None # "rollback"
    BY DEF Init, Idle, Ops
  <2>3. QED
    BY <2>1, <2>2 DEF RestoreInv, RowInv, ReqInv
<1>2. TypeInv /\ RestoreInv => RollbackRestores
  <2> SUFFICES ASSUME TypeInv, RestoreInv, NEW c \in Clients, h[c].op = "rollback", Ready(c),
                      h[c].set \notin muddled, NEW k \in KeysOf(h[c].set)
               PROVE  k \in since[c] \cup h[c].skipped \/ Effective[k] = base[h[c].set][k]
    BY DEF RollbackRestores
  <2>1. h[c].todo = <<>> /\ h[c].set \in Sets /\ TypeOK
    BY DEF TypeInv, Shape, Stands, Ready, At, Ops
  <2>2. Restoring(c)
    BY DEF RestoreInv, ReqInv
  <2>3. Len(h[c].todo) = 0
    BY <2>1, EmptyQueue
  <2>4. PICK i \in 1 .. Len(Proposed[h[c].set]) : k = Proposed[h[c].set][i].key
    BY DEF KeysOf
  <2>5. i \in 1 .. (Len(Found(h[c].set)) - Len(h[c].todo)) /\ k = Found(h[c].set)[i].key
    BY <2>1, <2>3, <2>4, FoundType
  <2>6. QED
    BY <2>2, <2>5 DEF Restoring, Restored
<1>3. QED
  BY <1>1, <1>2, TypeInit, TypeNext, RestoreStep, PTL DEF Spec

-----------------------------------------------------------------------------
(***************************************************************************)
(* The copies of the settings that pods run on (RuntimeSettings), for any  *)
(* number of pods, administrators and settings, and any budget.  Tokens and*)
(* values are carried around and never looked into, so that what a sum over*)
(* the settings is plays no part.                                          *)
(***************************************************************************)
CONSTANTS Names, Contents, Editors, Before, Asked, Allowed, Unset

VARIABLES stored, clock, adm, rest, gen, raced, cut

Runtime == INSTANCE RuntimeSettings
             WITH Keys <- Names, Values <- Contents, Admins <- Editors, Requests <- Asked,
                  Budgets <- Allowed, None <- Unset, table <- stored, left <- rest

USE DEF Runtime!db, Runtime!pods

CopyShape(r)    == r \in [vals: {r.vals}, gen: Nat, failed: BOOLEAN]
ConfShape(r)    == r \in [vals: {r.vals}, gen: Nat]
LastShape(r)    == r \in [tok: {r.tok}, gen: Nat]
LoopShape(r)    == /\ r \in [pc: {"seed", "idle", "list", "swap"}, tok: {r.tok}, gen: Nat, copy: {r.copy}]
                   /\ CopyShape(r.copy)
RequestShape(r) == /\ r \in [pc: {r.pc}, pod: {r.pod}, todo: {r.todo}, stamp: {r.stamp}, row: {r.row},
                             seen: {r.seen}, copy: {r.copy}]
                   /\ CopyShape(r.copy)

PodShape ==
  /\ gen \in Nat
  /\ conf   = [q \in Pods |-> conf[q]]  /\ \A q \in Pods : ConfShape(conf[q])
  /\ last   = [q \in Pods |-> last[q]]  /\ \A q \in Pods : LastShape(last[q])
  /\ loop   = [q \in Pods |-> loop[q]]  /\ \A q \in Pods : LoopShape(loop[q])
  /\ misled = [q \in Pods |-> misled[q]]
  /\ adm = [a \in Editors |-> adm[a]] /\ \A a \in Editors : RequestShape(adm[a])

(* The token a poll carries was read before the list it carries, and both  *)
(* not later than now.                                                     *)
TokenFirst(q) ==
  /\ loop[q].gen <= gen
  /\ loop[q].pc = "swap" /\ ~loop[q].copy.failed => loop[q].gen <= loop[q].copy.gen

(* As NeverBehindItsToken, pod by pod.                                     *)
Abreast(q) == misled[q] = "no" /\ loop[q].pc # "seed" => last[q].gen <= conf[q].gen

AbreastInv == PodShape /\ \A q \in Pods : TokenFirst(q) /\ Abreast(q)

\* A step that leaves pod q's loop and copies alone, and only adds changes.
LEMMA PodsUntouched ==
  ASSUME PodShape, NEW q \in Pods, TokenFirst(q), Abreast(q), gen' \in Nat, gen <= gen',
         loop'[q] = loop[q], conf'[q] = conf[q], last'[q] = last[q], misled'[q] = misled[q]
  PROVE  (TokenFirst(q) /\ Abreast(q))'
  BY DEF PodShape, LoopShape, TokenFirst, Abreast

\* A list is a copy of its own, whether it failed or not.
LEMMA ListShape == ASSUME gen \in Nat PROVE CopyShape(Runtime!Listed) /\ CopyShape(Runtime!Blind)
  BY DEF CopyShape, Runtime!Listed, Runtime!Blind

\* A swap keeps a pod abreast of its token, or says why not.
LEMMA SwapAbreast ==
  ASSUME PodShape, NEW q, NEW copy, CopyShape(copy), Runtime!Swap(q, copy), \A p \in Pods : Abreast(p)
  PROVE  /\ conf' = [p \in Pods |-> conf'[p]] /\ misled' = [p \in Pods |-> misled'[p]]
         /\ \A p \in Pods : ConfShape(conf'[p])
         /\ \A p \in Pods \ {q} : conf'[p] = conf[p] /\ misled'[p] = misled[p]
         /\ q \in Pods => /\ conf'[q].gen = copy.gen
                          /\ misled'[q] = "no" => /\ ~copy.failed
                                                  /\ loop[q].pc # "seed" => last[q].gen <= copy.gen
<1>1. /\ conf' = [p \in Pods |-> IF p = q THEN [vals |-> copy.vals, gen |-> copy.gen] ELSE conf[p]]
      /\ misled' = [p \in Pods |-> IF p = q THEN Runtime!Verdict(q, copy) ELSE misled[p]]
  BY DEF PodShape, Runtime!Swap
<1>2. ConfShape([vals |-> copy.vals, gen |-> copy.gen])
  BY DEF CopyShape, ConfShape
<1>3. ASSUME q \in Pods, Runtime!Verdict(q, copy) = "no"
      PROVE  ~copy.failed /\ (loop[q].pc # "seed" => last[q].gen <= copy.gen)
  <2>1. ConfShape(conf[q]) /\ LastShape(last[q]) /\ Abreast(q)
    BY <1>3 DEF PodShape
  <2>2. conf[q].gen \in Nat /\ last[q].gen \in Nat /\ copy.gen \in Nat /\ copy.failed \in BOOLEAN
    BY <2>1 DEF ConfShape, LastShape, CopyShape
  <2>3. ~copy.failed /\ copy.gen >= conf[q].gen
    BY <1>3, <2>2 DEF Runtime!Verdict
  <2>4. copy.gen >= last[q].gen \/ misled[q] = "no"
    BY <1>3, <2>2, <2>3 DEF Runtime!Verdict
  <2>5. QED
    BY <2>1, <2>2, <2>3, <2>4 DEF Abreast
<1>4. QED
  BY <1>1, <1>2, <1>3 DEF PodShape

LEMMA AbreastInit == Runtime!Init => AbreastInv
<1> SUFFICES ASSUME Runtime!Init PROVE AbreastInv
  OBVIOUS
<1>1. RequestShape(Runtime!Idle) /\ LoopShape(Runtime!Starting) /\ Runtime!Starting.pc = "seed" /\ Runtime!Starting.gen = 0
  BY DEF RequestShape, LoopShape, CopyShape, Runtime!Idle, Runtime!Starting, Runtime!Blind
<1>2. ConfShape([vals |-> Runtime!Stored, gen |-> 0]) /\ LastShape([tok |-> <<0, 0, 0>>, gen |-> 0])
  BY DEF ConfShape, LastShape
<1>3. PodShape
  BY <1>1, <1>2 DEF Runtime!Init, PodShape
<1>4. QED
  BY <1>1, <1>3 DEF Runtime!Init, AbreastInv, TokenFirst, Abreast

LEMMA AbreastStep == AbreastInv /\ [Runtime!Next]_(Runtime!vars) => AbreastInv'
<1> SUFFICES ASSUME AbreastInv, [Runtime!Next]_(Runtime!vars) PROVE AbreastInv'
  OBVIOUS
<1>0. PodShape /\ gen \in Nat /\ \A q \in Pods : TokenFirst(q) /\ Abreast(q)
  BY DEF AbreastInv, PodShape
<1>1. CopyShape(Runtime!Listed) /\ CopyShape(Runtime!Blind) /\ RequestShape(Runtime!Idle) /\ LoopShape(Runtime!Starting)
  BY <1>0, ListShape DEF RequestShape, LoopShape, Runtime!Idle, Runtime!Starting, CopyShape, Runtime!Blind
(* Steps of requests that leave the pods alone.                            *)
<1>2. ASSUME UNCHANGED Runtime!pods, gen' \in Nat, gen <= gen',
             adm' = [a \in Editors |-> adm'[a]], \A a \in Editors : RequestShape(adm'[a])
      PROVE  AbreastInv'
  <2>1. PodShape'
    BY <1>0, <1>2 DEF PodShape
  <2>2. QED
    BY <1>0, <1>2, <2>1, PodsUntouched DEF AbreastInv
<1>3. ASSUME NEW a \in Editors, NEW r, RequestShape(r), adm' = [adm EXCEPT ![a] = r]
       PROVE  adm' = [b \in Editors |-> adm'[b]] /\ \A b \in Editors : RequestShape(adm'[b])
  BY <1>0, <1>3 DEF PodShape
<1>4. ASSUME NEW a \in Editors, NEW q, NEW items, Runtime!Post(a, q, items) PROVE AbreastInv'
  <2>1. RequestShape([Runtime!Idle EXCEPT !.pc = "begin", !.pod = q, !.todo = items])
    BY DEF RequestShape, CopyShape, Runtime!Idle, Runtime!Blind
  <2>2. adm' = [b \in Editors |-> adm'[b]] /\ \A b \in Editors : RequestShape(adm'[b])
    BY <1>0, <1>4, <2>1 DEF Runtime!Post, PodShape
  <2>3. UNCHANGED <<gen, Runtime!pods>>
    BY <1>4 DEF Runtime!Post
  <2>4. QED
    BY <1>0, <1>2, <2>2, <2>3
<1>5. ASSUME NEW a \in Editors, Runtime!Begin(a) PROVE AbreastInv'
  <2> DEFINE r == [adm[a] EXCEPT !.pc = "commit", !.stamp = clock + 1, !.row = stored[Runtime!Item(a).key], !.seen = gen]
  <2>1. RequestShape(r) /\ adm' = [adm EXCEPT ![a] = r]
    BY <1>0, <1>5 DEF Runtime!Begin, PodShape, RequestShape
  <2> HIDE DEF r
  <2>2. adm' = [b \in Editors |-> adm'[b]] /\ \A b \in Editors : RequestShape(adm'[b])
    BY <1>3, <2>1
  <2>3. UNCHANGED <<gen, Runtime!pods>>
    BY <1>5 DEF Runtime!Begin
  <2>4. QED
    BY <1>0, <1>2, <2>2, <2>3
<1>6. ASSUME NEW a \in Editors, Runtime!Commit(a) PROVE AbreastInv'
  <2> DEFINE w == adm[a]
             r == IF Len(w.todo) = 1 /\ w.pod = Unset THEN Runtime!Idle
                  ELSE [w EXCEPT !.todo = Tail(@), !.row = Runtime!NoRow, !.stamp = 0, !.seen = 0,
                                 !.pc = IF Len(w.todo) = 1 THEN "list" ELSE "begin"]
  <2>1. RequestShape(r)
    BY <1>0, <1>1 DEF PodShape, RequestShape
  <2>2. adm' = [adm EXCEPT ![a] = r]
    BY <1>6 DEF Runtime!Commit
  <2>3. gen' \in Nat /\ gen <= gen'
    BY <1>0, <1>6 DEF Runtime!Commit, Runtime!Write
  <2> HIDE DEF r
  <2>4. adm' = [b \in Editors |-> adm'[b]] /\ \A b \in Editors : RequestShape(adm'[b])
    BY <1>3, <2>1, <2>2
  <2>5. UNCHANGED Runtime!pods
    BY <1>6 DEF Runtime!Commit
  <2>6. QED
    BY <1>2, <2>3, <2>4, <2>5
<1>7. ASSUME NEW a \in Editors, Runtime!WriteFails(a) PROVE AbreastInv'
  <2>1. UNCHANGED <<gen, Runtime!pods>> /\ adm' = [adm EXCEPT ![a] = Runtime!Idle]
    BY <1>7 DEF Runtime!WriteFails
  <2>2. adm' = [b \in Editors |-> adm'[b]] /\ \A b \in Editors : RequestShape(adm'[b])
    BY <1>1, <1>3, <2>1
  <2>3. QED
    BY <1>0, <1>2, <2>1, <2>2
<1>8. ASSUME NEW a \in Editors, Runtime!List(a) \/ Runtime!ListFails(a) PROVE AbreastInv'
  <2>1. PICK copy : CopyShape(copy) /\ adm' = [adm EXCEPT ![a].pc = "swap", ![a].copy = copy]
    BY <1>1, <1>8 DEF Runtime!List, Runtime!ListFails
  <2> DEFINE r == [adm[a] EXCEPT !.pc = "swap", !.copy = copy]
  <2>2. RequestShape(r) /\ adm' = [adm EXCEPT ![a] = r]
    BY <1>0, <2>1 DEF PodShape, RequestShape
  <2> HIDE DEF r
  <2>3. UNCHANGED <<gen, Runtime!pods>>
    BY <1>8 DEF Runtime!List, Runtime!ListFails
  <2>4. adm' = [b \in Editors |-> adm'[b]] /\ \A b \in Editors : RequestShape(adm'[b])
    BY <1>3, <2>2
  <2>5. QED
    BY <1>0, <1>2, <2>3, <2>4
<1>9. ASSUME NEW a \in Editors, Runtime!Reloaded(a) PROVE AbreastInv'
  <2>1. PICK q, copy : q = adm[a].pod /\ copy = adm[a].copy /\ CopyShape(copy)
    BY <1>0 DEF PodShape, RequestShape
  <2>2. Runtime!Swap(q, copy) /\ UNCHANGED <<loop, last, gen>> /\ adm' = [adm EXCEPT ![a] = Runtime!Idle]
    BY <1>9, <2>1 DEF Runtime!Reloaded
  <2>3. PodShape'
    BY <1>0, <1>1, <2>1, <2>2, SwapAbreast DEF PodShape
  <2>4. \A p \in Pods \ {q} : (TokenFirst(p) /\ Abreast(p))'
    BY <1>0, <2>1, <2>2, SwapAbreast, PodsUntouched
  <2>5. q \in Pods => (TokenFirst(q) /\ Abreast(q))'
    BY <1>0, <2>1, <2>2, SwapAbreast DEF TokenFirst, Abreast
  <2>6. QED
    BY <2>3, <2>4, <2>5 DEF AbreastInv
(* Steps of the loop of q.                                                 *)
<1>10. ASSUME NEW q \in Pods, UNCHANGED <<conf, adm, gen>>, LoopShape(loop'[q]), loop' = [loop EXCEPT ![q] = loop'[q]],
             last' = [p \in Pods |-> last'[p]], misled' = [p \in Pods |-> misled'[p]], LastShape(last'[q]),
             \A p \in Pods \ {q} : last'[p] = last[p] /\ misled'[p] = misled[p],
             TokenFirst(q)', Abreast(q)'
      PROVE  AbreastInv'
  <2>1. loop' = [p \in Pods |-> loop'[p]] /\ \A p \in Pods : LoopShape(loop'[p])
    BY <1>0, <1>10 DEF PodShape
  <2>2. \A p \in Pods : LastShape(last'[p])
    BY <1>0, <1>10 DEF PodShape
  <2>3. PodShape'
    BY <1>0, <1>10, <2>1, <2>2 DEF PodShape
  <2>4. \A p \in Pods \ {q} : (TokenFirst(p) /\ Abreast(p))'
    BY <1>0, <1>10, PodsUntouched DEF PodShape
  <2>5. QED
    BY <1>10, <2>3, <2>4 DEF AbreastInv
<1>11. ASSUME NEW q \in Pods, Runtime!Seed(q) PROVE AbreastInv'
  <2>1. PICK r : r = [loop[q] EXCEPT !.pc = "idle"]
    OBVIOUS
  <2>2. LoopShape(r) /\ r.pc = "idle" /\ r.gen = loop[q].gen /\ loop' = [loop EXCEPT ![q] = r]
    BY <1>0, <1>11, <2>1 DEF Runtime!Seed, PodShape, LoopShape
  <2>3. /\ last' = [p \in Pods |-> IF p = q THEN [tok |-> Runtime!Token, gen |-> gen] ELSE last[p]]
        /\ misled' = [p \in Pods |-> IF p = q THEN (IF misled[q] = "no" /\ conf[q].gen < gen
                                                    THEN "seed" ELSE misled[q]) ELSE misled[p]]
        /\ UNCHANGED <<conf, adm, gen>>
    BY <1>0, <1>11 DEF Runtime!Seed, PodShape
  <2>4. last'[q].gen = gen /\ LastShape(last'[q]) /\ conf[q].gen \in Nat
    BY <1>0, <2>3 DEF LastShape, PodShape, ConfShape
  <2>5. loop'[q] = r
    BY <1>0, <2>2 DEF PodShape
  <2>6. TokenFirst(q)' /\ Abreast(q)'
    BY <1>0, <2>2, <2>3, <2>4, <2>5 DEF TokenFirst, Abreast
  <2>7. QED
    BY <1>10, <2>2, <2>3, <2>4, <2>5, <2>6
<1>12. ASSUME NEW q \in Pods, Runtime!Poll(q) PROVE AbreastInv'
  <2>1. PICK r : r = [loop[q] EXCEPT !.pc = "list", !.tok = Runtime!Token, !.gen = gen]
    OBVIOUS
  <2>2. LoopShape(r) /\ r.pc = "list" /\ r.gen = gen /\ loop' = [loop EXCEPT ![q] = r] /\ loop[q].pc = "idle"
    BY <1>0, <1>12, <2>1 DEF Runtime!Poll, PodShape, LoopShape
  <2>3. UNCHANGED <<conf, last, misled, adm, gen>>
    BY <1>12 DEF Runtime!Poll
  <2>4. loop'[q] = r
    BY <1>0, <2>2 DEF PodShape
  <2>5. TokenFirst(q)' /\ Abreast(q)'
    BY <1>0, <2>2, <2>3, <2>4 DEF TokenFirst, Abreast
  <2>6. QED
    BY <1>0, <1>10, <2>2, <2>3, <2>4, <2>5 DEF PodShape
<1>13. ASSUME NEW q \in Pods, Runtime!PollList(q) \/ Runtime!PollListFails(q) PROVE AbreastInv'
  <2>1. PICK copy : /\ copy = Runtime!Listed \/ copy = Runtime!Blind
                    /\ loop' = [loop EXCEPT ![q].pc = "swap", ![q].copy = copy]
    BY <1>13 DEF Runtime!PollList, Runtime!PollListFails
  <2>2. CopyShape(copy) /\ (~copy.failed => copy.gen = gen)
    <3>1. Runtime!Listed.gen = gen /\ Runtime!Blind.failed
      BY DEF Runtime!Listed, Runtime!Blind
    <3>2. QED
      BY <1>1, <2>1, <3>1
  <2>3. PICK r : r = [loop[q] EXCEPT !.pc = "swap", !.copy = copy]
    OBVIOUS
  <2>4. /\ LoopShape(r) /\ r.pc = "swap" /\ r.gen = loop[q].gen /\ r.copy = copy
        /\ loop' = [loop EXCEPT ![q] = r] /\ loop[q].pc = "list"
    BY <1>0, <1>13, <2>1, <2>2, <2>3 DEF Runtime!PollList, Runtime!PollListFails, PodShape, LoopShape
  <2>5. UNCHANGED <<conf, last, misled, adm, gen>>
    BY <1>13 DEF Runtime!PollList, Runtime!PollListFails
  <2>6. loop'[q] = r
    BY <1>0, <2>4 DEF PodShape
  <2>7. TokenFirst(q)' /\ Abreast(q)'
    BY <1>0, <2>2, <2>4, <2>5, <2>6 DEF TokenFirst, Abreast
  <2>8. /\ last' = [p \in Pods |-> last'[p]] /\ misled' = [p \in Pods |-> misled'[p]]
        /\ LastShape(last'[q]) /\ \A p \in Pods \ {q} : last'[p] = last[p] /\ misled'[p] = misled[p]
    BY <1>0, <2>5 DEF PodShape
  <2>9. LoopShape(loop'[q]) /\ loop' = [loop EXCEPT ![q] = loop'[q]]
    BY <2>4, <2>6
  <2>10. QED
    BY <1>10, <2>5, <2>7, <2>8, <2>9
(* A reload of q, by its loop or at its start.                             *)
<1>14. ASSUME NEW q \in Pods, gen' = gen,
              LoopShape(loop'[q]), loop' = [loop EXCEPT ![q] = loop'[q]],
              loop'[q].gen <= gen, loop'[q].pc \in {"seed", "idle"},
              LastShape(last'[q]), last' = [last EXCEPT ![q] = last'[q]],
              \E copy : /\ CopyShape(copy) /\ Runtime!Swap(q, copy)
                        /\ loop'[q].pc = "idle" /\ ~copy.failed => last'[q].gen <= copy.gen,
              adm' = [a \in Editors |-> adm'[a]], \A a \in Editors : RequestShape(adm'[a])
       PROVE  AbreastInv'
  <2>1. PICK copy : /\ CopyShape(copy) /\ Runtime!Swap(q, copy)
                    /\ loop'[q].pc = "idle" /\ ~copy.failed => last'[q].gen <= copy.gen
    BY <1>14
  <2>2. /\ loop' = [p \in Pods |-> loop'[p]] /\ \A p \in Pods : LoopShape(loop'[p])
        /\ last' = [p \in Pods |-> last'[p]] /\ \A p \in Pods : LastShape(last'[p])
        /\ \A p \in Pods \ {q} : loop'[p] = loop[p] /\ last'[p] = last[p]
    BY <1>0, <1>14 DEF PodShape
  <2>3. PodShape'
    BY <1>0, <1>14, <2>1, <2>2, SwapAbreast DEF PodShape
  <2>4. \A p \in Pods \ {q} : (TokenFirst(p) /\ Abreast(p))'
    BY <1>0, <1>14, <2>1, <2>2, SwapAbreast, PodsUntouched
  <2>5. conf'[q].gen = copy.gen /\ (misled'[q] = "no" => ~copy.failed)
    BY <1>0, <2>1, SwapAbreast
  <2>6. (TokenFirst(q) /\ Abreast(q))'
    BY <1>14, <2>1, <2>5 DEF TokenFirst, Abreast
  <2>7. QED
    BY <2>3, <2>4, <2>6 DEF AbreastInv
<1>15. ASSUME NEW q \in Pods, Runtime!PollReloaded(q) PROVE AbreastInv'
  <2>1. /\ loop' = [loop EXCEPT ![q] = [Runtime!Starting EXCEPT !.pc = "idle"]]
        /\ last' = [last EXCEPT ![q] = [tok |-> loop[q].tok, gen |-> loop[q].gen]]
        /\ Runtime!Swap(q, loop[q].copy) /\ loop[q].pc = "swap" /\ UNCHANGED <<adm, gen>>
    BY <1>15 DEF Runtime!PollReloaded
  <2>2. loop'[q] = [Runtime!Starting EXCEPT !.pc = "idle"] /\ last'[q] = [tok |-> loop[q].tok, gen |-> loop[q].gen]
    BY <1>0, <2>1 DEF PodShape
  <2>3. LoopShape(loop'[q]) /\ loop'[q].gen = 0 /\ loop'[q].pc = "idle"
    BY <1>1, <2>2 DEF LoopShape, CopyShape, Runtime!Starting, Runtime!Blind
  <2>4. LoopShape(loop[q]) /\ CopyShape(loop[q].copy)
    BY <1>0 DEF PodShape, LoopShape
  <2>5. LastShape(last'[q]) /\ last'[q].gen = loop[q].gen
    BY <2>2, <2>4 DEF LoopShape, LastShape
  <2>6. ~loop[q].copy.failed => last'[q].gen <= loop[q].copy.gen
    BY <1>0, <2>1, <2>5 DEF TokenFirst
  <2>7. \E copy : /\ CopyShape(copy) /\ Runtime!Swap(q, copy)
                  /\ loop'[q].pc = "idle" /\ ~copy.failed => last'[q].gen <= copy.gen
    BY <2>1, <2>4, <2>6
  <2>8. adm' = [a \in Editors |-> adm'[a]] /\ \A a \in Editors : RequestShape(adm'[a])
    BY <1>0, <2>1 DEF PodShape
  <2>9. loop' = [loop EXCEPT ![q] = loop'[q]] /\ last' = [last EXCEPT ![q] = last'[q]]
    BY <2>1, <2>2
  <2>10. loop'[q].gen <= gen /\ loop'[q].pc \in {"seed", "idle"} /\ gen' = gen
    BY <1>0, <2>1, <2>3
  <2>11. QED
    BY <1>14, <2>3, <2>5, <2>7, <2>8, <2>9, <2>10
<1>16. ASSUME NEW q \in Pods, Runtime!Restart(q) PROVE AbreastInv'
  <2>1. PICK copy : CopyShape(copy) /\ Runtime!Swap(q, copy)
    BY <1>1, <1>16 DEF Runtime!Restart
  <2>2. /\ loop' = [loop EXCEPT ![q] = Runtime!Starting] /\ last' = [last EXCEPT ![q] = [tok |-> <<0, 0, 0>>, gen |-> 0]]
        /\ gen' = gen
    BY <1>16 DEF Runtime!Restart
  <2>3. loop'[q] = Runtime!Starting /\ last'[q] = [tok |-> <<0, 0, 0>>, gen |-> 0]
    BY <1>0, <2>2 DEF PodShape
  <2>4. LoopShape(loop'[q]) /\ loop'[q].gen = 0 /\ loop'[q].pc = "seed" /\ LastShape(last'[q])
    BY <1>1, <2>3 DEF LastShape, Runtime!Starting
  <2>5. adm' = [a \in Editors |-> adm'[a]] /\ \A a \in Editors : RequestShape(adm'[a])
    BY <1>0, <1>1, <1>16 DEF Runtime!Restart, PodShape
  <2>6. \E w : /\ CopyShape(w) /\ Runtime!Swap(q, w)
               /\ loop'[q].pc = "idle" /\ ~w.failed => last'[q].gen <= w.gen
    BY <2>1, <2>4
  <2>7. loop' = [loop EXCEPT ![q] = loop'[q]] /\ last' = [last EXCEPT ![q] = last'[q]]
    BY <2>2, <2>3
  <2>8. loop'[q].gen <= gen /\ loop'[q].pc \in {"seed", "idle"}
    BY <1>0, <2>4
  <2>9. QED
    BY <1>14, <2>2, <2>4, <2>5, <2>6, <2>7, <2>8
<1>17. CASE UNCHANGED Runtime!vars
  BY <1>0, <1>17, PodsUntouched DEF Runtime!vars, AbreastInv, PodShape
<1>18. QED
  BY <1>4, <1>5, <1>6, <1>7, <1>8, <1>9, <1>11, <1>12, <1>13, <1>15, <1>17, <1>16 DEF Runtime!Next, Runtime!Serve, Runtime!Tend

\* No change hides behind a pod's token, but for the pods misled in one of the
\* three ways, for any number of pods, requests and settings.
THEOREM NoChangeHides == Runtime!Spec => []NeverBehindItsToken
<1>1. AbreastInv => NeverBehindItsToken
  BY DEF AbreastInv, Abreast, NeverBehindItsToken
<1>2. QED
  BY <1>1, AbreastInit, AbreastStep, PTL DEF Runtime!Spec
=============================================================================
