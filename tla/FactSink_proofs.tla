--------------------------- MODULE FactSink_proofs ---------------------------
(***************************************************************************)
(* Proofs about FactSink for every set of records, events and tables, any  *)
(* queue and batch size and any number of changes, faults and deaths.      *)
(***************************************************************************)
EXTENDS FactSink, TLAPS

-----------------------------------------------------------------------------
(* What the operations on a queue do to the set of its elements.           *)

\* No value twice in a queue.
Distinct(s) == \A i, j \in 1..Len(s) : s[i] = s[j] => i = j

\* Taking the head.
LEMMA TailElements ==
  ASSUME NEW S, NEW s \in Seq(S), s # <<>>
  PROVE  /\ Head(s) \in S /\ Tail(s) \in Seq(S) /\ Len(Tail(s)) = Len(s) - 1
         /\ Range(s) = Range(Tail(s)) \cup {Head(s)}
         /\ Distinct(s) => Head(s) \notin Range(Tail(s)) /\ Distinct(Tail(s))
<1>1. /\ Head(s) \in S /\ Head(s) = s[1] /\ Len(s) \in Nat \ {0}
      /\ Tail(s) \in Seq(S) /\ Len(Tail(s)) = Len(s) - 1
  OBVIOUS
<1>2. \A i \in 1..Len(Tail(s)) : Tail(s)[i] = s[i + 1] /\ i + 1 \in 1..Len(s)
  BY <1>1
<1>3. Range(Tail(s)) \cup {Head(s)} \subseteq Range(s)
  BY <1>1, <1>2 DEF Range
<1>4. ASSUME NEW i \in 1..Len(s) PROVE s[i] \in Range(Tail(s)) \cup {Head(s)}
  <2>1. CASE i = 1
    BY <2>1, <1>1
  <2>2. CASE i # 1
    <3>1. i - 1 \in DOMAIN Tail(s) /\ Tail(s)[i - 1] = s[i]
      BY <2>2, <1>1, <1>2
    <3>2. QED
      BY <3>1 DEF Range
  <2>3. QED
    BY <2>1, <2>2
<1>5. Distinct(s) => Head(s) \notin Range(Tail(s)) /\ Distinct(Tail(s))
  BY <1>1, <1>2 DEF Distinct, Range
<1>6. QED
  BY <1>1, <1>3, <1>4, <1>5 DEF Range

\* Adding an element.
LEMMA AppendElements ==
  ASSUME NEW S, NEW s \in Seq(S), NEW e \in S
  PROVE  /\ Append(s, e) \in Seq(S) /\ Len(Append(s, e)) = Len(s) + 1
         /\ Range(Append(s, e)) = Range(s) \cup {e}
         /\ Distinct(s) /\ e \notin Range(s) => Distinct(Append(s, e))
<1>1. /\ Append(s, e) \in Seq(S) /\ Len(Append(s, e)) = Len(s) + 1 /\ Len(s) \in Nat
      /\ Append(s, e)[Len(s) + 1] = e
      /\ \A i \in 1..Len(s) : Append(s, e)[i] = s[i]
  OBVIOUS
<1>2. 1..(Len(s) + 1) = 1..Len(s) \cup {Len(s) + 1}
  BY <1>1
<1>3. Range(Append(s, e)) = Range(s) \cup {e}
  BY <1>1, <1>2 DEF Range
<1>4. Distinct(s) /\ e \notin Range(s) => Distinct(Append(s, e))
  BY <1>1, <1>2 DEF Range, Distinct
<1>5. QED
  BY <1>1, <1>3, <1>4

\* The empty queue.
LEMMA EmptyQueue == ASSUME NEW S PROVE <<>> \in Seq(S) /\ Len(<<>>) = 0
  OBVIOUS

\* It has no elements.
LEMMA EmptyElements == Range(<<>>) = {} /\ Distinct(<<>>)
  BY DEF Range, Distinct

USE SizesAssumption, TablesAssumption, RowsAssumption, ConfsAssumption, BudgetsAssumption,
    NoneAssumption

-----------------------------------------------------------------------------
\* An event has one table.
LEMMA EventTableType ==
  ASSUME NEW e \in Events
  PROVE  /\ EventTable(e) \in EventTables /\ RowsOf[e] = {EventTable(e)}
         /\ EventBatch(e) \in Batches /\ Of(EventBatch(e)) = {<<EventTable(e), e>>}
         /\ RowsFor({e}) = Of(EventBatch(e))
<1>1. PICK t \in EventTables : RowsOf[e] = {t}
  OBVIOUS
<1>2. EventTable(e) = t
  BY <1>1 DEF EventTable
<1>3. QED
  BY <1>1, <1>2 DEF EventBatch, Batches, Of, RowsFor, Facts, Tables, Sources

\* What a flush sends to a table are records with rows for it.
LEMMA CurrentType ==
  ASSUME TypeOK, More
  PROVE  Current \in Batches /\ Current.rows \subseteq buf /\ Of(Current) \subseteq RowsFor(buf)
<1>1. Table \in Tables
  BY DEF More, Table, TypeOK, Tables
<1>2. Current.rows \subseteq {r \in buf : Table \in RowsOf[r]} /\ Current.table = Table
  BY DEF Current
<1>3. buf \subseteq Sources
  BY DEF TypeOK, Sources
<1>4. Current \in Batches
  BY <1>1, <1>2, <1>3 DEF Batches, Current
<1>5. QED
  BY <1>1, <1>2, <1>3, <1>4 DEF Of, RowsFor, Facts

\* An INSERT adds to what ClickHouse has, and puts its rows there.
LEMMA ArrivesType ==
  ASSUME TypeOK, NEW b \in Batches, Arrives(b)
  PROVE  /\ dw' \in [Facts -> 0 .. 2]
         /\ \A f \in Facts : dw[f] > 0 => dw'[f] > 0
         /\ \A f \in Of(b) : f \in Facts /\ dw'[f] > 0
<1>1. Of(b) \subseteq Facts
  BY DEF Of, Batches, Facts
<1>2. dw \in [Facts -> 0 .. 2]
  BY DEF TypeOK
<1>3. \A f \in Facts : dw'[f] = IF f \in Of(b) /\ dw[f] < 2 THEN dw[f] + 1 ELSE dw[f]
  BY DEF Arrives
<1>4. \A f \in Facts : dw[f] \in 0 .. 2 /\ dw'[f] \in 0 .. 2
  BY <1>2, <1>3
<1>5. dw' \in [Facts -> 0 .. 2]
  BY <1>4 DEF Arrives
<1>6. \A f \in Facts : (dw[f] > 0 => dw'[f] > 0) /\ (f \in Of(b) => dw'[f] > 0)
  BY <1>2, <1>3, <1>4
<1>7. QED
  BY <1>1, <1>5, <1>6

\* Spending keeps a budget.
LEMMA SpendType ==
  ASSUME TypeOK, NEW what \in Spendable, Spend(what)
  PROVE  left' \in [Spendable -> Nat]
<1>1. left \in [Spendable -> Nat] /\ left[what] - 1 \in Nat
  BY DEF TypeOK, Spend
<1>2. QED
  BY <1>1 DEF Spend

ReplayTable == [Admins -> [todo: SUBSET Batches, sent: Batches \cup {None}]]

\* What a replay lists and sends are batches.
LEMMA ReplayType ==
  ASSUME TypeOK, NEW a \in Admins, NEW S \in SUBSET Batches, NEW b \in Batches \cup {None}
  PROVE  /\ replay[a].todo \in SUBSET Batches /\ replay[a].sent \in Batches \cup {None}
         /\ [replay EXCEPT ![a].todo = S] \in ReplayTable
         /\ [replay EXCEPT ![a].sent = b] \in ReplayTable
         /\ [replay EXCEPT ![a] = [todo |-> S, sent |-> b]] \in ReplayTable
<1>1. replay \in ReplayTable
  BY DEF TypeOK, ReplayTable
<1>2. replay[a] \in [todo: SUBSET Batches, sent: Batches \cup {None}]
  BY <1>1 DEF ReplayTable
<1>3. /\ [replay[a] EXCEPT !.todo = S] \in [todo: SUBSET Batches, sent: Batches \cup {None}]
      /\ [replay[a] EXCEPT !.sent = b] \in [todo: SUBSET Batches, sent: Batches \cup {None}]
      /\ [todo |-> S, sent |-> b] \in [todo: SUBSET Batches, sent: Batches \cup {None}]
  BY <1>2
<1>4. QED
  BY <1>1, <1>2, <1>3 DEF ReplayTable

-----------------------------------------------------------------------------
\* A flush leaves the loop at its first table or waiting.
LEMMA FlushType ==
  ASSUME TypeOK, NEW taken \in SUBSET Records, Flush(taken)
  PROVE  /\ buf' \subseteq Records
         /\ loop' \in [pc: {"wait", "sink"}, at: {1}, tables: SUBSET Tables]
BY DEF Flush, Waiting, TypeOK, Settings

\* The loop goes on with its next table.
LEMMA OnwardType ==
  ASSUME TypeOK, More, loop' = [loop EXCEPT !.at = @ + 1] \/ Onward
  PROVE  /\ loop' \in [pc: {loop.pc, "sink"}, at: 1 .. Len(LoopTables) + 1, tables: SUBSET Tables]
         /\ loop'.at = loop.at + 1 /\ loop'.tables = loop.tables
<1>1. DOMAIN LoopTables = 1 .. Len(LoopTables) /\ Len(LoopTables) \in Nat
  OBVIOUS
<1>2. /\ loop.at \in 1 .. Len(LoopTables)
      /\ loop \in [pc: {"wait", "sink", "park"}, at: 1 .. Len(LoopTables) + 1, tables: SUBSET Tables]
  BY <1>1 DEF TypeOK, More
<1>3. loop.at + 1 \in 1 .. Len(LoopTables) + 1
  BY <1>1, <1>2
<1>4. QED
  BY <1>2, <1>3 DEF Onward

LEMMA TypeInit == Init => TypeOK
<1> SUFFICES ASSUME Init PROVE TypeOK
  OBVIOUS
<1>1. queue \in Seq(Records) /\ Len(queue) <= QueueSize
  BY EmptyQueue DEF Init
<1>2. Len(LoopTables) \in Nat
  OBVIOUS
<1>3. loop \in [pc: {"wait", "sink", "park"}, at: 1 .. Len(LoopTables) + 1, tables: SUBSET Tables]
      /\ ~In("park")
  BY <1>2 DEF Init, Waiting, In
<1>4. replay \in [Admins -> [todo: SUBSET Batches, sent: Batches \cup {None}]]
  BY DEF Init, Idle
<1>5. QED
  BY <1>1, <1>3, <1>4 DEF Init, TypeOK, Settings, Spendable

LEMMA TypeNext == TypeOK /\ [Next]_vars => TypeOK'
<1> SUFFICES ASSUME TypeOK, [Next]_vars PROVE TypeOK'
  OBVIOUS
<1> USE DEF process, history
<1>0. Len(LoopTables) \in Nat
  OBVIOUS
<1>1. ASSUME NEW r \in Records, Enqueue(r) PROVE TypeOK'
  <2>1. queue' \in Seq(Records) /\ Len(queue') <= QueueSize
    <3>1. CASE Len(queue) < QueueSize /\ queue' = Append(queue, r)
      BY <3>1, AppendElements DEF TypeOK
    <3>2. CASE queue' = queue
      BY <3>2 DEF TypeOK
    <3>3. QED
      BY <1>1, <3>1, <3>2 DEF Enqueue
  <2>2. dropped' \subseteq Records
    BY <1>1 DEF Enqueue, TypeOK
  <2>3. ended' \subseteq Sources /\ unset' \subseteq Facts
    BY <1>1 DEF Enqueue, TypeOK, Unset, RowsFor, Sources
  <2>4. QED
    BY <1>1, <2>1, <2>2, <2>3 DEF Enqueue, TypeOK, In, More
<1>2. ASSUME Receive PROVE TypeOK'
  <2>1. Head(queue) \in Records /\ queue' \in Seq(Records) /\ Len(queue') <= QueueSize
    BY <1>2, TailElements DEF Receive, TypeOK
  <2> DEFINE taken == buf \cup {Head(queue)}
  <2>2. taken \in SUBSET Records
    BY <2>1 DEF TypeOK
  <2>3. CASE Cardinality(taken) >= BatchSize
    <3>1. Flush(taken)
      BY <1>2, <2>3 DEF Receive
    <3>2. /\ buf' \subseteq Records
          /\ loop' \in [pc: {"wait", "sink"}, at: {1}, tables: SUBSET Tables]
      BY <2>2, <3>1, FlushType
    <3>3. QED
      BY <1>0, <1>2, <2>1, <3>2 DEF Receive, TypeOK, In, More
  <2>4. CASE ~(Cardinality(taken) >= BatchSize)
    <3>1. buf' = taken /\ loop' = loop
      BY <1>2, <2>4 DEF Receive
    <3>2. QED
      BY <1>2, <2>1, <2>2, <3>1 DEF Receive, TypeOK, In, More
  <2>5. QED
    BY <2>3, <2>4
<1>3. ASSUME Tick PROVE TypeOK'
  <2>1. /\ buf' \subseteq Records
        /\ loop' \in [pc: {"wait", "sink"}, at: {1}, tables: SUBSET Tables]
    BY <1>3, FlushType DEF Tick, TypeOK
  <2>2. QED
    BY <1>0, <1>3, <2>1 DEF Tick, TypeOK, In, More
<1>4. ASSUME Skip PROVE TypeOK'
  <2>1. loop' \in [pc: {"sink"}, at: 1 .. Len(LoopTables) + 1, tables: SUBSET Tables]
    BY <1>4, OnwardType DEF Skip, In
  <2>2. QED
    BY <1>4, <2>1 DEF Skip, TypeOK, In, More
<1>5. ASSUME Insert PROVE TypeOK'
  <2>1. dw' \in [Facts -> 0 .. 2]
    BY <1>5, CurrentType, ArrivesType DEF Insert
  <2>2. loop' \in [pc: {"sink"}, at: 1 .. Len(LoopTables) + 1, tables: SUBSET Tables]
    BY <1>5, OnwardType DEF Insert, In
  <2>3. QED
    BY <1>5, <2>1, <2>2 DEF Insert, TypeOK, In, More
<1>6. ASSUME InsertFails PROVE TypeOK'
  <2>1. Current \in Batches /\ Of(Current) \subseteq Facts
    BY <1>6, CurrentType DEF InsertFails, RowsFor
  <2>2. dw' \in [Facts -> 0 .. 2] /\ again' \subseteq Facts
    <3>1. CASE UNCHANGED <<dw, again>>
      BY <3>1 DEF TypeOK
    <3>2. CASE Arrives(Current) /\ again' = again \cup Of(Current)
      BY <2>1, <3>2, ArrivesType DEF TypeOK
    <3>3. QED
      BY <1>6, <3>1, <3>2 DEF InsertFails
  <2>3. left' \in [Spendable -> Nat]
    BY <1>6, SpendType DEF InsertFails, Spendable
  <2>4. QED
    BY <1>0, <1>6, <2>2, <2>3 DEF InsertFails, TypeOK, In, More
<1>7. ASSUME Park PROVE TypeOK'
  <2>1. More /\ Current \in Batches
    BY <1>7, CurrentType DEF Park, TypeOK
  <2>2. loop' \in [pc: {"sink", "park"}, at: 1 .. Len(LoopTables) + 1, tables: SUBSET Tables]
        /\ loop'.pc = "sink"
    BY <1>7, <2>1, OnwardType DEF Park, In, Onward, TypeOK
  <2>3. QED
    BY <1>7, <2>1, <2>2 DEF Park, TypeOK, In, More
<1>8. ASSUME ParkFails PROVE TypeOK'
  <2>1. More /\ Of(Current) \subseteq Facts
    BY <1>8, CurrentType DEF ParkFails, TypeOK, RowsFor
  <2>2. left' \in [Spendable -> Nat]
    BY <1>8, SpendType DEF ParkFails, Spendable
  <2>3. loop' \in [pc: {"sink", "park"}, at: 1 .. Len(LoopTables) + 1, tables: SUBSET Tables]
        /\ loop'.pc = "sink"
    BY <1>8, <2>1, OnwardType DEF ParkFails, In, Onward, TypeOK
  <2>4. QED
    BY <1>8, <2>1, <2>2, <2>3 DEF ParkFails, TypeOK, In, More
<1>9. ASSUME FlushEnds PROVE TypeOK'
  BY <1>0, <1>9 DEF FlushEnds, Waiting, TypeOK, In, More
<1>10. ASSUME NEW e \in Events, Emit(e) PROVE TypeOK'
  <2>1. ended' \subseteq Sources /\ unset' \subseteq Facts
    BY <1>10 DEF Emit, TypeOK, Unset, RowsFor, Sources
  <2>2. post' \in [Events -> {"idle", "send", "park"}]
    BY <1>10 DEF Emit, Moves, TypeOK
  <2>3. QED
    BY <1>10, <2>1, <2>2 DEF Emit, TypeOK, In, More
<1>11. ASSUME NEW e \in Events, EventSent(e) PROVE TypeOK'
  <2>1. dw' \in [Facts -> 0 .. 2]
    BY <1>11, EventTableType, ArrivesType DEF EventSent
  <2>2. post' \in [Events -> {"idle", "send", "park"}]
    BY <1>11 DEF EventSent, Moves, TypeOK
  <2>3. QED
    BY <1>11, <2>1, <2>2 DEF EventSent, TypeOK, In, More
<1>12. ASSUME NEW e \in Events, EventFails(e) PROVE TypeOK'
  <2>1. EventBatch(e) \in Batches /\ Of(EventBatch(e)) \subseteq Facts
    BY EventTableType DEF RowsFor
  <2>2. dw' \in [Facts -> 0 .. 2] /\ again' \subseteq Facts
    <3>1. CASE UNCHANGED <<dw, again>>
      BY <3>1 DEF TypeOK
    <3>2. CASE Arrives(EventBatch(e)) /\ again' = again \cup Of(EventBatch(e))
      BY <2>1, <3>2, ArrivesType DEF TypeOK
    <3>3. QED
      BY <1>12, <3>1, <3>2 DEF EventFails
  <2>3. left' \in [Spendable -> Nat]
    BY <1>12, SpendType DEF EventFails, Spendable
  <2>4. post' \in [Events -> {"idle", "send", "park"}]
    BY <1>12 DEF EventFails, Moves, TypeOK
  <2>5. QED
    BY <1>12, <2>2, <2>3, <2>4 DEF EventFails, TypeOK, In, More
<1>13. ASSUME NEW e \in Events, EventParked(e) PROVE TypeOK'
  <2>1. failed' \subseteq Batches
    <3>1. EventBatch(e) \in Batches
      BY EventTableType
    <3>2. failed' = failed \cup {EventBatch(e)}
      BY <1>13 DEF EventParked
    <3>3. QED
      BY <3>1, <3>2 DEF TypeOK
  <2>2. post' \in [Events -> {"idle", "send", "park"}]
    BY <1>13 DEF EventParked, Moves, TypeOK
  <2>3. QED
    BY <1>13, <2>1, <2>2 DEF EventParked, TypeOK, In, More
<1>14. ASSUME NEW e \in Events, EventLost(e) PROVE TypeOK'
  <2>1. lost' \subseteq Facts
    BY <1>14, EventTableType DEF EventLost, TypeOK, RowsFor
  <2>2. left' \in [Spendable -> Nat]
    BY <1>14, SpendType DEF EventLost, Spendable
  <2>3. post' \in [Events -> {"idle", "send", "park"}]
    BY <1>14 DEF EventLost, Moves, TypeOK
  <2>4. QED
    BY <1>14, <2>1, <2>2, <2>3 DEF EventLost, TypeOK, In, More
<1>15. ASSUME NEW a \in Admins, Replays(a) PROVE TypeOK'
  <2>0. /\ replay[a].todo \subseteq Batches /\ replay[a].sent \in Batches \cup {None}
        /\ \A b \in Batches : Of(b) \subseteq Facts
    BY DEF TypeOK, Of, Batches, Facts
  <2>1. ASSUME NEW S \in SUBSET Tables, List(a, S) PROVE TypeOK'
    <3> DEFINE listed == {b \in failed : b.table \in S}
               shared == {x \in listed : \E o \in Admins \ {a} : Busy(o, x)}
    <3>1. listed \subseteq Batches /\ shared \subseteq Batches
      BY DEF TypeOK
    <3>2. again' \subseteq Facts
      <4>1. again' = again \cup UNION {Of(b) : b \in shared}
        BY <2>1 DEF List
      <4>2. UNION {Of(b) : b \in shared} \subseteq Facts
        BY <2>0, <3>1
      <4>3. QED
        BY <4>1, <4>2 DEF TypeOK
    <3>3. replay' \in ReplayTable
      <4>1. replay' = [replay EXCEPT ![a].todo = listed]
        BY <2>1 DEF List
      <4>2. None \in Batches \cup {None}
        OBVIOUS
      <4>3. QED
        BY <3>1, <4>1, <4>2, ReplayType
    <3>4. left' \in [Spendable -> Nat]
      BY <2>1, SpendType DEF List, Spendable
    <3>5. QED
      BY <2>1, <3>2, <3>3, <3>4 DEF List, TypeOK, In, More, ReplayTable
  <2>2. ASSUME NEW b \in replay[a].todo, Resend(a, b) PROVE TypeOK'
    <3>1. dw' \in [Facts -> 0 .. 2]
      BY <2>0, <2>2, ArrivesType DEF Resend
    <3>2. replay' \in ReplayTable
      <4>1. replay' = [replay EXCEPT ![a] = [todo |-> replay[a].todo \ {b}, sent |-> b]]
        BY <2>2 DEF Resend
      <4>2. replay[a].todo \ {b} \in SUBSET Batches /\ b \in Batches \cup {None}
        BY <2>0, <2>2
      <4>3. QED
        BY <4>1, <4>2, ReplayType
    <3>3. QED
      BY <2>2, <3>1, <3>2 DEF Resend, TypeOK, In, More, ReplayTable
  <2>3. ASSUME NEW b \in replay[a].todo, ResendFails(a, b) PROVE TypeOK'
    <3>1. dw' \in [Facts -> 0 .. 2] /\ again' \subseteq Facts
      <4>1. CASE UNCHANGED <<dw, again>>
        BY <4>1 DEF TypeOK
      <4>2. CASE Arrives(b) /\ again' = again \cup Of(b)
        BY <2>0, <4>2, ArrivesType DEF TypeOK
      <4>3. QED
        BY <2>3, <4>1, <4>2 DEF ResendFails
    <3>2. replay' \in ReplayTable
      <4>1. replay' = [replay EXCEPT ![a].todo = replay[a].todo \ {b}]
        BY <2>3 DEF ResendFails
      <4>2. replay[a].todo \ {b} \in SUBSET Batches /\ b \in Batches \cup {None}
        BY <2>0, <2>3
      <4>3. QED
        BY <4>1, <4>2, ReplayType
    <3>3. left' \in [Spendable -> Nat]
      BY <2>3, SpendType DEF ResendFails, Spendable
    <3>4. QED
      BY <2>3, <3>1, <3>2, <3>3 DEF ResendFails, TypeOK, In, More, ReplayTable
  <2>4. ASSUME Forget(a) PROVE TypeOK'
    <3>1. replay' \in ReplayTable
      <4>1. replay' = [replay EXCEPT ![a].sent = None] /\ {} \in SUBSET Batches
        BY <2>4 DEF Forget
      <4>2. QED
        BY <4>1, ReplayType
    <3>2. QED
      BY <2>4, <3>1 DEF Forget, TypeOK, In, More, ReplayTable
  <2>5. ASSUME ForgetFails(a) PROVE TypeOK'
    <3>1. replay' \in ReplayTable
      <4>1. replay' = [replay EXCEPT ![a].sent = None] /\ {} \in SUBSET Batches
        BY <2>5 DEF ForgetFails
      <4>2. QED
        BY <4>1, ReplayType
    <3>2. again' \subseteq Facts
      <4>1. again' = again \cup Of(replay[a].sent) /\ replay[a].sent \in Batches
        BY <2>0, <2>5 DEF ForgetFails
      <4>2. QED
        BY <2>0, <4>1 DEF TypeOK
    <3>3. left' \in [Spendable -> Nat]
      BY <2>5, SpendType DEF ForgetFails, Spendable
    <3>4. QED
      BY <2>5, <3>1, <3>2, <3>3 DEF ForgetFails, TypeOK, In, More, ReplayTable
  <2>6. ASSUME ReplayEnds(a) PROVE TypeOK'
    <3>1. replay' \in ReplayTable
      <4>1. replay' = [replay EXCEPT ![a] = [todo |-> {}, sent |-> None]] /\ {} \in SUBSET Batches
        BY <2>6 DEF ReplayEnds, Idle
      <4>2. QED
        BY <4>1, ReplayType
    <3>2. again' \subseteq Facts
      <4>1. CASE replay[a].sent = None
        BY <2>6, <4>1 DEF ReplayEnds, TypeOK
      <4>2. CASE replay[a].sent # None
        <5>1. again' = again \cup Of(replay[a].sent) /\ replay[a].sent \in Batches
          BY <2>0, <2>6, <4>2 DEF ReplayEnds
        <5>2. QED
          BY <2>0, <5>1 DEF TypeOK
      <4>3. QED
        BY <4>1, <4>2
    <3>3. left' \in [Spendable -> Nat]
      BY <2>6, SpendType DEF ReplayEnds, Spendable
    <3>4. QED
      BY <2>6, <3>1, <3>2, <3>3 DEF ReplayEnds, TypeOK, In, More, ReplayTable
  <2>7. QED
    BY <1>15, <2>1, <2>2, <2>3, <2>4, <2>5, <2>6 DEF Replays
<1>16. ASSUME NEW c \in Confs, Configure(c) PROVE TypeOK'
  <2>1. left' \in [Spendable -> Nat]
    BY <1>16, SpendType DEF Configure, Spendable
  <2>2. unset' \subseteq Facts
    BY <1>16 DEF Configure, TypeOK, Unset, RowsFor
  <2>3. QED
    BY <1>16, <2>1, <2>2 DEF Configure, TypeOK, In, More
<1>17. ASSUME Die PROVE TypeOK'
  <2>1. left' \in [Spendable -> Nat]
    BY <1>17, SpendType DEF Die, Spendable
  <2>2. lost' \subseteq Facts
    BY <1>17 DEF Die, TypeOK, RowsFor
  <2>3. queue' \in Seq(Records) /\ Len(queue') <= QueueSize
    BY <1>17, EmptyQueue DEF Die
  <2>4. QED
    BY <1>0, <1>17, <2>1, <2>2, <2>3 DEF Die, Waiting, TypeOK, In, More
<1>18. CASE UNCHANGED vars
  BY <1>18 DEF vars, TypeOK, In, More
<1>19. QED
  BY <1>1, <1>2, <1>3, <1>4, <1>5, <1>6, <1>7, <1>8, <1>9, <1>10, <1>11, <1>12, <1>13, <1>14,
     <1>15, <1>16, <1>17, <1>18 DEF Next, Looping, Ships

\* Type correctness of the sink, its queue never above its capacity.
THEOREM TypeCorrect == Spec => []TypeOK
<1>1. QED
  BY TypeInit, TypeNext, PTL DEF Spec

-----------------------------------------------------------------------------
(* Rows that need nobody's care any more.                                  *)
Kept(f)    == dw[f] > 0 \/ \E b \in failed : f \in Of(b)
Settled(f) == f \in unset \/ f \in lost \/ Kept(f)
Settles(f) == f \in unset' \/ f \in lost' \/ dw'[f] > 0 \/ \E b \in failed' : f \in Of(b)

(* What the loop has taken and not flushed yet can still be missed by the  *)
(* configuration; a flush goes by the one it has read.                     *)
Pending  == Queued \cup (IF In("wait") THEN buf ELSE {})
ConfInv  == \A r \in Pending : \A t \in RowsOf[r] :
              (conf.url /\ t \in conf.tables) \/ <<t, r>> \in unset
FlushInv == ~In("wait") => \A r \in buf : \A t \in RowsOf[r] :
              t \in loop.tables \/ <<t, r>> \in unset

(* The tables a flush has been to have their rows.                         *)
ServedInv == ~In("wait") => \A r \in buf : \A i \in 1 .. Len(LoopTables) :
               i < loop.at /\ LoopTables[i] \in RowsOf[r] => Settled(<<LoopTables[i], r>>)

(* A replay forgets only what has arrived.                                 *)
ReplayInv == \A a \in Admins : replay[a].sent # None => \A f \in Of(replay[a].sent) : dw[f] > 0

Inv == TypeOK /\ ConfInv /\ FlushInv /\ ServedInv /\ ReplayInv /\ Accounted

\* A record's rows are for the loop's tables.
LEMMA LoopServes ==
  ASSUME NEW r \in Records, NEW t \in RowsOf[r]
  PROVE  \E i \in 1 .. Len(LoopTables) : LoopTables[i] = t
<1>1. t \in Tables /\ t \notin EventTables
  BY DEF Sources
<1>2. DOMAIN LoopTables = 1 .. Len(LoopTables)
  OBVIOUS
<1>3. QED
  BY <1>1, <1>2 DEF Tables

\* No step takes back what a row has come to, unless it has arrived.
LEMMA Grows ==
  ASSUME TypeOK, ReplayInv, [Next]_vars
  PROVE  /\ unset \subseteq unset' /\ lost \subseteq lost'
         /\ \A f \in Facts : dw[f] > 0 => dw'[f] > 0
         /\ \A b \in failed : b \in failed' \/ \A f \in Of(b) : dw[f] > 0
<1> USE DEF process, history
<1>1. ASSUME NEW r \in Records, Enqueue(r) PROVE unset \subseteq unset' /\ UNCHANGED <<lost, dw, failed>>
  BY <1>1 DEF Enqueue
<1>2. ASSUME Receive \/ Tick \/ Skip \/ FlushEnds PROVE UNCHANGED <<unset, lost, dw, failed>>
  BY <1>2 DEF Receive, Tick, Skip, FlushEnds
<1>3. ASSUME Insert
      PROVE (\A f \in Facts : dw[f] > 0 => dw'[f] > 0) /\ UNCHANGED <<unset, lost, failed>>
  BY <1>3, CurrentType, ArrivesType DEF Insert
<1>4. ASSUME InsertFails
      PROVE (\A f \in Facts : dw[f] > 0 => dw'[f] > 0) /\ UNCHANGED <<unset, lost, failed>>
  BY <1>4, CurrentType, ArrivesType DEF InsertFails
<1>5. ASSUME Park PROVE failed \subseteq failed' /\ UNCHANGED <<unset, lost, dw>>
  BY <1>5 DEF Park
<1>6. ASSUME ParkFails PROVE lost \subseteq lost' /\ UNCHANGED <<unset, dw, failed>>
  BY <1>6 DEF ParkFails
<1>7. ASSUME NEW e \in Events, Emit(e) PROVE unset \subseteq unset' /\ UNCHANGED <<lost, dw, failed>>
  BY <1>7 DEF Emit
<1>8. ASSUME NEW e \in Events, EventSent(e)
      PROVE (\A f \in Facts : dw[f] > 0 => dw'[f] > 0) /\ UNCHANGED <<unset, lost, failed>>
  BY <1>8, EventTableType, ArrivesType DEF EventSent
<1>9. ASSUME NEW e \in Events, EventFails(e)
      PROVE (\A f \in Facts : dw[f] > 0 => dw'[f] > 0) /\ UNCHANGED <<unset, lost, failed>>
  BY <1>9, EventTableType, ArrivesType DEF EventFails
<1>10. ASSUME NEW e \in Events, EventParked(e) PROVE failed \subseteq failed' /\ UNCHANGED <<unset, lost, dw>>
  BY <1>10 DEF EventParked
<1>11. ASSUME NEW e \in Events, EventLost(e) PROVE lost \subseteq lost' /\ UNCHANGED <<unset, dw, failed>>
  BY <1>11 DEF EventLost
<1>12. ASSUME NEW a \in Admins, Replays(a)
       PROVE /\ \A f \in Facts : dw[f] > 0 => dw'[f] > 0
             /\ \A b \in failed : b \in failed' \/ \A f \in Of(b) : dw[f] > 0
             /\ UNCHANGED <<unset, lost>>
  <2>1. ASSUME NEW S, List(a, S) PROVE UNCHANGED <<unset, lost, dw, failed>>
    BY <2>1 DEF List
  <2>2. ASSUME NEW b \in replay[a].todo, Resend(a, b) \/ ResendFails(a, b)
        PROVE (\A f \in Facts : dw[f] > 0 => dw'[f] > 0) /\ UNCHANGED <<unset, lost, failed>>
    <3>1. b \in Batches
      BY DEF TypeOK
    <3>2. QED
      BY <2>2, <3>1, ArrivesType DEF Resend, ResendFails
  <2>3. ASSUME Forget(a)
        PROVE /\ \A b \in failed : b \in failed' \/ \A f \in Of(b) : dw[f] > 0
              /\ UNCHANGED <<unset, lost, dw>>
    BY <2>3 DEF Forget, ReplayInv
  <2>4. ASSUME ForgetFails(a) \/ ReplayEnds(a) PROVE UNCHANGED <<unset, lost, dw, failed>>
    BY <2>4 DEF ForgetFails, ReplayEnds
  <2>5. QED
    BY <1>12, <2>1, <2>2, <2>3, <2>4 DEF Replays
<1>13. ASSUME NEW c \in Confs, Configure(c) PROVE unset \subseteq unset' /\ UNCHANGED <<lost, dw, failed>>
  BY <1>13 DEF Configure
<1>14. ASSUME Die PROVE lost \subseteq lost' /\ UNCHANGED <<unset, dw, failed>>
  BY <1>14 DEF Die
<1>15. ASSUME UNCHANGED vars PROVE UNCHANGED <<unset, lost, dw, failed>>
  BY <1>15 DEF vars
<1>16. QED
  BY <1>1, <1>2, <1>3, <1>4, <1>5, <1>6, <1>7, <1>8, <1>9, <1>10, <1>11, <1>12, <1>13, <1>14, <1>15
     DEF Next, Looping, Ships

\* So what is settled stays so.
LEMMA Lasting ==
  ASSUME TypeOK, ReplayInv, [Next]_vars, NEW f \in Facts, Settled(f)
  PROVE  Settles(f)
<1>1. QED
  BY Grows DEF Settled, Kept, Settles

\* A replay has sent what it is about to forget.
LEMMA ReplayStep == Inv /\ [Next]_vars => ReplayInv'
<1> SUFFICES ASSUME Inv, [Next]_vars PROVE ReplayInv'
  OBVIOUS
<1> USE DEF process, history
<1>0. \A f \in Facts : dw[f] > 0 => dw'[f] > 0
  BY Grows DEF Inv
<1>1. \A b \in Batches : Of(b) \subseteq Facts
  BY DEF Batches, Of, Facts
<1>2. TypeOK /\ \A a \in Admins : replay[a].sent # None => replay[a].sent \in Batches
  BY DEF Inv, TypeOK
<1>3. ASSUME UNCHANGED replay PROVE ReplayInv'
  BY <1>0, <1>1, <1>2, <1>3 DEF ReplayInv, Inv, Of
<1>4. ASSUME NEW a \in Admins, Replays(a) PROVE ReplayInv'
  <2>1. ASSUME NEW new, replay' = [replay EXCEPT ![a] = new],
               new.sent = None \/ new.sent = replay[a].sent
        PROVE  ReplayInv'
    BY <1>0, <1>1, <1>2, <2>1 DEF ReplayInv, Inv, Of, TypeOK
  <2>2. replay[a] = [todo |-> replay[a].todo, sent |-> replay[a].sent]
    BY <1>2 DEF TypeOK
  <2>3. ASSUME NEW S, List(a, S) PROVE ReplayInv'
    BY <2>1, <2>2, <2>3 DEF List
  <2>4. ASSUME NEW b \in replay[a].todo, Resend(a, b) PROVE ReplayInv'
    <3>1. b \in Batches /\ (\A f \in Of(b) : dw'[f] > 0)
      BY <1>2, <2>4, ArrivesType DEF Resend, TypeOK
    <3>2. \A o \in Admins : replay'[o].sent = IF o = a THEN b ELSE replay[o].sent
      BY <1>2, <2>4 DEF Resend, TypeOK
    <3>3. QED
      BY <1>0, <1>1, <1>2, <3>1, <3>2 DEF ReplayInv, Inv, Of
  <2>5. ASSUME NEW b \in replay[a].todo, ResendFails(a, b) PROVE ReplayInv'
    BY <2>1, <2>2, <2>5 DEF ResendFails
  <2>6. ASSUME Forget(a) \/ ForgetFails(a) PROVE ReplayInv'
    BY <2>1, <2>2, <2>6 DEF Forget, ForgetFails
  <2>7. ASSUME ReplayEnds(a) PROVE ReplayInv'
    BY <2>1, <2>7 DEF ReplayEnds, Idle
  <2>8. QED
    BY <1>4, <2>3, <2>4, <2>5, <2>6, <2>7 DEF Replays
<1>5. QED
  BY <1>3, <1>4 DEF Next, Looping, Ships, vars, Enqueue, Receive, Tick, Skip, Insert, InsertFails,
     Park, ParkFails, FlushEnds, Emit, EventSent, EventFails, EventParked, EventLost, Configure, Die

\* What goes into Pending is unset where it is not configured, and a new
\* configuration unsets the rest.
LEMMA ConfStep == Inv /\ [Next]_vars => ConfInv'
<1> SUFFICES ASSUME Inv, [Next]_vars PROVE ConfInv'
  OBVIOUS
<1> USE DEF process, history
<1>0. /\ TypeOK /\ TypeOK' /\ Queued \subseteq Records /\ Queued \cup buf \subseteq Sources
      /\ unset \subseteq unset'
  <2>1. TypeOK /\ TypeOK' /\ unset \subseteq unset'
    BY TypeNext, Grows DEF Inv
  <2>2. QED
    BY <2>1 DEF TypeOK, Queued, Sources, Range
<1>1. ASSUME conf' = conf, Pending' \subseteq Pending PROVE ConfInv'
  BY <1>0, <1>1 DEF ConfInv, Inv
<1>2. ASSUME NEW r \in Records, Enqueue(r) PROVE ConfInv'
  <2>1. Pending' \subseteq Pending \cup {r}
    <3>1. Queued' \subseteq Queued \cup {r}
      <4>1. queue \in Seq(Records)
        BY <1>0 DEF TypeOK
      <4>2. Range(Append(queue, r)) = Range(queue) \cup {r}
        BY <4>1, AppendElements
      <4>3. queue' = queue \/ queue' = Append(queue, r)
        BY <1>2 DEF Enqueue
      <4>4. QED
        BY <4>2, <4>3 DEF Queued
    <3>2. QED
      BY <1>2, <3>1 DEF Enqueue, Pending, In
  <2>2. \A t \in RowsOf[r] : (conf.url /\ t \in conf.tables) \/ <<t, r>> \in unset'
    BY <1>2 DEF Enqueue, Unset, RowsFor, Facts, Sources
  <2>3. QED
    BY <1>0, <1>2, <2>1, <2>2 DEF ConfInv, Inv, Enqueue
<1>3. ASSUME Receive PROVE ConfInv'
  <2>1. Range(queue) = Range(Tail(queue)) \cup {Head(queue)}
    BY <1>0, <1>3, TailElements DEF Receive, TypeOK
  <2>2. Queued' \subseteq Queued /\ Head(queue) \in Queued
    BY <1>3, <2>1 DEF Receive, Queued
  <2>3. Pending' \subseteq Queued \cup buf
    BY <1>3, <2>2 DEF Receive, Flush, Waiting, Pending, In
  <2>4. QED
    BY <1>1, <1>3, <2>3 DEF Receive, Pending, In
<1>4. ASSUME Tick PROVE ConfInv'
  BY <1>1, <1>4 DEF Tick, Flush, Waiting, Pending, In, Queued
<1>5. ASSUME Skip \/ Insert \/ InsertFails \/ Park \/ ParkFails \/ FlushEnds PROVE ConfInv'
  <2>1. conf' = conf /\ queue' = queue /\ (buf' = {} \/ ~In("wait")')
    <3>1. \A pc \in {"sink", "park"} : pc # "wait"
      OBVIOUS
    <3>2. loop \in [pc: {"wait", "sink", "park"}, at: 1 .. Len(LoopTables) + 1, tables: SUBSET Tables]
      BY <1>0 DEF TypeOK
    <3>3. QED
      BY <1>5, <3>1, <3>2 DEF Skip, Insert, InsertFails, Park, ParkFails, FlushEnds, In, Onward, Waiting
  <2>2. Pending' \subseteq Pending
    BY <2>1 DEF Pending, Queued
  <2>3. QED
    BY <1>1, <2>1, <2>2
<1>6. ASSUME NEW c \in Confs, Configure(c) PROVE ConfInv'
  <2>1. unset' = unset \cup Unset(c, Pending) /\ conf' = c /\ Pending' = Pending
    BY <1>6 DEF Configure, Pending, Queued, In
  <2>2. Pending \subseteq Sources
    BY <1>0 DEF Pending
  <2>3. ASSUME NEW r \in Pending, NEW t \in RowsOf[r]
        PROVE (c.url /\ t \in c.tables) \/ <<t, r>> \in Unset(c, Pending)
    <3>1. <<t, r>> \in Facts
      BY <2>2 DEF Facts
    <3>2. QED
      BY <3>1 DEF Unset, RowsFor
  <2>4. QED
    BY <2>1, <2>3 DEF ConfInv
<1>7. ASSUME Die PROVE ConfInv'
  <2>1. Pending' = {}
    BY <1>7, EmptyElements DEF Die, Pending, Queued, Waiting, In
  <2>2. QED
    BY <2>1 DEF ConfInv
<1>8. ASSUME UNCHANGED <<conf, queue, buf, loop>> PROVE ConfInv'
  BY <1>1, <1>8 DEF Pending, Queued, In
<1>9. QED
  BY <1>2, <1>3, <1>4, <1>5, <1>6, <1>7, <1>8 DEF Next, Looping, Ships, vars, Emit, EventSent,
     EventFails, EventParked, EventLost, Replays, List, Resend, ResendFails, Forget, ForgetFails, ReplayEnds

\* A flush that begins reads a configuration for which what it has taken is
\* unset where it has to be, and has been to no table; each INSERT settles the
\* rows of its table, or puts them into the table of failed batches.
LEMMA FlushStep == Inv /\ [Next]_vars => FlushInv' /\ ServedInv'
<1> SUFFICES ASSUME Inv, [Next]_vars PROVE FlushInv' /\ ServedInv'
  OBVIOUS
<1> USE DEF process, history
<1>0. /\ TypeOK /\ TypeOK' /\ unset \subseteq unset' /\ buf \subseteq Records
      /\ \A f \in Facts : Settled(f) => Settles(f)
  BY TypeNext, Grows, Lasting DEF Inv, TypeOK
<1>1. \A r \in buf : \A t \in RowsOf[r] : <<t, r>> \in Facts
  BY <1>0 DEF Facts, Sources
<1>a. \A f : Settled(f)' <=> Settles(f)
  BY DEF Settled, Settles, Kept, Of
<1>2. ASSUME UNCHANGED <<buf, loop>> PROVE FlushInv' /\ ServedInv'
  BY <1>0, <1>1, <1>a, <1>2 DEF FlushInv, ServedInv, Inv, In
<1>3. ASSUME NEW taken, Flush(taken), taken \subseteq Pending, conf' = conf PROVE FlushInv' /\ ServedInv'
  <2>1. CASE conf.url
    <3>1. buf' = taken /\ loop' = [pc |-> "sink", at |-> 1, tables |-> conf.tables]
      BY <1>3, <2>1 DEF Flush
    <3>2. FlushInv'
      BY <1>0, <1>3, <3>1 DEF FlushInv, ConfInv, Inv
    <3>3. QED
      BY <3>1, <3>2 DEF ServedInv
  <2>2. CASE ~conf.url
    BY <1>3, <2>2 DEF Flush, Waiting, FlushInv, ServedInv, In
  <2>3. QED
    BY <2>1, <2>2
<1>4. ASSUME Receive PROVE FlushInv' /\ ServedInv'
  <2> DEFINE taken == buf \cup {Head(queue)}
  <2>1. Range(queue) = Range(Tail(queue)) \cup {Head(queue)}
    BY <1>0, <1>4, TailElements DEF Receive, TypeOK
  <2>2. taken \subseteq Pending /\ conf' = conf
    BY <1>4, <2>1 DEF Receive, Pending, Queued
  <2>3. CASE Flush(taken)
    BY <1>3, <2>2, <2>3
  <2>4. CASE loop' = loop
    BY <1>4, <2>4 DEF Receive, FlushInv, ServedInv, In
  <2>5. QED
    BY <1>4, <2>3, <2>4 DEF Receive
<1>5. ASSUME Tick PROVE FlushInv' /\ ServedInv'
  BY <1>3, <1>5 DEF Tick, Pending
<1>6. ASSUME ~In("wait"), buf' = buf, loop'.at = loop.at + 1, loop'.tables = loop.tables, More,
             \A r \in buf : Table \in RowsOf[r] => Settles(<<Table, r>>)
      PROVE FlushInv' /\ ServedInv'
  <2>1. FlushInv'
    BY <1>0, <1>6 DEF FlushInv, Inv
  <2>2. ASSUME NEW r \in buf, NEW i \in 1 .. Len(LoopTables), i < loop.at + 1, LoopTables[i] \in RowsOf[r]
        PROVE  Settles(<<LoopTables[i], r>>)
    <3>1. CASE i = loop.at
      BY <1>6, <2>2, <3>1 DEF Table
    <3>2. CASE i # loop.at
      <4>1. loop.at \in Nat /\ i \in Nat
        BY <1>0 DEF TypeOK
      <4>2. i < loop.at
        BY <2>2, <3>2, <4>1
      <4>3. Settled(<<LoopTables[i], r>>)
        BY <1>6, <2>2, <4>2 DEF ServedInv, Inv
      <4>4. QED
        BY <1>0, <1>1, <2>2, <4>3
    <3>3. QED
      BY <3>1, <3>2
  <2>3. QED
    BY <1>6, <1>a, <2>1, <2>2 DEF ServedInv
<1>7. ASSUME ~In("wait"), NEW r \in buf, Table \in RowsOf[r]
      PROVE  <<Table, r>> \in Of(Current) \/ Settles(<<Table, r>>)
  <2>1. CASE Table \in loop.tables
    BY <1>7, <2>1 DEF Current, Of
  <2>2. CASE Table \notin loop.tables
    <3>1. <<Table, r>> \in unset
      BY <1>7, <2>2 DEF FlushInv, Inv
    <3>2. QED
      BY <1>0, <3>1 DEF Settles
  <2>3. QED
    BY <2>1, <2>2
<1>8. ASSUME Skip PROVE FlushInv' /\ ServedInv'
  <2>1. loop'.at = loop.at + 1 /\ loop'.tables = loop.tables /\ More /\ ~In("wait") /\ buf' = buf
    BY <1>0, <1>8, OnwardType DEF Skip, In
  <2>2. Of(Current) = {}
    BY <1>8 DEF Skip, Of
  <2>3. QED
    BY <1>6, <1>7, <2>1, <2>2
<1>9. ASSUME Insert PROVE FlushInv' /\ ServedInv'
  <2>1. loop'.at = loop.at + 1 /\ loop'.tables = loop.tables /\ More /\ ~In("wait") /\ buf' = buf
    BY <1>0, <1>9, OnwardType DEF Insert, In
  <2>2. \A f \in Of(Current) : dw'[f] > 0
    BY <1>0, <1>9, CurrentType, ArrivesType DEF Insert
  <2>3. \A f \in Of(Current) : Settles(f)
    BY <2>2 DEF Settles
  <2>4. QED
    BY <1>6, <1>7, <2>1, <2>3
<1>10. ASSUME InsertFails PROVE FlushInv' /\ ServedInv'
  <2>1. /\ loop'.at = loop.at /\ loop'.tables = loop.tables /\ buf' = buf
        /\ ~In("wait")
    BY <1>0, <1>10 DEF InsertFails, In, TypeOK
  <2>2. QED
    BY <1>0, <1>1, <1>a, <2>1 DEF FlushInv, ServedInv, Inv
<1>11. ASSUME Park PROVE FlushInv' /\ ServedInv'
  <2>1. loop'.at = loop.at + 1 /\ loop'.tables = loop.tables /\ More /\ ~In("wait") /\ buf' = buf
    BY <1>0, <1>11, OnwardType DEF Park, In, TypeOK
  <2>2. Current \in failed'
    BY <1>11 DEF Park
  <2>3. \A f \in Of(Current) : Settles(f)
    BY <2>2 DEF Settles
  <2>4. QED
    BY <1>6, <1>7, <2>1, <2>3
<1>12. ASSUME ParkFails PROVE FlushInv' /\ ServedInv'
  <2>1. loop'.at = loop.at + 1 /\ loop'.tables = loop.tables /\ More /\ ~In("wait") /\ buf' = buf
    BY <1>0, <1>12, OnwardType DEF ParkFails, In, TypeOK
  <2>2. \A f \in Of(Current) : Settles(f)
    BY <1>12 DEF ParkFails, Settles
  <2>3. QED
    BY <1>6, <1>7, <2>1, <2>2
<1>13. ASSUME FlushEnds \/ Die PROVE FlushInv' /\ ServedInv'
  BY <1>13 DEF FlushEnds, Die, Waiting, FlushInv, ServedInv, In
<1>14. QED
  BY <1>2, <1>4, <1>5, <1>8, <1>9, <1>10, <1>11, <1>12, <1>13 DEF Next, Looping, Ships, vars, Enqueue,
     Emit, EventSent, EventFails, EventParked, EventLost, Configure, Replays, List, Resend, ResendFails,
     Forget, ForgetFails, ReplayEnds

-----------------------------------------------------------------------------
(* Rows of a request that somebody still takes care of.                    *)
Carried(s) == s \in dropped \/ Underway(s)
Carries(s) == s \in dropped' \/ s \in Queued' \/ s \in buf' \/ (s \in Events /\ post'[s] # "idle")

\* The loop lets go of what it has taken when the rows are settled: no table is
\* left to serve, or none is configured.
LEMMA LoopCarries ==
  ASSUME Inv, [Next]_vars, Receive \/ Tick \/ FlushEnds,
         NEW f \in Facts, f[1] \in RowsOf[f[2]], Carried(f[2])
  PROVE  Carries(f[2]) \/ Settled(f)
<1> USE DEF process, history
<1>0. TypeOK /\ f = <<f[1], f[2]>> /\ queue \in Seq(Records) /\ buf \subseteq Records
  BY DEF Inv, TypeOK, Facts
<1>1. ASSUME NEW taken, Flush(taken), taken \subseteq Pending, f[2] \in taken
      PROVE  Carries(f[2]) \/ Settled(f)
  <2>1. CASE conf.url
    BY <1>1, <2>1 DEF Flush, Carries
  <2>2. CASE ~conf.url
    BY <1>0, <1>1, <2>2 DEF Inv, ConfInv, Settled
  <2>3. QED
    BY <2>1, <2>2
<1>2. CASE Receive
  <2> DEFINE taken == buf \cup {Head(queue)}
  <2>1. Range(queue) = Range(Tail(queue)) \cup {Head(queue)}
    BY <1>0, <1>2, TailElements DEF Receive
  <2>2. taken \subseteq Pending /\ UNCHANGED <<dropped, post>> /\ Queued = Queued' \cup {Head(queue)}
    BY <1>2, <2>1 DEF Receive, Pending, Queued
  <2>3. CASE f[2] \in taken
    <3>1. Flush(taken) \/ buf' = taken
      BY <1>2 DEF Receive
    <3>2. QED
      BY <1>1, <2>2, <2>3, <3>1 DEF Carries
  <2>4. CASE f[2] \notin taken
    BY <2>2, <2>4 DEF Carried, Underway, Carries
  <2>5. QED
    BY <2>3, <2>4
<1>3. CASE Tick
  <2>1. Flush(buf) /\ buf \subseteq Pending /\ UNCHANGED <<queue, dropped, post>>
    BY <1>3 DEF Tick, Pending
  <2>2. QED
    BY <1>1, <2>1 DEF Carried, Underway, Carries, Queued
<1>4. CASE FlushEnds
  <2>1. UNCHANGED <<queue, dropped, post>>
    BY <1>4 DEF FlushEnds
  <2>2. ASSUME f[2] \in buf PROVE Settled(f)
    <3>1. PICK i \in 1 .. Len(LoopTables) : LoopTables[i] = f[1]
      BY <1>0, <2>2, LoopServes
    <3>2. ~In("wait") /\ loop.at \in 1 .. Len(LoopTables) + 1 /\ loop.at \notin 1 .. Len(LoopTables)
      BY <1>0, <1>4 DEF FlushEnds, In, More, TypeOK
    <3>3. Len(LoopTables) \in Nat
      OBVIOUS
    <3>4. i < loop.at
      BY <3>2, <3>3
    <3>5. QED
      BY <1>0, <2>2, <3>1, <3>2, <3>4 DEF Inv, ServedInv
  <2>3. QED
    BY <2>1, <2>2 DEF Carried, Underway, Carries, Queued
<1>5. QED
  BY <1>2, <1>3, <1>4

\* So does the goroutine of an event, and a death loses what the process had.
LEMMA StepCarries ==
  ASSUME Inv, [Next]_vars, NEW f \in Facts, f[1] \in RowsOf[f[2]], Carried(f[2])
  PROVE  Carries(f[2]) \/ Settles(f)
<1> USE DEF process, history
<1>0. TypeOK /\ f = <<f[1], f[2]>> /\ queue \in Seq(Records) /\ (Settled(f) => Settles(f))
  BY Lasting DEF Inv, TypeOK, Facts
<1>1. ASSUME UNCHANGED buf, dropped \subseteq dropped', Queued \subseteq Queued',
             f[2] \in Events /\ post[f[2]] # "idle" => post'[f[2]] # "idle" \/ Settles(f)
      PROVE  Carries(f[2]) \/ Settles(f)
  BY <1>1 DEF Carried, Underway, Carries
<1>2. ASSUME NEW r \in Records, Enqueue(r) PROVE Carries(f[2]) \/ Settles(f)
  <2>1. Range(Append(queue, r)) = Range(queue) \cup {r}
    BY <1>0, AppendElements
  <2>2. QED
    BY <1>1, <1>2, <2>1 DEF Enqueue, Queued
<1>3. ASSUME Receive \/ Tick \/ FlushEnds PROVE Carries(f[2]) \/ Settles(f)
  BY <1>0, <1>3, LoopCarries
<1>4. ASSUME UNCHANGED process PROVE Carries(f[2]) \/ Settles(f)
  BY <1>1, <1>4 DEF Queued
<1>5. ASSUME Skip \/ Insert \/ InsertFails \/ Park \/ ParkFails PROVE Carries(f[2]) \/ Settles(f)
  BY <1>1, <1>5 DEF Skip, Insert, InsertFails, Park, ParkFails, Queued
<1>6. ASSUME NEW e \in Events, Emit(e) \/ Ships(e) \/ EventFails(e) \/ EventLost(e)
      PROVE  Carries(f[2]) \/ Settles(f)
  <2>1. post \in [Events -> {"idle", "send", "park"}]
    BY <1>0 DEF TypeOK
  <2>2. UNCHANGED <<buf, dropped>> /\ Queued' = Queued
    BY <1>6 DEF Ships, Emit, EventSent, EventParked, EventFails, EventLost, Queued
  <2>3. ASSUME f[2] # e PROVE post'[f[2]] = post[f[2]] \/ f[2] \notin Events
    BY <1>6, <2>1, <2>3 DEF Ships, Emit, EventSent, EventParked, EventFails, EventLost, Moves
  <2>4. ASSUME f[2] = e PROVE f \in Of(EventBatch(e))
    BY <1>0, <2>4, EventTableType DEF RowsFor
  <2>5. ASSUME f[2] = e, Emit(e) \/ EventFails(e)
        PROVE  post[e] # "idle" => post'[e] # "idle"
    BY <2>1, <2>5 DEF Emit, EventFails, Moves
  <2>6. ASSUME f[2] = e, EventSent(e) PROVE Settles(f)
    BY <1>0, <2>4, <2>6, EventTableType, ArrivesType DEF EventSent, Settles
  <2>7. ASSUME f[2] = e, EventParked(e) PROVE Settles(f)
    BY <2>4, <2>7 DEF EventParked, Settles
  <2>8. ASSUME f[2] = e, EventLost(e) PROVE Settles(f)
    BY <2>4, <2>8 DEF EventLost, Settles
  <2>9. QED
    BY <1>1, <1>6, <2>2, <2>3, <2>5, <2>6, <2>7, <2>8 DEF Ships
<1>7. ASSUME NEW c \in Confs, Configure(c) PROVE Carries(f[2]) \/ Settles(f)
  BY <1>4, <1>7 DEF Configure
<1>8. ASSUME NEW a \in Admins, Replays(a) PROVE Carries(f[2]) \/ Settles(f)
  BY <1>4, <1>8 DEF Replays, List, Resend, ResendFails, Forget, ForgetFails, ReplayEnds
<1>9. ASSUME Die PROVE Carries(f[2]) \/ Settles(f)
  BY <1>9 DEF Die, Carried, Underway, RowsFor, Settles
<1>10. QED
  BY <1>2, <1>3, <1>4, <1>5, <1>6, <1>7, <1>8, <1>9 DEF Next, Looping, vars

\* A row that is new is carried, unless its table is not configured.
LEMMA NewRows ==
  ASSUME Inv, [Next]_vars, NEW f \in RowsFor(ended') \ RowsFor(ended)
  PROVE  Carries(f[2]) \/ f \in unset'
<1> USE DEF process, history
<1>0. TypeOK /\ f = <<f[1], f[2]>> /\ f \in Facts /\ f[1] \in RowsOf[f[2]] /\ f[2] \in ended' \ ended
  BY DEF Inv, RowsFor, Facts
<1>1. ASSUME NEW r \in Records, Enqueue(r) PROVE Carries(f[2]) \/ f \in unset'
  <2>1. f[2] = r /\ f \in RowsFor({r})
    BY <1>0, <1>1 DEF Enqueue, RowsFor
  <2>2. CASE Enabled
    <3>1. Range(Append(queue, r)) = Range(queue) \cup {r}
      BY <1>0, AppendElements DEF TypeOK
    <3>2. QED
      BY <1>1, <2>1, <2>2, <3>1 DEF Enqueue, Carries, Queued
  <2>3. CASE ~Enabled
    <3>1. \E i \in 1 .. Len(LoopTables) : LoopTables[i] = f[1]
      BY <1>0, <2>1, LoopServes
    <3>2. f \in Unset(conf, {r})
      BY <2>1, <2>3, <3>1 DEF Enabled, Unset
    <3>3. QED
      BY <1>1, <3>2 DEF Enqueue
  <2>4. QED
    BY <2>2, <2>3
<1>2. ASSUME NEW e \in Events, Emit(e) PROVE Carries(f[2]) \/ f \in unset'
  <2>1. f[2] = e /\ f \in RowsFor({e}) /\ f[1] = EventTable(e)
    BY <1>0, <1>2, EventTableType DEF Emit, RowsFor
  <2>2. CASE conf.url /\ EventTable(e) \in conf.tables
    BY <1>0, <1>2, <2>1, <2>2 DEF Emit, Moves, Carries, TypeOK
  <2>3. CASE ~(conf.url /\ EventTable(e) \in conf.tables)
    BY <1>2, <2>1, <2>3 DEF Emit, Unset
  <2>4. QED
    BY <2>2, <2>3
<1>3. ASSUME ended' = ended PROVE FALSE
  BY <1>0, <1>3
<1>4. QED
  BY <1>1, <1>2, <1>3 DEF Next, Looping, Ships, vars, Receive, Tick, Skip, Insert, InsertFails, Park,
     ParkFails, FlushEnds, EventSent, EventFails, EventParked, EventLost, Configure, Die, Replays,
     List, Resend, ResendFails, Forget, ForgetFails, ReplayEnds

\* Every row that ended is settled or carried after a step.
LEMMA AccountedStep == Inv /\ [Next]_vars => Accounted'
<1> SUFFICES ASSUME Inv, [Next]_vars PROVE Accounted'
  OBVIOUS
<1>1. ASSUME NEW f \in RowsFor(ended') PROVE Carries(f[2]) \/ Settles(f)
  <2>1. f \in Facts /\ f[1] \in RowsOf[f[2]]
    BY DEF RowsFor
  <2>2. CASE f \in RowsFor(ended)
    <3>1. Carried(f[2]) \/ Settled(f)
      BY <2>2 DEF Inv, Accounted, Carried, Settled, Kept
    <3>2. CASE Carried(f[2])
      BY <2>1, <3>2, StepCarries
    <3>3. CASE Settled(f)
      BY <2>1, <3>3, Lasting DEF Inv
    <3>4. QED
      BY <3>1, <3>2, <3>3
  <2>3. CASE f \notin RowsFor(ended)
    BY <2>3, NewRows DEF Settles
  <2>4. QED
    BY <2>2, <2>3
<1>2. QED
  BY <1>1 DEF Accounted, Carries, Settles, Underway, RowsFor, Of

LEMMA InvInit == Init => Inv
<1> SUFFICES ASSUME Init PROVE Inv
  OBVIOUS
<1>1. TypeOK
  BY TypeInit
<1>2. Pending = {} /\ RowsFor(ended) = {} /\ In("wait")
  BY EmptyElements DEF Init, Pending, Queued, RowsFor, In, Waiting
<1>3. \A a \in Admins : replay[a].sent = None
  BY DEF Init, Idle
<1>4. QED
  BY <1>1, <1>2, <1>3 DEF Inv, ConfInv, FlushInv, ServedInv, ReplayInv, Accounted

\* No row is forgotten for another table's failure, a failed replay or two
\* replays at once, however many requests, tables, faults and deaths there are.
THEOREM NothingForgotten == Spec => []Accounted
<1>1. Inv /\ [Next]_vars => Inv'
  BY TypeNext, ConfStep, FlushStep, ReplayStep, AccountedStep DEF Inv
<1>2. Inv => Accounted
  BY DEF Inv
<1>3. QED
  BY InvInit, <1>1, <1>2, PTL DEF Spec
-----------------------------------------------------------------------------
(* The strengthening that makes OnceEach inductive.  A row that is still   *)
(* to be shipped for the first time has not arrived and is in no batch; it *)
(* is in one batch at most, which one replay at most works at, and one     *)
(* that has arrived is in the table of failed batches only while the       *)
(* replay that sent its batch is about to forget it.                       *)
Held(b)  == b \in failed \/ \E a \in Admins : Busy(a, b)
Fresh(f) == dw[f] = 0 /\ \A b \in Batches : f \in Of(b) => ~Held(b)

Ahead     == {LoopTables[i] : i \in loop.at .. Len(LoopTables)}
Coming(f) ==
  \/ f[2] \in Queued
  \/ f[2] \in buf /\ (In("wait") \/ f[1] \in Ahead)
  \/ f[2] \in Events /\ post[f[2]] # "idle"

Single(f) ==
  /\ dw[f] <= 1
  /\ f[2] \notin ended \/ Coming(f) => Fresh(f)
  /\ \A b, c \in Batches : f \in Of(b) /\ f \in Of(c) /\ Held(b) /\ Held(c) => b = c
  /\ \A b \in Batches : f \in Of(b) =>
       /\ \A a, o \in Admins : Busy(a, b) /\ Busy(o, b) => a = o
       /\ \A a \in Admins : b \in replay[a].todo => dw[f] = 0
       /\ dw[f] = 1 /\ b \in failed => \E a \in Admins : replay[a].sent = b

LineInv ==
  /\ Distinct(queue) /\ Queued \cap buf = {} /\ Queued \cup buf \subseteq ended
  /\ \A e \in Events : post[e] # "idle" => e \in ended

OnceInv == LineInv /\ \A f \in Facts \ again : Single(f)

\* The line is a line: a request is queued once and taken once.
LEMMA LineStep == TypeOK /\ LineInv /\ [Next]_vars => LineInv'
<1> SUFFICES ASSUME TypeOK, LineInv, [Next]_vars PROVE LineInv'
  OBVIOUS
<1> USE DEF process, history
<1>0. queue \in Seq(Records) /\ buf \subseteq Records /\ post \in [Events -> {"idle", "send", "park"}]
  BY DEF TypeOK
<1>1. ASSUME UNCHANGED <<queue, buf, post>>, ended \subseteq ended' PROVE LineInv'
  BY <1>1 DEF LineInv, Queued
<1>2. ASSUME NEW r \in Records, Enqueue(r) PROVE LineInv'
  <2>1. r \notin ended /\ ended' = ended \cup {r} /\ UNCHANGED <<buf, post>>
    BY <1>2 DEF Enqueue
  <2>2. CASE queue' = Append(queue, r)
    <3>1. r \notin Queued /\ r \notin buf
      BY <2>1 DEF LineInv
    <3>2. Range(queue') = Range(queue) \cup {r} /\ Distinct(queue')
      BY <1>0, <2>2, <3>1, AppendElements DEF LineInv, Queued
    <3>3. QED
      BY <2>1, <3>1, <3>2 DEF LineInv, Queued
  <2>3. CASE queue' = queue
    BY <1>1, <2>1, <2>3
  <2>4. QED
    BY <1>2, <2>2, <2>3 DEF Enqueue
<1>3. CASE Receive
  <2>1. /\ Range(queue) = Range(queue') \cup {Head(queue)}
        /\ Head(queue) \notin Range(queue') /\ Distinct(queue')
    BY <1>0, <1>3, TailElements DEF Receive, LineInv
  <2>2. buf' \in {buf \cup {Head(queue)}, {}} /\ UNCHANGED <<post, ended>>
    BY <1>3 DEF Receive, Flush
  <2>3. QED
    BY <2>1, <2>2 DEF LineInv, Queued
<1>4. CASE Tick \/ FlushEnds
  <2>1. buf' \in {buf, {}} /\ UNCHANGED <<queue, post, ended>>
    BY <1>4 DEF Tick, FlushEnds, Flush
  <2>2. QED
    BY <2>1 DEF LineInv, Queued
<1>5. ASSUME NEW e \in Events, Emit(e) PROVE LineInv'
  <2>1. ended' = ended \cup {e} /\ UNCHANGED <<queue, buf>>
    BY <1>5 DEF Emit
  <2>2. \A x \in Events : post'[x] # "idle" => x = e \/ post[x] # "idle"
    BY <1>0, <1>5 DEF Emit, Moves
  <2>3. QED
    BY <2>1, <2>2 DEF LineInv, Queued
<1>6. ASSUME NEW e \in Events, Ships(e) \/ EventFails(e) \/ EventLost(e) PROVE LineInv'
  <2>1. post[e] # "idle" /\ UNCHANGED <<queue, buf, ended>>
    BY <1>6 DEF Ships, EventSent, EventParked, EventFails, EventLost
  <2>2. \A x \in Events : post'[x] # "idle" => x = e \/ post[x] # "idle"
    BY <1>0, <1>6 DEF Ships, EventSent, EventParked, EventFails, EventLost, Moves
  <2>3. QED
    BY <2>1, <2>2 DEF LineInv, Queued
<1>7. CASE Die
  <2>1. Queued' = {} /\ Distinct(queue') /\ buf' = {} /\ ended' = ended
    BY <1>7, EmptyElements DEF Die, Queued
  <2>2. \A e \in Events : post'[e] = "idle"
    BY <1>7 DEF Die
  <2>3. QED
    BY <2>1, <2>2 DEF LineInv
<1>8. ASSUME NEW a \in Admins, Replays(a) PROVE LineInv'
  <2>1. UNCHANGED <<queue, buf, post, ended>>
    BY <1>8 DEF Replays, List, Resend, ResendFails, Forget, ForgetFails, ReplayEnds
  <2>2. QED
    BY <1>1, <2>1
<1>9. CASE Skip \/ Insert \/ InsertFails \/ Park \/ ParkFails \/ UNCHANGED vars
  <2>1. UNCHANGED <<queue, buf, post, ended>>
    BY <1>9 DEF Skip, Insert, InsertFails, Park, ParkFails, vars
  <2>2. QED
    BY <1>1, <2>1
<1>10. ASSUME NEW c \in Confs, Configure(c) PROVE LineInv'
  <2>1. UNCHANGED <<queue, buf, post, ended>>
    BY <1>10 DEF Configure
  <2>2. QED
    BY <1>1, <2>1
<1>11. QED
  BY <1>2, <1>3, <1>4, <1>5, <1>6, <1>7, <1>8, <1>9, <1>10 DEF Next, Looping

\* A step that ships and keeps nothing.
LEMMA Quiet ==
  ASSUME NEW f \in Facts, Single(f), UNCHANGED <<failed, replay>>, dw'[f] = dw[f], ended \subseteq ended',
         Coming(f)' => Coming(f) \/ f[2] \notin ended
  PROVE  Single(f)'
BY DEF Single, Fresh, Held, Busy

\* The row arrives for the first time.
LEMMA FirstArrival ==
  ASSUME TypeOK, NEW f \in Facts, Single(f), UNCHANGED <<failed, replay>>, dw'[f] = dw[f] + 1,
         Coming(f), ~Coming(f)', f[2] \in ended'
  PROVE  Single(f)'
<1>1. dw[f] = 0 /\ dw'[f] = 1 /\ Fresh(f)
  BY DEF Single, Fresh
<1>2. \A b \in Batches : f \in Of(b) => ~Held(b) /\ ~Held(b)' /\ b \notin failed' /\ \A a \in Admins : ~Busy(a, b)'
  BY <1>1 DEF Fresh, Held, Busy
<1>3. \A b \in Batches : f \in Of(b) => \A a \in Admins : b \notin replay'[a].todo
  BY <1>2 DEF Busy
<1>4. QED
  BY <1>1, <1>2, <1>3 DEF Single

\* Its batch is kept, or another one is.
LEMMA Parking ==
  ASSUME TypeOK, NEW f \in Facts, Single(f), NEW b \in Batches, failed' = failed \cup {b},
         UNCHANGED <<replay, dw, ended>>, Coming(f)' => Coming(f),
         f \in Of(b) => Coming(f) /\ ~Coming(f)' /\ f[2] \in ended
  PROVE  Single(f)'
<1>1. CASE f \in Of(b)
  <2>1. dw[f] = 0 /\ dw'[f] = 0 /\ Fresh(f) /\ f[2] \in ended' /\ ~Coming(f)'
    BY <1>1 DEF Single, Fresh
  <2>2. \A c \in Batches : f \in Of(c) => ~Held(c) /\ (\A a \in Admins : ~Busy(a, c) /\ ~Busy(a, c)')
    BY <2>1 DEF Fresh, Held, Busy
  <2>3. \A c \in Batches : f \in Of(c) /\ Held(c)' => c = b
    BY <2>2 DEF Held
  <2>4. QED
    BY <2>1, <2>2, <2>3 DEF Single
<1>2. CASE f \notin Of(b)
  <2>1. \A c \in Batches : f \in Of(c) => (Held(c)' <=> Held(c)) /\ (c \in failed' <=> c \in failed)
    BY <1>2 DEF Held, Busy
  <2>2. QED
    BY <2>1 DEF Single, Fresh, Busy
<1>3. QED
  BY <1>1, <1>2
\* When the loop has served a table, the rows of that table are not to come
\* any more: no other position has the table.
LEMMA Served ==
  ASSUME TypeOK, LineInv, More, ~In("wait"), loop'.at = loop.at + 1, loop'.pc = "sink",
         UNCHANGED <<queue, buf, post>>, NEW f \in Facts
  PROVE  /\ Coming(f)' => Coming(f)
         /\ f \in Of(Current) => Coming(f) /\ ~Coming(f)'
<1>1. Len(LoopTables) \in Nat /\ DOMAIN LoopTables = 1 .. Len(LoopTables) /\ loop.at \in 1 .. Len(LoopTables)
  BY DEF More
<1>2. Ahead' \subseteq Ahead
  <2>1. \A i \in loop.at + 1 .. Len(LoopTables) : i \in loop.at .. Len(LoopTables)
    BY <1>1
  <2>2. QED
    BY <2>1 DEF Ahead
<1>3. Table \in Ahead /\ Table \notin Ahead'
  <2>1. loop.at \in loop.at .. Len(LoopTables)
    BY <1>1
  <2>2. ASSUME NEW i \in loop.at + 1 .. Len(LoopTables) PROVE LoopTables[i] # LoopTables[loop.at]
    <3>1. i \in DOMAIN LoopTables /\ loop.at \in DOMAIN LoopTables /\ i # loop.at
      BY <1>1
    <3>2. QED
      BY <3>1
  <2>3. QED
    BY <2>1, <2>2 DEF Ahead, Table
<1>4. ~In("wait")'
  BY DEF In
<1>5. Coming(f)' => Coming(f)
  BY <1>2, <1>4 DEF Coming, Queued
<1>6. ASSUME f \in Of(Current) PROVE Coming(f) /\ ~Coming(f)'
  <2>1. f[1] = Table /\ f[2] \in buf
    BY <1>6 DEF Of, Current
  <2>2. f[2] \in Records /\ f[2] \notin Events /\ f[2] \notin Queued
    BY <2>1 DEF TypeOK, LineInv
  <2>3. QED
    BY <1>3, <1>4, <2>1, <2>2 DEF Coming, Queued
<1>7. QED
  BY <1>5, <1>6

\* What the process does with a row: it ships it once, or keeps its batch.
LEMMA ProcessSingle ==
  ASSUME TypeOK, LineInv, [Next]_vars, NEW f \in Facts, f \notin again', Single(f),
         ~(\E a \in Admins : Replays(a))
  PROVE  Single(f)'
<1> USE DEF process, history
<1>0. /\ queue \in Seq(Records) /\ buf \subseteq Records /\ post \in [Events -> {"idle", "send", "park"}]
      /\ Coming(f) => f[2] \in ended
      /\ dw \in [Facts -> 0 .. 2]
  BY DEF TypeOK, LineInv, Coming
<1>1. ASSUME NEW r \in Records, Enqueue(r) PROVE Single(f)'
  <2>1. r \notin ended /\ ended' = ended \cup {r} /\ UNCHANGED <<buf, loop, post, failed, replay, dw>>
    BY <1>1 DEF Enqueue
  <2>2. Queued' \subseteq Queued \cup {r}
    <3>1. queue' \in {queue, Append(queue, r)}
      BY <1>1 DEF Enqueue
    <3>2. Range(Append(queue, r)) = Range(queue) \cup {r}
      BY <1>0, AppendElements
    <3>3. QED
      BY <3>1, <3>2 DEF Queued
  <2>3. Coming(f)' => Coming(f) \/ f[2] = r
    BY <2>1, <2>2 DEF Coming, Ahead, In
  <2>4. QED
    BY <2>1, <2>3, Quiet
<1>2. ASSUME Receive \/ Tick \/ FlushEnds PROVE Single(f)'
  <2>1. UNCHANGED <<post, failed, replay, dw, ended>>
    BY <1>2 DEF Receive, Tick, FlushEnds
  <2>2. CASE Receive
    <3>1. Range(queue) = Range(queue') \cup {Head(queue)}
      BY <1>0, <2>2, TailElements DEF Receive
    <3>2. In("wait") /\ buf' \subseteq buf \cup {Head(queue)}
      BY <2>2 DEF Receive, Flush
    <3>3. Coming(f)' => Coming(f)
      BY <2>1, <3>1, <3>2 DEF Coming, Queued
    <3>4. QED
      BY <2>1, <3>3, Quiet
  <2>3. CASE Tick
    <3>1. In("wait") /\ buf' \subseteq buf /\ queue' = queue
      BY <2>3 DEF Tick, Flush
    <3>2. Coming(f)' => Coming(f)
      BY <2>1, <3>1 DEF Coming, Queued
    <3>3. QED
      BY <2>1, <3>2, Quiet
  <2>4. CASE FlushEnds
    <3>1. buf' = {} /\ queue' = queue
      BY <2>4 DEF FlushEnds
    <3>2. Coming(f)' => Coming(f)
      BY <2>1, <3>1 DEF Coming, Queued
    <3>3. QED
      BY <2>1, <3>2, Quiet
  <2>5. QED
    BY <1>2, <2>2, <2>3, <2>4
<1>3. ASSUME Skip PROVE Single(f)'
  <2>1. /\ More /\ ~In("wait") /\ loop'.at = loop.at + 1 /\ loop'.pc = "sink"
        /\ UNCHANGED <<queue, buf, post, failed, replay, dw, ended>>
    BY <1>3 DEF Skip, In, TypeOK
  <2>2. QED
    BY <2>1, Served, Quiet
<1>4. ASSUME Insert PROVE Single(f)'
  <2>1. /\ More /\ ~In("wait") /\ loop'.at = loop.at + 1 /\ loop'.pc = "sink" /\ Arrives(Current)
        /\ UNCHANGED <<queue, buf, post, failed, replay, ended>>
    BY <1>4 DEF Insert, In, TypeOK
  <2>2. dw'[f] = IF f \in Of(Current) /\ dw[f] < 2 THEN dw[f] + 1 ELSE dw[f]
    BY <2>1 DEF Arrives
  <2>3. CASE f \in Of(Current)
    <3>1. dw'[f] = dw[f] + 1
      BY <1>0, <2>2, <2>3 DEF Single
    <3>2. QED
      BY <1>0, <2>1, <2>3, <3>1, Served, FirstArrival
  <2>4. CASE f \notin Of(Current)
    BY <2>1, <2>2, <2>4, Served, Quiet
  <2>5. QED
    BY <2>3, <2>4
<1>5. ASSUME InsertFails PROVE Single(f)'
  <2>1. /\ ~In("wait") /\ ~In("wait")' /\ loop'.at = loop.at
        /\ UNCHANGED <<queue, buf, post, failed, replay, ended>>
    BY <1>5 DEF InsertFails, In, TypeOK
  <2>2. dw'[f] = dw[f]
    BY <1>5 DEF InsertFails, Arrives
  <2>3. Coming(f)' => Coming(f)
    BY <2>1 DEF Coming, Queued, Ahead
  <2>4. QED
    BY <2>1, <2>2, <2>3, Quiet
<1>6. ASSUME Park \/ ParkFails PROVE Single(f)'
  <2>1. /\ More /\ ~In("wait") /\ loop'.at = loop.at + 1 /\ loop'.pc = "sink"
        /\ UNCHANGED <<queue, buf, post, replay, dw, ended>>
    BY <1>6 DEF Park, ParkFails, Onward, In, TypeOK
  <2>2. CASE Park
    <3>1. Current \in Batches /\ Of(Current) \subseteq RowsFor(buf) /\ failed' = failed \cup {Current}
      BY <2>1, <2>2, CurrentType DEF Park
    <3>2. QED
      BY <1>0, <2>1, <3>1, Served, Parking
  <2>3. CASE ParkFails
    <3>1. UNCHANGED failed
      BY <2>3 DEF ParkFails
    <3>2. QED
      BY <2>1, <3>1, Served, Quiet
  <2>4. QED
    BY <1>6, <2>2, <2>3
<1>7. ASSUME NEW e \in Events, Emit(e) PROVE Single(f)'
  <2>1. e \notin ended /\ ended' = ended \cup {e} /\ UNCHANGED <<queue, buf, loop, failed, replay, dw>>
    BY <1>7 DEF Emit
  <2>2. \A x \in Events : post'[x] # "idle" => x = e \/ post[x] # "idle"
    BY <1>0, <1>7 DEF Emit, Moves
  <2>3. Coming(f)' => Coming(f) \/ f[2] = e
    BY <2>1, <2>2 DEF Coming, Queued, Ahead, In
  <2>4. QED
    BY <2>1, <2>3, Quiet
<1>8. ASSUME NEW e \in Events, Ships(e) \/ EventFails(e) \/ EventLost(e) PROVE Single(f)'
  <2>1. /\ UNCHANGED <<queue, buf, loop, replay, ended>> /\ post[e] # "idle"
        /\ \A x \in Events \ {e} : post'[x] = post[x]
    BY <1>0, <1>8 DEF Ships, EventSent, EventFails, EventLost, EventParked, Moves
  <2>2. Coming(f)' => Coming(f)
    BY <2>1 DEF Coming, Queued, Ahead, In
  <2>3. /\ EventBatch(e) \in Batches
        /\ f \in Of(EventBatch(e)) => f[2] = e /\ Coming(f)
    <3>1. EventBatch(e) \in Batches /\ Of(EventBatch(e)) = {<<EventTable(e), e>>}
      BY EventTableType
    <3>2. f \in Of(EventBatch(e)) => f[2] = e
      BY <3>1
    <3>3. QED
      BY <2>1, <3>1, <3>2 DEF Coming
  <2>4. ASSUME post'[e] = "idle", f \in Of(EventBatch(e)) PROVE ~Coming(f)'
    <3>1. e \notin Queued /\ e \notin buf
      <4>1. Queued \subseteq Records
        BY <1>0 DEF Queued, Range
      <4>2. QED
        BY <1>0, <4>1
    <3>2. QED
      BY <2>1, <2>3, <2>4, <3>1 DEF Coming, Queued
  <2>5. CASE EventSent(e)
    <3>1. post'[e] = "idle" /\ UNCHANGED failed
      BY <1>0, <2>5 DEF EventSent, Moves
    <3>2. dw'[f] = IF f \in Of(EventBatch(e)) /\ dw[f] < 2 THEN dw[f] + 1 ELSE dw[f]
      BY <2>5 DEF EventSent, Arrives
    <3>3. CASE f \in Of(EventBatch(e))
      <4>1. dw'[f] = dw[f] + 1
        BY <1>0, <3>2, <3>3 DEF Single
      <4>2. QED
        BY <1>0, <2>1, <2>3, <2>4, <3>1, <3>3, <4>1, FirstArrival
    <3>4. CASE f \notin Of(EventBatch(e))
      BY <2>1, <2>2, <3>1, <3>2, <3>4, Quiet
    <3>5. QED
      BY <3>3, <3>4
  <2>6. CASE EventParked(e)
    <3>1. post'[e] = "idle" /\ failed' = failed \cup {EventBatch(e)} /\ UNCHANGED dw
      BY <1>0, <2>6 DEF EventParked, Moves
    <3>2. QED
      BY <1>0, <2>1, <2>2, <2>3, <2>4, <3>1, Parking
  <2>7. CASE EventFails(e)
    <3>1. dw'[f] = dw[f] /\ UNCHANGED failed
      BY <2>7 DEF EventFails, Arrives
    <3>2. QED
      BY <2>1, <2>2, <3>1, Quiet
  <2>8. CASE EventLost(e)
    <3>1. UNCHANGED <<dw, failed>>
      BY <2>8 DEF EventLost
    <3>2. QED
      BY <2>1, <2>2, <3>1, Quiet
  <2>9. QED
    BY <1>8, <2>5, <2>6, <2>7, <2>8 DEF Ships
<1>9. ASSUME NEW c \in Confs, Configure(c) PROVE Single(f)'
  <2>1. UNCHANGED <<queue, buf, loop, post, failed, replay, dw, ended>>
    BY <1>9 DEF Configure
  <2>2. Coming(f)' <=> Coming(f)
    BY <2>1 DEF Coming, Queued, Ahead, In
  <2>3. QED
    BY <2>1, <2>2, Quiet
<1>10. ASSUME Die PROVE Single(f)'
  <2>1. Queued' = {} /\ buf' = {} /\ UNCHANGED <<failed, replay, dw, ended>>
    BY <1>10, EmptyElements DEF Die, Queued
  <2>2. \A e \in Events : post'[e] = "idle"
    BY <1>10 DEF Die
  <2>3. ~Coming(f)'
    BY <2>1, <2>2 DEF Coming
  <2>4. QED
    BY <2>1, <2>3, Quiet
<1>11. ASSUME UNCHANGED vars PROVE Single(f)'
  <2>1. UNCHANGED <<queue, buf, loop, post, failed, replay, dw, ended>>
    BY <1>11 DEF vars
  <2>2. Coming(f)' <=> Coming(f)
    BY <2>1 DEF Coming, Queued, Ahead, In
  <2>3. QED
    BY <2>1, <2>2, Quiet
<1>12. QED
  BY <1>1, <1>2, <1>3, <1>4, <1>5, <1>6, <1>7, <1>8, <1>9, <1>10, <1>11 DEF Next, Looping
\* What a replay does with a row: it sends the batch that nobody else works at,
\* and forgets it before anybody else can list it.
LEMMA ReplaySingle ==
  ASSUME TypeOK, NEW a \in Admins, Replays(a), NEW f \in Facts, f \notin again', Single(f)
  PROVE  Single(f)'
<1> USE DEF process, history
<1>1. /\ \A o \in Admins : replay[o].todo \subseteq Batches /\ replay[o].sent \in Batches \cup {None}
      /\ replay \in ReplayTable /\ failed \subseteq Batches /\ dw[f] \in 0 .. 2
  BY DEF TypeOK, ReplayTable
<1>2. UNCHANGED <<queue, buf, loop, post, ended>>
  BY DEF Replays, List, Resend, ResendFails, Forget, ForgetFails, ReplayEnds
<1>3. Coming(f)' <=> Coming(f)
  BY <1>2 DEF Coming, Queued, Ahead, In
(* A replay that only lets go.                                             *)
<1>4. ASSUME failed' \subseteq failed, dw'[f] = dw[f],
             \A o \in Admins \ {a} : replay'[o] = replay[o],
             replay'[a].todo \subseteq replay[a].todo, replay'[a].sent \in {replay[a].sent, None},
             \A b \in failed' : b = replay[a].sent /\ f \in Of(b) => replay'[a].sent = b
      PROVE  Single(f)'
  <2>1. \A o \in Admins, b \in Batches : Busy(o, b)' => Busy(o, b)
    BY <1>4, NoneAssumption DEF Busy
  <2>2. \A b \in Batches : Held(b)' => Held(b)
    BY <1>4, <2>1 DEF Held
  <2>3. \A o \in Admins : replay'[o].todo \subseteq replay[o].todo
    BY <1>4
  <2>4. \A b \in failed' : f \in Of(b) => \A o \in Admins : replay[o].sent = b => replay'[o].sent = b
    BY <1>4
  <2>5. \A b \in Batches : f \in Of(b) => (dw'[f] = 1 /\ b \in failed' => \E o \in Admins : replay'[o].sent = b)
    BY <1>4, <2>4 DEF Single
  <2>6. f[2] \notin ended' \/ Coming(f)' => Fresh(f)'
    BY <1>2, <1>3, <1>4, <2>2 DEF Single, Fresh
  <2>7. QED
    BY <1>4, <2>1, <2>2, <2>3, <2>5, <2>6 DEF Single
<1>5. ASSUME NEW S \in SUBSET Tables, List(a, S) PROVE Single(f)'
  <2> DEFINE listed == {b \in failed : b.table \in S}
  <2>1. /\ replay[a].todo = {} /\ replay[a].sent = None /\ UNCHANGED <<failed, dw>>
        /\ \A o \in Admins \ {a} : replay'[o] = replay[o]
        /\ replay'[a].todo = listed /\ replay'[a].sent = None
    BY <1>1, <1>5 DEF List, Idle, ReplayTable
  <2>2. ASSUME NEW b \in listed, f \in Of(b) PROVE \A o \in Admins : ~Busy(o, b)
    <3>1. \A o \in Admins \ {a} : ~Busy(o, b)
      BY <1>5, <2>2 DEF List
    <3>2. ~Busy(a, b)
      BY <1>1, <2>1, <2>2, NoneAssumption DEF Busy
    <3>3. QED
      BY <3>1, <3>2
  <2>3. \A b \in listed : f \in Of(b) => dw[f] = 0
    <3>1. \A b \in listed : f \in Of(b) => \A o \in Admins : replay[o].sent # b
      BY <2>2 DEF Busy
    <3>2. QED
      BY <1>1, <3>1 DEF Single
  <2>4. \A b \in Batches : Held(b)' <=> Held(b)
    <3>1. \A b \in Batches, o \in Admins : Busy(o, b)' => Busy(o, b) \/ b \in failed
      BY <2>1, NoneAssumption DEF Busy
    <3>2. \A b \in Batches, o \in Admins : Busy(o, b) => Busy(o, b)'
      BY <2>1, NoneAssumption DEF Busy
    <3>3. QED
      BY <2>1, <3>1, <3>2 DEF Held
  <2>5. \A b \in Batches : f \in Of(b) => \A o, p \in Admins : Busy(o, b)' /\ Busy(p, b)' => o = p
    <3>1. \A b \in listed, o \in Admins : f \in Of(b) /\ Busy(o, b)' => o = a
      BY <2>1, <2>2 DEF Busy
    <3>2. \A b \in Batches \ listed, o \in Admins : Busy(o, b)' => Busy(o, b)
      BY <2>1, NoneAssumption DEF Busy
    <3>3. QED
      BY <3>1, <3>2 DEF Single
  <2>6. \A b \in Batches : f \in Of(b) =>
          /\ \A o \in Admins : b \in replay'[o].todo => dw'[f] = 0
          /\ dw'[f] = 1 /\ b \in failed' => \E o \in Admins : replay'[o].sent = b
    <3>1. \A o \in Admins : replay'[o].sent = replay[o].sent
      BY <2>1
    <3>2. QED
      BY <2>1, <2>3, <3>1 DEF Single
  <2>7. f[2] \notin ended' \/ Coming(f)' => Fresh(f)'
    BY <1>2, <1>3, <2>1, <2>4 DEF Single, Fresh
  <2>8. QED
    BY <2>1, <2>4, <2>5, <2>6, <2>7 DEF Single
<1>6. ASSUME NEW b \in replay[a].todo, Resend(a, b) PROVE Single(f)'
  <2>1. /\ b \in Batches /\ replay[a].sent = None /\ UNCHANGED failed
        /\ \A o \in Admins \ {a} : replay'[o] = replay[o]
        /\ replay'[a].todo = replay[a].todo \ {b} /\ replay'[a].sent = b
    BY <1>1, <1>6 DEF Resend, ReplayTable
  <2>2. \A c \in Batches, o \in Admins : Busy(o, c)' <=> Busy(o, c)
    BY <2>1, NoneAssumption DEF Busy
  <2>3. \A c \in Batches : Held(c)' <=> Held(c)
    BY <2>1, <2>2 DEF Held
  <2>4. dw'[f] = IF f \in Of(b) /\ dw[f] < 2 THEN dw[f] + 1 ELSE dw[f]
    BY <1>6 DEF Resend, Arrives
  <2>5. \A o \in Admins, c \in Batches : c \in replay'[o].todo => c \in replay[o].todo
    BY <2>1
  <2>6. CASE f \in Of(b)
    <3>1. dw[f] = 0 /\ dw'[f] = 1 /\ Held(b) /\ Busy(a, b)
      BY <2>1, <2>4, <2>6 DEF Single, Held, Busy
    <3>2. \A c \in Batches : f \in Of(c) /\ Held(c) => c = b
      BY <2>1, <2>6, <3>1 DEF Single
    <3>3. f[2] \in ended /\ ~Coming(f)
      BY <2>1, <2>6, <3>1 DEF Single, Fresh
    <3>4. \A c \in Batches, o \in Admins : f \in Of(c) => c \notin replay'[o].todo
      <4>1. SUFFICES ASSUME NEW o \in Admins, b \in replay'[o].todo PROVE FALSE
        BY <2>2, <3>2 DEF Held, Busy
      <4>2. b \in replay[o].todo /\ o # a
        BY <2>1, <4>1
      <4>3. QED
        BY <2>1, <2>6, <3>1, <4>2 DEF Single, Busy
    <3>5. \A c \in Batches : f \in Of(c) /\ c \in failed' => replay'[a].sent = c
      BY <2>1, <3>2 DEF Held
    <3>6. \A c, d \in Batches : f \in Of(c) /\ f \in Of(d) /\ Held(c)' /\ Held(d)' => c = d
      BY <2>3, <3>2
    <3>7. \A c \in Batches : f \in Of(c) => \A o, p \in Admins : Busy(o, c)' /\ Busy(p, c)' => o = p
      BY <2>2 DEF Single
    <3>8. QED
      BY <1>2, <1>3, <3>1, <3>3, <3>4, <3>5, <3>6, <3>7 DEF Single
  <2>7. CASE f \notin Of(b)
    <3>1. dw'[f] = dw[f]
      BY <2>4, <2>7
    <3>2. \A c \in Batches : f \in Of(c) => c # b
      BY <2>7
    <3>3. \A c \in Batches : f \in Of(c) => \A o \in Admins : replay[o].sent = c => replay'[o].sent = c
      BY <2>1, <3>2, NoneAssumption
    <3>4. f[2] \notin ended' \/ Coming(f)' => Fresh(f)'
      BY <1>2, <1>3, <2>3, <3>1 DEF Single, Fresh
    <3>5. \A c \in Batches : f \in Of(c) => (dw'[f] = 1 /\ c \in failed' => \E o \in Admins : replay'[o].sent = c)
      BY <2>1, <3>1, <3>3 DEF Single
    <3>6. \A c \in Batches : f \in Of(c) =>
            /\ \A o, p \in Admins : Busy(o, c)' /\ Busy(p, c)' => o = p
            /\ \A o \in Admins : c \in replay'[o].todo => dw'[f] = 0
      BY <2>2, <2>5, <3>1 DEF Single
    <3>7. QED
      BY <2>3, <3>1, <3>4, <3>5, <3>6 DEF Single
  <2>8. QED
    BY <2>6, <2>7
<1>7. ASSUME NEW b \in replay[a].todo, ResendFails(a, b) PROVE Single(f)'
  <2>1. /\ UNCHANGED failed /\ \A o \in Admins \ {a} : replay'[o] = replay[o]
        /\ replay'[a].todo = replay[a].todo \ {b} /\ replay'[a].sent = replay[a].sent
    BY <1>1, <1>7 DEF ResendFails, ReplayTable
  <2>2. dw'[f] = dw[f]
    BY <1>7 DEF ResendFails, Arrives
  <2>3. QED
    BY <1>4, <2>1, <2>2
<1>8. ASSUME Forget(a) PROVE Single(f)'
  <2>1. /\ failed' = failed \ {replay[a].sent} /\ UNCHANGED dw
        /\ \A o \in Admins \ {a} : replay'[o] = replay[o]
        /\ replay'[a].todo = replay[a].todo /\ replay'[a].sent = None
    BY <1>1, <1>8 DEF Forget, ReplayTable
  <2>2. QED
    BY <1>4, <2>1
<1>9. ASSUME ForgetFails(a) \/ ReplayEnds(a) PROVE Single(f)'
  <2>1. /\ UNCHANGED <<failed, dw>> /\ \A o \in Admins \ {a} : replay'[o] = replay[o]
        /\ replay'[a].todo \subseteq replay[a].todo /\ replay'[a].sent = None
    BY <1>1, <1>9 DEF ForgetFails, ReplayEnds, Idle, ReplayTable
  <2>2. \A b \in failed : b = replay[a].sent => f \notin Of(b)
    <3>1. replay[a].sent # None => again' = again \cup Of(replay[a].sent)
      BY <1>9 DEF ForgetFails, ReplayEnds
    <3>2. QED
      BY <1>1, <3>1, NoneAssumption
  <2>3. QED
    BY <1>4, <2>1, <2>2
<1>10. QED
  BY <1>5, <1>6, <1>7, <1>8, <1>9 DEF Replays

\* What may be shipped once more stays so.
LEMMA AgainGrows == [Next]_vars => again \subseteq again'
BY DEF Next, Looping, Ships, vars, process, history, Enqueue, Receive, Tick, Skip, Insert, InsertFails,
   Park, ParkFails, FlushEnds, Emit, EventSent, EventFails, EventParked, EventLost, Replays, List,
   Resend, ResendFails, Forget, ForgetFails, ReplayEnds, Configure, Die

\* ClickHouse gets a row once, so that the views that sum rows are right, unless
\* a reply was lost, two replays met, or one could not forget what it had sent:
\* for any number of requests, tables, replays and faults.
THEOREM RowsOnce == Spec => []OnceEach
<1>1. Init => OnceInv
  <2> SUFFICES ASSUME Init PROVE OnceInv
    OBVIOUS
  <2>1. Queued = {} /\ buf = {} /\ Distinct(queue) /\ \A e \in Events : post[e] = "idle"
    BY EmptyElements DEF Init, Queued
  <2>2. \A b \in Batches : ~Held(b) /\ \A a \in Admins : ~Busy(a, b) /\ b \notin replay[a].todo
    BY NoneAssumption DEF Init, Held, Busy, Idle
  <2>3. \A f \in Facts : dw[f] = 0
    BY DEF Init
  <2>4. \A f \in Facts : Single(f)
    BY <2>2, <2>3 DEF Single, Fresh
  <2>5. QED
    BY <2>1, <2>4 DEF OnceInv, LineInv
<1>2. TypeOK /\ OnceInv /\ [Next]_vars => OnceInv'
  <2> SUFFICES ASSUME TypeOK, OnceInv, [Next]_vars PROVE OnceInv'
    OBVIOUS
  <2>1. ASSUME NEW f \in Facts, f \notin again' PROVE Single(f)'
    <3>1. Single(f) /\ LineInv
      BY <2>1, AgainGrows DEF OnceInv
    <3>2. QED
      BY <2>1, <3>1, ReplaySingle, ProcessSingle
  <2>2. QED
    BY <2>1, LineStep DEF OnceInv
<1>3. OnceInv => OnceEach
  BY DEF OnceInv, Single, OnceEach
<1>4. QED
  BY <1>1, <1>2, <1>3, TypeCorrect, PTL DEF Spec
=============================================================================
