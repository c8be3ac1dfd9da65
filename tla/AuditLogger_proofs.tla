------------------------- MODULE AuditLogger_proofs -------------------------
(***************************************************************************)
(* Proofs about AuditLogger for every set of records, queue size and number  *)
(* of faults, with and without a fallback file.                            *)
(***************************************************************************)
EXTENDS AuditLogger, TLAPS

-----------------------------------------------------------------------------
(* What the operations on a queue do to the set of its elements.           *)

\* No value twice in a queue.
Distinct(s) == \A i, j \in 1..Len(s) : s[i] = s[j] => i = j

\* Taking the head.
LEMMA TailElements ==
  ASSUME NEW S, NEW s \in Seq(S), s # <<>>
  PROVE  /\ Head(s) \in S /\ Tail(s) \in Seq(S) /\ Len(Tail(s)) = Len(s) - 1
         /\ Range(s) = Range(Tail(s)) \cup {Head(s)}
         /\ Distinct(s) => Head(s) \notin Range(Tail(s)) /\ Distinct(Tail(s))
<1>1. /\ Head(s) \in S /\ Head(s) = s[1] /\ Len(s) \in Nat \ {0}
      /\ Tail(s) \in Seq(S) /\ Len(Tail(s)) = Len(s) - 1
  OBVIOUS
<1>2. \A i \in 1..Len(Tail(s)) : Tail(s)[i] = s[i + 1] /\ i + 1 \in 1..Len(s)
  BY <1>1
<1>3. Range(Tail(s)) \cup {Head(s)} \subseteq Range(s)
  BY <1>1, <1>2 DEF Range
<1>4. ASSUME NEW i \in 1..Len(s) PROVE s[i] \in Range(Tail(s)) \cup {Head(s)}
  <2>1. CASE i = 1
    BY <2>1, <1>1
  <2>2. CASE i # 1
    <3>1. i - 1 \in DOMAIN Tail(s) /\ Tail(s)[i - 1] = s[i]
      BY <2>2, <1>1, <1>2
    <3>2. QED
      BY <3>1 DEF Range
  <2>3. QED
    BY <2>1, <2>2
<1>5. Distinct(s) => Head(s) \notin Range(Tail(s)) /\ Distinct(Tail(s))
  BY <1>1, <1>2 DEF Distinct, Range
<1>6. QED
  BY <1>1, <1>3, <1>4, <1>5 DEF Range

\* Adding an element.
LEMMA AppendElements ==
  ASSUME NEW S, NEW s \in Seq(S), NEW e \in S
  PROVE  /\ Append(s, e) \in Seq(S) /\ Len(Append(s, e)) = Len(s) + 1
         /\ Range(Append(s, e)) = Range(s) \cup {e}
         /\ Distinct(s) /\ e \notin Range(s) => Distinct(Append(s, e))
<1>1. /\ Append(s, e) \in Seq(S) /\ Len(Append(s, e)) = Len(s) + 1 /\ Len(s) \in Nat
      /\ Append(s, e)[Len(s) + 1] = e
      /\ \A i \in 1..Len(s) : Append(s, e)[i] = s[i]
  OBVIOUS
<1>2. 1..(Len(s) + 1) = 1..Len(s) \cup {Len(s) + 1}
  BY <1>1
<1>3. Range(Append(s, e)) = Range(s) \cup {e}
  BY <1>1, <1>2 DEF Range
<1>4. Distinct(s) /\ e \notin Range(s) => Distinct(Append(s, e))
  BY <1>1, <1>2 DEF Range, Distinct
<1>5. QED
  BY <1>1, <1>3, <1>4

\* It has no elements.
LEMMA EmptyElements == Range(<<>>) = {} /\ Distinct(<<>>)
  BY DEF Range, Distinct

USE RecordsAssumption, QueueSizeAssumption

-----------------------------------------------------------------------------
\* The type invariant of AuditLogger.
THEOREM TypeCorrect == Spec => []TypeOK
<1>1. Init => TypeOK
  BY DEF Init, TypeOK
<1>2. TypeOK /\ [Next]_vars => TypeOK'
  <2> SUFFICES ASSUME TypeOK, [Next]_vars PROVE TypeOK'
    OBVIOUS
  <2> USE DEF TypeOK, Lines, life, writer, counters, disk, replay, history
  <2>1. ASSUME NEW r \in Records, Begin(r) PROVE TypeOK'
    BY <2>1 DEF Begin
  <2>2. ASSUME NEW r \in Records, Enqueue(r) PROVE TypeOK'
    <3>1. ch' \in Seq(Records) /\ Len(ch') <= QueueSize
      <4>1. CASE ch' = ch
        BY <4>1
      <4>2. CASE Len(ch) < QueueSize /\ ch' = Append(ch, r)
        BY <4>2, AppendElements
      <4>3. QED
        BY <2>2, <4>1, <4>2 DEF Enqueue, Room
    <3>2. QED
      BY <2>2, <3>1 DEF Enqueue
  <2>3. CASE Take
    BY <2>3, TailElements DEF Take
  <2>4. CASE Insert
    BY <2>4 DEF Insert, InsertOK, InsertError
  <2>5. CASE WriteFallback
    BY <2>5 DEF WriteFallback, SpillNowhere, Spill, SpillError, Held, Appended
  <2>6. CASE ReplayOpen
    BY <2>6 DEF ReplayOpen
  <2>7. CASE ReplayStep
    BY <2>7 DEF ReplayStep, Visit, ReplayImport, ReplayKeep, ReplayKeepError,
                ReplayKeepBad, ReplayAbort, ReplayRemove, ReplayRename,
                ReplayRenameError, Appended
  <2>8. CASE Signal \/ Stop \/ TakeDone \/ WriterReturn \/ Exit
    BY <2>8 DEF Signal, Stop, TakeDone, WriterReturn, Exit
  <2>9. CASE Die
    BY <2>9 DEF Die, InFlight
  <2>10. CASE Restart
    BY <2>10 DEF Restart
  <2>11. CASE UNCHANGED vars
    BY <2>11 DEF vars
  <2>12. QED
    BY <2>1, <2>2, <2>3, <2>4, <2>5, <2>6, <2>7, <2>8, <2>9, <2>10, <2>11
       DEF Next, Crash, ShutdownTimeout
<1>3. QED
  BY <1>1, <1>2, PTL DEF Spec
-----------------------------------------------------------------------------
\* The strengthening that makes NothingVanishes inductive.  The writer holds
\* nothing once it has stopped, a drain runs without requests or replays; a
\* record is in one place of the queue, the file or the .tmp file only; a replay
\* has moved or kept what it visited.

WriterInv ==
  /\ wpc = "stopped" => ch = <<>> /\ proc \notin {"serving", "stopping"}
  /\ proc = "exited" => wpc = "stopped"
  /\ proc \in {"draining", "exited"} => InFlight = {} /\ rpc = "idle"

PlaceInv ==
  /\ refused \subseteq Logged
  /\ Distinct(ch) /\ cur \notin Range(ch)
  /\ requestLogs \cup Range(ch) \cup Held \subseteq Accepted
  /\ (file \cup tmp) \cap Records \subseteq Accepted
  /\ (Range(ch) \cup Held) \cap (file \cup tmp) = {}

ReplayInv ==
  /\ rpc = "scan" =>
       /\ todo \cap Records \subseteq file /\ tmp \cap Records \subseteq file
       /\ file \cap Records \subseteq todo \cup requestLogs \cup tmp \cup hit
  /\ rpc = "swap" => file = {}

FaultInv == hit # {} \/ TornLine \in file \cup tmp => faults > 0 \/ ~hasFallback

IInv == WriterInv /\ PlaceInv /\ ReplayInv /\ FaultInv /\ NothingVanishes

\* The invariant NothingVanishes rests on is inductive.
THEOREM Safety == Spec => []IInv
<1>1. Init => IInv
  BY EmptyElements DEF Init, IInv, WriterInv, PlaceInv, ReplayInv, FaultInv,
     NothingVanishes, Accepted, Logged, Held, Alive, InFlight
<1>2. TypeOK /\ TypeOK' /\ IInv /\ [Next]_vars => IInv'
  <2> SUFFICES ASSUME TypeOK, TypeOK', IInv, [Next]_vars PROVE IInv'
    OBVIOUS
  <2> USE DEF TypeOK, Lines, life, writer, counters, disk, replay, history,
          IInv, WriterInv, PlaceInv, ReplayInv, FaultInv, NothingVanishes, Kept,
          InMemory, InFile, Accepted, Logged, Held, Alive, InFlight
  <2>1. ASSUME NEW r \in Records, Begin(r) PROVE IInv'
    BY <2>1 DEF Begin
  <2>2. ASSUME NEW r \in Records, Enqueue(r) PROVE IInv'
    <3>1. CASE Len(ch) < QueueSize
      <4>1. r \notin Range(ch) /\ r \notin refused
        BY <2>2 DEF Enqueue, Room
      <4>2. ch' = Append(ch, r) /\ refused' = refused
        BY <2>2, <3>1 DEF Enqueue, Room
      <4>3. Range(ch') = Range(ch) \cup {r} /\ Distinct(ch')
        BY <4>1, <4>2, AppendElements
      <4>4. QED
        BY <2>2, <4>1, <4>2, <4>3 DEF Enqueue, Room
    <3>2. CASE ~(Len(ch) < QueueSize)
      BY <2>2, <3>2 DEF Enqueue, Room
    <3>3. QED
      BY <3>1, <3>2
  <2>3. CASE Take
    BY <2>3, TailElements DEF Take
  <2>4. CASE Insert
    BY <2>4 DEF Insert, InsertOK, InsertError
  <2>5. CASE WriteFallback
    BY <2>5 DEF WriteFallback, SpillNowhere, Spill, SpillError, Appended
  <2>6. CASE ReplayOpen
    BY <2>6 DEF ReplayOpen
  <2>7. CASE ReplayStep
    <3>1. ASSUME NEW r \in Records, ReplayImport(r) PROVE IInv'
      BY <3>1 DEF ReplayImport, Visit
    <3>2. ASSUME NEW r \in Records, ReplayKeep(r) PROVE IInv'
      BY <3>2 DEF ReplayKeep, Visit, Appended
    <3>3. ASSUME NEW line \in Lines, ReplayKeepError(line) PROVE IInv'
      BY <3>3 DEF ReplayKeepError, Visit
    <3>4. CASE ReplayKeepBad
      BY <3>4 DEF ReplayKeepBad, Visit, Appended
    <3>5. CASE ReplayAbort
      BY <3>5 DEF ReplayAbort
    <3>6. CASE ReplayRemove
      BY <3>6 DEF ReplayRemove
    <3>7. CASE ReplayRename
      BY <3>7 DEF ReplayRename
    <3>8. CASE ReplayRenameError
      BY <3>8 DEF ReplayRenameError
    <3>9. QED
      BY <2>7, <3>1, <3>2, <3>3, <3>4, <3>5, <3>6, <3>7, <3>8 DEF ReplayStep
  <2>8. CASE Signal \/ Stop \/ TakeDone \/ WriterReturn \/ Exit
    BY <2>8, EmptyElements DEF Signal, Stop, TakeDone, WriterReturn, Exit
  <2>9. CASE Die
    BY <2>9 DEF Die
  <2>10. CASE Restart
    BY <2>10, EmptyElements DEF Restart
  <2>11. CASE UNCHANGED vars
    BY <2>11 DEF vars
  <2>12. QED
    BY <2>1, <2>2, <2>3, <2>4, <2>5, <2>6, <2>7, <2>8, <2>9, <2>10, <2>11
       DEF Next, Crash, ShutdownTimeout
<1>3. QED
  BY <1>1, <1>2, TypeCorrect, PTL DEF Spec

\* An accepted record takes a fault, or a missing fallback path, to get lost.
THEOREM NoRecordVanishes == Spec => []NothingVanishes
<1>1. IInv => NothingVanishes
  BY DEF IInv
<1>2. QED
  BY <1>1, Safety, PTL

\* The counters of /metrics account for every Enqueue.
THEOREM CountersAreExact == Spec => []CountersAddUp
<1>1. Init => CountersAddUp
  BY DEF Init, CountersAddUp
<1>2. TypeOK /\ CountersAddUp /\ [Next]_vars => CountersAddUp'
  <2> SUFFICES ASSUME TypeOK, CountersAddUp, [Next]_vars PROVE CountersAddUp'
    OBVIOUS
  <2> USE DEF TypeOK, life, writer, counters, disk, replay, history, CountersAddUp,
          Alive
  <2>1. ASSUME NEW r \in Records, Begin(r) PROVE CountersAddUp'
    BY <2>1 DEF Begin
  <2>2. ASSUME NEW r \in Records, Enqueue(r) PROVE CountersAddUp'
    <3>1. CASE Len(ch) < QueueSize
      <4>1. ch' = Append(ch, r) /\ dropped' = dropped
        BY <2>2, <3>1 DEF Enqueue, Room
      <4>2. Len(ch') = Len(ch) + 1 /\ Len(ch) \in Nat
        BY <4>1, AppendElements
      <4>3. /\ enqueues' = enqueues + 1 /\ written' = written /\ failed' = failed
            /\ proc' = proc /\ wpc' = wpc
        BY <2>2 DEF Enqueue
      <4>4. QED
        BY <4>1, <4>2, <4>3
    <3>2. CASE ~(Len(ch) < QueueSize)
      <4>1. ch' = ch /\ dropped' = dropped + 1
        BY <2>2, <3>2 DEF Enqueue, Room
      <4>2. Len(ch) \in Nat
        OBVIOUS
      <4>3. /\ enqueues' = enqueues + 1 /\ written' = written /\ failed' = failed
            /\ proc' = proc /\ wpc' = wpc
        BY <2>2 DEF Enqueue
      <4>4. QED
        BY <4>1, <4>2, <4>3
    <3>3. QED
      BY <3>1, <3>2
  <2>3. CASE Take
    BY <2>3, TailElements DEF Take
  <2>4. CASE Insert
    BY <2>4 DEF Insert, InsertOK, InsertError
  <2>5. CASE WriteFallback
    BY <2>5 DEF WriteFallback, SpillNowhere, Spill, SpillError
  <2>6. CASE ReplayOpen \/ ReplayStep
    BY <2>6 DEF ReplayOpen, ReplayStep, ReplayImport, ReplayKeep, ReplayKeepError,
                ReplayKeepBad, ReplayAbort, ReplayRemove, ReplayRename,
                ReplayRenameError
  <2>7. CASE Signal \/ Stop \/ TakeDone \/ WriterReturn \/ Exit
    BY <2>7 DEF Signal, Stop, TakeDone, WriterReturn, Exit
  <2>8. CASE Die
    BY <2>8 DEF Die
  <2>9. CASE Restart
    BY <2>9 DEF Restart
  <2>10. CASE UNCHANGED vars
    BY <2>10 DEF vars
  <2>11. QED
    BY <2>1, <2>2, <2>3, <2>4, <2>5, <2>6, <2>7, <2>8, <2>9, <2>10
       DEF Next, Crash, ShutdownTimeout
<1>3. QED
  BY <1>1, <1>2, TypeCorrect, PTL DEF Spec
-----------------------------------------------------------------------------
\* A step that changes the status of one record is the ledger's own move.
LEMMA OneMove ==
  ASSUME NEW r \in Records, hit' = hit,
         \A q \in Records : q # r => status'[q] = status[q],
         <<status[r], status'[r]>> \in
           {<<"unlogged", "queued">>, <<"unlogged", "dropped">>, <<"queued", "spilled">>,
            <<"queued", "stored">>, <<"spilled", "stored">>}
  PROVE  Ledger!Next
<1>1. status' = [status EXCEPT ![r] = status'[r]]
  BY DEF status
<1>2. QED
  BY <1>1 DEF Ledger!Next, Ledger!Accept, Ledger!Drop, Ledger!Spill, Ledger!Store,
              Ledger!Move

\* Nothing a record's status depends on has changed for any record.
LEMMA NoMove ==
  ASSUME \A q \in Records : status'[q] = status[q], hit' = hit
  PROVE  UNCHANGED <<status, hit>>
<1>1. status' = status
  BY DEF status
<1>2. QED
  BY <1>1

\* A step that loses only records a fault has hit is the ledger's fault.
LEMMA FaultMove ==
  ASSUME TypeOK', hit \subseteq hit',
         \A q \in Records : \/ status'[q] = status[q]
                            \/ /\ q \in hit' /\ status[q] \in {"queued", "spilled"}
                               /\ status'[q] = "lost"
  PROVE  Ledger!Next
<1>1. hit' \in SUBSET Records /\ hit' = hit \cup hit'
  BY DEF TypeOK
<1>2. status' \in [Records -> Ledger!Status]
  BY DEF status, Ledger!Status
<1>3. QED
  BY <1>1, <1>2 DEF Ledger!Next, Ledger!Fault

\* Every step of the logger is a step of the ledger or leaves it alone.
THEOREM ImplementsLedger == Spec => LedgerSpec
<1>1. Init => Ledger!Init
  BY DEF Init, Ledger!Init, status, Logged
<1>2. TypeOK /\ TypeOK' /\ IInv /\ IInv' /\ [Next]_vars
        => [Ledger!Next]_<<status, hit>>
  <2> SUFFICES ASSUME TypeOK, TypeOK', IInv, IInv', [Next]_vars
               PROVE  Ledger!Next \/ UNCHANGED <<status, hit>>
    OBVIOUS
  <2> DEFINE Goal == Ledger!Next \/ UNCHANGED <<status, hit>>
             Same(S) == \A q \in Records \ S : status'[q] = status[q]
             Lossy == \A q \in Records :
                        \/ status'[q] = status[q]
                        \/ /\ q \in hit' /\ status[q] \in {"queued", "spilled"}
                           /\ status'[q] = "lost"
  <2> USE DEF TypeOK, Lines, life, writer, counters, disk, replay, history, IInv,
          WriterInv, PlaceInv, ReplayInv, InMemory, InFile, Accepted, Logged, Held,
          Alive, InFlight, status
  <2> HIDE DEF Goal
  <2>1. ASSUME NEW r \in Records, Begin(r) PROVE Goal
    <3>1. Same({}) /\ hit' = hit
      BY <2>1 DEF Begin
    <3>2. QED
      BY <3>1, NoMove DEF Goal
  <2>2. ASSUME NEW r \in Records, Enqueue(r) PROVE Goal
    <3>1. hit' = hit /\ status[r] = "unlogged"
      BY <2>2 DEF Enqueue, Room
    <3>2. CASE Len(ch) < QueueSize
      <4>1. ch' = Append(ch, r) /\ refused' = refused
        BY <2>2, <3>2 DEF Enqueue, Room
      <4>2. Range(ch') = Range(ch) \cup {r}
        BY <4>1, AppendElements
      <4>3. Same({r}) /\ status'[r] = "queued"
        BY <2>2, <4>1, <4>2 DEF Enqueue, Room
      <4>4. QED
        BY <3>1, <4>3, OneMove DEF Goal
    <3>3. CASE ~(Len(ch) < QueueSize)
      <4>1. Same({r}) /\ status'[r] = "dropped"
        BY <2>2, <3>3 DEF Enqueue, Room
      <4>2. QED
        BY <3>1, <4>1, OneMove DEF Goal
    <3>4. QED
      BY <3>2, <3>3
  <2>3. CASE Take
    <3>1. Range(ch) \cup Held = Range(ch') \cup Held'
      BY <2>3, TailElements DEF Take
    <3>2. Same({}) /\ hit' = hit
      BY <2>3, <3>1 DEF Take
    <3>3. QED
      BY <3>2, NoMove DEF Goal
  <2>4. CASE Insert
    <3>1. /\ cur \in Records /\ hit' = hit /\ Same({cur})
          /\ status[cur] \in {"queued", "stored"} /\ status'[cur] \in {status[cur], "stored"}
      BY <2>4 DEF Insert, InsertOK, InsertError
    <3>2. QED
      BY <3>1, OneMove, NoMove DEF Goal
  <2>5. CASE WriteFallback
    <3>1. CASE Spill /\ TornLine \notin file
      <4>1. /\ cur \in Records /\ hit' = hit /\ Same({cur})
            /\ status[cur] \in {"queued", "stored"}
            /\ status'[cur] = IF status[cur] = "queued" THEN "spilled" ELSE "stored"
        BY <3>1 DEF Spill, Appended
      <4>2. QED
        BY <4>1, OneMove, NoMove DEF Goal
    <3>2. CASE ~(Spill /\ TornLine \notin file)
      <4>1. Lossy /\ hit \subseteq hit'
        BY <2>5, <3>2 DEF WriteFallback, SpillNowhere, Spill, SpillError, Appended
      <4>2. QED
        BY <4>1, FaultMove DEF Goal
    <3>3. QED
      BY <3>1, <3>2
  <2>6. CASE ReplayOpen
    <3>1. Same({}) /\ hit' = hit
      BY <2>6 DEF ReplayOpen
    <3>2. QED
      BY <3>1, NoMove DEF Goal
  <2>7. CASE ReplayStep
    <3>1. ASSUME NEW r \in Records, ReplayImport(r) \/ ReplayKeep(r), hit' = hit PROVE Goal
      <4>1. /\ Same({r}) /\ status[r] \in {"spilled", "stored"}
            /\ status'[r] \in {status[r], "stored"}
        BY <3>1 DEF ReplayImport, ReplayKeep, Visit, Appended
      <4>2. QED
        BY <3>1, <4>1, OneMove, NoMove DEF Goal
    <3>2. ASSUME NEW r \in Records, ReplayKeep(r), hit' # hit PROVE Goal
      <4>1. Lossy /\ hit \subseteq hit'
        BY <3>2 DEF ReplayKeep, Visit, Appended
      <4>2. QED
        BY <4>1, FaultMove DEF Goal
    <3>3. ASSUME NEW line \in Lines, ReplayKeepError(line) PROVE Goal
      <4>1. CASE requestLogs' = requestLogs
        <5>1. Lossy /\ hit \subseteq hit'
          BY <3>3, <4>1 DEF ReplayKeepError, Visit
        <5>2. QED
          BY <5>1, FaultMove DEF Goal
      <4>2. CASE requestLogs' # requestLogs
        <5>1. line \in Records /\ requestLogs' = requestLogs \cup {line} /\ hit' = hit
          <6>1. requestLogs' = requestLogs \cup ({line} \cap Records)
            BY <3>3, <4>2 DEF ReplayKeepError
          <6>2. line \in Records
            BY <4>2, <6>1
          <6>3. ({line} \cap Records) \ requestLogs' = {}
            BY <6>1
          <6>4. hit' = hit
            BY <3>3, <6>3 DEF ReplayKeepError
          <6>5. {line} \cap Records = {line}
            BY <6>2
          <6>6. QED
            BY <6>1, <6>2, <6>4, <6>5
        <5>2. Same({line}) /\ status[line] = "spilled" /\ status'[line] = "stored"
          BY <3>3, <4>2, <5>1 DEF ReplayKeepError, Visit
        <5>3. QED
          BY <5>1, <5>2, OneMove DEF Goal
      <4>3. QED
        BY <4>1, <4>2
    <3>4. CASE ReplayKeepBad \/ ReplayAbort \/ ReplayRename
      <4>1. Same({}) /\ hit' = hit
        BY <3>4 DEF ReplayKeepBad, Visit, Appended, ReplayAbort, ReplayRename
      <4>2. QED
        BY <4>1, NoMove DEF Goal
    <3>5. CASE ReplayRemove \/ ReplayRenameError
      <4>1. Lossy /\ hit \subseteq hit'
        BY <3>5 DEF ReplayRemove, ReplayRenameError
      <4>2. QED
        BY <4>1, FaultMove DEF Goal
    <3>6. QED
      BY <2>7, <3>1, <3>2, <3>3, <3>4, <3>5 DEF ReplayStep, ReplayImport, Goal
  <2>8. CASE Signal \/ Stop \/ TakeDone \/ WriterReturn \/ Exit
    <3>1. Same({}) /\ hit' = hit
      BY <2>8, EmptyElements DEF Signal, Stop, TakeDone, WriterReturn, Exit
    <3>2. QED
      BY <3>1, NoMove DEF Goal
  <2>9. CASE Die
    <3>1. Lossy /\ hit \subseteq hit'
      BY <2>9 DEF Die
    <3>2. QED
      BY <3>1, FaultMove DEF Goal
  <2>10. CASE Restart
    <3>1. Same({}) /\ hit' = hit
      BY <2>10, EmptyElements DEF Restart
    <3>2. QED
      BY <3>1, NoMove DEF Goal
  <2>11. CASE UNCHANGED vars
    <3>1. Same({}) /\ hit' = hit
      BY <2>11 DEF vars
    <3>2. QED
      BY <3>1, NoMove DEF Goal
  <2>12. QED
    BY <2>1, <2>2, <2>3, <2>4, <2>5, <2>6, <2>7, <2>8, <2>9, <2>10, <2>11
       DEF Next, Crash, ShutdownTimeout, Goal
<1>3. QED
  BY <1>1, <1>2, TypeCorrect, Safety, PTL DEF Spec, LedgerSpec, Ledger!Spec
=============================================================================
