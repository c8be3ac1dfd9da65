----------------------- MODULE AgentCollector_proofs -----------------------
(***************************************************************************)
(* Proofs about AgentCollector for every set of objects, queue size, batch *)
(* size and number of writes and faults.                                   *)
(***************************************************************************)
EXTENDS AgentCollector, TLAPS, FiniteSetTheorems

-----------------------------------------------------------------------------
(* What the operations on a queue do to the set of its elements.           *)

\* Taking the head.
LEMMA TailElements ==
  ASSUME NEW S, NEW s \in Seq(S), s # <<>>
  PROVE  /\ Head(s) \in S /\ Tail(s) \in Seq(S) /\ Len(Tail(s)) = Len(s) - 1
         /\ Range(s) = Range(Tail(s)) \cup {Head(s)}
<1>1. /\ Head(s) \in S /\ Head(s) = s[1] /\ Len(s) \in Nat \ {0}
      /\ Tail(s) \in Seq(S) /\ Len(Tail(s)) = Len(s) - 1
  OBVIOUS
<1>2. \A i \in 1..Len(Tail(s)) : Tail(s)[i] = s[i + 1] /\ i + 1 \in 1..Len(s)
  BY <1>1
<1>3. Range(Tail(s)) \cup {Head(s)} \subseteq Range(s)
  BY <1>1, <1>2 DEF Range
<1>4. ASSUME NEW i \in 1..Len(s) PROVE s[i] \in Range(Tail(s)) \cup {Head(s)}
  <2>1. CASE i = 1
    BY <2>1, <1>1
  <2>2. CASE i # 1
    <3>1. i - 1 \in DOMAIN Tail(s) /\ Tail(s)[i - 1] = s[i]
      BY <2>2, <1>1, <1>2
    <3>2. QED
      BY <3>1 DEF Range
  <2>3. QED
    BY <2>1, <2>2
<1>5. QED
  BY <1>1, <1>3, <1>4 DEF Range

\* Adding an element.
LEMMA AppendElements ==
  ASSUME NEW S, NEW s \in Seq(S), NEW e \in S
  PROVE  /\ Append(s, e) \in Seq(S) /\ Len(Append(s, e)) = Len(s) + 1
         /\ Range(Append(s, e)) = Range(s) \cup {e}
<1>1. /\ Append(s, e) \in Seq(S) /\ Len(Append(s, e)) = Len(s) + 1 /\ Len(s) \in Nat
      /\ Append(s, e)[Len(s) + 1] = e
      /\ \A i \in 1..Len(s) : Append(s, e)[i] = s[i]
  OBVIOUS
<1>2. 1..(Len(s) + 1) = 1..Len(s) \cup {Len(s) + 1}
  BY <1>1
<1>3. Range(Append(s, e)) = Range(s) \cup {e}
  BY <1>1, <1>2 DEF Range
<1>4. QED
  BY <1>1, <1>3

\* The empty queue.
LEMMA EmptyQueue == ASSUME NEW S PROVE <<>> \in Seq(S) /\ Len(<<>>) = 0
  OBVIOUS

\* It has no elements.
LEMMA EmptyElements == Range(<<>>) = {}
  BY DEF Range

\* A part of a queue.
LEMMA PartElements ==
  ASSUME NEW S, NEW s \in Seq(S), NEW m \in 1..(Len(s) + 1), NEW n \in 0..Len(s)
  PROVE  /\ SubSeq(s, m, n) \in Seq(S)
         /\ DOMAIN SubSeq(s, m, n) = 1..(n - m + 1)
         /\ \A i \in 1..(n - m + 1) : SubSeq(s, m, n)[i] = s[m + i - 1]
<1>1. SubSeq(s, m, n) = [i \in 1..(n - m + 1) |-> s[i + m - 1]]
  OBVIOUS
<1>2. Len(s) \in Nat /\ m \in Nat \ {0} /\ n \in Nat
  OBVIOUS
<1>3. \A i \in 1..(n - m + 1) : i + m - 1 \in 1..Len(s) /\ i + m - 1 = m + i - 1
  BY <1>2
<1>4. \A i \in 1..(n - m + 1) : s[i + m - 1] \in S
  BY <1>3
<1>5. \A i \in 1..(n - m + 1) : SubSeq(s, m, n)[i] = s[m + i - 1]
  BY <1>1, <1>3
<1>6. DOMAIN SubSeq(s, m, n) = 1..(n - m + 1)
  BY <1>1
<1>7. SubSeq(s, m, n) \in Seq(S)
  BY <1>1, <1>2, <1>4
<1>8. QED
  BY <1>5, <1>6, <1>7

USE ObjectsAssumption, QueueAssumption

-----------------------------------------------------------------------------
\* The items of a list are events of objects that exist.
LEMMA ListingType ==
  ASSUME TypeOK, NEW f \in Orders
  PROVE  /\ Listing(f) \in Seq(Event)
         /\ LastRV(Listing(f)) \in 0..Len(log)
<1>0. Len(log) \in Nat
  BY DEF TypeOK, ClusterType, WatcherType, FlusherType
<1>1. Exists \subseteq Objects /\ Cardinality(Exists) \in Nat
  BY FS_Subset, FS_CardinalityType DEF Exists
<1>2. f \in [1..Cardinality(Exists) -> Exists]
  BY DEF Orders
<1>3. \A i \in 1..Cardinality(Exists) : live[f[i]] \in 0..Len(log)
  BY <1>1, <1>2 DEF TypeOK, ClusterType, WatcherType, FlusherType
<1>4. \A i \in 1..Cardinality(Exists) :
        [rv |-> live[f[i]], type |-> "ADDED", obj |-> f[i]] \in Event
  <2> TAKE i \in 1..Cardinality(Exists)
  <2>1. f[i] \in Objects
    BY <1>1, <1>2
  <2>2. live[f[i]] \in 0..Len(log)
    BY <1>3
  <2>3. live[f[i]] \in Nat
    BY <2>2, <1>0
  <2>4. QED
    BY <2>1, <2>3 DEF Event, Types
<1>5. /\ Listing(f) \in [1..Cardinality(Exists) -> Event]
      /\ \A i \in 1..Cardinality(Exists) : Listing(f)[i].rv = live[f[i]]
  BY <1>2, <1>4 DEF Listing
<1>6. Listing(f) \in Seq(Event) /\ Len(Listing(f)) = Cardinality(Exists)
  BY <1>1, <1>5
<1>7. CASE Listing(f) = <<>>
  BY <1>6, <1>7 DEF LastRV, TypeOK, ClusterType
<1>8. CASE Listing(f) # <<>>
  <2>1. Len(Listing(f)) \in 1..Cardinality(Exists)
    BY <1>1, <1>6, <1>8
  <2>2. QED
    BY <2>1, <1>3, <1>5, <1>6, <1>8 DEF LastRV
<1>9. QED
  BY <1>6, <1>7, <1>8

\* The lines replayQueued has not sent.
LEMMA RemainingType ==
  ASSUME TypeOK
  PROVE  /\ Remaining \in Seq(Seq(Event)) /\ Len(Remaining) = Len(queue) - replayed
         /\ \A i \in 1..Len(Remaining) : Remaining[i] = queue[replayed + i]
<1>1. /\ queue \in Seq(Seq(Event)) /\ Len(queue) \in Nat /\ replayed \in 0..Len(queue)
      /\ replayed + 1 \in 1..(Len(queue) + 1) /\ Len(queue) \in 0..Len(queue)
  BY DEF TypeOK, FlusherType
<1>2. /\ Remaining \in Seq(Seq(Event)) /\ DOMAIN Remaining = 1..(Len(queue) - (replayed + 1) + 1)
      /\ \A i \in 1..(Len(queue) - (replayed + 1) + 1) : Remaining[i] = queue[replayed + 1 + i - 1]
  BY <1>1, PartElements DEF Remaining
<1>3. Len(queue) - (replayed + 1) + 1 = Len(queue) - replayed /\ Len(queue) - replayed \in Nat
  BY <1>1
<1>4. Len(Remaining) = Len(queue) - replayed
  BY <1>2, <1>3
<1>5. \A i \in 1..Len(Remaining) : replayed + 1 + i - 1 = replayed + i
  BY <1>1, <1>3, <1>4
<1>6. QED
  BY <1>2, <1>3, <1>4, <1>5

(* A queue with lines of q in their order, some of which are unreadable.   *)
Thinned(s, q) ==
  /\ s \in Seq(Seq(Event))
  /\ \E m \in 0..Len(q) : /\ Len(s) <= Len(q) - m
                          /\ \A i \in 1..Len(s) : s[i] \in {q[m + i], <<>>}

LEMMA ThinnedFrom ==
  ASSUME NEW q \in Seq(Seq(Event)), NEW s \in Seq(Seq(Event)), NEW m \in 0..Len(q),
         Len(s) <= Len(q) - m, \A i \in 1..Len(s) : s[i] \in {q[m + i], <<>>}
  PROVE  Thinned(s, q)
<1>1. \E k \in 0..Len(q) : Len(s) <= Len(q) - k /\ \A i \in 1..Len(s) : s[i] \in {q[k + i], <<>>}
  <2> WITNESS m \in 0..Len(q)
  <2> QED
    OBVIOUS
<1>2. QED
  BY <1>1 DEF Thinned

\* A queue is its own, and nothing is left of it when the file is gone; so it is
\* when its last line becomes unreadable.
LEMMA ThinnedSelf ==
  ASSUME NEW q \in Seq(Seq(Event))
  PROVE  Thinned(q, q) /\ Thinned(<<>>, q) /\ Thinned([q EXCEPT ![Len(q)] = <<>>], q)
<1>1. Len(q) \in Nat /\ DOMAIN q = 1..Len(q) /\ \A i \in 1..Len(q) : q[i] \in Seq(Event)
  OBVIOUS
<1>2. <<>> \in Seq(Seq(Event)) /\ Len(<<>>) = 0 /\ <<>> \in Seq(Event)
  BY EmptyQueue
<1>3. 0 \in 0..Len(q) /\ \A i \in 1..Len(q) : 0 + i = i
  BY <1>1
<1>4. Thinned(q, q)
  BY <1>1, <1>3, ThinnedFrom
<1>5. Thinned(<<>>, q)
  <2>1. PICK s \in Seq(Seq(Event)) : s = <<>> /\ Len(s) = 0
    BY <1>2
  <2>2. Len(s) <= Len(q) - 0 /\ \A i \in 1..Len(s) : s[i] \in {q[0 + i], <<>>}
    BY <1>1, <2>1
  <2>3. QED
    BY <1>3, <2>1, <2>2, ThinnedFrom
<1> DEFINE s == [q EXCEPT ![Len(q)] = <<>>]
<1>6. /\ s \in [1..Len(q) -> Seq(Event)] /\ DOMAIN s = 1..Len(q)
      /\ \A i \in 1..Len(q) : s[i] \in {q[i], <<>>}
  BY <1>1, <1>2
<1>7. s \in Seq(Seq(Event)) /\ Len(s) = Len(q)
  BY <1>1, <1>6
<1> HIDE DEF s
<1>8. Thinned(s, q)
  BY <1>1, <1>3, <1>6, <1>7, ThinnedFrom
<1>9. QED
  BY <1>4, <1>5, <1>8 DEF s

\* So is what a rewrite leaves, whole or cut short.
LEMMA RewriteThins ==
  ASSUME TypeOK, Rewritten \/ RewriteCut PROVE Thinned(queue', queue)
<1>1. queue \in Seq(Seq(Event)) /\ Len(queue) \in Nat /\ replayed \in 0..Len(queue)
  BY DEF TypeOK, FlusherType
<1>2. PICK rest : rest = Remaining
  OBVIOUS
<1>3. /\ rest \in Seq(Seq(Event)) /\ Len(rest) = Len(queue) - replayed /\ Len(rest) \in Nat
      /\ \A i \in 1..Len(rest) : rest[i] = queue[replayed + i]
  BY <1>2, RemainingType
<1>10. ASSUME NEW s \in Seq(Seq(Event)), Len(s) <= Len(rest),
              \A i \in 1..Len(s) : s[i] \in {queue[replayed + i], <<>>}
       PROVE  Thinned(s, queue)
  BY <1>1, <1>3, <1>10, ThinnedFrom
<1>4. CASE queue' = rest
  BY <1>3, <1>4, <1>10
<1>5. ASSUME NEW n \in 0..Len(rest)
      PROVE  /\ SubSeq(rest, 1, n) \in Seq(Seq(Event)) /\ Len(SubSeq(rest, 1, n)) = n
             /\ \A i \in 1..n : SubSeq(rest, 1, n)[i] = queue[replayed + i]
  <2>1. /\ SubSeq(rest, 1, n) \in Seq(Seq(Event)) /\ DOMAIN SubSeq(rest, 1, n) = 1..(n - 1 + 1)
        /\ \A i \in 1..(n - 1 + 1) : SubSeq(rest, 1, n)[i] = rest[1 + i - 1]
    BY <1>3, PartElements
  <2>2. n \in Nat /\ n - 1 + 1 = n /\ \A i \in 1..n : 1 + i - 1 = i /\ i \in 1..Len(rest)
    BY <1>3
  <2>3. QED
    BY <1>3, <2>1, <2>2
<1>6. ASSUME NEW n \in 0..Len(rest), queue' = SubSeq(rest, 1, n) PROVE Thinned(queue', queue)
  <2>1. PICK s : s = SubSeq(rest, 1, n)
    OBVIOUS
  <2>2. s \in Seq(Seq(Event)) /\ Len(s) = n /\ n <= Len(rest) /\ \A i \in 1..n : s[i] = queue[replayed + i]
    BY <1>3, <1>5, <2>1
  <2>3. QED
    BY <1>6, <1>10, <2>1, <2>2
<1>7. ASSUME NEW n \in 0..Len(rest), n < Len(rest), queue' = Append(SubSeq(rest, 1, n), <<>>)
      PROVE  Thinned(queue', queue)
  <2>1. PICK s : s = SubSeq(rest, 1, n)
    OBVIOUS
  <2>2. s \in Seq(Seq(Event)) /\ Len(s) = n /\ n \in Nat /\ \A i \in 1..n : s[i] = queue[replayed + i]
    BY <1>3, <1>5, <2>1
  <2>3. /\ queue' \in Seq(Seq(Event)) /\ Len(queue') = n + 1 /\ queue'[n + 1] = <<>>
        /\ \A i \in 1..n : queue'[i] = s[i]
    BY <1>7, <2>1, <2>2, EmptyQueue
  <2>4. \A i \in 1..(n + 1) : i \in 1..n \/ i = n + 1
    BY <2>2
  <2>5. \A i \in 1..Len(queue') : queue'[i] \in {queue[replayed + i], <<>>}
    BY <2>2, <2>3, <2>4
  <2>6. Len(queue') <= Len(rest)
    BY <1>3, <1>7, <2>2, <2>3
  <2>7. QED
    BY <1>10, <2>3, <2>5, <2>6
<1>8. CASE UNCHANGED queue
  BY <1>1, <1>8, ThinnedSelf
<1>9. QED
  BY <1>2, <1>4, <1>6, <1>7, <1>8 DEF Rewritten, RewriteCut

\* A step leaves lines of the queue, or adds the batch in hand, which may be
\* unreadable then.
LEMMA QueueStep ==
  ASSUME TypeOK, [Next]_vars
  PROVE  \/ Thinned(queue', queue)
         \/ (Spool \/ Crash) /\ \E b \in {batch, <<>>} : queue' = Append(queue, b)
<1>1. queue \in Seq(Seq(Event))
  BY DEF TypeOK, FlusherType
<1>2. CASE UNCHANGED queue \/ queue' = <<>>
  BY <1>1, <1>2, ThinnedSelf
<1>3. CASE Rewrite
  BY <1>3, RewriteThins DEF Rewrite
<1>4. ASSUME NEW b \in {batch, <<>>}, queue' = Joined(b), Spool \/ Crash
      PROVE  \/ Thinned(queue', queue)
             \/ (Spool \/ Crash) /\ \E c \in {batch, <<>>} : queue' = Append(queue, c)
  BY <1>1, <1>4, ThinnedSelf DEF Joined
<1>5. CASE Spool
  BY <1>2, <1>4, <1>5 DEF Spool, AppendCut
<1>6. CASE Crash
  <2>1. CASE UNCHANGED queue \/ RewriteCut
    BY <1>2, <2>1, RewriteThins
  <2>2. CASE AppendCut
    BY <1>2, <1>4, <1>6, <2>2 DEF AppendCut
  <2>3. QED
    BY <1>6, <2>1, <2>2 DEF Crash
<1>7. QED
  BY <1>2, <1>3, <1>5, <1>6 DEF Next, Watching, Flushing, vars, KubernetesWrite, Write, Compact, List,
     ListEnqueue, ListFail, ListDone, Connect, Expired, Disconnect, WatchRead, Bookmark, Send, Receive,
     Tick, Apply, ApplyTorn, PostError, PostOK, ClearQueue, Signal, FinalFlush, Exit, Replace, Restart

\* The queue remains one of lines.
LEMMA QueueType ==
  ASSUME TypeOK, [Next]_vars
  PROVE  queue' \in Seq(Seq(Event)) /\ Len(queue') \in Nat /\ open' \in BOOLEAN
<1>1. queue \in Seq(Seq(Event)) /\ batch \in Seq(Event) /\ <<>> \in Seq(Event) /\ open \in BOOLEAN
  BY EmptyQueue DEF TypeOK, FlusherType
<1>2. queue' \in Seq(Seq(Event))
  <2>1. ASSUME NEW b \in {batch, <<>>} PROVE Append(queue, b) \in Seq(Seq(Event))
    BY <1>1, AppendElements
  <2>2. QED
    BY <2>1, QueueStep DEF Thinned
<1>3. ASSUME UNCHANGED open \/ open' = TRUE \/ open' = FALSE PROVE open' \in BOOLEAN
  BY <1>1, <1>3
<1>4. ASSUME RewriteCut PROVE open' \in BOOLEAN
  BY <1>3, <1>4 DEF RewriteCut
<1>5. open' \in BOOLEAN
  BY <1>3, <1>4 DEF Next, Watching, Flushing, vars, KubernetesWrite, Write, Compact, List,
     ListEnqueue, ListFail, ListDone, Connect, Expired, Disconnect, WatchRead, Bookmark, Send, Receive,
     Tick, Apply, ApplyTorn, PostError, PostOK, ClearQueue, Rewrite, Rewritten, Spool, AppendCut, Signal,
     FinalFlush, Exit, Crash, Replace, Restart
<1>6. QED
  BY <1>2, <1>5
-----------------------------------------------------------------------------
\* Where the two loops stand: the watch loop holds the event of the version it
\* saved; a replay has a batch to send; an idle flush loop holds no batch.
Shape ==
  /\ wl = "send" => ckpt \in 1..Len(log) /\ Relevant(ckpt)
  /\ fpc = "replay" => replayed < Len(queue)
  /\ fpc = "idle" => batch = <<>>
  /\ alive = "down" => wl = "top" /\ fpc = "idle" /\ ch = <<>> /\ pending = <<>>

\* All that is on its way consists of events.
LEMMA ContentsType ==
  ASSUME TypeOK, Shape
  PROVE  /\ Memory \subseteq Event /\ Queued \subseteq Event
         /\ Hand # {} => wl = "send" /\ log[ckpt] \in Event
         /\ Posting => /\ Sending \in Seq(Event)
                       /\ pos < Len(Sending) => Sending[pos + 1] \in Event
<1>1. Hand # {} => wl = "send" /\ log[ckpt] \in Event
  <2>1. log \in Seq(Entry)
    BY DEF TypeOK, ClusterType, WatcherType, FlusherType
  <2>2. \A p \in 1..Len(log) : Relevant(p) => log[p] \in Event
    <3> TAKE p \in 1..Len(log)
    <3>1. log[p] \in Entry
      BY <2>1
    <3>2. /\ log[p] = [rv |-> log[p].rv, type |-> log[p].type, obj |-> log[p].obj]
          /\ log[p].rv \in Nat /\ log[p].type \in Types
      BY <3>1 DEF Entry
    <3>3. QED
      BY <3>2 DEF Relevant, Event
  <2>3. QED
    BY <2>2 DEF Hand, Shape
<1>2. Range(ch) \subseteq Event /\ Range(pending) \subseteq Event /\ Range(batch) \subseteq Event
  <2>1. ch \in Seq(Event) /\ pending \in Seq(Event) /\ batch \in Seq(Event)
    BY DEF TypeOK, ClusterType, WatcherType, FlusherType
  <2>2. QED
    BY <2>1 DEF Range
<1>3. /\ queue \in Seq(Seq(Event)) /\ batch \in Seq(Event)
      /\ replayed \in 0..Len(queue) /\ pos \in Nat
  BY DEF TypeOK, ClusterType, WatcherType, FlusherType
<1>4. \A i \in DOMAIN queue : queue[i] \in Seq(Event)
  BY <1>3
<1>5. Queued \subseteq Event
  <2>1. \A i \in DOMAIN queue : Range(queue[i]) \subseteq Event
    BY <1>4 DEF Range
  <2>2. QED
    BY <2>1 DEF Queued, Batched
<1>6. ASSUME Posting PROVE /\ Sending \in Seq(Event)
                           /\ pos < Len(Sending) => Sending[pos + 1] \in Event
  <2>1. Sending \in Seq(Event)
    <3>1. CASE fpc = "replay"
      <4>1. replayed + 1 \in DOMAIN queue
        BY <3>1, <1>3 DEF Shape
      <4>2. QED
        BY <3>1, <4>1, <1>4 DEF Sending
    <3>2. CASE fpc # "replay"
      BY <3>2, <1>3 DEF Sending
    <3>3. QED
      BY <3>1, <3>2
  <2>2. QED
    BY <2>1, <1>3
<1>7. QED
  BY <1>1, <1>2, <1>5, <1>6 DEF Memory, Hand
-----------------------------------------------------------------------------
\* Each part of the type invariant is kept by every step.
LEMMA SpendType == ASSUME BudgetType, NEW f \in Faults, Spend(f) PROVE BudgetType'
<1>1. budget[f] \in Nat /\ budget[f] > 0
  BY DEF BudgetType, Spend
<1>2. budget[f] - 1 \in Nat
  BY <1>1
<1>3. QED
  BY <1>2 DEF BudgetType, Spend

\* The cluster's log only grows.
LEMMA ClusterStep ==
  ASSUME ClusterType, [Next]_vars
  PROVE  /\ ClusterType' /\ Len(log) \in 0..Len(log')
         /\ \A p \in 1..Len(log) : log'[p] = log[p]
<1>1. CASE KubernetesWrite
  <2>1. PICK o \in Objects \cup {Other}, t \in Types : Write(o, t)
    BY <1>1 DEF KubernetesWrite, Types
  <2>2. [rv |-> Len(log) + 1, type |-> t, obj |-> o] \in Entry
    BY DEF Entry, ClusterType
  <2>3. /\ log' \in Seq(Entry) /\ Len(log') = Len(log) + 1 /\ Len(log) \in Nat
        /\ \A p \in 1..Len(log) : log'[p] = log[p]
    BY <2>1, <2>2 DEF Write, ClusterType
  <2>4. live' \in [Objects -> 0..Len(log')]
    BY <2>1, <2>3 DEF Write, ClusterType
  <2>5. QED
    BY <2>1, <2>3, <2>4 DEF Write, ClusterType
<1>2. CASE Compact
  BY <1>2 DEF Compact, ClusterType
<1>3. CASE UNCHANGED cluster
  BY <1>3 DEF cluster, ClusterType
<1>4. QED
  BY <1>1, <1>2, <1>3 DEF Next, Watching, Flushing, vars, List, ListEnqueue,
     ListFail, ListDone, Connect, Expired, Disconnect, WatchRead, Bookmark, Send,
     Receive, Tick, Apply, ApplyTorn, PostError, PostOK, ClearQueue, Rewrite,
     Spool, Signal, FinalFlush, Exit, Crash, Replace, Restart

\* A fault uses up one of its kind.
LEMMA BudgetStep == ASSUME BudgetType, [Next]_vars PROVE BudgetType'
<1>1. CASE UNCHANGED budget
  BY <1>1 DEF BudgetType
<1>2. CASE \E f \in Faults : Spend(f)
  BY <1>2, SpendType
<1>3. QED
  BY <1>1, <1>2 DEF Next, Watching, Flushing, vars, KubernetesWrite, Write,
     Compact, List, ListEnqueue, ListFail, ListDone, Connect, Expired, Disconnect,
     WatchRead, Bookmark, Send, Receive, Tick, Apply, ApplyTorn, PostError, PostOK,
     ClearQueue, Rewrite, Spool, Signal, FinalFlush, Exit, Crash, Replace, Restart,
     Faults

\* The watch loop and the channel.
LEMMA WatcherStep ==
  ASSUME TypeOK, Shape, [Next]_vars PROVE WatcherType'
<1>1. ClusterType' /\ Len(log) \in 0..Len(log') /\ Len(log) \in Nat
  BY ClusterStep DEF TypeOK, ClusterType
<1>0. <<>> \in Seq(Event) /\ Len(<<>>) = 0
  BY EmptyQueue
<1> USE DEF WatcherType, TypeOK
<1>2. CASE List
  <2>1. PICK f \in Orders : todo' = Listing(f)
    BY <1>2 DEF List
  <2>2. todo' \in Seq(Event) /\ lastRV' \in 0..Len(log)
    BY <1>2, <2>1, ListingType DEF List
  <2>3. QED
    BY <1>1, <1>2, <2>2 DEF List, cluster
<1>3. CASE ListEnqueue
  <2>1. /\ Head(todo) \in Event /\ Tail(todo) \in Seq(Event)
        /\ Len(ch) \in Nat /\ Len(ch) < QueueSize
    BY <1>3, TailElements DEF ListEnqueue
  <2>2. ch' \in Seq(Event) /\ Len(ch') <= QueueSize
    BY <1>3, <2>1, AppendElements DEF ListEnqueue
  <2>3. QED
    BY <1>3, <2>1, <2>2 DEF ListEnqueue, cluster
<1>4. CASE ListFail \/ ListDone
  BY <1>0, <1>4 DEF ListFail, ListDone, SavedRV, cluster
<1>5. CASE Connect \/ Expired \/ Disconnect \/ WatchRead \/ Bookmark
  BY <1>1, <1>5 DEF Connect, Expired, Disconnect, WatchRead, Bookmark, NextEvents, cluster
<1>6. CASE Send
  <2>1. log[ckpt] \in Event /\ Len(ch) \in Nat /\ Len(ch) < QueueSize
    BY <1>6, ContentsType DEF Send, Hand
  <2>2. ch' \in Seq(Event) /\ Len(ch') <= QueueSize
    BY <1>6, <2>1, AppendElements DEF Send
  <2>3. QED
    BY <1>6, <2>2 DEF Send, cluster
<1>7. CASE Receive
  BY <1>7, TailElements DEF Receive, cluster, watcher
<1>8. CASE Exit \/ Crash \/ Replace
  <2>1. wl' = "top" /\ todo' = <<>> /\ lastRV' = 0 /\ ch' = <<>> /\ ckpt' \in {0, ckpt}
    BY <1>8 DEF Exit, Crash, Replace, Gone
  <2>2. QED
    BY <1>0, <1>1, <2>1
<1>9. CASE UNCHANGED <<watcher, ch>>
  BY <1>1, <1>9 DEF watcher
<1>10. QED
  BY <1>2, <1>3, <1>4, <1>5, <1>6, <1>7, <1>8, <1>9 DEF Next, Watching, Flushing,
     vars, KubernetesWrite, Write, Compact, Tick, Apply, ApplyTorn, PostError,
     PostOK, ClearQueue, Rewrite, Spool, Signal, FinalFlush, Restart

\* The flush loop and the offline queue.
LEMMA FlusherStep ==
  ASSUME TypeOK, Shape, [Next]_vars PROVE FlusherType'
<1>0. <<>> \in Seq(Event) /\ <<>> \in Seq(Seq(Event)) /\ Len(<<>>) = 0
  BY EmptyQueue
<1>11. queue' \in Seq(Seq(Event)) /\ Len(queue') \in Nat /\ open' \in BOOLEAN
  BY QueueType
<1> USE DEF FlusherType, TypeOK
<1>1. CASE Receive
  <2>1. Head(ch) \in Event
    BY <1>1, TailElements DEF Receive, WatcherType
  <2>2. /\ Append(pending, Head(ch)) \in Seq(Event)
        /\ Len(Append(pending, Head(ch))) = Len(pending) + 1
    BY <2>1, AppendElements
  <2>3. /\ pending' \in Seq(Event) /\ Len(pending') < MaxBatch
        /\ batch' \in Seq(Event) /\ Len(batch') <= MaxBatch
    <3> DEFINE got == Append(pending, Head(ch))
    <3>1. CASE Full(got)
      <4>1. pending' = <<>> /\ batch' = got
        BY <1>1, <3>1 DEF Receive, Flush
      <4>2. QED
        BY <4>1, <1>0, <2>2
    <3>2. CASE ~Full(got)
      <4>1. pending' = got /\ batch' = batch
        BY <1>1, <3>2 DEF Receive
      <4>2. QED
        BY <4>1, <2>2, <3>2 DEF Full
    <3>3. QED
      BY <3>1, <3>2
  <2>4. queue' = queue /\ replayed' \in 0..Len(queue) /\ pos' \in Nat
    BY <1>1 DEF Receive, Flush
  <2>5. fpc' \in {"idle", "replay", "clear", "rewrite", "post", "spool"}
    BY <1>1 DEF Receive, Flush
  <2>6. QED
    BY <1>11, <2>3, <2>4, <2>5
<1>2. CASE Tick \/ FinalFlush
  <2>1. /\ pending' = <<>> /\ batch' = pending /\ queue' = queue
        /\ replayed' = 0 /\ pos' = 0 /\ fpc' \in {"post", "replay"}
    BY <1>2 DEF Tick, FinalFlush, Flush
  <2>2. QED
    BY <1>0, <1>11, <2>1
<1>3. CASE Apply \/ ApplyTorn \/ PostError
  BY <1>3, <1>11 DEF Apply, ApplyTorn, PostError, AfterError
<1>4. CASE PostOK
  <2>1. batch' \in {batch, <<>>} /\ pending' = pending /\ queue' = queue
    BY <1>4 DEF PostOK
  <2>2. replayed' \in 0..Len(queue)
    BY <1>4 DEF PostOK, Shape
  <2>3. pos' = 0 /\ fpc' \in {"idle", "clear", "replay"}
    BY <1>4 DEF PostOK
  <2>4. batch' \in Seq(Event) /\ Len(batch') <= MaxBatch
    <3>1. CASE batch' = batch
      BY <3>1
    <3>2. CASE batch' = <<>>
      BY <3>2, <1>0
    <3>3. QED
      BY <2>1, <3>1, <3>2
  <2>5. QED
    BY <1>11, <2>1, <2>2, <2>3, <2>4
<1>5. CASE ClearQueue
  <2>2. replayed' \in 0..Len(queue')
    BY <1>0, <1>5 DEF ClearQueue
  <2>3. fpc' \in {"idle", "replay", "clear", "rewrite", "post", "spool"}
    BY <1>0, <1>5 DEF ClearQueue
  <2>4. QED
    BY <1>0, <1>5, <1>11, <2>2, <2>3 DEF ClearQueue
<1>6. CASE Rewrite
  BY <1>6, <1>11 DEF Rewrite
<1>7. CASE Spool
  BY <1>0, <1>7, <1>11 DEF Spool
<1>8. CASE Exit \/ Crash \/ Replace
  <2>1. pending' = <<>> /\ batch' = <<>> /\ replayed' = 0 /\ pos' = 0 /\ fpc' = "idle"
    BY <1>8 DEF Exit, Crash, Replace, Gone
  <2>2. QED
    BY <1>0, <1>11, <2>1
<1>9. CASE UNCHANGED <<flusher, queue>>
  BY <1>9, <1>11 DEF flusher
<1>10. QED
  BY <1>1, <1>2, <1>3, <1>4, <1>5, <1>6, <1>7, <1>8, <1>9 DEF Next, Watching,
     Flushing, vars, KubernetesWrite, Write, Compact, List, ListEnqueue, ListFail,
     ListDone, Connect, Expired, Disconnect, WatchRead, Bookmark, Send, Signal, Restart

\* The server's event keys and inventory.
LEMMA ServerStep ==
  ASSUME TypeOK, Shape, [Next]_vars PROVE ServerType'
<1> USE DEF ServerType
<1>1. ServerType
  BY DEF TypeOK
<1>2. CASE Apply
  <2>1. Sending[pos + 1] \in Event
    BY <1>2, ContentsType DEF Apply
  <2>2. Sending[pos + 1].rv \in Nat
    BY <2>1 DEF Event
  <2>3. QED
    BY <1>1, <1>2, <2>1, <2>2 DEF Apply
<1>3. CASE ApplyTorn
  <2>1. Sending[pos + 1] \in Event
    BY <1>3, ContentsType DEF ApplyTorn
  <2>2. QED
    BY <1>1, <1>3, <2>1 DEF ApplyTorn
<1>4. CASE Replace
  BY <1>1, <1>4 DEF Replace
<1>5. CASE UNCHANGED server
  BY <1>1, <1>5 DEF server
<1>6. QED
  BY <1>2, <1>3, <1>4, <1>5 DEF Next, Watching, Flushing, vars, KubernetesWrite,
     Write, Compact, List, ListEnqueue, ListFail, ListDone, Connect, Expired,
     Disconnect, WatchRead, Bookmark, Send, Receive, Tick, PostError, PostOK,
     ClearQueue, Rewrite, Spool, Signal, FinalFlush, Exit, Crash, Restart, server

\* The process and the history variables.
LEMMA HistoryStep ==
  ASSUME TypeOK, Shape, [Next]_vars PROVE HistoryType'
<1> USE DEF HistoryType
<1>1. /\ HistoryType /\ lastRV \in 0..Len(log) /\ Len(log) \in Nat
      /\ Len(log) \in 0..Len(log')
  BY ClusterStep DEF TypeOK, ClusterType, WatcherType
<1>2. Memory \subseteq Event /\ Queued \subseteq Event
  BY ContentsType
<1>3. CASE List
  <2>1. Vanished \cup Repeated \cup Rewound(lastRV') \subseteq Objects
    BY DEF Vanished, Repeated, Rewound
  <2>2. /\ UNCHANGED <<log, alive, missed>> /\ base' = 0 /\ snap' = Len(log)
        /\ blurred' \subseteq blurred \cup Objects
    BY <1>3, <2>1 DEF List, cluster
  <2>3. QED
    BY <1>1, <2>2
<1>4. CASE ListDone
  BY <1>1, <1>4 DEF ListDone, cluster
<1>5. CASE ApplyTorn
  <2>1. Sending[pos + 1] \in Event
    BY <1>5, ContentsType DEF ApplyTorn
  <2>2. Sending[pos + 1].obj \in Objects
    BY <2>1 DEF Event
  <2>3. QED
    BY <1>1, <1>5, <2>2 DEF ApplyTorn, cluster
<1>6. CASE Rewrite
  BY <1>1, <1>2, <1>6 DEF Rewrite, Lost, cluster
<1>7. CASE Spool
  BY <1>1, <1>2, <1>7 DEF Spool, Lost, Memory, cluster
<1>8. CASE Exit \/ Crash \/ Replace
  <2>1. missed' \subseteq missed \cup Memory \cup Queued /\ blurred' = blurred
    BY <1>8 DEF Exit, Crash, Replace, Lost, Gone
  <2>2. base' \in {0, base} /\ snap' = snap /\ alive' = "down" /\ log' = log
    BY <1>8 DEF Exit, Crash, Replace, Gone, cluster
  <2>3. QED
    BY <1>1, <1>2, <2>1, <2>2
<1>9. CASE Signal \/ FinalFlush \/ Restart
  BY <1>1, <1>9 DEF Signal, FinalFlush, Restart, cluster, history
<1>10. CASE UNCHANGED <<alive, history>>
  BY <1>1, <1>10 DEF history
<1>11. QED
  BY <1>3, <1>4, <1>5, <1>6, <1>7, <1>8, <1>9, <1>10 DEF Next, Watching, Flushing,
     vars, KubernetesWrite, Write, Compact, ListEnqueue, ListFail, Connect, Expired,
     Disconnect, WatchRead, Bookmark, Send, Receive, Tick, Apply, PostError,
     PostOK, ClearQueue
-----------------------------------------------------------------------------
\* How far the flush loop has got: what it has posted of the batch in hand and
\* of the offline queue is known to the server.
Progress ==
  /\ Posting => \A i \in 1..pos : Sending[i] \in keys
  /\ fpc \in {"replay", "clear", "rewrite"} =>
       \A i \in 1..replayed : Range(queue[i]) \subseteq keys
  /\ fpc = "clear" => replayed = Len(queue) /\ pos = 0

IInv == TypeOK /\ Shape /\ Progress /\ NothingSkipped

\* Where the loops stand is kept by every step.
LEMMA ShapeStep == ASSUME TypeOK, Shape, [Next]_vars PROVE Shape'
<1> USE DEF Shape
<1>1. /\ ckpt \in 0..Len(log) /\ Len(log) \in Nat /\ Len(log) \in 0..Len(log')
      /\ \A p \in 1..Len(log) : log'[p] = log[p]
  BY ClusterStep DEF TypeOK, ClusterType, WatcherType
<1>2. replayed \in 0..Len(queue)
  BY DEF TypeOK, FlusherType
<1>3. CASE KubernetesWrite \/ Compact
  <2>1. UNCHANGED <<alive, watcher, ch, flusher, queue>>
    BY <1>3 DEF KubernetesWrite, Write, Compact
  <2>2. QED
    BY <2>1, <1>1 DEF watcher, flusher, Relevant
<1>4. CASE WatchRead
  <2>1. ckpt' \in 1..Len(log) /\ Relevant(ckpt')
    BY <1>1, <1>4 DEF WatchRead, NextEvents
  <2>2. QED
    BY <1>4, <2>1 DEF WatchRead, cluster, flusher, Relevant
<1>5. CASE List \/ ListEnqueue \/ ListFail \/ ListDone \/ Connect \/ Expired
           \/ Disconnect \/ Bookmark \/ Send
  <2>1. wl' # "send" /\ alive # "down" /\ UNCHANGED <<alive, flusher, queue>>
    BY <1>5 DEF List, ListEnqueue, ListFail, ListDone, Connect, Expired, Disconnect,
       Bookmark, Send
  <2>2. QED
    BY <2>1 DEF flusher
<1>6. CASE Receive \/ Tick \/ FinalFlush
  <2>1. /\ UNCHANGED <<cluster, watcher, queue>> /\ alive' # "down"
        /\ fpc' = "idle" => batch' = batch /\ fpc = "idle"
        /\ fpc' = "replay" => replayed' = 0 /\ queue # <<>>
    BY <1>6 DEF Receive, Tick, FinalFlush, Flush
  <2>2. queue # <<>> => Len(queue) > 0
    BY DEF TypeOK, FlusherType
  <2>3. QED
    BY <2>1, <2>2 DEF cluster, watcher, Relevant
<1>7. CASE Apply \/ ApplyTorn \/ PostError \/ PostOK \/ ClearQueue \/ Rewrite \/ Spool
  <2>1. UNCHANGED <<cluster, watcher, alive>> /\ alive # "down"
    BY <1>7 DEF Apply, ApplyTorn, PostError, PostOK, ClearQueue, Rewrite, Spool, Posting
  <2>2. fpc' = "replay" => replayed' < Len(queue')
    BY <1>2, <1>7 DEF Apply, ApplyTorn, PostError, AfterError, PostOK, ClearQueue,
       Rewrite, Spool, Posting
  <2>3. fpc' = "idle" => batch' = <<>>
    BY <1>7 DEF Apply, ApplyTorn, PostError, AfterError, PostOK, ClearQueue,
       Rewrite, Spool, Posting
  <2>4. QED
    BY <2>1, <2>2, <2>3 DEF cluster, watcher, Relevant
<1>8. CASE Signal \/ Restart
  BY <1>8 DEF Signal, Restart, cluster, watcher, flusher, Relevant
<1>9. CASE Exit \/ Crash \/ Replace
  BY <1>9 DEF Exit, Crash, Replace, Gone
<1>10. CASE UNCHANGED vars
  BY <1>10 DEF vars, cluster, watcher, flusher, Relevant
<1>11. QED
  BY <1>3, <1>4, <1>5, <1>6, <1>7, <1>8, <1>9, <1>10 DEF Next, Watching, Flushing

\* So is what has been posted.
LEMMA ProgressStep ==
  ASSUME TypeOK, Shape, Progress, [Next]_vars PROVE Progress'
<1> USE DEF Progress
<1>1. pos \in Nat /\ replayed \in 0..Len(queue) /\ Len(queue) \in Nat
  BY DEF TypeOK, FlusherType
<1>2. CASE Receive \/ Tick \/ FinalFlush
  <2>1. CASE fpc' = "idle"
    BY <2>1 DEF Posting
  <2>2. CASE fpc' # "idle"
    <3>1. pos' = 0 /\ replayed' = 0 /\ fpc' \in {"post", "replay"}
      BY <1>2, <2>2 DEF Receive, Tick, FinalFlush, Flush
    <3>2. QED
      BY <3>1
  <2>3. QED
    BY <2>1, <2>2
<1>3. CASE Apply
  <2>1. /\ keys' = keys \cup {Sending[pos + 1]} /\ pos' = pos + 1 /\ Posting
        /\ UNCHANGED <<fpc, batch, replayed, queue, alive>>
    BY <1>3 DEF Apply
  <2>2. \A i \in 1..(pos + 1) : Sending[i] \in keys'
    BY <1>1, <2>1
  <2>3. Sending' = Sending
    BY <2>1 DEF Sending
  <2>4. QED
    BY <2>1, <2>2, <2>3 DEF Posting
<1>4. CASE ApplyTorn \/ PostError
  <2>1. /\ keys \subseteq keys' /\ fpc' = AfterError /\ Posting
        /\ UNCHANGED <<replayed, queue>>
    BY <1>4 DEF ApplyTorn, PostError, server
  <2>2. QED
    BY <2>1 DEF Posting, AfterError
<1>5. CASE PostOK
  <2>1. /\ pos' = 0 /\ Posting /\ UNCHANGED <<keys, queue>>
        /\ \A i \in 1..Len(Sending) : Sending[i] \in keys
    BY <1>5 DEF PostOK, server
  <2>2. CASE fpc = "post"
    BY <1>5, <2>1, <2>2 DEF PostOK, Posting
  <2>3. CASE fpc = "replay"
    <3>1. replayed' = replayed + 1 /\ fpc' \in {"clear", "replay"}
          /\ (fpc' = "clear" => replayed' = Len(queue))
      BY <1>5, <2>3 DEF PostOK
    <3>2. Sending = queue[replayed + 1] /\ Sending \in Seq(Event)
      BY <2>1, <2>3, ContentsType DEF Sending
    <3>3. Range(queue[replayed + 1]) \subseteq keys
      BY <2>1, <3>2 DEF Range
    <3>4. \A i \in 1..(replayed + 1) : Range(queue[i]) \subseteq keys
      BY <1>1, <2>3, <3>3
    <3>5. QED
      BY <2>1, <3>1, <3>4
  <2>4. QED
    BY <2>1, <2>2, <2>3 DEF Posting
<1>6. CASE ClearQueue
  BY <1>6 DEF ClearQueue, Posting
<1>7. CASE Rewrite \/ Spool \/ Exit \/ Crash \/ Replace
  BY <1>7 DEF Rewrite, Spool, Exit, Crash, Replace, Gone, Posting
<1>8. CASE Signal \/ Restart
  BY <1>8 DEF Signal, Restart, flusher, server, Posting, Sending, Shape
<1>9. CASE UNCHANGED <<alive, flusher, queue, server>>
  BY <1>9 DEF flusher, server, Posting, Sending
<1>10. QED
  BY <1>2, <1>3, <1>4, <1>5, <1>6, <1>7, <1>8, <1>9 DEF Next, Watching, Flushing,
     vars, KubernetesWrite, Write, Compact, List, ListEnqueue, ListFail, ListDone,
     Connect, Expired, Disconnect, WatchRead, Bookmark, Send
-----------------------------------------------------------------------------
\* What a step does to the offline queue as a whole.
LEMMA BatchedAppend ==
  ASSUME NEW q \in Seq(Seq(Event)), NEW b \in Seq(Event)
  PROVE  Batched(Append(q, b)) = Batched(q) \cup Range(b)
<1>1. /\ Len(q) \in Nat /\ DOMAIN Append(q, b) = 1..(Len(q) + 1) /\ DOMAIN q = 1..Len(q)
      /\ Append(q, b)[Len(q) + 1] = b /\ \A i \in 1..Len(q) : Append(q, b)[i] = q[i]
  OBVIOUS
<1>2. 1..(Len(q) + 1) = 1..Len(q) \cup {Len(q) + 1}
  BY <1>1
<1>3. QED
  BY <1>1, <1>2 DEF Batched

\* The rewritten queue drops only what the server has.
LEMMA RemainingKept ==
  ASSUME TypeOK, \A i \in 1..replayed : Range(queue[i]) \subseteq keys
  PROVE  Queued \subseteq keys \cup Batched(Remaining)
<1>1. /\ queue \in Seq(Seq(Event)) /\ Len(queue) \in Nat /\ replayed \in 0..Len(queue)
      /\ DOMAIN queue = 1..Len(queue)
  BY DEF TypeOK, FlusherType
<1>2. /\ DOMAIN Remaining = 1..(Len(queue) - (replayed + 1) + 1)
      /\ \A i \in 1..(Len(queue) - (replayed + 1) + 1) :
           Remaining[i] = queue[replayed + 1 + i - 1]
  <2>1. replayed + 1 \in 1..(Len(queue) + 1) /\ Len(queue) \in 0..Len(queue)
    BY <1>1
  <2>2. QED
    BY <1>1, <2>1, PartElements DEF Remaining
<1>3. ASSUME NEW i \in 1..Len(queue), i > replayed
      PROVE  Range(queue[i]) \subseteq Batched(Remaining)
  <2>1. i - replayed \in DOMAIN Remaining
    BY <1>1, <1>2, <1>3
  <2>2. Remaining[i - replayed] = queue[i]
    BY <1>1, <1>2, <1>3
  <2>3. QED
    BY <2>1, <2>2 DEF Batched
<1>4. ASSUME NEW i \in 1..Len(queue) PROVE Range(queue[i]) \subseteq keys \cup Batched(Remaining)
  <2>1. CASE i > replayed
    BY <1>3, <2>1
  <2>2. CASE ~(i > replayed)
    <3>1. i \in 1..replayed
      BY <1>1, <2>2
    <3>2. QED
      BY <1>1, <3>1
  <2>3. QED
    BY <2>1, <2>2
<1>5. QED
  BY <1>1, <1>4 DEF Queued, Batched

\* No step but the replacement of the pod forgets an event: it stays known to
\* the server, on its way, or is recorded as missed.
LEMMA Conserved ==
  ASSUME TypeOK, Shape, Progress, [Next]_vars, ~Replace
  PROVE  Known \cup missed \subseteq (Known \cup missed)'
<1> USE DEF Known, Memory, Queued
<1>1. /\ ch \in Seq(Event) /\ pending \in Seq(Event) /\ batch \in Seq(Event)
      /\ queue \in Seq(Seq(Event))
  BY DEF TypeOK, WatcherType, FlusherType
<1>2. CASE KubernetesWrite \/ Compact
  <2>1. UNCHANGED <<wl, ckpt, ch, pending, batch, queue, keys, missed>>
    BY <1>2 DEF KubernetesWrite, Write, Compact, watcher, flusher, server, history
  <2>2. wl = "send" => log'[ckpt] = log[ckpt]
    BY ClusterStep DEF TypeOK, Shape
  <2>3. QED
    BY <2>1, <2>2 DEF Hand
<1>3. CASE \/ List \/ ListFail \/ ListDone \/ Connect \/ Expired \/ Disconnect
           \/ WatchRead \/ Bookmark
  <2>1. wl # "send" /\ UNCHANGED <<ch, pending, batch, queue, keys, missed>>
    BY <1>3 DEF List, ListFail, ListDone, Connect, Expired, Disconnect, WatchRead,
       Bookmark, flusher, server, history
  <2>2. QED
    BY <2>1 DEF Hand
<1>4. CASE ListEnqueue
  <2>1. Range(ch) \subseteq Range(ch')
    BY <1>1, <1>4, TailElements, AppendElements DEF ListEnqueue, TypeOK, WatcherType
  <2>2. wl # "send" /\ UNCHANGED <<pending, batch, queue, keys, missed>>
    BY <1>4 DEF ListEnqueue, flusher, server, history
  <2>3. QED
    BY <2>1, <2>2 DEF Hand
<1>5. CASE Send
  <2>1. Range(ch') = Range(ch) \cup {log[ckpt]}
    BY <1>1, <1>5, ContentsType, AppendElements DEF Send, Hand
  <2>2. UNCHANGED <<pending, batch, queue, keys, missed>>
    BY <1>5 DEF Send, flusher, server, history
  <2>3. QED
    BY <2>1, <2>2 DEF Hand
<1>6. CASE Receive
  <2> DEFINE got == Append(pending, Head(ch))
  <2>1. Range(ch) = Range(ch') \cup {Head(ch)} /\ Head(ch) \in Event
    BY <1>1, <1>6, TailElements DEF Receive
  <2>2. Range(got) = Range(pending) \cup {Head(ch)}
    BY <1>1, <2>1, AppendElements
  <2>3. batch = <<>> /\ Range(<<>>) = {}
    BY <1>6, EmptyElements DEF Receive, Shape
  <2>4. pending' = got \/ batch' = got
    BY <1>6 DEF Receive, Flush
  <2>5. UNCHANGED <<log, wl, ckpt, queue, keys, missed>>
    BY <1>6 DEF Receive, cluster, watcher, server, history
  <2>6. Range(got) \subseteq Range(pending') \cup Range(batch')
    BY <2>4
  <2>7. Range(ch) \cup Range(pending) \cup Range(batch)
          \subseteq Range(ch') \cup Range(pending') \cup Range(batch')
    BY <2>1, <2>2, <2>3, <2>6
  <2>8. Hand' = Hand /\ Batched(queue') = Batched(queue)
    BY <2>5 DEF Hand
  <2>9. QED
    BY <2>5, <2>7, <2>8
<1>7. CASE Tick \/ FinalFlush
  <2>1. batch = <<>> /\ batch' = pending /\ Range(<<>>) = {}
    BY <1>7, EmptyElements DEF Tick, FinalFlush, Flush, Shape
  <2>2. UNCHANGED <<log, wl, ckpt, ch, queue, keys, missed>>
    BY <1>7 DEF Tick, FinalFlush, cluster, watcher, server, history
  <2>3. QED
    BY <2>1, <2>2 DEF Hand
<1>8. CASE Apply \/ ApplyTorn \/ PostError
  <2>1. keys \subseteq keys' /\ UNCHANGED <<log, wl, ckpt, ch, pending, batch, queue, missed>>
    BY <1>8 DEF Apply, ApplyTorn, PostError, cluster, watcher, server, history
  <2>2. QED
    BY <2>1 DEF Hand
<1>9. CASE PostOK
  <2>1. batch' = batch \/ Range(batch) \subseteq keys
    <3>1. CASE fpc = "post"
      BY <1>9, <3>1, <1>1 DEF PostOK, Progress, Sending, Range
    <3>2. CASE fpc = "replay"
      BY <1>9, <3>2 DEF PostOK
    <3>3. QED
      BY <1>9, <3>1, <3>2 DEF PostOK, Posting
  <2>2. UNCHANGED <<log, wl, ckpt, ch, pending, queue, keys, missed>>
    BY <1>9 DEF PostOK, cluster, watcher, server, history
  <2>3. QED
    BY <2>1, <2>2 DEF Hand
<1>10. CASE ClearQueue
  <2>1. queue' = queue \/ Queued \subseteq keys
    BY <1>1, <1>10 DEF ClearQueue, Progress, Batched
  <2>2. UNCHANGED <<log, wl, ckpt, ch, pending, batch, keys, missed>>
    BY <1>10 DEF ClearQueue, cluster, watcher, server, history
  <2>3. QED
    BY <2>1, <2>2 DEF Hand
<1>11. CASE Rewrite
  <2>1. Queued \subseteq keys \cup Batched(Remaining)
    BY <1>1, <1>11, RemainingKept DEF Rewrite, Progress
  <2>2. Queued \subseteq keys \cup Batched(queue') \cup missed' /\ missed \subseteq missed'
    BY <1>11, <2>1 DEF Rewrite, Rewritten, Lost
  <2>3. UNCHANGED <<log, wl, ckpt, ch, pending, batch, keys>>
    BY <1>11 DEF Rewrite, cluster, watcher, server
  <2>4. QED
    BY <2>2, <2>3 DEF Hand
<1>12. CASE Spool
  <2>1. Batched(Append(queue, batch)) = Queued \cup Range(batch)
    BY <1>1, BatchedAppend
  <2>2. /\ Queued \cup Range(batch) \subseteq keys \cup Batched(queue') \cup missed'
        /\ missed \subseteq missed'
    BY <1>12, <2>1, EmptyElements DEF Spool, Joined, Lost
  <2>3. UNCHANGED <<log, wl, ckpt, ch, pending, keys>>
    BY <1>12 DEF Spool, cluster, watcher, server
  <2>4. QED
    BY <2>2, <2>3 DEF Hand
<1>13. CASE Exit \/ Crash
  <2>1. /\ Memory \cup Queued \subseteq keys \cup Batched(queue') \cup missed'
        /\ missed \subseteq missed' /\ keys' = keys
    BY <1>13 DEF Exit, Crash, Lost, server
  <2>2. QED
    BY <2>1
<1>14. CASE Signal \/ Restart \/ UNCHANGED vars
  BY <1>14 DEF Signal, Restart, vars, cluster, watcher, flusher, server, history, Hand
<1>15. QED
  BY <1>2, <1>3, <1>4, <1>5, <1>6, <1>7, <1>8, <1>9, <1>10, <1>11, <1>12, <1>13,
     <1>14 DEF Next, Watching, Flushing
-----------------------------------------------------------------------------
\* An interval that ends before it starts.
LEMMA EmptyInterval == \A a, b \in Nat : a >= b => (a + 1)..b = {}
  OBVIOUS

\* Events below the saved version are conserved; what the version newly passes
\* is in the watch loop's hand or none of its business; and after a list or a
\* lost state file there is nothing to account for.
LEMMA SkippedStep ==
  ASSUME IInv, [Next]_vars PROVE NothingSkipped'
<1>1. /\ base \in 0..Len(log) /\ ckpt \in 0..Len(log) /\ Len(log) \in Nat
      /\ lastRV \in 0..Len(log)
      /\ \A p \in 1..Len(log) : log'[p] = log[p]
      /\ TypeOK /\ Shape /\ Progress
  BY ClusterStep DEF IInv, TypeOK, ClusterType, WatcherType, HistoryType
<1>2. \A p \in (base + 1)..ckpt : Relevant(p) => log[p] \in Known \cup missed
  BY DEF IInv, NothingSkipped, Known
<1>3. SUFFICES \A p \in (base' + 1)..ckpt' :
                 Relevant(p)' => log'[p] \in (Known \cup missed)'
  BY DEF NothingSkipped, Known
<1>4. CASE base' >= ckpt' /\ base' \in Nat /\ ckpt' \in Nat
  <2>1. (base' + 1)..ckpt' = {}
    BY <1>4, EmptyInterval
  <2>2. QED
    BY <2>1
<1>5. CASE base' = base /\ ckpt' = ckpt /\ ~Replace
  <2>1. Known \cup missed \subseteq (Known \cup missed)'
    BY <1>1, <1>5, Conserved
  <2>2. \A p \in (base + 1)..ckpt : p \in 1..Len(log) /\ log'[p] = log[p]
    BY <1>1
  <2>3. QED
    BY <1>2, <1>5, <2>1, <2>2 DEF Relevant
<1>6. CASE WatchRead \/ Bookmark
  <2>1. ~Replace /\ base' = base /\ log' = log
    BY <1>6 DEF WatchRead, Bookmark, Replace, Gone, history, cluster
  <2>2. Known \cup missed \subseteq (Known \cup missed)'
    BY <1>1, <2>1, Conserved
  <2>3. /\ ckpt' \in (ckpt + 1)..Len(log)
        /\ \A q \in (ckpt + 1)..ckpt' : Relevant(q) => q = ckpt' /\ wl' = "send"
    BY <1>1, <1>6 DEF WatchRead, Bookmark, NextEvents
  <2>4. wl' = "send" => log'[ckpt'] \in Known'
    BY DEF Known, Memory, Hand
  <2>5. ASSUME NEW p \in (base + 1)..ckpt', Relevant(p)' PROVE log'[p] \in (Known \cup missed)'
    <3>1. Relevant(p)
      BY <2>1, <2>5 DEF Relevant
    <3>2. CASE p <= ckpt
      BY <1>1, <1>2, <2>1, <2>2, <3>1, <3>2
    <3>3. CASE p > ckpt
      <4>1. p \in (ckpt + 1)..ckpt'
        BY <1>1, <2>3, <3>3
      <4>2. QED
        BY <2>3, <2>4, <3>1, <4>1
    <3>4. QED
      BY <1>1, <2>3, <3>2, <3>3
  <2>6. QED
    BY <2>1, <2>5
<1>7. CASE List \/ ListDone \/ Expired
  BY <1>1, <1>4, <1>7 DEF List, ListDone, SavedRV, Expired, history
<1>8. CASE Exit
  <2>1. CASE Replace
    BY <1>4, <2>1 DEF Replace
  <2>2. CASE ~Replace
    BY <1>5, <1>8, <2>2 DEF Exit
  <2>3. QED
    BY <2>1, <2>2
<1>9. CASE Crash
  <2>1. CASE ckpt' = 0
    BY <1>4, <1>9, <2>1 DEF Crash
  <2>2. CASE ckpt' # 0 /\ ~Replace
    BY <1>5, <1>9, <2>2 DEF Crash
  <2>3. CASE Replace
    BY <1>4, <2>3 DEF Replace
  <2>4. QED
    BY <2>1, <2>2, <2>3
<1>10. CASE Replace
  BY <1>4, <1>10 DEF Replace
<1>11. CASE ~Replace /\ UNCHANGED <<ckpt, base>>
  BY <1>5, <1>11
<1>12. QED
  BY <1>6, <1>7, <1>8, <1>9, <1>10, <1>11 DEF Next, Watching, Flushing, vars,
     KubernetesWrite, Write, Compact, ListEnqueue, ListFail, Connect, Disconnect,
     Send, Receive, Tick, Apply, ApplyTorn, PostError, PostOK, ClearQueue, Rewrite,
     Spool, Signal, FinalFlush, Restart, watcher, history

\* The invariant of the agent: types, control state, what has been posted, and
\* NothingSkipped.
THEOREM Safety == Spec => []IInv
<1>1. Init => IInv
  <2> SUFFICES ASSUME Init PROVE IInv
    OBVIOUS
  <2> USE DEF Init
  <2>1. PICK o \in Objects : log = << [rv |-> 1, type |-> "ADDED", obj |-> o] >>
    OBVIOUS
  <2>2. [rv |-> 1, type |-> "ADDED", obj |-> o] \in Entry
    BY DEF Entry, Types
  <2>3. log \in Seq(Entry) /\ Len(log) = 1
    BY <2>1, <2>2
  <2>4. ClusterType
    BY <2>3 DEF ClusterType
  <2>5. <<>> \in Seq(Event) /\ <<>> \in Seq(Seq(Event)) /\ Len(<<>>) = 0
    BY EmptyQueue
  <2>6. WatcherType /\ FlusherType
    <3>1. WatcherType
      BY <2>3, <2>5 DEF WatcherType
    <3>2. pending \in Seq(Event) /\ Len(pending) < MaxBatch /\ batch \in Seq(Event) /\ Len(batch) <= MaxBatch
      BY <2>5
    <3>3. open \in BOOLEAN
      OBVIOUS
    <3>4. queue \in Seq(Seq(Event)) /\ replayed \in 0..Len(queue) /\ pos \in Nat
      BY <2>5
    <3>5. FlusherType
      BY <3>2, <3>3, <3>4 DEF FlusherType
    <3>6. QED
      BY <3>1, <3>5
  <2>7. ServerType /\ HistoryType
    BY <2>3 DEF ServerType, HistoryType
  <2>8. BudgetType
    BY BoundsAssumption DEF BudgetType
  <2>9. Shape /\ Progress /\ NothingSkipped
    BY DEF Shape, Progress, Posting, NothingSkipped
  <2>10. QED
    BY <2>4, <2>6, <2>7, <2>8, <2>9 DEF IInv, TypeOK
<1>2. IInv /\ [Next]_vars => IInv'
  <2> SUFFICES ASSUME IInv, [Next]_vars PROVE IInv'
    OBVIOUS
  <2>1. TypeOK /\ Shape /\ Progress /\ BudgetType /\ ClusterType
    BY DEF IInv, TypeOK
  <2>2. TypeOK'
    BY <2>1, ClusterStep, WatcherStep, FlusherStep, ServerStep, HistoryStep,
       BudgetStep DEF TypeOK
  <2>3. QED
    BY <2>1, <2>2, ShapeStep, ProgressStep, SkippedStep DEF IInv
<1>3. QED
  BY <1>1, <1>2, PTL DEF Spec

\* The state of the agent stays well typed, the channel and the batches within
\* their bounds.
THEOREM TypeCorrect == Spec => []TypeOK
<1>1. IInv => TypeOK
  BY DEF IInv
<1>2. QED
  BY <1>1, Safety, PTL

\* No event the saved version has passed is lost by the watch loop, the channel,
\* the batches or the offline queue, whatever fails; only a death or a failed
\* file write loses one.
THEOREM NoEventSkipped == Spec => []NothingSkipped
<1>1. IInv => NothingSkipped
  BY DEF IInv
<1>2. QED
  BY <1>1, Safety, PTL
-----------------------------------------------------------------------------
(* The order of events on their way, as a set of pairs: an event, and one  *)
(* that may be behind it.  The list's items are behind the channel until   *)
(* they are in it, and so is the event in the watch loop's hand.           *)
Ordered(s, R)  == \A i, j \in 1..Len(s) : i < j => <<s[i], s[j]>> \in R
Ahead(S, T, R) == \A e \in S, f \in T : <<e, f>> \in R
QueueOrdered(q, R) ==
  /\ \A i \in 1..Len(q) : Ordered(q[i], R)
  /\ \A i, j \in 1..Len(q) : i < j => Ahead(Range(q[i]), Range(q[j]), R)
InLine(R) ==
  /\ QueueOrdered(queue, R) /\ Ordered(batch, R) /\ Ordered(pending, R)
  /\ Ordered(ch, R) /\ Ordered(todo, R)
  /\ Ahead(Queued, Memory \cup Range(todo), R)
  /\ Ahead(Range(batch), Range(pending) \cup Range(ch) \cup Range(todo) \cup Hand, R)
  /\ Ahead(Range(pending), Range(ch) \cup Range(todo) \cup Hand, R)
  /\ Ahead(Range(ch), Range(todo) \cup Hand, R)

\* A channel that is taken from, or added to behind all others.
LEMMA OrderedEnds ==
  ASSUME NEW s \in Seq(Event), NEW R, Ordered(s, R)
  PROVE  /\ s # <<>> => Ordered(Tail(s), R) /\ Ahead({Head(s)}, Range(Tail(s)), R)
         /\ \A e \in Event : Ahead(Range(s), {e}, R) => Ordered(Append(s, e), R)
<1>1. ASSUME s # <<>> PROVE Ordered(Tail(s), R) /\ Ahead({Head(s)}, Range(Tail(s)), R)
  <2>1. /\ Len(s) \in Nat \ {0} /\ Head(s) = s[1] /\ Tail(s) \in Seq(Event) /\ Len(Tail(s)) = Len(s) - 1
        /\ \A i \in 1..Len(Tail(s)) : Tail(s)[i] = s[i + 1] /\ i + 1 \in 1..Len(s)
    BY <1>1
  <2>2. Ordered(Tail(s), R)
    BY <2>1 DEF Ordered
  <2>3. ASSUME NEW f \in Range(Tail(s)) PROVE <<Head(s), f>> \in R
    <3>1. PICK i \in 1..Len(Tail(s)) : f = Tail(s)[i]
      BY <2>1 DEF Range
    <3>2. 1 \in 1..Len(s) /\ i + 1 \in 1..Len(s) /\ 1 < i + 1 /\ f = s[i + 1]
      BY <2>1, <3>1
    <3>3. QED
      BY <2>1, <3>2 DEF Ordered
  <2>4. QED
    BY <2>2, <2>3 DEF Ahead
<1>2. ASSUME NEW e \in Event, Ahead(Range(s), {e}, R) PROVE Ordered(Append(s, e), R)
  <2>1. /\ Len(s) \in Nat /\ Len(Append(s, e)) = Len(s) + 1 /\ Append(s, e)[Len(s) + 1] = e
        /\ \A i \in 1..Len(s) : Append(s, e)[i] = s[i]
    OBVIOUS
  <2>2. \A i \in 1..Len(s) : <<s[i], e>> \in R
    BY <1>2 DEF Ahead, Range
  <2>3. QED
    BY <2>1, <2>2 DEF Ordered
<1>3. QED
  BY <1>1, <1>2

\* A batch that joins the offline queue.
LEMMA QueueAppended ==
  ASSUME NEW q \in Seq(Seq(Event)), NEW b \in Seq(Event), NEW R,
         QueueOrdered(q, R), Ordered(b, R), Ahead(Batched(q), Range(b), R)
  PROVE  QueueOrdered(Append(q, b), R)
<1>0. Len(q) \in Nat
  OBVIOUS
<1>1. /\ Len(q) \in Nat /\ DOMAIN q = 1..Len(q) /\ Len(Append(q, b)) = Len(q) + 1
      /\ Append(q, b)[Len(q) + 1] = b /\ \A i \in 1..Len(q) : Append(q, b)[i] = q[i]
  OBVIOUS
<1>2. \A i \in 1..Len(q) : Ahead(Range(q[i]), Range(b), R)
  BY <1>1 DEF Ahead, Batched
<1>3. \A i \in 1..(Len(q) + 1) : Ordered(Append(q, b)[i], R)
  BY <1>1 DEF QueueOrdered
<1>4. ASSUME NEW i \in 1..(Len(q) + 1), NEW j \in 1..(Len(q) + 1), i < j
      PROVE  Ahead(Range(Append(q, b)[i]), Range(Append(q, b)[j]), R)
  <2>1. i \in 1..Len(q) /\ (j \in 1..Len(q) \/ j = Len(q) + 1)
    <3>1. PICK n \in Nat : n = Len(q)
      BY <1>0
    <3>2. i \in 1..(n + 1) /\ j \in 1..(n + 1) /\ i < j
      BY <1>4, <3>1
    <3>3. i \in 1..n /\ (j \in 1..n \/ j = n + 1)
      BY <3>2
    <3>4. QED
      BY <3>1, <3>3
  <2>2. CASE j = Len(q) + 1
    BY <1>1, <1>2, <2>1, <2>2
  <2>3. CASE j \in 1..Len(q)
    <3>1. Append(q, b)[i] = q[i] /\ Append(q, b)[j] = q[j]
      BY <1>1, <2>1, <2>3
    <3>2. QED
      BY <1>4, <2>1, <2>3, <3>1 DEF QueueOrdered
  <2>4. QED
    BY <2>1, <2>2, <2>3
<1>5. QED
  BY <1>1, <1>3, <1>4 DEF QueueOrdered

\* A queue of which lines are gone or unreadable.
LEMMA ThinnedOrder ==
  ASSUME NEW q \in Seq(Seq(Event)), NEW s, Thinned(s, q)
  PROVE  Batched(s) \subseteq Batched(q) /\ \A R : QueueOrdered(q, R) => QueueOrdered(s, R)
<1>1. PICK m \in 0..Len(q) : /\ Len(s) <= Len(q) - m
                             /\ \A i \in 1..Len(s) : s[i] \in {q[m + i], <<>>}
  BY DEF Thinned
<1>2. /\ s \in Seq(Seq(Event)) /\ Len(s) \in Nat /\ DOMAIN s = 1..Len(s)
      /\ Len(q) \in Nat /\ DOMAIN q = 1..Len(q) /\ m \in Nat
  BY DEF Thinned
<1>3. \A i \in 1..Len(s) : m + i \in 1..Len(q)
  <2> TAKE i \in 1..Len(s)
  <2>1. i \in Nat /\ 1 <= i /\ i <= Len(s)
    BY <1>2
  <2>2. QED
    BY <1>1, <1>2, <2>1
<1>4. \A i \in 1..Len(s) : Range(s[i]) \subseteq Range(q[m + i])
  BY <1>1, EmptyElements
<1>5. ASSUME NEW R, QueueOrdered(q, R) PROVE QueueOrdered(s, R)
  <2>1. \A i \in 1..Len(s) : Ordered(s[i], R)
    <3> TAKE i \in 1..Len(s)
    <3>1. CASE s[i] = <<>>
      BY <3>1, EmptyQueue DEF Ordered
    <3>2. CASE s[i] = q[m + i]
      BY <1>3, <1>5, <3>2 DEF QueueOrdered
    <3>3. QED
      BY <1>1, <3>1, <3>2
  <2>2. ASSUME NEW i \in 1..Len(s), NEW j \in 1..Len(s), i < j PROVE Ahead(Range(s[i]), Range(s[j]), R)
    <3>1. m + i < m + j
      BY <1>2, <2>2
    <3>2. Ahead(Range(q[m + i]), Range(q[m + j]), R)
      BY <1>3, <1>5, <3>1 DEF QueueOrdered
    <3>3. QED
      BY <1>4, <3>2 DEF Ahead
  <2>3. QED
    BY <2>1, <2>2 DEF QueueOrdered
<1>6. Batched(s) \subseteq Batched(q)
  BY <1>2, <1>3, <1>4 DEF Batched
<1>7. QED
  BY <1>5, <1>6

\* A weaker order.
LEMMA WiderOrder ==
  ASSUME NEW R, NEW Q, R \subseteq Q, InLine(R) PROVE InLine(Q)
<1>1. \A s : Ordered(s, R) => Ordered(s, Q)
  BY DEF Ordered
<1>2. \A S, T : Ahead(S, T, R) => Ahead(S, T, Q)
  BY DEF Ahead
<1>3. \A q : QueueOrdered(q, R) => QueueOrdered(q, Q)
  BY <1>1, <1>2 DEF QueueOrdered
<1>4. QED
  BY <1>1, <1>2, <1>3 DEF InLine

-----------------------------------------------------------------------------
(* All events there are.                                                   *)
All == Known \cup Range(todo)

(* No event is younger than the log, nor, above the last list, than the    *)
(* saved version.                                                          *)
Versions ==
  /\ \A p \in 1..Len(log) : log[p].rv = p
  /\ \A e \in All : e.rv <= Len(log)
  /\ ckpt # 0 \/ wl = "list" => \A e \in All : e.rv <= snap \/ e.rv <= ckpt
  /\ wl = "list" => ckpt = 0 /\ lastRV <= snap
  /\ wl \in {"watch", "send"} => ckpt # 0
  /\ todo # <<>> => wl = "list"
  /\ base <= snap
  /\ fpc = "post" => queue = <<>>

LEMMA AllType == ASSUME TypeOK, Shape PROVE All \subseteq Event /\ \A e \in All : e.rv \in Nat
<1>1. All \subseteq Event
  BY ContentsType DEF All, Known, TypeOK, ServerType, WatcherType, Range
<1>2. QED
  BY <1>1 DEF Event

\* Only a list and the watch bring events in.
LEMMA NothingNew ==
  ASSUME TypeOK, Shape, [Next]_vars, ~List, ~WatchRead
  PROVE  All' \subseteq All
<1> USE DEF All, Known, Memory, Queued
<1>1. /\ ch \in Seq(Event) /\ pending \in Seq(Event) /\ batch \in Seq(Event)
      /\ queue \in Seq(Seq(Event)) /\ todo \in Seq(Event) /\ Range(<<>>) = {} /\ Batched(<<>>) = {}
  BY EmptyElements DEF TypeOK, WatcherType, FlusherType, Batched
<1>15. Queued' \subseteq Queued \/ ((Spool \/ Crash) /\ Queued' \subseteq Queued \cup Range(batch))
  <2>1. Thinned(queue', queue) => Queued' \subseteq Queued
    BY <1>1, ThinnedOrder
  <2>2. ASSUME NEW b \in {batch, <<>>}, queue' = Append(queue, b) PROVE Queued' \subseteq Queued \cup Range(batch)
    BY <1>1, <2>2, EmptyQueue, BatchedAppend
  <2>3. QED
    BY <2>1, <2>2, QueueStep
<1>2. CASE KubernetesWrite \/ Compact
  <2>1. UNCHANGED <<wl, ckpt, ch, pending, batch, queue, keys, todo>>
    BY <1>2 DEF KubernetesWrite, Write, Compact, watcher, flusher, server
  <2>2. wl = "send" => log'[ckpt] = log[ckpt]
    BY ClusterStep DEF TypeOK, Shape
  <2>3. QED
    BY <2>1, <2>2 DEF Hand
<1>3. CASE ListFail \/ ListDone \/ Connect \/ Expired \/ Disconnect \/ Bookmark
  <2>1. wl' # "send" /\ UNCHANGED <<ch, pending, batch, queue, keys>> /\ (todo' = todo \/ todo' = <<>>)
    BY <1>3 DEF ListFail, ListDone, Connect, Expired, Disconnect, Bookmark, flusher, server
  <2>2. QED
    BY <1>1, <2>1 DEF Hand
<1>4. CASE ListEnqueue
  <2>1. Range(ch') = Range(ch) \cup {Head(todo)} /\ Range(todo) = Range(todo') \cup {Head(todo)}
    BY <1>1, <1>4, TailElements, AppendElements DEF ListEnqueue
  <2>2. wl' # "send" /\ UNCHANGED <<pending, batch, queue, keys>>
    BY <1>4 DEF ListEnqueue, flusher, server
  <2>3. QED
    BY <2>1, <2>2 DEF Hand
<1>5. CASE Send
  <2>1. Range(ch') = Range(ch) \cup Hand /\ Hand' = {}
    BY <1>1, <1>5, ContentsType, AppendElements DEF Send, Hand
  <2>2. UNCHANGED <<pending, batch, queue, keys, todo>>
    BY <1>5 DEF Send, flusher, server
  <2>3. QED
    BY <2>1, <2>2
<1>6. CASE Receive
  <2> DEFINE got == Append(pending, Head(ch))
  <2>1. Range(ch) = Range(ch') \cup {Head(ch)} /\ Head(ch) \in Event
    BY <1>1, <1>6, TailElements DEF Receive
  <2>2. Range(got) = Range(pending) \cup {Head(ch)}
    BY <1>1, <2>1, AppendElements
  <2>3. Range(pending') \cup Range(batch') \subseteq Range(got) \cup Range(batch)
    BY <1>1, <1>6 DEF Receive, Flush
  <2>4. UNCHANGED <<log, wl, ckpt, queue, keys, todo>>
    BY <1>6 DEF Receive, cluster, watcher, server
  <2>5. QED
    BY <2>1, <2>2, <2>3, <2>4 DEF Hand
<1>7. CASE Tick \/ FinalFlush
  <2>1. Range(pending') \cup Range(batch') \subseteq Range(pending)
    BY <1>1, <1>7 DEF Tick, FinalFlush, Flush
  <2>2. UNCHANGED <<log, wl, ckpt, ch, queue, keys, todo>>
    BY <1>7 DEF Tick, FinalFlush, cluster, watcher, server
  <2>3. QED
    BY <2>1, <2>2 DEF Hand
<1>8. CASE Apply \/ ApplyTorn
  <2>1. keys' = keys \cup {Sending[pos + 1]} /\ pos + 1 \in 1..Len(Sending) /\ Posting
    BY <1>8 DEF Apply, ApplyTorn, TypeOK, FlusherType
  <2>2. Sending[pos + 1] \in Range(batch) \cup Queued
    <3>1. CASE fpc = "replay"
      <4>1. replayed + 1 \in DOMAIN queue /\ Sending = queue[replayed + 1]
        BY <1>1, <3>1 DEF Shape, TypeOK, FlusherType, Sending
      <4>2. Sending[pos + 1] \in Range(queue[replayed + 1])
        BY <1>1, <2>1, <4>1 DEF Range
      <4>3. QED
        BY <4>1, <4>2 DEF Batched
    <3>2. CASE fpc # "replay"
      BY <1>1, <2>1, <3>2 DEF Sending, Range
    <3>3. QED
      BY <3>1, <3>2
  <2>3. UNCHANGED <<log, wl, ckpt, ch, pending, batch, queue, todo>>
    BY <1>8 DEF Apply, ApplyTorn, cluster, watcher
  <2>4. QED
    BY <2>1, <2>2, <2>3 DEF Hand
<1>9. CASE PostError \/ PostOK
  <2>1. Range(batch') \subseteq Range(batch) /\ UNCHANGED <<log, wl, ckpt, ch, pending, queue, keys, todo>>
    BY <1>1, <1>9 DEF PostError, PostOK, cluster, watcher, server
  <2>2. QED
    BY <2>1 DEF Hand
<1>10. CASE ClearQueue \/ Rewrite
  <2>1. Queued' \subseteq Queued
    BY <1>1, <1>10, RewriteThins, ThinnedOrder DEF ClearQueue, Rewrite
  <2>2. UNCHANGED <<log, wl, ckpt, ch, pending, batch, keys, todo>>
    BY <1>10 DEF ClearQueue, Rewrite, cluster, watcher, server
  <2>3. QED
    BY <2>1, <2>2 DEF Hand
<1>11. CASE Spool
  <2>1. UNCHANGED <<log, wl, ckpt, ch, pending, keys, todo>> /\ batch' = <<>>
    BY <1>11 DEF Spool, cluster, watcher, server
  <2>2. QED
    BY <1>1, <1>15, <2>1 DEF Hand
<1>12. CASE Exit \/ Crash \/ Replace
  <2>1. keys' \subseteq keys
    BY <1>12 DEF Exit, Crash, Replace, server
  <2>2. ch' = <<>> /\ pending' = <<>> /\ batch' = <<>> /\ wl' = "top" /\ todo' = <<>>
    BY <1>12 DEF Exit, Crash, Replace, Gone
  <2>3. QED
    BY <1>1, <1>15, <2>1, <2>2 DEF Hand
<1>13. CASE Signal \/ Restart \/ UNCHANGED vars
  BY <1>13 DEF Signal, Restart, vars, cluster, watcher, flusher, server, Hand
<1>14. QED
  BY <1>2, <1>3, <1>4, <1>5, <1>6, <1>7, <1>8, <1>9, <1>10, <1>11, <1>12, <1>13 DEF Next, Watching, Flushing

LEMMA ListingVersions ==
  ASSUME TypeOK, NEW f \in Orders
  PROVE  \A e \in Range(Listing(f)) : e.rv <= Len(log)
<1>1. f \in [1..Cardinality(Exists) -> Exists] /\ Exists \subseteq Objects /\ Len(log) \in Nat
  BY DEF Orders, Exists, TypeOK, ClusterType
<1>2. \A o \in Objects : live[o] <= Len(log)
  BY <1>1 DEF TypeOK, ClusterType
<1>3. \A i \in 1..Cardinality(Exists) : live[f[i]] <= Len(log)
  BY <1>1, <1>2
<1>4. QED
  BY <1>1, <1>3 DEF Listing, Range

\* Versions are kept by every step.
LEMMA VersionsStep ==
  ASSUME TypeOK, Shape, Versions, [Next]_vars PROVE Versions'
<1> USE DEF Versions
<1>1. /\ ckpt \in 0..Len(log) /\ Len(log) \in Nat /\ Len(log') \in Nat /\ Len(log) <= Len(log')
      /\ snap \in 0..Len(log) /\ base \in 0..Len(log) /\ lastRV \in 0..Len(log)
      /\ log \in Seq(Entry)
  BY ClusterStep DEF TypeOK, ClusterType, WatcherType, HistoryType
<1>2. \A e \in All : e.rv \in Nat
  BY AllType
<1>3. \A p \in 1..Len(log') : log'[p].rv = p
  <2>1. CASE KubernetesWrite
    <3>1. ASSUME NEW o, NEW t, Write(o, t) PROVE \E e : e.rv = Len(log) + 1 /\ log' = Append(log, e)
      <4>1. [rv |-> Len(log) + 1, type |-> t, obj |-> o].rv = Len(log) + 1
        OBVIOUS
      <4>2. log' = Append(log, [rv |-> Len(log) + 1, type |-> t, obj |-> o])
        BY <3>1 DEF Write
      <4>3. QED
        BY <4>1, <4>2
    <3>2. PICK e : e.rv = Len(log) + 1 /\ log' = Append(log, e)
      BY <2>1, <3>1 DEF KubernetesWrite
    <3>3. Len(log') = Len(log) + 1 /\ log'[Len(log) + 1] = e /\ \A p \in 1..Len(log) : log'[p] = log[p]
      BY <1>1, <3>2
    <3>4. \A p \in 1..(Len(log) + 1) : p \in 1..Len(log) \/ p = Len(log) + 1
      BY <1>1
    <3>5. QED
      BY <3>2, <3>3, <3>4
  <2>2. CASE UNCHANGED log
    BY <2>2
  <2>3. QED
    BY <2>1, <2>2 DEF Next, Watching, Flushing, vars, cluster, Compact, List, ListEnqueue, ListFail,
       ListDone, Connect, Expired, Disconnect, WatchRead, Bookmark, Send, Receive, Tick, Apply, ApplyTorn,
       PostError, PostOK, ClearQueue, Rewrite, Spool, Signal, FinalFlush, Exit, Crash, Replace, Restart
<1>4. fpc' = "post" => queue' = <<>>
  <2>1. CASE Receive \/ Tick \/ FinalFlush
    BY <2>1 DEF Receive, Tick, FinalFlush, Flush
  <2>2. CASE PostOK \/ ApplyTorn \/ PostError \/ ClearQueue \/ Rewrite \/ Spool \/ Exit \/ Crash \/ Replace
    BY <2>2 DEF PostOK, ApplyTorn, PostError, AfterError, ClearQueue, Rewrite, Spool, Exit, Crash, Replace, Gone
  <2>3. CASE UNCHANGED <<fpc, queue>>
    BY <2>3
  <2>4. QED
    BY <2>1, <2>2, <2>3 DEF Next, Watching, Flushing, vars, flusher, KubernetesWrite, Write, Compact, List,
       ListEnqueue, ListFail, ListDone, Connect, Expired, Disconnect, WatchRead, Bookmark, Send, Apply,
       Signal, Restart
<1>5. CASE List
  <2>1. PICK f \in Orders : todo' = Listing(f)
    BY <1>5 DEF List
  <2>2. lastRV' \in 0..Len(log)
    BY <1>5, <2>1, ListingType DEF List
  <2>3. \A e \in All' : e.rv <= Len(log)
    <3>1. UNCHANGED <<ch, pending, batch, queue, keys>> /\ wl = "top" /\ wl' = "list"
      BY <1>5 DEF List, flusher, server
    <3>2. All' \subseteq All \cup Range(Listing(f))
      BY <2>1, <3>1 DEF All, Known, Memory, Queued, Hand
    <3>3. QED
      BY <2>1, <3>2, ListingVersions
  <2>4. ckpt' = 0 /\ snap' = Len(log) /\ wl' = "list" /\ base' = 0 /\ log' = log
    BY <1>5 DEF List, cluster
  <2>5. QED
    BY <1>1, <1>3, <1>4, <2>2, <2>3, <2>4
<1>6. CASE WatchRead
  <2>1. ckpt' \in (ckpt + 1)..Len(log) /\ wl = "watch" /\ wl' = "send"
        /\ UNCHANGED <<log, snap, base, todo, lastRV>>
    BY <1>6 DEF WatchRead, NextEvents, cluster, history
  <2>2. All' \subseteq All \cup {log[ckpt']}
    BY <1>6 DEF WatchRead, flusher, server, cluster, All, Known, Memory, Queued, Hand
  <2>3. log[ckpt'].rv = ckpt' /\ ckpt' # 0 /\ ckpt < ckpt' /\ ckpt' <= Len(log)
    BY <1>1, <2>1
  <2>4. \A e \in All' : e.rv <= Len(log) /\ (e.rv <= snap \/ e.rv <= ckpt')
    BY <1>1, <1>2, <2>1, <2>2, <2>3
  <2>5. QED
    BY <1>3, <1>4, <2>1, <2>3, <2>4
<1>7. CASE ~List /\ ~WatchRead
  <2>1. \A e \in All' : e.rv \in Nat /\ e.rv <= Len(log) /\ e.rv <= Len(log') /\ e \in All
    BY <1>1, <1>2, <1>7, NothingNew
  <2>2. CASE ListDone
    <3>1. ckpt = 0 /\ ckpt' = lastRV /\ base' = lastRV /\ wl' = "top" /\ todo' = <<>> /\ snap' = snap /\ wl = "list"
      BY <2>2 DEF ListDone, SavedRV
    <3>2. QED
      BY <1>1, <1>3, <1>4, <2>1, <3>1
  <2>3. CASE Bookmark
    <3>1. ckpt' = Len(log) /\ wl' = "watch" /\ wl = "watch" /\ log' = log /\ UNCHANGED <<todo, base, snap>> /\ ckpt < Len(log)
      BY <2>3 DEF Bookmark, cluster, history
    <3>2. QED
      BY <1>1, <1>3, <1>4, <2>1, <3>1
  <2>4. CASE ListEnqueue
    <3>1. UNCHANGED <<ckpt, wl, lastRV, base, snap>> /\ wl = "list"
      BY <2>4 DEF ListEnqueue, history
    <3>2. QED
      BY <1>1, <1>3, <1>4, <2>1, <3>1
  <2>5. CASE ListFail \/ Exit \/ Crash \/ Replace \/ Expired
    <3>1. /\ wl' = "top" /\ (todo' = <<>> \/ todo' = todo) /\ (Expired => wl = "top" /\ ckpt' = 0)
          /\ (ListFail => wl = "list" /\ ckpt' = ckpt /\ todo' = <<>>)
          /\ ckpt' \in {0, ckpt} /\ base' \in {0, base} /\ snap' = snap
      BY <2>5 DEF ListFail, Exit, Crash, Replace, Expired, Gone, history
    <3>2. ~Expired => todo' = <<>>
      BY <2>5 DEF ListFail, Exit, Crash, Replace, Gone
    <3>3. QED
      BY <1>1, <1>3, <1>4, <2>1, <3>1, <3>2
  <2>6. CASE Connect \/ Disconnect \/ Send
    <3>1. /\ ckpt # 0 /\ wl' \in {"top", "watch"} /\ wl # "list"
          /\ UNCHANGED <<todo, ckpt, base, snap>>
      BY <2>6 DEF Connect, Disconnect, Send, history
    <3>2. QED
      BY <1>1, <1>3, <1>4, <2>1, <3>1
  <2>7. CASE UNCHANGED <<ckpt, wl, todo, lastRV, base, snap>>
    BY <1>1, <1>3, <1>4, <2>1, <2>7
  <2>8. QED
    BY <1>7, <2>2, <2>3, <2>4, <2>5, <2>6, <2>7 DEF Next, Watching, Flushing, vars, watcher, history,
       KubernetesWrite, Write, Compact, Receive, Tick, Apply, ApplyTorn, PostError, PostOK, ClearQueue,
       Rewrite, Spool, Signal, FinalFlush, Restart
<1>8. QED
  BY <1>5, <1>6, <1>7

(* All that is on its way to the server, in the order of the line.         *)
Way == Memory \cup Queued \cup Range(todo)

\* The line as the steps below need it.
LEMMA LineType ==
  ASSUME TypeOK, Shape
  PROVE  /\ ch \in Seq(Event) /\ pending \in Seq(Event) /\ batch \in Seq(Event)
         /\ queue \in Seq(Seq(Event)) /\ todo \in Seq(Event)
         /\ Memory \subseteq Event /\ Queued \subseteq Event /\ Hand \subseteq Event /\ Way \subseteq Event
         /\ Range(<<>>) = {} /\ Batched(<<>>) = {}
         /\ \A R : Ordered(<<>>, R) /\ QueueOrdered(<<>>, R)
<1>1. /\ ch \in Seq(Event) /\ pending \in Seq(Event) /\ batch \in Seq(Event)
      /\ queue \in Seq(Seq(Event)) /\ todo \in Seq(Event)
  BY DEF TypeOK, WatcherType, FlusherType
<1>2. Memory \subseteq Event /\ Queued \subseteq Event /\ Hand \subseteq Event
  BY ContentsType DEF Memory
<1>3. Range(todo) \subseteq Event
  BY <1>1 DEF Range
<1>4. Range(<<>>) = {} /\ Batched(<<>>) = {}
  BY EmptyElements DEF Batched
<1>5. \A R : Ordered(<<>>, R) /\ QueueOrdered(<<>>, R)
  BY DEF Ordered, QueueOrdered
<1>6. QED
  BY <1>1, <1>2, <1>3, <1>4, <1>5 DEF Way

\* The line only gets longer at its end: where a list or the watch adds to it
\* in order, every step keeps the order.
LEMMA InLineStep ==
  ASSUME TypeOK, Shape, Versions, NEW CONSTANT R, InLine(R), [Next]_vars,
         List => Ordered(todo', R) /\ Ahead(Queued \cup Memory, Range(todo'), R),
         WatchRead => Ahead(Queued \cup Memory, Hand', R)
  PROVE  InLine(R)'
<1>1. /\ ch \in Seq(Event) /\ pending \in Seq(Event) /\ batch \in Seq(Event)
      /\ queue \in Seq(Seq(Event)) /\ todo \in Seq(Event)
      /\ Range(<<>>) = {} /\ Batched(<<>>) = {}
      /\ Ordered(<<>>, R) /\ QueueOrdered(<<>>, R)
  BY LineType
<1>2. /\ Range(ch) \subseteq Memory /\ Range(pending) \subseteq Memory /\ Range(batch) \subseteq Memory
      /\ Hand \subseteq Memory
  BY DEF Memory
(* A step that only takes away.                                            *)
<1>3. ASSUME QueueOrdered(queue', R), Queued' \subseteq Queued, Hand' \subseteq Hand, todo' \in {todo, <<>>},
             batch' \in {batch, <<>>}, pending' \in {pending, <<>>}, ch' \in {ch, <<>>}
      PROVE  InLine(R)'
  <2>1. Ordered(batch', R) /\ Ordered(pending', R) /\ Ordered(ch', R) /\ Ordered(todo', R)
    BY <1>1, <1>3 DEF InLine
  <2>2. Range(batch') \subseteq Range(batch) /\ Range(pending') \subseteq Range(pending)
        /\ Range(ch') \subseteq Range(ch) /\ Range(todo') \subseteq Range(todo)
    BY <1>1, <1>3
  <2>3. Memory' \subseteq Memory
    BY <1>3, <2>2 DEF Memory
  <2>4. QED
    BY <1>3, <2>1, <2>2, <2>3 DEF InLine, Ahead
<1>4. CASE KubernetesWrite \/ Compact
  <2>1. UNCHANGED <<wl, ckpt, ch, pending, batch, queue, todo>>
    BY <1>4 DEF KubernetesWrite, Write, Compact, watcher, flusher
  <2>2. Hand' = Hand
    BY <2>1, ClusterStep DEF TypeOK, Shape, Hand
  <2>3. QED
    BY <1>3, <2>1, <2>2 DEF InLine, Queued
<1>5. CASE List
  <2>1. UNCHANGED <<ch, pending, batch, queue>> /\ wl # "send" /\ wl' # "send"
    BY <1>5 DEF List, flusher
  <2>2. Hand' = {} /\ Hand = {} /\ Memory' = Memory /\ Queued' = Queued
    BY <2>1 DEF Hand, Memory, Queued
  <2>3. Ordered(todo', R) /\ Ahead(Queued \cup Memory, Range(todo'), R)
    BY <1>5
  <2>4. QED
    BY <1>2, <2>1, <2>2, <2>3 DEF InLine, Ahead
<1>6. CASE ListEnqueue
  <2>1. PICK x : x = Head(todo)
    OBVIOUS
  <2>2. /\ x \in Event /\ Range(todo) = Range(todo') \cup {x} /\ todo' = Tail(todo)
        /\ Ordered(todo', R) /\ Ahead({x}, Range(todo'), R)
    BY <1>1, <1>6, <2>1, TailElements, OrderedEnds DEF ListEnqueue, InLine
  <2>3. Range(ch') = Range(ch) \cup {x} /\ ch' = Append(ch, x)
    BY <1>1, <1>6, <2>1, <2>2, AppendElements DEF ListEnqueue
  <2>4. Ahead(Range(ch), {x}, R)
    BY <2>2 DEF InLine, Ahead
  <2>5. Ordered(ch', R)
    BY <1>1, <2>2, <2>3, <2>4, OrderedEnds DEF InLine
  <2>6. UNCHANGED <<pending, batch, queue>> /\ Hand' = {} /\ Hand = {}
    BY <1>6 DEF ListEnqueue, flusher, Hand
  <2>7. Memory' = Memory \cup {x} /\ Queued' = Queued
    BY <2>3, <2>6 DEF Memory, Queued
  <2>8. QED
    BY <2>2, <2>3, <2>5, <2>6, <2>7 DEF InLine, Ahead
<1>7. CASE WatchRead
  <2>1. wl = "watch" /\ UNCHANGED <<ch, pending, batch, queue, todo>>
    BY <1>7 DEF WatchRead, flusher
  <2>2. Hand = {} /\ todo = <<>> /\ Range(todo) = {}
    BY <1>1, <2>1 DEF Hand, Versions
  <2>3. Memory' = Memory \cup Hand' /\ Queued' = Queued
    BY <2>1, <2>2 DEF Memory, Queued
  <2>4. Ahead(Queued \cup Memory, Hand', R)
    BY <1>7
  <2>5. QED
    BY <1>2, <2>1, <2>2, <2>3, <2>4 DEF InLine, Ahead
<1>8. CASE Send
  <2>1. Hand = {log[ckpt]} /\ log[ckpt] \in Event /\ Hand' = {} /\ ch' = Append(ch, log[ckpt])
    BY <1>8, ContentsType DEF Send, Hand
  <2>2. Range(ch') = Range(ch) \cup Hand
    BY <1>1, <2>1, AppendElements
  <2>3. Ordered(ch', R)
    BY <1>1, <2>1, OrderedEnds DEF InLine, Ahead
  <2>4. UNCHANGED <<pending, batch, queue, todo>> /\ todo = <<>> /\ Range(todo) = {}
    BY <1>1, <1>8 DEF Send, flusher, Versions
  <2>5. Memory' = Memory /\ Queued' = Queued
    BY <2>1, <2>2, <2>4 DEF Memory, Queued
  <2>6. QED
    BY <2>1, <2>2, <2>3, <2>4, <2>5 DEF InLine, Ahead
<1>9. CASE Receive
  <2>1. PICK x, got : x = Head(ch) /\ got = Append(pending, x)
    OBVIOUS
  <2>2. /\ x \in Event /\ Range(ch) = Range(ch') \cup {x} /\ ch' = Tail(ch)
        /\ Ordered(ch', R) /\ Ahead({x}, Range(ch'), R)
    BY <1>1, <1>9, <2>1, TailElements, OrderedEnds DEF Receive, InLine
  <2>3. Ahead(Range(pending), {x}, R)
    BY <2>2 DEF InLine, Ahead
  <2>4. Range(got) = Range(pending) \cup {x} /\ Ordered(got, R)
    <3>1. Range(Append(pending, x)) = Range(pending) \cup {x}
      BY <1>1, <2>2, AppendElements
    <3>2. Ordered(pending, R)
      BY DEF InLine
    <3>3. Ordered(Append(pending, x), R)
      BY <1>1, <2>2, <2>3, <3>2, OrderedEnds
    <3>4. QED
      BY <2>1, <3>1, <3>3
  <2>5. UNCHANGED <<queue, todo>> /\ Hand' = Hand /\ batch = <<>>
    BY <1>9 DEF Receive, Shape, cluster, watcher, Hand
  <2>6. Ahead(Range(got), Range(ch') \cup Range(todo) \cup Hand, R)
    BY <2>2, <2>4 DEF InLine, Ahead
  <2>7. (batch' = got /\ pending' = <<>>) \/ (batch' = <<>> /\ pending' = got)
    BY <1>9, <2>1, <2>5 DEF Receive, Flush
  <2>8. Memory' = Memory
    BY <1>1, <2>2, <2>4, <2>5, <2>7 DEF Memory
  <2>9. /\ Ordered(batch', R) /\ Ordered(pending', R)
        /\ Range(batch') \in {Range(got), {}} /\ Range(pending') \in {Range(got), {}}
        /\ Range(batch') = {} \/ Range(pending') = {}
    BY <1>1, <2>4, <2>7
  <2>10. /\ Ahead(Range(batch'), Range(pending') \cup Range(ch') \cup Range(todo) \cup Hand, R)
         /\ Ahead(Range(pending'), Range(ch') \cup Range(todo) \cup Hand, R)
         /\ Ahead(Range(ch'), Range(todo) \cup Hand, R)
    BY <2>2, <2>6, <2>9 DEF InLine, Ahead
  <2>11. QED
    BY <2>2, <2>5, <2>8, <2>9, <2>10 DEF InLine, Queued
<1>10. CASE Tick \/ FinalFlush
  <2>1. batch = <<>> /\ batch' = pending /\ pending' = <<>> /\ UNCHANGED <<ch, queue, todo>> /\ Hand' = Hand
    BY <1>10 DEF Tick, FinalFlush, Flush, Shape, cluster, watcher, Hand
  <2>2. Memory' = Memory
    BY <1>1, <2>1 DEF Memory
  <2>3. QED
    BY <1>1, <2>1, <2>2 DEF InLine, Ahead, Queued
<1>11. CASE (Spool \/ Crash) /\ \E b \in {batch, <<>>} : queue' = Append(queue, b)
  <2>1. PICK b \in {batch, <<>>} : queue' = Append(queue, b)
    BY <1>11
  <2>2. /\ batch' = <<>> /\ pending' \in {pending, <<>>} /\ ch' \in {ch, <<>>}
        /\ todo' \in {todo, <<>>} /\ Hand' \subseteq Hand
    BY <1>11 DEF Spool, Crash, Gone, cluster, watcher, Hand
  <2>3. b \in Seq(Event) /\ Range(b) \subseteq Range(batch) /\ Ordered(b, R)
    BY <1>1, <2>1, EmptyQueue DEF InLine
  <2>4. Queued' = Queued \cup Range(b)
    BY <1>1, <2>1, <2>3, BatchedAppend DEF Queued
  <2>5. Ahead(Batched(queue), Range(b), R)
    BY <1>2, <2>3 DEF InLine, Ahead, Queued
  <2>6. QueueOrdered(queue', R)
    BY <1>1, <2>1, <2>3, <2>5, QueueAppended DEF InLine
  <2>7. /\ Range(pending') \subseteq Range(pending) /\ Range(ch') \subseteq Range(ch)
        /\ Range(todo') \subseteq Range(todo) /\ Range(batch') = {}
    BY <1>1, <2>2
  <2>8. Memory' \subseteq Range(pending) \cup Range(ch) \cup Hand
    BY <2>2, <2>7 DEF Memory
  <2>9. Ordered(batch', R) /\ Ordered(pending', R) /\ Ordered(ch', R) /\ Ordered(todo', R)
    BY <1>1, <2>2 DEF InLine
  <2>10. Ahead(Queued', Memory' \cup Range(todo'), R)
    BY <1>2, <2>3, <2>4, <2>7, <2>8 DEF InLine, Ahead
  <2>11. QED
    BY <2>2, <2>6, <2>7, <2>9, <2>10 DEF InLine, Ahead
<1>12. CASE /\ \/ PostOK \/ ClearQueue \/ Rewrite \/ Exit \/ Crash \/ Replace \/ Spool
            /\ Thinned(queue', queue)
  <2>1. QueueOrdered(queue', R) /\ Queued' \subseteq Queued
    BY <1>1, <1>12, ThinnedOrder DEF InLine, Queued
  <2>2. /\ batch' \in {batch, <<>>} /\ pending' \in {pending, <<>>} /\ ch' \in {ch, <<>>}
        /\ todo' \in {todo, <<>>} /\ Hand' \subseteq Hand
    BY <1>12 DEF PostOK, ClearQueue, Rewrite, Exit, Crash, Replace, Gone, Spool, cluster, watcher, Hand
  <2>3. QED
    BY <1>3, <2>1, <2>2
<1>13. CASE \/ ListFail \/ ListDone \/ Connect \/ Expired \/ Disconnect \/ Bookmark \/ Apply \/ ApplyTorn
            \/ PostError \/ Signal \/ Restart \/ UNCHANGED vars
  <2>1. UNCHANGED <<ch, pending, batch, queue>> /\ todo' \in {todo, <<>>}
    BY <1>13 DEF ListFail, ListDone, Connect, Expired, Disconnect, Bookmark, Apply, ApplyTorn, PostError,
       Signal, Restart, vars, watcher, flusher
  <2>2. Hand' \subseteq Hand
    BY <1>13 DEF ListFail, ListDone, Connect, Expired, Disconnect, Bookmark, Apply, ApplyTorn, PostError,
       Signal, Restart, vars, watcher, cluster, Hand
  <2>3. QED
    BY <1>3, <2>1, <2>2 DEF InLine, Queued
<1>14. QED
  BY <1>4, <1>5, <1>6, <1>7, <1>8, <1>9, <1>10, <1>11, <1>12, <1>13, QueueStep DEF Next, Watching, Flushing

\* The server gets a new event: the rest of the line that it does not know is
\* behind that event.
LEMMA Behind ==
  ASSUME TypeOK, Shape, Progress, Versions, NEW R, InLine(R), Posting, pos < Len(Sending),
         NEW y \in Way, y \notin keys, y # Sending[pos + 1]
  PROVE  <<Sending[pos + 1], y>> \in R
<1> DEFINE x == Sending[pos + 1]
<1>1. /\ batch \in Seq(Event) /\ queue \in Seq(Seq(Event)) /\ pos \in Nat /\ replayed \in 0..Len(queue)
      /\ Len(queue) \in Nat /\ DOMAIN queue = 1..Len(queue) /\ Range(<<>>) = {} /\ Batched(<<>>) = {}
  BY LineType DEF TypeOK, FlusherType
<1>2. ASSUME NEW s \in Seq(Event), Ordered(s, R), pos < Len(s), s[pos + 1] = x,
             \A i \in 1..pos : s[i] \in keys, y \in Range(s)
      PROVE  <<x, y>> \in R
  <2>1. PICK i \in 1..Len(s) : y = s[i]
    BY <1>2 DEF Range
  <2>2. i # pos + 1 /\ i \notin 1..pos
    BY <1>2, <2>1
  <2>3. pos + 1 < i /\ pos + 1 \in 1..Len(s)
    BY <1>1, <1>2, <2>1, <2>2
  <2>4. QED
    BY <1>2, <2>1, <2>3 DEF Ordered
<1>3. CASE fpc = "post"
  <2>1. Queued = {} /\ Sending = batch /\ \A i \in 1..pos : batch[i] \in keys
    BY <1>1, <1>3 DEF Versions, Queued, Sending, Progress
  <2>2. x \in Range(batch)
    BY <1>1, <2>1 DEF Range
  <2>3. CASE y \in Range(batch)
    BY <1>1, <1>2, <2>1, <2>3 DEF InLine
  <2>4. CASE y \in Range(pending) \cup Range(ch) \cup Range(todo) \cup Hand
    BY <2>2, <2>4 DEF InLine, Ahead
  <2>5. QED
    BY <2>1, <2>3, <2>4 DEF Way, Memory
<1>4. CASE fpc = "replay"
  <2>1. replayed + 1 \in 1..Len(queue) /\ Sending = queue[replayed + 1] /\ Sending \in Seq(Event)
    BY <1>1, <1>4 DEF Shape, Sending
  <2>2. /\ \A i \in 1..pos : Sending[i] \in keys
        /\ \A i \in 1..replayed : Range(queue[i]) \subseteq keys
    BY <1>4 DEF Progress
  <2>3. x \in Range(Sending) /\ x \in Queued
    <3>1. x \in Range(Sending)
      BY <1>1, <2>1 DEF Range
    <3>2. QED
      BY <1>1, <2>1, <3>1 DEF Queued, Batched
  <2>4. CASE y \in Memory \cup Range(todo)
    BY <2>3, <2>4 DEF InLine, Ahead
  <2>5. ASSUME NEW i \in 1..Len(queue), y \in Range(queue[i]) PROVE <<x, y>> \in R
    <3>1. i \notin 1..replayed
      BY <2>2, <2>5
    <3>2. CASE i = replayed + 1
      <4>1. Ordered(Sending, R) /\ y \in Range(Sending)
        BY <2>1, <2>5, <3>2 DEF InLine, QueueOrdered
      <4>2. QED
        BY <1>2, <2>1, <2>2, <4>1
    <3>3. CASE replayed + 1 < i
      <4>1. Ahead(Range(Sending), Range(queue[i]), R)
        BY <2>1, <3>3 DEF InLine, QueueOrdered
      <4>2. QED
        BY <2>3, <2>5, <4>1 DEF Ahead
    <3>4. i = replayed + 1 \/ replayed + 1 < i
      <4>1. replayed \in Nat /\ i \in Nat /\ i >= 1
        BY <1>1
      <4>2. QED
        BY <3>1, <4>1
    <3>5. QED
      BY <3>2, <3>3, <3>4
  <2>6. CASE y \in Queued
    BY <1>1, <2>5, <2>6 DEF Queued, Batched
  <2>7. QED
    BY <2>4, <2>6 DEF Way
<1>5. QED
  BY <1>3, <1>4 DEF Posting

(* Above version n, the last list's, the watch takes events one by one.    *)
Rank(n) == {x \in Event \X Event : x[2].rv > n => x[1].rv <= x[2].rv}

Line == InLine(Rank(snap))

\* A pair of events in order.
LEMMA RankIs ==
  ASSUME NEW n, NEW e \in Event, NEW f \in Event
  PROVE  <<e, f>> \in Rank(n) <=> (f.rv > n => e.rv <= f.rv)
  BY DEF Rank

\* A later list leaves less to order.
LEMMA RankWider ==
  ASSUME NEW n \in Nat, NEW m \in Nat, n <= m PROVE Rank(n) \subseteq Rank(m)
<1>1. \A e \in Event : e.rv \in Nat
  BY DEF Event
<1>2. QED
  BY <1>1 DEF Rank

\* Lists and the watch keep to the line.
LEMMA LineStep ==
  ASSUME TypeOK, Shape, Versions, Line, [Next]_vars PROVE Line'
<1>1. /\ snap \in Nat /\ ckpt \in Nat /\ Len(log) \in Nat /\ snap <= Len(log) /\ Way \subseteq Event
      /\ Range(<<>>) = {}
  BY LineType DEF TypeOK, ClusterType, WatcherType, HistoryType
<1>2. CASE List
  <2>1. PICK R : R = Rank(Len(log))
    OBVIOUS
  <2>2. PICK f \in Orders : todo' = Listing(f)
    BY <1>2 DEF List
  <2>3. snap' = Len(log) /\ Listing(f) \in Seq(Event)
    BY <1>2, ListingType DEF List
  <2>4. \A e \in Event, x \in Range(todo') : x \in Event /\ <<e, x>> \in R
    <3>1. \A x \in Range(todo') : x \in Event
      BY <2>2, <2>3 DEF Range
    <3>2. \A x \in Event : x.rv \in Nat
      BY DEF Event
    <3>3. \A x \in Range(todo') : x.rv <= Len(log)
      BY <2>2, ListingVersions
    <3>4. \A x \in Range(todo') : x \in Event /\ ~(x.rv > Len(log))
      BY <1>1, <3>1, <3>2, <3>3
    <3>5. QED
      BY <2>1, <3>4, RankIs
  <2>5. Ahead(Queued \cup Memory, Range(todo'), R)
    BY <1>1, <2>4 DEF Ahead, Way
  <2>6. Ordered(todo', R)
    BY <2>2, <2>3, <2>4 DEF Ordered, Range
  <2>7. InLine(R)
    BY <1>1, <2>1, RankWider, WiderOrder DEF Line
  <2>8. InLine(R)'
    BY <1>2, <2>5, <2>6, <2>7, InLineStep DEF List, WatchRead
  <2>9. QED
    BY <2>1, <2>3, <2>8 DEF Line
<1>3. CASE ~List
  <2>1. snap' = snap
    BY <1>3 DEF Next, Watching, Flushing, vars, history, KubernetesWrite, Write, Compact,
       ListEnqueue, ListFail, ListDone, Connect, Expired, Disconnect, WatchRead, Bookmark, Send, Receive,
       Tick, Apply, ApplyTorn, PostError, PostOK, ClearQueue, Rewrite, Spool, Signal, FinalFlush, Exit,
       Crash, Replace, Restart
  <2>2. PICK R : R = Rank(snap)
    OBVIOUS
  <2>3. ASSUME WatchRead PROVE Ahead(Queued \cup Memory, Hand', R)
    <3>1. ckpt' \in (ckpt + 1)..Len(log) /\ wl = "watch" /\ wl' = "send" /\ log' = log
      BY <2>3 DEF WatchRead, NextEvents, cluster
    <3>2. ckpt' \in 1..Len(log) /\ ckpt < ckpt' /\ Hand' = {log[ckpt']} /\ log[ckpt'].rv = ckpt'
      BY <1>1, <3>1 DEF Hand, Versions
    <3>3. log[ckpt'] \in Event
      <4>1. TypeOK' /\ Shape'
        BY ShapeStep, ClusterStep, WatcherStep, FlusherStep, ServerStep, HistoryStep, BudgetStep DEF TypeOK
      <4>2. Relevant(ckpt')
        BY <2>3 DEF WatchRead, NextEvents
      <4>3. log[ckpt'] \in Entry
        BY <3>2 DEF TypeOK, ClusterType
      <4>4. /\ log[ckpt'] = [rv |-> log[ckpt'].rv, type |-> log[ckpt'].type, obj |-> log[ckpt'].obj]
            /\ log[ckpt'].rv \in Nat /\ log[ckpt'].type \in Types
        BY <4>3 DEF Entry
      <4>5. QED
        BY <4>2, <4>4 DEF Relevant, Event
    <3>4. \A e \in Queued \cup Memory : e \in Event /\ e.rv \in Nat /\ (e.rv <= snap \/ e.rv <= ckpt)
      BY <1>1, <3>1, AllType DEF Versions, All, Known, Way
    <3>5. \A e \in Queued \cup Memory : e \in Event /\ (log[ckpt'].rv > snap => e.rv <= log[ckpt'].rv)
      BY <1>1, <3>2, <3>4
    <3>6. QED
      BY <2>2, <3>2, <3>3, <3>5, RankIs DEF Ahead
  <2>4. InLine(R)'
    BY <1>3, <2>2, <2>3, InLineStep DEF Line
  <2>5. QED
    BY <2>1, <2>2, <2>4 DEF Line
<1>4. QED
  BY <1>2, <1>3

\* The server gets a new event: all that is older is known to it already,
\* because the rest of the line is behind the event.
LEMMA NextInLine ==
  ASSUME IInv, Versions, Line, Posting, pos < Len(Sending),
         NEW q \in (snap + 1)..ckpt, Relevant(q), log[q] = Sending[pos + 1],
         NEW p \in (snap + 1)..q, p # q, Relevant(p)
  PROVE  log[p] \in keys \cup missed
<1>1. TypeOK /\ Shape /\ Progress /\ NothingSkipped
  BY DEF IInv
<1>2. /\ snap \in Nat /\ ckpt \in 0..Len(log) /\ Len(log) \in Nat /\ base \in Nat /\ base <= snap
      /\ pos \in Nat
  BY <1>1 DEF Versions, TypeOK, ClusterType, WatcherType, HistoryType, FlusherType
<1>3. p \in Nat /\ q \in Nat /\ p \in 1..Len(log) /\ q \in 1..Len(log) /\ p < q /\ p > snap
      /\ p \in (base + 1)..ckpt
  BY <1>2
<1>4. log[p].rv = p /\ log[q].rv = q
  BY <1>3 DEF Versions
<1>5. log[p] \in keys \cup Memory \cup Queued \cup missed
  BY <1>1, <1>3 DEF NothingSkipped
<1>6. ASSUME log[p] \in Way, log[p] \notin keys PROVE FALSE
  <2>1. <<log[q], log[p]>> \in Rank(snap)
    BY <1>1, <1>3, <1>4, <1>6, Behind DEF Line
  <2>2. log[p].rv > snap => log[q].rv <= log[p].rv
    BY <2>1 DEF Rank
  <2>3. QED
    BY <1>3, <1>4, <2>2
<1>7. QED
  BY <1>5, <1>6 DEF Way

\* No step breaks the order the server sees.
LEMMA InOrderStep ==
  ASSUME IInv, Versions, Line, InOrder, [Next]_vars PROVE InOrder'
<1>1. /\ TypeOK /\ Shape
      /\ snap \in Nat /\ ckpt \in 0..Len(log) /\ Len(log) \in Nat /\ lastRV \in 0..Len(log)
      /\ \A p \in 1..Len(log) : log'[p] = log[p]
  <2>1. TypeOK /\ Shape
    BY DEF IInv
  <2>2. log \in Seq(Entry) /\ ckpt \in 0..Len(log) /\ lastRV \in 0..Len(log) /\ snap \in 0..Len(log)
    BY <2>1 DEF TypeOK, ClusterType, WatcherType, HistoryType
  <2>3. Len(log) \in Nat
    BY <2>2
  <2>4. \A p \in 1..Len(log) : log'[p] = log[p]
    BY <2>1, ClusterStep DEF TypeOK
  <2>5. QED
    BY <2>1, <2>2, <2>3, <2>4
<1>2. CASE List \/ Replace
  <2>1. ckpt' = 0 /\ snap' \in Nat
    BY <1>1, <1>2 DEF List, Replace, history
  <2>2. \A n \in Nat : (n + 1)..0 = {}
    OBVIOUS
  <2>3. QED
    BY <2>1, <2>2 DEF InOrder
<1>3. CASE Apply \/ ApplyTorn
  <2>1. /\ Posting /\ pos < Len(Sending) /\ keys' = keys \cup {Sending[pos + 1]}
        /\ UNCHANGED <<log, ckpt, snap, missed>>
    BY <1>3 DEF Apply, ApplyTorn, cluster, watcher, history
  <2>2. ASSUME NEW q \in (snap + 1)..ckpt, NEW p \in (snap + 1)..q, Relevant(p), Relevant(q), log[q] \in keys'
        PROVE  log[p] \in keys' \cup missed
    <3>1. CASE log[q] \in keys
      BY <2>1, <2>2, <3>1 DEF InOrder
    <3>2. CASE log[q] = Sending[pos + 1]
      BY <2>1, <2>2, <3>2, NextInLine
    <3>3. QED
      BY <2>1, <2>2, <3>1, <3>2
  <2>3. QED
    BY <2>1, <2>2 DEF InOrder, Relevant
<1>4. CASE ~List /\ ~Replace /\ ~Apply /\ ~ApplyTorn
  <2>1. keys' = keys /\ missed \subseteq missed' /\ snap' = snap
    BY <1>4 DEF Next, Watching, Flushing, vars, server, history, KubernetesWrite, Write, Compact,
       ListEnqueue, ListFail, ListDone, Connect, Expired, Disconnect, WatchRead, Bookmark, Send, Receive,
       Tick, PostError, PostOK, ClearQueue, Rewrite, Spool, Signal, FinalFlush, Exit, Crash, Restart
  <2>2. ckpt' \in Nat /\ ckpt' <= Len(log) /\ (ckpt # 0 \/ ckpt' <= snap)
    <3>1. CASE ListDone
      BY <1>1, <3>1 DEF ListDone, SavedRV, Versions
    <3>2. CASE WatchRead \/ Bookmark
      BY <1>1, <3>2 DEF WatchRead, Bookmark, NextEvents, Versions
    <3>3. CASE Expired \/ Crash
      BY <1>1, <3>3 DEF Expired, Crash
    <3>4. CASE ckpt' = ckpt
      BY <1>1, <3>4
    <3>5. QED
      BY <1>4, <3>1, <3>2, <3>3, <3>4 DEF Next, Watching, Flushing, vars, watcher, KubernetesWrite, Write,
         Compact, ListEnqueue, ListFail, Connect, Disconnect, Send, Receive, Tick, PostError, PostOK,
         ClearQueue, Rewrite, Spool, Signal, FinalFlush, Exit, Restart
  <2>3. ASSUME NEW q \in (snap + 1)..ckpt', NEW p \in (snap + 1)..q, Relevant(p)', Relevant(q)', log'[q] \in keys
        PROVE  log'[p] \in keys \cup missed
    <3>1. /\ ckpt # 0 /\ q \in 1..Len(log) /\ p \in 1..Len(log)
          /\ log'[q] = log[q] /\ log'[p] = log[p] /\ Relevant(p) /\ Relevant(q)
      BY <1>1, <2>2, <2>3 DEF Relevant
    <3>2. log[q].rv = q /\ log[q] \in All
      BY <2>3, <3>1 DEF Versions, All, Known
    <3>3. q <= snap \/ q <= ckpt
      BY <3>1, <3>2 DEF Versions
    <3>4. q \in (snap + 1)..ckpt
      BY <1>1, <2>2, <3>3
    <3>5. QED
      BY <2>3, <3>1, <3>4 DEF InOrder
  <2>4. QED
    BY <2>1, <2>3 DEF InOrder
<1>5. QED
  BY <1>2, <1>3, <1>4

\* The server sees the events of a watch in their order, for any number of
\* objects and batches, and whatever fails, stops or is replaced.
THEOREM EventsInOrder == Spec => []InOrder
<1>1. Init => Versions /\ Line /\ InOrder
  <2> SUFFICES ASSUME Init PROVE Versions /\ Line /\ InOrder
    OBVIOUS
  <2>1. PICK o \in Objects : log = << [rv |-> 1, type |-> "ADDED", obj |-> o] >>
    BY DEF Init
  <2>2. Len(log) = 1 /\ log[1].rv = 1
    BY <2>1
  <2>3. All = {} /\ Memory = {} /\ Queued = {}
    BY EmptyElements DEF Init, All, Known, Memory, Queued, Hand, Batched
  <2>4. Versions
    BY <2>2, <2>3 DEF Init, Versions
  <2>5. Range(<<>>) = {} /\ Hand = {} /\ \A R : Ordered(<<>>, R) /\ QueueOrdered(<<>>, R)
    BY EmptyElements DEF Ordered, QueueOrdered, Hand, Init
  <2>6. Line
    BY <2>3, <2>5 DEF Init, Line, InLine, Ahead
  <2>7. QED
    BY <2>4, <2>6 DEF Init, InOrder
<1>2. IInv /\ Versions /\ Line /\ InOrder /\ [Next]_vars => (Versions /\ Line /\ InOrder)'
  BY VersionsStep, LineStep, InOrderStep DEF IInv
<1>3. QED
  BY <1>1, <1>2, Safety, PTL DEF Spec
-----------------------------------------------------------------------------
(* The strengthening that makes Converged inductive.  From a list until the*)
(* version it saved is given up, the watch is to bring the writes after    *)
(* Start.  Either the last write of an object is among them and unheard of,*)
(* or at most one write is to come and the line leads to the live version: *)
(* of what the server does not know yet nothing stale is behind an event   *)
(* that brings the live version, and if it knows all, its row is right.    *)
Value(e)   == IF e.type = "DELETED" THEN 0 ELSE e.rv
Last(o, p) == p \in 1..Len(log) /\ log[p].obj = o /\ \A q \in (p + 1)..Len(log) : log[q].obj # o

Start     == IF wl = "list" THEN lastRV ELSE ckpt
Coming(o) == {p \in (Start + 1)..Len(log) : log[p].obj = o}
Fresh(o)  == {e \in Way \ keys : e.obj = o}
Stale(o)  == {e \in Fresh(o) : Value(e) # live[o]}

Before(e, B) == {x \in Event \X Event : x[1] = e => x[2] \notin B}
Leads(o) == \/ Fresh(o) = {} /\ inventory[o] = live[o]
            \/ \E e \in Fresh(o) \ Stale(o) : InLine(Before(e, Stale(o)))

Follows(o) == \/ \E p \in Coming(o) : Last(o, p) /\ log[p] \notin All
              \/ (\A p, q \in Coming(o) : p = q) /\ Leads(o)

(* What a live object's version and an event's are versions of.            *)
Written == \A o \in Objects :
  \/ live[o] = 0 /\ \A p \in 1..Len(log) : log[p].obj # o
  \/ \E p \in 1..Len(log) : Last(o, p) /\ Value(log[p]) = live[o]
Real == \A e \in All :
  /\ e.rv \in 1..Len(log) /\ log[e.rv].obj = e.obj
  /\ e.type = "DELETED" => log[e.rv].type = "DELETED"

Watched == ckpt # 0 \/ wl = "list"
FollowInv == Watched => \A o \in Objects \ Doubtful : Follows(o)

\* The log holds entries, those of the kind are its events.
LEMMA LogType ==
  ASSUME TypeOK
  PROVE  /\ Len(log) \in Nat
         /\ \A p \in 1..Len(log) : log[p].rv \in Nat /\ log[p].type \in Types
         /\ \A p \in 1..Len(log) : Relevant(p) => log[p] \in Event
<1>1. log \in Seq(Entry)
  BY DEF TypeOK, ClusterType
<1>2. Len(log) \in Nat
  BY <1>1
<1>3. ASSUME NEW p \in 1..Len(log)
      PROVE  log[p].rv \in Nat /\ log[p].type \in Types /\ (Relevant(p) => log[p] \in Event)
  <2>1. log[p] \in Entry
    BY <1>1
  <2>2. /\ log[p] = [rv |-> log[p].rv, type |-> log[p].type, obj |-> log[p].obj]
        /\ log[p].rv \in Nat /\ log[p].type \in Types
    BY <2>1 DEF Entry
  <2>3. QED
    BY <2>2 DEF Relevant, Event
<1>4. QED
  BY <1>2, <1>3

\* What the last write of an object leaves is its live version.
LEMMA LastValue ==
  ASSUME TypeOK, Written, NEW o \in Objects, NEW p, Last(o, p)
  PROVE  Value(log[p]) = live[o]
<1>1. PICK q \in 1..Len(log) : Last(o, q) /\ Value(log[q]) = live[o]
  BY DEF Written, Last
<1>2. p = q
  BY <1>1, LogType DEF Last
<1>3. QED
  BY <1>1, <1>2

\* The last write of a live object made its version.
LEMMA LiveWrite ==
  ASSUME TypeOK, Versions, Written, NEW o \in Objects, live[o] > 0
  PROVE  Last(o, live[o]) /\ log[live[o]].type # "DELETED"
<1>1. live[o] \in Nat
  BY DEF TypeOK, ClusterType
<1>2. PICK p \in 1..Len(log) : Last(o, p) /\ Value(log[p]) = live[o]
  BY <1>1 DEF Written
<1>3. log[p].rv = p
  BY DEF Versions
<1>4. log[p].type # "DELETED" /\ live[o] = p
  BY <1>1, <1>2, <1>3 DEF Value
<1>5. QED
  BY <1>2, <1>4

\* What a write does to the log.
LEMMA WriteStep ==
  ASSUME TypeOK, NEW o, NEW t \in Types, Write(o, t)
  PROVE  /\ Len(log') = Len(log) + 1
         /\ log'[Len(log) + 1] = [rv |-> Len(log) + 1, type |-> t, obj |-> o]
         /\ \A p \in 1..Len(log) : log'[p] = log[p]
         /\ UNCHANGED <<compacted, alive, watcher, ch, flusher, queue, server, history, budget>>
         /\ \A x \in Objects \ {o} : live'[x] = live[x]
         /\ o \in Objects => live'[o] = Value(log'[Len(log) + 1])
<1>1. log \in Seq(Entry) /\ live \in [Objects -> 0..Len(log)]
  BY DEF TypeOK, ClusterType
<1>2. PICK e : e = [rv |-> Len(log) + 1, type |-> t, obj |-> o]
  OBVIOUS
<1>3. e.rv = Len(log) + 1 /\ e.type = t
  BY <1>2
<1>4. log' = Append(log, e)
  BY <1>2 DEF Write
<1>5. /\ Len(log') = Len(log) + 1 /\ log'[Len(log) + 1] = e
      /\ \A p \in 1..Len(log) : log'[p] = log[p]
  BY <1>1, <1>4
<1>6. \A x \in Objects \ {o} : live'[x] = live[x]
  BY <1>1 DEF Write
<1>7. ASSUME o \in Objects PROVE live'[o] = Value(e)
  <2>1. live'[o] = IF t = "DELETED" THEN 0 ELSE Len(log) + 1
    BY <1>1, <1>7 DEF Write
  <2>2. QED
    BY <1>3, <2>1 DEF Value
<1>8. QED
  BY <1>2, <1>5, <1>6, <1>7 DEF Write

\* A write is of an object or of another kind.
LEMMA SomeWrite ==
  ASSUME KubernetesWrite PROVE \E o \in Objects \cup {Other}, t \in Types : Write(o, t)
  BY DEF KubernetesWrite, Types

\* The last write of each object is what its live version says.
LEMMA WrittenStep ==
  ASSUME TypeOK, Written, [Next]_vars PROVE Written'
<1>1. CASE UNCHANGED <<log, live>>
  BY <1>1 DEF Written, Last
<1>2. CASE KubernetesWrite
  <2>1. PICK o \in Objects \cup {Other}, t \in Types : Write(o, t)
    BY <1>2, SomeWrite
  <2>2. PICK n \in Nat : n = Len(log)
    BY LogType
  <2>3. /\ Len(log') = n + 1 /\ log'[n + 1].obj = o /\ \A p \in 1..n : log'[p] = log[p]
        /\ \A x \in Objects \ {o} : live'[x] = live[x]
        /\ o \in Objects => live'[o] = Value(log'[n + 1])
    <3>1. /\ Len(log') = Len(log) + 1
          /\ log'[Len(log) + 1] = [rv |-> Len(log) + 1, type |-> t, obj |-> o]
          /\ \A p \in 1..Len(log) : log'[p] = log[p]
          /\ \A x \in Objects \ {o} : live'[x] = live[x]
          /\ o \in Objects => live'[o] = Value(log'[Len(log) + 1])
      BY <2>1, WriteStep
    <3>2. log'[n + 1] = [rv |-> n + 1, type |-> t, obj |-> o]
      BY <2>2, <3>1
    <3>3. log'[n + 1].obj = o
      BY <3>2
    <3>4. QED
      BY <2>2, <3>1, <3>3
  <2>4. \A p \in 1..(n + 1) : p \in 1..n \/ p = n + 1
    OBVIOUS
  <2>5. ASSUME NEW x \in Objects
        PROVE  \/ live'[x] = 0 /\ \A p \in 1..Len(log') : log'[p].obj # x
               \/ \E p \in 1..Len(log') : Last(x, p)' /\ Value(log'[p]) = live'[x]
    <3>1. CASE x = o
      <4>1. n + 1 \in 1..(n + 1) /\ \A q \in (n + 1 + 1)..(n + 1) : FALSE
        OBVIOUS
      <4>2. Last(x, n + 1)'
        BY <2>3, <3>1, <4>1 DEF Last
      <4>3. QED
        BY <2>3, <3>1, <4>1, <4>2
    <3>2. CASE x # o /\ live[x] = 0 /\ \A p \in 1..n : log[p].obj # x
      BY <2>3, <2>4, <3>2
    <3>3. CASE x # o /\ \E p \in 1..n : Last(x, p) /\ Value(log[p]) = live[x]
      <4>1. PICK p \in 1..n : Last(x, p) /\ Value(log[p]) = live[x]
        BY <3>3
      <4>2. \A q \in (p + 1)..(n + 1) : q \in (p + 1)..n \/ q = n + 1
        OBVIOUS
      <4>3. \A q \in (p + 1)..n : q \in 1..n /\ log[q].obj # x
        BY <2>2, <4>1 DEF Last
      <4>4. Last(x, p)' /\ p \in 1..(n + 1)
        BY <2>2, <2>3, <3>3, <4>1, <4>2, <4>3 DEF Last
      <4>5. QED
        BY <2>3, <3>3, <4>1, <4>4
    <3>4. QED
      BY <2>2, <3>1, <3>2, <3>3 DEF Written
  <2>6. QED
    BY <2>5 DEF Written
<1>3. QED
  BY <1>1, <1>2 DEF Next, Watching, Flushing, vars, cluster, Compact, List, ListEnqueue, ListFail,
     ListDone, Connect, Expired, Disconnect, WatchRead, Bookmark, Send, Receive, Tick, Apply, ApplyTorn,
     PostError, PostOK, ClearQueue, Rewrite, Spool, Signal, FinalFlush, Exit, Crash, Replace, Restart

\* A list has an item for each object that exists.
LEMMA ListingItems ==
  ASSUME TypeOK, NEW f \in Orders
  PROVE  /\ \A e \in Range(Listing(f)) : /\ e.type = "ADDED" /\ e.obj \in Objects
                                         /\ e.rv = live[e.obj] /\ live[e.obj] > 0
         /\ \A o \in Objects : live[o] > 0 =>
              [rv |-> live[o], type |-> "ADDED", obj |-> o] \in Range(Listing(f))
<1>1. PICK n \in Nat : n = Cardinality(Exists)
  BY FS_Subset, FS_CardinalityType DEF Exists
<1>2. /\ f \in [1..n -> Exists] /\ Exists \subseteq Objects
      /\ \A i, j \in 1..n : i < j => f[i] < f[j]
  BY <1>1 DEF Orders, Exists
<1>3. \A i \in 1..n : f[i] \in Nat
  BY <1>2
<1>4. \A i, j \in 1..n : f[i] = f[j] => i = j
  BY <1>2, <1>3
<1>5. f \in Injection(1..n, Exists)
  BY <1>2, <1>4 DEF Injection, IsInjective
<1>6. IsFiniteSet(Exists) /\ Cardinality(1..n) = n
  BY FS_Subset, FS_Interval DEF Exists
<1>7. f \in Surjection(1..n, Exists)
  BY <1>1, <1>5, <1>6, FS_Injection
<1>8. \A o \in Exists : \E i \in 1..n : f[i] = o
  BY <1>7 DEF Surjection
<1>9. /\ DOMAIN Listing(f) = 1..n
      /\ \A i \in 1..n : Listing(f)[i] = [rv |-> live[f[i]], type |-> "ADDED", obj |-> f[i]]
  BY <1>2 DEF Listing
<1>10. ASSUME NEW e \in Range(Listing(f))
       PROVE  e.type = "ADDED" /\ e.obj \in Objects /\ e.rv = live[e.obj] /\ live[e.obj] > 0
  <2>1. PICK i \in 1..n : e = [rv |-> live[f[i]], type |-> "ADDED", obj |-> f[i]]
    BY <1>9 DEF Range
  <2>2. f[i] \in Exists
    BY <1>2
  <2>3. QED
    BY <2>1, <2>2 DEF Exists
<1>11. ASSUME NEW o \in Objects, live[o] > 0
       PROVE  [rv |-> live[o], type |-> "ADDED", obj |-> o] \in Range(Listing(f))
  <2>1. PICK i \in 1..n : f[i] = o
    BY <1>8, <1>11 DEF Exists
  <2>2. QED
    BY <1>9, <2>1 DEF Range
<1>12. QED
  BY <1>10, <1>11
\* An object that was written has a last write, which left its live version.
LEMMA LastWrite ==
  ASSUME TypeOK, Written, NEW o \in Objects, NEW p \in 1..Len(log), log[p].obj = o
  PROVE  \E q \in 1..Len(log) : Last(o, q) /\ p <= q /\ Value(log[q]) = live[o]
<1>1. PICK q \in 1..Len(log) : Last(o, q) /\ Value(log[q]) = live[o]
  BY DEF Written
<1>2. p <= q
  BY <1>1, LogType DEF Last
<1>3. QED
  BY <1>1, <1>2

\* A list and the watch bring in these.
LEMMA News ==
  ASSUME TypeOK, Shape, Versions
  PROVE  /\ List => /\ All' = All \cup Range(todo') /\ Way' = Memory \cup Queued \cup Range(todo')
                    /\ Memory' = Memory /\ Queued' = Queued /\ Way = Memory \cup Queued
                    /\ UNCHANGED <<log, live, keys, inventory, missed>>
         /\ WatchRead => /\ All' = All \cup {log[ckpt']} /\ Way' = Way \cup {log[ckpt']}
                         /\ Hand' = {log[ckpt']} /\ Way = Memory \cup Queued
                         /\ UNCHANGED <<log, live, keys, inventory, missed, blurred>>
<1>1. Range(<<>>) = {}
  BY EmptyElements
<1>2. ASSUME List
      PROVE  /\ All' = All \cup Range(todo') /\ Way' = Memory \cup Queued \cup Range(todo')
             /\ Memory' = Memory /\ Queued' = Queued /\ Way = Memory \cup Queued
             /\ UNCHANGED <<log, live, keys, inventory, missed>>
  <2>1. /\ UNCHANGED <<ch, pending, batch, queue, keys, inventory, log, live, missed>>
        /\ wl = "top" /\ wl' = "list"
    BY <1>2 DEF List, flusher, server, cluster
  <2>2. todo = <<>> /\ Hand = {} /\ Hand' = {}
    BY <2>1 DEF Versions, Hand
  <2>3. Memory' = Memory /\ Queued' = Queued
    BY <2>1, <2>2 DEF Memory, Queued
  <2>4. QED
    BY <1>1, <2>1, <2>2, <2>3 DEF All, Known, Way
<1>3. ASSUME WatchRead
      PROVE  /\ All' = All \cup {log[ckpt']} /\ Way' = Way \cup {log[ckpt']}
             /\ Hand' = {log[ckpt']} /\ Way = Memory \cup Queued
             /\ UNCHANGED <<log, live, keys, inventory, missed, blurred>>
  <2>1. /\ UNCHANGED <<ch, pending, batch, queue, keys, inventory, log, live, missed, blurred, todo>>
        /\ wl = "watch" /\ wl' = "send"
    BY <1>3 DEF WatchRead, flusher, server, cluster, history
  <2>2. todo = <<>> /\ Hand = {} /\ Hand' = {log[ckpt']}
    BY <2>1 DEF Versions, Hand
  <2>3. Memory' = Memory \cup {log[ckpt']} /\ Queued' = Queued
    BY <2>1, <2>2 DEF Memory, Queued
  <2>4. QED
    BY <1>1, <2>1, <2>2, <2>3 DEF All, Known, Way
<1>4. QED
  BY <1>2, <1>3

\* The watch takes the next write of the kind.
LEMMA NextWrite ==
  ASSUME TypeOK, Shape, Versions, WatchRead
  PROVE  /\ ckpt' \in (ckpt + 1)..Len(log) /\ ckpt' \in 1..Len(log) /\ Relevant(ckpt')
         /\ \A q \in NextEvents : ckpt' <= q
         /\ log[ckpt'] \in Event /\ log[ckpt'].rv = ckpt'
<1>1. ckpt \in Nat /\ Len(log) \in Nat
  BY LogType DEF TypeOK, WatcherType
<1>2. /\ ckpt' \in (ckpt + 1)..Len(log) /\ Relevant(ckpt')
      /\ \A q \in NextEvents : ckpt' <= q
  BY DEF WatchRead, NextEvents
<1>3. ckpt' \in 1..Len(log)
  BY <1>1, <1>2
<1>4. log[ckpt'] \in Event
  BY <1>2, <1>3, LogType
<1>5. log[ckpt'].rv = ckpt'
  BY <1>3 DEF Versions
<1>6. QED
  BY <1>2, <1>3, <1>4, <1>5

\* An event tells of a write of its object, a list item of one that left it live.
LEMMA RealStep ==
  ASSUME TypeOK, Shape, Versions, Written, Real, [Next]_vars PROVE Real'
<1> DEFINE Told(e) == /\ e.rv \in 1..Len(log) /\ log[e.rv].obj = e.obj
                      /\ e.type = "DELETED" => log[e.rv].type = "DELETED"
<1>1. Len(log) \in Nat /\ Len(log') \in Nat /\ Len(log) <= Len(log')
      /\ \A p \in 1..Len(log) : log'[p] = log[p] /\ p \in 1..Len(log')
  BY LogType, ClusterStep DEF TypeOK
<1>2. \A e \in All : Told(e)
  BY DEF Real
<1>3. \A e \in All' : Told(e)
  <2>1. CASE List
    <3>1. PICK f \in Orders : todo' = Listing(f)
      BY <2>1 DEF List
    <3>2. ASSUME NEW e \in Range(todo') PROVE Told(e)
      <4>1. e.type = "ADDED" /\ e.obj \in Objects /\ e.rv = live[e.obj] /\ live[e.obj] > 0
        BY <3>1, <3>2, ListingItems
      <4>2. Last(e.obj, live[e.obj])
        BY <4>1, LiveWrite
      <4>3. QED
        BY <4>1, <4>2 DEF Last
    <3>3. QED
      BY <1>2, <2>1, <3>2, News
  <2>2. CASE WatchRead
    <3>1. Told(log[ckpt'])
      BY <2>2, NextWrite
    <3>2. QED
      BY <1>2, <2>2, <3>1, News
  <2>3. CASE ~List /\ ~WatchRead
    BY <1>2, <2>3, NothingNew
  <2>4. QED
    BY <2>1, <2>2, <2>3
<1>4. QED
  BY <1>1, <1>3 DEF Real

\* Doubts are for good.
LEMMA DoubtsStay == ASSUME [Next]_vars PROVE Doubtful \subseteq Doubtful'
<1>1. missed \subseteq missed' /\ blurred \subseteq blurred'
  BY DEF Next, Watching, Flushing, vars, history, KubernetesWrite, Write, Compact, List,
     ListEnqueue, ListFail, ListDone, Connect, Expired, Disconnect, WatchRead, Bookmark, Send, Receive,
     Tick, Apply, ApplyTorn, PostError, PostOK, ClearQueue, Rewrite, Spool, Signal, FinalFlush, Exit,
     Crash, Replace, Restart
<1>2. QED
  BY <1>1 DEF Doubtful

\* The event the server is at is on its way.
LEMMA SendingOnWay ==
  ASSUME TypeOK, Shape, Posting, pos < Len(Sending)
  PROVE  Sending[pos + 1] \in Way /\ Sending[pos + 1] \in Event
<1>1. /\ batch \in Seq(Event) /\ queue \in Seq(Seq(Event)) /\ pos \in Nat /\ Sending \in Seq(Event)
  BY LineType, ContentsType DEF TypeOK, FlusherType
<1>2. pos + 1 \in 1..Len(Sending) /\ Sending[pos + 1] \in Range(Sending)
  BY <1>1 DEF Range
<1>3. Range(Sending) \subseteq Range(batch) \cup Queued
  <2>1. CASE fpc = "replay"
    <3>1. replayed + 1 \in DOMAIN queue /\ Sending = queue[replayed + 1]
      BY <1>1, <2>1 DEF Shape, TypeOK, FlusherType, Sending
    <3>2. QED
      BY <3>1 DEF Queued, Batched
  <2>2. CASE fpc # "replay"
    BY <2>2 DEF Sending
  <2>3. QED
    BY <2>1, <2>2
<1>4. QED
  BY <1>1, <1>2, <1>3, ContentsType DEF Way, Memory

\* While the version is kept the items of a list stay until they are enqueued.
LEMMA TodoKept ==
  ASSUME TypeOK, Shape, Versions, [Next]_vars, ~List, Watched'
  PROVE  Range(todo) \subseteq Range(todo') \cup Range(ch')
<1>1. todo \in Seq(Event) /\ ch \in Seq(Event) /\ Range(<<>>) = {}
  BY LineType
<1>2. CASE todo' = todo
  BY <1>2
<1>3. CASE todo = <<>>
  BY <1>1, <1>3
<1>4. CASE ListEnqueue
  BY <1>1, <1>4, TailElements, AppendElements DEF ListEnqueue
<1>5. CASE ListFail \/ Exit \/ Crash \/ Replace
  <2>1. wl' = "top" /\ (ckpt' = ckpt \/ ckpt' = 0)
    BY <1>5 DEF ListFail, Exit, Crash, Replace, Gone
  <2>2. ckpt # 0
    BY <2>1 DEF Watched
  <2>3. todo = <<>>
    BY <2>2 DEF Versions
  <2>4. QED
    BY <1>3, <2>3
<1>6. QED
  BY <1>2, <1>4, <1>5 DEF Next, Watching, Flushing, vars, watcher, KubernetesWrite, Write, Compact,
     ListDone, Connect, Expired, Disconnect, WatchRead, Bookmark, Send, Receive,
     Tick, Apply, ApplyTorn, PostError, PostOK, ClearQueue, Rewrite, Spool, Signal, FinalFlush, Restart
\* But for the pod's replacement the server forgets nothing.
LEMMA KeysGrow ==
  ASSUME [Next]_vars, ~Replace
  PROVE  /\ keys \subseteq keys'
         /\ keys' # keys => /\ Apply \/ ApplyTorn
                            /\ keys' = keys \cup {Sending[pos + 1]}
  BY DEF Next, Watching, Flushing, vars, server, KubernetesWrite, Write, Compact, List,
     ListEnqueue, ListFail, ListDone, Connect, Expired, Disconnect, WatchRead, Bookmark, Send, Receive,
     Tick, Apply, ApplyTorn, PostError, PostOK, ClearQueue, Rewrite, Spool, Signal, FinalFlush, Exit,
     Crash, Restart

\* A row changes when the server applies a new event of the object.
LEMMA RowKept ==
  ASSUME TypeOK, [Next]_vars, NEW o \in Objects,
         Apply => Sending[pos + 1].obj # o \/ Sending[pos + 1] \in keys
  PROVE  inventory'[o] = inventory[o]
<1>1. CASE Apply
  <2>1. PICK x : x = Sending[pos + 1]
    OBVIOUS
  <2>2. inventory' = IF x \in keys THEN inventory
                     ELSE [inventory EXCEPT ![x.obj] = IF x.type = "DELETED" THEN 0 ELSE x.rv]
    BY <1>1, <2>1 DEF Apply
  <2>3. x.obj # o \/ x \in keys
    BY <1>1, <2>1
  <2>4. inventory \in [Objects -> Nat]
    BY DEF TypeOK, ServerType
  <2>5. QED
    BY <2>2, <2>3, <2>4
<1>2. CASE UNCHANGED inventory
  BY <1>2
<1>3. QED
  BY <1>1, <1>2 DEF Next, Watching, Flushing, vars, server, KubernetesWrite, Write, Compact, List,
     ListEnqueue, ListFail, ListDone, Connect, Expired, Disconnect, WatchRead, Bookmark, Send, Receive,
     Tick, ApplyTorn, PostError, PostOK, ClearQueue, Rewrite, Spool, Signal, FinalFlush, Exit,
     Crash, Replace, Restart

\* What the server is to learn of an object in no doubt changes with a list, a
\* new event from the watch, or one the server applies.
LEMMA FreshKept ==
  ASSUME TypeOK, Shape, Progress, Versions, [Next]_vars, ~List, ~WatchRead, Watched',
         NEW o \in Objects, o \notin Doubtful',
         Apply => Sending[pos + 1].obj # o \/ Sending[pos + 1] \in keys
  PROVE  Fresh(o)' = Fresh(o)
<1>1. ~Replace
  BY DEF Replace, Gone, Watched
<1>2. keys \subseteq keys' /\ (keys' # keys => (Apply \/ ApplyTorn) /\ keys' = keys \cup {Sending[pos + 1]})
  BY <1>1, KeysGrow
<1>3. ASSUME NEW e \in Fresh(o)' PROVE e \in Fresh(o)
  <2>1. e \in Way' /\ e \notin keys' /\ e.obj = o
    BY <1>3 DEF Fresh
  <2>2. e \in All' /\ e \notin keys
    BY <1>2, <2>1 DEF All, Known, Way
  <2>3. e \in All
    BY <2>2, NothingNew
  <2>4. QED
    BY <2>1, <2>2, <2>3 DEF All, Known, Way, Fresh
<1>4. ASSUME NEW e \in Fresh(o) PROVE e \in Fresh(o)'
  <2>1. e \in Way /\ e \notin keys /\ e.obj = o
    BY <1>4 DEF Fresh
  <2>2. e \notin missed' /\ o \notin blurred'
    BY <2>1 DEF Doubtful
  <2>3. e \notin keys'
    <3>1. CASE Apply
      BY <1>2, <2>1, <3>1
    <3>2. CASE ApplyTorn
      <4>1. Sending[pos + 1].obj \in blurred'
        BY <3>2 DEF ApplyTorn
      <4>2. QED
        BY <1>2, <2>1, <2>2, <4>1
    <3>3. QED
      BY <1>2, <2>1, <3>1, <3>2
  <2>4. CASE e \in Memory \cup Queued
    <3>1. e \in (Known \cup missed)'
      BY <1>1, <2>4, Conserved DEF Known
    <3>2. QED
      BY <2>1, <2>2, <2>3, <3>1 DEF Known, Way, Fresh
  <2>5. CASE e \in Range(todo)
    <3>1. e \in Range(todo') \cup Range(ch')
      BY <2>5, TodoKept
    <3>2. QED
      BY <2>1, <2>3, <3>1 DEF Way, Memory, Fresh
  <2>6. QED
    BY <2>1, <2>4, <2>5 DEF Way
<1>5. QED
  BY <1>3, <1>4

\* The watch starts after the version of the list, or after the saved one.
LEMMA StartKept ==
  ASSUME Versions, [Next]_vars, ~List, ~WatchRead, ~Bookmark, Watched'
  PROVE  Start' = Start
<1>1. CASE ListDone
  BY <1>1 DEF ListDone, SavedRV, Start
<1>2. CASE ListFail \/ Expired \/ Exit \/ Crash \/ Replace
  <2>1. /\ wl' # "list" /\ (ckpt' = ckpt \/ ckpt' = 0)
    BY <1>2 DEF ListFail, Expired, Exit, Crash, Replace, Gone
  <2>2. ckpt' # 0 /\ ckpt' = ckpt
    BY <2>1 DEF Watched
  <2>3. wl # "list"
    BY <2>2 DEF Versions
  <2>4. QED
    BY <2>1, <2>2, <2>3 DEF Start
<1>3. CASE ListEnqueue \/ Connect \/ Disconnect \/ Send
  BY <1>3 DEF ListEnqueue, Connect, Disconnect, Send, Start
<1>4. CASE UNCHANGED watcher
  BY <1>4 DEF watcher, Start
<1>5. QED
  BY <1>1, <1>2, <1>3, <1>4 DEF Next, Watching, Flushing, vars, KubernetesWrite, Write, Compact, Receive,
     Tick, Apply, ApplyTorn, PostError, PostOK, ClearQueue, Rewrite, Spool, Signal, FinalFlush, Restart

LEMMA StartType == ASSUME TypeOK PROVE Start \in 0..Len(log) /\ Start \in Nat
  BY LogType DEF TypeOK, WatcherType, Start

\* The writes the watch is to bring of an object.
LEMMA ComingKept ==
  ASSUME TypeOK, Versions, [Next]_vars, ~List, ~WatchRead, Watched', NEW o \in Objects,
         \A t \in Types : ~Write(o, t)
  PROVE  Coming(o)' = Coming(o)
<1>1. CASE Bookmark
  <2>1. /\ NextEvents = {} /\ Start = ckpt /\ Start' = Len(log') /\ log' = log
    BY <1>1 DEF Bookmark, Start, cluster
  <2>2. Coming(o) = {}
    BY <2>1 DEF Coming, NextEvents, Relevant
  <2>3. Coming(o)' = {}
    <3>1. Len(log') \in Nat
      BY <2>1, LogType
    <3>2. \A p \in (Len(log') + 1)..Len(log') : FALSE
      BY <3>1
    <3>3. QED
      BY <2>1, <3>2 DEF Coming
  <2>4. QED
    BY <2>2, <2>3
<1>2. CASE KubernetesWrite
  <2>1. PICK x \in Objects \cup {Other}, t \in Types : Write(x, t)
    BY <1>2, SomeWrite
  <2>2. PICK n \in Nat : n = Len(log)
    BY LogType
  <2>3. PICK s \in Nat : s = Start /\ s <= n
    BY <2>2, StartType
  <2>4. Start' = Start
    BY <2>1, WriteStep DEF watcher, Start
  <2>5. Len(log') = n + 1 /\ \A p \in 1..n : log'[p] = log[p]
    BY <2>1, <2>2, WriteStep
  <2>6. log'[n + 1].obj # o
    <3>1. log'[n + 1] = [rv |-> n + 1, type |-> t, obj |-> x]
      BY <2>1, <2>2, WriteStep
    <3>2. x # o
      BY <2>1
    <3>3. QED
      BY <3>1, <3>2
  <2>7. \A p : p \in (s + 1)..(n + 1) <=> (p \in (s + 1)..n /\ p \in 1..n) \/ p = n + 1
    BY <2>3
  <2>8. QED
    BY <2>2, <2>3, <2>4, <2>5, <2>6, <2>7 DEF Coming
<1>3. CASE ~Bookmark /\ ~KubernetesWrite
  <2>1. Start' = Start
    BY <1>3, StartKept
  <2>2. log' = log
    BY <1>3 DEF Next, Watching, Flushing, vars, cluster, Compact, ListEnqueue, ListFail,
       ListDone, Connect, Expired, Disconnect, Send, Receive, Tick, Apply, ApplyTorn,
       PostError, PostOK, ClearQueue, Rewrite, Spool, Signal, FinalFlush, Exit, Crash, Replace, Restart
  <2>3. QED
    BY <2>1, <2>2 DEF Coming
<1>4. QED
  BY <1>1, <1>2, <1>3

\* A line without the pairs that matter.
LEMMA AllInLine ==
  ASSUME TypeOK, Shape, NEW R, \A x, y \in Way : <<x, y>> \in R
  PROVE  InLine(R)
<1>1. /\ ch \in Seq(Event) /\ pending \in Seq(Event) /\ batch \in Seq(Event)
      /\ queue \in Seq(Seq(Event)) /\ todo \in Seq(Event)
  BY LineType
<1>2. ASSUME NEW s \in Seq(Event), Range(s) \subseteq Way PROVE Ordered(s, R)
  BY <1>2 DEF Ordered, Range
<1>3. /\ Range(ch) \subseteq Way /\ Range(pending) \subseteq Way /\ Range(batch) \subseteq Way
      /\ Range(todo) \subseteq Way /\ Hand \subseteq Way /\ Memory \subseteq Way /\ Queued \subseteq Way
  BY DEF Way, Memory
<1>4. \A i \in 1..Len(queue) : queue[i] \in Seq(Event) /\ Range(queue[i]) \subseteq Way
  <2>1. \A i \in 1..Len(queue) : queue[i] \in Seq(Event) /\ i \in DOMAIN queue
    BY <1>1
  <2>2. QED
    BY <1>3, <2>1 DEF Queued, Batched
<1>5. QueueOrdered(queue, R)
  BY <1>2, <1>4 DEF QueueOrdered, Ahead
<1>6. QED
  BY <1>1, <1>2, <1>3, <1>5 DEF InLine, Ahead

\* A list or the watch brings in events.
LEMMA NewEvents ==
  ASSUME TypeOK, Shape, Versions, [Next]_vars
  PROVE  /\ List => todo' \in Seq(Event) /\ Range(todo') \subseteq Event
         /\ WatchRead => Hand' \subseteq Event
<1>1. ASSUME List PROVE todo' \in Seq(Event) /\ Range(todo') \subseteq Event
  <2>1. todo' \in Seq(Event)
    BY <1>1, ListingType DEF List
  <2>2. QED
    BY <2>1 DEF Range
<1>2. ASSUME WatchRead PROVE Hand' \subseteq Event
  BY <1>2, News, NextWrite
<1>3. QED
  BY <1>1, <1>2

\* Where nothing stale is left, any order will do.
LEMMA FreeLine ==
  ASSUME TypeOK, Shape, Versions, [Next]_vars, NEW CONSTANT e
  PROVE  InLine(Before(e, {}))'
<1>1. PICK R : R = Before(e, {})
  OBVIOUS
<1>2. \A x, y \in Event : <<x, y>> \in R
  BY <1>1 DEF Before
<1>3. InLine(R)
  BY <1>2, LineType, AllInLine
<1>4. List => Ordered(todo', R) /\ Ahead(Queued \cup Memory, Range(todo'), R)
  BY <1>2, LineType, NewEvents DEF Ordered, Ahead, Range
<1>5. WatchRead => Ahead(Queued \cup Memory, Hand', R)
  BY <1>2, LineType, NewEvents DEF Ahead
<1>6. InLine(R)'
  BY <1>3, <1>4, <1>5, InLineStep
<1>7. QED
  BY <1>1, <1>6
\* The server does not know all, and a fresh event that is right leads.
LEMMA LeadsFree ==
  ASSUME TypeOK, Shape, Versions, [Next]_vars, NEW o \in Objects,
         Stale(o)' = {}, Fresh(o)' = {} => inventory'[o] = live'[o]
  PROVE  Leads(o)'
<1>1. CASE Fresh(o)' = {}
  BY <1>1 DEF Leads
<1>2. CASE Fresh(o)' # {}
  <2>1. PICK e : e \in Fresh(o)'
    BY <1>2
  <2>2. InLine(Before(e, {}))'
    BY FreeLine
  <2>3. InLine(Before(e, Stale(o)))'
    BY <2>2
  <2>4. QED
    BY <2>1, <2>3 DEF Leads
<1>3. QED
  BY <1>1, <1>2

\* An event that leads does so until the server gets it.
LEMMA LeadsKept ==
  ASSUME TypeOK, Shape, Versions, [Next]_vars, NEW o \in Objects, NEW CONSTANT e, NEW CONSTANT B,
         InLine(Before(e, B)), e \in Fresh(o)', e \notin Stale(o)', Stale(o)' \subseteq B,
         List => \A x \in Range(todo') : x \notin B,
         WatchRead => \A x \in Hand' : x \notin B
  PROVE  Leads(o)'
<1>1. PICK R : R = Before(e, B)
  OBVIOUS
<1>2. \A x \in Event, y \in Event : y \notin B => <<x, y>> \in R
  BY <1>1 DEF Before
<1>3. List => Ordered(todo', R) /\ Ahead(Queued \cup Memory, Range(todo'), R)
  BY <1>2, LineType, NewEvents DEF Ordered, Ahead, Range
<1>4. WatchRead => Ahead(Queued \cup Memory, Hand', R)
  BY <1>2, LineType, NewEvents DEF Ahead
<1>5. PICK C : C = Stale(o)'
  OBVIOUS
<1>6. PICK Q : Q = Before(e, C)
  OBVIOUS
<1>7. R \subseteq Q
  BY <1>1, <1>5, <1>6 DEF Before
<1>8. InLine(Q)
  BY <1>1, <1>7, WiderOrder
<1>9. List => Ordered(todo', Q) /\ Ahead(Queued \cup Memory, Range(todo'), Q)
  BY <1>3, <1>7 DEF Ordered, Ahead
<1>10. WatchRead => Ahead(Queued \cup Memory, Hand', Q)
  BY <1>4, <1>7 DEF Ahead
<1>11. InLine(Q)'
  BY <1>8, <1>9, <1>10, InLineStep
<1>12. InLine(Before(e, Stale(o)))'
  BY <1>5, <1>6, <1>11
<1>13. QED
  BY <1>12 DEF Leads

\* The last write of an object stays the last one while no other comes.
LEMMA LastKept ==
  ASSUME TypeOK, [Next]_vars, NEW o \in Objects, NEW p, Last(o, p), \A t \in Types : ~Write(o, t)
  PROVE  Last(o, p)' /\ log'[p] = log[p]
<1>1. CASE KubernetesWrite
  <2>1. PICK x \in Objects \cup {Other}, t \in Types : Write(x, t)
    BY <1>1, SomeWrite
  <2>2. PICK n \in Nat : n = Len(log)
    BY LogType
  <2>3. Len(log') = n + 1 /\ \A q \in 1..n : log'[q] = log[q]
    BY <2>1, <2>2, WriteStep
  <2>4. log'[n + 1].obj # o
    <3>1. log'[n + 1] = [rv |-> n + 1, type |-> t, obj |-> x]
      BY <2>1, <2>2, WriteStep
    <3>2. x # o
      BY <2>1
    <3>3. QED
      BY <3>1, <3>2
  <2>5. p \in 1..n /\ p \in 1..(n + 1) /\ log[p].obj = o /\ \A q \in (p + 1)..n : log[q].obj # o /\ q \in 1..n
    BY <2>2 DEF Last
  <2>6. \A q \in (p + 1)..(n + 1) : q \in (p + 1)..n \/ q = n + 1
    BY <2>5
  <2>7. QED
    BY <2>3, <2>4, <2>5, <2>6 DEF Last
<1>2. CASE log' = log
  BY <1>2 DEF Last
<1>3. QED
  BY <1>1, <1>2 DEF Next, Watching, Flushing, vars, cluster, Compact, List, ListEnqueue, ListFail,
     ListDone, Connect, Expired, Disconnect, WatchRead, Bookmark, Send, Receive, Tick, Apply, ApplyTorn,
     PostError, PostOK, ClearQueue, Rewrite, Spool, Signal, FinalFlush, Exit, Crash, Replace, Restart

LEMMA LiveKept ==
  ASSUME TypeOK, [Next]_vars, NEW o \in Objects, \A t \in Types : ~Write(o, t)
  PROVE  live'[o] = live[o]
<1>1. CASE KubernetesWrite
  <2>1. PICK x \in Objects \cup {Other}, t \in Types : Write(x, t)
    BY <1>1, SomeWrite
  <2>2. \A y \in Objects \ {x} : live'[y] = live[y]
    BY <2>1, WriteStep
  <2>3. x # o
    BY <2>1
  <2>4. QED
    BY <2>2, <2>3
<1>2. CASE live' = live
  BY <1>2
<1>3. QED
  BY <1>1, <1>2 DEF Next, Watching, Flushing, vars, cluster, Compact, List, ListEnqueue, ListFail,
     ListDone, Connect, Expired, Disconnect, WatchRead, Bookmark, Send, Receive, Tick, Apply, ApplyTorn,
     PostError, PostOK, ClearQueue, Rewrite, Spool, Signal, FinalFlush, Exit, Crash, Replace, Restart

\* A write of the object is the last one, and the watch has yet to bring it.
LEMMA WriteFollows ==
  ASSUME TypeOK, Shape, Versions, [Next]_vars, NEW o \in Objects, NEW t \in Types, Write(o, t)
  PROVE  Follows(o)'
<1>1. PICK n \in Nat : n = Len(log)
  BY LogType
<1>2. Len(log') = n + 1 /\ log'[n + 1] = [rv |-> n + 1, type |-> t, obj |-> o]
  BY <1>1, WriteStep
<1>3. log'[n + 1].obj = o /\ log'[n + 1].rv = n + 1
  BY <1>2
<1>4. UNCHANGED watcher /\ ~List /\ ~WatchRead
  <2>1. UNCHANGED watcher /\ log' # log
    BY <1>1, <1>2, WriteStep
  <2>2. QED
    BY <2>1 DEF List, WatchRead, cluster
<1>5. PICK s \in Nat : s = Start' /\ s <= n
  BY <1>1, <1>4, StartType DEF watcher, Start
<1>6. n + 1 \in (s + 1)..(n + 1) /\ n + 1 \in 1..(n + 1) /\ \A q \in (n + 1 + 1)..(n + 1) : FALSE
  <2>1. s <= n
    BY <1>5
  <2>2. n + 1 \in (s + 1)..(n + 1)
    BY <2>1
  <2>3. n + 1 \in 1..(n + 1) /\ \A q \in (n + 1 + 1)..(n + 1) : FALSE
    OBVIOUS
  <2>4. QED
    BY <2>2, <2>3
<1>7. n + 1 \in Coming(o)' /\ Last(o, n + 1)'
  BY <1>2, <1>3, <1>5, <1>6 DEF Coming, Last
<1>8. log'[n + 1] \notin All'
  <2>1. All' \subseteq All
    BY <1>4, NothingNew
  <2>2. \A e \in All : e.rv \in Nat /\ e.rv <= n
    BY <1>1, AllType DEF Versions
  <2>3. QED
    BY <1>1, <1>3, <2>1, <2>2
<1>9. QED
  BY <1>7, <1>8 DEF Follows

\* Most steps do not concern an object.
LEMMA OthersFollow ==
  ASSUME TypeOK, Shape, Progress, Versions, [Next]_vars, ~List, ~WatchRead, Watched',
         NEW o \in Objects, o \notin Doubtful', Follows(o), \A t \in Types : ~Write(o, t),
         Apply => Sending[pos + 1].obj # o \/ Sending[pos + 1] \in keys
  PROVE  Follows(o)'
<1>1. /\ Fresh(o)' = Fresh(o) /\ live'[o] = live[o] /\ inventory'[o] = inventory[o]
      /\ Coming(o)' = Coming(o) /\ All' \subseteq All
  BY FreshKept, LiveKept, RowKept, ComingKept, NothingNew
<1>2. Stale(o)' = Stale(o)
  BY <1>1 DEF Stale
<1>3. CASE \E p \in Coming(o) : Last(o, p) /\ log[p] \notin All
  <2>1. PICK p \in Coming(o) : Last(o, p) /\ log[p] \notin All
    BY <1>3
  <2>2. Last(o, p)' /\ log'[p] = log[p]
    BY <2>1, LastKept
  <2>3. QED
    BY <1>1, <2>1, <2>2 DEF Follows
<1>4. CASE (\A p, q \in Coming(o) : p = q) /\ Leads(o)
  <2>1. \A p, q \in Coming(o)' : p = q
    BY <1>1, <1>4
  <2>2. CASE Fresh(o) = {} /\ inventory[o] = live[o]
    BY <1>1, <2>1, <2>2 DEF Follows, Leads
  <2>3. ASSUME NEW e \in Fresh(o) \ Stale(o), InLine(Before(e, Stale(o))) PROVE Leads(o)'
    <3>1. PICK f, B : f = e /\ B = Stale(o)
      OBVIOUS
    <3>2. InLine(Before(f, B))
      BY <2>3, <3>1
    <3>3. f \in Fresh(o)' /\ f \notin Stale(o)' /\ Stale(o)' \subseteq B
      BY <1>1, <1>2, <2>3, <3>1
    <3>4. QED
      BY <3>2, <3>3, LeadsKept
  <2>4. Leads(o)'
    BY <1>1, <1>4, <2>2, <2>3 DEF Leads
  <2>5. QED
    BY <2>1, <2>4 DEF Follows
<1>5. QED
  BY <1>3, <1>4 DEF Follows
\* An event the server applies is neither a list nor from the watch.
LEMMA Inert == ASSUME TypeOK, Apply PROVE ~List /\ ~WatchRead
<1>1. pos \in Nat /\ pos' = pos + 1
  BY DEF TypeOK, FlusherType, Apply
<1>2. pos' # pos
  BY <1>1
<1>3. QED
  BY <1>2 DEF List, WatchRead, flusher
\* The server applies a new event of the object: either it leads, and what it
\* leaves behind is no longer stale, or the event that leads is yet to come.
LEMMA ApplyFollows ==
  ASSUME TypeOK, Shape, Progress, Versions, [Next]_vars, Apply, Watched', NEW o \in Objects, Follows(o),
         Sending[pos + 1].obj = o, Sending[pos + 1] \notin keys
  PROVE  Follows(o)'
<1>1. PICK x : x = Sending[pos + 1]
  OBVIOUS
<1>2. /\ Posting /\ pos < Len(Sending) /\ keys' = keys \cup {x}
      /\ inventory' = [inventory EXCEPT ![x.obj] = IF x.type = "DELETED" THEN 0 ELSE x.rv]
      /\ UNCHANGED <<log, live, compacted, wl, ckpt, todo, lastRV, ch, pending, batch, queue>>
  BY <1>1 DEF Apply, cluster, watcher
<1>3. x \in Event /\ x \in Way
  BY <1>1, <1>2, SendingOnWay
<1>4. /\ inventory'[o] = Value(x) /\ live' = live /\ Way' = Way /\ Coming(o)' = Coming(o)
      /\ All' \subseteq All /\ \A p : Last(o, p)' <=> Last(o, p)
  <2>1. inventory \in [Objects -> Nat] /\ x.obj = o
    BY <1>1 DEF TypeOK, ServerType
  <2>2. inventory'[o] = Value(x)
    BY <1>2, <2>1 DEF Value
  <2>3. Way' = Way /\ Coming(o)' = Coming(o) /\ \A p : Last(o, p)' <=> Last(o, p)
    BY <1>2 DEF Way, Memory, Hand, Queued, Coming, Start, Last
  <2>4. All' \subseteq All
    BY <1>2, <1>3, <2>3 DEF All, Known, Way
  <2>5. QED
    BY <1>2, <2>2, <2>3, <2>4
<1>5. Fresh(o)' = Fresh(o) \ {x} /\ Stale(o)' = Stale(o) \ {x} /\ x \in Fresh(o)
  BY <1>1, <1>2, <1>3, <1>4 DEF Fresh, Stale
<1>6. CASE \E p \in Coming(o) : Last(o, p) /\ log[p] \notin All
  BY <1>2, <1>4, <1>6 DEF Follows
<1>7. CASE (\A p, q \in Coming(o) : p = q) /\ Leads(o)
  <2>1. PICK e, B : e \in Fresh(o) \ Stale(o) /\ B = Stale(o) /\ InLine(Before(e, B))
    BY <1>5, <1>7 DEF Leads
  <2>2. CASE e = x
    <3>1. \A y \in Way \ keys : y # x => y \notin B
      <4>1. ASSUME NEW y \in Way, y \notin keys, y # x PROVE y \notin B
        <5>1. PICK R : R = Before(e, B)
          OBVIOUS
        <5>2. <<x, y>> \in R
          BY <1>1, <1>2, <2>1, <4>1, <5>1, Behind
        <5>3. QED
          BY <2>2, <5>1, <5>2 DEF Before
      <4>2. QED
        BY <4>1
    <3>2. Stale(o)' = {}
      BY <1>5, <2>1, <2>2, <3>1 DEF Stale, Fresh
    <3>3. Value(x) = live[o]
      BY <2>1, <2>2 DEF Stale
    <3>4. Leads(o)'
      BY <1>4, <3>2, <3>3, LeadsFree
    <3>5. QED
      BY <1>4, <1>7, <3>4 DEF Follows
  <2>3. CASE e # x
    <3>1. e \in Fresh(o)' /\ e \notin Stale(o)' /\ Stale(o)' \subseteq B
      BY <1>5, <2>1, <2>3
    <3>2. ~List /\ ~WatchRead
      BY Inert
    <3>3. Leads(o)'
      BY <2>1, <3>1, <3>2, LeadsKept
    <3>4. QED
      BY <1>4, <1>7, <3>3 DEF Follows
  <2>4. QED
    BY <2>2, <2>3
<1>8. QED
  BY <1>6, <1>7 DEF Follows

\* The watch takes a write: of another object, or the next one of this object,
\* which is either to be followed by more or the live one.
LEMMA ReadFollows ==
  ASSUME TypeOK, Shape, Versions, Written, [Next]_vars, WatchRead, NEW o \in Objects, Follows(o)
  PROVE  Follows(o)'
<1>1. PICK r, x : r = ckpt' /\ x = log[r]
  OBVIOUS
<1>2. /\ r \in (ckpt + 1)..Len(log) /\ r \in 1..Len(log) /\ x \in Event /\ x.rv = r
      /\ \A q \in NextEvents : r <= q
  BY <1>1, NextWrite
<1>3. /\ All' = All \cup {x} /\ Way' = Way \cup {x} /\ Hand' = {x} /\ Way = Memory \cup Queued
      /\ UNCHANGED <<log, live, keys, inventory>>
  BY <1>1, News
<1>4. ~List /\ Start = ckpt /\ Start' = r /\ ckpt \in Nat /\ Len(log) \in Nat /\ r \in Nat
  BY <1>1, <1>2, LogType DEF WatchRead, List, Start, TypeOK, WatcherType
<1>5. \A p : Last(o, p)' <=> Last(o, p)
  BY <1>3 DEF Last
<1>6. \A p \in Coming(o) : p \in Nat /\ r <= p /\ p \in 1..Len(log) /\ log[p].obj = o
  <2>1. ASSUME NEW p \in Coming(o) PROVE p \in NextEvents /\ p \in Nat /\ p \in 1..Len(log) /\ log[p].obj = o
    BY <1>4, <2>1 DEF Coming, NextEvents, Relevant
  <2>2. QED
    BY <1>2, <2>1
<1>7. Coming(o)' = Coming(o) \ {r}
  <2>1. \A p \in Coming(o) : p # r => p \in (r + 1)..Len(log)
    BY <1>4, <1>6
  <2>2. \A p \in (r + 1)..Len(log) : p # r /\ p \in (ckpt + 1)..Len(log)
    BY <1>2, <1>4
  <2>3. QED
    BY <1>3, <1>4, <2>1, <2>2 DEF Coming
<1>8. \A p \in 1..Len(log) : log[p].rv = p
  BY DEF Versions
(* An event on its way that leads still does if x is not stale.            *)
<1>9. ASSUME NEW e \in Fresh(o) \ Stale(o), InLine(Before(e, Stale(o))), x.obj = o => Value(x) = live[o]
      PROVE  Leads(o)'
  <2>1. PICK f, B : f = e /\ B = Stale(o)
    OBVIOUS
  <2>2. x \notin B /\ Stale(o)' = B
    BY <1>3, <1>9, <2>1 DEF Stale, Fresh
  <2>3. f \in Fresh(o)' /\ f \notin Stale(o)'
    BY <1>3, <1>9, <2>1, <2>2 DEF Fresh
  <2>4. InLine(Before(f, B))
    BY <1>9, <2>1
  <2>5. QED
    BY <1>3, <1>4, <2>2, <2>3, <2>4, LeadsKept
<1>10. CASE x.obj # o
  <2>1. Coming(o)' = Coming(o)
    BY <1>1, <1>6, <1>7, <1>10
  <2>2. Fresh(o)' = Fresh(o)
    BY <1>3, <1>10 DEF Fresh
  <2>3. CASE \E p \in Coming(o) : Last(o, p) /\ log[p] \notin All
    BY <1>3, <1>5, <1>6, <1>10, <2>1, <2>3 DEF Follows
  <2>4. CASE (\A p, q \in Coming(o) : p = q) /\ Leads(o)
    <3>1. Leads(o)'
      BY <1>3, <1>9, <1>10, <2>2, <2>4 DEF Leads
    <3>2. QED
      BY <2>1, <2>4, <3>1 DEF Follows
  <2>5. QED
    BY <2>3, <2>4 DEF Follows
<1>11. CASE x.obj = o
  <2>1. r \in Coming(o)
    BY <1>1, <1>2, <1>4, <1>11 DEF Coming
  <2>2. ASSUME NEW p \in Coming(o), Last(o, p), log[p] \notin All, p # r PROVE Follows(o)'
    <3>1. log[p] # x
      BY <1>2, <1>6, <1>8, <2>2
    <3>2. p \in Coming(o)'
      BY <1>7, <2>2
    <3>3. QED
      BY <1>3, <1>5, <2>2, <3>1, <3>2 DEF Follows
  <2>3. ASSUME Last(o, r), x \notin All PROVE Follows(o)'
    <3>1. \A p \in Coming(o)' : FALSE
      <4>1. \A p \in Coming(o) : ~(p \in (r + 1)..Len(log))
        BY <1>6, <2>3 DEF Last
      <4>2. \A p \in Coming(o) : p = r
        BY <1>4, <1>6, <4>1
      <4>3. QED
        BY <1>7, <4>2
    <3>2. Value(x) = live[o]
      BY <1>1, <2>3, LastValue
    <3>3. x \notin Way /\ x \notin keys
      BY <2>3 DEF All, Known, Way
    <3>4. PICK B, R : B = Stale(o)' /\ R = Before(x, B)
      OBVIOUS
    <3>5. InLine(R)
      <4>1. \A y, z \in Way : <<y, z>> \in R
        BY <3>3, <3>4, LineType DEF Before
      <4>2. QED
        BY <4>1, AllInLine
    <3>6. x \notin B /\ x \in Fresh(o)'
      BY <1>3, <1>11, <3>2, <3>3, <3>4 DEF Stale, Fresh
    <3>7. Leads(o)'
      BY <1>3, <1>4, <3>4, <3>5, <3>6, LeadsKept
    <3>8. QED
      BY <3>1, <3>7 DEF Follows
  <2>4. ASSUME \A p, q \in Coming(o) : p = q, Leads(o) PROVE Follows(o)'
    <3>1. Coming(o) = {r} /\ Coming(o)' = {}
      BY <1>7, <2>1, <2>4
    <3>2. PICK q \in 1..Len(log) : Last(o, q) /\ r <= q /\ Value(log[q]) = live[o]
      BY <1>1, <1>2, <1>11, LastWrite
    <3>3. q \in Coming(o)
      <4>1. q \in (ckpt + 1)..Len(log)
        BY <1>2, <1>4, <3>2
      <4>2. QED
        BY <1>4, <3>2, <4>1 DEF Coming, Last
    <3>4. Value(x) = live[o]
      BY <1>1, <3>1, <3>2, <3>3
    <3>5. CASE Fresh(o) = {} /\ inventory[o] = live[o]
      <4>1. Stale(o)' = {}
        BY <1>3, <3>4, <3>5 DEF Stale, Fresh
      <4>2. Leads(o)'
        BY <1>3, <3>5, <4>1, LeadsFree
      <4>3. QED
        BY <3>1, <4>2 DEF Follows
    <3>6. CASE \E e \in Fresh(o) \ Stale(o) : InLine(Before(e, Stale(o)))
      BY <1>9, <3>1, <3>4, <3>6 DEF Follows
    <3>7. QED
      BY <2>4, <3>5, <3>6 DEF Leads
  <2>5. QED
    BY <1>1, <2>2, <2>3, <2>4 DEF Follows
<1>12. QED
  BY <1>10, <1>11
\* A list: of an object in no doubt the item leads, or it is right already; if
\* more than one write is to come, the last one is unheard of.
LEMMA ListFollows ==
  ASSUME TypeOK, Shape, Versions, Written, Real, [Next]_vars, List, NEW o \in Objects, o \notin Doubtful'
  PROVE  Follows(o)'
<1>1. PICK f \in Orders : todo' = Listing(f)
  BY DEF List
<1>2. /\ All' = All \cup Range(todo') /\ Way' = Way \cup Range(todo')
      /\ Way = Memory \cup Queued /\ All = Known
      /\ UNCHANGED <<log, live, keys, inventory>>
  BY News DEF All, Known, Way
<1>3. \A e \in Range(todo') : e.type = "ADDED" /\ e.obj \in Objects /\ e.rv = live[e.obj] /\ live[e.obj] > 0
  BY <1>1, ListingItems
<1>4. o \notin Vanished /\ o \notin Repeated /\ o \notin Rewound(Start')
  BY DEF List, Doubtful, Start
<1>5. \A p : Last(o, p)' <=> Last(o, p)
  BY <1>2 DEF Last
<1>6. Start' \in Nat /\ Len(log) \in Nat /\ live[o] \in Nat
  <2>1. Start' \in Nat
    BY <1>1, ListingType DEF List, Start
  <2>2. QED
    BY <2>1, LogType DEF TypeOK, ClusterType
<1>7. PICK s \in Nat : s = Start'
  BY <1>6
<1>8. \A p : p \in Coming(o)' <=> p \in (s + 1)..Len(log) /\ log[p].obj = o
  BY <1>2, <1>7 DEF Coming
(* More than one write is to come.                                         *)
<1>9. ASSUME NEW p1 \in Coming(o)', NEW p2 \in Coming(o)', p1 < p2 PROVE Follows(o)'
  <2>1. p2 \in 1..Len(log) /\ log[p2].obj = o /\ p1 \in Nat /\ p1 \in (s + 1)..Len(log) /\ log[p1].obj = o
    BY <1>6, <1>8, <1>9
  <2>2. PICK p \in 1..Len(log) : Last(o, p) /\ p2 <= p
    BY <2>1, LastWrite
  <2>3. p \in (s + 1)..Len(log) /\ p1 < p /\ log[p].obj = o
    BY <1>6, <1>9, <2>1, <2>2 DEF Last
  <2>4. p \in Coming(o)'
    BY <1>8, <2>3
  <2>5. ~(log[p].type = "ADDED" \/ log[p] \in Known)
    BY <1>4, <1>7, <2>1, <2>2, <2>3 DEF Rewound, Last
  <2>6. log[p] \notin All'
    BY <1>2, <1>3, <2>5
  <2>7. QED
    BY <1>2, <1>5, <2>2, <2>4, <2>6 DEF Follows
<1>10. ASSUME \A p, q \in Coming(o)' : p = q PROVE Follows(o)'
  <2>1. CASE live[o] = 0
    <3>1. inventory[o] = 0 /\ \A e \in Memory \cup Queued : e.obj # o
      <4>1. inventory[o] \in Nat
        BY DEF TypeOK, ServerType
      <4>2. QED
        BY <1>4, <2>1, <4>1 DEF Vanished
    <3>2. \A e \in Range(todo') : e.obj # o
      BY <1>3, <2>1
    <3>3. Fresh(o)' = {}
      BY <1>2, <3>1, <3>2 DEF Fresh
    <3>4. QED
      BY <1>2, <1>10, <2>1, <3>1, <3>3 DEF Follows, Leads
  <2>2. CASE live[o] > 0
    <3>1. PICK item : item = [rv |-> live[o], type |-> "ADDED", obj |-> o]
      OBVIOUS
    <3>2. item.obj = o /\ item.rv = live[o] /\ item.type = "ADDED" /\ item \in Range(todo')
      BY <1>1, <2>2, <3>1, ListingItems
    <3>3. ~(item \in keys /\ inventory[o] # live[o])
      BY <1>4, <2>2, <3>1 DEF Repeated
    <3>4. ~(item \in Known /\ \E e \in Memory \cup Queued : e.obj = o /\ e.rv < live[o])
      BY <1>4, <2>2, <3>1 DEF Repeated
    <3>5. Last(o, live[o]) /\ log[live[o]].type # "DELETED"
      BY <2>2, LiveWrite
    <3>6. item \in Way' /\ Value(item) = live[o]
      BY <1>2, <3>2 DEF Value
    <3>7. \A e \in Range(todo') : e.obj = o => Value(e) = live[o]
      BY <1>3 DEF Value
    <3>8. CASE item \in Known
      <4>1. ASSUME NEW e \in Way, e.obj = o PROVE Value(e) = live[o]
        <5>1. /\ e.rv \in 1..Len(log) /\ log[e.rv].obj = o
              /\ e.type = "DELETED" => log[e.rv].type = "DELETED"
          BY <4>1 DEF Real, All, Known, Way
        <5>2. ~(e.rv < live[o])
          BY <1>2, <3>4, <3>8, <4>1
        <5>3. ~(e.rv \in (live[o] + 1)..Len(log))
          BY <3>5, <5>1 DEF Last
        <5>4. e.rv = live[o]
          BY <1>6, <5>1, <5>2, <5>3
        <5>5. QED
          BY <3>5, <5>1, <5>4 DEF Value
      <4>2. Stale(o)' = {}
        BY <1>2, <3>7, <4>1 DEF Stale, Fresh
      <4>3. Fresh(o)' = {} => inventory[o] = live[o]
        BY <1>2, <3>2, <3>3, <3>6 DEF Fresh
      <4>4. Leads(o)'
        BY <1>2, <4>2, <4>3, LeadsFree
      <4>5. QED
        BY <1>10, <4>4 DEF Follows
    <3>9. CASE item \notin Known
      <4>1. PICK B, R : B = Stale(o)' /\ R = Before(item, B)
        OBVIOUS
      <4>2. item \notin Way /\ item \notin keys
        BY <1>2, <3>9 DEF Known
      <4>3. InLine(R)
        <5>1. \A y, z \in Way : <<y, z>> \in R
          BY <4>1, <4>2, LineType DEF Before
        <5>2. QED
          BY <5>1, AllInLine
      <4>4. item \in Fresh(o)' /\ item \notin B
        BY <1>2, <3>2, <3>6, <4>1, <4>2 DEF Stale, Fresh
      <4>5. \A x \in Range(todo') : x \notin B
        BY <1>2, <3>7, <4>1 DEF Stale, Fresh
      <4>6. ~WatchRead
        BY DEF List, WatchRead
      <4>7. Leads(o)'
        BY <4>1, <4>3, <4>4, <4>5, <4>6, LeadsKept
      <4>8. QED
        BY <1>10, <4>7 DEF Follows
    <3>10. QED
      BY <3>8, <3>9
  <2>3. QED
    BY <1>6, <2>1, <2>2
<1>11. CASE \A p, q \in Coming(o)' : p = q
  BY <1>10, <1>11
<1>12. CASE \E p, q \in Coming(o)' : p # q
  <2>1. PICK p \in Coming(o)', q \in Coming(o)' : p # q
    BY <1>12
  <2>2. p \in Nat /\ q \in Nat
    BY <1>6, <1>8
  <2>3. QED
    BY <1>9, <2>1, <2>2
<1>13. QED
  BY <1>11, <1>12

\* A version that is kept comes from a list.
LEMMA WatchedStep == ASSUME Versions, [Next]_vars, ~List, Watched' PROVE Watched
<1>1. CASE ListDone \/ WatchRead \/ Bookmark
  BY <1>1 DEF ListDone, WatchRead, Bookmark, Watched, Versions
<1>2. CASE wl' \in {wl, "top", "watch"} /\ ckpt' \in {ckpt, 0}
  BY <1>2 DEF Watched
<1>3. QED
  BY <1>1, <1>2 DEF Next, Watching, Flushing, vars, watcher, KubernetesWrite, Write, Compact,
     ListEnqueue, ListFail, Connect, Expired, Disconnect, Send, Receive, Tick, Apply, ApplyTorn,
     PostError, PostOK, ClearQueue, Rewrite, Spool, Signal, FinalFlush, Exit, Crash, Replace, Restart, Gone

LEMMA FollowStep ==
  ASSUME TypeOK, Shape, Progress, Versions, Written, Real, FollowInv, [Next]_vars
  PROVE  FollowInv'
<1> SUFFICES ASSUME Watched', NEW o \in Objects, o \notin Doubtful' PROVE Follows(o)'
  BY DEF FollowInv
<1>1. CASE List
  BY <1>1, ListFollows
<1>2. CASE ~List
  <2>1. Follows(o)
    BY <1>2, DoubtsStay, WatchedStep DEF FollowInv
  <2>2. CASE WatchRead
    BY <2>1, <2>2, ReadFollows
  <2>3. CASE \E t \in Types : Write(o, t)
    BY <2>3, WriteFollows
  <2>4. CASE Apply /\ Sending[pos + 1].obj = o /\ Sending[pos + 1] \notin keys
    BY <2>1, <2>4, ApplyFollows
  <2>5. CASE ~(Apply /\ Sending[pos + 1].obj = o /\ Sending[pos + 1] \notin keys)
    BY <1>2, <2>1, <2>2, <2>3, <2>5, OthersFollow
  <2>6. QED
    BY <2>4, <2>5
<1>3. QED
  BY <1>1, <1>2

\* With nothing to come and nothing on its way the inventory is right.
LEMMA QuietFollows == ASSUME TypeOK, Shape, Versions, FollowInv PROVE Converged
<1> SUFFICES ASSUME Quiet, NEW o \in Objects \ Doubtful PROVE inventory[o] = live[o]
  BY DEF Converged
<1>1. /\ wl = "watch" /\ NextEvents = {} /\ ch = <<>> /\ pending = <<>> /\ queue = <<>>
      /\ batch = <<>> /\ todo = <<>> /\ ckpt # 0
  BY DEF Quiet, Shape, Versions
<1>2. Way = {}
  BY <1>1, EmptyElements DEF Way, Memory, Queued, Batched, Hand
<1>3. Coming(o) = {}
  BY <1>1 DEF Coming, Start, NextEvents, Relevant
<1>4. Fresh(o) = {}
  BY <1>2 DEF Fresh
<1>5. Follows(o)
  BY <1>1 DEF FollowInv, Watched
<1>6. QED
  BY <1>3, <1>4, <1>5 DEF Follows, Leads

\* Whatever lists, resends, restarts and lost replies there were, an agent that
\* is idle and caught up has left the live version of every object in the
\* inventory, but for those a lost event, a half-applied event or an ambiguous
\* relist concerns: for any number of objects and writes, any sizes and faults.
THEOREM QuietConverges == Spec => []Converged
<1>1. Init => Versions /\ Written /\ Real /\ FollowInv
  <2> SUFFICES ASSUME Init PROVE Versions /\ Written /\ Real /\ FollowInv
    OBVIOUS
  <2>1. PICK o \in Objects : /\ log = << [rv |-> 1, type |-> "ADDED", obj |-> o] >>
                             /\ live = [x \in Objects |-> IF x = o THEN 1 ELSE 0]
    BY DEF Init
  <2>2. Len(log) = 1 /\ log[1].rv = 1 /\ log[1].obj = o /\ log[1].type = "ADDED"
    BY <2>1
  <2>3. All = {} /\ ckpt = 0 /\ wl = "top"
    BY EmptyElements DEF Init, All, Known, Memory, Queued, Hand, Batched
  <2>4. Versions
    BY <2>2, <2>3 DEF Init, Versions
  <2>5. Real /\ FollowInv
    BY <2>3 DEF Real, FollowInv, Watched
  <2>6. ASSUME NEW x \in Objects
        PROVE  \/ live[x] = 0 /\ \A p \in 1..Len(log) : log[p].obj # x
               \/ \E p \in 1..Len(log) : Last(x, p) /\ Value(log[p]) = live[x]
    <3>1. 1 \in 1..Len(log) /\ \A p \in 1..Len(log) : p = 1
      BY <2>2
    <3>2. \A q \in (1 + 1)..Len(log) : FALSE
      BY <2>2
    <3>3. CASE x = o
      BY <2>1, <2>2, <3>1, <3>2, <3>3 DEF Last, Value
    <3>4. CASE x # o
      BY <2>1, <2>2, <3>1, <3>4
    <3>5. QED
      BY <3>3, <3>4
  <2>7. QED
    BY <2>4, <2>5, <2>6 DEF Written
<1>2. IInv /\ Versions /\ Written /\ Real /\ FollowInv /\ [Next]_vars
        => (Versions /\ Written /\ Real /\ FollowInv)'
  BY VersionsStep, WrittenStep, RealStep, FollowStep DEF IInv
<1>3. IInv /\ Versions /\ FollowInv => Converged
  BY QuietFollows DEF IInv
<1>4. QED
  BY <1>1, <1>2, <1>3, Safety, PTL DEF Spec
=============================================================================
