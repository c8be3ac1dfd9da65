-------------------------- MODULE Warehouse_proofs --------------------------
(***************************************************************************)
(* Proofs about Warehouse for any number of administrators, any days and   *)
(* windows, any limit and any budget.                                      *)
(***************************************************************************)
EXTENDS Warehouse, FiniteSetTheorems, TLAPS

USE NamesAssumption DEF Procs, Workers

Dims == {"daily", "facts"}

-----------------------------------------------------------------------------
(* Days and slots.                                                         *)

LEMMA Sizes ==
  /\ PerDay \in Nat \ {0} /\ Limit \in Nat \ {0} /\ LastDay \in Nat
  /\ RollupDays \in Nat /\ SinkDays \in Nat /\ Backfill \in Nat /\ Wide \subseteq Nat
  /\ RequestDays \in Nat \ {0} /\ RollupDays + 1 < RequestDays
  BY SizesAssumption, RetentionAssumption

\* A slot is of one day.
LEMMA DayIs ==
  ASSUME NEW t \in Nat
  PROVE  Day(t) \in Nat /\ PerDay * Day(t) <= t /\ t < PerDay * Day(t) + PerDay
  BY Sizes, SMT DEF Day

LEMMA DaysInOrder ==
  ASSUME NEW d \in Nat, NEW e \in Nat, NEW t \in Nat, PerDay * d <= t, t < PerDay * e + PerDay
  PROVE  d <= e
<1>1. PerDay * d < PerDay * e + PerDay
  BY Sizes
<1>2. PerDay \in Nat \ {0}
  BY Sizes
<1>3. QED
  BY <1>1, <1>2, SMT

\* Later slots are not of earlier days, and the next slot is at most a day on.
LEMMA DayGrows == ASSUME NEW t \in Nat, NEW u \in Nat, t <= u PROVE Day(t) <= Day(u)
<1>1. PerDay * Day(t) <= u
  BY DayIs, Sizes
<1>2. QED
  BY <1>1, DayIs, DaysInOrder

LEMMA NextDay == ASSUME NEW t \in Nat PROVE Day(t + 1) <= Day(t) + 1
<1>1. PerDay * Day(t + 1) <= t + 1 /\ Day(t + 1) \in Nat /\ Day(t) \in Nat /\ t < PerDay * Day(t) + PerDay
  BY DayIs
<1>2. PerDay * (Day(t) + 1) = PerDay * Day(t) + PerDay
  BY <1>1, Sizes
<1>3. t + 1 < PerDay * (Day(t) + 1) + PerDay
  BY <1>1, <1>2, Sizes
<1>4. QED
  BY <1>1, <1>3, DaysInOrder

LEMMA SlotType ==
  /\ Slots \subseteq Nat /\ 0 \in Slots /\ Days \subseteq Nat /\ 0 \in Days /\ None \notin Days
  /\ \A t \in Slots : Day(t) \in Days /\ \A u \in Nat : u <= t => u \in Slots
<1>1. (LastDay + 1) * PerDay = LastDay * PerDay + PerDay /\ LastDay * PerDay \in Nat
      /\ LastDay * PerDay = PerDay * LastDay
  BY Sizes
<1>2. LastDay <= LastDay * PerDay
  BY Sizes, SMT
<1>3. Slots \subseteq Nat /\ 0 \in Slots /\ Days \subseteq Slots /\ 0 \in Days
  BY <1>1, <1>2, Sizes DEF Slots, Days
<1>4. ASSUME NEW t \in Slots PROVE Day(t) \in Days
  <2>1. t \in Nat /\ t < PerDay * LastDay + PerDay
    BY <1>1, Sizes DEF Slots
  <2>2. Day(t) <= LastDay
    BY <2>1, DayIs, DaysInOrder, Sizes
  <2>3. QED
    BY <2>1, <2>2, DayIs, Sizes DEF Days
<1>5. \A t \in Slots : \A u \in Nat : u <= t => u \in Slots
  BY Sizes DEF Slots
<1>6. QED
  BY <1>3, <1>4, <1>5

LEMMA MonusType ==
  ASSUME NEW a \in Nat, NEW b \in Nat
  PROVE  /\ Monus(a, b) \in Nat /\ Monus(a, b) <= a /\ a <= Monus(a, b) + b
  BY DEF Monus

-----------------------------------------------------------------------------
(* What a process is doing hangs together.                                 *)
Pcs == {"off", "idle", "count", "upsert", "usage", "rows", "list", "send", "mark", "pick", "ship",
        "won", "clear", "failed"}

(* A list of tasks for p.                                                  *)
Planned(p, todo) ==
  /\ \A i \in 1 .. Len(todo) : todo[i].do = "purge" => p = "retention"
  /\ \A i \in 2 .. Len(todo) : todo[i].do # "rollup"

Sound(p, j) ==
  /\ j \in Jobs
  /\ j.todo = <<>> <=> j.pc \in {"off", "idle"}
  /\ Planned(p, j.todo)
  /\ j.pc \in {"count", "upsert"} => j.day <= Day(j.began) /\ Day(j.began) <= j.day + j.days
  /\ j.pc \in {"usage", "rows"} => p = "retention"
  /\ j.pc \in {"mark", "pick", "ship"} \/ j.list # {} => Head(j.todo).do = "facts"
  /\ j.pc \in {"list", "send", "won", "clear", "failed"} => Head(j.todo).do \in {"sync", "facts"}
  /\ j.pc \in {"ship", "won"} \/ j.list = {}
  /\ j.pc = "ship" => j.list # {}
  /\ j.seen # {} => p = "retention" /\ j.pc \in {"count", "upsert"}
  /\ p = "retention" /\ j.pc \in {"count", "upsert"} => j.days = RollupDays
  /\ Monus(j.from, 1) \in Slots

TypeInv == TypeOK /\ \A p \in Procs : Sound(p, job[p])

(* A job field by field.                                                   *)
Whole(j) == j \in [pc: {j.pc}, todo: {j.todo}, days: {j.days}, began: {j.began}, day: {j.day}, sums: {j.sums},
                   hit: {j.hit}, seen: {j.seen}, cutoff: {j.cutoff}, copy: {j.copy}, from: {j.from},
                   fresh: {j.fresh}, list: {j.list}]

Typed(j) ==
  /\ j.pc \in Pcs /\ j.todo \in Seq(Tasks) /\ j.days \in Nat /\ j.began \in Slots /\ j.day \in Days
  /\ j.sums \in Sums /\ j.hit \in BOOLEAN /\ j.seen \in SUBSET Slots /\ j.cutoff \in Slots
  /\ j.copy \in [Days -> Sums] /\ j.from \in Nat /\ j.fresh \in BOOLEAN /\ j.list \in SUBSET Slots

LEMMA JobFields == ASSUME NEW j PROVE j \in Jobs <=> Whole(j) /\ Typed(j)
  BY DEF Jobs, Whole, Typed, Pcs

LEMMA NothingType == Nothing \in Sums
  BY DEF Nothing, Sums

LEMMA IdleIs ==
  /\ Whole(Idle) /\ Idle.pc = "idle" /\ Idle.todo = <<>> /\ Idle.days = 0 /\ Idle.began = 0 /\ Idle.day = 0
  /\ Idle.sums = Nothing /\ Idle.hit = FALSE /\ Idle.seen = {} /\ Idle.cutoff = 0
  /\ Idle.copy \in [Days -> Sums] /\ Idle.from = 0 /\ Idle.fresh = FALSE /\ Idle.list = {}
  BY NothingType DEF Idle, Whole

LEMMA IdleSound == ASSUME NEW p PROVE Sound(p, Idle)
<1>1. Monus(0, 1) = 0 /\ Len(<<>>) = 0 /\ <<>> \in Seq(Tasks)
  BY DEF Monus
<1>2. Planned(p, <<>>)
  BY <1>1 DEF Planned
<1>3. Typed(Idle)
  BY <1>1, IdleIs, NothingType, SlotType DEF Typed, Pcs
<1>4. QED
  BY <1>1, <1>2, <1>3, IdleIs, JobFields, SlotType DEF Sound

\* A process has a sound job.
LEMMA OldJob ==
  ASSUME TypeInv, NEW p \in Procs
  PROVE  Sound(p, job[p]) /\ Whole(job[p]) /\ Typed(job[p]) /\ p \in DOMAIN job
  BY JobFields DEF TypeInv, TypeOK, Sound

\* A process that goes on with a sound job.
LEMMA JobsSound ==
  ASSUME TypeInv, NEW p \in Procs, NEW j, Sound(p, j), job' = [job EXCEPT ![p] = j]
  PROVE  /\ job' \in [Procs -> Jobs] /\ \A q \in Procs : Sound(q, job'[q])
         /\ job'[p] = j /\ \A q \in Procs \ {p} : job'[q] = job[q]
  BY DEF TypeInv, TypeOK, Sound

\* The head of a list of tasks and what is left of it.
LEMMA HeadTail ==
  ASSUME NEW S, NEW s \in Seq(S), s # <<>>
  PROVE  /\ Head(s) \in S /\ Tail(s) \in Seq(S) /\ Len(s) \in Nat \ {0} /\ Len(Tail(s)) = Len(s) - 1
         /\ Head(s) = s[1] /\ \A i \in 1 .. Len(Tail(s)) : Tail(s)[i] = s[i + 1]
  OBVIOUS

LEMMA SpendType ==
  ASSUME TypeOK, NEW what \in Spendable, Spend(what)
  PROVE  left' \in [Spendable -> Nat]
<1>1. left[what] - 1 \in Nat
  BY DEF TypeOK, Spend
<1>2. QED
  BY <1>1 DEF TypeOK, Spend
-----------------------------------------------------------------------------
(* What each operation makes of the job of the process p that does it.     *)
Goes(p, j) == job' = [job EXCEPT ![p] = j]

(* The job k after the task of j: nothing is left of the task.             *)
Rests(j, k) ==
  /\ k.pc \in {"idle", "usage", "list", "mark"} /\ k.list = {} /\ k.seen = {}
  /\ k.todo # <<>> => k.began = j.began /\ k.days = j.days

(* A job that has moved on within its task.                                *)
SameTask(j, k) == k.todo = j.todo /\ k.days = j.days /\ k.began = j.began
SameRollup(j, k) == SameTask(j, k) /\ k.seen = j.seen

LEMMA TodoIs ==
  ASSUME NEW p, NEW j, Sound(p, j), j.pc \notin {"off", "idle"}
  PROVE  /\ j.todo \in Seq(Tasks) /\ j.todo # <<>> /\ Head(j.todo) \in Tasks /\ Head(j.todo) = j.todo[1]
         /\ Tail(j.todo) \in Seq(Tasks) /\ Len(j.todo) \in Nat \ {0} /\ Len(Tail(j.todo)) = Len(j.todo) - 1
         /\ \A i \in 1 .. Len(Tail(j.todo)) : Tail(j.todo)[i] = j.todo[i + 1]
<1>1. j.todo \in Seq(Tasks) /\ j.todo # <<>>
  BY JobFields DEF Sound, Typed
<1>2. QED
  BY <1>1, HeadTail

LEMMA TaskIs ==
  ASSUME NEW t \in Tasks
  PROVE  t.do \in {"rollup", "purge", "sync", "facts"} /\ t.dim \in Dims /\ t.since \in Days
  BY DEF Tasks, Dims

LEMMA OpeningIs ==
  ASSUME NEW t \in Tasks
  PROVE  \/ t.do = "rollup" /\ Opening(t) = "count"
         \/ t.do = "purge" /\ Opening(t) = "usage"
         \/ t.do = "sync" /\ Opening(t) = "list"
         \/ t.do = "facts" /\ Opening(t) = "mark"
  BY TaskIs DEF Opening

LEMMA EndedIs ==
  ASSUME NEW p, NEW j, Sound(p, j), Whole(j), Typed(j), j.pc \notin {"off", "idle"}
  PROVE  Sound(p, Ended(j)) /\ Rests(j, Ended(j))
<1>1. CASE Len(j.todo) = 1
  <2>1. Ended(j) = Idle
    BY <1>1 DEF Ended
  <2>2. QED
    BY <2>1, IdleSound, IdleIs DEF Rests
<1>2. CASE Len(j.todo) # 1
  <2> DEFINE todo == Tail(j.todo)
             pc == Opening(j.todo[2])
             k == [Idle EXCEPT !.todo = todo, !.days = j.days, !.began = j.began, !.pc = pc]
  <2>1. Ended(j) = k
    BY <1>2 DEF Ended
  <2>2. /\ todo \in Seq(Tasks) /\ Len(todo) \in Nat \ {0} /\ Len(todo) = Len(j.todo) - 1
        /\ \A i \in 1 .. Len(todo) : todo[i] = j.todo[i + 1]
    BY <1>2, TodoIs
  <2>3. todo # <<>> /\ Head(todo) = todo[1] /\ Head(todo) \in Tasks /\ todo[1] = j.todo[2]
    <3> HIDE DEF todo
    <3>0. Len(<<>>) = 0
      OBVIOUS
    <3>1. todo # <<>> /\ 1 \in 1 .. Len(todo)
      <4>1. Len(todo) \in Nat \ {0}
        BY <2>2
      <4>2. QED
        BY <3>0, <4>1
    <3>2. todo[1] = j.todo[1 + 1]
      BY <2>2, <3>1
    <3>3. QED
      BY <2>2, <3>1, <3>2, HeadTail
  <2>4. Head(todo).do # "rollup" /\ (Head(todo).do = "purge" => p = "retention")
    BY <2>2, <2>3 DEF Sound, Planned
  <2>5. Planned(p, todo)
    BY <2>2 DEF Sound, Planned
  <2>6. \/ Head(todo).do = "purge" /\ pc = "usage"
        \/ Head(todo).do = "sync" /\ pc = "list"
        \/ Head(todo).do = "facts" /\ pc = "mark"
    BY <2>3, <2>4, OpeningIs
  <2> HIDE DEF todo, pc
  <2>7. /\ Whole(k) /\ k.pc = pc /\ k.todo = todo /\ k.days = j.days /\ k.began = j.began /\ k.day = 0
        /\ k.sums = Nothing /\ k.hit = FALSE /\ k.seen = {} /\ k.cutoff = 0
        /\ k.copy = Idle.copy /\ k.from = 0 /\ k.fresh = FALSE /\ k.list = {}
    BY IdleIs DEF Whole
  <2> HIDE DEF k
  <2>8. Typed(k)
    BY <2>2, <2>6, <2>7, IdleIs, NothingType, SlotType DEF Typed, Pcs
  <2>9. Monus(0, 1) = 0
    BY DEF Monus
  <2>10. Sound(p, k)
    BY <2>3, <2>4, <2>5, <2>6, <2>7, <2>8, <2>9, JobFields, SlotType DEF Sound
  <2>11. Rests(j, k)
    BY <2>6, <2>7 DEF Rests
  <2>12. QED
    BY <2>1, <2>10, <2>11
<1>3. QED
  BY <1>1, <1>2

LEMMA EndIs ==
  ASSUME TypeInv, NEW p \in Procs, End(p), job[p].pc \notin {"off", "idle"}
  PROVE  Goes(p, Ended(job[p])) /\ Sound(p, Ended(job[p])) /\ Rests(job[p], Ended(job[p]))
<1>1. Goes(p, Ended(job[p]))
  BY DEF End, Goes
<1>2. QED
  BY <1>1, OldJob, EndedIs

(* p begins the job j.                                                     *)
Starts(p, j) ==
  /\ Goes(p, j) /\ Sound(p, j) /\ job[p].pc = "idle"
  /\ j.began = now /\ j.list = {} /\ j.pc \in {"count", "list", "mark"}
  /\ j.day = Monus(Day(now), j.days) /\ j.seen = IF p = "retention" THEN reqs ELSE {}
  /\ UNCHANGED <<now, ledger, stream, retry>>

\* A job begins with its first task.
LEMMA BeginIs ==
  ASSUME TypeInv, NEW p \in Procs, NEW tasks \in Seq(Tasks), NEW days \in Nat, tasks # <<>>,
         Planned(p, tasks), Begin(p, tasks, days), Head(tasks).do # "purge",
         p = "retention" => Head(tasks).do = "rollup" /\ days = RollupDays
  PROVE  \E j : Starts(p, j)
<1> DEFINE pc == Opening(Head(tasks))
           day == Monus(Day(now), days)
           seen == IF p = "retention" THEN reqs ELSE {}
           j == [Idle EXCEPT !.pc = pc, !.todo = tasks, !.days = days, !.began = now, !.day = day, !.seen = seen]
<1>1. job' = [job EXCEPT ![p] = j]
  BY DEF Begin
<1>2. now \in Slots /\ Day(now) \in Days /\ Day(now) \in Nat /\ seen \in SUBSET Slots
  BY SlotType DEF TypeInv, TypeOK
<1>3. day \in Nat /\ day <= Day(now) /\ Day(now) <= day + days
  BY <1>2, MonusType
<1>4. day \in Days
  BY <1>2, <1>3, Sizes DEF Days
<1>5. Head(tasks) \in Tasks
  BY HeadTail
<1>6. \/ Head(tasks).do = "rollup" /\ pc = "count"
      \/ Head(tasks).do = "sync" /\ pc = "list"
      \/ Head(tasks).do = "facts" /\ pc = "mark"
  BY <1>5, OpeningIs
<1>7. seen # {} => p = "retention"
  OBVIOUS
<1> HIDE DEF pc, day, seen
<1>8. /\ Whole(j) /\ j.pc = pc /\ j.todo = tasks /\ j.days = days /\ j.began = now /\ j.day = day
      /\ j.sums = Nothing /\ j.hit = FALSE /\ j.seen = seen /\ j.cutoff = 0
      /\ j.copy = Idle.copy /\ j.from = 0 /\ j.fresh = FALSE /\ j.list = {}
  BY IdleIs DEF Whole
<1> HIDE DEF j
<1>9. Typed(j)
  BY <1>2, <1>4, <1>6, <1>8, IdleIs, NothingType, SlotType DEF Typed, Pcs
<1>10. Monus(0, 1) = 0
  BY DEF Monus
<1>11. Sound(p, j)
  BY <1>3, <1>6, <1>7, <1>8, <1>9, <1>10, JobFields, SlotType DEF Sound
<1>12. job[p].pc = "idle" /\ UNCHANGED <<now, ledger, stream, retry>>
  BY DEF Begin, At
<1>13. Starts(p, j)
  BY <1>1, <1>6, <1>8, <1>11, <1>12 DEF Starts, Goes, day, seen
<1>14. QED
  BY <1>13
LEMMA TasksType ==
  /\ Rollup \in Tasks /\ Purge \in Tasks /\ Facts \in Tasks
  /\ \A dim \in Dims, d \in Days : Sync(dim, d) \in Tasks /\ Sync(dim, d).do = "sync"
  /\ Rollup.do = "rollup" /\ Purge.do = "purge" /\ Facts.do = "facts"
  BY SlotType DEF Rollup, Purge, Facts, Sync, Task, Tasks, Dims

LEMMA DaysBack ==
  ASSUME TypeOK, NEW n \in Nat
  PROVE  Monus(Day(now), n) \in Days
<1>1. now \in Slots /\ Day(now) \in Days /\ Day(now) \in Nat
  BY SlotType DEF TypeOK
<1> DEFINE back == Monus(Day(now), n)
<1>2. back \in Nat /\ back <= Day(now)
  BY <1>1, MonusType
<1> HIDE DEF back
<1>3. back \in Days
  BY <1>1, <1>2, Sizes DEF Days
<1>4. QED
  BY <1>3 DEF back

\* Lists of one, two and three tasks.
LEMMA OneTask ==
  ASSUME NEW p, NEW t \in Tasks, t.do # "purge"
  PROVE  <<t>> \in Seq(Tasks) /\ <<t>> # <<>> /\ Head(<<t>>) = t /\ Planned(p, <<t>>)
  BY DEF Planned

LEMMA TwoTasks ==
  ASSUME NEW p, NEW t \in Tasks, NEW u \in Tasks, t.do # "purge", u.do = "purge" => p = "retention", u.do # "rollup"
  PROVE  /\ <<t, u>> \in Seq(Tasks) /\ <<t, u>> # <<>> /\ Head(<<t, u>>) = t /\ Planned(p, <<t, u>>)
  BY DEF Planned

LEMMA ThreeTasks ==
  ASSUME NEW p, NEW t \in Tasks, NEW u \in Tasks, NEW v \in Tasks, t.do # "purge",
         u.do = "sync", v.do = "facts"
  PROVE  /\ <<t, u, v>> \in Seq(Tasks) /\ <<t, u, v>> # <<>> /\ Head(<<t, u, v>>) = t
         /\ Planned(p, <<t, u, v>>)
  BY DEF Planned

LEMMA RetentionStarts ==
  ASSUME TypeInv, RetentionPass
  PROVE  (\E j : Starts("retention", j)) /\ left' = left
<1>1. Begin("retention", <<Rollup, Purge>>, RollupDays) /\ left' = left
  BY DEF RetentionPass
<1>2. /\ <<Rollup, Purge>> \in Seq(Tasks) /\ <<Rollup, Purge>> # <<>> /\ Head(<<Rollup, Purge>>) = Rollup
      /\ Planned("retention", <<Rollup, Purge>>)
  BY TasksType, TwoTasks
<1>3. QED
  BY <1>1, <1>2, BeginIs, TasksType, Sizes

LEMMA SinkStarts ==
  ASSUME TypeInv, SinkCycle
  PROVE  (\E j : Starts("sink", j)) /\ left' = left
<1> DEFINE sync == Sync("daily", Monus(Day(now), SinkDays))
           tasks == <<Rollup, sync, Facts>>
<1>1. Begin("sink", tasks, SinkDays) /\ left' = left
  BY DEF SinkCycle
<1>2. sync \in Tasks /\ sync.do = "sync"
  BY DaysBack, Sizes, TasksType DEF TypeInv, Dims
<1> HIDE DEF sync
<1>3. /\ tasks \in Seq(Tasks) /\ tasks # <<>> /\ Head(tasks) = Rollup
      /\ Planned("sink", tasks)
  BY <1>2, TasksType, ThreeTasks
<1> HIDE DEF tasks
<1>4. QED
  BY <1>1, <1>3, BeginIs, TasksType, Sizes

LEMMA PostSinkStarts ==
  ASSUME TypeInv, NEW a \in Admins, NEW n \in Wide, PostSink(a, n)
  PROVE  (\E j : Starts(a, j)) /\ Spend("sinks")
<1> DEFINE sync == Sync("daily", Monus(Day(now), n))
           tasks == <<Rollup, sync>>
<1>1. Begin(a, tasks, n) /\ Spend("sinks") /\ n \in Nat /\ a \in Procs /\ a # "retention"
  BY Sizes DEF PostSink
<1>2. sync \in Tasks /\ sync.do = "sync"
  BY <1>1, DaysBack, TasksType DEF TypeInv, Dims
<1> HIDE DEF sync
<1>3. tasks \in Seq(Tasks) /\ tasks # <<>> /\ Head(tasks) = Rollup /\ Planned(a, tasks)
  BY <1>2, TasksType, TwoTasks
<1> HIDE DEF tasks
<1>4. QED
  BY <1>1, <1>3, BeginIs, TasksType

LEMMA PostRollupStarts ==
  ASSUME TypeInv, NEW a \in Admins, NEW n \in Wide, PostRollup(a, n)
  PROVE  (\E j : Starts(a, j)) /\ Spend("rollups")
<1>1. Begin(a, <<Rollup>>, n) /\ Spend("rollups") /\ n \in Nat /\ a \in Procs /\ a # "retention"
  BY Sizes DEF PostRollup
<1>2. <<Rollup>> \in Seq(Tasks) /\ <<Rollup>> # <<>> /\ Head(<<Rollup>>) = Rollup /\ Planned(a, <<Rollup>>)
  BY TasksType, OneTask
<1>3. QED
  BY <1>1, <1>2, BeginIs, TasksType

LEMMA PostFactsStarts ==
  ASSUME TypeInv, NEW a \in Admins, PostFacts(a)
  PROVE  (\E j : Starts(a, j)) /\ Spend("ships")
<1>1. Begin(a, <<Facts>>, 0) /\ Spend("ships") /\ a \in Procs /\ a # "retention"
  BY DEF PostFacts
<1>2. <<Facts>> \in Seq(Tasks) /\ <<Facts>> # <<>> /\ Head(<<Facts>>) = Facts /\ Planned(a, <<Facts>>)
  BY TasksType, OneTask
<1>3. QED
  BY <1>1, <1>2, BeginIs, TasksType

LEMMA PostRetryAllStarts ==
  ASSUME TypeInv, NEW a \in Admins, PostRetryAll(a)
  PROVE  (\E j : Starts(a, j)) /\ Spend("retries")
<1> DEFINE sync == Sync("daily", Monus(Day(now), SinkDays))
<1>1. Begin(a, <<sync>>, 0) /\ Spend("retries") /\ a \in Procs /\ a # "retention"
  BY DEF PostRetryAll
<1>2. sync \in Tasks /\ sync.do = "sync"
  BY DaysBack, Sizes, TasksType DEF TypeInv, Dims
<1> HIDE DEF sync
<1>3. <<sync>> \in Seq(Tasks) /\ <<sync>> # <<>> /\ Head(<<sync>>) = sync /\ Planned(a, <<sync>>)
  BY <1>2, OneTask
<1>4. QED
  BY <1>1, <1>2, <1>3, BeginIs

LEMMA PostRetryStarts ==
  ASSUME TypeInv, NEW a \in Admins, PostRetry(a)
  PROVE  (\E j : Starts(a, j)) /\ Spend("retries")
<1> DEFINE Failing == {d \in DOMAIN retry : retry[d] # None}
           Entries == {Sync(dim, retry[dim]) : dim \in Failing}
<1>1. Failing \subseteq Dims /\ \A dim \in Failing : retry[dim] \in Days
  BY DEF TypeInv, TypeOK, Dims
<1>2. Entries \subseteq Tasks /\ \A t \in Entries : t.do = "sync"
  BY <1>1, TasksType
<1>3. IsFiniteSet(Entries) /\ Cardinality(Entries) \in Nat
  <2> DEFINE daily1 == Sync("daily", retry["daily"])
             facts1 == Sync("facts", retry["facts"])
  <2>1. Entries \subseteq {daily1} \cup {facts1}
    BY <1>1 DEF Dims
  <2> HIDE DEF daily1, facts1
  <2>2. IsFiniteSet({daily1}) /\ IsFiniteSet({facts1})
    BY FS_Singleton
  <2>3. IsFiniteSet({daily1} \cup {facts1})
    BY <2>2, FS_Union
  <2>4. IsFiniteSet(Entries)
    BY <2>1, <2>3, FS_Subset
  <2>5. QED
    BY <2>4, FS_CardinalityType
<1>4. PICK order \in [1 .. Cardinality(Entries) -> Entries] : Entries # {} /\ Begin(a, order, 0)
  BY DEF PostRetry
<1>5. Spend("retries") /\ a \in Procs /\ a # "retention"
  BY DEF PostRetry
<1> DEFINE n == Cardinality(Entries)
<1> HIDE DEF Failing, Entries
<1>6. n \in Nat /\ n # 0
  BY <1>3, <1>4, FS_EmptySet
<1> HIDE DEF n
<1>7. order \in [1 .. n -> Tasks] /\ \A i \in 1 .. n : order[i].do = "sync"
  BY <1>2, <1>4 DEF n
<1>8. order \in Seq(Tasks) /\ Len(order) = n
  BY <1>6, <1>7
<1>9. order # <<>> /\ Head(order) = order[1] /\ 1 \in 1 .. n
  <2>1. Len(<<>>) = 0
    OBVIOUS
  <2>2. order # <<>> /\ 1 \in 1 .. n
    BY <1>6, <1>8, <2>1
  <2>3. QED
    BY <1>8, <2>2, HeadTail
<1>10. Planned(a, order)
  BY <1>6, <1>7, <1>8 DEF Planned
<1>11. Head(order).do = "sync"
  BY <1>7, <1>9
<1>12. QED
  BY <1>4, <1>5, <1>8, <1>9, <1>10, <1>11, BeginIs
-----------------------------------------------------------------------------
(* The rollup of a job goes on with the next day, or is over.              *)
GoesOn(j, k) ==
  IF LastOf(j) THEN Rests(j, k) ELSE SameRollup(j, k) /\ k.pc = "count" /\ k.day = j.day + 1 /\ k.list = {}

LEMMA RolledIs ==
  ASSUME NEW p, NEW j, Sound(p, j), Whole(j), Typed(j), j.pc \in {"count", "upsert"}
  PROVE  Sound(p, Rolled(j)) /\ GoesOn(j, Rolled(j))
<1>1. CASE LastOf(j)
  BY <1>1, EndedIs DEF Rolled, GoesOn
<1>2. CASE ~LastOf(j)
  <2> DEFINE day == j.day + 1
             k == [j EXCEPT !.pc = "count", !.day = day, !.sums = Nothing, !.hit = FALSE]
  <2>1. Rolled(j) = k
    BY <1>2 DEF Rolled
  <2>2. j.day \in Days /\ Day(j.began) \in Days /\ Days \subseteq Nat /\ j.days \in Nat
    BY SlotType DEF Typed
  <2>3. j.day <= Day(j.began) /\ Day(j.began) <= j.day + j.days /\ j.day # Day(j.began)
    BY <1>2 DEF Sound, LastOf
  <2>4. day \in Days /\ day <= Day(j.began) /\ Day(j.began) <= day + j.days
    BY <2>2, <2>3, Sizes DEF Days
  <2> HIDE DEF day
  <2>5. /\ Whole(k) /\ k.pc = "count" /\ k.day = day /\ k.sums = Nothing /\ k.hit = FALSE
        /\ SameRollup(j, k) /\ k.cutoff = j.cutoff /\ k.copy = j.copy /\ k.from = j.from /\ k.fresh = j.fresh
        /\ k.list = j.list
    BY DEF Whole, SameTask, SameRollup
  <2> HIDE DEF k
  <2>6. Typed(k)
    BY <2>4, <2>5, NothingType DEF Typed, Pcs, SameTask, SameRollup
  <2>7. Sound(p, k)
    BY <2>4, <2>5, <2>6, JobFields DEF Sound, SameTask, SameRollup
  <2>8. GoesOn(j, k)
    BY <1>2, <2>5 DEF GoesOn, Sound, day
  <2>9. QED
    BY <2>1, <2>7, <2>8
<1>3. QED
  BY <1>1, <1>2

RollsOn(p) == job' = [job EXCEPT ![p] = Rolled(@)]

LEMMA RollsOnIs ==
  ASSUME TypeInv, NEW p \in Procs, RollsOn(p), job[p].pc \in {"count", "upsert"}
  PROVE  Goes(p, Rolled(job[p])) /\ Sound(p, Rolled(job[p])) /\ GoesOn(job[p], Rolled(job[p]))
<1>1. Goes(p, Rolled(job[p]))
  BY DEF RollsOn, Goes
<1>2. QED
  BY <1>1, OldJob, RolledIs

\* A day without requests is left as it is, or its requests are the sums.
CountsNone(p) == RequestsOf(job[p].day) = {} /\ RollsOn(p) /\ Counted(p)

Counts(p, j) ==
  /\ Goes(p, j) /\ Sound(p, j) /\ SameRollup(job[p], j)
  /\ j.pc = "upsert" /\ j.day = job[p].day /\ j.list = {}
  /\ j.sums.requests = RequestsOf(job[p].day) /\ j.sums.tokens = RequestsOf(job[p].day) \cap usage
  /\ sure' = sure

LEMMA CountIs ==
  ASSUME TypeInv, NEW p \in Procs, Count(p)
  PROVE  /\ job[p].pc = "count" /\ UNCHANGED <<now, waiting, reqs, usage, daily, dw, spoilt, stream, retry, left>>
         /\ CountsNone(p) \/ \E j : Counts(p, j)
<1> DEFINE old == job[p]
           found == RequestsOf(old.day)
           sums == [requests |-> found, tokens |-> found \cap usage]
           j == [old EXCEPT !.pc = "upsert", !.sums = sums]
<1>1. /\ old.pc = "count" /\ UNCHANGED <<now, waiting, reqs, usage, daily, dw, spoilt, stream, retry, left>>
      /\ Sound(p, old) /\ Whole(old) /\ Typed(old) /\ p \in DOMAIN job
  BY OldJob DEF Count, At
<1>2. CASE found = {}
  BY <1>1, <1>2 DEF Count, CountsNone, RollsOn
<1>3. CASE found # {}
  <2>1. job' = [job EXCEPT ![p].pc = "upsert", ![p].sums = sums] /\ sure' = sure
    BY <1>3 DEF Count
  <2>2. found \in SUBSET Slots
    BY DEF TypeInv, TypeOK, RequestsOf
  <2>3. sums \in Sums /\ sums.requests = found /\ sums.tokens = found \cap usage
    BY <2>2 DEF Sums
  <2> HIDE DEF found, sums
  <2>4. job' = [job EXCEPT ![p] = j]
    BY <1>1, <2>1
  <2>5. /\ Whole(j) /\ j.pc = "upsert" /\ j.sums = sums /\ j.day = old.day /\ j.hit = old.hit
        /\ SameRollup(old, j) /\ j.cutoff = old.cutoff /\ j.copy = old.copy /\ j.from = old.from
        /\ j.fresh = old.fresh /\ j.list = old.list
    BY <1>1 DEF Whole, SameTask, SameRollup
  <2> HIDE DEF j, old
  <2>6. Typed(j)
    BY <1>1, <2>3, <2>5 DEF Typed, Pcs, SameTask, SameRollup
  <2>7. Sound(p, j) /\ j.list = {}
    BY <1>1, <2>5, <2>6, JobFields DEF Sound, SameTask, SameRollup
  <2>8. Counts(p, j)
    BY <2>1, <2>3, <2>4, <2>5, <2>7 DEF Counts, Goes, old, found
  <2>9. QED
    BY <1>1, <2>8 DEF old
<1>4. QED
  BY <1>2, <1>3

(* k is the job j, but for having been overlapped by another rollup.       *)
Overlapped(j, k) ==
  /\ k.pc = j.pc /\ k.todo = j.todo /\ k.days = j.days /\ k.began = j.began /\ k.day = j.day /\ k.sums = j.sums
  /\ k.seen = j.seen /\ k.cutoff = j.cutoff /\ k.copy = j.copy /\ k.from = j.from /\ k.fresh = j.fresh
  /\ k.list = j.list

\* A rollup writes the sums of a day, and the others of that day are overlapped.
LEMMA UpsertIs ==
  ASSUME TypeInv, NEW p \in Procs, Upsert(p)
  PROVE  /\ job[p].pc = "upsert" /\ UNCHANGED <<now, waiting, reqs, usage, dw, stream, retry, left>>
         /\ Counted(p) /\ daily' = [daily EXCEPT ![job[p].day] = job[p].sums]
         /\ spoilt' = IF daily[job[p].day].requests \subseteq job[p].sums.requests
                      THEN spoilt ELSE spoilt \cup {job[p].day}
         /\ job' \in [Procs -> Jobs] /\ \A q \in Procs : Sound(q, job'[q])
         /\ job'[p] = Rolled(job[p]) /\ GoesOn(job[p], job'[p])
         /\ \A q \in Procs \ {p} :
              /\ Overlapped(job[q], job'[q])
              /\ IF At(q, "upsert") /\ job[q].day = job[p].day THEN job'[q].hit = TRUE ELSE job'[q] = job[q]
<1> DEFINE d == job[p].day
           Hit(q) == At(q, "upsert") /\ job[q].day = d
           Then(q) == IF q = p THEN Rolled(job[p]) ELSE IF Hit(q) THEN [job[q] EXCEPT !.hit = TRUE] ELSE job[q]
<1>1. /\ job[p].pc = "upsert" /\ UNCHANGED <<now, waiting, reqs, usage, dw, stream, retry, left>>
      /\ Counted(p) /\ daily' = [daily EXCEPT ![d] = job[p].sums]
      /\ spoilt' = IF daily[d].requests \subseteq job[p].sums.requests THEN spoilt ELSE spoilt \cup {d}
      /\ job' = [q \in Procs |-> Then(q)]
  BY DEF Upsert, At
<1>2. Sound(p, Rolled(job[p])) /\ GoesOn(job[p], Rolled(job[p]))
  BY <1>1, OldJob, RolledIs
<1>3. ASSUME NEW q \in Procs \ {p}
      PROVE  /\ Sound(q, Then(q)) /\ Overlapped(job[q], Then(q))
             /\ IF Hit(q) THEN Then(q).hit = TRUE ELSE Then(q) = job[q]
  <2>1. Sound(q, job[q]) /\ Whole(job[q]) /\ Typed(job[q])
    BY OldJob
  <2>2. CASE Hit(q)
    <3> DEFINE k == [job[q] EXCEPT !.hit = TRUE]
    <3>1. Then(q) = k
      BY <2>2
    <3>2. Whole(k) /\ k.hit = TRUE /\ Overlapped(job[q], k)
      BY <2>1 DEF Whole, Overlapped
    <3> HIDE DEF k
    <3>3. Typed(k)
      BY <2>1, <3>2 DEF Typed, Overlapped
    <3>4. Sound(q, k)
      BY <2>1, <3>2, <3>3, JobFields DEF Sound, Overlapped
    <3>5. QED
      BY <2>2, <3>1, <3>2, <3>4
  <2>3. CASE ~Hit(q)
    <3>1. Then(q) = job[q]
      BY <2>3
    <3>2. QED
      BY <2>1, <2>3, <3>1 DEF Overlapped
  <2>4. QED
    BY <2>2, <2>3
<1>4. Then(p) = Rolled(job[p])
  OBVIOUS
<1> HIDE DEF Then
<1>5. \A q \in Procs : Sound(q, Then(q)) /\ job'[q] = Then(q)
  BY <1>1, <1>2, <1>3, <1>4
<1>6. \A q \in Procs : Then(q) \in Jobs
  BY <1>5 DEF Sound
<1>7. job' \in [Procs -> Jobs] /\ \A q \in Procs : Sound(q, job'[q])
  BY <1>1, <1>5, <1>6
<1>8. job'[p] = Rolled(job[p]) /\ GoesOn(job[p], job'[p])
  BY <1>2, <1>4, <1>5
<1>9. QED
  BY <1>1, <1>3, <1>5, <1>7, <1>8
-----------------------------------------------------------------------------
(* The other operations.  p ends a task, or moves on within it.            *)
Ends(p, j)  == Goes(p, j) /\ Sound(p, j) /\ Rests(job[p], j)
Steps(p, j) == Goes(p, j) /\ Sound(p, j) /\ SameTask(job[p], j) /\ j.seen = {}

LEMMA EndsIs ==
  ASSUME TypeInv, NEW p \in Procs, End(p), job[p].pc \notin {"off", "idle"}
  PROVE  \E j : Ends(p, j)
  BY EndIs DEF Ends

\* What a job that moves on within its task has to keep.
LEMMA StepIs ==
  ASSUME NEW p, NEW j, Sound(p, j), Typed(j), j.pc \notin {"off", "idle", "count", "upsert"},
         NEW k, Whole(k), SameTask(j, k), k.day = j.day, k.sums = j.sums, k.hit = j.hit, k.seen = j.seen,
         k.cutoff \in Slots, k.copy \in [Days -> Sums], k.from \in Nat, Monus(k.from, 1) \in Slots,
         k.fresh \in BOOLEAN, k.list \in SUBSET Slots,
         k.pc \in Pcs \ {"off", "idle", "count", "upsert"},
         k.pc \in {"usage", "rows"} => p = "retention",
         k.pc \in {"mark", "pick", "ship"} \/ k.list # {} => Head(j.todo).do = "facts",
         k.pc \in {"list", "send", "won", "clear", "failed"} => Head(j.todo).do \in {"sync", "facts"},
         k.pc \in {"ship", "won"} \/ k.list = {}, k.pc = "ship" => k.list # {}
  PROVE  Sound(p, k) /\ k.seen = {}
<1>1. Typed(k)
  BY DEF Typed, SameTask, Pcs
<1>2. k.seen = {}
  BY DEF Sound
<1>3. Sound(p, k)
  BY <1>1, <1>2, JobFields DEF Sound, SameTask
<1>4. QED
  BY <1>2, <1>3

LEMMA CutoffType == ASSUME TypeOK PROVE Cutoff \in Slots /\ Cutoff \in Nat
<1>1. now \in Slots /\ now \in Nat /\ RequestDays * PerDay \in Nat
  BY SlotType, Sizes DEF TypeOK
<1>2. Monus(now, RequestDays * PerDay) \in Nat /\ Monus(now, RequestDays * PerDay) <= now
  BY <1>1, MonusType
<1>3. QED
  BY <1>1, <1>2, SlotType DEF Cutoff

LEMMA PurgeUsageIs ==
  ASSUME TypeInv, NEW p \in Procs, PurgeUsage(p)
  PROVE  /\ job[p].pc = "usage" /\ usage' = usage \ {t \in reqs : t < Cutoff}
         /\ UNCHANGED <<now, waiting, reqs, daily, dw, sure, spoilt, stream, retry, left>>
         /\ \/ \E j : Ends(p, j)
            \/ \E j : Steps(p, j) /\ j.pc = "rows" /\ j.cutoff = Cutoff /\ j.list = {}
<1> DEFINE old == job[p]
           cut == Cutoff
           j == [old EXCEPT !.pc = "rows", !.cutoff = cut]
<1>1. /\ old.pc = "usage" /\ usage' = usage \ {t \in reqs : t < Cutoff}
      /\ UNCHANGED <<now, waiting, reqs, daily, dw, sure, spoilt, stream, retry, left>>
      /\ Sound(p, old) /\ Whole(old) /\ Typed(old) /\ p \in DOMAIN job /\ cut \in Slots
  BY OldJob, CutoffType DEF PurgeUsage, At, TypeInv
<1>2. CASE cut = 0
  <2>1. End(p)
    BY <1>2 DEF PurgeUsage
  <2>2. QED
    BY <1>1, <2>1, EndsIs
<1>3. CASE cut # 0
  <2>1. job' = [job EXCEPT ![p].pc = "rows", ![p].cutoff = cut]
    BY <1>3 DEF PurgeUsage
  <2> HIDE DEF cut
  <2>2. job' = [job EXCEPT ![p] = j]
    BY <1>1, <2>1
  <2>3. /\ Whole(j) /\ j.pc = "rows" /\ j.cutoff = cut /\ SameTask(old, j) /\ j.day = old.day
        /\ j.sums = old.sums /\ j.hit = old.hit /\ j.seen = old.seen /\ j.copy = old.copy /\ j.from = old.from
        /\ j.fresh = old.fresh /\ j.list = old.list
    BY <1>1 DEF Whole, SameTask
  <2> HIDE DEF j, old
  <2>4. old.list = {} /\ p = "retention" /\ Monus(old.from, 1) \in Slots
    BY <1>1 DEF Sound
  <2>5. Sound(p, j) /\ j.seen = {}
    BY <1>1, <2>3, <2>4, StepIs DEF Typed, Pcs
  <2>6. Steps(p, j) /\ j.pc = "rows" /\ j.cutoff = cut /\ j.list = {}
    BY <2>2, <2>3, <2>4, <2>5 DEF Steps, Goes, old
  <2>7. QED
    BY <1>1, <2>6 DEF cut, old
<1>4. QED
  BY <1>2, <1>3

\* The listing of a day's sums, its insert, and what becomes of the listing.
LEMMA ListIs ==
  ASSUME TypeInv, NEW p \in Procs, List(p)
  PROVE  /\ job[p].pc = "list" /\ UNCHANGED <<now, ledger, stream, retry, left>>
         /\ \E j : Steps(p, j) /\ j.pc \in {"won", "send"} /\ j.list = {}
<1> DEFINE old == job[p]
           copy == Listed(Current(p))
           pc == IF copy = Idle.copy THEN "won" ELSE "send"
           j == [old EXCEPT !.copy = copy, !.pc = pc]
<1>1. /\ old.pc = "list" /\ UNCHANGED <<now, ledger, stream, retry, left>>
      /\ Sound(p, old) /\ Whole(old) /\ Typed(old) /\ p \in DOMAIN job
      /\ job' = [job EXCEPT ![p].copy = copy, ![p].pc = pc]
  BY OldJob DEF List, At
<1>2. copy \in [Days -> Sums] /\ pc \in {"won", "send"}
  BY NothingType DEF Listed, TypeInv, TypeOK
<1> HIDE DEF copy, pc
<1>3. job' = [job EXCEPT ![p] = j]
  BY <1>1
<1>4. /\ Whole(j) /\ j.pc = pc /\ j.copy = copy /\ SameTask(old, j) /\ j.day = old.day
      /\ j.sums = old.sums /\ j.hit = old.hit /\ j.seen = old.seen /\ j.cutoff = old.cutoff
      /\ j.from = old.from /\ j.fresh = old.fresh /\ j.list = old.list
  BY <1>1 DEF Whole, SameTask
<1> HIDE DEF j, old
<1>5. old.list = {} /\ Head(old.todo).do \in {"sync", "facts"} /\ Monus(old.from, 1) \in Slots
  BY <1>1 DEF Sound
<1>6. Sound(p, j) /\ j.seen = {}
  BY <1>1, <1>2, <1>4, <1>5, StepIs DEF Typed, Pcs
<1>7. Steps(p, j) /\ j.pc \in {"won", "send"} /\ j.list = {}
  BY <1>2, <1>3, <1>4, <1>5, <1>6 DEF Steps, Goes, old
<1>8. QED
  BY <1>1, <1>7 DEF old

(* The step of p to pc that forgets what was listed.                       *)
Forgets(p, pc) == job' = [job EXCEPT ![p].pc = pc, ![p].copy = Idle.copy]

LEMMA ForgetsIs ==
  ASSUME TypeInv, NEW p \in Procs, NEW pc \in {"won", "failed"}, Forgets(p, pc), job[p].pc \in {"list", "send"}
  PROVE  \E j : Steps(p, j) /\ j.pc = pc /\ j.list = {}
<1> DEFINE old == job[p]
           copy == Idle.copy
           j == [old EXCEPT !.pc = pc, !.copy = copy]
<1>1. /\ old.pc \in {"list", "send"}
      /\ Sound(p, old) /\ Whole(old) /\ Typed(old) /\ p \in DOMAIN job
      /\ job' = [job EXCEPT ![p].pc = pc, ![p].copy = copy]
  BY OldJob DEF Forgets
<1>2. copy \in [Days -> Sums]
  BY IdleIs
<1> HIDE DEF copy
<1>3. job' = [job EXCEPT ![p] = j]
  BY <1>1
<1>4. /\ Whole(j) /\ j.pc = pc /\ j.copy = copy /\ SameTask(old, j) /\ j.day = old.day
      /\ j.sums = old.sums /\ j.hit = old.hit /\ j.seen = old.seen /\ j.cutoff = old.cutoff
      /\ j.from = old.from /\ j.fresh = old.fresh /\ j.list = old.list
  BY <1>1 DEF Whole, SameTask
<1> HIDE DEF j, old
<1>5. old.list = {} /\ Head(old.todo).do \in {"sync", "facts"} /\ Monus(old.from, 1) \in Slots
  BY <1>1 DEF Sound
<1>6. Sound(p, j) /\ j.seen = {}
  BY <1>1, <1>2, <1>4, <1>5, StepIs DEF Typed, Pcs
<1>7. Steps(p, j) /\ j.pc = pc /\ j.list = {}
  BY <1>3, <1>4, <1>5, <1>6 DEF Steps, Goes, old
<1>8. QED
  BY <1>7

LEMMA LandType ==
  ASSUME TypeInv, NEW p \in Procs, Land(p)
  PROVE  dw' \in [Days -> Sums]
<1>1. job[p].copy \in [Days -> Sums] /\ dw \in [Days -> Sums]
  BY OldJob DEF TypeInv, TypeOK, Typed
<1>2. QED
  BY <1>1 DEF Land
\* Where a shipment begins.
LEMMA FromType ==
  ASSUME TypeOK, NEW known \in BOOLEAN, known => mark # None,
         NEW from, from = IF known THEN mark + 1 ELSE IF now < Backfill THEN 0 ELSE now - Backfill + 1
  PROVE  from \in Nat /\ Monus(from, 1) \in Slots
<1>1. now \in Slots /\ now \in Nat /\ Backfill \in Nat
  BY SlotType, Sizes DEF TypeOK
<1>2. CASE known
  <2>1. mark \in Slots /\ mark \in Nat /\ from = mark + 1
    BY <1>2, SlotType DEF TypeOK
  <2>2. Monus(from, 1) = mark
    BY <2>1 DEF Monus
  <2>3. QED
    BY <2>1, <2>2
<1>3. CASE ~known /\ now < Backfill
  <2>1. from = 0
    BY <1>3
  <2>2. Monus(from, 1) = 0
    BY <2>1 DEF Monus
  <2>3. QED
    BY <2>1, <2>2, SlotType
<1>4. CASE ~known /\ ~(now < Backfill)
  <2>1. from = now - Backfill + 1 /\ now - Backfill \in Nat /\ now - Backfill <= now
    BY <1>1, <1>4
  <2>2. Monus(from, 1) = now - Backfill
    BY <1>1, <2>1 DEF Monus
  <2>3. QED
    BY <1>1, <2>1, <2>2, SlotType
<1>5. QED
  BY <1>2, <1>3, <1>4

(* p has read the watermark, or not.                                       *)
Marks(p, known, j) ==
  /\ Steps(p, j) /\ j.pc = "pick" /\ j.fresh = ~known /\ j.list = {} /\ j.from \in Nat
  /\ known => mark # None /\ j.from = mark + 1

LEMMA ReadMarkIs ==
  ASSUME TypeInv, NEW p \in Procs, NEW known \in BOOLEAN, known => mark # None, ReadMark(p, known)
  PROVE  /\ job[p].pc = "mark" /\ UNCHANGED <<now, ledger, asked, logs, facts, mark, missed, retry>>
         /\ again' = (again \/ (mark # None /\ ~known) \/ \E q \in Procs \ {p} : Shipping(q))
         /\ \E j : Marks(p, known, j)
<1> DEFINE old == job[p]
           from == IF known THEN mark + 1 ELSE IF now < Backfill THEN 0 ELSE now - Backfill + 1
           fresh == ~known
           j == [old EXCEPT !.pc = "pick", !.fresh = fresh, !.from = from]
<1>1. /\ old.pc = "mark" /\ UNCHANGED <<now, ledger, asked, logs, facts, mark, missed, retry>>
      /\ again' = (again \/ (mark # None /\ ~known) \/ \E q \in Procs \ {p} : Shipping(q))
      /\ Sound(p, old) /\ Whole(old) /\ Typed(old) /\ p \in DOMAIN job
      /\ job' = [job EXCEPT ![p].pc = "pick", ![p].fresh = fresh, ![p].from = from]
  BY OldJob DEF ReadMark, At
<1>2. from \in Nat /\ Monus(from, 1) \in Slots /\ fresh \in BOOLEAN
  BY FromType DEF TypeInv
<1>3. known => from = mark + 1
  OBVIOUS
<1>4. fresh = ~known
  OBVIOUS
<1> HIDE DEF from, fresh
<1>5. job' = [job EXCEPT ![p] = j]
  BY <1>1
<1>6. /\ Whole(j) /\ j.pc = "pick" /\ j.fresh = fresh /\ j.from = from /\ SameTask(old, j) /\ j.day = old.day
      /\ j.sums = old.sums /\ j.hit = old.hit /\ j.seen = old.seen /\ j.cutoff = old.cutoff
      /\ j.copy = old.copy /\ j.list = old.list
  BY <1>1 DEF Whole, SameTask
<1> HIDE DEF j, old
<1>7. old.list = {} /\ Head(old.todo).do = "facts"
  BY <1>1 DEF Sound
<1>8. Sound(p, j) /\ j.seen = {}
  BY <1>1, <1>2, <1>6, <1>7, StepIs DEF Typed, Pcs
<1>9. Steps(p, j)
  BY <1>5, <1>6, <1>8 DEF Steps, Goes, old
<1>10. Marks(p, known, j)
  BY <1>2, <1>3, <1>4, <1>6, <1>7, <1>9 DEF Marks
<1>11. QED
  BY <1>1, <1>10 DEF old

(* p has found the logs S to ship.                                         *)
Picks(p, S, j) ==
  Steps(p, j) /\ j.pc = "ship" /\ j.list = S /\ j.from = job[p].from /\ j.fresh = job[p].fresh

LEMMA PickIs ==
  ASSUME TypeInv, NEW p \in Procs, Pick(p)
  PROVE  /\ job[p].pc = "pick" /\ UNCHANGED <<now, ledger, asked, logs, facts, mark, again, retry, left>>
         /\ missed' = IF job[p].fresh THEN missed \cup {t \in logs : t < job[p].from} ELSE missed
         /\ \/ \E j : Ends(p, j)
            \/ Oldest(After(job[p].from)) # {} /\ \E j : Picks(p, Oldest(After(job[p].from)), j)
<1> DEFINE old == job[p]
           found == Oldest(After(old.from))
           j == [old EXCEPT !.pc = "ship", !.list = found]
<1>1. /\ old.pc = "pick" /\ UNCHANGED <<now, ledger, asked, logs, facts, mark, again, retry, left>>
      /\ missed' = IF old.fresh THEN missed \cup {t \in logs : t < old.from} ELSE missed
      /\ Sound(p, old) /\ Whole(old) /\ Typed(old) /\ p \in DOMAIN job
  BY OldJob DEF Pick, At
<1>2. CASE found = {}
  <2>1. End(p)
    BY <1>2 DEF Pick
  <2>2. QED
    BY <1>1, <2>1, EndsIs
<1>3. CASE found # {}
  <2>1. job' = [job EXCEPT ![p].pc = "ship", ![p].list = found]
    BY <1>3 DEF Pick
  <2>2. found \in SUBSET Slots
    BY DEF TypeInv, TypeOK, Oldest, After
  <2> HIDE DEF found
  <2>3. job' = [job EXCEPT ![p] = j]
    BY <1>1, <2>1
  <2>4. /\ Whole(j) /\ j.pc = "ship" /\ j.list = found /\ SameTask(old, j) /\ j.day = old.day
        /\ j.sums = old.sums /\ j.hit = old.hit /\ j.seen = old.seen /\ j.cutoff = old.cutoff
        /\ j.copy = old.copy /\ j.from = old.from /\ j.fresh = old.fresh
    BY <1>1 DEF Whole, SameTask
  <2> HIDE DEF j, old
  <2>5. Head(old.todo).do = "facts" /\ Monus(old.from, 1) \in Slots
    BY <1>1 DEF Sound
  <2>6. Sound(p, j) /\ j.seen = {}
    BY <1>1, <1>3, <2>2, <2>4, <2>5, StepIs DEF Typed, Pcs
  <2>7. Picks(p, found, j)
    BY <2>3, <2>4, <2>6 DEF Picks, Steps, Goes, old
  <2>8. QED
    BY <1>1, <1>3, <2>7 DEF old, found
<1>4. QED
  BY <1>2, <1>3

(* The step of p to pc that keeps or forgets the logs to ship.             *)
Turns(p, pc, list) == job' = [job EXCEPT ![p].pc = pc, ![p].list = list]

LEMMA TurnsIs ==
  ASSUME TypeInv, NEW p \in Procs, NEW pc, NEW list, Turns(p, pc, list),
         job[p].pc \in {"pick", "ship", "won"},
         (pc \in {"failed", "clear"} /\ list = {}) \/ (pc = "won" /\ list = job[p].list)
  PROVE  \E j : Steps(p, j) /\ j.pc = pc /\ j.list = list /\ j.from = job[p].from
<1> DEFINE old == job[p]
           j == [old EXCEPT !.pc = pc, !.list = list]
<1>1. /\ old.pc \in {"pick", "ship", "won"}
      /\ Sound(p, old) /\ Whole(old) /\ Typed(old) /\ p \in DOMAIN job
      /\ job' = [job EXCEPT ![p].pc = pc, ![p].list = list]
  BY OldJob DEF Turns
<1>2. /\ pc \in {"failed", "clear", "won"} /\ list \in SUBSET Slots
      /\ pc \in {"failed", "clear"} => list = {}
      /\ pc = "won" => list = old.list
  BY <1>1 DEF Typed
<1>3. job' = [job EXCEPT ![p] = j]
  BY <1>1
<1>4. /\ Whole(j) /\ j.pc = pc /\ j.list = list /\ SameTask(old, j) /\ j.day = old.day
      /\ j.sums = old.sums /\ j.hit = old.hit /\ j.seen = old.seen /\ j.cutoff = old.cutoff
      /\ j.copy = old.copy /\ j.from = old.from /\ j.fresh = old.fresh
  BY <1>1 DEF Whole, SameTask
<1> HIDE DEF j, old
<1>5. /\ Head(old.todo).do \in {"sync", "facts"} /\ Monus(old.from, 1) \in Slots
      /\ old.list # {} => Head(old.todo).do = "facts"
  BY <1>1 DEF Sound
<1>6. list # {} => Head(old.todo).do = "facts"
  BY <1>2, <1>5
<1>7. Sound(p, j) /\ j.seen = {}
  BY <1>1, <1>2, <1>4, <1>5, <1>6, StepIs DEF Typed, Pcs
<1>8. Steps(p, j) /\ j.pc = pc /\ j.list = list /\ j.from = old.from
  BY <1>3, <1>4, <1>7 DEF Steps, Goes, old
<1>9. QED
  BY <1>8 DEF old

LEMMA ShipIs ==
  ASSUME TypeInv, NEW p \in Procs, Ship(p)
  PROVE  /\ job[p].pc = "ship" /\ UNCHANGED <<now, ledger, asked, logs, mark, missed, again, retry, left>>
         /\ Arrived(job[p].list)
         /\ \E j : Steps(p, j) /\ j.pc = "won" /\ j.list = job[p].list
<1> DEFINE old == job[p]
           list == old.list
<1>1. /\ old.pc = "ship" /\ UNCHANGED <<now, ledger, asked, logs, mark, missed, again, retry, left>>
      /\ Arrived(list) /\ job' = [job EXCEPT ![p].pc = "won"]
      /\ Whole(old) /\ p \in DOMAIN job
  BY OldJob DEF Ship, At, Moves
<1>2. [old EXCEPT !.pc = "won"] = [old EXCEPT !.pc = "won", !.list = list]
  BY <1>1 DEF Whole
<1>3. Turns(p, "won", list)
  BY <1>1, <1>2 DEF Turns
<1>4. \E j : Steps(p, j) /\ j.pc = "won" /\ j.list = list
  BY <1>1, <1>3, TurnsIs
<1>5. QED
  BY <1>1, <1>4

\* Whatever happens to p, it may be cut off.
LEMMA KillIs ==
  ASSUME TypeInv, NEW p \in Procs, Kill(p)
  PROVE  /\ Spend("kills") /\ again' = (again \/ Shipping(p)) /\ Ends(p, Idle)
         /\ UNCHANGED <<now, ledger, asked, logs, facts, mark, missed, retry>>
<1>1. Goes(p, Idle) /\ Sound(p, Idle) /\ Rests(job[p], Idle)
  BY IdleSound, IdleIs DEF Kill, Goes, Rests
<1>2. QED
  BY <1>1 DEF Kill, Ends
-----------------------------------------------------------------------------
(* Every step keeps the types.  Part by part: the jobs and everything else.*)
JobsOK == job \in [Procs -> Jobs] /\ \A p \in Procs : Sound(p, job[p])

DataOK ==
  /\ now \in Slots
  /\ {waiting, reqs, usage, asked, logs, sure, missed} \subseteq SUBSET Slots
  /\ spoilt \subseteq Days
  /\ daily \in [Days -> Sums] /\ dw \in [Days -> Sums]
  /\ facts \in [Slots -> 0 .. 2] /\ mark \in Slots \cup {None}
  /\ retry \in [Dims -> Days \cup {None}]
  /\ again \in BOOLEAN

LEMMA TypeParts == TypeInv <=> JobsOK /\ DataOK /\ left \in [Spendable -> Nat]
  BY DEF TypeInv, TypeOK, JobsOK, DataOK, Dims

LEMMA NewTypeParts == TypeInv' <=> JobsOK' /\ DataOK' /\ (left \in [Spendable -> Nat])'
  BY DEF TypeInv, TypeOK, JobsOK, DataOK, Dims

\* A process that goes on with a sound job.
LEMMA GoesOK ==
  ASSUME TypeInv, NEW p \in Procs, NEW j, Goes(p, j), Sound(p, j)
  PROVE  JobsOK' /\ job'[p] = j /\ \A q \in Procs \ {p} : job'[q] = job[q]
  BY JobsSound DEF Goes, JobsOK

LEMMA EndsOK ==
  ASSUME TypeInv, NEW p \in Procs, \E j : Ends(p, j)
  PROVE  JobsOK'
  BY GoesOK DEF Ends

LEMMA StepsOK ==
  ASSUME TypeInv, NEW p \in Procs, NEW j, Steps(p, j)
  PROVE  JobsOK'
  BY GoesOK DEF Steps

LEMMA StartsOK ==
  ASSUME TypeInv, NEW p \in Procs, \E j : Starts(p, j)
  PROVE  JobsOK' /\ DataOK'
<1>1. PICK j : Starts(p, j)
  OBVIOUS
<1>2. JobsOK'
  BY <1>1, GoesOK DEF Starts
<1>3. DataOK'
  BY <1>1, TypeParts DEF Starts, DataOK, ledger, stream
<1>4. QED
  BY <1>2, <1>3

LEMMA SureOK ==
  ASSUME TypeInv, NEW p \in Procs, Counted(p)
  PROVE  sure' \in SUBSET Slots
<1>1. job[p].seen \in SUBSET Slots /\ sure \in SUBSET Slots
  BY OldJob DEF TypeInv, TypeOK, Typed
<1>2. QED
  BY <1>1 DEF Counted

LEMMA ArrivedOK ==
  ASSUME TypeOK, NEW S \in SUBSET Slots, Arrived(S)
  PROVE  /\ facts' \in [Slots -> 0 .. 2]
         /\ \A t \in Slots : facts[t] <= facts'[t] /\ (t \notin S => facts'[t] = facts[t])
                             /\ (t \in S => facts'[t] > 0) /\ facts'[t] <= facts[t] + 1
<1>1. facts \in [Slots -> 0 .. 2]
  BY DEF TypeOK
<1>2. QED
  BY <1>1 DEF Arrived

\* The logs a shipment takes.
LEMMA ListType == ASSUME TypeInv, NEW p \in Procs PROVE job[p].list \in SUBSET Slots
  BY OldJob DEF Typed

\* What the end of a shipment makes of the watermark.
LEMMA WonIs ==
  ASSUME TypeInv, NEW p \in Procs, Won(p)
  PROVE  /\ job[p].pc = "won" /\ UNCHANGED <<now, ledger, asked, logs, facts, missed, retry, left>>
         /\ \E j : Steps(p, j) /\ j.pc = "clear" /\ j.list = {}
         /\ again' = (again \/ (Current(p).do = "sync" /\ Current(p).dim = "facts"))
         /\ \/ Current(p).do = "facts" /\ mark' \in job[p].list /\ \A u \in job[p].list : u <= mark'
            \/ Current(p).do = "sync" /\ Current(p).dim = "facts" /\ mark' = None /\ job[p].list = {}
            \/ Current(p).do = "sync" /\ Current(p).dim # "facts" /\ mark' = mark /\ job[p].list = {}
<1>1. /\ job[p].pc = "won" /\ UNCHANGED <<now, ledger, asked, logs, facts, missed, retry, left>>
      /\ Turns(p, "clear", {}) /\ Advance(p)
      /\ again' = (again \/ (Current(p).do = "sync" /\ Current(p).dim = "facts"))
  BY DEF Won, At, Turns
<1>2. \E j : Steps(p, j) /\ j.pc = "clear" /\ j.list = {}
  BY <1>1, TurnsIs
<1>3. Current(p).do \in {"sync", "facts"} /\ (job[p].list # {} => Current(p).do = "facts")
  BY <1>1, OldJob DEF Sound, Current
<1>4. CASE Current(p).do = "facts"
  BY <1>1, <1>2, <1>4 DEF Advance
<1>5. CASE Current(p).do = "sync"
  <2>1. mark' = IF Current(p).dim = "facts" THEN None ELSE mark
    BY <1>1, <1>5 DEF Advance
  <2>2. job[p].list = {}
    BY <1>3, <1>5
  <2>3. QED
    BY <1>1, <1>2, <1>5, <2>1, <2>2
<1>6. QED
  BY <1>3, <1>4, <1>5
LEMMA CountOK ==
  ASSUME TypeInv, NEW p \in Procs, Count(p)
  PROVE  JobsOK' /\ DataOK' /\ left' = left
<1>1. /\ job[p].pc = "count" /\ UNCHANGED <<now, waiting, reqs, usage, daily, dw, spoilt, stream, retry, left>>
      /\ CountsNone(p) \/ \E j : Counts(p, j)
  BY CountIs
<1>2. CASE CountsNone(p)
  <2>1. JobsOK'
    BY <1>1, <1>2, RollsOnIs, GoesOK DEF CountsNone
  <2>2. sure' \in SUBSET Slots
    BY <1>2, SureOK DEF CountsNone
  <2>3. QED
    BY <1>1, <2>1, <2>2, TypeParts DEF DataOK, stream
<1>3. ASSUME NEW j, Counts(p, j) PROVE JobsOK' /\ DataOK' /\ left' = left
  <2>1. JobsOK'
    BY <1>3, GoesOK DEF Counts
  <2>2. sure' = sure
    BY <1>3 DEF Counts
  <2>3. QED
    BY <1>1, <2>1, <2>2, TypeParts DEF DataOK, stream
<1>4. QED
  BY <1>1, <1>2, <1>3

LEMMA UpsertOK ==
  ASSUME TypeInv, NEW p \in Procs, Upsert(p)
  PROVE  JobsOK' /\ DataOK' /\ left' = left
<1>1. JobsOK' /\ UNCHANGED <<now, waiting, reqs, usage, dw, stream, retry, left>> /\ Counted(p)
  BY UpsertIs DEF JobsOK
<1>2. sure' \in SUBSET Slots
  BY <1>1, SureOK
<1>3. job[p].day \in Days /\ job[p].sums \in Sums
  BY OldJob DEF Typed
<1>4. daily' \in [Days -> Sums] /\ spoilt' \subseteq Days
  <2>1. daily' = [daily EXCEPT ![job[p].day] = job[p].sums] /\ (spoilt' = spoilt \/ spoilt' = spoilt \cup {job[p].day})
    BY UpsertIs
  <2>2. daily \in [Days -> Sums] /\ spoilt \subseteq Days
    BY DEF TypeInv, TypeOK
  <2>3. QED
    BY <1>3, <2>1, <2>2
<1>5. QED
  BY <1>1, <1>2, <1>4, TypeParts DEF DataOK, stream

\* A process that ends its task, nothing else happening.
LEMMA FailOK ==
  ASSUME TypeInv, NEW p \in Procs, End(p), job[p].pc \notin {"off", "idle"}
  PROVE  JobsOK'
  BY EndsIs, EndsOK

LEMMA CurrentType ==
  ASSUME TypeInv, NEW p \in Procs, job[p].pc \notin {"off", "idle"}
  PROVE  Current(p).dim \in Dims /\ Current(p).since \in Days
<1>1. Current(p) \in Tasks
  BY OldJob, TodoIs DEF Current
<1>2. QED
  BY <1>1, TaskIs

LEMMA WorksOK ==
  ASSUME TypeInv, NEW p \in Procs, Works(p)
  PROVE  JobsOK' /\ DataOK' /\ left' \in [Spendable -> Nat]
<1> USE TypeParts
<1>0. left \in [Spendable -> Nat]
  OBVIOUS
<1>1. CASE Count(p)
  BY <1>1, CountOK
<1>2. CASE Upsert(p)
  BY <1>2, UpsertOK
<1>3. CASE PurgeUsage(p)
  <2>1. JobsOK'
    BY <1>3, PurgeUsageIs, EndsOK, StepsOK
  <2>2. QED
    BY <1>3, <2>1, PurgeUsageIs DEF DataOK, stream
<1>4. CASE PurgeRows(p)
  <2>1. JobsOK'
    BY <1>4, FailOK DEF PurgeRows, At
  <2>2. QED
    BY <1>4, <2>1 DEF PurgeRows, DataOK, stream
<1>5. CASE List(p)
  <2>1. JobsOK'
    BY <1>5, ListIs, StepsOK
  <2>2. QED
    BY <1>5, <2>1 DEF List, DataOK, stream, ledger
<1>6. CASE Send(p)
  <2>1. Forgets(p, "won") /\ job[p].pc = "send" /\ Land(p)
    BY <1>6 DEF Send, Forgets, At
  <2>2. JobsOK'
    BY <2>1, ForgetsIs, StepsOK
  <2>3. dw' \in [Days -> Sums]
    BY <2>1, LandType
  <2>4. QED
    BY <1>6, <2>2, <2>3 DEF Send, DataOK, stream
<1>7. CASE Mark(p)
  <2>1. ReadMark(p, mark # None)
    BY <1>7 DEF Mark
  <2>2. /\ UNCHANGED <<now, ledger, asked, logs, facts, mark, missed, retry>>
        /\ again' = (again \/ (mark # None /\ ~(mark # None)) \/ \E q \in Procs \ {p} : Shipping(q))
        /\ \E j : Marks(p, mark # None, j)
    BY <2>1, ReadMarkIs
  <2>3. JobsOK'
    BY <2>2, StepsOK DEF Marks
  <2>4. again' \in BOOLEAN
    BY <2>2
  <2>5. QED
    BY <1>7, <2>2, <2>3, <2>4 DEF Mark, DataOK, ledger
<1>8. CASE Pick(p)
  <2>1. JobsOK'
    BY <1>8, PickIs, EndsOK, StepsOK DEF Picks
  <2>2. missed' \in SUBSET Slots
    BY <1>8, PickIs DEF DataOK
  <2>3. QED
    BY <1>8, <2>1, <2>2 DEF Pick, DataOK, ledger
<1>9. CASE Ship(p)
  <2>1. JobsOK'
    BY <1>9, ShipIs, StepsOK
  <2>2. facts' \in [Slots -> 0 .. 2]
    BY <1>9, ArrivedOK, ListType DEF Ship, TypeInv
  <2>3. QED
    BY <1>9, <2>1, <2>2 DEF Ship, DataOK, ledger
<1>10. CASE Won(p)
  <2>1. JobsOK'
    BY <1>10, WonIs, StepsOK
  <2>2. mark' \in Slots \cup {None}
    <3>1. mark \in Slots \cup {None} /\ job[p].list \in SUBSET Slots
      BY ListType DEF DataOK
    <3>2. mark' \in job[p].list \/ mark' = None \/ mark' = mark
      BY <1>10, WonIs
    <3>3. QED
      BY <3>1, <3>2
  <2>3. again' \in BOOLEAN
    BY <1>10, WonIs
  <2>4. QED
    BY <1>10, <2>1, <2>2, <2>3 DEF Won, DataOK, ledger
<1>11. CASE Clear(p)
  <2>1. JobsOK'
    BY <1>11, FailOK DEF Clear, At
  <2>2. Current(p).dim \in Dims
    BY <1>11, CurrentType DEF Clear, At
  <2>3. retry' \in [Dims -> Days \cup {None}]
    BY <1>11, <2>2 DEF Clear, DataOK
  <2>4. QED
    BY <1>11, <2>1, <2>3 DEF Clear, DataOK, ledger, stream
<1>12. CASE Failed(p)
  <2>1. JobsOK'
    BY <1>12, FailOK DEF Failed, At
  <2>2. Current(p).dim \in Dims /\ Current(p).since \in Days
    BY <1>12, CurrentType DEF Failed, At
  <2>3. Day(Monus(job[p].from, 1)) \in Days
    BY OldJob, SlotType DEF Sound
  <2>4. retry' \in [Dims -> Days \cup {None}]
    BY <1>12, <2>2, <2>3 DEF Failed, DataOK
  <2>5. QED
    BY <1>12, <2>1, <2>4 DEF Failed, DataOK, ledger, stream
<1>13. QED
  BY <1>1, <1>2, <1>3, <1>4, <1>5, <1>6, <1>7, <1>8, <1>9, <1>10, <1>11, <1>12 DEF Works

LEMMA FailsOK ==
  ASSUME TypeInv, NEW p \in Procs, Fails(p)
  PROVE  JobsOK' /\ DataOK' /\ left' \in [Spendable -> Nat]
<1> USE TypeParts
<1>0. \A what \in Spendable : Spend(what) => left' \in [Spendable -> Nat]
  BY SpendType DEF TypeInv
<1>a. "faults" \in Spendable /\ "kills" \in Spendable
  BY DEF Spendable
<1>1. CASE RollupFails(p)
  <2>1. JobsOK'
    BY <1>1, FailOK DEF RollupFails, At
  <2>2. left' \in [Spendable -> Nat]
    BY <1>0, <1>a, <1>1 DEF RollupFails
  <2>3. QED
    BY <1>1, <2>1, <2>2 DEF RollupFails, DataOK, ledger, stream
<1>2. CASE PurgeFails(p)
  <2>1. JobsOK'
    BY <1>2, FailOK DEF PurgeFails, At
  <2>2. left' \in [Spendable -> Nat]
    BY <1>0, <1>a, <1>2 DEF PurgeFails
  <2>3. QED
    BY <1>2, <2>1, <2>2 DEF PurgeFails, DataOK, ledger, stream
<1>3. CASE SyncFails(p)
  <2>1. Forgets(p, "failed") /\ job[p].pc \in {"list", "send"} /\ (Land(p) \/ dw' = dw)
    BY <1>3 DEF SyncFails, Forgets, At
  <2>2. JobsOK'
    BY <2>1, ForgetsIs, StepsOK
  <2>3. dw' \in [Days -> Sums]
    BY <2>1, LandType DEF DataOK
  <2>4. left' \in [Spendable -> Nat]
    BY <1>0, <1>a, <1>3 DEF SyncFails
  <2>5. QED
    BY <1>3, <2>2, <2>3, <2>4 DEF SyncFails, DataOK, stream
<1>4. CASE MarkFails(p)
  <2>1. ReadMark(p, FALSE)
    BY <1>4 DEF MarkFails
  <2>2. /\ UNCHANGED <<now, ledger, asked, logs, facts, mark, missed, retry>>
        /\ again' = (again \/ (mark # None /\ ~FALSE) \/ \E q \in Procs \ {p} : Shipping(q))
        /\ \E j : Marks(p, FALSE, j)
    BY <2>1, ReadMarkIs
  <2>3. JobsOK'
    BY <2>2, StepsOK DEF Marks
  <2>4. again' \in BOOLEAN
    BY <2>2
  <2>5. left' \in [Spendable -> Nat]
    BY <1>0, <1>a, <1>4 DEF MarkFails
  <2>6. QED
    BY <2>2, <2>3, <2>4, <2>5 DEF DataOK, ledger
<1>5. CASE FactsFail(p)
  <2>1. Turns(p, "failed", {}) /\ job[p].pc \in {"pick", "ship"}
    BY <1>5 DEF FactsFail, Turns, At
  <2>2. JobsOK'
    BY <2>1, TurnsIs, StepsOK
  <2>3. (UNCHANGED <<facts, again>>) \/ (Arrived(job[p].list) /\ again' = TRUE)
    BY <1>5 DEF FactsFail
  <2>4. facts' \in [Slots -> 0 .. 2] /\ again' \in BOOLEAN
    BY <2>3, ArrivedOK, ListType DEF TypeInv, DataOK
  <2>5. left' \in [Spendable -> Nat]
    BY <1>0, <1>a, <1>5 DEF FactsFail
  <2>6. QED
    BY <1>5, <2>2, <2>4, <2>5 DEF FactsFail, DataOK, ledger
<1>6. CASE WinIsLost(p)
  <2>1. JobsOK'
    BY <1>6, FailOK DEF WinIsLost, At
  <2>2. left' \in [Spendable -> Nat] /\ again' \in BOOLEAN
    BY <1>0, <1>a, <1>6 DEF WinIsLost
  <2>3. QED
    BY <1>6, <2>1, <2>2 DEF WinIsLost, DataOK, ledger
<1>7. CASE FailureIsLost(p)
  <2>1. JobsOK'
    BY <1>7, FailOK DEF FailureIsLost, At
  <2>2. left' \in [Spendable -> Nat]
    BY <1>0, <1>a, <1>7 DEF FailureIsLost
  <2>3. QED
    BY <1>7, <2>1, <2>2 DEF FailureIsLost, DataOK, ledger, stream
<1>8. CASE Kill(p)
  <2>1. Spend("kills") /\ again' = (again \/ Shipping(p)) /\ Ends(p, Idle)
        /\ UNCHANGED <<now, ledger, asked, logs, facts, mark, missed, retry>>
    BY <1>8, KillIs
  <2>2. JobsOK'
    BY <2>1, EndsOK
  <2>3. left' \in [Spendable -> Nat] /\ again' \in BOOLEAN
    BY <1>0, <1>a, <2>1
  <2>4. QED
    BY <2>1, <2>2, <2>3 DEF DataOK, ledger
<1>9. QED
  BY <1>1, <1>2, <1>3, <1>4, <1>5, <1>6, <1>7, <1>8 DEF Fails

\* A post begins a job and spends what it is allowed for.
LEMMA PostIs ==
  ASSUME TypeInv, NEW a \in Admins, Post(a)
  PROVE  /\ a \in Procs /\ a # "retention" /\ \E j : Starts(a, j)
         /\ \E what \in Spendable : Spend(what)
<1>1. {"sinks", "rollups", "ships", "retries"} \subseteq Spendable
  BY DEF Spendable
<1>2. \/ \E n \in Wide : PostSink(a, n) \/ PostRollup(a, n)
      \/ PostFacts(a) \/ PostRetryAll(a) \/ PostRetry(a)
  BY DEF Post
<1>3. ASSUME NEW n \in Wide, PostSink(a, n) \/ PostRollup(a, n)
      PROVE  (\E j : Starts(a, j)) /\ (Spend("sinks") \/ Spend("rollups"))
  BY <1>3, PostSinkStarts, PostRollupStarts
<1>4. ASSUME PostFacts(a) \/ PostRetryAll(a) \/ PostRetry(a)
      PROVE  (\E j : Starts(a, j)) /\ (Spend("ships") \/ Spend("retries"))
  BY <1>4, PostFactsStarts, PostRetryAllStarts, PostRetryStarts
<1>5. QED
  BY <1>1, <1>2, <1>3, <1>4

\* The steps of the world: time, requests and queries.
LEMMA WorldOK ==
  ASSUME TypeInv, Tick \/ Request \/ Query \/ \E t \in Slots : StoreRequest(t) \/ StoreLog(t)
  PROVE  JobsOK' /\ DataOK' /\ left' \in [Spendable -> Nat] /\ job' = job
<1> USE TypeParts
<1>0. \A what \in Spendable : Spend(what) => left' \in [Spendable -> Nat]
  BY SpendType DEF TypeInv
<1>a. "requests" \in Spendable /\ "queries" \in Spendable
  BY DEF Spendable
<1>b. job' = job
  BY DEF Tick, Request, Query, StoreRequest, StoreLog
<1>c. JobsOK'
  BY <1>b DEF JobsOK
<1>1. CASE Tick
  BY <1>1, <1>b, <1>c DEF Tick, DataOK, ledger, stream
<1>2. CASE Request
  <2>1. left' \in [Spendable -> Nat]
    BY <1>0, <1>a, <1>2 DEF Request
  <2>2. QED
    BY <1>2, <1>b, <1>c, <2>1 DEF Request, DataOK, stream
<1>3. CASE Query
  <2>1. left' \in [Spendable -> Nat]
    BY <1>0, <1>a, <1>3 DEF Query
  <2>2. QED
    BY <1>3, <1>b, <1>c, <2>1 DEF Query, DataOK, ledger
<1>4. ASSUME NEW t \in Slots, StoreRequest(t) PROVE DataOK' /\ left' = left
  BY <1>4 DEF StoreRequest, DataOK, stream
<1>5. ASSUME NEW t \in Slots, StoreLog(t) PROVE DataOK' /\ left' = left
  <2>1. missed' \in SUBSET Slots
    BY <1>5 DEF StoreLog, DataOK
  <2>2. QED
    BY <1>5, <2>1 DEF StoreLog, DataOK, ledger
<1>6. QED
  BY <1>1, <1>2, <1>3, <1>4, <1>5, <1>b, <1>c

LEMMA TypeStep == ASSUME TypeInv, Next PROVE TypeInv'
<1>0. JobsOK /\ DataOK /\ left \in [Spendable -> Nat]
  BY TypeParts
<1>1. CASE Tick \/ Request \/ Query \/ \E t \in Slots : StoreRequest(t) \/ StoreLog(t)
  BY <1>1, WorldOK, NewTypeParts
<1>2. CASE RetentionPass
  BY <1>0, <1>2, RetentionStarts, StartsOK, NewTypeParts
<1>3. CASE SinkCycle
  BY <1>0, <1>3, SinkStarts, StartsOK, NewTypeParts
<1>4. ASSUME NEW p \in Procs, Works(p) \/ Fails(p) PROVE TypeInv'
  BY <1>4, WorksOK, FailsOK, NewTypeParts
<1>5. ASSUME NEW a \in Admins, Post(a) PROVE TypeInv'
  <2>1. JobsOK' /\ DataOK'
    BY <1>5, PostIs, StartsOK
  <2>2. left' \in [Spendable -> Nat]
    BY <1>5, PostIs, SpendType DEF TypeInv
  <2>3. QED
    BY <2>1, <2>2, NewTypeParts
<1>6. QED
  BY <1>1, <1>2, <1>3, <1>4, <1>5 DEF Next

LEMMA TypeStays == ASSUME TypeInv, UNCHANGED vars PROVE TypeInv'
<1>1. JobsOK /\ DataOK /\ left \in [Spendable -> Nat]
  BY TypeParts
<1>2. JobsOK' /\ DataOK' /\ left' = left
  BY <1>1 DEF JobsOK, DataOK, vars, ledger, stream
<1>3. QED
  BY <1>1, <1>2, NewTypeParts

\* A job that has not begun.
LEMMA TypeInit == ASSUME Init PROVE TypeInv
<1> DEFINE off == [Idle EXCEPT !.pc = "off"]
<1>1. /\ Whole(off) /\ off.pc = "off" /\ off.todo = <<>> /\ off.days = 0 /\ off.began = 0 /\ off.day = 0
      /\ off.sums = Nothing /\ off.hit = FALSE /\ off.seen = {} /\ off.cutoff = 0
      /\ off.copy = Idle.copy /\ off.from = 0 /\ off.fresh = FALSE /\ off.list = {}
  BY IdleIs DEF Whole
<1> HIDE DEF off
<1>2. ASSUME NEW p PROVE Sound(p, off)
  <2>1. Sound(p, Idle) /\ Typed(Idle)
    BY IdleSound, JobFields DEF Sound
  <2>2. Typed(off)
    BY <1>1, <2>1, IdleIs DEF Typed, Pcs
  <2>3. QED
    BY <1>1, <2>1, <2>2, IdleIs, JobFields DEF Sound
<1>3. PICK s \in Setups : /\ left = s.budget
                          /\ job = [p \in Procs |-> IF p \in Admins \cup s.workers THEN Idle ELSE off]
  BY DEF Init, off
<1>4. left \in [Spendable -> Nat]
  BY <1>3, SetupsAssumption
<1>5. \A p \in Procs : (job[p] = Idle \/ job[p] = off) /\ Sound(p, job[p])
  BY <1>2, <1>3, IdleSound
<1>6. JobsOK
  <2>1. \A p \in Procs : job[p] \in Jobs
    BY <1>5 DEF Sound
  <2>2. QED
    BY <1>3, <1>5, <2>1 DEF JobsOK
<1>7. DataOK
  <2>1. daily \in [Days -> Sums] /\ dw \in [Days -> Sums]
    BY NothingType DEF Init
  <2>2. facts \in [Slots -> 0 .. 2] /\ retry \in [Dims -> Days \cup {None}]
    BY DEF Init, Dims
  <2>3. QED
    BY <2>1, <2>2, SlotType DEF Init, DataOK
<1>8. QED
  BY <1>4, <1>6, <1>7, TypeParts

-----------------------------------------------------------------------------
\* Every variable keeps its type: what a process is doing is one of its
\* operations, with a list of tasks that fits, on days and slots there are; a
\* retry queue entry is a day, though a failed window begins at a time.
THEOREM TypeCorrect == Spec => []TypeOK
<1>1. Init => TypeInv
  BY TypeInit
<1>2. TypeInv /\ [Next]_vars => TypeInv'
  BY TypeStep, TypeStays
<1>3. TypeInv => TypeOK
  BY DEF TypeInv
<1>4. QED
  BY <1>1, <1>2, <1>3, PTL DEF Spec
-----------------------------------------------------------------------------
(* The operations that leave request_logs, token_usage and the sums alone. *)
NoRollup(j) == j.seen = {} /\ j.pc \notin {"count", "upsert", "rows"}

Aside(p, j) ==
  /\ Goes(p, j) /\ Sound(p, j) /\ NoRollup(j)
  /\ j.todo # <<>> => j.began = job[p].began
  /\ UNCHANGED <<now, waiting, reqs, usage, daily, sure, spoilt>>

Same == UNCHANGED <<now, waiting, reqs, usage, daily, sure, spoilt>>

LEMMA EndsAside ==
  ASSUME NEW p \in Procs, NEW j, Ends(p, j), Same
  PROVE  Aside(p, j)
  BY DEF Ends, Rests, Aside, NoRollup, Same

LEMMA StepsAside ==
  ASSUME NEW p \in Procs, NEW j, Steps(p, j), j.pc \notin {"count", "upsert", "rows"}, Same
  PROVE  Aside(p, j)
  BY DEF Steps, SameTask, Aside, NoRollup, Same

Purges(p) == PurgeUsage(p) \/ PurgeRows(p)

LEMMA AsideIs ==
  ASSUME TypeInv, NEW p \in Procs, Works(p) \/ Fails(p)
  PROVE  Count(p) \/ Upsert(p) \/ Purges(p) \/ \E j : Aside(p, j)
<1>1. CASE Count(p) \/ Upsert(p) \/ PurgeUsage(p) \/ PurgeRows(p)
  BY <1>1 DEF Purges
<1>2. CASE List(p)
  <2>1. Same
    BY <1>2 DEF List, Same, ledger
  <2>2. QED
    BY <1>2, <2>1, ListIs, StepsAside
<1>3. CASE Send(p)
  <2>1. Same /\ Forgets(p, "won") /\ job[p].pc = "send"
    BY <1>3 DEF Send, Same, Forgets, At
  <2>2. QED
    BY <2>1, ForgetsIs, StepsAside
<1>4. CASE Mark(p) \/ MarkFails(p)
  <2>1. PICK known \in BOOLEAN : ReadMark(p, known) /\ (known => mark # None)
    BY <1>4 DEF Mark, MarkFails
  <2>2. Same
    BY <2>1 DEF ReadMark, Same, ledger
  <2>3. PICK j : Marks(p, known, j)
    BY <2>1, ReadMarkIs
  <2>4. QED
    BY <2>2, <2>3, StepsAside DEF Marks
<1>5. CASE Pick(p)
  <2>1. Same
    BY <1>5 DEF Pick, Same, ledger
  <2>2. QED
    BY <1>5, <2>1, PickIs, StepsAside, EndsAside DEF Picks
<1>6. CASE Ship(p)
  <2>1. Same
    BY <1>6 DEF Ship, Same, ledger
  <2>2. QED
    BY <1>6, <2>1, ShipIs, StepsAside
<1>7. CASE Won(p)
  <2>1. Same
    BY <1>7 DEF Won, Same, ledger
  <2>2. QED
    BY <1>7, <2>1, WonIs, StepsAside
<1>8. CASE SyncFails(p)
  <2>1. Same /\ Forgets(p, "failed") /\ job[p].pc \in {"list", "send"}
    BY <1>8 DEF SyncFails, Same, Forgets, At
  <2>2. QED
    BY <2>1, ForgetsIs, StepsAside
<1>9. CASE FactsFail(p)
  <2>1. Same /\ Turns(p, "failed", {}) /\ job[p].pc \in {"pick", "ship"}
    BY <1>9 DEF FactsFail, Same, ledger, Turns, At
  <2>2. QED
    BY <2>1, TurnsIs, StepsAside
<1>10. CASE Kill(p)
  <2>1. Same
    BY <1>10 DEF Kill, Same, ledger
  <2>2. QED
    BY <1>10, <2>1, KillIs, EndsAside
<1>11. CASE Clear(p) \/ Failed(p) \/ RollupFails(p) \/ PurgeFails(p) \/ WinIsLost(p) \/ FailureIsLost(p)
  <2>1. Same /\ End(p) /\ job[p].pc \notin {"off", "idle"}
    BY <1>11 DEF Clear, Failed, RollupFails, PurgeFails, WinIsLost, FailureIsLost, Same, ledger, At
  <2>2. QED
    BY <2>1, EndsIs, EndsAside
<1>12. QED
  BY <1>1, <1>2, <1>3, <1>4, <1>5, <1>6, <1>7, <1>8, <1>9, <1>10, <1>11 DEF Works, Fails

-----------------------------------------------------------------------------
(* PurgedIsCounted.  The rows that the retention worker found when it began*)
(* are there until it has summed them up, and what it has summed up of them*)
(* stays in the sums.                                                      *)
Kept(t) == t \in daily[Day(t)].requests \/ Day(t) \in spoilt

Over(j) ==
  j.pc \in {"count", "upsert"} =>
    /\ j.seen \subseteq reqs
    /\ \A t \in j.seen : Monus(Day(j.began), RollupDays) <= Day(t) /\ Day(t) < j.day => Kept(t)
    /\ j.pc = "upsert" => \A t \in j.seen : Day(t) = j.day => t \in j.sums.requests

CountInv == PurgedIsCounted /\ Over(job["retention"])

LEMMA RetentionProc == "retention" \in Procs
  OBVIOUS

\* Nothing is known of a day that the worker does not sum up.
LEMMA NoSeen == ASSUME NEW j, j.seen = {} PROVE Over(j) /\ Over(j)'
  BY DEF Over

LEMMA CountKept ==
  ASSUME CountInv, daily' = daily, spoilt' = spoilt, sure' = sure,
         job'["retention"].seen = {} \/ (job'["retention"] = job["retention"] /\ reqs \subseteq reqs')
  PROVE  CountInv'
<1>1. PurgedIsCounted'
  BY DEF CountInv, PurgedIsCounted
<1>2. CASE job'["retention"].seen = {}
  <2>1. Over(job["retention"])'
    BY <1>2 DEF Over
  <2>2. QED
    BY <1>1, <2>1 DEF CountInv
<1>3. CASE job'["retention"] = job["retention"] /\ reqs \subseteq reqs'
  <2>1. Over(job["retention"])'
    BY <1>3 DEF CountInv, Over, Kept
  <2>2. QED
    BY <1>1, <2>1 DEF CountInv
<1>4. QED
  BY <1>2, <1>3

\* A step of a process that has not to do with rollups.
LEMMA CountAside ==
  ASSUME TypeInv, CountInv, NEW p \in Procs, NEW j, Goes(p, j), Sound(p, j), j.seen = {},
         daily' = daily, spoilt' = spoilt, sure' = sure, reqs' = reqs
  PROVE  CountInv'
<1>1. job'[p] = j /\ \A q \in Procs \ {p} : job'[q] = job[q]
  BY GoesOK
<1>2. QED
  BY <1>1, CountKept, RetentionProc

LEMMA CountStarts ==
  ASSUME TypeInv, CountInv, NEW j, Starts("retention", j)
  PROVE  CountInv'
<1>1. /\ Goes("retention", j) /\ Sound("retention", j) /\ j.seen = reqs /\ j.began = now
      /\ j.pc \in {"count", "list", "mark"} /\ j.day = Monus(Day(now), j.days)
      /\ UNCHANGED <<now, ledger, stream, retry>>
  BY DEF Starts
<1>2. job'["retention"] = j
  BY <1>1, GoesOK, RetentionProc
<1>3. PurgedIsCounted'
  BY <1>1 DEF CountInv, PurgedIsCounted, ledger
<1>4. j.pc = "count" => j.days = RollupDays
  BY <1>1 DEF Sound
<1>5. Monus(Day(now), RollupDays) \in Nat /\ \A t \in reqs : Day(t) \in Nat
  BY DaysBack, SlotType, Sizes DEF TypeInv, TypeOK
<1>6. Over(j)'
  BY <1>1, <1>4, <1>5 DEF Over, ledger
<1>7. Over(job["retention"])'
  BY <1>2, <1>6 DEF Over, Kept
<1>8. QED
  BY <1>3, <1>7 DEF CountInv
(* The requests that p has been over, with the day it is at.               *)
BeenOver(j) == {t \in j.seen : Monus(Day(j.began), RollupDays) <= Day(t) /\ Day(t) <= j.day}

\* The worker goes on with the next day, or ends its rollup: what it has been
\* over is kept.
LEMMA RollsOver ==
  ASSUME TypeInv, NEW old, old = job["retention"], old.pc \in {"count", "upsert"}, Over(old),
         Counted("retention"), reqs' = reqs, GoesOn(old, job'["retention"]),
         \A t \in sure : Kept(t)', \A t \in BeenOver(old) : Kept(t)'
  PROVE  CountInv'
<1> DEFINE new == job'["retention"]
<1>1. Sound("retention", old) /\ Typed(old)
  BY OldJob, RetentionProc
<1>2. old.day \in Nat /\ \A t \in old.seen : Day(t) \in Nat
  BY <1>1, SlotType DEF Typed
<1>3. CASE LastOf(old)
  <2>1. Rests(old, new)
    BY <1>3 DEF GoesOn
  <2>2. new.seen = {}
    BY <2>1 DEF Rests
  <2>3. sure' \subseteq sure \cup BeenOver(old)
    BY <1>3 DEF Counted, BeenOver, LastOf
  <2>4. PurgedIsCounted'
    BY <2>3 DEF PurgedIsCounted, Kept
  <2>5. QED
    BY <2>2, <2>4 DEF CountInv, Over
<1>4. CASE ~LastOf(old)
  <2>1. SameRollup(old, new) /\ new.pc = "count" /\ new.day = old.day + 1
    BY <1>4 DEF GoesOn
  <2>2. sure' = sure
    BY <1>4 DEF Counted
  <2>3. PurgedIsCounted'
    BY <2>2 DEF PurgedIsCounted, Kept
  <2>4. new.seen = old.seen /\ new.began = old.began
    BY <2>1 DEF SameRollup, SameTask
  <2>5. old.seen \subseteq reqs'
    BY DEF Over
  <2>6. \A t \in old.seen : Monus(Day(old.began), RollupDays) <= Day(t) /\ Day(t) < old.day + 1 => Kept(t)'
    BY <1>2 DEF BeenOver
  <2>7. Over(job["retention"])'
    BY <2>1, <2>4, <2>5, <2>6 DEF Over, Kept
  <2>8. QED
    BY <2>3, <2>7 DEF CountInv
<1>5. QED
  BY <1>3, <1>4

LEMMA CountCounts ==
  ASSUME TypeInv, CountInv, NEW p \in Procs, Count(p)
  PROVE  CountInv'
<1>1. /\ job[p].pc = "count" /\ UNCHANGED <<now, waiting, reqs, usage, daily, dw, spoilt, stream, retry, left>>
      /\ CountsNone(p) \/ \E j : Counts(p, j)
  BY CountIs
<1>2. CASE CountsNone(p)
  <2>1. Goes(p, Rolled(job[p])) /\ Sound(p, Rolled(job[p])) /\ GoesOn(job[p], Rolled(job[p]))
    BY <1>1, <1>2, RollsOnIs DEF CountsNone
  <2>2. job'[p] = Rolled(job[p]) /\ \A q \in Procs \ {p} : job'[q] = job[q]
    BY <2>1, GoesOK
  <2>3. Counted(p) /\ RequestsOf(job[p].day) = {}
    BY <1>2 DEF CountsNone
  <2>4. CASE p # "retention"
    <3>1. sure' = sure
      BY <2>3, <2>4 DEF Counted
    <3>2. QED
      BY <1>1, <2>2, <2>4, <3>1, CountKept, RetentionProc
  <2>5. CASE p = "retention"
    <3>1. PICK old : old = job["retention"]
      OBVIOUS
    <3>2. Over(old) /\ old.pc = "count"
      BY <1>1, <2>5, <3>1 DEF CountInv
    <3>3. old.day \in Nat /\ old.seen \subseteq reqs /\ \A t \in old.seen : Day(t) \in Nat
      BY <3>1, <3>2, OldJob, RetentionProc, SlotType DEF Typed, Over
    <3>4. \A t \in BeenOver(old) : Day(t) # old.day
      BY <2>3, <2>5, <3>1, <3>3 DEF BeenOver, RequestsOf
    <3>5. \A t \in BeenOver(old) : Kept(t)
      BY <3>2, <3>3, <3>4 DEF BeenOver, Over
    <3>6. \A t \in sure : Kept(t)
      BY DEF CountInv, PurgedIsCounted, Kept
    <3>7. \A t : Kept(t) => Kept(t)'
      BY <1>1 DEF Kept
    <3>8. GoesOn(old, job'["retention"]) /\ Counted("retention")
      BY <2>1, <2>2, <2>3, <2>5, <3>1
    <3>9. QED
      BY <1>1, <3>1, <3>2, <3>5, <3>6, <3>7, <3>8, RollsOver
  <2>6. QED
    BY <2>4, <2>5
<1>3. ASSUME NEW j, Counts(p, j) PROVE CountInv'
  <2>1. job'[p] = j /\ \A q \in Procs \ {p} : job'[q] = job[q]
    BY <1>3, GoesOK DEF Counts
  <2>2. sure' = sure
    BY <1>3 DEF Counts
  <2>3. CASE p # "retention"
    BY <1>1, <2>1, <2>2, <2>3, CountKept, RetentionProc
  <2>4. CASE p = "retention"
    <3>1. PICK old : old = job["retention"]
      OBVIOUS
    <3>2. Over(old) /\ old.pc = "count"
      BY <1>1, <2>4, <3>1 DEF CountInv
    <3>3. /\ j.pc = "upsert" /\ j.seen = old.seen /\ j.began = old.began /\ j.day = old.day
          /\ j.sums.requests = RequestsOf(old.day)
      BY <1>3, <2>4, <3>1 DEF Counts, SameRollup, SameTask
    <3>4. \A t \in j.seen : Day(t) = j.day => t \in j.sums.requests
      BY <3>2, <3>3 DEF Over, RequestsOf
    <3>5. Over(job["retention"])'
      BY <1>1, <2>1, <2>4, <3>2, <3>3, <3>4 DEF Over, Kept
    <3>6. PurgedIsCounted'
      BY <1>1, <2>2 DEF CountInv, PurgedIsCounted
    <3>7. QED
      BY <3>5, <3>6 DEF CountInv
  <2>5. QED
    BY <2>3, <2>4
<1>4. QED
  BY <1>1, <1>2, <1>3

\* What a rollup writes over is kept, or its day is spoilt.
LEMMA UpsertKeeps ==
  ASSUME TypeInv, NEW p \in Procs, Upsert(p)
  PROVE  /\ \A t \in Slots : Kept(t) => Kept(t)'
         /\ \A t \in Slots : Day(t) = job[p].day /\ t \in job[p].sums.requests => Kept(t)'
<1> DEFINE d == job[p].day
           s == job[p].sums
<1>1. d \in Days /\ s \in Sums /\ daily \in [Days -> Sums]
  BY OldJob DEF Typed, TypeInv, TypeOK
<1>2. /\ daily' = [daily EXCEPT ![d] = s]
      /\ spoilt' = IF daily[d].requests \subseteq s.requests THEN spoilt ELSE spoilt \cup {d}
  BY UpsertIs
<1> HIDE DEF d, s
<1>3. daily'[d] = s /\ \A e \in Days : e # d => daily'[e] = daily[e]
  BY <1>1, <1>2
<1>4. \A t \in Slots : Day(t) \in Days
  BY SlotType
<1>5. ASSUME NEW t \in Slots, Kept(t) PROVE Kept(t)'
  <2>1. CASE Day(t) \in spoilt
    BY <1>2, <2>1 DEF Kept
  <2>2. CASE Day(t) # d
    BY <1>2, <1>3, <1>4, <1>5, <2>2 DEF Kept
  <2>3. CASE Day(t) = d /\ Day(t) \notin spoilt
    <3>1. t \in daily[d].requests
      BY <1>5, <2>3 DEF Kept
    <3>2. t \in s.requests \/ d \in spoilt'
      BY <1>2, <3>1
    <3>3. QED
      BY <1>3, <2>3, <3>2 DEF Kept
  <2>4. QED
    BY <2>1, <2>2, <2>3
<1>6. ASSUME NEW t \in Slots, Day(t) = d, t \in s.requests PROVE Kept(t)'
  BY <1>3, <1>6 DEF Kept
<1>7. QED
  BY <1>5, <1>6 DEF d, s

LEMMA CountUpserts ==
  ASSUME TypeInv, CountInv, NEW p \in Procs, Upsert(p)
  PROVE  CountInv'
<1>1. /\ job[p].pc = "upsert" /\ UNCHANGED <<now, waiting, reqs, usage, dw, stream, retry, left>>
      /\ Counted(p) /\ GoesOn(job[p], job'[p]) /\ \A q \in Procs \ {p} : Overlapped(job[q], job'[q])
  BY UpsertIs
<1>2. sure \in SUBSET Slots
  BY DEF TypeInv, TypeOK
<1>3. \A t \in sure : Kept(t)'
  BY <1>2, UpsertKeeps DEF CountInv, PurgedIsCounted, Kept
<1>4. PICK old : old = job["retention"]
  OBVIOUS
<1>5. Over(old) /\ Sound("retention", old) /\ old.seen \in SUBSET Slots /\ old.day \in Nat
  BY <1>4, OldJob, RetentionProc, SlotType DEF CountInv, Typed
<1>6. \A t \in old.seen : Day(t) \in Nat
  BY <1>5, SlotType
<1>7. CASE p # "retention"
  <2>1. sure' = sure
    BY <1>1, <1>7 DEF Counted
  <2>2. PurgedIsCounted'
    BY <1>3, <2>1 DEF PurgedIsCounted, Kept
  <2>3. Overlapped(old, job'["retention"])
    BY <1>1, <1>4, <1>7, RetentionProc
  <2>4. Over(job["retention"])'
    <3> DEFINE new == job'["retention"]
    <3>1. new.pc = old.pc /\ new.seen = old.seen /\ new.began = old.began /\ new.day = old.day /\ new.sums = old.sums
      BY <2>3 DEF Overlapped
    <3>2. \A t \in old.seen : Kept(t) => Kept(t)'
      BY <1>5, UpsertKeeps
    <3>3. QED
      BY <1>1, <1>5, <3>1, <3>2 DEF Over, Kept
  <2>5. QED
    BY <2>2, <2>4 DEF CountInv
<1>8. CASE p = "retention"
  <2>1. old.pc = "upsert" /\ old = job[p]
    BY <1>1, <1>4, <1>8
  <2>2. ASSUME NEW t \in BeenOver(old) PROVE Kept(t)'
    <3>1. t \in old.seen /\ t \in Slots /\ Monus(Day(old.began), RollupDays) <= Day(t) /\ Day(t) <= old.day
      BY <1>5 DEF BeenOver
    <3>2. CASE Day(t) = old.day
      <4>1. t \in old.sums.requests
        BY <1>5, <2>1, <3>1, <3>2 DEF Over
      <4>2. QED
        BY <2>1, <3>1, <3>2, <4>1, UpsertKeeps
    <3>3. CASE Day(t) # old.day
      <4>1. Day(t) < old.day
        BY <1>5, <1>6, <3>1, <3>3
      <4>2. Kept(t)
        BY <1>5, <2>1, <3>1, <4>1 DEF Over
      <4>3. QED
        BY <3>1, <4>2, UpsertKeeps
    <3>4. QED
      BY <3>2, <3>3
  <2>3. Counted("retention") /\ GoesOn(old, job'["retention"])
    BY <1>1, <1>8, <2>1
  <2>4. QED
    BY <1>1, <1>3, <1>4, <1>5, <2>1, <2>2, <2>3, RollsOver
<1>9. QED
  BY <1>7, <1>8

LEMMA CountPurges ==
  ASSUME TypeInv, CountInv, NEW p \in Procs, Purges(p)
  PROVE  CountInv'
<1>1. CASE PurgeUsage(p)
  <2>1. PICK j : Goes(p, j) /\ Sound(p, j) /\ j.seen = {}
    BY <1>1, PurgeUsageIs DEF Ends, Steps, Rests
  <2>2. daily' = daily /\ spoilt' = spoilt /\ sure' = sure /\ reqs' = reqs
    BY <1>1 DEF PurgeUsage
  <2>3. QED
    BY <2>1, <2>2, CountAside
<1>2. CASE PurgeRows(p)
  <2>1. End(p) /\ job[p].pc = "rows" /\ daily' = daily /\ spoilt' = spoilt /\ sure' = sure
    BY <1>2 DEF PurgeRows, At
  <2>2. p = "retention"
    BY <2>1, OldJob DEF Sound
  <2>3. PICK j : Ends(p, j)
    BY <2>1, EndsIs
  <2>4. job'[p] = j /\ j.seen = {}
    BY <2>3, GoesOK DEF Ends, Rests
  <2>5. QED
    BY <2>1, <2>2, <2>4, CountKept
<1>3. QED
  BY <1>1, <1>2 DEF Purges

\* The steps of the world only add to request_logs.
LEMMA CountWorld ==
  ASSUME TypeInv, CountInv, Tick \/ Request \/ Query \/ \E t \in Slots : StoreRequest(t) \/ StoreLog(t)
  PROVE  CountInv'
<1>1. job' = job /\ daily' = daily /\ spoilt' = spoilt /\ sure' = sure /\ reqs \subseteq reqs'
  BY DEF Tick, Request, Query, StoreRequest, StoreLog, ledger
<1>2. QED
  BY <1>1, CountKept

LEMMA CountStep == ASSUME TypeInv, CountInv, Next PROVE CountInv'
<1>1. CASE Tick \/ Request \/ Query \/ \E t \in Slots : StoreRequest(t) \/ StoreLog(t)
  BY <1>1, CountWorld
<1>2. CASE RetentionPass
  BY <1>2, RetentionStarts, CountStarts
<1>3. ASSUME NEW p \in Procs, p # "retention", NEW j, Starts(p, j) PROVE CountInv'
  <2>1. Goes(p, j) /\ Sound(p, j) /\ j.seen = {} /\ UNCHANGED ledger
    BY <1>3 DEF Starts
  <2>2. QED
    BY <2>1, CountAside DEF ledger
<1>4. CASE SinkCycle
  BY <1>3, <1>4, SinkStarts
<1>5. ASSUME NEW p \in Procs, Works(p) \/ Fails(p) PROVE CountInv'
  <2>1. ASSUME NEW j, Aside(p, j) PROVE CountInv'
    BY <2>1, CountAside DEF Aside, NoRollup
  <2>2. QED
    BY <1>5, <2>1, AsideIs, CountCounts, CountUpserts, CountPurges
<1>6. ASSUME NEW a \in Admins, Post(a) PROVE CountInv'
  BY <1>3, <1>6, PostIs
<1>7. QED
  BY <1>1, <1>2, <1>4, <1>5, <1>6 DEF Next

LEMMA CountStays == ASSUME CountInv, UNCHANGED vars PROVE CountInv'
  BY CountKept DEF vars, ledger

LEMMA CountInit == ASSUME Init PROVE CountInv
<1>1. PICK s \in Setups : job = [p \in Procs |-> IF p \in Admins \cup s.workers THEN Idle ELSE [Idle EXCEPT !.pc = "off"]]
  BY DEF Init
<1>2. job["retention"].seen = {}
  BY <1>1, IdleIs, RetentionProc DEF Whole
<1>3. QED
  BY <1>2 DEF Init, CountInv, PurgedIsCounted, Over

\* A request stored before the retention worker went over its day is part of
\* the day's sums when its row is purged, and later: the worker purges after its
\* rollup, and a rollup of another session that knows less marks the day.
THEOREM PurgedStayCounted == Spec => []PurgedIsCounted
<1>1. Init => TypeInv /\ CountInv
  BY TypeInit, CountInit
<1>2. TypeInv /\ CountInv /\ [Next]_vars => TypeInv' /\ CountInv'
  BY TypeStep, TypeStays, CountStep, CountStays
<1>3. CountInv => PurgedIsCounted
  BY DEF CountInv
<1>4. QED
  BY <1>1, <1>2, <1>3, PTL DEF Spec
-----------------------------------------------------------------------------
(* The operations that have not to do with the logs of queries.            *)
Unshipped(j) == j.pc \notin {"pick", "ship"} /\ j.list = {}
SameShip(j, k) == k.pc = j.pc /\ k.list = j.list /\ k.from = j.from /\ k.fresh = j.fresh

Ashore(p) ==
  /\ UNCHANGED <<stream>> /\ Unshipped(job[p]) /\ Unshipped(job'[p])
  /\ \A q \in Procs \ {p} : SameShip(job[q], job'[q])

Ferries(p) == Mark(p) \/ MarkFails(p) \/ Pick(p) \/ Ship(p) \/ FactsFail(p) \/ Won(p) \/ WinIsLost(p) \/ Kill(p)

LEMMA UnshippedIs ==
  ASSUME TypeInv, NEW p \in Procs, job[p].pc \notin {"pick", "ship", "won"}
  PROVE  Unshipped(job[p])
  BY OldJob DEF Sound, Unshipped

LEMMA AshoreGoes ==
  ASSUME TypeInv, NEW p \in Procs, NEW j, Goes(p, j), Sound(p, j), Unshipped(j), UNCHANGED stream,
         job[p].pc \notin {"pick", "ship", "won"}
  PROVE  Ashore(p)
<1>1. job'[p] = j /\ \A q \in Procs \ {p} : job'[q] = job[q]
  BY GoesOK
<1>2. Unshipped(job[p])
  BY UnshippedIs
<1>3. QED
  BY <1>1, <1>2 DEF Ashore, SameShip

LEMMA AshoreIs ==
  ASSUME TypeInv, NEW p \in Procs, Works(p) \/ Fails(p)
  PROVE  Ferries(p) \/ Ashore(p)
<1>0. \A j : Ends(p, j) => Goes(p, j) /\ Sound(p, j) /\ Unshipped(j)
  BY DEF Ends, Rests, Unshipped
<1>1. CASE Count(p)
  <2>1. /\ job[p].pc = "count" /\ UNCHANGED stream
        /\ CountsNone(p) \/ \E j : Counts(p, j)
    BY <1>1, CountIs
  <2>2. CASE CountsNone(p)
    <3>1. Goes(p, Rolled(job[p])) /\ Sound(p, Rolled(job[p])) /\ GoesOn(job[p], Rolled(job[p]))
      BY <2>1, <2>2, RollsOnIs DEF CountsNone
    <3>2. Unshipped(Rolled(job[p]))
      BY <3>1 DEF GoesOn, Rests, Unshipped
    <3>3. QED
      BY <2>1, <3>1, <3>2, AshoreGoes
  <2>3. ASSUME NEW j, Counts(p, j) PROVE Ashore(p)
    BY <2>1, <2>3, AshoreGoes DEF Counts, Unshipped
  <2>4. QED
    BY <2>1, <2>2, <2>3
<1>2. CASE Upsert(p)
  <2>1. /\ job[p].pc = "upsert" /\ UNCHANGED stream /\ GoesOn(job[p], job'[p])
        /\ \A q \in Procs \ {p} : Overlapped(job[q], job'[q])
    BY <1>2, UpsertIs
  <2>2. Unshipped(job[p]) /\ Unshipped(job'[p])
    BY <2>1, UnshippedIs DEF GoesOn, Rests, Unshipped
  <2>3. QED
    BY <2>1, <2>2 DEF Ashore, Overlapped, SameShip
<1>3. CASE PurgeUsage(p)
  <2>1. UNCHANGED stream /\ job[p].pc = "usage"
    BY <1>3, PurgeUsageIs
  <2>2. PICK j : Goes(p, j) /\ Sound(p, j) /\ Unshipped(j)
    BY <1>0, <1>3, PurgeUsageIs DEF Steps, Unshipped
  <2>3. QED
    BY <2>1, <2>2, AshoreGoes
<1>4. CASE List(p)
  <2>1. UNCHANGED stream /\ job[p].pc = "list"
    BY <1>4, ListIs
  <2>2. PICK j : Goes(p, j) /\ Sound(p, j) /\ Unshipped(j)
    BY <1>4, ListIs DEF Steps, Unshipped
  <2>3. QED
    BY <2>1, <2>2, AshoreGoes
<1>5. CASE Send(p) \/ SyncFails(p)
  <2>1. PICK pc \in {"won", "failed"} : Forgets(p, pc)
    BY <1>5 DEF Send, SyncFails, Forgets
  <2>2. job[p].pc \in {"list", "send"} /\ UNCHANGED stream
    BY <1>5 DEF Send, SyncFails, At
  <2>3. PICK j : Goes(p, j) /\ Sound(p, j) /\ Unshipped(j)
    BY <2>1, <2>2, ForgetsIs DEF Steps, Unshipped
  <2>4. QED
    BY <2>2, <2>3, AshoreGoes
<1>6. CASE PurgeRows(p) \/ Clear(p) \/ Failed(p) \/ RollupFails(p) \/ PurgeFails(p) \/ FailureIsLost(p)
  <2>1. UNCHANGED stream /\ End(p) /\ job[p].pc \notin {"off", "idle", "pick", "ship", "won"}
    BY <1>6 DEF PurgeRows, Clear, Failed, RollupFails, PurgeFails, FailureIsLost, At
  <2>2. PICK j : Ends(p, j)
    BY <2>1, EndsIs
  <2>3. QED
    BY <1>0, <2>1, <2>2, AshoreGoes
<1>7. QED
  BY <1>1, <1>2, <1>3, <1>4, <1>5, <1>6 DEF Works, Fails, Ferries

LEMMA AshoreStarts ==
  ASSUME TypeInv, NEW p \in Procs, NEW j, Starts(p, j)
  PROVE  Ashore(p)
<1>1. Goes(p, j) /\ Sound(p, j) /\ Unshipped(j) /\ UNCHANGED stream /\ job[p].pc = "idle"
  BY DEF Starts, Unshipped
<1>2. QED
  BY <1>1, AshoreGoes

-----------------------------------------------------------------------------
(* NothingLeftBehind.  What is older than what a shipment takes has been   *)
(* shipped, or was missed.                                                 *)
Done(t) == facts[t] > 0 \/ t \in missed

Ahead(j) ==
  /\ j.pc = "pick" /\ ~j.fresh => \A t \in logs : t < j.from => Done(t)
  /\ j.pc = "ship" => \A t \in logs : \A u \in j.list : t <= u => t \in j.list \/ Done(t)
  /\ j.pc = "won"  => \A t \in logs : \A u \in j.list : t <= u => Done(t)
  /\ j.list \subseteq logs

MarkInv == NothingLeftBehind /\ \A p \in Procs : Ahead(job[p])

LEMMA LogsType == ASSUME TypeInv PROVE logs \in SUBSET Slots /\ logs \subseteq Nat
  BY SlotType DEF TypeInv, TypeOK

\* A shipment is ahead as long as what was shipped or missed stays so.
LEMMA AheadStays ==
  ASSUME TypeInv, NEW j, NEW k, Ahead(j), SameShip(j, k), logs' = logs, \A t \in Slots : Done(t) => Done(t)'
  PROVE  Ahead(k)'
<1>1. \A t \in logs : Done(t) => Done(t)'
  BY LogsType
<1>2. QED
  BY <1>1 DEF Ahead, SameShip

LEMMA UnshippedAhead == ASSUME NEW j, Unshipped(j) PROVE Ahead(j) /\ Ahead(j)'
  BY DEF Unshipped, Ahead

\* The shipments other than p's go on.
LEMMA MarkKept ==
  ASSUME TypeInv, MarkInv, NEW p \in Procs, logs' = logs, \A t \in Slots : Done(t) => Done(t)',
         NothingLeftBehind', \A q \in Procs \ {p} : SameShip(job[q], job'[q]),
         NEW j, job'[p] = j, Ahead(j)'
  PROVE  MarkInv'
<1>1. ASSUME NEW q \in Procs \ {p} PROVE Ahead(job[q])'
  <2>1. PICK old : old = job[q]
    OBVIOUS
  <2>2. PICK new : new = job'[q]
    OBVIOUS
  <2>3. Ahead(old) /\ SameShip(old, new)
    BY <2>1, <2>2 DEF MarkInv
  <2>4. Ahead(new)'
    BY <2>3, AheadStays
  <2>5. QED
    BY <2>2, <2>4 DEF Ahead, Done
<1>2. Ahead(job[p])'
  BY DEF Ahead, Done
<1>3. QED
  BY <1>1, <1>2 DEF MarkInv

\* The watermark stays.
LEMMA BehindStays ==
  ASSUME TypeInv, NothingLeftBehind, logs' = logs, mark' = mark, \A t \in Slots : Done(t) => Done(t)'
  PROVE  NothingLeftBehind'
<1>1. \A t \in logs : Done(t) => Done(t)'
  BY LogsType
<1>2. QED
  BY <1>1 DEF NothingLeftBehind, Done

LEMMA MarkAshore ==
  ASSUME TypeInv, MarkInv, NEW p \in Procs, Ashore(p)
  PROVE  MarkInv'
<1>1. UNCHANGED stream /\ \A q \in Procs \ {p} : SameShip(job[q], job'[q])
  BY DEF Ashore
<1>2. PICK j : j = job'[p]
  OBVIOUS
<1>3. Ahead(j)'
  BY <1>2, UnshippedAhead DEF Ashore
<1>4. logs' = logs /\ mark' = mark /\ \A t \in Slots : Done(t) => Done(t)'
  BY <1>1 DEF stream, Done
<1>5. NothingLeftBehind'
  BY <1>4, BehindStays DEF MarkInv
<1>6. QED
  BY <1>1, <1>2, <1>3, <1>4, <1>5, MarkKept
\* With a log, the oldest of some logs include every older one of them.
LEMMA OldestClosed ==
  ASSUME NEW S \in SUBSET Slots, NEW t \in S, NEW u \in Oldest(S), t <= u
  PROVE  t \in Oldest(S)
<1> DEFINE T == {v \in S : v < t}
           U == {v \in S : v < u}
<1>1. u \in S /\ Cardinality(U) < Limit
  BY DEF Oldest
<1>2. t \in Nat /\ u \in Nat /\ \A v \in S : v \in Nat
  BY <1>1, SlotType
<1>3. \A v \in S : v < t => v < u
  BY <1>2
<1>a. T \subseteq U
  BY <1>3
<1>4. IsFiniteSet(U)
  <2>1. IsFiniteSet(0 .. u)
    BY <1>1, <1>2, FS_Interval
  <2>2. \A v \in S : v < u => v \in 0 .. u
    BY <1>2
  <2>3. U \subseteq 0 .. u
    BY <2>2
  <2>4. QED
    BY <2>1, <2>3, FS_Subset
<1>5. Cardinality(T) <= Cardinality(U) /\ Cardinality(T) \in Nat /\ Cardinality(U) \in Nat
  BY <1>a, <1>4, FS_Subset, FS_CardinalityType
<1> HIDE DEF U
<1>6. Cardinality(T) < Limit
  BY <1>1, <1>5, Sizes
<1>7. QED
  BY <1>6 DEF Oldest

LEMMA MarkReads ==
  ASSUME TypeInv, MarkInv, NEW p \in Procs, NEW known \in BOOLEAN, known => mark # None, ReadMark(p, known)
  PROVE  MarkInv'
<1>1. UNCHANGED <<asked, logs, facts, mark, missed>>
  BY DEF ReadMark
<1>2. PICK j : Marks(p, known, j)
  BY ReadMarkIs
<1>3. job'[p] = j /\ \A q \in Procs \ {p} : SameShip(job[q], job'[q])
  BY <1>2, GoesOK DEF Marks, Steps, SameShip
<1>4. \A t \in Slots : Done(t) => Done(t)'
  BY <1>1 DEF Done
<1>5. NothingLeftBehind'
  BY <1>1, <1>4, BehindStays DEF MarkInv
<1>6. j.pc = "pick" /\ j.list = {} /\ (~j.fresh => mark # None /\ j.from = mark + 1)
  BY <1>2 DEF Marks
<1>7. \A t \in logs : ~j.fresh /\ t < j.from => Done(t)
  <2>1. SUFFICES ASSUME NEW t \in logs, ~j.fresh, t < j.from PROVE Done(t)
    OBVIOUS
  <2>2. mark \in Nat /\ mark # None /\ t \in Nat
    BY <1>6, <2>1, LogsType, SlotType DEF TypeInv, TypeOK
  <2>3. t <= mark
    BY <1>6, <2>1, <2>2
  <2>4. QED
    BY <2>2, <2>3 DEF MarkInv, NothingLeftBehind, Done
<1>8. Ahead(j)'
  BY <1>1, <1>6, <1>7 DEF Ahead, Done
<1>9. QED
  BY <1>1, <1>3, <1>4, <1>5, <1>8, MarkKept

LEMMA MarkPicks ==
  ASSUME TypeInv, MarkInv, NEW p \in Procs, Pick(p)
  PROVE  MarkInv'
<1> DEFINE from == job[p].from
           found == Oldest(After(from))
<1>1. /\ job[p].pc = "pick" /\ UNCHANGED <<now, ledger, asked, logs, facts, mark, again, retry, left>>
      /\ missed' = IF job[p].fresh THEN missed \cup {t \in logs : t < from} ELSE missed
      /\ (\E j : Ends(p, j)) \/ \E j : Picks(p, found, j)
  BY PickIs
<1>2. \A t \in Slots : Done(t) => Done(t)'
  BY <1>1 DEF Done
<1>3. NothingLeftBehind'
  BY <1>1, <1>2, BehindStays DEF MarkInv
<1>4. ASSUME NEW j, Goes(p, j), Sound(p, j), Ahead(j)' PROVE MarkInv'
  <2>1. job'[p] = j /\ \A q \in Procs \ {p} : SameShip(job[q], job'[q])
    BY <1>4, GoesOK DEF SameShip
  <2>2. QED
    BY <1>1, <1>2, <1>3, <1>4, <2>1, MarkKept
<1>5. ASSUME NEW j, Ends(p, j) PROVE MarkInv'
  BY <1>4, <1>5, UnshippedAhead DEF Ends, Rests, Unshipped
<1>6. ASSUME NEW j, Picks(p, found, j) PROVE MarkInv'
  <2>1. Goes(p, j) /\ Sound(p, j) /\ j.pc = "ship" /\ j.list = found
    BY <1>6 DEF Picks, Steps
  <2>2. from \in Nat /\ logs \in SUBSET Slots /\ logs \subseteq Nat /\ After(from) \in SUBSET Slots
    BY OldJob, LogsType DEF Typed, After
  <2>3. found \subseteq After(from) /\ After(from) \subseteq logs
    BY DEF Oldest, After
  <2>4. \A t \in logs : t < from => Done(t)'
    <3>1. CASE job[p].fresh
      BY <1>1, <3>1 DEF Done
    <3>2. CASE ~job[p].fresh
      <4>1. \A t \in logs : t < from => Done(t)
        BY <1>1, <3>2 DEF MarkInv, Ahead
      <4>2. QED
        BY <1>2, <2>2, <4>1
    <3>3. QED
      BY <3>1, <3>2
  <2>5. ASSUME NEW t \in logs, NEW u \in found, t <= u PROVE t \in found \/ Done(t)'
    <3>1. CASE t < from
      BY <2>4, <3>1
    <3>2. CASE ~(t < from)
      <4>1. t \in After(from)
        BY <2>2, <3>2 DEF After
      <4>2. t \in found
        BY <2>2, <2>5, <4>1, OldestClosed
      <4>3. QED
        BY <4>2
    <3>3. QED
      BY <3>1, <3>2
  <2> HIDE DEF found
  <2>6. Ahead(j)'
    BY <1>1, <2>1, <2>3, <2>5 DEF Ahead, Done
  <2>7. QED
    BY <1>4, <2>1, <2>6
<1>7. QED
  BY <1>1, <1>5, <1>6

LEMMA MarkShips ==
  ASSUME TypeInv, MarkInv, NEW p \in Procs, Ship(p)
  PROVE  MarkInv'
<1>1. /\ job[p].pc = "ship" /\ UNCHANGED <<now, ledger, asked, logs, mark, missed, again, retry, left>>
      /\ Arrived(job[p].list)
  BY ShipIs
<1>2. PICK j : Steps(p, j) /\ j.pc = "won" /\ j.list = job[p].list
  BY ShipIs
<1>3. job'[p] = j /\ \A q \in Procs \ {p} : SameShip(job[q], job'[q])
  BY <1>2, GoesOK DEF Steps, SameShip
<1>4. facts \in [Slots -> 0 .. 2] /\ facts' \in [Slots -> 0 .. 2]
      /\ \A t \in Slots : facts[t] <= facts'[t] /\ (t \in j.list => facts'[t] > 0)
  BY <1>1, <1>2, ArrivedOK, ListType DEF TypeInv, TypeOK
<1>5. \A t \in Slots : Done(t) => Done(t)'
  BY <1>1, <1>4 DEF Done
<1>6. NothingLeftBehind'
  BY <1>1, <1>5, BehindStays DEF MarkInv
<1>7. \A t \in logs : \A u \in j.list : t <= u => t \in j.list \/ Done(t)
  BY <1>1, <1>2 DEF MarkInv, Ahead
<1>8. j.list \subseteq logs /\ logs \subseteq Slots
  BY <1>2, LogsType DEF MarkInv, Ahead
<1>9. \A t \in logs : \A u \in j.list : t <= u => Done(t)'
  <2>1. SUFFICES ASSUME NEW t \in logs, NEW u \in j.list, t <= u PROVE Done(t)'
    OBVIOUS
  <2>2. CASE t \in j.list
    BY <1>4, <1>8, <2>2 DEF Done
  <2>3. CASE t \notin j.list
    BY <1>5, <1>7, <1>8, <2>1, <2>3
  <2>4. QED
    BY <2>2, <2>3
<1>10. Ahead(j)'
  BY <1>1, <1>2, <1>8, <1>9 DEF Ahead, Done
<1>11. QED
  BY <1>1, <1>3, <1>5, <1>6, <1>10, MarkKept

\* A shipment ends one way or another, without the watermark.
LEMMA MarkEnds ==
  ASSUME TypeInv, MarkInv, NEW p \in Procs, NEW j, Goes(p, j), Sound(p, j), Unshipped(j),
         logs' = logs, mark' = mark, \A t \in Slots : Done(t) => Done(t)'
  PROVE  MarkInv'
<1>1. job'[p] = j /\ \A q \in Procs \ {p} : SameShip(job[q], job'[q])
  BY GoesOK DEF SameShip
<1>2. NothingLeftBehind'
  BY BehindStays DEF MarkInv
<1>3. QED
  BY <1>1, <1>2, UnshippedAhead, MarkKept

LEMMA MarkWins ==
  ASSUME TypeInv, MarkInv, NEW p \in Procs, Won(p)
  PROVE  MarkInv'
<1>1. /\ job[p].pc = "won" /\ UNCHANGED <<now, ledger, asked, logs, facts, missed, retry, left>>
      /\ \/ mark' \in job[p].list /\ \A u \in job[p].list : u <= mark'
         \/ mark' = None
         \/ mark' = mark
  BY WonIs
<1>2. PICK j : Steps(p, j) /\ j.pc = "clear" /\ j.list = {}
  BY WonIs
<1>3. job'[p] = j /\ \A q \in Procs \ {p} : SameShip(job[q], job'[q])
  BY <1>2, GoesOK DEF Steps, SameShip
<1>4. \A t \in Slots : Done(t) => Done(t)'
  BY <1>1 DEF Done
<1>5. NothingLeftBehind'
  <2>1. CASE mark' \in job[p].list
    <3>1. \A t \in logs : t <= mark' => Done(t)
      BY <1>1, <2>1 DEF MarkInv, Ahead
    <3>2. QED
      BY <1>1, <3>1 DEF NothingLeftBehind, Done
  <2>2. CASE mark' = None
    BY <2>2 DEF NothingLeftBehind
  <2>3. CASE mark' = mark
    BY <1>1, <1>4, <2>3, BehindStays DEF MarkInv
  <2>4. QED
    BY <1>1, <2>1, <2>2, <2>3
<1>6. Ahead(j)'
  BY <1>2, UnshippedAhead DEF Unshipped
<1>7. QED
  BY <1>1, <1>3, <1>4, <1>5, <1>6, MarkKept

\* A log that is stored behind a shipment, or the watermark, is missed.
LEMMA MarkStores ==
  ASSUME TypeInv, MarkInv, NEW s \in Slots, StoreLog(s)
  PROVE  MarkInv'
<1>1. /\ UNCHANGED <<now, ledger, facts, mark, again, retry, job, left>>
      /\ logs' = logs \cup {s} /\ missed' = IF Passed(s) THEN missed \cup {s} ELSE missed
  BY DEF StoreLog
<1>2. \A t : Done(t) => Done(t)'
  BY <1>1 DEF Done
<1>3. Passed(s) => Done(s)'
  BY <1>1 DEF Done
<1>4. NothingLeftBehind'
  <2>1. SUFFICES ASSUME NEW t \in logs', mark' # None, t <= mark' PROVE Done(t)'
    BY DEF NothingLeftBehind, Done
  <2>2. CASE t = s
    BY <1>1, <1>3, <2>1, <2>2 DEF Passed
  <2>3. CASE t \in logs
    <3>1. Done(t)
      BY <1>1, <2>1, <2>3 DEF MarkInv, NothingLeftBehind, Done
    <3>2. QED
      BY <1>2, <3>1
  <2>4. QED
    BY <1>1, <2>1, <2>2, <2>3
<1>5. ASSUME NEW q \in Procs, NEW j, j = job[q] PROVE Ahead(j)'
  <2>1. Ahead(j) /\ Sound(q, j) /\ s \in Nat
    BY <1>5, OldJob, SlotType DEF MarkInv
  <2>2. (j.pc = "pick" /\ s < j.from) \/ (\E u \in j.list : s < u) => Done(s)'
    BY <1>3, <1>5 DEF Passed, At
  <2>3. j.list \subseteq logs /\ j.list \subseteq Nat
    BY <2>1, LogsType DEF Ahead
  <2>4. j.pc = "pick" /\ ~j.fresh => \A t \in logs' : t < j.from => Done(t)'
    BY <1>1, <1>2, <2>1, <2>2 DEF Ahead
  <2>5. j.pc = "ship" => \A t \in logs' : \A u \in j.list : t <= u => t \in j.list \/ Done(t)'
    <3>1. SUFFICES ASSUME j.pc = "ship", NEW t \in logs', NEW u \in j.list, t <= u PROVE t \in j.list \/ Done(t)'
      OBVIOUS
    <3>2. CASE t \in logs
      BY <1>2, <2>1, <3>1, <3>2 DEF Ahead
    <3>3. CASE t = s
      <4>1. s = u \/ s < u
        BY <2>1, <2>3, <3>1, <3>3
      <4>2. QED
        BY <2>2, <3>1, <3>3, <4>1
    <3>4. QED
      BY <1>1, <3>1, <3>2, <3>3
  <2>6. j.pc = "won" => \A t \in logs' : \A u \in j.list : t <= u => Done(t)'
    <3>1. SUFFICES ASSUME j.pc = "won", NEW t \in logs', NEW u \in j.list, t <= u PROVE Done(t)'
      OBVIOUS
    <3>2. CASE t \in logs
      BY <1>2, <2>1, <3>1, <3>2 DEF Ahead
    <3>3. CASE t = s /\ t \notin logs
      <4>1. s = u \/ s < u
        BY <2>1, <2>3, <3>1, <3>3
      <4>2. u # s
        BY <2>3, <3>1, <3>3
      <4>3. QED
        BY <2>2, <3>1, <3>3, <4>1, <4>2
    <3>4. QED
      BY <1>1, <3>1, <3>2, <3>3
  <2>7. QED
    BY <1>1, <2>3, <2>4, <2>5, <2>6 DEF Ahead, Done
<1>6. \A q \in Procs : Ahead(job[q])'
  <2>1. SUFFICES ASSUME NEW q \in Procs PROVE Ahead(job[q])'
    OBVIOUS
  <2>2. PICK j : j = job[q]
    OBVIOUS
  <2>3. Ahead(j)' /\ j = job'[q]
    BY <1>1, <1>5, <2>2
  <2>4. QED
    BY <2>3 DEF Ahead, Done
<1>7. QED
  BY <1>4, <1>6 DEF MarkInv
LEMMA MarkWorld ==
  ASSUME TypeInv, MarkInv, Tick \/ Request \/ Query \/ \E t \in Slots : StoreRequest(t)
  PROVE  MarkInv'
<1>1. job' = job /\ logs' = logs /\ facts' = facts /\ missed' = missed /\ mark' = mark
  BY DEF Tick, Request, Query, StoreRequest, stream
<1>2. QED
  BY <1>1 DEF MarkInv, NothingLeftBehind, Ahead, Done

LEMMA MarkFerries ==
  ASSUME TypeInv, MarkInv, NEW p \in Procs, Ferries(p)
  PROVE  MarkInv'
<1>1. CASE Mark(p) \/ MarkFails(p)
  <2>1. PICK known \in BOOLEAN : ReadMark(p, known) /\ (known => mark # None)
    BY <1>1 DEF Mark, MarkFails
  <2>2. QED
    BY <2>1, MarkReads
<1>2. CASE Pick(p)
  BY <1>2, MarkPicks
<1>3. CASE Ship(p)
  BY <1>3, MarkShips
<1>4. CASE Won(p)
  BY <1>4, MarkWins
<1>5. CASE FactsFail(p)
  <2>1. /\ Turns(p, "failed", {}) /\ job[p].pc \in {"pick", "ship"}
        /\ logs' = logs /\ mark' = mark /\ missed' = missed /\ (facts' = facts \/ Arrived(job[p].list))
    BY <1>5 DEF FactsFail, Turns, At
  <2>2. PICK j : Goes(p, j) /\ Sound(p, j) /\ Unshipped(j)
    BY <2>1, TurnsIs DEF Steps, Unshipped
  <2>3. facts \in [Slots -> 0 .. 2] /\ \A t \in Slots : facts'[t] >= facts[t]
    BY <2>1, ArrivedOK, ListType DEF TypeInv, TypeOK
  <2>4. \A t \in Slots : facts[t] > 0 => facts'[t] > 0
    <3>1. facts' \in [Slots -> 0 .. 2]
      BY <2>1, <2>3, ArrivedOK, ListType DEF TypeInv
    <3>2. QED
      BY <2>3, <3>1
  <2>5. \A t \in Slots : Done(t) => Done(t)'
    BY <2>1, <2>4 DEF Done
  <2>6. QED
    BY <2>1, <2>2, <2>5, MarkEnds
<1>6. CASE WinIsLost(p)
  <2>1. End(p) /\ job[p].pc \notin {"off", "idle"} /\ logs' = logs /\ mark' = mark /\ missed' = missed /\ facts' = facts
    BY <1>6 DEF WinIsLost, At
  <2>2. PICK j : Ends(p, j)
    BY <2>1, EndsIs
  <2>3. Goes(p, j) /\ Sound(p, j) /\ Unshipped(j)
    BY <2>2 DEF Ends, Rests, Unshipped
  <2>4. QED
    BY <2>1, <2>3, MarkEnds DEF Done
<1>7. CASE Kill(p)
  <2>1. Ends(p, Idle) /\ logs' = logs /\ mark' = mark /\ missed' = missed /\ facts' = facts
    BY <1>7, KillIs
  <2>2. Goes(p, Idle) /\ Sound(p, Idle) /\ Unshipped(Idle)
    BY <2>1 DEF Ends, Rests, Unshipped
  <2>3. QED
    BY <2>1, <2>2, MarkEnds DEF Done
<1>8. QED
  BY <1>1, <1>2, <1>3, <1>4, <1>5, <1>6, <1>7 DEF Ferries

LEMMA MarkStep == ASSUME TypeInv, MarkInv, Next PROVE MarkInv'
<1>1. CASE Tick \/ Request \/ Query
  BY <1>1, MarkWorld
<1>2. CASE \E t \in Slots : StoreRequest(t) \/ StoreLog(t)
  BY <1>2, MarkWorld, MarkStores
<1>3. ASSUME NEW p \in Procs, \E j : Starts(p, j) PROVE MarkInv'
  BY <1>3, AshoreStarts, MarkAshore
<1>4. CASE RetentionPass \/ SinkCycle
  BY <1>3, <1>4, RetentionStarts, SinkStarts
<1>5. ASSUME NEW p \in Procs, Works(p) \/ Fails(p) PROVE MarkInv'
  BY <1>5, AshoreIs, MarkAshore, MarkFerries
<1>6. ASSUME NEW a \in Admins, Post(a) PROVE MarkInv'
  BY <1>3, <1>6, PostIs
<1>7. QED
  BY <1>1, <1>2, <1>4, <1>5, <1>6 DEF Next

LEMMA MarkStays == ASSUME MarkInv, UNCHANGED vars PROVE MarkInv'
<1>1. job' = job /\ logs' = logs /\ facts' = facts /\ missed' = missed /\ mark' = mark
  BY DEF vars, stream
<1>2. QED
  BY <1>1 DEF MarkInv, NothingLeftBehind, Ahead, Done

\* No job has anything to ship at first.
LEMMA JobsInit == ASSUME Init PROVE \A p \in Procs : Unshipped(job[p]) /\ job[p].todo = <<>> /\ job[p].pc \in {"off", "idle"}
<1>1. PICK s \in Setups : job = [p \in Procs |-> IF p \in Admins \cup s.workers THEN Idle ELSE [Idle EXCEPT !.pc = "off"]]
  BY DEF Init
<1> DEFINE off == [Idle EXCEPT !.pc = "off"]
<1>2. off.pc = "off" /\ off.list = {} /\ off.todo = <<>>
  BY IdleIs DEF Whole
<1> HIDE DEF off
<1>3. \A p \in Procs : job[p] = Idle \/ job[p] = off
  BY <1>1 DEF off
<1>4. QED
  BY <1>2, <1>3, IdleIs DEF Unshipped

LEMMA MarkInit == ASSUME Init PROVE MarkInv
<1>1. NothingLeftBehind
  BY DEF Init, NothingLeftBehind
<1>2. QED
  BY <1>1, JobsInit, UnshippedAhead DEF MarkInv

\* The watermark of the query logs passes no log that ClickHouse does not have,
\* but for one counted as missed: the next shipment begins after it and would
\* never look back.
THEOREM WatermarkIsSafe == Spec => []NothingLeftBehind
<1>1. Init => TypeInv /\ MarkInv
  BY TypeInit, MarkInit
<1>2. TypeInv /\ MarkInv /\ [Next]_vars => TypeInv' /\ MarkInv'
  BY TypeStep, TypeStays, MarkStep, MarkStays
<1>3. MarkInv => NothingLeftBehind
  BY DEF MarkInv
<1>4. QED
  BY <1>1, <1>2, <1>3, PTL DEF Spec
-----------------------------------------------------------------------------
(* OnceEach.  As long as nothing was lost or repeated, one shipment goes on*)
(* at a time, it takes what is newer than anything shipped, and the        *)
(* watermark is ahead of what was shipped when it is over.                 *)
Afloat(j) == j.pc \in {"pick", "ship"} \/ (j.pc = "won" /\ j.list # {})
Landed(j)  == j.pc = "won" /\ j.list # {}

Alone(j) ==
  /\ j.pc \in {"pick", "ship"} => \A t \in Slots : facts[t] > 0 => t < j.from
  /\ j.pc = "ship" => \A t \in j.list : t >= j.from
  /\ Landed(j) => \A t \in Slots : facts[t] > 0 => \E u \in j.list : t <= u

Single == \A p, q \in Procs : Afloat(job[p]) /\ Afloat(job[q]) => p = q

Behind == (\A p \in Procs : ~Landed(job[p])) => \A t \in Slots : facts[t] > 0 => mark # None /\ t <= mark

OnceInv == again \/ (OnceEach /\ Single /\ Behind /\ \A p \in Procs : Alone(job[p]))

LEMMA AfloatIs == ASSUME NEW p PROVE Shipping(p) <=> Afloat(job[p])
  BY DEF Shipping, At, Afloat

\* The job p goes on with, and everyone else's shipment as it was.
LEMMA OnceKept ==
  ASSUME TypeInv, OnceInv, ~again, NEW p \in Procs, NEW j, j = job'[p],
         facts' = facts, mark' = mark, \A q \in Procs \ {p} : SameShip(job[q], job'[q]),
         Landed(job[p]) => Landed(j), Afloat(j) => Afloat(job[p]), Alone(j)
  PROVE  OnceInv'
<1>1. OnceEach /\ Single /\ Behind /\ \A q \in Procs : Alone(job[q])
  BY DEF OnceInv
<1>2. OnceEach'
  BY <1>1 DEF OnceEach
<1>3. \A q \in Procs \ {p} : (Afloat(job[q]) <=> Afloat(job'[q])) /\ (Landed(job[q]) <=> Landed(job'[q]))
  BY DEF SameShip, Afloat, Landed
<1>4. \A q \in Procs : Afloat(job'[q]) => Afloat(job[q])
  BY <1>3
<1>5. Single'
  BY <1>1, <1>4 DEF Single
<1>6. \A q \in Procs : Landed(job[q]) => Landed(job'[q])
  BY <1>3
<1>7. Behind'
  BY <1>1, <1>6 DEF Behind
<1>8. ASSUME NEW q \in Procs PROVE Alone(job[q])'
  <2>1. CASE q = p
    BY <2>1 DEF Alone, Landed
  <2>2. CASE q # p
    <3>1. Alone(job[q]) /\ SameShip(job[q], job'[q])
      BY <1>1, <2>2
    <3>2. QED
      BY <3>1 DEF Alone, SameShip, Landed
  <2>3. QED
    BY <2>1, <2>2
<1>9. QED
  BY <1>2, <1>5, <1>7, <1>8 DEF OnceInv

LEMMA UnshippedAlone == ASSUME NEW j, Unshipped(j) PROVE Alone(j) /\ ~Afloat(j) /\ ~Landed(j)
  BY DEF Unshipped, Alone, Afloat, Landed

LEMMA OnceAshore ==
  ASSUME TypeInv, OnceInv, NEW p \in Procs, Ashore(p)
  PROVE  OnceInv'
<1>1. facts' = facts /\ mark' = mark /\ again' = again /\ \A q \in Procs \ {p} : SameShip(job[q], job'[q])
  BY DEF Ashore, stream
<1>2. PICK j : j = job'[p]
  OBVIOUS
<1>3. Alone(j) /\ ~Afloat(j) /\ ~Landed(job[p])
  BY <1>2, UnshippedAlone DEF Ashore
<1>4. CASE again
  BY <1>1, <1>4 DEF OnceInv
<1>5. CASE ~again
  BY <1>1, <1>2, <1>3, <1>5, OnceKept
<1>6. QED
  BY <1>4, <1>5

\* A shipment that has not arrived is given up.
LEMMA OnceEnds ==
  ASSUME TypeInv, OnceInv, ~again, NEW p \in Procs, NEW j, Goes(p, j), Sound(p, j), Unshipped(j),
         facts' = facts, mark' = mark, ~Landed(job[p])
  PROVE  OnceInv'
<1>1. job'[p] = j /\ \A q \in Procs \ {p} : SameShip(job[q], job'[q])
  BY GoesOK DEF SameShip
<1>2. QED
  BY <1>1, UnshippedAlone, OnceKept

LEMMA OnceReads ==
  ASSUME TypeInv, OnceInv, NEW p \in Procs, NEW known \in BOOLEAN, known => mark # None, ReadMark(p, known)
  PROVE  OnceInv'
<1>1. /\ job[p].pc = "mark" /\ UNCHANGED <<asked, logs, facts, mark, missed>>
      /\ again' = (again \/ (mark # None /\ ~known) \/ \E q \in Procs \ {p} : Shipping(q))
  BY ReadMarkIs
<1>2. SUFFICES ASSUME ~again' PROVE OnceInv'
  BY DEF OnceInv
<1>3. ~again /\ (mark = None \/ known) /\ \A q \in Procs \ {p} : ~Afloat(job[q])
  BY <1>1, <1>2, AfloatIs
<1>4. PICK j : Marks(p, known, j)
  BY ReadMarkIs
<1>5. job'[p] = j /\ \A q \in Procs \ {p} : job'[q] = job[q]
  BY <1>4, GoesOK DEF Marks, Steps
<1>6. OnceEach /\ Behind
  BY <1>3 DEF OnceInv
<1>7. \A q \in Procs : ~Landed(job[q])
  BY <1>1, <1>3 DEF Landed, Afloat
<1>8. \A t \in Slots : facts[t] > 0 => mark # None /\ t <= mark
  BY <1>6, <1>7 DEF Behind
<1>9. j.pc = "pick" /\ (known => mark # None /\ j.from = mark + 1)
  BY <1>4 DEF Marks
<1>10. ASSUME NEW t \in Slots, facts[t] > 0 PROVE t < j.from
  <2>1. mark # None /\ t <= mark
    BY <1>8, <1>10
  <2>2. mark \in Nat /\ t \in Nat /\ j.from = mark + 1
    BY <1>3, <1>9, <2>1, SlotType DEF TypeInv, TypeOK
  <2>3. QED
    BY <2>1, <2>2
<1>11. OnceEach'
  BY <1>1, <1>3, <1>6 DEF OnceEach
<1>12. Single'
  BY <1>3, <1>5 DEF Single
<1>13. Behind'
  BY <1>1, <1>8 DEF Behind
<1>14. ASSUME NEW q \in Procs PROVE Alone(job[q])'
  <2>1. CASE q = p
    BY <1>1, <1>5, <1>9, <1>10, <2>1 DEF Alone, Landed
  <2>2. CASE q # p
    BY <1>3, <1>5, <2>2 DEF Alone, Landed, Afloat
  <2>3. QED
    BY <2>1, <2>2
<1>15. QED
  BY <1>11, <1>12, <1>13, <1>14 DEF OnceInv

LEMMA OncePicks ==
  ASSUME TypeInv, OnceInv, NEW p \in Procs, Pick(p)
  PROVE  OnceInv'
<1>1. /\ job[p].pc = "pick" /\ UNCHANGED <<now, ledger, asked, logs, facts, mark, again, retry, left>>
      /\ (\E j : Ends(p, j)) \/ \E j : Picks(p, Oldest(After(job[p].from)), j)
  BY PickIs
<1>2. CASE again
  BY <1>1, <1>2 DEF OnceInv
<1>3. ASSUME ~again, NEW j, Ends(p, j) PROVE OnceInv'
  <2>1. Goes(p, j) /\ Sound(p, j) /\ Unshipped(j)
    BY <1>3 DEF Ends, Rests, Unshipped
  <2>2. ~Landed(job[p])
    BY <1>1 DEF Landed
  <2>3. QED
    BY <1>1, <1>3, <2>1, <2>2, OnceEnds
<1>4. ASSUME ~again, NEW j, Picks(p, Oldest(After(job[p].from)), j) PROVE OnceInv'
  <2>1. /\ Goes(p, j) /\ Sound(p, j) /\ j.pc = "ship" /\ j.from = job[p].from
        /\ j.list = Oldest(After(job[p].from))
    BY <1>4 DEF Picks, Steps
  <2>2. job'[p] = j /\ \A q \in Procs \ {p} : SameShip(job[q], job'[q])
    BY <2>1, GoesOK DEF SameShip
  <2>3. \A t \in j.list : t >= j.from
    BY <2>1 DEF Oldest, After
  <2>4. Alone(job[p])
    BY <1>4 DEF OnceInv
  <2>5. Alone(j)
    BY <1>1, <2>1, <2>3, <2>4 DEF Alone, Landed
  <2>6. (Landed(job[p]) => Landed(j)) /\ Afloat(job[p])
    BY <1>1 DEF Landed, Afloat
  <2>7. QED
    BY <1>1, <1>4, <2>2, <2>5, <2>6, OnceKept
<1>5. QED
  BY <1>1, <1>2, <1>3, <1>4

LEMMA OnceShips ==
  ASSUME TypeInv, OnceInv, NEW p \in Procs, Ship(p)
  PROVE  OnceInv'
<1>1. /\ job[p].pc = "ship" /\ UNCHANGED <<now, ledger, asked, logs, mark, missed, again, retry, left>>
      /\ Arrived(job[p].list)
  BY ShipIs
<1>2. SUFFICES ASSUME ~again PROVE OnceInv'
  BY <1>1 DEF OnceInv
<1>3. PICK j : Steps(p, j) /\ j.pc = "won" /\ j.list = job[p].list
  BY ShipIs
<1>4. job'[p] = j /\ \A q \in Procs \ {p} : job'[q] = job[q]
  BY <1>3, GoesOK DEF Steps
<1>5. /\ facts \in [Slots -> 0 .. 2] /\ facts' \in [Slots -> 0 .. 2]
      /\ \A t \in Slots : (t \notin j.list => facts'[t] = facts[t]) /\ facts'[t] <= facts[t] + 1
  BY <1>1, <1>3, ArrivedOK, ListType DEF TypeInv, TypeOK
<1>6. OnceEach /\ Single /\ Alone(job[p])
  BY <1>2 DEF OnceInv
<1>7. j.list # {} /\ j.list \subseteq Slots /\ j.list \subseteq Nat /\ job[p].from \in Nat
  BY <1>1, <1>3, OldJob, SlotType DEF Sound, Typed
<1>8. \A t \in j.list : t >= job[p].from /\ ~(facts[t] > 0)
  BY <1>1, <1>3, <1>6, <1>7 DEF Alone
<1>9. Afloat(job[p]) /\ \A q \in Procs \ {p} : ~Afloat(job[q])
  BY <1>1, <1>6 DEF Single, Afloat
<1>10. OnceEach'
  <2>1. \A t \in Slots : facts[t] <= 1
    BY <1>2, <1>6 DEF OnceEach
  <2>2. ASSUME NEW t \in Slots PROVE facts'[t] <= 1
    <3>1. CASE t \in j.list
      BY <1>5, <1>8, <3>1
    <3>2. CASE t \notin j.list
      BY <1>5, <2>1, <3>2
    <3>3. QED
      BY <3>1, <3>2
  <2>3. QED
    BY <2>2 DEF OnceEach
<1>11. Single'
  BY <1>4, <1>9 DEF Single
<1>12. Landed(job'[p])
  BY <1>3, <1>4, <1>7 DEF Landed
<1>13. Behind'
  BY <1>12 DEF Behind
<1>14. ASSUME NEW t \in Slots, facts'[t] > 0 PROVE \E u \in j.list : t <= u
  <2>1. CASE t \in j.list
    BY <1>7, <2>1
  <2>2. CASE t \notin j.list
    <3>1. facts[t] > 0
      BY <1>5, <1>14, <2>2
    <3>2. t < job[p].from /\ t \in Nat
      BY <1>1, <1>6, <3>1, SlotType DEF Alone
    <3>3. PICK u \in j.list : u >= job[p].from /\ u \in Nat
      BY <1>7, <1>8
    <3>4. QED
      BY <1>7, <3>2, <3>3
  <2>3. QED
    BY <2>1, <2>2
<1>15. ASSUME NEW q \in Procs PROVE Alone(job[q])'
  <2>1. CASE q = p
    BY <1>3, <1>4, <1>14, <2>1 DEF Alone, Landed
  <2>2. CASE q # p
    BY <1>4, <1>9, <2>2 DEF Alone, Landed, Afloat
  <2>3. QED
    BY <2>1, <2>2
<1>16. QED
  BY <1>10, <1>11, <1>13, <1>15 DEF OnceInv

LEMMA OnceWins ==
  ASSUME TypeInv, OnceInv, NEW p \in Procs, Won(p)
  PROVE  OnceInv'
<1>1. /\ job[p].pc = "won" /\ facts' = facts
      /\ again' = (again \/ (Current(p).do = "sync" /\ Current(p).dim = "facts"))
      /\ \/ mark' \in job[p].list /\ \A u \in job[p].list : u <= mark'
         \/ Current(p).do = "sync" /\ Current(p).dim = "facts"
         \/ mark' = mark /\ job[p].list = {}
  BY WonIs
<1>2. SUFFICES ASSUME ~again' PROVE OnceInv'
  BY DEF OnceInv
<1>3. ~again
  BY <1>1, <1>2
<1>4. PICK j : Steps(p, j) /\ j.pc = "clear" /\ j.list = {}
  BY WonIs
<1>5. Goes(p, j) /\ Sound(p, j) /\ Unshipped(j)
  BY <1>4 DEF Steps, Unshipped
<1>6. job'[p] = j /\ \A q \in Procs \ {p} : job'[q] = job[q]
  BY <1>5, GoesOK
<1>7. CASE mark' = mark /\ job[p].list = {}
  <2>1. ~Landed(job[p])
    BY <1>7 DEF Landed
  <2>2. QED
    BY <1>1, <1>3, <1>5, <1>7, <2>1, OnceEnds
<1>8. CASE mark' \in job[p].list /\ \A u \in job[p].list : u <= mark'
  <2>1. Landed(job[p]) /\ Afloat(job[p])
    BY <1>1, <1>8 DEF Landed, Afloat
  <2>2. OnceEach /\ Single /\ Alone(job[p])
    BY <1>3 DEF OnceInv
  <2>3. \A q \in Procs \ {p} : ~Afloat(job[q])
    BY <2>1, <2>2 DEF Single
  <2>4. mark' \in Slots /\ mark' \in Nat /\ mark' # None /\ job[p].list \subseteq Slots
    BY <1>8, ListType, SlotType
  <2>5. ASSUME NEW t \in Slots, facts[t] > 0 PROVE t <= mark'
    <3>1. PICK u \in job[p].list : t <= u
      BY <2>1, <2>2, <2>5 DEF Alone
    <3>2. u <= mark' /\ u \in Nat /\ t \in Nat
      BY <1>8, <2>4, <3>1, SlotType
    <3>3. QED
      BY <2>4, <3>1, <3>2
  <2>6. Behind'
    BY <1>1, <2>4, <2>5 DEF Behind
  <2>7. OnceEach'
    BY <1>1, <1>3, <2>2 DEF OnceEach
  <2>8. ~Afloat(j) /\ Alone(j)
    BY <1>5, UnshippedAlone
  <2>9. Single'
    BY <1>6, <2>3, <2>8 DEF Single
  <2>10. ASSUME NEW q \in Procs PROVE Alone(job[q])'
    <3>1. CASE q = p
      BY <1>1, <1>6, <2>8, <3>1 DEF Alone, Landed
    <3>2. CASE q # p
      BY <1>6, <2>3, <3>2 DEF Alone, Landed, Afloat
    <3>3. QED
      BY <3>1, <3>2
  <2>11. QED
    BY <2>6, <2>7, <2>9, <2>10 DEF OnceInv
<1>9. QED
  BY <1>1, <1>2, <1>7, <1>8

LEMMA OnceFerries ==
  ASSUME TypeInv, OnceInv, NEW p \in Procs, Ferries(p)
  PROVE  OnceInv'
<1>1. CASE Mark(p) \/ MarkFails(p)
  <2>1. PICK known \in BOOLEAN : ReadMark(p, known) /\ (known => mark # None)
    BY <1>1 DEF Mark, MarkFails
  <2>2. QED
    BY <2>1, OnceReads
<1>2. CASE Pick(p)
  BY <1>2, OncePicks
<1>3. CASE Ship(p)
  BY <1>3, OnceShips
<1>4. CASE Won(p)
  BY <1>4, OnceWins
<1>5. CASE FactsFail(p)
  <2>1. /\ Turns(p, "failed", {}) /\ job[p].pc \in {"pick", "ship"} /\ mark' = mark
        /\ (facts' = facts /\ again' = again) \/ again' = TRUE
    BY <1>5 DEF FactsFail, Turns, At
  <2>2. PICK j : Goes(p, j) /\ Sound(p, j) /\ Unshipped(j)
    BY <2>1, TurnsIs DEF Steps, Unshipped
  <2>3. ~Landed(job[p])
    BY <2>1 DEF Landed
  <2>4. CASE again'
    BY <2>4 DEF OnceInv
  <2>5. CASE ~again'
    BY <2>1, <2>2, <2>3, <2>5, OnceEnds
  <2>6. QED
    BY <2>4, <2>5
<1>6. CASE WinIsLost(p)
  <2>1. /\ End(p) /\ job[p].pc \in {"won", "clear"} /\ mark' = mark /\ facts' = facts
        /\ again' = (again \/ job[p].pc = "won")
    BY <1>6 DEF WinIsLost, At
  <2>2. PICK j : Ends(p, j)
    BY <2>1, EndsIs
  <2>3. Goes(p, j) /\ Sound(p, j) /\ Unshipped(j)
    BY <2>2 DEF Ends, Rests, Unshipped
  <2>4. CASE again'
    BY <2>4 DEF OnceInv
  <2>5. CASE ~again'
    <3>1. ~again /\ ~Landed(job[p])
      BY <2>1, <2>5 DEF Landed
    <3>2. QED
      BY <2>1, <2>3, <3>1, OnceEnds
  <2>6. QED
    BY <2>4, <2>5
<1>7. CASE Kill(p)
  <2>1. Ends(p, Idle) /\ mark' = mark /\ facts' = facts /\ again' = (again \/ Shipping(p))
    BY <1>7, KillIs
  <2>2. Goes(p, Idle) /\ Sound(p, Idle) /\ Unshipped(Idle)
    BY <2>1 DEF Ends, Rests, Unshipped
  <2>3. CASE again'
    BY <2>3 DEF OnceInv
  <2>4. CASE ~again'
    <3>1. ~again /\ ~Landed(job[p])
      BY <2>1, <2>4, AfloatIs DEF Landed, Afloat
    <3>2. QED
      BY <2>1, <2>2, <3>1, OnceEnds
  <2>5. QED
    BY <2>3, <2>4
<1>8. QED
  BY <1>1, <1>2, <1>3, <1>4, <1>5, <1>6, <1>7 DEF Ferries

LEMMA OnceStays ==
  ASSUME OnceInv, job' = job, facts' = facts, mark' = mark, again' = again
  PROVE  OnceInv'
  BY DEF OnceInv, OnceEach, Single, Behind, Alone, Landed, Afloat

LEMMA OnceStep == ASSUME TypeInv, OnceInv, Next PROVE OnceInv'
<1>1. CASE Tick \/ Request \/ Query \/ \E t \in Slots : StoreRequest(t) \/ StoreLog(t)
  <2>1. job' = job /\ facts' = facts /\ mark' = mark /\ again' = again
    BY <1>1 DEF Tick, Request, Query, StoreRequest, StoreLog, stream
  <2>2. QED
    BY <2>1, OnceStays
<1>2. ASSUME NEW p \in Procs, \E j : Starts(p, j) PROVE OnceInv'
  BY <1>2, AshoreStarts, OnceAshore
<1>3. CASE RetentionPass \/ SinkCycle
  BY <1>2, <1>3, RetentionStarts, SinkStarts
<1>4. ASSUME NEW p \in Procs, Works(p) \/ Fails(p) PROVE OnceInv'
  BY <1>4, AshoreIs, OnceAshore, OnceFerries
<1>5. ASSUME NEW a \in Admins, Post(a) PROVE OnceInv'
  BY <1>2, <1>5, PostIs
<1>6. QED
  BY <1>1, <1>3, <1>4, <1>5 DEF Next

LEMMA OnceInit == ASSUME Init PROVE OnceInv
<1>1. \A t \in Slots : facts[t] = 0
  BY DEF Init
<1>2. \A p \in Procs : Alone(job[p]) /\ ~Afloat(job[p])
  BY JobsInit, UnshippedAlone
<1>3. OnceEach /\ Behind
  BY <1>1 DEF OnceEach, Behind
<1>4. Single
  BY <1>2 DEF Single
<1>5. QED
  BY <1>2, <1>3, <1>4 DEF OnceInv

\* A log reaches ClickHouse once, as long as no reply, record or watermark was
\* lost, no shipment was cut off and no two overlapped: shipments follow one
\* another, and each begins after the newest log of the one before.
THEOREM ShippedOnce == Spec => []OnceEach
<1>1. Init => TypeInv /\ OnceInv
  BY TypeInit, OnceInit
<1>2. TypeInv /\ OnceInv /\ [Next]_vars => TypeInv' /\ OnceInv'
  <2>1. OnceInv /\ UNCHANGED vars => OnceInv'
    BY OnceStays DEF vars, stream
  <2>2. QED
    BY <2>1, TypeStep, TypeStays, OnceStep
<1>3. OnceInv => OnceEach
  BY DEF OnceInv, OnceEach
<1>4. QED
  BY <1>1, <1>2, <1>3, PTL DEF Spec
-----------------------------------------------------------------------------
(* SumsSurvive.  A sum, written or about to be, counts requests of its day *)
(* that are stored or that retention may purge; a rollup that reaches back *)
(* no further than what retention keeps finds all of them.                 *)
Held(s, d) ==
  /\ \A t \in s.requests : Day(t) = d /\ (t \in reqs \/ t < Cutoff)
  /\ \A t \in s.tokens : t \in s.requests /\ (t \in usage \/ t < Cutoff)

Covered(s, u) == s.requests \subseteq u.requests /\ s.tokens \subseteq u.tokens

Rolling(j) ==
  /\ j.pc = "upsert" => Held(j.sums, j.day) /\ (j.hit \/ j.days + 1 >= RequestDays \/ Covered(daily[j.day], j.sums))
  /\ j.todo # <<>> => j.began <= now /\ now <= j.began + 1
  /\ j.pc = "rows" => j.cutoff <= Cutoff

SumsInv == /\ \A d \in Days : Held(daily[d], d)
           /\ \A p \in Procs : Rolling(job[p])

\* Retention purges nothing of the days that such a rollup goes over.
LEMMA InReach ==
  ASSUME NEW t \in Nat, NEW d \in Nat, NEW days \in Nat, NEW began \in Nat, now \in Nat, PerDay * d <= t,
         Day(began) <= d + days, now <= began + 1, days + 1 < RequestDays
  PROVE  ~(t < Cutoff)
<1>1. /\ PerDay \in Nat \ {0} /\ RequestDays \in Nat /\ Day(began) \in Nat
      /\ began < PerDay * Day(began) + PerDay
  BY Sizes, DayIs
<1>2. PerDay * Day(began) <= PerDay * d + PerDay * days
  BY <1>1
<1>3. PerDay * days + PerDay <= RequestDays * PerDay /\ RequestDays * PerDay \in Nat
      /\ PerDay * d \in Nat /\ PerDay * days \in Nat /\ PerDay * Day(began) \in Nat
  BY <1>1
<1> DEFINE kept == RequestDays * PerDay
           a == PerDay * d
           b == PerDay * days
           c == PerDay * Day(began)
<1>4. /\ kept \in Nat /\ a \in Nat /\ b \in Nat /\ c \in Nat
      /\ c <= a + b /\ b + PerDay <= kept /\ began < c + PerDay /\ a <= t
  BY <1>1, <1>2, <1>3
<1>5. Cutoff = IF now > kept THEN now - kept ELSE 0
  BY DEF Cutoff, Monus
<1> HIDE DEF kept, a, b, c
<1>6. QED
  BY <1>1, <1>4, <1>5

\* Rows that go are old.
Fades == /\ \A t \in Slots : t \in reqs => t \in reqs' \/ t < Cutoff'
         /\ \A t \in Slots : t \in usage => t \in usage' \/ t < Cutoff'
         /\ Cutoff <= Cutoff'

LEMMA HeldStays ==
  ASSUME TypeInv, TypeInv', Fades, NEW s \in Sums, NEW d, Held(s, d)
  PROVE  Held(s, d)'
<1>1. s.requests \subseteq Slots /\ s.tokens \subseteq Slots
  BY DEF Sums
<1>2. Cutoff \in Nat /\ Cutoff' \in Nat /\ Cutoff <= Cutoff' /\ Slots \subseteq Nat
  <2>1. Cutoff' \in Nat
    <3>1. TypeOK' /\ now' \in Slots
      BY DEF TypeInv, TypeOK
    <3>2. now' \in Nat /\ RequestDays * PerDay \in Nat
      BY <3>1, SlotType, Sizes
    <3>3. QED
      BY <3>2 DEF Cutoff, Monus
  <2>2. QED
    BY <2>1, CutoffType, SlotType DEF TypeInv, Fades
<1>3. \A t \in Slots : t < Cutoff => t < Cutoff'
  BY <1>2
<1>4. QED
  BY <1>1, <1>3 DEF Held, Fades

\* A job whose day no rollup writes.
LEMMA RollingStays ==
  ASSUME TypeInv, TypeInv', Fades, NEW p \in Procs, NEW j, j = job[p], Rolling(j), daily'[j.day] = daily[j.day],
         j.todo # <<>> => j.began <= now' /\ now' <= j.began + 1
  PROVE  Rolling(j)'
<1>1. j.sums \in Sums /\ j.cutoff \in Nat
  BY OldJob, SlotType DEF Typed
<1>2. j.pc = "upsert" => Held(j.sums, j.day)'
  BY <1>1, HeldStays DEF Rolling
<1>3. j.pc = "rows" => j.cutoff <= Cutoff'
  <2>1. Cutoff \in Nat /\ Cutoff <= Cutoff'
    BY CutoffType DEF TypeInv, Fades
  <2>2. Cutoff' \in Nat
    <3>1. TypeOK' /\ now' \in Slots
      BY DEF TypeInv, TypeOK
    <3>2. now' \in Nat /\ RequestDays * PerDay \in Nat
      BY <3>1, SlotType, Sizes
    <3>3. QED
      BY <3>2 DEF Cutoff, Monus
  <2>3. QED
    BY <1>1, <2>1, <2>2 DEF Rolling
<1>4. QED
  BY <1>2, <1>3 DEF Rolling

\* Everything but p's job, when the sums stay.
LEMMA SumsKept ==
  ASSUME TypeInv, TypeInv', SumsInv, Fades, daily' = daily, now' = now,
         NEW p \in Procs, NEW j, job'[p] = j, Rolling(j)', \A q \in Procs \ {p} : job'[q] = job[q]
  PROVE  SumsInv'
<1>1. ASSUME NEW d \in Days PROVE Held(daily[d], d)'
  <2>1. PICK s : s = daily[d]
    OBVIOUS
  <2>2. s \in Sums /\ Held(s, d) /\ s = daily'[d]
    BY <2>1 DEF SumsInv, TypeInv, TypeOK
  <2>3. Held(s, d)'
    BY <2>2, HeldStays
  <2>4. QED
    BY <2>2, <2>3 DEF Held
<1>2. ASSUME NEW q \in Procs PROVE Rolling(job[q])'
  <2>1. CASE q = p
    BY <2>1 DEF Rolling, Held
  <2>2. CASE q # p
    <3>1. PICK k : k = job[q]
      OBVIOUS
    <3>2. Rolling(k) /\ job'[q] = k
      BY <2>2, <3>1 DEF SumsInv
    <3>3. k.todo # <<>> => k.began <= now' /\ now' <= k.began + 1
      BY <3>2 DEF Rolling
    <3>4. Rolling(k)'
      BY <3>1, <3>2, <3>3, RollingStays
    <3>5. QED
      BY <3>2, <3>4 DEF Rolling, Held
  <2>3. QED
    BY <2>1, <2>2
<1>3. QED
  BY <1>1, <1>2 DEF SumsInv

LEMMA NothingFades ==
  ASSUME TypeInv, reqs \subseteq reqs', usage \subseteq usage', now' = now
  PROVE  Fades
<1>1. Cutoff' = Cutoff /\ Cutoff \in Nat
  BY CutoffType DEF Cutoff, TypeInv
<1>2. QED
  BY <1>1 DEF Fades

\* The processes that do something have a task.
LEMMA BusyIs ==
  ASSUME TypeInv, NEW p \in Procs, Works(p) \/ Fails(p)
  PROVE  job[p].todo # <<>>
<1>1. CASE Kill(p)
  BY <1>1 DEF Kill
<1>2. CASE ~Kill(p)
  <2>1. job[p].pc \notin {"off", "idle"}
    BY <1>2 DEF Works, Fails, At, Count, Upsert, PurgeUsage, PurgeRows, List, Send, Mark, Pick, Ship, Won, Clear,
                Failed, RollupFails, PurgeFails, SyncFails, MarkFails, ReadMark, FactsFail, WinIsLost, FailureIsLost
  <2>2. QED
    BY <2>1, OldJob DEF Sound
<1>3. QED
  BY <1>1, <1>2
LEMMA SumsAside ==
  ASSUME TypeInv, TypeInv', SumsInv, NEW p \in Procs, NEW j, Aside(p, j), job[p].todo # <<>>
  PROVE  SumsInv'
<1>1. /\ Goes(p, j) /\ Sound(p, j) /\ now' = now /\ reqs' = reqs /\ usage' = usage /\ daily' = daily
      /\ j.pc \notin {"upsert", "rows"} /\ (j.todo # <<>> => j.began = job[p].began)
  BY DEF Aside, NoRollup
<1>2. job'[p] = j /\ \A q \in Procs \ {p} : job'[q] = job[q]
  BY <1>1, GoesOK
<1>3. job[p].began <= now /\ now <= job[p].began + 1
  BY DEF SumsInv, Rolling
<1>4. Rolling(j)'
  BY <1>1, <1>3 DEF Rolling
<1>5. Fades
  BY <1>1, NothingFades
<1>6. QED
  BY <1>1, <1>2, <1>4, <1>5, SumsKept

LEMMA SumsStarts ==
  ASSUME TypeInv, TypeInv', SumsInv, NEW p \in Procs, NEW j, Starts(p, j)
  PROVE  SumsInv'
<1>1. /\ Goes(p, j) /\ Sound(p, j) /\ now' = now /\ reqs' = reqs /\ usage' = usage /\ daily' = daily
      /\ j.pc \notin {"upsert", "rows"} /\ j.began = now
  BY DEF Starts, ledger
<1>2. job'[p] = j /\ \A q \in Procs \ {p} : job'[q] = job[q]
  BY <1>1, GoesOK
<1>3. now \in Nat
  BY SlotType DEF TypeInv, TypeOK
<1>4. Rolling(j)'
  BY <1>1, <1>3 DEF Rolling
<1>5. Fades
  BY <1>1, NothingFades
<1>6. QED
  BY <1>1, <1>2, <1>4, <1>5, SumsKept

\* What a rollup counts covers the sums there are, unless it reaches too far back.
LEMMA SumsCounts ==
  ASSUME TypeInv, TypeInv', SumsInv, NEW p \in Procs, Count(p)
  PROVE  SumsInv'
<1>1. /\ job[p].pc = "count" /\ now' = now /\ reqs' = reqs /\ usage' = usage /\ daily' = daily
      /\ CountsNone(p) \/ \E j : Counts(p, j)
  BY CountIs
<1>2. Fades
  BY <1>1, NothingFades
<1>3. job[p].todo # <<>>
  BY BusyIs DEF Works
<1>4. job[p].began <= now /\ now <= job[p].began + 1
  BY <1>3 DEF SumsInv, Rolling
<1>5. CASE CountsNone(p)
  <2>1. Goes(p, Rolled(job[p])) /\ Sound(p, Rolled(job[p])) /\ GoesOn(job[p], Rolled(job[p]))
    BY <1>1, <1>5, RollsOnIs DEF CountsNone
  <2>2. PICK j : j = Rolled(job[p])
    OBVIOUS
  <2>3. job'[p] = j /\ \A q \in Procs \ {p} : job'[q] = job[q]
    BY <2>1, <2>2, GoesOK
  <2>4. j.pc \notin {"upsert", "rows"} /\ (j.todo # <<>> => j.began = job[p].began)
    BY <2>1, <2>2 DEF GoesOn, Rests, SameRollup, SameTask
  <2>5. Rolling(j)'
    BY <1>1, <1>4, <2>4 DEF Rolling
  <2>6. QED
    BY <1>1, <1>2, <2>3, <2>5, SumsKept
<1>6. ASSUME NEW j, Counts(p, j) PROVE SumsInv'
  <2>1. job'[p] = j /\ \A q \in Procs \ {p} : job'[q] = job[q]
    BY <1>6, GoesOK DEF Counts
  <2>2. PICK old : old = job[p]
    OBVIOUS
  <2>3. /\ j.pc = "upsert" /\ j.day = old.day /\ j.began = old.began /\ j.days = old.days
        /\ j.sums.requests = RequestsOf(old.day) /\ j.sums.tokens = RequestsOf(old.day) \cap usage
    BY <1>6, <2>2 DEF Counts, SameRollup, SameTask
  <2>4. /\ old.day \in Days /\ old.day \in Nat /\ old.days \in Nat /\ old.began \in Nat /\ now \in Nat
        /\ Day(old.began) <= old.day + old.days
    BY <1>1, <2>2, OldJob, SlotType DEF Typed, Sound, TypeInv, TypeOK
  <2>5. Held(j.sums, j.day)'
    BY <1>1, <2>3 DEF Held, RequestsOf
  <2>6. ASSUME old.days + 1 < RequestDays PROVE Covered(daily[old.day], j.sums)
    <3>1. daily[old.day] \in Sums /\ Held(daily[old.day], old.day)
      BY <2>4 DEF SumsInv, TypeInv, TypeOK
    <3>2. daily[old.day].requests \subseteq Slots /\ daily[old.day].tokens \subseteq Slots
      BY <3>1 DEF Sums
    <3>3. ASSUME NEW t \in Slots, Day(t) = old.day PROVE ~(t < Cutoff)
      <4>1. t \in Nat /\ PerDay * old.day <= t
        BY <3>3, SlotType, DayIs
      <4>2. QED
        BY <1>4, <2>2, <2>4, <2>6, <4>1, InReach
    <3>4. QED
      BY <2>3, <3>1, <3>2, <3>3 DEF Covered, Held, RequestsOf
  <2>7. old.days + 1 < RequestDays \/ old.days + 1 >= RequestDays
    BY <2>4, Sizes
  <2>8. Rolling(j)'
    BY <1>1, <1>4, <2>2, <2>3, <2>5, <2>6, <2>7 DEF Rolling
  <2>9. QED
    BY <1>1, <1>2, <2>1, <2>8, SumsKept
<1>7. QED
  BY <1>1, <1>5, <1>6

LEMMA SumsUpserts ==
  ASSUME TypeInv, TypeInv', SumsInv, NEW p \in Procs, Upsert(p)
  PROVE  SumsInv'
<1> DEFINE d == job[p].day
           s == job[p].sums
<1>1. /\ job[p].pc = "upsert" /\ now' = now /\ reqs' = reqs /\ usage' = usage /\ daily' = [daily EXCEPT ![d] = s]
      /\ job'[p] = Rolled(job[p]) /\ GoesOn(job[p], job'[p])
      /\ \A q \in Procs \ {p} : /\ Overlapped(job[q], job'[q])
                                /\ IF At(q, "upsert") /\ job[q].day = d THEN job'[q].hit = TRUE ELSE job'[q] = job[q]
  BY UpsertIs
<1>2. Fades
  BY <1>1, NothingFades
<1>3. d \in Days /\ s \in Sums /\ daily \in [Days -> Sums] /\ Held(s, d) /\ job[p].todo # <<>>
  BY <1>1, OldJob, BusyIs DEF Typed, TypeInv, TypeOK, SumsInv, Rolling, Works
<1>4. job[p].began <= now /\ now <= job[p].began + 1
  BY <1>3 DEF SumsInv, Rolling
<1> HIDE DEF d, s
<1>5. daily'[d] = s /\ \A e \in Days \ {d} : daily'[e] = daily[e]
  BY <1>1, <1>3
<1>6. ASSUME NEW e \in Days PROVE Held(daily[e], e)'
  <2>1. PICK u : u = daily'[e]
    OBVIOUS
  <2>2. u \in Sums /\ Held(u, e)
    BY <1>3, <1>5, <2>1 DEF SumsInv
  <2>3. Held(u, e)'
    BY <1>2, <2>2, HeldStays
  <2>4. QED
    BY <2>1, <2>3 DEF Held
<1>7. ASSUME NEW q \in Procs \ {p} PROVE Rolling(job[q])'
  <2>1. PICK old : old = job[q]
    OBVIOUS
  <2>2. PICK new : new = job'[q]
    OBVIOUS
  <2>3. Rolling(old) /\ old.day \in Days /\ old.sums \in Sums
    BY <2>1, OldJob DEF SumsInv, Typed
  <2>4. CASE old.pc = "upsert" /\ old.day = d
    <3>1. new.hit = TRUE /\ Overlapped(old, new)
      BY <1>1, <2>1, <2>2, <2>4 DEF At
    <3>2. new.pc = "upsert" /\ new.sums = old.sums /\ new.day = old.day /\ new.todo = old.todo /\ new.began = old.began
      BY <2>4, <3>1 DEF Overlapped
    <3>3. Held(old.sums, old.day)'
      BY <1>2, <2>3, <2>4, HeldStays DEF Rolling
    <3>4. Rolling(new)'
      BY <1>1, <2>3, <3>1, <3>2, <3>3 DEF Rolling
    <3>5. QED
      BY <2>2, <3>4 DEF Rolling, Held
  <2>5. CASE ~(old.pc = "upsert" /\ old.day = d)
    <3>1. new = old
      BY <1>1, <2>1, <2>2, <2>5 DEF At
    <3>2. Rolling(old)'
      <4>1. old.todo # <<>> => old.began <= now' /\ now' <= old.began + 1
        BY <1>1, <2>3 DEF Rolling
      <4>2. CASE old.day # d
        <5>1. daily'[old.day] = daily[old.day]
          BY <1>5, <2>3, <4>2
        <5>2. QED
          BY <1>2, <2>1, <2>3, <4>1, <5>1, RollingStays
      <4>3. CASE old.pc # "upsert"
        <5>1. Cutoff' = Cutoff
          BY <1>1 DEF Cutoff
        <5>2. QED
          BY <2>3, <4>1, <4>3, <5>1 DEF Rolling
      <4>4. QED
        BY <2>5, <4>2, <4>3
    <3>3. QED
      BY <2>2, <3>1, <3>2 DEF Rolling, Held
  <2>6. QED
    BY <2>4, <2>5
<1>8. Rolling(job[p])'
  <2>1. PICK j : j = job'[p]
    OBVIOUS
  <2>2. j.pc \notin {"upsert", "rows"} /\ (j.todo # <<>> => j.began = job[p].began)
    BY <1>1, <2>1 DEF GoesOn, Rests, SameRollup, SameTask
  <2>3. Rolling(j)'
    BY <1>1, <1>4, <2>2 DEF Rolling
  <2>4. QED
    BY <2>1, <2>3 DEF Rolling, Held
<1>9. QED
  BY <1>6, <1>7, <1>8 DEF SumsInv

LEMMA SumsPurges ==
  ASSUME TypeInv, TypeInv', SumsInv, NEW p \in Procs, Purges(p)
  PROVE  SumsInv'
<1>0. job[p].began <= now /\ now <= job[p].began + 1
  <2>1. job[p].todo # <<>>
    BY BusyIs DEF Purges, Works
  <2>2. QED
    BY <2>1 DEF SumsInv, Rolling
<1>1. Cutoff \in Nat
  BY CutoffType DEF TypeInv
<1>2. CASE PurgeUsage(p)
  <2>1. /\ usage' = usage \ {t \in reqs : t < Cutoff} /\ now' = now /\ reqs' = reqs /\ daily' = daily
        /\ \/ \E j : Ends(p, j)
           \/ \E j : Steps(p, j) /\ j.pc = "rows" /\ j.cutoff = Cutoff /\ j.list = {}
    BY <1>2, PurgeUsageIs
  <2>2. PICK j : /\ Goes(p, j) /\ Sound(p, j) /\ j.pc # "upsert" /\ (j.todo # <<>> => j.began = job[p].began)
                 /\ j.pc = "rows" => j.cutoff = Cutoff
    BY <2>1 DEF Ends, Rests, Steps, SameTask
  <2>3. Cutoff' = Cutoff
    BY <2>1 DEF Cutoff
  <2>4. Fades
    BY <1>1, <2>1, <2>3 DEF Fades
  <2>5. Rolling(j)'
    BY <1>0, <1>1, <2>1, <2>2, <2>3 DEF Rolling
  <2>6. job'[p] = j /\ \A q \in Procs \ {p} : job'[q] = job[q]
    BY <2>2, GoesOK
  <2>7. QED
    BY <2>1, <2>4, <2>5, <2>6, SumsKept
<1>3. CASE PurgeRows(p)
  <2>1. /\ End(p) /\ job[p].pc = "rows" /\ reqs' = {t \in reqs : t >= job[p].cutoff}
        /\ now' = now /\ usage' = usage /\ daily' = daily
    BY <1>3 DEF PurgeRows, At
  <2>2. PICK j : Ends(p, j)
    BY <2>1, EndsIs
  <2>3. Goes(p, j) /\ Sound(p, j) /\ j.pc \notin {"upsert", "rows"} /\ (j.todo # <<>> => j.began = job[p].began)
    BY <2>2 DEF Ends, Rests
  <2>4. Cutoff' = Cutoff
    BY <2>1 DEF Cutoff
  <2>5. job[p].cutoff <= Cutoff /\ job[p].cutoff \in Nat
    BY <2>1, OldJob, SlotType DEF SumsInv, Rolling, Typed
  <2>6. \A t \in Slots : t \in Nat
    BY SlotType
  <2>7. \A t \in Slots : t \in reqs => t \in reqs' \/ t < Cutoff
    BY <1>1, <2>1, <2>5, <2>6
  <2>8. Fades
    BY <1>1, <2>1, <2>4, <2>7 DEF Fades
  <2>9. Rolling(j)'
    BY <1>0, <2>1, <2>3 DEF Rolling
  <2>10. job'[p] = j /\ \A q \in Procs \ {p} : job'[q] = job[q]
    BY <2>3, GoesOK
  <2>11. QED
    BY <2>1, <2>8, <2>9, <2>10, SumsKept
<1>4. QED
  BY <1>2, <1>3 DEF Purges

\* Time, requests and queries.
LEMMA SumsWorld ==
  ASSUME TypeInv, TypeInv', SumsInv, Tick \/ Request \/ Query \/ \E t \in Slots : StoreRequest(t) \/ StoreLog(t)
  PROVE  SumsInv'
<1>1. /\ job' = job /\ daily' = daily /\ reqs \subseteq reqs' /\ usage \subseteq usage'
      /\ now' = now \/ Tick
  BY DEF Tick, Request, Query, StoreRequest, StoreLog, ledger
<1>2. now \in Nat /\ now' \in Nat /\ now <= now'
  <2>1. TypeOK' /\ now' \in Slots /\ now \in Slots
    BY DEF TypeInv, TypeOK
  <2>2. QED
    BY <1>1, <2>1, SlotType DEF Tick
<1>3. Cutoff <= Cutoff'
  <2>1. RequestDays * PerDay \in Nat
    BY Sizes
  <2> DEFINE kept == RequestDays * PerDay
  <2>2. /\ Cutoff = IF now > kept THEN now - kept ELSE 0
        /\ Cutoff' = IF now' > kept THEN now' - kept ELSE 0
    BY DEF Cutoff, Monus
  <2> HIDE DEF kept
  <2>3. QED
    BY <1>2, <2>1, <2>2 DEF kept
<1>4. Fades
  BY <1>1, <1>3 DEF Fades
<1>5. ASSUME NEW d \in Days PROVE Held(daily[d], d)'
  <2>1. PICK s : s = daily[d]
    OBVIOUS
  <2>2. s \in Sums /\ Held(s, d) /\ s = daily'[d]
    BY <1>1, <2>1 DEF SumsInv, TypeInv, TypeOK
  <2>3. Held(s, d)'
    BY <1>4, <2>2, HeldStays
  <2>4. QED
    BY <2>2, <2>3 DEF Held
<1>6. ASSUME NEW q \in Procs PROVE Rolling(job[q])'
  <2>1. PICK k : k = job[q]
    OBVIOUS
  <2>2. Rolling(k) /\ job'[q] = k /\ k.began \in Nat
    BY <1>1, <2>1, OldJob, SlotType DEF SumsInv, Typed
  <2>3. k.todo # <<>> => k.began <= now' /\ now' <= k.began + 1
    <3>1. CASE now' = now
      BY <2>2, <3>1 DEF Rolling
    <3>2. CASE Tick
      <4>1. now' = now + 1 /\ (k.todo # <<>> => k.began = now)
        BY <2>1, <3>2 DEF Tick
      <4>2. QED
        BY <1>2, <4>1
    <3>3. QED
      BY <1>1, <3>1, <3>2
  <2>4. daily'[k.day] = daily[k.day]
    BY <1>1
  <2>5. Rolling(k)'
    BY <1>4, <2>1, <2>2, <2>3, <2>4, RollingStays
  <2>6. QED
    BY <2>2, <2>5 DEF Rolling, Held
<1>7. QED
  BY <1>5, <1>6 DEF SumsInv

LEMMA SumsStep == ASSUME TypeInv, TypeInv', SumsInv, Next PROVE SumsInv'
<1>1. CASE Tick \/ Request \/ Query \/ \E t \in Slots : StoreRequest(t) \/ StoreLog(t)
  BY <1>1, SumsWorld
<1>2. ASSUME NEW p \in Procs, \E j : Starts(p, j) PROVE SumsInv'
  BY <1>2, SumsStarts
<1>3. CASE RetentionPass \/ SinkCycle
  BY <1>2, <1>3, RetentionStarts, SinkStarts
<1>4. ASSUME NEW p \in Procs, Works(p) \/ Fails(p) PROVE SumsInv'
  BY <1>4, AsideIs, BusyIs, SumsAside, SumsCounts, SumsUpserts, SumsPurges
<1>5. ASSUME NEW a \in Admins, Post(a) PROVE SumsInv'
  BY <1>2, <1>5, PostIs
<1>6. QED
  BY <1>1, <1>3, <1>4, <1>5 DEF Next

LEMMA SumsStays == ASSUME SumsInv, UNCHANGED vars PROVE SumsInv'
<1>1. job' = job /\ daily' = daily /\ reqs' = reqs /\ usage' = usage /\ now' = now
  BY DEF vars, ledger
<1>2. QED
  BY <1>1 DEF SumsInv, Rolling, Held, Covered, Cutoff

LEMMA SumsInit == ASSUME Init PROVE SumsInv
<1>1. \A d \in Days : daily[d] = Nothing
  BY DEF Init
<1>2. Nothing.requests = {} /\ Nothing.tokens = {}
  BY DEF Nothing
<1>3. QED
  BY <1>1, <1>2, JobsInit DEF SumsInv, Held, Rolling

(* What a step makes of the sums of a day.                                 *)
SumsGrow ==
  \A d \in Days :
    \/ daily[d].requests \subseteq daily'[d].requests /\ daily[d].tokens \subseteq daily'[d].tokens
    \/ \E p \in Procs : At(p, "upsert") /\ job[p].day = d /\ (job[p].hit \/ job[p].days + 1 >= RequestDays)

\* Only an upsert changes the sums, and it covers what it writes over.
LEMMA SumsOnlyGrow == ASSUME TypeInv, SumsInv, [Next]_vars PROVE SumsGrow
<1>1. ASSUME NEW p \in Procs, Upsert(p) PROVE SumsGrow
  <2> DEFINE d == job[p].day
             s == job[p].sums
  <2>1. job[p].pc = "upsert" /\ daily' = [daily EXCEPT ![d] = s]
    BY <1>1, UpsertIs
  <2>2. d \in Days /\ daily \in [Days -> Sums]
    BY OldJob DEF Typed, TypeInv, TypeOK
  <2>3. job[p].hit \/ job[p].days + 1 >= RequestDays \/ Covered(daily[d], s)
    BY <2>1 DEF SumsInv, Rolling
  <2> HIDE DEF d, s
  <2>4. daily'[d] = s /\ \A e \in Days : e # d => daily'[e] = daily[e]
    BY <2>1, <2>2
  <2>5. QED
    BY <2>1, <2>3, <2>4 DEF SumsGrow, Covered, At, d
<1>2. ASSUME daily' = daily PROVE SumsGrow
  BY <1>2 DEF SumsGrow
<1>3. CASE UNCHANGED vars
  BY <1>2, <1>3 DEF vars, ledger
<1>4. CASE Next
  <2>1. CASE Tick \/ Request \/ Query \/ \E t \in Slots : StoreRequest(t) \/ StoreLog(t)
    BY <1>2, <2>1 DEF Tick, Request, Query, StoreRequest, StoreLog, ledger
  <2>2. ASSUME NEW p \in Procs, \E j : Starts(p, j) PROVE SumsGrow
    BY <1>2, <2>2 DEF Starts, ledger
  <2>3. CASE RetentionPass \/ SinkCycle
    BY <2>2, <2>3, RetentionStarts, SinkStarts
  <2>4. ASSUME NEW p \in Procs, Works(p) \/ Fails(p) PROVE SumsGrow
    <3>1. CASE Count(p)
      BY <1>2, <3>1, CountIs
    <3>2. CASE Purges(p)
      BY <1>2, <3>2 DEF Purges, PurgeUsage, PurgeRows
    <3>3. CASE \E j : Aside(p, j)
      BY <1>2, <3>3 DEF Aside
    <3>4. QED
      BY <1>1, <2>4, <3>1, <3>2, <3>3, AsideIs
  <2>5. ASSUME NEW a \in Admins, Post(a) PROVE SumsGrow
    BY <2>2, <2>5, PostIs
  <2>6. QED
    BY <1>4, <2>1, <2>3, <2>4, <2>5 DEF Next
<1>5. QED
  BY <1>3, <1>4

\* A rollup, run by whoever and however often, forgets nothing that the sums of
\* a day count, unless another one wrote the day since it counted, or it goes
\* back to days that retention is purging.
THEOREM SumsForgetNothing == Spec => SumsSurvive
<1>1. Init => TypeInv /\ SumsInv
  BY TypeInit, SumsInit
<1>2. TypeInv /\ SumsInv /\ [Next]_vars => TypeInv' /\ SumsInv'
  <2>1. TypeInv /\ [Next]_vars => TypeInv'
    BY TypeStep, TypeStays
  <2>2. QED
    BY <2>1, SumsStep, SumsStays
<1>3. TypeInv /\ SumsInv /\ [Next]_vars => [SumsGrow]_vars
  BY SumsOnlyGrow
<1>4. [][SumsGrow]_vars <=> SumsSurvive
  BY DEF SumsGrow, SumsSurvive
<1>5. QED
  BY <1>1, <1>2, <1>3, <1>4, PTL DEF Spec
=============================================================================
