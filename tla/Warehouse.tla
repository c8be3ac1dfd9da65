------------------------------ MODULE Warehouse ------------------------------
(***************************************************************************)
(* The long-term statistics (internal/store/analytics_rollup.go,           *)
(* retention.go, clickhouse_watermark.go, internal/proxy/clickhouse_sink.go*)
(* and admin_dw.go): requests are summed up per day before retention purges*)
(* them, the sums are shipped to ClickHouse, and so are the logs of        *)
(* Text2SQL queries that are newer than a watermark.                       *)
(*                                                                         *)
(* Time passes in slots, PerDay to a day; a slot starts at most one request*)
(* and one query, so the slot is their created_at and their name.  A day's *)
(* sum is the set of requests it counts.  One dimension stands for the five*)
(* of dwDimensions, which are handled one after the other.  On PostgreSQL  *)
(* statements of different sessions overlap.  A rollup, a cycle or a       *)
(* request outlives at most one slot: their timeouts are minutes.          *)
(***************************************************************************)
EXTENDS Naturals, Sequences, FiniteSets

CONSTANTS
  Admins,       \* administrators' requests that may be served together
  Wide,         \* the days= they may ask for
  PerDay, LastDay,
  RollupDays,   \* what the retention worker sums up: 3 days
  SinkDays, RequestDays,
  Backfill,     \* what is shipped without a watermark: 7 days
  Limit,        \* logs shipped at a time: 5000
  Setups,       \* which workers have an interval, and how many requests, queries,
                \* posts of each sort, faults and kills may happen: one of these
  None

Days  == 0 .. LastDay
Slots == 0 .. (LastDay + 1) * PerDay - 1
Day(t) == t \div PerDay
Workers == {"retention", "sink"}
Procs == Admins \cup Workers
Spendable == {"requests", "queries", "rollups", "sinks", "ships", "retries", "faults", "kills"}

ASSUME SizesAssumption ==
  /\ PerDay \in Nat \ {0} /\ Limit \in Nat \ {0} /\ LastDay \in Nat
  /\ {RollupDays, SinkDays, Backfill} \subseteq Nat /\ Wide \subseteq Nat
ASSUME RetentionAssumption == RequestDays \in Nat \ {0} /\ RollupDays + 1 < RequestDays
ASSUME SetupsAssumption    == Setups \subseteq [workers: SUBSET Workers, budget: [Spendable -> Nat]]
ASSUME NamesAssumption     == {"retention", "sink"} \cap Admins = {} /\ None \notin Slots

VARIABLES
  now,
  waiting,  \* requests the audit logger has not stored yet
  reqs,     \* request_logs
  usage,    \* token_usage
  daily,    \* analytics_daily
  dw,       \* what ClickHouse has of it
  asked,    \* queries whose log is not stored yet
  logs,     \* text2sql_query_logs
  facts,    \* how often ClickHouse has each of them, up to twice
  mark,     \* the watermark of the facts; None when it is no time stamp
  retry,    \* clickhouse_sink_retry: the day a failed window begins
  job,      \* what each worker and request is doing
  left,     \* what is left of the budget
  (* history *)
  sure,     \* requests that a pass of the retention worker has been over
  spoilt,   \* days whose sums a rollup has ever written that forgot requests
  missed,   \* logs stored behind the watermark, or older than the backfill
  again     \* a shipment may have been repeated

ledger == <<waiting, reqs, usage, daily, dw, sure, spoilt>>
stream == <<asked, logs, facts, mark, missed, again>>
vars   == <<now, ledger, stream, retry, job, left>>

Monus(a, b) == IF a > b THEN a - b ELSE 0

Spend(what) == left[what] > 0 /\ left' = [left EXCEPT ![what] = @ - 1]

Nothing == [requests |-> {}, tokens |-> {}]

-----------------------------------------------------------------------------
(* A job is a list of tasks.                                               *)
Task(do, dim, since) == [do |-> do, dim |-> dim, since |-> since]
Rollup      == Task("rollup", "daily", 0)
Purge       == Task("purge", "daily", 0)
Sync(dim, day) == Task("sync", dim, day)
Facts       == Task("facts", "facts", 0)

Opening(task) == CASE task.do = "rollup" -> "count" [] task.do = "purge" -> "usage"
                   [] task.do = "sync"   -> "list"  [] task.do = "facts" -> "mark"

Idle == [pc |-> "idle", todo |-> <<>>, days |-> 0, began |-> 0, day |-> 0, sums |-> Nothing, hit |-> FALSE,
         seen |-> {}, cutoff |-> 0, copy |-> [d \in Days |-> Nothing], from |-> 0, fresh |-> FALSE, list |-> {}]

At(p, pc) == job[p].pc = pc
Current(p) == Head(job[p].todo)

Begin(p, tasks, days) ==
  /\ At(p, "idle")
  /\ job' = [job EXCEPT ![p] = [Idle EXCEPT !.pc = Opening(Head(tasks)), !.todo = tasks, !.days = days,
                                  !.began = now, !.day = Monus(Day(now), days),
                                  !.seen = IF p = "retention" THEN reqs ELSE {}]]
  /\ UNCHANGED <<now, ledger, stream, retry>>

(* The job goes on with its next task, if it has one.                      *)
Ended(j) == IF Len(j.todo) = 1 THEN Idle
            ELSE [Idle EXCEPT !.todo = Tail(j.todo), !.days = j.days, !.began = j.began,
                              !.pc = Opening(j.todo[2])]

End(p)      == job' = [job EXCEPT ![p] = Ended(@)]
Moves(p, pc) == job' = [job EXCEPT ![p].pc = pc]

(* RetentionWorker.runOnceWith and clickhouseSinkLoop.                     *)
RetentionPass == Begin("retention", <<Rollup, Purge>>, RollupDays) /\ UNCHANGED left
SinkCycle     == /\ Begin("sink", <<Rollup, Sync("daily", Monus(Day(now), SinkDays)), Facts>>, SinkDays)
                 /\ UNCHANGED left

(* What administrators post: sink, rollups, text2sql-fact, sink-retry, and *)
(* sink-retry of all dimensions.  The entries of the retry queue come in   *)
(* either order.                                                           *)
PostSink(a, n)   == Begin(a, <<Rollup, Sync("daily", Monus(Day(now), n))>>, n) /\ Spend("sinks")
PostRollup(a, n) == Begin(a, <<Rollup>>, n) /\ Spend("rollups")
PostFacts(a)     == Begin(a, <<Facts>>, 0) /\ Spend("ships")
PostRetryAll(a)  == Begin(a, <<Sync("daily", Monus(Day(now), SinkDays))>>, 0) /\ Spend("retries")
PostRetry(a) ==
  LET Entries == {Sync(dim, retry[dim]) : dim \in {d \in DOMAIN retry : retry[d] # None}} IN
  /\ Spend("retries")
  /\ \E order \in [1 .. Cardinality(Entries) -> Entries] :
       /\ Entries # {} /\ {order[i] : i \in DOMAIN order} = Entries
       /\ Begin(a, order, 0)

-----------------------------------------------------------------------------
RequestsOf_Local(d) == {t \in reqs : Day(t + 1) = d}

(* RollupRange: rollupDayDimension counts what request_logs has of a day,  *)
(* then writes the sums over the ones another session may have written     *)
(* since.  Nothing is written for a day without requests.                  *)
RequestsOf(d) == {t \in reqs : Day(t) = d}

LastOf(j) == j.day = Day(j.began)

Rolled(j) == IF LastOf(j) THEN Ended(j)
             ELSE [j EXCEPT !.pc = "count", !.day = @ + 1, !.sums = Nothing, !.hit = FALSE]

(* The retention worker has been through all its days.                     *)
Counted(p) ==
  sure' = IF p = "retention" /\ LastOf(job[p])
          THEN sure \cup {t \in job[p].seen : Day(t) >= Monus(Day(job[p].began), RollupDays)
                                              /\ Day(t) <= Day(job[p].began)}
          ELSE sure

Count_Deletes(p) ==
  /\ At(p, "count")
  /\ LET d == job[p].day  found == RequestsOf(d) IN
       IF found = {}
       THEN job' = [job EXCEPT ![p] = Rolled(@)] /\ Counted(p)
       ELSE /\ job' = [job EXCEPT ![p].pc = "upsert",
                                  ![p].sums = [requests |-> found, tokens |-> found \cap usage]]
            /\ UNCHANGED sure
  /\ daily' = [daily EXCEPT ![job[p].day] = Nothing]
  /\ UNCHANGED <<now, waiting, reqs, usage, dw, spoilt, stream, retry, left>>

Count(p) ==
  /\ At(p, "count")
  /\ LET d == job[p].day  found == RequestsOf(d) IN
       IF found = {}
       THEN job' = [job EXCEPT ![p] = Rolled(@)] /\ Counted(p)
       ELSE /\ job' = [job EXCEPT ![p].pc = "upsert",
                                  ![p].sums = [requests |-> found, tokens |-> found \cap usage]]
            /\ UNCHANGED sure
  /\ UNCHANGED <<now, waiting, reqs, usage, daily, dw, spoilt, stream, retry, left>>

Upsert(p) ==
  /\ At(p, "upsert")
  /\ LET d == job[p].day IN
       /\ daily' = [daily EXCEPT ![d] = job[p].sums]
       /\ spoilt' = IF daily[d].requests \subseteq job[p].sums.requests THEN spoilt ELSE spoilt \cup {d}
       /\ job' = [q \in Procs |-> IF q = p THEN Rolled(job[p])
                                  ELSE IF At(q, "upsert") /\ job[q].day = d
                                  THEN [job[q] EXCEPT !.hit = TRUE] ELSE job[q]]
  /\ Counted(p)
  /\ UNCHANGED <<now, waiting, reqs, usage, dw, stream, retry, left>>

(* The first statement that fails ends the rollup; whatever it was for goes*)
(* on.                                                                     *)
RollupFails(p) ==
  /\ At(p, "count") /\ Spend("faults")
  /\ End(p)
  /\ UNCHANGED <<now, ledger, stream, retry>>

-----------------------------------------------------------------------------
(* PurgeOlderThan("request_logs"): the children first, each table by a     *)
(* statement of its own.                                                   *)
Cutoff == Monus(now, RequestDays * PerDay)

PurgeUsage(p) ==
  /\ At(p, "usage")
  /\ usage' = usage \ {t \in reqs : t < Cutoff}
  /\ IF Cutoff = 0 THEN End(p) ELSE job' = [job EXCEPT ![p].pc = "rows", ![p].cutoff = Cutoff]
  /\ UNCHANGED <<now, waiting, reqs, daily, dw, sure, spoilt, stream, retry, left>>

PurgeRows(p) ==
  /\ At(p, "rows")
  /\ reqs' = {t \in reqs : t >= job[p].cutoff}
  /\ End(p)
  /\ UNCHANGED <<now, waiting, usage, daily, dw, sure, spoilt, stream, retry, left>>

PurgeFails(p) ==
  /\ At(p, "usage") \/ At(p, "rows")
  /\ Spend("faults") /\ End(p)
  /\ UNCHANGED <<now, ledger, stream, retry>>

-----------------------------------------------------------------------------
(* syncClickHouseDimension.  No sums of a day are kept under the name of   *)
(* the facts, but a retry may ask for them: nothing is sent, and that is a *)
(* success.  The query's LIMIT of 5000 rows, the newest first, is left out:*)
(* the dimension followed has one row a day.                               *)
Listed(task) == [d \in Days |-> IF task.dim = "daily" /\ d >= task.since THEN daily[d] ELSE Nothing]

List(p) ==
  /\ At(p, "list")
  /\ LET copy == Listed(Current(p)) IN
       job' = [job EXCEPT ![p].copy = copy, ![p].pc = IF copy = Idle.copy THEN "won" ELSE "send"]
  /\ UNCHANGED <<now, ledger, stream, retry, left>>

Land_Ignores(p) == dw' = [d \in Days |-> IF dw[d] = Nothing THEN job[p].copy[d] ELSE dw[d]]

Land(p) == dw' = [d \in Days |-> IF job[p].copy[d] = Nothing THEN dw[d] ELSE job[p].copy[d]]

Send(p) ==
  /\ At(p, "send")
  /\ Land(p)
  /\ job' = [job EXCEPT ![p].pc = "won", ![p].copy = Idle.copy]
  /\ UNCHANGED <<now, waiting, reqs, usage, daily, sure, spoilt, stream, retry, left>>

(* The list or the insert fails, or only the insert's reply is lost.       *)
SyncFails(p) ==
  /\ \/ At(p, "list") /\ UNCHANGED dw
     \/ At(p, "send") /\ (Land(p) \/ UNCHANGED dw)
  /\ Spend("faults")
  /\ job' = [job EXCEPT ![p].pc = "failed", ![p].copy = Idle.copy]
  /\ UNCHANGED <<now, waiting, reqs, usage, daily, sure, spoilt, stream, retry>>

-----------------------------------------------------------------------------
(* syncText2SQLFacts: the watermark, the logs after it, the insert.        *)
Shipping(q) == job[q].pc \in {"pick", "ship"} \/ (At(q, "won") /\ job[q].list # {})

(* Without a watermark, or when it cannot be read, the last days.          *)
ReadMark(p, known) ==
  /\ At(p, "mark")
  /\ job' = [job EXCEPT ![p].pc = "pick", ![p].fresh = ~known,
                        ![p].from = IF known THEN mark + 1 ELSE IF now < Backfill THEN 0 ELSE now - Backfill + 1]
  /\ again' = (again \/ (mark # None /\ ~known) \/ \E q \in Procs \ {p} : Shipping(q))
  /\ UNCHANGED <<now, ledger, asked, logs, facts, mark, missed, retry>>

Mark(p)      == ReadMark(p, mark # None) /\ UNCHANGED left
MarkFails(p) == ReadMark(p, FALSE) /\ Spend("faults")

After_Inclusive(from) == {t \in logs : t + 1 >= from}

(* ListText2SQLLogsSince: the oldest Limit of them.                        *)
After(from) == {t \in logs : t >= from}

Oldest_Newest(S) == {t \in S : Cardinality({u \in S : u > t}) < Limit}

Oldest(S) == {t \in S : Cardinality({u \in S : u < t}) < Limit}

Pick(p) ==
  /\ At(p, "pick")
  /\ LET found == Oldest(After(job[p].from)) IN
       IF found = {} THEN End(p)
       ELSE job' = [job EXCEPT ![p].pc = "ship", ![p].list = found]
  /\ missed' = IF job[p].fresh THEN missed \cup {t \in logs : t < job[p].from} ELSE missed
  /\ UNCHANGED <<now, ledger, asked, logs, facts, mark, again, retry, left>>

Arrived(S) == facts' = [t \in Slots |-> IF t \in S /\ facts[t] < 2 THEN facts[t] + 1 ELSE facts[t]]

Ship(p) ==
  /\ At(p, "ship")
  /\ Arrived(job[p].list) /\ Moves(p, "won")
  /\ UNCHANGED <<now, ledger, asked, logs, mark, missed, again, retry, left>>

FactsFail(p) ==
  /\ \/ At(p, "pick") /\ UNCHANGED <<facts, again>>
     \/ At(p, "ship") /\ UNCHANGED <<facts, again>>
     \/ At(p, "ship") /\ Arrived(job[p].list) /\ again' = TRUE
  /\ Spend("faults")
  /\ job' = [job EXCEPT ![p].pc = "failed", ![p].list = {}]
  /\ UNCHANGED <<now, ledger, asked, logs, mark, missed, retry>>

-----------------------------------------------------------------------------
Advance_Now(p) ==
  mark' = IF Current(p).do = "facts" THEN now
          ELSE IF Current(p).dim = "facts" THEN None ELSE mark

(* RecordClickHouseSinkSuccess and RecordClickHouseSinkFailure, whose      *)
(* errors are ignored.  The success of a day's sums is recorded under the  *)
(* day they began, which is no time stamp.                                 *)
Advance(p) ==
  IF Current(p).do = "facts"
  THEN \E t \in job[p].list : (\A u \in job[p].list : u <= t) /\ mark' = t
  ELSE mark' = IF Current(p).dim = "facts" THEN None ELSE mark

Won(p) ==
  /\ At(p, "won")
  /\ Advance(p)
  /\ again' = (again \/ (Current(p).do = "sync" /\ Current(p).dim = "facts"))
  /\ job' = [job EXCEPT ![p].pc = "clear", ![p].list = {}]
  /\ UNCHANGED <<now, ledger, asked, logs, facts, missed, retry, left>>

Clear(p) ==
  /\ At(p, "clear")
  /\ retry' = [retry EXCEPT ![Current(p).dim] = None]
  /\ End(p)
  /\ UNCHANGED <<now, ledger, stream, left>>

WinIsLost(p) ==
  /\ At(p, "won") \/ At(p, "clear")
  /\ Spend("faults") /\ End(p)
  /\ again' = (again \/ At(p, "won"))
  /\ UNCHANGED <<now, ledger, asked, logs, facts, mark, missed, retry>>

Failed_Stamp(p) ==
  /\ At(p, "failed")
  /\ retry' = [retry EXCEPT ![Current(p).dim] =
                 IF Current(p).do = "facts" THEN job[p].from ELSE Current(p).since]
  /\ End(p)
  /\ UNCHANGED <<now, ledger, stream, left>>

Failed(p) ==
  /\ At(p, "failed")
  /\ retry' = [retry EXCEPT ![Current(p).dim] =
                 IF Current(p).do = "facts" THEN Day(Monus(job[p].from, 1)) ELSE Current(p).since]
  /\ End(p)
  /\ UNCHANGED <<now, ledger, stream, left>>

FailureIsLost(p) ==
  /\ At(p, "failed") /\ Spend("faults") /\ End(p)
  /\ UNCHANGED <<now, ledger, stream, retry>>

-----------------------------------------------------------------------------
(* Requests and queries start now and are stored when they are answered.   *)
Request ==
  /\ now \notin waiting \cup reqs \cup sure /\ usage \cap {now} = {}
  /\ Spend("requests")
  /\ waiting' = waiting \cup {now}
  /\ UNCHANGED <<now, reqs, usage, daily, dw, sure, spoilt, stream, retry, job>>

StoreRequest(t) ==
  /\ t \in waiting
  /\ waiting' = waiting \ {t} /\ reqs' = reqs \cup {t} /\ usage' = usage \cup {t}
  /\ UNCHANGED <<now, daily, dw, sure, spoilt, stream, retry, job, left>>

Query ==
  /\ now \notin asked \cup logs
  /\ Spend("queries")
  /\ asked' = asked \cup {now}
  /\ UNCHANGED <<now, ledger, logs, facts, mark, missed, again, retry, job>>

(* InsertText2SQLLog.                                                      *)
Passed(t) == \/ mark # None /\ t <= mark
             \/ \E p \in Procs : (At(p, "pick") /\ t < job[p].from) \/ \E u \in job[p].list : t < u

StoreLog(t) ==
  /\ t \in asked
  /\ asked' = asked \ {t} /\ logs' = logs \cup {t}
  /\ missed' = IF Passed(t) THEN missed \cup {t} ELSE missed
  /\ UNCHANGED <<now, ledger, facts, mark, again, retry, job, left>>

Tick ==
  /\ now + 1 \in Slots
  /\ \A p \in Procs : job[p].todo # <<>> => job[p].began = now
  /\ now' = now + 1
  /\ UNCHANGED <<ledger, stream, retry, job, left>>

(* A worker or a request is cut off: the client goes, or a change of the   *)
(* settings or a new process replaces the worker.                          *)
Kill(p) ==
  /\ job[p].todo # <<>> /\ Spend("kills")
  /\ again' = (again \/ Shipping(p))
  /\ job' = [job EXCEPT ![p] = Idle]
  /\ UNCHANGED <<now, ledger, asked, logs, facts, mark, missed, retry>>

-----------------------------------------------------------------------------
Init ==
  /\ now = 0
  /\ waiting = {} /\ reqs = {} /\ usage = {} /\ sure = {} /\ spoilt = {}
  /\ daily = [d \in Days |-> Nothing] /\ dw = [d \in Days |-> Nothing]
  /\ asked = {} /\ logs = {} /\ missed = {} /\ again = FALSE
  /\ facts = [t \in Slots |-> 0]
  /\ mark = None /\ retry = [dim \in {"daily", "facts"} |-> None]
  /\ \E s \in Setups :
       /\ left = s.budget
       /\ job = [p \in Procs |-> IF p \in Admins \cup s.workers THEN Idle ELSE [Idle EXCEPT !.pc = "off"]]

Works(p) ==
  \/ Count(p) \/ Upsert(p) \/ PurgeUsage(p) \/ PurgeRows(p) \/ List(p) \/ Send(p)
  \/ Mark(p) \/ Pick(p) \/ Ship(p) \/ Won(p) \/ Clear(p) \/ Failed(p)

Fails(p) == \/ RollupFails(p) \/ PurgeFails(p) \/ SyncFails(p) \/ MarkFails(p) \/ FactsFail(p)
            \/ WinIsLost(p) \/ FailureIsLost(p) \/ Kill(p)

Post(a) == \/ \E n \in Wide : PostSink(a, n) \/ PostRollup(a, n)
           \/ PostFacts(a) \/ PostRetryAll(a) \/ PostRetry(a)

Next ==
  \/ Tick \/ Request \/ Query \/ RetentionPass \/ SinkCycle
  \/ \E t \in Slots : StoreRequest(t) \/ StoreLog(t)
  \/ \E p \in Procs : Works(p) \/ Fails(p)
  \/ \E a \in Admins : Post(a)

(* The tickers keep ticking, and what has begun ends.                      *)
Spec == /\ Init /\ [][Next]_vars
        /\ WF_vars(RetentionPass) /\ WF_vars(SinkCycle)
        /\ \A p \in Procs : WF_vars(Works(p))

-----------------------------------------------------------------------------
Sums == [requests: SUBSET Slots, tokens: SUBSET Slots]

Tasks == [do: {"rollup", "purge", "sync", "facts"}, dim: {"daily", "facts"}, since: Days]

Jobs == [pc: {"off", "idle", "count", "upsert", "usage", "rows", "list", "send", "mark", "pick", "ship",
              "won", "clear", "failed"},
         todo: Seq(Tasks), days: Nat, began: Slots, day: Days, sums: Sums, hit: BOOLEAN,
         seen: SUBSET Slots, cutoff: Slots, copy: [Days -> Sums], from: Nat, fresh: BOOLEAN,
         list: SUBSET Slots]

TypeOK ==
  /\ now \in Slots
  /\ {waiting, reqs, usage, asked, logs, sure, missed} \subseteq SUBSET Slots
  /\ spoilt \subseteq Days
  /\ daily \in [Days -> Sums] /\ dw \in [Days -> Sums]
  /\ facts \in [Slots -> 0 .. 2] /\ mark \in Slots \cup {None}
  /\ retry \in [{"daily", "facts"} -> Days \cup {None}]
  /\ job \in [Procs -> Jobs] /\ again \in BOOLEAN
  /\ left \in [Spendable -> Nat]

\* A day's sums forget a request, or its tokens, only where a rollup reaches
\* back to days retention is purging, or two rollups of the day overlap.
SumsSurvive ==
  [][\A d \in Days :
       \/ daily[d].requests \subseteq daily'[d].requests /\ daily[d].tokens \subseteq daily'[d].tokens
       \/ \E p \in Procs : At(p, "upsert") /\ job[p].day = d
                           /\ (job[p].hit \/ job[p].days + 1 >= RequestDays)]_vars

\* A request that was stored before the retention worker went over its day is
\* part of the day's sums, and stays so when its row is purged, but for a day
\* whose sums such a rollup has ever written, once being enough.
PurgedIsCounted ==
  \A t \in sure : t \in daily[Day(t)].requests \/ Day(t) \in spoilt

\* A day still inside both windows comes to have the same sums in the database
\* and in ClickHouse, and they count every request of it.
Settles ==
  At("sink", "off") \/ <>[](\A d \in Days :
         Day(now) <= d + SinkDays /\ d <= Day(now) => daily[d].requests = RequestsOf(d) /\ dw[d] = daily[d])

\* The watermark passes no log that was not shipped, but for one stored later
\* than a newer one was read, or older than the backfill.
NothingLeftBehind ==
  \A t \in logs : mark # None /\ t <= mark => facts[t] > 0 \/ t \in missed

\* A log is shipped once, unless a reply, a record or a watermark was lost, or
\* two shipments overlapped.
OnceEach == again \/ \A t \in Slots : facts[t] <= 1

\* Every log that was not left behind reaches ClickHouse.
Ships == At("sink", "off") \/ <>[](\A t \in logs : facts[t] > 0 \/ t \in missed)
=============================================================================
