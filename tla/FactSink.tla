------------------------------- MODULE FactSink -------------------------------
(***************************************************************************)
(* The facts shipped to ClickHouse request by request (internal/proxy/     *)
(* clickhouse_fact.go, internal/store/clickhouse_fact_retry.go): a bounded *)
(* queue of finished requests, a goroutine that ships them in batches, one *)
(* INSERT for each fact table, a goroutine for each single event, a table  *)
(* of failed batches and the requests of administrators that replay it.    *)
(*                                                                         *)
(* One server process is followed; replays may run on others, which share  *)
(* the table of failed batches.  An INSERT stores its whole batch or       *)
(* nothing.  Some fact tables merge the rows of one request later on, but  *)
(* their materialized views sum every row that ever arrived: what counts   *)
(* is how often ClickHouse got a row.                                      *)
(***************************************************************************)
EXTENDS Naturals, Sequences, FiniteSets, Functions

CONSTANTS
  Records,     \* requests; each is logged once
  Events,      \* feedback, policy decisions, skill runs
  LoopTables,  \* the fact tables of requests, in the order they are served
  EventTables, \* those of the events
  RowsOf,      \* the tables each record and each event has rows for
  Admins,      \* requests that replay failed batches
  QueueSize,   \* 10000
  BatchSize,   \* 200
  Confs,       \* the configurations there may be
  Budgets,     \* how many replays, changes, faults and deaths may happen: one of these
  None

Tables    == {LoopTables[i] : i \in DOMAIN LoopTables} \cup EventTables
Sources   == Records \cup Events
Spendable == {"replays", "changes", "faults", "deaths"}
Settings  == [url: BOOLEAN, tables: SUBSET Tables]

ASSUME SizesAssumption   == QueueSize \in Nat \ {0} /\ BatchSize \in Nat \ {0}
ASSUME TablesAssumption  ==   \* a flush serves each table once
  /\ LoopTables \in Seq(Tables)
  /\ \A i, j \in DOMAIN LoopTables : LoopTables[i] = LoopTables[j] => i = j
ASSUME RowsAssumption    ==
  /\ Records \cap Events = {} /\ RowsOf \in [Sources -> SUBSET Tables]
  /\ \A r \in Records : RowsOf[r] \cap EventTables = {}
  /\ \A e \in Events : \E t \in EventTables : RowsOf[e] = {t}
ASSUME ConfsAssumption   == Confs \subseteq Settings
ASSUME BudgetsAssumption == Budgets \subseteq [Spendable -> Nat]

Facts   == Tables \X Sources
Batches == [table: Tables, rows: SUBSET Sources]
ASSUME NoneAssumption == None \notin Batches

VARIABLES
  conf,     \* chConf, as the process sees it
  queue,    \* chFactQueue
  dropped,  \* the records that chFactDropped counts
  buf,      \* the records the loop has taken
  loop,     \* clickhouseFactLoop
  post,     \* the goroutine of each event
  failed,   \* clickhouse_fact_retry
  replay,   \* the requests that replay it
  dw,       \* how often ClickHouse got each row, up to twice
  left,     \* what is left of the budget
  (* history *)
  ended,    \* records and events so far
  unset,    \* rows whose table was not configured at some time before they were shipped
  lost,     \* rows that a death or a failed write of clickhouse_fact_retry cost
  again     \* rows whose batch was shipped and may be shipped once more

process == <<queue, dropped, buf, loop, post>>
history == <<ended, unset, lost, again>>
vars    == <<conf, process, failed, replay, dw, left, history>>

Spend(what) == left[what] > 0 /\ left' = [left EXCEPT ![what] = @ - 1]

RowsFor(sources) == {f \in Facts : f[2] \in sources /\ f[1] \in RowsOf[f[2]]}
Of(b)            == {b.table} \X b.rows
Queued           == Range(queue)

Unset(c, sources) == {f \in RowsFor(sources) : ~c.url \/ f[1] \notin c.tables}

(* An INSERT arrives.                                                      *)
Arrives(b) == dw' = [f \in Facts |-> IF f \in Of(b) /\ dw[f] < 2 THEN dw[f] + 1 ELSE dw[f]]

-----------------------------------------------------------------------------
(* anyFactTableConfigured, and enqueueClickHouseFact: nobody waits.        *)
Enabled == conf.url /\ \E i \in DOMAIN LoopTables : LoopTables[i] \in conf.tables

Enqueue(r) ==
  /\ r \in Records \ ended
  /\ \/ Enabled /\ Len(queue) < QueueSize /\ queue' = Append(queue, r) /\ UNCHANGED dropped
     \/ Enabled /\ Len(queue) = QueueSize /\ dropped' = dropped \cup {r} /\ UNCHANGED queue
     \/ ~Enabled /\ UNCHANGED <<queue, dropped>>
  /\ ended' = ended \cup {r}
  /\ unset' = unset \cup Unset(conf, {r})
  /\ UNCHANGED <<conf, buf, loop, post, failed, replay, dw, left, lost, again>>

Waiting  == [pc |-> "wait", at |-> 1, tables |-> {}]
In(pc)   == loop.pc = pc

(* A flush reads the configuration once.                                   *)
Flush(taken) ==
  IF conf.url THEN /\ buf' = taken
                   /\ loop' = [pc |-> "sink", at |-> 1, tables |-> conf.tables]
              ELSE buf' = {} /\ loop' = Waiting

Receive ==
  /\ In("wait") /\ queue # <<>>
  /\ queue' = Tail(queue)
  /\ LET taken == buf \cup {Head(queue)} IN
       IF Cardinality(taken) >= BatchSize THEN Flush(taken) ELSE buf' = taken /\ UNCHANGED loop
  /\ UNCHANGED <<conf, dropped, post, failed, replay, dw, left, history>>

Tick_FullOnly ==
  /\ In("wait") /\ Cardinality(buf) >= BatchSize
  /\ Flush(buf)
  /\ UNCHANGED <<conf, queue, dropped, post, failed, replay, dw, left, history>>

Tick ==
  /\ In("wait") /\ buf # {}
  /\ Flush(buf)
  /\ UNCHANGED <<conf, queue, dropped, post, failed, replay, dw, left, history>>

(* What the next table gets.                                               *)
More    == loop.at \in DOMAIN LoopTables
Table   == LoopTables[loop.at]
Current == [table |-> Table, rows |-> IF Table \in loop.tables THEN {r \in buf : Table \in RowsOf[r]} ELSE {}]

Onward_Stops == loop' = [loop EXCEPT !.pc = "sink", !.at = Len(LoopTables) + 1]

Onward == loop' = [loop EXCEPT !.pc = "sink", !.at = @ + 1]

Skip ==
  /\ In("sink") /\ More /\ Current.rows = {}
  /\ loop' = [loop EXCEPT !.at = @ + 1]
  /\ UNCHANGED <<conf, queue, dropped, buf, post, failed, replay, dw, left, history>>

Insert ==
  /\ In("sink") /\ More /\ Current.rows # {}
  /\ Arrives(Current)
  /\ loop' = [loop EXCEPT !.at = @ + 1]
  /\ UNCHANGED <<conf, queue, dropped, buf, post, failed, replay, left, history>>

(* It fails, or only its reply is lost.                                    *)
InsertFails ==
  /\ In("sink") /\ More /\ Current.rows # {} /\ Spend("faults")
  /\ \/ UNCHANGED <<dw, again>>
     \/ Arrives(Current) /\ again' = again \cup Of(Current)
  /\ loop' = [loop EXCEPT !.pc = "park"]
  /\ UNCHANGED <<conf, queue, dropped, buf, post, failed, replay, ended, unset, lost>>

(* RecordClickHouseFactRetry, whose error is ignored: one bad table does   *)
(* not lose the others.                                                    *)
Park ==
  /\ In("park")
  /\ failed' = failed \cup {Current}
  /\ Onward
  /\ UNCHANGED <<conf, queue, dropped, buf, post, replay, dw, left, history>>

ParkFails ==
  /\ In("park") /\ Spend("faults")
  /\ lost' = lost \cup Of(Current)
  /\ Onward
  /\ UNCHANGED <<conf, queue, dropped, buf, post, failed, replay, dw, ended, unset, again>>

FlushEnds_Keeps ==
  /\ In("sink") /\ ~More
  /\ loop' = Waiting
  /\ UNCHANGED <<conf, queue, dropped, buf, post, failed, replay, dw, left, history>>

FlushEnds ==
  /\ In("sink") /\ ~More
  /\ buf' = {} /\ loop' = Waiting
  /\ UNCHANGED <<conf, queue, dropped, post, failed, replay, dw, left, history>>

-----------------------------------------------------------------------------
(* emitPolicyFacts, emitFeedbackFact, emitSkillFact: a goroutine ships the *)
(* event, unless its table is not configured.                              *)
EventTable(e) == CHOOSE t \in EventTables : t \in RowsOf[e]
EventBatch(e) == [table |-> EventTable(e), rows |-> {e}]

Moves(e, pc) == post' = [post EXCEPT ![e] = pc]

Emit(e) ==
  /\ e \in Events \ ended
  /\ ended' = ended \cup {e}
  /\ unset' = unset \cup Unset(conf, {e})
  /\ IF conf.url /\ EventTable(e) \in conf.tables THEN Moves(e, "send") ELSE UNCHANGED post
  /\ UNCHANGED <<conf, queue, dropped, buf, loop, failed, replay, dw, left, lost, again>>

EventSent(e) ==
  /\ post[e] = "send"
  /\ Arrives(EventBatch(e)) /\ Moves(e, "idle")
  /\ UNCHANGED <<conf, queue, dropped, buf, loop, failed, replay, left, history>>

EventFails(e) ==
  /\ post[e] = "send" /\ Spend("faults")
  /\ \/ UNCHANGED <<dw, again>>
     \/ Arrives(EventBatch(e)) /\ again' = again \cup Of(EventBatch(e))
  /\ Moves(e, "park")
  /\ UNCHANGED <<conf, queue, dropped, buf, loop, failed, replay, ended, unset, lost>>

EventParked(e) ==
  /\ post[e] = "park"
  /\ failed' = failed \cup {EventBatch(e)}
  /\ Moves(e, "idle")
  /\ UNCHANGED <<conf, queue, dropped, buf, loop, replay, dw, left, history>>

EventLost(e) ==
  /\ post[e] = "park" /\ Spend("faults")
  /\ lost' = lost \cup Of(EventBatch(e))
  /\ Moves(e, "idle")
  /\ UNCHANGED <<conf, queue, dropped, buf, loop, failed, replay, dw, ended, unset, again>>

-----------------------------------------------------------------------------
(* handleClickHouseFactRetry: the batches it lists, up to 500, of all      *)
(* tables or of one, are sent again one after the other.                   *)
Idle == [todo |-> {}, sent |-> None]

Busy(a, b) == b \in replay[a].todo \/ b = replay[a].sent

List(a, tables) ==
  /\ conf.url /\ replay[a] = Idle /\ Spend("replays")
  /\ LET listed == {b \in failed : b.table \in tables} IN
       /\ listed # {}
       /\ replay' = [replay EXCEPT ![a].todo = listed]
       /\ again' = again \cup UNION {Of(b) : b \in {x \in listed : \E o \in Admins \ {a} : Busy(o, x)}}
  /\ UNCHANGED <<conf, process, failed, dw, ended, unset, lost>>

Resend(a, b) ==
  /\ b \in replay[a].todo /\ replay[a].sent = None
  /\ Arrives(b)
  /\ replay' = [replay EXCEPT ![a] = [todo |-> @.todo \ {b}, sent |-> b]]
  /\ UNCHANGED <<conf, process, failed, left, history>>

(* A batch that fails stays in the table.                                  *)
ResendFails(a, b) ==
  /\ b \in replay[a].todo /\ replay[a].sent = None /\ Spend("faults")
  /\ \/ UNCHANGED <<dw, again>>
     \/ Arrives(b) /\ again' = again \cup Of(b)
  /\ replay' = [replay EXCEPT ![a].todo = @ \ {b}]
  /\ UNCHANGED <<conf, process, failed, ended, unset, lost>>

(* DeleteClickHouseFactRetry, whose error is ignored.                      *)
Forget(a) ==
  /\ replay[a].sent # None
  /\ failed' = failed \ {replay[a].sent}
  /\ replay' = [replay EXCEPT ![a].sent = None]
  /\ UNCHANGED <<conf, process, dw, left, history>>

ForgetFails(a) ==
  /\ replay[a].sent # None /\ Spend("faults")
  /\ again' = again \cup Of(replay[a].sent)
  /\ replay' = [replay EXCEPT ![a].sent = None]
  /\ UNCHANGED <<conf, process, failed, dw, ended, unset, lost>>

(* The administrator's client leaves, or the server it talks to ends.      *)
ReplayEnds(a) ==
  /\ replay[a] # Idle /\ Spend("faults")
  /\ again' = IF replay[a].sent # None THEN again \cup Of(replay[a].sent) ELSE again
  /\ replay' = [replay EXCEPT ![a] = Idle]
  /\ UNCHANGED <<conf, process, failed, dw, ended, unset, lost>>

-----------------------------------------------------------------------------
(* A reload of the runtime settings.                                       *)
Configure(c) ==
  /\ c # conf /\ Spend("changes")
  /\ conf' = c
  /\ unset' = unset \cup Unset(c, Queued \cup IF In("wait") THEN buf ELSE {})
  /\ UNCHANGED <<process, failed, replay, dw, ended, lost, again>>

(* The process ends, in good order or not: the loop's context is never     *)
(* cancelled and nobody waits for the queue to drain.                      *)
Die ==
  /\ Spend("deaths")
  /\ lost' = lost \cup RowsFor(Queued \cup buf \cup dropped \cup {e \in Events : post[e] # "idle"})
  /\ queue' = <<>> /\ dropped' = {} /\ buf' = {} /\ loop' = Waiting
  /\ post' = [e \in Events |-> "idle"]
  /\ UNCHANGED <<conf, failed, replay, dw, ended, unset, again>>

-----------------------------------------------------------------------------
Init ==
  /\ conf \in Confs
  /\ queue = <<>> /\ dropped = {} /\ buf = {} /\ loop = Waiting
  /\ post = [e \in Events |-> "idle"]
  /\ failed = {} /\ replay = [a \in Admins |-> Idle]
  /\ dw = [f \in Facts |-> 0]
  /\ left \in Budgets
  /\ ended = {} /\ unset = {} /\ lost = {} /\ again = {}

Looping == Receive \/ Tick \/ Skip \/ Insert \/ Park \/ FlushEnds

Ships(e) == EventSent(e) \/ EventParked(e)

Replays(a) ==
  \/ List(a, Tables) \/ \E t \in Tables : List(a, {t})
  \/ \E b \in replay[a].todo : Resend(a, b) \/ ResendFails(a, b)
  \/ Forget(a) \/ ForgetFails(a) \/ ReplayEnds(a)

Next ==
  \/ \E r \in Records : Enqueue(r)
  \/ Looping \/ InsertFails \/ ParkFails
  \/ \E e \in Events : Emit(e) \/ Ships(e) \/ EventFails(e) \/ EventLost(e)
  \/ \E a \in Admins : Replays(a)
  \/ \E c \in Confs : Configure(c)
  \/ Die

(* Goroutines run, and the loop's ticker ticks.                            *)
Spec == Init /\ [][Next]_vars /\ WF_vars(Looping) /\ \A e \in Events : WF_vars(Ships(e))

-----------------------------------------------------------------------------
TypeOK ==
  /\ conf \in Settings
  /\ queue \in Seq(Records) /\ Len(queue) <= QueueSize
  /\ dropped \subseteq Records /\ buf \subseteq Records
  /\ loop \in [pc: {"wait", "sink", "park"}, at: 1 .. Len(LoopTables) + 1, tables: SUBSET Tables]
  /\ In("park") => More
  /\ post \in [Events -> {"idle", "send", "park"}]
  /\ failed \subseteq Batches
  /\ replay \in [Admins -> [todo: SUBSET Batches, sent: Batches \cup {None}]]
  /\ dw \in [Facts -> 0 .. 2]
  /\ left \in [Spendable -> Nat]
  /\ ended \subseteq Sources
  /\ unset \subseteq Facts /\ lost \subseteq Facts /\ again \subseteq Facts

Underway(s) == s \in Queued \cup buf \/ (s \in Events /\ post[s] # "idle")

\* Every row of every request and event is in ClickHouse, waits to be replayed,
\* is on its way, or belongs to a request that was dropped and counted: it is
\* not forgotten because of another table's failure, a failed replay or two
\* replays at once, but only if its table was not configured meanwhile, the
\* process ended, or the write that should have kept it failed.
Accounted ==
  \A f \in RowsFor(ended) \ (unset \cup lost) :
    \/ dw[f] > 0 \/ \E b \in failed : f \in Of(b)
    \/ f[2] \in dropped \/ Underway(f[2])

\* ClickHouse gets a row once, so that the views that sum rows are right, unless
\* a reply was lost, two replays met, or one could not forget what it had sent.
OnceEach == \A f \in Facts \ again : dw[f] <= 1

\* A request that was queued is shipped or put aside in the end even if no other
\* one follows to fill the batch, and so is an event.
Shipped == \A s \in Sources : Underway(s) ~> ~Underway(s)
=============================================================================
