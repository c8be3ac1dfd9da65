--------------------------- MODULE AgentCollector ---------------------------
(***************************************************************************)
(* The in-cluster collector agent (internal/agent/runner.go), for one      *)
(* watched kind, with the server handler that applies its batches          *)
(* (internal/collector/agent.go).                                          *)
(*                                                                         *)
(* The watch loop lists or watches the Kubernetes API and puts events in a *)
(* bounded channel; it saves the resourceVersion of an event BEFORE it     *)
(* enqueues it.  The flush loop gathers events into batches and posts      *)
(* them; a batch that cannot be posted goes to the offline queue file,     *)
(* which every flush tries to send first.  The server records the key of   *)
(* each event and applies the event to its inventory only if the key is    *)
(* new; the two are separate statements.                                   *)
(*                                                                         *)
(* Abstractions.  Kubernetes is a log of writes: resourceVersion i is the  *)
(* i-th write, objects are numbered in the order a list returns them, and  *)
(* Other stands for the kinds this watch does not see.  A list is one      *)
(* page.  The key of an event is the event: cluster and agent id are       *)
(* those of this pod.  A line of the queue file is a batch, or <<>> when   *)
(* nothing can be read from it: a write cut it short, or the next batch was*)
(* appended to a line without its newline.                                 *)
(***************************************************************************)
EXTENDS Naturals, Sequences, FiniteSets, Functions

CONSTANTS
  Objects,         \* objects of the kind, in list order
  Other,           \* an object of some other kind
  QueueSize,       \* capacity of Runner.events (CLUSTARA_AGENT_QUEUE_SIZE)
  MaxBatch,        \* cfg.MaxBatchSize
  MaxWrites,       \* bound on the cluster's log
  Budgets          \* bounds on the faults of each sort, one for each scenario

(* An etcd compaction; a failed list, post or file write; a server error   *)
(* between an event's two statements; a stop, crash or pod replacement.    *)
Faults  == {"compaction", "error", "torn", "death"}

ASSUME ObjectsAssumption == Objects \subseteq Nat \ {0} /\ IsFiniteSet(Objects)
                            /\ Other \notin Objects
ASSUME QueueAssumption == QueueSize \in Nat \ {0} /\ MaxBatch \in Nat \ {0}
ASSUME BoundsAssumption == MaxWrites \in Nat /\ Budgets \subseteq [Faults -> Nat]

VARIABLES
  log, live,       \* Kubernetes: all writes; rv of each live object, else 0
  compacted,       \* oldest resourceVersion a watch can start from
  alive,           \* the agent's process
  ckpt,            \* stateStore: resourceVersion of the kind, 0 for none
  wl, todo, lastRV,   \* watchLoop: where it is; listCurrent's loop
  ch, pending,     \* Runner.events, flushLoop's pending
  fpc, batch, pos, \* flushEvents: where it is, its batch, events applied
  queue, open,     \* offline queue file: its lines; the last one has no newline
  replayed,        \* replayQueued's progress
  keys, inventory, \* server: k8s_watch_events; rv of each k8s_inventory row
  base, snap,      \* history: lastRV and cluster rv of the last list
  missed, blurred, \* history: events no longer anywhere; objects a list or error blurred
  budget           \* history: faults of each sort left

cluster == <<log, live, compacted>>
watcher == <<ckpt, wl, todo, lastRV>>
flusher == <<pending, fpc, batch, pos, replayed>>
server  == <<keys, inventory>>
history == <<base, snap, missed, blurred>>
vars == <<cluster, alive, watcher, ch, flusher, queue, open, server, history, budget>>

Types  == {"ADDED", "MODIFIED", "DELETED"}
Entry  == [rv : Nat, type : Types, obj : Objects \cup {Other}]
Event  == [rv : Nat, type : Types, obj : Objects]
Relevant(p) == log[p].obj \in Objects
Hand    == IF wl = "send" THEN {log[ckpt]} ELSE {}
Batched(q) == UNION {Range(q[i]) : i \in DOMAIN q}
Queued  == Batched(queue)
Memory  == Range(ch) \cup Range(pending) \cup Range(batch) \cup Hand
Spend(f) == budget[f] > 0 /\ budget' = [budget EXCEPT ![f] = @ - 1]

ClusterType ==
  /\ log \in Seq(Entry)
  /\ live \in [Objects -> 0..Len(log)] /\ compacted \in 0..Len(log)
WatcherType ==
  /\ ckpt \in 0..Len(log) /\ lastRV \in 0..Len(log)
  /\ wl \in {"top", "list", "watch", "send"} /\ todo \in Seq(Event)
  /\ ch \in Seq(Event) /\ Len(ch) <= QueueSize
FlusherType ==
  /\ pending \in Seq(Event) /\ Len(pending) < MaxBatch
  /\ batch \in Seq(Event) /\ Len(batch) <= MaxBatch
  /\ fpc \in {"idle", "replay", "clear", "rewrite", "post", "spool"}
  /\ queue \in Seq(Seq(Event)) /\ open \in BOOLEAN /\ replayed \in 0..Len(queue) /\ pos \in Nat
ServerType ==
  keys \in SUBSET Event /\ inventory \in [Objects -> Nat]
HistoryType ==
  /\ alive \in {"up", "stopping", "final", "down"}
  /\ base \in 0..Len(log) /\ snap \in 0..Len(log)
  /\ missed \in SUBSET Event /\ blurred \in SUBSET Objects
BudgetType == budget \in [Faults -> Nat]
TypeOK == ClusterType /\ WatcherType /\ FlusherType /\ ServerType /\ HistoryType
          /\ BudgetType

Init ==   \* one object exists when the agent is first started
  \E o \in Objects :
    /\ log = << [rv |-> 1, type |-> "ADDED", obj |-> o] >>
    /\ live = [x \in Objects |-> IF x = o THEN 1 ELSE 0]
    /\ compacted = 0 /\ alive = "up" /\ ckpt = 0 /\ wl = "top" /\ todo = <<>>
    /\ lastRV = 0 /\ ch = <<>> /\ pending = <<>> /\ fpc = "idle" /\ batch = <<>>
    /\ pos = 0 /\ queue = <<>> /\ open = FALSE /\ replayed = 0 /\ keys = {}
    /\ inventory = [x \in Objects |-> 0]
    /\ base = 0 /\ snap = 0 /\ missed = {} /\ blurred = {}
    /\ budget \in Budgets

(***************************************************************************)
(* The Kubernetes API server.                                              *)
(***************************************************************************)
Write(o, type) ==
  /\ Len(log) < MaxWrites
  /\ o \in Objects => (type = "ADDED") = (live[o] = 0)
  /\ log' = Append(log, [rv |-> Len(log) + 1, type |-> type, obj |-> o])
  /\ live' = IF o \in Objects
             THEN [live EXCEPT ![o] = IF type = "DELETED" THEN 0 ELSE Len(log) + 1]
             ELSE live
  /\ UNCHANGED <<compacted, alive, watcher, ch, flusher, queue, open, server, history, budget>>

KubernetesWrite ==
  \/ \E o \in Objects, t \in Types : Write(o, t)
  \/ Write(Other, "MODIFIED")

Compact ==
  /\ compacted < Len(log) /\ Spend("compaction")
  /\ compacted' \in (compacted + 1)..Len(log)
  /\ UNCHANGED <<log, live, alive, watcher, ch, flusher, queue, open, server, history>>

(***************************************************************************)
(* watchLoop.  Without a saved version it lists, else it watches.          *)
(***************************************************************************)
Exists == {o \in Objects : live[o] > 0}
Orders ==   \* the one way to list the objects that exist by name
  {f \in [1..Cardinality(Exists) -> Exists] : \A i, j \in DOMAIN f : i < j => f[i] < f[j]}
Listing(f) ==   \* an ADDED event for each item
  [i \in DOMAIN f |-> [rv |-> live[f[i]], type |-> "ADDED", obj |-> f[i]]]

LastRV(items) ==   \* the version of the last item overrides the list's own
  IF items = <<>> THEN Len(log) ELSE items[Len(items)].rv

Known == keys \cup Memory \cup Queued

\* The ways a list leaves the inventory wrong: an object deleted since it was
\* last seen (no list item says so); one whose latest event the watch will
\* deliver as a duplicate after older ones; and one whose list item is a
\* duplicate of an earlier list's although the row is, or will be, older.
Vanished == {o \in Objects : live[o] = 0 /\ (inventory[o] > 0
               \/ \E e \in Memory \cup Queued : e.obj = o)}
Rewound(from) == {o \in Objects : \E p, q \in (from + 1)..Len(log) :
  /\ q < p /\ log[p].obj = o /\ log[q].obj = o
  /\ \A r \in (p + 1)..Len(log) : log[r].obj # o
  /\ log[p].type = "ADDED" \/ log[p] \in Known}
Repeated == {o \in Objects : live[o] > 0 /\
  LET item == [rv |-> live[o], type |-> "ADDED", obj |-> o]
  IN \/ item \in keys /\ inventory[o] # live[o]
     \/ /\ item \in Known
        /\ \E e \in Memory \cup Queued : e.obj = o /\ e.rv < live[o]}

List ==
  /\ alive = "up" /\ wl = "top" /\ ckpt = 0
  /\ \E f \in Orders : todo' = Listing(f)
  /\ wl' = "list" /\ lastRV' = LastRV(todo')
  /\ base' = 0 /\ snap' = Len(log)
  /\ blurred' = blurred \cup Vanished \cup Repeated \cup Rewound(lastRV')
  /\ UNCHANGED <<cluster, alive, ckpt, ch, flusher, queue, open, server, missed, budget>>

ListEnqueue ==
  /\ alive # "down" /\ wl = "list" /\ todo # <<>> /\ Len(ch) < QueueSize
  /\ ch' = Append(ch, Head(todo)) /\ todo' = Tail(todo)
  /\ UNCHANGED <<cluster, alive, ckpt, wl, lastRV, flusher, queue, open, server, history, budget>>

ListFail ==   \* a later page fails: nothing is saved, the loop lists again
  /\ alive # "down" /\ wl = "list" /\ Spend("error")
  /\ wl' = "top" /\ todo' = <<>>
  /\ UNCHANGED <<cluster, alive, ckpt, lastRV, ch, flusher, queue, open, server, history>>

SavedRV_Now == Len(log)
SavedRV == lastRV

ListDone ==
  /\ alive # "down" /\ wl = "list" /\ todo = <<>>
  /\ ckpt' = SavedRV /\ base' = lastRV /\ wl' = "top"
  /\ UNCHANGED <<cluster, alive, todo, lastRV, ch, flusher, queue, open, server,
                 snap, missed, blurred, budget>>

Connect ==
  /\ alive = "up" /\ wl = "top" /\ ckpt # 0 /\ ckpt >= compacted
  /\ wl' = "watch"
  /\ UNCHANGED <<cluster, alive, ckpt, todo, lastRV, ch, flusher, queue, open, server,
                 history, budget>>

Expired ==   \* 410 Gone: the saved version is cleared, the next turn lists
  /\ alive = "up" /\ wl = "top" /\ ckpt # 0 /\ ckpt < compacted
  /\ ckpt' = 0
  /\ UNCHANGED <<cluster, alive, wl, todo, lastRV, ch, flusher, queue, open, server,
                 history, budget>>

Disconnect ==   \* the watch times out or breaks
  /\ alive # "down" /\ wl = "watch" /\ wl' = "top"
  /\ UNCHANGED <<cluster, alive, ckpt, todo, lastRV, ch, flusher, queue, open, server,
                 history, budget>>

NextEvents == {p \in (ckpt + 1)..Len(log) : Relevant(p)}

WatchRead ==   \* the event's version is saved, then the event is enqueued
  /\ alive # "down" /\ wl = "watch"
  /\ \E p \in NextEvents : /\ \A q \in NextEvents : p <= q
                           /\ ckpt' = p
  /\ wl' = "send"
  /\ UNCHANGED <<cluster, alive, todo, lastRV, ch, flusher, queue, open, server,
                 history, budget>>

Bookmark ==
  /\ alive # "down" /\ wl = "watch" /\ NextEvents = {} /\ ckpt < Len(log)
  /\ ckpt' = Len(log)
  /\ UNCHANGED <<cluster, alive, wl, todo, lastRV, ch, flusher, queue, open, server,
                 history, budget>>

Send ==
  /\ alive # "down" /\ wl = "send" /\ Len(ch) < QueueSize
  /\ ch' = Append(ch, log[ckpt]) /\ wl' = "watch"
  /\ UNCHANGED <<cluster, alive, ckpt, todo, lastRV, flusher, queue, open, server,
                 history, budget>>

(***************************************************************************)
(* flushLoop and flushEvents: the offline queue first, then the new batch. *)
(***************************************************************************)
Flush(events) ==
  /\ batch' = events /\ pending' = <<>> /\ pos' = 0 /\ replayed' = 0
  /\ fpc' = IF queue = <<>> THEN "post" ELSE "replay"

Full(events) == Len(events) >= MaxBatch

Receive ==
  /\ alive \in {"up", "stopping"} /\ fpc = "idle" /\ ch # <<>>
  /\ ch' = Tail(ch)
  /\ LET got == Append(pending, Head(ch))
     IN IF Full(got) THEN Flush(got)
        ELSE pending' = got /\ UNCHANGED <<fpc, batch, pos, replayed>>
  /\ UNCHANGED <<cluster, alive, watcher, queue, open, server, history, budget>>

Due_EventsOnly == pending # <<>>
Due == pending # <<>> \/ queue # <<>>

Tick ==   \* the batch or heartbeat ticker; an empty flush replays the queue
  /\ alive \in {"up", "stopping"} /\ fpc = "idle"
  /\ Due
  /\ Flush(pending)
  /\ UNCHANGED <<cluster, alive, watcher, ch, queue, open, server, history, budget>>

Posting == fpc \in {"post", "replay"} /\ alive # "down"
Sending == IF fpc = "replay" THEN queue[replayed + 1] ELSE batch

Apply ==   \* ApplyAgentBatch handles one event of the posted batch
  /\ Posting /\ pos < Len(Sending) /\ pos' = pos + 1
  /\ LET e == Sending[pos + 1]
     IN /\ keys' = keys \cup {e}
        /\ inventory' = IF e \in keys THEN inventory
                        ELSE [inventory EXCEPT ![e.obj] =
                                IF e.type = "DELETED" THEN 0 ELSE e.rv]
  /\ UNCHANGED <<cluster, alive, watcher, ch, pending, fpc, batch, replayed,
                 queue, open, history, budget>>

AfterError_PostAnyway == IF fpc = "replay" THEN "post" ELSE "spool"
AfterError == IF fpc = "replay" THEN "rewrite" ELSE "spool"

ApplyTorn ==   \* the key is stored, the inventory statement fails: status 400
  /\ Posting /\ pos < Len(Sending) /\ Sending[pos + 1] \notin keys
  /\ Spend("torn")
  /\ keys' = keys \cup {Sending[pos + 1]}
  /\ blurred' = blurred \cup {Sending[pos + 1].obj}
  /\ fpc' = AfterError
  /\ UNCHANGED <<cluster, alive, watcher, ch, pending, batch, pos, replayed,
                 queue, open, inventory, base, snap, missed>>

PostError ==   \* no connection, a timeout, an error status or a lost reply
  /\ Posting /\ (fpc = "replay" => Sending # <<>>)
  /\ IF alive = "stopping" THEN UNCHANGED budget ELSE Spend("error")
  /\ fpc' = AfterError
  /\ UNCHANGED <<cluster, alive, watcher, ch, pending, batch, pos, replayed,
                 queue, open, server, history>>

PostOK ==   \* or an unreadable line, which replayQueued drops without a post
  /\ Posting /\ pos = Len(Sending) /\ pos' = 0
  /\ \/ /\ fpc = "post" /\ fpc' = "idle" /\ batch' = <<>> /\ UNCHANGED replayed
     \/ /\ fpc = "replay" /\ replayed' = replayed + 1 /\ UNCHANGED batch
        /\ fpc' = IF replayed' = Len(queue) THEN "clear" ELSE "replay"
  /\ UNCHANGED <<cluster, alive, watcher, ch, pending, queue, open, server, history, budget>>

ClearQueue ==   \* all batches were sent: remove the file, post the new batch
  /\ alive # "down" /\ fpc = "clear"
  /\ \/ queue' = <<>> /\ open' = FALSE /\ replayed' = 0 /\ fpc' = "post" /\ UNCHANGED budget
     \/ fpc' = "spool" /\ Spend("error") /\ UNCHANGED <<queue, open, replayed>>
  /\ UNCHANGED <<cluster, alive, watcher, ch, pending, batch, pos, server, history>>

Remaining_OffByOne == SubSeq(queue, replayed + 2, Len(queue))
Remaining == SubSeq(queue, replayed + 1, Len(queue))
\* Those that are neither in the queue q nor known to the server.
Lost(events, q) == {e \in events : e \notin Batched(q) \cup keys}

Rewritten == queue' = Remaining /\ open' = FALSE

RewriteCut ==   \* os.WriteFile truncates the file, then writes the lines, or part of them
  \/ UNCHANGED <<queue, open>>
  \/ \E n \in 0..Len(Remaining) :
       LET whole == SubSeq(Remaining, 1, n)
       IN \/ queue' = whole /\ open' \in BOOLEAN /\ (open' => n > 0)
          \/ n < Len(Remaining) /\ queue' = Append(whole, <<>>) /\ open' = TRUE

Rewrite ==
  /\ alive # "down" /\ fpc = "rewrite"
  /\ fpc' = "spool" /\ replayed' = 0
  /\ \/ Rewritten /\ UNCHANGED <<missed, budget>>
     \/ RewriteCut /\ Spend("error") /\ missed' = missed \cup Lost(Queued, queue')
  /\ UNCHANGED <<cluster, alive, watcher, ch, pending, batch, pos, server,
                 base, snap, blurred>>

\* The file with a line more.  If the last one has no newline, the two are one
\* line, which replayQueued cannot parse and drops.
Joined(line) == IF open THEN [queue EXCEPT ![Len(queue)] = <<>>] ELSE Append(queue, line)

AppendCut ==   \* nothing is written, part of the line, or all but its newline
  \/ UNCHANGED <<queue, open>>
  \/ open' = TRUE /\ queue' \in {Joined(<<>>), Joined(batch)}

Spool ==
  /\ alive # "down" /\ fpc = "spool"
  /\ fpc' = "idle" /\ batch' = <<>> /\ pos' = 0 /\ replayed' = 0
  /\ \/ batch = <<>> /\ UNCHANGED <<queue, open, missed, budget>>
     \/ /\ batch # <<>> /\ queue' = Joined(batch) /\ open' = FALSE /\ UNCHANGED budget
        /\ missed' = missed \cup IF open THEN Lost(Queued \cup Range(batch), queue') ELSE {}
     \/ /\ batch # <<>> /\ AppendCut /\ Spend("error")
        /\ missed' = missed \cup Lost(Queued \cup Range(batch), queue')
  /\ UNCHANGED <<cluster, alive, watcher, ch, pending, server, base, snap, blurred>>

(***************************************************************************)
(* The life of the process.  SIGTERM cancels the context; flushLoop then   *)
(* flushes what is pending and returns, whatever the channel still holds.  *)
(***************************************************************************)
Signal ==
  /\ alive = "up" /\ Spend("death") /\ alive' = "stopping"
  /\ UNCHANGED <<cluster, watcher, ch, flusher, queue, open, server, history>>

FinalFlush ==
  /\ alive = "stopping" /\ fpc = "idle" /\ pending # <<>>
  /\ alive' = "final" /\ Flush(pending)
  /\ UNCHANGED <<cluster, watcher, ch, queue, open, server, history, budget>>

Gone ==   \* the memory of the process is lost
  /\ alive' = "down" /\ wl' = "top" /\ todo' = <<>> /\ lastRV' = 0
  /\ ch' = <<>> /\ pending' = <<>> /\ fpc' = "idle" /\ batch' = <<>>
  /\ pos' = 0 /\ replayed' = 0

Exit ==
  /\ fpc = "idle" /\ (alive = "final" \/ (alive = "stopping" /\ pending = <<>>))
  /\ Gone
  /\ missed' = missed \cup Lost(Memory, queue)
  /\ UNCHANGED <<cluster, ckpt, queue, open, server, base, snap, blurred, budget>>

Crash ==   \* a write of the state file or of the queue may be cut short
  /\ alive # "down" /\ Spend("death") /\ Gone
  /\ ckpt' \in {0, ckpt} /\ base' = IF ckpt' = 0 THEN 0 ELSE base
  /\ \/ UNCHANGED <<queue, open>>
     \/ fpc = "rewrite" /\ RewriteCut
     \/ fpc = "spool" /\ batch # <<>> /\ AppendCut
  /\ missed' = missed \cup Lost(Memory \cup Queued, queue')
  /\ UNCHANGED <<cluster, server, snap, blurred>>

Replace ==   \* a new pod: empty volume, new agent id, hence no known keys
  /\ alive # "down" /\ Spend("death") /\ Gone
  /\ ckpt' = 0 /\ base' = 0 /\ queue' = <<>> /\ open' = FALSE /\ keys' = {}
  /\ missed' = missed \cup ((Memory \cup Queued) \ keys)
  /\ UNCHANGED <<cluster, inventory, snap, blurred>>

Restart ==
  /\ alive = "down" /\ alive' = "up"
  /\ UNCHANGED <<cluster, watcher, ch, flusher, queue, open, server, history, budget>>

Watching == \/ List \/ ListEnqueue \/ ListDone \/ Connect \/ Expired
            \/ WatchRead \/ Bookmark \/ Send
Flushing == \/ Receive \/ Tick \/ Apply \/ PostOK \/ ClearQueue \/ Rewrite \/ Spool
Next == \/ KubernetesWrite \/ Compact \/ Watching \/ ListFail \/ Disconnect
        \/ Flushing \/ ApplyTorn \/ PostError
        \/ Signal \/ FinalFlush \/ Exit \/ Crash \/ Replace \/ Restart
Spec == Init /\ [][Next]_vars

(***************************************************************************)
(* Properties.                                                             *)
(***************************************************************************)
\* The watch takes every event once and loses none by itself: each event
\* between the last list and the saved version is known to the server, on its
\* way to it, or was lost: by a death, by a failed write of the queue file, or by
\* being appended to a line such a write had left unfinished, which replayQueued
\* drops (the version is saved before the event is enqueued, runner.go:231).
NothingSkipped == \A p \in (base + 1)..ckpt :
  Relevant(p) => log[p] \in keys \cup Memory \cup Queued \cup missed

\* A batch never overtakes an older one waiting in the offline queue: when the
\* server has an event the watch took after the list, it has all earlier ones
\* of that watch or they are lost (flushEvents replays first and stops on an
\* error, runner.go:294).
InOrder == \A q \in (snap + 1)..ckpt : \A p \in (snap + 1)..q :
  (Relevant(p) /\ Relevant(q) /\ log[q] \in keys) => log[p] \in keys \cup missed

Quiet == /\ alive = "up" /\ wl = "watch" /\ NextEvents = {}
         /\ ch = <<>> /\ pending = <<>> /\ queue = <<>> /\ fpc = "idle"

Doubtful == blurred \cup {e.obj : e \in missed}

\* Whatever resends, relists and reorderings happened, once the agent is idle
\* and caught up the inventory holds the live version of every object that no
\* lost event, half-applied event or ambiguous relist concerns.
Converged == Quiet => \A o \in Objects \ Doubtful : inventory[o] = live[o]

\* What the documentation promises (docs/K8S_AGENT.md:8, restarts and short
\* interruptions are recovered from the two files): the same for all objects.
InSync == Quiet => inventory = live

\* Events the watch took that neither reached the server nor were lost.
Owed == {p \in (base + 1)..ckpt : Relevant(p) /\ log[p] \notin keys \cup missed}

\* The agent catches up with the cluster again and again: no failed post starves
\* an event, which reaches the server, if need be through the offline queue and
\* without new events to trigger a flush.  A compaction may overtake the version
\* of its last list, which is the last item's; then it lists for ever, but what
\* it takes is delivered all the same.
CatchesUp == []<>(Quiet \/ (ckpt < compacted /\ Owed = {}))

FairSpec ==
  /\ Spec
  /\ WF_vars(Watching) /\ SF_vars(WatchRead)
  /\ WF_vars(Flushing) /\ SF_vars(FinalFlush \/ Exit) /\ WF_vars(Restart)
=============================================================================
