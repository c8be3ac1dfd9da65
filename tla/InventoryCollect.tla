-------------------------- MODULE InventoryCollect --------------------------
(***************************************************************************)
(* Snapshots of a cluster taken into the inventory (runClusterCollect of   *)
(* internal/proxy/admin_k8s.go, Collect of internal/kube/client.go,        *)
(* internal/collector/snapshot.go) while the agent reports changes         *)
(* (internal/collector/agent.go), and the history of specs both keep       *)
(* (RecordK8sRevision of internal/store/k8s.go).                           *)
(*                                                                         *)
(* Collections are started by each pod's scheduler and by administrators:  *)
(* at any time here, the cadence is left out, and so are the cluster's own *)
(* row, events, metrics and findings.  The agent is one that loses nothing *)
(* and repeats nothing (see AgentCollector).  All clocks agree.            *)
(***************************************************************************)
EXTENDS Naturals, Sequences, FiniteSets, FiniteSetsExt

CONSTANTS
  Collectors,  \* collections that may run at the same time
  Objects, Kinds, KindOf,
  Targets,     \* the kinds, in the order in which they are listed
  Optional,    \* kinds whose list may fail
  Specs,
  Budgets,     \* how many changes, collections and faults may happen: one of these
  Agent,       \* the agent's process
  None

Procs == Collectors \cup {Agent}

(* A cluster has finitely many objects.  The list of the kinds is a literal*)
(* that names each once (DefaultInventoryTargets).                         *)
ASSUME KindsAssumption ==
  /\ KindOf \in [Objects -> Kinds] /\ Optional \subseteq Kinds /\ IsFiniteSet(Objects)
  /\ Targets \in Seq(Kinds) \ {<<>>} /\ \A k \in Kinds : \E i \in 1 .. Len(Targets) : Targets[i] = k
  /\ \A i, n \in 1 .. Len(Targets) : Targets[i] = Targets[n] => i = n
ASSUME NamesAssumption   == Agent \notin Collectors /\ None \notin Specs
ASSUME BudgetsAssumption == Budgets \subseteq [{"writes", "collections", "faults"} -> Nat]

VARIABLES
  world,     \* the objects of the cluster, with their specs
  watched,   \* changes the agent has not sent yet
  inv,       \* k8s_inventory
  revs,      \* k8s_resource_revisions of each object, in the order they were stored
  clock,     \* the wall clock: each reading is later than the one before
  job,       \* what each process is doing
  left,      \* what is left of the budget
  (* history *)
  due,       \* what each collection is to leave of each object
  touched,   \* objects others have written since the collection listed them
  unsure     \* objects whose history may have missed a change of their row

history == <<due, touched, unsure>>
vars == <<world, watched, inv, revs, clock, job, left, history>>

Spend(what) == left[what] > 0 /\ left' = [left EXCEPT ![what] = @ - 1]

Item(o, s) == [obj |-> o, spec |-> s]

OfKind(k) == {o \in Objects : KindOf[o] = k}
Absent == [o \in Objects |-> None]

Idle == [pc |-> "idle", stamp |-> 0, next |-> 0, kinds |-> {}, copy |-> Absent,
         todo |-> {}, batch |-> <<>>, cur |-> None, gone |-> {}]

At(p, pc) == job[p].pc = pc

End(p) == job' = [job EXCEPT ![p] = Idle]

-----------------------------------------------------------------------------
(* The cluster: an object is created, changed or deleted.                  *)
Change(o, s) ==
  /\ Spend("writes") /\ world[o] # s
  /\ world' = [world EXCEPT ![o] = s]
  /\ watched' = Append(watched, Item(o, s))
  /\ UNCHANGED <<inv, revs, clock, job, history>>

(* The agent's flush: one time stamp for all events of a batch.            *)
Flush(n) ==
  /\ At(Agent, "idle") /\ n \in 1 .. Len(watched)
  /\ clock' = clock + 1
  /\ job' = [job EXCEPT ![Agent] = [Idle EXCEPT !.pc = "store", !.stamp = clock + 1,
                                      !.batch = SubSeq(watched, 1, n)]]
  /\ watched' = SubSeq(watched, n + 1, Len(watched))
  /\ UNCHANGED <<world, inv, revs, left, history>>

-----------------------------------------------------------------------------
(* runClusterCollect: the time is taken after the probe, then Collect lists*)
(* kind by kind.                                                           *)
Probe(c) ==
  /\ At(c, "idle") /\ Spend("collections")
  /\ clock' = clock + 1
  /\ job' = [job EXCEPT ![c] = [Idle EXCEPT !.pc = "list", !.stamp = clock + 1, !.next = 1]]
  /\ UNCHANGED <<world, watched, inv, revs, history>>

(* The list of a kind; an optional kind whose list fails is passed over.   *)
(* After the last kind the objects found are stored.                       *)
Onward(j) == [j EXCEPT !.next = @ + 1, !.pc = IF j.next = Len(Targets) THEN "store" ELSE "list"]

Target(c) == Targets[job[c].next]

Expect(c, state) ==
  /\ due' = [due EXCEPT ![c] = [o \in Objects |-> IF KindOf[o] = Target(c) THEN state[o] ELSE @[o]]]
  /\ touched' = [touched EXCEPT ![c] = @ \ OfKind(Target(c))]

List(c) ==
  /\ At(c, "list")
  /\ LET k == Target(c) IN
       job' = [job EXCEPT ![c] = [Onward(job[c]) EXCEPT
                 !.kinds = @ \cup {k},
                 !.copy = [o \in Objects |-> IF KindOf[o] = k THEN world[o] ELSE @[o]],
                 !.todo = @ \cup {o \in OfKind(k) : world[o] # None}]]
  /\ Expect(c, world)
  /\ UNCHANGED <<world, watched, inv, revs, clock, left, unsure>>

SkipKind_Listed(c) ==
  /\ At(c, "list") /\ Target(c) \in Optional /\ Spend("faults")
  /\ job' = [job EXCEPT ![c] = [Onward(job[c]) EXCEPT !.kinds = @ \cup {Target(c)}]]
  /\ Expect(c, inv)
  /\ UNCHANGED <<world, watched, inv, revs, clock, unsure>>

SkipKind(c) ==
  /\ At(c, "list") /\ Target(c) \in Optional /\ Spend("faults")
  /\ job' = [job EXCEPT ![c] = Onward(@)]
  /\ Expect(c, inv)
  /\ UNCHANGED <<world, watched, inv, revs, clock, unsure>>

-----------------------------------------------------------------------------
(* The inventory's row of an object is written, or deleted.                *)
Stored(p, o, s) ==
  /\ inv' = [inv EXCEPT ![o] = s]
  /\ touched' = [c \in Collectors |-> IF c = p \/ At(c, "idle") THEN touched[c] ELSE touched[c] \cup {o}]

(* Between the statements of an object's row and of its history.           *)
Midway(p) == job[p].pc \in {"compare", "append"}

Revising(o) == {p \in Procs : Midway(p) /\ job[p].cur.obj = o}

(* The newest revision: by observed_at, then in the order they were stored.*)
Tops(o) == {i \in 1 .. Len(revs[o]) : \A n \in 1 .. Len(revs[o]) : revs[o][n].at <= revs[o][i].at}
Newest(o) == IF revs[o] = <<>> THEN [spec |-> None, at |-> 0] ELSE revs[o][Max(Tops(o))]

(* UpsertK8sInventory, which never asks whether the row is newer; then the *)
(* history of the object.                                                  *)
Upsert(p, it) ==
  /\ Stored(p, it.obj, it.spec)
  /\ unsure' = IF Revising(it.obj) # {} \/ job[p].stamp < Newest(it.obj).at
               THEN unsure \cup {it.obj} ELSE unsure

Store(c) ==
  /\ c \in Collectors /\ At(c, "store")
  /\ \E o \in job[c].todo :
       LET it == Item(o, job[c].copy[o]) IN
         /\ Upsert(c, it)
         /\ job' = [job EXCEPT ![c].todo = @ \ {o}, ![c].cur = it, ![c].pc = "compare"]
  /\ UNCHANGED <<world, watched, revs, clock, left, due>>

Applied(j) == [j EXCEPT !.batch = Tail(@)]

ApplyUpsert_Deleted ==
  /\ At(Agent, "store") /\ job[Agent].batch # <<>>
  /\ LET it == Head(job[Agent].batch) IN
       /\ Upsert(Agent, it)
       /\ job' = [job EXCEPT ![Agent] = [Applied(@) EXCEPT !.cur = it, !.pc = "compare"]]
  /\ UNCHANGED <<world, watched, revs, clock, left, due>>

(* ApplyAgentBatch, event by event.                                        *)
ApplyUpsert ==
  /\ At(Agent, "store") /\ job[Agent].batch # <<>>
  /\ LET it == Head(job[Agent].batch) IN
       /\ it.spec # None
       /\ Upsert(Agent, it)
       /\ job' = [job EXCEPT ![Agent] = [Applied(@) EXCEPT !.cur = it, !.pc = "compare"]]
  /\ UNCHANGED <<world, watched, revs, clock, left, due>>

ApplyDelete ==
  /\ At(Agent, "store") /\ job[Agent].batch # <<>>
  /\ LET it == Head(job[Agent].batch) IN
       /\ it.spec = None
       /\ Stored(Agent, it.obj, None)
       /\ job' = [job EXCEPT ![Agent] = Applied(@)]
  /\ UNCHANGED <<world, watched, revs, clock, left, due, unsure>>

BatchDone ==
  /\ At(Agent, "store") /\ job[Agent].batch = <<>>
  /\ End(Agent)
  /\ UNCHANGED <<world, watched, inv, revs, clock, left, history>>

-----------------------------------------------------------------------------
(* RecordK8sRevision: the newest revision is read; a new one is stored if  *)
(* the spec differs.  The id of a revision is made of spec and time stamp, *)
(* so an object with the same spec at the same time keeps it from being    *)
(* stored; that is no error.                                               *)
Sure(p, o) == IF Revising(o) = {p} /\ inv[o] = job[p].cur.spec THEN unsure \ {o} ELSE unsure

Compare_Any(p) ==
  /\ At(p, "compare")
  /\ LET it == job[p].cur IN
       IF \E i \in 1 .. Len(revs[it.obj]) : revs[it.obj][i].spec = it.spec
       THEN /\ job' = [job EXCEPT ![p].pc = "store", ![p].cur = None]
            /\ unsure' = Sure(p, it.obj)
       ELSE job' = [job EXCEPT ![p].pc = "append"] /\ UNCHANGED unsure
  /\ UNCHANGED <<world, watched, inv, revs, clock, left, due, touched>>

Compare(p) ==
  /\ At(p, "compare")
  /\ LET it == job[p].cur IN
       IF Newest(it.obj).spec = it.spec
       THEN /\ job' = [job EXCEPT ![p].pc = "store", ![p].cur = None]
            /\ unsure' = Sure(p, it.obj)
       ELSE job' = [job EXCEPT ![p].pc = "append"] /\ UNCHANGED unsure
  /\ UNCHANGED <<world, watched, inv, revs, clock, left, due, touched>>

Clashes(rev) == \E o \in Objects : \E i \in 1 .. Len(revs[o]) : revs[o][i] = rev

AppendRevision(p) ==
  /\ At(p, "append")
  /\ LET it == job[p].cur  rev == [spec |-> it.spec, at |-> job[p].stamp] IN
       IF Clashes(rev)
       THEN UNCHANGED revs /\ unsure' = unsure \cup {it.obj}
       ELSE /\ revs' = [revs EXCEPT ![it.obj] = Append(@, rev)]
            /\ unsure' = IF rev.at >= Newest(it.obj).at THEN Sure(p, it.obj) ELSE unsure
  /\ job' = [job EXCEPT ![p].pc = "store", ![p].cur = None]
  /\ UNCHANGED <<world, watched, inv, clock, left, due, touched>>

-----------------------------------------------------------------------------
(* pruneMissingInventory: what the inventory has of each kind that was     *)
(* listed, then a statement for each object that was not found.            *)
Prune(c) ==
  /\ c \in Collectors /\ At(c, "store") /\ job[c].todo = {} /\ job[c].gone = {}
  /\ \E k \in job[c].kinds :
       job' = [job EXCEPT ![c].kinds = @ \ {k},
                 ![c].gone = {o \in OfKind(k) : inv[o] # None /\ job[c].copy[o] = None}]
  /\ UNCHANGED <<world, watched, inv, revs, clock, left, history>>

Remove(c) ==
  /\ At(c, "store")
  /\ \E o \in job[c].gone :
       Stored(c, o, None) /\ job' = [job EXCEPT ![c].gone = @ \ {o}]
  /\ UNCHANGED <<world, watched, revs, clock, left, due, unsure>>

Complete(c) == At(c, "store") /\ job[c].todo = {} /\ job[c].kinds = {} /\ job[c].gone = {}

Finish(c) ==
  /\ Complete(c) /\ End(c)
  /\ UNCHANGED <<world, watched, inv, revs, clock, left, history>>

(* The list of a required kind or a statement fails, or the pod is gone.   *)
Fail(c) ==
  /\ ~At(c, "idle") /\ Spend("faults") /\ End(c)
  /\ unsure' = IF Midway(c) THEN unsure \cup {job[c].cur.obj} ELSE unsure
  /\ UNCHANGED <<world, watched, inv, revs, clock, due, touched>>

-----------------------------------------------------------------------------
(* The inventory is empty, or an agent has reported each object by itself. *)
Init ==
  /\ world \in [Objects -> Specs \cup {None}]
  /\ \/ inv = Absent /\ revs = [o \in Objects |-> <<>>]
     \/ \E at \in [Objects -> 1 .. Cardinality(Objects)] :
          /\ \A o, u \in Objects : at[o] = at[u] => o = u
          /\ inv = world
          /\ revs = [o \in Objects |-> IF world[o] = None THEN <<>> ELSE <<[spec |-> world[o], at |-> at[o]]>>]
  /\ watched = <<>> /\ clock = Cardinality(Objects)
  /\ job = [p \in Procs |-> Idle]
  /\ left \in Budgets
  /\ due = [c \in Collectors |-> Absent] /\ touched = [c \in Collectors |-> {}] /\ unsure = {}

Collect(c) ==
  \/ Probe(c) \/ List(c) \/ SkipKind(c) \/ Store(c)
  \/ Prune(c) \/ Remove(c) \/ Finish(c) \/ Fail(c)

Next ==
  \/ \E o \in Objects, s \in Specs \cup {None} : Change(o, s)
  \/ \E n \in 1 .. Len(watched) : Flush(n)
  \/ ApplyUpsert \/ ApplyDelete \/ BatchDone
  \/ \E p \in Procs : Compare(p) \/ AppendRevision(p)
  \/ \E c \in Collectors : Collect(c)

Spec == Init /\ [][Next]_vars

-----------------------------------------------------------------------------
Jobs == [pc: {"idle", "list", "store", "compare", "append"}, stamp: Nat, next: 0 .. Len(Targets) + 1,
         kinds: SUBSET Kinds, copy: [Objects -> Specs \cup {None}], todo: SUBSET Objects,
         batch: Seq([obj: Objects, spec: Specs \cup {None}]),
         cur: [obj: Objects, spec: Specs] \cup {None}, gone: SUBSET Objects]

TypeOK ==
  /\ world \in [Objects -> Specs \cup {None}] /\ inv \in [Objects -> Specs \cup {None}]
  /\ watched \in Seq([obj: Objects, spec: Specs \cup {None}])
  /\ revs \in [Objects -> Seq([spec: Specs, at: Nat])]
  /\ clock \in Nat
  /\ job \in [Procs -> Jobs]
  /\ left \in [{"writes", "collections", "faults"} -> Nat]
  /\ due \in [Collectors -> [Objects -> Specs \cup {None}]]
  /\ touched \in [Collectors -> SUBSET Objects] /\ unsure \subseteq Objects

\* A collection that succeeds leaves each kind it could list as it was listed
\* and every other kind as it was, whatever earlier collections left behind,
\* but for objects the agent or another collection has written meanwhile.
SnapshotIsExact ==
  \A c \in Collectors : Complete(c) => \A o \in Objects : inv[o] = due[c][o] \/ o \in touched[c]

\* "Append a revision when the normalized spec changed since the last
\* observation": the newest revision of an object has the spec of its row, once
\* whoever wrote the row is through with it, unless two writers met over the
\* object, one wrote it late or was cut off, or the revision's id was taken.
RevisionsFollow ==
  \A o \in Objects : inv[o] # None /\ Revising(o) = {} => Newest(o).spec = inv[o] \/ o \in unsure

\* The same without exception, of one undisturbed collection: each object it
\* found has a revision with its spec.
EveryChangeIsRecorded ==
  \A c \in Collectors : Complete(c) =>
    \A o \in Objects : job[c].copy[o] # None => Newest(o).spec = job[c].copy[o]
=============================================================================
