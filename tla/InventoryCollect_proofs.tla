----------------------- MODULE InventoryCollect_proofs -----------------------
(***************************************************************************)
(* Proofs about InventoryCollect for any cluster, any number of collections*)
(* and any budget.                                                         *)
(***************************************************************************)
EXTENDS InventoryCollect, FiniteSetTheorems, TLAPS

USE NamesAssumption DEF Procs

States == [Objects -> Specs \cup {None}]
Events == [obj: Objects, spec: Specs \cup {None}]
Rows   == [obj: Objects, spec: Specs]

(* The kinds a collection has been to.                                     *)
Past(j) == {Targets[i] : i \in {n \in 1 .. Len(Targets) : n < j.next}}

(* What a process is doing hangs together: while it lists, what it has to  *)
(* store is of the kinds behind it.                                        *)
Sound(j) ==
  /\ j \in Jobs
  /\ j.pc = "list" => /\ j.next \in 1 .. Len(Targets) /\ j.kinds \subseteq Past(j)
                      /\ \A o \in j.todo \cup j.gone : KindOf[o] \in Past(j)
  /\ j.pc \in {"compare", "append"} => j.cur \in Rows
  /\ \A o \in j.todo : j.copy[o] # None

TypeInv == TypeOK /\ \A p \in Procs : Sound(job[p])

\* The kinds are listed one by one.
LEMMA TargetsType ==
  /\ Len(Targets) \in Nat \ {0}
  /\ \A i \in 1 .. Len(Targets) : Targets[i] \in Kinds
  /\ \A k \in Kinds : \E i \in 1 .. Len(Targets) : Targets[i] = k
  /\ \A i, n \in 1 .. Len(Targets) : Targets[i] = Targets[n] => i = n
  /\ KindOf \in [Objects -> Kinds]
  BY KindsAssumption

LEMMA IdleSound == Sound(Idle)
<1>1. <<>> \in Seq([obj: Objects, spec: Specs \cup {None}])
  OBVIOUS
<1>2. Absent \in [Objects -> Specs \cup {None}]
  BY DEF Absent
<1>3. QED
  BY <1>1, <1>2, TargetsType DEF Idle, Sound, Jobs

LEMMA SpendType ==
  ASSUME TypeOK, NEW what \in {"writes", "collections", "faults"}, Spend(what)
  PROVE  left' \in [{"writes", "collections", "faults"} -> Nat]
<1>1. left[what] - 1 \in Nat
  BY DEF TypeOK, Spend
<1>2. QED
  BY <1>1 DEF TypeOK, Spend

\* A process that goes on with a sound job.
LEMMA JobsSound ==
  ASSUME TypeInv, NEW p \in Procs, NEW j, Sound(j), job' = [job EXCEPT ![p] = j]
  PROVE  /\ job' \in [Procs -> Jobs] /\ \A q \in Procs : Sound(job'[q])
         /\ job'[p] = j /\ \A q \in Procs \ {p} : job'[q] = job[q]
  BY DEF TypeInv, TypeOK, Sound

\* The head of a sequence and what is left of it.
LEMMA HeadTail ==
  ASSUME NEW S, NEW s \in Seq(S), s # <<>>
  PROVE  Head(s) \in S /\ Tail(s) \in Seq(S)
  OBVIOUS

LEMMA Pieces ==
  ASSUME NEW S, NEW s \in Seq(S), NEW n \in 1 .. Len(s)
  PROVE  SubSeq(s, 1, n) \in Seq(S) /\ SubSeq(s, n + 1, Len(s)) \in Seq(S)
  OBVIOUS

LEMMA AppendType ==
  ASSUME NEW S, NEW s \in Seq(S), NEW e \in S
  PROVE  Append(s, e) \in Seq(S)
  OBVIOUS

-----------------------------------------------------------------------------
(* A job field by field.                                                   *)
Whole(j) == j \in [pc: {j.pc}, stamp: {j.stamp}, next: {j.next}, kinds: {j.kinds}, copy: {j.copy},
                   todo: {j.todo}, batch: {j.batch}, cur: {j.cur}, gone: {j.gone}]

Typed(j) ==
  /\ j.pc \in {"idle", "list", "store", "compare", "append"}
  /\ j.stamp \in Nat /\ j.next \in 0 .. Len(Targets) + 1
  /\ j.kinds \in SUBSET Kinds /\ j.copy \in States /\ j.todo \in SUBSET Objects /\ j.batch \in Seq(Events)
  /\ j.cur \in Rows \cup {None} /\ j.gone \in SUBSET Objects

LEMMA JobFields == ASSUME NEW j PROVE j \in Jobs <=> Whole(j) /\ Typed(j)
  BY DEF Jobs, Whole, Typed, States, Events, Rows

\* A process has a sound job.
LEMMA OldJob ==
  ASSUME TypeInv, NEW p \in Procs
  PROVE  Sound(job[p]) /\ Whole(job[p]) /\ Typed(job[p]) /\ p \in DOMAIN job
  BY JobFields DEF TypeInv, TypeOK, Sound

\* A collection begins.
LEMMA ProbeJob ==
  ASSUME TypeInv, NEW c \in Collectors, Probe(c)
  PROVE  \E j : /\ Sound(j) /\ job' = [job EXCEPT ![c] = j]
                /\ j.pc = "list" /\ j.next = 1 /\ j.kinds = {} /\ j.todo = {} /\ j.gone = {}
                /\ j.copy = Absent
<1> DEFINE j == [Idle EXCEPT !.pc = "list", !.stamp = clock + 1, !.next = 1]
<1>1. job' = [job EXCEPT ![c] = j] /\ clock + 1 \in Nat
  BY DEF Probe, TypeInv, TypeOK
<1>2. /\ Whole(j) /\ j.pc = "list" /\ j.stamp = clock + 1 /\ j.next = 1 /\ j.kinds = Idle.kinds
      /\ j.copy = Idle.copy /\ j.todo = Idle.todo /\ j.batch = Idle.batch /\ j.cur = Idle.cur /\ j.gone = Idle.gone
  BY DEF Idle, Whole
<1>3. Idle.kinds = {} /\ Idle.todo = {} /\ Idle.gone = {} /\ Idle.copy = Absent
  BY DEF Idle
<1> HIDE DEF j
<1>4. Sound(j)
  BY <1>1, <1>2, <1>3, IdleSound, JobFields, TargetsType DEF Sound, Typed
<1>5. QED
  BY <1>1, <1>2, <1>3, <1>4

\* What a list leaves of a job: the kind's objects as they are in the cluster.
LEMMA ListJob ==
  ASSUME TypeInv, NEW c \in Collectors, List(c)
  PROVE  \E j : /\ Sound(j) /\ job' = [job EXCEPT ![c] = j]
                /\ j.pc \in {"list", "store"} /\ j.next = job[c].next + 1
                /\ j.pc = "store" => job[c].next = Len(Targets)
                /\ j.kinds = job[c].kinds \cup {Target(c)}
                /\ j.copy = [o \in Objects |-> IF KindOf[o] = Target(c) THEN world[o] ELSE job[c].copy[o]]
                /\ j.todo = job[c].todo \cup {o \in OfKind(Target(c)) : world[o] # None}
                /\ j.gone = job[c].gone
<1> DEFINE k == Target(c)
           old == job[c]
           copy == [o \in Objects |-> IF KindOf[o] = k THEN world[o] ELSE old.copy[o]]
           todo == old.todo \cup {o \in OfKind(k) : world[o] # None}
           pc == IF old.next = Len(Targets) THEN "store" ELSE "list"
           next == old.next + 1
           kinds == old.kinds \cup {k}
           j == [Onward(old) EXCEPT !.kinds = kinds, !.copy = copy, !.todo = todo]
<1>1. Sound(old) /\ world \in States /\ old.pc = "list" /\ Whole(old) /\ Typed(old)
  BY OldJob DEF List, At, TypeInv, TypeOK, States
<1>2. k \in Kinds /\ old.next \in 1 .. Len(Targets) /\ k \notin Past(old)
  BY <1>1, TargetsType DEF Sound, Target, Past
<1>3. copy \in States /\ todo \in SUBSET Objects /\ \A o \in todo : copy[o] # None
  <2>1. \A o \in old.todo : o \in Objects /\ KindOf[o] # k /\ old.copy[o] # None
    BY <1>1, <1>2 DEF Sound, Typed
  <2>2. QED
    BY <1>1, <2>1 DEF Typed, States, OfKind
<1>4. /\ Onward(old) = [old EXCEPT !.next = next, !.pc = pc]
  BY DEF Onward
<1>5. /\ Onward(old).kinds = old.kinds /\ Onward(old).copy = old.copy /\ Onward(old).todo = old.todo
       /\ Onward(old).gone = old.gone /\ Onward(old).stamp = old.stamp /\ Onward(old).batch = old.batch
       /\ Onward(old).cur = old.cur /\ Onward(old).pc = pc /\ Onward(old).next = next /\ Whole(Onward(old))
  <2> HIDE DEF pc, next, old
  <2>1. QED
    BY <1>1, <1>4 DEF Whole
<1>6. job' = [job EXCEPT ![c] = j]
  <2>1. job' = [job EXCEPT ![c] = [Onward(job[c]) EXCEPT !.kinds = Onward(job[c]).kinds \cup {k},
                 !.copy = [o \in Objects |-> IF KindOf[o] = k THEN world[o] ELSE Onward(job[c]).copy[o]],
                 !.todo = Onward(job[c]).todo \cup {o \in OfKind(k) : world[o] # None}]]
    BY DEF List
  <2>2. /\ [o \in Objects |-> IF KindOf[o] = k THEN world[o] ELSE Onward(job[c]).copy[o]] = copy
        /\ Onward(job[c]).kinds \cup {k} = kinds
        /\ Onward(job[c]).todo \cup {o \in OfKind(k) : world[o] # None} = todo
    BY <1>4
  <2> HIDE DEF copy, todo, kinds, k
  <2>3. QED
    BY <2>1, <2>2
<1>7. /\ Whole(j) /\ j.pc = pc /\ j.next = next /\ j.kinds = kinds /\ j.copy = copy /\ j.todo = todo
      /\ j.gone = old.gone /\ j.stamp = old.stamp /\ j.batch = old.batch /\ j.cur = old.cur
  <2> HIDE DEF copy, todo, pc, next, kinds, old
  <2>1. QED
    BY <1>1, <1>4 DEF Whole
<1> HIDE DEF copy, todo, j, k, old
<1>8. Typed(j) /\ (j.pc = "list" => j.next \in 1 .. Len(Targets))
  BY <1>1, <1>2, <1>3, <1>7, TargetsType DEF Typed
<1>9. Past(j) = Past(old) \cup {k}
  BY <1>2, <1>7, TargetsType DEF Past, Target, k, old
<1>10. old.kinds \subseteq Past(old) /\ \A o \in old.todo \cup old.gone : KindOf[o] \in Past(old)
  BY <1>1 DEF Sound
<1>11. \A o \in todo : o \in old.todo \/ KindOf[o] = k
  BY DEF todo, OfKind
<1>12. Sound(j)
  BY <1>3, <1>7, <1>8, <1>9, <1>10, <1>11, JobFields DEF Sound
<1>13. QED
  BY <1>6, <1>7, <1>12 DEF copy, todo, k, old

(* A step that leaves alone what a collection has listed.                  *)
SameList(j, i) == /\ j.next = i.next /\ j.kinds = i.kinds /\ j.copy = i.copy /\ j.gone = i.gone
                  /\ j.stamp = i.stamp

\* A kind that is passed over.
LEMMA SkipJob ==
  ASSUME TypeInv, NEW c \in Collectors, SkipKind(c)
  PROVE  \E j : /\ Sound(j) /\ job' = [job EXCEPT ![c] = j]
                /\ j.pc \in {"list", "store"} /\ j.next = job[c].next + 1
                /\ j.pc = "store" => job[c].next = Len(Targets)
                /\ j.kinds = job[c].kinds /\ j.copy = job[c].copy
                /\ j.todo = job[c].todo /\ j.gone = job[c].gone
<1> DEFINE old == job[c]
           pc == IF old.next = Len(Targets) THEN "store" ELSE "list"
           next == old.next + 1
           j == [old EXCEPT !.next = next, !.pc = pc]
<1>1. Sound(old) /\ old.pc = "list" /\ Whole(old) /\ Typed(old)
  BY OldJob DEF SkipKind, At
<1>2. old.next \in 1 .. Len(Targets)
  BY <1>1 DEF Sound
<1>3. job' = [job EXCEPT ![c] = j]
  BY DEF SkipKind, Onward
<1>4. /\ Whole(j) /\ j.pc = pc /\ j.next = next /\ j.kinds = old.kinds /\ j.copy = old.copy /\ j.todo = old.todo
      /\ j.gone = old.gone /\ j.stamp = old.stamp /\ j.batch = old.batch /\ j.cur = old.cur
  <2> HIDE DEF pc, next, old
  <2>1. QED
    BY <1>1 DEF Whole
<1> HIDE DEF j, old
<1>5. Typed(j) /\ (j.pc = "list" => j.next \in 1 .. Len(Targets))
  BY <1>1, <1>2, <1>4, TargetsType DEF Typed
<1>6. Past(old) \subseteq Past(j)
  BY <1>2, <1>4, TargetsType DEF Past
<1>7. Sound(j)
  BY <1>1, <1>4, <1>5, <1>6, JobFields DEF Sound
<1>8. QED
  BY <1>3, <1>4, <1>7 DEF old

\* A row that was found is written.
LEMMA StoreJob ==
  ASSUME TypeInv, NEW c \in Collectors, Store(c)
  PROVE  \E o, j :
           /\ o \in job[c].todo /\ Sound(j) /\ job' = [job EXCEPT ![c] = j] /\ SameList(j, job[c])
           /\ j.todo = job[c].todo \ {o} /\ j.pc = "compare"
           /\ j.cur = Item(o, job[c].copy[o]) /\ Upsert(c, j.cur)
<1>1. PICK o \in job[c].todo :
        /\ Upsert(c, Item(o, job[c].copy[o]))
        /\ job' = [job EXCEPT ![c].todo = @ \ {o}, ![c].cur = Item(o, job[c].copy[o]), ![c].pc = "compare"]
  BY DEF Store
<1> DEFINE old == job[c]
           it == Item(o, old.copy[o])
           todo == old.todo \ {o}
           j == [old EXCEPT !.todo = todo, !.cur = it, !.pc = "compare"]
<1>2. Sound(old) /\ Whole(old) /\ Typed(old) /\ c \in DOMAIN job
  BY OldJob
<1>3. it \in Rows
  BY <1>2 DEF Sound, Typed, States, Rows, Item
<1>4. job' = [job EXCEPT ![c] = j]
  BY <1>1, <1>2
<1>5. /\ Whole(j) /\ j.pc = "compare" /\ j.cur = it /\ j.todo = todo /\ SameList(j, old)
      /\ j.batch = old.batch
  <2> HIDE DEF it, todo, old
  <2>1. QED
    BY <1>2 DEF Whole, SameList
<1> HIDE DEF j, it, old
<1>6. Typed(j)
  BY <1>2, <1>3, <1>5 DEF Typed, SameList
<1>7. Sound(j)
  BY <1>2, <1>3, <1>5, <1>6, JobFields DEF Sound, SameList
<1>8. Upsert(c, j.cur) /\ j.cur = Item(o, job[c].copy[o]) /\ j.todo = job[c].todo \ {o}
  BY <1>1, <1>5 DEF old, it
<1>9. QED
  BY <1>4, <1>5, <1>7, <1>8 DEF old

\* The agent's next event writes a row.
LEMMA ApplyJob ==
  ASSUME TypeInv, ApplyUpsert
  PROVE  \E j : /\ Sound(j) /\ job' = [job EXCEPT ![Agent] = j] /\ j.pc = "compare"
                /\ j.stamp = job[Agent].stamp /\ Upsert(Agent, j.cur)
<1> DEFINE old == job[Agent]
           it == Head(old.batch)
           batch == Tail(old.batch)
           j == [old EXCEPT !.batch = batch, !.cur = it, !.pc = "compare"]
<1>1. Sound(old) /\ Whole(old) /\ Typed(old) /\ Agent \in DOMAIN job
  BY OldJob
<1>2. it.spec # None /\ Upsert(Agent, it) /\ old.batch # <<>>
  BY DEF ApplyUpsert
<1>3. it \in Rows /\ batch \in Seq(Events)
  <2>1. it \in Events /\ batch \in Seq(Events)
    BY <1>1, <1>2, HeadTail DEF Typed
  <2>2. QED
    BY <1>2, <2>1 DEF Rows, Events
<1>4. job' = [job EXCEPT ![Agent] = j]
  <2>1. job' = [job EXCEPT ![Agent] = [Applied(old) EXCEPT !.cur = it, !.pc = "compare"]]
    BY DEF ApplyUpsert
  <2>2. QED
    BY <2>1 DEF Applied
<1>5. /\ Whole(j) /\ j.pc = "compare" /\ j.cur = it /\ j.batch = batch /\ SameList(j, old)
      /\ j.todo = old.todo
  <2> HIDE DEF it, batch, old
  <2>1. QED
    BY <1>1 DEF Whole, SameList
<1> HIDE DEF j, it, old, batch
<1>6. Typed(j)
  BY <1>1, <1>3, <1>5 DEF Typed, SameList
<1>7. Sound(j)
  BY <1>1, <1>3, <1>5, <1>6, JobFields DEF Sound, SameList
<1>8. QED
  BY <1>2, <1>4, <1>5, <1>7 DEF old, SameList

\* The agent's next event deletes a row.
LEMMA DeleteJob ==
  ASSUME TypeInv, ApplyDelete
  PROVE  \E j : Sound(j) /\ job' = [job EXCEPT ![Agent] = j] /\ j.pc = "store" /\ job[Agent].pc = "store"
<1> DEFINE old == job[Agent]
           batch == Tail(old.batch)
           j == [old EXCEPT !.batch = batch]
<1>1. Sound(old) /\ Whole(old) /\ Typed(old) /\ old.pc = "store"
  BY OldJob DEF ApplyDelete, At
<1>2. batch \in Seq(Events)
  BY <1>1, HeadTail DEF ApplyDelete, Typed
<1>3. job' = [job EXCEPT ![Agent] = j]
  BY DEF ApplyDelete, Applied
<1>4. Whole(j) /\ SameList(j, old) /\ j.todo = old.todo /\ j.pc = old.pc /\ j.cur = old.cur /\ j.batch = batch
  <2> HIDE DEF batch, old
  <2>1. QED
    BY <1>1 DEF Whole, SameList
<1> HIDE DEF j, old, batch
<1>5. Typed(j)
  BY <1>1, <1>2, <1>4 DEF Typed, SameList
<1>6. QED
  BY <1>1, <1>3, <1>4, <1>5, JobFields DEF Sound, SameList, old

(* A process that has looked at the history, or is through with it.        *)
Turns(p, pc, cur) ==
  \/ pc = "store" /\ cur = None /\ job' = [job EXCEPT ![p].pc = "store", ![p].cur = None]
  \/ pc = "append" /\ cur = job[p].cur /\ job' = [job EXCEPT ![p].pc = "append"]

LEMMA HistoryJob ==
  ASSUME TypeInv, NEW p \in Procs, NEW pc, NEW cur, Midway(p), Turns(p, pc, cur)
  PROVE  \E j : /\ Sound(j) /\ job' = [job EXCEPT ![p] = j] /\ SameList(j, job[p])
                /\ j.todo = job[p].todo /\ j.pc = pc /\ j.cur = cur
<1> DEFINE old == job[p]
           j == [old EXCEPT !.pc = pc, !.cur = cur]
<1>1. Sound(old) /\ Whole(old) /\ Typed(old) /\ p \in DOMAIN job
  BY OldJob
<1>2. cur \in Rows \cup {None} /\ (pc = "append" => cur \in Rows) /\ pc \in {"store", "append"}
  BY <1>1 DEF Midway, Sound, Turns
<1>3. job' = [job EXCEPT ![p] = j]
  <2>1. CASE pc = "store"
    BY <1>1, <2>1 DEF Turns
  <2>2. CASE pc = "append"
    <3>1. j = [old EXCEPT !.pc = "append"]
      BY <1>1, <2>2 DEF Whole, Turns
    <3>2. QED
      BY <1>1, <2>2, <3>1 DEF Turns
  <2>3. QED
    BY <1>2, <2>1, <2>2
<1>4. Whole(j) /\ SameList(j, old) /\ j.todo = old.todo /\ j.pc = pc /\ j.cur = cur /\ j.batch = old.batch
  <2> HIDE DEF old
  <2>1. QED
    BY <1>1 DEF Whole, SameList
<1> HIDE DEF j, old
<1>5. Typed(j)
  BY <1>1, <1>2, <1>4 DEF Typed, SameList
<1>6. QED
  BY <1>1, <1>2, <1>3, <1>4, <1>5, JobFields DEF Sound, SameList, old

\* A kind whose rows are compared with what was found.
LEMMA PruneJob ==
  ASSUME TypeInv, NEW c \in Collectors, Prune(c)
  PROVE  \E k, j :
           /\ k \in job[c].kinds /\ Sound(j) /\ job' = [job EXCEPT ![c] = j]
           /\ j.kinds = job[c].kinds \ {k} /\ j.copy = job[c].copy /\ j.next = job[c].next
           /\ j.gone = {o \in OfKind(k) : inv[o] # None /\ job[c].copy[o] = None}
           /\ j.todo = {} /\ job[c].todo = {} /\ job[c].gone = {} /\ j.pc = "store" /\ job[c].pc = "store"
<1>1. PICK k \in job[c].kinds :
        job' = [job EXCEPT ![c].kinds = @ \ {k},
                  ![c].gone = {o \in OfKind(k) : inv[o] # None /\ job[c].copy[o] = None}]
  BY DEF Prune
<1> DEFINE old == job[c]
           kinds == old.kinds \ {k}
           gone == {o \in OfKind(k) : inv[o] # None /\ old.copy[o] = None}
           j == [old EXCEPT !.kinds = kinds, !.gone = gone]
<1>2. Sound(old) /\ Whole(old) /\ Typed(old) /\ old.pc = "store" /\ c \in DOMAIN job
      /\ old.todo = {} /\ old.gone = {}
  BY OldJob DEF Prune, At
<1>3. kinds \in SUBSET Kinds /\ gone \in SUBSET Objects
  BY <1>2 DEF Typed, OfKind
<1>4. job' = [job EXCEPT ![c] = j]
  BY <1>1, <1>2
<1>5. /\ Whole(j) /\ j.pc = old.pc /\ j.kinds = kinds /\ j.gone = gone /\ j.todo = old.todo /\ j.copy = old.copy
      /\ j.next = old.next /\ j.stamp = old.stamp /\ j.cur = old.cur /\ j.batch = old.batch
  <2> HIDE DEF kinds, gone, old
  <2>1. QED
    BY <1>2 DEF Whole
<1> HIDE DEF j, old, kinds, gone
<1>6. Typed(j)
  BY <1>2, <1>3, <1>5 DEF Typed
<1>7. Sound(j)
  BY <1>2, <1>5, <1>6, JobFields DEF Sound
<1>8. QED
  BY <1>2, <1>4, <1>5, <1>7 DEF old, kinds, gone

\* A row that was not found is deleted.
LEMMA RemoveJob ==
  ASSUME TypeInv, NEW c \in Collectors, Remove(c)
  PROVE  \E o, j :
           /\ o \in job[c].gone /\ Sound(j) /\ job' = [job EXCEPT ![c] = j] /\ Stored(c, o, None)
           /\ j.kinds = job[c].kinds /\ j.copy = job[c].copy /\ j.next = job[c].next
           /\ j.gone = job[c].gone \ {o} /\ j.todo = job[c].todo /\ j.pc = "store" /\ job[c].pc = "store"
<1>1. PICK o \in job[c].gone : Stored(c, o, None) /\ job' = [job EXCEPT ![c].gone = @ \ {o}]
  BY DEF Remove
<1> DEFINE old == job[c]
           gone == old.gone \ {o}
           j == [old EXCEPT !.gone = gone]
<1>2. Sound(old) /\ Whole(old) /\ Typed(old) /\ old.pc = "store" /\ c \in DOMAIN job
  BY OldJob DEF Remove, At
<1>3. job' = [job EXCEPT ![c] = j]
  BY <1>1, <1>2
<1>4. /\ Whole(j) /\ j.pc = old.pc /\ j.kinds = old.kinds /\ j.gone = gone /\ j.todo = old.todo
      /\ j.copy = old.copy /\ j.next = old.next /\ j.stamp = old.stamp /\ j.cur = old.cur /\ j.batch = old.batch
  <2> HIDE DEF gone, old
  <2>1. QED
    BY <1>2 DEF Whole
<1>5. gone \in SUBSET Objects
  BY <1>2 DEF Typed
<1> HIDE DEF j, old
<1>6. Typed(j)
  BY <1>2, <1>4, <1>5 DEF Typed
<1>7. Sound(j)
  BY <1>2, <1>4, <1>6, JobFields DEF Sound
<1>8. QED
  BY <1>1, <1>2, <1>3, <1>4, <1>7 DEF old

\* The agent takes a batch in hand.
LEMMA FlushJob ==
  ASSUME TypeInv, NEW n \in 1 .. Len(watched), Flush(n)
  PROVE  /\ watched' \in Seq(Events)
         /\ \E j : Sound(j) /\ job' = [job EXCEPT ![Agent] = j] /\ j.pc = "store" /\ job[Agent].pc = "idle"
<1> DEFINE batch == SubSeq(watched, 1, n)
           stamp == clock + 1
           j == [Idle EXCEPT !.pc = "store", !.stamp = stamp, !.batch = batch]
<1>1. watched \in Seq(Events) /\ stamp \in Nat
  BY DEF TypeInv, TypeOK, Events
<1>2. batch \in Seq(Events) /\ SubSeq(watched, n + 1, Len(watched)) \in Seq(Events)
  BY <1>1, Pieces
<1>3. job' = [job EXCEPT ![Agent] = j] /\ watched' = SubSeq(watched, n + 1, Len(watched))
  BY DEF Flush
<1>4. Whole(Idle) /\ Typed(Idle)
  BY IdleSound, JobFields DEF Sound
<1>5. /\ Whole(j) /\ j.pc = "store" /\ j.stamp = stamp /\ j.batch = batch /\ j.next = Idle.next
      /\ j.kinds = Idle.kinds /\ j.copy = Idle.copy /\ j.todo = Idle.todo /\ j.cur = Idle.cur /\ j.gone = Idle.gone
  <2> HIDE DEF stamp, batch
  <2>1. QED
    BY <1>4 DEF Whole
<1> HIDE DEF j, stamp, batch
<1>6. Typed(j) /\ Idle.todo = {}
  BY <1>1, <1>2, <1>4, <1>5 DEF Typed, Idle
<1>7. Sound(j)
  BY <1>5, <1>6, JobFields DEF Sound
<1>8. QED
  BY <1>2, <1>3, <1>5, <1>7 DEF Flush, At

-----------------------------------------------------------------------------
(* The rest of the state.                                                  *)

\* What is written into the inventory is a row.
LEMMA StoredType ==
  ASSUME TypeOK, NEW p, NEW o \in Objects, NEW s \in Specs \cup {None}, Stored(p, o, s)
  PROVE  inv' \in States /\ touched' \in [Collectors -> SUBSET Objects]
<1>1. inv' \in States
  BY DEF TypeOK, Stored, States
<1>2. \A c \in Collectors : touched[c] \cup {o} \in SUBSET Objects
  BY DEF TypeOK
<1>3. QED
  BY <1>1, <1>2 DEF TypeOK, Stored

LEMMA UpsertType ==
  ASSUME TypeOK, NEW p, NEW it \in Rows, Upsert(p, it)
  PROVE  inv' \in States /\ touched' \in [Collectors -> SUBSET Objects] /\ unsure' \subseteq Objects
<1>1. it.obj \in Objects /\ it.spec \in Specs
  BY DEF Rows
<1>2. QED
  BY <1>1, StoredType DEF Upsert, TypeOK

LEMMA ExpectType ==
  ASSUME TypeOK, NEW c \in Collectors, NEW state \in States, Expect(c, state)
  PROVE  /\ due' \in [Collectors -> States] /\ touched' \in [Collectors -> SUBSET Objects]
         /\ due'[c] = [o \in Objects |-> IF KindOf[o] = Target(c) THEN state[o] ELSE due[c][o]]
         /\ touched'[c] = touched[c] \ OfKind(Target(c))
         /\ \A d \in Collectors \ {c} : due'[d] = due[d] /\ touched'[d] = touched[d]
<1> DEFINE f == [o \in Objects |-> IF KindOf[o] = Target(c) THEN state[o] ELSE due[c][o]]
<1>1. due \in [Collectors -> States] /\ f \in States
  BY DEF TypeOK, States
<1>2. due' = [due EXCEPT ![c] = f]
  BY DEF Expect
<1> HIDE DEF f
<1>3. due' \in [Collectors -> States] /\ due'[c] = f /\ \A d \in Collectors \ {c} : due'[d] = due[d]
  BY <1>1, <1>2
<1>4. touched' = [touched EXCEPT ![c] = touched[c] \ OfKind(Target(c))] /\ touched \in [Collectors -> SUBSET Objects]
  BY DEF Expect, TypeOK
<1>5. QED
  BY <1>3, <1>4 DEF f

LEMMA InitType == Init => TypeInv
<1> SUFFICES ASSUME Init PROVE TypeInv
  OBVIOUS
<1>1. Cardinality(Objects) \in Nat
  BY KindsAssumption, FS_CardinalityType
<1>2. revs \in [Objects -> Seq([spec: Specs, at: Nat])] /\ inv \in States
  <2>1. <<>> \in Seq([spec: Specs, at: Nat])
    OBVIOUS
  <2>2. CASE inv = Absent /\ revs = [o \in Objects |-> <<>>]
    BY <2>1, <2>2 DEF Absent, States
  <2>3. ASSUME NEW at \in [Objects -> 1 .. Cardinality(Objects)], inv = world,
               revs = [o \in Objects |-> IF world[o] = None THEN <<>> ELSE <<[spec |-> world[o], at |-> at[o]]>>]
        PROVE  revs \in [Objects -> Seq([spec: Specs, at: Nat])] /\ inv \in States
    <3>1. ASSUME NEW o \in Objects, world[o] # None
          PROVE  <<[spec |-> world[o], at |-> at[o]]>> \in Seq([spec: Specs, at: Nat])
      <4>1. at[o] \in Nat /\ world[o] \in Specs
        BY <1>1, <3>1 DEF Init
      <4>2. [spec |-> world[o], at |-> at[o]] \in [spec: Specs, at: Nat]
        BY <4>1
      <4>3. QED
        BY <4>2
    <3>2. QED
      BY <2>1, <2>3, <3>1 DEF Init, States
  <2>4. QED
    BY <2>2, <2>3 DEF Init
<1>3. job \in [Procs -> Jobs] /\ \A p \in Procs : Sound(job[p])
  BY IdleSound DEF Init, Sound
<1>4. left \in [{"writes", "collections", "faults"} -> Nat]
  BY BudgetsAssumption DEF Init
<1>5. due \in [Collectors -> States] /\ touched \in [Collectors -> SUBSET Objects]
  BY DEF Init, Absent, States
<1>6. watched \in Seq(Events)
  BY DEF Init
<1>7. world \in States /\ clock \in Nat /\ unsure \subseteq Objects
  BY <1>1 DEF Init, States
<1>8. QED
  BY <1>2, <1>3, <1>4, <1>5, <1>6, <1>7 DEF TypeInv, TypeOK, States, Events

\* A revision is stored, or its id is taken.
LEMMA RevisionType ==
  ASSUME TypeInv, NEW p \in Procs, AppendRevision(p)
  PROVE  /\ revs' \in [Objects -> Seq([spec: Specs, at: Nat])] /\ unsure' \subseteq Objects
         /\ job[p].cur \in Rows
<1> DEFINE it == job[p].cur
           rev == [spec |-> it.spec, at |-> job[p].stamp]
<1>1. it \in Rows /\ it.obj \in Objects /\ rev \in [spec: Specs, at: Nat]
  BY OldJob DEF AppendRevision, At, Sound, Typed, Rows
<1>2. Append(revs[it.obj], rev) \in Seq([spec: Specs, at: Nat])
  <2>1. revs[it.obj] \in Seq([spec: Specs, at: Nat])
    BY <1>1 DEF TypeInv, TypeOK
  <2>2. QED
    BY <1>1, <2>1, AppendType
<1>3. revs' = revs \/ revs' = [revs EXCEPT ![it.obj] = Append(revs[it.obj], rev)]
  BY DEF AppendRevision
<1>4. unsure' \subseteq unsure \cup {it.obj}
  BY DEF AppendRevision, Sure
<1>5. revs \in [Objects -> Seq([spec: Specs, at: Nat])] /\ unsure \subseteq Objects
  BY DEF TypeInv, TypeOK
<1> HIDE DEF rev
<1>6. revs' \in [Objects -> Seq([spec: Specs, at: Nat])]
  <2> HIDE DEF it
  <2>1. QED
    BY <1>1, <1>2, <1>3, <1>5
<1>7. QED
  BY <1>1, <1>4, <1>5, <1>6

\* Every step keeps the type invariant.
LEMMA TypeStep == ASSUME TypeInv, [Next]_vars PROVE TypeInv'
<1> USE DEF history
<1>1. TypeOK
  BY DEF TypeInv
<1>2. CASE UNCHANGED vars
  BY <1>2 DEF vars, TypeInv, TypeOK
<1>3. ASSUME NEW o \in Objects, NEW s \in Specs \cup {None}, Change(o, s) PROVE TypeInv'
  <2>1. Item(o, s) \in Events
    BY DEF Item, Events
  <2>2. Append(watched, Item(o, s)) \in Seq(Events)
    BY <1>1, <2>1, AppendType DEF TypeOK, Events
  <2>3. left' \in [{"writes", "collections", "faults"} -> Nat]
    BY <1>1, <1>3, SpendType DEF Change
  <2>4. QED
    BY <1>3, <2>2, <2>3 DEF Change, TypeInv, TypeOK, Events
<1>4. ASSUME NEW n \in 1 .. Len(watched), Flush(n) PROVE TypeInv'
  <2>1. job' \in [Procs -> Jobs] /\ (\A q \in Procs : Sound(job'[q])) /\ watched' \in Seq(Events)
    BY <1>4, FlushJob, JobsSound
  <2>2. clock' = clock + 1 /\ clock \in Nat
    BY <1>1, <1>4 DEF Flush, TypeOK
  <2>3. clock' \in Nat
    BY <2>2
  <2>4. QED
    BY <1>4, <2>1, <2>3 DEF Flush, TypeInv, TypeOK, Events
<1>5. ASSUME NEW c \in Collectors, Probe(c) PROVE TypeInv'
  <2>1. job' \in [Procs -> Jobs] /\ (\A q \in Procs : Sound(job'[q]))
    BY <1>5, ProbeJob, JobsSound
  <2>2. left' \in [{"writes", "collections", "faults"} -> Nat]
    BY <1>1, <1>5, SpendType DEF Probe
  <2>3. clock' \in Nat
    BY <1>1, <1>5 DEF Probe, TypeOK
  <2>4. QED
    BY <1>5, <2>1, <2>2, <2>3 DEF Probe, TypeInv, TypeOK
<1>6. ASSUME NEW c \in Collectors, List(c) PROVE TypeInv'
  <2>1. job' \in [Procs -> Jobs] /\ (\A q \in Procs : Sound(job'[q]))
    BY <1>6, ListJob, JobsSound
  <2>2. due' \in [Collectors -> States] /\ touched' \in [Collectors -> SUBSET Objects]
    BY <1>1, <1>6, ExpectType DEF List, TypeOK, States
  <2>3. QED
    BY <1>6, <2>1, <2>2 DEF List, TypeInv, TypeOK, States
<1>7. ASSUME NEW c \in Collectors, SkipKind(c) PROVE TypeInv'
  <2>1. job' \in [Procs -> Jobs] /\ (\A q \in Procs : Sound(job'[q]))
    BY <1>7, SkipJob, JobsSound
  <2>2. due' \in [Collectors -> States] /\ touched' \in [Collectors -> SUBSET Objects]
    BY <1>1, <1>7, ExpectType DEF SkipKind, TypeOK, States
  <2>3. left' \in [{"writes", "collections", "faults"} -> Nat]
    BY <1>1, <1>7, SpendType DEF SkipKind
  <2>4. QED
    BY <1>7, <2>1, <2>2, <2>3 DEF SkipKind, TypeInv, TypeOK, States
<1>8. ASSUME NEW p \in Procs, NEW j, Sound(j), job' = [job EXCEPT ![p] = j], j.pc = "compare", Upsert(p, j.cur),
             UNCHANGED <<world, watched, revs, clock, left, due>>
      PROVE  TypeInv'
  <2>1. job' \in [Procs -> Jobs] /\ (\A q \in Procs : Sound(job'[q]))
    BY <1>8, JobsSound
  <2>2. inv' \in States /\ touched' \in [Collectors -> SUBSET Objects] /\ unsure' \subseteq Objects
    BY <1>1, <1>8, UpsertType DEF Sound
  <2>3. QED
    BY <1>8, <2>1, <2>2 DEF TypeInv, TypeOK, States
<1>9. ASSUME NEW c \in Collectors, Store(c) PROVE TypeInv'
  BY <1>8, <1>9, StoreJob DEF Store
<1>10. ASSUME ApplyUpsert PROVE TypeInv'
  BY <1>8, <1>10, ApplyJob DEF ApplyUpsert
<1>11. ASSUME ApplyDelete PROVE TypeInv'
  <2>1. job' \in [Procs -> Jobs] /\ (\A q \in Procs : Sound(job'[q]))
    BY <1>11, DeleteJob, JobsSound
  <2>2. Head(job[Agent].batch).obj \in Objects
    <3>1. job[Agent].batch \in Seq(Events) /\ job[Agent].batch # <<>>
      BY <1>11, OldJob DEF ApplyDelete, Typed
    <3>2. Head(job[Agent].batch) \in Events
      BY <3>1, HeadTail
    <3>3. QED
      BY <3>2 DEF Events
  <2>3. inv' \in States /\ touched' \in [Collectors -> SUBSET Objects]
    BY <1>1, <1>11, <2>2, StoredType DEF ApplyDelete
  <2>4. QED
    BY <1>11, <2>1, <2>3 DEF ApplyDelete, TypeInv, TypeOK, States
<1>12. ASSUME BatchDone PROVE TypeInv'
  <2>1. job' \in [Procs -> Jobs] /\ (\A q \in Procs : Sound(job'[q]))
    BY <1>12, IdleSound, JobsSound DEF BatchDone, End
  <2>2. QED
    BY <1>12, <2>1 DEF BatchDone, TypeInv, TypeOK
<1>13. ASSUME NEW p \in Procs, Compare(p) PROVE TypeInv'
  <2>1. Midway(p) /\ (Turns(p, "store", None) \/ Turns(p, "append", job[p].cur))
    BY <1>13 DEF Compare, At, Midway, Turns
  <2>2. \E j : Sound(j) /\ job' = [job EXCEPT ![p] = j]
    BY <2>1, HistoryJob
  <2>3. job' \in [Procs -> Jobs] /\ (\A q \in Procs : Sound(job'[q]))
    BY <2>2, JobsSound
  <2>4. unsure' \subseteq unsure
    BY <1>13 DEF Compare, Sure
  <2>5. QED
    BY <1>13, <2>3, <2>4 DEF Compare, TypeInv, TypeOK
<1>14. ASSUME NEW p \in Procs, AppendRevision(p) PROVE TypeInv'
  <2>1. Midway(p) /\ Turns(p, "store", None)
    BY <1>14 DEF AppendRevision, At, Midway, Turns
  <2>2. \E j : Sound(j) /\ job' = [job EXCEPT ![p] = j]
    BY <2>1, HistoryJob
  <2>3. job' \in [Procs -> Jobs] /\ (\A q \in Procs : Sound(job'[q]))
    BY <2>2, JobsSound
  <2>4. QED
    BY <1>14, <2>3, RevisionType DEF AppendRevision, TypeInv, TypeOK
<1>15. ASSUME NEW c \in Collectors, Prune(c) PROVE TypeInv'
  <2>0. PICK j : Sound(j) /\ job' = [job EXCEPT ![c] = j]
    BY <1>15, PruneJob
  <2>1. job' \in [Procs -> Jobs] /\ (\A q \in Procs : Sound(job'[q]))
    BY <2>0, JobsSound
  <2>2. QED
    BY <1>15, <2>1 DEF Prune, TypeInv, TypeOK
<1>16. ASSUME NEW c \in Collectors, Remove(c) PROVE TypeInv'
  <2>0. PICK j : Sound(j) /\ job' = [job EXCEPT ![c] = j]
    BY <1>16, RemoveJob
  <2>1. job' \in [Procs -> Jobs] /\ (\A q \in Procs : Sound(job'[q]))
    BY <2>0, JobsSound
  <2>2. inv' \in States /\ touched' \in [Collectors -> SUBSET Objects]
    <3>1. PICK o \in job[c].gone : Stored(c, o, None)
      BY <1>16, RemoveJob
    <3>2. o \in Objects
      BY OldJob DEF Typed
    <3>3. QED
      BY <1>1, <3>1, <3>2, StoredType
  <2>3. QED
    BY <1>16, <2>1, <2>2 DEF Remove, TypeInv, TypeOK, States
<1>17. ASSUME NEW c \in Collectors, Finish(c) PROVE TypeInv'
  <2>1. job' \in [Procs -> Jobs] /\ (\A q \in Procs : Sound(job'[q]))
    BY <1>17, IdleSound, JobsSound DEF Finish, End
  <2>2. QED
    BY <1>17, <2>1 DEF Finish, TypeInv, TypeOK
<1>18. ASSUME NEW c \in Collectors, Fail(c) PROVE TypeInv'
  <2>1. job' \in [Procs -> Jobs] /\ (\A q \in Procs : Sound(job'[q]))
    BY <1>18, IdleSound, JobsSound DEF Fail, End
  <2>2. left' \in [{"writes", "collections", "faults"} -> Nat]
    BY <1>1, <1>18, SpendType DEF Fail
  <2>3. unsure' \subseteq Objects
    BY <1>18, OldJob DEF Fail, TypeInv, TypeOK, Sound, Midway, Rows
  <2>4. QED
    BY <1>18, <2>1, <2>2, <2>3 DEF Fail, TypeInv, TypeOK
<1>19. QED
  BY <1>2, <1>3, <1>4, <1>5, <1>6, <1>7, <1>9, <1>10, <1>11, <1>12, <1>13, <1>14, <1>15, <1>16, <1>17, <1>18
     DEF Next, Collect

\* The state is well typed, for any cluster and any number of collections.
THEOREM TypeCorrect == Spec => []TypeOK
<1>1. TypeInv /\ [Next]_vars => TypeInv'
  BY TypeStep
<1>2. TypeInv => TypeOK
  BY DEF TypeInv
<1>3. QED
  BY InitType, <1>1, <1>2, PTL DEF Spec
-----------------------------------------------------------------------------
(* What a collection leaves behind.                                        *)

(* The objects whose fate a collection has settled upon.                   *)
Passed(c, o) == job[c].pc = "list" => KindOf[o] \in Past(job[c])

(* What is still to do about an object leads to what is due.               *)
Leads(c, o) ==
  /\ o \in job[c].todo \/ o \in job[c].gone \/ KindOf[o] \in job[c].kinds => due[c][o] = job[c].copy[o]
  /\ o \in job[c].gone => job[c].copy[o] = None
  /\ \/ inv[o] = due[c][o] \/ o \in touched[c]
     \/ o \in job[c].todo \/ o \in job[c].gone
     \/ KindOf[o] \in job[c].kinds /\ job[c].copy[o] = None

SnapInv(c) == job[c].pc # "idle" => \A o \in Objects : Passed(c, o) => Leads(c, o)

SnapshotInv == TypeInv /\ \A c \in Collectors : SnapInv(c)

\* A step of somebody else, who may write a row.
LEMMA Elsewhere ==
  ASSUME TypeInv, NEW c \in Collectors, SnapInv(c), job'[c] = job[c], due'[c] = due[c],
         \/ inv' = inv /\ touched'[c] = touched[c]
         \/ \E p, s : \E o \in Objects : Stored(p, o, s) /\ p # c
  PROVE  SnapInv(c)'
<1> SUFFICES ASSUME job[c].pc # "idle", NEW o \in Objects, Passed(c, o), Leads(c, o)
             PROVE  Leads(c, o)'
  BY DEF SnapInv, Passed
<1>1. touched[c] \subseteq touched'[c] /\ (inv'[o] = inv[o] \/ o \in touched'[c])
  <2>1. ASSUME NEW p, NEW s, NEW u \in Objects, Stored(p, u, s), p # c
        PROVE  touched'[c] = touched[c] \cup {u} /\ (o = u \/ inv'[o] = inv[o])
    BY <2>1 DEF Stored, At, TypeInv, TypeOK
  <2>2. QED
    BY <2>1
<1>2. QED
  BY <1>1 DEF Leads

\* A step of a collection that leaves alone what it has listed, and every row.
LEMMA Aside ==
  ASSUME NEW c \in Collectors, SnapInv(c), NEW j, SameList(j, job[c]), j.todo = job[c].todo, job'[c] = j,
         j.pc # "list", job[c].pc \notin {"idle", "list"}, UNCHANGED <<inv, due, touched>>
  PROVE  SnapInv(c)'
  BY DEF SnapInv, Passed, Leads, SameList

\* A collection that is over is due nothing.
LEMMA Over == ASSUME NEW c \in Collectors, job'[c].pc = "idle" PROVE SnapInv(c)'
  BY DEF SnapInv

LEMMA BeginsEmpty ==
  ASSUME TypeInv, NEW c \in Collectors, Probe(c)
  PROVE  SnapInv(c)'
<1>1. PICK j : Sound(j) /\ job' = [job EXCEPT ![c] = j] /\ j.pc = "list" /\ j.next = 1
  BY ProbeJob
<1>2. job'[c] = j
  BY <1>1, JobsSound
<1>3. Past(j) = {}
  BY <1>1, TargetsType DEF Past
<1>4. \A o \in Objects : ~Passed(c, o)'
  BY <1>1, <1>2, <1>3 DEF Passed
<1>5. QED
  BY <1>4 DEF SnapInv

\* Behind the next kind are the kinds behind this one, and this one.
LEMMA NextKind ==
  ASSUME TypeInv, NEW c \in Collectors, At(c, "list"), NEW j, Sound(j), j.next = job[c].next + 1,
         j.pc \in {"list", "store"}, j.pc = "store" => job[c].next = Len(Targets),
         NEW o \in Objects, j.pc = "list" => KindOf[o] \in Past(j)
  PROVE  /\ Target(c) \notin Past(job[c]) /\ Target(c) \in Kinds
         /\ KindOf[o] \in Past(job[c]) \/ KindOf[o] = Target(c)
<1> DEFINE n == job[c].next
<1>1. n \in 1 .. Len(Targets) /\ KindOf[o] \in Kinds
  BY OldJob, TargetsType DEF Sound, At
<1>2. Target(c) = Targets[n] /\ Target(c) \notin Past(job[c]) /\ Target(c) \in Kinds
  BY <1>1, TargetsType DEF Target, Past
<1>3. PICK i \in 1 .. Len(Targets) : Targets[i] = KindOf[o] /\ i <= n
  <2>1. CASE j.pc = "store"
    BY <1>1, <2>1, TargetsType
  <2>2. CASE j.pc = "list"
    BY <1>1, <2>2, TargetsType DEF Past
  <2>3. QED
    BY <2>1, <2>2
<1>4. QED
  BY <1>1, <1>2, <1>3, TargetsType DEF Past

\* A kind that was listed leads to what was found.
LEMMA ListLeads ==
  ASSUME TypeInv, NEW c \in Collectors, SnapInv(c), List(c)
  PROVE  SnapInv(c)'
<1> DEFINE old == job[c]
           k == Target(c)
<1>1. PICK j : /\ Sound(j) /\ job' = [job EXCEPT ![c] = j]
               /\ j.pc \in {"list", "store"} /\ j.next = old.next + 1
               /\ j.pc = "store" => old.next = Len(Targets)
               /\ j.kinds = old.kinds \cup {k}
               /\ j.copy = [o \in Objects |-> IF KindOf[o] = k THEN world[o] ELSE old.copy[o]]
               /\ j.todo = old.todo \cup {o \in OfKind(k) : world[o] # None}
               /\ j.gone = old.gone
  BY ListJob
<1>2. job'[c] = j /\ At(c, "list") /\ old.pc = "list" /\ inv' = inv
  BY <1>1, JobsSound DEF List, At
<1>3. /\ due'[c] = [o \in Objects |-> IF KindOf[o] = k THEN world[o] ELSE due[c][o]]
      /\ touched'[c] = touched[c] \ OfKind(k)
  BY ExpectType DEF List, TypeInv, TypeOK, States
<1> SUFFICES ASSUME NEW o \in Objects, j.pc = "list" => KindOf[o] \in Past(j)
             PROVE  Leads(c, o)'
  BY <1>2 DEF SnapInv, Passed
<1>4. k \notin Past(old) /\ (KindOf[o] \in Past(old) \/ KindOf[o] = k)
  BY <1>1, <1>2, NextKind
<1> HIDE DEF k
<1>5. CASE KindOf[o] = k
  <2>1. o \notin old.gone
    BY <1>2, <1>4, <1>5, OldJob DEF Sound
  <2>2. j.copy[o] = world[o] /\ due'[c][o] = world[o] /\ KindOf[o] \in j.kinds /\ o \notin j.gone
    BY <1>1, <1>3, <1>5, <2>1
  <2>3. world[o] # None => o \in j.todo
    BY <1>1, <1>5 DEF OfKind
  <2>4. QED
    BY <1>2, <2>2, <2>3 DEF Leads
<1>6. CASE KindOf[o] \in Past(old)
  <2>1. KindOf[o] # k /\ Leads(c, o)
    BY <1>2, <1>4, <1>6 DEF SnapInv, Passed
  <2>2. /\ j.copy[o] = old.copy[o] /\ due'[c][o] = due[c][o] /\ (KindOf[o] \in j.kinds <=> KindOf[o] \in old.kinds)
        /\ (o \in j.todo <=> o \in old.todo) /\ (o \in touched'[c] <=> o \in touched[c])
    BY <1>1, <1>3, <2>1 DEF OfKind
  <2>3. QED
    BY <1>1, <1>2, <2>1, <2>2 DEF Leads
<1>7. QED
  BY <1>4, <1>5, <1>6

\* A kind that was passed over is due as it is.
LEMMA SkipLeads ==
  ASSUME TypeInv, NEW c \in Collectors, SnapInv(c), SkipKind(c)
  PROVE  SnapInv(c)'
<1> DEFINE old == job[c]
           k == Target(c)
<1>1. PICK j : /\ Sound(j) /\ job' = [job EXCEPT ![c] = j]
               /\ j.pc \in {"list", "store"} /\ j.next = old.next + 1
               /\ j.pc = "store" => old.next = Len(Targets)
               /\ j.kinds = old.kinds /\ j.copy = old.copy /\ j.todo = old.todo /\ j.gone = old.gone
  BY SkipJob
<1>2. job'[c] = j /\ At(c, "list") /\ old.pc = "list" /\ inv' = inv
  BY <1>1, JobsSound DEF SkipKind, At
<1>3. /\ due'[c] = [o \in Objects |-> IF KindOf[o] = k THEN inv[o] ELSE due[c][o]]
      /\ touched'[c] = touched[c] \ OfKind(k)
  BY ExpectType DEF SkipKind, TypeInv, TypeOK, States
<1> SUFFICES ASSUME NEW o \in Objects, j.pc = "list" => KindOf[o] \in Past(j)
             PROVE  Leads(c, o)'
  BY <1>2 DEF SnapInv, Passed
<1>4. k \notin Past(old) /\ (KindOf[o] \in Past(old) \/ KindOf[o] = k)
  BY <1>1, <1>2, NextKind
<1> HIDE DEF k
<1>5. CASE KindOf[o] = k
  <2>1. o \notin old.gone /\ o \notin old.todo /\ KindOf[o] \notin old.kinds
    BY <1>2, <1>4, <1>5, OldJob DEF Sound
  <2>2. due'[c][o] = inv'[o]
    BY <1>2, <1>3, <1>5
  <2>3. QED
    BY <1>1, <1>2, <2>1, <2>2 DEF Leads
<1>6. CASE KindOf[o] \in Past(old)
  <2>1. KindOf[o] # k /\ Leads(c, o)
    BY <1>2, <1>4, <1>6 DEF SnapInv, Passed
  <2>2. due'[c][o] = due[c][o] /\ (o \in touched'[c] <=> o \in touched[c])
    BY <1>3, <2>1 DEF OfKind
  <2>3. QED
    BY <1>1, <1>2, <2>1, <2>2 DEF Leads
<1>7. QED
  BY <1>4, <1>5, <1>6

\* A row that is written is as due.
LEMMA StoreLeads ==
  ASSUME TypeInv, NEW c \in Collectors, SnapInv(c), Store(c)
  PROVE  SnapInv(c)'
<1> DEFINE old == job[c]
<1>1. PICK u, j :
           /\ u \in old.todo /\ Sound(j) /\ job' = [job EXCEPT ![c] = j] /\ SameList(j, old)
           /\ j.todo = old.todo \ {u} /\ j.pc = "compare"
           /\ j.cur = Item(u, old.copy[u]) /\ Upsert(c, j.cur)
  BY StoreJob
<1>2. job'[c] = j /\ old.pc = "store" /\ due' = due /\ u \in Objects
  BY <1>1, JobsSound, OldJob DEF Store, At, Typed
<1>3. inv' = [inv EXCEPT ![u] = old.copy[u]] /\ touched'[c] = touched[c] /\ inv \in States
  BY <1>1 DEF Upsert, Stored, Item, TypeInv, TypeOK, States
<1> SUFFICES ASSUME NEW o \in Objects PROVE Leads(c, o)'
  BY DEF SnapInv
<1>4. Leads(c, o)
  BY <1>2 DEF SnapInv, Passed
<1>5. CASE o = u
  <2>1. inv'[o] = due[c][o]
    BY <1>1, <1>2, <1>3, <1>4, <1>5 DEF Leads, States
  <2>2. QED
    BY <1>1, <1>2, <1>4, <1>5, <2>1 DEF Leads, SameList
<1>6. CASE o # u
  <2>1. inv'[o] = inv[o] /\ (o \in j.todo <=> o \in old.todo)
    BY <1>1, <1>2, <1>3, <1>6 DEF States
  <2>2. QED
    BY <1>1, <1>2, <1>3, <1>4, <2>1 DEF Leads, SameList
<1>7. QED
  BY <1>5, <1>6

\* The rows of a kind that were not found are picked out, or are gone already.
LEMMA PruneLeads ==
  ASSUME TypeInv, NEW c \in Collectors, SnapInv(c), Prune(c)
  PROVE  SnapInv(c)'
<1> DEFINE old == job[c]
<1>1. PICK k, j :
           /\ k \in old.kinds /\ Sound(j) /\ job' = [job EXCEPT ![c] = j]
           /\ j.kinds = old.kinds \ {k} /\ j.copy = old.copy /\ j.next = old.next
           /\ j.gone = {o \in OfKind(k) : inv[o] # None /\ old.copy[o] = None}
           /\ j.todo = {} /\ old.todo = {} /\ old.gone = {} /\ j.pc = "store" /\ old.pc = "store"
  BY PruneJob
<1>2. job'[c] = j /\ UNCHANGED <<inv, due, touched>>
  BY <1>1, JobsSound DEF Prune, history
<1> SUFFICES ASSUME NEW o \in Objects PROVE Leads(c, o)'
  BY DEF SnapInv
<1>3. Leads(c, o)
  BY <1>1 DEF SnapInv, Passed
<1>4. o \in j.gone <=> KindOf[o] = k /\ inv[o] # None /\ old.copy[o] = None
  BY <1>1 DEF OfKind
<1>5. CASE KindOf[o] = k
  BY <1>1, <1>2, <1>3, <1>4, <1>5 DEF Leads
<1>6. CASE KindOf[o] # k
  BY <1>1, <1>2, <1>3, <1>4, <1>6 DEF Leads
<1>7. QED
  BY <1>5, <1>6

\* A row that is deleted is as due.
LEMMA RemoveLeads ==
  ASSUME TypeInv, NEW c \in Collectors, SnapInv(c), Remove(c)
  PROVE  SnapInv(c)'
<1> DEFINE old == job[c]
<1>1. PICK u, j :
           /\ u \in old.gone /\ Sound(j) /\ job' = [job EXCEPT ![c] = j] /\ Stored(c, u, None)
           /\ j.kinds = old.kinds /\ j.copy = old.copy /\ j.next = old.next
           /\ j.gone = old.gone \ {u} /\ j.todo = old.todo /\ j.pc = "store" /\ old.pc = "store"
  BY RemoveJob
<1>2. job'[c] = j /\ due' = due /\ u \in Objects
  BY <1>1, JobsSound, OldJob DEF Remove, Typed
<1>3. inv' = [inv EXCEPT ![u] = None] /\ touched'[c] = touched[c] /\ inv \in States
  BY <1>1 DEF Stored, TypeInv, TypeOK, States
<1> SUFFICES ASSUME NEW o \in Objects PROVE Leads(c, o)'
  BY DEF SnapInv
<1>4. Leads(c, o)
  BY <1>1 DEF SnapInv, Passed
<1>5. CASE o = u
  <2>1. inv'[o] = due[c][o]
    BY <1>1, <1>2, <1>3, <1>4, <1>5 DEF Leads, States
  <2>2. QED
    BY <1>1, <1>2, <1>4, <1>5, <2>1 DEF Leads
<1>6. CASE o # u
  <2>1. inv'[o] = inv[o] /\ (o \in j.gone <=> o \in old.gone)
    BY <1>1, <1>2, <1>3, <1>6 DEF States
  <2>2. QED
    BY <1>1, <1>2, <1>3, <1>4, <2>1 DEF Leads
<1>7. QED
  BY <1>5, <1>6

\* Every step keeps what is due to a collection.
LEMMA SnapStep == ASSUME SnapshotInv, [Next]_vars, NEW c \in Collectors PROVE SnapInv(c)'
<1> USE DEF history
<1>1. TypeInv /\ SnapInv(c)
  BY DEF SnapshotInv
<1>2. ASSUME job'[c] = job[c], UNCHANGED <<inv, due, touched>> PROVE SnapInv(c)'
  BY <1>1, <1>2, Elsewhere
<1>3. CASE UNCHANGED vars
  BY <1>2, <1>3 DEF vars
<1>4. ASSUME NEW o \in Objects, NEW s \in Specs \cup {None}, Change(o, s) PROVE SnapInv(c)'
  BY <1>2, <1>4 DEF Change
<1>5. ASSUME NEW p \in Procs, NEW j, Sound(j), job' = [job EXCEPT ![p] = j]
      PROVE  job'[p] = j /\ (p # c => job'[c] = job[c])
  BY <1>1, <1>5, JobsSound
<1>6. ASSUME NEW n \in 1 .. Len(watched), Flush(n) PROVE SnapInv(c)'
  <2>1. PICK j : Sound(j) /\ job' = [job EXCEPT ![Agent] = j]
    BY <1>1, <1>6, FlushJob
  <2>2. QED
    BY <1>2, <1>5, <1>6, <2>1 DEF Flush
<1>7. ASSUME ApplyUpsert PROVE SnapInv(c)'
  <2>1. PICK j : Sound(j) /\ job' = [job EXCEPT ![Agent] = j] /\ j.pc = "compare" /\ Upsert(Agent, j.cur)
    BY <1>1, <1>7, ApplyJob
  <2>2. job'[c] = job[c] /\ j.cur.obj \in Objects
    BY <1>5, <2>1 DEF Sound, Rows
  <2>3. Stored(Agent, j.cur.obj, j.cur.spec) /\ due' = due
    BY <1>7, <2>1 DEF Upsert, ApplyUpsert
  <2>4. QED
    BY <1>1, <2>2, <2>3, Elsewhere
<1>8. ASSUME ApplyDelete PROVE SnapInv(c)'
  <2>1. PICK j : Sound(j) /\ job' = [job EXCEPT ![Agent] = j]
    BY <1>1, <1>8, DeleteJob
  <2>2. Head(job[Agent].batch) \in Events
    <3>1. job[Agent].batch \in Seq(Events) /\ job[Agent].batch # <<>>
      BY <1>1, <1>8, OldJob DEF ApplyDelete, Typed
    <3>2. QED
      BY <3>1, HeadTail
  <2>3. Head(job[Agent].batch).obj \in Objects
    BY <2>2 DEF Events
  <2>4. Stored(Agent, Head(job[Agent].batch).obj, None) /\ due' = due
    BY <1>8 DEF ApplyDelete
  <2>5. QED
    BY <1>1, <1>5, <2>1, <2>3, <2>4, Elsewhere
<1>9. ASSUME BatchDone PROVE SnapInv(c)'
  BY <1>2, <1>5, <1>9, IdleSound DEF BatchDone, End
<1>10. ASSUME NEW p \in Procs, Compare(p) \/ AppendRevision(p) PROVE SnapInv(c)'
  <2>1. Midway(p) /\ UNCHANGED <<inv, due, touched>>
    BY <1>10 DEF Compare, AppendRevision, At, Midway
  <2>2. PICK j : /\ Sound(j) /\ job' = [job EXCEPT ![p] = j] /\ SameList(j, job[p])
                 /\ j.todo = job[p].todo /\ j.pc \in {"store", "append"}
    <3>1. PICK pc, cur : Turns(p, pc, cur) /\ pc \in {"store", "append"}
      BY <1>10 DEF Compare, AppendRevision, Turns
    <3>2. \E j : /\ Sound(j) /\ job' = [job EXCEPT ![p] = j] /\ SameList(j, job[p])
                 /\ j.todo = job[p].todo /\ j.pc = pc /\ j.cur = cur
      BY <1>1, <2>1, <3>1, HistoryJob
    <3>3. QED
      BY <3>1, <3>2
  <2>3. job'[p] = j /\ (p # c => job'[c] = job[c])
    BY <1>5, <2>2
  <2>4. CASE p = c
    BY <1>1, <2>1, <2>2, <2>3, <2>4, Aside DEF Midway
  <2>5. QED
    BY <1>2, <2>1, <2>3, <2>4
<1>11. ASSUME NEW d \in Collectors, Probe(d) PROVE SnapInv(c)'
  <2>1. \E j : Sound(j) /\ job' = [job EXCEPT ![d] = j]
    BY <1>1, <1>11, ProbeJob
  <2>2. d # c => job'[c] = job[c]
    BY <1>5, <2>1
  <2>3. QED
    BY <1>1, <1>2, <1>11, <2>2, BeginsEmpty DEF Probe
<1>12. ASSUME NEW d \in Collectors, List(d) \/ SkipKind(d) PROVE SnapInv(c)'
  <2>1. \E j : Sound(j) /\ job' = [job EXCEPT ![d] = j]
    BY <1>1, <1>12, ListJob, SkipJob
  <2>2. d # c => job'[c] = job[c]
    BY <1>5, <2>1
  <2>3. d # c => due'[c] = due[c] /\ touched'[c] = touched[c]
    BY <1>1, <1>12, ExpectType DEF List, SkipKind, TypeInv, TypeOK, States
  <2>4. inv' = inv
    BY <1>12 DEF List, SkipKind
  <2>5. CASE d # c
    BY <1>1, <2>2, <2>3, <2>4, <2>5, Elsewhere
  <2>6. CASE d = c
    BY <1>1, <1>12, <2>6, ListLeads, SkipLeads
  <2>7. QED
    BY <2>5, <2>6
<1>13. ASSUME NEW d \in Collectors, Store(d) PROVE SnapInv(c)'
  <2>1. PICK j : Sound(j) /\ job' = [job EXCEPT ![d] = j] /\ j.pc = "compare" /\ Upsert(d, j.cur)
    BY <1>1, <1>13, StoreJob
  <2>2. (d # c => job'[c] = job[c]) /\ j.cur.obj \in Objects
    BY <1>5, <2>1 DEF Sound, Rows
  <2>3. Stored(d, j.cur.obj, j.cur.spec) /\ due' = due
    BY <1>13, <2>1 DEF Upsert, Store
  <2>4. QED
    BY <1>1, <1>13, <2>2, <2>3, Elsewhere, StoreLeads
<1>14. ASSUME NEW d \in Collectors, Prune(d) PROVE SnapInv(c)'
  <2>1. \E j : Sound(j) /\ job' = [job EXCEPT ![d] = j]
    BY <1>1, <1>14, PruneJob
  <2>2. d # c => job'[c] = job[c]
    BY <1>5, <2>1
  <2>3. QED
    BY <1>1, <1>2, <1>14, <2>2, PruneLeads DEF Prune
<1>15. ASSUME NEW d \in Collectors, Remove(d) PROVE SnapInv(c)'
  <2>1. PICK o, j : o \in job[d].gone /\ Sound(j) /\ job' = [job EXCEPT ![d] = j] /\ Stored(d, o, None)
    BY <1>1, <1>15, RemoveJob
  <2>2. (d # c => job'[c] = job[c]) /\ o \in Objects /\ due' = due
    BY <1>1, <1>5, <1>15, <2>1, OldJob DEF Typed, Remove
  <2>3. QED
    BY <1>1, <1>15, <2>1, <2>2, Elsewhere, RemoveLeads
<1>16. ASSUME NEW d \in Collectors, Finish(d) \/ Fail(d) PROVE SnapInv(c)'
  <2>1. job' = [job EXCEPT ![d] = Idle] /\ UNCHANGED <<inv, due, touched>>
    BY <1>16 DEF Finish, Fail, End
  <2>2. job'[d] = Idle /\ (d # c => job'[c] = job[c])
    BY <1>5, <2>1, IdleSound
  <2>3. CASE d = c
    BY <2>2, <2>3, Over DEF Idle
  <2>4. QED
    BY <1>2, <2>1, <2>2, <2>3
<1>17. QED
  BY <1>3, <1>4, <1>6, <1>7, <1>8, <1>9, <1>10, <1>11, <1>12, <1>13, <1>14, <1>15, <1>16 DEF Next, Collect

\* A collection that succeeds leaves each kind as it was listed, or as it was
\* when its list failed, but for what others have written meanwhile.
THEOREM SnapshotsAreExact == Spec => []SnapshotIsExact
<1>1. Init => SnapshotInv
  <2> SUFFICES ASSUME Init PROVE SnapshotInv
    OBVIOUS
  <2>1. \A c \in Collectors : job[c].pc = "idle"
    BY DEF Init, Idle
  <2>2. QED
    BY <2>1, InitType DEF SnapshotInv, SnapInv
<1>2. SnapshotInv /\ [Next]_vars => SnapshotInv'
  BY TypeStep, SnapStep DEF SnapshotInv
<1>3. SnapshotInv => SnapshotIsExact
  <2> SUFFICES ASSUME SnapshotInv, NEW c \in Collectors, Complete(c), NEW o \in Objects
               PROVE  inv[o] = due[c][o] \/ o \in touched[c]
    BY DEF SnapshotIsExact
  <2>1. job[c].pc = "store" /\ job[c].todo = {} /\ job[c].kinds = {} /\ job[c].gone = {}
    BY DEF Complete, At
  <2>2. Leads(c, o)
    BY <2>1 DEF SnapshotInv, SnapInv, Passed
  <2>3. QED
    BY <2>1, <2>2 DEF Leads
<1>4. QED
  BY <1>1, <1>2, <1>3, PTL DEF Spec
-----------------------------------------------------------------------------
(* The history of an object.                                               *)

Revisions == [spec: Specs, at: Nat]

(* Tops, Newest and what an object with revisions has, of a sequence.      *)
TopsOf(r)   == {i \in 1 .. Len(r) : \A n \in 1 .. Len(r) : r[n].at <= r[i].at}
NewestOf(r) == IF r = <<>> THEN [spec |-> None, at |-> 0] ELSE r[Max(TopsOf(r))]
HasTop(r)   == r # <<>> => \E i \in TopsOf(r) : \A n \in TopsOf(r) : n <= i

LEMMA NewestIs == ASSUME NEW o PROVE Newest(o) = NewestOf(revs[o])
  BY DEF Newest, NewestOf, Tops, TopsOf

(* Who is at the history of an object.                                     *)
Revises(j, o) == j.pc \in {"compare", "append"} /\ j.cur.obj = o

(* The history of an object is in step with its row, or about to be.       *)
InStep(o) ==
  /\ \A p, q \in Procs : Revises(job[p], o) /\ Revises(job[q], o) => p = q
  /\ (\A p \in Procs : ~Revises(job[p], o)) => inv[o] = None \/ NewestOf(revs[o]).spec = inv[o]
  /\ \A p \in Procs : Revises(job[p], o) => /\ inv[o] \in {None, job[p].cur.spec}
                                            /\ NewestOf(revs[o]).at <= job[p].stamp

Recorded(o) == HasTop(revs[o]) /\ (o \in unsure \/ InStep(o))

RevisionInv == TypeInv /\ \A o \in Objects : Recorded(o)

LEMMA RevisingAre == ASSUME NEW o PROVE Revising(o) = {p \in Procs : Revises(job[p], o)}
  BY DEF Revising, Midway, Revises

\* The newest revision is the last of those with the greatest time.
LEMMA TopIs ==
  ASSUME NEW r \in Seq(Revisions), NEW i \in TopsOf(r), \A n \in TopsOf(r) : n <= i
  PROVE  NewestOf(r) = r[i]
<1>1. i \in 1 .. Len(r) /\ Len(r) \in Nat /\ r # <<>> /\ TopsOf(r) \subseteq Int
  BY DEF TopsOf
<1>2. Max(TopsOf(r)) \in TopsOf(r) /\ \A n \in TopsOf(r) : Max(TopsOf(r)) >= n
  <2>1. \E x \in TopsOf(r) : \A n \in TopsOf(r) : x >= n
    BY <1>1
  <2> DEFINE S == TopsOf(r)
             P(x) == x \in S /\ \A n \in S : x >= n
  <2>2. Max(S) = CHOOSE x \in S : \A n \in S : x >= n
    BY DEF Max
  <2> HIDE DEF S
  <2>3. QED
    BY <2>1, <2>2 DEF S
<1>3. Max(TopsOf(r)) = i
  BY <1>1, <1>2
<1>4. QED
  BY <1>1, <1>3 DEF NewestOf

\* A revision that is not older than the newest becomes the newest.
LEMMA AppendTop ==
  ASSUME NEW r \in Seq(Revisions), HasTop(r), NEW rev \in Revisions
  PROVE  /\ HasTop(Append(r, rev))
         /\ NewestOf(r).at <= rev.at => NewestOf(Append(r, rev)) = rev
<1> DEFINE s == Append(r, rev)
           k == Len(r) + 1
<1>1. /\ s \in Seq(Revisions) /\ Len(s) = k /\ s[k] = rev /\ Len(r) \in Nat
      /\ \A n \in 1 .. Len(r) : s[n] = r[n] /\ r[n] \in Revisions
  BY AppendType
<1>2. \A n \in 1 .. Len(r) : r[n].at \in Nat
  BY <1>1 DEF Revisions
<1>3. rev.at \in Nat
  BY DEF Revisions
<1> HIDE DEF s
<1>4. ASSUME \A n \in 1 .. Len(r) : r[n].at <= rev.at
      PROVE  HasTop(s) /\ NewestOf(s) = rev
  <2>1. k \in TopsOf(s) /\ \A n \in TopsOf(s) : n <= k
    BY <1>1, <1>3, <1>4 DEF TopsOf
  <2>2. QED
    BY <1>1, <2>1, TopIs DEF HasTop
<1>5. CASE r = <<>>
  BY <1>4, <1>5 DEF s
<1>6. CASE r # <<>>
  <2>1. PICK i \in TopsOf(r) : \A n \in TopsOf(r) : n <= i
    BY <1>6 DEF HasTop
  <2>2. NewestOf(r) = r[i] /\ i \in 1 .. Len(r) /\ \A n \in 1 .. Len(r) : r[n].at <= r[i].at
    BY <2>1, TopIs DEF TopsOf
  <2>3. CASE r[i].at <= rev.at
    <3>1. \A n \in 1 .. Len(r) : r[n].at <= rev.at
      BY <1>2, <1>3, <2>2, <2>3
    <3>2. QED
      BY <1>4, <3>1 DEF s
  <2>4. CASE ~(r[i].at <= rev.at)
    <3>1. rev.at <= r[i].at /\ ~(r[i].at <= rev.at)
      BY <1>2, <1>3, <2>2, <2>4
    <3>2. i \in TopsOf(s)
      BY <1>1, <2>2, <3>1 DEF TopsOf
    <3>3. ASSUME NEW n \in TopsOf(s) PROVE n <= i
      <4>1. n \in 1 .. k /\ s[i].at <= s[n].at /\ i \in 1 .. k
        BY <1>1, <2>2, <3>3 DEF TopsOf
      <4>2. n # k
        BY <1>1, <2>2, <3>1, <4>1
      <4>3. n \in TopsOf(r)
        BY <1>1, <3>3, <4>1, <4>2 DEF TopsOf
      <4>4. QED
        BY <2>1, <4>3
    <3>4. QED
      BY <2>2, <2>4, <3>2, <3>3 DEF HasTop, s
  <2>5. QED
    BY <2>3, <2>4
<1>7. QED
  BY <1>5, <1>6
LEMMA NewestType ==
  ASSUME NEW r \in Seq(Revisions), HasTop(r)
  PROVE  NewestOf(r).at \in Nat
<1>1. CASE r = <<>>
  BY <1>1 DEF NewestOf
<1>2. CASE r # <<>>
  <2>1. PICK i \in TopsOf(r) : \A n \in TopsOf(r) : n <= i
    BY <1>2 DEF HasTop
  <2>2. NewestOf(r) = r[i] /\ r[i] \in Revisions
    BY <2>1, TopIs DEF TopsOf
  <2>3. QED
    BY <2>2 DEF Revisions
<1>3. QED
  BY <1>1, <1>2

\* A step that neither takes up the history of an object nor leaves it, and may
\* delete its row.
LEMMA Keeps ==
  ASSUME TypeInv, NEW o \in Objects, Recorded(o),
         NEW p \in Procs, NEW j, Sound(j), job' = [job EXCEPT ![p] = j],
         Revises(j, o) <=> Revises(job[p], o),
         Revises(j, o) => j.cur = job[p].cur /\ j.stamp = job[p].stamp,
         revs'[o] = revs[o], inv'[o] \in {inv[o], None}, o \in unsure => o \in unsure'
  PROVE  Recorded(o)'
<1>1. job'[p] = j /\ \A q \in Procs \ {p} : job'[q] = job[q]
  BY JobsSound
<1>2. /\ \A q \in Procs : Revises(job'[q], o) <=> Revises(job[q], o)
      /\ \A q \in Procs : Revises(job'[q], o) => job'[q].cur = job[q].cur /\ job'[q].stamp = job[q].stamp
  BY <1>1
<1>3. InStep(o) => InStep(o)'
  BY <1>2 DEF InStep
<1>4. QED
  BY <1>3 DEF Recorded

\* A row is written, and its history taken up.
LEMMA Enters ==
  ASSUME TypeInv, NEW o \in Objects, Recorded(o),
         NEW p \in Procs, NEW j, Sound(j), job' = [job EXCEPT ![p] = j],
         j.pc = "compare", j.stamp = job[p].stamp, ~Midway(p), Upsert(p, j.cur), revs' = revs
  PROVE  Recorded(o)'
<1>1. job'[p] = j /\ \A q \in Procs \ {p} : job'[q] = job[q]
  BY JobsSound
<1>2. inv' = [inv EXCEPT ![j.cur.obj] = j.cur.spec] /\ inv \in States /\ j.cur.obj \in Objects
  BY DEF Upsert, Stored, TypeInv, TypeOK, States, Sound, Rows
<1>3. CASE o # j.cur.obj
  <2>1. ~Revises(j, o) /\ ~Revises(job[p], o) /\ inv'[o] = inv[o] /\ (o \in unsure => o \in unsure')
    BY <1>2, <1>3 DEF Revises, Midway, Upsert, States
  <2>2. QED
    BY <2>1, Keeps
<1>4. CASE o = j.cur.obj /\ o \notin unsure'
  <2>1. Revising(o) = {} /\ ~(job[p].stamp < NewestOf(revs[o]).at)
    BY <1>4, NewestIs DEF Upsert
  <2>2. \A q \in Procs : ~Revises(job[q], o)
    BY <2>1, RevisingAre
  <2>3. NewestOf(revs[o]).at \in Nat /\ j.stamp \in Nat
    <3>1. revs[o] \in Seq(Revisions) /\ HasTop(revs[o])
      BY DEF TypeInv, TypeOK, Recorded, Revisions
    <3>2. j.stamp \in Nat
      BY JobFields DEF Sound, Typed
    <3>3. QED
      BY <3>1, <3>2, NewestType
  <2>4. NewestOf(revs[o]).at <= j.stamp
    BY <2>1, <2>3
  <2>5. \A q \in Procs : Revises(job'[q], o) => q = p
    BY <1>1, <2>2
  <2>6. inv'[o] = j.cur.spec /\ Revises(j, o)
    BY <1>2, <1>4 DEF States, Revises
  <2>7. InStep(o)'
    BY <1>1, <2>4, <2>5, <2>6 DEF InStep
  <2>8. QED
    BY <2>7 DEF Recorded
<1>5. CASE o \in unsure'
  BY <1>5 DEF Recorded
<1>6. QED
  BY <1>3, <1>4, <1>5

\* The history of an object is left, as it should be or in doubt.
LEMMA Leaves ==
  ASSUME TypeInv, NEW o \in Objects, Recorded(o),
         NEW p \in Procs, NEW j, Sound(j), job' = [job EXCEPT ![p] = j], j.pc = "store",
         Revises(job[p], o), inv' = inv, HasTop(revs'[o]),
         o \in unsure' \/ (unsure' = Sure(p, o) /\ NewestOf(revs'[o]).spec = job[p].cur.spec)
  PROVE  Recorded(o)'
<1>1. job'[p] = j /\ \A q \in Procs \ {p} : job'[q] = job[q]
  BY JobsSound
<1>2. ~Revises(j, o)
  BY DEF Revises
<1>3. ASSUME o \notin unsure' PROVE InStep(o)'
  <2>1. unsure' = Sure(p, o) /\ NewestOf(revs'[o]).spec = job[p].cur.spec
    BY <1>3
  <2>2. \A q \in Procs : Revises(job[q], o) => q = p
    <3>1. CASE o \in unsure
      <4>1. Revising(o) = {p}
        BY <1>3, <2>1, <3>1 DEF Sure
      <4>2. QED
        BY <4>1, RevisingAre
    <3>2. CASE o \notin unsure
      BY <3>2 DEF Recorded, InStep
    <3>3. QED
      BY <3>1, <3>2
  <2>3. inv[o] \in {None, job[p].cur.spec}
    <3>1. CASE o \in unsure
      BY <1>3, <2>1, <3>1 DEF Sure
    <3>2. CASE o \notin unsure
      BY <3>2 DEF Recorded, InStep
    <3>3. QED
      BY <3>1, <3>2
  <2>4. \A q \in Procs : ~Revises(job'[q], o)
    BY <1>1, <1>2, <2>2
  <2>5. inv'[o] = None \/ NewestOf(revs'[o]).spec = inv'[o]
    BY <2>1, <2>3
  <2>6. QED
    BY <2>4, <2>5 DEF InStep
<1>4. QED
  BY <1>3 DEF Recorded

\* A step away from the histories, which may delete rows.
LEMMA Calm ==
  ASSUME TypeInv, NEW o \in Objects, Recorded(o),
         NEW p \in Procs, NEW j, Sound(j), job' = [job EXCEPT ![p] = j],
         j.pc \notin {"compare", "append"}, job[p].pc \notin {"compare", "append"},
         revs' = revs, unsure' = unsure,
         inv' = inv \/ \E u \in Objects : inv' = [inv EXCEPT ![u] = None]
  PROVE  Recorded(o)'
<1>1. ~Revises(j, o) /\ ~Revises(job[p], o)
  BY DEF Revises
<1>2. inv'[o] \in {inv[o], None}
  BY DEF TypeInv, TypeOK
<1>3. QED
  BY <1>1, <1>2, Keeps

LEMMA CompareStep ==
  ASSUME TypeInv, NEW o \in Objects, Recorded(o), NEW p \in Procs, Compare(p)
  PROVE  Recorded(o)'
<1> DEFINE u == job[p].cur.obj
<1>1. job[p].pc = "compare" /\ Midway(p) /\ revs' = revs /\ inv' = inv
  BY DEF Compare, At, Midway
<1>2. CASE Newest(u).spec = job[p].cur.spec
  <2>1. Turns(p, "store", None) /\ unsure' = Sure(p, u)
    BY <1>2 DEF Compare, Turns
  <2>2. PICK j : Sound(j) /\ job' = [job EXCEPT ![p] = j] /\ j.pc = "store"
    BY <1>1, <2>1, HistoryJob
  <2>3. CASE o = u
    <3>1. Revises(job[p], o) /\ HasTop(revs'[o]) /\ NewestOf(revs'[o]).spec = job[p].cur.spec
      BY <1>1, <1>2, <2>3, NewestIs DEF Revises, Recorded
    <3>2. QED
      BY <1>1, <2>1, <2>2, <2>3, <3>1, Leaves
  <2>4. CASE o # u
    <3>1. ~Revises(job[p], o) /\ ~Revises(j, o) /\ (o \in unsure => o \in unsure')
      BY <2>1, <2>2, <2>4 DEF Revises, Sure
    <3>2. QED
      BY <1>1, <2>2, <3>1, Keeps
  <2>5. QED
    BY <2>3, <2>4
<1>3. CASE Newest(u).spec # job[p].cur.spec
  <2>1. Turns(p, "append", job[p].cur) /\ unsure' = unsure
    BY <1>3 DEF Compare, Turns
  <2>2. PICK j : /\ Sound(j) /\ job' = [job EXCEPT ![p] = j] /\ SameList(j, job[p])
                 /\ j.pc = "append" /\ j.cur = job[p].cur
    BY <1>1, <2>1, HistoryJob
  <2>3. j.stamp = job[p].stamp /\ (Revises(j, o) <=> Revises(job[p], o))
    BY <1>1, <2>2 DEF Revises, SameList
  <2>4. QED
    BY <1>1, <2>1, <2>2, <2>3, Keeps
<1>4. QED
  BY <1>2, <1>3

\* A revision is stored where it is the newest, or the object is in doubt.
LEMMA AppendStep ==
  ASSUME TypeInv, NEW o \in Objects, Recorded(o), NEW p \in Procs, AppendRevision(p)
  PROVE  Recorded(o)'
<1> DEFINE it == job[p].cur
           u == it.obj
           rev == [spec |-> it.spec, at |-> job[p].stamp]
<1>1. job[p].pc = "append" /\ Midway(p) /\ inv' = inv /\ Turns(p, "store", None)
  BY DEF AppendRevision, At, Midway, Turns
<1>2. PICK j : Sound(j) /\ job' = [job EXCEPT ![p] = j] /\ j.pc = "store"
  BY <1>1, HistoryJob
<1>3. it \in Rows /\ Typed(job[p]) /\ revs \in [Objects -> Seq(Revisions)]
  BY RevisionType, OldJob DEF TypeInv, TypeOK, Revisions
<1>4. u \in Objects /\ rev \in Revisions /\ rev.spec = it.spec /\ rev.at = job[p].stamp
  BY <1>3 DEF Rows, Revisions, Typed
<1>5. \/ revs' = revs /\ unsure' = unsure \cup {u}
      \/ /\ revs' = [revs EXCEPT ![u] = Append(@, rev)]
         /\ unsure' = IF rev.at >= Newest(u).at THEN Sure(p, u) ELSE unsure
  BY DEF AppendRevision
<1> HIDE DEF rev
<1>6. CASE o # u
  <2>1. ~Revises(job[p], o) /\ ~Revises(j, o)
    BY <1>2, <1>6 DEF Revises
  <2>2. revs'[o] = revs[o] /\ (o \in unsure => o \in unsure')
    BY <1>3, <1>5, <1>6 DEF Sure
  <2>3. QED
    BY <1>1, <1>2, <2>1, <2>2, Keeps
<1>7. CASE o = u
  <2>1. Revises(job[p], o) /\ HasTop(revs[o]) /\ revs[o] \in Seq(Revisions)
    BY <1>1, <1>3, <1>7 DEF Revises, Recorded
  <2>2. CASE revs' = revs /\ unsure' = unsure \cup {u}
    BY <1>1, <1>2, <1>7, <2>1, <2>2, Leaves
  <2>3. CASE /\ revs' = [revs EXCEPT ![u] = Append(@, rev)]
             /\ unsure' = IF rev.at >= Newest(u).at THEN Sure(p, u) ELSE unsure
    <3>1. revs'[o] = Append(revs[o], rev)
      BY <1>3, <1>7, <2>3
    <3>2. /\ HasTop(revs'[o])
          /\ NewestOf(revs[o]).at <= rev.at => NewestOf(revs'[o]) = rev
      BY <1>4, <2>1, <3>1, AppendTop
    <3>3. NewestOf(revs[o]).at \in Nat /\ rev.at \in Nat
      BY <1>4, <2>1, NewestType DEF Revisions
    <3>4. CASE NewestOf(revs[o]).at <= rev.at
      <4>1. unsure' = Sure(p, o)
        BY <1>7, <2>3, <3>3, <3>4, NewestIs
      <4>2. NewestOf(revs'[o]).spec = it.spec
        BY <1>4, <3>2, <3>4
      <4>3. QED
        BY <1>1, <1>2, <2>1, <3>2, <4>1, <4>2, Leaves
    <3>5. CASE ~(NewestOf(revs[o]).at <= rev.at)
      <4>1. o \in unsure
        BY <1>4, <2>1, <3>5 DEF Recorded, InStep
      <4>2. unsure' = unsure
        BY <1>7, <2>3, <3>3, <3>5, NewestIs
      <4>3. QED
        BY <1>1, <1>2, <2>1, <3>2, <4>1, <4>2, Leaves
    <3>6. QED
      BY <3>4, <3>5
  <2>4. QED
    BY <1>5, <2>2, <2>3
<1>8. QED
  BY <1>6, <1>7

\* Cut off between the row and the history of an object: it is in doubt.
LEMMA FailStep ==
  ASSUME TypeInv, NEW o \in Objects, Recorded(o), NEW c \in Collectors, Fail(c)
  PROVE  Recorded(o)'
<1>1. job' = [job EXCEPT ![c] = Idle] /\ inv' = inv /\ revs' = revs /\ unsure \subseteq unsure'
  BY DEF Fail, End
<1>2. ~Revises(Idle, o)
  BY DEF Revises, Idle
<1>3. CASE o \in unsure'
  BY <1>1, <1>3 DEF Recorded
<1>4. CASE o \notin unsure'
  <2>1. ~Revises(job[c], o)
    BY <1>4 DEF Revises, Fail, Midway
  <2>2. QED
    BY <1>1, <1>2, <2>1, IdleSound, Keeps
<1>5. QED
  BY <1>3, <1>4
\* The inventory is empty, or every row has its one revision.
LEMMA InitRecorded == ASSUME Init, NEW o \in Objects PROVE Recorded(o)
<1>1. \A p \in Procs : ~Revises(job[p], o)
  BY DEF Init, Idle, Revises
<1>2. CASE inv = Absent /\ revs = [u \in Objects |-> <<>>]
  <2>1. inv[o] = None /\ revs[o] = <<>>
    BY <1>2 DEF Absent
  <2>2. QED
    BY <1>1, <2>1 DEF Recorded, HasTop, InStep
<1>3. CASE \E at \in [Objects -> 1 .. Cardinality(Objects)] :
             /\ inv = world
             /\ revs = [u \in Objects |-> IF world[u] = None THEN <<>> ELSE <<[spec |-> world[u], at |-> at[u]]>>]
  <2>1. PICK at \in [Objects -> 1 .. Cardinality(Objects)] :
             /\ inv = world
             /\ revs = [u \in Objects |-> IF world[u] = None THEN <<>> ELSE <<[spec |-> world[u], at |-> at[u]]>>]
    BY <1>3
  <2>2. world[o] \in Specs \cup {None} /\ inv[o] = world[o]
    BY <2>1 DEF Init
  <2>3. CASE world[o] = None
    <3>1. revs[o] = <<>>
      BY <2>1, <2>3
    <3>2. QED
      BY <1>1, <2>2, <2>3, <3>1 DEF Recorded, HasTop, InStep
  <2>4. CASE world[o] # None
    <3> DEFINE rev == [spec |-> world[o], at |-> at[o]]
    <3>1. revs[o] = <<rev>> /\ rev.spec = inv[o]
      BY <2>1, <2>2, <2>4
    <3>2. rev \in Revisions
      <4>1. Cardinality(Objects) \in Nat
        BY KindsAssumption, FS_CardinalityType
      <4>2. QED
        BY <2>2, <2>4, <4>1 DEF Revisions
    <3> HIDE DEF rev
    <3>3. revs[o] \in Seq(Revisions) /\ Len(revs[o]) = 1 /\ revs[o][1] = rev /\ rev.at <= rev.at
      BY <3>1, <3>2 DEF Revisions
    <3>4. 1 \in TopsOf(revs[o]) /\ \A n \in TopsOf(revs[o]) : n <= 1
      BY <3>3 DEF TopsOf
    <3>5. NewestOf(revs[o]) = rev
      BY <3>3, <3>4, TopIs
    <3>6. QED
      BY <1>1, <3>1, <3>4, <3>5 DEF Recorded, HasTop, InStep
  <2>5. QED
    BY <2>3, <2>4
<1>4. QED
  BY <1>2, <1>3 DEF Init

\* Every step keeps the history of every object.
LEMMA RevisionStep == ASSUME RevisionInv, [Next]_vars, NEW o \in Objects PROVE Recorded(o)'
<1> USE DEF history
<1>1. TypeInv /\ Recorded(o)
  BY DEF RevisionInv
<1>2. ASSUME UNCHANGED <<inv, revs, job, unsure>> PROVE Recorded(o)'
  BY <1>1, <1>2 DEF Recorded, InStep
<1>3. CASE UNCHANGED vars
  BY <1>2, <1>3 DEF vars
<1>4. ASSUME NEW u \in Objects, NEW s \in Specs \cup {None}, Change(u, s) PROVE Recorded(o)'
  BY <1>2, <1>4 DEF Change
<1>5. ASSUME NEW n \in 1 .. Len(watched), Flush(n) PROVE Recorded(o)'
  <2>1. PICK j : Sound(j) /\ job' = [job EXCEPT ![Agent] = j] /\ j.pc = "store" /\ job[Agent].pc = "idle"
    BY <1>1, <1>5, FlushJob
  <2>2. QED
    BY <1>1, <1>5, <2>1, Calm DEF Flush
<1>6. ASSUME ApplyUpsert PROVE Recorded(o)'
  <2>1. PICK j : /\ Sound(j) /\ job' = [job EXCEPT ![Agent] = j] /\ j.pc = "compare"
                 /\ j.stamp = job[Agent].stamp /\ Upsert(Agent, j.cur)
    BY <1>1, <1>6, ApplyJob
  <2>2. ~Midway(Agent) /\ revs' = revs
    BY <1>6 DEF ApplyUpsert, At, Midway
  <2>3. QED
    BY <1>1, <2>1, <2>2, Enters
<1>7. ASSUME ApplyDelete PROVE Recorded(o)'
  <2>1. PICK j : Sound(j) /\ job' = [job EXCEPT ![Agent] = j] /\ j.pc = "store" /\ job[Agent].pc = "store"
    BY <1>1, <1>7, DeleteJob
  <2>2. job[Agent].batch \in Seq(Events) /\ job[Agent].batch # <<>>
    BY <1>1, <1>7, OldJob DEF ApplyDelete, Typed
  <2>3. Head(job[Agent].batch).obj \in Objects
    <3>1. Head(job[Agent].batch) \in Events
      BY <2>2, HeadTail
    <3>2. QED
      BY <3>1 DEF Events
  <2>4. /\ inv' = [inv EXCEPT ![Head(job[Agent].batch).obj] = None]
        /\ revs' = revs /\ unsure' = unsure
    BY <1>7 DEF ApplyDelete, Stored
  <2>5. QED
    BY <1>1, <2>1, <2>3, <2>4, Calm
<1>8. ASSUME BatchDone PROVE Recorded(o)'
  <2>1. /\ job' = [job EXCEPT ![Agent] = Idle] /\ job[Agent].pc = "store" /\ Idle.pc = "idle"
        /\ inv' = inv /\ revs' = revs /\ unsure' = unsure
    BY <1>8 DEF BatchDone, End, At, Idle
  <2>2. QED
    BY <1>1, <2>1, IdleSound, Calm
<1>9. ASSUME NEW p \in Procs, Compare(p) \/ AppendRevision(p) PROVE Recorded(o)'
  BY <1>1, <1>9, CompareStep, AppendStep
<1>10. ASSUME NEW c \in Collectors, Probe(c) \/ List(c) \/ SkipKind(c) PROVE Recorded(o)'
  <2>1. PICK j : Sound(j) /\ job' = [job EXCEPT ![c] = j] /\ j.pc \in {"list", "store"}
    BY <1>1, <1>10, ProbeJob, ListJob, SkipJob
  <2>2. job[c].pc \in {"idle", "list"} /\ inv' = inv /\ revs' = revs /\ unsure' = unsure
    BY <1>10 DEF Probe, List, SkipKind, At
  <2>3. QED
    BY <1>1, <2>1, <2>2, Calm
<1>11. ASSUME NEW c \in Collectors, Store(c) PROVE Recorded(o)'
  <2>1. PICK j : /\ Sound(j) /\ job' = [job EXCEPT ![c] = j] /\ SameList(j, job[c])
                 /\ j.pc = "compare" /\ Upsert(c, j.cur)
    BY <1>1, <1>11, StoreJob
  <2>2. ~Midway(c) /\ revs' = revs
    BY <1>11 DEF Store, At, Midway
  <2>3. QED
    BY <1>1, <2>1, <2>2, Enters DEF SameList
<1>12. ASSUME NEW c \in Collectors, Prune(c) PROVE Recorded(o)'
  <2>1. PICK j : Sound(j) /\ job' = [job EXCEPT ![c] = j] /\ j.pc = "store" /\ job[c].pc = "store"
    BY <1>1, <1>12, PruneJob
  <2>2. QED
    BY <1>1, <1>12, <2>1, Calm DEF Prune
<1>13. ASSUME NEW c \in Collectors, Remove(c) PROVE Recorded(o)'
  <2>1. PICK u, j : /\ u \in job[c].gone /\ Sound(j) /\ job' = [job EXCEPT ![c] = j] /\ Stored(c, u, None)
                     /\ j.pc = "store" /\ job[c].pc = "store"
    BY <1>1, <1>13, RemoveJob
  <2>2. u \in Objects /\ inv' = [inv EXCEPT ![u] = None] /\ revs' = revs /\ unsure' = unsure
    BY <1>1, <1>13, <2>1, OldJob DEF Typed, Remove, Stored
  <2>3. QED
    BY <1>1, <2>1, <2>2, Calm
<1>14. ASSUME NEW c \in Collectors, Finish(c) PROVE Recorded(o)'
  <2>1. /\ job' = [job EXCEPT ![c] = Idle] /\ job[c].pc = "store" /\ Idle.pc = "idle"
        /\ inv' = inv /\ revs' = revs /\ unsure' = unsure
    BY <1>14 DEF Finish, Complete, End, At, Idle
  <2>2. QED
    BY <1>1, <2>1, IdleSound, Calm
<1>15. ASSUME NEW c \in Collectors, Fail(c) PROVE Recorded(o)'
  BY <1>1, <1>15, FailStep
<1>16. QED
  BY <1>3, <1>4, <1>5, <1>6, <1>7, <1>8, <1>9, <1>10, <1>11, <1>12, <1>13, <1>14, <1>15 DEF Next, Collect

\* The newest revision of an object has the spec of its row (RecordK8sRevision),
\* once whoever wrote the row is through with it, but for the objects whose
\* history may have missed a change.
THEOREM RevisionsAreKept == Spec => []RevisionsFollow
<1>1. Init => RevisionInv
  BY InitType, InitRecorded DEF RevisionInv
<1>2. RevisionInv /\ [Next]_vars => RevisionInv'
  BY TypeStep, RevisionStep DEF RevisionInv
<1>3. RevisionInv => RevisionsFollow
  <2> SUFFICES ASSUME RevisionInv, NEW o \in Objects, inv[o] # None, Revising(o) = {}, o \notin unsure
               PROVE  Newest(o).spec = inv[o]
    BY DEF RevisionsFollow
  <2>1. InStep(o) /\ \A p \in Procs : ~Revises(job[p], o)
    BY RevisingAre DEF RevisionInv, Recorded
  <2>2. QED
    BY <2>1, NewestIs DEF InStep
<1>4. QED
  BY <1>1, <1>2, <1>3, PTL DEF Spec
=============================================================================
