-------------------------- MODULE RuntimeSettings --------------------------
(***************************************************************************)
(* The settings administrators keep in admin_settings and the copy each    *)
(* pod runs on (internal/proxy/admin_settings.go, internal/store/          *)
(* admin_settings.go): requests write a setting or several, one            *)
(* transaction each, and reload the pod that serves them; every pod polls  *)
(* a change token and reloads when it differs from the one it saw last.    *)
(*                                                                         *)
(* Several pods share PostgreSQL, where transactions interleave; a single  *)
(* pod on SQLite has some of these behaviours.  Pods have the same         *)
(* environment and their clocks agree.  A value None is the environment's. *)
(* Roles, validation, secrets and history are left out, as is a poll that  *)
(* cannot read the token, which changes nothing.                           *)
(***************************************************************************)
EXTENDS Naturals, Sequences, FiniteSets, FiniteSetsExt, PodSettings

CONSTANTS
  Keys, Values,
  Admins,    \* requests that may be served at the same time
  Before,    \* what settings may have been stored before
  Requests,  \* what a request may ask for: a sequence of items
  Budgets,   \* how many edits, faults and restarts may happen: one of these
  None

Items == [key: Keys, val: Values \cup {None}]

ASSUME ValuesAssumption   == None \notin Values /\ Before \subseteq Values
ASSUME RequestsAssumption == Requests \subseteq Seq(Items) \ {<<>>}
ASSUME BudgetsAssumption  == Budgets \subseteq [{"edits", "faults", "restarts"} -> Nat]

VARIABLES
  table,   \* admin_settings
  clock,   \* the wall clock: each reading is later than the one before
  adm,     \* the request each administrator has in a handler
  left,    \* what is left of the budget
  (* history *)
  gen,     \* changes of the table so far
  raced,   \* a write overlapped another one's commit
  cut      \* gen when a row was last deleted

db   == <<table, gen, raced, cut>>
vars == <<db, pods, clock, adm, left>>

NoRow  == [val |-> None, version |-> 0, stamp |-> 0]
Stored == [k \in Keys |-> table[k].val]
Env    == [k \in Keys |-> None]

(* AdminSettingsChangeToken: COUNT, SUM(version) and MAX(updated_at).      *)
Rows == {k \in Keys : table[k] # NoRow}

Token_CountOnly == <<Cardinality(Rows), 0, 0>>

Token == <<Cardinality(Rows), FoldSet(LAMBDA k, n : table[k].version + n, 0, Keys),
           Max({0} \cup {table[k].stamp : k \in Rows})>>

Spend(what) == left[what] > 0 /\ left' = [left EXCEPT ![what] = @ - 1]

-----------------------------------------------------------------------------
(* reloadRuntimeConfig: a list of the settings, which are none when it     *)
(* fails, then the swap of the pod's copies (Swap).                        *)
Listed == [vals |-> Stored, gen |-> gen, failed |-> FALSE]
Blind  == [vals |-> Env, gen |-> 0, failed |-> TRUE]

-----------------------------------------------------------------------------
(* Requests: PUT, DELETE, bulk and import, the rollback of a key.          *)

Idle == [pc |-> "idle", pod |-> None, todo |-> <<>>, stamp |-> 0, row |-> NoRow,
         seen |-> 0, copy |-> Blind]

At(a, pc) == adm[a].pc = pc

(* A request reaches a pod, or one that is none of Pods.                   *)
Post(a, q, items) ==
  /\ At(a, "idle")
  /\ left["edits"] >= Len(items) /\ left' = [left EXCEPT !["edits"] = @ - Len(items)]
  /\ adm' = [adm EXCEPT ![a] = [Idle EXCEPT !.pc = "begin", !.pod = q, !.todo = items]]
  /\ UNCHANGED <<db, pods, clock>>

Item(a) == Head(adm[a].todo)

(* The time is taken, then the transaction reads the row.                  *)
Begin(a) ==
  /\ At(a, "begin")
  /\ clock' = clock + 1
  /\ adm' = [adm EXCEPT ![a].pc = "commit", ![a].stamp = clock + 1,
                        ![a].row = table[Item(a).key], ![a].seen = gen]
  /\ UNCHANGED <<db, pods, left>>

Write_Tombstone(k, row) ==
  /\ table' = [table EXCEPT ![k] = [row EXCEPT !.version = @ + table[k].version]]
  /\ gen' = gen + 1

Write(k, row) ==
  /\ table' = [table EXCEPT ![k] = row]
  /\ gen' = gen + 1

(* UpsertAdminSetting and DeleteAdminSetting, which finds nothing to do    *)
(* when it read no row.  The reload follows the last item.  A pod that is  *)
(* none of Pods reloads as well, but nobody looks at it.                   *)
Commit(a) ==
  /\ At(a, "commit")
  /\ LET it == Item(a)  w == adm[a] IN
       /\ \/ /\ it.val # None
             /\ Write(it.key, [val |-> it.val, version |-> w.row.version + 1, stamp |-> w.stamp])
          \/ it.val = None /\ w.row # NoRow /\ Write(it.key, NoRow)
          \/ it.val = None /\ w.row = NoRow /\ UNCHANGED <<table, gen>>
       /\ raced' = (raced \/ w.seen # gen)
       /\ cut' = IF it.val = None /\ w.row # NoRow THEN gen + 1 ELSE cut
       /\ adm' = [adm EXCEPT ![a] =
            IF Len(w.todo) = 1 /\ w.pod = None THEN Idle
            ELSE [w EXCEPT !.todo = Tail(@), !.row = NoRow, !.stamp = 0, !.seen = 0,
                           !.pc = IF Len(w.todo) = 1 THEN "list" ELSE "begin"]]
  /\ UNCHANGED <<pods, clock, left>>

(* A write fails: what was written before stays and nothing is reloaded.   *)
WriteFails(a) ==
  /\ At(a, "commit") /\ Spend("faults")
  /\ adm' = [adm EXCEPT ![a] = Idle]
  /\ UNCHANGED <<db, pods, clock>>

List(a) ==
  /\ At(a, "list")
  /\ adm' = [adm EXCEPT ![a].pc = "swap", ![a].copy = Listed]
  /\ UNCHANGED <<db, pods, clock, left>>

(* The list fails, say because the client has gone.                        *)
ListFails(a) ==
  /\ At(a, "list") /\ Spend("faults")
  /\ adm' = [adm EXCEPT ![a].pc = "swap", ![a].copy = Blind]
  /\ UNCHANGED <<db, pods, clock>>

Reloaded(a) ==
  /\ At(a, "swap")
  /\ Swap(adm[a].pod, adm[a].copy)
  /\ adm' = [adm EXCEPT ![a] = Idle]
  /\ UNCHANGED <<db, loop, last, clock, left>>

-----------------------------------------------------------------------------
(* runtimeReloadLoop.                                                      *)

Starting == [pc |-> "seed", tok |-> <<0, 0, 0>>, gen |-> 0, copy |-> Blind]

(* The first token, of the table as it is by then.                         *)
Seed(q) ==
  /\ loop[q].pc = "seed"
  /\ last' = [last EXCEPT ![q] = [tok |-> Token, gen |-> gen]]
  /\ misled' = [misled EXCEPT ![q] = IF @ = "no" /\ conf[q].gen < gen THEN "seed" ELSE @]
  /\ loop' = [loop EXCEPT ![q].pc = "idle"]
  /\ UNCHANGED <<db, conf, clock, adm, left>>

(* The ticker: the token is read before the reload.                        *)
Poll(q) ==
  /\ loop[q].pc = "idle" /\ Token # last[q].tok
  /\ loop' = [loop EXCEPT ![q].pc = "list", ![q].tok = Token, ![q].gen = gen]
  /\ UNCHANGED <<db, conf, last, misled, clock, adm, left>>

PollList(q) ==
  /\ loop[q].pc = "list"
  /\ loop' = [loop EXCEPT ![q].pc = "swap", ![q].copy = Listed]
  /\ UNCHANGED <<db, conf, last, misled, clock, adm, left>>

PollListFails(q) ==
  /\ loop[q].pc = "list" /\ Spend("faults")
  /\ loop' = [loop EXCEPT ![q].pc = "swap", ![q].copy = Blind]
  /\ UNCHANGED <<db, conf, last, misled, clock, adm>>

PollReloaded_TokenAfter(q) ==
  /\ loop[q].pc = "swap"
  /\ Swap(q, loop[q].copy)
  /\ last' = [last EXCEPT ![q] = [tok |-> Token, gen |-> gen]]
  /\ loop' = [loop EXCEPT ![q] = [Starting EXCEPT !.pc = "idle"]]
  /\ UNCHANGED <<db, clock, adm, left>>

(* The reload ends; the token read before it is the last one now, whether  *)
(* the list failed or not.                                                 *)
PollReloaded(q) ==
  /\ loop[q].pc = "swap"
  /\ Swap(q, loop[q].copy)
  /\ last' = [last EXCEPT ![q] = [tok |-> loop[q].tok, gen |-> loop[q].gen]]
  /\ loop' = [loop EXCEPT ![q] = [Starting EXCEPT !.pc = "idle"]]
  /\ UNCHANGED <<db, clock, adm, left>>

(* A pod is replaced: its requests end, settings are loaded (or not) and   *)
(* the loop starts.                                                        *)
Restart(q) ==
  /\ \/ Spend("restarts") /\ Swap(q, Listed)
     \/ /\ left["restarts"] > 0 /\ left["faults"] > 0
        /\ left' = [left EXCEPT !["restarts"] = @ - 1, !["faults"] = @ - 1]
        /\ Swap(q, Blind)
  /\ loop' = [loop EXCEPT ![q] = Starting]
  /\ last' = [last EXCEPT ![q] = [tok |-> <<0, 0, 0>>, gen |-> 0]]
  /\ adm' = [a \in Admins |-> IF adm[a].pod = q THEN Idle ELSE adm[a]]
  /\ UNCHANGED <<db, clock>>

-----------------------------------------------------------------------------
Init ==
  /\ table \in [Keys -> {NoRow} \cup [val: Before, version: {1}, stamp: {1}]]
  /\ clock = 1 /\ gen = 0 /\ raced = FALSE /\ cut = 0
  /\ conf = [q \in Pods |-> [vals |-> Stored, gen |-> 0]]
  /\ loop = [q \in Pods |-> Starting]
  /\ last = [q \in Pods |-> [tok |-> <<0, 0, 0>>, gen |-> 0]]
  /\ misled = [q \in Pods |-> "no"]
  /\ adm = [a \in Admins |-> Idle]
  /\ left \in Budgets

Serve(a) == Begin(a) \/ Commit(a) \/ List(a) \/ Reloaded(a)

Tend(q) == Seed(q) \/ Poll(q) \/ PollList(q) \/ PollReloaded(q)

Next ==
  \/ \E a \in Admins : \/ \E q \in Pods \cup {None}, items \in Requests : Post(a, q, items)
                       \/ Serve(a) \/ WriteFails(a) \/ ListFails(a)
  \/ \E q \in Pods : Tend(q) \/ PollListFails(q) \/ Restart(q)

(* Handlers run to their end and the loop's ticker keeps ticking.          *)
Spec == /\ Init /\ [][Next]_vars
        /\ \A a \in Admins : WF_vars(Serve(a))
        /\ \A q \in Pods : WF_vars(Tend(q))

-----------------------------------------------------------------------------
Row    == [val: Values \cup {None}, version: Nat, stamp: Nat]
Copies == [vals: [Keys -> Values \cup {None}], gen: Nat, failed: BOOLEAN]
Tokens == Nat \X Nat \X Nat

TypeOK ==
  /\ table \in [Keys -> Row] /\ \A k \in Rows : table[k].val # None
  /\ clock \in Nat /\ gen \in Nat /\ raced \in BOOLEAN /\ cut \in Nat
  /\ conf \in [Pods -> [vals: [Keys -> Values \cup {None}], gen: Nat]]
  /\ loop \in [Pods -> [pc: {"seed", "idle", "list", "swap"}, tok: Tokens, gen: Nat, copy: Copies]]
  /\ last \in [Pods -> [tok: Tokens, gen: Nat]]
  /\ misled \in [Pods -> {"no", "seed", "fault", "overtaken"}]
  /\ adm \in [Admins -> [pc: {"idle", "begin", "commit", "list", "swap"}, pod: Pods \cup {None},
                         todo: Seq(Items), stamp: Nat, row: Row, seen: Nat, copy: Copies]]
  /\ left \in [{"edits", "faults", "restarts"} -> Nat]

(* The token is the one the pod knows although the table has changed since:*)
(* a row was deleted, and the token is back at what it was before the row  *)
(* came, or a write overlapped another one.                                *)
Fooled(q) == last[q].tok = Token /\ (raced \/ last[q].gen < cut)

\* Once administrators stop, every pod comes to run on the stored settings and
\* stays there, but for a pod misled in one of those ways or fooled by a token
\* that came back to what it was.
Converges == <>[](\A q \in Pods : conf[q].vals = Stored \/ misled[q] # "no" \/ Fooled(q))
=============================================================================
