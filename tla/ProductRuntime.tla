--------------------------- MODULE ProductRuntime ---------------------------
(***************************************************************************)
(* POST /v1/data-products/{key}/query (internal/proxy/dataworks_runtime.go)*)
(* read by read, against administrators who post contracts and grants of   *)
(* access meanwhile (internal/proxy/admin_dataworks.go), with the per      *)
(* minute limiter (dataworks_ratelimit.go) and the deferred metering       *)
(* (internal/store/dataworks_advanced.go).                                 *)
(*                                                                         *)
(* Abstractions.  All clients present one API key, every grant's scope     *)
(* allows queries, a product has fewer than the 50 grants a listing is cut *)
(* at; customers and the answer's fields are left out.  A grant "permits"  *)
(* when it is active and not expired; a contract is "open" when its status *)
(* and window let it serve.  A body is good or bad.  A post whose reads or *)
(* write fail changes nothing.                                             *)
(***************************************************************************)
EXTENDS Naturals, Sequences, FiniteSets

CONSTANTS
  Clients,      \* requests that may be served at the same time
  Admins,       \* administrators' requests, likewise
  Products, Contracts, Grants,
  Sensitive,    \* products whose contracts must state a purpose
  Limits,       \* rate_limit values a contract may have; 0 is unlimited
  Offered,      \* the contracts administrators post
  MaxTracked,   \* rateLimiterMaxKeys
  LastMinute,   \* bound on the clock
  Budgets,      \* how many queries, edits, faults and ticks may happen: one of these
  None          \* no row, no copy

ASSUME FiniteAssumption    == IsFiniteSet(Clients) /\ IsFiniteSet(Grants)
ASSUME LimitsAssumption    == Limits \subseteq Nat
ASSUME SensitiveAssumption == Sensitive \subseteq Products
ASSUME BoundsAssumption    ==
  /\ {MaxTracked, LastMinute} \subseteq Nat
  /\ Budgets \subseteq [{"queries", "edits", "faults", "ticks"} -> Nat]

VARIABLES
  published,  \* products whose row is in status published
  contracts,  \* dw_contract_scopes
  grants,     \* dw_api_entitlements
  newer,      \* pairs of grants of which the first was written later
  posts,      \* the upsert each administrator has checked, or None
  clock,      \* the wall clock's minute
  windows,    \* contractRateLimiter.windows
  h,          \* the request each client has in the handler
  meter,      \* dw_usage_metering, one day of it
  left,       \* what is left of the budget
  (* history *)
  steady,     \* contracts of h[c].product in force ever since c's listing
  lately,     \* contracts in force at some moment since c chose a grant
  admitted,   \* calls the limiter let through, by contract and minute
  latest,     \* latest minute of a call the limiter has seen
  late,       \* contracts and minutes a call from an earlier minute disturbed
  answers,    \* answers given under a contract, by kind
  lost        \* of these, the ones whose metering statement failed

tables  == <<published, contracts, grants, newer, posts>>
limiter == <<windows, admitted, latest, late>>
books   == <<meter, answers, lost>>
vars    == <<tables, limiter, books, clock, h, left, steady, lately>>

Minutes == 0 .. LastMinute
Scopes  == [product: Products, open: BOOLEAN, purpose: BOOLEAN, limit: Limits]
Rights  == [product: Products, contract: Contracts, permits: BOOLEAN]
Copies  == [id: Grants, contract: Contracts, permits: BOOLEAN]
Windows == [start: Minutes, count: Nat]

ASSUME OfferedAssumption == Offered \subseteq Scopes
ASSUME NoneAssumption ==
  None \notin Scopes \cup Rights \cup Copies \cup Windows \cup Grants \cup Contracts

-----------------------------------------------------------------------------
(* The checks of the handler.                                              *)

(* contractScopeActive, and the purpose a sensitive product asks for.      *)
InForce(s, p) == s.open /\ (p \in Sensitive => s.purpose)

(* What usableEntitlement asks of the contract of a candidate for p.       *)
Serves(s, p) == s # None /\ s.product = p /\ InForce(s, p)

InForceFor(p) == {k \in Contracts : Serves(contracts[k], p)}

Stored      == {g \in Grants : grants[g] # None}
GrantsOf(p) == {g \in Stored : grants[g].product = p}

(* ListAPIEntitlementCandidates: the key's grants for p, those that permit *)
(* before the others and the newest first in each group; there is one such *)
(* order.                                                                  *)
Before(g, o) ==
  \/ grants[g].permits /\ ~grants[o].permits
  \/ grants[g].permits = grants[o].permits /\ <<g, o>> \in newer

Orders(p) ==
  {f \in [1 .. Cardinality(GrantsOf(p)) -> GrantsOf(p)] :
     \A i, j \in DOMAIN f : i < j => Before(f[i], f[j])}

Listing(f) ==
  [i \in DOMAIN f |-> [id |-> f[i], contract |-> grants[f[i]].contract,
                       permits |-> grants[f[i]].permits]]

-----------------------------------------------------------------------------
(* The handler.  pc is the next thing it does; at "reply" it has answered  *)
(* and its deferred metering, if it owes any, is still to run.             *)

Kinds == {"served", "failed", "over"}

Idle == [pc |-> "idle", product |-> None, now |-> 0, list |-> <<>>, at |-> 1,
         broken |-> FALSE, ent |-> None, chosen |-> FALSE, terms |-> None,
         outcome |-> None, owes |-> FALSE]

At(c, pc) == h[c].pc = pc

Now(c, r) == h' = [h EXCEPT ![c] = r]

(* The answer is written.  A contract that was found makes it owe a call   *)
(* of a kind to the meter.                                                 *)
Answer(c, terms, outcome) ==
  Now(c, [h[c] EXCEPT !.pc = "reply", !.outcome = outcome, !.terms = terms,
                      !.owes = terms # None])

Kind(outcome) == IF outcome \in {"served", "over"} THEN outcome ELSE "failed"

(* The calls of a kind under a contract that are still to be metered.      *)
Owed(k, kind) == {c \in Clients : /\ At(c, "reply") /\ h[c].owes /\ h[c].ent.contract = k
                                  /\ Kind(h[c].outcome) = kind}

Book(k, outcome) == answers' = [answers EXCEPT ![k][Kind(outcome)] = @ + 1]

Spend(what) == left[what] > 0 /\ left' = [left EXCEPT ![what] = @ - 1]

(* A statement fails: the request's context, the connection.               *)
Fault == Spend("faults")

(* GetDataProduct: the row's status decides, as it was at this read.       *)
FindProduct(c, p) ==
  /\ At(c, "idle") /\ Spend("queries")
  /\ Now(c, [Idle EXCEPT !.pc = IF p \in published THEN "list" ELSE "reply",
                          !.product = p,
                          !.outcome = IF p \in published THEN None ELSE "unpublished"])
  /\ UNCHANGED <<tables, limiter, books, clock, steady, lately>>

(* ListAPIEntitlementCandidates, then time.Now().                          *)
List(c) ==
  /\ At(c, "list")
  /\ \E f \in Orders(h[c].product) :
       Now(c, [h[c] EXCEPT !.list = Listing(f), !.now = clock,
                           !.pc = IF f = <<>> THEN "reply" ELSE "walk",
                           !.outcome = IF f = <<>> THEN "denied" ELSE None])
  /\ steady' = [steady EXCEPT ![c] = InForceFor(h[c].product)]
  /\ UNCHANGED <<tables, limiter, books, clock, left, lately>>

(* The lookup of the product fails in the same way.                        *)
ListFails(c) ==
  /\ At(c, "list") /\ Fault
  /\ Answer(c, None, "error")
  /\ UNCHANGED <<tables, limiter, books, clock, steady, lately>>

Candidate(c) == h[c].list[h[c].at]

(* The loop of usableEntitlement is at a candidate that permits, or past   *)
(* the last of them: it passes over the others, which are listed last.     *)
Walking(c) == At(c, "walk") /\ h[c].at <= Len(h[c].list) /\ Candidate(c).permits
Walked(c)  == At(c, "walk") /\ (h[c].at <= Len(h[c].list) => ~Candidate(c).permits)

Choose(c, ent, found) ==
  /\ Now(c, [h[c] EXCEPT !.ent = ent, !.chosen = found, !.pc = "contract"])
  /\ lately' = [lately EXCEPT ![c] = InForceFor(h[c].product)]

(* GetContractScope of a candidate that permits: the first usable one is   *)
(* taken, the others are passed over.                                      *)
TryContract(c) ==
  /\ Walking(c)
  /\ IF Serves(contracts[Candidate(c).contract], h[c].product)
       THEN Choose(c, Candidate(c), TRUE)
       ELSE Now(c, [h[c] EXCEPT !.at = @ + 1]) /\ UNCHANGED lately
  /\ UNCHANGED <<tables, limiter, books, clock, left, steady>>

TryContractFails_Skips(c) ==
  /\ Walking(c) /\ Fault
  /\ Now(c, [h[c] EXCEPT !.at = @ + 1])
  /\ UNCHANGED <<tables, limiter, books, clock, steady, lately>>

(* That read fails: the walk goes on and remembers it.                     *)
TryContractFails(c) ==
  /\ Walking(c) /\ Fault
  /\ Now(c, [h[c] EXCEPT !.at = @ + 1, !.broken = TRUE])
  /\ UNCHANGED <<tables, limiter, books, clock, steady, lately>>

(* Nothing was usable: a server error if a read failed, else the first     *)
(* candidate is checked for the reason of the denial.                      *)
FallBack(c) ==
  /\ Walked(c)
  /\ LET first == h[c].list[1] IN
       \/ h[c].broken /\ Answer(c, None, "error") /\ UNCHANGED lately
       \/ ~h[c].broken /\ ~first.permits /\ Answer(c, None, "denied") /\ UNCHANGED lately
       \/ ~h[c].broken /\ first.permits /\ Choose(c, first, FALSE)
  /\ UNCHANGED <<tables, limiter, books, clock, left, steady>>

ReadContract_Trusting(c) ==
  /\ At(c, "contract")
  /\ LET k == h[c].ent.contract  s == contracts[h[c].ent.contract]  p == h[c].product IN
       \/ /\ s = None
          /\ Answer(c, None, "denied") /\ UNCHANGED answers
       \/ /\ s # None /\ ~InForce(s, p)
          /\ Answer(c, s, "denied") /\ Book(k, "denied")
       \/ /\ s # None /\ InForce(s, p)
          /\ Now(c, [h[c] EXCEPT !.terms = s, !.pc = IF s.limit > 0 THEN "allow" ELSE "body"])
          /\ UNCHANGED answers
  /\ UNCHANGED <<tables, limiter, meter, lost, clock, left, steady, lately>>

(* GetContractScope of the chosen grant, which may have changed since the  *)
(* walk: everything is checked once more.                                  *)
ReadContract(c) ==
  /\ At(c, "contract")
  /\ LET k == h[c].ent.contract  s == contracts[h[c].ent.contract]  p == h[c].product IN
       \/ /\ s # None => s.product # p
          /\ Answer(c, None, "denied") /\ UNCHANGED answers
       \/ /\ s # None /\ s.product = p /\ ~InForce(s, p)
          /\ Answer(c, s, "denied") /\ Book(k, "denied")
       \/ /\ Serves(s, p)
          /\ Now(c, [h[c] EXCEPT !.terms = s, !.pc = IF s.limit > 0 THEN "allow" ELSE "body"])
          /\ UNCHANGED answers
  /\ UNCHANGED <<tables, limiter, meter, lost, clock, left, steady, lately>>

ReadContractFails(c) ==
  /\ At(c, "contract") /\ Fault
  /\ Answer(c, None, "error")
  /\ UNCHANGED <<tables, limiter, books, clock, steady, lately>>

Window_NeverReset(k, m) == IF windows[k] # None THEN windows[k] ELSE [start |-> m, count |-> 0]

(* The window a call at minute m counts in, a new one when another minute's*)
(* is stored.                                                              *)
Window(k, m) == IF windows[k] # None /\ windows[k].start = m
                  THEN windows[k] ELSE [start |-> m, count |-> 0]

Opens(k, m) == windows[k] = None \/ windows[k].start # m

(* pruneLocked, when a window is opened and too many are tracked.          *)
Pruned(k, m) ==
  IF Opens(k, m) /\ Cardinality({j \in Contracts : windows[j] # None}) > MaxTracked
    THEN [j \in Contracts |-> IF windows[j] # None /\ windows[j].start < m
                                THEN None ELSE windows[j]]
    ELSE windows

(* What a call from minute m disturbs when a later one was there first: its*)
(* own minute, and the one whose window it replaces.                       *)
Disturbed(k, m) ==
  IF m < latest THEN {k} \X ({m} \cup {windows[j].start : j \in {i \in {k} : windows[i] # None}})
                ELSE {}

(* contractRateLimiter.allow, under its mutex.                             *)
Allow(c) ==
  /\ At(c, "allow")
  /\ LET k == h[c].ent.contract  m == h[c].now  w == Window(h[c].ent.contract, h[c].now) IN
       /\ late' = late \cup Disturbed(k, m)
       /\ latest' = IF m > latest THEN m ELSE latest
       /\ \/ /\ w.count < h[c].terms.limit
             /\ windows' = [Pruned(k, m) EXCEPT ![k] = [w EXCEPT !.count = @ + 1]]
             /\ admitted' = [admitted EXCEPT ![k][m] = @ + 1]
             /\ Now(c, [h[c] EXCEPT !.pc = "body"])
             /\ UNCHANGED answers
          \/ /\ w.count >= h[c].terms.limit
             /\ windows' = [Pruned(k, m) EXCEPT ![k] = w]
             /\ Answer(c, h[c].terms, "over") /\ Book(k, "over")
             /\ UNCHANGED admitted
  /\ UNCHANGED <<tables, meter, lost, clock, left, steady, lately>>

(* The body is read last: it is refused (not JSON, fields the contract     *)
(* does not allow) or the data is served.                                  *)
Body(c) ==
  /\ At(c, "body")
  /\ \E outcome \in {"refused", "served"} :
       Answer(c, h[c].terms, outcome) /\ Book(h[c].ent.contract, outcome)
  /\ UNCHANGED <<tables, limiter, meter, lost, clock, left, steady, lately>>

Gone(c) ==
  /\ Now(c, Idle)
  /\ steady' = [steady EXCEPT ![c] = {}]
  /\ lately' = [lately EXCEPT ![c] = {}]

One(b) == IF b THEN 1 ELSE 0

IncrementUsageMetering_FailsOver(c) ==
  /\ At(c, "reply") /\ h[c].owes
  /\ LET k == h[c].ent.contract  kind == Kind(h[c].outcome) IN
       meter' = [meter EXCEPT ![k] =
                   [total |-> @.total + 1, failed |-> @.failed + One(kind # "served"),
                    over |-> @.over + One(kind = "over"),
                    billed |-> @.billed + One(kind = "served")]]
  /\ Gone(c)
  /\ UNCHANGED <<tables, limiter, answers, lost, clock, left>>

(* The deferred call of IncrementUsageMetering: one upsert adds to the     *)
(* contract's row of the day.                                              *)
IncrementUsageMetering(c) ==
  /\ At(c, "reply") /\ h[c].owes
  /\ LET k == h[c].ent.contract  kind == Kind(h[c].outcome) IN
       meter' = [meter EXCEPT ![k] =
                   [total |-> @.total + 1, failed |-> @.failed + One(kind = "failed"),
                    over |-> @.over + One(kind = "over"),
                    billed |-> @.billed + One(kind = "served")]]
  /\ Gone(c)
  /\ UNCHANGED <<tables, limiter, answers, lost, clock, left>>

(* It runs on the request's context, whose client may be gone, and its     *)
(* error is dropped.                                                       *)
MeteringFails(c) ==
  /\ At(c, "reply") /\ h[c].owes /\ Fault
  /\ lost' = [lost EXCEPT ![h[c].ent.contract][Kind(h[c].outcome)] = @ + 1]
  /\ Gone(c)
  /\ UNCHANGED <<tables, limiter, meter, answers, clock>>

Return(c) ==
  /\ At(c, "reply") /\ ~h[c].owes
  /\ Gone(c)
  /\ UNCHANGED <<tables, limiter, books, clock, left>>

-----------------------------------------------------------------------------
(* Administrators and the clock.                                           *)

(* A handler of the lifecycle publishes or withdraws a product.            *)
SetStatus(p) ==
  /\ Spend("edits")
  /\ published' = IF p \in published THEN published \ {p} ELSE published \cup {p}
  /\ UNCHANGED <<contracts, grants, newer, posts, limiter, books, clock, h,
                 steady, lately>>

(* A contract is posted: the key must be free or the product's own.        *)
CheckContract(a, k, s) ==
  /\ posts[a] = None /\ Spend("edits")
  /\ contracts[k] # None => contracts[k].product = s.product
  /\ posts' = [posts EXCEPT ![a] = [table |-> "contracts", id |-> k, row |-> s]]
  /\ UNCHANGED <<published, contracts, grants, newer, limiter, books, clock, h,
                 steady, lately>>

(* UpsertContractScope writes it, whatever has happened since the check.   *)
WriteContract(a) ==
  /\ posts[a] # None /\ posts[a].table = "contracts"
  /\ contracts' = [contracts EXCEPT ![posts[a].id] = posts[a].row]
  /\ posts' = [posts EXCEPT ![a] = None]
  /\ steady' = [c \in Clients |-> {k \in steady[c] : Serves(contracts'[k], h[c].product)}]
  /\ lately' = [c \in Clients |-> lately[c] \cup
                 {k \in Contracts : At(c, "contract") /\ Serves(contracts'[k], h[c].product)}]
  /\ UNCHANGED <<published, grants, newer, left, limiter, books, clock, h>>

(* A grant is posted: its contract must be the product's, and so must the  *)
(* id if it is taken.                                                      *)
CheckGrant(a, g, r) ==
  /\ posts[a] = None /\ Spend("edits")
  /\ contracts[r.contract] # None /\ contracts[r.contract].product = r.product
  /\ grants[g] # None => grants[g].product = r.product
  /\ posts' = [posts EXCEPT ![a] = [table |-> "grants", id |-> g, row |-> r]]
  /\ UNCHANGED <<published, contracts, grants, newer, limiter, books, clock, h,
                 steady, lately>>

WriteGrant_Inserts(a) ==
  /\ posts[a] # None /\ posts[a].table = "grants"
  /\ grants' = [grants EXCEPT ![posts[a].id] = posts[a].row]
  /\ newer' = newer \cup ({posts[a].id} \X (Stored \ {posts[a].id}))
  /\ posts' = [posts EXCEPT ![a] = None]
  /\ UNCHANGED <<published, contracts, left, limiter, books, clock, h,
                 steady, lately>>

(* UpsertAPIEntitlement: the grant becomes the one written last.           *)
WriteGrant(a) ==
  /\ posts[a] # None /\ posts[a].table = "grants"
  /\ grants' = [grants EXCEPT ![posts[a].id] = posts[a].row]
  /\ newer' = {pair \in newer : posts[a].id \notin {pair[1], pair[2]}}
              \cup ({posts[a].id} \X (Stored \ {posts[a].id}))
  /\ posts' = [posts EXCEPT ![a] = None]
  /\ UNCHANGED <<published, contracts, left, limiter, books, clock, h,
                 steady, lately>>

Tick ==
  /\ clock < LastMinute /\ Spend("ticks")
  /\ clock' = clock + 1
  /\ UNCHANGED <<tables, limiter, books, h, steady, lately>>

(* The process is replaced: requests, their metering and the windows go.   *)
Restart ==
  /\ Fault
  /\ h' = [c \in Clients |-> Idle]
  /\ windows' = [k \in Contracts |-> None]
  /\ admitted' = [k \in Contracts |-> [m \in Minutes |-> 0]]
  /\ latest' = 0 /\ late' = {}
  /\ steady' = [c \in Clients |-> {}] /\ lately' = [c \in Clients |-> {}]
  /\ lost' = [k \in Contracts |->
                [kind \in Kinds |-> lost[k][kind] + Cardinality(Owed(k, kind))]]
  /\ posts' = [a \in Admins |-> None]
  /\ UNCHANGED <<published, contracts, grants, newer, meter, answers, clock>>

-----------------------------------------------------------------------------
(* The times of their last writes rank the stored grants.                  *)
Ranked ==
  /\ newer \subseteq Stored \X Stored
  /\ \A g, o \in Stored : <<g, o>> \in newer <=> g # o /\ <<o, g>> \notin newer
  /\ \A g, o, q \in Stored : <<g, o>> \in newer /\ <<o, q>> \in newer => <<g, q>> \in newer

(* What administrators stored before: grants of contracts of their product.*)
Init ==
  /\ published = Products
  /\ contracts \in [Contracts -> Offered \cup {None}]
  /\ grants \in [Grants -> Rights \cup {None}]
  /\ \A g \in Grants : grants[g] # None =>
       /\ contracts[grants[g].contract] # None
       /\ contracts[grants[g].contract].product = grants[g].product
  /\ newer \in SUBSET (Grants \X Grants) /\ Ranked
  /\ posts = [a \in Admins |-> None]
  /\ clock = 0
  /\ windows = [k \in Contracts |-> None]
  /\ h = [c \in Clients |-> Idle]
  /\ meter = [k \in Contracts |-> [total |-> 0, failed |-> 0, over |-> 0, billed |-> 0]]
  /\ left \in Budgets
  /\ steady = [c \in Clients |-> {}] /\ lately = [c \in Clients |-> {}]
  /\ admitted = [k \in Contracts |-> [m \in Minutes |-> 0]]
  /\ latest = 0 /\ late = {}
  /\ answers = [k \in Contracts |-> [kind \in Kinds |-> 0]]
  /\ lost = [k \in Contracts |-> [kind \in Kinds |-> 0]]

Handle(c) ==
  \/ \E p \in Products : FindProduct(c, p)
  \/ List(c) \/ ListFails(c)
  \/ TryContract(c) \/ TryContractFails(c) \/ FallBack(c)
  \/ ReadContract(c) \/ ReadContractFails(c) \/ Allow(c) \/ Body(c)
  \/ IncrementUsageMetering(c) \/ MeteringFails(c) \/ Return(c)

Administer(a) ==
  \/ \E k \in Contracts, s \in Offered : CheckContract(a, k, s)
  \/ \E g \in Grants, r \in Rights : CheckGrant(a, g, r)
  \/ WriteContract(a) \/ WriteGrant(a)

Next ==
  \/ \E c \in Clients : Handle(c)
  \/ \E a \in Admins : Administer(a)
  \/ \E p \in Products : SetStatus(p)
  \/ Tick \/ Restart

Spec == Init /\ [][Next]_vars

-----------------------------------------------------------------------------
Upserts == [table: {"contracts"}, id: Contracts, row: Scopes]
           \cup [table: {"grants"}, id: Grants, row: Rights]
Outcomes == {"unpublished", "denied", "error", "over", "refused", "served"}
Stages == {"idle", "list", "walk", "contract", "allow", "body", "reply"}
Requests == [pc: Stages, product: Products \cup {None}, now: Minutes, list: Seq(Copies),
             at: Nat, broken: BOOLEAN, ent: Copies \cup {None}, chosen: BOOLEAN,
             terms: Scopes \cup {None}, outcome: Outcomes \cup {None}, owes: BOOLEAN]

TypeOK ==
  /\ published \subseteq Products
  /\ contracts \in [Contracts -> Scopes \cup {None}]
  /\ grants \in [Grants -> Rights \cup {None}]
  /\ newer \in SUBSET (Grants \X Grants) /\ Ranked
  /\ posts \in [Admins -> Upserts \cup {None}]
  /\ clock \in Minutes
  /\ windows \in [Contracts -> Windows \cup {None}]
  /\ h \in [Clients -> Requests]
  /\ meter \in [Contracts -> [total: Nat, failed: Nat, over: Nat, billed: Nat]]
  /\ left \in [{"queries", "edits", "faults", "ticks"} -> Nat]
  /\ steady \in [Clients -> SUBSET Contracts] /\ lately \in [Clients -> SUBSET Contracts]
  /\ admitted \in [Contracts -> [Minutes -> Nat]]
  /\ latest \in Minutes /\ late \subseteq Contracts \X Minutes
  /\ answers \in [Contracts -> [Kinds -> Nat]] /\ lost \in [Contracts -> [Kinds -> Nat]]

\* A product's data is served only under a grant the key held when the request
\* listed them, whose contract was the product's and in force at some moment
\* after the request had chosen it, whatever administrators post meanwhile.
ServedInForce ==
  \A c \in Clients : At(c, "reply") /\ h[c].outcome = "served" =>
    /\ h[c].ent.permits /\ \E i \in 1 .. Len(h[c].list) : h[c].list[i] = h[c].ent
    /\ h[c].ent.contract \in lately[c]

\* Access is denied only if each grant that permits had a contract that was not
\* in force all along, or the grant that was found usable stopped being so
\* before it was used; a contract that could not be read is never a denial.
DenialIsJust ==
  \A c \in Clients : At(c, "reply") /\ h[c].outcome = "denied" =>
    \/ \A i \in 1 .. Len(h[c].list) :
         h[c].list[i].permits => h[c].list[i].contract \notin steady[c]
    \/ h[c].chosen /\ h[c].ent.contract \notin steady[c]

Metered(k, kind) ==
  CASE kind = "served" -> meter[k].billed
    [] kind = "failed" -> meter[k].failed
    [] kind = "over"   -> meter[k].over

\* Each answer given under a contract is in the meter once, under its own kind,
\* unless its metering is still to run or failed.
MeterMatches ==
  \A k \in Contracts :
    /\ meter[k].total = meter[k].failed + meter[k].over + meter[k].billed
    /\ \A kind \in Kinds : answers[k][kind] =
         lost[k][kind] + Cardinality(Owed(k, kind)) + Metered(k, kind)

WithinLimit(c) == At(c, "allow") =>
  LET k == h[c].ent.contract  m == h[c].now IN
    /\ h'[c].pc = "body" => admitted[k][m] < h[c].terms.limit \/ <<k, m>> \in late'
    /\ h'[c].pc = "reply" => admitted[k][m] >= h[c].terms.limit

\* The limiter lets a call through only while fewer calls than its contract's
\* ceiling were let through in its minute, unless a call from an earlier minute
\* disturbed the window; and it refuses one only when the ceiling is reached.
LimitIsKept == [][\A c \in Clients : WithinLimit(c)]_vars
=============================================================================
