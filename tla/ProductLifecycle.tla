-------------------------- MODULE ProductLifecycle --------------------------
(***************************************************************************)
(* The administration handlers that move a data product through its        *)
(* lifecycle (internal/proxy/admin_dataworks.go, admin_data_products.go,   *)
(* admin_factory.go, admin_dataworks_ops.go) and the publish gate          *)
(* (internal/dataworks/domain.go), on top of the catalog's transactions.   *)
(*                                                                         *)
(* A handler reads a product, decides on that copy, asks the gate when it  *)
(* publishes - one query after the other - and then writes the whole row   *)
(* back from its copy.  Nothing connects the read with the write.          *)
(*                                                                         *)
(* Abstractions.  A row is its status and its risk profile: "plain" when   *)
(* RequiresStrictPublishGate is false, "sensitive" when its sensitivity    *)
(* makes the gate strict, "risky" when only its risk score does.  What the *)
(* gate reads is a set of items that are in order, some of them for each   *)
(* of the product's source assets:                                         *)
(*   readiness  the asset is linked and scores at least 70                 *)
(*   quality    no recorded quality result of the asset failed             *)
(*   approvals  data_owner, legal and compliance are approved or waived    *)
(*   consent    so is every step on record as required, of any name        *)
(*   pack       an evidence pack exists                                    *)
(*   masking    every contract that can serve masks its answers            *)
(***************************************************************************)
EXTENDS Naturals, Sequences, CatalogRows

CONSTANTS
  SingleConnection, MaxLives,
  Ops,        \* the operations administrators use
  Posted,     \* the rows their requests carry
  Assets,     \* how many source assets a product has
  Volatile    \* the items that can also get out of order again

Statuses == {"draft", "review", "risk_review", "approved", "published", "archived"}
Profiles == {"plain", "risky", "sensitive"}
Contents == [status: Statuses, profile: Profiles]

Operations == {"post", "publish", "submit", "approve", "reject", "archive", "review",
               "factory", "risk", "score", "poc", "delete", "purge"}

(* The items: one of each kind for every asset, and those of the product.  *)
ForAsset(kind, a) == <<kind, a>>
OfProduct(kind)   == <<kind, 0>>
ForAssets(kind)   == {ForAsset(kind, a) : a \in 1 .. Assets}
AssetItems   == ForAssets("readiness") \cup ForAssets("quality")
ProductItems == {OfProduct(kind) : kind \in {"approvals", "consent", "pack", "masking"}}
Items        == AssetItems \cup ProductItems

ASSUME ConnectionAssumption == SingleConnection \in BOOLEAN
ASSUME MaxLivesAssumption   == MaxLives \in Nat
ASSUME OpsAssumption      == Ops \subseteq Operations
ASSUME PostedAssumption   == Posted \subseteq Contents
ASSUME AssetsAssumption   == Assets \in Nat \ {0}
ASSUME VolatileAssumption == Volatile \subseteq Items \ {OfProduct("pack")}

VARIABLES
  retired, lives,            \* the catalog, with row and tx
  evidence,                  \* what is in order for each key
  handler                    \* the request each client serves, or None

Catalog == INSTANCE ProductCatalog

store == <<row, retired, tx, lives>>
vars  == <<store, evidence, handler>>

-----------------------------------------------------------------------------
(* The publish gate.                                                       *)

(* The queries of dataWorksPublishGate in order, and what each one tells:  *)
(* readiness and quality take one for every asset.                         *)
EachAsset(kind) == [a \in 1 .. Assets |-> {ForAsset(kind, a)}]
GateQueries ==
  EachAsset("readiness")
    \o << {OfProduct("approvals"), OfProduct("consent")}, {OfProduct("pack")} >>
    \o EachAsset("quality") \o << {OfProduct("masking")} >>
Asked == Len(GateQueries) + 1

(* The items whose queries may fail without failing the gate.              *)
PassedOver == ForAssets("quality") \cup {OfProduct("masking")}

(* The conditions that block a product; missing SLA, cost, contract or     *)
(* risk review only warn.                                                  *)
Needed(product) ==
  CASE product.profile = "plain"     -> {OfProduct("consent")}
    [] product.profile = "risky"     -> Items \ {OfProduct("masking")}
    [] product.profile = "sensitive" -> Items

(* Steps of a request: served from "gate" query at to the catalog's        *)
(* transaction.  want is the row it is going to write, made from the copy  *)
(* it read, seen what its gate queries found in order.  History: public    *)
(* says that the copy was published, held what was in order at some moment *)
(* while the gate asked, unread the items never known to be whose query    *)
(* failed and was passed over.                                             *)
Handlers == [op: Operations, key: Keys, want: Contents, at: 1 .. Asked, seen: SUBSET Items,
             public: BOOLEAN, held: SUBSET Items, unread: SUBSET Items]

ASSUME NoneAssumption ==
  None \notin Contents /\ None \notin Catalog!Transactions /\ None \notin Handlers

Serves(c) == handler[c] # None
Serve(c, h) == handler' = [handler EXCEPT ![c] = h]
Answer(c) == Serve(c, None)

IsPublished(product) == product # None /\ product.status = "published"

Request(op, k, copy, want, at) ==
  [op |-> op, key |-> k, want |-> want, at |-> at, seen |-> {}, public |-> IsPublished(copy),
   held |-> IF at < Asked THEN evidence[k] ELSE {}, unread |-> {}]

GateFor(status) == IF status = "published" THEN 1 ELSE Asked

(* A handler reads the product, finds its status among from, or answers    *)
(* 409, and prepares one of wants; gate is its first gate query.           *)
Take(c, k, op, from, wants, gate) ==
  /\ op \in Ops /\ ~Serves(c) /\ Catalog!Connects(c)
  /\ row[k] # None /\ row[k].status \in from
  /\ \E want \in wants : Serve(c, Request(op, k, row[k], want, gate))
  /\ UNCHANGED <<store, evidence>>

Moved(k, statuses) == {[row[k] EXCEPT !.status = s] : s \in statuses}

(* A new risk score; a sensitive product stays sensitive.                  *)
Rescored(product) ==
  IF product.profile = "sensitive" THEN {product}
  ELSE {[product EXCEPT !.profile = p] : p \in {"plain", "risky"}}

(* POST .../{key}/submit, approve, reject, archive and publish.            *)
Submit(c, k)  == Take(c, k, "submit", {"draft"}, Moved(k, {"review"}), Asked)
Approve(c, k) == Take(c, k, "approve", {"review", "risk_review"}, Moved(k, {"approved"}), Asked)
Reject(c, k)  == Take(c, k, "reject", {"review", "risk_review", "approved"},
                      Moved(k, {"draft"}), Asked)
Archive(c, k) == Take(c, k, "archive", {"published"}, Moved(k, {"archived"}), Asked)

Publish(c, k) ==
  Take(c, k, "publish", Statuses, Moved(k, {"published"}), GateFor("published"))

(* The review inbox and the factory set the status from any other one.     *)
Review(c, k)  == Take(c, k, "review", Statuses, Moved(k, {"approved", "draft"}), Asked)
Factory(c, k) == Take(c, k, "factory", Statuses, Moved(k, {"approved", "archived"}), Asked)

(* The risk check and the scoring of the factory.                          *)
RiskCheck(c, k) ==
  Take(c, k, "risk", Statuses, UNION {Rescored(p) : p \in Moved(k, {"risk_review"})}, Asked)
Score(c, k) == Take(c, k, "score", Statuses, Rescored(row[k]), Asked)

(* A PoC plan, a proposal's feedback or a PoC's outcome: the row again,    *)
(* published if the PoC turned an approved product into a contract.        *)
Outcome(c, k) ==
  \/ Take(c, k, "poc", Statuses, {row[k]}, Asked)
  \/ Take(c, k, "poc", {"approved"}, Moved(k, {"published"}), Asked)

(* POST /admin/data-products and the factory's define: the row comes from  *)
(* the request alone.                                                      *)
Post(c, k) ==
  /\ "post" \in Ops /\ ~Serves(c)
  /\ \E new \in Posted : Serve(c, Request("post", k, None, new, GateFor(new.status)))
  /\ UNCHANGED <<store, evidence>>

(* DELETE /admin/dataworks/products checks the status of its copy, DELETE  *)
(* /admin/data-products deletes whatever it finds.                         *)
Delete(c, k) == Take(c, k, "delete", {"draft", "archived"}, {row[k]}, Asked)
Purge(c, k)  == Take(c, k, "purge", Statuses, {row[k]}, Asked)

GateQuery(c) ==
  /\ Serves(c) /\ handler[c].at < Asked /\ Catalog!Connects(c)
  /\ LET h == handler[c]
     IN  Serve(c, [h EXCEPT !.at = @ + 1,
                            !.seen = @ \cup (GateQueries[h.at] \cap evidence[h.key])])
  /\ UNCHANGED <<store, evidence>>

(* The query for an asset's quality results or for the contracts fails and *)
(* is passed over: the gate finds no result that failed, and no masking.   *)
QueryUnread(c) ==
  /\ Serves(c) /\ handler[c].at < Asked
  /\ LET h == handler[c]
         passed == GateQueries[h.at] \cap ForAssets("quality")
     IN  /\ GateQueries[h.at] \subseteq PassedOver
         /\ Serve(c, [h EXCEPT !.at = @ + 1, !.seen = @ \cup passed,
                               !.unread = @ \cup (passed \ h.held)])
  /\ UNCHANGED <<store, evidence>>

(* Another query fails: 500.                                               *)
GateFails(c) ==
  /\ Serves(c) /\ handler[c].at < Asked /\ tx[c] = None
  /\ ~(GateQueries[handler[c].at] \subseteq PassedOver)
  /\ Answer(c)
  /\ UNCHANGED <<store, evidence>>

Gated(h) == h.op = "publish" \/ (h.op = "post" /\ h.want.status = "published")

Allowed_Ignored(h) == TRUE
Allowed(h) == Gated(h) => Needed(h.want) \subseteq h.seen

(* The gate is closed: 409.                                                *)
GateBlocks(c) ==
  /\ Serves(c) /\ handler[c].at = Asked /\ tx[c] = None
  /\ ~Allowed(handler[c])
  /\ Answer(c)
  /\ UNCHANGED <<store, evidence>>

-----------------------------------------------------------------------------
(* The catalog's transactions, run by the handlers.                        *)

Deletes(h) == h.op \in {"delete", "purge"}

OpenUpsert(c) ==
  /\ Serves(c) /\ handler[c].at = Asked /\ ~Deletes(handler[c]) /\ Allowed(handler[c])
  /\ Catalog!LockRow(c, handler[c].key, handler[c].want)
  /\ UNCHANGED <<evidence, handler>>

FindUnretired(c) == Catalog!CheckTombstone(c) /\ UNCHANGED <<evidence, handler>>

OpenDelete(c) ==
  /\ Serves(c) /\ handler[c].at = Asked /\ Deletes(handler[c])
  /\ Catalog!LockForDelete(c, handler[c].key)
  /\ UNCHANGED <<evidence, handler>>

(* The row is gone already: nothing to delete, 200.                        *)
DeleteNothing(c) ==
  /\ Serves(c) /\ Deletes(handler[c]) /\ tx[c] = None
  /\ row[handler[c].key] = None
  /\ Answer(c)
  /\ UNCHANGED <<store, evidence>>

Commit(c) ==
  /\ Catalog!Write(c) \/ Catalog!Retire(c)
  /\ Answer(c)
  /\ UNCHANGED evidence

(* A retired key, a database error or a client that went away.             *)
Fail(c) ==
  /\ Catalog!RefuseRetired(c) \/ Catalog!Rollback(c)
  /\ Answer(c)
  /\ UNCHANGED evidence

-----------------------------------------------------------------------------
(* What the gate asks about changes by other requests: approvals, evidence *)
(* packs and contract scopes by handlers that look the product up first,   *)
(* readiness and quality results with the assets, and by the clock when an *)
(* approval or a contract expires.                                         *)
Revised(k, items) ==
  /\ evidence' = [evidence EXCEPT ![k] = items]
  /\ handler' = [c \in Clients |->
                   IF Serves(c) /\ handler[c].key = k /\ handler[c].at < Asked
                   THEN [handler[c] EXCEPT !.held = @ \cup items] ELSE handler[c]]
  /\ UNCHANGED store

(* A failed quality result stays on record for ever.                       *)
Settle(k, item) ==
  /\ item \notin evidence[k] \cup ForAssets("quality")
  /\ item \in ProductItems => lives[k] > 0
  /\ Revised(k, evidence[k] \cup {item})

Unsettle(k, item) ==
  /\ item \in evidence[k] \cap Volatile
  /\ item \in ProductItems => lives[k] > 0
  /\ Revised(k, evidence[k] \ {item})

Init ==
  /\ Catalog!Init
  /\ evidence = [k \in Keys |->
                   ForAssets("quality") \cup {OfProduct("consent"), OfProduct("masking")}]
  /\ handler = [c \in Clients |-> None]

Receive(c, k) ==
  \/ Submit(c, k) \/ Approve(c, k) \/ Reject(c, k) \/ Archive(c, k) \/ Publish(c, k)
  \/ Review(c, k) \/ Factory(c, k) \/ RiskCheck(c, k) \/ Score(c, k) \/ Outcome(c, k)
  \/ Post(c, k) \/ Delete(c, k) \/ Purge(c, k)

Advance(c) ==
  \/ GateQuery(c) \/ QueryUnread(c) \/ GateFails(c) \/ GateBlocks(c)
  \/ OpenUpsert(c) \/ FindUnretired(c) \/ OpenDelete(c) \/ DeleteNothing(c)
  \/ Commit(c) \/ Fail(c)

Next ==
  \/ \E c \in Clients : Advance(c) \/ \E k \in Keys : Receive(c, k)
  \/ \E k \in Keys, item \in Items : Settle(k, item) \/ Unsettle(k, item)

Spec == Init /\ [][Next]_vars

-----------------------------------------------------------------------------
TypeOK ==
  /\ Catalog!TypeOK
  /\ evidence \in [Keys -> SUBSET Items]
  /\ handler \in [Clients -> Handlers \cup {None}]

Publishes(k) == ~IsPublished(row[k]) /\ IsPublished(row'[k])

Writer(k) == CHOOSE c \in Clients : tx[c] # None /\ tx'[c] = None /\ tx[c].key = k

\* A product becomes published in three ways only: through a gate that judged the
\* very row it writes, on items each in order at some moment while it asked (not
\* all at the same moment: every asset has queries of its own) or passed over; by
\* a PoC's outcome; or by a handler that had read a published row and puts it back.
PublishIsGated ==
  [][\A k \in Keys : Publishes(k) =>
       LET h == handler[Writer(k)]
       IN  \/ Gated(h) /\ Needed(row'[k]) \subseteq h.held \cup h.unread
           \/ h.op = "poc"
           \/ h.public]_vars

\* No two products ever share a key.
OneLife == Catalog!OneLife

\* No handler brings a deleted product back from the copy it read.
RetiredStaysGone == Catalog!RetiredStaysGone
=============================================================================
