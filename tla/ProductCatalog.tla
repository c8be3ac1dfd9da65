--------------------------- MODULE ProductCatalog ---------------------------
(***************************************************************************)
(* The data product catalog of the store (internal/store/data_products.go) *)
(* at the grain of its SQL statements: UpsertDataProduct locks the row,    *)
(* looks for the key's tombstone and writes; DeleteDataProduct locks the   *)
(* row, then leaves a tombstone and removes the row in one commit.         *)
(*                                                                         *)
(* Abstractions.  A row is its content, whatever its columns are.  Writes  *)
(* of a transaction are seen by the others from its commit on, so the last *)
(* statement of a transaction and its commit are one step.  On SQLite the  *)
(* pool has a single connection, so a transaction excludes every other;    *)
(* on PostgreSQL only the row lock of SELECT ... FOR UPDATE does, and it   *)
(* locks nothing while the row does not exist.                             *)
(***************************************************************************)
EXTENDS Naturals, CatalogRows

CONSTANTS
  Contents,          \* contents a row may have
  SingleConnection,  \* TRUE: SQLite (SetMaxOpenConns(1)), FALSE: PostgreSQL
  MaxLives           \* bound on the insertions of one key

ASSUME ConnectionAssumption == SingleConnection \in BOOLEAN
ASSUME MaxLivesAssumption   == MaxLives \in Nat

VARIABLES
  retired,  \* data_product_retired_keys
  lives     \* history: how many times a row was inserted for each key

vars == <<row, retired, tx, lives>>

(* "seeking" and "holding": an upsert that found no row, or locked the row *)
(* it found.  "insert" and "update": the same once no tombstone was found. *)
Stages == {"seeking", "holding", "insert", "update", "delete"}
Transactions == [stage: Stages, key: Keys, content: Contents \cup {None}]

ASSUME NoneAssumption == None \notin Contents /\ None \notin Transactions

At(c, stage) == tx[c] # None /\ tx[c].stage = stage

Unlocked_Ignored(c, k) == TRUE

(* The statement of c that needs the row of k does not have to wait.       *)
Unlocked(c, k) == Lockers(k) \subseteq {c}

(* c obtains a connection: on SQLite it waits for the open transaction.    *)
Connects(c) == SingleConnection => \A d \in Clients : tx[d] = None

(* SELECT ... FOR UPDATE of UpsertDataProduct.                             *)
LockRow(c, k, new) ==
  /\ tx[c] = None /\ Connects(c) /\ Unlocked(c, k)
  /\ tx' = [tx EXCEPT ![c] = [stage   |-> IF row[k] = None THEN "seeking" ELSE "holding",
                              key     |-> k,
                              content |-> new]]
  /\ UNCHANGED <<row, retired, lives>>

Passed(stage) == IF stage = "seeking" THEN "insert" ELSE "update"

CheckTombstone_Skipped(c) ==
  /\ At(c, "seeking") \/ At(c, "holding")
  /\ tx' = [tx EXCEPT ![c].stage = Passed(tx[c].stage)]
  /\ UNCHANGED <<row, retired, lives>>

(* No tombstone for the key.                                               *)
CheckTombstone(c) ==
  /\ At(c, "seeking") \/ At(c, "holding")
  /\ tx[c].key \notin retired
  /\ tx' = [tx EXCEPT ![c].stage = Passed(tx[c].stage)]
  /\ UNCHANGED <<row, retired, lives>>

RefuseRetired_Leaks(c) ==
  /\ At(c, "seeking") \/ At(c, "holding")
  /\ tx[c].key \in retired
  /\ UNCHANGED vars

(* DataProductKeyRetiredError: the deferred Rollback ends the transaction. *)
RefuseRetired(c) ==
  /\ At(c, "seeking") \/ At(c, "holding")
  /\ tx[c].key \in retired
  /\ tx' = [tx EXCEPT ![c] = None]
  /\ UNCHANGED <<row, retired, lives>>

(* INSERT ... ON CONFLICT(product_key) DO UPDATE and the commit: it takes  *)
(* the row of that moment, whatever the lookup found.                      *)
Write(c) ==
  /\ At(c, "insert") \/ At(c, "update")
  /\ LET k == tx[c].key
     IN  /\ Unlocked(c, k)
         /\ row[k] = None => lives[k] < MaxLives
         /\ row' = [row EXCEPT ![k] = tx[c].content]
         /\ lives' = [lives EXCEPT ![k] = IF row[k] = None THEN @ + 1 ELSE @]
  /\ tx' = [tx EXCEPT ![c] = None]
  /\ UNCHANGED retired

(* Lookup of DeleteDataProduct; without a row it returns and changes       *)
(* nothing.                                                                *)
LockForDelete(c, k) ==
  /\ tx[c] = None /\ Connects(c) /\ Unlocked(c, k)
  /\ row[k] # None
  /\ tx' = [tx EXCEPT ![c] = [stage |-> "delete", key |-> k, content |-> None]]
  /\ UNCHANGED <<row, retired, lives>>

Retire_NoTombstone(c) ==
  /\ At(c, "delete")
  /\ row' = [row EXCEPT ![tx[c].key] = None]
  /\ tx' = [tx EXCEPT ![c] = None]
  /\ UNCHANGED <<retired, lives>>

(* The tombstone and the DELETE, committed together.                       *)
Retire(c) ==
  /\ At(c, "delete")
  /\ retired' = retired \cup {tx[c].key}
  /\ row' = [row EXCEPT ![tx[c].key] = None]
  /\ tx' = [tx EXCEPT ![c] = None]
  /\ UNCHANGED lives

(* A statement fails, the request's context ends, or PostgreSQL refuses to *)
(* serialize a delete: the deferred Rollback undoes everything.            *)
Rollback(c) ==
  /\ tx[c] # None
  /\ tx' = [tx EXCEPT ![c] = None]
  /\ UNCHANGED <<row, retired, lives>>

Init ==
  /\ row = [k \in Keys |-> None]
  /\ retired = {}
  /\ tx = [c \in Clients |-> None]
  /\ lives = [k \in Keys |-> 0]

Begin(c) == \E k \in Keys : \/ \E new \in Contents : LockRow(c, k, new)
                            \/ LockForDelete(c, k)

Proceed(c) == CheckTombstone(c) \/ RefuseRetired(c) \/ Write(c) \/ Retire(c)

Next == \E c \in Clients : Begin(c) \/ Proceed(c) \/ Rollback(c)

Spec == Init /\ [][Next]_vars

(* Every transaction keeps running its statements, and the queue of a row  *)
(* lock lets each waiting statement through in the end.                    *)
FairSpec == Spec /\ \A c \in Clients : SF_vars(Proceed(c))

-----------------------------------------------------------------------------
TypeOK ==
  /\ row \in [Keys -> Contents \cup {None}]
  /\ retired \subseteq Keys
  /\ tx \in [Clients -> Transactions \cup {None}]
  /\ lives \in [Keys -> Nat]

\* A retired key has no row: a late upsert never brings it back (the promise
\* of DataProductKeyRetiredError).
RetiredStaysGone == \A k \in retired : row[k] = None

\* No key ever names two products, so what the first one left behind (approvals,
\* contracts, canvas) is never the history of a second one.
OneLife == \A k \in Keys : lives[k] <= 1

\* Every transaction ends, on a key that others keep locking and retiring too.
TransactionsEnd == \A c \in Clients : tx[c] # None ~> tx[c] = None
=============================================================================
