----------------------------- MODULE CatalogRows -----------------------------
(***************************************************************************)
(* The rows of the data product catalog and the transactions open on them  *)
(* (internal/store/data_products.go), as every user of the catalog sees    *)
(* them.  A transaction that updates or deletes a row it found has it      *)
(* locked: SELECT ... FOR UPDATE on PostgreSQL, the only connection on     *)
(* SQLite.                                                                 *)
(***************************************************************************)
CONSTANTS
  Keys,     \* values of product_key
  Clients,  \* goroutines that call the store
  None      \* no row, no transaction

VARIABLES
  row,  \* data_products: content of the row of each key, or None
  tx    \* the transaction each client has open, or None

(* Clients whose transaction has the row of k locked.                      *)
Lockers(k) == {c \in Clients : /\ tx[c] # None
                               /\ tx[c].stage \in {"holding", "update", "delete"}
                               /\ tx[c].key = k}

\* A transaction that locked a row still finds it at its commit, and no other
\* holds that lock: the order of locks serializes updates with deletes.
LocksKeepTheirRow ==
  \A k \in Keys : \A c \in Lockers(k) : row[k] # None /\ Lockers(k) = {c}
=============================================================================
