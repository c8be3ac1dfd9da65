---------------------- MODULE ProductLifecycle_proofs ----------------------
(***************************************************************************)
(* What the catalog's transactions guarantee for every set of keys and     *)
(* clients: on either database the row locks serialize updates with        *)
(* deletes; on a single connection a retired key never comes back and no   *)
(* key names two products.  The handlers keep to those transactions, so    *)
(* this holds for the lifecycle too; and no product is published around    *)
(* the gate.                                                               *)
(***************************************************************************)
EXTENDS ProductLifecycle, TLAPS

Locks(c) == tx[c] # None /\ tx[c].stage \in {"holding", "update", "delete"}

(* LocksKeepTheirRow, said of two clients instead of a set of them.        *)
LockInv ==
  \A c \in Clients : Locks(c) =>
    /\ row[tx[c].key] # None
    /\ \A d \in Clients : Locks(d) /\ tx[d].key = tx[c].key => d = c

\* The initial state is well typed.
LEMMA CatalogInitType == Catalog!Init => Catalog!TypeOK
  BY MaxLivesAssumption DEF Catalog!Init, Catalog!TypeOK

\* A transaction that moves on to another stage is still a transaction.
LEMMA StageType ==
  ASSUME NEW t \in Catalog!Transactions, NEW s \in Catalog!Stages
  PROVE  [t EXCEPT !.stage = s] \in Catalog!Transactions
  BY DEF Catalog!Transactions

\* Every step keeps the type invariant.
LEMMA CatalogTypeStep == Catalog!TypeOK /\ [Catalog!Next]_(Catalog!vars) => Catalog!TypeOK'
<1> SUFFICES ASSUME Catalog!TypeOK, [Catalog!Next]_(Catalog!vars) PROVE Catalog!TypeOK'
  OBVIOUS
<1>1. CASE UNCHANGED Catalog!vars
  BY <1>1 DEF Catalog!vars, Catalog!TypeOK
<1>2. ASSUME NEW c \in Clients, NEW k \in Keys, NEW new \in Contents, Catalog!LockRow(c, k, new)
      PROVE  Catalog!TypeOK'
  <2>1. [stage   |-> IF row[k] = None THEN "seeking" ELSE "holding",
         key     |-> k,
         content |-> new] \in Catalog!Transactions
    BY DEF Catalog!Transactions, Catalog!Stages
  <2> QED BY <1>2, <2>1 DEF Catalog!LockRow, Catalog!TypeOK
<1>3. ASSUME NEW c \in Clients, NEW k \in Keys, Catalog!LockForDelete(c, k)
      PROVE  Catalog!TypeOK'
  <2>1. [stage |-> "delete", key |-> k, content |-> None] \in Catalog!Transactions
    BY DEF Catalog!Transactions, Catalog!Stages
  <2> QED BY <1>3, <2>1 DEF Catalog!LockForDelete, Catalog!TypeOK
<1>4. ASSUME NEW c \in Clients, Catalog!CheckTombstone(c)
      PROVE  Catalog!TypeOK'
  <2>1. tx[c] \in Catalog!Transactions /\ Catalog!Passed(tx[c].stage) \in Catalog!Stages
    BY <1>4 DEF Catalog!CheckTombstone, Catalog!At, Catalog!TypeOK, Catalog!Passed, Catalog!Stages
  <2>2. [tx[c] EXCEPT !.stage = Catalog!Passed(tx[c].stage)] \in Catalog!Transactions
    BY <2>1, StageType
  <2> QED BY <1>4, <2>2 DEF Catalog!CheckTombstone, Catalog!TypeOK
<1>5. ASSUME NEW c \in Clients, Catalog!RefuseRetired(c) \/ Catalog!Rollback(c)
      PROVE  Catalog!TypeOK'
  BY <1>5 DEF Catalog!RefuseRetired, Catalog!Rollback, Catalog!TypeOK
<1>6. ASSUME NEW c \in Clients, Catalog!Write(c)
      PROVE  Catalog!TypeOK'
  <2>1. tx[c] \in Catalog!Transactions
    BY <1>6 DEF Catalog!Write, Catalog!At, Catalog!TypeOK
  <2>2. tx[c].content \in Contents \cup {None} /\ tx[c].key \in Keys
    BY <2>1 DEF Catalog!Transactions
  <2> QED BY <1>6, <2>2 DEF Catalog!Write, Catalog!TypeOK
<1>7. ASSUME NEW c \in Clients, Catalog!Retire(c)
      PROVE  Catalog!TypeOK'
  <2>1. tx[c] \in Catalog!Transactions
    BY <1>7 DEF Catalog!Retire, Catalog!At, Catalog!TypeOK
  <2>2. tx[c].key \in Keys
    BY <2>1 DEF Catalog!Transactions
  <2> QED BY <1>7, <2>2 DEF Catalog!Retire, Catalog!TypeOK
<1> QED BY <1>1, <1>2, <1>3, <1>4, <1>5, <1>6, <1>7 DEF Catalog!Next, Catalog!Begin, Catalog!Proceed

\* The state of the catalog stays well typed.
THEOREM CatalogTypeCorrect == Catalog!Spec => []Catalog!TypeOK
  BY CatalogInitType, CatalogTypeStep, PTL DEF Catalog!Spec

-----------------------------------------------------------------------------
(* The catalog on either database.                                         *)

(* An upsert carries a row, never the absence of one.                      *)
Carries == \A c \in Clients : tx[c] # None /\ tx[c].stage # "delete" => tx[c].content \in Contents

\* A step of one client leaves the transactions of the others alone.
LEMMA OthersKeep ==
  ASSUME Catalog!TypeOK, NEW c \in Clients,
         Catalog!Begin(c) \/ Catalog!Proceed(c) \/ Catalog!Rollback(c),
         NEW d \in Clients, d # c
  PROVE  tx'[d] = tx[d]
  BY DEF Catalog!TypeOK, Catalog!Begin, Catalog!Proceed, Catalog!LockRow, Catalog!LockForDelete,
         Catalog!CheckTombstone, Catalog!RefuseRetired,
         Catalog!Write, Catalog!Retire, Catalog!Rollback

\* What a step can do to the transaction of its own client.
LEMMA OwnStep ==
  ASSUME Catalog!TypeOK, NEW c \in Clients,
         Catalog!Begin(c) \/ Catalog!Proceed(c) \/ Catalog!Rollback(c), tx'[c] # None
  PROVE  \/ /\ tx[c] = None /\ row' = row
            /\ Catalog!Unlocked(c, tx'[c].key) /\ tx'[c].key \in Keys
            /\ tx'[c].stage # "delete" => tx'[c].content \in Contents
            /\ \/ tx'[c].stage = "seeking" /\ row[tx'[c].key] = None
               \/ tx'[c].stage \in {"holding", "delete"} /\ row[tx'[c].key] # None
         \/ /\ tx[c] # None /\ row' = row
            /\ tx'[c].key = tx[c].key /\ tx'[c].content = tx[c].content
            /\ tx[c].key \notin retired
            /\ \/ tx[c].stage = "seeking" /\ tx'[c].stage = "insert"
               \/ tx[c].stage = "holding" /\ tx'[c].stage = "update"
<1>1. CASE Catalog!CheckTombstone(c)
  <2>1. tx[c] \in Catalog!Transactions /\ tx'[c] = [tx[c] EXCEPT !.stage = Catalog!Passed(tx[c].stage)]
    BY <1>1 DEF Catalog!CheckTombstone, Catalog!At, Catalog!TypeOK
  <2>2. /\ tx'[c].key = tx[c].key /\ tx'[c].content = tx[c].content
        /\ tx'[c].stage = Catalog!Passed(tx[c].stage)
    BY <2>1 DEF Catalog!Transactions
  <2> QED BY <1>1, <2>2 DEF Catalog!CheckTombstone, Catalog!At, Catalog!Passed
<1>2. ~Catalog!RefuseRetired(c) /\ ~Catalog!Rollback(c) /\ ~Catalog!Write(c) /\ ~Catalog!Retire(c)
  BY DEF Catalog!RefuseRetired, Catalog!Rollback, Catalog!Write, Catalog!Retire, Catalog!TypeOK
<1>3. CASE \E k \in Keys, new \in Contents : Catalog!LockRow(c, k, new)
  <2>1. PICK k \in Keys, new \in Contents : Catalog!LockRow(c, k, new)
    BY <1>3
  <2>2. tx'[c] = [stage   |-> IF row[k] = None THEN "seeking" ELSE "holding",
                  key     |-> k,
                  content |-> new]
    BY <2>1 DEF Catalog!LockRow, Catalog!TypeOK
  <2>3. tx[c] = None /\ row' = row /\ Catalog!Unlocked(c, k)
    BY <2>1 DEF Catalog!LockRow
  <2> QED BY <2>2, <2>3
<1>4. CASE \E k \in Keys : Catalog!LockForDelete(c, k)
  <2>1. PICK k \in Keys : Catalog!LockForDelete(c, k)
    BY <1>4
  <2>2. tx'[c] = [stage |-> "delete", key |-> k, content |-> None]
    BY <2>1 DEF Catalog!LockForDelete, Catalog!TypeOK
  <2>3. tx[c] = None /\ row' = row /\ Catalog!Unlocked(c, k) /\ row[k] # None
    BY <2>1 DEF Catalog!LockForDelete
  <2> QED BY <2>2, <2>3
<1> QED BY <1>1, <1>2, <1>3, <1>4 DEF Catalog!Begin, Catalog!Proceed

\* Every step keeps the contents of the upserts.
LEMMA CarriesStep == Catalog!TypeOK /\ Carries /\ [Catalog!Next]_(Catalog!vars) => Carries'
<1> SUFFICES ASSUME Catalog!TypeOK, Carries, [Catalog!Next]_(Catalog!vars) PROVE Carries'
  OBVIOUS
<1>1. CASE UNCHANGED Catalog!vars
  BY <1>1 DEF Catalog!vars, Carries
<1>2. ASSUME NEW c \in Clients,
Catalog!Begin(c) \/ Catalog!Proceed(c) \/ Catalog!Rollback(c) PROVE Carries'
  BY <1>2, OthersKeep, OwnStep DEF Carries
<1> QED BY <1>1, <1>2 DEF Catalog!Next

\* Every step keeps the locks exclusive and their rows in place.
LEMMA LockStep == Catalog!TypeOK /\ Carries /\ LockInv /\ [Catalog!Next]_(Catalog!vars) => LockInv'
<1> SUFFICES ASSUME Catalog!TypeOK, Carries, LockInv, [Catalog!Next]_(Catalog!vars) PROVE LockInv'
  OBVIOUS
<1>1. CASE UNCHANGED Catalog!vars
  BY <1>1 DEF Catalog!vars, LockInv, Locks
<1>2. ASSUME NEW c \in Clients,
Catalog!Begin(c) \/ Catalog!Proceed(c) \/ Catalog!Rollback(c) PROVE LockInv'
  <2>1. \A d \in Clients \ {c} : Locks(d)' <=> Locks(d)
    BY <1>2, OthersKeep DEF Locks
  <2>2. \A d \in Clients \ {c} : tx'[d] = tx[d]
    BY <1>2, OthersKeep
  <2>3. Locks(c)' => \A d \in Clients : Locks(d) /\ tx[d].key = tx'[c].key => d = c
    <3>1. CASE tx[c] = None
      BY <1>2, <3>1, OwnStep DEF Locks, Catalog!Unlocked, Catalog!Lockers
    <3>2. CASE tx[c] # None
      BY <1>2, <3>2, OwnStep DEF Locks, LockInv
    <3> QED BY <3>1, <3>2
  <2>4. Locks(c)' => row'[tx'[c].key] # None
    BY <1>2, OwnStep DEF Locks, LockInv
  <2>5. ASSUME NEW d \in Clients \ {c}, Locks(d) PROVE row'[tx[d].key] # None
    <3>1. row[tx[d].key] # None
      BY <2>5 DEF LockInv
    <3>2. CASE Catalog!Write(c)
      <4>1. tx[c] \in Catalog!Transactions /\ tx[c].content \in Contents
        BY <3>2 DEF Catalog!Write, Catalog!At, Catalog!TypeOK, Carries
      <4>2. tx[c].key \in Keys /\ tx[c].content # None
        BY <4>1, NoneAssumption DEF Catalog!Transactions
      <4> QED BY <3>1, <3>2, <4>2 DEF Catalog!Write, Catalog!TypeOK
    <3>3. CASE Catalog!Retire(c)
      <4>1. tx[c].key # tx[d].key
        BY <2>5, <3>3 DEF Catalog!Retire, Catalog!At, LockInv, Locks
      <4> QED BY <3>1, <3>3, <4>1 DEF Catalog!Retire, Catalog!TypeOK
    <3>4. CASE ~Catalog!Write(c) /\ ~Catalog!Retire(c)
      <4>1. row' = row
        BY <1>2, <3>4 DEF Catalog!Begin, Catalog!Proceed, Catalog!LockRow, Catalog!LockForDelete,
               Catalog!CheckTombstone,
                         Catalog!RefuseRetired, Catalog!Rollback
      <4> QED BY <3>1, <4>1
    <3> QED BY <3>2, <3>3, <3>4
  <2> QED BY <2>1, <2>2, <2>3, <2>4, <2>5 DEF LockInv, Locks
<1> QED BY <1>1, <1>2 DEF Catalog!Next

\* Locked rows said of pairs of clients or of the set of lockers is the same.
LEMMA LocksSaidTwice == Catalog!TypeOK /\ LockInv => LocksKeepTheirRow
<1> SUFFICES ASSUME Catalog!TypeOK, LockInv, NEW k \in Keys, NEW c \in Lockers(k)
             PROVE  row[k] # None /\ Lockers(k) = {c}
  BY DEF LocksKeepTheirRow
<1>1. c \in Clients /\ Locks(c) /\ tx[c].key = k
  BY DEF Lockers, Locks
<1>2. \A d \in Lockers(k) : d \in Clients /\ Locks(d) /\ tx[d].key = k
  BY DEF Lockers, Locks
<1> QED BY <1>1, <1>2 DEF LockInv

\* On SQLite and PostgreSQL alike, the lock order of UpsertDataProduct and
\* DeleteDataProduct serializes them: whoever locked a row alone holds it and
\* finds it at its commit.
THEOREM LocksSerialize == Catalog!Spec => []LocksKeepTheirRow
<1>1. Catalog!Init => Catalog!TypeOK /\ Carries /\ LockInv
  BY CatalogInitType DEF Catalog!Init, Carries, LockInv, Locks
<1> QED BY <1>1, CatalogTypeStep, CarriesStep, LockStep, LocksSaidTwice, PTL DEF Catalog!Spec

-----------------------------------------------------------------------------
(* The catalog on a single connection.                                     *)

Alone == \A c, d \in Clients : tx[c] # None /\ tx[d] # None => c = d

(* A key had one life if it has a row or a tombstone, none otherwise.      *)
LivesInv ==
  \A k \in Keys : lives[k] = IF row[k] # None \/ k \in retired THEN 1 ELSE 0

(* What an upsert found is still so while it is alone.                     *)
FoundInv ==
  \A c \in Clients : tx[c] # None =>
    /\ tx[c].stage \in {"seeking", "insert"} => row[tx[c].key] = None
    /\ tx[c].stage = "insert" => tx[c].key \notin retired

SerialInv ==
  Catalog!TypeOK /\ Carries /\ LockInv /\ Alone /\ LivesInv /\ FoundInv /\ Catalog!RetiredStaysGone

\* A single connection keeps transactions alone.
LEMMA AloneStep ==
  ASSUME SingleConnection, Catalog!TypeOK, Alone, NEW c \in Clients,
         Catalog!Begin(c) \/ Catalog!Proceed(c) \/ Catalog!Rollback(c)
  PROVE  Alone'
<1>1. tx[c] = None /\ tx'[c] # None => \A d \in Clients : tx[d] = None
  <2> SUFFICES ASSUME tx[c] = None, tx'[c] # None PROVE \A d \in Clients : tx[d] = None
    OBVIOUS
  <2>1. ~Catalog!Proceed(c) /\ ~Catalog!Rollback(c)
    BY DEF Catalog!Proceed, Catalog!CheckTombstone, Catalog!RefuseRetired, Catalog!Write,
           Catalog!Retire, Catalog!Rollback, Catalog!At
  <2>2. Catalog!Connects(c)
    BY <2>1 DEF Catalog!Begin, Catalog!LockRow, Catalog!LockForDelete
  <2> QED BY <2>2 DEF Catalog!Connects
<1>2. \A d \in Clients \ {c} : tx'[d] = tx[d]
  BY OthersKeep
<1> QED BY <1>1, <1>2 DEF Alone

\* A commit of an upsert keeps every part of the invariant that speaks of rows.
LEMMA WriteKeeps ==
  ASSUME SerialInv, NEW c \in Clients, Catalog!Write(c)
  PROVE  LivesInv' /\ Catalog!RetiredStaysGone'
<1>1. tx[c] \in Catalog!Transactions /\ tx[c] # None /\ tx[c].stage \in {"insert", "update"}
  BY DEF Catalog!Write, Catalog!At, SerialInv, Catalog!TypeOK
<1>2. tx[c].key \in Keys /\ tx[c].content \in Contents
  BY <1>1 DEF Catalog!Transactions, SerialInv, Carries
<1>3. tx[c].key \notin retired
  BY <1>1, <1>2 DEF SerialInv, FoundInv, LockInv, Locks, Catalog!RetiredStaysGone
<1>4. tx[c].content # None
  BY <1>2, NoneAssumption
<1>5. Catalog!RetiredStaysGone'
  BY <1>2, <1>3 DEF Catalog!Write, Catalog!RetiredStaysGone, SerialInv, Catalog!TypeOK
<1>6. ASSUME NEW k \in Keys
      PROVE  lives'[k] = IF row'[k] # None \/ k \in retired' THEN 1 ELSE 0
  <2>1. CASE k = tx[c].key
    BY <1>2, <1>3, <1>4, <2>1 DEF Catalog!Write, LivesInv, SerialInv, Catalog!TypeOK
  <2>2. CASE k # tx[c].key
    BY <1>2, <2>2 DEF Catalog!Write, LivesInv, SerialInv, Catalog!TypeOK
  <2> QED BY <2>1, <2>2
<1> QED BY <1>5, <1>6 DEF LivesInv

\* So does the commit of a delete.
LEMMA RetireKeeps ==
  ASSUME SerialInv, NEW c \in Clients, Catalog!Retire(c)
  PROVE  LivesInv' /\ Catalog!RetiredStaysGone'
<1>1. tx[c] \in Catalog!Transactions /\ tx[c] # None /\ tx[c].stage = "delete"
  BY DEF Catalog!Retire, Catalog!At, SerialInv, Catalog!TypeOK
<1>2. tx[c].key \in Keys /\ row[tx[c].key] # None
  BY <1>1 DEF Catalog!Transactions, SerialInv, LockInv, Locks
<1>3. Catalog!RetiredStaysGone'
  BY <1>2 DEF Catalog!Retire, Catalog!RetiredStaysGone, SerialInv, Catalog!TypeOK
<1>4. ASSUME NEW k \in Keys
      PROVE  lives'[k] = IF row'[k] # None \/ k \in retired' THEN 1 ELSE 0
  BY <1>2, <1>3 DEF Catalog!Retire, LivesInv, SerialInv, Catalog!TypeOK
<1> QED BY <1>3, <1>4 DEF LivesInv

\* The steps that commit nothing touch neither rows nor tombstones.
LEMMA NoCommit ==
  ASSUME NEW c \in Clients, Catalog!Begin(c) \/ Catalog!Proceed(c) \/ Catalog!Rollback(c),
         ~Catalog!Write(c), ~Catalog!Retire(c)
  PROVE  UNCHANGED <<row, retired, lives>>
  BY DEF Catalog!Begin, Catalog!Proceed, Catalog!LockRow, Catalog!LockForDelete,
         Catalog!CheckTombstone, Catalog!RefuseRetired, Catalog!Rollback

\* Every step of a single connection keeps the invariant.
LEMMA SerialStep == SingleConnection /\ SerialInv /\ [Catalog!Next]_(Catalog!vars) => SerialInv'
<1> SUFFICES ASSUME SingleConnection, SerialInv, [Catalog!Next]_(Catalog!vars) PROVE SerialInv'
  OBVIOUS
<1>0. Catalog!TypeOK' /\ Carries' /\ LockInv'
  BY CatalogTypeStep, CarriesStep, LockStep DEF SerialInv
<1>1. CASE UNCHANGED Catalog!vars
  <2>1. Alone' /\ LivesInv'
    BY <1>1 DEF Catalog!vars, SerialInv, Alone, LivesInv
  <2>2. FoundInv' /\ Catalog!RetiredStaysGone'
    BY <1>1 DEF Catalog!vars, SerialInv, FoundInv, Catalog!RetiredStaysGone
  <2> QED BY <1>0, <2>1, <2>2 DEF SerialInv
<1>2. ASSUME NEW c \in Clients,
Catalog!Begin(c) \/ Catalog!Proceed(c) \/ Catalog!Rollback(c) PROVE SerialInv'
  <2>1. Alone'
    BY <1>2, AloneStep DEF SerialInv
  <2>2. LivesInv' /\ Catalog!RetiredStaysGone'
    BY <1>2, WriteKeeps, RetireKeeps, NoCommit DEF SerialInv, LivesInv, Catalog!RetiredStaysGone
  <2>3. FoundInv'
    <3>1. CASE Catalog!Write(c) \/ Catalog!Retire(c)
      <4>1. tx[c] # None /\ tx'[c] = None
        BY <3>1 DEF Catalog!Write, Catalog!Retire, Catalog!At, SerialInv, Catalog!TypeOK
      <4>2. \A d \in Clients : tx'[d] = None
        BY <1>2, <4>1, OthersKeep DEF SerialInv, Alone
      <4> QED BY <4>2 DEF FoundInv
    <3>2. CASE ~Catalog!Write(c) /\ ~Catalog!Retire(c)
      <4>1. row' = row /\ retired' = retired
        BY <1>2, <3>2, NoCommit
      <4>2. ASSUME NEW d \in Clients, tx'[d] # None
            PROVE  /\ tx'[d].stage \in {"seeking", "insert"} => row[tx'[d].key] = None
                   /\ tx'[d].stage = "insert" => tx'[d].key \notin retired
        BY <1>2, <4>2, OthersKeep, OwnStep DEF SerialInv, FoundInv
      <4> QED BY <4>1, <4>2 DEF FoundInv
    <3> QED BY <3>1, <3>2
  <2> QED BY <1>0, <2>1, <2>2, <2>3 DEF SerialInv
<1> QED BY <1>1, <1>2 DEF Catalog!Next

\* The empty catalog satisfies it.
LEMMA SerialInit == Catalog!Init => SerialInv
  BY CatalogInitType DEF Catalog!Init, SerialInv, Carries, LockInv, Locks, Alone, LivesInv,
         FoundInv,
                  Catalog!RetiredStaysGone

\* So it always holds on SQLite.
LEMMA SerialAlways == ASSUME SingleConnection PROVE Catalog!Spec => []SerialInv
<1>1. SerialInv /\ [Catalog!Next]_(Catalog!vars) => SerialInv'
  BY SerialStep
<1> QED BY <1>1, SerialInit, PTL DEF Catalog!Spec

-----------------------------------------------------------------------------
(* The handlers.                                                           *)

\* The gate asks a question or more.
LEMMA AskedType == Asked \in Nat /\ 1 \in 1 .. Asked /\ Asked \in 1 .. Asked
<1>1. ASSUME NEW kind \in {"readiness", "quality"} PROVE EachAsset(kind) \in Seq(SUBSET Items)
  <2>1. EachAsset(kind) \in [1 .. Assets -> SUBSET Items]
    BY DEF EachAsset, ForAsset, ForAssets, Items, AssetItems
  <2> QED BY <2>1, AssetsAssumption
<1>2. << {OfProduct("approvals"), OfProduct("consent")}, {OfProduct("pack")} >>
        \in Seq(SUBSET Items)
  BY DEF Items, ProductItems
<1>3. << {OfProduct("masking")} >> \in Seq(SUBSET Items)
  BY DEF Items, ProductItems
<1>4. GateQueries \in Seq(SUBSET Items)
  BY <1>1, <1>2, <1>3 DEF GateQueries
<1> QED BY <1>4 DEF Asked

HandlerType ==
  /\ evidence \in [Keys -> SUBSET Items]
  /\ handler \in [Clients -> Handlers \cup {None}]

(* Only a publish, a post or a PoC outcome wants a row published that the  *)
(* handler did not read as published.                                      *)
Lawful(op, public, want) ==
  want.status = "published" => op \in {"publish", "post", "poc"} \/ public

(* What a new request for k is, whatever it asks for.                      *)
Fresh(h, k) ==
  /\ h \in Handlers
  /\ h.key = k /\ h.seen = {} /\ h.unread = {}
  /\ h.at < Asked => h.held = evidence[k]
  /\ Lawful(h.op, h.public, h.want)

\* A product with another status, or another profile, is a product.
LEMMA ContentType ==
  ASSUME NEW p \in Contents
  PROVE  /\ \A s \in Statuses : [p EXCEPT !.status = s] \in Contents
                              /\ [p EXCEPT !.status = s].status = s
         /\ \A q \in Rescored(p) : q \in Contents /\ q.status = p.status
  BY DEF Contents, Rescored, Profiles

\* A request is well formed.
LEMMA RequestFresh ==
  ASSUME HandlerType, NEW op \in Operations, NEW k \in Keys, NEW copy \in Contents \cup {None},
         NEW want \in Contents, NEW at \in 1 .. Asked, Lawful(op, IsPublished(copy), want)
  PROVE  Fresh(Request(op, k, copy, want, at), k)
<1>1. evidence[k] \in SUBSET Items /\ IsPublished(copy) \in BOOLEAN
  BY DEF HandlerType, IsPublished
<1>2. Request(op, k, copy, want, at) \in Handlers
  BY <1>1 DEF Request, Handlers
<1>3. /\ Request(op, k, copy, want, at).op = op
      /\ Request(op, k, copy, want, at).public = IsPublished(copy)
      /\ Request(op, k, copy, want, at).want = want
      /\ Request(op, k, copy, want, at).key = k
      /\ Request(op, k, copy, want, at).at = at
      /\ at < Asked => Request(op, k, copy, want, at).held = evidence[k]
      /\ Request(op, k, copy, want, at).seen = {}
      /\ Request(op, k, copy, want, at).unread = {}
  BY DEF Request
<1> QED BY <1>2, <1>3 DEF Fresh

\* Moving the status keeps to the law unless it publishes.
LEMMA MovedLawful ==
  ASSUME NEW op \in Operations, NEW k \in Keys, row[k] \in Contents,
         NEW S \in SUBSET Statuses, NEW want \in Moved(k, S),
         "published" \notin S \/ op \in {"publish", "poc"}
  PROVE  want \in Contents /\ Lawful(op, IsPublished(row[k]), want)
<1>1. PICK s \in S : want = [row[k] EXCEPT !.status = s]
  BY DEF Moved
<1>2. s \in Statuses /\ want \in Contents /\ want.status = s
  BY <1>1, ContentType
<1>3. s = "published" => op \in {"publish", "poc"}
  BY <1>1
<1> QED BY <1>2, <1>3 DEF Lawful

\* So is a request that moves the status ...
LEMMA MovedFresh ==
  ASSUME TypeOK, NEW k \in Keys, row[k] # None, NEW op \in Operations, NEW at \in 1 .. Asked,
         NEW S \in SUBSET Statuses, "published" \notin S \/ op \in {"publish", "poc"}
  PROVE  \A want \in Moved(k, S) : Fresh(Request(op, k, row[k], want, at), k)
<1>1. row[k] \in Contents /\ HandlerType
  BY DEF TypeOK, Catalog!TypeOK, HandlerType
<1>2. \A want \in Moved(k, S) : want \in Contents /\ Lawful(op, IsPublished(row[k]), want)
  BY <1>1, MovedLawful
<1> QED BY <1>1, <1>2, RequestFresh

\* ... or leaves it as it was read.
LEMMA KeptFresh ==
  ASSUME TypeOK, NEW k \in Keys, row[k] # None, NEW op \in Operations, NEW at \in 1 .. Asked
  PROVE  /\ \A want \in Rescored(row[k]) : Fresh(Request(op, k, row[k], want, at), k)
         /\ Fresh(Request(op, k, row[k], row[k], at), k)
<1>1. row[k] \in Contents /\ HandlerType
  BY DEF TypeOK, Catalog!TypeOK, HandlerType
<1>2. \A want \in Rescored(row[k]) : want \in Contents /\ Lawful(op, IsPublished(row[k]), want)
  BY <1>1, ContentType DEF Lawful, IsPublished
<1>3. Lawful(op, IsPublished(row[k]), row[k])
  BY DEF Lawful, IsPublished
<1> QED BY <1>1, <1>2, <1>3, RequestFresh

\* Every request is one of these.
LEMMA ReceiveForm ==
  ASSUME TypeOK, NEW c \in Clients, NEW k \in Keys, Receive(c, k)
  PROVE  \E h \in Handlers : Fresh(h, k) /\ handler' = [handler EXCEPT ![c] = h]
<1> USE DEF Operations, Statuses
<1>0. Asked \in 1 .. Asked /\ GateFor("published") \in 1 .. Asked
  BY AskedType DEF GateFor
<1>1. \A h : Fresh(h, k) => h \in Handlers
  BY DEF Fresh
<1>2. ASSUME Submit(c, k) PROVE \E h \in Handlers : Fresh(h, k) /\ handler' = [handler EXCEPT ![c] = h]
  <2>1. \A want \in Moved(k, {"review"}) : Fresh(Request("submit", k, row[k], want, Asked), k)
    BY <1>0, <1>2, MovedFresh DEF Submit, Take
  <2> QED BY <1>1, <1>2, <2>1 DEF Submit, Take, Serve
<1>3. ASSUME Approve(c, k) PROVE \E h \in Handlers : Fresh(h, k) /\ handler' = [handler EXCEPT ![c] = h]
  <2>1. \A want \in Moved(k, {"approved"}) : Fresh(Request("approve", k, row[k], want, Asked), k)
    BY <1>0, <1>3, MovedFresh DEF Approve, Take
  <2> QED BY <1>1, <1>3, <2>1 DEF Approve, Take, Serve
<1>4. ASSUME Reject(c, k) PROVE \E h \in Handlers : Fresh(h, k) /\ handler' = [handler EXCEPT ![c] = h]
  <2>1. \A want \in Moved(k, {"draft"}) : Fresh(Request("reject", k, row[k], want, Asked), k)
    BY <1>0, <1>4, MovedFresh DEF Reject, Take
  <2> QED BY <1>1, <1>4, <2>1 DEF Reject, Take, Serve
<1>5. ASSUME Archive(c, k) PROVE \E h \in Handlers : Fresh(h, k) /\ handler' = [handler EXCEPT ![c] = h]
  <2>1. \A want \in Moved(k, {"archived"}) : Fresh(Request("archive", k, row[k], want, Asked), k)
    BY <1>0, <1>5, MovedFresh DEF Archive, Take
  <2> QED BY <1>1, <1>5, <2>1 DEF Archive, Take, Serve
<1>6. ASSUME Publish(c, k) PROVE \E h \in Handlers : Fresh(h, k) /\ handler' = [handler EXCEPT ![c] = h]
  <2>1. \A want \in Moved(k, {"published"}) : Fresh(Request("publish", k, row[k], want, GateFor("published")), k)
    BY <1>0, <1>6, MovedFresh DEF Publish, Take
  <2> QED BY <1>1, <1>6, <2>1 DEF Publish, Take, Serve
<1>7. ASSUME Review(c, k) PROVE \E h \in Handlers : Fresh(h, k) /\ handler' = [handler EXCEPT ![c] = h]
  <2>1. \A want \in Moved(k, {"approved", "draft"}) : Fresh(Request("review", k, row[k], want, Asked), k)
    BY <1>0, <1>7, MovedFresh DEF Review, Take
  <2> QED BY <1>1, <1>7, <2>1 DEF Review, Take, Serve
<1>8. ASSUME Factory(c, k) PROVE \E h \in Handlers : Fresh(h, k) /\ handler' = [handler EXCEPT ![c] = h]
  <2>1. \A want \in Moved(k, {"approved", "archived"}) : Fresh(Request("factory", k, row[k], want, Asked), k)
    BY <1>0, <1>8, MovedFresh DEF Factory, Take
  <2> QED BY <1>1, <1>8, <2>1 DEF Factory, Take, Serve
<1>9. CASE RiskCheck(c, k)
  <2>1. row[k] # None /\ row[k] \in Contents
    BY <1>9 DEF RiskCheck, Take, TypeOK, Catalog!TypeOK
  <2>2. PICK p \in Moved(k, {"risk_review"}) : \E want \in Rescored(p) :
          handler' = [handler EXCEPT ![c] = Request("risk", k, row[k], want, Asked)]
    <3>1. PICK want \in UNION {Rescored(p) : p \in Moved(k, {"risk_review"})} :
            handler' = [handler EXCEPT ![c] = Request("risk", k, row[k], want, Asked)]
      BY <1>9 DEF RiskCheck, Take, Serve
    <3>2. PICK p \in Moved(k, {"risk_review"}) : want \in Rescored(p)
      BY <3>1
    <3> QED BY <3>1, <3>2
  <2>3. p \in Contents /\ p.status = "risk_review"
    <3>1. p = [row[k] EXCEPT !.status = "risk_review"]
      BY <2>2 DEF Moved
    <3> QED BY <2>1, <3>1, ContentType
  <2>4. \A want \in Rescored(p) : want \in Contents /\ Lawful("risk", IsPublished(row[k]), want)
    BY <2>3, ContentType DEF Lawful
  <2>5. \A want \in Rescored(p) : Fresh(Request("risk", k, row[k], want, Asked), k)
    BY <1>0, <2>1, <2>4, RequestFresh DEF TypeOK, HandlerType
  <2> QED BY <1>1, <2>2, <2>5
<1>10. CASE Score(c, k)
  <2>1. \A want \in Rescored(row[k]) : Fresh(Request("score", k, row[k], want, Asked), k)
    BY <1>0, <1>10, KeptFresh DEF Score, Take
  <2> QED BY <1>1, <1>10, <2>1 DEF Score, Take, Serve
<1>11. CASE Outcome(c, k)
  <2>1. /\ \A want \in Moved(k, {"published"}) : Fresh(Request("poc", k, row[k], want, Asked), k)
        /\ Fresh(Request("poc", k, row[k], row[k], Asked), k)
    BY <1>0, <1>11, MovedFresh, KeptFresh DEF Outcome, Take
  <2> QED BY <1>1, <1>11, <2>1 DEF Outcome, Take, Serve
<1>12. CASE Post(c, k)
  <2>1. PICK new \in Posted : handler' = [handler EXCEPT ![c] = Request("post", k, None, new, GateFor(new.status))]
    BY <1>12 DEF Post, Serve
  <2>2. new \in Contents /\ GateFor(new.status) \in 1 .. Asked /\ Lawful("post", IsPublished(None), new)
    BY PostedAssumption, AskedType DEF GateFor, Lawful
  <2>3. Fresh(Request("post", k, None, new, GateFor(new.status)), k)
    BY <2>2, RequestFresh DEF TypeOK, HandlerType
  <2> QED BY <1>1, <2>1, <2>3
<1>13. CASE Delete(c, k) \/ Purge(c, k)
  <2>1. /\ Fresh(Request("delete", k, row[k], row[k], Asked), k)
        /\ Fresh(Request("purge", k, row[k], row[k], Asked), k)
    BY <1>0, <1>13, KeptFresh DEF Delete, Purge, Take
  <2> QED BY <1>1, <1>13, <2>1 DEF Delete, Purge, Take, Serve
<1> QED BY <1>2, <1>3, <1>4, <1>5, <1>6, <1>7, <1>8, <1>9, <1>10, <1>11, <1>12, <1>13 DEF Receive

-----------------------------------------------------------------------------
(* The handlers implement the catalog.                                     *)

\* One gate query later a request is a request.
LEMMA QueryType ==
  ASSUME NEW h \in Handlers, h.at < Asked, NEW found \in SUBSET Items, NEW skipped \in SUBSET Items
  PROVE  [h EXCEPT !.at = @ + 1, !.seen = @ \cup found, !.unread = @ \cup skipped] \in Handlers
<1>1. h.at + 1 \in 1 .. Asked
  BY AskedType DEF Handlers
<1>2. h.seen \cup found \in SUBSET Items /\ h.unread \cup skipped \in SUBSET Items
  BY DEF Handlers
<1> QED BY <1>1, <1>2 DEF Handlers

\* Every step keeps the types of the requests and of the evidence.
LEMMA HandlerStep == TypeOK /\ [Next]_vars => HandlerType'
<1> SUFFICES ASSUME TypeOK, [Next]_vars PROVE HandlerType'
  OBVIOUS
<1>0. HandlerType
  BY DEF TypeOK, HandlerType
<1>1. CASE UNCHANGED vars
  BY <1>0, <1>1 DEF vars, HandlerType
<1>2. ASSUME NEW c \in Clients, NEW k \in Keys, Receive(c, k) PROVE HandlerType'
  <2>1. evidence' = evidence
    BY <1>2 DEF Receive, Submit, Approve, Reject, Archive, Publish, Review, Factory, RiskCheck,
                Score, Outcome, Post, Delete, Purge, Take
  <2> QED BY <1>0, <1>2, <2>1, ReceiveForm DEF HandlerType
<1>3. ASSUME NEW c \in Clients, GateQuery(c) PROVE HandlerType'
  <2>1. handler[c] \in Handlers /\ evidence' = evidence /\ handler[c].at < Asked
    BY <1>0, <1>3 DEF GateQuery, Serves, HandlerType
  <2>2. GateQueries[handler[c].at] \cap evidence[handler[c].key] \in SUBSET Items
    BY <1>0, <2>1 DEF HandlerType, Handlers
  <2>3. [handler[c] EXCEPT !.at = @ + 1,
             !.seen = @ \cup (GateQueries[handler[c].at] \cap evidence[handler[c].key])] \in Handlers
    <3>1. handler[c].at + 1 \in 1 .. Asked
      BY <2>1, AskedType DEF Handlers
    <3>2. handler[c].seen \cup (GateQueries[handler[c].at] \cap evidence[handler[c].key])
            \in SUBSET Items
      BY <2>1, <2>2 DEF Handlers
    <3> QED BY <2>1, <3>1, <3>2 DEF Handlers
  <2> QED BY <1>0, <1>3, <2>1, <2>3 DEF GateQuery, Serve, HandlerType
<1>4. ASSUME NEW c \in Clients, QueryUnread(c) PROVE HandlerType'
  <2>1. handler[c] \in Handlers /\ evidence' = evidence /\ handler[c].at < Asked
    BY <1>0, <1>4 DEF QueryUnread, Serves, HandlerType
  <2> DEFINE passed  == GateQueries[handler[c].at] \cap ForAssets("quality")
             skipped == passed \ handler[c].held
  <2>2. passed \in SUBSET Items /\ skipped \in SUBSET Items
    BY DEF Items, AssetItems
  <2>3. handler' = [handler EXCEPT ![c] =
                      [handler[c] EXCEPT !.at = @ + 1, !.seen = @ \cup passed,
                                         !.unread = @ \cup skipped]]
    BY <1>4 DEF QueryUnread, Serve
  <2> HIDE DEF passed, skipped
  <2>4. [handler[c] EXCEPT !.at = @ + 1, !.seen = @ \cup passed,
                           !.unread = @ \cup skipped] \in Handlers
    BY <2>1, <2>2, QueryType
  <2> QED BY <1>0, <2>1, <2>3, <2>4 DEF HandlerType
<1>5. ASSUME NEW c \in Clients,
             GateFails(c) \/ GateBlocks(c) \/ DeleteNothing(c) \/ Commit(c) \/ Fail(c)
      PROVE  HandlerType'
  BY <1>0, <1>5 DEF GateFails, GateBlocks, DeleteNothing, Commit, Fail, Answer, Serve, HandlerType
<1>6. ASSUME NEW c \in Clients, OpenUpsert(c) \/ FindUnretired(c) \/ OpenDelete(c)
      PROVE  HandlerType'
  BY <1>0, <1>6 DEF OpenUpsert, FindUnretired, OpenDelete, HandlerType
<1>7. ASSUME NEW k \in Keys, NEW items \in SUBSET Items, Revised(k, items) PROVE HandlerType'
  <2>1. \A h \in Handlers : [h EXCEPT !.held = @ \cup items] \in Handlers
    BY DEF Handlers
  <2> QED BY <1>0, <1>7, <2>1 DEF Revised, HandlerType, Serves
<1>8. ASSUME NEW k \in Keys, NEW item \in Items, Settle(k, item) \/ Unsettle(k, item)
      PROVE  HandlerType'
  <2>1. evidence[k] \cup {item} \in SUBSET Items /\ evidence[k] \ {item} \in SUBSET Items
    BY <1>0 DEF HandlerType
  <2> QED BY <1>7, <1>8, <2>1 DEF Settle, Unsettle
<1> QED BY <1>1, <1>2, <1>3, <1>4, <1>5, <1>6, <1>8 DEF Next, Advance

\* A handler's step is a step of the catalog or leaves the catalog alone.
LEMMA StepRefines == TypeOK /\ [Next]_vars => [Catalog!Next]_(Catalog!vars)
<1> SUFFICES ASSUME TypeOK, [Next]_vars PROVE [Catalog!Next]_(Catalog!vars)
  OBVIOUS
<1>1. CASE UNCHANGED vars
  BY <1>1 DEF vars, store, Catalog!vars
<1>2. CASE \E c \in Clients, k \in Keys : Receive(c, k)
  BY <1>2 DEF Receive, Submit, Approve, Reject, Archive, Publish, Review, Factory, RiskCheck,
              Score, Outcome, Post, Delete, Purge, Take, store, Catalog!vars
<1>3. CASE \E k \in Keys, item \in Items : Settle(k, item) \/ Unsettle(k, item)
  BY <1>3 DEF Settle, Unsettle, Revised, store, Catalog!vars
<1>4. CASE \E c \in Clients : \/ GateQuery(c) \/ QueryUnread(c) \/ GateFails(c)
                              \/ GateBlocks(c) \/ DeleteNothing(c)
  BY <1>4 DEF GateQuery, QueryUnread, GateFails, GateBlocks, DeleteNothing, store, Catalog!vars
<1>5. ASSUME NEW c \in Clients, OpenUpsert(c) \/ OpenDelete(c) PROVE Catalog!Next
  <2>1. handler[c] \in Handlers
    BY <1>5 DEF OpenUpsert, OpenDelete, Serves, TypeOK
  <2>2. handler[c].key \in Keys /\ handler[c].want \in Contents
    BY <2>1 DEF Handlers
  <2>3. Catalog!Begin(c)
    BY <1>5, <2>2 DEF OpenUpsert, OpenDelete, Catalog!Begin
  <2> QED BY <2>3 DEF Catalog!Next
<1>6. ASSUME NEW c \in Clients, FindUnretired(c) \/ Commit(c) \/ Fail(c) PROVE Catalog!Next
  BY <1>6 DEF FindUnretired, Commit, Fail, Catalog!Next, Catalog!Proceed
<1> QED BY <1>1, <1>2, <1>3, <1>4, <1>5, <1>6 DEF Next, Advance

\* Every step keeps the type invariant.
LEMMA TypeStep == TypeOK /\ [Next]_vars => TypeOK'
<1> SUFFICES ASSUME TypeOK, [Next]_vars PROVE TypeOK'
  OBVIOUS
<1>1. Catalog!TypeOK'
  BY StepRefines, CatalogTypeStep DEF TypeOK
<1> QED BY <1>1, HandlerStep DEF TypeOK, HandlerType

\* The initial state is well typed.
LEMMA InitType == Init => TypeOK
<1> SUFFICES ASSUME Init PROVE TypeOK
  OBVIOUS
<1>1. Catalog!TypeOK
  BY CatalogInitType DEF Init
<1>2. evidence \in [Keys -> SUBSET Items] /\ handler \in [Clients -> Handlers \cup {None}]
  BY DEF Init, Items, AssetItems, ProductItems
<1> QED BY <1>1, <1>2 DEF TypeOK

\* The state of the lifecycle stays well typed.
THEOREM TypeCorrect == Spec => []TypeOK
  BY InitType, TypeStep, PTL DEF Spec

\* What is proved of the catalog holds for the handlers, which use nothing but its
\* transactions.
LEMMA ImplementsCatalog == Spec => Catalog!Spec
<1>1. Init => Catalog!Init
  BY DEF Init
<1> QED BY <1>1, TypeCorrect, StepRefines, PTL DEF Spec, Catalog!Spec

\* On SQLite no two products share a key, whatever the handlers do.
THEOREM KeysLiveOnce == ASSUME SingleConnection PROVE Spec => []OneLife
<1>1. Catalog!Spec => []SerialInv
  BY SerialAlways
<1>2. SerialInv => OneLife
  <2> SUFFICES ASSUME SerialInv, NEW k \in Keys PROVE lives[k] <= 1
    BY DEF OneLife, Catalog!OneLife
  <2>1. lives[k] = 0 \/ lives[k] = 1
    BY DEF SerialInv, LivesInv
  <2> QED BY <2>1
<1> QED BY <1>1, <1>2, ImplementsCatalog, PTL

\* On SQLite a handler that read a product before its deletion cannot bring it back.
THEOREM RetiredForGood == ASSUME SingleConnection PROVE Spec => []RetiredStaysGone
<1>1. Catalog!Spec => []SerialInv
  BY SerialAlways
<1>2. SerialInv => RetiredStaysGone
  BY DEF SerialInv, RetiredStaysGone
<1> QED BY <1>1, <1>2, ImplementsCatalog, PTL

-----------------------------------------------------------------------------
(* No product is published around the gate.                                *)

(* The transaction of a client is the one its request asks for, and it is  *)
(* open only if the gate was.                                              *)
Bound ==
  \A c \in Clients : tx[c] # None =>
    /\ Serves(c) /\ handler[c].at = Asked
    /\ tx[c].key = handler[c].key
    /\ tx[c].stage # "delete" => tx[c].content = handler[c].want /\ Allowed(handler[c])

(* What the gate found in order was so at some moment while it asked.      *)
Backed ==
  \A c \in Clients : Serves(c) =>
    /\ handler[c].at < Asked => evidence[handler[c].key] \subseteq handler[c].held
    /\ handler[c].seen \subseteq handler[c].held \cup handler[c].unread
    /\ Lawful(handler[c].op, handler[c].public, handler[c].want)

\* A request touches no transaction and no evidence.
LEMMA ReceiveKeeps ==
  ASSUME NEW c \in Clients, NEW k \in Keys, Receive(c, k)
  PROVE  ~Serves(c) /\ tx' = tx /\ evidence' = evidence /\ row' = row
  BY DEF Receive, Submit, Approve, Reject, Archive, Publish, Review, Factory, RiskCheck,
         Score, Outcome, Post, Delete, Purge, Take, store

\* A gate query only changes how far the gate is.
LEMMA QueryKeeps ==
  ASSUME TypeOK, NEW c \in Clients, GateQuery(c) \/ QueryUnread(c)
  PROVE  /\ handler[c] \in Handlers /\ handler[c].at < Asked
         /\ tx' = tx /\ evidence' = evidence /\ row' = row
         /\ \A d \in Clients \ {c} : handler'[d] = handler[d]
         /\ handler'[c].op = handler[c].op /\ handler'[c].key = handler[c].key
         /\ handler'[c].public = handler[c].public /\ handler'[c].want = handler[c].want
         /\ handler'[c].held = handler[c].held
         /\ \/ /\ handler'[c].seen \subseteq handler[c].seen \cup evidence[handler[c].key]
               /\ handler'[c].unread = handler[c].unread
            \/ \E passed : /\ handler'[c].seen = handler[c].seen \cup passed
                           /\ handler'[c].unread = handler[c].unread \cup (passed \ handler[c].held)
<1>1. handler[c] \in Handlers /\ handler[c].at < Asked /\ UNCHANGED <<store, evidence>>
  BY DEF GateQuery, QueryUnread, Serves, TypeOK
<1>2. CASE GateQuery(c)
  <2>1. handler'[c] = [handler[c] EXCEPT !.at = @ + 1,
                  !.seen = @ \cup (GateQueries[handler[c].at] \cap evidence[handler[c].key])]
    BY <1>2 DEF GateQuery, Serve, TypeOK
  <2>2. \A d \in Clients \ {c} : handler'[d] = handler[d]
    BY <1>2 DEF GateQuery, Serve, TypeOK
  <2> QED BY <1>1, <2>1, <2>2 DEF Handlers, store
<1>3. CASE QueryUnread(c)
  <2> DEFINE passed == GateQueries[handler[c].at] \cap ForAssets("quality")
  <2>1. handler'[c] = [handler[c] EXCEPT !.at = @ + 1, !.seen = @ \cup passed,
                                         !.unread = @ \cup (passed \ handler[c].held)]
    BY <1>3 DEF QueryUnread, Serve, TypeOK
  <2>2. \A d \in Clients \ {c} : handler'[d] = handler[d]
    BY <1>3 DEF QueryUnread, Serve, TypeOK
  <2> HIDE DEF passed
  <2>3. /\ handler'[c].op = handler[c].op /\ handler'[c].key = handler[c].key
        /\ handler'[c].public = handler[c].public /\ handler'[c].want = handler[c].want
        /\ handler'[c].held = handler[c].held
    BY <1>1, <2>1 DEF Handlers
  <2>4. /\ handler'[c].seen = handler[c].seen \cup passed
        /\ handler'[c].unread = handler[c].unread \cup (passed \ handler[c].held)
    BY <1>1, <2>1 DEF Handlers
  <2> QED BY <1>1, <2>2, <2>3, <2>4 DEF store
<1> QED BY <1>2, <1>3

\* A revision of the evidence only adds to what the requests saw in order.
LEMMA RevisionKeeps ==
  ASSUME TypeOK, NEW k \in Keys, NEW items \in SUBSET Items, Revised(k, items)
  PROVE  /\ tx' = tx /\ row' = row
         /\ \A c \in Clients :
              /\ Serves(c)' <=> Serves(c)
              /\ Serves(c) =>
                   /\ handler'[c].op = handler[c].op /\ handler'[c].key = handler[c].key
                   /\ handler'[c].public = handler[c].public /\ handler'[c].want = handler[c].want
                   /\ handler'[c].at = handler[c].at /\ handler'[c].seen = handler[c].seen
                   /\ handler'[c].unread = handler[c].unread
                   /\ handler[c].held \subseteq handler'[c].held
                   /\ handler[c].key = k /\ handler[c].at < Asked => items \subseteq handler'[c].held
         /\ evidence'[k] = items
         /\ \A j \in Keys \ {k} : evidence'[j] = evidence[j]
<1>1. \A h \in Handlers : LET r == [h EXCEPT !.held = @ \cup items]
                          IN  /\ r.op = h.op /\ r.key = h.key /\ r.public = h.public
                              /\ r.want = h.want /\ r.at = h.at /\ r.seen = h.seen
                              /\ r.unread = h.unread /\ r.held = h.held \cup items
                              /\ r \in Handlers
  BY DEF Handlers
<1>2. tx' = tx /\ row' = row
  BY DEF Revised, store
<1>3. evidence'[k] = items /\ \A j \in Keys \ {k} : evidence'[j] = evidence[j]
  BY DEF Revised, TypeOK
<1>4. ASSUME NEW c \in Clients
      PROVE  handler'[c] = IF Serves(c) /\ handler[c].key = k /\ handler[c].at < Asked
                           THEN [handler[c] EXCEPT !.held = @ \cup items] ELSE handler[c]
  BY DEF Revised
<1>5. \A c \in Clients : Serves(c) => handler[c] \in Handlers
  BY DEF Serves, TypeOK
<1>6. ASSUME NEW c \in Clients PROVE handler'[c] # None <=> handler[c] # None
  <2>1. CASE Serves(c) /\ handler[c].key = k /\ handler[c].at < Asked
    <3>1. handler[c] \in Handlers /\ handler'[c] = [handler[c] EXCEPT !.held = @ \cup items]
      BY <1>4, <1>5, <2>1
    <3>2. handler'[c] \in Handlers
      BY <1>1, <3>1
    <3>3. None \notin Handlers
      BY NoneAssumption
    <3> QED BY <2>1, <3>2, <3>3 DEF Serves
  <2>2. CASE ~(Serves(c) /\ handler[c].key = k /\ handler[c].at < Asked)
    BY <1>4, <2>2
  <2> QED BY <2>1, <2>2
<1>7. ASSUME NEW c \in Clients, Serves(c)
      PROVE  /\ handler'[c].op = handler[c].op /\ handler'[c].key = handler[c].key
             /\ handler'[c].public = handler[c].public /\ handler'[c].want = handler[c].want
             /\ handler'[c].at = handler[c].at /\ handler'[c].seen = handler[c].seen
             /\ handler'[c].unread = handler[c].unread
             /\ handler[c].held \subseteq handler'[c].held
             /\ handler[c].key = k /\ handler[c].at < Asked => items \subseteq handler'[c].held
  <2>1. CASE handler[c].key = k /\ handler[c].at < Asked
    <3> DEFINE old == handler[c]
    <3>1. old \in Handlers
      BY <1>5, <1>7
    <3>2. handler'[c] = [old EXCEPT !.held = @ \cup items]
      BY <1>4, <1>7, <2>1
    <3> HIDE DEF old
    <3> QED BY <1>1, <3>1, <3>2 DEF old
  <2>2. CASE ~(handler[c].key = k /\ handler[c].at < Asked)
    BY <1>4, <2>2
  <2> QED BY <2>1, <2>2
<1> QED BY <1>2, <1>3, <1>6, <1>7 DEF Serves

\* Every step keeps the requests backed by evidence.
LEMMA BackedStep == TypeOK /\ Backed /\ [Next]_vars => Backed'
<1> SUFFICES ASSUME TypeOK, Backed, [Next]_vars PROVE Backed'
  OBVIOUS
<1>1. CASE UNCHANGED vars
  BY <1>1 DEF vars, Backed, Serves
<1>2. ASSUME NEW c \in Clients, NEW k \in Keys, Receive(c, k) PROVE Backed'
  <2>1. PICK h \in Handlers : Fresh(h, k) /\ handler' = [handler EXCEPT ![c] = h]
    BY <1>2, ReceiveForm
  <2>2. handler'[c] = h /\ \A d \in Clients \ {c} : handler'[d] = handler[d]
    BY <2>1 DEF TypeOK
  <2> QED BY <1>2, <2>1, <2>2, ReceiveKeeps DEF Backed, Serves, Fresh
<1>3. ASSUME NEW c \in Clients, GateQuery(c) \/ QueryUnread(c) PROVE Backed'
  <2>1. Serves(c)
    BY <1>3 DEF GateQuery, QueryUnread
  <2> QED BY <1>3, <2>1, QueryKeeps DEF Backed, Serves
<1>4. ASSUME NEW c \in Clients,
             \/ GateFails(c) \/ GateBlocks(c) \/ DeleteNothing(c) \/ Commit(c) \/ Fail(c)
             \/ OpenUpsert(c) \/ FindUnretired(c) \/ OpenDelete(c)
      PROVE  Backed'
  <2>1. evidence' = evidence /\ \A d \in Clients : handler'[d] \in {None, handler[d]}
    BY <1>4 DEF GateFails, GateBlocks, DeleteNothing, Commit, Fail, OpenUpsert, FindUnretired,
                OpenDelete, Answer, Serve, TypeOK
  <2> QED BY <2>1 DEF Backed, Serves
<1>5. ASSUME NEW k \in Keys, NEW items \in SUBSET Items, Revised(k, items) PROVE Backed'
  <2> SUFFICES ASSUME NEW c \in Clients, Serves(c)'
               PROVE  /\ handler'[c].at < Asked => evidence'[handler'[c].key] \subseteq handler'[c].held
                      /\ handler'[c].seen \subseteq handler'[c].held \cup handler'[c].unread
                      /\ Lawful(handler'[c].op, handler'[c].public, handler'[c].want)
    BY DEF Backed
  <2>1. Serves(c) /\ handler[c].key \in Keys
    BY <1>5, RevisionKeeps DEF TypeOK, Handlers, Serves
  <2>2. /\ handler'[c].op = handler[c].op /\ handler'[c].key = handler[c].key
        /\ handler'[c].public = handler[c].public /\ handler'[c].want = handler[c].want
        /\ handler'[c].at = handler[c].at
        /\ handler'[c].seen = handler[c].seen /\ handler'[c].unread = handler[c].unread
        /\ handler[c].held \subseteq handler'[c].held
        /\ handler[c].key = k /\ handler[c].at < Asked => items \subseteq handler'[c].held
    BY <1>5, <2>1, RevisionKeeps
  <2>3. evidence'[k] = items /\ \A j \in Keys \ {k} : evidence'[j] = evidence[j]
    BY <1>5, RevisionKeeps
  <2>4. /\ handler[c].at < Asked => evidence[handler[c].key] \subseteq handler[c].held
        /\ handler[c].seen \subseteq handler[c].held \cup handler[c].unread
        /\ Lawful(handler[c].op, handler[c].public, handler[c].want)
    BY <2>1 DEF Backed
  <2>5. handler'[c].at < Asked => evidence'[handler'[c].key] \subseteq handler'[c].held
    BY <2>1, <2>2, <2>3, <2>4
  <2> QED BY <2>2, <2>4, <2>5
<1>6. ASSUME NEW k \in Keys, NEW item \in Items, Settle(k, item) \/ Unsettle(k, item)
      PROVE  Backed'
  <2>1. evidence[k] \cup {item} \in SUBSET Items /\ evidence[k] \ {item} \in SUBSET Items
    BY DEF TypeOK
  <2> QED BY <1>5, <1>6, <2>1 DEF Settle, Unsettle
<1> QED BY <1>1, <1>2, <1>3, <1>4, <1>6 DEF Next, Advance

\* What a transaction is about never changes between its statements.
LEMMA BoundStep == TypeOK /\ Bound /\ [Next]_vars => Bound'
<1> SUFFICES ASSUME TypeOK, Bound, [Next]_vars PROVE Bound'
  OBVIOUS
<1>1. CASE UNCHANGED vars
  BY <1>1 DEF vars, store, Bound, Serves
<1>2. ASSUME NEW c \in Clients, NEW k \in Keys, Receive(c, k) PROVE Bound'
  <2>1. \A d \in Clients \ {c} : handler'[d] = handler[d]
    BY <1>2, ReceiveForm DEF TypeOK
  <2>2. tx' = tx /\ tx[c] = None
    BY <1>2, ReceiveKeeps DEF Bound
  <2> QED BY <2>1, <2>2 DEF Bound, Serves
<1>3. ASSUME NEW c \in Clients, GateQuery(c) \/ QueryUnread(c) PROVE Bound'
  <2>1. /\ tx' = tx /\ \A d \in Clients \ {c} : handler'[d] = handler[d]
        /\ handler[c] \in Handlers /\ handler[c].at < Asked
    BY <1>3, QueryKeeps
  <2>2. tx[c] = None
    BY <2>1, AskedType DEF Bound
  <2> QED BY <2>1, <2>2 DEF Bound, Serves
<1>4. ASSUME NEW c \in Clients, GateFails(c) \/ GateBlocks(c) \/ DeleteNothing(c) PROVE Bound'
  <2>1. /\ tx' = tx /\ tx[c] = None
        /\ \A d \in Clients \ {c} : handler'[d] = handler[d]
    BY <1>4 DEF GateFails, GateBlocks, DeleteNothing, Answer, Serve, TypeOK, store
  <2> QED BY <2>1 DEF Bound, Serves
<1>5. ASSUME NEW c \in Clients, Commit(c) \/ Fail(c) PROVE Bound'
  <2>1. tx' = [tx EXCEPT ![c] = None]
    BY <1>5 DEF Commit, Fail, Catalog!Write, Catalog!Retire, Catalog!RefuseRetired,
                Catalog!Rollback
  <2>2. /\ tx'[c] = None
        /\ \A d \in Clients \ {c} : tx'[d] = tx[d]
        /\ \A d \in Clients \ {c} : handler'[d] = handler[d]
    BY <1>5, <2>1 DEF Commit, Fail, Answer, Serve, TypeOK, Catalog!TypeOK
  <2> QED BY <2>2 DEF Bound, Serves
<1>6. ASSUME NEW c \in Clients, OpenUpsert(c) PROVE Bound'
  <2>1. /\ tx' = [tx EXCEPT ![c] = [stage   |-> IF row[handler[c].key] = None
                                               THEN "seeking" ELSE "holding",
                                    key     |-> handler[c].key,
                                    content |-> handler[c].want]]
        /\ handler' = handler /\ Serves(c) /\ handler[c].at = Asked /\ Allowed(handler[c])
    BY <1>6 DEF OpenUpsert, Catalog!LockRow
  <2>2. /\ tx'[c].key = handler[c].key /\ tx'[c].content = handler[c].want
        /\ \A d \in Clients \ {c} : tx'[d] = tx[d]
    BY <2>1 DEF TypeOK, Catalog!TypeOK
  <2> QED BY <2>1, <2>2 DEF Bound, Serves
<1>7. ASSUME NEW c \in Clients, OpenDelete(c) PROVE Bound'
  <2>1. /\ tx' = [tx EXCEPT ![c] = [stage |-> "delete", key |-> handler[c].key, content |-> None]]
        /\ handler' = handler /\ Serves(c) /\ handler[c].at = Asked
    BY <1>7 DEF OpenDelete, Catalog!LockForDelete
  <2>2. /\ tx'[c].key = handler[c].key /\ tx'[c].stage = "delete"
        /\ \A d \in Clients \ {c} : tx'[d] = tx[d]
    BY <2>1 DEF TypeOK, Catalog!TypeOK
  <2> QED BY <2>1, <2>2 DEF Bound, Serves
<1>8. ASSUME NEW c \in Clients, FindUnretired(c) PROVE Bound'
  <2>1. /\ tx' = [tx EXCEPT ![c].stage = Catalog!Passed(tx[c].stage)]
        /\ handler' = handler /\ tx[c] # None
        /\ tx[c].stage \in {"seeking", "holding"}
    BY <1>8 DEF FindUnretired, Catalog!CheckTombstone, Catalog!At
  <2>2. tx[c] \in Catalog!Transactions
    BY <2>1 DEF TypeOK, Catalog!TypeOK
  <2>3. /\ tx'[c].key = tx[c].key /\ tx'[c].content = tx[c].content
        /\ tx[c].stage # "delete"
        /\ \A d \in Clients \ {c} : tx'[d] = tx[d]
    BY <2>1, <2>2 DEF TypeOK, Catalog!TypeOK, Catalog!Transactions
  <2> QED BY <2>1, <2>3 DEF Bound, Serves
<1>9. ASSUME NEW k \in Keys, NEW items \in SUBSET Items, Revised(k, items) PROVE Bound'
  <2>1. tx' = tx
    BY <1>9, RevisionKeeps
  <2>2. ASSUME NEW c \in Clients, tx[c] # None
        PROVE  /\ Serves(c)' /\ handler'[c].at = handler[c].at
               /\ handler'[c].key = handler[c].key
               /\ Allowed(handler[c]) => Allowed(handler'[c])
               /\ handler'[c].want = handler[c].want
    <3>1. Serves(c)
      BY <2>2 DEF Bound
    <3> QED BY <1>9, <3>1, RevisionKeeps DEF Allowed, Gated
  <2> QED BY <2>1, <2>2 DEF Bound
<1>10. ASSUME NEW k \in Keys, NEW item \in Items, Settle(k, item) \/ Unsettle(k, item)
       PROVE  Bound'
  <2>1. evidence[k] \cup {item} \in SUBSET Items /\ evidence[k] \ {item} \in SUBSET Items
    BY DEF TypeOK
  <2> QED BY <1>9, <1>10, <2>1 DEF Settle, Unsettle
<1> QED BY <1>1, <1>2, <1>3, <1>4, <1>5, <1>6, <1>7, <1>8, <1>10 DEF Next, Advance

\* Rows change at commits only, and the committing client is the writer.
LEMMA RowsChangeAtCommits ==
  ASSUME TypeOK, Next, NEW k \in Keys, row'[k] # row[k]
  PROVE  \E c \in Clients : Commit(c) /\ tx[c] # None /\ tx[c].key = k /\ Writer(k) = c
<1>1. PICK c \in Clients : Commit(c)
  <2>1. ASSUME NEW c \in Clients, NEW j \in Keys, Receive(c, j) PROVE row' = row
    BY <2>1, ReceiveKeeps
  <2>2. ASSUME NEW c \in Clients, Advance(c), ~Commit(c) PROVE row' = row
    BY <2>2 DEF Advance, GateQuery, QueryUnread, GateFails, GateBlocks, OpenUpsert, FindUnretired,
                OpenDelete, DeleteNothing, Fail, store, Catalog!LockRow, Catalog!LockForDelete,
                Catalog!CheckTombstone, Catalog!RefuseRetired, Catalog!Rollback
  <2>3. ASSUME NEW j \in Keys, NEW item \in Items, Settle(j, item) \/ Unsettle(j, item)
        PROVE  row' = row
    BY <2>3 DEF Settle, Unsettle, Revised, store
  <2> QED BY <2>1, <2>2, <2>3 DEF Next
<1>2. /\ tx[c] # None /\ tx' = [tx EXCEPT ![c] = None]
      /\ \A j \in Keys \ {tx[c].key} : row'[j] = row[j]
  BY <1>1 DEF Commit, Catalog!Write, Catalog!Retire, Catalog!At, TypeOK, Catalog!TypeOK
<1>3. tx'[c] = None /\ \A d \in Clients \ {c} : tx'[d] = tx[d]
  BY <1>2 DEF TypeOK, Catalog!TypeOK
<1>4. tx[c].key = k
  BY <1>2
<1>5. \A d \in Clients : tx[d] # None /\ tx'[d] = None /\ tx[d].key = k <=> d = c
  BY <1>2, <1>3, <1>4
<1>6. Writer(k) = c
  BY <1>5 DEF Writer
<1> QED BY <1>1, <1>2, <1>4, <1>6

\* What a commit writes is what the request wants.
LEMMA CommitWrites ==
  ASSUME TypeOK, Bound, NEW c \in Clients, Commit(c), NEW k \in Keys, tx[c].key = k,
         row'[k] # None
  PROVE  Serves(c) /\ row'[k] = handler[c].want /\ Allowed(handler[c])
<1>1. tx[c] # None
  BY DEF Commit, Catalog!Write, Catalog!Retire, Catalog!At
<1>2. CASE Catalog!Write(c)
  <2>1. tx[c].stage # "delete" /\ row'[k] = tx[c].content
    BY <1>2 DEF Catalog!Write, Catalog!At, TypeOK, Catalog!TypeOK
  <2> QED BY <1>1, <2>1 DEF Bound
<1>3. CASE Catalog!Retire(c)
  <2>1. row'[k] = None
    BY <1>3 DEF Catalog!Retire, TypeOK, Catalog!TypeOK
  <2> QED BY <2>1
<1> QED BY <1>2, <1>3 DEF Commit

\* No product is published around the gate: only by a gate that judged the very row
\* it lets through, on items each in order at some moment while it asked or passed
\* over, by a PoC outcome, or by putting back a row read as published.
THEOREM GateGuardsPublishing == Spec => PublishIsGated
<1>1. Init => Bound /\ Backed
  BY DEF Init, Bound, Backed, Serves, Catalog!Init
<1>2. ASSUME TypeOK, Bound, Backed, [Next]_vars
      PROVE  [\A k \in Keys : Publishes(k) =>
                LET h == handler[Writer(k)]
                IN  \/ Gated(h) /\ Needed(row'[k]) \subseteq h.held \cup h.unread
                    \/ h.op = "poc"
                    \/ h.public]_vars
  <2> SUFFICES ASSUME Next, NEW k \in Keys, Publishes(k)
               PROVE  \/ /\ Gated(handler[Writer(k)])
                         /\ Needed(row'[k]) \subseteq
                              handler[Writer(k)].held \cup handler[Writer(k)].unread
                      \/ handler[Writer(k)].op = "poc"
                      \/ handler[Writer(k)].public
    BY <1>2
  <2>1. row'[k] # row[k] /\ row'[k] # None /\ row'[k].status = "published"
    BY DEF Publishes, IsPublished
  <2>2. PICK c \in Clients : Commit(c) /\ tx[c] # None /\ tx[c].key = k /\ Writer(k) = c
    BY <1>2, <2>1, RowsChangeAtCommits
  <2>3. Serves(c) /\ row'[k] = handler[c].want /\ Allowed(handler[c])
    BY <1>2, <2>1, <2>2, CommitWrites
  <2>4. /\ handler[c].seen \subseteq handler[c].held \cup handler[c].unread
        /\ Lawful(handler[c].op, handler[c].public, handler[c].want)
    BY <1>2, <2>3 DEF Backed
  <2>5. handler[c].op \in {"publish", "post", "poc"} \/ handler[c].public
    BY <2>1, <2>3, <2>4 DEF Lawful
  <2>6. handler[c].op \in {"publish", "post"} => Gated(handler[c])
    BY <2>1, <2>3 DEF Gated
  <2>7. Gated(handler[c]) => Needed(row'[k]) \subseteq handler[c].held \cup handler[c].unread
    BY <2>3, <2>4 DEF Allowed
  <2> QED BY <2>2, <2>5, <2>6, <2>7
<1> QED BY <1>1, <1>2, InitType, TypeStep, BoundStep, BackedStep, PTL DEF Spec, PublishIsGated
=============================================================================
