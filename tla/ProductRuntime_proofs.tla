----------------------- MODULE ProductRuntime_proofs -----------------------
(***************************************************************************)
(* Proofs about ProductRuntime for any number of requests, administrators, *)
(* products, contracts and grants, any ceilings and any budget.            *)
(***************************************************************************)
EXTENDS ProductRuntime, FiniteSetTheorems, TLAPS

USE FiniteAssumption, LimitsAssumption, SensitiveAssumption, BoundsAssumption,
    OfferedAssumption, NoneAssumption

(* Where a request stands in the handler.                                  *)
Placed(c) ==
  /\ h[c].at >= 1
  /\ h[c].owes => At(c, "reply") /\ h[c].ent # None
  /\ At(c, "walk") => h[c].list # <<>>
  /\ h[c].pc \in {"contract", "allow", "body"} =>
       /\ h[c].ent # None /\ h[c].ent.permits
       /\ \E i \in 1 .. Len(h[c].list) : h[c].list[i] = h[c].ent
  /\ h[c].pc \in {"allow", "body"} => h[c].terms # None

PlaceInv == \A c \in Clients : Placed(c)

(* What a request that has chosen a grant knows of its contract.           *)
Forced(c) ==
  /\ At(c, "contract") => InForceFor(h[c].product) \subseteq lately[c]
  /\ h[c].pc \in {"allow", "body"} => h[c].ent.contract \in lately[c]
  /\ At(c, "reply") /\ h[c].outcome = "served" =>
       /\ h[c].ent.permits /\ \E i \in 1 .. Len(h[c].list) : h[c].list[i] = h[c].ent
       /\ h[c].ent.contract \in lately[c]

ForceInv == \A c \in Clients : Forced(c)

(* What a request that walks its listing has passed over.                  *)
Walks(c) ==
  /\ At(c, "list") => h[c].at = 1
  /\ h[c].pc \in {"walk", "contract"} =>
       /\ steady[c] \subseteq InForceFor(h[c].product)
       /\ \A i, j \in 1 .. Len(h[c].list) :
            i < j /\ h[c].list[j].permits => h[c].list[i].permits
  /\ At(c, "walk") => \A i \in 1 .. Len(h[c].list) :
       i < h[c].at /\ h[c].list[i].permits /\ ~h[c].broken =>
         h[c].list[i].contract \notin steady[c]
  /\ At(c, "contract") /\ ~h[c].chosen => \A i \in 1 .. Len(h[c].list) :
       h[c].list[i].permits => h[c].list[i].contract \notin steady[c]
  /\ At(c, "reply") /\ h[c].outcome = "denied" =>
       \/ \A i \in 1 .. Len(h[c].list) :
            h[c].list[i].permits => h[c].list[i].contract \notin steady[c]
       \/ h[c].chosen /\ h[c].ent.contract \notin steady[c]

WalkInv == \A c \in Clients : Walks(c)

(* What the limiter's window of a contract says of a minute.               *)
Counts(k, m) ==
  /\ windows[k] # None => windows[k].start <= latest
  /\ windows[k] # None /\ windows[k].start = m =>
       /\ windows[k].count <= admitted[k][m]
       /\ windows[k].count = admitted[k][m] \/ <<k, m>> \in late
  /\ Opens(k, m) => admitted[k][m] = 0 \/ m < latest \/ <<k, m>> \in late
  /\ m > latest => admitted[k][m] = 0

WindowInv == \A k \in Contracts, m \in Minutes : Counts(k, m)

-----------------------------------------------------------------------------
(* The parts of a state.                                                   *)

\* A spent budget is a budget.
LEMMA SpendType ==
  ASSUME TypeOK, NEW what \in {"queries", "edits", "faults", "ticks"}, Spend(what)
  PROVE  left' \in [{"queries", "edits", "faults", "ticks"} -> Nat]
<1>1. left[what] - 1 \in Nat
  BY DEF TypeOK, Spend
<1>2. QED
  BY <1>1 DEF TypeOK, Spend

\* A listing holds copies of stored grants, those that permit before the others.
LEMMA ListingType ==
  ASSUME TypeOK, NEW p, NEW f \in Orders(p)
  PROVE  /\ Listing(f) \in Seq(Copies)
         /\ f = <<>> <=> Listing(f) = <<>>
         /\ \A i, j \in 1 .. Len(Listing(f)) :
              i < j /\ Listing(f)[j].permits => Listing(f)[i].permits
<1>1. PICK n \in Nat : n = Cardinality(GrantsOf(p))
  <2>1. GrantsOf(p) \subseteq Grants
    BY DEF GrantsOf, Stored
  <2>2. QED
    BY <2>1, FS_Subset, FS_CardinalityType
<1>2. /\ f \in [1 .. n -> GrantsOf(p)]
      /\ \A i, j \in 1 .. n : i < j => Before(f[i], f[j])
  BY <1>1 DEF Orders
<1>3. \A i \in 1 .. n : f[i] \in Grants /\ grants[f[i]] \in Rights
  BY <1>2 DEF TypeOK, GrantsOf, Stored
<1>4. \A i \in 1 .. n : [id |-> f[i], contract |-> grants[f[i]].contract,
                         permits |-> grants[f[i]].permits] \in Copies
  BY <1>3 DEF Rights, Copies
<1>5. /\ Listing(f) \in [1 .. n -> Copies]
      /\ \A i \in 1 .. n : Listing(f)[i].permits = grants[f[i]].permits
  BY <1>2, <1>4 DEF Listing
<1>6. Listing(f) \in Seq(Copies) /\ Len(Listing(f)) = n
  BY <1>1, <1>5
<1>7. f = <<>> <=> Listing(f) = <<>>
  <2>1. f \in Seq(GrantsOf(p)) /\ Len(f) = n
    BY <1>1, <1>2
  <2>2. QED
    BY <1>6, <2>1
<1>8. ASSUME NEW i \in 1 .. n, NEW j \in 1 .. n, i < j, Listing(f)[j].permits
      PROVE  Listing(f)[i].permits
  <2>1. Before(f[i], f[j])
    BY <1>2, <1>8
  <2>2. grants[f[j]].permits
    BY <1>5, <1>8
  <2>3. grants[f[i]].permits \in BOOLEAN
    BY <1>3 DEF Rights
  <2>4. grants[f[i]].permits
    BY <2>1, <2>2, <2>3 DEF Before
  <2>5. QED
    BY <1>5, <2>4
<1>9. QED
  BY <1>6, <1>7, <1>8

\* The candidate under the loop is one of the copies of the listing.
LEMMA CandidateType ==
  ASSUME TypeOK, PlaceInv, NEW c \in Clients, Walking(c)
  PROVE  /\ h[c].at \in 1 .. Len(h[c].list) /\ Candidate(c) = h[c].list[h[c].at]
         /\ Candidate(c) \in Copies /\ Candidate(c).permits
<1>1. h[c].list \in Seq(Copies) /\ h[c].at \in Nat /\ Len(h[c].list) \in Nat
  BY DEF TypeOK, Requests
<1>2. h[c].at \in 1 .. Len(h[c].list)
  BY <1>1 DEF PlaceInv, Placed, Walking
<1>3. QED
  BY <1>1, <1>2 DEF Candidate, Walking

\* The first of the listing, too.
LEMMA FirstType ==
  ASSUME TypeOK, PlaceInv, NEW c \in Clients, At(c, "walk")
  PROVE  1 \in 1 .. Len(h[c].list) /\ h[c].list[1] \in Copies
<1>1. h[c].list \in Seq(Copies) /\ h[c].list # <<>>
  BY DEF TypeOK, Requests, PlaceInv, Placed
<1>2. QED
  BY <1>1

\* The grant a request has chosen.
LEMMA ChosenType ==
  ASSUME TypeOK, PlaceInv, NEW c \in Clients,
         h[c].pc \in {"contract", "allow", "body"} \/ h[c].owes
  PROVE  h[c].ent \in Copies /\ h[c].ent.contract \in Contracts
<1>1. h[c].ent \in Copies
  BY DEF TypeOK, Requests, PlaceInv, Placed
<1>2. QED
  BY <1>1 DEF Copies

AnsweredStep(c, t, outcome) ==
  h'[c] = [h[c] EXCEPT !.pc = "reply", !.outcome = outcome, !.terms = t, !.owes = t # None]

\* An answer leaves the rest of the request as it was.
LEMMA AnswerStep ==
  ASSUME TypeOK, NEW c \in Clients, NEW terms \in Scopes \cup {None},
         NEW outcome \in Outcomes, Answer(c, terms, outcome)
  PROVE  /\ h' \in [Clients -> Requests] /\ \A d \in Clients \ {c} : h'[d] = h[d]
         /\ AnsweredStep(c, terms, outcome)
<1> DEFINE r == [h[c] EXCEPT !.pc = "reply", !.outcome = outcome, !.terms = terms,
                             !.owes = terms # None]
<1>0. h[c] \in Requests
  BY DEF TypeOK
<1>1. r \in Requests
  BY <1>0 DEF Requests, Stages
<1>2. h' = [h EXCEPT ![c] = r]
  BY DEF Answer, Now
<1> HIDE DEF r
<1>3. h' \in [Clients -> Requests] /\ h'[c] = r /\ \A d \in Clients \ {c} : h'[d] = h[d]
  BY <1>1, <1>2 DEF TypeOK
<1>4. QED
  BY <1>3, Zenon DEF r, AnsweredStep

ChosenStep(c, ent, found) ==
  h'[c] = [h[c] EXCEPT !.ent = ent, !.chosen = found, !.pc = "contract"]

\* A choice is of a copy, which must permit.
LEMMA ChooseStep ==
  ASSUME TypeOK, NEW c \in Clients, NEW ent \in Copies, NEW found \in BOOLEAN,
         Choose(c, ent, found)
  PROVE  /\ h' \in [Clients -> Requests] /\ \A d \in Clients \ {c} : h'[d] = h[d]
         /\ ChosenStep(c, ent, found)
         /\ lately' \in [Clients -> SUBSET Contracts]
         /\ lately'[c] = InForceFor(h[c].product)
         /\ \A d \in Clients \ {c} : lately'[d] = lately[d]
<1> DEFINE r == [h[c] EXCEPT !.ent = ent, !.chosen = found, !.pc = "contract"]
<1>0. h[c] \in Requests
  BY DEF TypeOK
<1>1. r \in Requests
  BY <1>0 DEF Requests, Stages
<1>2. h' = [h EXCEPT ![c] = r]
  BY DEF Choose, Now
<1> HIDE DEF r
<1>3. h' \in [Clients -> Requests] /\ h'[c] = r /\ \A d \in Clients \ {c} : h'[d] = h[d]
  BY <1>1, <1>2 DEF TypeOK
<1>4. InForceFor(h[c].product) \subseteq Contracts
  BY DEF InForceFor
<1>5. /\ lately' \in [Clients -> SUBSET Contracts]
      /\ lately'[c] = InForceFor(h[c].product)
      /\ \A d \in Clients \ {c} : lately'[d] = lately[d]
  BY <1>4 DEF Choose, TypeOK
<1>6. QED
  BY <1>3, <1>5, Zenon DEF r, ChosenStep
\* Nothing is in the handler.
LEMMA IdleType ==
  Idle \in Requests /\ Idle.list = <<>> /\ Idle.at = 1 /\ Idle.pc = "idle" /\ Idle.owes = FALSE
<1>1. <<>> \in Seq(Copies) /\ 0 \in Minutes
  BY DEF Minutes
<1>2. QED
  BY <1>1 DEF Idle, Requests, Stages

\* A request that returns leaves the others alone.
LEMMA GoneStep ==
  ASSUME TypeOK, NEW c \in Clients, Gone(c)
  PROVE  /\ h' \in [Clients -> Requests] /\ h'[c] = Idle /\ \A d \in Clients \ {c} : h'[d] = h[d]
         /\ steady' \in [Clients -> SUBSET Contracts] /\ lately' \in [Clients -> SUBSET Contracts]
         /\ \A d \in Clients \ {c} : steady'[d] = steady[d] /\ lately'[d] = lately[d]
  BY IdleType DEF Gone, Now, TypeOK

\* What each step of the handler makes of its request.
FoundStep(c, p) ==
  h'[c] = [Idle EXCEPT !.pc = IF p \in published THEN "list" ELSE "reply",
                       !.product = p,
                       !.outcome = IF p \in published THEN None ELSE "unpublished"]

LEMMA FindStep ==
  ASSUME TypeOK, NEW c \in Clients, NEW p \in Products, FindProduct(c, p)
  PROVE  /\ h' \in [Clients -> Requests] /\ \A d \in Clients \ {c} : h'[d] = h[d]
         /\ FoundStep(c, p)
<1> DEFINE r == [Idle EXCEPT !.pc = IF p \in published THEN "list" ELSE "reply",
                             !.product = p,
                             !.outcome = IF p \in published THEN None ELSE "unpublished"]
<1>1. r \in Requests
  BY IdleType DEF Requests, Stages, Outcomes
<1>2. h' = [h EXCEPT ![c] = r]
  BY DEF FindProduct, Now
<1> HIDE DEF r
<1>3. h' \in [Clients -> Requests] /\ h'[c] = r /\ \A d \in Clients \ {c} : h'[d] = h[d]
  BY <1>1, <1>2 DEF TypeOK
<1>4. QED
  BY <1>3, Zenon DEF r, FoundStep

ListedStep(c, f) ==
  h'[c] = [h[c] EXCEPT !.list = Listing(f), !.now = clock,
                       !.pc = IF f = <<>> THEN "reply" ELSE "walk",
                       !.outcome = IF f = <<>> THEN "denied" ELSE None]

LEMMA ListStep ==
  ASSUME TypeOK, NEW c \in Clients, List(c)
  PROVE  /\ h' \in [Clients -> Requests] /\ \A d \in Clients \ {c} : h'[d] = h[d]
         /\ steady' \in [Clients -> SUBSET Contracts]
         /\ steady'[c] = InForceFor(h[c].product)
         /\ \A d \in Clients \ {c} : steady'[d] = steady[d]
         /\ \E f \in Orders(h[c].product) : ListedStep(c, f)
<1>0. h[c] \in Requests /\ clock \in Minutes
  BY DEF TypeOK
<1>1. PICK f \in Orders(h[c].product) :
        h' = [h EXCEPT ![c] = [h[c] EXCEPT !.list = Listing(f), !.now = clock,
                           !.pc = IF f = <<>> THEN "reply" ELSE "walk",
                           !.outcome = IF f = <<>> THEN "denied" ELSE None]]
  BY DEF List, Now
<1> DEFINE r == [h[c] EXCEPT !.list = Listing(f), !.now = clock,
                             !.pc = IF f = <<>> THEN "reply" ELSE "walk",
                             !.outcome = IF f = <<>> THEN "denied" ELSE None]
<1>2. r \in Requests
  <2>1. Listing(f) \in Seq(Copies)
    BY ListingType
  <2>2. /\ (IF f = <<>> THEN "reply" ELSE "walk") \in Stages
        /\ (IF f = <<>> THEN "denied" ELSE None) \in Outcomes \cup {None}
    BY DEF Stages, Outcomes
  <2>3. ASSUME NEW l \in Seq(Copies), NEW s \in Stages, NEW o \in Outcomes \cup {None}
        PROVE  [h[c] EXCEPT !.list = l, !.now = clock, !.pc = s, !.outcome = o] \in Requests
    BY <1>0 DEF Requests
  <2>4. QED
    BY <2>1, <2>2, <2>3
<1>3. h' = [h EXCEPT ![c] = r]
  BY <1>1
<1> HIDE DEF r
<1>4. h' \in [Clients -> Requests] /\ h'[c] = r /\ \A d \in Clients \ {c} : h'[d] = h[d]
  BY <1>2, <1>3 DEF TypeOK
<1>5. InForceFor(h[c].product) \subseteq Contracts
  BY DEF InForceFor
<1>6. /\ steady' \in [Clients -> SUBSET Contracts]
      /\ steady'[c] = InForceFor(h[c].product)
      /\ \A d \in Clients \ {c} : steady'[d] = steady[d]
  BY <1>5 DEF List, TypeOK
<1>7. ListedStep(c, f)
  BY <1>4, Zenon DEF r, ListedStep
<1>8. QED
  BY <1>4, <1>6, <1>7

\* Passing over a candidate.
LEMMA PassStep ==
  ASSUME TypeOK, NEW c \in Clients, NEW r,
         \/ r = [h[c] EXCEPT !.at = @ + 1]
         \/ r = [h[c] EXCEPT !.at = @ + 1, !.broken = TRUE],
         Now(c, r)
  PROVE  /\ h' \in [Clients -> Requests] /\ \A d \in Clients \ {c} : h'[d] = h[d]
         /\ h'[c] = r
<1>0. h[c] \in Requests /\ h[c].at + 1 \in Nat
  BY DEF TypeOK, Requests
<1>1. r \in Requests
  <2>1. CASE r = [h[c] EXCEPT !.at = @ + 1]
    BY <1>0, <2>1 DEF Requests
  <2>2. CASE r = [h[c] EXCEPT !.at = @ + 1, !.broken = TRUE]
    BY <1>0, <2>2 DEF Requests
  <2>3. QED
    BY <2>1, <2>2
<1>2. QED
  BY <1>1 DEF TypeOK, Now
\* What the second read of the contract makes of its request.
LEMMA ReadStep ==
  ASSUME TypeOK, PlaceInv, NEW c \in Clients, ReadContract(c)
  PROVE  /\ h' \in [Clients -> Requests] /\ \A d \in Clients \ {c} : h'[d] = h[d]
         /\ \/ /\ ~Serves(contracts[h[c].ent.contract], h[c].product)
               /\ \E t \in Scopes \cup {None} :
                    /\ AnsweredStep(c, t, "denied")
                    /\ t = None => UNCHANGED answers
                    /\ t # None => Book(h[c].ent.contract, "denied")
            \/ /\ Serves(contracts[h[c].ent.contract], h[c].product)
               /\ contracts[h[c].ent.contract] \in Scopes
               /\ h'[c] = [h[c] EXCEPT !.terms = contracts[h[c].ent.contract],
                             !.pc = IF contracts[h[c].ent.contract].limit > 0 THEN "allow" ELSE "body"]
               /\ UNCHANGED answers
<1>1. h[c] \in Requests /\ At(c, "contract") /\ h[c].ent.contract \in Contracts
  BY ChosenType DEF ReadContract, At, TypeOK
<1>2. PICK s \in Scopes \cup {None} : s = contracts[h[c].ent.contract]
  BY <1>1 DEF TypeOK
<1>3. CASE /\ s # None => s.product # h[c].product
           /\ Answer(c, None, "denied") /\ UNCHANGED answers
  <2>1. ~Serves(s, h[c].product)
    BY <1>3 DEF Serves
  <2>2. "denied" \in Outcomes /\ None \in Scopes \cup {None}
    BY DEF Outcomes
  <2>3. h' \in [Clients -> Requests] /\ \A d \in Clients \ {c} : h'[d] = h[d]
    BY <1>3, <2>2, AnswerStep
  <2>4. AnsweredStep(c, None, "denied")
    BY <1>3, <2>2, AnswerStep
  <2>5. \E t \in Scopes \cup {None} :
          /\ AnsweredStep(c, t, "denied")
          /\ t = None => UNCHANGED answers
          /\ t # None => Book(h[c].ent.contract, "denied")
    <3> WITNESS None \in Scopes \cup {None}
    <3>1. QED
      BY <1>3, <2>4
  <2>6. QED
    BY <1>2, <2>1, <2>3, <2>5, Zenon
<1>4. CASE /\ s # None /\ s.product = h[c].product /\ ~InForce(s, h[c].product)
           /\ Answer(c, s, "denied") /\ Book(h[c].ent.contract, "denied")
  <2>1. ~Serves(s, h[c].product)
    BY <1>4 DEF Serves
  <2>2. "denied" \in Outcomes
    BY DEF Outcomes
  <2>3. h' \in [Clients -> Requests] /\ \A d \in Clients \ {c} : h'[d] = h[d]
    BY <1>4, <2>2, AnswerStep
  <2>4. AnsweredStep(c, s, "denied")
    BY <1>4, <2>2, AnswerStep
  <2>5. \E t \in Scopes \cup {None} :
          /\ AnsweredStep(c, t, "denied")
          /\ t = None => UNCHANGED answers
          /\ t # None => Book(h[c].ent.contract, "denied")
    <3> WITNESS s \in Scopes \cup {None}
    <3>1. QED
      BY <1>4, <2>4
  <2>6. QED
    BY <1>2, <2>1, <2>3, <2>5, Zenon
<1>5. CASE /\ Serves(s, h[c].product) /\ UNCHANGED answers
           /\ Now(c, [h[c] EXCEPT !.terms = s, !.pc = IF s.limit > 0 THEN "allow" ELSE "body"])
  <2> DEFINE r == [h[c] EXCEPT !.terms = s, !.pc = IF s.limit > 0 THEN "allow" ELSE "body"]
  <2>1. r \in Requests
    BY <1>1 DEF Requests, Stages
  <2>2. h' = [h EXCEPT ![c] = r]
    BY <1>5 DEF Now
  <2> HIDE DEF r
  <2>3. h' \in [Clients -> Requests] /\ h'[c] = r /\ \A d \in Clients \ {c} : h'[d] = h[d]
    BY <2>1, <2>2 DEF TypeOK
  <2>4. h'[c] = [h[c] EXCEPT !.terms = s, !.pc = IF s.limit > 0 THEN "allow" ELSE "body"]
    BY <2>3, Zenon DEF r
  <2>5. s # None
    BY <1>5 DEF Serves
  <2>6. QED
    BY <1>2, <1>5, <2>3, <2>4, <2>5, Zenon
<1>6. QED
  BY <1>2, <1>3, <1>4, <1>5 DEF ReadContract

\* A call that the limiter lets through goes on to its body.
LEMMA ThroughStep ==
  ASSUME TypeOK, NEW c \in Clients, Now(c, [h[c] EXCEPT !.pc = "body"])
  PROVE  /\ h' \in [Clients -> Requests] /\ \A d \in Clients \ {c} : h'[d] = h[d]
         /\ h'[c] = [h[c] EXCEPT !.pc = "body"]
<1> DEFINE r == [h[c] EXCEPT !.pc = "body"]
<1>0. h[c] \in Requests
  BY DEF TypeOK
<1>1. r \in Requests
  BY <1>0 DEF Requests, Stages
<1>2. h' = [h EXCEPT ![c] = r]
  BY DEF Now
<1> HIDE DEF r
<1>3. h' \in [Clients -> Requests] /\ h'[c] = r /\ \A d \in Clients \ {c} : h'[d] = h[d]
  BY <1>1, <1>2 DEF TypeOK
<1>4. QED
  BY <1>3, Zenon DEF r
\* What an answer shows of its request.
LEMMA AnsweredFields ==
  ASSUME TypeOK, NEW c \in Clients, NEW t \in Scopes \cup {None}, NEW outcome \in Outcomes,
         AnsweredStep(c, t, outcome)
  PROVE  /\ h'[c].pc = "reply" /\ h'[c].outcome = outcome
         /\ h'[c].list = h[c].list /\ h'[c].ent = h[c].ent /\ h'[c].chosen = h[c].chosen
         /\ h'[c].at = h[c].at /\ h'[c].product = h[c].product
         /\ t = None => ~h'[c].owes
         /\ t # None => h'[c].owes
<1>1. h[c] \in Requests
  BY DEF TypeOK
<1>2. /\ h'[c].pc = "reply" /\ h'[c].outcome = outcome
      /\ h'[c].list = h[c].list /\ h'[c].ent = h[c].ent /\ h'[c].chosen = h[c].chosen
      /\ h'[c].at = h[c].at /\ h'[c].product = h[c].product
  BY <1>1 DEF AnsweredStep, Requests
<1>3. h'[c].owes = (t # None)
  BY <1>1 DEF AnsweredStep, Requests
<1>4. QED
  BY <1>2, <1>3

\* An answer without a contract owes nothing; one under a contract owes under the
\* contract of the chosen grant.
LEMMA AnsweredPlace ==
  ASSUME TypeOK, PlaceInv, NEW c \in Clients, NEW t \in Scopes \cup {None},
         NEW outcome \in Outcomes, AnsweredStep(c, t, outcome),
         t = None \/ h[c].ent # None
  PROVE  Placed(c)'
<1>1. h[c].at >= 1
  BY DEF PlaceInv, Placed
<1>2. QED
  BY <1>1, AnsweredFields DEF Placed, At

\* A step of the handler concerns one request, which stays in its place.
LEMMA RequestStep ==
  ASSUME TypeOK, PlaceInv, NEW c \in Clients, Handle(c)
  PROVE  /\ h' \in [Clients -> Requests] /\ \A d \in Clients \ {c} : h'[d] = h[d]
         /\ Placed(c)'
<1>0. h[c] \in Requests /\ h[c].at >= 1 /\ h[c].at \in Nat
  BY DEF TypeOK, PlaceInv, Placed, Requests
<1> USE DEF At
<1>1. ASSUME NEW p \in Products, FindProduct(c, p)
      PROVE  /\ h' \in [Clients -> Requests] /\ \A d \in Clients \ {c} : h'[d] = h[d]
             /\ Placed(c)'
  <2>1. h'[c].at = 1 /\ h'[c].owes = FALSE /\ h'[c].pc \in {"list", "reply"}
    <3>1. FoundStep(c, p)
      BY <1>1, FindStep
    <3>2. QED
      BY <3>1, IdleType DEF FoundStep, Requests
  <2>2. QED
    BY <1>1, <2>1, FindStep DEF Placed
<1>2. CASE List(c)
  <2>1. PICK f \in Orders(h[c].product) : ListedStep(c, f)
    BY <1>2, ListStep
  <2>2. /\ h'[c].at = h[c].at /\ h'[c].owes = h[c].owes /\ h'[c].list = Listing(f)
        /\ h'[c].pc = IF f = <<>> THEN "reply" ELSE "walk"
    BY <1>0, <2>1 DEF ListedStep, Requests
  <2>3. ~h[c].owes
    BY <1>2 DEF List, PlaceInv, Placed
  <2>4. Placed(c)'
    BY <1>0, <2>2, <2>3, ListingType DEF Placed
  <2>5. QED
    BY <1>2, <2>4, ListStep
<1>3. CASE ListFails(c) \/ ReadContractFails(c)
  <2>1. Answer(c, None, "error") /\ "error" \in Outcomes
    BY <1>3 DEF ListFails, ReadContractFails, Outcomes
  <2>2. QED
    BY <2>1, AnswerStep, AnsweredPlace
<1>4. CASE TryContract(c)
  <2>1. ~h[c].owes /\ At(c, "walk") /\ h[c].list # <<>>
    BY <1>4 DEF TryContract, Walking, PlaceInv, Placed
  <2>2. CASE Choose(c, Candidate(c), TRUE)
    <3>1. /\ Candidate(c) \in Copies /\ Candidate(c).permits
          /\ \E i \in 1 .. Len(h[c].list) : h[c].list[i] = Candidate(c)
      BY <1>4, CandidateType DEF TryContract
    <3>2. /\ h' \in [Clients -> Requests] /\ \A d \in Clients \ {c} : h'[d] = h[d]
          /\ ChosenStep(c, Candidate(c), TRUE)
      BY <2>2, <3>1, ChooseStep
    <3>3. Candidate(c) # None
      BY <3>1
    <3>4. Placed(c)'
      BY <1>0, <2>1, <3>1, <3>2, <3>3 DEF Placed, Requests, ChosenStep
    <3>5. QED
      BY <3>2, <3>4
  <2>3. CASE Now(c, [h[c] EXCEPT !.at = @ + 1])
    <3>1. /\ h' \in [Clients -> Requests] /\ \A d \in Clients \ {c} : h'[d] = h[d]
          /\ h'[c] = [h[c] EXCEPT !.at = @ + 1]
      BY <2>3, PassStep
    <3>2. Placed(c)'
      BY <1>0, <2>1, <3>1 DEF Placed, Requests
    <3>3. QED
      BY <3>1, <3>2
  <2>4. QED
    BY <1>4, <2>2, <2>3 DEF TryContract
<1>5. CASE TryContractFails(c)
  <2>1. ~h[c].owes /\ At(c, "walk") /\ h[c].list # <<>>
    BY <1>5 DEF TryContractFails, Walking, PlaceInv, Placed
  <2>2. /\ h' \in [Clients -> Requests] /\ \A d \in Clients \ {c} : h'[d] = h[d]
        /\ h'[c] = [h[c] EXCEPT !.at = @ + 1, !.broken = TRUE]
    BY <1>5, PassStep DEF TryContractFails
  <2>3. Placed(c)'
    BY <1>0, <2>1, <2>2 DEF Placed, Requests
  <2>4. QED
    BY <2>2, <2>3
<1>6. CASE FallBack(c)
  <2>1. ~h[c].owes /\ At(c, "walk") /\ h[c].list # <<>>
    BY <1>6 DEF FallBack, Walked, PlaceInv, Placed
  <2>2. CASE Answer(c, None, "error") \/ Answer(c, None, "denied")
    <3>1. "error" \in Outcomes /\ "denied" \in Outcomes
      BY DEF Outcomes
    <3>2. QED
      BY <2>2, <3>1, AnswerStep, AnsweredPlace
  <2>3. CASE h[c].list[1].permits /\ Choose(c, h[c].list[1], FALSE)
    <3>1. 1 \in 1 .. Len(h[c].list) /\ h[c].list[1] \in Copies
      BY <2>1, FirstType
    <3>2. /\ h' \in [Clients -> Requests] /\ \A d \in Clients \ {c} : h'[d] = h[d]
          /\ ChosenStep(c, h[c].list[1], FALSE)
      BY <2>3, <3>1, ChooseStep
    <3>3. h[c].list[1] # None
      BY <3>1
    <3>4. Placed(c)'
      BY <1>0, <2>1, <2>3, <3>1, <3>2, <3>3 DEF Placed, Requests, ChosenStep
    <3>5. QED
      BY <3>2, <3>4
  <2>4. QED
    BY <1>6, <2>2, <2>3 DEF FallBack
<1>7. CASE ReadContract(c)
  <2>0. At(c, "contract") /\ h[c].ent # None /\ ~h[c].owes
    BY <1>7 DEF ReadContract, PlaceInv, Placed
  <2>1. h' \in [Clients -> Requests] /\ \A d \in Clients \ {c} : h'[d] = h[d]
    BY <1>7, ReadStep
  <2>2. CASE \E t \in Scopes \cup {None} : AnsweredStep(c, t, "denied")
    <3>1. "denied" \in Outcomes
      BY DEF Outcomes
    <3>2. QED
      BY <2>0, <2>1, <2>2, <3>1, AnsweredPlace
  <2>3. CASE /\ contracts[h[c].ent.contract] \in Scopes
             /\ h'[c] = [h[c] EXCEPT !.terms = contracts[h[c].ent.contract],
                           !.pc = IF contracts[h[c].ent.contract].limit > 0 THEN "allow" ELSE "body"]
    <3>1. /\ h'[c].at = h[c].at /\ h'[c].owes = h[c].owes /\ h'[c].ent = h[c].ent
          /\ h'[c].list = h[c].list /\ h'[c].pc \in {"allow", "body"}
          /\ h'[c].terms = contracts[h[c].ent.contract]
      BY <1>0, <2>3 DEF Requests
    <3>2. contracts[h[c].ent.contract] # None
      BY <2>3
    <3>3. Placed(c)'
      BY <1>0, <2>0, <3>1, <3>2 DEF Placed, PlaceInv
    <3>4. QED
      BY <2>1, <3>3
  <2>4. QED
    BY <1>7, <2>2, <2>3, ReadStep
<1>8. CASE Allow(c)
  <2>0. At(c, "allow") /\ h[c].ent # None /\ ~h[c].owes
    BY <1>8 DEF Allow, PlaceInv, Placed
  <2>1. CASE Answer(c, h[c].terms, "over")
    <3>1. "over" \in Outcomes /\ h[c].terms \in Scopes \cup {None}
      BY <1>0 DEF Outcomes, Requests
    <3>2. QED
      BY <2>0, <2>1, <3>1, AnswerStep, AnsweredPlace
  <2>2. CASE Now(c, [h[c] EXCEPT !.pc = "body"])
    <3>1. /\ h' \in [Clients -> Requests] /\ \A d \in Clients \ {c} : h'[d] = h[d]
          /\ h'[c] = [h[c] EXCEPT !.pc = "body"]
      BY <2>2, ThroughStep
    <3>2. Placed(c)'
      BY <1>0, <2>0, <3>1 DEF Placed, PlaceInv, Requests
    <3>3. QED
      BY <3>1, <3>2
  <2>3. QED
    BY <1>8, <2>1, <2>2 DEF Allow
<1>9. CASE Body(c)
  <2>0. At(c, "body") /\ h[c].ent # None
    BY <1>9 DEF Body, PlaceInv, Placed
  <2>1. PICK outcome \in {"refused", "served"} : Answer(c, h[c].terms, outcome)
    BY <1>9 DEF Body
  <2>2. outcome \in Outcomes /\ h[c].terms \in Scopes \cup {None}
    BY <1>0, <2>1 DEF Outcomes, Requests
  <2>3. QED
    BY <2>0, <2>1, <2>2, AnswerStep, AnsweredPlace
<1>10. CASE IncrementUsageMetering(c) \/ MeteringFails(c) \/ Return(c)
  <2>1. /\ h' \in [Clients -> Requests] /\ \A d \in Clients \ {c} : h'[d] = h[d]
        /\ h'[c] = Idle
    BY <1>10, GoneStep DEF IncrementUsageMetering, MeteringFails, Return
  <2>2. Placed(c)'
    BY <2>1, IdleType DEF Placed
  <2>3. QED
    BY <2>1, <2>2
<1>11. QED
  BY <1>1, <1>2, <1>3, <1>4, <1>5, <1>6, <1>7, <1>8, <1>9, <1>10 DEF Handle
-----------------------------------------------------------------------------
(* The steps keep the types.                                               *)

\* The order of the grants stays when the grants do.
LEMMA RankedStays ==
  ASSUME Ranked, grants' = grants, newer' = newer
  PROVE  Ranked'
  BY DEF Ranked, Stored

\* A kind is one of the meter's.
LEMMA KindType == \A outcome : Kind(outcome) \in Kinds
  BY DEF Kind, Kinds

\* An answer is counted.
LEMMA BookType ==
  ASSUME TypeOK, NEW k \in Contracts, NEW outcome, Book(k, outcome)
  PROVE  /\ answers' \in [Contracts -> [Kinds -> Nat]]
         /\ answers'[k][Kind(outcome)] = answers[k][Kind(outcome)] + 1
         /\ \A j \in Contracts, kind \in Kinds :
              j # k \/ kind # Kind(outcome) => answers'[j][kind] = answers[j][kind]
<1>1. PICK x \in Kinds : x = Kind(outcome)
  BY KindType
<1>2. answers \in [Contracts -> [Kinds -> Nat]] /\ answers[k][x] + 1 \in Nat
  BY <1>1 DEF TypeOK
<1>3. answers' = [answers EXCEPT ![k] = [answers[k] EXCEPT ![x] = answers[k][x] + 1]]
  BY <1>1 DEF Book
<1>4. answers' \in [Contracts -> [Kinds -> Nat]]
  BY <1>1, <1>2, <1>3
<1>5. /\ answers'[k][x] = answers[k][x] + 1
      /\ \A j \in Contracts, kind \in Kinds :
           j # k \/ kind # x => answers'[j][kind] = answers[j][kind]
  BY <1>1, <1>2, <1>3
<1>6. QED
  BY <1>1, <1>4, <1>5

\* The handler's steps on the answers.
LEMMA AnswersType ==
  ASSUME TypeOK, PlaceInv, NEW c \in Clients,
         ReadContract(c) \/ Allow(c) \/ Body(c)
  PROVE  answers' \in [Contracts -> [Kinds -> Nat]]
<1>1. h[c].ent.contract \in Contracts
  BY ChosenType DEF ReadContract, Allow, Body, At
<1>2. UNCHANGED answers \/ \E outcome \in Outcomes : Book(h[c].ent.contract, outcome)
  BY DEF ReadContract, Allow, Body, Outcomes
<1>3. QED
  BY <1>1, <1>2, BookType DEF TypeOK

\* The window a call counts in.
LEMMA WindowType ==
  ASSUME TypeOK, NEW k \in Contracts, NEW m \in Minutes
  PROVE  /\ Window(k, m) \in Windows /\ Window(k, m).start = m
         /\ Opens(k, m) => Window(k, m).count = 0
         /\ ~Opens(k, m) => Window(k, m) = windows[k]
<1>1. windows[k] \in Windows \cup {None}
  BY DEF TypeOK
<1>2. QED
  BY <1>1 DEF Window, Windows, Opens

\* What pruning leaves.
LEMMA PrunedType ==
  ASSUME TypeOK, NEW k \in Contracts, NEW m \in Minutes
  PROVE  /\ Pruned(k, m) \in [Contracts -> Windows \cup {None}]
         /\ \A j \in Contracts :
              \/ Pruned(k, m)[j] = windows[j]
              \/ windows[j] # None /\ windows[j].start < m /\ Pruned(k, m)[j] = None
  BY DEF Pruned, TypeOK

\* The limiter's step.
LEMMA AllowType ==
  ASSUME TypeOK, PlaceInv, NEW c \in Clients, Allow(c)
  PROVE  /\ windows' \in [Contracts -> Windows \cup {None}]
         /\ admitted' \in [Contracts -> [Minutes -> Nat]]
         /\ latest' \in Minutes /\ late' \subseteq Contracts \X Minutes
<1>1. /\ h[c].ent.contract \in Contracts /\ h[c].now \in Minutes
      /\ At(c, "allow")
  BY ChosenType DEF Allow, At, TypeOK, Requests
<1>2. PICK k \in Contracts, m \in Minutes : k = h[c].ent.contract /\ m = h[c].now
  BY <1>1
<1>3. Window(k, m) \in Windows /\ Pruned(k, m) \in [Contracts -> Windows \cup {None}]
  BY WindowType, PrunedType
<1>4. latest' \in Minutes
  BY <1>2 DEF Allow, TypeOK
<1>5. late' \subseteq Contracts \X Minutes
  <2>1. Disturbed(k, m) \subseteq Contracts \X Minutes
    <3>1. {windows[j].start : j \in {i \in {k} : windows[i] # None}} \subseteq Minutes
      BY DEF TypeOK, Windows
    <3>2. QED
      BY <3>1 DEF Disturbed
  <2>2. QED
    BY <1>2, <2>1 DEF Allow, TypeOK
<1>6. CASE /\ windows' = [Pruned(k, m) EXCEPT ![k] = [Window(k, m) EXCEPT !.count = @ + 1]]
           /\ admitted' = [admitted EXCEPT ![k][m] = @ + 1]
  <2>1. [Window(k, m) EXCEPT !.count = @ + 1] \in Windows
    BY <1>3 DEF Windows
  <2>2. windows' \in [Contracts -> Windows \cup {None}]
    BY <1>3, <1>6, <2>1
  <2>3. admitted[k] \in [Minutes -> Nat] /\ admitted[k][m] + 1 \in Nat
    BY DEF TypeOK
  <2>4. admitted' \in [Contracts -> [Minutes -> Nat]]
    BY <1>6, <2>3 DEF TypeOK
  <2>5. QED
    BY <1>4, <1>5, <2>2, <2>4
<1>7. CASE windows' = [Pruned(k, m) EXCEPT ![k] = Window(k, m)] /\ UNCHANGED admitted
  BY <1>3, <1>4, <1>5, <1>7 DEF TypeOK
<1>8. QED
  BY <1>2, <1>6, <1>7 DEF Allow

\* The meter's step.
LEMMA MeterType ==
  ASSUME TypeOK, PlaceInv, NEW c \in Clients
  PROVE  /\ IncrementUsageMetering(c) =>
              meter' \in [Contracts -> [total: Nat, failed: Nat, over: Nat, billed: Nat]]
         /\ MeteringFails(c) => lost' \in [Contracts -> [Kinds -> Nat]]
<1>1. ASSUME IncrementUsageMetering(c)
      PROVE  meter' \in [Contracts -> [total: Nat, failed: Nat, over: Nat, billed: Nat]]
  <2>1. h[c].ent.contract \in Contracts
    BY <1>1, ChosenType DEF IncrementUsageMetering
  <2>2. PICK k \in Contracts : k = h[c].ent.contract
    BY <2>1
  <2>3. meter[k] \in [total: Nat, failed: Nat, over: Nat, billed: Nat]
    BY DEF TypeOK
  <2>4. \E y \in [total: Nat, failed: Nat, over: Nat, billed: Nat] :
           meter' = [meter EXCEPT ![k] = y]
    <3> DEFINE kind == Kind(h[c].outcome)
               y == [total |-> meter[k].total + 1, failed |-> meter[k].failed + One(kind = "failed"),
                     over |-> meter[k].over + One(kind = "over"),
                     billed |-> meter[k].billed + One(kind = "served")]
    <3>0. \A b : One(b) \in {0, 1}
      BY DEF One
    <3>1. y \in [total: Nat, failed: Nat, over: Nat, billed: Nat]
      BY <2>3, <3>0
    <3>2. meter' = [meter EXCEPT ![k] = y]
      BY <1>1, <2>2 DEF IncrementUsageMetering
    <3>3. QED
      BY <3>1, <3>2
  <2>5. QED
    BY <2>4 DEF TypeOK
<1>2. ASSUME MeteringFails(c) PROVE lost' \in [Contracts -> [Kinds -> Nat]]
  <2>1. h[c].ent.contract \in Contracts /\ Kind(h[c].outcome) \in Kinds
    BY <1>2, ChosenType, KindType DEF MeteringFails
  <2>2. lost[h[c].ent.contract][Kind(h[c].outcome)] + 1 \in Nat
    BY <2>1 DEF TypeOK
  <2>3. QED
    BY <1>2, <2>1, <2>2 DEF MeteringFails, TypeOK
<1>3. QED
  BY <1>1, <1>2
\* Administrators' steps and the clock's.
LEMMA AdministerType ==
  ASSUME TypeOK, NEW a \in Admins, Administer(a)
  PROVE  /\ contracts' \in [Contracts -> Scopes \cup {None}]
         /\ grants' \in [Grants -> Rights \cup {None}]
         /\ newer' \in SUBSET (Grants \X Grants) /\ Ranked'
         /\ posts' \in [Admins -> Upserts \cup {None}]
         /\ left' \in [{"queries", "edits", "faults", "ticks"} -> Nat]
         /\ steady' \in [Clients -> SUBSET Contracts] /\ lately' \in [Clients -> SUBSET Contracts]
         /\ UNCHANGED <<published, limiter, books, clock, h>>
<1>1. ASSUME NEW k \in Contracts, NEW s \in Offered, CheckContract(a, k, s)
      PROVE  /\ posts' \in [Admins -> Upserts \cup {None}]
             /\ left' \in [{"queries", "edits", "faults", "ticks"} -> Nat]
             /\ UNCHANGED <<published, contracts, grants, newer, limiter, books, clock, h, steady, lately>>
  <2>1. [table |-> "contracts", id |-> k, row |-> s] \in Upserts
    BY DEF Upserts
  <2>2. QED
    BY <1>1, <2>1, SpendType DEF CheckContract, TypeOK
<1>2. ASSUME NEW g \in Grants, NEW r \in Rights, CheckGrant(a, g, r)
      PROVE  /\ posts' \in [Admins -> Upserts \cup {None}]
             /\ left' \in [{"queries", "edits", "faults", "ticks"} -> Nat]
             /\ UNCHANGED <<published, contracts, grants, newer, limiter, books, clock, h, steady, lately>>
  <2>1. [table |-> "grants", id |-> g, row |-> r] \in Upserts
    BY DEF Upserts
  <2>2. QED
    BY <1>2, <2>1, SpendType DEF CheckGrant, TypeOK
<1>3. CASE WriteContract(a)
  <2>1. posts[a].id \in Contracts /\ posts[a].row \in Scopes
    BY <1>3 DEF WriteContract, TypeOK, Upserts
  <2>2. contracts' \in [Contracts -> Scopes \cup {None}]
    BY <1>3, <2>1 DEF WriteContract, TypeOK
  <2>3. steady' \in [Clients -> SUBSET Contracts] /\ lately' \in [Clients -> SUBSET Contracts]
    BY <1>3 DEF WriteContract, TypeOK
  <2>4. posts' \in [Admins -> Upserts \cup {None}]
    BY <1>3 DEF WriteContract, TypeOK
  <2>5. UNCHANGED <<published, grants, newer, left, limiter, books, clock, h>>
    BY <1>3 DEF WriteContract
  <2>6. Ranked'
    BY <2>5, RankedStays DEF TypeOK
  <2>7. QED
    BY <2>2, <2>3, <2>4, <2>5, <2>6 DEF TypeOK
<1>4. CASE WriteGrant(a)
  <2>1. PICK g \in Grants : g = posts[a].id /\ posts[a].row \in Rights
    BY <1>4 DEF WriteGrant, TypeOK, Upserts
  <2>2. grants' \in [Grants -> Rights \cup {None}] /\ Stored' = Stored \cup {g}
    BY <1>4, <2>1 DEF WriteGrant, TypeOK, Stored
  <2>3. posts' \in [Admins -> Upserts \cup {None}]
    BY <1>4 DEF WriteGrant, TypeOK
  <2>4. newer' = {pair \in newer : g \notin {pair[1], pair[2]}} \cup ({g} \X (Stored \ {g}))
    BY <1>4, <2>1 DEF WriteGrant
  <2>5. Stored \subseteq Grants
    BY DEF Stored
  <2>6. /\ newer \subseteq Stored \X Stored
        /\ \A x, y \in Stored : <<x, y>> \in newer <=> x # y /\ <<y, x>> \notin newer
    BY DEF TypeOK, Ranked
  <2>7. \A x, y \in Stored \cup {g} : <<x, y>> \in newer' <=>
          \/ x # g /\ y # g /\ <<x, y>> \in newer
          \/ x = g /\ y # g
    BY <2>4, <2>5, <2>6
  <2>8. newer' \subseteq Stored' \X Stored'
    BY <2>2, <2>4, <2>6
  <2>9. \A x, y \in Stored' : <<x, y>> \in newer' <=> x # y /\ <<y, x>> \notin newer'
    BY <2>2, <2>6, <2>7
  <2>10. \A x, y, z \in Stored' : <<x, y>> \in newer' /\ <<y, z>> \in newer' => <<x, z>> \in newer'
    <3> SUFFICES ASSUME NEW x \in Stored \cup {g}, NEW y \in Stored \cup {g},
                        NEW z \in Stored \cup {g}, <<x, y>> \in newer', <<y, z>> \in newer'
                 PROVE  <<x, z>> \in newer'
      BY <2>2
    <3>1. y # g /\ z # g /\ <<y, z>> \in newer
      BY <2>7
    <3>2. CASE x = g
      BY <2>7, <3>1, <3>2
    <3>3. CASE x # g
      <4>1. <<x, y>> \in newer
        BY <2>7, <3>1, <3>3
      <4>2. <<x, z>> \in newer
        BY <3>1, <3>3, <4>1 DEF TypeOK, Ranked
      <4>3. QED
        BY <2>7, <3>1, <3>3, <4>2
    <3>4. QED
      BY <3>2, <3>3
  <2>11. Ranked'
    BY <2>8, <2>9, <2>10 DEF Ranked
  <2>12. newer' \in SUBSET (Grants \X Grants)
    BY <2>2, <2>5, <2>8
  <2>13. UNCHANGED <<published, contracts, left, limiter, books, clock, h, steady, lately>>
    BY <1>4 DEF WriteGrant
  <2>14. QED
    BY <2>2, <2>3, <2>11, <2>12, <2>13 DEF TypeOK
<1>5. QED
  BY <1>1, <1>2, <1>3, <1>4, RankedStays DEF Administer, TypeOK

\* A restart.
LEMMA RestartType ==
  ASSUME TypeOK, Restart
  PROVE  TypeOK' /\ PlaceInv'
<1>1. left' \in [{"queries", "edits", "faults", "ticks"} -> Nat]
  BY SpendType DEF Restart, Fault
<1>2. \A c \in Clients : h'[c] = Idle
  BY DEF Restart
<1>3. h' \in [Clients -> Requests] /\ PlaceInv'
  <2>1. h' \in [Clients -> Requests]
    BY IdleType DEF Restart
  <2>2. \A c \in Clients : h'[c].at = 1 /\ ~h'[c].owes /\ h'[c].pc = "idle"
    BY <1>2, IdleType
  <2>3. QED
    BY <2>1, <2>2 DEF PlaceInv, Placed, At
<1>4. \A k, kind : Cardinality(Owed(k, kind)) \in Nat
  <2> TAKE k, kind
  <2>1. Owed(k, kind) \subseteq Clients
    BY DEF Owed
  <2>2. QED
    BY <2>1, FS_Subset, FS_CardinalityType
<1>5. lost' \in [Contracts -> [Kinds -> Nat]]
  <2>1. \A k \in Contracts : [kind \in Kinds |-> lost[k][kind] + Cardinality(Owed(k, kind))]
                               \in [Kinds -> Nat]
    BY <1>4 DEF TypeOK
  <2>2. QED
    BY <2>1 DEF Restart
<1>6. Ranked'
  BY RankedStays DEF Restart, TypeOK
<1>7. /\ windows' \in [Contracts -> Windows \cup {None}]
      /\ admitted' \in [Contracts -> [Minutes -> Nat]]
      /\ latest' \in Minutes /\ late' \subseteq Contracts \X Minutes
      /\ steady' \in [Clients -> SUBSET Contracts] /\ lately' \in [Clients -> SUBSET Contracts]
      /\ posts' \in [Admins -> Upserts \cup {None}]
  BY DEF Restart, Minutes
<1>8. UNCHANGED <<published, contracts, grants, newer, meter, answers, clock>>
  BY DEF Restart
<1>9. QED
  BY <1>1, <1>3, <1>5, <1>6, <1>7, <1>8 DEF TypeOK

\* The handler's steps.
LEMMA HandleType ==
  ASSUME TypeOK, PlaceInv, NEW c \in Clients, Handle(c)
  PROVE  TypeOK' /\ PlaceInv'
<1>1. h' \in [Clients -> Requests] /\ PlaceInv'
  BY RequestStep DEF PlaceInv, Placed, At
<1>2. UNCHANGED <<tables, clock>>
  BY DEF Handle, FindProduct, List, ListFails, TryContract, TryContractFails, FallBack,
         ReadContract, ReadContractFails, Allow, Body, IncrementUsageMetering,
         MeteringFails, Return
<1>3. Ranked'
  BY <1>2, RankedStays DEF TypeOK, tables
<1>4. left' \in [{"queries", "edits", "faults", "ticks"} -> Nat]
  BY SpendType DEF Handle, FindProduct, List, ListFails, TryContract, TryContractFails, FallBack,
         ReadContract, ReadContractFails, Allow, Body, IncrementUsageMetering,
         MeteringFails, Return, Fault, TypeOK
<1>5. steady' \in [Clients -> SUBSET Contracts] /\ lately' \in [Clients -> SUBSET Contracts]
  <2>1. CASE List(c)
    BY <2>1, ListStep DEF List, TypeOK
  <2>2. CASE \E p \in Products : FindProduct(c, p)
    BY <2>2 DEF FindProduct, TypeOK
  <2>3. CASE ListFails(c) \/ TryContractFails(c) \/ ReadContract(c) \/ ReadContractFails(c)
             \/ Allow(c) \/ Body(c)
    BY <2>3 DEF ListFails, TryContractFails, ReadContract, ReadContractFails, Allow, Body, TypeOK
  <2>4. CASE TryContract(c)
    BY <2>4, CandidateType, ChooseStep DEF TryContract, TypeOK
  <2>5. CASE FallBack(c)
    BY <2>5, FirstType, ChooseStep DEF FallBack, Walked, TypeOK
  <2>6. CASE IncrementUsageMetering(c) \/ MeteringFails(c) \/ Return(c)
    BY <2>6, GoneStep DEF IncrementUsageMetering, MeteringFails, Return
  <2>7. QED
    BY <2>1, <2>2, <2>3, <2>4, <2>5, <2>6 DEF Handle
<1>6. /\ windows' \in [Contracts -> Windows \cup {None}]
      /\ admitted' \in [Contracts -> [Minutes -> Nat]]
      /\ latest' \in Minutes /\ late' \subseteq Contracts \X Minutes
  <2>1. Allow(c) \/ UNCHANGED limiter
    BY DEF Handle, FindProduct, List, ListFails, TryContract, TryContractFails, FallBack,
           ReadContract, ReadContractFails, Body, IncrementUsageMetering, MeteringFails, Return
  <2>2. QED
    BY <2>1, AllowType DEF limiter, TypeOK
<1>7. answers' \in [Contracts -> [Kinds -> Nat]]
  <2>1. ReadContract(c) \/ Allow(c) \/ Body(c) \/ UNCHANGED answers
    BY DEF Handle, FindProduct, List, ListFails, TryContract, TryContractFails, FallBack,
           ReadContractFails, IncrementUsageMetering, MeteringFails, Return, books
  <2>2. QED
    BY <2>1, AnswersType DEF TypeOK
<1>8. /\ meter' \in [Contracts -> [total: Nat, failed: Nat, over: Nat, billed: Nat]]
      /\ lost' \in [Contracts -> [Kinds -> Nat]]
  <2>1. /\ IncrementUsageMetering(c) \/ UNCHANGED meter
        /\ MeteringFails(c) \/ UNCHANGED lost
    BY DEF Handle, FindProduct, List, ListFails, TryContract, TryContractFails, FallBack,
           ReadContract, ReadContractFails, Allow, Body, IncrementUsageMetering,
           MeteringFails, Return, books
  <2>2. QED
    BY <2>1, MeterType DEF TypeOK
<1>9. QED
  BY <1>1, <1>2, <1>3, <1>4, <1>5, <1>6, <1>7, <1>8 DEF TypeOK, tables
\* The types and places are kept by every step.
LEMMA TypeStep ==
  ASSUME TypeOK, PlaceInv, [Next]_vars
  PROVE  TypeOK' /\ PlaceInv'
<1>1. ASSUME NEW c \in Clients, Handle(c) PROVE TypeOK' /\ PlaceInv'
  BY <1>1, HandleType
<1>2. ASSUME NEW a \in Admins, Administer(a) PROVE TypeOK' /\ PlaceInv'
  <2>1. UNCHANGED <<published, limiter, books, clock, h>>
    BY <1>2, AdministerType
  <2>2. PlaceInv'
    BY <2>1 DEF PlaceInv, Placed, At
  <2>3. QED
    BY <1>2, <2>1, <2>2, AdministerType DEF TypeOK, limiter, books
<1>3. ASSUME NEW p \in Products, SetStatus(p) PROVE TypeOK' /\ PlaceInv'
  <2>1. /\ published' \subseteq Products
        /\ left' \in [{"queries", "edits", "faults", "ticks"} -> Nat]
        /\ UNCHANGED <<contracts, grants, newer, posts, limiter, books, clock, h, steady, lately>>
    BY <1>3, SpendType DEF SetStatus, TypeOK
  <2>2. PlaceInv' /\ Ranked'
    BY <2>1, RankedStays DEF PlaceInv, Placed, At, TypeOK
  <2>3. QED
    BY <2>1, <2>2 DEF TypeOK, limiter, books
<1>4. CASE Tick
  <2>1. /\ clock' \in Minutes
        /\ left' \in [{"queries", "edits", "faults", "ticks"} -> Nat]
        /\ UNCHANGED <<tables, limiter, books, h, steady, lately>>
    <3>1. clock' \in Minutes
      <4>1. clock \in 0 .. LastMinute /\ clock < LastMinute /\ clock' = clock + 1 /\ LastMinute \in Nat
        BY <1>4 DEF Tick, TypeOK, Minutes
      <4>2. QED
        BY <4>1 DEF Minutes
    <3>2. Spend("ticks") /\ UNCHANGED <<tables, limiter, books, h, steady, lately>>
      BY <1>4 DEF Tick
    <3>3. QED
      BY <3>1, <3>2, SpendType
  <2>2. PlaceInv' /\ Ranked'
    BY <2>1, RankedStays DEF PlaceInv, Placed, At, TypeOK, tables
  <2>3. QED
    BY <2>1, <2>2 DEF TypeOK, tables, limiter, books
<1>5. CASE Restart
  BY <1>5, RestartType
<1>6. CASE UNCHANGED vars
  <2>1. UNCHANGED <<tables, limiter, books, clock, h, left, steady, lately>>
    BY <1>6 DEF vars
  <2>2. PlaceInv' /\ Ranked'
    BY <2>1, RankedStays DEF PlaceInv, Placed, At, TypeOK, tables
  <2>3. QED
    BY <2>1, <2>2 DEF TypeOK, tables, limiter, books
<1>7. QED
  BY <1>1, <1>2, <1>3, <1>4, <1>5, <1>6 DEF Next

\* They hold at the start.
LEMMA TypeInit == Init => TypeOK /\ PlaceInv
<1> SUFFICES ASSUME Init PROVE TypeOK /\ PlaceInv
  OBVIOUS
<1>1. 0 \in Minutes /\ 0 \in Nat
  BY DEF Minutes
<1>2. h \in [Clients -> Requests] /\ \A c \in Clients : h[c] = Idle
  BY IdleType DEF Init
<1>3. PlaceInv
  BY <1>2, IdleType DEF PlaceInv, Placed, At
<1>4. /\ published \subseteq Products
      /\ contracts \in [Contracts -> Scopes \cup {None}]
      /\ grants \in [Grants -> Rights \cup {None}]
      /\ newer \in SUBSET (Grants \X Grants) /\ Ranked
      /\ posts \in [Admins -> Upserts \cup {None}] /\ clock \in Minutes
  BY <1>1 DEF Init
<1>5. /\ windows \in [Contracts -> Windows \cup {None}]
      /\ meter \in [Contracts -> [total: Nat, failed: Nat, over: Nat, billed: Nat]]
      /\ left \in [{"queries", "edits", "faults", "ticks"} -> Nat]
      /\ steady \in [Clients -> SUBSET Contracts] /\ lately \in [Clients -> SUBSET Contracts]
  BY <1>1 DEF Init
<1>6. /\ admitted \in [Contracts -> [Minutes -> Nat]]
      /\ latest \in Minutes /\ late \subseteq Contracts \X Minutes
      /\ answers \in [Contracts -> [Kinds -> Nat]] /\ lost \in [Contracts -> [Kinds -> Nat]]
  BY <1>1 DEF Init
<1>7. QED
  BY <1>2, <1>3, <1>4, <1>5, <1>6 DEF TypeOK

\* The requests in the handler, the stored rows in their order, the limiter and
\* the meter stay well typed.
THEOREM TypeCorrect == Spec => []TypeOK
<1>1. TypeOK /\ PlaceInv /\ [Next]_vars => TypeOK' /\ PlaceInv'
  BY TypeStep
<1>2. QED
  BY <1>1, TypeInit, PTL DEF Spec
-----------------------------------------------------------------------------
(* What is served, and what is denied.                                     *)

\* A step of a request leaves the contracts and what is known of the others.
LEMMA OthersStay ==
  ASSUME TypeOK, PlaceInv, NEW c \in Clients, Handle(c)
  PROVE  /\ contracts' = contracts
         /\ \A d \in Clients \ {c} :
              h'[d] = h[d] /\ steady'[d] = steady[d] /\ lately'[d] = lately[d]
<1>1. contracts' = contracts /\ \A d \in Clients \ {c} : h'[d] = h[d]
  <2>1. UNCHANGED tables
    BY DEF Handle, FindProduct, List, ListFails, TryContract, TryContractFails, FallBack,
           ReadContract, ReadContractFails, Allow, Body, IncrementUsageMetering,
           MeteringFails, Return
  <2>2. QED
    BY <2>1, RequestStep DEF tables
<1>2. \A d \in Clients \ {c} : steady'[d] = steady[d] /\ lately'[d] = lately[d]
  <2>1. CASE List(c)
    BY <2>1, ListStep DEF List
  <2>2. CASE \E p \in Products : FindProduct(c, p)
    BY <2>2 DEF FindProduct
  <2>3. CASE ListFails(c) \/ TryContractFails(c) \/ ReadContract(c) \/ ReadContractFails(c)
             \/ Allow(c) \/ Body(c)
    BY <2>3 DEF ListFails, TryContractFails, ReadContract, ReadContractFails, Allow, Body
  <2>4. CASE TryContract(c)
    BY <2>4, CandidateType, ChooseStep DEF TryContract
  <2>5. CASE FallBack(c)
    BY <2>5, FirstType, ChooseStep DEF FallBack, Walked
  <2>6. CASE IncrementUsageMetering(c) \/ MeteringFails(c) \/ Return(c)
    BY <2>6, GoneStep DEF IncrementUsageMetering, MeteringFails, Return
  <2>7. QED
    BY <2>1, <2>2, <2>3, <2>4, <2>5, <2>6 DEF Handle
<1>3. QED
  BY <1>1, <1>2

\* What a request's step makes of what it knows of its contract.
LEMMA ForceRequest ==
  ASSUME TypeOK, PlaceInv, NEW c \in Clients, Forced(c), Handle(c)
  PROVE  Forced(c)'
<1>0. h[c] \in Requests /\ contracts' = contracts
  BY OthersStay DEF TypeOK
<1> USE DEF At
<1>1. ASSUME NEW t \in Scopes \cup {None}, NEW outcome \in Outcomes \ {"served"},
             AnsweredStep(c, t, outcome)
      PROVE  Forced(c)'
  BY <1>1, AnsweredFields DEF Forced
<1>2. ASSUME NEW ent \in Copies, NEW found \in BOOLEAN, Choose(c, ent, found)
      PROVE  Forced(c)'
  <2>1. ChosenStep(c, ent, found) /\ lately'[c] = InForceFor(h[c].product)
    BY <1>2, ChooseStep
  <2>2. h'[c].pc = "contract" /\ h'[c].product = h[c].product
    BY <1>0, <2>1 DEF Requests, ChosenStep
  <2>3. QED
    BY <1>0, <2>1, <2>2 DEF Forced, InForceFor
<1>3. CASE \E p \in Products : FindProduct(c, p)
  <2>1. PICK p \in Products : FoundStep(c, p)
    BY <1>3, FindStep
  <2>2. h'[c].pc \in {"list", "reply"} /\ (h'[c].pc = "reply" => h'[c].outcome = "unpublished")
    <3>1. CASE p \in published
      BY <2>1, <3>1, IdleType DEF FoundStep, Requests
    <3>2. CASE p \notin published
      BY <2>1, <3>2, IdleType DEF FoundStep, Requests
    <3>3. QED
      BY <3>1, <3>2
  <2>3. QED
    BY <2>2 DEF Forced
<1>4. CASE List(c)
  <2>1. PICK f \in Orders(h[c].product) : ListedStep(c, f)
    BY <1>4, ListStep
  <2>2. h'[c].pc \in {"walk", "reply"} /\ (h'[c].pc = "reply" => h'[c].outcome = "denied")
    BY <1>0, <2>1 DEF ListedStep, Requests
  <2>3. QED
    BY <2>2 DEF Forced
<1>5. CASE ListFails(c) \/ ReadContractFails(c)
  <2>1. Answer(c, None, "error") /\ "error" \in Outcomes \ {"served"}
    BY <1>5 DEF ListFails, ReadContractFails, Outcomes
  <2>2. QED
    BY <1>1, <2>1, AnswerStep
<1>6. CASE TryContract(c) \/ TryContractFails(c)
  <2>1. CASE TryContract(c) /\ Choose(c, Candidate(c), TRUE)
    BY <1>2, <2>1, CandidateType DEF TryContract
  <2>2. CASE \/ Now(c, [h[c] EXCEPT !.at = @ + 1])
             \/ Now(c, [h[c] EXCEPT !.at = @ + 1, !.broken = TRUE])
    <3>1. \/ h'[c] = [h[c] EXCEPT !.at = @ + 1]
          \/ h'[c] = [h[c] EXCEPT !.at = @ + 1, !.broken = TRUE]
      BY <2>2, PassStep
    <3>2. h'[c].pc = "walk"
      <4>1. h[c].pc = "walk"
        BY <1>6 DEF TryContract, TryContractFails, Walking
      <4>2. CASE h'[c] = [h[c] EXCEPT !.at = @ + 1]
        BY <1>0, <4>1, <4>2 DEF Requests
      <4>3. CASE h'[c] = [h[c] EXCEPT !.at = @ + 1, !.broken = TRUE]
        BY <1>0, <4>1, <4>3 DEF Requests
      <4>4. QED
        BY <3>1, <4>2, <4>3
    <3>3. QED
      BY <3>2 DEF Forced
  <2>3. QED
    BY <1>6, <2>1, <2>2 DEF TryContract, TryContractFails
<1>7. CASE FallBack(c)
  <2>1. CASE Answer(c, None, "error") \/ Answer(c, None, "denied")
    <3>1. "error" \in Outcomes \ {"served"} /\ "denied" \in Outcomes \ {"served"}
      BY DEF Outcomes
    <3>2. QED
      BY <1>1, <2>1, <3>1, AnswerStep
  <2>2. CASE Choose(c, h[c].list[1], FALSE)
    BY <1>2, <1>7, <2>2, FirstType DEF FallBack, Walked
  <2>3. QED
    BY <1>7, <2>1, <2>2 DEF FallBack
<1>8. CASE ReadContract(c)
  <2>1. CASE \E t \in Scopes \cup {None} : AnsweredStep(c, t, "denied")
    <3>1. "denied" \in Outcomes \ {"served"}
      BY DEF Outcomes
    <3>2. QED
      BY <1>1, <2>1, <3>1
  <2>2. CASE /\ Serves(contracts[h[c].ent.contract], h[c].product)
             /\ h'[c] = [h[c] EXCEPT !.terms = contracts[h[c].ent.contract],
                           !.pc = IF contracts[h[c].ent.contract].limit > 0 THEN "allow" ELSE "body"]
    <3>1. h'[c].ent = h[c].ent /\ h'[c].pc \in {"allow", "body"}
      BY <1>0, <2>2 DEF Requests
    <3>2. h[c].ent.contract \in Contracts /\ At(c, "contract") /\ lately'[c] = lately[c]
      BY <1>8, ChosenType DEF ReadContract
    <3>3. h[c].ent.contract \in lately[c]
      BY <2>2, <3>2 DEF Forced, InForceFor
    <3>4. QED
      BY <3>1, <3>2, <3>3 DEF Forced
  <2>3. QED
    BY <1>8, <2>1, <2>2, ReadStep
<1>9. CASE Allow(c)
  <2>1. CASE Answer(c, h[c].terms, "over")
    <3>1. "over" \in Outcomes \ {"served"} /\ h[c].terms \in Scopes \cup {None}
      BY <1>0 DEF Outcomes, Requests
    <3>2. QED
      BY <1>1, <2>1, <3>1, AnswerStep
  <2>2. CASE Now(c, [h[c] EXCEPT !.pc = "body"])
    <3>1. h'[c].ent = h[c].ent /\ h'[c].pc = "body" /\ lately'[c] = lately[c]
      <4>1. h'[c] = [h[c] EXCEPT !.pc = "body"]
        BY <2>2, ThroughStep
      <4>2. lately' = lately
        BY <1>9 DEF Allow
      <4>3. QED
        BY <1>0, <4>1, <4>2 DEF Requests
    <3>2. QED
      BY <1>9, <3>1 DEF Forced, Allow
  <2>3. QED
    BY <1>9, <2>1, <2>2 DEF Allow
<1>10. CASE Body(c)
  <2>1. PICK outcome \in {"refused", "served"} : Answer(c, h[c].terms, outcome)
    BY <1>10 DEF Body
  <2>2. outcome \in Outcomes /\ h[c].terms \in Scopes \cup {None}
    BY <1>0, <2>1 DEF Outcomes, Requests
  <2>3. AnsweredStep(c, h[c].terms, outcome) /\ lately'[c] = lately[c]
    BY <1>10, <2>1, <2>2, AnswerStep DEF Body
  <2>4. h'[c].list = h[c].list /\ h'[c].ent = h[c].ent /\ h'[c].pc = "reply"
    BY <2>2, <2>3, AnsweredFields
  <2>5. QED
    BY <1>10, <2>3, <2>4 DEF Body, Forced, PlaceInv, Placed
<1>11. CASE IncrementUsageMetering(c) \/ MeteringFails(c) \/ Return(c)
  <2>1. h'[c].pc = "idle"
    BY <1>11, GoneStep, IdleType DEF IncrementUsageMetering, MeteringFails, Return
  <2>2. QED
    BY <2>1 DEF Forced
<1>12. QED
  BY <1>3, <1>4, <1>5, <1>6, <1>7, <1>8, <1>9, <1>10, <1>11 DEF Handle

\* A contract an administrator writes is known to the requests that have chosen it.
LEMMA ForceStep ==
  ASSUME TypeOK, PlaceInv, ForceInv, [Next]_vars
  PROVE  ForceInv'
<1>1. ASSUME NEW c \in Clients, Handle(c) PROVE ForceInv'
  <2>1. Forced(c)'
    BY <1>1, ForceRequest DEF ForceInv
  <2>2. ASSUME NEW d \in Clients \ {c} PROVE Forced(d)'
    BY <1>1, OthersStay DEF ForceInv, Forced, InForceFor, At
  <2>3. QED
    BY <2>1, <2>2 DEF ForceInv
<1>2. ASSUME NEW a \in Admins, WriteContract(a) PROVE ForceInv'
  <2>1. h' = h /\ \A c \in Clients : lately'[c] = lately[c] \cup
          {k \in Contracts : At(c, "contract") /\ Serves(contracts'[k], h[c].product)}
    BY <1>2 DEF WriteContract
  <2>2. ASSUME NEW c \in Clients PROVE Forced(c)'
    BY <2>1 DEF ForceInv, Forced, InForceFor, At
  <2>3. QED
    BY <2>2 DEF ForceInv
<1>3. CASE Restart
  <2>1. \A c \in Clients : h'[c].pc = "idle"
    BY <1>3, IdleType DEF Restart
  <2>2. QED
    BY <2>1 DEF ForceInv, Forced, At
<1>4. CASE UNCHANGED <<h, contracts, lately>>
  BY <1>4 DEF ForceInv, Forced, InForceFor, At
<1>5. QED
  BY <1>1, <1>2, <1>3, <1>4 DEF Next, Administer, CheckContract, CheckGrant, WriteGrant,
     SetStatus, Tick, vars, tables

\* Data is served only under a listed grant that permits, and a contract of the
\* product in force at some moment after it was chosen.
THEOREM OnlyInForceIsServed == Spec => []ServedInForce
<1>1. Init => ForceInv
  BY IdleType DEF Init, ForceInv, Forced, At
<1>2. TypeOK /\ PlaceInv /\ ForceInv /\ [Next]_vars => TypeOK' /\ PlaceInv' /\ ForceInv'
  BY TypeStep, ForceStep
<1>3. ForceInv => ServedInForce
  BY DEF ForceInv, Forced, ServedInForce
<1>4. QED
  BY <1>1, <1>2, <1>3, TypeInit, PTL DEF Spec
\* What a request's step makes of what it has passed over.
LEMMA WalkRequest ==
  ASSUME TypeOK, PlaceInv, NEW c \in Clients, Walks(c), Handle(c)
  PROVE  Walks(c)'
<1>0. /\ h[c] \in Requests /\ contracts' = contracts
      /\ h[c].list \in Seq(Copies) /\ h[c].at \in Nat /\ Len(h[c].list) \in Nat
  <2>1. contracts' = contracts /\ h[c] \in Requests
    BY OthersStay DEF TypeOK
  <2>2. h[c].list \in Seq(Copies) /\ h[c].at \in Nat
    BY <2>1 DEF Requests
  <2>3. QED
    BY <2>1, <2>2
<1> USE DEF At
<1>1. ASSUME NEW t \in Scopes \cup {None}, NEW outcome \in Outcomes \ {"denied"},
             AnsweredStep(c, t, outcome)
      PROVE  Walks(c)'
  <2>1. h'[c].pc = "reply" /\ h'[c].outcome # "denied"
    BY <1>1, AnsweredFields
  <2>2. QED
    BY <2>1 DEF Walks
<1>2. CASE \E p \in Products : FindProduct(c, p)
  <2>1. PICK p \in Products : FoundStep(c, p)
    BY <1>2, FindStep
  <2>2. /\ h'[c].pc \in {"list", "reply"} /\ h'[c].at = 1
        /\ h'[c].pc = "reply" => h'[c].outcome = "unpublished"
    <3>1. CASE p \in published
      BY <2>1, <3>1, IdleType DEF FoundStep, Requests
    <3>2. CASE p \notin published
      BY <2>1, <3>2, IdleType DEF FoundStep, Requests
    <3>3. QED
      BY <3>1, <3>2
  <2>3. QED
    BY <2>2 DEF Walks
<1>3. CASE List(c)
  <2>1. PICK f \in Orders(h[c].product) : ListedStep(c, f)
    BY <1>3, ListStep
  <2>2. /\ h'[c].pc = IF f = <<>> THEN "reply" ELSE "walk"
        /\ h'[c].list = Listing(f) /\ h'[c].product = h[c].product /\ h'[c].at = h[c].at
    BY <1>0, <2>1 DEF ListedStep, Requests
  <2>3. h[c].at = 1 /\ steady'[c] = InForceFor(h[c].product)
    BY <1>3, ListStep DEF Walks, List
  <2>4. /\ Listing(f) \in Seq(Copies) /\ (f = <<>> => Listing(f) = <<>>)
        /\ \A i, j \in 1 .. Len(Listing(f)) :
             i < j /\ Listing(f)[j].permits => Listing(f)[i].permits
    BY ListingType
  <2>5. CASE f = <<>>
    <3>1. h'[c].pc = "reply" /\ Len(h'[c].list) = 0
      BY <2>2, <2>4, <2>5
    <3>2. QED
      BY <3>1 DEF Walks
  <2>6. CASE f # <<>>
    <3>1. h'[c].pc = "walk" /\ \A i \in 1 .. Len(h'[c].list) : ~(i < h'[c].at)
      BY <2>2, <2>3, <2>4, <2>6
    <3>2. steady'[c] \subseteq InForceFor(h[c].product)'
      BY <1>0, <2>2, <2>3 DEF InForceFor
    <3>3. QED
      BY <2>2, <2>4, <3>1, <3>2 DEF Walks
  <2>7. QED
    BY <2>5, <2>6
<1>4. CASE ListFails(c) \/ ReadContractFails(c)
  <2>1. Answer(c, None, "error") /\ "error" \in Outcomes \ {"denied"}
    BY <1>4 DEF ListFails, ReadContractFails, Outcomes
  <2>2. QED
    BY <1>1, <2>1, AnswerStep
<1>5. ASSUME NEW ent \in Copies, NEW found \in BOOLEAN, Choose(c, ent, found),
             At(c, "walk"), steady'[c] = steady[c],
             ~found => \A i \in 1 .. Len(h[c].list) :
               h[c].list[i].permits => h[c].list[i].contract \notin steady[c]
      PROVE  Walks(c)'
  <2>1. ChosenStep(c, ent, found)
    BY <1>5, ChooseStep
  <2>2. /\ h'[c].pc = "contract" /\ h'[c].product = h[c].product /\ h'[c].list = h[c].list
        /\ h'[c].chosen = found
    BY <1>0, <2>1 DEF Requests, ChosenStep
  <2>3. QED
    BY <1>0, <1>5, <2>2 DEF Walks, InForceFor
<1>6. CASE TryContract(c) \/ TryContractFails(c)
  <2>0. /\ Walking(c) /\ At(c, "walk") /\ steady'[c] = steady[c]
        /\ h[c].at \in 1 .. Len(h[c].list) /\ Candidate(c) = h[c].list[h[c].at]
    BY <1>6, CandidateType DEF TryContract, TryContractFails, Walking
  <2>1. CASE Choose(c, Candidate(c), TRUE)
    BY <1>5, <2>0, <2>1, CandidateType
  <2>2. CASE /\ ~Serves(contracts[Candidate(c).contract], h[c].product)
             /\ Now(c, [h[c] EXCEPT !.at = @ + 1])
    <3>1. h'[c] = [h[c] EXCEPT !.at = @ + 1]
      BY <2>2, PassStep
    <3>2. /\ h'[c].pc = "walk" /\ h'[c].product = h[c].product /\ h'[c].list = h[c].list
          /\ h'[c].at = h[c].at + 1 /\ h'[c].broken = h[c].broken
      BY <1>0, <2>0, <3>1 DEF Requests
    <3>3. h[c].list[h[c].at].contract \notin steady[c]
      BY <2>0, <2>2 DEF Walks, InForceFor
    <3>4. \A i \in 1 .. Len(h[c].list) : i < h[c].at + 1 => i < h[c].at \/ i = h[c].at
      BY <1>0
    <3>5. QED
      BY <1>0, <2>0, <3>2, <3>3, <3>4 DEF Walks, InForceFor
  <2>3. CASE Now(c, [h[c] EXCEPT !.at = @ + 1, !.broken = TRUE])
    <3>1. h'[c] = [h[c] EXCEPT !.at = @ + 1, !.broken = TRUE]
      BY <2>3, PassStep
    <3>2. /\ h'[c].pc = "walk" /\ h'[c].product = h[c].product /\ h'[c].list = h[c].list
          /\ h'[c].broken = TRUE
      BY <1>0, <2>0, <3>1 DEF Requests
    <3>3. QED
      BY <1>0, <2>0, <3>2 DEF Walks, InForceFor
  <2>4. QED
    BY <1>6, <2>1, <2>2, <2>3 DEF TryContract, TryContractFails
<1>7. CASE FallBack(c)
  <2>0. /\ At(c, "walk") /\ steady'[c] = steady[c] /\ 1 \in 1 .. Len(h[c].list)
        /\ h[c].list[1] \in Copies /\ h[c].at >= 1
        /\ h[c].at <= Len(h[c].list) => ~h[c].list[h[c].at].permits
    BY <1>7, FirstType DEF FallBack, Walked, Candidate, PlaceInv, Placed
  <2>1. CASE Answer(c, None, "error")
    <3>1. "error" \in Outcomes \ {"denied"}
      BY DEF Outcomes
    <3>2. QED
      BY <1>1, <2>1, <3>1, AnswerStep
  <2>2. CASE ~h[c].list[1].permits /\ Answer(c, None, "denied")
    <3>1. "denied" \in Outcomes
      BY DEF Outcomes
    <3>2. AnsweredStep(c, None, "denied")
      BY <2>2, <3>1, AnswerStep
    <3>3. h'[c].pc = "reply" /\ h'[c].list = h[c].list
      BY <3>1, <3>2, AnsweredFields
    <3>4. ASSUME NEW i \in 1 .. Len(h[c].list) PROVE ~h[c].list[i].permits
      <4>1. i = 1 \/ 1 < i
        BY <1>0
      <4>2. QED
        BY <2>0, <2>2, <4>1 DEF Walks
    <3>5. QED
      BY <3>3, <3>4 DEF Walks
  <2>3. CASE ~h[c].broken /\ Choose(c, h[c].list[1], FALSE)
    <3>1. ASSUME NEW i \in 1 .. Len(h[c].list), h[c].list[i].permits
          PROVE  h[c].list[i].contract \notin steady[c]
      <4>1. i < h[c].at \/ i = h[c].at \/ (h[c].at < i /\ h[c].at \in 1 .. Len(h[c].list))
        BY <1>0, <2>0
      <4>2. ~(i = h[c].at) /\ ~(h[c].at < i /\ h[c].at \in 1 .. Len(h[c].list))
        BY <1>0, <2>0, <3>1 DEF Walks
      <4>3. QED
        BY <2>0, <2>3, <3>1, <4>1, <4>2 DEF Walks
    <3>2. QED
      BY <1>5, <2>0, <2>3, <3>1
  <2>4. QED
    BY <1>7, <2>1, <2>2, <2>3 DEF FallBack
<1>8. CASE ReadContract(c)
  <2>0. /\ At(c, "contract") /\ steady'[c] = steady[c] /\ h[c].ent.contract \in Contracts
    BY <1>8, ChosenType DEF ReadContract
  <2>1. CASE /\ ~Serves(contracts[h[c].ent.contract], h[c].product)
             /\ \E t \in Scopes \cup {None} : AnsweredStep(c, t, "denied")
    <3>1. "denied" \in Outcomes
      BY DEF Outcomes
    <3>2. /\ h'[c].pc = "reply" /\ h'[c].list = h[c].list /\ h'[c].ent = h[c].ent
          /\ h'[c].chosen = h[c].chosen
      BY <2>1, <3>1, AnsweredFields
    <3>3. h[c].ent.contract \notin steady[c]
      BY <2>0, <2>1 DEF Walks, InForceFor
    <3>4. QED
      BY <2>0, <3>2, <3>3 DEF Walks
  <2>2. CASE h'[c] = [h[c] EXCEPT !.terms = contracts[h[c].ent.contract],
                        !.pc = IF contracts[h[c].ent.contract].limit > 0 THEN "allow" ELSE "body"]
    <3>1. h'[c].pc \in {"allow", "body"}
      BY <1>0, <2>2 DEF Requests
    <3>2. QED
      BY <3>1 DEF Walks
  <2>3. QED
    BY <1>8, <2>1, <2>2, ReadStep
<1>9. CASE Allow(c)
  <2>1. CASE Answer(c, h[c].terms, "over")
    <3>1. "over" \in Outcomes \ {"denied"} /\ h[c].terms \in Scopes \cup {None}
      BY <1>0 DEF Outcomes, Requests
    <3>2. QED
      BY <1>1, <2>1, <3>1, AnswerStep
  <2>2. CASE Now(c, [h[c] EXCEPT !.pc = "body"])
    <3>1. h'[c].pc = "body"
      BY <1>0, <2>2, ThroughStep DEF Requests
    <3>2. QED
      BY <3>1 DEF Walks
  <2>3. QED
    BY <1>9, <2>1, <2>2 DEF Allow
<1>10. CASE Body(c)
  <2>1. PICK outcome \in {"refused", "served"} : Answer(c, h[c].terms, outcome)
    BY <1>10 DEF Body
  <2>2. outcome \in Outcomes \ {"denied"} /\ h[c].terms \in Scopes \cup {None}
    BY <1>0, <2>1 DEF Outcomes, Requests
  <2>3. QED
    BY <1>1, <2>1, <2>2, AnswerStep
<1>11. CASE IncrementUsageMetering(c) \/ MeteringFails(c) \/ Return(c)
  <2>1. h'[c].pc = "idle"
    BY <1>11, GoneStep, IdleType DEF IncrementUsageMetering, MeteringFails, Return
  <2>2. QED
    BY <2>1 DEF Walks
<1>12. QED
  BY <1>2, <1>3, <1>4, <1>6, <1>7, <1>8, <1>9, <1>10, <1>11 DEF Handle

\* A contract an administrator writes is steady no longer if it stops serving.
LEMMA WalkStep ==
  ASSUME TypeOK, PlaceInv, WalkInv, [Next]_vars
  PROVE  WalkInv'
<1>1. ASSUME NEW c \in Clients, Handle(c) PROVE WalkInv'
  <2>1. Walks(c)'
    BY <1>1, WalkRequest DEF WalkInv
  <2>2. ASSUME NEW d \in Clients \ {c} PROVE Walks(d)'
    BY <1>1, OthersStay DEF WalkInv, Walks, InForceFor, At
  <2>3. QED
    BY <2>1, <2>2 DEF WalkInv
<1>2. ASSUME NEW a \in Admins, WriteContract(a) PROVE WalkInv'
  <2>1. h' = h /\ \A c \in Clients :
          steady'[c] = {k \in steady[c] : Serves(contracts'[k], h[c].product)}
    BY <1>2 DEF WriteContract
  <2>2. ASSUME NEW c \in Clients PROVE Walks(c)'
    <3>1. steady'[c] \subseteq steady[c] /\ steady'[c] \subseteq InForceFor(h[c].product)'
      BY <2>1 DEF InForceFor, TypeOK
    <3>2. QED
      BY <2>1, <3>1 DEF WalkInv, Walks, At
  <2>3. QED
    BY <2>2 DEF WalkInv
<1>3. CASE Restart
  <2>1. \A c \in Clients : h'[c].pc = "idle"
    BY <1>3, IdleType DEF Restart
  <2>2. QED
    BY <2>1 DEF WalkInv, Walks, At
<1>4. CASE UNCHANGED <<h, contracts, steady>>
  BY <1>4 DEF WalkInv, Walks, InForceFor, At
<1>5. QED
  BY <1>1, <1>2, <1>3, <1>4 DEF Next, Administer, CheckContract, CheckGrant, WriteGrant,
     SetStatus, Tick, vars, tables

\* A denial has a reason that held at some moment of the request: no listed grant
\* that permits had a contract in force all along, or the one chosen lost it.
THEOREM DenialsAreJust == Spec => []DenialIsJust
<1>1. Init => WalkInv
  BY IdleType DEF Init, WalkInv, Walks, At
<1>2. TypeOK /\ PlaceInv /\ WalkInv /\ [Next]_vars => TypeOK' /\ PlaceInv' /\ WalkInv'
  BY TypeStep, WalkStep
<1>3. WalkInv => DenialIsJust
  BY DEF WalkInv, Walks, DenialIsJust
<1>4. QED
  BY <1>1, <1>2, <1>3, TypeInit, PTL DEF Spec
-----------------------------------------------------------------------------
(* The meter.                                                              *)

\* The calls still to be metered are finitely many.
LEMMA OwedFinite ==
  ASSUME NEW k, NEW kind
  PROVE  /\ IsFiniteSet(Owed(k, kind)) /\ Cardinality(Owed(k, kind)) \in Nat
         /\ IsFiniteSet(Owed(k, kind)') /\ Cardinality(Owed(k, kind)') \in Nat
<1>1. Owed(k, kind) \subseteq Clients /\ Owed(k, kind)' \subseteq Clients
  BY DEF Owed
<1>2. QED
  BY <1>1, FS_Subset, FS_CardinalityType

\* A step of one request adds it to them, or removes it.
LEMMA OwedStep ==
  ASSUME NEW c \in Clients, \A d \in Clients \ {c} : h'[d] = h[d], NEW k, NEW kind
  PROVE  /\ (c \in Owed(k, kind)' <=> c \in Owed(k, kind)) =>
              Cardinality(Owed(k, kind)') = Cardinality(Owed(k, kind))
         /\ c \in Owed(k, kind)' /\ c \notin Owed(k, kind) =>
              Cardinality(Owed(k, kind)') = Cardinality(Owed(k, kind)) + 1
         /\ c \notin Owed(k, kind)' /\ c \in Owed(k, kind) =>
              Cardinality(Owed(k, kind)) = Cardinality(Owed(k, kind)') + 1
<1>1. \A d \in Clients \ {c} : d \in Owed(k, kind)' <=> d \in Owed(k, kind)
  BY DEF Owed, At
<1>2. Owed(k, kind) \subseteq Clients /\ Owed(k, kind)' \subseteq Clients
  BY DEF Owed
<1>3. IsFiniteSet(Owed(k, kind)) /\ IsFiniteSet(Owed(k, kind)')
  BY OwedFinite
<1>4. PICK S, T : S = Owed(k, kind) /\ T = Owed(k, kind)'
  OBVIOUS
<1>5. CASE c \in T <=> c \in S
  <2>1. S = T
    BY <1>1, <1>2, <1>4, <1>5
  <2>2. QED
    BY <1>4, <1>5, <2>1
<1>6. CASE c \in T /\ c \notin S
  <2>1. T = S \cup {c}
    BY <1>1, <1>2, <1>4, <1>6
  <2>2. Cardinality(S \cup {c}) = Cardinality(S) + 1
    BY <1>3, <1>4, <1>6, FS_AddElement
  <2>3. QED
    BY <1>4, <1>6, <2>1, <2>2
<1>7. CASE c \notin T /\ c \in S
  <2>1. S = T \cup {c}
    BY <1>1, <1>2, <1>4, <1>7
  <2>2. Cardinality(T \cup {c}) = Cardinality(T) + 1
    BY <1>3, <1>4, <1>7, FS_AddElement
  <2>3. QED
    BY <1>4, <1>7, <2>1, <2>2
<1>8. QED
  BY <1>4, <1>5, <1>6, <1>7

\* What the balance of one contract and kind is made of.
LEMMA BalanceType ==
  ASSUME TypeOK, NEW k \in Contracts, NEW kind \in Kinds
  PROVE  /\ answers[k][kind] \in Nat /\ lost[k][kind] \in Nat /\ Metered(k, kind) \in Nat
         /\ Cardinality(Owed(k, kind)) \in Nat
         /\ meter[k] \in [total: Nat, failed: Nat, over: Nat, billed: Nat]
<1>1. /\ answers[k][kind] \in Nat /\ lost[k][kind] \in Nat
      /\ meter[k] \in [total: Nat, failed: Nat, over: Nat, billed: Nat]
  BY DEF TypeOK
<1>2. Metered(k, kind) \in Nat
  BY <1>1 DEF Metered, Kinds
<1>3. QED
  BY <1>1, <1>2, OwedFinite

\* An answer under a contract is owed.
LEMMA AnswerIsOwed ==
  ASSUME TypeOK, MeterMatches, NEW c \in Clients, NEW k \in Contracts, NEW outcome \in Outcomes,
         h[c].pc # "reply", \A d \in Clients \ {c} : h'[d] = h[d],
         h'[c].pc = "reply", h'[c].owes, h'[c].ent.contract = k, h'[c].outcome = outcome,
         Book(k, outcome), UNCHANGED <<meter, lost>>
  PROVE  MeterMatches'
<1>1. \A j, kind : c \notin Owed(j, kind)
  BY DEF Owed, At
<1>2. \A j, kind : c \in Owed(j, kind)' <=> j = k /\ kind = Kind(outcome)
  BY DEF Owed, At
<1>3. ASSUME NEW j \in Contracts, NEW kind \in Kinds
      PROVE  answers'[j][kind] = lost'[j][kind] + Cardinality(Owed(j, kind)') + Metered(j, kind)'
  <2>1. Metered(j, kind)' = Metered(j, kind) /\ lost'[j][kind] = lost[j][kind]
    BY DEF Metered
  <2>2. answers[j][kind] = lost[j][kind] + Cardinality(Owed(j, kind)) + Metered(j, kind)
    BY DEF MeterMatches
  <2>3. CASE j = k /\ kind = Kind(outcome)
    <3>1. answers'[j][kind] = answers[j][kind] + 1
      BY <2>3, BookType
    <3>2. Cardinality(Owed(j, kind)') = Cardinality(Owed(j, kind)) + 1
      BY <1>1, <1>2, <2>3, OwedStep
    <3>3. QED
      BY <2>1, <2>2, <3>1, <3>2, BalanceType
  <2>4. CASE ~(j = k /\ kind = Kind(outcome))
    <3>1. answers'[j][kind] = answers[j][kind]
      BY <2>4, BookType
    <3>2. Cardinality(Owed(j, kind)') = Cardinality(Owed(j, kind))
      BY <1>1, <1>2, <2>4, OwedStep
    <3>3. QED
      BY <2>1, <2>2, <3>1, <3>2
  <2>5. QED
    BY <2>3, <2>4
<1>4. \A j \in Contracts : meter'[j].total = meter'[j].failed + meter'[j].over + meter'[j].billed
  BY DEF MeterMatches
<1>5. QED
  BY <1>3, <1>4 DEF MeterMatches

\* A step that neither answers under a contract nor meters.
LEMMA NothingOwed ==
  ASSUME MeterMatches, NEW c \in Clients,
         h[c].pc # "reply" \/ ~h[c].owes, \A d \in Clients \ {c} : h'[d] = h[d],
         h'[c].pc # "reply" \/ ~h'[c].owes, UNCHANGED <<answers, meter, lost>>
  PROVE  MeterMatches'
<1>1. \A j, kind : c \notin Owed(j, kind) /\ c \notin Owed(j, kind)'
  BY DEF Owed, At
<1>2. \A j \in Contracts, kind \in Kinds :
        Cardinality(Owed(j, kind)') = Cardinality(Owed(j, kind))
  BY <1>1, OwedStep
<1>3. \A j, kind : Metered(j, kind)' = Metered(j, kind)
  BY DEF Metered
<1>4. QED
  BY <1>2, <1>3 DEF MeterMatches

\* The deferred call meters one answer, of its kind.
LEMMA OneIsMetered ==
  ASSUME TypeOK, PlaceInv, MeterMatches, NEW c \in Clients, IncrementUsageMetering(c)
  PROVE  MeterMatches'
<1>0. PICK k \in Contracts : k = h[c].ent.contract
  BY ChosenType DEF IncrementUsageMetering
<1>1. PICK kd \in Kinds : kd = Kind(h[c].outcome)
  BY KindType
<1>2. /\ h'[c].pc = "idle" /\ \A d \in Clients \ {c} : h'[d] = h[d]
      /\ UNCHANGED <<answers, lost>> /\ h[c].pc = "reply" /\ h[c].owes
  BY GoneStep, IdleType DEF IncrementUsageMetering, At
<1>3. \A j, kind : c \notin Owed(j, kind)'
  BY <1>2 DEF Owed, At
<1>4. \A j, kind : c \in Owed(j, kind) <=> j = k /\ kind = kd
  BY <1>0, <1>1, <1>2 DEF Owed, At
<1>5. meter' = [meter EXCEPT ![k] =
        [total |-> meter[k].total + 1, failed |-> meter[k].failed + One(kd = "failed"),
         over |-> meter[k].over + One(kd = "over"),
         billed |-> meter[k].billed + One(kd = "served")]]
  BY <1>0, <1>1 DEF IncrementUsageMetering
<1>6. /\ meter'[k].total = meter[k].total + 1
      /\ meter'[k].failed = meter[k].failed + One(kd = "failed")
      /\ meter'[k].over = meter[k].over + One(kd = "over")
      /\ meter'[k].billed = meter[k].billed + One(kd = "served")
      /\ \A j \in Contracts \ {k} : meter'[j] = meter[j]
  BY <1>5 DEF TypeOK
<1>7. meter[k] \in [total: Nat, failed: Nat, over: Nat, billed: Nat]
  BY DEF TypeOK
<1>8. ASSUME NEW j \in Contracts, NEW kind \in Kinds
      PROVE  answers'[j][kind] = lost'[j][kind] + Cardinality(Owed(j, kind)') + Metered(j, kind)'
  <2>1. answers[j][kind] = lost[j][kind] + Cardinality(Owed(j, kind)) + Metered(j, kind)
    BY DEF MeterMatches
  <2>2. CASE j = k /\ kind = kd
    <3>1. Cardinality(Owed(j, kind)) = Cardinality(Owed(j, kind)') + 1
      BY <1>2, <1>3, <1>4, <2>2, OwedStep
    <3>2. Metered(j, kind)' = Metered(j, kind) + 1
      BY <1>6, <1>7, <2>2 DEF Metered, Kinds, One
    <3>3. QED
      BY <1>2, <2>1, <3>1, <3>2, BalanceType, OwedFinite
  <2>3. CASE ~(j = k /\ kind = kd)
    <3>1. Cardinality(Owed(j, kind)) = Cardinality(Owed(j, kind)')
      BY <1>2, <1>3, <1>4, <2>3, OwedStep
    <3>2. Metered(j, kind)' = Metered(j, kind)
      BY <1>6, <1>7, <2>3 DEF Metered, Kinds, One
    <3>3. QED
      BY <1>2, <2>1, <3>1, <3>2
  <2>4. QED
    BY <2>2, <2>3
<1>9. \A j \in Contracts : meter'[j].total = meter'[j].failed + meter'[j].over + meter'[j].billed
  <2>1. CASE kd = "served"
    BY <1>6, <1>7, <2>1 DEF MeterMatches, One
  <2>2. CASE kd = "failed"
    BY <1>6, <1>7, <2>2 DEF MeterMatches, One
  <2>3. CASE kd = "over"
    BY <1>6, <1>7, <2>3 DEF MeterMatches, One
  <2>4. QED
    BY <2>1, <2>2, <2>3 DEF Kinds
<1>10. QED
  BY <1>8, <1>9 DEF MeterMatches

\* Or it fails, and the answer is lost to the meter.
LEMMA OneIsLost ==
  ASSUME TypeOK, PlaceInv, MeterMatches, NEW c \in Clients, MeteringFails(c)
  PROVE  MeterMatches'
<1>0. PICK k \in Contracts : k = h[c].ent.contract
  BY ChosenType DEF MeteringFails
<1>1. PICK kd \in Kinds : kd = Kind(h[c].outcome)
  BY KindType
<1>2. /\ h'[c].pc = "idle" /\ \A d \in Clients \ {c} : h'[d] = h[d]
      /\ UNCHANGED <<answers, meter>> /\ h[c].pc = "reply" /\ h[c].owes
  BY GoneStep, IdleType DEF MeteringFails, At
<1>3. \A j, kind : c \notin Owed(j, kind)'
  BY <1>2 DEF Owed, At
<1>4. \A j, kind : c \in Owed(j, kind) <=> j = k /\ kind = kd
  BY <1>0, <1>1, <1>2 DEF Owed, At
<1>5. lost' = [lost EXCEPT ![k][kd] = lost[k][kd] + 1]
  BY <1>0, <1>1 DEF MeteringFails
<1>6. /\ lost'[k][kd] = lost[k][kd] + 1
      /\ \A j \in Contracts, kind \in Kinds :
           ~(j = k /\ kind = kd) => lost'[j][kind] = lost[j][kind]
  BY <1>5 DEF TypeOK
<1>7. ASSUME NEW j \in Contracts, NEW kind \in Kinds
      PROVE  answers'[j][kind] = lost'[j][kind] + Cardinality(Owed(j, kind)') + Metered(j, kind)'
  <2>1. /\ answers[j][kind] = lost[j][kind] + Cardinality(Owed(j, kind)) + Metered(j, kind)
        /\ Metered(j, kind)' = Metered(j, kind)
    BY <1>2 DEF MeterMatches, Metered
  <2>2. CASE j = k /\ kind = kd
    <3>1. Cardinality(Owed(j, kind)) = Cardinality(Owed(j, kind)') + 1
      BY <1>2, <1>3, <1>4, <2>2, OwedStep
    <3>2. QED
      BY <1>2, <1>6, <2>1, <2>2, <3>1, BalanceType, OwedFinite
  <2>3. CASE ~(j = k /\ kind = kd)
    <3>1. Cardinality(Owed(j, kind)) = Cardinality(Owed(j, kind)')
      BY <1>2, <1>3, <1>4, <2>3, OwedStep
    <3>2. QED
      BY <1>2, <1>6, <2>1, <2>3, <3>1
  <2>4. QED
    BY <2>2, <2>3
<1>8. QED
  BY <1>2, <1>7 DEF MeterMatches
\* The handler's steps keep the balance.
LEMMA MeterRequest ==
  ASSUME TypeOK, PlaceInv, MeterMatches, NEW c \in Clients, Handle(c)
  PROVE  MeterMatches'
<1>0. /\ h[c] \in Requests /\ \A d \in Clients \ {c} : h'[d] = h[d]
      /\ h[c].pc \in {"contract", "allow", "body"} =>
           h[c].ent.contract \in Contracts /\ h[c].ent # None
  BY RequestStep, ChosenType DEF TypeOK, PlaceInv, Placed
<1> USE DEF At
<1>1. ASSUME NEW outcome \in Outcomes, Answer(c, None, outcome), h[c].pc # "reply",
             UNCHANGED <<answers, meter, lost>>
      PROVE  MeterMatches'
  <2>1. AnsweredStep(c, None, outcome)
    BY <1>1, AnswerStep
  <2>2. ~h'[c].owes
    BY <2>1, AnsweredFields
  <2>3. QED
    BY <1>0, <1>1, <2>2, NothingOwed
<1>2. ASSUME NEW t \in Scopes, NEW outcome \in Outcomes, AnsweredStep(c, t, outcome),
             Book(h[c].ent.contract, outcome), h[c].pc \in {"contract", "allow", "body"},
             UNCHANGED <<meter, lost>>
      PROVE  MeterMatches'
  <2>1. t # None
    BY <1>2
  <2>2. h'[c].pc = "reply" /\ h'[c].outcome = outcome /\ h'[c].ent = h[c].ent /\ h'[c].owes
    BY <1>2, <2>1, AnsweredFields
  <2>3. QED
    BY <1>0, <1>2, <2>2, AnswerIsOwed
<1>3. ASSUME h[c].pc # "reply", h'[c].pc # "reply", UNCHANGED <<answers, meter, lost>>
      PROVE  MeterMatches'
  BY <1>0, <1>3, NothingOwed
<1>4. CASE \E p \in Products : FindProduct(c, p)
  <2>1. PICK p \in Products : FindProduct(c, p)
    BY <1>4
  <2>2. FoundStep(c, p)
    BY <2>1, FindStep
  <2>3. ~h'[c].owes
    BY <2>2, IdleType DEF FoundStep, Requests
  <2>4. QED
    BY <1>0, <2>1, <2>3, NothingOwed DEF FindProduct, books
<1>5. CASE List(c)
  <2>1. PICK f \in Orders(h[c].product) : ListedStep(c, f)
    BY <1>5, ListStep
  <2>2. h'[c].owes = h[c].owes
    BY <1>0, <2>1 DEF ListedStep, Requests
  <2>3. ~h[c].owes
    BY <1>5 DEF List, PlaceInv, Placed
  <2>4. QED
    BY <1>0, <1>5, <2>2, <2>3, NothingOwed DEF List, books
<1>6. CASE ListFails(c) \/ ReadContractFails(c)
  <2>1. "error" \in Outcomes
    BY DEF Outcomes
  <2>2. QED
    BY <1>1, <1>6, <2>1 DEF ListFails, ReadContractFails, books
<1>7. CASE TryContract(c) \/ TryContractFails(c)
  <2>1. h[c].pc = "walk" /\ UNCHANGED <<answers, meter, lost>>
    BY <1>7 DEF TryContract, TryContractFails, Walking, books
  <2>2. CASE TryContract(c) /\ Choose(c, Candidate(c), TRUE)
    <3>1. ChosenStep(c, Candidate(c), TRUE)
      BY <2>2, CandidateType, ChooseStep DEF TryContract
    <3>2. h'[c].pc = "contract"
      BY <1>0, <3>1 DEF ChosenStep, Requests
    <3>3. QED
      BY <1>3, <2>1, <3>2
  <2>3. CASE \/ Now(c, [h[c] EXCEPT !.at = @ + 1])
             \/ Now(c, [h[c] EXCEPT !.at = @ + 1, !.broken = TRUE])
    <3>1. \/ h'[c] = [h[c] EXCEPT !.at = @ + 1]
          \/ h'[c] = [h[c] EXCEPT !.at = @ + 1, !.broken = TRUE]
      BY <2>3, PassStep
    <3>2. h'[c].pc = "walk"
      BY <1>0, <2>1, <3>1 DEF Requests
    <3>3. QED
      BY <1>3, <2>1, <3>2
  <2>4. QED
    BY <1>7, <2>2, <2>3 DEF TryContract, TryContractFails
<1>8. CASE FallBack(c)
  <2>1. h[c].pc = "walk" /\ UNCHANGED <<answers, meter, lost>>
    BY <1>8 DEF FallBack, Walked, books
  <2>2. CASE Answer(c, None, "error") \/ Answer(c, None, "denied")
    <3>1. "error" \in Outcomes /\ "denied" \in Outcomes
      BY DEF Outcomes
    <3>2. QED
      BY <1>1, <2>1, <2>2, <3>1
  <2>3. CASE Choose(c, h[c].list[1], FALSE)
    <3>1. ChosenStep(c, h[c].list[1], FALSE)
      BY <2>1, <2>3, FirstType, ChooseStep
    <3>2. h'[c].pc = "contract"
      BY <1>0, <3>1 DEF ChosenStep, Requests
    <3>3. QED
      BY <1>3, <2>1, <3>2
  <2>4. QED
    BY <1>8, <2>2, <2>3 DEF FallBack
<1>9. CASE ReadContract(c)
  <2>0. h[c].pc = "contract" /\ UNCHANGED <<meter, lost>>
    BY <1>9 DEF ReadContract
  <2>1. ASSUME NEW t \in Scopes \cup {None}, AnsweredStep(c, t, "denied"),
               t = None => UNCHANGED answers,
               t # None => Book(h[c].ent.contract, "denied")
        PROVE  MeterMatches'
    <3>1. "denied" \in Outcomes
      BY DEF Outcomes
    <3>2. CASE t = None
      <4>1. ~h'[c].owes
        BY <2>1, <3>1, <3>2, AnsweredFields
      <4>2. QED
        BY <1>0, <2>0, <2>1, <3>2, <4>1, NothingOwed
    <3>3. CASE t # None
      BY <1>2, <2>0, <2>1, <3>1, <3>3
    <3>4. QED
      BY <3>2, <3>3
  <2>2. CASE /\ h'[c] = [h[c] EXCEPT !.terms = contracts[h[c].ent.contract],
                           !.pc = IF contracts[h[c].ent.contract].limit > 0 THEN "allow" ELSE "body"]
             /\ UNCHANGED answers
    <3>1. h'[c].pc \in {"allow", "body"}
      BY <1>0, <2>2 DEF Requests
    <3>2. QED
      BY <1>3, <2>0, <2>2, <3>1
  <2>3. QED
    BY <1>9, <2>1, <2>2, ReadStep
<1>10. CASE Allow(c)
  <2>0. h[c].pc = "allow" /\ h[c].terms \in Scopes /\ UNCHANGED <<meter, lost>>
    BY <1>0, <1>10 DEF Allow, PlaceInv, Placed, Requests
  <2>1. CASE Answer(c, h[c].terms, "over") /\ Book(h[c].ent.contract, "over")
    <3>1. "over" \in Outcomes
      BY DEF Outcomes
    <3>2. AnsweredStep(c, h[c].terms, "over")
      BY <2>0, <2>1, <3>1, AnswerStep
    <3>3. QED
      BY <1>2, <2>0, <2>1, <3>1, <3>2
  <2>2. CASE Now(c, [h[c] EXCEPT !.pc = "body"]) /\ UNCHANGED answers
    <3>1. h'[c].pc = "body"
      BY <1>0, <2>2, ThroughStep DEF Requests
    <3>2. QED
      BY <1>3, <2>0, <2>2, <3>1
  <2>3. QED
    BY <1>10, <2>1, <2>2 DEF Allow
<1>11. CASE Body(c)
  <2>0. h[c].pc = "body" /\ h[c].terms \in Scopes /\ UNCHANGED <<meter, lost>>
    BY <1>0, <1>11 DEF Body, PlaceInv, Placed, Requests
  <2>1. PICK outcome \in {"refused", "served"} :
          Answer(c, h[c].terms, outcome) /\ Book(h[c].ent.contract, outcome)
    BY <1>11 DEF Body
  <2>2. outcome \in Outcomes
    BY <2>1 DEF Outcomes
  <2>3. AnsweredStep(c, h[c].terms, outcome)
    BY <2>0, <2>1, <2>2, AnswerStep
  <2>4. QED
    BY <1>2, <2>0, <2>1, <2>2, <2>3
<1>12. CASE Return(c)
  <2>1. h'[c].pc # "reply" /\ ~h[c].owes
    BY <1>12, GoneStep, IdleType DEF Return
  <2>2. QED
    BY <1>0, <1>12, <2>1, NothingOwed DEF Return, books
<1>13. QED
  BY <1>4, <1>5, <1>6, <1>7, <1>8, <1>9, <1>10, <1>11, <1>12, OneIsMetered, OneIsLost DEF Handle

\* A restart loses what was still to be metered, and nothing else changes it.
LEMMA MeterStep ==
  ASSUME TypeOK, PlaceInv, MeterMatches, [Next]_vars
  PROVE  MeterMatches'
<1>1. ASSUME NEW c \in Clients, Handle(c) PROVE MeterMatches'
  BY <1>1, MeterRequest
<1>2. CASE Restart
  <2>1. \A k, kind : Owed(k, kind)' = {}
    BY <1>2, IdleType DEF Restart, Owed, At
  <2>2. \A k, kind : Cardinality(Owed(k, kind)') = 0
    BY <2>1, FS_EmptySet
  <2>3. /\ UNCHANGED <<meter, answers>>
        /\ \A k \in Contracts, kind \in Kinds :
             lost'[k][kind] = lost[k][kind] + Cardinality(Owed(k, kind))
    BY <1>2 DEF Restart
  <2>4. \A k, kind : Metered(k, kind)' = Metered(k, kind)
    BY <2>3 DEF Metered
  <2>5. ASSUME NEW k \in Contracts, NEW kind \in Kinds
        PROVE  answers'[k][kind] = lost'[k][kind] + Cardinality(Owed(k, kind)') + Metered(k, kind)'
    <3>1. answers[k][kind] = lost[k][kind] + Cardinality(Owed(k, kind)) + Metered(k, kind)
      BY DEF MeterMatches
    <3>2. QED
      BY <2>2, <2>3, <2>4, <3>1, BalanceType
  <2>6. QED
    BY <2>3, <2>5 DEF MeterMatches
<1>3. CASE UNCHANGED <<h, meter, answers, lost>>
  <2>1. \A k, kind : Owed(k, kind)' = Owed(k, kind) /\ Metered(k, kind)' = Metered(k, kind)
    BY <1>3 DEF Owed, Metered, At
  <2>2. QED
    BY <1>3, <2>1 DEF MeterMatches
<1>4. QED
  BY <1>1, <1>2, <1>3 DEF Next, Administer, CheckContract, WriteContract, CheckGrant, WriteGrant,
     SetStatus, Tick, vars, books

\* However requests overlap, fail and are cut off, the meter's row of a contract
\* counts each answer once, or it is still owed or known to be lost.
THEOREM MeterIsExact == Spec => []MeterMatches
<1>1. Init => MeterMatches
  <2> SUFFICES ASSUME Init PROVE MeterMatches
    OBVIOUS
  <2>1. \A k, kind : Owed(k, kind) = {}
    BY IdleType DEF Init, Owed, At
  <2>2. \A k, kind : Cardinality(Owed(k, kind)) = 0
    BY <2>1, FS_EmptySet
  <2>3. \A k \in Contracts, kind \in Kinds : Metered(k, kind) = 0
    BY DEF Init, Metered, Kinds
  <2>4. QED
    BY <2>2, <2>3 DEF Init, MeterMatches
<1>2. TypeOK /\ PlaceInv /\ MeterMatches /\ [Next]_vars => TypeOK' /\ PlaceInv' /\ MeterMatches'
  BY TypeStep, MeterStep
<1>3. QED
  BY <1>1, <1>2, TypeInit, PTL DEF Spec
-----------------------------------------------------------------------------
(* The limiter.                                                            *)

\* A call counts in the window of its minute, and prunes only closed windows.
LEMMA WindowsStep ==
  ASSUME TypeOK, PlaceInv, WindowInv, NEW c \in Clients, Allow(c)
  PROVE  WindowInv'
<1>1. /\ h[c].ent.contract \in Contracts /\ h[c].now \in Minutes
  BY ChosenType DEF Allow, At, TypeOK, Requests
<1>2. PICK k \in Contracts, m \in Minutes : k = h[c].ent.contract /\ m = h[c].now
  BY <1>1
<1>3. Minutes \subseteq Nat
  BY DEF Minutes
<1>4. latest \in Nat /\ latest' \in Nat /\ latest' = IF m > latest THEN m ELSE latest
  BY <1>2, <1>3, AllowType DEF TypeOK, Allow
<1>5. latest <= latest' /\ m <= latest' /\ (m < latest => latest' = latest)
      /\ (m >= latest => latest' = m)
  BY <1>3, <1>4
<1>6. late' = late \cup Disturbed(k, m)
  BY <1>2 DEF Allow
<1>7. late \subseteq late'
  BY <1>6
<1>8. m < latest =>
        <<k, m>> \in late' /\ (windows[k] # None => <<k, windows[k].start>> \in late')
  BY <1>6 DEF Disturbed
<1>9. PICK w \in Windows :
        /\ w.start = m /\ windows' = [Pruned(k, m) EXCEPT ![k] = w]
        /\ \/ w.count = Window(k, m).count + 1 /\ admitted' = [admitted EXCEPT ![k][m] = @ + 1]
           \/ w.count = Window(k, m).count /\ admitted' = admitted
  <2>1. Window(k, m) \in Windows /\ Window(k, m).start = m
    BY WindowType
  <2>2. PICK u \in Windows : u = Window(k, m)
    BY <2>1
  <2>3. CASE /\ windows' = [Pruned(k, m) EXCEPT ![k] = [u EXCEPT !.count = @ + 1]]
             /\ admitted' = [admitted EXCEPT ![k][m] = @ + 1]
    <3>1. /\ [u EXCEPT !.count = @ + 1] \in Windows /\ [u EXCEPT !.count = @ + 1].start = m
          /\ [u EXCEPT !.count = @ + 1].count = u.count + 1
      BY <2>1, <2>2 DEF Windows
    <3>2. QED
      BY <2>2, <2>3, <3>1
  <2>4. CASE windows' = [Pruned(k, m) EXCEPT ![k] = u] /\ admitted' = admitted
    BY <2>1, <2>2, <2>4
  <2>5. QED
    BY <1>2, <2>2, <2>3, <2>4 DEF Allow
<1>10. /\ windows'[k] = w /\ windows'[k] # None
       /\ \A j \in Contracts \ {k} :
            \/ windows'[j] = windows[j]
            \/ windows[j] # None /\ windows[j].start < m /\ windows'[j] = None
  <2>1. /\ Pruned(k, m) \in [Contracts -> Windows \cup {None}]
        /\ \A j \in Contracts :
             \/ Pruned(k, m)[j] = windows[j]
             \/ windows[j] # None /\ windows[j].start < m /\ Pruned(k, m)[j] = None
    BY PrunedType
  <2>2. w # None
    BY <1>9
  <2>3. QED
    BY <1>9, <2>1, <2>2
<1>11. /\ \A j \in Contracts, n \in Minutes : ~(j = k /\ n = m) => admitted'[j][n] = admitted[j][n]
       /\ \/ w.count = Window(k, m).count + 1 /\ admitted'[k][m] = admitted[k][m] + 1
          \/ w.count = Window(k, m).count /\ admitted'[k][m] = admitted[k][m]
  BY <1>9 DEF TypeOK
<1>12. admitted[k][m] \in Nat /\ Window(k, m).count \in Nat
  BY WindowType DEF TypeOK, Windows
\* Of the call's own minute.
<1>13. Counts(k, m)'
  <2>1. Window(k, m).count <= admitted[k][m]
    <3>1. CASE Opens(k, m)
      BY <1>12, <3>1, WindowType
    <3>2. CASE ~Opens(k, m)
      BY <3>2, WindowType DEF WindowInv, Counts, Opens
    <3>3. QED
      BY <3>1, <3>2
  <2>2. Window(k, m).count = admitted[k][m] \/ <<k, m>> \in late'
    <3>1. CASE m < latest
      BY <1>8, <3>1
    <3>2. CASE ~(m < latest) /\ Opens(k, m)
      BY <1>7, <1>12, <3>2, WindowType DEF WindowInv, Counts
    <3>3. CASE ~Opens(k, m)
      BY <1>7, <3>3, WindowType DEF WindowInv, Counts, Opens
    <3>4. QED
      BY <3>1, <3>2, <3>3
  <2>3. /\ windows'[k].count <= admitted'[k][m]
        /\ windows'[k].count = admitted'[k][m] \/ <<k, m>> \in late'
    BY <1>10, <1>11, <1>12, <2>1, <2>2
  <2>4. windows'[k].start = m /\ windows'[k] # None /\ m <= latest'
    BY <1>5, <1>9, <1>10
  <2>5. ~(m > latest')
    BY <1>3, <1>4, <1>5
  <2>6. QED
    BY <2>3, <2>4, <2>5 DEF Counts, Opens
\* Of its contract's other minutes.
<1>14. ASSUME NEW n \in Minutes \ {m} PROVE Counts(k, n)'
  <2>1. windows'[k].start = m /\ windows'[k] # None /\ m <= latest'
    BY <1>5, <1>9, <1>10
  <2>2. admitted'[k][n] = admitted[k][n]
    BY <1>11
  <2>3. admitted[k][n] = 0 \/ n < latest' \/ <<k, n>> \in late'
    <3>1. CASE Opens(k, n)
      <4>1. admitted[k][n] = 0 \/ n < latest \/ <<k, n>> \in late
        BY <3>1 DEF WindowInv, Counts
      <4>2. n < latest => n < latest'
        BY <1>3, <1>4, <1>5
      <4>3. QED
        BY <1>7, <4>1, <4>2
    <3>2. CASE ~Opens(k, n)
      <4>1. windows[k] # None /\ windows[k].start = n /\ n <= latest
        BY <3>2 DEF Opens, WindowInv, Counts
      <4>2. CASE m < latest
        BY <1>8, <4>1, <4>2
      <4>3. CASE ~(m < latest)
        BY <1>3, <1>4, <1>5, <4>1, <4>3
      <4>4. QED
        BY <4>2, <4>3
    <3>3. QED
      BY <3>1, <3>2
  <2>4. n > latest' => admitted[k][n] = 0
    <3>1. n > latest' => n > latest
      BY <1>3, <1>4, <1>5
    <3>2. QED
      BY <3>1 DEF WindowInv, Counts
  <2>5. QED
    BY <2>1, <2>2, <2>3, <2>4 DEF Counts, Opens
\* Of the other contracts.
<1>15. ASSUME NEW j \in Contracts \ {k}, NEW n \in Minutes PROVE Counts(j, n)'
  <2>1. admitted'[j][n] = admitted[j][n]
    BY <1>11
  <2>2. Counts(j, n)
    BY DEF WindowInv
  <2>3. n < latest => n < latest'
    BY <1>3, <1>4, <1>5
  <2>4. n > latest' => n > latest
    BY <1>3, <1>4, <1>5
  <2>5. CASE windows'[j] = windows[j]
    <3>1. windows[j] # None => windows[j].start <= latest'
      <4>1. ASSUME windows[j] # None PROVE windows[j].start \in Nat /\ windows[j].start <= latest
        BY <1>3, <2>2, <4>1 DEF TypeOK, Windows, Counts
      <4>2. QED
        BY <1>4, <1>5, <4>1
    <3>2. QED
      BY <1>7, <2>1, <2>2, <2>3, <2>4, <2>5, <3>1 DEF Counts, Opens
  <2>6. CASE windows[j] # None /\ windows[j].start < m /\ windows'[j] = None
    <3>1. admitted[j][n] = 0 \/ n < latest' \/ <<j, n>> \in late'
      <4>1. CASE windows[j].start = n
        BY <1>3, <1>4, <1>5, <2>6, <4>1
      <4>2. CASE windows[j].start # n
        BY <1>7, <2>2, <2>3, <4>2 DEF Counts, Opens
      <4>3. QED
        BY <4>1, <4>2
    <3>2. QED
      BY <2>1, <2>2, <2>4, <2>6, <3>1 DEF Counts, Opens
  <2>7. QED
    BY <1>10, <2>5, <2>6
<1>16. QED
  BY <1>13, <1>14, <1>15 DEF WindowInv

\* Nothing else touches the windows, and a restart empties them.
LEMMA LimiterStep ==
  ASSUME TypeOK, PlaceInv, WindowInv, [Next]_vars
  PROVE  WindowInv'
<1>1. ASSUME NEW c \in Clients, Allow(c) PROVE WindowInv'
  BY <1>1, WindowsStep
<1>2. CASE Restart
  <2>1. \A k \in Contracts, m \in Minutes : windows'[k] = None /\ admitted'[k][m] = 0
    BY <1>2 DEF Restart
  <2>2. QED
    BY <2>1 DEF WindowInv, Counts
<1>3. CASE UNCHANGED limiter
  BY <1>3 DEF WindowInv, Counts, Opens, limiter
<1>4. QED
  BY <1>1, <1>2, <1>3 DEF Next, Handle, FindProduct, List, ListFails, TryContract,
     TryContractFails, FallBack, ReadContract, ReadContractFails, Body, IncrementUsageMetering,
     MeteringFails, Return, Administer, CheckContract, WriteContract, CheckGrant, WriteGrant,
     SetStatus, Tick, vars

\* What the limiter answers to one call.
LEMMA AllowKeepsLimit ==
  ASSUME TypeOK, PlaceInv, WindowInv, NEW c \in Clients, Allow(c)
  PROVE  WithinLimit(c)
<1>1. /\ h[c].ent.contract \in Contracts /\ h[c].now \in Minutes /\ h[c] \in Requests
      /\ h[c].terms \in Scopes
  BY ChosenType DEF Allow, At, TypeOK, Requests, PlaceInv, Placed
<1>2. PICK k \in Contracts, m \in Minutes : k = h[c].ent.contract /\ m = h[c].now
  BY <1>1
<1>3. PICK n \in Nat : n = h[c].terms.limit
  BY <1>1 DEF Scopes
<1>4. /\ admitted[k][m] \in Nat /\ Window(k, m).count \in Nat
  BY WindowType DEF TypeOK, Windows
<1>5. Window(k, m).count <= admitted[k][m]
  <2>1. CASE Opens(k, m)
    BY <1>4, <2>1, WindowType
  <2>2. CASE ~Opens(k, m)
    BY <2>2, WindowType DEF WindowInv, Counts, Opens
  <2>3. QED
    BY <2>1, <2>2
<1>6. Window(k, m).count = admitted[k][m] \/ <<k, m>> \in late'
  <2>1. late' = late \cup Disturbed(k, m)
    BY <1>2 DEF Allow
  <2>2. CASE m < latest
    BY <2>1, <2>2 DEF Disturbed
  <2>3. CASE ~(m < latest) /\ Opens(k, m)
    BY <1>4, <2>1, <2>3, WindowType DEF WindowInv, Counts
  <2>4. CASE ~Opens(k, m)
    BY <2>1, <2>4, WindowType DEF WindowInv, Counts, Opens
  <2>5. QED
    BY <2>2, <2>3, <2>4
<1>7. CASE Window(k, m).count < n /\ Now(c, [h[c] EXCEPT !.pc = "body"])
  <2>1. h'[c].pc = "body"
    BY <1>1, <1>7, ThroughStep DEF Requests
  <2>2. QED
    BY <1>2, <1>3, <1>4, <1>6, <1>7, <2>1 DEF WithinLimit
<1>8. CASE Window(k, m).count >= n /\ Answer(c, h[c].terms, "over")
  <2>1. "over" \in Outcomes
    BY DEF Outcomes
  <2>2. AnsweredStep(c, h[c].terms, "over")
    BY <1>1, <1>8, <2>1, AnswerStep
  <2>3. h'[c].pc = "reply"
    BY <1>1, <2>1, <2>2, AnsweredFields
  <2>4. QED
    BY <1>2, <1>3, <1>4, <1>5, <1>8, <2>3 DEF WithinLimit
<1>9. QED
  BY <1>2, <1>3, <1>7, <1>8 DEF Allow

\* In every minute the limiter lets a contract's calls through up to its ceiling
\* and no further, but in a minute that a late call disturbed.
THEOREM CeilingsHold == Spec => LimitIsKept
<1>1. Init => WindowInv
  BY DEF Init, WindowInv, Counts
<1>2. TypeOK /\ PlaceInv /\ WindowInv /\ [Next]_vars => TypeOK' /\ PlaceInv' /\ WindowInv'
  BY TypeStep, LimiterStep
<1>3. TypeOK /\ PlaceInv /\ WindowInv /\ [Next]_vars => [\A c \in Clients : WithinLimit(c)]_vars
  <2> SUFFICES ASSUME TypeOK, PlaceInv, WindowInv, [Next]_vars, NEW c \in Clients,
                      At(c, "allow"), UNCHANGED vars => FALSE
               PROVE  WithinLimit(c)
    BY DEF WithinLimit
  <2>1. CASE Allow(c)
    BY <2>1, AllowKeepsLimit
  <2>2. CASE Restart
    BY <2>2, IdleType DEF Restart, WithinLimit
  <2>3. CASE h'[c] = h[c]
    BY <2>3 DEF WithinLimit, At
  <2>4. ASSUME Handle(c) PROVE Allow(c)
    BY <2>4 DEF At, Handle, FindProduct, List, ListFails, TryContract, TryContractFails, FallBack,
       Walking, Walked, ReadContract, ReadContractFails, Body, IncrementUsageMetering,
       MeteringFails, Return
  <2>5. ASSUME NEW d \in Clients \ {c}, Handle(d) PROVE h'[c] = h[c]
    BY <2>5, RequestStep
  <2>6. h' = h \/ Restart \/ \E d \in Clients : Handle(d)
    BY DEF Next, Administer, CheckContract, WriteContract, CheckGrant, WriteGrant, SetStatus,
       Tick, vars
  <2>7. QED
    BY <2>1, <2>2, <2>3, <2>4, <2>5, <2>6
<1>4. QED
  BY <1>1, <1>2, <1>3, TypeInit, PTL DEF Spec, LimitIsKept
=============================================================================
