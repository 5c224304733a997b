----------------------------- MODULE ConsoleProofs -----------------------------
(***************************************************************************)
(* Theorems about Console, for any connections, requests and bounds: what  *)
(* every write keeps and hands over; then, for venues and collections, the *)
(* names of venues stay unique, what a form about a venue was compared     *)
(* with stays stored, and a Live stays in one tour and in one group.       *)
(***************************************************************************)
EXTENDS Console, FiniteSetTheorems, SequenceTheorems, WellFoundedInduction, TLAPS

TxnType == txn = [c \in Clients |-> txn[c]]

(* Two transactions never hold locks that exclude each other. *)
LocksApart ==
    \A c, d \in Clients : c # d =>
        \A h \in txn[c].held, k \in txn[d].held : h.row = k.row => ~Conflict(h.mode, k.mode)

TxnInv == TxnType /\ LocksApart

(* Only connection c takes a step, and it takes no lock. *)
Others(c) == \A d \in Clients : d # c => txn'[d] = txn[d]
Turn(c) ==
    /\ TxnType' /\ Others(c) /\ workload' = workload
    /\ txn'[c].held = txn[c].held \/ txn'[c].held = {}
    /\ txn'[c].req \in workload \union {txn[c].req, NoRequest}

\* What the steps of Transactions leave in the connection's record.
LEMMA BeginTurn ==
    ASSUME TxnType, NEW c \in Clients, NEW req \in workload, NEW step, NEW plan,
           Begin(c, req, step, plan)
    PROVE  Turn(c) /\ txn'[c] = [at |-> step, req |-> req, seen |-> <<>>, plan |-> plan, held |-> {}]
  BY DEF TxnType, Begin, Turn, Others

LEMMA ContinueTurn ==
    ASSUME TxnType, NEW c \in Clients, NEW step, NEW seen, NEW plan, Continue(c, step, seen, plan)
    PROVE  Turn(c) /\ txn'[c] = [at |-> step, req |-> txn[c].req, seen |-> seen, plan |-> plan,
                                 held |-> txn[c].held]
  BY DEF TxnType, Continue, Turn, Others

LEMMA FinishTurn ==
    ASSUME TxnType, NEW c \in Clients, Finish(c)
    PROVE  Turn(c) /\ txn'[c] = Idle
  BY DEF TxnType, Finish, Idle, Turn, Others

LEMMA TakeTurn ==
    ASSUME TxnType, NEW c \in Clients, TakeLock(c)
    PROVE  /\ TxnType' /\ Others(c) /\ workload' = workload
           /\ txn'[c] = [at |-> txn[c].at, req |-> txn[c].req, seen |-> txn[c].seen,
                         plan |-> Tail(txn[c].plan), held |-> txn[c].held \union {Head(txn[c].plan)}]
  BY DEF TxnType, TakeLock, Others

\* Locks stay apart: a lock is taken only when nobody holds one in its way.
LEMMA TurnKeepsApart ==
    ASSUME LocksApart, NEW c \in Clients, Turn(c)
    PROVE  LocksApart'
  BY DEF LocksApart, Turn, Others

LEMMA TakeKeepsApart ==
    ASSUME TxnInv, NEW c \in Clients, TakeLock(c)
    PROVE  LocksApart'
<1> DEFINE lock == Head(txn[c].plan)
<1>1. ASSUME NEW d \in Clients, d # c, NEW k \in txn[d].held, k.row = lock.row
      PROVE  ~Conflict(k.mode, lock.mode) /\ ~Conflict(lock.mode, k.mode)
  BY <1>1 DEF TakeLock, WaitsFor, Blockers, Conflict
<1>2. Others(c) /\ txn'[c].held = txn[c].held \union {lock}
  <2>1. TxnType
    BY DEF TxnInv
  <2>2. Others(c) /\ txn'[c] = [at |-> txn[c].at, req |-> txn[c].req, seen |-> txn[c].seen,
                                plan |-> Tail(txn[c].plan), held |-> txn[c].held \union {lock}]
    BY <2>1, TakeTurn
  <2> QED
    BY <2>2
<1> HIDE DEF lock
<1>3. SUFFICES ASSUME NEW d \in Clients, NEW e \in Clients, d # e,
                      NEW h \in txn'[d].held, NEW k \in txn'[e].held, h.row = k.row
               PROVE  ~Conflict(h.mode, k.mode)
  BY DEF LocksApart
<1>4. CASE d = c /\ h = lock
  BY <1>1, <1>2, <1>3, <1>4 DEF Others
<1>5. CASE e = c /\ k = lock
  BY <1>1, <1>2, <1>3, <1>5 DEF Others
<1>6. CASE h \in txn[d].held /\ k \in txn[e].held
  BY <1>3, <1>6 DEF TxnInv, LocksApart
<1> QED
  BY <1>2, <1>3, <1>4, <1>5, <1>6 DEF Others

----------------------------------------------------------------------------
(* Finite sets in order. *)
StrictOrder(R, S) ==
    /\ \A x \in S : <<x, x>> \notin R
    /\ \A x, y, z \in S : <<x, y>> \in R /\ <<y, z>> \in R => <<x, z>> \in R
    /\ \A x, y \in S : x # y => <<x, y>> \in R \/ <<y, x>> \in R

HasLast(R, S) == \E x \in S : \A y \in S \ {x} : <<y, x>> \in R

Lines(R, S) == {s \in SetToSeqs(S) : \A i, j \in DOMAIN s : i < j => <<s[i], s[j]>> \in R}

\* A counterexample of the least size has none with one element less.
LEMMA LastExists ==
    ASSUME NEW R, NEW S, StrictOrder(R, S), IsFiniteSet(S), S # {}
    PROVE  HasLast(R, S)
<1> DEFINE Bad == {n \in Nat : \E T \in SUBSET S : T # {} /\ Cardinality(T) = n /\ ~HasLast(R, T)}
<1>1. SUFFICES ASSUME Bad # {} PROVE FALSE
  BY FS_CardinalityType DEF HasLast
<1>2. PICK n \in Bad : \A m \in Bad : ~(<<m, n>> \in OpToRel(<, Nat))
  BY <1>1, WFMin, NatLessThanWellFounded
<1>3. n \in Nat /\ \A m \in Bad : ~(m < n)
  BY <1>2 DEF OpToRel
<1>4. PICK T \in SUBSET S : T # {} /\ Cardinality(T) = n /\ ~HasLast(R, T)
  BY <1>2
<1>5. PICK x \in T : TRUE
  BY <1>4
<1> DEFINE U == T \ {x}
<1>6. IsFiniteSet(T) /\ IsFiniteSet(U) /\ Cardinality(U) = n - 1 /\ n - 1 \in Nat
  BY <1>4, <1>5, FS_Subset, FS_RemoveElement, FS_CardinalityType
<1>7. CASE U = {}
  BY <1>4, <1>5, <1>7 DEF HasLast
<1>8. CASE U # {}
  <2>1. HasLast(R, U)
    BY <1>3, <1>6, <1>8
  <2>2. PICK y \in U : \A z \in U \ {y} : <<z, y>> \in R
    BY <2>1 DEF HasLast
  <2>3. CASE <<x, y>> \in R
    BY <1>4, <2>2, <2>3 DEF HasLast
  <2>4. CASE <<y, x>> \in R
    <3>1. \A z \in T \ {x} : <<z, x>> \in R
      BY <1>5, <2>2, <2>4 DEF StrictOrder
    <3> QED
      BY <1>4, <1>5, <3>1 DEF HasLast
  <2> QED
    BY <1>5, <2>2, <2>3, <2>4 DEF StrictOrder
<1> QED
  BY <1>7, <1>8

\* The last element goes behind the others in line.
LEMMA LineExists ==
    ASSUME NEW R, NEW S, StrictOrder(R, S), IsFiniteSet(S)
    PROVE  Lines(R, S) # {}
<1> DEFINE Bad == {n \in Nat : \E T \in SUBSET S : Cardinality(T) = n /\ Lines(R, T) = {}}
<1>1. SUFFICES ASSUME Bad # {} PROVE FALSE
  BY FS_CardinalityType
<1>2. PICK n \in Bad : \A m \in Bad : ~(<<m, n>> \in OpToRel(<, Nat))
  BY <1>1, WFMin, NatLessThanWellFounded
<1>3. n \in Nat /\ \A m \in Bad : ~(m < n)
  BY <1>2 DEF OpToRel
<1>4. PICK T \in SUBSET S : Cardinality(T) = n /\ Lines(R, T) = {}
  BY <1>2
<1>5. IsFiniteSet(T) /\ StrictOrder(R, T)
  BY FS_Subset DEF StrictOrder
<1>6. CASE T = {}
  <2> DEFINE s == [i \in 1..0 |-> i]
  <2>1. n = 0
    BY <1>4, <1>6, FS_EmptySet
  <2>2. 1..0 = {} /\ Cardinality(T) = 0
    BY <1>4, <2>1
  <2>3. s \in [1..0 -> T] /\ DOMAIN s = {}
    BY <2>2
  <2>4. s \in SetToSeqs(T)
    BY <2>2, <2>3 DEF SetToSeqs
  <2>5. s \in Lines(R, T)
    BY <2>3, <2>4 DEF Lines
  <2> QED
    BY <1>4, <2>5
<1>7. CASE T # {}
  <2>1. PICK x \in T : \A y \in T \ {x} : <<y, x>> \in R
    BY <1>5, <1>7, LastExists DEF HasLast
  <2> DEFINE U == T \ {x}
  <2>2. Cardinality(U) = n - 1 /\ n - 1 \in Nat
    <3>1. IsFiniteSet(T) /\ IsFiniteSet(U) /\ x \in T /\ Cardinality(T) = n
      BY <1>4, <1>5, FS_Subset
    <3> QED
      BY <3>1, FS_RemoveElement, FS_CardinalityType
  <2>3. Lines(R, U) # {}
    BY <1>3, <2>2
  <2>4. PICK s : s \in Lines(R, U)
    BY <2>3
  <2>5. /\ s \in [1..(n - 1) -> U] /\ \A i, j \in 1..(n - 1) : i # j => s[i] # s[j]
        /\ \A i, j \in 1..(n - 1) : i < j => <<s[i], s[j]>> \in R
    BY <2>2, <2>4 DEF Lines, SetToSeqs
  <2> DEFINE t == [i \in 1..n |-> IF i = n THEN x ELSE s[i]]
  <2>6. t \in [1..n -> T]
    BY <1>3, <2>1, <2>5
  <2>7. \A i, j \in 1..n : i # j => t[i] # t[j]
    BY <1>3, <2>2, <2>5
  <2>8. \A i, j \in 1..n : i < j => <<t[i], t[j]>> \in R
    BY <1>3, <2>1, <2>2, <2>5
  <2>9. t \in Lines(R, T)
    BY <1>4, <2>6, <2>7, <2>8 DEF Lines, SetToSeqs
  <2> QED
    BY <1>4, <2>9
<1> QED
  BY <1>6, <1>7

\* A line of distinct elements is as long as its set is large and misses none.
LEMMA LineOnto ==
    ASSUME NEW S, IsFiniteSet(S), NEW s \in SetToSeqs(S)
    PROVE  /\ s \in Seq(S) /\ Len(s) = Cardinality(S) /\ Cardinality(S) \in Nat
           /\ DOMAIN s = 1..Len(s)
           /\ \A i, j \in DOMAIN s : s[i] = s[j] => i = j
           /\ \A x \in S : \E i \in DOMAIN s : s[i] = x
<1>1. Cardinality(S) \in Nat
  BY FS_CardinalityType
<1> DEFINE n == Cardinality(S)
<1>2. s \in [1..n -> S] /\ \A i, j \in 1..n : i # j => s[i] # s[j]
  BY DEF SetToSeqs
<1>3. s \in Seq(S) /\ Len(s) = n /\ DOMAIN s = 1..n
  BY <1>1, <1>2
<1> DEFINE T == {s[i] : i \in 1..n}
<1>4. Cardinality(T) = n
  <2>1. IsFiniteSet(1..n) /\ Cardinality(1..n) = n
    BY <1>1, FS_Interval
  <2>2. s \in Bijection(1..n, T)
    BY <1>2 DEF Bijection, Injection, Surjection, IsInjective
  <2>3. ExistsBijection(1..n, T)
    BY <2>2 DEF ExistsBijection
  <2> QED
    BY <2>1, <2>3, FS_Bijection
<1>5. T = S
  BY <1>2, <1>4, FS_Subset
<1> QED
  BY <1>1, <1>2, <1>3, <1>5

\* What Sorted chooses.
LEMMA SortedFacts ==
    ASSUME NEW S, NEW R, IsFiniteSet(S), StrictOrder(R, S)
    PROVE  Sorted(S, R) \in SetToSeqs(S)
<1>1. PICK s : s \in SetToSeqs(S) /\ \A i, j \in DOMAIN s : i < j => <<s[i], s[j]>> \in R
  BY LineExists DEF Lines
<1>2. DOMAIN s = 1..Len(s) /\ s \in Seq(S)
  BY <1>1, LineOnto
<1>3. ASSUME NEW i \in DOMAIN s, NEW j \in DOMAIN s, i < j PROVE <<s[j], s[i]>> \notin R
  <2>1. s[i] \in S /\ s[j] \in S /\ <<s[i], s[j]>> \in R
    BY <1>1, <1>2, <1>3
  <2> QED
    BY <2>1 DEF StrictOrder
<1> QED
  BY <1>1, <1>3 DEF Sorted

LEMMA InOrderFacts ==
    ASSUME NEW ids \in SUBSET Nat, IsFiniteSet(ids)
    PROVE  InOrder(ids) \in SetToSeqs(ids)
<1> DEFINE R == {p \in ids \X ids : p[1] < p[2]}
<1>1. StrictOrder(R, ids)
  BY DEF StrictOrder
<1> QED
  BY <1>1, SortedFacts DEF InOrder

LEMMA FirstInOrder ==
    ASSUME NEW ids \in SUBSET Nat, IsFiniteSet(ids), ids # {}
    PROVE  InOrder(ids)[1] \in ids
<1>1. PICK s : s = InOrder(ids) /\ s \in SetToSeqs(ids)
  BY InOrderFacts
<1>2. s \in Seq(ids) /\ Len(s) = Cardinality(ids) /\ Cardinality(ids) \in Nat
  BY <1>1, LineOnto
<1>3. Cardinality(ids) # 0
  BY FS_EmptySet
<1>4. s[1] \in ids
  BY <1>2, <1>3
<1> QED
  BY <1>1, <1>4

LEMMA MaxFacts ==
    ASSUME NEW S \in SUBSET Nat, IsFiniteSet(S), S # {}
    PROVE  Max(S) \in S /\ \A x \in S : x <= Max(S)
<1> DEFINE R == {p \in S \X S : p[1] < p[2]}
<1>1. StrictOrder(R, S)
  BY DEF StrictOrder
<1>2. PICK x \in S : \A y \in S \ {x} : <<y, x>> \in R
  BY <1>1, LastExists DEF HasLast
<1>3. ASSUME NEW y \in S PROVE x >= y
  <2>1. y # x => y < x
    BY <1>2
  <2> QED
    BY <2>1
<1> QED
  BY <1>3 DEF Max

----------------------------------------------------------------------------
\* A plan is a sequence; the transaction holds a lock, or will before its next step.
Listed(plan) == plan \in Seq(Range(plan))
Awaits(t, lock) == lock \in t.held \/ \E i \in DOMAIN t.plan : t.plan[i] = lock

LEMMA ListedFacts ==
    ASSUME NEW S, NEW plan \in Seq(S)
    PROVE  Listed(plan) /\ DOMAIN plan = 1..Len(plan)
<1>1. plan \in [1..Len(plan) -> Range(plan)] /\ Len(plan) \in Nat
  BY DEF Range
<1> QED
  BY <1>1 DEF Listed

LEMMA ShortPlans == Listed(<<>>) /\ \A lock : Listed(<<lock>>) /\ <<lock>>[1] = lock /\ 1 \in DOMAIN <<lock>>
<1>1. ASSUME NEW lock PROVE Listed(<<lock>>)
  <2>1. <<lock>> \in Seq({lock})
    OBVIOUS
  <2> QED
    BY <2>1, ListedFacts
<1>2. Listed(<<>>)
  <2>1. <<>> \in Seq({0})
    OBVIOUS
  <2> QED
    BY <2>1, ListedFacts
<1>3. \A lock : <<lock>>[1] = lock /\ 1 \in DOMAIN <<lock>>
  OBVIOUS
<1> QED
  BY <1>1, <1>2, <1>3

LEMMA PlansJoined ==
    ASSUME NEW p, NEW q, NEW joined, Listed(p), Listed(q), joined = p \o q
    PROVE  Listed(joined)
<1>1. PICK S : S = Range(p) \union Range(q)
  OBVIOUS
<1>2. p \in Seq(S) /\ q \in Seq(S)
  BY <1>1 DEF Listed
<1>3. joined \in Seq(S)
  BY <1>2
<1> QED
  BY <1>3, ListedFacts

LEMMA TakenAwaits ==
    ASSUME TxnType, NEW c \in Clients, TakeLock(c), Listed(txn[c].plan)
    PROVE  Listed(txn'[c].plan) /\ \A lock : Awaits(txn[c], lock) => Awaits(txn'[c], lock)
<1>1. PICK p, S : p = txn[c].plan /\ S = Range(p) /\ p \in Seq(S) /\ p # <<>>
  BY DEF Listed, TakeLock
<1>2. txn'[c].plan = Tail(p) /\ txn'[c].held = txn[c].held \union {Head(p)}
  <2>1. txn'[c] = [at |-> txn[c].at, req |-> txn[c].req, seen |-> txn[c].seen,
                   plan |-> Tail(txn[c].plan), held |-> txn[c].held \union {Head(txn[c].plan)}]
    BY TakeTurn
  <2> QED
    BY <1>1, <2>1
<1>3. /\ Tail(p) \in Seq(S) /\ Head(p) = p[1] /\ Len(p) \in Nat \ {0}
      /\ DOMAIN p = 1..Len(p) /\ DOMAIN Tail(p) = 1..(Len(p) - 1)
      /\ \A i \in 1..(Len(p) - 1) : Tail(p)[i] = p[i + 1]
  <2>0. p \in Seq(S) /\ Len(p) \in Nat \ {0}
    BY <1>1, EmptySeq
  <2>1. Tail(p) \in Seq(S) /\ Len(Tail(p)) = Len(p) - 1
    BY <1>1, HeadTailProperties
  <2>3. Head(p) = p[1]
    BY <2>0
  <2>2. \A i \in 1..(Len(p) - 1) : Tail(p)[i] = p[i + 1]
    BY <2>0, <2>1
  <2> QED
    BY <2>0, <2>1, <2>2, <2>3
<1>4. ASSUME NEW lock, NEW i \in DOMAIN p, p[i] = lock PROVE Awaits(txn'[c], lock)
  <2>1. CASE i = 1
    BY <1>2, <1>3, <1>4, <2>1 DEF Awaits
  <2>2. CASE i # 1
    <3>1. i - 1 \in 1..(Len(p) - 1) /\ Tail(p)[i - 1] = lock
      BY <1>1, <1>3, <1>4, <2>2
    <3> QED
      BY <1>2, <1>3, <3>1 DEF Awaits
  <2> QED
    BY <2>1, <2>2
<1>5. \A lock : Awaits(txn[c], lock) => Awaits(txn'[c], lock)
  BY <1>1, <1>2, <1>4 DEF Awaits
<1> QED
  BY <1>2, <1>3, <1>5, ListedFacts

\* Locks in the order of ids.
LEMMA InOrderListed ==
    ASSUME NEW ids \in SUBSET Nat, IsFiniteSet(ids), NEW plan, NEW row, DOMAIN plan = DOMAIN InOrder(ids),
           \A i \in DOMAIN plan : plan[i] = row[InOrder(ids)[i]], plan = [i \in DOMAIN plan |-> plan[i]]
    PROVE  Listed(plan) /\ \A x \in ids : \E i \in DOMAIN plan : plan[i] = row[x]
<1>1. PICK s : s = InOrder(ids) /\ s \in SetToSeqs(ids)
  BY InOrderFacts
<1>2. s \in Seq(ids) /\ DOMAIN s = 1..Len(s) /\ \A x \in ids : \E i \in DOMAIN s : s[i] = x
  BY <1>1, LineOnto
<1>3. plan \in Seq(Range(plan))
  <2>1. plan \in [1..Len(s) -> Range(plan)] /\ Len(s) \in Nat
    BY <1>1, <1>2 DEF Range
  <2> QED
    BY <2>1
<1> QED
  BY <1>1, <1>2, <1>3 DEF Listed


----------------------------------------------------------------------------
OfKinds(t, kinds) == t.req.kind \in kinds \union {"none"}

LEMMA BeginKind ==
    ASSUME TxnType, NEW c \in Clients, NEW req \in workload, NEW step, NEW plan, NEW kinds,
           Begin(c, req, step, plan), req.kind \in kinds
    PROVE  Turn(c) /\ OfKinds(txn'[c], kinds)
<1>1. Turn(c) /\ txn'[c] = [at |-> step, req |-> req, seen |-> <<>>, plan |-> plan, held |-> {}]
  BY BeginTurn
<1> QED
  BY <1>1 DEF OfKinds

LEMMA ContinueKind ==
    ASSUME TxnType, NEW c \in Clients, NEW step, NEW seen, NEW plan, NEW kinds,
           Continue(c, step, seen, plan), txn[c].req.kind \in kinds
    PROVE  Turn(c) /\ OfKinds(txn'[c], kinds)
<1>1. Turn(c) /\ txn'[c] = [at |-> step, req |-> txn[c].req, seen |-> seen, plan |-> plan, held |-> txn[c].held]
  BY ContinueTurn
<1> QED
  BY <1>1 DEF OfKinds

LEMMA FinishKind ==
    ASSUME TxnType, NEW c \in Clients, NEW kinds, Finish(c)
    PROVE  Turn(c) /\ OfKinds(txn'[c], kinds)
<1>1. Turn(c) /\ txn'[c] = Idle
  BY FinishTurn
<1> QED
  BY <1>1 DEF OfKinds, Idle, NoRequest

LEMMA CollectionTurn ==
    ASSUME TxnType, NEW c \in Clients,
           (\E req \in workload : CollectionStart(c, req)) \/ CollectionStep(c)
    PROVE  Turn(c) /\ OfKinds(txn'[c], CollectionKinds)
<1> USE BeginKind, ContinueKind, FinishKind DEF CollectionKinds, BeginInserts
<1>1. CASE \E req \in workload : StartCreateCollection(c, req)
  BY <1>1 DEF StartCreateCollection
<1>2. CASE \E req \in workload : StartUpdateCollection(c, req)
  BY <1>2 DEF StartUpdateCollection
<1>3. CASE ValidateTour(c)
  BY <1>3 DEF ValidateTour, Ready
<1>4. CASE ValidateGroup(c)
  BY <1>4 DEF ValidateGroup, Ready
<1>5. CASE InsertRelation(c)
  BY <1>5 DEF InsertRelation, Ready
<1>6. CASE StoreCollection(c)
  BY <1>6 DEF StoreCollection, Ready
<1> QED
  BY <1>1, <1>2, <1>3, <1>4, <1>5, <1>6 DEF CollectionStart, CollectionStep

VenueKinds ==
    {"create_venue", "update_venue", "rename_venue", "create_locality", "save_locality"} \union FormKinds

LEMMA VenueTurn ==
    ASSUME TxnType, NEW c \in Clients,
           (\E req \in workload : VenueStart(c, req)) \/ VenueStep(c)
    PROVE  Turn(c) /\ OfKinds(txn'[c], VenueKinds)
<1> USE BeginKind, ContinueKind, FinishKind DEF VenueKinds, FormKinds
<1>1. CASE \E req \in workload : StartCreateVenue(c, req)
  BY <1>1 DEF StartCreateVenue
<1>2. CASE \E req \in workload : StartUpdateVenue(c, req)
  BY <1>2 DEF StartUpdateVenue
<1>3. CASE \E req \in workload : StartRename(c, req)
  BY <1>3 DEF StartRename
<1>4. CASE \E req \in workload : OpenVenueForm(c, req)
  BY <1>4 DEF OpenVenueForm
<1>5. CASE \E req \in workload : StartCreateLocality(c, req)
  BY <1>5 DEF StartCreateLocality
<1>6. CASE CheckNewVenue(c)
  BY <1>6 DEF CheckNewVenue, Ready
<1>7. CASE InsertVenue(c)
  BY <1>7 DEF InsertVenue, Ready
<1>8. CASE StoreVenueKind(c)
  BY <1>8 DEF StoreVenueKind, Ready
<1>9. CASE LockNameRegistry(c)
  BY <1>9 DEF LockNameRegistry, Ready
<1>10. CASE CheckNewName(c)
  BY <1>10 DEF CheckNewName, Ready
<1>11. CASE StoreRename(c)
  BY <1>11 DEF StoreRename, Ready
<1>12. CASE SendVenueForm(c)
  BY <1>12 DEF SendVenueForm, Ready
<1>13. CASE ValidatePlace(c)
  BY <1>13 DEF ValidatePlace, Ready
<1>14. CASE StorePlace(c)
  BY <1>14 DEF StorePlace, Ready
<1>15. CASE SaveMapLink(c)
  BY <1>15 DEF SaveMapLink, Ready
<1>16. CASE DeleteMapLink(c)
  BY <1>16 DEF DeleteMapLink, Ready
<1>17. CASE CheckNewLocality(c)
  BY <1>17 DEF CheckNewLocality, Ready
<1>18. CASE InsertLocality(c)
  BY <1>18 DEF InsertLocality, Ready
<1>19. CASE SendLocalityForm(c)
  BY <1>19 DEF SendLocalityForm, Ready
<1>20. CASE ValidateLocality(c)
  BY <1>20 DEF ValidateLocality, Ready
<1>21. CASE StoreLocality(c)
  BY <1>21 DEF StoreLocality, Ready
<1> QED
  BY <1>1, <1>2, <1>3, <1>4, <1>5, <1>6, <1>7, <1>8, <1>9, <1>10, <1>11, <1>12, <1>13, <1>14, <1>15, <1>16, <1>17, <1>18, <1>19, <1>20, <1>21 DEF VenueStart, VenueStep

SongKinds == {"create_song_group", "create_groups_batch", "create_album"} \union SongForms

LEMMA SongTurn ==
    ASSUME TxnType, NEW c \in Clients,
           (\E req \in workload : SongStart(c, req)) \/ SongStep(c)
    PROVE  Turn(c) /\ OfKinds(txn'[c], SongKinds)
<1> USE BeginKind, ContinueKind, FinishKind DEF SongKinds, SongForms, GroupCreations, AlbumForms
<1>1. CASE \E req \in workload : OpenCatalogForm(c, req)
  BY <1>1 DEF OpenCatalogForm
<1>2. CASE \E req \in workload : StartCreateGroups(c, req)
  BY <1>2 DEF StartCreateGroups
<1>3. CASE \E req \in workload : StartCreateAlbum(c, req)
  BY <1>3 DEF StartCreateAlbum
<1>4. CASE SendNewVersion(c)
  BY <1>4 DEF SendNewVersion, Ready
<1>5. CASE StoreNewVersion(c)
  BY <1>5 DEF StoreNewVersion, Ready
<1>6. CASE SendVersionForm(c)
  BY <1>6 DEF SendVersionForm, Ready
<1>7. CASE UpdateVersion(c)
  BY <1>7 DEF UpdateVersion, Ready
<1>8. CASE CorrectOwnership(c)
  BY <1>8 DEF CorrectOwnership, Ready
<1>9. CASE BeginItems(c)
  BY <1>9 DEF BeginItems, Ready
<1>10. CASE StoreGroups(c)
  BY <1>10 DEF StoreGroups, Ready
<1>11. CASE SendGroupForm(c)
  BY <1>11 DEF SendGroupForm, Ready
<1>12. CASE LockGroupSongs(c)
  BY <1>12 DEF LockGroupSongs, Ready
<1>13. CASE UpdateGroup(c)
  BY <1>13 DEF UpdateGroup, Ready
<1>14. CASE SendMove(c)
  BY <1>14 DEF SendMove, Ready
<1>15. CASE ReadSource(c)
  BY <1>15 DEF ReadSource, Ready
<1>16. CASE LockMovedSong(c)
  BY <1>16 DEF LockMovedSong, Ready
<1>17. CASE MoveGroup(c)
  BY <1>17 DEF MoveGroup, Ready
<1>18. CASE SendEdit(c)
  BY <1>18 DEF SendEdit, Ready
<1>19. CASE LockEditedSongs(c)
  BY <1>19 DEF LockEditedSongs, Ready
<1>20. CASE EditSong(c)
  BY <1>20 DEF EditSong, Ready
<1>21. CASE InsertAlbum(c)
  BY <1>21 DEF InsertAlbum, Ready
<1>22. CASE SendAlbumForm(c)
  BY <1>22 DEF SendAlbumForm, Ready
<1>23. CASE ReadAlbum(c)
  BY <1>23 DEF ReadAlbum, Ready
<1>24. CASE SaveAlbum(c)
  BY <1>24 DEF SaveAlbum, Ready
<1>25. CASE FindDefaultVersion(c)
  BY <1>25 DEF FindDefaultVersion, Ready
<1>26. CASE CheckAlbum(c)
  BY <1>26 DEF CheckAlbum, Ready
<1> QED
  BY <1>1, <1>2, <1>3, <1>4, <1>5, <1>6, <1>7, <1>8, <1>9, <1>10, <1>11, <1>12, <1>13, <1>14, <1>15, <1>16, <1>17, <1>18, <1>19, <1>20, <1>21, <1>22, <1>23, <1>24, <1>25, <1>26 DEF SongStart, SongStep

----------------------------------------------------------------------------
(* Lives: what the tables hold, and what a transaction may rely on. *)
LiveTypeOK ==
    /\ live \in [Lives -> LiveRow]
    /\ setlist \in [Lives -> SUBSET Performance]
    /\ context \in [Lives -> [Bands -> Context]]
    /\ names \in [Bands -> Seq(Names)]
    /\ lineups \in [Bands -> Seq(Lives \union {0})]

Requests ==
    /\ \A r \in workload : LiveRequest(r)
    /\ \A c \in Clients : LiveRequest(txn[c].req)

(* Contexts name versions that exist; what does not exist has none. *)
ContextsKnown ==
    /\ \A l \in Lives, b \in Bands : context[l][b].next <= Len(lineups[b])
    /\ \A l \in Lives : ~Exists(l) => \A b \in Bands : context[l][b] = NoContext
    /\ \A b \in Bands : ~Created(b) => lineups[b] = <<>>

LiveState ==
    /\ LiveTypeOK /\ ContextsKnown
    /\ SetlistKeepsItsDay /\ PerformancesHaveContext /\ CreatedNamesDiffer

HasOrTakes(t, lock) == t.plan = <<lock>> \/ lock \in t.held

(* Contexts for these bands that keep the old ones. *)
Resolves(new, old, bands) ==
    /\ new \in [Bands -> Context]
    /\ \A b \in Bands : new[b] # NoContext <=> b \in bands
    /\ \A b \in bands : IF old[b] # NoContext THEN new[b] = old[b] ELSE new[b].next = 0

(* The contexts a setlist will be stored with, and what its rows ask of them. *)
Extends(new, old) ==
    /\ new \in [Bands -> Context]
    /\ \A b \in Bands : IF old[b] # NoContext THEN new[b] = old[b] ELSE new[b].next = 0

RowsAllowed(l, performances, contexts) ==
    \A p \in performances :
        /\ contexts[p.band] # NoContext
        /\ p.usage = "next" => MayUseNext(l, p.band, contexts) /\ contexts[p.band].next <= Len(lineups[p.band])

StoredContexts(c) == IF txn[c].seen.added THEN txn[c].seen.contexts ELSE context[txn[c].req.live]

UpdateSound(c) ==
    LET t == txn[c]  l == t.req.live IN
    t.req.kind = "update_live" =>
        /\ t.at = "check" => HasOrTakes(t, LiveRowLock(l))
        /\ t.at = "store" =>
              /\ LiveRowLock(l) \in t.held /\ Exists(l)
              /\ t.seen.kept <=> setlist[l] # {}
              /\ setlist[l] # {} => t.req.day = live[l].day /\ t.req.status # "cancelled"
              /\ setlist[l] = {} => Resolves(t.seen.contexts, context[l], t.req.bands)

SetlistSound(c) ==
    LET t == txn[c]  l == t.req.live IN
    t.req.kind \in SetlistKinds =>
        /\ t.at = "check" => HasOrTakes(t, LiveRowLock(l))
        /\ t.at = "store" =>
              /\ LiveRowLock(l) \in t.held /\ SetlistAllowed(l)
              /\ Extends(StoredContexts(c), context[l])
              /\ RowsAllowed(l, Performances(t.req.rows), StoredContexts(c))

CreateSound(c) ==
    txn[c].req.kind = "create_live" /\ txn[c].at = "store" =>
        Resolves(txn[c].seen.contexts, [b \in Bands |-> NoContext], txn[c].req.bands)

\* What was found of a Live: it takes place, and the band plays there.
Playing(found, b) ==
    /\ found[1].status \notin {"none", "cancelled"}
    /\ b \in IF found[2] = {} THEN found[1].bands ELSE {p.band : p \in found[2]}

HandoverSound(c) ==
    LET t == txn[c]  b == t.req.band  l == t.req.live IN
    t.req.kind = "create_lineup_version" =>
        /\ t.at = "open" => HasOrTakes(t, BandLock(b))
        /\ t.at \in {"check", "store"} =>
              BandLock(b) \in t.held /\ Created(b) /\ t.seen.open = Len(lineups[b])
        /\ t.at = "store" /\ l # 0 =>
              /\ HasOrTakes(t, LiveKey(l)) /\ l \in Lives
              /\ Exists(l) /\ context[l][b].next = 0 /\ Playing(t.seen.found, b)

BandIds == Lock("update", <<"band ids">>)
BandSound(c) ==
    LET t == txn[c] IN
    t.req.kind = "create_band" =>
        /\ t.at = "allocate" => HasOrTakes(t, BandIds)
        /\ t.at = "store" => BandIds \in t.held /\ \A b \in Bands : Created(b) => names[b][1] # t.req.name

NameSound(c) ==
    LET t == txn[c] IN t.req.kind = "create_name_version" /\ t.at = "store" => Created(t.req.band)

Sound(c) ==
    UpdateSound(c) /\ SetlistSound(c) /\ CreateSound(c) /\ HandoverSound(c) /\ BandSound(c) /\ NameSound(c)

ConsoleInv == TxnInv /\ Requests /\ LiveState /\ \A c \in Clients : Sound(c)

(* What a step leaves to a transaction that holds these locks. *)
Rely(held) ==
    /\ \A l \in Lives : Exists(l) =>
          /\ Exists(l)'
          /\ LiveRowLock(l) \in held =>
                live'[l] = live[l] /\ setlist'[l] = setlist[l] /\ context'[l] = context[l]
    /\ \A b \in Bands :
          /\ Created(b) => Created(b)'
          /\ Len(lineups[b]) <= Len(lineups'[b])
          /\ \A i \in 1..Len(lineups[b]) : lineups'[b][i] = lineups[b][i]
          /\ Created(b) /\ BandLock(b) \in held =>
                /\ lineups'[b] = lineups[b]
                /\ \A l \in Lives : context[l][b].next = 0 => context'[l][b].next = 0
    /\ BandIds \in held =>
          \A b \in Bands : Created(b)' => Created(b) /\ names'[b][1] = names[b][1]

\* The performances of a request.
LEMMA PerformancesKnown ==
    ASSUME NEW r, LiveRequest(r), r.kind \in SetlistKinds
    PROVE  Performances(r.rows) \subseteq Performance
<1>1. r.rows \in Seq(SetlistRow)
  BY DEF LiveRequest
<1>2. \A i \in DOMAIN r.rows : r.rows[i] \in SetlistRow
  BY <1>1
<1>3. \A i \in DOMAIN r.rows : r.rows[i].performances \subseteq Performance
  BY <1>2 DEF SetlistRow
<1> QED
  BY <1>3 DEF Performances

\* A transaction that does not move stays sound.
LEMMA SoundStays ==
    ASSUME ConsoleInv, NEW d \in Clients, txn'[d] = txn[d], Rely(txn[d].held), LiveTypeOK'
    PROVE  Sound(d)'
<1>1. Sound(d) /\ LiveTypeOK /\ LiveRequest(txn[d].req)
  BY DEF ConsoleInv, LiveState, Requests
<1>2. UpdateSound(d)'
  BY <1>1 DEF Sound, UpdateSound, Rely, HasOrTakes, LiveRequest, Exists
<1>3. SetlistSound(d)'
  <2>1. CASE txn[d].req.kind \in SetlistKinds /\ txn[d].at = "store"
    <3> DEFINE l == txn[d].req.live
               rows == Performances(txn[d].req.rows)
    <3>1. /\ l \in Lives /\ LiveRowLock(l) \in txn[d].held /\ SetlistAllowed(l)
          /\ Extends(StoredContexts(d), context[l])
          /\ RowsAllowed(l, rows, StoredContexts(d)) /\ rows \subseteq Performance
      BY <1>1, <2>1, PerformancesKnown DEF Sound, SetlistSound, LiveRequest
    <3>2. live'[l] = live[l] /\ context'[l] = context[l] /\ Exists(l)'
      BY <3>1 DEF Rely, SetlistAllowed
    <3>3. StoredContexts(d)' = StoredContexts(d)
      BY <3>2 DEF StoredContexts
    <3> HIDE DEF rows
    <3>4. RowsAllowed(l, rows, StoredContexts(d))'
      <4>1. SUFFICES ASSUME NEW p \in rows
                     PROVE  /\ StoredContexts(d)[p.band] # NoContext
                            /\ p.usage = "next" =>
                                  /\ MayUseNext(l, p.band, StoredContexts(d))'
                                  /\ StoredContexts(d)[p.band].next <= Len(lineups'[p.band])
        BY <3>3 DEF RowsAllowed, rows
      <4>2. p.band \in Bands
        BY <3>1 DEF Performance
      <4>3. StoredContexts(d)[p.band].next \in Nat
        BY <3>1, <4>2 DEF Extends, Context
      <4>4. /\ StoredContexts(d)[p.band] # NoContext
            /\ p.usage = "next" =>
                  /\ MayUseNext(l, p.band, StoredContexts(d))
                  /\ StoredContexts(d)[p.band].next <= Len(lineups[p.band])
        BY <3>1 DEF RowsAllowed
      <4>5. Len(lineups[p.band]) \in Nat /\ Len(lineups'[p.band]) \in Nat
        BY <4>2, <1>1 DEF LiveTypeOK
      <4> QED
        BY <3>3, <4>2, <4>3, <4>4, <4>5 DEF MayUseNext, Rely
    <3> QED
      BY <2>1, <3>1, <3>2, <3>3, <3>4 DEF SetlistSound, SetlistAllowed, Extends, SetlistKinds, rows
  <2>2. CASE ~(txn[d].req.kind \in SetlistKinds /\ txn[d].at = "store")
    BY <1>1, <2>2 DEF Sound, SetlistSound, HasOrTakes, SetlistKinds
  <2> QED
    BY <2>1, <2>2
<1>4. CreateSound(d)'
  BY <1>1 DEF Sound, CreateSound
<1>5. HandoverSound(d)'
  BY <1>1 DEF Sound, HandoverSound, Rely, HasOrTakes, LiveRequest, BandLock
<1>6. BandSound(d)'
  BY <1>1 DEF Sound, BandSound, Rely, HasOrTakes
<1>7. NameSound(d)'
  BY <1>1 DEF Sound, NameSound, Rely, LiveRequest
<1> QED
  BY <1>2, <1>3, <1>4, <1>5, <1>6, <1>7 DEF Sound

----------------------------------------------------------------------------
(* One step of connection c, as ConsoleInv sees it. *)
LiveTables == <<live, setlist, context, names, lineups>>

\* The two step properties, with the tables of Lives as they are.
HandoverKept ==
    \A l \in Lives, b \in Bands :
        context[l][b].next # 0 => context'[l][b].next = context[l][b].next \/ b \notin live'[l].bands

Lawful == (Policy!PolicyNext \/ LateHandover \/ UNCHANGED <<live, setlist, context>>) /\ HandoverKept

LEMMA Frame ==
    ASSUME ConsoleInv, NEW c \in Clients, TxnType', LocksApart', Others(c), workload' = workload,
           txn'[c].req \in workload \union {txn[c].req, NoRequest}, LiveState', Sound(c)',
           \A d \in Clients : d # c => Rely(txn[d].held)
    PROVE  ConsoleInv'
<1>1. LiveTypeOK'
  BY DEF LiveState
<1>2. \A d \in Clients : Sound(d)'
  <2>1. SUFFICES ASSUME NEW d \in Clients, d # c PROVE Sound(d)'
    OBVIOUS
  <2>2. txn'[d] = txn[d] /\ Rely(txn[d].held)
    BY <2>1 DEF Others
  <2> QED
    BY <1>1, <2>2, SoundStays
<1>3. LiveRequest(NoRequest)
  BY DEF LiveRequest, NoRequest, SetlistKinds
<1>4. Requests'
  <2>1. Requests
    BY DEF ConsoleInv
  <2>2. \A d \in Clients : LiveRequest(txn'[d].req)
    BY <1>3, <2>1 DEF Requests, Others
  <2> QED
    BY <2>1, <2>2 DEF Requests, LiveRequest
<1> QED
  BY <1>2, <1>4 DEF ConsoleInv, TxnInv

LEMMA QuietTables ==
    ASSUME ConsoleInv, UNCHANGED LiveTables
    PROVE  LiveState' /\ Lawful /\ \A held : Rely(held)
<1>1. LiveState /\ LiveTypeOK /\ UNCHANGED <<live, setlist, context, names, lineups>>
  BY DEF ConsoleInv, LiveState, LiveTables
<1>2. LiveState'
  BY <1>1 DEF LiveState, LiveTypeOK, ContextsKnown, SetlistKeepsItsDay, PerformancesHaveContext,
              CreatedNamesDiffer, Exists, Created, SetlistAllowed, HasContext, MayUseNext
<1>3. Lawful
  BY <1>1 DEF Lawful, HandoverKept
<1>4. ASSUME NEW held PROVE Rely(held)
  <2>1. \A b \in Bands : Len(lineups[b]) \in Nat
    BY <1>1 DEF LiveTypeOK
  <2> QED
    BY <1>1, <2>1 DEF Rely, Exists, Created
<1> QED
  BY <1>2, <1>3, <1>4

\* A step that leaves the tables of Lives alone.
LEMMA QuietTurn ==
    ASSUME ConsoleInv, NEW c \in Clients, Turn(c), UNCHANGED LiveTables, Sound(c)'
    PROVE  ConsoleInv' /\ Lawful
<1>1. LocksApart'
  BY TurnKeepsApart DEF ConsoleInv, TxnInv
<1>2. LiveState' /\ Lawful /\ \A d \in Clients : Rely(txn[d].held)
  BY QuietTables
<1> QED
  BY <1>1, <1>2, Frame DEF Turn

LiveKinds == {"create_live", "update_live", "create_lineup_version", "create_band",
              "create_name_version"} \union SetlistKinds

\* Requests of other kinds rely on nothing.
LEMMA OtherKindsSound ==
    ASSUME NEW c \in Clients, txn'[c].req.kind \notin LiveKinds
    PROVE  Sound(c)'
  BY DEF LiveKinds, Sound, UpdateSound, SetlistSound, CreateSound, HandoverSound, BandSound, NameSound

\* A transaction that ends.
LEMMA FinishSound ==
    ASSUME ConsoleInv, NEW c \in Clients, Finish(c)
    PROVE  Turn(c) /\ Sound(c)'
<1>1. Turn(c) /\ txn'[c] = Idle
  BY FinishTurn DEF ConsoleInv, TxnInv
<1>2. txn'[c].req.kind \notin LiveKinds
  BY <1>1 DEF Idle, NoRequest, LiveKinds, SetlistKinds
<1> QED
  BY <1>1, <1>2, OtherKindsSound

\* Collections, venues and songs.
LEMMA OtherStep ==
    ASSUME ConsoleInv, NEW c \in Clients, CollectionsNext(c) \/ VenuesNext(c) \/ SongsNext(c)
    PROVE  ConsoleInv' /\ Lawful
<1>1. PICK kinds : Turn(c) /\ OfKinds(txn'[c], kinds) /\ (kinds \union {"none"}) \cap LiveKinds = {}
  <2>1. TxnType
    BY DEF ConsoleInv, TxnInv
  <2>2. CASE CollectionsNext(c)
    <3>1. Turn(c) /\ OfKinds(txn'[c], CollectionKinds)
      BY <2>1, <2>2, CollectionTurn DEF CollectionsNext
    <3> QED
      BY <3>1 DEF CollectionKinds, LiveKinds, SetlistKinds
  <2>3. CASE VenuesNext(c)
    <3>1. Turn(c) /\ OfKinds(txn'[c], VenueKinds)
      BY <2>1, <2>3, VenueTurn DEF VenuesNext
    <3> QED
      BY <3>1 DEF VenueKinds, FormKinds, LiveKinds, SetlistKinds
  <2>4. CASE SongsNext(c)
    <3>1. Turn(c) /\ OfKinds(txn'[c], SongKinds)
      BY <2>1, <2>4, SongTurn DEF SongsNext
    <3> QED
      BY <3>1 DEF SongKinds, SongForms, LiveKinds, SetlistKinds
  <2> QED
    BY <2>2, <2>3, <2>4
<1>2. UNCHANGED LiveTables
  BY DEF LiveTables, CollectionsNext, VenuesNext, SongsNext, liveVars
<1>3. Sound(c)'
  BY <1>1, OtherKindsSound DEF OfKinds
<1> QED
  BY <1>1, <1>2, <1>3, QuietTurn

LEMMA RollBackStep ==
    ASSUME ConsoleInv, NEW c \in Clients, RollBack(c), UNCHANGED liveVars
    PROVE  ConsoleInv' /\ Lawful
<1>1. UNCHANGED LiveTables
  BY DEF LiveTables, liveVars
<1> QED
  BY <1>1, FinishSound, QuietTurn DEF RollBack

\* What a transaction needs locks for, it takes first.
LEMMA TakeLockStep ==
    ASSUME ConsoleInv, NEW c \in Clients, TakeLock(c), UNCHANGED liveVars
    PROVE  ConsoleInv' /\ Lawful
<1>1. UNCHANGED LiveTables
  BY DEF LiveTables, liveVars
<1>2. /\ TxnType' /\ Others(c) /\ workload' = workload
      /\ txn'[c] = [at |-> txn[c].at, req |-> txn[c].req, seen |-> txn[c].seen,
                    plan |-> Tail(txn[c].plan), held |-> txn[c].held \union {Head(txn[c].plan)}]
  BY TakeTurn DEF ConsoleInv, TxnInv
<1>3. LocksApart'
  BY TakeKeepsApart DEF ConsoleInv
<1>4. LiveState' /\ Lawful /\ \A held : Rely(held)
  BY <1>1, QuietTables
<1>5. Sound(c)'
  <2>1. \A lock : HasOrTakes(txn[c], lock) => HasOrTakes(txn'[c], lock)
    <3>1. SUFFICES ASSUME NEW lock, txn[c].plan = <<lock>> PROVE lock \in txn'[c].held
      BY <1>2 DEF HasOrTakes
    <3>2. Head(txn[c].plan) = lock
      BY <3>1
    <3> QED
      BY <1>2, <3>2
  <2>2. /\ txn'[c].at = txn[c].at /\ txn'[c].req = txn[c].req /\ txn'[c].seen = txn[c].seen
        /\ txn[c].held \subseteq txn'[c].held
    BY <1>2
  <2>3. Sound(c) /\ live' = live /\ setlist' = setlist /\ context' = context /\ names' = names /\ lineups' = lineups
    BY <1>1 DEF ConsoleInv, LiveTables
  <2>4. UpdateSound(c)'
    BY <2>1, <2>2, <2>3 DEF Sound, UpdateSound, Exists
  <2>5. SetlistSound(c)'
    BY <2>1, <2>2, <2>3 DEF Sound, SetlistSound, SetlistAllowed, Exists, StoredContexts, Extends, RowsAllowed,
       MayUseNext
  <2>6. CreateSound(c)'
    BY <2>2, <2>3 DEF Sound, CreateSound
  <2>7. HandoverSound(c)'
    BY <2>1, <2>2, <2>3 DEF Sound, HandoverSound, Exists, Created
  <2>8. BandSound(c)' /\ NameSound(c)'
    BY <2>1, <2>2, <2>3 DEF Sound, BandSound, NameSound, Created
  <2> QED
    BY <2>4, <2>5, <2>6, <2>7, <2>8 DEF Sound
<1> QED
  BY <1>2, <1>3, <1>4, <1>5, Frame

----------------------------------------------------------------------------
(* The steps of Lives that check and lock: they leave the tables alone, and
   what they hand to the next step is sound. *)
LEMMA CurrentContextIsNew ==
    ASSUME LiveTypeOK, NEW b \in Bands, Created(b)
    PROVE  CurrentContext(b) \in Context /\ CurrentContext(b) # NoContext /\ CurrentContext(b).next = 0
<1>1. Len(names[b]) \in Nat /\ Len(lineups[b]) \in Nat /\ Len(names[b]) # 0
  BY DEF LiveTypeOK, Created
<1> QED
  BY <1>1 DEF CurrentContext, NoContext, Context

LEMMA NoContextIsContext == NoContext \in Context /\ NoContext.next = 0
  BY DEF NoContext, Context

LEMMA Resolving ==
    ASSUME LiveTypeOK, NEW old \in [Bands -> Context], NEW bands \in SUBSET Bands, \A b \in bands : Created(b)
    PROVE  Resolves(ResolvedContexts(old, bands), old, bands)
  BY CurrentContextIsNew, NoContextIsContext DEF ResolvedContexts, Resolves

\* What a request has when its statement is through.
LEMMA HasWhenReady ==
    ASSUME NEW t, NEW lock, HasOrTakes(t, lock), t.plan = <<>>
    PROVE  lock \in t.held
  BY DEF HasOrTakes

LEMMA StartStep ==
    ASSUME ConsoleInv, NEW c \in Clients, NEW req \in workload, LiveStart(c, req)
    PROVE  ConsoleInv' /\ Lawful
<1> DEFINE Begun(step, plan) ==
       Turn(c) /\ txn'[c] = [at |-> step, req |-> req, seen |-> <<>>, plan |-> plan, held |-> {}]
<1>1. ASSUME NEW step, NEW plan, Begin(c, req, step, plan) PROVE Begun(step, plan)
  BY <1>1, BeginTurn DEF ConsoleInv, TxnInv
<1> HIDE DEF Begun
<1>2. UNCHANGED LiveTables
  BY DEF LiveTables, LiveStart, StartCreateLive, StartUpdateLive, StartSetlist, StartCreateBand,
         StartNameVersion, StartLineupVersion, StartFavorites, liveVars
<1>3. Turn(c) /\ Sound(c)'
  <2> USE DEF Begun, Sound, UpdateSound, SetlistSound, CreateSound, HandoverSound, BandSound, NameSound, HasOrTakes
  <2>1. CASE StartCreateLive(c, req)
    <3>1. Begun("validate", <<>>) /\ req.kind = "create_live"
      BY <2>1, <1>1 DEF StartCreateLive
    <3> QED
      BY <3>1 DEF SetlistKinds
  <2>2. CASE StartUpdateLive(c, req)
    <3>1. Begun("check", <<LiveRowLock(req.live)>>) /\ req.kind = "update_live"
      BY <2>2, <1>1 DEF StartUpdateLive
    <3> QED
      BY <3>1 DEF SetlistKinds
  <2>3. CASE StartSetlist(c, req)
    <3>1. Begun("check", <<LiveRowLock(req.live)>>) /\ req.kind \in SetlistKinds
      BY <2>3, <1>1 DEF StartSetlist
    <3> QED
      BY <3>1 DEF SetlistKinds
  <2>4. CASE StartCreateBand(c, req)
    <3>1. Begun("allocate", <<BandIds>>) /\ req.kind = "create_band"
      BY <2>4, <1>1 DEF StartCreateBand, BandIds
    <3> QED
      BY <3>1 DEF SetlistKinds
  <2>5. CASE StartNameVersion(c, req)
    <3>1. Begun("check", <<BandLock(req.band)>>) /\ req.kind = "create_name_version"
      BY <2>5, <1>1 DEF StartNameVersion
    <3> QED
      BY <3>1 DEF SetlistKinds
  <2>6. CASE StartLineupVersion(c, req)
    <3>1. Begun("open", <<BandLock(req.band)>>) /\ req.kind = "create_lineup_version"
      BY <2>6, <1>1 DEF StartLineupVersion
    <3> QED
      BY <3>1 DEF SetlistKinds
  <2>7. CASE StartFavorites(c, req)
    <3>1. Begun("check", <<>>) /\ req.kind \in {"favorite", "unfavorite", "favorite_batch", "unfavorite_batch"}
      BY <2>7, <1>1 DEF StartFavorites
    <3> QED
      BY <3>1 DEF SetlistKinds
  <2> QED
    BY <2>1, <2>2, <2>3, <2>4, <2>5, <2>6, <2>7 DEF LiveStart
<1> QED
  BY <1>2, <1>3, QuietTurn

\* A check that goes on with what it has seen.
LEMMA CheckedTurn ==
    ASSUME ConsoleInv, NEW c \in Clients, NEW step, NEW seen, NEW plan, Continue(c, step, seen, plan)
    PROVE  Turn(c) /\ txn'[c] = [at |-> step, req |-> txn[c].req, seen |-> seen, plan |-> plan,
                                 held |-> txn[c].held]
  BY ContinueTurn DEF ConsoleInv, TxnInv

LEMMA CreateCheckSound ==
    ASSUME ConsoleInv, NEW c \in Clients, ValidateNewLive(c)
    PROVE  Turn(c) /\ Sound(c)'
<1> DEFINE none == [b \in Bands |-> NoContext]
           contexts == ResolvedContexts(none, txn[c].req.bands)
<1>1. /\ Ready(c, {"create_live"}, "validate") /\ \A b \in txn[c].req.bands : Created(b)
      /\ Continue(c, "store", [contexts |-> contexts], RewriteKeys(contexts))
  BY DEF ValidateNewLive
<1>2. LiveTypeOK /\ txn[c].req.bands \in SUBSET Bands /\ none \in [Bands -> Context]
  BY <1>1, NoContextIsContext DEF ConsoleInv, LiveState, Requests, LiveRequest, Ready
<1>3. Resolves(contexts, none, txn[c].req.bands)
  BY <1>1, <1>2, Resolving
<1>4. Turn(c) /\ txn'[c] = [at |-> "store", req |-> txn[c].req, seen |-> [contexts |-> contexts],
                            plan |-> RewriteKeys(contexts), held |-> txn[c].held]
  BY <1>1, CheckedTurn
<1> HIDE DEF contexts
<1>5. CreateSound(c)'
  BY <1>3, <1>4 DEF CreateSound
<1> QED
  BY <1>1, <1>4, <1>5 DEF Ready, Sound, UpdateSound, SetlistSound, HandoverSound, BandSound, NameSound, SetlistKinds

LEMMA UpdateCheckSound ==
    ASSUME ConsoleInv, NEW c \in Clients, CheckUpdate(c)
    PROVE  Turn(c) /\ Sound(c)'
<1> DEFINE req == txn[c].req
           l == req.live
           kept == setlist[l] # {}
           contexts == IF kept THEN context[l] ELSE ResolvedContexts(context[l], req.bands)
           plan == IF kept THEN <<>> ELSE RewriteKeys(contexts)
<1>1. CASE Finish(c)
  BY <1>1, FinishSound
<1>2. CASE Continue(c, "store", [kept |-> kept, contexts |-> contexts], plan)
  <2>1. Ready(c, {"update_live"}, "check") /\ Exists(l) /\ MayUpdate(l, req) /\ UNCHANGED liveVars
    BY DEF CheckUpdate
  <2>2. LiveTypeOK /\ l \in Lives /\ req.bands \in SUBSET Bands /\ HasOrTakes(txn[c], LiveRowLock(l))
    BY <2>1 DEF ConsoleInv, LiveState, Requests, LiveRequest, Ready, Sound, UpdateSound
  <2>3. LiveRowLock(l) \in txn[c].held
    BY <2>1, <2>2, HasWhenReady DEF Ready
  <2>4. ~kept => Resolves(contexts, context[l], req.bands)
    BY <2>1, <2>2, Resolving DEF MayUpdate, LiveTypeOK
  <2>5. kept => req.day = live[l].day /\ req.status # "cancelled"
    BY <2>1 DEF MayUpdate
  <2>6. PICK k, x, p : k = kept /\ x = contexts /\ p = plan
    OBVIOUS
  <2>7. Turn(c) /\ txn'[c] = [at |-> "store", req |-> req, seen |-> [kept |-> k, contexts |-> x],
                              plan |-> p, held |-> txn[c].held]
    BY <1>2, <2>6, CheckedTurn
  <2>8. live' = live /\ setlist' = setlist /\ context' = context
    BY <2>1 DEF liveVars
  <2>9. (k <=> kept) /\ (~kept => Resolves(x, context[l], req.bands))
    BY <2>4, <2>6
  <2> HIDE DEF contexts, plan
  <2>10. UpdateSound(c)'
    BY <2>1, <2>3, <2>5, <2>7, <2>8, <2>9 DEF UpdateSound, Exists, Resolves
  <2> QED
    BY <2>1, <2>7, <2>10 DEF Ready, Sound, CreateSound, SetlistSound, HandoverSound, BandSound, NameSound, SetlistKinds
<1> QED
  BY <1>1, <1>2 DEF CheckUpdate

LEMMA SetlistCheckSound ==
    ASSUME ConsoleInv, NEW c \in Clients, CheckSetlist(c)
    PROVE  Turn(c) /\ Sound(c)'
<1> DEFINE req == txn[c].req
           l == req.live
           rows == Performances(req.rows)
           bands == {p.band : p \in rows}
           contexts == WithCurrent(context[l], bands)
           added == contexts # context[l]
           plan == (IF added THEN RewriteKeys(contexts) ELSE <<>>) \o RowKeys(req.rows)
<1>1. /\ Ready(c, SetlistKinds, "check") /\ SetlistAllowed(l)
      /\ \A b \in bands : Created(b)
      /\ \A p \in rows : p.usage = "next" => MayUseNext(l, p.band, contexts)
      /\ Continue(c, "store", [added |-> added, contexts |-> contexts], plan)
      /\ UNCHANGED liveVars
  BY DEF CheckSetlist
<1>2. LiveTypeOK /\ ContextsKnown /\ l \in Lives /\ rows \subseteq Performance /\ HasOrTakes(txn[c], LiveRowLock(l))
  BY <1>1, PerformancesKnown DEF ConsoleInv, LiveState, Requests, LiveRequest, Ready, Sound, SetlistSound
<1>3. LiveRowLock(l) \in txn[c].held
  BY <1>1, <1>2, HasWhenReady DEF Ready
<1>4. context[l] \in [Bands -> Context] /\ \A p \in rows : p.band \in Bands /\ p.band \in bands
  BY <1>2 DEF LiveTypeOK, Performance
<1>5. Extends(contexts, context[l])
  <2>1. \A b \in bands : b \in Bands
    BY <1>4
  <2>2. ASSUME NEW b \in Bands, b \in bands
        PROVE  CurrentContext(b) \in Context /\ CurrentContext(b).next = 0
    BY <1>1, <1>2, <2>2, CurrentContextIsNew
  <2>3. ASSUME NEW b \in Bands PROVE context[l][b] = NoContext => context[l][b].next = 0
    BY NoContextIsContext
  <2> HIDE DEF bands
  <2> QED
    BY <1>4, <2>2, <2>3 DEF Extends, WithCurrent
<1>6. RowsAllowed(l, rows, contexts)
  <2>1. SUFFICES ASSUME NEW p \in rows
                 PROVE  /\ contexts[p.band] # NoContext
                        /\ p.usage = "next" => contexts[p.band].next <= Len(lineups[p.band])
    BY <1>1 DEF RowsAllowed
  <2>2. p.band \in Bands /\ p.band \in bands /\ Created(p.band)
    BY <1>1, <1>4
  <2>3. CurrentContext(p.band) # NoContext /\ CurrentContext(p.band).next = 0 /\ Len(lineups[p.band]) \in Nat
    BY <1>2, <2>2, CurrentContextIsNew DEF LiveTypeOK
  <2>4. contexts[p.band] = IF context[l][p.band] = NoContext THEN CurrentContext(p.band) ELSE context[l][p.band]
    BY <2>2 DEF WithCurrent
  <2>5. context[l][p.band].next <= Len(lineups[p.band])
    BY <1>2, <2>2 DEF ContextsKnown
  <2> QED
    BY <2>3, <2>4, <2>5
<1>7. PICK k, x, p : k = added /\ x = contexts /\ p = plan
  OBVIOUS
<1>8. Turn(c) /\ txn'[c] = [at |-> "store", req |-> req, seen |-> [added |-> k, contexts |-> x],
                            plan |-> p, held |-> txn[c].held]
  BY <1>1, <1>7, CheckedTurn
<1>9. live' = live /\ context' = context /\ lineups' = lineups
  BY <1>1 DEF liveVars
<1>10. StoredContexts(c)' = x
  <2>1. txn'[c].seen.added = k /\ txn'[c].seen.contexts = x /\ txn'[c].req = req
    BY <1>8
  <2>2. ~k => x = context[l]
    BY <1>7
  <2> QED
    BY <1>9, <2>1, <2>2 DEF StoredContexts
<1>11. Extends(x, context[l]) /\ RowsAllowed(l, rows, x)
  BY <1>5, <1>6, <1>7
<1> HIDE DEF contexts, plan, rows
<1>12. SetlistSound(c)'
  <2>1. Extends(x, context[l])' /\ RowsAllowed(l, rows, x)'
    BY <1>8, <1>9, <1>11 DEF Extends, RowsAllowed, MayUseNext, rows
  <2>2. SetlistAllowed(l)'
    BY <1>1, <1>8, <1>9 DEF SetlistAllowed, Exists
  <2> QED
    BY <1>1, <1>3, <1>8, <1>9, <1>10, <2>1, <2>2 DEF SetlistSound, Ready, rows
<1> QED
  BY <1>1, <1>8, <1>12 DEF Ready, Sound, UpdateSound, CreateSound, HandoverSound, BandSound, NameSound, SetlistKinds

LEMMA BandCheckSound ==
    ASSUME ConsoleInv, NEW c \in Clients, AllocateBandId(c)
    PROVE  Turn(c) /\ Sound(c)'
<1> DEFINE t == txn[c]
<1>1. PICK seen : /\ Ready(c, {"create_band"}, "allocate") /\ t.req.name \notin KnownNames
                  /\ Continue(c, "store", seen, <<>>) /\ UNCHANGED liveVars
  BY DEF AllocateBandId
<1>2. BandIds \in t.held
  BY <1>1, HasWhenReady DEF ConsoleInv, Sound, BandSound, Ready
<1>3. ASSUME NEW b \in Bands, Created(b) PROVE names[b][1] # t.req.name
  <2>1. 1 \in DOMAIN names[b]
    BY <1>3 DEF ConsoleInv, LiveState, LiveTypeOK, Created
  <2> QED
    BY <1>1, <2>1 DEF KnownNames
<1>4. Turn(c) /\ txn'[c] = [at |-> "store", req |-> t.req, seen |-> seen, plan |-> <<>>, held |-> t.held]
  BY <1>1, CheckedTurn
<1>5. BandSound(c)'
  BY <1>1, <1>2, <1>3, <1>4 DEF BandSound, Created, liveVars
<1> QED
  BY <1>1, <1>4, <1>5 DEF Ready, Sound, UpdateSound, CreateSound, HandoverSound, SetlistSound, NameSound, SetlistKinds

LEMMA NameCheckSound ==
    ASSUME ConsoleInv, NEW c \in Clients, CheckNameVersion(c)
    PROVE  Turn(c) /\ Sound(c)'
<1> DEFINE t == txn[c]
<1>1. PICK p : /\ Ready(c, {"create_name_version"}, "check") /\ Created(t.req.band)
               /\ Continue(c, "store", <<>>, p) /\ UNCHANGED liveVars
  BY DEF CheckNameVersion
<1>2. Turn(c) /\ txn'[c] = [at |-> "store", req |-> t.req, seen |-> <<>>, plan |-> p, held |-> t.held]
  BY <1>1, CheckedTurn
<1>3. NameSound(c)'
  BY <1>1, <1>2 DEF NameSound, Created, liveVars
<1> QED
  BY <1>1, <1>2, <1>3 DEF Ready, Sound, UpdateSound, CreateSound, HandoverSound, SetlistSound, BandSound, SetlistKinds

LEMMA OpenLineupSound ==
    ASSUME ConsoleInv, NEW c \in Clients, LockOpenLineup(c)
    PROVE  Turn(c) /\ Sound(c)'
<1> DEFINE t == txn[c]
           b == t.req.band
<1>1. PICK s, p : /\ Ready(c, {"create_lineup_version"}, "open") /\ Created(b)
                  /\ s = [open |-> Len(lineups[b])]
                  /\ Continue(c, "check", s, p) /\ UNCHANGED liveVars
  BY DEF LockOpenLineup
<1>2. BandLock(b) \in t.held
  BY <1>1, HasWhenReady DEF ConsoleInv, Sound, HandoverSound, Ready
<1>3. Turn(c) /\ txn'[c] = [at |-> "check", req |-> t.req, seen |-> s, plan |-> p, held |-> t.held]
  BY <1>1, CheckedTurn
<1>4. HandoverSound(c)'
  BY <1>1, <1>2, <1>3 DEF HandoverSound, Created, liveVars
<1> QED
  BY <1>1, <1>3, <1>4 DEF Ready, Sound, UpdateSound, CreateSound, NameSound, SetlistSound, BandSound, SetlistKinds

LEMMA HandoverCheckSound ==
    ASSUME ConsoleInv, NEW c \in Clients, CheckHandover(c)
    PROVE  Turn(c) /\ Sound(c)'
<1> DEFINE t == txn[c]
           b == t.req.band
           l == t.req.live
<1>1. PICK s, p : /\ Ready(c, {"create_lineup_version"}, "check")
                  /\ l # 0 => Exists(l) /\ MayHandOver(l, b, s.open)
                  /\ s = [open |-> t.seen.open, found |-> FoundAt(l)]
                  /\ p = IF l = 0 THEN <<>> ELSE <<LiveKey(l)>>
                  /\ Continue(c, "store", s, p) /\ UNCHANGED liveVars
  BY DEF CheckHandover
<1>2. /\ BandLock(b) \in t.held /\ Created(b) /\ s.open = Len(lineups[b])
      /\ l \in Lives \union {0}
  BY <1>1 DEF ConsoleInv, Sound, HandoverSound, Ready, Requests, LiveRequest
<1>3. l # 0 => context[l][b].next = 0 /\ Playing(s.found, b)
  <2>1. l # 0 => context[l][b].next = 0
    BY <1>1, NoContextIsContext DEF MayHandOver, HasContext
  <2>2. ASSUME l # 0 PROVE Playing(s.found, b)
    BY <1>1, <2>2 DEF MayHandOver, Playing, FoundAt, Exists, EffectiveBands
  <2> QED
    BY <2>1, <2>2
<1>4. Turn(c) /\ txn'[c] = [at |-> "store", req |-> t.req, seen |-> s, plan |-> p, held |-> t.held]
  BY <1>1, CheckedTurn
<1>5. HandoverSound(c)'
  BY <1>1, <1>2, <1>3, <1>4 DEF HandoverSound, Created, Exists, HasOrTakes, liveVars
<1> QED
  BY <1>1, <1>4, <1>5 DEF Ready, Sound, UpdateSound, CreateSound, NameSound, SetlistSound, BandSound, SetlistKinds

FavoriteKinds == {"favorite", "favorite_batch", "unfavorite", "unfavorite_batch"}

LEMMA FavoriteSteps ==
    ASSUME ConsoleInv, NEW c \in Clients,
           CheckFavorite(c) \/ InsertFavorite(c) \/ KeepFavorites(c) \/ StoreFavorite(c) \/ RemoveFavorites(c)
    PROVE  Turn(c) /\ Sound(c)' /\ UNCHANGED LiveTables
<1>1. Turn(c) /\ OfKinds(txn'[c], FavoriteKinds)
  <2> USE ContinueKind, FinishKind DEF FavoriteKinds, Ready, ConsoleInv, TxnInv
  <2>1. CASE CheckFavorite(c)
    BY <2>1 DEF CheckFavorite
  <2>2. CASE InsertFavorite(c)
    BY <2>2 DEF InsertFavorite
  <2>3. CASE KeepFavorites(c)
    BY <2>3 DEF KeepFavorites
  <2>4. CASE StoreFavorite(c) \/ RemoveFavorites(c)
    BY <2>4 DEF StoreFavorite, RemoveFavorites
  <2> QED
    BY <2>1, <2>2, <2>3, <2>4
<1>2. Sound(c)'
  BY <1>1, OtherKindsSound DEF OfKinds, FavoriteKinds, LiveKinds, SetlistKinds
<1>3. UNCHANGED LiveTables
  BY DEF CheckFavorite, InsertFavorite, KeepFavorites, StoreFavorite, RemoveFavorites, LiveTables, liveVars
<1> QED
  BY <1>1, <1>2, <1>3

LEMMA CheckSteps ==
    ASSUME ConsoleInv, NEW c \in Clients,
           \/ ValidateNewLive(c) \/ CheckUpdate(c) \/ CheckSetlist(c) \/ AllocateBandId(c)
           \/ CheckNameVersion(c) \/ LockOpenLineup(c) \/ CheckHandover(c)
           \/ CheckFavorite(c) \/ InsertFavorite(c) \/ KeepFavorites(c) \/ StoreFavorite(c) \/ RemoveFavorites(c)
    PROVE  ConsoleInv' /\ Lawful
<1>1. Turn(c) /\ Sound(c)'
  BY CreateCheckSound, UpdateCheckSound, SetlistCheckSound, BandCheckSound, NameCheckSound,
     OpenLineupSound, HandoverCheckSound, FavoriteSteps
<1>2. UNCHANGED LiveTables
  BY FavoriteSteps DEF ValidateNewLive, CheckUpdate, CheckSetlist, AllocateBandId, CheckNameVersion,
     LockOpenLineup, CheckHandover, LiveTables, liveVars
<1> QED
  BY <1>1, <1>2, QuietTurn

----------------------------------------------------------------------------
(* The steps that store. *)
LEMMA LocksExclude ==
    ASSUME ConsoleInv, NEW c \in Clients, NEW d \in Clients, d # c, NEW x
    PROVE  /\ LiveRowLock(x) \in txn[c].held \/ LiveKey(x) \in txn[c].held => LiveRowLock(x) \notin txn[d].held
           /\ BandLock(x) \in txn[c].held => BandLock(x) \notin txn[d].held
           /\ BandIds \in txn[c].held => BandIds \notin txn[d].held
<1>1. \A h \in txn[c].held, k \in txn[d].held : h.row = k.row => k.mode # "update"
  BY DEF ConsoleInv, TxnInv, LocksApart, Conflict
<1> QED
  BY <1>1 DEF LiveRowLock, LiveKey, BandLock, BandIds, Lock

\* A step that changes one Live, which the transaction has locked or creates.
LEMMA LiveChange ==
    ASSUME ConsoleInv, NEW c \in Clients, NEW l \in Lives, UNCHANGED <<names, lineups>>, LiveTypeOK',
           \A k \in Lives \ {l} : live'[k] = live[k] /\ setlist'[k] = setlist[k] /\ context'[k] = context[k],
           ~Exists(l) \/ LiveRowLock(l) \in txn[c].held, Exists(l)',
           \A b \in Bands :
              \/ context'[l][b].next = context[l][b].next
              \/ context'[l][b].next = 0 /\ b \notin live'[l].bands,
           setlist'[l] # {} => SetlistAllowed(l)',
           \A p \in setlist'[l] :
              HasContext(l, p.band)' /\ (p.usage = "next" => MayUseNext(l, p.band, context[l])'),
           Policy!PolicyNext
    PROVE  LiveState' /\ Lawful /\ \A d \in Clients : d # c => Rely(txn[d].held)
<1>1. LiveState /\ LiveTypeOK /\ ContextsKnown
  BY DEF ConsoleInv, LiveState
<1>2. \A b \in Bands : Len(lineups[b]) \in Nat
  BY <1>1 DEF LiveTypeOK
<1>3. ContextsKnown'
  <2>1. ASSUME NEW k \in Lives, NEW b \in Bands PROVE context'[k][b].next <= Len(lineups[b])
    BY <1>1, <1>2 DEF ContextsKnown
  <2>2. ASSUME NEW k \in Lives, ~Exists(k)', NEW b \in Bands PROVE context'[k][b] = NoContext
    BY <1>1, <2>2 DEF ContextsKnown, Exists
  <2>3. \A b \in Bands : ~Created(b)' => lineups'[b] = <<>>
    BY <1>1 DEF ContextsKnown, Created
  <2> QED
    BY <2>1, <2>2, <2>3 DEF ContextsKnown
<1>4. SetlistKeepsItsDay'
  BY <1>1 DEF LiveState, SetlistKeepsItsDay, SetlistAllowed, Exists
<1>5. PerformancesHaveContext'
  <2>1. SUFFICES ASSUME NEW k \in Lives, NEW p \in setlist'[k]
                 PROVE  HasContext(k, p.band)' /\ (p.usage = "next" => MayUseNext(k, p.band, context[k])')
    BY DEF PerformancesHaveContext
  <2>2. CASE k # l
    BY <1>1, <2>2 DEF LiveState, PerformancesHaveContext, HasContext, MayUseNext
  <2> QED
    BY <2>2
<1>6. CreatedNamesDiffer'
  BY <1>1 DEF LiveState, CreatedNamesDiffer, Created
<1>7. Lawful
  BY DEF Lawful, HandoverKept
<1>8. ASSUME NEW d \in Clients, d # c PROVE Rely(txn[d].held)
  <2>1. LiveRowLock(l) \in txn[c].held => LiveRowLock(l) \notin txn[d].held
    BY <1>8, LocksExclude
  <2>2. \A k \in Lives : Exists(k) =>
           /\ Exists(k)'
           /\ LiveRowLock(k) \in txn[d].held =>
                 live'[k] = live[k] /\ setlist'[k] = setlist[k] /\ context'[k] = context[k]
    BY <2>1 DEF Exists
  <2>3. \A k \in Lives, b \in Bands : context[k][b].next = 0 => context'[k][b].next = 0
    OBVIOUS
  <2> QED
    BY <1>2, <2>2, <2>3 DEF Rely, Created
<1> QED
  BY <1>3, <1>4, <1>5, <1>6, <1>7, <1>8 DEF LiveState

LEMMA InsertLiveStep ==
    ASSUME ConsoleInv, NEW c \in Clients, InsertLive(c)
    PROVE  LiveState' /\ Lawful /\ \A d \in Clients : d # c => Rely(txn[d].held)
<1> DEFINE req == txn[c].req
<1>1. PICK l \in Lives :
         /\ ~Exists(l)
         /\ live' = [live EXCEPT ![l] = [status |-> req.status, day |-> req.day, bands |-> req.bands]]
         /\ context' = [context EXCEPT ![l] = txn[c].seen.contexts]
         /\ UNCHANGED <<setlist, names, lineups>>
  BY DEF InsertLive
<1>2. /\ LiveState /\ LiveTypeOK /\ req.status \in Statuses /\ req.day \in Days /\ req.bands \subseteq Bands
      /\ Resolves(txn[c].seen.contexts, [b \in Bands |-> NoContext], req.bands)
  BY DEF InsertLive, Ready, ConsoleInv, LiveState, Requests, LiveRequest, Sound, CreateSound
<1>3. LiveTypeOK'
  BY <1>1, <1>2 DEF LiveTypeOK, LiveRow, Resolves
<1>4. /\ live'[l].bands = req.bands /\ live'[l].status \in Statuses /\ context'[l] = txn[c].seen.contexts
      /\ \A k \in Lives \ {l} : live'[k] = live[k] /\ setlist'[k] = setlist[k] /\ context'[k] = context[k]
  BY <1>1, <1>2 DEF LiveTypeOK
<1>5. setlist[l] = {} /\ \A b \in Bands : context[l][b] = NoContext
  BY <1>1, <1>2 DEF LiveState, SetlistKeepsItsDay, SetlistAllowed, ContextsKnown
<1>6. Exists(l)'
  BY <1>4 DEF Exists, Statuses
<1>7. \A b \in Bands : context'[l][b].next = context[l][b].next
  BY <1>2, <1>4, <1>5 DEF Resolves, NoContext
<1>8. Policy!PolicyNext
  <2>1. Policy!WithContext(context'[l]) = live'[l].bands
    BY <1>2, <1>4 DEF Policy!WithContext, Policy!NoContext, NoContext, Resolves
  <2>2. Policy!CreateLive(l)
    BY <1>1, <1>4, <2>1 DEF Policy!CreateLive, Policy!Only, Exists
  <2> QED
    BY <2>2 DEF Policy!PolicyNext
<1> QED
  BY <1>1, <1>3, <1>4, <1>5, <1>6, <1>7, <1>8, LiveChange

LEMMA StoreUpdateStep ==
    ASSUME ConsoleInv, NEW c \in Clients, StoreUpdate(c)
    PROVE  LiveState' /\ Lawful /\ \A d \in Clients : d # c => Rely(txn[d].held)
<1>0. PICK req, seen, l : req = txn[c].req /\ seen = txn[c].seen /\ l = req.live
  OBVIOUS
<1>1. /\ live' = [live EXCEPT ![l] = Target(req)]
      /\ context' = IF seen.kept THEN context ELSE [context EXCEPT ![l] = seen.contexts]
      /\ UNCHANGED <<setlist, names, lineups>>
  BY <1>0 DEF StoreUpdate
<1>2. /\ LiveState /\ LiveTypeOK
      /\ l \in Lives /\ req.status \in Statuses /\ req.day \in Days /\ req.bands \subseteq Bands
      /\ LiveRowLock(l) \in txn[c].held /\ Exists(l)
      /\ seen.kept <=> setlist[l] # {}
      /\ setlist[l] # {} => req.day = live[l].day /\ req.status # "cancelled"
      /\ setlist[l] = {} => Resolves(seen.contexts, context[l], req.bands)
  BY <1>0 DEF StoreUpdate, Ready, ConsoleInv, LiveState, Requests, LiveRequest, Sound, UpdateSound
<1>3. LiveTypeOK'
  BY <1>1, <1>2 DEF LiveTypeOK, LiveRow, Resolves, Target
<1>4. /\ live'[l] = Target(req)
      /\ context'[l] = IF setlist[l] # {} THEN context[l] ELSE seen.contexts
      /\ \A k \in Lives \ {l} : live'[k] = live[k] /\ setlist'[k] = setlist[k] /\ context'[k] = context[k]
  BY <1>1, <1>2 DEF LiveTypeOK
<1>5. Exists(l)'
  BY <1>2, <1>4 DEF Exists, Target, Statuses
<1>6. \A b \in Bands :
         \/ context'[l][b].next = context[l][b].next
         \/ context'[l][b].next = 0 /\ b \notin live'[l].bands
  BY <1>2, <1>4, NoContextIsContext DEF Resolves, Target
<1>7. setlist'[l] # {} => SetlistAllowed(l)'
  <2>1. setlist[l] # {} => SetlistAllowed(l)
    BY <1>2 DEF LiveState, SetlistKeepsItsDay
  <2> QED
    BY <1>1, <1>2, <1>4, <1>5, <2>1 DEF SetlistAllowed, Target
<1>8. \A p \in setlist'[l] :
         HasContext(l, p.band)' /\ (p.usage = "next" => MayUseNext(l, p.band, context[l])')
  BY <1>1, <1>2, <1>4 DEF LiveState, PerformancesHaveContext, HasContext, MayUseNext
<1>9. Policy!PolicyNext
  <2>1. setlist[l] = {} => Policy!WithContext(context'[l]) = live'[l].bands
    BY <1>2, <1>4 DEF Policy!WithContext, Policy!NoContext, NoContext, Resolves, Target
  <2>2. Policy!UpdateLive(l)
    BY <1>1, <1>2, <1>4, <1>5, <2>1 DEF Policy!UpdateLive, Policy!Only, Exists, Target
  <2> QED
    BY <1>2, <2>2 DEF Policy!PolicyNext
<1> QED
  BY <1>1, <1>2, <1>3, <1>4, <1>5, <1>6, <1>7, <1>8, <1>9, LiveChange

LEMMA StoreSetlistStep ==
    ASSUME ConsoleInv, NEW c \in Clients, StoreSetlist(c)
    PROVE  LiveState' /\ Lawful /\ \A d \in Clients : d # c => Rely(txn[d].held)
<1>0. PICK req, l, stored, rows :
         req = txn[c].req /\ l = req.live /\ stored = StoredContexts(c) /\ rows = Performances(req.rows)
  OBVIOUS
<1>1. /\ setlist' = [setlist EXCEPT ![l] = rows]
      /\ context' = IF txn[c].seen.added THEN [context EXCEPT ![l] = txn[c].seen.contexts] ELSE context
      /\ UNCHANGED <<live, names, lineups>>
  BY <1>0 DEF StoreSetlist
<1>2. /\ LiveState /\ LiveTypeOK /\ l \in Lives /\ rows \subseteq Performance
      /\ LiveRowLock(l) \in txn[c].held /\ SetlistAllowed(l)
      /\ Extends(stored, context[l]) /\ RowsAllowed(l, rows, stored)
  BY <1>0, PerformancesKnown DEF StoreSetlist, Ready, ConsoleInv, LiveState, Requests, LiveRequest, Sound, SetlistSound
<1>3. LiveTypeOK'
  BY <1>0, <1>1, <1>2 DEF LiveTypeOK, Extends, StoredContexts
<1>4. /\ setlist'[l] = rows /\ context'[l] = stored
      /\ \A k \in Lives \ {l} : live'[k] = live[k] /\ setlist'[k] = setlist[k] /\ context'[k] = context[k]
  BY <1>0, <1>1, <1>2 DEF LiveTypeOK, StoredContexts
<1>5. Exists(l)' /\ SetlistAllowed(l)'
  BY <1>1, <1>2 DEF Exists, SetlistAllowed
<1>6. \A b \in Bands : context'[l][b].next = context[l][b].next
  BY <1>2, <1>4, NoContextIsContext DEF Extends
<1>7. \A p \in setlist'[l] :
         HasContext(l, p.band)' /\ (p.usage = "next" => MayUseNext(l, p.band, context[l])')
  BY <1>1, <1>2, <1>4 DEF RowsAllowed, HasContext, MayUseNext
<1>8. Policy!PolicyNext
  <2>1. {p.band : p \in setlist'[l]} \subseteq Policy!WithContext(context'[l])
    BY <1>2, <1>4 DEF Policy!WithContext, Policy!NoContext, NoContext, RowsAllowed, Performance
  <2>2. \A b \in Policy!WithContext(context[l]) : context'[l][b] = context[l][b]
    BY <1>2, <1>4 DEF Policy!WithContext, Policy!NoContext, NoContext, Extends
  <2>3. Policy!SaveSetlist(l)
    BY <1>1, <1>2, <1>4, <2>1, <2>2 DEF Policy!SaveSetlist, Policy!Only, SetlistAllowed, Exists
  <2> QED
    BY <1>2, <2>3 DEF Policy!PolicyNext
<1> QED
  BY <1>1, <1>2, <1>3, <1>4, <1>5, <1>6, <1>7, <1>8, LiveChange

\* A step that adds to the names or the line-ups of bands.
LEMMA HistoryGrows ==
    ASSUME ConsoleInv, NEW c \in Clients, UNCHANGED <<live, setlist>>, LiveTypeOK', ContextsKnown',
           \A b \in Bands : Created(b) => Created(b)',
           \A b \in Bands :
              /\ Len(lineups[b]) <= Len(lineups'[b])
              /\ \A i \in 1..Len(lineups[b]) : lineups'[b][i] = lineups[b][i]
              /\ Created(b) /\ lineups'[b] # lineups[b] => BandLock(b) \in txn[c].held,
           \A l \in Lives, b \in Bands :
              \/ context'[l][b] = context[l][b]
              \/ /\ context[l][b].next = 0 /\ context'[l][b].next # 0
                 /\ LiveKey(l) \in txn[c].held /\ BandLock(b) \in txn[c].held,
           \/ BandIds \in txn[c].held
           \/ \A b \in Bands : Created(b)' => Created(b) /\ names'[b][1] = names[b][1],
           CreatedNamesDiffer',
           Policy!PolicyNext \/ LateHandover \/ UNCHANGED context
    PROVE  LiveState' /\ Lawful /\ \A d \in Clients : d # c => Rely(txn[d].held)
<1>1. LiveState /\ LiveTypeOK /\ ContextsKnown
  BY DEF ConsoleInv, LiveState
<1>2. SetlistKeepsItsDay'
  BY <1>1 DEF LiveState, SetlistKeepsItsDay, SetlistAllowed, Exists
<1>3. PerformancesHaveContext'
  <2>1. SUFFICES ASSUME NEW l \in Lives, NEW p \in setlist[l]
                 PROVE  HasContext(l, p.band)' /\ (p.usage = "next" => MayUseNext(l, p.band, context[l])')
    BY DEF PerformancesHaveContext
  <2> DEFINE b == p.band
  <2>2. b \in Bands /\ HasContext(l, b) /\ (p.usage = "next" => MayUseNext(l, b, context[l]))
    BY <1>1 DEF LiveTypeOK, Performance, LiveState, PerformancesHaveContext
  <2>3. HasContext(l, b)'
    BY <2>2 DEF HasContext, NoContext
  <2>4. ASSUME p.usage = "next" PROVE MayUseNext(l, b, context[l])'
    <3>1. context'[l][b] = context[l][b]
      BY <2>2, <2>4 DEF MayUseNext
    <3>2. context[l][b].next \in Nat /\ Len(lineups[b]) \in Nat /\ context[l][b].next <= Len(lineups[b])
      <4>1. context[l][b] \in Context /\ lineups[b] \in Seq(Lives \union {0})
        BY <1>1, <2>2 DEF LiveTypeOK
      <4> QED
        BY <1>1, <2>2, <4>1 DEF Context, ContextsKnown
    <3> QED
      BY <2>2, <2>4, <3>1, <3>2 DEF MayUseNext
  <2> QED
    BY <2>3, <2>4
<1>4. ASSUME NEW d \in Clients, d # c PROVE Rely(txn[d].held)
  <2>1. /\ \A l \in Lives : LiveKey(l) \in txn[c].held => LiveRowLock(l) \notin txn[d].held
        /\ \A b \in Bands : BandLock(b) \in txn[c].held => BandLock(b) \notin txn[d].held
        /\ BandIds \in txn[c].held => BandIds \notin txn[d].held
    BY <1>4, LocksExclude
  <2>2. ASSUME NEW l \in Lives, LiveRowLock(l) \in txn[d].held PROVE context'[l] = context[l]
    <3>1. \A b \in Bands : context'[l][b] = context[l][b]
      BY <2>1, <2>2
    <3> QED
      BY <1>1, <3>1 DEF LiveTypeOK
  <2>3. \A l \in Lives : Exists(l) => Exists(l)'
    BY DEF Exists
  <2> QED
    BY <2>1, <2>2, <2>3 DEF Rely
<1>5. Lawful
  BY DEF Lawful, HandoverKept
<1> QED
  BY <1>2, <1>3, <1>4, <1>5 DEF LiveState

LEMMA InsertBandStep ==
    ASSUME ConsoleInv, NEW c \in Clients, InsertBand(c)
    PROVE  LiveState' /\ Lawful /\ \A d \in Clients : d # c => Rely(txn[d].held)
<1>0. PICK name, b : name = txn[c].req.name /\ b = txn[c].seen.id
  OBVIOUS
<1>1. /\ ~Created(b) /\ names' = [names EXCEPT ![b] = <<name>>] /\ lineups' = [lineups EXCEPT ![b] = <<0>>]
      /\ UNCHANGED <<live, setlist, context>>
  BY <1>0 DEF InsertBand
<1>2. /\ LiveState /\ LiveTypeOK /\ ContextsKnown /\ name \in Names /\ BandIds \in txn[c].held
      /\ \A a \in Bands : Created(a) => names[a][1] # name
  BY <1>0 DEF InsertBand, Ready, ConsoleInv, LiveState, Requests, LiveRequest, Sound, BandSound
<1>3. /\ \A a \in Bands \ {b} : names'[a] = names[a] /\ lineups'[a] = lineups[a]
      /\ b \in Bands => names'[b] = <<name>> /\ lineups'[b] = <<0>> /\ lineups[b] = <<>>
  BY <1>1, <1>2 DEF LiveTypeOK, ContextsKnown
<1>4. LiveTypeOK'
  <2>1. <<name>> \in Seq(Names) /\ <<0>> \in Seq(Lives \union {0})
    BY <1>2
  <2>2. names' \in [Bands -> Seq(Names)]
    BY <1>1, <1>2, <2>1 DEF LiveTypeOK
  <2>3. lineups' \in [Bands -> Seq(Lives \union {0})]
    BY <1>1, <1>2, <2>1 DEF LiveTypeOK
  <2> QED
    BY <1>1, <1>2, <2>2, <2>3 DEF LiveTypeOK
<1>5. \A a \in Bands : Len(lineups[a]) \in Nat
  BY <1>2 DEF LiveTypeOK
<1>6. \A a \in Bands : Len(lineups[a]) <= Len(lineups'[a])
  BY <1>3, <1>5
<1>7. ContextsKnown'
  <2>1. ASSUME NEW l \in Lives, NEW a \in Bands PROVE context[l][a].next <= Len(lineups'[a])
    <3>1. context[l][a].next \in Nat /\ context[l][a].next <= Len(lineups[a]) /\ Len(lineups'[a]) \in Nat
      BY <1>2, <1>4 DEF LiveTypeOK, Context, ContextsKnown
    <3> QED
      BY <1>5, <1>6, <3>1
  <2>2. \A a \in Bands : ~Created(a)' => lineups'[a] = <<>>
    BY <1>2, <1>3 DEF ContextsKnown, Created
  <2> QED
    BY <1>1, <1>2, <2>1, <2>2 DEF ContextsKnown, Exists
<1>8. \A a \in Bands : Created(a) => Created(a)' /\ a # b
  BY <1>1, <1>3 DEF Created
<1>9. CreatedNamesDiffer'
  BY <1>2, <1>3 DEF CreatedNamesDiffer, LiveState, Created
<1>10. \A a \in Bands : \A i \in 1..Len(lineups[a]) : lineups'[a][i] = lineups[a][i]
  BY <1>3
<1> QED
  BY <1>1, <1>2, <1>3, <1>4, <1>6, <1>7, <1>8, <1>9, <1>10, HistoryGrows

LEMMA StoreNameStep ==
    ASSUME ConsoleInv, NEW c \in Clients, StoreNameVersion(c)
    PROVE  LiveState' /\ Lawful /\ \A d \in Clients : d # c => Rely(txn[d].held)
<1>0. PICK name, b : name = txn[c].req.name /\ b = txn[c].req.band
  OBVIOUS
<1>1. names' = [names EXCEPT ![b] = Append(@, name)] /\ UNCHANGED <<live, setlist, context, lineups>>
  BY <1>0 DEF StoreNameVersion
<1>2. LiveState /\ LiveTypeOK /\ ContextsKnown /\ name \in Names /\ b \in Bands /\ Created(b)
  BY <1>0 DEF StoreNameVersion, Ready, ConsoleInv, LiveState, Requests, LiveRequest, Sound, NameSound
<1>3. names' = [names EXCEPT ![b] = Append(names[b], name)] /\ names[b] \in Seq(Names) /\ names[b] # <<>>
  BY <1>1, <1>2 DEF LiveTypeOK, Created
<1>4. LiveTypeOK'
  BY <1>1, <1>2, <1>3 DEF LiveTypeOK
<1>5. \A a \in Bands : (Created(a)' <=> Created(a)) /\ (Created(a) => names'[a][1] = names[a][1])
  <2>1. names'[b] = Append(names[b], name) /\ \A a \in Bands \ {b} : names'[a] = names[a]
    BY <1>2, <1>3 DEF LiveTypeOK
  <2>2. Append(names[b], name) # <<>> /\ Append(names[b], name)[1] = names[b][1]
    BY <1>2, <1>3
  <2> QED
    BY <1>2, <2>1, <2>2 DEF Created
<1>6. ContextsKnown' /\ CreatedNamesDiffer'
  BY <1>1, <1>2, <1>5 DEF ContextsKnown, LiveState, CreatedNamesDiffer, Exists
<1>7. \A a \in Bands : Len(lineups[a]) \in Nat
  BY <1>2 DEF LiveTypeOK
<1> QED
  BY <1>1, <1>4, <1>5, <1>6, <1>7, HistoryGrows

LEMMA StoreLineupStep ==
    ASSUME ConsoleInv, NEW c \in Clients, StoreLineupVersion(c)
    PROVE  LiveState' /\ Lawful /\ \A d \in Clients : d # c => Rely(txn[d].held)
<1>0. PICK b, l, open : b = txn[c].req.band /\ l = txn[c].req.live /\ open = txn[c].seen.open
  OBVIOUS
<1>1. /\ lineups' = [lineups EXCEPT ![b] = Append(@, l)]
      /\ context' = IF l = 0 THEN context ELSE [context EXCEPT ![l][b] = HandoverContext(@, b, open)]
      /\ UNCHANGED <<live, setlist, names>>
  BY <1>0 DEF StoreLineupVersion
<1>2. /\ LiveState /\ LiveTypeOK /\ ContextsKnown
      /\ b \in Bands /\ l \in Lives \union {0} /\ BandLock(b) \in txn[c].held /\ Created(b) /\ open = Len(lineups[b])
      /\ l # 0 => LiveKey(l) \in txn[c].held /\ Exists(l) /\ context[l][b].next = 0 /\ Playing(txn[c].seen.found, b)
  BY <1>0, HasWhenReady
     DEF StoreLineupVersion, Ready, ConsoleInv, LiveState, Requests, LiveRequest, Sound, HandoverSound
<1>3. /\ lineups[b] \in Seq(Lives \union {0}) /\ open \in Nat
      /\ lineups' = [lineups EXCEPT ![b] = Append(lineups[b], l)]
      /\ \A a \in Bands \ {b} : lineups'[a] = lineups[a]
      /\ lineups'[b] = Append(lineups[b], l) /\ Len(lineups'[b]) = open + 1
  BY <1>1, <1>2 DEF LiveTypeOK
<1> DEFINE handed == HandoverContext(context[l][b], b, open)
<1>4. l # 0 => handed \in Context /\ handed.next = open + 1 /\ handed.base = open
  <2>1. Len(names[b]) \in Nat
    BY <1>2 DEF LiveTypeOK
  <2> QED
    BY <1>2, <1>3, <2>1 DEF HandoverContext, LiveTypeOK, Context
<1> HIDE DEF handed
<1>5. /\ l # 0 => context' = [context EXCEPT ![l] = [context[l] EXCEPT ![b] = handed]]
      /\ l = 0 => context' = context
  BY <1>1, <1>2 DEF handed, LiveTypeOK
<1>6. LiveTypeOK'
  BY <1>1, <1>2, <1>3, <1>4, <1>5 DEF LiveTypeOK
<1>7. \A k \in Lives, a \in Bands :
         IF l # 0 /\ k = l /\ a = b THEN context'[k][a] = handed ELSE context'[k][a] = context[k][a]
  BY <1>2, <1>5 DEF LiveTypeOK
<1>8. \A a \in Bands : Len(lineups[a]) \in Nat /\ Len(lineups[a]) <= Len(lineups'[a])
  <2>1. \A a \in Bands : Len(lineups[a]) \in Nat
    BY <1>2 DEF LiveTypeOK
  <2> QED
    BY <1>2, <1>3, <2>1
<1>9. ContextsKnown'
  <2>1. ASSUME NEW k \in Lives, NEW a \in Bands PROVE context'[k][a].next <= Len(lineups'[a])
    <3>1. context[k][a].next \in Nat /\ context[k][a].next <= Len(lineups[a]) /\ Len(lineups'[a]) \in Nat
      BY <1>2, <1>6 DEF LiveTypeOK, Context, ContextsKnown
    <3>2. CASE l # 0 /\ k = l /\ a = b
      BY <1>3, <1>4, <1>7, <3>2
    <3>3. CASE ~(l # 0 /\ k = l /\ a = b)
      BY <1>7, <1>8, <3>1, <3>3
    <3> QED
      BY <3>2, <3>3
  <2>2. \A k \in Lives : ~Exists(k)' => \A a \in Bands : context'[k][a] = NoContext
    BY <1>1, <1>2, <1>7 DEF ContextsKnown, Exists
  <2>3. \A a \in Bands : ~Created(a)' => lineups'[a] = <<>>
    BY <1>1, <1>2, <1>3 DEF ContextsKnown, Created
  <2> QED
    BY <2>1, <2>2, <2>3 DEF ContextsKnown
<1>10. CreatedNamesDiffer'
  BY <1>1, <1>2 DEF LiveState, CreatedNamesDiffer, Created
<1>11. Policy!PolicyNext \/ LateHandover \/ UNCHANGED context
  <2>1. SUFFICES ASSUME l # 0 PROVE Policy!PolicyNext \/ LateHandover
    BY <1>2, <1>5
  <2>2. l \in Lives /\ context'[l] = [context[l] EXCEPT ![b] = handed] /\ context'[l][b] = handed
    BY <1>2, <1>5, <1>7, <2>1 DEF LiveTypeOK
  <2>3. \A k \in Lives \ {l} : context'[k] = context[k]
    BY <1>2, <1>5, <2>1 DEF LiveTypeOK
  <2>4. Policy!RecordHandOver(l, b)
    BY <1>1, <1>2, <1>4, <2>1, <2>2, <2>3 DEF Policy!RecordHandOver, Policy!Only
  <2>5. CASE txn[c].seen.found = <<live[l], setlist[l]>>
    <3>1. live[l].status \notin {"none", "cancelled"} /\ b \in Policy!Effective(l)
      BY <1>2, <2>1, <2>5 DEF Playing, Policy!Effective
    <3>2. Policy!HandOver(l)
      BY <2>4, <3>1 DEF Policy!HandOver
    <3> QED
      BY <2>2, <3>2 DEF Policy!PolicyNext
  <2>6. CASE txn[c].seen.found # <<live[l], setlist[l]>>
    BY <1>0, <2>1, <2>4, <2>6 DEF LateHandover, StoreLineupVersion
  <2> QED
    BY <2>5, <2>6
<1>12. \A a \in Bands :
          /\ Created(a) => Created(a)'
          /\ \A i \in 1..Len(lineups[a]) : lineups'[a][i] = lineups[a][i]
          /\ lineups'[a] # lineups[a] => BandLock(a) \in txn[c].held
  BY <1>1, <1>2, <1>3 DEF Created
<1>13. \A k \in Lives, a \in Bands :
          \/ context'[k][a] = context[k][a]
          \/ /\ context[k][a].next = 0 /\ context'[k][a].next # 0
             /\ LiveKey(k) \in txn[c].held /\ BandLock(a) \in txn[c].held
  BY <1>2, <1>3, <1>4, <1>7
<1>14. \A a \in Bands : Created(a)' => Created(a) /\ names'[a][1] = names[a][1]
  BY <1>1 DEF Created
<1> QED
  BY <1>1, <1>6, <1>8, <1>9, <1>10, <1>11, <1>12, <1>13, <1>14, HistoryGrows

LEMMA StoreSteps ==
    ASSUME ConsoleInv, NEW c \in Clients,
           InsertLive(c) \/ StoreUpdate(c) \/ StoreSetlist(c) \/ InsertBand(c) \/ StoreNameVersion(c)
           \/ StoreLineupVersion(c)
    PROVE  ConsoleInv' /\ Lawful
<1>1. LiveState' /\ Lawful /\ \A d \in Clients : d # c => Rely(txn[d].held)
  BY InsertLiveStep, StoreUpdateStep, StoreSetlistStep, InsertBandStep, StoreNameStep, StoreLineupStep
<1>2. Turn(c) /\ Sound(c)'
  BY FinishSound DEF InsertLive, StoreUpdate, StoreSetlist, InsertBand, StoreNameVersion, StoreLineupVersion
<1>3. LocksApart'
  BY <1>2, TurnKeepsApart DEF ConsoleInv, TxnInv
<1> QED
  BY <1>1, <1>2, <1>3, Frame DEF Turn

----------------------------------------------------------------------------
LEMMA LivesStep ==
    ASSUME ConsoleInv, NEW c \in Clients, LivesNext(c)
    PROVE  ConsoleInv' /\ Lawful
  BY StartStep, CheckSteps, StoreSteps DEF LivesNext, LiveStep

LEMMA ConsoleStep == ConsoleInv /\ [Next]_vars => ConsoleInv' /\ Lawful
<1>1. SUFFICES ASSUME ConsoleInv, [Next]_vars PROVE ConsoleInv' /\ Lawful
  OBVIOUS
<1>2. CASE Next
  <2>1. PICK c \in Clients :
           LivesNext(c) \/ CollectionsNext(c) \/ VenuesNext(c) \/ SongsNext(c) \/ DatabaseNext(c)
    BY <1>2 DEF Next
  <2>2. CASE DatabaseNext(c)
    BY <1>1, <2>2, TakeLockStep, RollBackStep DEF DatabaseNext
  <2> QED
    BY <1>1, <2>1, <2>2, LivesStep, OtherStep
<1>3. CASE UNCHANGED vars
  <2>1. UNCHANGED LiveTables /\ txn' = txn /\ workload' = workload
    BY <1>3 DEF vars, txnVars, liveVars, LiveTables
  <2>2. LiveState' /\ LiveTypeOK' /\ Lawful /\ \A held : Rely(held)
    BY <1>1, <2>1, QuietTables DEF LiveState
  <2>3. \A d \in Clients : Sound(d)'
    BY <1>1, <2>1, <2>2, SoundStays
  <2>4. TxnInv' /\ Requests'
    BY <1>1, <2>1 DEF ConsoleInv, TxnInv, TxnType, LocksApart, Requests, LiveRequest
  <2> QED
    BY <2>2, <2>3, <2>4 DEF ConsoleInv
<1> QED
  BY <1>1, <1>2, <1>3

LEMMA ConsoleBegins == Init => ConsoleInv /\ Policy!PolicyInit
<1>1. SUFFICES ASSUME Init PROVE ConsoleInv /\ Policy!PolicyInit
  OBVIOUS
<1>2. PICK s \in Scenarios : TxnInit(s.requests) /\ LiveInit(s)
  BY <1>1 DEF Init
<1>3. /\ live \in [Lives -> LiveRow]
      /\ \A l \in Lives : live[l].bands \subseteq DOMAIN FirstNames /\ (live[l].status = "none" => live[l].bands = {})
      /\ \A r \in workload : LiveRequest(r)
  BY <1>2, ScenarioAssumption DEF TxnInit, LiveInit
<1>4. /\ names = [b \in Bands |-> IF b \in DOMAIN FirstNames THEN <<FirstNames[b]>> ELSE <<>>]
      /\ lineups = [b \in Bands |-> IF b \in DOMAIN FirstNames THEN <<0>> ELSE <<>>]
      /\ context = [l \in Lives |-> [b \in Bands |->
                       IF b \in live[l].bands THEN [name |-> 1, base |-> 1, next |-> 0] ELSE NoContext]]
      /\ setlist = [l \in Lives |-> {}]
  BY <1>2 DEF LiveInit
<1>5. \A c \in Clients : txn[c] = Idle
  BY <1>2 DEF TxnInit
<1>6. TxnInv
  BY <1>2, <1>5 DEF TxnInit, TxnInv, TxnType, LocksApart, Idle
<1>7. Requests
  <2>1. LiveRequest(NoRequest)
    BY DEF LiveRequest, NoRequest, SetlistKinds
  <2> QED
    BY <1>3, <1>5, <2>1 DEF Requests, Idle
<1>8. \A c \in Clients : Sound(c)
  BY <1>5 DEF Idle, NoRequest, Sound, UpdateSound, SetlistSound, CreateSound, HandoverSound, BandSound,
              NameSound, SetlistKinds
<1>9. LiveTypeOK
  <2>1. context \in [Lives -> [Bands -> Context]]
    <3>1. [name |-> 1, base |-> 1, next |-> 0] \in Context
      BY DEF Context
    <3> QED
      BY <1>4, <3>1, NoContextIsContext
  <2>2. names \in [Bands -> Seq(Names)]
    <3>1. \A b \in DOMAIN FirstNames : <<FirstNames[b]>> \in Seq(Names)
      BY LiveConstants
    <3> QED
      BY <1>4, <3>1
  <2>3. lineups \in [Bands -> Seq(Lives \union {0})]
    <3>1. <<0>> \in Seq(Lives \union {0}) /\ <<>> \in Seq(Lives \union {0})
      OBVIOUS
    <3> QED
      BY <1>4, <3>1
  <2>4. setlist \in [Lives -> SUBSET Performance]
    BY <1>4
  <2> QED
    BY <1>3, <2>1, <2>2, <2>3, <2>4 DEF LiveTypeOK
<1>10. ContextsKnown
  <2>1. \A l \in Lives, b \in Bands : context[l][b].next = 0
    BY <1>4, NoContextIsContext
  <2>2. \A b \in Bands : Len(lineups[b]) \in Nat
    BY <1>9 DEF LiveTypeOK
  <2>3. \A l \in Lives : ~Exists(l) => \A b \in Bands : context[l][b] = NoContext
    BY <1>3, <1>4 DEF Exists
  <2>4. \A b \in Bands : ~Created(b) => lineups[b] = <<>>
    BY <1>4 DEF Created
  <2> QED
    BY <2>1, <2>2, <2>3, <2>4 DEF ContextsKnown
<1>11. SetlistKeepsItsDay /\ PerformancesHaveContext
  BY <1>4 DEF SetlistKeepsItsDay, PerformancesHaveContext
<1>12. CreatedNamesDiffer
  BY <1>4, FirstNamesDiffer DEF CreatedNamesDiffer, Created
<1>13. Policy!PolicyInit
  <2>1. ASSUME NEW l \in Lives PROVE Policy!WithContext(context[l]) = live[l].bands
    <3>1. live[l].bands \subseteq Bands
      BY <1>3 DEF LiveRow
    <3> QED
      BY <1>4, <3>1 DEF Policy!WithContext, Policy!NoContext, NoContext
  <2> QED
    BY <1>4, <2>1 DEF Policy!PolicyInit
<1> QED
  BY <1>6, <1>7, <1>8, <1>9, <1>10, <1>11, <1>12, <1>13 DEF ConsoleInv, LiveState

(* The inductive invariant: what a transaction checked still holds while it
   waits to store, because of the locks it holds. *)
THEOREM ConsoleInvariant == Spec => []ConsoleInv
<1>1. Init => ConsoleInv
  BY ConsoleBegins
<1>2. ConsoleInv /\ [Next]_vars => ConsoleInv'
  BY ConsoleStep
<1> QED
  BY <1>1, <1>2, PTL DEF Spec

(* Every commit of the write endpoints that concern Lives, band history and
   setlists is a step LivePolicy allows, whatever their transactions read
   before they waited for locks and whatever ran in between; except a handover
   whose Live was changed while it waited, which LivePolicy may refuse. *)
THEOREM LivesObeyPolicyAlways == Spec => LivesObeyPolicy
<1>1. Init => Policy!PolicyInit
  BY ConsoleBegins
<1>2. ConsoleInv /\ [Next]_vars => [Policy!PolicyNext \/ LateHandover]_<<live, setlist, context>>
  BY ConsoleStep DEF Lawful
<1> QED
  BY <1>1, <1>2, ConsoleInvariant, PTL DEF Spec, LivesObeyPolicy

(* A Live with a setlist is never cancelled and never in the future: the row
   lock that update_live and the setlist handlers take covers check and write. *)
THEOREM SetlistKeepsItsDayAlways == Spec => []SetlistKeepsItsDay
<1>1. ConsoleInv => SetlistKeepsItsDay
  BY DEF ConsoleInv, LiveState
<1> QED
  BY <1>1, ConsoleInvariant, PTL

(* Every performing band has its line-up context, and one that performs in its
   next line-up performs where the handover took place. *)
THEOREM PerformancesHaveContextAlways == Spec => []PerformancesHaveContext
<1>1. ConsoleInv => PerformancesHaveContext
  BY DEF ConsoleInv, LiveState
<1> QED
  BY <1>1, ConsoleInvariant, PTL

(* Two bands never begin with the same name: create_band's advisory lock covers
   the search for the name and the insert. *)
THEOREM CreatedNamesDifferAlways == Spec => []CreatedNamesDiffer
<1>1. ConsoleInv => CreatedNamesDiffer
  BY DEF ConsoleInv, LiveState
<1> QED
  BY <1>1, ConsoleInvariant, PTL

(* No step overwrites a recorded handover, except one that takes the band off
   the Live. *)
THEOREM HandoverNotLostAlways == Spec => HandoverNotLost
<1>1. ConsoleInv /\ [Next]_vars =>
         [\A l \in Lives, b \in Bands :
             context[l][b].next # 0 => context'[l][b].next = context[l][b].next \/ b \notin live'[l].bands]_vars
  BY ConsoleStep DEF Lawful, HandoverKept
<1> QED
  BY <1>1, ConsoleInvariant, PTL DEF Spec, HandoverNotLost

----------------------------------------------------------------------------
(* Venues and collections. *)
AllLiveKinds == LiveKinds \union FavoriteKinds

LEMMA LiveTurn ==
    ASSUME TxnType, NEW c \in Clients,
           (\E req \in workload : LiveStart(c, req)) \/ LiveStep(c)
    PROVE  Turn(c) /\ OfKinds(txn'[c], AllLiveKinds)
<1> USE BeginKind, ContinueKind, FinishKind DEF AllLiveKinds, LiveKinds, FavoriteKinds, SetlistKinds
<1>1. CASE \E req \in workload : StartCreateLive(c, req)
  BY <1>1 DEF StartCreateLive
<1>2. CASE \E req \in workload : StartUpdateLive(c, req)
  BY <1>2 DEF StartUpdateLive
<1>3. CASE \E req \in workload : StartSetlist(c, req)
  BY <1>3 DEF StartSetlist
<1>4. CASE \E req \in workload : StartCreateBand(c, req)
  BY <1>4 DEF StartCreateBand
<1>5. CASE \E req \in workload : StartNameVersion(c, req)
  BY <1>5 DEF StartNameVersion
<1>6. CASE \E req \in workload : StartLineupVersion(c, req)
  BY <1>6 DEF StartLineupVersion
<1>7. CASE \E req \in workload : StartFavorites(c, req)
  BY <1>7 DEF StartFavorites
<1>8. CASE ValidateNewLive(c)
  BY <1>8 DEF ValidateNewLive, Ready
<1>9. CASE InsertLive(c)
  BY <1>9 DEF InsertLive, Ready
<1>10. CASE CheckUpdate(c)
  BY <1>10 DEF CheckUpdate, Ready
<1>11. CASE StoreUpdate(c)
  BY <1>11 DEF StoreUpdate, Ready
<1>12. CASE CheckSetlist(c)
  BY <1>12 DEF CheckSetlist, Ready
<1>13. CASE StoreSetlist(c)
  BY <1>13 DEF StoreSetlist, Ready
<1>14. CASE AllocateBandId(c)
  BY <1>14 DEF AllocateBandId, Ready
<1>15. CASE InsertBand(c)
  BY <1>15 DEF InsertBand, Ready
<1>16. CASE CheckNameVersion(c)
  BY <1>16 DEF CheckNameVersion, Ready
<1>17. CASE StoreNameVersion(c)
  BY <1>17 DEF StoreNameVersion, Ready
<1>18. CASE LockOpenLineup(c)
  BY <1>18 DEF LockOpenLineup, Ready
<1>19. CASE CheckHandover(c)
  BY <1>19 DEF CheckHandover, Ready
<1>20. CASE StoreLineupVersion(c)
  BY <1>20 DEF StoreLineupVersion, Ready
<1>21. CASE CheckFavorite(c)
  BY <1>21 DEF CheckFavorite, Ready
<1>22. CASE InsertFavorite(c)
  BY <1>22 DEF InsertFavorite, Ready
<1>23. CASE StoreFavorite(c)
  BY <1>23 DEF StoreFavorite, Ready
<1>24. CASE RemoveFavorites(c)
  BY <1>24 DEF RemoveFavorites, Ready
<1>25. CASE KeepFavorites(c)
  BY <1>25 DEF KeepFavorites, Ready
<1> QED
  BY <1>1, <1>2, <1>3, <1>4, <1>5, <1>6, <1>7, <1>8, <1>9, <1>10, <1>11, <1>12, <1>13, <1>14, <1>15, <1>16, <1>17, <1>18, <1>19, <1>20, <1>21, <1>22, <1>23, <1>24, <1>25 DEF LiveStart, LiveStep

----------------------------------------------------------------------------
Scopes == {"none", "physical", "online", "undisclosed"}

\* What a transaction that gives a name has locked and seen.
NamingSound(c) ==
    LET t == txn[c] IN
    /\ \/ t.req.kind = "create_venue" /\ t.at = "check"
       \/ t.req.kind \in {"rename_venue", "edit_venue"} /\ t.at = "name"
       => HasOrTakes(t, Registry)
    /\ t.at = "store" /\ (t.req.kind = "create_venue" \/ Renames(t.req)) =>
          Registry \in t.held /\ ~NameTaken(t.req.name)
    /\ t.req.kind \in {"save_location", "edit_venue"} /\ t.at \in {"registry", "name", "store"} =>
          t.seen.kind \in Scopes

VenueRequests ==
    /\ \A r \in workload : VenueRequest(r)
    /\ \A c \in Clients : VenueRequest(txn[c].req)

VenueState == venue \in [Venues -> VenueRow] /\ VenueNamesUnique

VenueInv == TxnInv /\ VenueRequests /\ VenueState /\ \A c \in Clients : NamingSound(c)

NamesKept == \A v \in Venues : venue'[v].names = venue[v].names

LEMMA NamingStays ==
    ASSUME VenueInv, NEW d \in Clients, txn'[d] = txn[d], Registry \in txn[d].held => NamesKept
    PROVE  NamingSound(d)'
<1>1. NamingSound(d)
  BY DEF VenueInv
<1>2. ASSUME NamesKept, NEW name PROVE NameTaken(name)' <=> NameTaken(name)
  BY <1>2 DEF NameTaken, NamesKept
<1> QED
  BY <1>1, <1>2 DEF NamingSound, HasOrTakes

LEMMA VenueFrame ==
    ASSUME VenueInv, NEW c \in Clients, TxnType', LocksApart', Others(c), workload' = workload,
           txn'[c].req \in workload \union {txn[c].req, NoRequest}, VenueState', NamingSound(c)',
           \A d \in Clients : d # c => (Registry \in txn[d].held => NamesKept)
    PROVE  VenueInv'
<1>1. \A d \in Clients : NamingSound(d)'
  BY NamingStays DEF Others
<1>2. VenueRequest(NoRequest)
  BY DEF VenueRequest, NoRequest, FormKinds
<1>3. VenueRequests'
  <2>1. VenueRequests
    BY DEF VenueInv
  <2>2. \A d \in Clients : VenueRequest(txn'[d].req)
    BY <1>2, <2>1 DEF VenueRequests, Others
  <2> QED
    BY <2>1, <2>2 DEF VenueRequests, VenueRequest
<1> QED
  BY <1>1, <1>3 DEF VenueInv, TxnInv

\* A step that leaves the venues alone.
LEMMA SameVenues ==
    ASSUME VenueInv, UNCHANGED venue
    PROVE  VenueState' /\ NamesKept
  BY DEF VenueInv, VenueState, VenueNamesUnique, NamesKept

LEMMA SameVenuesTurn ==
    ASSUME VenueInv, NEW c \in Clients, Turn(c), UNCHANGED venue, NamingSound(c)'
    PROVE  VenueInv'
<1>1. LocksApart'
  BY TurnKeepsApart DEF VenueInv, TxnInv
<1> QED
  BY <1>1, SameVenues, VenueFrame DEF Turn

NamingKinds == {"create_venue", "rename_venue", "save_location", "edit_venue"}

LEMMA OtherKindsName ==
    ASSUME NEW c \in Clients, txn'[c].req.kind \notin NamingKinds
    PROVE  NamingSound(c)'
  BY DEF NamingKinds, NamingSound, Renames

LEMMA VenueFinish ==
    ASSUME VenueInv, NEW c \in Clients, Finish(c)
    PROVE  Turn(c) /\ NamingSound(c)'
<1>1. Turn(c) /\ txn'[c] = Idle
  BY FinishTurn DEF VenueInv, TxnInv
<1>2. txn'[c].req.kind \notin NamingKinds
  BY <1>1 DEF Idle, NoRequest, NamingKinds
<1> QED
  BY <1>1, <1>2, OtherKindsName

\* Lives, collections and songs.
LEMMA NotVenueStep ==
    ASSUME VenueInv, NEW c \in Clients, LivesNext(c) \/ CollectionsNext(c) \/ SongsNext(c)
    PROVE  VenueInv'
<1>1. PICK kinds : Turn(c) /\ OfKinds(txn'[c], kinds) /\ (kinds \union {"none"}) \cap NamingKinds = {}
  <2>1. TxnType
    BY DEF VenueInv, TxnInv
  <2>2. CASE CollectionsNext(c)
    <3>1. Turn(c) /\ OfKinds(txn'[c], CollectionKinds)
      BY <2>1, <2>2, CollectionTurn DEF CollectionsNext
    <3> QED
      BY <3>1 DEF CollectionKinds, NamingKinds
  <2>3. CASE LivesNext(c)
    <3>1. Turn(c) /\ OfKinds(txn'[c], AllLiveKinds)
      BY <2>1, <2>3, LiveTurn DEF LivesNext
    <3> QED
      BY <3>1 DEF AllLiveKinds, LiveKinds, FavoriteKinds, SetlistKinds, NamingKinds
  <2>4. CASE SongsNext(c)
    <3>1. Turn(c) /\ OfKinds(txn'[c], SongKinds)
      BY <2>1, <2>4, SongTurn DEF SongsNext
    <3> QED
      BY <3>1 DEF SongKinds, SongForms, NamingKinds
  <2> QED
    BY <2>2, <2>3, <2>4
<1>2. UNCHANGED venue
  BY DEF LivesNext, CollectionsNext, SongsNext, venueVars
<1>3. NamingSound(c)'
  BY <1>1, OtherKindsName DEF OfKinds
<1> QED
  BY <1>1, <1>2, <1>3, SameVenuesTurn

LEMMA VenueDatabaseStep ==
    ASSUME VenueInv, NEW c \in Clients, DatabaseNext(c)
    PROVE  VenueInv'
<1>1. UNCHANGED venue
  BY DEF DatabaseNext, venueVars
<1>2. CASE RollBack(c)
  BY <1>1, <1>2, VenueFinish, SameVenuesTurn DEF RollBack
<1>3. CASE TakeLock(c)
  <2>1. /\ TxnType' /\ Others(c) /\ workload' = workload
        /\ txn'[c] = [at |-> txn[c].at, req |-> txn[c].req, seen |-> txn[c].seen,
                      plan |-> Tail(txn[c].plan), held |-> txn[c].held \union {Head(txn[c].plan)}]
    BY <1>3, TakeTurn DEF VenueInv, TxnInv
  <2>2. LocksApart'
    BY <1>3, TakeKeepsApart DEF VenueInv
  <2>3. \A lock : HasOrTakes(txn[c], lock) => HasOrTakes(txn'[c], lock)
    <3>1. SUFFICES ASSUME NEW lock, txn[c].plan = <<lock>> PROVE lock \in txn'[c].held
      BY <2>1 DEF HasOrTakes
    <3>2. Head(txn[c].plan) = lock
      BY <3>1
    <3> QED
      BY <2>1, <3>2
  <2>4. NamingSound(c)'
    <3>1. NamingSound(c)
      BY DEF VenueInv
    <3>2. \A name : NameTaken(name)' <=> NameTaken(name)
      BY <1>1 DEF NameTaken
    <3>3. /\ txn'[c].at = txn[c].at /\ txn'[c].req = txn[c].req /\ txn'[c].seen = txn[c].seen
          /\ txn[c].held \subseteq txn'[c].held
      BY <2>1
    <3> QED
      BY <2>3, <3>1, <3>2, <3>3 DEF NamingSound
  <2> QED
    BY <1>1, <2>1, <2>2, <2>4, SameVenues, VenueFrame
<1> QED
  BY <1>2, <1>3 DEF DatabaseNext

----------------------------------------------------------------------------
LEMMA VenueContinues ==
    ASSUME VenueInv, NEW c \in Clients, NEW step, NEW seen, NEW plan, Continue(c, step, seen, plan)
    PROVE  Turn(c) /\ txn'[c] = [at |-> step, req |-> txn[c].req, seen |-> seen, plan |-> plan,
                                 held |-> txn[c].held]
  BY ContinueTurn DEF VenueInv, TxnInv

LEMMA VenueStartStep ==
    ASSUME VenueInv, NEW c \in Clients, NEW req \in workload, VenueStart(c, req)
    PROVE  VenueInv'
<1> DEFINE Begun(step, plan) ==
       Turn(c) /\ txn'[c] = [at |-> step, req |-> req, seen |-> <<>>, plan |-> plan, held |-> {}]
<1>1. ASSUME NEW step, NEW plan, Begin(c, req, step, plan) PROVE Begun(step, plan)
  BY <1>1, BeginTurn DEF VenueInv, TxnInv
<1> HIDE DEF Begun
<1>2. UNCHANGED venue
  BY DEF VenueStart, StartCreateVenue, StartUpdateVenue, StartRename, OpenVenueForm, StartCreateLocality, venueVars
<1>3. Turn(c) /\ NamingSound(c)'
  <2> USE DEF Begun, NamingSound, HasOrTakes, Renames
  <2>1. CASE StartCreateVenue(c, req)
    <3>1. Begun("check", <<Registry>>) /\ req.kind = "create_venue"
      BY <2>1, <1>1 DEF StartCreateVenue
    <3> QED
      BY <3>1
  <2>2. CASE StartUpdateVenue(c, req)
    <3>1. Begun("store", <<VenueLock(req.venue)>>) /\ req.kind = "update_venue"
      BY <2>2, <1>1 DEF StartUpdateVenue
    <3> QED
      BY <3>1
  <2>3. CASE StartRename(c, req)
    <3>1. Begun("registry", <<VenueLock(req.venue)>>) /\ req.kind = "rename_venue"
      BY <2>3, <1>1 DEF StartRename
    <3> QED
      BY <3>1
  <2>4. CASE OpenVenueForm(c, req)
    <3>1. Begun("form", <<>>) /\ req.kind \in FormKinds \union {"save_locality"}
      BY <2>4, <1>1 DEF OpenVenueForm
    <3> QED
      BY <3>1 DEF FormKinds
  <2>5. CASE StartCreateLocality(c, req)
    <3>1. Begun("check", <<>>) /\ req.kind = "create_locality"
      BY <2>5, <1>1 DEF StartCreateLocality
    <3> QED
      BY <3>1
  <2> QED
    BY <2>1, <2>2, <2>3, <2>4, <2>5 DEF VenueStart
<1> QED
  BY <1>2, <1>3, SameVenuesTurn

\* The steps that check and lock.
LEMMA VenueCheckStep ==
    ASSUME VenueInv, NEW c \in Clients,
           CheckNewVenue(c) \/ LockNameRegistry(c) \/ CheckNewName(c) \/ SendVenueForm(c) \/ ValidatePlace(c)
    PROVE  VenueInv'
<1>0. PICK t : t = txn[c]
  OBVIOUS
<1>1. UNCHANGED venue
  BY DEF CheckNewVenue, LockNameRegistry, CheckNewName, SendVenueForm, ValidatePlace, venueVars
<1>2. \A name : NameTaken(name)' <=> NameTaken(name)
  BY <1>1 DEF NameTaken
<1>3. NamingSound(c) /\ venue \in [Venues -> VenueRow] /\ VenueRequest(t.req)
  BY <1>0 DEF VenueInv, VenueState, VenueRequests
<1>4. CASE CheckNewVenue(c)
  <2>1. PICK p : Ready(c, {"create_venue"}, "check") /\ ~NameTaken(t.req.name) /\ Continue(c, "store", <<>>, p)
    BY <1>0, <1>4 DEF CheckNewVenue
  <2>2. Registry \in t.held
    BY <1>0, <1>3, <2>1, HasWhenReady DEF NamingSound, Ready
  <2>3. Turn(c) /\ txn'[c] = [at |-> "store", req |-> t.req, seen |-> <<>>, plan |-> p, held |-> t.held]
    BY <1>0, <2>1, VenueContinues
  <2>4. NamingSound(c)'
    BY <1>0, <1>2, <2>1, <2>2, <2>3 DEF NamingSound, Ready
  <2> QED
    BY <1>1, <2>3, <2>4, SameVenuesTurn
<1>5. CASE LockNameRegistry(c)
  <2>1. Ready(c, {"rename_venue", "edit_venue"}, "registry") /\ Continue(c, "name", t.seen, <<Registry>>)
    BY <1>0, <1>5 DEF LockNameRegistry
  <2>2. Turn(c) /\ txn'[c] = [at |-> "name", req |-> t.req, seen |-> t.seen, plan |-> <<Registry>>, held |-> t.held]
    BY <1>0, <2>1, VenueContinues
  <2>3. NamingSound(c)'
    BY <1>0, <1>3, <2>1, <2>2 DEF NamingSound, Ready, HasOrTakes
  <2> QED
    BY <1>1, <2>2, <2>3, SameVenuesTurn
<1>6. CASE CheckNewName(c)
  <2>1. PICK p : /\ Ready(c, {"rename_venue", "edit_venue"}, "name") /\ ~NameTaken(t.req.name)
                 /\ Continue(c, "store", t.seen, p)
    BY <1>0, <1>6 DEF CheckNewName
  <2>2. Registry \in t.held
    BY <1>0, <1>3, <2>1, HasWhenReady DEF NamingSound, Ready
  <2>3. Turn(c) /\ txn'[c] = [at |-> "store", req |-> t.req, seen |-> t.seen, plan |-> p, held |-> t.held]
    BY <1>0, <2>1, VenueContinues
  <2>4. NamingSound(c)'
    BY <1>0, <1>2, <1>3, <2>1, <2>2, <2>3 DEF NamingSound, Ready
  <2> QED
    BY <1>1, <2>3, <2>4, SameVenuesTurn
<1>7. CASE SendVenueForm(c)
  <2>1. PICK s, p : Ready(c, FormKinds, "form") /\ Continue(c, "validate", s, p)
    BY <1>7 DEF SendVenueForm
  <2>2. Turn(c) /\ txn'[c] = [at |-> "validate", req |-> t.req, seen |-> s, plan |-> p, held |-> t.held]
    BY <1>0, <2>1, VenueContinues
  <2>3. NamingSound(c)'
    BY <2>2 DEF NamingSound
  <2> QED
    BY <1>1, <2>2, <2>3, SameVenuesTurn
<1>8. CASE ValidatePlace(c)
  <2>1. PICK step, seen, p :
           /\ Ready(c, {"save_location", "edit_venue"}, "validate")
           /\ step = (IF Renames(t.req) THEN "registry" ELSE "store")
           /\ seen.kind = IF t.req.kind = "edit_venue" THEN t.req.venue_kind ELSE venue[t.req.venue].kind
           /\ Continue(c, step, seen, p)
    BY <1>0, <1>8 DEF ValidatePlace
  <2>2. seen.kind \in Scopes
    <3>1. t.req.kind \in {"save_location", "edit_venue"}
      BY <1>0, <2>1 DEF Ready
    <3> QED
      BY <1>3, <2>1, <3>1 DEF VenueRequest, FormKinds, Scopes, VenueRow
  <2>3. Turn(c) /\ txn'[c] = [at |-> step, req |-> t.req, seen |-> seen, plan |-> p, held |-> t.held]
    BY <1>0, <2>1, VenueContinues
  <2>4. NamingSound(c)'
    BY <1>0, <2>1, <2>2, <2>3 DEF NamingSound, Ready
  <2> QED
    BY <1>1, <2>3, <2>4, SameVenuesTurn
<1> QED
  BY <1>4, <1>5, <1>6, <1>7, <1>8

LEMMA LocalityStep ==
    ASSUME VenueInv, NEW c \in Clients,
           \/ CheckNewLocality(c) \/ InsertLocality(c) \/ SendLocalityForm(c) \/ ValidateLocality(c)
           \/ StoreLocality(c)
    PROVE  VenueInv'
<1> DEFINE kinds == {"create_locality", "save_locality"}
<1>1. Turn(c) /\ OfKinds(txn'[c], kinds)
  <2> USE ContinueKind, FinishKind DEF Ready, VenueInv, TxnInv
  <2>1. CASE CheckNewLocality(c)
    BY <2>1 DEF CheckNewLocality
  <2>2. CASE InsertLocality(c)
    BY <2>2 DEF InsertLocality
  <2>3. CASE SendLocalityForm(c)
    BY <2>3 DEF SendLocalityForm
  <2>4. CASE ValidateLocality(c)
    BY <2>4 DEF ValidateLocality
  <2>5. CASE StoreLocality(c)
    BY <2>5 DEF StoreLocality
  <2> QED
    BY <2>1, <2>2, <2>3, <2>4, <2>5
<1>2. UNCHANGED venue
  BY DEF CheckNewLocality, InsertLocality, SendLocalityForm, ValidateLocality, StoreLocality, venueVars
<1>3. NamingSound(c)'
  BY <1>1, OtherKindsName DEF OfKinds, NamingKinds
<1> QED
  BY <1>1, <1>2, <1>3, SameVenuesTurn

----------------------------------------------------------------------------
\* A step that stores one venue, and perhaps a name nobody uses.
LEMMA VenueChange ==
    ASSUME VenueInv, NEW c \in Clients, NEW w, NEW row, NEW name, Finish(c),
           venue' = [venue EXCEPT ![w] = row],
           w \in Venues => row \in VenueRow,
           \/ w \in Venues => row.names = venue[w].names
           \/ /\ Registry \in txn[c].held /\ ~NameTaken(name)
              /\ w \in Venues => row.names = <<name>> \/ row.names = Append(venue[w].names, name)
    PROVE  VenueInv'
<1>1. venue \in [Venues -> VenueRow] /\ VenueNamesUnique
  BY DEF VenueInv, VenueState
<1>2. /\ \A v \in Venues \ {w} : venue'[v] = venue[v]
      /\ w \in Venues => venue'[w] = row
      /\ venue' \in [Venues -> VenueRow]
  BY <1>1
<1>3. \A v \in Venues : venue[v].names \in Seq(STRING) /\ venue'[v].names \in Seq(STRING)
  BY <1>1, <1>2 DEF VenueRow
<1>4. CASE w \in Venues => row.names = venue[w].names
  <2>1. \A v \in Venues : venue'[v].names = venue[v].names
    BY <1>2, <1>4
  <2>2. VenueState' /\ NamesKept
    BY <1>1, <1>2, <2>1 DEF VenueState, VenueNamesUnique, NamesKept
  <2> QED
    BY <2>2, VenueFinish, VenueFrame, TurnKeepsApart DEF Turn, VenueInv, TxnInv
<1>5. CASE /\ Registry \in txn[c].held /\ ~NameTaken(name)
           /\ w \in Venues => row.names = <<name>> \/ row.names = Append(venue[w].names, name)
  <2>1. ASSUME NEW v \in Venues, NEW i \in DOMAIN venue[v].names PROVE venue[v].names[i] # name
    BY <1>5, <2>1 DEF NameTaken, Range
  <2>2. ASSUME NEW v \in Venues, NEW i \in DOMAIN venue'[v].names
        PROVE  \/ i \in DOMAIN venue[v].names /\ venue'[v].names[i] = venue[v].names[i]
               \/ v = w /\ venue'[v].names[i] = name /\ i = Len(venue'[v].names)
    <3>1. CASE v # w
      BY <1>2, <3>1
    <3>2. CASE v = w /\ row.names = <<name>>
      <4>1. venue'[v].names = <<name>> /\ i \in DOMAIN <<name>>
        BY <1>2, <2>2, <3>2
      <4>2. i = 1 /\ Len(<<name>>) = 1 /\ <<name>>[1] = name
        BY <4>1
      <4> QED
        BY <3>2, <4>1, <4>2
    <3>3. CASE v = w /\ row.names = Append(venue[w].names, name)
      <4>1. venue'[v].names = Append(venue[v].names, name) /\ venue[v].names \in Seq(STRING)
        BY <1>2, <1>3, <3>3
      <4> QED
        BY <3>3, <4>1
    <3> QED
      BY <1>5, <3>1, <3>2, <3>3
  <2>3. VenueNamesUnique'
    <3>1. SUFFICES ASSUME NEW v \in Venues, NEW u \in Venues,
                          NEW i \in DOMAIN venue'[v].names, NEW j \in DOMAIN venue'[u].names,
                          venue'[v].names[i] = venue'[u].names[j]
                   PROVE  v = u /\ i = j
      BY DEF VenueNamesUnique
    <3> QED
      BY <1>1, <2>1, <2>2, <3>1 DEF VenueNamesUnique
  <2>4. \A d \in Clients : d # c => Registry \notin txn[d].held
    <3>1. SUFFICES ASSUME NEW d \in Clients, d # c, Registry \in txn[d].held PROVE FALSE
      OBVIOUS
    <3>2. ~Conflict(Registry.mode, Registry.mode)
      BY <1>5, <3>1 DEF VenueInv, TxnInv, LocksApart
    <3> QED
      BY <3>2 DEF Registry, Lock, Conflict
  <2>5. Turn(c) /\ NamingSound(c)'
    BY VenueFinish
  <2>6. LocksApart'
    BY <2>5, TurnKeepsApart DEF VenueInv, TxnInv
  <2>7. VenueState'
    BY <1>2, <2>3 DEF VenueState
  <2> QED
    BY <2>4, <2>5, <2>6, <2>7, VenueFrame DEF Turn
<1> QED
  BY <1>4, <1>5

LEMMA VenueStoreStep ==
    ASSUME VenueInv, NEW c \in Clients,
           \/ InsertVenue(c) \/ StoreVenueKind(c) \/ StoreRename(c) \/ StorePlace(c)
           \/ SaveMapLink(c) \/ DeleteMapLink(c)
    PROVE  VenueInv'
<1>0. PICK req, seen, v : req = txn[c].req /\ seen = txn[c].seen /\ v = req.venue
  OBVIOUS
<1>1. NamingSound(c) /\ venue \in [Venues -> VenueRow] /\ VenueRequest(req)
  BY <1>0 DEF VenueInv, VenueState, VenueRequests
<1>2. CASE InsertVenue(c)
  <2>1. PICK w, row :
           /\ Ready(c, {"create_venue"}, "store") /\ Finish(c)
           /\ row = [kind |-> req.venue_kind, place |-> req.place,
                     links |-> IF req.google = "set" THEN {"google"} ELSE {}, names |-> <<req.name>>]
           /\ venue' = [venue EXCEPT ![w] = row]
    BY <1>0, <1>2 DEF InsertVenue
  <2>2. req.kind = "create_venue" /\ Registry \in txn[c].held /\ ~NameTaken(req.name)
    BY <1>0, <1>1, <2>1 DEF Ready, NamingSound
  <2>3. row \in VenueRow /\ row.names = <<req.name>>
    <3>1. /\ req.venue_kind \in {"physical", "online", "undisclosed"} /\ req.place \in PlaceRow
          /\ req.name \in STRING
      BY <1>1, <2>2 DEF VenueRequest
    <3>2. <<req.name>> \in Seq(STRING)
      BY <3>1
    <3>3. PICK links : links = IF req.google = "set" THEN {"google"} ELSE {}
      OBVIOUS
    <3>4. links \in SUBSET MapProviders
      BY <3>3 DEF MapProviders
    <3>5. row = [kind |-> req.venue_kind, place |-> req.place, links |-> links, names |-> <<req.name>>]
      BY <2>1, <3>3
    <3> QED
      BY <3>1, <3>2, <3>4, <3>5 DEF VenueRow
  <2> QED
    BY <2>1, <2>2, <2>3, VenueChange
<1>3. CASE StoreVenueKind(c)
  <2>1. /\ Ready(c, {"update_venue"}, "store") /\ Finish(c)
        /\ venue' = [venue EXCEPT ![v].kind = req.venue_kind]
    BY <1>0, <1>3 DEF StoreVenueKind
  <2>2. v \in Venues /\ req.venue_kind \in {"physical", "online", "undisclosed"} /\ venue[v] \in VenueRow
    BY <1>0, <1>1, <2>1 DEF Ready, VenueRequest
  <2>3. PICK row : row = [venue[v] EXCEPT !.kind = req.venue_kind]
    OBVIOUS
  <2>4. row \in VenueRow /\ row.names = venue[v].names /\ venue' = [venue EXCEPT ![v] = row]
    BY <1>1, <2>1, <2>2, <2>3 DEF VenueRow
  <2> QED
    BY <2>1, <2>2, <2>4, VenueChange
<1>4. CASE StoreRename(c)
  <2>1. /\ Ready(c, {"rename_venue"}, "store") /\ Finish(c)
        /\ venue' = [venue EXCEPT ![v].names = Append(@, req.name)]
    BY <1>0, <1>4 DEF StoreRename
  <2>2. v \in Venues /\ req.name \in STRING /\ venue[v] \in VenueRow /\ Registry \in txn[c].held /\ ~NameTaken(req.name)
    BY <1>0, <1>1, <2>1 DEF Ready, VenueRequest, NamingSound, Renames
  <2>3. PICK row : row = [venue[v] EXCEPT !.names = Append(venue[v].names, req.name)]
    OBVIOUS
  <2>4. Append(venue[v].names, req.name) \in Seq(STRING)
    BY <2>2 DEF VenueRow
  <2>5. row \in VenueRow /\ row.names = Append(venue[v].names, req.name)
    BY <2>2, <2>3, <2>4 DEF VenueRow
  <2>6. venue' = [venue EXCEPT ![v] = row]
    BY <1>1, <2>1, <2>2, <2>3
  <2> QED
    BY <2>1, <2>2, <2>5, <2>6, VenueChange
<1>5. CASE StorePlace(c)
  <2>1. PICK links, row :
           /\ Ready(c, {"save_location", "edit_venue"}, "store") /\ Finish(c)
           /\ links = CASE req.google = "keep" -> venue[v].links
                        [] req.google = "set"  -> venue[v].links \union {"google"}
                        [] OTHER               -> venue[v].links \ {"google"}
           /\ row = [kind |-> seen.kind, place |-> req.place, links |-> links,
                     names |-> IF Renames(req) THEN Append(venue[v].names, req.name) ELSE venue[v].names]
           /\ v \in Venues /\ venue' = [venue EXCEPT ![v] = row]
    <3>1. Ready(c, {"save_location", "edit_venue"}, "store")
      BY <1>5 DEF StorePlace
    <3>2. v \in Venues
      BY <1>0, <1>1, <3>1 DEF Ready, VenueRequest, FormKinds
    <3> QED
      BY <1>0, <1>1, <1>5, <3>1, <3>2 DEF StorePlace
  <2>2. /\ req.kind \in {"save_location", "edit_venue"} /\ seen.kind \in Scopes
        /\ Renames(req) => Registry \in txn[c].held /\ ~NameTaken(req.name) /\ req.name \in STRING
    BY <1>0, <1>1, <2>1 DEF Ready, NamingSound, VenueRequest, Renames
  <2>3. venue[v].links \in SUBSET MapProviders /\ venue[v].names \in Seq(STRING)
    BY <1>1, <2>1 DEF VenueRow
  <2>4. links \in SUBSET MapProviders
    BY <2>1, <2>3 DEF MapProviders
  <2>5. row \in VenueRow
    <3>1. req.place \in PlaceRow
      BY <1>1, <2>2 DEF VenueRequest
    <3>2. PICK given : given = IF Renames(req) THEN Append(venue[v].names, req.name) ELSE venue[v].names
      OBVIOUS
    <3>3. given \in Seq(STRING)
      <4>1. req.name \in STRING => Append(venue[v].names, req.name) \in Seq(STRING)
        BY <2>3
      <4> QED
        BY <2>2, <2>3, <3>2, <4>1
    <3>4. row = [kind |-> seen.kind, place |-> req.place, links |-> links, names |-> given]
      BY <2>1, <3>2
    <3> QED
      BY <2>2, <2>4, <3>1, <3>3, <3>4 DEF VenueRow, Scopes
  <2>6. row.names = IF Renames(req) THEN Append(venue[v].names, req.name) ELSE venue[v].names
    BY <2>1
  <2> QED
    BY <2>1, <2>2, <2>5, <2>6, VenueChange
<1>6. CASE SaveMapLink(c)
  <2>1. /\ Ready(c, {"save_map_link"}, "validate") /\ Finish(c)
        /\ venue' = [venue EXCEPT ![v].links = @ \union {req.provider}]
    BY <1>0, <1>6 DEF SaveMapLink
  <2>2. v \in Venues /\ req.provider \in MapProviders /\ venue[v] \in VenueRow
    BY <1>0, <1>1, <2>1 DEF Ready, VenueRequest, FormKinds
  <2>3. PICK row : row = [venue[v] EXCEPT !.links = venue[v].links \union {req.provider}]
    OBVIOUS
  <2>4. row \in VenueRow /\ row.names = venue[v].names /\ venue' = [venue EXCEPT ![v] = row]
    BY <1>1, <2>1, <2>2, <2>3 DEF VenueRow
  <2> QED
    BY <2>1, <2>2, <2>4, VenueChange
<1>7. CASE DeleteMapLink(c)
  <2>1. /\ Ready(c, {"delete_map_link"}, "validate") /\ Finish(c)
        /\ venue' = [venue EXCEPT ![v].links = @ \ {req.provider}]
    BY <1>0, <1>7 DEF DeleteMapLink
  <2>2. v \in Venues /\ venue[v] \in VenueRow
    BY <1>0, <1>1, <2>1 DEF Ready, VenueRequest, FormKinds
  <2>3. PICK row : row = [venue[v] EXCEPT !.links = venue[v].links \ {req.provider}]
    OBVIOUS
  <2>4. row \in VenueRow /\ row.names = venue[v].names /\ venue' = [venue EXCEPT ![v] = row]
    BY <1>1, <2>1, <2>2, <2>3 DEF VenueRow
  <2> QED
    BY <2>1, <2>2, <2>4, VenueChange
<1> QED
  BY <1>2, <1>3, <1>4, <1>5, <1>6, <1>7

----------------------------------------------------------------------------
LEMMA VenueInvStep == VenueInv /\ [Next]_vars => VenueInv'
<1>1. SUFFICES ASSUME VenueInv, [Next]_vars PROVE VenueInv'
  OBVIOUS
<1>2. CASE Next
  <2>1. PICK c \in Clients :
           LivesNext(c) \/ CollectionsNext(c) \/ VenuesNext(c) \/ SongsNext(c) \/ DatabaseNext(c)
    BY <1>2 DEF Next
  <2>2. CASE VenuesNext(c)
    BY <1>1, <2>2, VenueStartStep, VenueCheckStep, VenueStoreStep, LocalityStep DEF VenuesNext, VenueStep
  <2> QED
    BY <1>1, <2>1, <2>2, NotVenueStep, VenueDatabaseStep
<1>3. CASE UNCHANGED vars
  <2>1. UNCHANGED venue /\ txn' = txn /\ workload' = workload
    BY <1>3 DEF vars, txnVars, venueVars
  <2>2. VenueState' /\ NamesKept
    BY <1>1, <2>1, SameVenues
  <2>3. \A d \in Clients : NamingSound(d)'
    BY <1>1, <2>1, <2>2, NamingStays
  <2>4. TxnInv' /\ VenueRequests'
    BY <1>1, <2>1 DEF VenueInv, TxnInv, TxnType, LocksApart, VenueRequests, VenueRequest
  <2> QED
    BY <2>2, <2>3, <2>4 DEF VenueInv
<1> QED
  BY <1>1, <1>2, <1>3

LEMMA VenueInvInit == Init => VenueInv
<1> SUFFICES ASSUME Init PROVE VenueInv
  OBVIOUS
<1>1. PICK s \in Scenarios : TxnInit(s.requests) /\ VenueInit(s)
  BY DEF Init
<1>2. VenueState
  BY <1>1, ScenarioAssumption DEF VenueInit, VenueState, VenueNamesUnique
<1>3. \A c \in Clients : txn[c] = Idle
  BY <1>1 DEF TxnInit
<1>4. VenueRequests
  <2>1. VenueRequest(NoRequest)
    BY DEF VenueRequest, NoRequest, FormKinds
  <2> QED
    BY <1>1, <1>3, <2>1, ScenarioAssumption DEF TxnInit, VenueRequests, Idle
<1>5. \A c \in Clients : NamingSound(c)
  BY <1>3 DEF Idle, NoRequest, NamingSound, Renames
<1>6. TxnInv
  BY <1>1, <1>3 DEF TxnInit, TxnInv, TxnType, LocksApart, Idle
<1> QED
  BY <1>2, <1>4, <1>5, <1>6 DEF VenueInv

(* Whoever writes a venue, an alias or a locality has locked what it compared it with
   (console_venues.py, console_geography.py). *)
THEOREM VenueInvariant == Spec => []VenueInv
  BY VenueInvInit, VenueInvStep, PTL DEF Spec

(* No venue name is ever used twice: the advisory lock of the names covers the
   search and the insert of create_venue, of a rename and of the editor. *)
THEOREM VenueNamesUniqueAlways == Spec => []VenueNamesUnique
<1>1. VenueInv => VenueNamesUnique
  BY DEF VenueInv, VenueState
<1> QED
  BY <1>1, VenueInvariant, PTL

----------------------------------------------------------------------------
(* What the sender of a form about a venue has locked and may rely on. *)
VenueFormSound(c) ==
    LET t == txn[c]  v == t.req.venue IN
    /\ \/ t.req.kind = "update_venue" /\ t.at = "store"
       \/ t.req.kind = "rename_venue" /\ t.at = "registry"
       \/ t.req.kind \in FormKinds /\ t.at = "validate"
       => HasOrTakes(t, VenueLock(v))
    /\ t.req.kind = "rename_venue" /\ t.at \in {"name", "store"} => VenueLock(v) \in t.held
    /\ t.req.kind \in FormKinds /\ t.at = "validate" => Known(v)
    /\ t.req.kind \in {"save_location", "edit_venue"} /\ t.at \in {"registry", "name", "store"} =>
          VenueLock(v) \in t.held /\ Known(v) /\ t.seen.kind # "none" /\ venue[v] = t.seen.form.venue

VenueFormInv == VenueInv /\ \A c \in Clients : VenueFormSound(c)

\* What a transaction with these locks leaves to the others.
VenuesKept(held) ==
    \A v \in Venues : Known(v) => Known(v)' /\ (VenueLock(v) \notin held => venue'[v] = venue[v])

LEMMA VenueFormFrame ==
    ASSUME VenueFormInv, VenueInv', NEW c \in Clients, Others(c), VenueFormSound(c)', VenuesKept(txn[c].held)
    PROVE  VenueFormInv'
<1>1. ASSUME NEW d \in Clients, d # c PROVE VenueFormSound(d)'
  <2>1. txn'[d] = txn[d] /\ VenueFormSound(d) /\ VenueRequest(txn[d].req)
    BY <1>1 DEF Others, VenueFormInv, VenueInv, VenueRequests
  <2>2. ASSUME NEW v \in Venues, VenueLock(v) \in txn[d].held, Known(v) PROVE venue'[v] = venue[v]
    <3>1. VenueLock(v) \notin txn[c].held
      <4>1. SUFFICES ASSUME VenueLock(v) \in txn[c].held PROVE FALSE
        OBVIOUS
      <4>2. ~Conflict(VenueLock(v).mode, VenueLock(v).mode)
        BY <1>1, <2>2, <4>1 DEF VenueFormInv, VenueInv, TxnInv, LocksApart
      <4> QED
        BY <4>2 DEF VenueLock, Lock, Conflict
    <3> QED
      BY <2>2, <3>1 DEF VenuesKept
  <2>3. txn[d].req.kind \in FormKinds => txn[d].req.venue \in Venues
    BY <2>1 DEF VenueRequest
  <2>4. \A v \in Venues : Known(v) => Known(v)'
    BY DEF VenuesKept
  <2> QED
    BY <2>1, <2>2, <2>3, <2>4 DEF VenueFormSound, HasOrTakes, FormKinds
<1> QED
  BY <1>1 DEF VenueFormInv

LEMMA SameVenuesKept ==
    ASSUME UNCHANGED venue
    PROVE  \A held : VenuesKept(held)
  BY DEF VenuesKept, Known

\* The requests that concern a stored venue.
AboutVenue == {"update_venue", "rename_venue"} \union FormKinds

LEMMA OtherKindsForm ==
    ASSUME NEW c \in Clients, txn'[c].req.kind \notin AboutVenue
    PROVE  VenueFormSound(c)'
  BY DEF AboutVenue, FormKinds, VenueFormSound

LEMMA FormFinish ==
    ASSUME VenueInv, NEW c \in Clients, Finish(c)
    PROVE  Others(c) /\ VenueFormSound(c)'
<1>1. Turn(c) /\ txn'[c] = Idle
  BY FinishTurn DEF VenueInv, TxnInv
<1>2. txn'[c].req.kind \notin AboutVenue
  BY <1>1 DEF Idle, NoRequest, AboutVenue, FormKinds
<1> QED
  BY <1>1, <1>2, OtherKindsForm DEF Turn

LEMMA NotFormStep ==
    ASSUME VenueFormInv, VenueInv', NEW c \in Clients, LivesNext(c) \/ CollectionsNext(c) \/ SongsNext(c)
    PROVE  VenueFormInv'
<1>1. PICK kinds : Turn(c) /\ OfKinds(txn'[c], kinds) /\ (kinds \union {"none"}) \cap AboutVenue = {}
  <2>1. TxnType
    BY DEF VenueFormInv, VenueInv, TxnInv
  <2>2. CASE CollectionsNext(c)
    <3>1. Turn(c) /\ OfKinds(txn'[c], CollectionKinds)
      BY <2>1, <2>2, CollectionTurn DEF CollectionsNext
    <3> QED
      BY <3>1 DEF CollectionKinds, AboutVenue, FormKinds
  <2>3. CASE LivesNext(c)
    <3>1. Turn(c) /\ OfKinds(txn'[c], AllLiveKinds)
      BY <2>1, <2>3, LiveTurn DEF LivesNext
    <3> QED
      BY <3>1 DEF AllLiveKinds, LiveKinds, FavoriteKinds, SetlistKinds, AboutVenue, FormKinds
  <2>4. CASE SongsNext(c)
    <3>1. Turn(c) /\ OfKinds(txn'[c], SongKinds)
      BY <2>1, <2>4, SongTurn DEF SongsNext
    <3> QED
      BY <3>1 DEF SongKinds, SongForms, AboutVenue, FormKinds
  <2> QED
    BY <2>2, <2>3, <2>4
<1>2. UNCHANGED venue
  BY DEF LivesNext, CollectionsNext, SongsNext, venueVars
<1>3. VenueFormSound(c)'
  BY <1>1, OtherKindsForm DEF OfKinds
<1> QED
  BY <1>1, <1>2, <1>3, SameVenuesKept, VenueFormFrame DEF Turn

LEMMA FormDatabaseStep ==
    ASSUME VenueFormInv, VenueInv', NEW c \in Clients, DatabaseNext(c)
    PROVE  VenueFormInv'
<1>1. UNCHANGED venue
  BY DEF DatabaseNext, venueVars
<1>2. CASE RollBack(c)
  BY <1>1, <1>2, FormFinish, SameVenuesKept, VenueFormFrame DEF RollBack, VenueFormInv
<1>3. CASE TakeLock(c)
  <2>1. /\ Others(c)
        /\ txn'[c] = [at |-> txn[c].at, req |-> txn[c].req, seen |-> txn[c].seen,
                      plan |-> Tail(txn[c].plan), held |-> txn[c].held \union {Head(txn[c].plan)}]
    BY <1>3, TakeTurn DEF VenueFormInv, VenueInv, TxnInv
  <2>2. \A lock : HasOrTakes(txn[c], lock) => HasOrTakes(txn'[c], lock)
    <3>1. SUFFICES ASSUME NEW lock, txn[c].plan = <<lock>> PROVE lock \in txn'[c].held
      BY <2>1 DEF HasOrTakes
    <3>2. Head(txn[c].plan) = lock
      BY <3>1
    <3> QED
      BY <2>1, <3>2
  <2>3. VenueFormSound(c)'
    <3>1. VenueFormSound(c)
      BY DEF VenueFormInv
    <3>2. \A v : Known(v)' <=> Known(v)
      BY <1>1 DEF Known
    <3>3. /\ txn'[c].at = txn[c].at /\ txn'[c].req = txn[c].req /\ txn'[c].seen = txn[c].seen
          /\ txn[c].held \subseteq txn'[c].held
      BY <2>1
    <3> QED
      BY <1>1, <2>2, <3>1, <3>2, <3>3 DEF VenueFormSound
  <2> QED
    BY <1>1, <2>1, <2>3, SameVenuesKept, VenueFormFrame
<1> QED
  BY <1>2, <1>3 DEF DatabaseNext

LEMMA FormStartStep ==
    ASSUME VenueFormInv, VenueInv', NEW c \in Clients, NEW req \in workload, VenueStart(c, req)
    PROVE  VenueFormInv'
<1> DEFINE Begun(step, plan) ==
       Others(c) /\ txn'[c] = [at |-> step, req |-> req, seen |-> <<>>, plan |-> plan, held |-> {}]
<1>1. ASSUME NEW step, NEW plan, Begin(c, req, step, plan) PROVE Begun(step, plan)
  BY <1>1, BeginTurn DEF VenueFormInv, VenueInv, TxnInv, Turn
<1> HIDE DEF Begun
<1>2. UNCHANGED venue
  BY DEF VenueStart, StartCreateVenue, StartUpdateVenue, StartRename, OpenVenueForm, StartCreateLocality, venueVars
<1>3. Others(c) /\ VenueFormSound(c)'
  <2> USE DEF Begun, VenueFormSound, HasOrTakes
  <2>1. CASE StartCreateVenue(c, req)
    <3>1. Begun("check", <<Registry>>) /\ req.kind = "create_venue"
      BY <2>1, <1>1 DEF StartCreateVenue
    <3> QED
      BY <3>1 DEF FormKinds
  <2>2. CASE StartUpdateVenue(c, req)
    <3>1. Begun("store", <<VenueLock(req.venue)>>) /\ req.kind = "update_venue"
      BY <2>2, <1>1 DEF StartUpdateVenue
    <3> QED
      BY <3>1 DEF FormKinds
  <2>3. CASE StartRename(c, req)
    <3>1. Begun("registry", <<VenueLock(req.venue)>>) /\ req.kind = "rename_venue"
      BY <2>3, <1>1 DEF StartRename
    <3> QED
      BY <3>1 DEF FormKinds
  <2>4. CASE OpenVenueForm(c, req)
    <3>1. Begun("form", <<>>) /\ req.kind \in FormKinds \union {"save_locality"}
      BY <2>4, <1>1 DEF OpenVenueForm
    <3> QED
      BY <3>1 DEF FormKinds
  <2>5. CASE StartCreateLocality(c, req)
    <3>1. Begun("check", <<>>) /\ req.kind = "create_locality"
      BY <2>5, <1>1 DEF StartCreateLocality
    <3> QED
      BY <3>1 DEF FormKinds
  <2> QED
    BY <2>1, <2>2, <2>3, <2>4, <2>5 DEF VenueStart
<1> QED
  BY <1>2, <1>3, SameVenuesKept, VenueFormFrame

LEMMA FormCheckStep ==
    ASSUME VenueFormInv, VenueInv', NEW c \in Clients,
           CheckNewVenue(c) \/ LockNameRegistry(c) \/ CheckNewName(c) \/ SendVenueForm(c) \/ ValidatePlace(c)
    PROVE  VenueFormInv'
<1>0. PICK t, v : t = txn[c] /\ v = t.req.venue
  OBVIOUS
<1>1. UNCHANGED venue
  BY DEF CheckNewVenue, LockNameRegistry, CheckNewName, SendVenueForm, ValidatePlace, venueVars
<1>2. Known(v)' <=> Known(v)
  BY <1>1 DEF Known
<1>3. VenueFormSound(c) /\ VenueRequest(t.req)
  BY <1>0 DEF VenueFormInv, VenueInv, VenueRequests
<1>4. ASSUME NEW step, NEW seen, NEW plan, Continue(c, step, seen, plan)
      PROVE  Others(c) /\ txn'[c] = [at |-> step, req |-> t.req, seen |-> seen, plan |-> plan, held |-> t.held]
  BY <1>0, <1>4, VenueContinues DEF VenueFormInv, Turn
<1>5. Others(c) /\ VenueFormSound(c)'
  <2>1. CASE CheckNewVenue(c)
    <3>1. PICK p : Ready(c, {"create_venue"}, "check") /\ Continue(c, "store", <<>>, p)
      BY <2>1 DEF CheckNewVenue
    <3>2. Others(c) /\ txn'[c] = [at |-> "store", req |-> t.req, seen |-> <<>>, plan |-> p, held |-> t.held]
      BY <1>4, <3>1
    <3>3. txn'[c].req.kind = "create_venue"
      BY <1>0, <3>1, <3>2 DEF Ready
    <3> QED
      BY <3>2, <3>3, OtherKindsForm DEF AboutVenue, FormKinds
  <2>2. CASE LockNameRegistry(c)
    <3>1. Ready(c, {"rename_venue", "edit_venue"}, "registry") /\ Continue(c, "name", t.seen, <<Registry>>)
      BY <1>0, <2>2 DEF LockNameRegistry
    <3>2. Others(c) /\ txn'[c] = [at |-> "name", req |-> t.req, seen |-> t.seen, plan |-> <<Registry>>, held |-> t.held]
      BY <1>4, <3>1
    <3>3. VenueLock(v) \in t.held
      BY <1>0, <1>3, <3>1, HasWhenReady DEF VenueFormSound, Ready
    <3> QED
      BY <1>0, <1>1, <1>2, <1>3, <3>1, <3>2, <3>3 DEF VenueFormSound, Ready, FormKinds
  <2>3. CASE CheckNewName(c)
    <3>1. PICK p : Ready(c, {"rename_venue", "edit_venue"}, "name") /\ Continue(c, "store", t.seen, p)
      BY <1>0, <2>3 DEF CheckNewName
    <3>2. Others(c) /\ txn'[c] = [at |-> "store", req |-> t.req, seen |-> t.seen, plan |-> p, held |-> t.held]
      BY <1>4, <3>1
    <3> QED
      BY <1>0, <1>1, <1>2, <1>3, <3>1, <3>2 DEF VenueFormSound, Ready, FormKinds
  <2>4. CASE SendVenueForm(c)
    <3>1. PICK s : Ready(c, FormKinds, "form") /\ Known(v) /\ Continue(c, "validate", s, <<VenueLock(v)>>)
      BY <1>0, <2>4 DEF SendVenueForm
    <3>2. Others(c) /\ txn'[c] = [at |-> "validate", req |-> t.req, seen |-> s, plan |-> <<VenueLock(v)>>, held |-> t.held]
      BY <1>4, <3>1
    <3> QED
      BY <1>0, <1>2, <3>1, <3>2 DEF VenueFormSound, Ready, HasOrTakes, FormKinds
  <2>5. CASE ValidatePlace(c)
    <3>1. PICK kind, seen, step, p :
             /\ Ready(c, {"save_location", "edit_venue"}, "validate") /\ t.seen = VenueToken(v)
             /\ kind = IF t.req.kind = "edit_venue" THEN t.req.venue_kind ELSE venue[v].kind
             /\ seen = [form |-> t.seen, kind |-> kind] /\ step \in {"registry", "store"}
             /\ Continue(c, step, seen, p)
      BY <1>0, <2>5 DEF ValidatePlace
    <3>2. Others(c) /\ txn'[c] = [at |-> step, req |-> t.req, seen |-> seen, plan |-> p, held |-> t.held]
      BY <1>4, <3>1
    <3>3. VenueLock(v) \in t.held /\ Known(v)
      BY <1>0, <1>3, <3>1, HasWhenReady DEF VenueFormSound, Ready, FormKinds
    <3>4. kind # "none" /\ seen.kind = kind
      BY <1>3, <3>1, <3>3 DEF VenueRequest, Known
    <3>5. venue[v] = seen.form.venue
      BY <3>1 DEF VenueToken
    <3>6. t.req.kind \in {"save_location", "edit_venue"}
      BY <1>0, <3>1 DEF Ready
    <3>7. /\ txn'[c].req = t.req /\ txn'[c].at = step /\ txn'[c].seen = seen /\ txn'[c].held = t.held
          /\ step # "validate" /\ venue' = venue
      BY <1>1, <3>1, <3>2
    <3> QED
      BY <1>0, <1>2, <3>2, <3>3, <3>4, <3>5, <3>6, <3>7 DEF VenueFormSound
  <2> QED
    BY <2>1, <2>2, <2>3, <2>4, <2>5
<1> QED
  BY <1>1, <1>5, SameVenuesKept, VenueFormFrame

LEMMA FormLocalityStep ==
    ASSUME VenueFormInv, VenueInv', NEW c \in Clients,
           \/ CheckNewLocality(c) \/ InsertLocality(c) \/ SendLocalityForm(c) \/ ValidateLocality(c)
           \/ StoreLocality(c)
    PROVE  VenueFormInv'
<1> DEFINE kinds == {"create_locality", "save_locality"}
<1>1. Turn(c) /\ OfKinds(txn'[c], kinds)
  <2> USE ContinueKind, FinishKind DEF Ready, VenueFormInv, VenueInv, TxnInv
  <2>1. CASE CheckNewLocality(c)
    BY <2>1 DEF CheckNewLocality
  <2>2. CASE InsertLocality(c)
    BY <2>2 DEF InsertLocality
  <2>3. CASE SendLocalityForm(c)
    BY <2>3 DEF SendLocalityForm
  <2>4. CASE ValidateLocality(c)
    BY <2>4 DEF ValidateLocality
  <2>5. CASE StoreLocality(c)
    BY <2>5 DEF StoreLocality
  <2> QED
    BY <2>1, <2>2, <2>3, <2>4, <2>5
<1>2. UNCHANGED venue
  BY DEF CheckNewLocality, InsertLocality, SendLocalityForm, ValidateLocality, StoreLocality, venueVars
<1>3. VenueFormSound(c)'
  BY <1>1, OtherKindsForm DEF OfKinds, AboutVenue, FormKinds
<1> QED
  BY <1>1, <1>2, <1>3, SameVenuesKept, VenueFormFrame DEF Turn

\* A commit stores one venue: one that it has locked, or a new one.
LEMMA FormStoreStep ==
    ASSUME VenueFormInv, VenueInv', NEW c \in Clients,
           \/ InsertVenue(c) \/ StoreVenueKind(c) \/ StoreRename(c) \/ StorePlace(c)
           \/ SaveMapLink(c) \/ DeleteMapLink(c)
    PROVE  VenueFormInv'
<1>0. PICK t, v : t = txn[c] /\ v = t.req.venue
  OBVIOUS
<1>1. venue \in [Venues -> VenueRow] /\ VenueFormSound(c) /\ VenueRequest(t.req)
  BY <1>0 DEF VenueFormInv, VenueInv, VenueState, VenueRequests
<1>2. Finish(c)
  BY DEF InsertVenue, StoreVenueKind, StoreRename, StorePlace, SaveMapLink, DeleteMapLink
<1>3. CASE InsertVenue(c)
  <2>1. PICK free, row : /\ free = {w \in Venues : ~Known(w)} /\ free # {}
                         /\ venue' = [venue EXCEPT ![InOrder(free)[1]] = row]
    BY <1>3 DEF InsertVenue
  <2>2. InOrder(free)[1] \in free
    <3>1. free \in SUBSET Nat /\ IsFiniteSet(free)
      BY <2>1, VenueConstants, FS_Subset
    <3> QED
      BY <2>1, <3>1, FirstInOrder
  <2>3. \A w \in Venues : Known(w) => venue'[w] = venue[w]
    BY <1>1, <2>1, <2>2
  <2>4. VenuesKept(t.held)
    BY <2>3 DEF VenuesKept, Known
  <2> QED
    BY <1>0, <1>2, <2>4, FormFinish, VenueFormFrame DEF VenueFormInv
<1>4. CASE ~InsertVenue(c)
  <2>1. /\ \A w \in Venues \ {v} : venue'[w] = venue[w]
        /\ v \in Venues /\ VenueLock(v) \in t.held
        /\ venue'[v].kind = "none" => venue[v].kind = "none"
    <3>1. CASE StoreVenueKind(c)
      <4>1. Ready(c, {"update_venue"}, "store") /\ venue' = [venue EXCEPT ![v].kind = t.req.venue_kind]
        BY <1>0, <3>1 DEF StoreVenueKind
      <4>2. VenueLock(v) \in t.held /\ v \in Venues /\ t.req.venue_kind # "none"
        BY <1>0, <1>1, <4>1, HasWhenReady DEF Ready, VenueFormSound, VenueRequest
      <4>3. venue[v] \in VenueRow
        BY <1>1, <4>2
      <4> QED
        BY <1>1, <4>1, <4>2, <4>3 DEF VenueRow
    <3>2. CASE StoreRename(c)
      <4>1. Ready(c, {"rename_venue"}, "store") /\ venue' = [venue EXCEPT ![v].names = Append(@, t.req.name)]
        BY <1>0, <3>2 DEF StoreRename
      <4>2. VenueLock(v) \in t.held /\ v \in Venues
        BY <1>0, <1>1, <4>1 DEF Ready, VenueFormSound, VenueRequest
      <4>3. (\A w \in Venues \ {v} : venue'[w] = venue[w]) /\ venue'[v].kind = venue[v].kind
        BY <1>1, <4>1, <4>2 DEF VenueRow
      <4> QED
        BY <4>2, <4>3
    <3>3. CASE StorePlace(c)
      <4>1. Ready(c, {"save_location", "edit_venue"}, "store")
        BY <3>3 DEF StorePlace
      <4>2. VenueLock(v) \in t.held /\ v \in Venues /\ t.seen.kind # "none"
        BY <1>0, <1>1, <4>1 DEF Ready, VenueFormSound, VenueRequest, FormKinds
      <4>3. PICK links, given : venue' = [venue EXCEPT ![v] =
                                  [kind |-> t.seen.kind, place |-> t.req.place, links |-> links, names |-> given]]
        BY <1>0, <1>1, <3>3, <4>2 DEF StorePlace
      <4> QED
        BY <1>1, <4>2, <4>3
    <3>4. CASE SaveMapLink(c) \/ DeleteMapLink(c)
      <4>1. Ready(c, FormKinds, "validate")
        BY <3>4 DEF SaveMapLink, DeleteMapLink, Ready, FormKinds
      <4>2. VenueLock(v) \in t.held /\ v \in Venues /\ Known(v) /\ venue[v] \in VenueRow
        BY <1>0, <1>1, <4>1, HasWhenReady DEF Ready, VenueFormSound, VenueRequest
      <4>3. PICK links : venue' = [venue EXCEPT ![v].links = links]
        BY <1>0, <1>1, <3>4, <4>2 DEF SaveMapLink, DeleteMapLink
      <4> QED
        BY <1>1, <4>2, <4>3 DEF VenueRow, Known
    <3> QED
      BY <1>4, <3>1, <3>2, <3>3, <3>4
  <2>2. VenuesKept(t.held)
    BY <2>1 DEF VenuesKept, Known
  <2> QED
    BY <1>0, <1>2, <2>2, FormFinish, VenueFormFrame DEF VenueFormInv
<1> QED
  BY <1>3, <1>4

(* What a form about a venue was compared with stays stored, because the venue
   is locked before it is compared and until the request ends. *)
THEOREM VenueFormInvariant == Spec => []VenueFormInv
<1>1. Init => VenueFormInv
  <2>1. SUFFICES ASSUME Init, NEW c \in Clients PROVE VenueFormSound(c)
    BY VenueInvInit DEF VenueFormInv
  <2>2. txn[c].req.kind = "none"
    BY <2>1 DEF Init, TxnInit, Idle, NoRequest
  <2> QED
    BY <2>2 DEF VenueFormSound, FormKinds
<1>2. VenueFormInv /\ [Next]_vars => VenueFormInv'
  <2>1. SUFFICES ASSUME VenueFormInv, [Next]_vars PROVE VenueFormInv'
    OBVIOUS
  <2>2. VenueInv'
    BY <2>1, VenueInvStep DEF VenueFormInv
  <2>3. CASE Next
    <3>1. PICK c \in Clients :
             LivesNext(c) \/ CollectionsNext(c) \/ VenuesNext(c) \/ SongsNext(c) \/ DatabaseNext(c)
      BY <2>3 DEF Next
    <3>2. CASE VenuesNext(c)
      BY <2>1, <2>2, <3>2, FormStartStep, FormCheckStep, FormStoreStep, FormLocalityStep DEF VenuesNext, VenueStep
    <3> QED
      BY <2>1, <2>2, <3>1, <3>2, NotFormStep, FormDatabaseStep
  <2>4. CASE UNCHANGED vars
    <3>1. UNCHANGED venue /\ txn' = txn
      BY <2>4 DEF vars, txnVars, venueVars
    <3>2. \A c \in Clients : VenueFormSound(c) /\ txn'[c] = txn[c]
      BY <2>1, <3>1 DEF VenueFormInv
    <3>3. \A v : Known(v)' <=> Known(v)
      BY <3>1 DEF Known
    <3>4. ASSUME NEW c \in Clients PROVE VenueFormSound(c)'
      BY <3>1, <3>2, <3>3 DEF VenueFormSound, HasOrTakes
    <3> QED
      BY <2>2, <3>4 DEF VenueFormInv
  <2> QED
    BY <2>1, <2>3, <2>4
<1> QED
  BY <1>1, <1>2, PTL DEF Spec

----------------------------------------------------------------------------
(* What the relations of tours and groups are. *)
OneOwner ==
    \A f \in Families : \A k, n \in CollectionIds :
        k # n => collection[f][k].lives \cap collection[f][n].lives = {}

CollectionState == collection \in [Families -> [CollectionIds -> CollectionRow]] /\ OneOwner

CollectionRequests ==
    /\ \A r \in workload : CollectionRequest(r)
    /\ \A c \in Clients : CollectionRequest(txn[c].req)

\* What a request that inserts relations has locked and seen.
RelationsSound(c) ==
    LET t == txn[c]  f == Family(t.req)  order == t.seen.order  next == t.seen.next IN
    t.req.kind \in CollectionKinds =>
        /\ Listed(t.plan)
        /\ t.at = "insert" =>
              /\ t.seen = [order |-> order, next |-> next]
              /\ next \in Nat \ {0} /\ order \in Seq(Lives) /\ t.req.lives \subseteq Range(order)
              /\ \A i \in DOMAIN order : i < next =>
                    Slot(f, order[i]) \in t.held /\ Owners(f, t.req.id, order[i]) = {}
              /\ Awaits(t, Slot(f, order[next]))

CollectionInv ==
    TxnInv /\ CollectionRequests /\ CollectionState /\ \A c \in Clients : RelationsSound(c)

\* What a transaction with these locks leaves to the others: it adds no other Live.
CollectionsKept(held) ==
    \A f \in Families : \A k \in CollectionIds : \A l \in collection'[f][k].lives :
        Slot(f, l) \notin held => l \in collection[f][k].lives

LEMMA FamilyFacts == \A req : Family(req) \in Families
  BY DEF Family, Families

LEMMA RelationsStay ==
    ASSUME CollectionInv, NEW d \in Clients, txn'[d] = txn[d], NEW held, CollectionsKept(held),
           \A lock \in txn[d].held : lock.mode = "update" => lock \notin held
    PROVE  RelationsSound(d)'
<1>1. RelationsSound(d)
  BY DEF CollectionInv
<1>2. PICK t, f, order : t = txn[d] /\ t = txn'[d] /\ f = Family(t.req) /\ order = t.seen.order
  OBVIOUS
<1>3. ASSUME NEW l, Slot(f, l) \in t.held, Owners(f, t.req.id, l) = {} PROVE Owners(f, t.req.id, l)' = {}
  <2>1. Slot(f, l) \notin held
    BY <1>2, <1>3 DEF Slot, Lock
  <2>2. f \in Families
    BY <1>2, FamilyFacts
  <2> QED
    BY <1>2, <1>3, <2>1, <2>2 DEF CollectionsKept, Owners
<1> QED
  BY <1>1, <1>2, <1>3 DEF RelationsSound

(* One step of connection c: its own claims, and the relations. *)
LEMMA CollectionFrame ==
    ASSUME CollectionInv, NEW c \in Clients, TxnType', LocksApart', Others(c), workload' = workload,
           txn'[c].req \in workload \union {txn[c].req, NoRequest}, CollectionState', RelationsSound(c)',
           CollectionsKept(txn[c].held)
    PROVE  CollectionInv'
<1>1. \A d \in Clients : RelationsSound(d)'
  <2>1. SUFFICES ASSUME NEW d \in Clients, d # c PROVE RelationsSound(d)'
    OBVIOUS
  <2>2. txn'[d] = txn[d]
    BY <2>1 DEF Others
  <2>3. ASSUME NEW lock \in txn[d].held, lock.mode = "update" PROVE lock \notin txn[c].held
    BY <2>1, <2>3 DEF CollectionInv, TxnInv, LocksApart, Conflict
  <2> QED
    BY <2>2, <2>3, RelationsStay
<1>2. CollectionRequest(NoRequest)
  BY DEF CollectionRequest, NoRequest, CollectionKinds
<1>3. CollectionRequests'
  <2>1. CollectionRequests
    BY DEF CollectionInv
  <2>2. \A d \in Clients : CollectionRequest(txn'[d].req)
    BY <1>2, <2>1 DEF CollectionRequests, Others
  <2> QED
    BY <2>1, <2>2 DEF CollectionRequests, CollectionRequest
<1> QED
  BY <1>1, <1>3 DEF CollectionInv, TxnInv

\* A step that leaves the relations alone.
LEMMA SameCollections ==
    ASSUME CollectionInv, UNCHANGED collection
    PROVE  CollectionState' /\ \A held : CollectionsKept(held)
  BY DEF CollectionInv, CollectionState, OneOwner, CollectionsKept

LEMMA SameCollectionsTurn ==
    ASSUME CollectionInv, NEW c \in Clients, Turn(c), UNCHANGED collection, RelationsSound(c)'
    PROVE  CollectionInv'
<1>1. LocksApart'
  BY TurnKeepsApart DEF CollectionInv, TxnInv
<1> QED
  BY <1>1, SameCollections, CollectionFrame DEF Turn

LEMMA CollectionFinish ==
    ASSUME CollectionInv, NEW c \in Clients, Finish(c)
    PROVE  Turn(c) /\ RelationsSound(c)'
<1>1. Turn(c) /\ txn'[c] = Idle
  BY FinishTurn DEF CollectionInv, TxnInv
<1> QED
  BY <1>1 DEF Idle, NoRequest, CollectionKinds, RelationsSound

\* Lives, venues and songs.
LEMMA NotCollectionStep ==
    ASSUME CollectionInv, NEW c \in Clients, LivesNext(c) \/ VenuesNext(c) \/ SongsNext(c)
    PROVE  CollectionInv'
<1>1. PICK kinds : Turn(c) /\ OfKinds(txn'[c], kinds) /\ (kinds \union {"none"}) \cap CollectionKinds = {}
  <2>1. TxnType
    BY DEF CollectionInv, TxnInv
  <2>2. CASE VenuesNext(c)
    <3>1. Turn(c) /\ OfKinds(txn'[c], VenueKinds)
      BY <2>1, <2>2, VenueTurn DEF VenuesNext
    <3> QED
      BY <3>1 DEF CollectionKinds, VenueKinds, FormKinds
  <2>3. CASE LivesNext(c)
    <3>1. Turn(c) /\ OfKinds(txn'[c], AllLiveKinds)
      BY <2>1, <2>3, LiveTurn DEF LivesNext
    <3> QED
      BY <3>1 DEF AllLiveKinds, LiveKinds, FavoriteKinds, SetlistKinds, CollectionKinds
  <2>4. CASE SongsNext(c)
    <3>1. Turn(c) /\ OfKinds(txn'[c], SongKinds)
      BY <2>1, <2>4, SongTurn DEF SongsNext
    <3> QED
      BY <3>1 DEF SongKinds, SongForms, CollectionKinds
  <2> QED
    BY <2>2, <2>3, <2>4
<1>2. UNCHANGED collection
  BY DEF LivesNext, VenuesNext, SongsNext
<1>3. RelationsSound(c)'
  BY <1>1 DEF OfKinds, RelationsSound
<1> QED
  BY <1>1, <1>2, <1>3, SameCollectionsTurn

LEMMA CollectionDatabaseStep ==
    ASSUME CollectionInv, NEW c \in Clients, DatabaseNext(c)
    PROVE  CollectionInv'
<1>1. UNCHANGED collection
  BY DEF DatabaseNext
<1>2. CASE RollBack(c)
  BY <1>1, <1>2, CollectionFinish, SameCollectionsTurn DEF RollBack
<1>3. CASE TakeLock(c)
  <2>1. /\ TxnType' /\ Others(c) /\ workload' = workload
        /\ txn'[c] = [at |-> txn[c].at, req |-> txn[c].req, seen |-> txn[c].seen,
                      plan |-> Tail(txn[c].plan), held |-> txn[c].held \union {Head(txn[c].plan)}]
    BY <1>3, TakeTurn DEF CollectionInv, TxnInv
  <2>2. LocksApart'
    BY <1>3, TakeKeepsApart DEF CollectionInv
  <2>3. RelationsSound(c)
    BY DEF CollectionInv
  <2>4. /\ txn'[c].at = txn[c].at /\ txn'[c].req = txn[c].req /\ txn'[c].seen = txn[c].seen
        /\ txn[c].held \subseteq txn'[c].held
    BY <2>1
  <2>5. \A f, id, l : Owners(f, id, l)' = Owners(f, id, l)
    BY <1>1 DEF Owners
  <2>6. CASE txn[c].req.kind \in CollectionKinds
    <3>1. /\ Listed(txn'[c].plan)
          /\ \A lock : Awaits(txn[c], lock) => Awaits(txn'[c], lock)
      BY <1>3, <2>3, <2>6, TakenAwaits DEF CollectionInv, TxnInv, RelationsSound
    <3>2. RelationsSound(c)'
      BY <2>3, <2>4, <2>5, <2>6, <3>1 DEF RelationsSound
    <3> QED
      BY <1>1, <2>1, <2>2, <3>2, SameCollections, CollectionFrame
  <2>7. CASE txn[c].req.kind \notin CollectionKinds
    <3>1. RelationsSound(c)'
      BY <2>4, <2>7 DEF RelationsSound
    <3> QED
      BY <1>1, <2>1, <2>2, <3>1, SameCollections, CollectionFrame
  <2> QED
    BY <2>6, <2>7
<1> QED
  BY <1>2, <1>3 DEF DatabaseNext

----------------------------------------------------------------------------
(* The order of the inserts and the locks they take. *)
LEMMA CanonicalFacts ==
    ASSUME live \in [Lives -> LiveRow], NEW lives \in SUBSET Lives
    PROVE  /\ CanonicalOrder(lives) \in Seq(Lives)
           /\ lives \subseteq Range(CanonicalOrder(lives)) /\ Range(CanonicalOrder(lives)) \subseteq lives
<1> DEFINE R == {p \in lives \X lives :
                    live[p[1]].day < live[p[2]].day \/ (live[p[1]].day = live[p[2]].day /\ p[1] < p[2])}
<1>1. \A l \in lives : live[l].day \in Nat /\ l \in Nat
  BY LiveConstants, CollectionConstants DEF LiveRow
<1>2. StrictOrder(R, lives)
  BY <1>1 DEF StrictOrder
<1>3. IsFiniteSet(lives)
  BY CollectionConstants, FS_Subset
<1>4. PICK s : s = CanonicalOrder(lives) /\ s = Sorted(lives, R)
  BY DEF CanonicalOrder
<1>5. s \in SetToSeqs(lives)
  BY <1>2, <1>3, <1>4, SortedFacts
<1>6. s \in Seq(lives) /\ \A x \in lives : \E i \in DOMAIN s : s[i] = x
  BY <1>3, <1>5, LineOnto
<1>7. s \in Seq(Lives) /\ lives \subseteq Range(s) /\ Range(s) \subseteq lives
  BY <1>6 DEF Range
<1> QED
  BY <1>4, <1>7

LEMMA DroppedListed ==
    ASSUME CollectionState, NEW f \in Families, NEW id \in CollectionIds \union {0}
    PROVE  Listed(DroppedSlots(f, id))
<1>1. CASE id = 0
  BY <1>1, ShortPlans DEF DroppedSlots
<1>2. CASE id # 0
  <2>1. PICK lives : lives = collection[f][id].lives /\ lives \in SUBSET Lives
    BY <1>2 DEF CollectionState, CollectionRow
  <2>2. lives \in SUBSET Nat /\ IsFiniteSet(lives)
    BY <2>1, CollectionConstants, FS_Subset
  <2> DEFINE row == [l \in lives |-> Slot(f, l)]
  <2>3. \A i \in DOMAIN InOrder(lives) : InOrder(lives)[i] \in lives
    BY <2>2, InOrderFacts, LineOnto
  <2>4. PICK plan : plan = DroppedSlots(f, id)
    OBVIOUS
  <2>5. plan = [i \in DOMAIN InOrder(lives) |-> Slot(f, InOrder(lives)[i])]
    BY <1>2, <2>1, <2>4 DEF DroppedSlots
  <2>6. /\ DOMAIN plan = DOMAIN InOrder(lives) /\ plan = [i \in DOMAIN plan |-> plan[i]]
        /\ \A i \in DOMAIN plan : plan[i] = row[InOrder(lives)[i]]
    BY <2>3, <2>5
  <2> HIDE DEF row
  <2>7. Listed(plan)
    BY <2>2, <2>6, InOrderListed
  <2> QED
    BY <2>4, <2>7
<1> QED
  BY <1>1, <1>2

LEMMA BandKeysListed ==
    ASSUME NEW bands, IsFiniteSet(bands)
    PROVE  Listed(BandKeys(bands))
<1>1. PICK n : n = Cardinality(bands) /\ n \in Nat
  BY FS_CardinalityType
<1>2. PICK plan : plan = BandKeys(bands)
  OBVIOUS
<1>3. plan = [i \in 1..n |-> plan[i]]
  BY <1>1, <1>2 DEF BandKeys
<1>4. plan \in [1..n -> Range(plan)]
  BY <1>3 DEF Range
<1>5. plan \in Seq(Range(plan))
  BY <1>1, <1>4
<1> QED
  BY <1>2, <1>5 DEF Listed

LEMMA RelationListed ==
    ASSUME NEW f, NEW l
    PROVE  Listed(RelationLocks(f, l)) /\ \E i \in DOMAIN RelationLocks(f, l) : RelationLocks(f, l)[i] = Slot(f, l)
<1>1. PICK a, b : a = Slot(f, l) /\ b = LiveKey(l)
  OBVIOUS
<1>2. <<a, b>> \in Seq({a, b}) /\ <<a, b>>[1] = a /\ 1 \in DOMAIN <<a, b>>
  OBVIOUS
<1>3. Listed(<<a, b>>)
  BY <1>2, ListedFacts
<1> QED
  BY <1>1, <1>2, <1>3 DEF RelationLocks

----------------------------------------------------------------------------
LEMMA CollectionContinues ==
    ASSUME CollectionInv, NEW c \in Clients, NEW step, NEW seen, NEW plan, Continue(c, step, seen, plan)
    PROVE  Turn(c) /\ txn'[c] = [at |-> step, req |-> txn[c].req, seen |-> seen, plan |-> plan,
                                 held |-> txn[c].held]
  BY ContinueTurn DEF CollectionInv, TxnInv

LEMMA CollectionStartStep ==
    ASSUME CollectionInv, NEW c \in Clients, NEW req \in workload, CollectionStart(c, req)
    PROVE  CollectionInv'
<1>1. PICK plan : Begin(c, req, "validate", plan) /\ Listed(plan)
  BY ShortPlans DEF CollectionStart, StartCreateCollection, StartUpdateCollection
<1>2. Turn(c) /\ txn'[c] = [at |-> "validate", req |-> req, seen |-> <<>>, plan |-> plan, held |-> {}]
  BY <1>1, BeginTurn DEF CollectionInv, TxnInv
<1>3. RelationsSound(c)'
  BY <1>1, <1>2 DEF RelationsSound
<1>4. UNCHANGED collection
  BY DEF CollectionStart, StartCreateCollection, StartUpdateCollection
<1> QED
  BY <1>2, <1>3, <1>4, SameCollectionsTurn

\* The first insert has the lock of its slot still to take.
LEMMA FirstInsert ==
    ASSUME CollectionInv, live \in [Lives -> LiveRow], NEW c \in Clients, txn[c].req.kind \in CollectionKinds,
           NEW bandKeys, Listed(bandKeys), BeginInserts(c, CanonicalOrder(txn[c].req.lives), bandKeys)
    PROVE  Turn(c) /\ RelationsSound(c)'
<1>1. PICK req, f, order, seen :
         /\ req = txn[c].req /\ f = Family(req) /\ order = CanonicalOrder(req.lives)
         /\ seen = [order |-> order, next |-> 1]
  OBVIOUS
<1>2. CollectionState /\ req.lives \in SUBSET Lives /\ req.id \in CollectionIds \union {0} /\ f \in Families
  BY <1>1, FamilyFacts DEF CollectionInv, CollectionRequests, CollectionRequest
<1>3. order \in Seq(Lives) /\ req.lives \subseteq Range(order)
  BY <1>1, <1>2, CanonicalFacts
<1>4. PICK dropped, rest : dropped = DroppedSlots(f, req.id) \o bandKeys /\ rest = RelationLocks(f, order[1])
  OBVIOUS
<1>5. Listed(dropped)
  <2>1. Listed(DroppedSlots(f, req.id))
    BY <1>2, DroppedListed
  <2> QED
    BY <1>4, <2>1, PlansJoined
<1>6. Listed(rest) /\ \E i \in DOMAIN rest : rest[i] = Slot(f, order[1])
  BY <1>4, RelationListed
<1>7. PICK plan : plan = dropped \o rest
  OBVIOUS
<1>8. Listed(plan)
  BY <1>5, <1>6, <1>7, PlansJoined
<1>9. \E j \in DOMAIN plan : plan[j] = Slot(f, order[1])
  <2>1. PICK key : key = Slot(f, order[1])
    OBVIOUS
  <2>2. PICK i \in DOMAIN rest : rest[i] = key
    BY <1>6, <2>1
  <2>3. PICK j : j = i + Len(dropped)
    OBVIOUS
  <2>4. PICK S : S = Range(dropped) \union Range(rest)
    OBVIOUS
  <2>5. dropped \in Seq(S) /\ rest \in Seq(S)
    BY <1>5, <1>6, <2>4 DEF Listed
  <2>6. j \in DOMAIN plan /\ plan[j] = key
    BY <1>7, <2>2, <2>3, <2>5
  <2> QED
    BY <2>1, <2>6
<1>10. Continue(c, "insert", seen, plan)
  BY <1>1, <1>4, <1>7 DEF BeginInserts
<1>11. Turn(c) /\ txn'[c] = [at |-> "insert", req |-> req, seen |-> seen, plan |-> plan, held |-> txn[c].held]
  BY <1>1, <1>10, CollectionContinues
<1>12. PICK t : t = txn'[c] /\ t.req = req /\ t.seen = seen /\ t.plan = plan
  BY <1>11
<1>13. seen.order = order /\ seen.next = 1
  BY <1>1
<1>14. Awaits(t, Slot(f, order[1]))
  BY <1>9, <1>12 DEF Awaits
<1>15. \A i \in DOMAIN order : ~(i < 1)
  BY <1>3
<1>16. RelationsSound(c)'
  BY <1>1, <1>3, <1>8, <1>11, <1>12, <1>13, <1>14, <1>15 DEF RelationsSound
<1> QED
  BY <1>11, <1>16

LEMMA ValidateStep ==
    ASSUME CollectionInv, live \in [Lives -> LiveRow], NEW c \in Clients, ValidateTour(c) \/ ValidateGroup(c)
    PROVE  CollectionInv'
<1>1. PICK bandKeys : /\ txn[c].req.kind \in CollectionKinds /\ Listed(bandKeys)
                      /\ BeginInserts(c, CanonicalOrder(txn[c].req.lives), bandKeys)
  <2>1. CASE ValidateTour(c)
    <3>1. txn[c].req.kind \in CollectionKinds
      BY <2>1 DEF ValidateTour, Ready, CollectionKinds
    <3>2. Listed(BandKeys(txn[c].req.bands))
      BY <3>1, BandKeysListed DEF CollectionInv, CollectionRequests, CollectionRequest
    <3> QED
      BY <2>1, <3>1, <3>2 DEF ValidateTour
  <2>2. CASE ValidateGroup(c)
    <3>1. txn[c].req.kind \in CollectionKinds
      BY <2>2 DEF ValidateGroup, Ready, CollectionKinds
    <3> QED
      BY <2>2, <3>1, ShortPlans DEF ValidateGroup
  <2> QED
    BY <2>1, <2>2
<1>2. UNCHANGED collection
  BY DEF ValidateTour, ValidateGroup
<1> QED
  BY <1>1, <1>2, FirstInsert, SameCollectionsTurn

\* A request at an insert holds its slot.
LEMMA SlotHeld ==
    ASSUME CollectionInv, NEW c \in Clients, Ready(c, CollectionKinds, "insert")
    PROVE  /\ RelationsSound(c)
           /\ Slot(Family(txn[c].req), txn[c].seen.order[txn[c].seen.next]) \in txn[c].held
<1>1. RelationsSound(c) /\ txn[c].req.kind \in CollectionKinds /\ txn[c].at = "insert" /\ txn[c].plan = <<>>
  BY DEF CollectionInv, Ready
<1>2. Awaits(txn[c], Slot(Family(txn[c].req), txn[c].seen.order[txn[c].seen.next]))
  BY <1>1 DEF RelationsSound
<1> QED
  BY <1>1, <1>2 DEF Awaits

LEMMA InsertStep ==
    ASSUME CollectionInv, NEW c \in Clients, InsertRelation(c)
    PROVE  CollectionInv'
<1>1. PICK req, f, order, next, held :
         /\ req = txn[c].req /\ f = Family(req) /\ order = txn[c].seen.order /\ next = txn[c].seen.next
         /\ held = txn[c].held
  OBVIOUS
<1>2. Ready(c, CollectionKinds, "insert") /\ next < Len(order) /\ Owners(f, req.id, order[next]) = {}
      /\ UNCHANGED collection
  BY <1>1 DEF InsertRelation, SlotFree
<1>3. RelationsSound(c) /\ Slot(f, order[next]) \in held
  BY <1>1, <1>2, SlotHeld
<1>4. /\ txn[c].seen = [order |-> order, next |-> next] /\ next \in Nat \ {0} /\ order \in Seq(Lives)
      /\ req.lives \subseteq Range(order)
      /\ \A i \in DOMAIN order : i < next => Slot(f, order[i]) \in held /\ Owners(f, req.id, order[i]) = {}
  BY <1>1, <1>2, <1>3 DEF RelationsSound, Ready
<1>5. PICK seen, plan : seen = [order |-> order, next |-> next + 1] /\ plan = RelationLocks(f, order[next + 1])
  OBVIOUS
<1>6. Continue(c, "insert", seen, plan)
  BY <1>1, <1>4, <1>5 DEF InsertRelation
<1>7. Turn(c) /\ txn'[c] = [at |-> "insert", req |-> req, seen |-> seen, plan |-> plan, held |-> held]
  BY <1>1, <1>6, CollectionContinues
<1>8. PICK t : t = txn'[c] /\ t.req = req /\ t.seen = seen /\ t.plan = plan /\ t.held = held
  BY <1>7
<1>9. seen.order = order /\ seen.next = next + 1 /\ next + 1 \in Nat \ {0}
  BY <1>4, <1>5
<1>10. Listed(plan) /\ Awaits(t, Slot(f, order[next + 1]))
  BY <1>5, <1>8, RelationListed DEF Awaits
<1>11. \A i \in DOMAIN order : i < next + 1 => Slot(f, order[i]) \in held /\ Owners(f, req.id, order[i])' = {}
  <2>1. \A l : Owners(f, req.id, l)' = Owners(f, req.id, l)
    BY <1>2 DEF Owners
  <2>2. \A i \in DOMAIN order : i < next + 1 => i < next \/ i = next
    BY <1>4
  <2> QED
    BY <1>2, <1>3, <1>4, <2>1, <2>2
<1>12. t = txn'[c] /\ t.at = "insert" /\ seen = [order |-> seen.order, next |-> seen.next]
  BY <1>5, <1>7, <1>8
<1>13. RelationsSound(c)'
  BY <1>1, <1>4, <1>8, <1>9, <1>10, <1>11, <1>12 DEF RelationsSound
<1> QED
  BY <1>2, <1>7, <1>13, SameCollectionsTurn

\* The commit: no other collection has any of the Lives.
LEMMA StoreStep ==
    ASSUME CollectionInv, NEW c \in Clients, StoreCollection(c)
    PROVE  CollectionInv'
<1>1. PICK req, f, order, held, free, k, new :
         /\ req = txn[c].req /\ f = Family(req) /\ order = txn[c].seen.order /\ held = txn[c].held
         /\ free = {n \in CollectionIds : collection[f][n] = NoCollection}
         /\ k = IF req.id = 0 THEN InOrder(free)[1] ELSE req.id
         /\ new = [lives |-> req.lives, bands |-> req.bands]
  OBVIOUS
<1>2. /\ Ready(c, CollectionKinds, "insert") /\ txn[c].seen.next = Len(order)
      /\ Owners(f, req.id, order[txn[c].seen.next]) = {}
      /\ req.id = 0 => free # {}
      /\ collection' = [collection EXCEPT ![f][k] = new] /\ Finish(c)
  BY <1>1 DEF StoreCollection, SlotFree
<1>3. RelationsSound(c) /\ Slot(f, order[txn[c].seen.next]) \in held
  BY <1>1, <1>2, SlotHeld
<1>4. /\ order \in Seq(Lives) /\ req.lives \subseteq Range(order)
      /\ \A i \in DOMAIN order : Slot(f, order[i]) \in held /\ Owners(f, req.id, order[i]) = {}
  <2>1. /\ order \in Seq(Lives) /\ req.lives \subseteq Range(order)
        /\ \A i \in DOMAIN order : i < Len(order) => Slot(f, order[i]) \in held /\ Owners(f, req.id, order[i]) = {}
    BY <1>1, <1>2, <1>3 DEF RelationsSound, Ready
  <2>2. \A i \in DOMAIN order : i < Len(order) \/ i = Len(order)
    BY <2>1
  <2> QED
    BY <1>2, <1>3, <2>1, <2>2
<1>5. \A l \in req.lives : Slot(f, l) \in held /\ Owners(f, req.id, l) = {}
  BY <1>4 DEF Range
<1>6. /\ collection \in [Families -> [CollectionIds -> CollectionRow]] /\ OneOwner /\ f \in Families
      /\ req.lives \subseteq Lives /\ req.bands \subseteq Bands /\ req.id \in CollectionIds \union {0}
  BY <1>1, <1>2, FamilyFacts DEF CollectionInv, CollectionState, CollectionRequests, CollectionRequest, Ready
<1>7. k \in CollectionIds
  <2>1. free \in SUBSET Nat /\ IsFiniteSet(free) /\ free \subseteq CollectionIds
    BY <1>1, CollectionConstants, FS_Subset
  <2> QED
    BY <1>1, <1>2, <1>6, <2>1, FirstInOrder
<1>8. \A n \in CollectionIds \ {k} : \A l \in req.lives : l \notin collection[f][n].lives
  <2>1. CASE req.id = 0
    <3>1. 0 \notin CollectionIds
      BY CollectionConstants
    <3> QED
      BY <1>5, <2>1, <3>1 DEF Owners
  <2>2. CASE req.id # 0
    BY <1>1, <1>5, <2>2 DEF Owners
  <2> QED
    BY <2>1, <2>2
<1>9. new \in CollectionRow /\ new.lives = req.lives
  BY <1>1, <1>6 DEF CollectionRow
<1>10. /\ collection' \in [Families -> [CollectionIds -> CollectionRow]] /\ collection'[f][k] = new
       /\ \A g \in Families, n \in CollectionIds : g # f \/ n # k => collection'[g][n] = collection[g][n]
  BY <1>2, <1>6, <1>7, <1>9
<1>11. OneOwner'
  <2>1. SUFFICES ASSUME NEW g \in Families, NEW m \in CollectionIds, NEW n \in CollectionIds, m # n,
                        NEW l, l \in collection'[g][m].lives, l \in collection'[g][n].lives
                 PROVE  FALSE
    BY DEF OneOwner
  <2>2. CASE g # f \/ (m # k /\ n # k)
    BY <1>6, <1>10, <2>1, <2>2 DEF OneOwner
  <2>3. CASE g = f /\ m = k
    BY <1>8, <1>9, <1>10, <2>1, <2>3
  <2>4. CASE g = f /\ n = k
    BY <1>8, <1>9, <1>10, <2>1, <2>4
  <2> QED
    BY <2>2, <2>3, <2>4
<1>12. CollectionsKept(held)
  BY <1>5, <1>9, <1>10 DEF CollectionsKept
<1>13. Turn(c) /\ RelationsSound(c)'
  BY <1>2, CollectionFinish
<1>14. LocksApart'
  BY <1>13, TurnKeepsApart DEF CollectionInv, TxnInv
<1> QED
  BY <1>1, <1>10, <1>11, <1>12, <1>13, <1>14, CollectionFrame DEF Turn, CollectionState

----------------------------------------------------------------------------
LEMMA CollectionInvStep == CollectionInv /\ live \in [Lives -> LiveRow] /\ [Next]_vars => CollectionInv'
<1> SUFFICES ASSUME CollectionInv, live \in [Lives -> LiveRow], [Next]_vars PROVE CollectionInv'
  OBVIOUS
<1>1. CASE UNCHANGED vars
  <2>1. UNCHANGED <<txn, workload, collection>>
    BY <1>1 DEF vars, txnVars
  <2>2. TxnInv' /\ CollectionRequests' /\ CollectionState'
    BY <2>1, SameCollections DEF CollectionInv, TxnInv, TxnType, LocksApart, CollectionRequests, CollectionRequest
  <2>3. ASSUME NEW d \in Clients PROVE RelationsSound(d)'
    <3>1. txn'[d] = txn[d] /\ CollectionsKept({})
      BY <2>1, SameCollections
    <3> QED
      BY <3>1, RelationsStay
  <2> QED
    BY <2>2, <2>3 DEF CollectionInv
<1>2. CASE Next
  <2>1. PICK c \in Clients :
           LivesNext(c) \/ CollectionsNext(c) \/ VenuesNext(c) \/ SongsNext(c) \/ DatabaseNext(c)
    BY <1>2 DEF Next
  <2>2. CASE CollectionsNext(c)
    BY <2>2, CollectionStartStep, ValidateStep, InsertStep, StoreStep DEF CollectionsNext, CollectionStep
  <2> QED
    BY <2>1, <2>2, NotCollectionStep, CollectionDatabaseStep
<1> QED
  BY <1>1, <1>2

(* The inductive invariant of tours and groups: the slots a request has taken
   stay its own, and nobody else has put one of their Lives anywhere. *)
THEOREM CollectionInvariant == Spec => []CollectionInv
<1>1. Init => CollectionInv
  <2>1. SUFFICES ASSUME Init PROVE CollectionInv
    OBVIOUS
  <2>2. PICK s \in Scenarios : TxnInit(s.requests) /\ CollectionInit(s)
    BY <2>1 DEF Init
  <2>3. CollectionState
    BY <2>2, ScenarioAssumption DEF CollectionInit, CollectionState, OneOwner
  <2>4. \A c \in Clients : txn[c] = Idle
    BY <2>2 DEF TxnInit
  <2>5. CollectionRequests
    <3>1. CollectionRequest(NoRequest)
      BY DEF CollectionRequest, NoRequest, CollectionKinds
    <3> QED
      BY <2>2, <2>4, <3>1, ScenarioAssumption DEF TxnInit, CollectionRequests, Idle
  <2>6. \A c \in Clients : RelationsSound(c)
    BY <2>4 DEF Idle, NoRequest, RelationsSound, CollectionKinds
  <2>7. TxnInv
    BY <2>2, <2>4 DEF TxnInit, TxnInv, TxnType, LocksApart, Idle
  <2> QED
    BY <2>3, <2>5, <2>6, <2>7 DEF CollectionInv
<1>2. ConsoleInv => live \in [Lives -> LiveRow]
  BY DEF ConsoleInv, LiveState, LiveTypeOK
<1> QED
  BY <1>1, <1>2, CollectionInvStep, ConsoleInvariant, PTL DEF Spec

(* A Live is in one tour and in one performance group at most: the insert of a
   relation looks for another one once the slot of the Live is locked. *)
THEOREM OneCollectionPerLiveAlways == Spec => []OneCollectionPerLive
<1>1. CollectionInv => OneCollectionPerLive
  <2>1. SUFFICES ASSUME CollectionInv, NEW f \in Families, NEW l \in Lives
                 PROVE  Cardinality(Owners(f, 0, l)) <= 1
    BY DEF OneCollectionPerLive
  <2>2. \A k, n \in Owners(f, 0, l) : k = n
    BY <2>1 DEF CollectionInv, CollectionState, OneOwner, Owners
  <2>3. CASE Owners(f, 0, l) = {}
    BY <2>3, FS_EmptySet
  <2>4. CASE Owners(f, 0, l) # {}
    <3>1. PICK k : Owners(f, 0, l) = {k}
      BY <2>2, <2>4
    <3>2. Cardinality({k}) = 1
      BY FS_Singleton
    <3> QED
      BY <3>1, <3>2
  <2> QED
    BY <2>3, <2>4
<1> QED
  BY <1>1, CollectionInvariant, PTL

===============================================================================
