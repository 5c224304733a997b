------------------------------ MODULE LockProofs ------------------------------
(***************************************************************************)
(* The locks of the console's requests: which rows each locks and in which *)
(* order, and that no two requests wait for each other but in the cases    *)
(* DeadlocksAreKnown names.                                                *)
(***************************************************************************)
EXTENDS SongProofs, SequenceFacts

(* What each request locks, and in which mode. *)
ContextWriters == {"create_live", "update_live"} \union SetlistKinds
AlbumKinds == {"create_album"} \union AlbumForms
Favoring == {"favorite", "favorite_batch"}

\* The row of a song is its id; that of a favourite names its user too.
OfSong(k) == k.row = <<"song", k.row[2]>> /\ k.row[2] \in Nat
OfUser(k, user) == k.row = <<"favorite", k.row[2], user>> /\ k.row[2] \in Nat

Rightful(req, k) ==
    \/ k.row[1] = "live" /\ k.mode = "update" /\ req.kind \in {"update_live"} \union SetlistKinds
    \/ k.row[1] = "live" /\ k.mode = "key" /\ req.kind \in CollectionKinds \union FavoriteKinds
    \/ k.row[1] = "live" /\ k.mode = "key" /\ req.kind = "create_lineup_version" /\ req.live # 0
    \/ k.row[1] = "band" /\ k.mode = "update" /\ req.kind \in {"create_name_version", "create_lineup_version"}
    \/ k.row[1] = "band" /\ k.mode = "key" /\ req.kind \in ContextWriters \union CollectionKinds
    \/ k.row[1] = "name" /\ k.mode = "update" /\ req.kind = "create_name_version"
    \/ k.row[1] = "lineup" /\ k.mode = "update" /\ req.kind = "create_lineup_version"
    \/ k.row[1] \in {"name", "lineup"} /\ k.mode = "key" /\ req.kind \in ContextWriters
    \/ k.row[1] = "band ids" /\ k.mode = "update" /\ req.kind = "create_band"
    \/ k.row[1] \in {"slot", "tour", "group"} /\ k.mode = "update" /\ req.kind \in CollectionKinds
    \/ k.row[1] = "venue" /\ k.mode = "update" /\ req.kind \in {"update_venue", "rename_venue"} \union FormKinds
    \/ k.row[1] = "venue names" /\ k = Registry /\ req.kind \in {"create_venue", "rename_venue", "edit_venue"}
    \/ k.row[1] = "venue name" /\ k.mode = "update" /\ req.kind \in {"rename_venue", "edit_venue"}
    \/ k.row[1] = "locality" /\ k.mode = "update" /\ req.kind = "save_locality"
    \/ k.row[1] = "locality" /\ k.mode \in {"key", "share"} /\ req.kind \in {"create_venue", "save_location", "edit_venue"}
    \/ k.row[1] = "identity" /\ k.mode = "update" /\ req.kind \in {"create_locality", "save_locality"}
    \/ k.row[1] = "title" /\ k.mode = "update" /\ req.kind \in GroupCreations
    \/ k.row[1] = "song group" /\ k.mode = "update" /\ req.kind \in SongForms \ AlbumForms
    \/ k.row[1] = "song group" /\ k.mode = "key" /\ req.kind \in SetlistKinds
    \/ k.row[1] = "album" /\ k.mode = "update" /\ req.kind \in AlbumForms
    \/ k.row[1] = "song" /\ k.mode = "update" /\ OfSong(k) /\ req.kind \in SongKinds \ AlbumKinds
    \/ k.row[1] = "song" /\ k.mode = "key" /\ OfSong(k) /\ req.kind \in AlbumKinds
    \/ k.row[1] = "favorite" /\ k.mode = "update" /\ OfUser(k, req.user) /\ req.kind \in Favoring

\* Locks that a transaction takes before any other.
Opens(req, k) ==
    /\ k.mode = "update"
    /\ \/ k.row[1] \in {"live", "band", "band ids", "tour", "group", "venue", "locality", "album"}
       \/ k.row[1] = "identity" /\ req.kind = "create_locality"

\* A version of a name or a line-up is locked below its band or venue.
Leans(k) == k.row[1] \in {"name", "lineup", "venue name"}
Guards(h, k) ==
    /\ h.row = <<IF k.row[1] = "venue name" THEN "venue" ELSE "band", k.row[2]>>
    /\ k.mode = "update" => h.mode = "update"

\* The rows of the catalogue in the order of their locks.
Precedes(r, s) ==
    (r[1] \in {"title", "song group", "album"} /\ s[1] = "song") \/ (r[1] = s[1] /\ r[2] < s[2])

\* An album and a batch lock songs in the order in which they were sent.
Loose(req) == req.kind \in AlbumKinds \union {"create_groups_batch"}
Follows(req, r, s) == Precedes(r, s) \/ (Loose(req) /\ r[1] = "song" /\ s[1] = "song")

Possesses(req, held) ==
    \A k \in held :
        /\ Rightful(req, k)
        /\ Leans(k) => \E h \in held : Guards(h, k)
        /\ req.kind \in SongKinds => k.row[2] \in Nat

Plans(req, held, plan) ==
    /\ Listed(plan)
    /\ \A i \in DOMAIN plan :
          /\ Rightful(req, plan[i])
          /\ Opens(req, plan[i]) => i = 1 /\ held = {}
          /\ Leans(plan[i]) =>
                (\E h \in held : Guards(h, plan[i])) \/ \E j \in DOMAIN plan : j < i /\ Guards(plan[j], plan[i])
          /\ req.kind \in SongKinds =>
                /\ plan[i].row[2] \in Nat
                /\ \A h \in held : Follows(req, h.row, plan[i].row)
                /\ \A j \in DOMAIN plan : i < j => Follows(req, plan[i].row, plan[j].row)

Uses(t) == t.held \union Range(t.plan)

\* What is locked by when.
GroupsOnly(t) ==
    \/ t.req.kind = "move_group" /\ t.at = "song"
    \/ t.req.kind = "update_group" /\ t.at = "songs"
    \/ t.req.kind = "edit_song" /\ t.at = "groups"

Staged(t) ==
    /\ t.at \in {"idle", "form", "read"} => t.held = {} /\ t.plan = <<>>
    /\ GroupsOnly(t) => \A k \in Uses(t) : k.row[1] = "song group"
    /\ t.req.kind \in {"create_name_version", "create_lineup_version"} => Awaits(t, BandLock(t.req.band))
    /\ t.req.kind \in {"rename_venue", "edit_venue"} /\ t.at # "form" => Awaits(t, VenueLock(t.req.venue))
    /\ t.req.kind \in FavoriteKinds /\ t.at = "insert" => t.seen.todo \subseteq Lives /\ t.seen.fresh \subseteq Lives
    /\ \A k \in Uses(t) : (k.row[1] = "identity" => t.at = "store") /\ (k.row[1] = "slot" => t.at = "insert")

Orderly(t) == Possesses(t.req, t.held) /\ Plans(t.req, t.held, t.plan) /\ Staged(t)

OrderInv == \A c \in Clients : Orderly(txn[c])
(* Identities of localities. *)
LocalityClaim(c) ==
    LET t == txn[c]  a == t.req.area  own == Lock("update", <<"locality", a>>) IN
    t.req.kind = "save_locality" =>
        /\ t.at = "validate" => t.seen.name # NoLocality /\ Awaits(t, own)
        /\ t.at = "store" =>
              /\ own \in t.held /\ locality[a] = t.seen.name /\ t.seen.name # NoLocality
              /\ t.plan \in {<<Identity(t.seen.name), Identity(t.req.name)>>, <<Identity(t.req.name)>>, <<>>}
              /\ t.plan # <<>> => \A k \in t.held : k.row[1] = "identity" => k = Identity(t.seen.name)
              /\ Len(t.plan) = 2 => \A k \in t.held : k.row[1] # "identity"

\* Two localities do not take each other's identity.
SwapFree(s, t) ==
    {s.req.kind, t.req.kind} = {"save_locality"} /\ s.at = "store" /\ t.at = "store" =>
        s.seen.name # t.req.name \/ t.seen.name # s.req.name

IdentityInv ==
    /\ DOMAIN locality = Localities
    /\ \A c \in Clients : LocalityClaim(c)
    /\ \A c, d \in Clients : c # d => SwapFree(txn[c], txn[d])

(* Relations of tours and groups. *)
RowLock(req) == Lock("update", <<Family(req), req.id>>)
Inserting(c) == txn[c].req.kind \in CollectionKinds /\ txn[c].at = "insert"

\* The slots of a plan and of a transaction: those of the deleted relations come first.
SlotPlan(plan, f, old, wanted) ==
    \A i \in DOMAIN plan : plan[i].row[1] = "slot" =>
        \/ \E l \in old : plan[i] = Slot(f, l)
        \/ plan[i] = Slot(f, wanted) /\ \A j \in DOMAIN plan : i < j => plan[j].row[1] # "slot"

SlotsTaken(held, plan, f, old, wanted) ==
    \A k \in held : k.row[1] = "slot" =>
        \/ \E l \in old : k = Slot(f, l)
        \/ k = Slot(f, wanted) /\ \A i \in DOMAIN plan : plan[i].row[1] # "slot"

SlotClaim(c) ==
    LET t == txn[c]  f == Family(t.req) IN
    /\ t.req.kind \in CollectionKinds /\ t.req.id # 0 => Awaits(t, RowLock(t.req))
    /\ Inserting(c) =>
          /\ t.req.id # 0 => RowLock(t.req) \in t.held /\ collection[f][t.req.id] # NoCollection
          /\ t.seen.next \in DOMAIN t.seen.order /\ Range(t.seen.order) \subseteq t.req.lives
          /\ SlotPlan(t.plan, f, Replaced(t), Wanted(t))
          /\ SlotsTaken(t.held, t.plan, f, Replaced(t) \union Added(t), Wanted(t))

\* Two requests do not want each other's Lives.
Disjoint(c, d) ==
    LET s == txn[c]  t == txn[d] IN
    Inserting(c) /\ Inserting(d) /\ Family(s.req) = Family(t.req)
    => s.req.lives \cap Replaced(t) = {} \/ t.req.lives \cap Replaced(s) = {}

SlotInv ==
    /\ \A c \in Clients : SlotClaim(c)
    /\ \A c, d \in Clients : c # d => Disjoint(c, d)

LEMMA TakenPlan ==
    ASSUME NEW plan, Listed(plan), plan # <<>>
    PROVE  /\ Listed(Tail(plan)) /\ Head(plan) = plan[1] /\ 1 \in DOMAIN plan
           /\ \A i \in DOMAIN Tail(plan) : i \in Nat \ {0} /\ i + 1 \in DOMAIN plan /\ Tail(plan)[i] = plan[i + 1]
           /\ \A i \in DOMAIN plan : i \in Nat /\ (i # 1 => i - 1 \in DOMAIN Tail(plan))
           /\ Range(plan) = {Head(plan)} \union Range(Tail(plan))
<1>1. PICK S : S = Range(plan) /\ plan \in Seq(S)
  BY DEF Listed
<1>2. plan \in Seq(S) /\ Len(plan) \in Nat \ {0}
  BY <1>1, EmptySeq
<1>3. Tail(plan) \in Seq(S) /\ Len(Tail(plan)) = Len(plan) - 1
  BY <1>1, HeadTailProperties
<1>4. Head(plan) = plan[1] /\ \A i \in 1..(Len(plan) - 1) : Tail(plan)[i] = plan[i + 1]
  BY <1>2, <1>3
<1>5. DOMAIN plan = 1..Len(plan) /\ DOMAIN Tail(plan) = 1..(Len(plan) - 1)
  BY <1>2, <1>3
<1>6. /\ \A i \in DOMAIN Tail(plan) : i \in Nat \ {0} /\ i + 1 \in DOMAIN plan /\ Tail(plan)[i] = plan[i + 1]
      /\ \A i \in DOMAIN plan : i \in Nat /\ (i # 1 => i - 1 \in DOMAIN Tail(plan))
  BY <1>2, <1>4, <1>5
<1>7. 1 \in DOMAIN plan
  BY <1>2, <1>5
<1>8. Range(plan) = {Head(plan)} \union Range(Tail(plan))
  <2>1. \A i \in DOMAIN plan : i # 1 => plan[i] = Tail(plan)[i - 1]
    BY <1>6
  <2>2. \A i \in DOMAIN plan : plan[i] = Head(plan) \/ \E j \in DOMAIN Tail(plan) : Tail(plan)[j] = plan[i]
    BY <1>4, <1>6, <2>1
  <2>3. \A j \in DOMAIN Tail(plan) : \E i \in DOMAIN plan : plan[i] = Tail(plan)[j]
    BY <1>6
  <2>4. \E i \in DOMAIN plan : plan[i] = Head(plan)
    BY <1>4, <1>7
  <2> QED
    BY <2>2, <2>3, <2>4 DEF Range
<1>9. Listed(Tail(plan))
  BY <1>3, ListedFacts
<1> QED
  BY <1>4, <1>6, <1>7, <1>8, <1>9

\* Taking the next lock of the plan.
LEMMA TakePossesses ==
    ASSUME NEW req, NEW held, NEW plan, plan # <<>>, Possesses(req, held), Plans(req, held, plan)
    PROVE  Possesses(req, held \union {Head(plan)}) /\ Plans(req, held \union {Head(plan)}, Tail(plan))
<1>1. PICK p, more : p = Tail(plan) /\ more = held \union {Head(plan)}
  OBVIOUS
<1>2. /\ Listed(p) /\ Head(plan) = plan[1] /\ 1 \in DOMAIN plan
      /\ \A i \in DOMAIN p : i \in Nat \ {0} /\ i + 1 \in DOMAIN plan /\ p[i] = plan[i + 1]
      /\ \A i \in DOMAIN plan : i \in Nat /\ (i # 1 => i - 1 \in DOMAIN p)
  BY <1>1, TakenPlan DEF Plans
<1>3. ~\E j \in DOMAIN plan : j < 1 /\ Guards(plan[j], plan[1])
  <2>1. \A j \in DOMAIN plan : j = 1 \/ j - 1 \in Nat \ {0}
    BY <1>2
  <2>2. \A j \in DOMAIN plan : ~(j < 1)
    BY <1>2, <2>1
  <2> QED
    BY <2>2
<1>4. Rightful(req, plan[1]) /\ (Leans(plan[1]) => \E h \in held : Guards(h, plan[1]))
  BY <1>2, <1>3 DEF Plans
<1>5. Possesses(req, more)
  <2>1. req.kind \in SongKinds => plan[1].row[2] \in Nat
    BY <1>2 DEF Plans
  <2> QED
    BY <1>1, <1>2, <1>4, <2>1 DEF Possesses
<1>6. ASSUME NEW i \in DOMAIN p PROVE Rightful(req, p[i]) /\ ~Opens(req, p[i])
  <2>1. i + 1 \in DOMAIN plan /\ p[i] = plan[i + 1] /\ i + 1 # 1
    BY <1>2
  <2> QED
    BY <2>1 DEF Plans
<1>7. ASSUME NEW i \in DOMAIN p, Leans(p[i])
      PROVE  (\E h \in more : Guards(h, p[i])) \/ \E j \in DOMAIN p : j < i /\ Guards(p[j], p[i])
  <2>1. i + 1 \in DOMAIN plan /\ p[i] = plan[i + 1]
    BY <1>2
  <2>2. CASE \E h \in held : Guards(h, p[i])
    BY <1>1, <2>2
  <2>3. CASE \E j \in DOMAIN plan : j < i + 1 /\ Guards(plan[j], plan[i + 1])
    <3>1. PICK j \in DOMAIN plan : j < i + 1 /\ Guards(plan[j], p[i])
      BY <2>1, <2>3
    <3>2. CASE j = 1
      BY <1>1, <1>2, <3>1, <3>2
    <3>3. CASE j # 1
      <4>1. j - 1 \in DOMAIN p /\ j \in Nat /\ i \in Nat /\ j - 1 \in Nat
        BY <1>2, <3>3
      <4>2. p[j - 1] = plan[j] /\ j - 1 < i
        BY <1>2, <3>1, <4>1
      <4> QED
        BY <3>1, <4>1, <4>2
    <3> QED
      BY <3>2, <3>3
  <2> QED
    BY <1>7, <2>1, <2>2, <2>3 DEF Plans
<1>8. ASSUME NEW i \in DOMAIN p, req.kind \in SongKinds
      PROVE  /\ p[i].row[2] \in Nat
             /\ \A h \in more : Follows(req, h.row, p[i].row)
             /\ \A j \in DOMAIN p : i < j => Follows(req, p[i].row, p[j].row)
  <2>1. i + 1 \in DOMAIN plan /\ p[i] = plan[i + 1] /\ 1 < i + 1
    BY <1>2
  <2>2. p[i].row[2] \in Nat /\ \A h \in held : Follows(req, h.row, p[i].row)
    BY <1>8, <2>1 DEF Plans
  <2>3. Follows(req, plan[1].row, p[i].row)
    BY <1>2, <1>8, <2>1 DEF Plans
  <2>4. ASSUME NEW j \in DOMAIN p, i < j PROVE Follows(req, p[i].row, p[j].row)
    <3>1. j + 1 \in DOMAIN plan /\ p[j] = plan[j + 1] /\ i + 1 < j + 1
      BY <1>2, <2>4
    <3> QED
      BY <1>8, <2>1, <3>1 DEF Plans
  <2> QED
    BY <1>1, <1>2, <2>2, <2>3, <2>4
<1>9. Plans(req, more, p)
  BY <1>2, <1>6, <1>7, <1>8 DEF Plans
<1> QED
  BY <1>1, <1>5, <1>9

LEMMA TakeOrderly ==
    ASSUME TxnType, NEW c \in Clients, TakeLock(c), Orderly(txn[c])
    PROVE  Others(c) /\ TxnType' /\ Orderly(txn'[c])
<1>1. /\ TxnType' /\ Others(c)
      /\ txn'[c] = [at |-> txn[c].at, req |-> txn[c].req, seen |-> txn[c].seen,
                    plan |-> Tail(txn[c].plan), held |-> txn[c].held \union {Head(txn[c].plan)}]
  BY TakeTurn
<1>2. PICK t, u : t = txn[c] /\ u = txn'[c]
  OBVIOUS
<1>3. /\ u.at = t.at /\ u.req = t.req /\ u.seen = t.seen
      /\ u.plan = Tail(t.plan) /\ u.held = t.held \union {Head(t.plan)}
  BY <1>1, <1>2
<1>4. t.plan # <<>> /\ Listed(t.plan)
  BY <1>2 DEF TakeLock, Orderly, Plans
<1>5. Possesses(u.req, u.held) /\ Plans(u.req, u.held, u.plan)
  <2>1. Possesses(t.req, t.held) /\ Plans(t.req, t.held, t.plan)
    BY <1>2 DEF Orderly
  <2>2. Possesses(t.req, t.held \union {Head(t.plan)}) /\ Plans(t.req, t.held \union {Head(t.plan)}, Tail(t.plan))
    BY <1>4, <2>1, TakePossesses
  <2> QED
    BY <1>3, <2>2
<1>6. Uses(u) = Uses(t)
  <2>1. Range(t.plan) = {Head(t.plan)} \union Range(Tail(t.plan))
    BY <1>4, TakenPlan
  <2> QED
    BY <1>3, <2>1 DEF Uses
<1>7. \A lock : Awaits(t, lock) => Awaits(u, lock)
  BY <1>2, <1>4, TakenAwaits
<1>8. Staged(t)
  BY <1>2 DEF Orderly
<1>9. Staged(u)
  BY <1>3, <1>4, <1>6, <1>7, <1>8 DEF Staged, GroupsOnly
<1> QED
  BY <1>1, <1>2, <1>5, <1>9 DEF Orderly

\* Plans that are empty or take one lock.
LEMMA NoPlan ==
    ASSUME NEW req, NEW held
    PROVE  Plans(req, held, <<>>)
  BY ShortPlans DEF Plans

LEMMA OnePlan ==
    ASSUME NEW req, NEW held, NEW k, Rightful(req, k), Opens(req, k) => held = {},
           Leans(k) => \E h \in held : Guards(h, k),
           req.kind \in SongKinds => k.row[2] \in Nat /\ \A h \in held : Follows(req, h.row, k.row)
    PROVE  Plans(req, held, <<k>>)
<1>1. PICK plan : plan = <<k>> /\ Listed(plan)
  BY ShortPlans
<1>2. DOMAIN plan = {1} /\ plan[1] = k
  BY <1>1
<1>3. \A i \in DOMAIN plan : i = 1 /\ plan[i] = k
  BY <1>2
<1>4. \A i, j \in DOMAIN plan : ~(i < j)
  BY <1>3
<1> QED
  BY <1>1, <1>2, <1>3, <1>4 DEF Plans

LEMMA IdleOrderly == Orderly(Idle)
<1>1. Range(<<>>) = {}
  BY DEF Range
<1>2. /\ Idle.at = "idle" /\ Idle.req = NoRequest /\ Idle.plan = <<>> /\ Idle.held = {} /\ NoRequest.kind = "none"
  BY DEF Idle, NoRequest
<1>3. Staged(Idle)
  BY <1>1, <1>2 DEF Staged, GroupsOnly, Uses, FavoriteKinds
<1> QED
  BY <1>2, <1>3, NoPlan DEF Orderly, Possesses

----------------------------------------------------------------------------
(* The plans that the requests make. *)
Joins(p, q, joined) ==
    /\ Listed(joined) /\ Len(p) \in Nat
    /\ DOMAIN p = 1..Len(p) /\ DOMAIN q = 1..Len(q) /\ Len(q) \in Nat
    /\ \A i \in DOMAIN p : i \in DOMAIN joined /\ joined[i] = p[i]
    /\ \A i \in DOMAIN q : i + Len(p) \in DOMAIN joined /\ joined[i + Len(p)] = q[i]
    /\ \A i \in DOMAIN joined : i \in DOMAIN p \/ (i \in Nat /\ Len(p) < i /\ i - Len(p) \in DOMAIN q)

LEMMA JoinedPlans ==
    ASSUME NEW p, NEW q, NEW joined, Listed(p), Listed(q), joined = p \o q
    PROVE  Joins(p, q, joined)
<1>1. PICK S : S = Range(p) \union Range(q) /\ p \in Seq(S) /\ q \in Seq(S)
  <2>1. p \in Seq(Range(p) \union Range(q)) /\ q \in Seq(Range(p) \union Range(q))
    BY DEF Listed
  <2> QED
    BY <2>1
<1>2. joined \in Seq(S) /\ Len(joined) = Len(p) + Len(q)
  BY <1>1
<1>3. /\ \A i \in 1..Len(p) : joined[i] = p[i]
      /\ \A i \in 1..Len(q) : joined[i + Len(p)] = q[i]
  BY <1>1
<1>4. Listed(joined)
  BY PlansJoined
<1>5. DOMAIN p = 1..Len(p) /\ DOMAIN q = 1..Len(q) /\ DOMAIN joined = 1..Len(joined) /\ Len(p) \in Nat /\ Len(q) \in Nat
  BY <1>1, <1>2
<1> QED
  BY <1>2, <1>3, <1>4, <1>5 DEF Joins

LEMMA PlansFollow ==
    ASSUME NEW req, req.kind \notin SongKinds, NEW held, NEW p, NEW q, NEW joined, joined = p \o q,
           Plans(req, held, p), Plans(req, held, q), \A i \in DOMAIN q : ~Opens(req, q[i])
    PROVE  Plans(req, held, joined)
<1>1. Listed(p) /\ Listed(q)
  BY DEF Plans
<1>2. /\ Listed(joined) /\ Len(p) \in Nat
      /\ DOMAIN p = 1..Len(p) /\ DOMAIN q = 1..Len(q) /\ Len(q) \in Nat
      /\ \A i \in DOMAIN p : i \in DOMAIN joined /\ joined[i] = p[i]
      /\ \A i \in DOMAIN q : i + Len(p) \in DOMAIN joined /\ joined[i + Len(p)] = q[i]
      /\ \A i \in DOMAIN joined : i \in DOMAIN p \/ (i \in Nat /\ Len(p) < i /\ i - Len(p) \in DOMAIN q)
  <2>1. Joins(p, q, joined)
    BY <1>1, JoinedPlans
  <2> QED
    BY <2>1 DEF Joins
<1>3. ASSUME NEW i \in DOMAIN joined
      PROVE  /\ Rightful(req, joined[i]) /\ (Opens(req, joined[i]) => i = 1 /\ held = {})
             /\ Leans(joined[i]) =>
                   (\E h \in held : Guards(h, joined[i])) \/ \E j \in DOMAIN joined : j < i /\ Guards(joined[j], joined[i])
  <2>1. CASE i \in DOMAIN p
    <3>1. joined[i] = p[i] /\ \A j \in DOMAIN p : j \in DOMAIN joined /\ joined[j] = p[j]
      BY <1>2, <2>1
    <3>2. /\ Rightful(req, p[i]) /\ (Opens(req, p[i]) => i = 1 /\ held = {})
          /\ Leans(p[i]) => (\E h \in held : Guards(h, p[i])) \/ \E j \in DOMAIN p : j < i /\ Guards(p[j], p[i])
      BY <2>1 DEF Plans
    <3>3. Leans(p[i]) => (\E h \in held : Guards(h, p[i])) \/ \E j \in DOMAIN joined : j < i /\ Guards(joined[j], p[i])
      BY <3>1, <3>2
    <3> QED
      BY <3>1, <3>2, <3>3
  <2>2. CASE i \in Nat /\ Len(p) < i /\ i - Len(p) \in DOMAIN q
    <3>1. PICK k : k = i - Len(p) /\ k \in DOMAIN q /\ i = k + Len(p)
      BY <1>2, <2>2
    <3>2. joined[i] = q[k]
      BY <1>2, <3>1
    <3>3. /\ Rightful(req, q[k]) /\ ~Opens(req, q[k])
          /\ Leans(q[k]) => (\E h \in held : Guards(h, q[k])) \/ \E j \in DOMAIN q : j < k /\ Guards(q[j], q[k])
      BY <3>1 DEF Plans
    <3>4. ASSUME NEW j \in DOMAIN q, j < k, Guards(q[j], q[k])
          PROVE  \E m \in DOMAIN joined : m < i /\ Guards(joined[m], q[k])
      <4>1. j + Len(p) \in DOMAIN joined /\ joined[j + Len(p)] = q[j]
        BY <1>2
      <4>2. j + Len(p) < i
        BY <1>2, <3>1, <3>4
      <4> QED
        BY <3>4, <4>1, <4>2
    <3> QED
      BY <3>2, <3>3, <3>4
  <2> QED
    BY <1>2, <2>1, <2>2
<1> QED
  BY <1>2, <1>3 DEF Plans

\* Locks that neither open nor lean.
LEMMA FlatPlan ==
    ASSUME NEW req, req.kind \notin SongKinds, NEW held, NEW plan, Listed(plan),
           \A i \in DOMAIN plan : Rightful(req, plan[i]) /\ ~Opens(req, plan[i]) /\ ~Leans(plan[i])
    PROVE  Plans(req, held, plan)
  BY DEF Plans

\* Foreign keys of the tables with these tags: the band before what leans on it.
ContextTags == {"band", "name", "lineup"}
Keyed(tags, plan) ==
    /\ Listed(plan)
    /\ \A i \in DOMAIN plan :
          /\ plan[i].mode = "key" /\ plan[i].row[1] \in tags
          /\ Leans(plan[i]) => \E j \in DOMAIN plan : j < i /\ Guards(plan[j], plan[i])

LEMMA KeyedPlans ==
    ASSUME NEW req, req.kind \in ContextWriters, NEW held, NEW plan,
           NEW tags, tags = IF req.kind \in SetlistKinds THEN ContextTags \union {"song group"} ELSE ContextTags,
           Keyed(tags, plan)
    PROVE  Plans(req, held, plan) /\ \A i \in DOMAIN plan : ~Opens(req, plan[i])
<1>1. req.kind \notin SongKinds
  BY DEF ContextWriters, SetlistKinds, SongKinds, SongForms
<1>2. ASSUME NEW i \in DOMAIN plan PROVE Rightful(req, plan[i]) /\ ~Opens(req, plan[i])
  <2>1. plan[i].mode = "key" /\ plan[i].row[1] \in tags
    BY DEF Keyed
  <2>2. CASE plan[i].row[1] \in ContextTags
    BY <2>1, <2>2 DEF Rightful, Opens, ContextTags
  <2>3. CASE plan[i].row[1] = "song group" /\ req.kind \in SetlistKinds
    BY <2>1, <2>3 DEF Rightful, Opens
  <2> QED
    BY <2>1, <2>2, <2>3
<1> QED
  BY <1>1, <1>2 DEF Keyed, Plans

LEMMA KeyedJoin ==
    ASSUME NEW tags, NEW p, NEW q, NEW joined, joined = p \o q, Keyed(tags, p), Keyed(tags, q)
    PROVE  Keyed(tags, joined)
<1>1. Joins(p, q, joined)
  BY JoinedPlans DEF Keyed
<1>2. ASSUME NEW i \in DOMAIN joined
      PROVE  /\ joined[i].mode = "key" /\ joined[i].row[1] \in tags
             /\ Leans(joined[i]) => \E j \in DOMAIN joined : j < i /\ Guards(joined[j], joined[i])
  <2>1. CASE i \in DOMAIN p
    <3>1. joined[i] = p[i] /\ \A j \in DOMAIN p : j \in DOMAIN joined /\ joined[j] = p[j]
      BY <1>1, <2>1 DEF Joins
    <3> QED
      BY <2>1, <3>1 DEF Keyed
  <2>2. CASE i \in Nat /\ Len(p) < i /\ i - Len(p) \in DOMAIN q
    <3>1. PICK k : k = i - Len(p) /\ k \in DOMAIN q /\ i = k + Len(p) /\ k \in Nat /\ Len(p) \in Nat
      BY <1>1, <2>2 DEF Joins
    <3>2. joined[i] = q[k]
      BY <1>1, <3>1 DEF Joins
    <3>3. ASSUME NEW j \in DOMAIN q, j < k, Guards(q[j], q[k])
          PROVE  \E m \in DOMAIN joined : m < i /\ Guards(joined[m], q[k])
      <4>1. j + Len(p) \in DOMAIN joined /\ joined[j + Len(p)] = q[j]
        BY <1>1 DEF Joins
      <4>2. j + Len(p) < i
        BY <1>1, <3>1, <3>3 DEF Joins
      <4> QED
        BY <3>3, <4>1, <4>2
    <3> QED
      BY <3>1, <3>2, <3>3 DEF Keyed
  <2> QED
    BY <1>1, <2>1, <2>2 DEF Joins
<1> QED
  BY <1>1, <1>2 DEF Keyed, Joins

LEMMA KeyedContext ==
    ASSUME NEW b, NEW x
    PROVE  Keyed(ContextTags, ContextKeys(b, x))
<1>1. PICK k1, k2, k3, k4 :
         /\ k1 = BandKey(b) /\ k2 = Lock("key", <<"name", b, x.name>>)
         /\ k3 = Lock("key", <<"lineup", b, x.base>>) /\ k4 = Lock("key", <<"lineup", b, x.next>>)
  OBVIOUS
<1>2. \A k \in {k1, k2, k3, k4} : k.mode = "key" /\ k.row[1] \in ContextTags
  BY <1>1 DEF BandKey, Lock, ContextTags
<1>3. \A k \in {k2, k3, k4} : Guards(k1, k)
  <2>1. k1.row = <<"band", b>>
    BY <1>1 DEF BandKey, Lock
  <2>2. \A k \in {k2, k3, k4} : k.row[1] # "venue name" /\ k.row[2] = b /\ k.mode # "update"
    <3>1. \A m, y : Lock("key", <<m, b, y>>).row[1] = m /\ Lock("key", <<m, b, y>>).row[2] = b
                    /\ Lock("key", <<m, b, y>>).mode = "key"
      BY DEF Lock
    <3>2. k2.row[1] = "name" /\ k3.row[1] = "lineup" /\ k4.row[1] = "lineup"
      BY <1>1, <3>1
    <3>3. k2.row[2] = b /\ k3.row[2] = b /\ k4.row[2] = b /\ k2.mode = "key" /\ k3.mode = "key" /\ k4.mode = "key"
      BY <1>1, <3>1
    <3> QED
      BY <3>2, <3>3
  <2>3. ASSUME NEW k \in {k2, k3, k4} PROVE Guards(k1, k)
    <3>1. k1.row = <<IF k.row[1] = "venue name" THEN "venue" ELSE "band", k.row[2]>>
      BY <2>1, <2>2
    <3> QED
      BY <2>2, <3>1 DEF Guards
  <2> QED
    BY <2>3
<1>4. ~Leans(k1)
  BY <1>1 DEF BandKey, Lock, Leans
<1>5. PICK p, q, plan : /\ p = <<k1, k2, k3>> /\ (q = <<>> \/ q = <<k4>>) /\ plan = p \o q
                        /\ plan = ContextKeys(b, x)
  BY <1>1 DEF ContextKeys
<1>6. Listed(p) /\ Listed(q)
  <2>1. p \in Seq({k1, k2, k3})
    BY <1>5
  <2> QED
    BY <1>5, <2>1, ListedFacts, ShortPlans
<1>7. Joins(p, q, plan)
  BY <1>5, <1>6, JoinedPlans
<1>8. Len(p) = 3 /\ DOMAIN p = 1..3 /\ p[1] = k1 /\ p[2] = k2 /\ p[3] = k3
  BY <1>5
<1>9. 1 \in DOMAIN plan /\ plan[1] = k1
  BY <1>7, <1>8 DEF Joins
<1>10. ASSUME NEW i \in DOMAIN plan
       PROVE  i \in Nat /\ 1 <= i /\ plan[i] \in {k1, k2, k3, k4} /\ (i # 1 => plan[i] \in {k2, k3, k4})
  <2>1. CASE i \in DOMAIN p
    <3>1. plan[i] = p[i]
      BY <1>7, <2>1 DEF Joins
    <3> QED
      BY <1>8, <2>1, <3>1
  <2>2. CASE i \in Nat /\ Len(p) < i /\ i - Len(p) \in DOMAIN q
    <3>1. plan[i - Len(p) + Len(p)] = q[i - Len(p)]
      BY <1>7, <2>2 DEF Joins
    <3>2. q[i - Len(p)] = k4
      <4>1. PICK j : j = i - Len(p) /\ j \in DOMAIN q
        BY <2>2
      <4>2. q = <<k4>>
        BY <1>5, <4>1
      <4> QED
        BY <4>1, <4>2
    <3>3. i - Len(p) + Len(p) = i
      BY <1>8, <2>2
    <3> QED
      BY <1>8, <2>2, <3>1, <3>2, <3>3
  <2> QED
    BY <1>7, <2>1, <2>2 DEF Joins
<1>11. ASSUME NEW i \in DOMAIN plan, Leans(plan[i]) PROVE \E j \in DOMAIN plan : j < i /\ Guards(plan[j], plan[i])
  <2>1. i # 1
    BY <1>4, <1>9, <1>11
  <2>2. 1 < i /\ Guards(plan[1], plan[i])
    BY <1>3, <1>9, <1>10, <2>1
  <2> QED
    BY <1>9, <2>2
<1>12. Listed(plan) /\ \A i \in DOMAIN plan : plan[i].mode = "key" /\ plan[i].row[1] \in ContextTags
  BY <1>2, <1>7, <1>10 DEF Joins
<1>13. Keyed(ContextTags, plan)
  BY <1>11, <1>12 DEF Keyed
<1> QED
  BY <1>5, <1>13

\* Keys that are put together from those of one row after another.
LEMMA KeyedFlatten ==
    ASSUME NEW tags, NEW n \in Nat, NEW seqs, seqs = [i \in 1..n |-> seqs[i]], \A i \in 1..n : Keyed(tags, seqs[i])
    PROVE  Keyed(tags, FlattenSeq(seqs))
<1>1. CASE n = 0
  <2>1. seqs = <<>>
    BY <1>1
  <2>2. FlattenSeq(seqs) = <<>>
    BY <2>1 DEF FlattenSeq
  <2> QED
    BY <2>2, ShortPlans DEF Keyed
<1>2. CASE n # 0
  <2>1. PICK S : S = UNION {Range(seqs[i]) : i \in 1..n}
    OBVIOUS
  <2>2. ASSUME NEW i \in 1..n PROVE seqs[i] \in Seq(S)
    <3>1. seqs[i] \in Seq(Range(seqs[i])) /\ Range(seqs[i]) \subseteq S
      BY <2>1 DEF Keyed, Listed
    <3> QED
      BY <3>1
  <2>3. seqs \in [1..n -> Seq(S)] /\ n \in Nat \ {0}
    BY <1>2, <2>2
  <2>4. PICK g : /\ FlattenSeq(seqs) = g[n] /\ g[1] = seqs[1]
                 /\ \A i \in 1..n : i # 1 => g[i] = g[i - 1] \o seqs[i]
    <3>1. \E g : Flattens(g, seqs, n, S)
      BY <2>3, Flattened
    <3> QED
      BY <3>1 DEF Flattens
  <2> DEFINE Bad == {m \in Nat : m \in 1..n /\ ~Keyed(tags, g[m])}
  <2>5. Bad = {}
    <3>1. SUFFICES ASSUME Bad # {} PROVE FALSE
      OBVIOUS
    <3>2. PICK m \in Bad : \A k \in Bad : ~(<<k, m>> \in OpToRel(<, Nat))
      BY <3>1, WFMin, NatLessThanWellFounded
    <3>3. m \in 1..n /\ ~Keyed(tags, g[m]) /\ \A k \in Bad : ~(k < m)
      BY <3>2 DEF OpToRel
    <3>4. CASE m = 1
      BY <2>4, <3>3, <3>4
    <3>5. CASE m # 1
      <4>1. m - 1 \in 1..n /\ m - 1 < m /\ m - 1 \in Nat
        BY <3>3, <3>5
      <4>2. Keyed(tags, g[m - 1])
        BY <3>3, <4>1
      <4>3. g[m] = g[m - 1] \o seqs[m]
        BY <2>4, <3>3, <3>5
      <4>4. Keyed(tags, g[m])
        BY <3>3, <4>2, <4>3, KeyedJoin
      <4> QED
        BY <3>3, <4>4
    <3> QED
      BY <3>4, <3>5
  <2>6. n \in 1..n
    BY <2>3
  <2>7. Keyed(tags, g[n])
    <3>1. n \notin Bad
      BY <2>5
    <3> QED
      BY <2>3, <2>6, <3>1
  <2> QED
    BY <2>4, <2>7
<1> QED
  BY <1>1, <1>2

LEMMA KeyedRewrite ==
    ASSUME NEW contexts
    PROVE  Keyed(ContextTags, RewriteKeys(contexts))
<1>1. PICK B : B = {b \in Bands : contexts[b] # NoContext}
  OBVIOUS
<1>2. PICK n : n = Cardinality(B) /\ n \in Nat
  <2>1. IsFiniteSet(B)
    BY <1>1, LiveConstants, FS_Subset
  <2> QED
    BY <2>1, FS_CardinalityType
<1>3. PICK seqs :
         seqs = [i \in 1..n |-> LET b == InOrder({d \in Bands : contexts[d] # NoContext})[i]
                                IN ContextKeys(b, contexts[b])]
  OBVIOUS
<1>4. RewriteKeys(contexts) = FlattenSeq(seqs)
  BY <1>1, <1>2, <1>3 DEF RewriteKeys
<1>5. \A i \in 1..n : Keyed(ContextTags, seqs[i])
  BY <1>3, KeyedContext
<1>6. seqs = [i \in 1..n |-> seqs[i]]
  BY <1>3
<1> QED
  BY <1>2, <1>4, <1>5, <1>6, KeyedFlatten

LEMMA KeyedBands ==
    ASSUME NEW bands, IsFiniteSet(bands)
    PROVE  Keyed(ContextTags, BandKeys(bands))
<1>1. Listed(BandKeys(bands))
  BY BandKeysListed
<1>2. \A i \in DOMAIN BandKeys(bands) : \E b : BandKeys(bands)[i] = BandKey(b)
  BY DEF BandKeys
<1>3. \A b : BandKey(b).mode = "key" /\ BandKey(b).row[1] = "band" /\ ~Leans(BandKey(b))
  BY DEF BandKey, Lock, Leans
<1> QED
  BY <1>1, <1>2, <1>3 DEF Keyed, ContextTags

\* The foreign keys of the rows of a setlist.
LEMMA KeyedRows ==
    ASSUME NEW rows \in Seq(SetlistRow)
    PROVE  Keyed(ContextTags \union {"song group"}, RowKeys(rows))
<1>1. PICK n : n = Len(rows) /\ n \in Nat /\ DOMAIN rows = 1..n /\ \A i \in 1..n : rows[i] \in SetlistRow
  OBVIOUS
<1>6. PICK tags : tags = ContextTags \union {"song group"}
  OBVIOUS
<1>2. PICK keys :
         keys = [i \in 1..n |-> <<Lock("key", <<"song group", rows[i].song>>)>>
                                 \o BandKeys({p.band : p \in rows[i].performances})]
  OBVIOUS
<1>3. ASSUME NEW i \in 1..n PROVE Keyed(tags, keys[i])
  <2>1. PICK lock, bands :
           lock = Lock("key", <<"song group", rows[i].song>>) /\ bands = {p.band : p \in rows[i].performances}
    OBVIOUS
  <2>2. IsFiniteSet(bands)
    <3>1. rows[i] \in SetlistRow
      BY <1>1
    <3>2. bands \subseteq Bands
      BY <2>1, <3>1 DEF SetlistRow, Performance
    <3> QED
      BY <3>2, LiveConstants, FS_Subset
  <2>3. Keyed(tags, BandKeys(bands))
    BY <1>6, <2>2, KeyedBands DEF Keyed
  <2>4. Keyed(tags, <<lock>>)
    <3>1. lock.mode = "key" /\ lock.row[1] = "song group" /\ ~Leans(lock)
      BY <2>1 DEF Lock, Leans
    <3>2. PICK plan : plan = <<lock>> /\ Listed(plan)
      BY ShortPlans
    <3>3. \A j \in DOMAIN plan : plan[j] = lock
      BY <3>2
    <3> QED
      BY <1>6, <3>1, <3>2, <3>3 DEF Keyed
  <2>5. keys[i] = <<lock>> \o BandKeys(bands)
    BY <1>2, <2>1
  <2> QED
    BY <2>3, <2>4, <2>5, KeyedJoin
<1>4. keys = [i \in 1..n |-> keys[i]]
  BY <1>2
<1>5. RowKeys(rows) = FlattenSeq(keys)
  BY <1>1, <1>2 DEF RowKeys
<1>7. Keyed(tags, FlattenSeq(keys))
  BY <1>1, <1>3, <1>4, KeyedFlatten
<1> QED
  BY <1>5, <1>6, <1>7

\* Rows locked in the order of their ids.
LEMMA InOrderAscends ==
    ASSUME NEW ids \in SUBSET Nat, IsFiniteSet(ids)
    PROVE  /\ \A i \in DOMAIN InOrder(ids) : i \in Nat /\ InOrder(ids)[i] \in ids
           /\ \A i, j \in DOMAIN InOrder(ids) : i < j => InOrder(ids)[i] < InOrder(ids)[j]
<1> DEFINE R == {p \in ids \X ids : p[1] < p[2]}
           P(s) == \A i, j \in DOMAIN s : i < j => <<s[j], s[i]>> \notin R
<1>1. StrictOrder(R, ids)
  BY DEF StrictOrder
<1>2. PICK s : s \in SetToSeqs(ids) /\ \A i, j \in DOMAIN s : i < j => <<s[i], s[j]>> \in R
  BY <1>1, LineExists DEF Lines
<1>3. P(s)
  <2>1. ASSUME NEW i \in DOMAIN s, NEW j \in DOMAIN s, i < j PROVE <<s[j], s[i]>> \notin R
    <3>1. <<s[i], s[j]>> \in R
      BY <1>2, <2>1
    <3>2. s[i] \in Nat /\ s[j] \in Nat /\ s[i] < s[j]
      BY <3>1
    <3> QED
      BY <3>2
  <2> QED
    BY <2>1
<1>4. PICK t : t = InOrder(ids) /\ t \in SetToSeqs(ids) /\ P(t)
  BY <1>2, <1>3 DEF InOrder, Sorted
<1>5. t \in Seq(ids) /\ DOMAIN t = 1..Len(t) /\ \A i, j \in DOMAIN t : t[i] = t[j] => i = j
  BY <1>4, LineOnto
<1>6. \A i \in DOMAIN t : i \in Nat /\ t[i] \in ids /\ t[i] \in Nat
  <2>1. ASSUME NEW i \in 1..Len(t) PROVE i \in Nat /\ t[i] \in ids
    BY <1>5
  <2> QED
    BY <1>5, <2>1
<1>7. ASSUME NEW i \in DOMAIN t, NEW j \in DOMAIN t, i < j PROVE t[i] < t[j]
  <2>1. t[i] # t[j]
    BY <1>5, <1>6, <1>7
  <2>2. ~(t[j] < t[i])
    BY <1>4, <1>6, <1>7
  <2> QED
    BY <1>6, <2>1, <2>2
<1> QED
  BY <1>4, <1>6, <1>7

Climbs(plan, tag, ids) ==
    /\ Listed(plan)
    /\ \A i \in DOMAIN plan :
          i \in Nat /\ plan[i].mode = "update" /\ plan[i].row[1] = tag /\ plan[i].row[2] \in ids
    /\ \A i, j \in DOMAIN plan : i < j => plan[i].row[2] < plan[j].row[2]

\* One lock of a kind for every id, in the order of the ids.
Rungs(plan, tag, ids) ==
    /\ DOMAIN plan = DOMAIN InOrder(ids) /\ plan = [i \in DOMAIN plan |-> plan[i]]
    /\ \A i \in DOMAIN plan :
          plan[i].mode = "update" /\ plan[i].row[1] = tag /\ plan[i].row[2] = InOrder(ids)[i]

LEMMA Ascending ==
    ASSUME NEW ids \in SUBSET Nat, IsFiniteSet(ids), NEW tag, NEW plan, Rungs(plan, tag, ids)
    PROVE  Climbs(plan, tag, ids)
<1>1. PICK s : s = InOrder(ids)
  OBVIOUS
<1>2. /\ \A i \in DOMAIN s : i \in Nat /\ s[i] \in ids
      /\ \A i, j \in DOMAIN s : i < j => s[i] < s[j]
  BY <1>1, InOrderAscends
<1>3. /\ DOMAIN plan = DOMAIN s
      /\ \A i \in DOMAIN plan : plan[i].mode = "update" /\ plan[i].row[1] = tag /\ plan[i].row[2] = s[i]
  BY <1>1 DEF Rungs
<1>4. plan = [i \in DOMAIN plan |-> plan[i]]
  BY DEF Rungs
<1>5. Listed(plan)
  <2>1. s = InOrder(ids) /\ s \in SetToSeqs(ids)
    BY <1>1, InOrderFacts
  <2>2. DOMAIN s = 1..Len(s) /\ Len(s) \in Nat
    BY <2>1, LineOnto
  <2>3. PICK S : S = Range(plan)
    OBVIOUS
  <2>4. plan \in [1..Len(s) -> S]
    <3>1. \A i \in DOMAIN plan : plan[i] \in S
      BY <2>3 DEF Range
    <3>2. DOMAIN plan = 1..Len(s)
      BY <1>3, <2>2
    <3> QED
      BY <1>4, <3>1, <3>2
  <2>5. plan \in Seq(S)
    BY <2>2, <2>4
  <2> QED
    BY <2>3, <2>5 DEF Listed
<1>7. ASSUME NEW i \in DOMAIN plan
      PROVE  i \in Nat /\ plan[i].mode = "update" /\ plan[i].row[1] = tag /\ plan[i].row[2] = s[i] /\ s[i] \in ids
  BY <1>2, <1>3
<1>8. ASSUME NEW i \in DOMAIN plan, NEW j \in DOMAIN plan, i < j PROVE plan[i].row[2] < plan[j].row[2]
  BY <1>2, <1>3, <1>7, <1>8
<1> QED
  BY <1>5, <1>7, <1>8 DEF Climbs

LEMMA CatalogPlan ==
    ASSUME NEW req, req.kind \in SongKinds, NEW held, NEW ids \in SUBSET Nat, IsFiniteSet(ids),
           NEW tag \in {"title", "song group", "song"}, NEW plan, Rungs(plan, tag, ids),
           \A i \in DOMAIN plan : Rightful(req, plan[i]),
           \A h \in held : tag = "song" /\ h.row[1] = "song group"
    PROVE  Plans(req, held, plan) /\ \A k \in Range(plan) : k.row[1] = tag
<1>1. Climbs(plan, tag, ids)
  BY Ascending
<1>2. Listed(plan)
  BY <1>1 DEF Climbs
<1>3. ASSUME NEW i \in DOMAIN plan
      PROVE  plan[i].mode = "update" /\ plan[i].row[1] = tag /\ plan[i].row[2] \in Nat
  BY <1>1 DEF Climbs
<1>4. ASSUME NEW i \in DOMAIN plan
      PROVE  Rightful(req, plan[i]) /\ ~Opens(req, plan[i]) /\ ~Leans(plan[i])
  BY <1>3 DEF Opens, Leans
<1>5. ASSUME NEW i \in DOMAIN plan, NEW j \in DOMAIN plan, i < j PROVE Follows(req, plan[i].row, plan[j].row)
  BY <1>1, <1>5 DEF Climbs, Precedes, Follows
<1>6. ASSUME NEW i \in DOMAIN plan, NEW h \in held PROVE Follows(req, h.row, plan[i].row)
  BY <1>3 DEF Precedes, Follows
<1>7. \A k \in Range(plan) : k.row[1] = tag
  BY <1>3 DEF Range
<1> QED
  BY <1>2, <1>3, <1>4, <1>5, <1>6, <1>7 DEF Plans

\* Locks of one kind that neither open nor lean.
LEMMA LiveKeysPlan ==
    ASSUME NEW req, req.kind \in FavoriteKinds, NEW held, NEW lives \in SUBSET Lives, NEW plan,
           plan = [i \in 1..Cardinality(lives) |-> LiveKey(InOrder(lives)[i])]
    PROVE  Plans(req, held, plan) /\ \A k \in Range(plan) : k.row[1] = "live"
<1>1. PICK n : n = Cardinality(lives) /\ n \in Nat
  BY CollectionConstants, FS_Subset, FS_CardinalityType
<1>2. \A i \in DOMAIN plan : plan[i] = LiveKey(InOrder(lives)[i])
  OBVIOUS
<1>3. \A l : LiveKey(l).mode = "key" /\ LiveKey(l).row[1] = "live"
  BY DEF LiveKey, Lock
<1>4. Listed(plan)
  <2>1. PICK S : S = Range(plan)
    OBVIOUS
  <2>2. DOMAIN plan = 1..n /\ plan = [i \in 1..n |-> LiveKey(InOrder(lives)[i])]
    BY <1>1
  <2>3. \A i \in 1..n : plan[i] \in S
    BY <2>1, <2>2 DEF Range
  <2>4. plan \in [1..n -> S]
    BY <2>2, <2>3
  <2>5. plan \in Seq(S)
    BY <1>1, <2>4
  <2> QED
    BY <2>1, <2>5 DEF Listed
<1>5. req.kind \notin SongKinds
  BY DEF FavoriteKinds, SongKinds, SongForms
<1>6. \A i \in DOMAIN plan : Rightful(req, plan[i]) /\ ~Opens(req, plan[i]) /\ ~Leans(plan[i])
  BY <1>2, <1>3 DEF Rightful, Opens, Leans
<1>7. \A k \in Range(plan) : k.row[1] = "live"
  BY <1>2, <1>3 DEF Range
<1> QED
  BY <1>4, <1>5, <1>6, <1>7, FlatPlan

\* The locks of a relation, and of those that are deleted.
LEMMA SlotFacts ==
    \A f, l : /\ Slot(f, l).mode = "update" /\ Slot(f, l).row = <<"slot", f, l>>
              /\ LiveKey(l).mode = "key" /\ LiveKey(l).row = <<"live", l>>
  BY DEF Slot, LiveKey, Lock

LEMMA RelationPlan ==
    ASSUME NEW req, req.kind \in CollectionKinds, NEW held, NEW f, NEW l
    PROVE  /\ Plans(req, held, RelationLocks(f, l))
           /\ \A i \in DOMAIN RelationLocks(f, l) :
                 RelationLocks(f, l)[i] \in {Slot(f, l), LiveKey(l)} /\ ~Opens(req, RelationLocks(f, l)[i])
<1>1. PICK a, b, plan : a = Slot(f, l) /\ b = LiveKey(l) /\ plan = RelationLocks(f, l) /\ plan = <<a, b>>
  BY DEF RelationLocks
<1>2. plan \in Seq({a, b}) /\ DOMAIN plan = 1..2 /\ plan[1] = a /\ plan[2] = b
  BY <1>1
<1>3. Listed(plan)
  BY <1>2, ListedFacts
<1>4. \A i \in DOMAIN plan : plan[i] \in {a, b}
  BY <1>2
<1>5. \A k \in {a, b} : Rightful(req, k) /\ ~Opens(req, k) /\ ~Leans(k)
  <2>1. a.mode = "update" /\ a.row[1] = "slot" /\ b.mode = "key" /\ b.row[1] = "live"
    BY <1>1, SlotFacts
  <2> QED
    BY <2>1 DEF Rightful, Opens, Leans
<1>6. req.kind \notin SongKinds
  BY DEF CollectionKinds, SongKinds, SongForms
<1>7. Plans(req, held, plan)
  BY <1>3, <1>4, <1>5, <1>6, FlatPlan
<1> QED
  BY <1>1, <1>4, <1>5, <1>7

LEMMA DroppedPlan ==
    ASSUME CollectionState, NEW req, req.kind \in CollectionKinds, NEW held, NEW f \in Families,
           NEW id \in CollectionIds \union {0}
    PROVE  /\ Plans(req, held, DroppedSlots(f, id))
           /\ \A i \in DOMAIN DroppedSlots(f, id) :
                 /\ ~Opens(req, DroppedSlots(f, id)[i])
                 /\ id # 0 /\ \E l \in collection[f][id].lives : DroppedSlots(f, id)[i] = Slot(f, l)
<1>1. PICK plan : plan = DroppedSlots(f, id) /\ Listed(plan)
  BY DroppedListed
<1>2. \A i \in DOMAIN plan : id # 0 /\ \E l \in collection[f][id].lives : plan[i] = Slot(f, l)
  <2>1. CASE id = 0
    BY <1>1, <2>1 DEF DroppedSlots
  <2>2. CASE id # 0
    <3>1. PICK lives : lives = collection[f][id].lives /\ lives \in SUBSET Lives
      BY <2>2 DEF CollectionState, CollectionRow
    <3>2. lives \in SUBSET Nat /\ IsFiniteSet(lives)
      BY <3>1, CollectionConstants, FS_Subset
    <3>3. \A i \in DOMAIN InOrder(lives) : InOrder(lives)[i] \in lives
      BY <3>2, InOrderAscends
    <3>4. plan = [i \in DOMAIN InOrder(lives) |-> Slot(f, InOrder(lives)[i])]
      BY <1>1, <2>2, <3>1 DEF DroppedSlots
    <3> QED
      BY <2>2, <3>1, <3>3, <3>4
  <2> QED
    BY <2>1, <2>2
<1>3. req.kind \notin SongKinds
  BY DEF CollectionKinds, SongKinds, SongForms
<1>4. \A l : Rightful(req, Slot(f, l)) /\ ~Opens(req, Slot(f, l)) /\ ~Leans(Slot(f, l))
  <2>1. \A l : Slot(f, l).mode = "update" /\ Slot(f, l).row[1] = "slot"
    BY SlotFacts
  <2> QED
    BY <2>1 DEF Rightful, Opens, Leans
<1>5. Plans(req, held, plan)
  BY <1>1, <1>2, <1>3, <1>4, FlatPlan
<1> QED
  BY <1>1, <1>2, <1>4, <1>5

----------------------------------------------------------------------------
\* The fields of a lock.
LEMMA LockFields ==
    \A mode, row : Lock(mode, row).mode = mode /\ Lock(mode, row).row = row
  BY DEF Lock

LEMMA RowFields ==
    /\ \A tag, x : <<tag, x>>[1] = tag /\ <<tag, x>>[2] = x
    /\ \A tag, x, y : <<tag, x, y>>[1] = tag /\ <<tag, x, y>>[2] = x
    /\ \A tag : <<tag>>[1] = tag
  OBVIOUS

----------------------------------------------------------------------------
\* The steps of Transactions.  Arrives is the new record of the connection.
Arrives(t, step, req, seen, plan, held) ==
    t.at = step /\ t.req = req /\ t.seen = seen /\ t.plan = plan /\ t.held = held

Moves(c) == Others(c) /\ TxnType' /\ Orderly(txn'[c])

LEMMA BeginOrderly ==
    ASSUME TxnType, NEW c \in Clients, NEW req \in workload, NEW step, NEW plan, Begin(c, req, step, plan),
           Plans(req, {}, plan), \A t : Arrives(t, step, req, <<>>, plan, {}) => Staged(t)
    PROVE  Moves(c)
<1>1. Turn(c) /\ txn'[c] = [at |-> step, req |-> req, seen |-> <<>>, plan |-> plan, held |-> {}]
  BY BeginTurn
<1>2. PICK t : t = txn'[c] /\ Arrives(t, step, req, <<>>, plan, {})
  BY <1>1 DEF Arrives
<1>3. Possesses(req, {})
  BY DEF Possesses
<1>4. Staged(t)
  BY <1>2
<1> QED
  BY <1>1, <1>2, <1>3, <1>4 DEF Moves, Turn, Orderly, Arrives

LEMMA ContinueOrderly ==
    ASSUME TxnType, NEW c \in Clients, Orderly(txn[c]), NEW step, NEW seen, NEW plan, Continue(c, step, seen, plan),
           Plans(txn[c].req, txn[c].held, plan),
           \A t : Arrives(t, step, txn[c].req, seen, plan, txn[c].held) => Staged(t)
    PROVE  Moves(c)
<1>1. Turn(c) /\ txn'[c] = [at |-> step, req |-> txn[c].req, seen |-> seen, plan |-> plan, held |-> txn[c].held]
  BY ContinueTurn
<1>2. PICK t : t = txn'[c] /\ Arrives(t, step, txn[c].req, seen, plan, txn[c].held)
  BY <1>1 DEF Arrives
<1>3. Possesses(txn[c].req, txn[c].held)
  BY DEF Orderly
<1>4. Staged(t)
  BY <1>2
<1> QED
  BY <1>1, <1>2, <1>3, <1>4 DEF Moves, Turn, Orderly, Arrives

LEMMA FinishOrderly ==
    ASSUME TxnType, NEW c \in Clients, Finish(c)
    PROVE  Moves(c)
<1>1. Turn(c) /\ txn'[c] = Idle
  BY FinishTurn
<1> QED
  BY <1>1, IdleOrderly DEF Moves, Turn

\* Requests of which Staged says nothing.
Marked ==
    {"create_name_version", "create_lineup_version", "rename_venue", "edit_venue", "create_locality", "save_locality"}
    \union CollectionKinds

PlainSteps == {"validate", "check", "allocate", "store"}

LEMMA PlainStaged ==
    ASSUME NEW t, Possesses(t.req, t.held), Plans(t.req, t.held, t.plan), t.req.kind \notin Marked,
           t.at \in {"idle", "form", "read"} => t.held = {} /\ t.plan = <<>>,
           t.at \notin {"song", "songs", "groups"}, t.at = "insert" => t.req.kind \notin FavoriteKinds
    PROVE  Staged(t)
<1>1. ASSUME NEW k \in Uses(t) PROVE Rightful(t.req, k)
  BY DEF Uses, Range, Possesses, Plans
<1>2. ASSUME NEW k \in Uses(t) PROVE k.row[1] # "identity" /\ k.row[1] # "slot"
  <2>1. Rightful(t.req, k)
    BY <1>1
  <2> QED
    BY <2>1 DEF Rightful, Marked
<1> QED
  BY <1>2 DEF Staged, GroupsOnly, Marked

LEMMA BeginPlain ==
    ASSUME TxnType, NEW c \in Clients, NEW req \in workload, NEW step, NEW plan, Begin(c, req, step, plan),
           Plans(req, {}, plan), req.kind \notin Marked,
           step \in PlainSteps
    PROVE  Moves(c)
<1>1. Possesses(req, {})
  BY DEF Possesses
<1>2. ASSUME NEW t, Arrives(t, step, req, <<>>, plan, {}) PROVE Staged(t)
  <2>1. t.at = step /\ t.req = req /\ t.plan = plan /\ t.held = {}
    BY <1>2 DEF Arrives
  <2> QED
    BY <1>1, <2>1, PlainStaged DEF PlainSteps
<1> QED
  BY <1>2, BeginOrderly

LEMMA ContinuePlain ==
    ASSUME TxnType, NEW c \in Clients, Orderly(txn[c]), NEW step, NEW seen, NEW plan, Continue(c, step, seen, plan),
           Plans(txn[c].req, txn[c].held, plan), txn[c].req.kind \notin Marked,
           step \in PlainSteps
    PROVE  Moves(c)
<1>1. Possesses(txn[c].req, txn[c].held)
  BY DEF Orderly
<1>2. ASSUME NEW t, Arrives(t, step, txn[c].req, seen, plan, txn[c].held) PROVE Staged(t)
  <2>1. t.at = step /\ t.req = txn[c].req /\ t.plan = plan /\ t.held = txn[c].held
    BY <1>2 DEF Arrives
  <2> QED
    BY <1>1, <2>1, PlainStaged DEF PlainSteps
<1> QED
  BY <1>2, ContinueOrderly

\* One lock that opens the transaction, or one that does not open or lean.
LEMMA OpensPlan ==
    ASSUME NEW req, req.kind \notin SongKinds, NEW k, Rightful(req, k), ~Leans(k)
    PROVE  Plans(req, {}, <<k>>)
  BY OnePlan

LEMMA FreshOne == \A k : Range(<<k>>) = {k}
  BY DEF Range

\* What Staged says of a record, and the empty plan.
LEMMA EmptyRange == Range(<<>>) = {}
  BY DEF Range

----------------------------------------------------------------------------
\* Lives, bands and favourites.
LEMMA LiveStartOrderly ==
    ASSUME ConsoleInv, NEW c \in Clients, NEW req \in workload, LiveStart(c, req)
    PROVE  Moves(c)
<1>1. TxnType
  BY DEF ConsoleInv, TxnInv
<1>2. CASE StartCreateLive(c, req)
  <2>1. req.kind \notin Marked
    BY <1>2 DEF StartCreateLive, Marked, CollectionKinds
  <2> QED
    BY <1>1, <1>2, <2>1, NoPlan, BeginPlain DEF StartCreateLive, PlainSteps
<1>3. CASE StartUpdateLive(c, req) \/ StartSetlist(c, req)
  <2>1. PICK k : k = LiveRowLock(req.live) /\ k.mode = "update" /\ k.row[1] = "live"
    BY LockFields, RowFields DEF LiveRowLock
  <2>2. /\ req.kind \in {"update_live"} \union SetlistKinds /\ Begin(c, req, "check", <<k>>)
    BY <1>3, <2>1 DEF StartUpdateLive, StartSetlist
  <2>3. req.kind \notin Marked /\ req.kind \notin SongKinds
    BY <2>2 DEF Marked, SetlistKinds, CollectionKinds, SongKinds, SongForms
  <2>4. Rightful(req, k) /\ ~Leans(k)
    BY <2>1, <2>2 DEF Rightful, Leans
  <2>5. Plans(req, {}, <<k>>)
    BY <2>3, <2>4, OpensPlan
  <2> QED
    BY <1>1, <2>2, <2>3, <2>5, BeginPlain DEF PlainSteps
<1>4. CASE StartCreateBand(c, req)
  <2>0. PICK k : k = Lock("update", <<"band ids">>)
    OBVIOUS
  <2>9. k.mode = "update" /\ k.row = <<"band ids">>
    BY <2>0, LockFields
  <2>8. PICK tag : tag = "band ids"
    OBVIOUS
  <2>7. k.row = <<tag>>
    BY <2>8, <2>9
  <2>6. k.row[1] = tag
    BY <2>7
  <2>1. k.mode = "update" /\ k.row[1] = "band ids"
    BY <2>6, <2>8, <2>9
  <2>2. req.kind = "create_band" /\ Begin(c, req, "allocate", <<k>>)
    BY <1>4, <2>0 DEF StartCreateBand
  <2>3. req.kind \notin Marked /\ req.kind \notin SongKinds
    BY <2>2 DEF Marked, CollectionKinds, SongKinds, SongForms
  <2>4. Rightful(req, k) /\ ~Leans(k)
    BY <2>1, <2>2 DEF Rightful, Leans
  <2>5. Plans(req, {}, <<k>>)
    BY <2>3, <2>4, OpensPlan
  <2> QED
    BY <1>1, <2>2, <2>3, <2>5, BeginPlain DEF PlainSteps
<1>5. CASE StartNameVersion(c, req) \/ StartLineupVersion(c, req)
  <2>1. PICK k : k = BandLock(req.band) /\ k.mode = "update" /\ k.row[1] = "band"
    BY LockFields, RowFields DEF BandLock
  <2>2. PICK step \in {"check", "open"} :
           /\ req.kind \in {"create_name_version", "create_lineup_version"} /\ Begin(c, req, step, <<k>>)
    BY <1>5, <2>1 DEF StartNameVersion, StartLineupVersion
  <2>3. req.kind \notin SongKinds
    BY <2>2 DEF SongKinds, SongForms
  <2>4. Rightful(req, k) /\ ~Leans(k)
    BY <2>1, <2>2 DEF Rightful, Leans
  <2>5. Plans(req, {}, <<k>>)
    BY <2>3, <2>4, OpensPlan
  <2>6. ASSUME NEW t, Arrives(t, step, req, <<>>, <<k>>, {}) PROVE Staged(t)
    <3>1. Uses(t) = {k} /\ t.at \in {"check", "open"} /\ t.req = req
      BY <2>6, FreshOne DEF Arrives, Uses
    <3>2. Awaits(t, k)
      BY <2>6, ShortPlans DEF Arrives, Awaits
    <3> QED
      BY <2>1, <2>2, <3>1, <3>2 DEF Staged, GroupsOnly, FavoriteKinds
  <2> QED
    BY <1>1, <2>2, <2>5, <2>6, BeginOrderly
<1>6. CASE StartFavorites(c, req)
  <2>1. req.kind \notin Marked
    BY <1>6 DEF StartFavorites, Marked, CollectionKinds
  <2> QED
    BY <1>1, <1>6, <2>1, NoPlan, BeginPlain DEF StartFavorites, PlainSteps
<1> QED
  BY <1>2, <1>3, <1>4, <1>5, <1>6 DEF LiveStart

LEMMA WriterKinds ==
    \A req : req.kind \in ContextWriters \union {"create_band"} \union FavoriteKinds =>
        req.kind \notin Marked /\ req.kind \notin SongKinds
  BY DEF ContextWriters, FavoriteKinds, Marked, SetlistKinds, CollectionKinds, SongKinds, SongForms

\* The open version is locked below its band.
LEMMA VersionLocked ==
    ASSUME ConsoleInv, NEW c \in Clients, Orderly(txn[c]), txn[c].plan = <<>>,
           NEW step \in {"store", "check"}, NEW seen, NEW tag \in {"name", "lineup"}, NEW n,
           txn[c].req.kind = IF tag = "name" THEN "create_name_version" ELSE "create_lineup_version",
           Continue(c, step, seen, <<Lock("update", <<tag, txn[c].req.band, n>>)>>)
    PROVE  Moves(c)
<1>1. TxnType
  BY DEF ConsoleInv, TxnInv
<1>2. PICK req : req = txn[c].req
  OBVIOUS
<1>0. PICK k : k = Lock("update", <<tag, req.band, n>>)
  OBVIOUS
<1>21. (tag = "name" /\ req.kind = "create_name_version") \/ (tag = "lineup" /\ req.kind = "create_lineup_version")
  BY <1>2
<1>22. req.kind \in {"create_name_version", "create_lineup_version"}
  BY <1>2
<1>23. BandLock(req.band) \in txn[c].held
  BY <1>2, <1>22, AwaitedIsHeld DEF Orderly, Staged
<1>24. k.mode = "update" /\ k.row[1] = tag /\ k.row[2] = req.band
  BY <1>0, LockFields, RowFields
<1>25. Rightful(req, k) /\ ~Opens(req, k)
  BY <1>21, <1>24 DEF Rightful, Opens
<1>26. Guards(BandLock(req.band), k)
  BY <1>24 DEF Guards, BandLock, Lock
<1>27. Plans(req, txn[c].held, <<k>>)
  <2>1. req.kind \notin SongKinds
    BY <1>22 DEF SongKinds, SongForms
  <2> QED
    BY <1>23, <1>25, <1>26, <2>1, OnePlan
<1>28. ASSUME NEW t, Arrives(t, step, req, seen, <<k>>, txn[c].held) PROVE Staged(t)
  <2>1. t.at = step /\ t.req = req /\ t.held = txn[c].held /\ Uses(t) = txn[c].held \union {k}
    BY <1>28, FreshOne DEF Arrives, Uses
  <2>2. \A h \in txn[c].held : Rightful(req, h)
    BY <1>2 DEF Orderly, Possesses
  <2>3. \A h \in Uses(t) : h.row[1] # "identity" /\ h.row[1] # "slot"
    <3>1. \A h \in txn[c].held : h.row[1] # "identity" /\ h.row[1] # "slot"
      BY <1>22, <2>2 DEF Rightful, CollectionKinds
    <3> QED
      BY <1>24, <2>1, <3>1
  <2>4. Awaits(t, BandLock(req.band))
    BY <1>23, <2>1 DEF Awaits
  <2> QED
    BY <1>22, <2>1, <2>3, <2>4 DEF Staged, GroupsOnly, FavoriteKinds
<1> QED
  BY <1>1, <1>2, <1>0, <1>27, <1>28, ContinueOrderly

\* A favourite is inserted under a lock of its own.
LEMMA FavoriteFields ==
    ASSUME NEW user, NEW l, NEW k, k = FavoriteLock(user, l)
    PROVE  k.mode = "update" /\ k.row[1] = "favorite" /\ k.row[2] = l /\ k.row = <<"favorite", l, user>>
  BY LockFields, RowFields DEF FavoriteLock

LEMMA FavoritePlan ==
    ASSUME NEW req, req.kind \in Favoring, NEW l \in Lives, NEW held
    PROVE  Plans(req, held, <<FavoriteLock(req.user, l)>>)
<1>1. PICK k : k = FavoriteLock(req.user, l)
  OBVIOUS
<1>2. k.mode = "update" /\ k.row[1] = "favorite" /\ k.row[2] = l /\ k.row = <<"favorite", l, req.user>>
  BY <1>1, FavoriteFields
<1>3. OfUser(k, req.user)
  BY <1>2, CollectionConstants DEF OfUser
<1>4. Rightful(req, k) /\ ~Opens(req, k) /\ ~Leans(k)
  BY <1>2, <1>3 DEF Rightful, Opens, Leans
<1>5. req.kind \notin SongKinds
  BY DEF Favoring, SongKinds, SongForms
<1> QED
  BY <1>1, <1>4, <1>5, OnePlan

LEMMA FavoringOrderly ==
    ASSUME TxnType, NEW c \in Clients, Orderly(txn[c]), txn[c].req.kind \in Favoring,
           NEW todo, NEW fresh, todo \subseteq Lives, fresh \subseteq Lives, NEW plan,
           Continue(c, "insert", [todo |-> todo, fresh |-> fresh], plan), Plans(txn[c].req, txn[c].held, plan)
    PROVE  Moves(c)
<1>1. ASSUME NEW t, Arrives(t, "insert", txn[c].req, [todo |-> todo, fresh |-> fresh], plan, txn[c].held) PROVE Staged(t)
  <2>1. /\ t.at = "insert" /\ t.req = txn[c].req /\ t.held = txn[c].held /\ t.plan = plan
        /\ t.seen.todo = todo /\ t.seen.fresh = fresh
    BY <1>1 DEF Arrives
  <2>2. \A k \in Uses(t) : Rightful(t.req, k)
    BY <2>1 DEF Orderly, Possesses, Plans, Uses, Range
  <2>3. \A k \in Uses(t) : k.row[1] # "identity" /\ k.row[1] # "slot"
    BY <2>1, <2>2 DEF Rightful, Favoring, CollectionKinds
  <2> QED
    BY <2>1, <2>3 DEF Staged, GroupsOnly, Favoring
<1> QED
  BY <1>1, ContinueOrderly

LEMMA LiveStepOrderly ==
    ASSUME ConsoleInv, NEW c \in Clients, LiveStep(c), Orderly(txn[c])
    PROVE  Moves(c)
<1>1. TxnType /\ LiveRequest(txn[c].req)
  BY DEF ConsoleInv, TxnInv, Requests
<1>2. PICK req : req = txn[c].req
  OBVIOUS
<1>3. CASE ValidateNewLive(c)
  <2>1. PICK contexts : Continue(c, "store", [contexts |-> contexts], RewriteKeys(contexts))
    BY <1>3 DEF ValidateNewLive
  <2>2. req.kind \in ContextWriters /\ req.kind \notin SetlistKinds
    BY <1>2, <1>3 DEF ValidateNewLive, Ready, ContextWriters, SetlistKinds
  <2>3. Plans(req, txn[c].held, RewriteKeys(contexts))
    BY <2>2, KeyedRewrite, KeyedPlans
  <2> QED
    BY <1>1, <1>2, <2>1, <2>2, <2>3, WriterKinds, ContinuePlain DEF PlainSteps
<1>4. CASE CheckUpdate(c)
  <2>1. PICK seen, contexts, plan :
           /\ plan \in {<<>>, RewriteKeys(contexts)} /\ (Finish(c) \/ Continue(c, "store", seen, plan))
    BY <1>4 DEF CheckUpdate
  <2>2. req.kind \in ContextWriters /\ req.kind \notin SetlistKinds
    BY <1>2, <1>4 DEF CheckUpdate, Ready, ContextWriters, SetlistKinds
  <2>3. Plans(req, txn[c].held, plan)
    BY <2>1, <2>2, NoPlan, KeyedRewrite, KeyedPlans
  <2> QED
    BY <1>1, <1>2, <2>1, <2>2, <2>3, WriterKinds, ContinuePlain, FinishOrderly DEF PlainSteps
<1>5. CASE CheckSetlist(c)
  <2>1. PICK seen, contexts, first, plan :
           /\ first \in {<<>>, RewriteKeys(contexts)} /\ plan = first \o RowKeys(req.rows)
           /\ Continue(c, "store", seen, plan)
    BY <1>2, <1>5 DEF CheckSetlist
  <2>2. req.kind \in SetlistKinds /\ req.kind \in ContextWriters /\ req.rows \in Seq(SetlistRow)
    BY <1>1, <1>2, <1>5 DEF CheckSetlist, Ready, ContextWriters, LiveRequest
  <2>3. PICK tags : tags = ContextTags \union {"song group"}
    OBVIOUS
  <2>4. Keyed(tags, first)
    <3>1. Keyed(ContextTags, RewriteKeys(contexts))
      BY KeyedRewrite
    <3>2. Keyed(tags, RewriteKeys(contexts))
      BY <2>3, <3>1 DEF Keyed
    <3>3. Keyed(tags, <<>>)
      BY ShortPlans DEF Keyed
    <3> QED
      BY <2>1, <3>2, <3>3
  <2>5. Keyed(tags, RowKeys(req.rows))
    BY <2>2, <2>3, KeyedRows
  <2>6. Keyed(tags, plan)
    BY <2>1, <2>4, <2>5, KeyedJoin
  <2>7. Plans(req, txn[c].held, plan)
    BY <2>2, <2>3, <2>6, KeyedPlans
  <2> QED
    BY <1>1, <1>2, <2>1, <2>2, <2>7, WriterKinds, ContinuePlain DEF PlainSteps
<1>6. CASE AllocateBandId(c)
  <2>1. PICK seen : Continue(c, "store", seen, <<>>)
    BY <1>6 DEF AllocateBandId
  <2>2. req.kind = "create_band"
    BY <1>2, <1>6 DEF AllocateBandId, Ready
  <2> QED
    BY <1>1, <1>2, <2>1, <2>2, NoPlan, WriterKinds, ContinuePlain DEF PlainSteps
<1>7. CASE CheckNameVersion(c)
  BY <1>7, VersionLocked DEF CheckNameVersion, OpenNameLock, Ready
<1>12. CASE LockOpenLineup(c)
  BY <1>12, VersionLocked DEF LockOpenLineup, OpenLineupLock, Ready
<1>8. CASE CheckHandover(c)
  <2>1. PICK seen, plan : /\ plan = IF req.live = 0 THEN <<>> ELSE <<LiveKey(req.live)>>
                          /\ Continue(c, "store", seen, plan)
    BY <1>2, <1>8 DEF CheckHandover
  <2>2. txn[c].plan = <<>> /\ req.kind = "create_lineup_version"
    BY <1>2, <1>8 DEF CheckHandover, Ready
  <2>3. BandLock(req.band) \in txn[c].held
    BY <1>2, <2>2, AwaitedIsHeld DEF Orderly, Staged
  <2>4. LiveKey(req.live).mode = "key" /\ LiveKey(req.live).row[1] = "live"
    BY DEF LiveKey, Lock
  <2>5. Plans(req, txn[c].held, plan)
    <3>1. req.kind \notin SongKinds
      BY <2>2 DEF SongKinds, SongForms
    <3>2. CASE req.live = 0
      BY <2>1, <3>2, NoPlan
    <3>3. CASE req.live # 0
      <4>1. Rightful(req, LiveKey(req.live)) /\ ~Opens(req, LiveKey(req.live)) /\ ~Leans(LiveKey(req.live))
        BY <2>2, <2>4, <3>3 DEF Rightful, Opens, Leans
      <4> QED
        BY <2>1, <3>1, <3>3, <4>1, OnePlan
    <3> QED
      BY <3>2, <3>3
  <2>6. ASSUME NEW t, Arrives(t, "store", req, seen, plan, txn[c].held) PROVE Staged(t)
    <3>1. t.at = "store" /\ t.req = req /\ t.held = txn[c].held /\ Uses(t) \subseteq txn[c].held \union {LiveKey(req.live)}
      BY <2>1, <2>6, FreshOne, EmptyRange DEF Arrives, Uses
    <3>2. \A h \in txn[c].held : Rightful(req, h)
      BY <1>2 DEF Orderly, Possesses
    <3>3. \A h \in Uses(t) : h.row[1] # "identity" /\ h.row[1] # "slot"
      <4>1. \A h \in txn[c].held : h.row[1] # "identity" /\ h.row[1] # "slot"
        BY <2>2, <3>2 DEF Rightful, CollectionKinds
      <4> QED
        BY <2>4, <3>1, <4>1
    <3>4. Awaits(t, BandLock(req.band))
      BY <2>3, <3>1 DEF Awaits
    <3> QED
      BY <2>2, <3>1, <3>3, <3>4 DEF Staged, GroupsOnly, FavoriteKinds
  <2> QED
    BY <1>1, <1>2, <2>1, <2>5, <2>6, ContinueOrderly
<1>9. CASE CheckFavorite(c)
  <2>1. PICK wanted : /\ wanted \subseteq req.lives
                      /\ Finish(c) \/ Continue(c, "insert", [todo |-> wanted, fresh |-> {}], <<>>)
    BY <1>2, <1>9 DEF CheckFavorite
  <2>2. req.kind \in Favoring
    BY <1>2, <1>9 DEF CheckFavorite, Ready, Favoring
  <2>3. wanted \subseteq Lives /\ {} \subseteq Lives
    BY <1>1, <1>2, <2>1, <2>2 DEF LiveRequest, Favoring
  <2>4. Plans(req, txn[c].held, <<>>)
    BY NoPlan
  <2> QED
    BY <1>1, <1>2, <2>1, <2>2, <2>3, <2>4, FavoringOrderly, FinishOrderly
<1>10. CASE InsertFavorite(c)
  <2>1. req.kind \in Favoring /\ txn[c].at = "insert"
    BY <1>2, <1>10 DEF InsertFavorite, Ready, Favoring
  <2>2. PICK todo, fresh : todo = txn[c].seen.todo /\ fresh = txn[c].seen.fresh
    OBVIOUS
  <2>3. todo \subseteq Lives /\ fresh \subseteq Lives
    BY <1>2, <2>1, <2>2 DEF Orderly, Staged, Favoring, FavoriteKinds
  <2>4. PICK l, more, plan :
           /\ l \in todo /\ more \subseteq fresh \union {l} /\ plan \in {<<>>, <<FavoriteLock(req.user, l)>>}
           /\ Continue(c, "insert", [todo |-> todo \ {l}, fresh |-> more], plan)
    BY <1>2, <1>10, <2>2 DEF InsertFavorite
  <2>5. todo \ {l} \subseteq Lives /\ more \subseteq Lives /\ l \in Lives
    BY <2>3, <2>4
  <2>6. Plans(req, txn[c].held, plan)
    BY <2>1, <2>4, <2>5, NoPlan, FavoritePlan
  <2> QED
    BY <1>1, <1>2, <2>1, <2>4, <2>5, <2>6, FavoringOrderly
<1>13. CASE KeepFavorites(c)
  <2>1. PICK fresh, plan :
           /\ fresh \subseteq txn[c].seen.fresh /\ plan = [i \in 1..Cardinality(fresh) |-> LiveKey(InOrder(fresh)[i])]
           /\ Finish(c) \/ Continue(c, "store", [lives |-> fresh], plan)
    BY <1>2, <1>13 DEF KeepFavorites
  <2>2. req.kind \in FavoriteKinds
    BY <1>2, <1>13 DEF KeepFavorites, Ready, FavoriteKinds
  <2>3. txn[c].seen.fresh \subseteq Lives
    BY <1>2, <1>13, <2>2 DEF KeepFavorites, Ready, Orderly, Staged
  <2>4. Plans(req, txn[c].held, plan)
    BY <2>1, <2>2, <2>3, LiveKeysPlan
  <2> QED
    BY <1>1, <1>2, <2>1, <2>2, <2>4, WriterKinds, ContinuePlain, FinishOrderly DEF PlainSteps
<1>11. CASE InsertLive(c) \/ StoreUpdate(c) \/ StoreSetlist(c) \/ InsertBand(c) \/ StoreNameVersion(c)
            \/ StoreLineupVersion(c) \/ StoreFavorite(c) \/ RemoveFavorites(c)
  <2>1. Finish(c)
    BY <1>11 DEF InsertLive, StoreUpdate, StoreSetlist, InsertBand, StoreNameVersion, StoreLineupVersion,
                 StoreFavorite, RemoveFavorites
  <2> QED
    BY <1>1, <2>1, FinishOrderly
<1> QED
  BY <1>3, <1>4, <1>5, <1>6, <1>7, <1>8, <1>9, <1>10, <1>11, <1>12, <1>13 DEF LiveStep

----------------------------------------------------------------------------
\* Tours and groups.
LEMMA CollectionStaged ==
    ASSUME NEW t, Possesses(t.req, t.held), Plans(t.req, t.held, t.plan), t.req.kind \in CollectionKinds, t.at = "insert"
    PROVE  Staged(t)
<1>1. ASSUME NEW k \in Uses(t) PROVE Rightful(t.req, k)
  BY DEF Uses, Range, Possesses, Plans
<1>2. ASSUME NEW k \in Uses(t) PROVE k.row[1] # "identity"
  <2>1. Rightful(t.req, k)
    BY <1>1
  <2> QED
    BY <2>1 DEF Rightful, CollectionKinds
<1> QED
  BY <1>2 DEF Staged, GroupsOnly, CollectionKinds, FavoriteKinds

LEMMA CollectionContinued ==
    ASSUME TxnType, NEW c \in Clients, Orderly(txn[c]), txn[c].req.kind \in CollectionKinds, NEW seen, NEW plan,
           Continue(c, "insert", seen, plan), Plans(txn[c].req, txn[c].held, plan)
    PROVE  Moves(c)
<1>1. Possesses(txn[c].req, txn[c].held)
  BY DEF Orderly
<1>2. ASSUME NEW t, Arrives(t, "insert", txn[c].req, seen, plan, txn[c].held) PROVE Staged(t)
  <2>1. t.at = "insert" /\ t.req = txn[c].req /\ t.plan = plan /\ t.held = txn[c].held
    BY <1>2 DEF Arrives
  <2> QED
    BY <1>1, <2>1, CollectionStaged
<1> QED
  BY <1>2, ContinueOrderly

LEMMA BandKeysPlan ==
    ASSUME NEW req, req.kind \in CollectionKinds, NEW held, NEW bands, IsFiniteSet(bands)
    PROVE  /\ Plans(req, held, BandKeys(bands))
           /\ \A i \in DOMAIN BandKeys(bands) :
                 ~Opens(req, BandKeys(bands)[i]) /\ \E b : BandKeys(bands)[i] = BandKey(b)
<1>1. PICK plan : plan = BandKeys(bands) /\ Listed(plan)
  BY BandKeysListed
<1>2. \A i \in DOMAIN plan : \E b : plan[i] = BandKey(b)
  BY <1>1 DEF BandKeys
<1>3. req.kind \notin SongKinds
  BY DEF CollectionKinds, SongKinds, SongForms
<1>4. \A b : BandKey(b).mode = "key" /\ BandKey(b).row[1] = "band"
  BY LockFields, RowFields DEF BandKey
<1>5. \A b : Rightful(req, BandKey(b)) /\ ~Opens(req, BandKey(b)) /\ ~Leans(BandKey(b))
  BY <1>4 DEF Rightful, Opens, Leans
<1>6. Plans(req, held, plan)
  BY <1>1, <1>2, <1>3, <1>5, FlatPlan
<1> QED
  BY <1>1, <1>2, <1>5, <1>6

LEMMA InsertPlan ==
    ASSUME CollectionState, NEW req, req.kind \in CollectionKinds, req.id \in CollectionIds \union {0}, NEW held,
           NEW keys, Plans(req, held, keys), \A i \in DOMAIN keys : ~Opens(req, keys[i]), NEW l
    PROVE  Plans(req, held, DroppedSlots(Family(req), req.id) \o keys \o RelationLocks(Family(req), l))
<1>1. PICK p, q, f : p = DroppedSlots(f, req.id) /\ q = RelationLocks(f, l) /\ f = Family(req) /\ f \in Families
  BY FamilyFacts
<1>2. Plans(req, held, p) /\ Plans(req, held, q) /\ \A i \in DOMAIN q : ~Opens(req, q[i])
  BY <1>1, DroppedPlan, RelationPlan
<1>3. PICK first : first = p \o keys
  OBVIOUS
<1>4. req.kind \notin SongKinds
  BY DEF CollectionKinds, SongKinds, SongForms
<1>5. Plans(req, held, first)
  BY <1>2, <1>3, <1>4, PlansFollow
<1>6. Plans(req, held, first \o q)
  BY <1>2, <1>4, <1>5, PlansFollow
<1> QED
  BY <1>1, <1>3, <1>6

LEMMA CollectionOrderly ==
    ASSUME CollectionInv, NEW c \in Clients, Orderly(txn[c]),
           (\E req \in workload : CollectionStart(c, req)) \/ CollectionStep(c)
    PROVE  Moves(c)
<1>1. TxnType /\ CollectionState /\ CollectionRequest(txn[c].req)
  BY DEF CollectionInv, TxnInv, CollectionRequests
<1>2. CASE \E req \in workload : StartCreateCollection(c, req) \/ StartUpdateCollection(c, req)
  <2>1. PICK req \in workload : StartCreateCollection(c, req) \/ StartUpdateCollection(c, req)
    BY <1>2
  <2>2. PICK k : k = Lock("update", <<Family(req), req.id>>)
    OBVIOUS
  <2>3. PICK plan : plan \in {<<>>, <<k>>} /\ Begin(c, req, "validate", plan) /\ req.kind \in CollectionKinds
    BY <2>1, <2>2 DEF StartCreateCollection, StartUpdateCollection, CollectionKinds
  <2>4. k.mode = "update" /\ k.row[1] \in {"tour", "group"}
    BY <2>2, LockFields, RowFields DEF Family
  <2>5. req.kind \notin SongKinds /\ Rightful(req, k) /\ ~Leans(k)
    BY <2>3, <2>4 DEF CollectionKinds, SongKinds, SongForms, Rightful, Leans
  <2>6. Plans(req, {}, plan)
    BY <2>3, <2>5, NoPlan, OpensPlan
  <2>7. ASSUME NEW t, Arrives(t, "validate", req, <<>>, plan, {}) PROVE Staged(t)
    <3>1. t.at = "validate" /\ t.req = req /\ Uses(t) \subseteq {k}
      BY <2>3, <2>7, FreshOne, EmptyRange DEF Arrives, Uses
    <3> QED
      BY <2>3, <2>4, <3>1 DEF Staged, GroupsOnly, CollectionKinds, FavoriteKinds
  <2> QED
    BY <1>1, <2>3, <2>6, <2>7, BeginOrderly
<1>3. PICK req : req = txn[c].req
  OBVIOUS
<1>4. CASE ValidateTour(c) \/ ValidateGroup(c)
  <2>1. req.kind \in CollectionKinds
    BY <1>3, <1>4 DEF ValidateTour, ValidateGroup, Ready, CollectionKinds
  <2>2. req.id \in CollectionIds \union {0} /\ IsFiniteSet(req.bands)
    BY <1>1, <1>3, <2>1 DEF CollectionRequest
  <2>3. PICK keys, order : keys \in {<<>>, BandKeys(req.bands)} /\ BeginInserts(c, order, keys)
    BY <1>3, <1>4 DEF ValidateTour, ValidateGroup
  <2>4. Plans(req, txn[c].held, keys) /\ \A i \in DOMAIN keys : ~Opens(req, keys[i])
    <3>1. CASE keys = <<>>
      BY <3>1, NoPlan
    <3>2. CASE keys = BandKeys(req.bands)
      BY <2>1, <2>2, <3>2, BandKeysPlan
    <3> QED
      BY <2>3, <3>1, <3>2
  <2>5. PICK plan, seen :
           /\ plan = DroppedSlots(Family(req), req.id) \o keys \o RelationLocks(Family(req), order[1])
           /\ Continue(c, "insert", seen, plan)
    BY <1>3, <2>3 DEF BeginInserts
  <2>6. Plans(req, txn[c].held, plan)
    BY <1>1, <2>1, <2>2, <2>4, <2>5, InsertPlan
  <2> QED
    BY <1>1, <1>3, <2>1, <2>5, <2>6, CollectionContinued
<1>5. CASE InsertRelation(c)
  <2>1. req.kind \in CollectionKinds
    BY <1>3, <1>5 DEF InsertRelation, Ready
  <2>2. PICK f, l, seen : Continue(c, "insert", seen, RelationLocks(f, l))
    BY <1>5 DEF InsertRelation
  <2>3. Plans(req, txn[c].held, RelationLocks(f, l))
    BY <2>1, RelationPlan
  <2> QED
    BY <1>1, <1>3, <2>1, <2>2, <2>3, CollectionContinued
<1>6. CASE StoreCollection(c)
  BY <1>1, <1>6, FinishOrderly DEF StoreCollection
<1> QED
  BY <1>2, <1>4, <1>5, <1>6 DEF CollectionStart, CollectionStep

----------------------------------------------------------------------------
\* Venues and localities.
LEMMA VenueNotSong == \A req : req.kind \in VenueKinds => req.kind \notin SongKinds
  BY DEF VenueKinds, FormKinds, SongKinds, SongForms

LEMMA VenueLocks ==
    /\ Registry.mode = "update" /\ Registry.row[1] = "venue names"
    /\ \A v : VenueLock(v).mode = "update" /\ VenueLock(v).row = <<"venue", v>> /\ VenueLock(v).row[1] = "venue"
    /\ \A name : Identity(name).mode = "update" /\ Identity(name).row[1] = "identity"
    /\ \A mode, a : /\ Lock(mode, <<"locality", a>>).mode = mode
                    /\ Lock(mode, <<"locality", a>>).row[1] = "locality"
<1>1. Registry.mode = "update" /\ Registry.row[1] = "venue names"
  <2>1. PICK tag : tag = "venue names"
    OBVIOUS
  <2>2. Registry.mode = "update" /\ Registry.row = <<tag>>
    BY <2>1, LockFields DEF Registry
  <2>3. Registry.row[1] = tag
    BY <2>2
  <2> QED
    BY <2>1, <2>2, <2>3
<1>2. \A v : VenueLock(v).mode = "update" /\ VenueLock(v).row = <<"venue", v>> /\ VenueLock(v).row[1] = "venue"
  BY LockFields, RowFields DEF VenueLock
<1>3. \A name : Identity(name).mode = "update" /\ Identity(name).row[1] = "identity"
  BY LockFields, RowFields DEF Identity
<1>4. \A mode, a : Lock(mode, <<"locality", a>>).mode = mode /\ Lock(mode, <<"locality", a>>).row[1] = "locality"
  BY LockFields, RowFields
<1> QED
  BY <1>1, <1>2, <1>3, <1>4

LEMMA LocalityFields ==
    ASSUME NEW mode, NEW a, NEW k, k = Lock(mode, <<"locality", a>>)
    PROVE  k.mode = mode /\ k.row[1] = "locality" /\ k.row[2] = a
  BY DEF Lock

LEMMA NameFields ==
    \A tag, v, n : /\ Lock("update", <<tag, v, n>>).mode = "update" /\ Lock("update", <<tag, v, n>>).row[1] = tag
                   /\ Lock("update", <<tag, v, n>>).row[2] = v
  BY LockFields, RowFields

\* What Staged says of the requests about venues, once their locks are known.
LEMMA VenueStaged ==
    ASSUME NEW t, Possesses(t.req, t.held), Plans(t.req, t.held, t.plan), t.req.kind \in VenueKinds,
           t.at \in {"form"} => t.held = {} /\ t.plan = <<>>, t.at \notin {"idle", "read"},
           t.req.kind \in {"rename_venue", "edit_venue"} /\ t.at # "form" => Awaits(t, VenueLock(t.req.venue)),
           t.req.kind \in {"create_locality", "save_locality"} =>
               t.at = "store" \/ \A k \in Uses(t) : k.row[1] # "identity"
    PROVE  Staged(t)
<1>1. ASSUME NEW k \in Uses(t) PROVE Rightful(t.req, k)
  BY DEF Uses, Range, Possesses, Plans
<1>2. ASSUME NEW k \in Uses(t) PROVE k.row[1] # "slot"
  <2>1. Rightful(t.req, k)
    BY <1>1
  <2> QED
    BY <2>1 DEF Rightful, VenueKinds, FormKinds, CollectionKinds
<1>3. ASSUME NEW k \in Uses(t), k.row[1] = "identity" PROVE t.at = "store"
  <2>1. Rightful(t.req, k)
    BY <1>1
  <2>2. t.req.kind \in {"create_locality", "save_locality"}
    BY <1>3, <2>1 DEF Rightful
  <2> QED
    BY <1>3, <2>2
<1> QED
  BY <1>2, <1>3 DEF Staged, GroupsOnly, VenueKinds, FormKinds, FavoriteKinds

LEMMA VenueBegun ==
    ASSUME TxnType, NEW c \in Clients, NEW req \in workload, req.kind \in VenueKinds, NEW step, NEW plan,
           Begin(c, req, step, plan), Plans(req, {}, plan), step = "form" => plan = <<>>, step \notin {"idle", "read"},
           req.kind \in {"rename_venue", "edit_venue"} /\ step # "form" => plan = <<VenueLock(req.venue)>>,
           req.kind \in {"create_locality", "save_locality"} => plan = <<>>
    PROVE  Moves(c)
<1>1. Possesses(req, {})
  BY DEF Possesses
<1>2. ASSUME NEW t, Arrives(t, step, req, <<>>, plan, {}) PROVE Staged(t)
  <2>1. t.at = step /\ t.req = req /\ t.plan = plan /\ t.held = {} /\ (plan = <<>> => Uses(t) = {})
    BY <1>2, EmptyRange DEF Arrives, Uses
  <2>2. req.kind \in {"rename_venue", "edit_venue"} /\ t.at # "form" => Awaits(t, VenueLock(req.venue))
    BY <2>1, ShortPlans DEF Awaits
  <2> QED
    BY <1>1, <2>1, <2>2, VenueStaged
<1> QED
  BY <1>2, BeginOrderly

LEMMA VenueContinued ==
    ASSUME TxnType, NEW c \in Clients, Orderly(txn[c]), txn[c].plan = <<>>, txn[c].req.kind \in VenueKinds,
           NEW step, NEW seen, NEW plan, Continue(c, step, seen, plan), Plans(txn[c].req, txn[c].held, plan),
           step \notin {"idle", "read", "form"},
           txn[c].req.kind \in {"rename_venue", "edit_venue"} =>
               txn[c].at # "form" \/ plan = <<VenueLock(txn[c].req.venue)>>,
           txn[c].req.kind \in {"create_locality", "save_locality"} =>
               step = "store" \/ (txn[c].held = {} /\ \A k \in Range(plan) : k.row[1] # "identity")
    PROVE  Moves(c)
<1>1. Possesses(txn[c].req, txn[c].held)
  BY DEF Orderly
<1>2. ASSUME NEW t, Arrives(t, step, txn[c].req, seen, plan, txn[c].held) PROVE Staged(t)
  <2>1. t.at = step /\ t.req = txn[c].req /\ t.plan = plan /\ t.held = txn[c].held
    BY <1>2 DEF Arrives
  <2>2. Uses(t) = txn[c].held \union Range(plan)
    BY <2>1 DEF Uses
  <2>3. ASSUME txn[c].req.kind \in {"rename_venue", "edit_venue"} PROVE Awaits(t, VenueLock(t.req.venue))
    <3>1. CASE txn[c].at # "form"
      <4>1. VenueLock(txn[c].req.venue) \in txn[c].held
        BY <2>3, <3>1, AwaitedIsHeld DEF Orderly, Staged
      <4> QED
        BY <2>1, <4>1 DEF Awaits
    <3>2. CASE plan = <<VenueLock(txn[c].req.venue)>>
      BY <2>1, <3>2, ShortPlans DEF Awaits
    <3> QED
      BY <2>3, <3>1, <3>2
  <2> QED
    BY <1>1, <2>1, <2>2, <2>3, VenueStaged
<1> QED
  BY <1>2, ContinueOrderly

LEMMA VenueStartOrderly ==
    ASSUME TxnType, NEW c \in Clients, NEW req \in workload, VenueStart(c, req)
    PROVE  Moves(c)
<1>1. CASE StartCreateVenue(c, req)
  <2>1. req.kind = "create_venue" /\ req.kind \in VenueKinds /\ Begin(c, req, "check", <<Registry>>)
    BY <1>1 DEF StartCreateVenue, VenueKinds
  <2>2. Rightful(req, Registry) /\ ~Leans(Registry)
    BY <2>1, VenueLocks DEF Rightful, Leans
  <2>3. Plans(req, {}, <<Registry>>)
    BY <2>1, <2>2, VenueNotSong, OpensPlan
  <2> QED
    BY <2>1, <2>3, VenueBegun
<1>2. CASE StartUpdateVenue(c, req) \/ StartRename(c, req)
  <2>1. PICK step \in {"store", "registry"} :
           req.kind \in {"update_venue", "rename_venue"} /\ Begin(c, req, step, <<VenueLock(req.venue)>>)
    BY <1>2 DEF StartUpdateVenue, StartRename
  <2>2. req.kind \in VenueKinds
    BY <2>1 DEF VenueKinds
  <2>3. Rightful(req, VenueLock(req.venue)) /\ ~Leans(VenueLock(req.venue))
    BY <2>1, VenueLocks DEF Rightful, Leans
  <2>4. Plans(req, {}, <<VenueLock(req.venue)>>)
    BY <2>2, <2>3, VenueNotSong, OpensPlan
  <2> QED
    BY <2>1, <2>2, <2>4, VenueBegun
<1>3. CASE OpenVenueForm(c, req)
  <2>1. req.kind \in VenueKinds /\ Begin(c, req, "form", <<>>)
    BY <1>3 DEF OpenVenueForm, VenueKinds
  <2> QED
    BY <2>1, NoPlan, VenueBegun
<1>4. CASE StartCreateLocality(c, req)
  <2>1. req.kind = "create_locality" /\ req.kind \in VenueKinds /\ Begin(c, req, "check", <<>>)
    BY <1>4 DEF StartCreateLocality, VenueKinds
  <2> QED
    BY <2>1, NoPlan, VenueBegun
<1> QED
  BY <1>1, <1>2, <1>3, <1>4 DEF VenueStart

\* The share or key lock of a locality.
LEMMA LocalityPlan ==
    ASSUME NEW req, req.kind \in {"create_venue", "save_location", "edit_venue"}, NEW held, NEW mode \in {"key", "share"},
           NEW a
    PROVE  Plans(req, held, LocalityKeys(mode, a))
<1>1. PICK k : k = Lock(mode, <<"locality", a>>)
  OBVIOUS
<1>2. k.mode \in {"key", "share"} /\ k.row[1] = "locality"
  BY <1>1, LocalityFields
<1>3. Rightful(req, k) /\ ~Opens(req, k) /\ ~Leans(k)
  BY <1>2 DEF Rightful, Opens, Leans
<1>4. req.kind \notin SongKinds
  BY DEF SongKinds, SongForms
<1>5. Plans(req, held, <<k>>)
  BY <1>3, <1>4, OnePlan
<1> QED
  BY <1>1, <1>5, NoPlan DEF LocalityKeys

LEMMA VenueStepOrderly ==
    ASSUME TxnType, NEW c \in Clients, Orderly(txn[c]), VenueStep(c)
    PROVE  Moves(c)
<1>1. PICK req, held : req = txn[c].req /\ held = txn[c].held
  OBVIOUS
<1>2. CASE CheckNewVenue(c)
  <2>1. PICK seen, plan : /\ plan = LocalityKeys("share", req.place.area) /\ Continue(c, "store", seen, plan)
                          /\ req.kind = "create_venue" /\ txn[c].plan = <<>>
    BY <1>1, <1>2 DEF CheckNewVenue, Ready
  <2>2. Plans(req, held, plan) /\ req.kind \in VenueKinds
    BY <2>1, LocalityPlan DEF VenueKinds
  <2> QED
    BY <1>1, <2>1, <2>2, VenueContinued
<1>3. CASE LockNameRegistry(c)
  <2>1. PICK seen : /\ Continue(c, "name", seen, <<Registry>>) /\ txn[c].plan = <<>> /\ txn[c].at = "registry"
                    /\ req.kind \in {"rename_venue", "edit_venue"}
    BY <1>1, <1>3 DEF LockNameRegistry, Ready
  <2>2. req.kind \in VenueKinds
    BY <2>1 DEF VenueKinds, FormKinds
  <2>3. Rightful(req, Registry) /\ ~Leans(Registry) /\ ~Opens(req, Registry)
    BY <2>1, VenueLocks DEF Rightful, Leans, Opens
  <2>4. Plans(req, held, <<Registry>>)
    BY <2>2, <2>3, VenueNotSong, OnePlan
  <2> QED
    BY <1>1, <2>1, <2>2, <2>4, VenueContinued
<1>4. CASE CheckNewName(c)
  <2>9. PICK tag : tag = "venue name"
    OBVIOUS
  <2>8. PICK n : n = Len(venue[req.venue].names)
    OBVIOUS
  <2>0. PICK k : k = Lock("update", <<tag, req.venue, n>>)
    OBVIOUS
  <2>1. PICK seen :
           /\ Continue(c, "store", seen, <<k>>)
           /\ txn[c].plan = <<>> /\ txn[c].at = "name" /\ req.kind \in {"rename_venue", "edit_venue"}
    BY <1>1, <1>4, <2>0, <2>8, <2>9 DEF CheckNewName, Ready
  <2>2. req.kind \in VenueKinds
    BY <2>1 DEF VenueKinds, FormKinds
  <2>3. VenueLock(req.venue) \in held
    BY <1>1, <2>1, AwaitedIsHeld DEF Orderly, Staged
  <2>10. k.mode = "update" /\ k.row[1] = tag /\ k.row[2] = req.venue
    BY <2>0, NameFields
  <2>4. k.mode = "update" /\ k.row[1] = "venue name" /\ k.row[2] = req.venue
    BY <2>9, <2>10
  <2>5. Rightful(req, k) /\ ~Opens(req, k)
    BY <2>1, <2>4 DEF Rightful, Opens
  <2>6. Guards(VenueLock(req.venue), k)
    BY <2>4, VenueLocks DEF Guards
  <2>7. Plans(req, held, <<k>>)
    BY <2>2, <2>3, <2>5, <2>6, VenueNotSong, OnePlan
  <2> QED
    BY <1>1, <2>1, <2>2, <2>7, VenueContinued
<1>5. CASE SendVenueForm(c)
  <2>1. PICK seen : /\ Continue(c, "validate", seen, <<VenueLock(req.venue)>>)
                    /\ req.kind \in FormKinds /\ txn[c].plan = <<>> /\ txn[c].at = "form"
    BY <1>1, <1>5 DEF SendVenueForm, Ready
  <2>2. req.kind \in VenueKinds /\ req.kind \notin {"create_locality", "save_locality"}
    BY <2>1 DEF VenueKinds, FormKinds
  <2>3. held = {}
    BY <1>1, <2>1 DEF Orderly, Staged
  <2>4. Rightful(req, VenueLock(req.venue)) /\ ~Leans(VenueLock(req.venue))
    BY <2>1, VenueLocks DEF Rightful, Leans
  <2>5. Plans(req, held, <<VenueLock(req.venue)>>)
    BY <2>2, <2>3, <2>4, VenueNotSong, OpensPlan
  <2> QED
    BY <1>1, <2>1, <2>2, <2>5, VenueContinued
<1>6. CASE ValidatePlace(c)
  <2>1. PICK step, seen, plan :
           /\ step \in {"registry", "store"}
           /\ plan \in {<<>>, LocalityKeys("key", req.place.area)} /\ Continue(c, step, seen, plan)
           /\ req.kind \in {"save_location", "edit_venue"} /\ txn[c].plan = <<>> /\ txn[c].at = "validate"
    BY <1>1, <1>6 DEF ValidatePlace, Ready
  <2>2. req.kind \in VenueKinds
    BY <2>1 DEF VenueKinds, FormKinds
  <2>3. Plans(req, held, plan)
    BY <2>1, NoPlan, LocalityPlan
  <2> QED
    BY <1>1, <2>1, <2>2, <2>3, VenueContinued
<1>7. CASE CheckNewLocality(c)
  <2>1. PICK seen, k : /\ k = Identity(txn[c].req.name) /\ Continue(c, "store", seen, <<k>>)
                       /\ req.kind = "create_locality" /\ txn[c].plan = <<>> /\ txn[c].at = "check"
    BY <1>1, <1>7 DEF CheckNewLocality, Ready
  <2>2. req.kind \in VenueKinds
    BY <2>1 DEF VenueKinds
  <2>3. held = {}
    <3>1. SUFFICES ASSUME NEW h \in held PROVE FALSE
      OBVIOUS
    <3>2. Rightful(req, h)
      BY <1>1 DEF Orderly, Possesses
    <3>3. h.row[1] = "identity"
      BY <2>1, <3>2 DEF Rightful, SetlistKinds, CollectionKinds, FavoriteKinds, ContextWriters, FormKinds, SongKinds,
                           SongForms, GroupCreations, AlbumForms, AlbumKinds, Favoring
    <3> QED
      BY <1>1, <2>1, <3>3 DEF Orderly, Staged, Uses
  <2>4. Rightful(req, k) /\ ~Leans(k)
    BY <2>1, VenueLocks DEF Rightful, Leans
  <2>5. Plans(req, held, <<k>>)
    BY <2>2, <2>3, <2>4, VenueNotSong, OpensPlan
  <2> QED
    BY <1>1, <2>1, <2>2, <2>5, VenueContinued
<1>8. CASE SendLocalityForm(c)
  <2>1. PICK seen, k : /\ k = Lock("update", <<"locality", txn[c].req.area>>) /\ Continue(c, "validate", seen, <<k>>)
                       /\ req.kind = "save_locality" /\ txn[c].plan = <<>> /\ txn[c].at = "form"
    BY <1>1, <1>8 DEF SendLocalityForm, Ready
  <2>2. req.kind \in VenueKinds
    BY <2>1 DEF VenueKinds
  <2>3. held = {}
    BY <1>1, <2>1 DEF Orderly, Staged
  <2>4. k.mode = "update" /\ k.row[1] = "locality"
    BY <2>1, LocalityFields
  <2>5. Rightful(req, k) /\ ~Leans(k)
    BY <2>1, <2>4 DEF Rightful, Leans
  <2>6. Plans(req, held, <<k>>)
    BY <2>2, <2>3, <2>5, VenueNotSong, OpensPlan
  <2>7. \A lock \in Range(<<k>>) : lock.row[1] # "identity"
    BY <2>4, FreshOne
  <2> QED
    BY <1>1, <2>1, <2>2, <2>3, <2>6, <2>7, VenueContinued
<1>9. CASE ValidateLocality(c)
  <2>1. PICK k, m : k = Identity(locality[txn[c].req.area]) /\ m = Identity(txn[c].req.name)
    OBVIOUS
  <2>2. PICK seen, plan : /\ plan = <<k, m>> /\ (Finish(c) \/ Continue(c, "store", seen, plan))
                          /\ req.kind = "save_locality" /\ txn[c].plan = <<>> /\ txn[c].at = "validate"
    BY <1>1, <1>9, <2>1 DEF ValidateLocality, Ready
  <2>3. req.kind \in VenueKinds
    BY <2>2 DEF VenueKinds
  <2>4. plan \in Seq({k, m})
    BY <2>2
  <2>5. Listed(plan) /\ \A i \in DOMAIN plan : plan[i] \in {k, m}
    BY <2>4, ListedFacts
  <2>6. ASSUME NEW lock \in {k, m} PROVE Rightful(req, lock) /\ ~Opens(req, lock) /\ ~Leans(lock)
    <3>1. lock.mode = "update" /\ lock.row[1] = "identity"
      BY <2>1, VenueLocks
    <3> QED
      BY <2>2, <3>1 DEF Rightful, Opens, Leans
  <2>7. Plans(req, held, plan)
    BY <2>3, <2>5, <2>6, VenueNotSong, FlatPlan
  <2> QED
    BY <1>1, <2>2, <2>3, <2>7, VenueContinued, FinishOrderly
<1>10. CASE InsertVenue(c) \/ StoreVenueKind(c) \/ StoreRename(c) \/ StorePlace(c) \/ SaveMapLink(c)
            \/ DeleteMapLink(c) \/ InsertLocality(c) \/ StoreLocality(c)
  <2>1. Finish(c)
    BY <1>10 DEF InsertVenue, StoreVenueKind, StoreRename, StorePlace, SaveMapLink, DeleteMapLink,
                 InsertLocality, StoreLocality
  <2> QED
    BY <2>1, FinishOrderly
<1> QED
  BY <1>2, <1>3, <1>4, <1>5, <1>6, <1>7, <1>8, <1>9, <1>10 DEF VenueStep

----------------------------------------------------------------------------
\* The song catalogue.
LEMMA SongKindFacts ==
    \A req : req.kind \in SongKinds => /\ req.kind \notin Marked /\ req.kind \notin CollectionKinds
                                       /\ req.kind \notin FavoriteKinds
  BY DEF SongKinds, SongForms, Marked, CollectionKinds, FavoriteKinds

LEMMA UpdateFields ==
    \A tag, x : /\ Lock("update", <<tag, x>>).mode = "update" /\ Lock("update", <<tag, x>>).row[1] = tag
                /\ Lock("update", <<tag, x>>).row[2] = x
  BY LockFields, RowFields

LEMMA CatalogLocks ==
    /\ \A g : GroupLock(g).mode = "update" /\ GroupLock(g).row[1] = "song group" /\ GroupLock(g).row[2] = g
    /\ \A s : SongLock(s).mode = "update" /\ SongLock(s).row[1] = "song" /\ SongLock(s).row[2] = s
<1>1. PICK tag : tag = "song group"
  OBVIOUS
<1>2. ASSUME NEW g PROVE GroupLock(g).mode = "update" /\ GroupLock(g).row[1] = tag /\ GroupLock(g).row[2] = g
  <2>1. GroupLock(g) = Lock("update", <<tag, g>>)
    BY <1>1 DEF GroupLock
  <2> QED
    BY <2>1, UpdateFields
<1>3. PICK kind : kind = "song"
  OBVIOUS
<1>4. ASSUME NEW s PROVE SongLock(s).mode = "update" /\ SongLock(s).row[1] = kind /\ SongLock(s).row[2] = s
  <2>1. SongLock(s) = Lock("update", <<kind, s>>)
    BY <1>3 DEF SongLock
  <2> QED
    BY <2>1, UpdateFields
<1> QED
  BY <1>1, <1>2, <1>3, <1>4

LEMMA SongStaged ==
    ASSUME NEW t, Possesses(t.req, t.held), Plans(t.req, t.held, t.plan), t.req.kind \in SongKinds, t.at # "idle",
           t.at \in {"form", "read"} => t.held = {} /\ t.plan = <<>>,
           GroupsOnly(t) => \A k \in Uses(t) : k.row[1] = "song group"
    PROVE  Staged(t)
<1>1. ASSUME NEW k \in Uses(t) PROVE Rightful(t.req, k)
  BY DEF Uses, Range, Possesses, Plans
<1>2. t.req.kind \notin Marked /\ t.req.kind \notin CollectionKinds /\ t.req.kind \notin FavoriteKinds
  BY SongKindFacts
<1>3. ASSUME NEW k \in Uses(t) PROVE k.row[1] # "identity" /\ k.row[1] # "slot"
  <2>1. Rightful(t.req, k)
    BY <1>1
  <2> QED
    BY <1>2, <2>1 DEF Rightful, Marked
<1> QED
  BY <1>2, <1>3 DEF Staged, Marked

LEMMA SongBegun ==
    ASSUME TxnType, NEW c \in Clients, NEW req \in workload, req.kind \in SongKinds, NEW step \in {"form", "titles", "store"},
           NEW plan, Begin(c, req, step, plan), Plans(req, {}, plan), step = "form" => plan = <<>>
    PROVE  Moves(c)
<1>1. Possesses(req, {})
  BY DEF Possesses
<1>2. ASSUME NEW t, Arrives(t, step, req, <<>>, plan, {}) PROVE Staged(t)
  <2>1. t.at = step /\ t.req = req /\ t.plan = plan /\ t.held = {}
    BY <1>2 DEF Arrives
  <2> QED
    BY <1>1, <2>1, SongStaged DEF GroupsOnly
<1> QED
  BY <1>2, BeginOrderly

LEMMA SongContinued ==
    ASSUME TxnType, NEW c \in Clients, Orderly(txn[c]), txn[c].req.kind \in SongKinds,
           NEW step \in {"read", "find", "check", "song", "songs", "groups", "store"}, NEW seen, NEW plan,
           Continue(c, step, seen, plan),
           Plans(txn[c].req, txn[c].held, plan), step = "read" => txn[c].held = {} /\ plan = <<>>,
           step \in {"song", "songs", "groups"} => txn[c].held = {} /\ \A k \in Range(plan) : k.row[1] = "song group"
    PROVE  Moves(c)
<1>1. Possesses(txn[c].req, txn[c].held)
  BY DEF Orderly
<1>2. ASSUME NEW t, Arrives(t, step, txn[c].req, seen, plan, txn[c].held) PROVE Staged(t)
  <2>1. t.at = step /\ t.req = txn[c].req /\ t.plan = plan /\ t.held = txn[c].held
    BY <1>2 DEF Arrives
  <2>2. Uses(t) = txn[c].held \union Range(plan)
    BY <2>1 DEF Uses
  <2>3. GroupsOnly(t) => \A k \in Uses(t) : k.row[1] = "song group"
    BY <2>1, <2>2 DEF GroupsOnly
  <2> QED
    BY <1>1, <2>1, <2>3, SongStaged
<1> QED
  BY <1>2, ContinueOrderly

\* One lock of the catalogue.
LEMMA CatalogOne ==
    ASSUME NEW req, req.kind \in SongKinds, NEW held, NEW k, k.mode = "update",
           k.row[1] \in {"song group", "song", "album"}, k.row[2] \in Nat, Rightful(req, k),
           held = {} \/ (k.row[1] = "song" /\ \A h \in held : h.row[1] = "song group")
    PROVE  Plans(req, held, <<k>>)
<1>1. ~Leans(k) /\ (Opens(req, k) => held = {})
  BY DEF Leans, Opens
<1>2. \A h \in held : Follows(req, h.row, k.row)
  BY DEF Precedes, Follows
<1> QED
  BY <1>1, <1>2, OnePlan

\* The locks of a song, whoever takes them.
LEMMA SongRightful ==
    ASSUME NEW req, NEW mode \in {"update", "key"}, NEW s \in Songs, NEW k, k = Lock(mode, <<"song", s>>),
           req.kind \in IF mode = "key" THEN AlbumKinds ELSE SongKinds \ AlbumKinds
    PROVE  Rightful(req, k) /\ ~Opens(req, k) /\ ~Leans(k) /\ k.row[1] = "song" /\ k.row[2] \in Nat
<1>1. k.mode = mode /\ k.row = <<"song", s>>
  BY LockFields
<1>2. k.row[1] = "song" /\ k.row[2] = s
  BY <1>1, RowFields
<1>3. s \in Nat
  BY SongConstants
<1>4. OfSong(k)
  BY <1>1, <1>2, <1>3 DEF OfSong
<1>5. Rightful(req, k)
  BY <1>1, <1>2, <1>4 DEF Rightful
<1>6. ~Opens(req, k) /\ ~Leans(k)
  BY <1>2 DEF Opens, Leans
<1> QED
  BY <1>2, <1>3, <1>5, <1>6

\* The tracks of an album, in their order.
LEMMA TracksPlan ==
    ASSUME NEW req, req.kind \in AlbumKinds, NEW held, \A h \in held : Rightful(req, h), NEW tracks \in Seq(Songs)
    PROVE  Plans(req, held, TrackKeys(tracks))
<1>1. PICK plan, n : plan = TrackKeys(tracks) /\ n = Len(tracks) /\ n \in Nat /\ DOMAIN tracks = 1..n
  OBVIOUS
<1>2. plan = [i \in 1..n |-> Lock("key", <<"song", tracks[i]>>)]
  BY <1>1 DEF TrackKeys
<1>3. Listed(plan)
  <2>1. plan = [i \in 1..n |-> plan[i]]
    BY <1>2
  <2>2. plan \in [1..n -> Range(plan)]
    BY <2>1 DEF Range
  <2>3. plan \in Seq(Range(plan))
    BY <1>1, <2>2
  <2> QED
    BY <2>3 DEF Listed
<1>4. ASSUME NEW i \in DOMAIN plan
      PROVE  /\ Rightful(req, plan[i]) /\ ~Opens(req, plan[i]) /\ ~Leans(plan[i])
             /\ plan[i].row[1] = "song" /\ plan[i].row[2] \in Nat
  <2>1. plan[i] = Lock("key", <<"song", tracks[i]>>) /\ tracks[i] \in Songs
    BY <1>1, <1>2
  <2> QED
    BY <2>1, SongRightful
<1>5. \A h \in held : h.row[1] \in {"album", "song"}
  BY DEF Rightful, AlbumKinds, AlbumForms, SetlistKinds, CollectionKinds, FavoriteKinds, ContextWriters, FormKinds,
         GroupCreations, SongForms, Favoring
<1>6. ASSUME NEW i \in DOMAIN plan, NEW h \in held PROVE Follows(req, h.row, plan[i].row)
  BY <1>4, <1>5 DEF Follows, Precedes, Loose
<1>7. ASSUME NEW i \in DOMAIN plan, NEW j \in DOMAIN plan PROVE Follows(req, plan[i].row, plan[j].row)
  BY <1>4 DEF Follows, Loose
<1> QED
  BY <1>1, <1>3, <1>4, <1>6, <1>7 DEF Plans

LEMMA LeastInNat ==
    ASSUME NEW S \in SUBSET Nat, S # {}
    PROVE  Min(S) \in S
<1>1. PICK m \in S : \A k \in S : ~(<<k, m>> \in OpToRel(<, Nat))
  BY WFMin, NatLessThanWellFounded
<1>2. ASSUME NEW k \in S PROVE m <= k
  <2>1. ~(k < m) /\ k \in Nat /\ m \in Nat
    BY <1>1 DEF OpToRel
  <2> QED
    BY <2>1
<1> QED
  BY <1>2 DEF Min

\* A song that a batch says is a cover.
LEMMA CoverPlan ==
    ASSUME NEW req, req.kind = "create_groups_batch", NEW held, \A h \in held : Rightful(req, h), NEW s \in Songs
    PROVE  Plans(req, held, <<SongLock(s)>>)
<1>1. req.kind \in SongKinds /\ req.kind \notin AlbumKinds
  BY DEF SongKinds, AlbumKinds, AlbumForms
<1>2. PICK k : k = SongLock(s)
  OBVIOUS
<1>3. Rightful(req, k) /\ ~Opens(req, k) /\ ~Leans(k) /\ k.row[1] = "song" /\ k.row[2] \in Nat
  BY <1>1, <1>2, SongRightful DEF SongLock
<1>4. \A h \in held : h.row[1] \in {"title", "song"}
  BY DEF Rightful, AlbumKinds, AlbumForms, SetlistKinds, CollectionKinds, FavoriteKinds, ContextWriters, FormKinds,
         GroupCreations, SongForms, Favoring
<1>5. \A h \in held : Follows(req, h.row, k.row)
  BY <1>3, <1>4 DEF Follows, Precedes, Loose
<1> QED
  BY <1>2, <1>3, <1>5, OnePlan

LEMMA GroupsPlan ==
    ASSUME NEW req, req.kind \in SongForms \ AlbumForms, NEW groups \in SUBSET (SongGroups \union {0})
    PROVE  Plans(req, {}, GroupLocks(groups)) /\ \A k \in Range(GroupLocks(groups)) : k.row[1] = "song group"
<1>1. groups \in SUBSET Nat /\ IsFiniteSet(groups)
  <2>1. PICK all : all = SongGroups \union {0}
    OBVIOUS
  <2>2. IsFiniteSet(all)
    BY <2>1, SongConstants, FS_AddElement
  <2>3. groups \subseteq all
    BY <2>1
  <2>4. IsFiniteSet(groups)
    BY <2>2, <2>3, FS_Subset
  <2> QED
    BY <2>1, <2>3, <2>4, SongConstants
<1>2. PICK plan : plan = GroupLocks(groups)
  OBVIOUS
<1>3. Rungs(plan, "song group", groups)
  <2>1. plan = [i \in DOMAIN InOrder(groups) |-> GroupLock(InOrder(groups)[i])]
    BY <1>2 DEF GroupLocks
  <2> QED
    BY <2>1, CatalogLocks DEF Rungs
<1>4. PICK tag : tag = "song group"
  OBVIOUS
<1>5. Plans(req, {}, plan) /\ \A k \in Range(plan) : k.row[1] = tag
  <2>1. Rungs(plan, tag, groups)
    BY <1>3, <1>4
  <2>2. Plans(req, {}, plan)
    <3>1. \A i \in DOMAIN plan : Rightful(req, plan[i])
      BY <1>3 DEF Rungs, Rightful
    <3>2. req.kind \in SongKinds
      BY DEF SongKinds
    <3> QED
      BY <1>1, <1>4, <2>1, <3>1, <3>2, CatalogPlan
  <2>3. \A k \in Range(plan) : k.row[1] = tag
    <3>1. Climbs(plan, tag, groups)
      BY <1>1, <2>1, Ascending
    <3> QED
      BY <3>1 DEF Climbs, Range
  <2> QED
    BY <2>2, <2>3
<1> QED
  BY <1>2, <1>4, <1>5

LEMMA SongsPlan ==
    ASSUME NEW req, req.kind \in SongForms \ AlbumForms, NEW held, \A h \in held : h.row[1] = "song group", NEW songs \in SUBSET Songs
    PROVE  Plans(req, held, SongLocks(songs))
<1>1. songs \in SUBSET Nat /\ IsFiniteSet(songs)
  BY SongConstants, FS_Subset
<1>2. PICK plan : plan = SongLocks(songs)
  OBVIOUS
<1>3. Rungs(plan, "song", songs)
  <2>1. plan = [i \in DOMAIN InOrder(songs) |-> SongLock(InOrder(songs)[i])]
    BY <1>2 DEF SongLocks
  <2> QED
    BY <2>1, CatalogLocks DEF Rungs
<1>4. req.kind \in SongKinds /\ req.kind \notin AlbumKinds
  BY DEF SongKinds, AlbumKinds, SongForms
<1>5. ASSUME NEW i \in DOMAIN plan PROVE Rightful(req, plan[i])
  <2>1. plan[i] = SongLock(InOrder(songs)[i]) /\ i \in DOMAIN InOrder(songs)
    BY <1>2, <1>5 DEF SongLocks
  <2>2. InOrder(songs)[i] \in Songs
    BY <1>1, <2>1, InOrderAscends
  <2> QED
    BY <1>4, <2>1, <2>2, SongRightful DEF SongLock
<1>6. Plans(req, held, plan)
  BY <1>1, <1>3, <1>4, <1>5, CatalogPlan
<1> QED
  BY <1>2, <1>6

LEMMA TitlesPlan ==
    ASSUME NEW req, req.kind \in GroupCreations, NEW titles \in SUBSET Nat, IsFiniteSet(titles)
    PROVE  Plans(req, {}, TitleLocks(titles))
<1>1. PICK plan : plan = TitleLocks(titles)
  OBVIOUS
<1>2. PICK tag : tag = "title"
  OBVIOUS
<1>3. Rungs(plan, tag, titles)
  <2>1. plan = [i \in DOMAIN InOrder(titles) |-> Lock("update", <<tag, InOrder(titles)[i]>>)]
    BY <1>1, <1>2 DEF TitleLocks
  <2> QED
    BY <2>1, UpdateFields DEF Rungs
<1>4. req.kind \in SongKinds /\ \A i \in DOMAIN plan : Rightful(req, plan[i])
  BY <1>2, <1>3 DEF Rungs, Rightful, SongKinds, GroupCreations
<1>5. Plans(req, {}, plan)
  BY <1>2, <1>3, <1>4, CatalogPlan
<1> QED
  BY <1>1, <1>5

LEMMA SongStartOrderly ==
    ASSUME SongInv, NEW c \in Clients, NEW req \in workload, SongStart(c, req)
    PROVE  Moves(c)
<1>0. TxnType
  BY DEF SongInv, TxnInv
<1>1. CASE OpenCatalogForm(c, req)
  <2>1. req.kind \in SongKinds /\ Begin(c, req, "form", <<>>)
    BY <1>1 DEF OpenCatalogForm, SongKinds
  <2> QED
    BY <1>0, <2>1, NoPlan, SongBegun
<1>2. CASE StartCreateGroups(c, req)
  <2>1. PICK titles : titles = {item.title : item \in req.items}
    OBVIOUS
  <2>2. req.kind \in GroupCreations /\ req.kind \in SongKinds /\ Begin(c, req, "titles", TitleLocks(titles))
    BY <1>2, <2>1 DEF StartCreateGroups, SongKinds, GroupCreations
  <2>3. req.items \subseteq [title : Nat, owner : STRING] /\ IsFiniteSet(req.items)
    BY <2>2 DEF SongInv, SongRequests, SongRequest
  <2>4. titles \in SUBSET Nat /\ IsFiniteSet(titles)
    <3> DEFINE f == [item \in req.items |-> item.title]
    <3>1. f \in Surjection(req.items, titles)
      BY <2>1 DEF Surjection
    <3>2. IsFiniteSet(titles)
      BY <2>3, <3>1, FS_Surjection
    <3> QED
      BY <2>1, <2>3, <3>2
  <2>5. Plans(req, {}, TitleLocks(titles))
    BY <2>2, <2>4, TitlesPlan
  <2> QED
    BY <1>0, <2>2, <2>5, SongBegun
<1>3. CASE StartCreateAlbum(c, req)
  <2>1. req.kind \in SongKinds /\ req.kind \in AlbumKinds /\ Begin(c, req, "store", TrackKeys(req.tracks))
    BY <1>3 DEF StartCreateAlbum, SongKinds, AlbumKinds
  <2>2. req.tracks \in Seq(Songs)
    BY <2>1 DEF SongInv, SongRequests, SongRequest, AlbumKinds
  <2>3. Plans(req, {}, TrackKeys(req.tracks))
    BY <2>1, <2>2, TracksPlan
  <2> QED
    BY <1>0, <2>1, <2>3, SongBegun
<1> QED
  BY <1>1, <1>2, <1>3 DEF SongStart

LEMMA SongStepOrderly ==
    ASSUME SongInv, NEW c \in Clients, Orderly(txn[c]), SongStep(c)
    PROVE  Moves(c)
<1>0. TxnType /\ SongsTyped
  BY DEF SongInv, TxnInv, SongState
<1>1. PICK req, held : req = txn[c].req /\ held = txn[c].held
  OBVIOUS
<1>2. SongRequest(req)
  BY <1>1 DEF SongInv, SongRequests
<1>3. txn[c].at \in {"form", "read"} => held = {}
  BY <1>1 DEF Orderly, Staged
<1>4. /\ Songs \subseteq Nat /\ SongGroups \subseteq Nat /\ Albums \subseteq Nat
      /\ \A s \in Songs : song[s].group \in SongGroups \union {0}
  BY <1>0, SongConstants DEF SongsTyped, SongRow
<1>5. ASSUME NEW seen, NEW k, Continue(c, "store", seen, <<k>>), txn[c].at \in {"form", "read"}, req.kind \in SongKinds,
             k.mode = "update", k.row[1] \in {"song group", "song", "album"}, k.row[2] \in Nat, Rightful(req, k)
      PROVE  Moves(c)
  <2>1. held = {}
    BY <1>3, <1>5
  <2>2. Plans(req, held, <<k>>)
    BY <1>5, <2>1, CatalogOne
  <2> QED
    BY <1>0, <1>1, <1>5, <2>2, SongContinued
<1>14. CASE SendNewVersion(c)
  <2>1. PICK seen, k : Continue(c, "store", seen, <<k>>) /\ k = GroupLock(req.group)
    BY <1>1, <1>14 DEF SendNewVersion
  <2>2. txn[c].at = "form" /\ req.kind = "create_version"
    BY <1>1, <1>14 DEF SendNewVersion, Ready
  <2>3. req.kind \in SongKinds
    BY <2>2 DEF SongKinds, SongForms
  <2>4. req.group \in Nat
    BY <1>2, <1>4, <2>2 DEF SongRequest
  <2>5. k.mode = "update" /\ k.row[1] = "song group" /\ k.row[2] \in Nat
    BY <2>1, <2>4, CatalogLocks
  <2>6. Rightful(req, k)
    BY <2>2, <2>5 DEF Rightful, SongForms, AlbumForms
  <2> QED
    BY <1>5, <2>1, <2>2, <2>3, <2>5, <2>6
<1>15. CASE SendVersionForm(c)
  <2>1. PICK seen, k : Continue(c, "store", seen, <<k>>) /\ k = SongLock(req.song)
    BY <1>1, <1>15 DEF SendVersionForm
  <2>2. txn[c].at = "form" /\ req.kind \in {"update_version", "correct_ownership"}
    BY <1>1, <1>15 DEF SendVersionForm, Ready
  <2>3. req.kind \in SongKinds /\ req.kind \notin AlbumKinds
    BY <2>2 DEF SongKinds, SongForms, AlbumKinds, AlbumForms
  <2>4. req.song \in Songs /\ req.song \in Nat
    BY <1>2, <1>4, <2>2 DEF SongRequest
  <2>5. k.mode = "update" /\ k.row[1] = "song" /\ k.row[2] \in Nat
    BY <2>1, <2>4, CatalogLocks
  <2>6. Rightful(req, k)
    BY <2>1, <2>3, <2>4, SongRightful DEF SongLock
  <2> QED
    BY <1>5, <2>1, <2>2, <2>3, <2>5, <2>6
<1>6. CASE BeginItems(c)
  <2>1. PICK seen : Continue(c, "find", seen, <<>>) /\ req.kind \in SongKinds
    BY <1>1, <1>6 DEF BeginItems, Ready, GroupCreations, SongKinds
  <2> QED
    BY <1>0, <1>1, <2>1, NoPlan, SongContinued
<1>18. CASE FindDefaultVersion(c)
  <2>1. req.kind \in SongKinds
    BY <1>1, <1>18 DEF FindDefaultVersion, Ready, GroupCreations, SongKinds
  <2>2. PICK item, found, seen, plan :
           /\ found = DefaultVersions(item) /\ Continue(c, "find", seen, plan)
           /\ plan = <<>> \/ (plan = <<SongLock(Min(found))>> /\ found # {} /\ req.kind = "create_groups_batch")
    BY <1>1, <1>18 DEF FindDefaultVersion
  <2>3. Plans(req, held, plan)
    <3>1. CASE plan = <<>>
      BY <3>1, NoPlan
    <3>2. CASE plan = <<SongLock(Min(found))>> /\ found # {} /\ req.kind = "create_groups_batch"
      <4>1. found \subseteq Songs /\ found \subseteq Nat
        BY <1>4, <2>2 DEF DefaultVersions
      <4>2. Min(found) \in Songs
        BY <3>2, <4>1, LeastInNat
      <4>3. \A h \in held : Rightful(req, h)
        BY <1>1 DEF Orderly, Possesses
      <4> QED
        BY <3>2, <4>2, <4>3, CoverPlan
    <3> QED
      BY <2>2, <3>1, <3>2
  <2> QED
    BY <1>0, <1>1, <2>1, <2>2, <2>3, SongContinued
<1>19. CASE CheckAlbum(c)
  <2>1. req.kind \in AlbumForms /\ req.kind \in AlbumKinds /\ req.kind \in SongKinds
    BY <1>1, <1>19 DEF CheckAlbum, Ready, AlbumForms, AlbumKinds, SongKinds, SongForms
  <2>2. PICK seen, plan : plan \in {<<>>, TrackKeys(req.tracks)} /\ Continue(c, "store", seen, plan)
    BY <1>1, <1>19 DEF CheckAlbum
  <2>3. req.tracks \in Seq(Songs) /\ \A h \in held : Rightful(req, h)
    BY <1>1, <1>2, <2>1 DEF SongRequest, Orderly, Possesses
  <2>4. Plans(req, held, plan)
    BY <2>1, <2>2, <2>3, NoPlan, TracksPlan
  <2> QED
    BY <1>0, <1>1, <2>1, <2>2, <2>4, SongContinued
<1>7. CASE SendGroupForm(c)
  <2>1. PICK seen, k : /\ Continue(c, "songs", seen, <<k>>) /\ txn[c].at = "form"
                       /\ req.kind = "update_group" /\ k = GroupLock(req.group)
    BY <1>1, <1>7 DEF SendGroupForm, Ready
  <2>2. k.mode = "update" /\ k.row[1] = "song group" /\ k.row[2] \in Nat
    BY <1>2, <1>4, <2>1, CatalogLocks DEF SongRequest
  <2>3. req.kind \in SongKinds /\ Rightful(req, k)
    BY <2>1, <2>2 DEF SongKinds, SongForms, AlbumForms, Rightful
  <2>4. Plans(req, held, <<k>>) /\ \A lock \in Range(<<k>>) : lock.row[1] = "song group"
    BY <1>3, <2>1, <2>2, <2>3, CatalogOne, FreshOne
  <2> QED
    BY <1>0, <1>1, <1>3, <2>1, <2>3, <2>4, SongContinued
<1>8. CASE LockGroupSongs(c) \/ LockEditedSongs(c)
  <2>1. PICK seen, g :
           /\ Continue(c, "store", seen, SongLocks(Versions(g)))
           /\ (req.kind = "update_group" /\ txn[c].at = "songs") \/ (req.kind = "edit_song" /\ txn[c].at = "groups")
    BY <1>1, <1>8 DEF LockGroupSongs, LockEditedSongs, Ready
  <2>2. req.kind \in SongKinds /\ req.kind \in SongForms \ AlbumForms
    BY <2>1 DEF SongKinds, SongForms, AlbumForms
  <2>3. \A h \in held : h.row[1] = "song group"
    BY <1>1, <2>1 DEF Orderly, Staged, GroupsOnly, Uses
  <2>4. Plans(req, held, SongLocks(Versions(g)))
    <3>1. Versions(g) \in SUBSET Songs
      BY DEF Versions
    <3> QED
      BY <2>2, <2>3, <3>1, SongsPlan
  <2> QED
    BY <1>0, <1>1, <2>1, <2>2, <2>4, SongContinued
<1>9. CASE SendMove(c)
  <2>1. PICK seen : Continue(c, "read", seen, <<>>) /\ req.kind = "move_group" /\ txn[c].at = "form"
    BY <1>1, <1>9 DEF SendMove, Ready
  <2>2. req.kind \in SongKinds
    BY <2>1 DEF SongKinds, SongForms
  <2> QED
    BY <1>0, <1>1, <1>3, <2>1, <2>2, NoPlan, SongContinued
<1>10. ASSUME NEW step \in {"song", "groups"}, NEW seen, NEW groups, Continue(c, step, seen, GroupLocks(groups)),
              req.kind \in {"move_group", "edit_song"}, groups \subseteq {song[req.song].group, req.to},
              txn[c].at \in {"form", "read"}
       PROVE  Moves(c)
  <2>2. req.kind \in SongKinds /\ req.kind \in SongForms \ AlbumForms
    BY <1>10 DEF SongKinds, SongForms, AlbumForms
  <2>3. groups \in SUBSET (SongGroups \union {0})
    <3>1. req.song \in Songs /\ req.to \in SongGroups \union {0}
      BY <1>2, <1>10 DEF SongRequest
    <3> QED
      BY <1>4, <1>10, <3>1
  <2>4. held = {}
    BY <1>3, <1>10
  <2>5. Plans(req, held, GroupLocks(groups)) /\ \A k \in Range(GroupLocks(groups)) : k.row[1] = "song group"
    BY <2>2, <2>3, <2>4, GroupsPlan
  <2> QED
    BY <1>0, <1>1, <1>10, <2>2, <2>4, <2>5, SongContinued
<1>16. CASE ReadSource(c)
  <2>1. PICK seen, groups : groups = {song[req.song].group, req.to} /\ Continue(c, "song", seen, GroupLocks(groups))
    BY <1>1, <1>16 DEF ReadSource
  <2>2. req.kind = "move_group" /\ txn[c].at = "read"
    BY <1>1, <1>16 DEF ReadSource, Ready
  <2> QED
    BY <1>10, <2>1, <2>2
<1>17. CASE SendEdit(c)
  <2>1. PICK seen, groups : /\ groups = {song[req.song].group, req.to} \ {0}
                            /\ Continue(c, "groups", seen, GroupLocks(groups))
    BY <1>1, <1>17 DEF SendEdit
  <2>2. req.kind = "edit_song" /\ txn[c].at = "form"
    BY <1>1, <1>17 DEF SendEdit, Ready
  <2> QED
    BY <1>10, <2>1, <2>2
<1>11. CASE LockMovedSong(c)
  <2>1. PICK seen, k : /\ Continue(c, "store", seen, <<k>>) /\ txn[c].at = "song"
                       /\ req.kind = "move_group" /\ k = SongLock(req.song)
    BY <1>1, <1>11 DEF LockMovedSong, Ready
  <2>2. k.mode = "update" /\ k.row[1] = "song" /\ k.row[2] \in Nat
    BY <1>2, <1>4, <2>1, CatalogLocks DEF SongRequest
  <2>3. req.kind \in SongKinds /\ req.kind \notin AlbumKinds /\ req.song \in Songs
    BY <1>2, <2>1 DEF SongKinds, SongForms, AlbumKinds, AlbumForms, SongRequest
  <2>4. \A h \in held : h.row[1] = "song group"
    BY <1>1, <2>1 DEF Orderly, Staged, GroupsOnly, Uses
  <2>6. Rightful(req, k)
    BY <2>1, <2>3, SongRightful DEF SongLock
  <2>5. Plans(req, held, <<k>>)
    BY <2>2, <2>3, <2>4, <2>6, CatalogOne
  <2> QED
    BY <1>0, <1>1, <2>1, <2>3, <2>5, SongContinued
<1>12. CASE SendAlbumForm(c) \/ ReadAlbum(c)
  <2>1. PICK k, tag : k = AlbumLock(req.album) /\ tag = "album"
    OBVIOUS
  <2>2. req.kind \in AlbumForms /\ txn[c].at \in {"form", "read"}
    BY <1>1, <1>12 DEF SendAlbumForm, ReadAlbum, Ready, AlbumForms
  <2>3. req.kind \in SongKinds /\ req.album \in Nat
    BY <1>2, <1>4, <2>2 DEF SongKinds, SongForms, AlbumForms, SongRequest
  <2>4. k.mode = "update" /\ k.row[1] = tag /\ k.row[2] = req.album
    BY <2>1, UpdateFields DEF AlbumLock
  <2>5. Rightful(req, k)
    BY <2>1, <2>2, <2>4 DEF Rightful
  <2>6. Plans(req, held, <<k>>) /\ held = {}
    BY <1>3, <2>1, <2>2, <2>3, <2>4, <2>5, CatalogOne
  <2>7. CASE \E seen : Continue(c, "check", seen, <<k>>)
    BY <1>0, <1>1, <2>3, <2>6, <2>7, SongContinued
  <2>8. CASE \E seen : Continue(c, "read", seen, <<>>)
    BY <1>0, <1>1, <2>3, <2>6, <2>8, NoPlan, SongContinued
  <2>9. (\E seen : Continue(c, "check", seen, <<k>>)) \/ \E seen : Continue(c, "read", seen, <<>>)
    BY <1>1, <1>12, <2>1 DEF SendAlbumForm, ReadAlbum
  <2> QED
    BY <2>7, <2>8, <2>9
<1>13. CASE StoreNewVersion(c) \/ UpdateVersion(c) \/ CorrectOwnership(c) \/ StoreGroups(c) \/ UpdateGroup(c)
            \/ MoveGroup(c) \/ EditSong(c) \/ InsertAlbum(c) \/ SaveAlbum(c)
  <2>1. Finish(c)
    BY <1>13 DEF StoreNewVersion, UpdateVersion, CorrectOwnership, StoreGroups, UpdateGroup, MoveGroup, EditSong,
                 InsertAlbum, SaveAlbum
  <2> QED
    BY <1>0, <2>1, FinishOrderly
<1> QED
  BY <1>6, <1>7, <1>8, <1>9, <1>11, <1>12, <1>13, <1>14, <1>15, <1>16, <1>17, <1>18, <1>19 DEF SongStep

----------------------------------------------------------------------------
(* The order of the locks is kept by every step. *)
LEMMA OrderInvStep ==
    ASSUME ConsoleInv, CollectionInv, SongInv, OrderInv, [Next]_vars
    PROVE  OrderInv'
<1>1. ASSUME NEW c \in Clients, Moves(c) PROVE OrderInv'
  BY <1>1 DEF OrderInv, Moves, Others
<1>2. TxnType
  BY DEF ConsoleInv, TxnInv
<1>3. ASSUME NEW c \in Clients, LivesNext(c) \/ CollectionsNext(c) \/ VenuesNext(c) \/ SongsNext(c) \/ DatabaseNext(c)
      PROVE  Moves(c)
  <2>0. Orderly(txn[c])
    BY DEF OrderInv
  <2>1. CASE LivesNext(c)
    BY <2>0, <2>1, LiveStartOrderly, LiveStepOrderly DEF LivesNext
  <2>2. CASE CollectionsNext(c)
    BY <2>0, <2>2, CollectionOrderly DEF CollectionsNext
  <2>3. CASE VenuesNext(c)
    BY <1>2, <2>0, <2>3, VenueStartOrderly, VenueStepOrderly DEF VenuesNext
  <2>4. CASE SongsNext(c)
    BY <2>0, <2>4, SongStartOrderly, SongStepOrderly DEF SongsNext
  <2>5. CASE TakeLock(c)
    BY <1>2, <2>0, <2>5, TakeOrderly DEF Moves
  <2>6. CASE RollBack(c)
    BY <1>2, <2>6, FinishOrderly DEF RollBack
  <2> QED
    BY <1>3, <2>1, <2>2, <2>3, <2>4, <2>5, <2>6 DEF DatabaseNext
<1>4. CASE UNCHANGED vars
  BY <1>4 DEF vars, txnVars, OrderInv
<1> QED
  BY <1>1, <1>3, <1>4 DEF Next

----------------------------------------------------------------------------
\* The identities of localities.
Own(a) == Lock("update", <<"locality", a>>)

LEMMA OwnFacts == \A a : Own(a).mode = "update" /\ Own(a).row = <<"locality", a>>
  BY LockFields DEF Own

\* The new record of a connection.
LEMMA ContinueArrives ==
    ASSUME TxnInv, NEW c \in Clients, NEW step, NEW seen, NEW plan, Continue(c, step, seen, plan)
    PROVE  Others(c) /\ Arrives(txn'[c], step, txn[c].req, seen, plan, txn[c].held)
<1>1. TxnType
  BY DEF TxnInv
<1>2. Turn(c) /\ txn'[c] = [at |-> step, req |-> txn[c].req, seen |-> seen, plan |-> plan, held |-> txn[c].held]
  BY <1>1, ContinueTurn
<1> QED
  BY <1>2 DEF Turn, Arrives

LEMMA BeginArrives ==
    ASSUME TxnInv, NEW c \in Clients, NEW req \in workload, NEW step, NEW plan, Begin(c, req, step, plan)
    PROVE  Others(c) /\ Arrives(txn'[c], step, req, <<>>, plan, {})
<1>1. TxnType
  BY DEF TxnInv
<1>2. Turn(c) /\ txn'[c] = [at |-> step, req |-> req, seen |-> <<>>, plan |-> plan, held |-> {}]
  BY <1>1, BeginTurn
<1> QED
  BY <1>2 DEF Turn, Arrives

LEMMA TakeArrives ==
    ASSUME TxnInv, NEW c \in Clients, TakeLock(c)
    PROVE  /\ Others(c)
           /\ Arrives(txn'[c], txn[c].at, txn[c].req, txn[c].seen, Tail(txn[c].plan),
                      txn[c].held \union {Head(txn[c].plan)})
<1>1. TxnType
  BY DEF TxnInv
<1>2. PICK plan, held : plan = Tail(txn[c].plan) /\ held = txn[c].held \union {Head(txn[c].plan)}
  OBVIOUS
<1>3. Others(c) /\ txn'[c] = [at |-> txn[c].at, req |-> txn[c].req, seen |-> txn[c].seen, plan |-> plan, held |-> held]
  BY <1>1, <1>2, TakeTurn
<1> QED
  BY <1>2, <1>3 DEF Arrives

\* One step of connection c, and what it leaves to the others.
LEMMA IdentityFrame ==
    ASSUME TxnInv, IdentityInv, NEW c \in Clients, Others(c), DOMAIN locality' = Localities,
           \A d \in Clients : d # c => \A a : Own(a) \in txn[d].held /\ locality[a] # NoLocality => locality'[a] = locality[a],
           LocalityClaim(c)', \A d \in Clients : d # c => SwapFree(txn'[c], txn[d])
    PROVE  IdentityInv'
<1>1. ASSUME NEW d \in Clients, d # c PROVE LocalityClaim(d)'
  <2>1. txn'[d] = txn[d] /\ LocalityClaim(d)
    BY <1>1 DEF Others, IdentityInv
  <2>2. PICK a : a = txn[d].req.area
    OBVIOUS
  <2>3. Own(a) \in txn[d].held /\ locality[a] # NoLocality => locality'[a] = locality[a]
    BY <1>1
  <2> QED
    BY <2>1, <2>2, <2>3 DEF LocalityClaim, Own
<1>2. \A d \in Clients : LocalityClaim(d)'
  BY <1>1
<1>3. ASSUME NEW d \in Clients, NEW e \in Clients, d # e PROVE SwapFree(txn'[d], txn'[e])
  <2>1. CASE d # c /\ e # c
    BY <1>3, <2>1 DEF Others, IdentityInv
  <2>2. CASE d = c
    BY <1>3, <2>2 DEF Others
  <2>3. CASE e = c
    <3>1. SwapFree(txn'[c], txn'[d])
      BY <1>3, <2>3 DEF Others
    <3> QED
      BY <2>3, <3>1 DEF SwapFree
  <2> QED
    BY <2>1, <2>2, <2>3
<1> QED
  BY <1>2, <1>3 DEF IdentityInv

\* A step that leaves the localities alone.
LEMMA SameLocalities ==
    ASSUME TxnInv, IdentityInv, NEW c \in Clients, Others(c), UNCHANGED locality,
           LocalityClaim(c)', \A d \in Clients : d # c => SwapFree(txn'[c], txn[d])
    PROVE  IdentityInv'
  BY IdentityFrame DEF IdentityInv

LEMMA OtherIdentity ==
    ASSUME TxnInv, IdentityInv, NEW c \in Clients, Others(c), UNCHANGED locality, txn'[c].req.kind # "save_locality"
    PROVE  IdentityInv'
<1>1. LocalityClaim(c)'
  BY DEF LocalityClaim
<1>2. \A d \in Clients : SwapFree(txn'[c], txn[d])
  BY DEF SwapFree
<1> QED
  BY <1>1, <1>2, SameLocalities

\* A step outside "validate" and "store".
LEMMA EarlyIdentity ==
    ASSUME TxnInv, IdentityInv, NEW c \in Clients, Others(c), UNCHANGED locality, txn'[c].at \notin {"validate", "store"}
    PROVE  IdentityInv'
<1>1. LocalityClaim(c)'
  BY DEF LocalityClaim
<1>2. \A d \in Clients : SwapFree(txn'[c], txn[d])
  BY DEF SwapFree
<1> QED
  BY <1>1, <1>2, SameLocalities

LEMMA FinishIdentity ==
    ASSUME TxnInv, IdentityInv, NEW c \in Clients, Finish(c), UNCHANGED locality
    PROVE  IdentityInv'
<1>1. Others(c) /\ txn'[c] = Idle
  BY FinishTurn DEF TxnInv, Turn
<1>2. txn'[c].at = "idle"
  BY <1>1 DEF Idle
<1> QED
  BY <1>1, <1>2, EarlyIdentity

\* Locks are taken in the order of the plan.
LEMMA TakeIdentity ==
    ASSUME TxnInv, OrderInv, IdentityInv, NEW c \in Clients, TakeLock(c), UNCHANGED locality
    PROVE  IdentityInv'
<1>1. PICK t, u : t = txn[c] /\ u = txn'[c]
  OBVIOUS
<1>2. /\ Others(c) /\ t.plan # <<>>
      /\ u.at = t.at /\ u.req = t.req /\ u.seen = t.seen /\ u.plan = Tail(t.plan) /\ u.held = t.held \union {Head(t.plan)}
  BY <1>1, TakeArrives DEF Arrives, TakeLock
<1>3. \A lock : Awaits(t, lock) => Awaits(u, lock)
  BY <1>1, TakenAwaits DEF TxnInv, OrderInv, Orderly, Plans
<1>4. LocalityClaim(c)
  BY DEF IdentityInv
<1>5. LocalityClaim(c)'
  <2>1. SUFFICES ASSUME u.req.kind = "save_locality", u.at = "store" PROVE LocalityClaim(c)'
    BY <1>1, <1>2, <1>3, <1>4 DEF LocalityClaim
  <2>2. PICK x, y, own : x = Identity(t.seen.name) /\ y = Identity(t.req.name) /\ own = Own(t.req.area)
    OBVIOUS
  <2>3. /\ own \in t.held /\ locality[t.req.area] = t.seen.name /\ t.seen.name # NoLocality
        /\ t.plan \in {<<x, y>>, <<y>>}
        /\ \A k \in t.held : k.row[1] = "identity" => k = x
    BY <1>1, <1>2, <1>4, <2>1, <2>2 DEF LocalityClaim, Own
  <2>4. own \in u.held
    BY <1>2, <2>3
  <2>5. CASE t.plan = <<x, y>>
    <3>1. u.plan = <<y>> /\ u.held = t.held \union {x}
      BY <1>2, <2>5
    <3>2. Len(u.plan) # 2 /\ \A k \in u.held : k.row[1] = "identity" => k = x
      BY <2>3, <3>1
    <3> QED
      BY <1>1, <1>2, <2>1, <2>2, <2>3, <2>4, <3>1, <3>2 DEF LocalityClaim, Own
  <2>6. CASE t.plan = <<y>>
    <3>1. u.plan = <<>> /\ Len(u.plan) # 2
      BY <1>2, <2>6
    <3> QED
      BY <1>1, <1>2, <2>1, <2>2, <2>3, <2>4, <3>1 DEF LocalityClaim, Own
  <2> QED
    BY <2>3, <2>5, <2>6
<1>6. ASSUME NEW d \in Clients, d # c PROVE SwapFree(txn'[c], txn[d])
  <2>1. SwapFree(t, txn[d])
    BY <1>1, <1>6 DEF IdentityInv
  <2> QED
    BY <1>1, <1>2, <2>1 DEF SwapFree
<1> QED
  BY <1>2, <1>5, <1>6, SameLocalities

\* The form is sent, and compared.
LEMMA SendIdentity ==
    ASSUME TxnInv, IdentityInv, NEW c \in Clients, SendLocalityForm(c)
    PROVE  IdentityInv'
<1>1. PICK t, own, seen : /\ t = txn[c] /\ own = Own(t.req.area) /\ seen = [name |-> locality[t.req.area]]
                          /\ Continue(c, "validate", seen, <<own>>)
  BY DEF SendLocalityForm, Own
<1>2. /\ Others(c) /\ UNCHANGED locality /\ locality[t.req.area] # NoLocality
      /\ txn'[c].at = "validate" /\ txn'[c].seen = seen /\ txn'[c].plan = <<own>> /\ txn'[c].req = t.req
  BY <1>1, ContinueArrives DEF SendLocalityForm, Arrives, venueVars
<1>3. Awaits(txn'[c], own)
  BY <1>2, ShortPlans DEF Awaits
<1>4. seen.name # NoLocality
  BY <1>1, <1>2
<1>5. LocalityClaim(c)'
  BY <1>1, <1>2, <1>3, <1>4 DEF LocalityClaim, Own
<1>6. \A d \in Clients : SwapFree(txn'[c], txn[d])
  BY <1>2 DEF SwapFree
<1> QED
  BY <1>2, <1>5, <1>6, SameLocalities

LEMMA ValidateIdentity ==
    ASSUME TxnInv, OrderInv, IdentityInv, VenueRequests, NEW c \in Clients, ValidateLocality(c)
    PROVE  IdentityInv'
<1>1. CASE Finish(c)
  BY <1>1, FinishIdentity DEF ValidateLocality, venueVars
<1>2. CASE ~Finish(c)
  <2>1. PICK t, a, x, y : /\ t = txn[c] /\ a = t.req.area
                          /\ x = Identity(locality[a]) /\ y = Identity(t.req.name)
                          /\ Continue(c, "store", t.seen, <<x, y>>)
    BY <1>2 DEF ValidateLocality
  <2>2. /\ UNCHANGED locality /\ t.req.kind = "save_locality" /\ t.at = "validate" /\ t.plan = <<>>
        /\ t.seen.name = locality[a] /\ ~IdentityTaken(t.req.name, a)
    BY <2>1 DEF ValidateLocality, Ready, venueVars
  <2>3. /\ Others(c) /\ txn'[c].at = "store" /\ txn'[c].seen = t.seen /\ txn'[c].plan = <<x, y>>
        /\ txn'[c].req = t.req /\ txn'[c].held = t.held
    BY <2>1, ContinueArrives DEF Arrives
  <2>4. t.seen.name # NoLocality /\ Own(a) \in t.held
    <3>1. t.seen.name # NoLocality /\ Awaits(t, Own(a))
      BY <2>1, <2>2 DEF IdentityInv, LocalityClaim, Own
    <3> QED
      BY <2>2, <3>1, AwaitedIsHeld
  <2>5. \A k \in t.held : k.row[1] # "identity"
    BY <2>1, <2>2 DEF OrderInv, Orderly, Staged, Uses
  <2>6. <<x, y>> # <<>> /\ \A k \in t.held : k.row[1] = "identity" => k = x
    BY <2>5
  <2>7. LocalityClaim(c)'
    BY <2>1, <2>2, <2>3, <2>4, <2>5, <2>6 DEF LocalityClaim, Own
  <2>8. ASSUME NEW d \in Clients, d # c PROVE SwapFree(txn'[c], txn[d])
    <3>1. SUFFICES ASSUME txn[d].req.kind = "save_locality", txn[d].at = "store"
                   PROVE  txn[d].seen.name # t.req.name
      BY <2>3 DEF SwapFree
    <3>2. PICK b : b = txn[d].req.area /\ Own(b) \in txn[d].held /\ locality[b] = txn[d].seen.name
      BY <3>1 DEF IdentityInv, LocalityClaim, Own
    <3>3. b # a
      BY <2>1, <2>4, <2>8, <3>2, OwnFacts DEF TxnInv, LocksApart, Conflict
    <3>4. b \in Localities
      BY <3>1, <3>2 DEF VenueRequests, VenueRequest
    <3> QED
      BY <2>2, <3>2, <3>3, <3>4 DEF IdentityTaken
  <2> QED
    BY <2>2, <2>3, <2>7, <2>8, SameLocalities
<1> QED
  BY <1>1, <1>2

\* The localities change.
LEMMA InsertIdentity ==
    ASSUME TxnInv, IdentityInv, NEW c \in Clients, InsertLocality(c)
    PROVE  IdentityInv'
<1>1. PICK free : free = {a \in Localities : locality[a] = NoLocality}
  OBVIOUS
<1>2. PICK name, b : b = InOrder(free)[1] /\ free # {} /\ locality' = [locality EXCEPT ![b] = name]
  BY <1>1 DEF InsertLocality
<1>3. b \in free
  <2>1. free \in SUBSET Nat /\ IsFiniteSet(free)
    BY <1>1, VenueConstants, FS_Subset
  <2> QED
    BY <1>2, <2>1, FirstInOrder
<1>4. DOMAIN locality' = Localities /\ \A a : locality[a] # NoLocality => locality'[a] = locality[a]
  <2>1. DOMAIN locality' = Localities /\ \A a \in Localities : a # b => locality'[a] = locality[a]
    BY <1>2 DEF IdentityInv
  <2> QED
    BY <1>1, <1>2, <1>3, <2>1
<1>5. Others(c) /\ txn'[c] = Idle
  BY FinishTurn DEF TxnInv, Turn, InsertLocality
<1>6. txn'[c].at = "idle"
  BY <1>5 DEF Idle
<1>7. LocalityClaim(c)' /\ \A d \in Clients : SwapFree(txn'[c], txn[d])
  BY <1>6 DEF LocalityClaim, SwapFree
<1> QED
  BY <1>4, <1>5, <1>7, IdentityFrame

LEMMA StoreIdentity ==
    ASSUME TxnInv, IdentityInv, VenueRequests, NEW c \in Clients, StoreLocality(c)
    PROVE  IdentityInv'
<1>1. PICK b, name : /\ b = txn[c].req.area /\ name = txn[c].req.name /\ locality' = [locality EXCEPT ![b] = name]
                     /\ txn[c].req.kind = "save_locality" /\ txn[c].at = "store"
  BY DEF StoreLocality, Ready
<1>2. Own(b) \in txn[c].held
  BY <1>1 DEF IdentityInv, LocalityClaim, Own
<1>3. ASSUME NEW d \in Clients, d # c, NEW a, Own(a) \in txn[d].held PROVE a # b
  BY <1>2, <1>3, OwnFacts DEF TxnInv, LocksApart, Conflict
<1>4. DOMAIN locality' = Localities /\ \A a : a # b => locality'[a] = locality[a]
  BY <1>1 DEF IdentityInv
<1>5. Others(c) /\ txn'[c] = Idle
  BY FinishTurn DEF TxnInv, Turn, StoreLocality
<1>6. txn'[c].at = "idle"
  BY <1>5 DEF Idle
<1>7. LocalityClaim(c)' /\ \A d \in Clients : SwapFree(txn'[c], txn[d])
  BY <1>6 DEF LocalityClaim, SwapFree
<1> QED
  BY <1>3, <1>4, <1>5, <1>7, IdentityFrame

LEMMA VenueIdentity ==
    ASSUME TxnInv, OrderInv, IdentityInv, VenueRequests, NEW c \in Clients,
           (\E req \in workload : VenueStart(c, req)) \/ VenueStep(c)
    PROVE  IdentityInv'
<1>1. ASSUME NEW step, NEW seen, NEW plan, Continue(c, step, seen, plan), txn[c].req.kind # "save_locality",
             UNCHANGED locality
      PROVE  IdentityInv'
  <2>1. Others(c) /\ txn'[c].req = txn[c].req
    BY <1>1, ContinueArrives DEF Arrives
  <2> QED
    BY <1>1, <2>1, OtherIdentity
<1>2. ASSUME NEW req \in workload, NEW step, NEW plan, Begin(c, req, step, plan),
             req.kind # "save_locality" \/ step = "form", UNCHANGED locality
      PROVE  IdentityInv'
  <2>1. Others(c) /\ txn'[c].req = req /\ txn'[c].at = step
    BY <1>2, BeginArrives DEF Arrives
  <2> QED
    BY <1>2, <2>1, OtherIdentity, EarlyIdentity
<1>3. CASE \E req \in workload : VenueStart(c, req)
  <2>1. PICK req, step, plan :
           req \in workload /\ Begin(c, req, step, plan) /\ UNCHANGED locality /\ (req.kind # "save_locality" \/ step = "form")
    BY <1>3 DEF VenueStart, StartCreateVenue, StartUpdateVenue, StartRename, OpenVenueForm, StartCreateLocality, venueVars
  <2> QED
    BY <1>2, <2>1
<1>4. CASE CheckNewVenue(c)
  BY <1>1, <1>4 DEF CheckNewVenue, Ready, venueVars
<1>5. CASE LockNameRegistry(c) \/ CheckNewName(c)
  BY <1>1, <1>5 DEF LockNameRegistry, CheckNewName, Ready, venueVars
<1>6. CASE SendVenueForm(c)
  BY <1>1, <1>6 DEF SendVenueForm, FormKinds, Ready, venueVars
<1>7. CASE ValidatePlace(c)
  BY <1>1, <1>7 DEF ValidatePlace, Ready, venueVars
<1>8. CASE CheckNewLocality(c)
  BY <1>1, <1>8 DEF CheckNewLocality, Ready, venueVars
<1>9. CASE InsertVenue(c) \/ StoreVenueKind(c) \/ StoreRename(c) \/ StorePlace(c) \/ SaveMapLink(c) \/ DeleteMapLink(c)
  <2>1. Finish(c) /\ UNCHANGED locality
    BY <1>9 DEF InsertVenue, StoreVenueKind, StoreRename, StorePlace, SaveMapLink, DeleteMapLink
  <2> QED
    BY <2>1, FinishIdentity
<1> QED
  BY <1>3, <1>4, <1>5, <1>6, <1>7, <1>8, <1>9, SendIdentity, ValidateIdentity, InsertIdentity, StoreIdentity DEF VenueStep

LEMMA IdentityStep ==
    ASSUME VenueInv, OrderInv, IdentityInv, [Next]_vars
    PROVE  IdentityInv'
<1>1. TxnInv /\ VenueRequests /\ TxnType
  BY DEF VenueInv, TxnInv
<1>2. ASSUME NEW c \in Clients, LivesNext(c) \/ CollectionsNext(c) \/ SongsNext(c) PROVE IdentityInv'
  <2>1. PICK kinds : Turn(c) /\ OfKinds(txn'[c], kinds) /\ "save_locality" \notin kinds
    <3>1. CASE CollectionsNext(c)
      <4>1. Turn(c) /\ OfKinds(txn'[c], CollectionKinds)
        BY <1>1, <3>1, CollectionTurn DEF CollectionsNext
      <4> QED
        BY <4>1 DEF CollectionKinds
    <3>2. CASE LivesNext(c)
      <4>1. Turn(c) /\ OfKinds(txn'[c], AllLiveKinds)
        BY <1>1, <3>2, LiveTurn DEF LivesNext
      <4> QED
        BY <4>1 DEF AllLiveKinds, LiveKinds, FavoriteKinds, SetlistKinds
    <3>3. CASE SongsNext(c)
      <4>1. Turn(c) /\ OfKinds(txn'[c], SongKinds)
        BY <1>1, <3>3, SongTurn DEF SongsNext
      <4> QED
        BY <4>1 DEF SongKinds, SongForms
    <3> QED
      BY <1>2, <3>1, <3>2, <3>3
  <2>2. UNCHANGED locality
    BY <1>2 DEF LivesNext, CollectionsNext, SongsNext, venueVars
  <2> QED
    BY <1>1, <2>1, <2>2, OtherIdentity DEF OfKinds, Turn
<1>3. ASSUME NEW c \in Clients, VenuesNext(c) PROVE IdentityInv'
  BY <1>1, <1>3, VenueIdentity DEF VenuesNext
<1>4. ASSUME NEW c \in Clients, DatabaseNext(c) PROVE IdentityInv'
  BY <1>1, <1>4, TakeIdentity, FinishIdentity DEF DatabaseNext, RollBack, venueVars
<1>5. CASE UNCHANGED vars
  BY <1>5 DEF vars, txnVars, venueVars, IdentityInv, LocalityClaim
<1> QED
  BY <1>2, <1>3, <1>4, <1>5 DEF Next

----------------------------------------------------------------------------
\* The relations of tours and groups.
LEMMA RowLockFacts == \A req : RowLock(req).mode = "update" /\ RowLock(req).row = <<Family(req), req.id>>
  BY LockFields DEF RowLock

\* Two requests about one row do not both insert.
LEMMA RowsApart ==
    ASSUME TxnInv, SlotInv, NEW c \in Clients, NEW d \in Clients, c # d, Inserting(c), Inserting(d),
           Family(txn[c].req) = Family(txn[d].req), txn[c].req.id # 0
    PROVE  txn[c].req.id # txn[d].req.id
<1>1. SUFFICES ASSUME txn[c].req.id = txn[d].req.id PROVE FALSE
  OBVIOUS
<1>2. PICK h, k : h = RowLock(txn[c].req) /\ k = RowLock(txn[d].req)
  OBVIOUS
<1>3. h \in txn[c].held /\ k \in txn[d].held
  BY <1>1, <1>2 DEF SlotInv, SlotClaim
<1>4. h.row = k.row /\ h.mode = "update"
  BY <1>1, <1>2, RowLockFacts
<1> QED
  BY <1>3, <1>4 DEF TxnInv, LocksApart, Conflict

\* One step of connection c, and what it leaves to the others.
KeepsRows(c) ==
    \A d \in Clients : d # c /\ Inserting(d) /\ txn[d].req.id # 0 =>
        collection'[Family(txn[d].req)][txn[d].req.id] = collection[Family(txn[d].req)][txn[d].req.id]

LEMMA KeptReplaced ==
    ASSUME NEW c \in Clients, Others(c), KeepsRows(c), NEW d \in Clients, d # c, Inserting(d)
    PROVE  Replaced(txn[d])' = Replaced(txn[d])
  BY DEF Others, KeepsRows, Replaced

LEMMA SlotFrame ==
    ASSUME SlotInv, NEW c \in Clients, Others(c), KeepsRows(c), SlotClaim(c)',
           \A d \in Clients : d # c => Disjoint(c, d)'
    PROVE  SlotInv'
<1>1. ASSUME NEW d \in Clients, d # c PROVE SlotClaim(d)'
  <2>1. txn'[d] = txn[d] /\ SlotClaim(d)
    BY <1>1 DEF Others, SlotInv
  <2>2. Inserting(d)' <=> Inserting(d)
    BY <2>1 DEF Inserting
  <2>3. CASE ~Inserting(d)
    BY <2>1, <2>2, <2>3 DEF SlotClaim
  <2>4. CASE Inserting(d)
    <3>1. Replaced(txn[d])' = Replaced(txn[d])
      BY <1>1, <2>4, KeptReplaced
    <3>2. Added(txn[d])' = Added(txn[d]) /\ Wanted(txn[d])' = Wanted(txn[d])
      BY <2>1 DEF Added, Wanted
    <3>3. txn[d].req.id # 0 => collection'[Family(txn[d].req)][txn[d].req.id] = collection[Family(txn[d].req)][txn[d].req.id]
      BY <1>1, <2>4 DEF KeepsRows
    <3> QED
      BY <2>1, <2>2, <2>4, <3>1, <3>2, <3>3 DEF SlotClaim
  <2> QED
    BY <2>3, <2>4
<1>2. ASSUME NEW d \in Clients, NEW e \in Clients, d # e, d # c, e # c PROVE Disjoint(d, e)'
  <2>1. txn'[d] = txn[d] /\ txn'[e] = txn[e] /\ Disjoint(d, e)
    BY <1>2 DEF Others, SlotInv
  <2>2. SUFFICES ASSUME Inserting(d), Inserting(e) PROVE Disjoint(d, e)'
    BY <2>1 DEF Disjoint, Inserting
  <2>3. Replaced(txn[d])' = Replaced(txn[d]) /\ Replaced(txn[e])' = Replaced(txn[e])
    BY <1>2, <2>2, KeptReplaced
  <2> QED
    BY <2>1, <2>2, <2>3 DEF Disjoint
<1>3. ASSUME NEW d \in Clients, d # c PROVE Disjoint(d, c)'
  <2>1. Disjoint(c, d)'
    BY <1>3
  <2> QED
    BY <2>1 DEF Disjoint
<1> QED
  BY <1>1, <1>2, <1>3 DEF SlotInv

\* A step of a request that does not insert, or ends.
LEMMA SlotsAside ==
    ASSUME SlotInv, NEW c \in Clients, Others(c), KeepsRows(c), ~Inserting(c)',
           txn'[c].req.kind \in CollectionKinds /\ txn'[c].req.id # 0 => Awaits(txn'[c], RowLock(txn'[c].req))
    PROVE  SlotInv'
<1>1. SlotClaim(c)'
  BY DEF SlotClaim
<1>2. \A d \in Clients : Disjoint(c, d)'
  BY DEF Disjoint
<1> QED
  BY <1>1, <1>2, SlotFrame

LEMMA SlotsOfOthers ==
    ASSUME SlotInv, NEW c \in Clients, Others(c), UNCHANGED collection, txn'[c].req.kind \notin CollectionKinds
    PROVE  SlotInv'
  BY SlotsAside DEF KeepsRows, Inserting

LEMMA SlotsFinish ==
    ASSUME TxnInv, SlotInv, NEW c \in Clients, Finish(c), KeepsRows(c)
    PROVE  SlotInv'
<1>1. Others(c) /\ txn'[c] = Idle
  BY FinishTurn DEF TxnInv, Turn
<1>2. txn'[c].req.kind \notin CollectionKinds
  BY <1>1 DEF Idle, NoRequest, CollectionKinds
<1> QED
  BY <1>1, <1>2, SlotsAside DEF Inserting

LEMMA SlotsStart ==
    ASSUME TxnInv, SlotInv, CollectionRequests, NEW c \in Clients, NEW req \in workload, CollectionStart(c, req)
    PROVE  SlotInv'
<1>1. PICK plan : /\ Begin(c, req, "validate", plan) /\ req.kind \in CollectionKinds
                  /\ plan = <<RowLock(req)>> \/ req.kind \in {"create_tour", "create_performance_group"}
  BY DEF CollectionStart, StartCreateCollection, StartUpdateCollection, CollectionKinds, RowLock
<1>2. Others(c) /\ Arrives(txn'[c], "validate", req, <<>>, plan, {})
  BY <1>1, BeginArrives
<1>3. txn'[c].at = "validate" /\ txn'[c].req = req /\ txn'[c].plan = plan
  BY <1>2 DEF Arrives
<1>4. ~Inserting(c)'
  BY <1>3 DEF Inserting
<1>5. req.id # 0 => plan = <<RowLock(req)>>
  BY <1>1 DEF CollectionRequests, CollectionRequest
<1>6. req.id # 0 => Awaits(txn'[c], RowLock(txn'[c].req))
  BY <1>3, <1>5, ShortPlans DEF Awaits
<1>7. KeepsRows(c)
  BY DEF KeepsRows, CollectionStart, StartCreateCollection, StartUpdateCollection
<1> QED
  BY <1>2, <1>3, <1>4, <1>6, <1>7, SlotsAside

\* Taking a slot.
LEMMA TakenSlots ==
    ASSUME NEW plan, Listed(plan), plan # <<>>, NEW held, NEW f, NEW old, NEW more, NEW wanted,
           SlotPlan(plan, f, old, wanted), SlotsTaken(held, plan, f, old \union more, wanted)
    PROVE  /\ SlotPlan(Tail(plan), f, old, wanted)
           /\ SlotsTaken(held \union {Head(plan)}, Tail(plan), f, old \union more, wanted)
<1>1. PICK rest, k : rest = Tail(plan) /\ k = Head(plan)
  OBVIOUS
<1>2. /\ k = plan[1] /\ 1 \in DOMAIN plan
      /\ \A i \in DOMAIN rest : i \in Nat \ {0} /\ i + 1 \in DOMAIN plan /\ rest[i] = plan[i + 1]
  BY <1>1, TakenPlan
<1>3. ASSUME NEW i \in DOMAIN rest, rest[i].row[1] = "slot", ~\E l \in old : rest[i] = Slot(f, l)
      PROVE  rest[i] = Slot(f, wanted) /\ \A j \in DOMAIN rest : i < j => rest[j].row[1] # "slot"
  <2>1. plan[i + 1] = rest[i] /\ i + 1 \in DOMAIN plan
    BY <1>2
  <2>2. plan[i + 1] = Slot(f, wanted) /\ \A j \in DOMAIN plan : i + 1 < j => plan[j].row[1] # "slot"
    BY <1>3, <2>1 DEF SlotPlan
  <2>3. ASSUME NEW j \in DOMAIN rest, i < j PROVE rest[j].row[1] # "slot"
    <3>1. i + 1 < j + 1
      BY <1>2, <2>3
    <3> QED
      BY <1>2, <2>2, <3>1
  <2> QED
    BY <2>1, <2>2, <2>3
<1>4. SlotPlan(rest, f, old, wanted)
  BY <1>3 DEF SlotPlan
<1>5. \A i \in DOMAIN rest : \E j \in DOMAIN plan : 1 < j /\ rest[i] = plan[j]
  <2>1. ASSUME NEW i \in DOMAIN rest PROVE 1 < i + 1 /\ i + 1 \in DOMAIN plan /\ rest[i] = plan[i + 1]
    BY <1>2
  <2> QED
    BY <2>1
<1>6. k.row[1] = "slot" =>
         \/ \E l \in old : k = Slot(f, l)
         \/ k = Slot(f, wanted) /\ \A i \in DOMAIN rest : rest[i].row[1] # "slot"
  BY <1>2, <1>5 DEF SlotPlan
<1>7. ASSUME NEW h \in held, h.row[1] = "slot"
      PROVE  \/ \E l \in old \union more : h = Slot(f, l)
             \/ h = Slot(f, wanted) /\ \A i \in DOMAIN rest : rest[i].row[1] # "slot"
  BY <1>5, <1>7 DEF SlotsTaken
<1>8. SlotsTaken(held \union {k}, rest, f, old \union more, wanted)
  BY <1>6, <1>7 DEF SlotsTaken
<1> QED
  BY <1>1, <1>4, <1>8

LEMMA SlotsTake ==
    ASSUME TxnInv, OrderInv, SlotInv, NEW c \in Clients, TakeLock(c), UNCHANGED collection
    PROVE  SlotInv'
<1>1. PICK t, u : t = txn[c] /\ u = txn'[c]
  OBVIOUS
<1>2. /\ Others(c) /\ t.plan # <<>>
      /\ u.at = t.at /\ u.req = t.req /\ u.seen = t.seen /\ u.plan = Tail(t.plan) /\ u.held = t.held \union {Head(t.plan)}
  BY <1>1, TakeArrives DEF Arrives, TakeLock
<1>3. \A lock : Awaits(t, lock) => Awaits(u, lock)
  BY <1>1, TakenAwaits DEF TxnInv, OrderInv, Orderly, Plans
<1>4. SlotClaim(c) /\ (Inserting(c)' <=> Inserting(c))
  BY <1>1, <1>2 DEF SlotInv, Inserting
<1>5. /\ Replaced(u)' = Replaced(t) /\ Added(u) = Added(t) /\ Wanted(u) = Wanted(t)
  BY <1>2 DEF Replaced, Added, Wanted
<1>6. Inserting(c) =>
         /\ SlotPlan(u.plan, Family(t.req), Replaced(t), Wanted(t))
         /\ SlotsTaken(u.held, u.plan, Family(t.req), Replaced(t) \union Added(t), Wanted(t))
  <2>1. PICK f, old, more, wanted : f = Family(t.req) /\ old = Replaced(t) /\ more = Added(t) /\ wanted = Wanted(t)
    OBVIOUS
  <2>2. PICK plan, held : plan = t.plan /\ held = t.held
    OBVIOUS
  <2>3. Listed(plan) /\ plan # <<>>
    BY <1>1, <1>2, <2>2 DEF OrderInv, Orderly, Plans
  <2>4. SUFFICES ASSUME Inserting(c)
                 PROVE  SlotPlan(u.plan, f, old, wanted) /\ SlotsTaken(u.held, u.plan, f, old \union more, wanted)
    BY <2>1
  <2>5. SlotPlan(plan, f, old, wanted) /\ SlotsTaken(held, plan, f, old \union more, wanted)
    BY <1>1, <1>4, <2>1, <2>2, <2>4 DEF SlotClaim
  <2>6. SlotPlan(Tail(plan), f, old, wanted) /\ SlotsTaken(held \union {Head(plan)}, Tail(plan), f, old \union more, wanted)
    BY <2>3, <2>5, TakenSlots
  <2> QED
    BY <1>2, <2>2, <2>6
<1>7. SlotClaim(c)'
  BY <1>1, <1>2, <1>3, <1>4, <1>5, <1>6 DEF SlotClaim
<1>8. ASSUME NEW d \in Clients, d # c PROVE Disjoint(c, d)'
  <2>1. Disjoint(c, d) /\ txn'[d] = txn[d]
    BY <1>2, <1>8 DEF SlotInv, Others
  <2>2. Replaced(txn[d])' = Replaced(txn[d]) /\ (Inserting(d)' <=> Inserting(d))
    BY <2>1 DEF Replaced, Inserting
  <2> QED
    BY <1>1, <1>2, <1>4, <1>5, <2>1, <2>2 DEF Disjoint
<1>9. KeepsRows(c)
  BY DEF KeepsRows
<1> QED
  BY <1>2, <1>7, <1>8, <1>9, SlotFrame

----------------------------------------------------------------------------
\* The locks of the first insert, and of the next one.
LEMMA RelationSlots ==
    ASSUME NEW f, NEW l, NEW old
    PROVE  SlotPlan(RelationLocks(f, l), f, old, l)
<1>1. PICK a, b, plan : a = Slot(f, l) /\ b = LiveKey(l) /\ plan = RelationLocks(f, l) /\ plan = <<a, b>>
  BY DEF RelationLocks
<1>2. DOMAIN plan = 1..2 /\ plan[1] = a /\ plan[2] = b
  BY <1>1
<1>3. b.row[1] # "slot"
  BY <1>1, SlotFacts
<1>4. ASSUME NEW i \in DOMAIN plan, plan[i].row[1] = "slot"
      PROVE  plan[i] = a /\ \A j \in DOMAIN plan : i < j => plan[j].row[1] # "slot"
  <2>1. i = 1 \/ i = 2
    BY <1>2
  <2>2. i = 1
    BY <1>2, <1>3, <1>4, <2>1
  <2>3. \A j \in DOMAIN plan : i < j => j = 2
    BY <1>2, <2>2
  <2> QED
    BY <1>2, <1>3, <2>2, <2>3
<1> QED
  BY <1>1, <1>4 DEF SlotPlan

OldSlots(plan, f, old) == \A i \in DOMAIN plan : plan[i].row[1] = "slot" => \E l \in old : plan[i] = Slot(f, l)

LEMMA JoinedSlots ==
    ASSUME NEW p, NEW q, NEW joined, Listed(p), Listed(q), joined = p \o q, NEW f, NEW old, NEW l,
           OldSlots(p, f, old), SlotPlan(q, f, old, l)
    PROVE  SlotPlan(joined, f, old, l)
<1>1. Joins(p, q, joined)
  BY JoinedPlans
<1>2. /\ Len(p) \in Nat /\ DOMAIN p = 1..Len(p)
      /\ \A i \in DOMAIN p : i \in DOMAIN joined /\ joined[i] = p[i]
      /\ \A i \in DOMAIN q : i + Len(p) \in DOMAIN joined /\ joined[i + Len(p)] = q[i]
      /\ \A i \in DOMAIN joined : i \in DOMAIN p \/ (i \in Nat /\ Len(p) < i /\ i - Len(p) \in DOMAIN q)
  BY <1>1 DEF Joins
<1>3. ASSUME NEW i \in DOMAIN joined, joined[i].row[1] = "slot", ~\E m \in old : joined[i] = Slot(f, m)
      PROVE  joined[i] = Slot(f, l) /\ \A j \in DOMAIN joined : i < j => joined[j].row[1] # "slot"
  <2>1. i \notin DOMAIN p
    BY <1>2, <1>3 DEF OldSlots
  <2>2. PICK n : n = i - Len(p) /\ n \in DOMAIN q /\ i \in Nat /\ Len(p) < i /\ i = n + Len(p)
    BY <1>2, <2>1
  <2>3. joined[i] = q[n]
    BY <1>2, <2>2
  <2>4. q[n] = Slot(f, l) /\ \A j \in DOMAIN q : n < j => q[j].row[1] # "slot"
    BY <1>3, <2>2, <2>3 DEF SlotPlan
  <2>5. ASSUME NEW j \in DOMAIN joined, i < j PROVE joined[j].row[1] # "slot"
    <3>1. j \notin DOMAIN p
      BY <1>2, <2>2, <2>5
    <3>2. PICK m : m = j - Len(p) /\ m \in DOMAIN q /\ j = m + Len(p) /\ j \in Nat
      BY <1>2, <3>1
    <3>3. n < m /\ joined[j] = q[m]
      BY <1>2, <2>2, <2>5, <3>2
    <3> QED
      BY <2>4, <3>2, <3>3
  <2> QED
    BY <2>3, <2>4, <2>5
<1> QED
  BY <1>3 DEF SlotPlan

LEMMA InsertSlots ==
    ASSUME CollectionState, NEW req, req.kind \in CollectionKinds, req.id \in CollectionIds \union {0}, NEW keys, Listed(keys),
           \A i \in DOMAIN keys : keys[i].row[1] # "slot", NEW l, NEW f, f = Family(req), NEW old,
           req.id # 0 => old = collection[f][req.id].lives
    PROVE  SlotPlan(DroppedSlots(f, req.id) \o keys \o RelationLocks(f, l), f, old, l)
<1>1. PICK p, q, first : p = DroppedSlots(f, req.id) /\ q = RelationLocks(f, l) /\ first = p \o keys /\ f \in Families
  BY FamilyFacts
<1>2. \A i \in DOMAIN p : \E m \in old : p[i] = Slot(f, m)
  BY <1>1, DroppedPlan
<1>3. Listed(p) /\ Listed(q) /\ SlotPlan(q, f, old, l)
  BY <1>1, DroppedListed, RelationListed, RelationSlots
<1>4. Joins(p, keys, first)
  BY <1>1, <1>3, JoinedPlans
<1>5. ASSUME NEW i \in DOMAIN first, first[i].row[1] = "slot" PROVE \E m \in old : first[i] = Slot(f, m)
  <2>1. CASE i \in DOMAIN p
    <3>1. first[i] = p[i]
      BY <1>4, <2>1 DEF Joins
    <3> QED
      BY <1>2, <2>1, <3>1
  <2>2. CASE i \notin DOMAIN p
    <3>1. PICK n : n = i - Len(p) /\ n \in DOMAIN keys /\ i \in Nat /\ i = n + Len(p) /\ first[n + Len(p)] = keys[n]
      BY <1>4, <2>2 DEF Joins
    <3> QED
      BY <1>5, <3>1
  <2> QED
    BY <2>1, <2>2
<1>6. Listed(first)
  BY <1>4 DEF Joins
<1>7. PICK joined : joined = first \o q
  OBVIOUS
<1>8. SlotPlan(joined, f, old, l)
  <2>1. OldSlots(first, f, old)
    BY <1>5 DEF OldSlots
  <2> QED
    BY <1>3, <1>6, <1>7, <2>1, JoinedSlots
<1> QED
  BY <1>1, <1>7, <1>8

\* The request is compared with the relations, and deletes its own.
LEMMA SlotsValidate ==
    ASSUME CollectionInv, OrderInv, SlotInv, live \in [Lives -> LiveRow], NEW c \in Clients,
           ValidateTour(c) \/ ValidateGroup(c)
    PROVE  SlotInv'
<1>1. PICK req, f, order, held : /\ req = txn[c].req /\ f = Family(req) /\ order = CanonicalOrder(req.lives)
                                 /\ held = txn[c].held
  OBVIOUS
<1>2. /\ req.kind \in CollectionKinds /\ txn[c].at = "validate" /\ txn[c].plan = <<>> /\ RelationsAllowed(req)
      /\ UNCHANGED collection
  BY <1>1 DEF ValidateTour, ValidateGroup, Ready, CollectionKinds
<1>3. /\ req.lives \in SUBSET Lives /\ req.lives # {} /\ req.id \in CollectionIds \union {0} /\ IsFiniteSet(req.bands)
      /\ CollectionState /\ TxnInv /\ f \in Families
  BY <1>1, <1>2, FamilyFacts DEF CollectionInv, CollectionRequests, CollectionRequest
<1>4. PICK keys : BeginInserts(c, order, keys) /\ keys \in {<<>>, BandKeys(req.bands)}
  BY <1>1 DEF ValidateTour, ValidateGroup
<1>5. Listed(keys) /\ \A i \in DOMAIN keys : keys[i].row[1] # "slot"
  <2>1. \A b : BandKey(b).row[1] = "band"
    BY LockFields, RowFields DEF BandKey
  <2>2. CASE keys = <<>>
    BY <2>2, ShortPlans
  <2>3. CASE keys = BandKeys(req.bands)
    <3>1. Listed(keys) /\ \A i \in DOMAIN keys : \E b : keys[i] = BandKey(b)
      BY <1>2, <1>3, <2>3, BandKeysPlan, BandKeysListed
    <3> QED
      BY <2>1, <3>1
  <2> QED
    BY <1>4, <2>2, <2>3
<1>6. /\ order \in Seq(Lives) /\ req.lives \subseteq Range(order) /\ Range(order) \subseteq req.lives
  BY <1>1, <1>3, CanonicalFacts
<1>7. 1 \in DOMAIN order
  <2>1. PICK i : i \in DOMAIN order
    BY <1>3, <1>6 DEF Range
  <2>2. DOMAIN order = 1..Len(order) /\ Len(order) \in Nat
    BY <1>6
  <2> QED
    BY <2>1, <2>2
<1>8. PICK old, seen, plan : /\ old = Replaced(txn[c]) /\ seen = [order |-> order, next |-> 1]
                             /\ plan = DroppedSlots(f, req.id) \o keys \o RelationLocks(f, order[1])
  OBVIOUS
<1>9. req.id # 0 => old = collection[f][req.id].lives
  BY <1>1, <1>8 DEF Replaced
<1>10. SlotPlan(plan, f, old, order[1])
  BY <1>1, <1>2, <1>3, <1>5, <1>8, <1>9, InsertSlots
<1>11. Continue(c, "insert", seen, plan)
  BY <1>1, <1>4, <1>8 DEF BeginInserts
<1>12. Others(c) /\ Arrives(txn'[c], "insert", req, seen, plan, held)
  BY <1>1, <1>3, <1>11, ContinueArrives
<1>13. PICK u : /\ u = txn'[c] /\ u.at = "insert" /\ u.req = req /\ u.seen = seen /\ u.plan = plan /\ u.held = held
                /\ u.seen.order = order /\ u.seen.next = 1
  BY <1>8, <1>12 DEF Arrives
<1>14. /\ Replaced(u)' = old /\ Wanted(u) = order[1] /\ (req.id # 0 => collection'[f][req.id] # NoCollection)
  BY <1>1, <1>2, <1>8, <1>13 DEF Replaced, Wanted, RelationsAllowed
<1>15. \A k \in held : k.row[1] # "slot"
  BY <1>1, <1>2 DEF OrderInv, Orderly, Staged, Uses
<1>16. req.id # 0 => RowLock(req) \in held
  <2>1. req.id # 0 => Awaits(txn[c], RowLock(req))
    BY <1>1, <1>2 DEF SlotInv, SlotClaim
  <2> QED
    BY <1>1, <1>2, <2>1, AwaitedIsHeld
<1>17. SlotsTaken(held, plan, f, old \union Added(u), Wanted(u))
  BY <1>15 DEF SlotsTaken
<1>18. Awaits(u, RowLock(req)) \/ req.id = 0
  BY <1>13, <1>16 DEF Awaits
<1>19. Added(u)' = Added(u) /\ Wanted(u)' = Wanted(u)
  BY <1>13 DEF Added, Wanted
<1>20. SlotClaim(c)'
  BY <1>1, <1>6, <1>7, <1>10, <1>13, <1>14, <1>16, <1>17, <1>18, <1>19 DEF SlotClaim
<1>21. ASSUME NEW d \in Clients, d # c PROVE Disjoint(c, d)'
  <2>1. txn'[d] = txn[d]
    BY <1>12, <1>21 DEF Others
  <2>2. SUFFICES ASSUME Inserting(d), Family(txn[d].req) = f PROVE req.lives \cap Replaced(txn[d]) = {}
    <3>1. Replaced(txn[d])' = Replaced(txn[d]) /\ (Inserting(d)' <=> Inserting(d))
      BY <1>2, <2>1 DEF Replaced, Inserting
    <3>2. txn'[c].req = req /\ f = Family(txn'[c].req)
      BY <1>1, <1>13
    <3> QED
      BY <2>1, <3>1, <3>2 DEF Disjoint
  <2>3. CASE txn[d].req.id = 0
    BY <2>3 DEF Replaced
  <2>4. CASE txn[d].req.id # 0
    <3>1. PICK n : n = txn[d].req.id /\ Replaced(txn[d]) = collection[f][n].lives
      BY <2>2, <2>4 DEF Replaced
    <3>2. n \in CollectionIds
      BY <2>2, <2>4, <3>1 DEF Inserting, CollectionInv, CollectionRequests, CollectionRequest
    <3>3. n # req.id
      <4>1. SUFFICES ASSUME n = req.id PROVE FALSE
        OBVIOUS
      <4>2. PICK h, k : h = RowLock(req) /\ k = RowLock(txn[d].req)
        OBVIOUS
      <4>3. h.row = k.row /\ h.mode = "update"
        BY <1>1, <2>2, <3>1, <4>1, <4>2, RowLockFacts
      <4>4. h \in txn[c].held /\ k \in txn[d].held
        BY <1>1, <1>16, <2>2, <2>4, <3>1, <4>1, <4>2 DEF SlotInv, SlotClaim
      <4> QED
        BY <1>3, <1>21, <4>3, <4>4 DEF TxnInv, LocksApart, Conflict
    <3>4. \A l \in req.lives : l \notin collection[f][n].lives
      BY <1>1, <1>2, <3>2, <3>3 DEF RelationsAllowed, Owners
    <3> QED
      BY <3>1, <3>4
  <2> QED
    BY <2>3, <2>4
<1>22. KeepsRows(c)
  BY <1>2 DEF KeepsRows
<1> QED
  BY <1>12, <1>20, <1>21, <1>22, SlotFrame

\* The next relation.
LEMMA SlotsInsert ==
    ASSUME CollectionInv, SlotInv, NEW c \in Clients, InsertRelation(c)
    PROVE  SlotInv'
<1>1. PICK req, f, order, next, held : /\ req = txn[c].req /\ f = Family(req) /\ order = txn[c].seen.order
                                       /\ next = txn[c].seen.next /\ held = txn[c].held
  OBVIOUS
<1>2. /\ req.kind \in CollectionKinds /\ txn[c].at = "insert" /\ txn[c].plan = <<>> /\ next < Len(order)
      /\ UNCHANGED collection /\ Inserting(c)
  BY <1>1 DEF InsertRelation, Ready, Inserting
<1>3. /\ txn[c].seen = [order |-> order, next |-> next] /\ next \in Nat \ {0} /\ order \in Seq(Lives)
  BY <1>1, <1>2 DEF CollectionInv, RelationsSound
<1>4. SlotClaim(c)
  BY DEF SlotInv
<1>5. PICK seen, plan : seen = [order |-> order, next |-> next + 1] /\ plan = RelationLocks(f, order[next + 1])
  OBVIOUS
<1>6. Continue(c, "insert", seen, plan)
  BY <1>1, <1>3, <1>5 DEF InsertRelation
<1>7. Others(c) /\ Arrives(txn'[c], "insert", req, seen, plan, held)
  BY <1>1, <1>6, ContinueArrives DEF CollectionInv
<1>8. PICK u : /\ u = txn'[c] /\ u.at = "insert" /\ u.req = req /\ u.seen = seen /\ u.plan = plan /\ u.held = held
               /\ u.seen.order = order /\ u.seen.next = next + 1
  BY <1>5, <1>7 DEF Arrives
<1>9. PICK old, added : old = Replaced(txn[c]) /\ added = Added(u)
  OBVIOUS
<1>10. Replaced(u)' = old /\ Wanted(u) = order[next + 1] /\ Added(u)' = added /\ Wanted(u)' = Wanted(u)
  BY <1>1, <1>2, <1>8, <1>9 DEF Replaced, Wanted, Added
<1>11. Added(txn[c]) \union {Wanted(txn[c])} \subseteq added
  <2>1. \A i \in 1..next : order[i] \in added
    <3>1. u.seen.next - 1 = next
      BY <1>3, <1>8
    <3> QED
      BY <1>8, <1>9, <3>1 DEF Added
  <2>2. Added(txn[c]) = {order[i] : i \in 1..next - 1} /\ Wanted(txn[c]) = order[next]
    BY <1>1 DEF Added, Wanted
  <2>3. next \in 1..next /\ 1..next - 1 \subseteq 1..next
    BY <1>3
  <2> QED
    BY <2>1, <2>2, <2>3
<1>12. SlotsTaken(held, txn[c].plan, f, old \union Added(txn[c]), Wanted(txn[c]))
  BY <1>1, <1>2, <1>4, <1>9 DEF SlotClaim
<1>13. SlotsTaken(held, plan, f, old \union added, Wanted(u))
  <2>1. ASSUME NEW k \in held, k.row[1] = "slot" PROVE \E l \in old \union added : k = Slot(f, l)
    <3>1. (\E l \in old \union Added(txn[c]) : k = Slot(f, l)) \/ k = Slot(f, Wanted(txn[c]))
      BY <1>12, <2>1 DEF SlotsTaken
    <3> QED
      BY <1>11, <3>1
  <2> QED
    BY <2>1 DEF SlotsTaken
<1>14. SlotPlan(plan, f, old, Wanted(u))
  BY <1>5, <1>10, RelationSlots
<1>15. next + 1 \in DOMAIN order
  BY <1>2, <1>3
<1>16. (req.id # 0 => Awaits(u, RowLock(req)) /\ RowLock(req) \in held /\ collection'[f][req.id] # NoCollection)
       /\ Range(order) \subseteq req.lives
  BY <1>1, <1>2, <1>4, <1>8 DEF SlotClaim, Awaits
<1>17. SlotClaim(c)'
  BY <1>1, <1>8, <1>10, <1>13, <1>14, <1>15, <1>16 DEF SlotClaim
<1>18. ASSUME NEW d \in Clients, d # c PROVE Disjoint(c, d)'
  <2>1. Disjoint(c, d) /\ txn'[d] = txn[d]
    BY <1>7, <1>18 DEF SlotInv, Others
  <2>2. Replaced(txn[d])' = Replaced(txn[d]) /\ (Inserting(d)' <=> Inserting(d))
    BY <1>2, <2>1 DEF Replaced, Inserting
  <2> QED
    BY <1>1, <1>2, <1>8, <1>9, <1>10, <2>1, <2>2 DEF Disjoint
<1>19. KeepsRows(c)
  BY <1>2 DEF KeepsRows
<1> QED
  BY <1>7, <1>17, <1>18, <1>19, SlotFrame

\* The commit changes no row that another request inserts for.
LEMMA SlotsStore ==
    ASSUME CollectionInv, SlotInv, NEW c \in Clients, StoreCollection(c)
    PROVE  SlotInv'
<1>1. PICK req, f, free, n, new :
         /\ req = txn[c].req /\ f = Family(req) /\ free = {k \in CollectionIds : collection[f][k] = NoCollection}
         /\ n = IF req.id = 0 THEN InOrder(free)[1] ELSE req.id
         /\ new = [lives |-> req.lives, bands |-> req.bands]
  OBVIOUS
<1>2. /\ req.id = 0 => free # {}
      /\ collection' = [collection EXCEPT ![f][n] = new] /\ Finish(c) /\ Inserting(c)
  BY <1>1 DEF StoreCollection, Ready, Inserting
<1>3. collection \in [Families -> [CollectionIds -> CollectionRow]] /\ f \in Families /\ TxnInv
  BY <1>1, FamilyFacts DEF CollectionInv, CollectionState
<1>4. req.id = 0 => n \in free
  <2>1. free \in SUBSET Nat /\ IsFiniteSet(free)
    BY <1>1, CollectionConstants, FS_Subset
  <2> QED
    BY <1>1, <1>2, <2>1, FirstInOrder
<1>5. ASSUME NEW d \in Clients, d # c, Inserting(d), txn[d].req.id # 0
      PROVE  collection'[Family(txn[d].req)][txn[d].req.id] = collection[Family(txn[d].req)][txn[d].req.id]
  <2>1. PICK g, m : g = Family(txn[d].req) /\ m = txn[d].req.id /\ g \in Families
    BY FamilyFacts
  <2>2. m \in CollectionIds
    BY <1>5, <2>1 DEF Inserting, CollectionInv, CollectionRequests, CollectionRequest
  <2>3. g # f \/ m # n
    <3>1. CASE req.id = 0
      <4>1. collection[g][m] # NoCollection
        BY <1>5, <2>1 DEF SlotInv, SlotClaim
      <4> QED
        BY <1>1, <1>4, <3>1, <4>1
    <3>2. CASE req.id # 0
      BY <1>1, <1>2, <1>3, <1>5, <2>1, <3>2, RowsApart
    <3> QED
      BY <3>1, <3>2
  <2> QED
    BY <1>2, <1>3, <2>1, <2>2, <2>3
<1>6. KeepsRows(c)
  BY <1>5 DEF KeepsRows
<1> QED
  BY <1>2, <1>3, <1>6, SlotsFinish

LEMMA SlotStep ==
    ASSUME CollectionInv, OrderInv, SlotInv, live \in [Lives -> LiveRow], [Next]_vars
    PROVE  SlotInv'
<1>1. TxnInv /\ TxnType /\ CollectionRequests
  BY DEF CollectionInv, TxnInv
<1>2. ASSUME NEW c \in Clients, LivesNext(c) \/ VenuesNext(c) \/ SongsNext(c) PROVE SlotInv'
  <2>1. PICK kinds : Turn(c) /\ OfKinds(txn'[c], kinds) /\ (kinds \union {"none"}) \cap CollectionKinds = {}
    <3>1. CASE VenuesNext(c)
      <4>1. Turn(c) /\ OfKinds(txn'[c], VenueKinds)
        BY <1>1, <3>1, VenueTurn DEF VenuesNext
      <4> QED
        BY <4>1 DEF CollectionKinds, VenueKinds, FormKinds
    <3>2. CASE LivesNext(c)
      <4>1. Turn(c) /\ OfKinds(txn'[c], AllLiveKinds)
        BY <1>1, <3>2, LiveTurn DEF LivesNext
      <4> QED
        BY <4>1 DEF AllLiveKinds, LiveKinds, FavoriteKinds, SetlistKinds, CollectionKinds
    <3>3. CASE SongsNext(c)
      <4>1. Turn(c) /\ OfKinds(txn'[c], SongKinds)
        BY <1>1, <3>3, SongTurn DEF SongsNext
      <4> QED
        BY <4>1 DEF SongKinds, SongForms, CollectionKinds
    <3> QED
      BY <1>2, <3>1, <3>2, <3>3
  <2>2. UNCHANGED collection
    BY <1>2 DEF LivesNext, VenuesNext, SongsNext
  <2>3. txn'[c].req.kind \notin CollectionKinds
    BY <2>1 DEF OfKinds
  <2> QED
    BY <2>1, <2>2, <2>3, SlotsOfOthers DEF Turn
<1>3. ASSUME NEW c \in Clients, CollectionsNext(c) PROVE SlotInv'
  BY <1>1, <1>3, SlotsStart, SlotsValidate, SlotsInsert, SlotsStore DEF CollectionsNext, CollectionStep
<1>4. ASSUME NEW c \in Clients, DatabaseNext(c) PROVE SlotInv'
  <2>1. UNCHANGED collection /\ KeepsRows(c)
    BY <1>4 DEF DatabaseNext, KeepsRows
  <2> QED
    BY <1>1, <1>4, <2>1, SlotsTake, SlotsFinish DEF DatabaseNext, RollBack
<1>5. CASE UNCHANGED vars
  <2>1. UNCHANGED <<txn, collection>>
    BY <1>5 DEF vars, txnVars
  <2>2. \A c \in Clients : SlotClaim(c)'
    BY <2>1 DEF SlotInv, SlotClaim, Inserting, Replaced, Added, Wanted
  <2>3. \A c, d \in Clients : c # d => Disjoint(c, d)'
    BY <2>1 DEF SlotInv, Disjoint, Inserting, Replaced
  <2> QED
    BY <2>2, <2>3 DEF SlotInv
<1> QED
  BY <1>2, <1>3, <1>4, <1>5 DEF Next

----------------------------------------------------------------------------
(* Two requests that wait for each other.  Stuck is what the order of the
   locks says of one that waits for lock x and holds lock k. *)
Stuck(t, x, k) ==
    /\ k \in t.held /\ Rightful(t.req, x) /\ Rightful(t.req, k) /\ ~Opens(t.req, x)
    /\ Leans(x) => \E g \in t.held : Guards(g, x)
    /\ Leans(k) => \E g \in t.held : Guards(g, k)
    /\ t.req.kind \in SongKinds => x.row[2] \in Nat /\ k.row[2] \in Nat /\ Follows(t.req, k.row, x.row)

LEMMA StuckFacts ==
    ASSUME NEW t, Orderly(t), t.plan # <<>>, NEW k \in t.held
    PROVE  Stuck(t, Head(t.plan), k)
<1>1. PICK plan, x : plan = t.plan /\ x = Head(plan)
  OBVIOUS
<1>2. Possesses(t.req, t.held) /\ Plans(t.req, t.held, plan)
  BY <1>1 DEF Orderly
<1>3. x = plan[1] /\ 1 \in DOMAIN plan
  BY <1>1, <1>2, TakenPlan DEF Plans
<1>4. ~\E j \in DOMAIN plan : j < 1 /\ Guards(plan[j], x)
  <2>1. \A i \in DOMAIN plan : i \in Nat /\ (i # 1 => i - 1 \in DOMAIN Tail(plan))
    BY <1>1, <1>2, TakenPlan DEF Plans
  <2>2. \A i \in DOMAIN Tail(plan) : i \in Nat \ {0}
    BY <1>1, <1>2, TakenPlan DEF Plans
  <2>3. ASSUME NEW j \in DOMAIN plan, j < 1 PROVE FALSE
    <3>1. j \in Nat /\ j = 0
      BY <2>1, <2>3
    <3> QED
      BY <2>1, <2>2, <3>1
  <2> QED
    BY <2>3
<1>5. /\ Rightful(t.req, x) /\ ~Opens(t.req, x) /\ (Leans(x) => \E g \in t.held : Guards(g, x))
      /\ t.req.kind \in SongKinds => x.row[2] \in Nat /\ Follows(t.req, k.row, x.row)
  BY <1>2, <1>3, <1>4 DEF Plans
<1>6. /\ Rightful(t.req, k) /\ (Leans(k) => \E g \in t.held : Guards(g, k))
      /\ t.req.kind \in SongKinds => k.row[2] \in Nat
  BY <1>2 DEF Possesses
<1> QED
  BY <1>1, <1>5, <1>6 DEF Stuck

\* Nobody waits for the version of a name or a line-up: its band or venue is locked first.
LEMMA LeaningNeverBlocks ==
    ASSUME LocksApart, NEW c \in Clients, NEW d \in Clients, c # d, NEW x, NEW k, Stuck(txn[c], x, k),
           NEW y, NEW h, Stuck(txn[d], y, h), h.row = x.row, Conflict(h.mode, x.mode)
    PROVE  ~Leans(x)
<1>1. SUFFICES ASSUME Leans(x) PROVE FALSE
  OBVIOUS
<1>2. Leans(h)
  BY <1>1 DEF Leans
<1>3. PICK a \in txn[c].held : Guards(a, x)
  BY <1>1 DEF Stuck
<1>4. PICK b \in txn[d].held : Guards(b, h)
  BY <1>2 DEF Stuck
<1>5. a.row = b.row
  BY <1>3, <1>4 DEF Guards
<1>6. a.mode = "update" \/ b.mode = "update"
  BY <1>3, <1>4 DEF Guards, Conflict
<1> QED
  BY <1>5, <1>6 DEF LocksApart, Conflict

LEMMA ConflictFacts == \A m, n : Conflict(m, n) => (m = "update" \/ n = "update") /\ Conflict(n, m)
  BY DEF Conflict

\* Which locks two requests may wait for.
HandsOver(req) == req.kind = "create_lineup_version" /\ req.live # 0

\* The kinds of requests differ.
LEMMA EditorKinds ==
    \A req :
        /\ req.kind \in SetlistKinds \union {"update_live"} =>
              /\ req.kind \notin CollectionKinds \union FavoriteKinds \union SongKinds \union Favoring
              /\ req.kind \notin GroupCreations \union SongForms \union AlbumKinds
        /\ req.kind \in SetlistKinds => req.kind # "update_live"
        /\ req.kind \in SetlistKinds \union CollectionKinds \union Favoring \union SongKinds \union {"update_live"} =>
              req.kind \notin {"create_venue", "rename_venue", "edit_venue", "save_location", "save_locality"}
        /\ req.kind \in {"create_name_version", "create_lineup_version"} =>
              /\ req.kind \notin CollectionKinds \union FavoriteKinds \union SongKinds \union Favoring
              /\ req.kind \notin GroupCreations \union SongForms \union AlbumKinds \union ContextWriters \union SetlistKinds
        /\ req.kind \in CollectionKinds \union FavoriteKinds \union Favoring =>
              req.kind \notin SongForms \union GroupCreations \union SongKinds \union SetlistKinds
        /\ req.kind \in CollectionKinds =>
              req.kind \notin FavoriteKinds \union Favoring \union ContextWriters
        /\ req.kind \in Favoring => req.kind \notin ContextWriters \union CollectionKinds
        /\ req.kind \in {"create_venue", "rename_venue", "edit_venue", "save_locality", "create_locality"} =>
              /\ req.kind \notin CollectionKinds \union FavoriteKinds \union SongKinds \union Favoring
              /\ req.kind \notin GroupCreations \union SongForms \union AlbumKinds \union ContextWriters \union SetlistKinds
        /\ req.kind \in GroupCreations \union SongForms \union AlbumKinds => req.kind \in SongKinds
        /\ req.kind \in SongForms \ AlbumForms => req.kind \notin GroupCreations \union Favoring \union ContextWriters
        /\ req.kind \in SongKinds => req.kind \notin CollectionKinds \union FavoriteKinds \union ContextWriters
  BY DEF SetlistKinds, CollectionKinds, FavoriteKinds, ContextWriters, GroupCreations, SongKinds, SongForms, AlbumForms, AlbumKinds, Favoring

\* Two numbers compare.
LEMMA NumbersCompare == \A m, n \in Nat : m = n \/ m < n \/ n < m
  OBVIOUS

LEMMA NotBothLess == \A m, n \in Nat : m < n => ~(n < m)
  OBVIOUS

\* What a request may wait for that does not hand over.
Wants(req, m) ==
    \/ m.row[1] = "live" /\ m.mode = "key" /\ req.kind \in CollectionKinds \union FavoriteKinds
    \/ m.row[1] = "band" /\ m.mode = "key" /\ req.kind \in ContextWriters \union CollectionKinds
    \/ m.row[1] = "slot" /\ req.kind \in CollectionKinds
    \/ m.row[1] = "venue names" /\ req.kind \in {"create_venue", "rename_venue", "edit_venue"}
    \/ m.row[1] = "locality" /\ m.mode # "update" /\ req.kind \in {"create_venue", "save_location", "edit_venue"}
    \/ m.row[1] = "identity" /\ req.kind = "save_locality"
    \/ m.row[1] = "title" /\ req.kind \in GroupCreations
    \/ m.row[1] = "song group" /\ m.mode = "update" /\ req.kind \in SongForms \ AlbumForms
    \/ m.row[1] = "song group" /\ m.mode = "key" /\ req.kind \in SetlistKinds
    \/ m.row[1] = "song" /\ req.kind \in SongKinds
    \/ m.row[1] = "favorite" /\ req.kind \in Favoring

LEMMA CrossingKinds ==
    ASSUME NEW s, NEW t, NEW x, NEW y, NEW k, NEW h, Stuck(s, x, k), Stuck(t, y, h), h.row = x.row, k.row = y.row,
           Conflict(h.mode, x.mode), Conflict(k.mode, y.mode), ~Leans(x), ~Leans(y),
           ~HandsOver(s.req), ~HandsOver(t.req)
    PROVE  \/ x.row[1] = "slot" /\ y.row[1] = "slot"
           \/ x.row[1] = "venue names" /\ y.row[1] = "venue names"
           \/ x.row[1] = "identity" /\ y.row[1] = "identity"
           \/ x.row[1] = y.row[1] /\ x.row[1] \in {"song group", "song", "favorite"}
<1>1. /\ Rightful(s.req, x) /\ Rightful(s.req, k) /\ ~Opens(s.req, x)
      /\ Rightful(t.req, y) /\ Rightful(t.req, h) /\ ~Opens(t.req, y)
  BY DEF Stuck
<1>2. (h.mode = "update" \/ x.mode = "update") /\ (k.mode = "update" \/ y.mode = "update")
  BY ConflictFacts
<1>3. h.row[1] = x.row[1] /\ k.row[1] = y.row[1]
  OBVIOUS
<1>4. ASSUME NEW req, NEW m, Rightful(req, m), ~Opens(req, m), ~Leans(m), ~HandsOver(req) PROVE Wants(req, m)
  BY <1>4, EditorKinds DEF Rightful, Opens, Leans, HandsOver, Wants
<1>0. Wants(s.req, x) /\ Wants(t.req, y)
  BY <1>1, <1>4
<1>5. CASE x.row[1] = "live"
  <2>1. s.req.kind \in CollectionKinds \union FavoriteKinds /\ h.mode = "update"
    BY <1>0, <1>2, <1>5 DEF Wants
  <2>2. t.req.kind \in {"update_live"} \union SetlistKinds
    BY <1>1, <1>3, <1>5, <2>1 DEF Rightful
  <2>3. y.row[1] \in {"band", "song group"} /\ y.mode # "update"
    BY <1>0, <2>2, EditorKinds DEF Wants
  <2>4. k.row[1] \in {"band", "song group"} /\ k.mode = "update"
    BY <1>2, <1>3, <2>3
  <2>5. s.req.kind \in {"create_name_version", "create_lineup_version"} \union (SongForms \ AlbumForms)
    BY <1>1, <2>4 DEF Rightful
  <2> QED
    BY <2>1, <2>5, EditorKinds
<1>6. CASE x.row[1] = "band"
  <2>1. h.mode = "update"
    BY <1>0, <1>2, <1>6 DEF Wants
  <2>2. t.req.kind \in {"create_name_version", "create_lineup_version"}
    BY <1>1, <1>3, <1>6, <2>1 DEF Rightful
  <2> QED
    BY <1>0, <2>2, EditorKinds DEF Wants
<1>7. CASE x.row[1] = "slot"
  <2>1. s.req.kind \in CollectionKinds /\ t.req.kind \in CollectionKinds
    BY <1>1, <1>3, <1>7 DEF Rightful
  <2>2. y.row[1] = "slot" \/ (y.row[1] \in {"live", "band"} /\ y.mode = "key")
    BY <1>0, <2>1, EditorKinds DEF Wants
  <2>3. ASSUME y.row[1] \in {"live", "band"}, y.mode = "key" PROVE FALSE
    <3>1. k.mode = "update" /\ k.row[1] \in {"live", "band"}
      BY <1>2, <1>3, <2>3
    <3>2. s.req.kind \in {"update_live", "create_name_version", "create_lineup_version"} \union SetlistKinds
      BY <1>1, <3>1 DEF Rightful
    <3> QED
      BY <2>1, <3>2, EditorKinds
  <2> QED
    BY <1>7, <2>2, <2>3
<1>8. CASE x.row[1] = "venue names"
  <2>1. /\ s.req.kind \in {"create_venue", "rename_venue", "edit_venue"}
        /\ t.req.kind \in {"create_venue", "rename_venue", "edit_venue"}
    BY <1>1, <1>3, <1>8 DEF Rightful
  <2>2. y.row[1] = "venue names" \/ (y.row[1] = "locality" /\ y.mode # "update")
    BY <1>0, <2>1, EditorKinds DEF Wants
  <2>3. ASSUME y.row[1] = "locality", y.mode # "update" PROVE FALSE
    <3>1. k.mode = "update" /\ k.row[1] = "locality"
      BY <1>2, <1>3, <2>3
    <3>2. s.req.kind = "save_locality"
      BY <1>1, <3>1 DEF Rightful
    <3> QED
      BY <2>1, <3>2
  <2> QED
    BY <1>8, <2>2, <2>3
<1>9. CASE x.row[1] = "locality"
  <2>1. h.mode = "update" /\ s.req.kind \in {"create_venue", "save_location", "edit_venue"}
    BY <1>0, <1>2, <1>9 DEF Wants
  <2>2. t.req.kind = "save_locality"
    BY <1>1, <1>3, <1>9, <2>1 DEF Rightful
  <2>3. y.row[1] = "identity"
    BY <1>0, <2>2, EditorKinds DEF Wants
  <2>4. s.req.kind \in {"create_locality", "save_locality"}
    BY <1>1, <1>3, <2>3 DEF Rightful
  <2> QED
    BY <2>1, <2>4
<1>10. CASE x.row[1] = "identity"
  <2>1. t.req.kind \in {"create_locality", "save_locality"}
    BY <1>1, <1>3, <1>10 DEF Rightful
  <2>2. y.row[1] = "identity"
    BY <1>0, <2>1, EditorKinds DEF Wants
  <2> QED
    BY <1>10, <2>2
<1>11. CASE x.row[1] = "title"
  <2>1. s.req.kind \in GroupCreations /\ t.req.kind \in GroupCreations
    BY <1>1, <1>3, <1>11 DEF Rightful
  <2>2. Follows(s.req, k.row, x.row) /\ Follows(t.req, h.row, y.row) /\ x.row[2] \in Nat /\ y.row[2] \in Nat
    BY <2>1, EditorKinds DEF Stuck
  <2>3. k.row[1] = "title" /\ y.row[2] < x.row[2]
    BY <1>11, <2>2 DEF Follows, Precedes
  <2>4. x.row[2] < y.row[2]
    BY <1>3, <1>11, <2>2, <2>3 DEF Follows, Precedes
  <2> QED
    BY <2>2, <2>3, <2>4, NotBothLess
<1>12. CASE x.row[1] = "song group"
  <2>1. s.req.kind \in SetlistKinds \union (SongForms \ AlbumForms) /\ t.req.kind \in SetlistKinds \union (SongForms \ AlbumForms)
    BY <1>1, <1>3, <1>12 DEF Rightful
  <2>2. CASE s.req.kind \in SetlistKinds
    <3>1. x.mode = "key" /\ h.mode = "update"
      BY <1>0, <1>2, <1>12, <2>2, EditorKinds DEF Wants
    <3>2. t.req.kind \in SongForms \ AlbumForms
      BY <1>1, <1>3, <1>12, <3>1 DEF Rightful
    <3>3. y.row[1] \in {"song group", "song"}
      BY <1>0, <3>2, EditorKinds DEF Wants
    <3>4. k.row[1] # "song"
      BY <1>1, <2>2, EditorKinds DEF Rightful
    <3> QED
      BY <1>3, <1>12, <3>3, <3>4
  <2>3. CASE s.req.kind \in SongForms \ AlbumForms
    <3>1. Follows(s.req, k.row, x.row)
      BY <2>3, EditorKinds DEF Stuck
    <3>2. k.row[1] = "song group"
      BY <1>12, <3>1 DEF Follows, Precedes
    <3> QED
      BY <1>3, <1>12, <3>2
  <2> QED
    BY <2>1, <2>2, <2>3
<1>13. CASE x.row[1] = "song"
  <2>1. t.req.kind \in SongKinds
    BY <1>1, <1>3, <1>13, EditorKinds DEF Rightful
  <2>2. Follows(t.req, h.row, y.row)
    BY <2>1 DEF Stuck
  <2>3. y.row[1] = "song"
    BY <1>3, <1>13, <2>2 DEF Follows, Precedes
  <2> QED
    BY <1>13, <2>3
<1>14. CASE x.row[1] = "favorite"
  <2>1. s.req.kind \in Favoring /\ t.req.kind \in Favoring
    BY <1>1, <1>3, <1>14 DEF Rightful
  <2>2. y.row[1] = "favorite" \/ (y.row[1] = "live" /\ y.mode = "key")
    BY <1>0, <2>1, EditorKinds DEF Wants
  <2>3. ASSUME y.row[1] = "live", y.mode = "key" PROVE FALSE
    <3>1. k.mode = "update" /\ k.row[1] = "live"
      BY <1>2, <1>3, <2>3
    <3>2. s.req.kind \in {"update_live"} \union SetlistKinds
      BY <1>1, <3>1 DEF Rightful
    <3> QED
      BY <2>1, <3>2, EditorKinds
  <2> QED
    BY <1>14, <2>2, <2>3
<1> QED
  BY <1>0, <1>5, <1>6, <1>7, <1>8, <1>9, <1>10, <1>11, <1>12, <1>13, <1>14 DEF Wants

\* Two that wait for rows which one of them locks as it was sent them: one of the two
\* holds a row with a higher id than it wants.
Against(req, x, k) == x.row[1] \in InSentOrder(req.kind) /\ k.row[1] = x.row[1] /\ x.row[2] < k.row[2]

LEMMA SentOrders ==
    /\ \A req : req.kind \in SetlistKinds => "song group" \in InSentOrder(req.kind)
    /\ \A req : Loose(req) => "song" \in InSentOrder(req.kind)
    /\ \A req : req.kind \in Favoring => "favorite" \in InSentOrder(req.kind)
  BY DEF InSentOrder, Loose, AlbumKinds, AlbumForms, SetlistKinds, Favoring

LEMMA SameRows ==
    ASSUME LocksApart, NEW c \in Clients, NEW d \in Clients, c # d, NEW k \in txn[c].held, NEW h \in txn[d].held,
           k.mode = "update" \/ h.mode = "update"
    PROVE  k.row # h.row
  BY DEF LocksApart, Conflict

LEMMA SentOrderCrosses ==
    ASSUME LocksApart, NEW c \in Clients, NEW d \in Clients, c # d, NEW x, NEW y, NEW k, NEW h,
           Stuck(txn[c], x, k), Stuck(txn[d], y, h), h.row = x.row, k.row = y.row,
           Conflict(h.mode, x.mode), Conflict(k.mode, y.mode),
           x.row[1] = y.row[1], x.row[1] \in {"song group", "song", "favorite"}
    PROVE  Against(txn[c].req, x, k) \/ Against(txn[d].req, y, h)
<1>1. PICK s, t : s = txn[c].req /\ t = txn[d].req
  OBVIOUS
<1>2. Rightful(s, x) /\ Rightful(s, k) /\ Rightful(t, y) /\ Rightful(t, h)
  BY <1>1 DEF Stuck
<1>3. (h.mode = "update" \/ x.mode = "update") /\ (k.mode = "update" \/ y.mode = "update")
  BY ConflictFacts
<1>4. /\ h.row[1] = x.row[1] /\ h.row[2] = x.row[2] /\ k.row[1] = y.row[1] /\ k.row[2] = y.row[2]
      /\ k \in txn[c].held /\ h \in txn[d].held
  BY DEF Stuck
<1>5. CASE x.row[1] = "song group"
  <2>1. CASE s.kind \in SetlistKinds
    <3>1. x.mode = "key" /\ h.mode = "update"
      BY <1>2, <1>3, <1>5, <2>1, EditorKinds DEF Rightful
    <3>2. t.kind \in SongKinds
      BY <1>2, <1>4, <1>5, <3>1, EditorKinds DEF Rightful
    <3>3. Follows(t, h.row, y.row)
      BY <1>1, <3>2 DEF Stuck
    <3>4. x.row[2] < k.row[2]
      BY <1>4, <1>5, <3>3 DEF Follows, Precedes
    <3> QED
      BY <1>1, <1>4, <1>5, <2>1, <3>4, SentOrders DEF Against
  <2>2. CASE s.kind \in SongKinds
    <3>1. Follows(s, k.row, x.row) /\ x.row[2] \in Nat /\ k.row[2] \in Nat
      BY <1>1, <2>2 DEF Stuck
    <3>2. y.row[2] < h.row[2]
      BY <1>4, <1>5, <3>1 DEF Follows, Precedes
    <3>3. CASE t.kind \in SetlistKinds
      BY <1>1, <1>4, <1>5, <3>2, <3>3, SentOrders DEF Against
    <3>4. CASE t.kind \in SongKinds
      <4>1. Follows(t, h.row, y.row)
        BY <1>1, <3>4 DEF Stuck
      <4>2. h.row[2] < y.row[2]
        BY <1>4, <1>5, <4>1 DEF Follows, Precedes
      <4> QED
        BY <1>4, <3>1, <3>2, <4>2, NotBothLess
    <3> QED
      BY <1>2, <1>4, <1>5, <3>3, <3>4, EditorKinds DEF Rightful
  <2> QED
    BY <1>2, <1>5, <2>1, <2>2, EditorKinds DEF Rightful
<1>6. CASE x.row[1] = "song"
  <2>1. s.kind \in SongKinds /\ t.kind \in SongKinds /\ OfSong(x) /\ OfSong(k) /\ OfSong(y) /\ OfSong(h)
    BY <1>2, <1>4, <1>6, EditorKinds DEF Rightful
  <2>2. Follows(s, k.row, x.row) /\ Follows(t, h.row, y.row)
    BY <1>1, <2>1 DEF Stuck
  <2>3. PICK i, j : i = x.row[2] /\ j = y.row[2] /\ i \in Nat /\ j \in Nat
    BY <2>1 DEF OfSong
  <2>4. (Loose(s) \/ j < i) /\ (Loose(t) \/ i < j)
    BY <1>4, <1>6, <2>2, <2>3 DEF Follows, Precedes
  <2>5. CASE i = j
    <3>1. Loose(s) /\ Loose(t)
      BY <2>3, <2>4, <2>5, NotBothLess
    <3>2. x.row = y.row
      BY <2>1, <2>3, <2>5 DEF OfSong
    <3>3. k.mode = "update" \/ h.mode = "update"
      <4>1. (x.mode = "update" <=> s.kind \notin AlbumKinds) /\ (k.mode = "update" <=> s.kind \notin AlbumKinds)
        BY <1>2, <1>4, <1>6 DEF Rightful
      <4> QED
        BY <1>3, <4>1
    <3> QED
      BY <1>4, <3>2, <3>3, SameRows
  <2>6. CASE i < j
    <3>1. Loose(s)
      BY <2>3, <2>4, <2>6, NotBothLess
    <3> QED
      BY <1>1, <1>4, <1>6, <2>3, <2>6, <3>1, SentOrders DEF Against
  <2>7. CASE j < i
    <3>1. Loose(t)
      BY <2>3, <2>4, <2>7, NotBothLess
    <3> QED
      BY <1>1, <1>4, <1>6, <2>3, <2>7, <3>1, SentOrders DEF Against
  <2>8. i = j \/ i < j \/ j < i
    BY <2>3, NumbersCompare, Zenon
  <2> QED
    BY <2>5, <2>6, <2>7, <2>8
<1>7. CASE x.row[1] = "favorite"
  <2>1. /\ s.kind \in Favoring /\ t.kind \in Favoring /\ k.mode = "update"
        /\ OfUser(x, s.user) /\ OfUser(k, s.user) /\ OfUser(y, t.user) /\ OfUser(h, t.user)
    BY <1>2, <1>4, <1>7 DEF Rightful
  <2>2. PICK i, j : i = x.row[2] /\ j = y.row[2] /\ i \in Nat /\ j \in Nat
    BY <2>1 DEF OfUser
  <2>3. k.row # h.row
    BY <1>4, <2>1, SameRows
  <2>4. i # j
    <3>1. k.row = <<"favorite", j, s.user>> /\ x.row = <<"favorite", i, s.user>>
      BY <1>4, <2>1, <2>2 DEF OfUser
    <3> QED
      BY <2>3, <3>1
  <2>5. CASE i < j
    BY <1>1, <1>4, <1>7, <2>1, <2>2, <2>5, SentOrders DEF Against
  <2>6. CASE j < i
    BY <1>1, <1>4, <1>7, <2>1, <2>2, <2>6, SentOrders DEF Against
  <2>7. i < j \/ j < i
    BY <2>2, <2>4, NumbersCompare, Zenon
  <2> QED
    BY <2>5, <2>6, <2>7
<1> QED
  BY <1>5, <1>6, <1>7

\* The names of venues have one lock.
LEMMA RegistryNeverBlocks ==
    ASSUME LocksApart, NEW c \in Clients, NEW d \in Clients, c # d, NEW x, NEW y, NEW k, NEW h,
           Stuck(txn[c], x, k), Stuck(txn[d], y, h), h.row = x.row, k.row = y.row
    PROVE  ~(x.row[1] = "venue names" /\ y.row[1] = "venue names")
<1>1. SUFFICES ASSUME x.row[1] = "venue names", y.row[1] = "venue names" PROVE FALSE
  OBVIOUS
<1>2. h.row[1] = "venue names" /\ k.row[1] = "venue names"
  BY <1>1
<1>3. h = Registry /\ k = Registry
  BY <1>2 DEF Stuck, Rightful
<1>4. h \in txn[d].held /\ k \in txn[c].held
  BY DEF Stuck
<1> QED
  BY <1>3, <1>4, VenueLocks DEF LocksApart, Conflict

\* Identities.
LEMMA IdentityRows == \A a, b : Identity(a).row = Identity(b).row => a = b
<1>1. ASSUME NEW a, NEW b, Identity(a).row = Identity(b).row PROVE a = b
  <2>1. PICK tag : tag = "identity"
    OBVIOUS
  <2>2. Identity(a).row = <<tag, a>> /\ Identity(b).row = <<tag, b>>
    BY <2>1, LockFields DEF Identity
  <2>3. <<tag, a>>[2] = a /\ <<tag, b>>[2] = b
    OBVIOUS
  <2> QED
    BY <1>1, <2>2, <2>3
<1> QED
  BY <1>1

LEMMA IdentityTurns ==
    ASSUME OrderInv, IdentityInv, NEW c \in Clients, txn[c].plan # <<>>, NEW x, x = Head(txn[c].plan), NEW k \in txn[c].held,
           x.row[1] = "identity", k.row[1] = "identity"
    PROVE  /\ txn[c].req.kind = "save_locality" /\ txn[c].at = "store"
           /\ k = Identity(txn[c].seen.name) /\ x = Identity(txn[c].req.name)
<1>1. PICK t : t = txn[c] /\ Orderly(t)
  BY DEF OrderInv
<1>2. Stuck(t, x, k)
  BY <1>1, StuckFacts
<1>3. t.req.kind = "save_locality"
  BY <1>2 DEF Stuck, Rightful, Opens
<1>4. t.at = "store"
  BY <1>1 DEF Orderly, Staged, Uses
<1>5. PICK p, q : p = Identity(t.seen.name) /\ q = Identity(t.req.name)
  OBVIOUS
<1>6. t.plan \in {<<p, q>>, <<q>>} /\ k = p /\ Len(t.plan) # 2
  BY <1>1, <1>3, <1>4, <1>5 DEF IdentityInv, LocalityClaim
<1>7. Len(<<p, q>>) = 2 /\ Head(<<q>>) = q
  OBVIOUS
<1>8. t.plan = <<q>>
  BY <1>6, <1>7
<1> QED
  BY <1>1, <1>3, <1>4, <1>5, <1>6, <1>7, <1>8

LEMMA IdentityNeverCrosses ==
    ASSUME OrderInv, IdentityInv, NEW c \in Clients, NEW d \in Clients, c # d, txn[c].plan # <<>>, txn[d].plan # <<>>,
           NEW x, NEW y, x = Head(txn[c].plan), y = Head(txn[d].plan), NEW k \in txn[c].held, NEW h \in txn[d].held,
           h.row = x.row, k.row = y.row
    PROVE  ~(x.row[1] = "identity" /\ y.row[1] = "identity")
<1>1. SUFFICES ASSUME x.row[1] = "identity", y.row[1] = "identity" PROVE FALSE
  OBVIOUS
<1>2. k.row[1] = "identity" /\ h.row[1] = "identity"
  BY <1>1
<1>3. /\ txn[c].req.kind = "save_locality" /\ txn[c].at = "store"
      /\ k = Identity(txn[c].seen.name) /\ x = Identity(txn[c].req.name)
  BY <1>1, <1>2, IdentityTurns
<1>4. /\ txn[d].req.kind = "save_locality" /\ txn[d].at = "store"
      /\ h = Identity(txn[d].seen.name) /\ y = Identity(txn[d].req.name)
  BY <1>1, <1>2, IdentityTurns
<1>5. txn[d].seen.name = txn[c].req.name /\ txn[c].seen.name = txn[d].req.name
  BY <1>3, <1>4, IdentityRows
<1>6. SwapFree(txn[c], txn[d])
  BY DEF IdentityInv
<1> QED
  BY <1>3, <1>4, <1>5, <1>6 DEF SwapFree

\* Slots.
LEMMA SlotRows == \A f, g, l, m : Slot(f, l).row = Slot(g, m).row => f = g /\ l = m
<1>1. ASSUME NEW f, NEW g, NEW l, NEW m, Slot(f, l).row = Slot(g, m).row PROVE f = g /\ l = m
  <2>1. PICK tag : tag = "slot"
    OBVIOUS
  <2>2. Slot(f, l).row = <<tag, f, l>> /\ Slot(g, m).row = <<tag, g, m>>
    BY <2>1, SlotFacts
  <2>3. <<tag, f, l>>[2] = f /\ <<tag, f, l>>[3] = l /\ <<tag, g, m>>[2] = g /\ <<tag, g, m>>[3] = m
    OBVIOUS
  <2> QED
    BY <1>1, <2>2, <2>3
<1> QED
  BY <1>1

\* What a request that waits for a slot and holds one is about to do.
SlotTurn(c, x, k, a, b) ==
    /\ Inserting(c) /\ x = Slot(Family(txn[c].req), a) /\ k = Slot(Family(txn[c].req), b)
    /\ a \in Replaced(txn[c]) \/ a = Wanted(txn[c])
    /\ b \in Replaced(txn[c]) \union Added(txn[c])

LEMMA SlotTurns ==
    ASSUME OrderInv, SlotInv, NEW c \in Clients, txn[c].plan # <<>>, NEW x, x = Head(txn[c].plan), NEW k \in txn[c].held,
           x.row[1] = "slot", k.row[1] = "slot"
    PROVE  \E a, b : SlotTurn(c, x, k, a, b)
<1>1. PICK t, f, plan : t = txn[c] /\ Orderly(t) /\ f = Family(t.req) /\ plan = t.plan
  BY DEF OrderInv
<1>2. Listed(plan) /\ plan # <<>>
  BY <1>1 DEF Orderly, Plans
<1>3. x = plan[1] /\ 1 \in DOMAIN plan
  BY <1>1, <1>2, TakenPlan
<1>4. Stuck(t, x, k)
  BY <1>1, StuckFacts
<1>5. Inserting(c)
  <2>1. t.req.kind \in CollectionKinds
    BY <1>4 DEF Stuck, Rightful
  <2>2. t.at = "insert"
    BY <1>1 DEF Orderly, Staged, Uses
  <2> QED
    BY <1>1, <2>1, <2>2 DEF Inserting
<1>6. /\ SlotPlan(plan, f, Replaced(t), Wanted(t))
      /\ SlotsTaken(t.held, plan, f, Replaced(t) \union Added(t), Wanted(t))
  BY <1>1, <1>5 DEF SlotInv, SlotClaim
<1>7. PICK a : x = Slot(f, a) /\ (a \in Replaced(t) \/ a = Wanted(t))
  BY <1>3, <1>6 DEF SlotPlan
<1>8. PICK b \in Replaced(t) \union Added(t) : k = Slot(f, b)
  BY <1>1, <1>3, <1>6 DEF SlotsTaken
<1> QED
  BY <1>1, <1>5, <1>7, <1>8 DEF SlotTurn

\* No other request replaces or has added a Live that this one replaces.
LEMMA ReplacedIsOwn ==
    ASSUME CollectionInv, SlotInv, NEW c \in Clients, NEW d \in Clients, c # d, Inserting(c), Inserting(d),
           Family(txn[c].req) = Family(txn[d].req), NEW l \in Replaced(txn[c])
    PROVE  l \notin Replaced(txn[d]) \union Added(txn[d])
<1>1. PICK f, m, n : f = Family(txn[c].req) /\ m = txn[c].req.id /\ n = txn[d].req.id /\ f \in Families
  BY FamilyFacts
<1>2. m # 0 /\ l \in collection[f][m].lives
  BY <1>1 DEF Replaced
<1>3. m \in CollectionIds /\ n \in CollectionIds \union {0}
  BY <1>1, <1>2 DEF Inserting, CollectionInv, CollectionRequests, CollectionRequest
<1>4. m # n /\ TxnInv
  BY <1>1, <1>2, RowsApart DEF CollectionInv
<1>5. l \notin Replaced(txn[d])
  <2>1. CASE n = 0
    BY <1>1, <2>1 DEF Replaced
  <2>2. CASE n # 0
    BY <1>1, <1>2, <1>3, <1>4, <2>2 DEF Replaced, CollectionInv, CollectionState, OneOwner
  <2> QED
    BY <2>1, <2>2
<1>6. l \notin Added(txn[d])
  <2>1. SUFFICES ASSUME l \in Added(txn[d]) PROVE FALSE
    OBVIOUS
  <2>2. PICK order, next : order = txn[d].seen.order /\ next = txn[d].seen.next
    OBVIOUS
  <2>3. /\ next \in Nat \ {0} /\ order \in Seq(Lives)
        /\ \A i \in DOMAIN order : i < next => Owners(f, n, order[i]) = {}
    BY <1>1, <2>2 DEF CollectionInv, RelationsSound, Inserting
  <2>4. PICK i \in 1..next - 1 : l = order[i]
    BY <2>1, <2>2 DEF Added
  <2>5. next \in DOMAIN order
    BY <2>2 DEF SlotInv, SlotClaim
  <2>6. i \in DOMAIN order /\ i < next
    BY <2>3, <2>4, <2>5
  <2>7. Owners(f, n, l) = {}
    BY <2>3, <2>4, <2>6
  <2> QED
    BY <1>2, <1>3, <1>4, <2>7 DEF Owners
<1> QED
  BY <1>5, <1>6

LEMMA SlotsCross ==
    ASSUME CollectionInv, OrderInv, SlotInv, NEW c \in Clients, NEW d \in Clients, c # d, txn[c].plan # <<>>, txn[d].plan # <<>>,
           NEW x, NEW y, x = Head(txn[c].plan), y = Head(txn[d].plan), NEW k \in txn[c].held, NEW h \in txn[d].held,
           h.row = x.row, k.row = y.row, x.row[1] = "slot", y.row[1] = "slot"
    PROVE  CrossedInserts(txn[c], txn[d])
<1>1. k.row[1] = "slot" /\ h.row[1] = "slot"
  OBVIOUS
<1>2. PICK a, b : SlotTurn(c, x, k, a, b)
  BY <1>1, SlotTurns
<1>3. PICK p, q : SlotTurn(d, y, h, p, q)
  BY <1>1, SlotTurns
<1>4. PICK s, t : s = txn[c] /\ t = txn[d]
  OBVIOUS
<1>5. Family(s.req) = Family(t.req) /\ q = a /\ b = p
  BY <1>2, <1>3, <1>4, SlotRows DEF SlotTurn
<1>6. Inserting(c) /\ Inserting(d)
  BY <1>2, <1>3 DEF SlotTurn
<1>7. a \in Replaced(t) \union Added(t) /\ p \in Replaced(s) \union Added(s)
  BY <1>2, <1>3, <1>4, <1>5 DEF SlotTurn
<1>8. a = Wanted(s)
  BY <1>2, <1>4, <1>5, <1>6, <1>7, ReplacedIsOwn DEF SlotTurn
<1>9. p = Wanted(t)
  BY <1>3, <1>4, <1>5, <1>6, <1>7, ReplacedIsOwn DEF SlotTurn
<1>10. Wanted(s) \in s.req.lives /\ Wanted(t) \in t.req.lives
  <2>1. ASSUME NEW e \in Clients, Inserting(e) PROVE Wanted(txn[e]) \in txn[e].req.lives
    <3>1. txn[e].seen.next \in DOMAIN txn[e].seen.order /\ Range(txn[e].seen.order) \subseteq txn[e].req.lives
      BY <2>1 DEF SlotInv, SlotClaim
    <3> QED
      BY <3>1 DEF Wanted, Range
  <2> QED
    BY <1>4, <1>6, <2>1
<1>11. s.req.lives \cap Replaced(t) = {} \/ t.req.lives \cap Replaced(s) = {}
  BY <1>4, <1>5, <1>6 DEF SlotInv, Disjoint
<1>12. Wanted(s) \in Added(t) \/ Wanted(t) \in Added(s)
  BY <1>7, <1>8, <1>9, <1>10, <1>11
<1> QED
  BY <1>4, <1>5, <1>6, <1>7, <1>8, <1>9, <1>12 DEF CrossedInserts, Inserting

----------------------------------------------------------------------------
LEMMA KnownDeadlocks ==
    ASSUME TxnInv, CollectionInv, OrderInv, IdentityInv, SlotInv
    PROVE  DeadlocksAreKnown
<1>1. SUFFICES ASSUME NEW c \in Clients, NEW d \in Clients, c \in WaitsFor(d), d \in WaitsFor(c),
                      ~HandsOver(txn[c].req), ~HandsOver(txn[d].req)
               PROVE  CrossedInserts(txn[c], txn[d]) \/ AgainstIds(txn[c]) \/ AgainstIds(txn[d])
  BY DEF DeadlocksAreKnown, HandsOver
<1>2. PICK x, y : x = Head(txn[c].plan) /\ y = Head(txn[d].plan)
  OBVIOUS
<1>3. txn[c].plan # <<>> /\ txn[d].plan # <<>> /\ d \in Blockers(c, x) /\ c \in Blockers(d, y)
  BY <1>1, <1>2 DEF WaitsFor
<1>4. c # d
  BY <1>3 DEF Blockers
<1>5. PICK h \in txn[d].held : h.row = x.row /\ Conflict(h.mode, x.mode)
  BY <1>3 DEF Blockers
<1>6. PICK k \in txn[c].held : k.row = y.row /\ Conflict(k.mode, y.mode)
  BY <1>3 DEF Blockers
<1>7. Stuck(txn[c], x, k) /\ Stuck(txn[d], y, h)
  BY <1>2, <1>3, <1>5, <1>6, StuckFacts DEF OrderInv
<1>8. LocksApart
  BY DEF TxnInv
<1>9. ~Leans(x) /\ ~Leans(y)
  BY <1>4, <1>5, <1>6, <1>7, <1>8, LeaningNeverBlocks
<1>10. \/ x.row[1] = "slot" /\ y.row[1] = "slot"
       \/ x.row[1] = "venue names" /\ y.row[1] = "venue names"
       \/ x.row[1] = "identity" /\ y.row[1] = "identity"
       \/ x.row[1] = y.row[1] /\ x.row[1] \in {"song group", "song", "favorite"}
  BY <1>1, <1>5, <1>6, <1>7, <1>9, CrossingKinds
<1>11. ~(x.row[1] = "venue names" /\ y.row[1] = "venue names")
  BY <1>4, <1>5, <1>6, <1>7, <1>8, RegistryNeverBlocks
<1>12. ~(x.row[1] = "identity" /\ y.row[1] = "identity")
  BY <1>2, <1>3, <1>4, <1>5, <1>6, IdentityNeverCrosses
<1>13. CASE x.row[1] = "slot" /\ y.row[1] = "slot"
  BY <1>2, <1>3, <1>4, <1>5, <1>6, <1>13, SlotsCross
<1>14. CASE x.row[1] = y.row[1] /\ x.row[1] \in {"song group", "song", "favorite"}
  <2>1. Against(txn[c].req, x, k) \/ Against(txn[d].req, y, h)
    BY <1>4, <1>5, <1>6, <1>7, <1>8, <1>14, SentOrderCrosses
  <2>2. Against(txn[c].req, x, k) => AgainstIds(txn[c])
    BY <1>2, <1>6 DEF Against, AgainstIds
  <2>3. Against(txn[d].req, y, h) => AgainstIds(txn[d])
    BY <1>2, <1>5 DEF Against, AgainstIds
  <2> QED
    BY <2>1, <2>2, <2>3
<1> QED
  BY <1>10, <1>11, <1>12, <1>13, <1>14

LEMMA LockInit ==
    ASSUME Init
    PROVE  OrderInv /\ IdentityInv /\ SlotInv
<1>1. PICK s \in Scenarios : TxnInit(s.requests) /\ VenueInit(s)
  BY DEF Init
<1>2. \A c \in Clients : txn[c] = Idle
  BY <1>1 DEF TxnInit
<1>3. OrderInv
  BY <1>2, IdleOrderly DEF OrderInv
<1>4. ASSUME NEW c \in Clients PROVE txn[c].at = "idle" /\ txn[c].req.kind = "none"
  BY <1>2 DEF Idle, NoRequest
<1>5. DOMAIN locality = Localities
  BY <1>1, ScenarioAssumption DEF VenueInit
<1>6. IdentityInv
  BY <1>4, <1>5 DEF IdentityInv, LocalityClaim, SwapFree
<1>7. SlotInv
  BY <1>4 DEF SlotInv, SlotClaim, Disjoint, Inserting, CollectionKinds
<1> QED
  BY <1>3, <1>6, <1>7

(* Which rows a request locks and in which order: the row it edits first, a name or
   line-up version below its band or venue, and, where it edits songs or groups, the
   rows of the catalogue by their ids (the FOR UPDATE and ORDER BY clauses of
   console_write.py, console_bands.py, console_venues.py, console_geography.py and
   console_song_catalog.py).  The song groups of a setlist, the songs of an album's
   tracks and of the covers of a batch, and favourites come in the order they were
   sent in, and their requests change no other row of the same table. *)
THEOREM LockOrderInvariant == Spec => []OrderInv
<1>1. Init => OrderInv
  BY LockInit
<1>2. ConsoleInv /\ CollectionInv /\ SongInv /\ OrderInv /\ [Next]_vars => OrderInv'
  BY OrderInvStep
<1> QED
  BY <1>1, <1>2, ConsoleInvariant, CollectionInvariant, SongInvariant, PTL DEF Spec

(* Whoever changes what identifies a locality has locked it and seen its
   identity, and no two requests take each other's (console_geography.py). *)
THEOREM IdentityInvariant == Spec => []IdentityInv
<1>1. Init => IdentityInv
  BY LockInit
<1>2. VenueInv /\ OrderInv /\ IdentityInv /\ [Next]_vars => IdentityInv'
  BY IdentityStep
<1> QED
  BY <1>1, <1>2, VenueInvariant, LockOrderInvariant, PTL DEF Spec

(* Whoever inserts the relations of a tour or a group has locked the slots of
   those it deletes and of those it inserted, and of no others
   (console_tours.py, console_performance_groups.py). *)
THEOREM SlotInvariant == Spec => []SlotInv
<1>1. Init => SlotInv
  BY LockInit
<1>2. ConsoleInv => live \in [Lives -> LiveRow]
  BY DEF ConsoleInv, LiveState, LiveTypeOK
<1>3. CollectionInv /\ OrderInv /\ SlotInv /\ live \in [Lives -> LiveRow] /\ [Next]_vars => SlotInv'
  BY SlotStep
<1> QED
  BY <1>1, <1>2, <1>3, ConsoleInvariant, CollectionInvariant, LockOrderInvariant, PTL DEF Spec

(* Two requests wait for each other only when one hands a line-up over to a
   Live; or both insert relations that the other has added or deletes; or one holds
   a song group, a song or a favourite, taken in the order it was sent in, and wants
   one with a lower id (the INSERTs of console_write.py, console_song_catalog.py and
   favorites.py). *)
THEOREM DeadlocksAreKnownAlways == Spec => []DeadlocksAreKnown
<1>1. CollectionInv /\ OrderInv /\ IdentityInv /\ SlotInv => DeadlocksAreKnown
  BY KnownDeadlocks DEF CollectionInv
<1> QED
  BY <1>1, CollectionInvariant, LockOrderInvariant, IdentityInvariant, SlotInvariant, PTL
===============================================================================
