----------------------------- MODULE SongProofs -------------------------------
(***************************************************************************)
(* The song catalogue keeps its orders, default versions and titles, and   *)
(* forms stay current, for any connections and requests.                   *)
(***************************************************************************)
EXTENDS ConsoleProofs

(* What the catalogue holds. *)
SongsTyped ==
    /\ song \in [Songs -> SongRow]
    /\ songGroup \in [SongGroups -> SongGroupRow]
    /\ album \in [Albums -> AlbumRow]

\* A stored row has a positive revision; a version is in a stored group.
RowsSound ==
    /\ \A s \in Songs : song[s] # NoSong =>
          song[s].rev > 0 /\ song[s].group \in SongGroups /\ songGroup[song[s].group].rev > 0
    /\ \A g \in SongGroups : songGroup[g] # NoSongGroup => songGroup[g].rev > 0

SongState ==
    SongsTyped /\ RowsSound /\ VersionsAreOrdered /\ GroupsKeepADefault /\ CreatedTitlesDiffer

SongRequests ==
    /\ \A r \in workload : SongRequest(r)
    /\ \A c \in Clients : SongRequest(txn[c].req)

TitleLock(title) == Lock("update", <<"title", title>>)

\* A song as a batch created it, which only another batch could create again.
AsCreated(s, owner, title) ==
    /\ song[s].rev = 1 /\ song[s].label = Default /\ song[s].owner = owner
    /\ songGroup[song[s].group].rev = 1 /\ songGroup[song[s].group].title = title

(* What a request to the catalogue has locked and may rely on. *)
VersionFormSound(c) ==
    LET t == txn[c] IN
    /\ t.req.kind = "create_version" /\ t.at = "store" =>
          songGroup[t.req.group].rev > 0 /\ Awaits(t, GroupLock(t.req.group))
    /\ t.req.kind \in {"update_version", "correct_ownership"} /\ t.at = "store" => song[t.req.song].rev > 0

CreationSound(c) ==
    LET t == txn[c] IN
    t.req.kind \in GroupCreations =>
        /\ t.at = "titles" => \A item \in t.req.items : Awaits(t, TitleLock(item.title))
        /\ t.at = "find" =>
              /\ t.seen.todo \subseteq t.req.items /\ t.seen.new \subseteq t.req.items
              /\ \A item \in t.req.items : TitleLock(item.title) \in t.held
              /\ \A item \in t.seen.new, s \in Songs : ~AsCreated(s, item.owner, item.title)

GroupFormSound(c) ==
    LET t == txn[c] IN
    t.req.kind = "update_group" /\ t.at \in {"songs", "store"} =>
        /\ t.seen.ids \in Seq(Songs) /\ songGroup[t.req.group].rev > 0
        /\ Awaits(t, GroupLock(t.req.group))

MoveSound(c) ==
    LET t == txn[c]  s == t.req.song IN
    t.req.kind = "move_group" =>
        /\ t.at \in {"read", "song", "store"} =>
              song[s].rev > 0 /\ t.seen.rev \in Nat /\ t.seen.rev <= song[s].rev
        /\ t.at \in {"song", "store"} =>
              /\ song[s].rev = t.seen.rev => song[s].group = t.seen.before /\ song[s].label # Default
              /\ Awaits(t, GroupLock(t.seen.before)) /\ Awaits(t, GroupLock(t.req.to))
        /\ t.at = "store" => songGroup[t.req.to].rev > 0

EditSound(c) ==
    LET t == txn[c]  g == t.seen.group  to == t.req.to IN
    t.req.kind = "edit_song" /\ t.at \in {"groups", "store"} =>
        /\ g \in SongGroups /\ to # g /\ t.seen.ids \in Seq(Songs)
        /\ t.seen.groupRev \in Nat \ {0} /\ t.seen.groupRev <= songGroup[g].rev
        /\ songGroup[g].rev = t.seen.groupRev \/ t.at = "store" => InVersionOrder(g) = t.seen.ids
        /\ Awaits(t, GroupLock(g))
        /\ t.at = "store" => GroupLock(g) \in t.held
        /\ to # 0 => Awaits(t, GroupLock(to)) /\ songGroup[to].rev > 0

AlbumSound(c) ==
    LET t == txn[c]  a == t.req.album IN
    t.req.kind \in AlbumForms =>
        /\ t.at \in {"read", "check", "store"} =>
              album[a] # NoAlbum /\ t.seen.rev \in Nat /\ t.seen.rev <= album[a].rev
        /\ t.at \in {"check", "store"} => t.seen.name \in STRING /\ Awaits(t, AlbumLock(a))
        /\ t.at = "store" => AlbumLock(a) \in t.held /\ album[a].rev = t.seen.rev
        /\ t.req.kind = "update_album_tracks" /\ t.at \in {"check", "store"} /\ album[a].rev = t.seen.rev =>
              album[a].name = t.seen.name

CatalogSound(c) ==
    /\ txn[c].req.kind \in SongKinds => Listed(txn[c].plan)
    /\ VersionFormSound(c) /\ CreationSound(c) /\ GroupFormSound(c)
    /\ MoveSound(c) /\ EditSound(c) /\ AlbumSound(c)

SongInv == TxnInv /\ SongRequests /\ SongState /\ \A c \in Clients : CatalogSound(c)

\* The versions of a group, and their positions, stay.
SameOrder(g) ==
    Versions(g)' = Versions(g) /\ \A s \in Versions(g) : song'[s].order = song[s].order

\* A stored row changes only with its revision, and so do the positions in a group.
CatalogGrows ==
    /\ \A s \in Songs : song'[s] = song[s] \/ song'[s].rev > song[s].rev
    /\ \A g \in SongGroups : songGroup'[g] = songGroup[g] \/ songGroup'[g].rev > songGroup[g].rev
    /\ \A a \in Albums : album'[a] = album[a] \/ album'[a].rev > album[a].rev
    /\ \A g \in SongGroups :
          songGroup[g].rev > 0 /\ songGroup'[g].rev = songGroup[g].rev => SameOrder(g)

\* What a transaction with these locks leaves to the others.
Leaves(held) ==
    /\ CatalogGrows
    /\ \A g \in SongGroups : songGroup[g].rev > 0 /\ GroupLock(g) \notin held => SameOrder(g)
    /\ \A s \in Songs, owner \in STRING, title \in Nat :
          AsCreated(s, owner, title)' /\ TitleLock(title) \notin held => AsCreated(s, owner, title)
    /\ \A a \in Albums : album'[a] = album[a] \/ album[a] = NoAlbum \/ AlbumLock(a) \in held
----------------------------------------------------------------------------
(* Positions and orders. *)
LEMMA VersionsFinite ==
    ASSUME NEW g
    PROVE  IsFiniteSet(Versions(g)) /\ Versions(g) \subseteq Songs
  BY FS_Subset, SongConstants DEF Versions

\* The position after the last one.
LEMMA NextOrderFacts ==
    ASSUME SongsTyped, NEW g
    PROVE  NextOrder(g) \in Nat /\ \A s \in Versions(g) : song[s].order < NextOrder(g)
<1> DEFINE P == {song[s].order : s \in Versions(g)}
           f == [s \in Versions(g) |-> song[s].order]
<1>1. \A s \in Versions(g) : song[s].order \in Nat
  BY VersionsFinite DEF SongsTyped, SongRow
<1>2. IsFiniteSet(P)
  <2>1. f \in Surjection(Versions(g), P)
    BY DEF Surjection
  <2> QED
    BY <2>1, VersionsFinite, FS_Surjection
<1>3. IsFiniteSet(P \union {0}) /\ P \union {0} \in SUBSET Nat
  <2>1. IsFiniteSet({0})
    BY FS_Singleton
  <2>2. IsFiniteSet(P \union {0})
    BY <1>2, <2>1, FS_Union
  <2> QED
    BY <1>1, <2>2
<1>4. PICK m : m = Max(P \union {0})
  OBVIOUS
<1>5. m \in Nat /\ \A x \in P \union {0} : x <= m
  BY <1>3, <1>4, MaxFacts
<1>6. NextOrder(g) = m + 1
  BY <1>4 DEF NextOrder
<1> QED
  BY <1>1, <1>5, <1>6

LEMMA PositionFacts ==
    ASSUME NEW ids \in Seq(Songs), NEW s \in Range(ids)
    PROVE  Position(ids, s) \in DOMAIN ids /\ ids[Position(ids, s)] = s /\ Position(ids, s) \in Nat
<1>1. PICK i \in DOMAIN ids : ids[i] = s
  BY DEF Range
<1>2. Position(ids, s) \in DOMAIN ids /\ ids[Position(ids, s)] = s
  BY <1>1 DEF Position
<1> QED
  BY <1>2

LEMMA SentFacts ==
    ASSUME NEW ids \in Seq(Songs), NEW req
    PROVE  Sent(req, ids) \in Seq(Songs)
<1>1. Reverse(ids) \in Seq(Songs)
  BY DEF Reverse
<1> QED
  BY <1>1 DEF Sent

\* What is left of an order without one version.
LEMMA RestFacts ==
    ASSUME NEW ids \in Seq(Songs), NEW s \in Range(ids), NEW rest, rest = RemoveAt(ids, Position(ids, s))
    PROVE  rest \in Seq(Songs) /\ Range(rest) \subseteq Range(ids) /\ Range(ids) \ {s} \subseteq Range(rest)
<1>1. PICK n : n = Position(ids, s)
  OBVIOUS
<1>2. n \in 1..Len(ids) /\ ids[n] = s
  BY <1>1, PositionFacts
<1>3. rest = SubSeq(ids, 1, n - 1) \o SubSeq(ids, n + 1, Len(ids))
  BY <1>1 DEF RemoveAt
<1>4. PICK a, b : a = SubSeq(ids, 1, n - 1) /\ b = SubSeq(ids, n + 1, Len(ids))
  OBVIOUS
<1>41. a \in Seq(Songs) /\ Len(a) = n - 1 /\ \A i \in 1..(n - 1) : a[i] = ids[i]
  BY <1>2, <1>4
<1>42. b \in Seq(Songs) /\ Len(b) = Len(ids) - n /\ \A i \in 1..(Len(ids) - n) : b[i] = ids[n + i]
  BY <1>2, <1>4
<1>43. rest = a \o b
  BY <1>3, <1>4
<1>5. rest \in Seq(Songs) /\ Len(rest) = Len(ids) - 1
  BY <1>2, <1>41, <1>42, <1>43
<1>6. ASSUME NEW i \in 1..(Len(ids) - 1) PROVE rest[i] = IF i < n THEN ids[i] ELSE ids[i + 1]
  <2>2. CASE i < n
    BY <1>2, <1>41, <1>42, <1>43, <2>2
  <2>3. CASE i >= n
    <3>1. rest[i] = b[i - (n - 1)] /\ i - (n - 1) \in 1..(Len(ids) - n)
      BY <1>2, <1>41, <1>42, <1>43, <2>3
    <3> QED
      BY <1>2, <1>42, <2>3, <3>1
  <2> QED
    BY <1>2, <2>2, <2>3
<1>7. ASSUME NEW t \in Range(rest) PROVE t \in Range(ids)
  <2>1. PICK i \in 1..(Len(ids) - 1) : rest[i] = t
    BY <1>5, <1>7 DEF Range
  <2> QED
    BY <1>2, <1>6, <2>1 DEF Range
<1>8. ASSUME NEW t \in Range(ids), t # s PROVE t \in Range(rest)
  <2>1. PICK i \in 1..Len(ids) : ids[i] = t
    BY DEF Range
  <2>2. i # n
    BY <1>2, <1>8, <2>1
  <2>3. CASE i < n
    <3>1. i \in DOMAIN rest /\ rest[i] = t
      BY <1>2, <1>5, <1>6, <2>1, <2>3
    <3> QED
      BY <3>1 DEF Range
  <2>4. CASE i > n
    <3>1. i - 1 \in DOMAIN rest /\ rest[i - 1] = t
      BY <1>2, <1>5, <1>6, <2>1, <2>4
    <3> QED
      BY <3>1 DEF Range
  <2> QED
    BY <1>2, <2>2, <2>3, <2>4
<1> QED
  BY <1>5, <1>7, <1>8

\* The order of a group is a sequence, and the same as long as its positions are.
LEMMA VersionOrderFacts ==
    ASSUME SongsTyped, RowsSound, VersionsAreOrdered, NEW g \in SongGroups
    PROVE  InVersionOrder(g) \in Seq(Songs)
<1> DEFINE R == {p \in Versions(g) \X Versions(g) : song[p[1]].order < song[p[2]].order}
<1>1. \A s \in Versions(g) : s \in Songs /\ song[s].order \in Nat /\ song[s].group = g /\ song[s] # NoSong
  <2>1. g # 0
    BY SongConstants
  <2> QED
    BY <2>1 DEF Versions, SongsTyped, SongRow, NoSong
<1>2. \A s, t \in Versions(g) : s # t => song[s].order # song[t].order
  BY <1>1 DEF VersionsAreOrdered
<1>3. StrictOrder(R, Versions(g))
  BY <1>1, <1>2 DEF StrictOrder
<1>4. PICK ids : ids = InVersionOrder(g) /\ ids \in SetToSeqs(Versions(g))
  BY <1>3, SortedFacts, VersionsFinite DEF InVersionOrder
<1>5. ids \in Seq(Versions(g))
  BY <1>4, LineOnto, VersionsFinite
<1> QED
  BY <1>4, <1>5, VersionsFinite

LEMMA SameOrderIsSame ==
    ASSUME NEW g, SameOrder(g)
    PROVE  InVersionOrder(g)' = InVersionOrder(g)
<1>1. {p \in Versions(g)' \X Versions(g)' : song'[p[1]].order < song'[p[2]].order}
      = {p \in Versions(g) \X Versions(g) : song[p[1]].order < song[p[2]].order}
  BY DEF SameOrder
<1>2. Versions(g)' = Versions(g)
  BY DEF SameOrder
<1> QED
  BY <1>1, <1>2 DEF InVersionOrder

\* SetToSeq lists a finite set without repeating an element.
LEMMA ListFacts ==
    ASSUME NEW S, IsFiniteSet(S)
    PROVE  /\ SetToSeq(S) \in Seq(S)
           /\ \A i, j \in DOMAIN SetToSeq(S) : SetToSeq(S)[i] = SetToSeq(S)[j] => i = j
<1>1. PICK n \in Nat : ExistsBijection(1..n, S)
  BY FS_NatBijection
<1>2. Cardinality(S) = n
  BY <1>1, FS_CountingElements
<1>3. PICK f : f \in [1..Cardinality(S) -> S] /\ IsInjective(f)
  BY <1>1, <1>2 DEF ExistsBijection, Bijection, Injection
<1>4. PICK s : s = SetToSeq(S) /\ s \in [1..Cardinality(S) -> S] /\ IsInjective(s)
  BY <1>3 DEF SetToSeq
<1>5. s \in Seq(S)
  BY <1>2, <1>4
<1> QED
  BY <1>4, <1>5 DEF IsInjective

----------------------------------------------------------------------------
(* What the others do leaves a request's claims true. *)
LEMMA RevisionsGrow ==
    ASSUME SongsTyped, SongsTyped', CatalogGrows
    PROVE  /\ \A s \in Songs : song[s].rev \in Nat /\ song'[s].rev \in Nat /\ song[s].rev <= song'[s].rev
           /\ \A g \in SongGroups :
                 songGroup[g].rev \in Nat /\ songGroup'[g].rev \in Nat /\ songGroup[g].rev <= songGroup'[g].rev
           /\ \A a \in Albums : album[a].rev \in Nat /\ album'[a].rev \in Nat /\ album[a].rev <= album'[a].rev
<1>1. \A s \in Songs : song[s].rev \in Nat /\ song'[s].rev \in Nat
  BY DEF SongsTyped, SongRow
<1>2. \A g \in SongGroups : songGroup[g].rev \in Nat /\ songGroup'[g].rev \in Nat
  BY DEF SongsTyped, SongGroupRow
<1>3. \A a \in Albums : album[a].rev \in Nat /\ album'[a].rev \in Nat
  BY DEF SongsTyped, AlbumRow
<1> QED
  BY <1>1, <1>2, <1>3 DEF CatalogGrows

LEMMA CatalogStays ==
    ASSUME SongInv, SongsTyped', NEW d \in Clients, txn'[d] = txn[d], NEW held, Leaves(held),
           \A lock \in txn[d].held : lock.mode = "update" => lock \notin held
    PROVE  CatalogSound(d)'
<1>1. CatalogSound(d) /\ SongRequest(txn[d].req) /\ SongsTyped /\ CatalogGrows
  BY DEF SongInv, SongRequests, SongState, Leaves
<1>2. /\ \A s \in Songs : song[s].rev \in Nat /\ song'[s].rev \in Nat /\ song[s].rev <= song'[s].rev
      /\ \A g \in SongGroups :
            songGroup[g].rev \in Nat /\ songGroup'[g].rev \in Nat /\ songGroup[g].rev <= songGroup'[g].rev
      /\ \A a \in Albums : album[a].rev \in Nat /\ album'[a].rev \in Nat /\ album[a].rev <= album'[a].rev
  BY <1>1, RevisionsGrow
<1>3. PICK t : t = txn[d] /\ t = txn'[d]
  OBVIOUS
<1>4. VersionFormSound(d)'
  <2>1. VersionFormSound(d)
    BY <1>1 DEF CatalogSound
  <2>2. t.req.kind = "create_version" => t.req.group \in SongGroups
    BY <1>1, <1>3 DEF SongRequest
  <2>3. t.req.kind \in {"update_version", "correct_ownership"} => t.req.song \in Songs
    BY <1>1, <1>3 DEF SongRequest
  <2> QED
    BY <1>2, <1>3, <2>1, <2>2, <2>3 DEF VersionFormSound
<1>5. CreationSound(d)'
  <2>1. CreationSound(d)
    BY <1>1 DEF CatalogSound
  <2>2. \A s \in Songs, owner \in STRING, title \in Nat :
           AsCreated(s, owner, title)' /\ TitleLock(title) \in t.held => AsCreated(s, owner, title)
    <3>1. ASSUME NEW title \in Nat, TitleLock(title) \in t.held PROVE TitleLock(title) \notin held
      BY <1>3, <3>1 DEF TitleLock, Lock
    <3> QED
      BY <3>1 DEF Leaves
  <2>3. SUFFICES ASSUME t.req.kind \in GroupCreations, t.at = "find", NEW item \in t.seen.new, NEW s \in Songs,
                        AsCreated(s, item.owner, item.title)'
                 PROVE  FALSE
    BY <1>3, <2>1 DEF CreationSound
  <2>4. /\ item \in t.req.items /\ TitleLock(item.title) \in t.held
        /\ ~AsCreated(s, item.owner, item.title)
    BY <1>3, <2>1, <2>3 DEF CreationSound
  <2>5. item.owner \in STRING /\ item.title \in Nat
    BY <1>1, <1>3, <2>3, <2>4 DEF SongRequest
  <2> QED
    BY <2>2, <2>3, <2>4, <2>5
<1>6. GroupFormSound(d)'
  <2>1. GroupFormSound(d)
    BY <1>1 DEF CatalogSound
  <2>2. t.req.kind = "update_group" => t.req.group \in SongGroups
    BY <1>1, <1>3 DEF SongRequest
  <2> QED
    BY <1>2, <1>3, <2>1, <2>2 DEF GroupFormSound
<1>7. MoveSound(d)'
  <2>1. MoveSound(d)
    BY <1>1 DEF CatalogSound
  <2>2. t.req.kind = "move_group" => t.req.song \in Songs /\ t.req.to \in SongGroups
    BY <1>1, <1>3 DEF SongRequest
  <2>3. \A s \in Songs : song'[s] = song[s] \/ song'[s].rev > song[s].rev
    BY <1>1 DEF CatalogGrows
  <2>4. SUFFICES ASSUME t.req.kind = "move_group" PROVE MoveSound(d)'
    BY <1>3 DEF MoveSound
  <2>5. t.at \in {"read", "song", "store"} => song'[t.req.song].rev > 0 /\ t.seen.rev \in Nat /\ t.seen.rev <= song'[t.req.song].rev
    BY <1>2, <1>3, <2>1, <2>2, <2>4 DEF MoveSound
  <2>6. t.at \in {"song", "store"} /\ song'[t.req.song].rev = t.seen.rev =>
           song'[t.req.song].group = t.seen.before /\ song'[t.req.song].label # Default
    BY <1>2, <1>3, <2>1, <2>2, <2>3, <2>4 DEF MoveSound
  <2>7. t.at = "store" => songGroup'[t.req.to].rev > 0
    BY <1>2, <1>3, <2>1, <2>2, <2>4 DEF MoveSound
  <2> QED
    BY <1>3, <2>1, <2>4, <2>5, <2>6, <2>7 DEF MoveSound
<1>8. EditSound(d)'
  <2>1. EditSound(d)
    BY <1>1 DEF CatalogSound
  <2>2. SUFFICES ASSUME t.req.kind = "edit_song", t.at \in {"groups", "store"} PROVE EditSound(d)'
    BY <1>3 DEF EditSound
  <2>3. PICK g, to : g = t.seen.group /\ to = t.req.to /\ g \in SongGroups /\ to \in SongGroups \union {0}
    BY <1>1, <1>3, <2>1, <2>2 DEF EditSound, SongRequest
  <2>4. /\ t.seen.groupRev \in Nat \ {0} /\ t.seen.groupRev <= songGroup[g].rev
        /\ songGroup[g].rev = t.seen.groupRev \/ t.at = "store" => InVersionOrder(g) = t.seen.ids
        /\ t.at = "store" => GroupLock(g) \in t.held
        /\ to # 0 => songGroup[to].rev > 0
    BY <1>3, <2>1, <2>2, <2>3 DEF EditSound
  <2>5. t.seen.groupRev <= songGroup'[g].rev /\ (to # 0 => songGroup'[to].rev > 0)
    BY <1>2, <2>3, <2>4
  <2>6. ASSUME songGroup'[g].rev = t.seen.groupRev \/ t.at = "store" PROVE InVersionOrder(g)' = t.seen.ids
    <3>1. SameOrder(g) /\ InVersionOrder(g) = t.seen.ids
      <4>1. CASE t.at = "store"
        <5>1. GroupLock(g) \notin held
          BY <1>3, <2>4, <4>1 DEF GroupLock, Lock
        <5> QED
          BY <1>2, <2>3, <2>4, <4>1, <5>1 DEF Leaves
      <4>2. CASE t.at # "store"
        <5>1. songGroup'[g].rev = songGroup[g].rev /\ songGroup[g].rev = t.seen.groupRev
          BY <1>2, <2>3, <2>4, <2>6, <4>2
        <5> QED
          BY <1>1, <1>2, <2>3, <2>4, <5>1 DEF CatalogGrows
      <4> QED
        BY <4>1, <4>2
    <3> QED
      BY <3>1, SameOrderIsSame
  <2> QED
    BY <1>3, <2>1, <2>2, <2>3, <2>5, <2>6 DEF EditSound
<1>9. AlbumSound(d)'
  <2>1. AlbumSound(d)
    BY <1>1 DEF CatalogSound
  <2>2. t.req.kind \in AlbumForms => t.req.album \in Albums
    BY <1>1, <1>3 DEF SongRequest
  <2>3. \A a \in Albums : album'[a] = album[a] \/ album'[a].rev > album[a].rev
    BY <1>1 DEF CatalogGrows
  <2>4. SUFFICES ASSUME t.req.kind \in AlbumForms PROVE AlbumSound(d)'
    BY <1>3 DEF AlbumSound
  <2>5. t.at \in {"read", "check", "store"} =>
           album'[t.req.album] # NoAlbum /\ t.seen.rev \in Nat /\ t.seen.rev <= album'[t.req.album].rev
    <3>1. \A a \in Albums : album[a] # NoAlbum => album'[a] # NoAlbum
      BY <1>2, <2>3 DEF NoAlbum
    <3> QED
      BY <1>2, <1>3, <2>1, <2>2, <2>4, <3>1 DEF AlbumSound
  <2>6. t.req.kind = "update_album_tracks" /\ t.at \in {"check", "store"} /\ album'[t.req.album].rev = t.seen.rev =>
           album'[t.req.album].name = t.seen.name
    BY <1>2, <1>3, <2>1, <2>2, <2>3, <2>4 DEF AlbumSound
  <2>7. ASSUME t.at = "store" PROVE AlbumLock(t.req.album) \in t.held /\ album'[t.req.album].rev = t.seen.rev
    <3>1. AlbumLock(t.req.album) \in t.held /\ album[t.req.album].rev = t.seen.rev /\ album[t.req.album] # NoAlbum
      BY <1>3, <2>1, <2>4, <2>7 DEF AlbumSound
    <3>2. AlbumLock(t.req.album) \notin held
      BY <1>3, <3>1 DEF AlbumLock, Lock
    <3>3. album'[t.req.album] = album[t.req.album]
      BY <2>2, <2>4, <3>1, <3>2 DEF Leaves
    <3> QED
      BY <3>1, <3>3
  <2> QED
    BY <1>3, <2>1, <2>4, <2>5, <2>6, <2>7 DEF AlbumSound
<1>10. txn'[d].req.kind \in SongKinds => Listed(txn'[d].plan)
  BY <1>1 DEF CatalogSound
<1> QED
  BY <1>4, <1>5, <1>6, <1>7, <1>8, <1>9, <1>10 DEF CatalogSound

(* One step of connection c: its own claims, and the tables. *)
LEMMA SongFrame ==
    ASSUME SongInv, NEW c \in Clients, TxnType', LocksApart', Others(c), workload' = workload,
           txn'[c].req \in workload \union {txn[c].req, NoRequest}, SongState', CatalogSound(c)',
           Leaves(txn[c].held)
    PROVE  SongInv'
<1>1. \A d \in Clients : CatalogSound(d)'
  <2>1. SUFFICES ASSUME NEW d \in Clients, d # c PROVE CatalogSound(d)'
    OBVIOUS
  <2>2. txn'[d] = txn[d] /\ SongsTyped'
    BY <2>1 DEF Others, SongState
  <2>3. ASSUME NEW lock \in txn[d].held, lock.mode = "update" PROVE lock \notin txn[c].held
    BY <2>1, <2>3 DEF SongInv, TxnInv, LocksApart, Conflict
  <2> QED
    BY <2>2, <2>3, CatalogStays
<1>2. SongRequest(NoRequest)
  BY DEF SongRequest, NoRequest, GroupCreations, AlbumForms
<1>3. SongRequests'
  <2>1. SongRequests
    BY DEF SongInv
  <2>2. \A d \in Clients : SongRequest(txn'[d].req)
    BY <1>2, <2>1 DEF SongRequests, Others
  <2> QED
    BY <2>1, <2>2 DEF SongRequests, SongRequest
<1> QED
  BY <1>1, <1>3 DEF SongInv, TxnInv

\* A step that leaves the catalogue alone.
LEMMA SameCatalog ==
    ASSUME SongInv, UNCHANGED songVars
    PROVE  SongState' /\ \A held : Leaves(held)
<1>1. song' = song /\ songGroup' = songGroup /\ album' = album /\ SongState
  BY DEF songVars, SongInv
<1>2. \A g : Versions(g)' = Versions(g)
  BY <1>1 DEF Versions
<1>3. SongState'
  BY <1>1, <1>2 DEF SongState, SongsTyped, RowsSound, VersionsAreOrdered, GroupsKeepADefault, CreatedTitlesDiffer
<1>4. CatalogGrows /\ \A g : SameOrder(g)
  BY <1>1, <1>2 DEF CatalogGrows, SameOrder
<1>5. \A s, owner, title : AsCreated(s, owner, title)' <=> AsCreated(s, owner, title)
  BY <1>1 DEF AsCreated
<1> QED
  BY <1>1, <1>3, <1>4, <1>5 DEF Leaves

LEMMA SameCatalogTurn ==
    ASSUME SongInv, NEW c \in Clients, Turn(c), UNCHANGED songVars, CatalogSound(c)'
    PROVE  SongInv'
<1>1. LocksApart'
  BY TurnKeepsApart DEF SongInv, TxnInv
<1> QED
  BY <1>1, SameCatalog, SongFrame DEF Turn

LEMMA OtherKindsSong ==
    ASSUME NEW c \in Clients, txn'[c].req.kind \notin SongKinds
    PROVE  CatalogSound(c)'
  BY DEF SongKinds, SongForms, CatalogSound, VersionFormSound, CreationSound, GroupFormSound, MoveSound,
         EditSound, AlbumSound, GroupCreations, AlbumForms

LEMMA SongFinish ==
    ASSUME SongInv, NEW c \in Clients, Finish(c)
    PROVE  Turn(c) /\ CatalogSound(c)'
<1>1. Turn(c) /\ txn'[c] = Idle
  BY FinishTurn DEF SongInv, TxnInv
<1>2. txn'[c].req.kind \notin SongKinds
  BY <1>1 DEF Idle, NoRequest, SongKinds, SongForms, GroupCreations
<1> QED
  BY <1>1, <1>2, OtherKindsSong

\* Lives, collections and venues.
LEMMA NotSongStep ==
    ASSUME SongInv, NEW c \in Clients, LivesNext(c) \/ CollectionsNext(c) \/ VenuesNext(c)
    PROVE  SongInv'
<1>1. PICK kinds : Turn(c) /\ OfKinds(txn'[c], kinds) /\ (kinds \union {"none"}) \cap SongKinds = {}
  <2>1. TxnType
    BY DEF SongInv, TxnInv
  <2>2. CASE CollectionsNext(c)
    <3>1. Turn(c) /\ OfKinds(txn'[c], CollectionKinds)
      BY <2>1, <2>2, CollectionTurn DEF CollectionsNext
    <3> QED
      BY <3>1 DEF CollectionKinds, SongKinds, SongForms
  <2>3. CASE LivesNext(c)
    <3>1. Turn(c) /\ OfKinds(txn'[c], AllLiveKinds)
      BY <2>1, <2>3, LiveTurn DEF LivesNext
    <3> QED
      BY <3>1 DEF AllLiveKinds, LiveKinds, FavoriteKinds, SetlistKinds, SongKinds, SongForms
  <2>4. CASE VenuesNext(c)
    <3>1. Turn(c) /\ OfKinds(txn'[c], VenueKinds)
      BY <2>1, <2>4, VenueTurn DEF VenuesNext
    <3> QED
      BY <3>1 DEF VenueKinds, FormKinds, SongKinds, SongForms
  <2> QED
    BY <2>2, <2>3, <2>4
<1>2. UNCHANGED songVars
  BY DEF LivesNext, CollectionsNext, VenuesNext
<1>3. CatalogSound(c)'
  BY <1>1, OtherKindsSong DEF OfKinds
<1> QED
  BY <1>1, <1>2, <1>3, SameCatalogTurn

LEMMA SongDatabaseStep ==
    ASSUME SongInv, NEW c \in Clients, DatabaseNext(c)
    PROVE  SongInv'
<1>1. UNCHANGED songVars
  BY DEF DatabaseNext
<1>2. CASE RollBack(c)
  BY <1>1, <1>2, SongFinish, SameCatalogTurn DEF RollBack
<1>3. CASE TakeLock(c)
  <2>1. /\ TxnType' /\ Others(c) /\ workload' = workload
        /\ txn'[c] = [at |-> txn[c].at, req |-> txn[c].req, seen |-> txn[c].seen,
                      plan |-> Tail(txn[c].plan), held |-> txn[c].held \union {Head(txn[c].plan)}]
    BY <1>3, TakeTurn DEF SongInv, TxnInv
  <2>2. LocksApart'
    BY <1>3, TakeKeepsApart DEF SongInv
  <2>3. CASE txn[c].req.kind \in SongKinds
    <3>0. /\ Listed(txn'[c].plan)
          /\ \A lock : Awaits(txn[c], lock) => Awaits(txn'[c], lock)
      BY <1>3, <2>3, TakenAwaits DEF SongInv, TxnInv, CatalogSound
    <3>1. CatalogSound(c)
      BY DEF SongInv
    <3>2. /\ txn'[c].at = txn[c].at /\ txn'[c].req = txn[c].req /\ txn'[c].seen = txn[c].seen
          /\ txn[c].held \subseteq txn'[c].held
      BY <2>1
    <3>3. song' = song /\ songGroup' = songGroup /\ album' = album
      BY <1>1 DEF songVars
    <3>4. /\ \A g : InVersionOrder(g)' = InVersionOrder(g)
          /\ \A s, owner, title : AsCreated(s, owner, title)' <=> AsCreated(s, owner, title)
      BY <3>3 DEF InVersionOrder, Versions, AsCreated
    <3>5. CatalogSound(c)'
      BY <3>0, <3>1, <3>2, <3>3, <3>4 DEF CatalogSound, VersionFormSound, CreationSound, GroupFormSound, MoveSound,
         EditSound, AlbumSound
    <3> QED
      BY <1>1, <2>1, <2>2, <3>5, SameCatalog, SongFrame
  <2>4. CASE txn[c].req.kind \notin SongKinds
    <3>1. CatalogSound(c)'
      BY <2>1, <2>4, OtherKindsSong
    <3> QED
      BY <1>1, <2>1, <2>2, <3>1, SameCatalog, SongFrame
  <2> QED
    BY <2>3, <2>4
<1> QED
  BY <1>2, <1>3 DEF DatabaseNext

----------------------------------------------------------------------------
(* The plans of the catalogue's statements. *)
LEMMA GroupLocksListed ==
    ASSUME NEW groups \in SUBSET SongGroups
    PROVE  Listed(GroupLocks(groups)) /\ \A g \in groups : \E i \in DOMAIN GroupLocks(groups) : GroupLocks(groups)[i] = GroupLock(g)
<1> DEFINE row == [g \in groups |-> GroupLock(g)]
<1>1. groups \in SUBSET Nat /\ IsFiniteSet(groups)
  BY SongConstants, FS_Subset
<1>2. \A i \in DOMAIN InOrder(groups) : InOrder(groups)[i] \in groups
  BY <1>1, InOrderFacts, LineOnto
<1>3. PICK plan : plan = GroupLocks(groups)
  OBVIOUS
<1>4. /\ DOMAIN plan = DOMAIN InOrder(groups) /\ plan = [i \in DOMAIN plan |-> plan[i]]
      /\ \A i \in DOMAIN plan : plan[i] = row[InOrder(groups)[i]]
  BY <1>2, <1>3 DEF GroupLocks
<1> HIDE DEF row
<1>5. Listed(plan) /\ \A g \in groups : \E i \in DOMAIN plan : plan[i] = row[g]
  BY <1>1, <1>4, InOrderListed
<1> QED
  BY <1>3, <1>5 DEF row

LEMMA SongLocksListed ==
    ASSUME NEW songs \in SUBSET Songs
    PROVE  Listed(SongLocks(songs))
<1> DEFINE row == [s \in songs |-> SongLock(s)]
<1>1. songs \in SUBSET Nat /\ IsFiniteSet(songs)
  BY SongConstants, FS_Subset
<1>2. \A i \in DOMAIN InOrder(songs) : InOrder(songs)[i] \in songs
  BY <1>1, InOrderFacts, LineOnto
<1>3. PICK plan : plan = SongLocks(songs)
  OBVIOUS
<1>4. /\ DOMAIN plan = DOMAIN InOrder(songs) /\ plan = [i \in DOMAIN plan |-> plan[i]]
      /\ \A i \in DOMAIN plan : plan[i] = row[InOrder(songs)[i]]
  BY <1>2, <1>3 DEF SongLocks
<1> HIDE DEF row
<1> QED
  BY <1>1, <1>3, <1>4, InOrderListed

LEMMA TitleLocksListed ==
    ASSUME NEW titles \in SUBSET Nat, IsFiniteSet(titles)
    PROVE  Listed(TitleLocks(titles)) /\ \A x \in titles : \E i \in DOMAIN TitleLocks(titles) : TitleLocks(titles)[i] = TitleLock(x)
<1> DEFINE row == [x \in titles |-> TitleLock(x)]
<1>1. \A i \in DOMAIN InOrder(titles) : InOrder(titles)[i] \in titles
  BY InOrderFacts, LineOnto
<1>2. PICK plan : plan = TitleLocks(titles)
  OBVIOUS
<1>3. /\ DOMAIN plan = DOMAIN InOrder(titles) /\ plan = [i \in DOMAIN plan |-> plan[i]]
      /\ \A i \in DOMAIN plan : plan[i] = row[InOrder(titles)[i]]
  BY <1>1, <1>2 DEF TitleLocks, TitleLock
<1> HIDE DEF row
<1>4. Listed(plan) /\ \A x \in titles : \E i \in DOMAIN plan : plan[i] = row[x]
  BY <1>3, InOrderListed
<1> QED
  BY <1>2, <1>4 DEF row

LEMMA TracksListed ==
    ASSUME NEW tracks \in Seq(Songs)
    PROVE  Listed(TrackKeys(tracks))
<1>1. PICK plan, S : plan = TrackKeys(tracks) /\ S = {Lock("key", <<"song", s>>) : s \in Songs}
  OBVIOUS
<1>2. DOMAIN tracks = 1..Len(tracks) /\ Len(tracks) \in Nat /\ \A i \in DOMAIN tracks : tracks[i] \in Songs
  OBVIOUS
<1>3. plan \in [1..Len(tracks) -> S]
  BY <1>1, <1>2 DEF TrackKeys
<1>4. plan \in Seq(S)
  BY <1>2, <1>3
<1> QED
  BY <1>1, <1>4, ListedFacts

\* A request makes the claims of its kind only.
LEMMA KindSound ==
    ASSUME NEW c \in Clients, Listed(txn'[c].plan),
           txn'[c].req.kind \in {"create_version", "update_version", "correct_ownership"} => VersionFormSound(c)',
           txn'[c].req.kind \in GroupCreations => CreationSound(c)',
           txn'[c].req.kind = "update_group" => GroupFormSound(c)',
           txn'[c].req.kind = "move_group" => MoveSound(c)',
           txn'[c].req.kind = "edit_song" => EditSound(c)',
           txn'[c].req.kind \in AlbumForms => AlbumSound(c)'
    PROVE  CatalogSound(c)'
  BY DEF CatalogSound, VersionFormSound, CreationSound, GroupFormSound, MoveSound, EditSound, AlbumSound

\* The connection's record after the step.
Now(c, step, req, seen, plan, held) ==
    /\ txn'[c].at = step /\ txn'[c].req = req /\ txn'[c].seen = seen
    /\ txn'[c].plan = plan /\ txn'[c].held = held

LEMMA SongContinues ==
    ASSUME SongInv, NEW c \in Clients, NEW step, NEW seen, NEW plan, Continue(c, step, seen, plan)
    PROVE  Turn(c) /\ Now(c, step, txn[c].req, seen, plan, txn[c].held)
<1>1. Turn(c) /\ txn'[c] = [at |-> step, req |-> txn[c].req, seen |-> seen, plan |-> plan, held |-> txn[c].held]
  BY ContinueTurn DEF SongInv, TxnInv
<1> QED
  BY <1>1 DEF Now

LEMMA SongStartStep ==
    ASSUME SongInv, NEW c \in Clients, NEW req \in workload, SongStart(c, req)
    PROVE  Turn(c) /\ CatalogSound(c)'
<1>1. ASSUME NEW step, NEW plan, Begin(c, req, step, plan)
      PROVE  Turn(c) /\ txn'[c] = [at |-> step, req |-> req, seen |-> <<>>, plan |-> plan, held |-> {}]
  BY <1>1, BeginTurn DEF SongInv, TxnInv
<1>2. CASE OpenCatalogForm(c, req)
  <2>1. Turn(c) /\ txn'[c] = [at |-> "form", req |-> req, seen |-> <<>>, plan |-> <<>>, held |-> {}] /\ req.kind \in SongForms
    BY <1>1, <1>2 DEF OpenCatalogForm
  <2>2. CatalogSound(c)'
    BY <2>1, ShortPlans DEF CatalogSound, VersionFormSound, CreationSound, GroupFormSound, MoveSound, EditSound,
       AlbumSound, SongForms, GroupCreations
  <2> QED
    BY <2>1, <2>2
<1>3. CASE StartCreateGroups(c, req)
  <2>1. PICK titles : titles = {item.title : item \in req.items}
    OBVIOUS
  <2>2. Turn(c) /\ txn'[c] = [at |-> "titles", req |-> req, seen |-> <<>>, plan |-> TitleLocks(titles), held |-> {}]
        /\ req.kind \in GroupCreations
    BY <1>1, <1>3, <2>1 DEF StartCreateGroups
  <2>3. req.items \subseteq [title : Nat, owner : STRING] /\ IsFiniteSet(req.items)
    BY <2>2 DEF SongInv, SongRequests, SongRequest
  <2>4. titles \in SUBSET Nat /\ IsFiniteSet(titles)
    <3> DEFINE f == [item \in req.items |-> item.title]
    <3>1. f \in Surjection(req.items, titles)
      BY <2>1 DEF Surjection
    <3>2. IsFiniteSet(titles)
      BY <2>3, <3>1, FS_Surjection
    <3> QED
      BY <2>1, <2>3, <3>2
  <2>5. CreationSound(c)'
    <3>1. ASSUME NEW item \in req.items PROVE Awaits(txn'[c], TitleLock(item.title))
      <4>1. item.title \in titles
        BY <2>1
      <4>2. PICK i \in DOMAIN TitleLocks(titles) : TitleLocks(titles)[i] = TitleLock(item.title)
        BY <2>4, <4>1, TitleLocksListed
      <4> QED
        BY <2>2, <4>2 DEF Awaits
    <3> QED
      BY <2>2, <3>1 DEF CreationSound, Awaits, TitleLock
  <2>6. CatalogSound(c)'
    BY <2>2, <2>4, <2>5, TitleLocksListed, KindSound DEF GroupCreations, AlbumForms
  <2> QED
    BY <2>2, <2>6
<1>4. CASE StartCreateAlbum(c, req)
  <2>1. PICK plan : plan = TrackKeys(req.tracks)
    OBVIOUS
  <2>2. Turn(c) /\ txn'[c] = [at |-> "store", req |-> req, seen |-> <<>>, plan |-> plan, held |-> {}] /\ req.kind = "create_album"
    BY <1>1, <1>4, <2>1 DEF StartCreateAlbum
  <2>3. Listed(plan)
    BY <2>1, <2>2, TracksListed DEF SongInv, SongRequests, SongRequest
  <2> QED
    BY <2>2, <2>3, KindSound DEF GroupCreations, AlbumForms
<1> QED
  BY <1>2, <1>3, <1>4 DEF SongStart

LEMMA AwaitedIsHeld ==
    ASSUME NEW t, t.plan = <<>>
    PROVE  \A lock : Awaits(t, lock) => lock \in t.held
<1>1. DOMAIN t.plan = {}
  OBVIOUS
<1> QED
  BY <1>1 DEF Awaits

LEMMA AwaitsOne ==
    ASSUME NEW t, NEW lock, t.plan = <<lock>>
    PROVE  Awaits(t, lock)
<1>1. 1 \in DOMAIN t.plan /\ t.plan[1] = lock
  OBVIOUS
<1> QED
  BY <1>1 DEF Awaits

\* The forms for versions.
LEMMA VersionFormSteps ==
    ASSUME SongInv, NEW c \in Clients, SendNewVersion(c) \/ SendVersionForm(c)
    PROVE  Turn(c) /\ UNCHANGED songVars /\ CatalogSound(c)'
<1>0. PICK t : t = txn[c]
  OBVIOUS
<1>1. SongsTyped /\ RowsSound /\ SongRequest(t.req)
  BY <1>0 DEF SongInv, SongState, SongRequests
<1>2. UNCHANGED songVars /\ song' = song /\ songGroup' = songGroup
  BY DEF SendNewVersion, SendVersionForm, songVars
<1>3. CASE SendNewVersion(c)
  <2>1. PICK seen : /\ Ready(c, {"create_version"}, "form") /\ songGroup[t.req.group] # NoSongGroup
                    /\ Continue(c, "store", seen, <<GroupLock(t.req.group)>>)
    BY <1>0, <1>3 DEF SendNewVersion
  <2>2. Turn(c) /\ Now(c, "store", t.req, seen, <<GroupLock(t.req.group)>>, t.held)
    BY <1>0, <2>1, SongContinues
  <2>3. t.req.kind = "create_version" /\ songGroup[t.req.group].rev > 0
    BY <1>0, <1>1, <2>1 DEF Ready, SongRequest, RowsSound
  <2>4. Awaits(txn'[c], GroupLock(txn'[c].req.group)) /\ Listed(txn'[c].plan)
    BY <1>0, <2>2, ShortPlans, AwaitsOne DEF Now
  <2>5. VersionFormSound(c)'
    BY <1>2, <2>2, <2>3, <2>4 DEF VersionFormSound, Now
  <2> QED
    BY <1>2, <2>2, <2>3, <2>4, <2>5, KindSound DEF GroupCreations, AlbumForms, Now
<1>4. CASE SendVersionForm(c)
  <2>1. PICK seen : /\ Ready(c, {"update_version", "correct_ownership"}, "form") /\ song[t.req.song] # NoSong
                    /\ Continue(c, "store", seen, <<SongLock(t.req.song)>>)
    BY <1>0, <1>4 DEF SendVersionForm
  <2>2. Turn(c) /\ Now(c, "store", t.req, seen, <<SongLock(t.req.song)>>, t.held)
    BY <1>0, <2>1, SongContinues
  <2>3. t.req.kind \in {"update_version", "correct_ownership"} /\ song[t.req.song].rev > 0
    BY <1>0, <1>1, <2>1 DEF Ready, SongRequest, RowsSound
  <2>4. VersionFormSound(c)'
    BY <1>2, <2>2, <2>3 DEF VersionFormSound, Now
  <2>5. Listed(txn'[c].plan)
    BY <2>2, ShortPlans DEF Now
  <2> QED
    BY <1>2, <2>2, <2>3, <2>4, <2>5, KindSound DEF GroupCreations, AlbumForms, Now
<1> QED
  BY <1>3, <1>4

\* What a batch finds missing has not been created under the locks of its titles.
LEMMA BeginItemsStep ==
    ASSUME SongInv, NEW c \in Clients, BeginItems(c)
    PROVE  Turn(c) /\ UNCHANGED songVars /\ CatalogSound(c)'
<1>1. PICK t, seen :
         /\ t = txn[c] /\ seen = [todo |-> t.req.items, new |-> {}]
         /\ Ready(c, GroupCreations, "titles") /\ Continue(c, "find", seen, <<>>) /\ UNCHANGED songVars
  BY DEF BeginItems
<1>2. Turn(c) /\ Now(c, "find", t.req, seen, <<>>, t.held)
  BY <1>1, SongContinues
<1>3. t.req.kind \in GroupCreations /\ t.at = "titles" /\ t.plan = <<>>
  BY <1>1 DEF Ready
<1>4. \A item \in t.req.items : TitleLock(item.title) \in t.held
  BY <1>1, <1>3, AwaitedIsHeld DEF SongInv, CatalogSound, CreationSound
<1>5. seen.todo = t.req.items /\ seen.new = {}
  BY <1>1
<1>6. CreationSound(c)'
  BY <1>2, <1>4, <1>5 DEF CreationSound, Now
<1>7. Listed(txn'[c].plan)
  BY <1>2, ShortPlans DEF Now
<1> QED
  BY <1>1, <1>2, <1>3, <1>6, <1>7, KindSound DEF GroupCreations, AlbumForms, Now

LEMMA FindStep ==
    ASSUME SongInv, NEW c \in Clients, FindDefaultVersion(c)
    PROVE  Turn(c) /\ UNCHANGED songVars /\ CatalogSound(c)'
<1>1. PICK t : t = txn[c]
  OBVIOUS
<1>2. t.req.kind \in GroupCreations /\ t.at = "find"
  BY <1>1 DEF FindDefaultVersion, Ready
<1>3. /\ t.seen.todo \subseteq t.req.items /\ t.seen.new \subseteq t.req.items
      /\ \A item \in t.req.items : TitleLock(item.title) \in t.held
      /\ \A item \in t.seen.new, s \in Songs : ~AsCreated(s, item.owner, item.title)
  BY <1>1, <1>2 DEF SongInv, CatalogSound, CreationSound
<1>4. UNCHANGED songVars /\ song' = song /\ songGroup' = songGroup
  BY DEF FindDefaultVersion, songVars
<1>5. PICK item \in t.seen.todo :
         LET found == DefaultVersions(item)
             todo == t.seen.todo \ {item}
         IN IF found = {}
            THEN Continue(c, "find", [todo |-> todo, new |-> t.seen.new \union {item}], <<>>)
            ELSE Continue(c, "find", [todo |-> todo, new |-> t.seen.new],
                          IF item \in t.req.covers THEN <<SongLock(Min(found))>> ELSE <<>>)
  BY <1>1 DEF FindDefaultVersion
<1>6. PICK todo, new, plan :
         /\ Continue(c, "find", [todo |-> todo, new |-> new], plan) /\ Listed(plan)
         /\ todo \subseteq t.seen.todo /\ new \subseteq t.req.items
         /\ \A x \in new : x \in t.seen.new \/ DefaultVersions(x) = {}
  <2>1. CASE DefaultVersions(item) = {}
    <3>1. PICK new : new = t.seen.new \union {item}
      OBVIOUS
    <3>2. Continue(c, "find", [todo |-> t.seen.todo \ {item}, new |-> new], <<>>)
      BY <1>5, <2>1, <3>1
    <3>3. new \subseteq t.req.items /\ \A x \in new : x \in t.seen.new \/ DefaultVersions(x) = {}
      BY <1>3, <2>1, <3>1
    <3> QED
      BY <3>2, <3>3, ShortPlans
  <2>2. CASE DefaultVersions(item) # {}
    <3>1. PICK keys : keys = IF item \in t.req.covers THEN <<SongLock(Min(DefaultVersions(item)))>> ELSE <<>>
      OBVIOUS
    <3>2. Listed(keys)
      BY <3>1, ShortPlans
    <3>3. Continue(c, "find", [todo |-> t.seen.todo \ {item}, new |-> t.seen.new], keys)
      BY <1>5, <2>2, <3>1
    <3> QED
      BY <1>3, <3>2, <3>3
  <2> QED
    BY <2>1, <2>2
<1>7. PICK seen : seen = [todo |-> todo, new |-> new]
  OBVIOUS
<1>8. Turn(c) /\ Now(c, "find", t.req, seen, plan, t.held)
  BY <1>1, <1>6, <1>7, SongContinues
<1>9. ASSUME NEW x \in new, NEW s \in Songs PROVE ~AsCreated(s, x.owner, x.title)'
  <2>1. AsCreated(s, x.owner, x.title)' => AsCreated(s, x.owner, x.title)
    BY <1>4 DEF AsCreated
  <2>2. AsCreated(s, x.owner, x.title) => s \in DefaultVersions(x)
    <3>1. AsCreated(s, x.owner, x.title) => song[s] # NoSong
      BY DEF AsCreated, NoSong
    <3> QED
      BY <3>1 DEF AsCreated, DefaultVersions
  <2> QED
    BY <1>3, <1>6, <2>1, <2>2
<1>10. CreationSound(c)'
  <2>1. seen.todo = todo /\ seen.new = new
    BY <1>7
  <2> QED
    BY <1>3, <1>6, <1>8, <1>9, <2>1 DEF CreationSound, Now
<1>11. Listed(txn'[c].plan)
  BY <1>6, <1>8 DEF Now
<1> QED
  BY <1>2, <1>4, <1>8, <1>10, <1>11, KindSound DEF GroupCreations, AlbumForms, Now

LEMMA GroupFormSteps ==
    ASSUME SongInv, NEW c \in Clients, SendGroupForm(c) \/ LockGroupSongs(c)
    PROVE  Turn(c) /\ UNCHANGED songVars /\ CatalogSound(c)'
<1>0. PICK t, g : t = txn[c] /\ g = t.req.group
  OBVIOUS
<1>1. SongsTyped /\ RowsSound /\ VersionsAreOrdered /\ SongRequest(t.req) /\ GroupFormSound(c)
  BY <1>0 DEF SongInv, SongState, SongRequests, CatalogSound
<1>2. UNCHANGED songVars /\ song' = song /\ songGroup' = songGroup
  BY DEF SendGroupForm, LockGroupSongs, songVars
<1>3. CASE SendGroupForm(c)
  <2>1. PICK ids, rev : /\ Ready(c, {"update_group"}, "form") /\ songGroup[g] # NoSongGroup
                        /\ ids = InVersionOrder(g)
                        /\ Continue(c, "songs", [rev |-> rev, ids |-> ids], <<GroupLock(g)>>)
    BY <1>0, <1>3 DEF SendGroupForm
  <2>2. Turn(c) /\ Now(c, "songs", t.req, [rev |-> rev, ids |-> ids], <<GroupLock(g)>>, t.held)
    BY <1>0, <2>1, SongContinues
  <2>3. t.req.kind = "update_group" /\ g \in SongGroups
    BY <1>0, <1>1, <2>1 DEF Ready, SongRequest
  <2>4. songGroup[g].rev > 0 /\ ids \in Seq(Songs)
    BY <1>1, <2>1, <2>3, VersionOrderFacts DEF RowsSound
  <2>5. Awaits(txn'[c], GroupLock(txn'[c].req.group)) /\ Listed(txn'[c].plan)
    BY <1>0, <2>2, ShortPlans, AwaitsOne DEF Now
  <2>6. GroupFormSound(c)'
    BY <1>0, <1>2, <2>2, <2>4, <2>5 DEF GroupFormSound, Now
  <2> QED
    BY <1>2, <2>2, <2>3, <2>5, <2>6, KindSound DEF GroupCreations, AlbumForms, Now
<1>4. CASE LockGroupSongs(c)
  <2>1. Ready(c, {"update_group"}, "songs") /\ Continue(c, "store", t.seen, SongLocks(Versions(g)))
    BY <1>0, <1>4 DEF LockGroupSongs
  <2>2. Turn(c) /\ Now(c, "store", t.req, t.seen, SongLocks(Versions(g)), t.held)
    BY <1>0, <2>1, SongContinues
  <2>3. t.req.kind = "update_group" /\ t.at = "songs" /\ t.plan = <<>>
    BY <1>0, <2>1 DEF Ready
  <2>4. t.seen.ids \in Seq(Songs) /\ songGroup[g].rev > 0 /\ GroupLock(g) \in t.held
    BY <1>0, <1>1, <2>3, AwaitedIsHeld DEF GroupFormSound
  <2>5. GroupFormSound(c)'
    <3>1. Awaits(txn'[c], GroupLock(txn'[c].req.group))
      BY <1>0, <2>2, <2>4 DEF Now, Awaits
    <3> QED
      BY <1>0, <1>2, <2>2, <2>4, <3>1 DEF GroupFormSound, Now
  <2>6. Listed(txn'[c].plan)
    BY <2>2, SongLocksListed, VersionsFinite DEF Now
  <2> QED
    BY <1>2, <2>2, <2>3, <2>5, <2>6, KindSound DEF GroupCreations, AlbumForms, Now
<1> QED
  BY <1>3, <1>4

\* A move: the revision that it began with vouches for the group it read.
LEMMA MoveFormSteps ==
    ASSUME SongInv, NEW c \in Clients, SendMove(c) \/ ReadSource(c) \/ LockMovedSong(c)
    PROVE  Turn(c) /\ UNCHANGED songVars /\ CatalogSound(c)'
<1>0. PICK t, s, to : t = txn[c] /\ s = t.req.song /\ to = t.req.to
  OBVIOUS
<1>1. SongsTyped /\ RowsSound /\ SongRequest(t.req) /\ MoveSound(c)
  BY <1>0 DEF SongInv, SongState, SongRequests, CatalogSound
<1>2. UNCHANGED songVars /\ song' = song /\ songGroup' = songGroup
  BY DEF SendMove, ReadSource, LockMovedSong, songVars
<1>3. \A x \in Songs : song[x].rev \in Nat /\ (song[x].rev > 0 => song[x] # NoSong)
  BY <1>1 DEF SongsTyped, SongRow, NoSong
<1>4. CASE SendMove(c)
  <2>1. PICK rev, seen : /\ Ready(c, {"move_group"}, "form") /\ song[s] # NoSong /\ rev = song[s].rev
                         /\ seen = [rev |-> rev] /\ Continue(c, "read", seen, <<>>)
    BY <1>0, <1>4 DEF SendMove
  <2>2. Turn(c) /\ Now(c, "read", t.req, seen, <<>>, t.held)
    BY <1>0, <2>1, SongContinues
  <2>3. t.req.kind = "move_group" /\ s \in Songs
    BY <1>0, <1>1, <2>1 DEF Ready, SongRequest
  <2>4. song[s].rev > 0 /\ song[s].rev \in Nat /\ seen.rev = song[s].rev
    BY <1>1, <1>3, <2>1, <2>3 DEF RowsSound
  <2>5. MoveSound(c)'
    BY <1>0, <1>2, <2>2, <2>4 DEF MoveSound, Now
  <2>6. Listed(txn'[c].plan)
    BY <2>2, ShortPlans DEF Now
  <2> QED
    BY <1>2, <2>2, <2>3, <2>5, <2>6, KindSound DEF GroupCreations, AlbumForms, Now
<1>5. CASE ReadSource(c)
  <2>1. PICK before, seen :
           /\ Ready(c, {"move_group"}, "read") /\ before = song[s].group /\ song[s].label # Default
           /\ seen = [rev |-> t.seen.rev, before |-> before]
           /\ Continue(c, "song", seen, GroupLocks({before, to}))
    BY <1>0, <1>5 DEF ReadSource
  <2>2. Turn(c) /\ Now(c, "song", t.req, seen, GroupLocks({before, to}), t.held)
    BY <1>0, <2>1, SongContinues
  <2>3. t.req.kind = "move_group" /\ t.at = "read" /\ s \in Songs /\ to \in SongGroups
    BY <1>0, <1>1, <2>1 DEF Ready, SongRequest
  <2>4. song[s].rev > 0 /\ t.seen.rev \in Nat /\ t.seen.rev <= song[s].rev
    BY <1>0, <1>1, <2>3 DEF MoveSound
  <2>5. {before, to} \in SUBSET SongGroups
    BY <1>1, <1>3, <2>1, <2>3, <2>4 DEF RowsSound
  <2>6. seen.rev = t.seen.rev /\ seen.before = before
    BY <2>1
  <2>7. Awaits(txn'[c], GroupLock(txn'[c].seen.before)) /\ Awaits(txn'[c], GroupLock(txn'[c].req.to))
    BY <1>0, <2>2, <2>5, <2>6, GroupLocksListed DEF Awaits, Now
  <2>8. MoveSound(c)'
    BY <1>0, <1>2, <2>1, <2>2, <2>4, <2>6, <2>7 DEF MoveSound, Now
  <2>9. Listed(txn'[c].plan)
    BY <2>2, <2>5, GroupLocksListed DEF Now
  <2> QED
    BY <1>2, <2>2, <2>3, <2>8, <2>9, KindSound DEF GroupCreations, AlbumForms, Now
<1>6. CASE LockMovedSong(c)
  <2>1. /\ Ready(c, {"move_group"}, "song") /\ songGroup[to] # NoSongGroup
        /\ Continue(c, "store", t.seen, <<SongLock(s)>>)
    BY <1>0, <1>6 DEF LockMovedSong
  <2>2. Turn(c) /\ Now(c, "store", t.req, t.seen, <<SongLock(s)>>, t.held)
    BY <1>0, <2>1, SongContinues
  <2>3. t.req.kind = "move_group" /\ t.at = "song" /\ t.plan = <<>> /\ to \in SongGroups
    BY <1>0, <1>1, <2>1 DEF Ready, SongRequest
  <2>4. /\ song[s].rev > 0 /\ t.seen.rev \in Nat /\ t.seen.rev <= song[s].rev
        /\ song[s].rev = t.seen.rev => song[s].group = t.seen.before /\ song[s].label # Default
        /\ GroupLock(t.seen.before) \in t.held /\ GroupLock(t.req.to) \in t.held
    BY <1>0, <1>1, <2>3, AwaitedIsHeld DEF MoveSound
  <2>5. songGroup[to].rev > 0
    BY <1>1, <2>1, <2>3 DEF RowsSound
  <2>6. Awaits(txn'[c], GroupLock(txn'[c].seen.before)) /\ Awaits(txn'[c], GroupLock(txn'[c].req.to))
    BY <2>2, <2>4 DEF Awaits, Now
  <2>7. MoveSound(c)'
    BY <1>0, <1>2, <2>2, <2>4, <2>5, <2>6 DEF MoveSound, Now
  <2>8. Listed(txn'[c].plan)
    BY <2>2, ShortPlans DEF Now
  <2> QED
    BY <1>2, <2>2, <2>3, <2>7, <2>8, KindSound DEF GroupCreations, AlbumForms, Now
<1> QED
  BY <1>4, <1>5, <1>6

\* An edit: the revision of the group vouches for the order of its versions.
LEMMA EditFormSteps ==
    ASSUME SongInv, NEW c \in Clients, SendEdit(c) \/ LockEditedSongs(c)
    PROVE  Turn(c) /\ UNCHANGED songVars /\ CatalogSound(c)'
<1>0. PICK t, s, to : t = txn[c] /\ s = t.req.song /\ to = t.req.to
  OBVIOUS
<1>1. SongsTyped /\ RowsSound /\ VersionsAreOrdered /\ SongRequest(t.req) /\ EditSound(c)
  BY <1>0 DEF SongInv, SongState, SongRequests, CatalogSound
<1>2. UNCHANGED songVars /\ song' = song /\ songGroup' = songGroup
  BY DEF SendEdit, LockEditedSongs, songVars
<1>3. \A g : InVersionOrder(g)' = InVersionOrder(g)
  BY <1>2 DEF InVersionOrder, Versions
<1>4. \A h \in SongGroups : songGroup[h].rev \in Nat
  BY <1>1 DEF SongsTyped, SongGroupRow
<1>5. CASE SendEdit(c)
  <2>1. PICK g, groups, toRev, rev, seen :
           /\ Ready(c, {"edit_song"}, "form") /\ g = song[s].group /\ groups = {g, to} \ {0}
           /\ song[s] # NoSong /\ to # g
           /\ seen = [rev |-> rev, group |-> g, groupRev |-> songGroup[g].rev, toRev |-> toRev, ids |-> InVersionOrder(g)]
           /\ Continue(c, "groups", seen, GroupLocks(groups))
    BY <1>0, <1>5 DEF SendEdit
  <2>2. Turn(c) /\ Now(c, "groups", t.req, seen, GroupLocks(groups), t.held)
    BY <1>0, <2>1, SongContinues
  <2>3. t.req.kind = "edit_song" /\ s \in Songs /\ to \in SongGroups \union {0}
    BY <1>0, <1>1, <2>1 DEF Ready, SongRequest
  <2>4. g \in SongGroups /\ songGroup[g].rev > 0 /\ songGroup[g].rev \in Nat \ {0} /\ g # 0 /\ to # g
    <3>1. song[s] # NoSong /\ g = song[s].group /\ to # g
      BY <2>1
    <3>2. g \in SongGroups /\ songGroup[g].rev > 0
      BY <1>1, <2>3, <3>1 DEF RowsSound
    <3>3. songGroup[g].rev \in Nat
      BY <1>4, <3>2
    <3>4. g # 0
      BY <3>2, SongConstants
    <3> QED
      BY <3>1, <3>2, <3>3, <3>4
  <2>5. to # 0 => songGroup[to].rev > 0
    BY <1>0, <1>1, <1>5, <2>3 DEF RowsSound, SendEdit
  <2>6. groups \in SUBSET SongGroups /\ g \in groups /\ (to # 0 => to \in groups)
    BY <2>1, <2>3, <2>4
  <2>7. seen.group = g /\ seen.groupRev = songGroup[g].rev /\ seen.ids = InVersionOrder(g)
    BY <2>1
  <2>8. Awaits(txn'[c], GroupLock(txn'[c].seen.group)) /\ (to # 0 => Awaits(txn'[c], GroupLock(txn'[c].req.to)))
    BY <1>0, <2>2, <2>6, <2>7, GroupLocksListed DEF Awaits, Now
  <2>9. seen.ids \in Seq(Songs)
    BY <1>1, <2>4, <2>7, VersionOrderFacts
  <2>10. EditSound(c)'
    BY <1>0, <1>2, <1>3, <2>2, <2>4, <2>5, <2>7, <2>8, <2>9 DEF EditSound, Now
  <2>11. Listed(txn'[c].plan)
    BY <2>2, <2>6, GroupLocksListed DEF Now
  <2> QED
    BY <1>2, <2>2, <2>3, <2>10, <2>11, KindSound DEF GroupCreations, AlbumForms, Now
<1>6. CASE LockEditedSongs(c)
  <2>1. PICK g : /\ g = t.seen.group /\ Ready(c, {"edit_song"}, "groups") /\ songGroup[g].rev = t.seen.groupRev
                 /\ Continue(c, "store", t.seen, SongLocks(Versions(g)))
    BY <1>0, <1>6 DEF LockEditedSongs
  <2>2. Turn(c) /\ Now(c, "store", t.req, t.seen, SongLocks(Versions(g)), t.held)
    BY <1>0, <2>1, SongContinues
  <2>3. t.req.kind = "edit_song" /\ t.at = "groups" /\ t.plan = <<>>
    BY <1>0, <2>1 DEF Ready
  <2>4. /\ g \in SongGroups /\ to # g /\ t.seen.ids \in Seq(Songs)
        /\ t.seen.groupRev \in Nat \ {0} /\ t.seen.groupRev <= songGroup[g].rev
        /\ InVersionOrder(g) = t.seen.ids
        /\ to # 0 => songGroup[to].rev > 0
    BY <1>0, <1>1, <2>1, <2>3 DEF EditSound
  <2>5. GroupLock(g) \in t.held /\ (to # 0 => GroupLock(to) \in t.held)
    BY <1>0, <1>1, <2>1, <2>3, AwaitedIsHeld DEF EditSound
  <2>6. /\ Awaits(txn'[c], GroupLock(txn'[c].seen.group)) /\ GroupLock(txn'[c].seen.group) \in txn'[c].held
        /\ to # 0 => Awaits(txn'[c], GroupLock(txn'[c].req.to))
    BY <1>0, <2>1, <2>2, <2>5 DEF Awaits, Now
  <2>7. EditSound(c)'
    BY <1>0, <1>2, <1>3, <2>1, <2>2, <2>4, <2>6 DEF EditSound, Now
  <2>8. Listed(txn'[c].plan)
    BY <2>2, SongLocksListed, VersionsFinite DEF Now
  <2> QED
    BY <1>2, <2>2, <2>3, <2>7, <2>8, KindSound DEF GroupCreations, AlbumForms, Now
<1> QED
  BY <1>5, <1>6

\* The name that update_album_tracks read is the name as long as the revision is.
LEMMA AlbumFormSteps ==
    ASSUME SongInv, NEW c \in Clients, SendAlbumForm(c) \/ ReadAlbum(c) \/ CheckAlbum(c)
    PROVE  Turn(c) /\ UNCHANGED songVars /\ CatalogSound(c)'
<1>0. PICK t, a, lock : t = txn[c] /\ a = t.req.album /\ lock = AlbumLock(a)
  OBVIOUS
<1>1. SongsTyped /\ SongRequest(t.req) /\ AlbumSound(c)
  BY <1>0 DEF SongInv, SongState, SongRequests, CatalogSound
<1>2. UNCHANGED songVars /\ album' = album
  BY DEF SendAlbumForm, ReadAlbum, CheckAlbum, songVars
<1>3. \A b \in Albums : album[b].rev \in Nat /\ album[b].name \in STRING
  BY <1>1 DEF SongsTyped, AlbumRow
<1>4. CASE SendAlbumForm(c)
  <2>1. Ready(c, AlbumForms, "form") /\ album[a] # NoAlbum
    BY <1>0, <1>4 DEF SendAlbumForm
  <2>2. t.req.kind \in AlbumForms /\ a \in Albums
    BY <1>0, <1>1, <2>1 DEF Ready, SongRequest
  <2>3. CASE t.req.kind = "save_album"
    <3>1. PICK seen : seen = [rev |-> album[a].rev, name |-> t.req.name] /\ Continue(c, "check", seen, <<lock>>)
      BY <1>0, <1>4, <2>3 DEF SendAlbumForm
    <3>2. Turn(c) /\ Now(c, "check", t.req, seen, <<lock>>, t.held)
      BY <1>0, <3>1, SongContinues
    <3>3. seen.rev = album[a].rev /\ seen.name = t.req.name /\ t.req.name \in STRING
      BY <1>1, <2>3, <3>1 DEF SongRequest
    <3>4. Awaits(txn'[c], AlbumLock(a))
      BY <1>0, <3>2, AwaitsOne DEF Now
    <3>5. AlbumSound(c)'
      BY <1>0, <1>2, <1>3, <2>1, <2>2, <2>3, <3>2, <3>3, <3>4 DEF AlbumSound, Now
    <3>6. Listed(txn'[c].plan)
      BY <3>2, ShortPlans DEF Now
    <3> QED
      BY <1>2, <2>3, <3>2, <3>5, <3>6, KindSound DEF GroupCreations, Now
  <2>4. CASE t.req.kind # "save_album"
    <3>1. PICK seen : seen = [rev |-> album[a].rev] /\ Continue(c, "read", seen, <<>>)
      BY <1>0, <1>4, <2>4 DEF SendAlbumForm
    <3>2. Turn(c) /\ Now(c, "read", t.req, seen, <<>>, t.held)
      BY <1>0, <3>1, SongContinues
    <3>3. seen.rev = album[a].rev
      BY <3>1
    <3>4. AlbumSound(c)'
      BY <1>0, <1>2, <1>3, <2>1, <2>2, <3>2, <3>3 DEF AlbumSound, Now
    <3>5. Listed(txn'[c].plan)
      BY <3>2, ShortPlans DEF Now
    <3> QED
      BY <1>2, <2>2, <2>4, <3>2, <3>4, <3>5, KindSound DEF GroupCreations, AlbumForms, Now
  <2> QED
    BY <2>3, <2>4
<1>5. CASE ReadAlbum(c)
  <2>1. PICK seen : /\ Ready(c, {"update_album_tracks"}, "read") /\ seen = [rev |-> t.seen.rev, name |-> album[a].name]
                    /\ Continue(c, "check", seen, <<lock>>)
    BY <1>0, <1>5 DEF ReadAlbum
  <2>2. Turn(c) /\ Now(c, "check", t.req, seen, <<lock>>, t.held)
    BY <1>0, <2>1, SongContinues
  <2>3. t.req.kind = "update_album_tracks" /\ t.at = "read" /\ a \in Albums
    BY <1>0, <1>1, <2>1 DEF Ready, SongRequest, AlbumForms
  <2>4. /\ album[a] # NoAlbum /\ t.seen.rev \in Nat /\ t.seen.rev <= album[a].rev
        /\ seen.rev = t.seen.rev /\ seen.name = album[a].name
    BY <1>0, <1>1, <2>1, <2>3 DEF AlbumSound, AlbumForms
  <2>5. Awaits(txn'[c], AlbumLock(a))
    BY <1>0, <2>2, AwaitsOne DEF Now
  <2>6. AlbumSound(c)'
    BY <1>0, <1>2, <1>3, <2>2, <2>3, <2>4, <2>5 DEF AlbumSound, Now
  <2>7. Listed(txn'[c].plan)
    BY <2>2, ShortPlans DEF Now
  <2> QED
    BY <1>2, <2>2, <2>3, <2>6, <2>7, KindSound DEF GroupCreations, Now
<1>6. CASE CheckAlbum(c)
  <2>1. PICK plan : /\ Ready(c, AlbumForms, "check") /\ album[a].rev = t.seen.rev
                    /\ plan = (IF t.req.replaces THEN TrackKeys(t.req.tracks) ELSE <<>>)
                    /\ Continue(c, "store", t.seen, plan)
    BY <1>0, <1>6 DEF CheckAlbum
  <2>2. Turn(c) /\ Now(c, "store", t.req, t.seen, plan, t.held)
    BY <1>0, <2>1, SongContinues
  <2>3. t.req.kind \in AlbumForms /\ t.at = "check" /\ t.plan = <<>> /\ a \in Albums /\ t.req.tracks \in Seq(Songs)
    BY <1>0, <1>1, <2>1 DEF Ready, SongRequest
  <2>4. AlbumLock(a) \in t.held
    BY <1>0, <1>1, <2>3, AwaitedIsHeld DEF AlbumSound
  <2>5. AlbumSound(c)'
    BY <1>0, <1>1, <1>2, <2>1, <2>2, <2>3, <2>4 DEF AlbumSound, Now, Awaits
  <2>6. Listed(txn'[c].plan)
    BY <2>1, <2>2, <2>3, TracksListed, ShortPlans DEF Now
  <2> QED
    BY <1>2, <2>2, <2>3, <2>5, <2>6, KindSound DEF GroupCreations, AlbumForms, Now
<1> QED
  BY <1>4, <1>5, <1>6

----------------------------------------------------------------------------
(* The steps that write the catalogue. *)
LEMMA RowFacts ==
    ASSUME SongsTyped, RowsSound
    PROVE  /\ \A s \in Songs :
                 /\ song[s].rev \in Nat /\ song[s].order \in Nat /\ song[s].label \in STRING
                 /\ song[s].owner \in STRING /\ song[s].group \in SongGroups \union {0}
                 /\ (song[s].rev > 0 \/ song[s].group \in SongGroups <=> song[s] # NoSong)
                 /\ (song[s] # NoSong => song[s].rev > 0 /\ song[s].group \in SongGroups /\ songGroup[song[s].group].rev > 0)
           /\ \A g \in SongGroups :
                 /\ songGroup[g].rev \in Nat /\ songGroup[g].title \in Nat
                 /\ (songGroup[g].rev > 0 <=> songGroup[g] # NoSongGroup)
           /\ 0 \notin SongGroups
<1>1. 0 \notin SongGroups
  BY SongConstants
<1>2. NoSong.rev = 0 /\ NoSong.group = 0 /\ NoSongGroup.rev = 0
  BY DEF NoSong, NoSongGroup
<1>3. ASSUME NEW g \in SongGroups
      PROVE  songGroup[g].rev \in Nat /\ songGroup[g].title \in Nat /\ (songGroup[g].rev > 0 <=> songGroup[g] # NoSongGroup)
  BY <1>2 DEF SongsTyped, RowsSound, SongGroupRow
<1>4. ASSUME NEW s \in Songs
      PROVE  /\ song[s].rev \in Nat /\ song[s].order \in Nat /\ song[s].label \in STRING
             /\ song[s].owner \in STRING /\ song[s].group \in SongGroups \union {0}
  BY DEF SongsTyped, SongRow
<1>5. ASSUME NEW s \in Songs
      PROVE  /\ (song[s].rev > 0 \/ song[s].group \in SongGroups <=> song[s] # NoSong)
             /\ (song[s] # NoSong => song[s].rev > 0 /\ song[s].group \in SongGroups /\ songGroup[song[s].group].rev > 0)
  BY <1>1, <1>2, <1>4 DEF RowsSound
<1> QED
  BY <1>1, <1>3, <1>4, <1>5

\* A write that creates no version of a new group creates no title.
LEMMA NothingCreated ==
    ASSUME SongInv, SongsTyped',
           \A g \in SongGroups : songGroup'[g] = songGroup[g] \/ songGroup'[g].rev > songGroup[g].rev,
           \A s \in Songs : song'[s] = song[s] \/ song'[s].rev > song[s].rev,
           \A s \in Songs : song[s].rev = 0 /\ song'[s] # song[s] => songGroup'[song'[s].group].rev # 1
    PROVE  CreatedTitlesDiffer' /\ \A s \in Songs : \A owner, title : AsCreated(s, owner, title)' => AsCreated(s, owner, title)
<1>0. SongsTyped /\ RowsSound /\ CreatedTitlesDiffer
  BY DEF SongInv, SongState
<1>1. ASSUME NEW s \in Songs, song'[s].rev = 1, songGroup'[song'[s].group].rev = 1
      PROVE  song'[s] = song[s] /\ songGroup'[song[s].group] = songGroup[song[s].group]
  <2>1. song[s].rev \in Nat /\ song'[s].rev \in Nat
    BY <1>0, RowFacts DEF SongsTyped, SongRow
  <2>2. song'[s] = song[s]
    BY <1>1, <2>1
  <2>3. song[s].group \in SongGroups /\ songGroup[song[s].group].rev > 0
    BY <1>0, <1>1, <2>2, RowFacts
  <2>4. songGroup[song[s].group].rev \in Nat /\ songGroup'[song[s].group].rev = 1
    BY <1>0, <1>1, <2>2, <2>3, RowFacts
  <2> QED
    BY <2>2, <2>3, <2>4
<1>2. ASSUME NEW s \in Songs, NEW owner, NEW title, AsCreated(s, owner, title)'
      PROVE  AsCreated(s, owner, title)
  BY <1>1, <1>2 DEF AsCreated
<1>3. CreatedTitlesDiffer'
  BY <1>0, <1>1 DEF CreatedTitlesDiffer
<1> QED
  BY <1>2, <1>3

LEMMA CatalogChange ==
    ASSUME SongInv, SongsTyped', UNCHANGED album, NEW held,
           \A g \in SongGroups : songGroup'[g] = songGroup[g] \/ songGroup'[g].rev > songGroup[g].rev,
           \A s \in Songs : song'[s] = song[s] \/
              (song'[s].rev > song[s].rev /\ song'[s].group \in SongGroups /\ songGroup'[song'[s].group].rev > 0),
           \A s \in Songs : song[s].rev > 0 /\ song[s].label = Default =>
              song'[s].label = Default /\ song'[s].group = song[s].group,
           \A g \in SongGroups : songGroup[g].rev = 0 /\ songGroup'[g].rev > 0 =>
              \E s \in Songs : song'[s].group = g /\ song'[s].label = Default,
           \A g \in SongGroups : songGroup[g].rev > 0 =>
              SameOrder(g) \/ (GroupLock(g) \in held /\ songGroup'[g].rev > songGroup[g].rev),
           VersionsAreOrdered', CreatedTitlesDiffer',
           \A s \in Songs : \A owner, title :
              AsCreated(s, owner, title)' /\ TitleLock(title) \notin held => AsCreated(s, owner, title)
    PROVE  SongState' /\ Leaves(held)
<1>0. SongsTyped /\ RowsSound /\ GroupsKeepADefault
  BY DEF SongInv, SongState
<1>1. \A g \in SongGroups : songGroup[g].rev \in Nat /\ songGroup'[g].rev \in Nat /\ songGroup'[g].rev >= songGroup[g].rev
  BY <1>0, RowFacts DEF SongsTyped, SongGroupRow
<1>2. \A s \in Songs : song[s].rev \in Nat /\ song'[s].rev \in Nat
  BY <1>0, RowFacts DEF SongsTyped, SongRow
<1>3. RowsSound'
  <2>1. ASSUME NEW s \in Songs, song'[s] # NoSong
        PROVE  song'[s].rev > 0 /\ song'[s].group \in SongGroups /\ songGroup'[song'[s].group].rev > 0
    BY <1>0, <1>1, <1>2, <2>1 DEF RowsSound
  <2>2. ASSUME NEW g \in SongGroups, songGroup'[g] # NoSongGroup PROVE songGroup'[g].rev > 0
    BY <1>0, <1>1, <2>2 DEF RowsSound
  <2> QED
    BY <2>1, <2>2 DEF RowsSound, NoSong, NoSongGroup
<1>4. GroupsKeepADefault'
  <2>1. ASSUME NEW g \in SongGroups, songGroup'[g].rev > 0
        PROVE  \E s \in Songs : song'[s].group = g /\ song'[s].label = Default
    <3>1. CASE songGroup[g].rev > 0
      <4>1. PICK s \in Versions(g) : song[s].label = Default
        BY <1>0, <3>1, RowFacts DEF GroupsKeepADefault
      <4>2. s \in Songs /\ song[s].group = g /\ song[s].rev > 0
        BY <1>0, <4>1, RowFacts DEF Versions, RowsSound
      <4> QED
        BY <4>1, <4>2
    <3> QED
      BY <1>1, <2>1, <3>1
  <2>2. \A g \in SongGroups : Versions(g)' = {s \in Songs : song'[s].group = g}
    BY DEF Versions
  <2>3. \A g \in SongGroups : songGroup'[g] # NoSongGroup => songGroup'[g].rev > 0
    BY <1>3 DEF RowsSound, NoSongGroup
  <2> QED
    BY <2>1, <2>2, <2>3 DEF GroupsKeepADefault, NoSongGroup
<1>5. CatalogGrows
  BY <1>1 DEF CatalogGrows
<1>6. Leaves(held)
  BY <1>5 DEF Leaves
<1> QED
  BY <1>3, <1>4, <1>6 DEF SongState

LEMMA WriteStep ==
    ASSUME SongInv, NEW c \in Clients, Finish(c), SongState', Leaves(txn[c].held)
    PROVE  SongInv'
<1>1. Turn(c) /\ CatalogSound(c)'
  BY SongFinish
<1>2. LocksApart'
  BY <1>1, TurnKeepsApart DEF SongInv, TxnInv
<1> QED
  BY <1>1, <1>2, SongFrame DEF Turn

LEMMA FreshFacts ==
    ASSUME SpareSongs > 0
    PROVE  FreshSong \in Songs /\ song[FreshSong] = NoSong
<1>1. PICK free : free = {s \in Songs : song[s] = NoSong}
  OBVIOUS
<1>2. Cardinality(free) > 0
  BY <1>1 DEF SpareSongs
<1>3. free # {}
  BY <1>2, FS_EmptySet
<1>4. \E s \in Songs : song[s] = NoSong
  BY <1>1, <1>3
<1> QED
  BY <1>4 DEF FreshSong

LEMMA StoreNewVersionStep ==
    ASSUME SongInv, NEW c \in Clients, StoreNewVersion(c)
    PROVE  SongInv'
<1>0. SongsTyped /\ RowsSound /\ VersionsAreOrdered
  BY DEF SongInv, SongState
<1>1. PICK t, g, f, n, label, owner :
         /\ t = txn[c] /\ g = t.req.group /\ f = FreshSong /\ n = NextOrder(g)
         /\ label = t.req.label /\ owner = t.req.owner
         /\ Ready(c, {"create_version"}, "store") /\ SpareSongs > 0
         /\ song' = [song EXCEPT ![f] = [group |-> g, label |-> label, order |-> n, owner |-> owner, rev |-> 1]]
         /\ songGroup' = [songGroup EXCEPT ![g].rev = @ + 1]
         /\ Finish(c) /\ UNCHANGED album
  BY DEF StoreNewVersion
<1>2. t.req.kind = "create_version" /\ t.at = "store" /\ t.plan = <<>>
  BY <1>1 DEF Ready
<1>3. g \in SongGroups /\ label \in STRING /\ owner \in STRING
  BY <1>1, <1>2 DEF SongInv, SongRequests, SongRequest
<1>4. songGroup[g].rev > 0 /\ GroupLock(g) \in t.held
  BY <1>1, <1>2, AwaitedIsHeld DEF SongInv, CatalogSound, VersionFormSound
<1>5. f \in Songs /\ song[f] = NoSong /\ song[f].group = 0 /\ song[f].rev = 0
  BY <1>1, FreshFacts DEF NoSong
<1>6. n \in Nat /\ \A s \in Versions(g) : song[s].order < n
  BY <1>0, <1>1, NextOrderFacts
<1>7. /\ song'[f].group = g /\ song'[f].order = n /\ song'[f].rev = 1
      /\ \A s \in Songs \ {f} : song'[s] = song[s]
  BY <1>0, <1>1, <1>5 DEF SongsTyped
<1>8. songGroup'[g].rev = songGroup[g].rev + 1 /\ \A h \in SongGroups \ {g} : songGroup'[h] = songGroup[h]
  BY <1>0, <1>1, <1>3 DEF SongsTyped, SongGroupRow
<1>9. \A h \in SongGroups : songGroup[h].rev \in Nat
  BY <1>0, RowFacts
<1>10. SongsTyped'
  <2>1. song' \in [Songs -> SongRow]
    BY <1>0, <1>1, <1>3, <1>6 DEF SongsTyped, SongRow
  <2>2. songGroup' \in [SongGroups -> SongGroupRow]
    BY <1>0, <1>1, <1>3 DEF SongsTyped, SongGroupRow
  <2> QED
    BY <1>0, <1>1, <2>1, <2>2 DEF SongsTyped
<1>11. VersionsAreOrdered'
  <2>1. \A s \in Versions(g) : s \in Songs /\ s # f /\ song[s].order < n /\ song[s].order \in Nat
    BY <1>0, <1>3, <1>5, <1>6, RowFacts DEF Versions
  <2>2. ASSUME NEW s \in Songs, s # f, song'[s].group = g PROVE song'[s].order # n
    BY <1>6, <1>7, <2>1, <2>2 DEF Versions
  <2> QED
    BY <1>0, <1>7, <2>2 DEF VersionsAreOrdered
<1>12. \A h \in SongGroups \ {g} : SameOrder(h)
  <2>1. ASSUME NEW h \in SongGroups, h # g PROVE Versions(h)' = Versions(h) /\ f \notin Versions(h)
    BY <1>0, <1>5, <1>7, <2>1, RowFacts DEF Versions
  <2> QED
    BY <1>7, <2>1 DEF SameOrder, Versions
<1>13. \A h \in SongGroups : songGroup'[h] = songGroup[h] \/ songGroup'[h].rev > songGroup[h].rev
  BY <1>3, <1>8, <1>9
<1>14. \A s \in Songs : song'[s] = song[s] \/
          (song'[s].rev > song[s].rev /\ song'[s].group \in SongGroups /\ songGroup'[song'[s].group].rev > 0)
  BY <1>3, <1>5, <1>7, <1>8, <1>9
<1>15. CreatedTitlesDiffer' /\ \A s \in Songs : \A o, x : AsCreated(s, o, x)' => AsCreated(s, o, x)
  <2>1. \A s \in Songs : song[s].rev = 0 /\ song'[s] # song[s] => songGroup'[song'[s].group].rev # 1
    BY <1>3, <1>4, <1>7, <1>8, <1>9
  <2>2. \A s \in Songs : song'[s] = song[s] \/ song'[s].rev > song[s].rev
    BY <1>14
  <2> QED
    BY <1>10, <1>13, <2>1, <2>2, NothingCreated
<1>16. SongState' /\ Leaves(t.held)
  <2>1. \A s \in Songs : song[s].rev > 0 /\ song[s].label = Default =>
           song'[s].label = Default /\ song'[s].group = song[s].group
    BY <1>5, <1>7
  <2>2. \A h \in SongGroups : ~(songGroup[h].rev = 0 /\ songGroup'[h].rev > 0)
    BY <1>4, <1>8, <1>9
  <2>3. \A h \in SongGroups : SameOrder(h) \/ (GroupLock(h) \in t.held /\ songGroup'[h].rev > songGroup[h].rev)
    BY <1>3, <1>4, <1>8, <1>9, <1>12
  <2> QED
    BY <1>1, <1>10, <1>11, <1>13, <1>14, <1>15, <2>1, <2>2, <2>3, CatalogChange
<1> QED
  BY <1>1, <1>16, WriteStep

\* Only the version's own row changes, and it keeps its place.
LEMMA KeptInPlace ==
    ASSUME SongInv, NEW c \in Clients, NEW s \in Songs, song[s].rev > 0, UNCHANGED <<songGroup, album>>, Finish(c),
           song' \in [Songs -> SongRow], \A x \in Songs \ {s} : song'[x] = song[x],
           song'[s] = song[s] \/ song'[s].rev > song[s].rev,
           song'[s].group = song[s].group, song'[s].order = song[s].order,
           song[s].label = Default => song'[s].label = Default
    PROVE  SongInv'
<1>1. SongsTyped /\ RowsSound /\ VersionsAreOrdered
  BY DEF SongInv, SongState
<1>2. \A x \in Songs : song'[x].group = song[x].group /\ song'[x].order = song[x].order
  OBVIOUS
<1>3. \A g \in SongGroups : SameOrder(g)
  <2>1. ASSUME NEW g \in SongGroups PROVE Versions(g)' = Versions(g)
    BY <1>2 DEF Versions
  <2> QED
    BY <1>2, <2>1 DEF SameOrder, Versions
<1>4. VersionsAreOrdered'
  <2>1. \A x \in Songs : song'[x] # NoSong => song[x] # NoSong
    BY <1>1, RowFacts
  <2> QED
    BY <1>1, <1>2, <2>1 DEF VersionsAreOrdered
<1>5. \A x \in Songs : song'[x] = song[x] \/
         (song'[x].rev > song[x].rev /\ song'[x].group \in SongGroups /\ songGroup'[song'[x].group].rev > 0)
  BY <1>1, RowFacts
<1>6. SongsTyped'
  BY <1>1 DEF SongsTyped
<1>7. CreatedTitlesDiffer' /\ \A x \in Songs : \A o, y : AsCreated(x, o, y)' => AsCreated(x, o, y)
  <2>1. \A x \in Songs : song[x].rev = 0 => song'[x] = song[x]
    OBVIOUS
  <2>2. \A x \in Songs : song'[x] = song[x] \/ song'[x].rev > song[x].rev
    BY <1>5
  <2> QED
    BY <1>6, <2>1, <2>2, NothingCreated
<1>8. SongState' /\ Leaves(txn[c].held)
  <2>1. \A x \in Songs : song[x].rev > 0 /\ song[x].label = Default =>
           song'[x].label = Default /\ song'[x].group = song[x].group
    BY <1>2
  <2>2. \A g \in SongGroups : ~(songGroup[g].rev = 0 /\ songGroup'[g].rev > 0)
    OBVIOUS
  <2>3. \A g \in SongGroups : songGroup'[g] = songGroup[g]
    OBVIOUS
  <2> QED
    BY <1>3, <1>4, <1>5, <1>6, <1>7, <2>1, <2>2, <2>3, CatalogChange
<1> QED
  BY <1>8, WriteStep

\* A version gets another label or owner where it is.
LEMMA VersionStep ==
    ASSUME SongInv, NEW c \in Clients, UpdateVersion(c) \/ CorrectOwnership(c)
    PROVE  SongInv'
<1>0. SongsTyped /\ RowsSound /\ VersionsAreOrdered
  BY DEF SongInv, SongState
<1>1. PICK t, s : t = txn[c] /\ s = t.req.song
  OBVIOUS
<1>2. /\ t.req.kind \in {"update_version", "correct_ownership"} /\ t.at = "store"
      /\ Finish(c) /\ songGroup' = songGroup /\ album' = album
  BY <1>1 DEF Ready, UpdateVersion, CorrectOwnership
<1>3. s \in Songs /\ SongRequest(t.req) /\ song[s].rev > 0
  BY <1>1, <1>2 DEF SongInv, SongRequests, SongRequest, CatalogSound, VersionFormSound
<1>4. song[s] \in SongRow /\ song[s].rev \in Nat /\ song[s].group \in SongGroups /\ songGroup[song[s].group].rev > 0
  BY <1>0, <1>3, RowFacts DEF SongsTyped
<1>5. /\ song' \in [Songs -> SongRow] /\ \A x \in Songs \ {s} : song'[x] = song[x]
      /\ song'[s].group = song[s].group /\ song'[s].order = song[s].order /\ song'[s].rev = song[s].rev + 1
      /\ song[s].label = Default => song'[s].label = Default
  <2>1. CASE UpdateVersion(c)
    <3>1. PICK label : /\ label = t.req.label /\ (song[s].label = Default => label = Default)
                       /\ song' = [song EXCEPT ![s].label = label, ![s].rev = @ + 1]
      BY <1>1, <2>1 DEF UpdateVersion
    <3>2. label \in STRING
      BY <1>1, <1>3, <2>1, <3>1 DEF UpdateVersion, Ready, SongRequest
    <3>3. song \in [Songs -> SongRow]
      BY <1>0 DEF SongsTyped
    <3> QED
      BY <1>3, <3>1, <3>2, <3>3 DEF SongRow
  <2>2. CASE CorrectOwnership(c)
    <3>1. PICK owner : /\ owner = t.req.owner
                       /\ song' = [song EXCEPT ![s].owner = owner, ![s].rev = @ + 1]
      BY <1>1, <2>2 DEF CorrectOwnership
    <3>2. owner \in STRING
      BY <1>1, <1>3, <2>2, <3>1 DEF CorrectOwnership, Ready, SongRequest
    <3>3. song \in [Songs -> SongRow]
      BY <1>0 DEF SongsTyped
    <3> QED
      BY <1>3, <3>1, <3>2, <3>3 DEF SongRow
  <2> QED
    BY <2>1, <2>2
<1> QED
  <2>1. song'[s].rev > song[s].rev
    BY <1>4, <1>5
  <2> QED
    BY <1>1, <1>2, <1>3, <1>5, <2>1, KeptInPlace

\* A version comes last in the group it moves to, which its former group survives.
LEMMA MoveGroupStep ==
    ASSUME SongInv, NEW c \in Clients, MoveGroup(c)
    PROVE  SongInv'
<1>0. SongsTyped /\ RowsSound /\ VersionsAreOrdered /\ GroupsKeepADefault
  BY DEF SongInv, SongState
<1>1. PICK t, s, to, before, n, left :
         /\ t = txn[c] /\ s = t.req.song /\ to = t.req.to /\ before = t.seen.before /\ n = NextOrder(to)
         /\ left = Versions(before) \ {s}
  OBVIOUS
<1>2. Ready(c, {"move_group"}, "store") /\ song[s].rev = t.seen.rev /\ Finish(c) /\ album' = album
  BY <1>1 DEF MoveGroup
<1>3. song' = [song EXCEPT ![s].group = to, ![s].order = n, ![s].rev = @ + 1]
  BY <1>1, Zenon DEF MoveGroup
<1>4. songGroup' = [g \in SongGroups |->
          IF g = before /\ left = {} /\ g # to THEN NoSongGroup
          ELSE IF g \in {before, to} THEN [songGroup[g] EXCEPT !.rev = @ + 1]
          ELSE songGroup[g]]
  BY <1>1 DEF MoveGroup
<1>5. t.req.kind = "move_group" /\ t.at = "store" /\ t.plan = <<>> /\ s \in Songs /\ to \in SongGroups
  BY <1>1, <1>2 DEF Ready, SongInv, SongRequests, SongRequest
<1>6. /\ song[s].rev > 0 /\ song[s].group = before /\ song[s].label # Default /\ songGroup[to].rev > 0
      /\ GroupLock(before) \in t.held /\ GroupLock(to) \in t.held
  <2>1. MoveSound(c)
    BY DEF SongInv, CatalogSound
  <2> QED
    BY <1>1, <1>5, <1>2, <2>1, AwaitedIsHeld DEF MoveSound
<1>7. before \in SongGroups /\ songGroup[before].rev > 0 /\ song[s].rev \in Nat /\ song[s] \in SongRow
  BY <1>0, <1>5, <1>6, RowFacts DEF SongsTyped
<1>8. left # {}
  <2>1. PICK d \in Versions(before) : song[d].label = Default
    BY <1>0, <1>7, RowFacts DEF GroupsKeepADefault
  <2> QED
    BY <1>1, <1>6, <2>1
<1>9. /\ \A g \in SongGroups : songGroup[g].rev \in Nat
      /\ \A g \in {before, to} : songGroup'[g] = [songGroup[g] EXCEPT !.rev = @ + 1] /\ songGroup'[g].rev = songGroup[g].rev + 1
      /\ \A g \in SongGroups \ {before, to} : songGroup'[g] = songGroup[g]
  <2>1. \A g \in SongGroups : songGroup[g] \in SongGroupRow
    BY <1>0 DEF SongsTyped
  <2>2. ASSUME NEW g \in {before, to}
        PROVE  songGroup'[g] = [songGroup[g] EXCEPT !.rev = @ + 1] /\ songGroup'[g].rev = songGroup[g].rev + 1
    BY <1>5, <1>7, <1>8, <1>4, <2>1 DEF SongGroupRow
  <2>3. ASSUME NEW g \in SongGroups, g \notin {before, to} PROVE songGroup'[g] = songGroup[g]
    BY <1>4, <2>3
  <2> QED
    BY <1>0, <2>2, <2>3, RowFacts
<1>10. n \in Nat /\ \A x \in Versions(to) : song[x].order < n
  BY <1>0, <1>1, NextOrderFacts
<1>11. /\ song' \in [Songs -> SongRow] /\ \A x \in Songs \ {s} : song'[x] = song[x]
      /\ song'[s].group = to /\ song'[s].order = n /\ song'[s].rev = song[s].rev + 1
  <2>1. song \in [Songs -> SongRow]
    BY <1>0 DEF SongsTyped
  <2> QED
    BY <1>5, <1>10, <1>3, <2>1 DEF SongRow
<1>12. SongsTyped'
  <2>2. \A g \in {before, to} : songGroup'[g] \in SongGroupRow
    BY <1>0, <1>5, <1>7, <1>9 DEF SongsTyped, SongGroupRow
  <2>3. \A g \in SongGroups : songGroup'[g] \in SongGroupRow
    BY <1>0, <1>9, <2>2 DEF SongsTyped
  <2>4. songGroup' = [g \in SongGroups |-> songGroup'[g]]
    BY <1>4
  <2> QED
    BY <1>0, <1>11, <1>2, <2>3, <2>4 DEF SongsTyped
<1>13. VersionsAreOrdered'
  <2>1. \A x \in Versions(to) : x \in Songs /\ song[x].order < n /\ song[x].order \in Nat
    BY <1>0, <1>5, <1>10, RowFacts DEF Versions
  <2>2. ASSUME NEW x \in Songs, x # s, song'[x].group = to PROVE song'[x].order # n
    BY <1>10, <1>11, <2>1, <2>2 DEF Versions
  <2> QED
    BY <1>0, <1>11, <2>2 DEF VersionsAreOrdered
<1>14. \A g \in SongGroups \ {before, to} : SameOrder(g)
  <2>1. ASSUME NEW g \in SongGroups, g # before, g # to PROVE Versions(g)' = Versions(g) /\ s \notin Versions(g)
    BY <1>6, <1>11, <2>1 DEF Versions
  <2> QED
    BY <1>11, <2>1 DEF SameOrder, Versions
<1>15. \A g \in SongGroups : songGroup'[g] = songGroup[g] \/ songGroup'[g].rev > songGroup[g].rev
  BY <1>9
<1>16. \A x \in Songs : song'[x] = song[x] \/
          (song'[x].rev > song[x].rev /\ song'[x].group \in SongGroups /\ songGroup'[song'[x].group].rev > 0)
  BY <1>5, <1>7, <1>9, <1>11
<1>17. CreatedTitlesDiffer' /\ \A x \in Songs : \A o, y : AsCreated(x, o, y)' => AsCreated(x, o, y)
  <2>1. \A x \in Songs : song[x].rev = 0 => song'[x] = song[x]
    BY <1>6, <1>11
  <2>2. \A x \in Songs : song'[x] = song[x] \/ song'[x].rev > song[x].rev
    BY <1>16
  <2> QED
    BY <1>12, <1>15, <2>1, <2>2, NothingCreated
<1>18. SongState' /\ Leaves(t.held)
  <2>1. \A x \in Songs : song[x].rev > 0 /\ song[x].label = Default =>
           song'[x].label = Default /\ song'[x].group = song[x].group
    BY <1>6, <1>11
  <2>2. \A g \in SongGroups : ~(songGroup[g].rev = 0 /\ songGroup'[g].rev > 0)
    BY <1>6, <1>7, <1>9
  <2>3. \A g \in SongGroups : SameOrder(g) \/ (GroupLock(g) \in t.held /\ songGroup'[g].rev > songGroup[g].rev)
    BY <1>6, <1>9, <1>14
  <2> QED
    BY <1>12, <1>13, <1>15, <1>16, <1>17, <2>1, <2>2, <2>3, <1>2, CatalogChange
<1> QED
  BY <1>1, <1>18, <1>2, WriteStep

\* Distinct versions get distinct positions.
LEMMA PositionsDiffer ==
    ASSUME NEW ids \in Seq(Songs), NEW s \in Range(ids), NEW x \in Range(ids), s # x
    PROVE  Position(ids, s) # Position(ids, x)
  BY PositionFacts

LEMMA PlacedFacts ==
    ASSUME SongsTyped, NEW s \in Songs, NEW n \in Nat
    PROVE  /\ Placed(s, n) \in SongRow /\ Placed(s, n).group = song[s].group /\ Placed(s, n).order = n
           /\ Placed(s, n).label = song[s].label /\ Placed(s, n).rev = song[s].rev + 1
<1>1. PICK row : row \in SongRow /\ row = song[s]
  BY DEF SongsTyped
<1>2. Placed(s, n) = [row EXCEPT !.order = n, !.rev = row.rev + 1]
  BY <1>1 DEF Placed
<1>3. Placed(s, n) = [group |-> row.group, label |-> row.label, order |-> n, owner |-> row.owner, rev |-> row.rev + 1]
  BY <1>1, <1>2 DEF SongRow
<1> QED
  BY <1>1, <1>3 DEF SongRow

\* The versions of one locked group are renumbered, and its revision grows.
LEMMA Renumbered ==
    ASSUME SongInv, NEW c \in Clients, NEW g \in SongGroups,
           songGroup[g].rev > 0, GroupLock(g) \in txn[c].held, UNCHANGED album, SongsTyped', Finish(c),
           \A s \in Versions(g) :
              /\ song'[s].group = g /\ song'[s].rev = song[s].rev + 1
              /\ song[s].label = Default => song'[s].label = Default,
           \A s, x \in Versions(g) : s # x => song'[s].order # song'[x].order,
           \A s \in Songs \ Versions(g) : song'[s] = song[s],
           songGroup'[g].rev = songGroup[g].rev + 1, \A h \in SongGroups \ {g} : songGroup'[h] = songGroup[h]
    PROVE  SongInv'
<1>1. SongsTyped /\ RowsSound /\ VersionsAreOrdered
  BY DEF SongInv, SongState
<1>2. \A h \in SongGroups : songGroup[h].rev \in Nat
  BY <1>1, RowFacts
<1>3. \A s \in Versions(g) : s \in Songs /\ song[s].group = g /\ song[s].rev > 0 /\ song[s].rev \in Nat
  <2>1. \A s \in Versions(g) : s \in Songs /\ song[s].group = g
    BY DEF Versions
  <2>2. \A s \in Songs : song[s].rev \in Nat /\ (song[s].group \in SongGroups => song[s].rev > 0)
    BY <1>1, RowFacts
  <2> QED
    BY <2>1, <2>2
<1>4. VersionsAreOrdered'
  <2>1. \A s \in Songs : s \in Versions(g) <=> song[s].group = g
    BY DEF Versions
  <2> QED
    BY <1>1, <1>3, <2>1 DEF VersionsAreOrdered
<1>5. \A h \in SongGroups \ {g} : SameOrder(h)
  <2>1. ASSUME NEW h \in SongGroups, h # g PROVE Versions(h)' = Versions(h) /\ Versions(h) \cap Versions(g) = {}
    BY <1>3, <2>1 DEF Versions
  <2> QED
    BY <2>1 DEF SameOrder, Versions
<1>6. \A h \in SongGroups : songGroup'[h] = songGroup[h] \/ songGroup'[h].rev > songGroup[h].rev
  BY <1>2
<1>7. \A s \in Songs : song'[s] = song[s] \/
         (song'[s].rev > song[s].rev /\ song'[s].group \in SongGroups /\ songGroup'[song'[s].group].rev > 0)
  BY <1>2, <1>3
<1>8. CreatedTitlesDiffer' /\ \A s \in Songs : \A o, x : AsCreated(s, o, x)' => AsCreated(s, o, x)
  <2>1. \A s \in Songs : song[s].rev = 0 => song'[s] = song[s]
    BY <1>3
  <2>2. \A s \in Songs : song'[s] = song[s] \/ song'[s].rev > song[s].rev
    BY <1>7
  <2> QED
    BY <1>6, <2>1, <2>2, NothingCreated
<1>9. SongState' /\ Leaves(txn[c].held)
  <2>1. \A s \in Songs : song[s].rev > 0 /\ song[s].label = Default =>
           song'[s].label = Default /\ song'[s].group = song[s].group
    BY <1>3
  <2>2. \A h \in SongGroups : ~(songGroup[h].rev = 0 /\ songGroup'[h].rev > 0)
    BY <1>2
  <2>3. \A h \in SongGroups : SameOrder(h) \/ (GroupLock(h) \in txn[c].held /\ songGroup'[h].rev > songGroup[h].rev)
    BY <1>2, <1>5
  <2> QED
    BY <1>4, <1>6, <1>7, <1>8, <2>1, <2>2, <2>3, CatalogChange
<1> QED
  BY <1>9, WriteStep

LEMMA UpdateGroupStep ==
    ASSUME SongInv, NEW c \in Clients, UpdateGroup(c)
    PROVE  SongInv'
<1>0. SongsTyped /\ RowsSound /\ VersionsAreOrdered
  BY DEF SongInv, SongState
<1>1. PICK t, g, title, ids : t = txn[c] /\ g = t.req.group /\ title = t.req.title /\ ids = Sent(t.req, t.seen.ids)
  OBVIOUS
<1>2. Ready(c, {"update_group"}, "store") /\ Range(ids) = Versions(g) /\ Finish(c) /\ album' = album
  BY <1>1 DEF UpdateGroup
<1>3. song' = [s \in Songs |-> IF s \in Range(ids) THEN Placed(s, Position(ids, s)) ELSE song[s]]
  BY <1>1 DEF UpdateGroup
<1>4. songGroup' = [songGroup EXCEPT ![g] = [title |-> title, rev |-> songGroup[g].rev + 1]]
  BY <1>1 DEF UpdateGroup
<1>5. t.req.kind = "update_group" /\ t.at = "store" /\ t.plan = <<>> /\ g \in SongGroups /\ title \in Nat
  BY <1>1, <1>2 DEF Ready, SongInv, SongRequests, SongRequest
<1>6. t.seen.ids \in Seq(Songs) /\ songGroup[g].rev > 0 /\ GroupLock(g) \in t.held
  <2>1. GroupFormSound(c)
    BY DEF SongInv, CatalogSound
  <2> QED
    BY <1>1, <1>5, <2>1, AwaitedIsHeld DEF GroupFormSound
<1>7. ids \in Seq(Songs)
  BY <1>1, <1>6, SentFacts
<1>8. \A s \in Versions(g) : s \in Songs /\ song[s] \in SongRow /\ Position(ids, s) \in Nat /\ song[s].group = g
  BY <1>0, <1>2, <1>7, PositionFacts DEF Versions, SongsTyped
<1>9. ASSUME NEW s \in Versions(g)
      PROVE  /\ song'[s] \in SongRow /\ song'[s].group = g /\ song'[s].order = Position(ids, s)
             /\ song'[s].rev = song[s].rev + 1 /\ song'[s].label = song[s].label
  <2>1. song'[s] = Placed(s, Position(ids, s))
    BY <1>2, <1>3, <1>8
  <2> QED
    BY <1>0, <1>8, <2>1, PlacedFacts
<1>10. \A s \in Songs \ Versions(g) : song'[s] = song[s]
  BY <1>2, <1>3
<1>11. songGroup'[g].rev = songGroup[g].rev + 1 /\ \A h \in SongGroups \ {g} : songGroup'[h] = songGroup[h]
  BY <1>0, <1>4, <1>5 DEF SongsTyped
<1>12. SongsTyped'
  <2>1. song' \in [Songs -> SongRow]
    <3>1. \A s \in Songs : song'[s] \in SongRow
      BY <1>0, <1>9, <1>10 DEF SongsTyped
    <3>2. song' = [s \in Songs |-> song'[s]]
      BY <1>3
    <3> QED
      BY <3>1, <3>2
  <2>2. songGroup' \in [SongGroups -> SongGroupRow]
    BY <1>0, <1>4, <1>5 DEF SongsTyped, SongGroupRow
  <2> QED
    BY <1>0, <1>2, <2>1, <2>2 DEF SongsTyped
<1>13. \A s, x \in Versions(g) : s # x => song'[s].order # song'[x].order
  BY <1>2, <1>7, <1>9, PositionsDiffer
<1> QED
  BY <1>1, <1>2, <1>5, <1>6, <1>9, <1>10, <1>11, <1>12, <1>13, Renumbered

\* The edit of a version rests on the order that its form has shown.
LEMMA EditFacts ==
    ASSUME SongInv, NEW c \in Clients, EditSong(c), NEW t, NEW s, NEW g, NEW to, NEW ids,
           t = txn[c], s = t.req.song, g = t.seen.group, to = t.req.to, ids = Sent(t.req, t.seen.ids)
    PROVE  /\ s \in Songs /\ song[s].group = g /\ g \in SongGroups /\ to # g /\ to \in SongGroups \union {0}
           /\ ids \in Seq(Songs) /\ Range(ids) = Versions(g) /\ s \in Range(ids)
           /\ songGroup[g].rev > 0 /\ GroupLock(g) \in t.held
           /\ to # 0 => songGroup[to].rev > 0 /\ GroupLock(to) \in t.held
           /\ t.req.label \in STRING /\ t.req.owner \in STRING /\ t.req.title \in Nat
           /\ song[s].label = Default => t.req.label = Default /\ to = 0
           /\ Finish(c) /\ album' = album
<1>0. SongsTyped /\ RowsSound /\ EditSound(c)
  BY DEF SongInv, SongState, CatalogSound
<1>1. /\ t.req.kind = "edit_song" /\ t.at = "store" /\ t.plan = <<>> /\ s \in Versions(g) /\ Range(ids) = Versions(g)
      /\ song[s].label = Default => t.req.label = Default /\ to = 0
      /\ Finish(c) /\ album' = album
  BY DEF EditSong, Ready
<1>2. SongRequest(t.req)
  BY DEF SongInv, SongRequests
<1>3. s \in Songs /\ song[s].group = g /\ to \in SongGroups \union {0}
  BY <1>1, <1>2 DEF SongRequest, Versions
<1>4. t.req.label \in STRING /\ t.req.owner \in STRING /\ t.req.title \in Nat
  BY <1>1, <1>2 DEF SongRequest
<1>5. /\ g \in SongGroups /\ to # g /\ t.seen.ids \in Seq(Songs) /\ GroupLock(g) \in t.held
      /\ to # 0 => songGroup[to].rev > 0 /\ GroupLock(to) \in t.held
  BY <1>0, <1>1, AwaitedIsHeld DEF EditSound
<1>6. songGroup[g].rev > 0
  BY <1>0, <1>3, <1>5, RowFacts
<1> QED
  BY <1>1, <1>3, <1>4, <1>5, <1>6, SentFacts

\* What the edit makes of the version and of the others of its group.
LEMMA EditedFacts ==
    ASSUME SongsTyped, NEW req, NEW g, NEW ids, req.song \in Songs, req.to = 0, ids \in Seq(Songs), Range(ids) = Versions(g),
           req.label \in STRING, req.owner \in STRING
    PROVE  /\ Remaining(req, ids) = ids
           /\ \A s \in Versions(g) :
                 /\ Kept(req, g, ids, s) \in SongRow
                 /\ Kept(req, g, ids, s).group = g /\ Kept(req, g, ids, s).label = song[s].label
                 /\ Kept(req, g, ids, s).rev = song[s].rev + 1
                 /\ Kept(req, g, ids, s).order =
                       IF OrderChanged(req, g, ids) THEN Position(ids, s) ELSE song[s].order
           /\ req.song \in Versions(g) =>
                 /\ Edited(req, g, ids) \in SongRow /\ Edited(req, g, ids).group = g
                 /\ Edited(req, g, ids).label = req.label /\ Edited(req, g, ids).rev = song[req.song].rev + 1
                 /\ Edited(req, g, ids).order = Kept(req, g, ids, req.song).order
<1>1. Remaining(req, ids) = ids
  BY DEF Remaining
<1>2. ASSUME NEW s \in Versions(g)
      PROVE  /\ Kept(req, g, ids, s) \in SongRow
             /\ Kept(req, g, ids, s).group = g /\ Kept(req, g, ids, s).label = song[s].label
             /\ Kept(req, g, ids, s).rev = song[s].rev + 1
             /\ Kept(req, g, ids, s).order = IF OrderChanged(req, g, ids) THEN Position(ids, s) ELSE song[s].order
  <2>1. PICK n : n = IF OrderChanged(req, g, ids) THEN Position(ids, s) ELSE song[s].order
    OBVIOUS
  <2>2. s \in Songs /\ song[s].group = g /\ song[s].order \in Nat
    BY DEF Versions, SongsTyped, SongRow
  <2>3. Position(ids, s) \in Nat
    BY PositionFacts
  <2>4. n \in Nat
    BY <2>1, <2>2, <2>3
  <2>5. Kept(req, g, ids, s) = Placed(s, n)
    BY <1>1, <2>1 DEF Kept
  <2> QED
    BY <2>1, <2>2, <2>4, <2>5, PlacedFacts
<1>3. ASSUME req.song \in Versions(g)
      PROVE  /\ Edited(req, g, ids) \in SongRow /\ Edited(req, g, ids).group = g
             /\ Edited(req, g, ids).label = req.label /\ Edited(req, g, ids).rev = song[req.song].rev + 1
             /\ Edited(req, g, ids).order = Kept(req, g, ids, req.song).order
  <2>1. PICK row : row = Kept(req, g, ids, req.song) /\ row \in SongRow /\ row.group = g /\ row.rev = song[req.song].rev + 1
    BY <1>2, <1>3
  <2>2. Edited(req, g, ids) = [row EXCEPT !.label = req.label, !.owner = req.owner]
    BY <2>1 DEF Edited
  <2>3. Edited(req, g, ids) = [group |-> row.group, label |-> req.label, order |-> row.order, owner |-> req.owner, rev |-> row.rev]
    BY <2>1, <2>2 DEF SongRow
  <2> QED
    BY <2>1, <2>3 DEF SongRow
<1> QED
  BY <1>1, <1>2, <1>3

LEMMA EditInPlaceStep ==
    ASSUME SongInv, NEW c \in Clients, EditSong(c), txn[c].req.to = 0
    PROVE  SongInv'
<1>0. SongsTyped /\ RowsSound
  BY DEF SongInv, SongState
<1>1. PICK t, req, s, g, ids :
         t = txn[c] /\ req = t.req /\ s = req.song /\ g = t.seen.group /\ ids = Sent(t.req, t.seen.ids)
  OBVIOUS
<1>2. /\ s \in Songs /\ song[s].group = g /\ g \in SongGroups /\ ids \in Seq(Songs) /\ Range(ids) = Versions(g)
      /\ s \in Versions(g) /\ songGroup[g].rev > 0 /\ GroupLock(g) \in t.held
      /\ req.label \in STRING /\ req.owner \in STRING /\ req.title \in Nat /\ req.to = 0
      /\ song[s].label = Default => req.label = Default
      /\ Finish(c) /\ album' = album
  BY <1>1, EditFacts
<1>3. song' = [x \in Songs |->
          IF x = s /\ (SongChanged(req) \/ GroupChanged(req, g, ids)) THEN Edited(req, g, ids)
          ELSE IF x \in Range(Remaining(req, ids)) /\ GroupChanged(req, g, ids) THEN Kept(req, g, ids, x)
          ELSE song[x]]
  BY <1>1 DEF EditSong
<1>4. songGroup' = [h \in SongGroups |->
          IF h = g /\ GroupChanged(req, g, ids) THEN [title |-> req.title, rev |-> songGroup[g].rev + 1]
          ELSE IF h = req.to THEN [songGroup[h] EXCEPT !.rev = @ + 1]
          ELSE songGroup[h]]
  BY <1>1 DEF EditSong
<1>5. PICK edited, kept, groupChanged, orderChanged :
         /\ edited = Edited(req, g, ids) /\ kept = [x \in Versions(g) |-> Kept(req, g, ids, x)]
         /\ groupChanged = GroupChanged(req, g, ids) /\ orderChanged = OrderChanged(req, g, ids)
  OBVIOUS
<1>6. /\ \A x \in Versions(g) :
            /\ kept[x] \in SongRow /\ kept[x].group = g /\ kept[x].label = song[x].label /\ kept[x].rev = song[x].rev + 1
            /\ kept[x].order = IF orderChanged THEN Position(ids, x) ELSE song[x].order
      /\ edited \in SongRow /\ edited.group = g /\ edited.label = req.label /\ edited.rev = song[s].rev + 1
      /\ edited.order = kept[s].order
  BY <1>0, <1>1, <1>2, <1>5, EditedFacts
<1>7. \A x \in Songs : song[x] \in SongRow /\ song[x].rev \in Nat
  BY <1>0, RowFacts DEF SongsTyped
<1>8. /\ \A x \in Songs \ Versions(g) : song'[x] = song[x]
      /\ groupChanged => song'[s] = edited /\ \A x \in Versions(g) \ {s} : song'[x] = kept[x]
      /\ ~groupChanged => song'[s] \in {song[s], edited} /\ \A x \in Songs \ {s} : song'[x] = song[x]
  <2>1. Remaining(req, ids) = ids
    BY <1>2 DEF Remaining
  <2>2. \A x \in Versions(g) : x \in Songs
    BY DEF Versions
  <2> QED
    BY <1>2, <1>3, <1>5, <2>1, <2>2
<1>9. song' \in [Songs -> SongRow]
  <2>1. \A x \in Songs : song'[x] \in SongRow
    BY <1>6, <1>7, <1>8
  <2>2. song' = [x \in Songs |-> song'[x]]
    BY <1>3
  <2> QED
    BY <2>1, <2>2
<1>10. 0 \notin SongGroups
  BY SongConstants
<1>11. CASE ~groupChanged
  <2>1. songGroup' = songGroup
    <3>1. \A h \in SongGroups : songGroup'[h] = songGroup[h]
      BY <1>2, <1>4, <1>5, <1>10, <1>11
    <3> QED
      BY <1>0, <1>4, <3>1 DEF SongsTyped
  <2>2. ~orderChanged
    BY <1>5, <1>11 DEF GroupChanged
  <2>3. song'[s] \in {song[s], edited} /\ edited.order = song[s].order /\ edited.group = song[s].group
        /\ edited.rev > song[s].rev /\ (song[s].label = Default => edited.label = Default)
    BY <1>2, <1>6, <1>7, <1>8, <1>11, <2>2
  <2>4. song[s].rev > 0
    BY <1>0, <1>2, RowFacts
  <2> QED
    BY <1>2, <1>8, <1>9, <1>11, <2>1, <2>3, <2>4, KeptInPlace
<1>12. CASE groupChanged
  <2>1. songGroup'[g] = [title |-> req.title, rev |-> songGroup[g].rev + 1]
        /\ \A h \in SongGroups \ {g} : songGroup'[h] = songGroup[h]
    BY <1>2, <1>4, <1>5, <1>10, <1>12
  <2>2. songGroup' \in [SongGroups -> SongGroupRow]
    <3>1. \A h \in SongGroups : songGroup[h] \in SongGroupRow /\ songGroup[h].rev \in Nat
      BY <1>0, RowFacts DEF SongsTyped
    <3>2. \A h \in SongGroups : songGroup'[h] \in SongGroupRow
      BY <1>2, <2>1, <3>1 DEF SongGroupRow
    <3>3. songGroup' = [h \in SongGroups |-> songGroup'[h]]
      BY <1>4
    <3> QED
      BY <3>2, <3>3
  <2>3. \A x \in Versions(g) :
           /\ song'[x].group = g /\ song'[x].rev = song[x].rev + 1
           /\ song[x].label = Default => song'[x].label = Default
           /\ song'[x].order = IF orderChanged THEN Position(ids, x) ELSE song[x].order
    BY <1>2, <1>6, <1>8, <1>12
  <2>4. ASSUME NEW x \in Versions(g), NEW y \in Versions(g), x # y PROVE song'[x].order # song'[y].order
    <3>1. CASE orderChanged
      BY <1>2, <2>3, <2>4, <3>1, PositionsDiffer
    <3>2. CASE ~orderChanged
      <4>1. song[x].order # song[y].order
        BY <1>0, <1>2, <2>4, RowFacts DEF SongInv, SongState, VersionsAreOrdered, Versions
      <4> QED
        BY <2>3, <3>2, <4>1
    <3> QED
      BY <3>1, <3>2
  <2>5. SongsTyped'
    BY <1>0, <1>2, <1>9, <2>2 DEF SongsTyped
  <2>6. songGroup'[g].rev = songGroup[g].rev + 1
    BY <2>1
  <2> QED
    BY <1>1, <1>2, <1>8, <2>1, <2>3, <2>4, <2>5, <2>6, Renumbered
<1> QED
  BY <1>11, <1>12

\* An edit that moves the version renumbers those it leaves.
LEMMA EditMovesStep ==
    ASSUME SongInv, NEW c \in Clients, EditSong(c), txn[c].req.to # 0
    PROVE  SongInv'
<1>0. SongsTyped /\ RowsSound /\ VersionsAreOrdered
  BY DEF SongInv, SongState
<1>1. PICK t, req, s, g, to, ids, n :
         /\ t = txn[c] /\ req = t.req /\ s = req.song /\ g = t.seen.group /\ to = req.to
         /\ ids = Sent(t.req, t.seen.ids) /\ n = NextOrder(to)
  OBVIOUS
<1>2. /\ s \in Songs /\ song[s].group = g /\ g \in SongGroups /\ to \in SongGroups /\ to # g
      /\ ids \in Seq(Songs) /\ Range(ids) = Versions(g) /\ s \in Versions(g)
      /\ songGroup[g].rev > 0 /\ GroupLock(g) \in t.held /\ songGroup[to].rev > 0 /\ GroupLock(to) \in t.held
      /\ req.label \in STRING /\ req.owner \in STRING /\ req.title \in Nat /\ req.to # 0
      /\ song[s].label # Default
      /\ Finish(c) /\ album' = album
  BY <1>1, EditFacts
<1>3. song' = [x \in Songs |->
          IF x = s /\ (SongChanged(req) \/ GroupChanged(req, g, ids)) THEN Edited(req, g, ids)
          ELSE IF x \in Range(Remaining(req, ids)) /\ GroupChanged(req, g, ids) THEN Kept(req, g, ids, x)
          ELSE song[x]]
  BY <1>1 DEF EditSong
<1>4. songGroup' = [h \in SongGroups |->
          IF h = g /\ GroupChanged(req, g, ids) THEN [title |-> req.title, rev |-> songGroup[g].rev + 1]
          ELSE IF h = req.to THEN [songGroup[h] EXCEPT !.rev = @ + 1]
          ELSE songGroup[h]]
  BY <1>1 DEF EditSong
<1>5. PICK edited, kept, rest :
         /\ edited = Edited(req, g, ids) /\ kept = [x \in Versions(g) |-> Kept(req, g, ids, x)]
         /\ rest = Remaining(req, ids)
  OBVIOUS
<1>6. SongChanged(req) /\ GroupChanged(req, g, ids) /\ OrderChanged(req, g, ids)
  BY <1>2 DEF SongChanged, GroupChanged, OrderChanged
<1>7. rest \in Seq(Songs) /\ Range(rest) \subseteq Versions(g) /\ Versions(g) \ {s} \subseteq Range(rest)
  <2>1. rest = RemoveAt(ids, Position(ids, s))
    BY <1>1, <1>2, <1>5 DEF Remaining
  <2> QED
    BY <1>2, <2>1, RestFacts
<1>8. n \in Nat /\ \A x \in Versions(to) : song[x].order < n
  BY <1>0, <1>1, NextOrderFacts
<1>9. \A x \in Versions(g) : x \in Songs /\ song[x].group = g /\ song[x].rev > 0
  <2>1. \A x \in Versions(g) : x \in Songs /\ song[x].group = g
    BY DEF Versions
  <2> QED
    BY <1>0, <1>2, <2>1, RowFacts
<1>10. ASSUME NEW x \in Versions(g), x # s
       PROVE  /\ kept[x] \in SongRow /\ kept[x].group = g /\ kept[x].label = song[x].label
              /\ kept[x].rev = song[x].rev + 1 /\ kept[x].order = Position(rest, x)
  <2>1. x \in Range(rest) /\ Position(rest, x) \in Nat
    BY <1>7, <1>10, PositionFacts
  <2>2. kept[x] = Placed(x, Position(rest, x))
    BY <1>5, <1>6 DEF Kept
  <2> QED
    BY <1>0, <1>9, <2>1, <2>2, PlacedFacts
<1>11. /\ edited \in SongRow /\ edited.group = to /\ edited.order = n /\ edited.rev = song[s].rev + 1
  <2>1. PICK row : /\ row = Placed(s, n) /\ row \in SongRow /\ row.order = n /\ row.rev = song[s].rev + 1
    BY <1>0, <1>2, <1>8, PlacedFacts
  <2>2. PICK moved : moved = [row EXCEPT !.group = to]
    OBVIOUS
  <2>3. edited = [moved EXCEPT !.label = req.label, !.owner = req.owner]
    BY <1>1, <1>2, <1>5, <2>1, <2>2 DEF Edited
  <2>4. moved = [group |-> to, label |-> row.label, order |-> row.order, owner |-> row.owner, rev |-> row.rev]
    BY <2>1, <2>2 DEF SongRow
  <2>5. edited = [group |-> to, label |-> req.label, order |-> row.order, owner |-> req.owner, rev |-> row.rev]
    BY <2>3, <2>4
  <2> QED
    BY <1>2, <2>1, <2>5 DEF SongRow
<1>12. /\ song'[s] = edited /\ \A x \in Versions(g) \ {s} : song'[x] = kept[x]
       /\ \A x \in Songs \ Versions(g) : song'[x] = song[x]
  BY <1>2, <1>3, <1>5, <1>6, <1>7, <1>9
<1>13. /\ songGroup'[g] = [title |-> req.title, rev |-> songGroup[g].rev + 1]
       /\ songGroup'[to] = [songGroup[to] EXCEPT !.rev = @ + 1]
       /\ \A h \in SongGroups \ {g, to} : songGroup'[h] = songGroup[h]
  BY <1>1, <1>2, <1>4, <1>6
<1>14. \A h \in SongGroups : songGroup[h] \in SongGroupRow /\ songGroup[h].rev \in Nat
  BY <1>0, RowFacts DEF SongsTyped
<1>15. songGroup'[g].rev = songGroup[g].rev + 1 /\ songGroup'[to].rev = songGroup[to].rev + 1
  BY <1>2, <1>13, <1>14 DEF SongGroupRow
<1>16. \A x \in Songs : song[x] \in SongRow /\ song[x].rev \in Nat /\ song[x].order \in Nat
  BY <1>0, RowFacts DEF SongsTyped
<1>17. SongsTyped'
  <2>1. song' \in [Songs -> SongRow]
    <3>1. \A x \in Songs : song'[x] \in SongRow
      BY <1>10, <1>11, <1>12, <1>16
    <3>2. song' = [x \in Songs |-> song'[x]]
      BY <1>3
    <3> QED
      BY <3>1, <3>2
  <2>2. songGroup' \in [SongGroups -> SongGroupRow]
    <3>1. songGroup'[g] \in SongGroupRow /\ songGroup'[to] \in SongGroupRow
      BY <1>2, <1>13, <1>14 DEF SongGroupRow
    <3>2. \A h \in SongGroups : songGroup'[h] \in SongGroupRow
      BY <1>13, <1>14, <3>1
    <3>3. songGroup' = [h \in SongGroups |-> songGroup'[h]]
      BY <1>4
    <3> QED
      BY <3>2, <3>3
  <2> QED
    BY <1>0, <1>2, <2>1, <2>2 DEF SongsTyped
<1>18. \A x \in Songs : x # s => song'[x].group = song[x].group /\ song'[x].label = song[x].label
  BY <1>9, <1>10, <1>12
<1>19. VersionsAreOrdered'
  <2>1. \A x \in Songs : x \in Versions(g) <=> song[x].group = g
    BY DEF Versions
  <2>2. ASSUME NEW x \in Versions(g), NEW y \in Versions(g), x # s, y # s, x # y PROVE song'[x].order # song'[y].order
    <3>1. x \in Range(rest) /\ y \in Range(rest)
      BY <1>7, <2>2
    <3> QED
      BY <1>7, <1>10, <1>12, <2>2, <3>1, PositionsDiffer
  <2>3. ASSUME NEW x \in Songs, x # s, song'[x].group = to PROVE song'[x].order # n
    <3>1. x \in Versions(to) /\ x \notin Versions(g)
      BY <1>2, <1>9, <1>18, <2>3 DEF Versions
    <3> QED
      BY <1>8, <1>12, <1>16, <2>3, <3>1
  <2>4. SUFFICES ASSUME NEW x \in Songs, NEW y \in Songs, x # y, song'[x] # NoSong, song'[x].group = song'[y].group
                 PROVE  song'[x].order # song'[y].order
    BY DEF VersionsAreOrdered, NoSong
  <2>5. CASE x = s \/ y = s
    BY <1>11, <1>12, <2>3, <2>4, <2>5
  <2>6. CASE x # s /\ y # s /\ song[x].group = g
    BY <1>18, <2>1, <2>2, <2>4, <2>6
  <2>7. CASE x # s /\ y # s /\ song[x].group # g
    <3>1. song'[x] = song[x] /\ song'[y] = song[y]
      BY <1>12, <1>18, <2>1, <2>4, <2>7
    <3> QED
      BY <1>0, <2>4, <3>1 DEF VersionsAreOrdered
  <2> QED
    BY <2>5, <2>6, <2>7
<1>20. \A h \in SongGroups \ {g, to} : SameOrder(h)
  <2>1. ASSUME NEW h \in SongGroups, h # g, h # to
        PROVE  Versions(h)' = Versions(h) /\ s \notin Versions(h) /\ Versions(h) \cap Versions(g) = {}
    BY <1>2, <1>9, <1>11, <1>12, <1>18, <2>1 DEF Versions
  <2> QED
    BY <1>12, <2>1 DEF SameOrder, Versions
<1>21. \A h \in SongGroups : songGroup'[h] = songGroup[h] \/ songGroup'[h].rev > songGroup[h].rev
  <2>1. songGroup'[g].rev > songGroup[g].rev /\ songGroup'[to].rev > songGroup[to].rev
    BY <1>2, <1>14, <1>15
  <2>2. \A h \in SongGroups \ {g, to} : songGroup'[h] = songGroup[h]
    BY <1>13
  <2> QED
    BY <2>1, <2>2
<1>22. \A x \in Songs : song'[x] = song[x] \/
          (song'[x].rev > song[x].rev /\ song'[x].group \in SongGroups /\ songGroup'[song'[x].group].rev > 0)
  <2>1. songGroup'[g].rev > 0 /\ songGroup'[to].rev > 0
    BY <1>2, <1>14, <1>15
  <2>2. song'[s].rev > song[s].rev /\ song'[s].group = to
    BY <1>2, <1>11, <1>12, <1>16
  <2>3. \A x \in Versions(g) \ {s} : song'[x].rev > song[x].rev /\ song'[x].group = g
    BY <1>9, <1>10, <1>12, <1>16
  <2> QED
    BY <1>2, <1>12, <2>1, <2>2, <2>3
<1>23. CreatedTitlesDiffer' /\ \A x \in Songs : \A o, y : AsCreated(x, o, y)' => AsCreated(x, o, y)
  <2>1. \A x \in Songs : song[x].rev = 0 => song'[x] = song[x]
    BY <1>9, <1>12
  <2>2. \A x \in Songs : song'[x] = song[x] \/ song'[x].rev > song[x].rev
    BY <1>22
  <2> QED
    BY <1>17, <1>21, <2>1, <2>2, NothingCreated
<1>24. SongState' /\ Leaves(t.held)
  <2>1. \A x \in Songs : song[x].rev > 0 /\ song[x].label = Default =>
           song'[x].label = Default /\ song'[x].group = song[x].group
    BY <1>2, <1>18
  <2>2. \A h \in SongGroups : ~(songGroup[h].rev = 0 /\ songGroup'[h].rev > 0)
    BY <1>2, <1>13, <1>14
  <2>3. \A h \in SongGroups : SameOrder(h) \/ (GroupLock(h) \in t.held /\ songGroup'[h].rev > songGroup[h].rev)
    BY <1>2, <1>14, <1>15, <1>20
  <2> QED
    BY <1>2, <1>17, <1>19, <1>21, <1>22, <1>23, <2>1, <2>2, <2>3, CatalogChange
<1> QED
  BY <1>1, <1>2, <1>24, WriteStep

\* Under the locks of their titles a batch creates the songs that are missing.
LEMMA StoreGroupsStep ==
    ASSUME SongInv, NEW c \in Clients, StoreGroups(c)
    PROVE  SongInv'
<1>0. SongsTyped /\ RowsSound /\ VersionsAreOrdered /\ CreatedTitlesDiffer
  BY DEF SongInv, SongState
<1>1. PICK t, new, freeSongs, freeGroups, ids, groups :
         /\ t = txn[c] /\ new = SetToSeq(t.seen.new)
         /\ freeSongs = {s \in Songs : song[s] = NoSong} /\ freeGroups = {g \in SongGroups : songGroup[g] = NoSongGroup}
         /\ ids = InOrder(freeSongs) /\ groups = InOrder(freeGroups)
  OBVIOUS
<1>2. /\ Ready(c, GroupCreations, "find") /\ Finish(c) /\ album' = album
      /\ Len(new) <= Len(ids) /\ Len(new) <= Len(groups)
  BY <1>1 DEF StoreGroups
<1>3. songGroup' = [g \in SongGroups |->
          IF \E i \in DOMAIN new : g = groups[i]
          THEN [title |-> new[CHOOSE i \in DOMAIN new : g = groups[i]].title, rev |-> 1]
          ELSE songGroup[g]]
  BY <1>1 DEF StoreGroups
<1>4. song' = [s \in Songs |->
          IF \E i \in DOMAIN new : s = ids[i]
          THEN LET i == CHOOSE j \in DOMAIN new : s = ids[j]
               IN [group |-> groups[i], label |-> Default, order |-> 1, owner |-> new[i].owner, rev |-> 1]
          ELSE song[s]]
  BY <1>1 DEF StoreGroups
<1>5. PICK T : T = [title : Nat, owner : STRING]
  OBVIOUS
<1>6. /\ new \in Seq(T) /\ \A i, j \in DOMAIN new : new[i] = new[j] => i = j
      /\ \A i \in DOMAIN new :
            /\ TitleLock(new[i].title) \in t.held
            /\ \A s \in Songs : ~AsCreated(s, new[i].owner, new[i].title)
  <2>1. t.req.kind \in GroupCreations /\ t.at = "find"
    BY <1>1, <1>2 DEF Ready
  <2>2. /\ t.seen.new \subseteq t.req.items /\ \A item \in t.req.items : TitleLock(item.title) \in t.held
        /\ \A item \in t.seen.new, s \in Songs : ~AsCreated(s, item.owner, item.title)
    BY <1>1, <2>1 DEF SongInv, CatalogSound, CreationSound
  <2>3. t.req.items \subseteq T /\ IsFiniteSet(t.req.items)
    BY <1>1, <1>5, <2>1 DEF SongInv, SongRequests, SongRequest
  <2>4. new \in Seq(t.seen.new) /\ \A i, j \in DOMAIN new : new[i] = new[j] => i = j
    <3>1. IsFiniteSet(t.seen.new)
      BY <2>2, <2>3, FS_Subset
    <3> QED
      BY <1>1, <3>1, ListFacts
  <2>5. \A i \in DOMAIN new : new[i] \in t.seen.new
    BY <2>4
  <2>6. new \in Seq(T)
    BY <2>2, <2>3, <2>4
  <2> QED
    BY <2>2, <2>4, <2>5, <2>6
<1>7. freeSongs \in SUBSET Nat /\ IsFiniteSet(freeSongs) /\ freeGroups \in SUBSET Nat /\ IsFiniteSet(freeGroups)
  BY <1>1, FS_Subset, SongConstants
<1>8. /\ ids \in Seq(freeSongs) /\ DOMAIN ids = 1..Len(ids) /\ \A i, j \in DOMAIN ids : ids[i] = ids[j] => i = j
  BY <1>1, <1>7, InOrderFacts, LineOnto
<1>9. /\ groups \in Seq(freeGroups) /\ DOMAIN groups = 1..Len(groups)
      /\ \A i, j \in DOMAIN groups : groups[i] = groups[j] => i = j
  BY <1>1, <1>7, InOrderFacts, LineOnto
<1>10. PICK K : K = DOMAIN new
  OBVIOUS
<1>11. K \subseteq DOMAIN ids /\ K \subseteq DOMAIN groups
  BY <1>2, <1>6, <1>8, <1>9, <1>10
<1>12. /\ \A i \in K : ids[i] \in freeSongs /\ groups[i] \in freeGroups /\ new[i] \in T
       /\ \A i, j \in K : (ids[i] = ids[j] => i = j) /\ (groups[i] = groups[j] => i = j) /\ (new[i] = new[j] => i = j)
  BY <1>6, <1>8, <1>9, <1>10, <1>11
<1>13. \A i \in K : new[i].title \in Nat /\ new[i].owner \in STRING
  BY <1>5, <1>12
<1>14. \A i, j \in K : i # j /\ new[i].owner = new[j].owner => new[i].title # new[j].title
  BY <1>5, <1>12
<1>15. ASSUME NEW i \in K
       PROVE  songGroup'[groups[i]] = [title |-> new[i].title, rev |-> 1]
  <2>1. \E j \in DOMAIN new : groups[i] = groups[j]
    BY <1>10
  <2>2. (CHOOSE j \in DOMAIN new : groups[i] = groups[j]) = i
    BY <1>10, <1>12
  <2>3. groups[i] \in SongGroups
    BY <1>1, <1>12
  <2> QED
    BY <1>3, <2>1, <2>2, <2>3
<1>16. ASSUME NEW i \in K
       PROVE  song'[ids[i]] = [group |-> groups[i], label |-> Default, order |-> 1, owner |-> new[i].owner, rev |-> 1]
  <2>1. \E j \in DOMAIN new : ids[i] = ids[j]
    BY <1>10
  <2>2. (CHOOSE j \in DOMAIN new : ids[i] = ids[j]) = i
    BY <1>10, <1>12
  <2>3. ids[i] \in Songs
    BY <1>1, <1>12
  <2> QED
    BY <1>4, <2>1, <2>2, <2>3
<1>17. /\ \A g \in SongGroups : songGroup'[g] = songGroup[g] \/ \E i \in K : g = groups[i]
       /\ \A s \in Songs : song'[s] = song[s] \/ \E i \in K : s = ids[i]
  BY <1>3, <1>4, <1>10
<1>18. ASSUME NEW i \in K PROVE
          /\ ids[i] \in Songs /\ song[ids[i]].rev = 0 /\ groups[i] \in SongGroups /\ songGroup[groups[i]].rev = 0
          /\ song'[ids[i]].group = groups[i] /\ song'[ids[i]].label = Default /\ song'[ids[i]].owner = new[i].owner
          /\ song'[ids[i]].rev = 1 /\ song'[ids[i]].order = 1
          /\ songGroup'[groups[i]].rev = 1 /\ songGroup'[groups[i]].title = new[i].title
          /\ song'[ids[i]] \in SongRow /\ songGroup'[groups[i]] \in SongGroupRow
  <2>1. /\ ids[i] \in Songs /\ song[ids[i]] = NoSong
        /\ groups[i] \in SongGroups /\ songGroup[groups[i]] = NoSongGroup
    BY <1>1, <1>12
  <2>2. NoSong.rev = 0 /\ NoSongGroup.rev = 0
    BY DEF NoSong, NoSongGroup
  <2>3. PICK row : /\ row = [group |-> groups[i], label |-> Default, order |-> 1, owner |-> new[i].owner, rev |-> 1]
                   /\ song'[ids[i]] = row
    BY <1>16
  <2>4. row.group = groups[i] /\ row.label = Default /\ row.order = 1 /\ row.owner = new[i].owner /\ row.rev = 1
    BY <2>3
  <2>5. PICK groupRow : groupRow = [title |-> new[i].title, rev |-> 1] /\ songGroup'[groups[i]] = groupRow
    BY <1>15
  <2>6. groupRow.title = new[i].title /\ groupRow.rev = 1
    BY <2>5
  <2>7. row \in SongRow
    <3>1. Default \in STRING
      <4>1. song[ids[i]] \in SongRow
        BY <1>0, <2>1 DEF SongsTyped
      <4>2. song[ids[i]].label = Default
        BY <2>1 DEF NoSong
      <4> QED
        BY <4>1, <4>2 DEF SongRow
    <3>2. groups[i] \in SongGroups \union {0}
      BY <2>1
    <3>3. new[i].owner \in STRING
      BY <1>13
    <3> QED
      BY <2>3, <3>1, <3>2, <3>3 DEF SongRow
  <2>8. groupRow \in SongGroupRow
    <3>1. new[i].title \in Nat /\ 1 \in Nat
      BY <1>13
    <3> QED
      BY <2>5, <3>1 DEF SongGroupRow
  <2> QED
    BY <2>1, <2>2, <2>3, <2>4, <2>5, <2>6, <2>7, <2>8
<1>19. SongsTyped'
  <2>1. \A s \in Songs : song'[s] \in SongRow
    <3>1. \A s \in Songs : song[s] \in SongRow
      BY <1>0 DEF SongsTyped
    <3> QED
      BY <1>17, <1>18, <3>1
  <2>2. \A g \in SongGroups : songGroup'[g] \in SongGroupRow
    <3>1. \A g \in SongGroups : songGroup[g] \in SongGroupRow
      BY <1>0 DEF SongsTyped
    <3> QED
      BY <1>17, <1>18, <3>1
  <2>3. song' = [s \in Songs |-> song'[s]] /\ songGroup' = [g \in SongGroups |-> songGroup'[g]]
    BY <1>3, <1>4
  <2>4. song' \in [Songs -> SongRow]
    BY <2>1, <2>3
  <2>5. songGroup' \in [SongGroups -> SongGroupRow]
    BY <2>2, <2>3
  <2> QED
    BY <1>0, <1>2, <2>4, <2>5 DEF SongsTyped
<1>20. ASSUME NEW s \in Songs, ~\E i \in K : s = ids[i], song[s] # NoSong
       PROVE  /\ song'[s] = song[s] /\ song[s].group \in SongGroups
              /\ songGroup'[song[s].group] = songGroup[song[s].group] /\ \A i \in K : groups[i] # song[s].group
  <2>1. song'[s] = song[s] /\ song[s].group \in SongGroups /\ songGroup[song[s].group].rev > 0
    BY <1>0, <1>17, <1>20, RowFacts
  <2>2. \A i \in K : groups[i] # song[s].group
    BY <1>18, <2>1
  <2> QED
    BY <1>17, <2>1, <2>2
<1>21. VersionsAreOrdered'
  <2>1. SUFFICES ASSUME NEW s \in Songs, NEW x \in Songs, s # x, song'[s] # NoSong, song'[s].group = song'[x].group
                 PROVE  song'[s].order # song'[x].order
    BY DEF VersionsAreOrdered, NoSong
  <2>2. song'[s].group # 0
    <3>1. CASE \E i \in K : s = ids[i]
      BY <1>18, <3>1, SongConstants
    <3>2. CASE ~\E i \in K : s = ids[i]
      <4>1. song'[s] = song[s] /\ song[s] # NoSong
        BY <1>17, <2>1, <3>2
      <4> QED
        BY <1>0, <4>1, RowFacts
    <3> QED
      BY <3>1, <3>2
  <2>3. song'[x] # NoSong
    BY <2>1, <2>2 DEF NoSong
  <2>4. CASE (\E i \in K : s = ids[i]) /\ (\E i \in K : x = ids[i])
    BY <1>12, <1>18, <2>1, <2>4
  <2>5. CASE (\E i \in K : s = ids[i]) /\ ~(\E i \in K : x = ids[i])
    <3>1. song[x] # NoSong
      BY <1>17, <2>3, <2>5
    <3> QED
      BY <1>18, <1>20, <2>1, <2>5, <3>1
  <2>6. CASE ~(\E i \in K : s = ids[i]) /\ (\E i \in K : x = ids[i])
    <3>1. song[s] # NoSong
      BY <1>17, <2>1, <2>6
    <3> QED
      BY <1>18, <1>20, <2>1, <2>6, <3>1
  <2>7. CASE ~(\E i \in K : s = ids[i]) /\ ~(\E i \in K : x = ids[i])
    <3>1. song'[s] = song[s] /\ song'[x] = song[x]
      BY <1>17, <2>7
    <3> QED
      BY <1>0, <2>1, <3>1 DEF VersionsAreOrdered
  <2> QED
    BY <2>4, <2>5, <2>6, <2>7
<1>22. ASSUME NEW s \in Songs, ~\E i \in K : s = ids[i], NEW owner, NEW title, AsCreated(s, owner, title)'
       PROVE  AsCreated(s, owner, title)
  <2>1. song'[s] = song[s] /\ song[s] # NoSong
    BY <1>17, <1>22 DEF AsCreated, NoSong
  <2> QED
    BY <1>20, <1>22, <2>1 DEF AsCreated
<1>23. ASSUME NEW i \in K, NEW s \in Songs, ~\E j \in K : s = ids[j]
       PROVE  ~AsCreated(s, new[i].owner, new[i].title)'
  BY <1>6, <1>10, <1>22, <1>23
<1>24. CreatedTitlesDiffer'
  <2>1. SUFFICES ASSUME NEW s \in Songs, NEW x \in Songs, NEW owner, NEW title, s # x,
                        AsCreated(s, owner, title)', AsCreated(x, owner, title)'
                 PROVE  FALSE
    BY DEF CreatedTitlesDiffer, AsCreated
  <2>2. CASE (\E i \in K : s = ids[i]) /\ (\E i \in K : x = ids[i])
    BY <1>14, <1>18, <2>1, <2>2 DEF AsCreated
  <2>3. CASE (\E i \in K : s = ids[i]) /\ ~(\E i \in K : x = ids[i])
    BY <1>18, <1>23, <2>1, <2>3 DEF AsCreated
  <2>4. CASE ~(\E i \in K : s = ids[i]) /\ (\E i \in K : x = ids[i])
    BY <1>18, <1>23, <2>1, <2>4 DEF AsCreated
  <2>5. CASE ~(\E i \in K : s = ids[i]) /\ ~(\E i \in K : x = ids[i])
    BY <1>0, <1>22, <2>1, <2>5 DEF CreatedTitlesDiffer, AsCreated
  <2> QED
    BY <2>2, <2>3, <2>4, <2>5
<1>25. ASSUME NEW s \in Songs, NEW owner, NEW title, AsCreated(s, owner, title)', TitleLock(title) \notin t.held
       PROVE  AsCreated(s, owner, title)
  <2>1. ASSUME NEW i \in K, s = ids[i] PROVE FALSE
    <3>1. title = new[i].title
      BY <1>18, <1>25, <2>1 DEF AsCreated
    <3> QED
      BY <1>6, <1>10, <1>25, <3>1
  <2> QED
    BY <1>22, <1>25, <2>1
<1>26. SongState' /\ Leaves(t.held)
  <2>1. \A g \in SongGroups : songGroup'[g] = songGroup[g] \/ songGroup'[g].rev > songGroup[g].rev
    BY <1>17, <1>18
  <2>2. \A s \in Songs : song'[s] = song[s] \/
           (song'[s].rev > song[s].rev /\ song'[s].group \in SongGroups /\ songGroup'[song'[s].group].rev > 0)
    BY <1>17, <1>18
  <2>3. \A s \in Songs : song[s].rev > 0 /\ song[s].label = Default =>
           song'[s].label = Default /\ song'[s].group = song[s].group
    BY <1>17, <1>18
  <2>4. \A g \in SongGroups : songGroup[g].rev = 0 /\ songGroup'[g].rev > 0 =>
           \E s \in Songs : song'[s].group = g /\ song'[s].label = Default
    BY <1>17, <1>18
  <2>5. ASSUME NEW g \in SongGroups, songGroup[g].rev > 0 PROVE SameOrder(g)
    <3>1. \A i \in K : groups[i] # g
      BY <1>18, <2>5
    <3>2. \A s \in Songs : song[s].group = g => song[s] # NoSong
      BY <1>0, RowFacts
    <3>3. \A i \in K : song[ids[i]].group # g /\ song'[ids[i]].group # g
      BY <1>0, <1>18, <3>1, <3>2, RowFacts
    <3>4. Versions(g)' = Versions(g)
      BY <1>17, <3>3 DEF Versions
    <3> QED
      BY <1>17, <3>3, <3>4 DEF SameOrder, Versions
  <2> QED
    BY <1>2, <1>19, <1>21, <1>24, <1>25, <2>1, <2>2, <2>3, <2>4, <2>5, CatalogChange
<1> QED
  BY <1>1, <1>2, <1>26, WriteStep

\* Albums change with their revision only.
LEMMA AlbumChange ==
    ASSUME SongInv, NEW c \in Clients, Finish(c), UNCHANGED <<song, songGroup>>,
           album' \in [Albums -> AlbumRow],
           \A a \in Albums : album'[a] = album[a] \/ album'[a].rev > album[a].rev,
           \A a \in Albums : album'[a] = album[a] \/ album[a] = NoAlbum \/ AlbumLock(a) \in txn[c].held
    PROVE  SongInv'
<1>1. SongState
  BY DEF SongInv
<1>2. \A g : Versions(g)' = Versions(g)
  BY DEF Versions
<1>3. SongState'
  BY <1>1, <1>2 DEF SongState, SongsTyped, RowsSound, VersionsAreOrdered, GroupsKeepADefault, CreatedTitlesDiffer
<1>4. CatalogGrows /\ \A g : SameOrder(g)
  BY <1>2 DEF CatalogGrows, SameOrder
<1>5. \A s, owner, title : AsCreated(s, owner, title)' <=> AsCreated(s, owner, title)
  BY DEF AsCreated
<1>6. Leaves(txn[c].held)
  BY <1>4, <1>5 DEF Leaves
<1> QED
  BY <1>3, <1>6, WriteStep

LEMMA InsertAlbumStep ==
    ASSUME SongInv, NEW c \in Clients, InsertAlbum(c)
    PROVE  SongInv'
<1>0. SongsTyped
  BY DEF SongInv, SongState
<1>1. PICK req, free, a, row :
         /\ req = txn[c].req /\ free = {b \in Albums : album[b] = NoAlbum} /\ a = InOrder(free)[1]
         /\ row = [name |-> req.name, tracks |-> req.tracks, rev |-> 1]
  OBVIOUS
<1>2. Ready(c, {"create_album"}, "store") /\ free # {} /\ Finish(c) /\ song' = song /\ songGroup' = songGroup
  BY <1>1 DEF InsertAlbum
<1>3. album' = [album EXCEPT ![a] = row]
  BY <1>1 DEF InsertAlbum
<1>4. req.name \in STRING /\ req.tracks \in Seq(Songs)
  BY <1>1, <1>2 DEF Ready, SongInv, SongRequests, SongRequest
<1>5. a \in free
  <2>1. free \in SUBSET Nat /\ IsFiniteSet(free)
    BY <1>1, FS_Subset, SongConstants
  <2> QED
    BY <1>1, <1>2, <2>1, FirstInOrder
<1>6. a \in Albums /\ album[a].rev = 0
  BY <1>1, <1>5 DEF NoAlbum
<1>7. row \in AlbumRow /\ row.rev = 1
  BY <1>1, <1>4 DEF AlbumRow
<1>8. /\ album' \in [Albums -> AlbumRow]
      /\ \A b \in Albums : album'[b] = album[b] \/ album'[b].rev > album[b].rev
      /\ \A b \in Albums : album'[b] = album[b] \/ album[b] = NoAlbum
  BY <1>0, <1>1, <1>3, <1>5, <1>6, <1>7 DEF SongsTyped
<1> QED
  BY <1>2, <1>8, AlbumChange

\* What a saved album was.
LEMMA SavedAlbum ==
    ASSUME SongInv, NEW c \in Clients, SaveAlbum(c)
    PROVE  /\ txn[c].req.album \in Albums /\ Finish(c) /\ UNCHANGED <<song, songGroup>>
           /\ album' \in [Albums -> AlbumRow]
           /\ \A a \in Albums :
                 album'[a] = album[a] \/ (album'[a].rev > album[a].rev /\ AlbumLock(a) \in txn[c].held)
           /\ txn[c].req.kind = "update_album_tracks" => \A a \in Albums : album'[a].name = album[a].name
<1>0. SongsTyped /\ AlbumSound(c)
  BY DEF SongInv, SongState, CatalogSound
<1>1. PICK req, seen, a, tracks, row :
         /\ req = txn[c].req /\ seen = txn[c].seen /\ a = req.album
         /\ tracks = IF req.replaces THEN req.tracks ELSE album[a].tracks
         /\ row = [name |-> seen.name, rev |-> album[a].rev + 1, tracks |-> tracks]
  OBVIOUS
<1>2. /\ Ready(c, AlbumForms, "store") /\ Finish(c)
      /\ song' = song /\ songGroup' = songGroup
  BY <1>1 DEF SaveAlbum
<1>3. album' = [album EXCEPT ![a] = row]
  BY <1>1 DEF SaveAlbum
<1>4. a \in Albums /\ req.tracks \in Seq(Songs)
  BY <1>1, <1>2 DEF Ready, SongInv, SongRequests, SongRequest
<1>5. /\ seen.name \in STRING /\ AlbumLock(a) \in txn[c].held
      /\ req.kind = "update_album_tracks" => album[a].name = seen.name
  BY <1>0, <1>1, <1>2 DEF AlbumSound, Ready
<1>6. album[a].rev \in Nat /\ album[a].tracks \in Seq(Songs)
  BY <1>0, <1>4 DEF SongsTyped, AlbumRow
<1>7. row.name = seen.name /\ row.rev = album[a].rev + 1 /\ row \in AlbumRow
  BY <1>1, <1>4, <1>5, <1>6 DEF AlbumRow
<1>8. album' \in [Albums -> AlbumRow] /\ album'[a] = row /\ \A b \in Albums \ {a} : album'[b] = album[b]
  BY <1>0, <1>3, <1>4, <1>7 DEF SongsTyped
<1> QED
  BY <1>1, <1>2, <1>4, <1>5, <1>6, <1>7, <1>8

LEMMA SongStoreSteps ==
    ASSUME SongInv, NEW c \in Clients,
           \/ StoreNewVersion(c) \/ UpdateVersion(c) \/ CorrectOwnership(c) \/ StoreGroups(c) \/ UpdateGroup(c)
           \/ MoveGroup(c) \/ EditSong(c) \/ InsertAlbum(c) \/ SaveAlbum(c)
    PROVE  SongInv'
<1>1. CASE EditSong(c)
  BY <1>1, EditInPlaceStep, EditMovesStep
<1>2. CASE SaveAlbum(c)
  BY <1>2, SavedAlbum, AlbumChange
<1> QED
  BY <1>1, <1>2, StoreNewVersionStep, VersionStep, StoreGroupsStep, UpdateGroupStep, MoveGroupStep, InsertAlbumStep

LEMMA SongsStep ==
    ASSUME SongInv, NEW c \in Clients, SongsNext(c)
    PROVE  SongInv'
<1>1. CASE \E req \in workload : SongStart(c, req)
  <2>1. PICK req \in workload : SongStart(c, req)
    BY <1>1
  <2>2. Turn(c) /\ CatalogSound(c)'
    BY <2>1, SongStartStep
  <2>3. UNCHANGED songVars
    BY <2>1 DEF SongStart, OpenCatalogForm, StartCreateGroups, StartCreateAlbum
  <2> QED
    BY <2>2, <2>3, SameCatalogTurn
<1>2. CASE SongStep(c)
  <2>1. CASE \/ SendNewVersion(c) \/ SendVersionForm(c) \/ BeginItems(c) \/ FindDefaultVersion(c) \/ SendGroupForm(c) \/ LockGroupSongs(c)
             \/ SendMove(c) \/ ReadSource(c) \/ LockMovedSong(c) \/ SendEdit(c) \/ LockEditedSongs(c)
             \/ SendAlbumForm(c) \/ ReadAlbum(c) \/ CheckAlbum(c)
    <3>1. Turn(c) /\ UNCHANGED songVars /\ CatalogSound(c)'
      BY <2>1, VersionFormSteps, BeginItemsStep, FindStep, GroupFormSteps, MoveFormSteps, EditFormSteps, AlbumFormSteps
    <3> QED
      BY <3>1, SameCatalogTurn
  <2> QED
    BY <1>2, <2>1, SongStoreSteps DEF SongStep
<1> QED
  BY <1>1, <1>2 DEF SongsNext

LEMMA SongInvStep == SongInv /\ [Next]_vars => SongInv'
<1> SUFFICES ASSUME SongInv, [Next]_vars PROVE SongInv'
  OBVIOUS
<1>1. CASE UNCHANGED vars
  <2>1. UNCHANGED <<txn, workload, song, songGroup, album>>
    BY <1>1 DEF vars, txnVars, songVars
  <2>2. SongState' /\ TxnInv' /\ SongRequests'
    <3>1. SongState'
      BY <2>1, SameCatalog DEF songVars
    <3> QED
      BY <2>1, <3>1 DEF SongInv, TxnInv, TxnType, LocksApart, SongRequests, SongRequest
  <2>3. ASSUME NEW d \in Clients PROVE CatalogSound(d)'
    <3>1. SongsTyped' /\ txn'[d] = txn[d] /\ Leaves({})
      BY <2>1, <2>2, SameCatalog DEF SongState, songVars
    <3> QED
      BY <3>1, CatalogStays
  <2> QED
    BY <2>2, <2>3 DEF SongInv
<1>2. CASE Next
  <2>1. PICK c \in Clients :
           LivesNext(c) \/ CollectionsNext(c) \/ VenuesNext(c) \/ SongsNext(c) \/ DatabaseNext(c)
    BY <1>2 DEF Next
  <2> QED
    BY <2>1, NotSongStep, SongsStep, SongDatabaseStep
<1> QED
  BY <1>1, <1>2

----------------------------------------------------------------------------
LEMMA SongInvInit == Init => SongInv
<1> SUFFICES ASSUME Init PROVE SongInv
  OBVIOUS
<1>1. PICK s \in Scenarios : TxnInit(s.requests) /\ SongInit(s)
  BY DEF Init
<1>2. song = s.songs /\ songGroup = s.songGroups /\ album = s.albums
  BY <1>1 DEF SongInit
<1>3. SongsTyped /\ CatalogConsistent(song, songGroup)
  BY <1>1, <1>2, ScenarioAssumption DEF SongsTyped
<1>4. RowsSound
  BY <1>3 DEF SongsTyped, RowsSound, CatalogConsistent, SongRow
<1>5. VersionsAreOrdered
  BY <1>3 DEF SongsTyped, VersionsAreOrdered, CatalogConsistent
<1>6. GroupsKeepADefault
  BY <1>3 DEF GroupsKeepADefault, CatalogConsistent, Versions
<1>7. CreatedTitlesDiffer
  BY <1>3 DEF CreatedTitlesDiffer, CatalogConsistent
<1>8. /\ txn = [c \in Clients |-> Idle] /\ workload = s.requests
      /\ \A c \in Clients : txn[c] = Idle
  BY <1>1 DEF TxnInit
<1>9. TxnInv
  BY <1>8 DEF TxnInv, TxnType, LocksApart, Idle
<1>10. SongRequests
  <2>1. SongRequest(NoRequest)
    BY DEF SongRequest, NoRequest, GroupCreations, AlbumForms
  <2> QED
    BY <1>1, <1>8, <2>1, ScenarioAssumption DEF SongRequests, Idle
<1>11. ASSUME NEW c \in Clients PROVE CatalogSound(c)
  <2>1. txn[c].req.kind = "none"
    BY <1>8 DEF Idle, NoRequest
  <2> QED
    BY <2>1 DEF SongKinds, SongForms, CatalogSound, VersionFormSound, CreationSound, GroupFormSound, MoveSound,
         EditSound, AlbumSound, GroupCreations, AlbumForms
<1> QED
  BY <1>3, <1>4, <1>5, <1>6, <1>7, <1>9, <1>10, <1>11 DEF SongInv, SongState

(* The inductive invariant of the catalogue: what its tables hold, and what a
   request that waits for a lock may rely on when it goes on. *)
THEOREM SongInvariant == Spec => []SongInv
  BY SongInvInit, SongInvStep, PTL DEF Spec

(* Two versions of a song never share a position: whoever adds, moves or
   renumbers versions holds the lock of the group. *)
THEOREM VersionsAreOrderedAlways == Spec => []VersionsAreOrdered
<1>1. SongInv => VersionsAreOrdered
  BY DEF SongInv, SongState
<1> QED
  BY <1>1, SongInvariant, PTL

(* A stored group keeps its version without a label: no form may label, move
   or empty it. *)
THEOREM GroupsKeepADefaultAlways == Spec => []GroupsKeepADefault
<1>1. SongInv => GroupsKeepADefault
  BY DEF SongInv, SongState
<1> QED
  BY <1>1, SongInvariant, PTL

(* Batches that create the same song by the same owner create it once: the
   locks of the titles cover the search and the insert. *)
THEOREM CreatedTitlesDifferAlways == Spec => []CreatedTitlesDiffer
<1>1. SongInv => CreatedTitlesDiffer
  BY DEF SongInv, SongState
<1> QED
  BY <1>1, SongInvariant, PTL

\* A request about the tracks of an album writes in its last step only.
LEMMA TracksStep == SongInv /\ [Next]_vars =>
    \A c \in Clients : \A a \in Albums :
        txn[c].req.kind = "update_album_tracks" /\ Ends(c) /\ album[a] # NoAlbum => album'[a].name = album[a].name
<1> SUFFICES ASSUME SongInv, [Next]_vars, NEW c \in Clients, NEW a \in Albums,
                    txn[c].req.kind = "update_album_tracks", Ends(c)
             PROVE  album'[a].name = album[a].name
  OBVIOUS
<1>1. txn'[c] # txn[c] /\ txn'[c].at = "idle" /\ txn[c].at # "idle"
  BY DEF Ends
<1>2. Next
  BY <1>1 DEF vars, txnVars
<1>3. PICK d \in Clients : LivesNext(d) \/ CollectionsNext(d) \/ VenuesNext(d) \/ SongsNext(d) \/ DatabaseNext(d)
  BY <1>2 DEF Next
<1>4. CASE LivesNext(d) \/ CollectionsNext(d) \/ VenuesNext(d) \/ DatabaseNext(d)
  BY <1>4 DEF LivesNext, CollectionsNext, VenuesNext, DatabaseNext, songVars
<1>5. CASE SongsNext(d)
  <2>1. CASE d # c
    <3>1. Others(d)
      BY <1>5, SongTurn DEF SongInv, TxnInv, SongsNext, Turn
    <3> QED
      BY <1>1, <2>1, <3>1 DEF Others
  <2>2. CASE d = c
    <3>1. CASE SaveAlbum(c)
      BY <3>1, SavedAlbum
    <3>2. CASE album' = album
      BY <3>2
    <3>3. ~InsertAlbum(c)
      BY DEF InsertAlbum, Ready
    <3>4. CASE \E req \in workload : SongStart(c, req)
      BY <3>2, <3>4 DEF SongStart, OpenCatalogForm, StartCreateGroups, StartCreateAlbum, songVars
    <3>5. CASE SendNewVersion(c) \/ SendVersionForm(c) \/ BeginItems(c) \/ FindDefaultVersion(c) \/ SendGroupForm(c) \/ LockGroupSongs(c)
               \/ SendMove(c) \/ ReadSource(c) \/ LockMovedSong(c) \/ SendEdit(c) \/ LockEditedSongs(c)
               \/ SendAlbumForm(c) \/ ReadAlbum(c) \/ CheckAlbum(c)
      BY <3>2, <3>5 DEF SendNewVersion, SendVersionForm, BeginItems, FindDefaultVersion, SendGroupForm, LockGroupSongs, SendMove,
         ReadSource, LockMovedSong, SendEdit, LockEditedSongs, SendAlbumForm, ReadAlbum, CheckAlbum, songVars
    <3>6. CASE StoreNewVersion(c)
      BY <3>2, <3>6 DEF StoreNewVersion
    <3>7. CASE UpdateVersion(c) \/ CorrectOwnership(c)
      BY <3>2, <3>7 DEF UpdateVersion, CorrectOwnership
    <3>8. CASE StoreGroups(c)
      BY <3>2, <3>8 DEF StoreGroups
    <3>9. CASE UpdateGroup(c)
      BY <3>2, <3>9 DEF UpdateGroup
    <3>10. CASE MoveGroup(c)
      BY <3>2, <3>10 DEF MoveGroup
    <3>11. CASE EditSong(c)
      BY <3>2, <3>11 DEF EditSong
    <3> QED
      BY <1>5, <2>2, <3>1, <3>3, <3>4, <3>5, <3>6, <3>7, <3>8, <3>9, <3>10, <3>11 DEF SongsNext, SongStep
  <2> QED
    BY <2>1, <2>2
<1> QED
  BY <1>3, <1>4, <1>5

(* Tracks are saved under the revision of their form, so that the name which
   was read in an earlier transaction is still the album's. *)
THEOREM TracksKeepAlbumNameAlways == Spec => TracksKeepAlbumName
<1>1. SongInv /\ [Next]_vars =>
         [\A c \in Clients : \A a \in Albums :
             txn[c].req.kind = "update_album_tracks" /\ Ends(c) /\ album[a] # NoAlbum
                => album'[a].name = album[a].name]_vars
  BY TracksStep
<1> QED
  BY <1>1, SongInvariant, PTL DEF Spec, TracksKeepAlbumName

(* What a form was compared with is still stored when its request writes: the
   venue is locked before the comparison, and a catalogue form ends with the
   revision that vouches for the group and the order read without a lock. *)
THEOREM FormsStillCurrentAlways == Spec => []FormsStillCurrent
<1>1. SongInv /\ VenueFormInv => FormsStillCurrent
  <2>1. SUFFICES ASSUME SongInv, VenueFormInv, NEW c \in Clients
                 PROVE  /\ Ready(c, {"save_location", "edit_venue"}, "store") =>
                              venue[txn[c].req.venue] = txn[c].seen.form.venue
                        /\ Ready(c, {"move_group"}, "store") /\ song[txn[c].req.song].rev = txn[c].seen.rev =>
                              song[txn[c].req.song].group = txn[c].seen.before
                        /\ Ready(c, {"edit_song"}, "store") => InVersionOrder(txn[c].seen.group) = txn[c].seen.ids
    BY DEF FormsStillCurrent
  <2>2. VenueFormSound(c) /\ MoveSound(c) /\ EditSound(c)
    BY <2>1 DEF VenueFormInv, SongInv, CatalogSound
  <2>3. Ready(c, {"save_location", "edit_venue"}, "store") => venue[txn[c].req.venue] = txn[c].seen.form.venue
    BY <2>2 DEF Ready, VenueFormSound
  <2>4. Ready(c, {"move_group"}, "store") /\ song[txn[c].req.song].rev = txn[c].seen.rev =>
           song[txn[c].req.song].group = txn[c].seen.before
    BY <2>2 DEF Ready, MoveSound
  <2>5. Ready(c, {"edit_song"}, "store") => InVersionOrder(txn[c].seen.group) = txn[c].seen.ids
    BY <2>2 DEF Ready, EditSound
  <2> QED
    BY <2>3, <2>4, <2>5
<1> QED
  BY <1>1, SongInvariant, VenueFormInvariant, PTL
===============================================================================
