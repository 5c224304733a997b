-------------------------------- MODULE Console --------------------------------
(***************************************************************************)
(* The editors' console: the requests of several editors and users against *)
(* one database.  Lives and bands, collections of Lives, venues, and songs *)
(* share the transactions and their locks; collections also read what the  *)
(* Lives are.                                                              *)
(***************************************************************************)
EXTENDS CollectionConsole, VenueConsole

CONSTANT Scenarios  \* what a behaviour begins with, and the requests sent in it

ASSUME ScenarioAssumption ==
    \A s \in Scenarios :
        /\ s.lives \in [Lives -> LiveRow]
        /\ \A l \in Lives :
              /\ s.lives[l].bands \subseteq DOMAIN FirstNames
              /\ s.lives[l].status = "none" => s.lives[l].bands = {}
        /\ s.collections \in [Families -> [CollectionIds -> CollectionRow]]
        /\ \A f \in Families, k, n \in CollectionIds :
              k # n => s.collections[f][k].lives \cap s.collections[f][n].lives = {}
        /\ s.venues \in [Venues -> VenueRow]
        /\ \A v, w \in Venues : \A i \in DOMAIN s.venues[v].names, j \in DOMAIN s.venues[w].names :
              s.venues[v].names[i] = s.venues[w].names[j] => v = w /\ i = j
        /\ s.localities \in [Localities -> STRING]
        /\ s.songs \in [Songs -> SongRow]
        /\ s.songGroups \in [SongGroups -> SongGroupRow]
        /\ s.albums \in [Albums -> AlbumRow]
        /\ CatalogConsistent(s.songs, s.songGroups)
        /\ \A r \in s.requests : LiveRequest(r) /\ CollectionRequest(r) /\ VenueRequest(r) /\ SongRequest(r)

ASSUME FirstNamesDiffer ==
    \A b1, b2 \in DOMAIN FirstNames : FirstNames[b1] = FirstNames[b2] => b1 = b2

vars == <<txnVars, liveVars, collection, venueVars, songVars>>

Init ==
    \E s \in Scenarios :
        /\ TxnInit(s.requests)
        /\ LiveInit(s) /\ CollectionInit(s) /\ VenueInit(s) /\ SongInit(s)

LivesNext(c) ==
    /\ (\E req \in workload : LiveStart(c, req)) \/ LiveStep(c)
    /\ UNCHANGED <<collection, venueVars, songVars>>

CollectionsNext(c) ==
    /\ (\E req \in workload : CollectionStart(c, req)) \/ CollectionStep(c)
    /\ UNCHANGED <<liveVars, venueVars, songVars>>

VenuesNext(c) ==
    /\ (\E req \in workload : VenueStart(c, req)) \/ VenueStep(c)
    /\ UNCHANGED <<liveVars, collection, songVars>>

SongsNext(c) ==
    /\ (\E req \in workload : SongStart(c, req)) \/ SongStep(c)
    /\ UNCHANGED <<liveVars, collection, venueVars>>

DatabaseNext(c) ==
    /\ TakeLock(c) \/ RollBack(c)
    /\ UNCHANGED <<liveVars, collection, venueVars, songVars>>

Next ==
    \E c \in Clients :
        LivesNext(c) \/ CollectionsNext(c) \/ VenuesNext(c) \/ SongsNext(c) \/ DatabaseNext(c)

Spec == Init /\ [][Next]_vars

----------------------------------------------------------------------------
(* The values of the variables, which the constraints of the tables and the
   handlers' own checks keep. *)
TypeOK ==
    /\ live \in [Lives -> LiveRow]
    /\ setlist \in [Lives -> SUBSET Performance]
    /\ context \in [Lives -> [Bands -> Context]]
    /\ rescheduled \subseteq Lives
    /\ DOMAIN names = Bands /\ DOMAIN lineups = Bands
    /\ \A b \in Bands : Range(names[b]) \subseteq Names /\ Range(lineups[b]) \subseteq Lives \union {0}
    /\ favorites \subseteq Users \X Lives
    /\ DOMAIN txn = Clients /\ started \in 0..MaxRequests

Policy == INSTANCE LivePolicy

\* A handover stored at a Live that was updated or whose setlist was saved after the
\* request had checked it: it waited for the Live's foreign key and checks nothing again.
LateHandover ==
    \E c \in Clients :
        LET l == txn[c].req.live
        IN /\ Ready(c, {"create_lineup_version"}, "store")
           /\ l # 0 /\ txn[c].seen.found # <<live[l], setlist[l]>>
           /\ Policy!RecordHandOver(l, txn[c].req.band)

(* Every commit is a step the policy of Lives allows: what update_live,
   append_live_setlist and replace_live_setlist checked before they waited for
   locks still holds when they store, and what create_band_lineup_version checked
   (a Live that is not cancelled, a band that plays there) unless the Live was
   changed while it waited. *)
LivesObeyPolicy == Policy!PolicyInit /\ [][Policy!PolicyNext \/ LateHandover]_<<live, setlist, context>>

(* A Live with a setlist is not cancelled and not in the future, whichever of
   update_live and the two setlist handlers came first. *)
SetlistKeepsItsDay == \A l \in Lives : setlist[l] # {} => SetlistAllowed(l)

(* A performing band has a line-up context at the Live, and one that performs
   in its next line-up performs at the Live of that handover, although
   contexts are written by update_live and create_band_lineup_version too. *)
PerformancesHaveContext ==
    \A l \in Lives : \A p \in setlist[l] :
        /\ HasContext(l, p.band)
        /\ p.usage = "next" => MayUseNext(l, p.band, context[l])

\* The Live whose relation a transaction inserts next, those it has inserted, and
\* those of the collection it replaces.
Wanted(t) == t.seen.order[t.seen.next]
Added(t) == {t.seen.order[i] : i \in 1..t.seen.next - 1}
Replaced(t) == IF t.req.id = 0 THEN {} ELSE collection[Family(t.req)][t.req.id].lives

\* Each inserts a Live that the other has inserted or deleted, and not both wait
\* for a deletion.
CrossedInserts(s, t) ==
    /\ {s.req.kind, t.req.kind} \subseteq CollectionKinds /\ Family(s.req) = Family(t.req)
    /\ s.at = "insert" /\ t.at = "insert"
    /\ Wanted(s) \in Added(t) \union Replaced(t)
    /\ Wanted(t) \in Added(s) \union Replaced(s)
    /\ Wanted(s) \in Added(t) \/ Wanted(t) \in Added(s)

\* The requests that lock rows of a table in the order they were sent in and not in
\* that of the ids: the song groups of setlist rows, the songs of tracks and of the
\* covers of a batch, the favourites.
InSentOrder(kind) ==
    CASE kind \in SetlistKinds -> {"song group"}
      [] kind \in {"create_album", "create_groups_batch"} \union AlbumForms -> {"song"}
      [] kind \in {"favorite", "favorite_batch"} -> {"favorite"}
      [] OTHER -> {}

\* Such a request holds a row and wants one with a lower id.
AgainstIds(t) ==
    LET row == Head(t.plan).row
    IN row[1] \in InSentOrder(t.req.kind) /\ \E k \in t.held : k.row[1] = row[1] /\ row[2] < k.row[2]

(* Two requests wait for each other in three cases only: one records a handover,
   which locks the band first and the Live last; or both write tours, or both
   groups, with Lives in common, because a day changed between the reads of their
   orders or because the one replaces relations that the other did not find; or one
   is a setlist, an album, a batch of songs or of favourites that locks rows against
   the order of their ids.  Two requests that edit songs or groups never do. *)
DeadlocksAreKnown ==
    \A c, d \in Clients : c \in WaitsFor(d) /\ d \in WaitsFor(c) =>
        \/ \E e \in {c, d} : txn[e].req.kind = "create_lineup_version" /\ txn[e].req.live # 0
        \/ CrossedInserts(txn[c], txn[d])
        \/ AgainstIds(txn[c]) \/ AgainstIds(txn[d])

(* Bands created at the same time get different names: no index says so, only
   the advisory lock of create_band. *)
CreatedNamesDiffer ==
    \A b1, b2 \in Bands : b1 # b2 /\ Created(b1) /\ Created(b2) => names[b1][1] # names[b2][1]

(* A Live is in one tour and in one performance group at most, although each
   request checks that before it waits for the relations of another. *)
OneCollectionPerLive ==
    \A f \in Families : \A l \in Lives : Cardinality(Owners(f, 0, l)) <= 1

(* No venue name is used twice, not even an old one: the creation, the rename
   and the editor of a venue check that under one lock. *)
VenueNamesUnique ==
    \A v, w \in Venues : \A i \in DOMAIN venue[v].names, j \in DOMAIN venue[w].names :
        venue[v].names[i] = venue[w].names[j] => v = w /\ i = j

(* What a form was compared with is still stored when the request writes: a
   venue's place and name, the group a moved song leaves, the order of the
   versions that an edit renumbers. *)
FormsStillCurrent ==
    \A c \in Clients : txn[c].plan = <<>> =>
        /\ Ready(c, {"save_location", "edit_venue"}, "store") =>
              venue[txn[c].req.venue] = txn[c].seen.form.venue
        /\ Ready(c, {"move_group"}, "store") /\ song[txn[c].req.song].rev = txn[c].seen.rev =>
              song[txn[c].req.song].group = txn[c].seen.before
        /\ Ready(c, {"edit_song"}, "store") => InVersionOrder(txn[c].seen.group) = txn[c].seen.ids

(* Two versions of a song never share a position, whatever adds, moves and
   renumbers them. *)
VersionsAreOrdered ==
    \A s, t \in Songs : s # t /\ song[s] # NoSong /\ song[s].group = song[t].group =>
        song[s].order # song[t].order

(* A group of songs keeps the version without a label that batches look for. *)
GroupsKeepADefault ==
    \A g \in SongGroups : songGroup[g] # NoSongGroup =>
        \E s \in Versions(g) : song[s].label = Default

(* Two batches that create the same song by the same owner create it once; a
   song that was edited since does not count. *)
CreatedTitlesDiffer ==
    \A s, t \in Songs :
        /\ s # t /\ song[s].rev = 1 /\ song[t].rev = 1
        /\ song[s].label = Default /\ song[t].label = Default /\ song[s].owner = song[t].owner
        /\ songGroup[song[s].group].rev = 1 /\ songGroup[song[t].group].rev = 1
        => songGroup[song[s].group].title # songGroup[song[t].group].title

(* The handover recorded at a Live stays in its context as long as the band
   plays there: an update or a setlist that read the contexts before it does
   not write them back. *)
HandoverNotLost ==
    [][\A l \in Lives, b \in Bands :
          context[l][b].next # 0 => context'[l][b].next = context[l][b].next \/ b \notin live'[l].bands]_vars

Ends(c) == txn[c].at # "idle" /\ txn'[c].at = "idle"

(* update_album_tracks reads the name in one transaction and writes it back in
   another: it must not undo a rename that came in between. *)
TracksKeepAlbumName ==
    [][\A c \in Clients : \A a \in Albums :
          txn[c].req.kind = "update_album_tracks" /\ Ends(c) /\ album[a] # NoAlbum
             => album'[a].name = album[a].name]_vars

(* What the trigger of V20 says: a cancelled Live is nobody's favourite.  The
   code does not keep it: the trigger of an insert reads the status before the
   foreign key waits for the transaction that cancels the Live. *)
NoFavoriteOnCancelled == \A f \in favorites : live[f[2]].status # "cancelled"

(* What the documentation of the console's interface says: a line-up version is
   bound to a handover Live that the band is associated with, and the query asks
   that it is not cancelled.  The code does not keep it: the Live is read without a
   lock, and may be cancelled or lose the band before the version is stored. *)
HandoverAtItsLive ==
    \A c \in Clients :
        Ready(c, {"create_lineup_version"}, "store") /\ txn[c].req.live # 0 =>
            live[txn[c].req.live].status # "cancelled" /\ txn[c].req.band \in EffectiveBands(txn[c].req.live)
================================================================================
