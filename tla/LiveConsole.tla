------------------------------ MODULE LiveConsole ------------------------------
(***************************************************************************)
(* Lives, their setlists and line-up contexts, the version history of      *)
(* bands, and the favourites that hang on a Live (console_write.py,        *)
(* console_bands.py, band_history_write.py, me.py, migrations V20-V25).    *)
(*                                                                         *)
(* A version of a band is its number; the last one is the open one, and a  *)
(* version follows the one before it.  Number 0 means "none".              *)
(***************************************************************************)
EXTENDS SongConsole

CONSTANTS
    Lives,         \* ids of Lives, those still to be created included
    Bands,         \* band ids, numbers from 1
    RegularBands,  \* the ids of the range "regular" (1-99 in the code)
    Names,         \* band names
    FirstNames,    \* the names of the bands a behaviour begins with
    Users,
    Days,          \* calendar days, numbers
    Today,         \* the current day where the Lives take place
    MaxVersions    \* bound on the versions of a band

ASSUME LiveConstants ==
    /\ Bands \subseteq Nat /\ IsFiniteSet(Bands) /\ RegularBands \subseteq Bands
    /\ DOMAIN FirstNames \subseteq Bands
    /\ \A b \in DOMAIN FirstNames : FirstNames[b] \in Names
    /\ Days \subseteq Nat /\ Today \in Days /\ MaxVersions \in Nat

VARIABLES
    live,       \* live_attrs
    rescheduled,\* Lives with a row in live_schedule_history
    setlist,    \* setlist[l]: the performances of the setlist rows
    context,    \* live_band_lineup_contexts
    names,      \* names[b]: band_name_versions, <<>> for a band not created
    lineups,    \* lineups[b]: band_lineup_versions, with the handover Live
    favorites   \* user_live_favorites

liveVars == <<live, rescheduled, setlist, context, names, lineups, favorites>>

Statuses == {"scheduled", "postponed", "cancelled"}
NoLive == [status |-> "none", day |-> Today, bands |-> {}]
LiveRow == [status : Statuses \union {"none"}, day : Days, bands : SUBSET Bands]
Performance == [band : Bands, usage : {"base", "next"}]
SetlistRow == [song : SongGroups, performances : SUBSET Performance]
Context == [name : Nat, base : Nat, next : Nat]
NoContext == [name |-> 0, base |-> 0, next |-> 0]

Exists(l) == live[l].status # "none"
HasContext(l, b) == context[l][b] # NoContext

\* current_band_versions
Created(b) == names[b] # <<>>
CurrentContext(b) == [name |-> Len(names[b]), base |-> Len(lineups[b]), next |-> 0]

\* effective_live_bands
EffectiveBands(l) ==
    IF setlist[l] = {} THEN live[l].bands ELSE {p.band : p \in setlist[l]}

LiveRowLock(l) == Lock("update", <<"live", l>>)
LiveKey(l) == Lock("key", <<"live", l>>)
BandLock(b) == Lock("update", <<"band", b>>)
BandKey(b) == Lock("key", <<"band", b>>)
OpenNameLock(b) == Lock("update", <<"name", b, Len(names[b])>>)
OpenLineupLock(b) == Lock("update", <<"lineup", b, Len(lineups[b])>>)
BandKeys(bands) == [i \in 1..Cardinality(bands) |-> BandKey(InOrder(bands)[i])]

\* The foreign keys of a live_band_lineup_contexts row.
ContextKeys(b, x) ==
    <<BandKey(b), Lock("key", <<"name", b, x.name>>), Lock("key", <<"lineup", b, x.base>>)>>
    \o IF x.next = 0 THEN <<>> ELSE <<Lock("key", <<"lineup", b, x.next>>)>>

\* replace_lineup_contexts inserts the contexts one by one.
RewriteKeys(contexts) ==
    FlattenSeq([i \in 1..Cardinality({b \in Bands : contexts[b] # NoContext}) |->
        LET b == InOrder({d \in Bands : contexts[d] # NoContext})[i] IN ContextKeys(b, contexts[b])])

\* What the schemas of the endpoints accept.
SetlistKinds == {"append_setlist", "replace_setlist"}
LiveRequest(r) ==
    /\ r.kind \in {"create_live", "update_live"} =>
          r.status \in Statuses /\ r.day \in Days /\ r.bands \subseteq Bands
    /\ r.kind \in {"update_live"} \union SetlistKinds => r.live \in Lives
    /\ r.kind \in SetlistKinds => r.rows \in Seq(SetlistRow)
    /\ r.kind \in {"create_band", "create_name_version"} => r.name \in Names
    /\ r.kind \in {"create_name_version", "create_lineup_version"} => r.band \in Bands
    /\ r.kind = "create_lineup_version" => r.live \in Lives \union {0}
    /\ r.kind \in {"favorite", "unfavorite", "favorite_batch", "unfavorite_batch"} => r.lives \subseteq Lives
    /\ r.kind \in {"favorite", "unfavorite"} => \E l \in Lives : r.lives = {l}

\* The Lives of the scenario as create_live left them; all bands are still in
\* their first version.
LiveInit(s) ==
    /\ names = [b \in Bands |-> IF b \in DOMAIN FirstNames THEN <<FirstNames[b]>> ELSE <<>>]
    /\ lineups = [b \in Bands |-> IF b \in DOMAIN FirstNames THEN <<0>> ELSE <<>>]
    /\ live = s.lives
    /\ context = [l \in Lives |-> [b \in Bands |->
                     IF b \in live[l].bands THEN [name |-> 1, base |-> 1, next |-> 0] ELSE NoContext]]
    /\ setlist = [l \in Lives |-> {}]
    /\ rescheduled = {}
    /\ favorites = s.favorites

----------------------------------------------------------------------------
\* _validate_and_normalize_live_relations: a kept band keeps its context, a new
\* one gets its current versions, other contexts go.
ResolvedContexts(existing, bands) ==
    [b \in Bands |-> IF b \notin bands THEN NoContext
                     ELSE IF existing[b] # NoContext THEN existing[b] ELSE CurrentContext(b)]

StartCreateLive(c, req) ==
    /\ req.kind = "create_live"
    /\ Begin(c, req, "validate", <<>>)
    /\ UNCHANGED liveVars

ValidateNewLive(c) ==
    /\ Ready(c, {"create_live"}, "validate")
    /\ \A b \in txn[c].req.bands : Created(b)
    /\ LET contexts == ResolvedContexts([b \in Bands |-> NoContext], txn[c].req.bands)
       IN Continue(c, "store", [contexts |-> contexts], RewriteKeys(contexts))
    /\ UNCHANGED liveVars

InsertLive(c) ==
    /\ Ready(c, {"create_live"}, "store")
    /\ \E l \in Lives :
          /\ ~Exists(l) /\ \A k \in Lives : ~Exists(k) => l <= k
          /\ live' = [live EXCEPT ![l] = [status |-> txn[c].req.status,
                                          day |-> txn[c].req.day, bands |-> txn[c].req.bands]]
          /\ context' = [context EXCEPT ![l] = txn[c].seen.contexts]
    /\ Finish(c)
    /\ UNCHANGED <<rescheduled, setlist, names, lineups, favorites>>

\* A mutant: the Live is read without FOR UPDATE.
StartUpdateLiveUnlocked(c, req) ==
    /\ req.kind = "update_live"
    /\ Begin(c, req, "check", <<>>)
    /\ UNCHANGED liveVars

StartUpdateLive(c, req) ==
    /\ req.kind = "update_live"
    /\ Begin(c, req, "check", <<LiveRowLock(req.live)>>)
    /\ UNCHANGED liveVars

\* The target of the update, and what differs from the stored Live.  Titles,
\* times and venues are left out: the only schedule field is the day.
Target(req) == [status |-> req.status, day |-> req.day, bands |-> req.bands]

MayUpdate(l, req) ==
    LET moved == req.day # live[l].day
        postponing == req.status = "postponed" /\ live[l].status # "postponed"
    IN /\ setlist[l] # {} => ~moved /\ req.status # "cancelled"
       /\ (req.change = "reschedule" \/ postponing) => moved
       /\ \A b \in req.bands : Created(b)
       /\ moved <=> req.change # "none"

\* A mutant: a Live with a setlist gets the contexts of its participants again.
CheckUpdateRewriting(c) ==
    LET req == txn[c].req
        l == req.live
        contexts == ResolvedContexts(context[l], req.bands)
    IN /\ Ready(c, {"update_live"}, "check")
       /\ Exists(l) /\ MayUpdate(l, req)
       /\ IF Target(req) = live[l] /\ contexts = context[l]
          THEN Finish(c)
          ELSE Continue(c, "store", [kept |-> FALSE, contexts |-> contexts], RewriteKeys(contexts))
       /\ UNCHANGED liveVars

CheckUpdate(c) ==
    LET req == txn[c].req
        l == req.live
        kept == setlist[l] # {}
        contexts == IF kept THEN context[l] ELSE ResolvedContexts(context[l], req.bands)
    IN /\ Ready(c, {"update_live"}, "check")
       /\ Exists(l) /\ MayUpdate(l, req)
       /\ IF Target(req) = live[l] /\ contexts = context[l]
          THEN Finish(c)
          ELSE Continue(c, "store", [kept |-> kept, contexts |-> contexts],
                        IF kept THEN <<>> ELSE RewriteKeys(contexts))
       /\ UNCHANGED liveVars

\* The UPDATE fires the trigger of V20 that deletes the favourites.
StoreUpdate(c) ==
    LET req == txn[c].req
        l == req.live
        cancelling == req.status = "cancelled" /\ live[l].status # "cancelled"
    IN /\ Ready(c, {"update_live"}, "store")
       /\ rescheduled' = IF req.change = "reschedule" THEN rescheduled \union {l} ELSE rescheduled
       /\ live' = [live EXCEPT ![l] = Target(req)]
       /\ context' = IF txn[c].seen.kept THEN context
                     ELSE [context EXCEPT ![l] = txn[c].seen.contexts]
       /\ favorites' = IF cancelling THEN {f \in favorites : f[2] # l} ELSE favorites
       /\ Finish(c)
       /\ UNCHANGED <<setlist, names, lineups>>

----------------------------------------------------------------------------
StartSetlist(c, req) ==
    /\ req.kind \in SetlistKinds
    /\ Begin(c, req, "check", <<LiveRowLock(req.live)>>)
    /\ UNCHANGED liveVars

\* require_setlist_date
SetlistAllowed(l) == Exists(l) /\ live[l].status # "cancelled" /\ live[l].day <= Today

\* _ensure_current_performance_contexts
WithCurrent(contexts, bands) ==
    [b \in Bands |-> IF b \in bands /\ contexts[b] = NoContext THEN CurrentContext(b) ELSE contexts[b]]

\* _validate_transition_performance_bindings
MayUseNext(l, b, contexts) ==
    contexts[b].next # 0 /\ lineups[b][contexts[b].next] = l

\* The rows are inserted in their order, each with the foreign key of its song group
\* and then those of its performances.
RowKeys(rows) ==
    FlattenSeq([i \in DOMAIN rows |->
        <<Lock("key", <<"song group", rows[i].song>>)>>
        \o BandKeys({p.band : p \in rows[i].performances})])
Performances(rows) == UNION {rows[i].performances : i \in DOMAIN rows}

CheckSetlist(c) ==
    LET req == txn[c].req
        l == req.live
        performances == Performances(req.rows)
        bands == {p.band : p \in performances}
        contexts == WithCurrent(context[l], bands)
        added == contexts # context[l]
    IN /\ Ready(c, SetlistKinds, "check")
       /\ SetlistAllowed(l)
       /\ req.kind = "append_setlist" => setlist[l] = {}
       /\ \A i \in DOMAIN req.rows : songGroup[req.rows[i].song] # NoSongGroup
       /\ \A b \in bands : Created(b)
       /\ \A p \in performances : p.usage = "next" => MayUseNext(l, p.band, contexts)
       /\ Continue(c, "store", [added |-> added, contexts |-> contexts],
                   (IF added THEN RewriteKeys(contexts) ELSE <<>>) \o RowKeys(req.rows))
       /\ UNCHANGED liveVars

\* A mutant: the contexts of bands that are new to the Live are not stored.
StoreSetlistWithoutContexts(c) ==
    LET l == txn[c].req.live
    IN /\ Ready(c, SetlistKinds, "store")
       /\ setlist' = [setlist EXCEPT ![l] = Performances(txn[c].req.rows)]
       /\ Finish(c)
       /\ UNCHANGED <<live, rescheduled, context, names, lineups, favorites>>

StoreSetlist(c) ==
    LET l == txn[c].req.live
    IN /\ Ready(c, SetlistKinds, "store")
       /\ setlist' = [setlist EXCEPT ![l] = Performances(txn[c].req.rows)]
       /\ context' = IF txn[c].seen.added THEN [context EXCEPT ![l] = txn[c].seen.contexts] ELSE context
       /\ Finish(c)
       /\ UNCHANGED <<live, rescheduled, names, lineups, favorites>>

----------------------------------------------------------------------------
KnownNames == UNION {{names[b][i] : i \in DOMAIN names[b]} : b \in Bands}

\* A mutant: ids are allocated without the advisory lock.
StartCreateBandUnlocked(c, req) ==
    /\ req.kind = "create_band"
    /\ Begin(c, req, "allocate", <<>>)
    /\ UNCHANGED liveVars

StartCreateBand(c, req) ==
    /\ req.kind = "create_band"
    /\ Begin(c, req, "allocate", <<Lock("update", <<"band ids">>)>>)
    /\ UNCHANGED liveVars

\* _allocate_band_id: the next id of the range, which may be exhausted.
AllocateBandId(c) ==
    LET range == IF txn[c].req.range = "regular" THEN RegularBands ELSE Bands \ RegularBands
        free == {b \in range : \A d \in range : Created(d) => d < b}
    IN /\ Ready(c, {"create_band"}, "allocate")
       /\ free # {}
       /\ txn[c].req.name \notin KnownNames
       /\ Continue(c, "store", [id |-> Min(free)], <<>>)
       /\ UNCHANGED liveVars

InsertBand(c) ==
    LET b == txn[c].seen.id
    IN /\ Ready(c, {"create_band"}, "store")
       /\ ~Created(b)
       /\ names' = [names EXCEPT ![b] = <<txn[c].req.name>>]
       /\ lineups' = [lineups EXCEPT ![b] = <<0>>]
       /\ Finish(c)
       /\ UNCHANGED <<live, rescheduled, setlist, context, favorites>>

StartNameVersion(c, req) ==
    /\ req.kind = "create_name_version"
    /\ Begin(c, req, "check", <<BandLock(req.band)>>)
    /\ UNCHANGED liveVars

CheckNameVersion(c) ==
    LET b == txn[c].req.band
    IN /\ Ready(c, {"create_name_version"}, "check")
       /\ Created(b)
       /\ txn[c].req.name \notin KnownNames
       /\ Len(names[b]) < MaxVersions
       /\ Continue(c, "store", <<>>, <<OpenNameLock(b)>>)
       /\ UNCHANGED liveVars

StoreNameVersion(c) ==
    LET b == txn[c].req.band
    IN /\ Ready(c, {"create_name_version"}, "store")
       /\ names' = [names EXCEPT ![b] = Append(@, txn[c].req.name)]
       /\ Finish(c)
       /\ UNCHANGED <<live, rescheduled, setlist, context, lineups, favorites>>

StartLineupVersion(c, req) ==
    /\ req.kind = "create_lineup_version"
    /\ Begin(c, req, "open", <<BandLock(req.band)>>)
    /\ UNCHANGED liveVars

LockOpenLineup(c) ==
    LET b == txn[c].req.band
    IN /\ Ready(c, {"create_lineup_version"}, "open")
       /\ Created(b)
       /\ Len(lineups[b]) < MaxVersions
       /\ Continue(c, "check", [open |-> Len(lineups[b])], <<OpenLineupLock(b)>>)
       /\ UNCHANGED liveVars

\* The handover Live is read without a lock; only the new version's foreign
\* key takes one.
MayHandOver(l, b, open) ==
    /\ b \in EffectiveBands(l)
    /\ live[l].status # "cancelled"
    /\ HasContext(l, b) => context[l][b].base = open /\ context[l][b].next = 0

\* What the check read of the Live, by which LivesObeyPolicy tells a late handover.
FoundAt(l) == IF l = 0 THEN <<>> ELSE <<live[l], setlist[l]>>

\* A mutant: nothing checks or holds the Live between the check and the insert.
CheckHandoverWithoutKey(c) ==
    LET req == txn[c].req
    IN /\ Ready(c, {"create_lineup_version"}, "check")
       /\ req.live # 0 => Exists(req.live) /\ MayHandOver(req.live, req.band, txn[c].seen.open)
       /\ Continue(c, "store", [open |-> txn[c].seen.open, found |-> FoundAt(req.live)], <<>>)
       /\ UNCHANGED liveVars

CheckHandover(c) ==
    LET req == txn[c].req
    IN /\ Ready(c, {"create_lineup_version"}, "check")
       /\ req.live # 0 => Exists(req.live) /\ MayHandOver(req.live, req.band, txn[c].seen.open)
       /\ Continue(c, "store", [open |-> txn[c].seen.open, found |-> FoundAt(req.live)],
                   IF req.live = 0 THEN <<>> ELSE <<LiveKey(req.live)>>)
       /\ UNCHANGED liveVars

\* ON CONFLICT DO UPDATE keeps the name of a context that is there.
HandoverContext(old, b, open) ==
    [name |-> IF old = NoContext THEN Len(names[b]) ELSE old.name, base |-> open, next |-> open + 1]

StoreLineupVersion(c) ==
    LET req == txn[c].req
        b == req.band
    IN /\ Ready(c, {"create_lineup_version"}, "store")
       /\ lineups' = [lineups EXCEPT ![b] = Append(@, req.live)]
       /\ context' = IF req.live = 0 THEN context
                     ELSE [context EXCEPT ![req.live][b] = HandoverContext(@, b, txn[c].seen.open)]
       /\ Finish(c)
       /\ UNCHANGED <<live, rescheduled, setlist, names, favorites>>

----------------------------------------------------------------------------
StartFavorites(c, req) ==
    /\ req.kind \in {"favorite", "unfavorite", "favorite_batch", "unfavorite_batch"}
    /\ Begin(c, req, "check", <<>>)
    /\ UNCHANGED liveVars

Pairs(req, lives) == {<<req.user, l>> : l \in lives}

\* favorite_live refuses a cancelled Live; the batch leaves it out.
CheckFavorite(c) ==
    LET req == txn[c].req
        wanted == {l \in req.lives : Exists(l) /\ live[l].status # "cancelled"
                                     /\ (req.kind = "favorite_batch" => <<req.user, l>> \notin favorites)}
    IN /\ Ready(c, {"favorite", "favorite_batch"}, "check")
       /\ req.kind = "favorite" => wanted = req.lives
       /\ IF wanted = {} THEN Finish(c) ELSE Continue(c, "insert", [todo |-> wanted, fresh |-> {}], <<>>)
       /\ UNCHANGED liveVars

\* The rows are inserted one by one, in any order the request may have.  The trigger
\* of V20 reads the status again; a row that is there stays as it is, and one that
\* another request of the user is inserting is waited for.
FavoriteLock(user, l) == Lock("update", <<"favorite", l, user>>)
InsertFavorite(c) ==
    LET user == txn[c].req.user
    IN /\ Ready(c, {"favorite", "favorite_batch"}, "insert")
       /\ \E l \in txn[c].seen.todo :
             /\ live[l].status # "cancelled"
             /\ LET todo == txn[c].seen.todo \ {l}
                IN IF <<user, l>> \in favorites
                   THEN Continue(c, "insert", [todo |-> todo, fresh |-> txn[c].seen.fresh], <<>>)
                   ELSE Continue(c, "insert", [todo |-> todo, fresh |-> txn[c].seen.fresh \union {l}],
                                 <<FavoriteLock(user, l)>>)
       /\ UNCHANGED liveVars

\* At the end of the statement the foreign keys of the new rows wait for whoever
\* holds the Lives.
KeepFavorites(c) ==
    LET fresh == {l \in txn[c].seen.fresh : <<txn[c].req.user, l>> \notin favorites}
    IN /\ Ready(c, {"favorite", "favorite_batch"}, "insert")
       /\ txn[c].seen.todo = {}
       /\ IF fresh = {}
          THEN Finish(c)
          ELSE Continue(c, "store", [lives |-> fresh], [i \in 1..Cardinality(fresh) |-> LiveKey(InOrder(fresh)[i])])
       /\ UNCHANGED liveVars

StoreFavorite(c) ==
    /\ Ready(c, {"favorite", "favorite_batch"}, "store")
    /\ favorites' = favorites \union Pairs(txn[c].req, txn[c].seen.lives)
    /\ Finish(c)
    /\ UNCHANGED <<live, rescheduled, setlist, context, names, lineups>>

RemoveFavorites(c) ==
    LET req == txn[c].req
    IN /\ Ready(c, {"unfavorite", "unfavorite_batch"}, "check")
       /\ req.kind = "unfavorite" => \A l \in req.lives : Exists(l)
       /\ favorites' = favorites \ Pairs(req, req.lives)
       /\ Finish(c)
       /\ UNCHANGED <<live, rescheduled, setlist, context, names, lineups>>

LiveStart(c, req) ==
    \/ StartCreateLive(c, req) \/ StartUpdateLive(c, req) \/ StartSetlist(c, req)
    \/ StartCreateBand(c, req) \/ StartNameVersion(c, req) \/ StartLineupVersion(c, req)
    \/ StartFavorites(c, req)

LiveStep(c) ==
    \/ ValidateNewLive(c) \/ InsertLive(c) \/ CheckUpdate(c) \/ StoreUpdate(c)
    \/ CheckSetlist(c) \/ StoreSetlist(c)
    \/ AllocateBandId(c) \/ InsertBand(c) \/ CheckNameVersion(c) \/ StoreNameVersion(c)
    \/ LockOpenLineup(c) \/ CheckHandover(c) \/ StoreLineupVersion(c)
    \/ CheckFavorite(c) \/ InsertFavorite(c) \/ KeepFavorites(c) \/ StoreFavorite(c) \/ RemoveFavorites(c)
===============================================================================
