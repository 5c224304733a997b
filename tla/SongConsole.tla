------------------------------ MODULE SongConsole ------------------------------
(***************************************************************************)
(* The song catalogue: groups of versions of a song, who owns a version,   *)
(* and albums (console_song_catalog.py, song_catalog.py, V37-V48).         *)
(*                                                                         *)
(* A form carries the revision it was loaded with, which lock_revision     *)
(* compares with the row it has locked.                                    *)
(***************************************************************************)
EXTENDS Transactions

CONSTANTS
    Songs,       \* ids of versions, numbers from 1
    SongGroups,  \* ids of groups, numbers from 1
    Albums       \* ids of albums, numbers from 1

ASSUME SongConstants ==
    /\ Songs \subseteq Nat \ {0} /\ SongGroups \subseteq Nat \ {0} /\ Albums \subseteq Nat \ {0}
    /\ IsFiniteSet(Songs) /\ IsFiniteSet(SongGroups) /\ IsFiniteSet(Albums)

VARIABLES
    song,       \* song_list, with the ownership of the version
    songGroup,  \* song_groups
    album       \* albums, with their tracks in order

songVars == <<song, songGroup, album>>

\* Titles are numbers, sorted like the texts they stand for. Default is the empty
\* label of a group's default version.
Default == "unlabelled"
NoSong == [group |-> 0, label |-> Default, order |-> 0, owner |-> "none", rev |-> 0]
NoSongGroup == [title |-> 0, rev |-> 0]
NoAlbum == [name |-> "none", tracks |-> <<>>, rev |-> 0]

SongRow == [group : SongGroups \union {0}, label : STRING, order : Nat, owner : STRING, rev : Nat]
SongGroupRow == [title : Nat, rev : Nat]
AlbumRow == [name : STRING, tracks : Seq(Songs), rev : Nat]

\* What the schemas of the endpoints accept.
GroupCreations == {"create_song_group", "create_groups_batch"}
AlbumForms == {"save_album", "update_album_tracks"}
SongRequest(r) ==
    /\ r.kind \in {"create_version", "update_group"} => r.group \in SongGroups
    /\ r.kind \in {"create_version", "update_version", "edit_song"} => r.label \in STRING
    /\ r.kind \in {"create_version", "correct_ownership", "edit_song"} => r.owner \in STRING
    /\ r.kind \in {"update_version", "correct_ownership", "move_group", "edit_song"} => r.song \in Songs
    /\ r.kind = "move_group" => r.to \in SongGroups
    /\ r.kind = "edit_song" => r.to \in SongGroups \union {0}
    /\ r.kind \in {"update_group", "edit_song"} => r.title \in Nat
    /\ r.kind \in GroupCreations => r.items \subseteq [title : Nat, owner : STRING] /\ IsFiniteSet(r.items)
    /\ r.kind = "create_groups_batch" => r.covers \subseteq r.items
    /\ r.kind \in AlbumForms => r.album \in Albums
    /\ r.kind \in {"create_album"} \union AlbumForms => r.tracks \in Seq(Songs)
    /\ r.kind \in {"create_album", "save_album"} => r.name \in STRING

\* A catalogue that the console has written: V37 gives every version a group and
\* every group a version without a label, V38 keeps the positions in a group apart,
\* and until V40 an index kept a title once per owner (V10).
CatalogConsistent(songs, groups) ==
    /\ \A s \in Songs : songs[s] # NoSong =>
          songs[s].rev > 0 /\ songs[s].group # 0 /\ groups[songs[s].group].rev > 0
    /\ \A g \in SongGroups : groups[g] # NoSongGroup =>
          groups[g].rev > 0 /\ \E s \in Songs : songs[s].group = g /\ songs[s].label = Default
    /\ \A s, t \in Songs : s # t /\ songs[s].group # 0 /\ songs[s].group = songs[t].group =>
          songs[s].order # songs[t].order
    /\ \A s, t \in Songs :
          /\ s # t /\ songs[s].rev = 1 /\ songs[t].rev = 1
          /\ songs[s].label = Default /\ songs[t].label = Default /\ songs[s].owner = songs[t].owner
          /\ groups[songs[s].group].rev = 1 /\ groups[songs[t].group].rev = 1
          => groups[songs[s].group].title # groups[songs[t].group].title

SongInit(s) == song = s.songs /\ songGroup = s.songGroups /\ album = s.albums

Versions(g) == {s \in Songs : song[s].group = g}
InVersionOrder(g) ==
    Sorted(Versions(g), {p \in Versions(g) \X Versions(g) : song[p[1]].order < song[p[2]].order})
\* A mutant: the next position is the number of versions, not the last position.
NextOrderByCount(g) == Cardinality(Versions(g)) + 1

NextOrder(g) == Max({song[s].order : s \in Versions(g)} \union {0}) + 1

SongLock(s) == Lock("update", <<"song", s>>)
GroupLock(g) == Lock("update", <<"song group", g>>)
\* A mutant: new titles are not locked.
TitleLocksNone(titles) == <<>>

TitleLocks(titles) ==
    LET sorted == InOrder(titles) IN [i \in DOMAIN sorted |-> Lock("update", <<"title", sorted[i]>>)]
SongLocks(songs) == LET ids == InOrder(songs) IN [i \in DOMAIN ids |-> SongLock(ids[i])]
GroupLocks(groups) == LET ids == InOrder(groups) IN [i \in DOMAIN ids |-> GroupLock(ids[i])]

\* The unique label of a version in its group (V38), checked at the commit.
LabelFree(s, g, label) == \A t \in Versions(g) \ {s} : song[t].label # label

FreshSong == CHOOSE s \in Songs : song[s] = NoSong
SpareSongs == Cardinality({s \in Songs : song[s] = NoSong})

----------------------------------------------------------------------------
\* Every request but the creation of groups starts with a form.
SongForms == {"create_version", "update_version", "correct_ownership", "move_group", "edit_song",
              "update_group", "save_album", "update_album_tracks"}

OpenCatalogForm(c, req) ==
    /\ req.kind \in SongForms
    /\ Begin(c, req, "form", <<>>)
    /\ UNCHANGED songVars

SendNewVersion(c) ==
    LET g == txn[c].req.group
    IN /\ Ready(c, {"create_version"}, "form")
       /\ songGroup[g] # NoSongGroup
       /\ Continue(c, "store", [rev |-> songGroup[g].rev], <<GroupLock(g)>>)
       /\ UNCHANGED songVars

\* insert_version
StoreNewVersion(c) ==
    LET req == txn[c].req
        g == req.group
    IN /\ Ready(c, {"create_version"}, "store")
       /\ songGroup[g].rev = txn[c].seen.rev
       /\ SpareSongs > 0 /\ LabelFree(0, g, req.label)
       /\ song' = [song EXCEPT ![FreshSong] =
                      [group |-> g, label |-> req.label, order |-> NextOrder(g), owner |-> req.owner, rev |-> 1]]
       /\ songGroup' = [songGroup EXCEPT ![g].rev = @ + 1]
       /\ Finish(c)
       /\ UNCHANGED album

SendVersionForm(c) ==
    LET s == txn[c].req.song
    IN /\ Ready(c, {"update_version", "correct_ownership"}, "form")
       /\ song[s] # NoSong
       /\ Continue(c, "store", [rev |-> song[s].rev], <<SongLock(s)>>)
       /\ UNCHANGED songVars

\* A mutant: the default version may get a label.
UpdateVersionOfAnySong(c) ==
    LET req == txn[c].req
        s == req.song
    IN /\ Ready(c, {"update_version"}, "store")
       /\ song[s].rev = txn[c].seen.rev
       /\ LabelFree(s, song[s].group, req.label)
       /\ song' = [song EXCEPT ![s].label = req.label, ![s].rev = @ + 1]
       /\ Finish(c)
       /\ UNCHANGED <<songGroup, album>>

UpdateVersion(c) ==
    LET req == txn[c].req
        s == req.song
    IN /\ Ready(c, {"update_version"}, "store")
       /\ song[s].rev = txn[c].seen.rev
       /\ song[s].label = Default => req.label = Default
       /\ LabelFree(s, song[s].group, req.label)
       /\ song' = [song EXCEPT ![s].label = req.label, ![s].rev = @ + 1]
       /\ Finish(c)
       /\ UNCHANGED <<songGroup, album>>

CorrectOwnership(c) ==
    LET s == txn[c].req.song
    IN /\ Ready(c, {"correct_ownership"}, "store")
       /\ song[s].rev = txn[c].seen.rev
       /\ song' = [song EXCEPT ![s].owner = txn[c].req.owner, ![s].rev = @ + 1]
       /\ Finish(c)
       /\ UNCHANGED <<songGroup, album>>

----------------------------------------------------------------------------
\* The items of a request are pairs of title and owner; those of a batch that name
\* whether they are covers are its covers.  Two batches take the locks of their
\* titles in the same order.
StartCreateGroups(c, req) ==
    /\ req.kind \in GroupCreations
    /\ Begin(c, req, "titles", TitleLocks({item.title : item \in req.items}))
    /\ UNCHANGED songVars

BeginItems(c) ==
    /\ Ready(c, GroupCreations, "titles")
    /\ Continue(c, "find", [todo |-> txn[c].req.items, new |-> {}], <<>>)
    /\ UNCHANGED songVars

\* find_default_version
DefaultVersions(item) ==
    {s \in Songs : /\ song[s] # NoSong /\ song[s].label = Default /\ song[s].owner = item.owner
                   /\ songGroup[song[s].group].title = item.title}

\* The items come one by one, in any order the request may have.  A song that is
\* there is locked when the item says whether it is a cover; one that says otherwise
\* than the song is refused and gives the lock back, which is left out.
FindDefaultVersion(c) ==
    LET req == txn[c].req
        new == txn[c].seen.new
    IN /\ Ready(c, GroupCreations, "find")
       /\ \E item \in txn[c].seen.todo :
             LET found == DefaultVersions(item)
                 todo == txn[c].seen.todo \ {item}
             IN IF found = {}
                THEN Continue(c, "find", [todo |-> todo, new |-> new \union {item}], <<>>)
                ELSE /\ req.kind = "create_groups_batch"
                     /\ Continue(c, "find", [todo |-> todo, new |-> new],
                                 IF item \in req.covers THEN <<SongLock(Min(found))>> ELSE <<>>)
       /\ UNCHANGED songVars

\* insert_group
StoreGroups(c) ==
    LET new == SetToSeq(txn[c].seen.new)
        ids == InOrder({s \in Songs : song[s] = NoSong})
        groups == InOrder({g \in SongGroups : songGroup[g] = NoSongGroup})
    IN /\ Ready(c, GroupCreations, "find")
       /\ txn[c].seen.todo = {}
       /\ Len(new) <= Len(ids) /\ Len(new) <= Len(groups)
       /\ songGroup' = [g \in SongGroups |->
              IF \E i \in DOMAIN new : g = groups[i]
              THEN [title |-> new[CHOOSE i \in DOMAIN new : g = groups[i]].title, rev |-> 1]
              ELSE songGroup[g]]
       /\ song' = [s \in Songs |->
              IF \E i \in DOMAIN new : s = ids[i]
              THEN LET i == CHOOSE j \in DOMAIN new : s = ids[j]
                   IN [group |-> groups[i], label |-> Default, order |-> 1, owner |-> new[i].owner, rev |-> 1]
              ELSE song[s]]
       /\ Finish(c)
       /\ UNCHANGED album

SendGroupForm(c) ==
    LET g == txn[c].req.group
    IN /\ Ready(c, {"update_group"}, "form")
       /\ songGroup[g] # NoSongGroup
       /\ Continue(c, "songs", [rev |-> songGroup[g].rev, ids |-> InVersionOrder(g)], <<GroupLock(g)>>)
       /\ UNCHANGED songVars

LockGroupSongs(c) ==
    LET g == txn[c].req.group
    IN /\ Ready(c, {"update_group"}, "songs")
       /\ songGroup[g].rev = txn[c].seen.rev
       /\ Continue(c, "store", txn[c].seen, SongLocks(Versions(g)))
       /\ UNCHANGED songVars

\* The request may reverse what the form showed.
Sent(req, ids) == IF req.reverse THEN Reverse(ids) ELSE ids
Position(ids, s) == CHOOSE i \in DOMAIN ids : ids[i] = s

\* A version, written at this position of its group.
Placed(s, n) == [song[s] EXCEPT !.order = n, !.rev = @ + 1]

UpdateGroup(c) ==
    LET req == txn[c].req
        ids == Sent(req, txn[c].seen.ids)
    IN /\ Ready(c, {"update_group"}, "store")
       /\ Range(ids) = Versions(req.group)
       /\ song' = [s \in Songs |-> IF s \in Range(ids) THEN Placed(s, Position(ids, s)) ELSE song[s]]
       /\ songGroup' = [songGroup EXCEPT ![req.group] = [title |-> req.title, rev |-> @.rev + 1]]
       /\ Finish(c)
       /\ UNCHANGED album

----------------------------------------------------------------------------
\* move_group reads the group of the song without a lock; the revision that is
\* checked last tells whether it is still the right one.
SendMove(c) ==
    LET s == txn[c].req.song
    IN /\ Ready(c, {"move_group"}, "form")
       /\ song[s] # NoSong
       /\ Continue(c, "read", [rev |-> song[s].rev], <<>>)
       /\ UNCHANGED songVars

ReadSource(c) ==
    LET req == txn[c].req
        before == song[req.song].group
    IN /\ Ready(c, {"move_group"}, "read")
       /\ song[req.song].label # Default
       /\ Continue(c, "song", [rev |-> txn[c].seen.rev, before |-> before], GroupLocks({before, req.to}))
       /\ UNCHANGED songVars

LockMovedSong(c) ==
    /\ Ready(c, {"move_group"}, "song")
    /\ songGroup[txn[c].req.to] # NoSongGroup
    /\ Continue(c, "store", txn[c].seen, <<SongLock(txn[c].req.song)>>)
    /\ UNCHANGED songVars

MoveGroup(c) ==
    LET req == txn[c].req
        s == req.song
        before == txn[c].seen.before
        left == Versions(before) \ {s}
    IN /\ Ready(c, {"move_group"}, "store")
       /\ song[s].rev = txn[c].seen.rev
       /\ LabelFree(s, req.to, song[s].label)
       /\ song' = [song EXCEPT ![s].group = req.to, ![s].order = NextOrder(req.to), ![s].rev = @ + 1]
       /\ songGroup' = [g \in SongGroups |->
              IF g = before /\ left = {} /\ g # req.to THEN NoSongGroup
              ELSE IF g \in {before, req.to} THEN [songGroup[g] EXCEPT !.rev = @ + 1]
              ELSE songGroup[g]]
       /\ Finish(c)
       /\ UNCHANGED album

\* edit_song_catalog: one form for the version, its group and a move.
SendEdit(c) ==
    LET req == txn[c].req
        g == song[req.song].group
    IN /\ Ready(c, {"edit_song"}, "form")
       /\ song[req.song] # NoSong /\ req.to # g
       /\ req.to # 0 => songGroup[req.to] # NoSongGroup
       /\ Continue(c, "groups",
                   [rev |-> song[req.song].rev, group |-> g, groupRev |-> songGroup[g].rev,
                    toRev |-> IF req.to = 0 THEN 0 ELSE songGroup[req.to].rev, ids |-> InVersionOrder(g)],
                   GroupLocks({g, req.to} \ {0}))
       /\ UNCHANGED songVars

LockEditedSongs(c) ==
    LET req == txn[c].req
        form == txn[c].seen
    IN /\ Ready(c, {"edit_song"}, "groups")
       /\ songGroup[form.group].rev = form.groupRev
       /\ req.to # 0 => songGroup[req.to].rev = form.toRev
       /\ Continue(c, "store", form, SongLocks(Versions(form.group)))
       /\ UNCHANGED songVars

\* What the edit makes of the group's order, and what it changes at all.
Remaining(req, ids) == IF req.to # 0 THEN RemoveAt(ids, Position(ids, req.song)) ELSE ids
OrderChanged(req, g, ids) == req.to # 0 \/ ids # InVersionOrder(g)
GroupChanged(req, g, ids) == OrderChanged(req, g, ids) \/ req.title # songGroup[g].title
SongChanged(req) == req.to # 0 \/ req.label # song[req.song].label \/ req.owner # song[req.song].owner

\* A version that stays in the group, and the one that is edited.
Kept(req, g, ids, s) ==
    Placed(s, IF OrderChanged(req, g, ids) THEN Position(Remaining(req, ids), s) ELSE song[s].order)
Edited(req, g, ids) ==
    LET row == IF req.to # 0 THEN [Placed(req.song, NextOrder(req.to)) EXCEPT !.group = req.to]
               ELSE Kept(req, g, ids, req.song)
    IN  [row EXCEPT !.label = req.label, !.owner = req.owner]

EditSong(c) ==
    LET req == txn[c].req
        form == txn[c].seen
        s == req.song
        g == form.group
        ids == Sent(req, form.ids)
    IN /\ Ready(c, {"edit_song"}, "store")
       /\ s \in Versions(g) /\ Range(ids) = Versions(g)
       /\ song[s].rev = form.rev
       /\ song[s].label = Default => req.label = Default /\ req.to = 0
       /\ LabelFree(s, IF req.to # 0 THEN req.to ELSE g, req.label)
       /\ song' = [t \in Songs |->
              IF t = s /\ (SongChanged(req) \/ GroupChanged(req, g, ids)) THEN Edited(req, g, ids)
              ELSE IF t \in Range(Remaining(req, ids)) /\ GroupChanged(req, g, ids) THEN Kept(req, g, ids, t)
              ELSE song[t]]
       /\ songGroup' = [h \in SongGroups |->
              IF h = g /\ GroupChanged(req, g, ids) THEN [title |-> req.title, rev |-> songGroup[g].rev + 1]
              ELSE IF h = req.to THEN [songGroup[h] EXCEPT !.rev = @ + 1]
              ELSE songGroup[h]]
       /\ Finish(c)
       /\ UNCHANGED album

----------------------------------------------------------------------------
\* The tracks are inserted one by one, in their order, and each takes the foreign
\* key of its song.  A request sends all tracks as new ones: one that keeps its song
\* keeps its row, takes no lock and changes nothing here.
TrackKeys(tracks) == [i \in DOMAIN tracks |-> Lock("key", <<"song", tracks[i]>>)]
TracksExist(tracks) == \A i \in DOMAIN tracks : song[tracks[i]] # NoSong
AlbumLock(a) == Lock("update", <<"album", a>>)

StartCreateAlbum(c, req) ==
    /\ req.kind = "create_album"
    /\ Begin(c, req, "store", TrackKeys(req.tracks))
    /\ UNCHANGED songVars

InsertAlbum(c) ==
    LET req == txn[c].req
        free == {a \in Albums : album[a] = NoAlbum}
    IN /\ Ready(c, {"create_album"}, "store")
       /\ free # {} /\ TracksExist(req.tracks)
       /\ album' = [album EXCEPT ![InOrder(free)[1]] = [name |-> req.name, tracks |-> req.tracks, rev |-> 1]]
       /\ Finish(c)
       /\ UNCHANGED <<song, songGroup>>

SendAlbumForm(c) ==
    LET a == txn[c].req.album
    IN /\ Ready(c, AlbumForms, "form")
       /\ album[a] # NoAlbum
       /\ IF txn[c].req.kind = "save_album"
          THEN Continue(c, "check", [rev |-> album[a].rev, name |-> txn[c].req.name], <<AlbumLock(a)>>)
          ELSE Continue(c, "read", [rev |-> album[a].rev], <<>>)
       /\ UNCHANGED songVars

\* update_album_tracks reads the other fields in a transaction of their own
\* and then saves the whole album under the revision of the form.
ReadAlbum(c) ==
    LET a == txn[c].req.album
    IN /\ Ready(c, {"update_album_tracks"}, "read")
       /\ Continue(c, "check", [rev |-> txn[c].seen.rev, name |-> album[a].name], <<AlbumLock(a)>>)
       /\ UNCHANGED songVars

\* A mutant: an album is saved whatever its revision is.
CheckAlbumUnchecked(c) ==
    LET req == txn[c].req
    IN /\ Ready(c, AlbumForms, "check")
       /\ Continue(c, "store", txn[c].seen, IF req.replaces THEN TrackKeys(req.tracks) ELSE <<>>)
       /\ UNCHANGED songVars

CheckAlbum(c) ==
    LET req == txn[c].req
    IN /\ Ready(c, AlbumForms, "check")
       /\ album[req.album].rev = txn[c].seen.rev
       /\ Continue(c, "store", txn[c].seen, IF req.replaces THEN TrackKeys(req.tracks) ELSE <<>>)
       /\ UNCHANGED songVars

SaveAlbum(c) ==
    LET req == txn[c].req
        a == req.album
    IN /\ Ready(c, AlbumForms, "store")
       /\ req.replaces => TracksExist(req.tracks)
       /\ album' = [album EXCEPT ![a] = [name |-> txn[c].seen.name, rev |-> @.rev + 1,
                                         tracks |-> IF req.replaces THEN req.tracks ELSE @.tracks]]
       /\ Finish(c)
       /\ UNCHANGED <<song, songGroup>>

SongStart(c, req) ==
    OpenCatalogForm(c, req) \/ StartCreateGroups(c, req) \/ StartCreateAlbum(c, req)

SongStep(c) ==
    \/ SendNewVersion(c) \/ StoreNewVersion(c)
    \/ SendVersionForm(c) \/ UpdateVersion(c) \/ CorrectOwnership(c)
    \/ BeginItems(c) \/ FindDefaultVersion(c) \/ StoreGroups(c)
    \/ SendGroupForm(c) \/ LockGroupSongs(c) \/ UpdateGroup(c)
    \/ SendMove(c) \/ ReadSource(c) \/ LockMovedSong(c) \/ MoveGroup(c)
    \/ SendEdit(c) \/ LockEditedSongs(c) \/ EditSong(c)
    \/ InsertAlbum(c) \/ SendAlbumForm(c) \/ ReadAlbum(c) \/ CheckAlbum(c) \/ SaveAlbum(c)
===============================================================================
