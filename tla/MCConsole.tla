------------------------------- MODULE MCConsole -------------------------------
(* The scenarios of the console for TLC.                                    *)
EXTENDS Console, TLC

ClientSymmetry == Permutations(Clients)
MCFirstNames == 1 :> "n1" @@ 2 :> "n2"

Blank ==
    [lives |-> [l \in Lives |-> NoLive], favorites |-> {},
     collections |-> [f \in Families |-> [k \in CollectionIds |-> NoCollection]],
     venues |-> [v \in Venues |-> NoVenue], localities |-> [a \in Localities |-> NoLocality],
     songs |-> [s \in Songs |-> NoSong], songGroups |-> [g \in SongGroups |-> NoSongGroup],
     albums |-> [a \in Albums |-> NoAlbum], requests |-> {}]

Version(g, label, order, owner) == [group |-> g, label |-> label, order |-> order, owner |-> owner, rev |-> 1]
TwoGroups == [s \in Songs |-> CASE s = 1 -> Version(1, Default, 1, "o1")
                                [] s = 2 -> Version(1, "live", 2, "o1")
                                [] s = 3 -> Version(2, Default, 1, "o1")
                                [] OTHER -> NoSong]
Catalog ==
    [Blank EXCEPT
        !.songs = TwoGroups,
        !.songGroups = [g \in SongGroups |-> IF g <= 2 THEN [title |-> g, rev |-> 1] ELSE NoSongGroup],
        !.albums = [a \in Albums |-> IF a = 1 THEN [name |-> "x", tracks |-> <<1>>, rev |-> 1] ELSE NoAlbum]]

Row(status, day, bands) == [status |-> status, day |-> day, bands |-> bands]
OneLive(row) == [l \in Lives |-> IF l = 1 THEN row ELSE NoLive]

Updates ==
    [kind : {"update_live"}, live : {1}, status : {"scheduled", "cancelled"}, day : Days,
     bands : {{}, {1}}, change : {"none", "reschedule", "correction"}]
    \union [kind : {"update_live"}, live : {1}, status : {"postponed"}, day : {2}, bands : {{1}}, change : {"reschedule"}]
Plays(band, usage) == [band |-> band, usage |-> usage]
SetlistOf(g, performances) == [song |-> g, performances |-> performances]
Setlists ==
    [kind : SetlistKinds, live : {1},
     rows : {<<SetlistOf(1, {p})>> : p \in {Plays(1, "base"), Plays(1, "next"), Plays(2, "base")}}]
Lineups == [kind : {"create_lineup_version"}, band : {1}, live : {0, 1}]
BandNames == [kind : {"create_name_version"}, band : {1}, name : {"n3"}]
NewBands == [kind : {"create_band"}, range : {"regular", "other"}, name : {"n3", "n4"}]
NewLives == [kind : {"create_live"}, status : {"scheduled"}, day : {1}, bands : {{1, 2}}]
Stars(batches) ==
    [kind : {"favorite", "unfavorite"}, user : Users, lives : {{1}}]
    \union [kind : {"favorite_batch", "unfavorite_batch"}, user : Users, lives : batches]

LiveScenarios ==
    {[Catalog EXCEPT !.lives = OneLive(row), !.requests = Updates \union Setlists \union Lineups] :
        row \in {Row("scheduled", 1, {1}), Row("postponed", 1, {1}), Row("scheduled", 2, {1})}}
    \union
    {[Blank EXCEPT !.lives = OneLive(Row("scheduled", 1, {1})),
                   !.requests = NewBands \union BandNames \union NewLives \union Lineups]}
    \union
    {[Blank EXCEPT !.lives = OneLive(Row("scheduled", 1, {1})), !.favorites = stars,
                   !.requests = Stars({{1}}) \union Updates] : stars \in {{}, Users \X {1}}}

Tours(kinds, ids, lives) == [kind : kinds, id : ids, lives : lives, bands : {{}}]
CollectionScenarios ==
    {[Blank EXCEPT !.lives = [l \in Lives |-> Row("scheduled", 1, {1})],
                   !.collections = [@ EXCEPT !["tour"][1] = first, !["group"][1] = first],
                   !.requests =
                       {[kind |-> "create_tour", id |-> 0, lives |-> Lives, bands |-> {1}],
                        [kind |-> "create_tour", id |-> 0, lives |-> {2}, bands |-> {1}],
                        [kind |-> "update_tour", id |-> 1, lives |-> {2}, bands |-> {}],
                        [kind |-> "update_tour", id |-> 1, lives |-> {1}, bands |-> {}],
                        [kind |-> "create_performance_group", id |-> 0, lives |-> Lives, bands |-> {}],
                        [kind |-> "update_performance_group", id |-> 1, lives |-> Lives, bands |-> {}],
                        [kind |-> "update_live", live |-> 1, status |-> "scheduled", day |-> 2,
                         bands |-> {2}, change |-> "correction"]}] :
        first \in {NoCollection, [lives |-> {1}, bands |-> {}]}}

Place(area, point) == [area |-> area, address |-> TRUE, point |-> point, zone |-> TRUE]
Undisclosed == [area |-> 1, address |-> FALSE, point |-> 0, zone |-> TRUE]
Hall == [kind |-> "physical", place |-> Place(1, 1), links |-> {"google"}, names |-> <<"v1">>]
Requests(kind, fields) == {[kind |-> kind] @@ f : f \in fields}

VenueScenarios ==
    {[Blank EXCEPT
        !.venues = [v \in Venues |-> IF v = 1 THEN hall ELSE NoVenue],
        !.localities = [a \in Localities |-> IF a = 1 THEN "a1" ELSE NoLocality],
        !.requests =
            Requests("create_venue", [venue_kind : {"physical"}, name : {"v2"}, place : {Place(1, 1)}, google : {"set"}])
            \union Requests("update_venue", [venue : {1}, venue_kind : {"online", "undisclosed"}])
            \union Requests("rename_venue", [venue : {1}, name : {"v2", "v3"}])
            \union Requests("save_location", [venue : {1}, place : {Place(2, 0), Nowhere}, google : {"keep"}])
            \union Requests("edit_venue", [venue : {1}, venue_kind : {"physical"}, place : {Place(1, 2)},
                                           google : {"drop"}, name : {"none", "v2"}])
            \union Requests("edit_venue", [venue : {1}, venue_kind : {"undisclosed"}, place : {Undisclosed},
                                           google : {"keep"}, name : {"v3"}])
            \union Requests("save_map_link", [venue : {1}, provider : {"apple"}])
            \union Requests("delete_map_link", [venue : {1}, provider : {"google"}])
            \union Requests("create_locality", [name : {"a2"}])
            \union Requests("save_locality", [area : {1}, name : {"a1", "a2"}])] :
        hall \in {Hall, [Hall EXCEPT !.kind = "online", !.place = Nowhere, !.links = {}]}}

Item(title) == [title |-> title, owner |-> "o1"]
SongScenarios ==
    {[Catalog EXCEPT !.requests = requests] :
        requests \in {
            Requests("create_version", [group : {1, 2}, label : {Default, "live"}, owner : {"o1"}])
            \union Requests("update_version", [song : {1, 2}, label : {Default, "acoustic"}])
            \union Requests("correct_ownership", [song : {3}, owner : {"o2"}])
            \union Requests("move_group", [song : {1, 2}, to : {1, 2}])
            \union Requests("edit_song", [song : {1, 2}, label : {"live"}, owner : {"o1"}, reverse : BOOLEAN,
                                          title : {1, 2}, to : {0, 2}])
            \union Requests("update_group", [group : {1}, reverse : BOOLEAN, title : {1, 2}]),
            Requests("create_song_group", [items : {{Item(3)}}])
            \union Requests("create_groups_batch",
                            [items : {{Item(3), Item(2)}, {Item(3), Item(4)}}, covers : {{}}])
            \union Requests("update_group", [group : {2}, reverse : {FALSE}, title : {3}])
            \union Requests("correct_ownership", [song : {3}, owner : {"o2"}]),
            Requests("create_album", [name : {"y"}, tracks : {<<1, 2>>}])
            \union Requests("save_album", [album : {1}, name : {"z"}, tracks : {<<>>, <<2>>}, replaces : BOOLEAN])
            \union Requests("update_album_tracks", [album : {1}, tracks : {<<2, 1>>}, replaces : {TRUE}])}}

\* Requests that lock rows of one table in different orders.
Covers == [kind : {"create_groups_batch"}, items : {{Item(1), Item(2)}}, covers : {{Item(1), Item(2)}}]
Regroupings ==
    Requests("move_group", [song : {2}, to : {2}])
    \union Requests("edit_song", [song : {2}, label : {"live"}, owner : {"o1"}, reverse : {FALSE}, title : {1}, to : {0, 2}])
    \union Requests("update_group", [group : {1}, reverse : {TRUE}, title : {1}])
Records ==
    Requests("create_album", [name : {"y"}, tracks : {<<1, 3>>, <<3, 1>>}])
    \union Requests("save_album", [album : {1}, name : {"z"}, tracks : {<<2, 1>>}, replaces : BOOLEAN])
CrossingScenarios ==
    {[Catalog EXCEPT
        !.lives = OneLive(Row("scheduled", 1, {1})),
        !.requests = Regroupings \union
            [kind : {"append_setlist"}, live : {1},
             rows : {<<SetlistOf(g, {Plays(1, "base")}), SetlistOf(3 - g, {Plays(1, "base")})>> : g \in {1, 2}}]],
     [Catalog EXCEPT !.requests = Regroupings \union Records \union Covers],
     [Blank EXCEPT
        !.lives = [l \in Lives |-> Row("scheduled", 1, {1})],
        !.requests = Stars({Lives}) \union
            [kind : {"update_live"}, live : {1}, status : {"cancelled"}, day : {1}, bands : {{1}}, change : {"none"}]]}

MCScenarios ==
    LiveScenarios \union CollectionScenarios \union VenueScenarios \union SongScenarios \union CrossingScenarios
===============================================================================
