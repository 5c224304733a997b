------------------------------ MODULE PublicLists ------------------------------
(***************************************************************************)
(* The lists that visitors page through: Lives (lives.py, me.py and         *)
(* live_list_filters.py), Lives among the performance groups they belong to *)
(* (performance_groups.py) and tours (tours.py), and the page of a group or *)
(* a tour that one of their cards opens.                                    *)
(***************************************************************************)
EXTENDS Integers, Sequences, SequencesExt, FiniteSets, FiniteSetsExt

CONSTANTS
    ListedLives,
    Blocks,         \* ids of groups, or of tours; the lists tell them from ids of Lives
    ListDays,
    Today,          \* the visitor's day
    RowsPerPage     \* 15 or 20

ASSUME ListAssumption ==
    /\ ListedLives \union Blocks \union ListDays \subseteq Nat /\ Today \in Nat /\ RowsPerPage \in Nat \ {0}
    /\ IsFiniteSet(ListedLives) /\ IsFiniteSet(Blocks) /\ Blocks # {} /\ 0 \notin Blocks

VARIABLES
    catalog,        \* what the lists are read from
    filter,         \* the list, its filters and its order
    walk            \* the pages read so far, and the card that was opened

listVars == <<catalog, filter, walk>>

NoBlock == 0
Listing == {"lives", "performances", "tours"}

(* narrow stands for one of the filters that look at a single Live. *)
Filters ==
    {f \in [list : Listing, query : BOOLEAN, narrow : {"all", "year", "upcoming", "past", "cancelled"},
            favorites : BOOLEAN, latest : BOOLEAN] :
        /\ f.list # "performances" => f.narrow \in {"all", "year"}
        /\ f.list = "tours" => ~f.favorites}

(* Where a filter does not look at it, one value of a column stands for all. *)
Catalogs(f) ==
    [day : [ListedLives -> ListDays],
     cancelled : {{}} \union {{l} : l \in ListedLives},
     block : [ListedLives -> {NoBlock} \union (IF f.list = "tours" THEN Blocks ELSE {Min(Blocks)})],
     named : IF f.query THEN SUBSET ListedLives ELSE {ListedLives},
     titled : IF f.query THEN {{}, {Min(Blocks)}} ELSE {{}},
     favorite : IF f.favorites THEN SUBSET ListedLives ELSE {{}}]

NoWalk == [next |-> 1, pages |-> <<>>, complete |-> FALSE, opened |-> <<>>]

ListInit ==
    /\ filter \in Filters
    /\ catalog \in Catalogs(filter)
    /\ walk = NoWalk

----------------------------------------------------------------------------
Members(b) == {l \in ListedLives : catalog.block[l] = b}
DaysOf(lives) == {catalog.day[l] : l \in lives}

(* build_live_where without the query, and the status of performances *)
Narrowed(l) ==
    \/ filter.narrow = "all"
    \/ filter.narrow = "year" /\ catalog.day[l] = Min(ListDays)
    \/ filter.narrow = "cancelled" /\ l \in catalog.cancelled
    \/ filter.narrow = "upcoming" /\ l \notin catalog.cancelled /\ catalog.day[l] > Today
    \/ filter.narrow = "past" /\ l \notin catalog.cancelled /\ catalog.day[l] < Today

Wanted(l) == Narrowed(l) /\ (filter.query => l \in catalog.named)
Eligible == {l \in ListedLives : filter.favorites => l \in catalog.favorite}

\* A mutant: a Live of a group is listed on its own as well.
StandaloneOrGrouped == {l \in Eligible : Wanted(l)}

(* The common table expressions of _build_scope_queries *)
ValidGroups == {b \in Blocks : Cardinality(Members(b)) >= 2}
TitleMatches(b) == filter.query /\ b \in catalog.titled
Standalone == {l \in Eligible : Wanted(l) /\ catalog.block[l] \notin ValidGroups}
Candidates(b) == {l \in Members(b) \cap Eligible : Wanted(l) \/ (TitleMatches(b) /\ Narrowed(l))}
FullGroups ==
    {b \in ValidGroups :
        /\ Members(b) \subseteq Eligible /\ Candidates(b) # {}
        /\ Candidates(b) = Members(b) \/ (TitleMatches(b) /\ filter.narrow \in {"all", "year"})}
PartialLives == UNION {Candidates(b) : b \in ValidGroups \ FullGroups}

(* _build_tour_filters: each filter may be met by another stop. *)
MatchedTours ==
    {b \in Blocks :
        /\ Members(b) # {}
        /\ TitleMatches(b) \/ ~filter.query \/ Members(b) \cap catalog.named # {}
        /\ \E l \in Members(b) : Narrowed(l)}

(* Cards, with what they are sorted by. *)
LiveCard(l) ==
    [kind |-> "live", id |-> l, lives |-> {l}, cancelled |-> Cardinality({l} \cap catalog.cancelled),
     day |-> catalog.day[l],
     rank |-> IF filter.list = "lives" THEN 0
              ELSE IF l \in catalog.cancelled \/ catalog.day[l] < Today THEN 2
              ELSE IF catalog.day[l] > Today THEN 0 ELSE 1]

(* Groups and tours: over, to come or under way *)
BlockRank(b) ==
    LET days == DaysOf(Members(b)) IN
    IF Members(b) \subseteq catalog.cancelled \/ Today > Max(days) THEN 2
    ELSE IF Today < Min(days) THEN 0 ELSE 1

BlockCard(b) ==
    LET days == DaysOf(Members(b)) IN
    [kind |-> "block", id |-> b, lives |-> Members(b),
     cancelled |-> Cardinality(Members(b) \cap catalog.cancelled),
     day |-> IF filter.latest THEN Max(days) ELSE Min(days), rank |-> BlockRank(b)]

(* is_default for get_my_favorite_lives: the list of favourites as it is opened *)
DefaultFavorites ==
    filter.list = "lives" /\ filter.favorites /\ filter.latest /\ filter.narrow = "all" /\ ~filter.query

(* FAVORITE_LIVES_BASE_QUERY and build_filtered_live_queries *)
LivesListed ==
    {LiveCard(l) : l \in {k \in Eligible : Wanted(k) /\ (DefaultFavorites => k \notin catalog.cancelled)}}
PerformancesListed ==
    {LiveCard(l) : l \in Standalone \union PartialLives} \union {BlockCard(b) : b \in FullGroups}
ToursListed == {BlockCard(b) : b \in MatchedTours}

Cards ==
    CASE filter.list = "lives" -> LivesListed
      [] filter.list = "performances" -> PerformancesListed
      [] filter.list = "tours" -> ToursListed

Precedes(x, y) ==
    LET before(a, b) == IF filter.latest THEN a > b ELSE a < b IN
    \/ x.rank < y.rank
    \/ x.rank = y.rank /\ before(x.day, y.day)
    \/ x.rank = y.rank /\ x.day = y.day /\ before(x.id, y.id)

(* A query returns equal rows in any order. *)
Sorted ==
    {s \in SetToSeqs(Cards) : \A i, j \in DOMAIN s : i < j => ~Precedes(s[j], s[i])}

----------------------------------------------------------------------------
TotalPages == IF Cards = {} THEN 1 ELSE (Cardinality(Cards) + RowsPerPage - 1) \div RowsPerPage

(* A page after the last one is answered by the last one. *)
SafePage == Min({walk.next, TotalPages})

(* get_lives, get_my_favorite_lives, get_catalog_performances, get_tours: the
   reader asks for one page after the other. *)
ReadPage ==
    /\ ~walk.complete
    /\ LET page == SafePage IN
       \E s \in Sorted :
          walk' = [walk EXCEPT
                     !.pages = Append(@, SubSeq(s, (page - 1) * RowsPerPage + 1,
                                                Min({page * RowsPerPage, Len(s)}))),
                     !.next = page + 1, !.complete = page = TotalPages]
    /\ UNCHANGED <<catalog, filter>>

Open(card, found) ==
    /\ walk.complete /\ walk.opened = <<>>
    /\ card \in UNION {ToSet(p) : p \in ToSet(walk.pages)} /\ card.kind = "block"
    /\ walk' = [walk EXCEPT !.opened =
                  <<[card |-> card, lives |-> IF found THEN Members(card.id) ELSE {},
                     cancelled |-> Cardinality(Members(card.id) \cap catalog.cancelled)]>>]
    /\ UNCHANGED <<catalog, filter>>

(* get_performance_group_detail does not find a group of fewer than two Lives,
   get_tour_detail a tour without any. *)
OpenGroup ==
    /\ filter.list = "performances"
    /\ \E card \in PerformancesListed : Open(card, card.id \in ValidGroups)

OpenTour ==
    /\ filter.list = "tours"
    /\ \E card \in ToursListed : Open(card, Members(card.id) # {})

ListNext == ReadPage \/ OpenGroup \/ OpenTour

ListSpec == ListInit /\ [][ListNext]_listVars

----------------------------------------------------------------------------
(* What a list owes its reader, Live by Live: those that match, those that match
   through the title of their group, and, unless a status is asked for, the
   others of a group with a matching title all of whose Lives are eligible; but
   the favourites, until something is filtered, without the cancelled. *)
Owed ==
    LET matched == {l \in Eligible : Wanted(l)}
        group(l) == {k \in ListedLives : catalog.block[k] = catalog.block[l]}
        grouped == {l \in ListedLives : catalog.block[l] # NoBlock /\ Cardinality(group(l)) >= 2}
        byTitle == {l \in grouped \cap Eligible :
                       filter.query /\ catalog.block[l] \in catalog.titled /\ Narrowed(l)}
    IN IF filter.list = "lives" THEN IF DefaultFavorites THEN matched \ catalog.cancelled ELSE matched
       ELSE IF filter.list = "performances"
       THEN matched \union byTitle \union
            {l \in grouped :
                /\ filter.query /\ catalog.block[l] \in catalog.titled
                /\ filter.narrow \in {"all", "year"}
                /\ group(l) \subseteq Eligible /\ group(l) \cap (matched \union byTitle) # {}}
       ELSE {l \in ListedLives :
                /\ catalog.block[l] # NoBlock
                /\ filter.query => catalog.block[l] \in catalog.titled \/ group(l) \cap catalog.named # {}
                /\ \E k \in group(l) : Narrowed(k)}

(* The only cards that can tie: a group and a Live with the same number. *)
TiedCards == {x \in Cards : \E y \in Cards : x # y /\ ~Precedes(x, y) /\ ~Precedes(y, x)}

(* While nothing is written, the pages of a list, read one after the other, show
   no Live they do not owe and none twice on a page, and in the end every Live
   they owe exactly once, on its own card or inside one group's; and a card opens
   a page with as many Lives and cancelled ones as it announces.  Known exception:
   a group and a Live may tie in the order, which then differs from page to page,
   so that the Lives of these two cards are missed or come twice. *)
EveryLiveListedOnce ==
    LET rows == FlattenSeq(walk.pages) IN
    /\ walk.complete =>
          \A l \in Owed \ UNION {x.lives : x \in TiedCards} :
             Cardinality({i \in DOMAIN rows : l \in rows[i].lives}) = 1
    /\ \A i \in DOMAIN walk.pages : \A j \in DOMAIN walk.pages[i] :
          /\ walk.pages[i][j].lives \subseteq Owed
          /\ \A k \in DOMAIN walk.pages[i] :
                j # k => walk.pages[i][j].lives \cap walk.pages[i][k].lives = {}
    /\ walk.opened # <<>> =>
          LET o == walk.opened[1] IN o.lives = o.card.lives /\ o.cancelled = o.card.cancelled
=============================================================================
