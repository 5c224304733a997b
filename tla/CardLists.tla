------------------------------- MODULE CardLists -------------------------------
(***************************************************************************)
(* Endless lists of cards.  The list of Lives (App.tsx) keeps a session and *)
(* a snapshot for each choice of tab and filters, is told of changes, and  *)
(* loads the next page when its end comes into view; the lists of tours    *)
(* and of a venue's Lives remember nothing and are told of nothing.        *)
(***************************************************************************)
EXTENDS Integers, Sequences, SequencesExt, FiniteSets

CONSTANTS
    Keys,           \* choices of tab and filters, or of a venue
    Listings,       \* what the server lists for a key, by version of its data
    PageSize,
    MaxVersion      \* bound: changes of the server's data

ASSUME CardAssumption ==
    /\ PageSize \in Nat \ {0} /\ MaxVersion \in Nat /\ "none" \notin Keys
    /\ Listings \in [Keys -> [0..MaxVersion -> Seq(Nat)]]
    /\ \A k \in Keys : \A v \in 0..MaxVersion : IsInjective(Listings[k][v])

VARIABLES
    listVersion,    \* of the server's data
    told,           \* the version this tab was last told of
    key,            \* the list that is open
    cards, cardPage, totalPages,    \* items, cardPage, serverTotalPages
    sessions,       \* cardSessionsRef
    snapshots,      \* listSnapshotsRef
    fetch,          \* the effect's request for the first page
    more,           \* the request for a further page
    failed,         \* loadError
    mixed,          \* lists that hold a further page asked for when they held other pages
    pagers          \* the lists of tours and of a venue

view == <<key, cards, cardPage, totalPages, failed>>
kept == <<sessions, snapshots, mixed>>
cardVars == <<listVersion, told, view, kept, fetch, more, pagers>>

NoKey == "none"
PagerKinds == {"tours", "venue"}

PageCount(k, v) == IF Listings[k][v] = <<>> THEN 1 ELSE (Len(Listings[k][v]) + PageSize - 1) \div PageSize
Page(k, v, n) ==
    LET listed == Listings[k][v]
        last == IF n * PageSize < Len(listed) THEN n * PageSize ELSE Len(listed)
    IN SubSeq(listed, (n - 1) * PageSize + 1, last)
FirstPages(k, v, n) == FlattenSeq([i \in 1..n |-> Page(k, v, i)])

(* The server answers with the last page it has when asked for a later one. *)
Served(k, v, n) ==
    LET page == IF n > PageCount(k, v) THEN PageCount(k, v) ELSE n
    IN [page |-> page, total |-> PageCount(k, v), cards |-> Page(k, v, page)]
Merge(base, new) == base \o FlattenSeq([i \in DOMAIN new |-> IF new[i] \in ToSet(base) THEN <<>> ELSE <<new[i]>>])

CardsInit ==
    /\ listVersion = 0 /\ told = 0 /\ key = NoKey /\ cards = <<>> /\ cardPage = 1 /\ totalPages = 1
    /\ sessions = [k \in Keys |-> <<>>] /\ snapshots = [k \in Keys |-> <<>>]
    /\ fetch = <<>> /\ more = <<>> /\ failed = FALSE /\ mixed = {}
    /\ pagers = [p \in PagerKinds |-> [key |-> NoKey, cards |-> <<>>, page |-> 1, total |-> 1,
                                       loading |-> FALSE, more |-> <<>>]]

----------------------------------------------------------------------------
(* The effect of the list: a session that reaches far enough is shown, or the
   first page is fetched; until then the cards stay or go. *)
ShowList(k, atPage, keep) ==
    /\ key' = k /\ failed' = FALSE
    /\ IF sessions'[k] # <<>> /\ sessions'[k][1].page >= atPage
       THEN /\ cards' = sessions'[k][1].cards /\ totalPages' = sessions'[k][1].total
            /\ cardPage' = sessions'[k][1].page /\ fetch' = <<>>
       ELSE /\ fetch' = <<[key |-> k, answer |-> <<>>]>> /\ cardPage' = atPage
            /\ IF keep THEN UNCHANGED <<cards, totalPages>> ELSE cards' = <<>> /\ totalPages' = 1

(* From another page, from the history with the page it was left at, or by
   other filters; where no session reaches far enough, a snapshot of the first
   page starts a new one. *)
OpenList(k, atPage) ==
    /\ k # key
    /\ UNCHANGED snapshots
    /\ sessions' = IF (sessions[k] = <<>> \/ sessions[k][1].page < atPage) /\ snapshots[k] # <<>>
                   THEN [sessions EXCEPT ![k] = snapshots[k]] ELSE sessions
    /\ ShowList(k, IF sessions' = sessions THEN atPage ELSE 1, FALSE)
    /\ UNCHANGED <<listVersion, told, more, mixed, pagers>>

CloseList ==
    /\ key # NoKey /\ key' = NoKey /\ fetch' = <<>>
    /\ UNCHANGED <<listVersion, told, cards, cardPage, totalPages, kept, more, failed, pagers>>

ReadFetch ==
    /\ fetch # <<>> /\ fetch[1].answer = <<>>
    /\ fetch' = <<[fetch[1] EXCEPT !.answer = <<Served(key, listVersion, 1)>>]>>
    /\ UNCHANGED <<listVersion, told, view, kept, more, pagers>>

FetchAnswered ==
    /\ fetch # <<>> /\ fetch[1].answer # <<>> /\ fetch' = <<>>
    /\ LET first == fetch[1].answer[1] IN
       /\ snapshots' = [snapshots EXCEPT ![key] = <<first>>]
       /\ sessions' = [sessions EXCEPT ![key] = <<first>>]
       /\ cards' = first.cards /\ totalPages' = first.total /\ cardPage' = first.page
    /\ mixed' = mixed \ {key}
    /\ UNCHANGED <<listVersion, told, key, more, failed, pagers>>

FetchFailed ==
    /\ fetch # <<>> /\ fetch' = <<>> /\ failed' = TRUE
    /\ UNCHANGED <<listVersion, told, key, cards, cardPage, totalPages, kept, more, pagers>>

(* loadMoreCards *)
LoadMore ==
    /\ key # NoKey /\ cards # <<>> /\ more = <<>>
    /\ LET s == sessions[key]
           loaded == IF s # <<>> THEN s[1].page ELSE cardPage
       IN /\ loaded < (IF s # <<>> THEN s[1].total ELSE totalPages)
          /\ more' = <<[key |-> key, page |-> loaded + 1, cards |-> cards, answer |-> <<>>,
                        stale |-> s = <<>> \/ fetch # <<>> \/ key \in mixed]>>
    /\ UNCHANGED <<listVersion, told, view, kept, fetch, pagers>>

ReadMore ==
    /\ more # <<>> /\ more[1].answer = <<>>
    /\ more' = <<[more[1] EXCEPT !.answer = <<Served(more[1].key, listVersion, more[1].page)>>]>>
    /\ UNCHANGED <<listVersion, told, view, kept, fetch, pagers>>

MoreAnswered ==
    /\ more # <<>> /\ more[1].answer # <<>> /\ more' = <<>>
    /\ LET k == more[1].key  page == more[1].answer[1]  s == sessions[k]
           base == IF page.page < more[1].page THEN <<>> ELSE IF s # <<>> THEN s[1].cards ELSE more[1].cards
           next == [page EXCEPT !.cards = Merge(base, page.cards)]
       IN IF s # <<>> /\ s[1].page >= page.page /\ page.page = more[1].page
          THEN UNCHANGED <<cards, cardPage, totalPages, sessions, mixed>>
          ELSE /\ sessions' = [sessions EXCEPT ![k] = <<next>>]
               /\ mixed' = IF more[1].stale \/ (s # <<>> /\ s[1].page + 1 # more[1].page)
                            THEN mixed \union {k} ELSE mixed
               /\ IF key = k THEN cards' = next.cards /\ totalPages' = next.total /\ cardPage' = next.page
                             ELSE UNCHANGED <<cards, cardPage, totalPages>>
    /\ UNCHANGED <<listVersion, told, key, snapshots, fetch, failed, pagers>>

MoreFailed ==
    /\ more # <<>> /\ more' = <<>>
    /\ UNCHANGED <<listVersion, told, view, kept, fetch, pagers>>

ListChanges ==
    /\ listVersion < MaxVersion /\ listVersion' = listVersion + 1
    /\ UNCHANGED <<told, view, kept, fetch, more, pagers>>

\* A mutant: what is remembered stays, and only the open list is fetched again.
ToldKeepingSnapshots ==
    /\ told < listVersion /\ told' = listVersion
    /\ sessions' = [k \in Keys |-> <<>>] /\ more' = <<>>
    /\ IF key = NoKey THEN UNCHANGED <<view, fetch>>
                      ELSE ShowList(key, cardPage, TRUE)
    /\ UNCHANGED <<listVersion, snapshots, mixed, pagers>>

(* handleConsoleLiveDataChanged: everything remembered goes, and an open list
   is fetched again while its cards stay in view. *)
Told ==
    /\ told < listVersion /\ told' = listVersion
    /\ sessions' = [k \in Keys |-> <<>>] /\ snapshots' = [k \in Keys |-> <<>>]
    /\ more' = IF more = <<>> THEN more ELSE <<[more[1] EXCEPT !.stale = TRUE]>>
    /\ IF key = NoKey THEN UNCHANGED <<view, fetch>>
                      ELSE ShowList(key, cardPage, TRUE)
    /\ UNCHANGED <<listVersion, mixed, pagers>>

LivesListNext ==
    \/ \E k \in Keys : \E v \in 0..listVersion : \E n \in 1..PageCount(k, v) : OpenList(k, n)
    \/ CloseList \/ ReadFetch \/ FetchAnswered \/ FetchFailed
    \/ LoadMore \/ ReadMore \/ MoreAnswered \/ MoreFailed
    \/ ListChanges \/ Told

----------------------------------------------------------------------------
(* TourArchivePage and VenueDetailPage: under other filters, and on the page of
   another venue, the answer to a request from before no longer counts. *)
Pager(p, new) ==
    /\ pagers' = [pagers EXCEPT ![p] = new]
    /\ UNCHANGED <<listVersion, told, view, kept, fetch, more>>

OpenPager(p, k) ==
    /\ pagers[p].key # k
    /\ Pager(p, [pagers[p] EXCEPT !.key = k, !.cards = <<>>, !.page = 1, !.loading = TRUE, !.more = <<>>])

PagerAnswered(p) ==
    /\ pagers[p].loading
    /\ \/ \E first \in {Served(pagers[p].key, 0, 1)} :
             Pager(p, [pagers[p] EXCEPT !.cards = first.cards, !.page = first.page, !.total = first.total,
                                        !.loading = FALSE])
       \/ Pager(p, [pagers[p] EXCEPT !.loading = FALSE])

PagerMore(p) ==
    /\ pagers[p].cards # <<>> /\ ~pagers[p].loading /\ pagers[p].more = <<>> /\ pagers[p].page < pagers[p].total
    /\ Pager(p, [pagers[p] EXCEPT !.more = <<[key |-> pagers[p].key, page |-> pagers[p].page + 1]>>])

PagerMoreAnswered(p) ==
    /\ pagers[p].more # <<>>
    /\ \/ \E next \in {Served(pagers[p].more[1].key, 0, pagers[p].more[1].page)} :
             Pager(p, [pagers[p] EXCEPT !.cards = IF p = "tours" THEN Merge(@, next.cards) ELSE @ \o next.cards,
                                        !.page = next.page, !.total = next.total, !.more = <<>>])
       \/ Pager(p, [pagers[p] EXCEPT !.more = <<>>])

PagersNext ==
    \E p \in PagerKinds :
        (\E k \in Keys : OpenPager(p, k)) \/ PagerAnswered(p) \/ PagerMore(p) \/ PagerMoreAnswered(p)

CardSpec == CardsInit /\ [][LivesListNext \/ PagersNext]_cardVars

----------------------------------------------------------------------------
(* Once the tab has been told of the last change and the first page is there, an
   open list shows the first pages of what the server lists for the chosen tab
   and filters, without a gap and without a card of another choice, while further
   pages are asked for too.  The list of Lives has an exception: a further page
   asked for before the first page was fetched again, or before the list was
   shortened to a snapshot of it, comes back afterwards and is let in. *)
CardsAreCurrent ==
    /\ key # NoKey /\ fetch = <<>> /\ told = listVersion /\ ~failed /\ key \notin mixed =>
          cards = FirstPages(key, listVersion, cardPage)
    /\ \A p \in PagerKinds : pagers[p].cards # <<>> =>
          pagers[p].cards = FirstPages(pagers[p].key, 0, pagers[p].page)
=============================================================================
