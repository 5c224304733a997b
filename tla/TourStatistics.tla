---------------------------- MODULE TourStatistics ----------------------------
(***************************************************************************)
(* What the page of a tour tells about its setlists: the statistics that    *)
(* compare each stop with the one before it (backend/app/routers/tours.py), *)
(* the comparison of two stops of the reader's choice, and the panel that  *)
(* asks for both and shows them (TourDetailPage, TourStatisticsPanel).      *)
(***************************************************************************)
EXTENDS Integers, Sequences, SequencesExt, FiniteSets, FiniteSetsExt

CONSTANTS
    TourSongs,
    MaxRows,        \* bound: rows of a setlist
    MaxStops        \* bound: stops of a tour, by whether it names its bands

ASSUME TourAssumption == MaxRows \in Nat /\ MaxStops \in [BOOLEAN -> Nat \ {0}]

VARIABLES
    tour,           \* its stops in order of date, and whether it names its bands
    panel           \* activeTab, statistics, statisticsLoading, customTransition, customLoading

tourVars == <<tour, panel>>

(* A row is by a band the tour names or by a guest; the encore starts at row
   encore; of a stop that was cancelled one setlist stands for all. *)
Setlists(guests) ==
    {s \in [rows : SeqOf([song : TourSongs, guest : guests], MaxRows), encore : 1..MaxRows + 1, cancelled : BOOLEAN] :
        s.encore <= Len(s.rows) + 1 /\ (s.cancelled => s.encore = 1)}

NewPanel == [tab |-> "stops", statistics |-> <<>>, loading |-> FALSE, asked |-> FALSE,
             custom |-> <<>>, comparing |-> <<>>]

TourInit ==
    /\ \E named \in BOOLEAN : \E n \in 1..MaxStops[named] :
          tour \in [stops : [1..n -> Setlists({FALSE, named})], explicit : {named}]
    /\ panel = NewPanel

----------------------------------------------------------------------------
(* The rows of stop i that count (TOUR_STATISTICS_QUERY), numbered anew where
   some may be left out. *)
Played(i) ==
    LET stop == tour.stops[i]
        row(k) == [song |-> stop.rows[k].song, guest |-> stop.rows[k].guest, order |-> k,
                   slot |-> IF k < stop.encore THEN <<"M", k>> ELSE <<"EN", k - stop.encore + 1>>]
        rows == [k \in DOMAIN stop.rows |-> row(k)]
        counted == FlattenSeq([k \in DOMAIN rows |-> IF tour.explicit /\ rows[k].guest THEN <<>> ELSE <<rows[k]>>])
    IN IF stop.cancelled THEN <<>>
       ELSE [k \in DOMAIN counted |-> IF tour.explicit THEN [counted[k] EXCEPT !.order = k] ELSE counted[k]]

SongsIn(rows) == {r.song : r \in ToSet(rows)}

(* from_by_song and to_by_song keep a song's last row. *)
OrderOf(rows, song) == Max({r.order : r \in {q \in ToSet(rows) : q.song = song}})

Moved(before, after) ==
    {s \in SongsIn(before) \cap SongsIn(after) : OrderOf(before, s) # OrderOf(after, s)}

Replaced(before, after) ==
    {<<p[1].song, p[2].song>> : p \in
        {q \in ToSet(before) \X ToSet(after) :
            /\ q[1].slot = q[2].slot /\ q[1].song # q[2].song
            /\ {q[1].song, q[2].song} \cap Moved(before, after) = {}}}

\* A mutant: a song whose place was taken is told as removed although it moved.
TransitionBySlot(i, j) ==
    LET before == Played(i)  after == Played(j)
        replaced == {<<p[1].song, p[2].song>> : p \in
                        {q \in ToSet(before) \X ToSet(after) : q[1].slot = q[2].slot /\ q[1].song # q[2].song}}
    IN [from |-> i, to |-> j, moved |-> Moved(before, after), replaced |-> replaced,
        added |-> SongsIn(after) \ (SongsIn(before) \union {r[2] : r \in replaced}),
        removed |-> SongsIn(before) \ (SongsIn(after) \union {r[1] : r \in replaced})]

Transition(i, j) ==
    LET before == Played(i)  after == Played(j)  replaced == Replaced(before, after) IN
    [from |-> i, to |-> j, moved |-> Moved(before, after), replaced |-> replaced,
     added |-> SongsIn(after) \ (SongsIn(before) \union {r[2] : r \in replaced}),
     removed |-> SongsIn(before) \ (SongsIn(after) \union {r[1] : r \in replaced})]

SetlistStops == FlattenSeq([i \in DOMAIN tour.stops |-> IF Played(i) = <<>> THEN <<>> ELSE <<i>>])

Status(song) ==
    LET n == Len(SetlistStops)
        at == {k \in 1..n : song \in SongsIn(Played(SetlistStops[k]))}
    IN IF Cardinality(at) = n THEN "common"
       ELSE IF Cardinality(at) = 1 THEN "single"
       ELSE IF at = Min(at)..n THEN "added"
       ELSE IF at = 1..Max(at) THEN "removed"
       ELSE "intermittent"

(* get_tour_statistics *)
Statistics ==
    LET stops == SetlistStops IN
    [songs |-> [s \in UNION {SongsIn(Played(i)) : i \in ToSet(stops)} |-> Status(s)],
     transitions |-> [k \in 1..(Len(stops) - 1) |-> Transition(stops[k], stops[k + 1])]]

----------------------------------------------------------------------------
Panel(new) == panel' = new /\ UNCHANGED tour

(* The statistics are asked for when their tab is first opened. *)
OpenStatistics ==
    /\ panel.tab = "stops"
    /\ LET ask == panel.statistics = <<>> /\ ~panel.loading
       IN Panel([panel EXCEPT !.tab = "statistics", !.loading = @ \/ ask, !.asked = ask])

(* The answer to a request from before no longer counts, but the page goes on
   believing that it loads. *)
LeaveStatistics ==
    /\ panel.tab = "statistics"
    /\ Panel([panel EXCEPT !.tab = "stops", !.asked = FALSE, !.custom = <<>>, !.comparing = <<>>])

StatisticsAnswered ==
    /\ panel.asked
    /\ \E answer \in {<<>>, <<Statistics>>} :
          Panel([panel EXCEPT !.statistics = answer, !.loading = FALSE, !.asked = FALSE])

(* comparableStops: every stop that has rows, even of guests only. *)
Comparable == {i \in DOMAIN tour.stops : tour.stops[i].rows # <<>> /\ ~tour.stops[i].cancelled}

Compare(i, j) ==
    /\ panel.tab = "statistics" /\ panel.statistics # <<>> /\ panel.comparing = <<>>
    /\ Cardinality(Comparable) >= 3 /\ i # j /\ {i, j} \subseteq Comparable
    /\ Panel([panel EXCEPT !.custom = <<>>, !.comparing = <<i, j>>])

(* get_tour_statistics_comparison refuses stops of which no row counts. *)
ComparisonAnswered ==
    /\ panel.comparing # <<>>
    /\ LET i == panel.comparing[1]  j == panel.comparing[2]
           answer == IF <<>> \in {Played(i), Played(j)} THEN <<>> ELSE <<Transition(i, j)>>
       IN \E a \in {<<>>, answer} : Panel([panel EXCEPT !.custom = a, !.comparing = <<>>])

(* The timeline, or another choice of stops: a comparison that is out still
   comes in. *)
ClearComparison ==
    /\ panel.custom # <<>>
    /\ Panel([panel EXCEPT !.custom = <<>>])

TourNext ==
    \/ OpenStatistics \/ LeaveStatistics \/ StatisticsAnswered
    \/ \E i, j \in DOMAIN tour.stops : Compare(i, j)
    \/ ComparisonAnswered \/ ClearComparison

TourSpec == TourInit /\ [][TourNext]_tourVars

----------------------------------------------------------------------------
(* The panel shows a replacement as one song added and one removed. *)
ShownAdded(t) == t.added \union {r[2] : r \in t.replaced}
ShownRemoved(t) == t.removed \union {r[1] : r \in t.replaced}

(* Songs of both stops that keep their number but not their slot, because the
   main part grew or shrank before them, or that are played twice. *)
Shifted(i, j) ==
    LET slots(rows, s) == {r.slot : r \in {q \in ToSet(rows) : q.song = s}}
    IN {s \in SongsIn(Played(i)) \cap SongsIn(Played(j)) : slots(Played(i), s) # slots(Played(j), s)}

TellsAll(t) ==
    LET before == SongsIn(Played(t.from))  after == SongsIn(Played(t.to))
        shifted == Shifted(t.from, t.to) \ t.moved
    IN /\ after \ before \subseteq ShownAdded(t)
       /\ before \ after \subseteq ShownRemoved(t)
       /\ ShownAdded(t) \cap before \subseteq shifted
       /\ ShownRemoved(t) \cap after \subseteq shifted
       /\ ShownAdded(t) \cap ShownRemoved(t) \subseteq shifted

(* The transitions in which a song comes or goes agree with its status. *)
StatusTells(s) ==
    LET ts == panel.statistics[1].transitions
        comes == {k \in DOMAIN ts : s \in ShownAdded(ts[k]) \ SongsIn(Played(ts[k].from))}
        goes == {k \in DOMAIN ts : s \in ShownRemoved(ts[k]) \ SongsIn(Played(ts[k].to))}
        status == panel.statistics[1].songs[s]
    IN /\ status = "common" <=> comes = {} /\ goes = {}
       /\ status = "added" => Cardinality(comes) = 1 /\ goes = {}
       /\ status = "removed" => comes = {} /\ Cardinality(goes) = 1
       /\ status = "intermittent" => comes # {} /\ goes # {}

(* Whatever comparison the panel shows, a song that came or went between its two
   stops is shown so, a song that was played at both is not, and the status of
   each song in the table agrees with where it comes and goes.  Known exception:
   a song whose slot shifted under an unchanged number may be shown as replaced
   although it is still played. *)
ChangesAreTold ==
    /\ panel.statistics # <<>> =>
          /\ \A t \in ToSet(panel.statistics[1].transitions) : TellsAll(t)
          /\ \A s \in DOMAIN panel.statistics[1].songs : StatusTells(s)
    /\ panel.custom # <<>> =>
          LET t == panel.custom[1] IN
          /\ TellsAll(t)
          /\ ShownAdded(t) = ShownRemoved(Transition(t.to, t.from))
=============================================================================
