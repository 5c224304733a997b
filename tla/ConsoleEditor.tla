----------------------------- MODULE ConsoleEditor -----------------------------
(***************************************************************************)
(* The console's editors of Lives and setlists (ConsoleInsertPanel): modes *)
(* over one panel, each with requests that answer late; a lock over the    *)
(* fields; lookups that write into whatever is edited when they answer;    *)
(* other modes that open a Live in its editor; a confirmation that fixes   *)
(* what is sent; and, when the answer to a new setlist is a conflict or    *)
(* none, a look at what the server has before the panel says whether it    *)
(* was written.                                                            *)
(***************************************************************************)
EXTENDS Integers, Sequences, FiniteSets, FiniteSetsExt

CONSTANTS
    EditorLives,    \* numbers of Lives, the newest last in no list: lists go by number
    Contents,       \* setlists
    MaxWrites,      \* bound: writes sent by this panel
    MaxOthers       \* bound: setlists written by another tab

ASSUME EditorAssumption ==
    /\ EditorLives \subseteq Nat \ {0} /\ Contents \subseteq Nat \ {0} /\ Contents # {}
    /\ MaxWrites \in Nat /\ MaxOthers \in Nat

LoadsAtOnce == 2      \* bound: loadings of Lives that are out
QueriesAtOnce == 1    \* bound: queries of Lives, and lookups of a kind, that are out

VARIABLES
    stored,         \* the setlist of each Live on the server
    written,        \* every setlist a Live has had
    jobs,           \* writes this panel sent
    others,         \* writes by another tab so far
    mode,           \* "venue" for the modes whose sections open a Live
    setlists,       \* selectedLiveId, lives, setlistRows, originalSetlistPayload, isLiveLoading
    pageLoad, setlistLoad, lookup,      \* requests of the setlist modes
    editing,        \* editingLiveId, the form's fields, liveCandidateLoading
    liveQuery, liveLoads, formLookup,   \* requests of the Live mode
    asking,         \* the dialog about unsaved changes, and what it goes on to
    confirmation,   \* pendingConfirmation
    submit,         \* confirmationSubmitting, and where the submission is
    reported,       \* submittedBundles
    astray          \* a late answer was put, or a Live loaded, where another Live is edited

serverVars == <<stored, written, jobs, others>>
setlistVars == <<setlists, pageLoad, setlistLoad, lookup>>
liveVars == <<editing, liveQuery, liveLoads, formLookup>>
dialogVars == <<asking, confirmation, submit, reported>>
editorVars == <<serverVars, mode, setlistVars, liveVars, dialogVars, astray>>

Nothing == 0
Blank == [of |-> Nothing, content |-> Nothing]
First(lives) == IF lives = {} THEN Nothing ELSE Min(lives)
WithSetlist == {l \in EditorLives : stored[l] # Nothing}

EditorInit ==
    /\ stored = [l \in EditorLives |-> IF l = Max(EditorLives) THEN Min(Contents) ELSE Nothing]
    /\ written = {<<l, stored[l]>> : l \in WithSetlist} /\ jobs = <<>> /\ others = 0
    /\ mode = "setlist"
    /\ setlists = [selected |-> Nothing, lives |-> {}, rows |-> Blank, original |-> Nothing, loading |-> TRUE]
    /\ pageLoad = <<[read |-> <<>>]>> /\ setlistLoad = <<>> /\ lookup = <<>>
    /\ editing = [live |-> Nothing, of |-> Nothing, edited |-> FALSE, loading |-> FALSE]
    /\ liveQuery = <<>> /\ liveLoads = <<>> /\ formLookup = <<>>
    /\ asking = <<>> /\ confirmation = <<>> /\ submit = <<>> /\ reported = {} /\ astray = FALSE

(* isSetlistDirty, isLiveDirty *)
SetlistDirty == mode = "setlist_edit" /\ setlists.original \notin {Nothing, setlists.rows.content}
LiveDirty == mode = "live_edit" /\ editing.live # Nothing /\ (editing.edited \/ editing.of # editing.live)

\* A mutant: the fields of a Live stay open while it loads.
LockedWhileSaving ==
    submit # <<>> \/ confirmation # <<>> \/ (mode = "setlist_edit" /\ setlists.loading)

Locked ==
    \/ submit # <<>> \/ confirmation # <<>>
    \/ mode = "setlist_edit" /\ setlists.loading
    \/ mode = "live_edit" /\ editing.loading
Hands == ~Locked /\ asking = <<>>

(* In the mode for new setlists the rows go when another Live is selected. *)
Selecting(s, l) == [s EXCEPT !.selected = l, !.rows = IF l = s.selected THEN @ ELSE Blank]
FreshEditing(loading) == [live |-> Nothing, of |-> Nothing, edited |-> FALSE, loading |-> loading]

(* Unsaved changes are given up, with the user's word, where the mode is left. *)
Restored == IF LiveDirty THEN [editing EXCEPT !.of = editing.live, !.edited = FALSE] ELSE editing

ChangeMode(m) ==
    /\ Hands /\ m # mode /\ mode' = m
    /\ m = "live_edit" => Len(liveQuery) < QueriesAtOnce
    /\ setlists' = [setlists EXCEPT
           !.selected = IF m \in {"setlist", "setlist_edit"} THEN Nothing ELSE @,
           !.loading = m \in {"setlist", "setlist_edit"},
           !.rows = IF m # "setlist_edit" \/ SetlistDirty THEN Blank ELSE @,
           !.original = IF m # "setlist_edit" THEN Nothing ELSE @]
    /\ pageLoad' = IF m = "setlist" THEN <<[read |-> <<>>]>> ELSE <<>>
    /\ setlistLoad' = IF m = "setlist_edit" THEN <<[live |-> Nothing, first |-> FALSE, read |-> <<>>]>> ELSE setlistLoad
    /\ editing' = IF m = "live_edit" THEN FreshEditing(TRUE) ELSE Restored
    /\ liveQuery' = IF m = "live_edit" THEN <<[first |-> FALSE]>> ELSE liveQuery
    /\ UNCHANGED <<serverVars, lookup, liveLoads, formLookup, dialogVars, astray>>

----------------------------------------------------------------------------
(* New setlists: the page of Lives that have none. *)
LoadPage ==
    /\ mode = "setlist" /\ pageLoad' = <<[read |-> <<>>]>>
    /\ \/ Hands /\ setlists' = [Selecting(setlists, Nothing) EXCEPT !.loading = TRUE]
       \/ others > 0 /\ setlists' = [setlists EXCEPT !.loading = TRUE]      \* told by another tab
    /\ UNCHANGED <<serverVars, mode, setlistLoad, lookup, liveVars, dialogVars, astray>>

PageRead ==
    /\ pageLoad # <<>> /\ pageLoad[1].read = <<>>
    /\ pageLoad' = <<[read |-> <<EditorLives \ WithSetlist>>]>>
    /\ UNCHANGED <<serverVars, mode, setlists, setlistLoad, lookup, liveVars, dialogVars, astray>>

PageAnswered ==
    /\ pageLoad # <<>> /\ pageLoad' = <<>>
    /\ \/ /\ pageLoad[1].read # <<>>
          /\ LET page == pageLoad[1].read[1]
                 kept == IF setlists.selected \in page THEN setlists.selected ELSE First(page)
             IN setlists' = [Selecting(setlists, kept) EXCEPT !.lives = page, !.loading = FALSE]
       \/ setlists' = [Selecting(setlists, Nothing) EXCEPT !.lives = {}, !.loading = FALSE]
    /\ UNCHANGED <<serverVars, mode, setlistLoad, lookup, liveVars, dialogVars, astray>>

----------------------------------------------------------------------------
(* Setlists there are: loadSetlistForEdit, and querySetlistEditLives, which
   lists them and may load the first. *)
StartSetlistLoad(load) ==
    /\ setlistLoad' = <<load>> /\ setlists' = [setlists EXCEPT !.loading = TRUE]

SelectSetlist(l) ==
    /\ Hands
    /\ \/ /\ mode = "setlist" /\ l \in setlists.lives /\ l # setlists.selected
          /\ setlists' = Selecting(setlists, l) /\ UNCHANGED <<setlistLoad, asking>>
       \/ /\ mode = "setlist_edit" /\ l \in setlists.lives
          /\ IF SetlistDirty THEN asking' = <<l>> /\ UNCHANGED <<setlists, setlistLoad>>
             ELSE StartSetlistLoad([live |-> l, first |-> FALSE, read |-> <<>>]) /\ UNCHANGED asking
    /\ UNCHANGED <<serverVars, mode, pageLoad, lookup, liveVars, confirmation, submit, reported, astray>>

QuerySetlists ==
    /\ Hands /\ mode = "setlist_edit"
    /\ IF SetlistDirty THEN asking' = <<Nothing>> /\ UNCHANGED <<setlists, setlistLoad>>
       ELSE StartSetlistLoad([live |-> Nothing, first |-> TRUE, read |-> <<>>]) /\ UNCHANGED asking
    /\ UNCHANGED <<serverVars, mode, pageLoad, lookup, liveVars, confirmation, submit, reported, astray>>

SetlistRead ==
    /\ setlistLoad # <<>> /\ setlistLoad[1].read = <<>>
    /\ LET l == setlistLoad[1].live IN
       setlistLoad' = <<[setlistLoad[1] EXCEPT !.read = IF l = Nothing THEN <<WithSetlist>> ELSE <<stored[l]>>]>>
    /\ UNCHANGED <<serverVars, mode, setlists, pageLoad, lookup, liveVars, dialogVars, astray>>

SetlistAnswered ==
    /\ setlistLoad # <<>> /\ setlistLoad[1].read # <<>>
    /\ LET l == setlistLoad[1].live  read == setlistLoad[1].read[1] IN
       \/ /\ l # Nothing /\ setlistLoad' = <<>>
          /\ setlists' = [setlists EXCEPT !.selected = l, !.rows = [of |-> l, content |-> read],
                                          !.original = read, !.loading = FALSE]
       \/ /\ l = Nothing /\ setlistLoad[1].first /\ read # {}
          /\ setlistLoad' = <<[live |-> First(read), first |-> FALSE, read |-> <<>>]>>
          /\ setlists' = [setlists EXCEPT !.lives = read]
       \/ /\ l = Nothing /\ (~setlistLoad[1].first \/ read = {}) /\ setlistLoad' = <<>>
          /\ setlists' = IF read # {} THEN [setlists EXCEPT !.lives = read, !.loading = FALSE]
                         ELSE [selected |-> Nothing, lives |-> {}, rows |-> Blank, original |-> Nothing,
                               loading |-> FALSE]
    /\ UNCHANGED <<serverVars, mode, pageLoad, lookup, liveVars, dialogVars, astray>>

SetlistFailed ==
    /\ setlistLoad # <<>> /\ setlistLoad' = <<>>
    /\ setlists' = IF setlistLoad[1].live # Nothing THEN [setlists EXCEPT !.original = Nothing, !.loading = FALSE]
                   ELSE [setlists EXCEPT !.lives = {}, !.selected = Nothing, !.loading = FALSE]
    /\ UNCHANGED <<serverVars, mode, pageLoad, lookup, liveVars, dialogVars, astray>>

EditRows(c) ==
    /\ Hands /\ mode \in {"setlist", "setlist_edit"} /\ c # setlists.rows.content
    /\ setlists' = [setlists EXCEPT !.rows = [of |-> IF @.content = Nothing THEN setlists.selected ELSE @.of,
                                              content |-> c]]
    /\ UNCHANGED <<serverVars, mode, pageLoad, setlistLoad, lookup, liveVars, dialogVars, astray>>

(* A lookup for the rows: querySongsForSetlist writes back the rows it was
   asked for; the history of a band, or a batch of new songs, goes into the rows
   there are when it answers, by the number of the row. *)
LookUpRows(whole) ==
    /\ Hands /\ mode \in {"setlist", "setlist_edit"} /\ setlists.rows.content # Nothing
    /\ Len(lookup) < QueriesAtOnce /\ lookup' = <<[whole |-> whole, rows |-> setlists.rows]>>
    /\ UNCHANGED <<serverVars, mode, setlists, pageLoad, setlistLoad, liveVars, dialogVars, astray>>

RowsAnswered ==
    /\ lookup # <<>> /\ lookup' = <<>>
    /\ LET asked == lookup[1].rows IN
       \/ /\ lookup[1].whole /\ setlists' = [setlists EXCEPT !.rows = asked]
          /\ astray' = (astray \/ asked.of # setlists.selected)
       \/ /\ ~lookup[1].whole
          /\ \E c \in Contents :
                setlists' = [setlists EXCEPT !.rows = IF @.content = Nothing THEN @ ELSE [of |-> asked.of, content |-> c]]
          /\ astray' = (astray \/ asked.of # setlists.rows.of)
       \/ UNCHANGED <<setlists, astray>>
    /\ UNCHANGED <<serverVars, mode, pageLoad, setlistLoad, liveVars, dialogVars>>

----------------------------------------------------------------------------
(* Lives: loadLiveCandidatePage, and loadLiveForEdit in two steps, for the
   histories of the Live's bands come between its number and its fields. *)
StartLiveLoad(l, loading) ==
    /\ liveLoads' = Append(liveLoads, [live |-> l, read |-> FALSE])
    /\ editing' = [editing EXCEPT !.loading = loading]

SelectLive(l) ==
    /\ Hands /\ mode = "live_edit" /\ Len(liveLoads) < LoadsAtOnce
    /\ IF LiveDirty THEN asking' = <<l>> /\ UNCHANGED <<editing, liveLoads>>
                    ELSE StartLiveLoad(l, TRUE) /\ UNCHANGED asking
    /\ UNCHANGED <<serverVars, mode, setlistVars, liveQuery, formLookup, confirmation, submit, reported, astray>>

(* onOpenLive: the editor is entered as it was left, and the mode's own query
   is out beside the Live's loading. *)
OpenLive(l) ==
    /\ Hands /\ mode = "venue" /\ mode' = "live_edit"
    /\ Len(liveLoads) < LoadsAtOnce /\ StartLiveLoad(l, TRUE)
    /\ Len(liveQuery) < QueriesAtOnce /\ liveQuery' = <<[first |-> FALSE]>>
    /\ UNCHANGED <<serverVars, setlistVars, formLookup, dialogVars, astray>>

QueryLives ==
    /\ Hands /\ mode = "live_edit" /\ Len(liveQuery) < QueriesAtOnce
    /\ \E first \in BOOLEAN : liveQuery' = <<[first |-> first]>>
    /\ editing' = [editing EXCEPT !.loading = TRUE]
    /\ UNCHANGED <<serverVars, mode, setlistVars, liveLoads, formLookup, dialogVars, astray>>

(* With a filter the first match is selected.  The query's own end lifts the
   lock, also when a Live is loading. *)
LivesAnswered ==
    /\ liveQuery # <<>> /\ liveQuery' = <<>>
    /\ \/ editing' = [editing EXCEPT !.loading = FALSE] /\ UNCHANGED <<liveLoads, asking>>
       \/ /\ liveQuery[1].first /\ submit = <<>> /\ confirmation = <<>> /\ asking = <<>>
          /\ \E match \in (EditorLives \union {Nothing}) \ {editing.live} :
             IF LiveDirty THEN /\ asking' = <<match>> /\ editing' = [editing EXCEPT !.loading = FALSE]
                               /\ UNCHANGED liveLoads
             ELSE IF match = Nothing THEN editing' = FreshEditing(FALSE) /\ UNCHANGED <<liveLoads, asking>>
             ELSE Len(liveLoads) < LoadsAtOnce /\ StartLiveLoad(match, FALSE) /\ UNCHANGED asking
    /\ astray' = (astray \/ liveLoads' # <<>>)
    /\ UNCHANGED <<serverVars, mode, setlistVars, formLookup, confirmation, submit, reported>>

LiveRead(i) ==
    /\ ~liveLoads[i].read /\ liveLoads' = [liveLoads EXCEPT ![i].read = TRUE]
    /\ editing' = [editing EXCEPT !.live = liveLoads[i].live]
    /\ UNCHANGED <<serverVars, mode, setlistVars, liveQuery, formLookup, dialogVars, astray>>

LiveLoaded(i) ==
    /\ liveLoads' = SubSeq(liveLoads, 1, i - 1) \o SubSeq(liveLoads, i + 1, Len(liveLoads))
    /\ \/ /\ liveLoads[i].read
          /\ editing' = [editing EXCEPT !.of = liveLoads[i].live, !.edited = FALSE, !.loading = FALSE]
       \/ ~liveLoads[i].read /\ editing' = [editing EXCEPT !.loading = FALSE]
    /\ UNCHANGED <<serverVars, mode, setlistVars, liveQuery, formLookup, dialogVars, astray>>

EditLive ==
    /\ Hands /\ mode = "live_edit" /\ ~editing.edited /\ editing' = [editing EXCEPT !.edited = TRUE]
    /\ UNCHANGED <<serverVars, mode, setlistVars, liveQuery, liveLoads, formLookup, dialogVars, astray>>

(* queryVid, and the history of a band that is ticked, go into the form there
   is when they answer; a query for venues that fails takes the venue away.  A
   form with a field of another Live is no longer its own Live's. *)
LookUpForForm ==
    /\ Hands /\ mode = "live_edit" /\ Len(formLookup) < QueriesAtOnce /\ formLookup' = <<editing.of>>
    /\ UNCHANGED <<serverVars, mode, setlistVars, editing, liveQuery, liveLoads, dialogVars, astray>>

FormAnswered ==
    /\ formLookup # <<>> /\ formLookup' = <<>>
    /\ \/ /\ editing' = [editing EXCEPT !.of = formLookup[1], !.edited = TRUE]
          /\ astray' = (astray \/ formLookup[1] # editing.of)
       \/ UNCHANGED <<editing, astray>>
    /\ UNCHANGED <<serverVars, mode, setlistVars, liveQuery, liveLoads, dialogVars>>

----------------------------------------------------------------------------
KeepDraft ==
    /\ asking # <<>> /\ asking' = <<>>
    /\ UNCHANGED <<serverVars, mode, setlistVars, liveVars, confirmation, submit, reported, astray>>

DiscardDraft ==
    /\ asking # <<>> /\ asking' = <<>>
    /\ IF mode = "setlist_edit"
       THEN /\ setlistLoad' = <<[live |-> asking[1], first |-> TRUE, read |-> <<>>]>>
            /\ setlists' = [setlists EXCEPT !.original = Nothing, !.rows = Blank, !.loading = TRUE]
            /\ UNCHANGED <<editing, liveLoads>>
       ELSE /\ IF asking[1] = Nothing THEN editing' = FreshEditing(editing.loading) /\ UNCHANGED liveLoads
               ELSE /\ liveLoads' = Append(liveLoads, [live |-> asking[1], read |-> FALSE])
                    /\ editing' = [editing EXCEPT !.of = editing.live, !.edited = FALSE, !.loading = TRUE]
            /\ UNCHANGED <<setlists, setlistLoad>>
    /\ UNCHANGED <<serverVars, mode, pageLoad, lookup, liveQuery, formLookup, confirmation, submit, reported, astray>>

(* requestSetlistConfirmation, requestLiveConfirmation *)
Request ==
    /\ Hands /\ UNCHANGED <<serverVars, mode, setlistVars, liveVars, asking, submit, reported, astray>>
    /\ \/ /\ mode = "setlist" /\ ~setlists.loading /\ setlists.selected \in setlists.lives
          /\ setlists.rows.content # Nothing
          /\ confirmation' = <<[kind |-> "append", live |-> setlists.selected, of |-> setlists.rows.of,
                                content |-> setlists.rows.content]>>
       \/ /\ SetlistDirty /\ ~setlists.loading /\ setlists.selected \in setlists.lives
          /\ setlists.rows.content # Nothing
          /\ confirmation' = <<[kind |-> "update", live |-> setlists.selected, of |-> setlists.rows.of,
                                content |-> setlists.rows.content]>>
       \/ /\ LiveDirty
          /\ confirmation' = <<[kind |-> "live", live |-> editing.live, of |-> editing.of, content |-> Nothing]>>

Cancel ==
    /\ confirmation # <<>> /\ submit = <<>> /\ confirmation' = <<>>
    /\ UNCHANGED <<serverVars, mode, setlistVars, liveVars, asking, submit, reported, astray>>

(* confirmPendingInsert; the list of Lives a new setlist takes its own out of
   is the one from now. *)
Confirm ==
    /\ confirmation # <<>> /\ submit = <<>> /\ Len(jobs) < MaxWrites
    /\ jobs' = Append(jobs, [order |-> confirmation[1], state |-> "out"])
    /\ submit' = <<[stage |-> "sent", lives |-> setlists.lives, status |-> "", read |-> Nothing]>>
    /\ UNCHANGED <<stored, written, others, mode, setlistVars, liveVars, asking, confirmation, reported, astray>>

(* The server; a write may be done long after the panel gave up on it.  409
   stands for a Live that has a setlist and for one that may have none. *)
Store(l, c) == stored' = [stored EXCEPT ![l] = c] /\ written' = written \union {<<l, c>>}
Serve(j) ==
    /\ jobs[j].state = "out"
    /\ LET order == jobs[j].order IN
       \/ /\ order.kind = "append" => stored[order.live] = Nothing
          /\ jobs' = [jobs EXCEPT ![j].state = "done"]
          /\ IF order.kind = "live" THEN UNCHANGED <<stored, written>> ELSE Store(order.live, order.content)
       \/ jobs' = [jobs EXCEPT ![j].state = "refused"] /\ UNCHANGED <<stored, written>>
    /\ UNCHANGED <<others, mode, setlistVars, liveVars, dialogVars, astray>>

OtherTabWrites(l, c) ==
    /\ others < MaxOthers /\ others' = others + 1 /\ Store(l, c)
    /\ UNCHANGED <<jobs, mode, setlistVars, liveVars, dialogVars, astray>>

----------------------------------------------------------------------------
(* The end of a submission. *)
Order == confirmation[1]
State == jobs[Len(jobs)].state
EndSubmit == submit' = <<>> /\ confirmation' = <<>>
Report == reported' = reported \union {<<Order.live, Order.content>>}

CompleteInsert ==
    /\ EndSubmit /\ Report
    /\ LET left == submit[1].lives \ {Order.live} IN
       setlists' = [setlists EXCEPT !.lives = left, !.selected = First(left), !.rows = Blank]
    /\ UNCHANGED pageLoad

Refused ==
    /\ EndSubmit /\ UNCHANGED reported
    /\ LET left == submit[1].lives \ {Order.live} IN
       setlists' = [setlists EXCEPT !.lives = left, !.rows = Blank, !.loading = TRUE,
                                    !.selected = IF @ = Order.live THEN First(left) ELSE @]
    /\ pageLoad' = <<[read |-> <<>>]>>

InsertAnswered ==
    /\ submit # <<>> /\ submit[1].stage = "sent" /\ Order.kind = "append"
    /\ \/ State = "done" /\ CompleteInsert
       \/ /\ \/ State = "refused" /\ submit' = <<[submit[1] EXCEPT !.stage = "reading", !.status = "409"]>>
             \/ submit' = <<[submit[1] EXCEPT !.stage = "reading", !.status = "timeout"]>>
          /\ UNCHANGED <<setlists, pageLoad, confirmation, reported>>
       \/ EndSubmit /\ UNCHANGED <<setlists, pageLoad, reported>>        \* another error
    /\ UNCHANGED <<serverVars, mode, setlistLoad, lookup, liveVars, asking, astray>>

ReadBack ==
    /\ submit # <<>> /\ submit[1].stage = "reading"
    /\ submit' = <<[submit[1] EXCEPT !.stage = "read", !.read = stored[Order.live]]>>
    /\ UNCHANGED <<serverVars, mode, setlistVars, liveVars, asking, confirmation, reported, astray>>

\* A mutant: any setlist there is taken for the one that was sent.
MatchesAnything == submit[1].stage = "read" /\ submit[1].read # Nothing

(* persistedSetlistMatchesPayload *)
Matches == submit[1].stage = "read" /\ submit[1].read = Order.content

(* A look that failed is no look; after a timeout the draft stays as it is. *)
ReadBackAnswered ==
    /\ submit # <<>> /\ submit[1].stage \in {"reading", "read"}
    /\ \/ Matches /\ CompleteInsert
       \/ ~Matches /\ submit[1].status = "409" /\ Refused
       \/ ~Matches /\ submit[1].status = "timeout" /\ EndSubmit /\ UNCHANGED <<setlists, pageLoad, reported>>
    /\ UNCHANGED <<serverVars, mode, setlistLoad, lookup, liveVars, asking, astray>>

UpdateAnswered ==
    /\ submit # <<>> /\ submit[1].stage = "sent" /\ Order.kind = "update"
    /\ IF State = "done"
       THEN \/ EndSubmit /\ Report /\ setlists' = [setlists EXCEPT !.original = Order.content]
            \/ submit' = <<>> /\ UNCHANGED <<setlists, confirmation, reported>>
       ELSE submit' = <<>> /\ UNCHANGED <<setlists, confirmation, reported>>
    /\ UNCHANGED <<serverVars, mode, pageLoad, setlistLoad, lookup, liveVars, asking, astray>>

(* saveLive, and the refresh it waits for before the dialog closes. *)
LiveAnswered ==
    /\ submit # <<>> /\ submit[1].stage = "sent" /\ Order.kind = "live"
    /\ \/ /\ State = "done" /\ submit' = <<[submit[1] EXCEPT !.stage = "refreshing"]>>
          /\ editing' = [live |-> Order.live, of |-> Order.live, edited |-> FALSE, loading |-> TRUE]
       \/ submit' = <<>> /\ UNCHANGED editing
    /\ UNCHANGED <<serverVars, mode, setlistVars, liveQuery, liveLoads, formLookup, asking, confirmation, reported,
                   astray>>

LivesRefreshed ==
    /\ submit # <<>> /\ submit[1].stage = "refreshing" /\ EndSubmit
    /\ editing' = [editing EXCEPT !.loading = FALSE]
    /\ UNCHANGED <<serverVars, mode, setlistVars, liveQuery, liveLoads, formLookup, asking, reported, astray>>

DialogsNext == KeepDraft \/ DiscardDraft \/ Request \/ Cancel \/ Confirm \/ \E j \in DOMAIN jobs : Serve(j)

SetlistsNext ==
    \/ \E m \in {"setlist", "setlist_edit"} : ChangeMode(m)
    \/ LoadPage \/ PageRead \/ PageAnswered
    \/ \E l \in EditorLives : SelectSetlist(l)
    \/ QuerySetlists \/ SetlistRead \/ SetlistAnswered \/ SetlistFailed
    \/ \E c \in Contents : EditRows(c)
    \/ \E whole \in BOOLEAN : LookUpRows(whole)
    \/ RowsAnswered
    \/ \E l \in EditorLives, c \in Contents : OtherTabWrites(l, c)
    \/ DialogsNext
    \/ InsertAnswered \/ ReadBack \/ ReadBackAnswered \/ UpdateAnswered

LivesNext ==
    \/ \E m \in {"setlist", "live_edit", "venue"} : ChangeMode(m)
    \/ \E l \in EditorLives : SelectLive(l) \/ OpenLive(l)
    \/ QueryLives \/ LivesAnswered \/ EditLive \/ LookUpForForm \/ FormAnswered
    \/ \E i \in DOMAIN liveLoads : LiveRead(i) \/ LiveLoaded(i)
    \/ DialogsNext
    \/ LiveAnswered \/ LivesRefreshed

EditorSpec == EditorInit /\ [][SetlistsNext \/ LivesNext]_editorVars

----------------------------------------------------------------------------
(* A setlist the panel lists as written was written: a conflict or a timeout
   ends in this list only when what the server has is what was sent. *)
ReportedWasWritten == reported \subseteq written

(* What the user is asked to confirm for a Live was entered for that Live,
   unless an answer went astray before: a lookup asked for another Live's draft
   wrote into this one, or a Live was loading when the end of a query lifted the
   lock.  Whatever else is loaded, switched, discarded, saved or answered late
   keeps what is entered with its Live. *)
ConfirmedForItsLive == confirmation # <<>> /\ ~astray => confirmation[1].of = confirmation[1].live
=============================================================================
