----------------------------- MODULE ConsoleHistory -----------------------------
(***************************************************************************)
(* The browser's history and the drafts of the console: App.tsx numbers    *)
(* the entries it pushes, and when the user travels away from the console  *)
(* it goes back first, asks, and then repeats the journey by the           *)
(* difference of the numbers (ConsoleDraftGuard asks).                     *)
(***************************************************************************)
EXTENDS Integers, Sequences, SequencesExt, FiniteSets

CONSTANTS
    MaxEntries,     \* bound: entries in the history, and their numbers
    MaxTravels,     \* bound: journeys that have not arrived yet
    MaxBacks        \* bound: ways back from a Live's page

ASSUME HistoryAssumption == MaxEntries \in Nat \ {0} /\ MaxTravels \in Nat \ {0} /\ MaxBacks \in Nat

VARIABLES
    entries,      \* history entries: a page and its number
    pos,          \* the entry the browser is at
    travels,      \* steps of history.back, forward and go that have not arrived, and whose they are
    mistaken,     \* auxiliary: a journey has arrived that was taken for another
    page,         \* tab
    historyIndex, \* historyIndex.current
    restoring,    \* restoringConsoleHistory.current
    approved,     \* approvedConsoleHistory.current
    draft,        \* what the console's editors hold
    pending,      \* what the dialog about unsaved changes would go on with
    access,       \* canUseConsoleFeatures
    backs         \* ways back taken so far (counts for MaxBacks)

historyVars == <<entries, pos, travels, mistaken, page, historyIndex, restoring, approved, draft, pending, access, backs>>

Pages == {"home", "detail", "console"}
Unnumbered == -1                    \* a state without navigationIndex
None == -2                          \* null
Number(e) == IF e.index = Unnumbered THEN 0 ELSE e.index
Clean == [dirty |-> FALSE, busy |-> FALSE]

(* What leaving the console goes on with: a page to push, or a number to go to. *)
ToPage(p) == [page |-> p]
ToNumber(n) == [number |-> n]

HistoryInit ==
    /\ entries = <<[page |-> "home", index |-> Unnumbered]>> /\ pos = 1
    /\ travels = <<>> /\ mistaken = FALSE
    /\ page = "home" /\ historyIndex = 0 /\ restoring = None /\ approved = FALSE
    /\ draft = Clean /\ pending = <<>> /\ access = TRUE /\ backs = 0

(* The guard is there as long as the console is, and so are its drafts. *)
Guarded == page = "console"
Show(p) ==
    /\ page' = IF p = "console" /\ ~access THEN "home" ELSE p
    /\ IF page' = "console" THEN UNCHANGED <<draft, pending>> ELSE draft' = Clean /\ pending' = <<>>

Push(p) ==
    /\ entries' = Append(SubSeq([entries EXCEPT ![pos].index = historyIndex], 1, pos),
                         [page |-> p, index |-> historyIndex + 1])
    /\ pos' = pos + 1 /\ historyIndex' = historyIndex + 1 /\ Show(p)
    /\ UNCHANGED <<travels, restoring, approved, access>>

(* The browser's buttons and history.go: the browser does not tell which it was. *)
Journey(by, own) == [by |-> by, own |-> own]
Travel(by, own) == travels' = Append(travels, Journey(by, own))

(* Go on with what was left for: the page is pushed, or the journey repeated. *)
Proceed(to) ==
    IF "page" \in DOMAIN to THEN Push(to.page)
    ELSE /\ approved' = TRUE /\ Travel(to.number - historyIndex, TRUE)
         /\ UNCHANGED <<entries, pos, page, historyIndex, access>>

\* A mutant: the dialog is only for a draft that is being saved.
LeaveUnasked(to) ==
    IF draft.busy \/ pending # <<>>
    THEN pending' = <<to>> /\ UNCHANGED <<entries, pos, travels, page, historyIndex, approved, draft, access>>
    ELSE Proceed(to) /\ ("number" \in DOMAIN to => UNCHANGED <<draft, pending>>)

(* The guard: not while a draft is being saved or the dialog is open; asks
   when there is something to lose. *)
Leave(to) ==
    IF draft.busy \/ pending # <<>>
    THEN UNCHANGED <<entries, pos, travels, page, historyIndex, approved, draft, pending, access>>
    ELSE IF draft.dirty
    THEN pending' = <<to>> /\ UNCHANGED <<entries, pos, travels, page, historyIndex, approved, draft, access>>
    ELSE Proceed(to) /\ ("number" \in DOMAIN to => UNCHANGED <<draft, pending>>)

(* The user's hands wait for a journey to arrive; only the browser's buttons
   they press again before, with MaxTravels above one. *)
Settled == travels = <<>>

OpenPage(p) ==
    /\ Settled /\ pos < MaxEntries /\ historyIndex < MaxEntries
    /\ p # page /\ (p = "console" => access)
    /\ IF p # "console" /\ Guarded THEN Leave(ToPage(p)) /\ UNCHANGED restoring ELSE Push(p)

(* The page's own way back from a Live replaces the entry by one without a number. *)
BackFromDetail ==
    /\ Settled /\ page = "detail" /\ backs < MaxBacks /\ backs' = backs + 1
    /\ entries' = [entries EXCEPT ![pos] = [page |-> "home", index |-> Unnumbered]]
    /\ Show("home")
    /\ UNCHANGED <<pos, travels, historyIndex, restoring, approved, access>>

UserTravels(by) ==
    /\ Len(travels) < MaxTravels /\ pos + by \in DOMAIN entries /\ Travel(by, FALSE)
    /\ UNCHANGED <<entries, pos, page, historyIndex, restoring, approved, draft, pending, access>>

(* A journey beyond either end of the history goes nowhere. *)
TravelLost ==
    /\ travels # <<>> /\ pos + Head(travels).by \notin DOMAIN entries
    /\ travels' = Tail(travels)
    /\ UNCHANGED <<entries, pos, page, historyIndex, restoring, approved, draft, pending, access>>

Arrived(target) == historyIndex' = Number(target) /\ Show(target.page)

(* onPopState *)
Land ==
    /\ travels # <<>> /\ pos + Head(travels).by \in DOMAIN entries
    /\ pos' = pos + Head(travels).by
    /\ mistaken' = (mistaken \/ Head(travels).own # (approved \/ restoring # None))
    /\ UNCHANGED <<entries, access>>
    /\ LET target == entries[pos'] IN
       \/ /\ approved /\ approved' = FALSE /\ Arrived(target)
          /\ travels' = Tail(travels) /\ UNCHANGED restoring
       \/ /\ ~approved /\ restoring # None /\ restoring' = None
          /\ UNCHANGED <<page, historyIndex, draft>>
          /\ IF ~Guarded \/ (~draft.busy /\ pending = <<>> /\ ~draft.dirty)
             THEN /\ approved' = TRUE /\ travels' = Append(Tail(travels), Journey(restoring - historyIndex, TRUE))
                  /\ UNCHANGED pending
             ELSE /\ pending' = IF draft.busy \/ pending # <<>> THEN pending ELSE <<ToNumber(restoring)>>
                  /\ travels' = Tail(travels) /\ UNCHANGED approved
       \/ /\ ~approved /\ restoring = None /\ Guarded /\ Number(target) # historyIndex
          /\ restoring' = Number(target)
          /\ travels' = Append(Tail(travels), Journey(historyIndex - Number(target), TRUE))
          /\ UNCHANGED <<page, historyIndex, approved, draft, pending>>
       \/ /\ ~approved /\ restoring = None /\ ~(Guarded /\ Number(target) # historyIndex)
          /\ Arrived(target) /\ travels' = Tail(travels) /\ UNCHANGED <<restoring, approved>>

Unchanged == UNCHANGED <<entries, pos, travels, page, historyIndex, restoring, approved, access>>

Editing == Settled /\ Guarded /\ ~draft.busy /\ pending = <<>>
Edit == Editing /\ draft' = [draft EXCEPT !.dirty = TRUE] /\ UNCHANGED pending /\ Unchanged
StartSave == Editing /\ draft.dirty /\ draft' = [draft EXCEPT !.busy = TRUE] /\ UNCHANGED pending /\ Unchanged
EndSave ==
    /\ draft.busy /\ draft' \in {Clean, [draft EXCEPT !.busy = FALSE]}
    /\ UNCHANGED pending /\ Unchanged

KeepEditing == Settled /\ pending # <<>> /\ pending' = <<>> /\ UNCHANGED draft /\ Unchanged
GiveUp ==
    /\ Settled /\ pending # <<>>
    /\ Proceed(pending[1]) /\ UNCHANGED restoring
    /\ "number" \in DOMAIN pending[1] => draft' = Clean /\ pending' = <<>>

(* Signing out, or a role that no longer reaches the console. *)
LoseAccess ==
    /\ access /\ access' = FALSE
    /\ page' = (IF page = "console" THEN "home" ELSE page)
    /\ IF page = "console" THEN draft' = Clean /\ pending' = <<>> ELSE UNCHANGED <<draft, pending>>
    /\ UNCHANGED <<entries, pos, travels, historyIndex, restoring, approved>>

HistoryNext ==
    \/ Land /\ UNCHANGED backs
    \/ BackFromDetail /\ UNCHANGED mistaken
    \/ /\ \/ \E p \in Pages : OpenPage(p)
          \/ \E by \in {-2, -1, 1} : UserTravels(by)
          \/ TravelLost \/ Edit \/ StartSave \/ EndSave \/ KeepEditing \/ GiveUp \/ LoseAccess
       /\ UNCHANGED <<mistaken, backs>>

HistorySpec == HistoryInit /\ [][HistoryNext]_historyVars

----------------------------------------------------------------------------
DraftLost == draft.dirty /\ ~draft'.dirty
Consent == pending # <<>> \/ draft.busy \/ access' # access

(* A draft is given up only when the user says so, has saved it, or has lost
   the console: no way of leaving the page goes around the question, also when
   the browser's buttons are pressed again while a journey is under way.  Two
   exceptions: from where a journey has arrived that the page took for another,
   as nothing in onPopState tells the user's from the guard's own; and once the
   page's own way back from a Live has left an entry without a number, as a
   journey between two entries that read as the same number is taken for none. *)
DraftsLeftByConsent ==
    [][DraftLost /\ ~mistaken' /\ backs = 0 => Consent]_historyVars
=============================================================================
