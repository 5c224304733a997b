----------------------------- MODULE FavoriteSync -----------------------------
(***************************************************************************)
(* Optimistic favourites in the browser (FavoriteProvider.tsx) against the *)
(* favourites table behind /api/me/favorites.                              *)
(*                                                                         *)
(* A click changes the star at once and sends the wish; at most one        *)
(* request per Live is meant to be out, and a wish that changed meanwhile  *)
(* is sent after the answer.  A failed wish stays on display until a       *)
(* session snapshot (/api/auth/me) replaces all local state.               *)
(*                                                                         *)
(* React applies a state update to `view' when it is queued and to         *)
(* stateRef, which the handlers read, when it is committed.  A click       *)
(* commits its own updates before the next event; the updates of a         *)
(* response wait for the scheduler, and a click may come first.            *)
(***************************************************************************)
EXTENDS Naturals, FiniteSets

CONSTANTS
    Lives,        \* Lives with a star on the page
    Slots,        \* the requests that can be out at the same time
    Perils,       \* what the environment may do, see below
    MaxClicks,    \* bound on clicks
    MaxFaults,    \* bound on failing requests, expired sessions and sign-outs
    MaxSnapshots  \* bound on refreshes and logins

\* "overlap": a snapshot is fetched, or the user signs in again, while requests
\*            are out, and stars are clicked while a snapshot is on its way;
\* "lag":     a click comes between a response and its commit;
\* "late":    a request the browser gave up after 10 s is still applied.
PerilKinds == {"overlap", "lag", "late"}

ASSUME FavoriteConstants ==
    /\ Lives # {} /\ Perils \subseteq PerilKinds
    /\ MaxClicks \in Nat /\ MaxFaults \in Nat /\ MaxSnapshots \in Nat

VARIABLES
    db,        \* the user's rows in user_live_favorites
    session,   \* the server still knows the session
    signedIn,  \* what AuthProvider believes
    view,      \* FavoritesState with every queued update applied
    ref,       \* stateRef.current
    pending,   \* hasPendingFavoriteChangesRef
    requests,  \* requests[s]: the PUT or DELETE in slot s
    me,        \* the GET /api/auth/me on its way, at most one
    clicks, faults, snapshots   \* how often, for the bounds

vars == <<db, session, signedIn, view, ref, pending, requests, me, clicks, faults, snapshots>>

Wish == {"yes", "no"}

\* failures counts up to 3, when the warning appears.
FavoritesState == [server : SUBSET Lives, intent : [Lives -> Wish \union {"none"}],
                   inFlight : SUBSET Lives, failures : 0..3]

\* A request is sent, then done, denied (401) or failed, and answered; or the
\* browser gave it up and it is lost, out of its sight.
Phase == {"free", "sent", "done", "denied", "failed", "lost"}
Request == [phase : Phase, live : Lives, wish : Wish, chained : BOOLEAN]

\* An unused slot; which Live it names means nothing.
NoRequest == [phase |-> "free", live |-> CHOOSE l \in Lives : TRUE, wish |-> "no",
              chained |-> FALSE]

NoSnapshot == [phase |-> "none", ids |-> {}, known |-> FALSE]
Unknown == [phase |-> "read", ids |-> {}, known |-> FALSE]

Snapshot(ids) == [server |-> ids, intent |-> [l \in Lives |-> "none"],
                  inFlight |-> {}, failures |-> 0]
Anonymous == Snapshot({})

Effective(s, l) == IF s.intent[l] = "none" THEN l \in s.server ELSE s.intent[l] = "yes"

Applied(ids, l, wish) == IF wish = "yes" THEN ids \union {l} ELSE ids \ {l}

Awaited(s) == requests[s].phase \in {"sent", "done", "denied", "failed"}
Free(s) == requests[s].phase = "free"
Quiet == \A s \in Slots : Free(s)

Init ==
    /\ db \in SUBSET Lives
    /\ session = TRUE /\ signedIn = TRUE
    /\ view = Snapshot(db) /\ ref = view
    /\ pending = FALSE
    /\ requests = [s \in Slots |-> NoRequest]
    /\ me = NoSnapshot
    /\ clicks = 0 /\ faults = 0 /\ snapshots = 0

----------------------------------------------------------------------------
\* An update queued outside an event handler reaches stateRef with the commit.
Queue(state) ==
    /\ view' = state
    /\ ref' = IF "lag" \in Perils THEN ref ELSE state

Commit ==
    /\ ref # view
    /\ ref' = view
    /\ UNCHANGED <<db, session, signedIn, view, pending, requests, me, clicks, faults, snapshots>>

Sending(s, l) == [s EXCEPT !.inFlight = @ \union {l}]

\* A request carries the cookie of the session it was sent in: once that
\* session is gone its answer can only be a 401.
Send(s, l, wish, chained) ==
    requests' = [requests EXCEPT ![s] =
        [phase |-> IF session THEN "sent" ELSE "denied",
         live |-> l, wish |-> wish, chained |-> chained]]

Release(s) == requests' = [requests EXCEPT ![s] = NoRequest]

EndSession ==
    /\ session' = FALSE
    /\ requests' = [s \in Slots |->
           CASE requests[s].phase = "sent" -> [requests[s] EXCEPT !.phase = "denied"]
             [] requests[s].phase = "lost" -> NoRequest
             [] OTHER -> requests[s]]
    /\ me' = IF me.phase = "sent" THEN Unknown ELSE me

\* setAnonymous: the effect that clears the favourites runs only if the user
\* was still signed in.
SignOut(state) == IF signedIn THEN Anonymous ELSE state

\* Mutant: the in-flight check is forgotten.
ClickUnguarded(l) ==
    LET wish == IF Effective(ref, l) THEN "no" ELSE "yes"
        Wanting(s) == Sending([s EXCEPT !.intent[l] = wish], l)
    IN /\ signedIn
       /\ clicks < MaxClicks
       /\ "overlap" \in Perils \/ me = NoSnapshot
       /\ view' = Wanting(view) /\ ref' = Wanting(ref)
       /\ \E s \in Slots : Free(s) /\ Send(s, l, wish, FALSE)
       /\ pending' = TRUE
       /\ clicks' = clicks + 1
       /\ UNCHANGED <<db, session, signedIn, me, faults, snapshots>>

\* toggleFavorite: the opposite of what stateRef shows becomes the wish, and is
\* sent unless stateRef says that a request for this Live is out.
Click(l) ==
    LET wish == IF Effective(ref, l) THEN "no" ELSE "yes"
        Wanting(s) == [s EXCEPT !.intent[l] = wish]
    IN /\ signedIn
       /\ clicks < MaxClicks
       /\ "overlap" \in Perils \/ me = NoSnapshot
       /\ IF l \in ref.inFlight
          THEN /\ view' = Wanting(view)
               /\ ref' = Wanting(ref)
               /\ UNCHANGED requests
          ELSE /\ view' = Sending(Wanting(view), l)
               /\ ref' = Sending(Wanting(ref), l)
               /\ \E s \in Slots : Free(s) /\ Send(s, l, wish, FALSE)
       /\ pending' = TRUE
       /\ clicks' = clicks + 1
       /\ UNCHANGED <<db, session, signedIn, me, faults, snapshots>>

\* favorite_live and unfavorite_live: idempotent, in one transaction.
Serve(s) ==
    LET r == requests[s]
    IN /\ r.phase \in {"sent", "lost"}
       /\ db' = Applied(db, r.live, r.wish)
       /\ IF r.phase = "lost" THEN Release(s)
                              ELSE requests' = [requests EXCEPT ![s].phase = "done"]
       /\ UNCHANGED <<session, signedIn, view, ref, pending, me, clicks, faults, snapshots>>

Fault == faults < MaxFaults /\ faults' = faults + 1

\* The request, or only its answer, fails: network error, 404, 409 or 5xx.
RequestFails(s) ==
    /\ requests[s].phase \in {"sent", "done", "denied"}
    /\ Fault
    /\ requests' = [requests EXCEPT ![s].phase = "failed"]
    /\ UNCHANGED <<db, session, signedIn, view, ref, pending, me, clicks, snapshots>>

\* The session ends on the server.
SessionExpires ==
    /\ session
    /\ Fault
    /\ EndSession
    /\ UNCHANGED <<db, signedIn, view, ref, pending, clicks, snapshots>>

----------------------------------------------------------------------------
\* Mutant: the answer clears a wish it does not fulfil.
SucceededClears(s, l, wish) ==
    [s EXCEPT !.server = Applied(@, l, wish), !.intent[l] = "none",
              !.inFlight = @ \ {l}, !.failures = 0]

Succeeded(s, l, wish) ==
    [server |-> Applied(s.server, l, wish),
     intent |-> [s.intent EXCEPT ![l] = IF @ = wish THEN "none" ELSE @],
     inFlight |-> s.inFlight \ {l}, failures |-> 0]

\* Mutants: a failure rolls the star back; a failure leaves the star spinning.
FailedForgets(s, l) ==
    [s EXCEPT !.inFlight = @ \ {l}, !.intent[l] = "none",
              !.failures = IF @ = 3 THEN 3 ELSE @ + 1]
FailedSpins(s, l) == [s EXCEPT !.failures = IF @ = 3 THEN 3 ELSE @ + 1]

Failed(s, l) == [s EXCEPT !.inFlight = @ \ {l}, !.failures = IF @ = 3 THEN 3 ELSE @ + 1]

\* Mutant: the wish is sent again through the in-flight check, which still sees
\* the request that was just answered.
ReplyDoneNoBypass(s) ==
    LET r == requests[s]
        latest == ref.intent[r.live]
    IN /\ r.phase = "done"
       /\ pending' = (latest # "none" /\ latest # r.wish)
       /\ Queue(Succeeded(view, r.live, r.wish))
       /\ Release(s)
       /\ UNCHANGED <<db, session, signedIn, me, clicks, faults, snapshots>>

\* A 204.  Whether to send again is decided on stateRef, before the update; the
\* wish is sent past the in-flight check, and not at all when signed out.
ReplyDone(s) ==
    LET r == requests[s]
        latest == ref.intent[r.live]
        again == latest # "none" /\ latest # r.wish
        settled == Succeeded(view, r.live, r.wish)
    IN /\ r.phase = "done"
       /\ pending' = again
       /\ IF again /\ signedIn
          THEN /\ Queue(Sending(settled, r.live))
               /\ Send(s, r.live, latest, TRUE)
          ELSE /\ Queue(settled)
               /\ Release(s)
       /\ UNCHANGED <<db, session, signedIn, me, clicks, faults, snapshots>>

\* Any failure but a 401: the wish stays, nothing is sent again.
ReplyFailed(s) ==
    /\ requests[s].phase = "failed"
    /\ Queue(Failed(view, requests[s].live))
    /\ pending' = TRUE
    /\ Release(s)
    /\ UNCHANGED <<db, session, signedIn, me, clicks, faults, snapshots>>

\* The browser aborts a request after 10 s; the server may not notice.
TimesOut(s) ==
    /\ "late" \in Perils
    /\ requests[s].phase = "sent"
    /\ Fault
    /\ Queue(Failed(view, requests[s].live))
    /\ pending' = TRUE
    /\ requests' = [requests EXCEPT ![s].phase = "lost"]
    /\ UNCHANGED <<db, session, signedIn, me, clicks, snapshots>>

\* Mutant: a 401 is thrown before the state of the request is cleared.
ReplyDeniedEarly(s) ==
    /\ requests[s].phase = "denied"
    /\ signedIn' = IF requests[s].chained THEN signedIn ELSE FALSE
    /\ Queue(IF requests[s].chained THEN view ELSE SignOut(view))
    /\ pending' = TRUE
    /\ Release(s)
    /\ UNCHANGED <<db, session, me, clicks, faults, snapshots>>

\* A 401 is thrown to the click's handler, which signs out (App.tsx); the error
\* of a request sent after an answer has nobody to catch it.
ReplyDenied(s) ==
    /\ requests[s].phase = "denied"
    /\ signedIn' = IF requests[s].chained THEN signedIn ELSE FALSE
    /\ LET failed == Failed(view, requests[s].live)
       IN  Queue(IF requests[s].chained THEN failed ELSE SignOut(failed))
    /\ pending' = TRUE
    /\ Release(s)
    /\ UNCHANGED <<db, session, me, clicks, faults, snapshots>>

----------------------------------------------------------------------------
\* Entering the favourites tab: refreshSession, if something may be unsettled.
OpenFavorites ==
    /\ signedIn
    /\ pending \/ ref.failures = 3
    /\ me = NoSnapshot
    /\ "overlap" \in Perils \/ Quiet
    /\ snapshots < MaxSnapshots
    /\ me' = IF session THEN [NoSnapshot EXCEPT !.phase = "sent"] ELSE Unknown
    /\ snapshots' = snapshots + 1
    /\ UNCHANGED <<db, session, signedIn, view, ref, pending, requests, clicks, faults>>

ReadSnapshot ==
    /\ me.phase = "sent"
    /\ me' = [phase |-> "read", ids |-> db, known |-> TRUE]
    /\ UNCHANGED <<db, session, signedIn, view, ref, pending, requests, clicks, faults, snapshots>>

\* The effect on auth rebuilds the favourites from the session payload, and
\* clears hasPending only for a signed-in user.
TakeSnapshot ==
    /\ me.phase = "read"
    /\ signedIn' = me.known
    /\ Queue(IF me.known THEN Snapshot(me.ids) ELSE SignOut(view))
    /\ pending' = (pending /\ ~me.known)
    /\ me' = NoSnapshot
    /\ UNCHANGED <<db, session, requests, clicks, faults, snapshots>>

SnapshotFails ==
    /\ me # NoSnapshot
    /\ Fault
    /\ me' = NoSnapshot
    /\ UNCHANGED <<db, session, signedIn, view, ref, pending, requests, clicks, snapshots>>

Logout ==
    /\ signedIn
    /\ Fault
    /\ EndSession
    /\ signedIn' = FALSE
    /\ Queue(Anonymous)
    /\ UNCHANGED <<db, pending, clicks, snapshots>>

Login ==
    /\ ~signedIn
    /\ "overlap" \in Perils \/ (Quiet /\ me = NoSnapshot)
    /\ snapshots < MaxSnapshots
    /\ session' = TRUE /\ signedIn' = TRUE
    /\ Queue(Snapshot(db))
    /\ pending' = FALSE
    /\ snapshots' = snapshots + 1
    /\ UNCHANGED <<db, requests, me, clicks, faults>>

Respond == \E s \in Slots : ReplyDone(s) \/ ReplyFailed(s) \/ ReplyDenied(s)

Next ==
    \/ Commit
    \/ \E l \in Lives : Click(l)
    \/ \E s \in Slots : Serve(s) \/ RequestFails(s) \/ TimesOut(s)
    \/ Respond
    \/ SessionExpires \/ OpenFavorites \/ ReadSnapshot \/ TakeSnapshot \/ SnapshotFails
    \/ Logout \/ Login

Spec == Init /\ [][Next]_vars

\* The server answers or the time limit does, React commits what is queued.
Fairness ==
    /\ WF_vars(Commit)
    /\ \A s \in Slots :
        /\ WF_vars(Serve(s))
        /\ WF_vars(ReplyDone(s) \/ ReplyFailed(s) \/ ReplyDenied(s))

FairSpec == Spec /\ Fairness

----------------------------------------------------------------------------
\* Every variable has its type.
TypeOK ==
    /\ db \subseteq Lives
    /\ session \in BOOLEAN /\ signedIn \in BOOLEAN /\ pending \in BOOLEAN
    /\ view \in FavoritesState /\ ref \in FavoritesState
    /\ requests \in [Slots -> Request]
    /\ me \in [phase : {"none", "sent", "read"}, ids : SUBSET Lives, known : BOOLEAN]
    /\ clicks \in 0..MaxClicks /\ faults \in 0..MaxFaults /\ snapshots \in 0..MaxSnapshots

\* The comment on flushFavoriteIntent: for one Live only one request is out.
SingleFlight ==
    \A s, t \in Slots :
        Awaited(s) /\ Awaited(t) /\ requests[s].live = requests[t].live => s = t

\* When nothing is out, a star without a wish of its own shows what the
\* server has stored, whatever failed on the way.
QuietStarsAgree ==
    signedIn /\ Quiet =>
        \A l \in Lives : view.intent[l] = "none" => (l \in view.server <=> l \in db)

\* A star that shows a request in progress has one: it will not spin forever.
SpinnerHasRequest ==
    \A l \in view.inFlight : \E s \in Slots : Awaited(s) /\ requests[s].live = l

\* While the user is signed in (stars are shown to nobody else) a star flips only
\* for a click or a snapshot: no answer writes an old result back over the last
\* click, whatever was clicked while it was on its way (design note, 7.4).
StarsFollowClicks ==
    [][signedIn /\ signedIn' /\ clicks' = clicks /\ me' = me /\ snapshots' = snapshots
        => \A l \in Lives : Effective(view, l)' = Effective(view, l)]_vars

\* The last wish, sent or waiting for the answer to an earlier one, reaches the
\* table unless the user changes it, a request fails or the session is gone.
LastWishLands ==
    \A l \in Lives, wish \in Wish :
        view.intent[l] = wish /\ l \in view.inFlight
            ~> \/ l \in db <=> wish = "yes"
               \/ view.intent[l] # wish
               \/ view.failures > 0
               \/ ~signedIn

\* A spinning star comes to rest.
SpinnersEnd == \A l \in Lives : l \in view.inFlight ~> l \notin view.inFlight

\* The comment on reconcileFavorites: entering the favourites tab cleans up the
\* wishes that were left behind.  It can only do so while hasPending says so.
LeftoverWishIsPending ==
    \A l \in Lives :
        view.intent[l] # "none" /\ Quiet => pending
==============================================================================
