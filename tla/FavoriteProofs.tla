---------------------------- MODULE FavoriteProofs ----------------------------
(***************************************************************************)
(* Theorems about FavoriteSync, for any set of Lives, any number of        *)
(* requests, clicks, faults and snapshots.                                 *)
(***************************************************************************)
EXTENDS FavoriteSync, TLAPS

\* What the helpers on the browser's state and the slots make of well-typed values.
LEMMA StateHelpers ==
    ASSUME NEW s \in FavoritesState, NEW l \in Lives, NEW wish \in Wish
    PROVE  /\ Sending(s, l) \in FavoritesState
           /\ [s EXCEPT !.intent[l] = wish] \in FavoritesState
           /\ Succeeded(s, l, wish) \in FavoritesState
           /\ Failed(s, l) \in FavoritesState
<1> USE DEF FavoritesState
<1>1. Sending(s, l) \in FavoritesState
  BY DEF Sending
<1>2. ASSUME NEW w \in Wish \union {"none"}
      PROVE  [s EXCEPT !.intent[l] = w] \in FavoritesState
  <2>1. [s.intent EXCEPT ![l] = w] \in [Lives -> Wish \union {"none"}]
    OBVIOUS
  <2> QED
    BY <2>1
<1>3. Succeeded(s, l, wish) \in FavoritesState
  BY DEF Succeeded, Applied
<1>4. Failed(s, l) \in FavoritesState
  <2>1. (IF s.failures = 3 THEN 3 ELSE s.failures + 1) \in 0..3
    OBVIOUS
  <2> QED
    BY <2>1 DEF Failed
<1> QED
  BY <1>1, <1>2, <1>3, <1>4

\* A snapshot is a state without wishes.
LEMMA SnapshotState ==
    \A ids \in SUBSET Lives : Snapshot(ids) \in FavoritesState
  BY DEF Snapshot, FavoritesState

\* The unused slot is a request.
LEMMA NoRequestType == NoRequest \in Request
  BY FavoriteConstants DEF NoRequest, Request, Phase, Wish

\* Ending the session leaves requests and the snapshot well-typed.
LEMMA EndSessionType ==
    ASSUME TypeOK, EndSession
    PROVE  /\ session' \in BOOLEAN
           /\ requests' \in [Slots -> Request]
           /\ me' \in [phase : {"none", "sent", "read"}, ids : SUBSET Lives, known : BOOLEAN]
<1>1. \A s \in Slots : [requests[s] EXCEPT !.phase = "denied"] \in Request
  BY DEF TypeOK, Request, Phase
<1>2. requests' \in [Slots -> Request]
  BY <1>1, NoRequestType DEF TypeOK, EndSession
<1> QED
  BY <1>2 DEF TypeOK, EndSession, Unknown

\* The first page load has its types.
LEMMA TypeCorrectInit == Init => TypeOK
<1> SUFFICES ASSUME Init PROVE TypeOK
  OBVIOUS
<1>1. view \in FavoritesState /\ ref \in FavoritesState
  BY SnapshotState DEF Init
<1>2. requests \in [Slots -> Request]
  BY NoRequestType DEF Init
<1>3. me \in [phase : {"none", "sent", "read"}, ids : SUBSET Lives, known : BOOLEAN]
  BY DEF Init, NoSnapshot
<1>4. clicks \in 0..MaxClicks /\ faults \in 0..MaxFaults /\ snapshots \in 0..MaxSnapshots
  BY FavoriteConstants DEF Init
<1> QED
  BY <1>1, <1>2, <1>3, <1>4 DEF Init, TypeOK

\* The bounded counters stay within their bounds.
LEMMA Counters ==
    ASSUME TypeOK
    PROVE  /\ Fault => faults' \in 0..MaxFaults
           /\ clicks < MaxClicks => clicks + 1 \in 0..MaxClicks
           /\ snapshots < MaxSnapshots => snapshots + 1 \in 0..MaxSnapshots
  BY FavoriteConstants DEF TypeOK, Fault

\* Every step keeps them.
LEMMA TypeCorrectNext == TypeOK /\ [Next]_vars => TypeOK'
<1> SUFFICES ASSUME TypeOK, [Next]_vars PROVE TypeOK'
  OBVIOUS
<1> USE DEF TypeOK
<1>q. ASSUME NEW state \in FavoritesState, Queue(state)
      PROVE  view' \in FavoritesState /\ ref' \in FavoritesState
  BY <1>q DEF Queue
<1>s. ASSUME NEW s \in Slots, NEW l \in Lives, NEW wish \in Wish, NEW chained \in BOOLEAN,
             Send(s, l, wish, chained)
      PROVE  requests' \in [Slots -> Request]
  BY <1>s DEF Send, Request, Phase
<1>r. ASSUME NEW s \in Slots, Release(s) PROVE requests' \in [Slots -> Request]
  BY <1>r, NoRequestType DEF Release
<1>p. ASSUME NEW s \in Slots, NEW phase \in Phase,
             requests' = [requests EXCEPT ![s].phase = phase]
      PROVE  requests' \in [Slots -> Request]
  BY <1>p DEF Request
<1>a. Anonymous \in FavoritesState /\ SignOut(view) \in FavoritesState
  BY SnapshotState DEF Anonymous, SignOut
<1>f. \A s \in Slots : Failed(view, requests[s].live) \in FavoritesState
  BY StateHelpers DEF Request, Wish
<1>1. CASE Commit
  BY <1>1 DEF Commit
<1>2. ASSUME NEW l \in Lives, Click(l) PROVE TypeOK'
  <2> DEFINE wish == IF Effective(ref, l) THEN "no" ELSE "yes"
  <2>1. wish \in Wish
    BY DEF Wish
  <2>2. /\ [view EXCEPT !.intent[l] = wish] \in FavoritesState
        /\ [ref EXCEPT !.intent[l] = wish] \in FavoritesState
    BY <2>1, StateHelpers
  <2>3. view' \in FavoritesState /\ ref' \in FavoritesState
    <3>1. CASE l \in ref.inFlight
      BY <1>2, <2>2, <3>1 DEF Click
    <3>2. CASE l \notin ref.inFlight
      <4>1. /\ Sending([view EXCEPT !.intent[l] = wish], l) \in FavoritesState
            /\ Sending([ref EXCEPT !.intent[l] = wish], l) \in FavoritesState
        BY <2>1, <2>2, StateHelpers
      <4> QED
        BY <1>2, <3>2, <4>1 DEF Click
    <3> QED
      BY <3>1, <3>2
  <2>4. requests' \in [Slots -> Request]
    <3>1. CASE l \in ref.inFlight
      BY <1>2, <3>1 DEF Click
    <3>2. CASE l \notin ref.inFlight
      <4>1. PICK s \in Slots : Send(s, l, wish, FALSE)
        BY <1>2, <3>2 DEF Click
      <4> QED
        BY <4>1, <2>1, <1>s
    <3> QED
      BY <3>1, <3>2
  <2> QED
    BY <1>2, <2>3, <2>4, Counters DEF Click
<1>3. ASSUME NEW s \in Slots, Serve(s) PROVE TypeOK'
  <2>1. requests' \in [Slots -> Request]
    BY <1>3, <1>r, <1>p DEF Serve, Phase
  <2>2. db' \subseteq Lives
    BY <1>3 DEF Serve, Applied, Request
  <2> QED
    BY <1>3, <2>1, <2>2 DEF Serve
<1>4. ASSUME NEW s \in Slots, RequestFails(s) PROVE TypeOK'
  <2>1. requests' \in [Slots -> Request]
    BY <1>4, <1>p DEF RequestFails, Phase
  <2> QED
    BY <1>4, <2>1, Counters DEF RequestFails
<1>5. ASSUME NEW s \in Slots, TimesOut(s) PROVE TypeOK'
  <2>1. requests' \in [Slots -> Request]
    BY <1>5, <1>p DEF TimesOut, Phase
  <2>2. view' \in FavoritesState /\ ref' \in FavoritesState
    BY <1>5, <1>f, <1>q DEF TimesOut
  <2> QED
    BY <1>5, <2>1, <2>2, Counters DEF TimesOut
<1>6. ASSUME NEW s \in Slots, ReplyDone(s) PROVE TypeOK'
  <2> DEFINE r == requests[s]
             latest == ref.intent[r.live]
             again == latest # "none" /\ latest # r.wish
             settled == Succeeded(view, r.live, r.wish)
  <2>1. r.live \in Lives /\ r.wish \in Wish /\ latest \in Wish \union {"none"}
    BY DEF Request, FavoritesState
  <2>2. settled \in FavoritesState /\ Sending(settled, r.live) \in FavoritesState
    BY <2>1, StateHelpers
  <2>3. view' \in FavoritesState /\ ref' \in FavoritesState
    BY <1>6, <1>q, <2>2 DEF ReplyDone
  <2>4. requests' \in [Slots -> Request]
    <3>1. CASE again /\ signedIn
      <4>1. Send(s, r.live, latest, TRUE) /\ latest \in Wish
        BY <1>6, <3>1, <2>1 DEF ReplyDone
      <4> QED
        BY <4>1, <2>1, <1>s
    <3>2. CASE ~(again /\ signedIn)
      BY <1>6, <3>2, <1>r DEF ReplyDone
    <3> QED
      BY <3>1, <3>2
  <2>5. pending' \in BOOLEAN
    BY <1>6 DEF ReplyDone
  <2> QED
    BY <1>6, <2>3, <2>4, <2>5 DEF ReplyDone
<1>7. ASSUME NEW s \in Slots, ReplyFailed(s) PROVE TypeOK'
  BY <1>7, <1>f, <1>q, <1>r DEF ReplyFailed
<1>8. ASSUME NEW s \in Slots, ReplyDenied(s) PROVE TypeOK'
  <2>1. SignOut(Failed(view, requests[s].live)) \in FavoritesState
    BY <1>f, <1>a DEF SignOut
  <2>2. view' \in FavoritesState /\ ref' \in FavoritesState
    BY <1>8, <1>f, <2>1, <1>q DEF ReplyDenied
  <2>3. requests' \in [Slots -> Request]
    BY <1>8, <1>r DEF ReplyDenied
  <2> QED
    BY <1>8, <2>2, <2>3 DEF ReplyDenied
<1>9. CASE SessionExpires
  BY <1>9, EndSessionType, Counters DEF SessionExpires
<1>10. CASE OpenFavorites
  BY <1>10, Counters DEF OpenFavorites, NoSnapshot, Unknown
<1>11. CASE ReadSnapshot
  BY <1>11 DEF ReadSnapshot
<1>12. CASE TakeSnapshot
  <2>1. view' \in FavoritesState /\ ref' \in FavoritesState
    BY <1>12, <1>a, <1>q, SnapshotState DEF TakeSnapshot
  <2> QED
    BY <1>12, <2>1 DEF TakeSnapshot, NoSnapshot
<1>13. CASE SnapshotFails
  BY <1>13, Counters DEF SnapshotFails, NoSnapshot
<1>14. CASE Logout
  <2>1. view' \in FavoritesState /\ ref' \in FavoritesState
    BY <1>14, <1>a, <1>q DEF Logout
  <2> QED
    BY <1>14, <2>1, EndSessionType, Counters DEF Logout
<1>15. CASE Login
  <2>1. view' \in FavoritesState /\ ref' \in FavoritesState
    BY <1>15, SnapshotState, <1>q DEF Login
  <2> QED
    BY <1>15, <2>1, Counters DEF Login
<1>16. CASE UNCHANGED vars
  BY <1>16 DEF vars
<1> QED
  BY <1>1, <1>2, <1>3, <1>4, <1>5, <1>6, <1>7, <1>8, <1>9, <1>10, <1>11, <1>12, <1>13,
     <1>14, <1>15, <1>16 DEF Next, Respond

(* Every variable keeps its type, whatever the environment does. *)
THEOREM FavoriteTypeCorrect == Spec => []TypeOK
  BY TypeCorrectInit, TypeCorrectNext, PTL DEF Spec

----------------------------------------------------------------------------
(* Spinning stars *)

\* A request that is only marked otherwise is awaited as before.
LEMMA EndSessionAwaited ==
    ASSUME TypeOK, EndSession, NEW s \in Slots
    PROVE  /\ Awaited(s)' <=> Awaited(s)
           /\ Awaited(s) => requests'[s].live = requests[s].live
  BY DEF TypeOK, EndSession, Awaited, NoRequest, Request

\* No step leaves a star spinning without a request.
LEMMA SpinnerNext == TypeOK /\ SpinnerHasRequest /\ [Next]_vars => SpinnerHasRequest'
<1> SUFFICES ASSUME TypeOK, SpinnerHasRequest, [Next]_vars,
                    NEW l \in Lives, l \in view'.inFlight
             PROVE  \E s \in Slots : Awaited(s)' /\ requests'[s].live = l
  BY TypeCorrectNext DEF SpinnerHasRequest, TypeOK, FavoritesState
<1> USE DEF SpinnerHasRequest, TypeOK
<1>a. ASSUME l \in view.inFlight,
             \A s \in Slots : Awaited(s) => Awaited(s)' /\ requests'[s].live = requests[s].live
      PROVE  \E s \in Slots : Awaited(s)' /\ requests'[s].live = l
  BY <1>a
<1>b. ASSUME NEW t \in Slots, l \in view.inFlight, l # requests[t].live,
             \A s \in Slots \ {t} : requests'[s] = requests[s]
      PROVE  \E s \in Slots : Awaited(s)' /\ requests'[s].live = l
  BY <1>b DEF Awaited
<1>1. CASE Commit
  BY <1>1, <1>a DEF Commit, Awaited
<1>2. ASSUME NEW k \in Lives, Click(k)
      PROVE  \E s \in Slots : Awaited(s)' /\ requests'[s].live = l
  <2>1. CASE k \in ref.inFlight
    BY <1>2, <2>1, <1>a DEF Click, FavoritesState, Awaited
  <2>2. CASE k \notin ref.inFlight
    <3> DEFINE wish == IF Effective(ref, k) THEN "no" ELSE "yes"
    <3>1. PICK s \in Slots : Free(s) /\ Send(s, k, wish, FALSE)
      BY <1>2, <2>2 DEF Click
    <3>2. Awaited(s)' /\ requests'[s].live = k
      BY <3>1 DEF Send, Awaited
    <3>3. l = k \/ l \in view.inFlight
      <4>1. view' = Sending([view EXCEPT !.intent[k] = wish], k)
        BY <1>2, <2>2 DEF Click
      <4>2. [view EXCEPT !.intent[k] = wish].inFlight = view.inFlight
        BY DEF FavoritesState
      <4>3. [view EXCEPT !.intent[k] = wish] \in FavoritesState
        BY StateHelpers DEF Wish
      <4> QED
        BY <4>1, <4>2, <4>3 DEF Sending, FavoritesState
    <3>4. \A t \in Slots : Awaited(t) => Awaited(t)' /\ requests'[t].live = requests[t].live
      BY <3>1 DEF Send, Awaited, Free
    <3> QED
      BY <3>2, <3>3, <3>4, <1>a
  <2> QED
    BY <2>1, <2>2
<1>3. ASSUME NEW s \in Slots, Serve(s)
      PROVE  \E t \in Slots : Awaited(t)' /\ requests'[t].live = l
  BY <1>3, <1>a DEF Serve, Awaited, Release, Request
<1>4. ASSUME NEW s \in Slots, RequestFails(s)
      PROVE  \E t \in Slots : Awaited(t)' /\ requests'[t].live = l
  BY <1>4, <1>a DEF RequestFails, Awaited, Request
<1>5. ASSUME NEW s \in Slots, TimesOut(s)
      PROVE  \E t \in Slots : Awaited(t)' /\ requests'[t].live = l
  <2>1. l \in view.inFlight /\ l # requests[s].live
    BY <1>5 DEF TimesOut, Queue, Failed, FavoritesState
  <2> QED
    BY <1>5, <2>1, <1>b DEF TimesOut
<1>6. ASSUME NEW s \in Slots, ReplyDone(s)
      PROVE  \E t \in Slots : Awaited(t)' /\ requests'[t].live = l
  <2> DEFINE r == requests[s]
             latest == ref.intent[r.live]
             again == latest # "none" /\ latest # r.wish
             settled == Succeeded(view, r.live, r.wish)
  <2>1. CASE again /\ signedIn
    <3>1. Send(s, r.live, latest, TRUE) /\ view' = Sending(settled, r.live)
      BY <1>6, <2>1 DEF ReplyDone, Queue
    <3>2. Awaited(s)' /\ requests'[s].live = r.live
      BY <3>1 DEF Send, Awaited
    <3>3. l = r.live \/ (l \in view.inFlight /\ l # r.live)
      BY <3>1 DEF Sending, Succeeded
    <3>4. \A t \in Slots \ {s} : requests'[t] = requests[t]
      BY <3>1 DEF Send
    <3> QED
      BY <3>2, <3>3, <3>4, <1>b
  <2>2. CASE ~(again /\ signedIn)
    <3>1. Release(s) /\ view' = settled
      BY <1>6, <2>2 DEF ReplyDone, Queue
    <3>2. l \in view.inFlight /\ l # r.live
      BY <3>1 DEF Succeeded
    <3> QED
      BY <3>1, <3>2, <1>b DEF Release
  <2> QED
    BY <2>1, <2>2
<1>7. ASSUME NEW s \in Slots, ReplyFailed(s)
      PROVE  \E t \in Slots : Awaited(t)' /\ requests'[t].live = l
  <2>1. l \in view.inFlight /\ l # requests[s].live
    BY <1>7 DEF ReplyFailed, Queue, Failed, FavoritesState
  <2> QED
    BY <1>7, <2>1, <1>b DEF ReplyFailed, Release
<1>8. ASSUME NEW s \in Slots, ReplyDenied(s)
      PROVE  \E t \in Slots : Awaited(t)' /\ requests'[t].live = l
  <2>1. l \in view.inFlight /\ l # requests[s].live
    BY <1>8 DEF ReplyDenied, Queue, Failed, FavoritesState, SignOut, Anonymous, Snapshot
  <2> QED
    BY <1>8, <2>1, <1>b DEF ReplyDenied, Release
<1>9. CASE SessionExpires
  BY <1>9, <1>a, EndSessionAwaited DEF SessionExpires
<1>10. CASE OpenFavorites
  BY <1>10, <1>a DEF OpenFavorites, Awaited
<1>11. CASE ReadSnapshot
  BY <1>11, <1>a DEF ReadSnapshot, Awaited
<1>12. CASE TakeSnapshot
  BY <1>12, <1>a DEF TakeSnapshot, Awaited, Queue, SignOut, Anonymous, Snapshot
<1>13. CASE SnapshotFails
  BY <1>13, <1>a DEF SnapshotFails, Awaited
<1>14. CASE Logout
  BY <1>14 DEF Logout, Queue, Anonymous, Snapshot
<1>15. CASE Login
  BY <1>15 DEF Login, Queue, Snapshot
<1>16. CASE UNCHANGED vars
  BY <1>16, <1>a DEF vars, Awaited
<1> QED
  BY <1>1, <1>2, <1>3, <1>4, <1>5, <1>6, <1>7, <1>8, <1>9, <1>10, <1>11, <1>12, <1>13,
     <1>14, <1>15, <1>16 DEF Next, Respond

(* A star that spins has a request out, whatever the environment does: requests
   that overlap snapshots and new sessions, clicks before React's commit, and
   requests the server goes on with after the browser gave them up. *)
THEOREM SpinnerHasRequestAlways == Spec => []SpinnerHasRequest
<1>1. Init => SpinnerHasRequest
  BY DEF Init, SpinnerHasRequest, Snapshot
<1> QED
  BY <1>1, SpinnerNext, FavoriteTypeCorrect, PTL DEF Spec

----------------------------------------------------------------------------
(* One request for a Live, when neither a snapshot nor a click comes between a
   request and its answer.  Why it lasts: a signed-in browser's mark covers every
   request that is out, and a snapshot, which drops the marks, waits for all. *)

Orderly == "overlap" \notin Perils /\ "lag" \notin Perils

MarksCoverRequests ==
    signedIn => \A s \in Slots : Awaited(s) => requests[s].live \in view.inFlight

FlightInv ==
    /\ ref = view
    /\ me # NoSnapshot => Quiet
    /\ SingleFlight
    /\ MarksCoverRequests

\* Where no request is added, none meets another.
LEMMA FewerRequests ==
    ASSUME SingleFlight,
           \A t \in Slots : Awaited(t)' => Awaited(t) /\ requests'[t].live = requests[t].live
    PROVE  SingleFlight'
  BY DEF SingleFlight

\* A request that is released or resent in its slot leaves the others as they are.
LEMMA OneSlotChanges ==
    ASSUME TypeOK, FlightInv, NEW s \in Slots, Awaited(s), me' = me,
           \A t \in Slots \ {s} : requests'[t] = requests[t],
           Awaited(s)' => requests'[s].live = requests[s].live,
           ref' = view',
           signedIn' => signedIn /\ view.inFlight \ {requests[s].live} \subseteq view'.inFlight,
           signedIn' /\ Awaited(s)' => requests[s].live \in view'.inFlight
    PROVE  FlightInv'
<1>1. me = NoSnapshot
  BY DEF FlightInv, Quiet, Free, Awaited
<1>2. SingleFlight'
  BY FewerRequests DEF FlightInv, Awaited
<1>3. ASSUME signedIn', NEW t \in Slots, Awaited(t)'
      PROVE  requests'[t].live \in view'.inFlight
  <2>1. CASE t = s
    BY <1>3, <2>1
  <2>2. CASE t # s
    <3>1. Awaited(t) /\ requests'[t] = requests[t]
      BY <1>3, <2>2 DEF Awaited
    <3>2. requests[t].live # requests[s].live
      BY <2>2, <3>1 DEF FlightInv, SingleFlight
    <3>3. requests[t].live \in view.inFlight
      BY <1>3, <3>1 DEF FlightInv, MarksCoverRequests
    <3> QED
      BY <1>3, <3>1, <3>2, <3>3
  <2> QED
    BY <2>1, <2>2
<1> QED
  BY <1>1, <1>2, <1>3 DEF FlightInv, MarksCoverRequests

\* Nothing that the invariant speaks of changes but the phases of requests.
LEMMA PhasesChange ==
    ASSUME TypeOK, FlightInv, ref' = ref, view' = view, signedIn' => signedIn,
           me' # NoSnapshot => Quiet',
           \A t \in Slots : Awaited(t)' => Awaited(t) /\ requests'[t].live = requests[t].live
    PROVE  FlightInv'
  BY FewerRequests DEF FlightInv, MarksCoverRequests

\* Every step of an orderly browser keeps it.
LEMMA FlightNext ==
    ASSUME Orderly, TypeOK, FlightInv, [Next]_vars
    PROVE  FlightInv'
<1> USE DEF TypeOK
<1>q. ASSUME NEW state, Queue(state) PROVE view' = state /\ ref' = view'
  BY <1>q DEF Queue, Orderly
<1>1. CASE Commit
  BY <1>1 DEF Commit, FlightInv
<1>2. ASSUME NEW l \in Lives, Click(l) PROVE FlightInv'
  <2> DEFINE wish == IF Effective(ref, l) THEN "no" ELSE "yes"
             wanting == [view EXCEPT !.intent[l] = wish]
  <2>1. signedIn /\ signedIn' /\ me = NoSnapshot /\ me' = me /\ ref = view
    BY <1>2 DEF Click, Orderly, FlightInv
  <2>2. wanting.inFlight = view.inFlight /\ wanting \in FavoritesState
    BY StateHelpers DEF FavoritesState, Wish
  <2>3. CASE l \in view.inFlight
    <3>1. view' = wanting /\ ref' = view' /\ requests' = requests
      BY <1>2, <2>1, <2>3 DEF Click
    <3> QED
      BY <2>1, <2>2, <3>1, FewerRequests DEF FlightInv, MarksCoverRequests, Awaited
  <2>4. CASE l \notin view.inFlight
    <3>1. view' = Sending(wanting, l) /\ ref' = view'
      BY <1>2, <2>1, <2>4 DEF Click
    <3>2. view'.inFlight = view.inFlight \union {l}
      BY <2>2, <3>1 DEF Sending, FavoritesState
    <3>3. PICK s \in Slots : Free(s) /\ Send(s, l, wish, FALSE)
      BY <1>2, <2>1, <2>4 DEF Click
    <3>4. /\ requests'[s].live = l
          /\ \A t \in Slots \ {s} : requests'[t] = requests[t]
      BY <3>3 DEF Send
    <3>5. \A t \in Slots \ {s} : Awaited(t)' =>
              Awaited(t) /\ requests'[t].live # l /\ requests'[t].live \in view.inFlight
      BY <2>1, <2>4, <3>4 DEF FlightInv, MarksCoverRequests, Awaited
    <3>6. SingleFlight'
      BY <3>4, <3>5 DEF SingleFlight, FlightInv, Awaited
    <3>7. MarksCoverRequests'
      BY <3>2, <3>4, <3>5 DEF MarksCoverRequests
    <3> QED
      BY <2>1, <3>1, <3>6, <3>7 DEF FlightInv
  <2> QED
    BY <2>3, <2>4
<1>3. ASSUME NEW s \in Slots, Serve(s) PROVE FlightInv'
  <2>1. me' # NoSnapshot => Quiet'
    BY <1>3 DEF Serve, FlightInv, Quiet, Free
  <2> QED
    BY <1>3, <2>1, PhasesChange DEF Serve, Awaited, Release, NoRequest, Request
<1>4. ASSUME NEW s \in Slots, RequestFails(s) PROVE FlightInv'
  <2>1. me' # NoSnapshot => Quiet'
    BY <1>4 DEF RequestFails, FlightInv, Quiet, Free
  <2> QED
    BY <1>4, <2>1, PhasesChange DEF RequestFails, Awaited, Request
<1>5. ASSUME NEW s \in Slots, TimesOut(s) PROVE FlightInv'
  <2>1. view' = Failed(view, requests[s].live) /\ ref' = view'
    BY <1>5, <1>q DEF TimesOut
  <2>2. view'.inFlight = view.inFlight \ {requests[s].live}
    BY <2>1 DEF Failed, FavoritesState
  <2>3. Awaited(s) /\ ~Awaited(s)'
    BY <1>5 DEF TimesOut, Awaited, Request
  <2> QED
    BY <1>5, <2>1, <2>2, <2>3, OneSlotChanges DEF TimesOut
<1>6. ASSUME NEW s \in Slots, ReplyDone(s) PROVE FlightInv'
  <2> DEFINE r == requests[s]
             latest == ref.intent[r.live]
             again == latest # "none" /\ latest # r.wish
             settled == Succeeded(view, r.live, r.wish)
  <2>1. Awaited(s) /\ me' = me /\ signedIn' = signedIn
    BY <1>6 DEF ReplyDone, Awaited
  <2>2. settled.inFlight = view.inFlight \ {r.live}
    BY DEF Succeeded
  <2>3. CASE again /\ signedIn
    <3>1. Send(s, r.live, latest, TRUE) /\ view' = Sending(settled, r.live) /\ ref' = view'
      BY <1>6, <2>3, <1>q DEF ReplyDone
    <3>2. view'.inFlight = view.inFlight \union {r.live}
      BY <3>1, <2>2 DEF Sending, Succeeded
    <3>3. requests'[s].live = r.live /\ \A t \in Slots \ {s} : requests'[t] = requests[t]
      BY <3>1 DEF Send
    <3> QED
      BY <2>1, <3>1, <3>2, <3>3, OneSlotChanges
  <2>4. CASE ~(again /\ signedIn)
    <3>1. Release(s) /\ view' = settled /\ ref' = view'
      BY <1>6, <2>4, <1>q DEF ReplyDone
    <3>2. ~Awaited(s)' /\ \A t \in Slots \ {s} : requests'[t] = requests[t]
      BY <3>1 DEF Release, Awaited, NoRequest
    <3> QED
      BY <2>1, <2>2, <3>1, <3>2, OneSlotChanges
  <2> QED
    BY <2>3, <2>4
<1>r. ASSUME NEW s \in Slots, Release(s)
      PROVE  ~Awaited(s)' /\ \A t \in Slots \ {s} : requests'[t] = requests[t]
  BY <1>r DEF Release, Awaited, NoRequest
<1>7. ASSUME NEW s \in Slots, ReplyFailed(s) PROVE FlightInv'
  <2>1. view' = Failed(view, requests[s].live) /\ ref' = view'
    BY <1>7, <1>q DEF ReplyFailed
  <2>2. view'.inFlight = view.inFlight \ {requests[s].live}
    BY <2>1 DEF Failed, FavoritesState
  <2> QED
    BY <1>7, <1>r, <2>1, <2>2, OneSlotChanges DEF ReplyFailed, Awaited
<1>8. ASSUME NEW s \in Slots, ReplyDenied(s) PROVE FlightInv'
  <2>1. ref' = view' /\ (signedIn' => signedIn /\ view' = Failed(view, requests[s].live))
    BY <1>8, <1>q DEF ReplyDenied
  <2>2. signedIn' => view'.inFlight = view.inFlight \ {requests[s].live}
    BY <2>1 DEF Failed, FavoritesState
  <2> QED
    BY <1>8, <1>r, <2>1, <2>2, OneSlotChanges DEF ReplyDenied, Awaited
<1>e. ASSUME EndSession, me' # NoSnapshot PROVE Quiet'
  <2>1. me # NoSnapshot
    <3>1. NoSnapshot.phase # "sent"
      BY DEF NoSnapshot
    <3> QED
      BY <1>e, <3>1 DEF EndSession
  <2> QED
    BY <1>e, <2>1 DEF EndSession, Quiet, FlightInv, Free
<1>9. CASE SessionExpires
  <2>1. me' # NoSnapshot => Quiet'
    BY <1>9, <1>e DEF SessionExpires
  <2> QED
    BY <1>9, <2>1, EndSessionAwaited, PhasesChange DEF SessionExpires
<1>10. CASE OpenFavorites
  <2>1. Quiet /\ requests' = requests
    BY <1>10 DEF OpenFavorites, Orderly
  <2> QED
    BY <1>10, <2>1, PhasesChange DEF OpenFavorites, Awaited, Quiet, Free
<1>11. CASE ReadSnapshot
  <2>1. Quiet /\ requests' = requests
    BY <1>11 DEF ReadSnapshot, FlightInv, NoSnapshot
  <2> QED
    BY <1>11, <2>1, PhasesChange DEF ReadSnapshot, Awaited, Quiet, Free
<1>12. CASE TakeSnapshot
  <2>1. Quiet /\ requests' = requests /\ me' = NoSnapshot
    BY <1>12 DEF TakeSnapshot, FlightInv, NoSnapshot
  <2>2. \A t \in Slots : ~Awaited(t) /\ ~Awaited(t)'
    BY <2>1 DEF Quiet, Free, Awaited
  <2>3. ref' = view'
    BY <1>12, <1>q DEF TakeSnapshot
  <2> QED
    BY <2>1, <2>2, <2>3 DEF FlightInv, SingleFlight, MarksCoverRequests
<1>13. CASE SnapshotFails
  BY <1>13, PhasesChange DEF SnapshotFails, Awaited
<1>14. CASE Logout
  <2>1. ref' = view' /\ ~signedIn' /\ EndSession
    BY <1>14, <1>q DEF Logout
  <2>2. SingleFlight'
    BY <2>1, EndSessionAwaited, FewerRequests DEF FlightInv
  <2>3. me' # NoSnapshot => Quiet'
    BY <2>1, <1>e
  <2> QED
    BY <2>1, <2>2, <2>3 DEF FlightInv, MarksCoverRequests
<1>15. CASE Login
  <2>1. Quiet /\ requests' = requests /\ me' = me /\ ref' = view'
    BY <1>15, <1>q DEF Login, Orderly
  <2>2. \A t \in Slots : ~Awaited(t) /\ ~Awaited(t)'
    BY <2>1 DEF Quiet, Free, Awaited
  <2> QED
    BY <2>1, <2>2 DEF FlightInv, SingleFlight, MarksCoverRequests, Quiet, Free
<1>16. CASE UNCHANGED vars
  BY <1>16 DEF vars, FlightInv, SingleFlight, MarksCoverRequests, Quiet, Free, Awaited
<1> QED
  BY <1>1, <1>2, <1>3, <1>4, <1>5, <1>6, <1>7, <1>8, <1>9, <1>10, <1>11, <1>12, <1>13,
     <1>14, <1>15, <1>16 DEF Next, Respond

\* No request is out at first.
LEMMA FlightInit == Init => FlightInv
  BY DEF Init, FlightInv, SingleFlight, MarksCoverRequests, Awaited, NoRequest

LEMMA FlightInvariant ==
    ASSUME Orderly PROVE Spec => [](TypeOK /\ FlightInv)
<1>1. TypeOK /\ FlightInv /\ [Next]_vars => FlightInv'
  BY FlightNext
<1> QED
  BY <1>1, FlightInit, TypeCorrectInit, TypeCorrectNext, PTL DEF Spec

(* As the comment on flushFavoriteIntent says, at most one request is out for a
   Live, in any browser whose snapshots and clicks wait for the answers; requests
   that are given up and served late do not change that. *)
THEOREM SingleFlightWhenOrderly ==
    ASSUME Orderly PROVE Spec => []SingleFlight
  BY FlightInvariant, PTL DEF FlightInv

----------------------------------------------------------------------------
(* What is shown and what is stored, when moreover no request is served after the
   browser gave it up. *)

Settled == Orderly /\ "late" \notin Perils

WishesCoverRequests ==
    signedIn => \A s \in Slots : Awaited(s) => view.intent[requests[s].live] # "none"

DoneIsStored ==
    \A s \in Slots : requests[s].phase = "done" =>
        (requests[s].live \in db <=> requests[s].wish = "yes")

StarsAgree ==
    signedIn => \A l \in Lives : view.intent[l] = "none" => (l \in view.server <=> l \in db)

TruthInv ==
    /\ \A s \in Slots : requests[s].phase # "lost"
    /\ WishesCoverRequests
    /\ DoneIsStored
    /\ StarsAgree
    /\ me.phase = "read" /\ me.known => me.ids = db

TypeFlight == TypeOK /\ FlightInv

\* Steps that leave the database and what is shown, and at most end requests.
LEMMA NothingShown ==
    ASSUME TruthInv, db' = db, view' = view, signedIn' => signedIn,
           me'.phase = "read" /\ me'.known => me'.ids = db,
           \A s \in Slots : /\ requests'[s].phase # "lost"
                            /\ Awaited(s)' => Awaited(s) /\ requests'[s].live = requests[s].live
                            /\ requests'[s].phase = "done" => requests'[s] = requests[s]
    PROVE  TruthInv'
  BY DEF TruthInv, WishesCoverRequests, DoneIsStored, StarsAgree

\* A reply that leaves the others, all of other Lives, as they are.
LEMMA OneReply ==
    ASSUME TypeFlight, TruthInv, db' = db, me' = me, signedIn' => signedIn,
           NEW s \in Slots, Awaited(s), requests'[s].phase \notin {"lost", "done"},
           \A t \in Slots \ {s} : requests'[t] = requests[t],
           signedIn' => \A l \in Lives \ {requests[s].live} :
               /\ view'.intent[l] = view.intent[l]
               /\ l \in view'.server <=> l \in view.server,
           signedIn' /\ Awaited(s)' =>
               /\ requests'[s].live = requests[s].live
               /\ view'.intent[requests[s].live] # "none",
           signedIn' /\ view'.intent[requests[s].live] = "none" =>
               (requests[s].live \in view'.server <=> requests[s].live \in db)
    PROVE  TruthInv'
<1>1. DoneIsStored' /\ \A t \in Slots : requests'[t].phase # "lost"
  BY DEF TruthInv, DoneIsStored
<1>2. ASSUME signedIn', NEW t \in Slots, Awaited(t)'
      PROVE  view'.intent[requests'[t].live] # "none"
  <2>1. CASE t = s
    BY <1>2, <2>1
  <2>2. CASE t # s
    <3>1. Awaited(t) /\ requests'[t] = requests[t]
      BY <1>2, <2>2 DEF Awaited
    <3>2. requests[t].live # requests[s].live /\ requests[t].live \in Lives
      BY <2>2, <3>1 DEF TypeFlight, TypeOK, Request, FlightInv, SingleFlight
    <3> QED
      BY <1>2, <3>1, <3>2 DEF TruthInv, WishesCoverRequests
  <2> QED
    BY <2>1, <2>2
<1>3. StarsAgree'
  BY DEF TruthInv, StarsAgree
<1> QED
  BY <1>1, <1>2, <1>3 DEF TruthInv, WishesCoverRequests

\* What an answer makes of the browser's state, Live by Live.
LEMMA AnswersPerLive ==
    ASSUME NEW s \in FavoritesState, NEW l \in Lives, NEW wish \in Wish
    PROVE  /\ \A k \in Lives \ {l} :
                 /\ Succeeded(s, l, wish).intent[k] = s.intent[k]
                 /\ k \in Succeeded(s, l, wish).server <=> k \in s.server
           /\ Succeeded(s, l, wish).intent[l] = IF s.intent[l] = wish THEN "none" ELSE s.intent[l]
           /\ l \in Succeeded(s, l, wish).server <=> wish = "yes"
           /\ Failed(s, l).intent = s.intent /\ Failed(s, l).server = s.server
           /\ Sending(s, l).intent = s.intent /\ Sending(s, l).server = s.server
  BY DEF FavoritesState, Wish, Succeeded, Failed, Sending, Applied

\* Every step of a settled browser keeps what is shown and stored in agreement.
LEMMA TruthNext ==
    ASSUME Settled, TypeFlight, TruthInv, [Next]_vars
    PROVE  TruthInv'
<1> USE DEF TypeFlight
<1>v. ref = view
  BY DEF FlightInv
<1>t. /\ view \in FavoritesState
      /\ \A s \in Slots : requests[s] \in Request /\ requests[s].live \in Lives /\ requests[s].wish \in Wish
  BY DEF TypeOK, Request
<1>q. ASSUME NEW state, Queue(state) PROVE view' = state
  BY <1>q DEF Queue
<1>r. ASSUME NEW s \in Slots, Release(s)
      PROVE  /\ ~Awaited(s)' /\ requests'[s].phase = "free"
             /\ \A t \in Slots \ {s} : requests'[t] = requests[t]
  BY <1>r DEF Release, Awaited, NoRequest, TypeOK
<1>1. CASE Commit
  BY <1>1, <1>v DEF Commit
<1>2. ASSUME NEW l \in Lives, Click(l) PROVE TruthInv'
  <2> DEFINE wish == IF Effective(ref, l) THEN "no" ELSE "yes"
             wanting == [view EXCEPT !.intent[l] = wish]
  <2>1. signedIn /\ signedIn' /\ me = NoSnapshot /\ me' = me /\ db' = db
    BY <1>2 DEF Click, Settled, Orderly
  <2>2. /\ wanting \in FavoritesState /\ wanting.server = view.server
        /\ \A k \in Lives : wanting.intent[k] = IF k = l THEN wish ELSE view.intent[k]
    <3>1. wanting \in FavoritesState
      BY <1>t, StateHelpers DEF Wish
    <3> QED
      BY <1>t, <3>1 DEF FavoritesState
  <2>3. view'.server = view.server /\ view'.intent = wanting.intent
    <3>1. CASE l \in ref.inFlight
      BY <1>2, <2>2, <3>1 DEF Click
    <3>2. CASE l \notin ref.inFlight
      <4>1. view' = Sending(wanting, l)
        BY <1>2, <3>2 DEF Click
      <4> QED
        BY <4>1, <2>2 DEF Sending, FavoritesState
    <3> QED
      BY <3>1, <3>2
  <2>4. \A t \in Slots : \/ requests'[t] = requests[t]
                         \/ requests'[t].phase \in {"sent", "denied"} /\ requests'[t].live = l
    <3>1. CASE l \in ref.inFlight
      BY <1>2, <3>1 DEF Click
    <3>2. CASE l \notin ref.inFlight
      <4>1. PICK s \in Slots : Send(s, l, wish, FALSE)
        BY <1>2, <3>2 DEF Click
      <4> QED
        BY <4>1 DEF Send, TypeOK
    <3> QED
      BY <3>1, <3>2
  <2>5. wish # "none"
    OBVIOUS
  <2>6. WishesCoverRequests'
    BY <1>t, <2>1, <2>2, <2>3, <2>4, <2>5 DEF TruthInv, WishesCoverRequests, Awaited
  <2>7. DoneIsStored' /\ StarsAgree' /\ \A t \in Slots : requests'[t].phase # "lost"
    BY <2>1, <2>2, <2>3, <2>4, <2>5 DEF TruthInv, DoneIsStored, StarsAgree
  <2> QED
    BY <2>1, <2>6, <2>7 DEF TruthInv
<1>3. ASSUME NEW s \in Slots, Serve(s) PROVE TruthInv'
  <2>1. /\ requests[s].phase = "sent"
        /\ requests' = [requests EXCEPT ![s].phase = "done"]
        /\ db' = Applied(db, requests[s].live, requests[s].wish)
        /\ view' = view /\ signedIn' = signedIn /\ me' = me
    BY <1>3 DEF Serve, TruthInv
  <2>2. Awaited(s) /\ me = NoSnapshot
    BY <2>1 DEF Awaited, FlightInv, Quiet, Free
  <2>3. /\ requests'[s].phase = "done" /\ requests'[s].live = requests[s].live
        /\ requests'[s].wish = requests[s].wish
        /\ \A t \in Slots \ {s} : requests'[t] = requests[t]
    BY <1>t, <2>1 DEF TypeOK, Request
  <2>4. requests[s].live \in db' <=> requests[s].wish = "yes"
    BY <1>t, <2>1 DEF Applied
  <2>5. \A l \in Lives \ {requests[s].live} : l \in db' <=> l \in db
    BY <2>1 DEF Applied
  <2>6. DoneIsStored'
    <3> SUFFICES ASSUME NEW t \in Slots, requests'[t].phase = "done"
                 PROVE  requests'[t].live \in db' <=> requests'[t].wish = "yes"
      BY DEF DoneIsStored
    <3>1. CASE t = s
      BY <2>3, <2>4, <3>1
    <3>2. CASE t # s
      <4>1. requests[t].live # requests[s].live /\ requests'[t] = requests[t]
        BY <2>2, <2>3, <3>2 DEF FlightInv, SingleFlight, Awaited
      <4> QED
        BY <1>t, <2>5, <4>1 DEF TruthInv, DoneIsStored
    <3> QED
      BY <3>1, <3>2
  <2>7. signedIn => view.intent[requests[s].live] # "none"
    BY <2>2 DEF TruthInv, WishesCoverRequests
  <2>8. StarsAgree'
    BY <2>1, <2>5, <2>7 DEF TruthInv, StarsAgree
  <2>9. WishesCoverRequests'
    BY <2>1, <2>2, <2>3 DEF TruthInv, WishesCoverRequests, Awaited
  <2> QED
    BY <2>1, <2>2, <2>3, <2>6, <2>8, <2>9 DEF TruthInv, NoSnapshot
<1>4. ASSUME NEW s \in Slots, RequestFails(s) PROVE TruthInv'
  <2>1. /\ requests'[s].phase = "failed" /\ requests'[s].live = requests[s].live
        /\ \A t \in Slots \ {s} : requests'[t] = requests[t]
    BY <1>4 DEF RequestFails, TypeOK, Request
  <2> QED
    BY <1>4, <2>1, NothingShown DEF RequestFails, TruthInv, Awaited
<1>5. ASSUME NEW s \in Slots, TimesOut(s) PROVE TruthInv'
  BY <1>5 DEF TimesOut, Settled
<1>6. ASSUME NEW s \in Slots, ReplyDone(s) PROVE TruthInv'
  <2> DEFINE r == requests[s]
             latest == ref.intent[r.live]
             again == latest # "none" /\ latest # r.wish
             settled == Succeeded(view, r.live, r.wish)
  <2>1. Awaited(s) /\ me' = me /\ signedIn' = signedIn /\ db' = db
        /\ (r.live \in db <=> r.wish = "yes")
    BY <1>6 DEF ReplyDone, Awaited, TruthInv, DoneIsStored
  <2>2. /\ \A k \in Lives \ {r.live} : /\ settled.intent[k] = view.intent[k]
                                       /\ k \in settled.server <=> k \in view.server
        /\ settled.intent[r.live] = IF latest = r.wish THEN "none" ELSE latest
        /\ r.live \in settled.server <=> r.wish = "yes"
        /\ settled \in FavoritesState
    <3>1. r.live \in Lives /\ r.wish \in Wish /\ view \in FavoritesState
      BY <1>t
    <3>2. latest = view.intent[r.live]
      BY <1>v
    <3>3. settled \in FavoritesState
      BY <3>1, StateHelpers
    <3> QED
      BY <3>1, <3>2, <3>3, AnswersPerLive
  <2>3. CASE again /\ signedIn
    <3>1. Send(s, r.live, latest, TRUE) /\ view' = Sending(settled, r.live)
      BY <1>6, <2>3, <1>q DEF ReplyDone
    <3>2. view'.intent = settled.intent /\ view'.server = settled.server
      BY <1>t, <2>2, <3>1, AnswersPerLive
    <3>3. /\ requests'[s].phase \in {"sent", "denied"} /\ requests'[s].live = r.live
          /\ \A t \in Slots \ {s} : requests'[t] = requests[t]
      BY <3>1 DEF Send, TypeOK
    <3>4. view'.intent[r.live] # "none"
      BY <2>2, <2>3, <3>2
    <3> QED
      BY <2>1, <2>2, <3>2, <3>3, <3>4, OneReply
  <2>4. CASE ~(again /\ signedIn)
    <3>1. Release(s) /\ view' = settled
      BY <1>6, <2>4, <1>q DEF ReplyDone
    <3> QED
      BY <2>1, <2>2, <3>1, <1>r, OneReply
  <2> QED
    BY <2>3, <2>4
<1>7. ASSUME NEW s \in Slots, ReplyFailed(s) PROVE TruthInv'
  <2>1. view'.intent = view.intent /\ view'.server = view.server
    BY <1>7, <1>q, <1>t, AnswersPerLive DEF ReplyFailed
  <2>2. db' = db /\ me' = me /\ signedIn' = signedIn /\ Release(s)
    BY <1>7 DEF ReplyFailed
  <2>3. view'.server = view.server /\ ~Awaited(s)'
    BY <1>r, <2>1, <2>2
  <2> QED
    BY <1>r, <2>1, <2>2 DEF TruthInv, WishesCoverRequests, DoneIsStored, StarsAgree, Awaited
<1>8. ASSUME NEW s \in Slots, ReplyDenied(s) PROVE TruthInv'
  <2>1. signedIn' => signedIn /\ view'.intent = view.intent /\ view'.server = view.server
    <3>1. signedIn' => signedIn /\ view' = Failed(view, requests[s].live)
      BY <1>8, <1>q DEF ReplyDenied
    <3>2. requests[s].live \in Lives /\ requests[s].wish \in Wish /\ view \in FavoritesState
      BY <1>t
    <3> QED
      BY <3>1, <3>2, AnswersPerLive
  <2>2. db' = db /\ me' = me /\ Release(s)
    BY <1>8 DEF ReplyDenied
  <2> QED
    BY <1>r, <2>1, <2>2 DEF TruthInv, WishesCoverRequests, DoneIsStored, StarsAgree, Awaited
<1>e. ASSUME EndSession, NEW s \in Slots
      PROVE  /\ requests'[s].phase # "lost"
             /\ Awaited(s)' => Awaited(s) /\ requests'[s].live = requests[s].live
             /\ requests'[s].phase = "done" => requests'[s] = requests[s]
             /\ me'.phase = "read" /\ me'.known => me'.ids = db
  <2>1. requests'[s] = requests[s] \/ requests'[s] = [requests[s] EXCEPT !.phase = "denied"]
    BY <1>e DEF EndSession, TruthInv
  <2>2. me' = me \/ me' = Unknown
    BY <1>e DEF EndSession
  <2>3. requests'[s].phase # "lost" /\ (requests'[s].phase = "done" => requests'[s] = requests[s])
    BY <1>t, <2>1 DEF TruthInv, Request
  <2>4. me'.phase = "read" /\ me'.known => me'.ids = db
    BY <2>2 DEF TruthInv, Unknown
  <2> QED
    BY <1>e, <2>3, <2>4, EndSessionAwaited
<1>9. CASE SessionExpires
  <2>1. EndSession /\ db' = db /\ view' = view /\ signedIn' = signedIn
    BY <1>9 DEF SessionExpires
  <2>2. me'.phase = "read" /\ me'.known => me'.ids = db
    BY <2>1 DEF EndSession, TruthInv, Unknown
  <2> QED
    BY <1>e, <2>1, <2>2, NothingShown
<1>10. CASE OpenFavorites
  BY <1>10, NothingShown DEF OpenFavorites, Awaited, Unknown, NoSnapshot, TruthInv
<1>11. CASE ReadSnapshot
  BY <1>11, NothingShown DEF ReadSnapshot, Awaited, TruthInv
<1>12. CASE TakeSnapshot
  <2>1. Quiet /\ requests' = requests /\ db' = db /\ me' = NoSnapshot
    BY <1>12 DEF TakeSnapshot, FlightInv, NoSnapshot
  <2>2. \A t \in Slots : ~Awaited(t)' /\ requests'[t].phase = "free"
    BY <2>1 DEF Quiet, Free, Awaited
  <2>3. signedIn' => view' = Snapshot(db)
    BY <1>12, <1>q DEF TakeSnapshot, TruthInv
  <2> QED
    BY <2>1, <2>2, <2>3 DEF TruthInv, WishesCoverRequests, DoneIsStored, StarsAgree, Snapshot, NoSnapshot
<1>13. CASE SnapshotFails
  BY <1>13, NothingShown DEF SnapshotFails, Awaited, NoSnapshot, TruthInv
<1>14. CASE Logout
  <2>1. EndSession /\ ~signedIn' /\ db' = db
    BY <1>14 DEF Logout
  <2>2. DoneIsStored'
    BY <1>e, <2>1 DEF TruthInv, DoneIsStored
  <2>3. me'.phase = "read" /\ me'.known => me'.ids = db
    BY <2>1 DEF EndSession, TruthInv, Unknown
  <2> QED
    BY <1>e, <2>1, <2>2, <2>3 DEF TruthInv, WishesCoverRequests, StarsAgree
<1>15. CASE Login
  <2>1. Quiet /\ requests' = requests /\ me' = me /\ db' = db /\ view' = Snapshot(db)
    BY <1>15, <1>q DEF Login, Settled, Orderly
  <2>2. \A t \in Slots : ~Awaited(t)' /\ requests'[t].phase = "free"
    BY <2>1 DEF Quiet, Free, Awaited
  <2> QED
    BY <2>1, <2>2 DEF TruthInv, WishesCoverRequests, DoneIsStored, StarsAgree, Snapshot
<1>16. CASE UNCHANGED vars
  BY <1>16, NothingShown DEF vars, Awaited, TruthInv
<1> QED
  BY <1>1, <1>2, <1>3, <1>4, <1>5, <1>6, <1>7, <1>8, <1>9, <1>10, <1>11, <1>12, <1>13,
     <1>14, <1>15, <1>16 DEF Next, Respond

\* The page starts with a snapshot.
LEMMA TruthInit == Init => TruthInv
<1>1. NoRequest.phase = "free" /\ NoSnapshot.phase = "none"
  BY DEF NoRequest, NoSnapshot
<1> QED
  BY <1>1 DEF Init, TruthInv, WishesCoverRequests, DoneIsStored, StarsAgree, Awaited, Snapshot

LEMMA TruthInvariant ==
    ASSUME Settled PROVE Spec => [](TypeFlight /\ TruthInv)
<1>1. TypeFlight /\ TruthInv /\ [Next]_vars => TruthInv'
  BY TruthNext
<1>2. TypeFlight /\ [Next]_vars => TypeFlight'
  BY FlightNext, TypeCorrectNext DEF TypeFlight, Settled
<1>3. Init => TypeFlight /\ TruthInv
  BY TruthInit, FlightInit, TypeCorrectInit DEF TypeFlight
<1> QED
  BY <1>1, <1>2, <1>3, PTL DEF Spec

(* In a settled browser a star without a wish of its own shows what is stored,
   and so it does when no request is out, whatever failed on the way. *)
THEOREM QuietStarsAgreeWhenSettled ==
    ASSUME Settled PROVE Spec => []QuietStarsAgree
<1>1. TypeFlight /\ TruthInv => QuietStarsAgree
  BY DEF TruthInv, StarsAgree, QuietStarsAgree
<1> QED
  BY <1>1, TruthInvariant, PTL

(* In a settled browser no answer, refusal or expired session flips a star: only a
   click or a snapshot does. *)
THEOREM StarsFollowClicksWhenSettled ==
    ASSUME Settled PROVE Spec => StarsFollowClicks
<1> DEFINE Follow == signedIn /\ signedIn' /\ clicks' = clicks /\ me' = me /\ snapshots' = snapshots
                => \A l \in Lives : Effective(view, l)' = Effective(view, l)
<1>1. ASSUME TypeFlight, TruthInv, [Next]_vars PROVE Follow
  <2> SUFFICES ASSUME signedIn, signedIn', clicks' = clicks, me' = me, snapshots' = snapshots,
                      NEW l \in Lives
               PROVE  Effective(view, l)' = Effective(view, l)
    OBVIOUS
  <2>t. /\ view \in FavoritesState /\ ref = view
        /\ \A s \in Slots : requests[s].live \in Lives /\ requests[s].wish \in Wish
        /\ clicks \in Nat /\ snapshots \in Nat
    BY <1>1, FavoriteConstants DEF TypeFlight, TypeOK, FlightInv, Request
  <2>q. ASSUME NEW state, Queue(state) PROVE view' = state
    BY <2>q DEF Queue
  <2>1. ASSUME view'.intent[l] = view.intent[l], view'.server = view.server
        PROVE  Effective(view, l)' = Effective(view, l)
    BY <2>1 DEF Effective
  <2>2. ASSUME NEW s \in Slots, ReplyDone(s)
        PROVE  Effective(view, l)' = Effective(view, l)
    <3> DEFINE r == requests[s]
               settled == Succeeded(view, r.live, r.wish)
    <3>1. r.live \in Lives /\ r.wish \in Wish
      BY <2>t
    <3>2. view'.intent = settled.intent /\ view'.server = settled.server
      <4>1. view' = settled \/ view' = Sending(settled, r.live)
        BY <2>2, <2>q DEF ReplyDone
      <4>2. settled \in FavoritesState
        BY <2>t, <3>1, StateHelpers
      <4> QED
        BY <4>1, <4>2, <3>1, AnswersPerLive
    <3>3. CASE l # r.live
      BY <2>t, <3>1, <3>2, <3>3, AnswersPerLive DEF Effective
    <3>4. CASE l = r.live
      <4>1. view.intent[l] # "none"
        BY <1>1, <2>2, <3>4 DEF TruthInv, WishesCoverRequests, Awaited, ReplyDone
      <4>2. /\ view'.intent[l] = IF view.intent[l] = r.wish THEN "none" ELSE view.intent[l]
            /\ l \in view'.server <=> r.wish = "yes"
        BY <2>t, <3>1, <3>2, <3>4, AnswersPerLive
      <4> QED
        BY <4>1, <4>2 DEF Effective
    <3> QED
      BY <3>3, <3>4
  <2>3. ASSUME NEW s \in Slots, ReplyFailed(s) \/ ReplyDenied(s)
        PROVE  Effective(view, l)' = Effective(view, l)
    <3>1. view' = Failed(view, requests[s].live)
      BY <2>3, <2>q DEF ReplyFailed, ReplyDenied
    <3> QED
      BY <2>1, <2>t, <3>1, AnswersPerLive
  <2>4. ASSUME NEW s \in Slots, TimesOut(s)
        PROVE  Effective(view, l)' = Effective(view, l)
    BY <2>4 DEF TimesOut, Settled
  <2>5. ~Login /\ ~TakeSnapshot /\ ~Logout /\ \A k \in Lives : ~Click(k)
    <3>1. Login => snapshots' = snapshots + 1
      BY DEF Login
    <3>2. \A k \in Lives : Click(k) => clicks' = clicks + 1
      BY DEF Click
    <3>3. Logout => ~signedIn'
      BY DEF Logout
    <3>4. TakeSnapshot => me.phase = "read" /\ me' = NoSnapshot
      BY DEF TakeSnapshot
    <3>5. NoSnapshot.phase # "read"
      BY DEF NoSnapshot
    <3>6. snapshots + 1 # snapshots /\ clicks + 1 # clicks
      BY <2>t
    <3> QED
      BY <3>1, <3>2, <3>3, <3>4, <3>5, <3>6
  <2>6. ASSUME view' = view PROVE Effective(view, l)' = Effective(view, l)
    BY <2>6, <2>1
  <2> QED
    BY <1>1, <2>2, <2>3, <2>4, <2>5, <2>6
       DEF Next, Respond, Commit, Serve, RequestFails, SessionExpires, OpenFavorites,
           ReadSnapshot, SnapshotFails, vars
<1>2. TypeFlight /\ TruthInv /\ [Next]_vars => [Follow]_vars
  BY <1>1
<1> QED
  BY <1>2, TruthInvariant, PTL DEF Spec, StarsFollowClicks
================================================================================
