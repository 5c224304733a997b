------------------------------ MODULE BrowserProofs ------------------------------
(***************************************************************************)
(* Theorems about the browser's parts: AuthSession, for any number of      *)
(* tabs, users, requests and sessions; ConsoleHistory, for a history of    *)
(* any length; ConsoleEditor, for any Lives, setlists and writes;          *)
(* RequestCache, for caches and requests without bound; CardLists, for     *)
(* lists of any length; TourStatistics, for tours of any length; and       *)
(* PublicLists, for any Lives and groups of Lives.                         *)
(***************************************************************************)
EXTENDS AuthSession, ConsoleHistory, ConsoleEditor, RequestCache, CardLists, TourStatistics, PublicLists,
        SequenceFacts, SequenceTheorems, FiniteSetTheorems, WellFoundedInduction, TLAPS

SessionRow == [user : Users, tokens : SUBSET Nat, ended : BOOLEAN]
View == [user : Users \union {0}, session : Nat, token : Nat]
Call == [tab : Tabs \union {NoTab}, kind : {"none", "login", "me", "logout", "write"},
         user : Users \union {0}, cookie : Nat, shown : View,
         stage : {"idle", "sent", "found", "answered"}, found : Nat, valid : SUBSET Nat,
         result : {"none", "done", "refused", "expired"}, reply : View]

AuthTypeOK ==
    /\ authSessions \in Seq(SessionRow)
    /\ cookie \in Nat /\ issued \in Nat
    /\ tabs \in [Tabs -> View] /\ calls \in [Calls -> Call]
    /\ \A c \in Calls : calls[c].kind = "login" => calls[c].user \in Users

(* No token was given to two sessions. *)
TokensApart ==
    /\ \A s \in 1..Len(authSessions) : authSessions[s].tokens \subseteq 1..issued
    /\ \A s, t \in 1..Len(authSessions) : s # t => authSessions[s].tokens \intersect authSessions[t].tokens = {}

(* What a tab shows of a user, it has of one of the sessions. *)
KnownIn(S, seen) ==
    seen # Anonymous =>
        /\ seen.session \in 1..Len(S)
        /\ seen.user = S[seen.session].user /\ seen.token \in S[seen.session].tokens

(* A request found at most the session of its cookie, with all of its tokens that
   its tab can have had. *)
CallIn(S, call) ==
    /\ call.cookie \in 0..Len(S) /\ KnownIn(S, call.shown) /\ KnownIn(S, call.reply)
    /\ call.reply.session \in 0..Len(S)
    /\ call.kind \in {"write", "logout"} => call.shown # Anonymous
    /\ call.found \in {NoSession, call.cookie}
    /\ call.stage \in {"idle", "sent"} => call.found = NoSession
    /\ call.found # NoSession =>
          /\ call.valid \subseteq S[call.found].tokens
          /\ call.found = call.shown.session => call.shown.token \in call.valid
    /\ call.stage = "answered" /\ call.kind \in {"write", "logout"} =>
          /\ call.result = "done" /\ call.found # NoSession => call.shown.token \in call.valid
          /\ call.result = "refused" => call.found # NoSession /\ call.shown.token \notin call.valid

AuthInv ==
    /\ AuthTypeOK /\ TokensApart
    /\ cookie \in 0..Len(authSessions)
    /\ \A t \in Tabs : KnownIn(authSessions, tabs[t])
    /\ \A c \in Calls : CallIn(authSessions, calls[c])

----------------------------------------------------------------------------
\* No session is forgotten, none gets another user or loses a token.
Grown(S, T) ==
    /\ Len(S) <= Len(T)
    /\ \A s \in 1..Len(S) : T[s].user = S[s].user /\ S[s].tokens \subseteq T[s].tokens

\* What was known of the sessions stays true when they grow.
LEMMA GrownKnown ==
    ASSUME NEW S \in Seq(SessionRow), NEW T \in Seq(SessionRow), Grown(S, T)
    PROVE  /\ \A seen \in View : KnownIn(S, seen) => KnownIn(T, seen)
           /\ \A call \in Call : CallIn(S, call) => CallIn(T, call)
<1>1. \A seen \in View : KnownIn(S, seen) => KnownIn(T, seen)
  BY DEF Grown, KnownIn
<1>2. ASSUME NEW call \in Call, CallIn(S, call) PROVE CallIn(T, call)
  <2>1. call.shown \in View /\ call.reply \in View /\ call.found \in Nat /\ call.cookie \in Nat
    BY DEF Call
  <2>2. KnownIn(T, call.shown) /\ KnownIn(T, call.reply)
    BY <1>1, <1>2, <2>1 DEF CallIn
  <2>3. Len(S) \in Nat /\ Len(T) \in Nat
    OBVIOUS
  <2>4. call.found # NoSession => call.found \in 1..Len(S)
    BY <1>2, <2>1, <2>3 DEF CallIn, NoSession
  <2>5. call.cookie \in 0..Len(T) /\ call.reply.session \in 0..Len(T)
    BY <1>2, <2>1, <2>3 DEF CallIn, Grown, View
  <2> QED
    BY <1>2, <2>2, <2>4, <2>5 DEF CallIn, Grown
<1> QED
  BY <1>1, <1>2

\* The property the runs check follows.
LEMMA AuthInvImplies == AuthInv => WritesKeepTheirUser
<1> SUFFICES ASSUME AuthInv, NEW c \in Calls, calls[c].stage = "answered",
                    calls[c].kind \in {"write", "logout"}
             PROVE  /\ calls[c].result = "done" /\ calls[c].found # NoSession =>
                          /\ calls[c].found = calls[c].shown.session
                          /\ authSessions[calls[c].found].user = calls[c].shown.user
                    /\ calls[c].result = "refused" => calls[c].cookie # calls[c].shown.session
  BY DEF WritesKeepTheirUser
<1> DEFINE call == calls[c]
<1>1. CallIn(authSessions, call) /\ call \in Call
  BY DEF AuthInv, AuthTypeOK
<1>2. ASSUME call.result = "done", call.found # NoSession
      PROVE  call.found = call.shown.session /\ authSessions[call.found].user = call.shown.user
  <2>1. call.found \in 1..Len(authSessions)
    BY <1>1, <1>2 DEF CallIn, Call, NoSession, AuthInv, AuthTypeOK
  <2>2. call.shown.token \in authSessions[call.found].tokens
    BY <1>1, <1>2 DEF CallIn
  <2>3. /\ call.shown.session \in 1..Len(authSessions)
        /\ call.shown.user = authSessions[call.shown.session].user
        /\ call.shown.token \in authSessions[call.shown.session].tokens
    BY <1>1 DEF CallIn, KnownIn
  <2> QED
    BY <2>1, <2>2, <2>3 DEF AuthInv, TokensApart
<1>3. ASSUME call.result = "refused" PROVE call.cookie # call.shown.session
  BY <1>1, <1>3 DEF CallIn
<1> QED
  BY <1>2, <1>3

----------------------------------------------------------------------------
(* Steps *)

\* A step whose sessions grow and whose tabs and one request are in order keeps
\* the invariant.
LEMMA OneCallChanges ==
    ASSUME AuthInv, AuthTypeOK', TokensApart', Grown(authSessions, authSessions'),
           cookie' \in 0..Len(authSessions'),
           \A t \in Tabs : tabs'[t] = tabs[t] \/ KnownIn(authSessions', tabs'[t]),
           \A c \in Calls : calls'[c] = calls[c] \/ CallIn(authSessions', calls'[c])
    PROVE  AuthInv'
<1>1. authSessions \in Seq(SessionRow) /\ authSessions' \in Seq(SessionRow)
  BY DEF AuthInv, AuthTypeOK
<1>2. \A t \in Tabs : tabs[t] \in View
  BY DEF AuthInv, AuthTypeOK
<1>3. \A c \in Calls : calls[c] \in Call
  BY DEF AuthInv, AuthTypeOK
<1>4. \A t \in Tabs : KnownIn(authSessions', tabs'[t])
  BY <1>1, <1>2, GrownKnown DEF AuthInv
<1>5. \A c \in Calls : CallIn(authSessions', calls'[c])
  BY <1>1, <1>3, GrownKnown DEF AuthInv
<1> QED
  BY <1>4, <1>5 DEF AuthInv

\* Sessions that stay as they are have grown.
LEMMA SameSessions ==
    ASSUME AuthInv, authSessions' = authSessions, issued' = issued
    PROVE  /\ Grown(authSessions, authSessions') /\ TokensApart'
           /\ cookie \in 0..Len(authSessions')
  BY DEF AuthInv, AuthTypeOK, Grown, TokensApart

\* A request that only loses its tab, or is forgotten, is in order.
LEMMA CallsInOrder ==
    ASSUME AuthInv, NEW c \in Calls
    PROVE  /\ CallIn(authSessions, NoCall) /\ NoCall \in Call
           /\ calls[c] \in Call /\ CallIn(authSessions, calls[c])
           /\ [calls[c] EXCEPT !.tab = NoTab] \in Call
           /\ CallIn(authSessions, [calls[c] EXCEPT !.tab = NoTab])
<1>1. Len(authSessions) \in Nat /\ calls[c] \in Call /\ CallIn(authSessions, calls[c])
  BY DEF AuthInv, AuthTypeOK
<1>2. CallIn(authSessions, NoCall) /\ NoCall \in Call
  BY <1>1 DEF NoCall, CallIn, KnownIn, Anonymous, NoSession, NoTab, Call, View
<1>3. [calls[c] EXCEPT !.tab = NoTab] \in Call
  BY <1>1 DEF Call
<1>4. CallIn(authSessions, [calls[c] EXCEPT !.tab = NoTab])
  BY <1>1 DEF Call, CallIn
<1> QED
  BY <1>1, <1>2, <1>3, <1>4

\* A request carries what its tab shows, or showed before it was left, and the
\* cookie of the moment.
LEMMA CallFromInOrder ==
    ASSUME AuthInv, NEW t \in Tabs, NEW kind \in {"login", "me", "logout", "write"},
           NEW user \in Users \union {0}, NEW shown \in {tabs[t], Anonymous},
           kind \in {"logout", "write"} => shown # Anonymous
    PROVE  LET call == CallFrom(t, kind, user, shown)
           IN  call \in Call /\ call.kind = kind /\ call.user = user /\ CallIn(authSessions, call)
<1> DEFINE call == CallFrom(t, kind, user, shown)
<1>1. call = [tab |-> t, kind |-> kind, user |-> user, cookie |-> cookie, shown |-> shown,
              stage |-> "sent", found |-> NoSession, valid |-> {}, result |-> "none",
              reply |-> Anonymous]
  BY DEF CallFrom
<1>2. shown \in View /\ Anonymous \in View /\ KnownIn(authSessions, shown)
  BY DEF AuthInv, AuthTypeOK, Anonymous, View, NoSession, KnownIn
<1>3. call \in Call
  BY <1>1, <1>2 DEF Call, AuthInv, AuthTypeOK, NoSession
<1>4. CallIn(authSessions, call)
  <2>1. Len(authSessions) \in Nat /\ cookie \in 0..Len(authSessions)
    BY DEF AuthInv, AuthTypeOK
  <2>2. KnownIn(authSessions, Anonymous) /\ Anonymous.session = 0
    BY DEF KnownIn, Anonymous, NoSession
  <2> QED
    BY <1>1, <1>2, <2>1, <2>2 DEF CallIn, NoSession
<1> QED
  BY <1>1, <1>3, <1>4

\* The first page load has no sessions.
LEMMA AuthInitInv == AuthInit => AuthInv
<1> SUFFICES ASSUME AuthInit PROVE AuthInv
  OBVIOUS
<1>1. authSessions \in Seq(SessionRow) /\ Len(authSessions) = 0
  BY DEF AuthInit
<1>2. Anonymous \in View /\ NoCall \in Call /\ NoCall.kind # "login"
  BY DEF Anonymous, View, NoCall, Call, NoTab, NoSession
<1>3. AuthTypeOK /\ TokensApart
  BY <1>1, <1>2 DEF AuthInit, AuthTypeOK, TokensApart, NoSession
<1>4. CallIn(authSessions, NoCall) /\ KnownIn(authSessions, Anonymous)
  BY <1>1 DEF NoCall, CallIn, KnownIn, Anonymous, NoSession
<1> QED
  BY <1>1, <1>3, <1>4 DEF AuthInit, AuthInv, NoSession

\* What a request becomes that has been looked up or answered.
LEMMA LookedUp ==
    ASSUME AuthInv, NEW c \in Calls, calls[c].stage = "sent", calls[c].kind # "login"
    PROVE  LET s == IF IsOpen(calls[c].cookie) THEN calls[c].cookie ELSE NoSession
               valid == IF IsOpen(calls[c].cookie) THEN authSessions[calls[c].cookie].tokens ELSE {}
               call == [calls[c] EXCEPT !.stage = "found", !.found = s, !.valid = valid]
           IN  call \in Call /\ call.kind = calls[c].kind /\ CallIn(authSessions, call)
<1> DEFINE s == IF IsOpen(calls[c].cookie) THEN calls[c].cookie ELSE NoSession
           valid == IF IsOpen(calls[c].cookie) THEN authSessions[calls[c].cookie].tokens ELSE {}
           call == [calls[c] EXCEPT !.stage = "found", !.found = s, !.valid = valid]
<1>1. /\ Len(authSessions) \in Nat /\ calls[c] \in Call /\ CallIn(authSessions, calls[c])
      /\ authSessions \in Seq(SessionRow)
  BY DEF AuthInv, AuthTypeOK
<1>2. s # NoSession => s = calls[c].cookie /\ s \in 1..Len(authSessions) /\ valid = authSessions[s].tokens
  BY <1>1 DEF IsOpen, CallIn, NoSession, Call
<1>3. s \in Nat /\ valid \in SUBSET Nat
  <2>1. s = NoSession => valid = {}
    BY <1>1 DEF IsOpen, NoSession, CallIn, Call
  <2>2. s # NoSession => authSessions[s] \in SessionRow
    BY <1>1, <1>2
  <2> QED
    BY <1>1, <1>2, <2>1, <2>2 DEF NoSession, SessionRow
<1>4. call \in Call
  BY <1>1, <1>3 DEF Call
<1>5. /\ call.cookie = calls[c].cookie /\ call.shown = calls[c].shown /\ call.reply = calls[c].reply
      /\ call.kind = calls[c].kind /\ call.stage = "found" /\ call.found = s /\ call.valid = valid
  BY <1>1 DEF Call
<1>6. s # NoSession /\ s = call.shown.session => call.shown.token \in valid
  BY <1>1, <1>2, <1>5 DEF CallIn, KnownIn, Anonymous, NoSession
<1>7. CallIn(authSessions, call)
  BY <1>1, <1>2, <1>5, <1>6 DEF CallIn
<1> QED
  BY <1>4, <1>5, <1>7

LEMMA Answered ==
    ASSUME AuthInv, NEW c \in Calls, calls[c].stage \in {"sent", "found"},
           NEW S \in Seq(SessionRow), Grown(authSessions, S),
           NEW result \in {"done", "refused", "expired"},
           NEW reply \in View, KnownIn(S, reply), reply.session \in 0..Len(S),
           calls[c].kind \in {"write", "logout"} =>
              /\ result = "done" /\ calls[c].found # NoSession => ValidToken(calls[c])
              /\ result = "refused" => calls[c].found # NoSession /\ ~ValidToken(calls[c])
    PROVE  LET call == [calls[c] EXCEPT !.stage = "answered", !.result = result, !.reply = reply]
           IN  call \in Call /\ call.kind = calls[c].kind /\ CallIn(S, call)
<1> DEFINE call == [calls[c] EXCEPT !.stage = "answered", !.result = result, !.reply = reply]
<1>1. calls[c] \in Call /\ CallIn(authSessions, calls[c]) /\ authSessions \in Seq(SessionRow)
  BY DEF AuthInv, AuthTypeOK
<1>2. CallIn(S, calls[c])
  BY <1>1, GrownKnown
<1>3. call \in Call
  BY <1>1 DEF Call
<1>4. /\ call.cookie = calls[c].cookie /\ call.shown = calls[c].shown /\ call.reply = reply
      /\ call.kind = calls[c].kind /\ call.stage = "answered" /\ call.result = result
      /\ call.found = calls[c].found /\ call.valid = calls[c].valid
  BY <1>1 DEF Call
<1>5. CallIn(S, call)
  BY <1>2, <1>4 DEF CallIn, ValidToken
<1> QED
  BY <1>3, <1>4, <1>5

\* A new token is in no session yet.
LEMMA NewTokenIsNew ==
    AuthInv => /\ NewToken \in Nat \ {0} /\ 1..issued \subseteq 1..NewToken /\ NewToken \in 1..NewToken
               /\ \A s \in 1..Len(authSessions) : NewToken \notin authSessions[s].tokens
  BY DEF AuthInv, AuthTypeOK, TokensApart, NewToken

\* Logging in adds a session with a token of its own.
LEMMA LogInGrows ==
    ASSUME AuthInv, NEW user \in Users, issued' = NewToken,
           authSessions' = Append(authSessions, [user |-> user, tokens |-> {NewToken}, ended |-> FALSE])
    PROVE  /\ authSessions' \in Seq(SessionRow) /\ Len(authSessions') = Len(authSessions) + 1
           /\ Grown(authSessions, authSessions') /\ TokensApart'
           /\ authSessions'[Len(authSessions) + 1] = [user |-> user, tokens |-> {NewToken}, ended |-> FALSE]
<1> DEFINE n == Len(authSessions)
           row == [user |-> user, tokens |-> {NewToken}, ended |-> FALSE]
<1>1. authSessions \in Seq(SessionRow) /\ n \in Nat /\ row \in SessionRow
  BY NewTokenIsNew DEF AuthInv, AuthTypeOK, SessionRow
<1>2. /\ authSessions' \in Seq(SessionRow) /\ Len(authSessions') = n + 1
      /\ authSessions'[n + 1] = row
      /\ \A s \in 1..n : authSessions'[s] = authSessions[s]
  BY <1>1
<1>3. Grown(authSessions, authSessions')
  BY <1>1, <1>2 DEF Grown
<1>4. \A s \in 1..n : authSessions[s].tokens \subseteq 1..NewToken
  BY NewTokenIsNew DEF AuthInv, TokensApart
<1>5. \A s \in 1..(n + 1) : authSessions'[s].tokens \subseteq 1..issued'
  BY <1>1, <1>2, <1>4, NewTokenIsNew
<1>6. \A s, t \in 1..(n + 1) : s # t => authSessions'[s].tokens \intersect authSessions'[t].tokens = {}
  BY <1>1, <1>2, NewTokenIsNew DEF AuthInv, TokensApart
<1> QED
  BY <1>2, <1>3, <1>5, <1>6 DEF TokensApart

\* Giving a session another token, or ending it, makes it grow.
LEMMA RowGrows ==
    ASSUME AuthInv, NEW s \in 1..Len(authSessions), NEW row \in SessionRow,
           row.user = authSessions[s].user,
           \/ row.tokens = authSessions[s].tokens /\ issued' = issued
           \/ row.tokens = authSessions[s].tokens \union {NewToken} /\ issued' = NewToken,
           authSessions' = [authSessions EXCEPT ![s] = row]
    PROVE  /\ authSessions' \in Seq(SessionRow) /\ Len(authSessions') = Len(authSessions)
           /\ Grown(authSessions, authSessions') /\ TokensApart' /\ issued' \in Nat
           /\ authSessions'[s] = row
<1> DEFINE n == Len(authSessions)
<1>1. authSessions \in Seq(SessionRow) /\ n \in Nat /\ issued \in Nat
  BY DEF AuthInv, AuthTypeOK
<1>2. /\ authSessions' \in Seq(SessionRow) /\ Len(authSessions') = n
      /\ authSessions'[s] = row
      /\ \A t \in 1..n : t # s => authSessions'[t] = authSessions[t]
  BY <1>1
<1>3. Grown(authSessions, authSessions')
  BY <1>1, <1>2 DEF Grown
<1>4. \A t \in 1..n : authSessions[t].tokens \subseteq 1..issued /\ 1..issued \subseteq 1..issued'
  BY <1>1, NewTokenIsNew DEF AuthInv, TokensApart
<1>5. \A t \in 1..n : authSessions'[t].tokens \subseteq 1..issued'
  BY <1>1, <1>2, <1>4, NewTokenIsNew
<1>6. \A t, u \in 1..n : t # u => authSessions'[t].tokens \intersect authSessions'[u].tokens = {}
  BY <1>1, <1>2, NewTokenIsNew DEF AuthInv, TokensApart
<1> QED
  BY <1>1, <1>2, <1>3, <1>5, <1>6, NewTokenIsNew DEF TokensApart

LEMMA AuthNextInv == AuthInv /\ [AuthNext]_authVars => AuthInv'
<1> SUFFICES ASSUME AuthInv, [AuthNext]_authVars PROVE AuthInv'
  OBVIOUS
<1>t. /\ authSessions \in Seq(SessionRow) /\ cookie \in Nat /\ issued \in Nat
      /\ tabs \in [Tabs -> View] /\ calls \in [Calls -> Call]
      /\ \A c \in Calls : calls[c].kind = "login" => calls[c].user \in Users
      /\ Len(authSessions) \in Nat /\ cookie \in 0..Len(authSessions)
      /\ Anonymous \in View /\ Anonymous.session = 0
      /\ \A S : KnownIn(S, Anonymous)
  BY DEF AuthInv, AuthTypeOK, Anonymous, View, NoSession, KnownIn
<1>s. authSessions' = authSessions /\ issued' = issued =>
        Grown(authSessions, authSessions') /\ TokensApart' /\ cookie \in 0..Len(authSessions')
  BY SameSessions
\* One request becomes `call', in order with what the sessions have become.
<1>c. ASSUME NEW c \in Calls, NEW call \in Call, calls' = [calls EXCEPT ![c] = call],
             CallIn(authSessions', call), call.kind = "login" => call.user \in Users
      PROVE  /\ calls' \in [Calls -> Call]
             /\ \A d \in Calls : calls'[d].kind = "login" => calls'[d].user \in Users
             /\ \A d \in Calls : calls'[d] = calls[d] \/ CallIn(authSessions', calls'[d])
  BY <1>t, <1>c
<1>1. ASSUME NEW c \in Calls, NEW t \in Tabs, EnterPage(c, t) PROVE AuthInv'
  <2> DEFINE call == CallFrom(t, "me", 0, Anonymous)
  <2>1. call \in Call /\ call.kind = "me" /\ CallIn(authSessions, call)
    BY CallFromInOrder
  <2>2. \A d \in Calls : calls'[d] \in {call, calls[d], [calls[d] EXCEPT !.tab = NoTab]}
    BY <1>1 DEF EnterPage
  <2>3. \A d \in Calls : /\ [calls[d] EXCEPT !.tab = NoTab].kind = calls[d].kind
                         /\ [calls[d] EXCEPT !.tab = NoTab].user = calls[d].user
    BY <1>t DEF Call
  <2>4. /\ calls' \in [Calls -> Call]
        /\ \A d \in Calls : calls'[d].kind = "login" => calls'[d].user \in Users
        /\ \A d \in Calls : CallIn(authSessions, calls'[d])
    <3>1. \A d \in Calls : calls'[d] \in Call /\ CallIn(authSessions, calls'[d])
      BY <2>1, <2>2, CallsInOrder
    <3>2. \A d \in Calls : calls'[d].kind = "login" => calls'[d].user \in Users
      BY <1>t, <2>1, <2>2, <2>3
    <3>3. DOMAIN calls' = Calls /\ calls' = [d \in Calls |-> calls'[d]]
      BY <1>1 DEF EnterPage
    <3> QED
      BY <3>1, <3>2, <3>3
  <2>5. /\ authSessions' = authSessions /\ issued' = issued /\ cookie' = cookie
        /\ tabs' = [tabs EXCEPT ![t] = Anonymous]
    BY <1>1 DEF EnterPage
  <2>6. AuthTypeOK'
    BY <1>t, <2>4, <2>5 DEF AuthTypeOK
  <2> QED
    BY <1>t, <1>s, <2>4, <2>5, <2>6, OneCallChanges
<1>2. ASSUME NEW c \in Calls, NEW t \in Tabs, NEW kind \in {"login", "me", "logout", "write"},
             NEW user \in Users \union {0}, kind = "login" => user \in Users,
             SendCall(c, t, kind, user)
      PROVE  AuthInv'
  <2> DEFINE call == CallFrom(t, kind, user, tabs[t])
  <2>1. call \in Call /\ call.kind = kind /\ call.user = user /\ CallIn(authSessions, call)
    BY <1>2, CallFromInOrder DEF SendCall
  <2>2. /\ authSessions' = authSessions /\ issued' = issued /\ cookie' = cookie /\ tabs' = tabs
        /\ calls' = [calls EXCEPT ![c] = call]
    BY <1>2 DEF SendCall
  <2>3. AuthTypeOK' /\ \A d \in Calls : calls'[d] = calls[d] \/ CallIn(authSessions', calls'[d])
    BY <1>t, <1>c, <1>2, <2>1, <2>2 DEF AuthTypeOK
  <2> QED
    BY <1>t, <1>s, <2>2, <2>3, OneCallChanges
<1>3. ASSUME NEW c \in Calls, LookUp(c) PROVE AuthInv'
  <2> DEFINE s == calls[c].cookie
             found == IF IsOpen(s) THEN s ELSE NoSession
             valid == IF IsOpen(s) THEN authSessions[s].tokens ELSE {}
             call == [calls[c] EXCEPT !.stage = "found", !.found = found, !.valid = valid]
  <2>1. call \in Call /\ call.kind = calls[c].kind /\ CallIn(authSessions, call)
    BY <1>3, LookedUp DEF LookUp
  <2>2. /\ authSessions' = authSessions /\ issued' = issued /\ cookie' = cookie /\ tabs' = tabs
        /\ calls' = [calls EXCEPT ![c] = call] /\ calls[c].kind # "login"
    BY <1>3, <1>t DEF LookUp
  <2>3. AuthTypeOK' /\ \A d \in Calls : calls'[d] = calls[d] \/ CallIn(authSessions', calls'[d])
    BY <1>t, <1>c, <2>1, <2>2 DEF AuthTypeOK
  <2> QED
    BY <1>t, <1>s, <2>2, <2>3, OneCallChanges
\* An answer, given what the sessions have become.
<1>a. ASSUME NEW c \in Calls, calls[c].stage \in {"sent", "found"},
             authSessions' \in Seq(SessionRow), issued' \in Nat, cookie' = cookie, tabs' = tabs,
             Grown(authSessions, authSessions'), TokensApart',
             NEW result \in {"done", "refused", "expired"}, NEW reply \in View,
             KnownIn(authSessions', reply), reply.session \in 0..Len(authSessions'),
             calls[c].kind \in {"write", "logout"} =>
                /\ result = "done" /\ calls[c].found # NoSession => ValidToken(calls[c])
                /\ result = "refused" => calls[c].found # NoSession /\ ~ValidToken(calls[c]),
             AnswerCall(c, result, reply)
      PROVE  AuthInv'
  <2> DEFINE call == [calls[c] EXCEPT !.stage = "answered", !.result = result, !.reply = reply]
  <2>1. call \in Call /\ call.kind = calls[c].kind /\ CallIn(authSessions', call)
    <3>1. PICK S : S = authSessions'
      OBVIOUS
    <3>2. S \in Seq(SessionRow) /\ Grown(authSessions, S) /\ KnownIn(S, reply) /\ reply.session \in 0..Len(S)
      BY <1>a, <3>1
    <3>3. call \in Call /\ call.kind = calls[c].kind /\ CallIn(S, call)
      BY <1>a, <3>2, Answered, ZenonT(40)
    <3> QED
      BY <3>1, <3>3
  <2>2. calls' = [calls EXCEPT ![c] = call] /\ call.user = calls[c].user
    BY <1>a, <1>t DEF AnswerCall, Call
  <2>3. AuthTypeOK' /\ \A d \in Calls : calls'[d] = calls[d] \/ CallIn(authSessions', calls'[d])
    BY <1>t, <1>c, <1>a, <2>1, <2>2 DEF AuthTypeOK
  <2>4. cookie' \in 0..Len(authSessions')
    BY <1>t, <1>a DEF Grown
  <2> QED
    BY <1>a, <2>3, <2>4, OneCallChanges
<1>4. ASSUME NEW c \in Calls, LogIn(c) PROVE AuthInv'
  <2> DEFINE user == calls[c].user
             reply == [user |-> user, session |-> Len(authSessions) + 1, token |-> NewToken]
  <2>1. user \in Users /\ calls[c].stage = "sent" /\ calls[c].kind = "login"
    BY <1>4, <1>t DEF LogIn
  <2>2. /\ issued' = NewToken /\ AnswerCall(c, "done", reply) /\ cookie' = cookie /\ tabs' = tabs
        /\ authSessions' = Append(authSessions, [user |-> user, tokens |-> {NewToken}, ended |-> FALSE])
    BY <1>4 DEF LogIn
  <2>3. /\ authSessions' \in Seq(SessionRow) /\ Len(authSessions') = Len(authSessions) + 1
        /\ Grown(authSessions, authSessions') /\ TokensApart'
        /\ authSessions'[Len(authSessions) + 1] = [user |-> user, tokens |-> {NewToken}, ended |-> FALSE]
    BY <2>1, <2>2, LogInGrows
  <2>4. reply \in View /\ NewToken \in Nat
    BY <1>t, <2>1, NewTokenIsNew DEF View
  <2>5. KnownIn(authSessions', reply) /\ reply.session \in 0..Len(authSessions')
    BY <1>t, <2>3 DEF KnownIn
  <2> QED
    BY <2>1, <2>2, <2>3, <2>4, <2>5, <1>a
<1>r. \A s \in 1..Len(authSessions) : authSessions[s] \in SessionRow
  BY <1>t
<1>n. ASSUME NEW c \in Calls
      PROVE  calls[c].found = NoSession \/ calls[c].found \in 1..Len(authSessions)
  BY <1>t DEF AuthInv, CallIn, NoSession
<1>5. ASSUME NEW c \in Calls, Me(c) PROVE AuthInv'
  <2> DEFINE s == calls[c].found
             reply == [user |-> authSessions[s].user, session |-> s, token |-> NewToken]
             row == [authSessions[s] EXCEPT !.tokens = authSessions[s].tokens \union {NewToken}]
  <2>1. calls[c].stage = "found" /\ calls[c].kind = "me" /\ cookie' = cookie /\ tabs' = tabs
    BY <1>5 DEF Me, Handles
  <2>2. CASE s = NoSession
    <3>1. AnswerCall(c, "done", Anonymous) /\ authSessions' = authSessions /\ issued' = issued
      BY <1>5, <2>2 DEF Me
    <3> QED
      BY <1>t, <1>s, <2>1, <3>1, <1>a
  <2>3. CASE s # NoSession
    <3>1. s \in 1..Len(authSessions)
      BY <1>n, <2>3
    <3>2. Issue(s) /\ AnswerCall(c, "done", reply)
      BY <1>5, <2>3 DEF Me
    <3>3. /\ row \in SessionRow /\ row.user = authSessions[s].user
          /\ row.tokens = authSessions[s].tokens \union {NewToken}
          /\ authSessions[s].user \in Users
      BY <1>r, <3>1, NewTokenIsNew DEF SessionRow
    <3>4. authSessions' = [authSessions EXCEPT ![s] = row] /\ issued' = NewToken
      BY <3>2 DEF Issue
    <3>5. /\ authSessions' \in Seq(SessionRow) /\ Len(authSessions') = Len(authSessions)
          /\ Grown(authSessions, authSessions') /\ TokensApart' /\ issued' \in Nat
          /\ authSessions'[s] = row
      BY <3>1, <3>3, <3>4, RowGrows
    <3>6. reply \in View
      BY <3>1, <3>3, NewTokenIsNew, <1>t DEF View
    <3>7. KnownIn(authSessions', reply) /\ reply.session \in 0..Len(authSessions')
      <4>1. /\ authSessions'[s].user = authSessions[s].user
            /\ NewToken \in authSessions'[s].tokens
        BY <3>3, <3>5
      <4>2. s \in 1..Len(authSessions') /\ s \in 0..Len(authSessions')
        BY <1>t, <3>1, <3>5
      <4>3. reply.session = s /\ reply.user = authSessions[s].user /\ reply.token = NewToken
        OBVIOUS
      <4> QED
        BY <4>1, <4>2, <4>3 DEF KnownIn
    <3> QED
      BY <2>1, <3>2, <3>5, <3>6, <3>7, <1>a
  <2> QED
    BY <2>2, <2>3
<1>e. ASSUME NEW s \in 1..Len(authSessions), End(s), issued' = issued
      PROVE  /\ authSessions' \in Seq(SessionRow) /\ Len(authSessions') = Len(authSessions)
             /\ Grown(authSessions, authSessions') /\ TokensApart' /\ issued' \in Nat
  <2> DEFINE row == [authSessions[s] EXCEPT !.ended = TRUE]
  <2>1. row \in SessionRow /\ row.user = authSessions[s].user /\ row.tokens = authSessions[s].tokens
    BY <1>r DEF SessionRow
  <2> QED
    BY <1>e, <2>1, RowGrows DEF End
<1>6. ASSUME NEW c \in Calls, LogOut(c) PROVE AuthInv'
  <2> DEFINE s == calls[c].found
  <2>1. /\ calls[c].stage = "found" /\ calls[c].kind = "logout"
        /\ cookie' = cookie /\ tabs' = tabs /\ issued' = issued
    BY <1>6 DEF LogOut, Handles
  <2>2. CASE s = NoSession
    <3>1. AnswerCall(c, "done", Anonymous) /\ authSessions' = authSessions
      BY <1>6, <2>2 DEF LogOut
    <3> QED
      BY <1>t, <1>s, <2>1, <2>2, <3>1, <1>a
  <2>3. CASE s # NoSession /\ ValidToken(calls[c])
    <3>1. AnswerCall(c, "done", Anonymous) /\ End(s)
      BY <1>6, <2>3 DEF LogOut
    <3>2. s \in 1..Len(authSessions)
      BY <1>n, <2>3
    <3>3. /\ authSessions' \in Seq(SessionRow) /\ Len(authSessions') = Len(authSessions)
          /\ Grown(authSessions, authSessions') /\ TokensApart' /\ issued' \in Nat
      BY <1>e, <2>1, <3>1, <3>2
    <3> QED
      BY <1>t, <2>1, <2>3, <3>1, <3>3, <1>a
  <2>4. CASE s # NoSession /\ ~ValidToken(calls[c])
    <3>1. AnswerCall(c, "refused", Anonymous) /\ authSessions' = authSessions
      BY <1>6, <2>4 DEF LogOut
    <3> QED
      BY <1>t, <1>s, <2>1, <2>4, <3>1, <1>a
  <2> QED
    BY <2>2, <2>3, <2>4
<1>7. ASSUME NEW c \in Calls, Write(c) PROVE AuthInv'
  <2> DEFINE result == IF calls[c].found = NoSession THEN "expired"
                       ELSE IF ValidToken(calls[c]) THEN "done" ELSE "refused"
  <2>1. /\ calls[c].stage = "found" /\ AnswerCall(c, result, Anonymous)
        /\ authSessions' = authSessions /\ issued' = issued /\ cookie' = cookie /\ tabs' = tabs
    BY <1>7 DEF Write, Handles
  <2>2. /\ result \in {"done", "refused", "expired"}
        /\ result = "done" => ValidToken(calls[c])
        /\ result = "refused" => calls[c].found # NoSession /\ ~ValidToken(calls[c])
    OBVIOUS
  <2> HIDE DEF result
  <2> QED
    BY <1>t, <1>s, <2>1, <2>2, <1>a
<1>f. ASSUME NEW c \in Calls, Forget(c), authSessions' = authSessions
      PROVE  /\ calls' \in [Calls -> Call]
             /\ \A d \in Calls : calls'[d].kind = "login" => calls'[d].user \in Users
             /\ \A d \in Calls : calls'[d] = calls[d] \/ CallIn(authSessions', calls'[d])
  <2>1. NoCall \in Call /\ CallIn(authSessions', NoCall) /\ NoCall.kind # "login"
    BY <1>f, CallsInOrder DEF NoCall
  <2> QED
    BY <1>f, <1>c, <2>1 DEF Forget
<1>8. ASSUME NEW c \in Calls, Receive(c) PROVE AuthInv'
  <2>1. authSessions' = authSessions /\ issued' = issued /\ Forget(c)
    BY <1>8 DEF Receive
  <2>2. calls[c].reply \in View /\ KnownIn(authSessions, calls[c].reply)
        /\ calls[c].reply.session \in 0..Len(authSessions)
    BY <1>t DEF Call, AuthInv, CallIn
  <2>3. cookie' \in 0..Len(authSessions')
    BY <1>8, <1>t, <2>1, <2>2 DEF Receive
  <2>4. /\ tabs' \in [Tabs -> View]
        /\ \A t \in Tabs : tabs'[t] = tabs[t] \/ KnownIn(authSessions', tabs'[t])
    <3>1. tabs' = tabs \/ tabs' = [tabs EXCEPT ![calls[c].tab] = calls[c].reply]
      BY <1>8 DEF Receive
    <3> QED
      BY <1>t, <2>1, <2>2, <3>1
  <2>5. AuthTypeOK'
    BY <1>f, <1>t, <2>1, <2>3, <2>4 DEF AuthTypeOK
  <2> QED
    BY <1>f, <1>s, <2>1, <2>3, <2>4, <2>5, OneCallChanges
<1>9. ASSUME NEW c \in Calls, LoseCall(c) PROVE AuthInv'
  <2>1. /\ authSessions' = authSessions /\ issued' = issued /\ Forget(c)
        /\ cookie' = cookie /\ tabs' = tabs
    BY <1>9 DEF LoseCall
  <2>2. AuthTypeOK'
    BY <1>f, <1>t, <2>1 DEF AuthTypeOK
  <2> QED
    BY <1>f, <1>s, <2>1, <2>2, OneCallChanges
<1>10. ASSUME NEW s \in DOMAIN authSessions, SessionEnds(s) PROVE AuthInv'
  <2>1. /\ s \in 1..Len(authSessions) /\ End(s)
        /\ issued' = issued /\ cookie' = cookie /\ tabs' = tabs /\ calls' = calls
    BY <1>10, <1>t DEF SessionEnds
  <2>2. /\ authSessions' \in Seq(SessionRow) /\ Len(authSessions') = Len(authSessions)
        /\ Grown(authSessions, authSessions') /\ TokensApart' /\ issued' \in Nat
    BY <1>e, <2>1
  <2>3. AuthTypeOK'
    BY <1>t, <2>1, <2>2 DEF AuthTypeOK
  <2> QED
    BY <1>t, <2>1, <2>2, <2>3, OneCallChanges
<1>11. CASE UNCHANGED authVars
  BY <1>11 DEF authVars, AuthInv, AuthTypeOK, TokensApart
<1> QED
  <2>1. \A t \in Tabs : tabs[t].user \in Users \union {0}
    BY <1>t DEF View
  <2> QED
    BY <2>1, <1>1, <1>2, <1>3, <1>4, <1>5, <1>6, <1>7, <1>8, <1>9, <1>10, <1>11 DEF AuthNext

(* In any number of tabs, whatever the order of requests, answers, logins and page
   loads: stored writes and logouts are made as the user their tab showed, and no
   tab's token is refused because another tab was given one. *)
THEOREM WritesKeepTheirUserAlways == AuthSpec => []WritesKeepTheirUser
  BY AuthInitInv, AuthNextInv, AuthInvImplies, PTL DEF AuthSpec

----------------------------------------------------------------------------
(* ConsoleHistory: what the entries, the journey being undone and the draft have to
   do with each other. *)
HistoryEntry == [page : Pages, index : Nat \union {Unnumbered}]
HistoryJourney == [by : Int, own : BOOLEAN]
Destination == [page : Pages] \union [number : Nat]

HistoryTypeOK ==
    /\ entries \in Seq(HistoryEntry) /\ pos \in 1..Len(entries)
    /\ travels \in Seq(HistoryJourney) /\ mistaken \in BOOLEAN
    /\ page \in Pages /\ historyIndex \in Nat /\ restoring \in Nat \union {None}
    /\ approved \in BOOLEAN /\ draft \in [dirty : BOOLEAN, busy : BOOLEAN]
    /\ pending \in Seq(Destination) /\ access \in BOOLEAN /\ backs \in Nat

(* Entries are numbered by their places. *)
Numbered(es) == \A i \in 1..Len(es) : Number(es[i]) = i - 1

(* The journeys under way: at most one of them is the guard's. *)
OneOwn(q, k) == k \in 1..Len(q) /\ \A i \in 1..Len(q) : q[i].own <=> i = k
NoneOwn(q) == \A i \in 1..Len(q) : ~q[i].own
Moving(q) == \A i \in 1..Len(q) : ~q[i].own => q[i].by # 0

(* Where the browser is, and what the guard's journey is for. *)
AtRest == restoring = None => pos = historyIndex + 1
Returning ==
    restoring # None =>
        /\ ~approved /\ pos = restoring + 1 /\ historyIndex < Len(entries)
        /\ \E k \in 1..Len(travels) : OneOwn(travels, k) /\ travels[k].by = historyIndex - restoring
Repeating ==
    approved =>
        /\ ~draft.dirty
        /\ \E k \in 1..Len(travels) : OneOwn(travels, k) /\ pos + travels[k].by \in 1..Len(entries)
Travelling == Moving(travels) /\ (~approved /\ restoring = None => NoneOwn(travels))

(* The dialog goes on with an entry there is. *)
PendingKnown ==
    Len(pending) > 0 /\ pending[1] \in [number : Nat] => pending[1].number < Len(entries)

JourneysKnown == Numbered(entries) /\ AtRest /\ Returning /\ Repeating /\ Travelling /\ PendingKnown

(* Where neither exception of DraftsLeftByConsent applies. *)
Trusted == ~mistaken /\ backs = 0

HistoryInv ==
    /\ HistoryTypeOK
    /\ draft.dirty \/ pending # <<>> => Guarded
    /\ Trusted => JourneysKnown

\* The first journey arrives, or is lost.
LEMMA QueueTail ==
    ASSUME NEW q \in Seq(HistoryJourney), q # <<>>
    PROVE  /\ Head(q) = q[1] /\ q[1] \in HistoryJourney /\ Tail(q) \in Seq(HistoryJourney)
           /\ Moving(q) => Moving(Tail(q)) /\ (~q[1].own => q[1].by # 0)
           /\ NoneOwn(q) => NoneOwn(Tail(q)) /\ ~q[1].own
           /\ \A k : OneOwn(q, k) /\ q[1].own => k = 1 /\ NoneOwn(Tail(q))
           /\ \A k : OneOwn(q, k) /\ ~q[1].own => OneOwn(Tail(q), k - 1) /\ Tail(q)[k - 1] = q[k]
<1>1. Len(q) \in Nat /\ Len(q) # 0
  BY EmptySeq
<1>2. /\ Head(q) = q[1] /\ Tail(q) \in Seq(HistoryJourney) /\ Len(Tail(q)) = Len(q) - 1
      /\ \A i \in 1..(Len(q) - 1) : Tail(q)[i] = q[i + 1]
  BY HeadTailProperties
<1>3. q[1] \in HistoryJourney
  BY <1>1
<1>4. \A i \in 1..Len(Tail(q)) : i + 1 \in 1..Len(q) /\ Tail(q)[i] = q[i + 1]
  BY <1>1, <1>2
<1>5. Moving(q) => Moving(Tail(q)) /\ (~q[1].own => q[1].by # 0)
  BY <1>1, <1>4 DEF Moving
<1>6. NoneOwn(q) => NoneOwn(Tail(q)) /\ ~q[1].own
  BY <1>1, <1>4 DEF NoneOwn
<1>7. ASSUME NEW k, OneOwn(q, k), q[1].own PROVE k = 1 /\ NoneOwn(Tail(q))
  <2>1. k = 1
    BY <1>1, <1>7 DEF OneOwn
  <2>2. \A i \in 1..Len(Tail(q)) : i + 1 # k
    BY <1>1, <1>2, <2>1
  <2> QED
    BY <1>4, <1>7, <2>1, <2>2 DEF OneOwn, NoneOwn
<1>8. ASSUME NEW k, OneOwn(q, k), ~q[1].own PROVE OneOwn(Tail(q), k - 1) /\ Tail(q)[k - 1] = q[k]
  <2>1. k \in 1..Len(q) /\ k # 1
    BY <1>1, <1>8 DEF OneOwn
  <2>2. k - 1 \in 1..Len(Tail(q)) /\ (k - 1) + 1 = k
    BY <1>1, <1>2, <2>1
  <2>3. \A i \in 1..Len(Tail(q)) : i + 1 = k <=> i = k - 1
    BY <1>1, <1>2, <2>1
  <2> QED
    BY <1>4, <1>8, <2>2, <2>3 DEF OneOwn
<1> QED
  BY <1>2, <1>3, <1>5, <1>6, <1>7, <1>8

Begun(q, j, r) == r = Append(q, j)

\* A journey is begun.
LEMMA QueueAppend ==
    ASSUME NEW q \in Seq(HistoryJourney), NEW j \in HistoryJourney, NEW r, Begun(q, j, r)
    PROVE  /\ r \in Seq(HistoryJourney) /\ (Moving(q) /\ (j.own \/ j.by # 0) => Moving(r))
           /\ NoneOwn(q) /\ ~j.own => NoneOwn(r)
           /\ \A k : OneOwn(q, k) /\ ~j.own => OneOwn(r, k) /\ r[k] = q[k]
           /\ NoneOwn(q) /\ j.own => \E k \in 1..Len(r) : OneOwn(r, k) /\ r[k] = j
<1>2. /\ r \in Seq(HistoryJourney) /\ Len(r) = Len(q) + 1 /\ Len(q) \in Nat
      /\ r[Len(q) + 1] = j /\ \A i \in 1..Len(q) : r[i] = q[i]
  BY DEF Begun
<1>3. \A i \in 1..Len(r) : \/ i \in 1..Len(q) /\ i # Len(q) + 1 /\ r[i] = q[i]
                           \/ i = Len(q) + 1 /\ i \notin 1..Len(q) /\ r[i] = j
  BY <1>2
<1>4. Moving(q) /\ (j.own \/ j.by # 0) => Moving(r)
  BY <1>3 DEF Moving
<1>5. NoneOwn(q) /\ ~j.own => NoneOwn(r)
  BY <1>3 DEF NoneOwn
<1>6. ASSUME NEW k, OneOwn(q, k), ~j.own PROVE OneOwn(r, k) /\ r[k] = q[k]
  <2>1. k \in 1..Len(q) /\ k \in 1..Len(r) /\ r[k] = q[k]
    BY <1>2, <1>6 DEF OneOwn
  <2> QED
    BY <1>3, <1>6, <2>1 DEF OneOwn
<1>7. ASSUME NoneOwn(q), j.own PROVE \E k \in 1..Len(r) : OneOwn(r, k) /\ r[k] = j
  <2>1. Len(q) + 1 \in 1..Len(r)
    BY <1>2
  <2>2. OneOwn(r, Len(q) + 1)
    BY <1>3, <1>7, <2>1 DEF OneOwn, NoneOwn
  <2> QED
    BY <1>2, <2>1, <2>2
<1> QED
  BY <1>2, <1>4, <1>5, <1>6, <1>7

\* A journey of the guard's is begun.
LEMMA QueueOwn ==
    ASSUME NEW q \in Seq(HistoryJourney), NEW by \in Int
    PROVE  /\ Append(q, Journey(by, TRUE)) \in Seq(HistoryJourney)
           /\ Moving(q) => Moving(Append(q, Journey(by, TRUE)))
           /\ NoneOwn(q) =>
                 \E k \in 1..Len(Append(q, Journey(by, TRUE))) :
                     OneOwn(Append(q, Journey(by, TRUE)), k) /\ Append(q, Journey(by, TRUE))[k].by = by
<1>1. PICK j : j = Journey(by, TRUE)
  OBVIOUS
<1>2. j \in HistoryJourney /\ j.by = by /\ j.own
  BY <1>1 DEF Journey, HistoryJourney
<1>3. PICK r : Begun(q, j, r)
  BY DEF Begun
<1>4. /\ r \in Seq(HistoryJourney) /\ (Moving(q) => Moving(r))
      /\ (NoneOwn(q) => \E k \in 1..Len(r) : OneOwn(r, k) /\ r[k] = j)
  BY <1>2, <1>3, QueueAppend
<1> QED
  BY <1>1, <1>2, <1>3, <1>4 DEF Begun

LEMMA HistoryInitInv == HistoryInit => HistoryInv
<1> SUFFICES ASSUME HistoryInit PROVE HistoryInv
  OBVIOUS
<1>1. entries = <<[page |-> "home", index |-> -1]>> /\ [page |-> "home", index |-> -1] \in HistoryEntry
  BY DEF HistoryInit, Unnumbered, HistoryEntry, Pages
<1>2. entries \in Seq(HistoryEntry) /\ Len(entries) = 1 /\ entries[1].index = -1
  BY <1>1
<1>3. HistoryTypeOK
  <2>1. pos \in 1..Len(entries) /\ travels \in Seq(HistoryJourney) /\ pending \in Seq(Destination)
    BY <1>2 DEF HistoryInit
  <2>2. draft \in [dirty : BOOLEAN, busy : BOOLEAN] /\ page \in Pages
    BY DEF HistoryInit, Clean, Pages
  <2> QED
    BY <1>2, <2>1, <2>2 DEF HistoryInit, HistoryTypeOK
<1>4. JourneysKnown
  <2>1. Numbered(entries)
    BY <1>2 DEF Numbered, Number, Unnumbered
  <2>2. AtRest /\ Returning /\ Repeating
    BY DEF HistoryInit, AtRest, Returning, Repeating
  <2>3. Travelling /\ PendingKnown
    BY DEF HistoryInit, Travelling, PendingKnown, Moving, NoneOwn
  <2> QED
    BY <2>1, <2>2, <2>3 DEF JourneysKnown
<1> QED
  BY <1>3, <1>4 DEF HistoryInv, HistoryInit, Clean

\* A page pushed where the browser rests.
LEMMA PushKeeps ==
    ASSUME HistoryInv, travels = <<>>, NEW p \in Pages, Push(p)
    PROVE  /\ entries' \in Seq(HistoryEntry) /\ Len(entries') = pos + 1 /\ pos' = pos + 1
           /\ historyIndex' = historyIndex + 1 /\ travels' = travels /\ restoring' = restoring /\ approved' = approved
           /\ access' = access /\ Show(p)
           /\ Trusted => Numbered(entries')
<1>1. /\ entries \in Seq(HistoryEntry) /\ pos \in 1..Len(entries) /\ historyIndex \in Nat /\ restoring \in Nat \union {None}
      /\ (Trusted => JourneysKnown)
  BY DEF HistoryInv, HistoryTypeOK
<1>2. PICK es : es = [entries EXCEPT ![pos].index = historyIndex]
  OBVIOUS
<1>3. es \in Seq(HistoryEntry) /\ Len(es) = Len(entries)
      /\ \A i \in 1..Len(entries) : IF i = pos THEN es[i].index = historyIndex ELSE es[i] = entries[i]
  <2>1. PICK e : e = [entries[pos] EXCEPT !.index = historyIndex]
    OBVIOUS
  <2>2. e \in HistoryEntry /\ e.index = historyIndex
    <3>1. entries[pos] \in HistoryEntry
      BY <1>1
    <3> QED
      BY <1>1, <2>1, <3>1 DEF HistoryEntry
  <2>3. es = [entries EXCEPT ![pos] = e]
    BY <1>2, <2>1
  <2> QED
    BY <1>1, <2>1, <2>2, <2>3
<1>4. PICK front : front = SubSeq(es, 1, pos)
  OBVIOUS
<1>5. front \in Seq(HistoryEntry) /\ Len(front) = pos /\ \A i \in 1..pos : front[i] = es[i]
  BY <1>1, <1>3, <1>4
<1>6. PICK new : new = [page |-> p, index |-> historyIndex + 1]
  OBVIOUS
<1>7. new \in HistoryEntry
  BY <1>1, <1>6 DEF HistoryEntry
<1>8. entries' = Append(front, new)
  BY <1>2, <1>4, <1>6 DEF Push
<1>9. /\ entries' \in Seq(HistoryEntry) /\ Len(entries') = pos + 1
      /\ \A i \in 1..pos : entries'[i] = es[i]
      /\ entries'[pos + 1] = new
  BY <1>1, <1>5, <1>7, <1>8
<1>10. ASSUME Trusted PROVE Numbered(entries')
  <2>1. Numbered(entries) /\ pos = historyIndex + 1
    BY <1>1, <1>10 DEF JourneysKnown, Returning, AtRest
  <2>2. \A i \in 1..pos : Number(entries'[i]) = i - 1
    <3> TAKE i \in 1..pos
    <3>1. CASE i = pos
      <4>1. entries'[i].index = historyIndex
        BY <3>1, <1>1, <1>3, <1>9 DEF HistoryEntry
      <4> QED
        BY <4>1, <3>1, <2>1, <1>1 DEF Number, Unnumbered
    <3>2. CASE i # pos
      <4>1. entries'[i] = entries[i] /\ i \in 1..Len(entries)
        BY <3>2, <1>1, <1>3, <1>9
      <4> QED
        BY <4>1, <2>1 DEF Numbered
    <3> QED
      BY <3>1, <3>2
  <2>3. Number(entries'[pos + 1]) = pos
    BY <1>1, <1>6, <1>9, <2>1 DEF Number, Unnumbered
  <2> QED
    BY <1>1, <1>9, <2>2, <2>3 DEF Numbered
<1> QED
  BY <1>9, <1>10 DEF Push

LEMMA ShowKeeps ==
    ASSUME HistoryInv, NEW p \in Pages, Show(p)
    PROVE  /\ page' \in Pages /\ draft' \in [dirty : BOOLEAN, busy : BOOLEAN] /\ pending' \in Seq(Destination)
           /\ (draft.dirty \/ pending # <<>> => Guarded)'
           /\ draft' \in {draft, Clean} /\ pending' \in {pending, <<>>}
           /\ (page' # "console" => draft' = Clean /\ pending' = <<>>)
           /\ ~draft.dirty => ~draft'.dirty
<1>1. /\ draft \in [dirty : BOOLEAN, busy : BOOLEAN] /\ pending \in Seq(Destination)
      /\ (draft.dirty \/ pending # <<>> => Guarded)
  BY DEF HistoryInv, HistoryTypeOK
<1>2. page' \in Pages /\ page' \in {p, "home"}
  BY DEF Show, Pages
<1>3. CASE page' = "console"
  BY <1>1, <1>2, <1>3 DEF Show, Guarded
<1>4. CASE page' # "console"
  <2>1. draft' = Clean /\ pending' = <<>>
    BY <1>4 DEF Show
  <2>2. Clean \in [dirty : BOOLEAN, busy : BOOLEAN] /\ ~Clean.dirty /\ <<>> \in Seq(Destination)
    BY DEF Clean
  <2> QED
    BY <1>2, <1>4, <2>1, <2>2
<1> QED
  BY <1>3, <1>4

LEMMA PushInv ==
    ASSUME HistoryInv, travels = <<>>, NEW p \in Pages, Push(p), UNCHANGED <<mistaken, backs>>,
           Trusted => ~(Len(pending) > 0 /\ pending[1] \in [number : Nat])
    PROVE  HistoryInv'
<1>1. /\ entries' \in Seq(HistoryEntry) /\ Len(entries') = pos + 1 /\ pos' = pos + 1
      /\ historyIndex' = historyIndex + 1 /\ travels' = travels /\ restoring' = restoring /\ approved' = approved
      /\ access' = access /\ Show(p)
      /\ Trusted => Numbered(entries')
  BY PushKeeps
<1>2. /\ page' \in Pages /\ draft' \in [dirty : BOOLEAN, busy : BOOLEAN] /\ pending' \in Seq(Destination)
      /\ (draft.dirty \/ pending # <<>> => Guarded)'
      /\ pending' \in {pending, <<>>} /\ (~draft.dirty => ~draft'.dirty)
  BY <1>1, ShowKeeps
<1>3. HistoryTypeOK'
  BY <1>1, <1>2 DEF HistoryInv, HistoryTypeOK
<1>4. ASSUME Trusted' PROVE JourneysKnown'
  <2>1. Trusted /\ JourneysKnown /\ historyIndex \in Nat /\ pos \in Nat /\ Len(travels) = 0
    BY <1>4 DEF HistoryInv, HistoryTypeOK, Trusted
  <2>2. restoring = None /\ ~approved /\ pos = historyIndex + 1
    BY <2>1 DEF JourneysKnown, Returning, Repeating, AtRest
  <2> QED
    BY <1>1, <1>2, <1>4, <2>1, <2>2
       DEF JourneysKnown, AtRest, Returning, Repeating, Travelling, Moving, NoneOwn, PendingKnown
<1> QED
  BY <1>2, <1>3, <1>4 DEF HistoryInv

\* The history's own state stays; the draft is touched where the console is.
Stays == UNCHANGED <<entries, pos, travels, historyIndex, restoring, approved>>

LEMMA StaysInv ==
    ASSUME HistoryInv, Stays, page' \in Pages, access' \in BOOLEAN, backs' \in Nat, mistaken' \in BOOLEAN, Trusted' => Trusted,
           draft' \in [dirty : BOOLEAN, busy : BOOLEAN], pending' \in Seq(Destination),
           (draft.dirty \/ pending # <<>> => Guarded)',
           Trusted' => PendingKnown', approved /\ Trusted' => ~draft'.dirty
    PROVE  HistoryInv'
<1>1. HistoryTypeOK'
  BY DEF HistoryInv, HistoryTypeOK, Stays
<1>2. ASSUME Trusted' PROVE JourneysKnown'
  BY <1>2 DEF HistoryInv, Stays, JourneysKnown, Numbered, AtRest, Returning, Repeating, Travelling
<1> QED
  BY <1>1, <1>2 DEF HistoryInv
LEMMA LandStep ==
    ASSUME HistoryInv, Land, backs' = backs
    PROVE  HistoryInv' /\ (draft.dirty /\ ~draft'.dirty /\ Trusted' => pending # <<>> \/ draft.busy)
<1>0. /\ entries \in Seq(HistoryEntry) /\ pos \in 1..Len(entries) /\ travels \in Seq(HistoryJourney) /\ travels # <<>>
      /\ historyIndex \in Nat /\ restoring \in Nat \union {None} /\ page \in Pages /\ access \in BOOLEAN
      /\ backs \in Nat /\ approved \in BOOLEAN /\ mistaken \in BOOLEAN
      /\ draft \in [dirty : BOOLEAN, busy : BOOLEAN] /\ pending \in Seq(Destination)
      /\ (draft.dirty \/ pending # <<>> => Guarded) /\ (Trusted => JourneysKnown)
  BY DEF HistoryInv, HistoryTypeOK, Land
<1>t. PICK later : later = Tail(travels)
  OBVIOUS
<1>q. /\ Head(travels) = travels[1] /\ travels[1] \in HistoryJourney /\ later \in Seq(HistoryJourney)
      /\ (Moving(travels) => Moving(later) /\ (~travels[1].own => travels[1].by # 0))
      /\ (NoneOwn(travels) => NoneOwn(later))
      /\ \A k : OneOwn(travels, k) /\ travels[1].own => k = 1 /\ NoneOwn(later)
  BY <1>0, <1>t, QueueTail
<1>1. PICK by, target : by = travels[1].by /\ target = entries[pos + by]
  OBVIOUS
<1>2. /\ by \in Int /\ pos + by \in 1..Len(entries) /\ pos' = pos + by /\ target = entries[pos']
      /\ target \in HistoryEntry /\ entries' = entries /\ access' = access
  <2>1. Head(travels).by = by /\ by \in Int
    BY <1>1, <1>q DEF HistoryJourney
  <2>2. DOMAIN entries = 1..Len(entries)
    BY <1>0
  <2>3. pos' = pos + by /\ pos + by \in 1..Len(entries) /\ entries' = entries /\ access' = access
    BY <2>1, <2>2 DEF Land
  <2>4. entries[pos + by] \in HistoryEntry
    BY <1>0, <2>3
  <2> QED
    BY <1>1, <2>1, <2>3, <2>4
<1>m. /\ mistaken' \in BOOLEAN
      /\ (Trusted' => Trusted /\ JourneysKnown /\ (travels[1].own <=> (approved \/ restoring # None)))
  <2>1. mistaken' = (mistaken \/ travels[1].own # (approved \/ restoring # None))
    BY <1>q DEF Land
  <2>2. travels[1].own \in BOOLEAN
    BY <1>q DEF HistoryJourney
  <2> QED
    BY <1>0, <2>1, <2>2 DEF Trusted
<1>3. target.page \in Pages /\ Number(target) \in Nat
  BY <1>2 DEF HistoryEntry, Number, Unnumbered
<1>4. Trusted' => Number(target) = pos' - 1
  BY <1>0, <1>m, <1>2 DEF JourneysKnown, Numbered
<1>5. CASE approved
  <2>1. /\ approved' = FALSE /\ historyIndex' = Number(target) /\ Show(target.page)
        /\ travels' = later /\ restoring' = restoring
    BY <1>2, <1>t, <1>5 DEF Land, Arrived
  <2>2. /\ page' \in Pages /\ draft' \in [dirty : BOOLEAN, busy : BOOLEAN] /\ pending' \in Seq(Destination)
        /\ (draft.dirty \/ pending # <<>> => Guarded)' /\ pending' \in {pending, <<>>}
        /\ (~draft.dirty => ~draft'.dirty)
    BY <1>3, <2>1, ShowKeeps
  <2>3. HistoryTypeOK'
    <3>1. travels' \in Seq(HistoryJourney)
      BY <2>1, <1>q
    <3>2. pos' \in 1..Len(entries') /\ entries' \in Seq(HistoryEntry)
      BY <1>0, <1>2
    <3>3. historyIndex' \in Nat /\ restoring' \in Nat \union {None} /\ approved' \in BOOLEAN
      BY <1>0, <1>3, <2>1
    <3> QED
      BY <1>0, <1>m, <1>2, <2>2, <3>1, <3>2, <3>3 DEF HistoryTypeOK
  <2>4. ASSUME Trusted' PROVE JourneysKnown' /\ ~draft.dirty
    <3>1. ~draft.dirty /\ restoring = None /\ PendingKnown /\ Numbered(entries)
      BY <1>m, <1>5, <2>4 DEF JourneysKnown, Repeating, Returning
    <3>2. Moving(later) /\ NoneOwn(later)
      <4>1. travels[1].own /\ Moving(travels) /\ \E k \in 1..Len(travels) : OneOwn(travels, k)
        BY <1>m, <1>5, <2>4 DEF JourneysKnown, Repeating, Travelling
      <4> QED
        BY <1>q, <4>1
    <3>3. AtRest' /\ PendingKnown'
      BY <1>0, <1>2, <1>4, <2>1, <2>2, <2>4, <3>1 DEF AtRest, PendingKnown
    <3>4. Returning' /\ Repeating' /\ Travelling'
      BY <2>1, <3>1, <3>2 DEF Returning, Repeating, Travelling
    <3> QED
      BY <1>2, <3>1, <3>3, <3>4 DEF JourneysKnown
  <2> QED
    BY <2>2, <2>3, <2>4 DEF HistoryInv
<1>6. CASE ~approved /\ restoring # None
  <2>1. restoring' = None /\ page' = page /\ historyIndex' = historyIndex /\ draft' = draft
    BY <1>6 DEF Land
  <2>2. ASSUME Trusted'
        PROVE  /\ restoring \in 0..Len(entries) - 1 /\ pos' = historyIndex + 1 /\ Numbered(entries) /\ PendingKnown
               /\ Moving(later) /\ NoneOwn(later)
    <3>1. travels[1].own /\ JourneysKnown
      BY <1>m, <1>6, <2>2
    <3>2. PICK k \in 1..Len(travels) : OneOwn(travels, k) /\ travels[k].by = historyIndex - restoring
      BY <1>6, <3>1 DEF JourneysKnown, Returning
    <3>3. k = 1 /\ NoneOwn(later) /\ Moving(later)
      BY <1>q, <3>1, <3>2 DEF JourneysKnown, Travelling
    <3>4. by = historyIndex - restoring /\ pos = restoring + 1 /\ restoring \in Nat
      BY <1>0, <1>1, <1>6, <3>1, <3>2, <3>3 DEF JourneysKnown, Returning
    <3>5. pos' = historyIndex + 1 /\ restoring \in 0..Len(entries) - 1
      BY <1>0, <1>2, <3>4
    <3> QED
      BY <3>1, <3>3, <3>5 DEF JourneysKnown
  <2>3. CASE ~Guarded \/ (~draft.busy /\ pending = <<>> /\ ~draft.dirty)
    <3>1. approved' = TRUE /\ travels' = Append(later, Journey(restoring - historyIndex, TRUE)) /\ pending' = pending
      BY <1>2, <1>t, <1>6, <2>3 DEF Land
    <3>2. restoring - historyIndex \in Int
      BY <1>0, <1>6
    <3>3. /\ travels' \in Seq(HistoryJourney) /\ (Moving(later) => Moving(travels'))
          /\ (NoneOwn(later) =>
                 \E k \in 1..Len(travels') : OneOwn(travels', k) /\ travels'[k].by = restoring - historyIndex)
      BY <1>q, <3>1, <3>2, QueueOwn
    <3>4. HistoryTypeOK'
      BY <1>0, <1>m, <1>2, <2>1, <3>1, <3>3 DEF HistoryTypeOK
    <3>5. ~draft.dirty
      BY <1>0, <2>3
    <3>6. ASSUME Trusted' PROVE JourneysKnown'
      <4>1. PICK k \in 1..Len(travels') : OneOwn(travels', k) /\ travels'[k].by = restoring - historyIndex
        BY <2>2, <3>3, <3>6
      <4>2. pos' + travels'[k].by \in 1..Len(entries')
        BY <1>0, <1>2, <1>6, <2>2, <3>6, <4>1
      <4>3. AtRest' /\ Returning' /\ Travelling' /\ PendingKnown' /\ Numbered(entries')
        BY <1>0, <1>2, <2>1, <2>2, <3>1, <3>3, <3>6 DEF AtRest, Returning, Travelling, PendingKnown
      <4>4. Repeating'
        BY <2>1, <3>5, <4>1, <4>2 DEF Repeating
      <4> QED
        BY <4>3, <4>4 DEF JourneysKnown
    <3> QED
      BY <1>0, <2>1, <3>1, <3>4, <3>5, <3>6 DEF HistoryInv, Guarded
  <2>4. CASE ~(~Guarded \/ (~draft.busy /\ pending = <<>> /\ ~draft.dirty))
    <3>1. /\ pending' \in {pending, <<ToNumber(restoring)>>} /\ approved' = approved /\ travels' = later
      BY <1>2, <1>t, <1>6, <2>4 DEF Land
    <3>2. PICK to : to = ToNumber(restoring)
      OBVIOUS
    <3>3. to \in Destination /\ to.number = restoring
      BY <1>0, <1>6, <3>2 DEF ToNumber, Destination
    <3>4. pending' \in {pending, <<to>>}
      BY <3>1, <3>2
    <3>5. pending' \in Seq(Destination)
      <4>1. <<to>> \in Seq(Destination)
        BY <3>3
      <4> QED
        BY <1>0, <3>4, <4>1
    <3>6. HistoryTypeOK'
      <4>1. travels' \in Seq(HistoryJourney)
        BY <3>1, <1>q
      <4> QED
        BY <1>0, <1>m, <1>2, <2>1, <3>1, <3>5, <4>1 DEF HistoryTypeOK
    <3>7. ASSUME Trusted' PROVE PendingKnown'
      BY <1>0, <1>2, <2>2, <3>3, <3>4, <3>7 DEF PendingKnown
    <3>8. ASSUME Trusted' PROVE JourneysKnown'
      BY <1>0, <1>2, <1>6, <2>1, <2>2, <3>1, <3>7, <3>8 DEF JourneysKnown, AtRest, Returning, Repeating, Travelling
    <3> QED
      BY <1>0, <2>1, <2>4, <3>6, <3>8 DEF HistoryInv, Guarded
  <2> QED
    BY <2>3, <2>4
<1>7. CASE ~approved /\ restoring = None /\ Guarded /\ Number(target) # historyIndex
  <2>1. /\ restoring' = Number(target) /\ travels' = Append(later, Journey(historyIndex - Number(target), TRUE))
        /\ page' = page /\ historyIndex' = historyIndex /\ approved' = approved /\ draft' = draft /\ pending' = pending
    BY <1>2, <1>t, <1>7 DEF Land
  <2>2. historyIndex - Number(target) \in Int
    BY <1>0, <1>3
  <2>3. /\ travels' \in Seq(HistoryJourney) /\ (Moving(later) => Moving(travels'))
        /\ (NoneOwn(later) =>
               \E k \in 1..Len(travels') : OneOwn(travels', k) /\ travels'[k].by = historyIndex - Number(target))
    BY <1>q, <2>1, <2>2, QueueOwn
  <2>4. HistoryTypeOK'
    BY <1>0, <1>m, <1>2, <1>3, <2>1, <2>3 DEF HistoryTypeOK
  <2>5. ASSUME Trusted' PROVE JourneysKnown'
    <3>1. /\ Numbered(entries) /\ pos = historyIndex + 1 /\ PendingKnown
          /\ Moving(travels') /\ \E k \in 1..Len(travels') : OneOwn(travels', k) /\ travels'[k].by = historyIndex - Number(target)
      BY <1>m, <1>q, <1>7, <2>3, <2>5 DEF JourneysKnown, AtRest, Travelling
    <3>2. restoring' \in Nat /\ restoring' # None /\ ~approved'
      BY <1>3, <1>7, <2>1 DEF None
    <3>3. AtRest' /\ Repeating' /\ PendingKnown' /\ Numbered(entries')
      BY <1>2, <2>1, <3>1, <3>2 DEF AtRest, Repeating, PendingKnown
    <3>4. Travelling'
      BY <3>1, <3>2 DEF Travelling
    <3>5. pos' = restoring' + 1 /\ historyIndex' < Len(entries')
      BY <1>0, <1>2, <1>3, <1>4, <2>1, <2>5, <3>1
    <3>6. \E k \in 1..Len(travels') : OneOwn(travels', k) /\ travels'[k].by = historyIndex' - restoring'
      BY <2>1, <3>1
    <3>7. Returning'
      BY <3>2, <3>5, <3>6 DEF Returning
    <3> QED
      BY <3>3, <3>4, <3>7 DEF JourneysKnown
  <2> QED
    BY <1>0, <2>1, <2>4, <2>5 DEF HistoryInv, Guarded
<1>8. CASE ~approved /\ restoring = None /\ ~(Guarded /\ Number(target) # historyIndex)
  <2>1. /\ approved' = approved /\ historyIndex' = Number(target) /\ Show(target.page)
        /\ travels' = later /\ restoring' = restoring
    BY <1>2, <1>t, <1>8 DEF Land, Arrived
  <2>2. /\ page' \in Pages /\ draft' \in [dirty : BOOLEAN, busy : BOOLEAN] /\ pending' \in Seq(Destination)
        /\ (draft.dirty \/ pending # <<>> => Guarded)' /\ pending' \in {pending, <<>>}
        /\ (~draft.dirty => ~draft'.dirty)
    BY <1>3, <2>1, ShowKeeps
  <2>3. HistoryTypeOK'
    <3>1. travels' \in Seq(HistoryJourney)
      BY <2>1, <1>q
    <3>2. pos' \in 1..Len(entries') /\ entries' \in Seq(HistoryEntry)
      BY <1>0, <1>2
    <3>3. historyIndex' \in Nat /\ restoring' \in Nat \union {None} /\ approved' \in BOOLEAN
      BY <1>0, <1>3, <2>1
    <3> QED
      BY <1>0, <1>m, <1>2, <2>2, <3>1, <3>2, <3>3 DEF HistoryTypeOK
  <2>4. ASSUME Trusted' PROVE JourneysKnown' /\ ~draft.dirty
    <3>1. /\ Numbered(entries) /\ PendingKnown /\ pos = historyIndex + 1 /\ by # 0
          /\ Moving(later) /\ NoneOwn(later)
      BY <1>m, <1>q, <1>1, <1>8, <2>4 DEF JourneysKnown, AtRest, Travelling
    <3>2. ~Guarded
      BY <1>0, <1>2, <1>4, <1>8, <2>4, <3>1
    <3>3. restoring' = None /\ ~approved' /\ Moving(travels') /\ NoneOwn(travels')
      BY <1>8, <2>1, <3>1
    <3>4. Returning' /\ Repeating' /\ Travelling'
      BY <3>3 DEF Returning, Repeating, Travelling
    <3>5. AtRest'
      BY <1>2, <1>4, <2>1, <2>4, <3>1 DEF AtRest
    <3>6. PendingKnown'
      BY <1>2, <2>2, <3>1 DEF PendingKnown
    <3> QED
      BY <1>0, <1>2, <3>1, <3>2, <3>4, <3>5, <3>6 DEF JourneysKnown
  <2> QED
    BY <2>2, <2>3, <2>4 DEF HistoryInv
<1> QED
  BY <1>0, <1>5, <1>6, <1>7, <1>8

\* The dialog goes on with a page or with a number.
LEMMA Destinations ==
    /\ \A p \in Pages : ToPage(p) \in Destination /\ ToPage(p).page = p /\ "page" \in DOMAIN ToPage(p)
                        /\ "number" \notin DOMAIN ToPage(p) /\ ToPage(p) \notin [number : Nat]
    /\ \A to \in [page : Pages] : "page" \in DOMAIN to /\ "number" \notin DOMAIN to /\ to.page \in Pages
                                  /\ to \notin [number : Nat]
    /\ \A to \in [number : Nat] : "page" \notin DOMAIN to /\ "number" \in DOMAIN to /\ to.number \in Nat
<1>1. "page" # "number"
  OBVIOUS
<1>2. ASSUME NEW to \in [page : Pages]
      PROVE  "page" \in DOMAIN to /\ "number" \notin DOMAIN to /\ to.page \in Pages /\ to \notin [number : Nat]
  <2>1. DOMAIN to = {"page"}
    OBVIOUS
  <2>2. ASSUME to \in [number : Nat] PROVE FALSE
    <3>1. DOMAIN to = {"number"}
      BY <2>2
    <3> QED
      BY <2>1, <3>1
  <2> QED
    BY <2>1, <2>2
<1>3. ASSUME NEW to \in [number : Nat]
      PROVE  "page" \notin DOMAIN to /\ "number" \in DOMAIN to /\ to.number \in Nat
  OBVIOUS
<1>4. ASSUME NEW p \in Pages PROVE ToPage(p) \in [page : Pages] /\ ToPage(p).page = p
  BY DEF ToPage
<1> QED
  BY <1>2, <1>3, <1>4 DEF Destination

\* Where no journey is under way the browser rests at its number.
LEMMA SettledRests ==
    ASSUME HistoryInv, Settled
    PROVE  Trusted => ~approved /\ restoring = None /\ pos = historyIndex + 1
<1>1. Len(travels) = 0
  BY DEF Settled
<1> QED
  BY <1>1 DEF HistoryInv, JourneysKnown, Returning, Repeating, AtRest

\* What giving a draft up takes.
AskedFirst == DraftLost /\ ~mistaken' /\ backs = 0 => Consent

LEMMA OpenPageStep ==
    ASSUME HistoryInv, NEW p \in Pages, OpenPage(p), UNCHANGED <<mistaken, backs>>
    PROVE  HistoryInv' /\ AskedFirst
<1>1. travels = <<>> /\ Settled
  BY DEF OpenPage, Settled
<1>2. /\ page \in Pages /\ draft \in [dirty : BOOLEAN, busy : BOOLEAN] /\ pending \in Seq(Destination)
      /\ access \in BOOLEAN /\ backs \in Nat /\ (draft.dirty \/ pending # <<>> => Guarded)
      /\ mistaken \in BOOLEAN /\ (Trusted' => Trusted) /\ (Trusted => PendingKnown)
  BY DEF Trusted, HistoryInv, HistoryTypeOK, JourneysKnown
<1>3. CASE ~(p # "console" /\ Guarded)
  <2>1. Push(p) /\ ~Guarded
    BY <1>3 DEF OpenPage, Guarded
  <2>2. pending = <<>> /\ ~draft.dirty
    BY <1>2, <2>1
  <2> QED
    BY <1>1, <2>1, <2>2, PushInv DEF AskedFirst, DraftLost, Consent
<1>4. CASE p # "console" /\ Guarded
  <2>1. Leave(ToPage(p)) /\ restoring' = restoring
    BY <1>4 DEF OpenPage
  <2>2. CASE draft.busy \/ pending # <<>>
    <3>1. /\ UNCHANGED <<page, draft, pending, access>> /\ Stays
      BY <2>1, <2>2 DEF Leave, Stays
    <3> QED
      BY <1>1, <1>2, <3>1, StaysInv, SettledRests DEF Guarded, AskedFirst, DraftLost, Consent, PendingKnown, Stays
  <2>3. CASE ~(draft.busy \/ pending # <<>>) /\ draft.dirty
    <3>1. PICK to : to = ToPage(p)
      OBVIOUS
    <3>2. /\ UNCHANGED <<page, draft, access>> /\ Stays /\ pending' = <<to>>
      BY <2>1, <2>3, <3>1 DEF Leave, Stays
    <3>3. to \in Destination /\ to \notin [number : Nat]
      BY <3>1, Destinations
    <3>4. pending' \in Seq(Destination) /\ pending'[1] = to
      BY <3>2, <3>3
    <3> QED
      BY <1>1, <1>2, <1>4, <3>2, <3>3, <3>4, StaysInv, SettledRests DEF Guarded, AskedFirst, DraftLost, Consent, PendingKnown
  <2>4. CASE ~(draft.busy \/ pending # <<>>) /\ ~draft.dirty
    <3>1. Proceed(ToPage(p))
      BY <2>1, <2>4 DEF Leave
    <3>2. Push(p)
      BY <3>1, Destinations DEF Proceed
    <3> QED
      BY <1>1, <2>4, <3>2, PushInv DEF AskedFirst, DraftLost, Consent
  <2> QED
    BY <2>2, <2>3, <2>4
<1> QED
  BY <1>3, <1>4

LEMMA BackFromDetailStep ==
    ASSUME HistoryInv, BackFromDetail, mistaken' = mistaken
    PROVE  HistoryInv' /\ AskedFirst
<1>1. /\ entries \in Seq(HistoryEntry) /\ pos \in 1..Len(entries) /\ travels \in Seq(HistoryJourney)
      /\ mistaken \in BOOLEAN /\ historyIndex \in Nat /\ restoring \in Nat \union {None} /\ approved \in BOOLEAN /\ access \in BOOLEAN
      /\ backs \in Nat /\ (draft.dirty \/ pending # <<>> => Guarded)
  BY DEF HistoryInv, HistoryTypeOK
<1>2. /\ backs' \in Nat /\ backs' # 0 /\ Show("home") /\ page = "detail"
      /\ UNCHANGED <<pos, travels, historyIndex, restoring, approved, access>>
  BY <1>1 DEF BackFromDetail
<1>3. PICK e : e = [page |-> "home", index |-> Unnumbered]
  OBVIOUS
<1>4. e \in HistoryEntry
  BY <1>3 DEF HistoryEntry, Pages
<1>5. entries' = [entries EXCEPT ![pos] = e]
  BY <1>3 DEF BackFromDetail
<1>6. entries' \in Seq(HistoryEntry) /\ Len(entries') = Len(entries)
  BY <1>1, <1>4, <1>5
<1>7. /\ page' \in Pages /\ draft' \in [dirty : BOOLEAN, busy : BOOLEAN] /\ pending' \in Seq(Destination)
      /\ (draft.dirty \/ pending # <<>> => Guarded)'
  BY <1>2, ShowKeeps DEF Pages
<1>8. HistoryTypeOK'
  BY <1>1, <1>2, <1>6, <1>7 DEF HistoryTypeOK
<1>9. ~draft.dirty
  BY <1>1, <1>2 DEF Guarded
<1>10. AskedFirst
  BY <1>9 DEF AskedFirst, DraftLost
<1>11. ~Trusted'
  BY <1>2 DEF Trusted
<1> QED
  BY <1>7, <1>8, <1>10, <1>11 DEF HistoryInv

LEMMA UserTravelsStep ==
    ASSUME HistoryInv, NEW by \in {-2, -1, 1}, UserTravels(by), UNCHANGED <<mistaken, backs>>
    PROVE  HistoryInv' /\ AskedFirst
<1>1. travels \in Seq(HistoryJourney) /\ by \in Int /\ by # 0
  BY DEF HistoryInv, HistoryTypeOK
<1>2. /\ UNCHANGED <<entries, pos, page, historyIndex, restoring, approved, draft, pending, access>>
      /\ travels' = Append(travels, Journey(by, FALSE))
  BY DEF UserTravels, Travel
<1>3. /\ travels' \in Seq(HistoryJourney)
      /\ (Moving(travels) => Moving(travels')) /\ (NoneOwn(travels) => NoneOwn(travels'))
      /\ \A k : OneOwn(travels, k) => OneOwn(travels', k) /\ travels'[k] = travels[k]
  <2>1. PICK j : j = Journey(by, FALSE)
    OBVIOUS
  <2>2. j \in HistoryJourney /\ j.by = by /\ ~j.own
    BY <1>1, <2>1 DEF Journey, HistoryJourney
  <2>3. PICK q : Begun(travels, j, q)
    BY DEF Begun
  <2>4. /\ q \in Seq(HistoryJourney) /\ (Moving(travels) => Moving(q)) /\ (NoneOwn(travels) => NoneOwn(q))
        /\ \A k : OneOwn(travels, k) => OneOwn(q, k) /\ q[k] = travels[k]
    BY <1>1, <2>2, <2>3, QueueAppend
  <2> QED
    BY <1>2, <2>1, <2>3, <2>4 DEF Begun
<1>4. HistoryTypeOK'
  BY <1>2, <1>3 DEF HistoryInv, HistoryTypeOK
<1>5. ASSUME Trusted PROVE JourneysKnown'
  <2>1. JourneysKnown
    BY <1>5 DEF HistoryInv
  <2>2. Returning'
    <3> SUFFICES ASSUME restoring # None PROVE Returning'
      BY <1>2 DEF Returning
    <3>1. PICK k \in 1..Len(travels) : OneOwn(travels, k) /\ travels[k].by = historyIndex - restoring
      BY <2>1 DEF JourneysKnown, Returning
    <3>2. k \in 1..Len(travels') /\ OneOwn(travels', k) /\ travels'[k].by = historyIndex - restoring
      BY <1>3, <3>1 DEF OneOwn
    <3> QED
      BY <1>2, <2>1, <3>2 DEF JourneysKnown, Returning
  <2>3. Repeating'
    <3> SUFFICES ASSUME approved PROVE Repeating'
      BY <1>2 DEF Repeating
    <3>1. PICK k \in 1..Len(travels) : OneOwn(travels, k) /\ pos + travels[k].by \in 1..Len(entries)
      BY <2>1 DEF JourneysKnown, Repeating
    <3>2. k \in 1..Len(travels') /\ OneOwn(travels', k) /\ pos + travels'[k].by \in 1..Len(entries)
      BY <1>3, <3>1 DEF OneOwn
    <3> QED
      BY <1>2, <2>1, <3>2 DEF JourneysKnown, Repeating
  <2>4. Travelling' /\ AtRest' /\ PendingKnown' /\ Numbered(entries')
    BY <1>2, <1>3, <2>1 DEF JourneysKnown, AtRest, Travelling, PendingKnown
  <2> QED
    BY <2>2, <2>3, <2>4 DEF JourneysKnown
<1> QED
  BY <1>2, <1>4, <1>5 DEF HistoryInv, Guarded, Trusted, AskedFirst, DraftLost

\* No journey of the guard's goes beyond an end of the history.
LEMMA TravelLostStep ==
    ASSUME HistoryInv, TravelLost, UNCHANGED <<mistaken, backs>>
    PROVE  HistoryInv' /\ AskedFirst
<1>1. /\ UNCHANGED <<entries, pos, page, historyIndex, restoring, approved, draft, pending, access>>
      /\ travels' = Tail(travels) /\ travels # <<>>
  BY DEF TravelLost
<1>2. /\ travels \in Seq(HistoryJourney) /\ entries \in Seq(HistoryEntry) /\ pos \in 1..Len(entries)
      /\ historyIndex \in Nat /\ restoring \in Nat \union {None}
  BY DEF HistoryInv, HistoryTypeOK
<1>3. /\ Head(travels) = travels[1] /\ travels' \in Seq(HistoryJourney)
      /\ (Moving(travels) => Moving(travels')) /\ (NoneOwn(travels) => NoneOwn(travels'))
      /\ \A k : OneOwn(travels, k) /\ travels[1].own => k = 1
      /\ \A k : OneOwn(travels, k) /\ ~travels[1].own => OneOwn(travels', k - 1) /\ travels'[k - 1] = travels[k]
  BY <1>1, <1>2, QueueTail
<1>4. pos + travels[1].by \notin 1..Len(entries)
  BY <1>2, <1>3 DEF TravelLost
<1>5. HistoryTypeOK'
  BY <1>1, <1>3 DEF HistoryInv, HistoryTypeOK
<1>6. ASSUME Trusted PROVE JourneysKnown'
  <2>1. JourneysKnown
    BY <1>6 DEF HistoryInv
  <2>2. Returning'
    <3> SUFFICES ASSUME restoring # None PROVE Returning'
      BY <1>1 DEF Returning
    <3>1. PICK k \in 1..Len(travels) : OneOwn(travels, k) /\ travels[k].by = historyIndex - restoring
      BY <2>1 DEF JourneysKnown, Returning
    <3>2. pos = restoring + 1 /\ historyIndex < Len(entries) /\ restoring \in Nat
      BY <1>2, <2>1 DEF JourneysKnown, Returning
    <3>3. ~travels[1].own
      <4> SUFFICES ASSUME travels[1].own PROVE FALSE
        OBVIOUS
      <4>1. travels[1].by = historyIndex - restoring
        BY <1>3, <3>1
      <4>2. pos + travels[1].by = historyIndex + 1 /\ Len(entries) \in Nat
        BY <1>2, <3>2, <4>1
      <4> QED
        BY <1>2, <1>4, <3>2, <4>2
    <3>4. k - 1 \in 1..Len(travels') /\ OneOwn(travels', k - 1) /\ travels'[k - 1].by = historyIndex - restoring
      BY <1>3, <3>1, <3>3 DEF OneOwn
    <3> QED
      BY <1>1, <2>1, <3>4 DEF JourneysKnown, Returning
  <2>3. Repeating'
    <3> SUFFICES ASSUME approved PROVE Repeating'
      BY <1>1 DEF Repeating
    <3>1. PICK k \in 1..Len(travels) : OneOwn(travels, k) /\ pos + travels[k].by \in 1..Len(entries)
      BY <2>1 DEF JourneysKnown, Repeating
    <3>2. ~travels[1].own
      BY <1>3, <1>4, <3>1
    <3>3. k - 1 \in 1..Len(travels') /\ OneOwn(travels', k - 1) /\ pos + travels'[k - 1].by \in 1..Len(entries)
      BY <1>3, <3>1, <3>2 DEF OneOwn
    <3> QED
      BY <1>1, <2>1, <3>3 DEF JourneysKnown, Repeating
  <2>4. Travelling' /\ AtRest' /\ PendingKnown' /\ Numbered(entries')
    BY <1>1, <1>3, <2>1 DEF JourneysKnown, AtRest, Travelling, PendingKnown
  <2> QED
    BY <2>2, <2>3, <2>4 DEF JourneysKnown
<1> QED
  BY <1>1, <1>5, <1>6 DEF HistoryInv, Guarded, Trusted, AskedFirst, DraftLost

LEMMA GiveUpStep ==
    ASSUME HistoryInv, GiveUp, UNCHANGED <<mistaken, backs>>
    PROVE  HistoryInv' /\ AskedFirst
<1>1. travels = <<>> /\ Settled /\ pending # <<>> /\ Proceed(pending[1]) /\ restoring' = restoring
  BY DEF GiveUp, Settled
<1>2. HistoryTypeOK /\ Len(pending) > 0 /\ pending[1] \in Destination /\ (Trusted => PendingKnown /\ Numbered(entries))
  <2>1. pending \in Seq(Destination) /\ HistoryTypeOK
    BY DEF HistoryInv, HistoryTypeOK
  <2>2. Len(pending) \in Nat /\ Len(pending) # 0
    BY <1>1, <2>1, EmptySeq
  <2>3. Len(pending) > 0
    BY <2>2
  <2>4. pending[1] \in Destination
    BY <2>1, <2>3
  <2> QED
    BY <2>1, <2>3, <2>4 DEF HistoryInv, JourneysKnown
<1>3. CASE pending[1] \in [page : Pages]
  <2>1. Push(pending[1].page) /\ pending[1].page \in Pages /\ pending[1] \notin [number : Nat]
    BY <1>1, <1>3, Destinations DEF Proceed
  <2> QED
    BY <1>1, <2>1, PushInv DEF AskedFirst, DraftLost, Consent
<1>4. CASE pending[1] \in [number : Nat]
  <2>1. PICK n : n = pending[1].number
    OBVIOUS
  <2>2. n \in Nat /\ "page" \notin DOMAIN pending[1] /\ "number" \in DOMAIN pending[1]
    BY <1>4, <2>1, Destinations
  <2>3. /\ approved' = TRUE /\ travels' = Append(travels, Journey(n - historyIndex, TRUE))
        /\ UNCHANGED <<entries, pos, page, historyIndex, access>> /\ draft' = Clean /\ pending' = <<>>
    BY <1>1, <2>1, <2>2 DEF GiveUp, Proceed, Travel
  <2>4. n - historyIndex \in Int /\ historyIndex \in Nat
    BY <1>2, <2>2 DEF HistoryTypeOK
  <2>5. /\ travels' \in Seq(HistoryJourney) /\ Moving(travels')
        /\ \E k \in 1..Len(travels') : OneOwn(travels', k) /\ travels'[k].by = n - historyIndex
    <3>1. travels \in Seq(HistoryJourney) /\ Moving(travels) /\ NoneOwn(travels)
      BY <1>1, <1>2 DEF HistoryTypeOK, Moving, NoneOwn
    <3> QED
      BY <2>3, <2>4, <3>1, QueueOwn
  <2>6. draft' \in [dirty : BOOLEAN, busy : BOOLEAN] /\ ~draft'.dirty /\ pending' \in Seq(Destination) /\ Len(pending') = 0
    BY <2>3 DEF Clean
  <2>7. HistoryTypeOK'
    BY <1>1, <1>2, <2>3, <2>5, <2>6 DEF HistoryTypeOK
  <2>8. ASSUME Trusted PROVE JourneysKnown'
    <3>1. restoring = None /\ pos = historyIndex + 1
      BY <1>1, <2>8, SettledRests
    <3>2. n < Len(entries)
      BY <1>2, <1>4, <2>1, <2>8 DEF PendingKnown
    <3>3. pos + (n - historyIndex) \in 1..Len(entries)
      <4>1. Len(entries) \in Nat
        BY <1>2 DEF HistoryTypeOK
      <4>2. pos + (n - historyIndex) = n + 1
        BY <2>2, <2>4, <3>1
      <4> QED
        BY <2>2, <3>2, <4>1, <4>2
    <3>4. PICK k \in 1..Len(travels') : OneOwn(travels', k) /\ travels'[k].by = n - historyIndex
      BY <2>5
    <3>5. Repeating' /\ Travelling'
      BY <2>3, <2>5, <2>6, <3>3, <3>4 DEF Repeating, Travelling
    <3>6. Numbered(entries') /\ AtRest' /\ Returning' /\ PendingKnown'
      BY <1>1, <1>2, <2>3, <2>6, <2>8, <3>1 DEF AtRest, Returning, PendingKnown
    <3> QED
      BY <3>5, <3>6 DEF JourneysKnown
  <2>9. Trusted' => Trusted
    BY DEF Trusted
  <2> QED
    BY <1>1, <2>3, <2>6, <2>7, <2>8, <2>9 DEF HistoryInv, AskedFirst, DraftLost, Consent
<1> QED
  BY <1>2, <1>3, <1>4 DEF Destination

\* The editor, the dialog and the loss of the console leave the history alone.
LEMMA StayStep ==
    ASSUME HistoryInv, Edit \/ StartSave \/ EndSave \/ KeepEditing \/ LoseAccess, UNCHANGED <<mistaken, backs>>
    PROVE  HistoryInv' /\ AskedFirst
<1>1. /\ page \in Pages /\ draft \in [dirty : BOOLEAN, busy : BOOLEAN] /\ pending \in Seq(Destination)
      /\ access \in BOOLEAN /\ backs \in Nat /\ (draft.dirty \/ pending # <<>> => Guarded)
      /\ mistaken \in BOOLEAN /\ (Trusted' => Trusted)
      /\ (Trusted => PendingKnown /\ (approved => ~draft.dirty))
  BY DEF Trusted, HistoryInv, HistoryTypeOK, JourneysKnown, Repeating
<1>2. Stays
  BY DEF Edit, StartSave, EndSave, KeepEditing, LoseAccess, Unchanged, Stays
<1>3. PendingKnown /\ pending' \in {pending, <<>>} => PendingKnown'
  BY <1>2 DEF PendingKnown, Stays
<1>4. CASE Edit \/ StartSave
  <2>1. /\ UNCHANGED <<page, access, pending>> /\ Guarded /\ Settled
        /\ draft' \in [dirty : BOOLEAN, busy : BOOLEAN] /\ (draft.dirty => draft'.dirty)
    BY <1>1, <1>4 DEF Edit, StartSave, Editing, Unchanged
  <2>2. Trusted => ~approved
    BY <2>1, SettledRests
  <2> QED
    BY <1>1, <1>2, <1>3, <2>1, <2>2, StaysInv DEF Guarded, AskedFirst, DraftLost, Consent
<1>5. CASE EndSave
  <2>1. /\ UNCHANGED <<page, access, pending>> /\ draft.busy
        /\ draft' \in [dirty : BOOLEAN, busy : BOOLEAN] /\ (~draft.dirty => ~draft'.dirty)
    <3>1. UNCHANGED <<page, access, pending>> /\ draft.busy /\ draft' \in {Clean, [draft EXCEPT !.busy = FALSE]}
      BY <1>5 DEF EndSave, Unchanged
    <3>2. PICK rest : rest = [draft EXCEPT !.busy = FALSE]
      OBVIOUS
    <3>3. rest \in [dirty : BOOLEAN, busy : BOOLEAN] /\ rest.dirty = draft.dirty
      BY <1>1, <3>2
    <3>4. Clean \in [dirty : BOOLEAN, busy : BOOLEAN] /\ ~Clean.dirty
      BY DEF Clean
    <3>5. draft' = Clean \/ draft' = rest
      BY <3>1, <3>2
    <3> QED
      BY <3>1, <3>3, <3>4, <3>5
  <2> QED
    BY <1>1, <1>2, <1>3, <2>1, StaysInv DEF Guarded, AskedFirst, DraftLost, Consent
<1>6. CASE KeepEditing
  <2>1. /\ UNCHANGED <<page, access, draft>> /\ pending' = <<>> /\ pending' \in Seq(Destination)
    BY <1>6 DEF KeepEditing, Unchanged
  <2> QED
    BY <1>1, <1>2, <1>3, <2>1, StaysInv DEF Guarded, AskedFirst, DraftLost, Consent
<1>7. CASE LoseAccess
  <2>1. access' \in BOOLEAN /\ access' # access /\ page' \in Pages
    BY <1>1, <1>7 DEF LoseAccess, Pages
  <2>2. CASE page = "console"
    <3>1. draft' = Clean /\ pending' = <<>>
      BY <1>7, <2>2 DEF LoseAccess
    <3>2. draft' \in [dirty : BOOLEAN, busy : BOOLEAN] /\ ~draft'.dirty /\ pending' \in Seq(Destination)
      BY <3>1 DEF Clean
    <3> QED
      BY <1>1, <1>2, <1>3, <2>1, <3>1, <3>2, StaysInv DEF Guarded, AskedFirst, DraftLost, Consent
  <2>3. CASE page # "console"
    <3>1. UNCHANGED <<draft, pending, page>>
      BY <1>7, <2>3 DEF LoseAccess
    <3> QED
      BY <1>1, <1>2, <1>3, <2>1, <3>1, StaysInv DEF Guarded, AskedFirst, DraftLost, Consent
  <2> QED
    BY <2>2, <2>3
<1> QED
  BY <1>4, <1>5, <1>6, <1>7

LEMMA HistoryNextInv ==
    ASSUME HistoryInv, [HistoryNext]_historyVars
    PROVE  HistoryInv' /\ AskedFirst
<1>1. CASE UNCHANGED historyVars
  <2>1. Stays /\ UNCHANGED <<mistaken, page, draft, pending, access, backs>>
    BY <1>1 DEF historyVars, Stays
  <2>2. HistoryTypeOK' /\ (JourneysKnown => JourneysKnown')
    BY <2>1 DEF HistoryInv, HistoryTypeOK, Stays, JourneysKnown, Numbered, AtRest, Returning, Repeating,
                Travelling, PendingKnown
  <2>3. Trusted' => Trusted
    BY <2>1 DEF Trusted
  <2> QED
    BY <2>1, <2>2, <2>3 DEF HistoryInv, Guarded, AskedFirst, DraftLost
<1>2. CASE HistoryNext
  <2>1. CASE Land /\ UNCHANGED backs
    <3>1. HistoryInv' /\ (draft.dirty /\ ~draft'.dirty /\ Trusted' => pending # <<>> \/ draft.busy)
      BY <2>1, LandStep
    <3> QED
      BY <2>1, <3>1 DEF AskedFirst, DraftLost, Consent, Trusted
  <2> QED
    BY <1>2, <2>1, OpenPageStep, BackFromDetailStep, UserTravelsStep, TravelLostStep, GiveUpStep, StayStep
       DEF HistoryNext
<1> QED
  BY <1>1, <1>2

(* However long the history and however many journeys are under way: until one
   of them is taken for another by onPopState, and while the page's own way back
   from a Live has not been taken, no navigation of App.tsx loses a draft of the
   console the user has not been asked about. *)
THEOREM DraftsLeftByConsentAlways == HistorySpec => DraftsLeftByConsent
<1>1. HistoryInv /\ [HistoryNext]_historyVars => HistoryInv'
  BY HistoryNextInv
<1>2. HistoryInv /\ [HistoryNext]_historyVars => [DraftLost /\ ~mistaken' /\ backs = 0 => Consent]_historyVars
  BY HistoryNextInv DEF AskedFirst
<1> QED
  BY <1>1, <1>2, HistoryInitInv, PTL DEF HistorySpec, DraftsLeftByConsent


----------------------------------------------------------------------------
(* ConsoleEditor: what the panel shows, has asked for, confirms and reports. *)
LiveOrNone == EditorLives \union {Nothing}
ContentOrNone == Contents \union {Nothing}
EditorOrder == [kind : {"append", "update", "live"}, live : LiveOrNone, of : LiveOrNone, content : ContentOrNone]
EditorRows == [of : LiveOrNone, content : ContentOrNone]
EditorJob == [order : EditorOrder, state : {"out", "done", "refused"}]
EditorSubmit == [stage : {"sent", "reading", "read", "refreshing"}, lives : SUBSET EditorLives,
                 status : {"", "409", "timeout"}, read : ContentOrNone]
SetlistPanel == [selected : LiveOrNone, lives : SUBSET EditorLives, rows : EditorRows,
                 original : ContentOrNone, loading : BOOLEAN]
PageRequest == [read : Seq(SUBSET EditorLives)]
SetlistRequest == [live : {Nothing}, first : BOOLEAN, read : Seq(SUBSET EditorLives)]
                    \union [live : EditorLives, first : BOOLEAN, read : Seq(ContentOrNone)]
LiveForm == [live : LiveOrNone, of : LiveOrNone, edited : BOOLEAN, loading : BOOLEAN]
RowsRequest == [whole : BOOLEAN, rows : EditorRows]
LiveRequest == [live : EditorLives, read : BOOLEAN]

(* The server, and the writes sent to it. *)
ServerInOrder ==
    /\ stored \in [EditorLives -> ContentOrNone]
    /\ \A l \in EditorLives : stored[l] # Nothing => <<l, stored[l]>> \in written
    /\ jobs \in Seq(EditorJob)
    /\ \A j \in 1..Len(jobs) : jobs[j].state = "done" /\ jobs[j].order.kind # "live" =>
           <<jobs[j].order.live, jobs[j].order.content>> \in written

ConfirmationInOrder ==
    /\ confirmation \in Seq(EditorOrder)
    /\ confirmation # <<>> => /\ Order \in EditorOrder
                              /\ Order.kind # "live" => Order.live \in EditorLives /\ Order.content # Nothing

(* A submission is of what is confirmed, and waits for the last write. *)
SubmitInOrder ==
    submit # <<>> =>
        /\ submit[1] \in EditorSubmit
        /\ confirmation # <<>> /\ Len(jobs) > 0 /\ jobs[Len(jobs)].order = Order
        /\ submit[1].stage \in {"reading", "read"} => Order.kind = "append"
        /\ submit[1].stage = "read" /\ submit[1].read # Nothing => <<Order.live, submit[1].read>> \in written

SetlistsInOrder ==
    /\ setlists \in SetlistPanel
    /\ pageLoad # <<>> => pageLoad[1] \in PageRequest
    /\ setlistLoad # <<>> => setlistLoad[1] \in SetlistRequest
    /\ lookup # <<>> => lookup[1] \in RowsRequest

(* The rows of a setlist are the selected Live's. *)
RowsOfSelected == setlists.selected # Nothing /\ setlists.rows.content # Nothing => setlists.rows.of = setlists.selected

EditingInOrder ==
    /\ editing \in LiveForm
    /\ liveLoads \in Seq(LiveRequest)
    /\ asking # <<>> => asking[1] \in LiveOrNone
    /\ formLookup # <<>> => formLookup[1] \in LiveOrNone
    /\ mode \in {"setlist", "setlist_edit", "live_edit", "venue"}

(* A query that loads its first match. *)
Selects == liveQuery # <<>> /\ liveQuery[1].first

(* While a Live loads, or may be loaded next, nothing else goes on in the panel
   but a query that selects nothing. *)
LoadingAlone ==
    Selects \/ liveLoads # <<>> =>
        mode = "live_edit" /\ editing.loading /\ submit = <<>> /\ confirmation = <<>> /\ asking = <<>>
OneRequest == Len(liveLoads) <= 1 /\ (Selects => liveLoads = <<>>)
AskingAlone == asking # <<>> => mode \in {"setlist_edit", "live_edit"} /\ submit = <<>> /\ confirmation = <<>>
OneAtATime == LoadingAlone /\ OneRequest /\ AskingAlone

(* The form's fields are its Live's own, but for a moment while the Live loads. *)
FieldsOfLive ==
    IF liveLoads # <<>> /\ liveLoads[1].read THEN editing.live = liveLoads[1].live
    ELSE editing.live # Nothing => editing.of = editing.live

Straight == ~astray => RowsOfSelected /\ OneAtATime /\ FieldsOfLive /\ (confirmation # <<>> => Order.of = Order.live)

EditorInv ==
    /\ ServerInOrder /\ ConfirmationInOrder /\ SubmitInOrder /\ SetlistsInOrder /\ EditingInOrder
    /\ reported \subseteq written
    /\ Straight

----------------------------------------------------------------------------
LEMMA LeastIsIn == ASSUME NEW S \in SUBSET Nat, S # {} PROVE Min(S) \in S
<1>1. \E x \in S : \A y \in S : ~(<<y, x>> \in OpToRel(<, Nat))
  BY WFMin, NatLessThanWellFounded
<1>2. \E x \in S : \A y \in S : x =< y
  <2>1. PICK x \in S : \A y \in S : ~(<<y, x>> \in OpToRel(<, Nat))
    BY <1>1
  <2>2. x \in Nat /\ \A y \in S : y \in Nat /\ ~(y < x)
    BY <2>1 DEF OpToRel
  <2>3. \A y \in S : x =< y
    BY <2>2
  <2> QED
    BY <2>3
<1> QED
  BY <1>2 DEF Min

LEMMA FirstIsThere ==
    ASSUME NEW lives \in SUBSET EditorLives
    PROVE  First(lives) \in LiveOrNone
<1>1. lives \in SUBSET Nat
  BY EditorAssumption
<1> QED
  BY <1>1, LeastIsIn DEF First, LiveOrNone

LEMMA BlankRows == Blank \in EditorRows /\ Blank.content = Nothing
  BY DEF Blank, EditorRows, LiveOrNone, ContentOrNone

LEMMA NumbersAreSome == Nothing \notin EditorLives /\ Nothing \notin Contents
  BY EditorAssumption DEF Nothing

LEMMA EditorInitInv == EditorInit => EditorInv
<1> SUFFICES ASSUME EditorInit PROVE EditorInv
  OBVIOUS
<1>1. Min(Contents) \in Contents
  BY LeastIsIn, EditorAssumption
<1>2. ServerInOrder
  <2>1. stored \in [EditorLives -> ContentOrNone]
    BY <1>1 DEF EditorInit, ContentOrNone
  <2>2. \A l \in EditorLives : stored[l] # Nothing => <<l, stored[l]>> \in written
    <3> TAKE l \in EditorLives
    <3> HAVE stored[l] # Nothing
    <3>1. l \in WithSetlist
      BY DEF WithSetlist
    <3>2. written = {<<k, stored[k]>> : k \in WithSetlist}
      BY DEF EditorInit
    <3> QED
      BY <3>1, <3>2
  <2>3. jobs \in Seq(EditorJob) /\ Len(jobs) = 0
    BY DEF EditorInit
  <2> QED
    BY <2>1, <2>2, <2>3 DEF ServerInOrder
<1>3. ConfirmationInOrder /\ SubmitInOrder
  BY DEF EditorInit, ConfirmationInOrder, SubmitInOrder
<1>4. SetlistsInOrder
  <2>1. setlists \in SetlistPanel
    BY BlankRows DEF EditorInit, SetlistPanel, LiveOrNone, ContentOrNone
  <2>2. pageLoad[1] \in PageRequest
    BY DEF EditorInit, PageRequest
  <2> QED
    BY <2>1, <2>2 DEF EditorInit, SetlistsInOrder
<1>5. EditingInOrder
  BY DEF EditorInit, EditingInOrder, LiveForm, LiveOrNone
<1>6. Straight
  BY DEF EditorInit, Straight, RowsOfSelected, OneAtATime, LoadingAlone, OneRequest, AskingAlone, FieldsOfLive, Selects
<1> QED
  BY <1>2, <1>3, <1>4, <1>5, <1>6 DEF EditorInv, EditorInit

----------------------------------------------------------------------------
\* What a step leaves alone stays in order.
LEMMA SetlistsStay ==
    ASSUME EditorInv, UNCHANGED setlistVars
    PROVE  SetlistsInOrder' /\ (~astray => RowsOfSelected')
BY DEF EditorInv, Straight, SetlistsInOrder, RowsOfSelected, setlistVars

LEMMA LivesStay ==
    ASSUME EditorInv, UNCHANGED <<mode, liveVars, asking, submit, confirmation>>
    PROVE  EditingInOrder' /\ (~astray => OneAtATime' /\ FieldsOfLive')
BY DEF EditorInv, Straight, EditingInOrder, OneAtATime, LoadingAlone, OneRequest, AskingAlone, FieldsOfLive, liveVars, Selects

LEMMA PanelInv ==
    ASSUME EditorInv, UNCHANGED <<serverVars, confirmation, submit, reported>>,
           SetlistsInOrder', EditingInOrder',
           ~astray' => ~astray /\ RowsOfSelected' /\ OneAtATime' /\ FieldsOfLive'
    PROVE  EditorInv'
<1>1. ServerInOrder' /\ (reported \subseteq written)'
  BY DEF EditorInv, ServerInOrder, serverVars
<1>2. ConfirmationInOrder'
  BY DEF EditorInv, ConfirmationInOrder, Order
<1>3. SubmitInOrder'
  BY DEF EditorInv, SubmitInOrder, Order, serverVars
<1>4. Straight'
  BY DEF EditorInv, Straight, Order
<1> QED
  BY <1>1, <1>2, <1>3, <1>4 DEF EditorInv

LEMMA SetlistsInv ==
    ASSUME EditorInv, UNCHANGED <<serverVars, mode, liveVars, dialogVars>>,
           SetlistsInOrder', ~astray' => ~astray /\ RowsOfSelected'
    PROVE  EditorInv'
<1>1. UNCHANGED <<asking, confirmation, submit, reported>>
  BY DEF dialogVars
<1> QED
  BY <1>1, LivesStay, PanelInv

LEMMA LivesInv ==
    ASSUME EditorInv, UNCHANGED <<serverVars, setlistVars, confirmation, submit, reported>>,
           EditingInOrder', ~astray' => ~astray /\ OneAtATime' /\ FieldsOfLive'
    PROVE  EditorInv'
BY SetlistsStay, PanelInv

----------------------------------------------------------------------------
LEMMA SelectingKeeps ==
    ASSUME NEW s \in SetlistPanel, NEW l \in LiveOrNone
    PROVE  /\ Selecting(s, l) \in SetlistPanel
           /\ Selecting(s, l).selected = l
           /\ (s.selected # Nothing /\ s.rows.content # Nothing => s.rows.of = s.selected) =>
              (Selecting(s, l).selected # Nothing /\ Selecting(s, l).rows.content # Nothing =>
                  Selecting(s, l).rows.of = l)
<1>1. PICK t : t = Selecting(s, l)
  OBVIOUS
<1>2. /\ t \in SetlistPanel /\ t.selected = l
      /\ t.rows = IF l = s.selected THEN s.rows ELSE Blank
  BY <1>1, BlankRows DEF Selecting, SetlistPanel
<1> QED
  BY <1>1, <1>2, BlankRows

\* A panel that differs from another in what it lists, or in that it loads.
LEMMA PanelTouched ==
    ASSUME NEW s \in SetlistPanel, NEW lives \in SUBSET EditorLives, NEW loading \in BOOLEAN
    PROVE  /\ [s EXCEPT !.loading = loading] \in SetlistPanel
           /\ [s EXCEPT !.lives = lives] \in SetlistPanel
           /\ [s EXCEPT !.lives = lives, !.loading = loading] \in SetlistPanel
           /\ [s EXCEPT !.loading = loading].selected = s.selected
           /\ [s EXCEPT !.loading = loading].rows = s.rows
           /\ [s EXCEPT !.lives = lives].selected = s.selected
           /\ [s EXCEPT !.lives = lives].rows = s.rows
           /\ [s EXCEPT !.lives = lives, !.loading = loading].selected = s.selected
           /\ [s EXCEPT !.lives = lives, !.loading = loading].rows = s.rows
BY DEF SetlistPanel

LEMMA LoadPageStep == ASSUME EditorInv, LoadPage PROVE EditorInv'
<1>1. setlists \in SetlistPanel /\ SetlistsInOrder /\ (~astray => RowsOfSelected)
  BY DEF EditorInv, SetlistsInOrder, Straight
<1>2. PICK s \in {Selecting(setlists, Nothing), setlists} : setlists' = [s EXCEPT !.loading = TRUE]
  BY DEF LoadPage
<1>3. s \in SetlistPanel /\ (~astray => (s.selected # Nothing /\ s.rows.content # Nothing => s.rows.of = s.selected))
  BY <1>1, <1>2, SelectingKeeps DEF LiveOrNone, RowsOfSelected
<1>4. setlists' \in SetlistPanel /\ setlists'.selected = s.selected /\ setlists'.rows = s.rows
  BY <1>2, <1>3, PanelTouched
<1>5. SetlistsInOrder'
  <2>1. pageLoad'[1] \in PageRequest
    BY DEF LoadPage, PageRequest
  <2> QED
    BY <1>1, <1>4, <2>1 DEF LoadPage, SetlistsInOrder
<1>6. ~astray => RowsOfSelected'
  BY <1>3, <1>4 DEF RowsOfSelected
<1> QED
  BY <1>5, <1>6, SetlistsInv DEF LoadPage

LEMMA PageReadStep == ASSUME EditorInv, PageRead PROVE EditorInv'
<1>1. SetlistsInOrder /\ (~astray => RowsOfSelected)
  BY DEF EditorInv, Straight
<1>2. PICK lives : lives = EditorLives \ WithSetlist
  OBVIOUS
<1>3. pageLoad' = <<[read |-> <<lives>>]>> /\ lives \in SUBSET EditorLives
  BY <1>2 DEF PageRead
<1>4. <<lives>> \in Seq(SUBSET EditorLives)
  BY <1>3
<1>5. pageLoad'[1] \in PageRequest
  BY <1>3, <1>4 DEF PageRequest
<1>6. SetlistsInOrder' /\ (~astray => RowsOfSelected')
  BY <1>1, <1>5 DEF PageRead, SetlistsInOrder, RowsOfSelected
<1> QED
  BY <1>6, SetlistsInv DEF PageRead

LEMMA PageAnsweredStep == ASSUME EditorInv, PageAnswered PROVE EditorInv'
<1>1. setlists \in SetlistPanel /\ SetlistsInOrder /\ (~astray => RowsOfSelected)
  BY DEF EditorInv, SetlistsInOrder, Straight
<1>2. PICK lives, held : /\ lives \in SUBSET EditorLives /\ held \in LiveOrNone
                         /\ setlists' = [Selecting(setlists, held) EXCEPT !.lives = lives, !.loading = FALSE]
  <2>1. CASE pageLoad[1].read # <<>> /\ setlists' =
               LET lives == pageLoad[1].read[1]
                   held == IF setlists.selected \in lives THEN setlists.selected ELSE First(lives)
               IN [Selecting(setlists, held) EXCEPT !.lives = lives, !.loading = FALSE]
    <3>1. PICK read : read = pageLoad[1].read
      OBVIOUS
    <3>2. read \in Seq(SUBSET EditorLives) /\ read # <<>>
      BY <1>1, <2>1, <3>1 DEF PageAnswered, SetlistsInOrder, PageRequest
    <3>3. read[1] \in SUBSET EditorLives
      BY <3>2, EmptySeq
    <3>4. PICK held : held = IF setlists.selected \in read[1] THEN setlists.selected ELSE First(read[1])
      OBVIOUS
    <3>5. held \in LiveOrNone
      BY <1>1, <3>3, <3>4, FirstIsThere DEF SetlistPanel
    <3> QED
      BY <2>1, <3>1, <3>3, <3>4, <3>5
  <2>2. CASE setlists' = [Selecting(setlists, Nothing) EXCEPT !.lives = {}, !.loading = FALSE]
    BY <2>2 DEF LiveOrNone
  <2> QED
    BY <2>1, <2>2 DEF PageAnswered
<1>3. PICK s : s = Selecting(setlists, held)
  OBVIOUS
<1>4. /\ s \in SetlistPanel /\ s.selected = held
      /\ (~astray => (held # Nothing /\ s.rows.content # Nothing => s.rows.of = held))
  BY <1>1, <1>2, <1>3, SelectingKeeps DEF RowsOfSelected
<1>5. setlists' \in SetlistPanel /\ setlists'.selected = held /\ setlists'.rows = s.rows
  BY <1>2, <1>3, <1>4, PanelTouched
<1>6. SetlistsInOrder' /\ (~astray => RowsOfSelected')
  BY <1>1, <1>4, <1>5 DEF PageAnswered, SetlistsInOrder, RowsOfSelected
<1> QED
  BY <1>6, SetlistsInv DEF PageAnswered

LEMMA ChangeModeStep == ASSUME EditorInv, NEW m \in {"setlist", "setlist_edit", "live_edit", "venue"}, ChangeMode(m) PROVE EditorInv'
<1>1. /\ setlists \in SetlistPanel /\ SetlistsInOrder /\ EditingInOrder
      /\ (~astray => RowsOfSelected /\ OneAtATime /\ FieldsOfLive)
  BY DEF EditorInv, SetlistsInOrder, Straight
<1>2. /\ Hands /\ m # mode /\ mode' = m /\ UNCHANGED <<serverVars, lookup, liveLoads, formLookup, dialogVars, astray>>
      /\ editing' = IF m = "live_edit" THEN FreshEditing(TRUE) ELSE Restored
      /\ liveQuery' = IF m = "live_edit" THEN <<[first |-> FALSE]>> ELSE liveQuery
      /\ pageLoad' = IF m = "setlist" THEN <<[read |-> <<>>]>> ELSE <<>>
      /\ setlistLoad' = IF m = "setlist_edit" THEN <<[live |-> Nothing, first |-> FALSE, read |-> <<>>]>> ELSE setlistLoad
  BY DEF ChangeMode
<1>3. PICK held, rows, original, loading :
         /\ held \in {setlists.selected, Nothing} /\ rows \in {setlists.rows, Blank}
         /\ original \in {setlists.original, Nothing} /\ loading \in BOOLEAN
         /\ m \in {"live_edit", "venue"} => rows = Blank
         /\ m \notin {"live_edit", "venue"} => held = Nothing
         /\ setlists' = [setlists EXCEPT !.selected = held, !.loading = loading, !.rows = rows, !.original = original]
  <2>1. PICK loading : loading = (m \in {"setlist", "setlist_edit"})
    OBVIOUS
  <2>2. PICK rows : rows = IF m # "setlist_edit" \/ SetlistDirty THEN Blank ELSE setlists.rows
    OBVIOUS
  <2>3. PICK held : held = IF m \in {"setlist", "setlist_edit"} THEN Nothing ELSE setlists.selected
    OBVIOUS
  <2>4. PICK original : original = IF m # "setlist_edit" THEN Nothing ELSE setlists.original
    OBVIOUS
  <2>5. setlists' = [setlists EXCEPT !.selected = held, !.loading = loading, !.rows = rows, !.original = original]
    BY <2>1, <2>2, <2>3, <2>4 DEF ChangeMode
  <2>6. loading \in BOOLEAN
    BY <2>1
  <2>7. /\ held \in {setlists.selected, Nothing} /\ rows \in {setlists.rows, Blank}
        /\ original \in {setlists.original, Nothing}
        /\ m \in {"live_edit", "venue"} => rows = Blank
        /\ m \notin {"live_edit", "venue"} => held = Nothing
    BY <2>2, <2>3, <2>4
  <2> QED
    BY <2>5, <2>6, <2>7
<1>4. /\ setlists' \in SetlistPanel /\ setlists'.selected = held /\ setlists'.rows = rows
  BY <1>1, <1>3, BlankRows DEF SetlistPanel, LiveOrNone, ContentOrNone
<1>5. RowsOfSelected'
  BY <1>3, <1>4, BlankRows DEF RowsOfSelected
<1>6. SetlistsInOrder'
  <2>1. PICK first, load : first = [read |-> <<>>] /\ load = [live |-> Nothing, first |-> FALSE, read |-> <<>>]
    OBVIOUS
  <2>2. first \in PageRequest /\ load \in SetlistRequest
    BY <2>1 DEF PageRequest, SetlistRequest
  <2>3. pageLoad' \in {<<first>>, <<>>} /\ setlistLoad' \in {<<load>>, setlistLoad}
    BY <1>2, <2>1
  <2> QED
    BY <1>1, <1>2, <1>4, <2>2, <2>3 DEF SetlistsInOrder
<1>7. EditingInOrder'
  <2>1. FreshEditing(TRUE) \in LiveForm
    BY DEF FreshEditing, LiveForm, LiveOrNone
  <2>2. Restored \in LiveForm
    BY <1>1 DEF EditingInOrder, Restored, LiveForm
  <2>3. editing' \in LiveForm
    BY <1>2, <2>1, <2>2
  <2> QED
    BY <1>1, <1>2, <2>3 DEF EditingInOrder, dialogVars
<1>8. ASSUME ~astray PROVE OneAtATime' /\ FieldsOfLive'
  <2>1. /\ asking = <<>> /\ submit = <<>> /\ confirmation = <<>> /\ liveLoads = <<>> /\ ~Selects
    BY <1>1, <1>2, <1>8 DEF Hands, Locked, OneAtATime, LoadingAlone, OneRequest, AskingAlone, Selects
  <2>2. asking' = <<>> /\ submit' = <<>> /\ confirmation' = <<>> /\ liveLoads' = <<>> /\ ~Selects'
    BY <1>2, <2>1 DEF dialogVars, Selects
  <2>3. OneAtATime'
    <3>1. LoadingAlone' /\ AskingAlone'
      BY <1>2, <2>2, Zenon DEF LoadingAlone, AskingAlone, Selects
    <3>2. OneRequest'
      BY <2>2 DEF OneRequest, Selects
    <3> QED
      BY <3>1, <3>2 DEF OneAtATime
  <2>4. FieldsOfLive'
    <3>1. CASE m = "live_edit"
      BY <1>2, <2>2, <3>1 DEF FieldsOfLive, FreshEditing
    <3>2. CASE m # "live_edit"
      <4>1. editing'.live = editing.live /\ editing'.of \in {editing.of, editing.live}
        BY <1>1, <1>2, <3>2 DEF Restored, EditingInOrder, LiveForm
      <4> QED
        BY <1>1, <1>8, <2>1, <2>2, <4>1 DEF FieldsOfLive
    <3> QED
      BY <3>1, <3>2
  <2> QED
    BY <2>3, <2>4
<1> QED
  BY <1>2, <1>5, <1>6, <1>7, <1>8, PanelInv DEF dialogVars

\* A request for a setlist, or for the list of them.
LEMMA SetlistRequests ==
    ASSUME NEW l \in LiveOrNone, NEW first \in BOOLEAN
    PROVE  [live |-> l, first |-> first, read |-> <<>>] \in SetlistRequest
BY DEF SetlistRequest, LiveOrNone

LEMMA SelectSetlistStep == ASSUME EditorInv, NEW l \in EditorLives, SelectSetlist(l) PROVE EditorInv'
<1>1. /\ setlists \in SetlistPanel /\ SetlistsInOrder /\ EditingInOrder /\ l \in LiveOrNone
      /\ (~astray => RowsOfSelected /\ OneAtATime /\ FieldsOfLive)
  BY DEF EditorInv, SetlistsInOrder, Straight, LiveOrNone
<1>2. Hands /\ UNCHANGED <<serverVars, mode, pageLoad, lookup, liveVars, confirmation, submit, reported, astray>>
  BY DEF SelectSetlist
<1>3. CASE mode = "setlist" /\ setlists' = Selecting(setlists, l) /\ UNCHANGED <<setlistLoad, asking>>
  <2>1. SetlistsInOrder' /\ (~astray => RowsOfSelected')
    BY <1>1, <1>2, <1>3, SelectingKeeps DEF SetlistsInOrder, RowsOfSelected
  <2> QED
    BY <1>2, <1>3, <2>1, SetlistsInv DEF dialogVars
<1>4. CASE mode = "setlist_edit" /\ SetlistDirty /\ asking' = <<l>> /\ UNCHANGED <<setlists, setlistLoad>>
  <2>1. SetlistsInOrder' /\ (~astray => RowsOfSelected')
    BY <1>2, <1>4, SetlistsStay DEF setlistVars
  <2>2. EditingInOrder'
    BY <1>1, <1>2, <1>4 DEF EditingInOrder, liveVars
  <2>3. ASSUME ~astray PROVE OneAtATime' /\ FieldsOfLive'
    <3>1. submit = <<>> /\ confirmation = <<>> /\ ~Selects /\ liveLoads = <<>>
      BY <1>1, <1>2, <1>4, <2>3 DEF Hands, Locked, OneAtATime, LoadingAlone, OneRequest, AskingAlone, Selects
    <3> QED
      BY <1>1, <1>2, <1>4, <2>3, <3>1 DEF OneAtATime, LoadingAlone, OneRequest, AskingAlone, FieldsOfLive, liveVars, Selects
  <2> QED
    BY <1>2, <2>1, <2>2, <2>3, PanelInv
<1>5. CASE StartSetlistLoad([live |-> l, first |-> FALSE, read |-> <<>>]) /\ UNCHANGED asking
  <2>1. setlists' \in SetlistPanel /\ setlists'.selected = setlists.selected /\ setlists'.rows = setlists.rows
    BY <1>1, <1>5, PanelTouched DEF StartSetlistLoad
  <2>2. setlistLoad'[1] \in SetlistRequest
    BY <1>1, <1>5, SetlistRequests DEF StartSetlistLoad
  <2>3. SetlistsInOrder' /\ (~astray => RowsOfSelected')
    BY <1>1, <1>2, <2>1, <2>2 DEF SetlistsInOrder, RowsOfSelected
  <2> QED
    BY <1>2, <1>5, <2>3, SetlistsInv DEF dialogVars
<1> QED
  BY <1>3, <1>4, <1>5 DEF SelectSetlist

LEMMA QuerySetlistsStep == ASSUME EditorInv, QuerySetlists PROVE EditorInv'
<1>1. /\ setlists \in SetlistPanel /\ SetlistsInOrder /\ EditingInOrder /\ Nothing \in LiveOrNone
      /\ (~astray => RowsOfSelected /\ OneAtATime /\ FieldsOfLive)
  BY DEF EditorInv, SetlistsInOrder, Straight, LiveOrNone
<1>2. /\ Hands /\ mode = "setlist_edit"
      /\ UNCHANGED <<serverVars, mode, pageLoad, lookup, liveVars, confirmation, submit, reported, astray>>
  BY DEF QuerySetlists
<1>3. CASE asking' = <<Nothing>> /\ UNCHANGED <<setlists, setlistLoad>>
  <2>1. SetlistsInOrder' /\ (~astray => RowsOfSelected')
    BY <1>2, <1>3, SetlistsStay DEF setlistVars
  <2>2. EditingInOrder'
    BY <1>1, <1>2, <1>3 DEF EditingInOrder, liveVars
  <2>3. ASSUME ~astray PROVE OneAtATime' /\ FieldsOfLive'
    <3>1. submit = <<>> /\ confirmation = <<>> /\ ~Selects /\ liveLoads = <<>>
      BY <1>1, <1>2, <2>3 DEF Hands, Locked, OneAtATime, LoadingAlone, OneRequest, AskingAlone, Selects
    <3> QED
      BY <1>1, <1>2, <1>3, <2>3, <3>1 DEF OneAtATime, LoadingAlone, OneRequest, AskingAlone, FieldsOfLive, liveVars, Selects
  <2> QED
    BY <1>2, <2>1, <2>2, <2>3, PanelInv
<1>4. CASE StartSetlistLoad([live |-> Nothing, first |-> TRUE, read |-> <<>>]) /\ UNCHANGED asking
  <2>1. setlists' \in SetlistPanel /\ setlists'.selected = setlists.selected /\ setlists'.rows = setlists.rows
    BY <1>1, <1>4, PanelTouched DEF StartSetlistLoad
  <2>2. setlistLoad'[1] \in SetlistRequest
    BY <1>1, <1>4, SetlistRequests DEF StartSetlistLoad
  <2>3. SetlistsInOrder' /\ (~astray => RowsOfSelected')
    BY <1>1, <1>2, <2>1, <2>2 DEF SetlistsInOrder, RowsOfSelected
  <2> QED
    BY <1>2, <1>4, <2>3, SetlistsInv DEF dialogVars
<1> QED
  BY <1>3, <1>4 DEF QuerySetlists

LEMMA SetlistReadStep == ASSUME EditorInv, SetlistRead PROVE EditorInv'
<1>1. SetlistsInOrder /\ (~astray => RowsOfSelected) /\ stored \in [EditorLives -> ContentOrNone]
  BY DEF EditorInv, Straight, ServerInOrder
<1>2. PICK load : load = setlistLoad[1]
  OBVIOUS
<1>3. load \in SetlistRequest
  BY <1>1, <1>2 DEF SetlistRead, SetlistsInOrder
<1>4. PICK lives : lives = WithSetlist
  OBVIOUS
<1>5. PICK read : read = IF load.live = Nothing THEN <<lives>> ELSE <<stored[load.live]>>
  OBVIOUS
<1>6. PICK new : new = [load EXCEPT !.read = read]
  OBVIOUS
<1>7. setlistLoad' = <<new>>
  BY <1>2, <1>4, <1>5, <1>6 DEF SetlistRead
<1>8. lives \in SUBSET EditorLives
  BY <1>4 DEF WithSetlist
<1>9. new \in SetlistRequest
  <2>1. CASE load.live = Nothing
    <3>1. read \in Seq(SUBSET EditorLives)
      BY <1>5, <1>8, <2>1
    <3> QED
      BY <1>3, <1>6, <2>1, <3>1, NumbersAreSome DEF SetlistRequest
  <2>2. CASE load.live # Nothing
    <3>1. load.live \in EditorLives
      BY <1>3, <2>2 DEF SetlistRequest
    <3>2. read \in Seq(ContentOrNone)
      BY <1>1, <1>5, <2>2, <3>1
    <3> QED
      BY <1>3, <1>6, <2>2, <3>2 DEF SetlistRequest
  <2> QED
    BY <2>1, <2>2
<1>10. SetlistsInOrder' /\ (~astray => RowsOfSelected')
  BY <1>1, <1>7, <1>9 DEF SetlistRead, SetlistsInOrder, RowsOfSelected
<1> QED
  BY <1>10, SetlistsInv DEF SetlistRead

LEMMA SetlistAnsweredStep == ASSUME EditorInv, SetlistAnswered PROVE EditorInv'
<1>1. setlists \in SetlistPanel /\ SetlistsInOrder /\ (~astray => RowsOfSelected)
  BY DEF EditorInv, SetlistsInOrder, Straight
<1>2. PICK l, read : l = setlistLoad[1].live /\ read = setlistLoad[1].read[1]
  OBVIOUS
<1>3. /\ l = Nothing => read \in SUBSET EditorLives
      /\ l # Nothing => l \in EditorLives /\ read \in ContentOrNone
  <2>1. PICK load : load = setlistLoad[1]
    OBVIOUS
  <2>2. load \in SetlistRequest /\ load.read # <<>> /\ l = load.live /\ read = load.read[1]
    BY <1>1, <1>2, <2>1 DEF SetlistAnswered, SetlistsInOrder
  <2>3. CASE l = Nothing
    <3>1. load.read \in Seq(SUBSET EditorLives)
      BY <2>2, <2>3, NumbersAreSome DEF SetlistRequest
    <3> QED
      BY <2>2, <2>3, <3>1, EmptySeq
  <2>4. CASE l # Nothing
    <3>1. load.read \in Seq(ContentOrNone) /\ l \in EditorLives
      BY <2>2, <2>4 DEF SetlistRequest
    <3> QED
      BY <2>2, <2>4, <3>1, EmptySeq
  <2> QED
    BY <2>3, <2>4
<1>4. CASE /\ l # Nothing /\ setlistLoad' = <<>>
           /\ setlists' = [setlists EXCEPT !.selected = l, !.rows = [of |-> l, content |-> read],
                                           !.original = read, !.loading = FALSE]
  <2>1. PICK rows : rows = [of |-> l, content |-> read]
    OBVIOUS
  <2>2. rows \in EditorRows /\ rows.of = l /\ l \in LiveOrNone /\ read \in ContentOrNone
    BY <1>3, <1>4, <2>1 DEF EditorRows, LiveOrNone
  <2>3. setlists' = [setlists EXCEPT !.selected = l, !.rows = rows, !.original = read, !.loading = FALSE]
    BY <1>4, <2>1
  <2>4. setlists' \in SetlistPanel /\ setlists'.selected = l /\ setlists'.rows = rows
    BY <1>1, <2>2, <2>3 DEF SetlistPanel
  <2> QED
    BY <1>1, <1>4, <2>2, <2>4, SetlistsInv DEF SetlistAnswered, SetlistsInOrder, RowsOfSelected
<1>5. CASE /\ l = Nothing /\ setlistLoad' = <<[live |-> First(read), first |-> FALSE, read |-> <<>>]>>
           /\ setlists' = [setlists EXCEPT !.lives = read]
  <2>1. PICK new : new = [live |-> First(read), first |-> FALSE, read |-> <<>>]
    OBVIOUS
  <2>2. new \in SetlistRequest
    BY <1>3, <1>5, <2>1, FirstIsThere, SetlistRequests
  <2>3. setlistLoad'[1] \in SetlistRequest
    BY <1>5, <2>1, <2>2
  <2>4. setlists' \in SetlistPanel /\ setlists'.selected = setlists.selected /\ setlists'.rows = setlists.rows
    BY <1>1, <1>3, <1>5, PanelTouched
  <2>5. SetlistsInOrder' /\ (~astray => RowsOfSelected')
    BY <1>1, <2>3, <2>4 DEF SetlistAnswered, SetlistsInOrder, RowsOfSelected
  <2> QED
    BY <2>5, SetlistsInv DEF SetlistAnswered
<1>6. CASE /\ l = Nothing /\ setlistLoad' = <<>>
           /\ setlists' = IF read # {} THEN [setlists EXCEPT !.lives = read, !.loading = FALSE]
                          ELSE [selected |-> Nothing, lives |-> {}, rows |-> Blank, original |-> Nothing,
                                loading |-> FALSE]
  <2>1. setlists' \in SetlistPanel /\ (~astray => RowsOfSelected')
    <3>1. CASE read # {}
      <4>1. setlists' \in SetlistPanel /\ setlists'.selected = setlists.selected /\ setlists'.rows = setlists.rows
        BY <1>1, <1>3, <1>6, <3>1, PanelTouched
      <4> QED
        BY <1>1, <4>1 DEF RowsOfSelected
    <3>2. CASE read = {}
      BY <1>6, <3>2, BlankRows DEF SetlistPanel, RowsOfSelected, LiveOrNone, ContentOrNone
    <3> QED
      BY <3>1, <3>2
  <2>2. SetlistsInOrder'
    BY <1>1, <1>6, <2>1 DEF SetlistAnswered, SetlistsInOrder
  <2> QED
    BY <2>1, <2>2, SetlistsInv DEF SetlistAnswered
<1> QED
  BY <1>2, <1>4, <1>5, <1>6 DEF SetlistAnswered

LEMMA SetlistFailedStep == ASSUME EditorInv, SetlistFailed PROVE EditorInv'
<1>1. setlists \in SetlistPanel /\ SetlistsInOrder /\ (~astray => RowsOfSelected)
  BY DEF EditorInv, SetlistsInOrder, Straight
<1>2. setlists' \in SetlistPanel /\ setlists'.selected \in {setlists.selected, Nothing} /\ setlists'.rows = setlists.rows
  <2>1. CASE setlists' = [setlists EXCEPT !.original = Nothing, !.loading = FALSE]
    BY <1>1, <2>1 DEF SetlistPanel, ContentOrNone
  <2>2. CASE setlists' = [setlists EXCEPT !.lives = {}, !.selected = Nothing, !.loading = FALSE]
    BY <1>1, <2>2 DEF SetlistPanel, LiveOrNone
  <2> QED
    BY <2>1, <2>2 DEF SetlistFailed
<1>3. SetlistsInOrder' /\ (~astray => RowsOfSelected')
  BY <1>1, <1>2 DEF SetlistFailed, SetlistsInOrder, RowsOfSelected
<1> QED
  BY <1>3, SetlistsInv DEF SetlistFailed

LEMMA EditRowsStep == ASSUME EditorInv, NEW c \in Contents, EditRows(c) PROVE EditorInv'
<1>1. setlists \in SetlistPanel /\ SetlistsInOrder /\ (~astray => RowsOfSelected)
  BY DEF EditorInv, SetlistsInOrder, Straight
<1>2. PICK rows : rows = [of |-> IF setlists.rows.content = Nothing THEN setlists.selected ELSE setlists.rows.of,
                          content |-> c]
  OBVIOUS
<1>3. setlists' = [setlists EXCEPT !.rows = rows]
  BY <1>2 DEF EditRows
<1>4. rows \in EditorRows /\ rows.of = IF setlists.rows.content = Nothing THEN setlists.selected ELSE setlists.rows.of
  BY <1>1, <1>2 DEF SetlistPanel, EditorRows, ContentOrNone
<1>5. setlists' \in SetlistPanel /\ setlists'.selected = setlists.selected /\ setlists'.rows = rows
  BY <1>1, <1>3, <1>4 DEF SetlistPanel
<1>6. SetlistsInOrder' /\ (~astray => RowsOfSelected')
  BY <1>1, <1>4, <1>5 DEF EditRows, SetlistsInOrder, RowsOfSelected
<1> QED
  BY <1>6, SetlistsInv DEF EditRows

LEMMA LookUpRowsStep == ASSUME EditorInv, NEW whole \in BOOLEAN, LookUpRows(whole) PROVE EditorInv'
<1>1. setlists \in SetlistPanel /\ SetlistsInOrder /\ (~astray => RowsOfSelected)
  BY DEF EditorInv, SetlistsInOrder, Straight
<1>2. PICK r : r = [whole |-> whole, rows |-> setlists.rows]
  OBVIOUS
<1>3. r \in RowsRequest
  BY <1>1, <1>2 DEF SetlistPanel, RowsRequest
<1>4. lookup' = <<r>> /\ UNCHANGED <<serverVars, mode, setlists, pageLoad, setlistLoad, liveVars, dialogVars, astray>>
  BY <1>2 DEF LookUpRows
<1>5. SetlistsInOrder' /\ (~astray => RowsOfSelected')
  BY <1>1, <1>3, <1>4 DEF SetlistsInOrder, RowsOfSelected
<1> QED
  BY <1>4, <1>5, SetlistsInv

LEMMA RowsAnsweredStep == ASSUME EditorInv, RowsAnswered PROVE EditorInv'
<1>1. setlists \in SetlistPanel /\ SetlistsInOrder /\ (~astray => RowsOfSelected)
  BY DEF EditorInv, SetlistsInOrder, Straight
<1>2. UNCHANGED <<serverVars, mode, pageLoad, setlistLoad, liveVars, dialogVars>> /\ lookup' = <<>> /\ lookup # <<>>
  BY DEF RowsAnswered
<1>3. PICK asked : asked = lookup[1].rows
  OBVIOUS
<1>4. asked \in EditorRows /\ asked.of \in LiveOrNone
  <2>1. lookup[1] \in RowsRequest
    BY <1>1, <1>2 DEF SetlistsInOrder
  <2>2. asked \in EditorRows
    BY <1>3, <2>1 DEF RowsRequest
  <2> QED
    BY <2>2 DEF EditorRows
<1>5. CASE setlists' = [setlists EXCEPT !.rows = asked] /\ astray' = (astray \/ asked.of # setlists.selected)
  <2>1. setlists' \in SetlistPanel /\ setlists'.selected = setlists.selected /\ setlists'.rows = asked
    BY <1>1, <1>4, <1>5 DEF SetlistPanel
  <2>2. SetlistsInOrder'
    BY <1>1, <1>2, <2>1 DEF SetlistsInOrder
  <2>3. ~astray' => ~astray /\ RowsOfSelected'
    BY <1>5, <2>1 DEF RowsOfSelected
  <2> QED
    BY <1>2, <2>2, <2>3, SetlistsInv
<1>6. CASE /\ \E c \in Contents :
                setlists' = [setlists EXCEPT !.rows = IF @.content = Nothing THEN @ ELSE [of |-> asked.of, content |-> c]]
           /\ astray' = (astray \/ asked.of # setlists.rows.of)
  <2>1. PICK c \in Contents :
           setlists' = [setlists EXCEPT !.rows = IF @.content = Nothing THEN @ ELSE [of |-> asked.of, content |-> c]]
    BY <1>6
  <2>2. PICK rows : rows = IF setlists.rows.content = Nothing THEN setlists.rows ELSE [of |-> asked.of, content |-> c]
    OBVIOUS
  <2>3. setlists' = [setlists EXCEPT !.rows = rows]
    BY <1>1, <2>1, <2>2 DEF SetlistPanel
  <2>4. setlists.rows \in EditorRows /\ [of |-> asked.of, content |-> c] \in EditorRows
    BY <1>1, <1>4 DEF SetlistPanel, EditorRows, ContentOrNone
  <2>5. rows \in EditorRows /\ (setlists.rows.content = Nothing => rows.content = Nothing)
        /\ (asked.of = setlists.rows.of => rows.of = setlists.rows.of)
    BY <2>2, <2>4
  <2>6. setlists' \in SetlistPanel /\ setlists'.selected = setlists.selected /\ setlists'.rows = rows
    BY <1>1, <2>3, <2>5 DEF SetlistPanel
  <2>7. SetlistsInOrder'
    BY <1>1, <1>2, <2>6 DEF SetlistsInOrder
  <2>8. ~astray' => ~astray /\ RowsOfSelected'
    BY <1>1, <1>6, <2>5, <2>6 DEF RowsOfSelected
  <2> QED
    BY <1>2, <2>7, <2>8, SetlistsInv
<1>7. CASE UNCHANGED <<setlists, astray>>
  <2>1. SetlistsInOrder' /\ (~astray' => ~astray /\ RowsOfSelected')
    BY <1>1, <1>2, <1>7 DEF SetlistsInOrder, RowsOfSelected
  <2> QED
    BY <1>2, <2>1, SetlistsInv
<1> QED
  BY <1>3, <1>5, <1>6, <1>7 DEF RowsAnswered

----------------------------------------------------------------------------
\* What is known of the form and of the requests for Lives.
LEMMA LivesKnown ==
    ASSUME EditorInv
    PROVE  /\ editing \in LiveForm /\ liveLoads \in Seq(LiveRequest) /\ EditingInOrder
           /\ (~astray => OneAtATime /\ FieldsOfLive)
           /\ (~astray /\ Hands => /\ submit = <<>> /\ confirmation = <<>> /\ asking = <<>>
                                   /\ liveLoads = <<>> /\ ~Selects)
BY DEF EditorInv, EditingInOrder, Straight, OneAtATime, LoadingAlone, OneRequest, AskingAlone, Hands, Locked, Selects

\* A request for a Live joins those that are out.
LEMMA LoadJoins ==
    ASSUME liveLoads \in Seq(LiveRequest), NEW l \in EditorLives,
           liveLoads' = Append(liveLoads, [live |-> l, read |-> FALSE])
    PROVE  /\ liveLoads' \in Seq(LiveRequest) /\ liveLoads' # <<>>
           /\ (liveLoads = <<>> => Len(liveLoads') = 1 /\ ~liveLoads'[1].read)
<1>1. PICK r : r = [live |-> l, read |-> FALSE]
  OBVIOUS
<1>2. r \in LiveRequest /\ ~r.read
  BY <1>1 DEF LiveRequest
<1>3. liveLoads' \in Seq(LiveRequest) /\ Len(liveLoads') = Len(liveLoads) + 1 /\ liveLoads'[Len(liveLoads) + 1] = r
  BY <1>1, <1>2
<1>4. Len(liveLoads') # 0
  BY <1>3
<1>5. ASSUME liveLoads = <<>> PROVE Len(liveLoads') = 1 /\ ~liveLoads'[1].read
  <2>1. Len(liveLoads) = 0
    BY <1>5
  <2> QED
    BY <1>2, <1>3, <2>1
<1> QED
  BY <1>3, <1>4, <1>5, EmptySeq

\* The form, but for what it says of its loading.
LEMMA FormTouched ==
    ASSUME NEW e \in LiveForm, NEW on \in BOOLEAN
    PROVE  /\ [e EXCEPT !.loading = on] \in LiveForm
           /\ [e EXCEPT !.loading = on].live = e.live /\ [e EXCEPT !.loading = on].of = e.of
           /\ [e EXCEPT !.loading = on].loading = on
BY DEF LiveForm

LEMMA SelectLiveStep == ASSUME EditorInv, NEW l \in EditorLives, SelectLive(l) PROVE EditorInv'
<1>1. /\ editing \in LiveForm /\ liveLoads \in Seq(LiveRequest) /\ EditingInOrder
      /\ (~astray => OneAtATime /\ FieldsOfLive)
      /\ (~astray => submit = <<>> /\ confirmation = <<>> /\ asking = <<>> /\ liveLoads = <<>> /\ ~Selects)
  BY LivesKnown DEF SelectLive
<1>2. mode = "live_edit" /\ UNCHANGED <<serverVars, mode, setlistVars, liveQuery, formLookup, confirmation, submit, reported, astray>>
  BY DEF SelectLive
<1>3. CASE asking' = <<l>> /\ UNCHANGED <<editing, liveLoads>>
  <2>1. EditingInOrder'
    BY <1>1, <1>2, <1>3 DEF EditingInOrder, LiveOrNone
  <2>2. ~astray' => ~astray /\ OneAtATime' /\ FieldsOfLive'
    BY <1>1, <1>2, <1>3 DEF OneAtATime, LoadingAlone, OneRequest, AskingAlone, FieldsOfLive, Selects
  <2> QED
    BY <1>2, <2>1, <2>2, LivesInv
<1>4. CASE StartLiveLoad(l, TRUE) /\ UNCHANGED asking
  <2>1. /\ editing' \in LiveForm /\ editing'.live = editing.live /\ editing'.of = editing.of /\ editing'.loading
    BY <1>1, <1>4, FormTouched DEF StartLiveLoad
  <2>2. /\ liveLoads' \in Seq(LiveRequest) /\ liveLoads' # <<>>
        /\ (liveLoads = <<>> => Len(liveLoads') = 1 /\ ~liveLoads'[1].read)
    BY <1>1, <1>4, LoadJoins DEF StartLiveLoad
  <2>3. EditingInOrder'
    BY <1>1, <1>2, <1>4, <2>1, <2>2 DEF EditingInOrder
  <2>4. ASSUME ~astray PROVE OneAtATime' /\ FieldsOfLive'
    <3>1. OneAtATime'
      <4>1. LoadingAlone' /\ AskingAlone'
        BY <1>1, <1>2, <1>4, <2>1, <2>4, Zenon DEF LoadingAlone, AskingAlone, Selects
      <4>2. OneRequest'
        <5>1. liveLoads = <<>> /\ ~Selects
          BY <1>1, <2>4
        <5>2. Len(liveLoads') = 1 /\ ~Selects'
          BY <1>2, <2>2, <5>1 DEF Selects
        <5> QED
          BY <5>2 DEF OneRequest, Selects
      <4> QED
        BY <4>1, <4>2 DEF OneAtATime
    <3>2. FieldsOfLive'
      BY <1>1, <2>1, <2>2, <2>4 DEF FieldsOfLive
    <3> QED
      BY <3>1, <3>2
  <2> QED
    BY <1>2, <2>3, <2>4, LivesInv
<1> QED
  BY <1>3, <1>4 DEF SelectLive

LEMMA OpenLiveStep == ASSUME EditorInv, NEW l \in EditorLives, OpenLive(l) PROVE EditorInv'
<1>1. /\ editing \in LiveForm /\ liveLoads \in Seq(LiveRequest) /\ EditingInOrder
      /\ (~astray => OneAtATime /\ FieldsOfLive)
      /\ (~astray => submit = <<>> /\ confirmation = <<>> /\ asking = <<>> /\ liveLoads = <<>> /\ ~Selects)
  BY LivesKnown DEF OpenLive
<1>2. /\ mode' = "live_edit" /\ StartLiveLoad(l, TRUE) /\ liveQuery' = <<[first |-> FALSE]>>
      /\ UNCHANGED <<serverVars, setlistVars, formLookup, astray>>
      /\ UNCHANGED <<asking, confirmation, submit, reported>>
  BY DEF OpenLive, dialogVars
<1>3. /\ editing' \in LiveForm /\ editing'.live = editing.live /\ editing'.of = editing.of /\ editing'.loading
  BY <1>1, <1>2, FormTouched DEF StartLiveLoad
<1>4. /\ liveLoads' \in Seq(LiveRequest) /\ liveLoads' # <<>>
      /\ (liveLoads = <<>> => Len(liveLoads') = 1 /\ ~liveLoads'[1].read)
  BY <1>1, <1>2, LoadJoins DEF StartLiveLoad
<1>5. EditingInOrder'
  BY <1>1, <1>2, <1>3, <1>4 DEF EditingInOrder
<1>6. ASSUME ~astray PROVE OneAtATime' /\ FieldsOfLive'
  <2>1. ~Selects'
    BY <1>2 DEF Selects
  <2>2. LoadingAlone' /\ AskingAlone'
    BY <1>1, <1>2, <1>3, <1>6, Zenon DEF LoadingAlone, AskingAlone
  <2>3. OneRequest'
    <3>1. Len(liveLoads') = 1
      BY <1>1, <1>4, <1>6
    <3> QED
      BY <2>1, <3>1 DEF OneRequest
  <2>4. FieldsOfLive'
    BY <1>1, <1>3, <1>4, <1>6 DEF FieldsOfLive
  <2> QED
    BY <2>2, <2>3, <2>4 DEF OneAtATime
<1> QED
  BY <1>2, <1>5, <1>6, LivesInv

LEMMA QueryLivesStep == ASSUME EditorInv, QueryLives PROVE EditorInv'
<1>1. /\ editing \in LiveForm /\ EditingInOrder /\ (~astray => OneAtATime /\ FieldsOfLive)
      /\ (~astray => submit = <<>> /\ confirmation = <<>> /\ asking = <<>> /\ liveLoads = <<>>)
  BY LivesKnown DEF QueryLives
<1>2. /\ mode = "live_edit" /\ UNCHANGED <<serverVars, mode, setlistVars, liveLoads, formLookup, dialogVars, astray>>
      /\ UNCHANGED <<asking, confirmation, submit, reported>>
  BY DEF QueryLives, dialogVars
<1>3. editing' \in LiveForm /\ editing'.live = editing.live /\ editing'.of = editing.of /\ editing'.loading
  BY <1>1, FormTouched DEF QueryLives
<1>4. EditingInOrder'
  BY <1>1, <1>2, <1>3 DEF EditingInOrder
<1>5. ASSUME ~astray PROVE OneAtATime' /\ FieldsOfLive'
  <2>1. LoadingAlone' /\ AskingAlone'
    BY <1>1, <1>2, <1>3, <1>5, Zenon DEF LoadingAlone, AskingAlone, Selects
  <2>2. OneRequest'
    BY <1>1, <1>2, <1>5 DEF OneAtATime, OneRequest, Selects
  <2>3. FieldsOfLive'
    BY <1>1, <1>2, <1>3, <1>5 DEF FieldsOfLive
  <2> QED
    BY <2>1, <2>2, <2>3 DEF OneAtATime
<1> QED
  BY <1>2, <1>4, <1>5, LivesInv

LEMMA LivesAnsweredStep == ASSUME EditorInv, LivesAnswered PROVE EditorInv'
<1>1. /\ editing \in LiveForm /\ liveLoads \in Seq(LiveRequest) /\ EditingInOrder /\ liveQuery # <<>> /\ liveQuery' = <<>>
      /\ (~astray => OneAtATime /\ FieldsOfLive) /\ astray' = (astray \/ liveLoads' # <<>>)
      /\ UNCHANGED <<serverVars, mode, setlistVars, formLookup, confirmation, submit, reported>>
  BY LivesKnown DEF LivesAnswered
<1>2. CASE editing' = [editing EXCEPT !.loading = FALSE] /\ UNCHANGED <<liveLoads, asking>>
  <2>1. editing' \in LiveForm /\ editing'.live = editing.live /\ editing'.of = editing.of
    BY <1>1, <1>2, FormTouched
  <2>2. EditingInOrder'
    BY <1>1, <1>2, <2>1 DEF EditingInOrder
  <2>3. ~astray' => ~astray /\ OneAtATime' /\ FieldsOfLive'
    BY <1>1, <1>2, <2>1 DEF OneAtATime, LoadingAlone, OneRequest, AskingAlone, FieldsOfLive, Selects
  <2> QED
    BY <1>1, <2>2, <2>3, LivesInv
<1>3. CASE /\ liveQuery[1].first /\ submit = <<>> /\ confirmation = <<>> /\ asking = <<>>
           /\ \E match \in (EditorLives \union {Nothing}) \ {editing.live} :
                IF LiveDirty THEN /\ asking' = <<match>> /\ editing' = [editing EXCEPT !.loading = FALSE]
                                  /\ UNCHANGED liveLoads
                ELSE IF match = Nothing
                THEN editing' = FreshEditing(FALSE) /\ UNCHANGED <<liveLoads, asking>>
                ELSE /\ Len(liveLoads) < LoadsAtOnce /\ StartLiveLoad(match, FALSE) /\ UNCHANGED asking
  <2>1. PICK match \in LiveOrNone :
           \/ /\ asking' = <<match>> /\ editing' = [editing EXCEPT !.loading = FALSE] /\ UNCHANGED liveLoads
           \/ editing' = FreshEditing(FALSE) /\ UNCHANGED <<liveLoads, asking>>
           \/ match # Nothing /\ StartLiveLoad(match, FALSE) /\ UNCHANGED asking
    BY <1>3 DEF LiveOrNone
  <2>2. CASE asking' = <<match>> /\ editing' = [editing EXCEPT !.loading = FALSE] /\ UNCHANGED liveLoads
    <3>1. editing' \in LiveForm /\ editing'.live = editing.live /\ editing'.of = editing.of
      BY <1>1, <2>2, FormTouched
    <3>2. EditingInOrder'
      BY <1>1, <2>1, <2>2, <3>1 DEF EditingInOrder
    <3>3. ~astray' => ~astray /\ OneAtATime' /\ FieldsOfLive'
      BY <1>1, <1>3, <2>2, <3>1 DEF OneAtATime, LoadingAlone, OneRequest, AskingAlone, FieldsOfLive, Selects
    <3> QED
      BY <1>1, <3>2, <3>3, LivesInv
  <2>3. CASE editing' = FreshEditing(FALSE) /\ UNCHANGED <<liveLoads, asking>>
    <3>1. editing' \in LiveForm /\ editing'.live = Nothing
      BY <2>3 DEF FreshEditing, LiveForm, LiveOrNone
    <3>2. EditingInOrder'
      BY <1>1, <2>3, <3>1 DEF EditingInOrder
    <3>3. ~astray' => ~astray /\ OneAtATime' /\ FieldsOfLive'
      BY <1>1, <1>3, <2>3, <3>1 DEF OneAtATime, LoadingAlone, OneRequest, AskingAlone, FieldsOfLive, Selects
    <3> QED
      BY <1>1, <3>2, <3>3, LivesInv
  <2>4. CASE match # Nothing /\ StartLiveLoad(match, FALSE) /\ UNCHANGED asking
    <3>1. match \in EditorLives
      BY <2>1, <2>4 DEF LiveOrNone
    <3>2. editing' \in LiveForm /\ liveLoads' \in Seq(LiveRequest) /\ liveLoads' # <<>>
      BY <1>1, <2>4, <3>1, FormTouched, LoadJoins DEF StartLiveLoad
    <3>3. EditingInOrder'
      BY <1>1, <2>4, <3>2 DEF EditingInOrder
    <3>4. astray'
      BY <1>1, <3>2
    <3> QED
      BY <1>1, <3>3, <3>4, LivesInv
  <2> QED
    BY <2>1, <2>2, <2>3, <2>4
<1> QED
  BY <1>2, <1>3 DEF LivesAnswered

LEMMA LiveReadStep == ASSUME EditorInv, NEW i \in DOMAIN liveLoads, LiveRead(i) PROVE EditorInv'
<1>1. /\ editing \in LiveForm /\ liveLoads \in Seq(LiveRequest) /\ EditingInOrder /\ i \in 1..Len(liveLoads)
      /\ (~astray => OneAtATime /\ FieldsOfLive)
  BY LivesKnown
<1>2. /\ UNCHANGED <<serverVars, mode, setlistVars, liveQuery, formLookup, dialogVars, astray>>
      /\ UNCHANGED <<asking, confirmation, submit, reported>>
  BY DEF LiveRead, dialogVars
<1>3. PICK r : r = [liveLoads[i] EXCEPT !.read = TRUE]
  OBVIOUS
<1>4. r \in LiveRequest /\ r.live = liveLoads[i].live /\ r.live \in LiveOrNone
  <2>1. liveLoads[i] \in LiveRequest
    BY <1>1
  <2> QED
    BY <1>3, <2>1 DEF LiveRequest, LiveOrNone
<1>5. liveLoads' = [liveLoads EXCEPT ![i] = r]
  BY <1>3 DEF LiveRead
<1>6. liveLoads' \in Seq(LiveRequest) /\ Len(liveLoads') = Len(liveLoads) /\ liveLoads'[i] = r
  BY <1>1, <1>4, <1>5
<1>7. PICK l : l = r.live
  OBVIOUS
<1>8. editing' = [editing EXCEPT !.live = l] /\ l \in LiveOrNone
  BY <1>4, <1>7 DEF LiveRead
<1>9. /\ editing' \in LiveForm /\ editing'.live = l /\ editing'.loading = editing.loading
  BY <1>1, <1>8 DEF LiveForm
<1>10. EditingInOrder'
  BY <1>1, <1>2, <1>6, <1>9 DEF EditingInOrder
<1>11. ASSUME ~astray PROVE OneAtATime' /\ FieldsOfLive'
  <2>1. Len(liveLoads) = 1 /\ i = 1 /\ liveLoads # <<>>
    <3>1. Len(liveLoads) <= 1
      BY <1>1, <1>11 DEF OneAtATime, OneRequest, Selects
    <3>2. PICK n : n = Len(liveLoads)
      OBVIOUS
    <3>3. n \in Nat /\ i \in 1..n /\ n <= 1
      BY <1>1, <3>1, <3>2
    <3>4. n = 1 /\ i = 1
      BY <3>3
    <3> QED
      BY <3>2, <3>4
  <2>2. liveLoads' # <<>> /\ Len(liveLoads') <= 1
    BY <1>6, <2>1, EmptySeq
  <2>3. LoadingAlone' /\ AskingAlone' /\ ~Selects
    BY <1>1, <1>2, <1>9, <1>11, <2>1 DEF OneAtATime, LoadingAlone, AskingAlone, OneRequest, Selects
  <2>4. OneRequest'
    BY <1>2, <2>2, <2>3 DEF OneRequest, Selects
  <2>5. r.read
    BY <1>1, <1>3 DEF LiveRequest
  <2>6. FieldsOfLive'
    BY <1>6, <1>7, <1>9, <2>1, <2>2, <2>5 DEF FieldsOfLive
  <2> QED
    BY <2>3, <2>4, <2>6 DEF OneAtATime
<1> QED
  BY <1>2, <1>10, <1>11, LivesInv

LEMMA LiveLoadedStep == ASSUME EditorInv, NEW i \in DOMAIN liveLoads, LiveLoaded(i) PROVE EditorInv'
<1>1. /\ editing \in LiveForm /\ liveLoads \in Seq(LiveRequest) /\ EditingInOrder /\ i \in 1..Len(liveLoads)
      /\ (~astray => OneAtATime /\ FieldsOfLive)
  BY LivesKnown
<1>2. /\ UNCHANGED <<serverVars, mode, setlistVars, liveQuery, formLookup, dialogVars, astray>>
      /\ UNCHANGED <<asking, confirmation, submit, reported>>
  BY DEF LiveLoaded, dialogVars
<1>3. PICK front, back : front = SubSeq(liveLoads, 1, i - 1) /\ back = SubSeq(liveLoads, i + 1, Len(liveLoads))
  OBVIOUS
<1>4. /\ front \in Seq(LiveRequest) /\ back \in Seq(LiveRequest)
      /\ Len(front) = i - 1 /\ Len(back) = Len(liveLoads) - i
  <2>1. PICK n : n = Len(liveLoads)
    OBVIOUS
  <2>2. n \in Nat /\ i \in 1..n
    BY <1>1, <2>1
  <2>3. front \in Seq(LiveRequest) /\ Len(front) = i - 1
    BY <1>1, <1>3, <2>1, <2>2
  <2>4. back \in Seq(LiveRequest) /\ Len(back) = IF i + 1 <= n THEN n - (i + 1) + 1 ELSE 0
    <3>1. \A k \in i + 1 .. n : liveLoads[k] \in LiveRequest
      BY <1>1, <2>1, <2>2
    <3> QED
      BY <1>1, <1>3, <2>1, <2>2, <3>1, SubSeqProperties
  <2> QED
    BY <2>1, <2>2, <2>3, <2>4
<1>5. liveLoads' \in Seq(LiveRequest) /\ Len(liveLoads') = Len(liveLoads) - 1
  <2>1. liveLoads' = front \o back
    BY <1>3 DEF LiveLoaded
  <2>2. liveLoads' \in Seq(LiveRequest) /\ Len(liveLoads') = Len(front) + Len(back)
    BY <1>4, <2>1, ConcatProperties
  <2>3. Len(liveLoads) \in Nat /\ i \in Nat
    BY <1>1
  <2> QED
    BY <1>4, <2>2, <2>3
<1>6. liveLoads[i] \in LiveRequest /\ liveLoads[i].live \in LiveOrNone
  <2>1. liveLoads[i] \in LiveRequest
    BY <1>1
  <2> QED
    BY <2>1 DEF LiveRequest, LiveOrNone
<1>7. CASE /\ liveLoads[i].read
           /\ editing' = [editing EXCEPT !.of = liveLoads[i].live, !.edited = FALSE, !.loading = FALSE]
  <2>1. PICK l : l = liveLoads[i].live
    OBVIOUS
  <2>2. editing' \in LiveForm /\ editing'.of = l /\ editing'.live = editing.live
    BY <1>1, <1>6, <1>7, <2>1 DEF LiveForm
  <2>3. EditingInOrder'
    BY <1>1, <1>2, <1>5, <2>2 DEF EditingInOrder
  <2>4. ASSUME ~astray PROVE OneAtATime' /\ FieldsOfLive'
    <3>1. i = 1 /\ liveLoads' = <<>> /\ liveLoads # <<>>
      <4>1. Len(liveLoads) <= 1
        BY <1>1, <2>4 DEF OneAtATime, OneRequest, Selects
      <4>2. PICK n : n = Len(liveLoads)
        OBVIOUS
      <4>3. n \in Nat /\ i \in 1..n /\ n <= 1
        BY <1>1, <4>1, <4>2
      <4>4. n = 1 /\ i = 1
        BY <4>3
      <4>5. Len(liveLoads') = 0 /\ Len(liveLoads) # 0
        BY <1>5, <4>2, <4>4
      <4> QED
        BY <1>1, <1>5, <4>4, <4>5, EmptySeq
    <3>2. OneAtATime'
      BY <1>1, <1>2, <2>4, <3>1 DEF OneAtATime, LoadingAlone, AskingAlone, OneRequest, Selects
    <3>3. FieldsOfLive'
      BY <1>1, <1>7, <2>1, <2>2, <2>4, <3>1 DEF FieldsOfLive
    <3> QED
      BY <3>2, <3>3
  <2> QED
    BY <1>2, <2>3, <2>4, LivesInv
<1>8. CASE ~liveLoads[i].read /\ editing' = [editing EXCEPT !.loading = FALSE]
  <2>2. editing' \in LiveForm /\ editing'.of = editing.of /\ editing'.live = editing.live
    BY <1>1, <1>8, FormTouched
  <2>3. EditingInOrder'
    BY <1>1, <1>2, <1>5, <2>2 DEF EditingInOrder
  <2>4. ASSUME ~astray PROVE OneAtATime' /\ FieldsOfLive'
    <3>1. i = 1 /\ liveLoads' = <<>> /\ liveLoads # <<>>
      <4>1. Len(liveLoads) <= 1
        BY <1>1, <2>4 DEF OneAtATime, OneRequest, Selects
      <4>2. PICK n : n = Len(liveLoads)
        OBVIOUS
      <4>3. n \in Nat /\ i \in 1..n /\ n <= 1
        BY <1>1, <4>1, <4>2
      <4>4. n = 1 /\ i = 1
        BY <4>3
      <4>5. Len(liveLoads') = 0 /\ Len(liveLoads) # 0
        BY <1>5, <4>2, <4>4
      <4> QED
        BY <1>1, <1>5, <4>4, <4>5, EmptySeq
    <3>2. OneAtATime'
      BY <1>1, <1>2, <2>4, <3>1 DEF OneAtATime, LoadingAlone, AskingAlone, OneRequest, Selects
    <3>3. FieldsOfLive'
      BY <1>1, <1>8, <2>2, <2>4, <3>1 DEF FieldsOfLive
    <3> QED
      BY <3>2, <3>3
  <2> QED
    BY <1>2, <2>3, <2>4, LivesInv
<1> QED
  BY <1>7, <1>8 DEF LiveLoaded

LEMMA EditLiveStep == ASSUME EditorInv, EditLive PROVE EditorInv'
<1>1. /\ editing \in LiveForm /\ EditingInOrder /\ (~astray => OneAtATime /\ FieldsOfLive)
  BY LivesKnown
<1>2. /\ UNCHANGED <<serverVars, mode, setlistVars, liveQuery, liveLoads, formLookup, dialogVars, astray>>
      /\ UNCHANGED <<asking, confirmation, submit, reported>>
  BY DEF EditLive, dialogVars
<1>3. /\ editing' \in LiveForm /\ editing'.live = editing.live /\ editing'.of = editing.of
      /\ editing'.loading = editing.loading
  BY <1>1 DEF EditLive, LiveForm
<1>4. EditingInOrder'
  BY <1>1, <1>2, <1>3 DEF EditingInOrder
<1>5. ~astray => OneAtATime' /\ FieldsOfLive'
  BY <1>1, <1>2, <1>3 DEF OneAtATime, LoadingAlone, AskingAlone, OneRequest, FieldsOfLive, Selects
<1> QED
  BY <1>2, <1>4, <1>5, LivesInv

LEMMA LookUpForFormStep == ASSUME EditorInv, LookUpForForm PROVE EditorInv'
<1>1. /\ editing \in LiveForm /\ EditingInOrder /\ (~astray => OneAtATime /\ FieldsOfLive)
  BY LivesKnown
<1>2. /\ UNCHANGED <<serverVars, mode, setlistVars, editing, liveQuery, liveLoads, astray>>
      /\ UNCHANGED <<asking, confirmation, submit, reported>> /\ formLookup' = <<editing.of>>
  BY DEF LookUpForForm, dialogVars
<1>3. editing.of \in LiveOrNone
  BY <1>1 DEF LiveForm
<1>4. EditingInOrder'
  BY <1>1, <1>2, <1>3 DEF EditingInOrder
<1>5. ~astray => OneAtATime' /\ FieldsOfLive'
  BY <1>1, <1>2 DEF OneAtATime, LoadingAlone, AskingAlone, OneRequest, FieldsOfLive, Selects
<1> QED
  BY <1>2, <1>4, <1>5, LivesInv

LEMMA FormAnsweredStep == ASSUME EditorInv, FormAnswered PROVE EditorInv'
<1>1. /\ editing \in LiveForm /\ EditingInOrder /\ (~astray => OneAtATime /\ FieldsOfLive)
  BY LivesKnown
<1>2. /\ UNCHANGED <<serverVars, mode, setlistVars, liveQuery, liveLoads>> /\ formLookup # <<>> /\ formLookup' = <<>>
      /\ UNCHANGED <<asking, confirmation, submit, reported>>
  BY DEF FormAnswered, dialogVars
<1>3. PICK l : l = formLookup[1]
  OBVIOUS
<1>4. l \in LiveOrNone
  BY <1>1, <1>2, <1>3 DEF EditingInOrder
<1>5. CASE editing' = [editing EXCEPT !.of = l, !.edited = TRUE] /\ astray' = (astray \/ l # editing.of)
  <2>1. /\ editing' \in LiveForm /\ editing'.live = editing.live /\ editing'.of = l
        /\ editing'.loading = editing.loading
    BY <1>1, <1>4, <1>5 DEF LiveForm
  <2>2. EditingInOrder'
    BY <1>1, <1>2, <2>1 DEF EditingInOrder
  <2>3. ~astray' => ~astray /\ OneAtATime' /\ FieldsOfLive'
    BY <1>1, <1>2, <1>5, <2>1 DEF OneAtATime, LoadingAlone, AskingAlone, OneRequest, FieldsOfLive, Selects
  <2> QED
    BY <1>2, <2>2, <2>3, LivesInv
<1>6. CASE UNCHANGED <<editing, astray>>
  <2>1. EditingInOrder'
    BY <1>1, <1>2, <1>6 DEF EditingInOrder
  <2>2. ~astray' => ~astray /\ OneAtATime' /\ FieldsOfLive'
    BY <1>1, <1>2, <1>6 DEF OneAtATime, LoadingAlone, AskingAlone, OneRequest, FieldsOfLive, Selects
  <2> QED
    BY <1>2, <2>1, <2>2, LivesInv
<1> QED
  BY <1>3, <1>5, <1>6 DEF FormAnswered

----------------------------------------------------------------------------
LEMMA KeepDraftStep == ASSUME EditorInv, KeepDraft PROVE EditorInv'
<1>1. EditingInOrder /\ (~astray => OneAtATime /\ FieldsOfLive)
  BY LivesKnown
<1>2. /\ UNCHANGED <<serverVars, mode, setlistVars, liveVars, confirmation, submit, reported, astray>>
      /\ UNCHANGED <<editing, liveQuery, liveLoads, formLookup>> /\ asking' = <<>>
  BY DEF KeepDraft, liveVars
<1>3. EditingInOrder'
  BY <1>1, <1>2 DEF EditingInOrder
<1>4. ~astray => OneAtATime' /\ FieldsOfLive'
  BY <1>1, <1>2 DEF OneAtATime, LoadingAlone, AskingAlone, OneRequest, FieldsOfLive, Selects
<1> QED
  BY <1>2, <1>3, <1>4, LivesInv

LEMMA DiscardDraftStep == ASSUME EditorInv, DiscardDraft PROVE EditorInv'
<1>1. /\ editing \in LiveForm /\ liveLoads \in Seq(LiveRequest) /\ EditingInOrder
      /\ (~astray => OneAtATime /\ FieldsOfLive)
      /\ setlists \in SetlistPanel /\ SetlistsInOrder
  BY LivesKnown DEF EditorInv, SetlistsInOrder
<1>2. /\ asking # <<>> /\ asking' = <<>>
      /\ UNCHANGED <<serverVars, mode, pageLoad, lookup, liveQuery, formLookup, confirmation, submit, reported, astray>>
  BY DEF DiscardDraft
<1>3. PICK l : l = asking[1]
  OBVIOUS
<1>4. l \in LiveOrNone
  BY <1>1, <1>2, <1>3 DEF EditingInOrder
<1>5. CASE mode = "setlist_edit"
  <2>1. /\ setlistLoad' = <<[live |-> l, first |-> TRUE, read |-> <<>>]>>
        /\ setlists' = [setlists EXCEPT !.original = Nothing, !.rows = Blank, !.loading = TRUE]
        /\ UNCHANGED <<editing, liveLoads>>
    BY <1>3, <1>5 DEF DiscardDraft
  <2>2. setlistLoad'[1] \in SetlistRequest
    BY <1>4, <2>1, SetlistRequests
  <2>3. setlists' \in SetlistPanel /\ setlists'.rows = Blank
    BY <1>1, <2>1, BlankRows DEF SetlistPanel, ContentOrNone
  <2>4. SetlistsInOrder' /\ RowsOfSelected'
    BY <1>1, <1>2, <2>2, <2>3, BlankRows DEF SetlistsInOrder, RowsOfSelected
  <2>5. EditingInOrder'
    BY <1>1, <1>2, <2>1 DEF EditingInOrder
  <2>6. ~astray => OneAtATime' /\ FieldsOfLive'
    BY <1>1, <1>2, <2>1 DEF OneAtATime, LoadingAlone, AskingAlone, OneRequest, FieldsOfLive, Selects
  <2> QED
    BY <1>2, <2>4, <2>5, <2>6, PanelInv
<1>6. CASE mode # "setlist_edit"
  <2>1. SetlistsInOrder' /\ (~astray => RowsOfSelected') /\ UNCHANGED setlistVars
    BY <1>2, <1>6, SetlistsStay DEF DiscardDraft, setlistVars
  <2>2. CASE editing' = FreshEditing(editing.loading) /\ UNCHANGED liveLoads
    <3>1. PICK loading : loading = editing.loading
      OBVIOUS
    <3>2. editing' = [live |-> Nothing, of |-> Nothing, edited |-> FALSE, loading |-> loading] /\ loading \in BOOLEAN
      BY <1>1, <2>2, <3>1 DEF FreshEditing, LiveForm
    <3>3. editing' \in LiveForm /\ editing'.live = Nothing
      BY <3>2 DEF LiveForm, LiveOrNone
    <3>4. EditingInOrder'
      BY <1>1, <1>2, <2>2, <3>3 DEF EditingInOrder
    <3>5. ASSUME ~astray PROVE OneAtATime' /\ FieldsOfLive'
      <4>1. liveLoads = <<>> /\ ~Selects
        BY <1>1, <1>2, <3>5 DEF OneAtATime, LoadingAlone, Selects
      <4> QED
        BY <1>1, <1>2, <2>2, <3>3, <3>5, <4>1 DEF OneAtATime, LoadingAlone, AskingAlone, OneRequest, FieldsOfLive, Selects
    <3> QED
      BY <1>2, <2>1, <3>4, <3>5, PanelInv
  <2>3. CASE /\ l # Nothing /\ liveLoads' = Append(liveLoads, [live |-> l, read |-> FALSE])
             /\ editing' = [editing EXCEPT !.of = editing.live, !.edited = FALSE, !.loading = TRUE]
    <3>1. /\ editing' \in LiveForm /\ editing'.live = editing.live /\ editing'.of = editing.live /\ editing'.loading
      BY <1>1, <2>3 DEF LiveForm
    <3>2. /\ liveLoads' \in Seq(LiveRequest) /\ liveLoads' # <<>>
          /\ (liveLoads = <<>> => Len(liveLoads') = 1 /\ ~liveLoads'[1].read)
      BY <1>1, <1>4, <2>3, LoadJoins DEF LiveOrNone
    <3>3. EditingInOrder'
      BY <1>1, <1>2, <3>1, <3>2 DEF EditingInOrder
    <3>4. ASSUME ~astray PROVE OneAtATime' /\ FieldsOfLive'
      <4>1. /\ liveLoads = <<>> /\ ~Selects /\ submit = <<>> /\ confirmation = <<>>
            /\ mode \in {"setlist_edit", "live_edit"}
        BY <1>1, <1>2, <3>4 DEF OneAtATime, LoadingAlone, AskingAlone, Selects
      <4>2. mode = "live_edit"
        BY <1>1, <1>6, <4>1 DEF EditingInOrder
      <4>3. LoadingAlone' /\ AskingAlone'
        BY <1>2, <3>1, <4>1, <4>2, Zenon DEF LoadingAlone, AskingAlone, Selects
      <4>4. OneRequest'
        BY <1>2, <3>2, <4>1 DEF OneRequest, Selects
      <4>5. FieldsOfLive'
        BY <3>1, <3>2, <4>1 DEF FieldsOfLive
      <4> QED
        BY <4>3, <4>4, <4>5 DEF OneAtATime
    <3> QED
      BY <1>2, <2>1, <3>3, <3>4, PanelInv
  <2> QED
    BY <1>3, <1>6, <2>2, <2>3 DEF DiscardDraft
<1> QED
  BY <1>5, <1>6

\* What is confirmed is of the panel's moment, and only where nothing else goes on.
LEMMA ConfirmationInv ==
    ASSUME EditorInv, UNCHANGED <<serverVars, mode, setlistVars, liveVars, asking, reported, astray>>,
           ConfirmationInOrder', SubmitInOrder',
           ~astray => /\ confirmation' # <<>> => Order'.of = Order'.live
                      /\ confirmation' # <<>> \/ submit' # <<>> => ~Selects /\ liveLoads = <<>> /\ asking = <<>>
    PROVE  EditorInv'
<1>1. ServerInOrder' /\ (reported \subseteq written)'
  BY DEF EditorInv, ServerInOrder, serverVars
<1>2. SetlistsInOrder' /\ (~astray => RowsOfSelected')
  BY SetlistsStay
<1>3. EditingInOrder' /\ (~astray => OneAtATime' /\ FieldsOfLive')
  BY DEF EditorInv, Straight, EditingInOrder, OneAtATime, LoadingAlone, AskingAlone, OneRequest, FieldsOfLive, liveVars, Selects
<1>4. Straight'
  BY <1>2, <1>3 DEF Straight
<1> QED
  BY <1>1, <1>2, <1>3, <1>4 DEF EditorInv

LEMMA RequestStep == ASSUME EditorInv, Request PROVE EditorInv'
<1>1. /\ setlists \in SetlistPanel /\ editing \in LiveForm /\ (~astray => RowsOfSelected /\ FieldsOfLive /\ OneAtATime)
  BY LivesKnown DEF EditorInv, SetlistsInOrder, Straight
<1>2. /\ Hands /\ UNCHANGED <<serverVars, mode, setlistVars, liveVars, asking, submit, reported, astray>>
      /\ submit = <<>> /\ confirmation = <<>> /\ asking = <<>>
  BY DEF Request, Hands, Locked
<1>3. PICK o : /\ confirmation' = <<o>> /\ o \in EditorOrder
               /\ o.kind # "live" => o.live \in EditorLives /\ o.content # Nothing
               /\ ~astray => o.of = o.live /\ liveLoads = <<>> /\ ~Selects
  <2>1. CASE /\ mode \in {"setlist", "setlist_edit"} /\ setlists.selected \in setlists.lives /\ setlists.rows.content # Nothing
             /\ \E kind \in {"append", "update"} :
                   confirmation' = <<[kind |-> kind, live |-> setlists.selected, of |-> setlists.rows.of,
                                      content |-> setlists.rows.content]>>
    <3>1. PICK l, rows : l = setlists.selected /\ rows = setlists.rows
      OBVIOUS
    <3>2. /\ l \in EditorLives /\ l \in LiveOrNone /\ rows \in EditorRows /\ rows.content # Nothing
          /\ (~astray => rows.of = l)
      BY <1>1, <2>1, <3>1, NumbersAreSome DEF SetlistPanel, RowsOfSelected
    <3>3. PICK kind \in {"append", "update"} :
             confirmation' = <<[kind |-> kind, live |-> l, of |-> rows.of, content |-> rows.content]>>
      BY <2>1, <3>1
    <3>4. PICK o : o = [kind |-> kind, live |-> l, of |-> rows.of, content |-> rows.content]
      OBVIOUS
    <3>5. o \in EditorOrder /\ o.live = l /\ o.of = rows.of /\ o.content = rows.content
      BY <3>2, <3>4 DEF EditorOrder, EditorRows
    <3>6. ~astray => liveLoads = <<>> /\ ~Selects
      BY <1>1, <2>1 DEF OneAtATime, LoadingAlone, Selects
    <3> QED
      BY <3>2, <3>3, <3>4, <3>5, <3>6
  <2>2. CASE /\ LiveDirty
             /\ confirmation' = <<[kind |-> "live", live |-> editing.live, of |-> editing.of, content |-> Nothing]>>
    <3>1. PICK o : o = [kind |-> "live", live |-> editing.live, of |-> editing.of, content |-> Nothing]
      OBVIOUS
    <3>2. o \in EditorOrder /\ o.live = editing.live /\ o.of = editing.of /\ o.kind = "live"
      BY <1>1, <3>1 DEF EditorOrder, LiveForm, ContentOrNone
    <3>3. ~astray => liveLoads = <<>> /\ ~Selects
      BY <1>2, <2>2, LivesKnown DEF LiveDirty
    <3>4. ~astray => o.of = o.live
      BY <1>1, <2>2, <3>2, <3>3 DEF LiveDirty, FieldsOfLive
    <3> QED
      BY <2>2, <3>1, <3>2, <3>3, <3>4
  <2> QED
    BY <2>1, <2>2 DEF Request, SetlistDirty
<1>4. Order' = o /\ confirmation' # <<>> /\ confirmation' \in Seq(EditorOrder)
  BY <1>3 DEF Order
<1>5. ConfirmationInOrder'
  BY <1>3, <1>4 DEF ConfirmationInOrder
<1>6. SubmitInOrder'
  BY <1>2 DEF SubmitInOrder
<1> QED
  BY <1>2, <1>3, <1>4, <1>5, <1>6, ConfirmationInv

LEMMA CancelStep == ASSUME EditorInv, Cancel PROVE EditorInv'
<1>1. /\ confirmation' = <<>> /\ submit = <<>> /\ submit' = <<>>
      /\ UNCHANGED <<serverVars, mode, setlistVars, liveVars, asking, submit, reported, astray>>
  BY DEF Cancel
<1>2. ConfirmationInOrder' /\ SubmitInOrder'
  BY <1>1 DEF ConfirmationInOrder, SubmitInOrder
<1> QED
  BY <1>1, <1>2, ConfirmationInv

LEMMA ConfirmStep == ASSUME EditorInv, Confirm PROVE EditorInv'
<1>1. /\ confirmation # <<>> /\ submit = <<>> /\ ServerInOrder /\ ConfirmationInOrder /\ setlists \in SetlistPanel
      /\ (~astray => /\ RowsOfSelected /\ OneAtATime /\ FieldsOfLive /\ Order.of = Order.live)
  BY DEF EditorInv, Confirm, SetlistsInOrder, Straight
<1>2. UNCHANGED <<stored, written, others, mode, setlistVars, liveVars, asking, confirmation, reported, astray>>
  BY DEF Confirm
<1>3. Order \in EditorOrder
  BY <1>1 DEF ConfirmationInOrder
<1>4. PICK job : job = [order |-> Order, state |-> "out"]
  OBVIOUS
<1>5. job \in EditorJob /\ job.order = Order /\ job.state = "out"
  BY <1>3, <1>4 DEF EditorJob
<1>6. jobs' = Append(jobs, job)
  BY <1>4 DEF Confirm, Order
<1>7. /\ jobs' \in Seq(EditorJob) /\ Len(jobs') = Len(jobs) + 1 /\ jobs'[Len(jobs')] = job /\ Len(jobs) \in Nat
      /\ \A j \in 1..Len(jobs) : jobs'[j] = jobs[j]
  BY <1>1, <1>5, <1>6 DEF ServerInOrder
<1>8. ServerInOrder'
  <2>1. \A j \in 1..Len(jobs') : jobs'[j].state = "done" /\ jobs'[j].order.kind # "live" =>
           <<jobs'[j].order.live, jobs'[j].order.content>> \in written
    <3> TAKE j \in 1..Len(jobs')
    <3>1. CASE j = Len(jobs')
      BY <1>5, <1>7, <3>1
    <3>2. CASE j # Len(jobs')
      <4>1. j \in 1..Len(jobs) /\ jobs'[j] = jobs[j]
        BY <1>7, <3>2
      <4> QED
        BY <1>1, <4>1 DEF ServerInOrder
    <3> QED
      BY <3>1, <3>2
  <2> QED
    BY <1>1, <1>2, <1>7, <2>1 DEF ServerInOrder
<1>9. Order' = Order
  BY <1>2 DEF Order
<1>10. ConfirmationInOrder'
  BY <1>1, <1>2, <1>9 DEF ConfirmationInOrder
<1>11. SubmitInOrder'
  <2>1. PICK sub : sub = [stage |-> "sent", lives |-> setlists.lives, status |-> "", read |-> Nothing]
    OBVIOUS
  <2>2. sub \in EditorSubmit /\ sub.stage = "sent" /\ submit' = <<sub>>
    BY <1>1, <2>1 DEF Confirm, EditorSubmit, SetlistPanel, ContentOrNone
  <2>3. submit'[1] = sub
    BY <2>2
  <2>4. Len(jobs') > 0 /\ jobs'[Len(jobs')].order = Order'
    BY <1>5, <1>7, <1>9
  <2> QED
    BY <1>1, <1>2, <2>2, <2>3, <2>4 DEF SubmitInOrder
<1>12. SetlistsInOrder' /\ (~astray => RowsOfSelected')
  BY <1>2, SetlistsStay
<1>13. EditingInOrder' /\ (~astray => OneAtATime' /\ FieldsOfLive')
  <2>1. EditingInOrder
    BY DEF EditorInv
  <2>2. UNCHANGED <<editing, liveQuery, liveLoads, formLookup>>
    BY <1>2 DEF liveVars
  <2> QED
    BY <1>1, <1>2, <2>1, <2>2
       DEF EditingInOrder, OneAtATime, LoadingAlone, AskingAlone, OneRequest, FieldsOfLive, Selects
<1>14. Straight'
  BY <1>1, <1>2, <1>9, <1>12, <1>13 DEF Straight
<1> QED
  BY <1>2, <1>8, <1>10, <1>11, <1>12, <1>13, <1>14 DEF EditorInv

----------------------------------------------------------------------------
\* The server's steps touch nothing of the panel.
LEMMA ServerInv ==
    ASSUME EditorInv, UNCHANGED <<mode, setlistVars, liveVars, dialogVars, astray>>,
           ServerInOrder', written \subseteq written', Len(jobs') = Len(jobs),
           \A j \in 1..Len(jobs) : jobs'[j].order = jobs[j].order
    PROVE  EditorInv'
<1>1. UNCHANGED <<asking, confirmation, submit, reported>> /\ Order' = Order
  BY DEF dialogVars, Order
<1>2. ConfirmationInOrder' /\ (reported \subseteq written)'
  BY <1>1 DEF EditorInv, ConfirmationInOrder
<1>3. SubmitInOrder'
  <2>1. jobs \in Seq(EditorJob) /\ SubmitInOrder
    BY DEF EditorInv, ServerInOrder
  <2>2. Len(jobs) > 0 => Len(jobs) \in 1..Len(jobs)
    BY <2>1
  <2> QED
    BY <1>1, <2>1, <2>2 DEF SubmitInOrder
<1>4. SetlistsInOrder' /\ (~astray => RowsOfSelected')
  BY SetlistsStay
<1>5. EditingInOrder' /\ (~astray => OneAtATime' /\ FieldsOfLive')
  BY <1>1, LivesStay
<1>6. Straight'
  BY <1>1, <1>4, <1>5 DEF EditorInv, Straight
<1> QED
  BY <1>2, <1>3, <1>4, <1>5, <1>6 DEF EditorInv

LEMMA StoreKeeps ==
    ASSUME ServerInOrder, NEW l, NEW c \in ContentOrNone, Store(l, c)
    PROVE  /\ stored' \in [EditorLives -> ContentOrNone] /\ written \subseteq written' /\ <<l, c>> \in written'
           /\ \A k \in EditorLives : stored'[k] # Nothing => <<k, stored'[k]>> \in written'
<1>1. stored' = [stored EXCEPT ![l] = c] /\ written' = written \union {<<l, c>>}
  BY DEF Store
<1>2. stored \in [EditorLives -> ContentOrNone]
      /\ \A k \in EditorLives : stored[k] # Nothing => <<k, stored[k]>> \in written
  BY DEF ServerInOrder
<1>3. \A k \in EditorLives : stored'[k] = IF k = l THEN c ELSE stored[k]
  BY <1>1, <1>2
<1>4. stored' \in [EditorLives -> ContentOrNone]
  BY <1>1, <1>2
<1>5. ASSUME NEW k \in EditorLives, stored'[k] # Nothing PROVE <<k, stored'[k]>> \in written'
  BY <1>1, <1>2, <1>3, <1>5
<1> QED
  BY <1>1, <1>4, <1>5

LEMMA ServeStep == ASSUME EditorInv, NEW j \in DOMAIN jobs, Serve(j) PROVE EditorInv'
<1>1. ServerInOrder /\ jobs \in Seq(EditorJob) /\ j \in 1..Len(jobs)
  BY DEF EditorInv, ServerInOrder
<1>2. jobs[j] \in EditorJob /\ UNCHANGED <<mode, setlistVars, liveVars, dialogVars, astray>>
  BY <1>1 DEF Serve
<1>3. PICK order : order = jobs[j].order
  OBVIOUS
<1>4. order \in EditorOrder /\ order.content \in ContentOrNone
  BY <1>2, <1>3 DEF EditorJob, EditorOrder
<1>5. PICK state \in {"done", "refused"} :
         /\ jobs' = [jobs EXCEPT ![j].state = state]
         /\ \/ UNCHANGED <<stored, written>> /\ (state = "done" => order.kind = "live")
            \/ Store(order.live, order.content)
  BY <1>3 DEF Serve
<1>6. PICK job : job = [jobs[j] EXCEPT !.state = state]
  OBVIOUS
<1>7. job \in EditorJob /\ job.order = order /\ job.state = state
  BY <1>2, <1>3, <1>6 DEF EditorJob
<1>8. jobs' = [jobs EXCEPT ![j] = job]
  BY <1>5, <1>6
<1>9. /\ jobs' \in Seq(EditorJob) /\ Len(jobs') = Len(jobs) /\ jobs'[j] = job
      /\ \A k \in 1..Len(jobs) : k # j => jobs'[k] = jobs[k]
  BY <1>1, <1>7, <1>8
<1>10. \A k \in 1..Len(jobs) : jobs'[k].order = jobs[k].order
  BY <1>3, <1>7, <1>9
<1>11. /\ stored' \in [EditorLives -> ContentOrNone] /\ written \subseteq written'
       /\ \A k \in EditorLives : stored'[k] # Nothing => <<k, stored'[k]>> \in written'
       /\ state = "done" /\ order.kind # "live" => <<order.live, order.content>> \in written'
  <2>1. CASE UNCHANGED <<stored, written>> /\ (state = "done" => order.kind = "live")
    BY <1>1, <2>1 DEF ServerInOrder
  <2>2. CASE Store(order.live, order.content)
    BY <1>1, <1>4, <2>2, StoreKeeps
  <2> QED
    BY <1>5, <2>1, <2>2
<1>12. \A k \in 1..Len(jobs') : jobs'[k].state = "done" /\ jobs'[k].order.kind # "live" =>
          <<jobs'[k].order.live, jobs'[k].order.content>> \in written'
  <2> TAKE k \in 1..Len(jobs')
  <2>1. CASE k = j
    BY <1>7, <1>9, <1>11, <2>1
  <2>2. CASE k # j
    BY <1>1, <1>9, <1>11, <2>2 DEF ServerInOrder
  <2> QED
    BY <2>1, <2>2
<1>13. ServerInOrder'
  BY <1>9, <1>11, <1>12 DEF ServerInOrder
<1> QED
  BY <1>2, <1>9, <1>10, <1>11, <1>13, ServerInv

LEMMA OtherTabStep == ASSUME EditorInv, NEW l \in EditorLives, NEW c \in Contents, OtherTabWrites(l, c) PROVE EditorInv'
<1>1. /\ ServerInOrder /\ Store(l, c) /\ c \in ContentOrNone
      /\ UNCHANGED <<jobs, mode, setlistVars, liveVars, dialogVars, astray>>
  BY DEF EditorInv, OtherTabWrites, ContentOrNone
<1>2. /\ stored' \in [EditorLives -> ContentOrNone] /\ written \subseteq written'
      /\ \A k \in EditorLives : stored'[k] # Nothing => <<k, stored'[k]>> \in written'
  BY <1>1, StoreKeeps
<1>3. ServerInOrder'
  BY <1>1, <1>2 DEF ServerInOrder
<1> QED
  BY <1>1, <1>2, <1>3, ServerInv

----------------------------------------------------------------------------
\* What a submission waits for, and what it may end with.
LEMMA SubmitKnown ==
    ASSUME EditorInv, submit # <<>>
    PROVE  /\ submit[1] \in EditorSubmit /\ confirmation # <<>> /\ Order \in EditorOrder
           /\ Order.live \in LiveOrNone
           /\ State = "done" /\ Order.kind # "live" => <<Order.live, Order.content>> \in written
           /\ submit[1].stage = "read" /\ submit[1].read # Nothing => <<Order.live, submit[1].read>> \in written
           /\ Order.kind # "live" => Order.content # Nothing /\ Order.live \in EditorLives /\ Order.content \in ContentOrNone
           /\ (submit[1].stage \in {"reading", "read"} => Order.kind = "append")
           /\ (~astray => liveLoads = <<>> /\ ~Selects /\ asking = <<>>)
<1>1. /\ submit[1] \in EditorSubmit /\ confirmation # <<>> /\ Len(jobs) > 0 /\ jobs[Len(jobs)].order = Order
      /\ submit[1].stage = "read" /\ submit[1].read # Nothing => <<Order.live, submit[1].read>> \in written
      /\ (submit[1].stage \in {"reading", "read"} => Order.kind = "append")
  BY DEF EditorInv, SubmitInOrder
<1>2. Order \in EditorOrder /\ (Order.kind # "live" => Order.live \in EditorLives /\ Order.content # Nothing)
  BY <1>1 DEF EditorInv, ConfirmationInOrder
<1>3. Order.live \in LiveOrNone /\ Order.content \in ContentOrNone
  BY <1>2 DEF EditorOrder
<1>4. State = "done" /\ Order.kind # "live" => <<Order.live, Order.content>> \in written
  <2>1. jobs \in Seq(EditorJob)
    BY DEF EditorInv, ServerInOrder
  <2>2. Len(jobs) \in 1..Len(jobs)
    BY <1>1, <2>1
  <2> QED
    BY <1>1, <2>2 DEF State, EditorInv, ServerInOrder
<1>5. ~astray => liveLoads = <<>> /\ ~Selects /\ asking = <<>>
  BY DEF EditorInv, Straight, OneAtATime, LoadingAlone, AskingAlone, Selects
<1> QED
  BY <1>1, <1>2, <1>3, <1>4, <1>5

\* A step of the submission: what it leaves of the confirmation, the setlists and the form.
LEMMA SubmissionInv ==
    ASSUME EditorInv, submit # <<>>, UNCHANGED <<serverVars, mode, liveQuery, liveLoads, formLookup, asking, astray>>,
           confirmation' \in {confirmation, <<>>}, SubmitInOrder', (reported \subseteq written)',
           SetlistsInOrder', ~astray => RowsOfSelected',
           editing' \in LiveForm, ~astray /\ editing'.live # Nothing => editing'.of = editing'.live
    PROVE  EditorInv'
<1>1. ServerInOrder'
  BY DEF EditorInv, ServerInOrder, serverVars
<1>2. confirmation' # <<>> => Order' = Order
  BY DEF Order
<1>3. ConfirmationInOrder'
  <2>1. ConfirmationInOrder
    BY DEF EditorInv
  <2>2. CASE confirmation' = <<>>
    BY <2>2 DEF ConfirmationInOrder
  <2>3. CASE confirmation' = confirmation
    BY <1>2, <2>1, <2>3 DEF ConfirmationInOrder
  <2> QED
    BY <2>2, <2>3
<1>4. EditingInOrder'
  BY DEF EditorInv, EditingInOrder
<1>5. ASSUME ~astray PROVE OneAtATime' /\ FieldsOfLive'
  <2>1. liveLoads = <<>> /\ ~Selects /\ asking = <<>> /\ OneRequest
    BY <1>5, SubmitKnown DEF EditorInv, Straight, OneAtATime
  <2> QED
    BY <1>5, <2>1 DEF OneAtATime, LoadingAlone, OneRequest, AskingAlone, FieldsOfLive, Selects
<1>6. Straight'
  BY <1>2, <1>5 DEF EditorInv, Straight
<1> QED
  BY <1>1, <1>3, <1>4, <1>6 DEF EditorInv

\* A submission that ended, whatever it ended with, is in order.
LEMMA EndedInOrder == ASSUME submit' = <<>> PROVE SubmitInOrder'
BY DEF SubmitInOrder

\* The form stays in order while something is submitted.
LEMMA FormWhileSubmitting ==
    ASSUME EditorInv, submit # <<>>, editing' = editing
    PROVE  editing' \in LiveForm /\ (~astray /\ editing'.live # Nothing => editing'.of = editing'.live)
<1>1. editing \in LiveForm /\ (~astray => FieldsOfLive /\ liveLoads = <<>>)
  BY SubmitKnown, LivesKnown
<1> QED
  BY <1>1 DEF FieldsOfLive

\* What the end of a new setlist leaves of the panel.
LEMMA InsertEnds ==
    ASSUME EditorInv, submit # <<>>, CompleteInsert \/ Refused, UNCHANGED <<setlistLoad, lookup>>
    PROVE  SetlistsInOrder' /\ RowsOfSelected' /\ submit' = <<>> /\ confirmation' = <<>>
<1>1. setlists \in SetlistPanel /\ SetlistsInOrder /\ submit[1] \in EditorSubmit
  BY SubmitKnown DEF EditorInv, SetlistsInOrder
<1>2. PICK left : left = submit[1].lives \ {Order.live}
  OBVIOUS
<1>3. left \in SUBSET EditorLives /\ First(left) \in LiveOrNone
  <2>1. left \in SUBSET EditorLives
    BY <1>1, <1>2 DEF EditorSubmit
  <2> QED
    BY <2>1, FirstIsThere
<1>4. CASE CompleteInsert
  <2>1. setlists' = [setlists EXCEPT !.lives = left, !.selected = First(left), !.rows = Blank]
    BY <1>2, <1>4 DEF CompleteInsert
  <2>2. setlists' \in SetlistPanel /\ setlists'.rows = Blank
    BY <1>1, <1>3, <2>1, BlankRows DEF SetlistPanel
  <2> QED
    BY <1>1, <1>4, <2>2, BlankRows DEF CompleteInsert, EndSubmit, SetlistsInOrder, RowsOfSelected
<1>5. CASE Refused
  <2>1. PICK held : held = IF setlists.selected = Order.live THEN First(left) ELSE setlists.selected
    OBVIOUS
  <2>2. held \in LiveOrNone
    BY <1>1, <1>3, <2>1 DEF SetlistPanel
  <2>3. setlists' = [setlists EXCEPT !.lives = left, !.rows = Blank, !.loading = TRUE, !.selected = held]
    BY <1>2, <1>5, <2>1 DEF Refused
  <2>4. setlists' \in SetlistPanel /\ setlists'.rows = Blank
    BY <1>1, <1>3, <2>2, <2>3, BlankRows DEF SetlistPanel
  <2>5. pageLoad'[1] \in PageRequest
    BY <1>5 DEF Refused, PageRequest
  <2> QED
    BY <1>1, <1>5, <2>4, <2>5, BlankRows DEF Refused, EndSubmit, SetlistsInOrder, RowsOfSelected
<1> QED
  BY <1>4, <1>5

\* What was written is reported.
LEMMA ReportIsTrue ==
    ASSUME EditorInv, Report \/ reported' = reported, Report => <<Order.live, Order.content>> \in written,
           written' = written
    PROVE  (reported \subseteq written)'
BY DEF EditorInv, Report

\* A submission moves on.
LEMMA SubmitMoves ==
    ASSUME EditorInv, submit # <<>>, UNCHANGED <<serverVars, confirmation>>, NEW sub, submit' = <<sub>>,
           sub \in EditorSubmit, sub.stage \in {"reading", "read"} => Order.kind = "append",
           sub.stage = "read" /\ sub.read # Nothing => <<Order.live, sub.read>> \in written
    PROVE  SubmitInOrder'
<1>1. Order' = Order /\ submit'[1] = sub
  BY DEF Order
<1>2. confirmation # <<>> /\ Len(jobs) > 0 /\ jobs[Len(jobs)].order = Order
  BY DEF EditorInv, SubmitInOrder
<1> QED
  BY <1>1, <1>2 DEF SubmitInOrder, serverVars

LEMMA InsertAnsweredStep == ASSUME EditorInv, InsertAnswered PROVE EditorInv'
<1>1. /\ submit # <<>> /\ Order.kind = "append" /\ submit[1] \in EditorSubmit
      /\ (State = "done" => <<Order.live, Order.content>> \in written)
  BY SubmitKnown DEF InsertAnswered
<1>2. /\ UNCHANGED <<serverVars, mode, liveQuery, liveLoads, formLookup, asking, astray, setlistLoad, lookup>> /\ editing' = editing
      /\ written' = written
  BY DEF InsertAnswered, liveVars, serverVars
<1>3. editing' \in LiveForm /\ (~astray /\ editing'.live # Nothing => editing'.of = editing'.live)
  BY <1>1, <1>2, FormWhileSubmitting
<1>4. CASE State = "done" /\ CompleteInsert
  <2>1. SetlistsInOrder' /\ RowsOfSelected' /\ submit' = <<>> /\ confirmation' = <<>>
    BY <1>1, <1>2, <1>4, InsertEnds
  <2>2. (reported \subseteq written)'
    BY <1>1, <1>2, <1>4, ReportIsTrue DEF CompleteInsert
  <2> QED
    BY <1>1, <1>2, <1>3, <2>1, <2>2, EndedInOrder, SubmissionInv
<1>5. CASE /\ \E status \in {"409", "timeout"} :
                 submit' = <<[submit[1] EXCEPT !.stage = "reading", !.status = status]>>
           /\ UNCHANGED <<setlists, pageLoad, confirmation, reported>>
  <2>1. PICK status \in {"409", "timeout"} : submit' = <<[submit[1] EXCEPT !.stage = "reading", !.status = status]>>
    BY <1>5
  <2>2. PICK sub : sub = [submit[1] EXCEPT !.stage = "reading", !.status = status]
    OBVIOUS
  <2>3. sub \in EditorSubmit /\ sub.stage = "reading" /\ submit' = <<sub>>
    BY <1>1, <2>1, <2>2 DEF EditorSubmit
  <2>4. SubmitInOrder'
    BY <1>1, <1>2, <1>5, <2>3, SubmitMoves
  <2>5. SetlistsInOrder' /\ (~astray => RowsOfSelected')
    BY <1>2, <1>5, SetlistsStay DEF setlistVars
  <2>6. (reported \subseteq written)'
    BY <1>2, <1>5 DEF EditorInv
  <2> QED
    BY <1>1, <1>2, <1>3, <1>5, <2>4, <2>5, <2>6, SubmissionInv
<1>6. CASE EndSubmit /\ UNCHANGED <<setlists, pageLoad, reported>>
  <2>1. SetlistsInOrder' /\ (~astray => RowsOfSelected')
    BY <1>2, <1>6, SetlistsStay DEF setlistVars
  <2>2. submit' = <<>> /\ confirmation' = <<>> /\ (reported \subseteq written)'
    BY <1>2, <1>6 DEF EditorInv, EndSubmit
  <2> QED
    BY <1>1, <1>2, <1>3, <2>1, <2>2, EndedInOrder, SubmissionInv
<1> QED
  BY <1>4, <1>5, <1>6 DEF InsertAnswered

LEMMA ReadBackStep == ASSUME EditorInv, ReadBack PROVE EditorInv'
<1>1. /\ submit # <<>> /\ submit[1] \in EditorSubmit /\ Order.kind = "append" /\ Order.live \in EditorLives
  BY SubmitKnown DEF ReadBack
<1>2. /\ UNCHANGED <<serverVars, mode, liveQuery, liveLoads, formLookup, asking, astray, confirmation, reported>>
      /\ editing' = editing /\ UNCHANGED setlistVars /\ written' = written
  BY DEF ReadBack, liveVars, serverVars
<1>3. editing' \in LiveForm /\ (~astray /\ editing'.live # Nothing => editing'.of = editing'.live)
  BY <1>1, <1>2, FormWhileSubmitting
<1>4. PICK read : read = stored[Order.live]
  OBVIOUS
<1>5. read \in ContentOrNone /\ (read # Nothing => <<Order.live, read>> \in written)
  BY <1>1, <1>4 DEF EditorInv, ServerInOrder
<1>6. PICK sub : sub = [submit[1] EXCEPT !.stage = "read", !.read = read]
  OBVIOUS
<1>7. sub \in EditorSubmit /\ sub.stage = "read" /\ sub.read = read /\ submit' = <<sub>>
  BY <1>1, <1>4, <1>5, <1>6 DEF ReadBack, EditorSubmit
<1>8. SubmitInOrder'
  BY <1>1, <1>2, <1>5, <1>7, SubmitMoves
<1>9. SetlistsInOrder' /\ (~astray => RowsOfSelected') /\ (reported \subseteq written)'
  BY <1>2, SetlistsStay DEF EditorInv
<1> QED
  BY <1>1, <1>2, <1>3, <1>8, <1>9, SubmissionInv

LEMMA ReadBackAnsweredStep == ASSUME EditorInv, ReadBackAnswered PROVE EditorInv'
<1>1. /\ submit # <<>> /\ Order.kind = "append" /\ Order.content # Nothing
      /\ (submit[1].stage = "read" /\ submit[1].read # Nothing => <<Order.live, submit[1].read>> \in written)
  BY SubmitKnown DEF ReadBackAnswered
<1>2. /\ UNCHANGED <<serverVars, mode, liveQuery, liveLoads, formLookup, asking, astray, setlistLoad, lookup>> /\ editing' = editing
      /\ written' = written
  BY DEF ReadBackAnswered, liveVars, serverVars
<1>3. editing' \in LiveForm /\ (~astray /\ editing'.live # Nothing => editing'.of = editing'.live)
  BY <1>1, <1>2, FormWhileSubmitting
<1>4. CASE Matches /\ CompleteInsert
  <2>1. SetlistsInOrder' /\ RowsOfSelected' /\ submit' = <<>> /\ confirmation' = <<>>
    BY <1>1, <1>2, <1>4, InsertEnds
  <2>2. <<Order.live, Order.content>> \in written
    BY <1>1, <1>4 DEF Matches
  <2>3. (reported \subseteq written)'
    BY <1>2, <1>4, <2>2, ReportIsTrue DEF CompleteInsert
  <2> QED
    BY <1>1, <1>2, <1>3, <2>1, <2>3, EndedInOrder, SubmissionInv
<1>5. CASE Refused
  <2>1. SetlistsInOrder' /\ RowsOfSelected' /\ submit' = <<>> /\ confirmation' = <<>>
    BY <1>1, <1>2, <1>5, InsertEnds
  <2>2. (reported \subseteq written)'
    <3>1. reported' = reported
      BY <1>5 DEF Refused
    <3> QED
      BY <1>2, <3>1 DEF EditorInv
  <2> QED
    BY <1>1, <1>2, <1>3, <2>1, <2>2, EndedInOrder, SubmissionInv
<1>6. CASE EndSubmit /\ UNCHANGED <<setlists, pageLoad, reported>>
  <2>1. SetlistsInOrder' /\ (~astray => RowsOfSelected')
    BY <1>2, <1>6, SetlistsStay DEF setlistVars
  <2>2. submit' = <<>> /\ confirmation' = <<>> /\ (reported \subseteq written)'
    <3>1. reported' = reported
      BY <1>6
    <3> QED
      BY <1>2, <1>6, <3>1 DEF EndSubmit, EditorInv
  <2> QED
    BY <1>1, <1>2, <1>3, <2>1, <2>2, EndedInOrder, SubmissionInv
<1> QED
  BY <1>4, <1>5, <1>6 DEF ReadBackAnswered

LEMMA UpdateAnsweredStep == ASSUME EditorInv, UpdateAnswered PROVE EditorInv'
<1>1. /\ submit # <<>> /\ Order.kind = "update" /\ Order.content \in ContentOrNone
      /\ (State = "done" => <<Order.live, Order.content>> \in written)
      /\ setlists \in SetlistPanel /\ SetlistsInOrder /\ (~astray => RowsOfSelected)
  BY SubmitKnown DEF UpdateAnswered, EditorInv, SetlistsInOrder, Straight
<1>2. /\ UNCHANGED <<serverVars, mode, liveQuery, liveLoads, formLookup, asking, astray, pageLoad, setlistLoad, lookup>>
      /\ editing' = editing /\ written' = written
  BY DEF UpdateAnswered, liveVars, serverVars
<1>3. editing' \in LiveForm /\ (~astray /\ editing'.live # Nothing => editing'.of = editing'.live)
  BY <1>1, <1>2, FormWhileSubmitting
<1>4. CASE State = "done" /\ EndSubmit /\ Report /\ setlists' = [setlists EXCEPT !.original = Order.content]
  <2>1. setlists' \in SetlistPanel /\ setlists'.selected = setlists.selected /\ setlists'.rows = setlists.rows
    BY <1>1, <1>4 DEF SetlistPanel
  <2>2. SetlistsInOrder' /\ (~astray => RowsOfSelected')
    BY <1>1, <1>2, <2>1 DEF SetlistsInOrder, RowsOfSelected
  <2>3. submit' = <<>> /\ confirmation' = <<>> /\ (reported \subseteq written)'
    BY <1>1, <1>2, <1>4, ReportIsTrue DEF EndSubmit
  <2> QED
    BY <1>1, <1>2, <1>3, <2>2, <2>3, EndedInOrder, SubmissionInv
<1>5. CASE submit' = <<>> /\ UNCHANGED <<setlists, confirmation, reported>>
  <2>1. SetlistsInOrder' /\ (~astray => RowsOfSelected')
    BY <1>2, <1>5, SetlistsStay DEF setlistVars
  <2>2. (reported \subseteq written)'
    BY <1>2, <1>5 DEF EditorInv
  <2> QED
    BY <1>1, <1>2, <1>3, <1>5, <2>1, <2>2, EndedInOrder, SubmissionInv
<1> QED
  BY <1>4, <1>5 DEF UpdateAnswered

LEMMA LiveAnsweredStep == ASSUME EditorInv, LiveAnswered PROVE EditorInv'
<1>1. /\ submit # <<>> /\ Order.live \in LiveOrNone /\ submit[1] \in EditorSubmit
  BY SubmitKnown DEF LiveAnswered
<1>2. /\ UNCHANGED <<serverVars, mode, liveQuery, liveLoads, formLookup, asking, astray, confirmation, reported>>
      /\ UNCHANGED setlistVars /\ written' = written
  BY DEF LiveAnswered, serverVars
<1>3. SetlistsInOrder' /\ (~astray => RowsOfSelected') /\ (reported \subseteq written)'
  BY <1>2, SetlistsStay DEF EditorInv
<1>4. CASE /\ submit' = <<[submit[1] EXCEPT !.stage = "refreshing"]>>
           /\ editing' = [live |-> Order.live, of |-> Order.live, edited |-> FALSE, loading |-> TRUE]
  <2>1. PICK sub : sub = [submit[1] EXCEPT !.stage = "refreshing"]
    OBVIOUS
  <2>2. sub \in EditorSubmit /\ sub.stage = "refreshing" /\ submit' = <<sub>>
    BY <1>1, <1>4, <2>1 DEF EditorSubmit
  <2>3. SubmitInOrder'
    BY <1>1, <1>2, <2>2, SubmitMoves
  <2>4. editing' \in LiveForm /\ editing'.of = editing'.live
    BY <1>1, <1>4 DEF LiveForm
  <2> QED
    BY <1>1, <1>2, <1>3, <2>3, <2>4, SubmissionInv
<1>5. CASE submit' = <<>> /\ UNCHANGED editing
  <2>1. editing' \in LiveForm /\ (~astray /\ editing'.live # Nothing => editing'.of = editing'.live)
    BY <1>1, <1>5, FormWhileSubmitting
  <2> QED
    BY <1>1, <1>2, <1>3, <1>5, <2>1, EndedInOrder, SubmissionInv
<1> QED
  BY <1>4, <1>5 DEF LiveAnswered

LEMMA LivesRefreshedStep == ASSUME EditorInv, LivesRefreshed PROVE EditorInv'
<1>1. /\ submit # <<>> /\ submit' = <<>> /\ confirmation' = <<>>
      /\ editing \in LiveForm /\ (~astray => FieldsOfLive /\ liveLoads = <<>>)
  BY SubmitKnown, LivesKnown DEF LivesRefreshed, EndSubmit
<1>2. /\ UNCHANGED <<serverVars, mode, liveQuery, liveLoads, formLookup, asking, astray, reported>>
      /\ UNCHANGED setlistVars /\ written' = written /\ editing' = [editing EXCEPT !.loading = FALSE]
  BY DEF LivesRefreshed, serverVars
<1>3. SetlistsInOrder' /\ (~astray => RowsOfSelected') /\ (reported \subseteq written)'
  BY <1>2, SetlistsStay DEF EditorInv
<1>4. editing' \in LiveForm /\ editing'.live = editing.live /\ editing'.of = editing.of
  BY <1>1, <1>2, FormTouched
<1>5. ~astray /\ editing'.live # Nothing => editing'.of = editing'.live
  BY <1>1, <1>4 DEF FieldsOfLive
<1> QED
  BY <1>1, <1>2, <1>3, <1>4, <1>5, EndedInOrder, SubmissionInv

----------------------------------------------------------------------------
LEMMA EditorNextInv == EditorInv /\ [SetlistsNext \/ LivesNext]_editorVars => EditorInv'
<1> SUFFICES ASSUME EditorInv, [SetlistsNext \/ LivesNext]_editorVars PROVE EditorInv'
  OBVIOUS
<1>1. CASE UNCHANGED editorVars
  <2>1. /\ UNCHANGED <<serverVars, mode, liveVars, dialogVars>> /\ UNCHANGED setlistVars /\ astray' = astray
    BY <1>1 DEF editorVars
  <2> QED
    BY <2>1, SetlistsStay, SetlistsInv
<1>2. CASE DialogsNext
  BY <1>2, KeepDraftStep, DiscardDraftStep, RequestStep, CancelStep, ConfirmStep, ServeStep DEF DialogsNext
<1>3. CASE SetlistsNext
  BY <1>2, <1>3, ChangeModeStep, LoadPageStep, PageReadStep, PageAnsweredStep, SelectSetlistStep, QuerySetlistsStep,
     SetlistReadStep, SetlistAnsweredStep, SetlistFailedStep, EditRowsStep, LookUpRowsStep, RowsAnsweredStep,
     OtherTabStep, InsertAnsweredStep, ReadBackStep, ReadBackAnsweredStep, UpdateAnsweredStep
     DEF SetlistsNext
<1>4. CASE LivesNext
  BY <1>2, <1>4, ChangeModeStep, SelectLiveStep, OpenLiveStep, LookUpForFormStep, FormAnsweredStep, QueryLivesStep, LivesAnsweredStep, EditLiveStep, LiveReadStep,
     LiveLoadedStep, LiveAnsweredStep, LivesRefreshedStep
     DEF LivesNext
<1> QED
  BY <1>1, <1>3, <1>4

(* What the console's panel is in stays in order: what is submitted is what is
   confirmed and what the last write was of; a setlist that was reported was
   written; and, until an answer went astray (a lookup that wrote into another
   Live's draft, a Live that was loading when the end of a query lifted the
   lock), Lives load alone and under the lock, and the rows and fields are those
   of the Live they are saved for. *)
THEOREM EditorInvariant == EditorSpec => []EditorInv
  BY EditorInitInv, EditorNextInv, PTL DEF EditorSpec

(* A setlist that ConsoleInsertPanel lists as written was written, also when
   the answer to it was a conflict or none and the panel went to look. *)
THEOREM ReportedWasWrittenAlways == EditorSpec => []ReportedWasWritten
<1>1. EditorInv => ReportedWasWritten
  BY DEF EditorInv, ReportedWasWritten
<1> QED
  BY <1>1, EditorInvariant, PTL

(* What ConsoleInsertPanel asks the user to confirm for a Live was entered for
   that Live, while requests for others are answered in any order; until a lookup
   asked for one Live was answered into the draft of another, or the end of a query
   lifted the lock over a Live that was loading (onOpenLive, the first match). *)
THEOREM ConfirmedForItsLiveAlways == EditorSpec => []ConfirmedForItsLive
<1>1. EditorInv => ConfirmedForItsLive
  BY DEF EditorInv, Straight, Order, ConfirmedForItsLive
<1> QED
  BY <1>1, EditorInvariant, PTL

----------------------------------------------------------------------------
(* RequestCache: what the catalogue's entries and requests have seen. *)
CacheRow == [path : Paths, data : Nat \union {NoData}, fetch : Nat]
CacheFetch == [cache : CacheNames, paths : (SUBSET Paths) \ {{}}, generation : Nat, state : {"out", "read", "done"},
               sent : Nat, data : Nat \union {NoData}]

(* Entries that reach back no further than the browser has learned. *)
RowsSince(F, since) ==
    {e \in CacheRow : /\ e.data # NoData => e.data >= since
                      /\ e.fetch # NoFetch => e.fetch \in 1..Len(F) /\ F[e.fetch].sent >= since}

(* A request of the current generation was sent, and read, since the browser last learned of a change. *)
FetchInOrder(r) ==
    /\ r.generation <= generation
    /\ r.generation = generation => r.sent >= learned
    /\ r.sent <= version
    /\ r.data # NoData => r.data >= r.sent
    /\ r.state = "read" => r.data # NoData

CacheInv ==
    /\ version \in Nat /\ learned \in Nat /\ generation \in Nat /\ learned <= version
    /\ DOMAIN caches = CacheNames /\ caches.catalog \in Seq(RowsSince(fetches, learned))
    /\ fetches \in Seq(CacheFetch)
    /\ \A f \in 1..Len(fetches) : FetchInOrder(fetches[f])

----------------------------------------------------------------------------
\* LruRequestCache: what a cache holds after a call it held before or was given.
LEMMA DropKeeps == ASSUME NEW R, NEW cache \in Seq(R), NEW p PROVE Drop(cache, p) \in Seq(R)
<1>1. CASE PlacesOf(cache, p) = {}
  BY <1>1 DEF Drop
<1>2. CASE PlacesOf(cache, p) # {}
  <2>1. PICK i : i = CHOOSE k \in PlacesOf(cache, p) : TRUE
    OBVIOUS
  <2>2. PICK n : n = Len(cache)
    OBVIOUS
  <2>3. i \in 1..n /\ n \in Nat
    BY <1>2, <2>1, <2>2 DEF PlacesOf
  <2>4. SubSeq(cache, 1, i - 1) \in Seq(R)
    <3>1. \A k \in 1 .. i - 1 : cache[k] \in R
      BY <2>2, <2>3
    <3> QED
      BY <2>2, <2>3, <3>1, SubSeqProperties
  <2>5. SubSeq(cache, i + 1, Len(cache)) \in Seq(R)
    <3>1. \A k \in i + 1 .. n : cache[k] \in R
      BY <2>2, <2>3
    <3> QED
      BY <2>2, <2>3, <3>1, SubSeqProperties
  <2>6. Drop(cache, p) = SubSeq(cache, 1, i - 1) \o SubSeq(cache, i + 1, Len(cache))
    BY <1>2, <2>1 DEF Drop, RemoveAt
  <2> QED
    BY <2>4, <2>5, <2>6, ConcatProperties
<1> QED
  BY <1>1, <1>2

LEMMA TouchKeeps == ASSUME NEW R, NEW cache \in Seq(R), NEW e \in R PROVE Touch(cache, e) \in Seq(R)
<1>1. PICK rest : rest = Drop(cache, e.path)
  OBVIOUS
<1>2. rest \in Seq(R)
  BY <1>1, DropKeeps
<1> QED
  BY <1>1, <1>2 DEF Touch

LEMMA EvictKeeps == ASSUME NEW R, NEW cache \in Seq(R) PROVE Evict(cache) \in Seq(R)
<1>1. CASE Len(cache) > CacheSize
  <2>1. cache # <<>>
    <3>1. Len(cache) > 0
      BY <1>1, CacheAssumption
    <3> QED
      BY <3>1
  <2> QED
    BY <1>1, <2>1, HeadTailProperties DEF Evict
<1>2. CASE ~(Len(cache) > CacheSize)
  BY <1>2 DEF Evict
<1> QED
  BY <1>1, <1>2

LEMMA GetFinds ==
    ASSUME NEW F, NEW since, NEW cache \in Seq(RowsSince(F, since)), NEW p \in Paths
    PROVE  Get(cache, p) \in RowsSince(F, since) /\ Get(cache, p).path = p
<1>1. CASE PlacesOf(cache, p) = {}
  BY <1>1 DEF Get, CacheEntry, RowsSince, CacheRow, NoData, NoFetch
<1>2. CASE PlacesOf(cache, p) # {}
  <2>1. PICK i : i = CHOOSE k \in PlacesOf(cache, p) : TRUE
    OBVIOUS
  <2>2. i \in 1..Len(cache) /\ cache[i].path = p /\ Get(cache, p) = cache[i]
    BY <1>2, <2>1 DEF PlacesOf, Get
  <2>3. cache[i] \in RowsSince(F, since)
    BY <2>2
  <2> QED
    BY <2>2, <2>3
<1> QED
  BY <1>1, <1>2

\* The data that is there, with a request or with none.
LEMMA WithFetch ==
    ASSUME NEW F, NEW since, NEW e \in RowsSince(F, since), NEW p \in Paths,
           NEW f \in Nat, f # NoFetch => f \in 1..Len(F) /\ F[f].sent >= since
    PROVE  CacheEntry(p, e.data, f) \in RowsSince(F, since)
BY DEF RowsSince, CacheEntry, CacheRow

LEMMA CacheCalls ==
    ASSUME NEW F, NEW since, NEW cache \in Seq(RowsSince(F, since)), NEW p \in Paths
    PROVE  /\ Touch(cache, Get(cache, p)) \in Seq(RowsSince(F, since))
           /\ \A f \in 1..Len(F) : F[f].sent >= since /\ f \in Nat => SetInFlight(cache, p, f) \in Seq(RowsSince(F, since))
           /\ \A data \in Nat : data >= since => SetData(cache, p, data) \in Seq(RowsSince(F, since))
           /\ \A f : ClearInFlight(cache, p, f) \in Seq(RowsSince(F, since))
<1> DEFINE R == RowsSince(F, since)
<1>1. PICK e : e = Get(cache, p)
  OBVIOUS
<1>2. e \in R
  BY <1>1, GetFinds
<1>3. Touch(cache, Get(cache, p)) \in Seq(R)
  BY <1>1, <1>2, TouchKeeps
<1>4. ASSUME NEW f \in 1..Len(F), F[f].sent >= since, f \in Nat
      PROVE  SetInFlight(cache, p, f) \in Seq(R)
  <2>1. PICK new : new = CacheEntry(p, e.data, f)
    OBVIOUS
  <2>2. new \in R
    BY <1>2, <1>4, <2>1, WithFetch
  <2>3. PICK touched : touched = Touch(cache, new)
    OBVIOUS
  <2>4. touched \in Seq(R)
    BY <2>2, <2>3, TouchKeeps
  <2>5. Evict(touched) \in Seq(R)
    BY <2>4, EvictKeeps
  <2> QED
    BY <1>1, <2>1, <2>3, <2>5 DEF SetInFlight
<1>5. ASSUME NEW data \in Nat, data >= since
      PROVE  SetData(cache, p, data) \in Seq(R)
  <2>1. PICK new : new = CacheEntry(p, data, NoFetch)
    OBVIOUS
  <2>2. new \in R
    BY <1>5, <2>1 DEF RowsSince, CacheEntry, CacheRow, NoFetch
  <2>3. PICK touched : touched = Touch(cache, new)
    OBVIOUS
  <2>4. touched \in Seq(R)
    BY <2>2, <2>3, TouchKeeps
  <2>5. Evict(touched) \in Seq(R)
    BY <2>4, EvictKeeps
  <2> QED
    BY <2>1, <2>3, <2>5 DEF SetData
<1>6. ASSUME NEW f PROVE ClearInFlight(cache, p, f) \in Seq(R)
  <2>1. PICK new : new = CacheEntry(p, e.data, NoFetch)
    OBVIOUS
  <2>2. new \in R
    BY <1>2, <2>1, WithFetch DEF NoFetch
  <2>3. Touch(cache, new) \in Seq(R)
    BY <2>2, TouchKeeps
  <2> QED
    BY <1>1, <2>1, <2>3 DEF ClearInFlight
<1> QED
  BY <1>3, <1>4, <1>5, <1>6

----------------------------------------------------------------------------
\* Entries stay in order while no request is forgotten and nothing is learned.
LEMMA RowsStay ==
    ASSUME CacheInv, learned' = learned, fetches' \in Seq(CacheFetch), Len(fetches') >= Len(fetches),
           \A f \in 1..Len(fetches) : fetches'[f].sent = fetches[f].sent
    PROVE  /\ RowsSince(fetches, learned) \subseteq RowsSince(fetches', learned')
           /\ \A cache \in Seq(RowsSince(fetches, learned)) : cache \in Seq(RowsSince(fetches', learned'))
<1>1. fetches \in Seq(CacheFetch)
  BY DEF CacheInv
<1>2. Len(fetches) \in Nat /\ Len(fetches') \in Nat
  BY <1>1
<1>3. RowsSince(fetches, learned) \subseteq RowsSince(fetches', learned')
  BY <1>2 DEF RowsSince
<1> QED
  BY <1>3

LEMMA CacheInitInv == CacheInit => CacheInv
<1> SUFFICES ASSUME CacheInit PROVE CacheInv
  OBVIOUS
<1>1. fetches \in Seq(CacheFetch) /\ Len(fetches) = 0
  BY DEF CacheInit
<1>2. DOMAIN caches = CacheNames /\ caches.catalog = <<>>
  BY DEF CacheInit, CacheNames
<1>3. caches.catalog \in Seq(RowsSince(fetches, learned))
  BY <1>2
<1> QED
  BY <1>1, <1>2, <1>3 DEF CacheInit, CacheInv

\* What comes and goes without anything learned.
LEMMA CachesInv ==
    ASSUME CacheInv, UNCHANGED <<version, generation, learned>>,
           DOMAIN caches' = CacheNames, caches'.catalog \in Seq(RowsSince(fetches', learned)),
           fetches' \in Seq(CacheFetch), \A f \in 1..Len(fetches') : FetchInOrder(fetches'[f])
    PROVE  CacheInv'
BY DEF CacheInv, FetchInOrder

\* A request that is sent is of the current generation and of this version.
LEMMA SendInOrder ==
    ASSUME CacheInv, NEW c \in CacheNames, NEW paths \in (SUBSET Paths) \ {{}}, Send(c, paths), learned' = learned
    PROVE  /\ fetches' \in Seq(CacheFetch) /\ Len(fetches') = Len(fetches) + 1 /\ Len(fetches) \in Nat
           /\ \A f \in 1..Len(fetches) : fetches'[f] = fetches[f]
           /\ fetches'[Len(fetches')].sent >= learned
           /\ \A f \in 1..Len(fetches') : FetchInOrder(fetches'[f])
<1>1. PICK r : r = [cache |-> c, paths |-> paths, generation |-> generation, state |-> "out", sent |-> version,
                    data |-> NoData]
  OBVIOUS
<1>2. r \in CacheFetch /\ FetchInOrder(r) /\ r.sent >= learned
  BY <1>1 DEF CacheInv, CacheFetch, FetchInOrder
<1>3. fetches \in Seq(CacheFetch) /\ fetches' = Append(fetches, r)
  BY <1>1 DEF CacheInv, Send
<1>4. /\ fetches' \in Seq(CacheFetch) /\ Len(fetches') = Len(fetches) + 1 /\ Len(fetches) \in Nat
      /\ \A f \in 1..Len(fetches) : fetches'[f] = fetches[f]
      /\ fetches'[Len(fetches')] = r
  BY <1>2, <1>3
<1>5. ASSUME NEW f \in 1..Len(fetches') PROVE FetchInOrder(fetches'[f])
  <2>1. CASE f = Len(fetches')
    BY <1>2, <1>4, <2>1
  <2>2. CASE f # Len(fetches')
    <3>1. f \in 1..Len(fetches) /\ fetches'[f] = fetches[f]
      BY <1>4, <2>2
    <3> QED
      BY <3>1 DEF CacheInv
  <2> QED
    BY <2>1, <2>2
<1> QED
  BY <1>2, <1>4, <1>5

LEMMA AskStep == ASSUME CacheInv, NEW c \in CacheNames, NEW p \in Paths, Ask(c, p) PROVE CacheInv'
<1>1. UNCHANGED <<version, generation, learned>> /\ CacheInv
  BY DEF Ask
<1>2. CASE caches' = [caches EXCEPT ![c] = Touch(@, Get(@, p))] /\ UNCHANGED fetches
  <2>1. DOMAIN caches' = CacheNames
    BY <1>2 DEF CacheInv
  <2>2. caches'.catalog \in Seq(RowsSince(fetches', learned))
    <3>1. CASE c = "catalog"
      <4>1. caches'.catalog = Touch(caches.catalog, Get(caches.catalog, p))
        BY <1>2, <3>1 DEF CacheInv
      <4> QED
        BY <1>2, <4>1, CacheCalls DEF CacheInv
    <3>2. CASE c # "catalog"
      <4>1. caches'.catalog = caches.catalog
        BY <1>2, <3>2 DEF CacheInv, CacheNames
      <4> QED
        BY <1>2, <4>1 DEF CacheInv
    <3> QED
      BY <3>1, <3>2
  <2> QED
    BY <1>1, <1>2, <2>1, <2>2, CachesInv DEF CacheInv
<1>3. CASE Send(c, {p}) /\ caches' = [caches EXCEPT ![c] = SetInFlight(@, p, Len(fetches'))]
  <2>1. /\ fetches' \in Seq(CacheFetch) /\ Len(fetches') = Len(fetches) + 1 /\ Len(fetches) \in Nat
        /\ \A f \in 1..Len(fetches) : fetches'[f] = fetches[f]
        /\ fetches'[Len(fetches')].sent >= learned
        /\ \A f \in 1..Len(fetches') : FetchInOrder(fetches'[f])
    BY <1>1, <1>3, SendInOrder
  <2>2. DOMAIN caches' = CacheNames
    BY <1>3 DEF CacheInv
  <2>3. caches.catalog \in Seq(RowsSince(fetches', learned))
    BY <1>1, <2>1, RowsStay DEF CacheInv
  <2>4. PICK f : f = Len(fetches')
    OBVIOUS
  <2>5. f \in 1..Len(fetches') /\ f \in Nat /\ fetches'[f].sent >= learned
    BY <2>1, <2>4
  <2>6. caches'.catalog \in Seq(RowsSince(fetches', learned))
    <3>1. CASE c = "catalog"
      <4>1. caches'.catalog = SetInFlight(caches.catalog, p, f)
        BY <1>3, <2>4, <3>1 DEF CacheInv
      <4> QED
        BY <2>3, <2>5, <4>1, CacheCalls
    <3>2. CASE c # "catalog"
      <4>1. caches'.catalog = caches.catalog
        BY <1>3, <3>2 DEF CacheInv, CacheNames
      <4> QED
        BY <2>3, <4>1
    <3> QED
      BY <3>1, <3>2
  <2> QED
    BY <1>1, <2>1, <2>2, <2>6, CachesInv
<1> QED
  BY <1>2, <1>3 DEF Ask

LEMMA AskBatchStep == ASSUME CacheInv, AskBatch PROVE CacheInv'
<1>1. PICK paths \in (SUBSET Paths) \ {{}} : Send("details", paths)
  BY DEF AskBatch
<1>2. UNCHANGED <<version, caches, generation, learned>>
  BY DEF AskBatch
<1>3. /\ fetches' \in Seq(CacheFetch) /\ Len(fetches') = Len(fetches) + 1 /\ Len(fetches) \in Nat
      /\ \A f \in 1..Len(fetches) : fetches'[f] = fetches[f]
      /\ \A f \in 1..Len(fetches') : FetchInOrder(fetches'[f])
  BY <1>1, <1>2, SendInOrder DEF CacheNames
<1>4. caches.catalog \in Seq(RowsSince(fetches', learned))
  BY <1>2, <1>3, RowsStay DEF CacheInv
<1> QED
  BY <1>2, <1>3, <1>4, CachesInv DEF CacheInv

\* A request moves on, and what it has read is not older than when it was sent.
LEMMA FetchMoves ==
    ASSUME CacheInv, UNCHANGED <<version, generation, learned>>, NEW f \in 1..Len(fetches), NEW r,
           r \in CacheFetch, r.sent = fetches[f].sent, FetchInOrder(r), fetches' = [fetches EXCEPT ![f] = r]
    PROVE  /\ fetches' \in Seq(CacheFetch) /\ \A g \in 1..Len(fetches') : FetchInOrder(fetches'[g])
           /\ \A cache \in Seq(RowsSince(fetches, learned)) : cache \in Seq(RowsSince(fetches', learned))
<1>1. fetches \in Seq(CacheFetch)
  BY DEF CacheInv
<1>2. /\ fetches' \in Seq(CacheFetch) /\ Len(fetches') = Len(fetches) /\ Len(fetches) \in Nat
      /\ \A g \in 1..Len(fetches) : fetches'[g] = IF g = f THEN r ELSE fetches[g]
  BY <1>1
<1>3. \A g \in 1..Len(fetches') : FetchInOrder(fetches'[g])
  <2> TAKE g \in 1..Len(fetches')
  <2>1. g \in 1..Len(fetches) /\ FetchInOrder(fetches[g])
    BY <1>2 DEF CacheInv
  <2> QED
    BY <1>2, <2>1
<1>4. \A g \in 1..Len(fetches) : fetches'[g].sent = fetches[g].sent
  BY <1>2
<1>5. Len(fetches') >= Len(fetches)
  BY <1>2
<1> QED
  BY <1>2, <1>3, <1>4, <1>5, RowsStay

LEMMA ReadStep == ASSUME CacheInv, NEW f \in Sent, Read(f) PROVE CacheInv'
<1>1. /\ f \in 1..Len(fetches) /\ fetches[f] \in CacheFetch /\ FetchInOrder(fetches[f]) /\ version \in Nat
  BY DEF CacheInv, Sent
<1>2. UNCHANGED <<version, caches, generation, learned>>
  BY DEF Read
<1>3. PICK r : r = [fetches[f] EXCEPT !.state = "read", !.data = version]
  OBVIOUS
<1>4. r \in CacheFetch /\ r.sent = fetches[f].sent /\ r.generation = fetches[f].generation /\ r.data = version
  BY <1>1, <1>3 DEF CacheFetch
<1>5. FetchInOrder(r)
  BY <1>1, <1>4 DEF FetchInOrder, NoData, CacheFetch
<1>6. fetches' = [fetches EXCEPT ![f] = r]
  BY <1>1, <1>3 DEF Read, CacheInv
<1>7. /\ fetches' \in Seq(CacheFetch) /\ \A g \in 1..Len(fetches') : FetchInOrder(fetches'[g])
      /\ caches.catalog \in Seq(RowsSince(fetches', learned))
  BY <1>1, <1>2, <1>4, <1>5, <1>6, FetchMoves DEF CacheInv
<1> QED
  BY <1>2, <1>7, CachesInv DEF CacheInv

\* A request is over.
LEMMA FetchEnds ==
    ASSUME CacheInv, UNCHANGED <<version, generation, learned>>, NEW f \in Sent,
           fetches' = [fetches EXCEPT ![f].state = "done"]
    PROVE  /\ f \in 1..Len(fetches) /\ fetches[f] \in CacheFetch /\ FetchInOrder(fetches[f])
           /\ fetches' \in Seq(CacheFetch) /\ \A g \in 1..Len(fetches') : FetchInOrder(fetches'[g])
           /\ \A cache \in Seq(RowsSince(fetches, learned)) : cache \in Seq(RowsSince(fetches', learned))
<1>1. /\ f \in 1..Len(fetches) /\ fetches[f] \in CacheFetch /\ FetchInOrder(fetches[f])
  BY DEF CacheInv, Sent
<1>2. PICK r : r = [fetches[f] EXCEPT !.state = "done"]
  OBVIOUS
<1>3. /\ r \in CacheFetch /\ r.sent = fetches[f].sent /\ r.generation = fetches[f].generation
      /\ r.data = fetches[f].data /\ r.state = "done"
  BY <1>1, <1>2 DEF CacheFetch
<1>4. FetchInOrder(r)
  BY <1>1, <1>3 DEF FetchInOrder
<1>5. fetches' = [fetches EXCEPT ![f] = r]
  BY <1>2
<1> QED
  BY <1>1, <1>3, <1>4, <1>5, FetchMoves

LEMMA AnswerStep == ASSUME CacheInv, NEW f \in Sent, Answer(f) PROVE CacheInv'
<1>1. UNCHANGED <<version, generation, learned>> /\ fetches[f].state = "read"
  BY DEF Answer
<1>2. /\ f \in 1..Len(fetches) /\ fetches[f] \in CacheFetch /\ FetchInOrder(fetches[f])
      /\ fetches' \in Seq(CacheFetch) /\ \A g \in 1..Len(fetches') : FetchInOrder(fetches'[g])
      /\ \A cache \in Seq(RowsSince(fetches, learned)) : cache \in Seq(RowsSince(fetches', learned))
  BY <1>1, FetchEnds DEF Answer
<1>3. PICK c, cache : /\ c = fetches[f].cache /\ cache \in Stored(f) /\ caches' = [caches EXCEPT ![c] = cache]
  BY DEF Answer
<1>4. DOMAIN caches' = CacheNames /\ c \in CacheNames
  BY <1>2, <1>3 DEF CacheInv, CacheFetch
<1>5. caches'.catalog \in Seq(RowsSince(fetches, learned))
  <2>1. CASE c = "catalog"
    <3>1. PICK r, p : r = fetches[f] /\ p = CHOOSE q \in fetches[f].paths : TRUE
      OBVIOUS
    <3>2. cache = ClearInFlight(IF r.generation = generation THEN SetData(caches.catalog, p, r.data)
                                ELSE caches.catalog, p, f)
      BY <1>3, <2>1, <3>1 DEF Stored
    <3>3. p \in Paths
      BY <1>2, <3>1 DEF CacheFetch
    <3>4. caches.catalog \in Seq(RowsSince(fetches, learned))
      BY DEF CacheInv
    <3>5. r.generation = generation => r.data \in Nat /\ r.data >= learned
      BY <1>1, <1>2, <3>1 DEF CacheInv, CacheFetch, FetchInOrder, NoData
    <3>6. PICK base : base = IF r.generation = generation THEN SetData(caches.catalog, p, r.data) ELSE caches.catalog
      OBVIOUS
    <3>7. base \in Seq(RowsSince(fetches, learned))
      BY <3>3, <3>4, <3>5, <3>6, CacheCalls
    <3>8. cache \in Seq(RowsSince(fetches, learned))
      BY <3>2, <3>3, <3>6, <3>7, CacheCalls
    <3> QED
      BY <1>3, <2>1, <3>8 DEF CacheInv
  <2>2. CASE c # "catalog"
    <3>1. caches'.catalog = caches.catalog
      BY <1>3, <1>4, <2>2 DEF CacheInv, CacheNames
    <3> QED
      BY <3>1 DEF CacheInv
  <2> QED
    BY <2>1, <2>2
<1> QED
  BY <1>1, <1>2, <1>4, <1>5, CachesInv

LEMMA FailStep == ASSUME CacheInv, NEW f \in Sent, Fail(f) PROVE CacheInv'
<1>1. UNCHANGED <<version, generation, learned>>
  BY DEF Fail
<1>2. /\ f \in 1..Len(fetches) /\ fetches[f] \in CacheFetch
      /\ fetches' \in Seq(CacheFetch) /\ \A g \in 1..Len(fetches') : FetchInOrder(fetches'[g])
      /\ \A cache \in Seq(RowsSince(fetches, learned)) : cache \in Seq(RowsSince(fetches', learned))
  BY <1>1, FetchEnds DEF Fail
<1>3. PICK c, p : /\ c = fetches[f].cache /\ p \in fetches[f].paths
                  /\ caches' = [caches EXCEPT ![c] = ClearInFlight(@, p, f)]
  BY DEF Fail
<1>4. DOMAIN caches' = CacheNames /\ c \in CacheNames /\ p \in Paths
  BY <1>2, <1>3 DEF CacheInv, CacheFetch
<1>5. caches'.catalog \in Seq(RowsSince(fetches, learned))
  <2>1. CASE c = "catalog"
    <3>1. caches'.catalog = ClearInFlight(caches.catalog, p, f)
      BY <1>3, <1>4, <2>1 DEF CacheInv
    <3> QED
      BY <1>4, <3>1, CacheCalls DEF CacheInv
  <2>2. CASE c # "catalog"
    <3>1. caches'.catalog = caches.catalog
      BY <1>3, <1>4, <2>2 DEF CacheInv, CacheNames
    <3> QED
      BY <3>1 DEF CacheInv
  <2> QED
    BY <2>1, <2>2
<1> QED
  BY <1>1, <1>2, <1>4, <1>5, CachesInv

LEMMA ExpireStep == ASSUME CacheInv, Expire PROVE CacheInv'
<1>1. UNCHANGED <<version, fetches, generation, learned>>
  BY DEF Expire
<1>2. CASE UNCHANGED caches
  BY <1>1, <1>2, CachesInv DEF CacheInv
<1>3. ASSUME NEW c \in CacheNames, NEW i \in DOMAIN caches[c], caches' = [caches EXCEPT ![c][i].data = NoData]
      PROVE  CacheInv'
  <2>1. DOMAIN caches' = CacheNames
    BY <1>3 DEF CacheInv
  <2>2. caches'.catalog \in Seq(RowsSince(fetches, learned))
    <3>1. CASE c = "catalog"
      <4>1. PICK cache : cache = caches.catalog
        OBVIOUS
      <4>2. cache \in Seq(RowsSince(fetches, learned)) /\ i \in 1..Len(cache)
        BY <1>3, <3>1, <4>1 DEF CacheInv
      <4>3. PICK e : e = [cache[i] EXCEPT !.data = NoData]
        OBVIOUS
      <4>4. cache[i] \in RowsSince(fetches, learned)
        BY <4>2
      <4>5. e \in RowsSince(fetches, learned)
        BY <4>3, <4>4 DEF RowsSince, CacheRow
      <4>6. caches'.catalog = [cache EXCEPT ![i] = e]
        BY <1>3, <3>1, <4>1, <4>3 DEF CacheInv
      <4> QED
        BY <4>2, <4>5, <4>6
    <3>2. CASE c # "catalog"
      <4>1. caches'.catalog = caches.catalog
        BY <1>3, <3>2 DEF CacheInv, CacheNames
      <4> QED
        BY <4>1 DEF CacheInv
    <3> QED
      BY <3>1, <3>2
  <2> QED
    BY <1>1, <2>1, <2>2, CachesInv DEF CacheInv
<1> QED
  BY <1>2, <1>3 DEF Expire

LEMMA ChangeStep == ASSUME CacheInv, Change PROVE CacheInv'
<1>1. version' = version + 1 /\ UNCHANGED <<caches, fetches, generation, learned>>
  BY DEF Change
<1>2. ASSUME NEW f \in 1..Len(fetches) PROVE FetchInOrder(fetches[f])'
  <2>1. FetchInOrder(fetches[f]) /\ fetches[f] \in CacheFetch /\ version \in Nat
    BY DEF CacheInv
  <2>2. fetches[f].sent \in Nat /\ fetches[f].sent <= version + 1
    BY <2>1 DEF CacheFetch, FetchInOrder
  <2> QED
    BY <1>1, <2>1, <2>2 DEF FetchInOrder
<1>3. version' \in Nat /\ learned' <= version'
  BY <1>1 DEF CacheInv
<1> QED
  BY <1>1, <1>2, <1>3 DEF CacheInv

LEMMA LearnAllStep == ASSUME CacheInv, LearnAll PROVE CacheInv'
<1>1. /\ learned' = version /\ generation' = generation + 1 /\ UNCHANGED <<version, fetches>>
      /\ caches' = [c \in CacheNames |-> <<>>]
  BY DEF LearnAll
<1>2. ASSUME NEW f \in 1..Len(fetches) PROVE FetchInOrder(fetches[f])'
  <2>1. FetchInOrder(fetches[f]) /\ fetches[f] \in CacheFetch /\ generation \in Nat
    BY DEF CacheInv
  <2>2. fetches[f].generation \in Nat /\ fetches[f].generation < generation + 1
    BY <2>1 DEF CacheFetch, FetchInOrder
  <2>3. fetches[f].generation <= generation' /\ fetches[f].generation # generation'
    BY <1>1, <2>1, <2>2
  <2> QED
    BY <1>1, <2>1, <2>3 DEF FetchInOrder
<1>3. DOMAIN caches' = CacheNames /\ caches'.catalog = <<>>
  BY <1>1 DEF CacheNames
<1>4. caches'.catalog \in Seq(RowsSince(fetches', learned'))
  BY <1>3
<1> QED
  BY <1>1, <1>2, <1>3, <1>4 DEF CacheInv

LEMMA LearnSomeStep == ASSUME CacheInv, LearnGroup \/ \E p \in Paths : LearnLive(p) PROVE CacheInv'
<1>1. UNCHANGED <<version, fetches, generation, learned>>
  BY DEF LearnGroup, LearnLive
<1>2. DOMAIN caches' = CacheNames /\ caches'.catalog = caches.catalog
  BY DEF LearnGroup, LearnLive, CacheInv, CacheNames
<1> QED
  BY <1>1, <1>2, CachesInv DEF CacheInv

LEMMA CacheNextInv == CacheInv /\ [CacheNext]_cacheVars => CacheInv'
<1> SUFFICES ASSUME CacheInv, [CacheNext]_cacheVars PROVE CacheInv'
  OBVIOUS
<1>1. CASE UNCHANGED cacheVars
  BY <1>1, CachesInv DEF cacheVars, CacheInv
<1>2. CASE CacheNext
  BY <1>2, AskStep, AskBatchStep, ReadStep, AnswerStep, FailStep, ExpireStep, ChangeStep, LearnAllStep, LearnSomeStep
     DEF CacheNext
<1> QED
  BY <1>1, <1>2

(* The catalogue's cache shows no page what it was before a change the browser
   has learned of, and joins no page to a request sent before it, whatever the
   order of the answers: the generation api.ts counts is enough. *)
THEOREM CatalogIsNotOlderAlways == CacheSpec => []CatalogIsNotOlder
<1>1. CacheInv => CatalogIsNotOlder
  <2> SUFFICES ASSUME CacheInv, NEW i \in DOMAIN caches.catalog
               PROVE  /\ caches.catalog[i].data # NoData => caches.catalog[i].data >= learned
                      /\ caches.catalog[i].fetch # NoFetch => fetches[caches.catalog[i].fetch].sent >= learned
    BY DEF CatalogIsNotOlder
  <2>1. caches.catalog[i] \in RowsSince(fetches, learned)
    BY DEF CacheInv
  <2> QED
    BY <2>1 DEF RowsSince
<1> QED
  BY <1>1, CacheInitInv, CacheNextInv, PTL DEF CacheSpec

----------------------------------------------------------------------------
(* The pages of a listing. *)
LEMMA Quotients == \A a \in Nat, p \in Nat \ {0} : a >= p => a \div p \in Nat \ {0}
  OBVIOUS

LEMMA ListingFacts ==
    ASSUME NEW k \in Keys, NEW v \in 0..MaxVersion
    PROVE  /\ Listings[k][v] \in Seq(Nat) /\ PageCount(k, v) \in Nat \ {0}
           /\ \A i, j \in DOMAIN Listings[k][v] : Listings[k][v][i] = Listings[k][v][j] => i = j
<1>1. Listings[k][v] \in Seq(Nat) /\ PageSize \in Nat \ {0}
  BY CardAssumption
<1>2. PICK n, p : n = Len(Listings[k][v]) /\ p = PageSize /\ n \in Nat /\ p \in Nat \ {0}
  BY <1>1
<1>3. CASE Listings[k][v] = <<>>
  BY <1>1, <1>3, CardAssumption DEF PageCount, IsInjective
<1>4. CASE Listings[k][v] # <<>>
  <2>1. n >= 1
    BY <1>1, <1>2, <1>4
  <2>2. (n + p - 1) \div p \in Nat \ {0}
    <3>1. PICK a : a = n + p - 1 /\ a \in Nat /\ a >= p
      BY <1>2, <2>1
    <3> QED
      BY <1>2, <3>1, Quotients
  <2> QED
    BY <1>1, <1>2, <1>4, <2>2, CardAssumption DEF PageCount, IsInjective
<1> QED
  BY <1>3, <1>4

LEMMA PagesAreSlices ==
    ASSUME NEW k \in Keys, NEW v \in 0..MaxVersion, NEW n \in Nat \ {0}
    PROVE  /\ Page(k, v, n) = Slice(Listings[k][v], PageSize, n)
           /\ Page(k, v, 1) = FirstPages(k, v, 1)
           /\ FirstPages(k, v, n) = SubSeq(Listings[k][v], 1, UpTo(Listings[k][v], PageSize, n))
           /\ FirstPages(k, v, n) \o Page(k, v, n + 1) = FirstPages(k, v, n + 1)
<1>1. PICK s, p : s = Listings[k][v] /\ p = PageSize /\ s \in Seq(Nat) /\ p \in Nat \ {0}
  BY CardAssumption
<1>2. \A i : Page(k, v, i) = Slice(s, p, i)
  BY <1>1 DEF Page, Slice, UpTo
<1>3. ASSUME NEW i \in Nat \ {0} PROVE FirstPages(k, v, i) = SubSeq(s, 1, UpTo(s, p, i))
  <2>1. FirstPages(k, v, i) = FlattenSeq([j \in 1..i |-> Slice(s, p, j)])
    BY <1>2 DEF FirstPages
  <2> QED
    BY <1>1, <2>1, SlicesTogether
<1>4. Slice(s, p, 1) = SubSeq(s, 1, UpTo(s, p, 1)) /\ 1 \in Nat \ {0} /\ n + 1 \in Nat \ {0}
  <2>1. 1 \in Nat \ {0} /\ n + 1 \in Nat \ {0}
    OBVIOUS
  <2> QED
    BY <1>1, <2>1, SlicesFollow
<1>5. SubSeq(s, 1, UpTo(s, p, n)) \o Slice(s, p, n + 1) = SubSeq(s, 1, UpTo(s, p, n + 1))
  BY <1>1, SlicesFollow
<1> QED
  BY <1>1, <1>2, <1>3, <1>4, <1>5

LEMMA MergeFresh ==
    ASSUME NEW base \in Seq(Nat), NEW new \in Seq(Nat), ToSet(base) \cap ToSet(new) = {}
    PROVE  Merge(base, new) = base \o new
<1>1. PICK seqs : seqs = [i \in DOMAIN new |-> <<new[i]>>]
  OBVIOUS
<1>2. \A i \in DOMAIN new : new[i] \notin ToSet(base)
  BY DEF ToSet
<1>3. [i \in DOMAIN new |-> IF new[i] \in ToSet(base) THEN <<>> ELSE <<new[i]>>] = seqs
  BY <1>1, <1>2
<1>4. FlattenSeq(seqs) = new
  BY <1>1, FlattenedSingles
<1> QED
  BY <1>3, <1>4 DEF Merge

LEMMA NextPage ==
    ASSUME NEW k \in Keys, NEW v \in 0..MaxVersion, NEW n \in Nat \ {0}
    PROVE  /\ FirstPages(k, v, n) \o Page(k, v, n + 1) = FirstPages(k, v, n + 1)
           /\ Merge(FirstPages(k, v, n), Page(k, v, n + 1)) = FirstPages(k, v, n + 1)
<1>1. PICK s, p, a : /\ s = Listings[k][v] /\ p = PageSize /\ a = UpTo(s, p, n) /\ s \in Seq(Nat) /\ a \in 0..Len(s)
                     /\ p \in Nat \ {0}
  BY ListingFacts, CardAssumption, SlicesFollow
<1>2. FirstPages(k, v, n) = SubSeq(s, 1, a)
  BY <1>1, PagesAreSlices
<1>3. FirstPages(k, v, n) \o Page(k, v, n + 1) = FirstPages(k, v, n + 1)
  BY PagesAreSlices
<1>4. PICK m, b : /\ m = n * p /\ m \in Nat /\ b = UpTo(s, p, n + 1) /\ b \in 0..Len(s)
                  /\ Page(k, v, n + 1) = SubSeq(s, m + 1, b) /\ a <= m
  <2>1. PICK m : m = n * p /\ m \in Nat /\ (n + 1) - 1 = n /\ n + 1 \in Nat \ {0}
    BY <1>1, Products
  <2>2. UpTo(s, p, n + 1) \in 0..Len(s)
    BY <1>1, <2>1, SlicesFollow
  <2>3. a <= m
    BY <1>1, <2>1 DEF UpTo
  <2>4. Page(k, v, n + 1) = SubSeq(s, m + 1, UpTo(s, p, n + 1))
    BY <1>1, <2>1, PagesAreSlices DEF Slice
  <2> QED
    BY <2>1, <2>2, <2>3, <2>4
<1>5. ToSet(SubSeq(s, 1, a)) \cap ToSet(SubSeq(s, m + 1, b)) = {}
  <2>1. Len(s) \in Nat /\ a \in Nat /\ b \in Nat /\ a <= Len(s) /\ b <= Len(s)
    BY <1>1, <1>4
  <2>2. ASSUME NEW x \in ToSet(SubSeq(s, 1, a)) PROVE \E i \in DOMAIN s : i \in Nat /\ i <= m /\ s[i] = x
    <3>1. SubSeq(s, 1, a) = SubSeq(s, 0 + 1, a)
      OBVIOUS
    <3>2. PICK q : q = SubSeq(s, 0 + 1, a)
      OBVIOUS
    <3>3. PICK i \in DOMAIN q : x = q[i]
      BY <2>2, <3>1, <3>2 DEF ToSet
    <3>4. i \in Nat /\ 0 + i <= a /\ q[i] = s[0 + i] /\ 0 + i \in DOMAIN s
      <4>1. SliceOf(q, s, 0, a, Nat)
        BY <1>1, <2>1, <3>2, SliceFacts
      <4> QED
        BY <3>3, <4>1 DEF SliceOf
    <3>5. 0 + i = i /\ i <= m
      BY <1>4, <2>1, <3>4
    <3> QED
      BY <3>3, <3>4, <3>5
  <2>3. ASSUME NEW x \in ToSet(SubSeq(s, m + 1, b)) PROVE \E i \in DOMAIN s : i \in Nat /\ m < i /\ s[i] = x
    <3>2. PICK q : q = SubSeq(s, m + 1, b)
      OBVIOUS
    <3>3. PICK i \in DOMAIN q : x = q[i]
      BY <2>3, <3>2 DEF ToSet
    <3>4. i \in Nat /\ i >= 1 /\ q[i] = s[m + i] /\ m + i \in DOMAIN s
      <4>1. SliceOf(q, s, m, b, Nat)
        BY <1>1, <1>4, <2>1, <3>2, SliceFacts
      <4> QED
        BY <3>3, <4>1 DEF SliceOf
    <3>5. m + i \in Nat /\ m < m + i
      BY <1>4, <3>4
    <3> QED
      BY <3>3, <3>4, <3>5
  <2>4. \A i, j \in DOMAIN s : s[i] = s[j] => i = j
    BY <1>1, ListingFacts
  <2>5. ASSUME NEW x, x \in ToSet(SubSeq(s, 1, a)), x \in ToSet(SubSeq(s, m + 1, b)) PROVE FALSE
    <3>1. PICK i \in DOMAIN s : i \in Nat /\ i <= m /\ s[i] = x
      BY <2>2, <2>5
    <3>2. PICK j \in DOMAIN s : j \in Nat /\ m < j /\ s[j] = x
      BY <2>3, <2>5
    <3>3. i = j
      BY <2>4, <3>1, <3>2
    <3> QED
      BY <1>4, <3>1, <3>2, <3>3
  <2> QED
    BY <2>5
<1>6. SubSeq(s, 1, a) \in Seq(Nat) /\ SubSeq(s, m + 1, b) \in Seq(Nat)
  <2>1. SubSeq(s, 1, a) \in Seq(Nat)
    BY <1>1
  <2>2. b \in Nat /\ b <= Len(s)
    BY <1>1, <1>4
  <2> QED
    BY <1>1, <1>4, <2>1, <2>2, SliceFacts DEF SliceOf
<1>7. Merge(SubSeq(s, 1, a), SubSeq(s, m + 1, b)) = SubSeq(s, 1, a) \o SubSeq(s, m + 1, b)
  BY <1>5, <1>6, MergeFresh
<1> QED
  BY <1>2, <1>3, <1>4, <1>7

----------------------------------------------------------------------------
(* The lists: while the tab has been told of the last change, what it remembers
   and what it has asked for belong to the server's data. *)
ListTypes ==
    /\ listVersion \in 0..MaxVersion /\ told \in 0..listVersion
    /\ key \in Keys \union {NoKey} /\ mixed \in SUBSET Keys
    /\ sessions = [k \in Keys |-> sessions[k]] /\ snapshots = [k \in Keys |-> snapshots[k]]
ViewOK ==
    key # NoKey /\ fetch = <<>> /\ ~failed =>
        /\ sessions[key] # <<>> /\ cards = sessions[key][1].cards /\ cardPage = sessions[key][1].page
        /\ totalPages = sessions[key][1].total
FetchOK ==
    fetch # <<>> =>
        /\ key # NoKey
        /\ \E a : /\ fetch = <<[key |-> key, answer |-> a]>>
                  /\ told = listVersion /\ a # <<>> => a = <<Served(key, listVersion, 1)>>
SessionsOK ==
    told = listVersion =>
        \A k \in Keys \ mixed : sessions[k] # <<>> =>
            \E n \in 1..PageCount(k, listVersion) :
                sessions[k] = <<[page |-> n, total |-> PageCount(k, listVersion),
                                 cards |-> FirstPages(k, listVersion, n)]>>
SnapshotsOK ==
    told = listVersion =>
        \A k \in Keys : snapshots[k] # <<>> => snapshots[k] = <<Served(k, listVersion, 1)>>
Asked(m) ==
    /\ m.key \in Keys
    /\ m = [key |-> m.key, page |-> m.page, cards |-> m.cards, answer |-> m.answer, stale |-> m.stale]
    /\ told = listVersion /\ ~m.stale =>
          /\ sessions[m.key] # <<>> /\ m.page \in 2..PageCount(m.key, listVersion)
          /\ m.answer # <<>> => m.answer = <<Served(m.key, listVersion, m.page)>>
MoreOK == more # <<>> => \E m : more = <<m>> /\ Asked(m)
ListsOK == ListTypes /\ ViewOK /\ FetchOK /\ SessionsOK /\ SnapshotsOK /\ MoreOK

PagerFields == {"key", "cards", "page", "total", "loading", "more"}
PagerOK(r) ==
    /\ DOMAIN r = PagerFields
    /\ r.key \in Keys \union {NoKey} /\ r.loading \in BOOLEAN
    /\ r.loading => r.key \in Keys /\ r.cards = <<>>
    /\ r.cards # <<>> => /\ r.key \in Keys /\ r.total = PageCount(r.key, 0) /\ r.page \in 1..r.total
                         /\ r.cards = FirstPages(r.key, 0, r.page)
    /\ r.more # <<>> => /\ r.more = <<[key |-> r.key, page |-> r.page + 1]>>
                        /\ r.cards # <<>> /\ ~r.loading /\ r.page < r.total
PagersOK == pagers = [p \in PagerKinds |-> pagers[p]] /\ \A p \in PagerKinds : PagerOK(pagers[p])
CardInv == ListsOK /\ PagersOK

LEMMA FirstServed ==
    ASSUME NEW k \in Keys, NEW v \in 0..MaxVersion
    PROVE  /\ 1 \in 1..PageCount(k, v)
           /\ Served(k, v, 1) = [page |-> 1, total |-> PageCount(k, v), cards |-> FirstPages(k, v, 1)]
<1>1. PageCount(k, v) \in Nat \ {0}
  BY ListingFacts
<1>2. 1 \in 1..PageCount(k, v) /\ ~(1 > PageCount(k, v))
  BY <1>1
<1>3. FirstPages(k, v, 1) = Page(k, v, 1)
  <2>1. 1 \in Nat \ {0}
    OBVIOUS
  <2> QED
    BY <2>1, PagesAreSlices
<1> QED
  BY <1>2, <1>3 DEF Served

LEMMA NextServed ==
    ASSUME NEW k \in Keys, NEW v \in 0..MaxVersion, NEW n \in 1..PageCount(k, v), n < PageCount(k, v)
    PROVE  /\ n + 1 \in 1..PageCount(k, v)
           /\ Served(k, v, n + 1) = [page |-> n + 1, total |-> PageCount(k, v), cards |-> Page(k, v, n + 1)]
           /\ Merge(FirstPages(k, v, n), Page(k, v, n + 1)) = FirstPages(k, v, n + 1)
           /\ FirstPages(k, v, n) \o Page(k, v, n + 1) = FirstPages(k, v, n + 1)
<1>1. PageCount(k, v) \in Nat \ {0}
  BY ListingFacts
<1>2. n + 1 \in 1..PageCount(k, v) /\ ~(n + 1 > PageCount(k, v)) /\ n \in Nat \ {0}
  BY <1>1
<1> QED
  BY <1>2, NextPage DEF Served

LEMMA PagerStep == ASSUME CardInv, PagersNext PROVE PagersOK'
<1>1. PICK p \in PagerKinds : (\E k \in Keys : OpenPager(p, k)) \/ PagerAnswered(p) \/ PagerMore(p) \/ PagerMoreAnswered(p)
  BY DEF PagersNext
<1>2. PICK r : r = pagers[p] /\ PagerOK(r)
  BY DEF CardInv, PagersOK
<1>3. ASSUME NEW q, PagerOK(q), pagers' = [pagers EXCEPT ![p] = q] PROVE PagersOK'
  <2>1. pagers' = [i \in PagerKinds |-> IF i = p THEN q ELSE pagers[i]]
    BY <1>3 DEF CardInv, PagersOK
  <2>2. \A i \in PagerKinds : PagerOK(pagers'[i])
    BY <1>3, <2>1 DEF CardInv, PagersOK
  <2> QED
    BY <2>1, <2>2 DEF PagersOK
<1>4. ASSUME NEW k \in Keys, OpenPager(p, k) PROVE PagersOK'
  <2> DEFINE q == [r EXCEPT !.key = k, !.cards = <<>>, !.page = 1, !.loading = TRUE, !.more = <<>>]
  <2>1. pagers' = [pagers EXCEPT ![p] = q]
    BY <1>2, <1>4 DEF OpenPager, Pager
  <2>2. /\ DOMAIN q = PagerFields
       /\ q.key = k /\ q.cards = <<>> /\ q.page = 1
       /\ q.total = r.total /\ q.loading = TRUE /\ q.more = <<>>
    BY <1>2 DEF PagerOK, PagerFields
  <2>3. PagerOK(q)
    BY <2>2 DEF PagerOK
  <2> QED
    BY <1>3, <2>1, <2>3
<1>5. CASE PagerAnswered(p)
  <2>1. r.loading /\ r.key \in Keys /\ r.cards = <<>> /\ r.more = <<>>
    BY <1>2, <1>5 DEF PagerAnswered, PagerOK
  <2>2. CASE Pager(p, [pagers[p] EXCEPT !.loading = FALSE])
    <3> DEFINE q == [r EXCEPT !.loading = FALSE]
    <3>1. /\ DOMAIN q = PagerFields
         /\ q.key = r.key /\ q.cards = <<>> /\ q.page = r.page
         /\ q.total = r.total /\ q.loading = FALSE /\ q.more = <<>>
      BY <1>2, <2>1 DEF PagerOK, PagerFields
    <3>2. PagerOK(q) /\ pagers' = [pagers EXCEPT ![p] = q]
      BY <1>2, <2>1, <2>2, <3>1 DEF PagerOK, Pager
    <3> QED
      BY <1>3, <3>2
  <2>3. ASSUME NEW first, first = Served(r.key, 0, 1),
               Pager(p, [pagers[p] EXCEPT !.cards = first.cards, !.page = first.page, !.total = first.total,
                                          !.loading = FALSE])
        PROVE  PagersOK'
    <3> DEFINE q == [r EXCEPT !.cards = first.cards, !.page = first.page, !.total = first.total, !.loading = FALSE]
    <3>0. 0 \in 0..MaxVersion
      BY CardAssumption
    <3>1. /\ 1 \in 1..PageCount(r.key, 0)
          /\ first = [page |-> 1, total |-> PageCount(r.key, 0), cards |-> FirstPages(r.key, 0, 1)]
      BY <2>1, <2>3, <3>0, FirstServed
    <3>2. /\ DOMAIN q = PagerFields
         /\ q.key = r.key /\ q.cards = FirstPages(r.key, 0, 1) /\ q.page = 1
         /\ q.total = PageCount(r.key, 0) /\ q.loading = FALSE /\ q.more = <<>>
      BY <1>2, <2>1, <3>1 DEF PagerOK, PagerFields
    <3>3. PagerOK(q) /\ pagers' = [pagers EXCEPT ![p] = q]
      BY <1>2, <2>1, <2>3, <3>1, <3>2 DEF PagerOK, Pager
    <3> QED
      BY <1>3, <3>3
  <2> QED
    BY <1>2, <1>5, <2>2, <2>3 DEF PagerAnswered
<1>6. CASE PagerMore(p)
  <2> DEFINE q == [r EXCEPT !.more = <<[key |-> r.key, page |-> r.page + 1]>>]
  <2>1. pagers' = [pagers EXCEPT ![p] = q] /\ r.cards # <<>> /\ ~r.loading /\ r.page < r.total
    BY <1>2, <1>6 DEF PagerMore, Pager
  <2>2. /\ DOMAIN q = PagerFields
       /\ q.key = r.key /\ q.cards = r.cards /\ q.page = r.page
       /\ q.total = r.total /\ q.loading = r.loading /\ q.more = <<[key |-> r.key, page |-> r.page + 1]>>
    BY <1>2 DEF PagerOK, PagerFields
  <2>3. PagerOK(q)
    BY <1>2, <2>1, <2>2 DEF PagerOK
  <2> QED
    BY <1>3, <2>1, <2>3
<1>7. CASE PagerMoreAnswered(p)
  <2>1. /\ r.more = <<[key |-> r.key, page |-> r.page + 1]>> /\ r.cards # <<>> /\ ~r.loading /\ r.page < r.total
        /\ r.key \in Keys /\ r.total = PageCount(r.key, 0) /\ r.page \in 1..r.total
        /\ r.cards = FirstPages(r.key, 0, r.page)
    BY <1>2, <1>7 DEF PagerMoreAnswered, PagerOK
  <2>2. CASE Pager(p, [pagers[p] EXCEPT !.more = <<>>])
    <3> DEFINE q == [r EXCEPT !.more = <<>>]
    <3>1. /\ DOMAIN q = PagerFields
         /\ q.key = r.key /\ q.cards = r.cards /\ q.page = r.page
         /\ q.total = r.total /\ q.loading = r.loading /\ q.more = <<>>
      BY <1>2 DEF PagerOK, PagerFields
    <3>2. PagerOK(q) /\ pagers' = [pagers EXCEPT ![p] = q]
      BY <1>2, <2>1, <2>2, <3>1 DEF PagerOK, Pager
    <3> QED
      BY <1>3, <3>2
  <2>3. ASSUME NEW next, next = Served(r.more[1].key, 0, r.more[1].page),
               Pager(p, [pagers[p] EXCEPT !.cards = IF p = "tours" THEN Merge(@, next.cards) ELSE @ \o next.cards,
                                          !.page = next.page, !.total = next.total, !.more = <<>>])
        PROVE  PagersOK'
    <3> DEFINE q == [r EXCEPT !.cards = IF p = "tours" THEN Merge(@, next.cards) ELSE @ \o next.cards,
                              !.page = next.page, !.total = next.total, !.more = <<>>]
    <3>0. 0 \in 0..MaxVersion
      BY CardAssumption
    <3>7. PICK a : a = [key |-> r.key, page |-> r.page + 1]
      OBVIOUS
    <3>8. r.more[1] = a /\ a.key = r.key /\ a.page = r.page + 1
      BY <2>1, <3>7
    <3>1. PICK k, n, t : /\ k = r.key /\ n = r.page /\ t = r.total
                         /\ r.more[1].key = k /\ r.more[1].page = n + 1
      BY <3>8
    <3>2. k \in Keys /\ t = PageCount(k, 0) /\ n \in 1..PageCount(k, 0) /\ n < PageCount(k, 0)
      BY <2>1, <3>1
    <3>3. /\ n + 1 \in 1..PageCount(k, 0)
          /\ next = [page |-> n + 1, total |-> PageCount(k, 0), cards |-> Page(k, 0, n + 1)]
          /\ Merge(r.cards, next.cards) = FirstPages(k, 0, n + 1) /\ r.cards \o next.cards = FirstPages(k, 0, n + 1)
      <4>1. next = Served(k, 0, n + 1)
        BY <2>3, <3>1
      <4>2. /\ n + 1 \in 1..PageCount(k, 0)
            /\ Served(k, 0, n + 1) = [page |-> n + 1, total |-> PageCount(k, 0), cards |-> Page(k, 0, n + 1)]
            /\ Merge(FirstPages(k, 0, n), Page(k, 0, n + 1)) = FirstPages(k, 0, n + 1)
            /\ FirstPages(k, 0, n) \o Page(k, 0, n + 1) = FirstPages(k, 0, n + 1)
        BY <3>0, <3>2, NextServed
      <4>3. r.cards = FirstPages(k, 0, n)
        BY <2>1, <3>1
      <4>4. next = [page |-> n + 1, total |-> PageCount(k, 0), cards |-> Page(k, 0, n + 1)]
        BY <4>1, <4>2
      <4>5. next.cards = Page(k, 0, n + 1)
        BY <4>4
      <4> QED
        BY <4>2, <4>3, <4>4, <4>5
    <3>4. /\ DOMAIN q = PagerFields
         /\ q.key = k /\ q.cards = FirstPages(k, 0, n + 1) /\ q.page = n + 1
         /\ q.total = PageCount(k, 0) /\ q.loading = FALSE /\ q.more = <<>>
      BY <1>2, <2>1, <3>1, <3>3 DEF PagerOK, PagerFields
    <3>5. pagers' = [pagers EXCEPT ![p] = q]
      BY <1>2, <2>3 DEF Pager
    <3>6. PagerOK(q)
      BY <3>2, <3>3, <3>4 DEF PagerOK
    <3> QED
      BY <1>3, <3>5, <3>6
  <2> QED
    BY <1>2, <1>7, <2>2, <2>3 DEF PagerMoreAnswered
<1> QED
  BY <1>1, <1>4, <1>5, <1>6, <1>7

LEMMA ListStep == ASSUME CardInv, LivesListNext PROVE ListsOK'
<1>0. /\ ListTypes /\ ViewOK /\ FetchOK /\ SessionsOK /\ SnapshotsOK /\ MoreOK
      /\ NoKey \notin Keys /\ MaxVersion \in Nat
  BY CardAssumption DEF CardInv, ListsOK, NoKey
<1>1. ASSUME NEW k \in Keys, NEW n \in Nat, OpenList(k, n) PROVE ListsOK'
  <2>1. /\ k # NoKey /\ key' = k /\ failed' = FALSE /\ sessions[k] = sessions[k]
        /\ UNCHANGED <<listVersion, told, more, mixed, snapshots>>
    BY <1>0, <1>1 DEF OpenList, ShowList
  <2>2. /\ sessions' = [i \in Keys |-> sessions'[i]]
        /\ \A i \in Keys : \/ sessions'[i] = sessions[i]
                           \/ sessions'[i] = snapshots[i] /\ snapshots[i] # <<>>
    <3>1. CASE (sessions[k] = <<>> \/ sessions[k][1].page < n) /\ snapshots[k] # <<>>
      <4>1. sessions' = [i \in Keys |-> IF i = k THEN snapshots[k] ELSE sessions[i]]
        BY <1>0, <1>1, <3>1 DEF OpenList, ListTypes
      <4> QED
        BY <3>1, <4>1
    <3>2. CASE ~((sessions[k] = <<>> \/ sessions[k][1].page < n) /\ snapshots[k] # <<>>)
      <4>1. sessions' = sessions
        BY <1>1, <3>2 DEF OpenList
      <4> QED
        BY <1>0, <4>1 DEF ListTypes
    <3> QED
      BY <3>1, <3>2
  <2>3. ListTypes'
    BY <1>0, <2>1, <2>2 DEF ListTypes
  <2>4. /\ fetch' = <<>> => /\ sessions'[k] # <<>> /\ cards' = sessions'[k][1].cards
                            /\ cardPage' = sessions'[k][1].page /\ totalPages' = sessions'[k][1].total
        /\ fetch' = <<>> \/ fetch' = <<[key |-> k, answer |-> <<>>]>>
    BY <1>1 DEF OpenList, ShowList
  <2>5. ViewOK'
    BY <2>1, <2>4 DEF ViewOK
  <2>6. FetchOK'
    BY <2>1, <2>4 DEF FetchOK
  <2>7. SnapshotsOK'
    BY <1>0, <2>1 DEF SnapshotsOK, Served, PageCount, Page
  <2>8. SessionsOK'
    <3>1. SUFFICES ASSUME told = listVersion, NEW i \in Keys \ mixed, sessions'[i] # <<>>
                   PROVE  \E m \in 1..PageCount(i, listVersion) :
                              sessions'[i] = <<[page |-> m, total |-> PageCount(i, listVersion),
                                                cards |-> FirstPages(i, listVersion, m)]>>
      BY <2>1 DEF SessionsOK
    <3>2. CASE sessions'[i] = sessions[i]
      BY <1>0, <3>1, <3>2 DEF SessionsOK
    <3>3. CASE sessions'[i] = snapshots[i] /\ snapshots[i] # <<>>
      <4>1. sessions'[i] = <<Served(i, listVersion, 1)>> /\ listVersion \in 0..MaxVersion
        BY <1>0, <3>1, <3>3 DEF SnapshotsOK, ListTypes
      <4> QED
        BY <3>1, <4>1, FirstServed
    <3> QED
      BY <2>2, <3>2, <3>3
  <2>9. MoreOK'
    <3>1. SUFFICES ASSUME more # <<>> PROVE \E m : more' = <<m>> /\ Asked(m)'
      BY <2>1 DEF MoreOK
    <3>2. PICK m : more = <<m>> /\ Asked(m)
      BY <1>0, <3>1 DEF MoreOK
    <3>3. Asked(m)'
      BY <2>1, <2>2, <3>2 DEF Asked
    <3> QED
      BY <2>1, <3>2, <3>3
  <2> QED
    BY <2>3, <2>5, <2>6, <2>7, <2>8, <2>9 DEF ListsOK
<1>2. CASE CloseList
  <2>1. /\ key' = NoKey /\ fetch' = <<>>
        /\ UNCHANGED <<listVersion, told, kept, more>>
    BY <1>2 DEF CloseList
  <2>2. ListTypes' /\ ViewOK' /\ FetchOK'
    BY <1>0, <2>1 DEF ListTypes, ViewOK, FetchOK, kept
  <2>3. SessionsOK' /\ SnapshotsOK' /\ MoreOK'
    BY <1>0, <2>1 DEF SessionsOK, SnapshotsOK, MoreOK, Asked, kept
  <2> QED
    BY <2>2, <2>3 DEF ListsOK
<1>3. CASE ReadFetch
  <2>1. PICK a : fetch = <<[key |-> key, answer |-> a]>> /\ key # NoKey
    BY <1>0, <1>3 DEF ReadFetch, FetchOK
  <2>2. PICK r : r = [key |-> key, answer |-> a]
    OBVIOUS
  <2>3. PICK w : w = <<Served(key, listVersion, 1)>>
    OBVIOUS
  <2>4. fetch[1] = r
    BY <2>1, <2>2
  <2>5. [r EXCEPT !.answer = w] = [key |-> key, answer |-> w]
    BY <2>2
  <2>6. fetch' = <<[key |-> key, answer |-> w]>> /\ UNCHANGED <<listVersion, told, view, kept, more>>
    BY <1>3, <2>3, <2>4, <2>5 DEF ReadFetch
  <2>7. FetchOK'
    BY <2>1, <2>3, <2>6 DEF FetchOK, Served, view
  <2>8. ListTypes' /\ ViewOK'
    BY <1>0, <2>6 DEF ListTypes, ViewOK, view, kept
  <2>9. SessionsOK' /\ SnapshotsOK' /\ MoreOK'
    BY <1>0, <2>6 DEF SessionsOK, SnapshotsOK, MoreOK, Asked, kept
  <2> QED
    BY <2>7, <2>8, <2>9 DEF ListsOK
<1>4. CASE FetchAnswered
  <2>1. PICK a : /\ fetch = <<[key |-> key, answer |-> a]>> /\ key # NoKey
                 /\ told = listVersion /\ a # <<>> => a = <<Served(key, listVersion, 1)>>
    BY <1>0, <1>4 DEF FetchAnswered, FetchOK
  <2>2. PICK r : r = [key |-> key, answer |-> a] /\ fetch[1] = r /\ r.answer = a
    BY <2>1
  <2>3. PICK first : first = a[1]
    OBVIOUS
  <2>4. /\ fetch' = <<>> /\ a # <<>> /\ key \in Keys
        /\ snapshots' = [i \in Keys |-> IF i = key THEN <<first>> ELSE snapshots[i]]
        /\ sessions' = [i \in Keys |-> IF i = key THEN <<first>> ELSE sessions[i]]
        /\ cards' = first.cards /\ totalPages' = first.total /\ cardPage' = first.page
        /\ mixed' = mixed \ {key}
        /\ UNCHANGED <<listVersion, told, key, more>>
    BY <1>0, <1>4, <2>1, <2>2, <2>3 DEF FetchAnswered, ListTypes
  <2>5. told = listVersion => first = Served(key, listVersion, 1)
    BY <2>1, <2>3, <2>4
  <2>6. ListTypes' /\ ViewOK' /\ FetchOK'
    <3>1. ListTypes'
      BY <1>0, <2>4 DEF ListTypes
    <3>2. ViewOK'
      BY <2>4 DEF ViewOK
    <3>3. FetchOK'
      BY <2>4 DEF FetchOK
    <3> QED
      BY <3>1, <3>2, <3>3
  <2>7. SnapshotsOK'
    BY <1>0, <2>4, <2>5 DEF SnapshotsOK, Served, PageCount, Page
  <2>8. SessionsOK'
    <3>1. SUFFICES ASSUME told = listVersion, NEW i \in Keys \ mixed', sessions'[i] # <<>>
                   PROVE  \E m \in 1..PageCount(i, listVersion) :
                              sessions'[i] = <<[page |-> m, total |-> PageCount(i, listVersion),
                                                cards |-> FirstPages(i, listVersion, m)]>>
      BY <2>4 DEF SessionsOK
    <3>2. CASE i # key
      BY <1>0, <2>4, <3>1, <3>2 DEF SessionsOK
    <3>3. CASE i = key
      <4>1. sessions'[i] = <<Served(i, listVersion, 1)>> /\ listVersion \in 0..MaxVersion
        BY <1>0, <2>4, <2>5, <3>1, <3>3 DEF ListTypes
      <4> QED
        BY <3>1, <4>1, FirstServed
    <3> QED
      BY <3>2, <3>3
  <2>9. MoreOK'
    <3>1. SUFFICES ASSUME more # <<>> PROVE \E m : more' = <<m>> /\ Asked(m)'
      BY <2>4 DEF MoreOK
    <3>2. PICK m : more = <<m>> /\ Asked(m)
      BY <1>0, <3>1 DEF MoreOK
    <3>3. Asked(m)'
      BY <2>4, <3>2 DEF Asked
    <3> QED
      BY <2>4, <3>2, <3>3
  <2> QED
    BY <2>6, <2>7, <2>8, <2>9 DEF ListsOK
<1>5. CASE FetchFailed
  <2>1. fetch' = <<>> /\ failed' = TRUE /\ UNCHANGED <<listVersion, told, key, kept, more>>
    BY <1>5 DEF FetchFailed
  <2>2. ListTypes' /\ ViewOK' /\ FetchOK'
    BY <1>0, <2>1 DEF ListTypes, ViewOK, FetchOK, kept
  <2>3. SessionsOK' /\ SnapshotsOK' /\ MoreOK'
    BY <1>0, <2>1 DEF SessionsOK, SnapshotsOK, MoreOK, Asked, kept
  <2> QED
    BY <2>2, <2>3 DEF ListsOK
<1>6. CASE LoadMore
  <2>1. PICK s : s = sessions[key]
    OBVIOUS
  <2>2. PICK loaded : loaded = IF s # <<>> THEN s[1].page ELSE cardPage
    OBVIOUS
  <2>3. PICK stale : stale = (s = <<>> \/ fetch # <<>> \/ key \in mixed)
    OBVIOUS
  <2>4. PICK m : m = [key |-> key, page |-> loaded + 1, cards |-> cards, answer |-> <<>>, stale |-> stale]
    OBVIOUS
  <2>5. /\ more' = <<m>> /\ key \in Keys /\ loaded < (IF s # <<>> THEN s[1].total ELSE totalPages)
        /\ UNCHANGED <<listVersion, told, view, kept, fetch>>
    BY <1>0, <1>6, <2>1, <2>2, <2>3, <2>4 DEF LoadMore, ListTypes
  <2>6. ASSUME told = listVersion, ~stale
        PROVE  sessions[key] # <<>> /\ loaded + 1 \in 2..PageCount(key, listVersion)
    <3>1. s # <<>> /\ key \notin mixed
      BY <2>3, <2>6
    <3>2. PICK n \in 1..PageCount(key, listVersion) :
              s = <<[page |-> n, total |-> PageCount(key, listVersion), cards |-> FirstPages(key, listVersion, n)]>>
      BY <1>0, <2>1, <2>5, <2>6, <3>1 DEF SessionsOK
    <3>3. s[1].page = n /\ s[1].total = PageCount(key, listVersion)
      BY <3>2
    <3>4. PageCount(key, listVersion) \in Nat \ {0}
      BY <1>0, <2>5, ListingFacts DEF ListTypes
    <3> QED
      BY <2>1, <2>2, <2>5, <3>1, <3>3, <3>4
  <2>7. Asked(m)'
    <3>1. m.key = key /\ m.page = loaded + 1 /\ m.cards = cards /\ m.answer = <<>> /\ m.stale = stale
      BY <2>4
    <3>2. m = [key |-> m.key, page |-> m.page, cards |-> m.cards, answer |-> m.answer, stale |-> m.stale]
      BY <2>4, <3>1
    <3> QED
      BY <2>5, <2>6, <3>1, <3>2 DEF Asked, kept
  <2>8. ListTypes' /\ ViewOK' /\ FetchOK'
    BY <1>0, <2>5 DEF ListTypes, ViewOK, FetchOK, view, kept
  <2>9. SessionsOK' /\ SnapshotsOK' /\ MoreOK'
    BY <1>0, <2>5, <2>7 DEF SessionsOK, SnapshotsOK, MoreOK, kept
  <2> QED
    BY <2>8, <2>9 DEF ListsOK
<1>7. CASE ReadMore
  <2>1. PICK m : more = <<m>> /\ Asked(m)
    BY <1>0, <1>7 DEF ReadMore, MoreOK
  <2>2. PICK w : w = <<Served(m.key, listVersion, m.page)>>
    OBVIOUS
  <2>3. PICK q : q = [m EXCEPT !.answer = w]
    OBVIOUS
  <2>4. more' = <<q>> /\ UNCHANGED <<listVersion, told, view, kept, fetch>>
    BY <1>7, <2>1, <2>2, <2>3 DEF ReadMore
  <2>5. q = [key |-> m.key, page |-> m.page, cards |-> m.cards, answer |-> w, stale |-> m.stale]
    <3>1. PICK a, b, c, d, f : m = [key |-> a, page |-> b, cards |-> c, answer |-> d, stale |-> f]
      BY <2>1 DEF Asked
    <3> QED
      BY <2>3, <3>1
  <2>6. q.key = m.key /\ q.page = m.page /\ q.cards = m.cards /\ q.answer = w /\ q.stale = m.stale
    BY <2>5
  <2>7. Asked(q)'
    <3>1. q = [key |-> q.key, page |-> q.page, cards |-> q.cards, answer |-> q.answer, stale |-> q.stale]
      BY <2>5, <2>6
    <3> QED
      BY <2>1, <2>2, <2>4, <2>6, <3>1 DEF Asked, kept
  <2>8. ListTypes' /\ ViewOK' /\ FetchOK'
    BY <1>0, <2>4 DEF ListTypes, ViewOK, FetchOK, view, kept
  <2>9. SessionsOK' /\ SnapshotsOK' /\ MoreOK'
    BY <1>0, <2>4, <2>7 DEF SessionsOK, SnapshotsOK, MoreOK, kept
  <2> QED
    BY <2>8, <2>9 DEF ListsOK
<1>8. CASE MoreAnswered
  <2>1. PICK m : more = <<m>> /\ Asked(m) /\ more[1] = m /\ m.answer # <<>>
    <3>1. PICK m : more = <<m>> /\ Asked(m)
      BY <1>0, <1>8 DEF MoreAnswered, MoreOK
    <3> QED
      BY <1>8, <3>1 DEF MoreAnswered
  <2>2. PICK k, got, s, base : /\ k = m.key /\ got = m.answer[1] /\ s = sessions[k]
                                /\ base = IF got.page < m.page THEN <<>> ELSE IF s # <<>> THEN s[1].cards ELSE m.cards
    OBVIOUS
  <2>3. PICK next : next = [got EXCEPT !.cards = Merge(base, got.cards)]
    OBVIOUS
  <2>4. /\ more' = <<>> /\ k \in Keys /\ UNCHANGED <<listVersion, told, key, snapshots, fetch, failed>>
        /\ IF s # <<>> /\ s[1].page >= got.page /\ got.page = m.page
           THEN UNCHANGED <<cards, cardPage, totalPages, sessions, mixed>>
           ELSE /\ sessions' = [sessions EXCEPT ![k] = <<next>>]
                /\ mixed' = IF m.stale \/ (s # <<>> /\ s[1].page + 1 # m.page) THEN mixed \union {k} ELSE mixed
                /\ IF key = k THEN cards' = next.cards /\ totalPages' = next.total /\ cardPage' = next.page
                              ELSE UNCHANGED <<cards, cardPage, totalPages>>
    BY <1>8, <2>1, <2>2, <2>3 DEF MoreAnswered, Asked
  <2>5. CASE s # <<>> /\ s[1].page >= got.page /\ got.page = m.page
    <3>1. UNCHANGED <<listVersion, told, key, snapshots, fetch, failed, cards, cardPage, totalPages, sessions, mixed>>
      BY <2>4, <2>5
    <3>2. ListTypes' /\ ViewOK' /\ FetchOK'
      BY <1>0, <3>1 DEF ListTypes, ViewOK, FetchOK
    <3>3. SessionsOK' /\ SnapshotsOK' /\ MoreOK'
      BY <1>0, <2>4, <3>1 DEF SessionsOK, SnapshotsOK, MoreOK
    <3> QED
      BY <3>2, <3>3 DEF ListsOK
  <2>6. CASE ~(s # <<>> /\ s[1].page >= got.page /\ got.page = m.page)
    <3>1. /\ sessions' = [i \in Keys |-> IF i = k THEN <<next>> ELSE sessions[i]]
          /\ mixed' = IF m.stale \/ (s # <<>> /\ s[1].page + 1 # m.page) THEN mixed \union {k} ELSE mixed
          /\ IF key = k THEN cards' = next.cards /\ totalPages' = next.total /\ cardPage' = next.page
                        ELSE UNCHANGED <<cards, cardPage, totalPages>>
      BY <1>0, <2>4, <2>6 DEF ListTypes
    <3>2. ListTypes'
      BY <1>0, <2>4, <3>1 DEF ListTypes
    <3>3. ViewOK'
      <4>1. CASE key = k
        BY <2>4, <3>1, <4>1 DEF ViewOK
      <4>2. CASE key # k
        <5>1. key # NoKey => sessions'[key] = sessions[key]
          BY <1>0, <3>1, <4>2 DEF ListTypes
        <5> QED
          BY <1>0, <2>4, <3>1, <4>2, <5>1 DEF ViewOK
      <4> QED
        BY <4>1, <4>2
    <3>4. FetchOK' /\ SnapshotsOK' /\ MoreOK'
      BY <1>0, <2>4 DEF FetchOK, SnapshotsOK, MoreOK, Served, PageCount, Page
    <3>5. SessionsOK'
      <4>1. SUFFICES ASSUME told = listVersion, NEW i \in Keys \ mixed', sessions'[i] # <<>>
                     PROVE  \E n \in 1..PageCount(i, listVersion) :
                                sessions'[i] = <<[page |-> n, total |-> PageCount(i, listVersion),
                                                  cards |-> FirstPages(i, listVersion, n)]>>
        BY <2>4 DEF SessionsOK
      <4>2. i \in Keys \ mixed
        BY <3>1, <4>1
      <4>3. CASE i # k
        BY <1>0, <3>1, <4>1, <4>2, <4>3 DEF SessionsOK
      <4>4. CASE i = k
        <5>1. PICK v : v = listVersion /\ v \in 0..MaxVersion
          BY <1>0 DEF ListTypes
        <5>2. ~m.stale /\ ~(s # <<>> /\ s[1].page + 1 # m.page)
          BY <3>1, <4>1, <4>4
        <5>3. s # <<>> /\ m.page \in 2..PageCount(k, v) /\ got = Served(k, v, m.page)
          BY <2>1, <2>2, <4>1, <5>1, <5>2 DEF Asked
        <5>4. PICK n \in 1..PageCount(k, v) :
                  s = <<[page |-> n, total |-> PageCount(k, v), cards |-> FirstPages(k, v, n)]>>
          BY <1>0, <2>2, <4>1, <4>2, <4>4, <5>1, <5>3 DEF SessionsOK
        <5>5. s[1].page = n /\ s[1].cards = FirstPages(k, v, n)
          BY <5>4
        <5>6. m.page = n + 1
          BY <5>2, <5>3, <5>5
        <5>7. n < PageCount(k, v)
          <6>1. PageCount(k, v) \in Nat \ {0}
            BY <2>4, <5>1, ListingFacts
          <6> QED
            BY <5>3, <5>6, <6>1
        <5>8. /\ n + 1 \in 1..PageCount(k, v)
              /\ got = [page |-> n + 1, total |-> PageCount(k, v), cards |-> Page(k, v, n + 1)]
              /\ Merge(FirstPages(k, v, n), Page(k, v, n + 1)) = FirstPages(k, v, n + 1)
          BY <2>4, <5>1, <5>3, <5>6, <5>7, NextServed
        <5>9. got.page = m.page /\ got.cards = Page(k, v, n + 1)
          BY <5>6, <5>8
        <5>10. base = FirstPages(k, v, n)
          <6>1. ~(got.page < m.page)
            BY <5>6, <5>9
          <6> QED
            BY <2>2, <5>3, <5>5, <6>1
        <5>11. PICK c : c = FirstPages(k, v, n + 1) /\ c = Merge(base, got.cards)
          BY <5>8, <5>9, <5>10
        <5>12. next = [page |-> n + 1, total |-> PageCount(k, v), cards |-> c]
          BY <2>3, <5>8, <5>11
        <5> QED
          BY <3>1, <4>1, <4>4, <5>1, <5>8, <5>11, <5>12
      <4> QED
        BY <4>3, <4>4
    <3> QED
      BY <3>2, <3>3, <3>4, <3>5 DEF ListsOK
  <2> QED
    BY <2>5, <2>6
<1>9. CASE MoreFailed
  <2>1. more' = <<>> /\ UNCHANGED <<listVersion, told, view, kept, fetch>>
    BY <1>9 DEF MoreFailed
  <2>2. ListTypes' /\ ViewOK' /\ FetchOK'
    BY <1>0, <2>1 DEF ListTypes, ViewOK, FetchOK, view, kept
  <2>3. SessionsOK' /\ SnapshotsOK' /\ MoreOK'
    BY <1>0, <2>1 DEF SessionsOK, SnapshotsOK, MoreOK, kept
  <2> QED
    BY <2>2, <2>3 DEF ListsOK
<1>10. CASE ListChanges
  <2>1. listVersion < MaxVersion /\ listVersion' = listVersion + 1 /\ UNCHANGED <<told, view, kept, fetch, more>>
    BY <1>10 DEF ListChanges
  <2>2. told' # listVersion' /\ ListTypes'
    BY <1>0, <2>1 DEF ListTypes, view, kept
  <2>3. ViewOK'
    BY <1>0, <2>1 DEF ViewOK, view, kept
  <2>4. FetchOK'
    BY <1>0, <2>1, <2>2 DEF FetchOK, view
  <2>5. SessionsOK' /\ SnapshotsOK'
    BY <2>2 DEF SessionsOK, SnapshotsOK
  <2>6. MoreOK'
    <3>1. SUFFICES ASSUME more # <<>> PROVE \E m : more' = <<m>> /\ Asked(m)'
      BY <2>1 DEF MoreOK
    <3>2. PICK m : more = <<m>> /\ Asked(m)
      BY <1>0, <3>1 DEF MoreOK
    <3>3. Asked(m)'
      BY <2>2, <3>2 DEF Asked
    <3> QED
      BY <2>1, <3>2, <3>3
  <2> QED
    BY <2>2, <2>3, <2>4, <2>5, <2>6 DEF ListsOK
<1>11. CASE Told
  <2>1. /\ told' = listVersion /\ listVersion' = listVersion /\ mixed' = mixed
        /\ sessions' = [k \in Keys |-> <<>>] /\ snapshots' = [k \in Keys |-> <<>>]
        /\ more' = IF more = <<>> THEN more ELSE <<[more[1] EXCEPT !.stale = TRUE]>>
        /\ key' = key
        /\ key # NoKey => fetch' = <<[key |-> key, answer |-> <<>>]>>
        /\ key = NoKey => fetch' = fetch
    <3>1. CASE key = NoKey
      BY <1>11, <3>1 DEF Told, view
    <3>2. CASE key # NoKey
      <4>1. ShowList(key, cardPage, TRUE) /\ sessions'[key] = <<>>
        BY <1>0, <1>11, <3>2 DEF Told, ListTypes
      <4> QED
        BY <1>11, <3>2, <4>1 DEF Told, ShowList
    <3> QED
      BY <3>1, <3>2
  <2>2. ListTypes'
    BY <1>0, <2>1 DEF ListTypes
  <2>3. ViewOK' /\ FetchOK'
    BY <1>0, <2>1 DEF ViewOK, FetchOK
  <2>4. SessionsOK' /\ SnapshotsOK'
    BY <2>1 DEF SessionsOK, SnapshotsOK
  <2>5. MoreOK'
    <3>1. SUFFICES ASSUME more # <<>> PROVE \E m : more' = <<m>> /\ Asked(m)'
      BY <2>1 DEF MoreOK
    <3>2. PICK m : more = <<m>> /\ Asked(m)
      BY <1>0, <3>1 DEF MoreOK
    <3>3. PICK q : q = [m EXCEPT !.stale = TRUE]
      OBVIOUS
    <3>4. q = [key |-> m.key, page |-> m.page, cards |-> m.cards, answer |-> m.answer, stale |-> TRUE]
      <4>1. PICK a, b, c, d, f : m = [key |-> a, page |-> b, cards |-> c, answer |-> d, stale |-> f]
        BY <3>2 DEF Asked
      <4> QED
        BY <3>3, <4>1
    <3>5. q.key = m.key /\ q.stale = TRUE /\ q.page = m.page /\ q.cards = m.cards /\ q.answer = m.answer
      BY <3>4
    <3>6. q = [key |-> q.key, page |-> q.page, cards |-> q.cards, answer |-> q.answer, stale |-> q.stale]
      BY <3>4, <3>5
    <3>7. Asked(q)'
      BY <3>2, <3>5, <3>6 DEF Asked
    <3>8. more' = <<q>>
      BY <2>1, <3>1, <3>2, <3>3
    <3> QED
      BY <3>7, <3>8
  <2> QED
    BY <2>2, <2>3, <2>4, <2>5 DEF ListsOK
<1>12. ASSUME NEW k \in Keys, NEW v \in 0..listVersion, NEW n \in 1..PageCount(k, v) PROVE n \in Nat
  <2>1. v \in 0..MaxVersion
    BY <1>0 DEF ListTypes
  <2>2. PageCount(k, v) \in Nat
    BY <2>1, ListingFacts
  <2> QED
    BY <2>2
<1> QED
  BY <1>1, <1>2, <1>3, <1>4, <1>5, <1>6, <1>7, <1>8, <1>9, <1>10, <1>11, <1>12 DEF LivesListNext

LEMMA CardsFromInv == ASSUME CardInv PROVE CardsAreCurrent
<1>1. ASSUME key # NoKey, fetch = <<>>, told = listVersion, ~failed, key \notin mixed
      PROVE  cards = FirstPages(key, listVersion, cardPage)
  <2>1. /\ sessions[key] # <<>> /\ cards = sessions[key][1].cards /\ cardPage = sessions[key][1].page
        /\ key \in Keys
    BY <1>1 DEF CardInv, ListsOK, ViewOK, ListTypes
  <2>2. PICK n \in 1..PageCount(key, listVersion) :
            sessions[key] = <<[page |-> n, total |-> PageCount(key, listVersion),
                               cards |-> FirstPages(key, listVersion, n)]>>
    BY <1>1, <2>1 DEF CardInv, ListsOK, SessionsOK
  <2>3. sessions[key][1].page = n /\ sessions[key][1].cards = FirstPages(key, listVersion, n)
    BY <2>2
  <2> QED
    BY <2>1, <2>3
<1>2. \A p \in PagerKinds : pagers[p].cards # <<>> => pagers[p].cards = FirstPages(pagers[p].key, 0, pagers[p].page)
  BY DEF CardInv, PagersOK, PagerOK
<1> QED
  BY <1>1, <1>2 DEF CardsAreCurrent

LEMMA CardsStart == ASSUME CardsInit PROVE CardInv
<1>1. ListTypes
  BY CardAssumption DEF CardsInit, ListTypes
<1>2. ViewOK /\ FetchOK /\ SessionsOK /\ SnapshotsOK /\ MoreOK
  BY DEF CardsInit, ViewOK, FetchOK, SessionsOK, SnapshotsOK, MoreOK
<1>3. PagersOK
  <2>1. PICK r : r = [key |-> NoKey, cards |-> <<>>, page |-> 1, total |-> 1, loading |-> FALSE, more |-> <<>>]
    OBVIOUS
  <2>2. PagerOK(r)
    BY <2>1 DEF PagerOK, PagerFields
  <2>3. pagers = [p \in PagerKinds |-> r]
    BY <2>1 DEF CardsInit
  <2> QED
    BY <2>2, <2>3 DEF PagersOK
<1> QED
  BY <1>1, <1>2, <1>3 DEF CardInv, ListsOK

(* The list shows what the server lists: App.tsx, TourArchivePage, VenueDetailPage. *)
THEOREM CardsAreCurrentAlways == CardSpec => []CardsAreCurrent
<1>1. CardsInit => CardInv
  BY CardsStart
<1>2. CardInv /\ [LivesListNext \/ PagersNext]_cardVars => CardInv'
  <2>1. ASSUME CardInv, LivesListNext PROVE CardInv'
    <3>1. pagers' = pagers
      BY <2>1 DEF LivesListNext, OpenList, CloseList, ReadFetch, FetchAnswered, FetchFailed, LoadMore, ReadMore,
          MoreAnswered, MoreFailed, ListChanges, Told
    <3>2. PagersOK'
      BY <2>1, <3>1 DEF CardInv, PagersOK, PagerOK, PageCount, FirstPages, Page
    <3> QED
      BY <2>1, <3>2, ListStep DEF CardInv
  <2>2. ASSUME CardInv, PagersNext PROVE CardInv'
    <3>1. UNCHANGED <<listVersion, told, view, kept, fetch, more>>
      BY <2>2 DEF PagersNext, OpenPager, PagerAnswered, PagerMore, PagerMoreAnswered, Pager
    <3>2. ListsOK'
      BY <2>2, <3>1 DEF CardInv, ListsOK, ListTypes, ViewOK, FetchOK, SessionsOK, SnapshotsOK, MoreOK, Asked,
          view, kept
    <3> QED
      BY <2>2, <3>2, PagerStep DEF CardInv
  <2>3. ASSUME CardInv, UNCHANGED cardVars PROVE CardInv'
    <3>1. UNCHANGED <<listVersion, told, view, kept, fetch, more, pagers>>
      BY <2>3 DEF cardVars
    <3>2. ListsOK'
      BY <2>3, <3>1 DEF CardInv, ListsOK, ListTypes, ViewOK, FetchOK, SessionsOK, SnapshotsOK, MoreOK, Asked,
          view, kept
    <3>3. PagersOK'
      BY <2>3, <3>1 DEF CardInv, PagersOK
    <3> QED
      BY <3>2, <3>3 DEF CardInv
  <2> QED
    BY <2>1, <2>2, <2>3
<1>3. CardInv => CardsAreCurrent
  BY CardsFromInv
<1> QED
  BY <1>1, <1>2, <1>3, PTL DEF CardSpec

----------------------------------------------------------------------------
(* Tours: a setlist has one song in each slot. *)
Row == [song : TourSongs, guest : BOOLEAN]
TourOK ==
    /\ \E n \in Nat \ {0} : DOMAIN tour.stops = 1..n
    /\ \A i \in DOMAIN tour.stops : tour.stops[i].rows \in Seq(Row) /\ tour.stops[i].encore \in Nat

SlotOf(k, encore) == IF k < encore THEN <<"M", k>> ELSE <<"EN", k - encore + 1>>

LEMMA SlotsDiffer ==
    ASSUME NEW k \in Nat, NEW l \in Nat, NEW encore \in Nat, SlotOf(k, encore) = SlotOf(l, encore)
    PROVE  k = l
<1>1. PICK m, e : m = "M" /\ e = "EN" /\ m # e
  OBVIOUS
<1>2. \A a, b, c, d : <<a, b>> = <<c, d>> => a = c /\ b = d
  OBVIOUS
<1>3. SlotOf(k, encore) = (IF k < encore THEN <<m, k>> ELSE <<e, k - encore + 1>>)
      /\ SlotOf(l, encore) = (IF l < encore THEN <<m, l>> ELSE <<e, l - encore + 1>>)
  BY <1>1 DEF SlotOf
<1>4. CASE k < encore /\ l < encore
  <2>1. <<m, k>> = <<m, l>>
    BY <1>3, <1>4
  <2> QED
    BY <1>2, <2>1
<1>5. CASE ~(k < encore) /\ ~(l < encore)
  <2>1. PICK x, y : x = k - encore + 1 /\ y = l - encore + 1
    OBVIOUS
  <2>2. <<e, x>> = <<e, y>>
    BY <1>3, <1>5, <2>1
  <2>3. x = y
    BY <1>2, <2>2
  <2> QED
    BY <2>1, <2>3
<1>6. CASE k < encore /\ ~(l < encore)
  <2>1. <<m, k>> = <<e, l - encore + 1>>
    BY <1>3, <1>6
  <2> QED
    BY <1>1, <1>2, <2>1
<1>7. CASE ~(k < encore) /\ l < encore
  <2>1. <<e, k - encore + 1>> = <<m, l>>
    BY <1>3, <1>7
  <2> QED
    BY <1>1, <1>2, <2>1
<1> QED
  BY <1>4, <1>5, <1>6, <1>7

OneSongPerSlot(rows) == \A x, y \in ToSet(rows) : x.slot = y.slot => x.song = y.song

LEMMA PlayedSlots ==
    ASSUME TourOK, NEW i \in DOMAIN tour.stops
    PROVE  OneSongPerSlot(Played(i))
<1>1. PICK stop, s, encore, n :
          /\ stop = tour.stops[i] /\ s = stop.rows /\ encore = stop.encore /\ n = Len(s)
          /\ s \in Seq(Row) /\ encore \in Nat /\ n \in Nat /\ DOMAIN s = 1..n
  BY DEF TourOK
<1> DEFINE row(k) == [song |-> s[k].song, guest |-> s[k].guest, order |-> k, slot |-> SlotOf(k, encore)]
           Rows == {row(k) : k \in 1..n}
<1>2. PICK rows : rows = [k \in 1..n |-> row(k)]
  OBVIOUS
<1>3. PICK parts : parts = [k \in 1..n |-> IF tour.explicit /\ rows[k].guest THEN <<>> ELSE <<rows[k]>>]
  OBVIOUS
<1>4. PICK counted : counted = FlattenSeq(parts)
  OBVIOUS
<1>5. CASE stop.cancelled
  <2>1. Played(i) = <<>>
    BY <1>1, <1>5 DEF Played
  <2>2. ToSet(<<>>) = {}
    BY DEF ToSet
  <2> QED
    BY <2>1, <2>2 DEF OneSongPerSlot
<1>6. CASE ~stop.cancelled
  <2>1. Played(i) = [k \in DOMAIN counted |-> IF tour.explicit THEN [counted[k] EXCEPT !.order = k] ELSE counted[k]]
    <3>1. \A k : SlotOf(k, encore) = IF k < encore THEN <<"M", k>> ELSE <<"EN", k - encore + 1>>
      BY DEF SlotOf
    <3>2. rows = [k \in DOMAIN s |-> row(k)] /\ DOMAIN rows = 1..n
      BY <1>1, <1>2
    <3>3. counted = FlattenSeq([k \in DOMAIN rows |-> IF tour.explicit /\ rows[k].guest THEN <<>> ELSE <<rows[k]>>])
      BY <1>3, <1>4, <3>2
    <3> QED
      BY <1>1, <1>6, <3>2, <3>3 DEF Played, SlotOf
  <2>2. ToSet(counted) \subseteq Rows
    <3>1. CASE n = 0
      <4>1. parts = <<>>
        BY <1>3, <3>1
      <4>2. counted = <<>>
        BY <1>4, <4>1 DEF FlattenSeq
      <4> QED
        BY <4>2 DEF ToSet
    <3>2. CASE n # 0
      <4>1. n \in Nat \ {0}
        BY <1>1, <3>2
      <4>2. ASSUME NEW k \in 1..n PROVE parts[k] \in Seq(Rows)
        <5>1. rows[k] = row(k) /\ row(k) \in Rows
          BY <1>2
        <5> HIDE DEF Rows
        <5>2. <<>> \in Seq(Rows) /\ <<rows[k]>> \in Seq(Rows)
          BY <5>1
        <5> QED
          BY <1>3, <5>2
      <4>3. parts \in [1..n -> Seq(Rows)]
        <5> HIDE DEF Rows
        <5> QED
          BY <1>3, <4>2
      <4>4. PICK R : R = Rows
        OBVIOUS
      <4>5. parts \in [1..n -> Seq(R)]
        BY <4>3, <4>4
      <4>6. counted \in Seq(R)
        BY <1>4, <4>1, <4>5, FlattenedElements
      <4> QED
        BY <4>4, <4>6 DEF ToSet
    <3> QED
      BY <3>1, <3>2
  <2>3. ASSUME NEW x \in ToSet(Played(i)) PROVE \E k \in 1..n : x.song = s[k].song /\ x.slot = SlotOf(k, encore)
    <3>1. PICK j \in DOMAIN counted : x = IF tour.explicit THEN [counted[j] EXCEPT !.order = j] ELSE counted[j]
      BY <2>1, <2>3 DEF ToSet
    <3>2. PICK k \in 1..n : counted[j] = row(k)
      BY <2>2, <3>1 DEF ToSet
    <3>3. PICK a, b, c, d : a = s[k].song /\ b = s[k].guest /\ c = SlotOf(k, encore)
                            /\ d = [song |-> a, guest |-> b, order |-> k, slot |-> c]
      OBVIOUS
    <3>4. d.song = a /\ d.slot = c /\ [d EXCEPT !.order = j].song = a /\ [d EXCEPT !.order = j].slot = c
      BY <3>3
    <3>5. counted[j] = d
      BY <3>2, <3>3
    <3> QED
      BY <3>1, <3>3, <3>4, <3>5
  <2>4. ASSUME NEW x \in ToSet(Played(i)), NEW y \in ToSet(Played(i)), x.slot = y.slot PROVE x.song = y.song
    <3>1. PICK k \in 1..n : x.song = s[k].song /\ x.slot = SlotOf(k, encore)
      BY <2>3
    <3>2. PICK l \in 1..n : y.song = s[l].song /\ y.slot = SlotOf(l, encore)
      BY <2>3
    <3>3. k \in Nat /\ l \in Nat
      OBVIOUS
    <3>4. k = l
      BY <1>1, <2>4, <3>1, <3>2, <3>3, SlotsDiffer
    <3> QED
      BY <3>1, <3>2, <3>4
  <2> QED
    BY <2>4 DEF OneSongPerSlot
<1> QED
  BY <1>5, <1>6

----------------------------------------------------------------------------
(* A transition tells every song that came or went, and of the others at most
   those whose slots shifted. *)
LEMMA TransitionParts ==
    ASSUME NEW i, NEW j
    PROVE  LET t == Transition(i, j) IN
           /\ t.from = i /\ t.to = j /\ t.moved = Moved(Played(i), Played(j))
           /\ t.replaced = Replaced(Played(i), Played(j))
           /\ t.added = SongsIn(Played(j)) \ (SongsIn(Played(i)) \union {r[2] : r \in t.replaced})
           /\ t.removed = SongsIn(Played(i)) \ (SongsIn(Played(j)) \union {r[1] : r \in t.replaced})
<1>1. PICK b, a, m, r : b = Played(i) /\ a = Played(j) /\ m = Moved(b, a) /\ r = Replaced(b, a)
  OBVIOUS
<1>2. PICK c, d : /\ c = SongsIn(a) \ (SongsIn(b) \union {x[2] : x \in r})
                  /\ d = SongsIn(b) \ (SongsIn(a) \union {x[1] : x \in r})
  OBVIOUS
<1>3. Transition(i, j) = [from |-> i, to |-> j, moved |-> m, replaced |-> r, added |-> c, removed |-> d]
  BY <1>1, <1>2 DEF Transition
<1> QED
  BY <1>1, <1>2, <1>3

LEMMA ShownSongs ==
    ASSUME NEW i, NEW j
    PROVE  LET t == Transition(i, j)  b == Played(i)  a == Played(j) IN
           /\ ShownAdded(t) = (SongsIn(a) \ SongsIn(b)) \union {r[2] : r \in Replaced(b, a)}
           /\ ShownRemoved(t) = (SongsIn(b) \ SongsIn(a)) \union {r[1] : r \in Replaced(b, a)}
  BY TransitionParts DEF ShownAdded, ShownRemoved

LEMMA ReplacedSongs ==
    ASSUME NEW b, NEW a, NEW r \in Replaced(b, a)
    PROVE  \E x \in ToSet(b), y \in ToSet(a) :
               /\ r[1] = x.song /\ r[2] = y.song /\ x.slot = y.slot /\ x.song # y.song
               /\ x.song \notin Moved(b, a) /\ y.song \notin Moved(b, a)
<1>1. PICK p \in ToSet(b) \X ToSet(a) :
          /\ r = <<p[1].song, p[2].song>> /\ p[1].slot = p[2].slot /\ p[1].song # p[2].song
          /\ {p[1].song, p[2].song} \cap Moved(b, a) = {}
  BY DEF Replaced
<1>2. r[1] = p[1].song /\ r[2] = p[2].song /\ p[1] \in ToSet(b) /\ p[2] \in ToSet(a)
  BY <1>1
<1> QED
  BY <1>1, <1>2

LEMMA MovedEitherWay == ASSUME NEW b, NEW a PROVE Moved(b, a) = Moved(a, b)
  BY DEF Moved

LEMMA ReplacedEitherWay ==
    ASSUME NEW b, NEW a
    PROVE  {r[2] : r \in Replaced(b, a)} = {r[1] : r \in Replaced(a, b)}
<1>1. ASSUME NEW c, NEW d, NEW r \in Replaced(c, d) PROVE <<r[2], r[1]>> \in Replaced(d, c)
  <2>1. PICK x \in ToSet(c), y \in ToSet(d) :
            /\ r[1] = x.song /\ r[2] = y.song /\ x.slot = y.slot /\ x.song # y.song
            /\ x.song \notin Moved(c, d) /\ y.song \notin Moved(c, d)
    BY ReplacedSongs
  <2>5. PICK p : p = <<y, x>>
    OBVIOUS
  <2>2. p[1] = y /\ p[2] = x /\ p \in ToSet(d) \X ToSet(c)
    BY <2>5
  <2>3. {p[1].song, p[2].song} \cap Moved(d, c) = {}
    BY <2>1, <2>2, MovedEitherWay
  <2>4. <<p[1].song, p[2].song>> \in Replaced(d, c)
    BY <2>1, <2>2, <2>3 DEF Replaced
  <2> QED
    BY <2>1, <2>2, <2>4
<1>2. ASSUME NEW s \in {r[2] : r \in Replaced(b, a)} PROVE s \in {r[1] : r \in Replaced(a, b)}
  <2>1. PICK r \in Replaced(b, a) : s = r[2]
    BY <1>2
  <2>2. <<r[2], r[1]>> \in Replaced(a, b) /\ <<r[2], r[1]>>[1] = r[2]
    BY <1>1
  <2> QED
    BY <2>1, <2>2
<1>3. ASSUME NEW s \in {r[1] : r \in Replaced(a, b)} PROVE s \in {r[2] : r \in Replaced(b, a)}
  <2>1. PICK r \in Replaced(a, b) : s = r[1]
    BY <1>3
  <2>2. <<r[2], r[1]>> \in Replaced(b, a) /\ <<r[2], r[1]>>[2] = r[1]
    BY <1>1
  <2> QED
    BY <2>1, <2>2
<1> QED
  BY <1>2, <1>3

LEMMA TransitionTells ==
    ASSUME NEW i, NEW j, OneSongPerSlot(Played(i)), OneSongPerSlot(Played(j))
    PROVE  TellsAll(Transition(i, j))
<1>1. PICK t, b, a : t = Transition(i, j) /\ b = Played(i) /\ a = Played(j)
  OBVIOUS
<1>2. /\ t.from = i /\ t.to = j /\ t.moved = Moved(b, a)
      /\ ShownAdded(t) = (SongsIn(a) \ SongsIn(b)) \union {r[2] : r \in Replaced(b, a)}
      /\ ShownRemoved(t) = (SongsIn(b) \ SongsIn(a)) \union {r[1] : r \in Replaced(b, a)}
  BY <1>1, TransitionParts, ShownSongs
<1> DEFINE slots(rows, s) == {r.slot : r \in {q \in ToSet(rows) : q.song = s}}
<1>3. Shifted(i, j) = {s \in SongsIn(b) \cap SongsIn(a) : slots(b, s) # slots(a, s)}
  BY <1>1 DEF Shifted
<1>4. ASSUME NEW r \in Replaced(b, a)
      PROVE  /\ r[1] \in SongsIn(b) /\ r[2] \in SongsIn(a) /\ r[1] \notin t.moved /\ r[2] \notin t.moved
             /\ r[2] \in SongsIn(b) => slots(b, r[2]) # slots(a, r[2])
             /\ r[1] \in SongsIn(a) => slots(b, r[1]) # slots(a, r[1])
  <2>1. PICK x \in ToSet(b), y \in ToSet(a) :
            /\ r[1] = x.song /\ r[2] = y.song /\ x.slot = y.slot /\ x.song # y.song
            /\ x.song \notin Moved(b, a) /\ y.song \notin Moved(b, a)
    BY ReplacedSongs
  <2>2. r[1] \in SongsIn(b) /\ r[2] \in SongsIn(a)
    BY <2>1 DEF SongsIn
  <2>3. slots(b, y.song) # slots(a, y.song)
    <3>1. y.slot \in slots(a, y.song)
      OBVIOUS
    <3>2. ASSUME y.slot \in slots(b, y.song) PROVE FALSE
      <4>1. PICK z \in ToSet(b) : z.song = y.song /\ z.slot = y.slot
        BY <3>2
      <4> QED
        BY <1>1, <2>1, <4>1 DEF OneSongPerSlot
    <3> QED
      BY <3>1, <3>2
  <2>4. slots(b, x.song) # slots(a, x.song)
    <3>1. x.slot \in slots(b, x.song)
      OBVIOUS
    <3>2. ASSUME x.slot \in slots(a, x.song) PROVE FALSE
      <4>1. PICK z \in ToSet(a) : z.song = x.song /\ z.slot = x.slot
        BY <3>2
      <4> QED
        BY <1>1, <2>1, <4>1 DEF OneSongPerSlot
    <3> QED
      BY <3>1, <3>2
  <2> HIDE DEF slots
  <2> QED
    BY <1>2, <2>1, <2>2, <2>3, <2>4
<1> HIDE DEF slots
<1>5. ShownAdded(t) \cap SongsIn(b) \subseteq Shifted(i, j) \ t.moved
  BY <1>2, <1>3, <1>4
<1>6. ShownRemoved(t) \cap SongsIn(a) \subseteq Shifted(i, j) \ t.moved
  BY <1>2, <1>3, <1>4
<1>7. ShownAdded(t) \subseteq SongsIn(a) /\ ShownRemoved(t) \subseteq SongsIn(b)
  BY <1>2, <1>4
<1>8. SongsIn(a) \ SongsIn(b) \subseteq ShownAdded(t) /\ SongsIn(b) \ SongsIn(a) \subseteq ShownRemoved(t)
  BY <1>2
<1> QED
  BY <1>1, <1>2, <1>5, <1>6, <1>7, <1>8 DEF TellsAll

----------------------------------------------------------------------------
(* Where a song comes and goes tells its status. *)
LEMMA LeastAndGreatest ==
    ASSUME NEW n \in Nat, NEW at \in SUBSET (1..n), at # {}
    PROVE  /\ Min(at) \in at /\ \A x \in at : Min(at) <= x
           /\ Max(at) \in at /\ \A x \in at : x <= Max(at)
<1>1. \E m \in at : \A x \in at : m =< x
  <2>1. at \subseteq Nat
    OBVIOUS
  <2>2. PICK m \in at : \A k \in at : ~(<<k, m>> \in OpToRel(<, Nat))
    BY <2>1, WFMin, NatLessThanWellFounded
  <2>3. ASSUME NEW x \in at PROVE m =< x
    <3>1. m \in Nat /\ x \in Nat /\ ~(x < m)
      BY <2>1, <2>2 DEF OpToRel
    <3> QED
      BY <3>1
  <2> QED
    BY <2>3
<1>2. \E m \in at : \A x \in at : m >= x
  <2> DEFINE back == {n - x : x \in at}
  <2>1. back \subseteq Nat /\ back # {}
    <3>1. PICK x : x \in at
      OBVIOUS
    <3>2. n - x \in back
      BY <3>1
    <3>3. ASSUME NEW y \in at PROVE n - y \in Nat
      <4>1. y \in 1..n
        OBVIOUS
      <4> QED
        BY <4>1
    <3> QED
      BY <3>2, <3>3
  <2>2. PICK m \in back : \A k \in back : ~(<<k, m>> \in OpToRel(<, Nat))
    BY <2>1, WFMin, NatLessThanWellFounded
  <2>3. PICK x \in at : m = n - x
    BY <2>2
  <2>4. ASSUME NEW y \in at PROVE x >= y
    <3>1. n - y \in back /\ n - y \in Nat /\ m \in Nat
      BY <2>1, <2>2
    <3>2. ~(n - y < m)
      BY <2>2, <3>1 DEF OpToRel
    <3> QED
      BY <2>3, <3>2
  <2> QED
    BY <2>4
<1>3. at \subseteq Int
  OBVIOUS
<1> QED
  BY <1>1, <1>2, <1>3 DEF Min, Max

Comes(at, n) == {k \in 1..(n - 1) : k \notin at /\ k + 1 \in at}
Goes(at, n) == {k \in 1..(n - 1) : k \in at /\ k + 1 \notin at}

LEMMA StaysFrom ==
    ASSUME NEW n \in Nat, NEW at \in SUBSET (1..n), Goes(at, n) = {}, NEW m \in at, NEW l \in m..n
    PROVE  l \in at
<1> DEFINE Bad == {k \in Nat : k \in m..n /\ k \notin at}
<1>1. Bad = {}
  <2>1. SUFFICES ASSUME Bad # {} PROVE FALSE
    OBVIOUS
  <2>2. PICK k \in Bad : \A j \in Bad : ~(<<j, k>> \in OpToRel(<, Nat))
    BY <2>1, WFMin, NatLessThanWellFounded
  <2>3. k \in m..n /\ k \notin at /\ \A j \in Bad : ~(j < k)
    BY <2>2 DEF OpToRel
  <2>4. m \in Nat /\ m >= 1 /\ k # m
    BY <2>3
  <2>5. k - 1 \in Nat /\ k - 1 \in m..n /\ k - 1 < k /\ k - 1 \in 1..(n - 1) /\ (k - 1) + 1 = k
    BY <2>3, <2>4
  <2>6. k - 1 \in at
    BY <2>3, <2>5
  <2>7. k - 1 \in Goes(at, n)
    BY <2>3, <2>5, <2>6 DEF Goes
  <2> QED
    BY <2>7
<1> QED
  BY <1>1

LEMMA StaysUntil ==
    ASSUME NEW n \in Nat, NEW at \in SUBSET (1..n), Comes(at, n) = {}, NEW m \in at, NEW l \in 1..m
    PROVE  l \in at
<1> DEFINE Bad == {d \in Nat : d < m /\ m - d \notin at}
<1>0. m \in Nat /\ m >= 1 /\ m <= n
  OBVIOUS
<1>1. Bad = {}
  <2>1. SUFFICES ASSUME Bad # {} PROVE FALSE
    OBVIOUS
  <2>2. PICK d \in Bad : \A j \in Bad : ~(<<j, d>> \in OpToRel(<, Nat))
    BY <2>1, WFMin, NatLessThanWellFounded
  <2>3. d \in Nat /\ d < m /\ m - d \notin at /\ \A j \in Bad : ~(j < d)
    BY <2>2 DEF OpToRel
  <2>4. d # 0
    <3>1. m - 0 = m
      BY <1>0
    <3> QED
      BY <2>3, <3>1
  <2>5. d - 1 \in Nat /\ d - 1 < m /\ d - 1 < d
    BY <1>0, <2>3, <2>4
  <2>6. m - (d - 1) \in at
    BY <2>3, <2>5
  <2>7. m - (d - 1) = (m - d) + 1 /\ m - d \in 1..(n - 1)
    BY <1>0, <2>3, <2>4
  <2>8. m - d \in Comes(at, n)
    BY <2>3, <2>6, <2>7 DEF Comes
  <2> QED
    BY <2>8
<1>2. m - l \in Nat /\ m - l < m /\ m - (m - l) = l
  BY <1>0
<1> QED
  BY <1>1, <1>2

LEMMA AllStops ==
    ASSUME NEW n \in Nat, NEW at \in SUBSET (1..n)
    PROVE  Cardinality(at) = n <=> at = 1..n
<1>1. IsFiniteSet(1..n) /\ Cardinality(1..n) = n
  BY FS_Interval
<1>2. Cardinality(at) = n => at = 1..n
  BY <1>1, FS_Subset
<1> QED
  BY <1>1, <1>2

LEMMA ComesAndGoes ==
    ASSUME NEW n \in Nat, NEW at \in SUBSET (1..n), at # {}
    PROVE  /\ at = 1..n <=> Comes(at, n) = {} /\ Goes(at, n) = {}
           /\ at = Min(at)..n /\ at # 1..n => Cardinality(Comes(at, n)) = 1 /\ Goes(at, n) = {}
           /\ at = 1..Max(at) /\ at # 1..n => Comes(at, n) = {} /\ Cardinality(Goes(at, n)) = 1
           /\ at # Min(at)..n => Goes(at, n) # {}
           /\ at # 1..Max(at) => Comes(at, n) # {}
<1>1. PICK a, b : /\ a = Min(at) /\ b = Max(at) /\ a \in at /\ b \in at
                  /\ \A x \in at : a <= x /\ x <= b
  BY LeastAndGreatest
<1>2. a \in 1..n /\ b \in 1..n
  BY <1>1
<1>3. Goes(at, n) = {} => at = a..n
  <2>1. SUFFICES ASSUME Goes(at, n) = {} PROVE at = a..n
    OBVIOUS
  <2>2. ASSUME NEW l \in a..n PROVE l \in at
    BY <1>1, <2>1, StaysFrom
  <2>3. ASSUME NEW x \in at PROVE x \in a..n
    <3>1. x \in 1..n /\ a <= x
      BY <1>1
    <3> QED
      BY <1>2, <3>1
  <2> QED
    BY <2>2, <2>3
<1>4. Comes(at, n) = {} => at = 1..b
  <2>1. SUFFICES ASSUME Comes(at, n) = {} PROVE at = 1..b
    OBVIOUS
  <2>2. ASSUME NEW l \in 1..b PROVE l \in at
    BY <1>1, <2>1, StaysUntil
  <2>3. ASSUME NEW x \in at PROVE x \in 1..b
    <3>1. x \in 1..n /\ x <= b
      BY <1>1
    <3> QED
      BY <1>2, <3>1
  <2> QED
    BY <2>2, <2>3
<1>5. at = 1..n => Comes(at, n) = {} /\ Goes(at, n) = {}
  BY DEF Comes, Goes
<1>6. Comes(at, n) = {} /\ Goes(at, n) = {} => at = 1..n
  <2>1. SUFFICES ASSUME at = a..n, at = 1..b PROVE at = 1..n
    BY <1>3, <1>4
  <2>2. 1 \in at
    BY <1>2, <2>1
  <2>3. a = 1
    BY <1>1, <1>2, <2>2
  <2> QED
    BY <2>1, <2>3
<1>7. ASSUME at = a..n, at # 1..n PROVE Comes(at, n) = {a - 1} /\ Goes(at, n) = {}
  BY <1>2, <1>7 DEF Comes, Goes
<1>8. ASSUME at = 1..b, at # 1..n PROVE Comes(at, n) = {} /\ Goes(at, n) = {b}
  BY <1>2, <1>8 DEF Comes, Goes
<1>9. \A x : Cardinality({x}) = 1
  BY FS_Singleton
<1> QED
  BY <1>1, <1>3, <1>4, <1>5, <1>6, <1>7, <1>8, <1>9

LEMMA StopsListed == ASSUME TourOK PROVE SetlistStops \in Seq(DOMAIN tour.stops)
<1>1. PICK n, D : n \in Nat \ {0} /\ D = DOMAIN tour.stops /\ D = 1..n
  BY DEF TourOK
<1>2. PICK parts : parts = [i \in 1..n |-> IF Played(i) = <<>> THEN <<>> ELSE <<i>>]
  OBVIOUS
<1>3. ASSUME NEW i \in 1..n PROVE parts[i] \in Seq(D)
  <2>1. <<>> \in Seq(D) /\ <<i>> \in Seq(D)
    BY <1>1
  <2> QED
    BY <1>2, <2>1
<1>4. parts \in [1..n -> Seq(D)]
  BY <1>2, <1>3
<1>5. FlattenSeq(parts) \in Seq(D)
  BY <1>1, <1>4, FlattenedElements
<1>6. SetlistStops = FlattenSeq(parts)
  BY <1>1, <1>2 DEF SetlistStops
<1> QED
  BY <1>1, <1>5, <1>6

LEMMA StatisticsTell ==
    ASSUME TourOK, panel.statistics = <<Statistics>>
    PROVE  /\ \A t \in ToSet(panel.statistics[1].transitions) : TellsAll(t)
           /\ \A s \in DOMAIN panel.statistics[1].songs : StatusTells(s)
<1>1. PICK stops, n : /\ stops = SetlistStops /\ n = Len(stops) /\ n \in Nat /\ DOMAIN stops = 1..n
                      /\ \A k \in 1..n : stops[k] \in DOMAIN tour.stops
  BY StopsListed
<1>2. PICK ts : ts = [k \in 1..(n - 1) |-> Transition(stops[k], stops[k + 1])]
  OBVIOUS
<1>3. PICK songs : songs = [s \in UNION {SongsIn(Played(i)) : i \in ToSet(stops)} |-> Status(s)]
  OBVIOUS
<1>4. PICK stats : stats = [songs |-> songs, transitions |-> ts]
  OBVIOUS
<1>5. panel.statistics[1] = stats /\ stats.songs = songs /\ stats.transitions = ts
  BY <1>1, <1>2, <1>3, <1>4 DEF Statistics
<1>6. ASSUME NEW k \in 1..(n - 1)
      PROVE  /\ k \in 1..n /\ k + 1 \in 1..n /\ ts[k] = Transition(stops[k], stops[k + 1])
             /\ OneSongPerSlot(Played(stops[k])) /\ OneSongPerSlot(Played(stops[k + 1]))
  <2>1. k \in 1..n /\ k + 1 \in 1..n
    BY <1>1
  <2> QED
    BY <1>1, <1>2, <2>1, PlayedSlots
<1>7. ASSUME NEW t \in ToSet(ts) PROVE TellsAll(t)
  <2>1. PICK k \in 1..(n - 1) : t = ts[k]
    BY <1>2, <1>7 DEF ToSet
  <2> QED
    BY <1>6, <2>1, TransitionTells
<1>8. ASSUME NEW s \in DOMAIN songs PROVE StatusTells(s)
  <2>1. PICK at : at = {k \in 1..n : s \in SongsIn(Played(stops[k]))}
    OBVIOUS
  <2>2. at # {} /\ at \in SUBSET (1..n)
    <3>1. PICK i \in ToSet(stops) : s \in SongsIn(Played(i))
      BY <1>3, <1>8
    <3>2. PICK k \in 1..n : i = stops[k]
      BY <1>1, <3>1 DEF ToSet
    <3> QED
      BY <2>1, <3>1, <3>2
  <2>3. songs[s] = Status(s)
    BY <1>3, <1>8
  <2>4. Status(s) = IF Cardinality(at) = n THEN "common"
                    ELSE IF Cardinality(at) = 1 THEN "single"
                    ELSE IF at = Min(at)..n THEN "added"
                    ELSE IF at = 1..Max(at) THEN "removed"
                    ELSE "intermittent"
    BY <1>1, <2>1 DEF Status
  <2>5. ASSUME NEW k \in 1..(n - 1)
        PROVE  /\ s \in ShownAdded(ts[k]) \ SongsIn(Played(ts[k].from)) <=> k \in Comes(at, n)
               /\ s \in ShownRemoved(ts[k]) \ SongsIn(Played(ts[k].to)) <=> k \in Goes(at, n)
    <3>1. PICK i, j : i = stops[k] /\ j = stops[k + 1]
      OBVIOUS
    <3>2. ts[k] = Transition(i, j) /\ k \in 1..n /\ k + 1 \in 1..n
      BY <1>6, <3>1
    <3>3. ts[k].from = i /\ ts[k].to = j
      BY <3>2, TransitionParts
    <3>4. /\ ShownAdded(ts[k]) = (SongsIn(Played(j)) \ SongsIn(Played(i))) \union {r[2] : r \in Replaced(Played(i), Played(j))}
          /\ ShownRemoved(ts[k]) = (SongsIn(Played(i)) \ SongsIn(Played(j))) \union {r[1] : r \in Replaced(Played(i), Played(j))}
      BY <3>2, ShownSongs
    <3>5. ASSUME NEW r \in Replaced(Played(i), Played(j))
          PROVE  r[1] \in SongsIn(Played(i)) /\ r[2] \in SongsIn(Played(j))
      BY ReplacedSongs DEF SongsIn
    <3>6. /\ k \in at <=> s \in SongsIn(Played(i))
          /\ k + 1 \in at <=> s \in SongsIn(Played(j))
      BY <2>1, <3>1, <3>2
    <3> QED
      BY <3>3, <3>4, <3>5, <3>6 DEF Comes, Goes
  <2>6. /\ {k \in DOMAIN ts : s \in ShownAdded(ts[k]) \ SongsIn(Played(ts[k].from))} = Comes(at, n)
        /\ {k \in DOMAIN ts : s \in ShownRemoved(ts[k]) \ SongsIn(Played(ts[k].to))} = Goes(at, n)
    <3>1. DOMAIN ts = 1..(n - 1)
      BY <1>2
    <3>2. Comes(at, n) \subseteq 1..(n - 1) /\ Goes(at, n) \subseteq 1..(n - 1)
      BY DEF Comes, Goes
    <3> QED
      BY <2>5, <3>1, <3>2
  <2>7. /\ Cardinality(at) = n <=> Comes(at, n) = {} /\ Goes(at, n) = {}
        /\ at = Min(at)..n /\ Cardinality(at) # n => Cardinality(Comes(at, n)) = 1 /\ Goes(at, n) = {}
        /\ at = 1..Max(at) /\ Cardinality(at) # n => Comes(at, n) = {} /\ Cardinality(Goes(at, n)) = 1
        /\ at # Min(at)..n => Goes(at, n) # {}
        /\ at # 1..Max(at) => Comes(at, n) # {}
    BY <1>1, <2>2, AllStops, ComesAndGoes
  <2>8. PICK status, comes, goes : status = Status(s) /\ comes = Comes(at, n) /\ goes = Goes(at, n)
    OBVIOUS
  <2>9. /\ status = "common" <=> comes = {} /\ goes = {}
        /\ status = "added" => Cardinality(comes) = 1 /\ goes = {}
        /\ status = "removed" => comes = {} /\ Cardinality(goes) = 1
        /\ status = "intermittent" => comes # {} /\ goes # {}
    BY <2>4, <2>7, <2>8
  <2> QED
    BY <1>5, <2>3, <2>6, <2>8, <2>9 DEF StatusTells
<1> QED
  BY <1>5, <1>7, <1>8

----------------------------------------------------------------------------
(* The panel. *)
PanelFields == {"tab", "statistics", "loading", "asked", "custom", "comparing"}
PanelOK ==
    /\ DOMAIN panel = PanelFields
    /\ panel.statistics \in {<<>>, <<Statistics>>}
    /\ panel.custom # <<>> => \E i, j \in DOMAIN tour.stops : panel.custom = <<Transition(i, j)>>
    /\ panel.comparing # <<>> => \E i, j \in DOMAIN tour.stops : panel.comparing = <<i, j>>
TourInv == TourOK /\ PanelOK

LEMMA SameAnswers ==
    ASSUME tour' = tour
    PROVE  /\ Statistics' = Statistics
           /\ \A i, j : Transition(i, j)' = Transition(i, j)
<1>1. \A i : Played(i)' = Played(i)
  BY DEF Played
<1>2. SetlistStops' = SetlistStops
  BY <1>1 DEF SetlistStops
<1>3. \A i, j : Transition(i, j)' = Transition(i, j)
  BY <1>1 DEF Transition
<1>4. \A s : Status(s)' = Status(s)
  BY <1>1, <1>2 DEF Status
<1> QED
  BY <1>1, <1>2, <1>3, <1>4 DEF Statistics

LEMMA PanelStep == ASSUME TourInv, TourNext PROVE PanelOK'
<1>0. tour' = tour
  BY DEF TourNext, OpenStatistics, LeaveStatistics, StatisticsAnswered, Compare, ComparisonAnswered,
      ClearComparison, Panel
<1>1. Statistics' = Statistics /\ \A i, j : Transition(i, j)' = Transition(i, j)
  BY <1>0, SameAnswers
<1>2. PanelOK
  BY DEF TourInv
<1>3. ASSUME NEW p, panel' = p, DOMAIN p = PanelFields, p.statistics \in {<<>>, <<Statistics>>},
             p.custom # <<>> => \E i, j \in DOMAIN tour.stops : p.custom = <<Transition(i, j)>>,
             p.comparing # <<>> => \E i, j \in DOMAIN tour.stops : p.comparing = <<i, j>>
      PROVE  PanelOK'
  BY <1>0, <1>1, <1>3 DEF PanelOK
<1>4. CASE OpenStatistics
  <2>1. PICK ask, on : panel' = [panel EXCEPT !.tab = "statistics", !.loading = on, !.asked = ask]
    BY <1>4 DEF OpenStatistics, Panel
  <2>2. PICK p : p = [panel EXCEPT !.tab = "statistics", !.loading = on, !.asked = ask]
    OBVIOUS
  <2>3. /\ DOMAIN p = PanelFields /\ p.statistics = panel.statistics /\ p.custom = panel.custom
        /\ p.comparing = panel.comparing
    BY <1>2, <2>2 DEF PanelOK, PanelFields
  <2> QED
    BY <1>2, <1>3, <2>1, <2>2, <2>3 DEF PanelOK
<1>5. CASE LeaveStatistics
  <2>1. PICK p : p = [panel EXCEPT !.tab = "stops", !.asked = FALSE, !.custom = <<>>, !.comparing = <<>>]
    OBVIOUS
  <2>2. DOMAIN p = PanelFields /\ p.statistics = panel.statistics /\ p.custom = <<>> /\ p.comparing = <<>>
    BY <1>2, <2>1 DEF PanelOK, PanelFields
  <2>3. panel' = p
    BY <1>5, <2>1 DEF LeaveStatistics, Panel
  <2> QED
    BY <1>2, <1>3, <2>2, <2>3 DEF PanelOK
<1>6. CASE StatisticsAnswered
  <2>1. PICK answer \in {<<>>, <<Statistics>>} :
            panel' = [panel EXCEPT !.statistics = answer, !.loading = FALSE, !.asked = FALSE]
    BY <1>6 DEF StatisticsAnswered, Panel
  <2>2. PICK p : p = [panel EXCEPT !.statistics = answer, !.loading = FALSE, !.asked = FALSE]
    OBVIOUS
  <2>3. /\ DOMAIN p = PanelFields /\ p.statistics = answer /\ p.custom = panel.custom
        /\ p.comparing = panel.comparing
    BY <1>2, <2>2 DEF PanelOK, PanelFields
  <2> QED
    BY <1>2, <1>3, <2>1, <2>2, <2>3 DEF PanelOK
<1>7. ASSUME NEW i \in DOMAIN tour.stops, NEW j \in DOMAIN tour.stops, Compare(i, j) PROVE PanelOK'
  <2>1. PICK p : p = [panel EXCEPT !.custom = <<>>, !.comparing = <<i, j>>]
    OBVIOUS
  <2>2. DOMAIN p = PanelFields /\ p.statistics = panel.statistics /\ p.custom = <<>> /\ p.comparing = <<i, j>>
    BY <1>2, <2>1 DEF PanelOK, PanelFields
  <2>3. panel' = p /\ i \in DOMAIN tour.stops /\ j \in DOMAIN tour.stops
    BY <1>7, <2>1 DEF Compare, Panel, Comparable
  <2> QED
    BY <1>2, <1>3, <2>2, <2>3 DEF PanelOK
<1>8. CASE ComparisonAnswered
  <2>1. PICK i, j \in DOMAIN tour.stops : panel.comparing = <<i, j>>
    BY <1>2, <1>8 DEF PanelOK, ComparisonAnswered
  <2>2. panel.comparing[1] = i /\ panel.comparing[2] = j
    BY <2>1
  <2>3. PICK a \in {<<>>, <<Transition(i, j)>>} : panel' = [panel EXCEPT !.custom = a, !.comparing = <<>>]
    BY <1>8, <2>2 DEF ComparisonAnswered, Panel
  <2>4. PICK p : p = [panel EXCEPT !.custom = a, !.comparing = <<>>]
    OBVIOUS
  <2>5. DOMAIN p = PanelFields /\ p.statistics = panel.statistics /\ p.custom = a /\ p.comparing = <<>>
    BY <1>2, <2>4 DEF PanelOK, PanelFields
  <2> QED
    BY <1>2, <1>3, <2>1, <2>3, <2>4, <2>5 DEF PanelOK
<1>9. CASE ClearComparison
  <2>1. PICK p : p = [panel EXCEPT !.custom = <<>>]
    OBVIOUS
  <2>2. /\ DOMAIN p = PanelFields /\ p.statistics = panel.statistics /\ p.custom = <<>>
        /\ p.comparing = panel.comparing
    BY <1>2, <2>1 DEF PanelOK, PanelFields
  <2>3. panel' = p
    BY <1>9, <2>1 DEF ClearComparison, Panel
  <2> QED
    BY <1>2, <1>3, <2>2, <2>3 DEF PanelOK
<1> QED
  BY <1>4, <1>5, <1>6, <1>7, <1>8, <1>9 DEF TourNext

LEMMA ChangesFromInv == ASSUME TourInv PROVE ChangesAreTold
<1>1. TourOK /\ PanelOK
  BY DEF TourInv
<1>2. ASSUME panel.statistics # <<>>
      PROVE  /\ \A t \in ToSet(panel.statistics[1].transitions) : TellsAll(t)
             /\ \A s \in DOMAIN panel.statistics[1].songs : StatusTells(s)
  BY <1>1, <1>2, StatisticsTell DEF PanelOK
<1>3. ASSUME panel.custom # <<>>
      PROVE  /\ TellsAll(panel.custom[1])
             /\ ShownAdded(panel.custom[1]) = ShownRemoved(Transition(panel.custom[1].to, panel.custom[1].from))
  <2>1. PICK i, j \in DOMAIN tour.stops : panel.custom = <<Transition(i, j)>>
    BY <1>1, <1>3 DEF PanelOK
  <2>2. PICK t : t = Transition(i, j) /\ panel.custom[1] = t
    BY <2>1
  <2>3. t.from = i /\ t.to = j
    BY <2>2, TransitionParts
  <2>4. TellsAll(t)
    BY <1>1, <2>2, PlayedSlots, TransitionTells
  <2>5. ShownAdded(Transition(i, j)) = ShownRemoved(Transition(j, i))
    <3>1. PICK b, a : b = Played(i) /\ a = Played(j)
      OBVIOUS
    <3>2. /\ ShownAdded(Transition(i, j)) = (SongsIn(a) \ SongsIn(b)) \union {r[2] : r \in Replaced(b, a)}
          /\ ShownRemoved(Transition(j, i)) = (SongsIn(a) \ SongsIn(b)) \union {r[1] : r \in Replaced(a, b)}
      BY <3>1, ShownSongs
    <3> QED
      BY <3>2, ReplacedEitherWay
  <2> QED
    BY <2>2, <2>3, <2>4, <2>5
<1> QED
  BY <1>2, <1>3 DEF ChangesAreTold

LEMMA TourStart == ASSUME TourInit PROVE TourInv
<1>1. TourOK
  <2>0. PICK named \in BOOLEAN, n \in Nat \ {0} :
            tour.stops \in [1..n -> Setlists({FALSE, named})]
    <3>1. PICK b \in BOOLEAN :
              \E n \in 1..MaxStops[b] : tour \in [stops : [1..n -> Setlists({FALSE, b})], explicit : {b}]
      BY DEF TourInit
    <3>2. PICK n \in 1..MaxStops[b] : tour \in [stops : [1..n -> Setlists({FALSE, b})], explicit : {b}]
      BY <3>1
    <3>3. MaxStops[b] \in Nat
      BY TourAssumption
    <3>4. n \in Nat \ {0}
      BY <3>2, <3>3
    <3>5. tour.stops \in [1..n -> Setlists({FALSE, b})]
      BY <3>2
    <3> QED
      BY <3>4, <3>5
  <2>1. \E m \in Nat \ {0} : DOMAIN tour.stops = 1..m
    BY <2>0
  <2>2. ASSUME NEW i \in DOMAIN tour.stops
        PROVE  tour.stops[i].rows \in Seq(Row) /\ tour.stops[i].encore \in Nat
    <3>1. PICK s, guests : /\ s = tour.stops[i] /\ guests \in SUBSET BOOLEAN
                           /\ s \in [rows : SeqOf([song : TourSongs, guest : guests], MaxRows),
                                     encore : 1..MaxRows + 1, cancelled : BOOLEAN]
      <4>1. tour.stops[i] \in Setlists({FALSE, named}) /\ {FALSE, named} \in SUBSET BOOLEAN
        BY <2>0, <2>2
      <4> QED
        BY <4>1 DEF Setlists
    <3>2. s.encore \in Nat /\ s.rows \in SeqOf([song : TourSongs, guest : guests], MaxRows)
      BY <3>1, TourAssumption
    <3>3. PICK m \in 0..MaxRows : s.rows \in [1..m -> [song : TourSongs, guest : guests]]
      BY <3>2 DEF SeqOf
    <3>4. m \in Nat
      BY <3>3, TourAssumption
    <3>5. [song : TourSongs, guest : guests] \subseteq Row
      BY <3>1 DEF Row
    <3>6. s.rows \in Seq(Row)
      BY <3>3, <3>4, <3>5
    <3> QED
      BY <3>1, <3>2, <3>6
  <2> QED
    BY <2>1, <2>2 DEF TourOK
<1>2. PanelOK
  BY DEF TourInit, NewPanel, PanelOK, PanelFields
<1> QED
  BY <1>1, <1>2 DEF TourInv

(* Every change between two stops is told, but for songs whose slot shifted:
   get_tour_statistics, TourStatisticsPanel. *)
THEOREM ChangesAreToldAlways == TourSpec => []ChangesAreTold
<1>1. TourInit => TourInv
  BY TourStart
<1>2. TourInv /\ [TourNext]_tourVars => TourInv'
  <2>1. ASSUME TourInv, TourNext PROVE TourInv'
    <3>1. tour' = tour
      BY <2>1 DEF TourNext, OpenStatistics, LeaveStatistics, StatisticsAnswered, Compare, ComparisonAnswered,
          ClearComparison, Panel
    <3>2. TourOK'
      BY <2>1, <3>1 DEF TourInv, TourOK
    <3> QED
      BY <2>1, <3>2, PanelStep DEF TourInv
  <2>2. ASSUME TourInv, UNCHANGED tourVars PROVE TourInv'
    <3>1. tour' = tour /\ panel' = panel
      BY <2>2 DEF tourVars
    <3>2. TourOK'
      BY <2>2, <3>1 DEF TourInv, TourOK
    <3>3. PanelOK'
      BY <2>2, <3>1, SameAnswers DEF TourInv, PanelOK
    <3> QED
      BY <3>2, <3>3 DEF TourInv
  <2> QED
    BY <2>1, <2>2
<1>3. TourInv => ChangesAreTold
  BY ChangesFromInv
<1> QED
  BY <1>1, <1>2, <1>3, PTL DEF TourSpec

----------------------------------------------------------------------------
(* The cards of a list share the Lives it owes out among them. *)
CatalogOK ==
    /\ catalog.block \in [ListedLives -> {NoBlock} \union Blocks]
    /\ filter.list \in Listing

LEMMA ListFacts == NoBlock \notin Blocks /\ IsFiniteSet(ListedLives) /\ IsFiniteSet(Blocks)
  BY ListAssumption DEF NoBlock

LEMMA CardFields ==
    ASSUME NEW i
    PROVE  /\ LiveCard(i).kind = "live" /\ LiveCard(i).id = i /\ LiveCard(i).lives = {i}
           /\ BlockCard(i).kind = "block" /\ BlockCard(i).id = i /\ BlockCard(i).lives = Members(i)
           /\ BlockCard(i).cancelled = Cardinality(Members(i) \cap catalog.cancelled)
<1>1. PICK c, d, r : LiveCard(i) = [kind |-> "live", id |-> i, lives |-> {i}, cancelled |-> c, day |-> d, rank |-> r]
  BY DEF LiveCard
<1>2. PICK n, day, k : /\ n = Cardinality(Members(i) \cap catalog.cancelled)
                       /\ BlockCard(i) = [kind |-> "block", id |-> i, lives |-> Members(i), cancelled |-> n,
                                          day |-> day, rank |-> k]
  BY DEF BlockCard
<1> QED
  BY <1>1, <1>2

MatchedAll == {l \in Eligible : Wanted(l)}
LivesOwed == IF DefaultFavorites THEN MatchedAll \ catalog.cancelled ELSE MatchedAll
Grouped == {l \in ListedLives : catalog.block[l] \in ValidGroups}
ByTitle == {l \in Grouped \cap Eligible : TitleMatches(catalog.block[l]) /\ Narrowed(l)}

LEMMA OwedParts ==
    ASSUME CatalogOK
    PROVE  Owed = IF filter.list = "lives" THEN LivesOwed
                  ELSE IF filter.list = "performances"
                  THEN MatchedAll \union ByTitle \union
                       {l \in Grouped :
                           /\ TitleMatches(catalog.block[l]) /\ filter.narrow \in {"all", "year"}
                           /\ Members(catalog.block[l]) \subseteq Eligible
                           /\ Members(catalog.block[l]) \cap (MatchedAll \union ByTitle) # {}}
                  ELSE {l \in ListedLives :
                           /\ catalog.block[l] # NoBlock
                           /\ filter.query => catalog.block[l] \in catalog.titled
                                              \/ Members(catalog.block[l]) \cap catalog.named # {}
                           /\ \E k \in Members(catalog.block[l]) : Narrowed(k)}
<1> DEFINE group(l) == {k \in ListedLives : catalog.block[k] = catalog.block[l]}
           grouped == {l \in ListedLives : catalog.block[l] # NoBlock /\ Cardinality(group(l)) >= 2}
           byTitle == {l \in grouped \cap Eligible :
                          filter.query /\ catalog.block[l] \in catalog.titled /\ Narrowed(l)}
<1>1. \A l : group(l) = Members(catalog.block[l])
  BY DEF Members
<1>2. grouped = Grouped
  <2>1. ASSUME NEW l \in ListedLives
        PROVE  catalog.block[l] # NoBlock /\ Cardinality(group(l)) >= 2 <=> catalog.block[l] \in ValidGroups
    <3>1. catalog.block[l] \in Blocks <=> catalog.block[l] # NoBlock
      BY ListFacts DEF CatalogOK
    <3> QED
      BY <1>1, <3>1 DEF ValidGroups
  <2> HIDE DEF group
  <2> QED
    BY <2>1 DEF Grouped
<1>3. byTitle = ByTitle
  <2> HIDE DEF grouped
  <2> QED
    BY <1>2 DEF ByTitle, TitleMatches
<1>4. Owed = IF filter.list = "lives" THEN LivesOwed
             ELSE IF filter.list = "performances"
             THEN MatchedAll \union byTitle \union
                  {l \in grouped :
                      /\ filter.query /\ catalog.block[l] \in catalog.titled
                      /\ filter.narrow \in {"all", "year"}
                      /\ group(l) \subseteq Eligible /\ group(l) \cap (MatchedAll \union byTitle) # {}}
             ELSE {l \in ListedLives :
                      /\ catalog.block[l] # NoBlock
                      /\ filter.query => catalog.block[l] \in catalog.titled \/ group(l) \cap catalog.named # {}
                      /\ \E k \in group(l) : Narrowed(k)}
  BY DEF Owed, MatchedAll, LivesOwed
<1> HIDE DEF group, grouped, byTitle
<1>5. {l \in grouped :
          /\ filter.query /\ catalog.block[l] \in catalog.titled
          /\ filter.narrow \in {"all", "year"}
          /\ group(l) \subseteq Eligible /\ group(l) \cap (MatchedAll \union byTitle) # {}}
      = {l \in Grouped :
            /\ TitleMatches(catalog.block[l]) /\ filter.narrow \in {"all", "year"}
            /\ Members(catalog.block[l]) \subseteq Eligible
            /\ Members(catalog.block[l]) \cap (MatchedAll \union ByTitle) # {}}
  BY <1>1, <1>2, <1>3 DEF TitleMatches
<1>6. {l \in ListedLives :
          /\ catalog.block[l] # NoBlock
          /\ filter.query => catalog.block[l] \in catalog.titled \/ group(l) \cap catalog.named # {}
          /\ \E k \in group(l) : Narrowed(k)}
      = {l \in ListedLives :
            /\ catalog.block[l] # NoBlock
            /\ filter.query => catalog.block[l] \in catalog.titled
                               \/ Members(catalog.block[l]) \cap catalog.named # {}
            /\ \E k \in Members(catalog.block[l]) : Narrowed(k)}
  BY <1>1
<1> QED
  BY <1>3, <1>4, <1>5, <1>6

SharesOut(cs, owed) ==
    /\ \A x, y \in cs : x # y => x.lives \cap y.lives = {}
    /\ \A x \in cs : x.lives \subseteq owed
    /\ \A l \in owed : \E x \in cs : l \in x.lives

LEMMA LivesShareOut == SharesOut(LivesListed, LivesOwed)
<1>1. \A x \in LivesListed : \E l \in LivesOwed : x = LiveCard(l)
  BY DEF LivesListed, MatchedAll, LivesOwed
<1>2. \A l \in LivesOwed : LiveCard(l) \in LivesListed
  BY DEF LivesListed, MatchedAll, LivesOwed
<1>3. \A l : LiveCard(l).lives = {l}
  BY CardFields
<1>4. ASSUME NEW x \in LivesListed, NEW y \in LivesListed, x # y PROVE x.lives \cap y.lives = {}
  BY <1>1, <1>3, <1>4
<1>5. ASSUME NEW x \in LivesListed PROVE x.lives \subseteq LivesOwed
  BY <1>1, <1>3
<1>6. ASSUME NEW l \in LivesOwed PROVE \E x \in LivesListed : l \in x.lives
  <2>1. LiveCard(l) \in LivesListed /\ l \in LiveCard(l).lives
    BY <1>2, <1>3
  <2> QED
    BY <2>1
<1> QED
  BY <1>4, <1>5, <1>6 DEF SharesOut

LEMMA ToursShareOut ==
    ASSUME CatalogOK, filter.list = "tours"
    PROVE  SharesOut(ToursListed, Owed)
<1>1. \A b, c, l : l \in Members(b) /\ l \in Members(c) => b = c
  BY DEF Members
<1>2. ASSUME NEW x \in ToursListed, NEW y \in ToursListed, x # y PROVE x.lives \cap y.lives = {}
  <2>1. PICK b \in MatchedTours : x = BlockCard(b)
    BY DEF ToursListed
  <2>2. PICK c \in MatchedTours : y = BlockCard(c)
    BY DEF ToursListed
  <2>3. b # c /\ x.lives = Members(b) /\ y.lives = Members(c)
    BY <1>2, <2>1, <2>2, CardFields
  <2> QED
    BY <1>1, <2>3
<1>3. ASSUME NEW b \in MatchedTours, NEW l \in Members(b) PROVE l \in Owed
  <2>1. l \in ListedLives /\ catalog.block[l] = b /\ b \in Blocks /\ b # NoBlock
    BY <1>3, ListFacts DEF Members, MatchedTours
  <2>2. /\ filter.query => b \in catalog.titled \/ Members(b) \cap catalog.named # {}
        /\ \E k \in Members(b) : Narrowed(k)
    BY <1>3 DEF MatchedTours, TitleMatches
  <2> QED
    BY <2>1, <2>2, OwedParts
<1>4. ASSUME NEW l \in Owed PROVE \E b \in MatchedTours : l \in Members(b)
  <2>1. PICK b : b = catalog.block[l]
    OBVIOUS
  <2>2. /\ l \in ListedLives /\ b # NoBlock
        /\ filter.query => b \in catalog.titled \/ Members(b) \cap catalog.named # {}
        /\ \E k \in Members(b) : Narrowed(k)
    BY <1>4, <2>1, OwedParts
  <2>3. b \in Blocks /\ l \in Members(b)
    BY <2>1, <2>2 DEF CatalogOK, Members
  <2>4. b \in MatchedTours
    BY <2>2, <2>3 DEF MatchedTours, TitleMatches
  <2> QED
    BY <2>3, <2>4
<1>5. \A b : BlockCard(b).lives = Members(b)
  BY CardFields
<1>6. ASSUME NEW x \in ToursListed PROVE x.lives \subseteq Owed
  BY <1>3, <1>5 DEF ToursListed
<1>7. ASSUME NEW l \in Owed PROVE \E x \in ToursListed : l \in x.lives
  <2>1. PICK b \in MatchedTours : l \in Members(b)
    BY <1>4
  <2>2. BlockCard(b) \in ToursListed /\ l \in BlockCard(b).lives
    BY <1>5, <2>1 DEF ToursListed
  <2> QED
    BY <2>2
<1> QED
  BY <1>2, <1>6, <1>7 DEF SharesOut

LEMMA PerformancesShareOut ==
    ASSUME CatalogOK, filter.list = "performances"
    PROVE  SharesOut(PerformancesListed, Owed)
<1>1. \A b, l : l \in Members(b) <=> l \in ListedLives /\ catalog.block[l] = b
  BY DEF Members
<1>2. Eligible \subseteq ListedLives /\ FullGroups \subseteq ValidGroups
  BY DEF Eligible, FullGroups
<1>3. ASSUME NEW b PROVE Candidates(b) = Members(b) \cap (MatchedAll \union {l \in Eligible : TitleMatches(b) /\ Narrowed(l)})
  BY DEF Candidates, MatchedAll
<1>4. ASSUME NEW l \in Standalone \union PartialLives, NEW b \in FullGroups PROVE l \notin Members(b)
  <2>1. CASE l \in Standalone
    BY <1>1, <1>2, <1>4, <2>1 DEF Standalone
  <2>2. CASE l \in PartialLives
    <3>1. PICK c \in ValidGroups \ FullGroups : l \in Candidates(c)
      BY <2>2 DEF PartialLives
    <3> QED
      BY <1>1, <1>3, <1>4, <3>1
  <2> QED
    BY <2>1, <2>2, <1>4
<1>11. ASSUME NEW z \in PerformancesListed
      PROVE  \/ \E l \in Standalone \union PartialLives : z = LiveCard(l) /\ z.lives = {l}
             \/ \E b \in FullGroups : z = BlockCard(b) /\ z.lives = Members(b)
  <2>1. CASE z \in {LiveCard(l) : l \in Standalone \union PartialLives}
    <3>1. PICK l \in Standalone \union PartialLives : z = LiveCard(l)
      BY <2>1
    <3>2. LiveCard(l).lives = {l}
      BY CardFields
    <3> QED
      BY <3>1, <3>2
  <2>2. CASE z \in {BlockCard(b) : b \in FullGroups}
    <3>1. PICK b \in FullGroups : z = BlockCard(b)
      BY <2>2
    <3>2. BlockCard(b).lives = Members(b)
      BY CardFields
    <3> QED
      BY <3>1, <3>2
  <2> QED
    BY <2>1, <2>2 DEF PerformancesListed
<1>5. ASSUME NEW x \in PerformancesListed, NEW y \in PerformancesListed, x # y PROVE x.lives \cap y.lives = {}
  <2>2. \A l, k \in Standalone \union PartialLives : LiveCard(l) # LiveCard(k) => l # k
    OBVIOUS
  <2>3. CASE \E l \in Standalone \union PartialLives : x = LiveCard(l) /\ x.lives = {l}
    BY <1>4, <1>5, <1>11, <2>3
  <2>4. CASE \E b \in FullGroups : x = BlockCard(b) /\ x.lives = Members(b)
    BY <1>1, <1>4, <1>5, <1>11, <2>4
  <2> QED
    BY <1>11, <2>3, <2>4
<1>6. Owed = MatchedAll \union ByTitle \union
             {l \in Grouped :
                 /\ TitleMatches(catalog.block[l]) /\ filter.narrow \in {"all", "year"}
                 /\ Members(catalog.block[l]) \subseteq Eligible
                 /\ Members(catalog.block[l]) \cap (MatchedAll \union ByTitle) # {}}
  BY OwedParts
<1>7. ASSUME NEW b \in ValidGroups PROVE Candidates(b) = Members(b) \cap (MatchedAll \union ByTitle)
  <2>1. ASSUME NEW l \in Members(b) PROVE l \in ByTitle <=> l \in Eligible /\ TitleMatches(b) /\ Narrowed(l)
    BY <1>1, <2>1 DEF ByTitle, Grouped
  <2> QED
    BY <1>3, <2>1
<1>8. ASSUME NEW b \in FullGroups PROVE Members(b) \subseteq Owed
  <2>1. b \in ValidGroups /\ Members(b) \subseteq Eligible /\ Candidates(b) # {}
    BY <1>2 DEF FullGroups
  <2>2. CASE Candidates(b) = Members(b)
    BY <1>6, <1>7, <2>1, <2>2
  <2>3. CASE TitleMatches(b) /\ filter.narrow \in {"all", "year"}
    <3>1. ASSUME NEW l \in Members(b) PROVE l \in Owed
      <4>1. l \in Grouped /\ catalog.block[l] = b
        BY <1>1, <2>1, <3>1 DEF Grouped
      <4> QED
        BY <1>6, <1>7, <2>1, <2>3, <4>1
    <3> QED
      BY <3>1
  <2> QED
    BY <2>2, <2>3 DEF FullGroups
<1>9. Standalone \union PartialLives \subseteq Owed
  <2>1. Standalone \subseteq MatchedAll
    BY DEF Standalone, MatchedAll
  <2>2. PartialLives \subseteq MatchedAll \union ByTitle
    BY <1>7 DEF PartialLives
  <2> QED
    BY <1>6, <2>1, <2>2
<1>10. ASSUME NEW l \in Owed
       PROVE  l \in Standalone \union PartialLives \/ \E b \in FullGroups : l \in Members(b)
  <2>1. PICK b : b = catalog.block[l]
    OBVIOUS
  <2>2. CASE l \in MatchedAll /\ b \notin ValidGroups
    BY <2>1, <2>2 DEF Standalone, MatchedAll
  <2>3. CASE l \in MatchedAll \union ByTitle /\ b \in ValidGroups
    <3>1. l \in Members(b)
      BY <1>1, <1>2, <2>1, <2>3 DEF MatchedAll, ByTitle
    <3>2. l \in Candidates(b)
      BY <1>7, <2>3, <3>1
    <3> QED
      BY <2>3, <3>1, <3>2 DEF PartialLives
  <2>4. CASE l \notin MatchedAll \union ByTitle
    <3>1. /\ l \in Grouped /\ TitleMatches(b) /\ filter.narrow \in {"all", "year"}
          /\ Members(b) \subseteq Eligible /\ Members(b) \cap (MatchedAll \union ByTitle) # {}
      BY <1>6, <1>10, <2>1, <2>4
    <3>2. b \in ValidGroups /\ l \in Members(b)
      BY <1>1, <2>1, <3>1 DEF Grouped
    <3>3. b \in FullGroups
      BY <1>7, <3>1, <3>2 DEF FullGroups
    <3> QED
      BY <3>2, <3>3
  <2>5. l \in ByTitle => b \in ValidGroups
    BY <2>1 DEF ByTitle, Grouped
  <2> QED
    BY <2>2, <2>3, <2>4, <2>5
<1>12. ASSUME NEW x \in PerformancesListed PROVE x.lives \subseteq Owed
  BY <1>8, <1>9, <1>11
<1>13. ASSUME NEW l \in Owed PROVE \E x \in PerformancesListed : l \in x.lives
  <2>1. CASE l \in Standalone \union PartialLives
    <3>1. LiveCard(l) \in PerformancesListed /\ LiveCard(l).lives = {l}
      BY <2>1, CardFields DEF PerformancesListed
    <3> QED
      BY <3>1
  <2>2. CASE \E b \in FullGroups : l \in Members(b)
    <3>1. PICK b \in FullGroups : l \in Members(b)
      BY <2>2
    <3>2. BlockCard(b) \in PerformancesListed /\ BlockCard(b).lives = Members(b)
      BY CardFields DEF PerformancesListed
    <3> QED
      BY <3>1, <3>2
  <2> QED
    BY <1>10, <2>1, <2>2
<1> QED
  BY <1>5, <1>12, <1>13 DEF SharesOut

LEMMA CardsShareOut == ASSUME CatalogOK PROVE SharesOut(Cards, Owed)
<1>1. CASE filter.list = "lives"
  <2>1. Cards = LivesListed /\ Owed = LivesOwed
    BY <1>1, OwedParts DEF Cards
  <2> QED
    BY <2>1, LivesShareOut
<1>2. CASE filter.list = "performances"
  <2>1. Cards = PerformancesListed
    BY <1>2 DEF Cards
  <2> QED
    BY <1>2, <2>1, PerformancesShareOut
<1>3. CASE filter.list = "tours"
  <2>1. Cards = ToursListed
    BY <1>3 DEF Cards
  <2> QED
    BY <1>3, <2>1, ToursShareOut
<1> QED
  BY <1>1, <1>2, <1>3 DEF CatalogOK, Listing

----------------------------------------------------------------------------
(* The rows of a list: a card that ties with no other has one place in it. *)
LEMMA FiniteImage ==
    ASSUME NEW S, IsFiniteSet(S), NEW f
    PROVE  IsFiniteSet({f[x] : x \in S})
<1>1. PICK T, g : T = {f[x] : x \in S} /\ g = [x \in S |-> f[x]]
  OBVIOUS
<1>2. g \in Surjection(S, T)
  BY <1>1 DEF Surjection
<1> QED
  BY <1>1, <1>2, FS_Surjection

LEMMA FiniteCards ==
    ASSUME CatalogOK
    PROVE  IsFiniteSet(Cards) /\ Cardinality(Cards) \in Nat
<1>1. PICK f, g : f = [l \in ListedLives |-> LiveCard(l)] /\ g = [b \in Blocks |-> BlockCard(b)]
  OBVIOUS
<1>2. PICK A, B : A = {f[l] : l \in ListedLives} /\ B = {g[b] : b \in Blocks}
  OBVIOUS
<1>3. IsFiniteSet(A) /\ IsFiniteSet(B)
  BY <1>2, FiniteImage, ListFacts
<1>4. IsFiniteSet(A \union B)
  BY <1>3, FS_Union
<1>5. \A l \in ListedLives : LiveCard(l) \in A
  BY <1>1, <1>2
<1>6. \A b \in Blocks : BlockCard(b) \in B
  BY <1>1, <1>2
<1>7. Eligible \subseteq ListedLives /\ Standalone \subseteq ListedLives /\ PartialLives \subseteq ListedLives
  BY DEF Eligible, Standalone, PartialLives, Candidates, Members
<1>8. FullGroups \subseteq Blocks /\ MatchedTours \subseteq Blocks
  BY DEF FullGroups, ValidGroups, MatchedTours
<1>9. LivesListed \subseteq A \union B
  BY <1>5, <1>7 DEF LivesListed
<1>10. PerformancesListed \subseteq A \union B
  BY <1>5, <1>6, <1>7, <1>8 DEF PerformancesListed
<1>11. ToursListed \subseteq A \union B
  BY <1>6, <1>8 DEF ToursListed
<1>12. Cards \in {LivesListed, PerformancesListed, ToursListed}
  BY DEF Cards, CatalogOK, Listing
<1>13. Cards \in SUBSET (A \union B)
  BY <1>9, <1>10, <1>11, <1>12
<1> QED
  BY <1>4, <1>13, FS_Subset, FS_CardinalityType

LEMMA SortedFacts ==
    ASSUME CatalogOK, NEW s \in Sorted
    PROVE  /\ s \in Seq(Cards) /\ Len(s) = Cardinality(Cards) /\ DOMAIN s = 1..Cardinality(Cards)
           /\ \A i, j \in DOMAIN s : i # j => s[i] # s[j]
           /\ \A x \in Cards : \E i \in DOMAIN s : s[i] = x
           /\ \A i, j \in DOMAIN s : i < j => ~Precedes(s[j], s[i])
<1>1. PICK C, n : C = Cards /\ n = Cardinality(C) /\ n \in Nat /\ IsFiniteSet(C)
  BY FiniteCards
<1>2. s \in [1..n -> C] /\ \A i, j \in 1..n : i # j => s[i] # s[j]
  BY <1>1 DEF Sorted, SetToSeqs
<1>3. \A i, j \in DOMAIN s : i < j => ~Precedes(s[j], s[i])
  BY DEF Sorted
<1>4. s \in Injection(1..n, C)
  BY <1>2 DEF Injection, IsInjective
<1>5. Cardinality(1..n) = n
  BY <1>1, FS_Interval
<1>6. s \in Surjection(1..n, C)
  BY <1>1, <1>4, <1>5, FS_Injection
<1>7. \A x \in C : \E i \in 1..n : s[i] = x
  BY <1>6 DEF Surjection
<1>8. s \in Seq(C) /\ Len(s) = n /\ DOMAIN s = 1..n
  BY <1>1, <1>2
<1> QED
  BY <1>1, <1>2, <1>3, <1>7, <1>8

LEMMA OnePlace ==
    ASSUME CatalogOK, NEW x \in Cards \ TiedCards, NEW s \in Sorted, NEW i \in DOMAIN s, s[i] = x
    PROVE  i = Cardinality({y \in Cards \ {x} : Precedes(y, x)}) + 1
<1>1. PICK C, n : C = Cards /\ n = Cardinality(Cards) /\ n \in Nat /\ DOMAIN s = 1..n /\ s \in Seq(C)
  BY FiniteCards, SortedFacts
<1>2. PICK before : before = {y \in Cards \ {x} : Precedes(y, x)}
  OBVIOUS
<1>3. i \in 1..n /\ i \in Nat /\ i >= 1
  BY <1>1
<1>4. ASSUME NEW k \in 1..n PROVE s[k] \in before <=> k < i
  <2>1. s[k] \in Cards /\ k \in Nat
    BY <1>1, <1>4
  <2>2. CASE k < i
    <3>1. ~Precedes(x, s[k])
      BY <1>1, <1>3, <2>2, SortedFacts
    <3>2. s[k] # x
      BY <1>1, <1>3, <2>1, <2>2, SortedFacts
    <3> QED
      BY <1>2, <2>1, <2>2, <3>1, <3>2 DEF TiedCards
  <2>3. CASE k = i
    <3>1. s[k] = x
      BY <2>3
    <3> QED
      BY <1>2, <1>3, <2>3, <3>1
  <2>4. CASE i < k
    <3>1. ~Precedes(s[k], x)
      BY <1>1, <1>3, <2>4, SortedFacts
    <3> QED
      BY <1>2, <1>3, <2>1, <2>4, <3>1
  <2> QED
    BY <1>3, <2>1, <2>2, <2>3, <2>4
<1>5. PICK m, f : m = i - 1 /\ f = [k \in 1..m |-> s[k]]
  OBVIOUS
<1>6. m \in Nat /\ m + 1 = i /\ \A k : k \in 1..m <=> k \in 1..n /\ k < i
  BY <1>1, <1>3, <1>5
<1>7. f \in Injection(1..m, before)
  <2>1. \A k \in 1..m : f[k] = s[k] /\ s[k] \in before
    BY <1>4, <1>5, <1>6
  <2>2. \A k, l \in 1..m : s[k] = s[l] => k = l
    BY <1>1, <1>6, SortedFacts
  <2>3. f \in [1..m -> before]
    BY <1>5, <2>1
  <2> QED
    BY <2>1, <2>2, <2>3 DEF Injection, IsInjective
<1>8. f \in Surjection(1..m, before)
  <2>1. ASSUME NEW y \in before PROVE \E k \in 1..m : f[k] = y
    <3>1. PICK k \in 1..n : s[k] = y
      BY <1>1, <1>2, <2>1, SortedFacts
    <3>2. k \in 1..m
      BY <1>4, <1>6, <2>1, <3>1
    <3> QED
      BY <1>5, <3>1, <3>2
  <2> QED
    BY <1>7, <2>1 DEF Injection, Surjection
<1>9. Cardinality(1..m) = m /\ IsFiniteSet(1..m)
  BY <1>6, FS_Interval
<1>10. ExistsBijection(1..m, before)
  BY <1>7, <1>8 DEF Bijection, ExistsBijection
<1>11. Cardinality(before) = m
  BY <1>9, <1>10, FS_Bijection
<1> QED
  BY <1>2, <1>6, <1>11

----------------------------------------------------------------------------
(* The pages of a list are slices of its rows, and the last one ends them. *)
LEMMA Divisions ==
    \A n, p \in Nat \ {0} : (n + p - 1) \div p \in Nat \ {0} /\ ((n + p - 1) \div p) * p >= n
<1>1. SUFFICES ASSUME NEW n \in Nat \ {0}, NEW p \in Nat \ {0}
               PROVE  (n + p - 1) \div p \in Nat \ {0} /\ ((n + p - 1) \div p) * p >= n
  OBVIOUS
<1>2. PICK a : a = n + p - 1 /\ a \in Nat /\ a >= p
  OBVIOUS
<1>3. a \div p \in Nat \ {0}
  BY <1>2, Quotients
<1>4. ((n + p - 1) \div p) * p >= n
  OBVIOUS
<1> QED
  BY <1>2, <1>3, <1>4

LEMMA PageNumbers ==
    ASSUME CatalogOK
    PROVE  /\ TotalPages \in Nat \ {0}
           /\ \A s \in Sorted : UpTo(s, RowsPerPage, TotalPages) = Len(s)
<1>1. PICK n, p, t : /\ n = Cardinality(Cards) /\ n \in Nat /\ p = RowsPerPage /\ p \in Nat \ {0} /\ t = TotalPages
                     /\ \A s \in Sorted : Len(s) = n
  BY FiniteCards, SortedFacts, ListAssumption
<1>2. CASE Cards = {}
  <2>1. n = 0 /\ t = 1
    BY <1>1, <1>2, FS_EmptySet DEF TotalPages
  <2>2. 1 * p = p /\ ~(p < 0)
    BY <1>1
  <2> QED
    BY <1>1, <2>1, <2>2 DEF UpTo
<1>3. CASE Cards # {}
  <2>1. n # 0
    BY <1>1, <1>3, FiniteCards, FS_EmptySet
  <2>2. t = (n + p - 1) \div p
    BY <1>1, <1>3 DEF TotalPages
  <2>3. t \in Nat \ {0} /\ t * p >= n
    BY <1>1, <2>1, <2>2, Divisions
  <2>4. ~(t * p < n)
    <3>1. PICK m : m = t * p /\ m \in Nat
      BY <1>1, <2>3, Products
    <3> QED
      BY <1>1, <2>3, <3>1
  <2> QED
    BY <1>1, <2>3, <2>4 DEF UpTo
<1> QED
  BY <1>2, <1>3

LEMMA LesserOfTwo ==
    ASSUME NEW a \in Nat, NEW b \in Nat
    PROVE  Min({a, b}) = IF a < b THEN a ELSE b
<1>1. PICK m : m = IF a < b THEN a ELSE b
  OBVIOUS
<1>2. m \in {a, b} /\ \A x \in {a, b} : m =< x
  BY <1>1
<1>3. ASSUME NEW y \in {a, b}, \A x \in {a, b} : y =< x PROVE y = m
  BY <1>1, <1>3
<1>4. Min({a, b}) \in {a, b} /\ \A x \in {a, b} : Min({a, b}) =< x
  BY <1>2 DEF Min
<1> QED
  BY <1>1, <1>3, <1>4

WalkFields == {"next", "pages", "complete", "opened"}
WalkOK ==
    /\ DOMAIN walk = WalkFields
    /\ walk.next \in 1..(TotalPages + 1) /\ walk.complete \in BOOLEAN
    /\ walk.complete <=> walk.next = TotalPages + 1
    /\ walk.pages \in Seq(Seq(Cards)) /\ Len(walk.pages) = walk.next - 1
    /\ \A i \in DOMAIN walk.pages : \E s \in Sorted : walk.pages[i] = Slice(s, RowsPerPage, i)
    /\ walk.opened # <<>> =>
          /\ walk.opened[1].lives = walk.opened[1].card.lives
          /\ walk.opened[1].cancelled = walk.opened[1].card.cancelled
ListInv == CatalogOK /\ WalkOK

LEMMA Multiples == \A a, b, p \in Nat : a <= b => a * p <= b * p
  OBVIOUS

LEMMA PageOf ==
    ASSUME NEW p \in Nat \ {0}, NEW i \in Nat \ {0}, NEW k \in Nat, (i - 1) * p < k, k <= i * p
    PROVE  (k - 1) \div p + 1 = i
<1>1. PICK a, q, m : a = k - 1 /\ q = a \div p /\ m = i - 1 /\ a \in Nat /\ m \in Nat /\ q \in Nat
  <2>1. k - 1 \in Nat /\ i - 1 \in Nat
    <3>1. (i - 1) * p \in Nat
      OBVIOUS
    <3> QED
      BY <3>1
  <2> QED
    BY <2>1
<1>2. q * p <= a /\ a < (q + 1) * p
  BY <1>1
<1>3. m * p <= a /\ a < (m + 1) * p
  BY <1>1
<1>4. ~(q < m)
  <2>1. q < m => (q + 1) * p <= m * p
    BY <1>1, Multiples
  <2> QED
    BY <1>1, <1>2, <1>3, <2>1
<1>5. ~(m < q)
  <2>1. m < q => (m + 1) * p <= q * p
    BY <1>1, Multiples
  <2> QED
    BY <1>1, <1>2, <1>3, <2>1
<1> QED
  BY <1>1, <1>4, <1>5

LEMMA SomePage ==
    ASSUME NEW p \in Nat \ {0}, NEW n \in Nat \ {0}, NEW k \in Nat \ {0}, k <= n * p
    PROVE  (k - 1) \div p + 1 \in 1..n
<1>1. PICK a, q : a = k - 1 /\ q = a \div p /\ a \in Nat /\ q \in Nat
  OBVIOUS
<1>2. q * p <= a
  BY <1>1
<1>3. ~(n <= q)
  <2>1. n <= q => n * p <= q * p
    BY <1>1, Multiples
  <2>2. n * p \in Nat /\ q * p \in Nat
    BY <1>1
  <2> QED
    BY <1>1, <1>2, <2>1, <2>2
<1> QED
  BY <1>1, <1>3

LEMMA SameParts ==
    ASSUME NEW S, NEW s \in Seq(S), NEW t \in Seq(S), NEW a \in Nat, NEW b \in Nat, b <= Len(s), b <= Len(t),
           \A k \in Nat : a < k /\ k <= b => t[k] = s[k]
    PROVE  SubSeq(s, a + 1, b) = SubSeq(t, a + 1, b)
<1>1. PICK d : d = 1..(IF a + 1 <= b THEN b - a ELSE 0)
  OBVIOUS
<1>2. SubSeq(s, a + 1, b) = [i \in d |-> s[a + i]]
  BY <1>1
<1>3. SubSeq(t, a + 1, b) = [i \in d |-> t[a + i]]
  BY <1>1
<1>4. ASSUME NEW i \in d PROVE s[a + i] = t[a + i]
  <2>1. a + i \in Nat /\ a < a + i /\ a + i <= b
    BY <1>1
  <2> QED
    BY <2>1
<1> QED
  BY <1>2, <1>3, <1>4

(* Each page is a slice of an order of its own; a row of the walk stands where it stands in one of them. *)
LEMMA RowsComplete ==
    ASSUME ListInv, walk.complete, NEW rows, rows = FlattenSeq(walk.pages)
    PROVE  DOMAIN rows = 1..Cardinality(Cards) /\ \A k \in DOMAIN rows : \E s \in Sorted : rows[k] = s[k]
<1>1. PICK n, p, pages : /\ n = TotalPages /\ p = RowsPerPage /\ pages = walk.pages
                         /\ n \in Nat \ {0} /\ p \in Nat \ {0} /\ Len(pages) = n /\ DOMAIN pages = 1..n
                         /\ \A i \in 1..n : \E s \in Sorted : pages[i] = Slice(s, p, i)
  <2>1. TotalPages \in Nat \ {0}
    BY PageNumbers DEF ListInv
  <2>2. Len(walk.pages) = TotalPages /\ DOMAIN walk.pages = 1..TotalPages
    BY <2>1 DEF ListInv, WalkOK
  <2>3. \A i \in DOMAIN walk.pages : \E s \in Sorted : walk.pages[i] = Slice(s, RowsPerPage, i)
    BY DEF ListInv, WalkOK
  <2>4. RowsPerPage \in Nat \ {0}
    BY ListAssumption
  <2> QED
    BY <2>1, <2>2, <2>3, <2>4
<1>2. PICK order : order = [i \in 1..n |-> CHOOSE s \in Sorted : pages[i] = Slice(s, p, i)]
  OBVIOUS
<1>3. \A i \in 1..n : order[i] \in Sorted /\ pages[i] = Slice(order[i], p, i)
  BY <1>1, <1>2
<1>4. PICK N, C : /\ N = Cardinality(Cards) /\ N \in Nat /\ C = Cards
                  /\ \A s \in Sorted : /\ s \in Seq(C) /\ Len(s) = N /\ DOMAIN s = 1..N /\ UpTo(s, p, n) = N
                                       /\ \A k \in 1..N : s[k] \in C
  <2>1. Cardinality(Cards) \in Nat /\ CatalogOK
    BY FiniteCards DEF ListInv
  <2>2. ASSUME NEW s \in Sorted
        PROVE  /\ s \in Seq(Cards) /\ Len(s) = Cardinality(Cards) /\ DOMAIN s = 1..Cardinality(Cards)
               /\ UpTo(s, p, n) = Cardinality(Cards)
    BY <1>1, <2>1, SortedFacts, PageNumbers
  <2>3. ASSUME NEW s \in Sorted, NEW k \in 1..Cardinality(Cards) PROVE s[k] \in Cards
    BY <2>2
  <2> QED
    BY <2>1, <2>2, <2>3
<1>5. N <= n * p /\ n * p \in Nat
  <2>1. 1 \in 1..n
    BY <1>1
  <2>2. Len(order[1]) = N /\ UpTo(order[1], p, n) = N
    BY <1>3, <1>4, <2>1
  <2>3. n * p \in Nat
    BY <1>1, Products
  <2> QED
    BY <1>4, <2>2, <2>3 DEF UpTo
<1>6. PICK t : t = [k \in 1..N |-> order[(k - 1) \div p + 1][k]]
  OBVIOUS
<1>7. ASSUME NEW k \in 1..N PROVE order[(k - 1) \div p + 1] \in Sorted /\ t[k] = order[(k - 1) \div p + 1][k]
  <2>1. k \in Nat \ {0} /\ k <= n * p
    BY <1>4, <1>5
  <2>2. (k - 1) \div p + 1 \in 1..n
    BY <1>1, <2>1, SomePage
  <2> QED
    BY <1>3, <1>6, <2>2
<1>8. t \in Seq(C) /\ Len(t) = N /\ DOMAIN t = 1..N
  <2>1. \A k \in 1..N : t[k] \in C
    BY <1>4, <1>7
  <2> QED
    BY <1>4, <1>6, <2>1
<1>9. ASSUME NEW i \in 1..n PROVE pages[i] = Slice(t, p, i)
  <2>1. PICK s, a, b : /\ s = order[i] /\ a = (i - 1) * p /\ b = UpTo(t, p, i) /\ s \in Sorted
                       /\ pages[i] = Slice(s, p, i)
    BY <1>3
  <2>2. UpTo(s, p, i) = b /\ s \in Seq(C)
    BY <1>4, <1>8, <2>1 DEF UpTo
  <2>3. i \in Nat \ {0} /\ a \in Nat /\ b \in Nat /\ b <= N /\ b <= i * p
    <3>1. i \in Nat \ {0} /\ i - 1 \in Nat
      OBVIOUS
    <3>2. a \in Nat /\ i * p \in Nat
      BY <1>1, <2>1, <3>1, Products
    <3> QED
      BY <1>4, <1>8, <2>1, <3>1, <3>2 DEF UpTo
  <2>4. ASSUME NEW k \in Nat, a < k, k <= b PROVE t[k] = s[k]
    <3>1. k \in 1..N /\ k <= i * p
      <4>1. i * p \in Nat
        BY <1>1, <2>3, Products
      <4> QED
        BY <1>4, <2>3, <2>4, <4>1
    <3>2. (k - 1) \div p + 1 = i
      BY <1>1, <2>1, <2>3, <2>4, <3>1, PageOf
    <3> QED
      BY <1>7, <2>1, <3>1, <3>2
  <2>5. SubSeq(s, a + 1, b) = SubSeq(t, a + 1, b)
    <3>1. Len(s) = N /\ b <= Len(s) /\ b <= Len(t)
      BY <1>4, <1>8, <2>1, <2>3
    <3> HIDE <2>1
    <3> QED
      BY <1>8, <2>2, <2>3, <2>4, <3>1, SameParts
  <2>6. Slice(s, p, i) = SubSeq(s, a + 1, b) /\ Slice(t, p, i) = SubSeq(t, a + 1, b)
    BY <2>1, <2>2 DEF Slice
  <2> QED
    BY <2>1, <2>5, <2>6
<1>10. pages = [i \in 1..n |-> Slice(t, p, i)]
  <2>1. walk.pages \in Seq(Seq(Cards))
    BY DEF ListInv, WalkOK
  <2>2. pages = [i \in 1..n |-> pages[i]]
    BY <1>1, <2>1
  <2> QED
    BY <1>9, <2>2
<1>11. UpTo(t, p, n) = N
  BY <1>4, <1>5, <1>8 DEF UpTo
<1>12. FlattenSeq([i \in 1..n |-> Slice(t, p, i)]) = SubSeq(t, 1, UpTo(t, p, n))
  BY <1>1, <1>8, SlicesTogether
<1>13. SubSeq(t, 1, N) = t
  BY <1>4, <1>8
<1>14. rows = t
  BY <1>1, <1>10, <1>11, <1>12, <1>13
<1> QED
  BY <1>4, <1>7, <1>8, <1>14

LEMMA ListedFromInv == ASSUME ListInv PROVE EveryLiveListedOnce
<1>0. CatalogOK /\ WalkOK /\ SharesOut(Cards, Owed)
  BY CardsShareOut DEF ListInv
<1>1. ASSUME walk.complete, NEW rows, rows = FlattenSeq(walk.pages),
             NEW l \in Owed \ UNION {x.lives : x \in TiedCards}
      PROVE  Cardinality({i \in DOMAIN rows : l \in rows[i].lives}) = 1
  <2>1. PICK n, C : /\ n = Cardinality(Cards) /\ n \in Nat /\ C = Cards /\ DOMAIN rows = 1..n
                    /\ \A k \in 1..n : \E s \in Sorted : rows[k] = s[k]
    BY <1>0, <1>1, RowsComplete, FiniteCards
  <2>2. PICK x \in Cards : l \in x.lives
    BY <1>0, <1>1 DEF SharesOut
  <2>3. x \in Cards \ TiedCards
    BY <1>1, <2>2
  <2>4. PICK i : i = Cardinality({y \in Cards \ {x} : Precedes(y, x)}) + 1
    OBVIOUS
  <2>5. ASSUME NEW s \in Sorted PROVE i \in 1..n /\ s[i] = x /\ \A k \in 1..n : l \in s[k].lives => k = i
    <3>1. /\ DOMAIN s = 1..n /\ (\A y \in Cards : \E k \in DOMAIN s : s[k] = y)
          /\ \A k \in DOMAIN s : s[k] \in Cards
      BY <1>0, <2>1, SortedFacts
    <3>2. PICK k \in 1..n : s[k] = x
      BY <3>1
    <3>3. k = i
      BY <1>0, <2>3, <2>4, <3>1, <3>2, OnePlace
    <3>4. ASSUME NEW j \in 1..n, l \in s[j].lives PROVE j = i
      <4>1. s[j] = x
        BY <1>0, <2>2, <3>1, <3>4 DEF SharesOut
      <4> QED
        BY <1>0, <2>3, <2>4, <3>1, <4>1, OnePlace
    <3> QED
      BY <3>2, <3>3, <3>4
  <2>6. 1 \in 1..n
    <3>1. n # 0
      BY <1>0, <2>1, <2>2, FiniteCards, FS_EmptySet
    <3> QED
      BY <2>1, <3>1
  <2>7. i \in 1..n /\ rows[i] = x
    <3>1. PICK s \in Sorted : rows[1] = s[1]
      BY <2>1, <2>6
    <3>2. i \in 1..n
      BY <2>5, <3>1
    <3>3. PICK r \in Sorted : rows[i] = r[i]
      BY <2>1, <3>2
    <3> QED
      BY <2>5, <3>2, <3>3
  <2>8. ASSUME NEW k \in 1..n, l \in rows[k].lives PROVE k = i
    <3>1. PICK s \in Sorted : rows[k] = s[k]
      BY <2>1
    <3> QED
      BY <2>5, <2>8, <3>1
  <2>9. {k \in DOMAIN rows : l \in rows[k].lives} = {i}
    BY <2>1, <2>2, <2>7, <2>8
  <2> QED
    BY <2>9, FS_Singleton
<1>2. ASSUME NEW i \in DOMAIN walk.pages, NEW j \in DOMAIN walk.pages[i], NEW k \in DOMAIN walk.pages[i]
      PROVE  /\ walk.pages[i][j].lives \subseteq Owed
             /\ j # k => walk.pages[i][j].lives \cap walk.pages[i][k].lives = {}
  <2>1. PICK s \in Sorted : walk.pages[i] = Slice(s, RowsPerPage, i)
    BY <1>0 DEF WalkOK
  <2>2. PICK q, m, b : /\ q = walk.pages[i] /\ m = (i - 1) * RowsPerPage /\ b = UpTo(s, RowsPerPage, i)
                       /\ m \in Nat /\ b \in Nat /\ b <= Len(s) /\ q = SubSeq(s, m + 1, b)
    <3>1. i \in Nat \ {0}
      BY <1>0 DEF WalkOK
    <3>2. i - 1 \in Nat /\ RowsPerPage \in Nat \ {0}
      BY <3>1, ListAssumption
    <3>3. (i - 1) * RowsPerPage \in Nat
      BY <3>2, Products
    <3>4. s \in Seq(Cards)
      BY <1>0, SortedFacts
    <3>6. Len(s) \in Nat
      BY <3>4
    <3>5. UpTo(s, RowsPerPage, i) \in 0..Len(s)
      BY <3>1, <3>2, <3>4, SlicesFollow
    <3>7. UpTo(s, RowsPerPage, i) \in Nat /\ UpTo(s, RowsPerPage, i) <= Len(s)
      BY <3>5, <3>6
    <3> QED
      BY <2>1, <3>3, <3>7 DEF Slice
  <2>3. SliceOf(q, s, m, b, Cards)
    <3>1. s \in Seq(Cards)
      BY <1>0, SortedFacts
    <3> QED
      BY <2>2, <3>1, SliceFacts
  <2>4. PICK x, y : /\ x = m + j /\ y = m + k /\ x \in DOMAIN s /\ y \in DOMAIN s /\ (j # k => x # y)
                    /\ q[j] = s[x] /\ q[k] = s[y]
    <3>1. j \in DOMAIN q /\ k \in DOMAIN q
      BY <2>2
    <3>2. /\ j \in Nat /\ k \in Nat /\ m + j \in DOMAIN s /\ m + k \in DOMAIN s
          /\ q[j] = s[m + j] /\ q[k] = s[m + k]
      BY <2>3, <3>1 DEF SliceOf
    <3>3. j # k => m + j # m + k
      BY <2>2, <3>2
    <3> QED
      BY <3>2, <3>3
  <2>5. s[x] \in Cards /\ s[y] \in Cards /\ (j # k => s[x] # s[y])
    BY <1>0, <2>4, SortedFacts
  <2>6. s[x].lives \subseteq Owed /\ (j # k => s[x].lives \cap s[y].lives = {})
    BY <1>0, <2>5 DEF SharesOut
  <2> QED
    BY <2>2, <2>4, <2>6
<1>3. ASSUME walk.opened # <<>>
      PROVE  LET o == walk.opened[1] IN o.lives = o.card.lives /\ o.cancelled = o.card.cancelled
  BY <1>0, <1>3 DEF WalkOK
<1> QED
  BY <1>1, <1>2, <1>3 DEF EveryLiveListedOnce

LEMMA SameLists ==
    ASSUME catalog' = catalog, filter' = filter
    PROVE  /\ CatalogOK <=> CatalogOK'
           /\ Cards' = Cards /\ Sorted' = Sorted /\ TotalPages' = TotalPages
<1>1. (\A b : Members(b)' = Members(b)) /\ Eligible' = Eligible /\ \A l : Wanted(l)' = Wanted(l)
  BY DEF Members, Eligible, Wanted, Narrowed
<1>2. ValidGroups' = ValidGroups /\ \A b : Candidates(b)' = Candidates(b)
  BY <1>1 DEF ValidGroups, Candidates, TitleMatches, Narrowed
<1>3. Standalone' = Standalone /\ FullGroups' = FullGroups
  BY <1>1, <1>2 DEF Standalone, FullGroups, TitleMatches
<1>4. PartialLives' = PartialLives /\ MatchedTours' = MatchedTours
  BY <1>1, <1>2, <1>3 DEF PartialLives, MatchedTours, TitleMatches, Narrowed
<1>5. (\A l : LiveCard(l)' = LiveCard(l)) /\ \A b : BlockCard(b)' = BlockCard(b)
  BY <1>1 DEF LiveCard, BlockCard, BlockRank, DaysOf
<1>6. LivesListed' = LivesListed /\ PerformancesListed' = PerformancesListed /\ ToursListed' = ToursListed
  <2>1. DefaultFavorites' = DefaultFavorites
    BY DEF DefaultFavorites
  <2>2. LivesListed' = LivesListed
    BY <1>1, <1>5, <2>1 DEF LivesListed
  <2>3. PerformancesListed' = PerformancesListed
    BY <1>3, <1>4, <1>5 DEF PerformancesListed
  <2>4. ToursListed' = ToursListed
    BY <1>4, <1>5 DEF ToursListed
  <2> QED
    BY <2>2, <2>3, <2>4
<1>7. Cards' = Cards
  BY <1>6 DEF Cards
<1>8. \A x, y : Precedes(x, y)' = Precedes(x, y)
  BY DEF Precedes
<1>9. Sorted' = Sorted
  BY <1>7, <1>8 DEF Sorted
<1>10. TotalPages' = TotalPages
  BY <1>7 DEF TotalPages
<1> QED
  BY <1>7, <1>9, <1>10 DEF CatalogOK

LEMMA WalkStep == ASSUME ListInv, ListNext PROVE ListInv'
<1>0. catalog' = catalog /\ filter' = filter
  BY DEF ListNext, ReadPage, OpenGroup, OpenTour, Open
<1>1. /\ CatalogOK' /\ Cards' = Cards /\ Sorted' = Sorted /\ TotalPages' = TotalPages
      /\ CatalogOK /\ WalkOK
  BY <1>0, SameLists DEF ListInv
<1>2. PICK T, C : T = TotalPages /\ C = Cards /\ T \in Nat \ {0}
  BY <1>1, PageNumbers
<1>3. CASE ReadPage
  <2>1. ~walk.complete /\ walk.next \in 1..T /\ Len(walk.pages) = walk.next - 1 /\ walk.pages \in Seq(Seq(C))
    BY <1>1, <1>2, <1>3 DEF ReadPage, WalkOK
  <2>2. PICK n : n = walk.next /\ n \in Nat \ {0} /\ n <= T
    BY <1>2, <2>1
  <2>3. SafePage = n
    BY <1>2, <2>2, LesserOfTwo DEF SafePage
  <2>4. PICK s \in Sorted :
            walk' = [walk EXCEPT !.pages = Append(@, SubSeq(s, (n - 1) * RowsPerPage + 1,
                                                            Min({n * RowsPerPage, Len(s)}))),
                                 !.next = n + 1, !.complete = n = TotalPages]
    BY <1>3, <2>3 DEF ReadPage
  <2>5. s \in Seq(C) /\ Len(s) \in Nat /\ RowsPerPage \in Nat \ {0}
    BY <1>1, <1>2, SortedFacts, ListAssumption
  <2>6. SubSeq(s, (n - 1) * RowsPerPage + 1, Min({n * RowsPerPage, Len(s)})) = Slice(s, RowsPerPage, n)
    <3>1. n * RowsPerPage \in Nat
      BY <2>2, <2>5, Products
    <3>2. Min({n * RowsPerPage, Len(s)}) = UpTo(s, RowsPerPage, n)
      BY <2>5, <3>1, LesserOfTwo DEF UpTo
    <3> QED
      BY <3>2 DEF Slice
  <2>7. PICK part : part = Slice(s, RowsPerPage, n) /\ part \in Seq(C)
    BY <2>2, <2>5, SlicesFollow
  <2>8. PICK pages, done : pages = Append(walk.pages, part) /\ done = (n = T)
    OBVIOUS
  <2>9. walk' = [walk EXCEPT !.pages = pages, !.next = n + 1, !.complete = done]
    BY <1>2, <2>4, <2>6, <2>7, <2>8
  <2>10. /\ DOMAIN walk' = WalkFields /\ walk'.pages = pages /\ walk'.next = n + 1 /\ walk'.complete = done
         /\ walk'.opened = walk.opened
    BY <1>1, <2>9 DEF WalkOK, WalkFields
  <2>11. /\ pages \in Seq(Seq(C)) /\ Len(pages) = n /\ DOMAIN pages = 1..n /\ pages[n] = part
         /\ \A i \in 1..n : i # n => i \in DOMAIN walk.pages /\ pages[i] = walk.pages[i]
    BY <2>1, <2>2, <2>7, <2>8
  <2>12. \A i \in DOMAIN pages : \E r \in Sorted : pages[i] = Slice(r, RowsPerPage, i)
    <3>1. ASSUME NEW i \in 1..n PROVE \E r \in Sorted : pages[i] = Slice(r, RowsPerPage, i)
      <4>1. CASE i = n
        BY <2>7, <2>11, <4>1
      <4>2. CASE i # n
        BY <1>1, <2>11, <4>2 DEF WalkOK
      <4> QED
        BY <4>1, <4>2
    <3> QED
      BY <2>11, <3>1
  <2>13. n + 1 \in 1..(T + 1) /\ done \in BOOLEAN /\ (done <=> n + 1 = T + 1) /\ (n + 1) - 1 = n
    <3>1. n + 1 \in 1..(T + 1) /\ (n + 1) - 1 = n
      BY <1>2, <2>2
    <3>2. n = T <=> n + 1 = T + 1
      BY <1>2, <2>2
    <3>3. done \in BOOLEAN /\ (done <=> n = T)
      BY <2>8
    <3> QED
      BY <3>1, <3>2, <3>3
  <2>14. WalkOK'
    <3>1. /\ walk'.next \in 1..(TotalPages + 1)' /\ walk'.complete \in BOOLEAN
          /\ walk'.complete <=> walk'.next = TotalPages' + 1
      BY <1>1, <1>2, <2>10, <2>13
    <3>2. walk'.pages \in Seq(Seq(Cards')) /\ Len(walk'.pages) = walk'.next - 1
      BY <1>1, <1>2, <2>10, <2>11, <2>13
    <3>3. \A i \in DOMAIN walk'.pages : \E r \in Sorted' : walk'.pages[i] = Slice(r, RowsPerPage, i)
      BY <1>1, <2>10, <2>12
    <3>4. walk'.opened # <<>> =>
              /\ walk'.opened[1].lives = walk'.opened[1].card.lives
              /\ walk'.opened[1].cancelled = walk'.opened[1].card.cancelled
      BY <1>1, <2>10 DEF WalkOK
    <3> QED
      BY <2>10, <3>1, <3>2, <3>3, <3>4 DEF WalkOK
  <2> QED
    BY <1>1, <2>14 DEF ListInv
<1>4. ASSUME NEW b, Members(b) # {} \/ b \in ValidGroups,
             NEW found, found = TRUE, NEW card, card = BlockCard(b), Open(card, found)
      PROVE  ListInv'
  <2>1. card.id = b /\ card.lives = Members(b) /\ card.cancelled = Cardinality(Members(b) \cap catalog.cancelled)
    BY <1>4, CardFields
  <2>2. PICK m, c : m = Members(b) /\ c = Cardinality(Members(b) \cap catalog.cancelled)
    OBVIOUS
  <2>3. PICK o : o = [card |-> card, lives |-> m, cancelled |-> c]
    OBVIOUS
  <2>4. walk' = [walk EXCEPT !.opened = <<o>>]
    BY <1>4, <2>1, <2>2, <2>3 DEF Open
  <2>5. o.card = card /\ o.lives = m /\ o.cancelled = c
    BY <2>3
  <2>6. /\ DOMAIN walk' = WalkFields /\ walk'.pages = walk.pages /\ walk'.next = walk.next
        /\ walk'.complete = walk.complete /\ walk'.opened = <<o>>
    BY <1>1, <2>4 DEF WalkOK, WalkFields
  <2>7. walk'.opened[1] = o
    BY <2>6
  <2>8. WalkOK'
    BY <1>1, <2>1, <2>2, <2>5, <2>6, <2>7 DEF WalkOK
  <2> QED
    BY <1>1, <2>8 DEF ListInv
<1>6. CASE OpenGroup
  <2>1. PICK card \in PerformancesListed : Open(card, card.id \in ValidGroups) /\ card.kind = "block"
    BY <1>6 DEF OpenGroup, Open
  <2>2. PICK b \in FullGroups : card = BlockCard(b)
    <3>1. \A l : LiveCard(l).kind # "block"
      BY CardFields
    <3> QED
      BY <2>1, <3>1 DEF PerformancesListed
  <2>3. card.id = b /\ b \in ValidGroups
    BY <2>2, CardFields DEF FullGroups
  <2>4. Open(card, TRUE)
    BY <2>1, <2>3
  <2> QED
    BY <1>4, <2>2, <2>3, <2>4
<1>7. CASE OpenTour
  <2>1. PICK card \in ToursListed : Open(card, Members(card.id) # {})
    BY <1>7 DEF OpenTour
  <2>2. PICK b \in MatchedTours : card = BlockCard(b)
    BY <2>1 DEF ToursListed
  <2>3. card.id = b /\ Members(b) # {}
    BY <2>2, CardFields DEF MatchedTours
  <2>4. Open(card, TRUE)
    BY <2>1, <2>3
  <2> QED
    BY <1>4, <2>2, <2>3, <2>4
<1> QED
  BY <1>3, <1>6, <1>7 DEF ListNext

LEMMA ListStart == ASSUME ListInit PROVE ListInv
<1>1. CatalogOK
  <2>1. Min(Blocks) \in Blocks
    <3>1. Blocks \subseteq Nat /\ Blocks # {}
      BY ListAssumption
    <3>2. PICK m \in Blocks : \A k \in Blocks : ~(<<k, m>> \in OpToRel(<, Nat))
      BY <3>1, WFMin, NatLessThanWellFounded
    <3>3. ASSUME NEW x \in Blocks PROVE m =< x
      <4>1. m \in Nat /\ x \in Nat /\ ~(x < m)
        BY <3>1, <3>2 DEF OpToRel
      <4> QED
        BY <4>1
    <3> QED
      BY <3>3 DEF Min
  <2>2. filter.list \in Listing
    BY DEF ListInit, Filters
  <2>3. PICK B : B \subseteq Blocks /\ catalog.block \in [ListedLives -> {NoBlock} \union B]
    <3>1. catalog.block \in [ListedLives -> {NoBlock} \union (IF filter.list = "tours" THEN Blocks ELSE {Min(Blocks)})]
      BY DEF ListInit, Catalogs
    <3> QED
      BY <2>1, <3>1
  <2> QED
    BY <2>2, <2>3 DEF CatalogOK
<1>2. PICK T, C : T = TotalPages /\ C = Cards /\ T \in Nat \ {0}
  BY <1>1, PageNumbers
<1>3. /\ DOMAIN walk = WalkFields /\ walk.next = 1 /\ walk.pages = <<>> /\ walk.complete = FALSE
      /\ walk.opened = <<>>
  BY DEF ListInit, NoWalk, WalkFields
<1>4. /\ 1 \in 1..(T + 1) /\ 1 # T + 1 /\ <<>> \in Seq(Seq(C)) /\ Len(<<>>) = 1 - 1
  BY <1>2
<1>5. WalkOK
  <2>1. walk.next \in 1..(TotalPages + 1) /\ walk.complete \in BOOLEAN
    BY <1>2, <1>3, <1>4
  <2>2. walk.complete <=> walk.next = TotalPages + 1
    BY <1>2, <1>3, <1>4
  <2>3. walk.pages \in Seq(Seq(Cards)) /\ Len(walk.pages) = walk.next - 1
    BY <1>2, <1>3, <1>4
  <2>4. \A i \in DOMAIN walk.pages : \E s \in Sorted : walk.pages[i] = Slice(s, RowsPerPage, i)
    BY <1>3
  <2> QED
    BY <1>3, <2>1, <2>2, <2>3, <2>4 DEF WalkOK
<1> QED
  BY <1>1, <1>5 DEF ListInv

(* Every Live a list owes is on one of its cards, unless its card ties with another:
   the paged reads of lives.py, me.py, performance_groups.py and tours.py. *)
THEOREM EveryLiveListedOnceAlways == ListSpec => []EveryLiveListedOnce
<1>1. ListInit => ListInv
  BY ListStart
<1>2. ListInv /\ [ListNext]_listVars => ListInv'
  <2>1. ASSUME ListInv, UNCHANGED listVars PROVE ListInv'
    <3>1. catalog' = catalog /\ filter' = filter /\ walk' = walk
      BY <2>1 DEF listVars
    <3> QED
      BY <2>1, <3>1, SameLists DEF ListInv, WalkOK
  <2> QED
    BY <2>1, WalkStep
<1>3. ListInv => EveryLiveListedOnce
  BY ListedFromInv
<1> QED
  BY <1>1, <1>2, <1>3, PTL DEF ListSpec

===============================================================================
