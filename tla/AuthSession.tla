------------------------------ MODULE AuthSession ------------------------------
(***************************************************************************)
(* Sessions and CSRF tokens: the tabs of one browser share the cookie, each *)
(* keeps the user and the token it was given last, and the server looks a  *)
(* session up in one transaction and acts in another (backend/app/auth.py,  *)
(* AuthProvider.tsx).                                                       *)
(***************************************************************************)
EXTENDS Integers, Sequences

CONSTANTS
    Tabs, Users,
    Calls,          \* bound: requests under way at once
    MaxSessions, MaxSent

ASSUME AuthAssumption == MaxSessions \in Nat /\ MaxSent \in Nat /\ 0 \notin Tabs \union Users

VARIABLES
    authSessions,   \* auth_sessions: the user, the tokens, whether revoked or expired
    cookie,         \* the session the browser's cookie names
    tabs,           \* what each tab shows: the user, the token and whose it is
    calls,          \* requests under way
    issued,         \* tokens drawn, no two alike
    sent

authVars == <<authSessions, cookie, tabs, calls, issued, sent>>

NoSession == 0
NoTab == 0
Anonymous == [user |-> 0, session |-> NoSession, token |-> 0]

NoCall == [tab |-> NoTab, kind |-> "none", user |-> 0, cookie |-> NoSession, shown |-> Anonymous,
           stage |-> "idle", found |-> NoSession, valid |-> {}, result |-> "none", reply |-> Anonymous]

AuthInit ==
    /\ authSessions = <<>> /\ cookie = NoSession /\ issued = 0 /\ sent = 0
    /\ tabs = [t \in Tabs |-> Anonymous] /\ calls = [c \in Calls |-> NoCall]

NewToken == issued + 1

----------------------------------------------------------------------------
(* Requests carry the cookie of the moment and the token of their tab. *)
CallFrom(t, kind, user, shown) ==
    [tab |-> t, kind |-> kind, user |-> user, cookie |-> cookie, shown |-> shown, stage |-> "sent",
     found |-> NoSession, valid |-> {}, result |-> "none", reply |-> Anonymous]

MaySend(c) == calls[c].stage = "idle" /\ sent < MaxSent /\ sent' = sent + 1

(* The login form is there for an anonymous tab; the rest needs a user, /me when
   the favourites are reconciled. *)
SendCall(c, t, kind, user) ==
    /\ MaySend(c)
    /\ kind = "login" <=> tabs[t] = Anonymous
    /\ calls' = [calls EXCEPT ![c] = CallFrom(t, kind, user, tabs[t])]
    /\ UNCHANGED <<authSessions, cookie, tabs, issued>>

(* A page load asks who it is; answers to the page before are for no tab. *)
EnterPage(c, t) ==
    /\ MaySend(c)
    /\ tabs' = [tabs EXCEPT ![t] = Anonymous]
    /\ calls' = [d \in Calls |->
          IF d = c THEN CallFrom(t, "me", 0, Anonymous)
          ELSE IF calls[d].tab = t THEN [calls[d] EXCEPT !.tab = NoTab] ELSE calls[d]]
    /\ UNCHANGED <<authSessions, cookie, issued>>

IsOpen(s) == s # NoSession /\ ~authSessions[s].ended

(* _load_auth_context: an expired session counts as none. *)
LookUp(c) ==
    /\ calls[c].stage = "sent" /\ calls[c].kind # "login"
    /\ LET s == calls[c].cookie IN
       calls' = [calls EXCEPT ![c] = [@ EXCEPT !.stage = "found",
                    !.found = IF IsOpen(s) THEN s ELSE NoSession,
                    !.valid = IF IsOpen(s) THEN authSessions[s].tokens ELSE {}]]
    /\ UNCHANGED <<authSessions, cookie, tabs, issued, sent>>

AnswerCall(c, result, reply) ==
    calls' = [calls EXCEPT ![c] = [@ EXCEPT !.stage = "answered", !.result = result, !.reply = reply]]

(* authenticate_user *)
LogIn(c) ==
    /\ calls[c].stage = "sent" /\ calls[c].kind = "login" /\ Len(authSessions) < MaxSessions
    /\ authSessions' = Append(authSessions,
                              [user |-> calls[c].user, tokens |-> {NewToken}, ended |-> FALSE])
    /\ issued' = NewToken
    /\ AnswerCall(c, "done", [user |-> calls[c].user, session |-> Len(authSessions) + 1, token |-> NewToken])
    /\ UNCHANGED <<cookie, tabs, sent>>

\* A mutant: a new token takes the place of the session's others.
IssueOnly(s) ==
    authSessions' = [authSessions EXCEPT ![s].tokens = {NewToken}] /\ issued' = NewToken

(* The tokens of other tabs stay. *)
Issue(s) ==
    /\ authSessions' = [authSessions EXCEPT ![s].tokens = @ \union {NewToken}]
    /\ issued' = NewToken

Handles(c, kind) == calls[c].stage = "found" /\ calls[c].kind = kind

(* build_authenticated_response_payload: the session may have ended meanwhile. *)
Me(c) ==
    /\ Handles(c, "me")
    /\ LET s == calls[c].found IN
       \/ s = NoSession /\ AnswerCall(c, "done", Anonymous) /\ UNCHANGED <<authSessions, issued>>
       \/ /\ s # NoSession /\ Issue(s)
          /\ AnswerCall(c, "done", [user |-> authSessions[s].user, session |-> s, token |-> NewToken])
    /\ UNCHANGED <<cookie, tabs, sent>>

(* assert_valid_csrf, with the tokens that were read at the look-up *)
ValidToken(call) == call.shown.token \in call.valid

End(s) == authSessions' = [authSessions EXCEPT ![s] = [@ EXCEPT !.ended = TRUE]]

LogOut(c) ==
    /\ Handles(c, "logout")
    /\ LET s == calls[c].found IN
       \/ s = NoSession /\ AnswerCall(c, "done", Anonymous) /\ UNCHANGED authSessions
       \/ s # NoSession /\ ValidToken(calls[c]) /\ AnswerCall(c, "done", Anonymous) /\ End(s)
       \/ s # NoSession /\ ~ValidToken(calls[c]) /\ AnswerCall(c, "refused", Anonymous) /\ UNCHANGED authSessions
    /\ UNCHANGED <<cookie, tabs, issued, sent>>

(* Any request that changes data: get_current_auth_context, assert_valid_csrf *)
Write(c) ==
    /\ Handles(c, "write")
    /\ AnswerCall(c, IF calls[c].found = NoSession THEN "expired"
                     ELSE IF ValidToken(calls[c]) THEN "done" ELSE "refused", Anonymous)
    /\ UNCHANGED <<authSessions, cookie, tabs, issued, sent>>

----------------------------------------------------------------------------
Forget(c) == calls' = [calls EXCEPT ![c] = NoCall]

(* The answer sets or deletes the cookie and what its tab shows, whatever has
   happened since the request. *)
Receive(c) ==
    /\ calls[c].stage = "answered" /\ Forget(c)
    /\ cookie' = IF calls[c].kind \in {"login", "logout"} /\ calls[c].result = "done"
                 THEN calls[c].reply.session ELSE cookie
    /\ tabs' = IF calls[c].tab # NoTab /\ (calls[c].kind = "write" <=> calls[c].result = "expired")
                                       /\ calls[c].result # "refused"
               THEN [tabs EXCEPT ![calls[c].tab] = calls[c].reply] ELSE tabs
    /\ UNCHANGED <<authSessions, issued, sent>>

(* A request or its answer is lost, or a login is refused. *)
LoseCall(c) ==
    /\ calls[c].stage \in {"sent", "answered"} /\ Forget(c)
    /\ UNCHANGED <<authSessions, cookie, tabs, issued, sent>>

(* The session expires, or its user is deactivated for good. *)
SessionEnds(s) ==
    /\ ~authSessions[s].ended /\ End(s)
    /\ UNCHANGED <<cookie, tabs, calls, issued, sent>>

AuthNext ==
    \/ \E c \in Calls, t \in Tabs : EnterPage(c, t)
    \/ \E c \in Calls, t \in Tabs, u \in Users : SendCall(c, t, "login", u)
    \/ \E c \in Calls, t \in Tabs, kind \in {"me", "logout", "write"} : SendCall(c, t, kind, tabs[t].user)
    \/ \E c \in Calls : LookUp(c) \/ LogIn(c) \/ Me(c) \/ LogOut(c) \/ Write(c) \/ Receive(c) \/ LoseCall(c)
    \/ \E s \in DOMAIN authSessions : SessionEnds(s)

AuthSpec == AuthInit /\ [][AuthNext]_authVars

----------------------------------------------------------------------------
(* Whatever order requests, answers and cookies come in, in however many tabs: a
   write that is stored is made as the user its tab showed when it was sent, a
   logout ends the session of that tab, and a token is refused only if the
   cookie was another session's, never because another tab was given one. *)
WritesKeepTheirUser ==
    \A c \in Calls :
        calls[c].stage = "answered" /\ calls[c].kind \in {"write", "logout"} =>
            /\ calls[c].result = "done" /\ calls[c].found # NoSession =>
                  /\ calls[c].found = calls[c].shown.session
                  /\ authSessions[calls[c].found].user = calls[c].shown.user
            /\ calls[c].result = "refused" => calls[c].cookie # calls[c].shown.session
=============================================================================
