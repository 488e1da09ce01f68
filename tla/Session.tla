------------------------------- MODULE Session -------------------------------
(***************************************************************************)
(* The session of one browser tab and the server it talks to: the stores   *)
(* and the interceptor of the client (stores/auth.ts, api/client.ts), and  *)
(* login, refresh and logout of auth.service.ts.                           *)
(*                                                                         *)
(* A login l in Logins is one sign-in and stands for its refresh token.    *)
(* Access tokens are numbered in the order they are issued, for whichever  *)
(* login, and expire in that order.                                        *)
(* A call q in Requests is one of a page to the API outside /auth/,        *)
(* which the interceptor may repeat after a refresh.                       *)
(***************************************************************************)
EXTENDS Integers, Sequences, FiniteSets

CONSTANTS
    MaxLogins,     \* bound on the sign-ins
    Requests,
    MaxTokens,     \* bound on the access tokens issued
    MaxRevoked     \* size of the blacklist of refresh tokens

NoCall == "none"

ASSUME SessionAssumption ==
    /\ IsFiniteSet(Requests) /\ NoCall \notin Requests
    /\ MaxLogins \in Nat /\ MaxTokens \in Nat
    /\ MaxRevoked \in Nat \ {0}

VARIABLES
    user,        \* login of the user in the store
    access,      \* access token in the store
    refresh,     \* refresh token in the store
    stored,      \* refresh token in localStorage
    boot,        \* how far restore() is
    leaving,     \* the refresh token logout() has sent, if it waits for the answer
    served,      \* the server has handled that logout
    call,        \* each request: its step, token and _retried
    leader,      \* the request whose handler refreshes (isRefreshing), or none
    asked,       \* the refresh token it has sent
    answer,      \* what the server has done about it
    revoked,     \* revokedRefreshTokens, in insertion order
    suspended,   \* logins of suspended users
    issued,      \* the login of each access token issued
    expired,     \* number of those that have expired
    loggedOut,   \* auxiliary: logins whose logout the server has handled
    left,        \* auxiliary: logins whose logout() has come to its end in the tab
    crossed,     \* auxiliary: the session was replaced or ended while a refresh
                 \* was under way
    overtaken    \* auxiliary: the blacklist has lost an entry, or a logout has
                 \* come after the check of a refresh that was not yet signed

authStore == <<user, access, refresh, stored>>
client == <<authStore, boot, leaving, served, call, leader, asked>>
authServer == <<revoked, suspended, issued, expired>>
aux == <<loggedOut, left, crossed, overtaken>>
sessionVars == <<client, answer, authServer, aux>>

NoLogin == 0
Logins == 1 .. MaxLogins

NoToken == 0
Tokens == 1 .. MaxTokens

\* The server's side of a refresh; the token counts in state "token".
Answer(state, t) == [state |-> state, token |-> t]
NoAnswer == Answer("none", NoToken)

CallSteps == {"idle", "sent", "refused", "queued"}
NoRequest == [step |-> "idle", token |-> NoToken, retried |-> FALSE]

MaybeLogin == Logins \cup {NoLogin}

SessionTypeOK ==
    /\ user \in MaybeLogin
    /\ access \in Tokens \cup {NoToken}
    /\ refresh \in MaybeLogin
    /\ stored \in MaybeLogin
    /\ boot \in {"none", "refresh", "me", "done"}
    /\ leaving \in MaybeLogin /\ served \in BOOLEAN
    /\ call \in [Requests -> [step : CallSteps, token : Tokens \cup {NoToken}, retried : BOOLEAN]]
    /\ leader \in Requests \cup {NoCall}
    /\ asked \in MaybeLogin
    /\ answer \in [state : {"none", "lookup", "no", "token"}, token : Tokens \cup {NoToken}]
    /\ revoked \in Seq(Logins)
    /\ suspended \in SUBSET Logins
    /\ issued \in Seq(Logins) /\ Len(issued) <= MaxTokens
    /\ expired \in 0 .. Len(issued)
    /\ loggedOut \in SUBSET Logins /\ left \in SUBSET Logins
    /\ crossed \in BOOLEAN /\ overtaken \in BOOLEAN

SessionInit ==
    /\ user = NoLogin /\ access = NoToken /\ refresh = NoLogin /\ stored = NoLogin
    /\ boot = "none" /\ leaving = NoLogin /\ served = FALSE
    /\ call = [q \in Requests |-> NoRequest]
    /\ leader = NoCall /\ asked = NoLogin /\ answer = NoAnswer
    /\ revoked = <<>> /\ suspended = {}
    /\ issued = <<>> /\ expired = 0
    /\ loggedOut = {} /\ left = {} /\ crossed = FALSE /\ overtaken = FALSE

Revoked == {revoked[i] : i \in 1 .. Len(revoked)}

SignedIn == {issued[i] : i \in DOMAIN issued}

Accepted(t) == t > expired

isAuthenticated == access # NoToken /\ user # NoLogin

\* An access token for l; past MaxTokens the model stops.
Issue(l) == Len(issued) < MaxTokens /\ issued' = Append(issued, l)

NextToken == Len(issued) + 1

setSession(l, t) == user' = l /\ access' = t /\ refresh' = l /\ stored' = l

\* Slip: the token in localStorage is kept.
clearSessionMemory == user' = NoLogin /\ access' = NoToken /\ refresh' = NoLogin /\ UNCHANGED stored

clearSession == user' = NoLogin /\ access' = NoToken /\ refresh' = NoLogin /\ stored' = NoLogin

Crossing == crossed' = (crossed \/ leader # NoCall)

-----------------------------------------------------------------------------
(* Signing in and out. *)

\* A guest signs in, by password or code; each time with a new refresh token.
SignIn(l) ==
    /\ boot = "done" /\ ~ isAuthenticated
    /\ l = Cardinality(SignedIn) + 1
    /\ Issue(l)
    /\ setSession(l, NextToken)
    /\ Crossing
    /\ UNCHANGED <<boot, leaving, served, call, leader, asked, answer, revoked, suspended, expired,
                   loggedOut, left, overtaken>>

LogoutSend ==
    /\ boot = "done" /\ isAuthenticated /\ leaving = NoLogin
    /\ leaving' = refresh /\ served' = FALSE
    /\ UNCHANGED <<authStore, boot, call, leader, asked, answer, authServer, aux>>

\* Slip: the newest entry is dropped when the blacklist is full.
LogoutServeDrop ==
    /\ leaving # NoLogin /\ ~ served
    /\ served' = TRUE
    /\ revoked' = IF leaving \in Revoked \/ Len(revoked) = MaxRevoked
                  THEN revoked ELSE Append(revoked, leaving)
    /\ loggedOut' = loggedOut \cup {leaving}
    /\ overtaken' = (overtaken \/ (answer.state = "lookup" /\ asked = leaving))
    /\ UNCHANGED <<authStore, boot, leaving, call, leader, asked, answer, suspended, issued, expired,
                   left, crossed>>

\* The server's logout: past the limit the oldest entry goes.
LogoutServe ==
    LET full == leaving \notin Revoked /\ Len(revoked) = MaxRevoked IN
    /\ leaving # NoLogin /\ ~ served
    /\ served' = TRUE
    /\ revoked' = CASE leaving \in Revoked -> revoked
                    [] full -> Append(Tail(revoked), leaving)
                    [] OTHER -> Append(revoked, leaving)
    /\ loggedOut' = loggedOut \cup {leaving}
    /\ overtaken' = (overtaken \/ full \/ (answer.state = "lookup" /\ asked = leaving))
    /\ UNCHANGED <<authStore, boot, leaving, call, leader, asked, answer, suspended, issued, expired,
                   left, crossed>>

\* The answer, or an error, which is ignored.
LogoutEnd ==
    /\ leaving # NoLogin
    /\ clearSession
    /\ leaving' = NoLogin /\ served' = FALSE
    /\ left' = left \cup {leaving}
    /\ Crossing
    /\ UNCHANGED <<boot, call, leader, asked, answer, authServer, loggedOut, overtaken>>

-----------------------------------------------------------------------------
(* Requests and the interceptor. *)

Call(q, step, t, retried) ==
    call' = [call EXCEPT ![q] = [step |-> step, token |-> t, retried |-> retried]]

Send(q) ==
    /\ boot = "done" /\ call[q] = NoRequest
    /\ Call(q, "sent", access, FALSE)
    /\ UNCHANGED <<authStore, boot, leaving, served, leader, asked, answer, authServer, aux>>

\* requireAuth; whatever else the answer is, the request is over.
ServeRequest(q) ==
    /\ call[q].step = "sent"
    /\ IF Accepted(call[q].token) THEN call' = [call EXCEPT ![q] = NoRequest]
       ELSE call' = [call EXCEPT ![q].step = "refused"]
    /\ UNCHANGED <<authStore, boot, leaving, served, leader, asked, answer, authServer, aux>>

\* A 401: the second one of a request is final.
RefusedAgain(q) ==
    /\ call[q].step = "refused" /\ call[q].retried
    /\ call' = [call EXCEPT ![q] = NoRequest]
    /\ UNCHANGED <<authStore, boot, leaving, served, leader, asked, answer, authServer, aux>>

RefusedQueue(q) ==
    /\ call[q].step = "refused" /\ ~ call[q].retried
    /\ leader # NoCall
    /\ call' = [call EXCEPT ![q].step = "queued", ![q].retried = TRUE]
    /\ UNCHANGED <<authStore, boot, leaving, served, leader, asked, answer, authServer, aux>>

RefusedNoRefresh(q) ==
    /\ call[q].step = "refused" /\ ~ call[q].retried
    /\ leader = NoCall /\ refresh = NoLogin
    /\ call' = [call EXCEPT ![q] = NoRequest]
    /\ clearSession
    /\ UNCHANGED <<boot, leaving, served, leader, asked, answer, authServer, aux>>

RefusedRefresh(q) ==
    /\ call[q].step = "refused" /\ ~ call[q].retried
    /\ leader = NoCall /\ refresh # NoLogin
    /\ leader' = q /\ asked' = refresh
    /\ call' = [call EXCEPT ![q].step = "queued", ![q].retried = TRUE]
    /\ UNCHANGED <<authStore, boot, leaving, served, answer, authServer, aux>>

\* The server's refresh: the blacklist first,
RefreshCheck ==
    /\ leader # NoCall /\ answer = NoAnswer
    /\ answer' = Answer(IF asked \in Revoked THEN "no" ELSE "lookup", NoToken)
    /\ UNCHANGED <<client, authServer, aux>>

\* then the user, and the token is signed at once.
RefreshSign ==
    /\ leader # NoCall /\ answer.state = "lookup"
    /\ IF asked \in suspended
       THEN answer' = Answer("no", NoToken) /\ UNCHANGED issued
       ELSE Issue(asked) /\ answer' = Answer("token", NextToken)
    /\ UNCHANGED <<client, revoked, suspended, expired, aux>>

Waiting == {q \in Requests : call[q].step = "queued"}

\* onRefreshed, then everybody who waits is sent again.
RefreshDone ==
    /\ leader # NoCall /\ answer.state = "token"
    /\ access' = answer.token /\ refresh' = asked /\ stored' = asked
    /\ call' = [q \in Requests |-> IF q \in Waiting
                                   THEN [step |-> "sent", token |-> answer.token, retried |-> TRUE]
                                   ELSE call[q]]
    /\ leader' = NoCall /\ asked' = NoLogin /\ answer' = NoAnswer
    /\ UNCHANGED <<user, boot, leaving, served, authServer, aux>>

\* Slip: those who wait are forgotten.
RefreshFailedForget ==
    /\ leader # NoCall
    /\ clearSession
    /\ call' = [call EXCEPT ![leader] = NoRequest]
    /\ leader' = NoCall /\ asked' = NoLogin /\ answer' = NoAnswer
    /\ UNCHANGED <<boot, leaving, served, authServer, aux>>

\* The server refuses, or the answer does not come in time: everybody who waits
\* is turned away and the session is cleared.
RefreshFailed ==
    /\ leader # NoCall
    /\ clearSession
    /\ call' = [q \in Requests |-> IF q \in Waiting THEN NoRequest ELSE call[q]]
    /\ leader' = NoCall /\ asked' = NoLogin /\ answer' = NoAnswer
    /\ UNCHANGED <<boot, leaving, served, authServer, aux>>

-----------------------------------------------------------------------------
(* Loading the page. *)

\* Everything in memory is gone; a request the server has not seen is lost.
Reload ==
    /\ user' = NoLogin /\ access' = NoToken /\ refresh' = NoLogin /\ UNCHANGED stored
    /\ boot' = "none" /\ leaving' = NoLogin /\ served' = FALSE
    /\ call' = [q \in Requests |-> NoRequest]
    /\ leader' = NoCall /\ asked' = NoLogin /\ answer' = NoAnswer
    /\ UNCHANGED <<authServer, aux>>

\* restore(), which the router waits for.
Restore ==
    /\ boot = "none"
    /\ boot' = IF stored = NoLogin THEN "done" ELSE "refresh"
    /\ refresh' = stored
    /\ UNCHANGED <<user, access, stored, leaving, served, call, leader, asked, answer, authServer, aux>>

RestoreRefresh ==
    /\ boot = "refresh"
    /\ refresh \notin Revoked \cup suspended
    /\ Issue(refresh)
    /\ access' = NextToken
    /\ boot' = "me"
    /\ UNCHANGED <<user, refresh, stored, leaving, served, call, leader, asked, answer, revoked,
                   suspended, expired, aux>>

RestoreMe ==
    /\ boot = "me" /\ Accepted(access)
    /\ user' = issued[access]
    /\ boot' = "done"
    /\ UNCHANGED <<access, refresh, stored, leaving, served, call, leader, asked, answer, authServer, aux>>

\* Either request refused or unanswered.
RestoreFailed ==
    /\ boot \in {"refresh", "me"}
    /\ clearSession
    /\ boot' = "done"
    /\ UNCHANGED <<leaving, served, call, leader, asked, answer, authServer, aux>>

-----------------------------------------------------------------------------
(* The server's surroundings. *)

ExpireAccess ==
    /\ expired < Len(issued)
    /\ expired' = expired + 1
    /\ UNCHANGED <<client, answer, revoked, suspended, issued, aux>>

Suspend(l) ==
    /\ l \in SignedIn \ suspended
    /\ suspended' = suspended \cup {l}
    /\ UNCHANGED <<client, answer, revoked, issued, expired, aux>>

\* The blacklist is in memory.
Restart ==
    /\ revoked # <<>>
    /\ revoked' = <<>>
    /\ overtaken' = TRUE
    /\ UNCHANGED <<client, answer, suspended, issued, expired, loggedOut, left, crossed>>

Handle(q) == ServeRequest(q) \/ RefusedAgain(q) \/ RefusedQueue(q) \/ RefusedNoRefresh(q) \/ RefusedRefresh(q)

RefreshSteps == RefreshCheck \/ RefreshSign \/ RefreshDone \/ RefreshFailed

RestoreSteps == Restore \/ RestoreRefresh \/ RestoreMe \/ RestoreFailed

Environment ==
    \/ Reload \/ Restart \/ ExpireAccess
    \/ \E l \in Logins : Suspend(l)

SessionNext ==
    \/ \E l \in Logins : SignIn(l)
    \/ LogoutSend \/ LogoutServe \/ LogoutEnd
    \/ \E q \in Requests : Send(q) \/ Handle(q)
    \/ RefreshSteps \/ RestoreSteps \/ Environment

SessionSpec == SessionInit /\ [][SessionNext]_sessionVars

\* Every request gets its answer or times out (15 s), and the tab runs the
\* handlers of what has come.
SessionFairness ==
    /\ \A q \in Requests : WF_sessionVars(Handle(q))
    /\ WF_sessionVars(RefreshSteps) /\ WF_sessionVars(RestoreSteps) /\ WF_sessionVars(LogoutEnd)

SessionFairSpec == SessionSpec /\ SessionFairness

-----------------------------------------------------------------------------
(* Properties                                                                *)

\* Whoever has signed out in this tab is not signed in again by a reload, even
\* if the server never heard of it (logout, restore), unless the session changed
\* while a refresh was under way: its answer stores the token again.
LeftStaysOut == user \in left => crossed

\* A request waits for a refresh only as long as one is under way
\* (pendingQueue, isRefreshing): nobody is left in the queue.
WaitersHaveALeader == Waiting # {} <=> leader \in Waiting

\* Every request of a page is answered or rejected, however often tokens
\* expire meanwhile.
CallsEnd == \A q \in Requests : call[q].step # "idle" ~> call[q].step = "idle"

\* Once the server has handled the logout of a session, refreshing it yields no
\* access token, as long as the blacklist has kept the entry (logout, refresh).
LogoutEndsSession ==
    [][issued' # issued => issued'[NextToken] \notin loggedOut \/ overtaken]_sessionVars

=============================================================================
