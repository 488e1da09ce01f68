---------------------------- MODULE Client_proofs ----------------------------
(***************************************************************************)
(* What a browser tab promises, proved for any number of requests, logins, *)
(* tokens, groups, rounds and chains: its session (Session) and two of its *)
(* pages (SettingsPage, CyclesPage).  No two of them share a variable.     *)
(***************************************************************************)
EXTENDS Session, CyclesPage, SettingsPage, FiniteSetTheorems, TLAPS

-----------------------------------------------------------------------------
(* The session.                                                              *)

\* Nothing is sent before restore() has come to its end; it asks with the token
\* that was stored and then for the user of the access token it was given.
Booting ==
    /\ boot # "done" => leader = NoCall /\ leaving = NoLogin /\ \A q \in Requests : call[q] = NoRequest
    /\ boot \in {"refresh", "me"} => refresh # NoLogin
    /\ boot = "me" => access \in 1 .. Len(issued) /\ issued[access] = refresh

\* Only the one who refreshes has sent a token, and only his has an answer.
Refreshing == IF leader = NoCall THEN answer = NoAnswer /\ asked = NoLogin ELSE asked # NoLogin

SessionInv == SessionTypeOK /\ Booting /\ Refreshing

LEMMA SessionInvInit == SessionInit => SessionInv
<1> SUFFICES ASSUME SessionInit PROVE SessionInv
  OBVIOUS
<1>1. call \in [Requests -> [step : CallSteps, token : Tokens \cup {NoToken}, retried : BOOLEAN]]
  BY DEF SessionInit, NoRequest, CallSteps
<1>2. answer \in [state : {"none", "lookup", "no", "token"}, token : Tokens \cup {NoToken}]
  BY DEF SessionInit, NoAnswer, Answer
<1>3. Len(issued) <= MaxTokens /\ revoked \in Seq(Logins) /\ issued \in Seq(Logins) /\ expired \in 0 .. Len(issued)
  BY SessionAssumption DEF SessionInit
<1>4. SessionTypeOK
  BY <1>1, <1>2, <1>3 DEF SessionInit, SessionTypeOK, MaybeLogin
<1> QED
  BY <1>4 DEF SessionInit, SessionInv, Booting, Refreshing

\* A token that is issued is the next one, and the ones before keep their login.
LEMMA IssueType ==
    ASSUME SessionTypeOK, NEW l \in Logins, Issue(l)
    PROVE  /\ issued' \in Seq(Logins) /\ Len(issued') = Len(issued) + 1 /\ Len(issued') <= MaxTokens
           /\ NextToken \in Tokens /\ NextToken = Len(issued') /\ issued'[NextToken] = l
           /\ \A t \in 1 .. Len(issued) : issued'[t] = issued[t]
  BY SessionAssumption DEF Issue, SessionTypeOK, NextToken, Tokens

\* The blacklist holds logins, and whoever is put on it is on it.
LEMMA BlacklistType ==
    ASSUME SessionTypeOK, LogoutServe
    PROVE  /\ revoked' \in Seq(Logins) /\ leaving \in Logins /\ leaving \in Revoked'
           /\ overtaken' \/ Revoked \subseteq Revoked'
<1>1. leaving \in Logins /\ revoked \in Seq(Logins)
  BY DEF LogoutServe, SessionTypeOK, MaybeLogin
<1>2. CASE leaving \in Revoked
  <2>1. revoked' = revoked
    BY <1>2 DEF LogoutServe
  <2> QED
    BY <1>1, <1>2, <2>1 DEF Revoked
<1>3. CASE leaving \notin Revoked /\ Len(revoked) = MaxRevoked
  <2>1. revoked' = Append(Tail(revoked), leaving) /\ overtaken'
    BY <1>3 DEF LogoutServe
  <2>2. revoked # <<>> /\ Tail(revoked) \in Seq(Logins)
    BY <1>1, <1>3, SessionAssumption
  <2>3. revoked' \in Seq(Logins) /\ Len(revoked') \in 1 .. Len(revoked') /\ revoked'[Len(revoked')] = leaving
    BY <1>1, <2>1, <2>2
  <2> QED
    BY <1>1, <2>1, <2>3 DEF Revoked
<1>4. CASE leaving \notin Revoked /\ Len(revoked) # MaxRevoked
  <2>1. revoked' = Append(revoked, leaving)
    BY <1>4 DEF LogoutServe
  <2>2. /\ revoked' \in Seq(Logins) /\ Len(revoked') = Len(revoked) + 1
        /\ revoked'[Len(revoked')] = leaving /\ Len(revoked) \in Nat
        /\ \A i \in 1 .. Len(revoked) : revoked'[i] = revoked[i]
    BY <1>1, <2>1
  <2> QED
    BY <1>1, <2>2 DEF Revoked
<1> QED
  BY <1>2, <1>3, <1>4

\* What a step of a request leaves it with.
LEMMA CallType ==
    ASSUME SessionTypeOK, NEW q \in Requests, NEW step \in CallSteps,
           NEW t \in Tokens \cup {NoToken}, NEW b \in BOOLEAN, Call(q, step, t, b)
    PROVE  call' \in [Requests -> [step : CallSteps, token : Tokens \cup {NoToken}, retried : BOOLEAN]]
  BY DEF Call, SessionTypeOK

LEMMA SessionInvNext == SessionInv /\ [SessionNext]_sessionVars => SessionInv'
<1> SUFFICES ASSUME SessionInv, [SessionNext]_sessionVars PROVE SessionInv'
  OBVIOUS
<1> USE DEF SessionInv
<1>c. /\ NoRequest \in [step : CallSteps, token : Tokens \cup {NoToken}, retried : BOOLEAN]
      /\ NoAnswer \in [state : {"none", "lookup", "no", "token"}, token : Tokens \cup {NoToken}]
      /\ NoLogin \in MaybeLogin /\ Logins \subseteq MaybeLogin /\ NoLogin \notin Logins
  BY DEF NoRequest, NoAnswer, Answer, CallSteps, MaybeLogin, NoLogin, Logins
<1>1. CASE UNCHANGED sessionVars
  BY <1>1 DEF sessionVars, client, authStore, authServer, aux, SessionTypeOK, Booting, Refreshing
<1>2. ASSUME NEW l \in Logins, SignIn(l) PROVE SessionInv'
  <2>1. Issue(l)
    BY <1>2 DEF SignIn
  <2>2. /\ issued' \in Seq(Logins) /\ Len(issued') <= MaxTokens /\ NextToken \in Tokens
        /\ expired' \in 0 .. Len(issued')
    BY <1>2, <2>1, IssueType DEF SignIn, SessionTypeOK
  <2>3. SessionTypeOK'
    BY <1>2, <1>c, <2>2 DEF SignIn, setSession, Crossing, SessionTypeOK
  <2> QED
    BY <1>2, <2>3 DEF SignIn, Booting, Refreshing
<1>3. CASE LogoutSend
  BY <1>3 DEF LogoutSend, authStore, authServer, aux, SessionTypeOK, Booting, Refreshing
<1>4. CASE LogoutServe
  BY <1>4, BlacklistType DEF LogoutServe, authStore, SessionTypeOK, Booting, Refreshing
<1>5. CASE LogoutEnd
  BY <1>5, <1>c DEF LogoutEnd, clearSession, Crossing, authServer, SessionTypeOK, Booting, Refreshing, MaybeLogin
<1>6. ASSUME NEW q \in Requests, Send(q) PROVE SessionInv'
  <2>1. call' \in [Requests -> [step : CallSteps, token : Tokens \cup {NoToken}, retried : BOOLEAN]]
    BY <1>6, CallType DEF Send, CallSteps, SessionTypeOK
  <2> QED
    BY <1>6, <2>1 DEF Send, authStore, authServer, aux, SessionTypeOK, Booting, Refreshing
<1>7. ASSUME NEW q \in Requests, Handle(q) PROVE SessionInv'
  <2>1. CASE ServeRequest(q)
    <3>1. boot = "done"
      BY <2>1 DEF ServeRequest, NoRequest, Booting
    <3>2. call' \in [Requests -> [step : CallSteps, token : Tokens \cup {NoToken}, retried : BOOLEAN]]
      <4>1. CASE Accepted(call[q].token)
        BY <1>c, <2>1, <4>1 DEF ServeRequest, SessionTypeOK
      <4>2. CASE ~ Accepted(call[q].token)
        BY <2>1, <4>2 DEF ServeRequest, CallSteps, SessionTypeOK
      <4> QED
        BY <4>1, <4>2
    <3> QED
      BY <2>1, <3>1, <3>2 DEF ServeRequest, authStore, authServer, aux, SessionTypeOK, Booting, Refreshing
  <2>2. CASE RefusedAgain(q)
    BY <1>c, <2>2 DEF RefusedAgain, authStore, authServer, aux, SessionTypeOK, Booting, Refreshing
  <2>3. CASE RefusedQueue(q)
    BY <2>3 DEF RefusedQueue, CallSteps, authStore, authServer, aux, SessionTypeOK, Booting, Refreshing
  <2>4. CASE RefusedNoRefresh(q)
    BY <1>c, <2>4 DEF RefusedNoRefresh, clearSession, NoRequest, authServer, aux, SessionTypeOK, Booting, Refreshing
  <2>5. CASE RefusedRefresh(q)
    BY <2>5, SessionAssumption DEF RefusedRefresh, NoRequest, CallSteps, authStore, authServer, aux, SessionTypeOK, Booting, Refreshing
  <2> QED
    BY <1>7, <2>1, <2>2, <2>3, <2>4, <2>5 DEF Handle
<1>8. CASE RefreshCheck
  BY <1>8 DEF RefreshCheck, Answer, client, authStore, authServer, aux, SessionTypeOK, Booting, Refreshing
<1>9. CASE RefreshSign
  <2>1. asked \in Logins /\ boot = "done" /\ leader # NoCall
    BY <1>9 DEF RefreshSign, SessionTypeOK, Booting, Refreshing, MaybeLogin
  <2>2. CASE asked \in suspended
    BY <1>9, <2>1, <2>2 DEF RefreshSign, Answer, client, authStore, aux, SessionTypeOK, Booting, Refreshing
  <2>3. CASE asked \notin suspended
    <3>1. Issue(asked)
      BY <1>9, <2>3 DEF RefreshSign
    <3> QED
      BY <1>9, <2>1, <2>3, <3>1, IssueType DEF RefreshSign, Answer, client, authStore, aux, SessionTypeOK, Booting, Refreshing
  <2> QED
    BY <2>2, <2>3
<1>10. CASE RefreshDone
  BY <1>10, <1>c DEF RefreshDone, CallSteps, authServer, aux, SessionTypeOK, Booting, Refreshing
<1>11. CASE RefreshFailed
  BY <1>11, <1>c DEF RefreshFailed, clearSession, authServer, aux, SessionTypeOK, Booting, Refreshing
<1>12. CASE Restore
  BY <1>12 DEF Restore, authServer, aux, SessionTypeOK, Booting, Refreshing
<1>13. CASE RestoreRefresh
  <2>1. refresh \in Logins /\ Issue(refresh)
    BY <1>13 DEF RestoreRefresh, SessionTypeOK, Booting, MaybeLogin
  <2> QED
    BY <1>13, <2>1, IssueType DEF RestoreRefresh, aux, SessionTypeOK, Booting, Refreshing
<1>14. CASE RestoreMe
  BY <1>14 DEF RestoreMe, authServer, aux, SessionTypeOK, Booting, Refreshing
<1>15. CASE RestoreFailed
  BY <1>15, <1>c DEF RestoreFailed, clearSession, authServer, aux, SessionTypeOK, Booting, Refreshing
<1>16. CASE Reload
  BY <1>16, <1>c DEF Reload, authServer, aux, SessionTypeOK, Booting, Refreshing
<1>17. CASE Restart
  BY <1>17 DEF Restart, client, authStore, SessionTypeOK, Booting, Refreshing
<1>18. CASE ExpireAccess
  BY <1>18 DEF ExpireAccess, client, authStore, aux, SessionTypeOK, Booting, Refreshing
<1>19. ASSUME NEW l \in Logins, Suspend(l) PROVE SessionInv'
  BY <1>19 DEF Suspend, client, authStore, aux, SessionTypeOK, Booting, Refreshing
<1> QED
  BY <1>1, <1>2, <1>3, <1>4, <1>5, <1>6, <1>7, <1>8, <1>9, <1>10, <1>11, <1>12, <1>13, <1>14, <1>15, <1>16,
     <1>17, <1>18, <1>19 DEF SessionNext, RefreshSteps, RestoreSteps, Environment

\* The stores of the tab and the server keep their types, whatever reloads,
\* expirations, suspensions, restarts and answers cross.
THEOREM SessionTypeCorrect == SessionSpec => []SessionTypeOK
<1>1. SessionSpec => []SessionInv
  BY SessionInvInit, SessionInvNext, PTL DEF SessionSpec
<1> QED
  BY <1>1, PTL DEF SessionInv

-----------------------------------------------------------------------------
(* The queue of the interceptor. *)

\* Whoever refreshes waits with the others, and nobody waits for nothing.
Queueing ==
    /\ leader # NoCall => leader \in Waiting
    /\ leader = NoCall => Waiting = {}

\* A step that moves neither the requests nor the refresh.
LEMMA QueueStays == Queueing /\ UNCHANGED <<call, leader>> => Queueing'
  BY DEF Queueing, Waiting

LEMMA QueueingNext == SessionInv /\ Queueing /\ [SessionNext]_sessionVars => Queueing'
<1> SUFFICES ASSUME SessionInv, Queueing, [SessionNext]_sessionVars PROVE Queueing'
  OBVIOUS
<1> USE DEF NoRequest
<1>t. call \in [Requests -> [step : CallSteps, token : Tokens \cup {NoToken}, retried : BOOLEAN]]
  BY DEF SessionInv, SessionTypeOK
<1>1. ASSUME NEW q \in Requests, Send(q) PROVE Queueing'
  BY <1>1, <1>t DEF Send, Call, Queueing, Waiting
<1>2. ASSUME NEW q \in Requests, Handle(q) PROVE Queueing'
  <2>1. CASE ServeRequest(q)
    <3>1. leader' = leader /\ call[q].step # "queued"
      BY <2>1 DEF ServeRequest
    <3>2. call'[q].step # "queued" /\ \A r \in Requests \ {q} : call'[r] = call[r]
      BY <1>t, <2>1 DEF ServeRequest
    <3> QED
      BY <3>1, <3>2 DEF Queueing, Waiting
  <2>2. CASE RefusedAgain(q)
    BY <1>t, <2>2 DEF RefusedAgain, Queueing, Waiting
  <2>3. CASE RefusedQueue(q)
    BY <1>t, <2>3 DEF RefusedQueue, Queueing, Waiting
  <2>4. CASE RefusedNoRefresh(q)
    BY <1>t, <2>4 DEF RefusedNoRefresh, Queueing, Waiting
  <2>5. CASE RefusedRefresh(q)
    BY <1>t, <2>5, SessionAssumption DEF RefusedRefresh, Queueing, Waiting
  <2> QED
    BY <1>2, <2>1, <2>2, <2>3, <2>4, <2>5 DEF Handle
<1>3. CASE RefreshDone
  BY <1>3 DEF RefreshDone, Queueing, Waiting
<1>4. CASE RefreshFailed
  BY <1>4 DEF RefreshFailed, Queueing, Waiting
<1>5. CASE Reload
  BY <1>5 DEF Reload, Queueing, Waiting
<1>6. CASE \/ UNCHANGED sessionVars \/ LogoutSend \/ LogoutServe \/ LogoutEnd \/ RefreshCheck \/ RefreshSign
           \/ RestoreSteps \/ Restart \/ ExpireAccess
           \/ \E l \in Logins : SignIn(l) \/ Suspend(l)
  <2>1. UNCHANGED <<call, leader>>
    BY <1>6 DEF sessionVars, client, LogoutSend, LogoutServe, LogoutEnd, RefreshCheck, RefreshSign, RestoreSteps,
       Restore, RestoreRefresh, RestoreMe, RestoreFailed, Restart, ExpireAccess, SignIn, Suspend
  <2> QED
    BY <2>1, QueueStays
<1> QED
  BY <1>1, <1>2, <1>3, <1>4, <1>5, <1>6 DEF SessionNext, RefreshSteps, Environment

\* A request waits for a refresh only while one is under way that will answer or
\* reject it, in whatever order 401s, reloads and refreshes cross (pendingQueue
\* and isRefreshing of the interceptor).
THEOREM NobodyIsLeftInTheQueue == SessionSpec => []WaitersHaveALeader
<1>1. SessionInit => Queueing
  BY DEF SessionInit, Queueing, Waiting, NoRequest
<1>2. Queueing => WaitersHaveALeader
  BY DEF Queueing, WaitersHaveALeader, Waiting
<1> QED
  BY <1>1, <1>2, SessionInvInit, SessionInvNext, QueueingNext, PTL DEF SessionSpec

-----------------------------------------------------------------------------
(* Who has signed in, and who is out again. *)

\* Logins are taken one after the other, and only one that has signed in is in
\* a store, on its way to the server, or out.
SessionsOpened ==
    /\ SignedIn = 1 .. Cardinality(SignedIn) /\ Cardinality(SignedIn) \in Nat
    /\ {user, stored, refresh, asked, leaving} \subseteq SignedIn \cup {NoLogin}
    /\ loggedOut \cup left \subseteq SignedIn

\* As long as no session changed under a refresh, whoever has left is nowhere
\* in the tab.
LeftIsGone == ~ crossed => {user, stored, refresh, asked} \cap left = {}

\* As long as the blacklist has kept what it was given, it holds whoever has
\* logged out, and no refresh that passed it is for one of them.
OutIsBarred ==
    ~ overtaken => loggedOut \subseteq Revoked /\ (answer.state = "lookup" => asked \notin loggedOut)

AccountsInv == SessionsOpened /\ LeftIsGone /\ OutIsBarred

\* A token of somebody who has one opens no session; the first one of the next
\* login does.
LEMMA IssueAdds ==
    ASSUME SessionTypeOK, NEW l \in Logins, Issue(l)
    PROVE  SignedIn' = SignedIn \cup {l}
<1>1. /\ DOMAIN issued = 1 .. Len(issued) /\ DOMAIN issued' = 1 .. Len(issued') /\ Len(issued) \in Nat
      /\ Len(issued') = Len(issued) + 1 /\ issued'[Len(issued')] = l
      /\ \A t \in 1 .. Len(issued) : issued'[t] = issued[t]
  BY IssueType DEF SessionTypeOK
<1> QED
  BY <1>1 DEF SignedIn

LEMMA NextLoginIsNew ==
    ASSUME SessionsOpened
    PROVE  /\ Cardinality(SignedIn) + 1 \notin SignedIn
           /\ SignedIn \cup {Cardinality(SignedIn) + 1} = 1 .. (Cardinality(SignedIn) + 1)
           /\ Cardinality(1 .. (Cardinality(SignedIn) + 1)) = Cardinality(SignedIn) + 1
<1> DEFINE n == Cardinality(SignedIn)
<1>1. SignedIn = 1 .. n /\ n \in Nat
  BY DEF SessionsOpened
<1> HIDE DEF n
<1>2. n + 1 \notin SignedIn /\ SignedIn \cup {n + 1} = 1 .. (n + 1) /\ n + 1 >= 0 /\ n + 1 \in Int
  BY <1>1
<1>3. Cardinality(1 .. (n + 1)) = n + 1
  BY <1>2, FS_Interval
<1> QED
  BY <1>2, <1>3 DEF n

\* A step that issues no token to anybody new.
LEMMA AccountsKept ==
    ASSUME AccountsInv, SignedIn' = SignedIn,
           {user', stored', refresh', asked', leaving'} \subseteq {user, stored, refresh, asked, leaving, NoLogin},
           {user', stored', refresh', asked'} \subseteq {user, stored, refresh, asked, NoLogin},
           UNCHANGED <<loggedOut, left>>, crossed => crossed', overtaken => overtaken',
           Revoked \subseteq Revoked',
           answer'.state = "lookup" => (answer.state = "lookup" /\ asked' = asked)
                                       \/ asked' \notin loggedOut
    PROVE  AccountsInv'
<1>1. NoLogin \notin left
  BY DEF AccountsInv, SessionsOpened, NoLogin
<1>2. SessionsOpened'
  BY DEF AccountsInv, SessionsOpened
<1>3. LeftIsGone'
  BY <1>1 DEF AccountsInv, LeftIsGone
<1>4. OutIsBarred'
  BY DEF AccountsInv, OutIsBarred
<1> QED
  BY <1>2, <1>3, <1>4 DEF AccountsInv

\* The logins of the store and the tab.
LEMMA LoginTypes ==
    ASSUME SessionInv, AccountsInv
    PROVE  /\ left \subseteq SignedIn /\ loggedOut \subseteq SignedIn /\ NoLogin \notin SignedIn
           /\ answer.state = "lookup" => asked \in SignedIn
           /\ boot \in {"refresh", "me"} => refresh \in SignedIn
  BY DEF SessionInv, Booting, Refreshing, AccountsInv, SessionsOpened, NoLogin, NoAnswer, Answer

LEMMA AccountsNext == SessionInv /\ AccountsInv /\ [SessionNext]_sessionVars => AccountsInv'
<1> SUFFICES ASSUME SessionInv, AccountsInv, [SessionNext]_sessionVars PROVE AccountsInv'
  OBVIOUS
<1>t. SessionTypeOK
  BY DEF SessionInv
<1>1. ASSUME NEW l \in Logins, SignIn(l) PROVE AccountsInv'
  <2>1. Issue(l) /\ l = Cardinality(SignedIn) + 1
    BY <1>1 DEF SignIn
  <2>2. SignedIn' = SignedIn \cup {l}
    BY <1>t, <2>1, IssueAdds
  <2>3. l \notin SignedIn /\ SignedIn' = 1 .. l /\ Cardinality(SignedIn') = l /\ l \in Nat
    <3>1. /\ SessionsOpened /\ l \notin SignedIn /\ SignedIn \cup {l} = 1 .. l /\ Cardinality(1 .. l) = l
      BY <2>1, NextLoginIsNew DEF AccountsInv
    <3>2. l \in Nat
      BY <2>1, <3>1 DEF SessionsOpened
    <3> QED
      BY <2>2, <3>1, <3>2
  <2>4. SessionsOpened'
    BY <1>1, <2>2, <2>3 DEF SignIn, setSession, AccountsInv, SessionsOpened
  <2>5. l \notin left /\ l \notin loggedOut
    BY <2>3, LoginTypes
  <2>6. LeftIsGone'
    BY <1>1, <2>5, LoginTypes DEF SignIn, setSession, Crossing, AccountsInv, LeftIsGone, SessionInv, Refreshing
  <2>7. OutIsBarred'
    BY <1>1 DEF SignIn, AccountsInv, OutIsBarred, Revoked
  <2> QED
    BY <2>4, <2>6, <2>7 DEF AccountsInv
<1>2. CASE LogoutServe
  <2>1. leaving \in SignedIn
    BY <1>2 DEF LogoutServe, AccountsInv, SessionsOpened
  <2>2. SignedIn' = SignedIn
    BY <1>2 DEF LogoutServe, SignedIn
  <2>3. SessionsOpened'
    BY <1>2, <2>1, <2>2 DEF LogoutServe, authStore, AccountsInv, SessionsOpened
  <2>4. LeftIsGone'
    BY <1>2 DEF LogoutServe, authStore, AccountsInv, LeftIsGone
  <2>5. OutIsBarred'
    BY <1>2, <1>t, BlacklistType DEF LogoutServe, AccountsInv, OutIsBarred
  <2> QED
    BY <2>3, <2>4, <2>5 DEF AccountsInv
<1>3. CASE LogoutEnd
  <2>1. SignedIn' = SignedIn /\ Revoked' = Revoked
    BY <1>3 DEF LogoutEnd, authServer, SignedIn, Revoked
  <2>2. SessionsOpened'
    BY <1>3, <2>1 DEF LogoutEnd, clearSession, AccountsInv, SessionsOpened
  <2>3. LeftIsGone'
    BY <1>3, LoginTypes DEF LogoutEnd, clearSession, Crossing, AccountsInv, SessionsOpened, LeftIsGone, SessionInv, Refreshing
  <2>4. OutIsBarred'
    BY <1>3, <2>1 DEF LogoutEnd, AccountsInv, OutIsBarred
  <2> QED
    BY <2>2, <2>3, <2>4 DEF AccountsInv
<1>4. CASE RefreshSign
  <2>1. asked \in Logins /\ asked \in SignedIn
    BY <1>4, LoginTypes DEF RefreshSign, SessionInv, SessionTypeOK, MaybeLogin
  <2>2. SignedIn' = SignedIn
    <3>1. CASE asked \in suspended
      BY <1>4, <3>1 DEF RefreshSign, SignedIn
    <3>2. CASE asked \notin suspended
      BY <1>4, <1>t, <2>1, <3>2, IssueAdds DEF RefreshSign
    <3> QED
      BY <3>1, <3>2
  <2>3. answer'.state # "lookup"
    BY <1>4 DEF RefreshSign, Answer
  <2> QED
    BY <1>4, <2>2, <2>3, AccountsKept DEF RefreshSign, client, authStore, aux, Revoked
<1>5. CASE RestoreRefresh
  <2>1. refresh \in Logins /\ refresh \in SignedIn /\ Issue(refresh)
    BY <1>5, LoginTypes DEF RestoreRefresh, SessionInv, SessionTypeOK, MaybeLogin, Booting
  <2>2. SignedIn' = SignedIn
    BY <1>t, <2>1, IssueAdds
  <2> QED
    BY <1>5, <2>2, AccountsKept DEF RestoreRefresh, aux, Revoked
<1>6. CASE RestoreMe
  <2>1. SignedIn' = SignedIn /\ user' = refresh
    BY <1>6 DEF RestoreMe, authServer, SignedIn, SessionInv, Booting
  <2> QED
    BY <1>6, <2>1, AccountsKept DEF RestoreMe, authServer, aux, Revoked
<1>7. CASE RefreshCheck
  <2>1. SignedIn' = SignedIn /\ Revoked' = Revoked /\ UNCHANGED <<client, aux>>
    BY <1>7 DEF RefreshCheck, authServer, SignedIn, Revoked
  <2>2. answer'.state = "lookup" => asked \notin Revoked
    BY <1>7 DEF RefreshCheck, Answer
  <2>3. SessionsOpened' /\ LeftIsGone'
    BY <2>1 DEF client, authStore, aux, AccountsInv, SessionsOpened, LeftIsGone
  <2>4. OutIsBarred'
    BY <2>1, <2>2 DEF client, aux, AccountsInv, OutIsBarred
  <2> QED
    BY <2>3, <2>4 DEF AccountsInv
<1>8. CASE Restart
  <2>1. SignedIn' = SignedIn /\ overtaken'
    BY <1>8 DEF Restart, SignedIn
  <2> QED
    BY <1>8, <2>1 DEF Restart, client, authStore, AccountsInv, SessionsOpened, LeftIsGone, OutIsBarred
<1>9. CASE LogoutSend
  <2>1. SignedIn' = SignedIn
    BY <1>9 DEF LogoutSend, authServer, SignedIn
  <2> QED
    BY <1>9, <2>1, AccountsKept DEF LogoutSend, authStore, authServer, aux, Revoked
<1>10. CASE RefreshDone
  <2>1. SignedIn' = SignedIn /\ answer'.state # "lookup"
    BY <1>10 DEF RefreshDone, NoAnswer, Answer, authServer, SignedIn
  <2> QED
    BY <1>10, <2>1, AccountsKept DEF RefreshDone, authServer, aux, Revoked
<1>11. CASE RefreshFailed
  <2>1. SignedIn' = SignedIn /\ answer'.state # "lookup"
    BY <1>11 DEF RefreshFailed, NoAnswer, Answer, authServer, SignedIn
  <2> QED
    BY <1>11, <2>1, AccountsKept DEF RefreshFailed, clearSession, authServer, aux, Revoked
<1>12. CASE Reload
  <2>1. SignedIn' = SignedIn /\ answer'.state # "lookup"
    BY <1>12 DEF Reload, NoAnswer, Answer, authServer, SignedIn
  <2> QED
    BY <1>12, <2>1, AccountsKept DEF Reload, authServer, aux, Revoked
<1>13. CASE Restore
  <2>1. SignedIn' = SignedIn
    BY <1>13 DEF Restore, authServer, SignedIn
  <2> QED
    BY <1>13, <2>1, AccountsKept DEF Restore, authServer, aux, Revoked
<1>14. CASE RestoreFailed
  <2>1. SignedIn' = SignedIn
    BY <1>14 DEF RestoreFailed, authServer, SignedIn
  <2> QED
    BY <1>14, <2>1, AccountsKept DEF RestoreFailed, clearSession, authServer, aux, Revoked
<1>15. ASSUME NEW q \in Requests, Send(q) \/ Handle(q) PROVE AccountsInv'
  <2>1. SignedIn' = SignedIn /\ Revoked' = Revoked /\ UNCHANGED <<answer, leaving, aux>>
    BY <1>15 DEF Send, Handle, ServeRequest, RefusedAgain, RefusedQueue, RefusedNoRefresh, RefusedRefresh,
       authServer, SignedIn, Revoked
  <2>2. CASE RefusedRefresh(q)
    <3>1. answer.state # "lookup" /\ UNCHANGED authStore /\ asked' = refresh
      BY <2>2 DEF RefusedRefresh, SessionInv, Refreshing, NoAnswer, Answer
    <3> QED
      BY <2>1, <3>1, AccountsKept DEF authStore, aux
  <2>3. CASE RefusedNoRefresh(q)
    BY <2>1, <2>3, AccountsKept DEF RefusedNoRefresh, clearSession, aux
  <2>4. CASE Send(q) \/ ServeRequest(q) \/ RefusedAgain(q) \/ RefusedQueue(q)
    <3>1. UNCHANGED <<authStore, asked>>
      BY <2>4 DEF Send, ServeRequest, RefusedAgain, RefusedQueue
    <3> QED
      BY <2>1, <3>1, AccountsKept DEF authStore, aux
  <2> QED
    BY <1>15, <2>2, <2>3, <2>4 DEF Handle
<1>16. CASE UNCHANGED sessionVars \/ ExpireAccess \/ \E l \in Logins : Suspend(l)
  <2>1. SignedIn' = SignedIn /\ UNCHANGED <<client, answer, aux, revoked>>
    BY <1>16 DEF sessionVars, ExpireAccess, Suspend, authServer, SignedIn
  <2> QED
    BY <2>1, AccountsKept DEF client, authStore, aux, Revoked
<1> QED
  BY <1>1, <1>2, <1>3, <1>4, <1>5, <1>6, <1>7, <1>8, <1>9, <1>10, <1>11, <1>12, <1>13, <1>14, <1>15, <1>16
  DEF SessionNext, RefreshSteps, RestoreSteps, Environment

LEMMA AccountsInit == SessionInit => AccountsInv
<1> SUFFICES ASSUME SessionInit PROVE AccountsInv
  OBVIOUS
<1>1. SignedIn = {} /\ SignedIn = 1 .. 0
  BY DEF SessionInit, SignedIn
<1>2. Cardinality(SignedIn) = 0
  BY <1>1, FS_EmptySet
<1>3. SessionsOpened
  BY <1>1, <1>2 DEF SessionInit, SessionsOpened
<1> QED
  BY <1>3 DEF SessionInit, AccountsInv, LeftIsGone, OutIsBarred, NoAnswer, Answer

LEMMA SessionHolds == SessionSpec => [](SessionInv /\ AccountsInv)
  BY SessionInvInit, SessionInvNext, AccountsInit, AccountsNext, PTL DEF SessionSpec

\* Nobody who has signed out in this tab is its user again, whatever reloads and
\* whether or not the server heard of it, unless the session changed under a
\* refresh (logout, clearSession, restore of stores/auth.ts).
THEOREM SignedOutStaysOut == SessionSpec => []LeftStaysOut
<1>1. AccountsInv => LeftStaysOut
  BY DEF AccountsInv, LeftIsGone, LeftStaysOut
<1> QED
  BY <1>1, SessionHolds, PTL

\* After the logout of a session has been handled no step issues a token for it,
\* as long as the blacklist has kept it and no refresh was past the check
\* (refresh and logout of auth.service.ts).
THEOREM LogoutIsFinal == SessionSpec => LogoutEndsSession
<1>1. ASSUME SessionInv, AccountsInv, [SessionNext]_sessionVars
      PROVE  [issued' # issued => issued'[NextToken] \notin loggedOut \/ overtaken]_sessionVars
  <2> SUFFICES ASSUME SessionNext, issued' # issued PROVE issued'[NextToken] \notin loggedOut \/ overtaken
    BY <1>1
  <2>t. SessionTypeOK
    BY <1>1 DEF SessionInv
  <2>1. ASSUME NEW l \in Logins, SignIn(l) PROVE issued'[NextToken] \notin loggedOut
    <3>1. Issue(l) /\ l = Cardinality(SignedIn) + 1
      BY <2>1 DEF SignIn
    <3>2. l \notin loggedOut
      BY <1>1, <3>1, NextLoginIsNew, LoginTypes DEF AccountsInv
    <3> QED
      BY <2>t, <3>1, <3>2, IssueType
  <2>2. CASE RefreshSign
    <3>1. asked \in Logins /\ Issue(asked)
      BY <1>1, <2>2 DEF RefreshSign, SessionInv, SessionTypeOK, Refreshing, MaybeLogin
    <3>2. overtaken \/ asked \notin loggedOut
      BY <1>1, <2>2 DEF RefreshSign, AccountsInv, OutIsBarred
    <3> QED
      BY <2>t, <3>1, <3>2, IssueType
  <2>3. CASE RestoreRefresh
    <3>1. refresh \in Logins /\ Issue(refresh) /\ refresh \notin Revoked
      BY <1>1, <2>3 DEF RestoreRefresh, SessionInv, SessionTypeOK, Booting, MaybeLogin
    <3>2. overtaken \/ refresh \notin loggedOut
      BY <1>1, <3>1 DEF AccountsInv, OutIsBarred
    <3> QED
      BY <2>t, <3>1, <3>2, IssueType
  <2>4. \/ \E l \in Logins : SignIn(l)
        \/ RefreshSign \/ RestoreRefresh
    <3>1. ASSUME NEW q \in Requests, Send(q) \/ Handle(q) PROVE FALSE
      BY <3>1 DEF Send, Handle, ServeRequest, RefusedAgain, RefusedQueue, RefusedNoRefresh, RefusedRefresh, authServer
    <3>2. CASE LogoutSend \/ LogoutServe \/ LogoutEnd
      BY <3>2 DEF LogoutSend, LogoutServe, LogoutEnd, authServer
    <3>3. CASE RefreshCheck \/ RefreshDone \/ RefreshFailed \/ Restore \/ RestoreMe \/ RestoreFailed
      BY <3>3 DEF RefreshCheck, RefreshDone, RefreshFailed, Restore, RestoreMe, RestoreFailed, authServer
    <3>4. CASE Environment
      BY <3>4 DEF Environment, Reload, Restart, ExpireAccess, Suspend, authServer
    <3> QED
      BY <3>1, <3>2, <3>3, <3>4 DEF SessionNext, RefreshSteps, RestoreSteps
  <2> QED
    BY <2>1, <2>2, <2>3, <2>4
<1> QED
  BY <1>1, SessionHolds, PTL DEF SessionSpec, LogoutEndsSession

-----------------------------------------------------------------------------
(* The settings page.                                                        *)

\* A chain under way has asked about a group.
ChainsHaveGroups == \A k \in Chains : chainPc[k] # "idle" => chainLoc[k].group \in Groups

PageInv == SettingsTypeOK /\ ChainsHaveGroups

\* A request that is sent, or a chain that ends, leaves the other chains alone.
LEMMA AwaitType ==
    ASSUME PageInv, NEW k \in Chains, NEW step \in ChainSteps, NEW g \in Groups \cup {None},
           NEW value \in Groups \cup {None}, step = "idle" \/ g \in Groups, Await(k, step, g, value)
    PROVE  /\ chainPc' \in [Chains -> ChainSteps] /\ chainLoc' \in [Chains -> ChainLocals]
           /\ chainPc'[k] = step /\ chainLoc'[k].group = g /\ chainLoc'[k].value = value
           /\ \A o \in Chains \ {k} : chainPc'[o] = chainPc[o] /\ chainLoc'[o] = chainLoc[o]
           /\ ChainsHaveGroups'
<1>1. [group |-> g, value |-> value] \in ChainLocals
  BY DEF ChainLocals
<1>2. /\ chainPc' = [chainPc EXCEPT ![k] = step]
      /\ chainLoc' = [chainLoc EXCEPT ![k] = [group |-> g, value |-> value]]
  BY DEF Await
<1>3. chainPc' \in [Chains -> ChainSteps] /\ chainLoc' \in [Chains -> ChainLocals]
  BY <1>1, <1>2 DEF PageInv, SettingsTypeOK
<1>4. chainPc'[k] = step /\ chainLoc'[k] = [group |-> g, value |-> value]
  BY <1>2 DEF PageInv, SettingsTypeOK
<1>5. \A o \in Chains \ {k} : chainPc'[o] = chainPc[o] /\ chainLoc'[o] = chainLoc[o]
  BY <1>2 DEF PageInv, SettingsTypeOK
<1>6. ChainsHaveGroups'
  BY <1>4, <1>5 DEF PageInv, ChainsHaveGroups
<1> QED
  BY <1>3, <1>4, <1>5, <1>6

LEMMA EndChainType ==
    ASSUME PageInv, NEW k \in Chains, EndChain(k)
    PROVE  /\ chainPc' \in [Chains -> ChainSteps] /\ chainLoc' \in [Chains -> ChainLocals]
           /\ chainPc'[k] = "idle"
           /\ \A o \in Chains \ {k} : chainPc'[o] = chainPc[o] /\ chainLoc'[o] = chainLoc[o]
           /\ ChainsHaveGroups'
<1>1. "idle" \in ChainSteps /\ Await(k, "idle", None, None)
  BY DEF EndChain, ChainSteps
<1> QED
  BY <1>1, AwaitType

\* The panel that appears loads what it shows of the group in the URL.
LEMMA ShowFormType ==
    ASSUME PageInv, NEW k \in Chains, NEW step \in ChainSteps, ShowForm(k, step)
    PROVE  /\ chainPc' \in [Chains -> ChainSteps] /\ chainLoc' \in [Chains -> ChainLocals]
           /\ \A o \in {k, "panel"} : chainLoc'[o].group = url /\ chainLoc'[o].value = None
           /\ \A o \in Chains \ {k, "panel"} : chainPc'[o] = chainPc[o] /\ chainLoc'[o] = chainLoc[o]
           /\ ChainsHaveGroups' /\ panel' = None /\ stage' = "pick"
           /\ k # "panel" => chainPc'[k] = step
<1> DEFINE request == [group |-> url, value |-> None]
<1>1. request \in ChainLocals /\ url \in Groups
  BY DEF ChainLocals, PageInv, SettingsTypeOK
<1>2. /\ chainPc' = [chainPc EXCEPT ![k] = step, !["panel"] = "info"]
      /\ chainLoc' = [chainLoc EXCEPT ![k] = request, !["panel"] = request]
      /\ panel' = None /\ stage' = "pick"
  BY DEF ShowForm
<1>3. /\ "panel" \in Chains /\ "info" \in ChainSteps
      /\ chainPc \in [Chains -> ChainSteps] /\ chainLoc \in [Chains -> ChainLocals]
  BY DEF Chains, ChainSteps, PageInv, SettingsTypeOK
<1>r. request.group = url /\ request.value = None
  OBVIOUS
<1> HIDE DEF request
<1>4. chainPc' \in [Chains -> ChainSteps] /\ chainLoc' \in [Chains -> ChainLocals]
  BY <1>1, <1>2, <1>3
<1>5. /\ \A o \in {k, "panel"} : chainLoc'[o] = request
      /\ k # "panel" => chainPc'[k] = step
  BY <1>2, <1>3
<1>6. \A o \in Chains \ {k, "panel"} : chainPc'[o] = chainPc[o] /\ chainLoc'[o] = chainLoc[o]
  BY <1>2, <1>3
<1>7. ChainsHaveGroups'
  BY <1>1, <1>r, <1>5, <1>6 DEF PageInv, ChainsHaveGroups
<1> QED
  BY <1>2, <1>4, <1>r, <1>5, <1>6, <1>7

LEMMA PressType == SettingsTypeOK /\ Press => presses' \in 0 .. MaxPresses
  BY PressesAssumption DEF SettingsTypeOK, Press

\* A step that leaves the chains alone.
LEMMA ChainsStay == PageInv /\ UNCHANGED chains =>
    /\ chainPc' \in [Chains -> ChainSteps] /\ chainLoc' \in [Chains -> ChainLocals] /\ ChainsHaveGroups'
  BY DEF PageInv, SettingsTypeOK, ChainsHaveGroups, chains

LEMMA PageInvNext == PageInv /\ [SettingsNext]_settingsVars => PageInv'
<1> SUFFICES ASSUME PageInv, [SettingsNext]_settingsVars PROVE PageInv'
  OBVIOUS
<1> DEFINE ChainsOK == /\ chainPc' \in [Chains -> ChainSteps] /\ chainLoc' \in [Chains -> ChainLocals]
                       /\ ChainsHaveGroups'
           ValuesOK == /\ settings' \in [Groups -> Groups \cup {None}]
                       /\ account' \in [Groups -> Groups \cup {None}]
                       /\ link' \in [Groups -> LinkState] /\ locked' \in SUBSET Groups
                       /\ page' \in {"new", "open", "left"} /\ url' \in Groups /\ form' \in Form
                       /\ {store', payment'} \subseteq Groups \cup {None}
                       /\ dialog' \in Groups \cup {None, Closed}
                       /\ panel' \in [group : Groups, link : LinkState] \cup {None}
                       /\ stage' \in {"pick", "verify"}
                       /\ presses' \in 0 .. MaxPresses /\ moved' \in BOOLEAN
<1>q. ChainsOK /\ ValuesOK => PageInv'
  BY DEF PageInv, SettingsTypeOK
<1> HIDE DEF ChainsOK, ValuesOK
<1>t. SettingsTypeOK /\ ChainsHaveGroups
  BY DEF PageInv
<1>s. {"page", "form", "dialog", "panel"} \subseteq Chains
  BY DEF Chains
<1>i. ASSUME NEW k \in Chains, chainPc[k] # "idle"
      PROVE  chainLoc[k].group \in Groups /\ chainLoc[k].value \in Groups \cup {None}
             /\ account[chainLoc[k].group] \in Groups \cup {None}
             /\ link[chainLoc[k].group] \in LinkState
  BY <1>i, <1>t DEF ChainsHaveGroups, SettingsTypeOK, ChainLocals
<1>e. \A k \in Chains : EndChain(k) => ChainsOK
  BY EndChainType DEF ChainsOK
<1>a. \A k \in Chains, step \in ChainSteps, g \in Groups, value \in Groups \cup {None} :
        Await(k, step, g, value) => ChainsOK
  BY AwaitType DEF ChainsOK
<1>f. \A k \in Chains, step \in ChainSteps : ShowForm(k, step) => ChainsOK /\ panel' = None /\ stage' = "pick"
  BY ShowFormType DEF ChainsOK
<1>u. UNCHANGED chains => ChainsOK
  BY ChainsStay DEF ChainsOK
<1>p. Press => presses' \in 0 .. MaxPresses
  BY <1>t, PressType
<1>l. ChainSteps = {"idle", "mine", "group", "payments", "save", "again", "list", "pay", "reload",
               "info", "chats", "send", "verify", "unlink", "status", "refetch"}
  BY DEF ChainSteps
<1>x. url \in Groups /\ store \in Groups \cup {None} /\ form \in Groups \cup {None} /\ None \in Groups \cup {None}
  BY <1>t DEF SettingsTypeOK, Form
<1>1. CASE UNCHANGED settingsVars
  BY <1>1, <1>q, <1>u, <1>t DEF settingsVars, server, shown, SettingsTypeOK, ValuesOK
<1>2. CASE Mount
  <2>1. ChainsOK /\ panel' \in {panel, None} /\ stage' \in {stage, "pick"}
    BY <1>2, <1>a, <1>f, <1>s, <1>l, <1>x DEF Mount
  <2> QED
    BY <1>2, <1>q, <1>t, <2>1 DEF Mount, server, SettingsTypeOK, ValuesOK
<1>3. ASSUME NEW g \in Groups, Pick(g) PROVE PageInv'
  BY <1>3, <1>q, <1>t, <1>u, <1>p DEF Pick, Press, server, shown, SettingsTypeOK, ValuesOK
<1>4. CASE AnsweredMine
  <2>1. ChainsOK
    BY <1>4, <1>a, <1>s, <1>l, <1>x DEF AnsweredMine
  <2> QED
    BY <1>4, <1>q, <1>t, <2>1 DEF AnsweredMine, server, SettingsTypeOK, ValuesOK
<1>5. CASE AnsweredGroup
  <2>1. ChainsOK /\ panel' = None /\ stage' = "pick" /\ store' \in Groups
    BY <1>5, <1>f, <1>s, <1>l, <1>i DEF AnsweredGroup
  <2> QED
    BY <1>5, <1>q, <1>t, <2>1 DEF AnsweredGroup, server, SettingsTypeOK, ValuesOK
<1>6. CASE TakePayments
  <2>1. ChainsOK /\ payment' \in Groups \cup {None} /\ dialog' \in Groups \cup {None, Closed} /\ form' \in Form
    BY <1>6, <1>e, <1>s, <1>i, <1>t DEF TakePayments, Initial, Fill, SettingsTypeOK, Form
  <2> QED
    BY <1>6, <1>q, <1>t, <2>1 DEF TakePayments, server, SettingsTypeOK, ValuesOK
<1>7. CASE LosePage
  <2>1. ChainsOK /\ page' \in {"left", page}
    BY <1>7, <1>e, <1>s DEF LosePage
  <2> QED
    BY <1>7, <1>q, <1>t, <2>1 DEF LosePage, server, shown, SettingsTypeOK, ValuesOK
<1>8. CASE Save
  <2>1. ChainsOK
    BY <1>8, <1>a, <1>s, <1>l, <1>x DEF Save
  <2> QED
    BY <1>8, <1>q, <1>t, <1>p, <2>1 DEF Save, server, shown, SettingsTypeOK, ValuesOK
<1>9. CASE TakeSave
  <2>1. ChainsOK /\ settings' \in [Groups -> Groups \cup {None}]
    <3>1. chainLoc["form"].group \in Groups /\ chainLoc["form"].value \in Groups \cup {None}
      BY <1>9, <1>s, <1>i DEF TakeSave
    <3>2. settings' \in [Groups -> Groups \cup {None}]
      BY <1>9, <1>t, <3>1 DEF TakeSave, SettingsTypeOK
    <3>3. ChainsOK
      BY <1>9, <1>a, <1>e, <1>s, <1>l, <1>x, <3>1 DEF TakeSave
    <3> QED
      BY <3>2, <3>3
  <2> QED
    BY <1>9, <1>q, <1>t, <2>1 DEF TakeSave, shown, SettingsTypeOK, ValuesOK
<1>10. CASE TakeAgain
  <2>1. ChainsOK /\ store' \in Groups /\ panel' \in {panel, None} /\ stage' \in {stage, "pick"}
    BY <1>10, <1>a, <1>f, <1>s, <1>l, <1>i, <1>x DEF TakeAgain
  <2> QED
    BY <1>10, <1>q, <1>t, <2>1 DEF TakeAgain, server, SettingsTypeOK, ValuesOK
<1>11. CASE EndForm \/ LoseDialog \/ EndPanel
  <2>1. ChainsOK
    BY <1>11, <1>e, <1>s DEF EndForm, LoseDialog, EndPanel
  <2> QED
    BY <1>11, <1>q, <1>t, <2>1 DEF EndForm, LoseDialog, EndPanel, server, shown, SettingsTypeOK, ValuesOK
<1>12. CASE OpenDialog \/ CloseDialog
  BY <1>12, <1>q, <1>t, <1>u, <1>p DEF OpenDialog, CloseDialog, server, chains, SettingsTypeOK, ValuesOK
<1>13. CASE Submit
  <2>1. ChainsOK
    BY <1>13, <1>a, <1>s, <1>l, <1>x, <1>t DEF Submit, SettingsTypeOK
  <2> QED
    BY <1>13, <1>q, <1>t, <1>p, <2>1 DEF Submit, server, shown, SettingsTypeOK, ValuesOK
<1>14. CASE TakePay
  <2>1. ChainsOK
    BY <1>14, <1>a, <1>s, <1>l, <1>x DEF TakePay
  <2>2. account' \in [Groups -> Groups \cup {None}]
    BY <1>14, <1>s, <1>i, <1>t DEF TakePay, SettingsTypeOK
  <2> QED
    BY <1>14, <1>q, <1>t, <2>1, <2>2 DEF TakePay, SettingsTypeOK, ValuesOK
<1>15. CASE TakeReload
  <2>1. ChainsOK /\ payment' \in Groups \cup {None} /\ dialog' \in Groups \cup {None, Closed}
    BY <1>15, <1>e, <1>s, <1>i, <1>t DEF TakeReload, Initial, SettingsTypeOK
  <2> QED
    BY <1>15, <1>q, <1>t, <2>1 DEF TakeReload, server, SettingsTypeOK, ValuesOK
<1>16. CASE RefreshGroups \/ SendCode \/ Verify \/ Unlink
  <2>1. PICK step \in ChainSteps : Ask(step)
    BY <1>16, <1>l DEF RefreshGroups, SendCode, Verify, Unlink
  <2>2. ChainsOK
    BY <2>1, <1>a, <1>s, <1>x DEF Ask
  <2> QED
    BY <2>1, <1>q, <1>t, <1>p, <2>2 DEF Ask, server, shown, SettingsTypeOK, ValuesOK
<1>17. CASE ChooseAnother
  BY <1>17, <1>q, <1>t, <1>u, <1>p DEF ChooseAnother, server, SettingsTypeOK, ValuesOK
<1>18. CASE TakeAsked
  <2>1. ChainsOK
    BY <1>18, <1>a, <1>s, <1>l, <1>x DEF TakeAsked
  <2>2. link' \in [Groups -> LinkState] /\ stage' \in {"pick", "verify"}
    BY <1>18, <1>t DEF TakeAsked, SettingsTypeOK, LinkState
  <2> QED
    BY <1>18, <1>q, <1>t, <2>1, <2>2 DEF TakeAsked, SettingsTypeOK, ValuesOK
<1>19. CASE TakeInfo
  <2>1. ChainsOK
    BY <1>19, <1>a, <1>s, <1>l, <1>x DEF TakeInfo
  <2>2. panel' \in [group : Groups, link : LinkState] /\ stage' \in {"pick", "verify"}
    BY <1>19, <1>s, <1>i, <1>t DEF TakeInfo, Inform, SettingsTypeOK
  <2> QED
    BY <1>19, <1>q, <1>t, <2>1, <2>2 DEF TakeInfo, server, SettingsTypeOK, ValuesOK
<1>20. CASE TakeStatus
  <2>1. ChainsOK /\ store' \in {store, None}
    BY <1>20, <1>a, <1>e, <1>s, <1>l, <1>x DEF TakeStatus
  <2>2. panel' \in [group : Groups, link : LinkState] /\ stage' \in {"pick", "verify"}
    BY <1>20, <1>s, <1>i, <1>t DEF TakeStatus, Inform, SettingsTypeOK
  <2> QED
    BY <1>20, <1>q, <1>t, <2>1, <2>2 DEF TakeStatus, server, SettingsTypeOK, ValuesOK
<1>21. CASE TakeRefetch
  <2>1. ChainsOK /\ panel' = None /\ stage' = "pick" /\ store' \in Groups
    BY <1>21, <1>f, <1>s, <1>l, <1>i DEF TakeRefetch
  <2> QED
    BY <1>21, <1>q, <1>t, <2>1 DEF TakeRefetch, server, SettingsTypeOK, ValuesOK
<1> QED
  BY <1>1, <1>2, <1>3, <1>4, <1>5, <1>6, <1>7, <1>8, <1>9, <1>10, <1>11, <1>12, <1>13, <1>14, <1>15, <1>16,
     <1>17, <1>18, <1>19, <1>20, <1>21 DEF SettingsNext

LEMMA PageInvInit == SettingsInit => PageInv
<1> SUFFICES ASSUME SettingsInit PROVE PageInv
  OBVIOUS
<1>1. chainPc \in [Chains -> ChainSteps] /\ chainLoc \in [Chains -> ChainLocals] /\ ChainsHaveGroups
  BY DEF SettingsInit, Chains, ChainSteps, ChainLocals, NoLocals, ChainsHaveGroups
<1>2. presses \in 0 .. MaxPresses
  BY PressesAssumption DEF SettingsInit
<1>3. settings \in [Groups -> Groups \cup {None}] /\ account \in [Groups -> Groups \cup {None}]
      /\ link \in [Groups -> LinkState]
  BY DEF SettingsInit, LinkState
<1> QED
  BY <1>1, <1>2, <1>3 DEF PageInv, SettingsInit, SettingsTypeOK, Form

\* The page, its dialog and its panel keep their types, whatever answers cross.
THEOREM SettingsTypeCorrect == SettingsSpec => []SettingsTypeOK
<1>1. PageInv => SettingsTypeOK
  BY DEF PageInv
<1> QED
  BY <1>1, PageInvInit, PageInvNext, PTL DEF SettingsSpec

\* What chain k asks about, and what it sends, is of the group in the URL.
AsksOwn(k) ==
    /\ chainPc[k] # "idle" => chainLoc[k].group = url
    /\ chainPc[k] \in {"save", "pay"} => chainLoc[k].value \in {None, url}

\* The fields hold what belongs to that group or nothing; the store may hold
\* another one until the page has fetched its groups.
ShowsOwn ==
    /\ {form, payment} \subseteq {None, url} /\ dialog \in {Closed, None, url}
    /\ store \in {None, url} \/ page = "new" \/ chainPc["page"] = "mine"
    /\ page = "new" => chainPc["page"] = "idle"

OwnInv == ~ moved => GroupsKeepTheirOwn /\ ShowsOwn /\ \A k \in Chains : AsksOwn(k)

\* A chain that goes on with the group in the URL.
LEMMA AwaitOwn ==
    ASSUME PageInv, NEW k \in Chains, NEW step \in ChainSteps, NEW value \in {None, url},
           \A o \in Chains : AsksOwn(o), url' = url, Await(k, step, url, value)
    PROVE  \A o \in Chains : AsksOwn(o)'
<1>1. url \in Groups /\ value \in Groups \cup {None} /\ url \in Groups \cup {None}
  BY DEF PageInv, SettingsTypeOK
<1>2. /\ chainPc'[k] = step /\ chainLoc'[k].group = url /\ chainLoc'[k].value = value
      /\ \A o \in Chains \ {k} : chainPc'[o] = chainPc[o] /\ chainLoc'[o] = chainLoc[o]
  BY <1>1, AwaitType
<1> QED
  BY <1>2 DEF AsksOwn

LEMMA EndChainOwn ==
    ASSUME PageInv, NEW k \in Chains, \A o \in Chains : AsksOwn(o), url' = url, EndChain(k)
    PROVE  \A o \in Chains : AsksOwn(o)'
  BY EndChainType DEF AsksOwn

LEMMA ShowFormOwn ==
    ASSUME PageInv, NEW k \in Chains, NEW step \in ChainSteps,
           \A o \in Chains : AsksOwn(o), url' = url, ShowForm(k, step)
    PROVE  \A o \in Chains : AsksOwn(o)'
<1>1. /\ \A o \in {k, "panel"} : chainLoc'[o].group = url /\ chainLoc'[o].value = None
      /\ \A o \in Chains \ {k, "panel"} : chainPc'[o] = chainPc[o] /\ chainLoc'[o] = chainLoc[o]
  BY ShowFormType
<1> QED
  BY <1>1 DEF AsksOwn

\* The page's own chain waits for its groups until AnsweredMine.
LEMMA PageChainStays ==
    ASSUME PageInv, NEW k \in {"form", "dialog", "panel"}, NEW step \in ChainSteps,
           NEW g \in Groups, NEW value \in Groups \cup {None},
           EndChain(k) \/ Await(k, step, g, value) \/ ShowForm(k, step)
    PROVE  chainPc'["page"] = chainPc["page"]
<1>1. k \in Chains /\ "page" \in Chains \ {k, "panel"}
  BY DEF Chains
<1> QED
  BY <1>1, EndChainType, AwaitType, ShowFormType

LEMMA OwnInvNext == PageInv /\ OwnInv /\ [SettingsNext]_settingsVars => OwnInv'
<1> SUFFICES ASSUME PageInv, OwnInv, [SettingsNext]_settingsVars, ~ moved' PROVE OwnInv'
  BY DEF OwnInv
<1>t. SettingsTypeOK
  BY DEF PageInv
<1>m. ~ moved
  BY DEF SettingsNext, Mount, Pick, AnsweredMine, AnsweredGroup, TakePayments, LosePage, Save, TakeSave, TakeAgain,
     EndForm, OpenDialog, CloseDialog, Submit, TakePay, TakeReload, LoseDialog, RefreshGroups, SendCode, Verify,
     Unlink, ChooseAnother, Ask, TakeAsked, TakeInfo, TakeStatus, TakeRefetch, EndPanel, settingsVars
<1>o. /\ \A g \in Groups : settings[g] \in {g, None} /\ account[g] \in {g, None}
      /\ ShowsOwn /\ \A k \in Chains : AsksOwn(k)
  BY <1>m DEF OwnInv, GroupsKeepTheirOwn
<1> DEFINE KeptOK == \A g \in Groups : settings'[g] \in {g, None} /\ account'[g] \in {g, None}
           AskedOK == \A k \in Chains : AsksOwn(k)'
<1>q. KeptOK /\ ShowsOwn' /\ AskedOK => OwnInv'
  BY DEF OwnInv, GroupsKeepTheirOwn
<1>k. UNCHANGED server => KeptOK
  BY <1>o DEF server
<1> HIDE DEF KeptOK, AskedOK
<1>s. {"page", "form", "dialog", "panel"} \subseteq Chains
  BY DEF Chains
<1>l. ChainSteps = {"idle", "mine", "group", "payments", "save", "again", "list", "pay", "reload",
               "info", "chats", "send", "verify", "unlink", "status", "refetch"}
  BY DEF ChainSteps
<1>i. \A k \in Chains : chainPc[k] # "idle" => chainLoc[k].group = url /\ account[url] \in {None, url}
  BY <1>o, <1>t DEF AsksOwn, SettingsTypeOK
<1>e. \A k \in Chains : url' = url /\ EndChain(k) => AskedOK
  BY <1>o, EndChainOwn DEF AskedOK
<1>a. \A k \in Chains, step \in ChainSteps, value \in {None, url} :
        url' = url /\ Await(k, step, url, value) => AskedOK
  BY <1>o, AwaitOwn DEF AskedOK
<1>f. \A k \in Chains, step \in ChainSteps : url' = url /\ ShowForm(k, step) => AskedOK
  BY <1>o, ShowFormOwn DEF AskedOK
<1>u. UNCHANGED <<url, chains>> => AskedOK
  BY <1>o DEF AskedOK, AsksOwn, chains
<1>p. \A k \in {"form", "dialog", "panel"}, step \in ChainSteps, value \in {None, url} :
        EndChain(k) \/ Await(k, step, url, value) \/ ShowForm(k, step) => chainPc'["page"] = chainPc["page"]
  BY <1>t, PageChainStays DEF SettingsTypeOK
<1>h. UNCHANGED <<url, page, shown>> /\ chainPc'["page"] = chainPc["page"] => ShowsOwn'
  BY <1>o DEF ShowsOwn, shown
<1>1. CASE UNCHANGED settingsVars
  BY <1>1, <1>q, <1>k, <1>u, <1>h DEF settingsVars, chains
<1>2. CASE Mount
  <2>1. AskedOK
    BY <1>2, <1>a, <1>f, <1>s, <1>l DEF Mount
  <2>2. chainPc'["page"] = "mine"
    <3>1. "mine" \in ChainSteps /\ "page" \in Chains /\ "page" # "panel" /\ url \in Groups
      BY <1>l, <1>s, <1>t DEF SettingsTypeOK
    <3> QED
      BY <1>2, <3>1, AwaitType, ShowFormType DEF Mount
  <2>3. ShowsOwn'
    BY <1>2, <1>o, <2>2 DEF Mount, ShowsOwn
  <2> QED
    BY <1>2, <1>q, <1>k, <2>1, <2>3 DEF Mount
<1>4. CASE AnsweredMine
  <2>1. AskedOK
    BY <1>4, <1>a, <1>s, <1>l DEF AnsweredMine
  <2>2. ShowsOwn'
    BY <1>4, <1>o DEF AnsweredMine, ShowsOwn
  <2> QED
    BY <1>4, <1>q, <1>k, <2>1, <2>2 DEF AnsweredMine
<1>5. CASE AnsweredGroup
  <2>1. AskedOK
    BY <1>5, <1>f, <1>s, <1>l DEF AnsweredGroup
  <2>2. ShowsOwn'
    BY <1>5, <1>o, <1>i, <1>s DEF AnsweredGroup, ShowsOwn
  <2> QED
    BY <1>5, <1>q, <1>k, <2>1, <2>2 DEF AnsweredGroup
<1>6. CASE TakePayments
  <2>1. AskedOK
    BY <1>6, <1>e, <1>s DEF TakePayments
  <2>2. ShowsOwn'
    <3>1. store \in {None, url} /\ page # "new"
      BY <1>6, <1>o DEF TakePayments, ShowsOwn
    <3> QED
      BY <1>6, <1>o, <1>i, <1>s, <3>1 DEF TakePayments, Initial, Fill, ShowsOwn
  <2> QED
    BY <1>6, <1>q, <1>k, <2>1, <2>2 DEF TakePayments
<1>7. CASE LosePage
  <2>1. AskedOK
    BY <1>7, <1>e, <1>s DEF LosePage
  <2>2. page # "new" /\ store \in {None, url}
    BY <1>7, <1>o DEF LosePage, ShowsOwn
  <2>3. ShowsOwn'
    BY <1>7, <1>o, <2>2 DEF LosePage, shown, ShowsOwn
  <2> QED
    BY <1>7, <1>q, <1>k, <2>1, <2>3 DEF LosePage
<1>8. CASE Save
  <2>1. form \in {None, url} /\ "save" \in ChainSteps
    BY <1>o, <1>l DEF ShowsOwn
  <2>2. AskedOK
    BY <1>8, <1>a, <1>s, <2>1 DEF Save
  <2>3. ShowsOwn'
    BY <1>8, <1>h, <1>p, <2>1 DEF Save, Press
  <2> QED
    BY <1>8, <1>q, <1>k, <2>2, <2>3 DEF Save
<1>9. CASE TakeSave
  <2>1. chainLoc["form"].group = url /\ chainLoc["form"].value \in {None, url}
    BY <1>9, <1>o, <1>s DEF TakeSave, AsksOwn
  <2>2. {"again", "list"} \subseteq ChainSteps
    BY <1>l
  <2>3. AskedOK
    BY <1>9, <1>a, <1>e, <1>s, <2>1, <2>2 DEF TakeSave
  <2>4. ShowsOwn'
    BY <1>9, <1>h, <1>p, <2>1, <2>2 DEF TakeSave
  <2>5. KeptOK
    BY <1>9, <1>o, <1>t, <2>1 DEF TakeSave, KeptOK, SettingsTypeOK
  <2> QED
    BY <1>q, <2>3, <2>4, <2>5
<1>10. CASE TakeAgain
  <2>1. chainLoc["form"].group = url /\ "list" \in ChainSteps
    BY <1>10, <1>o, <1>s, <1>l DEF TakeAgain, AsksOwn
  <2>2. AskedOK
    BY <1>10, <1>a, <1>f, <1>s, <2>1 DEF TakeAgain
  <2>3. chainPc'["page"] = chainPc["page"]
    BY <1>10, <1>p, <2>1 DEF TakeAgain
  <2>4. ShowsOwn'
    BY <1>10, <1>o, <2>1, <2>3 DEF TakeAgain, ShowsOwn
  <2> QED
    BY <1>10, <1>q, <1>k, <2>2, <2>4 DEF TakeAgain
<1>11. CASE EndForm \/ LoseDialog \/ EndPanel
  <2>1. AskedOK
    BY <1>11, <1>e, <1>s DEF EndForm, LoseDialog, EndPanel
  <2>2. chainPc'["page"] = chainPc["page"]
    <3>1. PICK k \in {"form", "dialog", "panel"} : EndChain(k)
      BY <1>11 DEF EndForm, LoseDialog, EndPanel
    <3>2. "idle" \in ChainSteps
      BY <1>l
    <3> QED
      BY <1>p, <3>1, <3>2
  <2>3. ShowsOwn'
    BY <1>11, <1>h, <2>2 DEF EndForm, LoseDialog, EndPanel
  <2> QED
    BY <1>11, <1>q, <1>k, <2>1, <2>3 DEF EndForm, LoseDialog, EndPanel
<1>12. CASE OpenDialog \/ CloseDialog
  <2>1. AskedOK
    BY <1>12, <1>u DEF OpenDialog, CloseDialog
  <2>2. ShowsOwn'
    BY <1>12, <1>o DEF OpenDialog, CloseDialog, Press, chains, ShowsOwn
  <2> QED
    BY <1>12, <1>q, <1>k, <2>1, <2>2 DEF OpenDialog, CloseDialog
<1>13. CASE Submit
  <2>1. (IF dialog = None THEN url ELSE dialog) \in {None, url} /\ "pay" \in ChainSteps
    BY <1>13, <1>o, <1>l DEF Submit, ShowsOwn
  <2>2. AskedOK
    BY <1>13, <1>a, <1>s, <2>1 DEF Submit
  <2>3. ShowsOwn'
    BY <1>13, <1>h, <1>p, <2>1 DEF Submit, Press
  <2> QED
    BY <1>13, <1>q, <1>k, <2>2, <2>3 DEF Submit
<1>14. CASE TakePay
  <2>1. chainLoc["dialog"].group = url /\ chainLoc["dialog"].value \in {None, url} /\ "reload" \in ChainSteps
    BY <1>14, <1>o, <1>s, <1>l DEF TakePay, AsksOwn
  <2>2. AskedOK
    BY <1>14, <1>a, <1>s, <2>1 DEF TakePay
  <2>3. chainPc'["page"] = chainPc["page"]
    BY <1>14, <1>p, <2>1 DEF TakePay
  <2>4. ShowsOwn'
    BY <1>14, <1>o, <2>3 DEF TakePay, ShowsOwn
  <2>5. KeptOK
    BY <1>14, <1>o, <1>t, <2>1 DEF TakePay, KeptOK, SettingsTypeOK
  <2> QED
    BY <1>q, <2>2, <2>4, <2>5
<1>15. CASE TakeReload
  <2>1. AskedOK
    BY <1>15, <1>e, <1>s DEF TakeReload
  <2>2. chainPc'["page"] = chainPc["page"]
    <3>1. "idle" \in ChainSteps /\ EndChain("dialog")
      BY <1>15, <1>l DEF TakeReload
    <3> QED
      BY <1>p, <3>1
  <2>3. ShowsOwn'
    BY <1>15, <1>o, <1>i, <1>s, <2>2 DEF TakeReload, Initial, ShowsOwn
  <2> QED
    BY <1>15, <1>q, <1>k, <2>1, <2>3 DEF TakeReload
<1>16. CASE RefreshGroups \/ SendCode \/ Verify \/ Unlink
  <2>1. PICK step \in ChainSteps : Ask(step)
    BY <1>16, <1>l DEF RefreshGroups, SendCode, Verify, Unlink
  <2>2. AskedOK
    BY <2>1, <1>a, <1>s DEF Ask
  <2>3. ShowsOwn'
    BY <2>1, <1>h, <1>p DEF Ask, Press
  <2> QED
    BY <2>1, <1>q, <1>k, <2>2, <2>3 DEF Ask
<1>17. CASE ChooseAnother
  <2>1. AskedOK
    BY <1>17, <1>u DEF ChooseAnother
  <2>2. ShowsOwn'
    BY <1>17, <1>o DEF ChooseAnother, Press, chains, ShowsOwn
  <2> QED
    BY <1>17, <1>q, <1>k, <2>1, <2>2 DEF ChooseAnother
<1>18. CASE TakeAsked
  <2>1. "status" \in ChainSteps
    BY <1>l
  <2>2. AskedOK
    BY <1>18, <1>a, <1>s, <2>1 DEF TakeAsked
  <2>3. chainPc'["page"] = chainPc["page"]
    BY <1>18, <1>p, <2>1 DEF TakeAsked
  <2>4. ShowsOwn'
    BY <1>18, <1>o, <2>3 DEF TakeAsked, ShowsOwn
  <2>5. KeptOK
    BY <1>18, <1>o DEF TakeAsked, KeptOK
  <2> QED
    BY <1>q, <2>2, <2>4, <2>5
<1>19. CASE TakeInfo
  <2>1. "chats" \in ChainSteps
    BY <1>l
  <2>2. AskedOK
    BY <1>19, <1>a, <1>s, <2>1 DEF TakeInfo
  <2>3. chainPc'["page"] = chainPc["page"]
    BY <1>19, <1>p, <2>1 DEF TakeInfo
  <2>4. ShowsOwn'
    BY <1>19, <1>o, <2>3 DEF TakeInfo, ShowsOwn
  <2> QED
    BY <1>19, <1>q, <1>k, <2>2, <2>4 DEF TakeInfo
<1>20. CASE TakeStatus
  <2>1. "refetch" \in ChainSteps
    BY <1>l
  <2>2. AskedOK
    BY <1>20, <1>a, <1>e, <1>s, <2>1 DEF TakeStatus
  <2>3. chainPc'["page"] = chainPc["page"] /\ store' \in {None, store}
    BY <1>20, <1>p, <2>1 DEF TakeStatus
  <2>4. ShowsOwn'
    BY <1>20, <1>o, <2>3 DEF TakeStatus, ShowsOwn
  <2> QED
    BY <1>20, <1>q, <1>k, <2>2, <2>4 DEF TakeStatus
<1>21. CASE TakeRefetch
  <2>1. chainLoc["panel"].group = url /\ "info" \in ChainSteps
    BY <1>21, <1>o, <1>s, <1>l DEF TakeRefetch, AsksOwn
  <2>2. AskedOK
    BY <1>21, <1>f, <1>s, <2>1 DEF TakeRefetch
  <2>3. chainPc'["page"] = chainPc["page"]
    BY <1>21, <1>p, <2>1 DEF TakeRefetch
  <2>4. ShowsOwn'
    BY <1>21, <1>o, <2>1, <2>3 DEF TakeRefetch, ShowsOwn
  <2> QED
    BY <1>21, <1>q, <1>k, <2>2, <2>4 DEF TakeRefetch
<1>22. ~ \E g \in Groups : Pick(g)
  BY DEF Pick
<1> QED
  BY <1>1, <1>2, <1>4, <1>5, <1>6, <1>7, <1>8, <1>9, <1>10, <1>11, <1>12, <1>13, <1>14, <1>15, <1>16,
     <1>17, <1>18, <1>19, <1>20, <1>21, <1>22 DEF SettingsNext

\* On the settings page no group is given the settings or the account of
\* another, whatever the store holds when the page is opened and however its
\* chains cross, unless another group was picked on the page (onMounted, onSave,
\* onSubmit of GroupSettings.vue).
THEOREM SettingsAreNotMixedUp == SettingsSpec => []GroupsKeepTheirOwn
<1>1. SettingsInit => OwnInv
  BY DEF SettingsInit, OwnInv, ShowsOwn, AsksOwn, GroupsKeepTheirOwn, Chains
<1>2. OwnInv => GroupsKeepTheirOwn
  BY DEF OwnInv, GroupsKeepTheirOwn
<1> QED
  BY <1>1, <1>2, PageInvInit, PageInvNext, OwnInvNext, PTL DEF SettingsSpec


-----------------------------------------------------------------------------
(* The cycles page.                                                          *)

ShownCycle == [group : Groups, status : Status, done : SUBSET (1 .. LastRound)]

\* What the page and the chains hold; the status a cycle is shown with does not
\* matter here, nor the order the requests were sent in.
PageTypes ==
    /\ status \in [Groups -> Status] /\ row \in [Rounds -> Row] /\ done \subseteq Rounds
    /\ route \in Groups /\ group \in Groups \cup {None}
    /\ current \in ShownCycle \cup {None} /\ selected \in Rounds \cup {None}
    /\ contributions \in Ledger \cup {None} /\ review \in Groups \cup {None}
    /\ pc \in [Calls -> Steps] /\ loc \in [Calls -> Locals]

\* What a request carries: its group, a ledger's round, and the round of the
\* cycle it is sent for when it writes.
Fits(step, l) ==
    /\ IF step = "idle" THEN l.answer = "none" ELSE l.group \in Groups
    /\ step = "ledger" => l.round \in Rounds
    /\ step = "write" => l.kind \in Writes
    /\ step = "write" /\ l.kind # "open" => l.round \in Rounds /\ l.round[1] = l.cycle

CyclesInv == PageTypes /\ \A c \in Calls : Fits(pc[c], loc[c])

\* What a request is made of, and what it asks with.
LEMMA AskingType ==
    ASSUME NEW kind \in Kinds, NEW g \in Groups \cup {None}, NEW cycle \in Groups \cup {None},
           NEW round \in Rounds \cup {None}, NEW member \in Groups \cup {None}
    PROVE  /\ Asking(kind, g, cycle, round, member) \in Locals
           /\ Asking(kind, g, cycle, round, member).answer = "none"
           /\ Asking(kind, g, cycle, round, member).kind = kind
           /\ Asking(kind, g, cycle, round, member).group = g
           /\ Asking(kind, g, cycle, round, member).cycle = cycle
           /\ Asking(kind, g, cycle, round, member).round = round
  BY DEF Asking, Locals, Status, Row

\* A request that is sent, or a chain that ends, leaves the other chains alone.
LEMMA RequestType ==
    ASSUME CyclesInv, NEW c \in Calls, NEW step \in Steps, NEW query \in Locals, Fits(step, query),
           pc' = [pc EXCEPT ![c] = step], loc' = [loc EXCEPT ![c] = query]
    PROVE  /\ pc' \in [Calls -> Steps] /\ loc' \in [Calls -> Locals]
           /\ \A d \in Calls : Fits(pc'[d], loc'[d])
<1>1. pc \in [Calls -> Steps] /\ loc \in [Calls -> Locals] /\ \A d \in Calls : Fits(pc[d], loc[d])
  BY DEF CyclesInv, PageTypes
<1>2. pc' \in [Calls -> Steps] /\ loc' \in [Calls -> Locals]
  BY <1>1
<1>3. pc'[c] = step /\ loc'[c] = query /\ \A d \in Calls \ {c} : pc'[d] = pc[d] /\ loc'[d] = loc[d]
  BY <1>1
<1> QED
  BY <1>1, <1>2, <1>3

LEMMA FollowType ==
    ASSUME CyclesInv, NEW c \in Calls, NEW step \in Steps \ {"write"}, NEW g \in Groups,
           NEW cycle \in Groups \cup {None}, NEW round \in Rounds \cup {None},
           step = "ledger" => round \in Rounds, Follow(c, step, g, cycle, round)
    PROVE  /\ pc' \in [Calls -> Steps] /\ loc' \in [Calls -> Locals]
           /\ \A d \in Calls : Fits(pc'[d], loc'[d])
<1> DEFINE query == Asking(loc[c].kind, g, cycle, round, None)
<1>1. loc[c].kind \in Kinds
  BY DEF CyclesInv, PageTypes, Locals
<1>2. query \in Locals /\ query.group = g /\ query.round = round /\ query.answer = "none"
  BY <1>1 DEF Asking, Locals, Status, Row
<1>3. pc' = [pc EXCEPT ![c] = step] /\ loc' = [loc EXCEPT ![c] = query]
  BY DEF Follow, Request
<1> HIDE DEF query
<1>4. Fits(step, query)
  BY <1>2 DEF Fits
<1> QED
  BY <1>2, <1>3, <1>4, RequestType

LEMMA IdleType ==
    ASSUME CyclesInv, NEW c \in Calls, pc' = [pc EXCEPT ![c] = "idle"], loc' = [loc EXCEPT ![c] = Idle]
    PROVE  /\ pc' \in [Calls -> Steps] /\ loc' \in [Calls -> Locals]
           /\ \A d \in Calls : Fits(pc'[d], loc'[d])
<1>1. Idle \in Locals /\ "idle" \in Steps
  BY AskingType DEF Idle, Kinds, Steps
<1>2. Fits("idle", Idle)
  BY DEF Fits, Idle, Asking
<1> QED
  BY <1>1, <1>2, RequestType

\* The round that is fetched is one of the cycle it is fetched for.
LEMMA SelectedType ==
    ASSUME NEW cycle \in ShownCycle \cup {None}, NEW id \in Rounds \cup {None}
    PROVE  /\ cycle = None => SelectedOf(cycle, id) = None
           /\ cycle # None => /\ cycle \in ShownCycle /\ cycle.group \in Groups
                              /\ SelectedOf(cycle, id) \in Rounds
                              /\ SelectedOf(cycle, id)[1] = cycle.group
<1>1. CASE cycle = None
  <2>1. SelectedOf(cycle, id) = None
    BY <1>1 DEF SelectedOf
  <2> QED
    BY <1>1, <2>1
<1>2. CASE cycle # None
  <2>1. cycle \in ShownCycle /\ cycle.group \in Groups
    BY <1>2 DEF ShownCycle
  <2>2. First(cycle.group) \in Rounds /\ First(cycle.group)[1] = cycle.group
    BY <2>1, ConstantsAssumption DEF First, Rounds
  <2> QED
    BY <1>2, <2>1, <2>2 DEF SelectedOf
<1> QED
  BY <1>1, <1>2

LEMMA CyclesInvInit == Init => CyclesInv
<1> SUFFICES ASSUME Init PROVE CyclesInv
  OBVIOUS
<1>1. row \in [Rounds -> Row] /\ done \subseteq Rounds /\ status \in [Groups -> Status]
  <2>1. done \subseteq Rounds
    BY DEF Init
  <2>2. PICK sent \in {"none", "proof"} :
            row = [i \in Rounds |-> CASE i \in done -> "paid"
                                      [] status[i[1]] = "none" -> "none"
                                      [] OTHER -> sent]
    BY DEF Init
  <2>3. row \in [Rounds -> Row]
    BY <2>2 DEF Row
  <2> QED
    BY <2>1, <2>3 DEF Init, Status
<1>2. Idle \in Locals
  BY AskingType DEF Idle, Kinds
<1>3. /\ pc \in [Calls -> Steps] /\ loc \in [Calls -> Locals]
      /\ \A c \in Calls : pc[c] = "idle" /\ loc[c] = Idle /\ Idle.answer = "none"
  BY <1>2 DEF Init, Steps, Idle, Asking
<1> QED
  BY <1>1, <1>3 DEF Init, CyclesInv, PageTypes, Fits

\* The requests of the user: a page that loads, a round that is selected, a
\* button that writes.
LEMMA LoadType ==
    ASSUME CyclesInv, NEW c \in Calls, route' \in Groups, Load(c)
    PROVE  CyclesInv'
<1> DEFINE query == Asking("load", route', None, None, None)
<1>1. query \in Locals /\ query.group = route'
  BY DEF Asking, Locals, Kinds, Status, Row
<1>2. pc' = [pc EXCEPT ![c] = "mine"] /\ loc' = [loc EXCEPT ![c] = query]
  BY DEF Load, Request
<1> HIDE DEF query
<1>3. Fits("mine", query) /\ "mine" \in Steps
  BY <1>1 DEF Fits, Steps
<1>4. /\ pc' \in [Calls -> Steps] /\ loc' \in [Calls -> Locals]
      /\ \A d \in Calls : Fits(pc'[d], loc'[d])
  BY <1>1, <1>2, <1>3, RequestType
<1> QED
  BY <1>4 DEF Load, CyclesInv, PageTypes, cycleServer, view, modals

LEMMA SelectType ==
    ASSUME CyclesInv, NEW c \in Calls, NEW i \in Rounds, Select(c, i)
    PROVE  CyclesInv'
<1>1. current # None /\ current.group \in Groups /\ route \in Groups
  BY DEF Select, CyclesInv, PageTypes, ShownCycle
<1> DEFINE query == Asking("select", route, current.group, i, None)
<1>2. query \in Locals /\ query.group = route /\ query.round = i
  BY <1>1, AskingType DEF Kinds
<1>3. pc' = [pc EXCEPT ![c] = "ledger"] /\ loc' = [loc EXCEPT ![c] = query]
  BY DEF Select, Request
<1> HIDE DEF query
<1>4. Fits("ledger", query) /\ "ledger" \in Steps
  BY <1>1, <1>2 DEF Fits, Steps
<1>5. /\ pc' \in [Calls -> Steps] /\ loc' \in [Calls -> Locals]
      /\ \A d \in Calls : Fits(pc'[d], loc'[d])
  BY <1>2, <1>3, <1>4, RequestType
<1> QED
  BY <1>5 DEF Select, CyclesInv, PageTypes, cycleServer, modals

LEMMA WriteType ==
    ASSUME CyclesInv, NEW c \in Calls, NEW kind \in Writes, Write(c, kind)
    PROVE  CyclesInv'
<1> DEFINE cycle == IF current = None THEN None ELSE current.group
           query == Asking(kind, route, cycle, SelectedRound, Member(kind))
<1>1. /\ route \in Groups /\ current \in ShownCycle \cup {None} /\ selected \in Rounds \cup {None}
      /\ group \in Groups \cup {None} /\ review \in Groups \cup {None}
  BY DEF CyclesInv, PageTypes
<1>2. /\ SelectedRound \in Rounds \cup {None} /\ cycle \in Groups \cup {None}
      /\ current # None => SelectedRound \in Rounds /\ SelectedRound[1] = cycle
  BY <1>1, SelectedType DEF SelectedRound
<1>3. Member(kind) \in Groups \cup {None} /\ kind \in Kinds
  BY <1>1 DEF Member, Kinds
<1>4. query \in Locals /\ query.group = route /\ query.kind = kind /\ query.cycle = cycle /\ query.round = SelectedRound
  BY <1>1, <1>2, <1>3 DEF Asking, Locals, Status, Row
<1>5. pc' = [pc EXCEPT ![c] = "write"] /\ loc' = [loc EXCEPT ![c] = query]
  BY DEF Write, Request
<1>6. kind = "open" \/ current # None
  BY DEF Write
<1> HIDE DEF query, cycle
<1>7. Fits("write", query) /\ "write" \in Steps
  BY <1>1, <1>2, <1>4, <1>6 DEF Fits, Steps
<1>8. /\ pc' \in [Calls -> Steps] /\ loc' \in [Calls -> Locals]
      /\ \A d \in Calls : Fits(pc'[d], loc'[d])
  BY <1>4, <1>5, <1>7, RequestType
<1> QED
  BY <1>8 DEF Write, CyclesInv, PageTypes, cycleServer, view, modals

\* An answer is put into the request and changes nothing else of it.
LEMMA ReplyType ==
    ASSUME CyclesInv, NEW c \in Calls, NEW ok \in BOOLEAN, NEW cycle \in Status,
           NEW rounds \in SUBSET (1 .. LastRound), NEW contribution \in Row,
           pc[c] # "idle", Reply(c, ok, cycle, rounds, contribution), pc' = pc
    PROVE  loc' \in [Calls -> Locals] /\ \A d \in Calls : Fits(pc'[d], loc'[d])
<1>1. loc \in [Calls -> Locals] /\ \A d \in Calls : Fits(pc[d], loc[d])
  BY DEF CyclesInv, PageTypes
<1> DEFINE answered == [loc[c] EXCEPT !.answer = IF ok THEN "ok" ELSE "refused",
                                      !.status = cycle, !.done = rounds, !.row = contribution]
<1>2. loc' = [loc EXCEPT ![c] = answered]
  BY <1>1 DEF Reply
<1>3. /\ answered \in Locals /\ answered.group = loc[c].group /\ answered.kind = loc[c].kind
      /\ answered.round = loc[c].round /\ answered.cycle = loc[c].cycle
  BY <1>1 DEF Locals
<1> HIDE DEF answered
<1>4. loc' \in [Calls -> Locals] /\ loc'[c] = answered /\ \A d \in Calls \ {c} : loc'[d] = loc[d]
  BY <1>1, <1>2, <1>3
<1>5. Fits(pc[c], answered)
  BY <1>1, <1>3 DEF Fits
<1> QED
  BY <1>1, <1>4, <1>5

LEMMA ServeType ==
    ASSUME CyclesInv, NEW c \in Calls, Serve(c)
    PROVE  CyclesInv'
<1>1. /\ status \in [Groups -> Status] /\ row \in [Rounds -> Row] /\ done \subseteq Rounds
      /\ pc[c] # "idle" /\ pc' = pc /\ loc[c].group \in Groups /\ Fits(pc[c], loc[c])
      /\ loc[c].kind \in Kinds
  BY DEF Serve, CyclesInv, PageTypes, Fits, Locals
<1>2. /\ {"none", "open", "in_progress", "completed"} = Status
      /\ {"none", "proof", "paid"} = Row
      /\ \A g \in Groups : DoneIn(g) \in SUBSET (1 .. LastRound) /\ status[g] \in Status
  BY <1>1 DEF Status, Row, DoneIn
<1>3. CASE ServeRead(c)
  <2> DEFINE ok == pc[c] \in {"cycle", "ledger"} => InGroup(loc[c])
             cycle == IF pc[c] \in {"list", "cycle"} THEN status[loc[c].group] ELSE "none"
             rounds == IF pc[c] = "cycle" THEN DoneIn(loc[c].group) ELSE {}
             contribution == IF pc[c] = "ledger" THEN row[loc[c].round] ELSE "none"
  <2>1. Reply(c, ok, cycle, rounds, contribution) /\ UNCHANGED cycleServer
    BY <1>3 DEF ServeRead
  <2>2. ok \in BOOLEAN
    BY DEF InGroup
  <2>3. cycle \in Status /\ rounds \in SUBSET (1 .. LastRound)
    BY <1>1, <1>2
  <2>4. contribution \in Row
    BY <1>1, <1>2 DEF Fits
  <2> HIDE DEF ok, cycle, rounds, contribution
  <2>5. loc' \in [Calls -> Locals] /\ \A d \in Calls : Fits(pc'[d], loc'[d])
    BY <1>1, <2>1, <2>2, <2>3, <2>4, ReplyType
  <2> QED
    BY <1>1, <2>1, <2>5 DEF Serve, CyclesInv, PageTypes, cycleServer, view, modals
<1>4. CASE ServeWrite(c)
  <2>1. /\ Reply(c, Allowed(loc[c]), status'[loc[c].group], DoneIn(loc[c].group), "none")
        /\ status' = StatusAfter(loc[c]) \/ status' = status
        /\ row' = RowAfter(loc[c]) \/ row' = row
        /\ done' = DoneAfter(loc[c]) \/ done' = done
        /\ pc[c] = "write"
    <3>1. /\ pc[c] = "write"
          /\ IF Allowed(loc[c])
             THEN status' = StatusAfter(loc[c]) /\ row' = RowAfter(loc[c]) /\ done' = DoneAfter(loc[c])
             ELSE UNCHANGED cycleServer
          /\ Reply(c, Allowed(loc[c]), status'[loc[c].group], DoneIn(loc[c].group), "none")
      BY <1>4 DEF ServeWrite
    <3> QED
      BY <3>1 DEF cycleServer
  <2>2. status' \in [Groups -> Status]
    BY <1>1, <1>2, <2>1 DEF StatusAfter
  <2>3. row' \in [Rounds -> Row]
    BY <1>1, <1>2, <2>1 DEF RowAfter
  <2>4. done' \subseteq Rounds
    BY <1>1, <2>1 DEF DoneAfter, Fits
  <2>5. Allowed(loc[c]) \in BOOLEAN
    BY <1>1, <2>1 DEF Allowed, InGroup, Fits
  <2>6. status'[loc[c].group] \in Status /\ "none" \in Row
    BY <1>1, <1>2, <2>2
  <2>7. loc' \in [Calls -> Locals] /\ \A d \in Calls : Fits(pc'[d], loc'[d])
    BY <1>1, <1>2, <2>1, <2>5, <2>6, ReplyType
  <2> QED
    BY <1>1, <2>2, <2>3, <2>4, <2>7 DEF Serve, CyclesInv, PageTypes, view, modals
<1> QED
  BY <1>3, <1>4 DEF Serve

\* The answers.
LEMMA TakeMineType ==
    ASSUME CyclesInv, NEW c \in Calls, TakeMine(c)
    PROVE  /\ pc' \in [Calls -> Steps] /\ loc' \in [Calls -> Locals]
           /\ \A d \in Calls : Fits(pc'[d], loc'[d])
<1>1. Follow(c, "group", route, None, None) /\ route \in Groups /\ "group" \in Steps \ {"write"} /\ "group" # "ledger"
  BY DEF TakeMine, CyclesInv, PageTypes, Steps
<1> QED
  BY <1>1, FollowType

LEMMA TakeGroupType ==
    ASSUME CyclesInv, NEW c \in Calls, NEW found \in BOOLEAN, TakeGroup(c, found)
    PROVE  /\ pc' \in [Calls -> Steps] /\ loc' \in [Calls -> Locals]
           /\ \A d \in Calls : Fits(pc'[d], loc'[d])
<1>1. Follow(c, "list", route, None, None) /\ route \in Groups /\ "list" \in Steps \ {"write"} /\ "list" # "ledger"
  BY DEF TakeGroup, CyclesInv, PageTypes, Steps
<1> QED
  BY <1>1, FollowType

LEMMA FetchLedgerType ==
    ASSUME CyclesInv, NEW c \in Calls, NEW cycle \in ShownCycle, NEW id \in Rounds \cup {None},
           cycle # None, loc[c].group \in Groups, FetchLedger(c, cycle, id)
    PROVE  /\ pc' \in [Calls -> Steps] /\ loc' \in [Calls -> Locals]
           /\ \A d \in Calls : Fits(pc'[d], loc'[d])
<1>1. Follow(c, "ledger", loc[c].group, cycle.group, SelectedOf(cycle, id)) /\ "ledger" \in Steps \ {"write"}
  BY DEF FetchLedger, Steps
<1>2. cycle.group \in Groups /\ SelectedOf(cycle, id) \in Rounds
  BY SelectedType
<1> QED
  BY <1>1, <1>2, FollowType

LEMMA ShownType ==
    ASSUME CyclesInv, NEW c \in Calls, loc[c].group \in Groups
    PROVE  Shown(c) \in ShownCycle /\ Shown(c) # None
<1>1. loc[c].status \in Status /\ loc[c].done \in SUBSET (1 .. LastRound)
  BY DEF CyclesInv, PageTypes, Locals
<1>2. Shown(c) \in ShownCycle
  BY <1>1 DEF Shown, ShownCycle
<1> QED
  BY <1>2, NoneIsNothing DEF ShownCycle

LEMMA TakeCycleType ==
    ASSUME CyclesInv, NEW c \in Calls, loc[c].group \in Groups, TakeCycle(c)
    PROVE  /\ pc' \in [Calls -> Steps] /\ loc' \in [Calls -> Locals]
           /\ \A d \in Calls : Fits(pc'[d], loc'[d])
           /\ current' \in ShownCycle \cup {None} /\ selected' \in Rounds \cup {None}
<1>1. Shown(c) \in ShownCycle /\ Shown(c) # None /\ selected \in Rounds \cup {None}
  BY ShownType DEF CyclesInv, PageTypes
<1>2. FetchLedger(c, Shown(c), selected) /\ current' = Shown(c) /\ selected' = SelectedOf(Shown(c), selected)
  BY DEF TakeCycle
<1>3. SelectedOf(Shown(c), selected) \in Rounds
  BY <1>1, SelectedType
<1> QED
  BY <1>1, <1>2, <1>3, FetchLedgerType

LEMMA TakeListType ==
    ASSUME CyclesInv, NEW c \in Calls, loc[c].group \in Groups, TakeList(c)
    PROVE  /\ pc' \in [Calls -> Steps] /\ loc' \in [Calls -> Locals]
           /\ \A d \in Calls : Fits(pc'[d], loc'[d])
           /\ current' \in {current, None} /\ selected' \in {selected, None}
           /\ contributions' \in {contributions, None}
<1>1. CASE loc[c].status = "none"
  BY <1>1, IdleType DEF TakeList, End
<1>2. CASE loc[c].status # "none"
  <2>1. Follow(c, "cycle", loc[c].group, loc[c].group, None) /\ "cycle" \in Steps \ {"write"} /\ "cycle" # "ledger"
    BY <1>2 DEF TakeList, Steps
  <2>2. /\ pc' \in [Calls -> Steps] /\ loc' \in [Calls -> Locals]
        /\ \A d \in Calls : Fits(pc'[d], loc'[d])
    BY <2>1, FollowType
  <2> QED
    BY <1>2, <2>2 DEF TakeList
<1> QED
  BY <1>1, <1>2

LEMMA TakeWriteType ==
    ASSUME CyclesInv, NEW c \in Calls, pc[c] = "write", TakeWrite(c)
    PROVE  /\ pc' \in [Calls -> Steps] /\ loc' \in [Calls -> Locals]
           /\ \A d \in Calls : Fits(pc'[d], loc'[d])
           /\ current' \in ShownCycle \cup {None}
<1>1. /\ current \in ShownCycle \cup {None} /\ selected \in Rounds \cup {None}
      /\ loc[c].group \in Groups /\ loc[c].kind \in CycleWrites \cup RoundWrites
  BY DEF CyclesInv, PageTypes, Fits, Writes
<1>2. CASE loc[c].kind \in CycleWrites
  <2>1. Follow(c, "list", loc[c].group, None, None) /\ "list" \in Steps \ {"write"} /\ "list" # "ledger"
    BY <1>2 DEF TakeWrite, Steps, CycleWrites, RoundWrites
  <2>2. current' \in {current, Shown(c)} /\ Shown(c) \in ShownCycle
    BY <1>1, <1>2, ShownType DEF TakeWrite, CycleWrites, RoundWrites
  <2> QED
    BY <1>1, <2>1, <2>2, FollowType
<1>3. CASE loc[c].kind \in RoundWrites /\ current = None
  <2>1. End(c) /\ current' = current
    BY <1>3 DEF TakeWrite, CycleWrites, RoundWrites
  <2> QED
    BY <1>1, <2>1, IdleType DEF End
<1>4. CASE loc[c].kind \in {"upload", "submit"} /\ current # None
  <2>1. FetchLedger(c, current, selected) /\ current' = current
    BY <1>4 DEF TakeWrite, CycleWrites, RoundWrites
  <2> QED
    BY <1>1, <1>4, <2>1, FetchLedgerType
<1>5. CASE loc[c].kind \in RoundWrites \ {"upload", "submit"} /\ current # None
  <2>1. Follow(c, "cycle", loc[c].group, current.group, None) /\ current' = current
    BY <1>5 DEF TakeWrite, CycleWrites, RoundWrites
  <2>2. current.group \in Groups /\ "cycle" \in Steps \ {"write"} /\ "cycle" # "ledger"
    BY <1>1, <1>5 DEF ShownCycle, Steps
  <2> QED
    BY <1>1, <2>1, <2>2, FollowType
<1> QED
  BY <1>1, <1>2, <1>3, <1>4, <1>5

LEMMA TakeType ==
    ASSUME CyclesInv, NEW c \in Calls, Take(c)
    PROVE  CyclesInv'
<1>1. /\ pc[c] # "idle" /\ loc[c].group \in Groups /\ pc[c] \in Steps
      /\ current \in ShownCycle \cup {None} /\ selected \in Rounds \cup {None}
      /\ group \in Groups \cup {None} /\ contributions \in Ledger \cup {None}
  BY DEF Take, CyclesInv, PageTypes, Fits
<1>2. cycleServer' = cycleServer /\ route' = route /\ review' \in {review, None}
  BY DEF Take, Closes
<1> SUFFICES /\ pc' \in [Calls -> Steps] /\ loc' \in [Calls -> Locals]
             /\ \A d \in Calls : Fits(pc'[d], loc'[d])
             /\ group' \in Groups \cup {None} /\ contributions' \in Ledger \cup {None}
             /\ current' \in ShownCycle \cup {None} /\ selected' \in Rounds \cup {None}
  BY <1>2 DEF CyclesInv, PageTypes, cycleServer
<1>3. CASE pc[c] = "mine"
  BY <1>1, <1>3, TakeMineType DEF Take, TakeMine
<1>4. CASE pc[c] = "group"
  <2>1. TakeGroup(c, TRUE)
    BY <1>4 DEF Take
  <2>2. group' = loc[c].group /\ UNCHANGED <<current, selected, contributions>>
    BY <2>1 DEF TakeGroup
  <2> QED
    BY <1>1, <2>1, <2>2, TakeGroupType
<1>5. CASE pc[c] = "list"
  <2>1. TakeList(c)
    BY <1>5 DEF Take
  <2>2. group' = group
    BY <2>1 DEF TakeList
  <2> QED
    BY <1>1, <2>1, <2>2, TakeListType
<1>6. CASE pc[c] = "cycle"
  <2>1. TakeCycle(c)
    BY <1>6 DEF Take
  <2>2. group' = group /\ contributions' = contributions
    BY <2>1 DEF TakeCycle
  <2> QED
    BY <1>1, <2>1, <2>2, TakeCycleType
<1>7. CASE pc[c] = "ledger"
  <2>1. TakeLedger(c)
    BY <1>7 DEF Take
  <2>2. loc[c].round \in Rounds /\ loc[c].row \in Row
    BY <1>7 DEF CyclesInv, PageTypes, Fits, Locals
  <2>3. contributions' \in Ledger
    BY <2>1, <2>2 DEF TakeLedger, Ledger
  <2>4. End(c) /\ UNCHANGED <<group, current, selected>>
    BY <2>1 DEF TakeLedger
  <2> QED
    BY <1>1, <2>3, <2>4, IdleType DEF End
<1>8. CASE pc[c] = "write"
  <2>1. TakeWrite(c)
    BY <1>8 DEF Take
  <2>2. UNCHANGED <<group, selected, contributions>>
    BY <2>1 DEF TakeWrite
  <2> QED
    BY <1>1, <1>8, <2>1, <2>2, TakeWriteType
<1> QED
  BY <1>1, <1>3, <1>4, <1>5, <1>6, <1>7, <1>8 DEF Steps

LEMMA ThrowsType ==
    ASSUME CyclesInv, NEW c \in Calls, Throws(c)
    PROVE  CyclesInv'
<1>1. UNCHANGED <<cycleServer, route, modals>> /\ group \in Groups \cup {None}
  BY DEF Throws, CyclesInv, PageTypes
<1> SUFFICES /\ pc' \in [Calls -> Steps] /\ loc' \in [Calls -> Locals]
             /\ \A d \in Calls : Fits(pc'[d], loc'[d])
             /\ group' \in Groups \cup {None} /\ UNCHANGED <<current, selected, contributions>>
  BY <1>1 DEF CyclesInv, PageTypes, cycleServer, modals
<1>2. CASE pc[c] = "mine"
  BY <1>2, TakeMineType DEF Throws, TakeMine
<1>3. CASE pc[c] = "group"
  <2>1. TakeGroup(c, FALSE)
    BY <1>3 DEF Throws
  <2>2. group' = None /\ UNCHANGED <<current, selected, contributions>>
    BY <2>1 DEF TakeGroup
  <2> QED
    BY <2>1, <2>2, TakeGroupType
<1>4. CASE pc[c] \notin {"mine", "group"}
  <2>1. GiveUp(c)
    BY <1>4 DEF Throws
  <2> QED
    BY <1>1, <2>1, IdleType DEF GiveUp, End, view
<1> QED
  BY <1>2, <1>3, <1>4

LEMMA CyclesInvNext == CyclesInv /\ [Next]_vars => CyclesInv'
<1> SUFFICES ASSUME CyclesInv, [Next]_vars PROVE CyclesInv'
  OBVIOUS
<1>1. CASE OpenReview
  <2>1. contributions \in Ledger /\ review' = contributions.round[1]
    BY <1>1 DEF OpenReview, CyclesInv, PageTypes
  <2>2. review' \in Groups
    BY <2>1 DEF Ledger, Rounds
  <2> QED
    BY <1>1, <2>2 DEF OpenReview, CyclesInv, PageTypes, cycleServer, view, calls
<1>2. CASE OpenPay \/ CloseModal
  BY <1>2 DEF OpenPay, CloseModal, CyclesInv, PageTypes, cycleServer, view, calls
<1>3. ASSUME NEW c \in Calls, Refresh(c) PROVE CyclesInv'
  BY <1>3, LoadType DEF Refresh, CyclesInv, PageTypes
<1>4. ASSUME NEW c \in Calls, NEW g \in Groups, Navigate(c, g) PROVE CyclesInv'
  BY <1>4, LoadType DEF Navigate
<1>5. ASSUME NEW c \in Calls, NEW i \in Rounds, Select(c, i) PROVE CyclesInv'
  BY <1>5, SelectType
<1>6. ASSUME NEW c \in Calls, NEW kind \in Writes, Write(c, kind) PROVE CyclesInv'
  BY <1>6, WriteType
<1>7. ASSUME NEW c \in Calls, Serve(c) PROVE CyclesInv'
  BY <1>7, ServeType
<1>8. ASSUME NEW c \in Calls, Take(c) PROVE CyclesInv'
  BY <1>8, TakeType
<1>9. ASSUME NEW c \in Calls, Refused(c) \/ Lost(c) PROVE CyclesInv'
  BY <1>9, ThrowsType DEF Refused, Lost
<1>10. CASE UNCHANGED vars
  BY <1>10 DEF vars, CyclesInv, PageTypes, cycleServer, view, modals, calls
<1> QED
  BY <1>1, <1>2, <1>3, <1>4, <1>5, <1>6, <1>7, <1>8, <1>9, <1>10 DEF Next, User

\* Only a write that is served changes a row: one the server allows is of a cycle
\* of the group it is sent to, and what it writes is of a round of that cycle.
LEMMA RowIsWritten ==
    ASSUME CyclesInv, NEW c \in Calls, Serve(c), NEW i \in Rounds, row'[i] # row[i]
    PROVE  pc[c] = "write" /\ loc[c].group = i[1]
<1>1. ServeWrite(c)
  BY DEF Serve, ServeRead, cycleServer
<1>2. pc[c] = "write" /\ Allowed(loc[c]) /\ row' = RowAfter(loc[c])
  BY <1>1 DEF ServeWrite, cycleServer
<1>3. /\ loc[c].kind \in {"upload", "submit", "approve", "record"}
      /\ row' \in {[row EXCEPT ![loc[c].round] = "proof"], [row EXCEPT ![loc[c].round] = "paid"]}
  BY <1>2 DEF RowAfter
<1>4. i = loc[c].round
  BY <1>3 DEF CyclesInv, PageTypes
<1>5. loc[c].round[1] = loc[c].cycle
  BY <1>2, <1>3 DEF CyclesInv, Fits
<1>6. loc[c].cycle = loc[c].group
  BY <1>2, <1>3 DEF Allowed, InGroup
<1> QED
  BY <1>2, <1>4, <1>5, <1>6

\* Whatever the store holds when a button is clicked, and whatever answers come
\* in before the write is served, it writes to no group but the one the URL named
\* at the click: the server looks up what is written under the group in the path.
THEOREM WritesKeepToTheGroup == Spec => WritesStayInGroup
<1>1. CyclesInv /\ [Next]_vars =>
        [\A i \in Rounds : row'[i] # row[i] => \E c \in Calls : pc[c] = "write" /\ loc[c].group = i[1]]_vars
  <2> SUFFICES ASSUME CyclesInv, [Next]_vars, NEW i \in Rounds, row'[i] # row[i]
               PROVE  \E c \in Calls : pc[c] = "write" /\ loc[c].group = i[1]
    OBVIOUS
  <2>1. row' # row
    OBVIOUS
  <2>2. ~ OpenReview /\ ~ OpenPay /\ ~ CloseModal
    BY <2>1 DEF OpenReview, OpenPay, CloseModal, cycleServer
  <2>3. ~ \E c \in Calls : \/ Refresh(c) \/ \E g \in Groups : Navigate(c, g)
                           \/ \E j \in Rounds : Select(c, j) \/ \E kind \in Writes : Write(c, kind)
    BY <2>1 DEF Refresh, Navigate, Load, Select, Write, cycleServer
  <2>4. ~ \E c \in Calls : Take(c) \/ Refused(c) \/ Lost(c)
    BY <2>1 DEF Take, Refused, Lost, Throws, cycleServer
  <2>5. \E c \in Calls : Serve(c)
    BY <2>1, <2>2, <2>3, <2>4 DEF Next, User, vars, cycleServer
  <2> QED
    BY <2>5, RowIsWritten
<1> QED
  BY <1>1, CyclesInvInit, CyclesInvNext, PTL DEF Spec, WritesStayInGroup

=============================================================================
