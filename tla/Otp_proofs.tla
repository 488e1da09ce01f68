------------------------------ MODULE Otp_proofs ------------------------------
(***************************************************************************)
(* What Otp promises whatever interleaves, proved for any number of        *)
(* handlers in flight, codes, attempts and resends.                        *)
(***************************************************************************)
EXTENDS Otp, FiniteSetTheorems, WellFoundedInduction, TLAPS

USE DEF Codes

\* The newest of some codes is one of them.
LEMMA NewestOfSome ==
    ASSUME NEW S \in SUBSET Codes, S # {}
    PROVE  Newest(S) \in S /\ \A b \in S : b <= Newest(S)
<1> DEFINE Below == {MaxCodes - c : c \in S}
<1>1. Below \subseteq Nat /\ Below # {}
  <2>1. \A c \in S : c \in 1 .. MaxCodes /\ MaxCodes - c \in Nat
    BY ConstantsAssumption
  <2>2. PICK c \in S : TRUE
    OBVIOUS
  <2>3. MaxCodes - c \in Below
    BY <2>2
  <2> QED
    BY <2>1, <2>3
<1>2. PICK x \in Below : \A y \in Below : ~ (<<y, x>> \in OpToRel(<, Nat))
  BY <1>1, NatLessThanWellFounded, WFMin
<1>3. PICK c \in S : x = MaxCodes - c
  BY <1>2
<1>4. ASSUME NEW b \in S PROVE b <= c
  <2>1. MaxCodes - b \in Below /\ MaxCodes - b \in Nat /\ x \in Nat
    BY <1>1, <1>2
  <2>2. ~ (MaxCodes - b < x)
    BY <1>2, <2>1 DEF OpToRel
  <2> QED
    BY <1>3, <2>2, ConstantsAssumption
<1> QED
  BY <1>3, <1>4 DEF Newest

\* What an idle handler keeps.
LEMMA NoLocalsType == NoLocals \in Locals
  BY ConstantsAssumption DEF NoLocals, Locals, Purpose, Operations

-----------------------------------------------------------------------------
(* The type invariant. *)

\* A handler keeps what it is given, and the others what they had.
LEMMA GotoType ==
    ASSUME TypeOK, NEW r \in Requests, NEW step \in Steps, NEW l \in Locals, Goto(r, step, l)
    PROVE  /\ pc' \in [Requests -> Steps] /\ loc' \in [Requests -> Locals]
           /\ pc'[r] = step /\ loc'[r] = l
           /\ \A q \in Requests \ {r} : pc'[q] = pc[q] /\ loc'[q] = loc[q]
  BY DEF TypeOK, Goto

\* The same of a handler that ends.
LEMMA FinishType ==
    ASSUME TypeOK, NEW r \in Requests, Finish(r)
    PROVE  /\ pc' \in [Requests -> Steps] /\ loc' \in [Requests -> Locals]
           /\ pc'[r] = "idle"
           /\ \A q \in Requests \ {r} : pc'[q] = pc[q] /\ loc'[q] = loc[q]
  BY NoLocalsType, GotoType DEF Finish, Steps

\* A handler that enters a code goes on with one that is open for its purpose.
LEMMA VerifyReadCode ==
    ASSUME TypeOK, NEW r \in Requests, NEW op \in Operations, NEW guess, VerifyRead(r, op, guess),
           NEW c, c = Newest(Unused(PurposeOf(op)))
    PROVE  /\ c \in Codes /\ otp[c].purpose = PurposeOf(op)
           /\ [NoLocals EXCEPT !.code = c, !.attempts = otp[c].attempts, !.op = op] \in Locals
<1>1. c \in Unused(PurposeOf(op))
  BY NewestOfSome DEF VerifyRead, Unused, Created
<1>2. c \in Codes /\ otp[c] \in Row /\ otp[c].purpose = PurposeOf(op)
  BY <1>1 DEF Unused, Created, TypeOK
<1>3. otp[c].attempts \in Nat /\ c \in 0 .. MaxCodes
  BY <1>2, ConstantsAssumption DEF Row
<1> QED
  BY <1>2, <1>3, NoLocalsType DEF Locals

\* Whoever begins keeps the types,
LEMMA BeginType ==
    ASSUME TypeOK, NEW r \in Requests, Begin(r)
    PROVE  TypeOK'
<1>1. CASE Signup(r)
  BY <1>1, NoLocalsType, GotoType DEF Signup, TypeOK, Steps, history
<1>2. ASSUME NEW p \in Purpose, RequestCode(r, p) PROVE TypeOK'
  <2>1. [NoLocals EXCEPT !.purpose = p] \in Locals
    BY NoLocalsType DEF Locals
  <2> QED
    BY <1>2, <2>1, GotoType DEF RequestCode, TypeOK, Steps, history, user
<1>3. ASSUME NEW op \in Operations, NEW guess, VerifyRead(r, op, guess) PROVE TypeOK'
  <2> DEFINE c == Newest(Unused(PurposeOf(op)))
             l == [NoLocals EXCEPT !.code = c, !.attempts = otp[c].attempts, !.op = op]
             step == IF guess = c THEN "right" ELSE "wrong"
  <2>1. l \in Locals /\ step \in Steps
    BY <1>3, VerifyReadCode DEF Steps
  <2>2. Goto(r, step, l) /\ UNCHANGED <<user, otp, redeemed>> /\ crossed' \in BOOLEAN
    BY <1>3 DEF VerifyRead, TypeOK
  <2>3. pc' \in [Requests -> Steps] /\ loc' \in [Requests -> Locals]
    BY <2>1, <2>2, GotoType
  <2> QED
    BY <2>2, <2>3 DEF TypeOK, user
<1> QED
  BY <1>1, <1>2, <1>3 DEF Begin

\* whoever goes on does,
LEMMA ResumeType ==
    ASSUME TypeOK, NEW r \in Requests, Resume(r)
    PROVE  TypeOK'
<1> USE DEF user, history
<1>1. loc[r] \in Locals
  BY DEF TypeOK
<1>2. CASE Invalidate(r)
  <2>1. otp' \in [Codes -> Row]
    BY <1>2, ZenonT(60) DEF Invalidate, TypeOK, Row
  <2> QED
    BY <1>1, <1>2, <2>1, GotoType DEF Invalidate, TypeOK, Steps
<1>3. CASE Create(r)
  <2>1. NewRow(loc[r].purpose) \in Row
    BY <1>1 DEF NewRow, NoRow, Row, Locals
  <2>2. otp' \in [Codes -> Row]
    BY <1>3, <2>1 DEF Create, TypeOK
  <2> QED
    BY <1>3, <2>2, FinishType DEF Create, TypeOK
<1>4. CASE VerifyWrong(r)
  <2> DEFINE c == loc[r].code
             lock == loc[r].attempts + 1 >= MaxAttempts
             row == [otp[c] EXCEPT !.attempts = loc[r].attempts + 1, !.locked = lock, !.used = lock]
  <2>1. loc[r].attempts + 1 \in Nat /\ lock \in BOOLEAN
    BY <1>1 DEF Locals
  <2>2. otp' \in [Codes -> Row]
    <3>1. c \in Codes => row \in Row
      BY <2>1, ZenonT(60) DEF TypeOK, Row
    <3>2. otp' = [otp EXCEPT ![c] = row]
      BY <1>4 DEF VerifyWrong, TypeOK
    <3> QED
      BY <3>1, <3>2 DEF TypeOK
  <2> QED
    BY <1>4, <2>2, FinishType DEF VerifyWrong, TypeOK
<1>5. CASE VerifyRight(r)
  <2>1. otp' \in [Codes -> Row]
    BY <1>5, ZenonT(60) DEF VerifyRight, TypeOK, Row
  <2> QED
    BY <1>1, <1>5, <2>1, GotoType DEF VerifyRight, TypeOK, Steps
<1>6. CASE UpdateAccount(r)
  BY <1>6, FinishType DEF UpdateAccount, TypeOK
<1> QED
  BY <1>2, <1>3, <1>4, <1>5, <1>6 DEF Resume

\* and so do the clock and an invitation.
LEMMA EnvironmentType ==
    ASSUME TypeOK, Environment
    PROVE  TypeOK'
<1> USE DEF user, history
<1>1. CASE Invite
  BY <1>1 DEF Invite, TypeOK
<1>2. ASSUME NEW c \in Codes, GrowOld(c) PROVE TypeOK'
  <2>1. otp' \in [Codes -> Row]
    BY <1>2 DEF GrowOld, TypeOK, Row
  <2> QED
    BY <1>2, <2>1 DEF GrowOld, TypeOK
<1> QED
  BY <1>1, <1>2 DEF Environment

\* The type invariant of codes, accounts and handlers.
THEOREM TypeCorrect == Spec => []TypeOK
<1>1. Init => TypeOK
  <2>1. NoRow \in Row
    BY DEF NoRow, Row
  <2> QED
    BY <2>1, NoLocalsType DEF Init, TypeOK, Steps
<1>2. TypeOK /\ [Next]_vars => TypeOK'
  <2> SUFFICES ASSUME TypeOK, [Next]_vars PROVE TypeOK'
    OBVIOUS
  <2>1. ASSUME NEW r \in Requests, Fail(r) PROVE TypeOK'
    BY <2>1, FinishType DEF Fail, TypeOK, user, history
  <2>2. CASE UNCHANGED vars
    BY <2>2 DEF TypeOK, vars, user, history
  <2> QED
    BY <2>1, <2>2, BeginType, ResumeType, EnvironmentType DEF Next
<1> QED
  BY <1>1, <1>2, PTL DEF Spec

-----------------------------------------------------------------------------
(* Accounts open by codes only. *)

\* A handler works on a code of the purpose it is for, and a code accepted for
\* an account was redeemed; without an account there is no code, no password and
\* no handler.
CodesKnown ==
    \A r \in Requests :
        /\ pc[r] \in {"wrong", "right", "account"} =>
              loc[r].code \in Codes /\ otp[loc[r].code].purpose = PurposeOf(loc[r].op)
        /\ pc[r] = "account" => loc[r].code \in redeemed

NothingWithoutAccount ==
    account = "none" =>
        /\ ~ password
        /\ \A c \in Codes : otp[c].purpose = "none"
        /\ \A r \in Requests : pc[r] = "idle"

AccountInv == CodesKnown /\ NothingWithoutAccount /\ OnlyByPhone

\* No step changes the purpose of a code there is, or takes a redemption back.
LEMMA PurposesStay ==
    ASSUME TypeOK, [Next]_vars
    PROVE  /\ \A c \in Codes : otp[c].purpose # "none" => otp'[c].purpose = otp[c].purpose
           /\ redeemed \subseteq redeemed'
<1> USE DEF user, history, TypeOK
<1>1. ASSUME NEW r \in Requests, Invalidate(r)
      PROVE  (\A c \in Codes : otp'[c].purpose = otp[c].purpose) /\ redeemed' = redeemed
  BY <1>1 DEF Invalidate, Row
<1>2. ASSUME NEW r \in Requests, Create(r)
      PROVE  /\ \A c \in Codes : otp[c].purpose # "none" => otp'[c].purpose = otp[c].purpose
             /\ redeemed' = redeemed
  BY <1>2 DEF Create, Created
<1>3. ASSUME NEW r \in Requests, VerifyWrong(r)
      PROVE  (\A c \in Codes : otp'[c].purpose = otp[c].purpose) /\ redeemed' = redeemed
  BY <1>3 DEF VerifyWrong, Row
<1>4. ASSUME NEW r \in Requests, VerifyRight(r)
      PROVE  (\A c \in Codes : otp'[c].purpose = otp[c].purpose) /\ redeemed \subseteq redeemed'
  BY <1>4 DEF VerifyRight, Row
<1>5. ASSUME NEW c \in Codes, GrowOld(c)
      PROVE  (\A b \in Codes : otp'[b].purpose = otp[b].purpose) /\ redeemed' = redeemed
  BY <1>5 DEF GrowOld, Row
<1>6. ASSUME NEW r \in Requests, Begin(r) \/ Fail(r) \/ UpdateAccount(r)
      PROVE  otp' = otp /\ redeemed' = redeemed
  BY <1>6 DEF Begin, Signup, RequestCode, VerifyRead, Fail, UpdateAccount
<1>7. CASE Invite \/ UNCHANGED vars
  BY <1>7 DEF Invite, vars
<1> QED
  BY <1>1, <1>2, <1>3, <1>4, <1>5, <1>6, <1>7 DEF Next, Resume, Environment

\* Whoever begins keeps the way of the account,
LEMMA AccountInvBegins ==
    ASSUME TypeOK, AccountInv, NEW r \in Requests, Begin(r)
    PROVE  AccountInv'
<1> USE DEF AccountInv, CodesKnown, NothingWithoutAccount, OnlyByPhone, Reached
<1>1. CASE Signup(r)
  <2>1. pc'[r] = "invalidate" /\ \A q \in Requests \ {r} : pc'[q] = pc[q] /\ loc'[q] = loc[q]
    BY <1>1, NoLocalsType, GotoType DEF Signup, Steps
  <2> QED
    BY <1>1, <2>1 DEF Signup, history
<1>2. ASSUME NEW p \in Purpose, RequestCode(r, p) PROVE AccountInv'
  <2>1. [NoLocals EXCEPT !.purpose = p] \in Locals
    BY NoLocalsType DEF Locals
  <2>2. pc'[r] = "invalidate" /\ \A q \in Requests \ {r} : pc'[q] = pc[q] /\ loc'[q] = loc[q]
    BY <1>2, <2>1, GotoType DEF RequestCode, Steps
  <2>3. account # "none"
    BY <1>2 DEF RequestCode, MayRequest
  <2> QED
    BY <1>2, <2>2, <2>3 DEF RequestCode, history, user
<1>3. ASSUME NEW op \in Operations, NEW guess, VerifyRead(r, op, guess) PROVE AccountInv'
  <2> DEFINE c == Newest(Unused(PurposeOf(op)))
             l == [NoLocals EXCEPT !.code = c, !.attempts = otp[c].attempts, !.op = op]
             step == IF guess = c THEN "right" ELSE "wrong"
  <2>1. l \in Locals /\ step \in Steps /\ c \in Codes /\ otp[c].purpose = PurposeOf(op)
    BY <1>3, VerifyReadCode DEF Steps
  <2>2. l.code = c /\ l.op = op
    BY DEF NoLocals
  <2>3. /\ pc'[r] = step /\ loc'[r] = l
        /\ \A q \in Requests \ {r} : pc'[q] = pc[q] /\ loc'[q] = loc[q]
    BY <1>3, <2>1, GotoType DEF VerifyRead
  <2>4. account # "none" /\ UNCHANGED <<account, password, otp, redeemed>>
    BY <1>3 DEF VerifyRead, MayEnter, user
  <2>5. /\ pc'[r] \in {"right", "wrong"}
        /\ loc'[r].code \in Codes /\ otp[loc'[r].code].purpose = PurposeOf(loc'[r].op)
    BY <2>1, <2>2, <2>3
  <2>6. \A q \in Requests \ {r} : pc'[q] = pc[q] /\ loc'[q] = loc[q]
    BY <2>3
  <2> HIDE DEF c, l, step
  <2>7. CodesKnown'
    BY <2>4, <2>5, <2>6 DEF PurposeOf
  <2> QED
    BY <2>4, <2>7
<1> QED
  BY <1>1, <1>2, <1>3 DEF Begin

\* A handler that is through reaches the account by the code it has redeemed.
LEMMA AccountInvUpdates ==
    ASSUME TypeOK, AccountInv, NEW r \in Requests, UpdateAccount(r)
    PROVE  AccountInv'
<1> USE DEF AccountInv
<1>1. pc'[r] = "idle" /\ \A q \in Requests \ {r} : pc'[q] = pc[q] /\ loc'[q] = loc[q]
  BY FinishType DEF UpdateAccount
<1>2. Reached(PurposeOf(loc[r].op))
  BY DEF UpdateAccount, CodesKnown, Reached
<1>3. account # "none"
  BY DEF UpdateAccount, NothingWithoutAccount
<1>4. UNCHANGED <<otp, redeemed>>
  BY DEF UpdateAccount, history
<1>5. loc[r].op \in Operations
  BY DEF TypeOK, Locals
<1>6. OnlyByPhone'
  BY <1>2, <1>3, <1>4, <1>5 DEF OnlyByPhone, UpdateAccount, Reached, PurposeOf, Operations
<1>7. CodesKnown'
  BY <1>1, <1>4 DEF CodesKnown
<1>8. account' # "none"
  BY <1>3 DEF UpdateAccount
<1> QED
  BY <1>6, <1>7, <1>8 DEF NothingWithoutAccount

\* and whoever goes on does.
LEMMA AccountInvResumes ==
    ASSUME TypeOK, AccountInv, NEW r \in Requests,
           \/ Invalidate(r) \/ Create(r) \/ VerifyWrong(r) \/ VerifyRight(r) \/ Fail(r)
    PROVE  AccountInv'
<1> USE DEF AccountInv
<1>1. /\ \A c \in Codes : otp[c].purpose # "none" => otp'[c].purpose = otp[c].purpose
      /\ redeemed \subseteq redeemed'
  BY PurposesStay DEF Next, Resume
<1>2. UNCHANGED <<account, password>> /\ account # "none"
  BY DEF Invalidate, Create, VerifyWrong, VerifyRight, Fail, user, NothingWithoutAccount
<1>3. \A q \in Requests \ {r} : pc'[q] = pc[q] /\ loc'[q] = loc[q]
  BY GotoType, FinishType DEF Invalidate, Create, VerifyWrong, VerifyRight, Fail, TypeOK, Steps
<1>4. \/ pc'[r] \in {"idle", "create"}
      \/ pc[r] = "right" /\ pc'[r] = "account" /\ loc'[r] = loc[r] /\ redeemed' = redeemed \cup {loc[r].code}
  BY GotoType, FinishType DEF Invalidate, Create, VerifyWrong, VerifyRight, Fail, TypeOK, Steps
<1>5. \A p \in Purpose : Reached(p) => Reached(p)'
  BY <1>1 DEF Reached, TypeOK, Purpose
<1>6. OnlyByPhone'
  BY <1>2, <1>5 DEF OnlyByPhone, Purpose
<1>7. CodesKnown'
  BY <1>1, <1>3, <1>4 DEF CodesKnown, PurposeOf
<1> QED
  BY <1>2, <1>6, <1>7 DEF NothingWithoutAccount

\* The way of the account holds of every run.
LEMMA AccountInvariant == Spec => []AccountInv
<1>1. Init => AccountInv
  BY DEF Init, AccountInv, CodesKnown, NothingWithoutAccount, OnlyByPhone, NoRow
<1>2. TypeOK /\ AccountInv /\ [Next]_vars => AccountInv'
  <2> SUFFICES ASSUME TypeOK, AccountInv, [Next]_vars PROVE AccountInv'
    OBVIOUS
  <2> USE DEF AccountInv, CodesKnown, NothingWithoutAccount, OnlyByPhone, Reached
  <2>1. CASE Invite
    BY <2>1 DEF Invite, history
  <2>2. ASSUME NEW c \in Codes, GrowOld(c) PROVE AccountInv'
    <3>1. \A b \in Codes : otp'[b].purpose = otp[b].purpose
      BY <2>2 DEF GrowOld, TypeOK, Row
    <3>2. redeemed \subseteq Codes
      BY DEF TypeOK
    <3> QED
      BY <2>2, <3>1, <3>2 DEF GrowOld, history, user
  <2>3. CASE UNCHANGED vars
    BY <2>3 DEF vars, user, history
  <2> QED
    BY <2>1, <2>2, <2>3, AccountInvBegins, AccountInvUpdates, AccountInvResumes DEF Next, Resume, Environment
<1> QED
  BY <1>1, <1>2, TypeCorrect, PTL DEF Spec

\* An account is verified, and its password chosen by somebody other than the
\* one who signed up, only by a code that reached the phone.
THEOREM AccountsOpenByPhone == Spec => []OnlyByPhone
<1>1. AccountInv => OnlyByPhone
  BY DEF AccountInv
<1> QED
  BY <1>1, AccountInvariant, PTL

-----------------------------------------------------------------------------
(* The window of resends. *)

\* The handlers that have passed the check and not created their row yet.
Waiting == {r \in Requests : pc[r] \in {"invalidate", "create"}}

\* A check leaves room for every handler there is.
WindowBounded == Cardinality(Recent) + Cardinality(Waiting) <= MaxResends - 1 + Cardinality(Requests)

\* The codes of the window can be counted.
LEMMA FiniteWindow ==
    /\ IsFiniteSet(Recent) /\ Cardinality(Recent) \in Nat
    /\ IsFiniteSet(Waiting) /\ Cardinality(Waiting) \in Nat
    /\ Cardinality(Waiting) <= Cardinality(Requests) /\ Cardinality(Requests) \in Nat
<1>1. IsFiniteSet(Codes)
  BY FS_Interval, ConstantsAssumption
<1>2. Recent \subseteq Codes /\ Waiting \subseteq Requests
  BY DEF Recent, Created, Waiting
<1> QED
  BY <1>1, <1>2, FS_Subset, FS_CardinalityType, ConstantsAssumption

\* A step that creates no code adds none to the window.
LEMMA WindowGrowsNot ==
    ASSUME WindowBounded, Recent' \subseteq Recent, Waiting' \subseteq Waiting
    PROVE  WindowBounded'
<1>1. Cardinality(Recent') <= Cardinality(Recent) /\ Cardinality(Recent') \in Nat
  BY FiniteWindow, FS_Subset, FS_CardinalityType
<1>2. Cardinality(Waiting') <= Cardinality(Waiting) /\ Cardinality(Waiting') \in Nat
  BY FiniteWindow, FS_Subset, FS_CardinalityType
<1>3. Recent' = (Recent)' /\ Waiting' = (Waiting)'
  OBVIOUS
<1> QED
  BY <1>1, <1>2, FiniteWindow, ConstantsAssumption DEF WindowBounded

\* A handler begins when the window has room, or there is no code yet.
LEMMA WindowChecked ==
    ASSUME WindowBounded, UNCHANGED otp, Cardinality(Recent) < MaxResends
    PROVE  WindowBounded'
<1>1. Recent' = Recent
  BY DEF Recent, Created
<1>2. Waiting' \subseteq Requests
  BY DEF Waiting
<1>3. Cardinality(Waiting') <= Cardinality(Requests) /\ Cardinality(Waiting') \in Nat
  BY <1>2, FS_Subset, FS_CardinalityType, ConstantsAssumption
<1>4. Cardinality(Recent) <= MaxResends - 1
  BY FiniteWindow, ConstantsAssumption
<1> QED
  BY <1>1, <1>3, <1>4, FiniteWindow, ConstantsAssumption DEF WindowBounded

\* Whoever begins was let in by a count below the limit.
LEMMA WindowBegins ==
    ASSUME TypeOK, AccountInv, WindowBounded, NEW r \in Requests, Begin(r)
    PROVE  WindowBounded'
<1>1. CASE Signup(r)
  <2>1. Recent = {}
    BY <1>1 DEF Signup, AccountInv, NothingWithoutAccount, Recent, Created
  <2>2. Cardinality(Recent) < MaxResends
    BY <2>1, FS_EmptySet, ConstantsAssumption
  <2> QED
    BY <1>1, <2>2, WindowChecked DEF Signup
<1>2. ASSUME NEW p \in Purpose, RequestCode(r, p) PROVE WindowBounded'
  BY <1>2, WindowChecked DEF RequestCode
<1>3. ASSUME NEW op \in Operations, NEW guess, VerifyRead(r, op, guess) PROVE WindowBounded'
  <2>1. pc'[r] \in {"right", "wrong"} /\ \A q \in Requests \ {r} : pc'[q] = pc[q]
    BY <1>3 DEF VerifyRead, Goto, TypeOK
  <2>2. Recent' \subseteq Recent /\ Waiting' \subseteq Waiting
    BY <1>3, <2>1 DEF VerifyRead, Recent, Created, Waiting
  <2> QED
    BY <2>2, WindowGrowsNot
<1> QED
  BY <1>1, <1>2, <1>3 DEF Begin

\* Its row takes the place of the handler.
LEMMA WindowCreates ==
    ASSUME TypeOK, WindowBounded, NEW r \in Requests, Create(r)
    PROVE  WindowBounded'
<1>1. PICK c \in Codes : /\ \A b \in Codes : b \in Created <=> b < c
                         /\ otp' = [otp EXCEPT ![c] = NewRow(loc[r].purpose)]
  BY DEF Create
<1>2. c \notin Created
  BY <1>1
<1>3. NewRow(loc[r].purpose).purpose # "none" /\ NewRow(loc[r].purpose).age = "fresh"
  BY DEF NewRow, NoRow, TypeOK, Locals, Purpose
<1>4. Recent' = Recent \cup {c} /\ c \notin Recent
  BY <1>1, <1>2, <1>3 DEF Recent, Created, TypeOK
<1>5. Waiting' = Waiting \ {r} /\ r \in Waiting
  BY DEF Create, Waiting, Finish, Goto, TypeOK
<1>6. Cardinality(Recent') = Cardinality(Recent) + 1
  BY <1>4, FiniteWindow, FS_AddElement
<1>7. Cardinality(Waiting') = Cardinality(Waiting) - 1
  BY <1>5, FiniteWindow, FS_RemoveElement
<1> QED
  BY <1>6, <1>7, FiniteWindow, ConstantsAssumption DEF WindowBounded

\* However many requests pass the check together, the codes of a window stay
\* within one per handler of the limit.
THEOREM WindowsAreBounded == Spec => []ResendsBounded
<1>1. Init => WindowBounded
  <2> SUFFICES ASSUME Init PROVE WindowBounded
    OBVIOUS
  <2>1. Recent = {} /\ Waiting = {}
    BY DEF Init, Recent, Created, NoRow, Waiting
  <2> QED
    BY <2>1, FS_EmptySet, FiniteWindow, ConstantsAssumption DEF WindowBounded
<1>2. TypeOK /\ AccountInv /\ WindowBounded /\ [Next]_vars => WindowBounded'
  <2> SUFFICES ASSUME TypeOK, AccountInv, WindowBounded, [Next]_vars PROVE WindowBounded'
    OBVIOUS
  <2>1. ASSUME NEW r \in Requests, Invalidate(r) PROVE WindowBounded'
    <3>1. \A c \in Codes : otp'[c].purpose = otp[c].purpose /\ otp'[c].age = otp[c].age
      BY <2>1 DEF Invalidate, TypeOK, Row
    <3>2. Recent' \subseteq Recent /\ Waiting' \subseteq Waiting
      BY <2>1, <3>1 DEF Recent, Created, Waiting, Invalidate, Goto, TypeOK
    <3> QED
      BY <3>2, WindowGrowsNot
  <2>2. ASSUME NEW r \in Requests, VerifyWrong(r) \/ VerifyRight(r) \/ UpdateAccount(r) \/ Fail(r)
        PROVE  WindowBounded'
    <3>1. \A c \in Codes : otp'[c].purpose = otp[c].purpose /\ otp'[c].age = otp[c].age
      <4>1. CASE VerifyWrong(r)
        BY <4>1 DEF VerifyWrong, TypeOK, Row
      <4>2. CASE VerifyRight(r)
        BY <4>2 DEF VerifyRight, TypeOK, Row
      <4>3. CASE UpdateAccount(r) \/ Fail(r)
        BY <4>3 DEF UpdateAccount, Fail
      <4> QED
        BY <2>2, <4>1, <4>2, <4>3
    <3>2. pc'[r] \notin {"invalidate", "create"} /\ \A q \in Requests \ {r} : pc'[q] = pc[q]
      BY <2>2 DEF VerifyWrong, VerifyRight, UpdateAccount, Fail, Finish, Goto, TypeOK
    <3>3. Recent' \subseteq Recent /\ Waiting' \subseteq Waiting
      BY <3>1, <3>2 DEF Recent, Created, Waiting
    <3> QED
      BY <3>3, WindowGrowsNot
  <2>3. ASSUME NEW c \in Codes, GrowOld(c) PROVE WindowBounded'
    <3>1. \A b \in Codes : otp'[b].purpose = otp[b].purpose /\ (otp[b].age = "old" => otp'[b].age = "old")
      BY <2>3 DEF GrowOld, Recent, Created, TypeOK, Row
    <3>2. Recent' \subseteq Recent /\ Waiting' \subseteq Waiting
      BY <2>3, <3>1 DEF Recent, Created, Waiting, GrowOld
    <3> QED
      BY <3>2, WindowGrowsNot
  <2>4. CASE Invite \/ UNCHANGED vars
    <3>1. Recent' \subseteq Recent /\ Waiting' \subseteq Waiting
      BY <2>4 DEF Invite, vars, Recent, Created, Waiting
    <3> QED
      BY <3>1, WindowGrowsNot
  <2> QED
    BY <2>1, <2>2, <2>3, <2>4, WindowBegins, WindowCreates DEF Next, Resume, Environment
<1>3. WindowBounded => ResendsBounded
  BY FiniteWindow, ConstantsAssumption DEF WindowBounded, ResendsBounded
<1>4. Spec => [](TypeOK /\ AccountInv)
  BY TypeCorrect, AccountInvariant, PTL
<1> QED
  BY <1>1, <1>2, <1>3, <1>4, PTL DEF Spec
-----------------------------------------------------------------------------
(* A code is accepted once, and only the last one is.                       *)

Checking == {"wrong", "right"}

\* A handler that replaces the codes is alone with them, and no two work on the
\* same code.
Apart ==
    \A q, r \in Requests : q # r =>
        /\ pc[q] = "create" => pc[r] \notin {"create", "wrong", "right"}
        /\ pc[q] \in Checking /\ pc[r] \in Checking => loc[q].code # loc[r].code

\* The code that is being checked has not been accepted and none has been sent
\* for its purpose since.
CheckedIsLast ==
    \A r \in Requests : pc[r] \in Checking =>
        /\ loc[r].code \notin redeemed
        /\ \A b \in Created : otp[b].purpose = otp[loc[r].code].purpose => b <= loc[r].code

\* Only the last code of a purpose may be open, none while the next is created.
EarlierAreUsed ==
    \A b, c \in Created : otp[b].purpose = otp[c].purpose /\ b < c => otp[b].used

ReplacedAreUsed == \A r \in Requests : pc[r] = "create" => Unused(loc[r].purpose) = {}

RedeemedAreUsed == \A c \in redeemed : c \in Created /\ otp[c].used

SerialInv ==
    ~ crossed =>
        Apart /\ CheckedIsLast /\ EarlierAreUsed /\ ReplacedAreUsed /\ RedeemedAreUsed

\* What the rows say of used codes and purposes is all the invariant is about: a
\* step that keeps it, and begins no check or replacement, preserves it.
LEMMA SerialKept ==
    ASSUME TypeOK, AccountInv, SerialInv, ~ crossed, UNCHANGED redeemed,
           \A c \in Codes : /\ otp'[c].purpose = otp[c].purpose
                            /\ otp'[c].used = otp[c].used,
           \A r \in Requests :
              pc'[r] \in {"create", "wrong", "right"} => pc'[r] = pc[r] /\ loc'[r] = loc[r]
    PROVE  SerialInv'
<1>1. Apart /\ CheckedIsLast /\ EarlierAreUsed /\ ReplacedAreUsed /\ RedeemedAreUsed
  BY DEF SerialInv
<1>2. Created' = Created /\ \A p : Unused(p)' = Unused(p)
  BY DEF Created, Unused
<1>3. Apart' /\ ReplacedAreUsed'
  BY <1>1, <1>2 DEF Apart, ReplacedAreUsed, Checking
<1>4. \A r \in Requests : pc[r] \in Checking => loc[r].code \in Codes
  BY DEF AccountInv, CodesKnown, Checking
<1>5. EarlierAreUsed' /\ RedeemedAreUsed'
  BY <1>1, <1>2 DEF EarlierAreUsed, RedeemedAreUsed, Created, TypeOK
<1>6. CheckedIsLast'
  BY <1>1, <1>2, <1>4 DEF CheckedIsLast, Checking, Created
<1> QED
  BY <1>3, <1>5, <1>6 DEF SerialInv

\* Only the last code of a purpose is open: it is the one a handler finds.
LEMMA VerifyReadSerial ==
    ASSUME TypeOK, AccountInv, SerialInv, ~ crossed',
           NEW r \in Requests, NEW op \in Operations, NEW guess, VerifyRead(r, op, guess)
    PROVE  SerialInv'
<1> DEFINE c == Newest(Unused(PurposeOf(op)))
           l == [NoLocals EXCEPT !.code = c, !.attempts = otp[c].attempts, !.op = op]
           step == IF guess = c THEN "right" ELSE "wrong"
<1>1. /\ ~ crossed /\ ~ At(r, {"create"})
      /\ \A q \in Requests \ {r} : pc[q] \in Checking => loc[q].code # c
      /\ UNCHANGED <<otp, redeemed>>
  BY DEF VerifyRead, Crosses, Checking
<1>2. Apart /\ CheckedIsLast /\ EarlierAreUsed /\ ReplacedAreUsed /\ RedeemedAreUsed
  BY <1>1 DEF SerialInv
<1>3. l \in Locals /\ step \in Steps /\ l.code = c
  BY VerifyReadCode DEF Steps, NoLocals
<1>4. /\ pc'[r] = step /\ loc'[r] = l
      /\ \A q \in Requests \ {r} : pc'[q] = pc[q] /\ loc'[q] = loc[q]
  BY <1>3, GotoType DEF VerifyRead
<1>5. c \in Unused(PurposeOf(op))
  BY NewestOfSome DEF VerifyRead, Unused, Created
<1>6. c \in Created /\ ~ otp[c].used
  BY <1>5 DEF Unused
<1> HIDE DEF c, l
<1>7. pc'[r] \in Checking /\ loc'[r].code = c
  BY <1>3, <1>4 DEF Checking
<1> HIDE DEF step
<1>8. c \notin redeemed
  BY <1>2, <1>6 DEF RedeemedAreUsed
<1>9. \A b \in Created : otp[b].purpose = otp[c].purpose => b <= c
  BY <1>2, <1>6, ConstantsAssumption DEF EarlierAreUsed, Created
<1>10. Created' = Created /\ \A p : Unused(p)' = Unused(p)
  BY <1>1 DEF Created, Unused
<1>11. Apart'
  BY <1>1, <1>2, <1>4, <1>7 DEF Apart, At, Checking
<1>12. CheckedIsLast'
  BY <1>1, <1>2, <1>4, <1>7, <1>8, <1>9, <1>10 DEF CheckedIsLast
<1>13. ReplacedAreUsed'
  BY <1>2, <1>4, <1>7, <1>10 DEF ReplacedAreUsed, Checking
<1>14. EarlierAreUsed' /\ RedeemedAreUsed'
  BY <1>1, <1>2, <1>10 DEF EarlierAreUsed, RedeemedAreUsed
<1> QED
  BY <1>11, <1>12, <1>13, <1>14 DEF SerialInv

\* Nobody checks a code while the open ones are used up,
LEMMA InvalidateSerial ==
    ASSUME TypeOK, SerialInv, ~ crossed', NEW r \in Requests, Invalidate(r)
    PROVE  SerialInv'
<1>1. ~ crossed /\ ~ At(r, {"create", "wrong", "right"}) /\ UNCHANGED redeemed
  BY DEF Invalidate
<1>2. EarlierAreUsed /\ RedeemedAreUsed
  BY <1>1 DEF SerialInv
<1>3. loc[r] \in Locals
  BY DEF TypeOK
<1>4. /\ pc'[r] = "create" /\ loc'[r] = loc[r]
      /\ \A q \in Requests \ {r} : pc'[q] = pc[q] /\ loc'[q] = loc[q]
  BY <1>3, GotoType DEF Invalidate, Steps
<1>5. \A c \in Codes : /\ otp'[c].purpose = otp[c].purpose
                       /\ otp'[c].used = (otp[c].used \/ c \in Unused(loc[r].purpose))
  BY DEF Invalidate, TypeOK, Row, Unused
<1>6. Created' = Created
  BY <1>5 DEF Created
<1>7. Unused(loc[r].purpose)' = {}
  BY <1>4, <1>5, ZenonT(60) DEF Unused, Created
<1>8. Apart' /\ CheckedIsLast' /\ ReplacedAreUsed'
  BY <1>1, <1>4, <1>7 DEF At, Apart, CheckedIsLast, ReplacedAreUsed, Checking
<1>9. EarlierAreUsed' /\ RedeemedAreUsed'
  BY <1>1, <1>2, <1>5, <1>6 DEF EarlierAreUsed, RedeemedAreUsed, Created, TypeOK
<1> QED
  BY <1>8, <1>9 DEF SerialInv

\* nor while the next one is created.
LEMMA CreateSerial ==
    ASSUME TypeOK, SerialInv, ~ crossed', NEW r \in Requests, Create(r)
    PROVE  SerialInv'
<1>1. ~ crossed /\ pc[r] = "create" /\ UNCHANGED redeemed
  BY DEF Create, history
<1>2. Apart /\ EarlierAreUsed /\ ReplacedAreUsed /\ RedeemedAreUsed
  BY <1>1 DEF SerialInv
<1>3. PICK c \in Codes : /\ \A b \in Codes : b \in Created <=> b < c
                         /\ otp' = [otp EXCEPT ![c] = NewRow(loc[r].purpose)]
  BY DEF Create
<1>4. /\ pc'[r] = "idle"
      /\ \A q \in Requests \ {r} : pc'[q] = pc[q] /\ loc'[q] = loc[q]
  BY FinishType DEF Create
<1>5. \A q \in Requests : pc'[q] \notin {"create", "wrong", "right"}
  BY <1>1, <1>2, <1>4 DEF Apart
<1>6. Apart' /\ CheckedIsLast' /\ ReplacedAreUsed'
  BY <1>5 DEF Apart, CheckedIsLast, ReplacedAreUsed, Checking
<1>7. loc[r].purpose \in Purpose /\ otp'[c].purpose = loc[r].purpose
  BY <1>3 DEF TypeOK, Locals, NewRow, NoRow
<1>8. Created' = Created \cup {c} /\ c \notin Created
  BY <1>3, <1>7, ConstantsAssumption DEF Created, TypeOK, Purpose
<1>9. \A b \in Created : b < c /\ b \in Codes /\ otp'[b] = otp[b]
  BY <1>3, <1>8 DEF Created, TypeOK
<1>10. \A b \in Created : otp[b].purpose = loc[r].purpose => otp[b].used
  BY <1>1, <1>2 DEF ReplacedAreUsed, Unused
<1>11. EarlierAreUsed'
  <2> SUFFICES ASSUME NEW a \in Created', NEW b \in Created',
                      otp'[a].purpose = otp'[b].purpose, a < b
               PROVE  otp'[a].used
    BY DEF EarlierAreUsed
  <2>1. a \in Codes /\ b \in Codes /\ c \in Int
    BY <1>8, <1>9, ConstantsAssumption
  <2>2. CASE b = c
    <3>1. a \in Created
      BY <1>8, <2>1, <2>2, ConstantsAssumption
    <3> QED
      BY <1>7, <1>9, <1>10, <2>2, <3>1
  <2>3. CASE b # c
    <3>1. b \in Created /\ b < c
      BY <1>8, <1>9, <2>3
    <3>2. a # c
      BY <2>1, <3>1, ConstantsAssumption
    <3> QED
      BY <1>2, <1>8, <1>9, <3>1, <3>2 DEF EarlierAreUsed
  <2> QED
    BY <2>2, <2>3
<1>12. RedeemedAreUsed'
  <2> SUFFICES ASSUME NEW b \in redeemed PROVE b \in Created' /\ otp'[b].used
    BY <1>1 DEF RedeemedAreUsed
  <2>1. b \in Created /\ otp[b].used
    BY <1>2 DEF RedeemedAreUsed
  <2> QED
    BY <1>8, <1>9, <2>1
<1> QED
  BY <1>6, <1>11, <1>12 DEF SerialInv

\* A wrong guess may leave the code open, which is the last of its purpose; the
\* right one uses it up.
LEMMA CheckSerial ==
    ASSUME TypeOK, AccountInv, SerialInv, ~ crossed', NEW r \in Requests,
           VerifyWrong(r) \/ VerifyRight(r)
    PROVE  SerialInv'
<1> DEFINE c == loc[r].code
<1>1. ~ crossed /\ pc[r] \in Checking
  BY DEF VerifyWrong, VerifyRight, history, Checking
<1>2. Apart /\ CheckedIsLast /\ EarlierAreUsed /\ ReplacedAreUsed /\ RedeemedAreUsed
  BY <1>1 DEF SerialInv
<1>3. /\ pc'[r] \in {"idle", "account"}
      /\ \A q \in Requests \ {r} : pc'[q] = pc[q] /\ loc'[q] = loc[q]
  BY FinishType, GotoType DEF VerifyWrong, VerifyRight, Steps, TypeOK
<1>4. c \in Codes /\ otp[c].purpose # "none"
  BY <1>1 DEF AccountInv, CodesKnown, Checking, PurposeOf
<1>5. \A q \in Requests : pc'[q] \in Checking =>
        pc[q] \in Checking /\ loc'[q] = loc[q] /\ loc[q].code # c /\ loc[q].code \in Codes
  BY <1>1, <1>2, <1>3 DEF Apart, Checking, AccountInv, CodesKnown
<1>6. \A q \in Requests : pc'[q] # "create"
  BY <1>1, <1>2, <1>3 DEF Apart, Checking
<1>7. /\ \A b \in Codes : otp'[b].purpose = otp[b].purpose
      /\ \A b \in Codes : b # c => otp'[b].used = otp[b].used
      /\ redeemed' \subseteq redeemed \cup {c}
      /\ c \in redeemed' => otp'[c].used
  <2>1. CASE VerifyWrong(r)
    <3>1. c \notin redeemed
      BY <1>1, <1>2 DEF CheckedIsLast
    <3> QED
      BY <2>1, <1>4, <3>1 DEF VerifyWrong, TypeOK, Row, history
  <2>2. CASE VerifyRight(r)
    BY <2>2, <1>4 DEF VerifyRight, TypeOK, Row
  <2> QED
    BY <2>1, <2>2
<1>8. Created' = Created /\ c \in Created
  BY <1>4, <1>7 DEF Created
<1>9. \A b \in Created : otp[b].purpose = otp[c].purpose => b <= c
  BY <1>1, <1>2 DEF CheckedIsLast
<1> HIDE DEF c
<1>10. Apart' /\ ReplacedAreUsed'
  BY <1>1, <1>2, <1>5, <1>6 DEF Apart, ReplacedAreUsed
<1>11. CheckedIsLast'
  BY <1>2, <1>5, <1>7, <1>8 DEF CheckedIsLast, Created
<1>12. EarlierAreUsed'
  <2> SUFFICES ASSUME NEW a \in Created, NEW b \in Created,
                      otp[a].purpose = otp[b].purpose, a < b
               PROVE  otp'[a].used
    BY <1>7, <1>8 DEF EarlierAreUsed, Created
  <2>1. a # c
    BY <1>4, <1>9, ConstantsAssumption DEF Created
  <2> QED
    BY <1>2, <1>7, <2>1 DEF EarlierAreUsed, Created
<1>13. RedeemedAreUsed'
  BY <1>2, <1>7, <1>8 DEF RedeemedAreUsed, Created
<1> QED
  BY <1>10, <1>11, <1>12, <1>13 DEF SerialInv

LEMMA NextSerial == TypeOK /\ AccountInv /\ SerialInv /\ [Next]_vars => SerialInv'
<1> SUFFICES ASSUME TypeOK, AccountInv, SerialInv, [Next]_vars, ~ crossed' PROVE SerialInv'
  BY DEF SerialInv
<1>1. ASSUME NEW r \in Requests, NEW op \in Operations, NEW guess, VerifyRead(r, op, guess)
      PROVE  SerialInv'
  BY <1>1, VerifyReadSerial
<1>2. ASSUME NEW r \in Requests, Invalidate(r) \/ Create(r) \/ VerifyWrong(r) \/ VerifyRight(r)
      PROVE  SerialInv'
  BY <1>2, InvalidateSerial, CreateSerial, CheckSerial
<1>3. ASSUME NEW r \in Requests,
             \/ Signup(r) \/ (\E p \in Purpose : RequestCode(r, p))
             \/ UpdateAccount(r) \/ Fail(r)
      PROVE  SerialInv'
  <2>1. UNCHANGED <<otp, redeemed, crossed>>
    BY <1>3 DEF Signup, RequestCode, UpdateAccount, Fail, history
  <2>2. /\ pc'[r] \in {"idle", "invalidate"}
        /\ \A q \in Requests \ {r} : pc'[q] = pc[q] /\ loc'[q] = loc[q]
    BY <1>3 DEF Signup, RequestCode, UpdateAccount, Fail, Finish, Goto, TypeOK
  <2> QED
    BY <2>1, <2>2, SerialKept
<1>4. ASSUME NEW c \in Codes, GrowOld(c) PROVE SerialInv'
  <2>1. \A b \in Codes : otp'[b].purpose = otp[b].purpose /\ otp'[b].used = otp[b].used
    BY <1>4 DEF GrowOld, TypeOK, Row
  <2> QED
    BY <1>4, <2>1, SerialKept DEF GrowOld, history
<1>5. CASE Invite \/ UNCHANGED vars
  BY <1>5, SerialKept DEF Invite, vars, history
<1> QED
  BY <1>1, <1>2, <1>3, <1>4, <1>5 DEF Next, Begin, Resume, Environment

LEMMA SpecSerial == Spec => []SerialInv
<1>1. Init => SerialInv
  BY DEF Init, NoRow, SerialInv, Apart, CheckedIsLast, EarlierAreUsed, ReplacedAreUsed,
     RedeemedAreUsed, Created, Checking
<1>2. Spec => [](TypeOK /\ AccountInv)
  BY TypeCorrect, AccountInvariant, PTL
<1> QED
  BY <1>1, <1>2, NextSerial, PTL DEF Spec

\* Whatever is resent, expires or fails in between, a code is accepted once, and
\* only while it is the last one sent for its purpose, as long as handlers that
\* work on the same code do not cross (verifyOtp, createOtp).
THEOREM LastCodeAcceptedOnce == Spec => AcceptsTheLastOnce
<1>1. SerialInv =>
        \A r \in Requests : pc[r] = "right" /\ ~ crossed =>
            /\ loc[r].code \notin redeemed
            /\ \A b \in Created : otp[b].purpose = otp[loc[r].code].purpose => b <= loc[r].code
  BY DEF SerialInv, CheckedIsLast, Checking
<1>2. SerialInv /\ [Next]_vars =>
        [\A r \in Requests :
            LET c == loc[r].code IN
            Accepts(r) /\ ~ crossed =>
                /\ c \notin redeemed
                /\ \A b \in Created : otp[b].purpose = otp[c].purpose => b <= c]_vars
  BY <1>1 DEF Accepts
<1> QED
  BY <1>2, SpecSerial, PTL DEF Spec, AcceptsTheLastOnce

\* The write that locks a code uses it up, and nobody opens a used code while
\* it is locked: the lockout check of verifyOtp, which looks at unused codes,
\* never sees one.
THEOREM LockedCodesAreUsed == Spec => []LockedIsUsed
<1>1. Init => LockedIsUsed
  BY DEF Init, LockedIsUsed, NoRow
<1>2. TypeOK /\ AccountInv /\ LockedIsUsed /\ [Next]_vars => LockedIsUsed'
  <2> SUFFICES ASSUME TypeOK, AccountInv, LockedIsUsed, [Next]_vars PROVE LockedIsUsed'
    OBVIOUS
  <2>1. ASSUME NEW r \in Requests, Invalidate(r) PROVE LockedIsUsed'
    BY <2>1 DEF Invalidate, LockedIsUsed, TypeOK, Row
  <2>2. ASSUME NEW r \in Requests, Create(r) PROVE LockedIsUsed'
    BY <2>2 DEF Create, LockedIsUsed, TypeOK, NewRow, NoRow
  <2>3. ASSUME NEW r \in Requests, VerifyWrong(r) PROVE LockedIsUsed'
    <3>1. loc[r].code \in Codes
      BY <2>3 DEF VerifyWrong, AccountInv, CodesKnown
    <3> QED
      BY <2>3, <3>1 DEF VerifyWrong, LockedIsUsed, TypeOK, Row
  <2>4. ASSUME NEW r \in Requests, VerifyRight(r) PROVE LockedIsUsed'
    BY <2>4 DEF VerifyRight, LockedIsUsed, TypeOK, Row
  <2>5. ASSUME NEW c \in Codes, GrowOld(c) PROVE LockedIsUsed'
    BY <2>5 DEF GrowOld, LockedIsUsed, TypeOK, Row
  <2>6. ASSUME UNCHANGED otp PROVE LockedIsUsed'
    BY <2>6 DEF LockedIsUsed
  <2>7. ASSUME NEW r \in Requests, Begin(r) \/ UpdateAccount(r) \/ Fail(r)
        PROVE  UNCHANGED otp
    BY <2>7 DEF Begin, Signup, RequestCode, VerifyRead, UpdateAccount, Fail
  <2> QED
    BY <2>1, <2>2, <2>3, <2>4, <2>5, <2>6, <2>7 DEF Next, Resume, Environment, Invite, vars
<1>3. Spec => [](TypeOK /\ AccountInv)
  BY TypeCorrect, AccountInvariant, PTL
<1> QED
  BY <1>1, <1>2, <1>3, PTL DEF Spec

==============================================================================
