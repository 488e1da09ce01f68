--------------------------------- MODULE Otp ---------------------------------
(***************************************************************************)
(* The one-time passwords of one phone number (otp.service.ts) and the     *)
(* account they open (auth.service.ts): signing up, asking for a code,     *)
(* activating an invited account, resetting a password.                    *)
(*                                                                         *)
(* Codes are numbered in the order their rows are created, and the number  *)
(* stands for the six digits; guess 0 is any digits no row has.  A request *)
(* r in Requests is a handler in flight: pc[r] names its next database     *)
(* call, loc[r] what it has read.  Clocks are actions: a code expires,     *)
(* then leaves the resend window, older codes first.  A lockout is never   *)
(* over in the model: it is set on codes that are used up, and nobody      *)
(* reads those (LockedIsUsed).                                             *)
(***************************************************************************)
EXTENDS Integers, FiniteSets

CONSTANTS
    Requests,
    MaxCodes,      \* bound on the rows created
    MaxAttempts,   \* MAX_ATTEMPTS
    MaxResends     \* MAX_RESENDS

ASSUME ConstantsAssumption ==
    /\ IsFiniteSet(Requests)
    /\ MaxCodes \in Nat
    /\ MaxAttempts \in Nat \ {0}
    /\ MaxResends \in Nat \ {0}

VARIABLES
    account,     \* the user row: none, invited, unverified or verified
    password,    \* the owner of the phone has set the password
    otp,         \* the row of each code
    pc, loc,
    redeemed,    \* auxiliary: codes that have been accepted
    crossed      \* auxiliary: handlers working on one code, or one that replaces
                 \* codes and another, have been between read and write at once

user == <<account, password>>
history == <<redeemed, crossed>>
vars == <<user, otp, pc, loc, history>>

Codes == 1 .. MaxCodes

Purpose == {"signup", "password_reset"}

Row == [purpose : Purpose \cup {"none"},   \* none: not created yet
        used : BOOLEAN, attempts : Nat,
        locked : BOOLEAN,                   \* lockedUntil is set
        age : {"fresh", "expired", "old"}]  \* old: out of the resend window

NoRow == [purpose |-> "none", used |-> FALSE, attempts |-> 0, locked |-> FALSE, age |-> "fresh"]

NewRow(p) == [NoRow EXCEPT !.purpose = p]

Created == {c \in Codes : otp[c].purpose # "none"}
Recent == {c \in Created : otp[c].age # "old"}
Unused(p) == {c \in Created : otp[c].purpose = p /\ ~ otp[c].used}

Operations == {"verify", "activate", "reset"}

PurposeOf(op) == IF op = "reset" THEN "password_reset" ELSE "signup"

Steps == {"idle", "invalidate", "create", "wrong", "right", "account"}

Locals == [purpose : Purpose, code : 0 .. MaxCodes, attempts : Nat,
           op : Operations]

NoLocals == [purpose |-> "signup", code |-> 0, attempts |-> 0, op |-> "verify"]

TypeOK ==
    /\ account \in {"none", "invited", "unverified", "verified"}
    /\ password \in BOOLEAN
    /\ otp \in [Codes -> Row]
    /\ pc \in [Requests -> Steps]
    /\ loc \in [Requests -> Locals]
    /\ redeemed \in SUBSET Codes
    /\ crossed \in BOOLEAN

Init ==
    /\ account = "none"
    /\ password = FALSE
    /\ otp = [c \in Codes |-> NoRow]
    /\ pc = [r \in Requests |-> "idle"]
    /\ loc = [r \in Requests |-> NoLocals]
    /\ redeemed = {}
    /\ crossed = FALSE

Goto(r, step, l) ==
    /\ pc' = [pc EXCEPT ![r] = step]
    /\ loc' = [loc EXCEPT ![r] = l]

Finish(r) == Goto(r, "idle", NoLocals)

At(r, steps) == \E q \in Requests \ {r} : pc[q] \in steps

-----------------------------------------------------------------------------
(* Asking for a code. *)

\* The row of a user who signs up; a second row is refused by the unique phone.
Signup(r) ==
    /\ pc[r] = "idle"
    /\ account = "none"
    /\ account' = "unverified" /\ password' = TRUE
    /\ Goto(r, "invalidate", NoLocals)
    /\ UNCHANGED <<otp, history>>

\* addMember creates a user who has set no password yet.
Invite ==
    /\ account = "none"
    /\ account' = "invited"
    /\ UNCHANGED <<password, otp, pc, loc, history>>

\* requestOtp and requestActivationOtp for an account that is not verified,
\* forgotPassword for any account.
MayRequest(p) == IF p = "signup" THEN account \in {"invited", "unverified"} ELSE account # "none"

\* Slip: the limit is compared the wrong way round the boundary.
RequestCodeOneMore(r, p) ==
    /\ pc[r] = "idle"
    /\ MayRequest(p) /\ Cardinality(Recent) <= MaxResends
    /\ Goto(r, "invalidate", [NoLocals EXCEPT !.purpose = p])
    /\ UNCHANGED <<user, otp, history>>

\* assertResendAllowed counts the rows of every purpose.
RequestCode(r, p) ==
    /\ pc[r] = "idle"
    /\ MayRequest(p) /\ Cardinality(Recent) < MaxResends
    /\ Goto(r, "invalidate", [NoLocals EXCEPT !.purpose = p])
    /\ UNCHANGED <<user, otp, history>>

Invalidate(r) ==
    /\ pc[r] = "invalidate"
    /\ otp' = [c \in Codes |-> IF c \in Unused(loc[r].purpose)
                               THEN [otp[c] EXCEPT !.used = TRUE] ELSE otp[c]]
    /\ Goto(r, "create", loc[r])
    /\ crossed' = (crossed \/ At(r, {"create", "wrong", "right"}))
    /\ UNCHANGED <<user, redeemed>>

\* The code goes out once its row exists; whether sending fails is not looked
\* at.  The message may come late: any code of any message may be entered later.
Create(r) ==
    /\ pc[r] = "create"
    /\ \E c \in Codes :
        /\ \A b \in Codes : b \in Created <=> b < c
        /\ otp' = [otp EXCEPT ![c] = NewRow(loc[r].purpose)]
    /\ Finish(r)
    /\ UNCHANGED <<user, history>>

-----------------------------------------------------------------------------
(* Entering a code. *)

\* Whoever has signed up may have been added to a group as well.
MayEnter(op) ==
    IF op = "activate" THEN account \in {"invited", "unverified"} ELSE account # "none"

Newest(S) == CHOOSE c \in S : \A b \in S : b <= c

\* Another handler works on code c, or is about to replace it.
Crosses(r, c) ==
    \/ \E q \in Requests \ {r} : pc[q] \in {"wrong", "right"} /\ loc[q].code = c
    \/ At(r, {"create"})

\* Slip: the purpose of the code is not looked at.
VerifyReadOther(r, op, guess) ==
    LET open == Unused("signup") \cup Unused("password_reset")
        c == Newest(open) IN
    /\ pc[r] = "idle"
    /\ MayEnter(op)
    /\ open # {} /\ ~ otp[c].locked /\ otp[c].age = "fresh"
    /\ Goto(r, IF guess = c THEN "right" ELSE "wrong",
            [NoLocals EXCEPT !.code = c, !.attempts = otp[c].attempts, !.op = op])
    /\ crossed' = (crossed \/ Crosses(r, c))
    /\ UNCHANGED <<user, otp, redeemed>>

\* verifyOtp reads the newest unused code of the purpose; without one, or with
\* a locked or expired one, nothing is written.
VerifyRead(r, op, guess) ==
    LET open == Unused(PurposeOf(op))
        c == Newest(open) IN
    /\ pc[r] = "idle"
    /\ MayEnter(op)
    /\ open # {} /\ ~ otp[c].locked /\ otp[c].age = "fresh"
    /\ Goto(r, IF guess = c THEN "right" ELSE "wrong",
            [NoLocals EXCEPT !.code = c, !.attempts = otp[c].attempts, !.op = op])
    /\ crossed' = (crossed \/ Crosses(r, c))
    /\ UNCHANGED <<user, otp, redeemed>>

\* By id, and from the attempts it read: used is written either way.
VerifyWrong(r) ==
    LET c == loc[r].code
        lock == loc[r].attempts + 1 >= MaxAttempts IN
    /\ pc[r] = "wrong"
    /\ otp' = [otp EXCEPT ![c].attempts = loc[r].attempts + 1,
                          ![c].locked = lock, ![c].used = lock]
    /\ Finish(r)
    /\ UNCHANGED <<user, history>>

\* Slip: an accepted code stays as it is.
VerifyRightUnused(r) ==
    /\ pc[r] = "right"
    /\ redeemed' = redeemed \cup {loc[r].code}
    /\ Goto(r, "account", loc[r])
    /\ UNCHANGED <<user, otp, crossed>>

VerifyRight(r) ==
    /\ pc[r] = "right"
    /\ otp' = [otp EXCEPT ![loc[r].code].used = TRUE]
    /\ redeemed' = redeemed \cup {loc[r].code}
    /\ Goto(r, "account", loc[r])
    /\ UNCHANGED <<user, crossed>>

\* verifyOtpAndIssueTokens, completeActivation and resetPassword update the
\* user row once the code is used up.
UpdateAccount(r) ==
    /\ pc[r] = "account"
    /\ account' = IF loc[r].op = "reset" THEN account ELSE "verified"
    /\ password' = (password \/ loc[r].op # "verify")
    /\ Finish(r)
    /\ UNCHANGED <<otp, history>>

-----------------------------------------------------------------------------
(* Time and failures. *)

\* Ten minutes after its creation a code expires, twenty minutes later it
\* leaves the window; the earlier ones before it.
GrowOld(c) ==
    /\ c \in Recent
    /\ LET older == IF otp[c].age = "fresh" THEN "expired" ELSE "old" IN
        /\ \A b \in 1 .. c - 1 : otp[b].age \in {older, "old"}
        /\ otp' = [otp EXCEPT ![c].age = older]
    /\ UNCHANGED <<user, pc, loc, history>>

\* The process stops, or a database call throws.
Fail(r) ==
    /\ pc[r] # "idle"
    /\ Finish(r)
    /\ UNCHANGED <<user, otp, history>>

Begin(r) ==
    \/ Signup(r)
    \/ \E p \in Purpose : RequestCode(r, p)
    \/ \E op \in Operations, guess \in {0} \cup Created : VerifyRead(r, op, guess)

Resume(r) ==
    \/ Invalidate(r) \/ Create(r)
    \/ VerifyWrong(r) \/ VerifyRight(r) \/ UpdateAccount(r)

Environment ==
    \/ Invite
    \/ \E c \in Codes : GrowOld(c)

Next == (\E r \in Requests : Begin(r) \/ Resume(r) \/ Fail(r)) \/ Environment

Spec == Init /\ [][Next]_vars

-----------------------------------------------------------------------------
(* Properties                                                                *)

\* verifyOtp marks an exhausted code used in the write that locks it, and reads
\* unused codes only: however attempts cross, its lockout check never sees a
\* locked code.
LockedIsUsed == \A c \in Codes : otp[c].locked => otp[c].used

Accepts(r) == pc[r] = "right" /\ pc'[r] = "account"

\* A code is accepted once, and only the last one sent for its purpose is
\* (verifyOtp, createOtp), whatever is resent, expires or fails in between, as
\* long as handlers that work on the same code do not cross.
AcceptsTheLastOnce ==
    [][\A r \in Requests :
        LET c == loc[r].code IN
        Accepts(r) /\ ~ crossed =>
            /\ c \notin redeemed
            /\ \A b \in Created : otp[b].purpose = otp[c].purpose => b <= c]_vars

\* An account is verified, and its password chosen by somebody other than the
\* one who signed up, only by way of a code of the right purpose that reached
\* the phone (verifyOtpAndIssueTokens, completeActivation, resetPassword).
Reached(p) == \E c \in redeemed : otp[c].purpose = p

OnlyByPhone ==
    /\ account = "verified" => Reached("signup")
    /\ account = "invited" /\ password => Reached("password_reset")

\* assertResendAllowed counts before the row is created: however many requests
\* pass the check together, the rows of a window stay within one per handler
\* of the limit.
ResendsBounded == Cardinality(Recent) <= MaxResends - 1 + Cardinality(Requests)

\* docs/design-docs/auth-design.md: after five wrong attempts "the phone is also
\* locked for 15 minutes (any new OTP request during the lockout is rejected)".
LockoutRefusesRequests ==
    [][\A r \in Requests, c \in Codes :
        otp[c].locked /\ otp[c].age = "fresh" => ~ (pc[r] = "idle" /\ pc'[r] = "invalidate")]_vars

=============================================================================
