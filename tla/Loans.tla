-------------------------------- MODULE Loans --------------------------------
(***************************************************************************)
(* Loans of the members of one group: requested, approved or rejected, and *)
(* repaid (loans.service.ts).                                              *)
(*                                                                         *)
(* Every handler reads first and writes later, with other handlers in      *)
(* between.  A request r in Requests is a call in flight: pc[r] names the  *)
(* database call it makes next, loc[r] what it has read.  The setting, the *)
(* cycle and the open loan a request asks about are read in one step, as   *)
(* nothing is kept of them but the decision to go on.  Savings and the     *)
(* group's cycle belong to other components and change here at any time.   *)
(***************************************************************************)
EXTENDS Integers

CONSTANTS
    Members,
    LoanIds,                  \* ids of loan rows, as many as there may ever be
    Requests,
    Amounts,                  \* amounts asked for or repaid
    Savings,                  \* values memberSavingsNgwe may have
    RateNum, RateDen,         \* loanInterestRate
    Multiplier,               \* maxLoanMultiplier
    MaxRepaid                 \* bound: no repayment starts past it

ASSUME ConstantsAssumption ==
    /\ Members # {} /\ LoanIds # {}
    /\ Amounts \subseteq Nat
    /\ Savings \subseteq Nat
    /\ RateNum \in Nat /\ RateDen \in Nat \ {0}
    /\ Multiplier \in Nat
    /\ MaxRepaid \in Nat

VARIABLES
    loan,          \* the loan rows
    repayments,    \* the sum of the loan_repayments rows of each loan
    savings,       \* memberSavingsNgwe of each member
    allowLoans,    \* the group's setting
    activeCycle,   \* the group has a cycle open or in progress
    pc, loc,       \* the requests in flight
    overlapped     \* auxiliary: two requests have been in flight at a time

money == <<loan, repayments>>
group == <<savings, allowLoans, activeCycle>>
vars == <<money, group, pc, loc, overlapped>>

\* approved and defaulted are in the schema and never written.
LoanStatus == {"none", "pending", "active", "repaid", "rejected"}
Open == {"pending", "active"}

Loan == [status : LoanStatus, member : Members, amount : Nat, due : Nat,
         repaid : Nat, disbursed : BOOLEAN]

Steps == {"idle", "savings", "create", "approve", "reject", "repay"}

Locals == [id : LoanIds, member : Members, amount : Nat, loan : Loan]

TypeOK ==
    /\ loan \in [LoanIds -> Loan]
    /\ repayments \in [LoanIds -> Nat]
    /\ savings \in [Members -> Savings]
    /\ allowLoans \in BOOLEAN
    /\ activeCycle \in BOOLEAN
    /\ pc \in [Requests -> Steps]
    /\ loc \in [Requests -> Locals]
    /\ overlapped \in BOOLEAN

NoLoan == [status |-> "none", member |-> CHOOSE m \in Members : TRUE, amount |-> 0,
           due |-> 0, repaid |-> 0, disbursed |-> FALSE]

NoLocals == [id |-> CHOOSE l \in LoanIds : TRUE, member |-> NoLoan.member,
             amount |-> 0, loan |-> NoLoan]

Init ==
    /\ loan = [l \in LoanIds |-> NoLoan]
    /\ repayments = [l \in LoanIds |-> 0]
    /\ savings \in [Members -> Savings]
    /\ allowLoans \in BOOLEAN
    /\ activeCycle \in BOOLEAN
    /\ pc = [r \in Requests |-> "idle"]
    /\ loc = [r \in Requests |-> NoLocals]
    /\ overlapped = FALSE

-----------------------------------------------------------------------------
Goto(r, step, l) ==
    /\ pc' = [pc EXCEPT ![r] = step]
    /\ loc' = [loc EXCEPT ![r] = l]

Finish(r) == Goto(r, "idle", NoLocals)

Begin(r, step, l) ==
    /\ pc[r] = "idle"
    /\ Goto(r, step, l)
    /\ overlapped' = (overlapped \/ \E q \in Requests \ {r} : pc[q] # "idle")
    /\ UNCHANGED <<money, group>>

-----------------------------------------------------------------------------
(* requestLoan *)

\* Math.round(amount * rate), halves up, on top of the amount
TotalDue(amount) == amount + (2 * amount * RateNum + RateDen) \div (2 * RateDen)

HasOpenLoan(m) == \E l \in LoanIds : loan[l].member = m /\ loan[l].status \in Open

RequestLoan(r, m, amount) ==
    /\ allowLoans /\ activeCycle
    /\ amount > 0
    /\ ~ HasOpenLoan(m)
    /\ Begin(r, "savings", [NoLocals EXCEPT !.member = m, !.amount = amount])

RequestLimit(r) ==
    /\ pc[r] = "savings"
    /\ IF loc[r].amount <= savings[loc[r].member] * Multiplier
       THEN Goto(r, "create", loc[r])
       ELSE Finish(r)
    /\ UNCHANGED <<money, group, overlapped>>

RequestCreate(r) ==
    /\ pc[r] = "create"
    /\ \E l \in LoanIds :
        /\ loan[l].status = "none"
        /\ loan' = [loan EXCEPT ![l] =
                      [NoLoan EXCEPT !.status = "pending", !.member = loc[r].member,
                                     !.amount = loc[r].amount,
                                     !.due = TotalDue(loc[r].amount)]]
    /\ Finish(r)
    /\ UNCHANGED <<repayments, group, overlapped>>

-----------------------------------------------------------------------------
(* approveLoan and rejectLoan: both look for a pending loan, and write by id. *)

\* Slip: a loan that was rejected or repaid can be approved.
ApproveReadAny(r, l) ==
    /\ loan[l].status \notin {"none", "active"}
    /\ Begin(r, "approve", [NoLocals EXCEPT !.id = l])

ApproveRead(r, l) ==
    /\ loan[l].status = "pending"
    /\ Begin(r, "approve", [NoLocals EXCEPT !.id = l])

ApproveWrite(r) ==
    /\ pc[r] = "approve"
    /\ loan' = [loan EXCEPT ![loc[r].id].status = "active", ![loc[r].id].disbursed = TRUE]
    /\ Finish(r)
    /\ UNCHANGED <<repayments, group, overlapped>>

RejectRead(r, l) ==
    /\ loan[l].status = "pending"
    /\ Begin(r, "reject", [NoLocals EXCEPT !.id = l])

RejectWrite(r) ==
    /\ pc[r] = "reject"
    /\ loan' = [loan EXCEPT ![loc[r].id].status = "rejected"]
    /\ Finish(r)
    /\ UNCHANGED <<repayments, group, overlapped>>

-----------------------------------------------------------------------------
(* recordRepayment: the new balance is computed from the loan as it was     *)
(* read; the transaction adds a repayment row and writes that balance.      *)

RepayRead(r, l, amount) ==
    /\ loan[l].status = "active"
    /\ amount > 0
    /\ repayments[l] <= MaxRepaid
    /\ Begin(r, "repay", [NoLocals EXCEPT !.id = l, !.amount = amount, !.loan = loan[l]])

\* Slip: an overpayment is cut to the total due.
NewRepaidCapped(read, amount) ==
    IF read.repaid + amount > read.due THEN read.due ELSE read.repaid + amount

NewRepaid(read, amount) == read.repaid + amount

\* Slip: the loan is closed once the principal is repaid.
IsFullyRepaidPrincipal(read, amount) == NewRepaid(read, amount) >= read.amount

IsFullyRepaid(read, amount) == NewRepaid(read, amount) >= read.due

RepayWrite(r) ==
    LET l == loc[r].id
        read == loc[r].loan
        amount == loc[r].amount IN
    /\ pc[r] = "repay"
    /\ repayments' = [repayments EXCEPT ![l] = @ + amount]
    /\ loan' = [loan EXCEPT ![l].repaid = NewRepaid(read, amount),
                            ![l].status = IF IsFullyRepaid(read, amount)
                                          THEN "repaid" ELSE "active"]
    /\ Finish(r)
    /\ UNCHANGED <<group, overlapped>>

-----------------------------------------------------------------------------
\* The process stops or a database call throws between the read and the write.
Fail(r) ==
    /\ pc[r] # "idle"
    /\ Finish(r)
    /\ UNCHANGED <<money, group, overlapped>>

\* Contributions, payouts and cycles move on.
SavingsChange(m) ==
    /\ \E s \in Savings : savings' = [savings EXCEPT ![m] = s]
    /\ UNCHANGED <<money, allowLoans, activeCycle, pc, loc, overlapped>>

CycleChange ==
    /\ activeCycle' = ~ activeCycle
    /\ UNCHANGED <<money, savings, allowLoans, pc, loc, overlapped>>

\* Not one of the settings that are locked while a cycle is active.
AllowLoansChange ==
    /\ allowLoans' = ~ allowLoans
    /\ UNCHANGED <<money, savings, activeCycle, pc, loc, overlapped>>

Next ==
    \/ \E r \in Requests :
        \/ \E m \in Members, a \in Amounts : RequestLoan(r, m, a)
        \/ \E l \in LoanIds : ApproveRead(r, l) \/ RejectRead(r, l)
        \/ \E l \in LoanIds, a \in Amounts : RepayRead(r, l, a)
        \/ RequestLimit(r) \/ RequestCreate(r) \/ ApproveWrite(r) \/ RejectWrite(r)
        \/ RepayWrite(r) \/ Fail(r)
    \/ \E m \in Members : SavingsChange(m)
    \/ CycleChange \/ AllowLoansChange

Spec == Init /\ [][Next]_vars

-----------------------------------------------------------------------------
(* Whatever interleaves. *)

\* A loan is closed as repaid only when its repayment rows cover principal and
\* interest.  Concurrent repayments may lose an update of the balance
\* (recordRepayment writes what it read plus its own amount), so the balance
\* may lag behind the rows; it never runs ahead of them.
RepaidInFull ==
    \A l \in LoanIds : loan[l].status = "repaid" => repayments[l] >= loan[l].due

\* No repayment is recorded on a loan that was never disbursed, however an
\* approval, a rejection and a repayment cross each other.
DisbursedBeforeRepaid == \A l \in LoanIds : repayments[l] > 0 => loan[l].disbursed

-----------------------------------------------------------------------------
(* As long as no two handlers have been in flight at the same time. *)

\* The balance of a loan is the sum of its repayment rows, overpayment
\* included, and an active loan still owes something.
BalanceExact ==
    ~ overlapped =>
        \A l \in LoanIds :
            /\ loan[l].repaid = repayments[l]
            /\ loan[l].status = "active" => loan[l].repaid < loan[l].due

\* A repaid or rejected loan is never reopened, repaid again or rejected.
ClosedIsFinal ==
    [][~ overlapped' =>
         \A l \in LoanIds :
            loan[l].status \in {"repaid", "rejected"} => loan'[l] = loan[l]]_vars

-----------------------------------------------------------------------------
\* loans.md: a member must have no existing active loan.  The check and the
\* creation are separate calls.
OneOpenLoan ==
    \A k, l \in LoanIds :
        k # l /\ loan[k].status \in Open /\ loan[l].status \in Open
            => loan[k].member # loan[l].member

=============================================================================
