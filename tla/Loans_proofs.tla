----------------------------- MODULE Loans_proofs -----------------------------
(***************************************************************************)
(* What Loans promises whatever interleaves, proved for any number of      *)
(* members, loans, handlers in flight, amounts and rates.                  *)
(***************************************************************************)
EXTENDS Loans, TLAPS

\* The balance a loan row keeps never runs ahead of its repayment rows.
BalanceLags == \A l \in LoanIds : loan[l].repaid <= repayments[l]

\* Money goes out before a loan becomes active.
ActiveIsDisbursed == \A l \in LoanIds : loan[l].status = "active" => loan[l].disbursed

\* A handler that has found a loan goes on to write a loan that exists; a
\* repayment in flight was computed from the terms of a disbursed loan and from
\* a balance its repayment rows still cover.
InFlightSound ==
    \A r \in Requests :
        LET l == loc[r].id IN
        /\ pc[r] \in {"approve", "reject", "repay"} => loan[l].status # "none"
        /\ pc[r] = "repay" => /\ loan[l].disbursed
                              /\ loc[r].loan.due = loan[l].due
                              /\ loc[r].loan.repaid <= repayments[l]

\* A row of no loan has no repayments.
NoneIsUnpaid == \A l \in LoanIds : loan[l].status = "none" => repayments[l] = 0

IInv ==
    /\ TypeOK
    /\ BalanceLags
    /\ ActiveIsDisbursed
    /\ InFlightSound
    /\ NoneIsUnpaid
    /\ RepaidInFull
    /\ DisbursedBeforeRepaid

-----------------------------------------------------------------------------
\* Rounding to whole ngwe leaves the natural numbers natural.
LEMMA TotalDueType ==
    ASSUME NEW amount \in Nat
    PROVE  TotalDue(amount) \in Nat
<1>1. RateNum \in Nat /\ RateDen \in Nat \ {0}
  BY ConstantsAssumption
<1>2. amount * RateNum \in Nat
  BY <1>1
<1>3. \A x \in Nat, d \in Nat \ {0} : x \div d \in Nat
  OBVIOUS
<1>4. 2 * amount * RateNum + RateDen \in Nat /\ 2 * RateDen \in Nat \ {0}
  BY <1>1, <1>2
<1> QED
  BY <1>3, <1>4 DEF TotalDue

LEMMA NoLoanType == NoLoan \in Loan
<1>1. (CHOOSE m \in Members : TRUE) \in Members
  BY ConstantsAssumption
<1> QED
  BY <1>1 DEF NoLoan, Loan, LoanStatus

LEMMA NoLocalsType == NoLocals \in Locals
<1>1. (CHOOSE l \in LoanIds : TRUE) \in LoanIds
  BY ConstantsAssumption
<1>2. NoLoan.member \in Members
  BY NoLoanType DEF Loan
<1> QED
  BY <1>1, <1>2, NoLoanType DEF NoLocals, Locals

LEMMA InitIInv == Init => IInv
<1> SUFFICES ASSUME Init PROVE IInv
  OBVIOUS
<1>1. TypeOK
  BY NoLoanType, NoLocalsType DEF Init, TypeOK, Steps
<1>2. \A l \in LoanIds : loan[l].status = "none" /\ loan[l].repaid = 0 /\ repayments[l] = 0
  BY DEF Init, NoLoan
<1>3. \A r \in Requests : pc[r] = "idle"
  BY DEF Init
<1> QED
  BY <1>1, <1>2, <1>3 DEF IInv, BalanceLags, ActiveIsDisbursed, InFlightSound,
     NoneIsUnpaid, RepaidInFull, DisbursedBeforeRepaid

-----------------------------------------------------------------------------
\* A step that leaves the loans and their repayments alone preserves what is
\* said of them, and a handler that is idle afterwards promises nothing.
LEMMA KeepsMoney ==
    ASSUME IInv, UNCHANGED money, TypeOK',
           \A r \in Requests :
              \/ pc'[r] \notin {"approve", "reject", "repay"}
              \/ pc'[r] = pc[r] /\ loc'[r] = loc[r]
    PROVE  IInv'
<1> USE DEF IInv, money
<1>1. BalanceLags'
  BY DEF BalanceLags
<1>2. ActiveIsDisbursed'
  BY DEF ActiveIsDisbursed
<1>3. InFlightSound'
  BY DEF InFlightSound
<1>4. NoneIsUnpaid'
  BY DEF NoneIsUnpaid
<1>5. RepaidInFull' /\ DisbursedBeforeRepaid'
  BY DEF RepaidInFull, DisbursedBeforeRepaid
<1> QED
  BY <1>1, <1>2, <1>3, <1>4, <1>5

\* What a handler goes on with concerns that handler only.
LEMMA GotoType ==
    ASSUME TypeOK, NEW r \in Requests, NEW step \in Steps, NEW l \in Locals, Goto(r, step, l)
    PROVE  /\ pc' \in [Requests -> Steps] /\ loc' \in [Requests -> Locals]
           /\ pc'[r] = step /\ loc'[r] = l
           /\ \A q \in Requests \ {r} : pc'[q] = pc[q] /\ loc'[q] = loc[q]
  BY DEF TypeOK, Goto

LEMMA RequestLoanIInv ==
    ASSUME IInv, NEW r \in Requests, NEW m \in Members, NEW a \in Amounts, RequestLoan(r, m, a)
    PROVE  IInv'
<1> DEFINE l == [NoLocals EXCEPT !.member = m, !.amount = a]
<1>1. l \in Locals
  BY NoLocalsType, ConstantsAssumption DEF Locals
<1>2. Goto(r, "savings", l) /\ UNCHANGED <<money, group>> /\ overlapped' \in BOOLEAN
  BY DEF RequestLoan, Begin, IInv, TypeOK
<1>3. /\ pc' \in [Requests -> Steps] /\ loc' \in [Requests -> Locals]
      /\ pc'[r] = "savings"
      /\ \A q \in Requests \ {r} : pc'[q] = pc[q] /\ loc'[q] = loc[q]
  BY <1>1, <1>2, GotoType DEF IInv, Steps
<1>4. TypeOK'
  BY <1>2, <1>3 DEF IInv, TypeOK, money, group
<1> QED
  BY <1>2, <1>3, <1>4, KeepsMoney

LEMMA RequestLimitIInv ==
    ASSUME IInv, NEW r \in Requests, RequestLimit(r)
    PROVE  IInv'
<1>1. loc[r] \in Locals
  BY DEF IInv, TypeOK
<1>2. \E step \in {"create", "idle"}, l \in Locals : Goto(r, step, l)
  BY <1>1, NoLocalsType DEF RequestLimit, Finish
<1>3. /\ pc' \in [Requests -> Steps] /\ loc' \in [Requests -> Locals]
      /\ pc'[r] \in {"create", "idle"}
      /\ \A q \in Requests \ {r} : pc'[q] = pc[q] /\ loc'[q] = loc[q]
  BY <1>2, GotoType DEF IInv, Steps
<1>4. TypeOK'
  BY <1>3 DEF IInv, TypeOK, money, group, RequestLimit
<1> QED
  BY <1>3, <1>4, KeepsMoney DEF RequestLimit

LEMMA FailIInv ==
    ASSUME IInv, NEW r \in Requests, Fail(r)
    PROVE  IInv'
<1>1. /\ pc' \in [Requests -> Steps] /\ loc' \in [Requests -> Locals]
      /\ pc'[r] = "idle"
      /\ \A q \in Requests \ {r} : pc'[q] = pc[q] /\ loc'[q] = loc[q]
  BY NoLocalsType, GotoType DEF IInv, Fail, Finish, Steps
<1>2. TypeOK'
  BY <1>1 DEF IInv, TypeOK, money, group, Fail
<1> QED
  BY <1>1, <1>2, KeepsMoney DEF Fail

-----------------------------------------------------------------------------
\* The handlers that look for a loan and remember its id.
LEMMA DecisionReadIInv ==
    ASSUME IInv, NEW r \in Requests, NEW l \in LoanIds,
           ApproveRead(r, l) \/ RejectRead(r, l)
    PROVE  IInv'
<1> DEFINE found == [NoLocals EXCEPT !.id = l]
<1>1. found \in Locals /\ found.id = l
  BY NoLocalsType DEF Locals
<1>2. PICK step \in {"approve", "reject"} : Begin(r, step, found)
  BY DEF ApproveRead, RejectRead
<1>3. /\ pc' \in [Requests -> Steps] /\ loc' \in [Requests -> Locals]
      /\ pc'[r] # "repay" /\ loc'[r].id = l
      /\ \A q \in Requests \ {r} : pc'[q] = pc[q] /\ loc'[q] = loc[q]
  BY <1>1, <1>2, GotoType, ZenonT(60) DEF IInv, Steps, Begin
<1>4. UNCHANGED <<money, group>> /\ overlapped' \in BOOLEAN
  BY <1>2 DEF Begin, IInv, TypeOK
<1>5. TypeOK'
  BY <1>3, <1>4 DEF IInv, TypeOK, money, group
<1>6. loan[l].status = "pending"
  BY DEF ApproveRead, RejectRead
<1>7. InFlightSound'
  BY <1>3, <1>4, <1>6 DEF IInv, InFlightSound, money
<1> QED
  BY <1>4, <1>5, <1>7 DEF IInv, money, BalanceLags, ActiveIsDisbursed, NoneIsUnpaid,
     RepaidInFull, DisbursedBeforeRepaid

LEMMA RepayReadIInv ==
    ASSUME IInv, NEW r \in Requests, NEW l \in LoanIds, NEW a \in Amounts, RepayRead(r, l, a)
    PROVE  IInv'
<1> DEFINE found == [NoLocals EXCEPT !.id = l, !.amount = a, !.loan = loan[l]]
<1>1. loan[l] \in Loan /\ a \in Nat
  BY ConstantsAssumption DEF IInv, TypeOK
<1>2. found \in Locals /\ found.id = l /\ found.loan = loan[l]
  BY <1>1, NoLocalsType DEF Locals
<1>3. Begin(r, "repay", found)
  BY DEF RepayRead
<1>4. /\ pc' \in [Requests -> Steps] /\ loc' \in [Requests -> Locals]
      /\ loc'[r].id = l /\ loc'[r].loan = loan[l]
      /\ \A q \in Requests \ {r} : pc'[q] = pc[q] /\ loc'[q] = loc[q]
  BY <1>2, <1>3, GotoType DEF IInv, Steps, Begin
<1>5. UNCHANGED <<money, group>> /\ overlapped' \in BOOLEAN
  BY <1>3 DEF Begin, IInv, TypeOK
<1>6. TypeOK'
  BY <1>4, <1>5 DEF IInv, TypeOK, money, group
<1>7. loan[l].status = "active" /\ loan[l].disbursed /\ loan[l].repaid <= repayments[l]
  BY DEF RepayRead, IInv, ActiveIsDisbursed, BalanceLags
<1>8. InFlightSound'
  BY <1>4, <1>5, <1>7 DEF IInv, InFlightSound, money
<1> QED
  BY <1>5, <1>6, <1>8 DEF IInv, money, BalanceLags, ActiveIsDisbursed, NoneIsUnpaid,
     RepaidInFull, DisbursedBeforeRepaid

\* A finished handler promises nothing.
LEMMA FinishType ==
    ASSUME TypeOK, NEW r \in Requests, Finish(r)
    PROVE  /\ pc' \in [Requests -> Steps] /\ loc' \in [Requests -> Locals]
           /\ pc'[r] = "idle"
           /\ \A q \in Requests \ {r} : pc'[q] = pc[q] /\ loc'[q] = loc[q]
  BY NoLocalsType, GotoType DEF Finish, Steps

\* A new loan takes a row that no handler in flight has found.
LEMMA RequestCreateIInv ==
    ASSUME IInv, NEW r \in Requests, RequestCreate(r)
    PROVE  IInv'
<1> USE DEF IInv
<1>1. PICK l \in LoanIds :
        /\ loan[l].status = "none"
        /\ loan' = [loan EXCEPT ![l] =
                      [NoLoan EXCEPT !.status = "pending", !.member = loc[r].member,
                                     !.amount = loc[r].amount,
                                     !.due = TotalDue(loc[r].amount)]]
  BY DEF RequestCreate
<1>2. loc[r].member \in Members /\ loc[r].amount \in Nat
  BY DEF TypeOK, Locals
<1>3. /\ loan'[l] \in Loan /\ loan'[l].status = "pending" /\ loan'[l].repaid = 0
      /\ \A k \in LoanIds \ {l} : loan'[k] = loan[k]
  BY <1>1, <1>2, TotalDueType, NoLoanType DEF TypeOK, Loan, LoanStatus, NoLoan
<1>4. Finish(r) /\ UNCHANGED <<repayments, group, overlapped>>
  BY DEF RequestCreate
<1>5. repayments[l] = 0
  BY <1>1 DEF NoneIsUnpaid
<1>6. TypeOK'
  <2>1. loan' \in [LoanIds -> Loan]
    BY <1>1, <1>3 DEF TypeOK
  <2> QED
    BY <2>1, <1>4, FinishType DEF TypeOK, group
<1>7. BalanceLags' /\ ActiveIsDisbursed' /\ NoneIsUnpaid'
  BY <1>3, <1>4, <1>5 DEF BalanceLags, ActiveIsDisbursed, NoneIsUnpaid
<1>8. RepaidInFull' /\ DisbursedBeforeRepaid'
  BY <1>3, <1>4, <1>5 DEF RepaidInFull, DisbursedBeforeRepaid
<1>9. InFlightSound'
  <2> SUFFICES ASSUME NEW q \in Requests, pc'[q] \in {"approve", "reject", "repay"}
               PROVE  InFlightSound!(q)'
    BY DEF InFlightSound
  <2>1. q # r /\ pc'[q] = pc[q] /\ loc'[q] = loc[q]
    BY <1>4, FinishType
  <2>2. loc[q].id \in LoanIds /\ loc[q].id # l
    BY <1>1, <2>1 DEF InFlightSound, TypeOK, Locals
  <2> QED
    BY <1>3, <1>4, <2>1, <2>2 DEF InFlightSound
<1> QED
  BY <1>6, <1>7, <1>8, <1>9

LEMMA ApproveWriteIInv ==
    ASSUME IInv, NEW r \in Requests, ApproveWrite(r)
    PROVE  IInv'
<1> DEFINE l == loc[r].id
<1> USE DEF IInv
<1>1. /\ l \in LoanIds /\ loan[l] \in Loan /\ loan[l].status # "none"
      /\ Finish(r) /\ UNCHANGED <<repayments, group, overlapped>>
  BY DEF ApproveWrite, TypeOK, Locals, InFlightSound
<1>2. /\ loan'[l] \in Loan /\ loan'[l].status = "active" /\ loan'[l].disbursed
      /\ loan'[l].due = loan[l].due /\ loan'[l].repaid = loan[l].repaid
      /\ \A k \in LoanIds \ {l} : loan'[k] = loan[k]
      /\ loan' \in [LoanIds -> Loan]
  BY <1>1 DEF ApproveWrite, TypeOK, Loan, LoanStatus
<1>3. TypeOK'
  BY <1>1, <1>2, FinishType DEF TypeOK, group
<1>4. BalanceLags' /\ ActiveIsDisbursed' /\ NoneIsUnpaid'
  BY <1>1, <1>2 DEF BalanceLags, ActiveIsDisbursed, NoneIsUnpaid
<1>5. RepaidInFull' /\ DisbursedBeforeRepaid'
  BY <1>1, <1>2 DEF RepaidInFull, DisbursedBeforeRepaid
<1>6. InFlightSound'
  BY <1>1, <1>2, FinishType, SMTT(40) DEF InFlightSound, TypeOK, Locals
<1> QED
  BY <1>3, <1>4, <1>5, <1>6

LEMMA RejectWriteIInv ==
    ASSUME IInv, NEW r \in Requests, RejectWrite(r)
    PROVE  IInv'
<1> DEFINE l == loc[r].id
<1> USE DEF IInv
<1>1. /\ l \in LoanIds /\ loan[l] \in Loan /\ loan[l].status # "none"
      /\ Finish(r) /\ UNCHANGED <<repayments, group, overlapped>>
  BY DEF RejectWrite, TypeOK, Locals, InFlightSound
<1>2. /\ loan'[l] \in Loan /\ loan'[l].status = "rejected"
      /\ loan'[l].disbursed = loan[l].disbursed
      /\ loan'[l].due = loan[l].due /\ loan'[l].repaid = loan[l].repaid
      /\ \A k \in LoanIds \ {l} : loan'[k] = loan[k]
      /\ loan' \in [LoanIds -> Loan]
  BY <1>1 DEF RejectWrite, TypeOK, Loan, LoanStatus
<1>3. TypeOK'
  BY <1>1, <1>2, FinishType DEF TypeOK, group
<1>4. BalanceLags' /\ ActiveIsDisbursed' /\ NoneIsUnpaid'
  BY <1>1, <1>2 DEF BalanceLags, ActiveIsDisbursed, NoneIsUnpaid
<1>5. RepaidInFull' /\ DisbursedBeforeRepaid'
  BY <1>1, <1>2 DEF RepaidInFull, DisbursedBeforeRepaid
<1>6. InFlightSound'
  BY <1>1, <1>2, FinishType DEF InFlightSound, TypeOK, Locals
<1> QED
  BY <1>3, <1>4, <1>5, <1>6

\* The balance written is one read earlier plus this amount: the rows hold at
\* least as much, since other repayments only add to them.
LEMMA RepayWriteIInv ==
    ASSUME IInv, NEW r \in Requests, RepayWrite(r)
    PROVE  IInv'
<1> DEFINE l == loc[r].id
           read == loc[r].loan
           amount == loc[r].amount
<1> USE DEF IInv
<1>1. /\ l \in LoanIds /\ loan[l] \in Loan /\ repayments[l] \in Nat
      /\ amount \in Nat /\ read \in Loan
      /\ Finish(r) /\ UNCHANGED <<group, overlapped>>
  BY DEF RepayWrite, TypeOK, Locals
<1>2. /\ loan[l].status # "none" /\ loan[l].disbursed
      /\ read.due = loan[l].due /\ read.repaid <= repayments[l]
      /\ read.due \in Nat /\ read.repaid \in Nat
  BY <1>1 DEF RepayWrite, InFlightSound, Loan
<1>3. /\ loan'[l] \in Loan
      /\ loan'[l].status = IF read.repaid + amount >= read.due THEN "repaid" ELSE "active"
      /\ loan'[l].disbursed = loan[l].disbursed
      /\ loan'[l].due = loan[l].due /\ loan'[l].repaid = read.repaid + amount
      /\ \A k \in LoanIds \ {l} : loan'[k] = loan[k]
      /\ loan' \in [LoanIds -> Loan]
  <2> DEFINE close == IF read.repaid + amount >= read.due THEN "repaid" ELSE "active"
             new == [loan[l] EXCEPT !.repaid = read.repaid + amount, !.status = close]
  <2>1. loan' = [loan EXCEPT ![l] = new]
    BY DEF RepayWrite, NewRepaid, IsFullyRepaid
  <2>2. close \in LoanStatus /\ read.repaid + amount \in Nat
    BY <1>1, <1>2 DEF LoanStatus
  <2> HIDE DEF close
  <2>3. /\ new \in Loan /\ new.status = close /\ new.disbursed = loan[l].disbursed
        /\ new.due = loan[l].due /\ new.repaid = read.repaid + amount
    BY <1>1, <2>2 DEF Loan
  <2> HIDE DEF new
  <2>4. /\ loan'[l] = new /\ loan' \in [LoanIds -> Loan]
        /\ \A k \in LoanIds \ {l} : loan'[k] = loan[k]
    BY <1>1, <2>1, <2>3 DEF TypeOK
  <2> QED
    BY <2>3, <2>4 DEF close
<1>4. /\ repayments'[l] = repayments[l] + amount
      /\ \A k \in LoanIds \ {l} : repayments'[k] = repayments[k]
      /\ repayments' \in [LoanIds -> Nat]
  BY <1>1 DEF RepayWrite, TypeOK
<1>5. TypeOK'
  BY <1>1, <1>3, <1>4, FinishType DEF TypeOK, group
<1>6. BalanceLags' /\ ActiveIsDisbursed' /\ NoneIsUnpaid'
  <2>1. BalanceLags'
    BY <1>1, <1>2, <1>3, <1>4 DEF BalanceLags
  <2>2. ActiveIsDisbursed'
    BY <1>2, <1>3 DEF ActiveIsDisbursed
  <2>3. NoneIsUnpaid'
    BY <1>2, <1>3, <1>4 DEF NoneIsUnpaid
  <2> QED
    BY <2>1, <2>2, <2>3
<1>7. RepaidInFull' /\ DisbursedBeforeRepaid'
  <2>1. loan'[l].status = "repaid" => repayments'[l] >= loan'[l].due
    BY <1>1, <1>2, <1>3, <1>4
  <2>2. RepaidInFull'
    BY <1>3, <1>4, <2>1 DEF RepaidInFull
  <2>3. loan'[l].disbursed
    BY <1>2, <1>3
  <2>4. DisbursedBeforeRepaid'
    BY <1>3, <1>4, <2>3 DEF DisbursedBeforeRepaid
  <2> QED
    BY <2>2, <2>4
<1>8. InFlightSound'
  <2>1. \A k \in LoanIds : repayments[k] \in Nat /\ repayments[k] <= repayments'[k]
    BY <1>1, <1>4 DEF TypeOK
  <2>2. \A k \in LoanIds : /\ loan'[k].due = loan[k].due
                           /\ loan'[k].disbursed = loan[k].disbursed
                           /\ loan[k].status # "none" => loan'[k].status # "none"
    BY <1>3
  <2>3. \A q \in Requests : /\ loc[q].id \in LoanIds /\ loc[q].loan.repaid \in Nat
                            /\ q # r => pc'[q] = pc[q] /\ loc'[q] = loc[q]
    BY <1>1, FinishType DEF TypeOK, Locals, Loan
  <2> SUFFICES ASSUME NEW q \in Requests, pc'[q] \in {"approve", "reject", "repay"}
               PROVE  InFlightSound!(q)'
    BY DEF InFlightSound
  <2>4. q # r /\ pc'[q] = pc[q] /\ loc'[q] = loc[q]
    BY <1>1, FinishType
  <2>5. loan[loc[q].id].status # "none"
    BY <2>4 DEF InFlightSound
  <2>6. CASE pc[q] # "repay"
    BY <2>2, <2>3, <2>4, <2>5, <2>6
  <2>7. CASE pc[q] = "repay"
    <3>1. /\ loan[loc[q].id].disbursed /\ loc[q].loan.due = loan[loc[q].id].due
          /\ loc[q].loan.repaid <= repayments[loc[q].id]
      BY <2>7 DEF InFlightSound
    <3>2. loc[q].loan.repaid <= repayments'[loc[q].id]
      BY <1>4, <2>1, <2>3, <3>1
    <3> QED
      BY <2>2, <2>3, <2>4, <2>5, <3>1, <3>2
  <2> QED
    BY <2>6, <2>7
<1> QED
  BY <1>5, <1>6, <1>7, <1>8

\* Savings, cycle and settings do not touch the loans.
LEMMA EnvironmentIInv ==
    ASSUME IInv,
           (\E m \in Members : SavingsChange(m)) \/ CycleChange \/ AllowLoansChange
    PROVE  IInv'
<1>1. UNCHANGED <<money, pc, loc, overlapped>>
  BY DEF SavingsChange, CycleChange, AllowLoansChange
<1>2. TypeOK'
  BY <1>1 DEF IInv, TypeOK, money, SavingsChange, CycleChange, AllowLoansChange
<1> QED
  BY <1>1, <1>2, KeepsMoney

LEMMA StutterIInv == IInv /\ UNCHANGED vars => IInv'
<1> SUFFICES ASSUME IInv, UNCHANGED vars PROVE IInv'
  OBVIOUS
<1>1. TypeOK'
  BY DEF IInv, TypeOK, vars, money, group
<1> QED
  BY <1>1, KeepsMoney DEF vars

LEMMA NextIInv == IInv /\ [Next]_vars => IInv'
<1> SUFFICES ASSUME IInv, [Next]_vars PROVE IInv'
  OBVIOUS
<1>1. ASSUME NEW r \in Requests, NEW m \in Members, NEW a \in Amounts, RequestLoan(r, m, a)
      PROVE  IInv'
  BY <1>1, RequestLoanIInv
<1>2. ASSUME NEW r \in Requests, NEW l \in LoanIds, ApproveRead(r, l) \/ RejectRead(r, l)
      PROVE  IInv'
  BY <1>2, DecisionReadIInv
<1>3. ASSUME NEW r \in Requests, NEW l \in LoanIds, NEW a \in Amounts, RepayRead(r, l, a)
      PROVE  IInv'
  BY <1>3, RepayReadIInv
<1>4. ASSUME NEW r \in Requests, RequestLimit(r) \/ RequestCreate(r)
      PROVE  IInv'
  BY <1>4, RequestLimitIInv, RequestCreateIInv
<1>5. ASSUME NEW r \in Requests, ApproveWrite(r) \/ RejectWrite(r) \/ RepayWrite(r)
      PROVE  IInv'
  BY <1>5, ApproveWriteIInv, RejectWriteIInv, RepayWriteIInv
<1>6. ASSUME NEW r \in Requests, Fail(r)
      PROVE  IInv'
  BY <1>6, FailIInv
<1>7. CASE (\E m \in Members : SavingsChange(m)) \/ CycleChange \/ AllowLoansChange
  BY <1>7, EnvironmentIInv
<1>8. CASE UNCHANGED vars
  BY <1>8, StutterIInv
<1> QED
  BY <1>1, <1>2, <1>3, <1>4, <1>5, <1>6, <1>7, <1>8 DEF Next

LEMMA SpecIInv == Spec => []IInv
  BY InitIInv, NextIInv, PTL DEF Spec

-----------------------------------------------------------------------------
\* Every variable keeps its type: no balance is negative, no status is one the
\* schema does not have (loans.service.ts).
THEOREM TypeCorrect == Spec => []TypeOK
<1>1. IInv => TypeOK
  BY DEF IInv
<1> QED
  BY <1>1, SpecIInv, PTL

\* However many repayments, approvals and rejections cross each other, a loan
\* is marked repaid only when its repayment rows cover what was due
\* (recordRepayment).
THEOREM RepaidLoansAreCovered == Spec => []RepaidInFull
<1>1. IInv => RepaidInFull
  BY DEF IInv
<1> QED
  BY <1>1, SpecIInv, PTL

\* No repayment row is written for a loan that was never paid out
\* (recordRepayment against approveLoan and rejectLoan).
THEOREM RepaymentsFollowDisbursement == Spec => []DisbursedBeforeRepaid
<1>1. IInv => DisbursedBeforeRepaid
  BY DEF IInv
<1> QED
  BY <1>1, SpecIInv, PTL
-----------------------------------------------------------------------------
(* One handler at a time: what each of them promises about the row it found. *)

\* No two handlers are in flight.
Alone == \A q, r \in Requests : pc[q] # "idle" /\ pc[r] # "idle" => q = r

\* What the handler in flight has found is still so when it writes.
FoundHolds ==
    \A r \in Requests :
        LET l == loc[r].id IN
        /\ pc[r] \in {"savings", "create"} => loc[r].amount > 0
        /\ pc[r] \in {"approve", "reject"} => loan[l].status = "pending"
        /\ pc[r] = "repay" => loan[l].status = "active" /\ loc[r].loan = loan[l]

\* An open loan, pending ones included, still owes something.
OpenOwes == \A l \in LoanIds : loan[l].status \in Open => loan[l].repaid < loan[l].due

\* The balance is the sum of the repayment rows.
Balanced == \A l \in LoanIds : loan[l].repaid = repayments[l]

SerialInv == ~ overlapped => Alone /\ FoundHolds /\ OpenOwes /\ Balanced

\* The interest is never negative: a loan is due in full at least.
LEMMA TotalDueCovers ==
    ASSUME NEW amount \in Nat
    PROVE  TotalDue(amount) >= amount
<1>1. RateNum \in Nat /\ RateDen \in Nat \ {0}
  BY ConstantsAssumption
<1>2. amount * RateNum \in Nat
  BY <1>1
<1>3. \A x \in Nat, d \in Nat \ {0} : x \div d \in Nat
  OBVIOUS
<1>4. 2 * amount * RateNum + RateDen \in Nat /\ 2 * RateDen \in Nat \ {0}
  BY <1>1, <1>2
<1>5. (2 * amount * RateNum + RateDen) \div (2 * RateDen) \in Nat
  BY <1>3, <1>4
<1> QED
  BY <1>5 DEF TotalDue

LEMMA InitSerial == Init => SerialInv
<1> SUFFICES ASSUME Init PROVE Alone /\ FoundHolds /\ OpenOwes /\ Balanced
  BY DEF SerialInv
<1>1. \A l \in LoanIds : loan[l].status = "none" /\ loan[l].repaid = 0 /\ repayments[l] = 0
  BY DEF Init, NoLoan
<1>2. \A r \in Requests : pc[r] = "idle"
  BY DEF Init
<1> QED
  BY <1>1, <1>2 DEF Alone, FoundHolds, OpenOwes, Balanced, Open

\* A handler that begins without overlapping another finds every other idle.
LEMMA BeginAlone ==
    ASSUME IInv, NEW r \in Requests, NEW step \in Steps, NEW l \in Locals,
           Begin(r, step, l), ~ overlapped'
    PROVE  /\ ~ overlapped /\ UNCHANGED money
           /\ pc'[r] = step /\ loc'[r] = l
           /\ \A q \in Requests \ {r} : pc'[q] = "idle"
<1>1. Goto(r, step, l) /\ UNCHANGED <<money, group>>
  BY DEF Begin
<1>2. ~ overlapped /\ \A q \in Requests \ {r} : pc[q] = "idle"
  BY DEF Begin
<1> QED
  BY <1>1, <1>2, GotoType DEF IInv

\* When the one handler in flight finishes, none is left.
LEMMA FinishAlone ==
    ASSUME IInv, Alone, NEW r \in Requests, pc[r] # "idle", Finish(r)
    PROVE  \A q \in Requests : pc'[q] = "idle"
<1>1. \A q \in Requests \ {r} : pc[q] = "idle"
  BY DEF Alone
<1> QED
  BY <1>1, FinishType DEF IInv

LEMMA BeginSerial ==
    ASSUME IInv, SerialInv, ~ overlapped', NEW r \in Requests,
           \/ \E m \in Members, a \in Amounts : RequestLoan(r, m, a)
           \/ \E l \in LoanIds : ApproveRead(r, l) \/ RejectRead(r, l)
           \/ \E l \in LoanIds, a \in Amounts : RepayRead(r, l, a)
    PROVE  SerialInv'
<1>1. ASSUME NEW step \in Steps \ {"idle"}, NEW found \in Locals, Begin(r, step, found),
             step \in {"savings", "create"} => found.amount > 0,
             step \in {"approve", "reject"} => loan[found.id].status = "pending",
             step = "repay" => /\ loan[found.id].status = "active"
                               /\ found.loan = loan[found.id]
      PROVE  SerialInv'
  <2>1. /\ ~ overlapped /\ UNCHANGED money
        /\ pc'[r] = step /\ loc'[r] = found
        /\ \A q \in Requests \ {r} : pc'[q] = "idle"
    BY <1>1, BeginAlone
  <2>2. Alone' /\ FoundHolds'
    BY <1>1, <2>1 DEF Alone, FoundHolds, money
  <2>3. OpenOwes' /\ Balanced'
    BY <2>1 DEF SerialInv, OpenOwes, Balanced, money
  <2> QED
    BY <2>2, <2>3 DEF SerialInv
<1>2. ASSUME NEW m \in Members, NEW a \in Amounts, RequestLoan(r, m, a)
      PROVE  SerialInv'
  <2> DEFINE found == [NoLocals EXCEPT !.member = m, !.amount = a]
  <2>1. found \in Locals /\ found.amount = a
    BY NoLocalsType, ConstantsAssumption DEF Locals
  <2>2. Begin(r, "savings", found) /\ a > 0
    BY <1>2 DEF RequestLoan
  <2> QED
    BY <1>1, <2>1, <2>2 DEF Steps
<1>3. ASSUME NEW l \in LoanIds, ApproveRead(r, l) \/ RejectRead(r, l)
      PROVE  SerialInv'
  <2> DEFINE found == [NoLocals EXCEPT !.id = l]
  <2>1. found \in Locals /\ found.id = l
    BY NoLocalsType DEF Locals
  <2>2. loan[l].status = "pending"
    BY <1>3 DEF ApproveRead, RejectRead
  <2>3. PICK step \in {"approve", "reject"} : Begin(r, step, found)
    BY <1>3 DEF ApproveRead, RejectRead
  <2> QED
    BY <1>1, <2>1, <2>2, <2>3 DEF Steps
<1>4. ASSUME NEW l \in LoanIds, NEW a \in Amounts, RepayRead(r, l, a)
      PROVE  SerialInv'
  <2> DEFINE found == [NoLocals EXCEPT !.id = l, !.amount = a, !.loan = loan[l]]
  <2>1. loan[l] \in Loan /\ a \in Nat
    BY ConstantsAssumption DEF IInv, TypeOK
  <2>2. found \in Locals /\ found.id = l /\ found.loan = loan[l]
    BY <2>1, NoLocalsType DEF Locals
  <2>3. Begin(r, "repay", found) /\ loan[l].status = "active"
    BY <1>4 DEF RepayRead
  <2> QED
    BY <1>1, <2>2, <2>3 DEF Steps
<1> QED
  BY <1>2, <1>3, <1>4

LEMMA RequestLimitSerial ==
    ASSUME IInv, SerialInv, ~ overlapped', NEW r \in Requests, RequestLimit(r)
    PROVE  SerialInv'
<1>1. ~ overlapped /\ UNCHANGED money /\ pc[r] = "savings"
  BY DEF RequestLimit
<1>2. Alone /\ FoundHolds /\ OpenOwes /\ Balanced
  BY <1>1 DEF SerialInv
<1>3. loc[r] \in Locals /\ loc[r].amount > 0
  BY <1>1, <1>2 DEF IInv, TypeOK, FoundHolds
<1>4. CASE Goto(r, "create", loc[r])
  <2>1. pc'[r] = "create" /\ loc'[r].amount > 0 /\ \A q \in Requests \ {r} : pc'[q] = pc[q]
    BY <1>3, <1>4, GotoType DEF IInv, Steps
  <2>2. \A q \in Requests \ {r} : pc'[q] = "idle"
    BY <1>1, <1>2, <2>1 DEF Alone
  <2>3. Alone' /\ FoundHolds'
    BY <2>1, <2>2 DEF Alone, FoundHolds
  <2> QED
    BY <1>1, <1>2, <2>3 DEF SerialInv, OpenOwes, Balanced, money
<1>5. CASE Finish(r)
  <2>1. \A q \in Requests : pc'[q] = "idle"
    BY <1>1, <1>2, <1>5, FinishAlone
  <2> QED
    BY <1>1, <1>2, <2>1 DEF SerialInv, Alone, FoundHolds, OpenOwes, Balanced, money
<1> QED
  BY <1>4, <1>5 DEF RequestLimit

LEMMA FailSerial ==
    ASSUME IInv, SerialInv, ~ overlapped', NEW r \in Requests, Fail(r)
    PROVE  SerialInv'
<1>1. ~ overlapped /\ UNCHANGED money /\ pc[r] # "idle" /\ Finish(r)
  BY DEF Fail
<1>2. Alone /\ OpenOwes /\ Balanced
  BY <1>1 DEF SerialInv
<1>3. \A q \in Requests : pc'[q] = "idle"
  BY <1>1, <1>2, FinishAlone
<1> QED
  BY <1>1, <1>2, <1>3 DEF SerialInv, Alone, FoundHolds, OpenOwes, Balanced, money

\* A new loan is due at least what was asked for, and that is not nothing.
LEMMA RequestCreateSerial ==
    ASSUME IInv, SerialInv, ~ overlapped', NEW r \in Requests, RequestCreate(r)
    PROVE  SerialInv'
<1>1. ~ overlapped /\ pc[r] = "create" /\ Finish(r) /\ UNCHANGED repayments
  BY DEF RequestCreate
<1>2. Alone /\ FoundHolds /\ OpenOwes /\ Balanced
  BY <1>1 DEF SerialInv
<1>3. \A q \in Requests : pc'[q] = "idle"
  BY <1>1, <1>2, FinishAlone
<1>4. PICK l \in LoanIds :
        /\ loan[l].status = "none"
        /\ loan' = [loan EXCEPT ![l] =
                      [NoLoan EXCEPT !.status = "pending", !.member = loc[r].member,
                                     !.amount = loc[r].amount,
                                     !.due = TotalDue(loc[r].amount)]]
  BY DEF RequestCreate
<1>5. loc[r].amount \in Nat /\ loc[r].amount > 0
  BY <1>1, <1>2 DEF IInv, TypeOK, Locals, FoundHolds
<1>6. TotalDue(loc[r].amount) \in Nat /\ 0 < TotalDue(loc[r].amount)
  BY <1>5, TotalDueType, TotalDueCovers
<1>7. /\ loan'[l].repaid = 0 /\ loan'[l].due = TotalDue(loc[r].amount)
      /\ \A k \in LoanIds \ {l} : loan'[k] = loan[k]
  BY <1>4 DEF IInv, TypeOK, NoLoan
<1>8. repayments[l] = 0
  BY <1>4 DEF IInv, NoneIsUnpaid
<1>9. OpenOwes' /\ Balanced'
  BY <1>1, <1>2, <1>6, <1>7, <1>8 DEF OpenOwes, Balanced
<1> QED
  BY <1>3, <1>9 DEF SerialInv, Alone, FoundHolds

\* The decision is taken on the loan as it was found: still pending, owing all.
LEMMA DecisionWriteSerial ==
    ASSUME IInv, SerialInv, ~ overlapped', NEW r \in Requests,
           ApproveWrite(r) \/ RejectWrite(r)
    PROVE  SerialInv'
<1> DEFINE l == loc[r].id
<1>1. ~ overlapped /\ pc[r] \in {"approve", "reject"} /\ Finish(r) /\ UNCHANGED repayments
  BY DEF ApproveWrite, RejectWrite
<1>2. Alone /\ FoundHolds /\ OpenOwes /\ Balanced
  BY <1>1 DEF SerialInv
<1>3. \A q \in Requests : pc'[q] = "idle"
  BY <1>1, <1>2, FinishAlone
<1>4. l \in LoanIds /\ loan[l].status = "pending"
  BY <1>1, <1>2 DEF IInv, TypeOK, Locals, FoundHolds
<1>5. /\ loan'[l].repaid = loan[l].repaid /\ loan'[l].due = loan[l].due
      /\ \A k \in LoanIds \ {l} : loan'[k] = loan[k]
  BY <1>4 DEF IInv, TypeOK, Loan, ApproveWrite, RejectWrite
<1>6. OpenOwes' /\ Balanced'
  BY <1>1, <1>2, <1>4, <1>5 DEF OpenOwes, Balanced, Open
<1> QED
  BY <1>3, <1>6 DEF SerialInv, Alone, FoundHolds

\* The balance read is the balance of the rows, so the sum written is too; the
\* loan stays active only while the sum falls short.
LEMMA RepayWriteSerial ==
    ASSUME IInv, SerialInv, ~ overlapped', NEW r \in Requests, RepayWrite(r)
    PROVE  SerialInv'
<1> DEFINE l == loc[r].id
           read == loc[r].loan
           amount == loc[r].amount
           close == IF read.repaid + amount >= read.due THEN "repaid" ELSE "active"
           new == [loan[l] EXCEPT !.repaid = read.repaid + amount, !.status = close]
<1>1. ~ overlapped /\ pc[r] = "repay" /\ Finish(r)
  BY DEF RepayWrite
<1>2. Alone /\ FoundHolds /\ OpenOwes /\ Balanced
  BY <1>1 DEF SerialInv
<1>3. \A q \in Requests : pc'[q] = "idle"
  BY <1>1, <1>2, FinishAlone
<1>4. /\ l \in LoanIds /\ loan[l] \in Loan /\ read = loan[l]
      /\ amount \in Nat /\ repayments[l] \in Nat
  BY <1>1, <1>2 DEF IInv, TypeOK, Locals, FoundHolds
<1>5. loan' = [loan EXCEPT ![l] = new]
  BY DEF RepayWrite, NewRepaid, IsFullyRepaid
<1> HIDE DEF close
<1>6. new.repaid = loan[l].repaid + amount /\ new.due = loan[l].due /\ new.status = close
  BY <1>4 DEF Loan
<1> HIDE DEF new
<1>7. loan'[l] = new /\ \A k \in LoanIds \ {l} : loan'[k] = loan[k]
  BY <1>4, <1>5 DEF IInv, TypeOK
<1>8. /\ repayments'[l] = repayments[l] + amount
      /\ \A k \in LoanIds \ {l} : repayments'[k] = repayments[k]
  BY <1>4 DEF RepayWrite, IInv, TypeOK
<1>9. Balanced'
  BY <1>2, <1>4, <1>6, <1>7, <1>8 DEF Balanced
<1>10. loan'[l].status \in Open => loan'[l].repaid < loan'[l].due
  BY <1>4, <1>6, <1>7 DEF close, Open, Loan
<1>11. OpenOwes'
  BY <1>2, <1>7, <1>10 DEF OpenOwes
<1> QED
  BY <1>3, <1>9, <1>11 DEF SerialInv, Alone, FoundHolds

LEMMA NextSerial == IInv /\ SerialInv /\ [Next]_vars => SerialInv'
<1> SUFFICES ASSUME IInv, SerialInv, [Next]_vars, ~ overlapped' PROVE SerialInv'
  BY DEF SerialInv
<1>1. ASSUME NEW r \in Requests,
             \/ \E m \in Members, a \in Amounts : RequestLoan(r, m, a)
             \/ \E l \in LoanIds : ApproveRead(r, l) \/ RejectRead(r, l)
             \/ \E l \in LoanIds, a \in Amounts : RepayRead(r, l, a)
      PROVE  SerialInv'
  BY <1>1, BeginSerial
<1>2. ASSUME NEW r \in Requests, RequestLimit(r) \/ RequestCreate(r) \/ Fail(r)
      PROVE  SerialInv'
  BY <1>2, RequestLimitSerial, RequestCreateSerial, FailSerial
<1>3. ASSUME NEW r \in Requests, ApproveWrite(r) \/ RejectWrite(r) \/ RepayWrite(r)
      PROVE  SerialInv'
  BY <1>3, DecisionWriteSerial, RepayWriteSerial
<1>4. CASE \/ (\E m \in Members : SavingsChange(m)) \/ CycleChange \/ AllowLoansChange
           \/ UNCHANGED vars
  <2>1. UNCHANGED <<money, pc, loc, overlapped>>
    BY <1>4 DEF SavingsChange, CycleChange, AllowLoansChange, vars
  <2> QED
    BY <2>1 DEF SerialInv, Alone, FoundHolds, OpenOwes, Balanced, money
<1> QED
  BY <1>1, <1>2, <1>3, <1>4 DEF Next

LEMMA SpecSerial == Spec => []SerialInv
<1>1. Init /\ [][Next]_vars /\ []IInv => []SerialInv
  BY InitSerial, NextSerial, PTL
<1> QED
  BY <1>1, SpecIInv, PTL DEF Spec

\* While no two handlers overlap, the balance of a loan is the sum of its
\* repayment rows and an active loan still owes something: nothing is lost
\* between what recordRepayment reads and what it writes.
THEOREM SerialBalanceIsExact == Spec => []BalanceExact
<1>1. SerialInv => BalanceExact
  BY DEF SerialInv, BalanceExact, OpenOwes, Balanced, Open
<1> QED
  BY <1>1, SpecSerial, PTL

\* While no two handlers overlap, the row of a repaid or rejected loan never
\* changes again (approveLoan, rejectLoan, recordRepayment).
THEOREM ClosedLoansStayClosed == Spec => ClosedIsFinal
<1>1. ASSUME IInv, SerialInv, [Next]_vars, ~ overlapped',
             NEW l \in LoanIds, loan[l].status \in {"repaid", "rejected"}
      PROVE  loan'[l] = loan[l]
  <2>1. ASSUME NEW r \in Requests, RequestCreate(r)
        PROVE  loan'[l] = loan[l]
    BY <1>1, <2>1 DEF RequestCreate, IInv, TypeOK
  <2>2. ASSUME NEW r \in Requests, ApproveWrite(r) \/ RejectWrite(r) \/ RepayWrite(r)
        PROVE  loan'[l] = loan[l]
    <3>1. ~ overlapped /\ pc[r] \in {"approve", "reject", "repay"}
      BY <1>1, <2>2 DEF ApproveWrite, RejectWrite, RepayWrite
    <3>2. loan[loc[r].id].status \in {"pending", "active"}
      BY <1>1, <3>1 DEF SerialInv, FoundHolds
    <3>3. l # loc[r].id
      BY <1>1, <3>2
    <3> QED
      BY <2>2, <1>1, <3>3 DEF ApproveWrite, RejectWrite, RepayWrite, IInv, TypeOK
  <2>3. CASE UNCHANGED loan
    BY <2>3
  <2> QED
    BY <1>1, <2>1, <2>2, <2>3 DEF Next, RequestLoan, RequestLimit, ApproveRead, RejectRead,
       RepayRead, Fail, SavingsChange, CycleChange, AllowLoansChange, Begin, money, vars
<1>2. IInv /\ SerialInv /\ [Next]_vars =>
        [~ overlapped' =>
           \A l \in LoanIds :
              loan[l].status \in {"repaid", "rejected"} => loan'[l] = loan[l]]_vars
  BY <1>1
<1> QED
  BY <1>2, SpecIInv, SpecSerial, PTL DEF Spec, ClosedIsFinal

=============================================================================
