-------------------------- MODULE RoundLedger_proofs --------------------------
(***************************************************************************)
(* What RoundLedger promises however its handlers interleave, proved for   *)
(* any members, any number of handlers in flight and any settings.         *)
(***************************************************************************)
EXTENDS Reports, FiniteSetTheorems, WellFoundedInduction, TLAPS

\* The parts of TypeOK.
DataOK ==
    /\ cycle \in CycleStatus
    /\ status \in RoundStatus
    /\ settings \in GroupSettings
    /\ ledger \in [Members -> Row]
    /\ total \in Nat
    /\ payout \in [Members -> PayoutRow]
    /\ active \in SUBSET Members
    /\ pastDue \in BOOLEAN
    /\ draws \in Nat \ {0}
    /\ unattended \in BOOLEAN
    /\ waivers \in BOOLEAN
    /\ inTime \in SUBSET Members

InFlightOK ==
    /\ pc \in [Requests -> Steps]
    /\ loc \in [Requests -> Locals]

LEMMA TypeParts ==
    /\ TypeOK <=> DataOK /\ InFlightOK
    /\ TypeOK' <=> DataOK' /\ InFlightOK'
  BY DEF TypeOK, DataOK, InFlightOK

LEMMA NoPayoutsType == NoPayout \in PayoutRow /\ NoPayouts \in [Members -> PayoutRow]
  BY DEF NoPayout, NoPayouts, PayoutRow

LEMMA NoLocalsType == NoLocals \in Locals
  BY NoPayoutsType, ConstantsAssumption DEF NoLocals, Locals, RowStatus, RoundStatus

LEMMA DrawType ==
    ASSUME NEW S, NEW n \in Nat
    PROVE  Draw(S, n) \in [Members -> PayoutRow]
<1>1. [NoPayout EXCEPT !.draw = n] \in PayoutRow
  BY NoPayoutsType DEF PayoutRow
<1> QED
  BY <1>1, NoPayoutsType DEF Draw

LEMMA GotoType ==
    ASSUME InFlightOK, NEW r \in Requests, NEW step \in Steps, NEW l \in Locals,
           Goto(r, step, l)
    PROVE  /\ InFlightOK'
           /\ pc'[r] = step /\ loc'[r] = l
           /\ \A q \in Requests \ {r} : pc'[q] = pc[q] /\ loc'[q] = loc[q]
  BY DEF InFlightOK, Goto

LEMMA FinishType ==
    ASSUME InFlightOK, NEW r \in Requests, Finish(r)
    PROVE  /\ InFlightOK'
           /\ pc'[r] = "idle"
           /\ \A q \in Requests \ {r} : pc'[q] = pc[q] /\ loc'[q] = loc[q]
  BY GotoType, NoLocalsType DEF Finish, Steps

LEMMA ContinueType ==
    ASSUME InFlightOK, NEW r \in Requests, NEW step \in Steps, Continue(r, step)
    PROVE  /\ InFlightOK'
           /\ pc'[r] = step
           /\ \A q \in Requests \ {r} : pc'[q] = pc[q] /\ loc'[q] = loc[q]
  BY GotoType, NoLocalsType DEF Continue

\* What a handler has read is of its type.
LEMMA LocalsParts ==
    ASSUME InFlightOK, NEW r \in Requests
    PROVE  /\ loc[r] \in Locals
           /\ loc[r].member \in Members /\ loc[r].mark \in {"paid", "late"}
           /\ loc[r].batch \subseteq Members /\ loc[r].amount \in Nat
           /\ loc[r].rows \in [Members -> PayoutRow]
  BY DEF InFlightOK, Locals

LEMMA RecipientsFinite ==
    ASSUME NEW rows \in [Members -> PayoutRow], Recipients(rows) # {}
    PROVE  Cardinality(Recipients(rows)) \in Nat \ {0}
<1>1. IsFiniteSet(Recipients(rows))
  BY FS_Subset, ConstantsAssumption DEF Recipients
<1> QED
  BY <1>1, FS_CardinalityType, FS_EmptySet

LEMMA PerRecipientType ==
    ASSUME NEW pot \in Nat, NEW rows \in [Members -> PayoutRow], Recipients(rows) # {}
    PROVE  PerRecipient(pot, rows) \in Nat
<1>1. \A d \in Nat \ {0} : pot \div d \in Nat
  OBVIOUS
<1>2. pot \div Cardinality(Recipients(rows)) \in Nat
  BY <1>1, RecipientsFinite
<1> QED
  BY <1>2, ConstantsAssumption DEF PerRecipient

-----------------------------------------------------------------------------
\* A handler begins: it reads, and goes on with what it has read.
LEMMA BeginType ==
    ASSUME TypeOK, NEW r \in Requests, Begin(r)
    PROVE  InFlightOK' /\ UNCHANGED <<data, aux>>
<1> USE TypeParts
<1>1. ASSUME NEW m \in Members, UploadRead(r, m) \/ RecordRead(r, m) \/ ApproveRead(r, m)
      PROVE  InFlightOK' /\ UNCHANGED <<data, aux>>
  <2> DEFINE upload == [NoLocals EXCEPT !.member = m]
             record == [NoLocals EXCEPT !.member = m, !.row = ledger[m].status,
                                        !.mark = PaidOrLate]
             approve == [NoLocals EXCEPT !.member = m, !.mark = PaidOrLate]
  <2>1. ledger[m].status \in RowStatus /\ PaidOrLate \in {"paid", "late"}
    BY DEF DataOK, Row, PaidOrLate
  <2>2. upload \in Locals /\ record \in Locals /\ approve \in Locals
    BY <2>1, NoLocalsType DEF Locals
  <2> QED
    BY <1>1, <2>2, GotoType DEF UploadRead, RecordRead, ApproveRead, Steps
<1>2. CASE LateScan(r)
  <2> DEFINE l == [NoLocals EXCEPT !.batch = {m \in Members : ledger[m].status = "pending"}]
  <2>1. l \in Locals
    BY NoLocalsType DEF Locals
  <2> QED
    BY <1>2, <2>1, GotoType DEF LateScan, Steps
<1>3. CASE PayoutReadPot(r)
  <2> DEFINE l == [NoLocals EXCEPT !.amount = total]
  <2>1. l \in Locals
    BY NoLocalsType DEF Locals, DataOK
  <2> QED
    BY <1>3, <2>1, GotoType DEF PayoutReadPot, Steps
<1>4. CASE AssignRead(r) \/ RerollRead(r)
  <2>1. \A S \in SUBSET active : [NoLocals EXCEPT !.batch = S] \in Locals
    BY NoLocalsType DEF Locals, DataOK
  <2>2. PICK S \in SUBSET active, step \in {"assign", "reroll"} :
          Goto(r, step, [NoLocals EXCEPT !.batch = S])
    BY <1>4 DEF AssignRead, RerollRead
  <2> QED
    BY <1>4, <2>1, <2>2, GotoType DEF AssignRead, RerollRead, Steps
<1> QED
  BY <1>1, <1>2, <1>3, <1>4 DEF Begin

\* A handler touches the contribution rows.
LEMMA ContributionsType ==
    ASSUME TypeOK, NEW r \in Requests,
           UploadCreate(r) \/ RecordCommit(r) \/ RecordConflict(r)
               \/ ApproveCommit(r) \/ LateFlip(r)
    PROVE  TypeOK'
<1> USE TypeParts
<1>1. /\ loc[r] \in Locals
      /\ loc[r].member \in Members /\ loc[r].mark \in {"paid", "late"}
      /\ loc[r].batch \subseteq Members
  BY LocalsParts
<1>2. CASE UploadCreate(r)
  <2>1. InFlightOK'
    BY <1>2, FinishType DEF UploadCreate
  <2>2. ledger' \in [Members -> Row]
    BY <1>1, <1>2 DEF UploadCreate, DataOK, Row, RowStatus
  <2> QED
    BY <1>2, <2>1, <2>2 DEF UploadCreate, DataOK, Unchanged, aux, recipients, group
<1>3. ASSUME NEW n \in Nat, MarkCollected(r, n)
      PROVE  TypeOK'
  <2>1. InFlightOK'
    BY <1>3, ContinueType DEF MarkCollected, Steps
  <2>2. ledger' \in [Members -> Row]
    BY <1>1, <1>3 DEF MarkCollected, DataOK, Row, RowStatus
  <2>3. total' \in Nat
    BY <1>3 DEF MarkCollected, DataOK
  <2>4. unattended' \in BOOLEAN /\ inTime' \subseteq Members
    BY <1>1, <1>3 DEF MarkCollected, PaidInTime, DataOK
  <2> QED
    BY <1>3, <2>1, <2>2, <2>3, <2>4 DEF MarkCollected, DataOK, Unchanged, recipients, group
<1>4. CASE RecordCommit(r) \/ ApproveCommit(r)
  <2>1. Increment(loc[r].row) \in Nat /\ Amount \in Nat
    BY ConstantsAssumption DEF Increment
  <2> QED
    BY <1>3, <1>4, <2>1 DEF RecordCommit, ApproveCommit
<1>5. CASE RecordConflict(r)
  <2>1. InFlightOK'
    BY <1>5, FinishType DEF RecordConflict
  <2> QED
    BY <1>5, <2>1 DEF RecordConflict, DataOK, data, aux, collected, recipients, group
<1>6. CASE LateFlip(r)
  <2>1. PICK m \in loc[r].batch :
          /\ ledger' = [ledger EXCEPT ![m].status = "late"]
          /\ IF loc[r].batch = {m} THEN Finish(r)
             ELSE Goto(r, "flip", [loc[r] EXCEPT !.batch = @ \ {m}])
    BY <1>6 DEF LateFlip
  <2>2. [loc[r] EXCEPT !.batch = @ \ {m}] \in Locals
    BY <1>1 DEF Locals
  <2>3. InFlightOK'
    BY <2>1, <2>2, FinishType, GotoType DEF Steps
  <2>4. ledger' \in [Members -> Row]
    BY <1>1, <2>1 DEF DataOK, Row, RowStatus
  <2> QED
    BY <1>6, <2>3, <2>4 DEF LateFlip, DataOK, Unchanged, recipients, group
<1> QED
  BY <1>2, <1>4, <1>5, <1>6

\* A handler touches the payout rows.
LEMMA PayoutsType ==
    ASSUME TypeOK, NEW r \in Requests,
           \/ PayoutReadRows(r) \/ PayoutCommit(r) \/ PayoutComplete(r)
           \/ AssignCommit(r) \/ RerollCommit(r)
    PROVE  TypeOK'
<1> USE TypeParts
<1>1. loc[r].amount \in Nat /\ draws + 1 \in Nat \ {0}
  BY LocalsParts DEF DataOK
<1>2. CASE PayoutCommit(r)
  <2>1. InFlightOK'
    BY <1>2, FinishType, ContinueType DEF PayoutCommit, Steps
  <2>2. \A m \in Members : [payout[m] EXCEPT !.paid = TRUE, !.amount = loc[r].amount] \in PayoutRow
    BY <1>1 DEF DataOK, PayoutRow
  <2>3. payout' \in [Members -> PayoutRow]
    BY <1>2, <2>2 DEF PayoutCommit, DataOK
  <2> QED
    BY <1>2, <2>1, <2>3 DEF PayoutCommit, DataOK, collected, group, aux
<1>3. CASE PayoutComplete(r)
  <2>1. InFlightOK'
    BY <1>3, ContinueType DEF PayoutComplete, Steps
  <2> QED
    BY <1>3, <2>1 DEF PayoutComplete, DataOK, RoundStatus, Unchanged, collected, recipients,
       group, aux
<1>4. CASE AssignCommit(r)
  <2>1. InFlightOK'
    BY <1>4, FinishType DEF AssignCommit
  <2>2. payout' \in [Members -> PayoutRow] /\ draws' \in Nat \ {0}
    BY <1>1, <1>4, DrawType DEF AssignCommit
  <2> QED
    BY <1>4, <2>1, <2>2 DEF AssignCommit, DataOK, collected, group, aux
<1>5. CASE RerollCommit(r)
  <2>1. InFlightOK'
    BY <1>5, FinishType DEF RerollCommit
  <2>2. Draw(loc[r].batch, draws + 1) \in [Members -> PayoutRow]
    BY <1>1, DrawType
  <2>3. payout' \in [Members -> PayoutRow] /\ draws' \in Nat \ {0}
    BY <1>1, <1>5, <2>2 DEF RerollCommit, DataOK
  <2> QED
    BY <1>5, <2>1, <2>3 DEF RerollCommit, DataOK, collected, group, aux
<1>6. CASE PayoutReadRows(r)
  <2>1. ASSUME Recipients(payout) # {}
        PROVE  [loc[r] EXCEPT !.rows = payout, !.amount = PerRecipient(loc[r].amount, payout)]
                 \in Locals
    <3>1. loc[r] \in Locals /\ payout \in [Members -> PayoutRow]
      BY LocalsParts DEF DataOK
    <3>2. PerRecipient(loc[r].amount, payout) \in Nat
      BY <1>1, <2>1, <3>1, PerRecipientType
    <3> QED
      BY <3>1, <3>2 DEF Locals
  <2>2. InFlightOK'
    BY <1>6, <2>1, FinishType, GotoType DEF PayoutReadRows, KeepShares, Steps
  <2> QED
    BY <1>6, <2>2 DEF PayoutReadRows, DataOK, data, aux, collected, recipients, group
<1> QED
  BY <1>2, <1>3, <1>4, <1>5, <1>6

\* maybeAdvanceRoundStatus and autoCompleteIfDone.
LEMMA AdvanceType ==
    ASSUME TypeOK, NEW r \in Requests,
           \/ AdvanceReadRound(r) \/ AdvanceReadRows(r) \/ AdvanceReadPayouts(r)
           \/ AdvancePool(r) \/ AdvanceCollect(r) \/ AdvanceNothing(r) \/ AdvancePaid(r)
           \/ AutoCompleteRead(r) \/ AutoCompleteWrite(r)
    PROVE  TypeOK'
<1> USE TypeParts
<1>1. loc[r] \in Locals
  BY LocalsParts
<1>2. CASE AdvanceReadRound(r) \/ AdvanceReadRows(r) \/ AdvanceReadPayouts(r)
  <2>1. [NoLocals EXCEPT !.status = status, !.batch = active] \in Locals
    BY NoLocalsType DEF Locals, DataOK
  <2>2. [loc[r] EXCEPT !.batch = {},
                       !.collected = \A m \in loc[r].batch : ledger[m].status \in Settled]
          \in Locals
    BY <1>1 DEF Locals
  <2>3. PayoutsFound(payout) \in {"none", "unpaid", "paid"}
    BY DEF PayoutsFound
  <2>4. [loc[r] EXCEPT !.found = PayoutsFound(payout)] \in Locals
    BY <1>1, <2>3 DEF Locals
  <2>5. InFlightOK'
    BY <1>2, <2>1, <2>2, <2>4, GotoType
       DEF AdvanceReadRound, AdvanceReadRows, AdvanceReadPayouts, Steps
  <2> QED
    BY <1>2, <2>5 DEF AdvanceReadRound, AdvanceReadRows, AdvanceReadPayouts, DataOK, data,
       aux, collected, recipients, group
<1>3. CASE AdvancePool(r) \/ AdvanceCollect(r) \/ AdvancePaid(r)
  <2>1. InFlightOK'
    BY <1>1, <1>3, GotoType, FinishType, ContinueType
       DEF AdvancePool, AdvanceCollect, AdvancePaid, Steps
  <2>2. status' \in RoundStatus
    BY <1>3 DEF AdvancePool, AdvanceCollect, AdvancePaid, RoundStatus
  <2> QED
    BY <1>3, <2>1, <2>2 DEF AdvancePool, AdvanceCollect, AdvancePaid, DataOK, Unchanged,
       collected, recipients, group, aux
<1>4. CASE AdvanceNothing(r) \/ AutoCompleteRead(r)
  <2>1. InFlightOK'
    BY <1>4, FinishType, ContinueType DEF AdvanceNothing, AutoCompleteRead, Steps
  <2> QED
    BY <1>4, <2>1 DEF AdvanceNothing, AutoCompleteRead, DataOK, data, aux, collected,
       recipients, group
<1>5. CASE AutoCompleteWrite(r)
  <2>1. InFlightOK'
    BY <1>5, FinishType DEF AutoCompleteWrite
  <2> QED
    BY <1>5, <2>1 DEF AutoCompleteWrite, DataOK, CycleStatus, aux, collected, recipients, group
<1> QED
  BY <1>2, <1>3, <1>4, <1>5

LEMMA EnvironmentType ==
    ASSUME TypeOK, Environment
    PROVE  TypeOK' /\ UNCHANGED inFlight
<1> USE TypeParts
<1>1. CASE StartCycle \/ ForceComplete \/ DueDateMoves
  BY <1>1 DEF StartCycle, ForceComplete, DueDateMoves, DataOK, InFlightOK, CycleStatus, aux,
     collected, recipients, group, inFlight
<1>2. ASSUME NEW m \in Members, JoinGroup(m) \/ RemoveMember(m)
      PROVE  TypeOK' /\ UNCHANGED inFlight
  BY <1>2 DEF JoinGroup, RemoveMember, DataOK, InFlightOK, aux, collected, recipients, group,
     inFlight
<1>3. ASSUME NEW m \in Members, Waive(m)
      PROVE  TypeOK' /\ UNCHANGED inFlight
  BY <1>3 DEF Waive, DataOK, InFlightOK, Row, RowStatus, Unchanged, recipients, group, inFlight
<1> QED
  BY <1>1, <1>2, <1>3 DEF Environment

LEMMA FailType ==
    ASSUME TypeOK, NEW r \in Requests, Fail(r)
    PROVE  TypeOK'
<1> USE TypeParts
<1>1. InFlightOK'
  BY FinishType DEF Fail
<1> QED
  BY <1>1 DEF Fail, DataOK, data, collected, recipients, group

LEMMA InitType == Init => TypeOK
<1> SUFFICES ASSUME Init PROVE TypeOK
  OBVIOUS
<1>1. payout \in [Members -> PayoutRow]
  BY DrawType DEF Init
<1>2. InFlightOK
  BY NoLocalsType DEF Init, InFlightOK, Steps
<1>3. DataOK
  <2>1. cycle \in CycleStatus /\ status \in RoundStatus /\ settings \in GroupSettings
    BY DEF Init, CycleStatus, RoundStatus
  <2>2. ledger \in [Members -> Row] /\ total \in Nat /\ draws \in Nat \ {0}
    BY DEF Init, Row, RowStatus
  <2>3. active \in SUBSET Members
    BY DEF Init
  <2>4. pastDue \in BOOLEAN /\ unattended \in BOOLEAN /\ waivers \in BOOLEAN /\ inTime \in SUBSET Members
    BY DEF Init
  <2> QED
    BY <1>1, <2>1, <2>2, <2>3, <2>4 DEF DataOK
<1> QED
  BY <1>2, <1>3, TypeParts

LEMMA NextType == TypeOK /\ [Next]_vars => TypeOK'
<1> SUFFICES ASSUME TypeOK, [Next]_vars PROVE TypeOK'
  OBVIOUS
<1>1. ASSUME NEW r \in Requests, Begin(r) PROVE TypeOK'
  BY <1>1, BeginType, TypeParts DEF DataOK, data, aux, collected, recipients, group
<1>2. ASSUME NEW r \in Requests, Resume(r) PROVE TypeOK'
  BY <1>2, ContributionsType, PayoutsType, AdvanceType DEF Resume
<1>3. ASSUME NEW r \in Requests, Fail(r) PROVE TypeOK'
  BY <1>3, FailType
<1>4. CASE Environment
  BY <1>4, EnvironmentType
<1>5. CASE UNCHANGED vars
  BY <1>5, TypeParts DEF vars, DataOK, InFlightOK, data, aux, collected, recipients, group,
     inFlight
<1> QED
  BY <1>1, <1>2, <1>3, <1>4, <1>5 DEF Next

\* Every variable keeps its type, whatever interleaves: above all, the total
\* never becomes negative (contributions.service.ts, payouts.service.ts).
THEOREM TypeCorrect == Spec => []TypeOK
  BY InitType, NextType, PTL DEF Spec

-----------------------------------------------------------------------------
LEMMA GotoOthers ==
    ASSUME TypeOK, NEW r \in Requests, NEW q \in Requests \ {r}, NEW step, NEW l, Goto(r, step, l)
    PROVE  pc'[q] = pc[q] /\ loc'[q] = loc[q]
  BY DEF TypeOK, Goto

\* The steps of a handler that write no contribution row, and begin nothing.
Elsewhere(r) ==
    \/ RecordConflict(r)
    \/ PayoutReadRows(r) \/ PayoutCommit(r) \/ PayoutComplete(r)
    \/ AssignCommit(r) \/ RerollCommit(r)
    \/ AdvanceReadRound(r) \/ AdvanceReadRows(r) \/ AdvanceReadPayouts(r)
    \/ AdvancePool(r) \/ AdvanceCollect(r) \/ AdvanceNothing(r) \/ AdvancePaid(r)
    \/ AutoCompleteRead(r) \/ AutoCompleteWrite(r)

LEMMA ResumeCases ==
    ASSUME NEW r \in Requests, Resume(r)
    PROVE  UploadCreate(r) \/ RecordCommit(r) \/ ApproveCommit(r) \/ LateFlip(r) \/ Elsewhere(r)
  BY DEF Resume, Elsewhere

LEMMA ElsewhereKeeps ==
    ASSUME TypeOK, NEW r \in Requests, Elsewhere(r)
    PROVE  /\ UNCHANGED <<ledger, total, active, unattended, waivers, inTime>>
           /\ \A q \in Requests \ {r} : pc'[q] = pc[q] /\ loc'[q] = loc[q]
<1>1. UNCHANGED <<ledger, total, active, unattended, waivers, inTime>>
  BY DEF Elsewhere, RecordConflict, PayoutReadRows, KeepShares, PayoutCommit,
     PayoutComplete, AssignCommit, RerollCommit, AdvanceReadRound, AdvanceReadRows,
     AdvanceReadPayouts, AdvancePool, AdvanceCollect, AdvanceNothing, AdvancePaid,
     AutoCompleteRead, AutoCompleteWrite, data, aux, collected, recipients, group,
     Unchanged
<1>2. \E step, l : Goto(r, step, l)
  BY DEF Elsewhere, RecordConflict, PayoutReadRows, KeepShares, PayoutCommit,
     PayoutComplete, AssignCommit, RerollCommit, AdvanceReadRound, AdvanceReadRows,
     AdvanceReadPayouts, AdvancePool, AdvanceCollect, AdvanceNothing, AdvancePaid,
     AutoCompleteRead, AutoCompleteWrite, Finish, Continue
<1> QED
  BY <1>1, <1>2, GotoOthers

LEMMA BeginKeeps ==
    ASSUME TypeOK, NEW r \in Requests, Begin(r)
    PROVE  /\ pc[r] = "idle"
           /\ UNCHANGED <<ledger, total, active, unattended, waivers, inTime, status>>
           /\ \A q \in Requests \ {r} : pc'[q] = pc[q] /\ loc'[q] = loc[q]
<1>1. pc[r] = "idle" /\ \E step, l : Goto(r, step, l)
  BY DEF Begin, UploadRead, RecordRead, ApproveRead, LateScan, PayoutReadPot, AssignRead, RerollRead
<1>2. UNCHANGED <<ledger, total, active, unattended, waivers, inTime, status>>
  BY BeginType DEF data, aux, collected, group
<1> QED
  BY <1>1, <1>2, GotoOthers

\* What a step does to one contribution row.
RowKept(m) ==
    /\ ledger[m].status \in Settled => ledger'[m].status \in Settled
    /\ ledger[m].recorded => ledger'[m].recorded

LEMMA MarkKeepsRows ==
    ASSUME TypeOK, NEW r \in Requests, NEW n, MarkCollected(r, n)
    PROVE  \A m \in Members : RowKept(m)
<1>1. loc[r].mark \in Settled
  BY LocalsParts, TypeParts DEF Settled
<1> QED
  BY <1>1 DEF MarkCollected, RowKept, TypeOK

LEMMA RowsKept ==
    ASSUME TypeOK, [Next]_vars
    PROVE  \A m \in Members : RowKept(m)
<1>1. ASSUME UNCHANGED ledger PROVE \A m \in Members : RowKept(m)
  BY <1>1 DEF RowKept
<1>2. ASSUME NEW r \in Requests, Begin(r) \/ Elsewhere(r) \/ Fail(r)
      PROVE  UNCHANGED ledger
  BY <1>2, BeginKeeps, ElsewhereKeeps DEF Fail, data, collected
<1>3. ASSUME NEW r \in Requests, UploadCreate(r)
      PROVE  \A m \in Members : RowKept(m)
  BY <1>3 DEF UploadCreate, RowKept, TypeOK, Row, Settled
<1>4. ASSUME NEW r \in Requests, RecordCommit(r) \/ ApproveCommit(r)
      PROVE  \A m \in Members : RowKept(m)
  BY <1>4, MarkKeepsRows DEF RecordCommit, ApproveCommit
<1>5. ASSUME NEW r \in Requests, LateFlip(r)
      PROVE  \A m \in Members : RowKept(m)
  BY <1>5 DEF LateFlip, RowKept, TypeOK, Row, Settled
<1>6. CASE Environment
  <2>1. ASSUME NEW n \in Members, Waive(n)
        PROVE  \A m \in Members : RowKept(m)
    BY <2>1 DEF Waive, RowKept, TypeOK, Row, Settled
  <2>2. ASSUME StartCycle \/ ForceComplete \/ DueDateMoves
                 \/ \E n \in Members : JoinGroup(n) \/ RemoveMember(n)
        PROVE  UNCHANGED ledger
    BY <2>2 DEF StartCycle, ForceComplete, DueDateMoves, JoinGroup, RemoveMember, collected
  <2> QED
    BY <1>1, <1>6, <2>1, <2>2 DEF Environment
<1>7. CASE UNCHANGED vars
  BY <1>1, <1>7 DEF vars, data, collected
<1> QED
  BY <1>1, <1>2, <1>3, <1>4, <1>5, <1>6, <1>7, ResumeCases DEF Next

\* No upload, rejection or stale write makes a settled row pending again or
\* forgets a recording (uploadContribution, recordContribution, runLateDetection).
THEOREM SettledRowsStaySettled == Spec => SettledStaysSettled
<1>1. TypeOK /\ [Next]_vars =>
        [\A m \in Members :
           /\ ledger[m].status \in Settled => ledger'[m].status \in Settled
           /\ ledger[m].recorded => ledger'[m].recorded]_ledger
  BY RowsKept DEF RowKept
<1> QED
  BY <1>1, TypeCorrect, PTL DEF Spec, SettledStaysSettled

-----------------------------------------------------------------------------
\* No step makes a round pending.
LEMMA StatusLeavesPending ==
    ASSUME TypeOK, [Next]_vars, status' = "pending"
    PROVE  status = "pending"
<1>1. ASSUME NEW r \in Requests, Begin(r) \/ Fail(r) PROVE status' = status
  BY <1>1, BeginKeeps DEF Fail, data
<1>2. ASSUME NEW r \in Requests, Resume(r) PROVE status' = status \/ status' # "pending"
  BY <1>2 DEF Resume, UploadCreate, RecordCommit, RecordConflict, ApproveCommit, MarkCollected,
     LateFlip, PayoutReadRows, PayoutCommit, PayoutComplete, AssignCommit, RerollCommit, AdvanceReadRound,
     AdvanceReadRows, AdvanceReadPayouts, AdvancePool, AdvanceCollect, AdvanceNothing,
     AdvancePaid, AutoCompleteRead, AutoCompleteWrite, data
<1>3. CASE Environment
  BY <1>3 DEF Environment, StartCycle, ForceComplete, DueDateMoves, Waive, JoinGroup, RemoveMember
<1>4. CASE UNCHANGED vars
  BY <1>4 DEF vars, data
<1> QED
  BY <1>1, <1>2, <1>3, <1>4 DEF Next

\* A handler on its way to advancing the round is not held up by what others do.
LEMMA WillAdvanceKept ==
    ASSUME TypeOK, NEW p \in Requests, WillAdvance(p), pc'[p] = pc[p], loc'[p] = loc[p],
           \A m \in Members : RowKept(m)
    PROVE  WillAdvance(p)'
<1>1. loc[p].batch \subseteq Members
  BY LocalsParts, TypeParts
<1> QED
  BY <1>1 DEF WillAdvance, RowKept, Advances

\* Nor does it lose its way: it ends by advancing the round.
LEMMA WillAdvanceStep ==
    ASSUME TypeOK, NEW p \in Requests, WillAdvance(p), Elsewhere(p),
           status = "pending", status' = "pending", AllSettled
    PROVE  WillAdvance(p)'
<1>1. p \in DOMAIN pc /\ p \in DOMAIN loc /\ loc[p] \in Locals
  BY DEF TypeOK
<1>2. CASE pc[p] = "advance"
  <2>1. AdvanceReadRound(p)
    BY <1>2 DEF Elsewhere, RecordConflict, PayoutReadRows, KeepShares, PayoutCommit,
       PayoutComplete, AssignCommit, RerollCommit, AdvanceReadRound, AdvanceReadRows,
       AdvanceReadPayouts, AdvancePool, AdvanceCollect, AdvanceNothing, AdvancePaid,
       AutoCompleteRead, AutoCompleteWrite
  <2>2. /\ pc'[p] = "advanceRows"
        /\ loc'[p] = [NoLocals EXCEPT !.status = status, !.batch = active]
        /\ UNCHANGED ledger
    BY <1>1, <2>1 DEF AdvanceReadRound, Goto, data, collected
  <2>3. loc'[p].status = "pending" /\ loc'[p].batch = active
    BY <2>2 DEF NoLocals
  <2> QED
    BY <2>2, <2>3 DEF WillAdvance, AllSettled
<1>3. CASE pc[p] = "advanceRows"
  <2>1. AdvanceReadRows(p)
    BY <1>3 DEF Elsewhere, RecordConflict, PayoutReadRows, KeepShares, PayoutCommit,
       PayoutComplete, AssignCommit, RerollCommit, AdvanceReadRound, AdvanceReadRows,
       AdvanceReadPayouts, AdvancePool, AdvanceCollect, AdvanceNothing, AdvancePaid,
       AutoCompleteRead, AutoCompleteWrite
  <2>2. loc[p].status = "pending" /\ \A m \in loc[p].batch : ledger[m].status \in Settled
    BY <1>3 DEF WillAdvance
  <2>3. /\ pc'[p] = "advancePayouts"
        /\ loc'[p] = [loc[p] EXCEPT !.batch = {},
                        !.collected = \A m \in loc[p].batch : ledger[m].status \in Settled]
    BY <1>1, <2>1 DEF AdvanceReadRows, Goto
  <2>4. loc'[p].status = "pending" /\ loc'[p].collected
    BY <1>1, <2>2, <2>3 DEF Locals
  <2> QED
    BY <2>3, <2>4 DEF WillAdvance, Advances
<1>4. CASE pc[p] = "advancePayouts"
  <2>1. AdvanceReadPayouts(p)
    BY <1>4 DEF Elsewhere, RecordConflict, PayoutReadRows, KeepShares, PayoutCommit,
       PayoutComplete, AssignCommit, RerollCommit, AdvanceReadRound, AdvanceReadRows,
       AdvanceReadPayouts, AdvancePool, AdvanceCollect, AdvanceNothing, AdvancePaid,
       AutoCompleteRead, AutoCompleteWrite
  <2>2. loc[p].status = "pending" /\ loc[p].collected
    BY <1>4 DEF WillAdvance, Advances
  <2>3. /\ pc'[p] = "advanceWrite"
        /\ loc'[p] = [loc[p] EXCEPT !.found = PayoutsFound(payout)]
    BY <1>1, <2>1 DEF AdvanceReadPayouts, Goto
  <2>4. loc'[p].status = "pending" /\ loc'[p].collected
    BY <1>1, <2>2, <2>3 DEF Locals
  <2> QED
    BY <2>3, <2>4 DEF WillAdvance, Advances
<1>5. CASE pc[p] = "advanceWrite"
  <2>1. Advances(loc[p])
    BY <1>5 DEF WillAdvance
  <2>2. AdvancePool(p) \/ AdvanceCollect(p)
    BY <1>5, <2>1 DEF Elsewhere, RecordConflict, PayoutReadRows, KeepShares,
       PayoutCommit, PayoutComplete, AssignCommit, RerollCommit, AdvanceReadRound,
       AdvanceReadRows, AdvanceReadPayouts, AdvancePool, AdvanceCollect, AdvanceNothing,
       AdvancePaid, AutoCompleteRead, AutoCompleteWrite
  <2> QED
    BY <2>2 DEF AdvancePool, AdvanceCollect
<1> QED
  BY <1>2, <1>3, <1>4, <1>5 DEF WillAdvance

LEMMA AdvanceStep ==
    ASSUME TypeOK, NoLostAdvance, [Next]_vars
    PROVE  NoLostAdvance'
<1> SUFFICES ASSUME status' = "pending", AllSettled', ~ unattended'
             PROVE  \E p \in Requests : WillAdvance(p)'
  BY DEF NoLostAdvance
<1>1. status = "pending" /\ \A m \in Members : RowKept(m)
  BY StatusLeavesPending, RowsKept
<1>2. ASSUME NEW r \in Requests, RecordCommit(r) \/ ApproveCommit(r)
      PROVE  pc'[r] = "advance"
  BY <1>2 DEF RecordCommit, ApproveCommit, MarkCollected, Continue, Goto, TypeOK
\* If nothing unsettles the round, whoever was to advance it still will.
<1>3. ASSUME \A m \in active : ledger'[m].status \in Settled => ledger[m].status \in Settled,
             active \subseteq active', unattended' = unattended
      PROVE  AllSettled /\ \E p \in Requests : WillAdvance(p)
  <2>1. AllSettled
    BY <1>3 DEF AllSettled
  <2> QED
    BY <1>1, <1>3, <2>1 DEF NoLostAdvance
<1>4. ASSUME NEW r \in Requests, Begin(r) PROVE \E p \in Requests : WillAdvance(p)'
  <2>1. PICK p \in Requests : WillAdvance(p)
    BY <1>3, <1>4, BeginKeeps
  <2>2. p # r
    BY <1>4, <2>1, BeginKeeps DEF WillAdvance
  <2> QED
    BY <1>1, <1>4, <2>1, <2>2, BeginKeeps, WillAdvanceKept
<1>5. ASSUME NEW r \in Requests, UploadCreate(r) PROVE \E p \in Requests : WillAdvance(p)'
  <2>1. \A m \in active : ledger'[m].status \in Settled => ledger[m].status \in Settled
    BY <1>5 DEF UploadCreate, TypeOK, Row, Settled
  <2>2. active' = active /\ unattended' = unattended
    BY <1>5 DEF UploadCreate, Unchanged, group, aux
  <2>3. PICK p \in Requests : WillAdvance(p)
    BY <1>3, <2>1, <2>2
  <2>4. p # r
    BY <1>5, <2>3 DEF UploadCreate, WillAdvance
  <2>5. pc'[p] = pc[p] /\ loc'[p] = loc[p]
    BY <1>5, <2>4, GotoOthers DEF UploadCreate, Finish
  <2> QED
    BY <1>1, <2>3, <2>5, WillAdvanceKept
<1>6. ASSUME NEW r \in Requests, Elsewhere(r) PROVE \E p \in Requests : WillAdvance(p)'
  <2>1. AllSettled /\ \E p \in Requests : WillAdvance(p)
    BY <1>3, <1>6, ElsewhereKeeps
  <2>2. PICK p \in Requests : WillAdvance(p)
    BY <2>1
  <2>3. CASE p = r
    BY <1>1, <1>6, <2>1, <2>2, <2>3, WillAdvanceStep
  <2>4. CASE p # r
    BY <1>1, <1>6, <2>2, <2>4, ElsewhereKeeps, WillAdvanceKept
  <2> QED
    BY <2>3, <2>4
\* Those that unsettle it, or die, say so.
<1>7. ASSUME NEW r \in Requests, LateFlip(r) \/ Fail(r) PROVE FALSE
  BY <1>7 DEF LateFlip, Fail
<1>8. ASSUME UNCHANGED <<ledger, unattended, pc, loc>>, active \subseteq active'
      PROVE  \E p \in Requests : WillAdvance(p)'
  BY <1>1, <1>3, <1>8, WillAdvanceKept
<1>9. CASE Environment
  <2>1. ASSUME NEW m \in Members, Waive(m) \/ RemoveMember(m) PROVE FALSE
    BY <2>1 DEF Waive, RemoveMember
  <2>2. ASSUME StartCycle \/ ForceComplete \/ DueDateMoves \/ \E m \in Members : JoinGroup(m)
        PROVE  UNCHANGED <<ledger, unattended, pc, loc>> /\ active \subseteq active'
    BY <2>2 DEF StartCycle, ForceComplete, DueDateMoves, JoinGroup, collected, group, inFlight, aux
  <2> QED
    BY <1>8, <1>9, <2>1, <2>2 DEF Environment
<1>10. CASE UNCHANGED vars
  BY <1>8, <1>10 DEF vars, data, collected, group, inFlight, aux
<1>11. ASSUME NEW r \in Requests, Resume(r) PROVE \E p \in Requests : WillAdvance(p)'
  <2>1. CASE RecordCommit(r) \/ ApproveCommit(r)
    BY <1>2, <2>1 DEF WillAdvance
  <2> QED
    BY <1>5, <1>6, <1>7, <1>11, <2>1, ResumeCases
<1> QED
  BY <1>4, <1>7, <1>9, <1>10, <1>11 DEF Next

\* However recordings, approvals, payouts and late detection interleave, a round
\* whose last active member was settled by a recording or an approval is not
\* left pending with nobody about to advance it (maybeAdvanceRoundStatus).
THEOREM NoAdvanceIsLost == Spec => []NoLostAdvance
<1>1. Init => NoLostAdvance
  <2> SUFFICES ASSUME Init PROVE ~ AllSettled
    BY DEF NoLostAdvance
  <2>1. Owner \in active /\ Owner \in Members
    BY ConstantsAssumption DEF Init
  <2> QED
    BY <2>1 DEF Init, AllSettled, Settled
<1>2. TypeOK /\ NoLostAdvance /\ [Next]_vars => NoLostAdvance'
  BY AdvanceStep
<1> QED
  BY <1>1, <1>2, TypeCorrect, PTL DEF Spec

-----------------------------------------------------------------------------
Recorded == {m \in Members : ledger[m].recorded}

\* As long as nobody is waived, a recording in flight has read a row that it
\* will count, and the total covers everyone recorded.
CountingInv ==
    ~ waivers =>
        /\ \A m \in Members : ledger[m].status # "waived"
        /\ \A r \in Requests : pc[r] = "record" => loc[r].row \in {"none", "pending"}
        /\ total >= Amount * Cardinality(Recorded)

\* One more member recorded, one contribution more: no member costs more.
LEMMA OneMoreRecorded ==
    ASSUME NEW S \in SUBSET Members, NEW m \in Members,
           NEW t \in Nat, t >= Amount * Cardinality(S)
    PROVE  t + Amount >= Amount * Cardinality(S \cup {m})
<1>1. IsFiniteSet(S) /\ Cardinality(S) \in Nat
  BY FS_Subset, FS_CardinalityType, ConstantsAssumption
<1>2. Cardinality(S \cup {m}) \in {Cardinality(S), Cardinality(S) + 1}
  BY <1>1, FS_AddElement
<1>3. Amount \in Nat
  BY ConstantsAssumption
<1>4. \A a, c \in Nat : a * (c + 1) = a * c + a /\ a * c \in Nat
  OBVIOUS
<1>5. Amount * (Cardinality(S) + 1) = Amount * Cardinality(S) + Amount
      /\ Amount * Cardinality(S) \in Nat
  BY <1>1, <1>3, <1>4
<1> QED
  BY <1>2, <1>3, <1>5

\* A step that leaves total and recordings alone, waives nobody, and begins no
\* recording of a row that is not to be counted.
LEMMA CountingKept ==
    ASSUME TypeOK, CountingInv, ~ waivers,
           total' = total, \A m \in Members : ledger'[m].recorded = ledger[m].recorded,
           \A m \in Members : ledger'[m].status # "waived",
           \A r \in Requests : pc'[r] = "record" =>
              loc'[r].row \in {"none", "pending"} \/ (pc'[r] = pc[r] /\ loc'[r] = loc[r])
    PROVE  CountingInv'
<1>1. Recorded' = Recorded
  BY DEF Recorded
<1> QED
  BY <1>1 DEF CountingInv

LEMMA CountingStep ==
    ASSUME TypeOK, CountingInv, [Next]_vars
    PROVE  CountingInv'
<1> SUFFICES ASSUME ~ waivers' PROVE CountingInv'
  BY DEF CountingInv
<1>1. ASSUME ~ waivers PROVE \A m \in Members : ledger[m].status # "waived"
  BY <1>1 DEF CountingInv
<1>2. ASSUME NEW r \in Requests, Begin(r) PROVE CountingInv'
  <2>1. ~ waivers /\ UNCHANGED <<ledger, total>>
    BY <1>2, BeginKeeps
  <2>2. ASSUME pc'[r] = "record" PROVE loc'[r].row \in {"none", "pending"}
    <3>1. PICK m \in Members : RecordRead(r, m)
      BY <1>2, <2>2 DEF Begin, UploadRead, RecordRead, ApproveRead, LateScan, PayoutReadPot,
         AssignRead, RerollRead, Goto, TypeOK
    <3>2. ledger[m].status \in {"none", "pending"}
      BY <1>1, <2>1, <3>1 DEF RecordRead, TypeOK, Row, RowStatus
    <3>3. loc'[r] = [NoLocals EXCEPT !.member = m, !.row = ledger[m].status, !.mark = PaidOrLate]
      BY <3>1 DEF RecordRead, Goto, TypeOK
    <3>4. loc'[r].row = ledger[m].status
      BY <3>3 DEF NoLocals
    <3> QED
      BY <3>2, <3>4
  <2> QED
    BY <1>1, <1>2, <2>1, <2>2, BeginKeeps, CountingKept
<1>3. ASSUME NEW r \in Requests, MarkCollected(r, Amount) PROVE CountingInv'
  <2>1. ~ waivers /\ total \in Nat /\ total >= Amount * Cardinality(Recorded)
    BY <1>3 DEF MarkCollected, CountingInv, TypeOK
  <2>2. /\ loc[r].member \in Members /\ loc[r].mark # "waived"
        /\ pc'[r] # "record"
        /\ \A q \in Requests \ {r} : pc'[q] = pc[q] /\ loc'[q] = loc[q]
    BY <1>3, LocalsParts, TypeParts, ContinueType DEF MarkCollected, Steps
  <2>3. Recorded' = Recorded \cup {loc[r].member}
    BY <1>3, <2>2 DEF MarkCollected, Recorded, TypeOK
  <2>4. total' >= Amount * Cardinality(Recorded')
    <3>1. Recorded \in SUBSET Members /\ total' = total + Amount
      BY <1>3 DEF Recorded, MarkCollected
    <3> QED
      BY <2>1, <2>2, <2>3, <3>1, OneMoreRecorded
  <2>5. \A m \in Members : ledger'[m].status # "waived"
    BY <1>1, <1>3, <2>1, <2>2 DEF MarkCollected, TypeOK
  <2>6. \A q \in Requests : pc'[q] = "record" => loc'[q].row \in {"none", "pending"}
    BY <2>1, <2>2 DEF CountingInv
  <2> QED
    BY <2>4, <2>5, <2>6 DEF CountingInv
<1>4. ASSUME NEW r \in Requests, RecordCommit(r) \/ ApproveCommit(r) PROVE CountingInv'
  <2>1. CASE RecordCommit(r)
    <3>1. ~ waivers
      BY <2>1 DEF RecordCommit, MarkCollected
    <3>2. Increment(loc[r].row) = Amount
      BY <2>1, <3>1 DEF RecordCommit, CountingInv, Increment
    <3> QED
      BY <1>3, <2>1, <3>2 DEF RecordCommit
  <2> QED
    BY <1>3, <1>4, <2>1 DEF ApproveCommit
<1>5. ASSUME NEW r \in Requests, UploadCreate(r) \/ LateFlip(r) PROVE CountingInv'
  <2>1. ~ waivers /\ total' = total
    BY <1>5 DEF UploadCreate, LateFlip, aux
  <2>2. \A m \in Members : /\ ledger'[m].recorded = ledger[m].recorded
                           /\ ledger'[m].status # "waived"
    <3>1. ledger \in [Members -> Row] /\ \A m \in Members : ledger[m].status # "waived"
      BY <1>1, <2>1 DEF TypeOK
    <3>2. CASE UploadCreate(r)
      BY <3>1, <3>2 DEF UploadCreate, Row
    <3>3. CASE LateFlip(r)
      BY <3>1, <3>3 DEF LateFlip, Row
    <3> QED
      BY <1>5, <3>2, <3>3
  <2>3. /\ pc'[r] # "record"
        /\ \A q \in Requests \ {r} : pc'[q] = pc[q] /\ loc'[q] = loc[q]
    BY <1>5 DEF UploadCreate, LateFlip, Finish, Goto, TypeOK
  <2> QED
    BY <2>1, <2>2, <2>3, CountingKept
<1>6. ASSUME NEW r \in Requests, Elsewhere(r) PROVE CountingInv'
  <2>1. ~ waivers /\ UNCHANGED <<ledger, total>>
    BY <1>6, ElsewhereKeeps
  <2>2. pc'[r] # "record"
    BY <1>6 DEF Elsewhere, RecordConflict, PayoutReadRows, KeepShares, PayoutCommit,
       PayoutComplete, AssignCommit, RerollCommit, AdvanceReadRound, AdvanceReadRows,
       AdvanceReadPayouts, AdvancePool, AdvanceCollect, AdvanceNothing, AdvancePaid,
       AutoCompleteRead, AutoCompleteWrite, Finish, Continue, Goto, TypeOK
  <2> QED
    BY <1>1, <1>6, <2>1, <2>2, ElsewhereKeeps, CountingKept
<1>7. ASSUME NEW r \in Requests, Fail(r) PROVE CountingInv'
  <2>1. ~ waivers /\ UNCHANGED <<ledger, total>>
    BY <1>7 DEF Fail, data, collected
  <2>2. /\ pc'[r] # "record"
        /\ \A q \in Requests \ {r} : pc'[q] = pc[q] /\ loc'[q] = loc[q]
    BY <1>7, FinishType, TypeParts DEF Fail
  <2> QED
    BY <1>1, <2>1, <2>2, CountingKept
<1>8. ASSUME UNCHANGED <<ledger, total, waivers, pc, loc>> PROVE CountingInv'
  BY <1>1, <1>8, CountingKept
<1>9. CASE Environment
  <2>1. ASSUME NEW m \in Members, Waive(m) PROVE FALSE
    BY <2>1 DEF Waive
  <2>2. ASSUME StartCycle \/ ForceComplete \/ DueDateMoves
                 \/ \E m \in Members : JoinGroup(m) \/ RemoveMember(m)
        PROVE  UNCHANGED <<ledger, total, waivers, pc, loc>>
    BY <2>2 DEF StartCycle, ForceComplete, DueDateMoves, JoinGroup, RemoveMember, collected,
       inFlight, aux
  <2> QED
    BY <1>8, <1>9, <2>1, <2>2 DEF Environment
<1>10. CASE UNCHANGED vars
  BY <1>8, <1>10 DEF vars, data, collected, inFlight, aux
<1> QED
  BY <1>2, <1>4, <1>5, <1>6, <1>7, <1>9, <1>10, ResumeCases DEF Next

\* Nobody who has paid is left out of the total, waivers aside, though what a
\* recording adds is decided by a row read before its transaction
\* (recordContribution, approveContribution).
THEOREM TotalCoversRecorded == Spec => []CollectedCoversRecorded
<1>1. Init => CountingInv
  <2> SUFFICES ASSUME Init PROVE CountingInv
    OBVIOUS
  <2>1. Recorded = {} /\ Amount * 0 = 0
    BY ConstantsAssumption DEF Init, Recorded
  <2>2. total >= Amount * Cardinality(Recorded)
    BY <2>1, FS_EmptySet DEF Init
  <2> QED
    BY <2>2 DEF Init, CountingInv
<1>2. TypeOK /\ CountingInv /\ [Next]_vars => CountingInv'
  BY CountingStep
<1>3. CountingInv => CollectedCoversRecorded
  BY DEF CountingInv, CollectedCoversRecorded, Recorded
<1> QED
  BY <1>1, <1>2, <1>3, TypeCorrect, PTL DEF Spec
-----------------------------------------------------------------------------
(* What the recipients are paid, when nobody assigns or draws them anew.    *)

\* The recipients can all be given x out of what has been collected, or x is
\* the base amount.
Affordable(x) ==
    \/ Cardinality(Recipients(payout)) * x <= total
    \/ x = Amount

\* In a queue group the recipients stay as they were drawn, so what a payout in
\* flight has read of them still holds, and the total it has read only grows.
PotInv ==
    settings.method = "queue" =>
        /\ \A r \in Requests :
             /\ pc[r] \notin {"assign", "reroll"}
             /\ pc[r] = "payoutRows" => loc[r].amount <= total
             /\ pc[r] = "payout" => /\ Recipients(loc[r].rows) = Recipients(payout)
                                    /\ Affordable(loc[r].amount)
        /\ \A m \in Recipients(payout) : payout[m].paid => Affordable(payout[m].amount)

\* The steps at which a handler has something to keep for a payout.
PayingSteps == {"assign", "reroll", "payoutRows", "payout"}

\* Equal shares rounded down do not exceed the pot.
LEMMA SharesFit ==
    ASSUME NEW pot \in Nat, NEW n \in Nat \ {0}
    PROVE  n * (pot \div n) <= pot /\ pot \div n \in Nat
<1> DEFINE q == pot \div n
<1>1. q \in Int /\ pot = n * q + (pot % n) /\ pot % n \in 0..(n - 1)
  OBVIOUS
<1>2. n * q \in Int /\ pot % n \in Nat
  BY <1>1
<1>3. q \in Nat
  OBVIOUS
<1> QED
  BY <1>1, <1>2, <1>3

\* What a payout computes is affordable, if its pot has been collected.
LEMMA ShareAffordable ==
    ASSUME TypeOK, NEW pot \in Nat, pot <= total, Recipients(payout) # {}
    PROVE  Affordable(PerRecipient(pot, payout))
<1> DEFINE n == Cardinality(Recipients(payout))
<1>1. n \in Nat \ {0}
  BY RecipientsFinite DEF TypeOK
<1>2. n * (pot \div n) <= pot /\ pot \div n \in Nat
  BY <1>1, SharesFit
<1>3. n * (pot \div n) \in Nat /\ total \in Nat
  BY <1>1, <1>2 DEF TypeOK
<1>4. n * (pot \div n) <= total
  BY <1>2, <1>3
<1> QED
  BY <1>4 DEF Affordable, PerRecipient

\* More in the pot, the same number of recipients: no less is affordable.
LEMMA StaysAffordable ==
    ASSUME TypeOK, NEW x \in Nat, Affordable(x), total' \in Nat, total' >= total,
           Recipients(payout)' = Recipients(payout)
    PROVE  Affordable(x)'
<1> DEFINE n == Cardinality(Recipients(payout))
<1>1. n \in Nat
  <2>1. IsFiniteSet(Recipients(payout))
    BY FS_Subset, ConstantsAssumption DEF Recipients
  <2> QED
    BY <2>1, FS_CardinalityType
<1>2. n * x \in Nat /\ total \in Nat
  BY <1>1 DEF TypeOK
<1>3. n * x <= total => n * x <= total'
  BY <1>2
<1> QED
  BY <1>3 DEF Affordable

\* A step that pays nobody, and after which a handler that keeps something for a
\* payout has kept it before.
LEMMA PotKept ==
    ASSUME TypeOK, PotInv, settings.method = "queue", total' \in Nat, total' >= total,
           UNCHANGED <<settings, payout>>,
           \A r \in Requests :
              pc'[r] \in PayingSteps => pc'[r] = pc[r] /\ loc'[r] = loc[r]
    PROVE  PotInv'
<1>1. Recipients(payout)' = Recipients(payout)
  OBVIOUS
<1>2. ASSUME NEW r \in Requests
      PROVE  /\ pc'[r] \notin {"assign", "reroll"}
             /\ pc'[r] = "payoutRows" => loc'[r].amount <= total'
             /\ pc'[r] = "payout" => /\ Recipients(loc'[r].rows) = Recipients(payout')
                                     /\ Affordable(loc[r].amount)' /\ loc'[r] = loc[r]
  <2>1. loc[r].amount \in Nat /\ total \in Nat
    BY LocalsParts, TypeParts DEF TypeOK
  <2>2. pc'[r] \notin {"assign", "reroll"}
    BY DEF PotInv, PayingSteps
  <2>3. ASSUME pc'[r] = "payoutRows" PROVE loc'[r].amount <= total'
    BY <2>1, <2>3 DEF PotInv, PayingSteps
  <2>4. ASSUME pc'[r] = "payout"
        PROVE  /\ Recipients(loc'[r].rows) = Recipients(payout') /\ loc'[r] = loc[r]
               /\ Cardinality(Recipients(payout')) * loc[r].amount <= total'
                    \/ loc[r].amount = Amount
    <3>1. /\ pc[r] = "payout" /\ loc'[r] = loc[r]
          /\ Recipients(loc[r].rows) = Recipients(payout) /\ Affordable(loc[r].amount)
      BY <2>4 DEF PotInv, PayingSteps
    <3> QED
      BY <1>1, <2>1, <3>1, StaysAffordable DEF Affordable
  <2> QED
    BY <2>2, <2>3, <2>4 DEF Affordable
<1>3. ASSUME NEW m \in Recipients(payout), payout[m].paid
      PROVE  Affordable(payout[m].amount)'
  <2>1. payout[m].amount \in Nat
    BY DEF TypeOK, PayoutRow, Recipients
  <2>2. Affordable(payout[m].amount)
    BY <1>3 DEF PotInv
  <2> QED
    BY <1>1, <2>1, <2>2, StaysAffordable DEF Affordable
<1> QED
  BY <1>1, <1>2, <1>3 DEF PotInv, Affordable

LEMMA PotPayoutReads ==
    ASSUME TypeOK, PotInv, settings.method = "queue", NEW r \in Requests,
           PayoutReadPot(r) \/ PayoutReadRows(r)
    PROVE  PotInv'
<1> DEFINE kept == [loc[r] EXCEPT !.rows = payout,
                                  !.amount = PerRecipient(loc[r].amount, payout)]
<1>1. /\ UNCHANGED <<settings, payout, total>>
      /\ \A q \in Requests \ {r} : pc'[q] = pc[q] /\ loc'[q] = loc[q]
  <2>1. \E step, l : Goto(r, step, l)
    BY DEF PayoutReadPot, PayoutReadRows, KeepShares, Finish
  <2> QED
    BY <2>1, GotoOthers DEF PayoutReadPot, PayoutReadRows, data, collected, recipients, group
<1>2. total \in Nat /\ loc[r].amount \in Nat /\ loc[r] \in Locals
  BY LocalsParts, TypeParts DEF TypeOK
<1>3. CASE PayoutReadPot(r)
  <2>1. pc'[r] = "payoutRows" /\ loc'[r].amount = total
    BY <1>3 DEF PayoutReadPot, Goto, TypeOK, NoLocals
  <2> QED
    BY <1>1, <1>2, <2>1 DEF PotInv, Affordable
<1>4. CASE PayoutReadRows(r) /\ Recipients(payout) # {} /\ ~ SomePaid(payout)
  <2>1. pc'[r] = "payout" /\ loc'[r] = kept
    BY <1>4 DEF PayoutReadRows, KeepShares, Goto, TypeOK
  <2>2. kept.rows = payout /\ kept.amount = PerRecipient(loc[r].amount, payout)
    BY <1>2 DEF Locals
  <2>3. pc[r] = "payoutRows" /\ loc[r].amount <= total
    BY <1>4 DEF PayoutReadRows, PotInv
  <2>4. Affordable(kept.amount)
    BY <1>2, <1>4, <2>2, <2>3, ShareAffordable
  <2> HIDE DEF kept
  <2> QED
    BY <1>1, <2>1, <2>2, <2>4 DEF PotInv, Affordable
<1>5. CASE PayoutReadRows(r) /\ ~ (Recipients(payout) # {} /\ ~ SomePaid(payout))
  <2>1. pc'[r] = "idle"
    BY <1>5 DEF PayoutReadRows, Finish, Goto, TypeOK
  <2> QED
    BY <1>1, <1>2, <2>1, PotKept DEF PayingSteps
<1> QED
  BY <1>3, <1>4, <1>5

\* The payout gives every recipient the share computed from what it has read.
LEMMA PotPayoutCommit ==
    ASSUME TypeOK, PotInv, settings.method = "queue", NEW r \in Requests, PayoutCommit(r)
    PROVE  PotInv'
<1>1. /\ UNCHANGED <<settings, total>>
      /\ \A q \in Requests \ {r} : pc'[q] = pc[q] /\ loc'[q] = loc[q]
      /\ pc'[r] \notin PayingSteps
  <2>1. \E step \in {"idle", "payoutDone"} : \E l : Goto(r, step, l)
    BY DEF PayoutCommit, Finish, Continue
  <2>2. pc'[r] \in {"idle", "payoutDone"}
    BY <2>1 DEF Goto, TypeOK
  <2> QED
    BY <2>1, <2>2, GotoOthers DEF PayoutCommit, collected, group, PayingSteps
<1>2. total \in Nat /\ pc[r] = "payout" /\ payout \in [Members -> PayoutRow]
  BY DEF TypeOK, PayoutCommit
<1>3. Recipients(loc[r].rows) = Recipients(payout) /\ Affordable(loc[r].amount)
  BY <1>2 DEF PotInv
<1>4. CASE UNCHANGED payout
  BY <1>1, <1>2, <1>4, PotKept
<1>5. CASE payout' = [m \in Members |->
                        IF m \in Recipients(loc[r].rows)
                        THEN [payout[m] EXCEPT !.paid = TRUE, !.amount = loc[r].amount]
                        ELSE payout[m]]
  <2>1. \A m \in Members : /\ payout'[m].draw = payout[m].draw
                           /\ m \in Recipients(payout) => payout'[m].amount = loc[r].amount
    BY <1>2, <1>3, <1>5 DEF PayoutRow
  <2>2. Recipients(payout') = Recipients(payout)
    BY <2>1 DEF Recipients
  <2>3. \A m \in Recipients(payout) : payout'[m].amount = loc[r].amount
    BY <2>1 DEF Recipients
  <2>4. \A q \in Requests : pc'[q] \in PayingSteps => q # r /\ pc'[q] = pc[q] /\ loc'[q] = loc[q]
    BY <1>1
  <2> HIDE <1>5
  <2> QED
    BY <1>1, <1>3, <2>2, <2>3, <2>4 DEF PotInv, Affordable, PayingSteps
<1> QED
  BY <1>4, <1>5 DEF PayoutCommit

\* The settings of a round are locked.
LEMMA SettingsStay ==
    ASSUME TypeOK, [Next]_vars
    PROVE  settings' = settings
<1>1. ASSUME NEW r \in Requests, Begin(r) PROVE settings' = settings
  BY <1>1, BeginType DEF data, group
<1>2. ASSUME NEW r \in Requests, Resume(r) PROVE settings' = settings
  BY <1>2 DEF Resume, UploadCreate, RecordCommit, RecordConflict, ApproveCommit, MarkCollected,
     LateFlip, PayoutReadRows, PayoutCommit, PayoutComplete, AssignCommit, RerollCommit,
     AdvanceReadRound, AdvanceReadRows, AdvanceReadPayouts, AdvancePool, AdvanceCollect,
     AdvanceNothing, AdvancePaid, AutoCompleteRead, AutoCompleteWrite, data, Unchanged, group
<1>3. CASE Environment
  BY <1>3 DEF Environment, StartCycle, ForceComplete, DueDateMoves, Waive, JoinGroup,
     RemoveMember, Unchanged, group
<1> QED
  BY <1>1, <1>2, <1>3 DEF Next, Fail, data, group, vars

LEMMA PotStep ==
    ASSUME TypeOK, PotInv, [Next]_vars
    PROVE  PotInv'
<1>1. settings' = settings
  BY SettingsStay
<1> SUFFICES ASSUME settings.method = "queue" PROVE PotInv'
  BY <1>1 DEF PotInv
<1>2. total \in Nat /\ \A r \in Requests : loc[r] \in Locals
  BY DEF TypeOK
\* A handler pays nobody, adds to the total at most, and goes elsewhere.
<1>3. ASSUME NEW r \in Requests, UNCHANGED payout, total' \in Nat, total' >= total,
             NEW step \in Steps \ PayingSteps, NEW l, Goto(r, step, l)
      PROVE  PotInv'
  <2>1. pc'[r] = step /\ \A q \in Requests \ {r} : pc'[q] = pc[q] /\ loc'[q] = loc[q]
    BY <1>3, GotoOthers DEF Goto, TypeOK
  <2> QED
    BY <1>1, <1>3, <2>1, PotKept
<1>4. ASSUME NEW r \in Requests, Begin(r) PROVE PotInv'
  <2>1. UNCHANGED <<payout, total>>
    BY <1>4, BeginType DEF data, collected, recipients
  <2>2. CASE PayoutReadPot(r)
    BY <2>2, PotPayoutReads
  <2>3. CASE \/ \E m \in Members : UploadRead(r, m) \/ RecordRead(r, m) \/ ApproveRead(r, m)
             \/ LateScan(r)
    <3>1. \E step \in {"create", "record", "approve", "flip"} : \E l : Goto(r, step, l)
      BY <2>3 DEF UploadRead, RecordRead, ApproveRead, LateScan
    <3> QED
      BY <1>2, <1>3, <2>1, <3>1 DEF Steps, PayingSteps
  <2>4. ~ AssignRead(r) /\ ~ RerollRead(r)
    BY DEF AssignRead, RerollRead
  <2> QED
    BY <1>4, <2>2, <2>3, <2>4 DEF Begin
<1>5. ASSUME NEW r \in Requests, UploadCreate(r) \/ LateFlip(r) \/ Fail(r) PROVE PotInv'
  <2>1. UNCHANGED <<payout, total>>
    BY <1>5 DEF UploadCreate, LateFlip, Fail, Unchanged, recipients, data, collected
  <2>2. \E step \in {"idle", "flip"} : \E l : Goto(r, step, l)
    BY <1>5 DEF UploadCreate, LateFlip, Fail, Finish
  <2> QED
    BY <1>2, <1>3, <2>1, <2>2 DEF Steps, PayingSteps
<1>6. ASSUME NEW r \in Requests, RecordCommit(r) \/ ApproveCommit(r) PROVE PotInv'
  <2>1. Amount \in Nat /\ Increment(loc[r].row) \in Nat
    BY ConstantsAssumption DEF Increment
  <2>2. PICK n \in Nat : MarkCollected(r, n)
    BY <1>6, <2>1 DEF RecordCommit, ApproveCommit
  <2>3. total' \in Nat /\ total' >= total /\ UNCHANGED payout
    BY <1>2, <2>2 DEF MarkCollected, Unchanged, recipients
  <2> QED
    BY <1>3, <2>2, <2>3 DEF MarkCollected, Continue, Steps, PayingSteps
<1>7. ASSUME NEW r \in Requests, Elsewhere(r) PROVE PotInv'
  <2>1. total' = total
    BY <1>7, ElsewhereKeeps
  <2>2. CASE PayoutReadRows(r) \/ PayoutCommit(r)
    BY <2>2, PotPayoutReads, PotPayoutCommit
  <2>3. CASE AssignCommit(r) \/ RerollCommit(r)
    BY <2>3 DEF AssignCommit, RerollCommit, PotInv
  <2>4. CASE RecordConflict(r) \/ AdvanceNothing(r) \/ AutoCompleteWrite(r)
    <3>1. UNCHANGED payout /\ Goto(r, "idle", NoLocals)
      BY <2>4 DEF RecordConflict, AdvanceNothing, AutoCompleteWrite, Finish, data, recipients
    <3> QED
      BY <1>2, <1>3, <2>1, <3>1 DEF Steps, PayingSteps
  <2>5. CASE \/ PayoutComplete(r) \/ AdvancePool(r) \/ AdvanceCollect(r) \/ AdvancePaid(r)
             \/ AutoCompleteRead(r)
    <3>1. /\ UNCHANGED payout
          /\ \E step \in {"idle", "autoComplete", "advancePaid", "completeCycle"} : \E l :
               Goto(r, step, l)
      BY <2>5 DEF PayoutComplete, AdvancePool, AdvanceCollect, AdvancePaid, AutoCompleteRead,
         Finish, Continue, Unchanged, data, recipients
    <3> QED
      BY <1>2, <1>3, <2>1, <3>1 DEF Steps, PayingSteps
  <2>6. CASE AdvanceReadRound(r) \/ AdvanceReadRows(r) \/ AdvanceReadPayouts(r)
    <3>1. /\ UNCHANGED payout
          /\ \E step \in {"advanceRows", "advancePayouts", "advanceWrite"} : \E l : Goto(r, step, l)
      BY <2>6 DEF AdvanceReadRound, AdvanceReadRows, AdvanceReadPayouts, data, recipients
    <3> QED
      BY <1>2, <1>3, <2>1, <3>1 DEF Steps, PayingSteps
  <2> QED
    BY <1>7, <2>2, <2>3, <2>4, <2>5, <2>6 DEF Elsewhere
<1>8. CASE Environment \/ UNCHANGED vars
  <2>1. UNCHANGED <<payout, total, pc, loc>>
    BY <1>8 DEF Environment, StartCycle, ForceComplete, DueDateMoves, Waive, JoinGroup,
       RemoveMember, Unchanged, vars, data, collected, recipients, inFlight
  <2> QED
    BY <1>1, <1>2, <2>1, PotKept
<1> QED
  BY <1>4, <1>5, <1>6, <1>7, <1>8, ResumeCases DEF Next

LEMMA PotHolds == Spec => []PotInv
<1>1. Init => PotInv
  <2> SUFFICES ASSUME Init PROVE PotInv
    OBVIOUS
  <2>1. \A m \in Members : ~ payout[m].paid
    BY DEF Init, Draw, NoPayout
  <2>2. \A r \in Requests : pc[r] = "idle"
    BY DEF Init
  <2> QED
    BY <2>1, <2>2 DEF PotInv, Recipients
<1>2. TypeOK /\ PotInv /\ [Next]_vars => PotInv'
  BY PotStep
<1> QED
  BY <1>1, <1>2, TypeCorrect, PTL DEF Spec

\* In a queue group the recipients are paid out of what has been collected, or
\* the base amount each, however recordings, approvals and payouts interleave:
\* the share is computed from a total read earlier, which has only grown since
\* (recordPayout).
THEOREM PayoutsFitThePot == Spec => []PaidWithinPot
<1>1. PotInv => PaidWithinPot
  BY DEF PotInv, PaidWithinPot, Affordable
<1> QED
  BY <1>1, PotHolds, PTL

-----------------------------------------------------------------------------
(* Completed rounds of a queue group are paid out.                          *)

PaidUp == \A m \in Recipients(payout) : payout[m].paid

\* What a handler has found of the payouts, or done, is so still.
Paying(r) ==
    /\ pc[r] = "payoutDone" => PaidUp
    /\ pc[r] \in {"advanceWrite", "advancePaid"} =>
          /\ loc[r].found = "none" => Recipients(payout) = {}
          /\ loc[r].found = "paid" => PaidUp

CompletionInv ==
    settings.method = "queue" =>
        /\ \A r \in Requests : Paying(r)
        /\ status = "completed" => PaidUp

\* Where a handler goes, and that the others stay.
LEMMA GotoSelf ==
    ASSUME TypeOK, NEW r \in Requests, NEW step, NEW l, Goto(r, step, l)
    PROVE  /\ pc'[r] = step /\ loc'[r] = l
           /\ \A q \in Requests \ {r} : pc'[q] = pc[q] /\ loc'[q] = loc[q]
  BY DEF TypeOK, Goto

\* A payout changes no recipients, and leaves all of them paid if it commits.
LEMMA QueuePayout ==
    ASSUME TypeOK, PotInv, settings.method = "queue", NEW r \in Requests, PayoutCommit(r)
    PROVE  /\ Recipients(payout') = Recipients(payout)
           /\ \A m \in Recipients(payout) : payout[m].paid => payout'[m].paid
           /\ \/ Goto(r, "payoutDone", NoLocals) /\ PaidUp'
              \/ Finish(r)
<1>1. pc[r] = "payout" /\ payout \in [Members -> PayoutRow]
  BY DEF TypeOK, PayoutCommit
<1>2. Recipients(loc[r].rows) = Recipients(payout)
  BY <1>1 DEF PotInv
<1>3. CASE UNCHANGED payout /\ Finish(r)
  BY <1>3
<1>4. CASE /\ payout' = [m \in Members |->
                          IF m \in Recipients(loc[r].rows)
                          THEN [payout[m] EXCEPT !.paid = TRUE, !.amount = loc[r].amount]
                          ELSE payout[m]]
           /\ Continue(r, "payoutDone")
  <2>1. \A m \in Members : /\ payout'[m].draw = payout[m].draw
                           /\ m \in Recipients(payout) => payout'[m].paid
    BY <1>1, <1>2, <1>4 DEF PayoutRow
  <2>2. Recipients(payout') = Recipients(payout)
    BY <2>1 DEF Recipients
  <2>3. \A m \in Recipients(payout) : payout'[m].paid
    BY <2>1 DEF Recipients
  <2> QED
    BY <1>4, <2>2, <2>3 DEF PaidUp, Continue
<1> QED
  BY <1>3, <1>4 DEF PayoutCommit

\* In a queue group nothing but a payout writes payout rows.
LEMMA OnlyPayoutsPay ==
    ASSUME TypeOK, PotInv, settings.method = "queue", [Next]_vars
    PROVE  UNCHANGED payout \/ \E r \in Requests : PayoutCommit(r)
<1>1. ASSUME NEW r \in Requests, Begin(r) PROVE UNCHANGED payout
  BY <1>1, BeginType DEF data, recipients
<1>2. ASSUME NEW r \in Requests, AssignCommit(r) \/ RerollCommit(r) PROVE FALSE
  BY <1>2 DEF AssignCommit, RerollCommit, PotInv
<1>3. ASSUME NEW r \in Requests, Resume(r), ~ PayoutCommit(r) PROVE UNCHANGED payout
  BY <1>2, <1>3 DEF Resume, UploadCreate, RecordCommit, RecordConflict, ApproveCommit, MarkCollected,
     LateFlip, PayoutReadRows, PayoutComplete,
     AdvanceReadRound, AdvanceReadRows, AdvanceReadPayouts, AdvancePool, AdvanceCollect,
     AdvanceNothing, AdvancePaid, AutoCompleteRead, AutoCompleteWrite, data, Unchanged, recipients
<1>4. ASSUME NEW r \in Requests, Fail(r) PROVE UNCHANGED payout
  BY <1>4 DEF Fail, data, recipients
<1>5. CASE Environment \/ UNCHANGED vars
  BY <1>5 DEF Environment, StartCycle, ForceComplete, DueDateMoves, Waive, JoinGroup,
     RemoveMember, Unchanged, recipients, vars, data
<1> QED
  BY <1>1, <1>3, <1>4, <1>5 DEF Next

\* So its recipients stay, and who is paid stays paid.
LEMMA QueueRows ==
    ASSUME TypeOK, PotInv, settings.method = "queue", [Next]_vars
    PROVE  /\ Recipients(payout') = Recipients(payout)
           /\ \A m \in Recipients(payout) : payout[m].paid => payout'[m].paid
<1>1. CASE UNCHANGED payout
  BY <1>1
<1>2. ASSUME NEW r \in Requests, PayoutCommit(r)
      PROVE  /\ Recipients(payout') = Recipients(payout)
             /\ \A m \in Recipients(payout) : payout[m].paid => payout'[m].paid
  BY <1>2, QueuePayout
<1>3. UNCHANGED payout \/ \E r \in Requests : PayoutCommit(r)
  BY OnlyPayoutsPay
<1> QED
  BY <1>1, <1>2, <1>3

LEMMA CompletionStep ==
    ASSUME TypeOK, PotInv, CompletionInv, [Next]_vars
    PROVE  CompletionInv'
<1> SUFFICES ASSUME settings.method = "queue"
             PROVE  /\ \A q \in Requests : Paying(q)'
                    /\ status' = "completed" => PaidUp'
  BY SettingsStay DEF CompletionInv
<1>1. Recipients(payout') = Recipients(payout) /\ (PaidUp => PaidUp')
  BY QueueRows DEF PaidUp
<1>2. (\A q \in Requests : Paying(q)) /\ (status = "completed" => PaidUp)
  BY DEF CompletionInv
<1> DEFINE Goal == (\A q \in Requests : Paying(q)') /\ (status' = "completed" => PaidUp')
\* It is enough to look at the handler that moves, and at the status it writes.
<1>3. ASSUME NEW r \in Requests, NEW step, NEW l, Goto(r, step, l), Paying(r)',
             status' = status \/ (status' = "completed" => PaidUp)
      PROVE  Goal
  <2>1. ASSUME NEW q \in Requests \ {r} PROVE Paying(q)'
    <3>1. pc'[q] = pc[q] /\ loc'[q] = loc[q] /\ Paying(q)
      BY <1>2, <1>3, GotoSelf
    <3> QED
      BY <1>1, <3>1 DEF Paying
  <2> QED
    BY <1>1, <1>2, <1>3, <2>1
<1>4. ASSUME NEW r \in Requests, NEW step, NEW l, Goto(r, step, l),
             step \notin {"payoutDone", "advanceWrite", "advancePaid"},
             status' = status \/ (status' = "completed" => PaidUp)
      PROVE  Goal
  <2>1. Paying(r)'
    BY <1>4, GotoSelf DEF Paying
  <2> QED
    BY <1>3, <1>4, <2>1
<1>5. ASSUME NEW r \in Requests, Begin(r) PROVE Goal
  <2>1. status' = status
    BY <1>5, BeginKeeps
  <2>2. \E step, l : Goto(r, step, l) /\ step \notin {"payoutDone", "advanceWrite", "advancePaid"}
    <3>1. CASE \E m \in Members : UploadRead(r, m) \/ RecordRead(r, m) \/ ApproveRead(r, m)
      BY <3>1 DEF UploadRead, RecordRead, ApproveRead
    <3>2. CASE LateScan(r) \/ PayoutReadPot(r)
      BY <3>2 DEF LateScan, PayoutReadPot
    <3>3. CASE AssignRead(r) \/ RerollRead(r)
      BY <3>3 DEF AssignRead, RerollRead
    <3> QED
      BY <1>5, <3>1, <3>2, <3>3 DEF Begin
  <2> QED
    BY <1>4, <2>1, <2>2
<1>6. ASSUME NEW r \in Requests, UploadCreate(r) \/ RecordCommit(r) \/ ApproveCommit(r) \/ LateFlip(r) \/ Fail(r)
      PROVE  Goal
  <2>1. status' = status
    BY <1>6 DEF UploadCreate, RecordCommit, ApproveCommit, MarkCollected, LateFlip, Fail, data
  <2>2. \E step, l : Goto(r, step, l) /\ step \notin {"payoutDone", "advanceWrite", "advancePaid"}
    <3>1. CASE UploadCreate(r) \/ Fail(r)
      BY <3>1 DEF UploadCreate, Fail, Finish
    <3>2. CASE RecordCommit(r) \/ ApproveCommit(r)
      BY <3>2 DEF RecordCommit, ApproveCommit, MarkCollected, Continue
    <3>3. CASE LateFlip(r)
      <4>1. \E step \in {"idle", "flip"} : \E l : Goto(r, step, l)
        BY <3>3 DEF LateFlip, Finish
      <4> QED
        BY <4>1
    <3> QED
      BY <1>6, <3>1, <3>2, <3>3
  <2> QED
    BY <1>4, <2>1, <2>2
<1>7. ASSUME NEW r \in Requests, Elsewhere(r) PROVE Goal
  <2>1. CASE PayoutCommit(r)
    <3>1. CASE Finish(r)
      BY <1>4, <2>1, <3>1 DEF Finish, PayoutCommit
    <3>2. CASE Goto(r, "payoutDone", NoLocals) /\ PaidUp'
      <4>1. Paying(r)'
        BY <3>2, GotoSelf DEF Paying
      <4> QED
        BY <1>3, <2>1, <3>2, <4>1 DEF PayoutCommit
    <3> QED
      BY <2>1, <3>1, <3>2, QueuePayout
  <2>2. CASE PayoutComplete(r)
    <3>1. PaidUp
      BY <1>2, <2>2 DEF PayoutComplete, Paying
    <3> QED
      BY <1>4, <2>2, <3>1 DEF PayoutComplete, Continue
  <2>3. CASE AdvanceReadPayouts(r)
    <3> DEFINE l == [loc[r] EXCEPT !.found = PayoutsFound(payout)]
    <3>1. Goto(r, "advanceWrite", l) /\ status' = status
      BY <2>3 DEF AdvanceReadPayouts, data
    <3>2. l.found = PayoutsFound(payout)
      BY LocalsParts, TypeParts DEF Locals
    <3> HIDE DEF l
    <3>3. /\ l.found = "none" => Recipients(payout) = {}
          /\ l.found = "paid" => PaidUp
      BY <3>2 DEF PayoutsFound, PaidUp
    <3>4. Paying(r)'
      BY <1>1, <3>1, <3>3, GotoSelf DEF Paying
    <3> QED
      BY <1>3, <3>1, <3>4
  <2>4. CASE AdvancePool(r)
    <3>1. PaidUp
      BY <1>2, <2>4 DEF AdvancePool, Paying, PaidUp
    <3> QED
      BY <1>4, <2>4, <3>1 DEF AdvancePool, Continue
  <2>5. CASE AdvanceCollect(r)
    <3>1. status' = "collecting" /\ pc[r] = "advanceWrite"
      BY <2>5 DEF AdvanceCollect
    <3>2. CASE Finish(r)
      BY <1>4, <3>1, <3>2 DEF Finish
    <3>3. CASE Goto(r, "advancePaid", loc[r])
      <4>1. Paying(r)'
        BY <1>1, <1>2, <3>1, <3>3, GotoSelf DEF Paying
      <4> QED
        BY <1>3, <3>1, <3>3, <4>1
    <3> QED
      BY <2>5, <3>2, <3>3 DEF AdvanceCollect
  <2>6. CASE AdvancePaid(r)
    <3>1. PaidUp
      BY <1>2, <2>6 DEF AdvancePaid, Completes, Paying
    <3> QED
      BY <1>4, <2>6, <3>1 DEF AdvancePaid, Continue
  <2>7. CASE \/ RecordConflict(r) \/ PayoutReadRows(r) \/ AssignCommit(r) \/ RerollCommit(r)
             \/ AdvanceReadRound(r) \/ AdvanceReadRows(r) \/ AdvanceNothing(r)
             \/ AutoCompleteRead(r) \/ AutoCompleteWrite(r)
    <3>1. status' = status
      BY <2>7 DEF RecordConflict, PayoutReadRows, AssignCommit, RerollCommit, AdvanceReadRound,
         AdvanceReadRows, AdvanceNothing, AutoCompleteRead, AutoCompleteWrite, data
    <3>2. \E step, l : Goto(r, step, l) /\ step \notin {"payoutDone", "advanceWrite", "advancePaid"}
      BY <2>7 DEF RecordConflict, PayoutReadRows, KeepShares, AssignCommit, RerollCommit, AdvanceReadRound,
         AdvanceReadRows, AdvanceNothing, AutoCompleteRead, AutoCompleteWrite, Finish, Continue
    <3> QED
      BY <1>4, <3>1, <3>2
  <2> QED
    BY <1>7, <2>1, <2>2, <2>3, <2>4, <2>5, <2>6, <2>7 DEF Elsewhere
<1>8. CASE Environment \/ UNCHANGED vars
  <2>1. UNCHANGED <<status, payout, pc, loc>>
    BY <1>8 DEF Environment, StartCycle, ForceComplete, DueDateMoves, Waive, JoinGroup,
       RemoveMember, Unchanged, vars, data, recipients, inFlight
  <2> QED
    BY <1>2, <2>1 DEF Paying, PaidUp
<1> QED
  BY <1>5, <1>6, <1>7, <1>8, ResumeCases DEF Next

\* In a queue group a round is completed only when all its recipients are paid,
\* however payouts and maybeAdvanceRoundStatus cross: neither looks again at the
\* payouts when it writes the status (recordPayout, maybeAdvanceRoundStatus).
CompletedIsPaid == settings.method = "queue" /\ status = "completed" => PaidUp

THEOREM CompletedRoundsArePaid == Spec => []CompletedIsPaid
<1>1. Init => CompletionInv
  BY DEF Init, CompletionInv, Paying
<1>2. TypeOK /\ PotInv /\ CompletionInv /\ [Next]_vars => CompletionInv'
  BY CompletionStep
<1>3. CompletionInv => CompletedIsPaid
  BY DEF CompletionInv, CompletedIsPaid
<1> QED
  BY <1>1, <1>2, <1>3, PotHolds, TypeCorrect, PTL DEF Spec

\* The recipients of a queue group stay, and who is paid stays paid, whatever
\* else crosses; only the amount may still be written by a second payout.
THEOREM PaidRecipientsStayPaid ==
    Spec => [][settings.method = "queue" =>
                 /\ Recipients(payout') = Recipients(payout)
                 /\ \A m \in Recipients(payout) : payout[m].paid => payout'[m].paid]_vars
<1>1. TypeOK /\ PotInv /\ [Next]_vars =>
        [settings.method = "queue" =>
           /\ Recipients(payout') = Recipients(payout)
           /\ \A m \in Recipients(payout) : payout[m].paid => payout'[m].paid]_vars
  BY QueueRows
<1> QED
  BY <1>1, PotHolds, TypeCorrect, PTL DEF Spec

-----------------------------------------------------------------------------
(* What the reports tell.                                                   *)

\* A recorded contribution is settled, and waived only if there was a waiver.
RecordedInv ==
    \A m \in Members : ledger[m].recorded =>
        /\ ledger[m].status \in Settled
        /\ ledger[m].status = "waived" => waivers

LEMMA RecordedStep == TypeOK /\ RecordedInv /\ [Next]_vars => RecordedInv'
<1> SUFFICES ASSUME TypeOK, RecordedInv, [Next]_vars PROVE RecordedInv'
  OBVIOUS
<1> USE DEF Settled
<1>1. ledger \in [Members -> Row]
  BY DEF TypeOK
<1>2. CASE UNCHANGED <<ledger, waivers>>
  BY <1>2 DEF RecordedInv
<1>3. ASSUME NEW r \in Requests, NEW n, MarkCollected(r, n) PROVE RecordedInv'
  <2>1. loc[r].mark \in {"paid", "late"} /\ waivers' = waivers
    BY <1>3, LocalsParts, TypeParts DEF MarkCollected
  <2>2. \A m \in Members : ledger'[m] = IF m = loc[r].member THEN [status |-> loc[r].mark, recorded |-> TRUE]
                                       ELSE ledger[m]
    BY <1>1, <1>3 DEF MarkCollected
  <2> QED
    BY <2>1, <2>2 DEF RecordedInv
<1>4. ASSUME NEW r \in Requests, UploadCreate(r) \/ LateFlip(r) PROVE RecordedInv'
  <2>1. waivers' = waivers
    BY <1>4 DEF UploadCreate, LateFlip, aux
  <2>2. \A m \in Members : /\ ledger'[m].recorded = ledger[m].recorded
                           /\ \/ ledger'[m].status = ledger[m].status
                              \/ ledger'[m].status = "late"
                              \/ ledger[m].status = "none"
    <3> SUFFICES ASSUME NEW m \in Members
                 PROVE  /\ ledger'[m].recorded = ledger[m].recorded
                        /\ \/ ledger'[m].status = ledger[m].status
                           \/ ledger'[m].status = "late"
                           \/ ledger[m].status = "none"
      OBVIOUS
    <3>1. ledger[m] \in Row
      BY <1>1
    <3>2. CASE UploadCreate(r)
      BY <1>1, <3>1, <3>2 DEF UploadCreate, Row
    <3>3. CASE LateFlip(r)
      BY <1>1, <3>1, <3>3 DEF LateFlip, Row
    <3> QED
      BY <1>4, <3>2, <3>3
  <2> QED
    BY <2>1, <2>2 DEF RecordedInv
<1>5. ASSUME NEW m \in Members, Waive(m) PROVE RecordedInv'
  <2>1. waivers' = TRUE
    BY <1>5 DEF Waive
  <2>2. \A o \in Members : /\ ledger'[o].recorded = ledger[o].recorded
                           /\ ledger'[o].status = ledger[o].status \/ ledger'[o].status = "waived"
    BY <1>1, <1>5 DEF Waive, Row
  <2> QED
    BY <2>1, <2>2 DEF RecordedInv
<1>6. ASSUME NEW r \in Requests, RecordCommit(r) \/ ApproveCommit(r) PROVE RecordedInv'
  BY <1>3, <1>6 DEF RecordCommit, ApproveCommit
<1>7. ASSUME NEW r \in Requests, Begin(r) \/ Fail(r) \/ Elsewhere(r) PROVE UNCHANGED <<ledger, waivers>>
  BY <1>7, BeginKeeps, ElsewhereKeeps DEF Fail, data, collected
<1>8. ASSUME Environment, ~ \E m \in Members : Waive(m) PROVE UNCHANGED <<ledger, waivers>>
  BY <1>8 DEF Environment, StartCycle, ForceComplete, DueDateMoves, JoinGroup, RemoveMember, collected, aux
<1>9. CASE UNCHANGED vars
  BY <1>2, <1>9 DEF vars, data, collected, aux
<1> QED
  BY <1>2, <1>4, <1>5, <1>6, <1>7, <1>8, <1>9, ResumeCases DEF Next

LEMMA RecordedHolds == Spec => []RecordedInv
<1>1. Init => RecordedInv
  BY DEF Init, RecordedInv
<1> QED
  BY <1>1, RecordedStep, TypeCorrect, PTL DEF Spec

\* Who has paid in time is paid, and no handler in flight is going to make the
\* row late: late detection, recordings and approvals that begin later find it
\* paid.
InTimeInv ==
    \A m \in inTime : ledger[m].status = "paid" /\ \A q \in Requests : ~ MakesLate(q, m)

\* A handler makes a row late that it was about to make late before, or that it
\* has just found unpaid.
LEMMA BeginMakesLate ==
    ASSUME TypeOK, NEW r \in Requests, Begin(r), NEW m \in Members, MakesLate(r, m)'
    PROVE  ledger[m].status # "paid"
<1> USE DEF MakesLate
<1>1. ASSUME NEW o \in Members, UploadRead(r, o) PROVE FALSE
  BY <1>1 DEF UploadRead, Goto, TypeOK
<1>2. ASSUME NEW o \in Members, RecordRead(r, o) \/ ApproveRead(r, o) PROVE ledger[m].status # "paid"
  <2>1. CASE RecordRead(r, o)
    <3>1. pc'[r] = "record" /\ loc'[r] = [NoLocals EXCEPT !.member = o, !.row = ledger[o].status, !.mark = PaidOrLate]
      BY <2>1, GotoSelf DEF RecordRead
    <3>2. loc'[r].member = o
      BY <3>1 DEF NoLocals
    <3> QED
      BY <2>1, <3>1, <3>2 DEF RecordRead
  <2>2. CASE ApproveRead(r, o)
    <3>1. pc'[r] = "approve" /\ loc'[r] = [NoLocals EXCEPT !.member = o, !.mark = PaidOrLate]
      BY <2>2, GotoSelf DEF ApproveRead
    <3>2. loc'[r].member = o
      BY <3>1 DEF NoLocals
    <3> QED
      BY <2>2, <3>1, <3>2 DEF ApproveRead
  <2> QED
    BY <1>2, <2>1, <2>2
<1>3. CASE LateScan(r)
  <2>1. pc'[r] = "flip" /\ loc'[r] = [NoLocals EXCEPT !.batch = {o \in Members : ledger[o].status = "pending"}]
    BY <1>3, GotoSelf DEF LateScan
  <2>2. loc'[r].batch = {o \in Members : ledger[o].status = "pending"}
    BY <2>1 DEF NoLocals
  <2> QED
    BY <2>1, <2>2
<1>4. CASE PayoutReadPot(r) \/ AssignRead(r) \/ RerollRead(r)
  BY <1>4 DEF PayoutReadPot, AssignRead, RerollRead, Goto, TypeOK
<1> QED
  BY <1>1, <1>2, <1>3, <1>4 DEF Begin

\* A step that keeps the rows of those who have paid in time, and after which no
\* other row of theirs is about to become late.
LEMMA InTimeKept ==
    ASSUME TypeOK, InTimeInv, inTime' \subseteq inTime,
           \A m \in inTime' : ledger'[m].status = ledger[m].status,
           \A q \in Requests : \A m \in inTime' : MakesLate(q, m)' => MakesLate(q, m)
    PROVE  InTimeInv'
  BY DEF InTimeInv

LEMMA InTimeStep == TypeOK /\ InTimeInv /\ [Next]_vars => InTimeInv'
<1> SUFFICES ASSUME TypeOK, InTimeInv, [Next]_vars PROVE InTimeInv'
  OBVIOUS
<1>1. ledger \in [Members -> Row] /\ inTime \subseteq Members
  BY DEF TypeOK
<1>2. ASSUME NEW r \in Requests, Begin(r) PROVE InTimeInv'
  <2>1. UNCHANGED <<ledger, inTime>> /\ \A q \in Requests \ {r} : pc'[q] = pc[q] /\ loc'[q] = loc[q]
    BY <1>2, BeginKeeps
  <2>2. \A m \in inTime : ~ MakesLate(r, m)'
    BY <1>1, <1>2, BeginMakesLate DEF InTimeInv
  <2> QED
    BY <2>1, <2>2, InTimeKept DEF MakesLate
<1>3. ASSUME NEW r \in Requests, NEW n, pc[r] \in {"record", "approve"}, MarkCollected(r, n) PROVE InTimeInv'
  <2>p. pc[r] \in {"record", "approve"}
    BY <1>3
  <2>1. /\ loc[r].member \in Members /\ pc'[r] = "advance"
        /\ \A q \in Requests \ {r} : pc'[q] = pc[q] /\ loc'[q] = loc[q]
    BY <1>3, LocalsParts, TypeParts, ContinueType DEF MarkCollected, Steps
  <2>2. \A q \in Requests : \A m \in Members : MakesLate(q, m)' => MakesLate(q, m)
    BY <2>1 DEF MakesLate
  <2>3. \A m \in Members : ledger'[m] = IF m = loc[r].member THEN [status |-> loc[r].mark, recorded |-> TRUE]
                                       ELSE ledger[m]
    BY <1>1, <1>3 DEF MarkCollected
  <2>4. inTime' = inTime \cup PaidInTime(r)
    BY <1>3 DEF MarkCollected
  <2>5. ASSUME NEW m \in inTime' PROVE m \in Members /\ ledger'[m].status = "paid" /\ \A q \in Requests : ~ MakesLate(q, m)
    <3>1. CASE m \in PaidInTime(r)
      BY <2>1, <2>3, <3>1 DEF PaidInTime
    <3>2. CASE m \in inTime /\ m # loc[r].member
      BY <1>1, <2>3, <3>2 DEF InTimeInv
    <3>3. CASE m \in inTime /\ m = loc[r].member
      <4>1. loc[r].mark = "paid" /\ \A q \in Requests : ~ MakesLate(q, m)
        BY <2>p, <3>3, LocalsParts, TypeParts DEF InTimeInv, MakesLate
      <4> QED
        BY <2>1, <2>3, <3>3, <4>1
    <3> QED
      BY <2>4, <3>1, <3>2, <3>3
  <2> QED
    BY <2>2, <2>5 DEF InTimeInv
<1>4. ASSUME NEW r \in Requests, RecordCommit(r) \/ ApproveCommit(r) PROVE InTimeInv'
  BY <1>3, <1>4 DEF RecordCommit, ApproveCommit
<1>5. ASSUME NEW r \in Requests, UploadCreate(r) PROVE InTimeInv'
  <2>1. inTime' = inTime /\ \A m \in Members : ledger[m].status = "paid" => ledger'[m] = ledger[m]
    BY <1>1, <1>5 DEF UploadCreate, aux
  <2>2. pc'[r] = "idle" /\ \A q \in Requests \ {r} : pc'[q] = pc[q] /\ loc'[q] = loc[q]
    BY <1>5, FinishType, TypeParts DEF UploadCreate
  <2> QED
    BY <1>1, <2>1, <2>2, InTimeKept DEF MakesLate, InTimeInv
<1>6. ASSUME NEW r \in Requests, LateFlip(r) PROVE InTimeInv'
  <2>1. PICK o \in loc[r].batch :
          /\ ledger' = [ledger EXCEPT ![o].status = "late"]
          /\ IF loc[r].batch = {o} THEN Finish(r) ELSE Goto(r, "flip", [loc[r] EXCEPT !.batch = @ \ {o}])
    BY <1>6 DEF LateFlip
  <2>2. pc[r] = "flip" /\ inTime' = inTime
    BY <1>6 DEF LateFlip
  <2>3. o \notin inTime
    BY <2>1, <2>2 DEF InTimeInv, MakesLate
  <2>4. \A m \in inTime : ledger'[m] = ledger[m]
    BY <1>1, <2>1, <2>3
  <2>5. loc[r] \in Locals
    BY LocalsParts, TypeParts
  <2>6. \A q \in Requests \ {r} : pc'[q] = pc[q] /\ loc'[q] = loc[q]
    BY <2>1, GotoOthers DEF Finish
  <2>7. pc'[r] = "idle" \/ (pc'[r] = "flip" /\ loc'[r].batch = loc[r].batch \ {o})
    <3>1. CASE Finish(r)
      BY <3>1, GotoSelf DEF Finish
    <3>2. CASE Goto(r, "flip", [loc[r] EXCEPT !.batch = @ \ {o}])
      <4>1. pc'[r] = "flip" /\ loc'[r] = [loc[r] EXCEPT !.batch = @ \ {o}]
        BY <3>2, GotoSelf
      <4> QED
        BY <2>5, <4>1 DEF Locals
    <3> QED
      BY <2>1, <3>1, <3>2
  <2>8. \A m \in inTime : MakesLate(r, m)' => MakesLate(r, m)
    BY <2>2, <2>7 DEF MakesLate
  <2>9. \A q \in Requests : \A m \in inTime : MakesLate(q, m)' => MakesLate(q, m)
    BY <2>6, <2>8 DEF MakesLate
  <2> QED
    BY <2>2, <2>4, <2>9, InTimeKept
<1>7. ASSUME NEW r \in Requests, Elsewhere(r) \/ Fail(r) PROVE InTimeInv'
  <2>1. UNCHANGED <<ledger, inTime>> /\ \A q \in Requests \ {r} : pc'[q] = pc[q] /\ loc'[q] = loc[q]
    BY <1>7, ElsewhereKeeps, FinishType, TypeParts DEF Fail, data, collected
  <2>2. pc'[r] \notin {"flip", "record", "approve"}
    BY <1>7 DEF Fail, Elsewhere, RecordConflict, PayoutReadRows, KeepShares, PayoutCommit,
       PayoutComplete, AssignCommit, RerollCommit, AdvanceReadRound, AdvanceReadRows,
       AdvanceReadPayouts, AdvancePool, AdvanceCollect, AdvanceNothing, AdvancePaid,
       AutoCompleteRead, AutoCompleteWrite, Finish, Continue, Goto, TypeOK
  <2> QED
    BY <2>1, <2>2, InTimeKept DEF MakesLate
<1>8. ASSUME NEW o \in Members, Waive(o) PROVE InTimeInv'
  <2>1. /\ ledger' = [ledger EXCEPT ![o].status = "waived"]
        /\ inTime' = inTime \ {o} /\ UNCHANGED <<pc, loc>>
    BY <1>8 DEF Waive
  <2>2. \A m \in inTime' : ledger'[m] = ledger[m]
    BY <1>1, <2>1
  <2> QED
    BY <2>1, <2>2, InTimeKept DEF MakesLate
<1>9. CASE UNCHANGED <<ledger, inTime, pc, loc>>
  BY <1>9, InTimeKept DEF MakesLate
<1>10. ASSUME Environment, ~ \E m \in Members : Waive(m) PROVE UNCHANGED <<ledger, inTime, pc, loc>>
  BY <1>10 DEF Environment, StartCycle, ForceComplete, DueDateMoves, JoinGroup, RemoveMember, collected,
     inFlight, aux
<1>11. CASE UNCHANGED vars
  BY <1>9, <1>11 DEF vars, data, collected, inFlight, aux
<1> QED
  BY <1>2, <1>4, <1>5, <1>6, <1>7, <1>8, <1>9, <1>10, <1>11, ResumeCases DEF Next

LEMMA InTimeHolds == Spec => []InTimeInv
<1>1. Init => InTimeInv
  BY DEF Init, InTimeInv
<1> QED
  BY <1>1, InTimeStep, TypeCorrect, PTL DEF Spec

\* Nobody who has paid in time is asked or reminded to pay, whatever crosses,
\* unless the row was waived since or somebody else was about to make it late
\* when it was paid (getOutstandingContributions, runContributionReminders).
THEOREM NobodyIsDunnedTwice == Spec => []PaidInTimeIsNotDunned
<1>1. InTimeInv => PaidInTimeIsNotDunned
  BY DEF InTimeInv, PaidInTimeIsNotDunned, Outstanding, ReminderTargets
<1> QED
  BY <1>1, InTimeHolds, PTL

\* The collected sum of a round, in which every row counts that is paid or late,
\* misses no recorded contribution unless one was waived (getCycleSummary).
THEOREM NothingRecordedIsMissing == Spec => []SummaryIsComplete
<1>1. ASSUME RecordedInv, ~ waivers
      PROVE  SummaryCollected >= Amount * Cardinality({m \in Members : ledger[m].recorded})
  <2> DEFINE counted == {m \in Members : Counts(m)}
             paidIn == {m \in Members : ledger[m].recorded}
  <2>1. paidIn \subseteq counted
    BY <1>1 DEF RecordedInv, Counts, Settled
  <2>2. IsFiniteSet(counted)
    BY FS_Subset, ConstantsAssumption
  <2>3. Cardinality(counted) \in Nat /\ Cardinality(paidIn) \in Nat
        /\ Cardinality(paidIn) <= Cardinality(counted)
    BY <2>1, <2>2, FS_Subset, FS_CardinalityType
  <2> HIDE DEF counted, paidIn
  <2>4. Amount * Cardinality(counted) >= Amount * Cardinality(paidIn)
    BY <2>3, ConstantsAssumption
  <2> QED
    BY <2>4 DEF SummaryCollected, counted, paidIn
<1>2. RecordedInv => SummaryIsComplete
  BY <1>1 DEF SummaryIsComplete
<1> QED
  BY <1>2, RecordedHolds, PTL

\* The payout ledger of a queue group says Paid only of a round all of whose
\* recipients are, a completed round included (getPayoutLedger).
THEOREM PaidMeansPaid ==
    Spec => [](settings.method = "queue" /\ payoutRoundStatus = "Paid" => PaidUp)
<1>1. CompletedIsPaid => (settings.method = "queue" /\ payoutRoundStatus = "Paid" => PaidUp)
  BY DEF CompletedIsPaid, payoutRoundStatus, PaidUp
<1> QED
  BY <1>1, CompletedRoundsArePaid, PTL

-----------------------------------------------------------------------------
(* Recipients of a queue group are paid together, and not nothing.          *)

\* A payout pays all the recipients the same share, or none of them; the share is
\* more than nothing, as an empty pot pays the base amount.
AlikeInv ==
    settings.method = "queue" /\ Amount > 0 =>
        /\ \A r \in Requests : pc[r] = "payout" => loc[r].amount > 0
        /\ \A m, n \in Recipients(payout) : payout[m].paid =>
             payout[n].paid /\ payout[n].amount = payout[m].amount /\ payout[m].amount > 0

\* A handler that is about to pay, or to assign, was so before or has just read
\* that nobody is paid.
LEMMA PayoutIsPrepared ==
    ASSUME TypeOK, [Next]_vars, NEW r \in Requests, pc'[r] \in {"payout", "assign"}
    PROVE  \/ pc'[r] = pc[r] /\ loc'[r] = loc[r]
           \/ pc'[r] = "payout" /\ PayoutReadRows(r)
           \/ pc'[r] = "assign" /\ AssignRead(r)
<1>1. ASSUME NEW q \in Requests, NEW step, NEW l, Goto(q, step, l), step \notin {"payout", "assign"} \/ q # r
      PROVE  pc'[r] = pc[r] /\ loc'[r] = loc[r]
  BY <1>1, GotoSelf
<1>2. ASSUME NEW q \in Requests, Begin(q)
      PROVE  (pc'[r] = pc[r] /\ loc'[r] = loc[r]) \/ (pc'[r] = "assign" /\ AssignRead(r))
  <2>1. CASE AssignRead(q)
    <3>1. \E l : Goto(q, "assign", l)
      BY <2>1 DEF AssignRead
    <3>2. CASE q = r
      BY <2>1, <3>1, <3>2, GotoSelf
    <3>3. CASE q # r
      BY <1>1, <3>1, <3>3
    <3> QED
      BY <3>2, <3>3
  <2>2. CASE ~ AssignRead(q)
    <3>1. \E step \in {"create", "record", "approve", "flip", "payoutRows", "reroll"} : \E l : Goto(q, step, l)
      BY <1>2, <2>2 DEF Begin, UploadRead, RecordRead, ApproveRead, LateScan, PayoutReadPot, RerollRead
    <3> QED
      BY <1>1, <3>1
  <2> QED
    BY <2>1, <2>2
<1>3. ASSUME NEW q \in Requests, PayoutReadRows(q), q # r PROVE pc'[r] = pc[r] /\ loc'[r] = loc[r]
  <2>1. \E step, l : Goto(q, step, l)
    BY <1>3 DEF PayoutReadRows, KeepShares, Finish
  <2> QED
    BY <1>1, <1>3, <2>1
<1>4. ASSUME NEW q \in Requests, Resume(q), ~ PayoutReadRows(q) PROVE pc'[r] = pc[r] /\ loc'[r] = loc[r]
  <2>1. CASE UploadCreate(q) \/ RecordCommit(q) \/ RecordConflict(q) \/ ApproveCommit(q) \/ LateFlip(q)
    <3>1. \E step \in {"idle", "advance", "flip"} : \E l : Goto(q, step, l)
      BY <2>1 DEF UploadCreate, RecordCommit, RecordConflict, ApproveCommit, MarkCollected, LateFlip, Finish, Continue
    <3> QED
      BY <1>1, <3>1
  <2>2. CASE PayoutCommit(q) \/ PayoutComplete(q) \/ AssignCommit(q) \/ RerollCommit(q)
    <3>1. \E step \in {"idle", "payoutDone", "autoComplete"} : \E l : Goto(q, step, l)
      BY <2>2 DEF PayoutCommit, PayoutComplete, AssignCommit, RerollCommit, Finish, Continue
    <3> QED
      BY <1>1, <3>1
  <2>3. CASE \/ AdvanceReadRound(q) \/ AdvanceReadRows(q) \/ AdvanceReadPayouts(q) \/ AdvancePool(q)
             \/ AdvanceCollect(q) \/ AdvanceNothing(q) \/ AdvancePaid(q) \/ AutoCompleteRead(q) \/ AutoCompleteWrite(q)
    <3>1. \E step \in {"advanceRows", "advancePayouts", "advanceWrite", "advancePaid", "autoComplete",
                       "completeCycle", "idle"} : \E l : Goto(q, step, l)
      BY <2>3 DEF AdvanceReadRound, AdvanceReadRows, AdvanceReadPayouts, AdvancePool, AdvanceCollect,
         AdvanceNothing, AdvancePaid, AutoCompleteRead, AutoCompleteWrite, Finish, Continue
    <3> QED
      BY <1>1, <3>1
  <2> QED
    BY <1>4, <2>1, <2>2, <2>3 DEF Resume
<1>5. ASSUME NEW q \in Requests, Fail(q) PROVE pc'[r] = pc[r] /\ loc'[r] = loc[r]
  BY <1>1, <1>5 DEF Fail, Finish
<1>6. CASE Environment \/ UNCHANGED vars
  BY <1>6 DEF Environment, StartCycle, ForceComplete, DueDateMoves, Waive, JoinGroup, RemoveMember, vars, inFlight
<1>7. CASE PayoutReadRows(r)
  <2>1. \E step \in {"payout", "idle"} : \E l : Goto(r, step, l)
    BY <1>7 DEF PayoutReadRows, KeepShares, Finish
  <2>2. pc'[r] = "payout"
    BY <2>1, GotoSelf
  <2> QED
    BY <1>7, <2>2
<1> QED
  BY <1>2, <1>3, <1>4, <1>5, <1>6, <1>7 DEF Next

LEMMA AlikeStep ==
    ASSUME TypeOK, PotInv, AlikeInv, [Next]_vars
    PROVE  AlikeInv'
<1> SUFFICES ASSUME settings.method = "queue", Amount > 0
             PROVE  /\ \A r \in Requests : pc'[r] = "payout" => loc'[r].amount > 0
                    /\ \A m, n \in Recipients(payout') : payout'[m].paid =>
                         payout'[n].paid /\ payout'[n].amount = payout'[m].amount /\ payout'[m].amount > 0
  BY SettingsStay DEF AlikeInv
<1>1. /\ \A r \in Requests : pc[r] = "payout" => loc[r].amount > 0
      /\ \A m, n \in Recipients(payout) : payout[m].paid =>
           payout[n].paid /\ payout[n].amount = payout[m].amount /\ payout[m].amount > 0
  BY DEF AlikeInv
<1>2. ASSUME NEW r \in Requests, pc'[r] = "payout" PROVE loc'[r].amount > 0
  <2>1. CASE pc'[r] = pc[r] /\ loc'[r] = loc[r]
    BY <1>1, <1>2, <2>1
  <2>2. CASE PayoutReadRows(r)
    <3> DEFINE kept == [loc[r] EXCEPT !.rows = payout, !.amount = PerRecipient(loc[r].amount, payout)]
    <3>1. KeepShares(r) \/ Finish(r)
      BY <2>2 DEF PayoutReadRows
    <3>2. loc'[r] = kept /\ Recipients(payout) # {}
      BY <1>2, <2>2, <3>1, GotoSelf DEF PayoutReadRows, KeepShares, Finish
    <3>3. loc[r] \in Locals /\ loc[r].amount \in Nat
      BY LocalsParts, TypeParts
    <3>4. loc'[r].amount = PerRecipient(loc[r].amount, payout)
      BY <3>2, <3>3 DEF Locals
    <3>5. PerRecipient(loc[r].amount, payout) > 0
      BY ConstantsAssumption DEF PerRecipient
    <3> QED
      BY <3>4, <3>5
  <2> QED
    BY <1>2, <2>1, <2>2, PayoutIsPrepared
<1>3. ASSUME NEW r \in Requests, PayoutCommit(r), payout' # payout
      PROVE  \A m \in Recipients(payout') : payout'[m].paid /\ payout'[m].amount = loc[r].amount /\ loc[r].amount > 0
  <2>1. /\ pc[r] = "payout" /\ payout \in [Members -> PayoutRow]
        /\ Recipients(loc[r].rows) = Recipients(payout) /\ loc[r].amount > 0
    BY <1>1, <1>3 DEF PayoutCommit, PotInv, TypeOK
  <2>2. payout' = [m \in Members |->
                     IF m \in Recipients(loc[r].rows)
                     THEN [payout[m] EXCEPT !.paid = TRUE, !.amount = loc[r].amount]
                     ELSE payout[m]]
    BY <1>3 DEF PayoutCommit
  <2>3. \A m \in Members : m \in Recipients(payout) => payout'[m].paid /\ payout'[m].amount = loc[r].amount
    BY <2>1, <2>2 DEF PayoutRow
  <2>4. Recipients(payout') = Recipients(payout) /\ Recipients(payout) \subseteq Members
    BY QueueRows DEF Recipients
  <2> HIDE <2>2
  <2> QED
    BY <2>1, <2>3, <2>4
<1>4. CASE payout' = payout
  BY <1>1, <1>2, <1>4
<1>5. CASE payout' # payout
  <2>1. PICK r \in Requests : PayoutCommit(r)
    BY <1>5, OnlyPayoutsPay
  <2> QED
    BY <1>2, <1>3, <1>5, <2>1
<1> QED
  BY <1>4, <1>5

LEMMA AlikeHolds == Spec => []AlikeInv
<1>1. Init => AlikeInv
  <2> SUFFICES ASSUME Init PROVE AlikeInv
    OBVIOUS
  <2>1. \A m \in Members : ~ payout[m].paid
    BY DEF Init, Draw, NoPayout
  <2>2. \A r \in Requests : pc[r] = "idle"
    BY DEF Init
  <2> QED
    BY <2>1, <2>2 DEF AlikeInv, Recipients
<1>2. TypeOK /\ PotInv /\ AlikeInv /\ [Next]_vars => AlikeInv'
  BY AlikeStep
<1> QED
  BY <1>1, <1>2, PotHolds, TypeCorrect, PTL DEF Spec

-----------------------------------------------------------------------------
(* Sums over members.                                                       *)

\* What a sum over the members of S is, where those in P count a and the others
\* nothing: the folding function the library chooses satisfies its equation on
\* every subset, and no subset is a smallest one where it differs.
AddsUp(f, S, P, a) ==
    f = [s \in SUBSET S |->
           IF s = {} THEN 0
           ELSE (IF (CHOOSE x \in s : TRUE) \in P THEN a ELSE 0) + f[s \ {CHOOSE x \in s : TRUE}]]

Share(s, P, a) == a * Cardinality(s \cap P)

LEMMA OneLess ==
    ASSUME NEW s, IsFiniteSet(s), NEW P, NEW a \in Nat, NEW x \in s
    PROVE  /\ Cardinality(s \ {x}) \in Nat /\ Cardinality(s) = Cardinality(s \ {x}) + 1
           /\ Share(s, P, a) = (IF x \in P THEN a ELSE 0) + Share(s \ {x}, P, a)
<1> DEFINE rest == s \ {x}
<1>1. x \in s
  OBVIOUS
<1>2. IsFiniteSet(s) /\ IsFiniteSet(s \cap P) /\ IsFiniteSet(rest) /\ IsFiniteSet(rest \cap P)
  BY FS_Subset
<1>3. Cardinality(rest) = Cardinality(s) - 1
  BY <1>1, <1>2, FS_RemoveElement
<1>4. Cardinality(s) \in Nat /\ Cardinality(rest) \in Nat /\ Cardinality(rest \cap P) \in Nat
  BY <1>2, FS_CardinalityType
<1>5. CASE x \in P
  <2>1. rest \cap P = (s \cap P) \ {x} /\ x \in s \cap P
    BY <1>1, <1>5
  <2>2. Cardinality(rest \cap P) = Cardinality(s \cap P) - 1
    <3>1. Cardinality((s \cap P) \ {x}) = Cardinality(s \cap P) - 1
      BY <1>2, <2>1, FS_RemoveElement
    <3> QED
      BY <2>1, <3>1
  <2>3. Cardinality(s \cap P) = Cardinality(rest \cap P) + 1
    BY <1>4, <2>2, <1>2, FS_CardinalityType
  <2>4. \A k \in Nat : a * (k + 1) = a + a * k
    OBVIOUS
  <2> HIDE DEF rest
  <2>5. a * Cardinality(s \cap P) = a + a * Cardinality(rest \cap P)
    BY <1>4, <2>3, <2>4
  <2> QED
    BY <1>1, <1>3, <1>4, <1>5, <2>5 DEF rest, Share
<1>6. CASE x \notin P
  <2>1. rest \cap P = s \cap P
    BY <1>6
  <2>2. a * Cardinality(rest \cap P) \in Nat
    BY <1>4
  <2> HIDE DEF rest
  <2>3. a * Cardinality(s \cap P) = 0 + a * Cardinality(rest \cap P)
    <3>1. a * Cardinality(s \cap P) = a * Cardinality(rest \cap P)
      BY <2>1
    <3> QED
      BY <2>2, <3>1
  <2> QED
    BY <1>1, <1>3, <1>4, <1>6, <2>3 DEF rest, Share
<1> QED
  BY <1>5, <1>6

LEMMA SumOfAlike ==
    ASSUME NEW S, IsFiniteSet(S), NEW P, NEW a \in Nat
    PROVE  /\ AddsUp(CHOOSE f : AddsUp(f, S, P, a), S, P, a)
           /\ (CHOOSE f : AddsUp(f, S, P, a))[S] = Share(S, P, a)
<1> DEFINE sum == CHOOSE f : AddsUp(f, S, P, a)
           closed == [s \in SUBSET S |-> Share(s, P, a)]
           pick(s) == CHOOSE x \in s : TRUE
<1>1. AddsUp(closed, S, P, a)
  <2>1. Share({}, P, a) = 0
    BY FS_EmptySet DEF Share
  <2>2. ASSUME NEW s \in SUBSET S, s # {}
        PROVE  Share(s, P, a) = (IF pick(s) \in P THEN a ELSE 0) + closed[s \ {pick(s)}]
    <3>1. pick(s) \in s
      BY <2>2
    <3>2. \A x \in s : Share(s, P, a) = (IF x \in P THEN a ELSE 0) + Share(s \ {x}, P, a)
      <4>1. IsFiniteSet(s)
        BY FS_Subset
      <4> QED
        BY <4>1, OneLess
    <3> HIDE DEF pick
    <3>3. closed[s \ {pick(s)}] = Share(s \ {pick(s)}, P, a)
      BY <3>1
    <3> HIDE DEF closed
    <3>4. Share(s, P, a) = (IF pick(s) \in P THEN a ELSE 0) + Share(s \ {pick(s)}, P, a)
      BY <3>1, <3>2
    <3> QED
      BY <3>3, <3>4
  <2> QED
    BY <2>1, <2>2 DEF AddsUp
<1>2. AddsUp(sum, S, P, a)
  BY <1>1
<1>3. ASSUME NEW s \in SUBSET S
      PROVE  sum[s] = IF s = {} THEN 0 ELSE (IF pick(s) \in P THEN a ELSE 0) + sum[s \ {pick(s)}]
  <2> HIDE DEF sum
  <2> QED
    BY <1>2 DEF AddsUp
<1> HIDE DEF sum
<1> DEFINE wrong == {n \in Nat : \E s \in SUBSET S : Cardinality(s) = n /\ sum[s] # Share(s, P, a)}
<1>4. wrong = {}
  <2> SUFFICES ASSUME wrong # {} PROVE FALSE
    OBVIOUS
  <2>1. PICK n \in wrong : \A k \in wrong : ~ <<k, n>> \in OpToRel(<, Nat)
    BY NatLessThanWellFounded, WFMin
  <2>2. PICK s \in SUBSET S : Cardinality(s) = n /\ sum[s] # Share(s, P, a)
    BY <2>1
  <2>3. CASE s = {}
    <3>1. Share({}, P, a) = 0
      BY FS_EmptySet DEF Share
    <3>2. sum[s] = 0
      BY <1>3, <2>3
    <3> QED
      BY <2>2, <2>3, <3>1, <3>2
  <2>4. CASE s # {}
    <3> DEFINE rest == s \ {pick(s)}
    <3>1. /\ rest \in SUBSET S /\ Cardinality(rest) \in Nat /\ n = Cardinality(rest) + 1
          /\ Share(s, P, a) = (IF pick(s) \in P THEN a ELSE 0) + Share(rest, P, a)
      <4>1. pick(s) \in s
        BY <2>4
      <4>2. IsFiniteSet(s)
        BY FS_Subset
      <4>3. \A x \in s : Share(s, P, a) = (IF x \in P THEN a ELSE 0) + Share(s \ {x}, P, a)
        BY <4>2, OneLess
      <4>4. \A x \in s : Cardinality(s \ {x}) \in Nat /\ Cardinality(s) = Cardinality(s \ {x}) + 1
        BY <4>2, OneLess
      <4> HIDE DEF pick
      <4> QED
        BY <2>2, <4>1, <4>3, <4>4
    <3>2. sum[s] = (IF pick(s) \in P THEN a ELSE 0) + sum[rest]
      BY <1>3, <2>4
    <3> HIDE DEF rest, pick
    <3>3. sum[rest] # Share(rest, P, a)
      BY <2>2, <3>1, <3>2
    <3>4. Cardinality(rest) \in wrong /\ Cardinality(rest) < n /\ n \in Nat
      BY <3>1, <3>3
    <3>5. <<Cardinality(rest), n>> \in OpToRel(<, Nat)
      BY <3>1, <3>2 DEF OpToRel
    <3> QED
      BY <2>1, <3>4, <3>5
  <2> QED
    BY <2>3, <2>4
<1>5. Cardinality(S) \in Nat /\ S \in SUBSET S
  BY FS_CardinalityType
<1> QED
  BY <1>2, <1>4, <1>5 DEF sum

\* What is paid out to recipients who have been paid alike.
LEMMA PaidOutAlike ==
    ASSUME TypeOK, NEW a \in Nat, \A m \in Recipients(payout) : payout[m].paid /\ payout[m].amount = a
    PROVE  SummaryPaidOut = a * Cardinality(Recipients(payout))
<1> DEFINE S == Recipients(payout)
           sum == CHOOSE f : AddsUp(f, S, S, a)
<1>1. AddsUp(sum, S, S, a) /\ sum[S] = Share(S, S, a)
  <2>1. IsFiniteSet(S)
    BY FS_Subset, ConstantsAssumption DEF Recipients
  <2> QED
    BY <2>1, SumOfAlike
<1> DEFINE Sums(f) == f = [s \in SUBSET S |->
                             IF s = {} THEN 0
                             ELSE Received(CHOOSE x \in s : TRUE) + f[s \ {CHOOSE x \in s : TRUE}]]
<1>2. SummaryPaidOut = (CHOOSE f : Sums(f))[S]
  BY Zenon DEF SummaryPaidOut, MapThenSumSet, MapThenFoldSet
<1>3. \A s \in SUBSET S : s # {} =>
         Received(CHOOSE x \in s : TRUE) = IF (CHOOSE x \in s : TRUE) \in S THEN a ELSE 0
  <2> HIDE DEF S
  <2>1. \A m \in S : Received(m) = a
    BY DEF Received, S
  <2> QED
    BY <2>1
<1>4. \A f : Sums(f) <=> AddsUp(f, S, S, a)
  <2> SUFFICES ASSUME NEW f PROVE Sums(f) <=> AddsUp(f, S, S, a)
    OBVIOUS
  <2> DEFINE lhs == [s \in SUBSET S |->
                       IF s = {} THEN 0
                       ELSE Received(CHOOSE x \in s : TRUE) + f[s \ {CHOOSE x \in s : TRUE}]]
             rhs == [s \in SUBSET S |->
                       IF s = {} THEN 0
                       ELSE (IF (CHOOSE x \in s : TRUE) \in S THEN a ELSE 0) + f[s \ {CHOOSE x \in s : TRUE}]]
  <2>1. lhs = rhs
    BY <1>3
  <2> QED
    BY <2>1 DEF AddsUp
<1> HIDE DEF Sums
<1>5. (CHOOSE f : Sums(f)) = sum
  BY <1>4
<1>6. S \cap S = S
  OBVIOUS
<1> QED
  BY <1>1, <1>2, <1>5, <1>6 DEF Share

\* A recipient is paid more than nothing, unless a contribution is nothing.
LEMMA PaidOutIsSome ==
    ASSUME TypeOK, AlikeInv, settings.method = "queue", Amount > 0, PaidUp, Recipients(payout) # {}
    PROVE  SummaryPaidOut > 0
<1>1. PICK m \in Recipients(payout) : TRUE
  OBVIOUS
<1> DEFINE a == payout[m].amount
           n == Cardinality(Recipients(payout))
<1>2. a \in Nat /\ a > 0 /\ \A k \in Recipients(payout) : payout[k].paid /\ payout[k].amount = a
  BY <1>1 DEF AlikeInv, PaidUp, TypeOK, PayoutRow, Recipients
<1>3. n \in Nat \ {0}
  BY RecipientsFinite DEF TypeOK
<1> HIDE DEF a, n
<1>4. SummaryPaidOut = a * n
  BY <1>2, PaidOutAlike DEF n
<1>5. a * n > 0
  BY <1>2, <1>3
<1> QED
  BY <1>4, <1>5

\* Whatever handlers cross, the reports of a round tell what was paid in and out:
\* nothing recorded is missing from the summary unless somebody was waived; who
\* has paid in time is not dunned, unless waived since or about to be made late
\* by somebody else when the payment was recorded; and Paid is only said of
\* recipients who are, in a queue group (getCycleSummary,
\* getOutstandingContributions, getPayoutLedger, runContributionReminders).
THEOREM ReportsTellTheTruth == Spec => []ReportsAreTrue
<1>1. TypeOK /\ AlikeInv /\ CompletedIsPaid => PaidIsPaid
  <2> SUFFICES ASSUME TypeOK, AlikeInv, CompletedIsPaid, settings.method = "queue", payoutRoundStatus = "Paid"
               PROVE  PaidUp /\ (Amount > 0 => SummaryPaidOut > 0)
    BY DEF PaidIsPaid, PaidUp
  <2>1. PaidUp /\ Recipients(payout) # {}
    BY DEF payoutRoundStatus, CompletedIsPaid, PaidUp
  <2> QED
    BY <2>1, PaidOutIsSome
<1>2. SummaryIsComplete /\ PaidInTimeIsNotDunned /\ PaidIsPaid => ReportsAreTrue
  BY DEF ReportsAreTrue
<1> QED
  BY <1>1, <1>2, NothingRecordedIsMissing, TypeCorrect, AlikeHolds, CompletedRoundsArePaid, NobodyIsDunnedTwice, PTL

-----------------------------------------------------------------------------
(* Handlers that run one after the other replace no payout.                 *)

\* Nobody is paid by the time a handler pays or assigns, as it has read before:
\* no other handler pays in between.
SerialInv == \A r \in Requests : pc[r] \in {"payout", "assign"} => ~ SomePaid(payout)

\* Who writes payout rows is done with them.
LEMMA PayoutWriters ==
    ASSUME TypeOK, [Next]_vars, payout' # payout
    PROVE  \E r \in Requests : /\ PayoutCommit(r) \/ AssignCommit(r) \/ RerollCommit(r)
                               /\ pc'[r] \notin {"payout", "assign"}
<1>1. ASSUME NEW r \in Requests, Begin(r) PROVE FALSE
  BY <1>1, BeginType DEF data, recipients
<1>2. ASSUME NEW r \in Requests, Resume(r) PROVE PayoutCommit(r) \/ AssignCommit(r) \/ RerollCommit(r)
  BY <1>2 DEF Resume, UploadCreate, RecordCommit, RecordConflict, ApproveCommit, MarkCollected,
     LateFlip, PayoutReadRows, PayoutComplete,
     AdvanceReadRound, AdvanceReadRows, AdvanceReadPayouts, AdvancePool, AdvanceCollect,
     AdvanceNothing, AdvancePaid, AutoCompleteRead, AutoCompleteWrite, data, Unchanged, recipients
<1>3. ASSUME NEW r \in Requests, Fail(r) PROVE FALSE
  BY <1>3 DEF Fail, data, recipients
<1>4. ~ Environment /\ ~ UNCHANGED vars
  BY DEF Environment, StartCycle, ForceComplete, DueDateMoves, Waive, JoinGroup,
     RemoveMember, Unchanged, recipients, vars, data
<1>5. PICK r \in Requests : PayoutCommit(r) \/ AssignCommit(r) \/ RerollCommit(r)
  BY <1>1, <1>2, <1>3, <1>4 DEF Next
<1>6. \E step \in {"idle", "payoutDone"} : \E l : Goto(r, step, l)
  BY <1>5 DEF PayoutCommit, AssignCommit, RerollCommit, Finish, Continue
<1>7. pc'[r] \notin {"payout", "assign"}
  BY <1>6, GotoSelf
<1> QED
  BY <1>5, <1>7

LEMMA SerialStep ==
    ASSUME \A p, q \in Requests : p = q, TypeOK, SerialInv, [Next]_vars
    PROVE  SerialInv'
<1> SUFFICES ASSUME NEW r \in Requests, pc'[r] \in {"payout", "assign"}, SomePaid(payout')
             PROVE  FALSE
  BY DEF SerialInv
<1>1. payout' = payout
  BY PayoutWriters
<1>2. SomePaid(payout)
  BY <1>1
<1>3. CASE pc'[r] = pc[r]
  BY <1>2, <1>3 DEF SerialInv
<1>4. CASE pc'[r] = "payout" /\ PayoutReadRows(r)
  <2>1. Finish(r)
    BY <1>2, <1>4 DEF PayoutReadRows
  <2>2. pc'[r] = "idle"
    BY <2>1, GotoSelf DEF Finish
  <2> QED
    BY <1>4, <2>2
<1>5. CASE AssignRead(r)
  BY <1>2, <1>5 DEF AssignRead
<1> QED
  BY <1>3, <1>4, <1>5, PayoutIsPrepared

\* A payout that is recorded is not replaced, dropped or recorded again with
\* another amount, as long as the handlers of a round do not overlap: each of
\* them looks for paid rows, but before it writes (recordPayout,
\* assignPayoutRecipients, rerollRandomPayouts).
THEOREM RecordedPayoutsAreFinal == (\A p, q \in Requests : p = q) => (Spec => PayoutFinal)
<1> SUFFICES ASSUME \A p, q \in Requests : p = q PROVE Spec => PayoutFinal
  OBVIOUS
<1>1. Init => SerialInv
  BY DEF Init, SerialInv
<1>2. TypeOK /\ SerialInv /\ [Next]_vars => SerialInv'
  BY SerialStep
<1>3. TypeOK /\ SerialInv /\ [Next]_vars =>
        [\A m \in Members : payout[m].draw # 0 /\ payout[m].paid => payout'[m] = payout[m]]_payout
  <2> SUFFICES ASSUME TypeOK, SerialInv, [Next]_vars, payout' # payout,
                      NEW m \in Members, payout[m].draw # 0, payout[m].paid
               PROVE  payout'[m] = payout[m]
    OBVIOUS
  <2>1. SomePaid(payout)
    BY DEF SomePaid, Recipients
  <2>2. PICK r \in Requests : PayoutCommit(r) \/ AssignCommit(r) \/ RerollCommit(r)
    BY PayoutWriters
  <2>3. ~ PayoutCommit(r) /\ ~ AssignCommit(r)
    BY <2>1 DEF PayoutCommit, AssignCommit, SerialInv
  <2>4. m \in {k \in Recipients(payout) : payout[k].paid}
    BY DEF Recipients
  <2> QED
    BY <2>2, <2>3, <2>4 DEF RerollCommit
<1> QED
  BY <1>1, <1>2, <1>3, TypeCorrect, PTL DEF Spec, PayoutFinal

=============================================================================
