----------------------------- MODULE RoundLedger -----------------------------
(***************************************************************************)
(* The money of one round of a savings cycle: the contribution rows of its *)
(* members, the running total, the payout rows, the round's status and the *)
(* status of its cycle (whose other rounds are complete already).          *)
(*                                                                         *)
(* A handler of contributions.service.ts, payouts.service.ts or            *)
(* lateDetection.ts is an async function: every prisma call is a statement *)
(* or a transaction of its own, and other handlers run between two calls.  *)
(* A request r in Requests stands for one such call in flight: pc[r] names *)
(* the database call it makes next, loc[r] keeps what it has read.  A      *)
(* handler that changes the database in one call only is one action, and   *)
(* reads that follow each other and only decide whether to go on are one   *)
(* step with the read whose result the handler keeps.                      *)
(* Proofs of payment and their stored files are not part of this module.   *)
(***************************************************************************)
EXTENDS Integers, FiniteSets

CONSTANTS
    Members,          \* the group members, active or exited
    Owner,            \* the owner, who cannot be removed
    Requests,         \* handlers that may be in flight at the same time
    Amount,           \* contributionAmountNgwe of the group's settings
    GroupSettings,    \* the settings a group may have
    EarlierPaid,      \* members paid out by an earlier round of the cycle
    MaxTotal,         \* bound: no recording or approval starts that could take the total past it
    MaxDraws          \* bound on how often recipients are replaced

\* voting is manual without a way to assign recipients.
PayoutMethod == {"queue", "random", "manual"}

ASSUME ConstantsAssumption ==
    /\ Owner \in Members
    /\ IsFiniteSet(Members)
    /\ IsFiniteSet(Requests)
    /\ Amount \in Nat
    /\ GroupSettings \subseteq [method : PayoutMethod, recipients : Nat]
    /\ EarlierPaid \subseteq Members
    /\ MaxTotal \in Nat /\ MaxDraws \in Nat

VARIABLES
    cycle,        \* CycleStatus
    status,       \* RoundStatus
    settings,     \* payoutMethod, payoutRecipientsCount (0: savings pool),
                  \* which nobody may change while the cycle is active
    ledger,       \* the contribution row of each member
    total,        \* totalCollectedNgwe
    payout,       \* the payout row of each member
    active,       \* members whose status is active
    pastDue,      \* the clock is past dueDate + gracePeriodDays
    draws,        \* number of times the recipients were replaced
    pc, loc,      \* the requests in flight
    unattended,   \* auxiliary: since the last recording or approval, a member
                  \* was settled or left, or a request died, and no
                  \* maybeAdvanceRoundStatus follows
    waivers,      \* auxiliary: a row has been waived at some time
    inTime        \* auxiliary: members who were recorded in time while no other
                  \* handler was about to make their row late, and not waived since

collected == <<ledger, total>>
recipients == <<payout, draws>>
group == <<settings, active, pastDue>>
data == <<cycle, status, collected, recipients, group>>
inFlight == <<pc, loc>>
aux == <<unattended, waivers, inTime>>
vars == <<data, inFlight, aux>>

CycleStatus == {"open", "in_progress", "completed"}
RoundStatus == {"pending", "collecting", "completed"}
RowStatus == {"none", "pending", "paid", "late", "waived"}
Settled == {"paid", "late", "waived"}

\* recorded: the row has a paidDate.
Row == [status : RowStatus, recorded : BOOLEAN]

\* draw tells the rows of one assignment of recipients from those of another,
\* as their ids do; 0: the member has no payout row.
PayoutRow == [draw : Nat, paid : BOOLEAN, amount : Nat]
NoPayout == [draw |-> 0, paid |-> FALSE, amount |-> 0]
NoPayouts == [m \in Members |-> NoPayout]

Recipients(rows) == {m \in Members : rows[m].draw # 0}
SomePaid(rows) == \E m \in Recipients(rows) : rows[m].paid
PayoutsFound(rows) ==
    IF Recipients(rows) = {} THEN "none"
    ELSE IF \A m \in Recipients(rows) : rows[m].paid THEN "paid" ELSE "unpaid"

Draw(S, n) ==
    [m \in Members |-> IF m \in S THEN [NoPayout EXCEPT !.draw = n] ELSE NoPayout]

Steps == {"idle", "create", "record", "approve", "flip", "payoutRows", "payout",
          "payoutDone", "assign", "reroll", "advance", "advanceRows", "advancePayouts",
          "advanceWrite", "advancePaid", "autoComplete", "completeCycle"}

Locals == [member : Members,          \* the member the request is about
           row : RowStatus,           \* status of the row it read
           mark : {"paid", "late"},   \* status it is going to write
           status : RoundStatus,      \* round status it read
           batch : SUBSET Members,    \* members it read, or still has to handle
           collected : BOOLEAN,       \* allCollected, as it found it
           found : {"none", "unpaid", "paid"},  \* what it found of payout rows
           rows : [Members -> PayoutRow],  \* payout rows it is going to pay
           amount : Nat]              \* total it read, or amount per recipient it computed

NoLocals == [member |-> Owner, row |-> "none", mark |-> "paid", status |-> "pending",
             batch |-> {}, collected |-> FALSE, found |-> "none",
             rows |-> NoPayouts, amount |-> 0]

TypeOK ==
    /\ cycle \in CycleStatus
    /\ status \in RoundStatus
    /\ settings \in GroupSettings
    /\ ledger \in [Members -> Row]
    /\ total \in Nat
    /\ payout \in [Members -> PayoutRow]
    /\ active \in SUBSET Members
    /\ pastDue \in BOOLEAN
    /\ draws \in Nat \ {0}
    /\ pc \in [Requests -> Steps]
    /\ loc \in [Requests -> Locals]
    /\ unattended \in BOOLEAN
    /\ waivers \in BOOLEAN
    /\ inTime \in SUBSET Members

-----------------------------------------------------------------------------
(* A cycle has just been opened or started: rows are empty, and recipients *)
(* are pre-assigned unless they are to be assigned by hand.                *)

InitialRecipients(members) ==
    IF settings.method = "manual" THEN {{}}
    ELSE {S \in SUBSET members : Cardinality(S) = settings.recipients}

Init ==
    /\ cycle \in {"open", "in_progress"}
    /\ status = "pending"
    /\ settings \in GroupSettings
    /\ ledger = [m \in Members |-> [status |-> "none", recorded |-> FALSE]]
    /\ total = 0
    /\ active \in {S \in SUBSET Members : Owner \in S}
    /\ \E S \in InitialRecipients(active) : payout = Draw(S, 1)
    /\ pastDue = FALSE
    /\ draws = 1
    /\ pc = [r \in Requests |-> "idle"]
    /\ loc = [r \in Requests |-> NoLocals]
    /\ unattended = FALSE
    /\ waivers = FALSE
    /\ inTime = {}

Goto(r, step, l) ==
    /\ pc' = [pc EXCEPT ![r] = step]
    /\ loc' = [loc EXCEPT ![r] = l]

Finish(r) == Goto(r, "idle", NoLocals)

\* The rest of a handler once its row is written: maybeAdvanceRoundStatus.
Continue(r, step) == Goto(r, step, NoLocals)

Unchanged == UNCHANGED <<cycle, recipients, group>>

-----------------------------------------------------------------------------
(* Contributions. *)

\* dueDate + gracePeriodDays against the clock
PaidOrLate == IF pastDue THEN "late" ELSE "paid"

Counting == {r \in Requests : pc[r] \in {"record", "approve"}}

WithinBudget == total + Amount * (Cardinality(Counting) + 1) <= MaxTotal

\* A member's first upload finds no row and goes on to create one; an upload
\* over an existing row changes its proof only.
UploadRead(r, m) ==
    /\ pc[r] = "idle"
    /\ ledger[m].status = "none"
    /\ Goto(r, "create", [NoLocals EXCEPT !.member = m])
    /\ UNCHANGED <<data, aux>>

\* The unique key (cycle, round, member) refuses a second row.
UploadCreate(r) ==
    LET m == loc[r].member IN
    /\ pc[r] = "create"
    /\ IF ledger[m].status = "none"
       THEN ledger' = [ledger EXCEPT ![m].status = "pending"]
       ELSE UNCHANGED ledger
    /\ Finish(r)
    /\ UNCHANGED <<status, total, aux>> /\ Unchanged

RecordRead(r, m) ==
    /\ pc[r] = "idle" /\ WithinBudget
    /\ ledger[m].status \notin {"paid", "late"}
    /\ Goto(r, "record", [NoLocals EXCEPT !.member = m,
                                          !.row = ledger[m].status,
                                          !.mark = PaidOrLate])
    /\ UNCHANGED <<data, aux>>

\* r has read m's row, or the clock, before and is going to make the row late.
MakesLate(r, m) ==
    \/ pc[r] = "flip" /\ m \in loc[r].batch
    \/ pc[r] \in {"record", "approve"} /\ loc[r].member = m /\ loc[r].mark = "late"

PaidInTime(r) ==
    {m \in {loc[r].member} : loc[r].mark = "paid" /\ \A q \in Requests : ~ MakesLate(q, m)}

MarkCollected(r, increment) ==
    /\ ledger' = [ledger EXCEPT ![loc[r].member] =
                     [status |-> loc[r].mark, recorded |-> TRUE]]
    /\ total' = total + increment
    /\ unattended' = FALSE
    /\ inTime' = inTime \cup PaidInTime(r)
    /\ Continue(r, "advance")
    /\ UNCHANGED <<status, waivers>> /\ Unchanged

\* Slip: only a new row is added to the total.
IncrementNewRow(row) == IF row = "none" THEN Amount ELSE 0

\* What the recording adds to the total depends on the row it read.
Increment(row) == IF row \in {"none", "pending"} THEN Amount ELSE 0

\* The row read and the row written may differ; only a row that has appeared
\* since is noticed, by the unique key.
RecordCommit(r) ==
    /\ pc[r] = "record"
    /\ ~ (loc[r].row = "none" /\ ledger[loc[r].member].status # "none")
    /\ MarkCollected(r, Increment(loc[r].row))

RecordConflict(r) ==
    /\ pc[r] = "record"
    /\ loc[r].row = "none" /\ ledger[loc[r].member].status # "none"
    /\ Finish(r)
    /\ UNCHANGED <<data, aux>>

ApproveRead(r, m) ==
    /\ pc[r] = "idle" /\ WithinBudget
    /\ ledger[m].status \notin {"none", "paid"}
    /\ Goto(r, "approve", [NoLocals EXCEPT !.member = m, !.mark = PaidOrLate])
    /\ UNCHANGED <<data, aux>>

\* Slip: an approval does not look whether the round is now complete.
ApproveCommitOnly(r) ==
    /\ pc[r] = "approve"
    /\ ledger' = [ledger EXCEPT ![loc[r].member] = [status |-> loc[r].mark, recorded |-> TRUE]]
    /\ total' = total + Amount
    /\ unattended' = FALSE
    /\ inTime' = inTime \cup PaidInTime(r)
    /\ Finish(r)
    /\ UNCHANGED <<status, waivers>> /\ Unchanged

ApproveCommit(r) ==
    /\ pc[r] = "approve"
    /\ MarkCollected(r, Amount)

\* One upsert; it does not look whether the round is now complete.
Waive(m) ==
    /\ ledger' = [ledger EXCEPT ![m].status = "waived"]
    /\ unattended' = TRUE
    /\ waivers' = TRUE
    /\ inTime' = inTime \ {m}
    /\ UNCHANGED <<status, total, pc, loc>> /\ Unchanged

-----------------------------------------------------------------------------
(* Late detection, daily or by an administrator. *)

\* Slip: every row that is not late already is found.
LateScanAll(r) ==
    LET found == {m \in Members : ledger[m].status \notin {"none", "late"}} IN
    /\ pc[r] = "idle"
    /\ cycle = "in_progress"
    /\ status \in {"pending", "collecting"}
    /\ pastDue
    /\ found # {}
    /\ Goto(r, "flip", [NoLocals EXCEPT !.batch = found])
    /\ UNCHANGED <<data, aux>>

LateScan(r) ==
    LET pendingRows == {m \in Members : ledger[m].status = "pending"} IN
    /\ pc[r] = "idle"
    /\ cycle = "in_progress"
    /\ status \in {"pending", "collecting"}
    /\ pastDue
    /\ pendingRows # {}
    /\ Goto(r, "flip", [NoLocals EXCEPT !.batch = pendingRows])
    /\ UNCHANGED <<data, aux>>

\* The rows found pending are flipped one by one, whatever they are by then.
LateFlip(r) ==
    /\ pc[r] = "flip"
    /\ \E m \in loc[r].batch :
        /\ ledger' = [ledger EXCEPT ![m].status = "late"]
        /\ IF loc[r].batch = {m} THEN Finish(r)
           ELSE Goto(r, "flip", [loc[r] EXCEPT !.batch = @ \ {m}])
    /\ unattended' = TRUE
    /\ UNCHANGED <<status, total, waivers, inTime>> /\ Unchanged

-----------------------------------------------------------------------------
(* Payouts. *)

\* Slip: every recipient gets the whole pot.
PerRecipientWhole(pot, rows) == IF pot > 0 THEN pot ELSE Amount

\* An empty pot pays the base contribution amount.
PerRecipient(pot, rows) ==
    LET share == pot \div Cardinality(Recipients(rows)) IN
    IF share > 0 THEN share ELSE Amount

\* The total is read with the round, before the payout rows.
PayoutReadPot(r) ==
    /\ pc[r] = "idle"
    /\ settings.recipients > 0
    /\ Goto(r, "payoutRows", [NoLocals EXCEPT !.amount = total])
    /\ UNCHANGED <<data, aux>>

KeepShares(r) ==
    Goto(r, "payout", [loc[r] EXCEPT !.rows = payout,
                                     !.amount = PerRecipient(loc[r].amount, payout)])

\* Slip: a round that has been distributed is not refused.
PayoutReadRowsAgain(r) ==
    /\ pc[r] = "payoutRows"
    /\ IF Recipients(payout) # {} THEN KeepShares(r) ELSE Finish(r)
    /\ UNCHANGED <<data, aux>>

PayoutReadRows(r) ==
    /\ pc[r] = "payoutRows"
    /\ IF Recipients(payout) # {} /\ ~ SomePaid(payout) THEN KeepShares(r) ELSE Finish(r)
    /\ UNCHANGED <<data, aux>>

\* Rows are updated by id in one transaction: if one is gone, all is undone.
PayoutCommit(r) ==
    LET rows == loc[r].rows
        present == \A m \in Recipients(rows) : payout[m].draw = rows[m].draw IN
    /\ pc[r] = "payout"
    /\ IF present
       THEN /\ payout' = [m \in Members |->
                            IF m \in Recipients(rows)
                            THEN [payout[m] EXCEPT !.paid = TRUE, !.amount = loc[r].amount]
                            ELSE payout[m]]
            /\ Continue(r, "payoutDone")
       ELSE Finish(r) /\ UNCHANGED payout
    /\ UNCHANGED <<cycle, status, collected, draws, group, aux>>

\* Slip: recording the payout leaves the round collecting.
PayoutCompleteNot(r) ==
    /\ pc[r] = "payoutDone"
    /\ status' = "collecting"
    /\ Continue(r, "autoComplete")
    /\ UNCHANGED <<collected, aux>> /\ Unchanged

\* A statement of its own, after the transaction.
PayoutComplete(r) ==
    /\ pc[r] = "payoutDone"
    /\ status' = "completed"
    /\ Continue(r, "autoComplete")
    /\ UNCHANGED <<collected, aux>> /\ Unchanged

AssignRead(r) ==
    /\ pc[r] = "idle" /\ draws + Cardinality(Requests) <= MaxDraws
    /\ settings.method = "manual" /\ settings.recipients > 0
    /\ ~ SomePaid(payout)
    /\ \E S \in SUBSET (active \ EarlierPaid) :
        /\ Cardinality(S) = settings.recipients
        /\ Goto(r, "assign", [NoLocals EXCEPT !.batch = S])
    /\ UNCHANGED <<data, aux>>

\* Deletes every row of the round, paid ones included.
AssignCommit(r) ==
    /\ pc[r] = "assign"
    /\ payout' = Draw(loc[r].batch, draws + 1)
    /\ draws' = draws + 1
    /\ Finish(r)
    /\ UNCHANGED <<cycle, status, collected, group, aux>>

\* A fresh draw.  Whom the plan of the whole cycle leaves out of it is the
\* subject of Cycles: here it may be any active members.
RerollRead(r) ==
    LET n == IF Cardinality(active) < settings.recipients
             THEN Cardinality(active) ELSE settings.recipients IN
    /\ pc[r] = "idle" /\ draws + Cardinality(Requests) <= MaxDraws
    /\ settings.method = "random" /\ settings.recipients > 0
    /\ ~ SomePaid(payout)
    /\ \E S \in SUBSET active :
        /\ Cardinality(S) = n
        /\ Goto(r, "reroll", [NoLocals EXCEPT !.batch = S])
    /\ UNCHANGED <<data, aux>>

\* Deletes the unpaid rows; a member who keeps a paid one cannot get another.
RerollCommit(r) ==
    LET paidTo == {m \in Recipients(payout) : payout[m].paid}
        fresh == Draw(loc[r].batch, draws + 1) IN
    /\ pc[r] = "reroll"
    /\ IF loc[r].batch \cap paidTo = {}
       THEN /\ payout' = [m \in Members |-> IF m \in paidTo THEN payout[m] ELSE fresh[m]]
            /\ draws' = draws + 1
       ELSE UNCHANGED <<payout, draws>>
    /\ Finish(r)
    /\ UNCHANGED <<cycle, status, collected, group, aux>>

-----------------------------------------------------------------------------
(* maybeAdvanceRoundStatus: three reads, then up to two writes decided by  *)
(* what was read; then autoCompleteIfDone.                                 *)

AdvanceReadRound(r) ==
    /\ pc[r] = "advance"
    /\ Goto(r, "advanceRows", [NoLocals EXCEPT !.status = status, !.batch = active])
    /\ UNCHANGED <<data, aux>>

\* Slip: exited members are waited for as well.
AdvanceReadRowsOfAll(r) ==
    /\ pc[r] = "advanceRows"
    /\ Goto(r, "advancePayouts",
            [loc[r] EXCEPT !.batch = {},
                           !.collected = \A m \in Members : ledger[m].status \in Settled])
    /\ UNCHANGED <<data, aux>>

AdvanceReadRows(r) ==
    /\ pc[r] = "advanceRows"
    /\ Goto(r, "advancePayouts",
            [loc[r] EXCEPT !.batch = {},
                           !.collected = \A m \in loc[r].batch : ledger[m].status \in Settled])
    /\ UNCHANGED <<data, aux>>

AdvanceReadPayouts(r) ==
    /\ pc[r] = "advancePayouts"
    /\ Goto(r, "advanceWrite", [loc[r] EXCEPT !.found = PayoutsFound(payout)])
    /\ UNCHANGED <<data, aux>>

Advances(l) == l.status = "pending" /\ l.collected
Completes(l) == l.found = "paid" /\ l.status # "completed"

\* A savings pool has no payouts: the round is complete at once.
AdvancePool(r) ==
    /\ pc[r] = "advanceWrite"
    /\ Advances(loc[r]) /\ loc[r].found = "none"
    /\ status' = "completed"
    /\ Continue(r, "autoComplete")
    /\ UNCHANGED <<collected, aux>> /\ Unchanged

AdvanceCollect(r) ==
    /\ pc[r] = "advanceWrite"
    /\ Advances(loc[r]) /\ loc[r].found # "none"
    /\ status' = "collecting"
    /\ IF Completes(loc[r]) THEN Goto(r, "advancePaid", loc[r]) ELSE Finish(r)
    /\ UNCHANGED <<collected, aux>> /\ Unchanged

AdvanceNothing(r) ==
    /\ pc[r] = "advanceWrite"
    /\ ~ Advances(loc[r]) /\ ~ Completes(loc[r])
    /\ Finish(r)
    /\ UNCHANGED <<data, aux>>

AdvancePaid(r) ==
    /\ \/ pc[r] = "advancePaid"
       \/ pc[r] = "advanceWrite" /\ ~ Advances(loc[r])
    /\ Completes(loc[r])
    /\ status' = "completed"
    /\ Continue(r, "autoComplete")
    /\ UNCHANGED <<collected, aux>> /\ Unchanged

AutoCompleteRead(r) ==
    /\ pc[r] = "autoComplete"
    /\ IF cycle = "in_progress" /\ status = "completed"
       THEN Continue(r, "completeCycle")
       ELSE Finish(r)
    /\ UNCHANGED <<data, aux>>

AutoCompleteWrite(r) ==
    /\ pc[r] = "completeCycle"
    /\ cycle' = "completed"
    /\ Finish(r)
    /\ UNCHANGED <<status, collected, recipients, group, aux>>

-----------------------------------------------------------------------------
(* The cycle, the group and the clock around the round.  The interleavings *)
(* inside these handlers are the subject of other modules.                 *)

StartCycle ==
    /\ cycle = "open"
    /\ cycle' = "in_progress"
    /\ UNCHANGED <<status, collected, recipients, group, inFlight, aux>>

ForceComplete ==
    /\ cycle # "completed"
    /\ cycle' = "completed"
    /\ UNCHANGED <<status, collected, recipients, group, inFlight, aux>>

JoinGroup(m) ==
    /\ m \notin active
    /\ active' = active \cup {m}
    /\ UNCHANGED <<cycle, status, settings, collected, recipients, pastDue, inFlight, aux>>

\* Once the cycle is in progress a member leaves only after a payout in it.
RemoveMember(m) ==
    /\ m \in active \ {Owner}
    /\ cycle = "in_progress" =>
         m \in EarlierPaid \/ (payout[m].draw # 0 /\ payout[m].paid)
    /\ active' = active \ {m}
    /\ unattended' = TRUE
    /\ UNCHANGED <<cycle, status, settings, collected, recipients, pastDue, inFlight, waivers, inTime>>

\* The due date passes, or the owner raises gracePeriodDays, which is not locked.
DueDateMoves ==
    /\ pastDue' = ~ pastDue
    /\ UNCHANGED <<cycle, status, settings, collected, recipients, active, inFlight, aux>>

\* The process stops, or a database call throws: what is committed stays.
Fail(r) ==
    /\ pc[r] # "idle"
    /\ Finish(r)
    /\ unattended' = TRUE
    /\ UNCHANGED <<data, waivers, inTime>>

-----------------------------------------------------------------------------
Begin(r) ==
    \/ \E m \in Members : UploadRead(r, m) \/ RecordRead(r, m) \/ ApproveRead(r, m)
    \/ LateScan(r) \/ PayoutReadPot(r) \/ AssignRead(r) \/ RerollRead(r)

Resume(r) ==
    \/ UploadCreate(r) \/ RecordCommit(r) \/ RecordConflict(r) \/ ApproveCommit(r)
    \/ LateFlip(r)
    \/ PayoutReadRows(r) \/ PayoutCommit(r) \/ PayoutComplete(r)
    \/ AssignCommit(r) \/ RerollCommit(r)
    \/ AdvanceReadRound(r) \/ AdvanceReadRows(r) \/ AdvanceReadPayouts(r)
    \/ AdvancePool(r) \/ AdvanceCollect(r) \/ AdvanceNothing(r) \/ AdvancePaid(r)
    \/ AutoCompleteRead(r) \/ AutoCompleteWrite(r)

Environment ==
    \/ StartCycle \/ ForceComplete \/ DueDateMoves
    \/ \E m \in Members : Waive(m) \/ JoinGroup(m) \/ RemoveMember(m)

Next ==
    \/ \E r \in Requests : Begin(r) \/ Resume(r) \/ Fail(r)
    \/ Environment

Spec == Init /\ [][Next]_vars

\* A handler that has started runs on: the event loop resumes it when its
\* database call returns.  Nobody is obliged to make a request.
Fairness == \A r \in Requests : WF_vars(Resume(r))

FairSpec == Spec /\ Fairness

-----------------------------------------------------------------------------
(* Safety. *)

AllSettled == \A m \in active : ledger[m].status \in Settled

\* r is on its way to advancing the round.
WillAdvance(r) ==
    \/ pc[r] = "advance"
    \/ /\ pc[r] = "advanceRows" /\ loc[r].status = "pending"
       /\ \A m \in loc[r].batch : ledger[m].status \in Settled
    \/ pc[r] \in {"advancePayouts", "advanceWrite"} /\ Advances(loc[r])

\* maybeAdvanceRoundStatus runs after the transaction of each recording and
\* approval.  However the last ones interleave, the round is not left pending
\* with everybody settled, as long as the settlement came from one of them (a
\* waiver, late detection and a removal do not look) and no request died since.
NoLostAdvance ==
    (status = "pending" /\ AllSettled /\ ~ unattended)
        => \E r \in Requests : WillAdvance(r)

\* Recordings and approvals decide by a row read earlier what to add to the
\* total.  Nobody who has paid is left out of it, waivers aside: the total
\* may count a member twice, never less than once.
CollectedCoversRecorded ==
    ~ waivers => total >= Amount * Cardinality({m \in Members : ledger[m].recorded})

\* The payout computes its shares from a total read before the transaction:
\* what the recipients get is in the pot, or the base amount of an empty pot.
PaidWithinPot ==
    settings.method = "queue" =>
        \A m \in Recipients(payout) : payout[m].paid =>
            \/ Cardinality(Recipients(payout)) * payout[m].amount <= total
            \/ payout[m].amount = Amount

\* An upload, a rejection or a stale write of another handler never makes a
\* settled row pending again, and no recording is forgotten.
SettledStaysSettled ==
    [][\A m \in Members :
         /\ ledger[m].status \in Settled => ledger'[m].status \in Settled
         /\ ledger[m].recorded => ledger'[m].recorded]_ledger

-----------------------------------------------------------------------------
(* What holds of handlers that run one after the other. *)

Rank == [pending |-> 0, collecting |-> 1, completed |-> 2]

\* The round goes through its lifecycle in one direction.
StatusMonotone == [][Rank[status'] >= Rank[status]]_status

\* A payout, once recorded, is not replaced, dropped or recorded again with
\* another amount, by an assignment, a new draw or a second recordPayout.
PayoutFinal ==
    [][\A m \in Members :
         payout[m].draw # 0 /\ payout[m].paid => payout'[m] = payout[m]]_payout

(* Liveness, under Fairness. *)

\* Once the recipients are paid the round is completed, unless the request
\* dies between the two statements that do it.
PaidRoundCompletes ==
    (SomePaid(payout) /\ ~ unattended) ~> (status = "completed" \/ unattended)

\* Once a recording or an approval has settled the last active member, the
\* round leaves pending, unless the group changes or the request dies.
SettledRoundAdvances ==
    (status = "pending" /\ AllSettled /\ ~ unattended)
        ~> (status # "pending" \/ ~ AllSettled \/ unattended)

-----------------------------------------------------------------------------
(* What the comments and documents say and the code does not do. *)

\* approveContribution "approves a pending contribution" and increments the
\* total: a contribution counts once.
CountedOnce == total <= Amount * Cardinality({m \in Members : ledger[m].recorded})

\* When all rounds are completed, the cycle automatically moves to completed.
CycleAutoCompletes ==
    ((\A r \in Requests : pc[r] = "idle") /\ ~ unattended /\ status = "completed")
        => cycle # "in_progress"

=============================================================================
