------------------------------- MODULE Reports -------------------------------
(***************************************************************************)
(* What the reports and the reminders say of a round: sums and lists over  *)
(* the rows of RoundLedger, as reports.service.ts and                      *)
(* contributionReminders.ts compute them at the moment they read.  The     *)
(* other rounds of the cycle add to the sums and change nothing here.      *)
(***************************************************************************)
EXTENDS RoundLedger, FiniteSetsExt

\* What is contributed, in the summary and in the statement of a member.
Counts(m) == ledger[m].status \in {"paid", "late"}

\* totalReceivedNgwe of a member.
Received(m) == IF payout[m].paid THEN payout[m].amount ELSE 0

\* collectedNgwe and paidOutNgwe of the round.
SummaryCollected == Amount * Cardinality({m \in Members : Counts(m)})
SummaryPaidOut == MapThenSumSet(Received, Recipients(payout))

\* Whose contribution is still asked for; nobody's once the round is completed.
Outstanding ==
    IF status = "completed" THEN {}
    ELSE {m \in active : ledger[m].status \in {"none", "pending", "late"}}

\* Who is reminded before the due date: a waived row does not count as paid.
ReminderTargets ==
    IF cycle # "in_progress" \/ status = "completed" THEN {}
    ELSE {m \in active : ledger[m].status # "paid"}

payoutRoundStatus ==
    LET paid == {m \in Recipients(payout) : payout[m].paid} IN
    IF Recipients(payout) = {} THEN "Recipients not set"
    ELSE IF paid = Recipients(payout) \/ status = "completed" THEN "Paid"
    ELSE IF paid # {} THEN "Partial"
    ELSE "Awaiting payment"

-----------------------------------------------------------------------------
(* Properties                                                                *)

\* The summary of the round misses no contribution that was recorded, waivers
\* aside.
SummaryIsComplete ==
    ~ waivers => SummaryCollected >= Amount * Cardinality({m \in Members : ledger[m].recorded})

\* Who has paid in time is not asked or reminded to pay.  Excepted in inTime:
\* rows that were waived since, and rows that another handler (late detection, or
\* a recording or approval begun after the due date) was about to make late
\* when they were paid: it does so, and the member is asked again.
PaidInTimeIsNotDunned == inTime \cap (Outstanding \cup ReminderTargets) = {}

\* The payout ledger says Paid only of recipients who are, in a group that pays
\* out in queue order: a completed round counts as paid whatever its rows say.
\* (A contribution may be set to nothing.)
PaidIsPaid ==
    settings.method = "queue" /\ payoutRoundStatus = "Paid" =>
        /\ \A m \in Recipients(payout) : payout[m].paid
        /\ Amount > 0 => SummaryPaidOut > 0

\* Whatever handlers cross, the reports of a round tell what was paid in and
\* out (getCycleSummary, getMemberStatement, getOutstandingContributions,
\* getPayoutLedger, runContributionReminders).
ReportsAreTrue == SummaryIsComplete /\ PaidInTimeIsNotDunned /\ PaidIsPaid

\* What docs/product-specs/reports.md:9 says: listed is who has not paid.
OutstandingHaveNotPaid == \A m \in Outstanding : ~ ledger[m].recorded

=============================================================================
