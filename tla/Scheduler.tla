------------------------------ MODULE Scheduler ------------------------------
(***************************************************************************)
(* lib/cycleScheduler.ts: how many rounds a cycle has and who receives in  *)
(* each.  order is the sequence of active members by payoutPosition, count *)
(* is payoutRecipientsCount.  Due dates are left out; a random draw is any *)
(* of its outcomes.                                                        *)
(***************************************************************************)
EXTENDS Integers, Sequences, FiniteSets

PayoutMethod == {"queue", "random", "manual"}

Everyone(order) == {order[i] : i \in 1 .. Len(order)}

RoundsCount(n, count) ==
    IF count <= 0 THEN n ELSE (n + count - 1) \div count

\* Slip: the queue does not wrap around.
QueueRecipientsCut(order, count, round) ==
    {order[i] : i \in {j \in 1 .. Len(order) :
                         (round - 1) * count < j /\ j <= round * count /\ j < Len(order)}}

\* Recipients of a round follow those of the round before, wrapping around.
QueueRecipients(order, count, round) ==
    {order[(((round - 1) * count + i) % Len(order)) + 1] : i \in 0 .. count - 1}

\* Slip: a member drawn already may be drawn again while others wait.
RandomSourceAll(order, count, assigned) == Everyone(order)

\* Those not assigned yet, unless too few are left.
RandomSource(order, count, assigned) ==
    LET pool == Everyone(order) \ assigned IN
    IF Cardinality(pool) >= count THEN pool ELSE Everyone(order)

RandomDraws(order, count, assigned) ==
    LET source == RandomSource(order, count, assigned)
        n == IF count < Cardinality(source) THEN count ELSE Cardinality(source) IN
    {S \in SUBSET source : Cardinality(S) = n}

AssignedBefore(plan, round, previously) == previously \cup UNION {plan[j] : j \in 1 .. round - 1}

\* The plans generateRounds may return, given members assigned previously.
GenerateRounds(order, count, method, previously) ==
    LET rounds == 1 .. RoundsCount(Len(order), count) IN
    CASE count <= 0 \/ method = "manual" -> {[i \in rounds |-> {}]}
      [] count > 0 /\ method = "queue" -> {[i \in rounds |-> QueueRecipients(order, count, i)]}
      [] count > 0 /\ method = "random" ->
            {plan \in [rounds -> SUBSET Everyone(order)] : \A i \in rounds :
                plan[i] \in RandomDraws(order, count, AssignedBefore(plan, i, previously))}

-----------------------------------------------------------------------------
Payouts(plan, m, i) == Cardinality({j \in 1 .. i : m \in plan[j]})

\* In a queue each member is paid out at least once before anyone is a second
\* time (the comment in pickRecipients), and nobody is more than twice.
QueueIsFair(order, count) ==
    \A plan \in GenerateRounds(order, count, "queue", {}), m, n \in Everyone(order) :
        /\ \A i \in DOMAIN plan : Payouts(plan, m, i) > 1 => Payouts(plan, n, i) > 0
        /\ Payouts(plan, m, Len(plan)) \in 1 .. 2

\* A draw for a whole cycle repeats nobody before the last round, and leaves
\* out fewer members than one round has recipients.
RandomSpreads(order, count) ==
    \A plan \in GenerateRounds(order, count, "random", {}) :
        /\ \A m \in Everyone(order) : Payouts(plan, m, Len(plan) - 1) <= 1
        /\ Cardinality({m \in Everyone(order) : Payouts(plan, m, Len(plan)) = 0}) < count

=============================================================================
