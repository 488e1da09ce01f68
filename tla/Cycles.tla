------------------------------- MODULE Cycles --------------------------------
(***************************************************************************)
(* The cycles of one group (cycles.service.ts): opening with the rounds    *)
(* planned by the Scheduler, starting, completing by hand or when the last *)
(* round completes, and opening the next one automatically.                *)
(*                                                                         *)
(* A request r in Requests is a handler in flight: pc[r] names the next    *)
(* database call, loc[r] what it has read.  What happens inside a round    *)
(* is RoundLedger's subject: here a round is done or not.                  *)
(***************************************************************************)
EXTENDS Scheduler

CONSTANTS
    Orders,        \* the queues of active members the group may have
    Lines,         \* queues for which the plans are compared
    GroupSettings, \* the settings it may have
    Requests,
    MaxCycles      \* bound on the cycles opened

ASSUME ConstantsAssumption ==
    /\ \A o \in Orders : o \in Seq(Everyone(o))
    /\ \A line \in Lines :
          /\ line \in Seq(Everyone(line))
          /\ \A i, j \in DOMAIN line : line[i] = line[j] => i = j
    /\ GroupSettings \subseteq [method : PayoutMethod, recipients : Nat, autoOpen : BOOLEAN]
    /\ MaxCycles \in Nat

Numbers == 1 .. MaxCycles

VARIABLES
    status,      \* CycleStatus of each cycle, "none" before it is created
    rounds,      \* how many rounds each cycle has
    done,        \* rounds of each cycle that are completed
    plan,        \* recipients of each round of the cycle created last
    order,       \* active members by payoutPosition
    settings,    \* the group's settings
    pc, loc,
    crossed,     \* auxiliary: two openings, or a start and a completion of one
                 \* cycle, have been between read and write at the same time
    orphaned     \* auxiliary: cycles whose last call to autoCompleteIfDone came
                 \* before they were started, or died

cycles == <<status, rounds, done, plan>>
group == <<order, settings>>
vars == <<cycles, group, pc, loc, crossed, orphaned>>

Contract == INSTANCE CycleContract

Active == Contract!Active

Steps == {"idle", "open", "check", "number", "create", "start", "complete", "autoComplete"}

Locals == [cycle : 0 .. MaxCycles, order : Orders, settings : GroupSettings, autoOpen : BOOLEAN]

NoLocals == [cycle |-> 0, order |-> CHOOSE o \in Orders : TRUE,
             settings |-> CHOOSE s \in GroupSettings : TRUE, autoOpen |-> FALSE]

LastCycle == Cardinality({c \in Numbers : status[c] # "none"})

TypeOK ==
    /\ status \in [Numbers -> {"none", "open", "in_progress", "completed"}]
    /\ rounds \in [Numbers -> Nat]
    /\ done \in [Numbers -> SUBSET Nat]
    /\ IF LastCycle = 0 THEN plan = <<>> ELSE DOMAIN plan = 1 .. rounds[LastCycle]
    /\ order \in Orders
    /\ settings \in GroupSettings
    /\ pc \in [Requests -> Steps]
    /\ loc \in [Requests -> Locals]
    /\ crossed \in BOOLEAN
    /\ orphaned \in SUBSET Numbers

Init ==
    /\ status = [c \in Numbers |-> "none"]
    /\ rounds = [c \in Numbers |-> 0]
    /\ done = [c \in Numbers |-> {}]
    /\ plan = <<>>
    /\ order \in Orders
    /\ settings \in GroupSettings
    /\ pc = [r \in Requests |-> "idle"]
    /\ loc = [r \in Requests |-> NoLocals]
    /\ crossed = FALSE
    /\ orphaned = {}

-----------------------------------------------------------------------------
Goto(r, step, l) ==
    /\ pc' = [pc EXCEPT ![r] = step]
    /\ loc' = [loc EXCEPT ![r] = l]

Finish(r) == Goto(r, "idle", NoLocals)

OpenRequest(r) ==
    /\ pc[r] = "idle"
    /\ Goto(r, "open", NoLocals)
    /\ UNCHANGED <<cycles, group, crossed, orphaned>>

(* openCycleInternal, of an openCycle request or after a completion; there a *)
(* refusal is logged and swallowed.                                          *)

OpenRead(r) ==
    /\ pc[r] = "open"
    /\ IF order # <<>> /\ Len(order) >= settings.recipients
       THEN Goto(r, "check", [NoLocals EXCEPT !.order = order, !.settings = settings])
       ELSE Finish(r)
    /\ UNCHANGED <<cycles, group, crossed, orphaned>>

\* Slip: an open cycle is no obstacle.
OpenCheckStarted(r) ==
    /\ pc[r] = "check"
    /\ IF \A c \in Numbers : status[c] # "in_progress" THEN Goto(r, "number", loc[r]) ELSE Finish(r)
    /\ crossed' = (crossed \/ \E q \in Requests \ {r} : pc[q] \in {"number", "create"})
    /\ UNCHANGED <<cycles, group, orphaned>>

OpenCheck(r) ==
    /\ pc[r] = "check"
    /\ IF Active = {}
       THEN /\ Goto(r, "number", loc[r])
            /\ crossed' = (crossed \/ \E q \in Requests \ {r} : pc[q] \in {"number", "create"})
       ELSE Finish(r) /\ UNCHANGED crossed
    /\ UNCHANGED <<cycles, group, orphaned>>

\* The highest number, read apart from the check, plus one; past MaxCycles the
\* model stops.
OpenNumber(r) ==
    /\ pc[r] = "number"
    /\ \E c \in Numbers :
        /\ \A b \in Numbers : status[b] # "none" <=> b < c
        /\ Goto(r, "create", [loc[r] EXCEPT !.cycle = c])
    /\ UNCHANGED <<cycles, group, crossed, orphaned>>

\* One transaction; (group, cycleNumber) is unique.
OpenCreate(r) ==
    LET c == loc[r].cycle
        given == loc[r].settings IN
    /\ pc[r] = "create"
    /\ IF status[c] = "none"
       THEN \E p \in GenerateRounds(loc[r].order, given.recipients, given.method, {}) :
              /\ status' = [status EXCEPT ![c] = "open"]
              /\ rounds' = [rounds EXCEPT ![c] = Cardinality(DOMAIN p)]
              /\ plan' = p
       ELSE UNCHANGED <<status, rounds, plan>>
    /\ Finish(r)
    /\ UNCHANGED <<done, group, crossed, orphaned>>

-----------------------------------------------------------------------------
Crosses(r, c, step) == \E q \in Requests \ {r} : pc[q] = step /\ loc[q].cycle = c

StartRead(r, c) ==
    /\ pc[r] = "idle"
    /\ status[c] = "open"
    /\ Goto(r, "start", [NoLocals EXCEPT !.cycle = c])
    /\ crossed' = (crossed \/ Crosses(r, c, "complete"))
    /\ UNCHANGED <<cycles, group, orphaned>>

\* By id, whatever the status is by now.
StartWrite(r) ==
    /\ pc[r] = "start"
    /\ status' = [status EXCEPT ![loc[r].cycle] = "in_progress"]
    /\ Finish(r)
    /\ UNCHANGED <<rounds, done, plan, group, crossed, orphaned>>

CompleteRead(r, c) ==
    /\ pc[r] = "idle"
    /\ c \in Active
    /\ Goto(r, "complete", [NoLocals EXCEPT !.cycle = c, !.autoOpen = settings.autoOpen])
    /\ crossed' = (crossed \/ Crosses(r, c, "start"))
    /\ UNCHANGED <<cycles, group, orphaned>>

\* notifyCycleCompleted goes on to open the next cycle.
CompleteWrite(r) ==
    /\ pc[r] = "complete"
    /\ status' = [status EXCEPT ![loc[r].cycle] = "completed"]
    /\ IF loc[r].autoOpen THEN Goto(r, "open", NoLocals) ELSE Finish(r)
    /\ UNCHANGED <<rounds, done, plan, group, crossed, orphaned>>

-----------------------------------------------------------------------------
\* Slip: the caller does not look at the cycle.
RoundDoneAlone(r, c) ==
    /\ pc[r] = "idle"
    /\ \E i \in (1 .. rounds[c]) \ done[c] : done' = [done EXCEPT ![c] = @ \cup {i}]
    /\ UNCHANGED <<status, rounds, plan, group, pc, loc, crossed, orphaned>>

\* A handler of RoundLedger completes a round, in a cycle of any status, and
\* then calls autoCompleteIfDone.
RoundDone(r, c) ==
    /\ pc[r] = "idle"
    /\ \E i \in (1 .. rounds[c]) \ done[c] : done' = [done EXCEPT ![c] = @ \cup {i}]
    /\ Goto(r, "autoComplete", [NoLocals EXCEPT !.cycle = c])
    /\ orphaned' = orphaned \ {c}
    /\ UNCHANGED <<status, rounds, plan, group, crossed>>

AllDone(c) == rounds[c] > 0 /\ done[c] = 1 .. rounds[c]

AutoCompleteRead(r) ==
    LET c == loc[r].cycle IN
    /\ pc[r] = "autoComplete"
    /\ IF status[c] = "in_progress" /\ AllDone(c)
       THEN /\ Goto(r, "complete", [loc[r] EXCEPT !.autoOpen = settings.autoOpen])
            /\ crossed' = (crossed \/ Crosses(r, c, "start"))
            /\ UNCHANGED orphaned
       ELSE /\ Finish(r)
            /\ orphaned' = IF status[c] = "in_progress" THEN orphaned ELSE orphaned \cup {c}
            /\ UNCHANGED crossed
    /\ UNCHANGED <<cycles, group>>

-----------------------------------------------------------------------------
\* rerollRandomPayouts, of a round not yet paid out: a new plan is drawn for
\* the whole cycle and its entry for this round is kept.
RerollRound(i) ==
    LET earlier == UNION {plan[j] : j \in 1 .. i - 1} IN
    /\ i \in DOMAIN plan \ done[LastCycle]
    /\ settings.method = "random" /\ settings.recipients > 0
    /\ \E p \in GenerateRounds(order, settings.recipients, "random", earlier) :
        /\ i \in DOMAIN p
        /\ plan' = [plan EXCEPT ![i] = p[i]]
    /\ UNCHANGED <<status, rounds, done, group, pc, loc, crossed, orphaned>>

\* Members join, leave and swap positions.
OrderChanges ==
    /\ \E o \in Orders \ {order} : order' = o
    /\ UNCHANGED <<cycles, settings, pc, loc, crossed, orphaned>>

\* Method and recipients are locked while a cycle is active, autoOpen is not.
SettingsChange ==
    /\ \E s \in GroupSettings \ {settings} :
        /\ Active # {} => s.method = settings.method /\ s.recipients = settings.recipients
        /\ settings' = s
    /\ UNCHANGED <<cycles, order, pc, loc, crossed, orphaned>>

\* The process stops, or a call fails, as it does for a suspended group.
Fail(r) ==
    /\ pc[r] # "idle"
    /\ Finish(r)
    /\ orphaned' = IF pc[r] \in {"autoComplete", "complete"} THEN orphaned \cup {loc[r].cycle}
                   ELSE orphaned
    /\ UNCHANGED <<cycles, group, crossed>>

-----------------------------------------------------------------------------
Begin(r) ==
    \/ OpenRequest(r)
    \/ \E c \in Numbers : StartRead(r, c) \/ CompleteRead(r, c) \/ RoundDone(r, c)

Resume(r) ==
    \/ OpenRead(r) \/ OpenCheck(r) \/ OpenNumber(r) \/ OpenCreate(r)
    \/ StartWrite(r) \/ CompleteWrite(r) \/ AutoCompleteRead(r)

Environment ==
    \/ OrderChanges \/ SettingsChange
    \/ \E i \in DOMAIN plan : RerollRound(i)

Next == (\E r \in Requests : Begin(r) \/ Resume(r) \/ Fail(r)) \/ Environment

Spec == Init /\ [][Next]_vars

-----------------------------------------------------------------------------
(* Properties                                                                *)

\* Requests of the group that do not cross implement the promised life of its
\* cycles: one at a time, in number order, and never back from completed,
\* whatever fails in between and whoever completes a cycle.
ContractUnlessCrossed == Contract!Init /\ [][crossed' \/ Contract!Next]_status

\* A cycle whose rounds are all completed does not stay in progress unnoticed:
\* some handler is about to see to it (contributions.service.ts, payouts.service.ts
\* call autoCompleteIfDone), unless the last to look died or looked before
\* the cycle was started.
NoLostCompletion ==
    \A c \in Numbers :
        status[c] = "in_progress" /\ AllDone(c) /\ c \notin orphaned /\ ~ crossed =>
            \E r \in Requests : pc[r] \in {"autoComplete", "complete"} /\ loc[r].cycle = c

\* The plans do not depend on the state: they are evaluated before the first
\* request only.
Untouched == \A c \in Numbers, r \in Requests : status[c] = "none" /\ pc[r] = "idle"

\* The queues of all groups openCycle accepts are fair: a round has no more
\* recipients than the queue members (generateRounds).
QueuesAreFair == Untouched => \A line \in Lines : \A n \in 1 .. Len(line) : QueueIsFair(line, n)

\* The draws for all groups openCycle accepts are spread over the members
\* (generateRounds).  Bound: there are not too many of them to enumerate.
RandomDrawsSpread ==
    Untouched =>
        \A line \in Lines : \A n \in 1 .. Len(line) : Len(line) <= n + 3 => RandomSpreads(line, n)

\* docs/product-specs/cycles.md: "Only one cycle can be in_progress at a time".
OneInProgress ==
    \A b, c \in Numbers : status[b] = "in_progress" /\ status[c] = "in_progress" => b = c

\* docs/product-specs/cycles.md: a random recipient is "randomly selected from
\* members who haven't received payout this cycle", as long as there is one.
DrawsTheUnpaid ==
    LET received(i, c) == UNION {plan[j] : j \in done[c] \cap 1 .. i - 1} IN
    \A i \in DOMAIN plan :
        plan'[i] = plan[i] \/ LastCycle' # LastCycle
            \/ plan'[i] \cap received(i, LastCycle) = {}
            \/ Everyone(order) \subseteq received(i, LastCycle) \cup plan'[i]

RandomDrawsTheUnpaid == [][DrawsTheUnpaid]_vars

=============================================================================
