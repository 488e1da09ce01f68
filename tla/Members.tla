------------------------------- MODULE Members -------------------------------
(***************************************************************************)
(* The members of one group: who is active, in which role and at which     *)
(* place of the payout queue (members.service.ts), the settings that bound *)
(* them (updateGroupSettings) and the cycle that depends on both           *)
(* (openCycle, startCycle).                                                *)
(*                                                                         *)
(* A request r in Requests is a handler in flight, already admitted by     *)
(* requireGroupRole: pc[r] names its next database call, loc[r] what it    *)
(* has read.  The transactions of addMember and swapAndUpdate read before  *)
(* they write, so other handlers come between (read committed).            *)
(***************************************************************************)
EXTENDS Integers, FiniteSets, FiniteSetsExt

CONSTANTS
    Users,
    Founder,        \* for whom the group was created
    Requests,
    Capacities,     \* values of maxMembers
    Role,           \* "owner", "member": the treasurer of a group may be
                    \* demoted and removed like any other member
    Places,         \* the positions requests ask for; 0: none
    MaxPosition,    \* bound on payoutPosition
    MaxBegun        \* bound on the requests

ASSUME ConstantsAssumption ==
    /\ Founder \in Users
    /\ IsFiniteSet(Users) /\ IsFiniteSet(Requests)
    /\ Capacities \subseteq Nat \ {0}
    /\ {"owner", "member"} \subseteq Role
    /\ MaxPosition \in Nat \ {0} /\ MaxBegun \in Nat
    /\ Places \subseteq 0 .. MaxPosition

VARIABLES
    member,       \* the group_members row of each user
    maxMembers,
    terms,        \* version of the settings that are locked during a cycle
    cycle,        \* none, open or in_progress
    agreed,       \* the terms the cycle was opened with
    paid,         \* members who have been paid in the cycle
    pc, loc,
    begun,        \* requests so far
    crossed,      \* auxiliary: the topics on which two handlers have been at
                  \* work at once
    placed        \* auxiliary: a position was chosen for a new member, or
                  \* swapped with a row that has exited

rows == member
settings == <<maxMembers, terms>>
round == <<cycle, agreed, paid>>
vars == <<rows, settings, round, pc, loc, begun, crossed, placed>>

Row == [status : {"none", "active", "exited"}, role : Role, position : 0 .. MaxPosition]
NoRow == [status |-> "none", role |-> "member", position |-> 0]

Terms == {1, 2}

Steps == {"idle", "addTx", "addWrite", "swapRead", "swapWrite", "roleWrite",
          "removeWrite", "settingsWrite", "openWrite"}

\* Steps of two handlers that should not overlap, by what they touch.
Topics == [position |-> {"addTx", "addWrite", "swapRead", "swapWrite"},
           seats |-> {"addTx", "addWrite", "settingsWrite"},
           terms |-> {"settingsWrite", "openWrite"}]

Locals == [user : Users, role : Role \cup {"same"},
           position : 0 .. MaxPosition,     \* 0: not given
           found : {"none", "exited"},      \* the row addMember has found
           other : Users,                   \* the occupant; the user: none
           current : 0 .. MaxPosition,
           max : Capacities \cup {0}, terms : Terms \cup {0}]    \* 0: not given

NoLocals == [user |-> Founder, role |-> "same", position |-> 0, found |-> "none",
             other |-> Founder, current |-> 0, max |-> 0, terms |-> 0]

Active == {u \in Users : member[u].status = "active"}
Existing == {u \in Users : member[u].status # "none"}

TypeOK ==
    /\ member \in [Users -> Row]
    /\ \A u \in Existing : member[u].position # 0
    /\ maxMembers \in Capacities /\ terms \in Terms
    /\ cycle \in {"none", "open", "in_progress"}
    /\ agreed \in Terms
    /\ paid \in SUBSET Users
    /\ pc \in [Requests -> Steps]
    /\ loc \in [Requests -> Locals]
    /\ begun \in 0 .. MaxBegun
    /\ crossed \in SUBSET (DOMAIN Topics \cup {"exit"})
    /\ placed \in BOOLEAN

\* createGroupFromToken makes the founder its owner, at the first place.
Init ==
    /\ member = [u \in Users |->
                    IF u = Founder THEN [status |-> "active", role |-> "owner", position |-> 1] ELSE NoRow]
    /\ maxMembers \in Capacities /\ terms = 1
    /\ cycle = "none" /\ agreed = 1 /\ paid = {}
    /\ pc = [r \in Requests |-> "idle"]
    /\ loc = [r \in Requests |-> NoLocals]
    /\ begun = 0 /\ crossed = {} /\ placed = FALSE

CycleActive == cycle # "none"

Goto(r, step, l) ==
    /\ pc' = [pc EXCEPT ![r] = step]
    /\ loc' = [loc EXCEPT ![r] = l]
    /\ crossed' = crossed \cup {t \in DOMAIN Topics :
                     step \in Topics[t] /\ \E q \in Requests \ {r} : pc[q] \in Topics[t]}

Start(r, step, l) ==
    /\ pc[r] = "idle" /\ begun < MaxBegun
    /\ begun' = begun + 1
    /\ Goto(r, step, l)

Finish(r) == Goto(r, "idle", NoLocals) /\ UNCHANGED begun

-----------------------------------------------------------------------------
(* addMember: capacity, then a transaction. *)

\* Slip: the limit itself is let pass.
RoomForOneMore == Cardinality(Active) <= maxMembers

Room == Cardinality(Active) < maxMembers

AddRead(r, u, role, position) ==
    /\ Room
    /\ Start(r, "addTx", [NoLocals EXCEPT !.user = u, !.role = role, !.position = position])
    /\ placed' = (placed \/ position # 0)
    /\ UNCHANGED <<rows, settings, round>>

NextPosition == Max({member[u].position : u \in Active}) + 1

Place(r) == IF loc[r].position = 0 THEN NextPosition ELSE loc[r].position

AddTx(r) ==
    LET u == loc[r].user IN
    /\ pc[r] = "addTx"
    /\ IF u \in Active THEN Finish(r)
       ELSE /\ Place(r) <= MaxPosition
            /\ Goto(r, "addWrite", [loc[r] EXCEPT !.position = Place(r), !.found = member[u].status])
            /\ UNCHANGED begun
    /\ UNCHANGED <<rows, settings, round, placed>>

\* A new row, which the unique key refuses if there is one by now, or the row
\* of a member who has left, whatever it says by now.
AddWrite(r) ==
    LET u == loc[r].user IN
    /\ pc[r] = "addWrite"
    /\ IF loc[r].found = "none" /\ u \in Existing THEN UNCHANGED rows
       ELSE member' = [member EXCEPT ![u] =
                         [status |-> "active", role |-> loc[r].role, position |-> loc[r].position]]
    /\ Finish(r)
    /\ UNCHANGED <<settings, round, placed>>

-----------------------------------------------------------------------------
(* updateMember, of any row there is. *)

DemotesOwner(u, role) == member[u].role = "owner" /\ role \notin {"same", "owner"}

UpdateRead(r, u, role, position) ==
    /\ u \in Existing /\ ~ DemotesOwner(u, role)
    /\ IF position \notin {0, member[u].position}
       THEN Start(r, "swapRead", [NoLocals EXCEPT !.user = u, !.role = role, !.position = position])
       ELSE role # "same" /\ Start(r, "roleWrite", [NoLocals EXCEPT !.user = u, !.role = role])
    /\ UNCHANGED <<rows, settings, round, placed>>

RoleWrite(r) ==
    /\ pc[r] = "roleWrite"
    /\ member' = [member EXCEPT ![loc[r].user].role = loc[r].role]
    /\ Finish(r)
    /\ UNCHANGED <<settings, round, placed>>

\* The first occupant the database finds, who may have left the group.
SwapRead(r) ==
    LET u == loc[r].user
        occupants == {v \in Existing \ {u} : member[v].position = loc[r].position} IN
    /\ pc[r] = "swapRead"
    /\ \E v \in (IF occupants = {} THEN {u} ELSE occupants) :
        /\ Goto(r, "swapWrite", [loc[r] EXCEPT !.other = v, !.current = member[u].position])
        /\ placed' = (placed \/ {u, v} \ Active # {})
    /\ UNCHANGED <<rows, settings, round, begun>>

NewRole(r) == IF loc[r].role = "same" THEN member[loc[r].user].role ELSE loc[r].role

\* Slip: the occupant keeps the place.
SwapWriteOne(r) ==
    /\ pc[r] = "swapWrite"
    /\ member' = [member EXCEPT ![loc[r].user].position = loc[r].position, ![loc[r].user].role = NewRole(r)]
    /\ Finish(r)
    /\ UNCHANGED <<settings, round, placed>>

SwapWrite(r) ==
    /\ pc[r] = "swapWrite"
    /\ member' = [member EXCEPT ![loc[r].other].position = loc[r].current,
                                ![loc[r].user].position = loc[r].position,
                                ![loc[r].user].role = NewRole(r)]
    /\ Finish(r)
    /\ UNCHANGED <<settings, round, placed>>

-----------------------------------------------------------------------------
(* removeMember. *)

\* Slip: in a cycle nobody has to have been paid.
MayLeaveAnyTime(u) == TRUE

MayLeave(u) == cycle = "in_progress" => u \in paid

RemoveRead(r, u) ==
    /\ u \in Existing /\ member[u].role # "owner" /\ MayLeave(u)
    /\ Start(r, "removeWrite", [NoLocals EXCEPT !.user = u])
    /\ UNCHANGED <<rows, settings, round, placed>>

RemoveWrite(r) ==
    /\ pc[r] = "removeWrite"
    /\ member' = [member EXCEPT ![loc[r].user].status = "exited"]
    /\ Finish(r)
    /\ UNCHANGED <<settings, round, placed>>

-----------------------------------------------------------------------------
(* updateGroupSettings, and the cycle. *)

\* Slip: settings are locked once the cycle has been started.
LockedWhenStarted == cycle = "in_progress"

Locked == CycleActive

\* Contribution amount, frequency, recipients and method make up the terms;
\* what a request does not give stays as it is.
SettingsRead(r, max, t) ==
    /\ Locked => max \in {0, maxMembers} /\ t \in {0, terms}
    /\ Start(r, "settingsWrite", [NoLocals EXCEPT !.max = max, !.terms = t])
    /\ UNCHANGED <<rows, settings, round, placed>>

SettingsWrite(r) ==
    /\ pc[r] = "settingsWrite"
    /\ maxMembers' = (IF loc[r].max = 0 THEN maxMembers ELSE loc[r].max)
    /\ terms' = (IF loc[r].terms = 0 THEN terms ELSE loc[r].terms)
    /\ Finish(r)
    /\ UNCHANGED <<rows, round, placed>>

\* That two cycles may be opened at once is the subject of Cycles: here one
\* request at a time opens one.
OpenRead(r) ==
    /\ ~ CycleActive
    /\ \A q \in Requests : pc[q] # "openWrite"
    /\ Start(r, "openWrite", [NoLocals EXCEPT !.terms = terms])
    /\ UNCHANGED <<rows, settings, round, placed>>

OpenWrite(r) ==
    /\ pc[r] = "openWrite"
    /\ cycle' = "open" /\ agreed' = loc[r].terms /\ paid' = {}
    /\ Finish(r)
    /\ UNCHANGED <<rows, settings, placed>>

StartCycle ==
    /\ cycle = "open"
    /\ cycle' = "in_progress"
    /\ crossed' = crossed \cup {t \in {"exit"} : \E r \in Requests : pc[r] = "removeWrite"}
    /\ UNCHANGED <<rows, settings, agreed, paid, pc, loc, begun, placed>>

PayOut(u) ==
    /\ cycle = "in_progress" /\ u \in Existing \ paid
    /\ paid' = paid \cup {u}
    /\ UNCHANGED <<rows, settings, cycle, agreed, pc, loc, begun, crossed, placed>>

CompleteCycle ==
    /\ CycleActive
    /\ cycle' = "none" /\ paid' = {} /\ agreed' = 1
    /\ UNCHANGED <<rows, settings, pc, loc, begun, crossed, placed>>

\* The process stops, or a database call throws.
Fail(r) ==
    /\ pc[r] # "idle"
    /\ Finish(r)
    /\ UNCHANGED <<rows, settings, round, placed>>

Begin(r) ==
    \/ \E u \in Users, role \in Role, position \in Places : AddRead(r, u, role, position)
    \/ \E u \in Users, role \in Role \cup {"same"}, position \in Places :
          UpdateRead(r, u, role, position)
    \/ \E u \in Users : RemoveRead(r, u)
    \/ \E max \in Capacities \cup {0}, t \in Terms \cup {0} : SettingsRead(r, max, t)
    \/ OpenRead(r)

Resume(r) ==
    \/ AddTx(r) \/ AddWrite(r)
    \/ RoleWrite(r) \/ SwapRead(r) \/ SwapWrite(r)
    \/ RemoveWrite(r) \/ SettingsWrite(r) \/ OpenWrite(r)

Environment ==
    \/ StartCycle \/ CompleteCycle
    \/ \E u \in Users : PayOut(u)

Next == (\E r \in Requests : Begin(r) \/ Resume(r) \/ Fail(r)) \/ Environment

Spec == Init /\ [][Next]_vars

-----------------------------------------------------------------------------
(* Properties                                                                *)

\* The founder cannot be removed or demoted, whatever requests cross, so that
\* every group keeps somebody who may run it (updateMember, removeMember).
FounderStays == member[Founder].status = "active" /\ member[Founder].role = "owner"

\* A group grows past maxMembers only if additions or a change of the settings
\* cross (addMember checks before its transaction).
CapacityRespected ==
    [][Cardinality(Active') > Cardinality(Active) /\ "seats" \notin crossed
        => Cardinality(Active) < maxMembers]_vars

\* Two active members share a place of the queue only if additions and swaps
\* cross, a place was chosen for a new member, or it was swapped with a row
\* that has exited (addMember, swapAndUpdate).
PositionsDistinct ==
    "position" \notin crossed /\ ~ placed =>
        \A u, v \in Active : member[u].position = member[v].position => u = v

\* While a cycle runs nobody leaves before being paid, unless the start of the
\* cycle came between check and write (removeMember).
LeavesPaid ==
    [][\A u \in Active \ Active' :
        cycle = "in_progress" /\ "exit" \notin crossed => u \in paid]_vars

\* The settings a cycle was opened with stay as they are until it is complete,
\* unless a change crosses its opening (updateGroupSettings, openCycle).
TermsLocked == CycleActive /\ "terms" \notin crossed => terms = agreed

=============================================================================
