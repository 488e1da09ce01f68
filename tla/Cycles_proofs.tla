---------------------------- MODULE Cycles_proofs ----------------------------
(***************************************************************************)
(* Proofs about the cycles of one group, for any queues, settings, number  *)
(* of cycles and requests in flight.                                       *)
(*                                                                         *)
(* Four invariants are proved one on top of the other: the types; that the *)
(* cycles there are have the numbers 1 .. k (Gapless), which no crossing   *)
(* of requests can break; what requests that do not cross may rely on      *)
(* (Steady), from which every step maps to a step of CycleContract; and    *)
(* that a finished cycle has a handler to complete it (Attended).  The     *)
(* last two sections are about the Scheduler: the queue of every group is  *)
(* fair, and the random draws of every group are spread over its members.  *)
(***************************************************************************)
EXTENDS Cycles, FiniteSetTheorems, WellFoundedInduction, TLAPS

-----------------------------------------------------------------------------
(* Types                                                                     *)

\* The type invariant but for the length of the plan, which needs Gapless.
Types ==
    /\ status \in [Numbers -> {"none", "open", "in_progress", "completed"}]
    /\ rounds \in [Numbers -> Nat]
    /\ done \in [Numbers -> SUBSET Nat]
    /\ order \in Orders
    /\ settings \in GroupSettings
    /\ pc \in [Requests -> Steps]
    /\ loc \in [Requests -> Locals]
    /\ crossed \in BOOLEAN
    /\ orphaned \in SUBSET Numbers

\* What each step has read: the cycle its write is about.
Aimed ==
    \A r \in Requests :
        pc[r] \in {"create", "start", "complete", "autoComplete"} => loc[r].cycle \in Numbers

\* generateRounds plans RoundsCount rounds, numbered from 1.
LEMMA PlannedRounds ==
    ASSUME NEW o \in Orders, NEW s \in GroupSettings,
           NEW p \in GenerateRounds(o, s.recipients, s.method, {})
    PROVE  /\ Cardinality(DOMAIN p) \in Nat
           /\ DOMAIN p = 1 .. Cardinality(DOMAIN p)
<1> DEFINE n == RoundsCount(Len(o), s.recipients)
<1>1. Len(o) \in Nat
  BY ConstantsAssumption
<1>2. s.recipients \in Nat /\ s.method \in PayoutMethod
  BY ConstantsAssumption
<1>3. n \in Nat
  BY <1>1, <1>2 DEF RoundsCount
<1>4. DOMAIN p = 1 .. n
  <2>1. CASE s.recipients <= 0 \/ s.method = "manual"
    BY <2>1, <1>2 DEF GenerateRounds, PayoutMethod
  <2>2. CASE s.recipients > 0 /\ s.method = "queue"
    BY <2>2, <1>2 DEF GenerateRounds, PayoutMethod
  <2>3. CASE s.recipients > 0 /\ s.method = "random"
    BY <2>3, <1>2 DEF GenerateRounds, PayoutMethod
  <2> QED
    BY <2>1, <2>2, <2>3, <1>2 DEF PayoutMethod
<1>5. Cardinality(1 .. n) = n
  BY <1>3, FS_Interval
<1> QED
  BY <1>3, <1>4, <1>5

LEMMA NoLocalsOK ==
    ASSUME Types
    PROVE  /\ NoLocals \in Locals
           /\ \A c \in Numbers, b \in BOOLEAN :
                 /\ [NoLocals EXCEPT !.cycle = c] \in Locals
                 /\ [NoLocals EXCEPT !.cycle = c, !.autoOpen = b] \in Locals
           /\ \A o \in Orders, s \in GroupSettings :
                 [NoLocals EXCEPT !.order = o, !.settings = s] \in Locals
<1>1. (CHOOSE o \in Orders : TRUE) \in Orders /\ (CHOOSE s \in GroupSettings : TRUE) \in GroupSettings
  BY DEF Types
<1>2. 0 \in 0 .. MaxCycles /\ \A c \in Numbers : c \in 0 .. MaxCycles
  BY ConstantsAssumption DEF Numbers
<1> QED
  BY <1>1, <1>2 DEF NoLocals, Locals

LEMMA GotoTypes ==
    ASSUME Types, NEW r \in Requests, NEW step \in Steps, NEW l \in Locals, Goto(r, step, l)
    PROVE  pc' \in [Requests -> Steps] /\ loc' \in [Requests -> Locals]
BY DEF Types, Goto

LEMMA GotoAims ==
    ASSUME Types, Aimed, NEW r \in Requests, NEW step \in Steps, NEW l \in Locals, Goto(r, step, l),
           step \in {"create", "start", "complete", "autoComplete"} => l.cycle \in Numbers
    PROVE  Aimed'
BY DEF Types, Aimed, Goto

LEMMA FinishKeeps ==
    ASSUME Types, Aimed, NEW r \in Requests, Finish(r)
    PROVE  pc' \in [Requests -> Steps] /\ loc' \in [Requests -> Locals] /\ Aimed'
<1>1. NoLocals \in Locals /\ Goto(r, "idle", NoLocals)
  BY NoLocalsOK DEF Finish
<1>2. "idle" \in Steps
  BY DEF Steps
<1> QED
  BY <1>1, <1>2, GotoTypes, GotoAims

\* OpenCreate creates the cycle with as many rounds as its plan has, unless the
\* number is taken.
LEMMA Creates ==
    ASSUME Types, Aimed, NEW r \in Requests, OpenCreate(r)
    PROVE  LET c == loc[r].cycle IN
           /\ c \in Numbers /\ pc[r] = "create" /\ Finish(r)
           /\ UNCHANGED <<done, order, settings, crossed, orphaned>>
           /\ \/ /\ status[c] = "none"
                 /\ \E n \in Nat : /\ status' = [status EXCEPT ![c] = "open"]
                                  /\ rounds' = [rounds EXCEPT ![c] = n]
                                  /\ DOMAIN plan' = 1 .. n
              \/ status[c] # "none" /\ UNCHANGED <<status, rounds, plan>>
<1> DEFINE c == loc[r].cycle
           given == loc[r].settings
<1>1. pc[r] = "create" /\ Finish(r) /\ UNCHANGED <<done, order, settings, crossed, orphaned>>
  BY DEF OpenCreate, group
<1>2. c \in Numbers /\ loc[r].order \in Orders /\ given \in GroupSettings
  BY <1>1 DEF Aimed, Types, Locals
<1>3. CASE status[c] = "none"
  <2>1. PICK p \in GenerateRounds(loc[r].order, given.recipients, given.method, {}) :
              /\ status' = [status EXCEPT ![c] = "open"]
              /\ rounds' = [rounds EXCEPT ![c] = Cardinality(DOMAIN p)]
              /\ plan' = p
    BY <1>3 DEF OpenCreate
  <2>2. Cardinality(DOMAIN p) \in Nat /\ DOMAIN p = 1 .. Cardinality(DOMAIN p)
    BY <1>2, <2>1, PlannedRounds
  <2> QED
    BY <1>1, <1>2, <1>3, <2>1, <2>2
<1> QED
  BY <1>1, <1>2, <1>3 DEF OpenCreate

LEMMA TypesInit == Init => Types /\ Aimed
<1> SUFFICES ASSUME Init PROVE Types /\ Aimed
  OBVIOUS
<1>1. Types
  <2>1. NoLocals \in Locals
    <3>1. (CHOOSE o \in Orders : TRUE) \in Orders /\ (CHOOSE s \in GroupSettings : TRUE) \in GroupSettings
      BY DEF Init
    <3> QED
      BY <3>1, ConstantsAssumption DEF NoLocals, Locals
  <2> QED
    BY <2>1, ConstantsAssumption DEF Init, Types, Steps
<1> QED
  BY <1>1 DEF Init, Aimed

LEMMA TypesNext ==
    ASSUME Types, Aimed, Next
    PROVE  Types' /\ Aimed'
<1>L. /\ Numbers \subseteq 0 .. MaxCycles
      /\ \A s \in GroupSettings : s.autoOpen \in BOOLEAN
  BY ConstantsAssumption DEF Numbers
<1> USE DEF Steps
<1>1. ASSUME NEW r \in Requests, OpenRequest(r) PROVE Types' /\ Aimed'
  BY <1>1, NoLocalsOK, GotoTypes, GotoAims DEF OpenRequest, Types, cycles, group
<1>2. ASSUME NEW r \in Requests, NEW c \in Numbers, StartRead(r, c) PROVE Types' /\ Aimed'
  <2>1. [NoLocals EXCEPT !.cycle = c] \in Locals /\ [NoLocals EXCEPT !.cycle = c].cycle = c
    BY NoLocalsOK DEF NoLocals
  <2> QED
    BY <1>2, <2>1, GotoTypes, GotoAims DEF StartRead, Crosses, Types, cycles, group
<1>3. ASSUME NEW r \in Requests, NEW c \in Numbers, CompleteRead(r, c) PROVE Types' /\ Aimed'
  <2> DEFINE l == [NoLocals EXCEPT !.cycle = c, !.autoOpen = settings.autoOpen]
  <2>1. l \in Locals /\ l.cycle = c
    BY <1>L, NoLocalsOK DEF NoLocals, Types
  <2> QED
    BY <1>3, <2>1, GotoTypes, GotoAims DEF CompleteRead, Crosses, Types, cycles, group
<1>4. ASSUME NEW r \in Requests, NEW c \in Numbers, RoundDone(r, c) PROVE Types' /\ Aimed'
  <2>1. [NoLocals EXCEPT !.cycle = c] \in Locals /\ [NoLocals EXCEPT !.cycle = c].cycle = c
    BY NoLocalsOK DEF NoLocals
  <2>2. done' \in [Numbers -> SUBSET Nat]
    BY <1>4 DEF RoundDone, Types
  <2> QED
    BY <1>4, <2>1, <2>2, GotoTypes, GotoAims DEF RoundDone, Types, group
<1>5. ASSUME NEW r \in Requests, OpenRead(r) PROVE Types' /\ Aimed'
  BY <1>5, NoLocalsOK, FinishKeeps, GotoTypes, GotoAims DEF OpenRead, Types, cycles, group
<1>6. ASSUME NEW r \in Requests, OpenCheck(r) PROVE Types' /\ Aimed'
  <2>1. loc[r] \in Locals
    BY DEF Types
  <2> QED
    BY <1>6, <2>1, FinishKeeps, GotoTypes, GotoAims DEF OpenCheck, Types, cycles, group
<1>7. ASSUME NEW r \in Requests, OpenNumber(r) PROVE Types' /\ Aimed'
  <2>1. PICK c \in Numbers : Goto(r, "create", [loc[r] EXCEPT !.cycle = c])
    BY <1>7 DEF OpenNumber
  <2>2. [loc[r] EXCEPT !.cycle = c] \in Locals /\ [loc[r] EXCEPT !.cycle = c].cycle = c
    BY <1>L DEF Types, Locals
  <2> QED
    BY <1>7, <2>1, <2>2, GotoTypes, GotoAims DEF OpenNumber, Types, cycles, group
<1>8. ASSUME NEW r \in Requests, OpenCreate(r) PROVE Types' /\ Aimed'
  <2>1. /\ status' \in [Numbers -> {"none", "open", "in_progress", "completed"}]
        /\ rounds' \in [Numbers -> Nat]
    <3> DEFINE c == loc[r].cycle
    <3>1. CASE status[c] # "none"
      BY <1>8, <3>1, Creates DEF Types
    <3>2. CASE status[c] = "none"
      <4>1. PICK n \in Nat : /\ status' = [status EXCEPT ![c] = "open"]
                            /\ rounds' = [rounds EXCEPT ![c] = n]
        BY <1>8, <3>2, Creates
      <4> QED
        BY <4>1 DEF Types
    <3> QED
      BY <3>1, <3>2
  <2>2. pc' \in [Requests -> Steps] /\ loc' \in [Requests -> Locals] /\ Aimed'
    BY <1>8, Creates, FinishKeeps
  <2> QED
    BY <1>8, <2>1, <2>2, Creates DEF Types
<1>9. ASSUME NEW r \in Requests, StartWrite(r) PROVE Types' /\ Aimed'
  BY <1>9, FinishKeeps DEF StartWrite, Types, group
<1>10. ASSUME NEW r \in Requests, CompleteWrite(r) PROVE Types' /\ Aimed'
  BY <1>10, NoLocalsOK, FinishKeeps, GotoTypes, GotoAims DEF CompleteWrite, Types, group
<1>11. ASSUME NEW r \in Requests, AutoCompleteRead(r) PROVE Types' /\ Aimed'
  <2> DEFINE l == [loc[r] EXCEPT !.autoOpen = settings.autoOpen]
  <2>1. loc[r].cycle \in Numbers
    BY <1>11 DEF AutoCompleteRead, Aimed
  <2>2. l \in Locals /\ l.cycle = loc[r].cycle
    BY <1>L DEF Types, Locals
  <2>3. /\ crossed' \in BOOLEAN /\ orphaned' \in SUBSET Numbers
        /\ UNCHANGED <<cycles, group>>
    BY <1>11, <2>1 DEF AutoCompleteRead, Crosses, Types
  <2>4. pc' \in [Requests -> Steps] /\ loc' \in [Requests -> Locals] /\ Aimed'
    BY <1>11, <2>1, <2>2, FinishKeeps, GotoTypes, GotoAims DEF AutoCompleteRead
  <2> QED
    BY <2>3, <2>4 DEF Types, cycles, group
<1>12. ASSUME NEW r \in Requests, Fail(r) PROVE Types' /\ Aimed'
  BY <1>12, FinishKeeps DEF Fail, Types, Aimed, cycles, group
<1>13. CASE Environment
  BY <1>13 DEF Environment, OrderChanges, SettingsChange, RerollRound, Types, Aimed, cycles, group
<1> QED
  BY <1>1, <1>2, <1>3, <1>4, <1>5, <1>6, <1>7, <1>8, <1>9, <1>10, <1>11, <1>12, <1>13
     DEF Next, Begin, Resume

-----------------------------------------------------------------------------
(* Numbers                                                                   *)

Existing == {c \in Numbers : status[c] # "none"}

\* The cycles of a group have the numbers 1 .. LastCycle: openCycleInternal
\* takes the highest number plus one, and the unique key refuses a second.
Gapless == Existing = 1 .. LastCycle

\* A request about to create a cycle has seen all those before it; one about to
\* write to a cycle has seen that one.
Seen ==
    \A r \in Requests :
        /\ pc[r] = "create" => \A b \in Numbers : b < loc[r].cycle => b \in Existing
        /\ pc[r] \in {"start", "complete", "autoComplete"} => loc[r].cycle \in Existing

\* A cycle that does not exist yet has no rounds.
Unborn == \A c \in Numbers \ Existing : rounds[c] = 0 /\ done[c] = {}

\* The plan is that of the last cycle.
Planned == IF LastCycle = 0 THEN plan = <<>> ELSE DOMAIN plan = 1 .. rounds[LastCycle]

Numbered == Types /\ Aimed /\ Gapless /\ Seen /\ Unborn /\ Planned

LEMMA LastIs ==
    ASSUME NEW k \in Nat, Existing = 1 .. k
    PROVE  LastCycle = k
<1>1. LastCycle = Cardinality(1 .. k)
  BY DEF LastCycle, Existing
<1>2. Cardinality(1 .. k) = k
  BY FS_Interval
<1> QED
  BY <1>1, <1>2

LEMMA LastIsNext ==
    ASSUME NEW k \in Nat, Existing' = 1 .. k
    PROVE  LastCycle' = k
<1>1. LastCycle' = Cardinality(1 .. k)
  BY DEF LastCycle, Existing
<1>2. Cardinality(1 .. k) = k
  BY FS_Interval
<1> QED
  BY <1>1, <1>2

LEMMA LastInRange ==
    ASSUME Types, Gapless
    PROVE  LastCycle \in 0 .. MaxCycles
<1>1. Existing \subseteq 1 .. MaxCycles
  BY DEF Existing, Numbers
<1>2. IsFiniteSet(1 .. MaxCycles) /\ Cardinality(1 .. MaxCycles) = MaxCycles
  BY ConstantsAssumption, FS_Interval
<1>3. IsFiniteSet(Existing) /\ Cardinality(Existing) <= MaxCycles
  BY <1>1, <1>2, FS_Subset
<1>4. Cardinality(Existing) \in Nat
  BY <1>3, FS_CardinalityType
<1> QED
  BY <1>3, <1>4, ConstantsAssumption DEF LastCycle, Existing

LEMMA NumberedInit == Init => Numbered
<1> SUFFICES ASSUME Init PROVE Numbered
  OBVIOUS
<1>1. Types /\ Aimed
  BY TypesInit
<1>2. Existing = 1 .. 0
  BY DEF Init, Existing
<1>3. LastCycle = 0
  BY <1>2, LastIs
<1>4. Gapless /\ Planned
  BY <1>2, <1>3 DEF Init, Gapless, Planned
<1>5. Seen /\ Unborn
  BY DEF Init, Seen, Unborn
<1> QED
  BY <1>1, <1>4, <1>5 DEF Numbered

\* A step that adds no cycle, to the rounds of none, keeps the numbers.
LEMMA SameCycles ==
    ASSUME Numbered, Types', Existing' = Existing, UNCHANGED rounds, DOMAIN plan' = DOMAIN plan,
           plan = <<>> => plan' = <<>>,
           \A c \in Numbers \ Existing : done'[c] = done[c]
    PROVE  Gapless' /\ Unborn' /\ Planned'
<1>1. LastCycle \in Nat /\ Existing' = 1 .. LastCycle
  BY LastInRange, ConstantsAssumption DEF Numbered, Gapless
<1>2. LastCycle' = LastCycle
  BY <1>1, LastIsNext
<1> QED
  BY <1>1, <1>2 DEF Numbered, Gapless, Unborn, Planned

LEMMA NumberedNext ==
    ASSUME Numbered, Next
    PROVE  Numbered'
<1>T. Types' /\ Aimed'
  BY TypesNext DEF Numbered
<1>L. LastCycle \in Nat
  BY LastInRange, ConstantsAssumption DEF Numbered
<1> USE DEF Goto, Finish, NoLocals
<1>1. ASSUME NEW r \in Requests, OpenRequest(r) \/ OpenRead(r) \/ OpenCheck(r) PROVE Numbered'
  <2>1. Existing' = Existing /\ UNCHANGED <<rounds, done, plan>>
    BY <1>1 DEF OpenRequest, OpenRead, OpenCheck, Existing, cycles
  <2>2. Seen'
    BY <1>1, <2>1 DEF OpenRequest, OpenRead, OpenCheck, Seen, Numbered, Types
  <2> QED
    BY <1>T, <2>1, <2>2, SameCycles DEF Numbered
<1>2. ASSUME NEW r \in Requests, NEW c \in Numbers, StartRead(r, c) \/ CompleteRead(r, c) PROVE Numbered'
  <2>1. Existing' = Existing /\ UNCHANGED <<rounds, done, plan>>
    BY <1>2 DEF StartRead, CompleteRead, Existing, cycles
  <2>2. c \in Existing
    BY <1>2 DEF StartRead, CompleteRead, Existing, Active, Contract!Active
  <2>3. PICK step \in {"start", "complete"}, l \in Locals :
          /\ l.cycle = c
          /\ pc' = [pc EXCEPT ![r] = step]
          /\ loc' = [loc EXCEPT ![r] = l]
    <3>1. ConstantsAssumption /\ c \in 0 .. MaxCycles
      BY ConstantsAssumption DEF Numbers
    <3>2. settings.autoOpen \in BOOLEAN
      BY ConstantsAssumption DEF Numbered, Types
    <3>3. CASE StartRead(r, c)
      BY <3>1, <3>3, NoLocalsOK DEF StartRead, Numbered
    <3>4. CASE CompleteRead(r, c)
      BY <3>1, <3>2, <3>4, NoLocalsOK DEF CompleteRead, Numbered
    <3> QED
      BY <1>2, <3>3, <3>4
  <2>4. Seen'
    BY <2>1, <2>2, <2>3 DEF Seen, Numbered, Types
  <2> QED
    BY <1>T, <2>1, <2>4, SameCycles DEF Numbered
<1>3. ASSUME NEW r \in Requests, NEW c \in Numbers, RoundDone(r, c) PROVE Numbered'
  <2>1. Existing' = Existing /\ UNCHANGED <<rounds, plan>>
    BY <1>3 DEF RoundDone, Existing
  <2>2. c \in Existing
    BY <1>3 DEF RoundDone, Numbered, Unborn
  <2>3. Seen'
    BY <1>3, <2>1, <2>2 DEF RoundDone, Seen, Numbered, Types, Locals
  <2>4. \A b \in Numbers \ Existing : done'[b] = done[b]
    BY <1>3, <2>2 DEF RoundDone, Numbered, Types
  <2> QED
    BY <1>T, <2>1, <2>3, <2>4, SameCycles DEF Numbered
<1>4. ASSUME NEW r \in Requests, OpenNumber(r) PROVE Numbered'
  <2>1. Existing' = Existing /\ UNCHANGED <<rounds, done, plan>>
    BY <1>4 DEF OpenNumber, Existing, cycles
  <2>2. PICK c \in Numbers :
          /\ \A b \in Numbers : status[b] # "none" <=> b < c
          /\ Goto(r, "create", [loc[r] EXCEPT !.cycle = c])
    BY <1>4 DEF OpenNumber
  <2>3. Seen'
    BY <2>1, <2>2 DEF Seen, Existing, Numbered, Types, Locals
  <2> QED
    BY <1>T, <2>1, <2>3, SameCycles DEF Numbered
<1>5. ASSUME NEW r \in Requests, OpenCreate(r) PROVE Numbered'
  <2> DEFINE c == loc[r].cycle
  <2>1. c \in Numbers /\ pc[r] = "create" /\ Finish(r) /\ UNCHANGED done
    BY <1>5, Creates DEF Numbered
  <2>2. CASE status[c] # "none"
    <3>1. UNCHANGED <<status, rounds, plan>>
      BY <1>5, <2>2, Creates DEF Numbered
    <3>2. Seen'
      BY <2>1, <3>1 DEF Seen, Existing, Numbered, Types
    <3> QED
      BY <1>T, <2>1, <3>1, <3>2, SameCycles DEF Numbered, Existing
  <2>3. CASE status[c] = "none"
    <3>1. PICK n \in Nat : /\ status' = [status EXCEPT ![c] = "open"]
                           /\ rounds' = [rounds EXCEPT ![c] = n]
                           /\ DOMAIN plan' = 1 .. n
      BY <1>5, <2>3, Creates DEF Numbered
    <3>2. c = LastCycle + 1
      <4>1. c \in 1 .. MaxCycles /\ c \notin 1 .. LastCycle
        BY <2>1, <2>3 DEF Numbered, Gapless, Existing, Numbers
      <4>2. \A b \in 1 .. MaxCycles : b < c => b \in 1 .. LastCycle
        BY <2>1 DEF Numbered, Seen, Gapless, Numbers
      <4>3. ~ (LastCycle + 1 < c)
        BY <1>L, <4>1, <4>2, ConstantsAssumption
      <4> QED
        BY <1>L, <4>1, <4>3, ConstantsAssumption
    <3>3. Existing' = Existing \cup {c}
      BY <2>1, <3>1 DEF Existing, Numbered, Types
    <3>4. Existing' = 1 .. (LastCycle + 1)
      BY <1>L, <3>2, <3>3 DEF Numbered, Gapless
    <3>5. LastCycle' = LastCycle + 1
      BY <1>L, <3>4, LastIsNext
    <3>6. rounds'[c] = n
      BY <2>1, <3>1 DEF Numbered, Types
    <3>7. Gapless' /\ Planned'
      BY <1>L, <3>1, <3>2, <3>4, <3>5, <3>6 DEF Gapless, Planned
    <3>8. Unborn' /\ Seen'
      BY <2>1, <3>1, <3>3 DEF Unborn, Seen, Numbered, Types
    <3> QED
      BY <1>T, <3>7, <3>8 DEF Numbered
  <2> QED
    BY <2>2, <2>3
<1>6. ASSUME NEW r \in Requests, StartWrite(r) \/ CompleteWrite(r) PROVE Numbered'
  <2>1. loc[r].cycle \in Existing /\ loc[r].cycle \in Numbers
    BY <1>6 DEF StartWrite, CompleteWrite, Numbered, Seen, Existing
  <2>2. Existing' = Existing /\ UNCHANGED <<rounds, done, plan>>
    BY <1>6, <2>1 DEF StartWrite, CompleteWrite, Existing, Numbered, Types
  <2>3. Seen'
    BY <1>6, <2>2 DEF StartWrite, CompleteWrite, Seen, Numbered, Types
  <2> QED
    BY <1>T, <2>2, <2>3, SameCycles DEF Numbered
<1>7. ASSUME NEW r \in Requests, AutoCompleteRead(r) \/ Fail(r) PROVE Numbered'
  <2>1. Existing' = Existing /\ UNCHANGED <<rounds, done, plan>>
    BY <1>7 DEF AutoCompleteRead, Fail, Existing, cycles
  <2>2. Seen'
    BY <1>7, <2>1 DEF AutoCompleteRead, Fail, Seen, Numbered, Types, Locals
  <2> QED
    BY <1>T, <2>1, <2>2, SameCycles DEF Numbered
<1>8. CASE Environment
  <2>1. Existing' = Existing /\ UNCHANGED <<rounds, done, pc, loc>>
    BY <1>8 DEF Environment, OrderChanges, SettingsChange, RerollRound, Existing, cycles
  <2>2. DOMAIN plan' = DOMAIN plan /\ (plan = <<>> => plan' = <<>>)
    <3>1. CASE OrderChanges \/ SettingsChange
      BY <3>1 DEF OrderChanges, SettingsChange, cycles
    <3>2. ASSUME NEW i \in DOMAIN plan, RerollRound(i)
          PROVE  DOMAIN plan' = DOMAIN plan /\ plan # <<>>
      <4>1. PICK e : plan' = [plan EXCEPT ![i] = e]
        BY <3>2 DEF RerollRound
      <4>2. plan # <<>>
        BY <3>2
      <4> QED
        BY <4>1, <4>2
    <3> QED
      BY <1>8, <3>1, <3>2 DEF Environment
  <2>3. Seen'
    BY <2>1 DEF Seen, Numbered
  <2> QED
    BY <1>T, <2>1, <2>2, <2>3, SameCycles DEF Numbered
<1> QED
  BY <1>1, <1>2, <1>3, <1>4, <1>5, <1>6, <1>7, <1>8 DEF Next, Begin, Resume

LEMMA NumberedAlways == Spec => []Numbered
<1>1. Numbered /\ UNCHANGED vars => Numbered'
  BY DEF Numbered, Types, Aimed, Gapless, Seen, Unborn, Planned, LastCycle, Existing, vars, cycles, group
<1> QED
  BY <1>1, NumberedInit, NumberedNext, PTL DEF Spec

\* The variables have their types; the plan has an entry for each round of the
\* last cycle.
THEOREM TypeCorrect == Spec => []TypeOK
<1>1. Numbered => TypeOK
  BY DEF Numbered, Types, Planned, TypeOK
<1> QED
  BY <1>1, NumberedAlways, PTL

\* Openings that collide, fail or die leave no gap in the cycle numbers and use
\* none twice (openCycleInternal).
THEOREM CyclesAreNumberedInOrder == Spec => []Gapless
<1>1. Numbered => Gapless
  BY DEF Numbered
<1> QED
  BY <1>1, NumberedAlways, PTL

-----------------------------------------------------------------------------
(* The contract                                                              *)

\* Who is about to open a cycle has found none active, and is alone in this.
OpensAlone ==
    \A r \in Requests : pc[r] \in {"number", "create"} =>
        /\ Active = {}
        /\ \A q \in Requests \ {r} : pc[q] \notin {"number", "create"}

\* Who is about to start a cycle starts one that is active still.
StartsActive == \A r \in Requests : pc[r] = "start" => loc[r].cycle \in Active

\* Nobody starts a cycle that another is about to complete.
NoClash ==
    \A r, q \in Requests :
        pc[r] = "start" /\ pc[q] = "complete" => loc[r].cycle # loc[q].cycle

Steady == ~ crossed => OpensAlone /\ StartsActive /\ NoClash

\* The step of CycleContract a step maps to, if it changes a status.
Kept == crossed' \/ Contract!Next \/ UNCHANGED status

\* Once requests have crossed nothing is said any more.
LEMMA CrossedStays ==
    ASSUME Next, crossed
    PROVE  crossed'
BY DEF Next, Begin, Resume, Environment, OpenRequest, StartRead, CompleteRead,
       RoundDone, OpenRead, OpenCheck, OpenNumber, OpenCreate, StartWrite, CompleteWrite,
       AutoCompleteRead, OrderChanges, SettingsChange, RerollRound, Fail

LEMMA SteadyInit == Init => Steady
BY DEF Init, Steady, OpensAlone, StartsActive, NoClash

\* A step that writes no status and puts nobody to work but one request: what
\* is left to show is what that request has found.
LEMMA SteadyReads ==
    ASSUME Numbered, Steady, ~ crossed, UNCHANGED status,
           NEW r \in Requests, NEW step \in Steps, NEW l \in Locals, Goto(r, step, l),
           step \in {"number", "create"} =>
               Active = {} /\ \A q \in Requests \ {r} : pc[q] \notin {"number", "create"},
           step = "start" => l.cycle \in Active /\ ~ Crosses(r, l.cycle, "complete"),
           step = "complete" => ~ Crosses(r, l.cycle, "start")
    PROVE  OpensAlone' /\ StartsActive' /\ NoClash'
<1>1. /\ pc' = [pc EXCEPT ![r] = step] /\ loc' = [loc EXCEPT ![r] = l]
      /\ pc \in [Requests -> Steps] /\ loc \in [Requests -> Locals]
  BY DEF Goto, Numbered, Types
<1>2. Active' = Active
  BY DEF Active, Contract!Active
<1>3. OpensAlone'
  BY <1>1, <1>2 DEF Steady, OpensAlone
<1>4. StartsActive'
  BY <1>1, <1>2 DEF Steady, StartsActive
<1>5. NoClash'
  BY <1>1 DEF Steady, NoClash, Crosses
<1> QED
  BY <1>3, <1>4, <1>5

LEMMA SteadyNext ==
    ASSUME Numbered, Steady, Next
    PROVE  Steady' /\ Kept
<1> SUFFICES ASSUME ~ crossed'
             PROVE  /\ OpensAlone' /\ StartsActive' /\ NoClash'
                    /\ Contract!Next \/ UNCHANGED status
  BY DEF Steady, Kept
<1>I. /\ NoLocals \in Locals /\ {"idle", "open", "check"} \subseteq Steps
      /\ \A q \in Requests : loc[q] \in Locals
  BY NoLocalsOK DEF Numbered, Types, Steps
<1>1. ASSUME NEW r \in Requests, OpenRequest(r) \/ OpenRead(r) \/ Fail(r)
      PROVE  OpensAlone' /\ StartsActive' /\ NoClash' /\ UNCHANGED status
  <2>1. ~ crossed /\ UNCHANGED status
    BY <1>1 DEF OpenRequest, OpenRead, Fail, cycles
  <2>2. PICK step \in {"idle", "open", "check"}, l \in Locals : Goto(r, step, l)
    BY <1>1, <1>I, NoLocalsOK DEF OpenRequest, OpenRead, Fail, Finish, Numbered, Types
  <2> QED
    BY <1>I, <2>1, <2>2, SteadyReads
<1>2. ASSUME NEW r \in Requests, OpenCheck(r)
      PROVE  OpensAlone' /\ StartsActive' /\ NoClash' /\ UNCHANGED status
  <2>1. ~ crossed /\ UNCHANGED status
    BY <1>2 DEF OpenCheck, cycles
  <2>2. CASE Active = {}
    <3>1. Goto(r, "number", loc[r]) /\ \A q \in Requests \ {r} : pc[q] \notin {"number", "create"}
      BY <1>2, <2>2 DEF OpenCheck
    <3> QED
      BY <1>I, <2>1, <2>2, <3>1, SteadyReads DEF Steps
  <2>3. CASE Active # {}
    BY <1>2, <1>I, <2>1, <2>3, SteadyReads DEF OpenCheck, Finish
  <2> QED
    BY <2>2, <2>3
<1>3. ASSUME NEW r \in Requests, OpenNumber(r)
      PROVE  OpensAlone' /\ StartsActive' /\ NoClash' /\ UNCHANGED status
  <2>1. ~ crossed /\ UNCHANGED status /\ pc[r] = "number"
    BY <1>3 DEF OpenNumber, cycles
  <2>2. PICK c \in Numbers : Goto(r, "create", [loc[r] EXCEPT !.cycle = c])
    BY <1>3 DEF OpenNumber
  <2>3. [loc[r] EXCEPT !.cycle = c] \in Locals
    BY <1>I, ConstantsAssumption DEF Locals, Numbers
  <2>4. Active = {} /\ \A q \in Requests \ {r} : pc[q] \notin {"number", "create"}
    BY <2>1 DEF Steady, OpensAlone
  <2> QED
    BY <2>1, <2>2, <2>3, <2>4, SteadyReads DEF Steps
<1>4. ASSUME NEW r \in Requests, NEW c \in Numbers, StartRead(r, c)
      PROVE  OpensAlone' /\ StartsActive' /\ NoClash' /\ UNCHANGED status
  <2> DEFINE l == [NoLocals EXCEPT !.cycle = c]
  <2>1. ~ crossed /\ UNCHANGED status /\ Goto(r, "start", l) /\ ~ Crosses(r, c, "complete")
    BY <1>4 DEF StartRead, cycles
  <2>2. l \in Locals /\ l.cycle = c
    BY NoLocalsOK DEF Numbered, NoLocals
  <2>3. c \in Active
    BY <1>4 DEF StartRead, Active, Contract!Active
  <2> QED
    BY <2>1, <2>2, <2>3, SteadyReads DEF Steps
<1>5. ASSUME NEW r \in Requests, NEW c \in Numbers, CompleteRead(r, c)
      PROVE  OpensAlone' /\ StartsActive' /\ NoClash' /\ UNCHANGED status
  <2> DEFINE l == [NoLocals EXCEPT !.cycle = c, !.autoOpen = settings.autoOpen]
  <2>1. ~ crossed /\ UNCHANGED status /\ Goto(r, "complete", l) /\ ~ Crosses(r, c, "start")
    BY <1>5 DEF CompleteRead, cycles
  <2>2. l \in Locals /\ l.cycle = c
    BY NoLocalsOK, ConstantsAssumption DEF Numbered, Types, NoLocals
  <2> QED
    BY <2>1, <2>2, SteadyReads DEF Steps
<1>6. ASSUME NEW r \in Requests, NEW c \in Numbers, RoundDone(r, c)
      PROVE  OpensAlone' /\ StartsActive' /\ NoClash' /\ UNCHANGED status
  <2>1. ~ crossed /\ UNCHANGED status /\ Goto(r, "autoComplete", [NoLocals EXCEPT !.cycle = c])
    BY <1>6 DEF RoundDone
  <2>2. [NoLocals EXCEPT !.cycle = c] \in Locals
    BY NoLocalsOK DEF Numbered
  <2> QED
    BY <2>1, <2>2, SteadyReads DEF Steps
<1>7. ASSUME NEW r \in Requests, AutoCompleteRead(r)
      PROVE  OpensAlone' /\ StartsActive' /\ NoClash' /\ UNCHANGED status
  <2> DEFINE l == [loc[r] EXCEPT !.autoOpen = settings.autoOpen]
  <2>1. ~ crossed /\ UNCHANGED status
    BY <1>7 DEF AutoCompleteRead, cycles
  <2>2. \/ Goto(r, "complete", l) /\ ~ Crosses(r, loc[r].cycle, "start")
        \/ Goto(r, "idle", NoLocals)
    BY <1>7 DEF AutoCompleteRead, Finish
  <2>3. l \in Locals /\ l.cycle = loc[r].cycle
    BY <1>I, ConstantsAssumption DEF Locals, Numbered, Types
  <2>4. CASE Goto(r, "complete", l) /\ ~ Crosses(r, loc[r].cycle, "start")
    BY <2>1, <2>3, <2>4, SteadyReads DEF Steps
  <2>5. CASE Goto(r, "idle", NoLocals)
    BY <1>I, <2>1, <2>5, SteadyReads
  <2> QED
    BY <2>1, <2>2, <2>4, <2>5
<1>8. ASSUME NEW r \in Requests, OpenCreate(r)
      PROVE  OpensAlone' /\ StartsActive' /\ NoClash' /\ (Contract!Next \/ UNCHANGED status)
  <2> DEFINE c == loc[r].cycle
  <2>1. c \in Numbers /\ pc[r] = "create" /\ Goto(r, "idle", NoLocals) /\ ~ crossed
    BY <1>8, Creates DEF Numbered, Finish
  <2>2. Active = {} /\ \A q \in Requests \ {r} : pc[q] \notin {"number", "create"}
    BY <2>1 DEF Steady, OpensAlone
  <2>3. \A q \in Requests : pc[q] # "start"
    BY <2>1, <2>2 DEF Steady, StartsActive
  <2>4. OpensAlone' /\ StartsActive' /\ NoClash'
    BY <2>1, <2>2, <2>3 DEF OpensAlone, StartsActive, NoClash, Goto, Numbered, Types
  <2>5. CASE status[c] # "none"
    <3>1. UNCHANGED status
      BY <1>8, <2>5, Creates DEF Numbered
    <3> QED
      BY <2>4, <3>1
  <2>6. CASE status[c] = "none"
    <3>1. status' = [status EXCEPT ![c] = "open"]
      BY <1>8, <2>6, Creates DEF Numbered
    <3>2. \A b \in Numbers : b < c => status[b] = "completed"
      <4>1. \A b \in Numbers : b < c => status[b] # "none"
        BY <2>1 DEF Numbered, Seen, Existing
      <4>2. \A b \in Numbers : status[b] \notin {"open", "in_progress"}
        BY <2>2 DEF Active, Contract!Active
      <4>3. \A b \in Numbers : status[b] \in {"none", "open", "in_progress", "completed"}
        BY DEF Numbered, Types
      <4> QED
        BY <4>1, <4>2, <4>3
    <3>3. Contract!Open(c)
      BY <2>6, <3>1, <3>2 DEF Contract!Open
    <3> QED
      BY <2>1, <2>4, <3>3 DEF Contract!Next
  <2> QED
    BY <2>5, <2>6
<1>9. ASSUME NEW r \in Requests, StartWrite(r)
      PROVE  OpensAlone' /\ StartsActive' /\ NoClash' /\ (Contract!Next \/ UNCHANGED status)
  <2> DEFINE c == loc[r].cycle
  <2>1. c \in Numbers /\ pc[r] = "start" /\ Goto(r, "idle", NoLocals) /\ ~ crossed
        /\ status' = [status EXCEPT ![c] = "in_progress"]
    BY <1>9 DEF StartWrite, Finish, Numbered, Aimed
  <2>2. c \in Active
    BY <2>1 DEF Steady, StartsActive
  <2>3. Active' = Active
    BY <2>1, <2>2 DEF Active, Contract!Active, Numbered, Types
  <2>4. OpensAlone' /\ StartsActive' /\ NoClash'
    BY <2>1, <2>3 DEF Steady, OpensAlone, StartsActive, NoClash, Goto, Numbered, Types
  <2>5. CASE status[c] = "open"
    BY <2>1, <2>4, <2>5 DEF Contract!Next, Contract!Start
  <2>6. CASE status[c] = "in_progress"
    BY <2>1, <2>4, <2>6 DEF Numbered, Types
  <2> QED
    BY <2>2, <2>5, <2>6 DEF Active, Contract!Active
<1>10. ASSUME NEW r \in Requests, CompleteWrite(r)
       PROVE  OpensAlone' /\ StartsActive' /\ NoClash' /\ (Contract!Next \/ UNCHANGED status)
  <2> DEFINE c == loc[r].cycle
  <2>1. c \in Numbers /\ pc[r] = "complete" /\ ~ crossed
        /\ status' = [status EXCEPT ![c] = "completed"]
    BY <1>10 DEF CompleteWrite, Numbered, Aimed
  <2>2. PICK step \in {"idle", "open"} : Goto(r, step, NoLocals)
    BY <1>10 DEF CompleteWrite, Finish
  <2>3. Active' = Active \ {c}
    BY <2>1 DEF Active, Contract!Active, Numbered, Types
  <2>4. \A q \in Requests : pc[q] = "start" => loc[q].cycle # c
    BY <2>1 DEF Steady, NoClash
  <2>5. OpensAlone' /\ StartsActive' /\ NoClash'
    BY <2>1, <2>2, <2>3, <2>4 DEF Steady, OpensAlone, StartsActive, NoClash, Goto, Numbered, Types
  <2>6. c \in Existing
    BY <2>1 DEF Numbered, Seen
  <2>7. CASE status[c] \in {"open", "in_progress"}
    BY <2>1, <2>5, <2>7 DEF Contract!Next, Contract!Complete, Contract!Active
  <2>8. CASE status[c] = "completed"
    BY <2>1, <2>5, <2>8 DEF Numbered, Types
  <2> QED
    BY <2>1, <2>6, <2>7, <2>8 DEF Existing, Numbered, Types
<1>11. CASE Environment
  <2>1. UNCHANGED <<status, pc, loc, crossed>>
    BY <1>11 DEF Environment, OrderChanges, SettingsChange, RerollRound, cycles
  <2> QED
    BY <2>1 DEF Steady, OpensAlone, StartsActive, NoClash, Active, Contract!Active
<1> QED
  BY <1>1, <1>2, <1>3, <1>4, <1>5, <1>6, <1>7, <1>8, <1>9, <1>10, <1>11 DEF Next, Begin, Resume

LEMMA SteadyAlways == Spec => []Steady
<1>1. Steady /\ UNCHANGED vars => Steady'
  BY DEF Steady, OpensAlone, StartsActive, NoClash, Active, Contract!Active, vars, cycles
<1>2. Numbered /\ Steady /\ [Next]_vars => Steady'
  BY <1>1, SteadyNext
<1> QED
  BY <1>2, SteadyInit, NumberedAlways, PTL DEF Spec

\* Every step of requests that do not cross is a step of CycleContract, or none
\* of its business: cycles are opened one at a time in number order, and never
\* leave completed (openCycleInternal, startCycle, completeCycle,
\* autoCompleteIfDone).
THEOREM CyclesKeepTheContract == Spec => ContractUnlessCrossed
<1>1. Init => Contract!Init
  BY DEF Init, Contract!Init
<1>2. Numbered /\ Steady /\ [Next]_vars => [crossed' \/ Contract!Next]_status
  <2>1. ASSUME Numbered, Steady, Next PROVE [crossed' \/ Contract!Next]_status
    BY <2>1, SteadyNext DEF Kept
  <2>2. ASSUME UNCHANGED vars PROVE [crossed' \/ Contract!Next]_status
    BY <2>2 DEF vars, cycles
  <2> QED
    BY <2>1, <2>2
<1> QED
  BY <1>1, <1>2, NumberedAlways, SteadyAlways, PTL DEF Spec, ContractUnlessCrossed

\* Before a cycle is opened the last one is completed: unless requests crossed
\* all cycles but the last are.
EarlierAreCompleted ==
    ~ crossed => \A b, c \in Existing : b < c => status[b] = "completed"

\* cycles.md's "only one cycle can be in_progress at a time", and in the order
\* of their numbers (openCycleInternal), unless requests crossed.
THEOREM OneAfterTheOther == Spec => [](EarlierAreCompleted /\ (~ crossed => OneInProgress))
<1>1. Init => EarlierAreCompleted
  BY DEF Init, Existing, EarlierAreCompleted
<1>2. Numbered /\ Steady /\ EarlierAreCompleted /\ [Next]_vars => EarlierAreCompleted'
  <2>1. ASSUME Numbered, Steady, EarlierAreCompleted, [Next]_vars, ~ crossed'
        PROVE  \A b, c \in Existing' : b < c => status'[b] = "completed"
    <3>1. ~ crossed /\ (Contract!Next \/ UNCHANGED status)
      <4>1. CASE Next
        <5>1. ~ crossed
          BY <2>1, <4>1, CrossedStays
        <5> QED
          BY <2>1, <4>1, <5>1, SteadyNext DEF Kept
      <4>2. CASE UNCHANGED vars
        BY <2>1, <4>2 DEF vars, cycles
      <4> QED
        BY <2>1, <4>1, <4>2
    <3>2. CASE UNCHANGED status
      BY <2>1, <3>1, <3>2 DEF EarlierAreCompleted, Existing
    <3>3. CASE Contract!Next
      <4>1. PICK n \in Numbers : Contract!Open(n) \/ Contract!Start(n) \/ Contract!Complete(n)
        BY <3>3 DEF Contract!Next
      <4>2. CASE Contract!Open(n)
        <5>1. \A c \in Existing : c < n
          <6>1. Existing = 1 .. LastCycle /\ LastCycle \in Nat /\ n \in Nat \ {0} /\ n \notin Existing
            BY <2>1, <4>2, LastInRange, ConstantsAssumption
               DEF Numbered, Gapless, Numbers, Existing, Contract!Open
          <6> QED
            BY <6>1
        <5> QED
          BY <2>1, <3>1, <4>2, <5>1 DEF EarlierAreCompleted, Existing, Contract!Open, Numbered, Types, Numbers
      <4>3. CASE Contract!Start(n) \/ Contract!Complete(n)
        BY <2>1, <3>1, <4>3 DEF EarlierAreCompleted, Existing, Contract!Start, Contract!Complete,
             Contract!Active, Numbered, Types
      <4> QED
        BY <4>1, <4>2, <4>3
    <3> QED
      BY <3>1, <3>2, <3>3
  <2> QED
    BY <2>1 DEF EarlierAreCompleted
<1>3. EarlierAreCompleted => (~ crossed => OneInProgress)
  BY DEF EarlierAreCompleted, OneInProgress, Existing, Numbers
<1> QED
  BY <1>1, <1>2, <1>3, NumberedAlways, SteadyAlways, PTL DEF Spec

-----------------------------------------------------------------------------
(* Completion                                                                *)

Attends(r, c) == pc[r] \in {"autoComplete", "complete"} /\ loc[r].cycle = c

\* NoLostCompletion holds of cycles before they are started too: the write that
\* starts one does not look at its rounds.
Attended ==
    ~ crossed =>
        \A c \in Numbers :
            status[c] # "completed" /\ AllDone(c) /\ c \notin orphaned =>
                \E r \in Requests : Attends(r, c)

LEMMA AttendedInit == Init => Attended
BY DEF Init, Attended, AllDone

\* A step of one request that completes no round: if it attended to a cycle it
\* still does, has completed it, or leaves it orphaned.
LEMMA AttendedStays ==
    ASSUME Numbered, Attended, ~ crossed, NEW r \in Requests, NEW step, NEW l, Goto(r, step, l),
           UNCHANGED <<rounds, done>>, orphaned \subseteq orphaned',
           \A c \in Numbers : status[c] = "completed" => status'[c] = "completed",
           \A c \in Numbers : Attends(r, c) /\ AllDone(c) =>
               \/ step \in {"autoComplete", "complete"} /\ l.cycle = c
               \/ status'[c] = "completed"
               \/ c \in orphaned'
    PROVE  Attended'
<1> SUFFICES ASSUME NEW c \in Numbers, status'[c] # "completed", AllDone(c)', c \notin orphaned'
             PROVE  \E q \in Requests : Attends(q, c)'
  BY DEF Attended
<1>1. /\ pc' = [pc EXCEPT ![r] = step] /\ loc' = [loc EXCEPT ![r] = l]
      /\ pc \in [Requests -> Steps] /\ loc \in [Requests -> Locals]
  BY DEF Goto, Numbered, Types
<1>2. status[c] # "completed" /\ AllDone(c) /\ c \notin orphaned
  BY DEF AllDone
<1>3. PICK q \in Requests : Attends(q, c)
  BY <1>2 DEF Attended
<1>4. CASE q = r
  BY <1>1, <1>2, <1>3, <1>4 DEF Attends
<1>5. CASE q # r
  BY <1>1, <1>3, <1>5 DEF Attends
<1> QED
  BY <1>4, <1>5

LEMMA AttendedNext ==
    ASSUME Numbered, Steady, Attended, Next
    PROVE  Attended'
<1> SUFFICES ASSUME ~ crossed' PROVE Attended'
  BY DEF Attended
<1>C. ~ crossed
  BY CrossedStays
<1> USE DEF Finish
<1>1. ASSUME NEW r \in Requests,
             OpenRequest(r) \/ OpenRead(r) \/ OpenCheck(r) \/ OpenNumber(r)
                \/ \E c \in Numbers : StartRead(r, c) \/ CompleteRead(r, c)
      PROVE  Attended'
  <2>1. PICK step, l : Goto(r, step, l)
    BY <1>1 DEF OpenRequest, OpenRead, OpenCheck, OpenNumber, StartRead, CompleteRead
  <2>2. UNCHANGED <<status, rounds, done, orphaned>> /\ pc[r] \notin {"autoComplete", "complete"}
    BY <1>1 DEF OpenRequest, OpenRead, OpenCheck, OpenNumber, StartRead, CompleteRead, cycles
  <2> QED
    BY <1>C, <2>1, <2>2, AttendedStays DEF Attends
<1>2. ASSUME NEW r \in Requests, NEW c \in Numbers, RoundDone(r, c) PROVE Attended'
  <2>1. /\ UNCHANGED <<status, rounds>> /\ pc[r] = "idle"
        /\ orphaned' = orphaned \ {c}
        /\ \A b \in Numbers \ {c} : done'[b] = done[b]
    BY <1>2 DEF RoundDone, Numbered, Types
  <2>2. /\ pc' = [pc EXCEPT ![r] = "autoComplete"]
        /\ loc'[r].cycle = c
        /\ \A q \in Requests \ {r} : loc'[q] = loc[q]
    BY <1>2, NoLocalsOK DEF RoundDone, Goto, NoLocals, Numbered, Types
  <2> SUFFICES ASSUME NEW b \in Numbers, status'[b] # "completed", AllDone(b)', b \notin orphaned'
               PROVE  \E q \in Requests : Attends(q, b)'
    BY DEF Attended
  <2>3. CASE b = c
    BY <2>2, <2>3 DEF Attends, Numbered, Types
  <2>4. CASE b # c
    <3>1. status[b] # "completed" /\ AllDone(b) /\ b \notin orphaned
      BY <2>1, <2>4 DEF AllDone
    <3>2. PICK q \in Requests : Attends(q, b)
      BY <1>C, <3>1 DEF Attended
    <3>3. q # r
      BY <2>1, <3>2 DEF Attends
    <3> QED
      BY <2>2, <3>2, <3>3 DEF Attends, Numbered, Types
  <2> QED
    BY <2>3, <2>4
<1>3. ASSUME NEW r \in Requests, OpenCreate(r) PROVE Attended'
  <2>0. PICK c : c = loc[r].cycle
    OBVIOUS
  <2>1. c \in Numbers /\ pc[r] = "create" /\ Goto(r, "idle", NoLocals) /\ UNCHANGED <<done, orphaned>>
    BY <1>3, <2>0, Creates DEF Numbered
  <2>2. CASE status[c] # "none"
    <3>1. UNCHANGED <<status, rounds>>
      BY <1>3, <2>0, <2>2, Creates DEF Numbered
    <3> QED
      BY <1>C, <2>1, <3>1, AttendedStays DEF Attends
  <2>3. CASE status[c] = "none"
    <3>1. PICK n \in Nat : /\ status' = [status EXCEPT ![c] = "open"]
                           /\ rounds' = [rounds EXCEPT ![c] = n]
      BY <1>3, <2>0, <2>3, Creates DEF Numbered
    <3>2. done'[c] = {} /\ rounds'[c] = n
      BY <2>1, <2>3, <3>1 DEF Numbered, Unborn, Existing, Types
    <3>3. ~ AllDone(c)'
      <4>1. n > 0 => 1 \in 1 .. n
        OBVIOUS
      <4> QED
        BY <3>2, <4>1 DEF AllDone
    <3> SUFFICES ASSUME NEW b \in Numbers, status'[b] # "completed", AllDone(b)', b \notin orphaned'
                 PROVE  \E q \in Requests : Attends(q, b)'
      BY DEF Attended
    <3>4. b # c
      BY <3>3
    <3>5. status[b] # "completed" /\ AllDone(b) /\ b \notin orphaned
      BY <2>1, <3>1, <3>4 DEF AllDone, Numbered, Types
    <3>6. PICK q \in Requests : Attends(q, b)
      BY <1>C, <3>5 DEF Attended
    <3>7. q # r
      BY <2>1, <3>6 DEF Attends
    <3> QED
      BY <2>1, <3>6, <3>7 DEF Attends, Goto, Numbered, Types
  <2> QED
    BY <2>2, <2>3
<1>4. ASSUME NEW r \in Requests, StartWrite(r) PROVE Attended'
  <2> DEFINE c == loc[r].cycle
  <2>1. /\ pc[r] = "start" /\ Goto(r, "idle", NoLocals)
        /\ status' = [status EXCEPT ![c] = "in_progress"]
        /\ UNCHANGED <<rounds, done, orphaned>>
    BY <1>4 DEF StartWrite
  <2>2. status[c] # "completed"
    BY <1>C, <2>1 DEF Steady, StartsActive, Active, Contract!Active
  <2>3. \A b \in Numbers : status[b] = "completed" => status'[b] = "completed"
    BY <2>1, <2>2 DEF Numbered, Types
  <2> QED
    BY <1>C, <2>1, <2>3, AttendedStays DEF Attends
<1>5. ASSUME NEW r \in Requests, CompleteWrite(r) PROVE Attended'
  <2> DEFINE c == loc[r].cycle
  <2>1. /\ pc[r] = "complete"
        /\ status' = [status EXCEPT ![c] = "completed"]
        /\ UNCHANGED <<rounds, done, orphaned>>
    BY <1>5 DEF CompleteWrite
  <2>2. PICK step : Goto(r, step, NoLocals)
    BY <1>5 DEF CompleteWrite
  <2>3. \A b \in Numbers : status[b] = "completed" \/ b = c => status'[b] = "completed"
    BY <2>1 DEF Numbered, Types
  <2> QED
    BY <1>C, <2>1, <2>2, <2>3, AttendedStays DEF Attends
<1>6. ASSUME NEW r \in Requests, AutoCompleteRead(r) PROVE Attended'
  <2> DEFINE c == loc[r].cycle
             l == [loc[r] EXCEPT !.autoOpen = settings.autoOpen]
  <2>1. pc[r] = "autoComplete" /\ UNCHANGED <<status, rounds, done>>
    BY <1>6 DEF AutoCompleteRead, cycles
  <2>2. CASE status[c] = "in_progress" /\ AllDone(c)
    <3>1. Goto(r, "complete", l) /\ UNCHANGED orphaned
      BY <1>6, <2>2 DEF AutoCompleteRead
    <3>2. l.cycle = c
      BY DEF Numbered, Types, Locals
    <3>3. \A b \in Numbers : Attends(r, b) => l.cycle = b
      BY <3>2 DEF Attends
    <3> HIDE DEF l
    <3> QED
      BY <1>C, <2>1, <3>1, <3>3, AttendedStays
  <2>3. CASE ~ (status[c] = "in_progress" /\ AllDone(c))
    <3>1. /\ Goto(r, "idle", NoLocals)
          /\ orphaned' = IF status[c] = "in_progress" THEN orphaned ELSE orphaned \cup {c}
      BY <1>6, <2>3 DEF AutoCompleteRead
    <3> QED
      BY <1>C, <2>1, <2>3, <3>1, AttendedStays DEF Attends
  <2> QED
    BY <2>2, <2>3
<1>7. ASSUME NEW r \in Requests, Fail(r) PROVE Attended'
  <2>1. /\ Goto(r, "idle", NoLocals) /\ UNCHANGED <<status, rounds, done>>
        /\ orphaned \subseteq orphaned'
        /\ pc[r] \in {"autoComplete", "complete"} => loc[r].cycle \in orphaned'
    BY <1>7 DEF Fail, cycles
  <2> QED
    BY <1>C, <2>1, AttendedStays DEF Attends
<1>8. CASE Environment
  <2>1. UNCHANGED <<status, rounds, done, pc, loc, orphaned>>
    BY <1>8 DEF Environment, OrderChanges, SettingsChange, RerollRound, cycles
  <2> QED
    BY <1>C, <2>1 DEF Attended, AllDone, Attends
<1> QED
  BY <1>1, <1>2, <1>3, <1>4, <1>5, <1>6, <1>7, <1>8 DEF Next, Begin, Resume

\* A cycle in progress whose rounds are all completed has a handler that is
\* about to complete it (autoCompleteIfDone), unless the last one to look died,
\* looked before the cycle was started, or requests crossed.
THEOREM NoCompletionIsLost == Spec => []NoLostCompletion
<1>1. Attended /\ UNCHANGED vars => Attended'
  BY DEF Attended, AllDone, Attends, vars, cycles
<1>2. Numbered /\ Steady /\ Attended /\ [Next]_vars => Attended'
  BY <1>1, AttendedNext
<1>3. Attended => NoLostCompletion
  BY DEF Attended, Attends, NoLostCompletion
<1> QED
  BY <1>2, <1>3, AttendedInit, NumberedAlways, SteadyAlways, PTL DEF Spec

-----------------------------------------------------------------------------
(* Queues                                                                    *)

LEMMA Products ==
    ASSUME NEW a \in Int, NEW b \in Int, NEW c \in Nat \ {0}
    PROVE  /\ a * c \in Int
           /\ a < b => a * c + c <= b * c
           /\ a <= b => a * c <= b * c
           /\ (a + 1) * c = a * c + c
           /\ (a - 1) * c = a * c - c
OBVIOUS

LEMMA Quotients ==
    ASSUME NEW x \in Nat, NEW c \in Nat \ {0}
    PROVE  /\ x \div c \in Nat
           /\ (x \div c) * c <= x
           /\ x < (x \div c) * c + c
OBVIOUS

LEMMA Remainders ==
    ASSUME NEW n \in Nat \ {0}, NEW k \in Nat, k < 2 * n
    PROVE  /\ k < n => k % n = k
           /\ ~ (k < n) => k % n = k - n
OBVIOUS

\* What openCycle accepts: a member has one row and so one place in the queue,
\* and a round has no more recipients than the queue members.
Accepts(line, count) ==
    /\ \A i, j \in 1 .. Len(line) : line[i] = line[j] => i = j
    /\ count \in 1 .. Len(line)

\* The round in which place p of the queue (0, 1, ...) is reached.
RoundOf(p, count) == p \div count + 1

LEMMA Reached ==
    ASSUME NEW p \in Nat, NEW count \in Nat \ {0}, NEW j \in Nat \ {0}
    PROVE  /\ RoundOf(p, count) \in Nat \ {0}
           /\ (j - 1) * count <= p /\ p < j * count <=> j = RoundOf(p, count)
           /\ p < j * count <=> RoundOf(p, count) <= j
<1> DEFINE q == p \div count
<1>1. q \in Nat /\ q * count <= p /\ p < q * count + count
  BY Quotients
<1>2. (q + 1) * count = q * count + count
  BY <1>1, Products
<1>3. p < j * count => q < j
  <2>1. j <= q => j * count <= q * count
    BY <1>1, Products
  <2>2. j * count \in Int /\ q * count \in Int
    BY <1>1, Products
  <2> QED
    BY <1>1, <2>1, <2>2
<1>4. q < j => p < j * count
  <2>1. q < j => q * count + count <= j * count
    BY <1>1, Products
  <2>2. j * count \in Int /\ q * count \in Int
    BY <1>1, Products
  <2> QED
    BY <1>1, <2>1, <2>2
<1>5. (j - 1) * count <= p => j <= q + 1
  <2>1. q < j - 1 => q * count + count <= (j - 1) * count
    BY <1>1, Products
  <2>2. (j - 1) * count \in Int /\ q * count \in Int
    BY <1>1, Products
  <2> QED
    BY <1>1, <2>1, <2>2
<1>6. j = q + 1 => (j - 1) * count <= p
  BY <1>1
<1> HIDE DEF q
<1> QED
  BY <1>1, <1>3, <1>4, <1>5, <1>6 DEF RoundOf, q

LEMMA QueueRounds ==
    ASSUME NEW n \in Nat \ {0}, NEW count \in 1 .. n
    PROVE  /\ RoundsCount(n, count) \in Nat \ {0}
           /\ n <= RoundsCount(n, count) * count
           /\ RoundsCount(n, count) * count < 2 * n
<1> DEFINE x == n + count - 1
           R == x \div count
<1>1. R \in Nat /\ R * count <= x /\ x < R * count + count /\ R * count \in Int
  BY Quotients, Products
<1>2. RoundsCount(n, count) = R
  BY DEF RoundsCount
<1>3. R # 0
  <2>1. 0 * count = 0
    OBVIOUS
  <2> QED
    BY <1>1, <2>1
<1> QED
  BY <1>1, <1>2, <1>3

\* Place p is paid out in the round that reaches it, and again in the one that
\* reaches it after the end of the queue.
LEMMA PaidWhenReached ==
    ASSUME NEW S, NEW line \in Seq(S), NEW count, Accepts(line, count),
           NEW p \in 0 .. Len(line) - 1,
           NEW j \in 1 .. RoundsCount(Len(line), count)
    PROVE  line[p + 1] \in QueueRecipients(line, count, j) <=>
               j \in {RoundOf(p, count), RoundOf(p + Len(line), count)}
<1> DEFINE n == Len(line)
           R == RoundsCount(n, count)
           a == (j - 1) * count
<1>1. n \in Nat \ {0} /\ count \in 1 .. n /\ p \in Nat /\ p < n
  BY DEF Accepts
<1>2. R \in Nat \ {0} /\ R * count < 2 * n
  BY <1>1, QueueRounds
<1>3. a \in Nat /\ j * count = a + count /\ a + count <= R * count /\ R * count \in Int
  <2>1. a \in Int /\ j * count = a + count
    BY <1>1, Products
  <2>2. 0 * count <= a
    BY <1>1, <1>2, Products
  <2>3. j * count <= R * count /\ R * count \in Int
    BY <1>1, <1>2, Products
  <2> QED
    BY <1>1, <2>1, <2>2, <2>3
<1> HIDE DEF a
<1>4. \A i \in 0 .. count - 1 : (a + i) % n = IF a + i < n THEN a + i ELSE a + i - n
  <2> SUFFICES ASSUME NEW i \in 0 .. count - 1
               PROVE  (a + i) % n = IF a + i < n THEN a + i ELSE a + i - n
    OBVIOUS
  <2>1. a + i \in Nat /\ a + i < 2 * n
    BY <1>1, <1>2, <1>3
  <2>2. PICK k \in Nat : k = a + i /\ k < 2 * n
    BY <2>1
  <2>3. n \in Nat \ {0}
    BY <1>1
  <2> HIDE DEF n
  <2>4. (k < n => k % n = k) /\ (~ (k < n) => k % n = k - n)
    BY <2>2, <2>3, Remainders
  <2> QED
    BY <1>3, <2>1, <2>2, <2>3, <2>4
<1>5. \A i \in 0 .. count - 1 : line[((a + i) % n) + 1] = line[p + 1] <=> (a + i) % n = p
  <2> SUFFICES ASSUME NEW i \in 0 .. count - 1
               PROVE  line[((a + i) % n) + 1] = line[p + 1] <=> (a + i) % n = p
    OBVIOUS
  <2>1. (a + i) % n \in 0 .. n - 1
    BY <1>1, <1>2, <1>3, <1>4
  <2>2. \A k \in 0 .. n - 1 : line[k + 1] = line[p + 1] => k + 1 = p + 1
    <3>1. \A k \in 0 .. n - 1 : k + 1 \in 1 .. n
      BY <1>1
    <3> QED
      BY <1>1, <3>1 DEF Accepts
  <2> QED
    BY <1>1, <2>1, <2>2
<1>6. line[p + 1] \in QueueRecipients(line, count, j) <=> \E i \in 0 .. count - 1 : a + i \in {p, p + n}
  <2>1. line[p + 1] \in QueueRecipients(line, count, j)
          <=> \E i \in 0 .. count - 1 : line[((a + i) % n) + 1] = line[p + 1]
    BY DEF QueueRecipients, a
  <2>2. \A i \in 0 .. count - 1 : (a + i) % n = p <=> a + i \in {p, p + n}
    <3> SUFFICES ASSUME NEW i \in 0 .. count - 1
                 PROVE  (a + i) % n = p <=> a + i \in {p, p + n}
      OBVIOUS
    <3>1. i \in Nat /\ a + i < 2 * n /\ (a + i) % n = IF a + i < n THEN a + i ELSE a + i - n
      BY <1>1, <1>2, <1>3, <1>4
    <3> QED
      BY <1>1, <1>3, <3>1
  <2> QED
    BY <1>5, <2>1, <2>2
<1>7. \A k \in {p, p + n} : (\E i \in 0 .. count - 1 : a + i = k) <=> a <= k /\ k < a + count
  <2> SUFFICES ASSUME NEW k \in {p, p + n}
               PROVE  (\E i \in 0 .. count - 1 : a + i = k) <=> a <= k /\ k < a + count
    OBVIOUS
  <2>1. a <= k /\ k < a + count => k - a \in 0 .. count - 1 /\ a + (k - a) = k
    BY <1>1, <1>3
  <2> QED
    BY <1>1, <1>3, <2>1
<1>8. \A k \in {p, p + n} : a <= k /\ k < a + count <=> j = RoundOf(k, count)
  <2> SUFFICES ASSUME NEW k \in {p, p + n}
               PROVE  a <= k /\ k < a + count <=> j = RoundOf(k, count)
    OBVIOUS
  <2>1. k \in Nat /\ count \in Nat \ {0} /\ j \in Nat \ {0}
    BY <1>1, <1>2
  <2>2. (j - 1) * count <= k /\ k < j * count <=> j = RoundOf(k, count)
    BY <2>1, Reached
  <2> QED
    BY <1>3, <2>2 DEF a
<1> QED
  BY <1>6, <1>7, <1>8

QueuePlan(line, count) ==
    [j \in 1 .. RoundsCount(Len(line), count) |-> QueueRecipients(line, count, j)]

\* How often place p has been paid out after i rounds.
LEMMA PayoutsOfPlace ==
    ASSUME NEW S, NEW line \in Seq(S), NEW count, Accepts(line, count),
           NEW p \in 0 .. Len(line) - 1,
           NEW i \in 0 .. RoundsCount(Len(line), count)
    PROVE  LET payouts == Payouts(QueuePlan(line, count), line[p + 1], i) IN
           /\ payouts \in 0 .. 2
           /\ RoundOf(p, count) <= i <=> payouts > 0
           /\ payouts > 1 => RoundOf(p + Len(line), count) <= i
<1> DEFINE n == Len(line)
           R == RoundsCount(n, count)
           rota == QueuePlan(line, count)
           here == {j \in 1 .. i : line[p + 1] \in rota[j]}
           first == RoundOf(p, count)
           again == RoundOf(p + n, count)
<1>1. n \in Nat \ {0} /\ count \in 1 .. n /\ count \in Nat \ {0}
  BY DEF Accepts
<1>2. R \in Nat \ {0}
  BY <1>1, QueueRounds
<1>3. p \in Nat /\ p < n /\ p + n \in Nat /\ i \in Nat /\ i <= R
  BY <1>1, <1>2
<1>4. first \in Nat \ {0} /\ again \in Nat \ {0}
  BY <1>1, <1>3, Reached
<1>5. first < again
  <2>1. /\ (first - 1) * count <= p /\ p < first * count <=> first = RoundOf(p, count)
        /\ p + n < first * count <=> again <= first
    BY <1>1, <1>3, <1>4, Reached
  <2>2. (first - 1) * count = first * count - count /\ first * count \in Int
    BY <1>1, <1>4, Products
  <2> QED
    BY <1>1, <1>3, <1>4, <2>1, <2>2
<1>6. here = {first, again} \cap 1 .. i
  <2>1. \A j \in 1 .. R : line[p + 1] \in rota[j] <=> j \in {first, again}
    BY PaidWhenReached DEF QueuePlan
  <2> QED
    BY <1>2, <1>3, <2>1
<1> HIDE DEF here, first, again, rota, R, n
<1>7. \/ i < first /\ here = {}
      \/ first <= i /\ i < again /\ here = {first}
      \/ again <= i /\ here = {first, again}
  BY <1>3, <1>4, <1>5, <1>6
<1>8. Cardinality({}) = 0 /\ Cardinality({first}) = 1 /\ Cardinality({first, again}) = 2
  <2>1. Cardinality({first}) = 1 /\ IsFiniteSet({first})
    BY FS_Singleton
  <2>2. {first, again} = {first} \cup {again} /\ again \notin {first}
    BY <1>4, <1>5
  <2>3. \A T : IsFiniteSet(T) /\ again \notin T => Cardinality(T \cup {again}) = Cardinality(T) + 1
    BY FS_AddElement
  <2>4. Cardinality({}) = 0
    BY FS_EmptySet
  <2> QED
    BY <2>1, <2>2, <2>3, <2>4
<1>9. /\ Cardinality(here) \in 0 .. 2
      /\ first <= i <=> Cardinality(here) > 0
      /\ Cardinality(here) > 1 => again <= i
  <2>1. CASE i < first /\ here = {}
    BY <1>3, <1>4, <1>8, <2>1
  <2>2. CASE first <= i /\ i < again /\ here = {first}
    BY <1>3, <1>4, <1>8, <2>2
  <2>3. CASE again <= i /\ here = {first, again}
    BY <1>3, <1>4, <1>5, <1>8, <2>3
  <2> QED
    BY <1>7, <2>1, <2>2, <2>3
<1>10. Cardinality(here) = Payouts(rota, line[p + 1], i)
  BY DEF Payouts, here
<1> QED
  BY <1>9, <1>10 DEF first, again, rota, n

\* A queue pays out each of its members once before anyone a second time, and
\* nobody more than twice, however long it is and however many are paid out in a
\* round (generateRounds, pickRecipients).
THEOREM EveryQueueIsFair ==
    ASSUME NEW S, NEW line \in Seq(S), NEW count, Accepts(line, count)
    PROVE  QueueIsFair(line, count)
<1> DEFINE n == Len(line)
           R == RoundsCount(n, count)
           queue == QueuePlan(line, count)
<1>1. n \in Nat \ {0} /\ count \in 1 .. n /\ count \in Nat \ {0}
  BY DEF Accepts
<1>2. R \in Nat \ {0} /\ n <= R * count /\ R * count \in Int
  BY <1>1, QueueRounds, Products
<1>3. GenerateRounds(line, count, "queue", {}) = {queue}
  BY <1>1 DEF GenerateRounds, QueuePlan
<1>4. DOMAIN queue = 1 .. R /\ Len(queue) = R
  BY <1>2 DEF QueuePlan
<1> SUFFICES ASSUME NEW x \in Everyone(line), NEW y \in Everyone(line)
             PROVE  /\ \A i \in 1 .. R : Payouts(queue, x, i) > 1 => Payouts(queue, y, i) > 0
                    /\ Payouts(queue, x, R) \in 1 .. 2
  BY <1>3, <1>4 DEF QueueIsFair
<1>5. PICK p \in 0 .. n - 1, q \in 0 .. n - 1 : x = line[p + 1] /\ y = line[q + 1]
  <2>1. PICK i \in 1 .. n, j \in 1 .. n : x = line[i] /\ y = line[j]
    BY DEF Everyone
  <2>2. i - 1 \in 0 .. n - 1 /\ j - 1 \in 0 .. n - 1 /\ (i - 1) + 1 = i /\ (j - 1) + 1 = j
    BY <1>1, <2>1
  <2> QED
    BY <2>1, <2>2
<1>6. p \in Nat /\ q \in Nat /\ p + n \in Nat /\ p < n /\ q < n /\ q < p + n
  BY <1>1, <1>5
<1> DEFINE first == RoundOf(p, count)
           again == RoundOf(p + n, count)
           other == RoundOf(q, count)
<1>7. first \in Nat \ {0} /\ again \in Nat \ {0} /\ other \in Nat \ {0}
  BY <1>1, <1>6, Reached
<1>8. first <= R
  <2>1. p < R * count <=> first <= R
    BY <1>1, <1>2, <1>6, Reached
  <2> QED
    BY <1>1, <1>2, <1>6, <2>1
<1>9. other <= again
  <2>1. /\ (again - 1) * count <= p + n /\ p + n < again * count <=> again = RoundOf(p + n, count)
        /\ q < again * count <=> other <= again
    BY <1>1, <1>6, <1>7, Reached
  <2>2. again * count \in Int
    BY <1>1, <1>7, Products
  <2> QED
    BY <1>1, <1>6, <2>1, <2>2
<1>10. ASSUME NEW i \in 1 .. R
       PROVE  /\ Payouts(queue, x, i) > 1 => again <= i
              /\ other <= i <=> Payouts(queue, y, i) > 0
              /\ Payouts(queue, x, i) \in 0 .. 2
              /\ first <= i <=> Payouts(queue, x, i) > 0
  <2>1. i \in 0 .. R
    BY <1>2
  <2>2. ASSUME NEW k \in 0 .. n - 1
        PROVE  /\ RoundOf(k, count) <= i <=> Payouts(queue, line[k + 1], i) > 0
               /\ Payouts(queue, line[k + 1], i) > 1 => RoundOf(k + n, count) <= i
               /\ Payouts(queue, line[k + 1], i) \in 0 .. 2
    BY <2>1, PayoutsOfPlace
  <2> QED
    BY <1>5, <2>2
<1> HIDE DEF first, again, other, R, queue
<1>11. ASSUME NEW i \in 1 .. R, Payouts(queue, x, i) > 1
       PROVE  Payouts(queue, y, i) > 0
  BY <1>2, <1>7, <1>9, <1>10, <1>11
<1>12. Payouts(queue, x, R) \in 1 .. 2
  <2>1. R \in 1 .. R
    BY <1>2
  <2> QED
    BY <1>8, <1>10, <2>1
<1> QED
  BY <1>11, <1>12

\* Before the first request the plans for every queue a run looks at are fair.
THEOREM QueuesOfGroupsAreFair == Spec => []QueuesAreFair
<1>1. ASSUME NEW line \in Lines, NEW n \in 1 .. Len(line) PROVE QueueIsFair(line, n)
  <2>1. line \in Seq(Everyone(line)) /\ Accepts(line, n)
    BY ConstantsAssumption DEF Accepts
  <2> QED
    BY <2>1, EveryQueueIsFair
<1>2. QueuesAreFair
  BY <1>1 DEF QueuesAreFair
<1> QED
  BY <1>2, PTL

-----------------------------------------------------------------------------
(* Random draws                                                              *)

\* Who has been drawn by round i of a plan.
Drawn(draws, i) == UNION {draws[j] : j \in 1 .. i}

\* A queue has as many members as places.
LEMMA PlacesAndMembers ==
    ASSUME NEW S, NEW line \in Seq(S), NEW count, Accepts(line, count)
    PROVE  IsFiniteSet(Everyone(line)) /\ Cardinality(Everyone(line)) = Len(line)
<1>1. Len(line) \in Nat /\ line \in [1 .. Len(line) -> Everyone(line)]
  BY DEF Everyone
<1>2. line \in Bijection(1 .. Len(line), Everyone(line))
  BY <1>1 DEF Bijection, Injection, Surjection, IsInjective, Everyone, Accepts
<1>3. ExistsBijection(1 .. Len(line), Everyone(line))
  BY <1>2 DEF ExistsBijection
<1> QED
  BY <1>1, <1>3, FS_CountingElements, FS_NatBijection

\* As long as enough are left, a draw is one of members who were not drawn yet.
LEMMA OneDraw ==
    ASSUME NEW S, NEW line \in Seq(S), NEW count, Accepts(line, count),
           NEW D \in SUBSET Everyone(line), NEW P \in RandomDraws(line, count, D),
           Cardinality(D) + count <= Len(line)
    PROVE  /\ P \subseteq Everyone(line) \ D /\ Cardinality(P) = count
           /\ Cardinality(D \cup P) = Cardinality(D) + count
<1> DEFINE E == Everyone(line)
           pool == E \ D
<1>1. IsFiniteSet(E) /\ Cardinality(E) = Len(line) /\ Len(line) \in Nat /\ count \in 1 .. Len(line)
  BY PlacesAndMembers DEF Accepts
<1>2. IsFiniteSet(D) /\ Cardinality(D) \in Nat /\ E \cap D = D
  BY <1>1, FS_Subset, FS_CardinalityType
<1>3. IsFiniteSet(pool) /\ Cardinality(pool) = Len(line) - Cardinality(D)
  <2>1. IsFiniteSet(E \ D) /\ Cardinality(E \ D) = Cardinality(E) - Cardinality(E \cap D)
    <3> HIDE DEF E
    <3> QED
      BY <1>1, FS_Difference
  <2> QED
    BY <1>1, <1>2, <2>1
<1>4. Cardinality(pool) \in Nat /\ count <= Cardinality(pool)
  BY <1>1, <1>2, <1>3
<1>5. RandomSource(line, count, D) = pool
  BY <1>4 DEF RandomSource
<1>6. (IF count < Cardinality(pool) THEN count ELSE Cardinality(pool)) = count
  BY <1>1, <1>4
<1>7. P \in SUBSET pool /\ Cardinality(P) = count
  BY <1>5, <1>6 DEF RandomDraws
<1>8. IsFiniteSet(P) /\ D \cap P = {}
  BY <1>3, <1>7, FS_Subset
<1>9. Cardinality(D \cup P) = Cardinality(D) + Cardinality(P) - 0
  BY <1>2, <1>8, FS_Union, FS_EmptySet
<1> QED
  BY <1>1, <1>2, <1>7, <1>9

\* All rounds but the last fit into the queue, and the last one begins within it.
LEMMA RoundsFit ==
    ASSUME NEW n \in Nat \ {0}, NEW count \in 1 .. n, NEW i \in 0 .. RoundsCount(n, count) - 1
    PROVE  /\ i * count \in Nat /\ i * count < n
           /\ n <= (RoundsCount(n, count) - 1) * count + count
<1> DEFINE R == RoundsCount(n, count)
           x == n + count - 1
<1>1. R \in Nat \ {0} /\ n <= R * count
  BY QueueRounds
<1>2. R = x \div count /\ x \in Nat /\ count \in Nat \ {0}
  BY DEF RoundsCount
<1>3. R * count <= x
  BY <1>2, Quotients
<1>4. (R - 1) * count = R * count - count /\ R * count \in Int /\ i * count <= (R - 1) * count /\ i * count \in Int
  BY <1>1, <1>2, Products
<1>5. 0 * count <= i * count
  BY <1>1, <1>2, Products
<1> HIDE DEF R
<1> QED
  BY <1>1, <1>2, <1>3, <1>4, <1>5 DEF R

\* The draws before the last round are all new.
LEMMA DrawnSoFar ==
    ASSUME NEW S, NEW line \in Seq(S), NEW count, Accepts(line, count),
           NEW draws \in GenerateRounds(line, count, "random", {}),
           NEW i \in 0 .. RoundsCount(Len(line), count) - 1
    PROVE  Drawn(draws, i) \subseteq Everyone(line) /\ Cardinality(Drawn(draws, i)) = i * count
<1> DEFINE n == Len(line)
           R == RoundsCount(n, count)
           E == Everyone(line)
<1>1. n \in Nat \ {0} /\ count \in 1 .. n /\ R \in Nat \ {0}
  BY QueueRounds DEF Accepts
<1>2. /\ draws \in [1 .. R -> SUBSET E]
      /\ \A j \in 1 .. R : draws[j] \in RandomDraws(line, count, AssignedBefore(draws, j, {}))
  BY <1>1 DEF GenerateRounds
<1>3. \A j \in 1 .. R : AssignedBefore(draws, j, {}) = Drawn(draws, j - 1)
  BY DEF AssignedBefore, Drawn
<1>4. ASSUME NEW j \in 0 .. R PROVE Drawn(draws, j) \in SUBSET E
  <2>1. \A k \in 1 .. j : k \in 1 .. R
    BY <1>1
  <2>2. \A k \in 1 .. R : draws[k] \subseteq E
    BY <1>2
  <2> QED
    BY <2>1, <2>2 DEF Drawn
<1>o. \A D \in SUBSET Everyone(line) : \A P \in RandomDraws(line, count, D) :
        Cardinality(D) + count <= Len(line) =>
            /\ P \subseteq Everyone(line) \ D /\ Cardinality(P) = count
            /\ Cardinality(D \cup P) = Cardinality(D) + count
  BY OneDraw
<1>5. Drawn(draws, 0) = {}
  BY DEF Drawn
<1> DEFINE Wrong == {j \in 0 .. R - 1 : Cardinality(Drawn(draws, j)) # j * count}
<1>w. /\ Wrong \subseteq Nat
      /\ \A j \in Nat : j \in Wrong <=> j \in 0 .. R - 1 /\ Cardinality(Drawn(draws, j)) # j * count
  OBVIOUS
<1> HIDE DEF Wrong, E, R, n
<1>6. Wrong = {}
  <2> SUFFICES ASSUME Wrong # {} PROVE FALSE
    OBVIOUS
  <2>1. PICK j \in Wrong : \A k \in Wrong : ~ (<<k, j>> \in OpToRel(<, Nat))
    BY <1>w, NatLessThanWellFounded, WFMin
  <2>2. j \in 0 .. R - 1 /\ Cardinality(Drawn(draws, j)) # j * count
    BY <1>w, <2>1
  <2>3. j # 0
    <3>1. Cardinality({}) = 0 /\ 0 * count = 0
      BY <1>1, FS_EmptySet
    <3> QED
      BY <1>5, <2>2, <3>1
  <2>4. j - 1 \in 0 .. R - 1 /\ j - 1 < j /\ j - 1 \in Nat /\ j \in Nat /\ j \in 1 .. R /\ j - 1 \in 0 .. R
    BY <1>1, <2>2, <2>3
  <2>5. j - 1 \notin Wrong
    BY <2>1, <2>4 DEF OpToRel
  <2>6. Cardinality(Drawn(draws, j - 1)) = (j - 1) * count
    BY <1>w, <2>4, <2>5
  <2>7. Drawn(draws, j) = Drawn(draws, j - 1) \cup draws[j]
    <3>1. 1 .. j = (1 .. j - 1) \cup {j}
      BY <2>4
    <3> QED
      BY <3>1 DEF Drawn
  <2>8. (j - 1) * count = j * count - count /\ j * count \in Nat /\ j * count < n
    <3>1. n \in Nat \ {0} /\ j \in 0 .. RoundsCount(n, count) - 1 /\ j \in Int /\ count \in Nat \ {0}
      BY <1>1, <2>2, <2>4 DEF R
    <3>2. j * count \in Nat /\ j * count < n
      BY <1>1, <3>1, RoundsFit
    <3>3. (j - 1) * count = j * count - count
      BY <3>1, Products
    <3> QED
      BY <3>2, <3>3
  <2>9. Cardinality(Drawn(draws, j - 1)) + count <= n
    BY <1>1, <2>6, <2>8
  <2>10. draws[j] \in RandomDraws(line, count, Drawn(draws, j - 1)) /\ Drawn(draws, j - 1) \in SUBSET E
    <3>1. draws[j] \in RandomDraws(line, count, AssignedBefore(draws, j, {}))
      BY <1>2, <2>4
    <3>2. AssignedBefore(draws, j, {}) = Drawn(draws, j - 1)
      BY <1>3, <2>4
    <3> QED
      BY <1>4, <2>4, <3>1, <3>2
  <2>11. Cardinality(Drawn(draws, j)) = Cardinality(Drawn(draws, j - 1)) + count
    <3>1. Cardinality(Drawn(draws, j - 1)) + count <= Len(line) /\ Drawn(draws, j - 1) \in SUBSET Everyone(line)
      BY <2>9, <2>10 DEF n, E
    <3>2. Cardinality(Drawn(draws, j - 1) \cup draws[j]) = Cardinality(Drawn(draws, j - 1)) + count
      BY <1>o, <2>10, <3>1
    <3> QED
      BY <2>7, <3>2
  <2> QED
    BY <1>1, <2>2, <2>6, <2>8, <2>11
<1>7. i \in 0 .. R - 1 /\ i \in 0 .. R /\ i \in Nat
  BY <1>1 DEF R, n
<1> QED
  BY <1>4, <1>6, <1>7, <1>w DEF E

\* A random plan pays nobody out twice before its last round, and leaves out
\* fewer members than a round has recipients, whatever is drawn
\* (generateRounds, pickRecipients).
THEOREM EveryDrawSpreads ==
    ASSUME NEW S, NEW line \in Seq(S), NEW count, Accepts(line, count)
    PROVE  RandomSpreads(line, count)
<1> DEFINE n == Len(line)
           R == RoundsCount(n, count)
           E == Everyone(line)
<1>1. /\ n \in Nat \ {0} /\ count \in 1 .. n /\ count \in Nat \ {0} /\ R \in Nat \ {0}
      /\ IsFiniteSet(E) /\ Cardinality(E) = n
  <2>1. n \in Nat \ {0} /\ count \in 1 .. n
    BY DEF Accepts
  <2>2. R \in Nat \ {0}
    BY <2>1, QueueRounds
  <2>3. IsFiniteSet(E) /\ Cardinality(E) = n
    BY PlacesAndMembers
  <2> QED
    BY <2>1, <2>2, <2>3
<1>o. \A D \in SUBSET Everyone(line) : \A P \in RandomDraws(line, count, D) :
        Cardinality(D) + count <= Len(line) =>
            /\ P \subseteq Everyone(line) \ D /\ Cardinality(P) = count
            /\ Cardinality(D \cup P) = Cardinality(D) + count
  BY OneDraw
<1> SUFFICES ASSUME NEW draws \in GenerateRounds(line, count, "random", {})
             PROVE  /\ \A m \in E : Payouts(draws, m, Len(draws) - 1) <= 1
                    /\ Cardinality({m \in E : Payouts(draws, m, Len(draws)) = 0}) < count
  BY DEF RandomSpreads
<1>2. /\ draws \in [1 .. R -> SUBSET E]
      /\ \A j \in 1 .. R : draws[j] \in RandomDraws(line, count, AssignedBefore(draws, j, {}))
  BY <1>1 DEF GenerateRounds
<1>3. Len(draws) = R
  BY <1>1, <1>2
<1>4. \A j \in 1 .. R : AssignedBefore(draws, j, {}) = Drawn(draws, j - 1)
  BY DEF AssignedBefore, Drawn
<1>5. \A j \in 0 .. R - 1 : Drawn(draws, j) \in SUBSET E /\ Cardinality(Drawn(draws, j)) = j * count
  BY DrawnSoFar
<1>6. \A j \in 0 .. R - 1 : j * count \in Nat /\ j * count < n
  BY <1>1, RoundsFit
<1>7. (R - 1) * count + count >= n
  BY <1>1, RoundsFit
<1> HIDE DEF E, R, n
<1>8. ASSUME NEW j \in 1 .. R, j * count <= n
      PROVE  draws[j] \subseteq E \ Drawn(draws, j - 1) /\ Cardinality(draws[j]) = count
  <2>1. j - 1 \in 0 .. R - 1 /\ j \in Int /\ (j - 1) * count = j * count - count /\ j * count \in Int
    BY <1>1, Products
  <2>2. draws[j] \in RandomDraws(line, count, Drawn(draws, j - 1))
    BY <1>2, <1>4
  <2>3. Drawn(draws, j - 1) \in SUBSET Everyone(line) /\ Cardinality(Drawn(draws, j - 1)) + count <= Len(line)
    BY <1>1, <1>5, <1>8, <2>1 DEF E, n
  <2> QED
    BY <1>o, <2>2, <2>3 DEF E
<1>9. ASSUME NEW m \in E PROVE Payouts(draws, m, R - 1) <= 1
  <2> DEFINE when == {j \in 1 .. R - 1 : m \in draws[j]}
  <2>1. ASSUME NEW j \in when, NEW k \in when, j < k PROVE FALSE
    <3>1. k \in 1 .. R /\ k \in 0 .. R - 1 /\ j \in 1 .. k - 1
      BY <1>1, <2>1
    <3>2. draws[k] \subseteq E \ Drawn(draws, k - 1)
      BY <1>1, <1>6, <1>8, <3>1
    <3>3. draws[j] \subseteq Drawn(draws, k - 1)
      BY <3>1 DEF Drawn
    <3> QED
      BY <2>1, <3>2, <3>3
  <2>2. \A j, k \in when : j = k
    <3>1. \A j \in when : j \in Int
      OBVIOUS
    <3> HIDE DEF when
    <3> QED
      BY <2>1, <3>1
  <2> HIDE DEF when
  <2>3. Cardinality(when) <= 1
    <3>1. CASE when = {}
      BY <3>1, FS_EmptySet
    <3>2. CASE when # {}
      <4>1. PICK j \in when : TRUE
        BY <3>2
      <4>2. when = {j}
        BY <2>2, <4>1
      <4>3. Cardinality({j}) = 1
        BY FS_Singleton
      <4> QED
        BY <4>2, <4>3
    <3> QED
      BY <3>1, <3>2
  <2> QED
    BY <2>3 DEF Payouts, when
<1>10. Cardinality({m \in E : Payouts(draws, m, R) = 0}) < count
  <2> DEFINE left == E \ Drawn(draws, R - 1)
             unpaid == {m \in E : Payouts(draws, m, R) = 0}
  <2>1. R - 1 \in 0 .. R - 1 /\ R \in 1 .. R /\ R - 1 \in Int
    BY <1>1
  <2>2. Drawn(draws, R - 1) \in SUBSET E /\ Cardinality(Drawn(draws, R - 1)) = (R - 1) * count
        /\ (R - 1) * count \in Nat
    BY <1>5, <1>6, <2>1
  <2>3. IsFiniteSet(left) /\ Cardinality(left) = n - (R - 1) * count
    <3>1. E \cap Drawn(draws, R - 1) = Drawn(draws, R - 1)
      BY <2>2
    <3>2. /\ IsFiniteSet(E \ Drawn(draws, R - 1))
          /\ Cardinality(E \ Drawn(draws, R - 1)) = Cardinality(E) - Cardinality(E \cap Drawn(draws, R - 1))
      BY <1>1, FS_Difference
    <3> QED
      BY <1>1, <2>2, <3>1, <3>2
  <2>4. Cardinality(left) <= count
    BY <1>1, <1>7, <2>2, <2>3
  <2>5. ASSUME NEW m \in unpaid, NEW j \in 1 .. R PROVE m \notin draws[j]
    <3> DEFINE when == {k \in 1 .. R : m \in draws[k]}
    <3>1. Cardinality(when) = 0
      BY DEF Payouts
    <3>2. IsFiniteSet(when)
      <4>1. IsFiniteSet(1 .. R) /\ when \in SUBSET (1 .. R)
        BY <1>1, FS_Interval
      <4> QED
        BY <4>1, FS_Subset
    <3>3. when = {}
      BY <3>1, <3>2, FS_EmptySet
    <3> QED
      BY <3>3
  <2>6. unpaid \subseteq left /\ unpaid \subseteq left \ draws[R]
    <3>1. ASSUME NEW m \in unpaid PROVE m \in left /\ m \notin draws[R]
      BY <1>1, <2>1, <2>5 DEF Drawn
    <3> QED
      BY <3>1
  <2> HIDE DEF left, unpaid
  <2>7. IsFiniteSet(unpaid) /\ Cardinality(unpaid) \in Nat /\ Cardinality(unpaid) <= Cardinality(left)
        /\ Cardinality(left) \in Nat
    <3>1. unpaid \in SUBSET left
      BY <2>6
    <3>2. IsFiniteSet(unpaid) /\ Cardinality(unpaid) <= Cardinality(left)
      BY <2>3, <3>1, FS_Subset
    <3> QED
      BY <2>3, <3>2, FS_CardinalityType
  <2>8. CASE Cardinality(left) < count
    BY <1>1, <2>7, <2>8 DEF unpaid
  <2>9. CASE Cardinality(left) = count
    <3>1. R * count <= n
      <4>1. (R - 1) * count = R * count - count /\ R * count \in Int
        BY <1>1, Products
      <4> QED
        BY <1>1, <2>2, <2>3, <2>9, <4>1
    <3>2. draws[R] \subseteq left /\ Cardinality(draws[R]) = count
      BY <1>8, <2>1, <3>1 DEF left
    <3>3. draws[R] # {}
      BY <1>1, <3>2, FS_EmptySet
    <3>4. unpaid # left
      BY <2>6, <3>2, <3>3
    <3>5. Cardinality(unpaid) # Cardinality(left)
      <4>1. unpaid \in SUBSET left
        BY <2>6
      <4> QED
        BY <2>3, <3>4, <4>1, FS_Subset
    <3> QED
      BY <1>1, <2>7, <2>9, <3>5 DEF unpaid
  <2> QED
    BY <1>1, <2>4, <2>7, <2>8, <2>9 DEF unpaid
<1> QED
  BY <1>3, <1>9, <1>10 DEF E

\* Before the first request the draws for every queue a run looks at are spread.
THEOREM DrawsOfGroupsSpread == Spec => []RandomDrawsSpread
<1>1. ASSUME NEW line \in Lines, NEW n \in 1 .. Len(line) PROVE RandomSpreads(line, n)
  <2>1. line \in Seq(Everyone(line)) /\ Accepts(line, n)
    BY ConstantsAssumption DEF Accepts
  <2> QED
    BY <2>1, EveryDrawSpreads
<1>2. RandomDrawsSpread
  BY <1>1 DEF RandomDrawsSpread
<1> QED
  BY <1>2, PTL

=============================================================================
