---------------------------- MODULE Members_proofs ----------------------------
(***************************************************************************)
(* What Members promises whatever requests cross, proved for any members,  *)
(* capacities, places and handlers in flight.                              *)
(***************************************************************************)
EXTENDS Members, FiniteSetTheorems, WellFoundedInduction, TLAPS

\* The highest of some places is one of them.
LEMMA HighestOfSome ==
    ASSUME NEW S \in SUBSET (0 .. MaxPosition), S # {}
    PROVE  Max(S) \in S /\ \A p \in S : Max(S) >= p
<1> DEFINE Below == {MaxPosition - p : p \in S}
<1>1. Below \subseteq Nat /\ Below # {}
  <2>1. \A p \in S : p \in 0 .. MaxPosition /\ MaxPosition - p \in Nat
    BY ConstantsAssumption
  <2>2. PICK p \in S : TRUE
    OBVIOUS
  <2>3. MaxPosition - p \in Below
    BY <2>2
  <2> QED
    BY <2>1, <2>3
<1>2. PICK x \in Below : \A y \in Below : ~ (<<y, x>> \in OpToRel(<, Nat))
  BY <1>1, NatLessThanWellFounded, WFMin
<1>3. PICK p \in S : x = MaxPosition - p
  BY <1>2
<1>4. ASSUME NEW o \in S PROVE p >= o
  <2>1. MaxPosition - o \in Below /\ MaxPosition - o \in Nat /\ x \in Nat
    BY <1>1, <1>2
  <2>2. ~ (MaxPosition - o < x)
    BY <1>2, <2>1 DEF OpToRel
  <2> QED
    BY <1>3, <2>2, ConstantsAssumption
<1> QED
  BY <1>3, <1>4 DEF Max

\* What an idle handler keeps.
LEMMA NoLocalsType == NoLocals \in Locals
  BY ConstantsAssumption DEF NoLocals, Locals

\* A handler goes to its next call, the others stay where they are, and it is
\* noted if one of them is at work on the same topic.
LEMMA GotoMoves ==
    ASSUME TypeOK, NEW r \in Requests, NEW step, NEW l, Goto(r, step, l)
    PROVE  /\ pc'[r] = step /\ loc'[r] = l
           /\ \A q \in Requests \ {r} : pc'[q] = pc[q] /\ loc'[q] = loc[q]
           /\ crossed \subseteq crossed'
           /\ "exit" \in crossed' => "exit" \in crossed
           /\ \A t \in DOMAIN Topics \ crossed' :
                 step \in Topics[t] => \A q \in Requests \ {r} : pc[q] \notin Topics[t]
<1>1. "exit" \notin DOMAIN Topics
  BY DEF Topics
<1> QED
  BY <1>1 DEF TypeOK, Goto

\* The same, with the types.
LEMMA GotoOne ==
    ASSUME TypeOK, NEW r \in Requests, NEW step \in Steps, NEW l \in Locals, Goto(r, step, l)
    PROVE  /\ pc' \in [Requests -> Steps] /\ loc' \in [Requests -> Locals]
           /\ pc'[r] = step /\ loc'[r] = l
           /\ \A q \in Requests \ {r} : pc'[q] = pc[q] /\ loc'[q] = loc[q]
           /\ crossed' \in SUBSET (DOMAIN Topics \cup {"exit"})
           /\ crossed \subseteq crossed'
           /\ "exit" \in crossed' => "exit" \in crossed
           /\ \A t \in DOMAIN Topics \ crossed' :
                 step \in Topics[t] => \A q \in Requests \ {r} : pc[q] \notin Topics[t]
<1>1. /\ pc' \in [Requests -> Steps] /\ loc' \in [Requests -> Locals]
      /\ pc'[r] = step /\ loc'[r] = l
      /\ \A q \in Requests \ {r} : pc'[q] = pc[q] /\ loc'[q] = loc[q]
  BY DEF TypeOK, Goto
<1>2. "exit" \notin DOMAIN Topics
  BY DEF Topics
<1> QED
  BY <1>1, <1>2 DEF TypeOK, Goto

\* The same of a handler that ends.
LEMMA FinishOne ==
    ASSUME TypeOK, NEW r \in Requests, Finish(r)
    PROVE  Goto(r, "idle", NoLocals) /\ "idle" \in Steps /\ NoLocals \in Locals /\ begun' \in 0 .. MaxBegun
  BY NoLocalsType DEF Finish, Steps, TypeOK

\* The same of a handler that begins.
LEMMA StartOne ==
    ASSUME TypeOK, NEW r \in Requests, NEW step, NEW l, Start(r, step, l)
    PROVE  Goto(r, step, l) /\ begun' \in 0 .. MaxBegun /\ pc[r] = "idle"
  BY ConstantsAssumption DEF Start, TypeOK

-----------------------------------------------------------------------------
(* Types, and the founder. *)

\* What a handler about to make a call has read: a role, a place and terms where
\* they are written, a row that exists, and nothing that takes the founder's row
\* or role away.
Fits(step, l) ==
    /\ step \in {"addTx", "addWrite", "roleWrite"} => l.role \in Role
    /\ step \in {"addWrite", "swapRead", "swapWrite"} => l.position # 0
    /\ step \in {"swapRead", "swapWrite", "roleWrite", "removeWrite"} => l.user \in Existing
    /\ step = "swapWrite" => l.current # 0
    /\ step = "openWrite" => l.terms \in Terms
    /\ l.user = Founder =>
          /\ step \notin {"addWrite", "removeWrite"}
          /\ step \in {"swapRead", "swapWrite"} => l.role \in {"same", "owner"}
          /\ step = "roleWrite" => l.role = "owner"

Founded == TypeOK /\ FounderStays /\ \A r \in Requests : Fits(pc[r], loc[r])

\* What every write leaves of the rows.
RowsStay ==
    /\ member' \in [Users -> Row]
    /\ \A u \in Users :
         /\ u \in Existing => member'[u].status # "none"
         /\ member'[u].status # "none" => member'[u].position # 0
    /\ member'[Founder].status = "active" /\ member'[Founder].role = "owner"

\* The rest of the state keeps its type.
RestTyped ==
    /\ maxMembers' \in Capacities /\ terms' \in Terms
    /\ cycle' \in {"none", "open", "in_progress"} /\ agreed' \in Terms
    /\ paid' \in SUBSET Users /\ placed' \in BOOLEAN

\* A call that leaves the rows, leaves them well.
LEMMA SameRowsStay == Founded /\ UNCHANGED rows => RowsStay
  BY ConstantsAssumption DEF Founded, TypeOK, FounderStays, RowsStay, rows, Existing, Row

\* A call that leaves everything else keeps its type.
LEMMA SameRestTyped == Founded /\ UNCHANGED <<settings, round, placed>> => RestTyped
  BY DEF Founded, TypeOK, RestTyped, settings, round

\* A handler that goes on with what fits its next call keeps the invariant.
LEMMA GoesOn ==
    ASSUME Founded, NEW r \in Requests, NEW step \in Steps, NEW l \in Locals, Goto(r, step, l),
           Fits(step, l), RowsStay, RestTyped, begun' \in 0 .. MaxBegun
    PROVE  Founded'
<1>1. TypeOK
  BY DEF Founded
<1>2. TypeOK'
  BY <1>1, GotoOne DEF TypeOK, RowsStay, RestTyped, Existing
<1>3. FounderStays'
  BY DEF RowsStay, FounderStays
<1>4. ASSUME NEW q \in Requests PROVE Fits(pc[q], loc[q])'
  <2>1. Existing \subseteq Existing'
    BY DEF RowsStay, Existing
  <2>2. CASE q = r
    BY <1>1, <2>1, <2>2, GotoOne DEF Fits
  <2>3. CASE q # r
    <3>1. pc'[q] = pc[q] /\ loc'[q] = loc[q] /\ Fits(pc[q], loc[q])
      BY <1>1, <2>3, GotoOne DEF Founded
    <3> QED
      BY <2>1, <3>1 DEF Fits
  <2> QED
    BY <2>2, <2>3
<1> QED
  BY <1>2, <1>3, <1>4 DEF Founded

\* So does one that ends.
LEMMA Ends ==
    ASSUME Founded, NEW r \in Requests, Finish(r), RowsStay, RestTyped
    PROVE  Founded'
<1>1. TypeOK
  BY DEF Founded
<1>2. Fits("idle", NoLocals)
  BY DEF Fits
<1> QED
  BY <1>1, <1>2, FinishOne, GoesOn

\* And one that only reads.
LEMMA Begins ==
    ASSUME Founded, NEW r \in Requests, NEW step \in Steps, NEW l \in Locals, Start(r, step, l),
           Fits(step, l), UNCHANGED <<rows, settings, round>>, placed' \in BOOLEAN
    PROVE  Founded'
<1>1. TypeOK
  BY DEF Founded
<1>2. RowsStay /\ RestTyped
  BY <1>1, SameRowsStay DEF RestTyped, TypeOK, settings, round
<1> QED
  BY <1>1, <1>2, StartOne, GoesOn

LEMMA FoundedBegin ==
    ASSUME Founded, NEW r \in Requests, Begin(r)
    PROVE  Founded'
<1> USE ConstantsAssumption
<1>1. TypeOK /\ FounderStays
  BY DEF Founded
<1>2. ASSUME NEW u \in Users, NEW role \in Role, NEW position \in Places, AddRead(r, u, role, position)
      PROVE  Founded'
  <2> DEFINE l == [NoLocals EXCEPT !.user = u, !.role = role, !.position = position]
  <2>1. l \in Locals /\ Fits("addTx", l)
    BY NoLocalsType DEF Locals, Fits
  <2>2. Start(r, "addTx", l) /\ UNCHANGED <<rows, settings, round>> /\ placed' \in BOOLEAN
    BY <1>1, <1>2 DEF AddRead, TypeOK
  <2> HIDE DEF l
  <2> QED
    BY <2>1, <2>2, Begins DEF Steps
<1>3. ASSUME NEW u \in Users, NEW role \in Role \cup {"same"}, NEW position \in Places,
             UpdateRead(r, u, role, position)
      PROVE  Founded'
  <2>1. /\ u \in Existing /\ UNCHANGED <<rows, settings, round, placed>>
        /\ u = Founder => role \in {"same", "owner"}
    BY <1>1, <1>3 DEF UpdateRead, DemotesOwner, FounderStays
  <2>2. CASE position \notin {0, member[u].position}
    <3> DEFINE l == [NoLocals EXCEPT !.user = u, !.role = role, !.position = position]
    <3>1. l \in Locals /\ Fits("swapRead", l)
      BY <2>1, <2>2, NoLocalsType DEF Locals, Fits
    <3>2. Start(r, "swapRead", l)
      BY <1>3, <2>2 DEF UpdateRead
    <3> HIDE DEF l
    <3> QED
      BY <1>1, <2>1, <3>1, <3>2, Begins DEF Steps, TypeOK
  <2>3. CASE position \in {0, member[u].position}
    <3> DEFINE l == [NoLocals EXCEPT !.user = u, !.role = role]
    <3>1. Start(r, "roleWrite", l) /\ role # "same"
      BY <1>3, <2>3 DEF UpdateRead
    <3>2. l \in Locals /\ Fits("roleWrite", l)
      BY <2>1, <3>1, NoLocalsType DEF Locals, Fits
    <3> HIDE DEF l
    <3> QED
      BY <1>1, <2>1, <3>1, <3>2, Begins DEF Steps, TypeOK
  <2> QED
    BY <2>2, <2>3
<1>4. ASSUME NEW u \in Users, RemoveRead(r, u) PROVE Founded'
  <2> DEFINE l == [NoLocals EXCEPT !.user = u]
  <2>1. l \in Locals /\ Fits("removeWrite", l)
    BY <1>1, <1>4, NoLocalsType DEF Locals, Fits, RemoveRead, FounderStays
  <2>2. Start(r, "removeWrite", l) /\ UNCHANGED <<rows, settings, round, placed>>
    BY <1>4 DEF RemoveRead
  <2> HIDE DEF l
  <2> QED
    BY <1>1, <2>1, <2>2, Begins DEF Steps, TypeOK
<1>5. ASSUME NEW max \in Capacities \cup {0}, NEW t \in Terms \cup {0}, SettingsRead(r, max, t)
      PROVE  Founded'
  <2> DEFINE l == [NoLocals EXCEPT !.max = max, !.terms = t]
  <2>1. l \in Locals /\ Fits("settingsWrite", l)
    BY NoLocalsType DEF Locals, Fits
  <2>2. Start(r, "settingsWrite", l) /\ UNCHANGED <<rows, settings, round, placed>>
    BY <1>5 DEF SettingsRead
  <2> HIDE DEF l
  <2> QED
    BY <1>1, <2>1, <2>2, Begins DEF Steps, TypeOK
<1>6. ASSUME OpenRead(r) PROVE Founded'
  <2> DEFINE l == [NoLocals EXCEPT !.terms = terms]
  <2>1. l \in Locals /\ Fits("openWrite", l)
    BY <1>1, NoLocalsType DEF Locals, Fits, TypeOK
  <2>2. Start(r, "openWrite", l) /\ UNCHANGED <<rows, settings, round, placed>>
    BY <1>6 DEF OpenRead
  <2> HIDE DEF l
  <2> QED
    BY <1>1, <2>1, <2>2, Begins DEF Steps, TypeOK
<1> QED
  BY <1>2, <1>3, <1>4, <1>5, <1>6 DEF Begin

\* The next place is one, and is free among the active members.
LEMMA NextIsFree ==
    ASSUME TypeOK, FounderStays
    PROVE  /\ NextPosition \in Nat \ {0}
           /\ \A u \in Active : member[u].position # NextPosition
<1> DEFINE S == {member[u].position : u \in Active}
<1>1. S \in SUBSET (0 .. MaxPosition) /\ S # {}
  <2>1. Founder \in Active
    BY ConstantsAssumption DEF FounderStays, Active
  <2>2. \A u \in Active : member[u].position \in 0 .. MaxPosition
    BY DEF TypeOK, Active, Row
  <2> QED
    BY <2>1, <2>2
<1>2. Max(S) \in S /\ \A p \in S : Max(S) >= p
  BY <1>1, HighestOfSome
<1>3. Max(S) \in 0 .. MaxPosition /\ \A u \in Active : member[u].position \in S
  BY <1>1, <1>2
<1>4. NextPosition = Max(S) + 1
  BY DEF NextPosition
<1> HIDE DEF S
<1> QED
  BY <1>1, <1>2, <1>3, <1>4, ConstantsAssumption

\* The local record and the user of a handler.
LEMMA LocalsOf ==
    ASSUME Founded, NEW r \in Requests
    PROVE  /\ loc[r] \in Locals /\ pc[r] \in Steps /\ Fits(pc[r], loc[r])
           /\ loc[r].user \in Users /\ loc[r].other \in Users
           /\ loc[r].position \in 0 .. MaxPosition /\ loc[r].current \in 0 .. MaxPosition
           /\ loc[r].role \in Role \cup {"same"} /\ loc[r].terms \in Terms \cup {0}
           /\ loc[r].max \in Capacities \cup {0}
<1>1. loc[r] \in Locals /\ pc[r] \in Steps /\ Fits(pc[r], loc[r])
  BY DEF Founded, TypeOK
<1> QED
  BY <1>1 DEF Locals

\* addMember's transaction finds the member active, or takes a place.
LEMMA FoundedAddTx == ASSUME Founded, NEW r \in Requests, AddTx(r) PROVE Founded'
<1> USE ConstantsAssumption
<1>1. TypeOK /\ FounderStays
  BY DEF Founded
<1>2. RowsStay /\ RestTyped
  BY <1>1, SameRowsStay, SameRestTyped DEF AddTx
<1>3. CASE loc[r].user \in Active
  BY <1>2, <1>3, Ends DEF AddTx
<1>4. CASE loc[r].user \notin Active
  <2>1. /\ pc[r] = "addTx" /\ Place(r) <= MaxPosition /\ UNCHANGED begun
        /\ Goto(r, "addWrite", [loc[r] EXCEPT !.position = Place(r), !.found = member[loc[r].user].status])
    BY <1>4 DEF AddTx
  <2>2. Place(r) \in 0 .. MaxPosition /\ Place(r) # 0
    BY <1>1, <2>1, NextIsFree, LocalsOf DEF Place
  <2>3. member[loc[r].user].status \in {"none", "exited"}
    BY <1>1, <1>4, LocalsOf DEF Active, TypeOK, Row
  <2>4. loc[r].user # Founder
    BY <1>1, <1>4 DEF FounderStays, Active
  <2> DEFINE l == [loc[r] EXCEPT !.position = Place(r), !.found = member[loc[r].user].status]
  <2>5. l \in Locals
    BY <2>2, <2>3, LocalsOf DEF Locals
  <2>6. l.user = loc[r].user /\ l.role = loc[r].role /\ l.position = Place(r)
    BY LocalsOf DEF Locals
  <2>7. Fits("addWrite", l)
    BY <2>1, <2>2, <2>4, <2>6, LocalsOf DEF Fits
  <2> HIDE DEF l
  <2>8. begun' \in 0 .. MaxBegun
    BY <1>1, <2>1 DEF TypeOK
  <2>9. Goto(r, "addWrite", l)
    BY <2>1 DEF l
  <2> QED
    BY <1>2, <2>5, <2>7, <2>8, <2>9, GoesOn DEF Steps
<1> QED
  BY <1>3, <1>4

\* A write of addMember takes a row that is not the founder's.
LEMMA FoundedAddWrite == ASSUME Founded, NEW r \in Requests, AddWrite(r) PROVE Founded'
<1>1. TypeOK /\ FounderStays
  BY DEF Founded
<1>2. RestTyped
  BY SameRestTyped DEF AddWrite
<1>3. pc[r] = "addWrite" /\ Finish(r)
  BY DEF AddWrite
<1>4. RowsStay
  <2>1. CASE UNCHANGED rows
    BY <2>1, SameRowsStay
  <2>2. CASE member' = [member EXCEPT ![loc[r].user] =
                          [status |-> "active", role |-> loc[r].role, position |-> loc[r].position]]
    <3>1. loc[r].user # Founder /\ loc[r].role \in Role /\ loc[r].position # 0
      BY <1>3, LocalsOf DEF Fits
    <3>2. [status |-> "active", role |-> loc[r].role, position |-> loc[r].position] \in Row
      BY <3>1, LocalsOf DEF Row
    <3>3. member' \in [Users -> Row]
      BY <1>1, <2>2, <3>2 DEF TypeOK
    <3> QED
      BY <1>1, <2>2, <3>1, <3>3, LocalsOf, ConstantsAssumption
         DEF RowsStay, TypeOK, FounderStays, Existing
  <2> QED
    BY <2>1, <2>2 DEF AddWrite
<1> QED
  BY <1>2, <1>3, <1>4, Ends

LEMMA FoundedRoleWrite == ASSUME Founded, NEW r \in Requests, RoleWrite(r) PROVE Founded'
<1>1. TypeOK /\ FounderStays
  BY DEF Founded
<1>2. RestTyped /\ Finish(r) /\ pc[r] = "roleWrite"
  BY SameRestTyped DEF RoleWrite
<1>3. member' = [member EXCEPT ![loc[r].user].role = loc[r].role]
  BY DEF RoleWrite
<1>4. loc[r].role \in Role /\ (loc[r].user = Founder => loc[r].role = "owner")
  BY <1>2, LocalsOf DEF Fits
<1>5. \A u \in Users : /\ member'[u].status = member[u].status
                       /\ member'[u].position = member[u].position
                       /\ member'[u].role = IF u = loc[r].user THEN loc[r].role ELSE member[u].role
  BY <1>1, <1>3, LocalsOf DEF TypeOK, Row
<1>6. member' \in [Users -> Row]
  BY <1>1, <1>3, <1>4, LocalsOf DEF TypeOK, Row
<1>7. RowsStay
  BY <1>1, <1>4, <1>5, <1>6, ConstantsAssumption DEF RowsStay, TypeOK, FounderStays, Existing
<1> QED
  BY <1>2, <1>7, Ends

\* The occupant a swap finds is a row there is.
LEMMA FoundedSwapRead == ASSUME Founded, NEW r \in Requests, SwapRead(r) PROVE Founded'
<1>1. TypeOK /\ FounderStays
  BY DEF Founded
<1>2. pc[r] = "swapRead" /\ UNCHANGED <<rows, settings, round, begun>>
  BY DEF SwapRead
<1>3. PICK v \in Users :
         /\ Goto(r, "swapWrite", [loc[r] EXCEPT !.other = v, !.current = member[loc[r].user].position])
         /\ placed' = (placed \/ {loc[r].user, v} \ Active # {})
  BY LocalsOf DEF SwapRead, Existing
<1> DEFINE l == [loc[r] EXCEPT !.other = v, !.current = member[loc[r].user].position]
<1>4. Fits("swapRead", loc[r])
  BY <1>2, LocalsOf
<1>5. member[loc[r].user].position \in 0 .. MaxPosition /\ member[loc[r].user].position # 0
  BY <1>1, <1>4, LocalsOf DEF Fits, TypeOK, Row
<1>6. /\ l \in Locals /\ l.user = loc[r].user /\ l.role = loc[r].role
      /\ l.position = loc[r].position /\ l.current = member[loc[r].user].position
  BY <1>5, LocalsOf DEF Locals
<1>7. Fits("swapWrite", l)
  BY <1>4, <1>5, <1>6 DEF Fits
<1>8. RowsStay /\ RestTyped /\ begun' \in 0 .. MaxBegun
  BY <1>1, <1>2, <1>3, SameRowsStay DEF RestTyped, TypeOK, settings, round
<1>9. Goto(r, "swapWrite", l)
  BY <1>3
<1> HIDE DEF l
<1> QED
  BY <1>6, <1>7, <1>8, <1>9, GoesOn DEF Steps

\* What a swap writes, row by row.
LEMMA SwapRows ==
    ASSUME Founded, NEW r \in Requests, SwapWrite(r)
    PROVE  /\ member' \in [Users -> Row]
           /\ \A u \in Users :
                 /\ member'[u].status = member[u].status
                 /\ member'[u].role = IF u = loc[r].user THEN NewRole(r) ELSE member[u].role
                 /\ member'[u].position = IF u = loc[r].user THEN loc[r].position
                                          ELSE IF u = loc[r].other THEN loc[r].current
                                          ELSE member[u].position
<1> DEFINE moved == [member EXCEPT ![loc[r].other].position = loc[r].current]
           settled == [moved EXCEPT ![loc[r].user].position = loc[r].position]
<1>1. member' = [settled EXCEPT ![loc[r].user].role = NewRole(r)]
  BY DEF SwapWrite
<1>2. /\ loc[r].position \in 0 .. MaxPosition /\ loc[r].current \in 0 .. MaxPosition
      /\ NewRole(r) \in Role /\ member \in [Users -> Row]
  BY LocalsOf DEF NewRole, Founded, TypeOK, Row, Locals
<1>3. \A u \in Users :
        moved[u] = IF u = loc[r].other THEN [member[u] EXCEPT !.position = loc[r].current] ELSE member[u]
  BY <1>2
<1>4. moved = [u \in Users |-> moved[u]]
  BY <1>2
<1> HIDE DEF moved
<1>5. \A u \in Users :
        /\ moved[u] \in Row
        /\ moved[u].status = member[u].status /\ moved[u].role = member[u].role
        /\ moved[u].position = IF u = loc[r].other THEN loc[r].current ELSE member[u].position
  <2> TAKE u \in Users
  <2>1. CASE u = loc[r].other
    BY <1>2, <1>3, <2>1 DEF Row
  <2>2. CASE u # loc[r].other
    BY <1>2, <1>3, <2>2
  <2> QED
    BY <2>1, <2>2
<1>6. \A u \in Users :
        settled[u] = IF u = loc[r].user THEN [moved[u] EXCEPT !.position = loc[r].position] ELSE moved[u]
  BY <1>4
<1>7. settled = [u \in Users |-> settled[u]]
  BY <1>4
<1> HIDE DEF settled
<1>8. \A u \in Users :
        /\ settled[u] \in Row
        /\ settled[u].status = moved[u].status /\ settled[u].role = moved[u].role
        /\ settled[u].position = IF u = loc[r].user THEN loc[r].position ELSE moved[u].position
  <2> TAKE u \in Users
  <2>1. CASE u = loc[r].user
    <3>1. moved[u] \in Row /\ settled[u] = [moved[u] EXCEPT !.position = loc[r].position]
      BY <1>5, <1>6, <2>1
    <3> QED
      BY <1>2, <2>1, <3>1 DEF Row
  <2>2. CASE u # loc[r].user
    BY <1>2, <1>5, <1>6, <2>2
  <2> QED
    BY <2>1, <2>2
<1>9. \A u \in Users :
        member'[u] = IF u = loc[r].user THEN [settled[u] EXCEPT !.role = NewRole(r)] ELSE settled[u]
  BY <1>1, <1>7
<1>10. member' = [u \in Users |-> member'[u]]
  BY <1>1, <1>7
<1>11. \A u \in Users :
        /\ member'[u] \in Row
        /\ member'[u].status = settled[u].status /\ member'[u].position = settled[u].position
        /\ member'[u].role = IF u = loc[r].user THEN NewRole(r) ELSE settled[u].role
  <2> TAKE u \in Users
  <2>1. CASE u = loc[r].user
    <3>1. settled[u] \in Row /\ member'[u] = [settled[u] EXCEPT !.role = NewRole(r)]
      BY <1>8, <1>9, <2>1
    <3> QED
      BY <1>2, <2>1, <3>1 DEF Row
  <2>2. CASE u # loc[r].user
    BY <1>2, <1>8, <1>9, <2>2
  <2> QED
    BY <2>1, <2>2
<1> QED
  BY <1>5, <1>8, <1>10, <1>11

LEMMA FoundedSwapWrite == ASSUME Founded, NEW r \in Requests, SwapWrite(r) PROVE Founded'
<1>1. TypeOK /\ FounderStays
  BY DEF Founded
<1>2. RestTyped /\ Finish(r) /\ pc[r] = "swapWrite"
  BY SameRestTyped DEF SwapWrite
<1>3. Fits("swapWrite", loc[r])
  BY <1>2, LocalsOf
<1>4. loc[r].user = Founder => NewRole(r) = "owner"
  BY <1>1, <1>3 DEF Fits, NewRole, FounderStays
<1>5. loc[r].position # 0 /\ loc[r].current # 0
  BY <1>3 DEF Fits
<1>6. RowsStay
  BY <1>1, <1>4, <1>5, SwapRows, ConstantsAssumption DEF RowsStay, TypeOK, FounderStays, Existing
<1> QED
  BY <1>2, <1>6, Ends

LEMMA FoundedRemoveWrite == ASSUME Founded, NEW r \in Requests, RemoveWrite(r) PROVE Founded'
<1>1. TypeOK /\ FounderStays
  BY DEF Founded
<1>2. RestTyped /\ Finish(r) /\ pc[r] = "removeWrite"
  BY SameRestTyped DEF RemoveWrite
<1>3. member' = [member EXCEPT ![loc[r].user].status = "exited"]
  BY DEF RemoveWrite
<1>4. loc[r].user # Founder /\ loc[r].user \in Existing
  BY <1>2, LocalsOf DEF Fits
<1>5. member' \in [Users -> Row]
  BY <1>1, <1>3, LocalsOf DEF TypeOK, Row
<1>6. RowsStay
  BY <1>1, <1>3, <1>4, <1>5, LocalsOf, ConstantsAssumption DEF RowsStay, TypeOK, FounderStays, Existing, Row
<1> QED
  BY <1>2, <1>6, Ends

\* The settings and the cycle are written with what fits them.
LEMMA FoundedSettled ==
    ASSUME Founded, NEW r \in Requests, SettingsWrite(r) \/ OpenWrite(r)
    PROVE  Founded'
<1>1. TypeOK
  BY DEF Founded
<1>2. CASE SettingsWrite(r)
  <2>1. RowsStay /\ Finish(r)
    BY <1>2, SameRowsStay DEF SettingsWrite
  <2>2. RestTyped
    BY <1>1, <1>2, LocalsOf DEF SettingsWrite, RestTyped, TypeOK, round
  <2> QED
    BY <2>1, <2>2, Ends
<1>3. CASE OpenWrite(r)
  <2>1. RowsStay /\ Finish(r)
    BY <1>3, SameRowsStay DEF OpenWrite
  <2>2. RestTyped
    BY <1>1, <1>3, LocalsOf DEF OpenWrite, RestTyped, TypeOK, settings, Fits
  <2> QED
    BY <2>1, <2>2, Ends
<1> QED
  BY <1>2, <1>3

LEMMA FoundedStep == Founded /\ [Next]_vars => Founded'
<1> SUFFICES ASSUME Founded, [Next]_vars PROVE Founded'
  OBVIOUS
<1>1. TypeOK /\ FounderStays
  BY DEF Founded
<1>2. ASSUME NEW r \in Requests, Resume(r) PROVE Founded'
  BY <1>2, FoundedAddTx, FoundedAddWrite, FoundedRoleWrite, FoundedSwapRead, FoundedSwapWrite,
     FoundedRemoveWrite, FoundedSettled DEF Resume
<1>3. ASSUME NEW r \in Requests, Fail(r) PROVE Founded'
  BY <1>3, SameRowsStay, SameRestTyped, Ends DEF Fail
<1>4. CASE Environment \/ UNCHANGED vars
  <2>1. UNCHANGED <<rows, settings, pc, loc, begun, placed>>
    BY <1>4 DEF Environment, StartCycle, CompleteCycle, PayOut, vars
  <2>2. /\ cycle' \in {"none", "open", "in_progress"} /\ agreed' \in Terms /\ paid' \in SUBSET Users
        /\ crossed' \in SUBSET (DOMAIN Topics \cup {"exit"})
    BY <1>1, <1>4 DEF Environment, StartCycle, CompleteCycle, PayOut, vars, round, TypeOK, Terms, Existing
  <2>3. TypeOK'
    BY <1>1, <2>1, <2>2 DEF TypeOK, rows, settings, Existing
  <2>4. Existing' = Existing /\ FounderStays'
    BY <1>1, <2>1 DEF Existing, FounderStays, rows
  <2> QED
    BY <2>1, <2>3, <2>4 DEF Founded, Fits
<1> QED
  BY <1>2, <1>3, <1>4, FoundedBegin DEF Next

LEMMA FoundedInit == Init => Founded
<1> SUFFICES ASSUME Init PROVE Founded
  OBVIOUS
<1> USE ConstantsAssumption
<1>1. /\ [status |-> "active", role |-> "owner", position |-> 1] \in Row
      /\ NoRow \in Row /\ NoRow.status = "none"
  BY DEF Row, NoRow
<1>2. member \in [Users -> Row] /\ \A u \in Existing : member[u].position # 0
  BY <1>1 DEF Init, Existing
<1>3. pc \in [Requests -> Steps] /\ loc \in [Requests -> Locals]
  BY NoLocalsType DEF Init, Steps
<1>4. /\ maxMembers \in Capacities /\ terms \in Terms
      /\ cycle \in {"none", "open", "in_progress"} /\ agreed \in Terms
      /\ begun \in 0 .. MaxBegun
      /\ paid \in SUBSET Users /\ placed \in BOOLEAN /\ crossed \in SUBSET (DOMAIN Topics \cup {"exit"})
  <2>1. begun \in 0 .. MaxBegun
    BY DEF Init
  <2>2. paid = {} /\ crossed = {} /\ placed = FALSE
    BY DEF Init
  <2>3. paid \in SUBSET Users /\ placed \in BOOLEAN /\ crossed \in SUBSET (DOMAIN Topics \cup {"exit"})
    BY <2>2, Zenon
  <2> QED
    BY <2>1, <2>3 DEF Init, Terms
<1>5. TypeOK
  BY <1>2, <1>3, <1>4 DEF TypeOK
<1>6. FounderStays
  BY DEF Init, FounderStays
<1> QED
  BY <1>5, <1>6 DEF Init, Founded, Fits

LEMMA StaysFounded == Spec => []Founded
  BY FoundedInit, FoundedStep, PTL DEF Spec

\* The types of the members, for any of them and any requests (groups and
\* members services).
THEOREM TypeCorrect == Spec => []TypeOK
<1>1. Founded => TypeOK
  BY DEF Founded
<1> QED
  BY <1>1, StaysFounded, PTL

\* The founder stays an active owner, whatever additions, swaps, demotions and
\* removals cross (updateMember, removeMember).
THEOREM EveryGroupKeepsItsOwner == Spec => []FounderStays
<1>1. Founded => FounderStays
  BY DEF Founded
<1> QED
  BY <1>1, StaysFounded, PTL

-----------------------------------------------------------------------------
(* Handlers that do not cross. *)

\* Until two handlers are noted to have been at work on a topic, one at most is.
Alone(topic) ==
    topic \notin crossed =>
        \A q, r \in Requests : pc[q] \in Topics[topic] /\ pc[r] \in Topics[topic] => q = r

OneAtATime == \A topic \in DOMAIN Topics : Alone(topic)

LEMMA GotoAlone ==
    ASSUME TypeOK, OneAtATime, NEW r \in Requests, NEW step, NEW l, Goto(r, step, l)
    PROVE  OneAtATime'
<1> SUFFICES ASSUME NEW t \in DOMAIN Topics, t \notin crossed',
                    NEW p \in Requests, NEW q \in Requests,
                    pc'[p] \in Topics[t], pc'[q] \in Topics[t]
             PROVE  p = q
  BY DEF OneAtATime, Alone
<1>1. t \notin crossed /\ Alone(t)
  BY GotoMoves DEF OneAtATime
<1>2. CASE step \in Topics[t]
  BY <1>2, GotoMoves
<1>3. CASE step \notin Topics[t]
  BY <1>1, <1>3, GotoMoves DEF Alone
<1> QED
  BY <1>2, <1>3

\* Every request moves by Goto.
LEMMA RequestsMove ==
    ASSUME NEW r \in Requests, Begin(r) \/ Resume(r) \/ Fail(r)
    PROVE  \E step, l : Goto(r, step, l)
<1>1. CASE Fail(r)
  BY <1>1 DEF Fail, Finish
<1>2. CASE Begin(r)
  BY <1>2 DEF Begin, AddRead, UpdateRead, RemoveRead, SettingsRead, OpenRead, Start
<1>3. CASE AddTx(r) \/ SwapRead(r)
  BY <1>3 DEF AddTx, SwapRead, Finish
<1>4. CASE AddWrite(r) \/ RoleWrite(r) \/ SwapWrite(r) \/ RemoveWrite(r) \/ SettingsWrite(r) \/ OpenWrite(r)
  BY <1>4 DEF AddWrite, RoleWrite, SwapWrite, RemoveWrite, SettingsWrite, OpenWrite, Finish
<1> QED
  BY <1>1, <1>2, <1>3, <1>4 DEF Resume

\* The two calls that go on to a write.
LEMMA AddTxMoves ==
    ASSUME NEW r \in Requests, AddTx(r)
    PROVE  pc[r] = "addTx" /\ \E step, l : Goto(r, step, l) /\ step \in {"idle", "addWrite"}
<1>1. Goto(r, "idle", NoLocals) \/ \E l : Goto(r, "addWrite", l)
  BY DEF AddTx, Finish
<1> QED
  BY <1>1 DEF AddTx

LEMMA SwapReadMoves ==
    ASSUME NEW r \in Requests, SwapRead(r)
    PROVE  \E l : Goto(r, "swapWrite", l)
  BY DEF SwapRead

\* What happens to the cycle moves no request and crosses only removals.
LEMMA EnvironmentLeaves ==
    ASSUME Environment \/ UNCHANGED vars
    PROVE  /\ UNCHANGED <<rows, settings, pc, loc, begun, placed>>
           /\ crossed \subseteq crossed' /\ \A t \in DOMAIN Topics : t \in crossed' => t \in crossed
  BY DEF Environment, StartCycle, CompleteCycle, PayOut, vars, Topics

LEMMA OneAtATimeStep == Founded /\ OneAtATime /\ [Next]_vars => OneAtATime'
<1> SUFFICES ASSUME Founded, OneAtATime, [Next]_vars PROVE OneAtATime'
  OBVIOUS
<1>1. TypeOK
  BY DEF Founded
<1>2. ASSUME NEW r \in Requests, Begin(r) \/ Resume(r) \/ Fail(r) PROVE OneAtATime'
  <2>1. PICK step, l : Goto(r, step, l)
    BY <1>2, RequestsMove
  <2> QED
    BY <1>1, <2>1, GotoAlone
<1>3. CASE Environment \/ UNCHANGED vars
  BY <1>3, EnvironmentLeaves DEF OneAtATime, Alone
<1> QED
  BY <1>2, <1>3 DEF Next

\* While a topic is uncrossed, the handler at work on it is the only one.
LEMMA NobodyElse ==
    ASSUME OneAtATime, NEW t \in DOMAIN Topics, t \notin crossed,
           NEW r \in Requests, pc[r] \in Topics[t]
    PROVE  \A q \in Requests \ {r} : pc[q] \notin Topics[t]
  BY DEF OneAtATime, Alone

-----------------------------------------------------------------------------
(* Places. *)

Spread == \A u, v \in Active : member[u].position = member[v].position => u = v

\* What a handler is going to write collides with nobody it does not move.
Spaces(r) ==
    /\ pc[r] = "addTx" => loc[r].position = 0
    /\ pc[r] = "addWrite" =>
          \A w \in Active \ {loc[r].user} : member[w].position # loc[r].position
    /\ pc[r] = "swapWrite" =>
          /\ \A w \in Active \ {loc[r].user, loc[r].other} :
                member[w].position \notin {loc[r].position, loc[r].current}
          /\ loc[r].other # loc[r].user => loc[r].position # loc[r].current

Undisturbed == "position" \notin crossed /\ ~ placed

Spaced == Undisturbed => Spread /\ \A r \in Requests : Spaces(r)

\* A call that moves no active member, and is going to write what fits.
LEMMA StaysSpaced ==
    ASSUME TypeOK, Spaced, NEW r \in Requests, NEW step, NEW l, Goto(r, step, l),
           Active' \subseteq Active, \A u \in Active' : member'[u].position = member[u].position,
           Undisturbed' => Undisturbed /\ Spaces(r)'
    PROVE  Spaced'
<1> SUFFICES ASSUME Undisturbed' PROVE Spread' /\ \A q \in Requests : Spaces(q)'
  BY DEF Spaced
<1>1. Spread /\ Spaces(r)' /\ \A q \in Requests : Spaces(q)
  BY DEF Spaced
<1>2. Spread'
  BY <1>1 DEF Spread
<1>3. ASSUME NEW q \in Requests \ {r} PROVE Spaces(q)'
  <2>1. pc'[q] = pc[q] /\ loc'[q] = loc[q] /\ Spaces(q)
    BY <1>1, GotoMoves
  <2> QED
    BY <2>1 DEF Spaces
<1> QED
  BY <1>1, <1>2, <1>3

\* In particular one whose next call writes no place.
LEMMA StaysSpacedElsewhere ==
    ASSUME TypeOK, Spaced, NEW r \in Requests, NEW step, NEW l, Goto(r, step, l),
           step \notin {"addTx", "addWrite", "swapWrite"}, placed' = placed,
           Active' \subseteq Active, \A u \in Active' : member'[u].position = member[u].position
    PROVE  Spaced'
<1>1. Spaces(r)'
  BY GotoMoves DEF Spaces
<1>2. Undisturbed' => Undisturbed
  BY GotoMoves DEF Undisturbed
<1> QED
  BY <1>1, <1>2, StaysSpaced

\* A call that writes places is the only one about to, so that it is enough
\* that it leaves them distinct.
LEMMA WritesSpaced ==
    ASSUME TypeOK, OneAtATime, Spaced, NEW r \in Requests, Finish(r), placed' = placed,
           pc[r] \in {"addWrite", "swapWrite"},
           Spread /\ Spaces(r) => Spread'
    PROVE  Spaced'
<1> SUFFICES ASSUME Undisturbed' PROVE Spread' /\ \A q \in Requests : Spaces(q)'
  BY DEF Spaced
<1>1. Goto(r, "idle", NoLocals)
  BY DEF Finish
<1>2. "position" \in DOMAIN Topics /\ pc[r] \in Topics["position"]
      /\ {"addTx", "addWrite", "swapWrite"} \subseteq Topics["position"]
  BY DEF Topics
<1>3. "position" \notin crossed /\ Undisturbed
  BY <1>1, GotoMoves DEF Undisturbed
<1>4. Spread'
  BY <1>3 DEF Spaced
<1>5. \A q \in Requests \ {r} : pc[q] \notin Topics["position"]
  BY <1>2, <1>3, NobodyElse
<1>6. \A q \in Requests : pc'[q] \notin {"addTx", "addWrite", "swapWrite"}
  BY <1>1, <1>2, <1>5, GotoMoves
<1> QED
  BY <1>4, <1>6 DEF Spaces

LEMMA SpacedBegin ==
    ASSUME Founded, Spaced, NEW r \in Requests, Begin(r)
    PROVE  Spaced'
<1>1. TypeOK
  BY DEF Founded
<1>2. member' = member
  BY DEF Begin, AddRead, UpdateRead, RemoveRead, SettingsRead, OpenRead, rows
<1>3. Active' = Active /\ \A u \in Active' : member'[u].position = member[u].position
  BY <1>2 DEF Active
<1>4. ASSUME NEW u \in Users, NEW role \in Role, NEW position \in Places, AddRead(r, u, role, position)
      PROVE  Spaced'
  <2> DEFINE l == [NoLocals EXCEPT !.user = u, !.role = role, !.position = position]
  <2>1. Goto(r, "addTx", l) /\ (placed' = (placed \/ position # 0))
    BY <1>4 DEF AddRead, Start
  <2>2. l.position = position
    BY DEF NoLocals
  <2> HIDE DEF l
  <2>3. ASSUME Undisturbed' PROVE "position" \notin crossed' /\ ~ placed /\ position = 0
    BY <2>1, <2>3, Zenon DEF Undisturbed
  <2>4. pc'[r] = "addTx" /\ loc'[r] = l /\ crossed \subseteq crossed'
    BY <1>1, <2>1, GotoMoves
  <2>5. Undisturbed' => Undisturbed
    BY <2>3, <2>4 DEF Undisturbed
  <2>6. Undisturbed' => Spaces(r)'
    BY <2>2, <2>3, <2>4 DEF Spaces
  <2> QED
    BY <1>1, <1>3, <2>1, <2>5, <2>6, StaysSpaced
<1>5. ASSUME NEW step, NEW l, Start(r, step, l), placed' = placed,
             step \notin {"addTx", "addWrite", "swapWrite"}
      PROVE  Spaced'
  <2>1. Goto(r, step, l)
    BY <1>5 DEF Start
  <2> QED
    BY <1>1, <1>3, <1>5, <2>1, StaysSpacedElsewhere
<1>6. ASSUME NEW u \in Users, NEW role \in Role \cup {"same"}, NEW position \in Places,
             UpdateRead(r, u, role, position)
      PROVE  Spaced'
  BY <1>5, <1>6 DEF UpdateRead
<1>7. ASSUME NEW u \in Users, RemoveRead(r, u) PROVE Spaced'
  BY <1>5, <1>7 DEF RemoveRead
<1>8. ASSUME NEW max \in Capacities \cup {0}, NEW t \in Terms \cup {0}, SettingsRead(r, max, t)
      PROVE  Spaced'
  BY <1>5, <1>8 DEF SettingsRead
<1>9. ASSUME OpenRead(r) PROVE Spaced'
  BY <1>5, <1>9 DEF OpenRead
<1> QED
  BY <1>4, <1>6, <1>7, <1>8, <1>9 DEF Begin

LEMMA SpacedAddTx ==
    ASSUME Founded, Spaced, NEW r \in Requests, AddTx(r)
    PROVE  Spaced'
<1>1. TypeOK /\ FounderStays
  BY DEF Founded
<1>2. member' = member /\ placed' = placed /\ pc[r] = "addTx"
  BY DEF AddTx, rows
<1>3. Active' = Active /\ \A u \in Active' : member'[u].position = member[u].position
  BY <1>2 DEF Active
<1>4. CASE loc[r].user \in Active
  <2>1. Goto(r, "idle", NoLocals)
    BY <1>4 DEF AddTx, Finish
  <2> QED
    BY <1>1, <1>2, <1>3, <2>1, StaysSpacedElsewhere
<1>5. CASE loc[r].user \notin Active
  <2> DEFINE l == [loc[r] EXCEPT !.position = Place(r), !.found = member[loc[r].user].status]
  <2>1. Goto(r, "addWrite", l)
    BY <1>5 DEF AddTx
  <2>2. l.position = Place(r)
    BY LocalsOf DEF Locals
  <2> HIDE DEF l
  <2>3. Undisturbed' => Undisturbed
    BY <1>1, <1>2, <2>1, GotoMoves DEF Undisturbed
  <2>4. ASSUME Undisturbed PROVE Place(r) = NextPosition
    BY <1>2, <2>4 DEF Spaced, Spaces, Place
  <2>5. ASSUME Undisturbed PROVE \A w \in Active : member[w].position # l.position
    BY <1>1, <2>2, <2>4, <2>5, NextIsFree
  <2>6. Undisturbed' => Spaces(r)'
    BY <1>1, <1>2, <1>3, <2>1, <2>3, <2>5, GotoMoves DEF Spaces
  <2> QED
    BY <1>1, <1>3, <2>1, <2>3, <2>6, StaysSpaced
<1> QED
  BY <1>4, <1>5

LEMMA SpacedAddWrite ==
    ASSUME Founded, OneAtATime, Spaced, NEW r \in Requests, AddWrite(r)
    PROVE  Spaced'
<1>1. TypeOK
  BY DEF Founded
<1>2. pc[r] = "addWrite" /\ Finish(r) /\ placed' = placed
  BY DEF AddWrite
<1>3. ASSUME Spread, Spaces(r) PROVE Spread'
  <2>1. CASE UNCHANGED rows
    BY <1>3, <2>1 DEF Spread, Active, rows
  <2>2. CASE member' = [member EXCEPT ![loc[r].user] =
                          [status |-> "active", role |-> loc[r].role, position |-> loc[r].position]]
    <3>1. \A u \in Users : member'[u] = IF u = loc[r].user
                                        THEN [status |-> "active", role |-> loc[r].role,
                                              position |-> loc[r].position]
                                        ELSE member[u]
      BY <1>1, <2>2 DEF TypeOK
    <3>2. \A w \in Active \ {loc[r].user} : member[w].position # loc[r].position
      BY <1>2, <1>3 DEF Spaces
    <3>3. \A u \in Active' : /\ u = loc[r].user => member'[u].position = loc[r].position
                            /\ u # loc[r].user => u \in Active /\ member'[u].position = member[u].position
      BY <3>1 DEF Active
    <3>4. ASSUME NEW u \in Active', NEW v \in Active', member'[u].position = member'[v].position
          PROVE  u = v
      <4>1. CASE u = loc[r].user \/ v = loc[r].user
        <5>1. ASSUME NEW w \in Active', w # loc[r].user
              PROVE  member'[w].position # loc[r].position
          BY <3>2, <3>3, <5>1
        <5>2. member'[loc[r].user].position = loc[r].position
          BY <3>1, LocalsOf
        <5> QED
          BY <3>4, <4>1, <5>1, <5>2
      <4>2. CASE u # loc[r].user /\ v # loc[r].user
        BY <1>3, <3>3, <3>4, <4>2 DEF Spread
      <4> QED
        BY <4>1, <4>2
    <3> QED
      BY <3>4 DEF Spread
  <2> QED
    BY <2>1, <2>2 DEF AddWrite
<1> QED
  BY <1>1, <1>2, <1>3, WritesSpaced

LEMMA SpacedSwapRead ==
    ASSUME Founded, Spaced, NEW r \in Requests, SwapRead(r)
    PROVE  Spaced'
<1>1. TypeOK
  BY DEF Founded
<1>2. member' = member /\ pc[r] = "swapRead"
  BY DEF SwapRead, rows
<1>3. Active' = Active /\ \A u \in Active' : member'[u].position = member[u].position
  BY <1>2 DEF Active
<1> DEFINE u == loc[r].user
           occupants == {v \in Existing \ {u} : member[v].position = loc[r].position}
<1>4. PICK v \in (IF occupants = {} THEN {u} ELSE occupants) :
         /\ Goto(r, "swapWrite", [loc[r] EXCEPT !.other = v, !.current = member[u].position])
         /\ placed' = (placed \/ {u, v} \ Active # {})
  BY DEF SwapRead
<1> DEFINE l == [loc[r] EXCEPT !.other = v, !.current = member[u].position]
<1>5. /\ l.user = u /\ l.other = v /\ l.position = loc[r].position /\ l.current = member[u].position
  BY LocalsOf DEF Locals
<1>6. Goto(r, "swapWrite", l)
  BY <1>4
<1> HIDE DEF l
<1>7. Undisturbed' => Undisturbed /\ {u, v} \subseteq Active
  BY <1>1, <1>4, <1>6, GotoMoves DEF Undisturbed
<1>8. ASSUME Undisturbed' PROVE Spaces(r)'
  <2>1. Spread /\ {u, v} \subseteq Active
    BY <1>7, <1>8 DEF Spaced
  <2>2. Active \subseteq Existing
    BY DEF Active, Existing
  <2>3. ASSUME NEW w \in Active \ {u, v} PROVE member[w].position \notin {l.position, l.current}
    <3>1. member[w].position # l.current
      BY <1>5, <2>1 DEF Spread
    <3>2. CASE occupants = {}
      BY <1>5, <2>2, <3>1, <3>2
    <3>3. CASE occupants # {}
      <4>1. member[v].position = l.position
        BY <1>4, <1>5, <3>3
      <4> QED
        BY <2>1, <3>1, <4>1 DEF Spread
    <3> QED
      BY <3>2, <3>3
  <2>4. ASSUME v # u PROVE l.position # l.current
    <3>1. member[v].position = l.position
      BY <1>4, <1>5, <2>4
    <3> QED
      BY <1>5, <2>1, <2>4, <3>1 DEF Spread
  <2>5. pc'[r] = "swapWrite" /\ loc'[r] = l
    BY <1>1, <1>6, GotoMoves
  <2> HIDE DEF u, occupants
  <2> QED
    BY <1>2, <1>3, <1>5, <2>3, <2>4, <2>5 DEF Spaces
<1> QED
  BY <1>1, <1>3, <1>6, <1>7, <1>8, StaysSpaced

LEMMA SpacedSwapWrite ==
    ASSUME Founded, OneAtATime, Spaced, NEW r \in Requests, SwapWrite(r)
    PROVE  Spaced'
<1>1. TypeOK
  BY DEF Founded
<1>2. pc[r] = "swapWrite" /\ Finish(r) /\ placed' = placed
  BY DEF SwapWrite
<1>3. ASSUME Spread, Spaces(r) PROVE Spread'
  <2>1. Active' = Active
    BY SwapRows DEF Active
  <2>2. \A w \in Active : member'[w].position = IF w = loc[r].user THEN loc[r].position
                                               ELSE IF w = loc[r].other THEN loc[r].current
                                               ELSE member[w].position
    BY SwapRows DEF Active
  <2>3. /\ \A w \in Active \ {loc[r].user, loc[r].other} :
              member[w].position \notin {loc[r].position, loc[r].current}
        /\ loc[r].other # loc[r].user => loc[r].position # loc[r].current
    BY <1>2, <1>3 DEF Spaces
  <2> QED
    BY <1>3, <2>1, <2>2, <2>3 DEF Spread
<1> QED
  BY <1>1, <1>2, <1>3, WritesSpaced

\* The other writes move nobody.
LEMMA SpacedRest ==
    ASSUME Founded, Spaced, NEW r \in Requests,
           RoleWrite(r) \/ RemoveWrite(r) \/ SettingsWrite(r) \/ OpenWrite(r) \/ Fail(r)
    PROVE  Spaced'
<1>1. TypeOK
  BY DEF Founded
<1>2. Goto(r, "idle", NoLocals) /\ placed' = placed
  BY DEF RoleWrite, RemoveWrite, SettingsWrite, OpenWrite, Fail, Finish
<1>3. Active' \subseteq Active /\ \A u \in Active' : member'[u].position = member[u].position
  <2>1. CASE member' = member
    BY <2>1 DEF Active
  <2>2. CASE RoleWrite(r)
    BY <1>1, <2>2 DEF RoleWrite, Active, TypeOK, Row
  <2>3. CASE RemoveWrite(r)
    BY <1>1, <2>3 DEF RemoveWrite, Active, TypeOK, Row
  <2> QED
    BY <2>1, <2>2, <2>3 DEF SettingsWrite, OpenWrite, Fail, rows
<1> QED
  BY <1>1, <1>2, <1>3, StaysSpacedElsewhere

LEMMA SpacedStep == Founded /\ OneAtATime /\ Spaced /\ [Next]_vars => Spaced'
<1> SUFFICES ASSUME Founded, OneAtATime, Spaced, [Next]_vars PROVE Spaced'
  OBVIOUS
<1>1. ASSUME NEW r \in Requests, Resume(r) PROVE Spaced'
  BY <1>1, SpacedAddTx, SpacedAddWrite, SpacedSwapRead, SpacedSwapWrite, SpacedRest DEF Resume
<1>2. CASE Environment \/ UNCHANGED vars
  <2>1. member' = member /\ pc' = pc /\ loc' = loc /\ (Undisturbed' => Undisturbed)
    BY <1>2, EnvironmentLeaves DEF rows, Undisturbed
  <2> QED
    BY <2>1 DEF Spaced, Spread, Spaces, Active
<1> QED
  BY <1>1, <1>2, SpacedBegin, SpacedRest DEF Next

-----------------------------------------------------------------------------
(* The terms of the cycle. *)

\* What a handler is going to write is what the cycle is, or will be, under.
KeepsTerms(r) ==
    /\ pc[r] = "openWrite" => loc[r].terms = terms
    /\ pc[r] = "settingsWrite" /\ CycleActive => loc[r].terms \in {0, terms}

Binding ==
    "terms" \notin crossed =>
        /\ CycleActive => terms = agreed
        /\ \A r \in Requests : KeepsTerms(r)

\* A call that leaves settings and cycle, and is going to write what fits.
LEMMA StaysBinding ==
    ASSUME TypeOK, Binding, NEW r \in Requests, NEW step, NEW l, Goto(r, step, l),
           UNCHANGED <<settings, round>>, KeepsTerms(r)'
    PROVE  Binding'
<1> SUFFICES ASSUME "terms" \notin crossed'
             PROVE  /\ CycleActive' => terms' = agreed'
                    /\ \A q \in Requests : KeepsTerms(q)'
  BY DEF Binding
<1>1. UNCHANGED <<terms, cycle, agreed>>
  BY DEF settings, round
<1>2. (CycleActive => terms = agreed) /\ \A q \in Requests : KeepsTerms(q)
  BY GotoMoves DEF Binding
<1>3. CycleActive' => terms' = agreed'
  BY <1>1, <1>2 DEF CycleActive
<1>4. ASSUME NEW q \in Requests \ {r} PROVE KeepsTerms(q)'
  <2>1. pc'[q] = pc[q] /\ loc'[q] = loc[q] /\ KeepsTerms(q)
    BY <1>2, GotoMoves
  <2> QED
    BY <1>1, <2>1 DEF KeepsTerms, CycleActive
<1> QED
  BY <1>3, <1>4

LEMMA StaysBindingElsewhere ==
    ASSUME TypeOK, Binding, NEW r \in Requests, NEW step, NEW l, Goto(r, step, l),
           UNCHANGED <<settings, round>>, step \notin {"openWrite", "settingsWrite"}
    PROVE  Binding'
<1>1. KeepsTerms(r)'
  BY GotoMoves DEF KeepsTerms
<1> QED
  BY <1>1, StaysBinding

LEMMA BindingBegin == ASSUME Founded, Binding, NEW r \in Requests, Begin(r) PROVE Binding'
<1>1. TypeOK
  BY DEF Founded
<1>2. ASSUME NEW step, NEW l, Start(r, step, l), UNCHANGED <<settings, round>>,
             step \notin {"openWrite", "settingsWrite"}
      PROVE  Binding'
  <2>1. Goto(r, step, l)
    BY <1>2 DEF Start
  <2> QED
    BY <1>1, <1>2, <2>1, StaysBindingElsewhere
<1>3. ASSUME NEW u \in Users, NEW role \in Role, NEW position \in Places, AddRead(r, u, role, position)
      PROVE  Binding'
  BY <1>2, <1>3 DEF AddRead
<1>4. ASSUME NEW u \in Users, NEW role \in Role \cup {"same"}, NEW position \in Places,
             UpdateRead(r, u, role, position)
      PROVE  Binding'
  BY <1>2, <1>4 DEF UpdateRead
<1>5. ASSUME NEW u \in Users, RemoveRead(r, u) PROVE Binding'
  BY <1>2, <1>5 DEF RemoveRead
<1>6. ASSUME NEW max \in Capacities \cup {0}, NEW t \in Terms \cup {0}, SettingsRead(r, max, t)
      PROVE  Binding'
  <2> DEFINE l == [NoLocals EXCEPT !.max = max, !.terms = t]
  <2>1. Goto(r, "settingsWrite", l) /\ UNCHANGED <<settings, round>> /\ (Locked => t \in {0, terms})
    BY <1>6 DEF SettingsRead, Start
  <2>2. l.terms = t
    BY DEF NoLocals
  <2> HIDE DEF l
  <2>3. KeepsTerms(r)'
    BY <1>1, <2>1, <2>2, GotoMoves DEF KeepsTerms, Locked, CycleActive, settings, round
  <2> QED
    BY <1>1, <2>1, <2>3, StaysBinding
<1>7. ASSUME OpenRead(r) PROVE Binding'
  <2> DEFINE l == [NoLocals EXCEPT !.terms = terms]
  <2>1. Goto(r, "openWrite", l) /\ UNCHANGED <<settings, round>>
    BY <1>7 DEF OpenRead, Start
  <2>2. l.terms = terms
    BY DEF NoLocals
  <2> HIDE DEF l
  <2>3. KeepsTerms(r)'
    BY <1>1, <2>1, <2>2, GotoMoves DEF KeepsTerms, settings
  <2> QED
    BY <1>1, <2>1, <2>3, StaysBinding
<1> QED
  BY <1>3, <1>4, <1>5, <1>6, <1>7 DEF Begin

\* The settings are written by the only handler at work on them.
LEMMA BindingWrites ==
    ASSUME Founded, OneAtATime, Binding, NEW r \in Requests, SettingsWrite(r) \/ OpenWrite(r)
    PROVE  Binding'
<1> SUFFICES ASSUME "terms" \notin crossed'
             PROVE  /\ CycleActive' => terms' = agreed'
                    /\ \A q \in Requests : KeepsTerms(q)'
  BY DEF Binding
<1>1. TypeOK
  BY DEF Founded
<1>2. Goto(r, "idle", NoLocals) /\ pc[r] \in {"settingsWrite", "openWrite"}
  BY DEF SettingsWrite, OpenWrite, Finish
<1>3. "terms" \in DOMAIN Topics /\ Topics["terms"] = {"settingsWrite", "openWrite"}
  BY DEF Topics
<1>4. "terms" \notin crossed
  BY <1>1, <1>2, GotoMoves
<1>5. \A q \in Requests \ {r} : pc[q] \notin {"settingsWrite", "openWrite"}
  BY <1>2, <1>3, <1>4, NobodyElse
<1>6. \A q \in Requests : KeepsTerms(q)'
  BY <1>1, <1>2, <1>5, GotoMoves DEF KeepsTerms
<1>7. (CycleActive => terms = agreed) /\ KeepsTerms(r)
  BY <1>4 DEF Binding
<1>8. CASE SettingsWrite(r)
  <2>1. /\ pc[r] = "settingsWrite" /\ cycle' = cycle /\ agreed' = agreed
        /\ terms' = IF loc[r].terms = 0 THEN terms ELSE loc[r].terms
    BY <1>8 DEF SettingsWrite, round
  <2> QED
    BY <1>6, <1>7, <2>1 DEF KeepsTerms, CycleActive
<1>9. CASE OpenWrite(r)
  BY <1>6, <1>7, <1>9 DEF OpenWrite, KeepsTerms, settings
<1> QED
  BY <1>8, <1>9

LEMMA BindingStep == Founded /\ OneAtATime /\ Binding /\ [Next]_vars => Binding'
<1> SUFFICES ASSUME Founded, OneAtATime, Binding, [Next]_vars PROVE Binding'
  OBVIOUS
<1>1. TypeOK
  BY DEF Founded
<1>2. ASSUME NEW r \in Requests, NEW step, NEW l, Goto(r, step, l), UNCHANGED <<settings, round>>,
             step \notin {"openWrite", "settingsWrite"}
      PROVE  Binding'
  BY <1>1, <1>2, StaysBindingElsewhere
<1>3. ASSUME NEW r \in Requests, Resume(r) \/ Fail(r) PROVE Binding'
  <2>1. CASE AddTx(r) \/ SwapRead(r)
    <3>1. UNCHANGED <<settings, round>>
      BY <2>1 DEF AddTx, SwapRead
    <3>2. PICK step, l : Goto(r, step, l) /\ step \notin {"openWrite", "settingsWrite"}
      BY <2>1, AddTxMoves, SwapReadMoves
    <3> QED
      BY <1>2, <3>1, <3>2
  <2>2. CASE AddWrite(r) \/ RoleWrite(r) \/ SwapWrite(r) \/ RemoveWrite(r) \/ Fail(r)
    <3>1. Goto(r, "idle", NoLocals) /\ UNCHANGED <<settings, round>>
      BY <2>2 DEF AddWrite, RoleWrite, SwapWrite, RemoveWrite, Fail, Finish
    <3> QED
      BY <1>2, <3>1
  <2> QED
    BY <1>3, <2>1, <2>2, BindingWrites DEF Resume
<1>4. CASE Environment \/ UNCHANGED vars
  <2>1. /\ terms' = terms /\ pc' = pc /\ loc' = loc
        /\ "terms" \in crossed => "terms" \in crossed'
    BY <1>4, EnvironmentLeaves DEF settings
  <2>2. CycleActive' => CycleActive /\ agreed' = agreed
    BY <1>4 DEF Environment, StartCycle, CompleteCycle, PayOut, vars, round, CycleActive
  <2> QED
    BY <2>1, <2>2 DEF Binding, KeepsTerms
<1> QED
  BY <1>3, <1>4, BindingBegin DEF Next

-----------------------------------------------------------------------------
(* Who comes and who leaves. *)

\* Only addMember makes anybody active, and only removeMember stops it.
LEMMA ComingAndLeaving ==
    ASSUME Founded, [Next]_vars
    PROVE  /\ Active' \subseteq Active \/ \E r \in Requests : AddWrite(r)
           /\ \A u \in Active \ Active' : \E r \in Requests : RemoveWrite(r) /\ loc[r].user = u
<1>1. TypeOK
  BY DEF Founded
<1>2. CASE UNCHANGED rows
  BY <1>2 DEF Active, rows
<1>3. ASSUME NEW r \in Requests, AddWrite(r) PROVE Active \subseteq Active'
  BY <1>1, <1>3 DEF AddWrite, Active, TypeOK, rows
<1>4. ASSUME NEW r \in Requests, RoleWrite(r) PROVE Active' = Active
  BY <1>1, <1>4 DEF RoleWrite, Active, TypeOK, Row
<1>5. ASSUME NEW r \in Requests, SwapWrite(r) PROVE Active' = Active
  BY <1>5, SwapRows DEF Active
<1>6. ASSUME NEW r \in Requests, RemoveWrite(r) PROVE Active' = Active \ {loc[r].user}
  BY <1>1, <1>6 DEF RemoveWrite, Active, TypeOK, Row
<1>7. \/ UNCHANGED rows
      \/ \E r \in Requests : AddWrite(r) \/ RoleWrite(r) \/ SwapWrite(r) \/ RemoveWrite(r)
  <2>1. CASE Environment \/ UNCHANGED vars
    BY <2>1, EnvironmentLeaves
  <2>2. ASSUME NEW r \in Requests, Begin(r) PROVE UNCHANGED rows
    BY <2>2 DEF Begin, AddRead, UpdateRead, RemoveRead, SettingsRead, OpenRead
  <2>3. ASSUME NEW r \in Requests, AddTx(r) \/ SwapRead(r) \/ SettingsWrite(r) \/ OpenWrite(r) \/ Fail(r)
        PROVE  UNCHANGED rows
    BY <2>3 DEF AddTx, SwapRead, SettingsWrite, OpenWrite, Fail
  <2> QED
    BY <2>1, <2>2, <2>3 DEF Next, Resume
<1> QED
  BY <1>2, <1>3, <1>4, <1>5, <1>6, <1>7

\* The active members can be counted, and fewer are not more.
LEMMA Counting ==
    ASSUME Founded
    PROVE  /\ Cardinality(Active) \in Nat
           /\ \A S \in SUBSET Active : Cardinality(S) \in Nat /\ Cardinality(S) <= Cardinality(Active)
<1>1. IsFiniteSet(Active)
  BY ConstantsAssumption, FS_Subset DEF Active
<1> QED
  BY <1>1, FS_Subset, FS_CardinalityType

\* Whoever adds a member has room, as long as nobody crosses.
Seated ==
    "seats" \notin crossed => \A r \in Requests : pc[r] \in {"addTx", "addWrite"} => Room

LEMMA StaysSeated ==
    ASSUME TypeOK, Seated, NEW r \in Requests, NEW step, NEW l, Goto(r, step, l),
           Room => Room',
           step \in {"addTx", "addWrite"} => pc[r] \in {"addTx", "addWrite"} \/ Room
    PROVE  Seated'
<1> SUFFICES ASSUME "seats" \notin crossed', NEW q \in Requests, pc'[q] \in {"addTx", "addWrite"}
             PROVE  Room'
  BY DEF Seated
<1>1. "seats" \notin crossed
  BY GotoMoves
<1>2. CASE q = r
  BY <1>1, <1>2, GotoMoves DEF Seated
<1>3. CASE q # r
  BY <1>1, <1>3, GotoMoves DEF Seated
<1> QED
  BY <1>2, <1>3

\* Rooms stay while nobody comes and the settings are left alone.
LEMMA RoomStays ==
    ASSUME Founded, Room, Active' \subseteq Active, maxMembers' = maxMembers
    PROVE  Room'
<1>1. maxMembers \in Nat
  BY ConstantsAssumption DEF Founded, TypeOK
<1>2. Cardinality(Active') \in Nat /\ Cardinality(Active') <= Cardinality(Active) /\ Cardinality(Active) \in Nat
  BY Counting
<1> QED
  BY <1>1, <1>2 DEF Room

LEMMA SeatedStep == Founded /\ OneAtATime /\ Seated /\ [Next]_vars => Seated'
<1> SUFFICES ASSUME Founded, OneAtATime, Seated, [Next]_vars PROVE Seated'
  OBVIOUS
<1>1. TypeOK
  BY DEF Founded
<1>2. ASSUME NEW r \in Requests, AddWrite(r) \/ SettingsWrite(r) PROVE Seated'
  <2>1. Goto(r, "idle", NoLocals) /\ pc[r] \in {"addWrite", "settingsWrite"}
    BY <1>2 DEF AddWrite, SettingsWrite, Finish
  <2>2. "seats" \in DOMAIN Topics /\ Topics["seats"] = {"addTx", "addWrite", "settingsWrite"}
    BY DEF Topics
  <2>3. ASSUME "seats" \notin crossed', NEW q \in Requests PROVE pc'[q] \notin {"addTx", "addWrite"}
    <3>1. "seats" \notin crossed
      BY <1>1, <2>1, <2>3, GotoMoves
    <3>2. q # r => pc[q] \notin {"addTx", "addWrite"}
      BY <2>1, <2>2, <3>1, NobodyElse
    <3> QED
      BY <1>1, <2>1, <3>2, GotoMoves
  <2> QED
    BY <2>3 DEF Seated
<1>3. ASSUME NEW r \in Requests, Begin(r) \/ Resume(r) \/ Fail(r), ~ AddWrite(r), ~ SettingsWrite(r)
      PROVE  Seated'
  <2>1. maxMembers' = maxMembers
    BY <1>3 DEF Begin, AddRead, UpdateRead, RemoveRead, SettingsRead, OpenRead, Fail, Resume, AddTx,
       RoleWrite, SwapRead, SwapWrite, RemoveWrite, OpenWrite, settings
  <2>2. Active' \subseteq Active
    <3>1. CASE UNCHANGED rows
      BY <3>1 DEF rows, Active
    <3>2. CASE RoleWrite(r)
      BY <1>1, <3>2 DEF RoleWrite, Active, TypeOK, Row
    <3>3. CASE SwapWrite(r)
      BY <3>3, SwapRows DEF Active
    <3>4. CASE RemoveWrite(r)
      BY <1>1, <3>4 DEF RemoveWrite, Active, TypeOK, Row
    <3>5. CASE Begin(r) \/ Fail(r) \/ AddTx(r) \/ SwapRead(r) \/ OpenWrite(r)
      BY <3>1, <3>5 DEF Begin, AddRead, UpdateRead, RemoveRead, SettingsRead, OpenRead, Fail, AddTx,
         SwapRead, OpenWrite
    <3> QED
      BY <1>3, <3>2, <3>3, <3>4, <3>5 DEF Resume
  <2>3. Room => Room'
    BY <2>1, <2>2, RoomStays
  <2>4. ASSUME NEW step, NEW l, Goto(r, step, l),
               step \in {"addTx", "addWrite"} => pc[r] \in {"addTx", "addWrite"} \/ Room
        PROVE  Seated'
    BY <1>1, <2>3, <2>4, StaysSeated
  <2>5. CASE Begin(r)
    <3>1. ASSUME NEW step, NEW l, Start(r, step, l), step \in {"addTx", "addWrite"} => Room
          PROVE  Seated'
      BY <2>4, <3>1 DEF Start
    <3>2. ASSUME NEW u \in Users, NEW role \in Role, NEW position \in Places, AddRead(r, u, role, position)
          PROVE  Seated'
      BY <3>1, <3>2 DEF AddRead
    <3>3. ASSUME NEW u \in Users, NEW role \in Role \cup {"same"}, NEW position \in Places,
                 UpdateRead(r, u, role, position)
          PROVE  Seated'
      BY <3>1, <3>3 DEF UpdateRead
    <3>4. ASSUME NEW u \in Users, RemoveRead(r, u) PROVE Seated'
      BY <3>1, <3>4 DEF RemoveRead
    <3>5. ASSUME NEW max \in Capacities \cup {0}, NEW t \in Terms \cup {0}, SettingsRead(r, max, t)
          PROVE  Seated'
      BY <3>1, <3>5 DEF SettingsRead
    <3>6. ASSUME OpenRead(r) PROVE Seated'
      BY <3>1, <3>6 DEF OpenRead
    <3> QED
      BY <2>5, <3>2, <3>3, <3>4, <3>5, <3>6 DEF Begin
  <2>6. CASE AddTx(r) \/ SwapRead(r)
    <3>1. PICK step, l : /\ Goto(r, step, l)
                         /\ step \in {"addTx", "addWrite"} => pc[r] \in {"addTx", "addWrite"}
      BY <2>6, AddTxMoves, SwapReadMoves
    <3> QED
      BY <2>4, <3>1
  <2>7. CASE RoleWrite(r) \/ SwapWrite(r) \/ RemoveWrite(r) \/ OpenWrite(r) \/ Fail(r)
    BY <2>4, <2>7 DEF RoleWrite, SwapWrite, RemoveWrite, OpenWrite, Fail, Finish
  <2> QED
    BY <1>3, <2>5, <2>6, <2>7 DEF Resume
<1>4. CASE Environment \/ UNCHANGED vars
  <2>1. member' = member /\ maxMembers' = maxMembers /\ pc' = pc
        /\ ("seats" \in crossed => "seats" \in crossed')
    BY <1>4, EnvironmentLeaves DEF rows, settings
  <2>2. Active' = Active
    BY <2>1 DEF Active
  <2> QED
    BY <2>1, <2>2 DEF Seated, Room
<1> QED
  BY <1>2, <1>3, <1>4 DEF Next

\* Whoever is about to be removed in a running cycle was paid in it.
Cleared ==
    cycle = "in_progress" /\ "exit" \notin crossed =>
        \A r \in Requests : pc[r] = "removeWrite" => loc[r].user \in paid

LEMMA ClearedStep == Founded /\ Cleared /\ [Next]_vars => Cleared'
<1> SUFFICES ASSUME Founded, Cleared, [Next]_vars PROVE Cleared'
  OBVIOUS
<1>1. TypeOK
  BY DEF Founded
<1>2. ASSUME NEW r \in Requests, NEW step, NEW l, Goto(r, step, l), UNCHANGED round,
             step = "removeWrite" => (cycle = "in_progress" => l.user \in paid)
      PROVE  Cleared'
  <2>1. UNCHANGED <<cycle, paid>> /\ crossed \subseteq crossed'
    BY <1>1, <1>2, GotoMoves DEF round
  <2>2. /\ pc'[r] = step /\ loc'[r] = l
        /\ \A q \in Requests \ {r} : pc'[q] = pc[q] /\ loc'[q] = loc[q]
    BY <1>1, <1>2, GotoMoves
  <2>3. SUFFICES ASSUME cycle = "in_progress", "exit" \notin crossed, NEW q \in Requests,
                        pc'[q] = "removeWrite"
                 PROVE  loc'[q].user \in paid
    BY <2>1 DEF Cleared
  <2> QED
    BY <1>2, <2>2, <2>3 DEF Cleared
<1>3. ASSUME NEW r \in Requests, Begin(r) PROVE Cleared'
  <2>1. ASSUME NEW u \in Users, RemoveRead(r, u) PROVE Cleared'
    <3> DEFINE l == [NoLocals EXCEPT !.user = u]
    <3>1. Goto(r, "removeWrite", l) /\ UNCHANGED round /\ (cycle = "in_progress" => u \in paid)
      BY <2>1 DEF RemoveRead, Start, MayLeave
    <3>2. l.user = u
      BY DEF NoLocals
    <3> HIDE DEF l
    <3> QED
      BY <1>2, <3>1, <3>2
  <2>2. CASE ~ \E u \in Users : RemoveRead(r, u)
    BY <1>2, <1>3, <2>2 DEF Begin, AddRead, UpdateRead, SettingsRead, OpenRead, Start
  <2> QED
    BY <2>1, <2>2
<1>4. ASSUME NEW r \in Requests, Resume(r) \/ Fail(r) PROVE Cleared'
  <2>1. CASE AddTx(r) \/ SwapRead(r)
    BY <1>2, <2>1 DEF AddTx, SwapRead, Finish
  <2>2. CASE OpenWrite(r)
    BY <2>2 DEF OpenWrite, Cleared
  <2>3. CASE AddWrite(r) \/ RoleWrite(r) \/ SwapWrite(r) \/ RemoveWrite(r) \/ SettingsWrite(r) \/ Fail(r)
    BY <1>2, <2>3 DEF AddWrite, RoleWrite, SwapWrite, RemoveWrite, SettingsWrite, Fail, Finish
  <2> QED
    BY <1>4, <2>1, <2>2, <2>3 DEF Resume
<1>5. CASE StartCycle
  BY <1>5 DEF StartCycle, Cleared
<1>6. CASE CompleteCycle
  BY <1>6 DEF CompleteCycle, Cleared
<1>7. CASE UNCHANGED vars \/ \E u \in Users : PayOut(u)
  <2>1. UNCHANGED <<cycle, pc, loc, crossed>> /\ paid \subseteq paid'
    BY <1>7 DEF PayOut, vars, round
  <2> QED
    BY <2>1 DEF Cleared
<1> QED
  BY <1>3, <1>4, <1>5, <1>6, <1>7 DEF Next, Environment

-----------------------------------------------------------------------------
(* The inductive invariant, and what follows from it. *)

MembersInv ==
    /\ Founded
    /\ OneAtATime
    /\ Spaced
    /\ Binding
    /\ Seated
    /\ Cleared

LEMMA InvInit == Init => MembersInv
<1> SUFFICES ASSUME Init PROVE MembersInv
  OBVIOUS
<1>1. Founded
  BY FoundedInit
<1>2. /\ \A r \in Requests : pc[r] = "idle"
      /\ cycle = "none"
      /\ Active = {Founder}
  BY ConstantsAssumption DEF Init, Active, NoRow
<1>3. \A topic \in DOMAIN Topics : "idle" \notin Topics[topic]
  BY DEF Topics
<1>4. OneAtATime
  BY <1>2, <1>3 DEF OneAtATime, Alone
<1> QED
  BY <1>1, <1>2, <1>4
     DEF MembersInv, Spaced, Spread, Spaces, Binding, KeepsTerms, CycleActive, Seated, Cleared

LEMMA InvHolds == Spec => []MembersInv
<1>1. MembersInv /\ [Next]_vars => MembersInv'
  BY FoundedStep, OneAtATimeStep, SpacedStep, BindingStep, SeatedStep, ClearedStep DEF MembersInv
<1> QED
  BY <1>1, InvInit, PTL DEF Spec

\* Two active members share a place of the queue only if additions and swaps
\* cross, a place was chosen for a new member, or it was swapped with a row
\* that has exited (addMember, swapAndUpdate): any number of requests.
THEOREM PlacesStayDistinct == Spec => []PositionsDistinct
<1>1. MembersInv => PositionsDistinct
  BY DEF MembersInv, Spaced, Undisturbed, Spread, PositionsDistinct
<1> QED
  BY <1>1, InvHolds, PTL

\* The settings a cycle was opened with stay as they are until it is complete,
\* unless a change crosses its opening (updateGroupSettings, openCycle).
THEOREM CyclesKeepTheirTerms == Spec => []TermsLocked
<1>1. MembersInv => TermsLocked
  BY DEF MembersInv, Binding, TermsLocked
<1> QED
  BY <1>1, InvHolds, PTL

\* A group grows past maxMembers only if additions or a change of the settings
\* cross (addMember checks before its transaction).
THEOREM GroupsStayWithinCapacity == Spec => CapacityRespected
<1>1. ASSUME MembersInv, [Next]_vars, Cardinality(Active') > Cardinality(Active), "seats" \notin crossed
      PROVE  Cardinality(Active) < maxMembers
  <2>1. Founded /\ Seated
    BY <1>1 DEF MembersInv
  <2>2. ~ (Active' \subseteq Active)
    BY <1>1, <2>1, Counting
  <2>3. PICK r \in Requests : AddWrite(r)
    BY <1>1, <2>1, <2>2, ComingAndLeaving
  <2> QED
    BY <1>1, <2>1, <2>3 DEF AddWrite, Seated, Room
<1>2. MembersInv /\ [Next]_vars =>
        [Cardinality(Active') > Cardinality(Active) /\ "seats" \notin crossed
           => Cardinality(Active) < maxMembers]_vars
  BY <1>1
<1> QED
  BY <1>2, InvHolds, PTL DEF Spec, CapacityRespected

\* While a cycle runs nobody leaves before being paid, unless the start of the
\* cycle came between check and write (removeMember).
THEOREM NobodyLeavesUnpaid == Spec => LeavesPaid
<1>1. ASSUME MembersInv, [Next]_vars, NEW u \in Active \ Active',
             cycle = "in_progress", "exit" \notin crossed
      PROVE  u \in paid
  <2>1. Founded /\ Cleared
    BY <1>1 DEF MembersInv
  <2>2. PICK r \in Requests : RemoveWrite(r) /\ loc[r].user = u
    BY <1>1, <2>1, ComingAndLeaving
  <2> QED
    BY <1>1, <2>1, <2>2 DEF RemoveWrite, Cleared
<1>2. MembersInv /\ [Next]_vars =>
        [\A u \in Active \ Active' :
           cycle = "in_progress" /\ "exit" \notin crossed => u \in paid]_vars
  BY <1>1
<1> QED
  BY <1>2, InvHolds, PTL DEF Spec, LeavesPaid

=============================================================================
