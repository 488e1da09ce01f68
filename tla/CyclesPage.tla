------------------------------ MODULE CyclesPage ------------------------------
(***************************************************************************)
(* The cycles page of one browser tab (GroupCycles.vue) over the two       *)
(* stores it shares with the other pages (stores/groups.ts and             *)
(* stores/cycles.ts): a chain of requests per click, several chains at     *)
(* once, whose answers arrive in any order or not at all.                  *)
(*                                                                         *)
(* A call c in Calls is one chain: pc[c] names the request it waits for,   *)
(* loc[c] what it was started with.  A request is served at one moment and *)
(* its answer taken at a later one.  The server is reduced to one cycle    *)
(* per group and, in each round, the contribution of its owner, who uses   *)
(* the tab, and the payout.                                                *)
(***************************************************************************)
EXTENDS Tab, Integers, FiniteSets, Sequences, SequencesExt

CONSTANTS
    LastRound,      \* rounds of a cycle
    Calls,
    MaxClicks       \* bound on what the user does

ASSUME ConstantsAssumption ==
    /\ LastRound \in Nat \ {0} /\ MaxClicks \in Nat

VARIABLES
    status, row, done,  \* the server: the cycle of each group, the member's
                        \* row in each round, the rounds paid out
    route,          \* the group in the URL
    group,          \* groups.current
    active,         \* whether the list of cycles has an active one
    current,        \* cycles.current
    selected,       \* selectedRoundId
    contributions,  \* the round they belong to and the member's row
    groupsLoading, loading, saving,
    review,         \* the proof modal: the group of the member it is opened for
    paying,         \* the contribution modal is open
    pc, loc,
    clicks,
    order,          \* auxiliary: calls whose requests are under way, the
                    \* oldest first
    disturbed       \* auxiliary: a request has failed, or an answer overtaken
                    \* an older one

cycleServer == <<status, row, done>>
view == <<group, active, current, selected, contributions>>
flags == <<groupsLoading, loading, saving>>
modals == <<review, paying>>
calls == <<pc, loc, order>>
vars == <<cycleServer, route, view, flags, modals, calls, clicks, disturbed>>

Rounds == Groups \X (1 .. LastRound)
First(g) == <<g, 1>>

Status == {"none", "open", "in_progress", "completed"}
Cycle == [group : Groups, status : Status \ {"none"}, done : SUBSET (1 .. LastRound)]
Row == {"none", "proof", "paid"}
Ledger == [round : Rounds, row : Row]

ASSUME NoneIsNothing ==
    None \notin Rounds \cup [group : Groups, status : Status, done : SUBSET (1 .. LastRound)]

CycleWrites == {"open", "start", "complete"}
RoundWrites == {"upload", "submit", "approve", "record", "payout"}
Writes == CycleWrites \cup RoundWrites
Kinds == Writes \cup {"load", "select"}

Steps == {"idle", "mine", "group", "list", "cycle", "ledger", "write"}

\* What a request asks for (a group, the cycle of a group, a round of it and the
\* member of a group, where they matter) and what has been answered.
Locals == [kind : Kinds, group : Groups \cup {None}, cycle : Groups \cup {None},
           round : Rounds \cup {None}, member : Groups \cup {None},
           answer : {"none", "ok", "refused"}, status : Status,
           done : SUBSET (1 .. LastRound), row : Row]

TypeOK ==
    /\ status \in [Groups -> Status]
    /\ row \in [Rounds -> Row]
    /\ done \subseteq Rounds
    /\ route \in Groups
    /\ group \in Groups \cup {None}
    /\ active \in BOOLEAN
    /\ current \in Cycle \cup {None}
    /\ selected \in Rounds \cup {None}
    /\ contributions \in Ledger \cup {None}
    /\ review \in Groups \cup {None}
    /\ {groupsLoading, loading, saving, paying, disturbed} \subseteq BOOLEAN
    /\ pc \in [Calls -> Steps]
    /\ loc \in [Calls -> Locals]
    /\ clicks \in 0 .. MaxClicks
    /\ ToSet(order) = {c \in Calls : pc[c] # "idle"}

Asking(kind, g, cycle, round, member) ==
    [kind |-> kind, group |-> g, cycle |-> cycle, round |-> round, member |-> member,
     answer |-> "none", status |-> "none", done |-> {}, row |-> "none"]

Idle == Asking("load", None, None, None, None)

\* The page before onMounted: nothing is known of any group.
Init ==
    /\ route \in Groups
    /\ status \in [Groups -> {"none", "in_progress"}]
    /\ done \in {{}, {i \in Rounds : i[1] = route /\ status[route] = "in_progress" /\ i[2] < LastRound}}
    /\ \E sent \in {"none", "proof"} :
        row = [i \in Rounds |-> CASE i \in done -> "paid"
                                 [] status[i[1]] = "none" -> "none"
                                 [] OTHER -> sent]
    /\ group = None /\ active = FALSE /\ current = None
    /\ selected = None /\ contributions = None
    /\ groupsLoading = FALSE /\ loading = FALSE /\ saving = FALSE
    /\ review = None /\ paying = FALSE
    /\ pc = [c \in Calls |-> "idle"] /\ loc = [c \in Calls |-> Idle]
    /\ clicks = 0 /\ order = <<>> /\ disturbed = FALSE

-----------------------------------------------------------------------------
\* selectedRound: the selected one if it is a round of the cycle shown.
SelectedOf(cycle, id) ==
    CASE cycle = None -> None
      [] cycle # None /\ id # None /\ id[1] = cycle.group -> id
      [] OTHER -> First(cycle.group)

SelectedRound == SelectedOf(current, selected)

Rest(c) == SelectSeq(order, LAMBDA d : d # c)

Request(c, step, asked) ==
    /\ pc' = [pc EXCEPT ![c] = step]
    /\ loc' = [loc EXCEPT ![c] = asked]
    /\ order' = Append(Rest(c), c)

Follow(c, step, g, cycle, round) == Request(c, step, Asking(loc[c].kind, g, cycle, round, None))

\* The chain has come to fetchCycles.
Fetching(c) == loc[c].kind \in CycleWrites \cup {"load"} /\ pc[c] # "write"

\* The end of a chain; the finally clauses of fetchCycles and of a write.
End(c) ==
    /\ pc' = [pc EXCEPT ![c] = "idle"]
    /\ loc' = [loc EXCEPT ![c] = Idle]
    /\ order' = Rest(c)
    /\ loading' = (loading /\ ~ Fetching(c))
    /\ saving' = (saving /\ loc[c].kind \notin Writes)

-----------------------------------------------------------------------------
(* What the user does.                                                       *)

\* Calls are interchangeable: a chain takes whichever is idle.
Click(c) ==
    /\ pc[c] = "idle" /\ c = CHOOSE d \in Calls : pc[d] = "idle"
    /\ clicks < MaxClicks
    /\ clicks' = clicks + 1

\* The member's status: members are those of groups.current, rows are looked up
\* by member.
ShownRow ==
    IF group # None /\ contributions # None /\ contributions.round[1] = group
    THEN contributions.row ELSE "none"

\* The proof modal is there while the ledger has a proof of its member.
Reviewing ==
    /\ review # None /\ contributions # None
    /\ contributions.round[1] = review /\ contributions.row = "proof"

\* Modals lie over the page, and outside of what loading hides.
Visible == ~ groupsLoading /\ ~ loading /\ group # None /\ ~ paying /\ ~ Reviewing

Collecting == current # None /\ current.status = "in_progress"

\* loadForRoute starts with fetchMine.
Load(c) ==
    /\ Request(c, "mine", Asking("load", route', None, None, None))
    /\ groupsLoading' = TRUE
    /\ UNCHANGED <<cycleServer, view, loading, saving, modals, disturbed>>

\* Another group: the link of another page, the picker or the back button.
Navigate(c, g) ==
    /\ Click(c)
    /\ (clicks = 0) = (g = route)
    /\ route' = g
    /\ Load(c)

Refresh(c) ==
    /\ Click(c) /\ Visible
    /\ UNCHANGED route
    /\ Load(c)

\* Slip: the round is marked as selected, its ledger not fetched.
SelectOnly(c, i) ==
    /\ Click(c) /\ Visible
    /\ current # None /\ i[1] = current.group
    /\ selected' = i
    /\ UNCHANGED <<cycleServer, route, group, active, current, contributions, flags, modals, calls, disturbed>>

Select(c, i) ==
    /\ Click(c) /\ Visible
    /\ current # None /\ i[1] = current.group
    /\ selected' = i
    /\ Request(c, "ledger", Asking("select", route, current.group, i, None))
    /\ UNCHANGED <<cycleServer, route, group, active, current, contributions, flags, modals, disturbed>>

OpenReview ==
    /\ Visible /\ Collecting
    /\ contributions # None /\ contributions.row = "proof"
    /\ review' = contributions.round[1]
    /\ UNCHANGED <<cycleServer, route, view, flags, paying, calls, clicks, disturbed>>

OpenPay ==
    /\ Visible /\ Collecting
    /\ paying' = TRUE
    /\ UNCHANGED <<cycleServer, route, view, flags, review, calls, clicks, disturbed>>

CloseModal ==
    /\ \/ paying /\ paying' = FALSE /\ UNCHANGED review
       \/ Reviewing /\ review' = None /\ UNCHANGED paying
    /\ UNCHANGED <<cycleServer, route, view, flags, calls, clicks, disturbed>>

\* Which buttons of the page and of its modals there are.  Bound: a group has
\* one cycle, so that a second one is not opened.
OffersOpen == Visible /\ current = None
OffersStart == Visible /\ current # None /\ current.status = "open"
OffersComplete == Visible /\ current # None /\ current.status # "completed"
OffersRecord == Visible /\ Collecting /\ ShownRow = "none"
OffersPayout ==
    /\ Visible /\ current # None /\ contributions # None
    /\ SelectedRound[2] \notin current.done
OffersSubmit == paying /\ group # None /\ ShownRow = "none"

Offered(kind) ==
    CASE kind = "open" -> OffersOpen
      [] kind = "start" -> OffersStart
      [] kind = "complete" -> OffersComplete
      [] kind \in {"record", "upload"} -> OffersRecord
      [] kind = "payout" -> OffersPayout
      [] kind = "submit" -> OffersSubmit
      [] kind = "approve" -> Reviewing

\* Whose row is written.
Member(kind) ==
    CASE kind = "approve" -> review
      [] kind \in {"record", "upload", "submit"} -> group
      [] OTHER -> None

\* Every button that writes is disabled while saving, the file input of the list
\* of members is not; what it acts on is read when it is clicked.
Write(c, kind) ==
    /\ Click(c) /\ Offered(kind)
    /\ ~ saving \/ kind = "upload"
    /\ kind = "open" \/ current # None
    /\ saving' = TRUE
    /\ Request(c, "write", Asking(kind, route, IF current = None THEN None ELSE current.group,
                                  SelectedRound, Member(kind)))
    /\ UNCHANGED <<cycleServer, route, view, groupsLoading, loading, modals, disturbed>>

-----------------------------------------------------------------------------
(* The server.                                                               *)

\* Slip: a cycle is looked up without its group.
InGroupAny(l) == l.cycle # None

\* A cycle, and a round of it, is looked up under the group in the path.
InGroup(l) == l.cycle = l.group

\* A proof is taken in any state of the row, and a cycle completed again.
Allowed(l) ==
    CASE l.kind = "open" -> status[l.group] = "none"
      [] l.kind = "start" -> InGroup(l) /\ status[l.cycle] = "open"
      [] l.kind = "approve" -> InGroup(l) /\ l.member = l.group /\ row[l.round] = "proof"
      [] l.kind = "record" -> InGroup(l) /\ (l.member = l.group => row[l.round] # "paid")
      [] l.kind = "payout" -> InGroup(l) /\ l.round \notin done
      [] OTHER -> InGroup(l)

\* The row of the round's own member: one of a member of another group, which a
\* page in disorder may make, is left out.
RowAfter(l) ==
    IF l.member # l.group THEN row
    ELSE CASE l.kind \in {"upload", "submit"} /\ row[l.round] = "none" -> [row EXCEPT ![l.round] = "proof"]
           [] l.kind \in {"approve", "record"} -> [row EXCEPT ![l.round] = "paid"]
           [] OTHER -> row

DoneAfter(l) == IF l.kind = "payout" THEN done \cup {l.round} ELSE done

\* The payout of the last round completes a cycle in progress.
AllDone(l) ==
    /\ l.kind = "payout" /\ status[l.cycle] = "in_progress"
    /\ {l.cycle} \X (1 .. LastRound) \subseteq DoneAfter(l)

StatusAfter(l) ==
    CASE l.kind = "open" -> [status EXCEPT ![l.group] = "open"]
      [] l.kind = "start" -> [status EXCEPT ![l.cycle] = "in_progress"]
      [] l.kind = "complete" \/ AllDone(l) -> [status EXCEPT ![l.cycle] = "completed"]
      [] OTHER -> status

DoneIn(g) == {n \in 1 .. LastRound : <<g, n>> \in done}

Reply(c, ok, cycle, rounds, contribution) ==
    loc' = [loc EXCEPT ![c].answer = IF ok THEN "ok" ELSE "refused",
                       ![c].status = cycle, ![c].done = rounds, ![c].row = contribution]

ServeWrite(c) ==
    LET l == loc[c] IN
    /\ pc[c] = "write"
    /\ IF Allowed(l)
       THEN status' = StatusAfter(l) /\ row' = RowAfter(l) /\ done' = DoneAfter(l)
       ELSE UNCHANGED cycleServer
    /\ Reply(c, Allowed(l), status'[l.group], DoneIn(l.group), "none")

ServeRead(c) ==
    LET l == loc[c] IN
    /\ pc[c] \in {"mine", "group", "list", "cycle", "ledger"}
    /\ Reply(c, pc[c] \in {"cycle", "ledger"} => InGroup(l),
             IF pc[c] \in {"list", "cycle"} THEN status[l.group] ELSE "none",
             IF pc[c] = "cycle" THEN DoneIn(l.group) ELSE {},
             IF pc[c] = "ledger" THEN row[l.round] ELSE "none")
    /\ UNCHANGED cycleServer

Serve(c) ==
    /\ pc[c] # "idle" /\ loc[c].answer = "none"
    /\ ServeRead(c) \/ ServeWrite(c)
    /\ UNCHANGED <<route, view, flags, modals, pc, order, clicks, disturbed>>

-----------------------------------------------------------------------------
(* The answers.                                                              *)

Took(c) == disturbed' = (disturbed \/ Head(order) # c)

\* fetchMine has returned, with an answer or an error; fetchOne begins.
TakeMine(c) ==
    /\ group' = None /\ groupsLoading' = TRUE
    /\ Follow(c, "group", route, None, None)
    /\ UNCHANGED <<active, current, selected, contributions, loading, saving>>

\* fetchOne has returned; fetchCycles begins, with the group the URL names now.
TakeGroup(c, found) ==
    /\ group' = (IF found THEN loc[c].group ELSE None)
    /\ groupsLoading' = FALSE /\ loading' = TRUE
    /\ Follow(c, "list", route, None, None)
    /\ UNCHANGED <<active, current, selected, contributions, saving>>

TakeList(c) ==
    /\ active' = (loc[c].status \in {"open", "in_progress"})
    /\ IF loc[c].status = "none"
       THEN /\ current' = None /\ selected' = None /\ contributions' = None
            /\ End(c)
       ELSE /\ Follow(c, "cycle", loc[c].group, loc[c].group, None)
            /\ UNCHANGED <<current, selected, contributions, loading, saving>>
    /\ UNCHANGED <<group, groupsLoading>>

\* fetchRoundLedger, of the round that is selected by then.
FetchLedger(c, cycle, id) == Follow(c, "ledger", loc[c].group, cycle.group, SelectedOf(cycle, id))

\* The cycle as it has been answered.
Shown(c) == [group |-> loc[c].group, status |-> loc[c].status, done |-> loc[c].done]

TakeCycle(c) ==
    /\ current' = Shown(c)
    /\ selected' = SelectedOf(Shown(c), selected)
    /\ FetchLedger(c, Shown(c), selected)
    /\ UNCHANGED <<group, active, contributions, flags>>

TakeLedger(c) ==
    /\ contributions' = [round |-> loc[c].round, row |-> loc[c].row]
    /\ End(c)
    /\ UNCHANGED <<group, active, current, selected, groupsLoading>>

\* After a write the list, the cycle or the ledger is fetched again.
TakeWrite(c) ==
    /\ CASE loc[c].kind \in CycleWrites ->
              /\ current' = (IF loc[c].kind = "complete" THEN current ELSE Shown(c))
              /\ loading' = TRUE
              /\ Follow(c, "list", loc[c].group, None, None)
              /\ UNCHANGED saving
         [] loc[c].kind \in RoundWrites /\ current = None -> End(c) /\ UNCHANGED current
         [] loc[c].kind \in {"upload", "submit"} /\ current # None ->
              FetchLedger(c, current, selected) /\ UNCHANGED <<current, loading, saving>>
         [] OTHER -> /\ Follow(c, "cycle", loc[c].group, current.group, None)
                     /\ UNCHANGED <<current, loading, saving>>
    /\ UNCHANGED <<group, active, selected, contributions, groupsLoading>>

\* The modal a button is in is closed once what it does and what follows it
\* have succeeded.
Closes(c) ==
    /\ review' = (IF loc[c].kind = "approve" /\ pc[c] = "ledger" THEN None ELSE review)
    /\ paying' = (paying /\ ~ (loc[c].kind = "submit" /\ (pc[c] = "ledger" \/ current = None)))

Take(c) ==
    /\ loc[c].answer = "ok"
    /\ CASE pc[c] = "mine" -> TakeMine(c)
         [] pc[c] = "group" -> TakeGroup(c, TRUE)
         [] pc[c] = "list" -> TakeList(c)
         [] pc[c] = "cycle" -> TakeCycle(c)
         [] pc[c] = "ledger" -> TakeLedger(c)
         [] OTHER -> TakeWrite(c)
    /\ Closes(c) /\ Took(c)
    /\ UNCHANGED <<cycleServer, route, clicks>>

\* Slip: a chain that fails leaves the flags as they are.
GiveUpSilently(c) ==
    /\ pc' = [pc EXCEPT ![c] = "idle"]
    /\ loc' = [loc EXCEPT ![c] = Idle]
    /\ order' = Rest(c)
    /\ UNCHANGED <<view, flags>>

\* An error ends a chain, in its finally clauses too.
GiveUp(c) == End(c) /\ UNCHANGED <<view, groupsLoading>>

\* The two reads of the groups store catch their errors: the chain goes on.
Throws(c) ==
    /\ CASE pc[c] = "mine" -> TakeMine(c)
         [] pc[c] = "group" -> TakeGroup(c, FALSE)
         [] OTHER -> GiveUp(c)
    /\ UNCHANGED <<cycleServer, route, modals, clicks>>

Refused(c) ==
    /\ loc[c].answer = "refused"
    /\ Throws(c) /\ Took(c)

\* The request, or its answer, is lost.
Lost(c) ==
    /\ pc[c] # "idle"
    /\ Throws(c) /\ disturbed' = TRUE

-----------------------------------------------------------------------------
User ==
    \/ OpenReview \/ OpenPay \/ CloseModal
    \/ \E c \in Calls :
        \/ Refresh(c)
        \/ \E g \in Groups : Navigate(c, g)
        \/ \E i \in Rounds : Select(c, i)
        \/ \E kind \in Writes : Write(c, kind)

Next == User \/ \E c \in Calls : Serve(c) \/ Take(c) \/ Refused(c) \/ Lost(c)

Spec == Init /\ [][Next]_vars

\* Requests are served and answers delivered in the end.
Fairness == \A c \in Calls : WF_vars(Serve(c) \/ Take(c) \/ Refused(c))

FairSpec == Spec /\ Fairness

-----------------------------------------------------------------------------
(* Properties                                                                *)

Quiet == order = <<>>

\* Once nothing is under way the page shows the group in the URL, its cycle, and
\* the row of the round that is selected as the server has it, in whatever way
\* clicks have overlapped, unless answers overtook each other or got lost
\* (loadForRoute, fetchCycle, fetchRoundLedger).
QuietPageIsTrue ==
    Quiet /\ clicks > 0 /\ ~ disturbed =>
        /\ group = route
        /\ IF status[route] = "none" THEN current = None
           ELSE /\ current = [group |-> route, status |-> status[route], done |-> DoneIn(route)]
                /\ contributions = [round |-> SelectedRound, row |-> row[SelectedRound]]

\* A write is done in the group the URL named at the click, though the store may
\* still, or again, hold the cycle of another (findFirst by id and groupId).
WritesStayInGroup ==
    [][\A i \in Rounds : row'[i] # row[i] =>
        \E c \in Calls : pc[c] = "write" /\ loc[c].group = i[1]]_vars

\* The page neither stays hidden nor its buttons disabled, whatever fails.
Settles == <>[](~ groupsLoading /\ ~ loading /\ ~ saving)

=============================================================================
