--------------------------------- MODULE Seed ---------------------------------
(***************************************************************************)
(* The script that fills a database with demo data (prisma/seed.ts): a     *)
(* list of statements, which may be interrupted anywhere and is run again, *)
(* on a database that has been in use in between.                          *)
(*                                                                         *)
(* A row stands for what one statement, or a loop of them, writes.  What   *)
(* belongs to a group or a cycle is created only by a run that has looked  *)
(* for the group or the cycle and has not found it.                        *)
(***************************************************************************)
EXTENDS PaymentSettings, Sequences

CONSTANT MaxRuns    \* bound on the runs

VARIABLES
    data,       \* each of the rows: none, demo, or changed by its users
    at,         \* the next statement of the run; 0: no run
    absent,     \* the rows the run has not found
    runs,
    outcome,    \* how the last run has ended: none, done, thrown, cut
    torn        \* auxiliary: a run was cut after it had created a group or a
                \* cycle and before all that belongs to it

seedVars == <<data, at, absent, runs, outcome, torn>>

\* Written, whatever there is.
Upsert(name) == <<[op |-> "upsert", row |-> name, of |-> name]>>

\* Looked for.
Find(name) == <<[op |-> "find", row |-> name, of |-> name]>>

\* Created, read (and to be there), if `of' has not been found.
Create(name, of) == <<[op |-> "create", row |-> name, of |-> of]>>
Need(name, of) == <<[op |-> "need", row |-> name, of |-> of]>>

\* Updated, if it is there.
Update(name) == <<[op |-> "update", row |-> name, of |-> name]>>

CreateOnce(name) == Find(name) \o Create(name, name)

Users == Upsert("admin") \o Upsert("users")

MarysInvoice == CreateOnce("invoice")

MarysGroup ==
    CreateOnce("group") \o Create("settings", "group")
        \o Create("owner", "group") \o Create("members", "group") \o Update("settings")

MarysCycle ==
    Find("cycle") \o Need("settings", "cycle") \o Create("cycle", "cycle")
        \o Create("round", "cycle") \o Create("laterRounds", "cycle")
        \o Create("recipients", "cycle") \o Create("contributions", "cycle")

MarysLoan == Find("loan") \o Need("settings", "loan") \o Create("loan", "loan")

TestUsers == Upsert("testUsers") \o CreateOnce("testInvoice")

TestGroup ==
    CreateOnce("testGroup") \o Create("testSettings", "testGroup")
        \o Create("testOwner", "testGroup") \o Create("testTreasurer", "testGroup")
        \o Create("testCycle", "testGroup") \o Create("testRound", "testGroup")
        \o Need("testOwner", "testGroup") \o Create("testRecipient", "testGroup")

Peter == Upsert("peter") \o CreateOnce("petersInvoice") \o CreateOnce("proof")

Script ==
    Users \o MarysInvoice \o MarysGroup \o MarysCycle \o MarysLoan
        \o TestUsers \o TestGroup \o Peter

Names == {Script[k].row : k \in DOMAIN Script}

\* The account of the platform comes last: looked for, and created.
FindDefault == Len(Script) + 1
CreateDefault == Len(Script) + 2

SeedInit ==
    /\ data = [n \in Names |-> "none"]
    /\ at = 0 /\ absent = {} /\ runs = 0
    /\ outcome = "none" /\ torn = FALSE

StartRun ==
    /\ at = 0 /\ runs < MaxRuns
    /\ at' = 1 /\ absent' = {} /\ runs' = runs + 1
    /\ UNCHANGED <<data, outcome, torn, paymentVars>>

EndRun(how) == at' = 0 /\ absent' = {} /\ outcome' = how /\ UNCHANGED runs

Advance == at' = at + 1 /\ UNCHANGED <<runs, outcome>>

\* The loan is looked for only if its borrower is a member.
Missing(name) == data[name] = "none" /\ (name = "loan" => data["members"] # "none")

Throws(s) == s.op = "need" /\ s.of \in absent /\ data[s.row] = "none"

\* Slip: a proof is created along with its invoice.
WritesWithInvoice(s) ==
    \/ s.op = "upsert"
    \/ s.op = "create" /\ s.of \in absent /\ (s.row = "proof" => "petersInvoice" \in absent)
    \/ s.op = "update" /\ data[s.row] # "none"

Writes(s) ==
    \/ s.op = "upsert"
    \/ s.op = "create" /\ s.of \in absent
    \/ s.op = "update" /\ data[s.row] # "none"

Statement ==
    LET s == Script[at] IN
    /\ at \in DOMAIN Script
    /\ data' = IF Writes(s) THEN [data EXCEPT ![s.row] = "demo"] ELSE data
    /\ IF Throws(s) THEN EndRun("thrown")
       ELSE /\ Advance
            /\ absent' = absent \cup {n \in {s.row} : s.op = "find" /\ Missing(n)}
    /\ UNCHANGED <<torn, paymentVars>>

LookForDefault ==
    /\ at = FindDefault
    /\ absent' = absent \cup {n \in {Platform} : Candidates(Platform) = {}}
    /\ Advance
    /\ UNCHANGED <<data, torn, paymentVars>>

SeedDefault ==
    /\ at = CreateDefault
    /\ IF Platform \in absent THEN \E i \in FreeRows : row' = [row EXCEPT ![i] = Platform]
       ELSE UNCHANGED row
    /\ EndRun("done")
    /\ UNCHANGED <<data, torn, handlers, told, saves, record>>

\* What is created under a group or a cycle that is there already.
Unfinished ==
    \E k \in DOMAIN Script : k >= at /\ Script[k].op = "create" /\ Script[k].of \in absent
                             /\ data[Script[k].of] # "none"

\* The process stops, or the connection is lost.
Interrupt ==
    /\ at # 0
    /\ EndRun("cut")
    /\ torn' = (torn \/ Unfinished)
    /\ UNCHANGED <<data, paymentVars>>

\* Between two runs the database is used.
Use(n) ==
    /\ at = 0 /\ data[n] = "demo"
    /\ data' = [data EXCEPT ![n] = "changed"]
    /\ UNCHANGED <<at, absent, runs, outcome, torn, paymentVars>>

SeedNext ==
    \/ StartRun \/ Statement \/ LookForDefault \/ SeedDefault \/ Interrupt
    \/ \E n \in {"users", "settings", "loan"} : Use(n)

-----------------------------------------------------------------------------
(* Properties                                                                *)

Complete == \A n \in Names : data[n] # "none"

\* A run that has ended leaves all of the demo data, whatever interrupted the
\* runs before it, unless one was cut between creating a group or a cycle and
\* what belongs to it: the next finds the group and passes over the rest, or
\* throws for want of its settings (main, the guards of its blocks).
RunsRepair ==
    ~ torn /\ outcome \in {"done", "thrown"} /\ at = 0 =>
        outcome = "done" /\ Complete /\ Candidates(Platform) # {}

\* What seed.ts:9 says: a run may always be repeated.
RunsRepeat == outcome # "thrown"

=============================================================================
