--------------------------- MODULE PaymentSettings ---------------------------
(***************************************************************************)
(* The accounts payers are told (payment-settings.service.ts): one table   *)
(* holds the platform's account, those of the groups and those of single   *)
(* invoices.                                                               *)
(*                                                                         *)
(* row[i] is what the row i was last saved for, an account of its own.     *)
(* The platform's row is one without an invoice, and so is the row of a    *)
(* group.  A request r in Requests is a handler in flight: pc[r] names its *)
(* next database call, loc[r] what it has read.                            *)
(***************************************************************************)
EXTENDS Naturals, FiniteSets

CONSTANTS
    Groups, Invoices,   \* they have an account of their own, or fall back
    Platform, None,
    Rows,               \* the ids of rows
    Requests,
    MaxSaves            \* bound on the requests

Payers == Groups \cup Invoices
Scopes == Payers \cup {Platform}

ASSUME ScopesAssumption ==
    /\ Groups \cap Invoices = {}
    /\ Platform \notin Payers /\ None \notin Scopes \cup Rows
    /\ MaxSaves \in Nat

VARIABLES
    row,        \* what each row is for
    pc, loc,
    told,       \* whose account a payer has been told last
    saves,      \* requests so far
    overlap,    \* auxiliary: two saves of the platform's account have been
                \* at work at once
    groupSaved, \* auxiliary: a group has saved an account of its own
    saved,      \* auxiliary: the payers whose own account has been saved
    robbed      \* auxiliary: the groups whose row a save of the platform's
                \* account has found

handlers == <<pc, loc>>
record == <<overlap, groupSaved, saved, robbed>>
paymentVars == <<row, handlers, told, saves, record>>

Steps == {"idle", "write", "fallback"}
Locals == [for : Scopes \cup {None}, found : Rows \cup {None}]
NoLocals == [for |-> None, found |-> None]

PaymentTypeOK ==
    /\ row \in [Rows -> Scopes \cup {None}]
    /\ pc \in [Requests -> Steps]
    /\ loc \in [Requests -> Locals]
    /\ \A r \in Requests : pc[r] # "idle" => loc[r].for # None
    /\ told \in [Payers -> Scopes \cup {None}]
    /\ saves \in 0 .. MaxSaves
    /\ overlap \in BOOLEAN /\ groupSaved \in BOOLEAN
    /\ saved \subseteq Payers /\ robbed \subseteq Groups

PaymentInit ==
    /\ row = [i \in Rows |-> None]
    /\ pc = [r \in Requests |-> "idle"] /\ loc = [r \in Requests |-> NoLocals]
    /\ told = [p \in Payers |-> None]
    /\ saves = 0 /\ overlap = FALSE /\ groupSaved = FALSE
    /\ saved = {} /\ robbed = {}

RowsFor(scope) == {i \in Rows : row[i] = scope}
FreeRows == RowsFor(None)

\* Slip: any row will do.
AnyRow == Rows \ FreeRows

\* What findFirst looks for where invoiceId is null.
RowsWithoutInvoice == {i \in Rows : row[i] \in Groups \cup {Platform}}

\* The rows findFirst or findUnique may return for a scope; in no order.
Candidates(scope) == IF scope = Platform THEN RowsWithoutInvoice ELSE RowsFor(scope)

Goto(r, step, scope, i) ==
    /\ pc' = [pc EXCEPT ![r] = step]
    /\ loc' = [loc EXCEPT ![r] = [for |-> scope, found |-> i]]

Finish(r) ==
    /\ pc' = [pc EXCEPT ![r] = "idle"]
    /\ loc' = [loc EXCEPT ![r] = NoLocals]

Begin(r) ==
    /\ pc[r] = "idle" /\ saves < MaxSaves
    /\ saves' = saves + 1

-----------------------------------------------------------------------------
(* upsertPlatformDefault, upsertGroupPayment, upsertInvoiceOverride.         *)

SaveRead(r, scope) ==
    /\ Begin(r)
    /\ \E i \in (IF Candidates(scope) = {} THEN {None} ELSE Candidates(scope)) :
          /\ Goto(r, "write", scope, i)
          /\ robbed' = robbed \cup {g \in Groups : scope = Platform /\ i \in RowsFor(g)}
    /\ overlap' = (overlap \/ (scope = Platform /\ \E q \in Requests : loc[q].for = Platform))
    /\ groupSaved' = (groupSaved \/ scope \in Groups)
    /\ UNCHANGED <<row, told, saved>>

\* A group and an invoice have one row: the unique keys refuse a second.
Refused(r, i) == loc[r].for # Platform /\ RowsFor(loc[r].for) \ {i} # {}

Save(r, i) ==
    IF Refused(r, i) THEN UNCHANGED <<row, saved>>
    ELSE /\ row' = [row EXCEPT ![i] = loc[r].for]
         /\ saved' = saved \cup ({loc[r].for} \cap Payers)

\* The row that was found is written by its id, whatever it is for by now.
SaveWrite(r) ==
    /\ pc[r] = "write"
    /\ IF loc[r].found # None THEN Save(r, loc[r].found)
       ELSE \E i \in FreeRows : Save(r, i)
    /\ Finish(r)
    /\ UNCHANGED <<told, saves, overlap, groupSaved, robbed>>

-----------------------------------------------------------------------------
(* getEffectiveForInvoice, getContributionPaymentDetails.                    *)

\* The account of the payer's own, if there is one.
ShowRead(r, payer) ==
    /\ Begin(r)
    /\ IF RowsFor(payer) # {}
       THEN told' = [told EXCEPT ![payer] = payer] /\ UNCHANGED handlers
       ELSE Goto(r, "fallback", payer, None) /\ UNCHANGED told
    /\ UNCHANGED <<row, record>>

ShowFallback(r) ==
    /\ pc[r] = "fallback"
    /\ \E scope \in (IF Candidates(Platform) = {} THEN {None} ELSE {row[i] : i \in Candidates(Platform)}) :
          told' = [told EXCEPT ![loc[r].for] = scope]
    /\ Finish(r)
    /\ UNCHANGED <<row, saves, record>>

\* The process stops, or a database call throws.
Fail(r) ==
    /\ pc[r] # "idle"
    /\ Finish(r)
    /\ UNCHANGED <<row, told, saves, record>>

PaymentNext ==
    \E r \in Requests :
        \/ \E scope \in Scopes : SaveRead(r, scope)
        \/ \E payer \in Payers : ShowRead(r, payer)
        \/ SaveWrite(r) \/ ShowFallback(r) \/ Fail(r)

PaymentSpec == PaymentInit /\ [][PaymentNext]_paymentVars

-----------------------------------------------------------------------------
(* Properties                                                                *)

\* An account of an invoice's or of a group's own, once saved, is there for good,
\* whichever saves cross and however long ago they have looked.  Excepted are
\* the groups whose row a save of the platform's account has found: it writes
\* that row for the platform (upsertPlatformDefault, findFirst where invoiceId
\* is null).
AccountsAreKept == \A p \in saved : RowsFor(p) # {} \/ p \in robbed

\* A row is the invoice's for good: no save of another account takes it away
\* (the updates by id).
OverridesStay == [][\A i \in Rows : row[i] \in Invoices => row'[i] = row[i]]_row

\* The platform has one account as long as no two saves of it overlap and no
\* group has one (upsertPlatformDefault).
OneDefault == ~ overlap /\ ~ groupSaved => Cardinality(RowsFor(Platform)) <= 1

\* What payment-settings.service.ts:5 says: who has no account of its own is
\* told the platform's.
PayersSeeTheirOwn == \A p \in Payers : told[p] \in {p, Platform, None}

=============================================================================
