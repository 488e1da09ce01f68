-------------------------------- MODULE Outbox --------------------------------
(***************************************************************************)
(* What the callers of sendWhatsApp, notifyGroup and the notification      *)
(* queue may rely on: a message that has been asked for is reported sent   *)
(* or failed, once.  It is reported sent only if the provider has taken    *)
(* it; reported failed it may still arrive; it may arrive more than once,  *)
(* but not more than Limit times.                                          *)
(***************************************************************************)
EXTENDS Naturals

CONSTANTS Messages, Limit

VARIABLES
    muted,    \* sending is switched off: messages are reported sent
    status,   \* what has been reported of each message
    copies    \* how often the provider has taken it

vars == <<muted, status, copies>>

Init ==
    /\ muted \in BOOLEAN
    /\ status = [m \in Messages |-> "new"]
    /\ copies = [m \in Messages |-> 0]

Ask(m) ==
    /\ status[m] = "new"
    /\ status' = [status EXCEPT ![m] = "pending"]
    /\ UNCHANGED <<muted, copies>>

Take(m) ==
    /\ status[m] # "new" /\ copies[m] < Limit /\ ~ muted
    /\ copies' = [copies EXCEPT ![m] = @ + 1]
    /\ UNCHANGED <<muted, status>>

Report(m, s) ==
    /\ status[m] = "pending"
    /\ s = "sent" => copies[m] > 0 \/ muted
    /\ status' = [status EXCEPT ![m] = s]
    /\ UNCHANGED <<muted, copies>>

Next == \E m \in Messages : Ask(m) \/ Take(m) \/ Report(m, "sent") \/ Report(m, "failed")

Spec == Init /\ [][Next]_vars

\* Nobody who has asked waits for ever.
Answered == \A m \in Messages : status[m] = "pending" ~> status[m] \in {"sent", "failed"}

=============================================================================
