------------------------------- MODULE Delivery -------------------------------
(***************************************************************************)
(* The way of a WhatsApp message: sendWhatsApp (direct), sendGroupWhatsApp *)
(* (to the chat of a group) or a job of the notification queue calls       *)
(* sendWhatsAppText, which tries several times, then writes whatsapp_logs  *)
(* and the notification row.  The provider is outside: it may take a       *)
(* request and answer, refuse it, or be slow, so that a request that has   *)
(* timed out here is taken after all.                                      *)
(***************************************************************************)
EXTENDS Integers

CONSTANTS
    Messages,
    Tries,         \* retryAttempts + 1
    JobAttempts,   \* attempts of defaultJobOptions
    MaxStalls      \* maxStalledCount of the queue: how often a job survives a crash

ASSUME ConstantsAssumption ==
    /\ Tries \in Nat \ {0}
    /\ JobAttempts \in Nat \ {0}
    /\ MaxStalls \in Nat

VARIABLES
    enabled,    \* EVOLUTION_ENABLED
    kind,       \* how each message is sent
    sender,     \* where the code that sends it is
    provider,   \* its requests at the provider
    logs,       \* its rows in whatsapp_logs
    note,       \* status of its notification row
    mishap      \* auxiliary: messages whose handler met a crash or database failure

vars == <<enabled, kind, sender, provider, logs, note, mishap>>

\* longGroup: the JID of the chat is longer than the column toPhone;
\* notedJob: the job has a notificationId.
Kind == {"direct", "group", "longGroup", "job", "notedJob"}

IsJob(m) == kind[m] \in {"job", "notedJob"}

SendSteps == {"new", "begin", "sending", "backoff", "log", "note", "finish", "end"}

Sender == [step : SendSteps, tries : 0 .. Tries, attempts : 0 .. JobAttempts,
           stalls : 0 .. MaxStalls, result : {"none", "sent", "failed"},
           broken : BOOLEAN]                \* the finally block has thrown

\* request: of the attempt in progress; stragglers: attempts given up here that
\* may still be taken.
Provider == [request : {"none", "posted", "taken"}, stragglers : Nat, copies : Nat]

TypeOK ==
    /\ enabled \in BOOLEAN
    /\ kind \in [Messages -> Kind]
    /\ sender \in [Messages -> Sender]
    /\ provider \in [Messages -> Provider]
    /\ logs \in [Messages -> [sent : Nat, failed : Nat]]
    /\ note \in [Messages -> {"queued", "sent", "failed"}]
    /\ mishap \in SUBSET Messages

Init ==
    /\ enabled \in BOOLEAN
    /\ kind \in [Messages -> Kind]
    /\ sender = [m \in Messages |-> [step |-> "new", tries |-> 0, attempts |-> 0, stalls |-> 0,
                                     result |-> "none", broken |-> FALSE]]
    /\ provider = [m \in Messages |-> [request |-> "none", stragglers |-> 0, copies |-> 0]]
    /\ logs = [m \in Messages |-> [sent |-> 0, failed |-> 0]]
    /\ note = [m \in Messages |-> "queued"]
    /\ mishap = {}

StepTo(m, step) == sender' = [sender EXCEPT ![m].step = step]

Result(m, result) == sender' = [sender EXCEPT ![m].step = "log", ![m].result = result]

-----------------------------------------------------------------------------
(* Before the request. *)

\* A handler calls, or the worker takes the job for the first time.
Ask(m) ==
    /\ sender[m].step = "new"
    /\ StepTo(m, "begin")
    /\ UNCHANGED <<enabled, kind, provider, logs, note, mishap>>

\* No E.164 phone, no text, or a group that is not linked: nothing is sent or
\* logged.
Refuse(m) ==
    /\ sender[m].step = "begin" /\ ~ IsJob(m)
    /\ sender' = [sender EXCEPT ![m].step = "end", ![m].result = "failed"]
    /\ UNCHANGED <<enabled, kind, provider, logs, note, mishap>>

\* Sending is switched off, or the number has no digits.
Skip(m) ==
    /\ sender[m].step = "begin"
    /\ \/ ~ enabled /\ Result(m, "sent")
       \/ enabled /\ IsJob(m) /\ Result(m, "failed")
    /\ UNCHANGED <<enabled, kind, provider, logs, note, mishap>>

\* Slip: another try does not count.
PostUncounted(m) ==
    /\ enabled /\ sender[m].step \in {"begin", "backoff"}
    /\ sender' = [sender EXCEPT ![m].step = "sending", ![m].tries = 1]
    /\ provider' = [provider EXCEPT ![m].request = "posted"]
    /\ UNCHANGED <<enabled, kind, logs, note, mishap>>

Post(m) ==
    /\ enabled /\ sender[m].step \in {"begin", "backoff"}
    /\ sender' = [sender EXCEPT ![m].step = "sending", ![m].tries = @ + 1]
    /\ provider' = [provider EXCEPT ![m].request = "posted"]
    /\ UNCHANGED <<enabled, kind, logs, note, mishap>>

-----------------------------------------------------------------------------
(* The provider. *)

Take(m) ==
    /\ provider[m].request = "posted"
    /\ provider' = [provider EXCEPT ![m].request = "taken", ![m].copies = @ + 1]
    /\ UNCHANGED <<enabled, kind, sender, logs, note, mishap>>

TakeLate(m) ==
    /\ provider[m].stragglers > 0
    /\ provider' = [provider EXCEPT ![m].stragglers = @ - 1, ![m].copies = @ + 1]
    /\ UNCHANGED <<enabled, kind, sender, logs, note, mishap>>

-----------------------------------------------------------------------------
(* The answer. *)

Ok(m) ==
    /\ sender[m].step = "sending" /\ provider[m].request = "taken"
    /\ Result(m, "sent")
    /\ provider' = [provider EXCEPT ![m].request = "none"]
    /\ UNCHANGED <<enabled, kind, logs, note, mishap>>

\* A status below 500 other than 429 is final.
Rejected(m) ==
    /\ sender[m].step = "sending" /\ provider[m].request = "posted"
    /\ Result(m, "failed")
    /\ provider' = [provider EXCEPT ![m].request = "none"]
    /\ UNCHANGED <<enabled, kind, logs, note, mishap>>

\* Slip: the loop runs once too often.
TryAgainOnceMore(m) ==
    IF sender[m].tries <= Tries THEN StepTo(m, "backoff") ELSE Result(m, "failed")

TryAgain(m) ==
    IF sender[m].tries < Tries THEN StepTo(m, "backoff") ELSE Result(m, "failed")

\* A server or network error; the provider may have taken the request.
Error(m) ==
    /\ sender[m].step = "sending"
    /\ TryAgain(m)
    /\ provider' = [provider EXCEPT ![m].request = "none"]
    /\ UNCHANGED <<enabled, kind, logs, note, mishap>>

\* Slip: an attempt that times out is taken for sent.
TimeoutSent(m) ==
    /\ sender[m].step = "sending"
    /\ Result(m, "sent")
    /\ provider' = [provider EXCEPT ![m].request = "none",
                                    ![m].stragglers = @ + (IF provider[m].request = "posted" THEN 1 ELSE 0)]
    /\ UNCHANGED <<enabled, kind, logs, note, mishap>>

\* withTimeout gives the answer up, not the request.
Timeout(m) ==
    /\ sender[m].step = "sending"
    /\ TryAgain(m)
    /\ provider' = [provider EXCEPT ![m].request = "none",
                                    ![m].stragglers = @ + (IF provider[m].request = "posted" THEN 1 ELSE 0)]
    /\ UNCHANGED <<enabled, kind, logs, note, mishap>>

-----------------------------------------------------------------------------
(* Afterwards. *)

\* notificationId is unique, toPhone holds 20 characters.
LogRefused(m) ==
    \/ kind[m] = "longGroup"
    \/ kind[m] = "notedJob" /\ logs[m].sent + logs[m].failed > 0

Log(m) ==
    /\ sender[m].step = "log"
    /\ IF LogRefused(m)
       THEN /\ sender' = [sender EXCEPT ![m].step = "finish", ![m].broken = TRUE]
            /\ UNCHANGED logs
       ELSE /\ StepTo(m, IF kind[m] = "notedJob" THEN "note" ELSE "finish")
            /\ logs' = IF sender[m].result = "sent" THEN [logs EXCEPT ![m].sent = @ + 1]
                                                    ELSE [logs EXCEPT ![m].failed = @ + 1]
    /\ UNCHANGED <<enabled, kind, provider, note, mishap>>

Note(m) ==
    /\ sender[m].step = "note"
    /\ note' = [note EXCEPT ![m] = sender[m].result]
    /\ StepTo(m, "finish")
    /\ UNCHANGED <<enabled, kind, provider, logs, mishap>>

\* The queue retries a job that has thrown.
Again(m) == [sender[m] EXCEPT !.step = "begin", !.tries = 0, !.attempts = @ + 1,
                              !.result = "none", !.broken = FALSE]

FinishSend(m) ==
    LET thrown == sender[m].result = "failed" \/ sender[m].broken IN
    /\ sender[m].step = "finish"
    /\ sender' = [sender EXCEPT ![m] =
                    IF IsJob(m) /\ thrown /\ @.attempts + 1 < JobAttempts
                    THEN Again(m) ELSE [@ EXCEPT !.step = "end"]]
    /\ UNCHANGED <<enabled, kind, provider, logs, note, mishap>>

-----------------------------------------------------------------------------
(* Failures. *)

\* A database call throws.
DatabaseFails(m) ==
    /\ sender[m].step \in {"log", "note"}
    /\ sender' = [sender EXCEPT ![m].step = "finish", ![m].broken = TRUE]
    /\ mishap' = mishap \cup {m}
    /\ UNCHANGED <<enabled, kind, provider, logs, note>>

\* The process stops.  What was sending directly is forgotten; a job that has
\* stalled is started again, MaxStalls times.
Crash(m) ==
    LET survives == IsJob(m) /\ sender[m].stalls < MaxStalls IN
    /\ sender[m].step \notin {"new", "end"}
    /\ sender' = [sender EXCEPT ![m] =
                    IF survives
                    THEN [@ EXCEPT !.step = "begin", !.tries = 0, !.stalls = sender[m].stalls + 1,
                                   !.result = "none", !.broken = FALSE]
                    ELSE [@ EXCEPT !.step = "end", !.result = "failed"]]
    /\ provider' = [provider EXCEPT ![m].request = "none",
                                    ![m].stragglers = @ + (IF provider[m].request = "posted" THEN 1 ELSE 0)]
    /\ mishap' = mishap \cup {m}
    /\ UNCHANGED <<enabled, kind, logs, note>>

Answer(m) == Ok(m) \/ Rejected(m) \/ Error(m) \/ Timeout(m)

Proceed(m) == Refuse(m) \/ Skip(m) \/ Post(m) \/ Answer(m) \/ Log(m) \/ Note(m) \/ FinishSend(m)

Next ==
    \E m \in Messages :
        \/ Ask(m) \/ Proceed(m)
        \/ Take(m) \/ TakeLate(m)
        \/ DatabaseFails(m) \/ Crash(m)

Spec == Init /\ [][Next]_vars

\* Every attempt is answered or times out, timers fire, and the queue hands a
\* job that failed or stalled to a worker again.  Nothing makes the provider
\* take a request.
Fairness == \A m \in Messages : WF_vars(Proceed(m))

FairSpec == Spec /\ Fairness

-----------------------------------------------------------------------------
(* Properties                                                                *)

\* What has been reported of a message: nothing until its handler or its job
\* has come to an end.
Status(m) ==
    CASE sender[m].step = "new" -> "new"
      [] sender[m].step = "end" -> sender[m].result
      [] OTHER -> "pending"

Promise == INSTANCE Outbox WITH
    Limit <- Tries * (JobAttempts + MaxStalls),
    muted <- ~ enabled,
    status <- [m \in Messages |-> Status(m)],
    copies <- [m \in Messages |-> provider[m].copies]

\* The retries, the queue and its restarts together keep the promise of Outbox.
KeepsPromise == Promise!Spec

\* A message is reported sent or failed in the end (sendWhatsAppText,
\* processWhatsAppJob), though every attempt may time out.
EverySendEnds == Promise!Answered

\* Neither a row nor a notification says sent of a message the provider never
\* took.
SentMeansTaken ==
    \A m \in Messages :
        logs[m].sent > 0 \/ note[m] = "sent" => provider[m].copies > 0 \/ ~ enabled

\* A message whose row says sent is not posted again, unless a crash or the
\* database came between.
LoggedIsNotResent ==
    \A m \in Messages :
        logs[m].sent > 0 /\ m \notin mishap => provider[m].request = "none"

\* The rows of whatsapp_logs can be relied on, whatever times out, is retried or
\* starts anew (processWhatsAppJob, sendWhatsApp, defaultJobOptions).
LogsAreTrue == SentMeansTaken /\ LoggedIsNotResent

\* RELIABILITY.md: "every attempt recorded in whatsapp_logs".
EverySendLogged ==
    \A m \in Messages :
        provider[m].copies > 0 /\ sender[m].step = "end" /\ m \notin mishap =>
            logs[m].sent + logs[m].failed > 0

=============================================================================
