--------------------------- MODULE Services_proofs ---------------------------
(***************************************************************************)
(* What three services of the server promise, proved for any values of     *)
(* their constants: the delivery of WhatsApp messages (Delivery), the      *)
(* accounts payers are told (PaymentSettings) and the link between groups  *)
(* and chats (GroupLink).  No two of them share a variable.                *)
(***************************************************************************)
EXTENDS Delivery, PaymentSettings, GroupLink, FiniteSetTheorems, WellFoundedInduction, TLAPS

-----------------------------------------------------------------------------
(* The delivery of a message: the rows of whatsapp_logs do not lie, and      *)
(* every step maps to a step of Outbox.                                      *)
(*                                                                           *)
(* Messages have nothing to do with one another: the inductive invariant is  *)
(* about the records of one, s at the sender, p at the provider, l its rows  *)
(* in the log, n its notification, calm unless it met a mishap.              *)

-----------------------------------------------------------------------------
(* The inductive invariant                                                   *)

Logs == [sent : Nat, failed : Nat]
Notes == {"queued", "sent", "failed"}

\* A request is in progress only in the step that waits for its answer, and
\* what has been taken was posted while sending was switched on.
Posting(s, p) ==
    /\ p.request # "none" => s.step = "sending"
    /\ p.request = "taken" => p.copies > 0
    /\ p.request # "none" \/ p.stragglers > 0 => enabled
    /\ s.step = "new" => p.stragglers = 0

\* Which try of which attempt it is.
WithinTries(s) ==
    /\ s.step \in {"new", "begin"} => s.tries = 0
    /\ s.step = "backoff" => s.tries < Tries
    /\ s.attempts < JobAttempts

\* Every post was a try of one of the attempts, or of one that a crash cut off.
Counted(s, p) ==
    p.copies + p.stragglers + (IF p.request = "posted" THEN 1 ELSE 0)
        <= Tries * (s.attempts + s.stalls) + s.tries

\* The result is known when it is logged, and is "sent" of what was taken.
Known(s, p, l, n) ==
    /\ s.step \in {"log", "note", "finish", "end"} => s.result \in {"sent", "failed"}
    /\ s.result = "sent" \/ l.sent > 0 \/ n = "sent" => p.copies > 0 \/ ~ enabled
    /\ s.broken => s.step \in {"finish", "end"}

\* What has been logged as sent is on its way to the end.
Through(s, l, calm) ==
    l.sent > 0 /\ calm =>
        /\ s.step \in {"note", "finish", "end"}
        /\ s.step # "end" => s.result = "sent" /\ ~ s.broken

Fits(s, p, l, n, calm) ==
    Posting(s, p) /\ WithinTries(s) /\ Counted(s, p) /\ Known(s, p, l, n) /\ Through(s, l, calm)

DeliveryInv ==
    /\ TypeOK
    /\ \A m \in Messages : Fits(sender[m], provider[m], logs[m], note[m], m \notin mishap)

LEMMA DeliveryInit == Init => DeliveryInv
<1> SUFFICES ASSUME Init PROVE DeliveryInv
  OBVIOUS
<1>1. TypeOK
  BY ConstantsAssumption DEF Init, TypeOK, Sender, Provider, SendSteps
<1>2. ASSUME NEW m \in Messages
      PROVE  Fits(sender[m], provider[m], logs[m], note[m], m \notin mishap)
  <2>1. Tries * 0 = 0
    BY ConstantsAssumption
  <2> QED
    BY <2>1, ConstantsAssumption DEF Init, Fits, Posting, WithinTries, Counted, Known, Through
<1> QED
  BY <1>1, <1>2 DEF DeliveryInv

LEMMA Records ==
    ASSUME DeliveryInv, NEW m \in Messages
    PROVE  /\ sender[m] \in Sender /\ provider[m] \in Provider
           /\ logs[m] \in Logs /\ note[m] \in Notes
           /\ Fits(sender[m], provider[m], logs[m], note[m], m \notin mishap)
BY DEF DeliveryInv, TypeOK, Logs, Notes

\* A step is about one message: what is to show is that its new records fit.
LEMMA OneMessage ==
    ASSUME DeliveryInv, NEW m \in Messages, UNCHANGED <<enabled, kind>>,
           NEW s \in Sender, sender' = [sender EXCEPT ![m] = s],
           NEW p \in Provider, provider' = [provider EXCEPT ![m] = p],
           NEW l \in Logs, logs' = [logs EXCEPT ![m] = l],
           NEW n \in Notes, note' = [note EXCEPT ![m] = n],
           mishap' \in {mishap, mishap \cup {m}},
           Fits(s, p, l, n, m \notin mishap')
    PROVE  DeliveryInv'
<1>1. TypeOK'
  BY DEF DeliveryInv, TypeOK, Logs, Notes
<1>2. ASSUME NEW k \in Messages
      PROVE  Fits(sender'[k], provider'[k], logs'[k], note'[k], k \notin mishap')
  <2>1. CASE k = m
    BY <2>1 DEF DeliveryInv, TypeOK
  <2>2. CASE k # m
    <3>1. /\ sender'[k] = sender[k] /\ provider'[k] = provider[k] /\ logs'[k] = logs[k]
          /\ note'[k] = note[k] /\ (k \notin mishap') = (k \notin mishap)
      BY <2>2 DEF DeliveryInv, TypeOK
    <3> QED
      BY <3>1 DEF DeliveryInv
  <2> QED
    BY <2>1, <2>2
<1>3. \A k \in Messages : Fits(sender[k], provider[k], logs[k], note[k], k \notin mishap)'
  BY <1>2 DEF Fits, Posting, Known
<1> QED
  BY <1>1, <1>3 DEF DeliveryInv

\* A record that is kept.
LEMMA Unchanged ==
    ASSUME DeliveryInv, NEW m \in Messages
    PROVE  /\ sender = [sender EXCEPT ![m] = sender[m]]
           /\ provider = [provider EXCEPT ![m] = provider[m]]
           /\ logs = [logs EXCEPT ![m] = logs[m]]
           /\ note = [note EXCEPT ![m] = note[m]]
BY DEF DeliveryInv, TypeOK

\* Steps of the sender alone.
LEMMA SenderStep ==
    ASSUME DeliveryInv, NEW m \in Messages, UNCHANGED <<enabled, kind, provider, logs, note>>,
           NEW s \in Sender, sender' = [sender EXCEPT ![m] = s],
           mishap' \in {mishap, mishap \cup {m}},
           Fits(s, provider[m], logs[m], note[m], m \notin mishap')
    PROVE  DeliveryInv'
BY Records, Unchanged, OneMessage

\* Steps of the sender and the provider.
LEMMA TransferStep ==
    ASSUME DeliveryInv, NEW m \in Messages, UNCHANGED <<enabled, kind, logs, note>>,
           NEW s \in Sender, sender' = [sender EXCEPT ![m] = s],
           NEW p \in Provider, provider' = [provider EXCEPT ![m] = p],
           mishap' \in {mishap, mishap \cup {m}},
           Fits(s, p, logs[m], note[m], m \notin mishap')
    PROVE  DeliveryInv'
BY Records, Unchanged, OneMessage

-----------------------------------------------------------------------------
(* The steps                                                                 *)

\* Before the request, and after its answer has been logged.
LEMMA QuietSteps ==
    ASSUME DeliveryInv, NEW m \in Messages, Ask(m) \/ Refuse(m) \/ Skip(m) \/ DatabaseFails(m)
    PROVE  DeliveryInv'
<1>1. /\ sender[m] \in Sender /\ provider[m] \in Provider /\ logs[m] \in Logs /\ note[m] \in Notes
      /\ Fits(sender[m], provider[m], logs[m], note[m], m \notin mishap)
  BY Records
<1> USE DEF Fits, Posting, WithinTries, Counted, Known, Through
<1>2. CASE Ask(m)
  <2> DEFINE s == [sender[m] EXCEPT !.step = "begin"]
  <2>1. s \in Sender /\ Fits(s, provider[m], logs[m], note[m], m \notin mishap)
    BY <1>1, <1>2 DEF Ask, Sender, SendSteps
  <2> QED
    BY <1>2, <2>1, SenderStep DEF Ask, StepTo
<1>3. CASE Refuse(m)
  <2> DEFINE s == [sender[m] EXCEPT !.step = "end", !.result = "failed"]
  <2>1. s \in Sender /\ Fits(s, provider[m], logs[m], note[m], m \notin mishap)
    BY <1>1, <1>3 DEF Refuse, Sender, SendSteps
  <2> QED
    BY <1>3, <2>1, SenderStep DEF Refuse
<1>4. ASSUME NEW result \in {"sent", "failed"}, result = "sent" => ~ enabled,
             Skip(m), Result(m, result)
      PROVE  DeliveryInv'
  <2> DEFINE s == [sender[m] EXCEPT !.step = "log", !.result = result]
  <2>1. s \in Sender /\ Fits(s, provider[m], logs[m], note[m], m \notin mishap)
    BY <1>1, <1>4 DEF Skip, Sender, SendSteps
  <2> QED
    BY <1>4, <2>1, SenderStep, ZenonT(60) DEF Skip, Result
<1>5. CASE DatabaseFails(m)
  <2> DEFINE s == [sender[m] EXCEPT !.step = "finish", !.broken = TRUE]
  <2>1. s \in Sender /\ m \in mishap' /\ Fits(s, provider[m], logs[m], note[m], m \notin mishap')
    BY <1>1, <1>5 DEF DatabaseFails, Sender, SendSteps
  <2> QED
    BY <1>5, <2>1, SenderStep, ZenonT(60) DEF DatabaseFails
<1> QED
  BY <1>2, <1>3, <1>4, <1>5 DEF Skip

\* A request, and the provider taking it.
LEMMA RequestSteps ==
    ASSUME DeliveryInv, NEW m \in Messages, Post(m) \/ Take(m) \/ TakeLate(m)
    PROVE  DeliveryInv'
<1>1. /\ sender[m] \in Sender /\ provider[m] \in Provider /\ logs[m] \in Logs /\ note[m] \in Notes
      /\ Fits(sender[m], provider[m], logs[m], note[m], m \notin mishap)
  BY Records
<1>2. PICK budget \in Nat : budget = Tries * (sender[m].attempts + sender[m].stalls)
  BY <1>1, ConstantsAssumption DEF Sender
<1>P. provider[m] \in Provider /\ provider[m].copies + 1 \in Nat
  BY <1>1 DEF Provider
<1> USE DEF Fits, Posting, WithinTries, Counted, Known, Through
<1>3. CASE Post(m)
  <2> DEFINE s == [sender[m] EXCEPT !.step = "sending", !.tries = @ + 1]
             p == [provider[m] EXCEPT !.request = "posted"]
  <2>1. sender[m].tries + 1 \in 0 .. Tries
    BY <1>1, <1>3, ConstantsAssumption DEF Post, Sender
  <2>2. s \in Sender /\ p \in Provider
    BY <1>1, <2>1 DEF Sender, Provider, SendSteps
  <2>3. Counted(s, p)
    BY <1>1, <1>2, <1>3 DEF Post, Sender, Provider
  <2>4. Posting(s, p) /\ WithinTries(s) /\ Known(s, p, logs[m], note[m])
        /\ Through(s, logs[m], m \notin mishap)
    BY <1>1, <1>3, <2>1 DEF Post, Sender, Provider
  <2> QED
    BY <1>3, <2>2, <2>3, <2>4, TransferStep DEF Post
<1>4. CASE Take(m)
  <2> DEFINE p == [provider[m] EXCEPT !.request = "taken", !.copies = @ + 1]
  <2>1. /\ p \in Provider /\ p.request = "taken"
        /\ p.copies = provider[m].copies + 1 /\ p.stragglers = provider[m].stragglers
        /\ provider[m].request = "posted"
    BY <1>P, <1>4 DEF Take, Provider
  <2>0. provider' = [provider EXCEPT ![m] = p]
    BY <1>4 DEF Take
  <2> HIDE DEF p
  <2>2. Counted(sender[m], p)
    BY <1>1, <1>2, <2>1 DEF Sender, Provider
  <2>3. Posting(sender[m], p) /\ Known(sender[m], p, logs[m], note[m])
    BY <1>1, <2>1 DEF Provider
  <2> QED
    BY <1>1, <1>4, <2>0, <2>1, <2>2, <2>3, Unchanged, TransferStep DEF Take
<1>5. CASE TakeLate(m)
  <2> DEFINE p == [provider[m] EXCEPT !.stragglers = @ - 1, !.copies = @ + 1]
  <2>1. /\ p \in Provider /\ p.request = provider[m].request
        /\ p.copies = provider[m].copies + 1 /\ p.stragglers = provider[m].stragglers - 1
        /\ provider[m].stragglers > 0
    <3>1. provider[m].stragglers > 0 /\ provider[m].stragglers - 1 \in Nat
      BY <1>P, <1>5 DEF TakeLate, Provider
    <3> QED
      BY <1>P, <3>1 DEF Provider
  <2>0. provider' = [provider EXCEPT ![m] = p]
    BY <1>5 DEF TakeLate
  <2> HIDE DEF p
  <2>2. Counted(sender[m], p)
    BY <1>1, <1>2, <2>1 DEF Sender, Provider
  <2>3. Posting(sender[m], p) /\ Known(sender[m], p, logs[m], note[m])
    BY <1>1, <2>1 DEF Provider
  <2> QED
    BY <1>1, <1>5, <2>0, <2>1, <2>2, <2>3, Unchanged, TransferStep DEF TakeLate
<1> QED
  BY <1>3, <1>4, <1>5

\* What an attempt that was given up may leave at the provider.
GivenUp(p) ==
    [p EXCEPT !.request = "none",
              !.stragglers = @ + (IF p.request = "posted" THEN 1 ELSE 0)]

\* The answer, or none: the request is over here, and another try follows only
\* while there are tries left.
LEMMA AnswerSteps ==
    ASSUME DeliveryInv, NEW m \in Messages, Answer(m)
    PROVE  DeliveryInv'
<1>1. /\ sender[m] \in Sender /\ provider[m] \in Provider /\ logs[m] \in Logs /\ note[m] \in Notes
      /\ Fits(sender[m], provider[m], logs[m], note[m], m \notin mishap)
  BY Records
<1>2. PICK budget \in Nat : budget = Tries * (sender[m].attempts + sender[m].stalls)
  BY <1>1, ConstantsAssumption DEF Sender
<1>3. sender[m].step = "sending" /\ UNCHANGED <<enabled, kind, logs, note, mishap>>
  BY DEF Answer, Ok, Rejected, Error, Timeout
<1> DEFINE closed == [provider[m] EXCEPT !.request = "none"]
           over(result) == [sender[m] EXCEPT !.step = "log", !.result = result]
           again == [sender[m] EXCEPT !.step = "backoff"]
<1>4. PICK p \in {closed, GivenUp(provider[m])} :
        /\ provider' = [provider EXCEPT ![m] = p]
        /\ \/ sender' = [sender EXCEPT ![m] = over("failed")]
           \/ sender[m].tries < Tries /\ sender' = [sender EXCEPT ![m] = again]
           \/ provider[m].request = "taken" /\ sender' = [sender EXCEPT ![m] = over("sent")]
  BY DEF Answer, Ok, Rejected, Error, Timeout, TryAgain, Result, StepTo, GivenUp
<1>5. /\ p \in Provider /\ p.request = "none" /\ p.copies = provider[m].copies
      /\ p.stragglers <= provider[m].stragglers + (IF provider[m].request = "posted" THEN 1 ELSE 0)
      /\ p.stragglers > 0 => enabled
  <2>1. CASE p = closed
    BY <1>1, <2>1 DEF Provider, Fits, Posting
  <2>2. CASE p = GivenUp(provider[m])
    <3>1. provider[m].stragglers + (IF provider[m].request = "posted" THEN 1 ELSE 0) \in Nat
      BY <1>1 DEF Provider
    <3>2. /\ p \in Provider /\ p.request = "none" /\ p.copies = provider[m].copies
          /\ p.stragglers = provider[m].stragglers + (IF provider[m].request = "posted" THEN 1 ELSE 0)
      BY <1>1, <2>2, <3>1 DEF GivenUp, Provider
    <3> QED
      BY <1>1, <3>2 DEF Provider, Fits, Posting
  <2> QED
    BY <1>4, <2>1, <2>2
<1> HIDE DEF closed
<1> USE DEF Fits, Posting, WithinTries, Counted, Known, Through
<1>6. CASE sender' = [sender EXCEPT ![m] = over("failed")]
  <2>1. over("failed") \in Sender
    BY <1>1 DEF Sender, SendSteps
  <2>2. Counted(over("failed"), p)
    BY <1>1, <1>2, <1>3, <1>5 DEF Sender, Provider
  <2>3. Fits(over("failed"), p, logs[m], note[m], m \notin mishap)
    BY <1>1, <1>3, <1>5, <2>2 DEF Sender, Provider
  <2> QED
    BY <1>3, <1>4, <1>5, <1>6, <2>1, <2>3, TransferStep
<1>7. CASE sender[m].tries < Tries /\ sender' = [sender EXCEPT ![m] = again]
  <2>1. again \in Sender
    BY <1>1 DEF Sender, SendSteps
  <2>2. Counted(again, p)
    BY <1>1, <1>2, <1>3, <1>5 DEF Sender, Provider
  <2>3. Fits(again, p, logs[m], note[m], m \notin mishap)
    BY <1>1, <1>3, <1>5, <1>7, <2>2 DEF Sender, Provider
  <2> QED
    BY <1>3, <1>4, <1>5, <1>7, <2>1, <2>3, TransferStep
<1>8. CASE provider[m].request = "taken" /\ sender' = [sender EXCEPT ![m] = over("sent")]
  <2>1. over("sent") \in Sender
    BY <1>1 DEF Sender, SendSteps
  <2>2. Counted(over("sent"), p)
    BY <1>1, <1>2, <1>3, <1>5 DEF Sender, Provider
  <2>3. Fits(over("sent"), p, logs[m], note[m], m \notin mishap)
    BY <1>1, <1>3, <1>5, <1>8, <2>2 DEF Sender, Provider
  <2> QED
    BY <1>3, <1>4, <1>5, <1>8, <2>1, <2>3, TransferStep
<1> QED
  BY <1>4, <1>6, <1>7, <1>8

\* The rows: written once the result is known.
LEMMA LogSteps ==
    ASSUME DeliveryInv, NEW m \in Messages, Log(m) \/ Note(m)
    PROVE  DeliveryInv'
<1>1. /\ sender[m] \in Sender /\ provider[m] \in Provider /\ logs[m] \in Logs /\ note[m] \in Notes
      /\ Fits(sender[m], provider[m], logs[m], note[m], m \notin mishap)
  BY Records
<1>2. logs[m].sent + 1 \in Nat /\ logs[m].failed + 1 \in Nat
  BY <1>1 DEF Logs
<1> USE DEF Fits, Posting, WithinTries, Counted, Known, Through
<1>3. CASE Log(m) /\ LogRefused(m)
  <2> DEFINE s == [sender[m] EXCEPT !.step = "finish", !.broken = TRUE]
  <2>1. s \in Sender /\ Fits(s, provider[m], logs[m], note[m], m \notin mishap)
    BY <1>1, <1>3 DEF Log, Sender, SendSteps
  <2> QED
    BY <1>3, <2>1, SenderStep DEF Log
<1>4. CASE Log(m) /\ ~ LogRefused(m)
  <2>1. PICK step \in {"note", "finish"} : sender' = [sender EXCEPT ![m].step = step]
    BY <1>4 DEF Log, StepTo
  <2> DEFINE s == [sender[m] EXCEPT !.step = step]
             l == IF sender[m].result = "sent" THEN [logs[m] EXCEPT !.sent = @ + 1]
                                               ELSE [logs[m] EXCEPT !.failed = @ + 1]
  <2>2. s \in Sender /\ l \in Logs
    BY <1>1, <1>2 DEF Sender, SendSteps, Logs
  <2>3. sender' = [sender EXCEPT ![m] = s] /\ logs' = [logs EXCEPT ![m] = l]
    BY <1>4, <2>1 DEF Log
  <2>4. /\ UNCHANGED <<enabled, kind, provider, note, mishap>>
        /\ sender[m].step = "log" /\ sender[m].result \in {"sent", "failed"}
    BY <1>1, <1>4 DEF Log
  <2>5. l.sent > 0 => logs[m].sent > 0 \/ sender[m].result = "sent"
    BY <1>1, <1>2 DEF Logs
  <2> HIDE DEF l
  <2>6. Fits(s, provider[m], l, note[m], m \notin mishap)
    BY <1>1, <2>4, <2>5 DEF Sender
  <2> QED
    BY <1>1, <2>2, <2>3, <2>4, <2>6, Unchanged, OneMessage, ZenonT(60)
<1>5. CASE Note(m)
  <2> DEFINE s == [sender[m] EXCEPT !.step = "finish"]
  <2>1. s \in Sender /\ sender[m].result \in Notes
    BY <1>1, <1>5 DEF Note, Sender, SendSteps, Notes
  <2>2. Fits(s, provider[m], logs[m], sender[m].result, m \notin mishap)
    BY <1>1, <1>5 DEF Note, Sender
  <2> QED
    BY <1>1, <1>5, <2>1, <2>2, Unchanged, OneMessage, ZenonT(60) DEF Note, StepTo
<1> QED
  BY <1>3, <1>4, <1>5

\* The tries of one more attempt.
LEMMA MoreTries ==
    ASSUME NEW a \in Nat
    PROVE  Tries * a \in Nat /\ Tries * (a + 1) = Tries * a + Tries
BY ConstantsAssumption

\* The end of an attempt: of the message, or only of one try of its job.
LEMMA FinishStep ==
    ASSUME DeliveryInv, NEW m \in Messages, FinishSend(m)
    PROVE  DeliveryInv'
<1>1. /\ sender[m] \in Sender /\ provider[m] \in Provider /\ logs[m] \in Logs /\ note[m] \in Notes
      /\ Fits(sender[m], provider[m], logs[m], note[m], m \notin mishap)
  BY Records
<1>2. sender[m].step = "finish" /\ UNCHANGED <<enabled, kind, provider, logs, note, mishap>>
  BY DEF FinishSend
<1>3. CASE /\ sender[m].result = "failed" \/ sender[m].broken
           /\ sender[m].attempts + 1 < JobAttempts
           /\ sender' = [sender EXCEPT ![m] = Again(m)]
  <2> DEFINE s == Again(m)
             spent == sender[m].attempts + sender[m].stalls
  <2>0. sender[m].attempts + 1 \in 0 .. JobAttempts /\ 0 \in 0 .. Tries
    BY <1>1, <1>3, ConstantsAssumption DEF Sender
  <2>1. /\ s \in Sender /\ s.step = "begin" /\ s.tries = 0
        /\ s.attempts = sender[m].attempts + 1 /\ s.stalls = sender[m].stalls
        /\ s.result = "none" /\ s.broken = FALSE
    BY <1>1, <2>0 DEF Again, Sender, SendSteps
  <2> HIDE DEF s
  <2>2. spent \in Nat /\ s.attempts + s.stalls = spent + 1
    BY <1>1, <2>1 DEF Sender
  <2>3. Counted(s, provider[m])
    <3>1. Tries * spent \in Nat /\ Tries * (spent + 1) = Tries * spent + Tries
      BY <2>2, MoreTries
    <3>2. sender[m].tries \in 0 .. Tries
      BY <1>1 DEF Sender
    <3> QED
      BY <1>1, <2>1, <2>2, <3>1, <3>2, ConstantsAssumption DEF Fits, Counted, Provider
  <2>4. Fits(s, provider[m], logs[m], note[m], m \notin mishap)
    BY <1>1, <1>2, <1>3, <2>1, <2>3 DEF Fits, Posting, WithinTries, Known, Through
  <2> QED
    BY <1>2, <1>3, <2>1, <2>4, SenderStep DEF s
<1>4. CASE sender' = [sender EXCEPT ![m] = [sender[m] EXCEPT !.step = "end"]]
  <2> DEFINE s == [sender[m] EXCEPT !.step = "end"]
  <2>1. s \in Sender /\ Fits(s, provider[m], logs[m], note[m], m \notin mishap)
    BY <1>1, <1>2 DEF Sender, SendSteps, Fits, Posting, WithinTries, Counted, Known, Through
  <2> QED
    BY <1>2, <1>4, <2>1, SenderStep
<1> QED
  BY <1>3, <1>4 DEF FinishSend

\* The record of a job that starts again, and of a message that is given up.
Restarted(m) == [sender[m] EXCEPT !.step = "begin", !.tries = 0, !.stalls = @ + 1,
                                  !.result = "none", !.broken = FALSE]

Dropped(m) == [sender[m] EXCEPT !.step = "end", !.result = "failed"]

LEMMA Crashes ==
    ASSUME NEW m \in Messages, Crash(m)
    PROVE  /\ provider' = [provider EXCEPT ![m] = GivenUp(provider[m])]
           /\ UNCHANGED <<enabled, kind, logs, note>> /\ mishap' = mishap \cup {m}
           /\ sender[m].step \notin {"new", "end"}
           /\ \/ sender[m].stalls < MaxStalls /\ sender' = [sender EXCEPT ![m] = Restarted(m)]
              \/ sender' = [sender EXCEPT ![m] = Dropped(m)]
<1>1. provider' = [provider EXCEPT ![m] = GivenUp(provider[m])]
  BY DEF Crash, GivenUp
<1>2. sender' = [sender EXCEPT ![m] =
                    IF IsJob(m) /\ sender[m].stalls < MaxStalls THEN Restarted(m) ELSE Dropped(m)]
  BY DEF Crash, Restarted, Dropped
<1> QED
  BY <1>1, <1>2 DEF Crash

\* A crash ends what was sent directly; a job starts again, on another budget.
LEMMA CrashStep ==
    ASSUME DeliveryInv, NEW m \in Messages, Crash(m)
    PROVE  DeliveryInv'
<1>1. /\ sender[m] \in Sender /\ provider[m] \in Provider /\ logs[m] \in Logs /\ note[m] \in Notes
      /\ Fits(sender[m], provider[m], logs[m], note[m], m \notin mishap)
  BY Records
<1> DEFINE p == GivenUp(provider[m])
           over == [sender[m] EXCEPT !.step = "end", !.result = "failed"]
           again == [sender[m] EXCEPT !.step = "begin", !.tries = 0, !.stalls = @ + 1,
                                      !.result = "none", !.broken = FALSE]
           spent == sender[m].attempts + sender[m].stalls
<1>2. /\ provider' = [provider EXCEPT ![m] = p]
      /\ UNCHANGED <<enabled, kind, logs, note>> /\ mishap' = mishap \cup {m}
      /\ sender[m].step \notin {"new", "end"}
      /\ \/ sender[m].stalls < MaxStalls /\ sender' = [sender EXCEPT ![m] = again]
         \/ sender' = [sender EXCEPT ![m] = over]
  BY Crashes DEF Restarted, Dropped
<1>3. /\ p \in Provider /\ p.request = "none" /\ p.copies = provider[m].copies
      /\ p.stragglers = provider[m].stragglers + (IF provider[m].request = "posted" THEN 1 ELSE 0)
  <2>1. provider[m].stragglers + (IF provider[m].request = "posted" THEN 1 ELSE 0) \in Nat
    BY <1>1 DEF Provider
  <2> QED
    BY <1>1, <2>1 DEF GivenUp, Provider
<1>4. spent \in Nat /\ Tries * spent \in Nat /\ Tries * (spent + 1) = Tries * spent + Tries
  <2>1. spent \in Nat
    BY <1>1 DEF Sender
  <2> QED
    BY <2>1, MoreTries
<1>5. Posting([step |-> "begin"], p)
  BY <1>1, <1>3 DEF Fits, Posting, Provider
<1> HIDE DEF p
<1>6. CASE sender[m].stalls < MaxStalls /\ sender' = [sender EXCEPT ![m] = again]
  <2>0. sender[m].stalls + 1 \in 0 .. MaxStalls /\ 0 \in 0 .. Tries
    BY <1>1, <1>6, ConstantsAssumption DEF Sender
  <2>1. /\ again \in Sender /\ again.step = "begin" /\ again.tries = 0
        /\ again.attempts = sender[m].attempts /\ again.stalls = sender[m].stalls + 1
        /\ again.result = "none" /\ again.broken = FALSE
    BY <1>1, <2>0 DEF Sender, SendSteps
  <2>2. again.attempts + again.stalls = spent + 1
    BY <1>1, <2>1 DEF Sender
  <2>3. Counted(again, p)
    <3>1. sender[m].tries \in 0 .. Tries
      BY <1>1 DEF Sender
    <3> QED
      BY <1>1, <1>3, <1>4, <2>1, <2>2, <3>1, ConstantsAssumption DEF Fits, Counted, Provider
  <2> HIDE DEF again
  <2>4. Fits(again, p, logs[m], note[m], m \notin mishap')
    BY <1>1, <1>2, <1>3, <1>5, <2>1, <2>3 DEF Fits, Posting, WithinTries, Known, Through
  <2> QED
    BY <1>2, <1>3, <1>6, <2>1, <2>4, TransferStep
<1>7. CASE sender' = [sender EXCEPT ![m] = over]
  <2>1. /\ over \in Sender /\ over.step = "end" /\ over.tries = sender[m].tries
        /\ over.attempts = sender[m].attempts /\ over.stalls = sender[m].stalls
        /\ over.result = "failed"
    BY <1>1 DEF Sender, SendSteps
  <2>2. Counted(over, p)
    BY <1>1, <1>3, <1>4, <2>1, ConstantsAssumption DEF Fits, Counted, Provider, Sender
  <2> HIDE DEF over
  <2>3. Fits(over, p, logs[m], note[m], m \notin mishap')
    BY <1>1, <1>2, <1>3, <1>5, <2>1, <2>2 DEF Fits, Posting, WithinTries, Known, Through
  <2> QED
    BY <1>2, <1>3, <1>7, <2>1, <2>3, TransferStep
<1> QED
  BY <1>2, <1>6, <1>7

LEMMA DeliveryStep ==
    ASSUME DeliveryInv, [Next]_vars
    PROVE  DeliveryInv'
<1>1. CASE UNCHANGED vars
  BY <1>1 DEF vars, DeliveryInv, TypeOK, Fits, Posting, Known
<1>2. CASE Next
  BY <1>2, QuietSteps, RequestSteps, AnswerSteps, LogSteps, FinishStep, CrashStep DEF Next, Proceed
<1> QED
  BY <1>1, <1>2

LEMMA DeliveryAlways == Spec => []DeliveryInv
BY DeliveryInit, DeliveryStep, PTL DEF Spec

\* The variables have their types: in particular no message is tried more often
\* than Tries, and no job attempted or restarted more often than allowed.
THEOREM TypeCorrect == Spec => []TypeOK
<1>1. DeliveryInv => TypeOK
  BY DEF DeliveryInv
<1> QED
  BY <1>1, DeliveryAlways, PTL

\* Whatever times out, is retried or starts anew, a row or a notification that
\* says sent is of a message the provider took, and a message logged as sent is
\* not posted again (sendWhatsAppText, processWhatsAppJob, defaultJobOptions).
THEOREM RowsTellTheTruth == Spec => []LogsAreTrue
<1>1. ASSUME DeliveryInv PROVE LogsAreTrue
  <2>1. ASSUME NEW m \in Messages
        PROVE  /\ logs[m].sent > 0 \/ note[m] = "sent" => provider[m].copies > 0 \/ ~ enabled
               /\ logs[m].sent > 0 /\ m \notin mishap => provider[m].request = "none"
    BY <1>1, Records DEF Fits, Posting, Known, Through
  <2> QED
    BY <2>1 DEF LogsAreTrue, SentMeansTaken, LoggedIsNotResent
<1> QED
  BY <1>1, DeliveryAlways, PTL

-----------------------------------------------------------------------------
(* The promise                                                               *)

Reported == [m \in Messages |-> Status(m)]

Copies == [m \in Messages |-> provider[m].copies]

\* What is reported of a message whose sender has record s.
Shown(s) ==
    CASE s.step = "new" -> "new"
      [] s.step = "end" -> s.result
      [] OTHER -> "pending"

\* What a step of one message does to what is reported.
LEMMA ReportOf ==
    ASSUME DeliveryInv, NEW m \in Messages, NEW s, sender' = [sender EXCEPT ![m] = s]
    PROVE  /\ Reported' = [Reported EXCEPT ![m] = Shown(s)]
           /\ Reported[m] = Shown(sender[m])
           /\ Shown(s) = Shown(sender[m]) => UNCHANGED Reported
<1>1. sender \in [Messages -> Sender]
  BY DEF DeliveryInv, TypeOK
<1>2. \A k \in Messages : Status(k) = Shown(sender[k])
  BY DEF Status, Shown
<1>3. ASSUME NEW k \in Messages PROVE Status(k)' = IF k = m THEN Shown(s) ELSE Shown(sender[k])
  BY <1>1, <1>3 DEF Status, Shown
<1> QED
  BY <1>2, <1>3 DEF Reported

\* What the provider has taken: within the limit of the promise even after
\* whatever may still be taken.
LEMMA WithinLimit ==
    ASSUME DeliveryInv, NEW m \in Messages
    PROVE  provider[m].copies + provider[m].stragglers
               + (IF provider[m].request = "posted" THEN 1 ELSE 0)
                   <= Tries * (JobAttempts + MaxStalls)
<1>1. sender[m] \in Sender /\ provider[m] \in Provider /\ WithinTries(sender[m])
      /\ Counted(sender[m], provider[m])
  BY Records DEF Fits
<1> DEFINE spent == sender[m].attempts + sender[m].stalls
           most == JobAttempts - 1 + MaxStalls
<1>2. spent \in Nat /\ most \in Nat /\ spent <= most /\ most + 1 = JobAttempts + MaxStalls
  BY <1>1, ConstantsAssumption DEF Sender, WithinTries
<1>3. sender[m].tries \in 0 .. Tries
  BY <1>1 DEF Sender
<1>4. Tries * spent <= Tries * most
  BY <1>2, ConstantsAssumption
<1>5. Tries * (most + 1) = Tries * most + Tries /\ Tries * most \in Nat /\ Tries * spent \in Nat
  BY <1>2, MoreTries
<1>6. provider[m].copies + provider[m].stragglers + (IF provider[m].request = "posted" THEN 1 ELSE 0)
          <= Tries * spent + sender[m].tries
  BY <1>1 DEF Counted
<1>7. provider[m].copies + provider[m].stragglers
          + (IF provider[m].request = "posted" THEN 1 ELSE 0) \in Nat
  BY <1>1 DEF Provider
<1> HIDE DEF spent, most
<1> QED
  BY <1>2, <1>3, <1>4, <1>5, <1>6, <1>7, ConstantsAssumption

\* Nothing of what the promise is about changes.
LEMMA Stutters ==
    ASSUME UNCHANGED <<enabled, Reported, Copies>>
    PROVE  UNCHANGED Promise!vars
BY DEF Reported, Copies, Promise!vars

\* A step of the sender between its first and its last one is none of the
\* promise's business; its last one is a report.
LEMMA Reports ==
    ASSUME DeliveryInv, NEW m \in Messages, UNCHANGED <<enabled, Copies>>,
           NEW s, sender' = [sender EXCEPT ![m] = s],
           sender[m].step \notin {"new", "end"},
           \/ s.step \notin {"new", "end"}
           \/ s.step = "end" /\ s.result = "failed"
           \/ s.step = "end" /\ s.result = "sent" /\ (provider[m].copies > 0 \/ ~ enabled)
    PROVE  Promise!Next \/ UNCHANGED Promise!vars
<1>1. Reported[m] = "pending" /\ Reported' = [Reported EXCEPT ![m] = Shown(s)]
  BY ReportOf DEF Shown
<1>2. Copies[m] = provider[m].copies
  BY DEF Copies
<1>3. CASE s.step \notin {"new", "end"}
  BY <1>3, ReportOf, Stutters DEF Shown
<1>4. CASE s.step = "end" /\ s.result = "failed"
  <2>1. Promise!Report(m, "failed")
    BY <1>1, <1>4 DEF Promise!Report, Reported, Copies, Shown
  <2> QED
    BY <2>1 DEF Promise!Next
<1>5. CASE s.step = "end" /\ s.result = "sent" /\ (provider[m].copies > 0 \/ ~ enabled)
  <2>1. Promise!Report(m, "sent")
    BY <1>1, <1>2, <1>5 DEF Promise!Report, Reported, Copies, Shown
  <2> QED
    BY <2>1 DEF Promise!Next
<1> QED
  BY <1>3, <1>4, <1>5

\* The provider takes a copy that was posted, now or earlier.
LEMMA PromisedTake ==
    ASSUME DeliveryInv, NEW m \in Messages, Take(m) \/ TakeLate(m)
    PROVE  Promise!Take(m)
<1>1. /\ sender[m] \in Sender /\ provider[m] \in Provider
      /\ Posting(sender[m], provider[m])
  BY Records DEF Fits
<1>2. enabled /\ sender[m].step # "new"
  BY <1>1 DEF Take, TakeLate, Posting
<1>3. provider[m].copies < Tries * (JobAttempts + MaxStalls)
  <2>1. Tries * (JobAttempts + MaxStalls) \in Nat
    BY ConstantsAssumption, MoreTries
  <2>2. provider[m].stragglers > 0 \/ provider[m].request = "posted"
    BY DEF Take, TakeLate
  <2> QED
    BY <1>1, <2>1, <2>2, WithinLimit DEF Provider
<1>4. UNCHANGED <<enabled, Reported>>
  BY DEF Take, TakeLate, Reported, Status
<1>5. Copies' = [Copies EXCEPT ![m] = Copies[m] + 1]
  <2>1. provider \in [Messages -> Provider]
    BY DEF DeliveryInv, TypeOK
  <2>2. provider'[m].copies = provider[m].copies + 1 /\ \A k \in Messages \ {m} : provider'[k] = provider[k]
    BY <1>1, <2>1 DEF Take, TakeLate, Provider
  <2> QED
    BY <2>2 DEF Copies
<1>6. Reported[m] # "new"
  <2>1. Reported[m] = Shown(sender[m])
    BY DEF Reported, Status, Shown
  <2>2. sender[m].step = "end" => sender[m].result # "new"
    BY <1>1 DEF Sender
  <2> QED
    BY <1>2, <2>1, <2>2 DEF Shown
<1> QED
  BY <1>2, <1>3, <1>4, <1>5, <1>6 DEF Promise!Take, Reported, Copies

\* Every step keeps the promise or is none of its business.
LEMMA PromiseStep ==
    ASSUME DeliveryInv, [Next]_vars
    PROVE  [Promise!Next]_(Promise!vars)
<1> SUFFICES ASSUME Next PROVE Promise!Next \/ UNCHANGED Promise!vars
  BY DEF vars, Promise!vars, Status
<1>1. PICK m \in Messages :
        Ask(m) \/ Proceed(m) \/ Take(m) \/ TakeLate(m) \/ DatabaseFails(m) \/ Crash(m)
  BY DEF Next
<1>2. /\ sender[m] \in Sender /\ provider[m] \in Provider
      /\ Known(sender[m], provider[m], logs[m], note[m])
  BY Records DEF Fits
<1>3. CASE Ask(m)
  <2> DEFINE s == [sender[m] EXCEPT !.step = "begin"]
  <2>1. sender' = [sender EXCEPT ![m] = s] /\ s.step = "begin" /\ sender[m].step = "new"
        /\ UNCHANGED <<enabled, Copies>>
    BY <1>2, <1>3 DEF Ask, StepTo, Sender, Copies
  <2>2. Reported[m] = "new" /\ Reported' = [Reported EXCEPT ![m] = "pending"]
    BY <2>1, ReportOf DEF Shown
  <2>3. Promise!Ask(m)
    BY <2>1, <2>2 DEF Promise!Ask, Reported, Copies
  <2> QED
    BY <2>3 DEF Promise!Next
<1>4. CASE Take(m) \/ TakeLate(m)
  BY <1>4, PromisedTake DEF Promise!Next
<1>5. CASE Refuse(m)
  <2> DEFINE s == [sender[m] EXCEPT !.step = "end", !.result = "failed"]
  <2>1. sender' = [sender EXCEPT ![m] = s] /\ s.step = "end" /\ s.result = "failed"
        /\ sender[m].step = "begin" /\ UNCHANGED <<enabled, Copies>>
    BY <1>2, <1>5 DEF Refuse, Sender, Copies
  <2> QED
    BY <2>1, Reports
<1>6. CASE Skip(m) \/ Post(m) \/ Answer(m) \/ Log(m) \/ Note(m) \/ DatabaseFails(m)
  <2>1. PICK s : sender' = [sender EXCEPT ![m] = s] /\ s.step \notin {"new", "end"}
    BY <1>2, <1>6 DEF Skip, Post, Answer, Ok, Rejected, Error, Timeout, TryAgain, Log, Note, DatabaseFails,
         StepTo, Result, Sender
  <2>2. sender[m].step \notin {"new", "end"} /\ UNCHANGED enabled
    BY <1>6 DEF Skip, Post, Answer, Ok, Rejected, Error, Timeout, Log, Note, DatabaseFails
  <2>3. UNCHANGED Copies
    <3>1. PICK p : provider' = [provider EXCEPT ![m] = p] /\ p.copies = provider[m].copies
      BY <1>2, <1>6, Unchanged
         DEF Skip, Post, Answer, Ok, Rejected, Error, Timeout, Log, Note, DatabaseFails, Provider
    <3> QED
      BY <3>1 DEF DeliveryInv, TypeOK, Copies
  <2> QED
    BY <2>1, <2>2, <2>3, Reports
<1>7. CASE FinishSend(m)
  <2>1. sender[m].step = "finish" /\ UNCHANGED <<enabled, Copies>>
    BY <1>7 DEF FinishSend, Copies
  <2>2. CASE sender' = [sender EXCEPT ![m] = Again(m)]
    <3>1. Again(m).step = "begin"
      BY <1>2 DEF Again, Sender
    <3> QED
      BY <2>1, <2>2, <3>1, Reports
  <2>3. CASE sender' = [sender EXCEPT ![m] = [sender[m] EXCEPT !.step = "end"]]
    <3> DEFINE s == [sender[m] EXCEPT !.step = "end"]
    <3>1. s.step = "end" /\ s.result = sender[m].result
      BY <1>2 DEF Sender
    <3>2. s.result = "failed" \/ (s.result = "sent" /\ (provider[m].copies > 0 \/ ~ enabled))
      BY <1>2, <2>1, <3>1 DEF Known
    <3> HIDE DEF s
    <3> QED
      BY <2>1, <2>3, <3>1, <3>2, Reports DEF s
  <2> QED
    BY <1>7, <2>2, <2>3 DEF FinishSend
<1>8. CASE Crash(m)
  <2>1. sender[m].step \notin {"new", "end"} /\ UNCHANGED enabled
    BY <1>8 DEF Crash
  <2>2. UNCHANGED Copies
    <3>1. GivenUp(provider[m]).copies = provider[m].copies
      BY <1>2 DEF GivenUp, Provider
    <3>2. provider' = [provider EXCEPT ![m] = GivenUp(provider[m])]
      BY <1>8, Crashes
    <3> QED
      BY <3>1, <3>2 DEF DeliveryInv, TypeOK, Copies
  <2>3. PICK s : /\ sender' = [sender EXCEPT ![m] = s]
                 /\ s.step = "begin" \/ (s.step = "end" /\ s.result = "failed")
    <3>1. Restarted(m).step = "begin" /\ Dropped(m).step = "end" /\ Dropped(m).result = "failed"
      BY <1>2 DEF Restarted, Dropped, Sender
    <3>2. sender' = [sender EXCEPT ![m] = Restarted(m)] \/ sender' = [sender EXCEPT ![m] = Dropped(m)]
      BY <1>8, Crashes
    <3> QED
      BY <3>1, <3>2
  <2> QED
    BY <2>1, <2>2, <2>3, Reports
<1> QED
  BY <1>1, <1>3, <1>4, <1>5, <1>6, <1>7, <1>8 DEF Proceed

\* A message that is asked for is reported sent or failed at most once, sent
\* only if the provider took it, and arrives at most as often as the tries, the
\* attempts and the restarts of its job allow (sendWhatsAppText, withTimeout,
\* processWhatsAppJob): the way of a message implements Outbox.
THEOREM DeliveryKeepsPromise == Spec => KeepsPromise
<1>1. Init => Promise!Init
  <2> SUFFICES ASSUME Init PROVE Promise!Init
    OBVIOUS
  <2>1. \A m \in Messages : Status(m) = "new" /\ provider[m].copies = 0
    BY DEF Init, Status
  <2> QED
    BY <2>1 DEF Init, Promise!Init
<1> QED
  BY <1>1, PromiseStep, DeliveryAlways, PTL DEF Spec, KeepsPromise, Promise!Spec


-----------------------------------------------------------------------------
(* The accounts payers are told.                                             *)

USE DEF Payers, Scopes

-----------------------------------------------------------------------------
(* The type invariant. *)

\* The record a handler is left with has the values it was given.
LEMMA PaymentGotoType ==
    ASSUME PaymentTypeOK, NEW r \in Requests, NEW step \in Steps,
           NEW scope \in Scopes \cup {None}, NEW i \in Rows \cup {None}, Goto(r, step, scope, i)
    PROVE  /\ pc' \in [Requests -> Steps] /\ loc' \in [Requests -> Locals]
           /\ pc'[r] = step /\ loc'[r].for = scope /\ loc'[r].found = i
           /\ \A q \in Requests \ {r} : pc'[q] = pc[q] /\ loc'[q] = loc[q]
  BY DEF PaymentTypeOK, Goto, Locals

\* A handler that ends keeps nothing.
LEMMA PaymentFinishType ==
    ASSUME PaymentTypeOK, NEW r \in Requests, Finish(r)
    PROVE  /\ pc' \in [Requests -> Steps] /\ loc' \in [Requests -> Locals]
           /\ pc'[r] = "idle" /\ loc'[r].for = None /\ loc'[r].found = None
           /\ \A q \in Requests \ {r} : pc'[q] = pc[q] /\ loc'[q] = loc[q]
  BY DEF PaymentTypeOK, Finish, Locals, NoLocals, Steps

\* A save writes one row, or none.
LEMMA SaveWriteRow ==
    ASSUME PaymentTypeOK, NEW r \in Requests, SaveWrite(r)
    PROVE  \/ UNCHANGED <<row, saved>>
           \/ \E i \in Rows : /\ row' = [row EXCEPT ![i] = loc[r].for]
                              /\ saved' = saved \cup ({loc[r].for} \cap Payers)
                              /\ i = loc[r].found \/ (loc[r].found = None /\ row[i] = None)
<1>1. CASE loc[r].found # None
  <2>1. loc[r].found \in Rows
    BY <1>1 DEF PaymentTypeOK, Locals
  <2> QED
    BY <1>1, <2>1 DEF SaveWrite, Save
<1>2. CASE loc[r].found = None
  BY <1>2 DEF SaveWrite, Save, FreeRows, RowsFor
<1> QED
  BY <1>1, <1>2

\* A handler that saves has found a row of what it saves, or none.
LEMMA SaveReadFound ==
    ASSUME PaymentTypeOK, NEW r \in Requests, NEW scope \in Scopes, SaveRead(r, scope)
    PROVE  \E i \in Rows \cup {None} :
              /\ Goto(r, "write", scope, i)
              /\ robbed' = robbed \cup {g \in Groups : scope = Platform /\ i \in RowsFor(g)}
              /\ \/ i = None /\ Candidates(scope) = {}
                 \/ i \in Rows /\ i \in Candidates(scope)
<1>1. Candidates(scope) \subseteq Rows
  BY DEF Candidates, RowsWithoutInvoice, RowsFor
<1> QED
  BY <1>1 DEF SaveRead

\* Every step keeps the types.
LEMMA PaymentTypeStep == PaymentTypeOK /\ [PaymentNext]_paymentVars => PaymentTypeOK'
<1> SUFFICES ASSUME PaymentTypeOK, [PaymentNext]_paymentVars PROVE PaymentTypeOK'
  OBVIOUS
<1>1. ASSUME NEW r \in Requests, NEW scope \in Scopes, SaveRead(r, scope) PROVE PaymentTypeOK'
  <2>1. PICK i \in Rows \cup {None} :
          /\ Goto(r, "write", scope, i)
          /\ robbed' = robbed \cup {g \in Groups : scope = Platform /\ i \in RowsFor(g)}
    BY <1>1, SaveReadFound
  <2>2. /\ UNCHANGED <<row, told, saved>> /\ saves < MaxSaves /\ saves' = saves + 1
        /\ overlap' \in BOOLEAN /\ groupSaved' \in BOOLEAN
    BY <1>1 DEF SaveRead, Begin
  <2>3. "write" \in Steps /\ scope # None
    BY ScopesAssumption DEF Steps
  <2> QED
    BY <2>1, <2>2, <2>3, PaymentGotoType, ScopesAssumption DEF PaymentTypeOK
<1>2. ASSUME NEW r \in Requests, NEW payer \in Payers, ShowRead(r, payer) PROVE PaymentTypeOK'
  <2>1. /\ UNCHANGED <<row, overlap, groupSaved, saved, robbed>> /\ saves < MaxSaves /\ saves' = saves + 1
        /\ told' \in [Payers -> Scopes \cup {None}]
    BY <1>2 DEF ShowRead, Begin, record, PaymentTypeOK
  <2>2. CASE UNCHANGED handlers
    BY <2>1, <2>2, ScopesAssumption DEF PaymentTypeOK, handlers
  <2>3. CASE Goto(r, "fallback", payer, None)
    <3>1. "fallback" \in Steps /\ payer # None
      BY ScopesAssumption DEF Steps
    <3> QED
      BY <2>1, <2>3, <3>1, PaymentGotoType, ScopesAssumption DEF PaymentTypeOK
  <2> QED
    BY <1>2, <2>2, <2>3 DEF ShowRead
<1>3. ASSUME NEW r \in Requests, SaveWrite(r) PROVE PaymentTypeOK'
  <2>1. loc[r].for \in Scopes \cup {None}
    BY DEF PaymentTypeOK, Locals
  <2>2. row' \in [Rows -> Scopes \cup {None}] /\ saved' \subseteq Payers
    BY <1>3, <2>1, SaveWriteRow DEF PaymentTypeOK
  <2> QED
    BY <1>3, <2>2, PaymentFinishType DEF SaveWrite, PaymentTypeOK
<1>4. ASSUME NEW r \in Requests, ShowFallback(r) PROVE PaymentTypeOK'
  <2>1. told' \in [Payers -> Scopes \cup {None}]
    BY <1>4 DEF ShowFallback, Candidates, RowsWithoutInvoice, PaymentTypeOK
  <2> QED
    BY <1>4, <2>1, PaymentFinishType DEF ShowFallback, record, PaymentTypeOK
<1>5. ASSUME NEW r \in Requests, Fail(r) PROVE PaymentTypeOK'
  BY <1>5, PaymentFinishType DEF Fail, record, PaymentTypeOK
<1>6. CASE UNCHANGED paymentVars
  BY <1>6 DEF paymentVars, handlers, record, PaymentTypeOK
<1> QED
  BY <1>1, <1>2, <1>3, <1>4, <1>5, <1>6 DEF PaymentNext

\* The first state has them.
LEMMA PaymentInitType == PaymentInit => PaymentTypeOK
<1> SUFFICES ASSUME PaymentInit PROVE PaymentTypeOK
  OBVIOUS
<1>1. NoLocals \in Locals
  BY DEF NoLocals, Locals
<1>2. pc \in [Requests -> Steps] /\ loc \in [Requests -> Locals]
  BY <1>1 DEF PaymentInit, Steps
<1>3. \A r \in Requests : pc[r] = "idle"
  BY DEF PaymentInit
<1>4. row \in [Rows -> Scopes \cup {None}] /\ told \in [Payers -> Scopes \cup {None}]
  BY DEF PaymentInit
<1>5. saves \in 0 .. MaxSaves
  BY ScopesAssumption DEF PaymentInit
<1>6. overlap \in BOOLEAN /\ groupSaved \in BOOLEAN /\ saved \subseteq Payers /\ robbed \subseteq Groups
  BY DEF PaymentInit
<1> QED
  BY <1>2, <1>3, <1>4, <1>5, <1>6 DEF PaymentTypeOK

\* Rows, and what handlers keep, have the values the code gives them.
THEOREM PaymentTypeCorrect == PaymentSpec => []PaymentTypeOK
  BY PaymentInitType, PaymentTypeStep, PTL DEF PaymentSpec

-----------------------------------------------------------------------------
(* The accounts of invoices and of groups. *)

\* What a handler has found stays found: nobody makes a row an invoice's while
\* another is about to write it for something else.
FoundInv ==
    \A r \in Requests :
        loc[r].found # None =>
            /\ row[loc[r].found] # None
            /\ row[loc[r].found] \in Invoices \/ loc[r].for \in Invoices => row[loc[r].found] = loc[r].for

\* Every step keeps what handlers have found.
LEMMA FoundStep == PaymentTypeOK /\ FoundInv /\ [PaymentNext]_paymentVars => FoundInv'
<1> SUFFICES ASSUME PaymentTypeOK, FoundInv, [PaymentNext]_paymentVars PROVE FoundInv'
  OBVIOUS
<1>1. ASSUME NEW r \in Requests, NEW scope \in Scopes, SaveRead(r, scope) PROVE FoundInv'
  <2>1. PICK i \in Rows \cup {None} : /\ Goto(r, "write", scope, i)
                                      /\ i = None \/ (i \in Rows /\ i \in Candidates(scope))
    BY <1>1, SaveReadFound
  <2>2. UNCHANGED row
    BY <1>1 DEF SaveRead
  <2>3. i # None => row[i] # None /\ (row[i] \in Invoices \/ scope \in Invoices => row[i] = scope)
    BY <2>1, ScopesAssumption DEF Candidates, RowsWithoutInvoice, RowsFor
  <2>4. "write" \in Steps
    BY DEF Steps
  <2> QED
    BY <2>1, <2>2, <2>3, <2>4, PaymentGotoType DEF FoundInv
<1>2. ASSUME NEW r \in Requests, NEW payer \in Payers, ShowRead(r, payer) PROVE FoundInv'
  <2>1. CASE UNCHANGED handlers
    BY <1>2, <2>1 DEF ShowRead, handlers, FoundInv
  <2>2. CASE Goto(r, "fallback", payer, None)
    <3>1. "fallback" \in Steps
      BY DEF Steps
    <3> QED
      BY <1>2, <2>2, <3>1, PaymentGotoType DEF ShowRead, FoundInv
  <2> QED
    BY <1>2, <2>1, <2>2 DEF ShowRead
<1>3. ASSUME NEW r \in Requests, SaveWrite(r) PROVE FoundInv'
  <2>1. Finish(r) /\ loc[r].for \in Scopes
    BY <1>3 DEF SaveWrite, PaymentTypeOK, Locals
  <2>2. CASE UNCHANGED row
    BY <2>1, <2>2, PaymentFinishType DEF FoundInv
  <2>3. ASSUME NEW i \in Rows, row' = [row EXCEPT ![i] = loc[r].for],
               i = loc[r].found \/ (loc[r].found = None /\ row[i] = None)
        PROVE  FoundInv'
    <3> SUFFICES ASSUME NEW q \in Requests, loc'[q].found # None
                 PROVE  /\ row'[loc'[q].found] # None
                        /\ row'[loc'[q].found] \in Invoices \/ loc'[q].for \in Invoices
                             => row'[loc'[q].found] = loc'[q].for
      BY DEF FoundInv
    <3>1. q # r /\ loc'[q] = loc[q]
      BY <2>1, PaymentFinishType
    <3>2. loc[q].found \in Rows /\ row[loc[q].found] # None
      BY <3>1 DEF FoundInv, PaymentTypeOK, Locals
    <3>3. CASE loc[q].found = i
      <4>1. i = loc[r].found
        BY <2>3, <3>2, <3>3
      <4>2. row'[i] = loc[r].for /\ row'[i] # None
        BY <2>1, <2>3, ScopesAssumption DEF PaymentTypeOK
      <4>3. i # None
        BY ScopesAssumption
      <4> QED
        BY <3>1, <3>3, <4>1, <4>2, <4>3 DEF FoundInv
    <3>4. CASE loc[q].found # i
      BY <2>3, <3>1, <3>2, <3>4 DEF FoundInv, PaymentTypeOK
    <3> QED
      BY <3>3, <3>4
  <2> QED
    BY <1>3, <2>2, <2>3, SaveWriteRow
<1>4. ASSUME NEW r \in Requests, ShowFallback(r) PROVE FoundInv'
  BY <1>4, PaymentFinishType DEF ShowFallback, FoundInv
<1>5. ASSUME NEW r \in Requests, Fail(r) PROVE FoundInv'
  BY <1>5, PaymentFinishType DEF Fail, FoundInv
<1>6. CASE UNCHANGED paymentVars
  BY <1>6 DEF paymentVars, handlers, record, FoundInv
<1> QED
  BY <1>1, <1>2, <1>3, <1>4, <1>5, <1>6 DEF PaymentNext

\* At first nobody has found anything.
LEMMA InitFound == PaymentInit => FoundInv
  BY DEF PaymentInit, FoundInv, NoLocals

\* A row is an invoice's for good, though every update is by the id read some
\* time before (upsertPlatformDefault, upsertGroupPayment,
\* upsertInvoiceOverride).
THEOREM InvoicesKeepTheirRow == PaymentSpec => OverridesStay
<1>1. PaymentTypeOK /\ FoundInv /\ [PaymentNext]_paymentVars
        => [\A i \in Rows : row[i] \in Invoices => row'[i] = row[i]]_row
  <2> SUFFICES ASSUME PaymentTypeOK, FoundInv, [PaymentNext]_paymentVars, row' # row,
                      NEW i \in Rows, row[i] \in Invoices
               PROVE  row'[i] = row[i]
    OBVIOUS
  <2>1. PICK r \in Requests : SaveWrite(r)
    BY DEF PaymentNext, paymentVars, SaveRead, ShowRead, ShowFallback, Fail
  <2>2. PICK j \in Rows : /\ row' = [row EXCEPT ![j] = loc[r].for]
                          /\ j = loc[r].found \/ (loc[r].found = None /\ row[j] = None)
    BY <2>1, SaveWriteRow
  <2>3. CASE i = j
    <3>1. row[i] # None /\ i # None
      BY ScopesAssumption
    <3> QED
      BY <2>2, <2>3, <3>1 DEF FoundInv, PaymentTypeOK
  <2>4. CASE i # j
    BY <2>2, <2>4 DEF PaymentTypeOK
  <2> QED
    BY <2>3, <2>4
<1> QED
  BY <1>1, PaymentInitType, InitFound, PaymentTypeStep, FoundStep, PTL DEF PaymentSpec, OverridesStay

\* The rows of groups: a handler that has found a group's row saves it for that
\* group, unless a save of the platform's account has found it too; nobody
\* else saves a row that has been a group's.
GroupRowInv ==
    \A q \in Requests : loc[q].found # None =>
        LET found == row[loc[q].found] IN
        /\ loc[q].for \in Groups =>
              /\ found = loc[q].for \/ (found = Platform /\ loc[q].for \in robbed)
              /\ \A o \in Requests :
                    loc[o].for \in Groups /\ loc[o].found = loc[q].found => loc[o].for = loc[q].for
        /\ loc[q].for = Platform => found = Platform \/ found \in robbed

KeptInv == GroupRowInv /\ AccountsAreKept

\* A save of any account that begins has found a row of its own, or one that
\* it takes from a group.
LEMMA KeptRead ==
    ASSUME PaymentTypeOK, FoundInv, KeptInv,
           NEW r \in Requests, NEW scope \in Scopes, SaveRead(r, scope)
    PROVE  KeptInv'
<1>1. PICK i \in Rows \cup {None} :
        /\ Goto(r, "write", scope, i)
        /\ robbed' = robbed \cup {g \in Groups : scope = Platform /\ i \in RowsFor(g)}
        /\ i = None \/ (i \in Rows /\ i \in Candidates(scope))
  BY SaveReadFound
<1>2. UNCHANGED <<row, saved>>
  BY DEF SaveRead
<1>3. robbed \subseteq robbed'
  BY <1>1
<1>4. AccountsAreKept'
  BY <1>2, <1>3 DEF KeptInv, AccountsAreKept, RowsFor
<1>5. /\ loc'[r].for = scope /\ loc'[r].found = i
      /\ \A q \in Requests \ {r} : loc'[q] = loc[q]
  <2>1. "write" \in Steps
    BY DEF Steps
  <2> QED
    BY <1>1, <2>1, PaymentGotoType
<1>6. i # None /\ scope \in Groups => row[i] = scope
  BY <1>1, ScopesAssumption DEF Candidates, RowsFor
<1>7. i # None /\ scope = Platform => row[i] = Platform \/ row[i] \in robbed'
  BY <1>1 DEF Candidates, RowsWithoutInvoice, RowsFor
<1>8. ASSUME NEW q \in Requests \ {r}, loc[q].found # None, loc[q].for \in Groups,
             loc[q].found = i, scope \in Groups
      PROVE  loc[q].for = scope
  <2>1. row[i] = loc[q].for \/ row[i] = Platform
    BY <1>8 DEF KeptInv, GroupRowInv
  <2> QED
    BY <1>6, <1>8, <2>1, ScopesAssumption
<1>9. GroupRowInv'
  <2> SUFFICES ASSUME NEW q \in Requests, loc'[q].found # None
               PROVE  /\ loc'[q].for \in Groups =>
                            /\ \/ row[loc'[q].found] = loc'[q].for
                               \/ row[loc'[q].found] = Platform /\ loc'[q].for \in robbed'
                            /\ \A o \in Requests :
                                  loc'[o].for \in Groups /\ loc'[o].found = loc'[q].found
                                      => loc'[o].for = loc'[q].for
                      /\ loc'[q].for = Platform =>
                            row[loc'[q].found] = Platform \/ row[loc'[q].found] \in robbed'
    BY <1>2 DEF GroupRowInv
  <2>1. CASE q = r
    BY <1>5, <1>6, <1>7, <1>8, <2>1
  <2>2. CASE q # r
    <3>1. loc'[q] = loc[q]
      BY <1>5, <2>2
    <3>2. /\ loc[q].for \in Groups =>
                row[loc[q].found] = loc[q].for \/ (row[loc[q].found] = Platform /\ loc[q].for \in robbed)
          /\ loc[q].for = Platform => row[loc[q].found] = Platform \/ row[loc[q].found] \in robbed
      BY <3>1 DEF KeptInv, GroupRowInv
    <3>3. ASSUME NEW o \in Requests, loc'[o].for \in Groups, loc'[o].found = loc'[q].found,
                 loc[q].for \in Groups
          PROVE  loc'[o].for = loc'[q].for
      <4>1. CASE o = r
        BY <1>5, <1>8, <2>2, <3>1, <3>3, <4>1
      <4>2. CASE o # r
        BY <1>5, <3>1, <3>3, <4>2 DEF KeptInv, GroupRowInv
      <4> QED
        BY <4>1, <4>2
    <3> QED
      BY <1>3, <3>1, <3>2, <3>3
  <2> QED
    BY <2>1, <2>2
<1> QED
  BY <1>4, <1>9 DEF KeptInv

\* A save that ends takes the row of nobody but a group that has been robbed.
LEMMA KeptWrite ==
    ASSUME PaymentTypeOK, FoundInv, KeptInv, NEW r \in Requests, SaveWrite(r)
    PROVE  KeptInv'
<1>1. /\ loc'[r].found = None /\ loc'[r].for = None
      /\ \A q \in Requests \ {r} : loc'[q] = loc[q]
  BY PaymentFinishType DEF SaveWrite
<1>2. robbed' = robbed
  BY DEF SaveWrite
<1>3. CASE UNCHANGED <<row, saved>>
  <2>1. AccountsAreKept'
    BY <1>2, <1>3 DEF KeptInv, AccountsAreKept, RowsFor
  <2>2. GroupRowInv'
    BY <1>1, <1>2, <1>3, ScopesAssumption DEF KeptInv, GroupRowInv
  <2> QED
    BY <2>1, <2>2 DEF KeptInv
<1>4. ASSUME NEW i \in Rows, row' = [row EXCEPT ![i] = loc[r].for],
             saved' = saved \cup ({loc[r].for} \cap Payers),
             i = loc[r].found \/ (loc[r].found = None /\ row[i] = None)
      PROVE  KeptInv'
  <2>1. /\ row'[i] = loc[r].for /\ \A j \in Rows \ {i} : row'[j] = row[j]
        /\ i # None
    BY <1>4, ScopesAssumption DEF PaymentTypeOK
  <2>2. loc[r].for \in Scopes
    BY DEF SaveWrite, PaymentTypeOK, Locals
  <2>3. \/ row[i] = None \/ row[i] = loc[r].for
        \/ loc[r].for \in Groups /\ row[i] = Platform /\ loc[r].for \in robbed
        \/ loc[r].for = Platform /\ row[i] \in robbed
    BY <1>4, <2>1, <2>2 DEF KeptInv, GroupRowInv, FoundInv
  <2>4. AccountsAreKept'
    <3> SUFFICES ASSUME NEW p \in saved' PROVE RowsFor(p)' # {} \/ p \in robbed
      BY <1>2 DEF AccountsAreKept
    <3>1. CASE p = loc[r].for
      BY <2>1, <3>1 DEF RowsFor
    <3>2. CASE p # loc[r].for
      <4>1. p \in saved /\ p \in Payers
        BY <1>4, <3>2 DEF PaymentTypeOK
      <4>2. CASE p \in robbed
        BY <4>2
      <4>3. ASSUME NEW j \in Rows, row[j] = p, p \notin robbed PROVE row'[j] = p
        BY <2>1, <2>3, <3>2, <4>1, <4>3, ScopesAssumption
      <4> QED
        BY <4>1, <4>2, <4>3 DEF KeptInv, AccountsAreKept, RowsFor
    <3> QED
      BY <3>1, <3>2
  <2>5. GroupRowInv'
    <3> SUFFICES ASSUME NEW q \in Requests, loc'[q].found # None
                 PROVE  /\ loc'[q].for \in Groups =>
                              /\ \/ row'[loc'[q].found] = loc'[q].for
                                 \/ row'[loc'[q].found] = Platform /\ loc'[q].for \in robbed
                              /\ \A o \in Requests :
                                    loc'[o].for \in Groups /\ loc'[o].found = loc'[q].found
                                        => loc'[o].for = loc'[q].for
                        /\ loc'[q].for = Platform =>
                              row'[loc'[q].found] = Platform \/ row'[loc'[q].found] \in robbed
      BY <1>2 DEF GroupRowInv
    <3>1. q # r /\ loc'[q] = loc[q]
      BY <1>1
    <3>2. /\ loc[q].for \in Groups =>
                row[loc[q].found] = loc[q].for \/ (row[loc[q].found] = Platform /\ loc[q].for \in robbed)
          /\ loc[q].for = Platform => row[loc[q].found] = Platform \/ row[loc[q].found] \in robbed
      BY <3>1 DEF KeptInv, GroupRowInv
    <3>3. ASSUME NEW o \in Requests, loc'[o].for \in Groups, loc'[o].found = loc'[q].found,
                 loc[q].for \in Groups
          PROVE  loc'[o].for = loc'[q].for
      BY <1>1, <3>1, <3>3, ScopesAssumption DEF KeptInv, GroupRowInv
    <3>4. loc[q].found \in Rows
      BY <3>1 DEF PaymentTypeOK, Locals
    <3>5. CASE loc[q].found # i
      BY <2>1, <3>1, <3>2, <3>3, <3>4, <3>5
    <3>6. CASE loc[q].found = i
      <4>1. row[i] # None /\ loc[r].found = i
        BY <1>4, <2>1, <3>6 DEF FoundInv
      <4>2. loc[q].for \in Groups /\ loc[r].for \in Groups => loc[r].for = loc[q].for
        BY <2>1, <3>6, <4>1 DEF KeptInv, GroupRowInv
      <4>3. loc[r].for \in Invoices => row[i] = loc[r].for
        BY <2>1, <4>1 DEF FoundInv
      <4>4. loc[q].for \in Groups => loc[r].for = loc[q].for \/ (loc[r].for = Platform /\ loc[q].for \in robbed)
        BY <2>2, <2>3, <3>2, <3>6, <4>1, <4>2, <4>3, ScopesAssumption
      <4>5. loc[q].for = Platform => loc[r].for = Platform \/ loc[r].for \in robbed
        BY <2>2, <2>3, <3>2, <3>6, <4>1, <4>3, ScopesAssumption DEF PaymentTypeOK
      <4> QED
        BY <2>1, <3>1, <3>3, <3>6, <4>4, <4>5
    <3> QED
      BY <3>5, <3>6
  <2> QED
    BY <2>4, <2>5 DEF KeptInv
<1> QED
  BY <1>3, <1>4, SaveWriteRow

\* A step of a handler that reads, or of one that ends without a write.
LEMMA KeptElsewhere ==
    ASSUME PaymentTypeOK, KeptInv, UNCHANGED <<row, saved, robbed>>,
           \A q \in Requests : loc'[q] = loc[q] \/ loc'[q].found = None
    PROVE  KeptInv'
<1>1. AccountsAreKept'
  BY DEF KeptInv, AccountsAreKept, RowsFor
<1>2. GroupRowInv'
  BY DEF KeptInv, GroupRowInv
<1> QED
  BY <1>1, <1>2 DEF KeptInv

\* An account of an invoice's or of a group's own, once saved, is there for
\* good, whichever saves cross, unless it is the account of a group whose row a
\* save of the platform's has found (upsertPlatformDefault,
\* upsertGroupPayment, upsertInvoiceOverride).
THEOREM SavedAccountsStay == PaymentSpec => []AccountsAreKept
<1>1. PaymentInit => KeptInv
  BY DEF PaymentInit, KeptInv, GroupRowInv, AccountsAreKept, NoLocals
<1>2. PaymentTypeOK /\ FoundInv /\ KeptInv /\ [PaymentNext]_paymentVars => KeptInv'
  <2> SUFFICES ASSUME PaymentTypeOK, FoundInv, KeptInv, [PaymentNext]_paymentVars PROVE KeptInv'
    OBVIOUS
  <2>1. ASSUME NEW r \in Requests, NEW payer \in Payers, ShowRead(r, payer) PROVE KeptInv'
    <3>1. UNCHANGED <<row, saved, robbed>>
      BY <2>1 DEF ShowRead, record
    <3>2. CASE UNCHANGED handlers
      BY <3>1, <3>2, KeptElsewhere DEF handlers
    <3>3. CASE Goto(r, "fallback", payer, None)
      <4>1. "fallback" \in Steps
        BY DEF Steps
      <4>2. loc'[r].found = None /\ \A q \in Requests \ {r} : loc'[q] = loc[q]
        BY <3>3, <4>1, PaymentGotoType
      <4> QED
        BY <3>1, <4>2, KeptElsewhere
    <3> QED
      BY <2>1, <3>2, <3>3 DEF ShowRead
  <2>2. ASSUME NEW r \in Requests, ShowFallback(r) \/ Fail(r) PROVE KeptInv'
    <3>1. UNCHANGED <<row, saved, robbed>> /\ Finish(r)
      BY <2>2 DEF ShowFallback, Fail, record
    <3>2. loc'[r].found = None /\ \A q \in Requests \ {r} : loc'[q] = loc[q]
      BY <3>1, PaymentFinishType
    <3> QED
      BY <3>1, <3>2, KeptElsewhere
  <2>3. CASE UNCHANGED paymentVars
    BY <2>3, KeptElsewhere DEF paymentVars, handlers, record
  <2> QED
    BY <2>1, <2>2, <2>3, KeptRead, KeptWrite DEF PaymentNext
<1> QED
  BY <1>1, <1>2, PaymentInitType, InitFound, PaymentTypeStep, FoundStep, PTL DEF PaymentSpec, KeptInv

-----------------------------------------------------------------------------
(* One default. *)

Undisturbed == ~ overlap /\ ~ groupSaved

\* While no group has a row and saves of the platform's do not overlap: what
\* the one at work has found is the only row of the platform, or there is none.
OneRow ==
    /\ \A q, o \in Requests : loc[q].for = Platform /\ loc[o].for = Platform => q = o
    /\ \A i \in Rows : row[i] \notin Groups
    /\ \A q \in Requests : pc[q] = "write" => loc[q].for \notin Groups
    /\ \A i, j \in Rows : row[i] = Platform /\ row[j] = Platform => i = j
    /\ \A q \in Requests : loc[q].for = Platform =>
          IF loc[q].found = None THEN \A i \in Rows : row[i] # Platform
          ELSE row[loc[q].found] = Platform

DefaultInv == Undisturbed => OneRow

\* Every step keeps the row of the platform the only one.
LEMMA DefaultStep == PaymentTypeOK /\ FoundInv /\ DefaultInv /\ [PaymentNext]_paymentVars => DefaultInv'
<1> SUFFICES ASSUME PaymentTypeOK, FoundInv, DefaultInv, [PaymentNext]_paymentVars PROVE DefaultInv'
  OBVIOUS
<1>1. ASSUME NEW r \in Requests, NEW scope \in Scopes, SaveRead(r, scope) PROVE DefaultInv'
  <2> SUFFICES ASSUME Undisturbed' PROVE OneRow'
    BY DEF DefaultInv
  <2>1. PICK i \in Rows \cup {None} : /\ Goto(r, "write", scope, i)
                                      /\ \/ i = None /\ Candidates(scope) = {}
                                         \/ i \in Rows /\ i \in Candidates(scope)
    BY <1>1, SaveReadFound
  <2>2. Undisturbed
    BY <1>1 DEF SaveRead, Undisturbed
  <2>3. scope \notin Groups
    BY <1>1 DEF SaveRead, Undisturbed
  <2>4. scope = Platform => \A q \in Requests : loc[q].for # Platform
    BY <1>1 DEF SaveRead, Undisturbed
  <2>5. OneRow /\ UNCHANGED row
    BY <1>1, <2>2 DEF SaveRead, DefaultInv
  <2>6. scope = Platform => IF i = None THEN \A j \in Rows : row[j] # Platform ELSE row[i] = Platform
    BY <2>1, <2>5, ScopesAssumption DEF Candidates, RowsWithoutInvoice, OneRow
  <2>7. "write" \in Steps
    BY DEF Steps
  <2>8. /\ pc'[r] = "write" /\ loc'[r].for = scope /\ loc'[r].found = i
        /\ \A q \in Requests \ {r} : pc'[q] = pc[q] /\ loc'[q] = loc[q]
    BY <2>1, <2>7, PaymentGotoType
  <2> QED
    BY <2>3, <2>4, <2>5, <2>6, <2>8 DEF OneRow
<1>2. ASSUME NEW r \in Requests, NEW payer \in Payers, ShowRead(r, payer) PROVE DefaultInv'
  <2> SUFFICES ASSUME Undisturbed' PROVE OneRow'
    BY DEF DefaultInv
  <2>1. OneRow /\ UNCHANGED row
    BY <1>2 DEF ShowRead, record, Undisturbed, DefaultInv
  <2>2. CASE UNCHANGED handlers
    BY <2>1, <2>2 DEF handlers, OneRow
  <2>3. CASE Goto(r, "fallback", payer, None)
    <3>1. "fallback" \in Steps /\ payer # Platform
      BY ScopesAssumption DEF Steps
    <3>2. /\ pc'[r] = "fallback" /\ loc'[r].for = payer
          /\ \A q \in Requests \ {r} : pc'[q] = pc[q] /\ loc'[q] = loc[q]
      BY <2>3, <3>1, PaymentGotoType
    <3> QED
      BY <2>1, <3>1, <3>2 DEF OneRow
  <2> QED
    BY <1>2, <2>2, <2>3 DEF ShowRead
<1>3. ASSUME NEW r \in Requests, SaveWrite(r) PROVE DefaultInv'
  <2> SUFFICES ASSUME Undisturbed' PROVE OneRow'
    BY DEF DefaultInv
  <2>1. OneRow
    BY <1>3 DEF SaveWrite, Undisturbed, DefaultInv
  <2>2. /\ loc'[r].for = None
        /\ pc'[r] = "idle" /\ \A q \in Requests \ {r} : pc'[q] = pc[q] /\ loc'[q] = loc[q]
    BY <1>3, PaymentFinishType DEF SaveWrite
  <2>3. loc[r].for \in Scopes \ Groups /\ None # Platform
    BY <1>3, <2>1, ScopesAssumption DEF SaveWrite, OneRow, PaymentTypeOK, Locals
  <2>4. CASE UNCHANGED row
    BY <2>1, <2>2, <2>3, <2>4 DEF OneRow
  <2>5. ASSUME NEW i \in Rows, row' = [row EXCEPT ![i] = loc[r].for],
               i = loc[r].found \/ (loc[r].found = None /\ row[i] = None)
        PROVE  OneRow'
    <3>1. /\ row'[i] = loc[r].for
          /\ \A j \in Rows \ {i} : row'[j] = row[j]
          /\ i # None
      BY <2>5, ScopesAssumption DEF PaymentTypeOK
    <3>2. CASE loc[r].for = Platform
      <4>1. \A j \in Rows \ {i} : row[j] # Platform
        BY <2>1, <2>5, <3>1, <3>2 DEF OneRow
      <4>2. \A q \in Requests : loc'[q].for # Platform
        BY <2>1, <2>2, <2>3, <3>2 DEF OneRow
      <4> QED
        BY <2>1, <2>2, <2>3, <3>1, <4>1, <4>2 DEF OneRow
    <3>3. CASE loc[r].for # Platform
      <4>1. loc[r].for \in Invoices
        BY <2>3, <3>3
      <4>2. row[i] = None \/ row[i] = loc[r].for
        BY <2>5, <3>1, <4>1 DEF FoundInv
      <4>3. row[i] # Platform /\ row'[i] # Platform /\ row'[i] \notin Groups
        BY <2>3, <3>1, <3>3, <4>2
      <4>4. \A j \in Rows : row'[j] = Platform <=> row[j] = Platform
        BY <3>1, <4>3
      <4>5. \A q \in Requests : loc[q].found # None => loc[q].found \in Rows
        BY DEF PaymentTypeOK, Locals
      <4>6. \A q \in Requests \ {r} : loc'[q].for = Platform =>
                IF loc'[q].found = None THEN \A j \in Rows : row'[j] # Platform
                ELSE row'[loc'[q].found] = Platform
        BY <2>1, <2>2, <4>4, <4>5 DEF OneRow
      <4> QED
        BY <2>1, <2>2, <2>3, <3>1, <4>3, <4>4, <4>6 DEF OneRow
    <3> QED
      BY <3>2, <3>3
  <2> QED
    BY <1>3, <2>4, <2>5, SaveWriteRow
<1>4. ASSUME NEW r \in Requests, ShowFallback(r) \/ Fail(r) PROVE DefaultInv'
  <2> SUFFICES ASSUME Undisturbed' PROVE OneRow'
    BY DEF DefaultInv
  <2>1. OneRow /\ UNCHANGED row
    BY <1>4 DEF ShowFallback, Fail, record, Undisturbed, DefaultInv
  <2>2. /\ pc'[r] = "idle" /\ loc'[r].for = None
        /\ \A q \in Requests \ {r} : pc'[q] = pc[q] /\ loc'[q] = loc[q]
    BY <1>4, PaymentFinishType DEF ShowFallback, Fail
  <2> QED
    BY <2>1, <2>2, ScopesAssumption DEF OneRow
<1>5. CASE UNCHANGED paymentVars
  BY <1>5 DEF paymentVars, handlers, record, DefaultInv, Undisturbed, OneRow
<1> QED
  BY <1>1, <1>2, <1>3, <1>4, <1>5 DEF PaymentNext

\* The platform keeps one account, as long as its saves do not overlap and no
\* group has saved one (upsertPlatformDefault looks, then creates).
THEOREM OneDefaultStays == PaymentSpec => []OneDefault
<1>1. PaymentInit => DefaultInv
  BY ScopesAssumption DEF PaymentInit, DefaultInv, OneRow, NoLocals
<1>2. DefaultInv => OneDefault
  <2> SUFFICES ASSUME OneRow PROVE Cardinality(RowsFor(Platform)) <= 1
    BY DEF DefaultInv, OneDefault, Undisturbed
  <2>1. CASE RowsFor(Platform) = {}
    <3>1. Cardinality({}) = 0
      BY FS_EmptySet
    <3> QED
      BY <2>1, <3>1
  <2>2. ASSUME NEW i \in RowsFor(Platform) PROVE Cardinality(RowsFor(Platform)) <= 1
    <3>1. RowsFor(Platform) = {i}
      BY <2>2 DEF RowsFor, OneRow
    <3>2. Cardinality({i}) = 1
      BY FS_Singleton
    <3> QED
      BY <3>1, <3>2
  <2> QED
    BY <2>1, <2>2
<1> QED
  BY <1>1, <1>2, PaymentInitType, InitFound, PaymentTypeStep, FoundStep, DefaultStep, PTL DEF PaymentSpec

-----------------------------------------------------------------------------
(* The link between groups and chats.                                        *)

USE DEF Ids

\* The newest of some challenges is one of them.
LEMMA NewestOfSome ==
    ASSUME NEW S \in SUBSET Ids, S # {}
    PROVE  Newest(S) \in S
<1> DEFINE Below == {MaxChallenges - i : i \in S}
<1>1. Below \subseteq Nat /\ Below # {}
  <2>1. \A i \in S : i \in 1 .. MaxChallenges /\ MaxChallenges - i \in Nat
    BY LinkAssumption
  <2>2. PICK i \in S : TRUE
    OBVIOUS
  <2>3. MaxChallenges - i \in Below
    BY <2>2
  <2> QED
    BY <2>1, <2>3
<1>2. PICK x \in Below : \A y \in Below : ~ (<<y, x>> \in OpToRel(<, Nat))
  BY <1>1, NatLessThanWellFounded, WFMin
<1>3. PICK i \in S : x = MaxChallenges - i
  BY <1>2
<1>4. ASSUME NEW j \in S PROVE j <= i
  <2>1. MaxChallenges - j \in Below /\ MaxChallenges - j \in Nat /\ x \in Nat
    BY <1>1, <1>2
  <2>2. ~ (MaxChallenges - j < x)
    BY <1>2, <2>1 DEF OpToRel
  <2> QED
    BY <1>3, <2>2, LinkAssumption
<1> QED
  BY <1>3, <1>4 DEF Newest

\* What an idle handler keeps.
LEMMA NoLinkLocalsType == NoLinkLocals \in LinkLocals
  BY LinkAssumption DEF NoLinkLocals, LinkLocals

-----------------------------------------------------------------------------
(* The type invariant. *)

\* The record a handler is left with can be used by its next call.
LEMMA LinkGotoType ==
    ASSUME LinkTypeOK, NEW q \in Owners, NEW step \in LinkSteps, NEW l \in LinkLocals,
           LinkGoto(q, step, l),
           sent' \in {sent, sent + 1},
           step # "idle" => l.group \in LinkGroups,
           step \in {"try", "link"} => l.read \in 1 .. sent,
           step \in {"invalidate", "create"} => l.chat \in Chats
    PROVE  /\ linkPc' \in [Owners -> LinkSteps] /\ linkLoc' \in [Owners -> LinkLocals]
           /\ linkPc'[q] = step /\ linkLoc'[q] = l
           /\ \A o \in Owners \ {q} : linkPc'[o] = linkPc[o] /\ linkLoc'[o] = linkLoc[o]
           /\ linkCrossed' \in SUBSET {"group", "link"}
           /\ \A o \in Owners : linkPc'[o] # "idle" => linkLoc'[o].group \in LinkGroups
           /\ \A o \in Owners : linkPc'[o] \in {"try", "link"} => linkLoc'[o].read \in 1 .. sent'
           /\ \A o \in Owners : linkPc'[o] \in {"invalidate", "create"} => linkLoc'[o].chat \in Chats
<1>1. /\ linkPc' \in [Owners -> LinkSteps] /\ linkLoc' \in [Owners -> LinkLocals]
      /\ linkPc'[q] = step /\ linkLoc'[q] = l
      /\ \A o \in Owners \ {q} : linkPc'[o] = linkPc[o] /\ linkLoc'[o] = linkLoc[o]
      /\ linkCrossed' \in SUBSET {"group", "link"}
  BY DEF LinkTypeOK, LinkGoto
<1>2. 1 .. sent \subseteq 1 .. sent'
  BY LinkAssumption DEF LinkTypeOK
<1> QED
  BY <1>1, <1>2 DEF LinkTypeOK

\* The same of a handler that ends.
LEMMA LinkFinishType ==
    ASSUME LinkTypeOK, NEW q \in Owners, LinkFinish(q), sent' \in {sent, sent + 1}
    PROVE  /\ linkPc' \in [Owners -> LinkSteps] /\ linkLoc' \in [Owners -> LinkLocals]
           /\ linkPc'[q] = "idle"
           /\ \A o \in Owners \ {q} : linkPc'[o] = linkPc[o] /\ linkLoc'[o] = linkLoc[o]
           /\ linkCrossed' \in SUBSET {"group", "link"}
           /\ \A o \in Owners : linkPc'[o] # "idle" => linkLoc'[o].group \in LinkGroups
           /\ \A o \in Owners : linkPc'[o] \in {"try", "link"} => linkLoc'[o].read \in 1 .. sent'
           /\ \A o \in Owners : linkPc'[o] \in {"invalidate", "create"} => linkLoc'[o].chat \in Chats
  BY NoLinkLocalsType, LinkGotoType DEF LinkFinish, LinkSteps

\* An owner enters a code against a challenge of the group.
LEMMA EnterCodeType ==
    ASSUME LinkTypeOK, NEW q \in Owners, NEW g \in LinkGroups, NEW code \in 0 .. sent,
           EnterCode(q, g, code)
    PROVE  /\ Newest(Open(g)) \in Open(g)
           /\ Newest(Open(g)) \in 1 .. sent
           /\ [NoLinkLocals EXCEPT !.group = g, !.read = Newest(Open(g)), !.code = code] \in LinkLocals
<1>1. Open(g) \subseteq 1 .. sent /\ 1 .. sent \subseteq Ids
  BY LinkAssumption DEF Open, LinkTypeOK
<1>2. Newest(Open(g)) \in Open(g)
  BY <1>1, NewestOfSome DEF EnterCode
<1>3. code \in Ids \cup {0}
  BY LinkAssumption DEF LinkTypeOK
<1> QED
  BY <1>1, <1>2, <1>3, NoLinkLocalsType DEF LinkLocals

\* Challenges are not lost, and neither are the groups and the chats they are for.
LEMMA InvalidatedType ==
    ASSUME LinkTypeOK, NEW g, Invalidated(g)
    PROVE  /\ challenge' \in [Ids -> Challenge]
           /\ \A i \in Ids :
                /\ challenge'[i].group = challenge[i].group
                /\ challenge'[i].chat = challenge[i].chat
                /\ challenge'[i].attempts = challenge[i].attempts
                /\ challenge[i].used \/ challenge[i].group = g => challenge'[i].used
  BY ZenonT(60) DEF LinkTypeOK, Invalidated, Challenge

\* The challenges, or one of them, change without their group and chat.
LEMMA ChallengesType ==
    ASSUME LinkTypeOK, challenge' \in [Ids -> Challenge], UNCHANGED sent,
           \A i \in Ids : challenge'[i].group = challenge[i].group /\ challenge'[i].chat = challenge[i].chat
    PROVE  \A i \in 1 .. sent' : challenge'[i].group \in LinkGroups /\ challenge'[i].chat \in Chats
<1>1. 1 .. sent \subseteq Ids
  BY LinkAssumption DEF LinkTypeOK
<1> QED
  BY <1>1 DEF LinkTypeOK

\* Every step keeps the types.
LEMMA LinkTypeStep == LinkTypeOK /\ [LinkNext]_linkVars => LinkTypeOK'
<1> SUFFICES ASSUME LinkTypeOK, [LinkNext]_linkVars PROVE LinkTypeOK'
  OBVIOUS
<1>1. ASSUME NEW q \in Owners, NEW g \in LinkGroups, NEW k \in Chats, AskCode(q, g, k)
      PROVE  LinkTypeOK'
  <2>1. NoLinkLocals.group = NoChat /\ DOMAIN NoLinkLocals = {"group", "chat", "read", "code"}
    BY DEF NoLinkLocals
  <2> DEFINE l == [NoLinkLocals EXCEPT !.group = g, !.chat = k]
  <2>2. l \in LinkLocals /\ l.group = g /\ l.chat = k
    BY NoLinkLocalsType DEF LinkLocals
  <2>3. LinkGoto(q, "invalidate", l) /\ UNCHANGED <<chat, challenge, sent, guesses, wrong>>
        /\ renounced' = renounced \ {g}
    BY <1>1 DEF AskCode
  <2> HIDE DEF l
  <2> QED
    BY <2>2, <2>3, LinkGotoType DEF LinkTypeOK, LinkSteps
<1>2. ASSUME NEW q \in Owners, NEW g \in LinkGroups, NEW code \in 0 .. sent, EnterCode(q, g, code)
      PROVE  LinkTypeOK'
  <2> DEFINE l == [NoLinkLocals EXCEPT !.group = g, !.read = Newest(Open(g)), !.code = code]
  <2>1. l \in LinkLocals /\ l.group = g /\ l.read \in 1 .. sent
    BY <1>2, EnterCodeType, NoLinkLocalsType DEF LinkLocals
  <2>2. LinkGoto(q, "try", l) /\ UNCHANGED <<chat, challenge, sent, wrong, renounced>>
        /\ guesses < MaxGuesses /\ guesses' = guesses + 1
    BY <1>2 DEF EnterCode
  <2> HIDE DEF l
  <2> QED
    BY <2>1, <2>2, LinkGotoType, LinkAssumption DEF LinkTypeOK, LinkSteps
<1>3. ASSUME NEW q \in Owners, NEW g \in LinkGroups, Unlink(q, g) PROVE LinkTypeOK'
  <2> DEFINE l == [NoLinkLocals EXCEPT !.group = g]
  <2>1. l \in LinkLocals /\ l.group = g
    BY NoLinkLocalsType DEF LinkLocals
  <2>2. LinkGoto(q, "drop", l) /\ UNCHANGED <<challenge, sent, wrong, renounced>>
        /\ guesses < MaxGuesses /\ guesses' = guesses + 1
        /\ chat' \in [LinkGroups -> Chats \cup {NoChat}]
    BY <1>3 DEF Unlink, LinkTypeOK
  <2> HIDE DEF l
  <2> QED
    BY <2>1, <2>2, LinkGotoType, LinkAssumption DEF LinkTypeOK, LinkSteps
<1>4. ASSUME NEW q \in Owners, Invalidate(q) PROVE LinkTypeOK'
  <2>1. /\ linkLoc[q] \in LinkLocals /\ linkLoc[q].group \in LinkGroups
        /\ linkLoc[q].chat \in Chats
    BY <1>4 DEF Invalidate, LinkTypeOK
  <2>2. LinkGoto(q, "create", linkLoc[q]) /\ UNCHANGED <<chat, sent, guesses, wrong, renounced>>
    BY <1>4 DEF Invalidate
  <2>3. challenge' \in [Ids -> Challenge]
        /\ \A i \in 1 .. sent' : challenge'[i].group \in LinkGroups /\ challenge'[i].chat \in Chats
    BY <1>4, InvalidatedType, ChallengesType DEF Invalidate
  <2> QED
    BY <2>1, <2>2, <2>3, LinkGotoType DEF LinkTypeOK, LinkSteps
<1>5. ASSUME NEW q \in Owners, CreateChallenge(q) PROVE LinkTypeOK'
  <2> DEFINE new == [group |-> linkLoc[q].group, chat |-> linkLoc[q].chat,
                     used |-> FALSE, expired |-> FALSE, attempts |-> 0]
  <2>1. linkLoc[q].group \in LinkGroups /\ linkLoc[q].chat \in Chats
    BY <1>5 DEF CreateChallenge, LinkTypeOK
  <2>2. new \in Challenge /\ new.group \in LinkGroups /\ new.chat \in Chats
    BY <2>1 DEF Challenge
  <2>3. /\ sent' = sent + 1 /\ sent' \in Ids /\ challenge' = [challenge EXCEPT ![sent'] = new]
        /\ LinkFinish(q) /\ UNCHANGED <<chat, guesses, wrong, renounced>>
    BY <1>5, LinkAssumption DEF CreateChallenge, LinkTypeOK
  <2> HIDE DEF new
  <2>4. challenge' \in [Ids -> Challenge]
    BY <2>2, <2>3 DEF LinkTypeOK
  <2>5. ASSUME NEW i \in 1 .. sent' PROVE challenge'[i].group \in LinkGroups /\ challenge'[i].chat \in Chats
    <3>1. i = sent' \/ i \in 1 .. sent
      BY <2>3 DEF LinkTypeOK
    <3>2. i \in Ids
      BY <2>3, LinkAssumption
    <3> QED
      BY <2>2, <2>3, <3>1, <3>2 DEF LinkTypeOK
  <2>6. /\ linkPc' \in [Owners -> LinkSteps] /\ linkLoc' \in [Owners -> LinkLocals]
        /\ \A o \in Owners : linkPc'[o] # "idle" => linkLoc'[o].group \in LinkGroups
        /\ \A o \in Owners : linkPc'[o] \in {"try", "link"} => linkLoc'[o].read \in 1 .. sent'
        /\ \A o \in Owners : linkPc'[o] \in {"invalidate", "create"} => linkLoc'[o].chat \in Chats
        /\ linkCrossed' \in SUBSET {"group", "link"}
    BY <2>3, LinkFinishType
  <2>7. /\ sent' \in 0 .. MaxChallenges /\ chat' \in [LinkGroups -> Chats \cup {NoChat}]
        /\ guesses' \in 0 .. MaxGuesses /\ wrong' \in [Ids -> Nat] /\ renounced' \in SUBSET LinkGroups
    BY <2>3, LinkAssumption DEF LinkTypeOK
  <2> QED
    BY <2>4, <2>5, <2>6, <2>7 DEF LinkTypeOK
<1>6. ASSUME NEW q \in Owners, WrongCode(q) PROVE LinkTypeOK'
  <2>1. PICK i \in 1 .. sent : i = linkLoc[q].read
    BY <1>6 DEF WrongCode, LinkTypeOK
  <2>2. i \in Ids
    BY LinkAssumption DEF LinkTypeOK
  <2>3. challenge[i] \in Challenge /\ challenge[i].attempts + 1 \in Nat /\ wrong[i] + 1 \in Nat
    BY <2>2 DEF LinkTypeOK, Challenge
  <2>4. /\ challenge' = [challenge EXCEPT ![i].attempts = challenge[i].attempts + 1]
        /\ wrong' = [wrong EXCEPT ![i] = wrong[i] + 1]
        /\ LinkFinish(q) /\ UNCHANGED <<chat, sent, guesses, renounced>>
    BY <1>6, <2>1 DEF WrongCode, CountWrong
  <2>5. /\ challenge' \in [Ids -> Challenge]
        /\ \A j \in Ids : challenge'[j].group = challenge[j].group /\ challenge'[j].chat = challenge[j].chat
        /\ wrong' \in [Ids -> Nat]
    BY <2>2, <2>3, <2>4 DEF LinkTypeOK, Challenge
  <2> QED
    BY <2>4, <2>5, LinkFinishType, ChallengesType DEF LinkTypeOK
<1>7. ASSUME NEW q \in Owners, RightCode(q) PROVE LinkTypeOK'
  <2>1. linkLoc[q] \in LinkLocals /\ linkLoc[q].group \in LinkGroups /\ linkLoc[q].read \in 1 .. sent
    BY <1>7 DEF RightCode, LinkTypeOK
  <2>2. LinkGoto(q, "link", linkLoc[q]) => LinkTypeOK'
    BY <1>7, <2>1, LinkGotoType DEF RightCode, LinkTypeOK, LinkSteps
  <2>3. LinkFinish(q) => LinkTypeOK'
    BY <1>7, LinkFinishType DEF RightCode, LinkTypeOK
  <2> QED
    BY <1>7, <2>2, <2>3 DEF RightCode
<1>8. ASSUME NEW q \in Owners, Link(q) PROVE LinkTypeOK'
  <2>1. PICK i \in 1 .. sent : i = linkLoc[q].read
    BY <1>8 DEF Link, LinkTypeOK
  <2>2. i \in Ids /\ challenge[i].chat \in Chats
    BY <2>1, LinkAssumption DEF LinkTypeOK
  <2>3. /\ challenge' = [challenge EXCEPT ![i].used = TRUE]
        /\ chat' = [chat EXCEPT ![linkLoc[q].group] = challenge[i].chat]
        /\ LinkFinish(q) /\ UNCHANGED <<sent, guesses, wrong, renounced>>
    BY <1>8, <2>1 DEF Link
  <2>4. /\ challenge' \in [Ids -> Challenge] /\ chat' \in [LinkGroups -> Chats \cup {NoChat}]
        /\ \A j \in Ids : challenge'[j].group = challenge[j].group /\ challenge'[j].chat = challenge[j].chat
    BY <2>2, <2>3, ZenonT(60) DEF LinkTypeOK, Challenge
  <2> QED
    BY <2>3, <2>4, LinkFinishType, ChallengesType DEF LinkTypeOK
<1>9. ASSUME NEW q \in Owners, DropCodes(q) PROVE LinkTypeOK'
  <2>1. linkLoc[q].group \in LinkGroups
    BY <1>9 DEF DropCodes, LinkTypeOK
  <2>2. /\ Invalidated(linkLoc[q].group) /\ renounced' \in SUBSET LinkGroups
        /\ LinkFinish(q) /\ UNCHANGED <<chat, sent, guesses, wrong>>
    BY <1>9, <2>1 DEF DropCodes, LinkTypeOK
  <2>3. challenge' \in [Ids -> Challenge]
        /\ \A i \in 1 .. sent' : challenge'[i].group \in LinkGroups /\ challenge'[i].chat \in Chats
    BY <2>2, InvalidatedType, ChallengesType
  <2> QED
    BY <2>2, <2>3, LinkFinishType DEF LinkTypeOK
<1>10. ASSUME NEW q \in Owners, LinkFail(q) PROVE LinkTypeOK'
  BY <1>10, LinkFinishType DEF LinkFail, LinkTypeOK
<1>11. ASSUME NEW i \in Ids, Expire(i) PROVE LinkTypeOK'
  <2>1. /\ challenge' \in [Ids -> Challenge]
        /\ \A j \in Ids : challenge'[j].group = challenge[j].group /\ challenge'[j].chat = challenge[j].chat
    BY <1>11, ZenonT(60) DEF Expire, LinkTypeOK, Challenge
  <2> QED
    BY <1>11, <2>1, ChallengesType DEF Expire, linkHandlers, LinkTypeOK
<1>12. CASE UNCHANGED linkVars
  BY <1>12 DEF linkVars, linkHandlers, LinkTypeOK
<1> QED
  BY <1>1, <1>2, <1>3, <1>4, <1>5, <1>6, <1>7, <1>8, <1>9, <1>10, <1>11, <1>12 DEF LinkNext

\* The rows of the challenges and what handlers keep of them have the values the
\* code gives them, whatever interleaves.
THEOREM LinkTypeCorrect == LinkSpec => []LinkTypeOK
<1>1. LinkInit => LinkTypeOK
  BY LinkAssumption DEF LinkInit, LinkTypeOK, LinkSteps, NoLinkLocals, LinkLocals, Challenge, NoChallenge
<1> QED
  BY <1>1, LinkTypeStep, PTL DEF LinkSpec

-----------------------------------------------------------------------------
(* A chat of one group. *)

\* As long as no two links have crossed, one handler at most is about to link,
\* and what it has found of the chat still holds.
LinkingInv ==
    "link" \notin linkCrossed =>
        /\ \A q, o \in Owners : linkPc[q] = "link" /\ linkPc[o] = "link" => q = o
        /\ \A q \in Owners :
              linkPc[q] = "link" => ~ Taken(challenge[linkLoc[q].read].chat, linkLoc[q].group)
        /\ \A g, h \in LinkGroups : chat[g] = chat[h] /\ chat[g] # NoChat => g = h

\* A step that lets no handler link, and no group have another chat than before.
LEMMA NoLinking ==
    ASSUME LinkTypeOK, LinkTypeOK', LinkingInv,
           linkCrossed \subseteq linkCrossed',
           \A o \in Owners : linkPc'[o] = "link" => linkPc[o] = "link" /\ linkLoc'[o] = linkLoc[o],
           \A g \in LinkGroups : chat'[g] \in {chat[g], NoChat},
           \A i \in 1 .. sent : challenge'[i].chat = challenge[i].chat
    PROVE  LinkingInv'
<1> SUFFICES ASSUME "link" \notin linkCrossed' PROVE LinkingInv!2'
  BY DEF LinkingInv
<1>1. LinkingInv!2
  BY DEF LinkingInv
<1>2. LinkingInv!2!1'
  BY <1>1
<1>3. ASSUME NEW q \in Owners, linkPc'[q] = "link"
      PROVE  ~ Taken(challenge[linkLoc[q].read].chat, linkLoc[q].group)'
  <2>1. linkLoc'[q] = linkLoc[q] /\ linkLoc[q].read \in 1 .. sent
        /\ ~ Taken(challenge[linkLoc[q].read].chat, linkLoc[q].group)
    BY <1>1, <1>3 DEF LinkTypeOK
  <2>2. challenge'[linkLoc[q].read].chat = challenge[linkLoc[q].read].chat
        /\ challenge[linkLoc[q].read].chat \in Chats
    BY <2>1 DEF LinkTypeOK
  <2> QED
    BY <2>1, <2>2, LinkAssumption DEF Taken
<1>4. LinkingInv!2!3'
  BY <1>1, LinkAssumption DEF LinkTypeOK
<1> QED
  BY <1>2, <1>3, <1>4

\* A handler that goes anywhere but to linking makes no other link.
LEMMA GotoElsewhere ==
    ASSUME LinkTypeOK, NEW q \in Owners, NEW step, NEW l, step # "link", LinkGoto(q, step, l)
    PROVE  /\ linkCrossed \subseteq linkCrossed'
           /\ \A o \in Owners : linkPc'[o] = "link" => linkPc[o] = "link" /\ linkLoc'[o] = linkLoc[o]
  BY DEF LinkTypeOK, LinkGoto

\* Every step keeps what the handler about to link has found.
LEMMA LinkingStep == LinkTypeOK /\ LinkTypeOK' /\ LinkingInv /\ [LinkNext]_linkVars => LinkingInv'
<1> SUFFICES ASSUME LinkTypeOK, LinkTypeOK', LinkingInv, [LinkNext]_linkVars PROVE LinkingInv'
  OBVIOUS
<1>1. 1 .. sent \subseteq Ids
  BY LinkAssumption DEF LinkTypeOK
<1>2. ASSUME NEW q \in Owners, NEW g \in LinkGroups, NEW k \in Chats, AskCode(q, g, k)
      PROVE  LinkingInv'
  BY <1>2, GotoElsewhere, NoLinking DEF AskCode
<1>3. ASSUME NEW q \in Owners, NEW g \in LinkGroups, NEW code \in 0 .. sent, EnterCode(q, g, code)
      PROVE  LinkingInv'
  BY <1>3, GotoElsewhere, NoLinking DEF EnterCode
<1>4. ASSUME NEW q \in Owners, NEW g \in LinkGroups, Unlink(q, g) PROVE LinkingInv'
  <2>1. \A h \in LinkGroups : chat'[h] \in {chat[h], NoChat}
    BY <1>4 DEF Unlink, LinkTypeOK
  <2> QED
    BY <1>4, <2>1, GotoElsewhere, NoLinking DEF Unlink
<1>5. ASSUME NEW q \in Owners, Invalidate(q) PROVE LinkingInv'
  <2>1. \A i \in 1 .. sent : challenge'[i].chat = challenge[i].chat
    BY <1>1, <1>5, InvalidatedType DEF Invalidate
  <2> QED
    BY <1>5, <2>1, GotoElsewhere, NoLinking DEF Invalidate
<1>6. ASSUME NEW q \in Owners, CreateChallenge(q) PROVE LinkingInv'
  <2>1. \A i \in 1 .. sent : challenge'[i].chat = challenge[i].chat
    BY <1>1, <1>6 DEF CreateChallenge, LinkTypeOK
  <2> QED
    BY <1>6, <2>1, GotoElsewhere, NoLinking DEF CreateChallenge, LinkFinish
<1>7. ASSUME NEW q \in Owners, WrongCode(q) PROVE LinkingInv'
  <2>1. \A i \in 1 .. sent : challenge'[i].chat = challenge[i].chat
    BY <1>1, <1>7 DEF WrongCode, CountWrong, LinkTypeOK, Challenge
  <2> QED
    BY <1>7, <2>1, GotoElsewhere, NoLinking DEF WrongCode, LinkFinish
<1>8. ASSUME NEW q \in Owners, RightCode(q) PROVE LinkingInv'
  <2>1. CASE LinkFinish(q)
    BY <1>8, <2>1, GotoElsewhere, NoLinking DEF RightCode, LinkFinish
  <2>2. CASE /\ ~ Taken(challenge[linkLoc[q].read].chat, linkLoc[q].group)
             /\ LinkGoto(q, "link", linkLoc[q])
    <3> SUFFICES ASSUME "link" \notin linkCrossed' PROVE LinkingInv!2'
      BY DEF LinkingInv
    <3>1. /\ \A o \in Owners \ {q} : linkPc[o] # "link" /\ linkPc'[o] # "link"
          /\ linkLoc'[q] = linkLoc[q]
      BY <2>2 DEF LinkGoto, LinkTypeOK
    <3>2. "link" \notin linkCrossed /\ UNCHANGED <<chat, challenge>>
      BY <1>8, <2>2 DEF RightCode, LinkGoto
    <3> QED
      BY <2>2, <3>1, <3>2 DEF LinkingInv, Taken
  <2> QED
    BY <1>8, <2>1, <2>2 DEF RightCode
<1>9. ASSUME NEW q \in Owners, Link(q) PROVE LinkingInv'
  <2> DEFINE k == challenge[linkLoc[q].read].chat
             g == linkLoc[q].group
  <2> SUFFICES ASSUME "link" \notin linkCrossed' PROVE LinkingInv!2'
    BY DEF LinkingInv
  <2>1. "link" \notin linkCrossed
    BY <1>9 DEF Link, LinkFinish, LinkGoto
  <2>2. \A o \in Owners : linkPc'[o] # "link"
    BY <1>9, <2>1 DEF Link, LinkFinish, LinkGoto, LinkingInv, LinkTypeOK
  <2>3. ~ Taken(k, g) /\ g \in LinkGroups /\ chat' = [chat EXCEPT ![g] = k]
    BY <1>9, <2>1 DEF Link, LinkingInv, LinkTypeOK
  <2>4. LinkingInv!2!3
    BY <2>1 DEF LinkingInv
  <2> HIDE DEF k, g
  <2>5. LinkingInv!2!3'
    BY <2>3, <2>4 DEF Taken, LinkTypeOK
  <2> QED
    BY <2>2, <2>5
<1>10. ASSUME NEW q \in Owners, DropCodes(q) PROVE LinkingInv'
  <2>1. \A i \in 1 .. sent : challenge'[i].chat = challenge[i].chat
    BY <1>1, <1>10, InvalidatedType DEF DropCodes
  <2> QED
    BY <1>10, <2>1, GotoElsewhere, NoLinking DEF DropCodes, LinkFinish
<1>11. ASSUME NEW q \in Owners, LinkFail(q) PROVE LinkingInv'
  BY <1>11, GotoElsewhere, NoLinking DEF LinkFail, LinkFinish
<1>12. ASSUME NEW i \in Ids, Expire(i) PROVE LinkingInv'
  <2>1. \A j \in 1 .. sent : challenge'[j].chat = challenge[j].chat
    BY <1>1, <1>12 DEF Expire, LinkTypeOK, Challenge
  <2> QED
    BY <1>12, <2>1, NoLinking DEF Expire, linkHandlers
<1>13. CASE UNCHANGED linkVars
  BY <1>13 DEF linkVars, linkHandlers, LinkingInv, Taken
<1> QED
  BY <1>2, <1>3, <1>4, <1>5, <1>6, <1>7, <1>8, <1>9, <1>10, <1>11, <1>12, <1>13 DEF LinkNext

\* A chat is linked to one group at a time unless two links crossed, whatever
\* else does (verifyWhatsappGroupLink looks for another group, then links).
THEOREM ChatsAreNotShared == LinkSpec => []OneGroupPerChat
<1>1. LinkInit => LinkTypeOK /\ LinkingInv
  BY LinkAssumption DEF LinkInit, LinkTypeOK, LinkSteps, NoLinkLocals, LinkLocals, Challenge,
     NoChallenge, LinkingInv
<1>2. LinkingInv => OneGroupPerChat
  BY DEF LinkingInv, OneGroupPerChat
<1> QED
  BY <1>1, <1>2, LinkTypeStep, LinkingStep, PTL DEF LinkSpec

-----------------------------------------------------------------------------
(* A group that has been unlinked. *)

\* As long as no two handlers of one group have crossed: once it is unlinked
\* nobody holds a code of the group that is good, or the way to one.
RenouncedInv ==
    "group" \notin linkCrossed =>
        /\ \A q, o \in Owners :
              linkPc[q] # "idle" /\ linkPc[o] # "idle" /\ linkLoc[q].group = linkLoc[o].group => q = o
        /\ \A q \in Owners : linkPc[q] = "drop" => chat[linkLoc[q].group] = NoChat
        /\ \A q \in Owners : linkPc[q] \in {"invalidate", "create", "try", "link"} =>
              linkLoc[q].group \notin renounced
        /\ \A i \in 1 .. sent : challenge[i].group \in renounced => challenge[i].used
        /\ \A g \in renounced : chat[g] = NoChat

\* A handler that has gone on without being crossed is alone on its group.
LEMMA GotoAlone ==
    ASSUME LinkTypeOK, RenouncedInv, NEW q \in Owners, NEW step, NEW l, LinkGoto(q, step, l),
           "group" \notin linkCrossed'
    PROVE  /\ "group" \notin linkCrossed
           /\ linkPc'[q] = step /\ linkLoc'[q] = l
           /\ \A o \in Owners \ {q} : linkPc'[o] = linkPc[o] /\ linkLoc'[o] = linkLoc[o]
           /\ step # "idle" => \A o \in Owners \ {q} : linkPc[o] # "idle" => linkLoc[o].group # l.group
           /\ \A p, o \in Owners :
                linkPc'[p] # "idle" /\ linkPc'[o] # "idle" /\ linkLoc'[p].group = linkLoc'[o].group => p = o
<1>1. /\ "group" \notin linkCrossed
      /\ linkPc'[q] = step /\ linkLoc'[q] = l
      /\ \A o \in Owners \ {q} : linkPc'[o] = linkPc[o] /\ linkLoc'[o] = linkLoc[o]
  BY DEF LinkGoto, LinkTypeOK
<1>2. step # "idle" => \A o \in Owners \ {q} : linkPc[o] # "idle" => linkLoc[o].group # l.group
  BY DEF LinkGoto, Others
<1> QED
  BY <1>1, <1>2 DEF RenouncedInv

\* A step that changes no chat and gives no group a code, by a handler whose
\* group is not renounced.
LEMMA GotoQuiet ==
    ASSUME LinkTypeOK, LinkTypeOK', RenouncedInv, NEW q \in Owners, NEW step, NEW l, LinkGoto(q, step, l),
           step \in {"invalidate", "create", "try", "link"} => l.group \notin renounced',
           step # "drop", UNCHANGED <<chat, sent>>, renounced' \subseteq renounced,
           \A i \in 1 .. sent : challenge'[i].group = challenge[i].group
                                 /\ (challenge[i].used => challenge'[i].used)
    PROVE  RenouncedInv'
<1> SUFFICES ASSUME "group" \notin linkCrossed' PROVE RenouncedInv!2'
  BY DEF RenouncedInv
<1>1. "group" \notin linkCrossed /\ RenouncedInv!2
  BY GotoAlone DEF RenouncedInv
<1> QED
  BY <1>1, GotoAlone

\* Every step keeps the codes of a renounced group used up.
LEMMA RenouncedStep == LinkTypeOK /\ LinkTypeOK' /\ RenouncedInv /\ [LinkNext]_linkVars => RenouncedInv'
<1> SUFFICES ASSUME LinkTypeOK, LinkTypeOK', RenouncedInv, [LinkNext]_linkVars PROVE RenouncedInv'
  OBVIOUS
<1>0. 1 .. sent \subseteq Ids
  BY LinkAssumption DEF LinkTypeOK
<1>1. ASSUME NEW q \in Owners, NEW g \in LinkGroups, NEW k \in Chats, AskCode(q, g, k)
      PROVE  RenouncedInv'
  <2> DEFINE l == [NoLinkLocals EXCEPT !.group = g, !.chat = k]
  <2>1. l.group = g
    BY DEF NoLinkLocals
  <2>2. LinkGoto(q, "invalidate", l) /\ renounced' = renounced \ {g}
        /\ UNCHANGED <<chat, challenge, sent>>
    BY <1>1 DEF AskCode
  <2> HIDE DEF l
  <2> QED
    BY <2>1, <2>2, GotoQuiet
<1>2. ASSUME NEW q \in Owners, NEW g \in LinkGroups, NEW code \in 0 .. sent, EnterCode(q, g, code)
      PROVE  RenouncedInv'
  <2> DEFINE l == [NoLinkLocals EXCEPT !.group = g, !.read = Newest(Open(g)), !.code = code]
  <2>1. l.group = g
    BY DEF NoLinkLocals
  <2>2. LinkGoto(q, "try", l) /\ UNCHANGED <<chat, challenge, sent, renounced>>
    BY <1>2 DEF EnterCode
  <2>3. "group" \notin linkCrossed => g \notin renounced
    <3>1. PICK i \in Open(g) : i \in 1 .. sent
      BY <1>2, EnterCodeType
    <3> QED
      BY <3>1 DEF Open, RenouncedInv
  <2>4. "group" \notin linkCrossed' => "group" \notin linkCrossed
    BY <2>2 DEF LinkGoto
  <2> HIDE DEF l
  <2> QED
    BY <2>1, <2>2, <2>3, <2>4, GotoQuiet DEF RenouncedInv
<1>3. ASSUME NEW q \in Owners, NEW g \in LinkGroups, Unlink(q, g) PROVE RenouncedInv'
  <2> DEFINE l == [NoLinkLocals EXCEPT !.group = g]
  <2>1. l.group = g
    BY DEF NoLinkLocals
  <2>2. LinkGoto(q, "drop", l) /\ UNCHANGED <<challenge, sent, renounced>>
        /\ chat' = [chat EXCEPT ![g] = NoChat]
    BY <1>3 DEF Unlink
  <2> HIDE DEF l
  <2> SUFFICES ASSUME "group" \notin linkCrossed' PROVE RenouncedInv!2'
    BY DEF RenouncedInv
  <2>3. "group" \notin linkCrossed /\ RenouncedInv!2
    BY <2>2, GotoAlone DEF RenouncedInv
  <2>4. \A h \in LinkGroups : chat'[h] \in {chat[h], NoChat} /\ chat'[g] = NoChat
    BY <2>2 DEF LinkTypeOK
  <2>5. \A o \in Owners : linkPc'[o] # "idle" => linkLoc'[o].group \in LinkGroups
    BY DEF LinkTypeOK
  <2>6. RenouncedInv!2!2'
    BY <2>1, <2>2, <2>3, <2>4, <2>5, GotoAlone
  <2>7. RenouncedInv!2!3' /\ RenouncedInv!2!4'
    BY <2>2, <2>3, GotoAlone
  <2>8. RenouncedInv!2!5'
    BY <2>2, <2>3, <2>4 DEF LinkTypeOK
  <2> QED
    BY <2>2, <2>6, <2>7, <2>8, GotoAlone
<1>4. ASSUME NEW q \in Owners, Invalidate(q) PROVE RenouncedInv'
  <2>1. "group" \notin linkCrossed => linkLoc[q].group \notin renounced
    BY <1>4 DEF Invalidate, RenouncedInv
  <2>2. "group" \notin linkCrossed' => "group" \notin linkCrossed
    BY <1>4 DEF Invalidate, LinkGoto
  <2>3. \A i \in 1 .. sent : challenge'[i].group = challenge[i].group
                              /\ (challenge[i].used => challenge'[i].used)
    BY <1>0, <1>4, InvalidatedType DEF Invalidate
  <2> QED
    BY <1>4, <2>1, <2>2, <2>3, GotoQuiet DEF Invalidate, RenouncedInv
<1>5. ASSUME NEW q \in Owners, CreateChallenge(q) PROVE RenouncedInv'
  <2> SUFFICES ASSUME "group" \notin linkCrossed' PROVE RenouncedInv!2'
    BY DEF RenouncedInv
  <2>1. LinkGoto(q, "idle", NoLinkLocals) /\ UNCHANGED <<chat, renounced>>
    BY <1>5 DEF CreateChallenge, LinkFinish
  <2>2. "group" \notin linkCrossed /\ RenouncedInv!2
    BY <2>1, GotoAlone DEF RenouncedInv
  <2>3. \A i \in 1 .. sent : challenge'[i] = challenge[i]
    BY <1>0, <1>5 DEF CreateChallenge, LinkTypeOK
  <2>4. challenge'[sent'].group = linkLoc[q].group /\ linkLoc[q].group \notin renounced
        /\ sent' = sent + 1
    BY <1>5, <2>2, LinkAssumption DEF CreateChallenge, LinkTypeOK
  <2>5. \A i \in 1 .. sent' : i = sent' \/ i \in 1 .. sent
    BY <2>4 DEF LinkTypeOK
  <2>6. RenouncedInv!2!4'
    BY <2>1, <2>2, <2>3, <2>4, <2>5
  <2>7. RenouncedInv!2!1' /\ RenouncedInv!2!2' /\ RenouncedInv!2!3' /\ RenouncedInv!2!5'
    BY <2>1, <2>2, GotoAlone
  <2> QED
    BY <2>6, <2>7
<1>6. ASSUME NEW q \in Owners, WrongCode(q) PROVE RenouncedInv'
  <2>1. \A i \in 1 .. sent : challenge'[i].group = challenge[i].group
                              /\ (challenge[i].used => challenge'[i].used)
    BY <1>0, <1>6 DEF WrongCode, CountWrong, LinkTypeOK, Challenge
  <2> QED
    BY <1>6, <2>1, GotoQuiet DEF WrongCode, LinkFinish
<1>7. ASSUME NEW q \in Owners, RightCode(q) PROVE RenouncedInv'
  <2>1. CASE LinkFinish(q)
    BY <1>7, <2>1, GotoQuiet DEF RightCode, LinkFinish
  <2>2. CASE LinkGoto(q, "link", linkLoc[q])
    <3>1. "group" \notin linkCrossed => linkLoc[q].group \notin renounced
      BY <1>7 DEF RightCode, RenouncedInv
    <3>2. "group" \notin linkCrossed' => "group" \notin linkCrossed
      BY <2>2 DEF LinkGoto
    <3> QED
      BY <1>7, <2>2, <3>1, <3>2, GotoQuiet DEF RightCode, RenouncedInv
  <2> QED
    BY <1>7, <2>1, <2>2 DEF RightCode
<1>8. ASSUME NEW q \in Owners, Link(q) PROVE RenouncedInv'
  <2> SUFFICES ASSUME "group" \notin linkCrossed' PROVE RenouncedInv!2'
    BY DEF RenouncedInv
  <2> DEFINE g == linkLoc[q].group
             k == challenge[linkLoc[q].read].chat
  <2>1. LinkGoto(q, "idle", NoLinkLocals) /\ UNCHANGED <<sent, renounced>>
        /\ chat' = [chat EXCEPT ![g] = k]
    BY <1>8 DEF Link, LinkFinish
  <2>2. "group" \notin linkCrossed /\ RenouncedInv!2
    BY <2>1, GotoAlone DEF RenouncedInv
  <2>3. g \notin renounced /\ \A o \in Owners \ {q} : linkPc[o] # "idle" => linkLoc[o].group # g
    BY <1>8, <2>2 DEF Link
  <2>4. \A i \in 1 .. sent : challenge'[i].group = challenge[i].group
                              /\ (challenge[i].used => challenge'[i].used)
    BY <1>0, <1>8 DEF Link, LinkTypeOK, Challenge
  <2>5. \A o \in Owners : linkPc[o] # "idle" => linkLoc[o].group \in LinkGroups
    BY DEF LinkTypeOK
  <2> HIDE DEF g, k
  <2>6. \A h \in LinkGroups \ {g} : chat'[h] = chat[h]
    BY <2>1 DEF LinkTypeOK
  <2>7. RenouncedInv!2!2' /\ RenouncedInv!2!5'
    BY <2>1, <2>2, <2>3, <2>5, <2>6, GotoAlone DEF LinkTypeOK
  <2> QED
    BY <2>1, <2>2, <2>4, <2>7, GotoAlone
<1>9. ASSUME NEW q \in Owners, DropCodes(q) PROVE RenouncedInv'
  <2> SUFFICES ASSUME "group" \notin linkCrossed' PROVE RenouncedInv!2'
    BY DEF RenouncedInv
  <2> DEFINE g == linkLoc[q].group
  <2>1. LinkGoto(q, "idle", NoLinkLocals) /\ UNCHANGED <<sent, chat>> /\ Invalidated(g)
        /\ renounced' = renounced \cup {g}
    BY <1>9 DEF DropCodes, LinkFinish
  <2>2. "group" \notin linkCrossed /\ RenouncedInv!2
    BY <2>1, GotoAlone DEF RenouncedInv
  <2>3. chat[g] = NoChat /\ \A o \in Owners \ {q} : linkPc[o] # "idle" => linkLoc[o].group # g
    BY <1>9, <2>2 DEF DropCodes
  <2> HIDE DEF g
  <2>4. \A i \in 1 .. sent : challenge'[i].group = challenge[i].group
                              /\ (challenge[i].used \/ challenge[i].group = g => challenge'[i].used)
    BY <1>0, <2>1, InvalidatedType
  <2> QED
    BY <2>1, <2>2, <2>3, <2>4, GotoAlone
<1>10. ASSUME NEW q \in Owners, LinkFail(q) PROVE RenouncedInv'
  BY <1>10, GotoQuiet DEF LinkFail, LinkFinish
<1>11. ASSUME NEW i \in Ids, Expire(i) PROVE RenouncedInv'
  <2>1. \A j \in 1 .. sent : challenge'[j].group = challenge[j].group
                              /\ (challenge[j].used => challenge'[j].used)
    BY <1>0, <1>11 DEF Expire, LinkTypeOK, Challenge
  <2> QED
    BY <1>11, <2>1 DEF Expire, linkHandlers, RenouncedInv
<1>12. CASE UNCHANGED linkVars
  BY <1>12 DEF linkVars, linkHandlers, RenouncedInv
<1> QED
  BY <1>1, <1>2, <1>3, <1>4, <1>5, <1>6, <1>7, <1>8, <1>9, <1>10, <1>11, <1>12 DEF LinkNext

\* Once a group is unlinked no code sent before links it again, unless handlers
\* of the group crossed (unlinkWhatsappGroup uses up the codes).
THEOREM UnlinkedGroupsStay == LinkSpec => []UnlinkedStays
<1>1. LinkInit => LinkTypeOK /\ RenouncedInv
  BY LinkAssumption DEF LinkInit, LinkTypeOK, LinkSteps, NoLinkLocals, LinkLocals, Challenge,
     NoChallenge, RenouncedInv
<1>2. RenouncedInv => UnlinkedStays
  BY DEF RenouncedInv, UnlinkedStays
<1> QED
  BY <1>1, <1>2, LinkTypeStep, RenouncedStep, PTL DEF LinkSpec

-----------------------------------------------------------------------------
(* Guesses. *)

Trying(i) == {q \in Owners : linkPc[q] = "try" /\ linkLoc[q].read = i}

\* Every guess under way was let in by a count below the limit.
GuessingInv ==
    /\ \A i \in Ids : wrong[i] = challenge[i].attempts
    /\ \A i \in Ids : wrong[i] + Cardinality(Trying(i)) < MaxAttempts + Cardinality(Owners)
    /\ \A i \in Ids : i > sent => wrong[i] = 0

\* The handlers can be counted,
LEMMA OwnersAreFinite == IsFiniteSet(Owners) /\ Cardinality(Owners) \in Nat
  BY LinkAssumption, FS_CardinalityType

\* and those that try a code, before a step
LEMMA TryingFinite ==
    ASSUME NEW i
    PROVE  /\ IsFiniteSet(Trying(i)) /\ Cardinality(Trying(i)) \in Nat
           /\ Cardinality(Trying(i)) <= Cardinality(Owners)
<1>1. Trying(i) \subseteq Owners
  BY DEF Trying
<1> QED
  BY <1>1, OwnersAreFinite, FS_Subset, FS_CardinalityType

\* and after it.
LEMMA TryingAfter ==
    ASSUME NEW i
    PROVE  /\ IsFiniteSet(Trying(i)') /\ Cardinality(Trying(i)') \in Nat
           /\ Cardinality(Trying(i)') <= Cardinality(Owners)
<1>1. Trying(i)' \subseteq Owners
  BY DEF Trying
<1> QED
  BY <1>1, OwnersAreFinite, FS_Subset, FS_CardinalityType

\* A step that lets nobody in and counts nothing.
LEMMA NoGuess ==
    ASSUME LinkTypeOK, LinkTypeOK', GuessingInv, UNCHANGED wrong, sent <= sent',
           \A i \in Ids : challenge'[i].attempts = challenge[i].attempts,
           \A o \in Owners : linkPc'[o] = "try" => linkPc[o] = "try" /\ linkLoc'[o] = linkLoc[o]
    PROVE  GuessingInv'
<1>1. ASSUME NEW i \in Ids PROVE Cardinality(Trying(i)') <= Cardinality(Trying(i))
  <2>1. Trying(i)' \subseteq Trying(i)
    BY DEF Trying
  <2> QED
    BY <2>1, TryingFinite, FS_Subset
<1>2. ASSUME NEW i \in Ids PROVE wrong'[i] + Cardinality(Trying(i)') < MaxAttempts + Cardinality(Owners)
  <2>1. wrong'[i] = wrong[i] /\ wrong[i] \in Nat
    BY DEF LinkTypeOK
  <2>2. wrong[i] + Cardinality(Trying(i)) < MaxAttempts + Cardinality(Owners)
    BY DEF GuessingInv
  <2>3. Cardinality(Trying(i)') \in Nat /\ Cardinality(Trying(i)) \in Nat
    BY TryingFinite, TryingAfter
  <2>4. MaxAttempts \in Nat /\ Cardinality(Owners) \in Nat
    BY OwnersAreFinite, LinkAssumption
  <2> HIDE DEF Trying
  <2> QED
    BY <1>1, <2>1, <2>2, <2>3, <2>4
<1>3. \A i \in Ids : i > sent' => i > sent
  BY LinkAssumption DEF LinkTypeOK
<1> QED
  BY <1>2, <1>3 DEF GuessingInv

\* A handler that goes anywhere but to trying a code lets nobody try one.
LEMMA GotoNoTry ==
    ASSUME LinkTypeOK, NEW q \in Owners, NEW step, NEW l, step # "try", LinkGoto(q, step, l)
    PROVE  \A o \in Owners : linkPc'[o] = "try" => linkPc[o] = "try" /\ linkLoc'[o] = linkLoc[o]
  BY DEF LinkTypeOK, LinkGoto

\* Every step keeps the guesses under way within what their counts let in.
LEMMA GuessingStep == LinkTypeOK /\ LinkTypeOK' /\ GuessingInv /\ [LinkNext]_linkVars => GuessingInv'
<1> SUFFICES ASSUME LinkTypeOK, LinkTypeOK', GuessingInv, [LinkNext]_linkVars PROVE GuessingInv'
  OBVIOUS
<1>0. sent \in Nat /\ sent <= sent
  BY LinkAssumption DEF LinkTypeOK
<1>1. ASSUME NEW q \in Owners, NEW g \in LinkGroups, NEW k \in Chats, AskCode(q, g, k)
      PROVE  GuessingInv'
  BY <1>0, <1>1, GotoNoTry, NoGuess DEF AskCode
<1>2. ASSUME NEW q \in Owners, NEW g \in LinkGroups, NEW code \in 0 .. sent, EnterCode(q, g, code)
      PROVE  GuessingInv'
  <2> DEFINE l == [NoLinkLocals EXCEPT !.group = g, !.read = Newest(Open(g)), !.code = code]
  <2>1. PICK c \in Ids : c = Newest(Open(g)) /\ challenge[c].attempts < MaxAttempts /\ l.read = c
    <3>0. 1 .. sent \subseteq Ids
      BY LinkAssumption DEF LinkTypeOK
    <3>1. Newest(Open(g)) \in Ids
      BY <1>2, <3>0, EnterCodeType
    <3>2. challenge[Newest(Open(g))].attempts < MaxAttempts
      BY <1>2 DEF EnterCode
    <3>3. l.read = Newest(Open(g))
      BY DEF NoLinkLocals
    <3> QED
      BY <3>1, <3>2, <3>3
  <2>2. LinkGoto(q, "try", l) /\ UNCHANGED <<challenge, sent, wrong>>
    BY <1>2 DEF EnterCode
  <2> HIDE DEF l
  <2>3. ASSUME NEW i \in Ids PROVE wrong[i] + Cardinality(Trying(i)') < MaxAttempts + Cardinality(Owners)
    <3>1. CASE i = c
      <4>1. wrong[i] < MaxAttempts /\ wrong[i] \in Nat
        BY <2>1, <3>1 DEF GuessingInv, LinkTypeOK
      <4> QED
        BY <4>1, TryingAfter, OwnersAreFinite, LinkAssumption
    <3>2. CASE i # c
      <4>1. Trying(i)' \subseteq Trying(i)
        BY <2>1, <2>2, <3>2 DEF Trying, LinkGoto, LinkTypeOK
      <4>2. Cardinality(Trying(i)') <= Cardinality(Trying(i))
        BY <4>1, TryingFinite, FS_Subset
      <4> QED
        BY <4>2, TryingFinite, TryingAfter, OwnersAreFinite, LinkAssumption DEF GuessingInv, LinkTypeOK
    <3> QED
      BY <3>1, <3>2
  <2> QED
    BY <2>2, <2>3 DEF GuessingInv
<1>3. ASSUME NEW q \in Owners, NEW g \in LinkGroups, Unlink(q, g) PROVE GuessingInv'
  BY <1>0, <1>3, GotoNoTry, NoGuess DEF Unlink
<1>4. ASSUME NEW q \in Owners, Invalidate(q) PROVE GuessingInv'
  <2>1. \A i \in Ids : challenge'[i].attempts = challenge[i].attempts
    BY <1>4, InvalidatedType DEF Invalidate
  <2> QED
    BY <1>0, <1>4, <2>1, GotoNoTry, NoGuess DEF Invalidate
<1>5. ASSUME NEW q \in Owners, CreateChallenge(q) PROVE GuessingInv'
  <2>1. sent' = sent + 1 /\ UNCHANGED wrong
    BY <1>5 DEF CreateChallenge
  <2>2. ASSUME NEW i \in Ids PROVE challenge'[i].attempts = challenge[i].attempts
    <3>1. CASE i = sent'
      <4>1. challenge'[i].attempts = 0
        BY <1>5, <3>1 DEF CreateChallenge, LinkTypeOK
      <4>2. challenge[i].attempts = wrong[i] /\ wrong[i] = 0
        BY <1>0, <2>1, <3>1 DEF GuessingInv
      <4> QED
        BY <4>1, <4>2
    <3>2. CASE i # sent'
      BY <1>5, <3>2 DEF CreateChallenge, LinkTypeOK
    <3> QED
      BY <3>1, <3>2
  <2> QED
    BY <1>0, <1>5, <2>1, <2>2, GotoNoTry, NoGuess DEF CreateChallenge, LinkFinish
<1>6. ASSUME NEW q \in Owners, WrongCode(q) PROVE GuessingInv'
  <2>1. PICK c \in Ids : c = linkLoc[q].read /\ c \in 1 .. sent
    BY <1>6, LinkAssumption DEF WrongCode, LinkTypeOK
  <2>2. /\ linkPc[q] = "try" /\ LinkGoto(q, "idle", NoLinkLocals) /\ UNCHANGED sent
        /\ challenge' = [challenge EXCEPT ![c].attempts = challenge[c].attempts + 1]
        /\ wrong' = [wrong EXCEPT ![c] = wrong[c] + 1]
    BY <1>6, <2>1 DEF WrongCode, CountWrong, LinkFinish
  <2>3. \A i \in Ids : wrong'[i] = challenge'[i].attempts
    BY <2>2 DEF GuessingInv, LinkTypeOK, Challenge
  <2>4. ASSUME NEW i \in Ids
        PROVE  wrong'[i] + Cardinality(Trying(i)') < MaxAttempts + Cardinality(Owners)
    <3>1. CASE i = c
      <4>1. q \in Trying(i) /\ Trying(i)' = Trying(i) \ {q}
        BY <2>1, <2>2, <3>1 DEF Trying, LinkGoto, LinkTypeOK
      <4>2. Cardinality(Trying(i)') = Cardinality(Trying(i)) - 1
        BY <4>1, TryingFinite, FS_RemoveElement
      <4>3. wrong'[i] = wrong[i] + 1 /\ wrong[i] \in Nat
        BY <2>2, <3>1 DEF LinkTypeOK
      <4> QED
        BY <4>2, <4>3, TryingFinite, OwnersAreFinite, LinkAssumption DEF GuessingInv
    <3>2. CASE i # c
      <4>1. Trying(i)' \subseteq Trying(i)
        BY <2>2 DEF Trying, LinkGoto, LinkTypeOK
      <4>2. Cardinality(Trying(i)') <= Cardinality(Trying(i))
        BY <4>1, TryingFinite, FS_Subset
      <4>3. wrong'[i] = wrong[i] /\ wrong[i] \in Nat
        BY <2>2, <3>2 DEF LinkTypeOK
      <4> QED
        BY <4>2, <4>3, TryingFinite, TryingAfter, OwnersAreFinite, LinkAssumption DEF GuessingInv
    <3> QED
      BY <3>1, <3>2
  <2>5. \A i \in Ids : i > sent' => wrong'[i] = 0
    BY <2>1, <2>2 DEF GuessingInv, LinkTypeOK
  <2> QED
    BY <2>3, <2>4, <2>5 DEF GuessingInv
<1>7. ASSUME NEW q \in Owners, RightCode(q) PROVE GuessingInv'
  <2>1. \A o \in Owners : linkPc'[o] = "try" => linkPc[o] = "try" /\ linkLoc'[o] = linkLoc[o]
    BY <1>7, GotoNoTry DEF RightCode, LinkFinish
  <2> QED
    BY <1>0, <1>7, <2>1, NoGuess DEF RightCode
<1>8. ASSUME NEW q \in Owners, Link(q) PROVE GuessingInv'
  <2>1. \A i \in Ids : challenge'[i].attempts = challenge[i].attempts
    BY <1>8 DEF Link, LinkTypeOK, Challenge
  <2> QED
    BY <1>0, <1>8, <2>1, GotoNoTry, NoGuess DEF Link, LinkFinish
<1>9. ASSUME NEW q \in Owners, DropCodes(q) PROVE GuessingInv'
  <2>1. \A i \in Ids : challenge'[i].attempts = challenge[i].attempts
    BY <1>9, InvalidatedType DEF DropCodes
  <2> QED
    BY <1>0, <1>9, <2>1, GotoNoTry, NoGuess DEF DropCodes, LinkFinish
<1>10. ASSUME NEW q \in Owners, LinkFail(q) PROVE GuessingInv'
  BY <1>0, <1>10, GotoNoTry, NoGuess DEF LinkFail, LinkFinish
<1>11. ASSUME NEW i \in Ids, Expire(i) PROVE GuessingInv'
  <2>1. \A j \in Ids : challenge'[j].attempts = challenge[j].attempts
    BY <1>11 DEF Expire, LinkTypeOK, Challenge
  <2> QED
    BY <1>0, <1>11, <2>1, NoGuess DEF Expire, linkHandlers
<1>12. CASE UNCHANGED linkVars
  BY <1>0, <1>12, NoGuess DEF linkVars, linkHandlers
<1> QED
  BY <1>1, <1>2, <1>3, <1>4, <1>5, <1>6, <1>7, <1>8, <1>9, <1>10, <1>11, <1>12 DEF LinkNext

\* No wrong code goes uncounted, and a challenge is guessed at most once more
\* for each handler at work than its limit says (attempts: increment).
THEOREM EveryGuessCounts == LinkSpec => []GuessesCounted
<1>1. LinkInit => LinkTypeOK
  BY LinkAssumption DEF LinkInit, LinkTypeOK, LinkSteps, NoLinkLocals, LinkLocals, Challenge, NoChallenge
<1>2. LinkInit => GuessingInv
  <2> SUFFICES ASSUME LinkInit PROVE GuessingInv
    OBVIOUS
  <2>1. \A i \in Ids : wrong[i] = 0 /\ challenge[i].attempts = 0
    BY DEF LinkInit, NoChallenge
  <2>2. ASSUME NEW i \in Ids PROVE Cardinality(Trying(i)) = 0
    <3>1. Trying(i) = {}
      BY DEF LinkInit, Trying
    <3> QED
      BY <3>1, FS_EmptySet
  <2>3. ASSUME NEW i \in Ids PROVE wrong[i] + Cardinality(Trying(i)) < MaxAttempts + Cardinality(Owners)
    BY <2>1, <2>2, OwnersAreFinite, LinkAssumption
  <2> QED
    BY <2>1, <2>3 DEF GuessingInv
<1>3. LinkTypeOK /\ GuessingInv => GuessesCounted
  <2> SUFFICES ASSUME LinkTypeOK, GuessingInv, NEW i \in Ids
               PROVE  wrong[i] = challenge[i].attempts /\ wrong[i] < MaxAttempts + Cardinality(Owners)
    BY DEF GuessesCounted
  <2> QED
    BY TryingFinite, OwnersAreFinite, LinkAssumption DEF GuessingInv, LinkTypeOK
<1> QED
  BY <1>1, <1>2, <1>3, LinkTypeStep, GuessingStep, PTL DEF LinkSpec

=============================================================================
