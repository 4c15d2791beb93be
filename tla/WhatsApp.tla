------------------------------ MODULE WhatsApp ------------------------------
(***************************************************************************)
(* WhatsApp messages to one phone of one tenant on one calendar day:       *)
(* WhatsappService in the core, the jobs of the worker's WhatsApp queue,   *)
(* Meta (external), and the delivery receipts the bot's webhook applies.   *)
(*                                                                         *)
(* The core and the worker count in the same Redis key, <tenant>:<phone>   *)
(* :daily (the phone is taken to be stored the way formatPhone writes it): *)
(* the core reads it before a reminder and SETs it to 1 after, the worker  *)
(* INCRs it for every message but an OTP: these have no tenant and count   *)
(* in the key of "global". Texts and templates are left out, and so is the *)
(* mock token, with which the worker logs messages nobody sends.           *)
(***************************************************************************)
EXTENDS Integers, FiniteSets

CONSTANTS
    Core, Worker,   \* requests of the core and job slots of the worker
    Msg, None,      \* Meta's message ids
    DailyLimit,     \* the worker's, 250
    TenantLimit,    \* of the core's messages, 1000
    Before,         \* how many it may have sent today before, to other phones
    Tries,          \* withRetry: calls in one run of a job, 3
    Attempts,       \* runs a job may have, by kind: otp {5}, reminder {1}, invoice
                    \* {3, 1}: three when queued by the core, one by the PDF job
    MaxStarted,     \* bound: requests and jobs
    MaxFailures     \* bound: lost answers, failed reads and writes, processes that stop

\* Core and worker are apart, and the day starts below the limit.
WhatsAppAssumption ==
    /\ IsFiniteSet(Core) /\ IsFiniteSet(Msg) /\ Core \cap Worker = {}
    /\ None \notin Msg \cup {"SENT", "DELIVERED", "READ", "FAILED"}
    /\ TenantLimit \in Nat \ {0} /\ Tries \in Nat \ {0} /\ Before \subseteq 0 .. TenantLimit - 1
    /\ \A kind \in DOMAIN Attempts : Attempts[kind] \subseteq Nat \ {0}

Senders == Core \cup Worker
Key == {"tenant", "global"}

VARIABLES
    daily,          \* the keys of the day: [n, ends], n = 0 without one
    total,          \* the core's counter of the tenant's messages today
    sender,         \* by sender: what it does
    meta,           \* by message: None, or how far Meta has got with it
    receipts,       \* receipts on their way: <<message, status>>
    row,            \* WhatsAppMessage.status by messageId, or None
    failed,         \* rows of messages Meta never took: FAILED, without an id
    started, failures,
    reminded,       \* history: the core's reminders of the last 24 hours
    sent,           \* history: how many messages of the core Meta took today
    slipped,        \* history: why a limit may have been passed
    lost,           \* history: messages whose answer or row was lost
    mixed           \* history: messages with a receipt too early, overtaken or not applied

counts == <<daily, total>>
history == <<reminded, sent, slipped>>
log == <<row, failed>>
vars == <<counts, sender, meta, receipts, log, started, failures, history, lost, mixed>>

Idle == [kind |-> "none", step |-> "idle", msg |-> None, count |-> 0, try |-> 1, runs |-> 1]
KeyOf(s) == IF sender[s].kind = "otp" THEN "global" ELSE "tenant"
Become(s, record) == sender' = [sender EXCEPT ![s] = record]
Go(s, step) == Become(s, [sender[s] EXCEPT !.step = step])
Finish(s) == Become(s, Idle)
Start(s, kind, step, runs) ==
    /\ sender[s] = Idle /\ started < MaxStarted /\ started' = started + 1
    /\ Become(s, [Idle EXCEPT !.kind = kind, !.step = step, !.runs = runs])
Fine == failures' = failures
Fails == failures < MaxFailures /\ failures' = failures + 1
Accepted == {m \in Msg : meta[m] # None}

Init ==
    /\ daily = [k \in Key |-> [n |-> 0, ends |-> FALSE]] /\ total \in Before /\ sent = total
    /\ sender = [s \in Senders |-> Idle]
    /\ meta = [m \in Msg |-> None] /\ receipts = {} /\ row = [m \in Msg |-> None]
    /\ failed = 0 /\ started = 0 /\ failures = 0
    /\ reminded = {} /\ slipped = {} /\ lost = {} /\ mixed = {}

-----------------------------------------------------------------------------
(* The core: sendInvoice, sendSalarySlip, sendDirectText are "notice"s,     *)
(* sendReminder and each turn of sendBulkReminders are "reminder"s. What    *)
(* happens once a request is let through is the same for all.               *)
Passed == {s \in Core : sender[s].step # "idle"}
Reminding == {s \in Passed : sender[s].kind = "reminder"}
Overlaps(kind) == {why \in {"together", "overlap"} :
    IF why = "together" THEN Passed # {} ELSE kind = "reminder" /\ Reminding # {}}
CheckTotalOnly(s, kind) ==
    /\ total < TenantLimit
    /\ Start(s, kind, "send", 1)
    /\ slipped' = slipped \cup Overlaps(kind)
    /\ UNCHANGED <<counts, meta, receipts, log, failures, reminded, sent, lost, mixed>>
CheckRateLimits(s, kind) ==
    /\ total < TenantLimit
    /\ kind = "reminder" => daily["tenant"].n < 1
    /\ Start(s, kind, "send", 1)
    /\ slipped' = slipped \cup Overlaps(kind)
    /\ UNCHANGED <<counts, meta, receipts, log, failures, reminded, sent, lost, mixed>>

SendInvoice(s) == CheckRateLimits(s, "notice")
SendSalarySlip(s) == CheckRateLimits(s, "notice")
SendDirectText(s) == CheckRateLimits(s, "notice")
SendReminder(s) == CheckRateLimits(s, "reminder")
\* A turn looks at the key itself, skips a phone that has one, else sends.
SendBulkReminders(s) == daily["tenant"].n = 0 /\ SendReminder(s)

\* Meta takes a message; its first receipt is on its way with the answer.
Accept(m) ==
    /\ meta[m] = None
    /\ meta' = [meta EXCEPT ![m] = "SENT"]
    /\ receipts' = receipts \cup {<<m, "SENT">>}

\* makeRequest: no retry; a refusal or a lost answer ends the request.
CoreCall(s, m, answered) ==
    /\ s \in Core /\ sender[s].step = "send"
    /\ Accept(m) /\ IF answered THEN Fine ELSE Fails
    /\ sent' = sent + 1
    /\ reminded' = IF sender[s].kind = "reminder" THEN reminded \cup {m} ELSE reminded
    /\ IF answered
       THEN Become(s, [sender[s] EXCEPT !.step = "log", !.msg = m]) /\ UNCHANGED <<slipped, lost>>
       ELSE Finish(s) /\ slipped' = slipped \cup {"uncounted"} /\ lost' = lost \cup {m}
    /\ UNCHANGED <<counts, log, started, mixed>>
CoreRefused(s) ==
    /\ s \in Core /\ sender[s].step = "send" /\ Finish(s)
    /\ UNCHANGED <<counts, meta, receipts, log, started, failures, history, lost, mixed>>

\* A row is written as SENT; what a receipt said before that is gone.
Insert(m) ==
    /\ row' = [row EXCEPT ![m] = "SENT"]
    /\ mixed' = IF <<m, "SENT">> \notin receipts THEN mixed \cup {m} ELSE mixed
CoreLog(s) ==
    /\ s \in Core /\ sender[s].step = "log"
    /\ Insert(sender[s].msg) /\ Go(s, "count")
    /\ UNCHANGED <<counts, meta, receipts, failed, started, failures, history, lost>>
IncrementRateLimits(s) ==
    /\ s \in Core /\ sender[s].step = "count"
    /\ total' = total + 1
    /\ IF sender[s].kind = "reminder"
       THEN daily' = [daily EXCEPT !["tenant"] = [n |-> 1, ends |-> TRUE]]
       ELSE UNCHANGED daily
    /\ Finish(s)
    /\ UNCHANGED <<meta, receipts, log, started, failures, history, lost, mixed>>

-----------------------------------------------------------------------------
(* The worker: INCR, EXPIRE for the first, the limit, the message with its  *)
(* retries, the row. A failed run comes back to the INCR.                   *)
Take(s, kind, runs) ==
    /\ s \in Worker /\ Start(s, kind, "incr", runs)
    /\ UNCHANGED <<counts, meta, receipts, log, failures, history, lost, mixed>>
Incr(s) ==
    LET n == daily[KeyOf(s)].n + 1
    IN  /\ sender[s].step = "incr"
        /\ daily' = [daily EXCEPT ![KeyOf(s)].n = n]
        /\ Become(s, [sender[s] EXCEPT !.count = n, !.step = IF n = 1 THEN "expire" ELSE "limit"])
        /\ UNCHANGED <<total, meta, receipts, log, started, failures, history, lost, mixed>>
SetEnd(s) ==
    /\ sender[s].step = "expire"
    /\ daily' = [daily EXCEPT ![KeyOf(s)].ends = (daily[KeyOf(s)].n > 0)]
    /\ Go(s, "limit")
    /\ UNCHANGED <<total, meta, receipts, log, started, failures, history, lost, mixed>>

JobFails(s) ==
    IF sender[s].runs > 1
    THEN Become(s, [Idle EXCEPT !.kind = sender[s].kind, !.step = "incr",
                                !.runs = sender[s].runs - 1])
    ELSE Finish(s)
CallFails(s) ==
    IF sender[s].try < Tries THEN Become(s, [sender[s] EXCEPT !.try = @ + 1]) ELSE JobFails(s)

\* Over the limit a FAILED row is written, if it can be, and the run throws.
Limit(s) ==
    /\ sender[s].step = "limit"
    /\ IF sender[s].count > DailyLimit
       THEN JobFails(s) /\ failed' = failed + 1
       ELSE Go(s, "call") /\ UNCHANGED failed
    /\ UNCHANGED <<counts, meta, receipts, row, started, failures, history, lost, mixed>>
WorkerCall(s, m, answered) ==
    /\ sender[s].step = "call"
    /\ Accept(m) /\ IF answered THEN Fine ELSE Fails
    /\ IF answered THEN Become(s, [sender[s] EXCEPT !.step = "save", !.msg = m]) ELSE CallFails(s)
    /\ lost' = IF answered THEN lost ELSE lost \cup {m}
    /\ UNCHANGED <<counts, log, started, history, mixed>>
OtpCall(s, m, answered) == sender[s].kind = "otp" /\ WorkerCall(s, m, answered)
InvoiceCall(s, m, answered) == sender[s].kind = "invoice" /\ WorkerCall(s, m, answered)
ReminderCall(s, m, answered) == sender[s].kind = "reminder" /\ WorkerCall(s, m, answered)
\* Opted out or outside the 24-hour window: logged as FAILED, the job is done.
WorkerRefused(s, final) ==
    /\ sender[s].step = "call" /\ Fails
    /\ IF final THEN Finish(s) /\ failed' = failed + 1 ELSE CallFails(s) /\ UNCHANGED failed
    /\ UNCHANGED <<counts, meta, receipts, row, started, history, lost, mixed>>
SaveMessage(s) ==
    /\ sender[s].step = "save"
    /\ Insert(sender[s].msg) /\ Finish(s)
    /\ UNCHANGED <<counts, meta, receipts, failed, started, failures, history, lost>>

\* A write throws, or the process stops. The core's request ends; the worker
\* swallows a failed save, and a stopped job is run again from the INCR.
Break(s) ==
    /\ sender[s].step \in {"log", "count", "expire", "save"} /\ Fails
    /\ IF sender[s].step = "expire" THEN JobFails(s) ELSE Finish(s)
    /\ lost' = IF sender[s].step \in {"log", "save"} THEN lost \cup {sender[s].msg} ELSE lost
    /\ slipped' = slipped \cup {IF sender[s].step = "expire" THEN "endless" ELSE "uncounted"}
    /\ UNCHANGED <<counts, meta, receipts, log, started, reminded, sent, mixed>>

-----------------------------------------------------------------------------
(* 24 hours after the key's end was set; Meta; the webhook.                 *)
DayPasses(k) ==
    /\ daily[k].ends /\ daily' = [daily EXCEPT ![k] = [n |-> 0, ends |-> FALSE]]
    /\ reminded' = IF k = "global" THEN reminded
                   ELSE {m \in reminded : \E s \in Core : sender[s].msg = m}
    /\ UNCHANGED <<total, sender, meta, receipts, log, started, failures, sent, slipped, lost, mixed>>

Later(status) == IF status = "SENT" THEN "DELIVERED" ELSE "READ"
MetaGets(m, status) ==
    /\ meta' = [meta EXCEPT ![m] = status]
    /\ receipts' = receipts \cup {<<m, status>>}
    /\ UNCHANGED <<counts, sender, log, started, failures, history, lost, mixed>>
MetaDelivers(m) == meta[m] \in {"SENT", "DELIVERED"} /\ MetaGets(m, Later(meta[m]))
\* The phone cannot be reached, or Meta gives the message up.
MetaFails(m) == meta[m] = "SENT" /\ MetaGets(m, "FAILED")

\* The webhook answers before it does anything, so that Meta does not send a
\* receipt again: one whose UPDATE throws, which is only logged, or whose
\* process stops, is lost.
Overtakes(m, status) == \E before \in {"SENT", "DELIVERED"} :
    <<m, before>> \in receipts /\ before # status /\ (before = "SENT" \/ status = "READ")
HandleStatusUpdate(m, status, applied) ==
    /\ <<m, status>> \in receipts /\ IF applied THEN Fine ELSE Fails
    /\ receipts' = receipts \ {<<m, status>>}
    /\ row' = IF applied /\ row[m] # None THEN [row EXCEPT ![m] = status] ELSE row
    /\ mixed' = IF ~applied \/ row[m] = None \/ Overtakes(m, status) THEN mixed \cup {m} ELSE mixed
    /\ UNCHANGED <<counts, sender, meta, failed, started, history, lost>>

Next ==
    \/ \E s \in Core : \/ CoreRefused(s) \/ CoreLog(s) \/ IncrementRateLimits(s)
                       \/ SendInvoice(s) \/ SendSalarySlip(s) \/ SendDirectText(s)
                       \/ SendReminder(s) \/ SendBulkReminders(s)
                       \/ \E m \in Msg, answered \in BOOLEAN : CoreCall(s, m, answered)
    \/ \E s \in Worker : \/ \E kind \in DOMAIN Attempts : \E runs \in Attempts[kind] : Take(s, kind, runs)
                         \/ Incr(s) \/ SetEnd(s) \/ Limit(s) \/ SaveMessage(s)
                         \/ \E m \in Msg, answered \in BOOLEAN :
                              OtpCall(s, m, answered) \/ InvoiceCall(s, m, answered) \/ ReminderCall(s, m, answered)
                         \/ \E final \in BOOLEAN : WorkerRefused(s, final)
    \/ \E s \in Senders : Break(s)
    \/ \E k \in Key : DayPasses(k)
    \/ \E m \in Msg : \/ MetaDelivers(m) \/ MetaFails(m)
                      \/ \E status \in {"SENT", "DELIVERED", "READ", "FAILED"}, applied \in BOOLEAN :
                           HandleStatusUpdate(m, status, applied)

Spec == Init /\ [][Next]_vars

-----------------------------------------------------------------------------
Statuses == {"SENT", "DELIVERED", "READ", "FAILED"}
TypeOK ==
    /\ daily \in [Key -> [n : Nat, ends : BOOLEAN]] /\ total \in Nat /\ failed \in Nat
    /\ \A s \in Senders : /\ sender[s].msg \in Msg \cup {None} /\ sender[s].count \in Nat
                          /\ sender[s].try \in 1 .. Tries /\ sender[s].runs \in Nat \ {0}
    /\ meta \in [Msg -> Statuses \cup {None}] /\ row \in [Msg -> Statuses \cup {None}]
    /\ receipts \subseteq Msg \X Statuses

\* The limits hold as far as the code holds them. The core sends the phone one
\* reminder in 24 hours, unless two overlapped or one went uncounted; it sends
\* the tenant's phones no more than the limit, and when requests overlap one for
\* each other request that may have passed its check; and a key has an end,
\* unless a worker stopped between INCR and EXPIRE: then no reminder of the core
\* ever passes again.
LimitsHold ==
    /\ Cardinality(reminded) <= 1 \/ slipped \cap {"overlap", "uncounted"} # {}
    /\ \/ sent <= TenantLimit
       \/ "together" \in slipped /\ sent <= TenantLimit + Cardinality(Core) - 1
       \/ "uncounted" \in slipped
    /\ \A k \in Key : daily[k].n > 0 =>
          \/ daily[k].ends \/ "endless" \in slipped
          \/ \E s \in Worker : sender[s].step = "expire" /\ KeyOf(s) = k

\* What Meta took is in the message log once its sender is done, unless the
\* answer or the write was lost; and when no receipt of it is on its way any
\* more, the log tells how far it got, or that it failed, unless a receipt came
\* before the row was there, overtook another or could not be applied.
LogTellsTruth ==
    \A m \in Accepted :
       /\ row[m] # None \/ m \in lost \/ \E s \in Senders : sender[s].msg = m
       /\ row[m] \in {None, meta[m]} \/ m \in mixed \/ \E p \in receipts : p[1] = m

\* getMessageStats, the counts of the log.
Rows(statuses) == Cardinality({m \in Msg : row[m] \in statuses})
Went == {"SENT", "DELIVERED", "READ"}
MessageStats == [sent |-> Rows(Went), delivered |-> Rows({"DELIVERED", "READ"}),
                 read |-> Rows({"READ"}), failed |-> Rows({"FAILED"}) + failed,
                 total |-> Rows(Statuses) + failed]

\* The figures of the page never claim more than Meta did: what it counts as
\* delivered or read Meta had delivered or shown, whatever comes late or not at
\* all, and in rest it counts every message Meta took as sent or as failed, but
\* for the lost and the mixed ones.
StatsTellTruth ==
    /\ MessageStats.sent <= Cardinality(Accepted)
    /\ MessageStats.delivered <= Cardinality({m \in Msg : meta[m] \in {"DELIVERED", "READ"}})
    /\ MessageStats.read <= Cardinality({m \in Msg : meta[m] = "READ"})
    /\ receipts = {} /\ lost \cup mixed = {} /\ (\A s \in Senders : sender[s] = Idle) =>
          /\ MessageStats.sent = Cardinality({m \in Msg : meta[m] \in Went})
          /\ MessageStats.read = Cardinality({m \in Msg : meta[m] = "READ"})
          /\ MessageStats.failed = Cardinality({m \in Msg : meta[m] = "FAILED"}) + failed

=============================================================================
