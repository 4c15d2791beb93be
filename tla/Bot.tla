--------------------------------- MODULE Bot ---------------------------------
(***************************************************************************)
(* The WhatsApp bot of one tenant: the webhook that answers 200 and goes   *)
(* on, the session in Redis that remembers who a phone is and what it was  *)
(* asked, the intents, and the commands.                                   *)
(*                                                                         *)
(* Messages of one phone are handled at once, each with its own copy of    *)
(* the session. Every customer phone has one invoice, named by the phone.  *)
(* Of a text only the keyword groups it contains are kept.                 *)
(***************************************************************************)
EXTENDS Integers, Sequences, SequencesExt

CONSTANTS
    Phone, Msg, None,
    Text,           \* texts: sets of keyword groups
    MaxMessages,    \* bound: messages received
    MaxFailures     \* bound: failing queries, Redis calls and processes, changes of a role

VARIABLES
    who,            \* "user", "customer" or "unknown": the database now
    session,        \* by phone: [role, state], or None
    msg,            \* by slot: a message in the making, or Idle
    shown,          \* by phone: entries of the lists and buttons in its chat
    open,           \* by phone: the newest question, not answered yet, or None
    got,            \* by phone: what it was told
    received, failures,
    been,           \* history: every role a phone has had
    crossed,        \* history: phones with overlapping messages, or a session or message lost
    missed          \* history: phones whose tap on the newest question went elsewhere

vars == <<who, session, msg, shown, open, got, received, failures, been, crossed, missed>>
history == <<been, crossed>>

Roles == {"user", "customer", "unknown"}
States == {"idle", "waiting_invoice_selection", "waiting_report_period"}
Copy == [role : Roles, state : States]

\* None is none of the things it stands beside, and "rep" is no phone.
BotAssumption == None \notin Phone \cup {"rep", "invoice", "report"} \cup Copy /\ "rep" \notin Phone

Idle == [phone |-> None, says |-> None, step |-> "done", copy |-> None]
Busy(p) == \E m \in Msg : msg[m].phone = p
In(m, step) == msg[m].step = step
Finish(m) == msg' = [msg EXCEPT ![m] = Idle]
Fine == failures' = failures
Fails == failures < MaxFailures /\ failures' = failures + 1
\* A tap on an entry of the newest question.
OnNewest(m) ==
    LET p == msg[m].phone
    IN  \/ msg[m].says.tap \in Phone /\ open[p] = "invoice"
        \/ msg[m].says.tap = "rep" /\ open[p] = "report"

Init ==
    /\ who \in [Phone -> Roles] /\ session = [p \in Phone |-> None]
    /\ msg = [m \in Msg |-> Idle]
    /\ shown = [p \in Phone |-> {}] /\ open = [p \in Phone |-> None]
    /\ got = [p \in Phone |-> {}]
    /\ received = 0 /\ failures = 0
    /\ been = [p \in Phone |-> {who[p]}] /\ crossed = {} /\ missed = {}

-----------------------------------------------------------------------------
(* parseIntent: the keyword groups are tried in this order.                 *)
Intents == <<"HELP", "INVOICE_LIST", "BALANCE_CHECK", "REPORT", "STAFF_SUMMARY", "EXPENSE_SUMMARY">>
ParseIntent(says, copy) ==
    IF says.tap # None THEN "INTERACTIVE_REPLY"
    ELSE IF says.text # {} THEN Intents[SelectInSeq(Intents, LAMBDA i : i \in says.text)]
    ELSE IF copy.state # "idle" THEN "INTERACTIVE_REPLY" ELSE "UNKNOWN"

\* The command a message goes to; a reply goes where the state waits for it.
Command(says, copy) ==
    LET intent == ParseIntent(says, copy)
    IN  IF intent # "INTERACTIVE_REPLY" THEN intent
        ELSE IF copy.state = "waiting_invoice_selection" THEN "INVOICE_LIST"
        ELSE IF copy.state = "waiting_report_period" THEN "REPORT" ELSE "HELP"

\* postWebhookHandler: 200 at once, then each message on its own. A tap is on
\* an entry of some list the phone was shown.
Receive(m, p, says) ==
    /\ msg[m] = Idle /\ received < MaxMessages
    /\ says.tap \in shown[p] \cup {None}
    /\ received' = received + 1
    /\ msg' = [msg EXCEPT ![m] = [phone |-> p, says |-> says, step |-> "session", copy |-> None]]
    /\ crossed' = IF Busy(p) THEN crossed \cup {p} ELSE crossed
    /\ UNCHANGED <<who, session, shown, open, got, failures, been, missed>>

\* getSession: the stored session, or the role as the database has it. Errors
\* are only logged: one of Redis is no session, one of the database a stranger.
GetSession(m, read) ==
    LET p == msg[m].phone
        found == IF read THEN session[p] ELSE None
    IN  /\ In(m, "session") /\ IF read THEN Fine ELSE Fails
        /\ msg' = [msg EXCEPT ![m].step = IF found = None THEN "resolve" ELSE "route", ![m].copy = found]
        /\ crossed' = IF read THEN crossed ELSE crossed \cup {p}
        /\ UNCHANGED <<who, session, shown, open, got, received, been, missed>>
ResolveTenantAndRole(m, role) ==
    /\ In(m, "resolve") /\ IF role = who[msg[m].phone] THEN Fine ELSE role = "unknown" /\ Fails
    /\ msg' = [msg EXCEPT ![m].step = "create", ![m].copy = [role |-> role, state |-> "idle"]]
    /\ UNCHANGED <<who, session, shown, open, got, received, history, missed>>
\* setSession: its error is only logged too.
Store(m, stored) ==
    /\ IF stored THEN Fine ELSE Fails
    /\ session' = IF stored THEN [session EXCEPT ![msg[m].phone] = msg[m].copy] ELSE session
CreateSession(m, stored) ==
    /\ In(m, "create") /\ Store(m, stored)
    /\ msg' = [msg EXCEPT ![m].step = "route"]
    /\ UNCHANGED <<who, shown, open, got, received, history, missed>>

-----------------------------------------------------------------------------
Tell(p, what) == got' = [got EXCEPT ![p] = @ \cup what]
\* A question changes the state: the copy is saved after the send.
Ask(m, entries, question, state) ==
    LET p == msg[m].phone
    IN  /\ shown' = [shown EXCEPT ![p] = @ \cup entries]
        /\ open' = [open EXCEPT ![p] = question]
        /\ got' = got
        /\ msg' = [msg EXCEPT ![m].step = "save", ![m].copy.state = state]
Answer(m, what) ==
    LET p == msg[m].phone
    IN  /\ Tell(p, {what}) /\ open' = [open EXCEPT ![p] = None] /\ shown' = shown
        /\ msg' = [msg EXCEPT ![m].step = "save", ![m].copy.state = "idle"]
\* An answer that leaves the session as it is.
Say(m, what) == Tell(msg[m].phone, {what}) /\ Finish(m) /\ UNCHANGED <<shown, open>>

Entitled(copy, p) == IF copy.role = "customer" THEN {p} ELSE Phone
InvoiceCommandAnyone(m) ==
    LET says == msg[m].says  copy == msg[m].copy
    IN  IF says.tap \in Phone /\ copy.state = "waiting_invoice_selection"
        THEN Answer(m, <<"pdf", says.tap>>)
        ELSE Ask(m, Phone, "invoice", "waiting_invoice_selection")
(* invoiceCommand: the chosen PDF while a choice is waited for, else the    *)
(* list. The id of the reply is looked up as it is.                         *)
InvoiceCommand(m) ==
    LET says == msg[m].says  copy == msg[m].copy
    IN  IF says.tap \in Phone /\ copy.state = "waiting_invoice_selection"
        THEN Answer(m, <<"pdf", says.tap>>)
        ELSE Ask(m, Entitled(copy, msg[m].phone), "invoice", "waiting_invoice_selection")
\* reportCommand: owners only; the period, then the AI service is asked.
ReportCommand(m) ==
    IF msg[m].copy.role = "customer" THEN Say(m, <<"refused">>)
    ELSE IF msg[m].says.tap = "rep" /\ msg[m].copy.state = "waiting_report_period"
         THEN Answer(m, <<"books">>)
    ELSE Ask(m, {"rep"}, "report", "waiting_report_period")
BalanceCommand(m) ==
    Say(m, IF msg[m].copy.role = "customer" THEN <<"dues", msg[m].phone>> ELSE <<"books">>)
\* handleStaffSummary, handleExpenseSummary.
Summary(m) == Say(m, IF msg[m].copy.role = "customer" THEN <<"refused">> ELSE <<"books">>)

\* handleIncomingMessage: logs the message, turns strangers away, routes.
Route(m) ==
    LET p == msg[m].phone  copy == msg[m].copy  command == Command(msg[m].says, copy)
    IN  /\ In(m, "route")
        /\ \/ copy.role = "unknown" /\ Say(m, <<"unregistered">>)
           \/ copy.role # "unknown" /\ command = "INVOICE_LIST" /\ InvoiceCommand(m)
           \/ copy.role # "unknown" /\ command = "REPORT" /\ ReportCommand(m)
           \/ copy.role # "unknown" /\ command = "BALANCE_CHECK" /\ BalanceCommand(m)
           \/ copy.role # "unknown" /\ command \in {"STAFF_SUMMARY", "EXPENSE_SUMMARY"} /\ Summary(m)
           \/ copy.role # "unknown" /\ command \in {"HELP", "UNKNOWN"} /\ Say(m, <<"help">>)
        /\ missed' = IF OnNewest(m) /\ open'[p] # None THEN missed \cup {p} ELSE missed
        /\ UNCHANGED <<who, session, received, failures, history>>
\* setSession: what the message made of its copy, whatever happened since.
SetSession(m, stored) ==
    /\ In(m, "save") /\ Store(m, stored) /\ Finish(m)
    /\ crossed' = IF stored THEN crossed ELSE crossed \cup {msg[m].phone}
    /\ UNCHANGED <<who, shown, open, got, received, been, missed>>

\* 30 minutes; a query that throws (caught, an apology, nothing saved); a
\* message of which no more comes, for the bot stopped, Meta could not be told
\* that it was read, or took what was sent and its answer was lost: the webhook
\* has answered, Meta does not send it again; a new role in the database:
\* registered, deactivated, made a customer.
Expire(p) ==
    /\ session[p] # None /\ session' = [session EXCEPT ![p] = None]
    /\ crossed' = crossed \cup {p}
    /\ UNCHANGED <<who, msg, shown, open, got, received, failures, been, missed>>
Fail(m) ==
    /\ In(m, "route") /\ Fails /\ Finish(m)
    /\ UNCHANGED <<who, session, shown, open, got, received, history, missed>>
Lose(m) ==
    LET p == msg[m].phone
    IN  /\ msg[m] # Idle /\ Fails /\ Finish(m)
        /\ crossed' = crossed \cup {p}
        /\ missed' = IF OnNewest(m) THEN missed \cup {p} ELSE missed
        /\ UNCHANGED <<who, session, shown, open, got, received, been>>
RoleChanges(p, role) ==
    /\ Fails /\ role # who[p]
    /\ who' = [who EXCEPT ![p] = role] /\ been' = [been EXCEPT ![p] = @ \cup {role}]
    /\ UNCHANGED <<session, msg, shown, open, got, received, crossed, missed>>

Next ==
    \/ \E m \in Msg :
         \/ \E read \in BOOLEAN : GetSession(m, read)
         \/ \E role \in Roles : ResolveTenantAndRole(m, role)
         \/ \E stored \in BOOLEAN : CreateSession(m, stored) \/ SetSession(m, stored)
         \/ Route(m) \/ Fail(m) \/ Lose(m)
         \/ \E p \in Phone, tap \in Phone \cup {"rep"} : Receive(m, p, [tap |-> tap, text |-> {}])
         \/ \E p \in Phone, text \in Text : Receive(m, p, [tap |-> None, text |-> text])
    \/ \E p \in Phone : Expire(p) \/ \E role \in Roles : RoleChanges(p, role)

Spec == Init /\ [][Next]_vars

-----------------------------------------------------------------------------
TypeOK ==
    /\ \A p \in Phone : /\ session[p] # None => session[p].role \in Roles /\ session[p].state \in States
                        /\ open[p] \in {None, "invoice", "report"}
    /\ \A m \in Msg : msg[m].copy # None => msg[m].copy.state \in States

\* The books (reports, balances, summaries) and other people's invoices go
\* only to a phone that is or was a user's: sessions outlive a deactivation,
\* but no crossing of messages makes a customer an owner.
BooksForOwnersOnly ==
    \A p \in Phone :
       "user" \notin been[p] =>
          <<"books">> \notin got[p] /\ \A q \in Phone \ {p} : <<"pdf", q>> \notin got[p]

\* A tap on the newest question is answered, or met with an apology that leaves
\* the question open, unless messages of the phone overlapped, its session
\* expired, was not read or not saved, or a message of it was lost. A session
\* that could not be created, and a phone taken for a stranger, do no such harm.
TapIsAnswered == missed \subseteq crossed
=============================================================================
