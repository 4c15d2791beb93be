------------------------------ MODULE Messaging ------------------------------
(***************************************************************************)
(* What goes out to customers and users: an invoice's document and its     *)
(* links, the WhatsApp messages sent and counted, the bot, and the index   *)
(* and the conversations of the assistant. The four share no state: a step *)
(* is a step of one of them.                                               *)
(***************************************************************************)
EXTENDS Integers

CONSTANTS
    None, Worker, MaxFailures,
    Request, MaxRequests,                                   \* Documents
    Core, Msg, DailyLimit, TenantLimit, Before, Tries,      \* WhatsApp
    Attempts, MaxStarted,
    Phone, Slot, Text, MaxMessages,                         \* Bot
    Record, Question, Conversation, Client, Task, Table, Kept,  \* Assistant
    MaxChanges, MaxAsked, MaxTasks

VARIABLES
    status, version, items, pdfUrl, doc, cached, pdfJobs, job, chained, pdfReq,
    pdfStarted, pdfFailures, crossed,
    daily, total, sender, meta, receipts, row, failed, sendStarted, sendFailures,
    reminded, sent, slipped, lost, mixed,
    who, session, msg, shown, open, got, received, botFailures, been, tangled, missed,
    books, indexed, jobs, debounced, task, answers, talk, client, changes, asked, tasks,
    lastRead, overlapped, littered, turns, misplaced, aiFailures

docVars == <<status, version, items, pdfUrl, doc, cached, pdfJobs, job, chained, pdfReq,
             pdfStarted, pdfFailures, crossed>>
sendVars == <<daily, total, sender, meta, receipts, row, failed, sendStarted, sendFailures,
              reminded, sent, slipped, lost, mixed>>
botVars == <<who, session, msg, shown, open, got, received, botFailures, been, tangled, missed>>
assistantVars == <<books, indexed, jobs, debounced, task, answers, talk, client, changes,
                   asked, tasks, lastRead, overlapped, littered, turns, misplaced, aiFailures>>
vars == <<docVars, sendVars, botVars, assistantVars>>

D == INSTANCE Documents WITH req <- pdfReq, started <- pdfStarted, failures <- pdfFailures
W == INSTANCE WhatsApp WITH started <- sendStarted, failures <- sendFailures
B == INSTANCE Bot WITH Msg <- Slot, failures <- botFailures, crossed <- tangled
A == INSTANCE Assistant WITH cache <- answers, tangled <- misplaced, failures <- aiFailures

ASSUME MessagingAssumption ==
    D!DocumentsAssumption /\ W!WhatsAppAssumption /\ B!BotAssumption /\ A!AssistantAssumption

Init == D!Init /\ W!Init /\ B!Init /\ A!Init

DocumentStep == D!Next /\ UNCHANGED <<sendVars, botVars, assistantVars>>
SendStep == W!Next /\ UNCHANGED <<docVars, botVars, assistantVars>>
BotStep == B!Next /\ UNCHANGED <<docVars, sendVars, assistantVars>>
AssistantStep == A!Next /\ UNCHANGED <<docVars, sendVars, botVars>>
Next == DocumentStep \/ SendStep \/ BotStep \/ AssistantStep

Spec == Init /\ [][Next]_vars

-----------------------------------------------------------------------------
\* Documents: a link kept in Redis leads to the invoice as it stands, and the
\* invoice is announced once.
LinksAreCurrent == D!TypeOK /\ D!CachedLinkIsCurrent /\ D!ChainedOnce
\* WhatsApp: the limits hold as far as the code holds them, and the log and its
\* figures tell what became of the messages.
MessagesAreCounted == W!TypeOK /\ W!LimitsHold /\ W!LogTellsTruth /\ W!StatsTellTruth
\* The bot shows the books to owners only, and answers taps.
BotIsDiscreet == B!TypeOK /\ B!BooksForOwnersOnly /\ B!TapIsAnswered
\* Assistant: the index is one reading of the books, and a conversation keeps
\* its turns.
AssistantRemembers == A!TypeOK /\ A!IndexIsOneReading /\ A!ConversationKeepsTurns
=============================================================================
