# TLA+ models of BizSaathi

BizSaathi is a multi-tenant business suite for small businesses: a Next.js
frontend, a NestJS core API, a BullMQ worker, a Go WebSocket hub, a Go CRM
service, a WhatsApp bot and a Python AI service, over one PostgreSQL database
and one Redis. The models below are of the parts where the order of events
matters: handlers that read a row, decide, and write it later; counters and
caches in Redis beside rows in the database; jobs enqueued after a write; and
goroutines around bounded channels.

Paths are relative to the root of the repository.

## The system

| Component | State | Operations | What is hard | What makes it correct |
|---|---|---|---|---|
| Invoices (`backend/src/invoice`, `worker-service/src/processors/invoice.processor.ts`) | Invoice, InvoiceItem and Payment rows; jobs | create, update, send, addPayment, remove; overdue sweep | every handler checks a row it read earlier and writes `where: { id }`; the worker writes the same rows; several statements per handler | money, status and payments agree; issued invoices do not change; one announcement; reminders are not lost |
| One-time passwords (`backend/src/auth`) | OtpVerification rows, `otp_rate_limit:{phone}` in Redis, User row | sendOtp, verifyOtp | INCR and EXPIRE, check and increment, find and mark are separate calls | limits hold, a code signs in once, one account per phone |
| Sessions (`backend/src/auth`, `frontend/src/lib/api`, `components/providers`, `store`) | RefreshToken rows, `session:{userId}`, the browser's store | generateTokens, refreshToken, logout; interceptor, AuthProvider | overlapping refreshes, lost answers, closures over old tokens, sign-out during a refresh | a signed-in browser has a usable token and is signed out only when it has expired |
| Realtime hub (`backend/realtime-service`) | rooms, three channels, connection counter, clients with two goroutines | Register, Unregister, Broadcast*, Close, shutdown | random select over channels, Close from two goroutines, full buffers | rooms and counter match the clients; no event of another tenant |
| Event path (core and worker publishers, Redis Pub/Sub, subscriber) | channels, subscription | publish, publish in bulk, subscribe, reconnect | events lost while disconnected, reordered by a goroutine each | an event reaches sockets it is addressed to, and no others |
| WebSocket client (`frontend/src/hooks/use-websocket.ts`, `store/ws.store.ts`) | sockets, reconnect timers, event list | connect, onopen, onclose, effect per token | a close schedules a reconnect with the token of its closure | one socket at a time, of the tenant signed in; a signed-in page gets one |
| Invoice numbering (`invoice-number.service.ts`) | `invoice_seq:{tenant}:{FY}` in Redis | next | sequence in Redis, unique key in the database | a number is refused only after Redis was lost |
| Read caches (dashboard, staff, customers, CRM lists, PDF and slip links) and reports | Redis keys with a TTL | fill on a miss, delete on a write | a reader stores what it read before a writer's delete | what is cached is true, or about to be dropped |
| GST and payroll arithmetic | none | calculate, words | rounding, boundaries, two copies of a formula | the copies agree with each other and with a definition |
| Job queues (`backend/src/queue`, `worker-service`) | BullMQ jobs, repeatable jobs | add, process, retry, stall, shut down, prune; admin endpoints | at-least-once, with retries inside and outside a job; starts of several processes | effects are limited by the attempts; every cron job is there |
| Payroll (`backend/src/payroll`) | Payroll rows, salary slips, their links | process, updateOne, payAll, paySingle, getSlip; slip job | processing and editing rows that are being paid; two drawers of one slip | paid pay is frozen, slips show what was paid, nobody leaves unpaid |
| Staff, attendance, leave | Staff, Attendance, Leave rows | mark, apply, approve, reject, terminate | decisions on rows read earlier; leave written over attendance | one decision; the calendar has what was granted and charged |
| WhatsApp sending | `wa:rate:*` counters, WhatsAppMessage rows | five senders, worker job, status webhook | check and increment of shared counters, lost answers, receipts out of order | limits hold up to a known slack; the log tells what happened |
| WhatsApp bot | session in Redis, conversation state | message, command, answer | two messages with a copy of the session each; cached roles | the books go to owners only; a tap is answered |
| CRM (`backend/crm-service`) | contacts, leads, pipelines, activities, cached lists | create, move, win, lose, update, delete | check-then-act over rows, errors thrown away, cache keys | open leads have contacts; lead, activity and board agree |
| Expenses, receipts, uploads | Expense and FileUpload rows, stored objects | upload, claim, replace, remove; nightly sweep | object and row change separately; the sweep deletes what it selected earlier | receipts are kept; no object without a row |
| Customers, products, categories | rows, cached customer list | create, update, remove | removal after a count of what refers to it | pending invoices have a customer |
| AI service | vector index, caches, conversations | index, rebuild, ask, forget | clear and refill beside other tasks; a conversation read, answered, and written back | the index is one reading; a conversation keeps its turns |
| Invoice pages (`frontend/src/app/(dashboard)/invoices`) | query cache, mounted page, form, requests | open, edit, send, pay, delete; live events | answers late, failed, overtaken; other users | an own write shows; what is offered is granted |
| Sign-in and onboarding pages (`frontend/src/app/(auth)`, `components/auth`, `components/providers`) | store, routes pushed, forms, requests | ask for a code, enter it, log out, reload, the wizard of a new business | three places push routes by three readings of one store; answers of an earlier session | everybody rests on the page that is theirs, as themselves |
| Gateway, other pages, operations | – | – | configuration, presentation | not modelled |

Components call each other through HTTP (frontend to core through Kong),
through BullMQ queues in Redis (core to worker, worker to worker), through
Redis Pub/Sub (core and worker to hub) and through shared rows (core and
worker). There is no transaction across any two of these, and few inside the
database: most handlers are a chain of awaited calls, between which any other
handler runs.

## The models

| Module | What it models | Run |
|---|---|---|
| `Invoicing`, `InvoicingProofs` | the invoice handlers of the core API and the worker's overdue sweep over the same rows | `invoicing`, `overpayment` |
| `Ledger` | the abstract specification `Invoicing` implements: every operation one step that keeps what its guards promise | `invoicing` |
| `Sessions`, `SessionsProofs` | refresh tokens on the server; interceptor, `AuthProvider` and store in the browser | `sessions`, `refresh_settles` |
| `Otp`, `OtpProofs` | `sendOtp` and `verifyOtp` | `otp` |
| `Hub` | the WebSocket hub, its channels, the pumps of its clients, shutdown | `hub`, `hub_close_twice`, `live` |
| `Live` | publishers, Redis Pub/Sub, subscriber, and the sockets and timers of one browser | `live` |
| `Payroll` | one month's payrolls, their slips, salary changes, terminations | `office` |
| `Leave` | one staff member's calendar under leave and attendance | `office` |
| `Crm` | contacts, leads, pipelines, activities and the cached lists | `office` |
| `Catalog` | customers and categories against the rows that refer to them | `office` |
| `Receipts` | uploads, receipts of expenses, the sweep of temporary files | `office` |
| `PayrollMath`, `Gst`, `Figures` | salaries, tax, GST and amounts in words, and what they are checked against | `office` |
| `Documents` | the PDF of an invoice, drawn by three parts of the system, and its links | `messaging` |
| `WhatsApp` | messages to one phone from the core and the worker, Meta, receipts | `messaging` |
| `Bot` | conversations of the WhatsApp bot | `messaging` |
| `Registers` | numbering, the dashboard and staff caches, the reports | `platform` |
| `Sums` | lemmas about sums over finite sets, for the proofs | – |
| `Jobs` | a BullMQ queue with its workers and admin endpoints; the cron set-up of a process | `platform` |
| `Assistant` | index, cached answers and conversations of the AI service | `messaging` |
| `Pages` | the invoice pages over the query cache of one tab | `platform`, `edit_starts_fresh` |
| `Signin` | login, onboarding, the layouts' redirects and `AuthProvider` in one tab | `platform` |
| `Office`, `OfficeProofs` | `Payroll`, `Leave`, `Crm`, `Catalog` and `Receipts` side by side | `office` |
| `Messaging`, `MessagingProofs` | `Documents`, `WhatsApp`, `Bot` and `Assistant` side by side | `messaging` |
| `Platform`, `PlatformProofs` | `Registers`, `Jobs`, `Pages` and `Signin` side by side | `platform`, `edit_starts_fresh` |
| `Connection`, `ConnectionProofs` | `Hub` and `Live` side by side | `live` |

`Office`, `Messaging`, `Platform` and `Connection` compose modules that share no
state: a step of theirs is a step of one part that leaves the variables of the
others alone. What a run checks of them is defined there, as a conjunction over
the parts, and proved there. Where components do interact, the interaction is
inside one module (the core and the worker over invoices in `Invoicing`, over
counters in `WhatsApp`, over PDFs in `Documents`; staff and payroll in
`Payroll`; leave and attendance in `Leave`; pages and API in `Pages`;
publishers, Redis and browser in `Live`).

The `MC...` modules give the constants their values. `MCOffice`, `MCMessaging`,
`MCPlatform` and `MCLive` extend the composing module of their name (`MCLive`
extends `Connection`) and put its parts at *desks*: the variable `desk` is chosen
initially, only the part at that desk takes steps, and the others keep their
initial state, so that a run is the union of its desks' state spaces and not
their product. Every behaviour of a desk is one of the composing module, which
is what the theorems are about.

An operator that begins "Mutant:", or whose name adds to that of the action
below it (`DeleteCheckNever` before `DeleteCheck`), is a plausible bug of the
code: put in the place of the action it is written before, it breaks the
property it is paired with in `PROJECT.json`.

Two conventions hold everywhere. A handler is taken apart at its awaited calls,
and what it read is kept in its own record until it writes. And where the code
makes a promise only while nothing overlaps or fails, the module has a *history
variable* that says so (`contended`, `disturbed`, `raced`, `late`, `contested`,
`crossed`, `tangled`, `slipped`, `missed`, `misread`, `unreminded`, `undrawn`,
`untold`, ...), set by the very step that makes the exception, never by a step
that merely comes near it. No guard reads a history variable.

A third: a call that the code lets fail without a word (a discarded error, a
`catch` that logs, a result nobody looks at) is an action with a parameter
that says whether the call did its work, and a failure counts against
`MaxFailures` where the module has such a bound.

### Invoicing

A handler in `invoice.service.ts` is a chain of awaited database calls, and
the event loop runs any other handler between two of them. So each handler is
taken apart at its awaits: a `...Read` action remembers the row it saw in
`request[r]`, and the following actions write what was computed from that
memory, by id and without a condition, as the code does. What Prisma does in one
statement or one `$transaction` is one action: `PayWrite` inserts the Payment
and updates the invoice together. `Create` is one action too: nothing else can
see the invoice before it is there.

- `update`: `UpdateRead` (DRAFT check), `UpdateDeleteItems`, `UpdateWrite`.
- `send`: `SendRead`, `SendWrite`, `SendNotify`.
- `addPayment`: `PayRead` (PAID and overpayment checks), `PayWrite`, `PayNotify`.
- `remove`: `RemoveRead`, `RemoveWrite`.
- overdue sweep (`invoice.processor.ts`): `SweepSelect`, then for every
  selected invoice `SweepMark` and `SweepRemind`, which enqueues the reminder
  only if the sweep has selected a phone number with it.
- `RequestFail` and `SweepFail` end a handler between any two calls: a process
  that dies, or a call that throws. A sweep that fails starts over from its
  SELECT, both under `withRetry` and at the next cron tick.

`contended` is a history variable: the invoices that two handlers held at the
same time. Most of what one would like to say of an invoice is only true while
that does not happen, so the properties say "not contended"; the `overpayment`
run shows what happens when it does. `unreminded` is history too: the overdue
invoices that are owed no reminder, because the customer has no phone or the
sweep failed just between the mark and the reminder; the next SELECT skips what
is marked, so that nothing makes up for either.

`Ledger` says the same as one abstract specification: stages, totals and sums of
payments under operations of one step each, that keep what the guards of the
code promise. `ImplementsLedger` is `Ledger`'s `Spec` under the mapping
`Account`, which reads stage, total and payments off the rows and calls an
invoice *disputed* from the step on that makes it contended. A disputed invoice
is outside the promise and never comes back into it. That the read and the write
of a handler are two steps, that a failure may come between them, and that the
items are deleted before they are written again, is invisible in the ledger.

Money is an integer. Items are abstracted to the totals they add up to; what a
line of an invoice costs is the business of `Gst` and `Figures`.

### Sessions

One device, or several, with a store (`auth.store.ts`), calls in flight
(`client.ts`), and the `AuthProvider` effect (`due`). On the server
`row[t]` is the RefreshToken row, `valid` the access tokens that have not
expired, `session` the key `session:{userId}`. A pair of tokens is one model
value. Actions follow the awaits: the call is `sent`, `Accept`ed or `Reject`ed
with 401; after a 401 the interceptor's refresh goes through `RefreshRead`,
`RefreshRevoke`, `CreateToken`, `Remember` and `Answer`; `logout` through
`LogoutRead`, `LogoutRevoke`, `LogoutDel`. `Verify` captures the access token of
its closure, as the effect does. `Drop` loses a request or its answer at any
step. `disturbed` is the history variable: devices where refreshes or sign-outs
overlapped, or a message was lost.

### Otp

One phone. `counter`/`hasTTL` are `otp_rate_limit:{phone}`; `otps` the rows, in
the order they were made; `request[r]` is where a handler is and the row it
works on. INCR and EXPIRE, find and count, find and mark are separate actions
(`Increment`/`Expire`, `Find`/`CountAttempt`, `Find`/`MarkVerified`), because
they are separate awaited calls. The user enters a code that was sent or a wrong
one. `contended` are the rows that two verifications were about to accept at the
same time.

### Hub

`registerQ`, `unregisterQ` and `broadcastQ` are the channels of `hub.go`, with
their capacities. The handlers of the Hub goroutine hold its lock throughout and
are one action each. `ServeHTTP` is `Register`, `StartPumps`, `Greet`, `Return`;
`Return` cancels the request context, which is what net/http does when a handler
returns. `Client.Close` is taken apart (`CloseCheck`, `CloseDone`,
`Unregister`), since both pumps call it. `Publish` is what the subscriber does
with a message; `Cancel`, `Notice` and `HubStops` are the steps of `main` after
a signal. `overtaken` and `undercount` are history: clients whose unregister was
handled before their register, and decrements for a client that was in no room.

### Live

The way of an event, and of the page that waits for it. Three publishers differ
in what they put around the payload: `PublishEvent` (core) and `PublishBulk`
(the realtime service's endpoint) name the tenant, `NotificationJob` (worker)
does not, so `ProcessPubSubMessage` drops what it publishes. Redis Pub/Sub keeps
nothing: an event published between `SubscriptionBreaks` and `Resubscribe` is
lost. The subscriber starts a goroutine per message, so messages are processed in
any order.

On the page, `socket`, `wsRef` (`ref`), the reconnect timeouts (`timer`) and the
newest of them (`timerRef`) are kept apart, because the code is about their
drifting apart: `OnClose` makes a timeout with the token of its closure,
`NewToken` and `SignOut` run the effect's cleanup, which clears only the newest
timeout and closes only `ref`. `doubled` is history: a timeout fired while
another socket was connecting.

### Payroll

One month. A row of the Payroll table is [status, days, bonus, net, url]; `slip`
is the net pay printed in the stored PDF. `process` is `ProcessRead` (the staff
and salaries), then per staff member `ProcessLookup`, `ProcessInsert` and
`QueueSlip`; `updateOne` is `EditRead`/`EditWrite`; `payAll` and `paySingle` are
`PayAllRead`/`PaySingleRead`, `PayWrite`, and a `PayQueue` for each slip;
`getSlip` is `GetSlip`/`StoreSlip`; the worker's job `SlipRead`/`SlipWrite`/
`SlipFail`, which puts the job back until its `Attempts` are used up (`Tries`
are those left to it); `Staff.remove` is `TerminateRead`/`TerminateWrite`. The
amounts come from `PayrollMath!Calculate` with PF, ESIC and tax switched off,
which is enough to tell one computation from another. `raced`: edited or drawn
while being paid; `late`: terminated while a payroll run that had them on its
list was in flight; `undrawn`: a slip job gave up, and no worker has drawn the
slip since. `Summary` is `getSummary`, which shows a month without payrolls as
PAID; `PaidMonthIsSettled` says that the figures of a month shown as PAID stay.

### Leave

`attendance` is the calendar, written by `Mark`, by `BulkMark` and by
`ApproveWrite`, whose one transaction sets the leave and a row for each of its
days but Sundays. `BulkMark` takes the rows of one day one after the other and
notes the error of each; a query that fails ends the transaction, and with it
the rows already reported as marked. `Summary` is `getSummary` over all days.
Apply, approve and reject read first and write later. `markedBy` (the leave that
put the row there), `since` (days marked PRESENT since the application was
checked) and `contested` (two decisions in flight) are history.

### Crm

The Go handlers are `check`, `write`, `note` (the activity) and `drop` (the
cached lists) over `contact`, `lead` and `pipelines`. The error of a check is
thrown away (`exists, _ :=`), which reads as "no": `PhoneCheck` and
`DeleteCheck` take it as a parameter. The key of a cached list names its status
filter and no other, so `cache` keeps beside the answer what was asked.
`invalidateCache` throws away the errors of KEYS and DEL: `Drop` may fail, and
what it should have deleted is then `stale` until it expires. Four other
history variables name the exceptions: `late`, `muddled`, `adrift`, `reseeded`.

### Catalog

Customers, invoices that refer to them, expenses that refer to categories.
`RemoveRead`, `RemoveCount` and `RemoveWrite` are the three calls of
`CustomerService.remove`; `InvoiceRead`/`InvoiceInsert` are what of
`InvoiceService.create` can come between. `InvoiceMoves` is what becomes of an
invoice: handlers and the sweep write by id over whatever another has written,
so that any status but DRAFT can follow any. `late` are invoices made while their
customer was leaving, `revived` those that were paid or cancelled and became
pending again. `DropLists` comes after the write and may fail, which leaves the
cached list `stale`.

### Receipts

A file is an object in storage and a FileUpload row, written in this order and
deleted in this order by `DeleteObject`, `DeleteRow`. `Create` and `UpdateWrite`
name the key, `Claim` makes the upload permanent, `SweepSelect`/`SweepNext` is
the nightly clean-up, which deletes what it selected. `severed` are the keys an
expense may lose: those that were gone, named by another expense, or that some
request was `Bound` to delete when an expense named them, and those deleted as a
file, expired or broken off before they were claimed. A request is bound to
delete what it is deleting, what the sweep has selected, and what an update has
read as the receipt it is to replace. `littered` are the keys where a request
died between object and row.

### PayrollMath, Gst, Figures

Operators over paise: a salary as the core and as the worker compute it, the
income tax by walking the slabs, an invoice line as the server charges it and as
the form shows it, an amount as the places of its words. `Figures` compares each
with a second computation, a copy in the code or a definition of its own, in
states that are all initial: the run tabulates boundary values.

### Documents

One invoice's PDF under one storage key, drawn by the worker's job (`JobRead`
.. `JobDone`), by a download (`Download`, `Store`, `CacheLink`, `WriteUrl`) and
by a WhatsApp sending (`WhatsApp`, `Store`, `WriteUrl`, `SendTemplate`), while
`EditRead`/`EditDelete`/`EditWrite` change what it should show. A version stands
for everything an edit writes. `crossed` is history: an edit written during a
draw or after the send.

### WhatsApp

One phone and one calendar day. `daily` are the keys `<tenant>:<phone>:daily`,
which the core SETs (to 1, whatever the worker had counted) and the worker
INCRs; jobs for an OTP name no tenant and count in, and are logged under,
`global`. `total` is the core's counter of the tenant and `sent` how many
messages of the core Meta took today; both start at how many went to other
phones before (`Before`). The core's senders are `CheckRateLimits`, `CoreCall`
or `CoreRefused`, `CoreLog`, `IncrementRateLimits`; the worker's job is
`OtpCall`, `InvoiceCall` or `ReminderCall` (who queued it decides how many runs
it has: `Attempts`), `Incr`, `SetEnd`, `Limit` on the count that INCR returned,
`WorkerCall` or `WorkerRefused` under two layers of retries, `SaveMessage`.
`failed` are the rows of messages that were given up, and `MessageStats` what
the page adds up. Meta moves a message from SENT to READ, or gives it up as
FAILED, and owes a receipt for each stage. The webhook answers 200 before it has
done anything, so that Meta never repeats a receipt that could not be written:
`HandleStatusUpdate` takes them in any order and applies them or not. `slipped`
says why a limit may have been passed: two requests of the core were past their
checks together ("together"), two reminders overlapped ("overlap"), a sender
stopped before it counted ("uncounted") or a worker between INCR and EXPIRE
("endless"). `lost` says whose answer or row was lost, `mixed` whose receipts
came too early, out of order, or could not be applied.

### Bot

A message is `Receive`, `GetSession` (with `ResolveTenantAndRole` and
`CreateSession` on a miss), `Route` and `SetSession`, with a copy of the session
from the second to the last. Redis may fail at either end: a session that cannot
be read is taken for none and made anew, one that cannot be written keeps what
it was; and a lookup the database does not answer makes the phone a stranger's
for as long as the session lives. `Fail` and `Lose` end a message half way, the
latter with the answer of Meta to what the phone was shown. Of a text only the
keyword groups it contains are kept, so `ParseIntent` is the order in which they
are tried. `shown` are the entries one can tap, `open` the newest question,
`got` what the phone was told. History are `crossed` (phones whose messages
overlapped, or whose session or message was lost), `missed`, and `been`, the
roles a phone has had.

### Registers

`seq` are the Redis counters, by financial year; `TakeNumber` is the INCR,
`InsertInvoice`/`InsertStaff` the insert that the unique index may refuse.
`update`, `send`, `remove`, `addPayment` and the mark of the sweep are two
steps: `LookUp` reads the row and passes the check of its status, and `Edit`,
`Send`, `Cancel`, `Pay` or `MarkOverdue` writes by id, `Pay` the sum worked out
from the row as it was read. A write on a reading that no longer held makes its
invoice `misread`: two payments that overlap lose one, a sweep takes a paid
invoice to OVERDUE, a send brings a cancelled one back. The writes are
followed by `Drop` (`Loudly`), except `Send`, `MarkOverdue` and `MarkPresent`,
for which the code drops nothing (`Quietly`). `Fail` ends a request where it is,
so that a drop may never come. `Read`/`Fill` are a reader's miss; the two queries
of `getDashboard` are read as one. `RedisLost` is the eviction the runbook allows
for. The reports are operators, `Gstr1` among them: the rows of the return,
which only an overdue invoice leaves.

### Jobs

BullMQ as the code uses it: `Begin`, `MailAccepted` and then `Completed` (the
processor returns, and BullMQ marks the job done), `MailFails` (the processor's
own retries around one call), `BackoffEnds`, `Killed` (a stalled job runs once
more, whether its mail was under way or answered), `Shutdown`/`Restart`, and the
admin endpoints `RetryJob`, `GetFailed`/ `RetryNext`, `DeleteJob`, `PruneJobs`.
`setupRepeatableJobs` of a starting worker is `ListCrons`, `RemoveCron`,
`Pruned`, `AddCron`, `SetUp`. `untold` is history: by job, the mails that went
out and of which the queue never learnt, since their answer was lost or the
worker died before the job was done.

### Assistant

`books` are versions of records, each in one of four tables. An index task is
`Clear`, four times `ReadTable` (invoices, expenses, customers, leads, each with
the rows of its moment), `Upsert`. `Clear` may fail, since `delete_tenant_data`
answers an error with FALSE and nobody looks; the query of the leads may fail,
and they are left out then; any other exception ends the task (`IndexingFails`).
A record stands for the id of an indexed text; that a deletion shifts the
positions by which expenses and leads are named is not modelled. A question is
`Ask`, `ReadHistory`, `BuildContext`, `SaveTurn`, `StoreAnswer`, a streamed one
`Stream`, `BuildContext`, `ReadHistory`, `SaveTurn`. The Redis client turns every
error into "nothing there" or "not stored", which nobody looks at either, and
`clear_conversation` reports a success it has not had (`Forget`). Only the
creation and the payment of an invoice and the writes of expenses queue an index
job. `AiJob` calls the index endpoint with the headers the worker sends, and
`JWTAuthMiddleware` (`Admits`) wants a bearer token that is not among them: in
the model as in the code the job is refused and counts as done. `lastRead`,
`overlapped`, `littered` (a task went on though its clearing had failed),
`turns` and `tangled` (conversations two requests used at once, or Redis failed
in) are history.

### Pages

`server` is the row, `query` the react-query entry of an invoice, `page` what is
mounted, `form` the data the edit form was filled from, `request` the mutations
in flight. `ApiReads` and `Loaded` are the two ends of a fetch; a fetch in
flight is joined, or cancelled by an invalidation when the entry has data
(`Fetching`). `Offers` are the buttons per status, `Allowed` the guards of the
API. `OthersWrite` is another user. That the payment dialog is open is known to
the page, not to the form in it: `LoadFails` takes the form away and keeps the
dialog, which is there again after the next fetch. A mutation goes on when what
it was asked from is gone, so `request` keeps whether its form is still there,
its page only, or neither (`at`): a form or button that comes back knows nothing
of it and can be clicked again, and a payment fetches the invoice anew even when
its page was left. `opened`, `wrote`, `missed`, `puzzled` are history.

### Signin

One tab. `store` is the auth store reduced to whose tokens it holds and whether
a business is known; `going` the route pushed last; `seen` what the effect of
the mounted layout saw (`LayoutEffect` redirects when the two flags changed);
`otp` and `wizard` the state of the two forms; `call` the requests under way,
each with a mark whether the form that made it is still there. `Arrive` mounts
the page pushed last and forgets the forms left behind. `Settled` gates all but
the API's steps: React runs the effects of a change before it takes the next
event. `ForcedOut` is the interceptor after a 401 whose refresh failed: the
store is emptied and `/login` loaded anew. The API is external and answers as
the pages expect: they send `code` where the core's `VerifyOtpDto` wants `otp`,
and post to `/tenants/onboard` where the core has `auth/business/setup`.
`crossed` is history: an answer that belongs to an earlier session changed the
store; `moved` (the number was changed while its code was verified, or the code
of a form left before is accepted after another sign-in) and `slipped` are the
forms' own. The marketing page (`app/page.tsx`) is left out.

## The runs

| Run | Question | Bounds |
|---|---|---|
| `invoicing` | What stays true of money, items, announcements and reminders while two API calls and a sweep overlap and one of them may fail; is a due invoice marked in the end; is what does not overlap a ledger of one-step operations | 1 invoice, 2 handlers, 1 sweep, totals 0, 2, 3, amounts 1 and 2, 2 payments, 1 failure |
| `overpayment` | Do two payments stay within the total (violated) | as above, 4 payments, no failure |
| `sessions` | What are a browser's tokens worth while calls, refreshes and sign-outs go on | 1 device, 2 calls, 3 token pairs, 2 expiries, 1 loss |
| `refresh_settles` | Does the browser come to rest after a refresh (violated) | 1 expiry, 5 token pairs |
| `otp` | Limits, single use, one account, and the end of a window, while two requests overlap and one may die | 2 requests, 2 sends, 2 attempts, 1 window, 1 failure |
| `hub` | Rooms, counter and addressing with full channels and buffers | 2 clients of a tenant, another tenant's events, capacities 1, 1 event, ping or signal |
| `hub_close_twice` | Can both pumps close a client (violated) | 1 client |
| `office` | Seven desks: pay and slips; slips whose jobs give up; leave and attendance; the CRM; customers and categories; receipts and uploads; the sums worked out twice | 2 overlapping requests at each desk; see below |
| `messaging` | Six desks: an invoice's PDF and links; messages of the core alone, and of core and worker under shared limits; the bot; the assistant's index; its conversations | 2 requests and 1 worker, 1 failure; 2 messages, 2 phones; see below |
| `platform` | Six desks: numbers, caches and reports of invoices; those of staff; a job queue; the cron set-up; the invoice pages; the way in | see below |
| `edit_starts_fresh` | Does an edit start from fresh data (violated) | the desk of the pages |
| `live` | Three desks under fairness: the page with its sockets and timers; the page and the bus; the hub with one client | 3 sockets, 2 timers, 3 tokens of 2 tenants, 3 turns; 2 events, 2 turns; 1 client, 2 events, pings or signals |

The runs with desks have 836,000 (`office`), 820,000 (`messaging`), 1,034,000
(`platform`) and 59,000 (`live`) distinct states. Their properties are
conjunctions over the modules they are made of, defined in `Office`,
`Messaging`, `Platform` and `Connection`: `PeopleAreRight` is `PaidSlipIsTrue`
and `LeaversArePaid` of `Payroll`, `CalendarIsCharged`,
`OnlyGrantedLeaveIsMarked` and `SummaryAgrees` of `Leave`; `CustomersAreRight`
is `OpenLeadHasContact`, `LeadIsWhereItSays`, `OneDefaultPipeline` and
`CachedListIsTrue` of `Crm`, `PendingHasCustomer` and `CustomerListIsTrue` of
`Catalog`; `FilesAreKept` is `ReceiptIsKept` and `FilesHaveRows`;
`SettledIsFinal` is `PaidIsFrozen`, `PaidMonthIsSettled`, `DecisionIsFinal` and
`WorkIsNotForgotten`; `LinksAreCurrent` is `CachedLinkIsCurrent` and
`ChainedOnce`; `MessagesAreCounted` is `LimitsHold`, `LogTellsTruth` and
`StatsTellTruth`; `BotIsDiscreet` is `BooksForOwnersOnly` and `TapIsAnswered`;
`RegistersAgree` (of `Registers`) is `RefusedOnlyAfterLoss` and
`CachedShowsTruth`; `AssistantRemembers` is `IndexIsOneReading` and
`ConversationKeepsTurns`; `JobsRunAsPlanned` is `MailsAreLimited` and
`CronsAreScheduled`; `PagesTellTruth` is `OwnWriteShows` and
`RefusedOnlyWhenStale`, and of `Signin` `RestsWhereItShould`, `OneIdentity`,
`SignsInShownNumber`, `FullCodeIsVerified`, `ResendWaits` and
`WizardShowsStep`; `PageIsOwn` is `OneSocket` and `OnlyOwnEvents`;
`ConnectionsSettle` is `GetsSocket` and the hub's `ClosedLeaves`.
(`ConnectionsSettle` and `FiguresAgree` are defined in `MCLive` and `MCOffice`:
the one is about fairness, the other about states without a step.) Each also
carries the type invariants of its modules. What each says, and which
exceptions it names, is in the comment above it.

Why the bounds are enough for what is asked. A lost update, a double acceptance
or a double close needs two actors on one object, and every run has two. The
third actor of `invoicing` is the sweep, which no lock or status keeps away from
the handlers. Amounts 1 and 2 against totals 2 and 3 give a partial payment, an
exact one and one too many. One failure is enough to stop a handler between any
two of its calls; the properties that do not mention failures hold with it. Three
token pairs allow a login, a refresh, and a refresh of that; two expiries make
the refreshed access token expire again. Capacity 1 makes every channel and
buffer full after one element, so that each send blocks or drops. The `otp` run
has one window and two sends, so that the counter passes its limit; what happens
over several windows is proved, not run.

For the desks:

- `office`. Payroll: two staff, so that one request can pay one of them while
  another processes both; one slip job at a time against one drawn by a request;
  three requests (process, pay, and one that races with either), one failure. A
  slip job has two attempts; that it gives up needs two failures, for which there
  is a desk of two requests (`slips`). Everybody earns 8 at first and may come to
  earn 9, which tells a slip drawn before from one drawn after.
  Leave: three days of which the middle one is a Sunday, two leaves that may
  share days. CRM: two contacts that may share a phone, one lead, two stages one
  of which can be taken away, three list queries two of which share a key.
  Receipts: two keys, so that a receipt can be replaced, and one expense; that two
  expenses may share a key is proved, not run. Figures: salaries around
  the PF and ESIC ceilings, incomes around every slab border, lines whose tax
  ends in half a paisa, amounts around every unit of the words. The desk of the
  figures has no step, its states are initial ones.
- `messaging`. Two requests and one worker are the three drawers of a PDF. At
  the desk of the messages the core has two requests beside one job of the
  worker, two of the three started, with two tries a run and one or two runs. A
  phone may have one message a day and the tenant two, of which one was sent
  before: the second message of a phone, and of the tenant, is then over the
  limit, and two requests that overlap pass it. The core has a desk to itself
  (`core`) where none was sent before, so that both are within the limit. One
  call of these desks may fail: an answer lost, a write that is swallowed, a
  process that stops. Two messages to the bot from two phones, or overlapping
  from one. Two records, of the first and the last table that are read, and two
  index tasks (`index`); four questions of two clients in one conversation that
  keeps two turns (`talk`).
- `platform`. Two invoices in March and April, on both sides of the border of a
  financial year; one loss of Redis; two requests at a time, any of which may read
  an invoice and write it after the other, and three in all, sends and marks of
  the sweep apart. Staff, whose list nothing of an invoice touches, have a desk of
  their own. Two jobs and two workers with five faults:
  enough to use up both tries of both attempts and to be retried by an admin. Two
  starting processes over two cron jobs, at a desk of their own with two faults:
  the queue and the schedules share only the count of faults. One invoice
  and two clicks: an own write and one that overtakes it. Two phone numbers, so
  that an answer can belong to the other session; two requests at a time and
  three in all; two boxes for a code and a countdown of one second, which is
  enough to leave a code half entered and a countdown half over.
- `live`. Three sockets and two timers are what one tab can have in flight after
  a close, a refresh and a change of tenant; the third token is of another
  tenant.

None of the bounds takes part in a property except the limits of the code
itself (`MaxSends`, `MaxAttempts`, `DailyLimit`, `TenantLimit`, `Tries`,
`Attempts`, `Kept`, `Cap`), which are small here. Every invariant and action
property of the passing runs but `FiguresAgree` is proved for all values.

Deadlock is not checked: users may stop calling, clients may stop coming, and a
hub that has stopped leaves everything where it is.

### Fairness

- `Invoicing`, `Otp`: a handler that has started goes on, because Node's event
  loop resumes it when its call returns; nothing obliges anyone to start one.
  Sweeps do start, because the cron repeats them. Redis drops a key when its TTL
  is over (`WindowEnds`); it owes nothing to a key without one.
- `Sessions`: the server answers and React runs its effects. What the user does
  is not fair, and `RefreshSettles` is about a user who has stopped.
- `Hub`: goroutines that can run do, and Go's select picks at random among the
  ready cases, so a channel that stays non-empty is served: weak fairness for
  each handler. A pump leaves its loop when its context is done; a peer is never
  obliged to go.
- `Live`: the browser fires its timers (`TimeoutFires`) and calls the handlers
  of its sockets (`OnClose`), and the server accepts or refuses every socket
  (`OnOpen`, `Refused`). Signing in, expiry and drops are not fair; drops are
  bounded by `MaxTurns`, so `GetsSocket` says that a page reconnects when the
  drops stop.

The other modules have safety properties only and assume no fairness.

## What the proofs show

All theorems are about the specifications without fairness, for any number of
clients, requests, workers, invoices, staff, days, capacities and bounds. What
they assume of the constants is named in the modules: finite sets of actors,
positive limits, distinct addresses, amounts that are not negative, and a `None`
that is none of the things it stands beside. The assumptions of `Invoicing`,
`Otp`, `Hub` and `Sessions` are ASSUMEs of the module. The others are
instantiated, so that theirs (`PayrollAssumption`, `DocumentsAssumption`, ...) are
definitions; `OfficeAssumption`, `MessagingAssumption`, `ConnectionAssumption`
and `PlatformAssumption` are ASSUMEs that conjoin those of the parts, and
TLC evaluates them with the values of the runs. `NumbersAreUnique` needs none.

The theorems about a composition rest on one lemma each, `Parts`: whoever behaves
as the composition behaves as each of its parts, since a step is a step of one
part and a stutter of the others. Each part then has its own inductive invariant,
checked by TLC before it was proved.

`InvoicingProofs`
- `TypeCorrect`: types, with `WellFormed` (what a handler remembers is a row it
  read).
- `PaidCovered`: `paidAmount` never exceeds the payments, contended or not. Not
  inductive alone: a handler writes what it remembers. `SnapshotCovered` says
  that what it remembers is covered too, and payments are only ever added.
- `UncontendedBooks`: status, amount and payments agree unless handlers
  overlapped. The inductive invariant says that of an uncontended invoice there
  is one holder (`SoleHolder`), that what it read is what the row still says
  (`SnapshotFresh`), and that the books agree (`MoneyAgrees`).
- `PaidStaysPaid`, `IssuedStaysFrozen`: one lemma, `WritesAreGuarded`, says what a
  step from a state of that invariant may do to an uncontended invoice: a write
  by id is as good as a guarded one there, because its guard still holds.
- `ItemsAddUp`: `ItemsSound` adds that the items are gone exactly between the two
  statements of an update, or after a failure there.
- `AnnouncedAtMostOnce`: `AnnouncementsSound` counts an announcement that a
  handler is about to make with those that were made: of each kind there is one
  in all, and only of an invoice whose status has come so far, which it then
  never leaves.
- `RemindersAreSent`: needs none of this, only that amounts are positive
  (`AmountsPositive`): a sweep that has marked an invoice holds its reminder, or
  it is `unreminded`.

- `InvoicingIsLedger`: `Spec => ImplementsLedger`. A step that reads disputes the
  invoices somebody else holds; a write to a disputed invoice is invisible; a
  write to any other is one operation of the ledger, because by the inductive
  invariant of `UncontendedBooks` what its handler has read is still so; and
  everything else leaves the ledger alone.

`OtpProofs`
- `SendsLimited`: `SendsInv` counts a window that is open as owing one send for
  every increment its counter has not seen; a window that is over owes none.
- `AttemptsLimited`: `AttemptsInv` counts a wrong guess when it is read, not when
  it is written, so the bound has one guess for every other request: the code
  has no better one, and the `otp` run reaches it.
- `SingleSignIn`: `UsedOnce`: of a row nobody contended for, at most one
  verification is past its read, it marks the row before it goes on, and when its
  tokens are out the row cannot be read again.
- `OneAccount`, `CountersExpire`: inductive with the types. (`CountersExpire` is
  the safety half of the run's `WindowEndsUnlessFailed`.)

`ConnectionProofs`
- The first five are of the hub alone, which `Connection` extends.
- `RoomsAreUsed`, `CounterFollowsRooms`: `RoomsInv`: a room has clients of its
  tenant only, and a client registers once (`RegisterOnce`), so that a
  registration always adds a member and an unregistration removes at most one.
- `TenantsAreIsolated`: every buffer is a sequence over the frames its client may
  see; a room's events reach its members, and they are of its tenant.
- `NoGhostStays`: `GhostInv`: from the close of `done` on, a client's unregister
  is to come, queued, or handled, and then it has left or was overtaken.
- `PageStaysOwn` (`PageIsOwn`): `PageInv` of `Live`: every socket and timeout
  carries a token issued here (`OwnTokens`), what is on its way was sent to the
  tenant of its socket's token (`Carried`) and what is shown to a tenant who has
  been signed in (`Seen`). Unless a timeout fired beside another socket, only the
  socket of `wsRef` is connecting or open (`OnlyRef`), and an event is on its way
  or shown once in all (`Once`).

`SessionsProofs`
- One invariant, `SessionInv`, gives all four: `TypeCorrect`, `TokenWhileSignedIn`
  (`SignedInHasToken`), `KeptTokenIsLive` (`StoredTokenLive`) and
  `OnlyExpiryForcesOut` (`ForcedOutOnlyByExpiry`). No two devices ever hold the
  same token, in their store or in a call (`OwnTokens`); a sign-out on the server
  disturbs every device, since it revokes whichever token is the newest
  (`LogoutDisturbs`); and on a device that is not disturbed the store is whole,
  one call at a time refreshes, and the token it has or waits for has not been
  revoked (`StoreWhole`, `OneRefresh`, `TokensLive`). Without `OwnTokens` the
  refresh of one device could revoke what another keeps.

`OfficeProofs`: payroll, for `PeopleStayRight` and `SettledStaysFinal`
- `PayTypeCorrect`: with `WellFormed`: what a request remembers at each of its
  steps, so that nobody is paid whose row is not there.
- `PaidSlipsAreTrue`, `PaidStaysFrozen`: `PaidInv` says of each payroll nobody
  raced for that one at a time draws its slip (`OneDrawer`), that no edit of a
  paid one is in flight and that a worker draws what was paid (`PaidAsRead`),
  and that a paid one has its slip, or a worker at it, or a job with attempts
  left, or a request that will queue one, or is `undrawn` (`SlipComes`).
- `LeaversWerePaid`: `LeaverInv`: who has a draft, or is on the list of a payroll
  run, is employed, and nobody is about to leave who has a draft. The check of
  `Staff.remove` alone is not inductive: a run that listed somebody before they
  left inserts a draft after it, which is what `late` names.
- `PaidMonthStaysSettled`: the figures of a month are sums over its rows; a step
  from a month all paid changes no row of it, so that the two sums add the same
  up (`SumSame`).

`OfficeProofs`: leave, for the same
- `DecisionsStand`, `CalendarShowsGranted`: `OneAtATime`: an application in flight
  has its leave to itself, and unless two decisions met there is one, of a leave
  still PENDING.
- `WorkIsKept`: `WorkIsKnown`: a day worked within a leave that is applied for or
  waiting was marked after the check of its application.
- `CalendarWasCharged`, `SummaryWasCharged`: the balance sums the days of granted
  leaves and the calendar counts days, so that neither is inductive. `ChargeInv`
  says that a leave is charged for exactly the working days of its range, and
  that unless two decisions met the days that leave has marked are no more than
  what is charged. An approval marks these days only, and adds its charge.

`OfficeProofs`: the CRM and the catalog, for `CustomersStayRight`
- `CrmInv`, for `OpenLeadKeepsContact`, `LeadStaysWhereItSays`, `OneDefaultStays`
  and `CachedListStaysTrue`. Whoever is about to delete a contact has found no
  open lead of it but late ones (`DeletingIsClear`). Of two changes of a lead only
  one at a time is still to be told, and it is the one the row shows
  (`TellingIsTrue`, `ToldIsTrue`), else the lead is muddled. A stage of an open
  lead is there, or the lead adrift (`StagesAreThere`). One request seeds, of an
  empty list (`SeededOnce`). A list on its way to Redis is as true as one that
  is there (`ListsAreTrue`), and one that a drop should have deleted is known to
  be stale (`CachesAreTrue`).
- `CatalogInv`, for `PendingKeepsCustomer` and `CachedCustomersAreTrue`: who is
  about to remove a customer has found no pending invoice of it (`Removing`),
  and who is about to insert an invoice has an active customer, or the invoice
  is late (`Inserting`). An invoice that moves was pending before, or is
  revived.

`OfficeProofs`: receipts, for `FilesStayKept`
- `FilesInv`, for `ReceiptStaysKept` and `FilesKeepRows`. A key is fresh, then
  inserted by one request, and known afterwards (`FreshIsNew`, `InsertIsNew`);
  two expenses share only severed keys (`SharedIsSevered`); who is bound to
  delete a key is replacing it at the one expense that names it, unless it is
  severed (`BoundIsExcused`); and what an expense names is temporary no longer,
  or about to be claimed (`NamedIsClaimed`). The proof corrected the property:
  it did not name the update that has read the old receipt and not replaced it
  yet. Two updates of one expense read the same key, the first fails at its
  claim, another expense names the old key, and the second update deletes it.
  The run has one expense and could not show that.

`MessagingProofs`
- `LinksStayCurrent`: `DocIInv`: while no edit crossed a draw, whatever is being
  drawn, and the stored PDF once it is linked, is the invoice as it stands
  (`DrawnNow`); the one PDF job waits or is run by one worker, and the row has a
  link before it announces (`OneJob`).
- `MessagesStayCounted`: `SendIInv`. What Meta took is counted, or its sender is
  about to count it (`Counted`), so that the tenant's counter and the requests
  past their check are bounded together, by the limit and one for each other
  request of the core. One reminder at a time, and afterwards the phone's key is
  there (`OneReminder`). The log is never ahead of Meta (`NotAhead`), a message
  is in it or held by its sender (`Logged`), and without a mix-up a row shows
  the last receipt that was handled (`InOrder`), FAILED ones included; a receipt
  that could not be applied is a mix-up. A lemma says of each kind of step what
  it does to the log: a message marked, a receipt handled, a row saved.
- `BotStaysDiscreet`: `BotInv`: a role in a session or a copy is one the phone
  has had (`RolesWereHad`), who never was a user was shown its own invoice only
  (`OwnOnly`), and where messages of a phone did not cross and none of its
  sessions was lost, the copy at work is the session, and fits the newest
  question (`Attentive`). That the books are for owners holds whatever fails.
- `AssistantKeepsMemory`: `AssistantInv`: one task at a time has an empty index
  from its clear to its upsert, or one littered with rows that are gone
  (`OneTask`), however the tables change while it reads them; and one request at
  a time in a conversation holds the history that is stored (`OneRequest`).

`PlatformProofs`
- `JobsStayPlanned`: `QueueInv`: a job that runs has one worker and a worker a
  job that runs (`HeldByOne`); of the mails of a job all are `untold` but one at
  most, and that one only when its worker has the answer or the job is done
  (`MailedWhenDone`); a run that began failed, was granted by an admin or a
  stall, or is the last one (`RunsCounted`). `CronInv`: a schedule that is
  missing will be added by a process that has still to remove or to add it
  (`MissingIsComing`).
- `PagesStayTrue`, the invoice pages: `PagesInv`. A row a page holds, shown or
  on its way, is one the API had (`HeldInv`) and no older than the own write as
  far as a page can come to show it (`OwnInv`, with `Current`); and a request
  still waiting is granted if nobody wrote since the data its button was offered
  for (`AskInv`, with `Fair`).
- `PagesStayTrue`, the way in: `SigninInv`. Once a layout has seen the flags as
  they are, the route on its way is the user's own or leads to the other layout,
  which looks for itself (`RouteInv`). Nobody is called onboarded without a
  business (`CallInv`); one number and one code at a time are on their way for
  the form that is there, and the code is for the number shown (`OtpInv`).
  `WizardInv` is `WizardShowsStep` with the types. The proof corrected
  `SignsInShownNumber`, which is false from the fourth click on: a code of a
  form left before may be accepted after another sign-in. `moved` now covers
  that, and the desk was run with four clicks (1,021,117 states) besides, as the one
  of the pages was with three versions (1,831,938 states).
- `RegistersStaySound`: what follows, of the registers, holds of the platform.
- `NumbersAreUnique`: while Redis keeps its data, what is in a register or about
  to be was given out by its counter (`Issued`), to one request only, which is
  still to use it (`NumbersHeld`).
- `TypeCorrect`: `BooksInv`. That `paid` fits `total` is not inductive, since
  `update` changes a total: it needs that only drafts change and a draft is
  unpaid (`Within`). Both are said of the invoices that are not `misread`: a
  handler whose reading still holds writes as if it read and wrote in one step,
  and one whose reading does not hold makes its invoice an exception. That an
  insert adds a row and replaces none needs that requests to create hold ids of
  their own (`Claims`). The tiles add up since the statuses part the invoices.
- `CachesShowTheTruth`: `CacheInv` says of a reading still to be stored what the
  property says of the stored one (`ReadTruly`). Every step announces a drop of
  a list, clears it, changes it quietly, or keeps it (`ListSteps`), and each of
  the four keeps `CacheInv` (`ListStep`). A send and the overdue sweep, for which
  the code drops nothing, move no invoice into or out of the other four figures
  of the dashboard (`QuietKeepsDashboard`), as long as what they read still
  holds; a send or a sweep that writes over another change leaves the cached
  dashboard wrong, and marks it so.
- `ReportsOnlyLoseOverdue`: one lemma, `NextInvoice`, says what a step does to
  the invoices: one row is drafted, redrafted, sent, cancelled, paid more or
  found overdue by a handler whose reading still holds, or is written over by
  one whose reading does not. Each but the last two adds at most that row to a
  report, or lets it grow there (`NothingLeaves`).
- `RegistersAreSound`: the three invariants together, which is what the run checks
  as `RegistersAgree`.

`Sums`
- Sums over a set are folds that choose an element at a time. `SumOver` is a sum
  of the values of a function; that it does not depend on the order
  (`SumOverAdds`), but only on the values (`SumOverSame`), and does not fall
  when one is added or grows (`SumOverGrows`), is proved by induction over the
  size of the set (`SizeInduction`), stated with a set of good sets in place of
  a predicate and proved from the well-foundedness of `<` on the naturals. The
  sums of `Leave` and `Registers` are shown to be such sums (`UsedIsSum`,
  `TotalsAdd`, `OwedAdd`, ...).

Only model-checked: liveness (`OverdueIsMarked`, `WindowEndsUnlessFailed`,
`ConnectionsSettle`), since fairness and ENABLED are out of the prover's reach,
and the sums worked out twice (`FiguresAgree`). The four properties found
violated are refuted by their counterexamples. The arithmetic of `Figures` is
checked at boundary values: a proof for all amounts would be an induction over
the slabs, through a recursive function.

## Where the code and its documents disagree

Four runs end in a violation, each of something the repository says:

- Two overlapping payments exceed the total, which `invoice.service.ts:305`
  refuses ("Overpayment not allowed").
- `AuthProvider` puts the expired access token back after each refresh and
  refreshes again (`auth-provider.tsx:23` against `client.ts:23`).
- Closing a client from both pumps may panic (`client.go:53`, "already closed").
- An edit form is filled from the data cached before the fresh fetch is answered
  and keeps it (`[id]/edit/page.tsx:23`, "Enforce fresh fetch when editing").

The passing properties name their exceptions, and most of these are behaviour
one would not expect of the code:

- Invoices: a payment for a cancelled invoice is accepted
  (`invoice.service.ts:310`); a draft that is sent while it is edited changes
  after it was issued (245). The sweep takes an invoice that was paid after its
  SELECT to OVERDUE (`invoice.processor.ts:33`), a late send brings a cancelled
  one back (`invoice.service.ts:263`), and of two overlapping payments one is
  lost from `paidAmount`, so that the money the reports call collected falls
  (320). A customer without a phone is never reminded, and nobody is told
  (`invoice.processor.ts:43`).
- Sessions and hub: a network drop during a refresh signs the user out
  (`auth-provider.tsx:30`); the request context ends with the handler, not with
  the connection (`ws.go:83`); the shutdown notice may never be handled
  (`main.go:114`).
- A process that dies between INCR and EXPIRE leaves a counter that never ends,
  for OTPs (`auth.service.ts:33`) and for a phone's daily messages, after which
  the core never reminds that phone again.
- Payroll: pay edited while it is being paid changes afterwards, and a slip drawn
  meanwhile shows the draft; `updateOne` recomputes from today's salary; an UNPAID
  leave is counted as paid ON_LEAVE days. A slip job that failed three times is
  given up, and the paid payroll has no slip until somebody asks for it.
- Leave: two decisions in flight leave a rejected leave on the calendar. A failed
  query in `bulkMark` undoes rows it reports as marked.
- CRM: a failed check counts as "no"; a lead can be created for a deleted
  contact or on a stage its pipeline does not have; the cache key ignores the
  stage, pipeline and contact filters, so that one list is answered with
  another. Drops of cached lists that fail are not noticed (`contact.go:81`,
  `lead.go:144`): the old list is shown until it expires. The same holds of the
  customer list after a failed call of Redis (`customer.service.ts:157`), but
  there the request fails too, after its write.
- Receipts: an expense can name a file another expense uses, one that is being
  deleted, one the sweep has selected, or one that an update of another expense
  has read as the receipt it replaces.
- GST: a rate of 0 % is charged as 18 %, and GST is charged on invoices the form
  shows without it. The word lists end at 1,999 crore.
- Documents: a download leaves a link without its signature in the row, which is
  what WhatsApp sends later; `send`'s own WhatsApp job and the one the PDF job
  chains may both announce the invoice.
- WhatsApp: reminders that overlap, or whose answer was lost, go out twice;
  receipts out of order leave the older status. The webhook answers 200 first
  and logs what fails afterwards (`webhook.handler.ts:58`, 159), so that a
  receipt whose UPDATE failed is lost. A reminder of the core sets the phone's
  counter back to 1, whatever the worker had counted.
- Bot: Redis errors are logged (`session.service.ts:33`, 59), so that a tap on a
  question is not taken for an answer when its session was not read or not
  written; a database error makes an owner a stranger while the session lives
  (119).
- Jobs: a worker that is killed between the provider's answer and the end of the
  job sends the mail again (`email.processor.ts:15`).
- Live: the worker's notifications name no tenant, so that the subscriber drops
  them; after two closes a page can have two sockets and show an event twice.
- Reports: a partly paid invoice that turns OVERDUE leaves the GST summary and
  the profit and loss.
- Assistant: the worker's index calls are answered 401 and swallowed; apologies
  of the model are cached as answers; a cached answer returns the id of another
  conversation. Errors of Redis and Qdrant are swallowed: an index that could
  not be cleared keeps texts of rows that are gone (`vector_store.py:146`), a
  conversation forgets turns it could not read or save (`redis_client.py:32`),
  and its deletion is reported even when it failed. The four tables are read one
  after another, so that an index may show an invoice and not the expense
  written before it.
- Pages: deletion is offered for sent and partly paid invoices and refused; it
  leaves the cached entry of the invoice.
- Sign-in: a number changed while its code is verified signs in the old one, and
  the code of a form left before may sign in after another number did; a
  late answer of `getMe` puts the user of an earlier session beside the newer
  refresh token; a step of the wizard stays clickable while it leaves, so that
  it may skip a step or reach step 0 or 4; Enter in the GST field of step 2
  submits the form; the error of an earlier code is shown on a fresh step 2.

## What is not modelled

- Gateway and operations (configuration), and the pages of the frontend other
  than those of an invoice and the way in (presentation). The list of invoices
  is left out because its default request always carries `status=undefined`,
  which the validation of the API answers with 400.
- Of the invoice service, the text of messages and PDFs, logging and metrics; the
  validation of requests, except where a value it lets through matters. That the
  font of the PDF has no "₹" is left out.
- Binary floating point: money is in paise and roundings are modelled where the
  code rounds. `paidAmount` is summed in floating point in the code, so that an
  exact instalment can be refused; the models do not show that.
- The clean-up of OTP rows and logs, CRM follow-ups and analytics, documents of
  staff, products (the shape of `Catalog` with nothing to check).
- The token `mock-token`, with which the worker logs messages nobody sends.
- What nobody calls or queues: the jobs `payroll:process` and
  `payroll:slip:bulk-generate`, the job `whatsapp:bulk:reminder` (whose payload
  names no phone), and `sendList`, `sendButtons`, `sendDocument`, `markRead` of
  the bot.
- `getGstSummary` mixes a UTC day with a local midnight; `use-websocket.ts` leaks
  the ping interval of a socket; a payment form refuses less than one rupee.
  Times of day and intervals are not in the models.
- What a language model answers and what Qdrant finds is opaque.

## Plan

Written and checked: every module of the table above. Proved: every invariant
and action property of the passing runs but `FiguresAgree`, the refinement of
`Ledger`, and the lemmas on sums they need. What is left:

1. `FiguresAgree` for all amounts, which needs induction over the slabs of the tax
   and the places of a number, and so definitions without recursive functions.
2. `paidAmount` in binary floating point (`invoice.service.ts:301`), where the
   order of the instalments decides whether the last one is refused.
3. The pages that share the query cache with those of an invoice: the list of
   invoices, once its default request is one the API accepts, and the dashboard.
