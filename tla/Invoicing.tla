----------------------------- MODULE Invoicing -----------------------------
(***************************************************************************)
(* The life of the invoices of one tenant: the API handlers of             *)
(* InvoiceService (create, update, send, addPayment, remove) and the       *)
(* worker's invoice:overdue:check sweep, all over one Invoice table.       *)
(*                                                                         *)
(* Every handler reads the invoice row, decides on what it read, and       *)
(* writes the row later: `where: { id }` repeats none of the conditions.   *)
(* One action per call to the database, so that other handlers run in      *)
(* between; a handler that throws or a process that dies leaves what it    *)
(* has written so far.                                                     *)
(*                                                                         *)
(* Amounts are integers (the Decimal columns in their smallest unit).      *)
(***************************************************************************)
EXTENDS Integers, Sequences, FiniteSets

CONSTANTS
    Invoice,        \* invoice ids
    Request,        \* API requests that may run at the same time
    Sweeper,        \* overdue sweeps that may run at the same time
    Total,          \* totals the items of an invoice can add up to
    Amount,         \* amounts of a payment
    None,           \* no invoice / no new items in the request
    MaxFailures,    \* bound: handlers that throw or die half way
    MaxPayments     \* bound: payments recorded when a new one starts

\* Discounts above 100% are accepted, so a total may be zero or negative; a
\* payment has @Min(1) (add-payment.dto.ts).
ASSUME ConstantsAssumption ==
    /\ Total \subseteq Int
    /\ Amount \subseteq Nat \ {0}
    /\ None \notin Invoice /\ None \notin Int
    /\ MaxFailures \in Nat /\ MaxPayments \in Nat

VARIABLES
    \* the Invoice row, by column
    status, totalAmount, paidAmount, pastDue,
    itemRows,       \* totals of the batches of InvoiceItem rows, in order
    payments,       \* sum of the Payment rows
    \* jobs enqueued so far
    sentJobs,       \* invoice:send WhatsApp/e-mail batches, by invoice
    paidJobs,       \* invoice.paid events, by invoice
    reminded,       \* a reminder was enqueued since the last overdue mark
    \* handlers in flight
    request, sweep,
    failures,
    \* history: invoices on which two handlers were in flight together
    contended,
    \* history: marked last by a sweep that saw no phone, or failed before the reminder
    unreminded

row == <<status, totalAmount, paidAmount, pastDue, itemRows, payments>>
jobs == <<sentJobs, paidJobs, reminded, unreminded>>
vars == <<row, jobs, request, sweep, failures, contended>>

Status == {"DRAFT", "SENT", "PARTIAL", "PAID", "OVERDUE", "CANCELLED"}
Absent == "ABSENT"

\* Steps at which a request holds a row it has read and has yet to write.
Holding == {"update", "rewrite", "send", "pay", "remove"}
\* Steps after the write, with jobs still to enqueue.
Notifying == {"notifySent", "notifyPaid"}

\* What a request remembers: the invoice, the row as read, and its argument
\* (the new total of an update, the amount of a payment).
RequestState ==
    [step : Holding \cup Notifying \cup {"idle"}, inv : Invoice \cup {None},
     status : Status, total : Int, paid : Int, arg : Int \cup {None}]

Idle == [step |-> "idle", inv |-> None, status |-> "DRAFT",
         total |-> 0, paid |-> 0, arg |-> None]

\* What a sweep remembers: the rows of its SELECT it has yet to mark, the one it
\* has marked and has yet to announce, and which of them came with a phone.
SweepState == [todo : SUBSET Invoice, marked : Invoice \cup {None}, phone : SUBSET Invoice]
Asleep == [todo |-> {}, marked |-> None, phone |-> {}]

TypeOK ==
    /\ status \in [Invoice -> Status \cup {Absent}]
    /\ totalAmount \in [Invoice -> Int]
    /\ paidAmount \in [Invoice -> Int]
    /\ pastDue \in [Invoice -> BOOLEAN]
    /\ itemRows \in [Invoice -> Seq(Int)]
    /\ payments \in [Invoice -> Nat]
    /\ sentJobs \in [Invoice -> Nat]
    /\ paidJobs \in [Invoice -> Nat]
    /\ reminded \in [Invoice -> BOOLEAN]
    /\ request \in [Request -> RequestState]
    /\ sweep \in [Sweeper -> SweepState]
    /\ failures \in 0 .. MaxFailures
    /\ contended \in SUBSET Invoice
    /\ unreminded \in SUBSET Invoice

Init ==
    /\ status = [i \in Invoice |-> Absent]
    /\ totalAmount = [i \in Invoice |-> 0]
    /\ paidAmount = [i \in Invoice |-> 0]
    /\ pastDue = [i \in Invoice |-> FALSE]
    /\ itemRows = [i \in Invoice |-> <<>>]
    /\ payments = [i \in Invoice |-> 0]
    /\ sentJobs = [i \in Invoice |-> 0]
    /\ paidJobs = [i \in Invoice |-> 0]
    /\ reminded = [i \in Invoice |-> FALSE]
    /\ request = [r \in Request |-> Idle]
    /\ sweep = [w \in Sweeper |-> Asleep]
    /\ failures = 0
    /\ contended = {}
    /\ unreminded = {}

-----------------------------------------------------------------------------
(* Handlers in flight *)

RequestHolds(r, i) == request[r].step \in Holding /\ request[r].inv = i
SweepHolds(w, i) == i \in sweep[w].todo

Held(i) == \/ \E r \in Request : RequestHolds(r, i)
           \/ \E w \in Sweeper : SweepHolds(w, i)

\* A handler reads the rows I: those some other handler holds become contended.
ReadRows(I) == contended' = contended \cup {i \in I : Held(i)}

\* Request r reads invoice i and goes to `step` with argument a.
Read(r, i, step, a) ==
    /\ request[r] = Idle
    /\ status[i] # Absent
    /\ request' = [request EXCEPT ![r] =
            [step |-> step, inv |-> i, status |-> status[i],
             total |-> totalAmount[i], paid |-> paidAmount[i], arg |-> a]]
    /\ ReadRows({i})
    /\ UNCHANGED <<row, jobs, sweep, failures>>

Goto(r, step) == request' = [request EXCEPT ![r].step = step]
Finish(r) == request' = [request EXCEPT ![r] = Idle]

-----------------------------------------------------------------------------
(* create *)

Create(i, t) ==
    /\ status[i] = Absent
    /\ status' = [status EXCEPT ![i] = "DRAFT"]
    /\ totalAmount' = [totalAmount EXCEPT ![i] = t]
    /\ itemRows' = [itemRows EXCEPT ![i] = <<t>>]
    /\ \E late \in BOOLEAN : pastDue' = [pastDue EXCEPT ![i] = late]
    /\ UNCHANGED <<paidAmount, payments, jobs, request, sweep, failures, contended>>

DueDatePasses(i) ==
    /\ status[i] # Absent
    /\ ~pastDue[i]
    /\ pastDue' = [pastDue EXCEPT ![i] = TRUE]
    /\ UNCHANGED <<status, totalAmount, paidAmount, itemRows, payments,
                   jobs, request, sweep, failures, contended>>

-----------------------------------------------------------------------------
(* update: DRAFT only; new items replace the old ones in two statements *)

\* Mutant: the status check is dropped.
UpdateReadAny(r, i, t) == Read(r, i, "update", t)

UpdateRead(r, i, t) ==
    /\ status[i] = "DRAFT"
    /\ Read(r, i, "update", t)

\* Mutant: the old items are kept.
UpdateKeepItems(r) ==
    /\ request[r].step = "update" /\ request[r].arg # None
    /\ Goto(r, "rewrite")
    /\ UNCHANGED <<row, jobs, sweep, failures, contended>>

UpdateDeleteItems(r) ==
    LET i == request[r].inv IN
    /\ request[r].step = "update"
    /\ request[r].arg # None
    /\ itemRows' = [itemRows EXCEPT ![i] = <<>>]
    /\ Goto(r, "rewrite")
    /\ UNCHANGED <<status, totalAmount, paidAmount, pastDue, payments,
                   jobs, sweep, failures, contended>>

\* Mutant: the totals are written whether or not the request has items.
UpdateWriteAlways(r) ==
    LET i == request[r].inv IN
    /\ request[r].step \in {"update", "rewrite"}
    /\ totalAmount' = [totalAmount EXCEPT ![i] = request[r].arg]
    /\ itemRows' = [itemRows EXCEPT ![i] = Append(@, request[r].arg)]
    /\ Finish(r)
    /\ UNCHANGED <<status, paidAmount, pastDue, payments, jobs, sweep, failures, contended>>

UpdateWrite(r) ==
    LET i == request[r].inv
        t == request[r].arg
    IN
    /\ \/ /\ request[r].step = "update" /\ t = None
          /\ UNCHANGED <<totalAmount, itemRows>>
       \/ /\ request[r].step = "rewrite"
          /\ totalAmount' = [totalAmount EXCEPT ![i] = t]
          /\ itemRows' = [itemRows EXCEPT ![i] = Append(@, t)]
    /\ \E late \in BOOLEAN : pastDue' = [pastDue EXCEPT ![i] = late]
    /\ Finish(r)
    /\ UNCHANGED <<status, paidAmount, payments, jobs, sweep, failures, contended>>

-----------------------------------------------------------------------------
(* send: DRAFT -> SENT, then the jobs *)

\* Mutant: the status check is dropped.
SendReadAny(r, i) == Read(r, i, "send", None)

SendRead(r, i) ==
    /\ status[i] = "DRAFT"
    /\ Read(r, i, "send", None)

SendWrite(r) ==
    /\ request[r].step = "send"
    /\ status' = [status EXCEPT ![request[r].inv] = "SENT"]
    /\ Goto(r, "notifySent")
    /\ UNCHANGED <<totalAmount, paidAmount, pastDue, itemRows, payments,
                   jobs, sweep, failures, contended>>

SendNotify(r) ==
    /\ request[r].step = "notifySent"
    /\ sentJobs' = [sentJobs EXCEPT ![request[r].inv] = @ + 1]
    /\ Finish(r)
    /\ UNCHANGED <<row, paidJobs, reminded, unreminded, sweep, failures, contended>>

-----------------------------------------------------------------------------
(* addPayment: Payment row and Invoice row in one transaction, with the    *)
(* paid amount computed from the row read before it                        *)

\* Mutant: the overpayment check is dropped.
PayReadAny(r, i, a) ==
    status[i] # "PAID" /\ payments[i] < MaxPayments /\ Read(r, i, "pay", a)

PayRead(r, i, a) ==
    /\ status[i] # "PAID"
    /\ paidAmount[i] + a <= totalAmount[i]
    /\ payments[i] < MaxPayments
    /\ Read(r, i, "pay", a)

StatusAfterPayment(was, newPaid, total) ==
    IF newPaid = total THEN "PAID"
    ELSE IF newPaid > 0 THEN "PARTIAL"
    ELSE IF was = "CANCELLED" THEN "DRAFT" ELSE was

\* Mutant: the Payment row is not part of the transaction, and fails.
PayWriteInvoiceOnly(r) ==
    LET i == request[r].inv
        newPaid == request[r].paid + request[r].arg
        newStatus == StatusAfterPayment(request[r].status, newPaid, request[r].total)
    IN
    /\ request[r].step = "pay"
    /\ paidAmount' = [paidAmount EXCEPT ![i] = newPaid]
    /\ status' = [status EXCEPT ![i] = newStatus]
    /\ Finish(r)
    /\ UNCHANGED <<totalAmount, pastDue, itemRows, payments, jobs, sweep, failures, contended>>

PayWrite(r) ==
    LET i == request[r].inv
        newPaid == request[r].paid + request[r].arg
        newStatus == StatusAfterPayment(request[r].status, newPaid, request[r].total)
    IN
    /\ request[r].step = "pay"
    /\ payments' = [payments EXCEPT ![i] = @ + request[r].arg]
    /\ paidAmount' = [paidAmount EXCEPT ![i] = newPaid]
    /\ status' = [status EXCEPT ![i] = newStatus]
    /\ request' = [request EXCEPT ![r].step = "notifyPaid", ![r].status = newStatus]
    /\ UNCHANGED <<totalAmount, pastDue, itemRows, jobs, sweep, failures, contended>>

PayNotify(r) ==
    /\ request[r].step = "notifyPaid"
    /\ paidJobs' = IF request[r].status = "PAID"
                   THEN [paidJobs EXCEPT ![request[r].inv] = @ + 1]
                   ELSE paidJobs
    /\ Finish(r)
    /\ UNCHANGED <<row, sentJobs, reminded, unreminded, sweep, failures, contended>>

-----------------------------------------------------------------------------
(* remove: DRAFT -> CANCELLED, the row stays *)

RemoveRead(r, i) ==
    /\ status[i] = "DRAFT"
    /\ Read(r, i, "remove", None)

RemoveWrite(r) ==
    /\ request[r].step = "remove"
    /\ status' = [status EXCEPT ![request[r].inv] = "CANCELLED"]
    /\ Finish(r)
    /\ UNCHANGED <<totalAmount, paidAmount, pastDue, itemRows, payments,
                   jobs, sweep, failures, contended>>

-----------------------------------------------------------------------------
(* invoice:overdue:check *)

\* Mutant: the sweep selects by due date alone.
OverdueByDate == {i \in Invoice : status[i] # Absent /\ status[i] # "OVERDUE" /\ pastDue[i]}

\* Mutant: the sweep forgets part-paid invoices.
OverdueSentOnly == {i \in Invoice : status[i] = "SENT" /\ pastDue[i]}

Overdue == {i \in Invoice : status[i] \in {"SENT", "PARTIAL"} /\ pastDue[i]}

\* The SELECT joins the customer, whose phone may be null and may change at any time.
SweepSelect(w) ==
    /\ sweep[w] = Asleep
    /\ Overdue # {}
    /\ \E phone \in SUBSET Overdue :
         sweep' = [sweep EXCEPT ![w] = [todo |-> Overdue, marked |-> None, phone |-> phone]]
    /\ ReadRows(Overdue)
    /\ UNCHANGED <<row, jobs, request, failures>>

\* Mutant: the mark is not announced.
SweepMarkSilently(w, i) ==
    /\ SweepHolds(w, i)
    /\ status' = [status EXCEPT ![i] = "OVERDUE"]
    /\ reminded' = [reminded EXCEPT ![i] = FALSE]
    /\ unreminded' = unreminded \ {i}
    /\ sweep' = [sweep EXCEPT ![w].todo = @ \ {i}, ![w].phone = @ \ {i}]
    /\ UNCHANGED <<totalAmount, paidAmount, pastDue, itemRows, payments,
                   sentJobs, paidJobs, request, failures, contended>>

SweepMark(w, i) ==
    /\ SweepHolds(w, i)
    /\ sweep[w].marked = None
    /\ status' = [status EXCEPT ![i] = "OVERDUE"]
    /\ reminded' = [reminded EXCEPT ![i] = FALSE]
    /\ unreminded' = unreminded \ {i}
    /\ sweep' = [sweep EXCEPT ![w].todo = @ \ {i}, ![w].marked = i]
    /\ UNCHANGED <<totalAmount, paidAmount, pastDue, itemRows, payments,
                   sentJobs, paidJobs, request, failures, contended>>

SweepRemind(w) ==
    LET i == sweep[w].marked IN
    /\ i # None
    /\ IF i \in sweep[w].phone
       THEN reminded' = [reminded EXCEPT ![i] = TRUE] /\ UNCHANGED unreminded
       ELSE unreminded' = unreminded \cup {i} /\ UNCHANGED reminded
    /\ sweep' = [sweep EXCEPT ![w].marked = None, ![w].phone = @ \ {i}]
    /\ UNCHANGED <<row, sentJobs, paidJobs, request, failures, contended>>

-----------------------------------------------------------------------------
(* Failures: nothing that was written is undone *)

RequestFail(r) ==
    /\ request[r].step # "idle"
    /\ failures < MaxFailures
    /\ failures' = failures + 1
    /\ Finish(r)
    /\ UNCHANGED <<row, jobs, sweep, contended>>

\* withRetry and the next cron tick both start over with a new SELECT, which
\* no longer finds what was marked.
SweepFail(w) ==
    /\ sweep[w] # Asleep
    /\ failures < MaxFailures
    /\ failures' = failures + 1
    /\ sweep' = [sweep EXCEPT ![w] = Asleep]
    /\ unreminded' = unreminded \cup ({sweep[w].marked} \ {None})
    /\ UNCHANGED <<row, sentJobs, paidJobs, reminded, request, contended>>

-----------------------------------------------------------------------------

RequestStep(r) ==
    \/ UpdateDeleteItems(r) \/ UpdateWrite(r)
    \/ SendWrite(r) \/ SendNotify(r)
    \/ PayWrite(r) \/ PayNotify(r)
    \/ RemoveWrite(r)

RequestStart(r) ==
    \E i \in Invoice :
        \/ \E t \in Total \cup {None} : UpdateRead(r, i, t)
        \/ \E a \in Amount : PayRead(r, i, a)
        \/ SendRead(r, i)
        \/ RemoveRead(r, i)

SweepStep(w) ==
    SweepSelect(w) \/ SweepRemind(w) \/ \E i \in Invoice : SweepMark(w, i)

Next ==
    \/ \E i \in Invoice : DueDatePasses(i) \/ \E t \in Total : Create(i, t)
    \/ \E r \in Request : RequestStart(r) \/ RequestStep(r) \/ RequestFail(r)
    \/ \E w \in Sweeper : SweepStep(w) \/ SweepFail(w)

Spec == Init /\ [][Next]_vars

\* A started handler goes on (the event loop runs it), and the cron keeps
\* starting sweeps; nobody is obliged to call the API.
FairSpec ==
    /\ Spec
    /\ \A r \in Request : WF_vars(RequestStep(r))
    /\ \A w \in Sweeper : WF_vars(SweepStep(w))

-----------------------------------------------------------------------------
(* Properties *)

\* paidAmount never claims more than the Payment rows add up to, whatever
\* overlaps and whatever fails: addPayment can lose a payment from paidAmount
\* but never invents one.
PaidIsCovered == \A i \in Invoice : paidAmount[i] <= payments[i]

\* What status, paidAmount and the Payment rows say of each other when no two
\* handlers ever held the invoice together.
MoneyAgrees(i) ==
    /\ paidAmount[i] = payments[i]
    /\ paidAmount[i] > 0 => paidAmount[i] <= totalAmount[i]
    /\ status[i] = "PAID" <=> paidAmount[i] > 0 /\ paidAmount[i] = totalAmount[i]
    /\ status[i] = "PARTIAL" => paidAmount[i] > 0
    /\ status[i] \in {Absent, "DRAFT", "SENT", "CANCELLED"} => paidAmount[i] = 0

\* Overlap is the only way to break the books of an invoice: a failure at any
\* step of any handler does not (addPayment's transaction).
UncontendedMoneyAgrees == \A i \in Invoice \ contended : MoneyAgrees(i)

\* The items of an uncontended invoice add up to its total, except after
\* update's deleteMany and before its write: a failure there leaves an invoice
\* with no items and its old total.
ItemsMatchTotal ==
    \A i \in Invoice \ contended : status[i] # Absent =>
        \/ itemRows[i] = <<totalAmount[i]>>
        \/ /\ itemRows[i] = <<>>
           /\ \/ failures > 0
              \/ \E r \in Request : request[r].step = "rewrite" /\ request[r].inv = i

\* An uncontended invoice goes out once and is announced as paid once, and
\* only when it is.
AnnouncedOnce ==
    \A i \in Invoice \ contended :
        /\ sentJobs[i] <= 1
        /\ paidJobs[i] <= 1
        /\ paidJobs[i] = 1 => status[i] = "PAID"
        /\ sentJobs[i] = 1 => status[i] \notin {Absent, "DRAFT", "CANCELLED"}

\* Every invoice that is OVERDUE had its reminder enqueued or a sweep is about to,
\* unless its customer had no phone when the sweep selected it, or the sweep
\* failed just between the mark and the reminder: failures anywhere else, of
\* sweeps or of requests, and payments and marks that overlap lose none.
NoReminderLost ==
    \A i \in Invoice : status[i] = "OVERDUE" =>
        reminded[i] \/ i \in unreminded \/ \E w \in Sweeper : sweep[w].marked = i

\* PAID is final unless handlers overlap.
PaidIsFinal ==
    [][\A i \in Invoice \ contended : status[i] = "PAID" => status'[i] = "PAID"]_vars

\* Once out of DRAFT, total and items stay as they were, unless handlers overlap.
IssuedIsFrozen ==
    [][\A i \in Invoice \ contended : status[i] \notin {Absent, "DRAFT"} =>
         totalAmount'[i] = totalAmount[i] /\ itemRows'[i] = itemRows[i]]_vars

\* An unpaid invoice past its due date does not stay SENT or PARTIAL for ever.
OverdueIsMarked ==
    \A i \in Invoice :
        (status[i] \in {"SENT", "PARTIAL"} /\ pastDue[i])
            ~> ~(status[i] \in {"SENT", "PARTIAL"} /\ pastDue[i])

\* The books of an invoice that handlers never held together are those of the
\* ledger, in which every operation is one step that keeps the promise of its
\* guards: reading first and writing later is invisible without an overlap.
Undisputed(f, none) == [i \in Invoice |-> IF i \in contended THEN none ELSE f[i]]
Account == INSTANCE Ledger WITH
            stage <- Undisputed(status, "disputed"),
            total <- Undisputed(totalAmount, 0),
            paid <- Undisputed(payments, 0)
ImplementsLedger == Account!Spec

\* invoice.service.ts:305 "Overpayment not allowed"
NoOverpayment == \A i \in Invoice : payments[i] > 0 => payments[i] <= totalAmount[i]
=============================================================================
