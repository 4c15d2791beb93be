------------------------------- MODULE Catalog -------------------------------
(***************************************************************************)
(* What invoices and expenses refer to: CustomerService with its cached    *)
(* list, and CategoryService. Rows are deactivated, not deleted, and what  *)
(* refers to them is checked by a query before the write.                  *)
(*                                                                         *)
(* Of an invoice only who it is for and how it stands is kept: Invoicing   *)
(* has the detail of how it gets from one status to another.               *)
(* ProductService has the same shape with nothing to check.                *)
(***************************************************************************)
EXTENDS Integers, FiniteSets

CONSTANTS
    Customer, Category, Invoice, Expense, Request, None,
    MaxRequests     \* bound: requests started

Pending == {"DRAFT", "SENT", "PARTIAL", "OVERDUE"}

\* None is none of the things it stands beside.
CatalogAssumption ==
    None \notin {"active", "inactive"} \cup Category
             \cup [customer : Customer, status : Pending \cup {"PAID", "CANCELLED"}]
             \cup [ids : SUBSET Customer, stale : BOOLEAN]

VARIABLES
    customer, category,     \* by id: "active", "inactive", or None
    invoice,                \* by id: [customer, status], or None
    expense,                \* by id: its category, or None
    listed,                 \* the cached list of customers: [ids, stale], or None
    req, started,
    late,       \* history: invoices whose customer was leaving as they were made
    revived     \* history: paid or cancelled invoices that became pending again

vars == <<customer, category, invoice, expense, listed, req, started, late, revived>>

Active == {c \in Customer : customer[c] = "active"}
Invoices == {i \in Invoice : invoice[i] # None}
Due(c) == {i \in Invoices : invoice[i].customer = c /\ invoice[i].status \in Pending}
Using(g) == {x \in Expense : expense[x] = g}

Idle == [op |-> "idle", step |-> "done", at |-> None, of |-> None, ids |-> {}, over |-> FALSE]
Start(r, op, step, at, of) ==
    /\ req[r] = Idle /\ started < MaxRequests /\ started' = started + 1
    /\ req' = [req EXCEPT ![r] = [Idle EXCEPT !.op = op, !.step = step, !.at = at, !.of = of]]
In(r, op, step) == req[r].op = op /\ req[r].step = step
Go(r, step) == req' = [req EXCEPT ![r].step = step]
Finish(r) == req' = [req EXCEPT ![r] = Idle]

Init ==
    /\ customer = [c \in Customer |-> None] /\ category = [g \in Category |-> "active"]
    /\ invoice = [i \in Invoice |-> None] /\ expense = [x \in Expense |-> None]
    /\ listed = None /\ req = [r \in Request |-> Idle] /\ started = 0
    /\ late = {} /\ revived = {}

-----------------------------------------------------------------------------
(* CustomerService: create and update write and drop the lists; remove      *)
(* reads the customer, counts the pending invoices, writes, drops.          *)
CreateCustomer(r, c) ==
    /\ customer[c] = None /\ Start(r, "customer", "drop", c, None)
    /\ customer' = [customer EXCEPT ![c] = "active"]
    /\ UNCHANGED <<category, invoice, expense, listed, late, revived>>
UpdateCustomer(r, c) ==
    /\ c \in Active /\ Start(r, "customer", "drop", c, None)
    /\ UNCHANGED <<customer, category, invoice, expense, listed, late, revived>>
RemoveRead(r, c) ==
    /\ c \in Active /\ Start(r, "remove", "count", c, None)
    /\ UNCHANGED <<customer, category, invoice, expense, listed, late, revived>>
RemoveCount(r) ==
    /\ In(r, "remove", "count")
    /\ IF Due(req[r].at) # {} THEN Finish(r) ELSE Go(r, "write")
    /\ UNCHANGED <<customer, category, invoice, expense, listed, started, late, revived>>
RemoveWrite(r) ==
    /\ In(r, "remove", "write")
    /\ customer' = [customer EXCEPT ![req[r].at] = "inactive"]
    /\ late' = late \cup {req[q].of : q \in {q \in Request : req[q].op = "invoice" /\ req[q].at = req[r].at}}
    /\ Go(r, "drop")
    /\ UNCHANGED <<category, invoice, expense, listed, started, revived>>
\* The calls to Redis may throw after the write; who asked gets an error then.
DropLists(r, fails) ==
    /\ req[r].step = "drop"
    /\ listed' = IF ~fails \/ listed = None THEN None ELSE [listed EXCEPT !.stale = TRUE]
    /\ req' = [q \in Request |-> IF q = r THEN Idle
                                 ELSE [req[q] EXCEPT !.over = (@ \/ req[q].op = "list")]]
    /\ UNCHANGED <<customer, category, invoice, expense, started, late, revived>>

(* findAll on a miss, and the end of its five minutes.                      *)
FindAll(r) ==
    /\ listed = None
    /\ req[r] = Idle /\ started < MaxRequests /\ started' = started + 1
    /\ req' = [req EXCEPT ![r] = [Idle EXCEPT !.op = "list", !.ids = Active]]
    /\ UNCHANGED <<customer, category, invoice, expense, listed, late, revived>>
Cache(r) ==
    /\ req[r].op = "list"
    /\ listed' = [ids |-> req[r].ids, stale |-> req[r].over] /\ Finish(r)
    /\ UNCHANGED <<customer, category, invoice, expense, started, late, revived>>
Expire ==
    /\ listed # None /\ listed' = None
    /\ UNCHANGED <<customer, category, invoice, expense, req, started, late, revived>>

(* InvoiceService.create reads an active customer and inserts later. What   *)
(* becomes of the invoice: sent, paid in part or in full, marked overdue or *)
(* cancelled, written by id over whatever another request wrote since the   *)
(* status was read; and a cancelled one still takes a payment.              *)
InvoiceRead(r, i, c) ==
    /\ c \in Active /\ i \notin Invoices /\ \A q \in Request : req[q].of # i
    /\ Start(r, "invoice", "insert", c, i)
    /\ UNCHANGED <<customer, category, invoice, expense, listed, late, revived>>
InvoiceInsert(r) ==
    LET c == req[r].at  i == req[r].of
    IN  /\ In(r, "invoice", "insert")
        /\ invoice' = [invoice EXCEPT ![i] = [customer |-> c, status |-> "DRAFT"]]
        /\ late' = IF \E q \in Request : In(q, "remove", "write") /\ req[q].at = c
                   THEN late \cup {i} ELSE late
        /\ Finish(r)
        /\ UNCHANGED <<customer, category, expense, listed, started, revived>>
InvoiceMoves(i, status) ==
    /\ i \in Invoices /\ status # "DRAFT"
    /\ invoice' = [invoice EXCEPT ![i].status = status]
    /\ revived' = IF invoice[i].status \notin Pending /\ status \in Pending
                  THEN revived \cup {i} ELSE revived
    /\ UNCHANGED <<customer, category, expense, listed, req, started, late>>

(* CategoryService.remove: used categories are deactivated, others deleted; *)
(* the foreign key of an expense made in between refuses the delete.        *)
SpendOn(x, g) ==
    /\ expense[x] = None /\ category[g] # None
    /\ expense' = [expense EXCEPT ![x] = g]
    /\ UNCHANGED <<customer, category, invoice, listed, req, started, late, revived>>
CategoryCount(r, g) ==
    /\ category[g] # None
    /\ Start(r, "category", IF Using(g) # {} THEN "deactivate" ELSE "delete", g, None)
    /\ UNCHANGED <<customer, category, invoice, expense, listed, late, revived>>
CategoryWrite(r) ==
    LET g == req[r].at
    IN  /\ req[r].op = "category"
        /\ category' = IF category[g] = None THEN category   \* P2025: it is gone
                       ELSE IF req[r].step = "deactivate" THEN [category EXCEPT ![g] = "inactive"]
                       ELSE IF Using(g) = {} THEN [category EXCEPT ![g] = None] ELSE category
        /\ Finish(r)
        /\ UNCHANGED <<customer, invoice, expense, listed, started, late, revived>>

Next ==
    \/ \E r \in Request :
         \/ RemoveCount(r) \/ RemoveWrite(r) \/ FindAll(r) \/ Cache(r)
         \/ \E fails \in BOOLEAN : DropLists(r, fails)
         \/ InvoiceInsert(r) \/ CategoryWrite(r)
         \/ \E c \in Customer : \/ CreateCustomer(r, c) \/ UpdateCustomer(r, c) \/ RemoveRead(r, c)
                                \/ \E i \in Invoice : InvoiceRead(r, i, c)
         \/ \E g \in Category : CategoryCount(r, g)
    \/ Expire
    \/ \E i \in Invoice, status \in Pending \cup {"PAID", "CANCELLED"} : InvoiceMoves(i, status)
    \/ \E x \in Expense, g \in Category : SpendOn(x, g)

Spec == Init /\ [][Next]_vars

-----------------------------------------------------------------------------
TypeOK ==
    /\ customer \in [Customer -> {"active", "inactive", None}]
    /\ category \in [Category -> {"active", "inactive", None}]
    /\ \A i \in Invoices : invoice[i].customer \in Customer /\ customer[invoice[i].customer] # None
    /\ \A x \in Expense : expense[x] # None => category[expense[x]] # None
    /\ listed = None \/ listed.ids \subseteq Customer

\* A pending invoice is for a customer one can still find, unless it was being
\* made as the customer was removed, or it was paid or cancelled, did not count,
\* and became pending again.
PendingHasCustomer ==
    \A c \in Customer \ Active : Due(c) \subseteq late \cup revived

\* The cached list shows the customers there are, unless a change has still
\* to drop it, or it was read before a drop and stored after it, or the drop
\* failed.
CustomerListIsTrue ==
    listed # None => \/ listed.stale \/ listed.ids = Active
                     \/ \E r \in Request : req[r].step = "drop"
=============================================================================
