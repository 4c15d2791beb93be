------------------------------ MODULE Registers ------------------------------
(***************************************************************************)
(* The two registers of a tenant, invoices and staff, as lists: how a new  *)
(* entry gets its number (a counter in Redis, a unique index in the        *)
(* database), what is shown of them from Redis (getDashboard, the staff    *)
(* lists), and what the reports add up (getGstSummary, getGstr1,           *)
(* getProfitLoss).                                                         *)
(*                                                                         *)
(* A handler reads its invoice, checks it, and then writes by id: what     *)
(* others wrote in between is written over.                                *)
(***************************************************************************)
EXTENDS Integers, FiniteSetsExt

CONSTANTS
    Invoice, Staff, Request, None,
    Month,          \* months invoices are dated in: 12 * year + 0 .. 11
    Total,          \* amounts of invoices, in units
    MaxRequests     \* bound: requests started, sends and marks of the sweep apart

VARIABLES
    inv,            \* by id: [number, total, paid, status], or None
    staff,          \* by id: [code, active, present], or None
    seq,            \* Redis counters, by financial year and for the staff
    cache,          \* "dashboard" and "staff" in Redis: [shows, over, quiet], or None
    req, started,
    misread,        \* history: invoices written on a reading that no longer held
    lost,           \* history: Redis lost its data
    refused         \* history: a unique index refused a number

rowVars == <<inv, staff>>
vars == <<rowVars, seq, cache, req, started, misread, lost, refused>>

Statuses == {"DRAFT", "SENT", "PARTIAL", "PAID", "OVERDUE", "CANCELLED"}

Invoices == {i \in Invoice : inv[i] # None}
Hired == {s \in Staff : staff[s] # None}
Lists == {"dashboard", "staff"}
Sum(f(_), S) == MapThenSumSet(f, S)

\* A financial year begins in April, as far as the months of two years go.
FinancialYear(month) == IF month % 12 >= 3 THEN month \div 12 ELSE month \div 12 - 1
Counters == {<<"invoice", FinancialYear(m)>> : m \in Month} \cup {<<"staff", 0>>}

InvoiceRow == [number : Counters \X Nat, total : Total, paid : Nat, status : Statuses]
StaffRow == [code : {c \in Counters : c[1] = "staff"} \X Nat, active : BOOLEAN, present : {0, 1}]

\* Amounts are not negative, invoices are finitely many, and None is no row.
RegisterAssumption ==
    /\ Total \subseteq Nat /\ IsFiniteSet(Invoice)
    /\ None \notin InvoiceRow /\ None \notin StaffRow

-----------------------------------------------------------------------------
Owed(i) == inv[i].total - inv[i].paid
In(statuses) == {i \in Invoices : inv[i].status \in statuses}
Dashboard ==
    LET month == Invoices \ In({"CANCELLED"})
    IN  [revenue |-> Sum(LAMBDA i : inv[i].total, month), count |-> Cardinality(month),
         paid |-> Cardinality(In({"PAID"})), pending |-> Sum(Owed, month \ In({"PAID"})),
         overdue |-> Sum(Owed, In({"OVERDUE"}))]
\* staff.findAll: the rows and their attendance of the month.
StaffList == [s \in Hired |-> staff[s]]
Shows(list) == IF list = "dashboard" THEN Dashboard ELSE StaffList

GstSummaryPaidOnly == Sum(LAMBDA i : inv[i].total, In({"SENT", "PAID"}))
GstSummary == Sum(LAMBDA i : inv[i].total, In({"SENT", "PARTIAL", "PAID"}))
\* The invoices filed; every customer is taken to have a GSTIN.
Gstr1 == In({"SENT", "PARTIAL", "PAID"})
ProfitLoss ==
    LET counted == In({"PAID", "PARTIAL"})
    IN  [collected |-> Sum(LAMBDA i : inv[i].paid, counted),
         billed |-> Sum(LAMBDA i : inv[i].total, counted)]
\* findAll: the tiles over the list.
StatusCounts ==
    [paid |-> Cardinality(In({"PAID"})), overdue |-> Cardinality(In({"OVERDUE"})),
     pending |-> Cardinality(In({"SENT", "PARTIAL", "DRAFT"}))]

-----------------------------------------------------------------------------
Idle == [op |-> "idle", at |-> None, number |-> None, read |-> None, shows |-> None,
         over |-> FALSE]
Init ==
    /\ inv = [i \in Invoice |-> None] /\ staff = [s \in Staff |-> None]
    /\ seq = [c \in Counters |-> 0] /\ cache = [l \in Lists |-> None]
    /\ req = [r \in Request |-> Idle] /\ started = 0
    /\ misread = {} /\ lost = FALSE /\ refused = FALSE

Start(r, record) ==
    /\ req[r] = Idle /\ started < MaxRequests /\ started' = started + 1
    /\ req' = [req EXCEPT ![r] = record]
Finish(r) == req' = [req EXCEPT ![r] = Idle]
Then(r, list) == req' = [req EXCEPT ![r] = [Idle EXCEPT !.op = "drop", !.at = list]]
Taken(number) == \/ \E i \in Invoices : inv[i].number = number
                 \/ \E s \in Hired : staff[s].code = number
New(id) == id \notin Invoices \cup Hired /\ \A r \in Request : req[r].at # id

(* generateNextInvoiceNumber, generateCode: INCR.                           *)
TakeNumberByCount(r, id, counter) ==
    LET n == Cardinality({i \in Invoices : inv[i].number[1] = counter}) + 1
    IN  /\ New(id) /\ (counter[1] = "staff") = (id \in Staff)
        /\ Start(r, [Idle EXCEPT !.op = "create", !.at = id, !.number = <<counter, n>>])
        /\ UNCHANGED <<rowVars, seq, cache, misread, lost, refused>>
TakeNumber(r, id, counter) ==
    LET n == seq[counter] + 1
    IN  /\ New(id) /\ (counter[1] = "staff") = (id \in Staff)
        /\ seq' = [seq EXCEPT ![counter] = n]
        /\ Start(r, [Idle EXCEPT !.op = "create", !.at = id, !.number = <<counter, n>>])
        /\ UNCHANGED <<rowVars, cache, misread, lost, refused>>

(* create: the insert, refused if the number is taken; then the drop.       *)
InsertInvoice(r, total) ==
    LET i == req[r].at  number == req[r].number
    IN  /\ req[r].op = "create" /\ i \in Invoice
        /\ refused' = (refused \/ Taken(number))
        /\ IF Taken(number) THEN Finish(r) /\ inv' = inv
           ELSE /\ inv' = [inv EXCEPT ![i] = [number |-> number, total |-> total, paid |-> 0,
                                               status |-> "DRAFT"]]
                /\ Then(r, "dashboard")
        /\ UNCHANGED <<staff, seq, cache, started, misread, lost>>
InsertStaff(r) ==
    LET s == req[r].at  number == req[r].number
    IN  /\ req[r].op = "create" /\ s \in Staff
        /\ refused' = (refused \/ Taken(number))
        /\ IF Taken(number) THEN Finish(r) /\ staff' = staff
           ELSE /\ staff' = [staff EXCEPT ![s] = [code |-> number, active |-> TRUE, present |-> 0]]
                /\ Then(r, "staff")
        /\ UNCHANGED <<inv, seq, cache, started, misread, lost>>

-----------------------------------------------------------------------------
\* A list that is being read misses the change; the copy stored may be known to
\* be wrong, or changed in nothing that matters.
Crossed(list) ==
    [q \in Request |-> IF req[q].op = "list" /\ req[q].at = list
                       THEN [req[q] EXCEPT !.over = TRUE] ELSE req[q]]
Noted(list, wrong) ==
    IF cache[list] = None THEN cache
    ELSE IF wrong THEN [cache EXCEPT ![list].over = TRUE] ELSE [cache EXCEPT ![list].quiet = TRUE]

\* redis.del, invalidateCache: a list read before and stored after escapes.
NoDrop(r) ==
    /\ req[r].op = "drop" /\ Finish(r)
    /\ UNCHANGED <<rowVars, seq, cache, started, misread, lost, refused>>
Drop(r) ==
    LET list == req[r].at
    IN  /\ req[r].op = "drop"
        /\ cache' = [cache EXCEPT ![list] = None]
        /\ req' = [Crossed(list) EXCEPT ![r] = Idle]
        /\ UNCHANGED <<rowVars, seq, started, misread, lost, refused>>
\* A statement or a call of Redis fails, or the process ends: so does the
\* request, and the copy it had to drop stays.
Fail(r) ==
    LET list == req[r].at
    IN  /\ req[r] # Idle
        /\ IF req[r].op = "drop"
           THEN cache' = Noted(list, TRUE) /\ req' = [Crossed(list) EXCEPT ![r] = Idle]
           ELSE cache' = cache /\ Finish(r)
        /\ UNCHANGED <<rowVars, seq, started, misread, lost, refused>>

-----------------------------------------------------------------------------
(* The handlers of an invoice, and the sweep: find it, check its status,    *)
(* and later write by id. update, addPayment and remove then drop the       *)
(* dashboard; send and the sweep do not.                                    *)
Opens == [edit |-> {"DRAFT"}, send |-> {"DRAFT"}, cancel |-> {"DRAFT"},
          pay |-> Statuses \ {"PAID"}, mark |-> {"SENT", "PARTIAL"}]
Handlers == {"edit", "send", "cancel", "pay", "mark"}
LookUp(r, op, i) ==
    /\ i \in In(Opens[op]) /\ req[r] = Idle
    /\ started' = IF op \in {"send", "mark"} THEN started ELSE started + 1
    /\ started' <= MaxRequests
    /\ req' = [req EXCEPT ![r] = [Idle EXCEPT !.op = op, !.at = i, !.read = inv[i]]]
    /\ UNCHANGED <<rowVars, seq, cache, misread, lost, refused>>

Stale(r) == req[r].op \in Handlers /\ req[r].read # inv[req[r].at]
WriteRow(r, op, row) ==
    /\ req[r].op = op /\ inv' = [inv EXCEPT ![req[r].at] = row]
    /\ misread' = IF Stale(r) THEN misread \cup {req[r].at} ELSE misread
    /\ UNCHANGED <<staff, seq, started, lost, refused>>
Loudly(r) == cache' = cache /\ Then(r, "dashboard")
Quietly(r) ==
    /\ cache' = Noted("dashboard", Stale(r))
    /\ req' = [Crossed("dashboard") EXCEPT ![r] = Idle]

Edit(r, total) == WriteRow(r, "edit", [inv[req[r].at] EXCEPT !.total = total]) /\ Loudly(r)
\* The amount came with the request; it was checked against the row as read.
Pay(r, amount) ==
    LET read == req[r].read  paid == read.paid + amount
    IN  /\ amount > 0 /\ req[r].op = "pay" /\ paid <= read.total
        /\ WriteRow(r, "pay", [inv[req[r].at] EXCEPT !.paid = paid,
                                 !.status = IF paid = read.total THEN "PAID" ELSE "PARTIAL"])
        /\ Loudly(r)
Cancel(r) == WriteRow(r, "cancel", [inv[req[r].at] EXCEPT !.status = "CANCELLED"]) /\ Loudly(r)
Send(r) == WriteRow(r, "send", [inv[req[r].at] EXCEPT !.status = "SENT"]) /\ Quietly(r)
MarkOverdue(r) ==
    WriteRow(r, "mark", [inv[req[r].at] EXCEPT !.status = "OVERDUE"]) /\ Quietly(r)

(* Staff update and remove drop the lists; a mark on the attendance sheet   *)
(* does not.                                                                *)
StaffChange(r, s, active) ==
    /\ s \in Hired /\ Start(r, [Idle EXCEPT !.op = "drop", !.at = "staff"])
    /\ staff' = [staff EXCEPT ![s].active = active]
    /\ UNCHANGED <<inv, seq, cache, misread, lost, refused>>
MarkPresent(s) ==
    /\ s \in Hired /\ staff[s].present = 0
    /\ staff' = [staff EXCEPT ![s].present = 1]
    /\ cache' = Noted("staff", FALSE) /\ req' = Crossed("staff")
    /\ UNCHANGED <<inv, seq, started, misread, lost, refused>>

(* getDashboard, staff.findAll on a miss; the entry's lifetime; and Redis   *)
(* without its data, as after the eviction the RUNBOOK allows for caches.   *)
Read(r, list) ==
    /\ cache[list] = None
    /\ Start(r, [Idle EXCEPT !.op = "list", !.at = list, !.shows = Shows(list)])
    /\ UNCHANGED <<rowVars, seq, cache, misread, lost, refused>>
Fill(r) ==
    /\ req[r].op = "list" /\ Finish(r)
    /\ cache' = [cache EXCEPT ![req[r].at] = [shows |-> req[r].shows, over |-> req[r].over,
                                               quiet |-> FALSE]]
    /\ UNCHANGED <<rowVars, seq, started, misread, lost, refused>>
Expire(list) ==
    /\ cache[list] # None /\ cache' = [cache EXCEPT ![list] = None]
    /\ UNCHANGED <<rowVars, seq, req, started, misread, lost, refused>>
RedisLost ==
    /\ ~lost /\ lost' = TRUE
    /\ seq' = [c \in Counters |-> 0] /\ cache' = [l \in Lists |-> None]
    /\ UNCHANGED <<rowVars, req, started, misread, refused>>

Next ==
    \/ \E r \in Request :
         \/ InsertStaff(r) \/ Drop(r) \/ Fill(r) \/ Fail(r)
         \/ \E n \in Total : InsertInvoice(r, n) \/ Edit(r, n) \/ Pay(r, n)
         \/ \E id \in Invoice \cup Staff, c \in Counters : TakeNumber(r, id, c)
         \/ \E op \in Handlers, i \in Invoice : LookUp(r, op, i)
         \/ Cancel(r) \/ Send(r) \/ MarkOverdue(r)
         \/ \E s \in Staff, active \in BOOLEAN : StaffChange(r, s, active)
         \/ \E list \in Lists : Read(r, list)
    \/ \E s \in Staff : MarkPresent(s)
    \/ \E list \in Lists : Expire(list)
    \/ RedisLost

Spec == Init /\ [][Next]_vars

-----------------------------------------------------------------------------
TypeOK ==
    /\ \A i \in Invoices : /\ inv[i].number[1] \in Counters /\ inv[i].status \in Statuses
                           /\ inv[i].paid \in Nat
                           /\ i \notin misread => inv[i].paid <= inv[i].total
    /\ \A s \in Hired : staff[s].active \in BOOLEAN /\ staff[s].code[1][1] = "staff"
    /\ StatusCounts.paid + StatusCounts.overdue + StatusCounts.pending
         + Cardinality(In({"CANCELLED"})) = Cardinality(Invoices)

\* Two requests never get one number: the unique index refuses a create only
\* after Redis has lost its counters.
RefusedOnlyAfterLoss == refused => lost

\* What Redis shows is so now, unless a change has still to drop it, crossed the
\* filling, could not drop it, or was a send or a sweep that wrote over another
\* change; and the month's money is right even when a send or the sweep changed a
\* status, which the dashboard's overdue part does not notice.
CachedShowsTruth ==
    \A list \in Lists :
      LET entry == cache[list] IN
      entry # None =>
        \/ entry.over \/ \E r \in Request : req[r].op = "drop" /\ req[r].at = list
        \/ entry.shows = Shows(list)
        \/ /\ entry.quiet
           /\ IF list = "staff" THEN DOMAIN entry.shows = Hired
              ELSE [entry.shows EXCEPT !.overdue = 0] = [Dashboard EXCEPT !.overdue = 0]

\* The registers agree with their counters and with what is shown of them.
RegistersAgree == TypeOK /\ RefusedOnlyAfterLoss /\ CachedShowsTruth

\* What the GST summary reports and the profit and loss shows as collected only
\* falls, and an invoice only leaves the GSTR-1 once it was in it, as an invoice
\* turns OVERDUE, which takes it out of all three, or as a request writes over a
\* change made since it read. (The reports read nothing else than the invoices,
\* so that a step that leaves these alone changes no report.)
Overwrites(r) == Stale(r) /\ req'[r] # req[r]
ReportsFallOnlyByOverdue ==
    [][\/ UNCHANGED inv
       \/ /\ GstSummary' >= GstSummary /\ ProfitLoss'.collected >= ProfitLoss.collected
          /\ Gstr1 \subseteq Gstr1'
       \/ \E i \in Invoices : inv[i].status # "OVERDUE" /\ inv'[i].status = "OVERDUE"
       \/ \E r \in Request : Overwrites(r)]_vars
=============================================================================
