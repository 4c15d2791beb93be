--------------------------- MODULE PlatformProofs ---------------------------
(***************************************************************************)
(* What Platform promises, for every step of its parts. Each part has an   *)
(* inductive invariant of its own: the steps of the others leave its       *)
(* variables alone.                                                        *)
(***************************************************************************)
EXTENDS Platform, Sums

(***************************************************************************)
(* Registers: numbers, rows, what Redis shows and what reports add up      *)
(***************************************************************************)
\* Both registers and the counters hold what belongs there, and a handler is
\* about an invoice that was open to it when it was read.
Forms ==
    /\ seq \in [Counters -> Nat]
    /\ inv \in [Invoice -> InvoiceRow \cup {None}]
    /\ staff \in [Staff -> StaffRow \cup {None}]
    /\ DOMAIN req = Request /\ \A r \in Request : DOMAIN req[r] = DOMAIN Idle
    /\ \A r \in Request : req[r].op \in Handlers =>
                           /\ req[r].at \in Invoices /\ req[r].read \in InvoiceRow
                           /\ req[r].read.status \in Opens[req[r].op]

\* What a request to create is about to write: a row of its own.
Creating == {r \in Request : req[r].op = "create"}
Claims ==
    /\ \A r \in Creating : /\ req[r].number \in Counters \X Nat
                           /\ req[r].at \in Staff => req[r].number[1][1] = "staff"
                           /\ req[r].at \notin Invoices \cup Hired
    /\ \A r1, r2 \in Creating : req[r1].at = req[r2].at => r1 = r2

\* What an invoice was paid fits its total, since only a draft changes its total
\* and a draft is unpaid: unless a handler wrote over what another had written.
Within ==
    /\ \A i \in Invoices \ misread : inv[i].paid <= inv[i].total
    /\ \A i \in In({"DRAFT"}) \ misread : inv[i].paid = 0

BooksInv == Forms /\ Claims /\ Within

LEMMA InitBooks == RegisterAssumption => (Init => BooksInv)
<1> SUFFICES ASSUME RegisterAssumption, Init PROVE BooksInv
  OBVIOUS
<1>1. /\ \A r \in Request : req[r] = Idle /\ Idle.op = "idle"
      /\ \A i \in Invoice : inv[i] = None
  BY DEF Init, Idle
<1>2. Creating = {} /\ Invoices = {} /\ Hired = {}
  BY <1>1 DEF Init, Creating, Invoices, Hired
<1>3. Forms
  BY <1>1 DEF Init, Forms, Handlers
<1> QED BY <1>2, <1>3 DEF BooksInv, Claims, Within, In

-----------------------------------------------------------------------------
\* What may become of a request: it goes on with what it is about, or is over,
\* dropping or listing, or takes a number, or looks an invoice up.
SameTask(q) ==
    /\ DOMAIN req'[q] = DOMAIN req[q] /\ req'[q].op = req[q].op /\ req'[q].at = req[q].at
    /\ req'[q].number = req[q].number /\ req'[q].read = req[q].read
Taking(q) ==
    /\ \E id \in Invoice \cup Staff, c \in Counters : TakeNumber(q, id, c)
    /\ req'[q].op = "create"
Looking(q) ==
    /\ req'[q].op \in Handlers /\ req'[q].at \in In(Opens[req'[q].op])
    /\ req'[q].read = inv[req'[q].at]
RequestStep ==
    /\ DOMAIN req' = Request
    /\ \A q \in Request :
         /\ DOMAIN req'[q] = DOMAIN Idle
         /\ SameTask(q) \/ req'[q].op \in {"idle", "drop", "list"} \/ Taking(q) \/ Looking(q)

LEMMA CrossedRequests ==
    ASSUME DOMAIN req = Request, \A r \in Request : DOMAIN req[r] = DOMAIN Idle, NEW list,
           NEW now, now = Crossed(list), NEW q \in Request
    PROVE  /\ DOMAIN now = Request /\ DOMAIN now[q] = DOMAIN Idle
           /\ now[q].op = req[q].op /\ now[q].at = req[q].at
           /\ now[q].number = req[q].number /\ now[q].read = req[q].read
           /\ now[q].op = "list" /\ now[q].at = list => now[q].over
           /\ ~(now[q].op = "list" /\ now[q].at = list) => now[q] = req[q]
<1>1. DOMAIN Idle = {"op", "at", "number", "read", "shows", "over"}
  BY DEF Idle
<1>2. now[q] = IF req[q].op = "list" /\ req[q].at = list THEN [req[q] EXCEPT !.over = TRUE] ELSE req[q]
  BY DEF Crossed
<1> QED BY <1>1, <1>2 DEF Crossed

\* The steps that end by crossing what reads a list.
LEMMA CrossingStep ==
    ASSUME Forms, NEW list,
           req' = Crossed(list) \/ \E r \in Request : req' = [Crossed(list) EXCEPT ![r] = Idle]
    PROVE  RequestStep
<1>1. PICK now : now = Crossed(list)
  OBVIOUS
<1>2. \A q \in Request : /\ DOMAIN now[q] = DOMAIN Idle
                         /\ now[q].op = req[q].op /\ now[q].at = req[q].at
                         /\ now[q].number = req[q].number /\ now[q].read = req[q].read
  BY <1>1, CrossedRequests DEF Forms
<1>3. Idle.op = "idle"
  BY DEF Idle
<1>4. DOMAIN now = Request
  BY <1>1 DEF Crossed
<1>5. CASE req' = now
  BY <1>2, <1>4, <1>5 DEF RequestStep, SameTask, Forms
<1>6. ASSUME NEW r \in Request, req' = [now EXCEPT ![r] = Idle] PROVE RequestStep
  BY <1>2, <1>3, <1>4, <1>6 DEF RequestStep, SameTask, Forms
<1> QED BY <1>1, <1>5, <1>6

\* The steps that only touch the request that takes them.
LEMMA OwnTask ==
    ASSUME Forms, NEW r \in Request, NEW record, req' = [req EXCEPT ![r] = record],
           DOMAIN record = DOMAIN Idle,
           record.op \in {"idle", "drop", "list"} \/ Taking(r) \/ Looking(r)
    PROVE  RequestStep
BY DEF RequestStep, SameTask, Forms

LEMMA NextRequests == Forms /\ [Next]_vars => RequestStep
<1> SUFFICES ASSUME Forms, [Next]_vars PROVE RequestStep
  OBVIOUS
<1>i. Idle.op = "idle"
  BY DEF Idle
<1>1. ASSUME NEW r \in Request, Finish(r) PROVE RequestStep
  BY <1>1, <1>i, OwnTask DEF Finish
<1>2. ASSUME NEW r \in Request, NEW list, req' = [req EXCEPT ![r] = [Idle EXCEPT !.op = "drop", !.at = list]]
      PROVE  RequestStep
  <2>1. PICK record : record = [Idle EXCEPT !.op = "drop", !.at = list]
    OBVIOUS
  <2>2. record.op = "drop" /\ DOMAIN record = DOMAIN Idle
    BY <2>1 DEF Idle
  <2> QED BY <1>2, <2>1, <2>2, OwnTask
<1>3. ASSUME NEW r \in Request, InsertStaff(r) \/ Fill(r) \/ Drop(r) \/ Fail(r) PROVE RequestStep
  <2>1. CASE InsertStaff(r)
    BY <1>1, <1>2, <2>1 DEF InsertStaff, Then
  <2>2. CASE Fill(r)
    BY <1>1, <2>2 DEF Fill
  <2>3. CASE Drop(r)
    BY <2>3, CrossingStep DEF Drop
  <2>4. CASE Fail(r)
    BY <1>1, <2>4, CrossingStep DEF Fail
  <2> QED BY <1>3, <2>1, <2>2, <2>3, <2>4
<1>4. ASSUME NEW r \in Request, NEW n \in Total, InsertInvoice(r, n) \/ Edit(r, n) \/ Pay(r, n)
      PROVE  RequestStep
  BY <1>1, <1>2, <1>4 DEF InsertInvoice, Edit, Pay, Loudly, Then
<1>5. ASSUME NEW r \in Request, Cancel(r) \/ Send(r) \/ MarkOverdue(r) PROVE RequestStep
  <2>1. CASE Cancel(r)
    BY <1>2, <2>1 DEF Cancel, Loudly, Then
  <2>2. CASE Send(r) \/ MarkOverdue(r)
    BY <2>2, CrossingStep DEF Send, MarkOverdue, Quietly
  <2> QED BY <1>5, <2>1, <2>2
<1>6. ASSUME NEW r \in Request, NEW id \in Invoice \cup Staff, NEW c \in Counters,
             TakeNumber(r, id, c)
      PROVE  RequestStep
  <2>1. PICK record : record = [Idle EXCEPT !.op = "create", !.at = id,
                                             !.number = <<c, seq[c] + 1>>]
    OBVIOUS
  <2>2. record.op = "create" /\ DOMAIN record = DOMAIN Idle
    BY <2>1 DEF Idle
  <2>3. req' = [req EXCEPT ![r] = record]
    BY <1>6, <2>1 DEF TakeNumber, Start
  <2>4. Taking(r)
    BY <1>6, <2>2, <2>3 DEF Taking, Forms
  <2> QED BY <2>2, <2>3, <2>4, OwnTask
<1>7. ASSUME NEW r \in Request, NEW op \in Handlers, NEW i \in Invoice, LookUp(r, op, i)
      PROVE  RequestStep
  <2>1. PICK row : row = inv[i]
    OBVIOUS
  <2>2. PICK record : record = [Idle EXCEPT !.op = op, !.at = i, !.read = row]
    OBVIOUS
  <2>3. record.op = op /\ record.at = i /\ record.read = inv[i] /\ DOMAIN record = DOMAIN Idle
    BY <2>1, <2>2 DEF Idle
  <2>4. req' = [req EXCEPT ![r] = record]
    BY <1>7, <2>1, <2>2 DEF LookUp
  <2>5. Looking(r)
    BY <1>7, <2>3, <2>4 DEF Looking, LookUp, Forms
  <2> QED BY <2>3, <2>4, <2>5, OwnTask
<1>8. ASSUME NEW r \in Request, NEW s \in Staff, NEW active \in BOOLEAN, StaffChange(r, s, active)
      PROVE  RequestStep
  BY <1>2, <1>8 DEF StaffChange, Start
<1>9. ASSUME NEW r \in Request, NEW list \in Lists, Read(r, list) PROVE RequestStep
  <2>1. PICK shows : shows = Shows(list)
    OBVIOUS
  <2>2. PICK record : record = [Idle EXCEPT !.op = "list", !.at = list, !.shows = shows]
    OBVIOUS
  <2>3. record.op = "list" /\ DOMAIN record = DOMAIN Idle
    BY <2>2 DEF Idle
  <2>4. req' = [req EXCEPT ![r] = record]
    BY <1>9, <2>1, <2>2 DEF Read, Start
  <2> QED BY <2>3, <2>4, OwnTask
<1>10. ASSUME NEW s \in Staff, MarkPresent(s) PROVE RequestStep
  BY <1>10, CrossingStep DEF MarkPresent
<1>11. CASE (\E list \in Lists : Expire(list)) \/ RedisLost \/ UNCHANGED vars
  BY <1>11 DEF Expire, RedisLost, vars, rowVars, RequestStep, SameTask, Forms
<1> QED
  BY <1>3, <1>4, <1>5, <1>6, <1>7, <1>8, <1>9, <1>10, <1>11 DEF Next

-----------------------------------------------------------------------------
\* What one step does to an invoice: it is created as a draft, changed as a
\* draft, sent, cancelled or paid, found overdue, or written over.
Drafted(i) == inv[i] = None /\ inv'[i].status = "DRAFT" /\ inv'[i].paid = 0
Redrafted(i) ==
    /\ inv[i].status = "DRAFT" /\ inv'[i].status \in {"DRAFT", "SENT", "CANCELLED"}
    /\ inv'[i].paid = inv[i].paid
PaidMore(i) ==
    /\ inv'[i].status \in {"PAID", "PARTIAL"} /\ inv'[i].total = inv[i].total
    /\ inv'[i].paid \in inv[i].paid .. inv[i].total
FellDue(i) ==
    /\ inv[i].status # "OVERDUE" /\ inv'[i].status = "OVERDUE"
    /\ inv'[i].total = inv[i].total /\ inv'[i].paid = inv[i].paid
WrittenOver(i) == i \in misread' /\ \E r \in Request : Overwrites(r)
OneRow(i) ==
    /\ inv' = [inv EXCEPT ![i] = inv'[i]] /\ inv'[i] \in InvoiceRow
    /\ misread \subseteq misread'
    /\ \/ Drafted(i)
       \/ /\ i \in Invoices /\ inv'[i].number = inv[i].number
          /\ Redrafted(i) \/ PaidMore(i) \/ FellDue(i) \/ WrittenOver(i)
InvoiceStep == (inv' = inv /\ misread' = misread) \/ \E i \in Invoice : OneRow(i)

LEMMA RowsOfTheBooks ==
    ASSUME RegisterAssumption, Forms, NEW i \in Invoices
    PROVE  /\ inv[i] \in InvoiceRow /\ inv[i].number \in Counters \X Nat /\ inv[i].total \in Total
           /\ inv[i].total \in Nat /\ inv[i].paid \in Nat /\ inv[i].status \in Statuses
           /\ i \in Invoice
BY DEF RegisterAssumption, Forms, Invoices, InvoiceRow

LEMMA InsertStep ==
    ASSUME RegisterAssumption, BooksInv, NEW r \in Request, NEW total \in Total,
           InsertInvoice(r, total)
    PROVE  InvoiceStep
<1>1. PICK i, number : i = req[r].at /\ number = req[r].number
  OBVIOUS
<1>2. r \in Creating /\ i \in Invoice
  BY <1>1 DEF InsertInvoice, Creating
<1>3. number \in Counters \X Nat /\ inv[i] = None
  BY <1>1, <1>2 DEF BooksInv, Claims, Invoices
<1>m. misread' = misread
  BY DEF InsertInvoice
<1>4. CASE inv' = inv
  BY <1>m, <1>4 DEF InvoiceStep
<1>5. CASE inv' # inv
  <2>1. PICK row : row = [number |-> number, total |-> total, paid |-> 0, status |-> "DRAFT"]
    OBVIOUS
  <2>2. row \in InvoiceRow
    BY <1>3, <2>1 DEF InvoiceRow, Statuses
  <2>3. row.status = "DRAFT" /\ row.paid = 0
    BY <2>1
  <2>4. inv' = [inv EXCEPT ![i] = row]
    BY <1>1, <1>5, <2>1 DEF InsertInvoice
  <2>5. OneRow(i)
    BY <1>2, <1>3, <1>m, <2>2, <2>3, <2>4 DEF OneRow, Drafted, BooksInv, Forms
  <2> QED BY <1>2, <2>5 DEF InvoiceStep
<1> QED BY <1>4, <1>5

\* A handler's write changes the invoice it is about; on a reading that still
\* holds, as its check allows.
Writing(r) == Cancel(r) \/ Send(r) \/ MarkOverdue(r) \/ \E n \in Total : Edit(r, n) \/ Pay(r, n)

LEMMA WriteStep ==
    ASSUME RegisterAssumption, BooksInv, NEW r \in Request, Writing(r)
    PROVE  /\ req[r].at \in Invoices /\ OneRow(req[r].at)
           /\ inv'[req[r].at].number = inv[req[r].at].number
           /\ Redrafted(req[r].at) \/ PaidMore(req[r].at) \/ FellDue(req[r].at) \/ Stale(r)
<1>1. PICK i, read : i = req[r].at /\ read = req[r].read
  OBVIOUS
<1>2. req[r].op \in Handlers
  BY DEF Writing, Cancel, Send, MarkOverdue, Edit, Pay, WriteRow, Handlers
<1>3. i \in Invoices /\ i \in Invoice /\ read \in InvoiceRow /\ read.status \in Opens[req[r].op]
  BY <1>1, <1>2 DEF BooksInv, Forms, Invoices
<1>4. PICK old \in InvoiceRow : old = inv[i]
  BY <1>3, RowsOfTheBooks DEF BooksInv
<1>5. /\ old.number \in Counters \X Nat /\ old.total \in Total /\ old.total \in Nat
      /\ old.paid \in Nat /\ old.status \in Statuses
      /\ read.total \in Nat /\ read.paid \in Nat /\ read.status \in Statuses
  BY <1>3, <1>4 DEF InvoiceRow, RegisterAssumption
<1>6. inv \in [Invoice -> InvoiceRow \cup {None}]
  BY DEF BooksInv, Forms
<1>7. /\ misread \subseteq misread'
      /\ Stale(r) => i \in misread'
      /\ ~Stale(r) => old = read
      /\ Opens["edit"] = {"DRAFT"} /\ Opens["send"] = {"DRAFT"} /\ Opens["cancel"] = {"DRAFT"}
      /\ Opens["mark"] = {"SENT", "PARTIAL"}
  BY <1>1, <1>2, <1>4
     DEF Writing, Cancel, Send, MarkOverdue, Edit, Pay, WriteRow, Stale, Opens
<1>8. Stale(r) => Overwrites(r)
  <2>1. req'[r].op \in {"drop", "idle"}
    <3>1. CASE Cancel(r) \/ \E n \in Total : Edit(r, n) \/ Pay(r, n)
      <4>1. PICK record : record = [Idle EXCEPT !.op = "drop", !.at = "dashboard"]
        OBVIOUS
      <4>2. record.op = "drop" /\ req' = [req EXCEPT ![r] = record]
        BY <3>1, <4>1 DEF Idle, Cancel, Edit, Pay, Loudly, Then
      <4> QED BY <4>2 DEF BooksInv, Forms
    <3>2. CASE Send(r) \/ MarkOverdue(r)
      <4>1. req' = [Crossed("dashboard") EXCEPT ![r] = Idle] /\ DOMAIN Crossed("dashboard") = Request
        BY <3>2 DEF Send, MarkOverdue, Quietly, Crossed
      <4> QED BY <4>1 DEF Idle
    <3> QED BY <3>1, <3>2 DEF Writing
  <2> QED BY <1>2, <2>1 DEF Overwrites, Handlers
\* Whatever the row written, it takes the place of the old one.
<1>9. ASSUME NEW new \in InvoiceRow, inv' = [inv EXCEPT ![i] = new], new.number = old.number,
             \/ Stale(r)
             \/ /\ old.status = "DRAFT" /\ new.paid = old.paid
                /\ new.status \in {"DRAFT", "SENT", "CANCELLED"}
             \/ /\ new.status \in {"PAID", "PARTIAL"} /\ new.total = old.total
                /\ new.paid \in old.paid .. old.total
             \/ /\ old.status # "OVERDUE" /\ new.status = "OVERDUE"
                /\ new.total = old.total /\ new.paid = old.paid
      PROVE  /\ OneRow(i) /\ inv'[i].number = inv[i].number
             /\ Redrafted(i) \/ PaidMore(i) \/ FellDue(i) \/ Stale(r)
  <2>1. inv' = [inv EXCEPT ![i] = inv'[i]] /\ inv'[i] = new
    BY <1>3, <1>6, <1>9
  <2>2. Redrafted(i) \/ PaidMore(i) \/ FellDue(i) \/ Stale(r)
    BY <1>4, <1>9, <2>1 DEF Redrafted, PaidMore, FellDue
  <2>3. Stale(r) => WrittenOver(i)
    BY <1>7, <1>8 DEF WrittenOver
  <2>4. inv'[i].number = inv[i].number /\ inv'[i] \in InvoiceRow
    BY <1>4, <1>9, <2>1
  <2>5. Redrafted(i) \/ PaidMore(i) \/ FellDue(i) \/ WrittenOver(i)
    BY <2>2, <2>3
  <2> QED BY <1>3, <1>7, <2>1, <2>2, <2>4, <2>5 DEF OneRow
<1>10. ASSUME NEW status \in Statuses, inv' = [inv EXCEPT ![i] = [inv[i] EXCEPT !.status = status]]
       PROVE  \E new \in InvoiceRow :
                /\ inv' = [inv EXCEPT ![i] = new] /\ new.status = status
                /\ new.number = old.number /\ new.total = old.total /\ new.paid = old.paid
  <2>1. PICK new : new = [old EXCEPT !.status = status]
    OBVIOUS
  <2>2. new \in InvoiceRow
    BY <2>1 DEF InvoiceRow
  <2>3. /\ new.status = status /\ new.number = old.number /\ new.total = old.total
        /\ new.paid = old.paid
    BY <2>1 DEF InvoiceRow
  <2>4. inv' = [inv EXCEPT ![i] = new]
    BY <1>4, <1>10, <2>1
  <2> QED BY <2>2, <2>3, <2>4
<1> DEFINE Goal == /\ OneRow(i) /\ inv'[i].number = inv[i].number
                   /\ Redrafted(i) \/ PaidMore(i) \/ FellDue(i) \/ Stale(r)
<1>11. ASSUME NEW n \in Total, Edit(r, n) PROVE Goal
  <2>1. PICK new : new = [old EXCEPT !.total = n]
    OBVIOUS
  <2>2. new \in InvoiceRow
    BY <2>1 DEF InvoiceRow
  <2>3. new.status = old.status /\ new.paid = old.paid /\ new.number = old.number
    BY <2>1 DEF InvoiceRow
  <2>4. inv' = [inv EXCEPT ![i] = new] /\ req[r].op = "edit"
    BY <1>1, <1>4, <1>11, <2>1 DEF Edit, WriteRow
  <2>5. Stale(r) \/ old.status = "DRAFT"
    BY <1>3, <1>7, <2>4
  <2> HIDE DEF Goal
  <2> QED BY <1>9, <2>2, <2>3, <2>4, <2>5 DEF Goal
<1>12. ASSUME NEW n \in Total, Pay(r, n) PROVE Goal
  <2>1. n \in Nat
    BY DEF RegisterAssumption
  <2>2. PICK paid \in Nat : paid = read.paid + n
    BY <1>5, <2>1
  <2>3. PICK status : status = IF paid = read.total THEN "PAID" ELSE "PARTIAL"
    OBVIOUS
  <2>4. status \in {"PAID", "PARTIAL"} /\ paid <= read.total /\ read.paid <= paid
    BY <1>1, <1>5, <1>12, <2>1, <2>2, <2>3 DEF Pay
  <2>5. PICK new : new = [old EXCEPT !.paid = paid, !.status = status]
    OBVIOUS
  <2>6. new \in InvoiceRow
    BY <2>2, <2>4, <2>5 DEF InvoiceRow, Statuses
  <2>7. /\ new.status = status /\ new.paid = paid /\ new.total = old.total
        /\ new.number = old.number
    BY <2>5 DEF InvoiceRow
  <2>8. inv' = [inv EXCEPT ![i] = new]
    BY <1>1, <1>4, <1>12, <2>2, <2>3, <2>5 DEF Pay, WriteRow
  <2>9. Stale(r) \/ new.paid \in old.paid .. old.total
    BY <1>5, <1>7, <2>2, <2>4, <2>7
  <2> HIDE DEF Goal
  <2> QED BY <1>9, <2>4, <2>6, <2>7, <2>8, <2>9 DEF Goal
<1>13. ASSUME NEW op \in {"cancel", "send"}, NEW status \in {"CANCELLED", "SENT"}, req[r].op = op,
              inv' = [inv EXCEPT ![i] = [inv[i] EXCEPT !.status = status]]
       PROVE  Goal
  <2>0. status \in Statuses
    BY DEF Statuses
  <2>1. PICK new \in InvoiceRow :
               /\ inv' = [inv EXCEPT ![i] = new] /\ new.status = status
               /\ new.number = old.number /\ new.total = old.total /\ new.paid = old.paid
    BY <1>10, <1>13, <2>0
  <2>2. Stale(r) \/ old.status = "DRAFT"
    BY <1>3, <1>7, <1>13
  <2> HIDE DEF Goal
  <2> QED BY <1>9, <2>1, <2>2 DEF Goal
<1>14. ASSUME MarkOverdue(r) PROVE Goal
  <2>0. /\ req[r].op = "mark" /\ "OVERDUE" \in Statuses
        /\ inv' = [inv EXCEPT ![i] = [inv[i] EXCEPT !.status = "OVERDUE"]]
    BY <1>1, <1>14 DEF MarkOverdue, WriteRow, Statuses
  <2>1. PICK new \in InvoiceRow :
               /\ inv' = [inv EXCEPT ![i] = new] /\ new.status = "OVERDUE"
               /\ new.number = old.number /\ new.total = old.total /\ new.paid = old.paid
    BY <1>10, <2>0
  <2>2. Stale(r) \/ old.status # "OVERDUE"
    BY <1>3, <1>7, <2>0
  <2> HIDE DEF Goal
  <2> QED BY <1>9, <2>1, <2>2 DEF Goal
<1>15. Goal
  <2>1. CASE Cancel(r)
    BY <1>1, <1>13, <2>1 DEF Cancel, WriteRow
  <2>2. CASE Send(r)
    BY <1>1, <1>13, <2>2 DEF Send, WriteRow
  <2> QED BY <1>11, <1>12, <1>14, <2>1, <2>2 DEF Writing
<1> QED BY <1>1, <1>3, <1>15

\* The steps of requests and of Redis that leave the invoices alone.
LEMMA InvoicesStay ==
    ASSUME \/ \E r \in Request : InsertStaff(r) \/ Drop(r) \/ Fill(r) \/ Fail(r)
           \/ \E r \in Request, id \in Invoice \cup Staff, c \in Counters : TakeNumber(r, id, c)
           \/ \E r \in Request, op \in Handlers, i \in Invoice : LookUp(r, op, i)
           \/ \E r \in Request, s \in Staff, active \in BOOLEAN : StaffChange(r, s, active)
           \/ \E r \in Request, list \in Lists : Read(r, list)
           \/ \E s \in Staff : MarkPresent(s)
           \/ \E list \in Lists : Expire(list)
           \/ RedisLost \/ UNCHANGED vars
    PROVE  UNCHANGED <<inv, misread>>
BY DEF InsertStaff, Drop, Fill, Fail, TakeNumber, LookUp, StaffChange, Read, MarkPresent, Expire,
       RedisLost, vars, rowVars

LEMMA NextInvoice == RegisterAssumption /\ BooksInv /\ [Next]_vars => InvoiceStep
<1> SUFFICES ASSUME RegisterAssumption, BooksInv, [Next]_vars PROVE InvoiceStep
  OBVIOUS
<1>1. ASSUME NEW r \in Request, \E total \in Total : InsertInvoice(r, total) PROVE InvoiceStep
  BY <1>1, InsertStep
<1>2. ASSUME NEW r \in Request, Writing(r) PROVE InvoiceStep
  <2>1. PICK i \in Invoices : OneRow(i)
    BY <1>2, WriteStep
  <2> QED BY <2>1 DEF InvoiceStep, Invoices
<1>3. CASE UNCHANGED <<inv, misread>>
  BY <1>3 DEF InvoiceStep
<1> QED BY <1>1, <1>2, <1>3, InvoicesStay DEF Next, Writing

-----------------------------------------------------------------------------
\* The rows stay rows, the requests what they are about, the amounts in bounds.
LEMMA NextInvoices ==
    ASSUME RegisterAssumption, BooksInv, [Next]_vars
    PROVE  /\ inv' \in [Invoice -> InvoiceRow \cup {None}]
           /\ Invoices \subseteq Invoices' /\ Within'
<1>0. inv \in [Invoice -> InvoiceRow \cup {None}] /\ None \notin InvoiceRow
  BY DEF BooksInv, Forms, RegisterAssumption
<1>1. CASE inv' = inv /\ misread' = misread
  BY <1>0, <1>1 DEF BooksInv, Within, In, Invoices
<1>2. ASSUME NEW i \in Invoice, OneRow(i)
      PROVE  /\ inv' \in [Invoice -> InvoiceRow \cup {None}]
             /\ Invoices \subseteq Invoices' /\ Within'
  <2>1. PICK new \in InvoiceRow : new = inv'[i]
    BY <1>2 DEF OneRow
  <2>2. /\ inv' = [inv EXCEPT ![i] = new] /\ misread \subseteq misread'
        /\ inv' \in [Invoice -> InvoiceRow \cup {None}]
        /\ \A j \in Invoice \ {i} : inv'[j] = inv[j]
        /\ Invoices' = Invoices \cup {i}
    BY <1>0, <1>2, <2>1 DEF OneRow, Invoices
  <2>3. new.total \in Nat /\ new.paid \in Nat
    BY <2>1 DEF InvoiceRow, RegisterAssumption
  <2>4. i \notin misread' => new.paid <= new.total /\ (new.status = "DRAFT" => new.paid = 0)
    <3> SUFFICES ASSUME i \notin misread'
                 PROVE  new.paid <= new.total /\ (new.status = "DRAFT" => new.paid = 0)
      OBVIOUS
    <3>1. i \in Invoices => /\ inv[i].paid <= inv[i].total
                            /\ inv[i].status = "DRAFT" => inv[i].paid = 0
                            /\ inv[i].paid \in Nat /\ inv[i].total \in Nat
      BY <2>2, RowsOfTheBooks DEF BooksInv, Within, In
    <3>2. CASE Drafted(i)
      BY <2>1, <2>3, <3>2 DEF Drafted
    <3>3. CASE i \in Invoices /\ Redrafted(i)
      BY <2>1, <2>3, <3>1, <3>3 DEF Redrafted
    <3>4. CASE i \in Invoices /\ PaidMore(i)
      BY <2>1, <2>3, <3>1, <3>4 DEF PaidMore
    <3>5. CASE i \in Invoices /\ FellDue(i)
      BY <2>1, <2>3, <3>1, <3>5 DEF FellDue
    <3> QED BY <1>2, <3>2, <3>3, <3>4, <3>5 DEF OneRow, WrittenOver
  <2>5. Within'
    <3>1. ASSUME NEW j \in Invoices' \ misread'
          PROVE  inv'[j].paid <= inv'[j].total /\ (inv'[j].status = "DRAFT" => inv'[j].paid = 0)
      <4>1. CASE j = i
        BY <2>1, <2>4, <4>1
      <4>2. CASE j # i
        BY <2>2, <4>2 DEF BooksInv, Within, In, Invoices
      <4> QED BY <4>1, <4>2
    <3> QED BY <3>1 DEF Within, In
  <2> QED BY <2>2, <2>5
<1> QED BY <1>1, <1>2, NextInvoice DEF InvoiceStep

LEMMA NextStaff ==
    ASSUME RegisterAssumption, BooksInv, [Next]_vars
    PROVE  staff' \in [Staff -> StaffRow \cup {None}]
<1>1. ASSUME NEW r \in Request, InsertStaff(r), staff' # staff
      PROVE  staff' \in [Staff -> StaffRow \cup {None}]
  <2>1. PICK s, number : s = req[r].at /\ number = req[r].number
    OBVIOUS
  <2>2. s \in Staff /\ r \in Creating
    BY <1>1, <2>1 DEF InsertStaff, Creating
  <2>3. number \in {c \in Counters : c[1] = "staff"} \X Nat
    BY <2>1, <2>2 DEF BooksInv, Claims
  <2>4. PICK row : row = [code |-> number, active |-> TRUE, present |-> 0]
    OBVIOUS
  <2>5. row \in StaffRow
    BY <2>3, <2>4 DEF StaffRow
  <2>6. staff' = [staff EXCEPT ![s] = row]
    BY <1>1, <2>1, <2>4 DEF InsertStaff
  <2> QED BY <2>2, <2>5, <2>6 DEF BooksInv, Forms
<1>2. ASSUME NEW s \in Staff,
             \/ \E r \in Request, active \in BOOLEAN : StaffChange(r, s, active)
             \/ MarkPresent(s)
      PROVE  staff' \in [Staff -> StaffRow \cup {None}]
  <2>1. s \in Hired /\ staff[s] \in StaffRow
    BY <1>2 DEF StaffChange, MarkPresent, Hired, BooksInv, Forms
  <2>2. PICK old \in StaffRow : old = staff[s]
    BY <2>1
  <2>3. CASE \E r \in Request, active \in BOOLEAN : StaffChange(r, s, active)
    <3>1. PICK active \in BOOLEAN : staff' = [staff EXCEPT ![s].active = active]
      BY <2>3 DEF StaffChange
    <3>2. PICK new : new = [old EXCEPT !.active = active]
      OBVIOUS
    <3>3. new \in StaffRow /\ staff' = [staff EXCEPT ![s] = new]
      BY <2>2, <3>1, <3>2 DEF StaffRow
    <3> QED BY <3>3 DEF BooksInv, Forms
  <2>4. CASE MarkPresent(s)
    <3>2. PICK new : new = [old EXCEPT !.present = 1]
      OBVIOUS
    <3>3. new \in StaffRow /\ staff' = [staff EXCEPT ![s] = new]
      BY <2>2, <2>4, <3>2 DEF StaffRow, MarkPresent
    <3> QED BY <3>3 DEF BooksInv, Forms
  <2> QED BY <1>2, <2>3, <2>4
<1>3. CASE staff' = staff
  BY <1>3 DEF BooksInv, Forms
<1> QED
  BY <1>1, <1>2, <1>3
     DEF Next, Drop, Fill, Fail, InsertInvoice, TakeNumber, LookUp, Edit, Pay, Cancel, Send,
         MarkOverdue, WriteRow, Read, Expire, RedisLost, vars, rowVars

LEMMA NextForms == RegisterAssumption /\ BooksInv /\ [Next]_vars => Forms'
<1> SUFFICES ASSUME RegisterAssumption, BooksInv, [Next]_vars PROVE Forms'
  OBVIOUS
<1>1. RequestStep
  BY NextRequests DEF BooksInv
<1>2. inv' \in [Invoice -> InvoiceRow \cup {None}] /\ Invoices \subseteq Invoices'
  BY NextInvoices
<1>3. staff' \in [Staff -> StaffRow \cup {None}]
  BY NextStaff
<1>4. seq' \in [Counters -> Nat]
  <2>1. seq \in [Counters -> Nat]
    BY DEF BooksInv, Forms
  <2>2. ASSUME NEW r \in Request, NEW id \in Invoice \cup Staff, NEW c \in Counters,
               TakeNumber(r, id, c)
        PROVE  seq' \in [Counters -> Nat]
    BY <2>1, <2>2 DEF TakeNumber
  <2>3. CASE RedisLost
    BY <2>3 DEF RedisLost
  <2>4. CASE seq' = seq
    BY <2>1, <2>4
  <2> QED
    BY <2>2, <2>3, <2>4
       DEF Next, InsertStaff, Drop, Fill, Fail, InsertInvoice, LookUp, Edit, Pay, Cancel, Send,
           MarkOverdue, WriteRow, StaffChange, Read, MarkPresent, Expire, vars
<1>5. ASSUME NEW q \in Request, req'[q].op \in Handlers
      PROVE  /\ req'[q].at \in Invoices' /\ req'[q].read \in InvoiceRow
             /\ req'[q].read.status \in Opens[req'[q].op]
  <2>1. CASE SameTask(q)
    BY <1>2, <1>5, <2>1 DEF SameTask, BooksInv, Forms
  <2>2. CASE Looking(q)
    <3>1. req'[q].at \in Invoices
      BY <2>2 DEF Looking, In
    <3> QED BY <1>2, <2>2, <3>1, RowsOfTheBooks DEF Looking, In, BooksInv
  <2> QED BY <1>1, <1>5, <2>1, <2>2 DEF RequestStep, Taking, Handlers
<1> QED BY <1>1, <1>2, <1>3, <1>4, <1>5 DEF Forms, RequestStep

-----------------------------------------------------------------------------
\* The steps that neither number nor insert.
Bookkeeping ==
    \/ \E r \in Request :
         \/ Drop(r) \/ Fill(r) \/ Fail(r) \/ Writing(r)
         \/ \E op \in Handlers, i \in Invoice : LookUp(r, op, i)
         \/ \E s \in Staff, active \in BOOLEAN : StaffChange(r, s, active)
         \/ \E list \in Lists : Read(r, list)
    \/ \E s \in Staff : MarkPresent(s)
    \/ \E list \in Lists : Expire(list)
    \/ UNCHANGED vars

LEMMA BookkeepingAddsNothing ==
    ASSUME RegisterAssumption, BooksInv, Bookkeeping
    PROVE  /\ \A i \in Invoices' : i \in Invoices /\ inv'[i].number = inv[i].number
           /\ \A s \in Hired' : s \in Hired /\ staff'[s].code = staff[s].code
           /\ \A q \in Creating' : /\ q \in Creating
                                   /\ req'[q].number = req[q].number /\ req'[q].at = req[q].at
<1>1. \A i \in Invoices' : i \in Invoices /\ inv'[i].number = inv[i].number
  <2>1. CASE UNCHANGED inv
    BY <2>1 DEF Invoices
  <2>2. ASSUME NEW r \in Request, Writing(r)
        PROVE  \A i \in Invoices' : i \in Invoices /\ inv'[i].number = inv[i].number
    <3>1. PICK i \in Invoices : OneRow(i) /\ inv'[i].number = inv[i].number
      BY <2>2, WriteStep
    <3>2. \A j \in Invoice \ {i} : inv'[j] = inv[j]
      BY <3>1 DEF OneRow, BooksInv, Forms
    <3> QED BY <3>1, <3>2 DEF Invoices
  <2> QED BY <2>1, <2>2, InvoicesStay DEF Bookkeeping
<1>2. \A s \in Hired' : s \in Hired /\ staff'[s].code = staff[s].code
  <2>1. CASE UNCHANGED staff
    BY <2>1 DEF Hired
  <2>2. ASSUME NEW s \in Staff,
               MarkPresent(s) \/ \E r \in Request, active \in BOOLEAN : StaffChange(r, s, active)
        PROVE  \A t \in Hired' : t \in Hired /\ staff'[t].code = staff[t].code
    <3>1. PICK old \in StaffRow : old = staff[s] /\ s \in Hired
      BY <2>2 DEF MarkPresent, StaffChange, BooksInv, Forms, Hired
    <3>2. \E new : staff' = [staff EXCEPT ![s] = new] /\ new.code = old.code
      <4>1. CASE MarkPresent(s)
        <5>1. [old EXCEPT !.present = 1].code = old.code
          BY DEF StaffRow
        <5> QED BY <3>1, <4>1, <5>1 DEF MarkPresent
      <4>2. ASSUME NEW r \in Request, NEW active \in BOOLEAN, StaffChange(r, s, active)
            PROVE  \E new : staff' = [staff EXCEPT ![s] = new] /\ new.code = old.code
        <5>1. [old EXCEPT !.active = active].code = old.code
          BY DEF StaffRow
        <5> QED BY <3>1, <4>2, <5>1 DEF StaffChange
      <4> QED BY <2>2, <4>1, <4>2
    <3>3. staff'[s].code = staff[s].code /\ \A t \in Staff \ {s} : staff'[t] = staff[t]
      BY <3>1, <3>2 DEF BooksInv, Forms
    <3> QED BY <3>1, <3>3 DEF Hired
  <2> QED
    BY <2>1, <2>2
       DEF Bookkeeping, Writing, Drop, Fill, Fail, LookUp, Edit, Pay, Cancel, Send, MarkOverdue,
           WriteRow, Read, Expire, vars, rowVars
<1>3. ASSUME NEW q \in Creating'
      PROVE  /\ q \in Creating
             /\ req'[q].number = req[q].number /\ req'[q].at = req[q].at
  <2>1. RequestStep
    <3>1. [Next]_vars
      BY DEF Bookkeeping, Writing, Next
    <3> QED BY <3>1, NextRequests DEF BooksInv
  <2>2. ~Taking(q)
    <3>1. UNCHANGED seq
      BY DEF Bookkeeping, Writing, Drop, Fill, Fail, LookUp, Edit, Pay, Cancel, Send, MarkOverdue,
             WriteRow, StaffChange, Read, MarkPresent, Expire, vars
    <3>2. ASSUME NEW id, NEW c \in Counters, TakeNumber(q, id, c) PROVE FALSE
      <4>1. seq[c] \in Nat /\ seq'[c] = seq[c] + 1
        BY <3>2 DEF TakeNumber, BooksInv, Forms
      <4> QED BY <3>1, <4>1
    <3> QED BY <3>2 DEF Taking
  <2>3. q \in Request /\ req'[q].op = "create"
    BY DEF Creating
  <2> QED BY <2>1, <2>2, <2>3 DEF RequestStep, SameTask, Looking, Handlers, Creating
<1> QED BY <1>1, <1>2, <1>3

\* A request to create comes with a claim of its own, and a row is added for
\* the claim of the request that ends.
LEMMA NextClaims == RegisterAssumption /\ BooksInv /\ [Next]_vars => Claims'
<1> SUFFICES ASSUME RegisterAssumption, BooksInv, [Next]_vars PROVE Claims'
  OBVIOUS
<1>s. Forms /\ Claims
  BY DEF BooksInv
<1>1. ASSUME \A r \in Creating' :
               /\ r \in Creating /\ req[r].at \notin Invoices' \cup Hired'
               /\ req'[r].number = req[r].number /\ req'[r].at = req[r].at
      PROVE  Claims'
  BY <1>s, <1>1 DEF Claims
<1>2. ASSUME NEW r \in Request, NEW id \in Invoice \cup Staff, NEW c \in Counters,
             TakeNumber(r, id, c)
      PROVE  Claims'
  <2>1. PICK number : number = <<c, seq[c] + 1>>
    OBVIOUS
  <2>2. number \in Counters \X Nat /\ number[1] = c
    BY <1>s, <2>1 DEF Forms
  <2>3. /\ UNCHANGED <<inv, staff>> /\ req'[r].number = number /\ req'[r].at = id
        /\ \A q \in Request \ {r} : req'[q] = req[q]
        /\ r \notin Creating
    BY <1>s, <1>2, <2>1 DEF TakeNumber, Start, rowVars, Forms, Idle, Creating
  <2>4. Invoices' = Invoices /\ Hired' = Hired
    BY <2>3 DEF Invoices, Hired
  <2>5. id \notin Invoices \cup Hired /\ \A q \in Request : req[q].at # id
        /\ (id \in Staff => c[1] = "staff")
    BY <1>2 DEF TakeNumber, New
  <2>6. Creating' \subseteq Creating \cup {r}
    BY <2>3 DEF Creating
  <2>7. \A q \in Creating' :
          /\ req'[q].number \in Counters \X Nat
          /\ req'[q].at \in Staff => req'[q].number[1][1] = "staff"
          /\ req'[q].at \notin Invoices \cup Hired
    <3> SUFFICES ASSUME NEW q \in Creating'
                 PROVE  /\ req'[q].number \in Counters \X Nat
                        /\ req'[q].at \in Staff => req'[q].number[1][1] = "staff"
                        /\ req'[q].at \notin Invoices \cup Hired
      OBVIOUS
    <3>1. CASE q = r
      BY <2>2, <2>3, <2>5, <3>1
    <3>2. CASE q # r
      BY <1>s, <2>3, <2>6, <3>2 DEF Claims, Creating
    <3> QED BY <3>1, <3>2
  <2>8. \A q1, q2 \in Creating' : req'[q1].at = req'[q2].at => q1 = q2
    BY <1>s, <2>3, <2>5, <2>6 DEF Claims, Creating
  <2> QED BY <2>4, <2>7, <2>8 DEF Claims
<1>3. ASSUME NEW r \in Request, InsertStaff(r) \/ \E total \in Total : InsertInvoice(r, total)
      PROVE  Claims'
  <2>1. PICK id : id = req[r].at
    OBVIOUS
  <2>2. r \in Creating /\ \A q \in Creating \ {r} : req[q].at # id
    BY <1>s, <1>3, <2>1 DEF InsertStaff, InsertInvoice, Creating, Claims
  <2>3. Invoices' \subseteq Invoices \cup {id} /\ Hired' \subseteq Hired \cup {id}
    <3>1. CASE InsertStaff(r)
      BY <1>s, <2>1, <3>1 DEF InsertStaff, Invoices, Hired, Forms
    <3>2. CASE \E total \in Total : InsertInvoice(r, total)
      BY <1>s, <2>1, <3>2 DEF InsertInvoice, Invoices, Hired, Forms
    <3> QED BY <1>3, <3>1, <3>2
  <2>4. r \notin Creating' /\ \A q \in Request \ {r} : req'[q] = req[q]
    <3> DEFINE drop(list) == [Idle EXCEPT !.op = "drop", !.at = list]
    <3>1. Idle.op # "create" /\ \A list : drop(list).op = "drop"
      BY DEF Idle
    <3>2. req' = [req EXCEPT ![r] = Idle] \/ \E list : req' = [req EXCEPT ![r] = drop(list)]
      <4>1. CASE InsertStaff(r)
        BY <4>1 DEF InsertStaff, Then, Finish
      <4>2. CASE \E total \in Total : InsertInvoice(r, total)
        BY <4>2 DEF InsertInvoice, Then, Finish
      <4> QED BY <1>3, <4>1, <4>2
    <3> HIDE DEF drop
    <3> QED BY <1>s, <3>1, <3>2 DEF Forms, Creating
  <2>5. \A q \in Creating' : q \in Creating \ {r} /\ req'[q] = req[q]
    BY <2>4 DEF Creating
  <2> QED BY <1>1, <1>s, <2>2, <2>3, <2>5 DEF Claims
<1>4. CASE Bookkeeping
  <2>2. /\ \A i \in Invoices' : i \in Invoices /\ inv'[i].number = inv[i].number
        /\ \A s \in Hired' : s \in Hired /\ staff'[s].code = staff[s].code
        /\ \A q \in Creating' : /\ q \in Creating
                                /\ req'[q].number = req[q].number /\ req'[q].at = req[q].at
    BY <1>4, BookkeepingAddsNothing
  <2> QED BY <1>1, <1>s, <2>2 DEF Claims
<1>5. CASE RedisLost
  <2>1. UNCHANGED <<inv, staff, req>>
    BY <1>5 DEF RedisLost, rowVars
  <2> QED BY <1>s, <2>1 DEF Claims, Creating, Invoices, Hired
<1> QED BY <1>2, <1>3, <1>4, <1>5 DEF Next, Bookkeeping, Writing

LEMMA BooksInvHolds == RegisterAssumption => (Spec => []BooksInv)
<1> SUFFICES ASSUME RegisterAssumption PROVE Spec => []BooksInv
  OBVIOUS
<1>1. Init => BooksInv
  BY InitBooks
<1>2. BooksInv /\ [Next]_vars => BooksInv'
  BY NextForms, NextInvoices, NextClaims DEF BooksInv
<1> QED BY <1>1, <1>2, PTL DEF Spec

-----------------------------------------------------------------------------
\* A number a counter has given out.
Issued(number) ==
    number[1] \in Counters /\ number[2] \in Nat /\ number[2] <= seq[number[1]]

\* What is in a register or about to be was given out, to one request only,
\* which is still to use it.
NumbersHeld ==
    /\ \A i \in Invoices : Issued(inv[i].number)
    /\ \A s \in Hired : Issued(staff[s].code)
    /\ \A r \in Creating : Issued(req[r].number) /\ ~Taken(req[r].number)
    /\ \A r1, r2 \in Creating : req[r1].number = req[r2].number => r1 = r2

NumbersInv == lost \/ (NumbersHeld /\ ~refused)

\* Steps that put nothing into a register and start no create.
LEMMA NothingNew ==
    ASSUME NumbersHeld, UNCHANGED seq,
           \A i \in Invoices' : i \in Invoices /\ inv'[i].number = inv[i].number,
           \A s \in Hired' : s \in Hired /\ staff'[s].code = staff[s].code,
           \A r \in Creating' : r \in Creating /\ req'[r].number = req[r].number
    PROVE  NumbersHeld'
<1>1. \A n : Issued(n) => Issued(n)'
  BY DEF Issued
<1>2. \A n : Taken(n)' => Taken(n)
  BY DEF Taken
<1> QED
  BY <1>1, <1>2 DEF NumbersHeld

\* INCR gives out a number nobody has.
LEMMA FreshNumber ==
    ASSUME Forms, NumbersHeld, NEW r \in Request, NEW id, NEW c \in Counters,
           TakeNumber(r, id, c)
    PROVE  NumbersHeld'
<1>0. PICK number : number = <<c, seq[c] + 1>>
  OBVIOUS
<1>1. /\ seq[c] \in Nat /\ seq' = [seq EXCEPT ![c] = seq[c] + 1]
      /\ seq'[c] = seq[c] + 1 /\ \A x \in Counters \ {c} : seq'[x] = seq[x]
      /\ number[1] = c /\ number[2] = seq[c] + 1
  BY <1>0 DEF TakeNumber, Forms
<1>2. /\ UNCHANGED <<inv, staff>> /\ req'[r].number = number
      /\ \A q \in Request \ {r} : req'[q] = req[q]
      /\ r \notin Creating
  BY <1>0 DEF TakeNumber, Start, rowVars, Forms, Idle, Creating
<1>3. \A n : Issued(n) => Issued(n)'
  <2> SUFFICES ASSUME NEW n, Issued(n) PROVE Issued(n)'
    OBVIOUS
  <2>1. n[1] \in Counters /\ n[2] \in Nat /\ n[2] <= seq[n[1]] /\ seq[n[1]] \in Nat
    BY DEF Issued, Forms
  <2>2. CASE n[1] = c
    BY <1>1, <2>1, <2>2 DEF Issued
  <2>3. CASE n[1] # c
    BY <1>1, <2>1, <2>3 DEF Issued
  <2> QED BY <2>2, <2>3
<1>4. Issued(number)' /\ ~Issued(number)
  BY <1>1 DEF Issued
<1>5. ~Taken(number) /\ \A q \in Creating : req[q].number # number
  BY <1>4 DEF NumbersHeld, Taken
<1>6. \A n : Taken(n)' <=> Taken(n)
  BY <1>2 DEF Taken, Invoices, Hired
<1>7. /\ Creating' \subseteq Creating \cup {r}
      /\ \A q \in Creating' \ {r} : req'[q].number = req[q].number
  BY <1>2 DEF Creating
<1>8. Invoices' = Invoices /\ Hired' = Hired
  BY <1>2 DEF Invoices, Hired
<1>9. (/\ \A i \in Invoices : Issued(inv[i].number)
       /\ \A s \in Hired : Issued(staff[s].code))'
  BY <1>2, <1>3, <1>8 DEF NumbersHeld
<1>10. (\A q \in Creating : Issued(req[q].number) /\ ~Taken(req[q].number))'
  BY <1>2, <1>3, <1>4, <1>5, <1>6, <1>7 DEF NumbersHeld
<1>11. \A q1, q2 \in Creating' : req'[q1].number = req'[q2].number => q1 = q2
  BY <1>2, <1>5, <1>7 DEF NumbersHeld
<1> QED BY <1>9, <1>10, <1>11 DEF NumbersHeld

\* A create finds its number free, and its request is done with it.
LEMMA InsertAccepted ==
    ASSUME Forms, NumbersHeld, ~refused, NEW r \in Request,
           InsertStaff(r) \/ \E total \in Total : InsertInvoice(r, total)
    PROVE  NumbersHeld' /\ ~refused'
<1>0. PICK number : number = req[r].number
  OBVIOUS
<1>1. r \in Creating /\ UNCHANGED seq
  BY DEF InsertStaff, InsertInvoice, Creating
<1>2. ~Taken(number) /\ Issued(number)
  BY <1>0, <1>1 DEF NumbersHeld
<1>3. /\ ~refused'
      /\ r \notin Creating'
      /\ \A q \in Request \ {r} : req'[q] = req[q]
  <2> DEFINE drop(list) == [Idle EXCEPT !.op = "drop", !.at = list]
  <2>1. \A list : drop(list).op = "drop"
    BY DEF Idle
  <2>2. ~refused' /\ \E list : req' = [req EXCEPT ![r] = drop(list)]
    <3>1. CASE InsertStaff(r)
      BY <1>0, <1>2, <3>1 DEF InsertStaff, Then
    <3>2. CASE \E total \in Total : InsertInvoice(r, total)
      BY <1>0, <1>2, <3>2 DEF InsertInvoice, Then
    <3> QED BY <3>1, <3>2
  <2> HIDE DEF drop
  <2> QED BY <2>1, <2>2 DEF Forms, Creating
<1>4. /\ \A i \in Invoices' : (i \in Invoices /\ inv'[i].number = inv[i].number)
                                \/ inv'[i].number = number
      /\ \A s \in Hired' : (s \in Hired /\ staff'[s].code = staff[s].code)
                                \/ staff'[s].code = number
  <2>1. CASE InsertStaff(r)
    BY <1>0, <1>2, <2>1 DEF InsertStaff, Forms, Invoices, Hired
  <2>2. CASE \E total \in Total : InsertInvoice(r, total)
    BY <1>0, <1>2, <2>2 DEF InsertInvoice, Forms, Invoices, Hired
  <2> QED BY <2>1, <2>2
<1>5. \A n : Issued(n) => Issued(n)'
  BY <1>1 DEF Issued
<1>6. \A n : Taken(n)' => Taken(n) \/ n = number
  BY <1>4 DEF Taken
<1>7. \A q \in Creating' : q \in Creating \ {r} /\ req'[q].number = req[q].number
  BY <1>3 DEF Creating
<1>8. \A q \in Creating \ {r} : req[q].number # number
  BY <1>0, <1>1 DEF NumbersHeld
<1>9. (/\ \A i \in Invoices : Issued(inv[i].number)
       /\ \A s \in Hired : Issued(staff[s].code))'
  BY <1>2, <1>4, <1>5 DEF NumbersHeld
<1>10. (\A q \in Creating : Issued(req[q].number) /\ ~Taken(req[q].number))'
  BY <1>5, <1>6, <1>7, <1>8 DEF NumbersHeld
<1> QED
  BY <1>3, <1>7, <1>9, <1>10 DEF NumbersHeld

LEMMA NextNumbers == RegisterAssumption /\ BooksInv /\ NumbersInv /\ [Next]_vars => NumbersInv'
<1> SUFFICES ASSUME RegisterAssumption, BooksInv, NumbersInv, [Next]_vars PROVE NumbersInv'
  OBVIOUS
<1>g. lost => lost'
  BY DEF Next, InsertStaff, Drop, Fill, Fail, InsertInvoice, TakeNumber, LookUp, Edit, Pay, Cancel,
         Send, MarkOverdue, WriteRow, StaffChange, MarkPresent, Read, Expire, RedisLost, vars
<1>l. CASE lost
  BY <1>g, <1>l DEF NumbersInv
<1>n. CASE ~lost
  <2>h. Forms /\ NumbersHeld /\ ~refused
    BY <1>n DEF NumbersInv, BooksInv
  <2>1. ASSUME NEW r \in Request, InsertStaff(r) \/ \E total \in Total : InsertInvoice(r, total)
        PROVE  NumbersInv'
    BY <2>h, <2>1, InsertAccepted DEF NumbersInv
  <2>2. ASSUME NEW r \in Request, NEW id \in Invoice \cup Staff, NEW c \in Counters,
               TakeNumber(r, id, c)
        PROVE  NumbersInv'
    <3>1. refused' = refused
      BY <2>2 DEF TakeNumber
    <3> QED BY <2>h, <2>2, <3>1, FreshNumber DEF NumbersInv
  <2>3. CASE Bookkeeping
    <3>1. UNCHANGED <<seq, refused>>
      BY <2>3 DEF Bookkeeping, Writing, Drop, Fill, Fail, LookUp, Edit, Pay, Cancel, Send,
                  MarkOverdue, WriteRow, StaffChange, Read, MarkPresent, Expire, vars
    <3> QED BY <2>h, <2>3, <3>1, BookkeepingAddsNothing, NothingNew DEF NumbersInv
  <2>5. CASE RedisLost
    BY <2>5 DEF RedisLost, NumbersInv
  <2> QED BY <2>1, <2>2, <2>3, <2>5 DEF Next, Bookkeeping, Writing
<1> QED BY <1>l, <1>n

\* The unique index refuses the create of an invoice or of a staff member only
\* after Redis has lost its counters (RUNBOOK), however many requests number
\* at once.
THEOREM NumbersAreUnique == RegisterAssumption => (Spec => []RefusedOnlyAfterLoss)
<1> SUFFICES ASSUME RegisterAssumption PROVE Spec => []RefusedOnlyAfterLoss
  OBVIOUS
<1>1. NumbersInv => RefusedOnlyAfterLoss
  BY DEF NumbersInv, RefusedOnlyAfterLoss
<1>2. Init => NumbersInv
  BY DEF Init, NumbersInv, NumbersHeld, Creating, Idle, Invoices, Hired
<1>3. BooksInv /\ NumbersInv /\ [Next]_vars => NumbersInv'
  BY NextNumbers
<1> QED BY <1>1, <1>2, <1>3, BooksInvHolds, PTL DEF Spec

-----------------------------------------------------------------------------
\* The amounts the reports add up, by invoice.
Totals == [i \in Invoices |-> inv[i].total]
Paids == [i \in Invoices |-> inv[i].paid]
Owing == [i \in Invoices |-> Owed(i)]
Collected == In({"PAID", "PARTIAL"})

LEMMA InvoicesFinite ==
    ASSUME RegisterAssumption, NEW statuses
    PROVE  IsFiniteSet(Invoices) /\ IsFiniteSet(In(statuses))
<1>1. Invoices \in SUBSET Invoice /\ In(statuses) \in SUBSET Invoice
  BY DEF Invoices, In
<1> QED BY <1>1, FS_Subset DEF RegisterAssumption

LEMMA TotalsAdd ==
    ASSUME NEW S \in SUBSET Invoices
    PROVE  Sum(LAMBDA i : inv[i].total, S) = SumOver(Totals, S)
<1>1. PICK f, g : f = inv /\ g = Totals
  OBVIOUS
<1>2. \A i \in S : f[i].total = g[i]
  BY <1>1 DEF Totals
<1> DEFINE Added(h) == [s \in SUBSET S |-> IF s = {} THEN 0
                                           ELSE f[Chosen(s)].total + h[s \ {Chosen(s)}]]
<1>3. \A h : h = Added(h) <=> IsSum(g, S, h)
  <2>1. \A s \in SUBSET S : s # {} => Chosen(s) \in S
    BY ChosenIsIn
  <2> QED BY <1>2, <2>1 DEF IsSum, SumStep
<1>4. Sum(LAMBDA i : inv[i].total, S) = (CHOOSE h : h = Added(h))[S]
  BY <1>1 DEF Sum, MapThenSumSet, MapThenFoldSet, Chosen
<1>5. SumOver(g, S) = (CHOOSE h : IsSum(g, S, h))[S]
  BY DEF SumOver, MapThenSumSet, MapThenFoldSet, IsSum, SumStep, Chosen
<1>6. (CHOOSE h : h = Added(h)) = CHOOSE h : IsSum(g, S, h)
  BY <1>3
<1> QED BY <1>1, <1>4, <1>5, <1>6

LEMMA PaidsAdd ==
    ASSUME NEW S \in SUBSET Invoices
    PROVE  Sum(LAMBDA i : inv[i].paid, S) = SumOver(Paids, S)
<1>1. PICK f, g : f = inv /\ g = Paids
  OBVIOUS
<1>2. \A i \in S : f[i].paid = g[i]
  BY <1>1 DEF Paids
<1> DEFINE Added(h) == [s \in SUBSET S |-> IF s = {} THEN 0
                                           ELSE f[Chosen(s)].paid + h[s \ {Chosen(s)}]]
<1>3. \A h : h = Added(h) <=> IsSum(g, S, h)
  <2>1. \A s \in SUBSET S : s # {} => Chosen(s) \in S
    BY ChosenIsIn
  <2> QED BY <1>2, <2>1 DEF IsSum, SumStep
<1>4. Sum(LAMBDA i : inv[i].paid, S) = (CHOOSE h : h = Added(h))[S]
  BY <1>1 DEF Sum, MapThenSumSet, MapThenFoldSet, Chosen
<1>5. SumOver(g, S) = (CHOOSE h : IsSum(g, S, h))[S]
  BY DEF SumOver, MapThenSumSet, MapThenFoldSet, IsSum, SumStep, Chosen
<1>6. (CHOOSE h : h = Added(h)) = CHOOSE h : IsSum(g, S, h)
  BY <1>3
<1> QED BY <1>1, <1>4, <1>5, <1>6

LEMMA OwedAdd ==
    ASSUME NEW S \in SUBSET Invoices
    PROVE  Sum(Owed, S) = SumOver(Owing, S)
<1>1. PICK f, g : f = inv /\ g = Owing
  OBVIOUS
<1>2. \A i \in S : f[i].total - f[i].paid = g[i]
  BY <1>1 DEF Owing, Owed
<1> DEFINE Added(h) == [s \in SUBSET S |-> IF s = {} THEN 0
                                           ELSE (f[Chosen(s)].total - f[Chosen(s)].paid)
                                                  + h[s \ {Chosen(s)}]]
<1>3. \A h : h = Added(h) <=> IsSum(g, S, h)
  <2>1. \A s \in SUBSET S : s # {} => Chosen(s) \in S
    BY ChosenIsIn
  <2> QED BY <1>2, <2>1 DEF IsSum, SumStep
<1>4. Sum(Owed, S) = (CHOOSE h : h = Added(h))[S]
  BY <1>1 DEF Sum, MapThenSumSet, MapThenFoldSet, Chosen, Owed
<1>5. SumOver(g, S) = (CHOOSE h : IsSum(g, S, h))[S]
  BY DEF SumOver, MapThenSumSet, MapThenFoldSet, IsSum, SumStep, Chosen
<1>6. (CHOOSE h : h = Added(h)) = CHOOSE h : IsSum(g, S, h)
  BY <1>3
<1> QED BY <1>1, <1>4, <1>5, <1>6

LEMMA GstIsSum == GstSummary = SumOver(Totals, Gstr1)
<1>1. PICK S \in SUBSET Invoices : S = Gstr1
  BY DEF Gstr1, In
<1>2. Sum(LAMBDA i : inv[i].total, S) = SumOver(Totals, S)
  BY TotalsAdd
<1> QED BY <1>1, <1>2 DEF GstSummary, Gstr1, Sum, MapThenSumSet, MapThenFoldSet

LEMMA CollectedIsSum == ProfitLoss.collected = SumOver(Paids, Collected)
<1>1. PICK S \in SUBSET Invoices : S = Collected
  BY DEF Collected, In
<1>2. Sum(LAMBDA i : inv[i].paid, S) = SumOver(Paids, S)
  BY PaidsAdd
<1>3. ProfitLoss.collected = Sum(LAMBDA i : inv[i].paid, In({"PAID", "PARTIAL"}))
  BY DEF ProfitLoss
<1> QED BY <1>1, <1>2, <1>3 DEF Collected, Sum, MapThenSumSet, MapThenFoldSet

\* The sums are of numbers that are not negative.
Amounts ==
    /\ \A i \in Invoices : Totals[i] \in Nat /\ Paids[i] \in Nat
    /\ GstSummary \in Nat /\ ProfitLoss.collected \in Nat

LEMMA AmountsAreNatural == RegisterAssumption /\ BooksInv => Amounts
<1> SUFFICES ASSUME RegisterAssumption, BooksInv PROVE Amounts
  OBVIOUS
<1>1. \A i \in Invoices : Totals[i] \in Nat /\ Paids[i] \in Nat
  BY RowsOfTheBooks DEF Totals, Paids, BooksInv
<1>2. /\ IsFiniteSet(Gstr1) /\ IsFiniteSet(Collected)
      /\ Gstr1 \subseteq Invoices /\ Collected \subseteq Invoices
  BY InvoicesFinite DEF Gstr1, Collected, In
<1>3. PICK f, g, S, T : f = Totals /\ g = Paids /\ S = Gstr1 /\ T = Collected
  OBVIOUS
<1>4. SumOver(f, S) \in Nat
  <2>1. \A i \in S : f[i] \in Nat /\ f[i] \in Int
    BY <1>1, <1>2, <1>3
  <2> QED BY <1>2, <1>3, <2>1, SumOverAdds
<1>5. SumOver(g, T) \in Nat
  <2>1. \A i \in T : g[i] \in Nat /\ g[i] \in Int
    BY <1>1, <1>2, <1>3
  <2> QED BY <1>2, <1>3, <2>1, SumOverAdds
<1> QED BY <1>1, <1>3, <1>4, <1>5, GstIsSum, CollectedIsSum DEF Amounts

\* A step that finds no invoice overdue takes none out of the reports.
LEMMA NothingLeaves ==
    ASSUME RegisterAssumption, BooksInv, BooksInv', NEW i \in Invoice, OneRow(i),
           ~\E j \in Invoices : inv[j].status # "OVERDUE" /\ inv'[j].status = "OVERDUE",
           ~\E r \in Request : Overwrites(r)
    PROVE  /\ GstSummary' >= GstSummary /\ ProfitLoss'.collected >= ProfitLoss.collected
           /\ Gstr1 \subseteq Gstr1'
<1>0. Amounts /\ Amounts'
  <2>1. RegisterAssumption'
    BY DEF RegisterAssumption
  <2> QED BY <2>1, AmountsAreNatural, PTL
<1>1. /\ \A j \in Invoice \ {i} : inv'[j] = inv[j]
      /\ Drafted(i) \/ (i \in Invoices /\ (Redrafted(i) \/ PaidMore(i)))
      /\ i \in Invoices'
  BY DEF OneRow, BooksInv, Forms, FellDue, WrittenOver, Invoices, RegisterAssumption
<1>2. Gstr1 \subseteq Gstr1' /\ Gstr1' \subseteq Gstr1 \cup {i}
      /\ Collected \subseteq Collected' /\ Collected' \subseteq Collected \cup {i}
  <2>1. CASE Drafted(i)
    BY <1>1, <2>1 DEF Drafted, Gstr1, Collected, In, Invoices
  <2>2. CASE i \in Invoices /\ Redrafted(i)
    BY <1>1, <2>2 DEF Redrafted, Gstr1, Collected, In, Invoices
  <2>3. CASE i \in Invoices /\ PaidMore(i)
    BY <1>1, <2>3 DEF PaidMore, Gstr1, Collected, In, Invoices
  <2> QED BY <1>1, <2>1, <2>2, <2>3
<1>3. /\ \A j \in Invoices : Totals[j] \in Nat /\ Paids[j] \in Nat
      /\ \A j \in Invoices' : Totals'[j] \in Nat /\ Paids'[j] \in Nat
  BY <1>0 DEF Amounts
<1>4. \A j \in Invoices \ {i} : j \in Invoices' /\ Totals'[j] = Totals[j] /\ Paids'[j] = Paids[j]
  BY <1>1 DEF Totals, Paids, Invoices
<1>5. i \in Gstr1 \cup Collected => Totals[i] <= Totals'[i] /\ Paids[i] <= Paids'[i]
  <2> SUFFICES ASSUME i \in Gstr1 \cup Collected
               PROVE  Totals[i] <= Totals'[i] /\ Paids[i] <= Paids'[i]
    OBVIOUS
  <2>1. i \in Invoices /\ inv[i] # None /\ inv[i].status # "DRAFT"
    BY DEF Gstr1, Collected, In, Invoices
  <2>2. PaidMore(i)
    BY <1>1, <2>1 DEF Drafted, Redrafted
  <2>3. /\ Totals[i] = inv[i].total /\ Paids[i] = inv[i].paid
        /\ Totals'[i] = inv'[i].total /\ Paids'[i] = inv'[i].paid
    BY <1>1, <2>1 DEF Totals, Paids
  <2> QED BY <1>1, <1>3, <2>1, <2>2, <2>3 DEF PaidMore
<1>6. PICK f, f1, g, g1, S, S1, T, T1 :
        /\ f = Totals /\ f1 = Totals' /\ g = Paids /\ g1 = Paids'
        /\ S = Gstr1 /\ S1 = Gstr1' /\ T = Collected /\ T1 = Collected'
  OBVIOUS
<1>7. /\ IsFiniteSet(S1) /\ IsFiniteSet(T1) /\ S1 \subseteq Invoices' /\ T1 \subseteq Invoices'
      /\ S \subseteq Invoices /\ T \subseteq Invoices
  <2>1. S1 \in SUBSET Invoice /\ T1 \in SUBSET Invoice
    BY <1>6 DEF Gstr1, Collected, In, Invoices
  <2> QED BY <1>6, <2>1, FS_Subset DEF RegisterAssumption, Gstr1, Collected, In
<1>8. SumOver(f, S) <= SumOver(f1, S1)
  <2>1. /\ \A j \in S : f[j] \in Int
        /\ \A j \in S1 : f1[j] \in Int /\ f1[j] >= 0
        /\ \A j \in S \ {i} : f[j] = f1[j]
        /\ i \in S => f[i] <= f1[i]
    BY <1>3, <1>4, <1>5, <1>6, <1>7
  <2> QED BY <1>2, <1>6, <1>7, <2>1, SumOverGrows
<1>9. SumOver(g, T) <= SumOver(g1, T1)
  <2>1. /\ \A j \in T : g[j] \in Int
        /\ \A j \in T1 : g1[j] \in Int /\ g1[j] >= 0
        /\ \A j \in T \ {i} : g[j] = g1[j]
        /\ i \in T => g[i] <= g1[i]
    BY <1>3, <1>4, <1>5, <1>6, <1>7
  <2> QED BY <1>2, <1>6, <1>7, <2>1, SumOverGrows
<1>10. /\ GstSummary \in Nat /\ ProfitLoss.collected \in Nat
       /\ GstSummary' \in Nat /\ ProfitLoss'.collected \in Nat
  BY <1>0 DEF Amounts
<1>11. /\ GstSummary = SumOver(f, S) /\ ProfitLoss.collected = SumOver(g, T)
       /\ GstSummary' = SumOver(f1, S1) /\ ProfitLoss'.collected = SumOver(g1, T1)
  <2>1. (GstSummary = SumOver(Totals, Gstr1))' /\ (ProfitLoss.collected = SumOver(Paids, Collected))'
    BY GstIsSum, CollectedIsSum, PTL
  <2> QED BY <1>6, <2>1, GstIsSum, CollectedIsSum
<1> QED BY <1>2, <1>8, <1>9, <1>10, <1>11

\* The GST summary, the money collected and the GSTR-1 lose an invoice only as
\* it is found overdue, or as a request writes over a change made since it read:
\* no other step of any request takes anything out of them.
THEOREM ReportsOnlyLoseOverdue == RegisterAssumption => (Spec => ReportsFallOnlyByOverdue)
<1> SUFFICES ASSUME RegisterAssumption PROVE Spec => ReportsFallOnlyByOverdue
  OBVIOUS
<1>1. BooksInv /\ BooksInv' /\ [Next]_vars =>
        [\/ UNCHANGED inv
         \/ /\ GstSummary' >= GstSummary /\ ProfitLoss'.collected >= ProfitLoss.collected
            /\ Gstr1 \subseteq Gstr1'
         \/ \E i \in Invoices : inv[i].status # "OVERDUE" /\ inv'[i].status = "OVERDUE"
         \/ \E r \in Request : Overwrites(r)]_vars
  <2> SUFFICES ASSUME BooksInv, BooksInv', [Next]_vars,
                      ~\E i \in Invoices : inv[i].status # "OVERDUE" /\ inv'[i].status = "OVERDUE",
                      ~\E r \in Request : Overwrites(r)
               PROVE  /\ GstSummary' >= GstSummary
                      /\ ProfitLoss'.collected >= ProfitLoss.collected
                      /\ Gstr1 \subseteq Gstr1'
    OBVIOUS
  <2>1. CASE inv' = inv
    <3>1. GstSummary' = GstSummary /\ ProfitLoss'.collected = ProfitLoss.collected
      <4>1. (GstSummary = SumOver(Totals, Gstr1) /\ ProfitLoss.collected = SumOver(Paids, Collected))'
        BY GstIsSum, CollectedIsSum, PTL
      <4>2. Totals' = Totals /\ Paids' = Paids /\ Gstr1' = Gstr1 /\ Collected' = Collected
        BY <2>1 DEF Totals, Paids, Gstr1, Collected, In, Invoices
      <4> QED BY <4>1, <4>2, GstIsSum, CollectedIsSum
    <3>2. Gstr1' = Gstr1
      BY <2>1 DEF Gstr1, In, Invoices
    <3> QED BY <3>1, <3>2, AmountsAreNatural DEF Amounts
  <2>2. CASE \E i \in Invoice : OneRow(i)
    BY <2>2, NothingLeaves
  <2> QED BY <2>1, <2>2, NextInvoice DEF InvoiceStep
<1> QED BY <1>1, BooksInvHolds, PTL DEF Spec, ReportsFallOnlyByOverdue

-----------------------------------------------------------------------------
LEMMA DisjointCount ==
    ASSUME NEW S, IsFiniteSet(S), NEW T, IsFiniteSet(T), S \cap T = {}
    PROVE  /\ IsFiniteSet(S \cup T) /\ Cardinality(S \cup T) \in Nat
           /\ Cardinality(S \cup T) = Cardinality(S) + Cardinality(T)
<1>1. PICK m \in Nat, n \in Nat : m = Cardinality(S) /\ n = Cardinality(T)
  BY FS_CardinalityType
<1>2. Cardinality(S \cap T) = 0
  BY FS_EmptySet
<1>3. IsFiniteSet(S \cup T)
      /\ Cardinality(S \cup T) = Cardinality(S) + Cardinality(T) - Cardinality(S \cap T)
  BY FS_Union
<1>4. Cardinality(S \cup T) = m + n - 0
  BY <1>1, <1>2, <1>3
<1> QED BY <1>1, <1>3, <1>4

\* The statuses part the invoices, so that the tiles over the list and the
\* cancelled ones add up to all of them.
LEMMA StatusesPart ==
    ASSUME RegisterAssumption, Forms
    PROVE  StatusCounts.paid + StatusCounts.overdue + StatusCounts.pending
             + Cardinality(In({"CANCELLED"})) = Cardinality(Invoices)
<1>1. PICK A, B, C, D : /\ A = In({"PAID"}) /\ B = In({"OVERDUE"})
                        /\ C = In({"SENT", "PARTIAL", "DRAFT"}) /\ D = In({"CANCELLED"})
  OBVIOUS
<1>2. IsFiniteSet(A) /\ IsFiniteSet(B) /\ IsFiniteSet(C) /\ IsFiniteSet(D)
  BY <1>1, InvoicesFinite
<1>3. A \cap B = {} /\ (A \cup B) \cap C = {} /\ (A \cup B \cup C) \cap D = {}
  BY <1>1 DEF In
<1>4. Invoices = A \cup B \cup C \cup D
  <2>1. \A i \in Invoices : inv[i].status \in Statuses
    BY RowsOfTheBooks
  <2> QED BY <1>1, <2>1 DEF In, Statuses
<1>5. IsFiniteSet(A \cup B) /\ Cardinality(A \cup B) = Cardinality(A) + Cardinality(B)
  BY <1>2, <1>3, DisjointCount
<1>6. /\ IsFiniteSet(A \cup B \cup C)
      /\ Cardinality(A \cup B \cup C) = Cardinality(A \cup B) + Cardinality(C)
  BY <1>2, <1>3, <1>5, DisjointCount
<1>7. Cardinality(Invoices) = Cardinality(A \cup B \cup C) + Cardinality(D)
  BY <1>2, <1>3, <1>4, <1>6, DisjointCount
<1>8. /\ StatusCounts.paid = Cardinality(A) /\ StatusCounts.overdue = Cardinality(B)
      /\ StatusCounts.pending = Cardinality(C)
  BY <1>1 DEF StatusCounts
<1>9. /\ Cardinality(A) \in Nat /\ Cardinality(B) \in Nat
       /\ Cardinality(C) \in Nat /\ Cardinality(D) \in Nat
  BY <1>2, FS_CardinalityType
<1> QED BY <1>1, <1>5, <1>6, <1>7, <1>8, <1>9

\* The rows of both registers are well formed, no invoice is paid more than its
\* total unless a request wrote over a change made since it read, and the tiles
\* add up.
THEOREM TypeCorrect == RegisterAssumption => (Spec => []TypeOK)
<1> SUFFICES ASSUME RegisterAssumption PROVE Spec => []TypeOK
  OBVIOUS
<1>1. BooksInv => TypeOK
  <2> SUFFICES ASSUME BooksInv PROVE TypeOK
    OBVIOUS
  <2>1. \A i \in Invoices : /\ inv[i].number[1] \in Counters /\ inv[i].status \in Statuses
                            /\ inv[i].paid \in Nat
                            /\ i \notin misread => inv[i].paid <= inv[i].total
    BY RowsOfTheBooks DEF BooksInv, Within
  <2>2. \A s \in Hired : staff[s].active \in BOOLEAN /\ staff[s].code[1][1] = "staff"
    <3> SUFFICES ASSUME NEW s \in Hired
                 PROVE  staff[s].active \in BOOLEAN /\ staff[s].code[1][1] = "staff"
      OBVIOUS
    <3>1. staff[s] \in StaffRow
      BY DEF BooksInv, Forms, Hired
    <3> QED BY <3>1 DEF StaffRow
  <2> QED BY <2>1, <2>2, StatusesPart DEF TypeOK, BooksInv
<1> QED BY <1>1, BooksInvHolds, PTL

-----------------------------------------------------------------------------
\* What Redis may show of a list: the truth, or what was the truth until a
\* change that has still to drop it, that crossed the filling, or that drops
\* nothing and left right what the list is read for.
Dropping(list) == \E r \in Request : req[r].op = "drop" /\ req[r].at = list
Listing(list) == {r \in Request : req[r].op = "list" /\ req[r].at = list}
StillRight(list, shows) ==
    IF list = "staff" THEN DOMAIN shows = Hired
    ELSE [shows EXCEPT !.overdue = 0] = [Dashboard EXCEPT !.overdue = 0]
ShownTruly(list) ==
    cache[list] # None => \/ cache[list].over \/ Dropping(list)
                          \/ cache[list].shows = Shows(list)
                          \/ cache[list].quiet /\ StillRight(list, cache[list].shows)
\* The same of a reading that is still to be stored.
ReadTruly(list) ==
    \A r \in Listing(list) : req[r].over \/ Dropping(list) \/ req[r].shows = Shows(list)

CacheShape ==
    /\ DOMAIN cache = Lists /\ DOMAIN req = Request
    /\ \A r \in Request : DOMAIN req[r] = DOMAIN Idle
                          /\ (req[r].op \in {"list", "drop"} => req[r].at \in Lists)
    /\ \A list \in Lists : cache[list] # None => DOMAIN cache[list] = {"shows", "over", "quiet"}
CacheInv == CacheShape /\ \A list \in Lists : ShownTruly(list) /\ ReadTruly(list)

\* What a step does to a list and its copy. A change announces a drop; ...
Announced(list) == Dropping(list)'
\* the drop clears the copy, or a write over another change leaves it known to be
\* wrong, as is then what was read before; ...
Cleared(list) ==
    /\ cache'[list] = None \/ cache'[list].over
    /\ \A r \in Request : req'[r].op = "list" /\ req'[r].at = list => req'[r].over
\* a quiet change leaves right what matters, and marks the copy; ...
Marked(list) ==
    /\ Dropping(list) => Dropping(list)'
    /\ \A shows : shows = Shows(list) \/ StillRight(list, shows) => StillRight(list, shows)'
    /\ cache'[list] = None \/ (/\ cache[list] # None /\ cache'[list].quiet
                               /\ cache'[list].shows = cache[list].shows
                               /\ cache'[list].over = cache[list].over)
    /\ \A r \in Request : req'[r].op = "list" /\ req'[r].at = list => req'[r].over
\* and any other step changes nothing of it, but may read or store it.
Kept(list) ==
    /\ Dropping(list) => Dropping(list)'
    /\ Shows(list)' = Shows(list)
    /\ \A shows : StillRight(list, shows) => StillRight(list, shows)'
    /\ \/ cache'[list] = None \/ cache'[list] = cache[list]
       \/ \E r \in Listing(list) : /\ cache'[list].shows = req[r].shows
                                   /\ cache'[list].over = req[r].over
    /\ \A r \in Request : req'[r].op = "list" /\ req'[r].at = list =>
                            \/ req'[r].shows = Shows(list)
                            \/ r \in Listing(list) /\ req'[r] = req[r]

LEMMA ListStep ==
    ASSUME NEW list \in Lists, ShownTruly(list), ReadTruly(list),
           Announced(list) \/ Cleared(list) \/ Marked(list) \/ Kept(list)
    PROVE  ShownTruly(list)' /\ ReadTruly(list)'
<1>1. CASE Announced(list)
  BY <1>1 DEF Announced, ShownTruly, ReadTruly
<1>2. CASE Cleared(list)
  BY <1>2 DEF Cleared, ShownTruly, ReadTruly, Listing
<1>3. CASE Marked(list)
  <2>1. ReadTruly(list)'
    BY <1>3 DEF Marked, ReadTruly, Listing
  <2>2. ShownTruly(list)'
    <3>1. CASE cache'[list] = None
      BY <3>1 DEF ShownTruly
    <3>2. CASE cache'[list] # None
      <4>1. /\ cache[list] # None /\ cache'[list].quiet
            /\ cache'[list].shows = cache[list].shows /\ cache'[list].over = cache[list].over
        BY <1>3, <3>2 DEF Marked
      <4>2. CASE cache[list].over
        BY <4>1, <4>2 DEF ShownTruly
      <4>3. CASE Dropping(list)
        BY <1>3, <4>3 DEF Marked, ShownTruly
      <4>4. CASE cache[list].shows = Shows(list) \/ StillRight(list, cache[list].shows)
        <5>1. PICK shows : shows = cache[list].shows
          OBVIOUS
        <5>2. StillRight(list, shows)' /\ cache'[list].shows = shows
          BY <1>3, <4>1, <4>4, <5>1 DEF Marked
        <5> QED BY <4>1, <5>2 DEF ShownTruly
      <4> QED BY <4>1, <4>2, <4>3, <4>4 DEF ShownTruly
    <3> QED BY <3>1, <3>2
  <2> QED BY <2>1, <2>2
<1>4. CASE Kept(list)
  <2>1. ReadTruly(list)'
    BY <1>4 DEF Kept, ReadTruly, Listing
  <2>2. ShownTruly(list)'
    <3>1. CASE cache'[list] = None
      BY <3>1 DEF ShownTruly
    <3>2. CASE cache'[list] = cache[list]
      <4>1. PICK shows : shows = cache[list].shows
        OBVIOUS
      <4>2. StillRight(list, shows) => StillRight(list, shows)'
        BY <1>4 DEF Kept
      <4> QED BY <1>4, <3>2, <4>1, <4>2 DEF Kept, ShownTruly
    <3>3. ASSUME NEW r \in Listing(list), cache'[list].shows = req[r].shows,
                 cache'[list].over = req[r].over
          PROVE  ShownTruly(list)'
      BY <1>4, <3>3 DEF Kept, ShownTruly, ReadTruly
    <3> QED BY <1>4, <3>1, <3>2, <3>3 DEF Kept
  <2> QED BY <2>1, <2>2
<1> QED BY <1>1, <1>2, <1>3, <1>4

\* The dashboard in sums over functions.
Live == Invoices \ In({"CANCELLED"})
Unpaid == Live \ In({"PAID"})

LEMMA DashboardIsSums ==
    Dashboard = [revenue |-> SumOver(Totals, Live), count |-> Cardinality(Live),
                 paid |-> Cardinality(In({"PAID"})), pending |-> SumOver(Owing, Unpaid),
                 overdue |-> SumOver(Owing, In({"OVERDUE"}))]
<1>1. PICK S \in SUBSET Invoices : S = Live
  BY DEF Live
<1>2. PICK T \in SUBSET Invoices : T = Unpaid
  BY DEF Unpaid, Live
<1>3. PICK U \in SUBSET Invoices : U = In({"OVERDUE"})
  BY DEF In
<1>4. /\ Sum(LAMBDA i : inv[i].total, S) = SumOver(Totals, S)
      /\ Sum(Owed, T) = SumOver(Owing, T) /\ Sum(Owed, U) = SumOver(Owing, U)
  BY TotalsAdd, OwedAdd
<1>5. Dashboard = [revenue |-> Sum(LAMBDA i : inv[i].total, Live), count |-> Cardinality(Live),
                   paid |-> Cardinality(In({"PAID"})), pending |-> Sum(Owed, Unpaid),
                   overdue |-> Sum(Owed, In({"OVERDUE"}))]
  BY DEF Dashboard, Live, Unpaid
<1>6. /\ Sum(LAMBDA i : inv[i].total, Live) = SumOver(Totals, Live)
      /\ Sum(Owed, Unpaid) = SumOver(Owing, Unpaid)
      /\ Sum(Owed, In({"OVERDUE"})) = SumOver(Owing, In({"OVERDUE"}))
  BY <1>1, <1>2, <1>3, <1>4
<1> QED BY <1>5, <1>6

\* Sending and falling due move no invoice into or out of the other parts of
\* the dashboard, and change no amount.
LEMMA QuietKeepsDashboard ==
    ASSUME RegisterAssumption, BooksInv, NEW r \in Request, Send(r) \/ MarkOverdue(r), ~Stale(r)
    PROVE  [Dashboard' EXCEPT !.overdue = 0] = [Dashboard EXCEPT !.overdue = 0]
<1>0. PICK i : i = req[r].at
  OBVIOUS
<1>1. PICK status \in {"SENT", "OVERDUE"} :
        inv' = [inv EXCEPT ![i] = [inv[i] EXCEPT !.status = status]]
  BY <1>0 DEF Send, MarkOverdue, WriteRow
<1>2. i \in Invoices /\ i \in Invoice /\ inv[i].status \in {"DRAFT", "SENT", "PARTIAL"}
  <2>1. req[r].op \in {"send", "mark"} /\ Opens["send"] = {"DRAFT"} /\ Opens["mark"] = {"SENT", "PARTIAL"}
    BY DEF Send, MarkOverdue, WriteRow, Opens
  <2>2. req[r].op \in Handlers
    BY <2>1 DEF Handlers
  <2> QED BY <1>0, <2>1, <2>2 DEF Stale, BooksInv, Forms, Invoices
<1>3. PICK old \in InvoiceRow : old = inv[i]
  BY <1>2, RowsOfTheBooks DEF BooksInv
<1>4. PICK new : new = [old EXCEPT !.status = status]
  OBVIOUS
<1>5. new \in InvoiceRow
  BY <1>4, <1>1 DEF InvoiceRow, Statuses
<1>6. new.status = status /\ new.total = old.total /\ new.paid = old.paid
  BY <1>4 DEF InvoiceRow
<1>7. inv' = [inv EXCEPT ![i] = new] /\ inv \in [Invoice -> InvoiceRow \cup {None}]
  BY <1>1, <1>3, <1>4 DEF BooksInv, Forms
<1>8. /\ \A j \in Invoice \ {i} : inv'[j] = inv[j]
      /\ inv'[i] = new /\ new # None
  BY <1>2, <1>5, <1>7 DEF RegisterAssumption
<1>9. Invoices' = Invoices
  BY <1>2, <1>8 DEF Invoices
<1>10. In({"CANCELLED"})' = In({"CANCELLED"}) /\ In({"PAID"})' = In({"PAID"})
  BY <1>1, <1>2, <1>6, <1>8, <1>9 DEF In
<1>11. Live' = Live /\ Unpaid' = Unpaid
  BY <1>9, <1>10 DEF Live, Unpaid
<1>12. \A j \in Invoices : inv'[j].total = inv[j].total /\ inv'[j].paid = inv[j].paid
  BY <1>3, <1>6, <1>8 DEF Invoices
<1>13. Totals' = Totals /\ Owing' = Owing
  BY <1>9, <1>12 DEF Totals, Owing, Owed
<1>14. (Dashboard = [revenue |-> SumOver(Totals, Live), count |-> Cardinality(Live),
                     paid |-> Cardinality(In({"PAID"})), pending |-> SumOver(Owing, Unpaid),
                     overdue |-> SumOver(Owing, In({"OVERDUE"}))])'
  BY DashboardIsSums, PTL
<1>15. PICK a, b, c, d, e, e1 :
         /\ a = SumOver(Totals, Live) /\ b = Cardinality(Live) /\ c = Cardinality(In({"PAID"}))
         /\ d = SumOver(Owing, Unpaid) /\ e = SumOver(Owing, In({"OVERDUE"}))
         /\ e1 = SumOver(Owing, In({"OVERDUE"}))'
  OBVIOUS
<1>16. Dashboard = [revenue |-> a, count |-> b, paid |-> c, pending |-> d, overdue |-> e]
  BY <1>15, DashboardIsSums
<1>17. Dashboard' = [revenue |-> a, count |-> b, paid |-> c, pending |-> d, overdue |-> e1]
  BY <1>10, <1>11, <1>13, <1>14, <1>15
<1> QED BY <1>16, <1>17

LEMMA SameRowsShowSame ==
    ASSUME NEW list \in Lists,
           (list = "dashboard" /\ inv' = inv) \/ (list = "staff" /\ staff' = staff)
    PROVE  /\ Shows(list)' = Shows(list)
           /\ \A shows : StillRight(list, shows) => StillRight(list, shows)'
<1>1. CASE list = "dashboard" /\ inv' = inv
  <2>1. /\ Totals' = Totals /\ Owing' = Owing /\ Live' = Live /\ Unpaid' = Unpaid
        /\ In({"PAID"})' = In({"PAID"}) /\ In({"OVERDUE"})' = In({"OVERDUE"})
    BY <1>1 DEF Totals, Owing, Owed, Live, Unpaid, In, Invoices
  <2>2. (Dashboard = [revenue |-> SumOver(Totals, Live), count |-> Cardinality(Live),
                      paid |-> Cardinality(In({"PAID"})), pending |-> SumOver(Owing, Unpaid),
                      overdue |-> SumOver(Owing, In({"OVERDUE"}))])'
    BY DashboardIsSums, PTL
  <2>3. Dashboard' = Dashboard
    BY <2>1, <2>2, DashboardIsSums
  <2> QED BY <1>1, <2>3 DEF Shows, StillRight
<1>2. CASE list = "staff" /\ staff' = staff
  BY <1>2 DEF Shows, StillRight, StaffList, Hired
<1> QED BY <1>1, <1>2

ListSteps ==
    /\ CacheShape'
    /\ \A list \in Lists : Announced(list) \/ Cleared(list) \/ Marked(list) \/ Kept(list)

\* Steps that start or end one request and leave the copies alone.
LEMMA OneRequestSteps ==
    ASSUME CacheShape, cache' = cache, NEW r \in Request, NEW record,
           req' = [req EXCEPT ![r] = record], req[r].op # "drop",
           DOMAIN record = DOMAIN Idle, record.op \in {"list", "drop"} => record.at \in Lists,
           record.op = "list" => record.shows = Shows(record.at),
           inv' = inv \/ (record.op = "drop" /\ record.at = "dashboard"),
           staff' = staff \/ (record.op = "drop" /\ record.at = "staff")
    PROVE  ListSteps
<1>1. req'[r] = record /\ \A q \in Request \ {r} : req'[q] = req[q]
  BY DEF CacheShape
<1>2. CacheShape'
  BY <1>1 DEF CacheShape
<1>3. ASSUME NEW list \in Lists PROVE Announced(list) \/ Kept(list)
  <2>1. CASE record.op = "drop" /\ record.at = list
    BY <1>1, <2>1 DEF Announced, Dropping
  <2>2. CASE ~(record.op = "drop" /\ record.at = list)
    <3>1. Shows(list)' = Shows(list)
          /\ \A shows : StillRight(list, shows) => StillRight(list, shows)'
      BY <2>2, SameRowsShowSame DEF Lists
    <3>2. Dropping(list) => Dropping(list)'
      BY <1>1 DEF Dropping
    <3>3. \A q \in Request : req'[q].op = "list" /\ req'[q].at = list =>
                               \/ req'[q].shows = Shows(list)
                               \/ q \in Listing(list) /\ req'[q] = req[q]
      BY <1>1 DEF Listing
    <3> QED BY <3>1, <3>2, <3>3 DEF Kept
  <2> QED BY <2>1, <2>2
<1> QED BY <1>2, <1>3 DEF ListSteps

\* What becomes of the requests when those that read a list are crossed.
LEMMA Crossing ==
    ASSUME CacheShape, NEW list \in Lists,
           \/ req' = Crossed(list)
           \/ \E r \in Request :
                /\ req' = [Crossed(list) EXCEPT ![r] = Idle]
                /\ req[r].op \notin {"list", "drop"} \/ req[r].at = list
    PROVE  /\ DOMAIN req' = Request
           /\ \A q \in Request :
                /\ DOMAIN req'[q] = DOMAIN Idle
                /\ req'[q].op \in {"list", "drop"} => req'[q].at \in Lists
                /\ req'[q].op = "list" /\ req'[q].at = list => req'[q].over
                /\ \A o \in Lists \ {list} :
                     req'[q].op = "list" /\ req'[q].at = o => q \in Listing(o) /\ req'[q] = req[q]
           /\ \A o \in Lists \ {list} : Dropping(o) => Dropping(o)'
<1>1. PICK now : now = Crossed(list)
  OBVIOUS
<1>2. \A q \in Request : /\ DOMAIN now[q] = DOMAIN Idle
                         /\ now[q].op = req[q].op /\ now[q].at = req[q].at
                         /\ now[q].op = "list" /\ now[q].at = list => now[q].over
                         /\ ~(now[q].op = "list" /\ now[q].at = list) => now[q] = req[q]
  BY <1>1, CrossedRequests DEF CacheShape
<1>3. Idle.op = "idle" /\ DOMAIN now = Request
  BY <1>1 DEF Idle, Crossed
<1>4. CASE req' = now
  BY <1>2, <1>3, <1>4 DEF CacheShape, Dropping, Listing
<1>5. ASSUME NEW r \in Request, req' = [now EXCEPT ![r] = Idle],
             req[r].op \notin {"list", "drop"} \/ req[r].at = list
      PROVE  /\ DOMAIN req' = Request
             /\ \A q \in Request :
                  /\ DOMAIN req'[q] = DOMAIN Idle
                  /\ req'[q].op \in {"list", "drop"} => req'[q].at \in Lists
                  /\ req'[q].op = "list" /\ req'[q].at = list => req'[q].over
                  /\ \A o \in Lists \ {list} :
                       req'[q].op = "list" /\ req'[q].at = o => q \in Listing(o) /\ req'[q] = req[q]
             /\ \A o \in Lists \ {list} : Dropping(o) => Dropping(o)'
  <2>1. req'[r] = Idle /\ DOMAIN req' = Request /\ \A q \in Request \ {r} : req'[q] = now[q]
    BY <1>3, <1>5
  <2>2. \A o \in Lists \ {list} : Dropping(o) => Dropping(o)'
    BY <1>2, <1>5, <2>1 DEF Dropping
  <2>3. ASSUME NEW q \in Request
        PROVE  /\ DOMAIN req'[q] = DOMAIN Idle
               /\ req'[q].op \in {"list", "drop"} => req'[q].at \in Lists
               /\ req'[q].op = "list" /\ req'[q].at = list => req'[q].over
               /\ \A o \in Lists \ {list} :
                    req'[q].op = "list" /\ req'[q].at = o => q \in Listing(o) /\ req'[q] = req[q]
    <3>1. CASE q = r
      BY <1>3, <2>1, <3>1
    <3>2. CASE q # r
      BY <1>2, <2>1, <3>2 DEF CacheShape, Listing
    <3> QED BY <3>1, <3>2
  <2> QED BY <2>1, <2>2, <2>3
<1> QED BY <1>1, <1>4, <1>5

\* What is noted on the copy of one list.
LEMMA Noting ==
    ASSUME CacheShape, NEW list \in Lists, NEW wrong \in BOOLEAN, cache' = Noted(list, wrong)
    PROVE  /\ DOMAIN cache' = Lists /\ \A o \in Lists \ {list} : cache'[o] = cache[o]
           /\ cache[list] = None => cache'[list] = None
           /\ cache[list] # None => /\ DOMAIN cache'[list] = {"shows", "over", "quiet"}
                                    /\ cache'[list].shows = cache[list].shows
                                    /\ wrong => cache'[list].over
                                    /\ ~wrong => /\ cache'[list].quiet
                                                 /\ cache'[list].over = cache[list].over
<1>1. CASE cache[list] = None
  BY <1>1 DEF CacheShape, Noted
<1>2. CASE cache[list] # None /\ wrong
  <2>1. cache' = [cache EXCEPT ![list].over = TRUE]
    BY <1>2 DEF Noted
  <2> QED BY <1>2, <2>1 DEF CacheShape
<1>3. CASE cache[list] # None /\ ~wrong
  <2>1. cache' = [cache EXCEPT ![list].quiet = TRUE]
    BY <1>3 DEF Noted
  <2> QED BY <1>3, <2>1 DEF CacheShape
<1> QED BY <1>1, <1>2, <1>3

\* A change that drops nothing: a quiet one, or one that makes the copy wrong.
\* The other list keeps its rows.
LEMMA QuietSteps ==
    ASSUME CacheShape, NEW list \in Lists, NEW wrong \in BOOLEAN, cache' = Noted(list, wrong),
           \/ req' = Crossed(list) /\ ~wrong
           \/ \E r \in Request :
                /\ req' = [Crossed(list) EXCEPT ![r] = Idle]
                /\ req[r].op \notin {"list", "drop"} \/ (req[r].at = list /\ wrong),
           inv' = inv \/ list = "dashboard", staff' = staff \/ list = "staff",
           wrong \/ \A shows : shows = Shows(list) \/ StillRight(list, shows)
                                 => StillRight(list, shows)'
    PROVE  ListSteps
<1>1. /\ DOMAIN req' = Request
      /\ \A q \in Request :
           /\ DOMAIN req'[q] = DOMAIN Idle
           /\ req'[q].op \in {"list", "drop"} => req'[q].at \in Lists
           /\ req'[q].op = "list" /\ req'[q].at = list => req'[q].over
           /\ \A o \in Lists \ {list} :
                req'[q].op = "list" /\ req'[q].at = o => q \in Listing(o) /\ req'[q] = req[q]
      /\ \A o \in Lists \ {list} : Dropping(o) => Dropping(o)'
  BY Crossing
<1>2. /\ DOMAIN cache' = Lists /\ \A o \in Lists \ {list} : cache'[o] = cache[o]
      /\ cache[list] = None => cache'[list] = None
      /\ cache[list] # None => /\ DOMAIN cache'[list] = {"shows", "over", "quiet"}
                               /\ cache'[list].shows = cache[list].shows
                               /\ wrong => cache'[list].over
                               /\ ~wrong => /\ cache'[list].quiet
                                            /\ cache'[list].over = cache[list].over
  BY Noting
<1>3. CacheShape'
  BY <1>1, <1>2 DEF CacheShape
<1>4. wrong => Cleared(list)
  BY <1>1, <1>2 DEF Cleared
<1>5. ASSUME ~wrong PROVE Marked(list)
  <2>1. Dropping(list) => Dropping(list)'
    <3>1. PICK now : now = Crossed(list)
      OBVIOUS
    <3>2. \A q \in Request : DOMAIN now = Request /\ now[q].op = req[q].op /\ now[q].at = req[q].at
      BY <3>1, CrossedRequests DEF CacheShape
    <3> QED BY <1>5, <3>1, <3>2 DEF Dropping
  <2> QED BY <1>1, <1>2, <1>5, <2>1 DEF Marked
<1>6. ASSUME NEW o \in Lists, o # list PROVE Kept(o)
  <2>1. Shows(o)' = Shows(o) /\ \A shows : StillRight(o, shows) => StillRight(o, shows)'
    BY <1>6, SameRowsShowSame DEF Lists
  <2> QED BY <1>1, <1>2, <1>6, <2>1 DEF Kept
<1> QED BY <1>3, <1>4, <1>5, <1>6 DEF ListSteps

\* Steps of Redis: a drop, a filling, an expiry, a loss.
LEMMA RedisSteps ==
    ASSUME CacheShape, UNCHANGED rowVars,
           \/ \E r \in Request : Drop(r) \/ Fill(r) \/ Fail(r)
           \/ \E list \in Lists : Expire(list)
           \/ RedisLost
    PROVE  ListSteps
<1>1. \A list \in Lists : /\ Shows(list)' = Shows(list)
                          /\ \A shows : StillRight(list, shows) => StillRight(list, shows)'
  BY SameRowsShowSame DEF rowVars, Lists
<1>i. DOMAIN Idle = {"op", "at", "number", "read", "shows", "over"} /\ Idle.op = "idle"
  BY DEF Idle
<1>2. ASSUME NEW r \in Request, Drop(r) PROVE ListSteps
  <2>1. PICK list \in Lists : list = req[r].at
    BY <1>2 DEF Drop, CacheShape
  <2>2. /\ DOMAIN cache' = Lists /\ cache'[list] = None
        /\ \A o \in Lists \ {list} : cache'[o] = cache[o]
    BY <1>2, <2>1 DEF Drop, CacheShape
  <2>3. /\ DOMAIN req' = Request
        /\ \A q \in Request :
             /\ DOMAIN req'[q] = DOMAIN Idle
             /\ req'[q].op \in {"list", "drop"} => req'[q].at \in Lists
             /\ req'[q].op = "list" /\ req'[q].at = list => req'[q].over
             /\ \A o \in Lists \ {list} :
                  req'[q].op = "list" /\ req'[q].at = o => q \in Listing(o) /\ req'[q] = req[q]
        /\ \A o \in Lists \ {list} : Dropping(o) => Dropping(o)'
    <3>1. req' = [Crossed(list) EXCEPT ![r] = Idle] /\ req[r].at = list
      BY <1>2, <2>1 DEF Drop
    <3> QED BY <3>1, Crossing
  <2>4. CacheShape'
    BY <2>2, <2>3 DEF CacheShape
  <2>5. Cleared(list)
    BY <2>2, <2>3 DEF Cleared
  <2>6. ASSUME NEW o \in Lists, o # list PROVE Kept(o)
    BY <1>1, <2>2, <2>3, <2>6 DEF Kept
  <2> QED BY <2>4, <2>5, <2>6 DEF ListSteps
<1>3. ASSUME NEW r \in Request, Fill(r) PROVE ListSteps
  <2>1. PICK list \in Lists : list = req[r].at
    BY <1>3 DEF Fill, CacheShape
  <2>2. /\ DOMAIN cache' = Lists /\ DOMAIN cache'[list] = {"shows", "over", "quiet"}
        /\ cache'[list].shows = req[r].shows /\ cache'[list].over = req[r].over
        /\ \A o \in Lists \ {list} : cache'[o] = cache[o]
    BY <1>3, <2>1 DEF Fill, CacheShape
  <2>3. /\ req'[r] = Idle /\ DOMAIN req' = Request /\ \A q \in Request \ {r} : req'[q] = req[q]
    BY <1>3 DEF Fill, Finish, CacheShape
  <2>4. CacheShape'
    BY <1>i, <2>2, <2>3 DEF CacheShape
  <2>5. ASSUME NEW o \in Lists PROVE Kept(o)
    <3>1. Dropping(o) => Dropping(o)'
      BY <1>3, <2>3 DEF Dropping, Fill
    <3>2. \A q \in Request : req'[q].op = "list" /\ req'[q].at = o =>
                               q \in Listing(o) /\ req'[q] = req[q]
      BY <1>i, <2>3 DEF Listing
    <3>3. \/ cache'[o] = cache[o]
          \/ \E q \in Listing(o) : cache'[o].shows = req[q].shows /\ cache'[o].over = req[q].over
      BY <1>3, <2>1, <2>2 DEF Listing, Fill
    <3> QED BY <1>1, <3>1, <3>2, <3>3 DEF Kept
  <2> QED BY <2>4, <2>5 DEF ListSteps
<1>4. ASSUME (\E list \in Lists : Expire(list)) \/ RedisLost PROVE ListSteps
  <2>1. /\ DOMAIN cache' = Lists /\ req' = req
        /\ \A o \in Lists : cache'[o] = None \/ cache'[o] = cache[o]
    BY <1>4 DEF Expire, RedisLost, CacheShape
  <2>2. CacheShape'
    BY <2>1 DEF CacheShape
  <2>3. ASSUME NEW o \in Lists PROVE Kept(o)
    BY <1>1, <2>1 DEF Kept, Dropping, Listing
  <2> QED BY <2>2, <2>3 DEF ListSteps
<1>5. ASSUME NEW r \in Request, Fail(r) PROVE ListSteps
  <2>0. inv' = inv /\ staff' = staff
    BY DEF rowVars
  <2>1. CASE req[r].op = "drop"
    <3>1. PICK list \in Lists : list = req[r].at
      BY <2>1 DEF CacheShape
    <3>2. cache' = Noted(list, TRUE) /\ req' = [Crossed(list) EXCEPT ![r] = Idle]
      BY <1>5, <2>1, <3>1 DEF Fail
    <3> QED BY <2>0, <3>1, <3>2, QuietSteps
  <2>2. CASE req[r].op # "drop"
    <3>1. cache' = cache /\ req' = [req EXCEPT ![r] = Idle]
      BY <1>5, <2>2 DEF Fail, Finish
    <3> QED BY <1>i, <2>0, <2>2, <3>1, OneRequestSteps
  <2> QED BY <2>1, <2>2
<1> QED BY <1>2, <1>3, <1>4, <1>5

LEMMA NextLists == RegisterAssumption /\ BooksInv /\ CacheShape /\ [Next]_vars => ListSteps
<1> SUFFICES ASSUME RegisterAssumption, BooksInv, CacheShape, [Next]_vars PROVE ListSteps
  OBVIOUS
<1>i. /\ DOMAIN Idle = {"op", "at", "number", "read", "shows", "over"} /\ Idle.op = "idle"
      /\ "dashboard" \in Lists /\ "staff" \in Lists
  BY DEF Idle, Lists
\* A request that inserts or changes goes on to drop, or ends.
<1>1. ASSUME NEW r \in Request, NEW list \in Lists, req[r].op # "drop", cache' = cache,
             req' = [req EXCEPT ![r] = [Idle EXCEPT !.op = "drop", !.at = list]],
             inv' = inv \/ list = "dashboard", staff' = staff \/ list = "staff"
      PROVE  ListSteps
  <2>1. PICK record : record = [Idle EXCEPT !.op = "drop", !.at = list]
    OBVIOUS
  <2>2. record.op = "drop" /\ record.at = list /\ DOMAIN record = DOMAIN Idle
    BY <2>1 DEF Idle
  <2>3. req' = [req EXCEPT ![r] = record]
    BY <1>1, <2>1
  <2> QED BY <1>1, <2>2, <2>3, OneRequestSteps
<1>2. ASSUME NEW r \in Request, req[r].op # "drop", cache' = cache, inv' = inv, staff' = staff,
             req' = [req EXCEPT ![r] = Idle]
      PROVE  ListSteps
  BY <1>2, <1>i, OneRequestSteps
<1>3. ASSUME NEW r \in Request, InsertStaff(r) \/ \E total \in Total : InsertInvoice(r, total)
      PROVE  ListSteps
  <2>1. CASE InsertStaff(r)
    BY <1>1, <1>2, <1>i, <2>1 DEF InsertStaff, Then, Finish
  <2>2. CASE \E total \in Total : InsertInvoice(r, total)
    BY <1>1, <1>2, <1>i, <2>2 DEF InsertInvoice, Then, Finish
  <2> QED BY <1>3, <2>1, <2>2
<1>4. ASSUME NEW r \in Request,
             \/ Cancel(r) \/ \E n \in Total : Edit(r, n) \/ Pay(r, n)
             \/ \E s \in Staff, active \in BOOLEAN : StaffChange(r, s, active)
      PROVE  ListSteps
  <2>1. CASE Cancel(r) \/ \E n \in Total : Edit(r, n) \/ Pay(r, n)
    BY <1>1, <1>i, <2>1 DEF Edit, Pay, Cancel, WriteRow, Loudly, Then
  <2>2. CASE \E s \in Staff, active \in BOOLEAN : StaffChange(r, s, active)
    BY <1>1, <1>i, <2>2 DEF StaffChange, Start
  <2> QED BY <1>4, <2>1, <2>2
<1>l. ASSUME NEW r \in Request, NEW op \in Handlers, NEW i \in Invoice, LookUp(r, op, i)
      PROVE  ListSteps
  <2>1. PICK row : row = inv[i]
    OBVIOUS
  <2>2. PICK record : record = [Idle EXCEPT !.op = op, !.at = i, !.read = row]
    OBVIOUS
  <2>3. record.op = op /\ op \notin {"list", "drop"} /\ DOMAIN record = DOMAIN Idle
    BY <2>2 DEF Idle, Handlers
  <2>4. /\ req' = [req EXCEPT ![r] = record] /\ req[r] = Idle
        /\ cache' = cache /\ inv' = inv /\ staff' = staff
    BY <1>l, <2>1, <2>2 DEF LookUp, rowVars
  <2> QED BY <1>i, <2>3, <2>4, OneRequestSteps
<1>5. ASSUME NEW r \in Request, NEW id \in Invoice \cup Staff, NEW c \in Counters,
             TakeNumber(r, id, c)
      PROVE  ListSteps
  <2>1. PICK record : record = [Idle EXCEPT !.op = "create", !.at = id,
                                             !.number = <<c, seq[c] + 1>>]
    OBVIOUS
  <2>2. record.op = "create" /\ DOMAIN record = DOMAIN Idle
    BY <2>1 DEF Idle
  <2>3. /\ req' = [req EXCEPT ![r] = record] /\ req[r] = Idle
        /\ cache' = cache /\ inv' = inv /\ staff' = staff
    BY <1>5, <2>1 DEF TakeNumber, Start, rowVars
  <2> QED BY <1>i, <2>2, <2>3, OneRequestSteps
<1>6. ASSUME NEW r \in Request, NEW list \in Lists, Read(r, list) PROVE ListSteps
  <2>1. PICK shows : shows = Shows(list)
    OBVIOUS
  <2>2. PICK record : record = [Idle EXCEPT !.op = "list", !.at = list, !.shows = shows]
    OBVIOUS
  <2>3. /\ record.op = "list" /\ record.at = list /\ record.shows = Shows(list)
        /\ DOMAIN record = DOMAIN Idle
    BY <2>1, <2>2 DEF Idle
  <2>4. /\ req' = [req EXCEPT ![r] = record] /\ req[r] = Idle
        /\ cache' = cache /\ inv' = inv /\ staff' = staff
    BY <1>6, <2>1, <2>2 DEF Read, Start, rowVars
  <2> QED BY <1>i, <2>3, <2>4, OneRequestSteps
<1>7. ASSUME NEW r \in Request, Send(r) \/ MarkOverdue(r) PROVE ListSteps
  <2>1. PICK wrong \in BOOLEAN : wrong <=> Stale(r)
    OBVIOUS
  <2>2. wrong \/ \A shows : shows = Shows("dashboard") \/ StillRight("dashboard", shows)
                              => StillRight("dashboard", shows)'
    <3>1. CASE ~Stale(r)
      <4>1. [Dashboard' EXCEPT !.overdue = 0] = [Dashboard EXCEPT !.overdue = 0]
        BY <1>7, <3>1, QuietKeepsDashboard
      <4> QED BY <4>1 DEF Shows, StillRight
    <3> QED BY <2>1, <3>1
  <2>3. /\ cache' = Noted("dashboard", wrong) /\ staff' = staff
        /\ req' = [Crossed("dashboard") EXCEPT ![r] = Idle]
        /\ req[r].op \notin {"list", "drop"}
    BY <1>7, <2>1 DEF Send, MarkOverdue, WriteRow, Quietly, Noted
  <2> QED BY <1>i, <2>2, <2>3, QuietSteps
<1>8. ASSUME NEW s \in Staff, MarkPresent(s) PROVE ListSteps
  <2>1. /\ cache' = Noted("staff", FALSE) /\ req' = Crossed("staff") /\ inv' = inv
        /\ staff' = [staff EXCEPT ![s].present = 1] /\ s \in Hired
    BY <1>8 DEF MarkPresent
  <2>2. PICK old \in StaffRow : old = staff[s]
    BY <2>1 DEF BooksInv, Forms, Hired
  <2>3. PICK new : new = [old EXCEPT !.present = 1]
    OBVIOUS
  <2>4. new \in StaffRow
    BY <2>3 DEF StaffRow
  <2>5. staff' = [staff EXCEPT ![s] = new] /\ new # None
    BY <2>1, <2>2, <2>3, <2>4 DEF RegisterAssumption
  <2>6. Hired' = Hired
    BY <2>1, <2>5 DEF Hired, BooksInv, Forms
  <2>7. \A shows : shows = Shows("staff") \/ StillRight("staff", shows)
                     => StillRight("staff", shows)'
    BY <2>6 DEF Shows, StillRight, StaffList
  <2> QED BY <1>i, <2>1, <2>7, QuietSteps
<1>9. ASSUME \/ \E r \in Request : Drop(r) \/ Fill(r) \/ Fail(r)
             \/ \E list \in Lists : Expire(list)
             \/ RedisLost
      PROVE  ListSteps
  <2>1. UNCHANGED rowVars
    BY <1>9 DEF Drop, Fill, Fail, Expire, RedisLost
  <2> QED BY <1>9, <2>1, RedisSteps
<1>10. CASE UNCHANGED vars
  <2>1. cache' = cache /\ req' = req /\ inv' = inv /\ staff' = staff
    BY <1>10 DEF vars, rowVars
  <2>2. CacheShape'
    BY <2>1 DEF CacheShape
  <2>3. ASSUME NEW list \in Lists PROVE Kept(list)
    <3>1. Shows(list)' = Shows(list)
          /\ \A shows : StillRight(list, shows) => StillRight(list, shows)'
      BY <2>1, SameRowsShowSame DEF Lists
    <3> QED BY <2>1, <3>1 DEF Kept, Dropping, Listing
  <2> QED BY <2>2, <2>3 DEF ListSteps
<1> QED
  BY <1>3, <1>4, <1>l, <1>5, <1>6, <1>7, <1>8, <1>9, <1>10 DEF Next

\* What Redis shows of the dashboard and of the staff is the truth, or a change
\* is about to drop it, crossed the filling, failed to drop it, was written over by
\* a send or the sweep, or was itself a send, the sweep or a mark of attendance:
\* and then the month's money and the names are right all the same.
THEOREM CachesShowTheTruth == RegisterAssumption => (Spec => []CachedShowsTruth)
<1> SUFFICES ASSUME RegisterAssumption PROVE Spec => []CachedShowsTruth
  OBVIOUS
<1>1. Init => CacheInv
  <2> SUFFICES ASSUME Init PROVE CacheInv
    OBVIOUS
  <2>1. /\ DOMAIN cache = Lists /\ \A list \in Lists : cache[list] = None
        /\ DOMAIN req = Request /\ \A r \in Request : req[r] = Idle
        /\ Idle.op = "idle"
    BY DEF Init, Idle
  <2> QED BY <2>1 DEF CacheInv, CacheShape, ShownTruly, ReadTruly, Listing
<1>2. BooksInv /\ CacheInv /\ [Next]_vars => CacheInv'
  <2> SUFFICES ASSUME BooksInv, CacheInv, [Next]_vars PROVE CacheInv'
    OBVIOUS
  <2>1. ListSteps
    BY NextLists DEF CacheInv
  <2>2. ASSUME NEW list \in Lists PROVE ShownTruly(list)' /\ ReadTruly(list)'
    BY <2>1, <2>2, ListStep DEF CacheInv, ListSteps
  <2> QED BY <2>1, <2>2 DEF CacheInv, ListSteps, Lists
<1>3. CacheInv => CachedShowsTruth
  <2> SUFFICES ASSUME CacheInv PROVE CachedShowsTruth
    OBVIOUS
  <2>1. \A list \in Lists : ShownTruly(list)
    BY DEF CacheInv
  <2> QED BY <2>1 DEF CachedShowsTruth, ShownTruly, StillRight, Dropping
<1> QED BY <1>1, <1>2, <1>3, BooksInvHolds, PTL DEF Spec

\* All that is promised of the registers, as the run checks it.
THEOREM RegistersAreSound == RegisterAssumption => (Spec => []RegistersAgree)
<1> SUFFICES ASSUME RegisterAssumption PROVE Spec => []RegistersAgree
  OBVIOUS
<1>1. TypeOK /\ RefusedOnlyAfterLoss /\ CachedShowsTruth => RegistersAgree
  BY DEF RegistersAgree
<1> QED BY <1>1, TypeCorrect, NumbersAreUnique, CachesShowTheTruth, PTL

(***************************************************************************)
(* Jobs: the queue, its mails and the schedules                            *)
(***************************************************************************)
(* Jobs: mails and runs of a queue                                          *)

JobStates == {"none", "waiting", "active", "answered", "delayed", "completed", "failed", "gone"}
JobRow == [state : JobStates, made : Nat, try : 1 .. Tries, stalls : Nat]
QueueTypes ==
    /\ job \in [Job -> JobRow] /\ worker \in [Worker -> Job \cup {None}]
    /\ mails \in [Job -> Nat] /\ runs \in [Job -> Nat] /\ grants \in [Job -> Nat]
    /\ untold \in [Job -> Nat]
\* A job that runs has one worker, and a worker holds a job that runs.
Busy == {"active", "answered"}
HeldByOne ==
    /\ \A w \in Worker : worker[w] # None => job[worker[w]].state \in Busy
    /\ \A w1, w2 \in Worker : worker[w1] = worker[w2] => w1 = w2 \/ worker[w1] = None
    /\ \A j \in Job : job[j].state \in Busy => \E w \in Worker : worker[w] = j
\* Of the mails of a job one is known at most, and that only when it is done.
MailedWhenDone ==
    \A j \in Job :
        /\ mails[j] <= untold[j] + 1
        /\ job[j].state \notin {"answered", "completed", "gone"} => mails[j] <= untold[j]
\* Every run begun failed, was given back with a grant, or is the last one; and
\* a job that is to run again has a run left.
RunsCounted ==
    \A j \in Job :
        /\ runs[j] <= job[j].made + grants[j] + 1 /\ runs[j] <= Attempts + grants[j]
        /\ job[j].state \notin {"active", "answered", "completed", "gone"} => runs[j] <= job[j].made + grants[j]
        /\ job[j].state \in {"none", "waiting", "delayed"} => runs[j] < Attempts + grants[j]

QueueInv == QueueTypes /\ HeldByOne /\ MailedWhenDone /\ RunsCounted

LEMMA QueueStarts == J!JobsAssumption /\ J!Init => QueueInv
<1> SUFFICES ASSUME J!JobsAssumption, J!Init PROVE QueueInv
  OBVIOUS
<1> DEFINE row == [state |-> "none", made |-> 0, try |-> 1, stalls |-> 0]
<1>1. row \in JobRow
  BY DEF J!JobsAssumption, JobRow, JobStates
<1>2. QueueTypes
  BY <1>1 DEF J!Init, QueueTypes
<1>3. HeldByOne /\ MailedWhenDone /\ RunsCounted
  BY DEF J!Init, HeldByOne, MailedWhenDone, RunsCounted, J!JobsAssumption, Busy
<1> QED BY <1>2, <1>3 DEF QueueInv

\* The worker a running job releases is the one that holds it.
LEMMA RunningHolds ==
    ASSUME QueueInv, NEW j \in Job, job[j].state \in Busy
    PROVE  J!Running(j) \in Worker /\ worker[J!Running(j)] = j
BY DEF QueueInv, HeldByOne, J!Running

\* A job no worker holds is put in line: as a new one, after its backoff, or by
\* an admin who grants it a run for it.
LEMMA PutInLine ==
    ASSUME J!JobsAssumption, QueueInv, NEW j \in Job,
           job[j].state \in {"none", "delayed", "failed"},
           job' = J!Into(j, "waiting"), UNCHANGED <<worker, mails, runs, untold>>,
           IF job[j].state = "failed" THEN grants' = [grants EXCEPT ![j] = @ + 1]
           ELSE grants' = grants
    PROVE  QueueInv'
<1> USE DEF QueueInv
<1> DEFINE row == [job[j] EXCEPT !.state = "waiting"]
<1>1. job[j] \in JobRow /\ row \in JobRow /\ row.state = "waiting" /\ row.made = job[j].made
  BY DEF QueueTypes, JobRow, JobStates
<1>a. job' = [job EXCEPT ![j] = row]
  BY DEF J!Into
<1> HIDE DEF row
<1>b. grants' = IF job[j].state = "failed" THEN [grants EXCEPT ![j] = @ + 1] ELSE grants
  OBVIOUS
<1>2. QueueTypes'
  BY <1>1, <1>a, <1>b DEF QueueTypes
<1>3. HeldByOne'
  BY <1>1, <1>a DEF HeldByOne, QueueTypes, Busy
<1>4. MailedWhenDone'
  BY <1>1, <1>a DEF MailedWhenDone, QueueTypes
<1>5. RunsCounted'
  <2> SUFFICES ASSUME NEW k \in Job
               PROVE  /\ runs'[k] <= job'[k].made + grants'[k] + 1
                      /\ runs'[k] <= Attempts + grants'[k]
                      /\ job'[k].state \notin {"active", "answered", "completed", "gone"} =>
                           runs'[k] <= job'[k].made + grants'[k]
                      /\ job'[k].state \in {"none", "waiting", "delayed"} =>
                           runs'[k] < Attempts + grants'[k]
    BY DEF RunsCounted
  <2>1. /\ job[k].made \in Nat /\ grants[k] \in Nat /\ runs[k] \in Nat /\ Attempts \in Nat
        /\ job'[k].made = job[k].made /\ runs'[k] = runs[k]
    BY <1>1, <1>a DEF QueueTypes, JobRow, J!JobsAssumption
  <2>2. CASE k # j
    <3>1. job'[k] = job[k] /\ grants'[k] = grants[k]
      BY <1>a, <1>b, <2>2 DEF QueueTypes
    <3> QED BY <2>1, <3>1 DEF RunsCounted
  <2>3. CASE k = j
    <3>1. grants'[j] = IF job[j].state = "failed" THEN grants[j] + 1 ELSE grants[j]
      BY DEF QueueTypes
    <3> QED BY <1>1, <1>a, <2>1, <2>3, <3>1 DEF RunsCounted, QueueTypes
  <2> QED BY <2>2, <2>3
<1> QED BY <1>2, <1>3, <1>4, <1>5

LEMMA BegunByOne == ASSUME J!JobsAssumption, QueueInv, NEW w \in Worker, NEW j \in Job, J!Begin(w, j)
                    PROVE  QueueInv'
<1> USE DEF QueueInv
<1> DEFINE row == [job[j] EXCEPT !.state = "active", !.try = 1]
<1>0. job[j] \in JobRow
  BY DEF QueueTypes
<1> DEFINE active == [job[j] EXCEPT !.state = "active"]
<1>a. active \in JobRow /\ active.state = "active" /\ active.made = job[j].made
  BY <1>0 DEF JobRow, JobStates
<1>b. row = [active EXCEPT !.try = 1]
  BY <1>0 DEF JobRow
<1> HIDE DEF row, active
<1>1. job[j] \in JobRow /\ row \in JobRow /\ row.state = "active" /\ row.made = job[j].made
  BY <1>0, <1>a, <1>b DEF JobRow, J!JobsAssumption
<1> USE DEF row
<1>2. job' = [job EXCEPT ![j] = row]
  BY DEF J!Begin
<1> HIDE DEF row
<1>3. /\ worker' = [worker EXCEPT ![w] = j] /\ runs' = [runs EXCEPT ![j] = @ + 1]
      /\ UNCHANGED <<mails, grants, untold>>
      /\ worker[w] = None /\ job[j].state = "waiting"
  BY DEF J!Begin
<1>4. QueueTypes'
  BY <1>1, <1>2, <1>3 DEF QueueTypes
<1>5. HeldByOne'
  BY <1>1, <1>2, <1>3 DEF HeldByOne, QueueTypes, J!JobsAssumption, Busy
<1>6. MailedWhenDone'
  BY <1>1, <1>2, <1>3 DEF MailedWhenDone, QueueTypes
<1>7. RunsCounted'
  BY <1>1, <1>2, <1>3 DEF RunsCounted, QueueTypes, JobRow, J!JobsAssumption
<1> QED BY <1>4, <1>5, <1>6, <1>7

\* A worker lets go of the job it holds: completed, with its run failed, or
\* because it was killed.
LEMMA LetGo ==
    ASSUME J!JobsAssumption, QueueInv, NEW w \in Worker, NEW j \in Job, worker[w] = j,
           NEW row \in JobRow, row.state \notin Busy,
           job' = [job EXCEPT ![j] = row], worker' = [worker EXCEPT ![w] = None],
           QueueTypes', MailedWhenDone', RunsCounted'
    PROVE  QueueInv'
BY DEF QueueInv, QueueTypes, HeldByOne, J!JobsAssumption

LEMMA Accepted == ASSUME J!JobsAssumption, QueueInv, NEW j \in Job, J!MailAccepted(j) PROVE QueueInv'
<1> USE DEF QueueInv
<1>1. /\ job[j].state = "active" /\ mails' = [mails EXCEPT ![j] = @ + 1]
      /\ job' = J!Into(j, "answered") /\ UNCHANGED <<worker, runs, grants, untold>>
  BY DEF J!MailAccepted
<1> DEFINE row == [job[j] EXCEPT !.state = "answered"]
<1>2. row \in JobRow /\ row.state = "answered" /\ row.made = job[j].made /\ job[j] \in JobRow
  BY DEF QueueTypes, JobRow, JobStates
<1>3. job' = [job EXCEPT ![j] = row]
  BY <1>1 DEF J!Into
<1> HIDE DEF row
<1>4. QueueTypes'
  BY <1>1, <1>2, <1>3 DEF QueueTypes
<1>5. HeldByOne'
  BY <1>1, <1>2, <1>3 DEF HeldByOne, QueueTypes, Busy
<1>6. MailedWhenDone'
  BY <1>1, <1>2, <1>3 DEF MailedWhenDone, QueueTypes
<1>7. RunsCounted'
  BY <1>1, <1>2, <1>3 DEF RunsCounted, QueueTypes
<1> QED BY <1>4, <1>5, <1>6, <1>7

LEMMA JobCompleted == ASSUME J!JobsAssumption, QueueInv, NEW j \in Job, J!Completed(j) PROVE QueueInv'
<1> USE DEF QueueInv
<1>1. /\ job[j].state = "answered" /\ worker' = [worker EXCEPT ![J!Running(j)] = None]
      /\ job' = J!Into(j, "completed") /\ UNCHANGED <<mails, runs, grants, untold>>
  BY DEF J!Completed, J!Release
<1> DEFINE row == [job[j] EXCEPT !.state = "completed"]
<1>2. row \in JobRow /\ row.state = "completed" /\ row.made = job[j].made /\ job[j] \in JobRow
  BY DEF QueueTypes, JobRow, JobStates
<1>3. job' = [job EXCEPT ![j] = row]
  BY <1>1 DEF J!Into
<1> HIDE DEF row
<1>4. J!Running(j) \in Worker /\ worker[J!Running(j)] = j
  BY <1>1, RunningHolds DEF Busy
<1>5. QueueTypes'
  BY <1>1, <1>2, <1>3, <1>4 DEF QueueTypes
<1>6. MailedWhenDone'
  BY <1>1, <1>2, <1>3 DEF MailedWhenDone, QueueTypes
<1>7. RunsCounted'
  BY <1>1, <1>2, <1>3 DEF RunsCounted, QueueTypes
<1> QED BY <1>1, <1>2, <1>3, <1>4, <1>5, <1>6, <1>7, LetGo DEF Busy

LEMMA CallFailed ==
    ASSUME J!JobsAssumption, QueueInv, NEW j \in Job, NEW taken \in BOOLEAN, J!MailFails(j, taken)
    PROVE  QueueInv'
<1> USE DEF QueueInv
<1>1. /\ job[j].state = "active" /\ UNCHANGED <<runs, grants>>
      /\ mails' = IF taken THEN [mails EXCEPT ![j] = @ + 1] ELSE mails
      /\ untold' = IF taken THEN [untold EXCEPT ![j] = @ + 1] ELSE untold
  BY DEF J!MailFails, J!MailUntold
<1>2. job[j] \in JobRow /\ job[j].made \in Nat /\ Attempts \in Nat
  BY DEF QueueTypes, JobRow, J!JobsAssumption
<1>3. mails' \in [Job -> Nat] /\ untold' \in [Job -> Nat] /\ runs' \in [Job -> Nat]
      /\ grants' \in [Job -> Nat]
  BY <1>1 DEF QueueTypes
<1>4. \A k \in Job : /\ mails[k] <= untold[k] => mails'[k] <= untold'[k]
                    /\ mails[k] <= untold[k] + 1 => mails'[k] <= untold'[k] + 1
  BY <1>1 DEF QueueTypes
<1>5. CASE job[j].try < Tries
  <2> DEFINE row == [job[j] EXCEPT !.try = @ + 1]
  <2>1. /\ row \in JobRow /\ row.state = "active" /\ row.made = job[j].made
    BY <1>1, <1>2, <1>5 DEF JobRow, J!JobsAssumption
  <2>2. job' = [job EXCEPT ![j] = row] /\ worker' = worker
    BY <1>5 DEF J!MailFails
  <2> HIDE DEF row
  <2>3. QueueTypes'
    BY <1>3, <2>1, <2>2 DEF QueueTypes
  <2>4. HeldByOne'
    BY <1>1, <2>1, <2>2 DEF HeldByOne, QueueTypes, Busy
  <2>5. MailedWhenDone'
    BY <1>1, <1>4, <2>1, <2>2 DEF MailedWhenDone, QueueTypes
  <2>6. RunsCounted'
    BY <1>1, <2>1, <2>2 DEF RunsCounted, QueueTypes
  <2> QED BY <2>3, <2>4, <2>5, <2>6
<1>6. CASE ~(job[j].try < Tries)
  <2> DEFINE next == IF job[j].made + 1 < Attempts THEN "delayed" ELSE "failed"
             row == [job[j] EXCEPT !.made = @ + 1, !.state = next]
  <2> DEFINE again == [job[j] EXCEPT !.made = @ + 1]
  <2>a. again \in JobRow /\ again.made = job[j].made + 1
    BY <1>2 DEF JobRow
  <2>b. next \in JobStates
    BY DEF JobStates
  <2>c. row = [again EXCEPT !.state = next]
    BY <1>2 DEF JobRow
  <2> HIDE DEF row, again, next
  <2>1. row \in JobRow /\ row.state = next /\ row.made = job[j].made + 1
    BY <2>a, <2>b, <2>c DEF JobRow
  <2> USE DEF row, next
  <2>2. job' = [job EXCEPT ![j] = row] /\ worker' = [worker EXCEPT ![J!Running(j)] = None]
    BY <1>6 DEF J!MailFails, J!RunFails, J!Release
  <2>3. next \in {"delayed", "failed"} /\ (next = "delayed" => job[j].made + 1 < Attempts)
    OBVIOUS
  <2> HIDE DEF row, next
  <2>4. QueueTypes'
    BY <1>3, <2>1, <2>2 DEF QueueTypes
  <2>5. MailedWhenDone'
    BY <1>1, <1>4, <2>1, <2>2, <2>3 DEF MailedWhenDone, QueueTypes
  <2>6. RunsCounted'
    BY <1>1, <1>2, <2>1, <2>2, <2>3 DEF RunsCounted, QueueTypes
  <2> QED BY <1>1, <2>1, <2>2, <2>3, <2>4, <2>5, <2>6, RunningHolds, LetGo DEF Busy
<1> QED BY <1>5, <1>6

LEMMA WorkerKilled == ASSUME J!JobsAssumption, QueueInv, NEW w \in Worker, NEW taken \in BOOLEAN, J!Killed(w, taken)
                      PROVE  QueueInv'
<1> USE DEF QueueInv
<1> DEFINE j == worker[w]
           next == IF job[j].stalls = 0 THEN "waiting" ELSE "failed"
           row == [job[j] EXCEPT !.stalls = @ + 1, !.state = next]
<1>1. j \in Job /\ job[j].state \in Busy /\ job[j] \in JobRow
  BY DEF J!Killed, QueueTypes, HeldByOne
<1> DEFINE stalled == [job[j] EXCEPT !.stalls = @ + 1]
<1>a. stalled \in JobRow /\ stalled.made = job[j].made
  BY <1>1 DEF JobRow
<1>b. next \in JobStates
  BY DEF JobStates
<1>c. row = [stalled EXCEPT !.state = next]
  BY <1>1 DEF JobRow
<1> HIDE DEF row, stalled, next
<1>2. row \in JobRow /\ row.state = next /\ row.made = job[j].made
  BY <1>a, <1>b, <1>c DEF JobRow
<1> USE DEF row, next
<1>3. /\ job' = [job EXCEPT ![j] = row] /\ worker' = [worker EXCEPT ![w] = None]
      /\ grants' = [grants EXCEPT ![j] = @ + 1] /\ runs' = runs
  BY DEF J!Killed
<1>k. /\ mails' \in [Job -> Nat] /\ untold' \in [Job -> Nat]
      /\ \A i \in Job : i # j => mails'[i] = mails[i] /\ untold'[i] = untold[i]
      /\ mails'[j] <= untold'[j]
  <2>1. CASE job[j].state = "active"
    <3>1. J!MailUntold(j, taken)
      BY <2>1 DEF J!Killed
    <3> QED BY <1>1, <2>1, <3>1 DEF J!MailUntold, QueueTypes, MailedWhenDone
  <2>2. CASE job[j].state = "answered"
    <3>1. mails' = mails /\ untold' = [untold EXCEPT ![j] = @ + 1]
      BY <2>2 DEF J!Killed
    <3> QED BY <1>1, <2>2, <3>1 DEF QueueTypes, MailedWhenDone
  <2> QED BY <1>1, <2>1, <2>2 DEF Busy
<1>4. next \in {"waiting", "failed"}
  OBVIOUS
<1> HIDE DEF row, next
<1>5. QueueTypes'
  <2>1. job' \in [Job -> JobRow]
    BY <1>1, <1>2, <1>3 DEF QueueTypes
  <2>2. worker' \in [Worker -> Job \cup {None}]
    BY <1>3 DEF QueueTypes
  <2>3. runs' \in [Job -> Nat] /\ grants' \in [Job -> Nat]
    BY <1>1, <1>3 DEF QueueTypes
  <2> QED BY <1>k, <2>1, <2>2, <2>3 DEF QueueTypes
<1>6. MailedWhenDone'
  <2>1. \A i \in Job : i # j => job'[i] = job[i]
    BY <1>1, <1>3 DEF QueueTypes
  <2>2. job'[j].state \in {"waiting", "failed"}
    BY <1>1, <1>2, <1>3, <1>4 DEF QueueTypes
  <2> QED BY <1>k, <2>1, <2>2 DEF MailedWhenDone, QueueTypes
<1>7. RunsCounted'
  BY <1>1, <1>2, <1>3, <1>4 DEF RunsCounted, QueueTypes, JobRow, J!JobsAssumption, Busy
<1> QED BY <1>1, <1>2, <1>3, <1>4, <1>5, <1>6, <1>7, LetGo DEF Busy

\* Jobs no worker holds are taken out of the queue.
LEMMA TakenOut ==
    ASSUME QueueInv, NEW S \in SUBSET Job, \A j \in S : job[j].state \notin Busy,
           UNCHANGED <<worker, mails, runs, grants, untold>>,
           job' = [j \in Job |-> IF j \in S THEN [job[j] EXCEPT !.state = "gone"] ELSE job[j]]
    PROVE  QueueInv'
<1> USE DEF QueueInv
<1>1. \A j \in Job : /\ job'[j] \in JobRow /\ job'[j].made = job[j].made
                     /\ job'[j].state = IF j \in S THEN "gone" ELSE job[j].state
  BY DEF QueueTypes, JobRow, JobStates
<1>2. QueueTypes'
  BY <1>1 DEF QueueTypes
<1>3. HeldByOne'
  BY <1>1 DEF HeldByOne, QueueTypes, Busy
<1>4. MailedWhenDone'
  BY <1>1 DEF MailedWhenDone
<1>5. RunsCounted'
  BY <1>1 DEF RunsCounted
<1> QED BY <1>2, <1>3, <1>4, <1>5

LEMMA QueueKept == J!JobsAssumption /\ QueueInv /\ [J!Next]_(J!vars) => QueueInv'
<1> SUFFICES ASSUME J!JobsAssumption, QueueInv, [J!Next]_(J!vars) PROVE QueueInv'
  OBVIOUS
<1>u. ASSUME UNCHANGED <<job, worker, mails, runs, grants, untold>> PROVE QueueInv'
  BY <1>u DEF QueueInv, QueueTypes, HeldByOne, MailedWhenDone, RunsCounted
<1>1. ASSUME NEW j \in Job, J!Add(j) \/ J!BackoffEnds(j) \/ J!RetryJob(j) PROVE QueueInv'
  BY <1>1, PutInLine DEF J!Add, J!BackoffEnds, J!RetryJob
<1>2. ASSUME NEW j \in Job, NEW a \in Admin, J!RetryNext(a, j) PROVE QueueInv'
  <2>1. CASE job[j].state = "failed"
    BY <1>2, <2>1, PutInLine DEF J!RetryNext
  <2>2. CASE job[j].state # "failed"
    BY <1>2, <2>2, <1>u DEF J!RetryNext
  <2> QED BY <2>1, <2>2
<1>3. ASSUME NEW j \in Job, J!DeleteJob(j) PROVE QueueInv'
  <2>1. job' = [k \in Job |-> IF k \in {j} THEN [job[k] EXCEPT !.state = "gone"] ELSE job[k]]
    BY <1>3 DEF J!DeleteJob, J!Into, QueueInv, QueueTypes
  <2> QED BY <1>3, <2>1, TakenOut DEF J!DeleteJob, Busy
<1>4. ASSUME NEW state \in {"completed", "failed"}, J!PruneJobs(state) PROVE QueueInv'
  <2>1. job' = [k \in Job |-> IF k \in J!InState(state) THEN [job[k] EXCEPT !.state = "gone"] ELSE job[k]]
    BY <1>4 DEF J!PruneJobs, J!InState
  <2>2. J!InState(state) \in SUBSET Job /\ \A k \in J!InState(state) : job[k].state \notin Busy
    BY DEF J!InState, Busy
  <2> QED BY <1>4, <2>1, <2>2, TakenOut DEF J!PruneJobs
<1>5. CASE J!Shutdown \/ J!Restart \/ \E a \in Admin : J!GetFailed(a)
  BY <1>5, <1>u DEF J!Shutdown, J!Restart, J!GetFailed
<1>6. ASSUME NEW s \in Starter,
             \/ J!ListCrons(s) \/ J!Pruned(s) \/ J!SetUp(s) \/ J!SetupFails(s) \/ J!StartAgain(s)
             \/ \E c \in Cron : J!RemoveCron(s, c) \/ J!AddCron(s, c)
      PROVE  QueueInv'
  BY <1>6, <1>u DEF J!ListCrons, J!Pruned, J!SetUp, J!SetupFails, J!StartAgain, J!RemoveCron, J!AddCron, J!queueVars
<1>7. CASE UNCHANGED J!vars
  BY <1>7, <1>u DEF J!vars, J!queueVars
<1> QED BY <1>1, <1>2, <1>3, <1>4, <1>5, <1>6, <1>7, Accepted, JobCompleted, CallFailed, WorkerKilled, BegunByOne
        DEF J!Next

-----------------------------------------------------------------------------
(* Jobs: the schedules                                                      *)

CronTypes ==
    /\ repeat \subseteq Cron /\ halfSet \in BOOLEAN
    /\ starter \in [Starter -> [step : {"off", "remove", "add", "up"}, left : SUBSET Cron]]
\* A schedule that is missing will be added, by a process that has still to
\* remove or to add it; or no process has started.
MissingIsComing ==
    halfSet \/ (\A s \in Starter : J!At(s, "off"))
    \/ \A c \in Cron : \/ c \in repeat
                       \/ \E s \in Starter : J!At(s, "remove") \/ (J!At(s, "add") /\ c \in starter[s].left)
CronInv == CronTypes /\ MissingIsComing

LEMMA CronsStart == J!Init => CronInv
<1> SUFFICES ASSUME J!Init PROVE CronInv
  OBVIOUS
<1>1. CronTypes
  BY DEF J!Init, CronTypes
<1>2. \A s \in Starter : J!At(s, "off")
  BY DEF J!Init, J!At
<1> QED BY <1>1, <1>2 DEF CronInv, MissingIsComing

LEMMA CronsKept == CronInv /\ [J!Next]_(J!vars) => CronInv'
<1> SUFFICES ASSUME CronInv, [J!Next]_(J!vars) PROVE CronInv'
  OBVIOUS
<1> USE DEF CronInv, CronTypes, MissingIsComing, J!At
<1>1. ASSUME NEW s \in Starter, J!ListCrons(s) PROVE CronInv'
  BY <1>1 DEF J!ListCrons, J!To
<1>2. ASSUME NEW s \in Starter, NEW c \in Cron, J!RemoveCron(s, c) PROVE CronInv'
  BY <1>2 DEF J!RemoveCron, J!To
<1>3. ASSUME NEW s \in Starter, J!Pruned(s) PROVE CronInv'
  BY <1>3 DEF J!Pruned, J!To
<1>4. ASSUME NEW s \in Starter, NEW c \in Cron, J!AddCron(s, c) PROVE CronInv'
  BY <1>4 DEF J!AddCron, J!To
<1>5. ASSUME NEW s \in Starter, J!SetUp(s) PROVE CronInv'
  BY <1>5 DEF J!SetUp, J!To
<1>6. ASSUME NEW s \in Starter, J!SetupFails(s) PROVE CronInv'
  BY <1>6 DEF J!SetupFails, J!To
<1>7. ASSUME NEW s \in Starter, J!StartAgain(s) PROVE CronInv'
  BY <1>7 DEF J!StartAgain, J!To
<1>8. ASSUME UNCHANGED J!cronVars PROVE CronInv'
  BY <1>8 DEF J!cronVars
<1>9. CASE \/ \E j \in Job : \/ J!Add(j) \/ J!MailAccepted(j) \/ J!Completed(j) \/ J!BackoffEnds(j)
                             \/ J!RetryJob(j) \/ J!DeleteJob(j)
                             \/ \E taken \in BOOLEAN : J!MailFails(j, taken)
                             \/ \E w \in Worker : J!Begin(w, j)
                             \/ \E a \in Admin : J!RetryNext(a, j)
           \/ \E w \in Worker, taken \in BOOLEAN : J!Killed(w, taken)
           \/ J!Shutdown \/ J!Restart
           \/ \E a \in Admin : J!GetFailed(a)
           \/ \E state \in {"completed", "failed"} : J!PruneJobs(state)
  BY <1>8, <1>9 DEF J!Add, J!MailAccepted, J!Completed, J!BackoffEnds, J!RetryJob, J!DeleteJob, J!MailFails, J!Begin, J!RetryNext,
       J!Killed, J!Shutdown, J!Restart, J!GetFailed, J!PruneJobs
<1>10. CASE UNCHANGED J!vars
  BY <1>8, <1>10 DEF J!vars
<1> QED BY <1>1, <1>2, <1>3, <1>4, <1>5, <1>6, <1>7, <1>9, <1>10 DEF J!Next

\* For any jobs, workers, attempts and faults: a mail goes out once and once more
\* for every mail the queue was never told of, a job runs no more often than its
\* attempts and what was granted, and a job that runs has a worker.
THEOREM MailsStayLimited == J!JobsAssumption /\ J!Spec => []J!TypeOK /\ []J!MailsAreLimited
<1> SUFFICES ASSUME J!JobsAssumption PROVE J!Spec => []J!TypeOK /\ []J!MailsAreLimited
  OBVIOUS
<1>1. QueueInv /\ CronInv => J!TypeOK
  BY DEF QueueInv, QueueTypes, CronInv, CronTypes, J!TypeOK, JobRow, JobStates
<1>2. QueueInv => J!MailsAreLimited
  <2> SUFFICES ASSUME QueueInv, NEW j \in Job
               PROVE  /\ mails[j] <= untold[j] + 1
                      /\ runs[j] <= Attempts + grants[j]
                      /\ job[j].state \in {"active", "answered"} => \E w \in Worker : worker[w] = j
    BY DEF J!MailsAreLimited
  <2> QED BY DEF QueueInv, HeldByOne, MailedWhenDone, RunsCounted, Busy
<1>3. QED
  BY <1>1, <1>2, QueueStarts, QueueKept, CronsStart, CronsKept, PTL DEF J!Spec

\* For any number of starting processes and crons: once all are through, every
\* cron job is there, unless one of them failed on its way.
THEOREM CronsStayScheduled == J!Spec => []J!CronsAreScheduled
<1>1. CronInv => J!CronsAreScheduled
  <2> SUFFICES ASSUME CronInv, NEW s \in Starter, J!At(s, "up"),
                      \A t \in Starter : J!At(t, "up") \/ J!At(t, "off"), ~halfSet
               PROVE  Cron \subseteq repeat
    BY DEF J!CronsAreScheduled, CronInv, CronTypes
  <2> QED BY DEF CronInv, MissingIsComing, J!At
<1>2. QED
  BY <1>1, CronsStart, CronsKept, PTL DEF J!Spec

(***************************************************************************)
(* Pages: what a tab holds of an invoice, and what it offers               *)
(***************************************************************************)
\* The rows the cache holds of an invoice, shown or on their way.
Held(i) == {query[i].data, query[i].call} \ {None, Asked}

\* An entry no older than the own write, as far as a page can come to show it.
Current(i) ==
  i \notin missed =>
    /\ query[i].call \notin {None, Asked} => query[i].call.version >= wrote[i]
    /\ query[i].data # None /\ query[i].valid => query[i].data.version >= wrote[i]
    /\ P!Active(i) /\ ~query[i].failed /\ query[i].data # None /\ query[i].call = None
         => query[i].data.version >= wrote[i]

PlaceInv == page = P!Home \/ (page.on # "home" /\ page.of \in InvoiceId)

ServerInv == \A i \in InvoiceId : server[i].status = "PAID" => server[i].paid = Amount

\* A row held is one the API had: the newest of its version, or an older one.
HeldInv ==
  \A i \in InvoiceId :
    /\ \A r \in Held(i) : /\ r.version <= server[i].version
                          /\ r.version = server[i].version => r = server[i]
    /\ server[i].status = "ABSENT" =>
         query[i].data = None /\ query[i].call = None /\ page.of # i

OwnInv == \A i \in InvoiceId : wrote[i] <= server[i].version /\ Current(i)

\* A request that waits is granted if nothing was written since its page's data,
\* and the rows held are no older than the invoice a request created.
Fair(r) ==
  /\ r.kind # "pay" => r.amount = 0
  /\ r.answer = 0 =>
       /\ r.seen <= server[r.of].version
       /\ r.seen = server[r.of].version /\ r.kind # "delete" => P!Allowed(r, server[r.of])
  /\ r.answer \in 1..MaxVersion =>
       /\ r.answer <= server[r.of].version /\ server[r.of].status # "ABSENT"
       /\ r.kind = "create" => \A row \in Held(r.of) : row.version >= r.answer

AskInv == \A c \in Click : request[c] # None => Fair(request[c])

FormInv ==
  page.on = "edit" /\ form # None => P!Shown(page.of) # None /\ P!Shown(page.of).status = "DRAFT"

PagesInv ==
  /\ P!TypeOK /\ PlaceInv /\ ServerInv /\ HeldInv /\ OwnInv /\ AskInv /\ FormInv
  /\ puzzled = {}

------------------------------------------------------------------------------
\* A fetch keeps what the entry shows, and leaves one under way.
LEMMA Fetched ==
    ASSUME P!PagesAssumption, NEW q \in P!Entry, NEW cancel \in BOOLEAN, NEW n, n = P!Fetching(q, cancel)
    PROVE  /\ n \in P!Entry /\ n.data = q.data /\ n.valid = q.valid /\ n.failed = q.failed
           /\ n.call \in {q.call, Asked} /\ n.call # None
           /\ cancel /\ q.data # None => n.call = Asked
<1>1. CASE q.call = None \/ (cancel /\ q.data # None)
  <2>1. n = [q EXCEPT !.call = Asked]
    BY <1>1 DEF P!Fetching
  <2> QED BY <2>1 DEF P!Entry, P!PagesAssumption
<1>2. CASE ~(q.call = None \/ (cancel /\ q.data # None))
  BY <1>2 DEF P!Fetching
<1> QED BY <1>1, <1>2

\* Invalidating an entry makes it stale, and fetches it again while a page shows it.
LEMMA Staled ==
    ASSUME P!PagesAssumption, PagesInv, NEW i \in InvoiceId, NEW n, n = P!Invalidated(i)
    PROVE  /\ n \in P!Entry /\ n.data = query[i].data /\ ~n.valid /\ n.failed = query[i].failed
           /\ n.call \in {query[i].call, Asked}
           /\ P!Active(i) => n.call # None
           /\ ~P!Active(i) => n.call = query[i].call
<1> DEFINE q == [query[i] EXCEPT !.valid = FALSE]
<1>1. /\ q \in P!Entry /\ q.data = query[i].data /\ ~q.valid /\ q.failed = query[i].failed
      /\ q.call = query[i].call
  BY DEF PagesInv, P!TypeOK, P!Entry
<1>2. n = IF P!Active(i) THEN P!Fetching(q, TRUE) ELSE q
  BY DEF P!Invalidated
<1> HIDE DEF q
<1> QED BY <1>1, <1>2, Fetched

LEMMA EntryStep ==
    ASSUME P!PagesAssumption, PagesInv, NEW i \in InvoiceId, NEW n \in P!Entry,
           query' = [query EXCEPT ![i] = n], server' = server,
           n.data \in {query[i].data, query[i].call, None},
           n.call \in {query[i].call, None, Asked, server[i]},
           server[i].status = "ABSENT" => n.data = None /\ n.call = None,
           page'.of \in InvoiceId => page'.of = page.of \/ server[page'.of].status # "ABSENT"
    PROVE  /\ query' \in [InvoiceId -> P!Entry] /\ HeldInv' /\ query'[i] = n
           /\ \A j \in InvoiceId : \A row \in Held(j)' : row \in Held(j) \/ row = server[j]
           /\ \A j \in InvoiceId \ {i} : query'[j] = query[j]
<1>1. query \in [InvoiceId -> P!Entry] /\ server \in [InvoiceId -> P!Row]
  BY DEF PagesInv, P!TypeOK
<1>2. /\ query' \in [InvoiceId -> P!Entry] /\ query'[i] = n
      /\ \A j \in InvoiceId \ {i} : query'[j] = query[j]
  BY <1>1
<1>3. \A row \in Held(i)' : row \in Held(i) \/ row = server[i]
  BY <1>2 DEF Held
<1>4. \A j \in InvoiceId : \A row \in Held(j)' : row \in Held(j) \/ row = server[j]
  BY <1>2, <1>3 DEF Held
<1>5. \A j \in InvoiceId : server[j].version <= server[j].version
  BY <1>1 DEF P!Row
<1>6. HeldInv'
  BY <1>2, <1>4, <1>5 DEF PagesInv, HeldInv
<1> QED BY <1>2, <1>4, <1>6

\* The requests under way stay right while only the cache and the tab move.
PageKept(r, s) ==
  /\ s \in P!Mutation /\ s.kind = r.kind /\ s.of = r.of /\ s.amount = r.amount
  /\ s.seen = r.seen /\ s.answer = r.answer

LEMMA RequestsKept ==
    ASSUME P!PagesAssumption, PagesInv, server' = server,
           \A j \in InvoiceId : \A row \in Held(j)' : row \in Held(j) \/ row = server[j],
           DOMAIN request' = Click, request' = [c \in Click |-> request'[c]],
           \A c \in Click : request'[c] # None =>
                request[c] # None /\ PageKept(request[c], request'[c])
    PROVE  request' \in [Click -> P!Mutation \union {None}] /\ AskInv'
<1>1. request' \in [Click -> P!Mutation \union {None}]
  BY DEF PageKept
<1>2. ASSUME NEW c \in Click, request'[c] # None PROVE Fair(request[c])'
  <2>0. PICK r, s : r = request[c] /\ s = request'[c]
    OBVIOUS
  <2>1. r # None /\ PageKept(r, s) /\ s.of \in InvoiceId /\ server[s.of] \in P!Row /\ Fair(r)
    BY <1>2, <2>0 DEF PageKept, PagesInv, P!TypeOK, P!Mutation, AskInv
  <2>2. \A row \in Held(s.of)' : row \in Held(s.of) \/ row = server[s.of]
    BY <2>1 DEF Held
  <2>3. P!Allowed(r, server[s.of]) => P!Allowed(s, server[s.of])
    BY <2>1 DEF PageKept, P!Allowed
  <2>4. /\ s.kind # "pay" => s.amount = 0
        /\ s.answer = 0 =>
             /\ s.seen <= server[s.of].version
             /\ s.seen = server[s.of].version /\ s.kind # "delete" => P!Allowed(s, server[s.of])
        /\ s.answer \in 1..MaxVersion =>
             /\ s.answer <= server[s.of].version /\ server[s.of].status # "ABSENT"
    BY <2>1, <2>3 DEF PageKept, Fair
  <2>5. s.answer \in 1..MaxVersion /\ s.kind = "create" =>
          \A row \in Held(s.of)' : row.version >= s.answer
    BY <2>1, <2>2, <2>4 DEF PageKept, Fair, P!Row, P!PagesAssumption
  <2> QED BY <2>0, <2>4, <2>5 DEF Fair, Held, P!Allowed
<1> QED BY <1>1, <1>2 DEF AskInv

\* A request whose form or page was left.
LEMMA Left ==
    ASSUME NEW r \in P!Mutation, NEW s,
           s = [r EXCEPT !.at = "away"] \/ s = [r EXCEPT !.at = "page"]
    PROVE  PageKept(r, s)
BY DEF P!Mutation, PageKept

LEMMA OwnStep ==
    ASSUME PagesInv, NEW i \in InvoiceId, server' = server,
           \A j \in InvoiceId \ {i} : /\ query'[j] = query[j] /\ wrote'[j] = wrote[j]
                                      /\ j \in missed' <=> j \in missed
                                      /\ page'.of = j => page.of = j,
           wrote'[i] <= server[i].version, Current(i)'
    PROVE  OwnInv'
<1>1. ASSUME NEW j \in InvoiceId \ {i} PROVE Current(j)' /\ wrote'[j] <= server[j].version
  BY <1>1 DEF PagesInv, OwnInv, Current, P!Active
<1> QED BY <1>1 DEF OwnInv

\* What a step of the tab must show when it moves one entry of the cache, and
\* perhaps learns of an own write.
LEMMA LearnStep ==
    ASSUME P!PagesAssumption, PagesInv, NEW i \in InvoiceId, NEW n \in P!Entry,
           query' = [query EXCEPT ![i] = n], UNCHANGED <<server, puzzled>>,
           n.data \in {query[i].data, query[i].call, None},
           n.call \in {query[i].call, None, Asked, server[i]},
           server[i].status = "ABSENT" => n.data = None /\ n.call = None,
           page' \in [on: {"home", "detail", "edit"}, of: InvoiceId \union {None}, dialog: BOOLEAN],
           PlaceInv', page'.of # page.of => page'.of = i /\ server[i].status # "ABSENT",
           form' \in P!Row \union {None}, opened' \in 0..MaxVersion,
           wrote' \in [InvoiceId -> 0..MaxVersion], wrote'[i] <= server[i].version,
           \A j \in InvoiceId \ {i} : wrote'[j] = wrote[j],
           missed' \subseteq InvoiceId, \A j \in InvoiceId \ {i} : j \in missed' <=> j \in missed,
           request' = [c \in Click |-> request'[c]],
           \A c \in Click : request'[c] # None =>
                request[c] # None /\ PageKept(request[c], request'[c]),
           Current(i)', FormInv'
    PROVE  PagesInv'
<1>1. server' = server /\ puzzled' = {}
  BY DEF PagesInv
<1>2. /\ query' \in [InvoiceId -> P!Entry] /\ HeldInv'
      /\ \A j \in InvoiceId : \A row \in Held(j)' : row \in Held(j) \/ row = server[j]
      /\ \A j \in InvoiceId \ {i} : query'[j] = query[j]
  BY <1>1, EntryStep
<1>3. request' \in [Click -> P!Mutation \union {None}] /\ AskInv'
  BY <1>1, <1>2, RequestsKept
<1>4. OwnInv'
  BY <1>1, <1>2, OwnStep
<1>5. P!TypeOK' /\ ServerInv'
  BY <1>1, <1>2, <1>3 DEF PagesInv, P!TypeOK, ServerInv
<1> QED BY <1>1, <1>2, <1>3, <1>4, <1>5 DEF PagesInv

LEMMA CacheStep ==
    ASSUME P!PagesAssumption, PagesInv, NEW i \in InvoiceId, NEW n \in P!Entry,
           query' = [query EXCEPT ![i] = n], UNCHANGED <<server, wrote, puzzled>>,
           n.data \in {query[i].data, query[i].call, None},
           n.call \in {query[i].call, None, Asked, server[i]},
           server[i].status = "ABSENT" => n.data = None /\ n.call = None,
           page' \in [on: {"home", "detail", "edit"}, of: InvoiceId \union {None}, dialog: BOOLEAN],
           PlaceInv', page'.of # page.of => page'.of = i /\ server[i].status # "ABSENT",
           form' \in P!Row \union {None}, opened' \in 0..MaxVersion,
           missed' \subseteq InvoiceId, \A j \in InvoiceId \ {i} : j \in missed' <=> j \in missed,
           request' = [c \in Click |-> request'[c]],
           \A c \in Click : request'[c] # None =>
                request[c] # None /\ PageKept(request[c], request'[c]),
           Current(i)', FormInv'
    PROVE  PagesInv'
<1>1. wrote' = wrote /\ wrote \in [InvoiceId -> 0..MaxVersion] /\ wrote[i] <= server[i].version
  BY DEF PagesInv, P!TypeOK, OwnInv
<1> QED BY <1>1, LearnStep

\* A step of the tab that leaves the cache and the API alone.
LEMMA TabStep ==
    ASSUME P!PagesAssumption, PagesInv, UNCHANGED <<server, query, wrote, missed, puzzled>>,
           page' \in [on: {"home", "detail", "edit"}, of: InvoiceId \union {None}, dialog: BOOLEAN],
           PlaceInv', page'.of \in {page.of, None},
           form' \in P!Row \union {None}, opened' \in 0..MaxVersion,
           request' \in [Click -> P!Mutation \union {None}], AskInv', FormInv'
    PROVE  PagesInv'
<1>1. P!TypeOK' /\ ServerInv'
  BY DEF PagesInv, P!TypeOK, ServerInv
<1>2. HeldInv'
  BY DEF PagesInv, HeldInv, Held, P!PagesAssumption
<1>3. OwnInv'
  BY DEF PagesInv, OwnInv, Current, P!Active, P!PagesAssumption
<1> QED BY <1>1, <1>2, <1>3 DEF PagesInv

LEMMA SameRequests ==
    ASSUME PagesInv
    PROVE  /\ request = [c \in Click |-> request[c]]
           /\ \A c \in Click : request[c] # None => PageKept(request[c], request[c])
BY DEF PagesInv, P!TypeOK, PageKept

\* Forms and buttons that go keep the requests they made.
LEMMA Unmounts ==
    ASSUME PagesInv, NEW kinds, P!Unmounted(kinds)
    PROVE  /\ request' = [c \in Click |-> request'[c]]
           /\ \A c \in Click : request'[c] # None =>
                request[c] # None /\ PageKept(request[c], request'[c])
<1>1. ASSUME NEW c \in Click, request'[c] # None
      PROVE  request[c] # None /\ PageKept(request[c], request'[c])
  <2>1. request[c] \in P!Mutation \union {None}
    BY DEF PagesInv, P!TypeOK
  <2>2. request'[c] = request[c] \/ (request[c] # None /\ request'[c] = [request[c] EXCEPT !.at = "page"])
    BY DEF P!Unmounted
  <2> QED BY <1>1, <2>1, <2>2, Left DEF PageKept
<1> QED BY <1>1 DEF P!Unmounted

LEMMA Typed ==
    ASSUME PagesInv
    PROVE  /\ \A i \in InvoiceId : query[i] \in P!Entry /\ server[i] \in P!Row
           /\ page \in [on: {"home", "detail", "edit"}, of: InvoiceId \union {None}, dialog: BOOLEAN]
           /\ PlaceInv /\ form \in P!Row \union {None} /\ opened \in 0..MaxVersion
           /\ missed \subseteq InvoiceId /\ wrote \in [InvoiceId -> 0..MaxVersion]
BY DEF PagesInv, P!TypeOK

LEMMA Reads ==
    ASSUME P!PagesAssumption, PagesInv, NEW i \in InvoiceId, P!ApiReads(i)
    PROVE  PagesInv'
<1>1. /\ query[i].call = Asked /\ query' = [query EXCEPT ![i].call = server[i]]
      /\ UNCHANGED <<server, page, form, request, opened, wrote, missed, puzzled>>
  BY DEF P!ApiReads
<1> DEFINE n == [query[i] EXCEPT !.call = server[i]]
<1>2. /\ n \in P!Entry /\ n.data = query[i].data /\ n.valid = query[i].valid
      /\ n.failed = query[i].failed /\ n.call = server[i]
  BY Typed DEF P!Entry
<1>3. query' = [query EXCEPT ![i] = n] /\ query'[i] = n
  BY <1>1 DEF PagesInv, P!TypeOK
<1> HIDE DEF n
<1>4. server[i].status # "ABSENT"
  BY <1>1 DEF PagesInv, HeldInv, P!PagesAssumption
<1>5. Current(i)'
  <2>1. wrote[i] <= server[i].version /\ Current(i)
    BY DEF PagesInv, OwnInv
  <2>2. server[i].version >= wrote[i] /\ server[i] # None
    BY <2>1, Typed DEF P!Row, P!PagesAssumption
  <2> QED BY <1>1, <1>2, <1>3, <2>1, <2>2 DEF Current, P!Active
<1>6. FormInv'
  BY <1>1, <1>2, <1>3 DEF PagesInv, FormInv, P!Shown, P!Active, P!TypeOK
<1> QED BY <1>1, <1>2, <1>3, <1>4, <1>5, <1>6, CacheStep, SameRequests, Typed DEF PlaceInv

\* Data turns stale, or is dropped while no page shows it.
LEMMA Ages ==
    ASSUME P!PagesAssumption, PagesInv, NEW i \in InvoiceId, P!GrowsOld(i) \/ P!Collected(i)
    PROVE  PagesInv'
<1>1. CASE P!GrowsOld(i)
  <2> DEFINE n == [query[i] EXCEPT !.valid = FALSE]
  <2>1. /\ query' = [query EXCEPT ![i] = n] /\ query'[i] = n
        /\ UNCHANGED <<server, page, form, request, opened, wrote, missed, puzzled>>
    BY <1>1 DEF P!GrowsOld, PagesInv, P!TypeOK
  <2>2. /\ n \in P!Entry /\ n.data = query[i].data /\ ~n.valid
        /\ n.failed = query[i].failed /\ n.call = query[i].call
    BY Typed DEF P!Entry
  <2> HIDE DEF n
  <2>3. Current(i)'
    BY <2>1, <2>2 DEF PagesInv, OwnInv, Current, P!Active
  <2>4. FormInv'
    BY <2>1, <2>2 DEF PagesInv, FormInv, P!Shown, P!Active, P!TypeOK
  <2>5. server[i].status = "ABSENT" => n.data = None /\ n.call = None
    BY <2>2 DEF PagesInv, HeldInv
  <2> QED BY <2>1, <2>2, <2>3, <2>4, <2>5, CacheStep, SameRequests, Typed DEF PlaceInv
<1>2. CASE P!Collected(i)
  <2>1. /\ ~P!Active(i) /\ query' = [query EXCEPT ![i] = P!Empty] /\ query'[i] = P!Empty
        /\ missed' = missed \ {i}
        /\ UNCHANGED <<server, page, form, request, opened, wrote, puzzled>>
    BY <1>2 DEF P!Collected, PagesInv, P!TypeOK
  <2>2. P!Empty \in P!Entry /\ P!Empty.data = None /\ P!Empty.call = None
    BY DEF P!Entry, P!Empty
  <2>3. Current(i)'
    BY <2>1, <2>2 DEF Current
  <2>4. FormInv'
    BY <2>1 DEF PagesInv, FormInv, P!Shown, P!Active, P!TypeOK
  <2> QED BY <2>1, <2>2, <2>3, <2>4, CacheStep, SameRequests, Typed DEF PlaceInv
<1> QED BY <1>1, <1>2

\* A failed fetch hides the data, and the form with it.
LEMMA FetchFails ==
    ASSUME P!PagesAssumption, PagesInv, NEW i \in InvoiceId, P!LoadFails(i)
    PROVE  PagesInv'
<1> DEFINE n == [query[i] EXCEPT !.call = None, !.failed = TRUE]
<1>1. /\ query' = [query EXCEPT ![i] = n] /\ query'[i] = n /\ query[i].call # None
      /\ form' = IF P!Active(i) THEN None ELSE form
      /\ UNCHANGED <<server, page, opened, wrote, missed, puzzled>>
  BY DEF P!LoadFails, PagesInv, P!TypeOK
<1>2. n \in P!Entry /\ n.data = query[i].data /\ n.valid = query[i].valid /\ n.failed /\ n.call = None
  BY Typed DEF P!Entry
<1> HIDE DEF n
<1>3. /\ PlaceInv' /\ request' = [c \in Click |-> request'[c]]
      /\ \A c \in Click : request'[c] # None =>
           request[c] # None /\ PageKept(request[c], request'[c])
  BY <1>1, Unmounts, Typed DEF PlaceInv, P!LoadFails
<1>4. Current(i)'
  BY <1>1, <1>2 DEF PagesInv, OwnInv, Current
<1>5. FormInv'
  BY <1>1, <1>2, <1>3 DEF PagesInv, FormInv, P!Shown, P!Active, P!TypeOK
<1>6. server[i].status # "ABSENT" /\ form' \in P!Row \union {None}
  BY <1>1, Typed DEF PagesInv, HeldInv
<1> QED BY <1>1, <1>2, <1>3, <1>4, <1>5, <1>6, CacheStep, Typed

\* The answer comes: what it holds is what was read, and a draft stays editable.
LEMMA Loads ==
    ASSUME P!PagesAssumption, PagesInv, NEW i \in InvoiceId, P!Loaded(i)
    PROVE  PagesInv'
<1> DEFINE row == query[i].call
           n == [data |-> row, valid |-> TRUE, failed |-> FALSE, call |-> None]
           editing == page.on = "edit" /\ page.of = i
<1>1. /\ row \notin {None, Asked} /\ query' = [query EXCEPT ![i] = n] /\ query'[i] = n
      /\ form' = IF editing THEN P!FormOver(row) ELSE form
      /\ page' = IF editing /\ row.status # "DRAFT" THEN [page EXCEPT !.on = "detail"] ELSE page
      /\ request' = [c \in Click |-> IF request[c] # None /\ page' # page
                                     THEN [request[c] EXCEPT !.at = "away"] ELSE request[c]]
      /\ opened' = IF page' = page THEN opened ELSE 0
      /\ missed' = missed \ IF row.version >= wrote[i] THEN {i} ELSE {}
      /\ UNCHANGED <<server, wrote, puzzled>>
  BY DEF P!Loaded, PagesInv, P!TypeOK
<1>2. row \in P!Row /\ n \in P!Entry /\ n.data = row /\ n.call = None /\ ~n.failed
  BY <1>1, Typed DEF P!Entry
<1>3. /\ page' \in [on: {"home", "detail", "edit"}, of: InvoiceId \union {None}, dialog: BOOLEAN]
      /\ page'.of = page.of /\ PlaceInv' /\ (page'.on = "edit" /\ editing => row.status = "DRAFT")
      /\ page'.on = "edit" => page.on = "edit"
  <2>1. editing => page # P!Home
    BY DEF P!Home
  <2> QED BY <1>1, <2>1, Typed DEF PlaceInv
<1>4. Current(i)'
  BY <1>1, <1>2 DEF PagesInv, OwnInv, Current
<1>5. form' \in P!Row \union {None} /\ opened' \in 0..MaxVersion
  BY <1>1, <1>2, Typed DEF P!FormOver, P!PagesAssumption
<1>6. FormInv'
  <2>1. CASE page.of = i
    BY <1>1, <1>2, <1>3, <2>1 DEF FormInv, P!Shown, P!Active, P!PagesAssumption
  <2>2. CASE page.of # i
    BY <1>1, <1>3, <2>2 DEF PagesInv, FormInv, P!Shown, P!Active, P!TypeOK
  <2> QED BY <2>1, <2>2
<1>7. server[i].status # "ABSENT"
  BY <1>1 DEF PagesInv, HeldInv
<1>8. ASSUME NEW c \in Click, request'[c] # None
      PROVE  request[c] # None /\ PageKept(request[c], request'[c])
  <2>1. request[c] \in P!Mutation \union {None}
    BY DEF PagesInv, P!TypeOK
  <2> QED BY <1>1, <1>8, <2>1, Left DEF PageKept
<1>9. request' = [c \in Click |-> request'[c]] /\ missed' \subseteq InvoiceId
      /\ \A j \in InvoiceId \ {i} : j \in missed' <=> j \in missed
  BY <1>1, Typed
<1> HIDE DEF n, row
<1> QED BY <1>1, <1>2, <1>3, <1>4, <1>5, <1>6, <1>7, <1>8, <1>9, CacheStep DEF row

LEMMA Refreshes ==
    ASSUME P!PagesAssumption, PagesInv, P!Refetch
    PROVE  PagesInv'
<1>1. PICK i \in InvoiceId : i = page.of
  BY Typed DEF P!Refetch, PlaceInv
<1> DEFINE n == P!Fetching(query[i], TRUE)
<1>2. /\ query' = [query EXCEPT ![i] = n] /\ query'[i] = n
      /\ UNCHANGED <<server, page, form, request, opened, wrote, missed, puzzled>>
  BY <1>1 DEF P!Refetch, PagesInv, P!TypeOK
<1>3. /\ n \in P!Entry /\ n.data = query[i].data /\ n.valid = query[i].valid
      /\ n.failed = query[i].failed /\ n.call \in {query[i].call, Asked} /\ n.call # None
  BY <1>1, Fetched, Typed
<1> HIDE DEF n
<1>4. Current(i)'
  BY <1>1, <1>2, <1>3 DEF PagesInv, OwnInv, Current, P!PagesAssumption
<1>5. FormInv'
  BY <1>1, <1>2, <1>3 DEF PagesInv, FormInv, P!Shown, P!Active, P!TypeOK
<1>6. server[i].status # "ABSENT"
  BY <1>1 DEF PagesInv, HeldInv
<1> QED BY <1>1, <1>2, <1>3, <1>4, <1>5, <1>6, CacheStep, SameRequests, Typed DEF PlaceInv

\* Leaving a page keeps the requests it made, which it no longer waits for.
LEMMA Leaves ==
    ASSUME PagesInv, P!Leave
    PROVE  /\ request' = [c \in Click |-> request'[c]]
           /\ \A c \in Click : request'[c] # None =>
                request[c] # None /\ PageKept(request[c], request'[c])
<1>1. ASSUME NEW c \in Click, request'[c] # None
      PROVE  request[c] # None /\ PageKept(request[c], request'[c])
  <2>1. request[c] \in P!Mutation \union {None}
    BY DEF PagesInv, P!TypeOK
  <2> QED BY <1>1, <2>1, Left DEF P!Leave
<1> QED BY <1>1 DEF P!Leave

LEMMA DetailOpens ==
    ASSUME P!PagesAssumption, PagesInv, NEW i \in InvoiceId, P!OpenDetail(i)
    PROVE  PagesInv'
<1> DEFINE n == IF query[i].data = None \/ ~query[i].valid THEN P!Fetching(query[i], FALSE)
                ELSE query[i]
<1>1. /\ server[i].status # "ABSENT" /\ page.on = "home" /\ P!Leave
      /\ page' = [on |-> "detail", of |-> i, dialog |-> FALSE]
      /\ query' = [query EXCEPT ![i] = n] /\ query'[i] = n
      /\ UNCHANGED <<server, form, opened, wrote, missed, puzzled>>
  BY DEF P!OpenDetail, P!Mount, PagesInv, P!TypeOK
<1>2. /\ n \in P!Entry /\ n.data = query[i].data /\ n.valid = query[i].valid
      /\ n.failed = query[i].failed /\ n.call \in {query[i].call, Asked}
      /\ n.call = None => n.data # None /\ n.valid
  BY Fetched, Typed
<1> HIDE DEF n
<1>3. Current(i)'
  BY <1>1, <1>2 DEF PagesInv, OwnInv, Current
<1>4. FormInv' /\ PlaceInv'
  BY <1>1 DEF FormInv, PlaceInv
<1> QED BY <1>1, <1>2, <1>3, <1>4, CacheStep, Leaves, Typed

LEMMA EditOpens ==
    ASSUME P!PagesAssumption, PagesInv, NEW i \in InvoiceId, P!OpenEdit(i)
    PROVE  PagesInv'
<1> DEFINE n == P!Fetching(query[i], FALSE)
<1>1. /\ page.of = i /\ P!Shown(i) # None /\ P!Shown(i).status = "DRAFT" /\ P!Leave
      /\ page' = [on |-> "edit", of |-> i, dialog |-> FALSE]
      /\ query' = [query EXCEPT ![i] = n] /\ query'[i] = n
      /\ form' = P!FormOver(P!Shown(i)) /\ opened' = server[i].version
      /\ UNCHANGED <<server, wrote, missed, puzzled>>
  BY DEF P!OpenEdit, P!Mount, PagesInv, P!TypeOK
<1>2. /\ n \in P!Entry /\ n.data = query[i].data /\ n.valid = query[i].valid
      /\ n.failed = query[i].failed /\ n.call \in {query[i].call, Asked} /\ n.call # None
  BY Fetched, Typed
<1> HIDE DEF n
<1>3. Current(i)'
  BY <1>1, <1>2 DEF PagesInv, OwnInv, Current
<1>4. P!Shown(i)' = P!Shown(i)
  BY <1>1, <1>2 DEF P!Shown, P!Active
<1>5. FormInv' /\ PlaceInv'
  BY <1>1, <1>4 DEF FormInv, PlaceInv
<1>6. form' \in P!Row \union {None} /\ opened' \in 0..MaxVersion
  BY <1>1, Typed DEF P!FormOver, P!Shown, P!Entry, P!Row
<1>7. server[i].status # "ABSENT"
  BY <1>1 DEF PagesInv, HeldInv
<1> QED BY <1>1, <1>2, <1>3, <1>5, <1>6, <1>7, CacheStep, Leaves, Typed

\* Whatever was written: an entry that is stale and, where a page shows it, being
\* fetched, shows it, or is one missed.
LEMMA Updates ==
    ASSUME P!PagesAssumption, PagesInv, NEW i \in InvoiceId, NEW n \in P!Entry, P!Update(i, n),
           page'.of = page.of, n.data = query[i].data, ~n.valid,
           n.call \in {query[i].call, Asked}, P!Active(i) => n.call # None
    PROVE  /\ query' = [query EXCEPT ![i] = n] /\ query'[i] = n /\ Current(i)'
           /\ missed' \subseteq InvoiceId
           /\ \A j \in InvoiceId \ {i} : j \in missed' <=> j \in missed
<1>1. /\ query' = [query EXCEPT ![i] = n] /\ query'[i] = n
      /\ missed' = IF query[i].call \notin {None, Asked} /\ n.call = query[i].call
                   THEN missed \union {i} ELSE missed
  BY DEF P!Update, PagesInv, P!TypeOK
<1>2. Current(i)'
  BY <1>1 DEF Current, P!Active
<1> QED BY <1>1, <1>2, Typed

LEMMA Invalidates ==
    ASSUME P!PagesAssumption, PagesInv, NEW i \in InvoiceId, P!Invalidate(i),
           page'.of = page.of, NEW n, n = P!Invalidated(i)
    PROVE  /\ query' = [query EXCEPT ![i] = n] /\ query'[i] = n /\ n \in P!Entry
           /\ n.data = query[i].data /\ n.failed = query[i].failed
           /\ n.call \in {query[i].call, Asked} /\ Current(i)'
           /\ missed' \subseteq InvoiceId
           /\ \A j \in InvoiceId \ {i} : j \in missed' <=> j \in missed
           /\ server[i].status = "ABSENT" => n.data = None /\ n.call = None
<1>1. /\ n \in P!Entry /\ n.data = query[i].data /\ ~n.valid /\ n.failed = query[i].failed
      /\ n.call \in {query[i].call, Asked}
      /\ P!Active(i) => n.call # None
      /\ ~P!Active(i) => n.call = query[i].call
  BY Staled
<1>2. P!Update(i, n)
  BY DEF P!Invalidate
<1>3. server[i].status = "ABSENT" => n.data = None /\ n.call = None
  BY <1>1 DEF PagesInv, HeldInv, P!Active
<1> QED BY <1>1, <1>2, <1>3, Updates

LEMMA EventComes ==
    ASSUME P!PagesAssumption, PagesInv, P!LiveEvent
    PROVE  PagesInv'
<1>1. PICK i \in InvoiceId : i = page.of
  BY Typed DEF P!LiveEvent, PlaceInv, P!Home
<1>2. PICK n : n = P!Invalidated(i)
  OBVIOUS
<1>3. P!Invalidate(i) /\ UNCHANGED <<server, page, form, request, opened, wrote, puzzled>>
  BY <1>1 DEF P!LiveEvent
<1>4. FormInv'
  BY <1>2, <1>3, Invalidates DEF PagesInv, FormInv, P!Shown, P!Active, P!TypeOK, P!LiveEvent
<1> QED BY <1>2, <1>3, <1>4, Invalidates, CacheStep, SameRequests, Typed DEF PlaceInv

LEMMA GoesHome ==
    ASSUME P!PagesAssumption, PagesInv, P!GoHome
    PROVE  PagesInv'
<1>1. /\ page' = P!Home /\ form' = None /\ opened' = 0 /\ P!Leave
      /\ UNCHANGED <<server, query, wrote, missed, puzzled>>
  BY DEF P!GoHome
<1>2. request' \in [Click -> P!Mutation \union {None}] /\ AskInv'
  BY <1>1, Leaves, RequestsKept DEF Held
<1>3. /\ page' \in [on: {"home", "detail", "edit"}, of: InvoiceId \union {None}, dialog: BOOLEAN]
      /\ PlaceInv' /\ page'.of = None /\ FormInv' /\ opened' \in 0..MaxVersion
  BY <1>1 DEF P!Home, PlaceInv, FormInv, P!PagesAssumption
<1> QED BY <1>1, <1>2, <1>3, TabStep

\* Closing the dialog leaves the page where it is.
LEMMA Shut ==
    ASSUME PagesInv, page' \in {page, [page EXCEPT !.dialog = FALSE]}
    PROVE  /\ page' \in [on: {"home", "detail", "edit"}, of: InvoiceId \union {None}, dialog: BOOLEAN]
           /\ page'.of = page.of /\ page'.on = page.on /\ PlaceInv'
<1>1. page \in [on: {"home", "detail", "edit"}, of: InvoiceId \union {None}, dialog: BOOLEAN]
  BY Typed
<1>2. page' \in {page, [on |-> page.on, of |-> page.of, dialog |-> FALSE]}
  BY <1>1
<1>3. page = P!Home => page' = P!Home
  BY <1>2 DEF P!Home
<1>4. page'.of = page.of /\ page'.on = page.on
  BY <1>2
<1>5. page' \in [on: {"home", "detail", "edit"}, of: InvoiceId \union {None}, dialog: BOOLEAN]
  <2>1. [on |-> page.on, of |-> page.of, dialog |-> FALSE]
          \in [on: {"home", "detail", "edit"}, of: InvoiceId \union {None}, dialog: BOOLEAN]
    BY <1>1
  <2> QED BY <1>1, <1>2, <2>1
<1>6. PlaceInv'
  BY <1>3, <1>4, Typed DEF PlaceInv
<1> QED BY <1>4, <1>5, <1>6

LEMMA DialogOpens ==
    ASSUME P!PagesAssumption, PagesInv, NEW i \in InvoiceId, P!OpenDialog(i)
    PROVE  PagesInv'
<1>1. /\ page' = [page EXCEPT !.dialog = TRUE] /\ page.on = "detail"
      /\ UNCHANGED <<server, query, form, request, opened, wrote, missed, puzzled>>
  BY DEF P!OpenDialog
<1>2. /\ page' \in [on: {"home", "detail", "edit"}, of: InvoiceId \union {None}, dialog: BOOLEAN]
      /\ page'.of = page.of /\ page'.on = "detail" /\ PlaceInv' /\ FormInv'
  <2>1. page # P!Home
    BY <1>1 DEF P!Home
  <2>2. page \in [on: {"home", "detail", "edit"}, of: InvoiceId \union {None}, dialog: BOOLEAN]
    BY Typed
  <2>3. page' = [on |-> "detail", of |-> page.of, dialog |-> TRUE]
    BY <1>1, <2>2
  <2> QED BY <2>1, <2>3, Typed DEF PlaceInv, FormInv
<1>3. request' \in [Click -> P!Mutation \union {None}] /\ AskInv'
  BY <1>1, SameRequests, RequestsKept DEF Held
<1> QED BY <1>1, <1>2, <1>3, TabStep, Typed

LEMMA DialogCloses ==
    ASSUME P!PagesAssumption, PagesInv, P!CloseDialog
    PROVE  PagesInv'
<1>1. /\ page' = [page EXCEPT !.dialog = FALSE] /\ P!Unmounted({"pay"})
      /\ UNCHANGED <<server, query, form, opened, wrote, missed, puzzled>>
  BY DEF P!CloseDialog
<1>2. request' \in [Click -> P!Mutation \union {None}] /\ AskInv'
  BY <1>1, Unmounts, RequestsKept DEF Held
<1>3. /\ page' \in [on: {"home", "detail", "edit"}, of: InvoiceId \union {None}, dialog: BOOLEAN]
      /\ page'.of = page.of /\ page'.on = page.on /\ PlaceInv'
  BY <1>1, Shut
<1>4. FormInv'
  BY <1>1, <1>3 DEF PagesInv, FormInv, P!Shown, P!Active
<1> QED BY <1>1, <1>2, <1>3, <1>4, TabStep, Typed

------------------------------------------------------------------------------
\* A request is fair when the API would grant it on the data it was made from.
LEMMA Asks ==
    ASSUME P!PagesAssumption, PagesInv, NEW c \in Click, NEW i \in InvoiceId,
           NEW kind \in {"create", "edit", "send", "pay", "delete"}, NEW n \in 0..Amount,
           P!Ask(c, kind, i, n), kind # "pay" => n = 0,
           NEW shows, shows = IF P!Shown(i) = None THEN 0 ELSE P!Shown(i).version,
           shows = server[i].version /\ kind # "delete" =>
             P!Allowed([kind |-> kind, of |-> i, amount |-> n, at |-> "form", answer |-> 0,
                      seen |-> shows], server[i])
    PROVE  PagesInv'
<1> DEFINE r == [kind |-> kind, of |-> i, amount |-> n, at |-> "form", answer |-> 0, seen |-> shows]
<1>1. /\ request' = [request EXCEPT ![c] = r]
      /\ UNCHANGED <<server, query, page, form, opened, wrote, missed, puzzled>>
  BY DEF P!Ask
<1>2. shows \in 0..MaxVersion /\ shows <= server[i].version
  <2>1. CASE P!Shown(i) = None
    BY <2>1, Typed DEF P!Row, P!PagesAssumption
  <2>2. CASE P!Shown(i) # None
    <3>1. P!Shown(i) = query[i].data /\ P!Shown(i) \in P!Row /\ P!Shown(i) \in Held(i)
      BY <2>2, Typed DEF P!Shown, P!Entry, Held, P!PagesAssumption
    <3> QED BY <2>2, <3>1 DEF PagesInv, HeldInv, P!Row
  <2> QED BY <2>1, <2>2
<1>3. r \in P!Mutation /\ r.kind = kind /\ r.of = i /\ r.amount = n /\ r.answer = 0 /\ r.seen = shows
  BY <1>2 DEF P!Mutation, P!Refused, P!PagesAssumption
<1>4. shows = server[i].version /\ kind # "delete" => P!Allowed(r, server[i])
  OBVIOUS
<1> HIDE DEF r
<1>5. request' \in [Click -> P!Mutation \union {None}]
  BY <1>1, <1>3 DEF PagesInv, P!TypeOK
<1>6. AskInv'
  <2>1. ASSUME NEW d \in Click, request'[d] # None PROVE Fair(request[d])'
    <3>1. CASE d # c
      <4>1. Fair(request[d]) /\ request'[d] = request[d]
        BY <1>1, <2>1, <3>1 DEF PagesInv, AskInv, P!TypeOK
      <4> QED BY <1>1, <4>1 DEF Fair, Held, P!Allowed
    <3>2. CASE d = c
      <4>1. request'[d] = r
        BY <1>1, <3>2 DEF PagesInv, P!TypeOK
      <4>2. 0 \notin 1..MaxVersion
        OBVIOUS
      <4>3. PICK s : s = r
        OBVIOUS
      <4>4. /\ s.kind # "pay" => s.amount = 0
            /\ s.answer = 0 /\ s.seen <= server[s.of].version
            /\ s.seen = server[s.of].version /\ s.kind # "delete" => P!Allowed(s, server[s.of])
        BY <1>2, <1>3, <1>4, <4>3
      <4> QED BY <1>1, <4>1, <4>2, <4>3, <4>4 DEF Fair, P!Allowed
    <3> QED BY <3>1, <3>2
  <2> QED BY <2>1 DEF AskInv
<1>7. FormInv' /\ PlaceInv'
  BY <1>1, Typed DEF PagesInv, FormInv, P!Shown, P!Active, PlaceInv
<1> QED BY <1>1, <1>5, <1>6, <1>7, TabStep, Typed

\* The newest data is the row itself.
LEMMA Newest ==
    ASSUME P!PagesAssumption, PagesInv, NEW i \in InvoiceId, P!Shown(i) # None,
           P!Shown(i).version = server[i].version
    PROVE  P!Shown(i) = server[i]
<1>1. P!Shown(i) \in Held(i)
  BY Typed DEF P!Shown, Held, P!Entry, P!PagesAssumption
<1> QED BY <1>1 DEF PagesInv, HeldInv

LEMMA TabAsks ==
    ASSUME P!PagesAssumption, PagesInv, NEW c \in Click, NEW i \in InvoiceId,
           \/ P!Create(c, i) \/ P!Submit(c, i) \/ P!RecordPayment(c, i)
           \/ \E kind \in {"send", "delete"} : P!Press(c, i, kind)
    PROVE  PagesInv'
<1>0. 0 \in 0..Amount
  BY DEF P!PagesAssumption
<1> DEFINE shows == IF P!Shown(i) = None THEN 0 ELSE P!Shown(i).version
           r(kind, n) == [kind |-> kind, of |-> i, amount |-> n, at |-> "form", answer |-> 0,
                          seen |-> shows]
<1>1. CASE P!Create(c, i)
  <2>1. P!Allowed(r("create", 0), server[i]) /\ P!Ask(c, "create", i, 0)
    BY <1>1 DEF P!Create, P!Allowed
  <2> QED BY <1>0, <2>1, Asks
<1>2. CASE P!Submit(c, i)
  <2>1. P!Ask(c, "edit", i, 0) /\ P!Shown(i) # None /\ P!Shown(i).status = "DRAFT"
    BY <1>2 DEF P!Submit, PagesInv, FormInv
  <2>2. shows = server[i].version => P!Allowed(r("edit", 0), server[i])
    BY <2>1, Newest DEF P!Allowed
  <2> QED BY <1>0, <2>1, <2>2, Asks
<1>3. CASE P!RecordPayment(c, i)
  <2>1. P!Shown(i) # None /\ P!Shown(i) \in P!Row
    BY <1>3, Typed DEF P!RecordPayment, P!Shown, P!Entry
  <2>2. PICK n \in 1..(Amount - P!Shown(i).paid) : P!Ask(c, "pay", i, n)
    BY <1>3 DEF P!RecordPayment
  <2>3. n \in 0..Amount /\ n >= 1 /\ P!Shown(i).paid + n <= Amount
    BY <2>1, <2>2 DEF P!Row, P!PagesAssumption
  <2>4. shows = server[i].version => P!Allowed(r("pay", n), server[i])
    <3>1. SUFFICES ASSUME shows = server[i].version PROVE P!Allowed(r("pay", n), server[i])
      OBVIOUS
    <3>2. P!Shown(i) = server[i]
      BY <2>1, <3>1, Newest
    <3>3. server[i].paid + n <= Amount /\ server[i].status # "PAID"
      BY <2>3, <3>2, Typed DEF PagesInv, ServerInv, P!Row, P!PagesAssumption
    <3> QED BY <3>3 DEF P!Allowed
  <2> QED BY <2>2, <2>3, <2>4, Asks
<1>4. CASE P!Press(c, i, "send")
  <2>1. P!Ask(c, "send", i, 0) /\ P!Shown(i) # None /\ P!Shown(i).status = "DRAFT"
    BY <1>4 DEF P!Press, P!Offers
  <2>2. shows = server[i].version => P!Allowed(r("send", 0), server[i])
    BY <2>1, Newest DEF P!Allowed
  <2> QED BY <1>0, <2>1, <2>2, Asks
<1>5. CASE P!Press(c, i, "delete")
  <2>1. P!Ask(c, "delete", i, 0)
    BY <1>5 DEF P!Press
  <2> QED BY <1>0, <2>1, Asks
<1> QED BY <1>1, <1>2, <1>3, <1>4, <1>5

------------------------------------------------------------------------------
\* A write the API grants makes the next version, which is no more than paid.
LEMMA Writes ==
    ASSUME P!PagesAssumption, NEW row \in P!Row, NEW r, NEW w, w = P!Written(r, row),
           r.kind \in {"create", "edit", "send", "pay", "delete"}, r.amount \in 0..Amount,
           r.kind # "pay" => r.amount = 0, P!Allowed(r, row), row.version < MaxVersion
    PROVE  /\ w \in P!Row /\ w.version = row.version + 1 /\ w.status # "ABSENT"
           /\ w.status = "PAID" => w.paid = Amount
<1> DEFINE paid == row.paid + r.amount
           status == CASE r.kind = "send"   -> "SENT"
                       [] r.kind = "delete" -> "CANCELLED"
                       [] r.kind = "pay"    -> IF paid = Amount THEN "PAID" ELSE "PARTIAL"
                       [] OTHER             -> "DRAFT"
<1>1. w = [version |-> row.version + 1, paid |-> paid, status |-> status]
  BY DEF P!Written
<1>2. paid \in 0..Amount /\ row.version + 1 \in 0..MaxVersion
  BY DEF P!Row, P!Allowed, P!PagesAssumption
<1>3. status \in P!Status \ {"ABSENT"} /\ (status = "PAID" => paid = Amount)
  BY DEF P!Status
<1> HIDE DEF paid, status
<1> QED BY <1>1, <1>2, <1>3 DEF P!Row

\* After a write no data is newer, and no request waits on the newest data.
LEMMA RowChanges ==
    ASSUME P!PagesAssumption, PagesInv, NEW i \in InvoiceId, NEW w \in P!Row,
           server' = [server EXCEPT ![i] = w], w.version = server[i].version + 1,
           w.status # "ABSENT", w.status = "PAID" => w.paid = Amount,
           UNCHANGED <<query, page, form, opened, wrote, missed>>
    PROVE  /\ ServerInv' /\ HeldInv' /\ OwnInv' /\ FormInv' /\ PlaceInv'
           /\ server' \in [InvoiceId -> P!Row]
           /\ \A r \in P!Mutation : Fair(r) => Fair(r)'
<1>1. /\ server' \in [InvoiceId -> P!Row] /\ server'[i] = w
      /\ \A j \in InvoiceId \ {i} : server'[j] = server[j]
  BY DEF PagesInv, P!TypeOK
<1>2. \A j \in InvoiceId : Held(j)' = Held(j) /\ Held(j) \subseteq P!Row
  BY Typed DEF Held, P!Entry
<1>3. HeldInv'
  <2>1. ASSUME NEW j \in InvoiceId
        PROVE  /\ \A r \in Held(j)' : /\ r.version <= server'[j].version
                                      /\ r.version = server'[j].version => r = server'[j]
               /\ server'[j].status = "ABSENT" =>
                    query'[j].data = None /\ query'[j].call = None /\ page'.of # j
    <3>1. CASE j # i
      BY <1>1, <1>2, <3>1 DEF PagesInv, HeldInv
    <3>2. CASE j = i
      <4>1. ASSUME NEW r \in Held(i) PROVE r.version <= w.version /\ r.version # w.version
        <5>1. r.version <= server[i].version /\ r \in P!Row
          BY <1>2 DEF PagesInv, HeldInv
        <5> QED BY <5>1, Typed DEF P!Row
      <4> QED BY <1>1, <1>2, <3>2, <4>1
    <3> QED BY <3>1, <3>2
  <2> QED BY <2>1 DEF HeldInv
<1>4. ServerInv' /\ PlaceInv' /\ FormInv'
  BY <1>1 DEF PagesInv, ServerInv, PlaceInv, FormInv, P!Shown, P!Active
<1>5. OwnInv'
  <2>1. ASSUME NEW j \in InvoiceId PROVE wrote[j] <= server'[j].version /\ Current(j)'
    <3>1. wrote[j] <= server[j].version /\ Current(j) /\ server[j].version <= server'[j].version
      BY <1>1, Typed DEF PagesInv, OwnInv, P!Row
    <3> QED BY <1>1, <3>1, Typed DEF Current, P!Active, P!Row
  <2> QED BY <2>1 DEF OwnInv
<1>6. ASSUME NEW r \in P!Mutation, Fair(r) PROVE Fair(r)'
  <2>1. r.of \in InvoiceId /\ r.seen \in 0..MaxVersion /\ r.answer \in 0..P!Refused
    BY DEF P!Mutation
  <2>2. CASE r.of # i
    BY <1>1, <1>2, <1>6, <2>1, <2>2 DEF Fair, P!Allowed
  <2>3. CASE r.of = i
    <3>1. r.seen <= server[i].version => r.seen <= w.version /\ r.seen # w.version
      BY <2>1, Typed DEF P!Row
    <3>2. r.answer <= server[i].version => r.answer <= w.version
      BY <2>1, Typed DEF P!Row, P!Refused, P!PagesAssumption
    <3> QED BY <1>1, <1>2, <1>6, <2>3, <3>1, <3>2 DEF Fair
  <2> QED BY <2>2, <2>3
<1> QED BY <1>1, <1>3, <1>4, <1>5, <1>6

LEMMA OthersChange ==
    ASSUME P!PagesAssumption, PagesInv, NEW i \in InvoiceId, P!OthersWrite(i)
    PROVE  PagesInv'
<1>1. PICK kind \in {"edit", "send", "pay"}, n \in 0..Amount :
        /\ kind = "pay" <=> n > 0
        /\ P!Allowed([kind |-> kind, amount |-> n], server[i])
        /\ server' = [server EXCEPT ![i] = P!Written([kind |-> kind, amount |-> n], @)]
  BY DEF P!OthersWrite
<1>2. /\ server[i].version < MaxVersion /\ server[i] \in P!Row
      /\ UNCHANGED <<query, page, form, request, opened, wrote, missed, puzzled>>
  BY Typed DEF P!OthersWrite
<1>3. PICK r : r = [kind |-> kind, amount |-> n]
  OBVIOUS
<1>4. /\ r.kind \in {"create", "edit", "send", "pay", "delete"} /\ r.amount \in 0..Amount
      /\ r.kind # "pay" => r.amount = 0
      /\ P!Allowed(r, server[i])
  BY <1>1, <1>3 DEF P!PagesAssumption
<1>5. PICK w : w = P!Written(r, server[i])
  OBVIOUS
<1>6. /\ w \in P!Row /\ w.version = server[i].version + 1 /\ w.status # "ABSENT"
      /\ w.status = "PAID" => w.paid = Amount
  BY <1>2, <1>4, <1>5, Writes
<1>7. server' = [server EXCEPT ![i] = w]
  BY <1>1, <1>3, <1>5
<1>8. /\ ServerInv' /\ HeldInv' /\ OwnInv' /\ FormInv' /\ PlaceInv' /\ server' \in [InvoiceId -> P!Row]
      /\ \A s \in P!Mutation : Fair(s) => Fair(s)'
  BY <1>2, <1>6, <1>7, RowChanges
<1>9. AskInv'
  <2>1. ASSUME NEW c \in Click, request[c] # None PROVE Fair(request[c])'
    <3>1. PICK s \in P!Mutation : s = request[c] /\ Fair(s)
      BY <2>1 DEF PagesInv, P!TypeOK, AskInv
    <3> QED BY <1>2, <1>8, <3>1 DEF Fair, Held, P!Allowed
  <2> QED BY <1>2, <2>1 DEF AskInv
<1> QED BY <1>2, <1>8, <1>9 DEF PagesInv, P!TypeOK

\* The API refuses what the tab asked only if the row has changed since.
LEMMA PageApiAnswers ==
    ASSUME P!PagesAssumption, PagesInv, NEW c \in Click, P!ApiWrites(c)
    PROVE  PagesInv'
<1>1. PICK r \in P!Mutation : r = request[c] /\ Fair(r) /\ r.answer = 0
  BY DEF P!ApiWrites, PagesInv, P!TypeOK, AskInv
<1>2. PICK i \in InvoiceId : i = r.of
  BY DEF P!Mutation
<1>3. UNCHANGED <<query, page, form, opened, wrote, missed>>
  BY DEF P!ApiWrites
<1>4. CASE P!Allowed(r, server[i])
  <2>1. /\ server[i].version < MaxVersion
        /\ server' = [server EXCEPT ![i] = P!Written(r, @)] /\ puzzled' = puzzled
        /\ request' = [request EXCEPT ![c].answer = server[i].version + 1, ![c].seen = 0,
                                      ![c].amount = 0]
    BY <1>1, <1>2, <1>4 DEF P!ApiWrites
  <2>2. PICK w : w = P!Written(r, server[i])
    OBVIOUS
  <2>3. /\ w \in P!Row /\ w.version = server[i].version + 1 /\ w.status # "ABSENT"
        /\ w.status = "PAID" => w.paid = Amount
    <3>1. /\ r.kind \in {"create", "edit", "send", "pay", "delete"} /\ r.amount \in 0..Amount
          /\ r.kind # "pay" => r.amount = 0
      BY <1>1 DEF P!Mutation, Fair
    <3> QED BY <1>4, <2>1, <2>2, <3>1, Typed, Writes
  <2>4. server' = [server EXCEPT ![i] = w] /\ server'[i] = w
    BY <2>1, <2>2 DEF PagesInv, P!TypeOK
  <2>5. /\ ServerInv' /\ HeldInv' /\ OwnInv' /\ FormInv' /\ PlaceInv' /\ server' \in [InvoiceId -> P!Row]
        /\ \A s \in P!Mutation : Fair(s) => Fair(s)'
    BY <1>3, <2>3, <2>4, RowChanges
  <2>6. PICK s : s = [r EXCEPT !.answer = w.version, !.seen = 0, !.amount = 0]
    OBVIOUS
  <2>7. s \in P!Mutation /\ s.kind = r.kind /\ s.of = i /\ s.amount = 0 /\ s.answer = w.version
    <3>1. w.version \in 1..MaxVersion /\ w.version \in 0..P!Refused /\ 0 \in 0..Amount /\ 0 \in 0..MaxVersion
      BY <2>1, <2>3, Typed DEF P!Row, P!Refused, P!PagesAssumption
    <3>2. s = [kind |-> r.kind, of |-> r.of, amount |-> 0, at |-> r.at, seen |-> 0,
               answer |-> w.version]
      BY <2>6 DEF P!Mutation
    <3> QED BY <1>2, <3>1, <3>2 DEF P!Mutation
  <2>8. request' = [request EXCEPT ![c] = s]
    BY <1>1, <2>1, <2>3, <2>6 DEF PagesInv, P!TypeOK
  <2>9. Fair(s)'
    <3>1. w.version # 0 /\ w.version <= w.version
      BY <2>3, Typed DEF P!Row
    <3>2. s.kind = "create" => Held(i) = {}
      BY <1>4, <2>7 DEF P!Allowed, PagesInv, HeldInv, Held
    <3> QED BY <1>3, <2>3, <2>4, <2>7, <3>1, <3>2 DEF Fair, Held
  <2>10. AskInv'
    <3>1. ASSUME NEW d \in Click, request'[d] # None PROVE Fair(request[d])'
      <4>1. CASE d # c
        <5>1. PICK t \in P!Mutation : t = request[d] /\ Fair(t) /\ request'[d] = t
          BY <2>8, <3>1, <4>1 DEF PagesInv, P!TypeOK, AskInv
        <5> QED BY <2>5, <5>1 DEF Fair, Held, P!Allowed
      <4>2. CASE d = c
        <5>1. request'[d] = s
          BY <2>8, <4>2 DEF PagesInv, P!TypeOK
        <5> QED BY <2>9, <5>1 DEF Fair, Held, P!Allowed
      <4> QED BY <4>1, <4>2
    <3> QED BY <3>1 DEF AskInv
  <2>11. request' \in [Click -> P!Mutation \union {None}]
    BY <2>7, <2>8 DEF PagesInv, P!TypeOK
  <2> QED BY <1>3, <2>1, <2>5, <2>10, <2>11 DEF PagesInv, P!TypeOK
<1>5. CASE ~P!Allowed(r, server[i])
  <2>1. /\ server' = server
        /\ request' = [request EXCEPT ![c].answer = P!Refused, ![c].seen = 0, ![c].amount = 0]
        /\ puzzled' = IF r.seen = server[i].version /\ r.kind # "delete"
                      THEN puzzled \union {r.kind} ELSE puzzled
    BY <1>1, <1>2, <1>5 DEF P!ApiWrites
  <2>2. puzzled' = {}
    BY <1>1, <1>2, <1>5, <2>1 DEF PagesInv, Fair
  <2>3. PICK s : s = [r EXCEPT !.answer = P!Refused, !.seen = 0, !.amount = 0]
    OBVIOUS
  <2>4. s \in P!Mutation /\ s.amount = 0 /\ s.answer = P!Refused
    <3>1. P!Refused \in 0..P!Refused /\ 0 \in 0..Amount /\ 0 \in 0..MaxVersion
      BY DEF P!Refused, P!PagesAssumption
    <3>2. s = [kind |-> r.kind, of |-> r.of, amount |-> 0, at |-> r.at, seen |-> 0,
               answer |-> P!Refused]
      BY <2>3 DEF P!Mutation
    <3> QED BY <3>1, <3>2 DEF P!Mutation
  <2>5. request' = [request EXCEPT ![c] = s]
    BY <1>1, <2>1, <2>3 DEF PagesInv, P!TypeOK
  <2>6. P!Refused # 0 /\ P!Refused \notin 1..MaxVersion
    BY DEF P!Refused, P!PagesAssumption
  <2>7. AskInv'
    <3>1. ASSUME NEW d \in Click, request'[d] # None PROVE Fair(request[d])'
      <4>1. CASE d # c
        <5>1. Fair(request[d]) /\ request'[d] = request[d]
          BY <2>5, <3>1, <4>1 DEF PagesInv, P!TypeOK, AskInv
        <5> QED BY <1>3, <2>1, <5>1 DEF Fair, Held, P!Allowed
      <4>2. CASE d = c
        <5>1. request'[d] = s
          BY <2>5, <4>2 DEF PagesInv, P!TypeOK
        <5> QED BY <2>4, <2>6, <5>1 DEF Fair
      <4> QED BY <4>1, <4>2
    <3> QED BY <3>1 DEF AskInv
  <2>8. request' \in [Click -> P!Mutation \union {None}]
    BY <2>4, <2>5 DEF PagesInv, P!TypeOK
  <2>9. FormInv' /\ PlaceInv'
    BY <1>3, Typed DEF PagesInv, FormInv, P!Shown, P!Active, PlaceInv
  <2>10. UNCHANGED <<server, query, wrote, missed, puzzled>>
    BY <1>3, <2>1, <2>2 DEF PagesInv
  <2> QED BY <1>3, <2>7, <2>8, <2>9, <2>10, TabStep, Typed
<1> QED BY <1>4, <1>5

------------------------------------------------------------------------------
\* What an answer that grants tells: a version the API has stored.
Learnt(i, answer) == [wrote EXCEPT ![i] = IF @ < answer THEN answer ELSE @]

LEMMA Granted ==
    ASSUME P!PagesAssumption, PagesInv, NEW c \in Click, NEW kind, P!Answered(c, kind),
           NEW i, i = request[c].of, NEW shows, shows = Learnt(i, request[c].answer)
    PROVE  /\ i \in InvoiceId /\ server[i].status # "ABSENT"
           /\ shows \in [InvoiceId -> 0..MaxVersion] /\ shows[i] <= server[i].version
           /\ \A j \in InvoiceId \ {i} : shows[j] = wrote[j]
           /\ shows[i] \in {wrote[i], request[c].answer}
           /\ kind = "create" => \A row \in Held(i) : row.version >= request[c].answer
<1>1. PICK r \in P!Mutation : r = request[c] /\ Fair(r) /\ r.answer \in 1..MaxVersion /\ r.kind = kind
  BY DEF P!Answered, PagesInv, P!TypeOK, AskInv
<1>2. i \in InvoiceId
  BY <1>1 DEF P!Mutation
<1>3. /\ r.answer <= server[i].version /\ server[i].status # "ABSENT"
      /\ kind = "create" => \A row \in Held(i) : row.version >= r.answer
  BY <1>1 DEF Fair
<1>4. wrote[i] <= server[i].version /\ wrote[i] \in 0..MaxVersion
  BY <1>2, Typed DEF PagesInv, OwnInv
<1>5. r.answer \in 0..MaxVersion
  BY <1>1
<1> QED BY <1>1, <1>2, <1>3, <1>4, <1>5, Typed DEF Learnt

LEMMA Forgets ==
    ASSUME PagesInv, NEW c \in Click, request' = P!Forgotten(c)
    PROVE  /\ request' = [d \in Click |-> request'[d]]
           /\ \A d \in Click : request'[d] # None =>
                request[d] # None /\ PageKept(request[d], request'[d])
BY DEF P!Forgotten, PagesInv, P!TypeOK, PageKept

\* Sending and paying invalidate the entry of their invoice.
LEMMA TellsWritten ==
    ASSUME P!PagesAssumption, PagesInv, NEW c \in Click, P!Sent(c) \/ P!Paid(c)
    PROVE  PagesInv'
<1>1. PICK i : i = request[c].of
  OBVIOUS
<1>2. PICK kind : P!Answered(c, kind)
  BY DEF P!Sent, P!Paid
<1>3. /\ wrote' = [wrote EXCEPT ![i] = IF @ < request[c].answer THEN request[c].answer ELSE @]
      /\ page' \in {page, [page EXCEPT !.dialog = FALSE]}
      /\ UNCHANGED <<server, form, opened, puzzled>>
  BY <1>1 DEF P!Sent, P!Paid
<1>4. /\ i \in InvoiceId /\ server[i].status # "ABSENT"
      /\ wrote' \in [InvoiceId -> 0..MaxVersion] /\ wrote'[i] <= server[i].version
      /\ \A j \in InvoiceId \ {i} : wrote'[j] = wrote[j]
  <2>1. PICK shows : shows = wrote'
    OBVIOUS
  <2>2. shows = Learnt(i, request[c].answer)
    BY <1>3, <2>1 DEF Learnt
  <2>3. /\ i \in InvoiceId /\ server[i].status # "ABSENT"
        /\ shows \in [InvoiceId -> 0..MaxVersion] /\ shows[i] <= server[i].version
        /\ \A j \in InvoiceId \ {i} : shows[j] = wrote[j]
    BY <1>1, <1>2, <2>2, Granted
  <2> QED BY <2>1, <2>3
<1>5. /\ page' \in [on: {"home", "detail", "edit"}, of: InvoiceId \union {None}, dialog: BOOLEAN]
      /\ page'.of = page.of /\ page'.on = page.on /\ PlaceInv'
  BY <1>3, Shut
<1>6. PICK n \in P!Entry :
        /\ P!Update(i, n) /\ n.data = query[i].data /\ ~n.valid /\ n.failed = query[i].failed
        /\ n.call \in {query[i].call, Asked} /\ (P!Active(i) => n.call # None)
  <2>1. PICK m : m = P!Invalidated(i)
    OBVIOUS
  <2>2. /\ m \in P!Entry /\ m.data = query[i].data /\ ~m.valid /\ m.failed = query[i].failed
        /\ m.call \in {query[i].call, Asked} /\ (P!Active(i) => m.call # None)
    BY <1>4, <2>1, Staled
  <2>3. CASE P!Sent(c)
    <3>1. P!Update(i, m)
      BY <1>1, <2>1, <2>3 DEF P!Sent, P!Invalidate
    <3> QED BY <2>2, <3>1
  <2>4. CASE P!Paid(c)
    <3>1. PICK n : n = P!Fetching(m, TRUE)
      OBVIOUS
    <3>2. P!Update(i, n)
      BY <1>1, <2>1, <2>4, <3>1 DEF P!Paid
    <3>3. /\ n \in P!Entry /\ n.data = m.data /\ n.valid = m.valid /\ n.failed = m.failed
          /\ n.call \in {m.call, Asked} /\ n.call # None
      BY <2>2, <3>1, Fetched
    <3> QED BY <2>2, <3>2, <3>3
  <2> QED BY <2>3, <2>4
<1>7. /\ query' = [query EXCEPT ![i] = n] /\ query'[i] = n /\ Current(i)'
      /\ missed' \subseteq InvoiceId
      /\ \A j \in InvoiceId \ {i} : j \in missed' <=> j \in missed
  BY <1>4, <1>5, <1>6, Updates
<1>8. FormInv'
  BY <1>3, <1>4, <1>5, <1>6, <1>7 DEF PagesInv, FormInv, P!Shown, P!Active, P!TypeOK
<1>9. /\ request' = [d \in Click |-> request'[d]]
      /\ \A d \in Click : request'[d] # None =>
           request[d] # None /\ PageKept(request[d], request'[d])
  <2>1. CASE P!Sent(c)
    BY <2>1, Forgets DEF P!Sent
  <2>2. CASE P!Paid(c)
    <3>1. ASSUME NEW d \in Click, request'[d] # None
          PROVE  request[d] # None /\ PageKept(request[d], request'[d])
      <4>1. request[d] \in P!Mutation \union {None}
        BY DEF PagesInv, P!TypeOK
      <4>2. /\ request[d] # None
            /\ request'[d] = request[d] \/ request'[d] = [request[d] EXCEPT !.at = "page"]
        BY <2>2, <3>1 DEF P!Paid
      <4> QED BY <4>1, <4>2, Left DEF PageKept
    <3> QED BY <2>2, <3>1 DEF P!Paid
  <2> QED BY <2>1, <2>2
<1> QED BY <1>3, <1>4, <1>5, <1>6, <1>7, <1>8, <1>9, LearnStep, Typed

\* Saving pushes the detail page, which fetches what it cannot show as fresh.
LEMMA TellsSaved ==
    ASSUME P!PagesAssumption, PagesInv, NEW c \in Click, NEW kind \in {"create", "edit"},
           P!Saved(c, kind)
    PROVE  PagesInv'
<1>1. PICK i, answer : i = request[c].of /\ answer = request[c].answer
  OBVIOUS
<1>2. PICK q : q = IF kind = "edit" THEN P!Invalidated(i) ELSE query[i]
  OBVIOUS
<1>3. PICK n : n = IF q.data = None \/ ~q.valid THEN P!Fetching(q, FALSE) ELSE q
  OBVIOUS
<1>4. /\ page' = [on |-> "detail", of |-> i, dialog |-> (page.dialog /\ page.of = i)]
      /\ query' = [query EXCEPT ![i] = n]
      /\ missed' = IF kind = "edit" /\ query[i].call \notin {None, Asked} /\ query'[i].call = query[i].call
                   THEN missed \union {i} ELSE missed
      /\ wrote' = [wrote EXCEPT ![i] = IF @ < request[c].answer THEN request[c].answer ELSE @]
      /\ request' = [d \in Click |-> IF d = c \/ request[d] = None THEN None
                       ELSE IF page'.on = page.on /\ page'.of = page.of THEN request[d]
                       ELSE [request[d] EXCEPT !.at = "away"]]
      /\ form' = None /\ opened' = 0 /\ UNCHANGED <<server, puzzled>> /\ P!Answered(c, kind)
  BY <1>1, <1>2, <1>3 DEF P!Saved
<1>5. /\ i \in InvoiceId /\ server[i].status # "ABSENT"
      /\ wrote' \in [InvoiceId -> 0..MaxVersion] /\ wrote'[i] <= server[i].version
      /\ \A j \in InvoiceId \ {i} : wrote'[j] = wrote[j]
      /\ wrote'[i] \in {wrote[i], answer}
      /\ kind = "create" => \A row \in Held(i) : row.version >= answer
  <2>1. PICK shows : shows = wrote'
    OBVIOUS
  <2>2. shows = Learnt(i, request[c].answer)
    BY <1>4, <2>1 DEF Learnt
  <2>3. /\ i \in InvoiceId /\ server[i].status # "ABSENT"
        /\ shows \in [InvoiceId -> 0..MaxVersion] /\ shows[i] <= server[i].version
        /\ \A j \in InvoiceId \ {i} : shows[j] = wrote[j]
        /\ shows[i] \in {wrote[i], answer}
        /\ kind = "create" => \A row \in Held(i) : row.version >= answer
    BY <1>1, <1>4, <2>2, Granted
  <2> QED BY <2>1, <2>3
<1>6. /\ q \in P!Entry /\ q.data = query[i].data /\ q.failed = query[i].failed
      /\ q.call \in {query[i].call, Asked}
      /\ kind = "edit" => ~q.valid
      /\ kind = "create" => q = query[i]
  BY <1>2, <1>5, Staled, Typed
<1>7. /\ n \in P!Entry /\ n.data = query[i].data /\ n.failed = query[i].failed
      /\ n.valid = q.valid /\ n.call \in {q.call, Asked}
      /\ n.call = None => q.data # None /\ q.valid
  BY <1>3, <1>6, Fetched
<1>8. query'[i] = n
  BY <1>4, <1>5 DEF PagesInv, P!TypeOK
<1>9. Current(i)'
  <2>1. CASE kind = "edit"
    BY <1>4, <1>6, <1>7, <1>8, <2>1 DEF Current
  <2>2. CASE kind = "create"
    <3>1. Current(i) /\ missed' = missed
      BY <1>4, <1>5, <2>2 DEF PagesInv, OwnInv
    <3>2. /\ query[i].call \notin {None, Asked} => query[i].call \in Held(i)
          /\ query[i].data # None => query[i].data \in Held(i)
      BY <1>5, Typed DEF Held, P!Entry, P!PagesAssumption
    <3> QED BY <1>5, <1>6, <1>7, <1>8, <2>2, <3>1, <3>2 DEF Current
  <2> QED BY <2>1, <2>2
<1>10. /\ page' \in [on: {"home", "detail", "edit"}, of: InvoiceId \union {None}, dialog: BOOLEAN]
       /\ PlaceInv' /\ FormInv' /\ page'.of = i
  BY <1>4, <1>5, Typed DEF PlaceInv, FormInv
<1>11. ASSUME NEW d \in Click, request'[d] # None
       PROVE  request[d] # None /\ PageKept(request[d], request'[d])
  <2>1. request[d] \in P!Mutation \union {None}
    BY DEF PagesInv, P!TypeOK
  <2> QED BY <1>4, <1>11, <2>1, Left DEF PageKept
<1>12. /\ request' = [d \in Click |-> request'[d]] /\ missed' \subseteq InvoiceId
       /\ \A j \in InvoiceId \ {i} : j \in missed' <=> j \in missed
       /\ opened' \in 0..MaxVersion /\ form' \in P!Row \union {None}
  BY <1>4, <1>5, Typed DEF P!PagesAssumption
<1>13. n.call \in {query[i].call, None, Asked, server[i]}
  BY <1>6, <1>7
<1> QED BY <1>4, <1>5, <1>7, <1>9, <1>10, <1>11, <1>12, <1>13, LearnStep

LEMMA TellsDeleted ==
    ASSUME P!PagesAssumption, PagesInv, NEW c \in Click, P!Deleted(c)
    PROVE  PagesInv'
<1>1. /\ page' = P!Home /\ form' = None /\ opened' = 0
      /\ request' = [d \in Click |-> IF d = c \/ request[d] = None THEN None
                                     ELSE [request[d] EXCEPT !.at = "away"]]
      /\ UNCHANGED <<server, query, wrote, missed, puzzled>>
  BY DEF P!Deleted
<1>2. ASSUME NEW d \in Click, request'[d] # None
      PROVE  request[d] # None /\ PageKept(request[d], request'[d])
  <2>1. request[d] \in P!Mutation \union {None}
    BY DEF PagesInv, P!TypeOK
  <2> QED BY <1>1, <1>2, <2>1, Left DEF PageKept
<1>3. request' \in [Click -> P!Mutation \union {None}] /\ AskInv'
  BY <1>1, <1>2, RequestsKept DEF Held
<1>4. /\ page' \in [on: {"home", "detail", "edit"}, of: InvoiceId \union {None}, dialog: BOOLEAN]
      /\ PlaceInv' /\ page'.of = None /\ FormInv' /\ opened' \in 0..MaxVersion
  BY <1>1 DEF P!Home, PlaceInv, FormInv, P!PagesAssumption
<1> QED BY <1>1, <1>3, <1>4, TabStep

LEMMA TellsNothing ==
    ASSUME P!PagesAssumption, PagesInv, NEW c \in Click, P!MutationFails(c)
    PROVE  PagesInv'
<1>1. /\ request' = P!Forgotten(c)
      /\ UNCHANGED <<server, query, page, form, opened, wrote, missed, puzzled>>
  BY DEF P!MutationFails
<1>2. request' \in [Click -> P!Mutation \union {None}] /\ AskInv'
  BY <1>1, Forgets, RequestsKept DEF Held
<1>3. PlaceInv' /\ FormInv'
  BY <1>1, Typed DEF PagesInv, PlaceInv, FormInv, P!Shown, P!Active
<1> QED BY <1>1, <1>2, <1>3, TabStep, Typed

------------------------------------------------------------------------------
LEMMA PagesStart == P!PagesAssumption /\ P!Init => PagesInv
<1> SUFFICES ASSUME P!PagesAssumption, P!Init PROVE PagesInv
  OBVIOUS
<1>1. /\ 0 \in 0..MaxVersion /\ 0 \in 0..Amount
      /\ \A s \in {"ABSENT", "DRAFT"} : [version |-> 0, status |-> s, paid |-> 0] \in P!Row
  BY DEF P!PagesAssumption, P!Row, P!Status
<1>2. P!Empty \in P!Entry /\ \A i \in InvoiceId : query[i] = P!Empty
  BY DEF P!Empty, P!Entry, P!Init
<1>3. P!TypeOK
  BY <1>1, <1>2 DEF P!TypeOK, P!Init, P!Home
<1>4. ServerInv
  BY DEF ServerInv, P!Init
<1>5. HeldInv
  BY <1>2 DEF HeldInv, Held, P!Empty, P!Init, P!Home, P!PagesAssumption
<1>6. OwnInv
  <2>1. ASSUME NEW i \in InvoiceId PROVE wrote[i] <= server[i].version /\ Current(i)
    BY <1>1, <1>2 DEF Current, P!Empty, P!Init
  <2> QED BY <2>1 DEF OwnInv
<1> QED BY <1>3, <1>4, <1>5, <1>6 DEF PagesInv, PlaceInv, AskInv, FormInv, P!Init

LEMMA PagesKept == P!PagesAssumption /\ PagesInv /\ [P!Next]_(P!vars) => PagesInv'
<1> SUFFICES ASSUME P!PagesAssumption, PagesInv, [P!Next]_(P!vars) PROVE PagesInv'
  OBVIOUS
<1>1. CASE UNCHANGED P!vars
  <2>1. request' \in [Click -> P!Mutation \union {None}] /\ AskInv'
    BY <1>1, SameRequests, RequestsKept DEF P!vars, Held
  <2>2. PlaceInv' /\ FormInv'
    BY <1>1, Typed DEF P!vars, PagesInv, PlaceInv, FormInv, P!Shown, P!Active
  <2> QED BY <1>1, <2>1, <2>2, TabStep, Typed DEF P!vars
<1>2. ASSUME NEW i \in InvoiceId,
             \/ P!ApiReads(i) \/ P!Loaded(i) \/ P!LoadFails(i) \/ P!GrowsOld(i) \/ P!Collected(i)
             \/ P!OpenDetail(i) \/ P!OpenEdit(i) \/ P!OpenDialog(i) \/ P!OthersWrite(i)
      PROVE  PagesInv'
  BY <1>2, Reads, Loads, FetchFails, Ages, DetailOpens, EditOpens, DialogOpens, OthersChange
<1>3. ASSUME NEW c \in Click,
             P!ApiWrites(c) \/ P!Sent(c) \/ P!Paid(c) \/ P!Deleted(c) \/ P!MutationFails(c)
      PROVE  PagesInv'
  BY <1>3, PageApiAnswers, TellsWritten, TellsDeleted, TellsNothing
<1> QED BY <1>1, <1>2, <1>3, GoesHome, Refreshes, EventComes, DialogCloses, TabAsks, TellsSaved DEF P!Next

\* The invoice pages, for any invoices, clicks, amounts and numbers of changes:
\* an own write that was confirmed shows, and what the newest data offers is
\* granted.
THEOREM PagesShowAndOffer ==
    P!PagesAssumption /\ P!Spec => []P!TypeOK /\ []P!OwnWriteShows /\ []P!RefusedOnlyWhenStale
<1> SUFFICES ASSUME P!PagesAssumption
             PROVE  P!Spec => []P!TypeOK /\ []P!OwnWriteShows /\ []P!RefusedOnlyWhenStale
  OBVIOUS
<1>1. PagesInv => P!TypeOK /\ P!RefusedOnlyWhenStale
  BY DEF PagesInv, P!RefusedOnlyWhenStale
<1>2. PagesInv => P!OwnWriteShows
  BY DEF PagesInv, OwnInv, Current, P!OwnWriteShows, P!Shown
<1>3. QED
  BY <1>1, <1>2, PagesStart, PagesKept, PTL DEF P!Spec

(***************************************************************************)
(* Signin: the way in, the code form and the wizard                        *)
(***************************************************************************)
(* Signin: the store and the routes                                         *)

Person == Phone \cup {None}
StoreState == [user : Person, access : Person, refresh : Person, tenant : BOOLEAN]
FlagState == [auth : BOOLEAN, onboarded : BOOLEAN]
OtpState ==
    [step : {1, 2}, phone : Person, error : BOOLEAN, success : BOOLEAN, left : 0 .. Seconds,
     resend : BOOLEAN, boxes : 0 .. Boxes, latest : Call \cup {None}, moved : BOOLEAN]
WizardState ==
    [step : 0 .. 4, leaving : {None, 1, 2, 3}, filled : BOOLEAN, gst : {"none", "bad", "good"},
     slipped : BOOLEAN]

\* The page of a user with these flags.
IsTheirs(at) ==
    IF ~W!Flags.auth THEN at # "dashboard"
    ELSE at = IF W!Flags.onboarded THEN "dashboard" ELSE "onboarding"
\* Once the layout has seen the flags as they are, the route on its way is the
\* user's own, or leads to the other layout, which looks for itself.
PushIsRight ==
    seen = W!Flags /\ ~crossed =>
        IF going = None THEN IsTheirs(route)
        ELSE IsTheirs(going) \/ W!Group(going) # W!Group(route)
RouteInv ==
    /\ store \in StoreState /\ store.access = store.user
    /\ loading \in BOOLEAN /\ check \in BOOLEAN /\ crossed \in BOOLEAN
    /\ route \in W!Page /\ going \in W!Page \cup {None} /\ seen \in FlagState \cup {None}
    /\ owned \subseteq Phone
    /\ loading => seen = None
    /\ PushIsRight /\ W!OneIdentity

\* An answer calls nobody onboarded who has no business.
CallInv ==
    /\ call \in [Call -> W!ApiCall \cup {None}]
    /\ \A c \in Call : call[c] # None /\ call[c].answer = "ok" =>
          /\ call[c].named => call[c].phone \in owned
          /\ call[c].op = "onboard" => call[c].phone \in owned

\* Requests whose form is still there.
Here(op) == {c \in W!Under(op) : call[c].here}
\* One number and one code at a time are on their way for the form, and a code
\* is for the number shown unless this was changed.
OtpInv ==
    /\ otp \in OtpState
    /\ \A c \in Here("send") : otp.step = 1 /\ otp.latest = c
    /\ \A c, d \in Here("verify") : c = d
    /\ \A c \in Here("verify") :
          /\ route = "login" /\ ~otp.error /\ ~otp.success
          /\ otp.moved \/ (otp.step = 2 /\ call[c].phone = otp.phone)
    /\ otp.success =>
          /\ route = "login"
          /\ otp.moved \/ (otp.step = 2 /\ (crossed \/ store.user = otp.phone))
    /\ W!FullCodeIsVerified /\ W!ResendWaits
WizardInv == wizard \in WizardState /\ W!WizardShowsStep

SigninInv == RouteInv /\ CallInv /\ OtpInv /\ WizardInv

\* What the assumption gives the provers.
LEMMA NoneApart ==
    ASSUME W!SigninAssumption
    PROVE  /\ None \notin Phone /\ None \notin Call /\ None \notin W!Page /\ None # "ok" /\ None # "no"
           /\ None \notin W!ApiCall /\ None \notin FlagState /\ None # 1 /\ None # 2 /\ None # 3
           /\ Seconds \in Nat /\ Seconds > 0 /\ Boxes \in Nat /\ Boxes > 0
BY DEF W!SigninAssumption, FlagState

LEMMA FlagsAreThere == ASSUME store \in StoreState PROVE W!Flags \in FlagState
BY DEF W!Flags, FlagState, StoreState

-----------------------------------------------------------------------------
(* Beginnings                                                               *)

LEMMA NewForms == ASSUME W!SigninAssumption PROVE W!NewOtp \in OtpState /\ W!NewWizard \in WizardState
<1>1. Seconds \in 0 .. Seconds /\ 0 \in 0 .. Boxes
  BY NoneApart
<1> QED BY <1>1 DEF W!NewOtp, OtpState, W!NewWizard, WizardState, Person

\* A form that is new waits for nothing.
LEMMA FreshOtp ==
    ASSUME W!SigninAssumption, otp' = W!NewOtp, Here("send")' = {}, Here("verify")' = {}
    PROVE  OtpInv'
<1>1. otp' \in OtpState
  BY NewForms
<1>2. /\ otp'.step = 1 /\ otp'.success = FALSE /\ otp'.boxes = 0
  BY DEF W!NewOtp
<1>3. W!FullCodeIsVerified' /\ W!ResendWaits'
  BY <1>2, NoneApart DEF W!FullCodeIsVerified, W!ResendWaits
<1> QED BY <1>1, <1>2, <1>3 DEF OtpInv

LEMMA FreshWizard == ASSUME W!SigninAssumption, wizard' = W!NewWizard PROVE WizardInv'
BY NewForms DEF WizardInv, W!NewWizard, W!WizardShowsStep

LEMMA SigninStarts == W!SigninAssumption /\ W!Init => SigninInv
<1> SUFFICES ASSUME W!SigninAssumption, W!Init PROVE SigninInv
  OBVIOUS
<1>1. /\ store \in StoreState /\ store.access = store.user /\ W!OneIdentity
  <2>1. ASSUME NEW p \in Phone, NEW named \in BOOLEAN
        PROVE  /\ W!SignedIn(p, named) \in StoreState /\ W!SignedIn(p, named).access = W!SignedIn(p, named).user
               /\ W!SignedIn(p, named).refresh = W!SignedIn(p, named).user
               /\ W!SignedIn(p, named).tenant = named /\ W!SignedIn(p, named).user = p
    BY DEF W!SignedIn, StoreState, Person
  <2>2. W!SignedOut \in StoreState /\ W!SignedOut.access = W!SignedOut.user /\ W!SignedOut.user = None
    BY DEF W!SignedOut, StoreState, Person
  <2>3. CASE store = W!SignedOut
    BY <2>2, <2>3 DEF W!OneIdentity
  <2>4. CASE \E p \in Phone : store = W!SignedIn(p, p \in owned)
    <3>1. PICK p \in Phone : store = W!SignedIn(p, p \in owned)
      BY <2>4
    <3>2. (p \in owned) \in BOOLEAN
      OBVIOUS
    <3> QED BY <2>1, <3>1, <3>2 DEF W!OneIdentity
  <2>5. CASE \E p \in Phone : store = W!SignedIn(p, FALSE)
    BY <2>1, <2>5 DEF W!OneIdentity
  <2> QED BY <2>3, <2>4, <2>5 DEF W!Init
<1>2. RouteInv
  <2>1. /\ loading = TRUE /\ seen = None /\ crossed = FALSE /\ check = (store.access # None)
        /\ route \in W!Page /\ going = None /\ owned \subseteq Phone
    BY DEF W!Init, W!Page
  <2>2. seen # W!Flags
    BY <1>1, <2>1, NoneApart, FlagsAreThere
  <2> QED BY <1>1, <2>1, <2>2 DEF RouteInv, PushIsRight
<1>3. \A c \in Call : call[c] = None
  BY DEF W!Init
<1>4. CallInv
  BY <1>3 DEF CallInv, W!Init
<1>5. Here("send") = {} /\ Here("verify") = {}
  BY <1>3 DEF Here, W!Under
<1>6. OtpInv
  <2>1. /\ otp \in OtpState /\ otp.step = 1 /\ otp.success = FALSE /\ otp.boxes = 0
    BY NewForms DEF W!Init, W!NewOtp
  <2>2. W!FullCodeIsVerified /\ W!ResendWaits
    BY <2>1, NoneApart DEF W!FullCodeIsVerified, W!ResendWaits
  <2> QED BY <1>5, <2>1, <2>2 DEF OtpInv
<1>7. WizardInv
  BY NewForms DEF W!Init, WizardInv, W!NewWizard, W!WizardShowsStep
<1> QED BY <1>2, <1>4, <1>6, <1>7 DEF SigninInv
-----------------------------------------------------------------------------
(* Requests                                                                 *)

Ops == {"send", "resend", "verify", "me", "onboard"}

LEMMA WayAsked ==
    ASSUME W!SigninAssumption, CallInv, NEW c \in Call, call[c] = None, NEW op \in Ops,
           NEW p \in Person, W!Ask(c, op, p), owned' = owned
    PROVE  /\ CallInv' /\ call'[c].phone = p
           /\ \A o \in Ops : Here(o)' = IF o = op THEN Here(o) \cup {c} ELSE Here(o)
           /\ \A d \in Call : d # c => call'[d] = call[d]
<1> DEFINE new == [op |-> op, phone |-> p, answer |-> None, named |-> FALSE, here |-> TRUE]
<1>1. new \in W!ApiCall /\ new.op = op /\ new.phone = p /\ new.here /\ new.answer = None
  BY DEF W!ApiCall, Ops, Person
<1>2. /\ call' = [call EXCEPT ![c] = new] /\ call \in [Call -> W!ApiCall \cup {None}]
  BY DEF W!Ask, CallInv
<1> HIDE DEF new
<1>3. /\ call' \in [Call -> W!ApiCall \cup {None}] /\ call'[c] = new
      /\ \A d \in Call : d # c => call'[d] = call[d]
  BY <1>1, <1>2
<1>4. new # None /\ None # "ok"
  BY <1>1, NoneApart
<1>5. CallInv'
  BY <1>1, <1>3, <1>4 DEF CallInv
<1>6. \A o \in Ops : Here(o)' = IF o = op THEN Here(o) \cup {c} ELSE Here(o)
  BY <1>1, <1>3, <1>4 DEF Here, W!Under
<1> QED BY <1>1, <1>3, <1>5, <1>6

LEMMA Done ==
    ASSUME W!SigninAssumption, CallInv, NEW c \in Call, call' = [call EXCEPT ![c] = None],
           owned' = owned
    PROVE  /\ CallInv'
           /\ \A o \in Ops : Here(o)' = Here(o) \ {c}
           /\ \A d \in Call : d # c => call'[d] = call[d]
<1>1. /\ call' \in [Call -> W!ApiCall \cup {None}] /\ call'[c] = None
      /\ \A d \in Call : d # c => call'[d] = call[d]
  BY DEF CallInv
<1>2. CallInv'
  BY <1>1 DEF CallInv
<1>3. \A o \in Ops : Here(o)' = Here(o) \ {c}
  BY <1>1 DEF Here, W!Under
<1> QED BY <1>1, <1>2, <1>3

LEMMA AnswerComes ==
    ASSUME W!SigninAssumption, CallInv, NEW c \in Call, call[c] # None,
           NEW answer \in {"ok", "no"}, NEW named \in BOOLEAN, W!Answer(c, answer, named),
           owned \subseteq owned', owned' \subseteq Phone,
           answer = "ok" => /\ named => call[c].phone \in owned'
                            /\ call[c].op = "onboard" => call[c].phone \in owned'
    PROVE  /\ CallInv'
           /\ \A o \in Ops : Here(o)' = Here(o)
           /\ \A d \in Call : call[d] # None => call'[d].phone = call[d].phone
<1> DEFINE half == [call[c] EXCEPT !.answer = answer]
           new == [half EXCEPT !.named = named]
<1>1. call[c] \in W!ApiCall
  BY DEF CallInv
<1>2. /\ half \in W!ApiCall /\ half.op = call[c].op /\ half.phone = call[c].phone
      /\ half.here = call[c].here /\ half.answer = answer
  BY <1>1 DEF W!ApiCall
<1> HIDE DEF half
<1>3. /\ new \in W!ApiCall /\ new.op = call[c].op /\ new.phone = call[c].phone
      /\ new.here = call[c].here /\ new.answer = answer /\ new.named = named
  BY <1>2 DEF W!ApiCall
<1>4. call' = [call EXCEPT ![c] = new]
  BY <1>1 DEF W!Answer, half, W!ApiCall, CallInv
<1> HIDE DEF new
<1>5. /\ call' \in [Call -> W!ApiCall \cup {None}] /\ call'[c] = new
      /\ \A d \in Call : d # c => call'[d] = call[d]
  BY <1>3, <1>4 DEF CallInv
<1>6. new # None
  BY <1>3, NoneApart
<1>7. CallInv'
  BY <1>3, <1>5 DEF CallInv
<1>8. \A o \in Ops : Here(o)' = Here(o)
  BY <1>3, <1>5, <1>6 DEF Here, W!Under
<1>9. \A d \in Call : call[d] # None => call'[d].phone = call[d].phone
  BY <1>3, <1>5
<1> QED BY <1>7, <1>8, <1>9

LEMMA CallsStay ==
    ASSUME CallInv, UNCHANGED <<call, owned>>
    PROVE  CallInv' /\ \A o \in Ops : Here(o)' = Here(o)
BY DEF CallInv, Here, W!Under

-----------------------------------------------------------------------------
(* What a step leaves as it was                                             *)

LEMMA RoutesStay ==
    ASSUME RouteInv, UNCHANGED <<store, loading, W!site, crossed>>, check' \in BOOLEAN,
           owned \subseteq owned', owned' \subseteq Phone
    PROVE  RouteInv'
<1>1. W!Flags' = W!Flags /\ (PushIsRight => PushIsRight') /\ (W!OneIdentity => W!OneIdentity')
  BY DEF W!Flags, PushIsRight, IsTheirs, W!OneIdentity, W!site
<1> QED BY <1>1 DEF RouteInv, W!site

LEMMA OtpStays ==
    ASSUME OtpInv, UNCHANGED <<otp, route>>,
           otp.success => crossed' \/ (crossed' = crossed /\ store'.user = store.user),
           Here("send")' \subseteq Here("send"), Here("verify")' = Here("verify"),
           \A c \in Here("verify") : call'[c].phone = call[c].phone
    PROVE  OtpInv'
<1>1. W!FullCodeIsVerified' /\ W!ResendWaits'
  BY DEF OtpInv, W!FullCodeIsVerified, W!ResendWaits, W!Verifying, Here
<1> QED BY <1>1 DEF OtpInv

LEMMA WizardStays == WizardInv /\ UNCHANGED wizard => WizardInv'
BY DEF WizardInv, W!WizardShowsStep

LEMMA AllStay ==
    ASSUME SigninInv, UNCHANGED <<store, loading, check, W!site, W!forms, call, owned, crossed>>
    PROVE  SigninInv'
<1>1. RouteInv'
  BY RoutesStay DEF SigninInv, RouteInv
<1>2. CallInv' /\ \A o \in Ops : Here(o)' = Here(o)
  BY CallsStay DEF SigninInv
<1>3. OtpInv'
  BY <1>2, OtpStays DEF SigninInv, W!forms, W!site, Ops
<1> QED BY <1>1, <1>2, <1>3, WizardStays DEF SigninInv, W!forms

-----------------------------------------------------------------------------
(* Routes and the store                                                     *)

LEMMA LayoutLooks == ASSUME W!SigninAssumption, SigninInv, W!LayoutEffect PROVE SigninInv'
<1> USE DEF SigninInv
<1>1. /\ seen' = W!Flags /\ ~loading /\ UNCHANGED <<store, loading, check, route, W!forms, call, owned, crossed>>
      /\ going' = IF ~W!Flags.auth THEN (IF route = "dashboard" THEN "login" ELSE going)
                  ELSE IF ~W!Flags.onboarded THEN "onboarding"
                  ELSE IF route = "dashboard" THEN going ELSE "dashboard"
  BY DEF W!LayoutEffect
<1>2. W!Flags \in FlagState /\ W!Flags' = W!Flags
  BY <1>1, FlagsAreThere DEF RouteInv, W!Flags
<1>3. going' \in W!Page \cup {None}
  BY <1>1 DEF W!Page, RouteInv
<1>4. PushIsRight'
  BY <1>1, <1>2, NoneApart DEF PushIsRight, IsTheirs, W!Group, RouteInv, W!Page
<1>5. RouteInv'
  BY <1>1, <1>2, <1>3, <1>4 DEF RouteInv, W!OneIdentity
<1>6. CallInv' /\ \A o \in Ops : Here(o)' = Here(o)
  BY <1>1, CallsStay
<1>7. OtpInv'
  BY <1>1, <1>6, OtpStays DEF W!forms, Ops
<1> QED BY <1>1, <1>5, <1>6, <1>7, WizardStays DEF W!forms

\* The requests of a form that is left go on without it.
LEMMA Arrives == ASSUME W!SigninAssumption, SigninInv, W!Arrive PROVE SigninInv'
<1> USE DEF SigninInv
<1>1. /\ going # None /\ route' = going /\ going' = None
      /\ seen' = IF W!Group(going) = W!Group(route) THEN seen ELSE None
      /\ UNCHANGED <<store, loading, check, owned, crossed>>
  BY DEF W!Arrive
<1>2. W!Flags' = W!Flags /\ W!Flags \in FlagState
  BY <1>1, FlagsAreThere DEF RouteInv, W!Flags
<1>3. PushIsRight'
  BY <1>1, <1>2, NoneApart DEF PushIsRight, IsTheirs, RouteInv
<1>4. RouteInv'
  BY <1>1, <1>3 DEF RouteInv, W!OneIdentity
<1>5. CASE going = route
  <2>1. /\ otp' = otp /\ wizard' = wizard
        /\ call' = [c \in Call |-> call[c]]
    BY <1>5 DEF W!Arrive
  <2>2. call' = call
    BY <2>1 DEF CallInv
  <2>3. CallInv' /\ \A o \in Ops : Here(o)' = Here(o)
    BY <1>1, <2>2, CallsStay
  <2>4. OtpInv'
    BY <1>1, <1>5, <2>1, <2>2, <2>3, OtpStays DEF Ops
  <2> QED BY <1>4, <2>1, <2>3, <2>4, WizardStays
<1>6. CASE going # route
  <2>1. /\ otp' = W!NewOtp /\ wizard' = W!NewWizard
        /\ call' = [c \in Call |-> IF call[c] = None THEN call[c] ELSE [call[c] EXCEPT !.here = FALSE]]
    BY <1>6 DEF W!Arrive
  <2>2. \A c \in Call : /\ call'[c] = None <=> call[c] = None
                        /\ call[c] # None => /\ call'[c] \in W!ApiCall /\ call'[c].here = FALSE
                                             /\ call'[c].answer = call[c].answer
                                             /\ call'[c].named = call[c].named
                                             /\ call'[c].phone = call[c].phone
                                             /\ call'[c].op = call[c].op
    <3> SUFFICES ASSUME NEW c \in Call, call[c] # None
                 PROVE  LET new == [call[c] EXCEPT !.here = FALSE]
                        IN  /\ new \in W!ApiCall /\ new.here = FALSE
                            /\ new.answer = call[c].answer /\ new.named = call[c].named
                            /\ new.phone = call[c].phone /\ new.op = call[c].op
      BY <2>1, NoneApart
    <3>1. call[c] \in W!ApiCall
      BY DEF CallInv
    <3> QED BY <3>1 DEF W!ApiCall
  <2>3. CallInv'
    <3>1. call' \in [Call -> W!ApiCall \cup {None}]
      BY <2>1, <2>2 DEF CallInv
    <3> QED BY <1>1, <2>2, <3>1 DEF CallInv
  <2>4. Here("send")' = {} /\ Here("verify")' = {}
    BY <2>2 DEF Here, W!Under
  <2>5. OtpInv' /\ WizardInv'
    BY <2>1, <2>4, FreshOtp, FreshWizard
  <2> QED BY <1>4, <2>3, <2>5
<1> QED BY <1>5, <1>6

\* A tab that is opened has no requests and new forms.
LEMMA OpensNew ==
    ASSUME W!SigninAssumption, SigninInv, NEW at \in W!Page, W!Opened(at), store' \in StoreState,
           store'.access = store'.user, W!OneIdentity', crossed' \in BOOLEAN, owned' = owned
    PROVE  SigninInv'
<1> USE DEF SigninInv
<1>1. /\ route' = at /\ going' = None /\ seen' = None /\ loading' = TRUE
      /\ check' = (store'.access # None) /\ otp' = W!NewOtp /\ wizard' = W!NewWizard
      /\ call' = [c \in Call |-> None]
  BY DEF W!Opened
<1>2. seen' # W!Flags'
  <2>1. W!Flags' \in FlagState
    BY DEF W!Flags, FlagState, StoreState
  <2> QED BY <1>1, <2>1, NoneApart
<1>3. RouteInv'
  BY <1>1, <1>2 DEF RouteInv, PushIsRight
<1>4. CallInv' /\ Here("send")' = {} /\ Here("verify")' = {}
  BY <1>1 DEF CallInv, Here, W!Under
<1> QED BY <1>1, <1>3, <1>4, FreshOtp, FreshWizard

LEMMA Reloads == ASSUME W!SigninAssumption, SigninInv, W!Reload PROVE SigninInv'
<1>1. /\ store' = store /\ W!Opened(route) /\ UNCHANGED <<owned, crossed>>
  BY DEF W!Reload
<1>2. W!OneIdentity' /\ store \in StoreState /\ store.access = store.user /\ crossed \in BOOLEAN
      /\ route \in W!Page
  BY <1>1 DEF SigninInv, RouteInv, W!OneIdentity
<1> QED BY <1>1, <1>2, OpensNew

\* Nothing but the dashboard lets one log out, where no code is waited for.
LEMMA LogsOut == ASSUME W!SigninAssumption, SigninInv, W!Logout PROVE SigninInv'
<1> USE DEF SigninInv
<1>1. /\ route = "dashboard" /\ store' = W!SignedOut /\ check' = FALSE /\ going' = "login"
      /\ crossed' = FALSE /\ UNCHANGED <<loading, route, seen, W!forms, call, owned>>
  BY DEF W!Logout
<1>2. /\ store' \in StoreState /\ store'.access = store'.user /\ store'.user = None
  BY <1>1 DEF W!SignedOut, StoreState, Person
<1>3. PushIsRight' /\ W!OneIdentity'
  BY <1>1, <1>2, NoneApart DEF PushIsRight, IsTheirs, W!Flags, W!OneIdentity, W!Page
<1>4. RouteInv'
  BY <1>1, <1>2, <1>3 DEF RouteInv, W!Page
<1>5. CallInv' /\ \A o \in Ops : Here(o)' = Here(o)
  BY <1>1, CallsStay
<1>6. ~otp.success
  BY <1>1 DEF OtpInv
<1>7. OtpInv'
  BY <1>1, <1>5, <1>6, OtpStays DEF W!forms, Ops
<1> QED BY <1>1, <1>4, <1>5, <1>7, WizardStays DEF W!forms

LEMMA GetsReady == ASSUME W!SigninAssumption, SigninInv, W!Ready PROVE SigninInv'
<1> USE DEF SigninInv
<1>1. loading' = FALSE /\ UNCHANGED <<store, check, W!site, W!forms, call, owned, crossed>>
  BY DEF W!Ready
<1>2. W!Flags' = W!Flags /\ PushIsRight' /\ W!OneIdentity'
  BY <1>1 DEF W!Flags, PushIsRight, IsTheirs, W!OneIdentity, RouteInv, W!site
<1>3. RouteInv'
  BY <1>1, <1>2 DEF RouteInv, W!site
<1>4. CallInv' /\ \A o \in Ops : Here(o)' = Here(o)
  BY <1>1, CallsStay
<1>5. OtpInv'
  BY <1>1, <1>4, OtpStays DEF W!forms, W!site, Ops
<1> QED BY <1>1, <1>3, <1>4, <1>5, WizardStays DEF W!forms

LEMMA AsksMe == ASSUME W!SigninAssumption, SigninInv, NEW c \in Call, W!AskMe(c) PROVE SigninInv'
<1> USE DEF SigninInv
<1>1. /\ call[c] = None /\ check' = FALSE /\ W!Ask(c, "me", store.access)
      /\ UNCHANGED <<store, loading, W!site, W!forms, owned, crossed>>
  BY DEF W!AskMe, W!Free
<1>2. RouteInv'
  BY <1>1, RoutesStay DEF RouteInv
<1>3. store.access \in Person /\ "me" \in Ops
  BY DEF RouteInv, StoreState, Ops
<1>4. /\ CallInv' /\ Here("send")' = Here("send") /\ Here("verify")' = Here("verify")
      /\ \A d \in Call : d # c => call'[d] = call[d]
  BY <1>1, <1>3, WayAsked DEF Ops
<1>5. \A d \in Here("verify") : d # c
  BY <1>1 DEF Here, W!Under
<1>6. OtpInv'
  BY <1>1, <1>4, <1>5, OtpStays DEF W!forms, W!site, Here, W!Under
<1> QED BY <1>1, <1>2, <1>4, <1>6, WizardStays DEF W!forms

\* An answer to getMe that changes the user is an exception, and any other
\* changes the flags, if at all, where the layout will look again.
LEMMA MeComes ==
    ASSUME W!SigninAssumption, SigninInv, W!Settled, NEW c \in Call, W!MeAnswered(c)
    PROVE  SigninInv'
<1> USE DEF SigninInv
<1>1. /\ call[c] # None /\ call[c].op = "me" /\ call[c].answer # None
      /\ store' = IF call[c].answer = "no" THEN store
                  ELSE [store EXCEPT !.user = call[c].phone, !.access = call[c].phone,
                                     !.tenant = call[c].named]
      /\ check' = (check \/ store'.access # store.access)
      /\ crossed' = (crossed \/ store'.access # store.access)
      /\ loading' = FALSE /\ call' = [call EXCEPT ![c] = None]
      /\ UNCHANGED <<W!site, W!forms, owned>>
  BY DEF W!MeAnswered, W!Under
<1>2. call[c] \in W!ApiCall /\ call[c].answer \in {"ok", "no"} /\ call[c].phone \in Person
      /\ call[c].named \in BOOLEAN
  BY <1>1 DEF CallInv, W!ApiCall, Person
<1>3. /\ store' \in StoreState /\ store'.access = store'.user /\ store'.refresh = store.refresh
      /\ store'.user # store.user => crossed'
  <2>1. CASE call[c].answer = "no"
    BY <1>1, <2>1 DEF RouteInv
  <2>2. CASE call[c].answer # "no"
    <3> DEFINE p == call[c].phone
               named == call[c].named
               other == [store EXCEPT !.user = p]
               token == [other EXCEPT !.access = p]
    <3>1. other \in StoreState /\ other.user = p /\ other.refresh = store.refresh
      BY <1>2 DEF RouteInv, StoreState
    <3> HIDE DEF other, p, named
    <3>2. p \in Person /\ named \in BOOLEAN
      BY <1>2 DEF p, named
    <3>3. token \in StoreState /\ token.user = p /\ token.access = p /\ token.refresh = store.refresh
      BY <3>1, <3>2 DEF StoreState
    <3>4. store' = [token EXCEPT !.tenant = named]
      BY <1>1, <2>2 DEF RouteInv, StoreState, other, p, named
    <3> HIDE DEF token
    <3>5. store' \in StoreState /\ store'.user = p /\ store'.access = p /\ store'.refresh = store.refresh
      BY <3>2, <3>3, <3>4 DEF StoreState
    <3> QED BY <1>1, <3>5 DEF RouteInv
  <2> QED BY <2>1, <2>2
<1>4. store' = store \/ (store'.user = call[c].phone /\ store'.tenant = call[c].named /\ call[c].answer = "ok")
  <2>1. store \in StoreState
    BY DEF RouteInv
  <2> QED BY <1>1, <1>2, <2>1 DEF StoreState
<1>5. W!OneIdentity'
  <2>1. CASE store' = store
    BY <1>1, <2>1 DEF W!OneIdentity, RouteInv
  <2>2. CASE store' # store
    BY <1>1, <1>2, <1>3, <1>4, <2>2 DEF W!OneIdentity, RouteInv, CallInv
  <2> QED BY <2>1, <2>2
<1>6. PushIsRight'
  <2>1. CASE loading
    <3>1. seen' # W!Flags'
      <4>1. W!Flags' \in FlagState
        BY <1>3 DEF W!Flags, FlagState, StoreState
      <4> QED BY <1>1, <2>1, <4>1, NoneApart DEF RouteInv, W!site
    <3> QED BY <3>1 DEF PushIsRight
  <2>2. CASE ~loading
    <3>1. seen = W!Flags /\ UNCHANGED <<route, going, seen>> /\ (~crossed' => ~crossed)
      BY <1>1, <2>2 DEF W!Settled, W!site
    <3>2. W!Flags' = W!Flags => PushIsRight'
      BY <3>1 DEF PushIsRight, IsTheirs, RouteInv
    <3>3. W!Flags' # W!Flags => PushIsRight'
      BY <3>1 DEF PushIsRight
    <3> QED BY <3>2, <3>3
  <2> QED BY <2>1, <2>2
<1>7. RouteInv'
  BY <1>1, <1>3, <1>5, <1>6 DEF RouteInv, W!site
<1>8. /\ CallInv' /\ Here("send")' = Here("send") /\ Here("verify")' = Here("verify")
      /\ \A d \in Call : d # c => call'[d] = call[d]
  <2>1. c \notin Here("send") /\ c \notin Here("verify")
    BY <1>1 DEF Here, W!Under
  <2>2. /\ CallInv' /\ Here("send")' = Here("send") \ {c} /\ Here("verify")' = Here("verify") \ {c}
        /\ \A d \in Call : d # c => call'[d] = call[d]
    BY <1>1, Done DEF Ops
  <2> QED BY <2>1, <2>2
<1>9. OtpInv'
  <2>1. \A d \in Here("verify") : call'[d].phone = call[d].phone
    BY <1>1, <1>8 DEF Here, W!Under
  <2>2. crossed' \/ (crossed' = crossed /\ store'.user = store.user)
    BY <1>1, <1>3 DEF RouteInv
  <2> QED BY <1>1, <1>8, <2>1, <2>2, OtpStays DEF W!forms, W!site
<1> QED BY <1>1, <1>7, <1>8, <1>9, WizardStays DEF W!forms
-----------------------------------------------------------------------------
(* The API                                                                  *)

\* An answer to a request that is under way changes nothing in the tab.
LEMMA WayApiAnswers ==
    ASSUME W!SigninAssumption, SigninInv, NEW c \in Call, call[c] # None,
           NEW answer \in {"ok", "no"}, NEW named \in BOOLEAN, W!Answer(c, answer, named),
           owned \subseteq owned', owned' \subseteq Phone,
           answer = "ok" => /\ named => call[c].phone \in owned'
                            /\ call[c].op = "onboard" => call[c].phone \in owned',
           UNCHANGED <<store, loading, check, W!site, W!forms, crossed>>
    PROVE  SigninInv'
<1> USE DEF SigninInv
<1>1. RouteInv'
  BY RoutesStay DEF RouteInv
<1>2. /\ CallInv' /\ \A o \in Ops : Here(o)' = Here(o)
      /\ \A d \in Call : call[d] # None => call'[d].phone = call[d].phone
  BY AnswerComes
<1>3. OtpInv'
  <2>1. \A d \in Here("verify") : call'[d].phone = call[d].phone
    BY <1>2 DEF Here, W!Under
  <2>2. Here("send")' = Here("send") /\ Here("verify")' = Here("verify")
    BY <1>2 DEF Ops
  <2> QED BY <2>1, <2>2, OtpStays DEF W!forms, W!site
<1> QED BY <1>1, <1>2, <1>3, WizardStays DEF W!forms

LEMMA ApiSteps ==
    ASSUME W!SigninAssumption, SigninInv, NEW c \in Call,
           W!Refuse(c) \/ W!Grant(c) \/ \E answer \in {"ok", "no"} : W!Onboarded(c, answer)
    PROVE  SigninInv'
<1>1. owned \subseteq Phone
  BY DEF SigninInv, RouteInv
<1>2. CASE W!Refuse(c)
  BY <1>1, <1>2, WayApiAnswers DEF W!Refuse
<1>3. CASE W!Grant(c)
  <2>1. (call[c].phone \in owned) \in BOOLEAN
    OBVIOUS
  <2> QED BY <1>1, <1>3, <2>1, WayApiAnswers DEF W!Grant
<1>4. ASSUME NEW answer \in {"ok", "no"}, W!Onboarded(c, answer) PROVE SigninInv'
  <2>1. /\ call[c] # None /\ call[c].op = "onboard" /\ call[c].phone # None
        /\ owned' = owned \cup {call[c].phone} /\ W!Answer(c, answer, answer = "ok")
        /\ UNCHANGED <<store, loading, check, W!site, W!forms, crossed>>
    BY <1>4 DEF W!Onboarded, W!Under
  <2>2. call[c].phone \in Phone
    BY <2>1 DEF SigninInv, CallInv, W!ApiCall
  <2>3. (answer = "ok") \in BOOLEAN
    OBVIOUS
  <2> QED BY <1>1, <2>1, <2>2, <2>3, WayApiAnswers
<1> QED BY <1>2, <1>3, <1>4

-----------------------------------------------------------------------------
(* The sign-in form                                                         *)

\* A step of the form that leaves the routes and the wizard alone keeps the
\* invariant when it keeps the form's.
LEMMA FormStep ==
    ASSUME SigninInv, UNCHANGED <<store, loading, check, W!site, wizard, owned, crossed>>,
           CallInv', OtpInv'
    PROVE  SigninInv'
BY RoutesStay, WizardStays DEF SigninInv, RouteInv

LEMMA NumberAsked ==
    ASSUME W!SigninAssumption, SigninInv, NEW c \in Call, NEW p \in Phone, W!SendOtp(c, p)
    PROVE  SigninInv'
<1> USE DEF SigninInv
<1>1. /\ ~otp.success /\ otp.step = 1 /\ otp.latest = None /\ call[c] = None
      /\ W!Ask(c, "send", p) /\ otp' = [otp EXCEPT !.latest = c]
      /\ UNCHANGED <<store, loading, check, W!site, wizard, owned, crossed>>
  BY DEF W!SendOtp, W!AtLogin, W!Sending, W!Start, W!Free
<1>2. /\ otp' \in OtpState /\ otp'.latest = c /\ otp'.step = 1 /\ ~otp'.success
      /\ otp'.error = otp.error /\ otp'.boxes = otp.boxes /\ otp'.moved = otp.moved
      /\ otp'.phone = otp.phone
  BY <1>1 DEF OtpInv, OtpState
<1>3. /\ CallInv' /\ Here("send")' = Here("send") \cup {c} /\ Here("verify")' = Here("verify")
      /\ \A d \in Call : d # c => call'[d] = call[d]
  BY <1>1, WayAsked DEF Ops, Person
<1>4. Here("send") = {}
  BY <1>1, NoneApart DEF OtpInv, Here, W!Under
<1>5. \A d \in Here("verify") : call'[d].phone = call[d].phone
  BY <1>1, <1>3 DEF Here, W!Under
<1>6. W!FullCodeIsVerified' /\ W!ResendWaits'
  <2>1. W!Verifying' <=> W!Verifying
    BY <1>3 DEF W!Verifying, Here
  <2> QED BY <1>1, <1>2, <2>1 DEF OtpInv, W!FullCodeIsVerified, W!ResendWaits
<1>7. OtpInv'
  BY <1>1, <1>2, <1>3, <1>4, <1>5, <1>6 DEF OtpInv, W!site
<1> QED BY <1>1, <1>3, <1>7, FormStep

LEMMA NumberAskedAgain ==
    ASSUME W!SigninAssumption, SigninInv, NEW c \in Call, W!Resend(c)
    PROVE  SigninInv'
<1> USE DEF SigninInv
<1>1. /\ ~otp.success /\ otp.step = 2 /\ call[c] = None
      /\ W!Ask(c, "resend", otp.phone) /\ otp' = [otp EXCEPT !.latest = c]
      /\ UNCHANGED <<store, loading, check, W!site, wizard, owned, crossed>>
  BY DEF W!Resend, W!AtLogin, W!Start, W!Free
<1>2. /\ otp' \in OtpState /\ otp'.step = 2 /\ ~otp'.success /\ otp'.resend = otp.resend
      /\ otp'.error = otp.error /\ otp'.boxes = otp.boxes /\ otp'.moved = otp.moved
      /\ otp'.phone = otp.phone /\ otp'.left = otp.left /\ otp.phone \in Person
  BY <1>1 DEF OtpInv, OtpState
<1>3. /\ CallInv' /\ Here("send")' = Here("send") /\ Here("verify")' = Here("verify")
      /\ \A d \in Call : d # c => call'[d] = call[d]
  BY <1>1, <1>2, WayAsked DEF Ops
<1>4. Here("send") = {}
  BY <1>1 DEF OtpInv
<1>5. \A d \in Here("verify") : call'[d].phone = call[d].phone
  BY <1>1, <1>3 DEF Here, W!Under
<1>6. W!FullCodeIsVerified' /\ W!ResendWaits'
  <2>1. W!Verifying' <=> W!Verifying
    BY <1>3 DEF W!Verifying, Here
  <2> QED BY <1>1, <1>2, <2>1 DEF OtpInv, W!FullCodeIsVerified, W!ResendWaits
<1>7. OtpInv'
  BY <1>1, <1>2, <1>3, <1>4, <1>5, <1>6 DEF OtpInv, W!site
<1> QED BY <1>1, <1>3, <1>7, FormStep

\* What the changes that an answer makes leave of the form.
LEMMA Countdown ==
    ASSUME NEW o \in OtpState, NEW n, n = [o EXCEPT !.left = Seconds, !.resend = FALSE]
    PROVE  n = [step |-> o.step, phone |-> o.phone, error |-> o.error, success |-> o.success,
                left |-> Seconds, resend |-> FALSE, boxes |-> o.boxes, latest |-> o.latest,
                moved |-> o.moved]
BY DEF OtpState

LEMMA WayCleared ==
    ASSUME NEW o \in OtpState, NEW n, n = [o EXCEPT !.error = FALSE]
    PROVE  n = [step |-> o.step, phone |-> o.phone, error |-> FALSE, success |-> o.success,
                left |-> o.left, resend |-> o.resend, boxes |-> o.boxes, latest |-> o.latest,
                moved |-> o.moved]
BY DEF OtpState

LEMMA CodeStep ==
    ASSUME NEW o \in OtpState, NEW p, NEW n,
           n = [o EXCEPT !.step = 2, !.phone = p, !.boxes = 0]
    PROVE  n = [step |-> 2, phone |-> p, error |-> o.error, success |-> o.success,
                left |-> o.left, resend |-> o.resend, boxes |-> 0, latest |-> o.latest,
                moved |-> o.moved]
BY DEF OtpState

\* While the answer to a number is awaited the form is at its first step, where
\* a code under way is one whose number was left.
LEMMA NumberAnswered ==
    ASSUME W!SigninAssumption, SigninInv, NEW c \in Call, W!Sent(c)
    PROVE  SigninInv'
<1> USE DEF SigninInv
<1> DEFINE latest == IF otp.latest = c THEN None ELSE otp.latest
           waiting == [otp EXCEPT !.latest = latest]
           again == [waiting EXCEPT !.left = Seconds, !.resend = FALSE]
<1>1. /\ call[c] # None /\ call[c].op \in {"send", "resend"} /\ call' = [call EXCEPT ![c] = None]
      /\ otp' = IF ~call[c].here THEN otp
                ELSE IF call[c].answer = "no" THEN waiting
                ELSE IF call[c].op = "resend" THEN [again EXCEPT !.error = FALSE]
                ELSE [again EXCEPT !.step = 2, !.phone = call[c].phone, !.boxes = 0]
      /\ UNCHANGED <<store, loading, check, W!site, wizard, owned, crossed>>
  BY DEF W!Sent, W!Under
<1>2. /\ otp \in OtpState /\ latest \in Call \cup {None} /\ call[c].phone \in Person
      /\ Seconds \in 0 .. Seconds /\ 0 \in 0 .. Boxes
  BY <1>1, NoneApart DEF OtpInv, OtpState, CallInv, W!ApiCall, Person
<1>3. waiting = [step |-> otp.step, phone |-> otp.phone, error |-> otp.error, success |-> otp.success,
                 left |-> otp.left, resend |-> otp.resend, boxes |-> otp.boxes, latest |-> latest,
                 moved |-> otp.moved]
  BY <1>2 DEF OtpState
<1>a. waiting \in OtpState
  BY <1>2, <1>3 DEF OtpState
<1> HIDE DEF waiting
<1>b. again = [step |-> waiting.step, phone |-> waiting.phone, error |-> waiting.error,
               success |-> waiting.success, left |-> Seconds, resend |-> FALSE,
               boxes |-> waiting.boxes, latest |-> waiting.latest, moved |-> waiting.moved]
  BY <1>a, Countdown
<1>c. again \in OtpState
  BY <1>a, <1>b, <1>2 DEF OtpState
<1> HIDE DEF again
<1>d. again = [step |-> otp.step, phone |-> otp.phone, error |-> otp.error, success |-> otp.success,
               left |-> Seconds, resend |-> FALSE, boxes |-> otp.boxes, latest |-> latest,
               moved |-> otp.moved]
  BY <1>b, <1>3
<1>4. [again EXCEPT !.error = FALSE]
        = [step |-> otp.step, phone |-> otp.phone, error |-> FALSE, success |-> otp.success,
           left |-> Seconds, resend |-> FALSE, boxes |-> otp.boxes, latest |-> latest,
           moved |-> otp.moved]
  BY <1>c, <1>d, WayCleared
<1>5. [again EXCEPT !.step = 2, !.phone = call[c].phone, !.boxes = 0]
        = [step |-> 2, phone |-> call[c].phone, error |-> otp.error, success |-> otp.success,
           left |-> Seconds, resend |-> FALSE, boxes |-> 0, latest |-> latest,
           moved |-> otp.moved]
  <2>1. [again EXCEPT !.step = 2, !.phone = call[c].phone, !.boxes = 0]
          = [step |-> 2, phone |-> call[c].phone, error |-> again.error,
             success |-> again.success, left |-> again.left, resend |-> again.resend,
             boxes |-> 0, latest |-> again.latest, moved |-> again.moved]
    BY <1>c, CodeStep
  <2> QED BY <2>1, <1>d
<1>6. /\ CallInv' /\ Here("send")' = Here("send") \ {c} /\ Here("verify")' = Here("verify") \ {c}
      /\ \A d \in Call : d # c => call'[d] = call[d]
  BY <1>1, Done DEF Ops
<1>7. c \notin Here("verify") /\ \A d \in Here("verify") : call'[d].phone = call[d].phone
  BY <1>1, <1>6 DEF Here, W!Under
<1>8. W!Verifying' <=> W!Verifying
  BY <1>6, <1>7 DEF W!Verifying, Here
<1>9. OtpInv'
  <2>1. CASE ~call[c].here
    BY <1>1, <1>6, <1>7, <2>1, OtpStays DEF W!site
  <2>2. CASE call[c].here /\ call[c].answer = "no"
    <3>1. /\ otp' \in OtpState /\ otp'.latest = latest /\ otp'.step = otp.step
          /\ otp'.phone = otp.phone /\ otp'.error = otp.error /\ otp'.success = otp.success
          /\ otp'.left = otp.left /\ otp'.resend = otp.resend /\ otp'.boxes = otp.boxes
          /\ otp'.moved = otp.moved
      BY <1>1, <1>2, <1>3, <2>2 DEF OtpState
    <3>2. W!FullCodeIsVerified' /\ W!ResendWaits'
      BY <1>8, <3>1 DEF OtpInv, W!FullCodeIsVerified, W!ResendWaits
    <3> QED BY <1>1, <1>6, <1>7, <3>1, <3>2 DEF OtpInv, W!site
  <2>3. CASE call[c].here /\ call[c].answer # "no" /\ call[c].op = "resend"
    <3>1. /\ otp' \in OtpState /\ otp'.latest = latest /\ otp'.step = otp.step
          /\ otp'.phone = otp.phone /\ otp'.error = FALSE /\ otp'.success = otp.success
          /\ otp'.left = Seconds /\ otp'.resend = FALSE /\ otp'.boxes = otp.boxes
          /\ otp'.moved = otp.moved
      BY <1>1, <1>2, <1>4, <2>3 DEF OtpState
    <3>2. W!FullCodeIsVerified' /\ W!ResendWaits'
      BY <1>8, <3>1, NoneApart DEF OtpInv, W!FullCodeIsVerified, W!ResendWaits
    <3> QED BY <1>1, <1>6, <1>7, <3>1, <3>2 DEF OtpInv, W!site
  <2>4. CASE call[c].here /\ call[c].answer # "no" /\ call[c].op = "send"
    <3>1. /\ otp' \in OtpState /\ otp'.latest = latest /\ otp'.step = 2
          /\ otp'.error = otp.error /\ otp'.success = otp.success
          /\ otp'.left = Seconds /\ otp'.resend = FALSE /\ otp'.boxes = 0
          /\ otp'.moved = otp.moved
      BY <1>1, <1>2, <1>5, <2>4 DEF OtpState
    <3>2. W!FullCodeIsVerified' /\ W!ResendWaits'
      BY <3>1, NoneApart DEF W!FullCodeIsVerified, W!ResendWaits
    <3>3. c \in Here("send")
      BY <1>1, <2>4 DEF Here, W!Under
    <3>4. Here("send")' = {} /\ otp.step = 1
      BY <1>6, <3>3 DEF OtpInv
    <3>5. /\ \A d \in Here("verify") : route = "login" /\ ~otp.error /\ ~otp.success /\ otp.moved
          /\ otp.success => route = "login" /\ otp.moved
      BY <3>4 DEF OtpInv
    <3>6. Here("verify")' = Here("verify") /\ \A d, e \in Here("verify") : d = e
      BY <1>6, <1>7 DEF OtpInv
    <3> QED BY <1>1, <3>1, <3>2, <3>4, <3>5, <3>6 DEF OtpInv, W!site
  <2> QED BY <1>1, <2>1, <2>2, <2>3, <2>4
<1> QED BY <1>1, <1>6, <1>9, FormStep

\* The steps of the form that ask nothing.
LEMMA FormMoves ==
    ASSUME W!SigninAssumption, SigninInv, W!Tick \/ W!ChangeNumber \/ \E n \in 0 .. Boxes : W!Digits(n)
    PROVE  SigninInv'
<1> USE DEF SigninInv
<1>1. /\ UNCHANGED <<store, loading, check, W!site, wizard, call, owned, crossed>>
      /\ route = "login" /\ otp.step = 2 /\ otp \in OtpState
  BY DEF W!Tick, W!ChangeNumber, W!Digits, W!AtLogin, OtpInv
<1>2. CallInv' /\ Here("send")' = Here("send") /\ Here("verify")' = Here("verify")
  BY <1>1, CallsStay DEF Ops
<1>3. (W!Verifying' <=> W!Verifying) /\ Here("send") = {}
  BY <1>1, <1>2 DEF W!Verifying, Here, OtpInv
<1>4. CASE W!Tick
  <2>1. otp' = [otp EXCEPT !.left = @ - 1, !.resend = (otp.left = 1)] /\ otp.left > 0
    BY <1>4 DEF W!Tick
  <2>2. /\ otp' = [step |-> otp.step, phone |-> otp.phone, error |-> otp.error,
                   success |-> otp.success, left |-> otp.left - 1, resend |-> (otp.left = 1),
                   boxes |-> otp.boxes, latest |-> otp.latest, moved |-> otp.moved]
    BY <1>1, <2>1 DEF OtpState
  <2>3. /\ otp.left - 1 \in 0 .. Seconds /\ (otp.left = 1) \in BOOLEAN
        /\ otp.left - 1 = 0 <=> otp.left = 1
    BY <1>1, <2>1, NoneApart DEF OtpState
  <2>4. otp' \in OtpState
    BY <1>1, <2>2, <2>3 DEF OtpState
  <2>5. W!FullCodeIsVerified' /\ W!ResendWaits'
    BY <1>3, <2>2, <2>3 DEF OtpInv, W!FullCodeIsVerified, W!ResendWaits
  <2> QED BY <1>1, <1>2, <1>3, <2>2, <2>4, <2>5, FormStep DEF OtpInv, W!site
<1>5. CASE W!ChangeNumber
  <2>1. otp' = [otp EXCEPT !.step = 1, !.boxes = 0, !.moved = @ \/ W!Verifying] /\ ~otp.success
    BY <1>5 DEF W!ChangeNumber, W!AtLogin
  <2>2. otp' = [step |-> 1, phone |-> otp.phone, error |-> otp.error,
                success |-> otp.success, left |-> otp.left, resend |-> otp.resend,
                boxes |-> 0, latest |-> otp.latest, moved |-> (otp.moved \/ W!Verifying)]
    BY <1>1, <2>1 DEF OtpState
  <2>3. 0 \in 0 .. Boxes /\ (otp.moved \/ W!Verifying) \in BOOLEAN
    BY NoneApart
  <2>4. otp' \in OtpState
    BY <1>1, <2>2, <2>3 DEF OtpState
  <2>5. W!FullCodeIsVerified' /\ W!ResendWaits'
    BY <2>2, NoneApart DEF W!FullCodeIsVerified, W!ResendWaits
  <2>6. \A d \in Here("verify") : otp'.moved
    BY <2>2 DEF Here, W!Verifying
  <2>7. otp'.step = 1 /\ ~otp'.success /\ otp'.error = otp.error
    BY <2>1, <2>2
  <2> QED BY <1>1, <1>2, <1>3, <2>4, <2>5, <2>6, <2>7, FormStep DEF OtpInv, W!site
<1>6. ASSUME NEW n \in 0 .. Boxes, W!Digits(n) PROVE SigninInv'
  <2>1. otp' = [otp EXCEPT !.boxes = n] /\ n < Boxes /\ n \in 0 .. Boxes
    BY <1>6 DEF W!Digits
  <2>2. /\ otp' \in OtpState /\ otp'.boxes = n /\ otp'.step = otp.step /\ otp'.phone = otp.phone
        /\ otp'.error = otp.error /\ otp'.success = otp.success /\ otp'.left = otp.left
        /\ otp'.resend = otp.resend /\ otp'.moved = otp.moved
    BY <1>1, <2>1 DEF OtpState
  <2>3. n # Boxes
    BY <2>1, NoneApart
  <2>4. W!FullCodeIsVerified' /\ W!ResendWaits'
    BY <2>2, <2>3 DEF OtpInv, W!FullCodeIsVerified, W!ResendWaits
  <2> QED BY <1>1, <1>2, <1>3, <2>2, <2>4, FormStep DEF OtpInv, W!site
<1> QED BY <1>4, <1>5, <1>6

LEMMA CodeEntered ==
    ASSUME W!SigninAssumption, SigninInv, NEW c \in Call, W!Complete(c)
    PROVE  SigninInv'
<1> USE DEF SigninInv
<1>1. /\ ~otp.success /\ otp.step = 2 /\ route = "login" /\ ~W!Verifying /\ call[c] = None
      /\ W!Ask(c, "verify", otp.phone)
      /\ otp' = [otp EXCEPT !.boxes = Boxes, !.error = FALSE, !.moved = FALSE]
      /\ UNCHANGED <<store, loading, check, W!site, wizard, owned, crossed>>
  BY DEF W!Complete, W!AtLogin, W!Start, W!Free
<1>2. otp \in OtpState /\ otp.phone \in Person /\ Boxes \in 0 .. Boxes
  BY NoneApart DEF OtpInv, OtpState
<1>3. otp' = [step |-> otp.step, phone |-> otp.phone, error |-> FALSE, success |-> otp.success,
              left |-> otp.left, resend |-> otp.resend, boxes |-> Boxes,
              latest |-> otp.latest, moved |-> FALSE]
  BY <1>1, <1>2 DEF OtpState
<1>4. otp' \in OtpState
  BY <1>2, <1>3 DEF OtpState
<1>5. /\ CallInv' /\ Here("send")' = Here("send") /\ Here("verify")' = Here("verify") \cup {c}
      /\ call'[c].phone = otp.phone
  BY <1>1, <1>2, WayAsked DEF Ops
<1>6. Here("verify") = {} /\ Here("send") = {}
  BY <1>1 DEF Here, W!Verifying, OtpInv
<1>7. W!FullCodeIsVerified' /\ W!ResendWaits'
  <2>1. W!Verifying'
    BY <1>5 DEF W!Verifying, Here
  <2> QED BY <1>3, <2>1 DEF OtpInv, W!FullCodeIsVerified, W!ResendWaits
<1>8. OtpInv'
  BY <1>1, <1>3, <1>4, <1>5, <1>6, <1>7 DEF OtpInv, W!site
<1> QED BY <1>1, <1>5, <1>8, FormStep

\* A sign-in starts a session of its own, whoever was signed in before.
LEMMA SignsIn ==
    ASSUME W!SigninAssumption, SigninInv, NEW c \in Call, W!Verified(c), call[c].answer = "ok"
    PROVE  SigninInv'
<1> USE DEF SigninInv
<1>1. /\ call[c] # None /\ call[c].op = "verify" /\ call' = [call EXCEPT ![c] = None]
      /\ store' = W!SignedIn(call[c].phone, call[c].named)
      /\ check' = (check \/ store'.access # store.access)
      /\ going' = IF call[c].named THEN "dashboard" ELSE "onboarding"
      /\ otp' = IF call[c].here THEN [otp EXCEPT !.success = TRUE]
                ELSE [otp EXCEPT !.moved = @ \/ otp.success]
      /\ crossed' = FALSE /\ UNCHANGED <<loading, route, seen, wizard, owned>>
  BY DEF W!Verified, W!Under
<1>2. call[c].phone \in Person /\ call[c].named \in BOOLEAN
  BY <1>1 DEF CallInv, W!ApiCall, Person
<1>3. /\ store' \in StoreState /\ store'.access = store'.user /\ store'.refresh = store'.user
      /\ store'.user = call[c].phone /\ store'.tenant = call[c].named
  BY <1>1, <1>2 DEF W!SignedIn, StoreState
<1>4. W!OneIdentity'
  BY <1>1, <1>3 DEF W!OneIdentity, CallInv
<1>5. PushIsRight'
  <2>1. call[c].named => call[c].phone # None
    BY <1>1, NoneApart DEF CallInv, RouteInv
  <2>2. W!Flags'.auth = (call[c].phone # None) /\ W!Flags'.onboarded = call[c].named
    BY <1>3 DEF W!Flags
  <2>3. going' # None
    BY <1>1, NoneApart DEF W!Page
  <2> QED BY <1>1, <1>2, <2>1, <2>2, <2>3 DEF PushIsRight, IsTheirs
<1>6. RouteInv'
  BY <1>1, <1>3, <1>4, <1>5 DEF RouteInv, W!Page
<1>7. /\ CallInv' /\ Here("send")' = Here("send") \ {c} /\ Here("verify")' = Here("verify") \ {c}
      /\ \A d \in Call : d # c => call'[d] = call[d]
  BY <1>1, Done DEF Ops
<1>8. otp \in OtpState /\ \A d \in Here("verify") : d # c => call'[d].phone = call[d].phone
  BY <1>7 DEF OtpInv, Here, W!Under
<1>9. OtpInv'
  <2>1. CASE call[c].here
    <3>1. c \in Here("verify")
      BY <1>1, <2>1 DEF Here, W!Under
    <3>2. Here("verify")' = {}
      BY <1>7, <3>1 DEF OtpInv
    <3>3. /\ otp' \in OtpState /\ otp'.success /\ otp'.step = otp.step /\ otp'.phone = otp.phone
          /\ otp'.left = otp.left /\ otp'.resend = otp.resend /\ otp'.moved = otp.moved
          /\ otp'.latest = otp.latest
      BY <1>1, <1>8, <2>1 DEF OtpState
    <3>4. W!FullCodeIsVerified' /\ W!ResendWaits'
      BY <3>3 DEF OtpInv, W!FullCodeIsVerified, W!ResendWaits
    <3> QED BY <1>1, <1>3, <1>7, <3>1, <3>2, <3>3, <3>4 DEF OtpInv
  <2>2. CASE ~call[c].here
    <3>1. otp' = [otp EXCEPT !.moved = (otp.moved \/ otp.success)]
          /\ (otp.moved \/ otp.success) \in BOOLEAN
      BY <1>1, <1>8, <2>2 DEF OtpState
    <3>2. /\ otp' \in OtpState /\ otp'.success = otp.success /\ otp'.step = otp.step
          /\ otp'.phone = otp.phone /\ otp'.left = otp.left /\ otp'.resend = otp.resend
          /\ otp'.latest = otp.latest /\ otp'.boxes = otp.boxes /\ otp'.error = otp.error
          /\ otp'.moved = (otp.moved \/ otp.success)
      BY <1>8, <3>1 DEF OtpState
    <3>3. Here("verify")' = Here("verify") /\ c \notin Here("verify")
      BY <1>7, <2>2 DEF Here
    <3>4. W!FullCodeIsVerified' /\ W!ResendWaits'
      <4>1. W!Verifying' <=> W!Verifying
        BY <3>3 DEF W!Verifying, Here
      <4> QED BY <3>2, <4>1 DEF OtpInv, W!FullCodeIsVerified, W!ResendWaits
    <3> QED BY <1>1, <1>7, <1>8, <3>2, <3>3, <3>4 DEF OtpInv
  <2> QED BY <2>1, <2>2
<1> QED BY <1>1, <1>6, <1>7, <1>9, WizardStays

LEMMA CodeRefused ==
    ASSUME W!SigninAssumption, SigninInv, NEW c \in Call, W!Verified(c), call[c].answer # "ok"
    PROVE  SigninInv'
<1> USE DEF SigninInv
<1>1. /\ call[c] # None /\ call[c].op = "verify" /\ call' = [call EXCEPT ![c] = None]
      /\ otp' = IF call[c].here THEN [otp EXCEPT !.error = TRUE, !.boxes = IF otp.error THEN @ ELSE 0]
                ELSE otp
      /\ UNCHANGED <<store, loading, check, W!site, wizard, owned, crossed>>
  BY DEF W!Verified, W!Under, W!site
<1>2. /\ CallInv' /\ Here("send")' = Here("send") \ {c} /\ Here("verify")' = Here("verify") \ {c}
      /\ \A d \in Call : d # c => call'[d] = call[d]
  BY <1>1, Done DEF Ops
<1>3. otp \in OtpState /\ 0 \in 0 .. Boxes
  BY NoneApart DEF OtpInv
<1>4. CASE call[c].here
  <2>1. c \in Here("verify") /\ ~otp.error /\ ~otp.success
    BY <1>1, <1>4 DEF Here, W!Under, OtpInv
  <2>2. Here("verify")' = {}
    BY <1>2, <2>1 DEF OtpInv
  <2>3. otp' = [step |-> otp.step, phone |-> otp.phone, error |-> TRUE, success |-> otp.success,
                left |-> otp.left, resend |-> otp.resend, boxes |-> 0,
                latest |-> otp.latest, moved |-> otp.moved]
    BY <1>1, <1>3, <1>4, <2>1 DEF OtpState
  <2>4. otp' \in OtpState
    BY <1>3, <2>3 DEF OtpState
  <2>5. W!FullCodeIsVerified' /\ W!ResendWaits'
    BY <2>3, NoneApart DEF OtpInv, W!FullCodeIsVerified, W!ResendWaits
  <2>6. OtpInv'
    BY <1>1, <1>2, <2>1, <2>2, <2>3, <2>4, <2>5 DEF OtpInv, W!site
  <2> QED BY <1>1, <1>2, <2>6, FormStep
<1>5. CASE ~call[c].here
  <2>1. Here("verify")' = Here("verify") /\ Here("send")' \subseteq Here("send")
    BY <1>2, <1>5 DEF Here
  <2>2. \A d \in Here("verify") : call'[d].phone = call[d].phone
    BY <1>2, <1>5 DEF Here, W!Under
  <2>3. OtpInv'
    BY <1>1, <1>5, <2>1, <2>2, OtpStays DEF W!site
  <2> QED BY <1>1, <1>2, <2>3, FormStep
<1> QED BY <1>4, <1>5

-----------------------------------------------------------------------------
(* The wizard                                                               *)

LEMMA WizardMoves ==
    ASSUME W!SigninAssumption, SigninInv,
           \/ W!NextStep \/ W!PrevStep \/ W!ExitComplete
           \/ \E filled \in BOOLEAN, gst \in {"none", "bad", "good"} : W!Edit(filled, gst)
    PROVE  SigninInv'
<1> USE DEF SigninInv
<1>1. UNCHANGED <<store, loading, check, W!site, otp, call, owned, crossed>>
  BY DEF W!NextStep, W!PrevStep, W!ExitComplete, W!Edit
<1>2. RouteInv'
  BY <1>1, RoutesStay DEF RouteInv
<1>3. CallInv' /\ \A o \in Ops : Here(o)' = Here(o)
  BY <1>1, CallsStay
<1>4. OtpInv'
  BY <1>1, <1>3, OtpStays DEF W!site, Ops
<1>5. WizardInv'
  <2> USE DEF WizardInv
  <2>1. ASSUME NEW step \in 0 .. 4, W!MoveTo(step), W!Shown \in {1, 2, 3},
               wizard.leaving = None => step \in 1 .. 3
        PROVE  WizardInv'
    <3> DEFINE leaving == IF W!Shown = step THEN None ELSE W!Shown
               slipped == wizard.slipped \/ wizard.leaving # None
    <3>1. wizard' = [step |-> step, leaving |-> leaving, filled |-> wizard.filled,
                     gst |-> wizard.gst, slipped |-> slipped]
      BY <2>1 DEF W!MoveTo, WizardState
    <3>2. leaving \in {None, 1, 2, 3} /\ slipped \in BOOLEAN
      BY <2>1 DEF WizardState
    <3>3. wizard' \in WizardState
      BY <3>1, <3>2 DEF WizardState
    <3> QED BY <2>1, <3>1, <3>3 DEF W!WizardShowsStep
  <2>2. CASE W!NextStep
    <3>1. /\ wizard.step \in 0 .. 3 /\ W!Shown \in {1, 2} /\ W!MoveTo(wizard.step + 1)
      BY <2>2 DEF W!NextStep
    <3> QED BY <2>1, <3>1 DEF W!Shown
  <2>3. CASE W!PrevStep
    <3>1. /\ wizard.step \in 1 .. 4 /\ W!Shown \in {2, 3} /\ W!MoveTo(wizard.step - 1)
      BY <2>3 DEF W!PrevStep
    <3> QED BY <2>1, <3>1 DEF W!Shown
  <2>4. CASE W!ExitComplete
    BY <2>4 DEF W!ExitComplete, WizardState, W!WizardShowsStep
  <2>5. ASSUME NEW filled \in BOOLEAN, NEW gst \in {"none", "bad", "good"}, W!Edit(filled, gst)
        PROVE  WizardInv'
    <3>1. wizard' = [wizard EXCEPT !.filled = filled, !.gst = gst]
      BY <2>5 DEF W!Edit
    <3>2. wizard' = [step |-> wizard.step, leaving |-> wizard.leaving, filled |-> filled,
                     gst |-> gst, slipped |-> wizard.slipped]
      BY <3>1 DEF WizardState
    <3> QED BY <3>2 DEF WizardState, W!WizardShowsStep
  <2> QED BY <2>2, <2>3, <2>4, <2>5
<1> QED BY <1>2, <1>3, <1>4, <1>5

LEMMA WizardSubmits ==
    ASSUME W!SigninAssumption, SigninInv, NEW c \in Call, W!Submit(c)
    PROVE  SigninInv'
<1> USE DEF SigninInv
<1>1. /\ call[c] = None /\ W!Ask(c, "onboard", store.access)
      /\ UNCHANGED <<store, loading, check, W!site, W!forms, owned, crossed>>
  BY DEF W!Submit, W!Start, W!Free
<1>2. RouteInv'
  BY <1>1, RoutesStay DEF RouteInv
<1>3. store.access \in Person /\ "onboard" \in Ops
  BY DEF RouteInv, StoreState, Ops
<1>4. /\ CallInv' /\ Here("send")' = Here("send") /\ Here("verify")' = Here("verify")
      /\ \A d \in Call : d # c => call'[d] = call[d]
  BY <1>1, <1>3, WayAsked DEF Ops
<1>5. \A d \in Here("verify") : d # c
  BY <1>1 DEF Here, W!Under
<1>6. OtpInv'
  BY <1>1, <1>4, <1>5, OtpStays DEF W!forms, W!site, Here, W!Under
<1> QED BY <1>1, <1>2, <1>4, <1>6, WizardStays DEF W!forms

LEMMA WizardAnswered ==
    ASSUME W!SigninAssumption, SigninInv, NEW c \in Call, W!Saved(c)
    PROVE  SigninInv'
<1> USE DEF SigninInv
<1>1. /\ call[c] # None /\ call[c].op = "onboard" /\ call[c].answer # None /\ owned' = owned
      /\ call[c] \in W!ApiCall
  BY DEF W!Saved, W!Under, CallInv
<1>2. ASSUME call' = [call EXCEPT ![c] = None], UNCHANGED <<route, otp>>,
             crossed' \/ (crossed' = crossed /\ store'.user = store.user)
      PROVE  CallInv' /\ OtpInv'
  <2>1. /\ CallInv' /\ Here("send")' = Here("send") \ {c} /\ Here("verify")' = Here("verify") \ {c}
        /\ \A d \in Call : d # c => call'[d] = call[d]
    BY <1>1, <1>2, Done DEF Ops
  <2>2. c \notin Here("send") /\ c \notin Here("verify")
    BY <1>1 DEF Here, W!Under
  <2>3. \A d \in Here("verify") : call'[d].phone = call[d].phone
    BY <2>1, <2>2 DEF Here, W!Under
  <2>4. OtpInv'
    BY <1>2, <2>1, <2>2, <2>3, OtpStays
  <2> QED BY <2>1, <2>4
<1>3. CASE call[c].answer = "ok"
  <2>1. /\ store' = [store EXCEPT !.tenant = TRUE] /\ going' = "dashboard"
        /\ crossed' = (crossed \/ store.user # call[c].phone) /\ call' = [call EXCEPT ![c] = None]
        /\ UNCHANGED <<loading, check, route, seen, W!forms>>
    BY <1>3 DEF W!Saved
  <2>2. /\ store' \in StoreState /\ store'.user = store.user /\ store'.access = store.access
        /\ store'.refresh = store.refresh /\ store'.tenant
    BY <2>1 DEF RouteInv, StoreState
  <2>3. call[c].phone \in owned /\ call[c].phone # None
    BY <1>1, <1>3, NoneApart DEF CallInv, RouteInv
  <2>4. W!OneIdentity'
    <3>1. ~crossed' => ~crossed /\ store.user = call[c].phone
      BY <2>1 DEF RouteInv
    <3> QED BY <1>1, <2>2, <2>3, <3>1 DEF W!OneIdentity, RouteInv
  <2>5. PushIsRight'
    <3>1. ~crossed' => W!Flags'.auth /\ W!Flags'.onboarded
      BY <2>1, <2>2, <2>3 DEF W!Flags, RouteInv
    <3>2. going' # None
      BY <2>1, NoneApart DEF W!Page
    <3> QED BY <2>1, <3>1, <3>2 DEF PushIsRight, IsTheirs
  <2>6. RouteInv'
    BY <1>1, <2>1, <2>2, <2>4, <2>5 DEF RouteInv, W!Page
  <2>7. CallInv' /\ OtpInv'
    BY <1>2, <2>1, <2>2 DEF W!forms, RouteInv
  <2> QED BY <2>1, <2>6, <2>7, WizardStays DEF W!forms
<1>4. CASE call[c].answer # "ok"
  <2>1. call' = [call EXCEPT ![c] = None] /\ UNCHANGED <<store, loading, check, W!site, W!forms, crossed>>
    BY <1>4 DEF W!Saved, W!site
  <2>2. RouteInv'
    BY <1>1, <2>1, RoutesStay DEF RouteInv
  <2>3. CallInv' /\ OtpInv'
    BY <1>2, <2>1 DEF W!forms, W!site, RouteInv
  <2> QED BY <2>1, <2>2, <2>3, WizardStays DEF W!forms
<1> QED BY <1>3, <1>4

\* Forced out, the tab is as new, signed out and at /login.
LEMMA IsForcedOut ==
    ASSUME W!SigninAssumption, SigninInv, NEW c \in Call, W!ForcedOut(c)
    PROVE  SigninInv'
<1>1. store' = W!SignedOut /\ W!Opened("login") /\ crossed' = FALSE /\ owned' = owned
  BY DEF W!ForcedOut
<1>2. /\ store' \in StoreState /\ store'.access = store'.user /\ W!OneIdentity' /\ "login" \in W!Page
  BY <1>1 DEF W!SignedOut, StoreState, Person, W!OneIdentity, W!Page
<1> QED BY <1>1, <1>2, OpensNew DEF SigninInv

-----------------------------------------------------------------------------
LEMMA SigninKept == W!SigninAssumption /\ SigninInv /\ [W!Next]_(W!vars) => SigninInv'
<1> SUFFICES ASSUME W!SigninAssumption, SigninInv, [W!Next]_(W!vars) PROVE SigninInv'
  OBVIOUS
<1>1. CASE UNCHANGED W!vars
  BY <1>1, AllStay DEF W!vars, W!site, W!forms
<1>2. ASSUME NEW c \in Call,
             W!Refuse(c) \/ W!Grant(c) \/ \E answer \in {"ok", "no"} : W!Onboarded(c, answer)
      PROVE  SigninInv'
  BY <1>2, ApiSteps
<1>3. ASSUME NEW c \in Call, W!Settled, W!AskMe(c) \/ W!Clicked(c) \/ W!Answered(c) PROVE SigninInv'
  <2>1. CASE W!Clicked(c)
    BY <2>1, NumberAsked, NumberAskedAgain, CodeEntered, WizardSubmits DEF W!Clicked
  <2>2. CASE W!Verified(c)
    BY <2>2, SignsIn, CodeRefused
  <2> QED BY <1>3, <2>1, <2>2, AsksMe, MeComes, NumberAnswered, WizardAnswered, IsForcedOut DEF W!Answered
<1> QED BY <1>1, <1>2, <1>3, LayoutLooks, Arrives, LogsOut, Reloads, GetsReady, FormMoves, WizardMoves
        DEF W!Next

\* The way in, for any numbers, requests, clicks, digits and countdowns: whoever
\* has come to rest is on the page that is theirs, as one user, the number they
\* entered; a full code is on its way, a resend waits, and the wizard shows a
\* step, but for the exceptions the histories name.
THEOREM WayInIsSafe ==
    W!SigninAssumption /\ W!Spec =>
        /\ []W!TypeOK /\ []W!RestsWhereItShould /\ []W!OneIdentity /\ []W!SignsInShownNumber
        /\ []W!FullCodeIsVerified /\ []W!ResendWaits /\ []W!WizardShowsStep
<1> SUFFICES ASSUME W!SigninAssumption
             PROVE  W!Spec =>
                      /\ []W!TypeOK /\ []W!RestsWhereItShould /\ []W!OneIdentity /\ []W!SignsInShownNumber
                      /\ []W!FullCodeIsVerified /\ []W!ResendWaits /\ []W!WizardShowsStep
  OBVIOUS
<1>1. SigninInv => W!TypeOK
  <2> SUFFICES ASSUME SigninInv PROVE W!TypeOK
    OBVIOUS
  <2>1. /\ store.user \in Person /\ store.access = store.user /\ store.refresh \in Person
        /\ store.tenant \in BOOLEAN
    BY DEF SigninInv, RouteInv, StoreState
  <2>2. otp.step \in {1, 2} /\ otp.left \in 0 .. Seconds /\ otp.boxes \in 0 .. Boxes
    BY DEF SigninInv, OtpInv, OtpState
  <2>3. wizard.step \in 0 .. 4 /\ wizard.leaving \in {None, 1, 2, 3}
    BY DEF SigninInv, WizardInv, WizardState
  <2> QED BY <2>1, <2>2, <2>3 DEF W!TypeOK, SigninInv, RouteInv, CallInv, Person
<1>2. SigninInv => W!RestsWhereItShould /\ W!OneIdentity
  BY DEF SigninInv, RouteInv, PushIsRight, IsTheirs, W!RestsWhereItShould
<1>3. SigninInv => W!SignsInShownNumber /\ W!FullCodeIsVerified /\ W!ResendWaits /\ W!WizardShowsStep
  BY DEF SigninInv, OtpInv, WizardInv, W!SignsInShownNumber
<1>4. QED
  BY <1>1, <1>2, <1>3, SigninStarts, SigninKept, PTL DEF W!Spec

(***************************************************************************)
(* The whole platform                                                      *)
(***************************************************************************)

\* A step is a step of a part, or leaves the part alone.
LEMMA Parts == PlatformSpec => Spec /\ J!Spec /\ P!Spec /\ W!Spec
<1>1. PlatformInit => Init /\ J!Init /\ P!Init /\ W!Init
  BY DEF PlatformInit
<1>2. [PlatformNext]_platformVars =>
        [Next]_vars /\ [J!Next]_jobVars /\ [P!Next]_pageVars /\ [W!Next]_signinVars
  BY DEF PlatformNext, RegisterStep, JobStep, PageStep, SigninStep, platformVars
<1>3. /\ UNCHANGED jobVars => UNCHANGED J!vars
      /\ UNCHANGED pageVars => UNCHANGED P!vars
      /\ UNCHANGED signinVars => UNCHANGED W!vars
  BY DEF jobVars, pageVars, signinVars, J!vars, J!queueVars, J!cronVars, P!vars, W!vars
<1>4. [PlatformNext]_platformVars =>
        [Next]_vars /\ [J!Next]_(J!vars) /\ [P!Next]_(P!vars) /\ [W!Next]_(W!vars)
  BY <1>2, <1>3
<1>5. QED
  BY <1>1, <1>4, PTL DEF PlatformSpec, Spec, J!Spec, P!Spec, W!Spec

\* The registers keep their promises beside the other parts.
THEOREM RegistersStaySound ==
    PlatformSpec => []RegistersAgree /\ ReportsFallOnlyByOverdue
<1>1. RegisterAssumption
  BY PlatformAssumption
<1>2. Spec => []RegistersAgree /\ ReportsFallOnlyByOverdue
  BY <1>1, RegistersAreSound, ReportsOnlyLoseOverdue
<1>3. QED
  BY <1>2, Parts, PTL

\* The queue and the schedules together: mails and runs stay within their limits,
\* and every cron job is scheduled, but for the failures their histories name.
THEOREM JobsStayPlanned == PlatformSpec => []JobsRunAsPlanned
<1>1. J!JobsAssumption
  BY PlatformAssumption
<1>2. J!Spec => []J!TypeOK /\ []J!MailsAreLimited /\ []J!CronsAreScheduled
  BY <1>1, MailsStayLimited, CronsStayScheduled
<1>3. J!TypeOK /\ J!MailsAreLimited /\ J!CronsAreScheduled => JobsRunAsPlanned
  BY DEF JobsRunAsPlanned
<1>4. QED
  BY <1>2, <1>3, Parts, PTL

\* The pages and the way in together: a confirmed write shows, what the newest
\* data offers is granted, and whoever has come to rest is where and who they
\* should be, but for the races their histories name.
THEOREM PagesStayTrue == PlatformSpec => []PagesTellTruth
<1>1. P!PagesAssumption /\ W!SigninAssumption
  BY PlatformAssumption
<1>2. P!Spec => []P!TypeOK /\ []P!OwnWriteShows /\ []P!RefusedOnlyWhenStale
  BY <1>1, PagesShowAndOffer
<1>3. W!Spec => /\ []W!TypeOK /\ []W!RestsWhereItShould /\ []W!OneIdentity
                /\ []W!SignsInShownNumber /\ []W!FullCodeIsVerified /\ []W!ResendWaits
                /\ []W!WizardShowsStep
  BY <1>1, WayInIsSafe
<1>4. /\ P!TypeOK /\ P!OwnWriteShows /\ P!RefusedOnlyWhenStale
      /\ W!TypeOK /\ W!RestsWhereItShould /\ W!OneIdentity /\ W!SignsInShownNumber
      /\ W!FullCodeIsVerified /\ W!ResendWaits /\ W!WizardShowsStep
      => PagesTellTruth
  BY DEF PagesTellTruth
<1>5. QED
  BY <1>2, <1>3, <1>4, Parts, PTL
=============================================================================
