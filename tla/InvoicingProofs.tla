-------------------------- MODULE InvoicingProofs --------------------------
(***************************************************************************)
(* Type correctness, the safety invariants and the action properties of    *)
(* Invoicing for any number of invoices, requests and sweeps.              *)
(***************************************************************************)
EXTENDS Invoicing, TLAPS

\* What a request in flight holds: an invoice, and an argument fit for its step.
WellFormed ==
    \A r \in Request :
        /\ request[r].step # "idle" => request[r].inv \in Invoice
        /\ request[r].step = "update" => request[r].arg \in Total \cup {None}
        /\ request[r].step = "rewrite" => request[r].arg \in Total
        /\ request[r].step = "pay" => request[r].arg \in Amount

TypeInv == TypeOK /\ WellFormed

\* A payment in flight remembers a paid amount the Payment rows already covered.
SnapshotCovered ==
    \A r \in Request :
        request[r].step = "pay" => request[r].paid <= payments[request[r].inv]

CoveredInv == TypeInv /\ PaidIsCovered /\ SnapshotCovered

\* Nobody holds an invoice twice over unless it is contended.
SoleHolder(i) ==
    /\ \A r1, r2 \in Request : RequestHolds(r1, i) /\ RequestHolds(r2, i) => r1 = r2
    /\ \A w1, w2 \in Sweeper : SweepHolds(w1, i) /\ SweepHolds(w2, i) => w1 = w2
    /\ \A r \in Request, w \in Sweeper : ~(RequestHolds(r, i) /\ SweepHolds(w, i))

\* What the holder of an uncontended invoice has read is still so.
SnapshotFresh(i) ==
    /\ \A r \in Request : RequestHolds(r, i) =>
        /\ request[r].status = status[i]
        /\ request[r].total = totalAmount[i]
        /\ request[r].paid = paidAmount[i]
        /\ request[r].step # "pay" => status[i] = "DRAFT"
        /\ request[r].step = "pay" =>
              status[i] # "PAID" /\ paidAmount[i] + request[r].arg <= totalAmount[i]
    /\ \A w \in Sweeper : SweepHolds(w, i) => status[i] \in {"SENT", "PARTIAL"}

Sound(i) == MoneyAgrees(i) /\ SoleHolder(i) /\ SnapshotFresh(i)

UncontendedInv == TypeInv /\ \A i \in Invoice \ contended : Sound(i)

\* The step leaves the money of invoice i alone and gives it no new holder.
Kept(i) ==
    /\ status'[i] = status[i] /\ totalAmount'[i] = totalAmount[i]
    /\ paidAmount'[i] = paidAmount[i] /\ payments'[i] = payments[i]
    /\ \A r \in Request : RequestHolds(r, i)' =>
         /\ RequestHolds(r, i)
         /\ request'[r].step = "pay" <=> request[r].step = "pay"
         /\ request'[r].status = request[r].status
         /\ request'[r].total = request[r].total
         /\ request'[r].paid = request[r].paid
         /\ request'[r].arg = request[r].arg
    /\ \A w \in Sweeper : SweepHolds(w, i)' => SweepHolds(w, i)

-----------------------------------------------------------------------------
(* The step lemmas name each action with the request or sweep that takes it. *)

\* Next, one disjunct per action.
LEMMA NextCases ==
    ASSUME Next
    PROVE  \/ \E i \in Invoice : DueDatePasses(i) \/ \E t \in Total : Create(i, t)
           \/ \E r \in Request, i \in Invoice :
                 \/ \E t \in Total \cup {None} : UpdateRead(r, i, t)
                 \/ \E a \in Amount : PayRead(r, i, a)
                 \/ SendRead(r, i)
                 \/ RemoveRead(r, i)
           \/ \E r \in Request :
                 \/ UpdateDeleteItems(r) \/ UpdateWrite(r) \/ SendWrite(r) \/ SendNotify(r)
                 \/ PayWrite(r) \/ PayNotify(r) \/ RemoveWrite(r) \/ RequestFail(r)
           \/ \E w \in Sweeper :
                 \/ SweepSelect(w) \/ SweepRemind(w) \/ SweepFail(w)
                 \/ \E i \in Invoice : SweepMark(w, i)
BY DEF Next, RequestStart, RequestStep, SweepStep

LEMMA InitTypeInv == Init => TypeInv
BY ConstantsAssumption
   DEF Init, TypeInv, TypeOK, WellFormed, Idle, Asleep, RequestState, SweepState,
       Status, Absent, Holding, Notifying

\* A read leaves a well-formed request behind.
LEMMA ReadTypeInv ==
    ASSUME TypeInv, NEW r \in Request, NEW i \in Invoice,
           NEW step \in Holding \ {"rewrite"}, NEW a \in Int \cup {None},
           step = "update" => a \in Total \cup {None},
           step = "pay" => a \in Amount,
           Read(r, i, step, a)
    PROVE  TypeInv'
<1>1. status[i] \in Status
  BY DEF TypeInv, TypeOK, Read
<1>2. request' \in [Request -> RequestState]
  BY <1>1 DEF TypeInv, TypeOK, Read, RequestState
<1>3. contended' \in SUBSET Invoice
  BY DEF TypeInv, TypeOK, Read, ReadRows
<1>4. TypeOK'
  BY <1>2, <1>3 DEF TypeInv, TypeOK, Read, row, jobs
<1>5. WellFormed'
  BY DEF TypeInv, TypeOK, WellFormed, Read, Holding
<1>6. QED
  BY <1>4, <1>5 DEF TypeInv

\* A request that goes on to another step keeps what it holds.
LEMMA GotoTypeInv ==
    ASSUME TypeInv, NEW r \in Request, request[r].inv \in Invoice,
           NEW step \in {"rewrite"} \cup Notifying,
           step = "rewrite" => request[r].arg \in Total,
           request' = [request EXCEPT ![r] = [request[r] EXCEPT !.step = step]]
    PROVE  request' \in [Request -> RequestState] /\ WellFormed'
<1>1. [request[r] EXCEPT !.step = step] \in RequestState
  BY DEF TypeInv, TypeOK, RequestState, Holding, Notifying
<1>2. request' \in [Request -> RequestState]
  BY <1>1 DEF TypeInv, TypeOK
<1>3. request[r] \in RequestState
  BY DEF TypeInv, TypeOK
<1>4. request'[r].step = step /\ request'[r].inv = request[r].inv
         /\ request'[r].arg = request[r].arg
  BY <1>3 DEF TypeInv, TypeOK, RequestState
<1>5. WellFormed'
  BY <1>4 DEF TypeInv, TypeOK, WellFormed, Notifying
<1>6. QED
  BY <1>2, <1>5

\* A request that ends holds nothing.
LEMMA FinishTypeInv ==
    ASSUME TypeInv, NEW r \in Request, Finish(r)
    PROVE  request' \in [Request -> RequestState] /\ WellFormed'
<1>1. Idle \in RequestState
  BY DEF Idle, RequestState, Status
<1>2. QED
  BY <1>1 DEF TypeInv, TypeOK, WellFormed, Finish, Idle

LEMMA NextTypeInv == TypeInv /\ [Next]_vars => TypeInv'
<1> SUFFICES ASSUME TypeInv, [Next]_vars PROVE TypeInv'
  OBVIOUS
<1> USE ConstantsAssumption DEF TypeInv
<1>1. ASSUME NEW i \in Invoice, DueDatePasses(i) PROVE TypeInv'
  BY <1>1 DEF TypeOK, WellFormed, DueDatePasses, jobs
<1>2. ASSUME NEW i \in Invoice, NEW t \in Total, Create(i, t) PROVE TypeInv'
  BY <1>2 DEF TypeOK, WellFormed, Create, jobs, Status, Absent
<1>3. ASSUME NEW r \in Request, NEW i \in Invoice, NEW t \in Total \cup {None},
             UpdateRead(r, i, t)
      PROVE  TypeInv'
  BY <1>3, ReadTypeInv DEF UpdateRead, Holding
<1>4. ASSUME NEW r \in Request, NEW i \in Invoice, NEW a \in Amount, PayRead(r, i, a)
      PROVE  TypeInv'
  BY <1>4, ReadTypeInv DEF PayRead, Holding
<1>5. ASSUME NEW r \in Request, NEW i \in Invoice, SendRead(r, i) PROVE TypeInv'
  BY <1>5, ReadTypeInv DEF SendRead, Holding
<1>6. ASSUME NEW r \in Request, NEW i \in Invoice, RemoveRead(r, i) PROVE TypeInv'
  BY <1>6, ReadTypeInv DEF RemoveRead, Holding
<1>7. ASSUME NEW r \in Request, UpdateDeleteItems(r) PROVE TypeInv'
  <2>1. request[r] \in RequestState /\ request[r].inv \in Invoice /\ request[r].arg \in Total
    BY <1>7 DEF TypeOK, WellFormed, UpdateDeleteItems
  <2>2. request' = [request EXCEPT ![r] = [request[r] EXCEPT !.step = "rewrite"]]
    BY <1>7 DEF UpdateDeleteItems, Goto
  <2>3. request' \in [Request -> RequestState] /\ WellFormed'
    BY <2>1, <2>2, GotoTypeInv DEF Holding
  <2>4. itemRows' \in [Invoice -> Seq(Int)]
    <3>1. << >> \in Seq(Int)
      OBVIOUS
    <3>2. \A j \in Invoice : itemRows'[j] = << >> \/ itemRows'[j] = itemRows[j]
      BY <1>7 DEF UpdateDeleteItems, TypeOK
    <3>3. \A j \in Invoice : itemRows'[j] \in Seq(Int)
      BY <3>1, <3>2, Zenon DEF TypeOK
    <3>4. itemRows' = [j \in Invoice |-> itemRows'[j]]
      BY <1>7 DEF UpdateDeleteItems, TypeOK
    <3>5. QED
      BY <3>3, <3>4, Zenon
  <2>5. QED
    BY <1>7, <2>3, <2>4 DEF UpdateDeleteItems, TypeOK, jobs
<1>8. ASSUME NEW r \in Request, UpdateWrite(r) PROVE TypeInv'
  <2>1. request[r].inv \in Invoice
    BY <1>8 DEF UpdateWrite, WellFormed
  <2>2. totalAmount' \in [Invoice -> Int]
    BY <1>8, <2>1 DEF UpdateWrite, TypeOK, WellFormed
  <2>3. ASSUME request[r].step = "rewrite",
               itemRows' = [itemRows EXCEPT ![request[r].inv] = Append(@, request[r].arg)]
        PROVE  itemRows' \in [Invoice -> Seq(Int)]
    <3>1. request[r].arg \in Int /\ itemRows[request[r].inv] \in Seq(Int)
      BY <2>1, <2>3 DEF TypeOK, WellFormed
    <3>2. Append(itemRows[request[r].inv], request[r].arg) \in Seq(Int)
      BY <3>1
    <3>3. QED
      BY <2>3, <3>2 DEF TypeOK
  <2>4. itemRows' \in [Invoice -> Seq(Int)]
    BY <1>8, <2>3 DEF UpdateWrite, TypeOK
  <2>5. pastDue' \in [Invoice -> BOOLEAN]
    BY <1>8 DEF UpdateWrite, TypeOK
  <2>6. request' \in [Request -> RequestState] /\ WellFormed'
    BY <1>8, FinishTypeInv DEF UpdateWrite
  <2>7. QED
    BY <1>8, <2>2, <2>4, <2>5, <2>6 DEF TypeOK, UpdateWrite, jobs
<1>9. ASSUME NEW r \in Request, SendWrite(r) PROVE TypeInv'
  <2>1. request[r] \in RequestState /\ request[r].inv \in Invoice
    BY <1>9 DEF TypeOK, WellFormed, SendWrite
  <2>2. request' = [request EXCEPT ![r] = [request[r] EXCEPT !.step = "notifySent"]]
    BY <1>9 DEF SendWrite, Goto
  <2>3. request' \in [Request -> RequestState] /\ WellFormed'
    BY <2>1, <2>2, GotoTypeInv DEF Notifying
  <2>4. status' \in [Invoice -> Status \cup {Absent}]
    BY <1>9 DEF SendWrite, TypeOK, Status
  <2>5. QED
    BY <1>9, <2>3, <2>4 DEF SendWrite, TypeOK, jobs
<1>10. ASSUME NEW r \in Request, SendNotify(r) PROVE TypeInv'
  <2>1. request' \in [Request -> RequestState] /\ WellFormed'
    BY <1>10, FinishTypeInv DEF SendNotify
  <2>2. sentJobs' \in [Invoice -> Nat]
    <3>1. sentJobs \in [Invoice -> Nat]
      BY DEF TypeOK
    <3>2. sentJobs' = [sentJobs EXCEPT ![request[r].inv] = @ + 1]
      BY <1>10 DEF SendNotify
    <3>3. request[r].inv \in Invoice
      BY <1>10 DEF SendNotify, WellFormed
    <3>4. QED
      BY <3>1, <3>2, <3>3
  <2>3. QED
    BY <1>10, <2>1, <2>2 DEF SendNotify, TypeOK, row
<1>11. ASSUME NEW r \in Request, PayWrite(r) PROVE TypeInv'
  <2> DEFINE newPaid == request[r].paid + request[r].arg
             newStatus == StatusAfterPayment(request[r].status, newPaid, request[r].total)
  <2>1. /\ request[r] \in RequestState
        /\ request[r].arg \in Nat /\ request[r].inv \in Invoice
    BY <1>11 DEF TypeOK, WellFormed, PayWrite
  <2>2. newPaid \in Int
    BY <2>1 DEF RequestState
  <2>3. newStatus \in Status
    BY <2>1 DEF RequestState, StatusAfterPayment, Status
  <2>4. request' \in [Request -> RequestState]
    <3>1. [request[r] EXCEPT !.step = "notifyPaid", !.status = newStatus] \in RequestState
      BY <2>1, <2>3 DEF RequestState, Notifying
    <3>2. request' = [request EXCEPT ![r] =
                        [request[r] EXCEPT !.step = "notifyPaid", !.status = newStatus]]
      BY <1>11 DEF PayWrite
    <3>3. QED
      BY <3>1, <3>2 DEF TypeOK
  <2>5. /\ payments' \in [Invoice -> Nat]
        /\ paidAmount' \in [Invoice -> Int]
        /\ status' \in [Invoice -> Status \cup {Absent}]
    <3>1. /\ payments' = [payments EXCEPT ![request[r].inv] = @ + request[r].arg]
          /\ paidAmount' = [paidAmount EXCEPT ![request[r].inv] = newPaid]
          /\ status' = [status EXCEPT ![request[r].inv] = newStatus]
      BY <1>11 DEF PayWrite
    <3>2. /\ payments \in [Invoice -> Nat]
          /\ paidAmount \in [Invoice -> Int]
          /\ status \in [Invoice -> Status \cup {Absent}]
      BY DEF TypeOK
    <3> HIDE DEF newPaid, newStatus
    <3>3. QED
      BY <2>1, <2>2, <2>3, <3>1, <3>2
  <2>6. TypeOK'
    BY <1>11, <2>4, <2>5 DEF TypeOK, PayWrite, jobs
  <2>7. WellFormed'
    <3>1. \A q \in Request : request'[q] = request[q] \/ request'[q].step = "notifyPaid"
      BY <1>11 DEF PayWrite, TypeOK, RequestState
    <3>2. request'[r].inv = request[r].inv
      BY <1>11 DEF PayWrite, TypeOK, RequestState
    <3>3. QED
      BY <1>11, <2>1, <3>1, <3>2 DEF TypeOK, WellFormed, PayWrite
  <2>8. QED
    BY <2>6, <2>7
<1>12. ASSUME NEW r \in Request, PayNotify(r) PROVE TypeInv'
  <2>1. request' \in [Request -> RequestState] /\ WellFormed'
    BY <1>12, FinishTypeInv DEF PayNotify
  <2>2. paidJobs' \in [Invoice -> Nat]
    <3>1. paidJobs \in [Invoice -> Nat]
      BY DEF TypeOK
    <3>2. \/ paidJobs' = [paidJobs EXCEPT ![request[r].inv] = @ + 1]
          \/ paidJobs' = paidJobs
      BY <1>12 DEF PayNotify
    <3>3. request[r].inv \in Invoice
      BY <1>12 DEF PayNotify, WellFormed
    <3>4. QED
      BY <3>1, <3>2, <3>3
  <2>3. QED
    BY <1>12, <2>1, <2>2 DEF PayNotify, TypeOK, row
<1>13. ASSUME NEW r \in Request, RemoveWrite(r) PROVE TypeInv'
  <2>1. request' \in [Request -> RequestState] /\ WellFormed'
    BY <1>13, FinishTypeInv DEF RemoveWrite
  <2>2. status' \in [Invoice -> Status \cup {Absent}]
    BY <1>13 DEF RemoveWrite, TypeOK, Status
  <2>3. QED
    BY <1>13, <2>1, <2>2 DEF RemoveWrite, TypeOK, jobs
<1>14. ASSUME NEW r \in Request, RequestFail(r) PROVE TypeInv'
  <2>1. request' \in [Request -> RequestState] /\ WellFormed'
    BY <1>14, FinishTypeInv DEF RequestFail
  <2>2. failures' \in 0 .. MaxFailures
    BY <1>14 DEF RequestFail, TypeOK
  <2>3. QED
    BY <1>14, <2>1, <2>2 DEF RequestFail, TypeOK, row, jobs
<1>15. ASSUME NEW w \in Sweeper, SweepSelect(w) PROVE TypeInv'
  <2>1. sweep' \in [Sweeper -> SweepState]
    BY <1>15 DEF SweepSelect, TypeOK, SweepState, Overdue
  <2>2. contended' \in SUBSET Invoice
    BY <1>15 DEF SweepSelect, ReadRows, Overdue, TypeOK
  <2>3. WellFormed'
    BY <1>15 DEF SweepSelect, WellFormed
  <2>4. QED
    BY <1>15, <2>1, <2>2, <2>3 DEF SweepSelect, TypeOK, row, jobs
<1>16. ASSUME NEW w \in Sweeper, SweepRemind(w) PROVE TypeInv'
  <2>1. sweep' \in [Sweeper -> SweepState]
    <3>1. sweep[w] \in SweepState
      BY DEF TypeOK
    <3>2. [sweep[w] EXCEPT !.marked = None, !.phone = @ \ {sweep[w].marked}] \in SweepState
      BY <3>1 DEF SweepState
    <3>3. sweep' = [sweep EXCEPT ![w] =
                      [sweep[w] EXCEPT !.marked = None, !.phone = @ \ {sweep[w].marked}]]
      BY <1>16 DEF SweepRemind
    <3>4. QED
      BY <3>2, <3>3 DEF TypeOK
  <2>2. reminded' \in [Invoice -> BOOLEAN] /\ unreminded' \in SUBSET Invoice
    <3>1. sweep[w].marked \in Invoice
      BY <1>16 DEF SweepRemind, TypeOK, SweepState
    <3>2. QED
      BY <1>16, <3>1 DEF SweepRemind, TypeOK
  <2>3. WellFormed'
    BY <1>16 DEF SweepRemind, WellFormed
  <2>4. QED
    BY <1>16, <2>1, <2>2, <2>3 DEF SweepRemind, TypeOK, row
<1>17. ASSUME NEW w \in Sweeper, SweepFail(w) PROVE TypeInv'
  <2>1. sweep' \in [Sweeper -> SweepState]
    BY <1>17 DEF SweepFail, Asleep, TypeOK, SweepState
  <2>2. failures' \in 0 .. MaxFailures /\ unreminded' \in SUBSET Invoice
    BY <1>17 DEF SweepFail, TypeOK, SweepState
  <2>3. WellFormed'
    BY <1>17 DEF SweepFail, WellFormed
  <2>4. QED
    BY <1>17, <2>1, <2>2, <2>3 DEF SweepFail, TypeOK, row, jobs
<1>18. ASSUME NEW w \in Sweeper, NEW i \in Invoice, SweepMark(w, i) PROVE TypeInv'
  <2>1. sweep' \in [Sweeper -> SweepState]
    <3>1. sweep[w] \in SweepState
      BY DEF TypeOK
    <3>2. [sweep[w] EXCEPT !.todo = @ \ {i}, !.marked = i] \in SweepState
      BY <3>1 DEF SweepState
    <3>3. sweep' = [sweep EXCEPT ![w] = [sweep[w] EXCEPT !.todo = @ \ {i}, !.marked = i]]
      BY <1>18 DEF SweepMark
    <3>4. QED
      BY <3>2, <3>3 DEF TypeOK
  <2>2. /\ reminded' \in [Invoice -> BOOLEAN] /\ unreminded' \in SUBSET Invoice
        /\ status' \in [Invoice -> Status \cup {Absent}]
    BY <1>18 DEF SweepMark, TypeOK, Status
  <2>3. WellFormed'
    BY <1>18 DEF SweepMark, WellFormed
  <2>4. QED
    BY <1>18, <2>1, <2>2, <2>3 DEF SweepMark, TypeOK
<1>19. CASE UNCHANGED vars
  BY <1>19 DEF TypeOK, WellFormed, vars, row, jobs
<1>20. QED
  BY <1>1, <1>2, <1>3, <1>4, <1>5, <1>6, <1>7, <1>8, <1>9, <1>10, <1>11, <1>12,
     <1>13, <1>14, <1>15, <1>16, <1>17, <1>18, <1>19, NextCases

\* Every behaviour of the handlers and the sweep keeps every column, job
\* counter and handler in its type.
THEOREM TypeCorrect == Spec => []TypeOK
<1>1. TypeInv => TypeOK
  BY DEF TypeInv
<1>2. QED
  BY <1>1, InitTypeInv, NextTypeInv, PTL DEF Spec
-----------------------------------------------------------------------------
(* PaidIsCovered: the only writer of paidAmount adds to a paid amount it    *)
(* read earlier, when the Payment rows covered it, and they only grow.      *)

LEMMA NextCovered == CoveredInv /\ [Next]_vars => CoveredInv'
<1> SUFFICES ASSUME CoveredInv, [Next]_vars PROVE PaidIsCovered' /\ SnapshotCovered'
  BY NextTypeInv DEF CoveredInv
<1> USE ConstantsAssumption DEF CoveredInv, TypeInv
<1> DEFINE Calm == UNCHANGED <<paidAmount, payments>>
<1>1. ASSUME Calm, UNCHANGED request PROVE PaidIsCovered' /\ SnapshotCovered'
  BY <1>1 DEF PaidIsCovered, SnapshotCovered
<1>2. ASSUME NEW r \in Request, Calm,
             \E q : request' = [request EXCEPT ![r] = q] /\ q.step # "pay"
      PROVE  PaidIsCovered' /\ SnapshotCovered'
  BY <1>2 DEF PaidIsCovered, SnapshotCovered, TypeOK
<1>3. ASSUME NEW r \in Request, Calm, Finish(r) PROVE PaidIsCovered' /\ SnapshotCovered'
  <2>1. Idle.step # "pay"
    BY DEF Idle
  <2>2. QED
    BY <1>2, <1>3, <2>1 DEF Finish
<1>4. ASSUME NEW r \in Request, NEW i \in Invoice, NEW step, NEW a, Read(r, i, step, a)
      PROVE  PaidIsCovered' /\ SnapshotCovered'
  BY <1>4 DEF Read, PaidIsCovered, SnapshotCovered, TypeOK, row
<1>5. ASSUME NEW r \in Request, NEW step \in {"rewrite", "notifySent"}, Calm, Goto(r, step)
      PROVE  PaidIsCovered' /\ SnapshotCovered'
  BY <1>5 DEF Goto, PaidIsCovered, SnapshotCovered, TypeOK, RequestState
<1>6. ASSUME NEW r \in Request, PayWrite(r) PROVE PaidIsCovered' /\ SnapshotCovered'
  <2>1. /\ request[r].inv \in Invoice /\ request[r].arg \in Nat /\ request[r].paid \in Int
        /\ request[r].paid <= payments[request[r].inv]
    BY <1>6 DEF PayWrite, TypeOK, WellFormed, SnapshotCovered, RequestState
  <2>2. /\ payments[request[r].inv] \in Nat
        /\ paidAmount'[request[r].inv] = request[r].paid + request[r].arg
        /\ payments'[request[r].inv] = payments[request[r].inv] + request[r].arg
        /\ \A j \in Invoice : j # request[r].inv =>
              paidAmount'[j] = paidAmount[j] /\ payments'[j] = payments[j]
    BY <1>6, <2>1 DEF PayWrite, TypeOK
  <2>3. /\ paidAmount'[request[r].inv] <= payments'[request[r].inv]
        /\ \A j \in Invoice : payments[j] \in Nat /\ payments'[j] \in Nat
                             /\ payments[j] <= payments'[j]
    <3>1. /\ payments'[request[r].inv] \in Nat
          /\ payments[request[r].inv] <= payments'[request[r].inv]
          /\ paidAmount'[request[r].inv] <= payments'[request[r].inv]
      BY <2>1, <2>2
    <3>2. \A j \in Invoice : payments[j] \in Nat /\ payments[j] <= payments[j]
      BY DEF TypeOK
    <3>3. QED
      BY <2>2, <3>1, <3>2
  <2>4. \A q \in Request : request'[q].step = "pay" => request'[q] = request[q]
    BY <1>6 DEF PayWrite, TypeOK, RequestState
  <2>5. \A q \in Request : request[q] \in RequestState
    BY DEF TypeOK
  <2>6. SnapshotCovered'
    BY <2>3, <2>4, <2>5 DEF SnapshotCovered, WellFormed, RequestState
  <2>7. PaidIsCovered'
    BY <2>2, <2>3 DEF PaidIsCovered
  <2>8. QED
    BY <2>6, <2>7
<1>7. CASE \E i \in Invoice : DueDatePasses(i) \/ \E t \in Total : Create(i, t)
  BY <1>1, <1>7 DEF DueDatePasses, Create
<1>8. CASE \E r \in Request, i \in Invoice :
             \/ \E t \in Total \cup {None} : UpdateRead(r, i, t)
             \/ \E a \in Amount : PayRead(r, i, a)
             \/ SendRead(r, i)
             \/ RemoveRead(r, i)
  BY <1>4, <1>8 DEF UpdateRead, PayRead, SendRead, RemoveRead
<1>9. CASE \E r \in Request : UpdateDeleteItems(r) \/ SendWrite(r)
  BY <1>5, <1>9 DEF UpdateDeleteItems, SendWrite
<1>10. CASE \E r \in Request : UpdateWrite(r) \/ SendNotify(r) \/ PayNotify(r)
                                 \/ RemoveWrite(r) \/ RequestFail(r)
  BY <1>3, <1>10 DEF UpdateWrite, SendNotify, PayNotify, RemoveWrite, RequestFail, row
<1>11. CASE \E w \in Sweeper :
             \/ SweepSelect(w) \/ SweepRemind(w) \/ SweepFail(w)
             \/ \E i \in Invoice : SweepMark(w, i)
  BY <1>1, <1>11 DEF SweepSelect, SweepRemind, SweepFail, SweepMark, row
<1>12. CASE UNCHANGED vars
  BY <1>1, <1>12 DEF vars, row
<1>13. QED
  BY <1>6, <1>7, <1>8, <1>9, <1>10, <1>11, <1>12, NextCases

\* paidAmount never exceeds what the Payment rows add up to, whatever overlaps.
THEOREM PaidCovered == Spec => []PaidIsCovered
<1>1. Init => CoveredInv
  BY InitTypeInv DEF Init, Idle, CoveredInv, PaidIsCovered, SnapshotCovered
<1>2. CoveredInv => PaidIsCovered
  BY DEF CoveredInv
<1>3. QED
  BY <1>1, <1>2, NextCovered, PTL DEF Spec

-----------------------------------------------------------------------------
(* UncontendedMoneyAgrees: on an uncontended invoice the one handler that   *)
(* holds it has read what is still there.                                   *)

LEMMA KeptSound ==
    ASSUME NEW i \in Invoice, Sound(i), Kept(i)
    PROVE  Sound(i)'
<1>1. MoneyAgrees(i)'
  BY DEF Sound, Kept, MoneyAgrees
<1>2. SoleHolder(i)'
  BY DEF Sound, Kept, SoleHolder
<1>3. SnapshotFresh(i)'
  BY DEF Sound, Kept, SnapshotFresh
<1>4. QED
  BY <1>1, <1>2, <1>3 DEF Sound

\* A request that only reads: the invoice it reads is held by nobody else, or
\* becomes contended.
LEMMA ReadSound ==
    ASSUME UncontendedInv, NEW r \in Request, NEW i \in Invoice, NEW step \in Holding, NEW a,
           Read(r, i, step, a),
           step # "pay" => status[i] = "DRAFT",
           step = "pay" => status[i] # "PAID" /\ paidAmount[i] + a <= totalAmount[i],
           NEW j \in Invoice \ contended'
    PROVE  Sound(j)'
<1> USE DEF UncontendedInv, TypeInv
<1>1. j \notin contended /\ (j = i => ~Held(i))
  BY DEF Read, ReadRows, TypeOK
<1>2. UNCHANGED <<status, totalAmount, paidAmount, payments, sweep>>
  BY DEF Read, row
<1>3. \A q \in Request : q # r => request'[q] = request[q]
  BY DEF Read, TypeOK
<1>4. /\ request'[r].inv = i /\ request'[r].step = step /\ request'[r].arg = a
      /\ request'[r].status = status[i] /\ request'[r].total = totalAmount[i]
      /\ request'[r].paid = paidAmount[i]
  BY DEF Read, TypeOK
<1>5. CASE j # i
  <2>1. Kept(j)
    BY <1>2, <1>3, <1>4, <1>5 DEF Kept, RequestHolds, SweepHolds
  <2>2. QED
    BY <1>1, <2>1, KeptSound
<1>6. CASE j = i
  <2>1. MoneyAgrees(j)'
    BY <1>1, <1>2 DEF Sound, MoneyAgrees
  <2>2. SoleHolder(j)'
    BY <1>1, <1>2, <1>3, <1>6 DEF SoleHolder, Held, RequestHolds, SweepHolds
  <2>3. SnapshotFresh(j)'
    BY <1>1, <1>2, <1>3, <1>4, <1>6 DEF SnapshotFresh, Held, RequestHolds, SweepHolds
  <2>4. QED
    BY <2>1, <2>2, <2>3 DEF Sound
<1>7. QED
  BY <1>5, <1>6

\* A request that writes the invoice it holds and lets go of it: other
\* invoices are kept, and an uncontended one is left with no holder.
LEMMA WriteSound ==
    ASSUME UncontendedInv, NEW r \in Request, request[r].step \in Holding,
           \A q \in Request : q # r => request'[q] = request[q],
           request'[r].step \notin Holding,
           UNCHANGED <<sweep, contended>>,
           \A k \in Invoice : k # request[r].inv =>
               /\ status'[k] = status[k] /\ totalAmount'[k] = totalAmount[k]
               /\ paidAmount'[k] = paidAmount[k] /\ payments'[k] = payments[k],
           \A k \in Invoice \ contended : k = request[r].inv => MoneyAgrees(k)',
           NEW j \in Invoice \ contended'
    PROVE  Sound(j)'
<1>1. CASE j # request[r].inv
  <2>1. Kept(j)
    BY <1>1 DEF Kept, RequestHolds, SweepHolds
  <2>2. QED
    BY <2>1, KeptSound DEF UncontendedInv
<1>2. CASE j = request[r].inv
  <2>1. SoleHolder(j) /\ RequestHolds(r, j)
    BY <1>2 DEF UncontendedInv, Sound, RequestHolds
  <2>2. /\ \A q \in Request : ~RequestHolds(q, j)'
        /\ \A w \in Sweeper : ~SweepHolds(w, j)'
    BY <2>1 DEF SoleHolder, RequestHolds, SweepHolds
  <2>3. QED
    BY <1>2, <2>2 DEF Sound, SoleHolder, SnapshotFresh
<1>3. QED
  BY <1>1, <1>2

LEMMA InitUncontended == Init => UncontendedInv
  BY InitTypeInv DEF Init, Idle, Asleep, UncontendedInv, Sound, MoneyAgrees, SoleHolder,
                     SnapshotFresh, RequestHolds, SweepHolds, Holding, Absent

LEMMA NextUncontended == UncontendedInv /\ [Next]_vars => UncontendedInv'
<1> SUFFICES ASSUME UncontendedInv, [Next]_vars, NEW j \in Invoice \ contended'
             PROVE  Sound(j)'
  BY NextTypeInv DEF UncontendedInv
<1> USE ConstantsAssumption
<1> DEFINE Books == UNCHANGED <<status, totalAmount, paidAmount, payments>>
\* The holder of an uncontended invoice sees it as it is.
<1>1. ASSUME NEW r \in Request, request[r].step \in Holding, request[r].inv \notin contended
      PROVE  /\ request[r].inv \in Invoice
             /\ MoneyAgrees(request[r].inv)
             /\ RequestHolds(r, request[r].inv) /\ SnapshotFresh(request[r].inv)
  BY <1>1 DEF UncontendedInv, Sound, TypeInv, WellFormed, RequestHolds, Holding
<1>2. ASSUME Books, UNCHANGED <<request, sweep, contended>> PROVE Sound(j)'
  <2>1. Kept(j)
    BY <1>2 DEF Kept, RequestHolds, SweepHolds
  <2>2. QED
    BY <1>2, <2>1, KeptSound DEF UncontendedInv
\* A request that ends or moves on without writing the money.
<1>3. ASSUME NEW r \in Request, Books, UNCHANGED <<sweep, contended>>, Finish(r)
      PROVE  Sound(j)'
  <2>1. Kept(j)
    BY <1>3 DEF Kept, RequestHolds, SweepHolds, Finish, Idle, Holding,
                UncontendedInv, TypeInv, TypeOK
  <2>2. QED
    BY <1>3, <2>1, KeptSound DEF UncontendedInv
<1>4. ASSUME NEW i \in Invoice, DueDatePasses(i) PROVE Sound(j)'
  BY <1>2, <1>4 DEF DueDatePasses
<1>5. ASSUME NEW i \in Invoice, NEW t \in Total, Create(i, t) PROVE Sound(j)'
  <2>1. j \notin contended /\ UNCHANGED <<request, sweep>>
    BY <1>5 DEF Create
  <2>2. CASE j # i
    <3>1. Kept(j)
      BY <1>5, <2>2 DEF Kept, Create, RequestHolds, SweepHolds, UncontendedInv, TypeInv, TypeOK
    <3>2. QED
      BY <2>1, <3>1, KeptSound DEF UncontendedInv
  <2>3. CASE j = i
    <3>1. Sound(j) /\ status[j] = Absent
      BY <1>5, <2>1, <2>3 DEF UncontendedInv, Create
    <3>2. \A r \in Request : ~RequestHolds(r, j)
      BY <3>1 DEF Sound, SnapshotFresh, UncontendedInv, TypeInv, TypeOK, RequestState,
                  Status, Absent
    <3>3. \A w \in Sweeper : ~SweepHolds(w, j)
      BY <3>1 DEF Sound, SnapshotFresh, Absent
    <3>4. MoneyAgrees(j)'
      BY <1>5, <2>3, <3>1 DEF Create, Sound, MoneyAgrees, UncontendedInv, TypeInv, TypeOK, Absent
    <3>5. QED
      BY <2>1, <3>2, <3>3, <3>4
         DEF Sound, SoleHolder, SnapshotFresh, RequestHolds, SweepHolds
  <2>4. QED
    BY <2>2, <2>3
<1>6. ASSUME NEW r \in Request, NEW i \in Invoice, NEW t, UpdateRead(r, i, t) PROVE Sound(j)'
  BY <1>6, ReadSound DEF UpdateRead, Holding
<1>7. ASSUME NEW r \in Request, NEW i \in Invoice, NEW a, PayRead(r, i, a) PROVE Sound(j)'
  BY <1>7, ReadSound DEF PayRead, Holding
<1>8. ASSUME NEW r \in Request, NEW i \in Invoice, SendRead(r, i) \/ RemoveRead(r, i)
      PROVE  Sound(j)'
  BY <1>8, ReadSound DEF SendRead, RemoveRead, Holding
<1>9. ASSUME NEW r \in Request, UpdateDeleteItems(r) PROVE Sound(j)'
  <2>1. Kept(j)
    BY <1>9 DEF UpdateDeleteItems, Goto, Kept, RequestHolds, SweepHolds, Holding,
                UncontendedInv, TypeInv, TypeOK, RequestState
  <2>2. QED
    BY <1>9, <2>1, KeptSound DEF UpdateDeleteItems, UncontendedInv
<1>10. ASSUME NEW r \in Request, UpdateWrite(r) PROVE Sound(j)'
  <2>1. ASSUME NEW k \in Invoice \ contended, k = request[r].inv PROVE MoneyAgrees(k)'
    <3>1. MoneyAgrees(k) /\ status[k] = "DRAFT"
      BY <1>1, <1>10, <2>1 DEF UpdateWrite, SnapshotFresh, Holding
    <3>2. UNCHANGED <<status, paidAmount, payments>>
      BY <1>10 DEF UpdateWrite
    <3>3. QED
      BY <3>1, <3>2 DEF MoneyAgrees
  <2>2. QED
    BY <1>10, <2>1, WriteSound DEF UpdateWrite, Finish, Idle, Holding,
                                   UncontendedInv, TypeInv, TypeOK
<1>11. ASSUME NEW r \in Request, SendWrite(r) PROVE Sound(j)'
  <2>1. ASSUME NEW k \in Invoice \ contended, k = request[r].inv PROVE MoneyAgrees(k)'
    <3>1. MoneyAgrees(k) /\ status[k] = "DRAFT"
      BY <1>1, <1>11, <2>1 DEF SendWrite, SnapshotFresh, Holding
    <3>2. status'[k] = "SENT" /\ UNCHANGED <<totalAmount, paidAmount, payments>>
      BY <1>11, <2>1 DEF SendWrite, UncontendedInv, TypeInv, TypeOK
    <3>3. QED
      BY <3>1, <3>2 DEF MoneyAgrees, Absent
  <2>2. QED
    BY <1>11, <2>1, WriteSound DEF SendWrite, Goto, Holding, UncontendedInv, TypeInv, TypeOK,
                                   RequestState
<1>12. ASSUME NEW r \in Request, RemoveWrite(r) PROVE Sound(j)'
  <2>1. ASSUME NEW k \in Invoice \ contended, k = request[r].inv PROVE MoneyAgrees(k)'
    <3>1. MoneyAgrees(k) /\ status[k] = "DRAFT"
      BY <1>1, <1>12, <2>1 DEF RemoveWrite, SnapshotFresh, Holding
    <3>2. status'[k] = "CANCELLED" /\ UNCHANGED <<totalAmount, paidAmount, payments>>
      BY <1>12, <2>1 DEF RemoveWrite, UncontendedInv, TypeInv, TypeOK
    <3>3. QED
      BY <3>1, <3>2 DEF MoneyAgrees, Absent
  <2>2. QED
    BY <1>12, <2>1, WriteSound DEF RemoveWrite, Finish, Idle, Holding,
                                   UncontendedInv, TypeInv, TypeOK
<1>13. ASSUME NEW r \in Request, PayWrite(r) PROVE Sound(j)'
  <2>1. ASSUME NEW i \in Invoice \ contended, i = request[r].inv PROVE MoneyAgrees(i)'
    <3>1. /\ request[r].arg \in Nat \ {0}
          /\ request[r].paid = paidAmount[i] /\ request[r].total = totalAmount[i]
          /\ paidAmount[i] = payments[i] /\ paidAmount[i] + request[r].arg <= totalAmount[i]
      BY <1>1, <1>13, <2>1 DEF PayWrite, Holding, SnapshotFresh, MoneyAgrees,
                               UncontendedInv, TypeInv, WellFormed
    <3>2. payments[i] \in Nat /\ totalAmount[i] \in Int
      BY <3>1 DEF UncontendedInv, TypeInv, TypeOK
    <3>3. /\ paidAmount'[i] = paidAmount[i] + request[r].arg
          /\ payments'[i] = payments[i] + request[r].arg
          /\ totalAmount'[i] = totalAmount[i]
          /\ status'[i] = StatusAfterPayment(request[r].status, paidAmount'[i], totalAmount[i])
      BY <1>13, <2>1, <3>1 DEF PayWrite, UncontendedInv, TypeInv, TypeOK
    <3>4. status'[i] = IF paidAmount'[i] = totalAmount[i] THEN "PAID" ELSE "PARTIAL"
      BY <3>1, <3>2, <3>3 DEF StatusAfterPayment
    <3>5. QED
      BY <3>1, <3>2, <3>3, <3>4 DEF MoneyAgrees, Absent
  <2>2. \A q \in Request : q # r => request'[q] = request[q]
    BY <1>13 DEF PayWrite, UncontendedInv, TypeInv, TypeOK
  <2>3. request'[r].step = "notifyPaid"
    BY <1>13 DEF PayWrite, UncontendedInv, TypeInv, TypeOK, RequestState
  <2>4. \A k \in Invoice : k # request[r].inv =>
               /\ status'[k] = status[k] /\ totalAmount'[k] = totalAmount[k]
               /\ paidAmount'[k] = paidAmount[k] /\ payments'[k] = payments[k]
    BY <1>13 DEF PayWrite, UncontendedInv, TypeInv, TypeOK
  <2>5. QED
    BY <1>13, <2>1, <2>2, <2>3, <2>4, WriteSound DEF PayWrite, Holding
<1>14. ASSUME NEW r \in Request, SendNotify(r) \/ PayNotify(r) \/ RequestFail(r)
       PROVE  Sound(j)'
  BY <1>3, <1>14 DEF SendNotify, PayNotify, RequestFail, row
<1>15. ASSUME NEW w \in Sweeper, SweepSelect(w) PROVE Sound(j)'
  <2>1. j \notin contended /\ (j \in Overdue => ~Held(j))
    BY <1>15 DEF SweepSelect, ReadRows
  <2>2. UNCHANGED <<status, totalAmount, paidAmount, payments, request>>
    BY <1>15 DEF SweepSelect, row
  <2>3. \A v \in Sweeper : sweep'[v].todo = IF v = w THEN Overdue ELSE sweep[v].todo
    BY <1>15 DEF SweepSelect, UncontendedInv, TypeInv, TypeOK, SweepState
  <2>4. CASE j \in Overdue
    <3>1. MoneyAgrees(j)'
      BY <2>1, <2>2 DEF UncontendedInv, Sound, MoneyAgrees
    <3>2. /\ \A r \in Request : ~RequestHolds(r, j)'
          /\ \A v \in Sweeper : SweepHolds(v, j)' => v = w
      BY <2>1, <2>2, <2>3, <2>4 DEF Held, RequestHolds, SweepHolds
    <3>3. status'[j] \in {"SENT", "PARTIAL"}
      BY <2>2, <2>4 DEF Overdue
    <3>4. QED
      BY <3>1, <3>2, <3>3 DEF Sound, SoleHolder, SnapshotFresh
  <2>5. CASE j \notin Overdue
    <3>1. Kept(j)
      BY <2>2, <2>3, <2>5 DEF Kept, RequestHolds, SweepHolds
    <3>2. QED
      BY <2>1, <3>1, KeptSound DEF UncontendedInv
  <2>6. QED
    BY <2>4, <2>5
<1>16. ASSUME NEW w \in Sweeper, SweepRemind(w) \/ SweepFail(w) PROVE Sound(j)'
  <2>1. UNCHANGED <<status, totalAmount, paidAmount, payments, request, contended>>
    BY <1>16 DEF SweepRemind, SweepFail, row
  <2>2. \A v \in Sweeper : sweep'[v].todo \subseteq sweep[v].todo
    <3>1. CASE SweepRemind(w)
      BY <3>1 DEF SweepRemind, UncontendedInv, TypeInv, TypeOK, SweepState
    <3>2. CASE SweepFail(w)
      BY <3>2 DEF SweepFail, Asleep, UncontendedInv, TypeInv, TypeOK, SweepState
    <3>3. QED
      BY <1>16, <3>1, <3>2
  <2>3. Kept(j)
    BY <2>1, <2>2 DEF Kept, RequestHolds, SweepHolds
  <2>4. QED
    BY <2>1, <2>3, KeptSound DEF UncontendedInv
<1>17. ASSUME NEW w \in Sweeper, NEW i \in Invoice, SweepMark(w, i) PROVE Sound(j)'
  <2>1. j \notin contended /\ UNCHANGED <<request, totalAmount, paidAmount, payments>>
    BY <1>17 DEF SweepMark
  <2>2. \A v \in Sweeper : v # w => sweep'[v] = sweep[v]
    BY <1>17 DEF SweepMark, UncontendedInv, TypeInv, TypeOK
  <2>3. sweep'[w].todo = sweep[w].todo \ {i}
    BY <1>17 DEF SweepMark, UncontendedInv, TypeInv, TypeOK
  <2>4. CASE j # i
    <3>1. status'[j] = status[j]
      BY <1>17, <2>4 DEF SweepMark, UncontendedInv, TypeInv, TypeOK
    <3>2. Kept(j)
      BY <2>1, <2>2, <2>3, <3>1 DEF Kept, RequestHolds, SweepHolds
    <3>3. QED
      BY <2>1, <3>2, KeptSound DEF UncontendedInv
  <2>5. CASE j = i
    <3>1. Sound(j) /\ SweepHolds(w, j)
      BY <1>17, <2>1, <2>5 DEF UncontendedInv, SweepMark
    <3>2. /\ \A r \in Request : ~RequestHolds(r, j)'
          /\ \A v \in Sweeper : ~SweepHolds(v, j)'
      BY <2>1, <2>2, <2>3, <2>5, <3>1 DEF Sound, SoleHolder, RequestHolds, SweepHolds
    <3>3. status[j] \in {"SENT", "PARTIAL"}
      BY <3>1 DEF Sound, SnapshotFresh
    <3>4. status'[j] = "OVERDUE"
      BY <1>17, <2>5 DEF SweepMark, UncontendedInv, TypeInv, TypeOK
    <3>5. MoneyAgrees(j)'
      BY <2>1, <3>1, <3>3, <3>4 DEF Sound, MoneyAgrees, Absent
    <3>6. QED
      BY <3>2, <3>5 DEF Sound, SoleHolder, SnapshotFresh
  <2>6. QED
    BY <2>4, <2>5
<1>18. CASE UNCHANGED vars
  BY <1>2, <1>18 DEF vars, row
<1>19. QED
  BY <1>4, <1>5, <1>6, <1>7, <1>8, <1>9, <1>10, <1>11, <1>12, <1>13, <1>14, <1>15,
     <1>16, <1>17, <1>18, NextCases

\* No failure at any step of any handler breaks the books of an invoice that
\* two handlers never held together.
THEOREM UncontendedBooks == Spec => []UncontendedMoneyAgrees
<1>1. Init => UncontendedInv
  BY InitUncontended
<1>2. UncontendedInv => UncontendedMoneyAgrees
  BY DEF UncontendedInv, Sound, UncontendedMoneyAgrees
<1>3. QED
  BY <1>1, <1>2, NextUncontended, PTL DEF Spec

-----------------------------------------------------------------------------
\* A payment leaves the invoice PAID or PARTIAL, if the amount read was not
\* negative.
LEMMA PaymentPays ==
    ASSUME TypeInv, NEW r \in Request, PayWrite(r), request[r].paid >= 0
    PROVE  status'[request[r].inv] \in {"PAID", "PARTIAL"}
<1> DEFINE newPaid == request[r].paid + request[r].arg
           newStatus == StatusAfterPayment(request[r].status, newPaid, request[r].total)
<1>1. request[r].arg \in Nat \ {0} /\ request[r].paid \in Nat /\ request[r].inv \in Invoice
  BY ConstantsAssumption DEF TypeInv, TypeOK, WellFormed, PayWrite, RequestState
<1>2. newPaid > 0
  BY <1>1
<1>3. newStatus \in {"PAID", "PARTIAL"}
  BY <1>2 DEF StatusAfterPayment
<1>4. status' = [status EXCEPT ![request[r].inv] = newStatus]
  BY DEF PayWrite
<1>5. QED
  BY <1>1, <1>3, <1>4 DEF TypeInv, TypeOK

(* Action properties: only a holder writes an invoice's row, and what the   *)
(* holder of an uncontended invoice has read is still there.                *)

\* The requests of an uncontended invoice that are about to write it find the
\* status they have read.
LEMMA HolderSees ==
    ASSUME UncontendedInv, NEW r \in Request, request[r].step \in Holding,
           NEW i \in Invoice \ contended, request[r].inv = i
    PROVE  /\ request[r].step # "pay" => status[i] = "DRAFT"
           /\ request[r].step = "pay" => status[i] # "PAID"
           /\ status[i] # Absent
<1>1. SnapshotFresh(i) /\ RequestHolds(r, i)
  BY DEF UncontendedInv, Sound, RequestHolds
<1>2. request[r].status \in Status
  BY DEF UncontendedInv, TypeInv, TypeOK, RequestState
<1>3. QED
  BY <1>1, <1>2 DEF SnapshotFresh, Absent, Status

\* A step that changes the status of an uncontended invoice found it Absent,
\* DRAFT, or held by a payment or a sweep; total and items change only in
\* DRAFT.
LEMMA WritesAreGuarded ==
    ASSUME UncontendedInv, [Next]_vars, NEW i \in Invoice \ contended
    PROVE  /\ status[i] = "PAID" => status'[i] = "PAID"
           /\ status[i] \notin {Absent, "DRAFT"} =>
                /\ totalAmount'[i] = totalAmount[i] /\ itemRows'[i] = itemRows[i]
                /\ status'[i] \notin {Absent, "DRAFT", "CANCELLED"} \/ status'[i] = status[i]
<1> DEFINE Goal == /\ status[i] = "PAID" => status'[i] = "PAID"
                   /\ status[i] \notin {Absent, "DRAFT"} =>
                        /\ totalAmount'[i] = totalAmount[i] /\ itemRows'[i] = itemRows[i]
                        /\ status'[i] \notin {Absent, "DRAFT", "CANCELLED"} \/ status'[i] = status[i]
<1> USE DEF UncontendedInv, TypeInv, TypeOK
<1>1. ASSUME UNCHANGED <<status, totalAmount, itemRows>> PROVE Goal
  BY <1>1
<1>2. CASE \E k \in Invoice : DueDatePasses(k)
  BY <1>1, <1>2 DEF DueDatePasses
<1>3. ASSUME NEW k \in Invoice, NEW t \in Total, Create(k, t) PROVE Goal
  BY <1>3 DEF Create, Absent
<1>4. ASSUME NEW r \in Request, NEW k \in Invoice,
             \/ \E t \in Total \cup {None} : UpdateRead(r, k, t)
             \/ \E a \in Amount : PayRead(r, k, a)
             \/ SendRead(r, k) \/ RemoveRead(r, k)
      PROVE  Goal
  BY <1>1, <1>4 DEF UpdateRead, PayRead, SendRead, RemoveRead, Read, row
<1>5. ASSUME NEW r \in Request, UpdateDeleteItems(r) \/ UpdateWrite(r) PROVE Goal
  <2>1. request[r].inv = i => status[i] = "DRAFT"
    BY <1>5, HolderSees DEF UpdateDeleteItems, UpdateWrite, Holding
  <2>2. UNCHANGED status
    BY <1>5 DEF UpdateDeleteItems, UpdateWrite
  <2>3. request[r].inv # i => totalAmount'[i] = totalAmount[i] /\ itemRows'[i] = itemRows[i]
    BY <1>5 DEF UpdateDeleteItems, UpdateWrite
  <2>4. QED
    BY <2>1, <2>2, <2>3
<1>6. ASSUME NEW r \in Request, SendWrite(r) \/ RemoveWrite(r) PROVE Goal
  <2>1. request[r].inv = i => status[i] = "DRAFT"
    BY <1>6, HolderSees DEF SendWrite, RemoveWrite, Holding
  <2>2. UNCHANGED <<totalAmount, itemRows>>
    BY <1>6 DEF SendWrite, RemoveWrite
  <2>3. request[r].inv # i => status'[i] = status[i]
    BY <1>6 DEF SendWrite, RemoveWrite
  <2>4. QED
    BY <2>1, <2>2, <2>3
<1>7. ASSUME NEW r \in Request, PayWrite(r) PROVE Goal
  <2>1. UNCHANGED <<totalAmount, itemRows>>
    BY <1>7 DEF PayWrite
  <2>2. request[r].inv # i => status'[i] = status[i]
    BY <1>7 DEF PayWrite
  <2>3. CASE request[r].inv = i
    <3>1. status[i] # "PAID"
      BY <1>7, <2>3, HolderSees DEF PayWrite, Holding
    <3>2. status'[i] \in {"PAID", "PARTIAL"}
      <4>1. request[r].paid = payments[i]
        BY <1>7, <2>3 DEF PayWrite, Sound, SnapshotFresh, MoneyAgrees, RequestHolds, Holding
      <4>2. request[r].paid >= 0
        BY <4>1
      <4>3. QED
        BY <1>7, <2>3, <4>2, PaymentPays
    <3>3. QED
      BY <2>1, <3>1, <3>2 DEF Absent
  <2>4. QED
    BY <2>1, <2>2, <2>3
<1>8. ASSUME NEW r \in Request, SendNotify(r) \/ PayNotify(r) \/ RequestFail(r) PROVE Goal
  BY <1>1, <1>8 DEF SendNotify, PayNotify, RequestFail, row
<1>9. ASSUME NEW w \in Sweeper, SweepSelect(w) \/ SweepRemind(w) \/ SweepFail(w) PROVE Goal
  BY <1>1, <1>9 DEF SweepSelect, SweepRemind, SweepFail, row
<1>10. ASSUME NEW w \in Sweeper, NEW k \in Invoice, SweepMark(w, k) PROVE Goal
  <2>1. UNCHANGED <<totalAmount, itemRows>> /\ status' = [status EXCEPT ![k] = "OVERDUE"]
    BY <1>10 DEF SweepMark
  <2>2. k = i => status[i] \in {"SENT", "PARTIAL"}
    BY <1>10 DEF SweepMark, Sound, SnapshotFresh
  <2>3. QED
    BY <2>1, <2>2 DEF Absent
<1>11. CASE UNCHANGED vars
  BY <1>1, <1>11 DEF vars, row
<1>12. QED
  BY <1>2, <1>3, <1>4, <1>5, <1>6, <1>7, <1>8, <1>9, <1>10, <1>11, NextCases

\* PAID is final, unless handlers overlap on the invoice.
THEOREM PaidStaysPaid == Spec => PaidIsFinal
<1>1. UncontendedInv /\ [Next]_vars =>
        [\A i \in Invoice \ contended : status[i] = "PAID" => status'[i] = "PAID"]_vars
  BY WritesAreGuarded
<1>2. QED
  BY <1>1, InitUncontended, NextUncontended, PTL DEF Spec, PaidIsFinal

\* The total and the items of an invoice that has left DRAFT stay as they were,
\* unless handlers overlap on it.
THEOREM IssuedStaysFrozen == Spec => IssuedIsFrozen
<1>1. UncontendedInv /\ [Next]_vars =>
        [\A i \in Invoice \ contended : status[i] \notin {Absent, "DRAFT"} =>
           totalAmount'[i] = totalAmount[i] /\ itemRows'[i] = itemRows[i]]_vars
  BY WritesAreGuarded
<1>2. QED
  BY <1>1, InitUncontended, NextUncontended, PTL DEF Spec, IssuedIsFrozen

-----------------------------------------------------------------------------
(* ItemsMatchTotal: the items of an invoice are gone only while its holder  *)
(* is between the two statements of update, or one has failed there.        *)

ItemsSound(i) ==
    /\ status[i] # Absent =>
         \/ itemRows[i] = <<totalAmount[i]>>
         \/ /\ itemRows[i] = <<>>
            /\ \/ failures > 0
               \/ \E r \in Request : request[r].step = "rewrite" /\ request[r].inv = i
    /\ \A r \in Request : request[r].step = "rewrite" /\ request[r].inv = i => itemRows[i] = <<>>

ItemsInv == UncontendedInv /\ \A i \in Invoice \ contended : ItemsSound(i)

LEMMA ContendedGrows == [Next]_vars => contended \subseteq contended'
<1> SUFFICES ASSUME [Next]_vars PROVE contended \subseteq contended'
  OBVIOUS
<1>1. ASSUME NEW I, ReadRows(I) PROVE contended \subseteq contended'
  BY <1>1 DEF ReadRows
<1>2. QED
  BY <1>1, NextCases
     DEF DueDatePasses, Create, UpdateRead, PayRead, SendRead, RemoveRead, Read,
         UpdateDeleteItems, UpdateWrite, SendWrite, SendNotify, PayWrite, PayNotify,
         RemoveWrite, RequestFail, SweepSelect, SweepRemind, SweepFail, SweepMark, vars

LEMMA NextItems == ItemsInv /\ [Next]_vars => ItemsInv'
<1> SUFFICES ASSUME ItemsInv, [Next]_vars, NEW j \in Invoice \ contended'
             PROVE  ItemsSound(j)'
  BY NextUncontended DEF ItemsInv
<1> USE ConstantsAssumption DEF UncontendedInv, TypeInv, TypeOK
<1>0. contended \subseteq contended'
  BY ContendedGrows
<1>1. UncontendedInv /\ ItemsSound(j) /\ SoleHolder(j) /\ SnapshotFresh(j) /\ failures \in Nat
  BY <1>0 DEF ItemsInv, Sound
\* Steps that write neither items nor totals and leave the rewriting requests alone.
<1>2. ASSUME UNCHANGED <<totalAmount, itemRows>>, failures > 0 => failures' > 0,
             status[j] = Absent => status'[j] = Absent,
             \A r \in Request : request'[r].step = "rewrite" /\ request'[r].inv = j
               <=> request[r].step = "rewrite" /\ request[r].inv = j
      PROVE  ItemsSound(j)'
  BY <1>1, <1>2 DEF ItemsSound
<1>3. ASSUME NEW r \in Request, UNCHANGED <<totalAmount, itemRows, failures>>,
             status[j] = Absent => status'[j] = Absent,
             request[r].step # "rewrite",
             \E q : request' = [request EXCEPT ![r] = q] /\ q.step # "rewrite"
      PROVE  ItemsSound(j)'
  BY <1>1, <1>2, <1>3
<1>4. Idle.step # "rewrite"
  BY DEF Idle
<1>5. ASSUME NEW i \in Invoice, DueDatePasses(i) PROVE ItemsSound(j)'
  BY <1>1, <1>2, <1>5 DEF DueDatePasses
<1>6. ASSUME NEW i \in Invoice, NEW t \in Total, Create(i, t) PROVE ItemsSound(j)'
  <2>1. CASE i = j
    <3>1. \A r \in Request : ~RequestHolds(r, j)
      BY <1>1, <1>6, <2>1, HolderSees DEF Create, ItemsInv, RequestHolds
    <3>2. /\ itemRows'[j] = <<t>> /\ totalAmount'[j] = t /\ UNCHANGED request
      BY <1>1, <1>6, <2>1 DEF Create
    <3>3. QED
      BY <3>1, <3>2 DEF ItemsSound, RequestHolds, Holding
  <2>2. CASE i # j
    <3>1. /\ itemRows'[j] = itemRows[j] /\ totalAmount'[j] = totalAmount[j]
          /\ status'[j] = status[j] /\ UNCHANGED <<request, failures>>
      BY <1>6, <2>2 DEF Create
    <3>2. QED
      BY <1>1, <3>1 DEF ItemsSound
  <2>3. QED
    BY <2>1, <2>2
<1>7. ASSUME NEW r \in Request, NEW i \in Invoice,
             \/ \E t \in Total \cup {None} : UpdateRead(r, i, t)
             \/ \E a \in Amount : PayRead(r, i, a)
             \/ SendRead(r, i) \/ RemoveRead(r, i)
      PROVE  ItemsSound(j)'
  <2>1. PICK step, a : step \in {"update", "pay", "send", "remove"} /\ Read(r, i, step, a)
    BY <1>7 DEF UpdateRead, PayRead, SendRead, RemoveRead
  <2>2. request[r].step # "rewrite"
    BY <2>1, <1>4 DEF Read
  <2> DEFINE q == [step |-> step, inv |-> i, status |-> status[i],
                   total |-> totalAmount[i], paid |-> paidAmount[i], arg |-> a]
  <2>3. request' = [request EXCEPT ![r] = q] /\ q.step # "rewrite"
    BY <2>1 DEF Read
  <2>4. QED
    BY <2>1, <2>2, <2>3, <1>3 DEF Read, row
<1>8. ASSUME NEW r \in Request, UpdateDeleteItems(r) PROVE ItemsSound(j)'
  <2>1. /\ request'[r].step = "rewrite" /\ request'[r].inv = request[r].inv
        /\ \A q \in Request : q # r => request'[q] = request[q]
        /\ UNCHANGED <<status, totalAmount, failures>>
        /\ request[r].step = "update"
    BY <1>1, <1>8 DEF UpdateDeleteItems, Goto, RequestState
  <2>2. itemRows'[j] = IF j = request[r].inv THEN <<>> ELSE itemRows[j]
    BY <1>1, <1>8 DEF UpdateDeleteItems
  <2>3. CASE j = request[r].inv
    BY <2>1, <2>2, <2>3 DEF ItemsSound
  <2>4. CASE j # request[r].inv
    BY <1>1, <2>1, <2>2, <2>4 DEF ItemsSound
  <2>5. QED
    BY <2>3, <2>4
<1>9. ASSUME NEW r \in Request, UpdateWrite(r) PROVE ItemsSound(j)'
  <2>1. /\ request' = [request EXCEPT ![r] = Idle]
        /\ UNCHANGED <<status, failures>>
    BY <1>9 DEF UpdateWrite, Finish
  <2>2. CASE request[r].step = "update"
    BY <1>3, <1>4, <1>9, <2>1, <2>2 DEF UpdateWrite
  <2>3. CASE request[r].step = "rewrite" /\ request[r].inv = j
    <3>1. \A q \in Request : ~(request'[q].step = "rewrite" /\ request'[q].inv = j)
      BY <1>1, <1>4, <2>1, <2>3 DEF SoleHolder, RequestHolds, Holding
    <3>2. itemRows[j] = <<>>
      BY <1>1, <2>3 DEF ItemsSound
    <3>3. request[r].arg \in Int
      BY <1>1, <2>3 DEF WellFormed
    <3>4. itemRows'[j] = Append(itemRows[j], request[r].arg) /\ totalAmount'[j] = request[r].arg
      BY <1>1, <1>9, <2>3 DEF UpdateWrite
    <3>5. itemRows'[j] = <<totalAmount'[j]>>
      BY <3>2, <3>3, <3>4
    <3>6. QED
      BY <3>1, <3>5 DEF ItemsSound
  <2>4. CASE request[r].step = "rewrite" /\ request[r].inv # j
    <3>1. itemRows'[j] = itemRows[j] /\ totalAmount'[j] = totalAmount[j]
      BY <1>1, <1>9, <2>4 DEF UpdateWrite
    <3>2. \A q \in Request : request'[q].step = "rewrite" /\ request'[q].inv = j
               <=> request[q].step = "rewrite" /\ request[q].inv = j
      BY <1>4, <2>1, <2>4
    <3>3. QED
      BY <1>1, <2>1, <3>1, <3>2 DEF ItemsSound
  <2>5. QED
    BY <1>9, <2>2, <2>3, <2>4 DEF UpdateWrite
<1>10. ASSUME NEW r \in Request, SendWrite(r) \/ RemoveWrite(r) \/ PayWrite(r)
       PROVE  ItemsSound(j)'
  <2>1. request[r].step \in Holding \ {"rewrite"}
    BY <1>10 DEF SendWrite, RemoveWrite, PayWrite, Holding
  <2>2. UNCHANGED <<totalAmount, itemRows, failures>>
    BY <1>10 DEF SendWrite, RemoveWrite, PayWrite
  <2>3. status[j] = Absent => status'[j] = Absent
    <3>1. status[j] = Absent => j # request[r].inv
      BY <1>0, <1>1, <2>1, HolderSees
    <3>2. j # request[r].inv => status'[j] = status[j]
      BY <1>1, <1>10 DEF SendWrite, RemoveWrite, PayWrite
    <3>3. QED
      BY <3>1, <3>2
  <2>4. \A q \in Request : request'[q].step = "rewrite" /\ request'[q].inv = j
               <=> request[q].step = "rewrite" /\ request[q].inv = j
    <3>1. \A q \in Request : q # r => request'[q] = request[q]
      BY <1>1, <1>10 DEF SendWrite, RemoveWrite, PayWrite, Goto, Finish
    <3>2. request'[r].step # "rewrite"
      BY <1>1, <1>4, <1>10 DEF SendWrite, RemoveWrite, PayWrite, Goto, Finish, RequestState
    <3>3. QED
      BY <2>1, <3>1, <3>2
  <2>5. QED
    BY <1>1, <1>2, <2>2, <2>3, <2>4
<1>11. ASSUME NEW r \in Request, SendNotify(r) \/ PayNotify(r) PROVE ItemsSound(j)'
  BY <1>3, <1>4, <1>11 DEF SendNotify, PayNotify, Finish, row
<1>12. ASSUME NEW r \in Request, RequestFail(r) PROVE ItemsSound(j)'
  <2>1. /\ failures' > 0 /\ UNCHANGED <<status, totalAmount, itemRows>>
        /\ request' = [request EXCEPT ![r] = Idle]
    BY <1>1, <1>12 DEF RequestFail, Finish, row
  <2>2. QED
    BY <1>1, <1>4, <2>1 DEF ItemsSound
<1>13. ASSUME NEW w \in Sweeper, SweepSelect(w) \/ SweepRemind(w) \/ SweepFail(w)
       PROVE  ItemsSound(j)'
  BY <1>1, <1>2, <1>13 DEF SweepSelect, SweepRemind, SweepFail, row
<1>14. ASSUME NEW w \in Sweeper, NEW i \in Invoice, SweepMark(w, i) PROVE ItemsSound(j)'
  <2>1. status[j] = Absent => i # j
    BY <1>1, <1>14 DEF SweepMark, SnapshotFresh, Absent
  <2>2. QED
    BY <1>1, <1>2, <1>14, <2>1 DEF SweepMark
<1>15. CASE UNCHANGED vars
  BY <1>1, <1>2, <1>15 DEF vars, row
<1>16. QED
  BY <1>5, <1>6, <1>7, <1>8, <1>9, <1>10, <1>11, <1>12, <1>13, <1>14, <1>15, NextCases

\* The items of an invoice add up to its total, unless handlers overlapped on
\* it or update was caught between its two statements.
THEOREM ItemsAddUp == Spec => []ItemsMatchTotal
<1>1. Init => ItemsInv
  BY InitUncontended DEF Init, ItemsInv, ItemsSound, Idle, Absent
<1>2. ItemsInv => ItemsMatchTotal
  BY DEF ItemsInv, ItemsSound, ItemsMatchTotal
<1>3. QED
  BY <1>1, <1>2, NextItems, PTL DEF Spec

-----------------------------------------------------------------------------
(* AnnouncedOnce: a request that has written announces what it wrote, once, *)
(* and the status it announces is never written over.                       *)

Announces(r, i) ==
    /\ request[r].inv = i
    /\ \/ request[r].step = "notifySent"
       \/ request[r].step = "notifyPaid" /\ request[r].status = "PAID"

\* One announcement of either kind is made or about to be made, and only of
\* what is so.
AnnouncementsSound(i) ==
    /\ \A r1, r2 \in Request :
         Announces(r1, i) /\ Announces(r2, i) /\ request[r1].step = request[r2].step => r1 = r2
    /\ sentJobs[i] <= 1 /\ paidJobs[i] <= 1
    /\ \A r \in Request : Announces(r, i) =>
         IF request[r].step = "notifySent" THEN sentJobs[i] = 0 ELSE paidJobs[i] = 0
    /\ sentJobs[i] = 1 \/ (\E r \in Request : Announces(r, i) /\ request[r].step = "notifySent")
         => status[i] \notin {Absent, "DRAFT", "CANCELLED"}
    /\ paidJobs[i] = 1 \/ (\E r \in Request : Announces(r, i) /\ request[r].step = "notifyPaid")
         => status[i] = "PAID"

AnnouncedInv == UncontendedInv /\ \A i \in Invoice \ contended : AnnouncementsSound(i)

\* A status no announcement rests on yet, or one it may rest on for good.
Advances(i) ==
    /\ status[i] = "PAID" => status'[i] = "PAID"
    /\ status[i] \notin {Absent, "DRAFT", "CANCELLED"} =>
         status'[i] \notin {Absent, "DRAFT", "CANCELLED"}

LEMMA StatusAdvances ==
    ASSUME UncontendedInv, [Next]_vars, NEW i \in Invoice \ contended
    PROVE  Advances(i)
BY WritesAreGuarded DEF Advances

LEMMA NextAnnounced == AnnouncedInv /\ [Next]_vars => AnnouncedInv'
<1> SUFFICES ASSUME AnnouncedInv, [Next]_vars, NEW j \in Invoice \ contended'
             PROVE  AnnouncementsSound(j)'
  BY NextUncontended DEF AnnouncedInv
<1> USE DEF TypeInv, TypeOK
<1>0. j \notin contended /\ UncontendedInv
  BY ContendedGrows DEF AnnouncedInv
<1>1. TypeInv /\ AnnouncementsSound(j) /\ SnapshotFresh(j) /\ MoneyAgrees(j) /\ Advances(j)
  BY <1>0, StatusAdvances DEF AnnouncedInv, UncontendedInv, Sound
<1>a. sentJobs[j] \in Nat /\ paidJobs[j] \in Nat
  BY <1>1
\* Steps that announce nothing of j and take up no announcement of j.
<1>2. ASSUME sentJobs'[j] = sentJobs[j], paidJobs'[j] = paidJobs[j],
             \A r \in Request : Announces(r, j)' =>
                Announces(r, j) /\ request'[r].step = request[r].step
      PROVE  AnnouncementsSound(j)'
  BY <1>1, <1>2 DEF AnnouncementsSound, Advances
<1>3. ASSUME NEW r \in Request, UNCHANGED <<sentJobs, paidJobs>>,
             \A q \in Request : q # r => request'[q] = request[q],
             ~Announces(r, j)'
      PROVE  AnnouncementsSound(j)'
  BY <1>2, <1>3 DEF Announces
<1>4. ~(Idle.step \in Notifying)
  BY DEF Idle, Notifying
<1>5. ASSUME UNCHANGED <<sentJobs, paidJobs, request>> PROVE AnnouncementsSound(j)'
  BY <1>2, <1>5 DEF Announces
<1>6. CASE \E i \in Invoice : DueDatePasses(i) \/ \E t \in Total : Create(i, t)
  BY <1>5, <1>6 DEF DueDatePasses, Create, jobs
<1>7. ASSUME NEW r \in Request, NEW i \in Invoice,
             \/ \E t \in Total \cup {None} : UpdateRead(r, i, t)
             \/ \E a \in Amount : PayRead(r, i, a)
             \/ SendRead(r, i) \/ RemoveRead(r, i)
      PROVE  AnnouncementsSound(j)'
  <2>1. PICK step, a : step \in {"update", "pay", "send", "remove"} /\ Read(r, i, step, a)
    BY <1>7 DEF UpdateRead, PayRead, SendRead, RemoveRead
  <2>2. request'[r].step = step /\ UNCHANGED <<sentJobs, paidJobs>>
    BY <1>1, <2>1 DEF Read, jobs
  <2>3. \A q \in Request : q # r => request'[q] = request[q]
    BY <1>1, <2>1 DEF Read
  <2>4. QED
    BY <1>3, <2>1, <2>2, <2>3 DEF Announces
<1>8. ASSUME NEW r \in Request, UpdateDeleteItems(r) PROVE AnnouncementsSound(j)'
  <2>1. request'[r].step = "rewrite" /\ UNCHANGED <<sentJobs, paidJobs>>
    BY <1>1, <1>8 DEF UpdateDeleteItems, Goto, jobs, RequestState
  <2>2. \A q \in Request : q # r => request'[q] = request[q]
    BY <1>1, <1>8 DEF UpdateDeleteItems, Goto
  <2>3. QED
    BY <1>3, <2>1, <2>2 DEF Announces
<1>9. ASSUME NEW r \in Request, UpdateWrite(r) \/ RemoveWrite(r) \/ RequestFail(r)
      PROVE  AnnouncementsSound(j)'
  <2>1. request' = [request EXCEPT ![r] = Idle] /\ UNCHANGED <<sentJobs, paidJobs>>
    BY <1>9 DEF UpdateWrite, RemoveWrite, RequestFail, Finish, jobs
  <2>2. request'[r] = Idle /\ \A q \in Request : q # r => request'[q] = request[q]
    BY <1>1, <2>1
  <2>3. QED
    BY <1>3, <1>4, <2>1, <2>2 DEF Announces, Notifying
<1>10. ASSUME NEW r \in Request, SendWrite(r) PROVE AnnouncementsSound(j)'
  <2>1. /\ request'[r].step = "notifySent" /\ request'[r].inv = request[r].inv
        /\ \A q \in Request : q # r => request'[q] = request[q]
        /\ UNCHANGED <<sentJobs, paidJobs>>
    BY <1>1, <1>10 DEF SendWrite, Goto, jobs, RequestState
  <2>2. CASE request[r].inv # j
    BY <1>3, <2>1, <2>2 DEF Announces
  <2>3. CASE request[r].inv = j
    <3>1. status[j] = "DRAFT" /\ status'[j] = "SENT"
      BY <1>0, <1>1, <1>10, <2>3, HolderSees DEF SendWrite, Holding
    <3>2. sentJobs[j] = 0 /\ \A q \in Request : ~Announces(q, j)
      BY <1>1, <3>1 DEF AnnouncementsSound, Announces
    <3>3. paidJobs[j] = 0
      BY <1>1, <1>a, <3>1 DEF AnnouncementsSound
    <3>4. \A q \in Request : Announces(q, j)' => q = r
      BY <2>1, <3>2 DEF Announces
    <3>5. QED
      BY <2>1, <3>1, <3>2, <3>3, <3>4 DEF AnnouncementsSound, Absent
  <2>4. QED
    BY <2>2, <2>3
<1>11. ASSUME NEW r \in Request, PayWrite(r) PROVE AnnouncementsSound(j)'
  <2> DEFINE newStatus == StatusAfterPayment(request[r].status,
                             request[r].paid + request[r].arg, request[r].total)
  <2>1. request' = [request EXCEPT ![r] =
                      [request[r] EXCEPT !.step = "notifyPaid", !.status = newStatus]]
    BY <1>11 DEF PayWrite
  <2> HIDE DEF newStatus
  <2>2. /\ request'[r].step = "notifyPaid" /\ request'[r].inv = request[r].inv
        /\ request'[r].status = newStatus
        /\ \A q \in Request : q # r => request'[q] = request[q]
    BY <1>1, <2>1 DEF RequestState
  <2>3. UNCHANGED <<sentJobs, paidJobs>>
    BY <1>11 DEF PayWrite, jobs
  <2>4. CASE request[r].inv # j
    BY <1>3, <2>2, <2>3, <2>4 DEF Announces
  <2>5. CASE request[r].inv = j
    <3>1. status[j] # "PAID" /\ status'[j] = newStatus
      BY <1>0, <1>1, <1>11, <2>5, HolderSees DEF PayWrite, Holding, newStatus
    <3>2. paidJobs[j] = 0
      BY <1>1, <3>1 DEF AnnouncementsSound
    <3>3. \A q \in Request : Announces(q, j) => request[q].step = "notifySent"
      BY <1>1, <3>1 DEF AnnouncementsSound, Announces
    <3>4. \A q \in Request : Announces(q, j)' =>
             \/ q # r /\ Announces(q, j) /\ request'[q].step = "notifySent"
             \/ q = r /\ newStatus = "PAID"
      BY <2>2, <3>3 DEF Announces
    <3>5. request[r].step # "notifySent"
      BY <1>11 DEF PayWrite
    <3>6. QED
      BY <1>1, <2>2, <2>3, <3>1, <3>2, <3>4, <3>5 DEF AnnouncementsSound, Advances, Announces
  <2>6. QED
    BY <2>4, <2>5
<1>12. ASSUME NEW r \in Request, SendNotify(r) PROVE AnnouncementsSound(j)'
  <2>1. /\ request'[r] = Idle /\ \A q \in Request : q # r => request'[q] = request[q]
        /\ UNCHANGED paidJobs
    BY <1>1, <1>12 DEF SendNotify, Finish
  <2>2. \A q \in Request : Announces(q, j)' =>
          q # r /\ Announces(q, j) /\ request'[q].step = request[q].step
    BY <1>4, <2>1 DEF Announces, Notifying
  <2>3. CASE request[r].inv # j
    <3>1. sentJobs'[j] = sentJobs[j]
      BY <1>1, <1>12, <2>3 DEF SendNotify
    <3>2. QED
      BY <1>2, <2>1, <2>2, <3>1
  <2>4. CASE request[r].inv = j
    <3>1. Announces(r, j) /\ request[r].step = "notifySent"
      BY <1>12, <2>4 DEF SendNotify, Announces
    <3>2. sentJobs[j] = 0 /\ sentJobs'[j] = 1
      BY <1>1, <1>12, <2>4, <3>1 DEF SendNotify, AnnouncementsSound
    <3>3. \A q \in Request : Announces(q, j)' => request'[q].step # "notifySent"
      BY <1>1, <2>2, <3>1 DEF AnnouncementsSound
    <3>4. QED
      BY <1>1, <2>1, <2>2, <3>1, <3>2, <3>3 DEF AnnouncementsSound, Advances
  <2>5. QED
    BY <2>3, <2>4
<1>13. ASSUME NEW r \in Request, PayNotify(r) PROVE AnnouncementsSound(j)'
  <2>1. /\ request'[r] = Idle /\ \A q \in Request : q # r => request'[q] = request[q]
        /\ UNCHANGED sentJobs
    BY <1>1, <1>13 DEF PayNotify, Finish
  <2>2. \A q \in Request : Announces(q, j)' =>
          q # r /\ Announces(q, j) /\ request'[q].step = request[q].step
    BY <1>4, <2>1 DEF Announces, Notifying
  <2>3. CASE ~Announces(r, j)
    <3>1. paidJobs'[j] = paidJobs[j]
      BY <1>1, <1>13, <2>3 DEF PayNotify, Announces
    <3>2. QED
      BY <1>2, <2>1, <2>2, <3>1
  <2>4. CASE Announces(r, j)
    <3>1. request[r].step = "notifyPaid" /\ request[r].inv = j /\ request[r].status = "PAID"
      BY <1>13, <2>4 DEF PayNotify, Announces
    <3>2. paidJobs[j] = 0 /\ paidJobs'[j] = 1 /\ status[j] = "PAID"
      BY <1>1, <1>13, <2>4, <3>1 DEF PayNotify, AnnouncementsSound
    <3>3. \A q \in Request : Announces(q, j)' => request'[q].step # "notifyPaid"
      BY <1>1, <2>2, <2>4, <3>1 DEF AnnouncementsSound
    <3>4. status'[j] = "PAID" /\ UNCHANGED sentJobs
      BY <1>1, <2>1, <3>2 DEF Advances
    <3>5. \A q \in Request : Announces(q, j)' => Announces(q, j) /\ request[q].step = "notifySent"
      BY <2>2, <3>3 DEF Announces
    <3>6. \A q1, q2 \in Request : Announces(q1, j)' /\ Announces(q2, j)' => q1 = q2
      BY <1>1, <3>5 DEF AnnouncementsSound
    <3>7. \A q \in Request : Announces(q, j)' => sentJobs'[j] = 0 /\ request'[q].step = "notifySent"
      BY <1>1, <2>2, <3>4, <3>5 DEF AnnouncementsSound
    <3>8. sentJobs'[j] <= 1
      BY <1>1, <3>4 DEF AnnouncementsSound
    <3>9. QED
      BY <3>2, <3>4, <3>6, <3>7, <3>8 DEF AnnouncementsSound, Absent
  <2>5. QED
    BY <2>3, <2>4
<1>14. ASSUME NEW w \in Sweeper, \/ SweepSelect(w) \/ SweepRemind(w) \/ SweepFail(w)
                                 \/ \E i \in Invoice : SweepMark(w, i)
       PROVE  AnnouncementsSound(j)'
  BY <1>5, <1>14 DEF SweepSelect, SweepRemind, SweepFail, SweepMark, jobs
<1>15. CASE UNCHANGED vars
  BY <1>5, <1>15 DEF vars, jobs
<1>16. QED
  BY <1>6, <1>7, <1>8, <1>9, <1>10, <1>11, <1>12, <1>13, <1>14, <1>15, NextCases

\* An invoice on which handlers never overlapped goes out once, is announced as
\* paid once, and only when it is.
THEOREM AnnouncedAtMostOnce == Spec => []AnnouncedOnce
<1>1. Init => AnnouncedInv
  BY InitUncontended DEF Init, AnnouncedInv, AnnouncementsSound, Announces, Idle
<1>2. AnnouncedInv => AnnouncedOnce
  BY DEF AnnouncedInv, AnnouncementsSound, AnnouncedOnce
<1>3. QED
  BY <1>1, <1>2, NextAnnounced, PTL DEF Spec

-----------------------------------------------------------------------------
(* NoReminderLost: only a sweep writes OVERDUE, since no amount read was    *)
(* ever negative, and it keeps the invoice it marked until it announces it. *)

AmountsPositive ==
    /\ \A i \in Invoice : paidAmount[i] >= 0
    /\ \A r \in Request : request[r].paid >= 0

RemindedInv == TypeInv /\ AmountsPositive /\ NoReminderLost

LEMMA NextReminded == RemindedInv /\ [Next]_vars => RemindedInv'
<1> SUFFICES ASSUME RemindedInv, [Next]_vars PROVE AmountsPositive' /\ NoReminderLost'
  BY NextTypeInv DEF RemindedInv
<1> USE ConstantsAssumption DEF RemindedInv, TypeInv, TypeOK
<1>1. ASSUME UNCHANGED paidAmount,
             \A r \in Request : request'[r].paid \in {0, request[r].paid}
      PROVE  AmountsPositive'
  <2>1. \A r \in Request : request'[r].paid = 0 \/ request'[r].paid >= 0
    BY <1>1 DEF AmountsPositive
  <2>2. \A i \in Invoice : paidAmount'[i] >= 0
    BY <1>1 DEF AmountsPositive
  <2>3. QED
    BY <2>1, <2>2 DEF AmountsPositive
<1>2. ASSUME UNCHANGED <<reminded, unreminded, sweep>>,
             \A i \in Invoice : status'[i] = "OVERDUE" => status[i] = "OVERDUE"
      PROVE  NoReminderLost'
  BY <1>2 DEF NoReminderLost
<1>3. Idle.paid = 0
  BY DEF Idle
<1>4. CASE \E i \in Invoice : DueDatePasses(i) \/ \E t \in Total : Create(i, t)
  <2>1. UNCHANGED <<paidAmount, request, reminded, unreminded, sweep>>
    BY <1>4 DEF DueDatePasses, Create, jobs
  <2>2. \A i \in Invoice : status'[i] = "OVERDUE" => status[i] = "OVERDUE"
    BY <1>4 DEF DueDatePasses, Create
  <2>3. QED
    BY <1>1, <1>2, <2>1, <2>2
<1>5. ASSUME NEW r \in Request, NEW i \in Invoice,
             \/ \E t \in Total \cup {None} : UpdateRead(r, i, t)
             \/ \E a \in Amount : PayRead(r, i, a)
             \/ SendRead(r, i) \/ RemoveRead(r, i)
      PROVE  AmountsPositive' /\ NoReminderLost'
  <2>1. PICK step, a : step \in {"update", "pay", "send", "remove"} /\ Read(r, i, step, a)
    BY <1>5 DEF UpdateRead, PayRead, SendRead, RemoveRead
  <2>2. \A q \in Request : request'[q].paid = IF q = r THEN paidAmount[i] ELSE request[q].paid
    BY <2>1 DEF Read
  <2>3. UNCHANGED <<paidAmount, reminded, unreminded, sweep, status>>
    BY <2>1 DEF Read, row, jobs
  <2>4. AmountsPositive'
    BY <2>2, <2>3 DEF AmountsPositive
  <2>5. QED
    BY <1>2, <2>3, <2>4
<1>6. ASSUME NEW r \in Request,
             \/ UpdateDeleteItems(r) \/ UpdateWrite(r) \/ SendWrite(r) \/ SendNotify(r)
             \/ PayNotify(r) \/ RemoveWrite(r) \/ RequestFail(r)
      PROVE  AmountsPositive' /\ NoReminderLost'
  <2>1. UNCHANGED <<paidAmount, reminded, unreminded, sweep>>
    BY <1>6 DEF UpdateDeleteItems, UpdateWrite, SendWrite, SendNotify, PayNotify, RemoveWrite,
                RequestFail, row, jobs
  <2>2. \A i \in Invoice : status'[i] = "OVERDUE" => status[i] = "OVERDUE"
    BY <1>6 DEF UpdateDeleteItems, UpdateWrite, SendWrite, SendNotify, PayNotify, RemoveWrite,
                RequestFail, row
  <2>3. \/ \E step : request' = [request EXCEPT ![r].step = step]
        \/ request' = [request EXCEPT ![r] = Idle]
    BY <1>6 DEF UpdateDeleteItems, UpdateWrite, SendWrite, SendNotify, PayNotify, RemoveWrite,
                RequestFail, Goto, Finish
  <2>4. \A q \in Request : request'[q].paid \in {0, request[q].paid}
    <3>1. CASE \E step : request' = [request EXCEPT ![r].step = step]
      BY <3>1 DEF RequestState
    <3>2. CASE request' = [request EXCEPT ![r] = Idle]
      BY <1>3, <3>2
    <3>3. QED
      BY <2>3, <3>1, <3>2
  <2>5. QED
    BY <1>1, <1>2, <2>1, <2>2, <2>4
<1>7. ASSUME NEW r \in Request, PayWrite(r) PROVE AmountsPositive' /\ NoReminderLost'
  <2>1. request[r].paid >= 0 /\ request[r].arg \in Nat \ {0} /\ request[r].paid \in Int
    BY <1>7 DEF AmountsPositive, PayWrite, WellFormed, RequestState
  <2>2. /\ UNCHANGED <<reminded, unreminded, sweep>>
        /\ paidAmount' = [paidAmount EXCEPT ![request[r].inv] = request[r].paid + request[r].arg]
    BY <1>7 DEF PayWrite, jobs
  <2>3. \A i \in Invoice : i # request[r].inv => status'[i] = status[i]
    BY <1>7 DEF PayWrite
  <2>4. status'[request[r].inv] \in {"PAID", "PARTIAL"}
    BY <1>7, <2>1, PaymentPays
  <2>5. \A q \in Request : request'[q].paid = request[q].paid
    BY <1>7 DEF PayWrite, RequestState
  <2>6. \A i \in Invoice : paidAmount'[i] >= 0
    BY <2>1, <2>2 DEF AmountsPositive
  <2>7. AmountsPositive'
    BY <2>5, <2>6 DEF AmountsPositive
  <2>8. QED
    BY <1>2, <2>2, <2>3, <2>4, <2>7
<1>8. ASSUME NEW w \in Sweeper, SweepSelect(w) PROVE AmountsPositive' /\ NoReminderLost'
  <2>1. UNCHANGED <<paidAmount, request, reminded, unreminded, status>>
    BY <1>8 DEF SweepSelect, row, jobs
  <2>2. \A v \in Sweeper : sweep'[v].marked = sweep[v].marked
    BY <1>8 DEF SweepSelect, SweepState, Asleep
  <2>3. QED
    BY <1>1, <2>1, <2>2 DEF NoReminderLost
<1>9. ASSUME NEW w \in Sweeper, NEW k \in Invoice, SweepMark(w, k)
      PROVE  AmountsPositive' /\ NoReminderLost'
  <2>1. /\ UNCHANGED <<paidAmount, request>> /\ sweep[w].marked = None
        /\ \A i \in Invoice : i # k => /\ status'[i] = status[i] /\ reminded'[i] = reminded[i]
                                       /\ i \in unreminded => i \in unreminded'
    BY <1>9 DEF SweepMark
  <2>2. /\ sweep'[w].marked = k
        /\ \A v \in Sweeper : v # w => sweep'[v] = sweep[v]
    BY <1>9 DEF SweepMark, SweepState
  <2>3. ASSUME NEW i \in Invoice, status'[i] = "OVERDUE"
        PROVE  reminded'[i] \/ i \in unreminded' \/ \E v \in Sweeper : sweep'[v].marked = i
    <3>1. CASE i = k
      BY <2>2, <3>1
    <3>2. CASE i # k
      <4>1. reminded[i] \/ i \in unreminded \/ \E v \in Sweeper : sweep[v].marked = i
        BY <2>1, <2>3, <3>2 DEF NoReminderLost
      <4>2. sweep[w].marked # i
        BY <2>1
      <4>3. QED
        BY <2>1, <2>2, <3>2, <4>1, <4>2
    <3>3. QED
      BY <3>1, <3>2
  <2>4. QED
    BY <1>1, <2>1, <2>3 DEF NoReminderLost
<1>10. ASSUME NEW w \in Sweeper, SweepRemind(w) PROVE AmountsPositive' /\ NoReminderLost'
  <2>1. UNCHANGED <<paidAmount, request, status>>
    BY <1>10 DEF SweepRemind, row
  <2>2. \A i \in Invoice :
           IF i = sweep[w].marked THEN reminded'[i] \/ i \in unreminded'
           ELSE (reminded[i] => reminded'[i]) /\ (i \in unreminded => i \in unreminded')
    BY <1>10 DEF SweepRemind
  <2>3. \A v \in Sweeper : v # w => sweep'[v] = sweep[v]
    BY <1>10 DEF SweepRemind
  <2>4. NoReminderLost'
    BY <2>1, <2>2, <2>3 DEF NoReminderLost
  <2>5. QED
    BY <1>1, <2>1, <2>4
<1>11. ASSUME NEW w \in Sweeper, SweepFail(w) PROVE AmountsPositive' /\ NoReminderLost'
  <2>1. UNCHANGED <<paidAmount, request, status, reminded>>
    BY <1>11 DEF SweepFail, row
  <2>2. \A i \in Invoice : i \in unreminded \/ sweep[w].marked = i => i \in unreminded'
    BY <1>11 DEF SweepFail
  <2>3. \A v \in Sweeper : v # w => sweep'[v] = sweep[v]
    BY <1>11 DEF SweepFail
  <2>4. NoReminderLost'
    BY <2>1, <2>2, <2>3 DEF NoReminderLost
  <2>5. QED
    BY <1>1, <2>1, <2>4
<1>12. CASE UNCHANGED vars
  BY <1>1, <1>2, <1>12 DEF vars, row, jobs
<1>13. QED
  BY <1>4, <1>5, <1>6, <1>7, <1>8, <1>9, <1>10, <1>11, <1>12, NextCases

\* An invoice that is OVERDUE gets its reminder, whatever overlaps, unless the
\* sweep saw no phone or failed just between the mark and the reminder.
THEOREM RemindersAreSent == Spec => []NoReminderLost
<1>1. Init => RemindedInv
  BY InitTypeInv DEF Init, RemindedInv, AmountsPositive, NoReminderLost, Idle, Absent
<1>2. QED
  BY <1>1, NextReminded, PTL DEF Spec, RemindedInv

-----------------------------------------------------------------------------
(* Invoicing implements Ledger: while handlers do not overlap on an        *)
(* invoice, reading first and writing later cannot be told from one step.  *)

\* The money of the invoices other than i, and who contends for what, is kept.
OnlyAt(i) ==
    /\ contended' = contended
    /\ \A k \in Invoice : k # i => /\ status'[k] = status[k] /\ payments'[k] = payments[k]
                                   /\ totalAmount'[k] = totalAmount[k]

\* What happens to a contended invoice, the ledger does not see.
LEMMA ContendedIsHidden ==
    ASSUME NEW i \in Invoice, OnlyAt(i), i \in contended
    PROVE  UNCHANGED Account!vars
  BY DEF OnlyAt, Account!vars, Undisputed

\* The columns the ledger is made of are not written.
LEMMA NothingWritten ==
    ASSUME UNCHANGED <<status, totalAmount, payments, contended>>
    PROVE  UNCHANGED Account!vars
  BY DEF Account!vars, Undisputed

\* Reading: the invoices somebody else holds become disputed.
LEMMA ReadDisputes ==
    ASSUME NEW I \in SUBSET Invoice, UNCHANGED <<status, totalAmount, payments>>,
           contended' = contended \cup {i \in I : Held(i)}
    PROVE  Account!Next
<1>1. Account!Dispute({i \in I : Held(i)})
  BY DEF Account!Dispute, Undisputed
<1>2. {i \in I : Held(i)} \in SUBSET Invoice
  OBVIOUS
<1>3. QED
  BY <1>1, <1>2 DEF Account!Next

\* A write to an uncontended invoice is the step of the ledger its handler
\* stands for.
LEMMA WriteDraws ==
    ASSUME NEW i \in Invoice \ contended, NEW t \in Total, OnlyAt(i),
           status[i] \in {Absent, "DRAFT"}, status'[i] = "DRAFT", totalAmount'[i] = t,
           payments'[i] = payments[i]
    PROVE  Account!Next
<1>1. Account!Draw(i, t)
  BY DEF Account!Draw, Account!Become, Undisputed, OnlyAt, Absent
<1>2. QED
  BY <1>1 DEF Account!Next

LEMMA WriteMoves ==
    ASSUME NEW i \in Invoice \ contended, OnlyAt(i),
           totalAmount'[i] = totalAmount[i], payments'[i] = payments[i],
           \/ status[i] = "DRAFT" /\ status'[i] \in {"SENT", "CANCELLED"}
           \/ status[i] \in {"SENT", "PARTIAL"} /\ status'[i] = "OVERDUE"
    PROVE  Account!Next
<1>1. CASE status[i] = "DRAFT" /\ status'[i] = "SENT"
  <2>1. Account!Issue(i)
    BY <1>1 DEF Account!Issue, Account!Become, Undisputed, OnlyAt
  <2>2. QED
    BY <2>1 DEF Account!Next
<1>2. CASE status[i] = "DRAFT" /\ status'[i] = "CANCELLED"
  <2>1. Account!Withdraw(i)
    BY <1>2 DEF Account!Withdraw, Account!Become, Undisputed, OnlyAt
  <2>2. QED
    BY <2>1 DEF Account!Next
<1>3. CASE status[i] \in {"SENT", "PARTIAL"} /\ status'[i] = "OVERDUE"
  <2>1. Account!FallDue(i)
    BY <1>3 DEF Account!FallDue, Account!Become, Undisputed, OnlyAt
  <2>2. QED
    BY <2>1 DEF Account!Next
<1>4. QED
  BY <1>1, <1>2, <1>3

LEMMA WriteReceives ==
    ASSUME NEW i \in Invoice \ contended, NEW n \in Amount, OnlyAt(i),
           status[i] \notin {Absent, "PAID", "disputed"}, payments[i] + n <= totalAmount[i],
           totalAmount'[i] = totalAmount[i], payments'[i] = payments[i] + n,
           status'[i] = IF payments[i] + n = totalAmount[i] THEN "PAID" ELSE "PARTIAL"
    PROVE  Account!Next
<1>1. Account!Receive(i, n)
  BY DEF Account!Receive, Account!Become, Undisputed, OnlyAt, Absent
<1>2. QED
  BY <1>1 DEF Account!Next

-----------------------------------------------------------------------------
LEMMA InitLedger == Init => Account!Init
  BY DEF Init, Account!Init, Undisputed, Absent

LEMMA StepLedger == UncontendedInv /\ [Next]_vars => [Account!Next]_(Account!vars)
<1> SUFFICES ASSUME UncontendedInv, [Next]_vars
             PROVE  Account!Next \/ UNCHANGED Account!vars
  OBVIOUS
<1> USE ConstantsAssumption
<1> DEFINE Sees == Account!Next \/ UNCHANGED Account!vars
\* The holder of an uncontended invoice sees it as it is.
<1>1. ASSUME NEW r \in Request, request[r].step \in Holding
      PROVE  /\ request[r].inv \in Invoice
             /\ request[r].inv \notin contended =>
                   MoneyAgrees(request[r].inv) /\ SnapshotFresh(request[r].inv)
                   /\ RequestHolds(r, request[r].inv)
  BY <1>1 DEF UncontendedInv, Sound, TypeInv, WellFormed, RequestHolds, Holding
<1>2. ASSUME NEW r \in Request, NEW i \in Invoice, NEW step, NEW a, Read(r, i, step, a)
      PROVE  Sees
  BY <1>2, ReadDisputes DEF Read, ReadRows, row
<1>3. ASSUME NEW i \in Invoice, DueDatePasses(i) PROVE Sees
  BY <1>3, NothingWritten DEF DueDatePasses
<1>4. ASSUME NEW i \in Invoice, NEW t \in Total, Create(i, t) PROVE Sees
  <2>1. OnlyAt(i) /\ totalAmount'[i] = t /\ status[i] = Absent /\ status'[i] = "DRAFT"
                  /\ payments'[i] = payments[i]
    BY <1>4 DEF Create, OnlyAt, UncontendedInv, TypeInv, TypeOK
  <2>2. QED
    BY <2>1, ContendedIsHidden, WriteDraws
<1>5. ASSUME NEW r \in Request, NEW i \in Invoice, NEW t, UpdateRead(r, i, t) PROVE Sees
  BY <1>2, <1>5 DEF UpdateRead
<1>6. ASSUME NEW r \in Request, NEW i \in Invoice, NEW a, PayRead(r, i, a) PROVE Sees
  BY <1>2, <1>6 DEF PayRead
<1>7. ASSUME NEW r \in Request, NEW i \in Invoice, SendRead(r, i) \/ RemoveRead(r, i)
      PROVE  Sees
  BY <1>2, <1>7 DEF SendRead, RemoveRead
<1>8. ASSUME NEW r \in Request, UpdateDeleteItems(r) PROVE Sees
  BY <1>8, NothingWritten DEF UpdateDeleteItems
<1>9. ASSUME NEW r \in Request, UpdateWrite(r) PROVE Sees
  <2> DEFINE i == request[r].inv
  <2>1. CASE UNCHANGED totalAmount
    BY <1>9, <2>1, NothingWritten DEF UpdateWrite
  <2>2. CASE request[r].step = "rewrite" /\ totalAmount' = [totalAmount EXCEPT ![i] = request[r].arg]
    <3>1. i \in Invoice /\ request[r].arg \in Total
      BY <1>1, <2>2 DEF Holding, UncontendedInv, TypeInv, WellFormed
    <3>2. OnlyAt(i) /\ totalAmount'[i] = request[r].arg /\ status' = status /\ payments' = payments
      BY <1>9, <2>2, <3>1 DEF UpdateWrite, OnlyAt, UncontendedInv, TypeInv, TypeOK
    <3>3. i \notin contended => status[i] = "DRAFT"
      BY <1>1, <2>2 DEF Holding, SnapshotFresh
    <3>4. QED
      BY <3>1, <3>2, <3>3, ContendedIsHidden, WriteDraws
  <2>3. QED
    BY <1>9, <2>1, <2>2 DEF UpdateWrite
<1>10. ASSUME NEW r \in Request, SendWrite(r) \/ RemoveWrite(r) PROVE Sees
  <2> DEFINE i == request[r].inv
  <2>1. request[r].step \in Holding \ {"pay"}
    BY <1>10 DEF SendWrite, RemoveWrite, Holding
  <2>2. i \in Invoice /\ (i \notin contended => status[i] = "DRAFT")
    BY <1>1, <2>1 DEF SnapshotFresh
  <2>3. OnlyAt(i) /\ totalAmount' = totalAmount /\ payments' = payments
                  /\ status'[i] \in {"SENT", "CANCELLED"}
    BY <1>10, <2>2 DEF SendWrite, RemoveWrite, OnlyAt, UncontendedInv, TypeInv, TypeOK
  <2>4. QED
    BY <2>2, <2>3, ContendedIsHidden, WriteMoves
<1>11. ASSUME NEW r \in Request, PayWrite(r) PROVE Sees
  <2> DEFINE i == request[r].inv
             n == request[r].arg
  <2>1. i \in Invoice /\ n \in Amount /\ n \in Nat \ {0} /\ request[r].step = "pay"
    BY <1>1, <1>11 DEF PayWrite, Holding, UncontendedInv, TypeInv, WellFormed
  <2>2. OnlyAt(i) /\ totalAmount' = totalAmount /\ payments'[i] = payments[i] + n
    BY <1>11, <2>1 DEF PayWrite, OnlyAt, UncontendedInv, TypeInv, TypeOK
  <2>3. CASE i \notin contended
    <3>1. /\ request[r].paid = payments[i] /\ request[r].total = totalAmount[i]
          /\ request[r].status = status[i] /\ status[i] # "PAID"
          /\ payments[i] + n <= totalAmount[i]
      BY <1>1, <2>1, <2>3 DEF Holding, SnapshotFresh, MoneyAgrees
    <3>2. status[i] \notin {Absent, "PAID", "disputed"}
      <4>1. request[r].status \in Status
        BY <2>1 DEF UncontendedInv, TypeInv, TypeOK, RequestState
      <4>2. QED
        BY <3>1, <4>1 DEF Status, Absent
    <3>3. payments[i] \in Nat /\ totalAmount[i] \in Int
      BY <2>1 DEF UncontendedInv, TypeInv, TypeOK
    <3>4. status'[i] = StatusAfterPayment(request[r].status, payments[i] + n, totalAmount[i])
      BY <1>11, <2>1, <3>1 DEF PayWrite, UncontendedInv, TypeInv, TypeOK
    <3>5. status'[i] = IF payments[i] + n = totalAmount[i] THEN "PAID" ELSE "PARTIAL"
      BY <2>1, <3>3, <3>4 DEF StatusAfterPayment
    <3>6. QED
      BY <2>1, <2>2, <2>3, <3>1, <3>2, <3>5, WriteReceives
  <2>4. QED
    BY <2>1, <2>2, <2>3, ContendedIsHidden
<1>12. ASSUME NEW r \in Request, SendNotify(r) \/ PayNotify(r) \/ RequestFail(r) PROVE Sees
  BY <1>12, NothingWritten DEF SendNotify, PayNotify, RequestFail, row
<1>13. ASSUME NEW w \in Sweeper, SweepSelect(w) PROVE Sees
  BY <1>13, ReadDisputes DEF SweepSelect, ReadRows, row, Overdue
<1>14. ASSUME NEW w \in Sweeper, SweepRemind(w) \/ SweepFail(w) PROVE Sees
  BY <1>14, NothingWritten DEF SweepRemind, SweepFail, row
<1>15. ASSUME NEW w \in Sweeper, NEW i \in Invoice, SweepMark(w, i) PROVE Sees
  <2>1. OnlyAt(i) /\ totalAmount' = totalAmount /\ payments' = payments /\ status'[i] = "OVERDUE"
    BY <1>15 DEF SweepMark, OnlyAt, UncontendedInv, TypeInv, TypeOK
  <2>2. i \notin contended => status[i] \in {"SENT", "PARTIAL"}
    BY <1>15 DEF SweepMark, UncontendedInv, Sound, SnapshotFresh
  <2>3. QED
    BY <2>1, <2>2, ContendedIsHidden, WriteMoves
<1>16. CASE UNCHANGED vars
  BY <1>16, NothingWritten DEF vars, row
<1>17. QED
  BY <1>3, <1>4, <1>5, <1>6, <1>7, <1>8, <1>9, <1>10, <1>11, <1>12, <1>13, <1>14,
     <1>15, <1>16, NextCases

\* Reading first and writing later is invisible as long as no two handlers hold
\* the same invoice: what the code does to the books is what Ledger allows, one
\* step for one operation, failures included.
THEOREM InvoicingIsLedger == Spec => ImplementsLedger
<1>1. Init => UncontendedInv
  BY InitUncontended
<1>2. QED
  BY <1>1, InitLedger, StepLedger, NextUncontended, PTL DEF Spec, ImplementsLedger, Account!Spec
=============================================================================
