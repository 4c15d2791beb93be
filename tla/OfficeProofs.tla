---------------------------- MODULE OfficeProofs ----------------------------
(***************************************************************************)
(* What Office promises, for every step of its parts. Each part has an     *)
(* inductive invariant of its own: the steps of the others leave its       *)
(* variables alone.                                                        *)
(***************************************************************************)
EXTENDS Office, Sums, Sequences

(***************************************************************************)
(* Payroll: paid months, their salary slips and the staff who leave        *)
(***************************************************************************)

RequestState ==
    [op : {"idle", "process", "insert", "queue", "edit", "payAll", "paySingle", "slips",
           "notify", "draw", "terminate"},
     todo : SUBSET Staff, salary : [Staff -> Basic] \cup {<<>>}, at : Staff \cup {None},
     read : Nat, bonus : Bonus \cup {0}]

\* What a request remembers, at each of its steps.
WellFormed(q) ==
    /\ q.op \in {"process", "insert", "queue"} => q.salary \in [Staff -> Basic] /\ q.bonus \in Bonus
    /\ q.op = "edit" => q.bonus \in Bonus
    /\ q.op = "insert" => q.read \in Half
    /\ q.op \in {"insert", "terminate"} => q.at \in Staff
    /\ q.op \in {"queue", "edit", "paySingle", "draw"} => q.at \in P!Rows
    /\ q.op \in {"payAll", "paySingle", "slips"} => q.todo \subseteq P!Rows

RequestsTyped ==
    /\ payrollReq \in [Request -> RequestState]
    /\ \A r \in Request : WellFormed(payrollReq[r])
SlipsTyped ==
    /\ slip \in [Staff -> Nat \cup {None}] /\ slipJobs \in [Staff -> [P!Tries -> Nat]]
    /\ job \in [Worker -> (Staff \X Nat \X P!Tries) \cup {None}]
    /\ \A s \in Staff : P!Waiting(s) => s \in P!Rows
    /\ \A w \in Worker : job[w] # None => job[w][1] \in P!Rows
StaffTyped ==
    /\ salary \in [Staff -> Basic] /\ present \in [Staff -> Half]
    /\ employed \in [Staff -> BOOLEAN]
RowsTyped == row \in [Staff -> P!PayrollRow \cup {None}]
HistoryTyped == raced \subseteq Staff /\ late \subseteq Staff /\ undrawn \subseteq Staff

PayTypeInv == StaffTyped /\ RowsTyped /\ SlipsTyped /\ RequestsTyped /\ HistoryTyped

-----------------------------------------------------------------------------
(* The arithmetic *)

\* A sum depends on what is summed, and on nothing else of the rows.
NetOf(f, S) == P!MapThenSumSet(LAMBDA s : f[s].net, S)
LEMMA SumSame ==
    ASSUME NEW f, NEW g, NEW S, \A x \in S : f[x].net = g[x].net
    PROVE  NetOf(f, S) = NetOf(g, S)
<1> DEFINE First(s) == CHOOSE x \in s : TRUE
           Body(h, iter) == [s \in SUBSET S |->
                               IF s = {} THEN 0 ELSE h[First(s)].net + iter[s \ {First(s)}]]
<1>1. \A s \in SUBSET S : s # {} => First(s) \in S
  OBVIOUS
<1>2. \A iter : Body(f, iter) = Body(g, iter)
  BY <1>1
<1>3. \A iter : iter = Body(f, iter) <=> iter = Body(g, iter)
  BY <1>2
<1>4. (CHOOSE iter : iter = Body(f, iter)) = (CHOOSE iter : iter = Body(g, iter))
  BY <1>3
<1>5. NetOf(f, S) = (CHOOSE iter : iter = Body(f, iter))[S]
  BY DEF NetOf, P!MapThenSumSet, P!MapThenFoldSet
<1>6. NetOf(g, S) = (CHOOSE iter : iter = Body(g, iter))[S]
  BY DEF NetOf, P!MapThenSumSet, P!MapThenFoldSet
<1> QED BY <1>4, <1>5, <1>6

LEMMA RoundedType ==
    ASSUME NEW n \in Nat, NEW d \in Nat \ {0}, NEW tie
    PROVE  P!Rounded(n, d, tie) \in Nat
BY DEF P!Rounded

\* Nobody is paid less than nothing while nothing is deducted.
LEMMA PayType ==
    ASSUME P!PayrollAssumption, NEW basic \in Nat, NEW half \in Nat, NEW bonus \in Nat
    PROVE  P!Pay(basic, half, bonus).net \in Nat
BY RoundedType DEF P!Pay, P!Calculate, P!CoreCalculate, P!Salary, P!PayrollAssumption

-----------------------------------------------------------------------------
(* Types *)

LEMMA InitTyped == P!Init => PayTypeInv
BY DEF P!Init, PayTypeInv, StaffTyped, RowsTyped, SlipsTyped, RequestsTyped, HistoryTyped, P!Idle,
       RequestState, WellFormed, P!Tries, P!Waiting

\* What a step does to one request; rows are never deleted.
PayBecomes(r, x) == payrollReq' = [payrollReq EXCEPT ![r] = x]

LEMMA RequestMoves ==
    ASSUME RequestsTyped, NEW r \in Request, NEW x \in RequestState, PayBecomes(r, x),
           P!Rows \subseteq P!Rows', WellFormed(x)'
    PROVE  RequestsTyped'
<1>1. payrollReq' \in [Request -> RequestState] /\ payrollReq'[r] = x /\ \A q \in Request \ {r} : payrollReq'[q] = payrollReq[q]
  BY DEF PayBecomes, RequestsTyped
<1>2. \A q \in Request \ {r} : WellFormed(payrollReq[q])'
  BY <1>1 DEF WellFormed, RequestsTyped
<1> QED BY <1>1, <1>2 DEF RequestsTyped

LEMMA RequestEnds ==
    ASSUME RequestsTyped, NEW r \in Request, P!Finish(r), P!Rows \subseteq P!Rows'
    PROVE  RequestsTyped'
<1>1. P!Idle \in RequestState /\ WellFormed(P!Idle)'
  BY DEF P!Idle, RequestState, WellFormed
<1>2. PayBecomes(r, P!Idle)
  BY DEF P!Finish, PayBecomes
<1> QED BY <1>1, <1>2, RequestMoves

\* One row changes, to a row.
LEMMA RowChanges ==
    ASSUME P!PayrollAssumption, RowsTyped, NEW s \in Staff, NEW x \in P!PayrollRow,
           row' = [row EXCEPT ![s] = x]
    PROVE  RowsTyped' /\ P!Rows' = P!Rows \cup {s} /\ row'[s] = x
           /\ \A t \in Staff \ {s} : row'[t] = row[t]
BY DEF RowsTyped, P!Rows, P!PayrollAssumption

LEMMA Edited ==
    ASSUME P!PayrollAssumption, PayTypeInv, NEW r \in Request, P!EditWrite(r)
    PROVE  /\ payrollReq[r].at \in P!Rows /\ RowsTyped' /\ P!Rows' = P!Rows
           /\ row'[payrollReq[r].at].status = row[payrollReq[r].at].status
           /\ row'[payrollReq[r].at].url = row[payrollReq[r].at].url
           /\ \A t \in Staff \ {payrollReq[r].at} : row'[t] = row[t]
<1> DEFINE s == payrollReq[r].at  x == [row[s] EXCEPT !.bonus = payrollReq[r].bonus, !.net = payrollReq[r].read]
<1>1. s \in P!Rows /\ payrollReq[r].bonus \in Bonus /\ payrollReq[r].read \in Nat
  BY DEF P!EditWrite, PayTypeInv, RequestsTyped, WellFormed, RequestState
<1>2. row[s] \in P!PayrollRow /\ s \in Staff
  BY <1>1 DEF PayTypeInv, RowsTyped, P!Rows
<1>3. x \in P!PayrollRow /\ x.status = row[s].status /\ x.url = row[s].url
  BY <1>1, <1>2 DEF P!PayrollRow
<1>4. row' = [row EXCEPT ![s] = x]
  BY <1>2 DEF P!EditWrite, PayTypeInv, RowsTyped
<1> HIDE DEF x
<1>5. RowsTyped' /\ P!Rows' = P!Rows \cup {s} /\ row'[s] = x /\ \A t \in Staff \ {s} : row'[t] = row[t]
  <2>1. PICK y \in P!PayrollRow, t \in Staff : y = x /\ t = s
    BY <1>2, <1>3
  <2>2. row' = [row EXCEPT ![t] = y] /\ RowsTyped
    BY <1>4, <2>1 DEF PayTypeInv
  <2>3. RowsTyped' /\ P!Rows' = P!Rows \cup {t} /\ row'[t] = y /\ \A u \in Staff \ {t} : row'[u] = row[u]
    BY <2>2, RowChanges
  <2> QED BY <2>1, <2>3
<1> QED BY <1>1, <1>3, <1>5

\* Storing a link, or losing it, changes nothing else of a row.
LEMMA Linked ==
    ASSUME P!PayrollAssumption, PayTypeInv, NEW s \in P!Rows,
           NEW url \in {"signed", "dead", "public"}, row' = [row EXCEPT ![s].url = url]
    PROVE  /\ RowsTyped' /\ P!Rows' = P!Rows /\ row'[s].url = url
           /\ row'[s].status = row[s].status /\ row'[s].net = row[s].net
           /\ row'[s].bonus = row[s].bonus
           /\ \A t \in Staff \ {s} : row'[t] = row[t]
<1>1. row[s] \in P!PayrollRow /\ s \in Staff
  BY DEF PayTypeInv, RowsTyped, P!Rows
<1>2. PICK x \in P!PayrollRow : x = [row[s] EXCEPT !.url = url]
  BY <1>1 DEF P!PayrollRow
<1>3. row' = [row EXCEPT ![s] = x] /\ RowsTyped
  BY <1>2 DEF PayTypeInv
<1>4. /\ RowsTyped' /\ P!Rows' = P!Rows \cup {s} /\ row'[s] = x
      /\ \A t \in Staff \ {s} : row'[t] = row[t]
  BY <1>1, <1>3, RowChanges
<1>5. x.url = url /\ x.status = row[s].status /\ x.net = row[s].net /\ x.bonus = row[s].bonus
  BY <1>1, <1>2 DEF P!PayrollRow
<1> QED BY <1>4, <1>5

LEMMA Inserted ==
    ASSUME P!PayrollAssumption, PayTypeInv, NEW r \in Request, P!ProcessInsert(r),
           payrollReq[r].at \notin P!Rows
    PROVE  /\ RowsTyped' /\ P!Rows' = P!Rows \cup {payrollReq[r].at} /\ payrollReq[r].at \in Staff
           /\ row'[payrollReq[r].at].status = "DRAFT"
           /\ \A t \in Staff \ {payrollReq[r].at} : row'[t] = row[t]
<1> DEFINE q == payrollReq[r]  s == q.at  x == P!NewRow(q.salary[s], q.read, q.bonus)
<1>1. /\ q.salary \in [Staff -> Basic] /\ q.read \in Half /\ q.bonus \in Bonus /\ s \in Staff
      /\ RowsTyped
  BY DEF P!ProcessInsert, PayTypeInv, RequestsTyped, WellFormed
<1>2. q.salary[s] \in Nat /\ q.read \in Nat /\ q.bonus \in Nat
  BY <1>1 DEF P!PayrollAssumption
<1>3. PICK b \in Nat, h \in Nat, n \in Nat : b = q.salary[s] /\ h = q.read /\ n = q.bonus
  BY <1>2
<1>4. P!Pay(b, h, n).net \in Nat
  BY <1>3, PayType
<1>5. P!NewRow(b, h, n) \in P!PayrollRow /\ P!NewRow(b, h, n).status = "DRAFT"
  BY <1>1, <1>3, <1>4 DEF P!NewRow, P!PayrollRow
<1>6. row' = [row EXCEPT ![s] = P!NewRow(b, h, n)]
  BY <1>3 DEF P!ProcessInsert
<1>7. PICK y \in P!PayrollRow, t \in Staff : y = P!NewRow(b, h, n) /\ t = s
  BY <1>1, <1>5
<1>8. /\ RowsTyped' /\ P!Rows' = P!Rows \cup {t} /\ row'[t] = y
      /\ \A u \in Staff \ {t} : row'[u] = row[u]
  <2>1. row' = [row EXCEPT ![t] = y]
    BY <1>6, <1>7
  <2> QED BY <1>1, <2>1, RowChanges
<1> QED BY <1>1, <1>5, <1>7, <1>8

LEMMA PaidOff ==
    ASSUME P!PayrollAssumption, PayTypeInv, NEW r \in Request, P!PayWrite(r)
    PROVE  /\ RowsTyped' /\ P!Rows' = P!Rows
           /\ \A s \in P!Rows : /\ row'[s].net = row[s].net /\ row'[s].bonus = row[s].bonus
                                /\ row'[s].url = row[s].url
                                /\ row[s].status = "PAID" => row'[s].status = "PAID"
           /\ \A s \in P!Paid' \ P!Paid : s \in raced' \/ s \in payrollReq[r].todo
           /\ \A s \in P!Paid' \ P!Paid : P!InHand("edit", s) \/ P!BeingDrawn(s) => s \in raced'
           /\ raced \subseteq raced' /\ raced' \subseteq Staff
<1> DEFINE paying == IF payrollReq[r].op = "payAll" THEN P!Drafts ELSE {payrollReq[r].at}
<1>1. paying \subseteq P!Rows
  BY DEF P!PayWrite, PayTypeInv, RequestsTyped, WellFormed, P!Drafts
<1>2. /\ \A s \in paying : row'[s] = [row[s] EXCEPT !.status = "PAID"]
      /\ \A s \in Staff \ paying : row'[s] = row[s]
      /\ row' = [s \in Staff |-> IF s \in paying THEN [row[s] EXCEPT !.status = "PAID"] ELSE row[s]]
      /\ raced' = raced \cup (paying \ payrollReq[r].todo)
                     \cup {s \in paying : P!InHand("edit", s) \/ P!BeingDrawn(s)}
  BY <1>1 DEF P!PayWrite, P!Rows
<1> HIDE DEF paying
<1>3. \A s \in P!Rows : row[s] \in P!PayrollRow /\ s \in Staff
  BY DEF PayTypeInv, RowsTyped, P!Rows
<1>4. \A s \in paying : /\ row'[s] \in P!PayrollRow /\ row'[s].net = row[s].net
                        /\ row'[s].bonus = row[s].bonus /\ row'[s].url = row[s].url
                        /\ row'[s].status = "PAID"
  BY <1>1, <1>2, <1>3 DEF P!PayrollRow
<1>5. RowsTyped'
  BY <1>2, <1>4 DEF PayTypeInv, RowsTyped
<1>6. P!Rows' = P!Rows
  BY <1>1, <1>2, <1>4 DEF P!Rows, P!PayrollAssumption
<1>7. \A s \in P!Paid' \ P!Paid : s \in paying
  BY <1>2, <1>6 DEF P!Paid, P!Rows
<1>8. raced' \subseteq Staff /\ raced \subseteq raced'
  BY <1>1, <1>2, <1>3 DEF PayTypeInv, HistoryTyped
<1>9. \A s \in P!Rows : /\ row'[s].net = row[s].net /\ row'[s].bonus = row[s].bonus
                        /\ row'[s].url = row[s].url
                        /\ row[s].status = "PAID" => row'[s].status = "PAID"
  BY <1>2, <1>3, <1>4
<1> QED BY <1>2, <1>5, <1>6, <1>7, <1>8, <1>9

\* The links: which rows they are of.
LEMMA LinkSteps ==
    ASSUME PayTypeInv
    PROVE  /\ \A r \in Request : P!StoreSlip(r) => payrollReq[r].at \in P!Rows
           /\ \A w \in Worker : P!SlipWrite(w) => job[w][1] \in P!Rows
BY DEF PayTypeInv, RequestsTyped, SlipsTyped, WellFormed, P!StoreSlip, P!SlipWrite

LEMMA RowsStep ==
    ASSUME P!PayrollAssumption, PayTypeInv, [P!Next]_(P!vars)
    PROVE  RowsTyped' /\ P!Rows \subseteq P!Rows'
<1>1. CASE \E r \in Request : P!EditWrite(r) \/ P!PayWrite(r)
  BY <1>1, Edited, PaidOff
<1>2. CASE \E r \in Request : P!ProcessInsert(r)
  <2>1. PICK r \in Request : P!ProcessInsert(r)
    BY <1>2
  <2>2. CASE payrollReq[r].at \in P!Rows
    BY <2>1, <2>2 DEF P!ProcessInsert, P!Rows, RowsTyped, PayTypeInv
  <2>3. CASE payrollReq[r].at \notin P!Rows
    BY <2>1, <2>3, Inserted
  <2> QED BY <2>2, <2>3
<1>3. CASE \E r \in Request : P!StoreSlip(r)
  BY <1>3, LinkSteps, Linked DEF P!StoreSlip
<1>4. CASE \E w \in Worker : P!SlipWrite(w)
  BY <1>4, LinkSteps, Linked DEF P!SlipWrite
<1>5. CASE \E s \in Staff : P!LinkExpires(s)
  BY <1>5, Linked DEF P!LinkExpires
<1>6. CASE row' = row
  BY <1>6 DEF PayTypeInv, RowsTyped, P!Rows
<1> QED
  BY <1>1, <1>2, <1>3, <1>4, <1>5, <1>6
     DEF P!Next, P!Step, P!vars, P!ProcessRead, P!ProcessLookup, P!QueueSlip, P!Done, P!EditRead, P!PayAllRead,
         P!PaySingleRead, P!PayQueue, P!GetSlip, P!SlipRead, P!SlipFail, P!SetSalary, P!TerminateRead,
         P!TerminateWrite, P!Die

\* A new request remembers the salaries of the day.
LEMMA RequestStarts ==
    ASSUME PayTypeInv, NEW r \in Request, NEW op, NEW todo \in SUBSET Staff,
           NEW at \in Staff \cup {None}, NEW read \in Nat, NEW bonus \in Bonus \cup {0},
           P!Start(r, op, todo, at, read, bonus), P!Rows \subseteq P!Rows',
           \/ op = "process" /\ bonus \in Bonus
           \/ op = "edit" /\ at \in P!Rows /\ bonus \in Bonus
           \/ op = "payAll" /\ todo \subseteq P!Rows
           \/ op = "paySingle" /\ at \in P!Rows /\ todo \subseteq P!Rows
           \/ op = "draw" /\ at \in P!Rows
           \/ op = "terminate" /\ at \in Staff
    PROVE  RequestsTyped'
<1>1. PICK x \in RequestState :
        /\ x.op = op /\ x.todo = todo /\ x.at = at /\ x.read = read /\ x.bonus = bonus
        /\ x.salary = salary
        /\ x = [op |-> op, todo |-> todo, salary |-> salary, at |-> at, read |-> read,
                bonus |-> bonus]
  BY DEF RequestState, PayTypeInv, StaffTyped
<1>2. PayBecomes(r, x)
  BY <1>1 DEF P!Start, PayBecomes
<1>3. WellFormed(x)'
  BY <1>1 DEF WellFormed, PayTypeInv, StaffTyped
<1> QED BY <1>2, <1>3, RequestMoves DEF PayTypeInv

\* A request goes on: what each step leaves of it.
Others(r) == \A q \in Request \ {r} : payrollReq'[q] = payrollReq[q]
GoesOn(r, op, at, todo) ==
    /\ RequestsTyped' /\ Others(r)
    /\ payrollReq'[r].op = op /\ payrollReq'[r].at = at /\ payrollReq'[r].todo = todo

LEMMA LookupGoesOn ==
    ASSUME P!PayrollAssumption, PayTypeInv, NEW r \in Request, P!ProcessLookup(r),
           P!Rows \subseteq P!Rows'
    PROVE  /\ payrollReq[r].op = "process"
           /\ \E s \in payrollReq[r].todo : \E op \in {"process", "insert"} :
                GoesOn(r, op, s, payrollReq[r].todo \ {s})
<1>1. payrollReq[r] \in RequestState /\ WellFormed(payrollReq[r]) /\ payrollReq \in [Request -> RequestState]
  BY DEF PayTypeInv, RequestsTyped
<1>2. PICK s \in payrollReq[r].todo :
        /\ payrollReq' = [payrollReq EXCEPT ![r].todo = @ \ {s},
                                            ![r].op = IF s \in P!Rows THEN @ ELSE "insert",
                                            ![r].at = s, ![r].read = present[s]]
        /\ payrollReq[r].op = "process"
  BY DEF P!ProcessLookup
<1>3. present[s] \in Half /\ present[s] \in Nat /\ s \in Staff
  BY <1>1 DEF PayTypeInv, StaffTyped, RequestState, P!PayrollAssumption
<1>4. PICK op \in {"process", "insert"} : op = IF s \in P!Rows THEN "process" ELSE "insert"
  OBVIOUS
<1>a. PICK left \in SUBSET Staff, read \in Nat :
        left = payrollReq[r].todo \ {s} /\ read = present[s] /\ read \in Half
  BY <1>1, <1>3 DEF RequestState
<1>5. PICK x \in RequestState :
        /\ x = [payrollReq[r] EXCEPT !.todo = left, !.op = op, !.at = s, !.read = read]
        /\ x.op = op /\ x.at = s /\ x.todo = left /\ x.read = read
        /\ x.salary = payrollReq[r].salary /\ x.bonus = payrollReq[r].bonus
  <2>1. PICK x : x = [payrollReq[r] EXCEPT !.todo = left, !.op = op, !.at = s, !.read = read]
    OBVIOUS
  <2>2. x \in RequestState
    BY <1>1, <1>3, <1>a, <2>1 DEF RequestState
  <2>3. /\ x.op = op /\ x.at = s /\ x.todo = left /\ x.read = read
        /\ x.salary = payrollReq[r].salary /\ x.bonus = payrollReq[r].bonus
    BY <1>1, <2>1 DEF RequestState
  <2> QED BY <2>1, <2>2, <2>3
<1>6. PayBecomes(r, x)
  BY <1>1, <1>2, <1>4, <1>5, <1>a DEF PayBecomes
<1>7. WellFormed(x)'
  BY <1>1, <1>2, <1>3, <1>5, <1>a DEF WellFormed
<1>8. GoesOn(r, op, s, payrollReq[r].todo \ {s})
  BY <1>1, <1>5, <1>a, <1>6, <1>7, RequestMoves DEF PayBecomes, GoesOn, Others, PayTypeInv
<1> QED BY <1>2, <1>8

LEMMA OpGoesOn ==
    ASSUME PayTypeInv, NEW r \in Request, NEW op \in {"queue", "process", "slips"},
           payrollReq' = [payrollReq EXCEPT ![r].op = op], P!Rows \subseteq P!Rows',
           \/ op = "queue" /\ payrollReq[r].op = "insert" /\ payrollReq[r].at \in P!Rows'
           \/ op = "process" /\ payrollReq[r].op = "queue"
           \/ op = "slips" /\ payrollReq[r].op \in {"payAll", "paySingle"}
    PROVE  GoesOn(r, op, payrollReq[r].at, payrollReq[r].todo)
<1>1. payrollReq[r] \in RequestState /\ WellFormed(payrollReq[r]) /\ payrollReq \in [Request -> RequestState]
  BY DEF PayTypeInv, RequestsTyped
<1>2. PICK x \in RequestState :
        /\ x = [payrollReq[r] EXCEPT !.op = op]
        /\ x.op = op /\ x.at = payrollReq[r].at /\ x.todo = payrollReq[r].todo
        /\ x.salary = payrollReq[r].salary /\ x.bonus = payrollReq[r].bonus
  BY <1>1 DEF RequestState
<1>3. PayBecomes(r, x)
  BY <1>1, <1>2 DEF PayBecomes
<1>4. WellFormed(x)'
  BY <1>1, <1>2 DEF WellFormed
<1> QED BY <1>1, <1>2, <1>3, <1>4, RequestMoves DEF PayBecomes, GoesOn, Others, PayTypeInv

LEMMA SlipsGoOn ==
    ASSUME PayTypeInv, NEW r \in Request, P!PayQueue(r)
    PROVE  /\ payrollReq[r].op = "slips"
           /\ \E s \in payrollReq[r].todo :
                /\ s \in P!Rows /\ P!AddSlipJob(s, 0)
                /\ \E op \in {"slips", "notify"} :
                     /\ op = IF payrollReq[r].todo = {s} THEN "notify" ELSE "slips"
                     /\ GoesOn(r, op, payrollReq[r].at, payrollReq[r].todo \ {s})
<1>1. payrollReq[r] \in RequestState /\ WellFormed(payrollReq[r]) /\ payrollReq \in [Request -> RequestState]
  BY DEF PayTypeInv, RequestsTyped
<1>2. PICK s \in payrollReq[r].todo :
        /\ payrollReq' = [payrollReq EXCEPT ![r].todo = @ \ {s},
                                            ![r].op = IF payrollReq[r].todo = {s} THEN "notify" ELSE @]
        /\ P!AddSlipJob(s, 0) /\ payrollReq[r].op = "slips"
        /\ UNCHANGED row
  BY DEF P!PayQueue
<1>3. PICK op \in {"slips", "notify"} : op = IF payrollReq[r].todo = {s} THEN "notify" ELSE "slips"
  OBVIOUS
<1>a. PICK left \in SUBSET Staff : left = payrollReq[r].todo \ {s}
  BY <1>1 DEF RequestState
<1>4. PICK x \in RequestState :
        /\ x = [payrollReq[r] EXCEPT !.todo = left, !.op = op]
        /\ x.op = op /\ x.at = payrollReq[r].at /\ x.todo = left
  <2>1. PICK x : x = [payrollReq[r] EXCEPT !.todo = left, !.op = op]
    OBVIOUS
  <2>2. x \in RequestState /\ x.op = op /\ x.at = payrollReq[r].at /\ x.todo = left
    BY <1>1, <2>1 DEF RequestState
  <2> QED BY <2>1, <2>2
<1>5. PayBecomes(r, x)
  BY <1>1, <1>2, <1>3, <1>4, <1>a DEF PayBecomes
<1>6. WellFormed(x)' /\ s \in P!Rows /\ P!Rows' = P!Rows
  BY <1>1, <1>2, <1>4, <1>a DEF WellFormed, P!Rows
<1>7. GoesOn(r, op, payrollReq[r].at, payrollReq[r].todo \ {s})
  BY <1>1, <1>4, <1>5, <1>6, <1>a, RequestMoves DEF PayBecomes, GoesOn, Others, PayTypeInv
<1> QED BY <1>2, <1>3, <1>6, <1>7

-----------------------------------------------------------------------------
LEMMA RequestsStep ==
    ASSUME P!PayrollAssumption, PayTypeInv, [P!Next]_(P!vars)
    PROVE  RequestsTyped'
<1>0. P!Rows \subseteq P!Rows' /\ \A s \in P!Rows : s \in Staff /\ row[s].net \in Nat /\ row[s].days \in Nat
  BY RowsStep DEF P!Rows, PayTypeInv, RowsTyped, P!PayrollRow
<1>1. CASE UNCHANGED payrollReq
  BY <1>0, <1>1 DEF PayTypeInv, RequestsTyped, WellFormed
<1>2. ASSUME NEW r \in Request, P!Finish(r)
      PROVE  RequestsTyped'
    BY <1>0, <1>2, RequestEnds DEF PayTypeInv
<1>3. ASSUME NEW r \in Request, P!Step(r)
      PROVE  RequestsTyped'
  <2>1. CASE P!ProcessLookup(r)
    BY <1>0, <2>1, LookupGoesOn DEF GoesOn
  <2>2. CASE P!ProcessInsert(r) /\ payrollReq[r].at \notin P!Rows
    <3>1. payrollReq[r].at \in P!Rows' /\ payrollReq' = [payrollReq EXCEPT ![r].op = "queue"] /\ payrollReq[r].op = "insert"
      BY <2>2, Inserted DEF P!ProcessInsert
    <3> QED BY <1>0, <3>1, OpGoesOn DEF GoesOn
  <2>3. CASE P!QueueSlip(r) \/ P!PayWrite(r)
    BY <1>0, <2>3, OpGoesOn DEF P!QueueSlip, P!PayWrite, GoesOn
  <2>4. CASE P!PayQueue(r)
    BY <2>4, SlipsGoOn DEF GoesOn
  <2> QED
    BY <1>2, <1>3, <2>1, <2>2, <2>3, <2>4
       DEF P!Step, P!ProcessInsert, P!Done, P!EditWrite, P!StoreSlip, P!TerminateWrite
<1>4. ASSUME NEW r \in Request, NEW b \in Bonus, NEW asked \in SUBSET Staff,
             P!ProcessRead(r, asked, b)
      PROVE  RequestsTyped'
  <2>1. PICK list \in SUBSET Staff : P!Start(r, "process", list, None, 0, b)
    BY <1>4 DEF P!ProcessRead
  <2> QED BY <1>0, <2>1, RequestStarts
<1>5. ASSUME NEW r \in Request, P!PayAllRead(r)
      PROVE  RequestsTyped'
  <2>1. P!Drafts \in SUBSET Staff /\ P!Drafts \subseteq P!Rows /\ P!Start(r, "payAll", P!Drafts, None, 0, 0)
        /\ P!Rows' = P!Rows
    BY <1>5 DEF P!PayAllRead, P!Drafts, P!Rows
  <2> QED BY <2>1, RequestStarts
<1>6. ASSUME NEW r \in Request, NEW s \in Staff,
             P!PaySingleRead(r, s) \/ P!GetSlip(r, s) \/ P!TerminateRead(r, s)
      PROVE  RequestsTyped'
  <2>1. CASE P!PaySingleRead(r, s)
    BY <1>0, <2>1, RequestStarts DEF P!PaySingleRead
  <2>2. CASE P!GetSlip(r, s)
    <3>1. PICK n \in Nat : n = row[s].net
      BY <1>0, <2>2 DEF P!GetSlip
    <3>2. P!Start(r, "draw", {}, s, n, 0) /\ s \in P!Rows
      BY <2>2, <3>1 DEF P!GetSlip
    <3> QED BY <1>0, <3>2, RequestStarts
  <2>3. CASE P!TerminateRead(r, s)
    BY <1>0, <2>3, RequestStarts DEF P!TerminateRead
  <2> QED BY <1>6, <2>1, <2>2, <2>3
<1>7. ASSUME NEW r \in Request, NEW s \in Staff, NEW b \in Bonus, P!EditRead(r, s, b)
      PROVE  RequestsTyped'
  <2>1. s \in P!Rows /\ P!Start(r, "edit", {}, s, P!Pay(salary[s], 2 * row[s].days, b).net, b)
    BY <1>7 DEF P!EditRead, P!Drafts
  <2>2. salary[s] \in Nat /\ 2 * row[s].days \in Nat /\ b \in Nat
    BY <1>0, <2>1 DEF PayTypeInv, StaffTyped, P!PayrollAssumption
  <2>3. PICK n \in Nat : n = P!Pay(salary[s], 2 * row[s].days, b).net
    <3>1. PICK c \in Nat, h \in Nat : c = salary[s] /\ h = 2 * row[s].days
      BY <2>2
    <3>2. P!Pay(c, h, b).net \in Nat
      BY <2>2, PayType
    <3> QED BY <3>1, <3>2
  <2>4. P!Start(r, "edit", {}, s, n, b)
    BY <2>1, <2>3
  <2> QED BY <1>0, <2>1, <2>4, RequestStarts
<1> QED
  BY <1>1, <1>2, <1>3, <1>4, <1>5, <1>6, <1>7
     DEF P!Next, P!Die, P!SlipWrite, P!SlipRead, P!SlipFail, P!LinkExpires, P!SetSalary, P!vars

\* A job added to the queue: it waits, and no other stops waiting.
LEMMA JobAdded ==
    ASSUME SlipsTyped, P!PayrollAssumption, NEW s \in Staff, NEW k \in P!Tries, P!AddSlipJob(s, k)
    PROVE  /\ slipJobs' \in [Staff -> [P!Tries -> Nat]] /\ P!Waiting(s)'
           /\ \A t \in Staff : P!Waiting(t) => P!Waiting(t)'
           /\ \A t \in Staff \ {s} : P!Waiting(t)' <=> P!Waiting(t)
<1>1. PICK one : one = [slipJobs[s] EXCEPT ![k] = @ + 1]
  OBVIOUS
<1>2. slipJobs[s] \in [P!Tries -> Nat]
  BY DEF SlipsTyped
<1>3. /\ one \in [P!Tries -> Nat] /\ one[k] > 0
      /\ \A j \in P!Tries : slipJobs[s][j] > 0 => one[j] > 0
  BY <1>1, <1>2
<1>4. slipJobs' = [slipJobs EXCEPT ![s] = one]
  BY <1>1 DEF P!AddSlipJob
<1>5. /\ slipJobs' \in [Staff -> [P!Tries -> Nat]] /\ slipJobs'[s] = one
      /\ \A t \in Staff \ {s} : slipJobs'[t] = slipJobs[t]
  BY <1>3, <1>4 DEF SlipsTyped
<1> QED BY <1>3, <1>5 DEF P!Waiting

\* A job taken from the queue waited there; the others go on to wait.
LEMMA JobTaken ==
    ASSUME SlipsTyped, NEW s \in Staff, NEW k \in P!Tries, slipJobs[s][k] > 0,
           slipJobs' = [slipJobs EXCEPT ![s][k] = @ - 1]
    PROVE  /\ slipJobs' \in [Staff -> [P!Tries -> Nat]] /\ P!Waiting(s)
           /\ \A t \in Staff : P!Waiting(t)' => P!Waiting(t)
           /\ \A t \in Staff \ {s} : P!Waiting(t)' <=> P!Waiting(t)
<1>1. PICK one : one = [slipJobs[s] EXCEPT ![k] = @ - 1]
  OBVIOUS
<1>2. slipJobs[s] \in [P!Tries -> Nat]
  BY DEF SlipsTyped
<1>3. one \in [P!Tries -> Nat]
  BY <1>1, <1>2
<1>4. slipJobs' = [slipJobs EXCEPT ![s] = one]
  BY <1>1
<1>5. /\ slipJobs' \in [Staff -> [P!Tries -> Nat]]
      /\ \A t \in Staff \ {s} : slipJobs'[t] = slipJobs[t]
  BY <1>3, <1>4 DEF SlipsTyped
<1> QED BY <1>5 DEF P!Waiting

LEMMA SlipsStep ==
    ASSUME P!PayrollAssumption, PayTypeInv, [P!Next]_(P!vars)
    PROVE  SlipsTyped'
<1>0. P!Rows \subseteq P!Rows' /\ \A s \in P!Rows : s \in Staff /\ row[s].net \in Nat
  BY RowsStep DEF P!Rows, PayTypeInv, RowsTyped, P!PayrollRow
<1>a. 0 \in P!Tries
  BY DEF P!Tries, P!PayrollAssumption
<1>b. \A s \in Staff : s \in P!Rows' \/ ~ P!Waiting(s)
  BY <1>0 DEF PayTypeInv, SlipsTyped
<1>1. CASE UNCHANGED P!slipVars
  BY <1>0, <1>1 DEF PayTypeInv, SlipsTyped, P!slipVars, P!Waiting
<1>2. ASSUME NEW s \in P!Rows, NEW k \in P!Tries, P!AddSlipJob(s, k)
      PROVE  slipJobs' \in [Staff -> [P!Tries -> Nat]] /\ \A t \in Staff : P!Waiting(t)' => t \in P!Rows'
  BY <1>0, <1>2, <1>b, JobAdded DEF PayTypeInv
<1>3. CASE \E r \in Request : P!QueueSlip(r) \/ P!PayQueue(r)
  <2>1. PICK r \in Request : P!QueueSlip(r) \/ P!PayQueue(r)
    BY <1>3
  <2>2. \E s \in P!Rows : P!AddSlipJob(s, 0)
    BY <2>1, SlipsGoOn DEF PayTypeInv, P!QueueSlip, RequestsTyped, WellFormed
  <2>3. UNCHANGED <<slip, job>>
    BY <2>1 DEF P!PayQueue, P!QueueSlip
  <2> QED BY <1>0, <1>2, <1>a, <2>2, <2>3 DEF PayTypeInv, SlipsTyped
<1>4. CASE \E r \in Request : P!StoreSlip(r)
  BY <1>0, <1>4, LinkSteps DEF PayTypeInv, SlipsTyped, P!StoreSlip, RequestsTyped, RequestState, P!Waiting
<1>5. ASSUME NEW w \in Worker, P!SlipWrite(w) \/ \E up \in BOOLEAN : P!SlipFail(w, up)
      PROVE  SlipsTyped'
  <2>1. job[w] \in Staff \X Nat \X P!Tries /\ job[w][1] \in P!Rows
    BY <1>5 DEF P!SlipWrite, P!SlipFail, PayTypeInv, SlipsTyped
  <2>2. PICK s \in P!Rows, n \in Nat, k \in P!Tries : s = job[w][1] /\ n = job[w][2] /\ k = job[w][3]
    BY <2>1
  <2>3. /\ slip' = slip \/ slip' = [slip EXCEPT ![s] = n]
        /\ slipJobs' = slipJobs \/ (k + 1 < Attempts /\ P!AddSlipJob(s, k + 1))
        /\ job' = [job EXCEPT ![w] = None]
    BY <1>5, <2>2 DEF P!SlipWrite, P!SlipFail
  <2>4. k + 1 < Attempts => k + 1 \in P!Tries
    BY DEF P!Tries, P!PayrollAssumption
  <2>5. slipJobs' \in [Staff -> [P!Tries -> Nat]] /\ \A t \in Staff : P!Waiting(t)' => t \in P!Rows'
    <3>1. CASE slipJobs' = slipJobs
      BY <1>b, <3>1 DEF PayTypeInv, SlipsTyped, P!Waiting
    <3> QED BY <1>2, <2>3, <2>4, <3>1
  <2>6. slip' \in [Staff -> Nat \cup {None}] /\ job' \in [Worker -> (Staff \X Nat \X P!Tries) \cup {None}]
    BY <1>0, <2>2, <2>3 DEF PayTypeInv, SlipsTyped
  <2>7. \A v \in Worker : job'[v] # None => job'[v][1] \in P!Rows'
    BY <1>0, <2>3 DEF PayTypeInv, SlipsTyped
  <2> QED BY <2>5, <2>6, <2>7 DEF SlipsTyped
<1>6. CASE \E w \in Worker : \E s \in Staff : P!SlipRead(w, s)
  <2>1. PICK w \in Worker, s \in Staff, k \in P!Tries :
          /\ slipJobs[s][k] > 0 /\ slipJobs' = [slipJobs EXCEPT ![s][k] = @ - 1]
          /\ job' = [job EXCEPT ![w] = <<s, row[s].net, k>>] /\ UNCHANGED slip
    BY <1>6 DEF P!SlipRead
  <2>2. slipJobs' \in [Staff -> [P!Tries -> Nat]] /\ P!Waiting(s) /\ \A t \in Staff : P!Waiting(t)' => P!Waiting(t)
    BY <2>1, JobTaken DEF PayTypeInv
  <2>3. s \in P!Rows /\ \A t \in Staff : P!Waiting(t)' => t \in P!Rows'
    BY <1>0, <2>2 DEF PayTypeInv, SlipsTyped
  <2>n. row[s].net \in Nat
    BY <1>0, <2>3
  <2>t. <<s, row[s].net, k>> \in Staff \X Nat \X P!Tries
    BY <2>n
  <2>4. PICK j : j = <<s, row[s].net, k>> /\ j \in Staff \X Nat \X P!Tries /\ j[1] = s
    BY <2>t
  <2>5. /\ job' \in [Worker -> (Staff \X Nat \X P!Tries) \cup {None}]
        /\ \A v \in Worker : job'[v] # None => job'[v][1] \in P!Rows'
    BY <1>0, <2>1, <2>3, <2>4 DEF PayTypeInv, SlipsTyped
  <2> QED BY <2>1, <2>2, <2>3, <2>5 DEF PayTypeInv, SlipsTyped
<1> QED
  BY <1>1, <1>3, <1>4, <1>5, <1>6
     DEF P!Next, P!Step, P!vars, P!slipVars, P!ProcessRead, P!ProcessLookup, P!ProcessInsert, P!Done, P!EditRead,
         P!EditWrite, P!PayAllRead, P!PaySingleRead, P!PayWrite, P!GetSlip, P!LinkExpires, P!SetSalary,
         P!TerminateRead, P!TerminateWrite, P!Die

LEMMA OthersStep ==
    ASSUME P!PayrollAssumption, PayTypeInv, [P!Next]_(P!vars)
    PROVE  StaffTyped' /\ HistoryTyped'
<1>1. StaffTyped'
  BY DEF PayTypeInv, StaffTyped, P!Next, P!Step, P!vars, P!staffVars, P!ProcessRead, P!ProcessLookup,
         P!ProcessInsert, P!QueueSlip, P!Done, P!EditRead, P!EditWrite, P!PayAllRead, P!PaySingleRead, P!PayWrite,
         P!PayQueue, P!GetSlip, P!StoreSlip, P!LinkExpires, P!SlipRead, P!SlipWrite, P!SlipFail, P!SetSalary,
         P!TerminateRead, P!TerminateWrite, P!Die
<1>2. HistoryTyped'
  <2>1. CASE \E r \in Request : P!PayWrite(r)
    BY <2>1, PaidOff DEF P!PayWrite, P!slipVars, PayTypeInv, HistoryTyped
  <2>2. CASE \E r \in Request : P!ProcessInsert(r) \/ P!TerminateWrite(r)
    BY <2>2 DEF P!ProcessInsert, P!TerminateWrite, P!slipVars, PayTypeInv, HistoryTyped, RequestsTyped, WellFormed
  <2>3. CASE \E r \in Request : P!Die(r)
    BY <2>3 DEF P!Die, P!slipVars, PayTypeInv, HistoryTyped, RequestsTyped, RequestState
  <2>4. CASE (\E r \in Request, s \in Staff : P!GetSlip(r, s)) \/ \E w \in Worker, s \in Staff : P!SlipRead(w, s)
    BY <2>4 DEF P!GetSlip, P!SlipRead, P!slipVars, PayTypeInv, HistoryTyped
  <2>5. CASE UNCHANGED <<raced, late, undrawn>>
    BY <2>5 DEF PayTypeInv, HistoryTyped
  <2>6. CASE \E w \in Worker : P!SlipWrite(w) \/ \E up \in BOOLEAN : P!SlipFail(w, up)
    BY <2>6 DEF P!SlipWrite, P!SlipFail, P!history, PayTypeInv, HistoryTyped, SlipsTyped
  <2> QED
    BY <2>1, <2>2, <2>3, <2>4, <2>5, <2>6
       DEF P!Next, P!Step, P!vars, P!history, P!slipVars, P!ProcessRead, P!ProcessLookup, P!QueueSlip, P!Done, P!EditRead,
           P!EditWrite, P!PayAllRead, P!PaySingleRead, P!PayQueue, P!StoreSlip, P!LinkExpires,
           P!SetSalary, P!TerminateRead
<1> QED BY <1>1, <1>2

LEMMA NextTyped == P!PayrollAssumption /\ PayTypeInv /\ [P!Next]_(P!vars) => PayTypeInv'
BY RowsStep, RequestsStep, SlipsStep, OthersStep DEF PayTypeInv

LEMMA TypeInvHolds == P!PayrollAssumption => (P!Spec => []PayTypeInv)
<1> SUFFICES ASSUME P!PayrollAssumption PROVE P!Spec => []PayTypeInv
  OBVIOUS
<1>1. PayTypeInv /\ [P!Next]_(P!vars) => PayTypeInv'
  BY NextTyped
<1> QED BY <1>1, InitTyped, PTL DEF P!Spec

\* Every field of a payroll, a slip and a request has its type: nobody's net pay
\* is negative and the jobs of the slip queue are about payrolls there are.
THEOREM PayTypeCorrect == P!PayrollAssumption => (P!Spec => []P!TypeOK)
<1>1. PayTypeInv => P!TypeOK
  BY DEF PayTypeInv, StaffTyped, RowsTyped, SlipsTyped, HistoryTyped, P!TypeOK
<1> QED BY <1>1, TypeInvHolds, PTL

-----------------------------------------------------------------------------
(* The inductive invariants *)

Draws(r, s) == payrollReq[r].op = "draw" /\ payrollReq[r].at = s
Edits(r, s) == payrollReq[r].op = "edit" /\ payrollReq[r].at = s
Queues(r, s) == payrollReq[r].op = "slips" /\ s \in payrollReq[r].todo
On(w, s) == job[w] # None /\ job[w][1] = s

\* One at a time draws the slip of a payroll that was not raced for.
OneDrawer(s) ==
    /\ \A q, r \in Request : Draws(q, s) /\ Draws(r, s) => q = r
    /\ \A v, w \in Worker : On(v, s) /\ On(w, s) => v = w
    /\ \A r \in Request, w \in Worker : ~ (Draws(r, s) /\ On(w, s))

\* Nobody is about to change what was paid, and what the worker has read of it
\* is what was paid.
PaidAsRead(s) ==
    s \in P!Paid => /\ \A r \in Request : ~ Edits(r, s)
                    /\ \A w \in Worker : On(w, s) => job[w][2] = row[s].net

\* The public slip is the true one, or the worker still has to draw it, or has
\* given up.
Pending(s) == P!Waiting(s) \/ \E r \in Request : Queues(r, s)
Drawn(s) == slip[s] = row[s].net /\ row[s].url = "public" /\ \A r \in Request : ~ Draws(r, s)
SlipComes(s) ==
    s \in P!Paid => Pending(s) \/ Drawn(s) \/ s \in undrawn \/ \E w \in Worker : On(w, s)

Settled(s) == OneDrawer(s) /\ PaidAsRead(s) /\ SlipComes(s)
PaidInv == \A s \in Staff \ raced : Settled(s)

\* Who is on the list of a payroll run, or in its hands.
Listed(r, s) ==
    \/ payrollReq[r].op \in {"process", "insert", "queue"} /\ s \in payrollReq[r].todo
    \/ payrollReq[r].op = "insert" /\ payrollReq[r].at = s
Quits(r, s) == payrollReq[r].op = "terminate" /\ payrollReq[r].at = s

\* Who has a payroll to be paid, or is about to get one, is employed; who is
\* about to leave has none.
LeaverInv ==
    \A s \in Staff \ late :
       /\ s \in P!Drafts => employed[s] /\ \A r \in Request : ~ Quits(r, s)
       /\ \A r \in Request : Listed(r, s) => employed[s]

-----------------------------------------------------------------------------
(* Payrolls that were paid *)

LEMMA InitPaid == P!Init => PaidInv /\ LeaverInv
BY DEF P!Init, PaidInv, LeaverInv, Settled, OneDrawer, PaidAsRead, SlipComes, Draws, Edits, On,
       Listed, Quits, P!Idle, P!Paid, P!Drafts, P!Rows

\* A step that neither draws a slip nor pays this payroll.
LEMMA PayKept ==
    ASSUME NEW s \in Staff, Settled(s), UNCHANGED <<slip, job, undrawn>>,
           s \in P!Paid' => /\ s \in P!Paid /\ row'[s].net = row[s].net
                            /\ row[s].url = "public" => row'[s].url = "public"
                            /\ \A r \in Request : Edits(r, s)' => Edits(r, s),
           \A r \in Request : Draws(r, s)' => Draws(r, s),
           Pending(s) => Pending(s)'
    PROVE  Settled(s)'
<1>1. \A w \in Worker : On(w, s)' <=> On(w, s)
  BY DEF On
<1>2. OneDrawer(s)'
  BY <1>1 DEF Settled, OneDrawer
<1>3. PaidAsRead(s)'
  BY <1>1 DEF Settled, PaidAsRead
<1>4. SlipComes(s)'
  BY <1>1 DEF Settled, SlipComes, Drawn
<1> QED BY <1>2, <1>3, <1>4 DEF Settled

\* A request that does so.
LEMMA KeptByRequest ==
    ASSUME PayTypeInv, NEW s \in Staff, Settled(s), UNCHANGED <<slip, job, undrawn>>,
           s \in P!Paid' => /\ s \in P!Paid /\ row'[s].net = row[s].net
                            /\ row[s].url = "public" => row'[s].url = "public",
           NEW r \in Request, Others(r), payrollReq'[r].op # "draw",
           payrollReq'[r].op = "edit" => payrollReq'[r].at \notin P!Paid',
           P!Waiting(s) => P!Waiting(s)',
           Queues(r, s) => Pending(s)'
    PROVE  Settled(s)'
<1>1. \A q \in Request : Draws(q, s)' => Draws(q, s)
  BY DEF Others, Draws
<1>2. s \in P!Paid' => \A q \in Request : Edits(q, s)' => Edits(q, s)
  BY DEF Others, Edits
<1>3. Pending(s) => Pending(s)'
  <2>1. \A q \in Request \ {r} : Queues(q, s) => Queues(q, s)'
    BY DEF Others, Queues
  <2> QED BY <2>1 DEF Pending
<1> QED BY <1>1, <1>2, <1>3, PayKept

LEMMA Starting ==
    ASSUME PayTypeInv, NEW r \in Request, NEW op, NEW todo, NEW at, NEW read, NEW bonus,
           P!Start(r, op, todo, at, read, bonus)
    PROVE  /\ Others(r) /\ payrollReq[r] = P!Idle
           /\ payrollReq'[r].op = op /\ payrollReq'[r].at = at /\ payrollReq'[r].todo = todo
BY DEF P!Start, Others, PayTypeInv, RequestsTyped

LEMMA Ending ==
    ASSUME PayTypeInv, NEW r \in Request, P!Finish(r)
    PROVE  Others(r) /\ payrollReq'[r] = P!Idle
BY DEF P!Finish, Others, PayTypeInv, RequestsTyped

\* The requests that touch neither a slip nor a row that was paid.
LEMMA OtherRequests ==
    ASSUME P!PayrollAssumption, PayTypeInv, NEW s \in Staff \ raced, Settled(s), NEW r \in Request,
           \/ P!ProcessLookup(r) \/ P!ProcessInsert(r) \/ P!QueueSlip(r) \/ P!Done(r) \/ P!PayQueue(r)
           \/ P!TerminateWrite(r) \/ P!PayAllRead(r) \/ (P!Die(r) /\ s \notin raced')
           \/ \E asked \in SUBSET Staff, b \in Bonus : P!ProcessRead(r, asked, b)
           \/ \E t \in Staff : P!PaySingleRead(r, t) \/ P!TerminateRead(r, t)
           \/ \E t \in Staff, b \in Bonus : P!EditRead(r, t, b)
    PROVE  Settled(s)'
<1>0. P!Rows \subseteq P!Rows' /\ 0 \in P!Tries
  BY RowsStep DEF P!Next, P!Step, P!Tries, P!PayrollAssumption
<1>1. ASSUME UNCHANGED <<row, P!slipVars>>, Others(r), payrollReq'[r].op # "draw",
             payrollReq'[r].op = "edit" => payrollReq'[r].at \notin P!Paid, ~ Queues(r, s)
      PROVE  Settled(s)'
  <2>1. UNCHANGED <<slip, slipJobs, job, undrawn>> /\ P!Paid' = P!Paid
    BY <1>1 DEF P!slipVars, P!Paid, P!Rows
  <2>2. P!Waiting(s) => P!Waiting(s)'
    BY <2>1 DEF P!Waiting
  <2> QED BY <1>1, <2>1, <2>2, KeptByRequest
<1>2. CASE P!ProcessLookup(r)
  <2>1. PICK t \in payrollReq[r].todo, op \in {"process", "insert"} : GoesOn(r, op, t, payrollReq[r].todo \ {t})
    BY <1>0, <1>2, LookupGoesOn
  <2> QED BY <1>1, <1>2, <2>1 DEF P!ProcessLookup, GoesOn, Queues
<1>3. CASE P!ProcessInsert(r)
  <2>1. CASE payrollReq[r].at \in P!Rows
    BY <1>1, <1>3, <2>1, Ending DEF P!ProcessInsert, P!Idle, Queues
  <2>2. CASE payrollReq[r].at \notin P!Rows
    <3>1. /\ payrollReq[r].at \in P!Rows' /\ row'[payrollReq[r].at].status = "DRAFT"
          /\ \A t \in Staff \ {payrollReq[r].at} : row'[t] = row[t]
      BY <1>3, <2>2, Inserted
    <3>2. s \in P!Paid' => s \in P!Paid /\ row'[s] = row[s]
      BY <3>1 DEF P!Paid, P!Rows
    <3>3. payrollReq' = [payrollReq EXCEPT ![r].op = "queue"] /\ payrollReq[r].op = "insert"
          /\ UNCHANGED <<slip, slipJobs, job, undrawn>>
      BY <1>3, <2>2 DEF P!ProcessInsert, P!slipVars
    <3>a. P!Waiting(s) => P!Waiting(s)'
      BY <3>3 DEF P!Waiting
    <3>4. Others(r) /\ payrollReq'[r].op = "queue"
      BY <1>0, <3>1, <3>3, OpGoesOn DEF GoesOn
    <3> QED BY <3>2, <3>3, <3>4, <3>a, KeptByRequest DEF Queues
  <2> QED BY <2>1, <2>2
<1>4. CASE P!QueueSlip(r)
  <2>1. Others(r) /\ payrollReq'[r].op = "process"
    BY <1>0, <1>4, OpGoesOn DEF P!QueueSlip, GoesOn
  <2>2. /\ UNCHANGED <<row, slip, job, undrawn>> /\ P!Paid' = P!Paid /\ ~ Queues(r, s)
        /\ P!AddSlipJob(payrollReq[r].at, 0) /\ payrollReq[r].at \in Staff
    BY <1>4 DEF P!QueueSlip, P!Paid, P!Rows, Queues, PayTypeInv, RequestsTyped, WellFormed
  <2>3. P!Waiting(s) => P!Waiting(s)'
    BY <1>0, <2>2, JobAdded DEF PayTypeInv
  <2> QED BY <2>1, <2>2, <2>3, KeptByRequest
<1>5. CASE P!Done(r) \/ P!TerminateWrite(r)
  BY <1>1, <1>5, Ending DEF P!Done, P!TerminateWrite, P!Idle, Queues
<1>6. CASE P!PayQueue(r)
  <2>1. PICK t \in payrollReq[r].todo, op \in {"slips", "notify"} :
          /\ t \in P!Rows /\ P!AddSlipJob(t, 0)
          /\ op = IF payrollReq[r].todo = {t} THEN "notify" ELSE "slips"
          /\ GoesOn(r, op, payrollReq[r].at, payrollReq[r].todo \ {t})
    BY <1>6, SlipsGoOn
  <2>2. UNCHANGED <<row, slip, job, undrawn>> /\ P!Paid' = P!Paid
    BY <1>6 DEF P!PayQueue, P!Paid, P!Rows
  <2>3. (P!Waiting(s) => P!Waiting(s)') /\ (t = s => P!Waiting(s)')
    BY <1>0, <2>1, JobAdded DEF PayTypeInv, P!Rows
  <2>4. Queues(r, s) => Pending(s)'
    BY <2>1, <2>3 DEF Queues, Pending, GoesOn
  <2> QED BY <2>1, <2>2, <2>3, <2>4, KeptByRequest DEF GoesOn
<1>7. CASE P!Die(r) /\ s \notin raced'
  BY <1>1, <1>7, Ending DEF P!Die, P!Idle, Queues
<1>8. ASSUME NEW op, NEW todo, NEW at, NEW read, NEW bonus, P!Start(r, op, todo, at, read, bonus),
             op # "draw", op = "edit" => at \notin P!Paid, UNCHANGED <<row, P!slipVars>>
      PROVE  Settled(s)'
  BY <1>1, <1>8, Starting DEF P!Idle, Queues
<1>9. CASE \/ P!PayAllRead(r) \/ \E asked \in SUBSET Staff, b \in Bonus : P!ProcessRead(r, asked, b)
           \/ \E t \in Staff : P!PaySingleRead(r, t) \/ P!TerminateRead(r, t)
  BY <1>8, <1>9 DEF P!PayAllRead, P!ProcessRead, P!PaySingleRead, P!TerminateRead
<1>10. CASE \E t \in Staff, b \in Bonus : P!EditRead(r, t, b)
  BY <1>8, <1>10 DEF P!EditRead, P!Drafts, P!Paid
<1> QED BY <1>2, <1>3, <1>4, <1>5, <1>6, <1>7, <1>9, <1>10

\* Edits and links touch no row that was paid, or no pay of it.
LEMMA EditKeeps ==
    ASSUME P!PayrollAssumption, PayTypeInv, NEW s \in Staff, Settled(s), NEW r \in Request,
           P!EditWrite(r)
    PROVE  Settled(s)'
<1>1. /\ Others(r) /\ payrollReq'[r].op = "idle" /\ UNCHANGED <<slip, slipJobs, job, undrawn>>
      /\ payrollReq[r].op = "edit"
  BY Ending DEF P!EditWrite, P!slipVars, P!Idle
<1>2. s \in P!Paid' => s \in P!Paid /\ row'[s] = row[s]
  <2>1. /\ payrollReq[r].at \in P!Rows /\ P!Rows' = P!Rows /\ row'[payrollReq[r].at].status = row[payrollReq[r].at].status
        /\ \A t \in Staff \ {payrollReq[r].at} : row'[t] = row[t]
    BY Edited
  <2>2. s \in P!Paid' => s \in P!Paid
    BY <2>1 DEF P!Paid, P!Rows
  <2>3. s \in P!Paid => s # payrollReq[r].at
    BY <1>1 DEF Settled, PaidAsRead, Edits
  <2> QED BY <2>1, <2>2, <2>3
<1>3. P!Waiting(s) => P!Waiting(s)'
  BY <1>1 DEF P!Waiting
<1> QED BY <1>1, <1>2, <1>3, KeptByRequest DEF Queues

LEMMA ExpiryKeeps ==
    ASSUME P!PayrollAssumption, PayTypeInv, NEW s \in Staff, Settled(s), NEW t \in Staff,
           P!LinkExpires(t)
    PROVE  Settled(s)'
<1>1. UNCHANGED <<slip, slipJobs, job, undrawn, payrollReq>> /\ row[t].url = "signed" /\ t \in P!Rows
  BY DEF P!LinkExpires, P!slipVars
<1>2. /\ P!Rows' = P!Rows /\ row'[t].status = row[t].status /\ row'[t].net = row[t].net
      /\ \A u \in Staff \ {t} : row'[u] = row[u]
  BY Linked DEF P!LinkExpires
<1>3. s \in P!Paid' => s \in P!Paid /\ row'[s].net = row[s].net
                         /\ (row[s].url = "public" => row'[s].url = "public")
  BY <1>1, <1>2 DEF P!Paid, P!Rows
<1> QED BY <1>1, <1>3, PayKept DEF Draws, Edits, Pending, Queues, P!Waiting

\* Paying queues the slip of everyone who was read as a DRAFT; the others are
\* raced for.
LEMMA PayingSettles ==
    ASSUME P!PayrollAssumption, PayTypeInv, NEW s \in Staff \ raced', Settled(s), NEW r \in Request,
           P!PayWrite(r)
    PROVE  Settled(s)'
<1>1. /\ P!Rows' = P!Rows /\ (s \in P!Paid' => s \in P!Rows)
      /\ s \in P!Rows => row'[s].net = row[s].net /\ row'[s].url = row[s].url
      /\ s \in P!Paid' \ P!Paid => /\ s \in payrollReq[r].todo
                                   /\ ~ P!InHand("edit", s) /\ ~ P!BeingDrawn(s)
  BY PaidOff DEF P!Paid
<1>2. payrollReq[r].op \in {"payAll", "paySingle"} /\ UNCHANGED <<slip, slipJobs, job, undrawn>>
  BY DEF P!PayWrite, P!slipVars
<1>3. Others(r) /\ payrollReq'[r].op = "slips" /\ payrollReq'[r].todo = payrollReq[r].todo
  BY <1>1, <1>2, OpGoesOn DEF P!PayWrite, GoesOn
<1>4. CASE s \in P!Paid' \ P!Paid
  <2>1. \A w \in Worker : ~ On(w, s) /\ ~ On(w, s)'
    BY <1>1, <1>2, <1>4 DEF P!BeingDrawn, On
  <2>2. \A q \in Request : ~ Draws(q, s)' /\ ~ Edits(q, s)'
    BY <1>1, <1>3, <1>4 DEF P!BeingDrawn, P!InHand, Draws, Edits, Others
  <2>3. Pending(s)'
    BY <1>1, <1>3, <1>4 DEF Pending, Queues
  <2> QED BY <2>1, <2>2, <2>3 DEF Settled, OneDrawer, PaidAsRead, SlipComes
<1>5. CASE ~ (s \in P!Paid' \ P!Paid)
  <2>1. P!Waiting(s) => P!Waiting(s)'
    BY <1>2 DEF P!Waiting
  <2> QED BY <1>1, <1>2, <1>3, <1>5, <2>1, KeptByRequest DEF Queues
<1> QED BY <1>4, <1>5

\* getSlip starts to draw only where no link is stored, and nobody else draws.
LEMMA GetSlipSettles ==
    ASSUME P!PayrollAssumption, PayTypeInv, NEW s \in Staff \ raced', Settled(s), NEW r \in Request,
           NEW t \in Staff, P!GetSlip(r, t)
    PROVE  Settled(s)'
<1>1. Others(r) /\ payrollReq[r].op = "idle" /\ payrollReq'[r].op = "draw" /\ payrollReq'[r].at = t /\ payrollReq'[r].todo = {}
  BY Starting DEF P!GetSlip, P!Idle
<1>2. UNCHANGED <<row, slip, slipJobs, job, undrawn>> /\ P!Paid' = P!Paid /\ row[t].url = "none"
      /\ (s = t => ~ P!BeingDrawn(s))
  BY DEF P!GetSlip, P!slipVars, P!Paid, P!Rows
<1>3. \A w \in Worker : On(w, s)' <=> On(w, s)
  BY <1>2 DEF On
<1>4. \A q \in Request : /\ Draws(q, s)' => Draws(q, s) \/ (q = r /\ s = t)
                         /\ Edits(q, s)' => Edits(q, s)
                         /\ Queues(q, s) => Queues(q, s)'
  BY <1>1 DEF Others, Draws, Edits, Queues
<1>5. s = t => (\A q \in Request : ~ Draws(q, s)) /\ \A w \in Worker : ~ On(w, s)
  BY <1>2 DEF P!BeingDrawn, P!InHand, Draws, On
<1>6. OneDrawer(s)'
  <2>1. CASE s = t
    <3>1. \A q \in Request : Draws(q, s)' => q = r
      BY <1>4, <1>5, <2>1
    <3>2. \A w \in Worker : ~ On(w, s)'
      BY <1>3, <1>5, <2>1
    <3> QED BY <3>1, <3>2 DEF OneDrawer
  <2>2. CASE s # t
    BY <1>3, <1>4, <2>2 DEF Settled, OneDrawer
  <2> QED BY <2>1, <2>2
<1>7. PaidAsRead(s)'
  BY <1>2, <1>3, <1>4 DEF Settled, PaidAsRead
<1>8. SlipComes(s)'
  <2>1. Pending(s) => Pending(s)'
    BY <1>2, <1>4 DEF Pending, P!Waiting
  <2>2. Drawn(s) => Drawn(s)'
    BY <1>2, <1>4 DEF Drawn
  <2> QED BY <1>2, <1>3, <2>1, <2>2 DEF Settled, SlipComes
<1> QED BY <1>6, <1>7, <1>8 DEF Settled

\* A slip of getSlip is stored only while the worker is still to draw another.
LEMMA StoreSettles ==
    ASSUME P!PayrollAssumption, PayTypeInv, NEW s \in Staff, Settled(s), NEW r \in Request,
           P!StoreSlip(r)
    PROVE  Settled(s)'
<1> DEFINE t == payrollReq[r].at
<1>1. Others(r) /\ payrollReq'[r].op = "idle" /\ payrollReq[r].op = "draw" /\ UNCHANGED <<slipJobs, job, undrawn>>
  BY Ending DEF P!StoreSlip, P!Idle
<1>2. t \in P!Rows /\ t \in Staff
  BY LinkSteps DEF P!Rows
<1>3. /\ P!Rows' = P!Rows /\ row'[t].status = row[t].status /\ row'[t].net = row[t].net
      /\ \A u \in Staff \ {t} : row'[u] = row[u]
  BY <1>2, Linked DEF P!StoreSlip
<1>4. \A u \in Staff \ {t} : slip'[u] = slip[u]
  BY <1>2 DEF P!StoreSlip, PayTypeInv, SlipsTyped
<1>5. (s \in P!Paid' <=> s \in P!Paid) /\ (s \in P!Paid => row'[s].net = row[s].net)
  BY <1>2, <1>3 DEF P!Paid, P!Rows
<1>6. /\ \A w \in Worker : On(w, s)' <=> On(w, s)
      /\ \A q \in Request : /\ Draws(q, s)' => Draws(q, s)
                            /\ Edits(q, s)' => Edits(q, s)
                            /\ Queues(q, s) => Queues(q, s)'
  BY <1>1 DEF On, Others, Draws, Edits, Queues
<1>7. OneDrawer(s)' /\ PaidAsRead(s)'
  BY <1>1, <1>5, <1>6 DEF Settled, OneDrawer, PaidAsRead
<1>8. SlipComes(s)'
  <2>1. Pending(s) => Pending(s)'
    BY <1>1, <1>6 DEF Pending, P!Waiting
  <2>2. Drawn(s) => s # t
    BY <1>1 DEF Drawn, Draws
  <2>3. Drawn(s) => Drawn(s)'
    BY <1>3, <1>4, <1>6, <2>2 DEF Drawn
  <2> QED BY <1>1, <1>5, <1>6, <2>1, <2>3 DEF Settled, SlipComes
<1> QED BY <1>7, <1>8 DEF Settled

-----------------------------------------------------------------------------
(* The worker *)

LEMMA WorkerReads ==
    ASSUME P!PayrollAssumption, PayTypeInv, NEW s \in Staff \ raced', Settled(s), NEW w \in Worker,
           NEW t \in Staff, P!SlipRead(w, t)
    PROVE  Settled(s)'
<1>1. /\ job[w] = None /\ UNCHANGED <<row, slip, payrollReq, undrawn>> /\ P!Paid' = P!Paid
      /\ s = t => ~ P!BeingDrawn(s)
  BY DEF P!SlipRead, P!Paid, P!Rows
<1>a. PICK k \in P!Tries :
        /\ slipJobs[t][k] > 0 /\ slipJobs' = [slipJobs EXCEPT ![t][k] = @ - 1]
        /\ job' = [job EXCEPT ![w] = <<t, row[t].net, k>>]
  BY DEF P!SlipRead
<1>b. P!Waiting(t) /\ \A u \in Staff \ {t} : P!Waiting(u)' <=> P!Waiting(u)
  BY <1>a, JobTaken DEF PayTypeInv
<1>2. job'[w] = <<t, row[t].net, k>> /\ \A v \in Worker \ {w} : job'[v] = job[v]
  BY <1>a DEF PayTypeInv, SlipsTyped
<1>3. row[t].net \in Nat /\ job'[w] # None
  <2>1. row[t].net \in Nat /\ k \in Nat
    BY <1>b DEF PayTypeInv, SlipsTyped, RowsTyped, P!Rows, P!PayrollRow, P!Tries
  <2> QED BY <1>2, <2>1 DEF P!PayrollAssumption
<1>4. \A q \in Request : /\ Draws(q, s)' <=> Draws(q, s)
                         /\ Edits(q, s)' <=> Edits(q, s)
                         /\ Queues(q, s) <=> Queues(q, s)'
  BY <1>1 DEF Draws, Edits, Queues
<1>5. \A v \in Worker : /\ On(v, s)' <=> On(v, s) \/ (v = w /\ s = t)
                        /\ On(v, s) => v # w
  BY <1>1, <1>2, <1>3 DEF On
<1>6. s = t => (\A q \in Request : ~ Draws(q, s)) /\ \A v \in Worker : ~ On(v, s)
  BY <1>1 DEF P!BeingDrawn, P!InHand, Draws, On
<1>7. OneDrawer(s)'
  <2>1. CASE s = t
    <3>1. \A q \in Request : ~ Draws(q, s)'
      BY <1>4, <1>6, <2>1
    <3>2. \A v \in Worker : On(v, s)' => v = w
      BY <1>5, <1>6, <2>1
    <3> QED BY <3>1, <3>2 DEF OneDrawer
  <2>2. CASE s # t
    <3>1. \A v \in Worker : On(v, s)' <=> On(v, s)
      BY <1>5, <2>2
    <3> QED BY <1>4, <3>1 DEF Settled, OneDrawer
  <2> QED BY <2>1, <2>2
<1>8. PaidAsRead(s)'
  BY <1>1, <1>2, <1>4, <1>5 DEF Settled, PaidAsRead
<1>9. SlipComes(s)'
  <2>1. CASE s = t
    BY <1>5, <2>1 DEF SlipComes
  <2>2. CASE s # t
    <3>1. (Pending(s) => Pending(s)') /\ (Drawn(s) => Drawn(s)')
      BY <1>1, <1>b, <1>4, <2>2 DEF Pending, Drawn
    <3> QED BY <1>1, <1>5, <3>1 DEF Settled, SlipComes
  <2> QED BY <2>1, <2>2
<1> QED BY <1>7, <1>8, <1>9 DEF Settled

LEMMA WorkerWrites ==
    ASSUME P!PayrollAssumption, PayTypeInv, NEW s \in Staff, Settled(s), NEW w \in Worker,
           P!SlipWrite(w)
    PROVE  Settled(s)'
<1> DEFINE t == job[w][1]
<1>1. job[w] # None /\ UNCHANGED <<slipJobs, payrollReq>> /\ t \in P!Rows /\ t \in Staff
  BY LinkSteps DEF P!SlipWrite, P!Rows
<1>2. /\ P!Rows' = P!Rows /\ row'[t].status = row[t].status /\ row'[t].net = row[t].net
      /\ row'[t].url = "public" /\ \A u \in Staff \ {t} : row'[u] = row[u]
  BY <1>1, Linked DEF P!SlipWrite
<1>3. /\ slip'[t] = job[w][2] /\ \A u \in Staff \ {t} : slip'[u] = slip[u]
      /\ undrawn' = undrawn \ {t}
      /\ job'[w] = None /\ \A v \in Worker \ {w} : job'[v] = job[v]
  BY <1>1 DEF P!SlipWrite, PayTypeInv, SlipsTyped
<1>4. (s \in P!Paid' <=> s \in P!Paid) /\ (s \in P!Paid => row'[s].net = row[s].net)
  BY <1>1, <1>2 DEF P!Paid, P!Rows
<1>5. \A v \in Worker : /\ On(v, s)' <=> On(v, s) /\ v # w
                        /\ v # w => job'[v] = job[v]
  BY <1>3 DEF On
<1>6. \A q \in Request : /\ Draws(q, s)' <=> Draws(q, s)
                         /\ Edits(q, s)' <=> Edits(q, s)
                         /\ Queues(q, s) <=> Queues(q, s)'
  BY <1>1 DEF Draws, Edits, Queues
<1>7. OneDrawer(s)' /\ PaidAsRead(s)'
  BY <1>4, <1>5, <1>6 DEF Settled, OneDrawer, PaidAsRead
<1>8. SlipComes(s)'
  <2>1. CASE s = t
    <3>1. On(w, s)
      BY <1>1, <2>1 DEF On
    <3>2. s \in P!Paid => job[w][2] = row[s].net /\ \A q \in Request : ~ Draws(q, s)
      BY <3>1 DEF Settled, OneDrawer, PaidAsRead
    <3>3. s \in P!Paid => Drawn(s)'
      BY <1>2, <1>3, <1>6, <2>1, <3>2 DEF Drawn
    <3> QED BY <1>4, <3>3 DEF SlipComes
  <2>2. CASE s # t
    <3>1. (Pending(s) => Pending(s)') /\ (Drawn(s) => Drawn(s)')
      BY <1>1, <1>2, <1>3, <1>6, <2>2 DEF Pending, Drawn, P!Waiting
    <3>2. \A v \in Worker : On(v, s) => On(v, s)'
      BY <1>5, <2>2 DEF On
    <3> QED BY <1>3, <1>4, <2>2, <3>1, <3>2 DEF Settled, SlipComes
  <2> QED BY <2>1, <2>2
<1> QED BY <1>7, <1>8 DEF Settled

LEMMA WorkerFails ==
    ASSUME P!PayrollAssumption, PayTypeInv, NEW s \in Staff, Settled(s), NEW w \in Worker,
           NEW up \in BOOLEAN, P!SlipFail(w, up)
    PROVE  Settled(s)'
<1>b. job[w] # None /\ job[w] \in Staff \X Nat \X P!Tries
  BY DEF P!SlipFail, PayTypeInv, SlipsTyped
<1>c. PICK t \in Staff, k \in P!Tries : t = job[w][1] /\ k = job[w][3]
  BY <1>b
<1>1. job[w] # None /\ UNCHANGED <<row, payrollReq>> /\ P!Paid' = P!Paid
  BY DEF P!SlipFail, P!Paid, P!Rows
<1>a. /\ \A u \in Staff \ {t} : P!Waiting(u)' <=> P!Waiting(u)
      /\ undrawn \subseteq undrawn' /\ (P!Waiting(t)' \/ t \in undrawn')
  <2>1. CASE k + 1 < Attempts
    <3>1. k + 1 \in P!Tries
      BY <2>1 DEF P!Tries, P!PayrollAssumption
    <3>2. P!AddSlipJob(t, k + 1) /\ UNCHANGED undrawn
      BY <1>c, <2>1 DEF P!SlipFail
    <3> QED BY <3>1, <3>2, JobAdded DEF PayTypeInv
  <2>2. CASE ~ (k + 1 < Attempts)
    BY <1>c, <2>2 DEF P!SlipFail, P!Waiting
  <2> QED BY <2>1, <2>2
<1>2. /\ \A u \in Staff \ {t} : slip'[u] = slip[u]
      /\ job'[w] = None /\ \A v \in Worker \ {w} : job'[v] = job[v]
  BY <1>1, <1>c DEF P!SlipFail, PayTypeInv, SlipsTyped
<1>3. \A v \in Worker : /\ On(v, s)' <=> On(v, s) /\ v # w
                        /\ v # w => job'[v] = job[v]
  BY <1>2, <1>c DEF On
<1>4. \A q \in Request : /\ Draws(q, s)' <=> Draws(q, s)
                         /\ Edits(q, s)' <=> Edits(q, s)
                         /\ Queues(q, s) <=> Queues(q, s)'
  BY <1>1 DEF Draws, Edits, Queues
<1>5. OneDrawer(s)' /\ PaidAsRead(s)'
  BY <1>1, <1>3, <1>4 DEF Settled, OneDrawer, PaidAsRead
<1>6. SlipComes(s)'
  <2>1. CASE s = t
    BY <1>a, <2>1 DEF SlipComes, Pending
  <2>2. CASE s # t
    <3>1. (Pending(s) => Pending(s)') /\ (Drawn(s) => Drawn(s)')
      BY <1>1, <1>2, <1>4, <1>a, <2>2 DEF Pending, Drawn
    <3>2. \A v \in Worker : On(v, s) => On(v, s)'
      BY <1>3, <1>c, <2>2 DEF On
    <3> QED BY <1>1, <1>a, <3>1, <3>2 DEF Settled, SlipComes
  <2> QED BY <2>1, <2>2
<1> QED BY <1>5, <1>6 DEF Settled

-----------------------------------------------------------------------------
LEMMA RacedGrows == [P!Next]_(P!vars) => raced \subseteq raced'
BY DEF P!Next, P!Step, P!vars, P!history, P!ProcessRead, P!ProcessLookup, P!ProcessInsert, P!QueueSlip, P!Done,
       P!EditRead, P!EditWrite, P!PayAllRead, P!PaySingleRead, P!PayWrite, P!PayQueue, P!GetSlip, P!StoreSlip,
       P!LinkExpires, P!SlipRead, P!SlipWrite, P!SlipFail, P!SetSalary, P!TerminateRead, P!TerminateWrite, P!Die

LEMMA NextPaid == P!PayrollAssumption /\ PayTypeInv /\ PaidInv /\ [P!Next]_(P!vars) => PaidInv'
<1> SUFFICES ASSUME P!PayrollAssumption, PayTypeInv, PaidInv, [P!Next]_(P!vars),
                    NEW s \in Staff \ raced'
             PROVE  Settled(s)'
  BY DEF PaidInv
<1>0. s \in Staff \ raced /\ Settled(s)
  BY RacedGrows DEF PaidInv
<1>1. ASSUME NEW r \in Request, P!Step(r) \/ P!Die(r) \/ P!PayAllRead(r)
      PROVE  Settled(s)'
  <2>1. CASE \/ P!ProcessLookup(r) \/ P!ProcessInsert(r) \/ P!QueueSlip(r) \/ P!Done(r) \/ P!PayQueue(r)
             \/ P!TerminateWrite(r) \/ P!PayAllRead(r) \/ P!Die(r)
    BY <1>0, <2>1, OtherRequests
  <2>2. CASE P!EditWrite(r)
    BY <1>0, <2>2, EditKeeps
  <2>3. CASE P!PayWrite(r)
    BY <1>0, <2>3, PayingSettles
  <2>4. CASE P!StoreSlip(r)
    BY <1>0, <2>4, StoreSettles
  <2> QED BY <1>1, <2>1, <2>2, <2>3, <2>4 DEF P!Step
<1>2. CASE \E r \in Request, b \in Bonus, asked \in SUBSET Staff : P!ProcessRead(r, asked, b)
  BY <1>0, <1>2, OtherRequests
<1>3. CASE \E r \in Request, t \in Staff :
             P!PaySingleRead(r, t) \/ P!GetSlip(r, t) \/ P!TerminateRead(r, t)
  BY <1>0, <1>3, OtherRequests, GetSlipSettles
<1>4. CASE \E r \in Request, t \in Staff, b \in Bonus : P!EditRead(r, t, b)
  BY <1>0, <1>4, OtherRequests
<1>5. CASE \E w \in Worker : P!SlipWrite(w) \/ \E t \in Staff : P!SlipRead(w, t)
  BY <1>0, <1>5, WorkerWrites, WorkerReads
<1>6. CASE \E w \in Worker, up \in BOOLEAN : P!SlipFail(w, up)
  BY <1>0, <1>6, WorkerFails
<1>7. CASE \E t \in Staff : P!LinkExpires(t)
  BY <1>0, <1>7, ExpiryKeeps
<1>8. CASE (\E t \in Staff, b \in Basic : P!SetSalary(t, b)) \/ UNCHANGED P!vars
  <2>1. UNCHANGED <<row, slip, slipJobs, job, undrawn, payrollReq>>
    BY <1>8 DEF P!SetSalary, P!vars, P!slipVars
  <2> QED BY <1>0, <2>1, PayKept DEF P!Paid, P!Rows, Draws, Edits, Queues, Pending, P!Waiting
<1> QED BY <1>1, <1>2, <1>3, <1>4, <1>5, <1>6, <1>7, <1>8 DEF P!Next

LEMMA PaidInvHolds == P!PayrollAssumption => (P!Spec => []PaidInv)
<1> SUFFICES ASSUME P!PayrollAssumption PROVE P!Spec => []PaidInv
  OBVIOUS
<1>1. PayTypeInv /\ PaidInv /\ [P!Next]_(P!vars) => PaidInv'
  BY NextPaid
<1> QED BY <1>1, InitPaid, TypeInvHolds, PTL DEF P!Spec

\* The slip of a paid payroll tells what was paid, or is still to be drawn, or
\* the queue gave up after its last attempt, however many requests and workers
\* draw, edit, fail and repeat.
THEOREM PaidSlipsAreTrue == P!PayrollAssumption => (P!Spec => []P!PaidSlipIsTrue)
<1>1. PaidInv => P!PaidSlipIsTrue
  <2> SUFFICES ASSUME PaidInv, NEW s \in P!Paid \ (raced \cup undrawn)
               PROVE  \/ P!Waiting(s) \/ P!BeingDrawn(s)
                      \/ \E r \in Request : payrollReq[r].op = "slips" /\ s \in payrollReq[r].todo
                      \/ slip[s] = row[s].net /\ row[s].url = "public"
    BY DEF P!PaidSlipIsTrue
  <2>1. SlipComes(s)
    BY DEF PaidInv, Settled, P!Paid, P!Rows
  <2> QED BY <2>1 DEF SlipComes, Pending, Drawn, On, Queues, P!BeingDrawn
<1> QED BY <1>1, PaidInvHolds, PTL

\* No step changes what was paid.
LEMMA FrozenStep ==
    ASSUME P!PayrollAssumption, PayTypeInv, PaidInv, [P!Next]_(P!vars), NEW s \in P!Paid \ raced
    PROVE  row'[s].net = row[s].net /\ row'[s].bonus = row[s].bonus
<1>0. s \in Staff /\ s \in P!Rows /\ PaidAsRead(s)
  BY DEF P!Paid, P!Rows, PaidInv, Settled
<1>1. ASSUME NEW r \in Request, P!EditWrite(r)
      PROVE  row'[s] = row[s]
  BY <1>0, <1>1, Edited DEF PaidAsRead, Edits, P!EditWrite
<1>2. CASE \E r \in Request : P!PayWrite(r)
  BY <1>0, <1>2, PaidOff
<1>3. ASSUME NEW r \in Request, P!ProcessInsert(r)
      PROVE  row'[s] = row[s]
  BY <1>0, <1>3, Inserted DEF P!ProcessInsert
<1>4. CASE \E r \in Request : P!StoreSlip(r)
  BY <1>0, <1>4, LinkSteps, Linked DEF P!StoreSlip
<1>5. CASE \E w \in Worker : P!SlipWrite(w)
  BY <1>0, <1>5, LinkSteps, Linked DEF P!SlipWrite
<1>6. CASE \E t \in Staff : P!LinkExpires(t)
  BY <1>0, <1>6, Linked DEF P!LinkExpires
<1>7. CASE row' = row
  BY <1>7
<1> QED
  BY <1>1, <1>2, <1>3, <1>4, <1>5, <1>6, <1>7
     DEF P!Next, P!Step, P!vars, P!ProcessRead, P!ProcessLookup, P!QueueSlip, P!Done, P!EditRead, P!PayAllRead,
         P!PaySingleRead, P!PayQueue, P!GetSlip, P!SlipRead, P!SlipFail, P!SetSalary, P!TerminateRead,
         P!TerminateWrite, P!Die

\* What was paid is not changed by an edit or by anything else.
THEOREM PaidStaysFrozen == P!PayrollAssumption => (P!Spec => P!PaidIsFrozen)
<1> SUFFICES ASSUME P!PayrollAssumption PROVE P!Spec => P!PaidIsFrozen
  OBVIOUS
<1>1. PayTypeInv /\ PaidInv /\ [P!Next]_(P!vars) =>
        [\A s \in P!Paid \ raced : row'[s].net = row[s].net /\ row'[s].bonus = row[s].bonus]_(P!vars)
  BY FrozenStep
<1> QED BY <1>1, TypeInvHolds, PaidInvHolds, PTL DEF P!Spec, P!PaidIsFrozen

-----------------------------------------------------------------------------
(* Those who leave *)

LEMMA LateGrows == [P!Next]_(P!vars) => late \subseteq late'
BY DEF P!Next, P!Step, P!vars, P!history, P!ProcessRead, P!ProcessLookup, P!ProcessInsert, P!QueueSlip, P!Done,
       P!EditRead, P!EditWrite, P!PayAllRead, P!PaySingleRead, P!PayWrite, P!PayQueue, P!GetSlip, P!StoreSlip,
       P!LinkExpires, P!SlipRead, P!SlipWrite, P!SlipFail, P!SetSalary, P!TerminateRead, P!TerminateWrite, P!Die

\* Only process inserts a DRAFT.
LEMMA NewDrafts ==
    ASSUME P!PayrollAssumption, PayTypeInv, [P!Next]_(P!vars),
           NEW s \in P!Drafts', s \notin P!Drafts
    PROVE  \E r \in Request : P!ProcessInsert(r) /\ payrollReq[r].at = s /\ s \notin P!Rows
<1>0. s \in Staff /\ s \in P!Rows' /\ row'[s].status = "DRAFT"
  BY DEF P!Drafts, P!Rows
<1>1. ASSUME NEW r \in Request, P!EditWrite(r) PROVE FALSE
  BY <1>0, <1>1, Edited DEF P!Drafts
<1>2. ASSUME NEW r \in Request, P!PayWrite(r) PROVE FALSE
  <2>1. s \in P!Rows /\ row[s].status # "PAID"
    BY <1>0, <1>2, PaidOff
  <2> QED BY <2>1 DEF PayTypeInv, RowsTyped, P!PayrollRow, P!Rows, P!Drafts
<1>3. ASSUME NEW r \in Request, P!ProcessInsert(r)
      PROVE  payrollReq[r].at = s /\ s \notin P!Rows
  BY <1>0, <1>3, Inserted DEF P!ProcessInsert, P!Drafts, P!Rows
<1>4. ASSUME NEW r \in Request, P!StoreSlip(r) PROVE FALSE
  <2>1. PICK t \in P!Rows : t = payrollReq[r].at
    BY <1>4, LinkSteps
  <2>2. row' = [row EXCEPT ![t].url = "signed"]
    BY <1>4, <2>1 DEF P!StoreSlip
  <2> QED BY <1>0, <2>2, Linked DEF P!Drafts
<1>5. ASSUME NEW w \in Worker, P!SlipWrite(w) PROVE FALSE
  <2>1. PICK t \in P!Rows : t = job[w][1]
    BY <1>5, LinkSteps
  <2> QED BY <1>0, <1>5, <2>1, Linked DEF P!SlipWrite, P!Drafts
<1>6. ASSUME NEW t \in Staff, P!LinkExpires(t) PROVE FALSE
  BY <1>0, <1>6, Linked DEF P!LinkExpires, P!Drafts
<1>7. CASE row' = row
  BY <1>7 DEF P!Drafts, P!Rows
<1> QED
  BY <1>1, <1>2, <1>3, <1>4, <1>5, <1>6, <1>7
     DEF P!Next, P!Step, P!vars, P!ProcessRead, P!ProcessLookup, P!QueueSlip, P!Done, P!EditRead, P!PayAllRead,
         P!PaySingleRead, P!PayQueue, P!GetSlip, P!SlipRead, P!SlipFail, P!SetSalary, P!TerminateRead,
         P!TerminateWrite, P!Die

\* A step of one request: it neither leaves nor is on a list it was not on,
\* but for the reads that start a payroll run or a termination.
Unclaiming(r) ==
    \A s \in Staff : ~ Quits(r, s)' /\ (Listed(r, s)' => Listed(r, s))
Claiming(r) ==
    \/ \A s \in Staff : ~ Quits(r, s)' /\ (Listed(r, s)' => employed[s])
    \/ \A s \in Staff : ~ Listed(r, s)' /\ (Quits(r, s)' => s \notin P!Drafts)

LEMMA RequestClaims ==
    ASSUME P!PayrollAssumption, PayTypeInv, [P!Next]_(P!vars)
    PROVE  \/ UNCHANGED payrollReq
           \/ \E r \in Request : Others(r) /\ Unclaiming(r)
           \/ \E r \in Request : Others(r) /\ Claiming(r) /\ UNCHANGED <<row, employed>>
<1>0. P!Rows \subseteq P!Rows'
  BY RowsStep
<1>1. ASSUME NEW r \in Request, P!Finish(r)
      PROVE  Others(r) /\ Unclaiming(r)
  BY <1>1, Ending DEF Unclaiming, P!Idle, Quits, Listed
<1>2. ASSUME NEW r \in Request, P!Step(r)
      PROVE  Others(r) /\ Unclaiming(r)
  <2>1. CASE P!ProcessLookup(r)
    <3>1. PICK t \in payrollReq[r].todo, op \in {"process", "insert"} :
            GoesOn(r, op, t, payrollReq[r].todo \ {t}) /\ payrollReq[r].op = "process"
      BY <1>0, <2>1, LookupGoesOn
    <3> QED BY <3>1 DEF GoesOn, Unclaiming, Quits, Listed
  <2>2. CASE P!ProcessInsert(r) /\ payrollReq[r].at \notin P!Rows
    <3>1. payrollReq[r].at \in P!Rows' /\ payrollReq' = [payrollReq EXCEPT ![r].op = "queue"] /\ payrollReq[r].op = "insert"
      BY <2>2, Inserted DEF P!ProcessInsert
    <3>2. GoesOn(r, "queue", payrollReq[r].at, payrollReq[r].todo)
      BY <1>0, <3>1, OpGoesOn
    <3> QED BY <3>1, <3>2 DEF GoesOn, Unclaiming, Quits, Listed
  <2>3. CASE P!QueueSlip(r)
    <3>1. GoesOn(r, "process", payrollReq[r].at, payrollReq[r].todo) /\ payrollReq[r].op = "queue"
      BY <1>0, <2>3, OpGoesOn DEF P!QueueSlip
    <3> QED BY <3>1 DEF GoesOn, Unclaiming, Quits, Listed
  <2>4. CASE P!PayWrite(r)
    <3>1. GoesOn(r, "slips", payrollReq[r].at, payrollReq[r].todo)
      BY <1>0, <2>4, OpGoesOn DEF P!PayWrite
    <3> QED BY <3>1 DEF GoesOn, Unclaiming, Quits, Listed
  <2>5. CASE P!PayQueue(r)
    <3>1. PICK t \in payrollReq[r].todo, op \in {"slips", "notify"} :
            GoesOn(r, op, payrollReq[r].at, payrollReq[r].todo \ {t})
      BY <2>5, SlipsGoOn
    <3> QED BY <3>1 DEF GoesOn, Unclaiming, Quits, Listed
  <2> QED
    BY <1>1, <1>2, <2>1, <2>2, <2>3, <2>4, <2>5
       DEF P!Step, P!ProcessInsert, P!Done, P!EditWrite, P!StoreSlip, P!TerminateWrite
<1>3. ASSUME NEW r \in Request, NEW op, NEW todo, NEW at, NEW read, NEW bonus,
             P!Start(r, op, todo, at, read, bonus),
             op \in {"edit", "payAll", "paySingle", "draw"}
      PROVE  Others(r) /\ Unclaiming(r)
  <2>1. Others(r) /\ payrollReq'[r].op = op
    BY <1>3, Starting
  <2> QED BY <1>3, <2>1 DEF Unclaiming, Quits, Listed
<1>4. ASSUME NEW r \in Request, NEW b \in Bonus, NEW asked \in SUBSET Staff,
             P!ProcessRead(r, asked, b)
      PROVE  Others(r) /\ Claiming(r) /\ UNCHANGED <<row, employed>>
  <2>1. PICK list \in SUBSET Staff :
          P!Start(r, "process", list, None, 0, b) /\ list = {s \in asked : employed[s]}
    BY <1>4 DEF P!ProcessRead
  <2>2. Others(r) /\ payrollReq'[r].op = "process" /\ payrollReq'[r].todo = list
    BY <2>1, Starting
  <2> QED BY <1>4, <2>1, <2>2 DEF Claiming, Quits, Listed, P!ProcessRead, P!staffVars
<1>5. ASSUME NEW r \in Request, NEW t \in Staff, P!TerminateRead(r, t)
      PROVE  Others(r) /\ Claiming(r) /\ UNCHANGED <<row, employed>>
  <2>1. Others(r) /\ payrollReq'[r].op = "terminate" /\ payrollReq'[r].at = t
    BY <1>5, Starting DEF P!TerminateRead
  <2> QED BY <1>5, <2>1 DEF Claiming, Quits, Listed, P!TerminateRead, P!staffVars
<1>6. ASSUME NEW r \in Request,
             \/ P!Die(r) \/ P!PayAllRead(r)
             \/ \E t \in Staff : P!PaySingleRead(r, t) \/ P!GetSlip(r, t)
             \/ \E t \in Staff, b \in Bonus : P!EditRead(r, t, b)
      PROVE  Others(r) /\ Unclaiming(r)
  BY <1>1, <1>3, <1>6 DEF P!Die, P!PayAllRead, P!PaySingleRead, P!GetSlip, P!EditRead
<1> QED
  BY <1>2, <1>4, <1>5, <1>6
     DEF P!Next, P!vars, P!SlipWrite, P!SlipRead, P!SlipFail, P!LinkExpires, P!SetSalary

\* Only a termination ends the employment.
LEMMA WhoLeaves ==
    ASSUME PayTypeInv, [P!Next]_(P!vars), NEW s \in Staff, employed[s], ~ employed'[s]
    PROVE  \E r \in Request : P!TerminateWrite(r) /\ payrollReq[r].at = s
<1>1. ASSUME NEW r \in Request, P!TerminateWrite(r) PROVE payrollReq[r].at = s
  BY <1>1 DEF P!TerminateWrite, PayTypeInv, StaffTyped
<1>2. employed' # employed
  OBVIOUS
<1> QED
  BY <1>1, <1>2
     DEF P!Next, P!Step, P!vars, P!staffVars, P!ProcessRead, P!ProcessLookup, P!ProcessInsert, P!QueueSlip, P!Done,
         P!EditRead, P!EditWrite, P!PayAllRead, P!PaySingleRead, P!PayWrite, P!PayQueue, P!GetSlip, P!StoreSlip,
         P!LinkExpires, P!SlipRead, P!SlipWrite, P!SlipFail, P!SetSalary, P!TerminateRead, P!Die

LEMMA NextLeaver == P!PayrollAssumption /\ PayTypeInv /\ LeaverInv /\ [P!Next]_(P!vars) => LeaverInv'
<1> SUFFICES ASSUME P!PayrollAssumption, PayTypeInv, LeaverInv, [P!Next]_(P!vars),
                    NEW s \in Staff \ late'
             PROVE  /\ s \in P!Drafts' => employed'[s] /\ \A r \in Request : ~ Quits(r, s)'
                    /\ \A r \in Request : Listed(r, s)' => employed'[s]
  BY DEF LeaverInv
<1>0. /\ s \in P!Drafts => employed[s] /\ \A r \in Request : ~ Quits(r, s)
      /\ \A r \in Request : Listed(r, s) => employed[s]
  BY LateGrows DEF LeaverInv
<1>1. \A r \in Request : P!TerminateWrite(r) /\ payrollReq[r].at = s =>
        s \notin P!Drafts /\ s \notin P!Drafts' /\ \A q \in Request : ~ Listed(q, s)'
  <2> SUFFICES ASSUME NEW r \in Request, P!TerminateWrite(r), payrollReq[r].at = s
               PROVE  s \notin P!Drafts /\ s \notin P!Drafts' /\ \A q \in Request : ~ Listed(q, s)'
    OBVIOUS
  <2>1. s \notin P!Drafts /\ s \notin P!Drafts'
    BY <1>0 DEF P!TerminateWrite, Quits, P!Drafts, P!Rows
  <2>2. \A q \in Request : ~ Listed(q, s)
    BY DEF P!TerminateWrite, Listed, P!InHand
  <2>3. Others(r) /\ payrollReq'[r] = P!Idle
    BY Ending DEF P!TerminateWrite
  <2> QED BY <2>1, <2>2, <2>3 DEF Listed, Others, P!Idle
<1>2. s \in P!Drafts' /\ s \notin P!Drafts =>
        employed'[s] /\ \A r \in Request : ~ Quits(r, s)'
  <2> SUFFICES ASSUME s \in P!Drafts', s \notin P!Drafts
               PROVE  employed'[s] /\ \A r \in Request : ~ Quits(r, s)'
    OBVIOUS
  <2>1. PICK r \in Request : P!ProcessInsert(r) /\ payrollReq[r].at = s /\ s \notin P!Rows
    BY NewDrafts
  <2>2. employed[s] /\ employed' = employed
    BY <1>0, <2>1 DEF P!ProcessInsert, Listed, P!staffVars
  <2>3. \A q \in Request : ~ Quits(q, s)
    BY <2>1 DEF P!ProcessInsert, P!InHand, Quits
  <2>a. row' # row
    BY DEF P!Drafts, P!Rows
  <2>4. \A q \in Request : ~ Quits(q, s)'
    BY <2>3, <2>a, RequestClaims DEF Others, Unclaiming, Claiming, Quits
  <2> QED BY <2>2, <2>4
<1>3. s \in P!Drafts => \A r \in Request : ~ Quits(r, s)'
  BY <1>0, RequestClaims DEF Others, Unclaiming, Claiming, Quits
<1>4. \A r \in Request : Listed(r, s)' => employed[s]
  BY <1>0, RequestClaims DEF Others, Unclaiming, Claiming, Listed
<1>5. \A r \in Request : Listed(r, s)' => employed'[s]
  BY <1>1, <1>4, WhoLeaves
<1>6. s \in P!Drafts /\ s \in P!Drafts' => employed'[s]
  BY <1>0, <1>1, WhoLeaves
<1> QED BY <1>2, <1>3, <1>5, <1>6

\* Staff.remove refuses to let somebody go whose payroll is unpaid: a DRAFT is
\* of somebody employed, unless a payroll run was in flight as they left.
THEOREM LeaversWerePaid == P!PayrollAssumption => (P!Spec => []P!LeaversArePaid)
<1> SUFFICES ASSUME P!PayrollAssumption PROVE P!Spec => []P!LeaversArePaid
  OBVIOUS
<1>1. LeaverInv => P!LeaversArePaid
  BY DEF LeaverInv, P!LeaversArePaid, P!Drafts, P!Rows
<1>2. PayTypeInv /\ LeaverInv /\ [P!Next]_(P!vars) => LeaverInv'
  BY NextLeaver
<1> QED BY <1>1, <1>2, InitPaid, TypeInvHolds, PTL DEF P!Spec

-----------------------------------------------------------------------------
(* The month *)

\* A month all paid keeps its figures, but for those raced for and until
\* somebody is added to it: PAID is not a figure of the moment.
THEOREM PaidMonthStaysSettled == P!PayrollAssumption => (P!Spec => P!PaidMonthIsSettled)
<1> SUFFICES ASSUME P!PayrollAssumption PROVE P!Spec => P!PaidMonthIsSettled
  OBVIOUS
<1>1. PayTypeInv /\ PaidInv /\ [P!Next]_(P!vars) =>
        [P!Summary.status = "PAID" /\ P!Rows' = P!Rows /\ P!Rows \cap raced = {} => P!Summary' = P!Summary]_(P!vars)
  <2> SUFFICES ASSUME PayTypeInv, PaidInv, [P!Next]_(P!vars),
                      P!Summary.status = "PAID", P!Rows' = P!Rows, P!Rows \cap raced = {}
               PROVE  P!Summary' = P!Summary
    OBVIOUS
  <2>1. P!Drafts = {}
    BY DEF P!Summary
  <2>2. \A s \in P!Rows : s \in P!Paid \ raced
    BY <2>1 DEF P!Drafts, P!Paid, P!Rows, PayTypeInv, RowsTyped, P!PayrollRow
  <2>3. P!Drafts' = {}
    <3>1. \A s \in P!Drafts' : s \in P!Rows
      BY DEF P!Drafts
    <3> QED BY <2>1, <3>1, NewDrafts
  <2>4. PICK f, g, Everyone : f = row /\ g = row' /\ Everyone = P!Rows
    OBVIOUS
  <2>5. \A s \in Everyone : f[s].net = g[s].net
    BY <2>2, <2>4, FrozenStep
  <2>6. NetOf(f, Everyone) = NetOf(g, Everyone)
    BY <2>5, SumSame
  <2>7. P!Summary = [totalStaff |-> P!Cardinality(Everyone), totalNet |-> NetOf(f, Everyone), status |-> "PAID"]
    BY <2>1, <2>4 DEF P!Summary, NetOf, P!MapThenSumSet, P!MapThenFoldSet
  <2>8. P!Summary' = [totalStaff |-> P!Cardinality(Everyone), totalNet |-> NetOf(g, Everyone), status |-> "PAID"]
    BY <2>3, <2>4 DEF P!Summary, NetOf, P!MapThenSumSet, P!MapThenFoldSet
  <2> QED BY <2>6, <2>7, <2>8
<1> QED BY <1>1, TypeInvHolds, PaidInvHolds, PTL DEF P!Spec, P!PaidMonthIsSettled

(***************************************************************************)
(* Leave: decisions and the calendar                                       *)
(***************************************************************************)
LEMMA SameFinite == \A S : L!IsFiniteSet(S) <=> IsFiniteSet(S)
BY DEF L!IsFiniteSet, IsFiniteSet

LEMMA SameCardinality == \A S : L!Cardinality(S) = Cardinality(S)
BY DEF L!Cardinality, Cardinality

\* What a request in flight remembers.
Application == [op : {"apply"}, leave : LeaveId, type : Type, from : Day, to : Day]
Decision == [op : {"approve", "reject"}, leave : LeaveId]

Applying(r) == leaveReq[r].op = "apply"
Decides(r) == leaveReq[r].op \in {"approve", "reject"}

LeaveTypeInv ==
    /\ L!TypeOK
    /\ leaveReq \in [Request -> {L!Idle} \cup Application \cup Decision]
    /\ \A r \in Request : Applying(r) => leaveReq[r].from <= leaveReq[r].to
    /\ \A r \in Request : Decides(r) => leaveReq[r].leave \in L!Leaves

\* A leave has one application and is decided after that; unless two decisions
\* met, there is one in flight and the leave is still PENDING.
OneAtATime ==
    /\ \A r \in Request : Applying(r) => leaveReq[r].leave \notin L!Leaves
    /\ \A q, r \in Request : Applying(q) /\ Applying(r) /\ leaveReq[q].leave = leaveReq[r].leave => q = r
    /\ \A q, r \in Request :
         Decides(q) /\ Decides(r) /\ leaveReq[q].leave = leaveReq[r].leave =>
            q = r \/ leaveReq[q].leave \in contested
    /\ \A r \in Request : Decides(r) => leaveReq[r].leave \in L!With("PENDING") \cup contested

\* A day worked within a leave was marked after the application was checked.
WorkedSince(l, from, to) ==
    \A d \in Day : d \in from .. to /\ attendance[d] = "PRESENT" => d \in since[l]
WorkIsKnown ==
    /\ \A l \in L!Leaves : WorkedSince(l, leave[l].from, leave[l].to)
    /\ \A r \in Request : Applying(r) => WorkedSince(leaveReq[r].leave, leaveReq[r].from, leaveReq[r].to)

LeaveInv == LeaveTypeInv /\ OneAtATime /\ L!OnlyGrantedLeaveIsMarked /\ WorkIsKnown

-----------------------------------------------------------------------------
LEMMA InitLeave == L!LeaveAssumption /\ L!Init => LeaveInv
<1> SUFFICES ASSUME L!LeaveAssumption, L!Init PROVE LeaveInv
  OBVIOUS
<1>1. L!Leaves = {} /\ \A r \in Request : leaveReq[r] = L!Idle /\ ~Applying(r) /\ ~Decides(r)
  BY DEF L!Init, L!Leaves, Applying, Decides, L!Idle
<1>2. LeaveTypeInv
  BY <1>1 DEF L!Init, LeaveTypeInv, L!TypeOK, L!Idle
<1>3. OneAtATime /\ WorkIsKnown
  BY <1>1 DEF OneAtATime, WorkIsKnown
<1>4. L!OnlyGrantedLeaveIsMarked
  BY DEF L!Init, L!OnlyGrantedLeaveIsMarked, L!LeaveAssumption
<1> QED BY <1>2, <1>3, <1>4 DEF LeaveInv

\* A mark made in bulk is as good as a single one.
LEMMA Cases ==
    [L!Next]_(L!vars) =>
      \/ L!Midnight \/ UNCHANGED L!vars
      \/ \E d \in Day, status \in L!Status : L!Record(d, status)
      \/ \E r \in Request : L!ApplyWrite(r) \/ L!ApproveWrite(r) \/ L!RejectWrite(r) \/ L!Fail(r)
      \/ \E r \in Request, l \in LeaveId, op \in {"approve", "reject"} : L!DecideRead(r, l, op)
      \/ \E r \in Request, l \in LeaveId, from, to \in Day, type \in Type :
           L!ApplyRead(r, l, from, to, type)
<1>1. \A d \in Day, status \in L!Status : L!BulkMark(d, <<"ABSENT", status>>) => L!Record(d, status)
  BY DEF L!BulkMark, L!Last
<1> QED BY <1>1 DEF L!Next, L!Mark

\* A request that ends leaves the others what they remember.
RequestsLeft(r) ==
    /\ leaveReq' \in [Request -> {L!Idle} \cup Application \cup Decision]
    /\ \A q \in Request : Applying(q)' \/ Decides(q)' => q # r /\ leaveReq'[q] = leaveReq[q]
    /\ \A q \in Request : Applying(q)' => leaveReq'[q].from <= leaveReq'[q].to
    /\ \A q \in Request : Decides(q)' => leaveReq'[q].leave \in L!Leaves'

LEMMA Free ==
    ASSUME LeaveTypeInv, NEW r \in Request, leaveReq' = [leaveReq EXCEPT ![r] = L!Idle], L!Leaves \subseteq L!Leaves'
    PROVE  RequestsLeft(r)
BY DEF LeaveTypeInv, RequestsLeft, Applying, Decides, L!Idle

\* A decision changes the status of one row.
LEMMA SetStatus ==
    ASSUME L!LeaveAssumption, LeaveTypeInv, NEW l \in LeaveId, NEW status \in {"APPROVED", "REJECTED"},
           NEW r \in Request, l \in L!Leaves,
           leave' = [leave EXCEPT ![l].status = status], leaveReq' = [leaveReq EXCEPT ![r] = L!Idle]
    PROVE  /\ leave' \in [LeaveId -> L!LeaveRow \cup {None}]
           /\ leave'[l].status = status
           /\ \A k \in LeaveId \ {l} : leave'[k] = leave[k]
           /\ leave'[l].from = leave[l].from /\ leave'[l].to = leave[l].to
           /\ leave'[l].days = leave[l].days
           /\ L!Leaves' = L!Leaves
<1>1. leave \in [LeaveId -> L!LeaveRow \cup {None}] /\ leave[l] \in L!LeaveRow
  BY DEF LeaveTypeInv, L!TypeOK, L!Leaves
<1>2. /\ leave'[l] \in L!LeaveRow /\ leave'[l].status = status
      /\ leave'[l].from = leave[l].from /\ leave'[l].to = leave[l].to
      /\ leave'[l].days = leave[l].days
      /\ \A k \in LeaveId \ {l} : leave'[k] = leave[k]
      /\ leave' \in [LeaveId -> L!LeaveRow \cup {None}]
  BY <1>1 DEF L!LeaveRow
<1>3. L!Leaves' = L!Leaves
  BY <1>2 DEF L!Leaves, L!LeaveAssumption
<1> QED BY <1>2, <1>3

\* What the writes of a decision do.
LEMMA DecisionWrites ==
    ASSUME L!LeaveAssumption, LeaveTypeInv, NEW r \in Request, L!ApproveWrite(r) \/ L!RejectWrite(r)
    PROVE  /\ Decides(r) /\ leaveReq[r].leave \in L!Leaves /\ L!Leaves' = L!Leaves
           /\ leave' \in [LeaveId -> L!LeaveRow \cup {None}]
           /\ \A k \in LeaveId : k # leaveReq[r].leave => leave'[k] = leave[k]
           /\ \A k \in L!Leaves : /\ leave'[k].from = leave[k].from /\ leave'[k].to = leave[k].to
                                  /\ leave'[k].days = leave[k].days
           /\ leave'[leaveReq[r].leave].status =
                IF leaveReq[r].op = "approve" THEN "APPROVED" ELSE "REJECTED"
           /\ RequestsLeft(r) /\ UNCHANGED <<today, since, contested>>
<1>1. Decides(r) /\ leaveReq[r].leave \in L!Leaves /\ UNCHANGED <<today, since, contested>>
  BY DEF L!ApproveWrite, L!RejectWrite, Decides, LeaveTypeInv
<1>2. PICK status \in {"APPROVED", "REJECTED"} :
        /\ leave' = [leave EXCEPT ![leaveReq[r].leave].status = status]
        /\ status = IF leaveReq[r].op = "approve" THEN "APPROVED" ELSE "REJECTED"
  BY DEF L!ApproveWrite, L!RejectWrite
<1>3. leaveReq' = [leaveReq EXCEPT ![r] = L!Idle]
  BY DEF L!ApproveWrite, L!RejectWrite
<1>4. leaveReq[r].leave \in LeaveId
  BY <1>1 DEF L!Leaves
<1>5. /\ leave' \in [LeaveId -> L!LeaveRow \cup {None}] /\ L!Leaves' = L!Leaves
      /\ leave'[leaveReq[r].leave].status = status
      /\ \A k \in LeaveId \ {leaveReq[r].leave} : leave'[k] = leave[k]
      /\ leave'[leaveReq[r].leave].from = leave[leaveReq[r].leave].from
      /\ leave'[leaveReq[r].leave].to = leave[leaveReq[r].leave].to
      /\ leave'[leaveReq[r].leave].days = leave[leaveReq[r].leave].days
  BY <1>1, <1>2, <1>3, <1>4, SetStatus
<1>6. \A k \in L!Leaves : /\ leave'[k].from = leave[k].from /\ leave'[k].to = leave[k].to
                           /\ leave'[k].days = leave[k].days
  BY <1>5 DEF L!Leaves
<1>7. RequestsLeft(r)
  BY <1>3, <1>5, Free
<1> QED BY <1>1, <1>2, <1>5, <1>6, <1>7

\* What the write of an application does.
LEMMA ApplicationWrites ==
    ASSUME L!LeaveAssumption, LeaveTypeInv, NEW r \in Request, L!ApplyWrite(r)
    PROVE  /\ Applying(r) /\ leaveReq[r].leave \in LeaveId
           /\ L!Leaves' = L!Leaves \cup {leaveReq[r].leave}
           /\ leave' \in [LeaveId -> L!LeaveRow \cup {None}]
           /\ \A k \in LeaveId : k # leaveReq[r].leave => leave'[k] = leave[k]
           /\ leave'[leaveReq[r].leave].from = leaveReq[r].from
           /\ leave'[leaveReq[r].leave].to = leaveReq[r].to
           /\ leave'[leaveReq[r].leave].status = "PENDING"
           /\ leave'[leaveReq[r].leave].days = Cardinality(L!WorkDays(leaveReq[r].from, leaveReq[r].to))
           /\ leaveReq[r].from <= leaveReq[r].to
           /\ RequestsLeft(r) /\ UNCHANGED <<today, attendance, markedBy, since, contested>>
<1> DEFINE q == leaveReq[r]
<1>1. q \in Application /\ q.from <= q.to /\ q.from \in Int /\ q.to \in Int /\ Applying(r)
  <2>1. q.op = "apply" /\ q \in {L!Idle} \cup Application \cup Decision
    BY DEF L!ApplyWrite, LeaveTypeInv
  <2>2. L!Idle.op # "apply" /\ \A x \in Decision : x.op # "apply"
    BY DEF L!Idle, Decision
  <2>3. q \in Application
    BY <2>1, <2>2
  <2> QED
    BY <2>1, <2>3 DEF Application, Applying, L!LeaveAssumption, LeaveTypeInv
<1>2. Cardinality(L!WorkDays(q.from, q.to)) \in Nat
  BY <1>1, FS_Interval, FS_Difference, FS_CardinalityType DEF L!WorkDays
<1> DEFINE filed == [type |-> q.type, from |-> q.from, to |-> q.to, status |-> "PENDING",
                     days |-> Cardinality(L!WorkDays(q.from, q.to))]
<1>3. /\ filed \in L!LeaveRow /\ filed.from = q.from /\ filed.to = q.to /\ filed.status = "PENDING"
      /\ filed.days = Cardinality(L!WorkDays(q.from, q.to))
  BY <1>1, <1>2 DEF L!LeaveRow, Application
<1>4. /\ leave' = [leave EXCEPT ![q.leave] = filed]
      /\ leaveReq' = [leaveReq EXCEPT ![r] = L!Idle]
      /\ UNCHANGED <<today, attendance, markedBy, since, contested>>
      /\ q.leave \in LeaveId
  BY <1>1, SameCardinality DEF L!ApplyWrite, Application
<1> HIDE DEF filed
<1>5. /\ leave' \in [LeaveId -> L!LeaveRow \cup {None}] /\ leave'[q.leave] = filed
      /\ \A k \in LeaveId : k # q.leave => leave'[k] = leave[k]
  BY <1>3, <1>4 DEF LeaveTypeInv, L!TypeOK
<1>6. L!Leaves' = L!Leaves \cup {q.leave}
  BY <1>3, <1>4, <1>5 DEF L!Leaves, L!LeaveAssumption
<1>7. RequestsLeft(r)
  BY <1>4, <1>6, Free
<1> QED BY <1>1, <1>3, <1>4, <1>5, <1>6, <1>7

LEMMA NextType == L!LeaveAssumption /\ LeaveTypeInv /\ [L!Next]_(L!vars) => LeaveTypeInv'
<1> SUFFICES ASSUME L!LeaveAssumption, LeaveTypeInv, [L!Next]_(L!vars) PROVE LeaveTypeInv'
  OBVIOUS
<1> USE DEF LeaveTypeInv, L!TypeOK
<1>i. L!Idle.op = "idle" /\ \A x \in Application \cup Decision : x.op # "idle" /\ x # L!Idle
  BY DEF L!Idle, Application, Decision
<1>o. \A x \in {L!Idle} \cup Application \cup Decision : x.op \in {"idle", "apply", "approve", "reject"}
  BY DEF L!Idle, Application, Decision
<1>1. CASE L!Midnight
  BY <1>1 DEF L!Midnight, L!Leaves, Applying, Decides
<1>2. ASSUME NEW d \in Day, NEW status \in L!Status, L!Record(d, status) PROVE LeaveTypeInv'
  BY <1>2 DEF L!Record, L!Leaves, Applying, Decides
<1>3. ASSUME NEW r \in Request, L!ApplyWrite(r) PROVE LeaveTypeInv'
  <2>1. \A k \in L!Leaves' : leave'[k].from <= leave'[k].to
    BY <1>3, ApplicationWrites DEF L!Leaves
  <2> QED BY <1>3, <2>1, ApplicationWrites, <1>o DEF RequestsLeft
<1>4. ASSUME NEW r \in Request, L!ApproveWrite(r) PROVE LeaveTypeInv'
  <2> DEFINE l == leaveReq[r].leave  days == L!WorkDays(leave[l].from, leave[l].to)
  <2>1. l \in LeaveId
    BY <1>4, DecisionWrites DEF L!Leaves
  <2>2. /\ attendance' = [d \in Day |-> IF d \in days THEN "ON_LEAVE" ELSE attendance[d]]
        /\ markedBy' = [d \in Day |-> IF d \in days THEN l ELSE markedBy[d]]
    BY <1>4 DEF L!ApproveWrite
  <2>3. attendance' \in [Day -> L!Status \cup {None}] /\ markedBy' \in [Day -> LeaveId \cup {None}]
    BY <2>1, <2>2 DEF L!Status
  <2> HIDE DEF l, days
  <2> QED BY <1>4, <2>3, DecisionWrites, <1>o DEF RequestsLeft
<1>5. ASSUME NEW r \in Request, L!RejectWrite(r) PROVE LeaveTypeInv'
  <2>1. UNCHANGED <<attendance, markedBy>>
    BY <1>5 DEF L!RejectWrite
  <2> QED BY <1>5, <2>1, DecisionWrites, <1>o DEF RequestsLeft
<1>6. ASSUME NEW r \in Request, L!Fail(r) PROVE LeaveTypeInv'
  BY <1>6, <1>i DEF L!Fail, L!Leaves, Applying, Decides
<1>7. ASSUME NEW r \in Request, NEW l \in LeaveId, NEW op \in {"approve", "reject"},
             L!DecideRead(r, l, op)
      PROVE  LeaveTypeInv'
  <2> DEFINE x == [op |-> op, leave |-> l]
  <2>1. x \in Decision /\ x.op # "apply"
    BY DEF Decision
  <2>2. /\ leaveReq' = [leaveReq EXCEPT ![r] = x] /\ contested' \subseteq LeaveId
        /\ UNCHANGED <<today, attendance, leave, marks, markedBy, since>>
    BY <1>7 DEF L!DecideRead
  <2>3. l \in L!Leaves /\ L!Leaves' = L!Leaves
    BY <1>7, <2>2 DEF L!DecideRead, L!With, L!Leaves
  <2>4. x.leave = l
    OBVIOUS
  <2> HIDE DEF x
  <2>5. leaveReq' \in [Request -> {L!Idle} \cup Application \cup Decision]
    BY <2>1, <2>2
  <2>6. (/\ \A q \in Request : Applying(q) => leaveReq[q].from <= leaveReq[q].to
         /\ \A q \in Request : Decides(q) => leaveReq[q].leave \in L!Leaves)'
    BY <2>1, <2>2, <2>3, <2>4 DEF Applying, Decides
  <2>7. \A q \in Request : leaveReq'[q].op \in {"idle", "apply", "approve", "reject"}
    BY <2>5, <1>o
  <2>8. L!TypeOK'
    BY <2>2, <2>3, <2>7
  <2> QED BY <2>5, <2>6, <2>8 DEF Applying, Decides
<1>8. ASSUME NEW r \in Request, NEW l \in LeaveId, NEW from \in Day, NEW to \in Day,
             NEW type \in Type, L!ApplyRead(r, l, from, to, type)
      PROVE  LeaveTypeInv'
  <2> DEFINE x == [op |-> "apply", leave |-> l, type |-> type, from |-> from, to |-> to]
  <2>1. x \in Application /\ x.from <= x.to /\ x.op = "apply"
    BY <1>8 DEF Application, L!ApplyRead
  <2>2. /\ leaveReq' = [leaveReq EXCEPT ![r] = x] /\ since' = [since EXCEPT ![l] = {}]
        /\ UNCHANGED <<today, attendance, leave, marks, markedBy, contested>>
    BY <1>8 DEF L!ApplyRead
  <2> HIDE DEF x
  <2>3. leaveReq' \in [Request -> {L!Idle} \cup Application \cup Decision]
    BY <2>1, <2>2
  <2>4. L!Leaves' = L!Leaves /\ since' \in [LeaveId -> SUBSET Day]
    BY <2>2 DEF L!Leaves
  <2>5. (/\ \A q \in Request : Applying(q) => leaveReq[q].from <= leaveReq[q].to
         /\ \A q \in Request : Decides(q) => leaveReq[q].leave \in L!Leaves)'
    BY <2>1, <2>2, <2>4 DEF Applying, Decides
  <2>6. \A q \in Request : leaveReq'[q].op \in {"idle", "apply", "approve", "reject"}
    BY <2>3, <1>o
  <2>7. L!TypeOK'
    BY <2>2, <2>4, <2>6
  <2> QED BY <2>3, <2>5, <2>7 DEF Applying, Decides
<1>9. CASE UNCHANGED L!vars
  BY <1>9 DEF L!vars, L!Leaves, Applying, Decides
<1> QED BY <1>1, <1>2, <1>3, <1>4, <1>5, <1>6, <1>7, <1>8, <1>9, Cases

-----------------------------------------------------------------------------
(* One decision at a time *)

LEMMA NextOne ==
    ASSUME L!LeaveAssumption, LeaveInv, [L!Next]_(L!vars)
    PROVE  OneAtATime' /\ contested \subseteq contested'
<1> DEFINE Good == OneAtATime' /\ contested \subseteq contested'
<1> USE DEF LeaveInv, OneAtATime
\* Requests end, rows are left alone but for one nobody else is busy with.
<1>r. ASSUME NEW r \in Request, NEW l \in LeaveId, RequestsLeft(r), contested' = contested,
             L!Leaves' \in {L!Leaves, L!Leaves \cup {l}},
             \A k \in LeaveId : k # l => leave'[k] = leave[k],
             \A q \in Request \ {r} :
                (Applying(q) => leaveReq[q].leave # l) /\ (Decides(q) => leaveReq[q].leave # l \/ l \in contested)
      PROVE  Good
  <2>1. \A q \in Request : (Applying(q)' \/ Decides(q)') => q # r /\ leaveReq'[q] = leaveReq[q]
    BY <1>r DEF RequestsLeft
  <2>2. \A q \in Request : /\ Applying(q)' => Applying(q) /\ leaveReq[q].leave # l
                           /\ Decides(q)' => Decides(q)
    BY <1>r, <2>1 DEF Applying, Decides
  <2>3. \A k \in LeaveId \ {l} : k \in L!With("PENDING") => k \in L!With("PENDING")'
    BY <1>r DEF L!With, L!Leaves
  <2>4. (\A q \in Request : Applying(q) => leaveReq[q].leave \notin L!Leaves)'
    BY <1>r, <2>1, <2>2 DEF Applying, Decides
  <2>5. (\A p, q \in Request : Applying(p) /\ Applying(q) /\ leaveReq[p].leave = leaveReq[q].leave => p = q)'
    BY <2>1, <2>2 DEF Applying, Decides
  <2>6. (\A p, q \in Request :
            Decides(p) /\ Decides(q) /\ leaveReq[p].leave = leaveReq[q].leave =>
               p = q \/ leaveReq[p].leave \in contested)'
    BY <1>r, <2>1, <2>2 DEF Applying, Decides
  <2>7. (\A q \in Request : Decides(q) => leaveReq[q].leave \in L!With("PENDING") \cup contested)'
    BY <1>r, <2>1, <2>2, <2>3 DEF L!With, L!Leaves, Applying, Decides
  <2> QED BY <1>r, <2>4, <2>5, <2>6, <2>7
<1>1. ASSUME UNCHANGED <<leave, leaveReq, contested>> PROVE Good
  BY <1>1 DEF L!Leaves, L!With, Applying, Decides
<1>2. CASE L!Midnight \/ UNCHANGED L!vars \/ \E d \in Day, status \in L!Status : L!Record(d, status)
  BY <1>1, <1>2 DEF L!Midnight, L!vars, L!Record
<1>3. ASSUME NEW r \in Request, L!ApplyWrite(r) PROVE Good
  BY <1>3, <1>r, ApplicationWrites DEF Decides, L!Leaves, LeaveTypeInv
<1>4. ASSUME NEW r \in Request, L!ApproveWrite(r) \/ L!RejectWrite(r) PROVE Good
  BY <1>4, <1>r, DecisionWrites DEF L!Leaves
<1>5. ASSUME NEW r \in Request, L!Fail(r) PROVE Good
  <2>1. RequestsLeft(r) /\ UNCHANGED <<leave, contested>>
    BY <1>5, Free DEF L!Fail, L!Leaves
  <2>2. leaveReq[r].leave \in LeaveId /\ (Applying(r) \/ Decides(r))
    BY <1>5 DEF L!Fail, LeaveTypeInv, Application, Decision, Applying, Decides
  <2>3. \A q \in Request \ {r} :
           /\ Applying(q) => leaveReq[q].leave # leaveReq[r].leave
           /\ Decides(q) => leaveReq[q].leave # leaveReq[r].leave \/ leaveReq[r].leave \in contested
    BY <2>2 DEF LeaveTypeInv
  <2>4. L!Leaves' = L!Leaves
    BY <2>1 DEF L!Leaves
  <2> QED BY <1>r, <2>1, <2>2, <2>3, <2>4
<1>6. ASSUME NEW r \in Request, NEW l \in LeaveId, NEW op \in {"approve", "reject"},
             L!DecideRead(r, l, op)
      PROVE  Good
  <2>1. /\ l \in L!With("PENDING") /\ UNCHANGED leave
        /\ leaveReq'[r].leave = l /\ leaveReq'[r].op = op /\ \A q \in Request \ {r} : leaveReq'[q] = leaveReq[q]
        /\ contested' = IF L!Deciding(l) THEN contested \cup {l} ELSE contested
        /\ ~Applying(r) /\ ~Decides(r)
    BY <1>6 DEF L!DecideRead, LeaveTypeInv, L!Idle, Applying, Decides
  <2>2. \A q \in Request \ {r} : Decides(q) /\ leaveReq[q].leave = l => l \in contested'
    BY <2>1 DEF L!Deciding, Decides
  <2>3. L!Leaves' = L!Leaves /\ L!With("PENDING")' = L!With("PENDING") /\ contested \subseteq contested'
    BY <2>1 DEF L!Leaves, L!With
  <2>4. (\A q \in Request : Applying(q) => leaveReq[q].leave \notin L!Leaves)'
    BY <2>1, <2>3 DEF Applying
  <2>5. (\A p, q \in Request : Applying(p) /\ Applying(q) /\ leaveReq[p].leave = leaveReq[q].leave => p = q)'
    BY <2>1 DEF Applying
  <2>6. (\A p, q \in Request :
            Decides(p) /\ Decides(q) /\ leaveReq[p].leave = leaveReq[q].leave =>
               p = q \/ leaveReq[p].leave \in contested)'
    BY <2>1, <2>2, <2>3 DEF Decides
  <2>7. (\A q \in Request : Decides(q) => leaveReq[q].leave \in L!With("PENDING") \cup contested)'
    BY <2>1, <2>3 DEF Decides
  <2> QED BY <2>3, <2>4, <2>5, <2>6, <2>7
<1>7. ASSUME NEW r \in Request, NEW l \in LeaveId, NEW from \in Day, NEW to \in Day,
             NEW type \in Type, L!ApplyRead(r, l, from, to, type)
      PROVE  Good
  <2>1. /\ l \notin L!Leaves /\ UNCHANGED <<leave, contested>>
        /\ \A q \in Request : Applying(q) => leaveReq[q].leave # l
        /\ leaveReq'[r].leave = l /\ leaveReq'[r].op = "apply" /\ \A q \in Request \ {r} : leaveReq'[q] = leaveReq[q]
    BY <1>7 DEF L!ApplyRead, LeaveTypeInv, Applying
  <2>2. L!Leaves' = L!Leaves /\ L!With("PENDING")' = L!With("PENDING")
    BY <2>1 DEF L!Leaves, L!With
  <2>3. (\A q \in Request : Applying(q) => leaveReq[q].leave \notin L!Leaves)'
    BY <2>1, <2>2 DEF Applying
  <2>4. (\A p, q \in Request : Applying(p) /\ Applying(q) /\ leaveReq[p].leave = leaveReq[q].leave => p = q)'
    BY <2>1 DEF Applying
  <2>5. (\A p, q \in Request :
            Decides(p) /\ Decides(q) /\ leaveReq[p].leave = leaveReq[q].leave =>
               p = q \/ leaveReq[p].leave \in contested)'
    BY <2>1 DEF Decides
  <2>6. (\A q \in Request : Decides(q) => leaveReq[q].leave \in L!With("PENDING") \cup contested)'
    BY <2>1, <2>2 DEF Decides
  <2> QED BY <2>1, <2>3, <2>4, <2>5, <2>6
<1> QED BY <1>2, <1>3, <1>4, <1>5, <1>6, <1>7, Cases

-----------------------------------------------------------------------------
(* The calendar *)

LEMMA NextGranted ==
    ASSUME L!LeaveAssumption, LeaveInv, [L!Next]_(L!vars)
    PROVE  L!OnlyGrantedLeaveIsMarked'
<1> DEFINE Good == L!OnlyGrantedLeaveIsMarked'
<1> USE DEF LeaveInv
<1>c. contested \subseteq contested'
  BY NextOne
\* A mark is an old one, or none, and what was granted still is.
<1>m. ASSUME \A d \in Day : markedBy'[d] \in {markedBy[d], None},
             \A k \in LeaveId \ contested :
                (\E d \in Day : markedBy[d] = k) /\ k \in L!With("APPROVED") => k \in L!With("APPROVED")'
      PROVE  Good
  BY <1>c, <1>m DEF L!OnlyGrantedLeaveIsMarked, L!LeaveAssumption
<1>1. ASSUME UNCHANGED leave, \A d \in Day : markedBy'[d] \in {markedBy[d], None} PROVE Good
  BY <1>1, <1>m DEF L!With, L!Leaves
<1>2. CASE L!Midnight \/ UNCHANGED L!vars \/ \E d \in Day, status \in L!Status : L!Record(d, status)
  BY <1>1, <1>2 DEF L!Midnight, L!vars, L!Record, LeaveTypeInv, L!TypeOK
<1>3. ASSUME NEW r \in Request, L!ApplyWrite(r) PROVE Good
  <2>1. leaveReq[r].leave \notin L!Leaves
    BY <1>3, ApplicationWrites DEF OneAtATime
  <2>2. \A k \in LeaveId : k \in L!With("APPROVED") => k \in L!With("APPROVED")'
    BY <1>3, <2>1, ApplicationWrites DEF L!With, L!Leaves
  <2> QED BY <1>3, <1>m, <2>2, ApplicationWrites
<1>4. ASSUME NEW r \in Request, L!ApproveWrite(r) PROVE Good
  <2>1. \A d \in Day : markedBy'[d] \in {markedBy[d], leaveReq[r].leave}
    BY <1>4 DEF L!ApproveWrite
  <2>2. leaveReq[r].op = "approve"
    BY <1>4 DEF L!ApproveWrite
  <2>3. /\ leaveReq[r].leave \in L!With("APPROVED")'
        /\ \A k \in L!With("APPROVED") : k \in L!With("APPROVED")'
    BY <1>4, <2>2, DecisionWrites DEF L!With, L!Leaves
  <2> QED BY <1>c, <2>1, <2>3 DEF L!OnlyGrantedLeaveIsMarked
<1>5. ASSUME NEW r \in Request, L!RejectWrite(r) PROVE Good
  <2>1. leaveReq[r].leave \in L!With("PENDING") \cup contested
    BY <1>5, DecisionWrites DEF OneAtATime
  <2>2. \A k \in L!With("APPROVED") \ contested : k \in L!With("APPROVED")'
    BY <1>5, <2>1, DecisionWrites DEF L!With, L!Leaves
  <2>3. UNCHANGED markedBy
    BY <1>5 DEF L!RejectWrite
  <2> QED BY <1>m, <2>2, <2>3
<1>6. ASSUME NEW r \in Request, L!Fail(r) PROVE Good
  BY <1>6, <1>1 DEF L!Fail
<1>7. ASSUME NEW r \in Request, NEW l \in LeaveId, NEW op \in {"approve", "reject"},
             L!DecideRead(r, l, op)
      PROVE  Good
  BY <1>7, <1>1 DEF L!DecideRead
<1>8. ASSUME NEW r \in Request, NEW l \in LeaveId, NEW from \in Day, NEW to \in Day,
             NEW type \in Type, L!ApplyRead(r, l, from, to, type)
      PROVE  Good
  BY <1>8, <1>1 DEF L!ApplyRead
<1> QED BY <1>2, <1>3, <1>4, <1>5, <1>6, <1>7, <1>8, Cases

LEMMA NextWork ==
    ASSUME L!LeaveAssumption, LeaveInv, [L!Next]_(L!vars)
    PROVE  WorkIsKnown'
<1> DEFINE Good == WorkIsKnown'
<1> USE DEF LeaveInv
\* Steps that neither apply for leave nor move it.
<1>w. ASSUME \A l \in LeaveId, d \in Day :
                /\ d \in since[l] => d \in since'[l]
                /\ attendance'[d] = "PRESENT" => attendance[d] = "PRESENT" \/ d \in since'[l],
             L!Leaves' = L!Leaves,
             \A l \in L!Leaves : leave'[l].from = leave[l].from /\ leave'[l].to = leave[l].to,
             \A q \in Request : Applying(q)' => Applying(q) /\ leaveReq'[q] = leaveReq[q]
      PROVE  Good
  <2>1. \A q \in Request : Applying(q) => leaveReq[q].leave \in LeaveId
    BY DEF LeaveTypeInv, Applying, L!Idle, Application, Decision
  <2>2. (\A l \in L!Leaves : WorkedSince(l, leave[l].from, leave[l].to))'
    BY <1>w DEF WorkIsKnown, WorkedSince, L!Leaves
  <2>3. (\A q \in Request : Applying(q) => WorkedSince(leaveReq[q].leave, leaveReq[q].from, leaveReq[q].to))'
    BY <1>w, <2>1 DEF WorkIsKnown, WorkedSince, Applying
  <2> QED BY <2>2, <2>3 DEF WorkIsKnown
<1>1. CASE L!Midnight \/ UNCHANGED L!vars
  BY <1>1, <1>w DEF L!Midnight, L!vars, L!Leaves, Applying
<1>2. ASSUME NEW d \in Day, NEW status \in L!Status, L!Record(d, status) PROVE Good
  <2>1. UNCHANGED <<leave, leaveReq>>
    BY <1>2 DEF L!Record
  <2>2. \A l \in LeaveId, e \in Day :
          /\ e \in since[l] => e \in since'[l]
          /\ attendance'[e] = "PRESENT" => attendance[e] = "PRESENT" \/ e \in since'[l]
    BY <1>2 DEF L!Record, LeaveTypeInv, L!TypeOK
  <2> QED BY <1>w, <2>1, <2>2 DEF L!Leaves, Applying
<1>3. ASSUME NEW r \in Request, L!ApplyWrite(r) PROVE Good
  <2>1. leaveReq[r].leave \notin L!Leaves /\ WorkedSince(leaveReq[r].leave, leaveReq[r].from, leaveReq[r].to)
    BY <1>3, ApplicationWrites DEF OneAtATime, WorkIsKnown
  <2>2. (\A l \in L!Leaves : WorkedSince(l, leave[l].from, leave[l].to))'
    BY <1>3, <2>1, ApplicationWrites DEF WorkIsKnown, WorkedSince, L!Leaves
  <2>3. (\A q \in Request : Applying(q) => WorkedSince(leaveReq[q].leave, leaveReq[q].from, leaveReq[q].to))'
    BY <1>3, ApplicationWrites DEF WorkIsKnown, WorkedSince, RequestsLeft, Applying
  <2> QED BY <2>2, <2>3 DEF WorkIsKnown
<1>4. ASSUME NEW r \in Request, L!ApproveWrite(r) \/ L!RejectWrite(r) PROVE Good
  <2>1. \A d \in Day : attendance'[d] = "PRESENT" => attendance[d] = "PRESENT"
    BY <1>4 DEF L!ApproveWrite, L!RejectWrite
  <2>2. \A q \in Request : Applying(q)' => Applying(q) /\ leaveReq'[q] = leaveReq[q]
    BY <1>4, DecisionWrites DEF RequestsLeft, Applying
  <2> QED BY <1>4, <1>w, <2>1, <2>2, DecisionWrites
<1>5. ASSUME NEW r \in Request, L!Fail(r) PROVE Good
  <2>1. RequestsLeft(r)
    BY <1>5, Free DEF L!Fail, L!Leaves
  <2> QED BY <1>5, <1>w, <2>1 DEF L!Fail, L!Leaves, RequestsLeft, Applying
<1>6. ASSUME NEW r \in Request, NEW l \in LeaveId, NEW op \in {"approve", "reject"},
             L!DecideRead(r, l, op)
      PROVE  Good
  BY <1>6, <1>w DEF L!DecideRead, L!Leaves, Applying, LeaveTypeInv
<1>7. ASSUME NEW r \in Request, NEW l \in LeaveId, NEW from \in Day, NEW to \in Day,
             NEW type \in Type, L!ApplyRead(r, l, from, to, type)
      PROVE  Good
  <2>1. /\ l \notin L!Leaves /\ UNCHANGED <<leave, attendance>>
        /\ \A q \in Request : Applying(q) => leaveReq[q].leave # l
        /\ \A d \in from .. to : attendance[d] # "PRESENT"
        /\ \A k \in LeaveId : k # l => since'[k] = since[k]
    BY <1>7 DEF L!ApplyRead, LeaveTypeInv, L!TypeOK, Applying
  <2>2. /\ leaveReq'[r].leave = l /\ leaveReq'[r].from = from /\ leaveReq'[r].to = to
        /\ \A q \in Request \ {r} : leaveReq'[q] = leaveReq[q]
    BY <1>7 DEF L!ApplyRead, LeaveTypeInv
  <2>3. (\A k \in L!Leaves : WorkedSince(k, leave[k].from, leave[k].to))'
    BY <2>1 DEF WorkIsKnown, WorkedSince, L!Leaves
  <2>4. \A q \in Request : Applying(q) => leaveReq[q].leave \in LeaveId
    BY DEF LeaveTypeInv, Applying, L!Idle, Application, Decision
  <2>5. (\A q \in Request : Applying(q) => WorkedSince(leaveReq[q].leave, leaveReq[q].from, leaveReq[q].to))'
    BY <2>1, <2>2, <2>4 DEF WorkIsKnown, WorkedSince, Applying
  <2> QED BY <2>3, <2>5 DEF WorkIsKnown
<1> QED BY <1>1, <1>2, <1>3, <1>4, <1>5, <1>6, <1>7, Cases

-----------------------------------------------------------------------------
(* What a step may do *)

\* Nobody writes a leave that was decided, unless two decisions met on it.
LEMMA DecidedStays ==
    ASSUME L!LeaveAssumption, LeaveInv, [L!Next]_(L!vars), NEW l \in L!Leaves \ contested,
           leave[l].status # "PENDING"
    PROVE  leave'[l].status = leave[l].status
<1> USE DEF LeaveInv
<1>0. l \in LeaveId
  BY DEF L!Leaves
<1>1. \A r \in Request : (Applying(r) \/ Decides(r)) => leaveReq[r].leave # l
  BY DEF OneAtATime, L!With
<1>2. CASE leave' = leave
  BY <1>2
<1>3. ASSUME NEW r \in Request, L!ApplyWrite(r) PROVE leave'[l] = leave[l]
  BY <1>0, <1>1, <1>3, ApplicationWrites
<1>4. ASSUME NEW r \in Request, L!ApproveWrite(r) \/ L!RejectWrite(r) PROVE leave'[l] = leave[l]
  BY <1>0, <1>1, <1>4, DecisionWrites
<1> QED BY <1>2, <1>3, <1>4, Cases DEF L!Midnight, L!Record, L!Fail, L!DecideRead, L!ApplyRead, L!vars

\* An approval that overwrites a day worked knew nothing of it.
LEMMA WorkStays ==
    ASSUME L!LeaveAssumption, LeaveInv, [L!Next]_(L!vars), NEW d \in Day,
           attendance[d] = "PRESENT", markedBy'[d] # markedBy[d]
    PROVE  d \in since[markedBy'[d]] \/ markedBy'[d] = None
<1> USE DEF LeaveInv
<1>1. ASSUME NEW e \in Day, NEW status \in L!Status, L!Record(e, status)
      PROVE  markedBy'[d] = None
  BY <1>1 DEF L!Record, LeaveTypeInv, L!TypeOK
<1>2. ASSUME NEW r \in Request, L!ApproveWrite(r)
      PROVE  d \in since[markedBy'[d]]
  <2> DEFINE l == leaveReq[r].leave
  <2>1. markedBy'[d] = l /\ d \in leave[l].from .. leave[l].to
    BY <1>2 DEF L!ApproveWrite, L!WorkDays
  <2>2. l \in L!Leaves
    BY <1>2, DecisionWrites
  <2> QED BY <2>1, <2>2 DEF WorkIsKnown, WorkedSince
<1>3. ASSUME NEW r \in Request, L!ApplyWrite(r) \/ L!RejectWrite(r) \/ L!Fail(r) PROVE FALSE
  BY <1>3 DEF L!ApplyWrite, L!RejectWrite, L!Fail
<1>4. ASSUME NEW r \in Request, NEW l \in LeaveId, NEW op \in {"approve", "reject"},
             L!DecideRead(r, l, op)
      PROVE  FALSE
  BY <1>4 DEF L!DecideRead
<1>5. ASSUME NEW r \in Request, NEW l \in LeaveId, NEW from \in Day, NEW to \in Day,
             NEW type \in Type, L!ApplyRead(r, l, from, to, type)
      PROVE  FALSE
  BY <1>5 DEF L!ApplyRead
<1>6. CASE L!Midnight \/ UNCHANGED L!vars
  BY <1>6 DEF L!Midnight, L!vars
<1> QED BY <1>1, <1>2, <1>3, <1>4, <1>5, <1>6, Cases

LEMMA LeaveInvHolds == L!LeaveAssumption => (L!Spec => []LeaveInv)
<1> SUFFICES ASSUME L!LeaveAssumption PROVE L!Spec => []LeaveInv
  OBVIOUS
<1>1. L!Init => LeaveInv
  BY InitLeave
<1>2. LeaveInv /\ [L!Next]_(L!vars) => LeaveInv'
  BY NextType, NextOne, NextGranted, NextWork DEF LeaveInv
<1> QED BY <1>1, <1>2, PTL DEF L!Spec

-----------------------------------------------------------------------------
\* Calendar, leaves and requests keep their types.
THEOREM LeaveTypeCorrect == L!LeaveAssumption => (L!Spec => []L!TypeOK)
<1>1. LeaveInv => L!TypeOK
  BY DEF LeaveInv, LeaveTypeInv
<1> QED BY <1>1, LeaveInvHolds, PTL

\* approve and reject take a PENDING leave each: what was decided stays, unless
\* both had read it before either wrote.
THEOREM DecisionsStand == L!LeaveAssumption => (L!Spec => L!DecisionIsFinal)
<1> SUFFICES ASSUME L!LeaveAssumption PROVE L!Spec => L!DecisionIsFinal
  OBVIOUS
<1>1. LeaveInv /\ [L!Next]_(L!vars) =>
        [\A l \in L!Leaves \ contested :
            leave[l].status # "PENDING" => leave'[l].status = leave[l].status]_(L!vars)
  BY DecidedStays
<1> QED BY <1>1, LeaveInvHolds, PTL DEF L!Spec, L!DecisionIsFinal

\* No leave is on the calendar that was not granted, unless two decisions met.
THEOREM CalendarShowsGranted == L!LeaveAssumption => (L!Spec => []L!OnlyGrantedLeaveIsMarked)
<1>1. LeaveInv => L!OnlyGrantedLeaveIsMarked
  BY DEF LeaveInv
<1> QED BY <1>1, LeaveInvHolds, PTL

\* The check of apply holds until the approval: a day worked is overwritten
\* only if it was marked after the check.
THEOREM WorkIsKept == L!LeaveAssumption => (L!Spec => L!WorkIsNotForgotten)
<1> SUFFICES ASSUME L!LeaveAssumption PROVE L!Spec => L!WorkIsNotForgotten
  OBVIOUS
<1>1. LeaveInv /\ [L!Next]_(L!vars) =>
        [\A d \in Day : attendance[d] = "PRESENT" /\ markedBy'[d] # markedBy[d]
            => d \in since[markedBy'[d]] \/ markedBy'[d] = None]_(L!vars)
  BY WorkStays
<1> QED BY <1>1, LeaveInvHolds, PTL DEF L!Spec, L!WorkIsNotForgotten

-----------------------------------------------------------------------------
(* What the calendar shows has been charged *)

LeaveMarked == {d \in Day : markedBy[d] # None}
Charge == [l \in LeaveId |-> leave[l].days]
Granted == L!With("APPROVED")

\* A leave counts the days an approval marks; while no two decisions met, the
\* marks there are do not exceed what was counted.
DaysCounted ==
    \A l \in L!Leaves : leave[l].days = Cardinality(L!WorkDays(leave[l].from, leave[l].to))
ChargeInv ==
    /\ DaysCounted
    /\ contested = {} => Cardinality(LeaveMarked) <= SumOver(Charge, Granted)

LEMMA UsedIsSum == LeaveTypeInv => L!Used(Type) = SumOver(Charge, Granted)
<1> SUFFICES ASSUME LeaveTypeInv PROVE L!Used(Type) = SumOver(Charge, Granted)
  OBVIOUS
<1>1. PICK f, g, S : f = leave /\ g = Charge /\ S = Granted
  OBVIOUS
<1>2. {l \in Granted : leave[l].type \in Type} = Granted
  BY DEF LeaveTypeInv, L!TypeOK, Granted, L!With, L!Leaves, L!LeaveRow
<1>3. \A l \in S : f[l].days = g[l]
  BY <1>1 DEF Charge, Granted, L!With, L!Leaves
<1> DEFINE Rows(i) == [s \in SUBSET S |-> IF s = {} THEN 0
                                          ELSE f[Chosen(s)].days + i[s \ {Chosen(s)}]]
<1>4. \A i : i = Rows(i) <=> IsSum(g, S, i)
  <2>1. \A s \in SUBSET S : s # {} => Chosen(s) \in S
    BY ChosenIsIn
  <2> QED BY <1>3, <2>1 DEF IsSum, SumStep
<1>5. L!Used(Type) = (CHOOSE i : i = Rows(i))[S]
  BY <1>1, <1>2 DEF L!Used, Granted, L!MapThenSumSet, L!MapThenFoldSet, Chosen
<1>6. SumOver(g, S) = (CHOOSE i : IsSum(g, S, i))[S]
  BY DEF SumOver, MapThenSumSet, MapThenFoldSet, IsSum, SumStep, Chosen
<1>7. (CHOOSE i : i = Rows(i)) = CHOOSE i : IsSum(g, S, i)
  BY <1>4
<1> QED BY <1>1, <1>5, <1>6, <1>7

\* Both sides are numbers.
LEMMA ChargeType ==
    ASSUME L!LeaveAssumption, LeaveTypeInv
    PROVE  /\ IsFiniteSet(LeaveMarked) /\ Cardinality(LeaveMarked) \in Nat
           /\ IsFiniteSet(Granted) /\ \A l \in Granted : Charge[l] \in Int
           /\ SumOver(Charge, Granted) \in Int
<1>1. IsFiniteSet(LeaveMarked) /\ Cardinality(LeaveMarked) \in Nat
  BY FS_Subset, FS_CardinalityType, SameFinite DEF L!LeaveAssumption, LeaveMarked
<1>2. IsFiniteSet(Granted)
  BY FS_Subset, SameFinite DEF L!LeaveAssumption, Granted, L!With, L!Leaves
<1>3. \A l \in Granted : Charge[l] \in Int
  BY DEF Charge, Granted, L!With, L!Leaves, LeaveTypeInv, L!TypeOK, L!LeaveRow
<1> QED BY <1>1, <1>2, <1>3, SumOverAdds

LEMMA NextCounted ==
    ASSUME L!LeaveAssumption, LeaveInv, DaysCounted, [L!Next]_(L!vars)
    PROVE  DaysCounted'
<1> USE DEF LeaveInv
<1>1. CASE leave' = leave
  BY <1>1 DEF DaysCounted, L!Leaves
<1>2. ASSUME NEW r \in Request, L!ApplyWrite(r) PROVE DaysCounted'
  <2>1. \A l \in L!Leaves' : leave'[l].days = Cardinality(L!WorkDays(leave'[l].from, leave'[l].to))
    BY <1>2, ApplicationWrites DEF DaysCounted, L!Leaves
  <2> QED BY <2>1 DEF DaysCounted, L!WorkDays
<1>3. ASSUME NEW r \in Request, L!ApproveWrite(r) \/ L!RejectWrite(r) PROVE DaysCounted'
  <2>1. \A l \in L!Leaves' : leave'[l].days = Cardinality(L!WorkDays(leave'[l].from, leave'[l].to))
    BY <1>3, DecisionWrites DEF DaysCounted
  <2> QED BY <2>1 DEF DaysCounted, L!WorkDays
<1> QED BY <1>1, <1>2, <1>3, Cases DEF L!Midnight, L!Record, L!Fail, L!DecideRead, L!ApplyRead, L!vars

LEMMA NextCharge ==
    ASSUME L!LeaveAssumption, LeaveInv, LeaveTypeInv', ChargeInv, [L!Next]_(L!vars)
    PROVE  ChargeInv'
<1> USE DEF LeaveInv
<1> SUFFICES ASSUME contested' = {}
             PROVE  Cardinality(LeaveMarked') <= SumOver(Charge', Granted')
  BY NextCounted DEF ChargeInv
<1>0. contested = {} /\ Cardinality(LeaveMarked) <= SumOver(Charge, Granted)
  BY NextOne DEF ChargeInv
<1>t. /\ IsFiniteSet(LeaveMarked) /\ Cardinality(LeaveMarked) \in Nat
      /\ IsFiniteSet(Granted) /\ (\A l \in Granted : Charge[l] \in Int)
      /\ SumOver(Charge, Granted) \in Int
  BY ChargeType
\* Marks go or stay, and what was granted is charged as before.
<1>s. ASSUME \A d \in Day : markedBy'[d] \in {markedBy[d], None},
             Granted' = Granted, \A l \in Granted : leave'[l].days = leave[l].days
      PROVE  Cardinality(LeaveMarked') <= SumOver(Charge', Granted')
  <2>1. LeaveMarked' \in SUBSET LeaveMarked
    BY <1>s DEF LeaveMarked
  <2>2. Cardinality(LeaveMarked') <= Cardinality(LeaveMarked) /\ Cardinality(LeaveMarked') \in Nat
    BY <1>t, <2>1, FS_Subset, FS_CardinalityType
  <2>3. PICK f, g, S : f = Charge /\ g = Charge' /\ S = Granted
    OBVIOUS
  <2>4. \A l \in S : f[l] = g[l]
    BY <1>s, <2>3 DEF Charge, Granted, L!With, L!Leaves
  <2>5. SumOver(f, S) = SumOver(g, S)
    BY <1>t, <2>3, <2>4, SumOverSame
  <2>6. SumOver(g, S) = SumOver(Charge', Granted')
    BY <1>s, <2>3
  <2> QED BY <1>0, <1>t, <2>2, <2>3, <2>5, <2>6
<1>1. ASSUME UNCHANGED leave, \A d \in Day : markedBy'[d] \in {markedBy[d], None}
      PROVE  Cardinality(LeaveMarked') <= SumOver(Charge', Granted')
  BY <1>1, <1>s DEF Granted, L!With, L!Leaves
<1>2. CASE L!Midnight \/ UNCHANGED L!vars \/ \E d \in Day, status \in L!Status : L!Record(d, status)
  BY <1>1, <1>2 DEF L!Midnight, L!vars, L!Record, LeaveTypeInv, L!TypeOK
<1>3. ASSUME NEW r \in Request, L!ApplyWrite(r)
      PROVE  Cardinality(LeaveMarked') <= SumOver(Charge', Granted')
  <2>1. leaveReq[r].leave \notin L!Leaves
    BY <1>3, ApplicationWrites DEF OneAtATime
  <2>2. Granted' = Granted /\ \A l \in Granted : leave'[l].days = leave[l].days
    BY <1>3, <2>1, ApplicationWrites DEF Granted, L!With, L!Leaves
  <2> QED BY <1>3, <1>s, <2>2, ApplicationWrites
<1>4. ASSUME NEW r \in Request, L!RejectWrite(r)
      PROVE  Cardinality(LeaveMarked') <= SumOver(Charge', Granted')
  <2>1. leaveReq[r].leave \in L!With("PENDING") /\ leaveReq[r].op = "reject" /\ UNCHANGED markedBy
    BY <1>0, <1>4, DecisionWrites DEF OneAtATime, L!RejectWrite
  <2>2. Granted' = Granted /\ \A l \in Granted : leave'[l].days = leave[l].days
    BY <1>4, <2>1, DecisionWrites DEF Granted, L!With, L!Leaves
  <2> QED BY <1>s, <2>1, <2>2
<1>5. ASSUME NEW r \in Request, L!ApproveWrite(r)
      PROVE  Cardinality(LeaveMarked') <= SumOver(Charge', Granted')
  <2> DEFINE l == leaveReq[r].leave  days == L!WorkDays(leave[l].from, leave[l].to)
  <2>1. /\ l \in L!With("PENDING") /\ l \in L!Leaves /\ l \in LeaveId /\ leaveReq[r].op = "approve"
        /\ \A d \in Day : d \notin days => markedBy'[d] = markedBy[d]
    BY <1>0, <1>5, DecisionWrites DEF OneAtATime, L!ApproveWrite, L!Leaves
  <2>2. l \notin Granted /\ Granted' = Granted \cup {l}
    BY <1>5, <2>1, DecisionWrites DEF Granted, L!With, L!Leaves
  <2>3. IsFiniteSet(days) /\ Cardinality(days) \in Nat /\ leave[l].days = Cardinality(days)
    <3>1. leave[l].from \in Int /\ leave[l].to \in Int
      BY <2>1 DEF LeaveTypeInv, L!TypeOK, L!Leaves, L!LeaveRow, L!LeaveAssumption
    <3>2. IsFiniteSet(days) /\ Cardinality(days) \in Nat
      BY <3>1, FS_Interval, FS_Difference, FS_CardinalityType DEF L!WorkDays
    <3> QED BY <2>1, <3>2 DEF ChargeInv, DaysCounted
  <2> HIDE DEF days
  <2>4. Cardinality(LeaveMarked') <= Cardinality(LeaveMarked) + Cardinality(days) /\ Cardinality(LeaveMarked') \in Nat
    <3>1. LeaveMarked' \in SUBSET (LeaveMarked \cup days)
      BY <2>1 DEF LeaveMarked
    <3>2. IsFiniteSet(LeaveMarked \cup days) /\ IsFiniteSet(LeaveMarked \cap days)
          /\ Cardinality(LeaveMarked \cup days)
               = Cardinality(LeaveMarked) + Cardinality(days) - Cardinality(LeaveMarked \cap days)
      BY <1>t, <2>3, FS_Union, FS_Subset
    <3>3. Cardinality(LeaveMarked') <= Cardinality(LeaveMarked \cup days) /\ IsFiniteSet(LeaveMarked')
      BY <3>1, <3>2, FS_Subset
    <3>4. Cardinality(LeaveMarked') \in Nat /\ Cardinality(LeaveMarked \cap days) \in Nat
          /\ Cardinality(LeaveMarked \cup days) \in Nat
      BY <3>2, <3>3, FS_CardinalityType
    <3> QED BY <1>t, <2>3, <3>2, <3>3, <3>4
  <2>5. PICK f, g, S, k : f = Charge /\ g = Charge' /\ S = Granted /\ k = l
    OBVIOUS
  <2>6. (\A x \in S : f[x] = g[x]) /\ g[k] = Cardinality(days) /\ k \notin S
    BY <1>5, <2>1, <2>2, <2>3, <2>5, DecisionWrites DEF Charge, Granted, L!With, L!Leaves
  <2>7. SumOver(g, S \cup {k}) = g[k] + SumOver(f, S)
    <3>1. IsFiniteSet(S \cup {k}) /\ \A x \in S \cup {k} : g[x] \in Int
      BY <1>t, <2>3, <2>5, <2>6, FS_AddElement
    <3>2. SumOver(g, S \cup {k}) = g[k] + SumOver(g, (S \cup {k}) \ {k})
      BY <3>1, SumOverAdds
    <3>3. (S \cup {k}) \ {k} = S
      BY <2>6
    <3>4. SumOver(f, S) = SumOver(g, S)
      BY <1>t, <2>5, <2>6, SumOverSame
    <3> QED BY <3>2, <3>3, <3>4
  <2>8. SumOver(Charge', Granted') = SumOver(g, S \cup {k}) /\ SumOver(f, S) = SumOver(Charge, Granted)
    BY <2>2, <2>5
  <2> QED BY <1>0, <1>t, <2>3, <2>4, <2>6, <2>7, <2>8
<1>6. ASSUME NEW r \in Request, L!Fail(r)
      PROVE  Cardinality(LeaveMarked') <= SumOver(Charge', Granted')
  BY <1>6, <1>1 DEF L!Fail
<1>7. ASSUME NEW r \in Request, NEW l \in LeaveId, NEW op \in {"approve", "reject"},
             L!DecideRead(r, l, op)
      PROVE  Cardinality(LeaveMarked') <= SumOver(Charge', Granted')
  BY <1>7, <1>1 DEF L!DecideRead
<1>8. ASSUME NEW r \in Request, NEW l \in LeaveId, NEW from \in Day, NEW to \in Day,
             NEW type \in Type, L!ApplyRead(r, l, from, to, type)
      PROVE  Cardinality(LeaveMarked') <= SumOver(Charge', Granted')
  BY <1>8, <1>1 DEF L!ApplyRead
<1> QED BY <1>2, <1>3, <1>4, <1>5, <1>6, <1>7, <1>8, Cases

LEMMA ChargeInvHolds == L!LeaveAssumption => (L!Spec => [](LeaveInv /\ ChargeInv))
<1> SUFFICES ASSUME L!LeaveAssumption PROVE L!Spec => [](LeaveInv /\ ChargeInv)
  OBVIOUS
<1>1. L!Init => LeaveInv /\ ChargeInv
  <2> SUFFICES ASSUME L!Init PROVE LeaveInv /\ ChargeInv
    OBVIOUS
  <2>1. LeaveInv
    BY InitLeave
  <2>2. LeaveMarked = {} /\ L!Leaves = {} /\ Granted = {}
    BY DEF L!Init, LeaveMarked, L!Leaves, Granted, L!With
  <2>3. SumOver(Charge, Granted) = 0
    BY <2>1, <2>2, ChargeType, SumOverAdds DEF LeaveInv
  <2> QED BY <2>1, <2>2, <2>3, FS_EmptySet DEF ChargeInv, DaysCounted
<1>2. (LeaveInv /\ ChargeInv) /\ [L!Next]_(L!vars) => (LeaveInv /\ ChargeInv)'
  <2> SUFFICES ASSUME LeaveInv, ChargeInv, [L!Next]_(L!vars) PROVE (LeaveInv /\ ChargeInv)'
    OBVIOUS
  <2>1. LeaveInv'
    BY NextType, NextOne, NextGranted, NextWork DEF LeaveInv
  <2>2. ChargeInv'
    BY <2>1, NextCharge DEF LeaveInv
  <2> QED BY <2>1, <2>2
<1> QED BY <1>1, <1>2, PTL DEF L!Spec

\* The balance is charged for all the leave on the calendar, Sundays, marks made
\* by hand and rejections notwithstanding, unless two decisions met.
THEOREM CalendarWasCharged == L!LeaveAssumption => (L!Spec => []L!CalendarIsCharged)
<1> SUFFICES ASSUME L!LeaveAssumption PROVE L!Spec => []L!CalendarIsCharged
  OBVIOUS
<1>1. LeaveInv /\ ChargeInv => L!CalendarIsCharged
  BY UsedIsSum, SameCardinality DEF LeaveInv, ChargeInv, L!CalendarIsCharged, LeaveMarked
<1> QED BY <1>1, ChargeInvHolds, PTL

\* The leave the summary of the month shows was charged, or marked by hand.
THEOREM SummaryWasCharged == L!LeaveAssumption => (L!Spec => []L!SummaryAgrees)
<1> SUFFICES ASSUME L!LeaveAssumption PROVE L!Spec => []L!SummaryAgrees
  OBVIOUS
<1> DEFINE Away == {d \in Day : attendance[d] = "ON_LEAVE"}
           ByHand == {d \in Day : attendance[d] = "ON_LEAVE" /\ markedBy[d] = None}
<1>1. LeaveInv /\ ChargeInv => L!SummaryAgrees
  <2> SUFFICES ASSUME LeaveInv, ChargeInv, contested = {}
               PROVE  Cardinality(Away) <= L!Used(Type) + Cardinality(ByHand)
    BY SameCardinality DEF L!SummaryAgrees, L!Summary, L!Days
  <2>1. Cardinality(LeaveMarked) <= L!Used(Type) /\ L!Used(Type) \in Int
    BY UsedIsSum, ChargeType DEF LeaveInv, ChargeInv
  <2>2. IsFiniteSet(LeaveMarked) /\ IsFiniteSet(ByHand) /\ Cardinality(LeaveMarked) \in Nat
        /\ Cardinality(ByHand) \in Nat
    BY ChargeType, FS_Subset, FS_CardinalityType, SameFinite DEF LeaveInv, L!LeaveAssumption
  <2>3. Away \in SUBSET (LeaveMarked \cup ByHand)
    BY DEF LeaveMarked
  <2> HIDE DEF Away, ByHand
  <2>4. IsFiniteSet(LeaveMarked \cup ByHand) /\ IsFiniteSet(LeaveMarked \cap ByHand)
        /\ Cardinality(LeaveMarked \cup ByHand)
             = Cardinality(LeaveMarked) + Cardinality(ByHand) - Cardinality(LeaveMarked \cap ByHand)
    BY <2>2, FS_Union, FS_Subset
  <2>5. Cardinality(Away) <= Cardinality(LeaveMarked \cup ByHand) /\ IsFiniteSet(Away)
    BY <2>3, <2>4, FS_Subset
  <2>6. Cardinality(Away) \in Nat /\ Cardinality(LeaveMarked \cap ByHand) \in Nat
        /\ Cardinality(LeaveMarked \cup ByHand) \in Nat
    BY <2>4, <2>5, FS_CardinalityType
  <2> QED BY <2>1, <2>2, <2>4, <2>5, <2>6
<1> QED BY <1>1, ChargeInvHolds, PTL

(***************************************************************************)
(* Crm: contacts, leads, their activities and the lists in Redis           *)
(***************************************************************************)

(* the invariant *)

ContactRow == [phone : Phone, active : BOOLEAN]
LeadRow == [contact : Contact, pipeline : Nat, stage : Stage, status : {"OPEN", "WON", "LOST"}]
ListRow == [asked : Query, ids : SUBSET (Contact \cup Lead), stale : BOOLEAN]
CrmCall ==
    [op : {"idle", "contact", "delete", "lead", "list", "seed"},
     step : {"done", "check", "write", "note", "drop", "fill"},
     at : Contact \cup Lead \cup {None},
     arg : Phone \cup {"OPEN", "WON", "LOST", "moved", None} \cup Query,
     ids : SUBSET (Contact \cup Lead), over : BOOLEAN]
\* A request has what its step works on; rows are never deleted.
Prepared(q, contacts, leads) ==
    /\ q.op = "contact" => q.at \in Contact /\ q.arg \in Phone
    /\ q.op = "delete" => q.at \in contacts
    /\ q.op = "lead" => q.at \in leads
    /\ q.op = "list" => q.arg \in Query /\ q.step = "fill"
    /\ q.op = "seed" => q.step = "write"
    /\ q.step = "drop" => q.op \in {"contact", "delete", "lead"}
    /\ q.step = "note" => q.op = "lead" /\ q.arg \in {"OPEN", "WON", "LOST", "moved"}

CrmRows ==
    /\ contact \in [Contact -> ContactRow \cup {None}]
    /\ lead \in [Lead -> LeadRow \cup {None}]
    /\ pipelines \in Seq(SUBSET Stage)
    /\ told \in [Lead -> {"OPEN", "WON", "LOST", None}]
    /\ cache \in [C!Keys -> ListRow \cup {None}]
    /\ reseeded \in BOOLEAN
LeadsHaveRows ==
    \A l \in C!Leads : lead[l].contact \in C!Contacts /\ lead[l].pipeline \in DOMAIN pipelines
CrmCalls == crmReq \in [Request -> CrmCall] /\ \A r \in Request : Prepared(crmReq[r], C!Contacts, C!Leads)
CacheIsKeyed == \A k \in C!Keys : cache[k] # None => C!Key(cache[k].asked) = k

\* Whoever is about to delete a contact has found no open lead of it, and those
\* made since, or overlooked, are late.
Deletes(r, c) == crmReq[r].op = "delete" /\ crmReq[r].step = "write" /\ crmReq[r].at = c
DeletingIsClear ==
    \A r \in Request, c \in Contact : Deletes(r, c) =>
      \A l \in C!Open : lead[l].contact = c => l \in lateLead

\* Of two changes of a lead's status only the last is told: with one in flight
\* at a time, it is the one that is about to be told.
Tells(r, l) == crmReq[r].op = "lead" /\ crmReq[r].step = "note" /\ crmReq[r].at = l /\ crmReq[r].arg # "moved"
TellingIsTrue ==
    \A r \in Request, l \in C!Leads \ muddled : Tells(r, l) =>
      crmReq[r].arg = lead[l].status /\ \A q \in Request : Tells(q, l) => q = r
ToldIsTrue == \A l \in C!Leads \ muddled : told[l] = lead[l].status \/ \E r \in Request : Tells(r, l)

StagesAreThere == \A l \in C!Open \ adrift : lead[l].stage \in pipelines[lead[l].pipeline]

Seeds(r) == crmReq[r].op = "seed" /\ crmReq[r].step = "write"
SeededOnce ==
    ~reseeded => /\ Len(pipelines) <= 1
                 /\ \A r \in Request : Seeds(r) => pipelines = <<>> /\ \A q \in Request : Seeds(q) => q = r

\* A list on its way to Redis is as true as one that is there.
Drops(t) == \E r \in Request : crmReq[r].step \in {"note", "drop"} /\ C!Table(r) = t
ListsAreTrue ==
    \A r \in Request, q \in Query : crmReq[r].op = "list" /\ crmReq[r].arg = q =>
      crmReq[r].over \/ crmReq[r].ids = C!Answer(q) \/ Drops(q.of)
CachesAreTrue ==
    \A k \in C!Keys, q \in Query : cache[k] # None /\ cache[k].asked = q =>
      cache[k].stale \/ cache[k].ids = C!Answer(q) \/ Drops(q.of)

CrmInv ==
    /\ CrmRows /\ LeadsHaveRows /\ CrmCalls /\ CacheIsKeyed
    /\ DeletingIsClear /\ C!OpenLeadHasContact
    /\ TellingIsTrue /\ ToldIsTrue /\ StagesAreThere
    /\ SeededOnce /\ ListsAreTrue /\ CachesAreTrue

-----------------------------------------------------------------------------
LEMMA CrmStarts == C!CrmAssumption /\ C!Init => CrmInv
<1> SUFFICES ASSUME C!CrmAssumption, C!Init PROVE CrmInv
  OBVIOUS
<1>1. /\ C!Contacts = {} /\ C!Leads = {} /\ C!Open = {} /\ pipelines = <<>> /\ ~reseeded
      /\ (\A k \in C!Keys : cache[k] = None) /\ \A r \in Request : crmReq[r] = C!Idle
  BY DEF C!Init, C!Contacts, C!Leads, C!Open
<1>2. /\ C!Idle \in CrmCall /\ Prepared(C!Idle, C!Contacts, C!Leads)
      /\ C!Idle.op = "idle" /\ C!Idle.step = "done"
  BY DEF C!Idle, CrmCall, Prepared
<1>3. CrmRows
  <2>1. <<>> \in Seq(SUBSET Stage)
    OBVIOUS
  <2> QED BY <2>1 DEF C!Init, CrmRows
<1>4. LeadsHaveRows /\ CrmCalls /\ CacheIsKeyed
  BY <1>1, <1>2 DEF C!Init, LeadsHaveRows, CrmCalls, CacheIsKeyed
<1>5. DeletingIsClear /\ C!OpenLeadHasContact /\ StagesAreThere /\ ToldIsTrue /\ TellingIsTrue
  BY <1>1 DEF DeletingIsClear, C!OpenLeadHasContact, StagesAreThere, ToldIsTrue, TellingIsTrue
<1>6. SeededOnce
  BY <1>1, <1>2 DEF SeededOnce, Seeds
<1>7. ListsAreTrue /\ CachesAreTrue
  BY <1>1, <1>2 DEF ListsAreTrue, CachesAreTrue
<1> QED BY <1>3, <1>4, <1>5, <1>6, <1>7 DEF CrmInv

-----------------------------------------------------------------------------
(* what a step may do *)

\* A contact is only closed by a delete, and a lead is opened for one that is
\* there to stay, or is late.
ContactsClose ==
    /\ lateLead \subseteq lateLead'
    /\ \A c \in C!Active \ C!Active' : \E r \in Request : Deletes(r, c)
    /\ \A l \in C!Open' : \/ l \in C!Open /\ lead'[l].contact = lead[l].contact
                          \/ l \in lateLead'
                          \/ lead'[l].contact \in C!Active' /\ ~\E r \in Request : Deletes(r, lead'[l].contact)
    /\ \A r \in Request, c \in Contact : Deletes(r, c)' =>
         \/ Deletes(r, c)
         \/ \A l \in C!Open' : lead'[l].contact = c => l \in lateLead'

\* A lead changes its status when nobody is about to tell it, or it is muddled.
StatusesAreTold ==
    /\ muddled \subseteq muddled'
    /\ \A l \in C!Leads' \ muddled' :
         \/ /\ l \in C!Leads /\ lead'[l].status = lead[l].status
            /\ \A r \in Request : Tells(r, l)' => Tells(r, l) /\ crmReq'[r].arg = crmReq[r].arg
            /\ \A r \in Request : Tells(r, l) /\ ~Tells(r, l)' => told'[l] = crmReq[r].arg
            /\ told'[l] = told[l] \/ \E r \in Request : Tells(r, l) /\ told'[l] = crmReq[r].arg
         \/ /\ l \notin C!Leads \/ ~\E r \in Request : Tells(r, l)
            /\ \E r \in Request : /\ Tells(r, l)' /\ crmReq'[r].arg = lead'[l].status
                                  /\ \A q \in Request : Tells(q, l)' => q = r

StagesStay ==
    /\ adrift \subseteq adrift'
    /\ \A l \in C!Open' \ adrift' :
         \/ lead'[l].stage \in pipelines'[lead'[l].pipeline]
         \/ /\ l \in C!Open /\ lead'[l].stage = lead[l].stage /\ lead'[l].pipeline = lead[l].pipeline
            /\ pipelines'[lead[l].pipeline] = pipelines[lead[l].pipeline]

SeedsAreFew ==
    ~reseeded' =>
      /\ ~reseeded
      /\ \/ Len(pipelines') = Len(pipelines) /\ \A r \in Request : Seeds(r)' => Seeds(r)
         \/ pipelines' = pipelines /\ pipelines = <<>>
            /\ \A r \in Request : Seeds(r)' => \A q \in Request : Seeds(q)' => q = r
         \/ \E r \in Request : Seeds(r) /\ Len(pipelines') = Len(pipelines) + 1
                               /\ \A q \in Request : Seeds(q)' => Seeds(q) /\ q # r

\* A write leaves a drop to be made; the drop reaches every list of its table, or
\* leaves it behind as stale.
CrmDropped(t) ==
    /\ \A k \in C!Keys : k[1] = t => cache'[k] = None \/ cache'[k].stale
    /\ \A r \in Request : crmReq'[r].op = "list" /\ crmReq'[r].arg.of = t => crmReq'[r].over
LeftBehind(k) == cache[k] # None /\ cache'[k] = [cache[k] EXCEPT !.stale = TRUE]
ListsAreDropped ==
    /\ \A q \in Query : C!Answer(q)' = C!Answer(q) \/ Drops(q.of)'
    /\ \A t \in {"leads", "contacts"} : Drops(t) => Drops(t)' \/ CrmDropped(t)
    /\ \A r \in Request, q \in Query : crmReq'[r].op = "list" /\ crmReq'[r].arg = q =>
         \/ crmReq'[r].ids = C!Answer(q)'
         \/ /\ crmReq[r].op = "list" /\ crmReq[r].arg = q /\ crmReq'[r].ids = crmReq[r].ids
            /\ crmReq[r].over => crmReq'[r].over
    /\ \A k \in C!Keys :
         \/ cache'[k] = None \/ cache'[k] = cache[k] \/ LeftBehind(k)
         \/ \E r \in Request :
              /\ crmReq[r].op = "list" /\ k = C!Key(crmReq[r].arg)
              /\ cache'[k] = [asked |-> crmReq[r].arg, ids |-> crmReq[r].ids, stale |-> crmReq[r].over]

Orderly ==
    /\ ContactsClose /\ StatusesAreTold /\ StagesStay /\ SeedsAreFew /\ ListsAreDropped

LEMMA LeftIsStale ==
    ASSUME CrmRows, NEW k \in C!Keys, LeftBehind(k)
    PROVE  cache'[k].stale /\ cache'[k].asked = cache[k].asked /\ cache'[k].ids = cache[k].ids
BY DEF CrmRows, ListRow, LeftBehind

LEMMA OrderlyKeeps ==
    ASSUME C!CrmAssumption, CrmInv, CrmRows', LeadsHaveRows', CrmCalls', Orderly
    PROVE  /\ CacheIsKeyed' /\ DeletingIsClear' /\ C!OpenLeadHasContact'
           /\ TellingIsTrue' /\ ToldIsTrue' /\ StagesAreThere'
           /\ SeededOnce' /\ ListsAreTrue' /\ CachesAreTrue'
<1>1. /\ CrmRows /\ LeadsHaveRows /\ CrmCalls /\ CacheIsKeyed /\ DeletingIsClear
      /\ C!OpenLeadHasContact /\ TellingIsTrue /\ ToldIsTrue /\ StagesAreThere
      /\ SeededOnce /\ ListsAreTrue /\ CachesAreTrue
  BY DEF CrmInv
<1>2. /\ ContactsClose /\ StatusesAreTold /\ StagesStay /\ SeedsAreFew /\ ListsAreDropped
  BY DEF Orderly
<1>3. CacheIsKeyed'
  <2> SUFFICES ASSUME NEW k \in C!Keys, cache'[k] # None PROVE C!Key(cache'[k].asked) = k
    BY DEF CacheIsKeyed
  <2>1. CASE cache'[k] = cache[k]
    BY <1>1, <2>1 DEF CacheIsKeyed
  <2>a. CASE LeftBehind(k)
    BY <1>1, <2>a, LeftIsStale DEF CacheIsKeyed, LeftBehind
  <2>2. CASE cache'[k] # cache[k] /\ ~LeftBehind(k)
    <3>1. PICK r \in Request :
            /\ crmReq[r].op = "list" /\ k = C!Key(crmReq[r].arg)
            /\ cache'[k] = [asked |-> crmReq[r].arg, ids |-> crmReq[r].ids, stale |-> crmReq[r].over]
      BY <1>2, <2>2 DEF ListsAreDropped
    <3>2. cache'[k].asked = crmReq[r].arg
      BY <3>1
    <3> QED BY <3>1, <3>2
  <2> QED BY <2>1, <2>2, <2>a
<1>4. DeletingIsClear'
  <2> SUFFICES ASSUME NEW r \in Request, NEW c \in Contact, Deletes(r, c)', NEW l \in C!Open',
                      lead'[l].contact = c, l \notin lateLead'
               PROVE  FALSE
    BY DEF DeletingIsClear
  <2>1. Deletes(r, c)
    BY <1>2 DEF ContactsClose
  <2>2. l \in C!Open /\ lead[l].contact = c
    BY <1>2, <2>1 DEF ContactsClose
  <2> QED BY <1>1, <1>2, <2>1, <2>2 DEF DeletingIsClear, ContactsClose
<1>5. C!OpenLeadHasContact'
  <2> SUFFICES ASSUME NEW l \in C!Open', lead'[l].contact \notin C!Active', l \notin lateLead'
               PROVE  FALSE
    BY DEF C!OpenLeadHasContact
  <2>1. l \in C!Open /\ lead[l].contact = lead'[l].contact
    BY <1>2 DEF ContactsClose
  <2>2. lead[l].contact \in C!Active
    BY <1>1, <1>2, <2>1 DEF C!OpenLeadHasContact, ContactsClose
  <2>3. \E r \in Request : Deletes(r, lead[l].contact)
    BY <1>2, <2>1, <2>2 DEF ContactsClose
  <2>4. lead[l].contact \in Contact
    BY <2>2 DEF C!Active, C!Contacts
  <2> QED BY <1>1, <1>2, <2>1, <2>3, <2>4 DEF DeletingIsClear, ContactsClose
<1>6. ASSUME NEW l \in C!Leads', l \notin muddled'
      PROVE  /\ told'[l] = lead'[l].status \/ \E r \in Request : Tells(r, l)'
             /\ \A r \in Request : Tells(r, l)' =>
                  crmReq'[r].arg = lead'[l].status /\ \A q \in Request : Tells(q, l)' => q = r
  <2>1. l \notin muddled
    BY <1>2, <1>6 DEF StatusesAreTold
  <2>2. CASE /\ l \in C!Leads /\ lead'[l].status = lead[l].status
             /\ \A r \in Request : Tells(r, l)' => Tells(r, l) /\ crmReq'[r].arg = crmReq[r].arg
             /\ \A r \in Request : Tells(r, l) /\ ~Tells(r, l)' => told'[l] = crmReq[r].arg
             /\ told'[l] = told[l] \/ \E r \in Request : Tells(r, l) /\ told'[l] = crmReq[r].arg
    <3>1. \A r \in Request : Tells(r, l) => crmReq[r].arg = lead[l].status
      BY <1>1, <2>1, <2>2 DEF TellingIsTrue
    <3>2. \A r, q \in Request : Tells(r, l) /\ Tells(q, l) => q = r
      BY <1>1, <2>1, <2>2 DEF TellingIsTrue
    <3>3. told[l] = lead[l].status \/ \E r \in Request : Tells(r, l)
      BY <1>1, <2>1, <2>2 DEF ToldIsTrue
    <3> HIDE DEF Tells
    <3>4. told'[l] = lead'[l].status \/ \E r \in Request : Tells(r, l)'
      BY <2>2, <3>1, <3>3
    <3> QED BY <2>2, <3>1, <3>2, <3>4
  <2>3. CASE \E r \in Request : /\ Tells(r, l)' /\ crmReq'[r].arg = lead'[l].status
                                /\ \A q \in Request : Tells(q, l)' => q = r
    BY <2>3
  <2> QED BY <1>2, <1>6, <2>2, <2>3 DEF StatusesAreTold
<1>7. TellingIsTrue' /\ ToldIsTrue'
  BY <1>6 DEF TellingIsTrue, ToldIsTrue
<1>8. StagesAreThere'
  BY <1>1, <1>2 DEF StagesAreThere, StagesStay
<1>9. SeededOnce'
  <2> SUFFICES ASSUME ~reseeded'
               PROVE  /\ Len(pipelines') <= 1
                      /\ \A r \in Request : Seeds(r)' =>
                           pipelines' = <<>> /\ \A q \in Request : Seeds(q)' => q = r
    BY DEF SeededOnce
  <2>1. /\ Len(pipelines) <= 1 /\ Len(pipelines) \in Nat /\ Len(pipelines') \in Nat
        /\ \A r \in Request : Seeds(r) => pipelines = <<>> /\ \A q \in Request : Seeds(q) => q = r
    BY <1>1, <1>2 DEF SeededOnce, SeedsAreFew, CrmRows
  <2>2. (Len(pipelines) = 0 <=> pipelines = <<>>) /\ (Len(pipelines') = 0 <=> pipelines' = <<>>)
    BY <1>1 DEF CrmRows
  <2>3. CASE Len(pipelines') = Len(pipelines) /\ \A r \in Request : Seeds(r)' => Seeds(r)
    BY <2>1, <2>2, <2>3
  <2>4. CASE pipelines' = pipelines /\ pipelines = <<>>
             /\ \A r \in Request : Seeds(r)' => \A q \in Request : Seeds(q)' => q = r
    BY <2>1, <2>4
  <2>5. ASSUME NEW r \in Request, Seeds(r), Len(pipelines') = Len(pipelines) + 1,
               \A q \in Request : Seeds(q)' => Seeds(q) /\ q # r
        PROVE  Len(pipelines') <= 1 /\ \A q \in Request : ~Seeds(q)'
    BY <2>1, <2>2, <2>5
  <2> QED BY <1>2, <2>3, <2>4, <2>5 DEF SeedsAreFew
<1>10. ListsAreTrue'
  <2> SUFFICES ASSUME NEW r \in Request, NEW q \in Query, crmReq'[r].op = "list", crmReq'[r].arg = q,
                      crmReq'[r].ids # C!Answer(q)', ~Drops(q.of)'
               PROVE  crmReq'[r].over
    BY DEF ListsAreTrue
  <2>1. /\ crmReq[r].op = "list" /\ crmReq[r].arg = q /\ crmReq'[r].ids = crmReq[r].ids
        /\ crmReq[r].over => crmReq'[r].over
    BY <1>2 DEF ListsAreDropped
  <2>2. q.of \in {"leads", "contacts"} /\ C!Answer(q)' = C!Answer(q)
    BY <1>2 DEF C!CrmAssumption, ListsAreDropped
  <2>3. CASE Drops(q.of)
    BY <1>2, <2>2, <2>3 DEF ListsAreDropped, CrmDropped
  <2>4. CASE ~Drops(q.of)
    BY <1>1, <2>1, <2>2, <2>4 DEF ListsAreTrue
  <2> QED BY <2>3, <2>4
<1>11. CachesAreTrue'
  <2> SUFFICES ASSUME NEW k \in C!Keys, NEW q \in Query, cache'[k] # None, cache'[k].asked = q,
                      cache'[k].ids # C!Answer(q)', ~Drops(q.of)'
               PROVE  cache'[k].stale
    BY DEF CachesAreTrue
  <2>1. k[1] = q.of
    BY <1>3 DEF CacheIsKeyed, C!Key
  <2>2. q.of \in {"leads", "contacts"} /\ C!Answer(q)' = C!Answer(q)
    BY <1>2 DEF C!CrmAssumption, ListsAreDropped
  <2>3. ~Drops(q.of) \/ cache'[k].stale
    BY <1>2, <2>1, <2>2 DEF ListsAreDropped, CrmDropped
  <2>4. CASE cache'[k] = cache[k]
    BY <1>1, <2>2, <2>3, <2>4 DEF CachesAreTrue
  <2>a. CASE LeftBehind(k)
    BY <1>1, <2>a, LeftIsStale DEF LeftBehind
  <2>5. CASE cache'[k] # cache[k] /\ ~LeftBehind(k)
    <3>1. PICK r \in Request :
            /\ crmReq[r].op = "list" /\ k = C!Key(crmReq[r].arg)
            /\ cache'[k] = [asked |-> crmReq[r].arg, ids |-> crmReq[r].ids, stale |-> crmReq[r].over]
      BY <1>2, <2>5 DEF ListsAreDropped
    <3>2. cache'[k].asked = crmReq[r].arg /\ cache'[k].ids = crmReq[r].ids
      BY <3>1
    <3>3. cache'[k].stale = crmReq[r].over
      BY <3>1
    <3> QED BY <1>1, <2>2, <2>3, <3>1, <3>2, <3>3 DEF ListsAreTrue
  <2> QED BY <2>4, <2>5, <2>a
<1> QED BY <1>3, <1>4, <1>5, <1>7, <1>8, <1>9, <1>10, <1>11

-----------------------------------------------------------------------------
(* the types *)

LEMMA CrmNones ==
    ASSUME C!CrmAssumption
    PROVE  None \notin ContactRow /\ None \notin LeadRow /\ None \notin ListRow
BY DEF C!CrmAssumption, ContactRow, LeadRow, ListRow

\* One request moves on and no row goes.
LEMMA CrmBecomes ==
    ASSUME CrmCalls, NEW r \in Request, NEW q \in CrmCall, Prepared(q, C!Contacts', C!Leads'),
           crmReq' = [crmReq EXCEPT ![r] = q], C!Contacts \subseteq C!Contacts', C!Leads \subseteq C!Leads'
    PROVE  CrmCalls' /\ crmReq'[r] = q /\ \A p \in Request \ {r} : crmReq'[p] = crmReq[p]
<1>1. /\ crmReq' \in [Request -> CrmCall] /\ crmReq'[r] = q
      /\ \A p \in Request \ {r} : crmReq'[p] = crmReq[p]
  BY DEF CrmCalls
<1>2. \A p \in Request \ {r} : Prepared(crmReq'[p], C!Contacts', C!Leads')
  BY <1>1 DEF CrmCalls, Prepared
<1> QED BY <1>1, <1>2 DEF CrmCalls
LEMMA CrmStartsOne ==
    ASSUME CrmCalls, NEW r \in Request, NEW op, NEW step, NEW at, NEW arg, C!Start(r, op, step, at, arg),
           C!Contacts \subseteq C!Contacts', C!Leads \subseteq C!Leads',
           op \in {"contact", "delete", "lead", "seed"}, step \in {"check", "write", "note", "drop"},
           at \in Contact \cup Lead \cup {None},
           arg \in Phone \cup {"OPEN", "WON", "LOST", "moved", None},
           op = "contact" => at \in Contact /\ arg \in Phone,
           op = "delete" => at \in C!Contacts', op = "lead" => at \in C!Leads',
           op = "seed" => step = "write", step = "drop" => op # "seed", step = "note" => op = "lead" /\ arg \in {"OPEN", "WON", "LOST", "moved"}
    PROVE  /\ CrmCalls' /\ crmReq[r] = C!Idle
           /\ crmReq'[r].op = op /\ crmReq'[r].step = step /\ crmReq'[r].at = at /\ crmReq'[r].arg = arg
           /\ \A p \in Request \ {r} : crmReq'[p] = crmReq[p]
<1> DEFINE q == [C!Idle EXCEPT !.op = op, !.step = step, !.at = at, !.arg = arg]
<1>1. /\ q \in CrmCall
      /\ q.op = op /\ q.step = step /\ q.at = at /\ q.arg = arg
  BY DEF C!Idle, CrmCall
<1>2. crmReq[r] = C!Idle /\ crmReq' = [crmReq EXCEPT ![r] = q]
  BY DEF C!Start
<1> HIDE DEF q
<1>3. Prepared(q, C!Contacts', C!Leads')
  BY <1>1 DEF Prepared
<1> QED BY <1>1, <1>2, <1>3, CrmBecomes
LEMMA CrmFinishes ==
    ASSUME CrmCalls, NEW r \in Request, C!Finish(r), C!Contacts \subseteq C!Contacts', C!Leads \subseteq C!Leads'
    PROVE  /\ CrmCalls' /\ crmReq'[r] = C!Idle
           /\ \A p \in Request \ {r} : crmReq'[p] = crmReq[p]
<1>1. C!Idle \in CrmCall /\ Prepared(C!Idle, C!Contacts', C!Leads')
  BY DEF C!Idle, CrmCall, Prepared
<1> QED BY <1>1, CrmBecomes DEF C!Finish
LEMMA CrmGoes ==
    ASSUME CrmCalls, NEW r \in Request, NEW step \in {"write", "drop"}, C!Go(r, step),
           crmReq[r].op \in {"contact", "delete", "lead"},
           C!Contacts \subseteq C!Contacts', C!Leads \subseteq C!Leads'
    PROVE  /\ CrmCalls'
           /\ crmReq'[r].op = crmReq[r].op /\ crmReq'[r].step = step /\ crmReq'[r].at = crmReq[r].at
           /\ crmReq'[r].arg = crmReq[r].arg
           /\ \A p \in Request \ {r} : crmReq'[p] = crmReq[p]
<1> DEFINE q == [crmReq[r] EXCEPT !.step = step]
<1>1. crmReq[r] \in CrmCall /\ Prepared(crmReq[r], C!Contacts, C!Leads)
  BY DEF CrmCalls
<1>2. /\ q \in CrmCall
      /\ q.op = crmReq[r].op /\ q.step = step /\ q.at = crmReq[r].at /\ q.arg = crmReq[r].arg
  BY <1>1 DEF CrmCall
<1>3. crmReq' = [crmReq EXCEPT ![r] = q]
  BY DEF C!Go
<1> HIDE DEF q
<1>4. Prepared(q, C!Contacts', C!Leads')
  BY <1>1, <1>2 DEF Prepared
<1> QED BY <1>2, <1>3, <1>4, CrmBecomes

LEMMA CrmTypesStep ==
    ASSUME C!CrmAssumption, CrmInv, [C!Next]_(C!vars)
    PROVE  CrmRows' /\ LeadsHaveRows' /\ CrmCalls'
<1>0. CrmRows /\ LeadsHaveRows /\ CrmCalls /\ CacheIsKeyed
  BY DEF CrmInv
<1>n. None \notin ContactRow /\ None \notin LeadRow /\ None \notin ListRow
  BY CrmNones
<1>t. \A r \in Request : crmReq[r] \in CrmCall /\ Prepared(crmReq[r], C!Contacts, C!Leads)
  BY <1>0 DEF CrmCalls
\* The rows stay.
<1>r. ASSUME UNCHANGED C!rows, UNCHANGED told, UNCHANGED cache, reseeded' \in BOOLEAN
      PROVE  /\ CrmRows' /\ LeadsHaveRows'
             /\ C!Contacts' = C!Contacts /\ C!Leads' = C!Leads
  BY <1>0, <1>r DEF C!rows, CrmRows, LeadsHaveRows, C!Contacts, C!Leads
<1>b. reseeded' \in BOOLEAN
  <2>1. \A r \in Request : C!PipelineList(r) => reseeded' \in BOOLEAN
    BY DEF C!PipelineList
  <2>2. \A r \in Request : C!ContactWrite(r) \/ C!SoftDelete(r) \/ C!ListFill(r) \/ C!SeedDefault(r)
          => reseeded' = reseeded
    BY DEF C!ContactWrite, C!SoftDelete, C!ListFill, C!SeedDefault, C!history
  <2>3. \A r \in Request, fails \in BOOLEAN : 
            C!PhoneCheck(r, fails) \/ C!DeleteCheck(r, fails) \/ C!Note(r, fails) \/ C!Drop(r, fails)
          => reseeded' = reseeded
    BY DEF C!PhoneCheck, C!DeleteCheck, C!Note, C!Drop, C!history
  <2>4. \A r \in Request, q \in Query : C!ListRead(r, q) => reseeded' = reseeded
    BY DEF C!ListRead, C!history
  <2>4a. \A r \in Request, c \in Contact : C!DeleteAsk(r, c) => reseeded' = reseeded
    BY DEF C!DeleteAsk, C!history
  <2>4b. \A r \in Request, l \in Lead : C!LeadUpdate(r, l) => reseeded' = reseeded
    BY DEF C!LeadUpdate, C!history
  <2>5. \A r \in Request, c \in Contact, phone \in Phone : C!ContactAsk(r, c, phone) => reseeded' = reseeded
    BY DEF C!ContactAsk, C!history
  <2>6. \A r \in Request, l \in Lead :
          /\ \A status \in {"WON", "LOST"} : C!Close(r, l, status) => reseeded' = reseeded
          /\ \A stage \in Stage : C!MoveStage(r, l, stage) => reseeded' = reseeded
    BY DEF C!Close, C!MoveStage
  <2>7. \A r \in Request, l \in Lead, c \in Contact, p \in DOMAIN pipelines, s \in Stage :
          C!LeadCreate(r, l, c, p, s) => reseeded' = reseeded
    BY DEF C!LeadCreate
  <2>8. /\ \A k \in C!Keys : C!Expire(k) => reseeded' = reseeded
        /\ \A p \in DOMAIN pipelines, left \in SUBSET Stage : C!UpdateStages(p, left) => reseeded' = reseeded
        /\ UNCHANGED C!vars => reseeded' = reseeded
    BY DEF C!Expire, C!UpdateStages, C!history, C!vars
  <2>9. reseeded \in BOOLEAN
    BY <1>0 DEF CrmRows
  <2> QED BY <2>1, <2>2, <2>3, <2>4, <2>4a, <2>4b, <2>5, <2>6, <2>7, <2>8, <2>9 DEF C!Next
<1>1. ASSUME NEW r \in Request, NEW c \in Contact, NEW phone \in Phone, C!ContactAsk(r, c, phone)
      PROVE  CrmRows' /\ LeadsHaveRows' /\ CrmCalls'
  <2>1. /\ UNCHANGED C!rows /\ UNCHANGED told /\ UNCHANGED cache
        /\ \E step \in {"write", "check"} : C!Start(r, "contact", step, c, phone)
    BY <1>1 DEF C!ContactAsk
  <2> QED BY <1>0, <1>r, <1>b, <2>1, CrmStartsOne
<1>2. ASSUME NEW r \in Request, NEW fails \in BOOLEAN, C!PhoneCheck(r, fails) \/ C!DeleteCheck(r, fails)
      PROVE  CrmRows' /\ LeadsHaveRows' /\ CrmCalls'
  <2>1. /\ UNCHANGED C!rows /\ UNCHANGED told /\ UNCHANGED cache /\ crmReq[r].op \in {"contact", "delete"}
        /\ C!Finish(r) \/ C!Go(r, "write")
    BY <1>2 DEF C!PhoneCheck, C!DeleteCheck, C!InStep
  <2> QED BY <1>0, <1>r, <1>b, <2>1, CrmFinishes, CrmGoes
<1>3. ASSUME NEW r \in Request, C!ContactWrite(r)
      PROVE  CrmRows' /\ LeadsHaveRows' /\ CrmCalls'
  <2> DEFINE c == crmReq[r].at
             new == [phone |-> crmReq[r].arg, active |-> c \notin C!Contacts \/ contact[c].active]
  <2>1. /\ UNCHANGED <<lead, pipelines, told, cache>> /\ crmReq[r].op = "contact"
        /\ contact' = [contact EXCEPT ![c] = new] /\ C!Go(r, "drop")
    BY <1>3 DEF C!ContactWrite, C!InStep
  <2>2. c \in Contact /\ crmReq[r].arg \in Phone
    BY <1>t, <2>1 DEF Prepared
  <2>3. (c \notin C!Contacts \/ contact[c].active) \in BOOLEAN
    BY <1>0, <2>2 DEF CrmRows, C!Contacts, ContactRow
  <2>4. new \in ContactRow
    BY <2>2, <2>3 DEF ContactRow
  <2> HIDE DEF new
  <2>5. CrmRows' /\ C!Contacts \subseteq C!Contacts' /\ C!Leads' = C!Leads
    BY <1>0, <1>n, <1>b, <2>1, <2>2, <2>4 DEF CrmRows, C!Contacts, C!Leads
  <2>6. LeadsHaveRows'
    BY <1>0, <2>1, <2>5 DEF LeadsHaveRows
  <2> QED BY <1>0, <2>1, <2>5, <2>6, CrmGoes
<1>4. ASSUME NEW r \in Request, NEW c \in Contact, C!DeleteAsk(r, c)
      PROVE  CrmRows' /\ LeadsHaveRows' /\ CrmCalls'
  <2>1. /\ UNCHANGED C!rows /\ UNCHANGED told /\ UNCHANGED cache /\ c \in C!Contacts /\ C!Start(r, "delete", "check", c, None)
    BY <1>4 DEF C!DeleteAsk
  <2> QED BY <1>0, <1>r, <1>b, <2>1, CrmStartsOne
<1>5. ASSUME NEW r \in Request, C!SoftDelete(r)
      PROVE  CrmRows' /\ LeadsHaveRows' /\ CrmCalls'
  <2> DEFINE c == crmReq[r].at
             new == [contact[c] EXCEPT !.active = FALSE]
  <2>1. /\ UNCHANGED <<lead, pipelines, told, cache>> /\ crmReq[r].op = "delete"
        /\ contact' = [contact EXCEPT ![c] = new] /\ C!Go(r, "drop")
    BY <1>5 DEF C!SoftDelete, C!InStep
  <2>2. c \in C!Contacts /\ c \in Contact
    BY <1>t, <2>1 DEF Prepared, C!Contacts
  <2>3. contact[c] \in ContactRow
    BY <1>0, <2>2 DEF CrmRows, C!Contacts
  <2>4. new \in ContactRow
    BY <2>3 DEF ContactRow
  <2> HIDE DEF new
  <2>5. CrmRows' /\ C!Contacts \subseteq C!Contacts' /\ C!Leads' = C!Leads
    BY <1>0, <1>n, <1>b, <2>1, <2>2, <2>4 DEF CrmRows, C!Contacts, C!Leads
  <2>6. LeadsHaveRows'
    BY <1>0, <2>1, <2>5 DEF LeadsHaveRows
  <2> QED BY <1>0, <2>1, <2>5, <2>6, CrmGoes
<1>6. ASSUME NEW r \in Request, NEW l \in Lead, NEW c \in Contact, NEW p \in DOMAIN pipelines,
             NEW stage \in Stage, C!LeadCreate(r, l, c, p, stage)
      PROVE  CrmRows' /\ LeadsHaveRows' /\ CrmCalls'
  <2> DEFINE new == [contact |-> c, pipeline |-> p, stage |-> stage, status |-> "OPEN"]
  <2>1. /\ UNCHANGED <<contact, pipelines, told, cache>> /\ c \in C!Contacts
        /\ lead' = [lead EXCEPT ![l] = new] /\ C!Start(r, "lead", "note", l, "OPEN")
    BY <1>6 DEF C!LeadCreate
  <2>2. p \in Nat
    BY <1>0 DEF CrmRows
  <2>3. new \in LeadRow /\ new.contact = c /\ new.pipeline = p
    BY <2>2 DEF LeadRow
  <2> HIDE DEF new
  <2>4. /\ CrmRows' /\ C!Leads' = C!Leads \cup {l} /\ C!Contacts' = C!Contacts
    BY <1>0, <1>n, <1>b, <2>1, <2>3 DEF CrmRows, C!Contacts, C!Leads
  <2>5. LeadsHaveRows'
    BY <1>0, <2>1, <2>3, <2>4 DEF LeadsHaveRows, CrmRows, C!Leads
  <2> QED BY <1>0, <2>1, <2>4, <2>5, CrmStartsOne
<1>7. ASSUME NEW r \in Request, NEW l \in Lead, NEW status \in {"WON", "LOST"}, C!Close(r, l, status)
      PROVE  CrmRows' /\ LeadsHaveRows' /\ CrmCalls'
  <2> DEFINE new == [lead[l] EXCEPT !.status = status]
  <2>1. /\ UNCHANGED <<contact, pipelines, told, cache>> /\ l \in C!Leads
        /\ lead' = [lead EXCEPT ![l] = new] /\ C!Start(r, "lead", "note", l, status)
    BY <1>7 DEF C!Close
  <2>2. lead[l] \in LeadRow
    BY <1>0, <2>1 DEF CrmRows, C!Leads
  <2>3. new \in LeadRow /\ new.contact = lead[l].contact /\ new.pipeline = lead[l].pipeline
    BY <2>2 DEF LeadRow
  <2> HIDE DEF new
  <2>4. /\ CrmRows' /\ C!Leads' = C!Leads /\ C!Contacts' = C!Contacts
    BY <1>0, <1>n, <1>b, <2>1, <2>3 DEF CrmRows, C!Contacts, C!Leads
  <2>5. LeadsHaveRows'
    BY <1>0, <2>1, <2>3, <2>4 DEF LeadsHaveRows, CrmRows, C!Leads
  <2> QED BY <1>0, <2>1, <2>4, <2>5, CrmStartsOne
<1>8. ASSUME NEW r \in Request, NEW l \in Lead, NEW stage \in Stage, C!MoveStage(r, l, stage)
      PROVE  CrmRows' /\ LeadsHaveRows' /\ CrmCalls'
  <2> DEFINE new == [lead[l] EXCEPT !.stage = stage]
  <2>1. /\ UNCHANGED <<contact, pipelines, told, cache>> /\ l \in C!Leads
        /\ lead' = [lead EXCEPT ![l] = new] /\ C!Start(r, "lead", "note", l, "moved")
    BY <1>8 DEF C!MoveStage
  <2>2. lead[l] \in LeadRow
    BY <1>0, <2>1 DEF CrmRows, C!Leads
  <2>3. new \in LeadRow /\ new.contact = lead[l].contact /\ new.pipeline = lead[l].pipeline
    BY <2>2 DEF LeadRow
  <2> HIDE DEF new
  <2>4. /\ CrmRows' /\ C!Leads' = C!Leads /\ C!Contacts' = C!Contacts
    BY <1>0, <1>n, <1>b, <2>1, <2>3 DEF CrmRows, C!Contacts, C!Leads
  <2>5. LeadsHaveRows'
    BY <1>0, <2>1, <2>3, <2>4 DEF LeadsHaveRows, CrmRows, C!Leads
  <2> QED BY <1>0, <2>1, <2>4, <2>5, CrmStartsOne
<1>9. ASSUME NEW r \in Request, NEW l \in Lead, C!LeadUpdate(r, l)
      PROVE  CrmRows' /\ LeadsHaveRows' /\ CrmCalls'
  <2>1. /\ UNCHANGED C!rows /\ UNCHANGED told /\ UNCHANGED cache /\ l \in C!Leads /\ C!Start(r, "lead", "drop", l, None)
    BY <1>9 DEF C!LeadUpdate
  <2> QED BY <1>0, <1>r, <1>b, <2>1, CrmStartsOne
<1>10. ASSUME NEW r \in Request, NEW fails \in BOOLEAN, C!Note(r, fails)
       PROVE  CrmRows' /\ LeadsHaveRows' /\ CrmCalls'
  <2>1. /\ UNCHANGED C!rows /\ UNCHANGED cache /\ crmReq[r].op = "lead" /\ crmReq[r].step = "note" /\ C!Go(r, "drop")
        /\ told' = IF fails \/ crmReq[r].arg = "moved" THEN told ELSE [told EXCEPT ![crmReq[r].at] = crmReq[r].arg]
    BY <1>10 DEF C!Note, C!InStep
  <2>2. told' \in [Lead -> {"OPEN", "WON", "LOST", None}]
    BY <1>0, <1>t, <2>1 DEF CrmRows, Prepared
  <2>3. CrmRows' /\ LeadsHaveRows' /\ C!Contacts' = C!Contacts /\ C!Leads' = C!Leads
    BY <1>0, <1>b, <2>1, <2>2 DEF C!rows, CrmRows, LeadsHaveRows, C!Contacts, C!Leads
  <2> QED BY <1>0, <2>1, <2>3, CrmGoes
<1>11. ASSUME NEW r \in Request, NEW fails \in BOOLEAN, C!Drop(r, fails)
       PROVE  CrmRows' /\ LeadsHaveRows' /\ CrmCalls'
  <2>1. /\ UNCHANGED C!rows /\ UNCHANGED told
        /\ cache' = [k \in C!Keys |-> IF k[1] # C!Table(r) THEN cache[k]
                                       ELSE IF fails THEN C!Outdated(cache[k]) ELSE None]
        /\ crmReq' = [q \in Request |->
                        IF q = r THEN C!Idle
                        ELSE IF crmReq[q].op = "list" /\ crmReq[q].arg.of = C!Table(r)
                             THEN [crmReq[q] EXCEPT !.over = TRUE] ELSE crmReq[q]]
    BY <1>11 DEF C!Drop
  <2>a. \A k \in C!Keys : C!Outdated(cache[k]) \in ListRow \cup {None}
    BY <1>0 DEF CrmRows, ListRow, C!Outdated
  <2>b. cache' \in [C!Keys -> ListRow \cup {None}]
    BY <1>0, <2>1, <2>a DEF CrmRows
  <2>2. CrmRows' /\ LeadsHaveRows' /\ C!Contacts' = C!Contacts /\ C!Leads' = C!Leads
    BY <1>0, <1>b, <2>1, <2>b DEF C!rows, CrmRows, LeadsHaveRows, C!Contacts, C!Leads
  <2>3. C!Idle \in CrmCall /\ Prepared(C!Idle, C!Contacts, C!Leads)
    BY DEF C!Idle, CrmCall, Prepared
  <2>4. ASSUME NEW q \in Request PROVE crmReq'[q] \in CrmCall /\ Prepared(crmReq'[q], C!Contacts, C!Leads)
    <3>1. [crmReq[q] EXCEPT !.over = TRUE] \in CrmCall /\ Prepared([crmReq[q] EXCEPT !.over = TRUE], C!Contacts, C!Leads)
      BY <1>t DEF CrmCall, Prepared
    <3> QED BY <1>t, <2>1, <2>3, <3>1
  <2>5. crmReq' \in [Request -> CrmCall]
    BY <2>1, <2>4
  <2> QED BY <2>2, <2>4, <2>5 DEF CrmCalls
<1>12. ASSUME NEW r \in Request, NEW q \in Query, C!ListRead(r, q)
       PROVE  CrmRows' /\ LeadsHaveRows' /\ CrmCalls'
  <2> DEFINE new == [C!Idle EXCEPT !.op = "list", !.step = "fill", !.arg = q, !.ids = C!Answer(q)]
  <2>1. UNCHANGED C!rows /\ UNCHANGED told /\ UNCHANGED cache /\ crmReq' = [crmReq EXCEPT ![r] = new]
    BY <1>12 DEF C!ListRead
  <2>2. C!Answer(q) \in SUBSET (Contact \cup Lead)
    BY DEF C!Answer, C!Active, C!Contacts, C!Leads
  <2>3. new \in CrmCall /\ Prepared(new, C!Contacts', C!Leads')
    BY <2>2 DEF C!Idle, CrmCall, Prepared
  <2> HIDE DEF new
  <2> QED BY <1>0, <1>r, <1>b, <2>1, <2>3, CrmBecomes
<1>13. ASSUME NEW r \in Request, C!ListFill(r)
       PROVE  CrmRows' /\ LeadsHaveRows' /\ CrmCalls'
  <2> DEFINE new == [asked |-> crmReq[r].arg, ids |-> crmReq[r].ids, stale |-> crmReq[r].over]
  <2>1. /\ UNCHANGED C!rows /\ UNCHANGED told /\ crmReq[r].op = "list" /\ C!Finish(r)
        /\ cache' = [cache EXCEPT ![C!Key(crmReq[r].arg)] = new]
    BY <1>13 DEF C!ListFill
  <2>2. new \in ListRow
    BY <1>t, <2>1 DEF CrmCall, Prepared, ListRow
  <2> HIDE DEF new
  <2>3. CrmRows' /\ LeadsHaveRows' /\ C!Contacts' = C!Contacts /\ C!Leads' = C!Leads
    BY <1>0, <1>b, <2>1, <2>2 DEF C!rows, CrmRows, LeadsHaveRows, C!Contacts, C!Leads
  <2> QED BY <1>0, <2>1, <2>3, CrmFinishes
<1>14. ASSUME NEW k \in C!Keys, C!Expire(k)
       PROVE  CrmRows' /\ LeadsHaveRows' /\ CrmCalls'
  <2>1. UNCHANGED C!rows /\ UNCHANGED told /\ UNCHANGED crmReq /\ cache' = [cache EXCEPT ![k] = None]
    BY <1>14 DEF C!Expire
  <2> QED BY <1>0, <1>b, <2>1 DEF C!rows, CrmRows, LeadsHaveRows, CrmCalls, C!Contacts, C!Leads
<1>15. ASSUME NEW r \in Request, C!PipelineList(r)
       PROVE  CrmRows' /\ LeadsHaveRows' /\ CrmCalls'
  <2>1. /\ UNCHANGED C!rows /\ UNCHANGED told /\ UNCHANGED cache /\ C!Start(r, "seed", "write", None, None)
    BY <1>15 DEF C!PipelineList
  <2> QED BY <1>0, <1>r, <1>b, <2>1, CrmStartsOne
<1>16. ASSUME NEW r \in Request, C!SeedDefault(r)
       PROVE  CrmRows' /\ LeadsHaveRows' /\ CrmCalls'
  <2>1. /\ UNCHANGED <<contact, lead, told, cache>> /\ pipelines' = Append(pipelines, Stage) /\ C!Finish(r)
    BY <1>16 DEF C!SeedDefault
  <2>2. pipelines' \in Seq(SUBSET Stage) /\ DOMAIN pipelines \subseteq DOMAIN pipelines'
    BY <1>0, <2>1 DEF CrmRows
  <2>3. CrmRows' /\ LeadsHaveRows' /\ C!Contacts' = C!Contacts /\ C!Leads' = C!Leads
    BY <1>0, <1>b, <2>1, <2>2 DEF CrmRows, LeadsHaveRows, C!Contacts, C!Leads
  <2> QED BY <1>0, <2>1, <2>3, CrmFinishes
<1>17. ASSUME NEW p \in DOMAIN pipelines, NEW left \in SUBSET Stage, C!UpdateStages(p, left)
       PROVE  CrmRows' /\ LeadsHaveRows' /\ CrmCalls'
  <2>1. UNCHANGED <<contact, lead, told, cache, crmReq>> /\ pipelines' = [pipelines EXCEPT ![p] = left]
    BY <1>17 DEF C!UpdateStages
  <2>2. pipelines' \in Seq(SUBSET Stage) /\ DOMAIN pipelines' = DOMAIN pipelines
    BY <1>0, <2>1 DEF CrmRows
  <2> QED BY <1>0, <1>b, <2>1, <2>2 DEF CrmRows, LeadsHaveRows, CrmCalls, C!Contacts, C!Leads
<1>18. CASE UNCHANGED C!vars
  BY <1>0, <1>18 DEF C!vars, C!rows, C!history, CrmRows, LeadsHaveRows, CrmCalls, C!Contacts, C!Leads
<1> QED
  BY <1>1, <1>2, <1>3, <1>4, <1>5, <1>6, <1>7, <1>8, <1>9, <1>10, <1>11, <1>12, <1>13, <1>14, <1>15,
     <1>16, <1>17, <1>18 DEF C!Next

-----------------------------------------------------------------------------
(* each step is orderly *)

LEMMA CrmStarted ==
    ASSUME CrmCalls, NEW r \in Request, NEW op, NEW step, NEW at, NEW arg, C!Start(r, op, step, at, arg)
    PROVE  /\ crmReq[r].op = "idle" /\ crmReq[r].step = "done"
           /\ crmReq'[r].op = op /\ crmReq'[r].step = step /\ crmReq'[r].at = at /\ crmReq'[r].arg = arg
           /\ \A p \in Request \ {r} : crmReq'[p] = crmReq[p]
BY DEF CrmCalls, C!Start, C!Idle
LEMMA CrmFinished ==
    ASSUME CrmCalls, NEW r \in Request, C!Finish(r)
    PROVE  /\ crmReq'[r].op = "idle" /\ crmReq'[r].step = "done"
           /\ \A p \in Request \ {r} : crmReq'[p] = crmReq[p]
BY DEF CrmCalls, C!Finish, C!Idle
LEMMA CrmWent ==
    ASSUME CrmCalls, NEW r \in Request, NEW step, C!Go(r, step)
    PROVE  /\ crmReq'[r].op = crmReq[r].op /\ crmReq'[r].step = step /\ crmReq'[r].at = crmReq[r].at
           /\ crmReq'[r].arg = crmReq[r].arg
           /\ \A p \in Request \ {r} : crmReq'[p] = crmReq[p]
BY DEF CrmCalls, CrmCall, C!Go

\* The list answers read the rows of their table and nothing else.
LEMMA AnswersRead ==
    /\ contact' = contact => C!Active' = C!Active
    /\ lead' = lead => /\ C!Leads' = C!Leads /\ C!Open' = C!Open
    /\ \A q \in Query : (q.of = "contacts" /\ contact' = contact) => C!Answer(q)' = C!Answer(q)
    /\ \A q \in Query : (q.of # "contacts" /\ lead' = lead) => C!Answer(q)' = C!Answer(q)
<1>1. contact' = contact => C!Active' = C!Active
  BY DEF C!Active, C!Contacts
<1>2. lead' = lead => C!Leads' = C!Leads /\ C!Open' = C!Open
  BY DEF C!Open, C!Leads
<1> QED BY <1>1, <1>2 DEF C!Answer

\* A request works on one table: what it changes it has still to drop.
LEMMA OneWrites ==
    ASSUME C!CrmAssumption, CrmCalls, NEW r \in Request, cache' = cache,
           \A p \in Request \ {r} : crmReq'[p] = crmReq[p], crmReq'[r].op # "list",
           crmReq[r].step \in {"note", "drop"} => crmReq'[r].step \in {"note", "drop"} /\ C!Table(r)' = C!Table(r),
           contact' # contact => crmReq'[r].step \in {"note", "drop"} /\ C!Table(r)' = "contacts",
           lead' # lead => crmReq'[r].step \in {"note", "drop"} /\ C!Table(r)' = "leads"
    PROVE  ListsAreDropped
<1>1. \A p \in Request \ {r} : C!Table(p)' = C!Table(p)
  BY DEF C!Table
<1>2. \A t \in {"leads", "contacts"} : Drops(t) => Drops(t)'
  BY <1>1 DEF Drops
<1>3. \A q \in Query : C!Answer(q)' = C!Answer(q) \/ Drops(q.of)'
  <2> SUFFICES ASSUME NEW q \in Query, C!Answer(q)' # C!Answer(q) PROVE Drops(q.of)'
    OBVIOUS
  <2>1. q.of \in {"leads", "contacts"}
    BY DEF C!CrmAssumption
  <2>2. CASE q.of = "leads"
    BY <2>2, AnswersRead DEF Drops
  <2>3. CASE q.of = "contacts"
    BY <2>3, AnswersRead DEF Drops
  <2> QED BY <2>1, <2>2, <2>3
<1>4. \A p \in Request, q \in Query : crmReq'[p].op = "list" /\ crmReq'[p].arg = q =>
         /\ crmReq[p].op = "list" /\ crmReq[p].arg = q /\ crmReq'[p].ids = crmReq[p].ids
         /\ crmReq[p].over => crmReq'[p].over
  OBVIOUS
<1> QED BY <1>2, <1>3, <1>4 DEF ListsAreDropped

\* Nothing is said of a lead and none closes or opens.
LEMMA NoneTells ==
    ASSUME lead' = lead, told' = told, muddled' = muddled,
           \A p \in Request :
             /\ (crmReq'[p].step = "note") <=> (crmReq[p].step = "note")
             /\ (crmReq[p].step = "note") =>
                  crmReq'[p].op = crmReq[p].op /\ crmReq'[p].at = crmReq[p].at /\ crmReq'[p].arg = crmReq[p].arg
    PROVE  StatusesAreTold
<1>1. C!Leads' = C!Leads
  BY DEF C!Leads
<1>2. \A p \in Request, l \in C!Leads :
        (Tells(p, l)' <=> Tells(p, l)) /\ (Tells(p, l) => crmReq'[p].arg = crmReq[p].arg)
  BY DEF Tells
<1>3. ASSUME NEW l \in C!Leads', l \notin muddled'
      PROVE  /\ l \in C!Leads /\ lead'[l].status = lead[l].status
             /\ \A r \in Request : Tells(r, l)' => Tells(r, l) /\ crmReq'[r].arg = crmReq[r].arg
             /\ \A r \in Request : Tells(r, l) /\ ~Tells(r, l)' => told'[l] = crmReq[r].arg
             /\ told'[l] = told[l]
  BY <1>1, <1>2, <1>3
<1> QED BY <1>3 DEF StatusesAreTold

LEMMA NoneCloses ==
    ASSUME contact' = contact, lateLead \subseteq lateLead',
           \A l \in C!Open' : l \in C!Open /\ lead'[l].contact = lead[l].contact,
           \A p \in Request, c \in Contact : Deletes(p, c)' => Deletes(p, c)
    PROVE  ContactsClose
BY AnswersRead DEF ContactsClose

LEMMA NoneSeeds ==
    ASSUME UNCHANGED <<pipelines, reseeded>>, \A p \in Request : Seeds(p)' => Seeds(p)
    PROVE  SeedsAreFew
BY DEF SeedsAreFew
LEMMA NoneIsMoved ==
    ASSUME UNCHANGED <<lead, pipelines, adrift>>
    PROVE  StagesStay
BY AnswersRead DEF StagesStay

LEMMA NoneMoves ==
    ASSUME UNCHANGED <<contact, lead, crmReq>>,
           \A k \in C!Keys : cache'[k] = None \/ cache'[k] = cache[k]
    PROVE  ListsAreDropped
<1>1. \A q \in Query : C!Answer(q)' = C!Answer(q)
  <2> SUFFICES ASSUME NEW q \in Query PROVE C!Answer(q)' = C!Answer(q)
    OBVIOUS
  <2> QED BY AnswersRead
<1>2. \A t \in {"leads", "contacts"} : Drops(t) => Drops(t)'
  BY DEF Drops, C!Table
<1>3. \A p \in Request, q \in Query : crmReq'[p].op = "list" /\ crmReq'[p].arg = q =>
        /\ crmReq[p].op = "list" /\ crmReq[p].arg = q /\ crmReq'[p].ids = crmReq[p].ids
        /\ crmReq[p].over => crmReq'[p].over
  OBVIOUS
<1> QED BY <1>1, <1>2, <1>3 DEF ListsAreDropped

\* A step that asks: it writes no row and has nothing to drop.
LEMMA QuietIsOrderly ==
    ASSUME C!CrmAssumption, CrmCalls, NEW r \in Request,
           UNCHANGED <<C!rows, told, cache, muddled, adrift, reseeded>>, lateLead \subseteq lateLead',
           \A p \in Request \ {r} : crmReq'[p] = crmReq[p],
           crmReq[r].step \notin {"note", "drop"}, crmReq'[r].step # "note", ~Seeds(r)',
           \A c \in Contact : Deletes(r, c)' => \A l \in C!Open : lead[l].contact = c => l \in lateLead',
           \A q \in Query : crmReq'[r].op = "list" /\ crmReq'[r].arg = q => crmReq'[r].ids = C!Answer(q)
    PROVE  Orderly
<1>0. UNCHANGED <<contact, lead, pipelines>>
  BY DEF C!rows
<1>1. ContactsClose
  <2>1. C!Active' = C!Active /\ C!Open' = C!Open
    BY <1>0, AnswersRead
  <2>2. \A p \in Request \ {r}, c \in Contact : Deletes(p, c)' => Deletes(p, c)
    BY DEF Deletes
  <2> QED BY <1>0, <2>1, <2>2 DEF ContactsClose
<1>2. StatusesAreTold
  BY <1>0, NoneTells
<1>3. StagesStay
  BY <1>0, NoneIsMoved
<1>4. SeedsAreFew
  <2>1. \A p \in Request \ {r} : Seeds(p)' => Seeds(p)
    BY DEF Seeds
  <2> QED BY <1>0, <2>1, NoneSeeds
<1>5. ListsAreDropped
  <2>1. \A q \in Query : C!Answer(q)' = C!Answer(q)
    <3> SUFFICES ASSUME NEW q \in Query PROVE C!Answer(q)' = C!Answer(q)
      OBVIOUS
    <3> QED BY <1>0, AnswersRead
  <2>2. \A p \in Request \ {r} : C!Table(p)' = C!Table(p)
    BY DEF C!Table
  <2>3. \A t \in {"leads", "contacts"} : Drops(t) => Drops(t)'
    BY <2>2 DEF Drops
  <2>4. \A p \in Request, q \in Query : crmReq'[p].op = "list" /\ crmReq'[p].arg = q =>
           \/ crmReq'[p].ids = C!Answer(q)'
           \/ /\ crmReq[p].op = "list" /\ crmReq[p].arg = q /\ crmReq'[p].ids = crmReq[p].ids
              /\ crmReq[p].over => crmReq'[p].over
    BY <2>1
  <2> QED BY <2>1, <2>3, <2>4 DEF ListsAreDropped
<1> QED BY <1>1, <1>2, <1>3, <1>4, <1>5 DEF Orderly

LEMMA CrmStepIsOrderly ==
    ASSUME C!CrmAssumption, CrmInv, [C!Next]_(C!vars)
    PROVE  Orderly
<1>0. /\ CrmRows /\ LeadsHaveRows /\ CrmCalls /\ CacheIsKeyed /\ DeletingIsClear
      /\ TellingIsTrue /\ SeededOnce
  BY DEF CrmInv
<1>n. None \notin ContactRow /\ None \notin LeadRow /\ None \notin ListRow
  BY CrmNones
<1>t. \A r \in Request : crmReq[r] \in CrmCall /\ Prepared(crmReq[r], C!Contacts, C!Leads)
  BY <1>0 DEF CrmCalls
\* The steps that ask.
<1>1. ASSUME NEW r \in Request, NEW c \in Contact, NEW phone \in Phone, C!ContactAsk(r, c, phone)
      PROVE  Orderly
  <2>1. /\ UNCHANGED <<C!rows, told, cache, lateLead, muddled, adrift, reseeded>>
        /\ \E step \in {"write", "check"} : C!Start(r, "contact", step, c, phone)
    BY <1>1 DEF C!ContactAsk, C!history
  <2>2. PICK step \in {"write", "check"} : C!Start(r, "contact", step, c, phone)
    BY <2>1
  <2>3. /\ crmReq[r].op = "idle" /\ crmReq[r].step = "done" /\ crmReq'[r].op = "contact" /\ crmReq'[r].step = step
        /\ \A p \in Request \ {r} : crmReq'[p] = crmReq[p]
    BY <1>0, <2>2, CrmStarted
  <2>4. ~Seeds(r)' /\ \A d \in Contact : ~Deletes(r, d)'
    BY <2>3 DEF Seeds, Deletes
  <2> QED BY <1>0, <2>1, <2>3, <2>4, QuietIsOrderly
<1>2. ASSUME NEW r \in Request, NEW fails \in BOOLEAN, C!PhoneCheck(r, fails)
      PROVE  Orderly
  <2>1. /\ UNCHANGED <<C!rows, told, cache, lateLead, muddled, adrift, reseeded>>
        /\ crmReq[r].op = "contact" /\ crmReq[r].step = "check" /\ (C!Finish(r) \/ C!Go(r, "write"))
    BY <1>2 DEF C!PhoneCheck, C!InStep, C!history
  <2>2. /\ crmReq'[r].op \in {"idle", "contact"} /\ crmReq'[r].step \in {"done", "write"}
        /\ \A p \in Request \ {r} : crmReq'[p] = crmReq[p]
    BY <1>0, <2>1, CrmFinished, CrmWent
  <2>3. ~Seeds(r)' /\ \A d \in Contact : ~Deletes(r, d)'
    BY <2>2 DEF Seeds, Deletes
  <2> QED BY <1>0, <2>1, <2>2, <2>3, QuietIsOrderly
<1>3. ASSUME NEW r \in Request, NEW c \in Contact, C!DeleteAsk(r, c)
      PROVE  Orderly
  <2>1. /\ UNCHANGED <<C!rows, told, cache, lateLead, muddled, adrift, reseeded>>
        /\ C!Start(r, "delete", "check", c, None)
    BY <1>3 DEF C!DeleteAsk, C!history
  <2>2. /\ crmReq[r].op = "idle" /\ crmReq[r].step = "done" /\ crmReq'[r].op = "delete" /\ crmReq'[r].step = "check"
        /\ \A p \in Request \ {r} : crmReq'[p] = crmReq[p]
    BY <1>0, <2>1, CrmStarted
  <2>3. ~Seeds(r)' /\ \A d \in Contact : ~Deletes(r, d)'
    BY <2>2 DEF Seeds, Deletes
  <2> QED BY <1>0, <2>1, <2>2, <2>3, QuietIsOrderly
\* The check finds no open lead of the contact, or its error leaves them late.
<1>4. ASSUME NEW r \in Request, NEW fails \in BOOLEAN, C!DeleteCheck(r, fails)
      PROVE  Orderly
  <2>1. /\ UNCHANGED <<C!rows, told, cache, muddled, adrift, reseeded>>
        /\ crmReq[r].op = "delete" /\ crmReq[r].step = "check"
        /\ lateLead' = IF fails THEN lateLead \cup {l \in C!Open : lead[l].contact = crmReq[r].at} ELSE lateLead
    BY <1>4 DEF C!DeleteCheck, C!InStep
  <2>2. IF ~fails /\ C!HasOpenLeads(crmReq[r].at) THEN C!Finish(r) ELSE C!Go(r, "write")
    BY <1>4 DEF C!DeleteCheck
  <2>3. CASE ~fails /\ C!HasOpenLeads(crmReq[r].at)
    <3>1. /\ crmReq'[r].op = "idle" /\ crmReq'[r].step = "done"
          /\ \A p \in Request \ {r} : crmReq'[p] = crmReq[p]
      BY <1>0, <2>2, <2>3, CrmFinished
    <3>2. ~Seeds(r)' /\ \A d \in Contact : ~Deletes(r, d)'
      BY <3>1 DEF Seeds, Deletes
    <3> QED BY <1>0, <2>1, <3>1, <3>2, QuietIsOrderly
  <2>4. CASE fails \/ ~C!HasOpenLeads(crmReq[r].at)
    <3>1. /\ crmReq'[r].op = "delete" /\ crmReq'[r].step = "write" /\ crmReq'[r].at = crmReq[r].at
          /\ \A p \in Request \ {r} : crmReq'[p] = crmReq[p]
      BY <1>0, <2>1, <2>2, <2>4, CrmWent
    <3>2. ~Seeds(r)' /\ \A d \in Contact : Deletes(r, d)' => d = crmReq[r].at
      BY <3>1 DEF Seeds, Deletes
    <3>3. \A l \in C!Open : lead[l].contact = crmReq[r].at => l \in lateLead'
      BY <2>1, <2>4 DEF C!HasOpenLeads
    <3> QED BY <1>0, <2>1, <3>1, <3>2, <3>3, QuietIsOrderly
  <2> QED BY <2>3, <2>4
<1>5. ASSUME NEW r \in Request, NEW l \in Lead, C!LeadUpdate(r, l)
      PROVE  Orderly
  <2>1. /\ UNCHANGED <<C!rows, told, cache, lateLead, muddled, adrift, reseeded>>
        /\ C!Start(r, "lead", "drop", l, None)
    BY <1>5 DEF C!LeadUpdate, C!history
  <2>2. /\ crmReq[r].op = "idle" /\ crmReq[r].step = "done" /\ crmReq'[r].op = "lead" /\ crmReq'[r].step = "drop"
        /\ \A p \in Request \ {r} : crmReq'[p] = crmReq[p]
    BY <1>0, <2>1, CrmStarted
  <2>3. ~Seeds(r)' /\ \A d \in Contact : ~Deletes(r, d)'
    BY <2>2 DEF Seeds, Deletes
  <2> QED BY <1>0, <2>1, <2>2, <2>3, QuietIsOrderly
<1>6. ASSUME NEW r \in Request, NEW q \in Query, C!ListRead(r, q)
      PROVE  Orderly
  <2>1. /\ UNCHANGED <<C!rows, told, cache, lateLead, muddled, adrift, reseeded>> /\ crmReq[r] = C!Idle
        /\ crmReq' = [crmReq EXCEPT ![r] = [C!Idle EXCEPT !.op = "list", !.step = "fill", !.arg = q,
                                                !.ids = C!Answer(q)]]
    BY <1>6 DEF C!ListRead, C!history
  <2>2. /\ crmReq[r].step = "done" /\ crmReq'[r].op = "list" /\ crmReq'[r].step = "fill"
        /\ crmReq'[r].arg = q /\ crmReq'[r].ids = C!Answer(q)
        /\ \A p \in Request \ {r} : crmReq'[p] = crmReq[p]
    BY <1>0, <2>1 DEF CrmCalls, C!Idle
  <2>3. ~Seeds(r)' /\ \A d \in Contact : ~Deletes(r, d)'
    BY <2>2 DEF Seeds, Deletes
  <2> QED BY <1>0, <2>1, <2>2, <2>3, QuietIsOrderly
<1>7. ASSUME NEW r \in Request, C!ContactWrite(r)
      PROVE  Orderly
  <2> DEFINE c == crmReq[r].at
  <2>1. /\ UNCHANGED <<lead, pipelines, told, cache, lateLead, muddled, adrift, reseeded>>
        /\ crmReq[r].op = "contact" /\ crmReq[r].step = "write" /\ C!Go(r, "drop")
        /\ contact' = [contact EXCEPT ![c] =
                         [phone |-> crmReq[r].arg, active |-> c \notin C!Contacts \/ contact[c].active]]
    BY <1>7 DEF C!ContactWrite, C!InStep, C!history
  <2>2. /\ crmReq'[r].op = "contact" /\ crmReq'[r].step = "drop"
        /\ \A p \in Request \ {r} : crmReq'[p] = crmReq[p]
    BY <1>0, <2>1, CrmWent
  <2>3. c \in Contact /\ crmReq[r].arg \in Phone
    BY <1>t, <2>1 DEF Prepared
  <2>4. C!Open' = C!Open /\ C!Active \subseteq C!Active'
    <3>1. (c \notin C!Contacts \/ contact[c].active) \in BOOLEAN
      BY <1>0, <2>3 DEF CrmRows, C!Contacts, ContactRow
    <3>2. [phone |-> crmReq[r].arg, active |-> c \notin C!Contacts \/ contact[c].active] \in ContactRow
      BY <2>3, <3>1 DEF ContactRow
    <3>3. [phone |-> crmReq[r].arg, active |-> c \notin C!Contacts \/ contact[c].active] # None
      BY <1>n, <3>2
    <3>4. /\ \A d \in Contact \ {c} : contact'[d] = contact[d]
          /\ contact'[c] # None /\ (c \in C!Active => contact'[c].active)
      BY <1>0, <2>1, <2>3, <3>3 DEF CrmRows, C!Active
    <3> QED BY <2>1, <3>4, AnswersRead DEF C!Active, C!Contacts
  <2>5. \A p \in Request, d \in Contact : Deletes(p, d)' => Deletes(p, d)
    BY <2>1, <2>2 DEF Deletes
  <2>6. ContactsClose
    BY <2>1, <2>4, <2>5 DEF ContactsClose
  <2>7. StatusesAreTold
    BY <2>1, <2>2, NoneTells
  <2>8. SeedsAreFew
    <3>1. \A p \in Request : Seeds(p)' => Seeds(p)
      BY <2>1, <2>2 DEF Seeds
    <3> QED BY <2>1, <3>1, NoneSeeds
  <2>9. ListsAreDropped
    <3>1. C!Table(r)' = "contacts"
      BY <2>2 DEF C!Table
    <3> QED BY <1>0, <2>1, <2>2, <3>1, OneWrites
  <2> QED BY <2>1, <2>6, <2>7, <2>8, <2>9, NoneIsMoved DEF Orderly
<1>8. ASSUME NEW r \in Request, C!SoftDelete(r)
      PROVE  Orderly
  <2> DEFINE c == crmReq[r].at
  <2>1. /\ UNCHANGED <<lead, pipelines, told, cache, lateLead, muddled, adrift, reseeded>>
        /\ crmReq[r].op = "delete" /\ crmReq[r].step = "write" /\ C!Go(r, "drop")
        /\ contact' = [contact EXCEPT ![c].active = FALSE]
    BY <1>8 DEF C!SoftDelete, C!InStep, C!history
  <2>2. /\ crmReq'[r].op = "delete" /\ crmReq'[r].step = "drop"
        /\ \A p \in Request \ {r} : crmReq'[p] = crmReq[p]
    BY <1>0, <2>1, CrmWent
  <2>3. c \in Contact /\ Deletes(r, c)
    BY <1>t, <2>1 DEF Prepared, C!Contacts, Deletes
  <2>4. C!Active \ C!Active' \subseteq {c} /\ c \notin C!Active'
    <3>1. /\ \A d \in Contact \ {c} : contact'[d] = contact[d]
          /\ contact'[c] = [contact[c] EXCEPT !.active = FALSE]
      BY <1>0, <2>1, <2>3 DEF CrmRows
    <3>2. contact[c] \in ContactRow
      BY <1>0, <1>t, <2>1 DEF Prepared, CrmRows, C!Contacts
    <3>3. ~contact'[c].active
      BY <3>1, <3>2 DEF ContactRow
    <3> QED BY <3>1, <3>3 DEF C!Active, C!Contacts
  <2>5. \A p \in Request, d \in Contact : Deletes(p, d)' => Deletes(p, d)
    BY <2>2 DEF Deletes
  <2>6. ContactsClose
    <3>1. C!Open' = C!Open
      BY <2>1, AnswersRead
    <3> QED BY <2>1, <2>3, <2>4, <2>5, <3>1 DEF ContactsClose
  <2>7. StatusesAreTold
    BY <2>1, <2>2, NoneTells
  <2>8. SeedsAreFew
    <3>1. \A p \in Request : Seeds(p)' => Seeds(p)
      BY <2>1, <2>2 DEF Seeds
    <3> QED BY <2>1, <3>1, NoneSeeds
  <2>9. ListsAreDropped
    <3>1. C!Table(r)' = "contacts"
      BY <2>2 DEF C!Table
    <3> QED BY <1>0, <2>1, <2>2, <3>1, OneWrites
  <2> QED BY <2>1, <2>6, <2>7, <2>8, <2>9, NoneIsMoved DEF Orderly
<1>9. ASSUME NEW r \in Request, NEW l \in Lead, NEW c \in Contact, NEW p \in DOMAIN pipelines,
             NEW stage \in Stage, C!LeadCreate(r, l, c, p, stage)
      PROVE  Orderly
  <2> DEFINE new == [contact |-> c, pipeline |-> p, stage |-> stage, status |-> "OPEN"]
  <2>1. /\ UNCHANGED <<contact, pipelines, told, cache, muddled, reseeded>>
        /\ l \notin C!Leads /\ c \in C!Contacts
        /\ C!Start(r, "lead", "note", l, "OPEN")
        /\ lead' = [lead EXCEPT ![l] = new]
        /\ lateLead' = IF c \notin C!Active \/ \E d \in C!InStep("delete", "write") : crmReq[d].at = c
                       THEN lateLead \cup {l} ELSE lateLead
        /\ adrift' = IF stage \in pipelines[p] THEN adrift ELSE adrift \cup {l}
    BY <1>9 DEF C!LeadCreate
  <2>2. /\ crmReq[r].op = "idle" /\ crmReq[r].step = "done" /\ crmReq'[r].op = "lead" /\ crmReq'[r].step = "note"
        /\ crmReq'[r].at = l /\ crmReq'[r].arg = "OPEN"
        /\ \A q \in Request \ {r} : crmReq'[q] = crmReq[q]
    BY <1>0, <2>1, CrmStarted
  <2>3. /\ lead'[l] = new /\ new # None
        /\ \A k \in Lead \ {l} : lead'[k] = lead[k]
    <3>1. new \in LeadRow
      BY <1>0 DEF CrmRows, LeadRow, C!Contacts, C!Contacts
    <3> QED BY <1>0, <1>n, <2>1, <3>1 DEF CrmRows
  <2>4. new.contact = c /\ new.pipeline = p /\ new.stage = stage /\ new.status = "OPEN"
    OBVIOUS
  <2> HIDE DEF new
  <2>5. /\ C!Active' = C!Active /\ C!Leads' = C!Leads \cup {l} /\ C!Open' = C!Open \cup {l} /\ l \notin C!Open
    BY <2>1, <2>3, <2>4, AnswersRead DEF C!Leads, C!Open
  <2>6. \A q \in Request, d \in Contact : Deletes(q, d)' => Deletes(q, d)
    BY <2>2 DEF Deletes
  <2>7. ContactsClose
    <3>1. l \in lateLead' \/ (c \in C!Active /\ ~\E q \in Request : Deletes(q, c))
      BY <2>1 DEF C!InStep, Deletes
    <3>2. \A k \in C!Open : lead'[k].contact = lead[k].contact
      BY <2>3, <2>5 DEF C!Open, C!Leads
    <3>3. lateLead \subseteq lateLead' /\ lead'[l].contact = c
      BY <2>1, <2>3, <2>4
    <3> QED BY <2>5, <2>6, <3>1, <3>2, <3>3 DEF ContactsClose
  <2>8. StatusesAreTold
    <3>1. ASSUME NEW k \in C!Leads
          PROVE  /\ lead'[k].status = lead[k].status /\ told'[k] = told[k]
                 /\ \A q \in Request : (Tells(q, k)' <=> Tells(q, k))
                                       /\ (Tells(q, k) => crmReq'[q].arg = crmReq[q].arg)
      BY <2>1, <2>2, <2>3, <3>1 DEF Tells, C!Leads
    <3>2. Tells(r, l)' /\ crmReq'[r].arg = lead'[l].status
      BY <2>2, <2>3, <2>4 DEF Tells
    <3>3. \A q \in Request : Tells(q, l)' => q = r
      BY <1>t, <2>1, <2>2 DEF Tells, Prepared
    <3> QED BY <2>1, <2>5, <3>1, <3>2, <3>3 DEF StatusesAreTold
  <2>9. StagesStay
    <3>1. adrift \subseteq adrift' /\ (l \in adrift' \/ lead'[l].stage \in pipelines'[lead'[l].pipeline])
      BY <2>1, <2>3, <2>4
    <3>2. \A k \in C!Open : lead'[k].stage = lead[k].stage /\ lead'[k].pipeline = lead[k].pipeline
      BY <2>3, <2>5 DEF C!Open, C!Leads
    <3> QED BY <2>1, <2>5, <3>1, <3>2 DEF StagesStay
  <2>10. SeedsAreFew
    <3>1. \A q \in Request : Seeds(q)' => Seeds(q)
      BY <2>2 DEF Seeds
    <3> QED BY <2>1, <3>1, NoneSeeds
  <2>11. ListsAreDropped
    <3>1. C!Table(r)' = "leads"
      BY <2>2 DEF C!Table
    <3> QED BY <1>0, <2>1, <2>2, <3>1, OneWrites
  <2> QED BY <2>7, <2>8, <2>9, <2>10, <2>11 DEF Orderly
<1>10. ASSUME NEW r \in Request, NEW l \in Lead, NEW status \in {"WON", "LOST"}, C!Close(r, l, status)
       PROVE  Orderly
  <2>1. /\ UNCHANGED <<contact, pipelines, told, cache, lateLead, adrift, reseeded>> /\ l \in C!Leads
        /\ C!Start(r, "lead", "note", l, status)
        /\ lead' = [lead EXCEPT ![l].status = status]
        /\ muddled' = IF C!Changing(l) THEN muddled \cup {l} ELSE muddled
    BY <1>10 DEF C!Close
  <2>2. /\ crmReq[r].op = "idle" /\ crmReq[r].step = "done" /\ crmReq'[r].op = "lead" /\ crmReq'[r].step = "note"
        /\ crmReq'[r].at = l /\ crmReq'[r].arg = status
        /\ \A q \in Request \ {r} : crmReq'[q] = crmReq[q]
    BY <1>0, <2>1, CrmStarted
  <2>3. /\ lead'[l].status = status /\ lead'[l] # None
        /\ \A k \in Lead \ {l} : lead'[k] = lead[k]
    <3>1. lead[l] \in LeadRow
      BY <1>0, <2>1 DEF CrmRows, C!Leads
    <3>2. lead'[l] = [lead[l] EXCEPT !.status = status] /\ \A k \in Lead \ {l} : lead'[k] = lead[k]
      BY <1>0, <2>1 DEF CrmRows
    <3>3. [lead[l] EXCEPT !.status = status] \in LeadRow
      BY <3>1 DEF LeadRow
    <3>4. [lead[l] EXCEPT !.status = status].status = status
      BY <3>1 DEF LeadRow
    <3> QED BY <1>n, <3>2, <3>3, <3>4
  <2>4. C!Leads' = C!Leads /\ C!Open' = C!Open \ {l}
    BY <2>1, <2>3 DEF C!Leads, C!Open
  <2>5. ContactsClose
    <3>1. \A q \in Request, d \in Contact : Deletes(q, d)' => Deletes(q, d)
      BY <2>2 DEF Deletes
    <3>2. \A k \in C!Open' : k \in C!Open /\ lead'[k].contact = lead[k].contact
      BY <2>3, <2>4 DEF C!Open, C!Leads
    <3> QED BY <2>1, <3>1, <3>2, NoneCloses
  <2>6. StatusesAreTold
    <3>1. ASSUME NEW k \in C!Leads \ {l}
          PROVE  /\ lead'[k].status = lead[k].status /\ told'[k] = told[k]
                 /\ \A q \in Request : (Tells(q, k)' <=> Tells(q, k))
                                       /\ (Tells(q, k) => crmReq'[q].arg = crmReq[q].arg)
      BY <2>1, <2>2, <2>3, <3>1 DEF Tells, C!Leads
    <3>2. Tells(r, l)' /\ crmReq'[r].arg = lead'[l].status
      BY <2>2, <2>3 DEF Tells
    <3>3. l \notin muddled' => \A q \in Request : ~Tells(q, l)
      BY <2>1 DEF Tells, C!Changing, C!InStep
    <3>4. \A q \in Request : Tells(q, l)' => q = r \/ Tells(q, l)
      BY <2>2 DEF Tells
    <3> QED BY <2>1, <2>4, <3>1, <3>2, <3>3, <3>4 DEF StatusesAreTold
  <2>7. StagesStay
    <3>1. \A k \in C!Open' : k \in C!Open /\ lead'[k].stage = lead[k].stage /\ lead'[k].pipeline = lead[k].pipeline
      BY <2>3, <2>4 DEF C!Open, C!Leads
    <3> QED BY <2>1, <3>1 DEF StagesStay
  <2>8. SeedsAreFew
    <3>1. \A q \in Request : Seeds(q)' => Seeds(q)
      BY <2>2 DEF Seeds
    <3> QED BY <2>1, <3>1, NoneSeeds
  <2>9. ListsAreDropped
    <3>1. C!Table(r)' = "leads"
      BY <2>2 DEF C!Table
    <3> QED BY <1>0, <2>1, <2>2, <3>1, OneWrites
  <2> QED BY <2>5, <2>6, <2>7, <2>8, <2>9 DEF Orderly
<1>11. ASSUME NEW r \in Request, NEW l \in Lead, NEW stage \in Stage, C!MoveStage(r, l, stage)
       PROVE  Orderly
  <2>1. /\ UNCHANGED <<contact, pipelines, told, cache, lateLead, muddled, reseeded>> /\ l \in C!Leads
        /\ C!Start(r, "lead", "note", l, "moved")
        /\ lead' = [lead EXCEPT ![l].stage = stage]
        /\ adrift' = IF stage \in pipelines[lead[l].pipeline] THEN adrift ELSE adrift \cup {l}
    BY <1>11 DEF C!MoveStage
  <2>2. /\ crmReq[r].op = "idle" /\ crmReq[r].step = "done" /\ crmReq'[r].op = "lead" /\ crmReq'[r].step = "note"
        /\ crmReq'[r].at = l /\ crmReq'[r].arg = "moved"
        /\ \A q \in Request \ {r} : crmReq'[q] = crmReq[q]
    BY <1>0, <2>1, CrmStarted
  <2>3. /\ lead'[l].stage = stage /\ lead'[l] # None /\ lead'[l].status = lead[l].status
        /\ lead'[l].contact = lead[l].contact /\ lead'[l].pipeline = lead[l].pipeline
        /\ \A k \in Lead \ {l} : lead'[k] = lead[k]
    <3>1. lead[l] \in LeadRow
      BY <1>0, <2>1 DEF CrmRows, C!Leads
    <3>2. lead'[l] = [lead[l] EXCEPT !.stage = stage] /\ \A k \in Lead \ {l} : lead'[k] = lead[k]
      BY <1>0, <2>1 DEF CrmRows
    <3>3. [lead[l] EXCEPT !.stage = stage] \in LeadRow
      BY <3>1 DEF LeadRow
    <3>4. [lead[l] EXCEPT !.stage = stage].stage = stage
      BY <3>1 DEF LeadRow
    <3>5. /\ [lead[l] EXCEPT !.stage = stage].status = lead[l].status
          /\ [lead[l] EXCEPT !.stage = stage].contact = lead[l].contact
          /\ [lead[l] EXCEPT !.stage = stage].pipeline = lead[l].pipeline
      BY <3>1 DEF LeadRow
    <3> QED BY <1>n, <3>2, <3>3, <3>4, <3>5
  <2>4. C!Leads' = C!Leads /\ C!Open' = C!Open
    BY <2>1, <2>3 DEF C!Leads, C!Open
  <2>5. ContactsClose
    <3>1. \A q \in Request, d \in Contact : Deletes(q, d)' => Deletes(q, d)
      BY <2>2 DEF Deletes
    <3>2. \A k \in C!Open' : k \in C!Open /\ lead'[k].contact = lead[k].contact
      BY <2>3, <2>4 DEF C!Open, C!Leads
    <3> QED BY <2>1, <3>1, <3>2, NoneCloses
  <2>6. StatusesAreTold
    <3>1. \A k \in C!Leads : lead'[k].status = lead[k].status
      BY <2>3 DEF C!Leads
    <3>2. \A q \in Request, k \in C!Leads :
            (Tells(q, k)' <=> Tells(q, k)) /\ (Tells(q, k) => crmReq'[q].arg = crmReq[q].arg)
      BY <2>2 DEF Tells
    <3> QED BY <2>1, <2>4, <3>1, <3>2 DEF StatusesAreTold
  <2>7. StagesStay
    <3>1. adrift \subseteq adrift' /\ (l \in adrift' \/ lead'[l].stage \in pipelines'[lead'[l].pipeline])
      BY <2>1, <2>3
    <3>2. \A k \in C!Open \ {l} : lead'[k].stage = lead[k].stage /\ lead'[k].pipeline = lead[k].pipeline
      BY <2>3 DEF C!Open, C!Leads
    <3> QED BY <2>1, <2>4, <3>1, <3>2 DEF StagesStay
  <2>8. SeedsAreFew
    <3>1. \A q \in Request : Seeds(q)' => Seeds(q)
      BY <2>2 DEF Seeds
    <3> QED BY <2>1, <3>1, NoneSeeds
  <2>9. ListsAreDropped
    <3>1. C!Table(r)' = "leads"
      BY <2>2 DEF C!Table
    <3> QED BY <1>0, <2>1, <2>2, <3>1, OneWrites
  <2> QED BY <2>5, <2>6, <2>7, <2>8, <2>9 DEF Orderly
\* The activity of a lead: told, or lost and the lead is muddled.
<1>12. ASSUME NEW r \in Request, NEW fails \in BOOLEAN, C!Note(r, fails)
       PROVE  Orderly
  <2> DEFINE l == crmReq[r].at
  <2>1. /\ UNCHANGED <<contact, lead, pipelines, cache, lateLead, adrift, reseeded>>
        /\ crmReq[r].op = "lead" /\ crmReq[r].step = "note" /\ C!Go(r, "drop")
        /\ told' = IF fails \/ crmReq[r].arg = "moved" THEN told ELSE [told EXCEPT ![l] = crmReq[r].arg]
        /\ muddled' = IF fails THEN muddled \cup {l} ELSE muddled
    BY <1>12 DEF C!Note, C!InStep, C!rows
  <2>2. /\ crmReq'[r].op = "lead" /\ crmReq'[r].step = "drop" /\ crmReq'[r].at = l
        /\ \A q \in Request \ {r} : crmReq'[q] = crmReq[q]
    BY <1>0, <2>1, CrmWent
  <2>3. l \in C!Leads /\ l \in Lead
    BY <1>t, <2>1 DEF Prepared, C!Leads
  <2>4. C!Leads' = C!Leads /\ C!Open' = C!Open
    BY <2>1, AnswersRead
  <2>5. ContactsClose
    <3>1. \A q \in Request, d \in Contact : Deletes(q, d)' => Deletes(q, d)
      BY <2>2 DEF Deletes
    <3> QED BY <2>1, <2>4, <3>1, NoneCloses
  <2>6. StatusesAreTold
    <3>1. /\ \A q \in Request \ {r}, k \in C!Leads : Tells(q, k)' <=> Tells(q, k)
          /\ \A k \in C!Leads : ~Tells(r, k)'
          /\ \A k \in C!Leads : Tells(r, k) => k = l /\ crmReq[r].arg # "moved"
      BY <2>2 DEF Tells
    <3>2. \A k \in C!Leads \ {l} : told'[k] = told[k]
      BY <1>0, <2>1, <2>3 DEF CrmRows, C!Leads
    <3>3. l \notin muddled' =>
            IF crmReq[r].arg = "moved" THEN told'[l] = told[l] ELSE told'[l] = crmReq[r].arg /\ Tells(r, l)
      BY <1>0, <2>1, <2>3 DEF CrmRows, Tells
    <3>4. ASSUME NEW k \in C!Leads, k \notin muddled'
          PROVE  /\ \A q \in Request : Tells(q, k)' => Tells(q, k) /\ crmReq'[q].arg = crmReq[q].arg
                 /\ \A q \in Request : Tells(q, k) /\ ~Tells(q, k)' => told'[k] = crmReq[q].arg
                 /\ told'[k] = told[k] \/ \E q \in Request : Tells(q, k) /\ told'[k] = crmReq[q].arg
      <4>1. CASE k = l
        BY <2>2, <3>1, <3>3, <3>4, <4>1
      <4>2. CASE k # l
        BY <2>2, <3>1, <3>2, <4>2
      <4> QED BY <4>1, <4>2
    <3>5. muddled \subseteq muddled'
      BY <2>1
    <3> QED BY <2>1, <2>4, <3>4, <3>5 DEF StatusesAreTold
  <2>7. SeedsAreFew
    <3>1. \A q \in Request : Seeds(q)' => Seeds(q)
      BY <2>2 DEF Seeds
    <3> QED BY <2>1, <3>1, NoneSeeds
  <2>8. ListsAreDropped
    <3>1. C!Table(r)' = C!Table(r)
      BY <2>1, <2>2 DEF C!Table
    <3> QED BY <1>0, <2>1, <2>2, <3>1, OneWrites
  <2> QED BY <2>1, <2>5, <2>6, <2>7, <2>8, NoneIsMoved DEF Orderly
\* The drop reaches what is in Redis and what is on its way there.
<1>13. ASSUME NEW r \in Request, NEW fails \in BOOLEAN, C!Drop(r, fails)
       PROVE  Orderly
  <2>1. /\ UNCHANGED <<contact, lead, pipelines, told, lateLead, muddled, adrift, reseeded>>
        /\ crmReq[r].step = "drop"
        /\ cache' = [k \in C!Keys |-> IF k[1] # C!Table(r) THEN cache[k]
                                       ELSE IF fails THEN C!Outdated(cache[k]) ELSE None]
        /\ crmReq' = [q \in Request |->
                        IF q = r THEN C!Idle
                        ELSE IF crmReq[q].op = "list" /\ crmReq[q].arg.of = C!Table(r)
                             THEN [crmReq[q] EXCEPT !.over = TRUE] ELSE crmReq[q]]
    BY <1>13 DEF C!Drop, C!rows, C!history
  <2>2. crmReq'[r].op = "idle" /\ crmReq'[r].step = "done"
    BY <2>1 DEF C!Idle
  <2>3. ASSUME NEW q \in Request \ {r}
        PROVE  /\ crmReq'[q].op = crmReq[q].op /\ crmReq'[q].step = crmReq[q].step /\ crmReq'[q].at = crmReq[q].at
               /\ crmReq'[q].arg = crmReq[q].arg /\ crmReq'[q].ids = crmReq[q].ids
               /\ crmReq'[q].over \in BOOLEAN /\ (crmReq[q].over => crmReq'[q].over)
               /\ crmReq[q].op = "list" /\ crmReq[q].arg.of = C!Table(r) => crmReq'[q].over
    <3>1. crmReq[q] \in CrmCall
      BY <1>t
    <3>2. CASE crmReq[q].op = "list" /\ crmReq[q].arg.of = C!Table(r)
      <4>1. crmReq'[q] = [crmReq[q] EXCEPT !.over = TRUE]
        BY <2>1, <3>2
      <4> QED BY <3>1, <4>1 DEF CrmCall
    <3>3. CASE ~(crmReq[q].op = "list" /\ crmReq[q].arg.of = C!Table(r))
      <4>1. crmReq'[q] = crmReq[q]
        BY <2>1, <3>3
      <4> QED BY <3>1, <3>3, <4>1 DEF CrmCall
    <3> QED BY <3>2, <3>3
  <2>4. C!Open' = C!Open /\ C!Leads' = C!Leads
    BY <2>1, AnswersRead
  <2>5. ContactsClose
    <3>1. \A q \in Request, d \in Contact : Deletes(q, d)' => Deletes(q, d)
      BY <2>2, <2>3 DEF Deletes
    <3> QED BY <2>1, <2>4, <3>1, NoneCloses
  <2>6. StatusesAreTold
    BY <2>1, <2>2, <2>3, NoneTells
  <2>7. SeedsAreFew
    <3>1. \A q \in Request : Seeds(q)' => Seeds(q)
      BY <2>2, <2>3 DEF Seeds
    <3> QED BY <2>1, <3>1, NoneSeeds
  <2>8. ListsAreDropped
    <3>1. \A q \in Query : C!Answer(q)' = C!Answer(q)
      <4> SUFFICES ASSUME NEW q \in Query PROVE C!Answer(q)' = C!Answer(q)
        OBVIOUS
      <4> QED BY <2>1, AnswersRead
    <3>a. \A k \in C!Keys : C!Outdated(cache[k]) = None \/ C!Outdated(cache[k]).stale
      BY <1>0 DEF CrmRows, ListRow, C!Outdated
    <3>2. CrmDropped(C!Table(r))
      BY <2>1, <2>2, <2>3, <3>a DEF CrmDropped
    <3>3. ASSUME NEW t \in {"leads", "contacts"}, t # C!Table(r), Drops(t) PROVE Drops(t)'
      <4>1. PICK q \in Request : crmReq[q].step \in {"note", "drop"} /\ C!Table(q) = t
        BY <3>3 DEF Drops
      <4>2. C!Table(q)' = C!Table(q) /\ crmReq'[q].step = crmReq[q].step
        BY <2>3, <3>3, <4>1 DEF C!Table
      <4> QED BY <4>1, <4>2 DEF Drops
    <3>4. \A p \in Request, q \in Query : crmReq'[p].op = "list" /\ crmReq'[p].arg = q =>
             /\ crmReq[p].op = "list" /\ crmReq[p].arg = q /\ crmReq'[p].ids = crmReq[p].ids
             /\ crmReq[p].over => crmReq'[p].over
      BY <2>2, <2>3
    <3>5. \A k \in C!Keys : cache'[k] = None \/ cache'[k] = cache[k] \/ LeftBehind(k)
      BY <2>1 DEF C!Outdated, LeftBehind
    <3> QED BY <3>1, <3>2, <3>3, <3>4, <3>5 DEF ListsAreDropped
  <2> QED BY <2>1, <2>5, <2>6, <2>7, <2>8, NoneIsMoved DEF Orderly
<1>14. ASSUME NEW r \in Request, C!ListFill(r)
       PROVE  Orderly
  <2>1. /\ UNCHANGED <<contact, lead, pipelines, told, lateLead, muddled, adrift, reseeded>>
        /\ crmReq[r].op = "list" /\ C!Finish(r)
        /\ cache' = [cache EXCEPT ![C!Key(crmReq[r].arg)] =
                       [asked |-> crmReq[r].arg, ids |-> crmReq[r].ids, stale |-> crmReq[r].over]]
    BY <1>14 DEF C!ListFill, C!rows, C!history
  <2>2. /\ crmReq'[r].op = "idle" /\ crmReq'[r].step = "done"
        /\ \A q \in Request \ {r} : crmReq'[q] = crmReq[q]
    BY <1>0, <2>1, CrmFinished
  <2>3. crmReq[r].step = "fill"
    BY <1>t, <2>1 DEF Prepared
  <2>4. C!Open' = C!Open /\ C!Leads' = C!Leads
    BY <2>1, AnswersRead
  <2>5. ContactsClose
    <3>1. \A q \in Request, d \in Contact : Deletes(q, d)' => Deletes(q, d)
      BY <2>2 DEF Deletes
    <3> QED BY <2>1, <2>4, <3>1, NoneCloses
  <2>6. StatusesAreTold
    BY <2>1, <2>2, <2>3, NoneTells
  <2>7. SeedsAreFew
    <3>1. \A q \in Request : Seeds(q)' => Seeds(q)
      BY <2>2 DEF Seeds
    <3> QED BY <2>1, <3>1, NoneSeeds
  <2>8. ListsAreDropped
    <3>1. \A q \in Query : C!Answer(q)' = C!Answer(q)
      <4> SUFFICES ASSUME NEW q \in Query PROVE C!Answer(q)' = C!Answer(q)
        OBVIOUS
      <4> QED BY <2>1, AnswersRead
    <3>2. \A p \in Request \ {r} : C!Table(p)' = C!Table(p)
      BY <2>2 DEF C!Table
    <3>3. \A t \in {"leads", "contacts"} : Drops(t) => Drops(t)'
      BY <2>2, <2>3, <3>2 DEF Drops
    <3>4. \A p \in Request, q \in Query : crmReq'[p].op = "list" /\ crmReq'[p].arg = q =>
             /\ crmReq[p].op = "list" /\ crmReq[p].arg = q /\ crmReq'[p].ids = crmReq[p].ids
             /\ crmReq[p].over => crmReq'[p].over
      BY <2>2
    <3>5. ASSUME NEW k \in C!Keys, cache'[k] # cache[k]
          PROVE  /\ k = C!Key(crmReq[r].arg)
                 /\ cache'[k] = [asked |-> crmReq[r].arg, ids |-> crmReq[r].ids, stale |-> crmReq[r].over]
      BY <1>0, <2>1, <3>5 DEF CrmRows
    <3> QED BY <2>1, <3>1, <3>3, <3>4, <3>5 DEF ListsAreDropped
  <2> QED BY <2>1, <2>5, <2>6, <2>7, <2>8, NoneIsMoved DEF Orderly
<1>15. ASSUME NEW k \in C!Keys, C!Expire(k)
       PROVE  Orderly
  <2>1. /\ UNCHANGED <<contact, lead, pipelines, told, crmReq, lateLead, muddled, adrift, reseeded>>
        /\ cache' = [cache EXCEPT ![k] = None]
    BY <1>15 DEF C!Expire, C!rows, C!history
  <2>2. \A j \in C!Keys : cache'[j] = None \/ cache'[j] = cache[j]
    BY <1>0, <2>1 DEF CrmRows
  <2>3. ContactsClose
    <3>1. C!Open' = C!Open
      BY <2>1, AnswersRead
    <3> QED BY <2>1, <3>1, NoneCloses DEF Deletes
  <2>4. SeedsAreFew
    BY <2>1, NoneSeeds DEF Seeds
  <2> QED BY <2>1, <2>2, <2>3, <2>4, NoneTells, NoneIsMoved, NoneMoves DEF Orderly
\* The pipelines.
<1>16. ASSUME NEW r \in Request, C!PipelineList(r)
       PROVE  Orderly
  <2>1. /\ UNCHANGED <<contact, lead, pipelines, told, cache, lateLead, muddled, adrift>>
        /\ pipelines = <<>> /\ C!Start(r, "seed", "write", None, None)
        /\ reseeded' = (reseeded \/ C!InStep("seed", "write") # {})
    BY <1>16 DEF C!PipelineList, C!rows
  <2>2. /\ crmReq[r].op = "idle" /\ crmReq[r].step = "done" /\ crmReq'[r].op = "seed" /\ crmReq'[r].step = "write"
        /\ \A q \in Request \ {r} : crmReq'[q] = crmReq[q]
    BY <1>0, <2>1, CrmStarted
  <2>3. ContactsClose
    <3>1. \A q \in Request, d \in Contact : Deletes(q, d)' => Deletes(q, d)
      BY <2>2 DEF Deletes
    <3>2. C!Open' = C!Open
      BY <2>1, AnswersRead
    <3> QED BY <2>1, <3>1, <3>2, NoneCloses
  <2>4. SeedsAreFew
    <3>1. ~reseeded' => ~reseeded /\ \A q \in Request : ~Seeds(q)
      BY <2>1 DEF C!InStep, Seeds
    <3>2. \A q \in Request : Seeds(q)' => q = r \/ Seeds(q)
      BY <2>2 DEF Seeds
    <3> QED BY <2>1, <3>1, <3>2 DEF SeedsAreFew
  <2> QED BY <1>0, <2>1, <2>2, <2>3, <2>4, NoneTells, NoneIsMoved, OneWrites DEF Orderly
<1>17. ASSUME NEW r \in Request, C!SeedDefault(r)
       PROVE  Orderly
  <2>1. /\ UNCHANGED <<contact, lead, told, cache, lateLead, muddled, adrift, reseeded>>
        /\ crmReq[r].op = "seed" /\ crmReq[r].step = "write"
        /\ pipelines' = Append(pipelines, Stage) /\ C!Finish(r)
    BY <1>17 DEF C!SeedDefault, C!InStep, C!history
  <2>2. /\ crmReq'[r].op = "idle" /\ crmReq'[r].step = "done"
        /\ \A q \in Request \ {r} : crmReq'[q] = crmReq[q]
    BY <1>0, <2>1, CrmFinished
  <2>3. C!Open' = C!Open /\ C!Leads' = C!Leads
    BY <2>1, AnswersRead
  <2>4. ContactsClose
    <3>1. \A q \in Request, d \in Contact : Deletes(q, d)' => Deletes(q, d)
      BY <2>2 DEF Deletes
    <3> QED BY <2>1, <2>3, <3>1, NoneCloses
  <2>5. SeedsAreFew
    <3>1. Seeds(r) /\ ~Seeds(r)' /\ \A q \in Request : Seeds(q)' => Seeds(q)
      BY <2>1, <2>2 DEF Seeds
    <3>2. Len(pipelines') = Len(pipelines) + 1
      BY <1>0, <2>1 DEF CrmRows
    <3>3. \A q \in Request : Seeds(q)' => Seeds(q) /\ q # r
      BY <3>1
    <3> QED BY <2>1, <3>1, <3>2, <3>3 DEF SeedsAreFew
  <2>6. StagesStay
    <3>1. \A k \in DOMAIN pipelines : pipelines'[k] = pipelines[k]
      BY <1>0, <2>1 DEF CrmRows
    <3>2. \A l \in C!Open : lead[l].pipeline \in DOMAIN pipelines
      BY <1>0 DEF LeadsHaveRows, C!Open
    <3> QED BY <2>1, <2>3, <3>1, <3>2 DEF StagesStay
  <2> QED BY <1>0, <2>1, <2>2, <2>4, <2>5, <2>6, NoneTells, OneWrites DEF Orderly
<1>18. ASSUME NEW p \in DOMAIN pipelines, NEW left \in SUBSET Stage, C!UpdateStages(p, left)
       PROVE  Orderly
  <2>1. /\ UNCHANGED <<contact, lead, told, cache, crmReq, lateLead, muddled, reseeded>>
        /\ pipelines' = [pipelines EXCEPT ![p] = left]
        /\ adrift' = adrift \cup {l \in C!Leads : lead[l].pipeline = p /\ lead[l].stage \notin left}
    BY <1>18 DEF C!UpdateStages
  <2>2. ContactsClose
    <3>1. C!Open' = C!Open
      BY <2>1, AnswersRead
    <3> QED BY <2>1, <3>1, NoneCloses DEF Deletes
  <2>3. SeedsAreFew
    <3>1. Len(pipelines') = Len(pipelines)
      BY <1>0, <2>1 DEF CrmRows
    <3> QED BY <2>1, <3>1 DEF SeedsAreFew, Seeds
  <2>4. StagesStay
    <3>1. /\ pipelines'[p] = left
          /\ \A k \in DOMAIN pipelines \ {p} : pipelines'[k] = pipelines[k]
      BY <1>0, <2>1 DEF CrmRows
    <3>2. C!Open' = C!Open /\ \A l \in C!Open : l \in C!Leads /\ lead[l].pipeline \in DOMAIN pipelines
      BY <1>0, <2>1, AnswersRead DEF LeadsHaveRows, C!Open
    <3> QED BY <2>1, <3>1, <3>2 DEF StagesStay
  <2> QED BY <2>1, <2>2, <2>3, <2>4, NoneTells, NoneMoves DEF Orderly
<1>19. CASE UNCHANGED C!vars
  <2>1. UNCHANGED <<contact, lead, pipelines, told, cache, crmReq, lateLead, muddled, adrift, reseeded>>
    BY <1>19 DEF C!vars, C!rows, C!history
  <2>2. ContactsClose
    <3>1. C!Open' = C!Open
      BY <2>1, AnswersRead
    <3> QED BY <2>1, <3>1, NoneCloses DEF Deletes
  <2>3. SeedsAreFew
    BY <2>1, NoneSeeds DEF Seeds
  <2> QED BY <2>1, <2>2, <2>3, NoneTells, NoneIsMoved, NoneMoves DEF Orderly
<1> QED
  BY <1>1, <1>2, <1>3, <1>4, <1>5, <1>6, <1>7, <1>8, <1>9, <1>10, <1>11, <1>12, <1>13, <1>14, <1>15,
     <1>16, <1>17, <1>18, <1>19 DEF C!Next

LEMMA CrmStepKeeps ==
    ASSUME C!CrmAssumption, CrmInv, [C!Next]_(C!vars) PROVE CrmInv'
<1>1. CrmRows' /\ LeadsHaveRows' /\ CrmCalls'
  BY CrmTypesStep
<1>2. Orderly
  BY CrmStepIsOrderly
<1> QED BY <1>1, <1>2, OrderlyKeeps DEF CrmInv

-----------------------------------------------------------------------------
(* what holds *)

\* The invariant of the CRM holds in every state.
THEOREM CrmHolds == C!Spec => []CrmInv
<1>0. C!CrmAssumption
  BY OfficeAssumption
<1>1. C!Init => CrmInv
  BY <1>0, CrmStarts
<1>2. CrmInv /\ [C!Next]_(C!vars) => CrmInv'
  BY <1>0, CrmStepKeeps
<1> QED BY <1>1, <1>2, PTL DEF C!Spec

\* Contacts, leads, pipelines, requests and the lists in Redis have their types,
\* and a list stands under the key its query names.
THEOREM CrmTypeCorrect == C!Spec => []C!TypeOK
<1>1. CrmInv => C!TypeOK
  <2> SUFFICES ASSUME CrmInv PROVE C!TypeOK
    OBVIOUS
  <2>1. CrmRows /\ LeadsHaveRows /\ CrmCalls /\ CacheIsKeyed
    BY DEF CrmInv
  <2>2. \A c \in C!Contacts : contact[c].phone \in Phone /\ contact[c].active \in BOOLEAN
    BY <2>1 DEF CrmRows, C!Contacts, ContactRow
  <2>3. \A l \in C!Leads : lead[l].stage \in Stage /\ lead[l].status \in {"OPEN", "WON", "LOST"}
    BY <2>1 DEF CrmRows, C!Leads, LeadRow
  <2>4. \A r \in Request : crmReq[r].step \in {"done", "check", "write", "note", "drop", "fill"}
    BY <2>1 DEF CrmCalls, CrmCall
  <2> QED BY <2>1, <2>2, <2>3, <2>4 DEF C!TypeOK, LeadsHaveRows, CacheIsKeyed
<1> QED BY <1>1, CrmHolds, PTL

\* A contact that was deleted has no open lead but one that came while the
\* delete had its check behind it, or after it, or that a failed check overlooked.
THEOREM OpenLeadKeepsContact == C!Spec => []C!OpenLeadHasContact
<1>1. CrmInv => C!OpenLeadHasContact
  BY DEF CrmInv
<1> QED BY <1>1, CrmHolds, PTL

\* The newest activity of a lead tells its status, and an open lead stands on its
\* pipeline's board, but for overlapping changes and stages taken away.
THEOREM LeadStaysWhereItSays == C!Spec => []C!LeadIsWhereItSays
<1>1. CrmInv => C!LeadIsWhereItSays
  <2> SUFFICES ASSUME CrmInv PROVE C!LeadIsWhereItSays
    OBVIOUS
  <2>1. ToldIsTrue /\ StagesAreThere
    BY DEF CrmInv
  <2>2. \A l \in C!Leads \ muddled : told[l] = lead[l].status \/ C!Changing(l)
    BY <2>1 DEF ToldIsTrue, Tells, C!Changing, C!InStep
  <2>3. \A l \in C!Open \ adrift : l \in C!Board(lead[l].pipeline)[lead[l].stage]
    BY <2>1 DEF StagesAreThere, C!Board
  <2> QED BY <2>2, <2>3 DEF C!LeadIsWhereItSays
<1> QED BY <1>1, CrmHolds, PTL

\* A tenant has one default pipeline unless two first looks overlapped.
THEOREM OneDefaultStays == C!Spec => []C!OneDefaultPipeline
<1>1. CrmInv => C!OneDefaultPipeline
  BY DEF CrmInv, CrmRows, SeededOnce, C!OneDefaultPipeline
<1> QED BY <1>1, CrmHolds, PTL

\* A list in Redis is what its query gives now, unless a change has still to drop
\* it or it was read before a drop and stored after it.
THEOREM CachedListStaysTrue == C!Spec => []C!CachedListIsTrue
<1>1. CrmInv => C!CachedListIsTrue
  <2> SUFFICES ASSUME CrmInv, NEW k \in C!Keys, cache[k] # None
               PROVE  \/ cache[k].stale \/ cache[k].ids = C!Answer(cache[k].asked)
                      \/ \E r \in Request : crmReq[r].step \in {"note", "drop"} /\ C!Table(r) = k[1]
    BY DEF C!CachedListIsTrue
  <2>1. CrmRows /\ CacheIsKeyed /\ CachesAreTrue
    BY DEF CrmInv
  <2>2. cache[k].asked \in Query /\ k[1] = cache[k].asked.of
    BY <2>1 DEF CrmRows, ListRow, CacheIsKeyed, C!Key
  <2> QED BY <2>1, <2>2 DEF CachesAreTrue, Drops
<1> QED BY <1>1, CrmHolds, PTL

(***************************************************************************)
(* Catalog: customers, the invoices that refer to them and their list      *)
(***************************************************************************)

(* The invariant *)

InvoiceRow == [customer : Customer, status : G!Pending \cup {"PAID", "CANCELLED"}]
ListState == [ids : SUBSET Customer, stale : BOOLEAN]
CallState ==
    [op : {"idle", "customer", "remove", "list", "invoice", "category"},
     step : {"done", "drop", "count", "write", "insert", "deactivate", "delete"},
     at : Customer \cup Category \cup {None}, of : Invoice \cup {None},
     ids : SUBSET Customer, over : BOOLEAN]
\* A request works on rows there are.
Fits(q, there) ==
    /\ q.op \in {"remove", "invoice"} => q.at \in Customer /\ there[q.at] # None
    /\ q.op = "invoice" => q.of \in Invoice
    /\ q.op = "category" => q.at \in Category /\ q.step \in {"deactivate", "delete"}
    /\ q.op = "list" => q.step = "done"

CatalogRows ==
    /\ customer \in [Customer -> {"active", "inactive", None}]
    /\ category \in [Category -> {"active", "inactive", None}]
    /\ invoice \in [Invoice -> InvoiceRow \cup {None}]
    /\ expense \in [Expense -> Category \cup {None}]
    /\ listed \in ListState \cup {None}
References ==
    /\ \A i \in G!Invoices : customer[invoice[i].customer] # None
    /\ \A x \in Expense : expense[x] # None => category[expense[x]] # None
Calls == catalogReq \in [Request -> CallState] /\ \A r \in Request : Fits(catalogReq[r], customer)

\* Whoever is about to remove a customer has found no pending invoice of it, and
\* those made since are late, as are those made of a customer that is gone.
CatExcused == lateDue \cup revived
Removing == \A r \in Request : G!In(r, "remove", "write") => G!Due(catalogReq[r].at) \subseteq CatExcused
Inserting ==
    \A r \in Request : catalogReq[r].op = "invoice" => catalogReq[r].at \in G!Active \/ catalogReq[r].of \in lateDue
\* Lists about to be cached are as true as the cached one.
Dropping == \E r \in Request : catalogReq[r].step = "drop"
Listing == \A r \in Request : catalogReq[r].op = "list" => catalogReq[r].over \/ catalogReq[r].ids = G!Active \/ Dropping

CatalogInv ==
    /\ CatalogRows /\ References /\ Calls
    /\ Removing /\ Inserting /\ G!PendingHasCustomer
    /\ Listing /\ G!CustomerListIsTrue

-----------------------------------------------------------------------------
(* The steps *)

LEMMA CatalogStarts == G!CatalogAssumption /\ G!Init => CatalogInv
<1> SUFFICES ASSUME G!CatalogAssumption, G!Init PROVE CatalogInv
  OBVIOUS
<1>1. G!Invoices = {} /\ \A c \in Customer : G!Due(c) = {}
  BY DEF G!Init, G!Invoices, G!Due
<1>2. \A r \in Request : catalogReq[r] = G!Idle
  BY DEF G!Init
<1>3. G!Idle \in CallState /\ Fits(G!Idle, customer)
  BY DEF G!Idle, CallState, Fits
<1>4. CatalogRows /\ References /\ Calls
  BY <1>1, <1>2, <1>3 DEF G!Init, CatalogRows, References, Calls, G!CatalogAssumption
<1>5. Removing /\ Inserting /\ Listing
  BY <1>2 DEF Removing, Inserting, Listing, G!In, G!Idle
<1>6. G!PendingHasCustomer /\ G!CustomerListIsTrue
  BY <1>1 DEF G!Init, G!PendingHasCustomer, G!CustomerListIsTrue
<1> QED BY <1>4, <1>5, <1>6 DEF CatalogInv

\* One request moves on while the customers there are stay.
CatBecomes(r, q) == catalogReq' = [catalogReq EXCEPT ![r] = q]
Stay == \A c \in Customer : customer[c] # None => customer'[c] # None
LEMMA CallMoves ==
    ASSUME Calls, NEW r \in Request, NEW q \in CallState, CatBecomes(r, q), Fits(q, customer'), Stay
    PROVE  /\ Calls' /\ catalogReq'[r] = q
           /\ \A p \in Request \ {r} : catalogReq'[p] = catalogReq[p]
<1>1. /\ catalogReq' \in [Request -> CallState] /\ catalogReq'[r] = q
      /\ \A p \in Request \ {r} : catalogReq'[p] = catalogReq[p]
  BY DEF Calls, CatBecomes
<1>2. \A p \in Request \ {r} : Fits(catalogReq'[p], customer')
  BY <1>1 DEF Calls, Fits, Stay
<1> QED BY <1>1, <1>2 DEF Calls

\* A request that is done.
LEMMA CallEnds ==
    ASSUME Calls, NEW r \in Request, G!Finish(r), Stay
    PROVE  /\ Calls' /\ catalogReq'[r] = G!Idle
           /\ \A p \in Request \ {r} : catalogReq'[p] = catalogReq[p]
<1>1. G!Idle \in CallState /\ Fits(G!Idle, customer') /\ CatBecomes(r, G!Idle)
  BY DEF G!Idle, CallState, Fits, G!Finish, CatBecomes
<1> QED BY <1>1, CallMoves
LEMMA CallGoes ==
    ASSUME Calls, NEW r \in Request, NEW step, G!Go(r, step), catalogReq[r].op = "remove",
           step \in {"write", "drop"}, Stay
    PROVE  /\ Calls' /\ catalogReq'[r] = [catalogReq[r] EXCEPT !.step = step]
           /\ \A p \in Request \ {r} : catalogReq'[p] = catalogReq[p]
<1> DEFINE q == [catalogReq[r] EXCEPT !.step = step]
<1>1. q \in CallState /\ q.op = "remove" /\ q.at = catalogReq[r].at
  BY DEF Calls, CallState
<1>2. CatBecomes(r, q)
  BY DEF G!Go, CatBecomes
<1>3. Fits(q, customer')
  BY <1>1 DEF Calls, Fits, Stay
<1> QED BY <1>1, <1>2, <1>3, CallMoves

\* A call that starts on rows there are.
LEMMA CallBegins ==
    ASSUME Calls, NEW r \in Request, NEW op, NEW step, NEW at, NEW of, G!Start(r, op, step, at, of),
           op \in {"customer", "remove", "invoice", "category"},
           step \in {"drop", "count", "insert", "deactivate", "delete"},
           at \in Customer \cup Category, of \in Invoice \cup {None},
           op \in {"remove", "invoice"} => at \in Customer /\ customer'[at] # None,
           op = "invoice" => of \in Invoice,
           op = "category" => at \in Category /\ step \in {"deactivate", "delete"}, Stay
    PROVE  /\ Calls' /\ catalogReq[r] = G!Idle
           /\ catalogReq'[r].op = op /\ catalogReq'[r].step = step /\ catalogReq'[r].at = at /\ catalogReq'[r].of = of
           /\ \A p \in Request \ {r} : catalogReq'[p] = catalogReq[p]
<1> DEFINE q == [G!Idle EXCEPT !.op = op, !.step = step, !.at = at, !.of = of]
<1>1. q \in CallState /\ q.op = op /\ q.step = step /\ q.at = at /\ q.of = of
  BY DEF G!Idle, CallState
<1>2. CatBecomes(r, q) /\ catalogReq[r] = G!Idle
  BY DEF G!Start, CatBecomes
<1> HIDE DEF q
<1>3. Fits(q, customer')
  BY <1>1 DEF Fits
<1> QED BY <1>1, <1>2, <1>3, CallMoves

\* Steps that leave the customers and the invoices alone.
LEMMA SameRows ==
    ASSUME UNCHANGED <<customer, invoice>>
    PROVE  /\ Stay /\ G!Active' = G!Active /\ G!Invoices' = G!Invoices
           /\ \A c \in Customer : G!Due(c)' = G!Due(c)
BY DEF Stay, G!Active, G!Invoices, G!Due

-----------------------------------------------------------------------------
\* Types and references.
LEMMA NextRows ==
    ASSUME G!CatalogAssumption, CatalogInv, [G!Next]_(G!vars)
    PROVE  CatalogRows' /\ References' /\ Calls' /\ Stay
<1>0. CatalogRows /\ References /\ Calls
  BY DEF CatalogInv
<1>n. /\ None \notin {"active", "inactive"} /\ None \notin Category
      /\ None \notin InvoiceRow /\ None \notin ListState
  BY DEF G!CatalogAssumption, InvoiceRow, ListState
<1>1. ASSUME NEW r \in Request, NEW c \in Customer, G!CreateCustomer(r, c)
      PROVE  CatalogRows' /\ References' /\ Calls' /\ Stay
  <2>1. /\ UNCHANGED <<category, invoice, expense, listed>>
        /\ customer' = [customer EXCEPT ![c] = "active"]
        /\ G!Start(r, "customer", "drop", c, None)
    BY <1>1 DEF G!CreateCustomer
  <2>2. Stay /\ CatalogRows' /\ G!Invoices' = G!Invoices
    BY <1>0, <1>n, <2>1 DEF Stay, CatalogRows, G!Invoices
  <2>3. References'
    BY <1>0, <2>1, <2>2 DEF References, Stay, CatalogRows, G!Invoices, InvoiceRow
  <2> QED BY <1>0, <2>1, <2>2, <2>3, CallBegins
<1>2. ASSUME NEW r \in Request, NEW c \in Customer, G!UpdateCustomer(r, c) \/ G!RemoveRead(r, c)
      PROVE  CatalogRows' /\ References' /\ Calls' /\ Stay
  <2>1. /\ UNCHANGED <<customer, category, invoice, expense, listed>> /\ c \in G!Active
        /\ G!Start(r, "customer", "drop", c, None) \/ G!Start(r, "remove", "count", c, None)
    BY <1>2 DEF G!UpdateCustomer, G!RemoveRead
  <2>2. Stay /\ CatalogRows' /\ References' /\ customer'[c] # None
    BY <1>0, <1>n, <2>1 DEF Stay, CatalogRows, References, G!Invoices, G!Active
  <2> QED BY <1>0, <2>1, <2>2, CallBegins
<1>3. ASSUME NEW r \in Request, G!RemoveCount(r)
      PROVE  CatalogRows' /\ References' /\ Calls' /\ Stay
  <2>1. /\ UNCHANGED <<customer, category, invoice, expense, listed>> /\ catalogReq[r].op = "remove"
        /\ G!Finish(r) \/ G!Go(r, "write")
    BY <1>3 DEF G!RemoveCount, G!In
  <2>2. Stay /\ CatalogRows' /\ References'
    BY <1>0, <2>1 DEF Stay, CatalogRows, References, G!Invoices
  <2> QED BY <1>0, <2>1, <2>2, CallEnds, CallGoes
<1>4. ASSUME NEW r \in Request, G!RemoveWrite(r)
      PROVE  CatalogRows' /\ References' /\ Calls' /\ Stay
  <2>1. /\ UNCHANGED <<category, invoice, expense, listed>> /\ catalogReq[r].op = "remove"
        /\ customer' = [customer EXCEPT ![catalogReq[r].at] = "inactive"]
        /\ G!Go(r, "drop")
    BY <1>4 DEF G!RemoveWrite, G!In
  <2>2. Stay /\ CatalogRows' /\ G!Invoices' = G!Invoices
    BY <1>0, <1>n, <2>1 DEF Stay, CatalogRows, G!Invoices
  <2>3. References'
    BY <1>0, <2>1, <2>2 DEF References, Stay, CatalogRows, G!Invoices, InvoiceRow
  <2> QED BY <1>0, <2>1, <2>2, <2>3, CallGoes
<1>5. ASSUME NEW r \in Request, NEW fails \in BOOLEAN, G!DropLists(r, fails)
      PROVE  CatalogRows' /\ References' /\ Calls' /\ Stay
  <2>1. /\ UNCHANGED <<customer, category, invoice, expense>>
        /\ listed' = IF ~fails \/ listed = None THEN None ELSE [listed EXCEPT !.stale = TRUE]
        /\ catalogReq' = [q \in Request |-> IF q = r THEN G!Idle
                                            ELSE [catalogReq[q] EXCEPT !.over = (@ \/ catalogReq[q].op = "list")]]
    BY <1>5 DEF G!DropLists
  <2>a. listed' \in ListState \cup {None}
    BY <1>0, <2>1 DEF CatalogRows, ListState
  <2>2. Stay /\ CatalogRows' /\ References'
    BY <1>0, <2>1, <2>a DEF Stay, CatalogRows, References, G!Invoices
  <2>3. G!Idle \in CallState /\ Fits(G!Idle, customer')
    BY DEF G!Idle, CallState, Fits
  <2>4. ASSUME NEW q \in Request \ {r} PROVE catalogReq'[q] \in CallState /\ Fits(catalogReq'[q], customer')
    <3>1. catalogReq[q] \in CallState /\ Fits(catalogReq[q], customer)
      BY <1>0 DEF Calls
    <3>2. catalogReq'[q] = [catalogReq[q] EXCEPT !.over = (catalogReq[q].over \/ catalogReq[q].op = "list")]
      BY <2>1
    <3>3. /\ catalogReq'[q] \in CallState /\ catalogReq'[q].op = catalogReq[q].op /\ catalogReq'[q].at = catalogReq[q].at
          /\ catalogReq'[q].of = catalogReq[q].of /\ catalogReq'[q].step = catalogReq[q].step
      BY <3>1, <3>2 DEF CallState
    <3> QED BY <2>1, <3>1, <3>3 DEF Fits
  <2>5. catalogReq' \in [Request -> CallState] /\ catalogReq'[r] = G!Idle
    BY <2>1, <2>3, <2>4
  <2> QED BY <2>2, <2>3, <2>4, <2>5 DEF Calls
<1>6. ASSUME NEW r \in Request, G!FindAll(r)
      PROVE  CatalogRows' /\ References' /\ Calls' /\ Stay
  <2> DEFINE q == [G!Idle EXCEPT !.op = "list", !.ids = G!Active]
  <2>1. UNCHANGED <<customer, category, invoice, expense, listed>> /\ CatBecomes(r, q)
    BY <1>6 DEF G!FindAll, CatBecomes
  <2>2. Stay /\ CatalogRows' /\ References'
    BY <1>0, <2>1 DEF Stay, CatalogRows, References, G!Invoices
  <2>3. q \in CallState /\ Fits(q, customer')
    BY DEF G!Idle, CallState, Fits, G!Active
  <2> QED BY <1>0, <2>1, <2>2, <2>3, CallMoves
<1>7. ASSUME NEW r \in Request, G!Cache(r)
      PROVE  CatalogRows' /\ References' /\ Calls' /\ Stay
  <2>1. /\ UNCHANGED <<customer, category, invoice, expense>> /\ G!Finish(r)
        /\ listed' = [ids |-> catalogReq[r].ids, stale |-> catalogReq[r].over]
    BY <1>7 DEF G!Cache
  <2>2. listed' \in ListState
    BY <1>0, <2>1 DEF Calls, CallState, ListState
  <2>3. Stay /\ CatalogRows' /\ References'
    BY <1>0, <2>1, <2>2 DEF Stay, CatalogRows, References, G!Invoices
  <2> QED BY <1>0, <2>1, <2>3, CallEnds
<1>8. CASE G!Expire \/ UNCHANGED G!vars
  <2>1. /\ UNCHANGED <<customer, category, invoice, expense, catalogReq>>
        /\ listed' = None \/ listed' = listed
    BY <1>8 DEF G!Expire, G!vars
  <2> QED BY <1>0, <2>1 DEF Stay, CatalogRows, References, G!Invoices, Calls, Fits
<1>9. ASSUME NEW r \in Request, NEW i \in Invoice, NEW c \in Customer, G!InvoiceRead(r, i, c)
      PROVE  CatalogRows' /\ References' /\ Calls' /\ Stay
  <2>1. /\ UNCHANGED <<customer, category, invoice, expense, listed>> /\ c \in G!Active
        /\ G!Start(r, "invoice", "insert", c, i)
    BY <1>9 DEF G!InvoiceRead
  <2>2. Stay /\ CatalogRows' /\ References' /\ customer'[c] # None
    BY <1>0, <1>n, <2>1 DEF Stay, CatalogRows, References, G!Invoices, G!Active
  <2> QED BY <1>0, <2>1, <2>2, CallBegins
<1>10. ASSUME NEW r \in Request, G!InvoiceInsert(r)
       PROVE  CatalogRows' /\ References' /\ Calls' /\ Stay
  <2> DEFINE new == [customer |-> catalogReq[r].at, status |-> "DRAFT"]
  <2>1. /\ UNCHANGED <<customer, category, expense, listed>> /\ catalogReq[r].op = "invoice"
        /\ invoice' = [invoice EXCEPT ![catalogReq[r].of] = new] /\ G!Finish(r)
    BY <1>10 DEF G!InvoiceInsert, G!In
  <2>2. catalogReq[r].at \in Customer /\ customer[catalogReq[r].at] # None /\ catalogReq[r].of \in Invoice
    BY <1>0, <2>1 DEF Calls, Fits
  <2>3. new \in InvoiceRow /\ new.customer = catalogReq[r].at
    BY <2>2 DEF InvoiceRow, G!Pending
  <2> HIDE DEF new
  <2>4. Stay /\ CatalogRows'
    BY <1>0, <2>1, <2>3 DEF Stay, CatalogRows
  <2>5. References'
    BY <1>0, <2>1, <2>2, <2>3 DEF References, CatalogRows, G!Invoices
  <2> QED BY <1>0, <2>1, <2>4, <2>5, CallEnds
<1>11. ASSUME NEW i \in Invoice, NEW status \in G!Pending \cup {"PAID", "CANCELLED"},
              G!InvoiceMoves(i, status)
       PROVE  CatalogRows' /\ References' /\ Calls' /\ Stay
  <2> DEFINE new == [invoice[i] EXCEPT !.status = status]
  <2>1. /\ UNCHANGED <<customer, category, expense, listed, catalogReq>> /\ i \in G!Invoices
        /\ invoice' = [invoice EXCEPT ![i] = new]
    BY <1>11 DEF G!InvoiceMoves
  <2>2. new \in InvoiceRow /\ new.customer = invoice[i].customer
    BY <1>0, <2>1 DEF InvoiceRow, CatalogRows, G!Invoices
  <2> HIDE DEF new
  <2>3. Stay /\ CatalogRows'
    BY <1>0, <2>1, <2>2 DEF Stay, CatalogRows
  <2>4. References'
    BY <1>0, <2>1, <2>2 DEF References, CatalogRows, G!Invoices
  <2>5. Calls'
    BY <1>0, <2>1 DEF Calls, Fits
  <2> QED BY <2>3, <2>4, <2>5
<1>12. ASSUME NEW x \in Expense, NEW g \in Category, G!SpendOn(x, g)
       PROVE  CatalogRows' /\ References' /\ Calls' /\ Stay
  <2>1. /\ UNCHANGED <<customer, category, invoice, listed, catalogReq>> /\ category[g] # None
        /\ expense' = [expense EXCEPT ![x] = g]
    BY <1>12 DEF G!SpendOn
  <2> QED BY <1>0, <2>1 DEF Stay, CatalogRows, References, G!Invoices, Calls, Fits
<1>13. ASSUME NEW r \in Request, NEW g \in Category, G!CategoryCount(r, g)
       PROVE  CatalogRows' /\ References' /\ Calls' /\ Stay
  <2>1. /\ UNCHANGED <<customer, category, invoice, expense, listed>>
        /\ \E step \in {"deactivate", "delete"} : G!Start(r, "category", step, g, None)
    BY <1>13 DEF G!CategoryCount
  <2>2. Stay /\ CatalogRows' /\ References'
    BY <1>0, <2>1 DEF Stay, CatalogRows, References, G!Invoices
  <2> QED BY <1>0, <2>1, <2>2, CallBegins
<1>14. ASSUME NEW r \in Request, G!CategoryWrite(r)
       PROVE  CatalogRows' /\ References' /\ Calls' /\ Stay
  <2> DEFINE g == catalogReq[r].at
  <2>1. /\ UNCHANGED <<customer, invoice, expense, listed>> /\ catalogReq[r].op = "category" /\ G!Finish(r)
        /\ \/ category' = category
           \/ category' = [category EXCEPT ![g] = "inactive"]
           \/ category' = [category EXCEPT ![g] = None] /\ G!Using(g) = {}
    BY <1>14 DEF G!CategoryWrite
  <2>2. g \in Category
    BY <1>0, <2>1 DEF Calls, Fits
  <2>3. Stay /\ CatalogRows'
    BY <1>0, <2>1, <2>2 DEF Stay, CatalogRows
  <2>4. References'
    BY <1>0, <1>n, <2>1, <2>2 DEF References, CatalogRows, G!Invoices, G!Using
  <2> QED BY <1>0, <2>1, <2>3, <2>4, CallEnds
<1> QED
  BY <1>1, <1>2, <1>3, <1>4, <1>5, <1>6, <1>7, <1>8, <1>9, <1>10, <1>11, <1>12, <1>13, <1>14
     DEF G!Next

-----------------------------------------------------------------------------
\* What a step does to customers, to what is due of them, and to the requests
\* that rely on either.
LeavesMarked ==
    \A c \in G!Active \ G!Active' :
      /\ \E r \in Request : G!In(r, "remove", "write") /\ catalogReq[r].at = c
      /\ \A q \in Request : catalogReq[q].op = "invoice" /\ catalogReq[q].at = c => catalogReq[q].of \in lateDue'
DueMarked ==
    \A c \in Customer : \A i \in G!Due(c)' \ G!Due(c) :
      \/ i \in revived'
      \/ /\ \E q \in Request : catalogReq[q].op = "invoice" /\ catalogReq[q].at = c /\ catalogReq[q].of = i
         /\ (\E p \in Request : G!In(p, "remove", "write") /\ catalogReq[p].at = c) => i \in lateDue'
RequestsRely ==
    \A q \in Request :
      /\ G!In(q, "remove", "write")' => \/ G!In(q, "remove", "write") /\ catalogReq'[q].at = catalogReq[q].at
                                        \/ G!Due(catalogReq[q].at)' = {}
      /\ catalogReq'[q].op = "invoice" => \/ /\ catalogReq[q].op = "invoice" /\ catalogReq'[q].at = catalogReq[q].at
                                             /\ catalogReq'[q].of = catalogReq[q].of
                                          \/ catalogReq'[q].at \in G!Active'
CatMarked ==
    /\ lateDue \subseteq lateDue' /\ revived \subseteq revived'
    /\ LeavesMarked /\ DueMarked /\ RequestsRely

\* A step that leaves the invoices, and the customers who are active.
LEMMA QuietMarks ==
    ASSUME UNCHANGED <<invoice, lateDue, revived>>, G!Active \subseteq G!Active', RequestsRely
    PROVE  CatMarked
<1>1. \A c \in Customer : G!Due(c)' = G!Due(c)
  BY DEF G!Due, G!Invoices
<1> QED BY <1>1 DEF CatMarked, LeavesMarked, DueMarked

\* A request that comes to do something else than remove or invoice.
LEMMA OneRelies ==
    ASSUME NEW r \in Request, \A q \in Request \ {r} : catalogReq'[q] = catalogReq[q],
           G!In(r, "remove", "write")' => G!Due(catalogReq[r].at)' = {},
           catalogReq'[r].op = "invoice" => catalogReq'[r].at \in G!Active'
    PROVE  RequestsRely
BY DEF RequestsRely, G!In

LEMMA NextMarks ==
    ASSUME G!CatalogAssumption, CatalogInv, [G!Next]_(G!vars)
    PROVE  CatMarked
<1>0. CatalogRows /\ References /\ Calls /\ Calls'
  BY NextRows DEF CatalogInv
<1>n. /\ None \notin {"active", "inactive"} /\ None \notin Category
      /\ None \notin InvoiceRow /\ None \notin ListState
  BY DEF G!CatalogAssumption, InvoiceRow, ListState
<1>s. ASSUME NEW r \in Request, NEW op, NEW step, NEW at, NEW of, G!Start(r, op, step, at, of),
             step # "write", op = "invoice" => at \in G!Active'
      PROVE  RequestsRely
  <2>1. /\ \A q \in Request \ {r} : catalogReq'[q] = catalogReq[q]
        /\ catalogReq'[r].op = op /\ catalogReq'[r].step = step /\ catalogReq'[r].at = at
    BY <1>0, <1>s DEF G!Start, Calls, G!Idle
  <2> QED BY <1>s, <2>1, OneRelies DEF G!In
<1>f. ASSUME NEW r \in Request, G!Finish(r)
      PROVE  RequestsRely
  <2>1. (\A q \in Request \ {r} : catalogReq'[q] = catalogReq[q]) /\ catalogReq'[r].op = "idle"
    BY <1>0, <1>f DEF G!Finish, Calls, G!Idle
  <2> QED BY <2>1, OneRelies DEF G!In
<1>1. ASSUME NEW r \in Request, NEW c \in Customer, G!CreateCustomer(r, c)
      PROVE  CatMarked
  <2>1. /\ UNCHANGED <<invoice, lateDue, revived>> /\ G!Start(r, "customer", "drop", c, None)
        /\ customer' = [customer EXCEPT ![c] = "active"]
    BY <1>1 DEF G!CreateCustomer
  <2>2. G!Active \subseteq G!Active'
    BY <1>0, <2>1 DEF G!Active, CatalogRows
  <2>3. RequestsRely
    BY <1>s, <2>1
  <2> QED BY <2>1, <2>2, <2>3, QuietMarks
<1>2. ASSUME NEW r \in Request, NEW c \in Customer, G!UpdateCustomer(r, c) \/ G!RemoveRead(r, c)
      PROVE  CatMarked
  <2>1. /\ UNCHANGED <<customer, invoice, lateDue, revived>>
        /\ G!Start(r, "customer", "drop", c, None) \/ G!Start(r, "remove", "count", c, None)
    BY <1>2 DEF G!UpdateCustomer, G!RemoveRead
  <2>2. G!Active \subseteq G!Active'
    BY <2>1 DEF G!Active
  <2>3. RequestsRely
    BY <1>s, <2>1
  <2> QED BY <2>1, <2>2, <2>3, QuietMarks
<1>3. ASSUME NEW r \in Request, G!RemoveCount(r)
      PROVE  CatMarked
  <2>1. /\ UNCHANGED <<customer, invoice, lateDue, revived>> /\ catalogReq[r].op = "remove"
        /\ G!Finish(r) \/ (G!Go(r, "write") /\ G!Due(catalogReq[r].at) = {})
    BY <1>3 DEF G!RemoveCount, G!In
  <2>2. G!Active \subseteq G!Active'
    BY <2>1 DEF G!Active
  <2>3. CASE G!Finish(r)
    BY <1>f, <2>1, <2>2, <2>3, QuietMarks
  <2>4. CASE G!Go(r, "write") /\ G!Due(catalogReq[r].at) = {}
    <3>1. /\ \A q \in Request \ {r} : catalogReq'[q] = catalogReq[q]
          /\ catalogReq'[r].op = "remove" /\ catalogReq'[r].at = catalogReq[r].at
      BY <1>0, <2>1, <2>4 DEF G!Go, Calls, CallState
    <3>2. G!Due(catalogReq[r].at)' = {}
      BY <2>1, <2>4, <3>1 DEF G!Due, G!Invoices
    <3>3. RequestsRely
      BY <3>1, <3>2, OneRelies
    <3> QED BY <2>1, <2>2, <3>3, QuietMarks
  <2> QED BY <2>1, <2>3, <2>4
<1>4. ASSUME NEW r \in Request, G!RemoveWrite(r)
      PROVE  CatMarked
  <2>1. /\ UNCHANGED <<invoice, revived>> /\ G!In(r, "remove", "write") /\ G!Go(r, "drop")
        /\ customer' = [customer EXCEPT ![catalogReq[r].at] = "inactive"]
        /\ \A i : i \in lateDue' <=>
             \/ i \in lateDue
             \/ \E q \in Request : catalogReq[q].op = "invoice" /\ catalogReq[q].at = catalogReq[r].at /\ catalogReq[q].of = i
    BY <1>4 DEF G!RemoveWrite
  <2>2. G!Active \ G!Active' \subseteq {catalogReq[r].at} /\ lateDue \subseteq lateDue' /\ revived \subseteq revived'
    BY <1>0, <2>1 DEF G!Active, CatalogRows
  <2>3. LeavesMarked
    BY <2>1, <2>2 DEF LeavesMarked
  <2>4. DueMarked
    BY <2>1 DEF DueMarked, G!Due, G!Invoices
  <2>5. (\A q \in Request \ {r} : catalogReq'[q] = catalogReq[q]) /\ catalogReq'[r].op = "remove" /\ catalogReq'[r].step = "drop"
    BY <1>0, <2>1 DEF G!Go, G!In, Calls, CallState
  <2>6. RequestsRely
    BY <2>5, OneRelies DEF G!In
  <2> QED BY <2>2, <2>3, <2>4, <2>6 DEF CatMarked
<1>5. ASSUME NEW r \in Request, NEW fails \in BOOLEAN, G!DropLists(r, fails)
      PROVE  CatMarked
  <2>1. /\ UNCHANGED <<customer, invoice, lateDue, revived>>
        /\ catalogReq' = [q \in Request |-> IF q = r THEN G!Idle
                                            ELSE [catalogReq[q] EXCEPT !.over = (@ \/ catalogReq[q].op = "list")]]
    BY <1>5 DEF G!DropLists
  <2>2. G!Active \subseteq G!Active'
    BY <2>1 DEF G!Active
  <2>3. ASSUME NEW q \in Request \ {r}
        PROVE  /\ catalogReq'[q].op = catalogReq[q].op /\ catalogReq'[q].step = catalogReq[q].step
               /\ catalogReq'[q].at = catalogReq[q].at /\ catalogReq'[q].of = catalogReq[q].of
    <3>1. catalogReq[q] \in CallState /\ catalogReq'[q] = [catalogReq[q] EXCEPT !.over = (catalogReq[q].over \/ catalogReq[q].op = "list")]
      BY <1>0, <2>1 DEF Calls
    <3> QED BY <3>1 DEF CallState
  <2>4. catalogReq'[r].op = "idle"
    BY <2>1 DEF G!Idle
  <2>5. RequestsRely
    BY <2>3, <2>4 DEF RequestsRely, G!In
  <2> QED BY <2>1, <2>2, <2>5, QuietMarks
<1>6. ASSUME NEW r \in Request, G!FindAll(r)
      PROVE  CatMarked
  <2>1. /\ UNCHANGED <<customer, invoice, lateDue, revived>>
        /\ catalogReq' = [catalogReq EXCEPT ![r] = [G!Idle EXCEPT !.op = "list", !.ids = G!Active]]
    BY <1>6 DEF G!FindAll
  <2>2. (\A q \in Request \ {r} : catalogReq'[q] = catalogReq[q]) /\ catalogReq'[r].op = "list"
    BY <1>0, <2>1 DEF Calls, G!Idle
  <2>3. G!Active \subseteq G!Active' /\ RequestsRely
    BY <2>1, <2>2, OneRelies DEF G!Active, G!In
  <2> QED BY <2>1, <2>3, QuietMarks
<1>7. ASSUME NEW r \in Request, G!Cache(r) \/ G!CategoryWrite(r)
      PROVE  CatMarked
  <2>1. UNCHANGED <<customer, invoice, lateDue, revived>> /\ G!Finish(r)
    BY <1>7 DEF G!Cache, G!CategoryWrite
  <2>2. G!Active \subseteq G!Active' /\ RequestsRely
    BY <1>f, <2>1 DEF G!Active
  <2> QED BY <2>1, <2>2, QuietMarks
<1>8. CASE G!Expire \/ UNCHANGED G!vars \/ \E x \in Expense, g \in Category : G!SpendOn(x, g)
  <2>1. UNCHANGED <<customer, invoice, catalogReq, lateDue, revived>>
    BY <1>8 DEF G!Expire, G!vars, G!SpendOn
  <2>2. G!Active \subseteq G!Active' /\ RequestsRely
    BY <2>1 DEF G!Active, RequestsRely, G!In
  <2> QED BY <2>1, <2>2, QuietMarks
<1>9. ASSUME NEW r \in Request, NEW i \in Invoice, NEW c \in Customer, G!InvoiceRead(r, i, c)
      PROVE  CatMarked
  <2>1. /\ UNCHANGED <<customer, invoice, lateDue, revived>> /\ c \in G!Active
        /\ G!Start(r, "invoice", "insert", c, i)
    BY <1>9 DEF G!InvoiceRead
  <2>2. G!Active' = G!Active
    BY <2>1 DEF G!Active
  <2>3. RequestsRely
    BY <1>s, <2>1, <2>2
  <2> QED BY <2>1, <2>2, <2>3, QuietMarks
<1>10. ASSUME NEW r \in Request, G!InvoiceInsert(r)
       PROVE  CatMarked
  <2> DEFINE c == catalogReq[r].at
             i == catalogReq[r].of
             new == [customer |-> c, status |-> "DRAFT"]
  <2>1. /\ UNCHANGED <<customer, revived>> /\ catalogReq[r].op = "invoice" /\ G!Finish(r)
        /\ invoice' = [invoice EXCEPT ![i] = new] /\ lateDue \subseteq lateDue'
        /\ (\E q \in Request : G!In(q, "remove", "write") /\ catalogReq[q].at = c) => i \in lateDue'
    BY <1>10 DEF G!InvoiceInsert, G!In
  <2>2. i \in Invoice /\ new.customer = c /\ new \in InvoiceRow
    BY <1>0, <2>1 DEF Calls, Fits, InvoiceRow, G!Pending
  <2> HIDE DEF new
  <2>3. \A d \in Customer : G!Due(d)' \ G!Due(d) \subseteq (IF d = c THEN {i} ELSE {})
    BY <1>0, <1>n, <2>1, <2>2 DEF G!Due, G!Invoices, CatalogRows
  <2>4. DueMarked
    BY <2>1, <2>3 DEF DueMarked
  <2>5. G!Active' = G!Active
    BY <2>1 DEF G!Active
  <2> QED BY <1>f, <2>1, <2>4, <2>5 DEF CatMarked, LeavesMarked
<1>11. ASSUME NEW i \in Invoice, NEW status \in G!Pending \cup {"PAID", "CANCELLED"},
              G!InvoiceMoves(i, status)
       PROVE  CatMarked
  <2> DEFINE new == [invoice[i] EXCEPT !.status = status]
  <2>1. /\ UNCHANGED <<customer, catalogReq, lateDue>> /\ i \in G!Invoices
        /\ invoice' = [invoice EXCEPT ![i] = new] /\ revived \subseteq revived'
        /\ invoice[i].status \in G!Pending \/ status \notin G!Pending \/ i \in revived'
    BY <1>11 DEF G!InvoiceMoves
  <2>2. new \in InvoiceRow /\ new.customer = invoice[i].customer /\ new.status = status
    BY <1>0, <2>1 DEF InvoiceRow, CatalogRows, G!Invoices
  <2> HIDE DEF new
  <2>3. \A d \in Customer : G!Due(d)' \ G!Due(d) \subseteq revived'
    BY <1>0, <1>n, <2>1, <2>2 DEF G!Due, G!Invoices, CatalogRows
  <2>4. DueMarked
    BY <2>3 DEF DueMarked
  <2>5. G!Active' = G!Active /\ RequestsRely
    BY <2>1 DEF G!Active, RequestsRely, G!In
  <2> QED BY <2>1, <2>4, <2>5 DEF CatMarked, LeavesMarked
<1>12. ASSUME NEW r \in Request, NEW g \in Category, G!CategoryCount(r, g)
       PROVE  CatMarked
  <2>1. /\ UNCHANGED <<customer, invoice, lateDue, revived>>
        /\ \E step \in {"deactivate", "delete"} : G!Start(r, "category", step, g, None)
    BY <1>12 DEF G!CategoryCount
  <2>2. G!Active \subseteq G!Active' /\ RequestsRely
    BY <1>s, <2>1 DEF G!Active
  <2> QED BY <2>1, <2>2, QuietMarks
<1> QED
  BY <1>1, <1>2, <1>3, <1>4, <1>5, <1>6, <1>7, <1>8, <1>9, <1>10, <1>11, <1>12 DEF G!Next

LEMMA NextPending ==
    ASSUME G!CatalogAssumption, CatalogInv, [G!Next]_(G!vars)
    PROVE  Removing' /\ Inserting' /\ G!PendingHasCustomer'
<1>1. CatMarked /\ Removing /\ Inserting /\ G!PendingHasCustomer /\ Calls /\ Calls'
  BY NextMarks, NextRows DEF CatalogInv
<1>2. lateDue \subseteq lateDue' /\ revived \subseteq revived' /\ LeavesMarked /\ DueMarked /\ RequestsRely
  BY <1>1 DEF CatMarked
<1>3. ASSUME NEW r \in Request, G!In(r, "remove", "write"), NEW c \in Customer, c = catalogReq[r].at
      PROVE  G!Due(c)' \subseteq CatExcused'
  BY <1>1, <1>2, <1>3 DEF Removing, CatExcused, DueMarked
<1>4. Removing'
  <2> SUFFICES ASSUME NEW r \in Request, G!In(r, "remove", "write")'
               PROVE  G!Due(catalogReq[r].at)' \subseteq CatExcused'
    BY DEF Removing
  <2>1. catalogReq'[r].at \in Customer
    BY <1>1 DEF Calls, Fits, G!In
  <2> QED BY <1>2, <1>3, <2>1 DEF RequestsRely
<1>5. Inserting'
  <2> SUFFICES ASSUME NEW r \in Request, catalogReq'[r].op = "invoice", catalogReq'[r].at \notin G!Active'
               PROVE  catalogReq'[r].of \in lateDue'
    BY DEF Inserting
  <2>1. catalogReq[r].op = "invoice" /\ catalogReq'[r].at = catalogReq[r].at /\ catalogReq'[r].of = catalogReq[r].of
    BY <1>2 DEF RequestsRely
  <2> QED BY <1>1, <1>2, <2>1 DEF Inserting, LeavesMarked
<1>6. G!PendingHasCustomer'
  <2> SUFFICES ASSUME NEW c \in Customer, c \notin G!Active'
               PROVE  G!Due(c)' \subseteq lateDue' \cup revived'
    BY DEF G!PendingHasCustomer
  <2>1. CASE c \in G!Active
    BY <1>2, <1>3, <2>1 DEF LeavesMarked, CatExcused
  <2>2. CASE c \notin G!Active
    BY <1>1, <1>2, <2>2 DEF G!PendingHasCustomer, Inserting, DueMarked
  <2> QED BY <2>1, <2>2
<1> QED BY <1>4, <1>5, <1>6

-----------------------------------------------------------------------------
\* What a step does to the lists: a write to the customers leaves a drop to be
\* made, and the drop reaches every list on its way to the cache; what a failed
\* drop leaves there is stale.
CatDropped ==
    /\ listed' = None \/ listed'.stale
    /\ \A q \in Request : catalogReq'[q].op = "list" => catalogReq'[q].over
ListsKeep ==
    /\ G!Active' = G!Active \/ Dropping'
    /\ Dropping => Dropping' \/ CatDropped
    /\ \A q \in Request : catalogReq'[q].op = "list" =>
         \/ catalogReq'[q].ids = G!Active'
         \/ /\ catalogReq[q].op = "list" /\ catalogReq'[q].ids = catalogReq[q].ids
            /\ catalogReq[q].over => catalogReq'[q].over
    /\ \/ listed' \in {None, listed} \/ CatDropped
       \/ \E q \in Request : /\ catalogReq[q].op = "list"
                             /\ listed' = [ids |-> catalogReq[q].ids, stale |-> catalogReq[q].over]

\* One request at most, and not one about to drop, does something new.
LEMMA OneKeeps ==
    ASSUME NEW r \in Request, \A q \in Request \ {r} : catalogReq'[q] = catalogReq[q],
           catalogReq[r].step = "drop" => catalogReq'[r].step = "drop",
           catalogReq'[r].op = "list" => catalogReq'[r].ids = G!Active' \/ catalogReq'[r] = catalogReq[r],
           G!Active' = G!Active \/ catalogReq'[r].step = "drop", listed' \in {None, listed}
    PROVE  ListsKeep
BY DEF ListsKeep, Dropping

LEMMA NextKeeps ==
    ASSUME G!CatalogAssumption, CatalogInv, [G!Next]_(G!vars)
    PROVE  ListsKeep
<1>0. CatalogRows /\ Calls /\ Calls'
  BY NextRows DEF CatalogInv
<1>s. ASSUME NEW r \in Request, NEW op, NEW step, NEW at, NEW of, G!Start(r, op, step, at, of),
             op # "list", UNCHANGED listed, UNCHANGED customer \/ step = "drop"
      PROVE  ListsKeep
  <2>1. /\ \A q \in Request \ {r} : catalogReq'[q] = catalogReq[q]
        /\ catalogReq[r].step # "drop" /\ catalogReq'[r].op = op /\ catalogReq'[r].step = step
    BY <1>0, <1>s DEF G!Start, Calls, G!Idle
  <2>2. G!Active' = G!Active \/ catalogReq'[r].step = "drop"
    BY <1>s, <2>1 DEF G!Active
  <2> QED BY <1>s, <2>1, <2>2, OneKeeps
<1>f. ASSUME NEW r \in Request, G!Finish(r)
      PROVE  (\A q \in Request \ {r} : catalogReq'[q] = catalogReq[q]) /\ catalogReq'[r].op = "idle"
  BY <1>0, <1>f DEF G!Finish, Calls, G!Idle
<1>1. ASSUME NEW r \in Request, NEW c \in Customer,
             G!CreateCustomer(r, c) \/ G!UpdateCustomer(r, c) \/ G!RemoveRead(r, c)
      PROVE  ListsKeep
  <2>1. /\ UNCHANGED listed
        /\ \/ G!Start(r, "customer", "drop", c, None)
           \/ G!Start(r, "remove", "count", c, None) /\ UNCHANGED customer
    BY <1>1 DEF G!CreateCustomer, G!UpdateCustomer, G!RemoveRead
  <2> QED BY <1>s, <2>1
<1>2. ASSUME NEW r \in Request, G!RemoveCount(r) \/ G!RemoveWrite(r)
      PROVE  ListsKeep
  <2>1. /\ UNCHANGED listed /\ catalogReq[r].op = "remove" /\ catalogReq[r].step # "drop"
        /\ G!Finish(r) \/ G!Go(r, "write") \/ G!Go(r, "drop")
        /\ UNCHANGED customer \/ G!Go(r, "drop")
    BY <1>2 DEF G!RemoveCount, G!RemoveWrite, G!In
  <2>2. ASSUME NEW step, G!Go(r, step)
        PROVE  /\ \A q \in Request \ {r} : catalogReq'[q] = catalogReq[q]
               /\ catalogReq'[r].op = "remove" /\ catalogReq'[r].step = step
    BY <1>0, <2>1, <2>2 DEF G!Go, Calls, CallState
  <2>3. (\A q \in Request \ {r} : catalogReq'[q] = catalogReq[q]) /\ catalogReq'[r].op # "list"
    BY <1>f, <2>1, <2>2
  <2>4. G!Active' = G!Active \/ catalogReq'[r].step = "drop"
    BY <2>1, <2>2 DEF G!Active
  <2> QED BY <2>1, <2>3, <2>4, OneKeeps
<1>3. ASSUME NEW r \in Request, NEW fails \in BOOLEAN, G!DropLists(r, fails)
      PROVE  ListsKeep
  <2>1. /\ UNCHANGED customer
        /\ listed' = IF ~fails \/ listed = None THEN None ELSE [listed EXCEPT !.stale = TRUE]
        /\ catalogReq' = [q \in Request |-> IF q = r THEN G!Idle
                                            ELSE [catalogReq[q] EXCEPT !.over = (@ \/ catalogReq[q].op = "list")]]
    BY <1>3 DEF G!DropLists
  <2>2. ASSUME NEW q \in Request \ {r}
        PROVE  /\ catalogReq'[q].op = catalogReq[q].op /\ catalogReq'[q].ids = catalogReq[q].ids
               /\ catalogReq[q].over \/ catalogReq[q].op = "list" => catalogReq'[q].over
    <3>1. catalogReq[q] \in CallState /\ catalogReq'[q] = [catalogReq[q] EXCEPT !.over = (catalogReq[q].over \/ catalogReq[q].op = "list")]
      BY <1>0, <2>1 DEF Calls
    <3>2. catalogReq[q].over \in BOOLEAN /\ catalogReq'[q].over = (catalogReq[q].over \/ catalogReq[q].op = "list")
      BY <3>1 DEF CallState
    <3>3. catalogReq'[q].op = catalogReq[q].op /\ catalogReq'[q].ids = catalogReq[q].ids
      BY <3>1 DEF CallState
    <3> QED BY <3>2, <3>3
  <2>3. catalogReq'[r].op = "idle"
    BY <2>1 DEF G!Idle
  <2>a. listed' = None \/ listed'.stale
    BY <1>0, <2>1 DEF CatalogRows, ListState
  <2>4. G!Active' = G!Active /\ CatDropped
    BY <2>1, <2>2, <2>3, <2>a DEF G!Active, CatDropped
  <2> QED BY <2>2, <2>3, <2>4 DEF ListsKeep
<1>4. ASSUME NEW r \in Request, G!FindAll(r)
      PROVE  ListsKeep
  <2>1. /\ UNCHANGED <<customer, listed>> /\ catalogReq[r] = G!Idle
        /\ catalogReq' = [catalogReq EXCEPT ![r] = [G!Idle EXCEPT !.op = "list", !.ids = G!Active]]
    BY <1>4 DEF G!FindAll
  <2>2. G!Active' = G!Active
    BY <2>1 DEF G!Active
  <2>3. /\ \A q \in Request \ {r} : catalogReq'[q] = catalogReq[q]
        /\ catalogReq[r].step # "drop" /\ catalogReq'[r].ids = G!Active
    BY <1>0, <2>1 DEF Calls, G!Idle
  <2> QED BY <2>1, <2>2, <2>3, OneKeeps
<1>5. ASSUME NEW r \in Request, G!Cache(r)
      PROVE  ListsKeep
  <2>1. /\ UNCHANGED customer /\ catalogReq[r].op = "list" /\ G!Finish(r)
        /\ listed' = [ids |-> catalogReq[r].ids, stale |-> catalogReq[r].over]
    BY <1>5 DEF G!Cache
  <2>2. (\A q \in Request \ {r} : catalogReq'[q] = catalogReq[q]) /\ catalogReq'[r].op # "list"
    BY <1>f, <2>1
  <2>3. catalogReq[r].step # "drop" /\ G!Active' = G!Active
    BY <1>0, <2>1 DEF Calls, Fits, G!Active
  <2> QED BY <2>1, <2>2, <2>3 DEF ListsKeep, Dropping
<1>6. CASE \/ G!Expire \/ UNCHANGED G!vars \/ \E x \in Expense, g \in Category : G!SpendOn(x, g)
           \/ \E i \in Invoice, status \in G!Pending \cup {"PAID", "CANCELLED"} : G!InvoiceMoves(i, status)
  <2>1. UNCHANGED <<customer, catalogReq>> /\ listed' \in {None, listed}
    BY <1>6 DEF G!Expire, G!vars, G!SpendOn, G!InvoiceMoves
  <2> QED BY <2>1 DEF G!Active, ListsKeep, Dropping
<1>7. ASSUME NEW r \in Request, G!InvoiceInsert(r) \/ G!CategoryWrite(r)
      PROVE  ListsKeep
  <2>1. UNCHANGED <<customer, listed>> /\ G!Finish(r) /\ catalogReq[r].step # "drop"
    BY <1>0, <1>7 DEF G!InvoiceInsert, G!CategoryWrite, G!In, Calls, Fits
  <2>2. (\A q \in Request \ {r} : catalogReq'[q] = catalogReq[q]) /\ catalogReq'[r].op # "list"
    BY <1>f, <2>1
  <2> QED BY <2>1, <2>2, OneKeeps DEF G!Active
<1>8. ASSUME NEW r \in Request, NEW i \in Invoice, NEW c \in Customer, G!InvoiceRead(r, i, c)
      PROVE  ListsKeep
  BY <1>8, <1>s DEF G!InvoiceRead
<1>9. ASSUME NEW r \in Request, NEW g \in Category, G!CategoryCount(r, g)
      PROVE  ListsKeep
  <2>1. /\ UNCHANGED <<customer, listed>>
        /\ \E step \in {"deactivate", "delete"} : G!Start(r, "category", step, g, None)
    BY <1>9 DEF G!CategoryCount
  <2> QED BY <1>s, <2>1
<1> QED BY <1>1, <1>2, <1>3, <1>4, <1>5, <1>6, <1>7, <1>8, <1>9 DEF G!Next

LEMMA NextListing ==
    ASSUME G!CatalogAssumption, CatalogInv, [G!Next]_(G!vars)
    PROVE  Listing' /\ G!CustomerListIsTrue'
<1>1. ListsKeep /\ Listing /\ G!CustomerListIsTrue /\ None \notin ListState /\ Calls
  BY NextKeeps DEF CatalogInv, G!CatalogAssumption, ListState
<1>2. CASE CatDropped
  BY <1>2 DEF CatDropped, Listing, G!CustomerListIsTrue
<1>3. CASE Dropping'
  BY <1>3 DEF Dropping, Listing, G!CustomerListIsTrue
<1>4. CASE ~CatDropped /\ ~Dropping'
  <2>1. G!Active' = G!Active /\ ~Dropping
    BY <1>1, <1>4 DEF ListsKeep
  <2>2. Listing'
    BY <1>1, <2>1 DEF ListsKeep, Listing
  <2>3. ASSUME listed' \in {None, listed} PROVE G!CustomerListIsTrue'
    <3>1. CASE listed' = None
      BY <3>1 DEF G!CustomerListIsTrue
    <3>2. CASE UNCHANGED listed /\ listed # None
      <4>1. listed.stale \/ listed.ids = G!Active
        BY <1>1, <2>1, <3>2 DEF G!CustomerListIsTrue, Dropping
      <4>2. listed'.stale = listed.stale /\ listed'.ids = listed.ids
        BY <3>2
      <4> QED BY <2>1, <4>1, <4>2 DEF G!CustomerListIsTrue
    <3> QED BY <2>3, <3>1, <3>2
  <2>4. ASSUME NEW q \in Request, catalogReq[q].op = "list",
               listed' = [ids |-> catalogReq[q].ids, stale |-> catalogReq[q].over]
        PROVE  G!CustomerListIsTrue'
    <3>1. catalogReq[q].over \/ catalogReq[q].ids = G!Active
      BY <1>1, <2>1, <2>4 DEF Listing
    <3>2. listed'.stale = catalogReq[q].over /\ listed'.ids = catalogReq[q].ids
      BY <2>4
    <3> QED BY <2>1, <3>1, <3>2 DEF G!CustomerListIsTrue
  <2> QED BY <1>1, <1>4, <2>2, <2>3, <2>4 DEF ListsKeep
<1> QED BY <1>2, <1>3, <1>4

-----------------------------------------------------------------------------
(* The theorems *)

LEMMA CatalogStepKeeps == G!CatalogAssumption /\ CatalogInv /\ [G!Next]_(G!vars) => CatalogInv'
<1> SUFFICES ASSUME G!CatalogAssumption, CatalogInv, [G!Next]_(G!vars) PROVE CatalogInv'
  OBVIOUS
<1>1. CatalogRows' /\ References' /\ Calls'
  BY NextRows
<1>2. Removing' /\ Inserting' /\ G!PendingHasCustomer'
  BY NextPending
<1>3. Listing' /\ G!CustomerListIsTrue'
  BY NextListing
<1> QED BY <1>1, <1>2, <1>3 DEF CatalogInv

\* The invariant holds of every behaviour of the catalog.
THEOREM CatalogHolds == G!Spec => []CatalogInv
<1>0. G!CatalogAssumption
  BY OfficeAssumption
<1>1. G!Init => CatalogInv
  BY <1>0, CatalogStarts
<1>2. CatalogInv /\ [G!Next]_(G!vars) => CatalogInv'
  BY <1>0, CatalogStepKeeps
<1> QED BY <1>1, <1>2, PTL DEF G!Spec

\* Invoices, expenses and requests refer to rows there are: a category that an
\* expense names is not deleted, nor a customer (CustomerService, CategoryService).
THEOREM CatalogTypeCorrect == G!Spec => []G!TypeOK
<1>1. CatalogInv => G!TypeOK
  <2> SUFFICES ASSUME CatalogInv PROVE G!TypeOK
    OBVIOUS
  <2>1. CatalogRows /\ References
    BY DEF CatalogInv
  <2>2. \A i \in G!Invoices : invoice[i].customer \in Customer
    BY <2>1 DEF CatalogRows, InvoiceRow, G!Invoices
  <2>3. listed = None \/ listed.ids \subseteq Customer
    BY <2>1 DEF CatalogRows, ListState
  <2> QED BY <2>1, <2>2, <2>3 DEF G!TypeOK, CatalogRows, References
<1> QED BY <1>1, CatalogHolds, PTL

\* A pending invoice is for an active customer, but for the invoices made as the
\* customer was removed and those that came back from CANCELLED by a payment:
\* the count of CustomerService.remove misses exactly these.
THEOREM PendingKeepsCustomer == G!Spec => []G!PendingHasCustomer
<1>1. CatalogInv => G!PendingHasCustomer
  BY DEF CatalogInv
<1> QED BY <1>1, CatalogHolds, PTL

\* The cached list shows the active customers, but while a change has still to
\* drop it and when a read from before the drop was stored after it.
THEOREM CachedCustomersAreTrue == G!Spec => []G!CustomerListIsTrue
<1>1. CatalogInv => G!CustomerListIsTrue
  BY DEF CatalogInv
<1> QED BY <1>1, CatalogHolds, PTL

(***************************************************************************)
(* Receipts: files, uploads and the expenses that name them                *)
(***************************************************************************)

(* Receipts: the invariant *)

FileRow == [temporary : BOOLEAN, expired : BOOLEAN]
FileCall ==
    [op : {"idle", "upload", "create", "update", "remove", "delete", "sweep"},
     step : {"done", "insert", "claim", "write", "object", "row", "delete", "index", "next"},
     expense : Expense \cup {None}, key : FileKey \cup {"none"}, old : FileKey \cup {"none"},
     list : SUBSET FileKey]
\* A request has what its step works on.
Equipped(q) ==
    /\ q.step \in {"insert", "claim", "object", "row"} => q.key \in FileKey
    /\ q.step \in {"write", "delete", "index"} => q.op \in {"create", "update", "remove"}
    /\ q.op \in {"create", "update", "remove"} => q.expense \in Expense
    /\ q.step = "claim" => q.op \in {"create", "update"} /\ q.key # q.old
    /\ q.step = "delete" => q.op = "remove"
    /\ q.step = "write" => q.op = "update"
    /\ q.step = "insert" => q.op = "upload" /\ q.old = "none"
    /\ q.op # "sweep" => q.list = {}

FileTypes ==
    /\ stored \subseteq FileKey /\ fresh \subseteq FileKey
    /\ upload \in [FileKey -> FileRow \cup {None}]
    /\ receipt \in [Expense -> FileKey \cup {"none", None}] /\ indexed \in [Expense -> BOOLEAN]
FileCalls == fileReq \in [Request -> FileCall] /\ \A r \in Request : Equipped(fileReq[r])

\* A key is fresh, then being inserted by one request, and known after that.
Known(k) ==
    \/ k \in R!Uploaded \/ R!Users(k) # {}
    \/ \E r \in Request : \/ fileReq[r].key = k /\ fileReq[r].step # "insert"
                          \/ fileReq[r].old = k \/ k \in fileReq[r].list
Inserts(r, k) == fileReq[r].step = "insert" /\ fileReq[r].key = k
FreshIsNew ==
    \A k \in fresh : k \notin stored /\ ~Known(k) /\ \A r \in Request : ~Inserts(r, k)
InsertIsNew ==
    \A r \in Request, k \in FileKey : Inserts(r, k) =>
      k \in stored /\ ~Known(k) /\ \A q \in Request : Inserts(q, k) => q = r
\* Between the two deletes the object is gone.
ObjectIsGone == \A r \in Request : fileReq[r].step = "row" => fileReq[r].key \notin stored
\* What was removed stays removed while its request is there.
RemovedIsGone ==
    \A r \in Request : fileReq[r].op = "remove" /\ fileReq[r].step = "index" => receipt[fileReq[r].expense] = None

\* A receipt is lost for a reason: its key is severed, or the expense is being removed.
FileExcused(x, k) ==
    \/ k \in severed
    \/ \E r \in Request : fileReq[r].op = "remove" /\ fileReq[r].expense = x /\ fileReq[r].key = k
Rewriting(r, x) == fileReq[r].step = "write" /\ fileReq[r].expense = x
SharedIsSevered ==
    \A k \in FileKey : \A x, y \in R!Users(k) : x = y \/ k \in severed
BoundIsExcused ==
    \A r \in Request, k \in FileKey : R!Bound(fileReq[r], k) =>
      \A x \in R!Users(k) : FileExcused(x, k) \/ Rewriting(r, x)
FileKept == \A k \in FileKey : \A x \in R!Users(k) : k \in stored \/ FileExcused(x, k)

\* What an expense names is temporary no longer, or about to be claimed.
Temporary(k) == k \in R!Uploaded /\ upload[k].temporary
Named(k) == R!Users(k) # {} \/ \E r \in Request : fileReq[r].step = "write" /\ fileReq[r].old = k
Safe(k) == k \in severed \/ R!Claiming(k) # {}
NamedIsClaimed == \A k \in FileKey : Temporary(k) /\ Named(k) => Safe(k)

FilesInv ==
    /\ FileTypes /\ FileCalls
    /\ FreshIsNew /\ InsertIsNew /\ ObjectIsGone /\ RemovedIsGone
    /\ SharedIsSevered /\ BoundIsExcused /\ FileKept /\ NamedIsClaimed
    /\ R!FilesHaveRows

-----------------------------------------------------------------------------
LEMMA FilesStart == R!ReceiptsAssumption /\ R!Init => FilesInv
<1> SUFFICES ASSUME R!ReceiptsAssumption, R!Init PROVE FilesInv
  OBVIOUS
<1>1. /\ R!Uploaded = {} /\ (\A k \in FileKey : R!Users(k) = {}) /\ stored = {} /\ fresh = FileKey
      /\ \A r \in Request : fileReq[r] = R!Idle
  BY DEF R!Init, R!Uploaded, R!Users, R!Expenses
<1>2. R!Idle \in FileCall /\ Equipped(R!Idle) /\ R!Idle.step = "done" /\ R!Idle.old = "none" /\ R!Idle.list = {}
      /\ R!Idle.key = "none" /\ R!Idle.op = "idle"
  BY DEF R!Idle, FileCall, Equipped
<1>3. FileTypes /\ FileCalls
  BY <1>1, <1>2 DEF R!Init, FileTypes, FileCalls
<1>4. FreshIsNew /\ InsertIsNew
  BY <1>1, <1>2 DEF FreshIsNew, InsertIsNew, Known, Inserts, R!ReceiptsAssumption
<1>5. ObjectIsGone /\ RemovedIsGone /\ R!FilesHaveRows
  BY <1>1, <1>2 DEF ObjectIsGone, RemovedIsGone, R!FilesHaveRows
<1>6. SharedIsSevered /\ BoundIsExcused /\ FileKept /\ NamedIsClaimed
  BY <1>1, <1>2 DEF SharedIsSevered, BoundIsExcused, R!Bound, FileKept, NamedIsClaimed, Temporary
<1> QED BY <1>3, <1>4, <1>5, <1>6 DEF FilesInv

-----------------------------------------------------------------------------
(* Receipts: what a step may do *)

\* A receipt that is named is there to be kept, or severed; what a request is
\* bound to delete is excused; only what is bound is deleted.
ExcusesStay ==
    /\ severed \subseteq severed'
    /\ \A k \in FileKey : \A x \in R!Users(k)' : FileExcused(x, k) => FileExcused(x, k)'
NamesAreKept ==
    \A k \in FileKey : \A x \in R!Users(k)' :
      \/ x \in R!Users(k) \/ k \in severed'
      \/ R!Users(k) \subseteq {x} /\ R!Users(k)' \subseteq R!Users(k) \cup {x} /\ ~R!Doomed(k) /\ k \in stored
BoundsAreExcused ==
    \A r \in Request, k \in FileKey : R!Bound(fileReq'[r], k) =>
      \/ R!Bound(fileReq[r], k) /\ \A x \in R!Users(k)' : Rewriting(r, x) => Rewriting(r, x)'
      \/ \A x \in R!Users(k)' : FileExcused(x, k)' \/ Rewriting(r, x)'
DeletesAreBound ==
    \A k \in stored \ stored' : \E r \in Request : fileReq[r].step = "object" /\ fileReq[r].key = k

\* A claim ends with its file claimed, and what is named anew is being claimed.
ClaimsStay ==
    /\ \A k \in FileKey : Temporary(k)' /\ Safe(k) => Safe(k)'
    /\ \A k \in FileKey : Temporary(k)' /\ Named(k)' => (Temporary(k) /\ Named(k)) \/ Safe(k)'

\* Keys come from what is known, objects and inserts from what is fresh.
KeysComeFromUploads ==
    /\ \A k \in FileKey : Known(k)' => Known(k) \/ (k \notin fresh' /\ \A r \in Request : ~Inserts(r, k)')
    /\ fresh' \subseteq fresh /\ stored' \ stored \subseteq fresh \ fresh'
    /\ \A r \in Request, k \in FileKey : Inserts(r, k)' =>
         \/ Inserts(r, k)
         \/ k \in fresh \ fresh' /\ k \in stored' /\ \A q \in Request : Inserts(q, k)' => q = r

\* A row is deleted after its object; the two agree but for a request between them.
RowsFollowObjects ==
    /\ \A r \in Request : fileReq'[r].step = "row" =>
         \/ fileReq[r].step = "row" /\ fileReq'[r].key = fileReq[r].key
         \/ fileReq'[r].key \notin stored'
    /\ littered \subseteq littered'
    /\ \A k \in FileKey \ littered' :
         \/ k \in stored' <=> k \in R!Uploaded'
         \/ \E r \in Request : fileReq'[r].key = k /\ fileReq'[r].step \in {"insert", "row"}
         \/ /\ k \in stored' <=> k \in stored
            /\ k \in R!Uploaded' <=> k \in R!Uploaded
            /\ \A r \in Request : fileReq[r].key = k /\ fileReq[r].step \in {"insert", "row"} =>
                 fileReq'[r].key = k /\ fileReq'[r].step \in {"insert", "row"}

Sound ==
    /\ ExcusesStay /\ NamesAreKept /\ BoundsAreExcused /\ DeletesAreBound
    /\ ClaimsStay /\ KeysComeFromUploads /\ RowsFollowObjects

LEMMA SoundKeeps ==
    ASSUME R!ReceiptsAssumption, FilesInv, FileTypes', FileCalls', Sound
    PROVE  /\ FreshIsNew' /\ InsertIsNew' /\ ObjectIsGone'
           /\ SharedIsSevered' /\ BoundIsExcused' /\ FileKept' /\ NamedIsClaimed'
           /\ R!FilesHaveRows'
<1>1. /\ FileTypes /\ FileCalls /\ FreshIsNew /\ InsertIsNew /\ ObjectIsGone
      /\ SharedIsSevered /\ BoundIsExcused /\ FileKept /\ NamedIsClaimed /\ R!FilesHaveRows
  BY DEF FilesInv
<1>2. /\ ExcusesStay /\ NamesAreKept /\ BoundsAreExcused /\ DeletesAreBound
      /\ ClaimsStay /\ KeysComeFromUploads /\ RowsFollowObjects
  BY DEF Sound
<1>3. FreshIsNew'
  BY <1>1, <1>2 DEF FreshIsNew, KeysComeFromUploads, FileTypes
<1>4. InsertIsNew'
  <2> SUFFICES ASSUME NEW r \in Request, NEW k \in FileKey, Inserts(r, k)'
               PROVE  /\ k \in stored' /\ ~Known(k)'
                      /\ \A q \in Request : Inserts(q, k)' => q = r
    BY DEF InsertIsNew
  <2>1. CASE Inserts(r, k)
    <3>1. k \in stored /\ ~Known(k) /\ k \notin fresh /\ \A q \in Request : Inserts(q, k) => q = r
      BY <1>1, <2>1 DEF InsertIsNew, FreshIsNew
    <3>2. k \in stored'
      BY <1>2, <3>1 DEF DeletesAreBound, Known
    <3> QED BY <1>2, <3>1, <3>2 DEF KeysComeFromUploads
  <2>2. CASE ~Inserts(r, k)
    <3>1. k \in fresh /\ ~Known(k) /\ k \in stored' /\ \A q \in Request : Inserts(q, k)' => q = r
      BY <1>1, <1>2, <2>2 DEF KeysComeFromUploads, FreshIsNew
    <3> QED BY <1>2, <3>1 DEF KeysComeFromUploads
  <2> QED BY <2>1, <2>2
<1>5. ObjectIsGone'
  <2> SUFFICES ASSUME NEW r \in Request, fileReq'[r].step = "row", fileReq'[r].key \in stored'
               PROVE  FALSE
    BY DEF ObjectIsGone
  <2>1. fileReq[r].step = "row" /\ fileReq[r].key \in stored'
    BY <1>2 DEF RowsFollowObjects
  <2>2. Known(fileReq[r].key) /\ fileReq[r].key \notin stored
    BY <1>1, <2>1 DEF Known, ObjectIsGone
  <2> QED BY <1>1, <1>2, <2>1, <2>2 DEF KeysComeFromUploads, FreshIsNew
<1>6. ASSUME NEW k \in FileKey, NEW x \in R!Users(k)', NEW y \in R!Users(k)', x # y
      PROVE  k \in severed'
  <2>1. CASE x \in R!Users(k) /\ y \in R!Users(k)
    BY <1>1, <1>2, <1>6, <2>1 DEF SharedIsSevered, ExcusesStay
  <2>2. CASE x \notin R!Users(k) \/ y \notin R!Users(k)
    BY <1>2, <1>6, <2>2 DEF NamesAreKept
  <2> QED BY <2>1, <2>2
<1>7. SharedIsSevered'
  BY <1>6 DEF SharedIsSevered
<1>8. BoundIsExcused'
  <2> SUFFICES ASSUME NEW r \in Request, NEW k \in FileKey, R!Bound(fileReq'[r], k), NEW x \in R!Users(k)',
                      ~Rewriting(r, x)'
               PROVE  FileExcused(x, k)'
    BY DEF BoundIsExcused
  <2>1. CASE R!Bound(fileReq[r], k) /\ ~Rewriting(r, x)
    <3>1. CASE x \in R!Users(k)
      BY <1>1, <1>2, <2>1, <3>1 DEF BoundIsExcused, ExcusesStay
    <3>2. CASE x \notin R!Users(k)
      BY <1>2, <2>1, <3>2 DEF NamesAreKept, R!Doomed, FileExcused
    <3> QED BY <3>1, <3>2
  <2>2. CASE ~(R!Bound(fileReq[r], k) /\ ~Rewriting(r, x))
    BY <1>2, <2>2 DEF BoundsAreExcused
  <2> QED BY <2>1, <2>2
<1>9. FileKept'
  <2> SUFFICES ASSUME NEW k \in FileKey, NEW x \in R!Users(k)', k \notin stored'
               PROVE  FileExcused(x, k)'
    BY DEF FileKept
  <2>1. CASE k \in stored
    <3>1. PICK r \in Request : fileReq[r].step = "object" /\ fileReq[r].key = k
      BY <1>2, <2>1 DEF DeletesAreBound
    <3>2. R!Bound(fileReq[r], k) /\ ~Rewriting(r, x)
      BY <3>1 DEF R!Bound, Rewriting
    <3>3. CASE x \in R!Users(k)
      BY <1>1, <1>2, <3>2, <3>3 DEF BoundIsExcused, ExcusesStay
    <3>4. CASE x \notin R!Users(k)
      BY <1>2, <3>2, <3>4 DEF NamesAreKept, R!Doomed, FileExcused
    <3> QED BY <3>3, <3>4
  <2>2. CASE k \notin stored
    <3>1. CASE x \in R!Users(k)
      BY <1>1, <1>2, <2>2, <3>1 DEF FileKept, ExcusesStay
    <3>2. CASE x \notin R!Users(k)
      BY <1>2, <2>2, <3>2 DEF NamesAreKept, FileExcused
    <3> QED BY <3>1, <3>2
  <2> QED BY <2>1, <2>2
<1>10. NamedIsClaimed'
  BY <1>1, <1>2 DEF NamedIsClaimed, ClaimsStay
<1>11. R!FilesHaveRows'
  BY <1>1, <1>2 DEF R!FilesHaveRows, RowsFollowObjects
<1> QED BY <1>3, <1>4, <1>5, <1>7, <1>8, <1>9, <1>10, <1>11

-----------------------------------------------------------------------------
(* Receipts: the types *)

LEMMA FileNones ==
    ASSUME R!ReceiptsAssumption
    PROVE  /\ None \notin FileRow /\ None \notin FileKey /\ None # "none" /\ "none" \notin FileKey
           /\ None \notin Expense
BY DEF R!ReceiptsAssumption, FileRow

\* One request becomes another record, the others stay.
LEMMA OneBecomes ==
    ASSUME FileCalls, NEW r \in Request, NEW q \in FileCall, Equipped(q), R!Become(r, q)
    PROVE  FileCalls' /\ fileReq'[r] = q /\ \A p \in Request \ {r} : fileReq'[p] = fileReq[p]
BY DEF FileCalls, R!Become
LEMMA OneFinishes ==
    ASSUME FileCalls, NEW r \in Request, R!Finish(r)
    PROVE  FileCalls' /\ fileReq'[r] = R!Idle /\ \A p \in Request \ {r} : fileReq'[p] = fileReq[p]
<1>1. R!Idle \in FileCall /\ Equipped(R!Idle)
  BY DEF R!Idle, FileCall, Equipped
<1> QED BY <1>1, OneBecomes DEF R!Finish

LEMMA FileTypesStep ==
    ASSUME R!ReceiptsAssumption, FilesInv, [R!Next]_(R!vars)
    PROVE  FileTypes' /\ FileCalls' /\ RemovedIsGone'
<1>0. /\ FileTypes /\ FileCalls /\ RemovedIsGone
  BY DEF FilesInv
<1>n. /\ None \notin FileRow /\ None \notin FileKey /\ None # "none" /\ "none" \notin FileKey
      /\ None \notin Expense
  BY FileNones
<1>i. /\ R!Idle.op = "idle" /\ R!Idle.step = "done" /\ R!Idle.expense = None /\ R!Idle.key = "none"
      /\ R!Idle.old = "none" /\ R!Idle.list = {}
  BY DEF R!Idle
\* Whoever is finished, or is no remove, and leaves the receipts alone.
<1>f. ASSUME NEW r \in Request, UNCHANGED receipt, \A p \in Request \ {r} : fileReq'[p] = fileReq[p],
             fileReq'[r].op = "remove" => fileReq'[r].step # "index"
      PROVE  RemovedIsGone'
  BY <1>0, <1>f DEF RemovedIsGone
<1>1. ASSUME NEW r \in Request, NEW k \in FileKey, R!Put(r, k)
      PROVE  FileTypes' /\ FileCalls' /\ RemovedIsGone'
  <2> DEFINE q == [R!Idle EXCEPT !.op = "upload", !.step = "insert", !.key = k]
  <2>1. /\ UNCHANGED <<upload, receipt, indexed>> /\ R!Become(r, q)
        /\ stored' = stored \cup {k} /\ fresh' = fresh \ {k}
    BY <1>1 DEF R!Put
  <2>2. q \in FileCall /\ Equipped(q) /\ q.op = "upload"
    BY DEF R!Idle, FileCall, Equipped
  <2> HIDE DEF q
  <2>3. FileCalls' /\ fileReq'[r] = q /\ \A p \in Request \ {r} : fileReq'[p] = fileReq[p]
    BY <1>0, <2>1, <2>2, OneBecomes
  <2>4. FileTypes'
    BY <1>0, <2>1 DEF FileTypes
  <2> QED BY <1>f, <2>1, <2>2, <2>3, <2>4
<1>2. ASSUME NEW r \in Request, R!PutRow(r) \/ R!Index(r) \/ (R!SweepNext(r) /\ R!Finish(r))
      PROVE  FileTypes' /\ FileCalls' /\ RemovedIsGone'
  <2>1. UNCHANGED <<receipt, stored, fresh>> /\ R!Finish(r)
    BY <1>2 DEF R!PutRow, R!Index, R!SweepNext, R!files
  <2>2. FileCalls' /\ fileReq'[r] = R!Idle /\ \A p \in Request \ {r} : fileReq'[p] = fileReq[p]
    BY <1>0, <2>1, OneFinishes
  <2>3. upload' \in [FileKey -> FileRow \cup {None}]
    <3>1. [temporary |-> TRUE, expired |-> FALSE] \in FileRow
      BY DEF FileRow
    <3> QED BY <1>0, <1>2, <3>1 DEF R!PutRow, R!Index, R!SweepNext, R!files, FileTypes
  <2>4. indexed' \in [Expense -> BOOLEAN]
    BY <1>0, <1>2 DEF R!PutRow, R!Index, R!SweepNext, FileTypes
  <2> QED BY <1>0, <1>f, <1>i, <2>1, <2>2, <2>3, <2>4 DEF FileTypes
<1>3. CASE UNCHANGED R!vars \/ \E k \in FileKey : R!Expires(k)
  <2>1. UNCHANGED <<receipt, stored, fresh, fileReq, indexed>>
    BY <1>3 DEF R!vars, R!files, R!Expires
  <2>2. upload' \in [FileKey -> FileRow \cup {None}]
    <3>1. CASE UNCHANGED R!vars
      BY <1>0, <3>1 DEF R!vars, R!files, FileTypes
    <3>2. ASSUME NEW k \in FileKey, R!Expires(k) PROVE upload' \in [FileKey -> FileRow \cup {None}]
      <4>1. upload' = [upload EXCEPT ![k] = [upload[k] EXCEPT !.expired = TRUE]] /\ upload[k] # None
        BY <3>2 DEF R!Expires, R!Uploaded
      <4>2. [upload[k] EXCEPT !.expired = TRUE] \in FileRow
        BY <1>0, <4>1 DEF FileTypes, FileRow
      <4> QED BY <1>0, <4>1, <4>2 DEF FileTypes
    <3> QED BY <1>3, <3>1, <3>2
  <2> QED BY <1>0, <2>1, <2>2 DEF FileTypes, FileCalls, RemovedIsGone
<1>4. ASSUME NEW r \in Request, NEW x \in Expense, NEW k \in FileKey \cup {"none"}, R!Create(r, x, k)
      PROVE  FileTypes' /\ FileCalls' /\ RemovedIsGone'
  <2> DEFINE q == [R!Idle EXCEPT !.op = "create", !.step = IF k = "none" THEN "index" ELSE "claim",
                                 !.expense = x, !.key = k]
  <2>1. /\ UNCHANGED <<upload, stored, fresh, indexed>> /\ R!Become(r, q)
        /\ receipt' = [receipt EXCEPT ![x] = k] /\ \A p \in Request : fileReq[p].expense # x
    BY <1>4 DEF R!Create, R!files
  <2>2. q \in FileCall /\ Equipped(q) /\ q.op = "create"
    BY <1>n DEF R!Idle, FileCall, Equipped
  <2> HIDE DEF q
  <2>3. FileCalls' /\ fileReq'[r] = q /\ \A p \in Request \ {r} : fileReq'[p] = fileReq[p]
    BY <1>0, <2>1, <2>2, OneBecomes
  <2>4. FileTypes'
    BY <1>0, <2>1 DEF FileTypes
  <2>5. RemovedIsGone'
    BY <1>0, <2>1, <2>2, <2>3 DEF RemovedIsGone, FileTypes
  <2> QED BY <2>3, <2>4, <2>5
<1>5. ASSUME NEW r \in Request, R!Claim(r)
      PROVE  FileTypes' /\ FileCalls' /\ RemovedIsGone'
  <2> DEFINE q == [fileReq[r] EXCEPT !.step = IF fileReq[r].old = "none" THEN "index" ELSE "object",
                                     !.key = fileReq[r].old]
  <2>1. /\ UNCHANGED <<receipt, stored, fresh, indexed>> /\ R!Become(r, q) /\ fileReq[r].step = "claim"
        /\ \/ UNCHANGED upload
           \/ upload' = [upload EXCEPT ![fileReq[r].key] = [temporary |-> FALSE, expired |-> FALSE]]
    BY <1>5 DEF R!Claim
  <2>2. /\ fileReq[r] \in FileCall /\ fileReq[r].op \in {"create", "update"} /\ fileReq[r].expense \in Expense
        /\ fileReq[r].list = {}
    BY <1>0, <2>1 DEF FileCalls, Equipped
  <2>3. q \in FileCall /\ Equipped(q) /\ q.op \in {"create", "update"}
    BY <2>2 DEF FileCall, Equipped
  <2> HIDE DEF q
  <2>4. FileCalls' /\ fileReq'[r] = q /\ \A p \in Request \ {r} : fileReq'[p] = fileReq[p]
    BY <1>0, <2>1, <2>3, OneBecomes
  <2>5. [temporary |-> FALSE, expired |-> FALSE] \in FileRow
    BY DEF FileRow
  <2>6. FileTypes'
    BY <1>0, <2>1, <2>5 DEF FileTypes
  <2> QED BY <1>f, <2>1, <2>3, <2>4, <2>6
<1>6. ASSUME NEW r \in Request, NEW x \in Expense, NEW k \in FileKey \cup {"none"}, R!UpdateRead(r, x, k)
      PROVE  FileTypes' /\ FileCalls' /\ RemovedIsGone'
  <2> DEFINE q == [R!Idle EXCEPT !.op = "update", !.step = "write", !.expense = x, !.key = k,
                                 !.old = receipt[x]]
  <2>1. UNCHANGED <<upload, receipt, stored, fresh, indexed>> /\ R!Become(r, q) /\ receipt[x] # None
    BY <1>6 DEF R!UpdateRead, R!files, R!Expenses
  <2>2. q \in FileCall /\ Equipped(q) /\ q.op = "update"
    BY <1>0, <2>1 DEF R!Idle, FileCall, Equipped, FileTypes
  <2> HIDE DEF q
  <2>3. FileCalls' /\ fileReq'[r] = q /\ \A p \in Request \ {r} : fileReq'[p] = fileReq[p]
    BY <1>0, <2>1, <2>2, OneBecomes
  <2> QED BY <1>0, <1>f, <2>1, <2>2, <2>3 DEF FileTypes
<1>7. ASSUME NEW r \in Request, R!UpdateWrite(r)
      PROVE  FileTypes' /\ FileCalls' /\ RemovedIsGone'
  <2>1. UNCHANGED <<upload, stored, fresh, indexed>> /\ fileReq[r].op = "update" /\ fileReq[r].step = "write"
    BY <1>7 DEF R!UpdateWrite, R!In, R!files
  <2>2. CASE R!Finish(r) /\ UNCHANGED receipt
    <3>1. FileCalls' /\ fileReq'[r] = R!Idle /\ \A p \in Request \ {r} : fileReq'[p] = fileReq[p]
      BY <1>0, <2>2, OneFinishes
    <3> QED BY <1>0, <1>f, <1>i, <2>1, <2>2, <3>1 DEF FileTypes
  <2>3. CASE fileReq[r].expense \in R!Expenses
    <3> DEFINE q == [fileReq[r] EXCEPT !.step = IF fileReq[r].key \notin {"none", fileReq[r].old} THEN "claim"
                                                ELSE "index"]
    <3>1. /\ R!Become(r, q)
          /\ receipt' = IF fileReq[r].key = "none" THEN receipt
                        ELSE [receipt EXCEPT ![fileReq[r].expense] = fileReq[r].key]
      BY <1>7, <2>3 DEF R!UpdateWrite
    <3>2. fileReq[r] \in FileCall /\ fileReq[r].expense \in Expense /\ fileReq[r].list = {}
      BY <1>0, <2>1 DEF FileCalls, Equipped
    <3>3. q \in FileCall /\ Equipped(q) /\ q.op = "update"
      BY <2>1, <3>2 DEF FileCall, Equipped
    <3> HIDE DEF q
    <3>4. FileCalls' /\ fileReq'[r] = q /\ \A p \in Request \ {r} : fileReq'[p] = fileReq[p]
      BY <1>0, <3>1, <3>3, OneBecomes
    <3>5. FileTypes'
      BY <1>0, <2>1, <3>1, <3>2 DEF FileTypes, FileCall
    <3>6. \A x \in Expense : receipt[x] = None => receipt'[x] = None
      BY <1>0, <2>3, <3>1 DEF FileTypes, R!Expenses
    <3>7. RemovedIsGone'
      BY <1>0, <3>3, <3>4, <3>6 DEF RemovedIsGone, FileCalls, Equipped
    <3> QED BY <3>4, <3>5, <3>7
  <2> QED BY <1>7, <2>2, <2>3 DEF R!UpdateWrite
<1>8. ASSUME NEW r \in Request, NEW x \in Expense, R!RemoveRead(r, x)
      PROVE  FileTypes' /\ FileCalls' /\ RemovedIsGone'
  <2> DEFINE q == [R!Idle EXCEPT !.op = "remove", !.expense = x, !.key = receipt[x],
                                 !.step = IF receipt[x] = "none" THEN "delete" ELSE "object"]
  <2>1. UNCHANGED <<upload, receipt, stored, fresh, indexed>> /\ R!Become(r, q) /\ receipt[x] # None
    BY <1>8 DEF R!RemoveRead, R!files, R!Expenses
  <2>2. q \in FileCall /\ Equipped(q) /\ q.step # "index"
    BY <1>0, <2>1 DEF R!Idle, FileCall, Equipped, FileTypes
  <2> HIDE DEF q
  <2>3. FileCalls' /\ fileReq'[r] = q /\ \A p \in Request \ {r} : fileReq'[p] = fileReq[p]
    BY <1>0, <2>1, <2>2, OneBecomes
  <2> QED BY <1>0, <1>f, <2>1, <2>2, <2>3 DEF FileTypes
<1>9. ASSUME NEW r \in Request, R!RemoveDelete(r)
      PROVE  FileTypes' /\ FileCalls' /\ RemovedIsGone'
  <2>1. UNCHANGED <<upload, stored, fresh, indexed>> /\ fileReq[r].op = "remove" /\ fileReq[r].step = "delete"
    BY <1>9 DEF R!RemoveDelete, R!In, R!files
  <2>2. CASE R!Finish(r) /\ UNCHANGED receipt
    <3>1. FileCalls' /\ fileReq'[r] = R!Idle /\ \A p \in Request \ {r} : fileReq'[p] = fileReq[p]
      BY <1>0, <2>2, OneFinishes
    <3> QED BY <1>0, <1>f, <1>i, <2>1, <2>2, <3>1 DEF FileTypes
  <2>3. CASE fileReq[r].expense \in R!Expenses
    <3> DEFINE q == [fileReq[r] EXCEPT !.step = "index"]
    <3>1. R!Become(r, q) /\ receipt' = [receipt EXCEPT ![fileReq[r].expense] = None]
      BY <1>9, <2>3 DEF R!RemoveDelete
    <3>2. fileReq[r] \in FileCall /\ fileReq[r].expense \in Expense /\ fileReq[r].list = {}
      BY <1>0, <2>1 DEF FileCalls, Equipped
    <3>3. q \in FileCall /\ Equipped(q) /\ q.op = "remove" /\ q.expense = fileReq[r].expense
      BY <2>1, <3>2 DEF FileCall, Equipped
    <3> HIDE DEF q
    <3>4. FileCalls' /\ fileReq'[r] = q /\ \A p \in Request \ {r} : fileReq'[p] = fileReq[p]
      BY <1>0, <3>1, <3>3, OneBecomes
    <3>5. FileTypes'
      BY <1>0, <2>1, <3>1, <3>2 DEF FileTypes
    <3>6. receipt'[fileReq[r].expense] = None /\ \A x \in Expense : receipt[x] = None => receipt'[x] = None
      BY <1>0, <3>1, <3>2 DEF FileTypes
    <3>7. RemovedIsGone'
      BY <1>0, <3>3, <3>4, <3>6 DEF RemovedIsGone, FileCalls, Equipped
    <3> QED BY <3>4, <3>5, <3>7
  <2> QED BY <1>9, <2>2, <2>3 DEF R!RemoveDelete
<1>10. ASSUME NEW r \in Request, NEW k \in FileKey, R!DeleteRead(r, k)
       PROVE  FileTypes' /\ FileCalls' /\ RemovedIsGone'
  <2> DEFINE q == [R!Idle EXCEPT !.op = "delete", !.step = "object", !.key = k]
  <2>1. UNCHANGED <<upload, receipt, stored, fresh, indexed>> /\ R!Become(r, q)
    BY <1>10 DEF R!DeleteRead, R!files
  <2>2. q \in FileCall /\ Equipped(q) /\ q.op = "delete"
    BY DEF R!Idle, FileCall, Equipped
  <2> HIDE DEF q
  <2>3. FileCalls' /\ fileReq'[r] = q /\ \A p \in Request \ {r} : fileReq'[p] = fileReq[p]
    BY <1>0, <2>1, <2>2, OneBecomes
  <2> QED BY <1>0, <1>f, <2>1, <2>2, <2>3 DEF FileTypes
<1>11. ASSUME NEW r \in Request, R!SweepSelect(r)
       PROVE  FileTypes' /\ FileCalls' /\ RemovedIsGone'
  <2> DEFINE list == {k \in R!Uploaded : upload[k].temporary /\ upload[k].expired}
             q == [R!Idle EXCEPT !.op = "sweep", !.step = "next", !.list = list]
  <2>1. UNCHANGED <<upload, receipt, stored, fresh, indexed>> /\ R!Become(r, q)
    BY <1>11 DEF R!SweepSelect, R!files
  <2>2. list \in SUBSET FileKey
    BY DEF R!Uploaded
  <2> HIDE DEF list
  <2>3. q \in FileCall /\ Equipped(q) /\ q.op = "sweep"
    BY <2>2 DEF R!Idle, FileCall, Equipped
  <2> HIDE DEF q
  <2>4. FileCalls' /\ fileReq'[r] = q /\ \A p \in Request \ {r} : fileReq'[p] = fileReq[p]
    BY <1>0, <2>1, <2>3, OneBecomes
  <2> QED BY <1>0, <1>f, <2>1, <2>3, <2>4 DEF FileTypes
<1>12. ASSUME NEW r \in Request, R!SweepNext(r)
       PROVE  FileTypes' /\ FileCalls' /\ RemovedIsGone'
  <2>1. CASE R!Finish(r)
    BY <1>2, <1>12, <2>1
  <2>2. ASSUME NEW k \in fileReq[r].list,
               R!Become(r, [fileReq[r] EXCEPT !.step = "object", !.key = k, !.list = @ \ {k}])
        PROVE  FileTypes' /\ FileCalls' /\ RemovedIsGone'
    <3> DEFINE q == [fileReq[r] EXCEPT !.step = "object", !.key = k, !.list = fileReq[r].list \ {k}]
    <3>1. UNCHANGED <<upload, receipt, stored, fresh, indexed>> /\ R!Become(r, q) /\ fileReq[r].op = "sweep"
      BY <1>12, <2>2 DEF R!SweepNext, R!In, R!files
    <3>2. fileReq[r] \in FileCall /\ k \in FileKey
      BY <1>0 DEF FileCalls, FileCall
    <3>3. q \in FileCall /\ Equipped(q) /\ q.op = "sweep"
      BY <3>1, <3>2 DEF FileCall, Equipped
    <3> HIDE DEF q
    <3>4. FileCalls' /\ fileReq'[r] = q /\ \A p \in Request \ {r} : fileReq'[p] = fileReq[p]
      BY <1>0, <3>1, <3>3, OneBecomes
    <3> QED BY <1>0, <1>f, <3>1, <3>3, <3>4 DEF FileTypes
  <2> QED BY <1>12, <2>1, <2>2 DEF R!SweepNext
<1>13. ASSUME NEW r \in Request, R!DeleteObject(r)
       PROVE  FileTypes' /\ FileCalls' /\ RemovedIsGone'
  <2> DEFINE q == [fileReq[r] EXCEPT !.step = "row"]
  <2>1. /\ UNCHANGED <<upload, receipt, fresh, indexed>> /\ R!Become(r, q) /\ fileReq[r].step = "object"
        /\ stored' = stored \ {fileReq[r].key}
    BY <1>13 DEF R!DeleteObject
  <2>2. fileReq[r] \in FileCall /\ Equipped(fileReq[r])
    BY <1>0 DEF FileCalls
  <2>3. q \in FileCall /\ Equipped(q) /\ q.step = "row"
    BY <2>1, <2>2 DEF FileCall, Equipped
  <2> HIDE DEF q
  <2>4. FileCalls' /\ fileReq'[r] = q /\ \A p \in Request \ {r} : fileReq'[p] = fileReq[p]
    BY <1>0, <2>1, <2>3, OneBecomes
  <2> QED BY <1>0, <1>f, <2>1, <2>3, <2>4 DEF FileTypes
\* What comes after a deletion is no end of a remove.
<1>a. ASSUME NEW r \in Request, fileReq[r].step \in {"object", "row"}
      PROVE  /\ R!After(fileReq[r]) \in FileCall /\ Equipped(R!After(fileReq[r]))
             /\ R!After(fileReq[r]).op = "remove" => R!After(fileReq[r]).step # "index"
  <2>1. fileReq[r] \in FileCall /\ Equipped(fileReq[r])
    BY <1>0 DEF FileCalls
  <2>2. CASE fileReq[r].op = "sweep"
    BY <1>a, <2>1, <2>2 DEF R!After, FileCall, Equipped
  <2>3. CASE fileReq[r].op = "remove"
    BY <1>a, <2>1, <2>3 DEF R!After, FileCall, Equipped
  <2>4. CASE fileReq[r].op = "update"
    BY <1>a, <2>1, <2>4 DEF R!After, FileCall, Equipped
  <2>5. CASE fileReq[r].op \notin {"sweep", "remove", "update"}
    BY <2>5 DEF R!After, R!Idle, FileCall, Equipped
  <2> QED BY <2>2, <2>3, <2>4, <2>5
<1>14. ASSUME NEW r \in Request, R!DeleteRow(r)
       PROVE  FileTypes' /\ FileCalls' /\ RemovedIsGone'
  <2>1. /\ UNCHANGED <<receipt, stored, fresh, indexed>> /\ R!Become(r, R!After(fileReq[r]))
        /\ fileReq[r].step = "row" /\ upload' = [upload EXCEPT ![fileReq[r].key] = None]
    BY <1>14 DEF R!DeleteRow
  <2>2. FileCalls' /\ fileReq'[r] = R!After(fileReq[r]) /\ \A p \in Request \ {r} : fileReq'[p] = fileReq[p]
    BY <1>0, <1>a, <2>1, OneBecomes
  <2>3. FileTypes'
    BY <1>0, <2>1 DEF FileTypes
  <2> QED BY <1>a, <1>f, <2>1, <2>2, <2>3
<1>15. ASSUME NEW r \in Request, NEW stops \in BOOLEAN, R!Fail(r, stops)
       PROVE  FileTypes' /\ FileCalls' /\ RemovedIsGone'
  <2>1. UNCHANGED <<upload, receipt, stored, fresh, indexed>>
    BY <1>15 DEF R!Fail, R!files
  <2>2. CASE R!Finish(r)
    <3>1. FileCalls' /\ fileReq'[r] = R!Idle /\ \A p \in Request \ {r} : fileReq'[p] = fileReq[p]
      BY <1>0, <2>2, OneFinishes
    <3> QED BY <1>0, <1>f, <1>i, <2>1, <3>1 DEF FileTypes
  <2>3. CASE fileReq[r].step \in {"object", "row"} /\ R!Become(r, R!After(fileReq[r]))
    <3>1. FileCalls' /\ fileReq'[r] = R!After(fileReq[r]) /\ \A p \in Request \ {r} : fileReq'[p] = fileReq[p]
      BY <1>0, <1>a, <2>3, OneBecomes
    <3> QED BY <1>0, <1>a, <1>f, <2>1, <2>3, <3>1 DEF FileTypes
  <2> QED BY <1>15, <2>2, <2>3 DEF R!Fail, R!Finish
<1> QED
  BY <1>1, <1>2, <1>3, <1>4, <1>5, <1>6, <1>7, <1>8, <1>9, <1>10, <1>11, <1>12, <1>13, <1>14, <1>15
     DEF R!Next

-----------------------------------------------------------------------------
(* Receipts: every step is sound *)

\* A step of one request that leaves the files and the receipts alone.
LEMMA QuietSound ==
    ASSUME R!ReceiptsAssumption, FilesInv, NEW r \in Request,
           UNCHANGED <<stored, upload, fresh, receipt, littered>>, severed \subseteq severed',
           \A p \in Request \ {r} : fileReq'[p] = fileReq[p],
           fileReq[r].op = "remove" =>
             receipt[fileReq[r].expense] # fileReq[r].key \/
             (fileReq'[r].op = "remove" /\ fileReq'[r].expense = fileReq[r].expense /\ fileReq'[r].key = fileReq[r].key),
           \A k \in FileKey : R!Bound(fileReq'[r], k) =>
             \/ R!Bound(fileReq[r], k) /\ fileReq[r].step # "write"
             \/ \A x \in R!Users(k) : FileExcused(x, k)' \/ Rewriting(r, x)',
           fileReq[r].step \notin {"claim", "insert", "row"}, fileReq'[r].step \notin {"insert", "row"},
           \A k \in FileKey : fileReq'[r].key = k \/ fileReq'[r].old = k \/ k \in fileReq'[r].list => Known(k),
           \A k \in FileKey : fileReq'[r].step = "write" /\ fileReq'[r].old = k => Named(k)
    PROVE  Sound
<1>1. /\ R!Uploaded' = R!Uploaded /\ R!Expenses' = R!Expenses
      /\ \A k \in FileKey : R!Users(k)' = R!Users(k) /\ Temporary(k)' = Temporary(k)
  BY DEF R!Uploaded, R!Expenses, R!Users, Temporary
<1>2. ExcusesStay
  BY <1>1 DEF ExcusesStay, FileExcused, R!Users
<1>3. NamesAreKept
  BY <1>1 DEF NamesAreKept
<1>4. BoundsAreExcused
  BY <1>1 DEF BoundsAreExcused, Rewriting
<1>5. DeletesAreBound
  BY DEF DeletesAreBound
<1>6. \A k \in FileKey : Safe(k) => Safe(k)'
  BY DEF Safe, R!Claiming
<1>7. \A k \in FileKey : Named(k)' => Named(k)
  BY <1>1 DEF Named
<1>8. ClaimsStay
  BY <1>1, <1>6, <1>7 DEF ClaimsStay
<1>9. \A k \in FileKey : Known(k)' => Known(k)
  BY <1>1 DEF Known
<1>10. KeysComeFromUploads
  BY <1>9 DEF KeysComeFromUploads, Inserts
<1>11. RowsFollowObjects
  BY <1>1 DEF RowsFollowObjects
<1> QED BY <1>2, <1>3, <1>4, <1>5, <1>8, <1>10, <1>11 DEF Sound

LEMMA FilesStepSound ==
    ASSUME R!ReceiptsAssumption, FilesInv, [R!Next]_(R!vars)
    PROVE  Sound
<1>0. /\ FileTypes /\ FileCalls /\ FileTypes' /\ FileCalls' /\ FreshIsNew /\ InsertIsNew
      /\ ObjectIsGone /\ RemovedIsGone /\ SharedIsSevered /\ NamedIsClaimed
  BY FileTypesStep DEF FilesInv
<1>n. /\ None \notin FileRow /\ None \notin FileKey /\ None # "none" /\ "none" \notin FileKey
      /\ None \notin Expense
  BY FileNones
<1>i. /\ R!Idle.op = "idle" /\ R!Idle.step = "done" /\ R!Idle.expense = None /\ R!Idle.key = "none"
      /\ R!Idle.old = "none" /\ R!Idle.list = {}
  BY DEF R!Idle
<1>t. \A r \in Request : fileReq[r] \in FileCall /\ Equipped(fileReq[r])
  BY <1>0 DEF FileCalls
\* The receipts stay, and no request does more than one step.
<1>b. ASSUME NEW r \in Request, NEW q, R!Become(r, q)
      PROVE  fileReq'[r] = q /\ \A p \in Request \ {r} : fileReq'[p] = fileReq[p]
  BY <1>0, <1>b DEF R!Become, FileCalls
<1>1. ASSUME NEW r \in Request, NEW k \in FileKey, R!Put(r, k)
      PROVE  Sound
  <2>1. /\ UNCHANGED <<upload, receipt, severed, littered>> /\ k \in fresh /\ fresh' = fresh \ {k}
        /\ stored' = stored \cup {k} /\ fileReq[r] = R!Idle
        /\ R!Become(r, [R!Idle EXCEPT !.op = "upload", !.step = "insert", !.key = k])
    BY <1>1 DEF R!Put, R!Begin
  <2>2. /\ \A p \in Request \ {r} : fileReq'[p] = fileReq[p]
        /\ fileReq'[r].op = "upload" /\ fileReq'[r].step = "insert" /\ fileReq'[r].key = k /\ fileReq'[r].old = "none"
        /\ fileReq'[r].list = {}
    <3>1. /\ fileReq'[r] = [R!Idle EXCEPT !.op = "upload", !.step = "insert", !.key = k]
          /\ \A p \in Request \ {r} : fileReq'[p] = fileReq[p]
      BY <1>b, <2>1
    <3> QED BY <3>1 DEF R!Idle
  <2>3. /\ R!Uploaded' = R!Uploaded /\ R!Expenses' = R!Expenses
        /\ \A j \in FileKey : R!Users(j)' = R!Users(j) /\ (Temporary(j)' <=> Temporary(j))
    BY <2>1 DEF R!Uploaded, R!Expenses, R!Users, Temporary
  <2>4. ExcusesStay /\ NamesAreKept /\ DeletesAreBound
    BY <1>i, <2>1, <2>2, <2>3 DEF ExcusesStay, FileExcused, NamesAreKept, DeletesAreBound
  <2>5. BoundsAreExcused
    BY <1>i, <2>1, <2>2, <2>3 DEF BoundsAreExcused, R!Bound, Rewriting
  <2>6. ClaimsStay
    BY <1>i, <2>1, <2>2, <2>3 DEF ClaimsStay, Safe, Named, R!Claiming
  <2>7. \A j \in FileKey : Known(j)' => Known(j)
    BY <1>n, <2>1, <2>2, <2>3 DEF Known
  <2>8. \A p \in Request, j \in FileKey : Inserts(p, j)' => Inserts(p, j) \/ (p = r /\ j = k)
    BY <2>2 DEF Inserts
  <2>9. KeysComeFromUploads
    BY <1>0, <2>1, <2>7, <2>8 DEF KeysComeFromUploads, FreshIsNew
  <2>10. RowsFollowObjects
    BY <1>i, <2>1, <2>2, <2>3 DEF RowsFollowObjects
  <2> QED BY <2>4, <2>5, <2>6, <2>9, <2>10 DEF Sound
<1>2. ASSUME NEW r \in Request, R!PutRow(r)
      PROVE  Sound
  <2>k. fileReq[r].key \in FileKey
    BY <1>2, <1>t DEF R!PutRow, R!In, Equipped
  <2> SUFFICES ASSUME NEW k \in FileKey, k = fileReq[r].key PROVE Sound
    BY <2>k
  <2>1. /\ UNCHANGED <<stored, fresh, receipt, severed, littered>> /\ R!Finish(r)
        /\ upload' = [upload EXCEPT ![k] = [temporary |-> TRUE, expired |-> FALSE]]
        /\ fileReq[r].op = "upload" /\ fileReq[r].step = "insert"
    BY <1>2 DEF R!PutRow, R!In
  <2>2. fileReq'[r] = R!Idle /\ \A p \in Request \ {r} : fileReq'[p] = fileReq[p]
    BY <1>b, <2>1 DEF R!Finish
  <2>3. k \in FileKey /\ Inserts(r, k)
    BY <2>1 DEF Inserts
  <2>4. /\ k \in stored /\ ~Known(k) /\ k \notin fresh /\ \A q \in Request : Inserts(q, k) => q = r
    BY <1>0, <2>3 DEF InsertIsNew, FreshIsNew
  <2>5. /\ R!Uploaded' = R!Uploaded \cup {k} /\ R!Expenses' = R!Expenses
        /\ \A j \in FileKey : R!Users(j)' = R!Users(j)
        /\ \A j \in FileKey \ {k} : Temporary(j)' <=> Temporary(j)
    <3>1. [temporary |-> TRUE, expired |-> FALSE] \in FileRow
      BY DEF FileRow
    <3>2. \A j \in FileKey : upload'[j] = IF j = k THEN [temporary |-> TRUE, expired |-> FALSE] ELSE upload[j]
      BY <1>0, <2>1, <2>3 DEF FileTypes
    <3>3. R!Uploaded' = R!Uploaded \cup {k}
      BY <1>n, <2>3, <3>1, <3>2 DEF R!Uploaded
    <3>4. R!Expenses' = R!Expenses /\ \A j \in FileKey : R!Users(j)' = R!Users(j)
      BY <2>1 DEF R!Expenses, R!Users
    <3>5. \A j \in FileKey \ {k} : Temporary(j)' <=> Temporary(j)
      BY <3>2, <3>3 DEF Temporary
    <3> QED BY <3>3, <3>4, <3>5
  <2>6. ExcusesStay /\ NamesAreKept /\ DeletesAreBound
    BY <1>i, <2>1, <2>2, <2>5 DEF ExcusesStay, FileExcused, NamesAreKept, DeletesAreBound
  <2>7. BoundsAreExcused
    BY <1>i, <1>n, <2>1, <2>2, <2>5 DEF BoundsAreExcused, R!Bound, Rewriting
  <2>8. ~Named(k)'
    BY <1>i, <1>n, <2>2, <2>3, <2>4, <2>5 DEF Named, Known
  <2>9. \A j \in FileKey : Safe(j) => Safe(j)'
    BY <1>i, <2>1, <2>2 DEF Safe, R!Claiming
  <2>10. \A j \in FileKey : Named(j)' => Named(j)
    BY <1>i, <2>2, <2>5 DEF Named
  <2>11. ClaimsStay
    BY <2>5, <2>8, <2>9, <2>10 DEF ClaimsStay
  <2>12. \A j \in FileKey : Known(j)' => Known(j) \/ j = k
    BY <1>i, <1>n, <2>2, <2>5 DEF Known
  <2>13. \A p \in Request, j \in FileKey : Inserts(p, j)' => Inserts(p, j) /\ p # r
    BY <1>i, <2>2 DEF Inserts
  <2>14. KeysComeFromUploads
    BY <2>1, <2>4, <2>12, <2>13 DEF KeysComeFromUploads
  <2>15. k \in stored' /\ k \in R!Uploaded'
    BY <2>1, <2>4, <2>5
  <2>17. RowsFollowObjects
    BY <1>i, <2>1, <2>2, <2>5, <2>15 DEF RowsFollowObjects
  <2> QED BY <2>6, <2>7, <2>11, <2>14, <2>17 DEF Sound
<1>3. ASSUME NEW k \in FileKey, R!Expires(k)
      PROVE  Sound
  <2>1. /\ UNCHANGED <<stored, fresh, receipt, severed, littered, fileReq>>
        /\ upload' = [upload EXCEPT ![k] = [upload[k] EXCEPT !.expired = TRUE]] /\ upload[k] # None
    BY <1>3 DEF R!Expires, R!Uploaded
  <2> DEFINE new == [upload[k] EXCEPT !.expired = TRUE]
  <2>a. upload[k] \in FileRow
    BY <1>0, <2>1 DEF FileTypes
  <2>2. new \in FileRow /\ (new.temporary <=> upload[k].temporary)
    BY <2>a DEF FileRow
  <2> HIDE DEF new
  <2>3. \A j \in FileKey : upload'[j] = IF j = k THEN new ELSE upload[j]
    BY <1>0, <2>1 DEF FileTypes, new
  <2>b. R!Uploaded' = R!Uploaded
    BY <1>n, <2>1, <2>2, <2>3 DEF R!Uploaded
  <2>4. /\ R!Uploaded' = R!Uploaded /\ R!Expenses' = R!Expenses
        /\ \A j \in FileKey : R!Users(j)' = R!Users(j) /\ (Temporary(j)' => Temporary(j))
    BY <2>1, <2>2, <2>3, <2>b DEF R!Expenses, R!Users, Temporary
  <2>5. ExcusesStay /\ NamesAreKept /\ BoundsAreExcused /\ DeletesAreBound
    BY <2>1, <2>4 DEF ExcusesStay, FileExcused, NamesAreKept, BoundsAreExcused, DeletesAreBound, Rewriting
  <2>6. ClaimsStay
    BY <2>1, <2>4 DEF ClaimsStay, Safe, Named, R!Claiming
  <2>7. KeysComeFromUploads
    BY <2>1, <2>4 DEF KeysComeFromUploads, Known, Inserts
  <2>8. RowsFollowObjects
    BY <2>1, <2>4 DEF RowsFollowObjects
  <2> QED BY <2>5, <2>6, <2>7, <2>8 DEF Sound
<1>4. CASE UNCHANGED R!vars
  <2>1. UNCHANGED <<stored, fresh, upload, receipt, severed, littered, fileReq>>
    BY <1>4 DEF R!vars, R!files
  <2>2. /\ R!Uploaded' = R!Uploaded /\ R!Expenses' = R!Expenses
        /\ \A j \in FileKey : R!Users(j)' = R!Users(j) /\ (Temporary(j)' <=> Temporary(j))
    BY <2>1 DEF R!Uploaded, R!Expenses, R!Users, Temporary
  <2>3. ExcusesStay /\ NamesAreKept /\ BoundsAreExcused /\ DeletesAreBound
    BY <2>1, <2>2 DEF ExcusesStay, FileExcused, NamesAreKept, BoundsAreExcused, DeletesAreBound, Rewriting
  <2>4. ClaimsStay
    BY <2>1, <2>2 DEF ClaimsStay, Safe, Named, R!Claiming
  <2>5. KeysComeFromUploads
    BY <2>1, <2>2 DEF KeysComeFromUploads, Known, Inserts
  <2>6. RowsFollowObjects
    BY <2>1, <2>2 DEF RowsFollowObjects
  <2> QED BY <2>3, <2>4, <2>5, <2>6 DEF Sound
<1>5. ASSUME NEW r \in Request, R!Index(r)
      PROVE  Sound
  <2>1. /\ UNCHANGED <<stored, fresh, upload, receipt, severed, littered>> /\ fileReq[r].step = "index"
        /\ R!Finish(r)
    BY <1>5 DEF R!Index, R!files
  <2>2. fileReq'[r] = R!Idle /\ \A p \in Request \ {r} : fileReq'[p] = fileReq[p]
    BY <1>b, <2>1 DEF R!Finish
  <2>3. fileReq[r].op = "remove" => receipt[fileReq[r].expense] # fileReq[r].key
    BY <1>0, <1>n, <1>t, <2>1 DEF RemovedIsGone, FileCall
  <2>4. \A k \in FileKey : ~R!Bound(fileReq'[r], k)
    BY <1>i, <2>2 DEF R!Bound
  <2> QED BY <1>i, <1>n, <2>1, <2>2, <2>3, <2>4, QuietSound
<1>6. ASSUME NEW r \in Request, NEW x \in Expense, NEW k \in FileKey \cup {"none"}, R!UpdateRead(r, x, k)
      PROVE  Sound
  <2>1. /\ UNCHANGED <<stored, fresh, upload, receipt, severed, littered>> /\ fileReq[r] = R!Idle
        /\ R!Become(r, [R!Idle EXCEPT !.op = "update", !.step = "write", !.expense = x, !.key = k,
                                      !.old = receipt[x]])
        /\ k \in R!Uploaded \cup {"none"} /\ x \in R!Expenses
    BY <1>6 DEF R!UpdateRead, R!Begin, R!files
  <2>2. /\ \A p \in Request \ {r} : fileReq'[p] = fileReq[p]
        /\ fileReq'[r].op = "update" /\ fileReq'[r].step = "write" /\ fileReq'[r].expense = x
        /\ fileReq'[r].key = k /\ fileReq'[r].old = receipt[x] /\ fileReq'[r].list = {}
    <3>1. /\ fileReq'[r] = [R!Idle EXCEPT !.op = "update", !.step = "write", !.expense = x, !.key = k,
                              !.old = receipt[x]]
          /\ \A p \in Request \ {r} : fileReq'[p] = fileReq[p]
      BY <1>b, <2>1
    <3> QED BY <3>1 DEF R!Idle
  <2>3. \A j \in FileKey : receipt[x] = j => x \in R!Users(j)
    BY <2>1 DEF R!Users
  <2>4. ASSUME NEW j \in FileKey, R!Bound(fileReq'[r], j), NEW y \in R!Users(j)
        PROVE  FileExcused(y, j)' \/ Rewriting(r, y)'
    <3>1. x \in R!Users(j)
      BY <2>2, <2>3, <2>4 DEF R!Bound
    <3> QED BY <1>0, <2>1, <2>2, <3>1 DEF SharedIsSevered, FileExcused, Rewriting
  <2> QED BY <1>i, <1>n, <2>1, <2>2, <2>3, <2>4, QuietSound DEF Known, Named
<1>7. ASSUME NEW r \in Request, NEW x \in Expense, R!RemoveRead(r, x)
      PROVE  Sound
  <2>1. /\ UNCHANGED <<stored, fresh, upload, receipt, severed, littered>> /\ fileReq[r] = R!Idle
        /\ R!Become(r, [R!Idle EXCEPT !.op = "remove", !.expense = x, !.key = receipt[x],
                                      !.step = IF receipt[x] = "none" THEN "delete" ELSE "object"])
        /\ x \in R!Expenses
    BY <1>7 DEF R!RemoveRead, R!Begin, R!files
  <2>2. /\ \A p \in Request \ {r} : fileReq'[p] = fileReq[p]
        /\ fileReq'[r].op = "remove" /\ fileReq'[r].step \in {"delete", "object"} /\ fileReq'[r].expense = x
        /\ fileReq'[r].key = receipt[x] /\ fileReq'[r].old = "none" /\ fileReq'[r].list = {}
    <3>1. /\ fileReq'[r] = [R!Idle EXCEPT !.op = "remove", !.expense = x, !.key = receipt[x],
                              !.step = IF receipt[x] = "none" THEN "delete" ELSE "object"]
          /\ \A p \in Request \ {r} : fileReq'[p] = fileReq[p]
      BY <1>b, <2>1
    <3> QED BY <3>1 DEF R!Idle
  <2>3. \A j \in FileKey : receipt[x] = j => x \in R!Users(j)
    BY <2>1 DEF R!Users
  <2>4. ASSUME NEW j \in FileKey, R!Bound(fileReq'[r], j), NEW y \in R!Users(j)
        PROVE  FileExcused(y, j)' \/ Rewriting(r, y)'
    <3>1. x \in R!Users(j) /\ receipt[x] = j
      BY <2>2, <2>3, <2>4 DEF R!Bound
    <3> QED BY <1>0, <2>1, <2>2, <3>1 DEF SharedIsSevered, FileExcused
  <2> QED BY <1>i, <1>n, <2>1, <2>2, <2>3, <2>4, QuietSound DEF Known
<1>8. ASSUME NEW r \in Request, NEW k \in FileKey, R!DeleteRead(r, k)
      PROVE  Sound
  <2>1. /\ UNCHANGED <<stored, fresh, upload, receipt, littered>> /\ fileReq[r] = R!Idle
        /\ R!Become(r, [R!Idle EXCEPT !.op = "delete", !.step = "object", !.key = k])
        /\ k \in R!Uploaded /\ severed \subseteq severed' /\ (R!Users(k) # {} => k \in severed')
    BY <1>8 DEF R!DeleteRead, R!Begin, R!files
  <2>2. /\ \A p \in Request \ {r} : fileReq'[p] = fileReq[p]
        /\ fileReq'[r].op = "delete" /\ fileReq'[r].step = "object" /\ fileReq'[r].key = k
        /\ fileReq'[r].old = "none" /\ fileReq'[r].list = {}
    <3>1. /\ fileReq'[r] = [R!Idle EXCEPT !.op = "delete", !.step = "object", !.key = k]
          /\ \A p \in Request \ {r} : fileReq'[p] = fileReq[p]
      BY <1>b, <2>1
    <3> QED BY <3>1 DEF R!Idle
  <2>3. ASSUME NEW j \in FileKey, R!Bound(fileReq'[r], j), NEW y \in R!Users(j)
        PROVE  FileExcused(y, j)' \/ Rewriting(r, y)'
    <3>1. j = k
      BY <2>2, <2>3 DEF R!Bound
    <3> QED BY <2>1, <2>3, <3>1 DEF FileExcused
  <2> QED BY <1>i, <1>n, <2>1, <2>2, <2>3, QuietSound DEF Known
<1>9. ASSUME NEW r \in Request, R!SweepSelect(r)
      PROVE  Sound
  <2> DEFINE list == {k \in R!Uploaded : upload[k].temporary /\ upload[k].expired}
  <2>1. /\ UNCHANGED <<stored, fresh, upload, receipt, littered>> /\ fileReq[r] = R!Idle
        /\ R!Become(r, [R!Idle EXCEPT !.op = "sweep", !.step = "next", !.list = list])
        /\ severed' = severed \cup {k \in list : R!Claiming(k) # {}}
    BY <1>9 DEF R!SweepSelect, R!Begin, R!files
  <2>2. \A k \in list : k \in R!Uploaded /\ k \in FileKey /\ Temporary(k)
    BY DEF Temporary, R!Uploaded
  <2> HIDE DEF list
  <2>3. /\ \A p \in Request \ {r} : fileReq'[p] = fileReq[p]
        /\ fileReq'[r].op = "sweep" /\ fileReq'[r].step = "next" /\ fileReq'[r].key = "none"
        /\ fileReq'[r].old = "none" /\ fileReq'[r].list = list
    <3>1. /\ fileReq'[r] = [R!Idle EXCEPT !.op = "sweep", !.step = "next", !.list = list]
          /\ \A p \in Request \ {r} : fileReq'[p] = fileReq[p]
      BY <1>b, <2>1
    <3> QED BY <3>1 DEF R!Idle
  <2>4. ASSUME NEW j \in FileKey, R!Bound(fileReq'[r], j), NEW y \in R!Users(j)
        PROVE  FileExcused(y, j)' \/ Rewriting(r, y)'
    <3>1. j \in list
      BY <2>3, <2>4 DEF R!Bound
    <3>2. Safe(j)
      BY <1>0, <2>2, <3>1 DEF NamedIsClaimed, Named
    <3> QED BY <2>1, <3>1, <3>2 DEF FileExcused, Safe
  <2> QED BY <1>i, <1>n, <2>1, <2>2, <2>3, <2>4, QuietSound DEF Known
<1>10. ASSUME NEW r \in Request, R!SweepNext(r)
       PROVE  Sound
  <2>1. /\ UNCHANGED <<stored, fresh, upload, receipt, severed, littered>>
        /\ fileReq[r].op = "sweep" /\ fileReq[r].step = "next"
    BY <1>10 DEF R!SweepNext, R!In, R!files
  <2>2. CASE R!Finish(r)
    <3>1. fileReq'[r] = R!Idle /\ \A p \in Request \ {r} : fileReq'[p] = fileReq[p]
      BY <1>b, <2>2 DEF R!Finish
    <3>2. \A k \in FileKey : ~R!Bound(fileReq'[r], k)
      BY <1>i, <3>1 DEF R!Bound
    <3> QED BY <1>i, <1>n, <2>1, <3>1, <3>2, QuietSound
  <2>3. ASSUME NEW k \in fileReq[r].list,
               R!Become(r, [fileReq[r] EXCEPT !.step = "object", !.key = k, !.list = @ \ {k}])
        PROVE  Sound
    <3>1. /\ \A p \in Request \ {r} : fileReq'[p] = fileReq[p]
          /\ fileReq'[r].step = "object" /\ fileReq'[r].key = k /\ fileReq'[r].list = fileReq[r].list \ {k}
          /\ fileReq'[r].old = fileReq[r].old /\ fileReq'[r].op = "sweep"
      <4>1. /\ fileReq'[r] = [fileReq[r] EXCEPT !.step = "object", !.key = k, !.list = fileReq[r].list \ {k}]
            /\ \A p \in Request \ {r} : fileReq'[p] = fileReq[p]
        BY <1>b, <2>3
      <4>2. fileReq[r] \in FileCall
        BY <1>t
      <4> QED BY <2>1, <4>1, <4>2 DEF FileCall
    <3>2. \A j \in FileKey : R!Bound(fileReq'[r], j) => R!Bound(fileReq[r], j)
      BY <3>1 DEF R!Bound
    <3>3. \A j \in FileKey : fileReq'[r].key = j \/ fileReq'[r].old = j \/ j \in fileReq'[r].list => Known(j)
      BY <3>1 DEF Known
    <3> QED BY <2>1, <3>1, <3>2, <3>3, QuietSound
  <2> QED BY <1>10, <2>2, <2>3 DEF R!SweepNext
<1>11. ASSUME NEW r \in Request, NEW x \in Expense, NEW k \in FileKey \cup {"none"}, R!Create(r, x, k)
       PROVE  Sound
  <2>1. /\ UNCHANGED <<stored, fresh, upload, littered>> /\ fileReq[r] = R!Idle
        /\ k \in R!Uploaded \cup {"none"} /\ receipt[x] = None
        /\ receipt' = [receipt EXCEPT ![x] = k] /\ severed \subseteq severed'
        /\ k \in severed' \/ (R!Users(k) = {} /\ ~R!Doomed(k) /\ k \in stored)
        /\ R!Become(r, [R!Idle EXCEPT !.op = "create", !.step = IF k = "none" THEN "index" ELSE "claim",
                                      !.expense = x, !.key = k])
    BY <1>11 DEF R!Create, R!Begin, R!files, R!Expenses
  <2>2. /\ \A p \in Request \ {r} : fileReq'[p] = fileReq[p]
        /\ fileReq'[r].op = "create" /\ fileReq'[r].step = IF k = "none" THEN "index" ELSE "claim"
        /\ fileReq'[r].key = k /\ fileReq'[r].old = "none" /\ fileReq'[r].list = {}
    <3>1. /\ fileReq'[r] = [R!Idle EXCEPT !.op = "create", !.step = IF k = "none" THEN "index" ELSE "claim",
                                          !.expense = x, !.key = k]
          /\ \A p \in Request \ {r} : fileReq'[p] = fileReq[p]
      BY <1>b, <2>1
    <3> QED BY <3>1 DEF R!Idle
  <2>3. /\ R!Uploaded' = R!Uploaded
        /\ \A j \in FileKey : /\ R!Users(j)' = R!Users(j) \cup (IF j = k THEN {x} ELSE {})
                              /\ (Temporary(j)' <=> Temporary(j))
    BY <1>0, <1>n, <2>1 DEF R!Uploaded, R!Expenses, R!Users, Temporary, FileTypes
  <2>4. ExcusesStay /\ DeletesAreBound
    BY <1>i, <2>1, <2>2 DEF ExcusesStay, FileExcused, DeletesAreBound
  <2>5. NamesAreKept
    BY <2>1, <2>3 DEF NamesAreKept
  <2>6. BoundsAreExcused
    BY <1>i, <1>n, <2>2 DEF BoundsAreExcused, R!Bound, Rewriting
  <2>7. \A j \in FileKey : Safe(j) => Safe(j)'
    BY <1>i, <2>1, <2>2 DEF Safe, R!Claiming
  <2>8. \A j \in FileKey : Named(j)' => Named(j) \/ j = k
    BY <2>2, <2>3 DEF Named
  <2>9. k \in FileKey => Safe(k)'
    BY <1>n, <2>2 DEF Safe, R!Claiming
  <2>10. ClaimsStay
    BY <2>3, <2>7, <2>8, <2>9 DEF ClaimsStay
  <2>11. \A j \in FileKey : Known(j)' => Known(j)
    BY <1>n, <2>1, <2>2, <2>3 DEF Known
  <2>12. KeysComeFromUploads
    BY <2>1, <2>2, <2>11 DEF KeysComeFromUploads, Inserts
  <2>13. RowsFollowObjects
    BY <1>i, <2>1, <2>2, <2>3 DEF RowsFollowObjects
  <2> QED BY <2>4, <2>5, <2>6, <2>10, <2>12, <2>13 DEF Sound
<1>12. ASSUME NEW r \in Request, R!Claim(r)
       PROVE  Sound
  <2>1. /\ UNCHANGED <<stored, fresh, receipt, severed, littered>> /\ fileReq[r].step = "claim"
        /\ R!Become(r, [fileReq[r] EXCEPT !.step = IF fileReq[r].old = "none" THEN "index" ELSE "object",
                                          !.key = fileReq[r].old])
    BY <1>12 DEF R!Claim
  <2>2. fileReq[r] \in FileCall /\ fileReq[r].key \in FileKey /\ fileReq[r].key # fileReq[r].old /\ fileReq[r].op # "remove"
    BY <1>t, <2>1 DEF Equipped
  <2>3. /\ \A p \in Request \ {r} : fileReq'[p] = fileReq[p]
        /\ fileReq'[r].step = IF fileReq[r].old = "none" THEN "index" ELSE "object"
        /\ fileReq'[r].key = fileReq[r].old /\ fileReq'[r].old = fileReq[r].old /\ fileReq'[r].list = fileReq[r].list
        /\ fileReq'[r].op = fileReq[r].op
    <3>1. /\ fileReq'[r] = [fileReq[r] EXCEPT !.step = IF fileReq[r].old = "none" THEN "index" ELSE "object",
                                              !.key = fileReq[r].old]
          /\ \A p \in Request \ {r} : fileReq'[p] = fileReq[p]
      BY <1>b, <2>1
    <3> QED BY <2>2, <3>1 DEF FileCall
  <2>4. /\ R!Uploaded' = R!Uploaded
        /\ \A j \in FileKey : /\ R!Users(j)' = R!Users(j)
                              /\ Temporary(j)' => Temporary(j) /\ j # fileReq[r].key
    <3> DEFINE new == [temporary |-> FALSE, expired |-> FALSE]
    <3>1. new \in FileRow /\ ~new.temporary
      BY DEF FileRow
    <3> HIDE DEF new
    <3>2. upload' = IF fileReq[r].key \in R!Uploaded THEN [upload EXCEPT ![fileReq[r].key] = new] ELSE upload
      BY <1>12 DEF R!Claim, new
    <3>3. \A j \in FileKey : upload'[j] = IF j = fileReq[r].key /\ j \in R!Uploaded THEN new ELSE upload[j]
      BY <1>0, <2>2, <3>2 DEF FileTypes
    <3>4. R!Uploaded' = R!Uploaded
      BY <1>n, <3>1, <3>3 DEF R!Uploaded
    <3>5. \A j \in FileKey : Temporary(j)' => Temporary(j) /\ j # fileReq[r].key
      BY <3>1, <3>3, <3>4 DEF Temporary
    <3>6. \A j \in FileKey : R!Users(j)' = R!Users(j)
      BY <2>1 DEF R!Users, R!Expenses
    <3> QED BY <3>4, <3>5, <3>6
  <2>5. ExcusesStay /\ NamesAreKept /\ DeletesAreBound
    BY <2>1, <2>2, <2>3, <2>4 DEF ExcusesStay, FileExcused, NamesAreKept, DeletesAreBound
  <2>6. \A j \in FileKey : R!Bound(fileReq'[r], j) => R!Bound(fileReq[r], j)
    BY <1>n, <2>1, <2>2, <2>3 DEF R!Bound
  <2>7. BoundsAreExcused
    BY <2>1, <2>3, <2>6 DEF BoundsAreExcused, Rewriting
  <2>8. \A j \in FileKey : Safe(j) /\ j # fileReq[r].key => Safe(j)'
    BY <2>1, <2>3 DEF Safe, R!Claiming
  <2>9. \A j \in FileKey : Named(j)' => Named(j)
    BY <2>3, <2>4 DEF Named
  <2>10. ClaimsStay
    BY <2>4, <2>8, <2>9 DEF ClaimsStay
  <2>11. \A j \in FileKey : Known(j)' => Known(j)
    BY <2>1, <2>3, <2>4 DEF Known
  <2>12. KeysComeFromUploads
    BY <2>1, <2>3, <2>11 DEF KeysComeFromUploads, Inserts
  <2>13. RowsFollowObjects
    BY <2>1, <2>3, <2>4 DEF RowsFollowObjects
  <2> QED BY <2>5, <2>7, <2>10, <2>12, <2>13 DEF Sound
<1>13. ASSUME NEW r \in Request, R!UpdateWrite(r)
       PROVE  Sound
  <2>k. fileReq[r].op = "update" /\ fileReq[r].step = "write"
    BY <1>13 DEF R!UpdateWrite, R!In
  <2>e. fileReq[r] \in FileCall /\ fileReq[r].expense \in Expense /\ fileReq[r].list = {}
    BY <1>t, <2>k DEF Equipped
  <2> SUFFICES ASSUME NEW x \in Expense, x = fileReq[r].expense, NEW k \in FileKey \cup {"none"}, k = fileReq[r].key,
                      NEW o \in FileKey \cup {"none"}, o = fileReq[r].old
               PROVE  Sound
    BY <2>e DEF FileCall
  <2>1. CASE x \notin R!Expenses
    <3>1. UNCHANGED <<stored, fresh, upload, receipt, severed, littered>> /\ R!Finish(r)
      BY <1>13, <2>1 DEF R!UpdateWrite, R!files
    <3>2. fileReq'[r] = R!Idle /\ \A p \in Request \ {r} : fileReq'[p] = fileReq[p]
      BY <1>b, <3>1 DEF R!Finish
    <3>3. \A j \in FileKey : ~R!Bound(fileReq'[r], j)
      BY <1>i, <3>2 DEF R!Bound
    <3> QED BY <1>i, <1>n, <2>k, <3>1, <3>2, <3>3, QuietSound
  <2>2. CASE x \in R!Expenses
    <3>1. /\ UNCHANGED <<stored, fresh, upload, littered>> /\ severed \subseteq severed'
          /\ receipt' = IF k = "none" THEN receipt ELSE [receipt EXCEPT ![x] = k]
          /\ k \in severed' \/ (R!Users(k) \ {x} = {} /\ ~R!Doomed(k) /\ k \in stored)
          /\ R!Become(r, [fileReq[r] EXCEPT !.step = IF k \notin {"none", o} THEN "claim" ELSE "index"])
      BY <1>13, <2>2 DEF R!UpdateWrite, R!files
    <3>2. /\ \A p \in Request \ {r} : fileReq'[p] = fileReq[p]
          /\ fileReq'[r].step = IF k \notin {"none", o} THEN "claim" ELSE "index"
          /\ fileReq'[r].key = k /\ fileReq'[r].old = o /\ fileReq'[r].list = {} /\ fileReq'[r].op = "update"
      <4>1. /\ fileReq'[r] = [fileReq[r] EXCEPT !.step = IF k \notin {"none", o} THEN "claim" ELSE "index"]
            /\ \A p \in Request \ {r} : fileReq'[p] = fileReq[p]
        BY <1>b, <3>1
      <4> QED BY <2>k, <2>e, <4>1 DEF FileCall
    <3>3. \A j \in FileKey : ~R!Bound(fileReq'[r], j) \/ (R!Bound(fileReq[r], j) /\ j = o /\ k \in FileKey /\ k # o)
      BY <1>n, <2>k, <3>2 DEF R!Bound
    <3>4. CASE k = "none"
      <4>1. \A j \in FileKey : ~R!Bound(fileReq'[r], j)
        BY <1>n, <3>3, <3>4
      <4>2. \A j \in FileKey : j = o => Known(j)
        BY DEF Known
      <4> QED BY <1>n, <2>k, <3>1, <3>2, <3>4, <4>1, <4>2, QuietSound
    <3>5. CASE k \in FileKey
      <4>1. \A y \in Expense : receipt'[y] = IF y = x THEN k ELSE receipt[y]
        BY <1>0, <1>n, <3>1, <3>5 DEF FileTypes
      <4>2. /\ R!Uploaded' = R!Uploaded
            /\ \A j \in FileKey : /\ R!Users(j)' = IF j = k THEN R!Users(j) \cup {x} ELSE R!Users(j) \ {x}
                                  /\ (Temporary(j)' <=> Temporary(j))
        BY <1>n, <3>1, <4>1 DEF R!Uploaded, R!Expenses, R!Users, Temporary
      <4>3. ExcusesStay /\ DeletesAreBound
        BY <2>k, <3>1, <3>2 DEF ExcusesStay, FileExcused, DeletesAreBound
      <4>4. NamesAreKept
        BY <3>1, <4>2 DEF NamesAreKept
      <4>5. BoundsAreExcused
        <5> SUFFICES ASSUME NEW p \in Request, NEW j \in FileKey, R!Bound(fileReq'[p], j)
                     PROVE  /\ R!Bound(fileReq[p], j)
                            /\ \A y \in R!Users(j)' : Rewriting(p, y) => Rewriting(p, y)'
          BY DEF BoundsAreExcused
        <5>1. CASE p = r
          BY <3>3, <4>2, <5>1 DEF Rewriting
        <5>2. CASE p # r
          BY <3>2, <5>2 DEF Rewriting
        <5> QED BY <5>1, <5>2
      <4>6. \A j \in FileKey : Safe(j) => Safe(j)'
        BY <2>k, <3>1, <3>2 DEF Safe, R!Claiming
      <4>7. \A j \in FileKey : Named(j)' => Named(j) \/ j = k
        BY <3>2, <4>2 DEF Named
      <4>8. Named(k) \/ Safe(k)'
        <5>1. CASE k = o
          BY <2>k, <5>1 DEF Named
        <5>2. CASE k # o
          BY <1>n, <3>2, <3>5, <5>2 DEF Safe, R!Claiming
        <5> QED BY <5>1, <5>2
      <4>9. ClaimsStay
        BY <4>2, <4>6, <4>7, <4>8 DEF ClaimsStay
      <4>10. \A j \in FileKey : Known(j)' => Known(j)
        BY <2>k, <3>2, <4>2 DEF Known
      <4>11. KeysComeFromUploads
        BY <3>1, <3>2, <4>10 DEF KeysComeFromUploads, Inserts
      <4>12. RowsFollowObjects
        BY <2>k, <3>1, <3>2, <4>2 DEF RowsFollowObjects
      <4> QED BY <4>3, <4>4, <4>5, <4>9, <4>11, <4>12 DEF Sound
    <3> QED BY <3>4, <3>5
  <2> QED BY <2>1, <2>2
<1>14. ASSUME NEW r \in Request, R!RemoveDelete(r)
       PROVE  Sound
  <2>1. /\ UNCHANGED <<stored, fresh, upload, severed, littered>>
        /\ fileReq[r].op = "remove" /\ fileReq[r].step = "delete"
    BY <1>14 DEF R!RemoveDelete, R!In, R!files
  <2>2. fileReq[r] \in FileCall /\ fileReq[r].expense \in Expense /\ fileReq[r].list = {}
    BY <1>t, <2>1 DEF Equipped
  <2>3. CASE fileReq[r].expense \notin R!Expenses
    <3>1. UNCHANGED receipt /\ R!Finish(r) /\ receipt[fileReq[r].expense] = None
      BY <1>14, <2>2, <2>3 DEF R!RemoveDelete, R!Expenses
    <3>2. fileReq'[r] = R!Idle /\ \A p \in Request \ {r} : fileReq'[p] = fileReq[p]
      BY <1>b, <3>1 DEF R!Finish
    <3>3. /\ \A j \in FileKey : ~R!Bound(fileReq'[r], j)
          /\ receipt[fileReq[r].expense] # fileReq[r].key
      BY <1>i, <1>n, <2>2, <3>1, <3>2 DEF R!Bound, FileCall
    <3> QED BY <1>i, <1>n, <2>1, <3>1, <3>2, <3>3, QuietSound
  <2>4. CASE fileReq[r].expense \in R!Expenses
    <3>1. /\ receipt' = [receipt EXCEPT ![fileReq[r].expense] = None]
          /\ R!Become(r, [fileReq[r] EXCEPT !.step = "index"])
      BY <1>14, <2>4 DEF R!RemoveDelete
    <3>2. /\ \A p \in Request \ {r} : fileReq'[p] = fileReq[p]
          /\ fileReq'[r].step = "index" /\ fileReq'[r].op = fileReq[r].op /\ fileReq'[r].expense = fileReq[r].expense
          /\ fileReq'[r].key = fileReq[r].key /\ fileReq'[r].old = fileReq[r].old /\ fileReq'[r].list = {}
      <4>1. /\ fileReq'[r] = [fileReq[r] EXCEPT !.step = "index"]
            /\ \A p \in Request \ {r} : fileReq'[p] = fileReq[p]
        BY <1>b, <3>1
      <4> QED BY <2>2, <4>1 DEF FileCall
    <3>3. /\ R!Uploaded' = R!Uploaded
          /\ \A j \in FileKey : /\ R!Users(j)' \subseteq R!Users(j)
                                /\ (Temporary(j)' <=> Temporary(j))
      BY <1>0, <1>n, <2>1, <2>2, <3>1 DEF R!Uploaded, R!Expenses, R!Users, Temporary, FileTypes
    <3>4. ExcusesStay /\ NamesAreKept /\ DeletesAreBound
      BY <2>1, <3>2, <3>3 DEF ExcusesStay, FileExcused, NamesAreKept, DeletesAreBound
    <3>5. BoundsAreExcused
      BY <3>2 DEF BoundsAreExcused, R!Bound, Rewriting
    <3>6. ClaimsStay
      BY <2>1, <3>2, <3>3 DEF ClaimsStay, Safe, Named, R!Claiming
    <3>7. \A j \in FileKey : Known(j)' => Known(j)
      BY <2>1, <3>2, <3>3 DEF Known
    <3>8. KeysComeFromUploads
      BY <2>1, <3>2, <3>7 DEF KeysComeFromUploads, Inserts
    <3>9. RowsFollowObjects
      BY <2>1, <3>2, <3>3 DEF RowsFollowObjects
    <3> QED BY <3>4, <3>5, <3>6, <3>8, <3>9 DEF Sound
  <2> QED BY <2>3, <2>4
<1>15. ASSUME NEW r \in Request, R!DeleteObject(r)
       PROVE  Sound
  <2>1. /\ UNCHANGED <<upload, fresh, receipt, severed, littered>> /\ fileReq[r].step = "object"
        /\ stored' = stored \ {fileReq[r].key} /\ R!Become(r, [fileReq[r] EXCEPT !.step = "row"])
    BY <1>15 DEF R!DeleteObject
  <2>2. /\ \A p \in Request \ {r} : fileReq'[p] = fileReq[p]
        /\ fileReq'[r].step = "row" /\ fileReq'[r].op = fileReq[r].op /\ fileReq'[r].expense = fileReq[r].expense
        /\ fileReq'[r].key = fileReq[r].key /\ fileReq'[r].old = fileReq[r].old /\ fileReq'[r].list = fileReq[r].list
    <3>1. /\ fileReq'[r] = [fileReq[r] EXCEPT !.step = "row"]
          /\ \A p \in Request \ {r} : fileReq'[p] = fileReq[p]
      BY <1>b, <2>1
    <3>2. fileReq[r] \in FileCall
      BY <1>t
    <3> QED BY <3>1, <3>2 DEF FileCall
  <2>3. /\ R!Uploaded' = R!Uploaded
        /\ \A j \in FileKey : R!Users(j)' = R!Users(j) /\ (Temporary(j)' <=> Temporary(j))
    BY <2>1 DEF R!Uploaded, R!Expenses, R!Users, Temporary
  <2>4. ExcusesStay /\ NamesAreKept /\ DeletesAreBound
    BY <2>1, <2>2, <2>3 DEF ExcusesStay, FileExcused, NamesAreKept, DeletesAreBound
  <2>5. BoundsAreExcused
    BY <2>1, <2>2, <2>3 DEF BoundsAreExcused, R!Bound, Rewriting
  <2>6. ClaimsStay
    BY <2>1, <2>2, <2>3 DEF ClaimsStay, Safe, Named, R!Claiming
  <2>7. \A j \in FileKey : Known(j)' => Known(j)
    BY <2>1, <2>2, <2>3 DEF Known
  <2>8. KeysComeFromUploads
    BY <2>1, <2>2, <2>7 DEF KeysComeFromUploads, Inserts
  <2>9. RowsFollowObjects
    BY <2>1, <2>2, <2>3 DEF RowsFollowObjects
  <2> QED BY <2>4, <2>5, <2>6, <2>8, <2>9 DEF Sound
\* What is left of a request whose deletion is over, or that has ended.
<1>a. ASSUME NEW r \in Request, \/ fileReq'[r] = R!Idle
                                \/ fileReq[r].step \in {"object", "row"} /\ fileReq'[r] = R!After(fileReq[r])
      PROVE  /\ fileReq'[r].step \in {"done", "next", "delete", "index"}
             /\ fileReq'[r].list = {} \/ (fileReq'[r].list = fileReq[r].list /\ fileReq[r].step \in {"object", "row"})
             /\ fileReq'[r].key = "none" \/ (fileReq'[r].key = fileReq[r].key /\ fileReq[r].step \in {"object", "row"})
             /\ fileReq'[r].old \in {"none", fileReq[r].old}
             /\ fileReq'[r] # R!Idle /\ fileReq[r].op = "remove" =>
                  fileReq'[r].op = "remove" /\ fileReq'[r].expense = fileReq[r].expense /\ fileReq'[r].key = fileReq[r].key
  <2>1. fileReq[r] \in FileCall
    BY <1>t
  <2>2. CASE fileReq'[r] = R!Idle
    BY <1>i, <2>2
  <2>3. CASE fileReq[r].step \in {"object", "row"} /\ fileReq'[r] = R!After(fileReq[r])
    <3>1. CASE fileReq[r].op = "sweep"
      BY <2>1, <2>3, <3>1 DEF R!After, FileCall
    <3>2. CASE fileReq[r].op = "remove"
      BY <2>1, <2>3, <3>2 DEF R!After, FileCall
    <3>3. CASE fileReq[r].op = "update"
      BY <2>1, <2>3, <3>3 DEF R!After, FileCall
    <3>4. CASE fileReq[r].op \notin {"sweep", "remove", "update"}
      BY <1>i, <2>3, <3>4 DEF R!After
    <3> QED BY <3>1, <3>2, <3>3, <3>4
  <2> QED BY <1>a, <2>2, <2>3
<1>16. ASSUME NEW r \in Request, R!DeleteRow(r)
       PROVE  Sound
  <2>k. fileReq[r].step = "row" /\ fileReq[r].key \in FileKey /\ fileReq[r].key \notin stored
    BY <1>0, <1>16, <1>t DEF R!DeleteRow, Equipped, ObjectIsGone
  <2> SUFFICES ASSUME NEW k \in FileKey, k = fileReq[r].key PROVE Sound
    BY <2>k
  <2>1. /\ UNCHANGED <<stored, fresh, receipt, severed, littered>>
        /\ upload' = [upload EXCEPT ![k] = None] /\ R!Become(r, R!After(fileReq[r]))
    BY <1>16 DEF R!DeleteRow
  <2>2. fileReq'[r] = R!After(fileReq[r]) /\ \A p \in Request \ {r} : fileReq'[p] = fileReq[p]
    BY <1>b, <2>1
  <2>3. /\ fileReq'[r].step \in {"done", "next", "delete", "index"}
        /\ fileReq'[r].list \in {{}, fileReq[r].list} /\ fileReq'[r].key \in {"none", k}
        /\ fileReq'[r].old \in {"none", fileReq[r].old}
    BY <1>a, <2>k, <2>2
  <2>4. fileReq[r].op = "remove" =>
          fileReq'[r].op = "remove" /\ fileReq'[r].expense = fileReq[r].expense /\ fileReq'[r].key = k
    <3>1. fileReq[r] \in FileCall
      BY <1>t
    <3> QED BY <2>2, <3>1 DEF R!After, FileCall
  <2>5. /\ R!Uploaded' = R!Uploaded \ {k}
        /\ \A j \in FileKey : R!Users(j)' = R!Users(j) /\ (Temporary(j)' => Temporary(j))
    BY <1>0, <1>n, <2>1 DEF R!Uploaded, R!Expenses, R!Users, Temporary, FileTypes
  <2>6. ExcusesStay /\ NamesAreKept /\ DeletesAreBound
    BY <2>1, <2>2, <2>4, <2>5 DEF ExcusesStay, FileExcused, NamesAreKept, DeletesAreBound
  <2>7. \A j \in FileKey : R!Bound(fileReq'[r], j) => R!Bound(fileReq[r], j)
    BY <1>n, <2>3 DEF R!Bound
  <2>8. BoundsAreExcused
    BY <2>k, <2>2, <2>7 DEF BoundsAreExcused, Rewriting
  <2>9. ClaimsStay
    BY <2>k, <2>1, <2>2, <2>3, <2>5 DEF ClaimsStay, Safe, Named, R!Claiming
  <2>10. \A j \in FileKey : Known(j)' => Known(j)
    BY <1>n, <2>k, <2>2, <2>3, <2>5 DEF Known
  <2>11. KeysComeFromUploads
    BY <2>1, <2>2, <2>3, <2>10 DEF KeysComeFromUploads, Inserts
  <2>12. RowsFollowObjects
    BY <2>k, <2>1, <2>2, <2>3, <2>5 DEF RowsFollowObjects
  <2> QED BY <2>6, <2>8, <2>9, <2>11, <2>12 DEF Sound
<1>17. ASSUME NEW r \in Request, NEW stops \in BOOLEAN, R!Fail(r, stops)
       PROVE  Sound
  <2>1. /\ UNCHANGED <<stored, fresh, upload, receipt>>
        /\ severed \subseteq severed' /\ littered \subseteq littered'
        /\ fileReq[r].step \in {"insert", "object", "row"} => fileReq[r].key \in littered'
    BY <1>17 DEF R!Fail, R!files
  <2>s. fileReq[r].step = "claim" \/ fileReq[r].op = "remove" => fileReq[r].key \in severed'
    BY <1>17 DEF R!Fail
  <2>2. /\ \/ fileReq'[r] = R!Idle
           \/ fileReq[r].step \in {"object", "row"} /\ fileReq'[r] = R!After(fileReq[r])
        /\ \A p \in Request \ {r} : fileReq'[p] = fileReq[p]
    <3>1. CASE fileReq[r].step \in {"object", "row"} /\ ~stops
      BY <1>17, <1>b, <3>1 DEF R!Fail
    <3>2. CASE ~(fileReq[r].step \in {"object", "row"} /\ ~stops)
      BY <1>17, <1>b, <3>2 DEF R!Fail
    <3> QED BY <3>1, <3>2
  <2>3. /\ fileReq'[r].step \in {"done", "next", "delete", "index"}
        /\ fileReq'[r].list = {} \/ (fileReq'[r].list = fileReq[r].list /\ fileReq[r].step \in {"object", "row"})
        /\ fileReq'[r].key = "none" \/ (fileReq'[r].key = fileReq[r].key /\ fileReq[r].step \in {"object", "row"})
        /\ fileReq'[r].old \in {"none", fileReq[r].old}
    BY <1>a, <2>2
  <2>4. /\ R!Uploaded' = R!Uploaded
        /\ \A j \in FileKey : R!Users(j)' = R!Users(j) /\ (Temporary(j)' <=> Temporary(j))
    BY <2>1 DEF R!Uploaded, R!Expenses, R!Users, Temporary
  <2>5. ExcusesStay
    BY <2>1, <2>s, <2>2, <2>4 DEF ExcusesStay, FileExcused
  <2>6. NamesAreKept /\ DeletesAreBound
    BY <2>1, <2>4 DEF NamesAreKept, DeletesAreBound
  <2>7. \A j \in FileKey : R!Bound(fileReq'[r], j) => R!Bound(fileReq[r], j) /\ fileReq[r].step # "write"
    BY <1>n, <2>3 DEF R!Bound
  <2>8. BoundsAreExcused
    BY <2>2, <2>7 DEF BoundsAreExcused, Rewriting
  <2>9. \A j \in FileKey : Safe(j) => Safe(j)'
    BY <2>1, <2>s, <2>2 DEF Safe, R!Claiming
  <2>10. \A j \in FileKey : Named(j)' => Named(j)
    BY <2>2, <2>3, <2>4 DEF Named
  <2>11. ClaimsStay
    BY <2>4, <2>9, <2>10 DEF ClaimsStay
  <2>12. \A j \in FileKey : Known(j)' => Known(j)
    BY <1>n, <2>2, <2>3, <2>4 DEF Known
  <2>13. KeysComeFromUploads
    BY <2>1, <2>2, <2>3, <2>12 DEF KeysComeFromUploads, Inserts
  <2>14. RowsFollowObjects
    BY <2>1, <2>2, <2>3, <2>4 DEF RowsFollowObjects
  <2> QED BY <2>5, <2>6, <2>8, <2>11, <2>13, <2>14 DEF Sound
<1> QED
  BY <1>1, <1>2, <1>3, <1>4, <1>5, <1>6, <1>7, <1>8, <1>9, <1>10, <1>11, <1>12, <1>13, <1>14, <1>15,
     <1>16, <1>17 DEF R!Next

-----------------------------------------------------------------------------
(* Receipts: the theorems *)

LEMMA FilesStep == R!ReceiptsAssumption /\ FilesInv /\ [R!Next]_(R!vars) => FilesInv'
<1> SUFFICES ASSUME R!ReceiptsAssumption, FilesInv, [R!Next]_(R!vars) PROVE FilesInv'
  OBVIOUS
<1>1. FileTypes' /\ FileCalls' /\ RemovedIsGone'
  BY FileTypesStep
<1>2. Sound
  BY FilesStepSound
<1> QED BY <1>1, <1>2, SoundKeeps DEF FilesInv

\* The invariant holds of every behaviour of uploads, receipts and the sweep.
THEOREM FilesHold == R!Spec => []FilesInv
<1>0. R!ReceiptsAssumption
  BY OfficeAssumption
<1>1. R!Init => FilesInv
  BY <1>0, FilesStart
<1>2. FilesInv /\ [R!Next]_(R!vars) => FilesInv'
  BY <1>0, FilesStep
<1> QED BY <1>1, <1>2, PTL DEF R!Spec

\* Objects, rows and receipts are what UploadService and ExpenseService store.
THEOREM ReceiptsTypeCorrect == R!Spec => []R!TypeOK
<1>1. FilesInv => R!TypeOK
  BY DEF FilesInv, FileTypes, FileRow, R!TypeOK, R!Uploaded
<1> QED BY <1>1, FilesHold, PTL

\* The receipt an expense names is in storage, but for the reasons ReceiptIsKept
\* lists: neither an update, a removal nor the sweep deletes another's file.
THEOREM ReceiptStaysKept == R!Spec => []R!ReceiptIsKept
<1>1. FilesInv => R!ReceiptIsKept
  <2> SUFFICES ASSUME FilesInv, NEW x \in R!Expenses, receipt[x] # "none", receipt[x] \notin stored \cup severed
               PROVE  \E r \in Request : fileReq[r].op = "remove" /\ fileReq[r].expense = x
    BY DEF R!ReceiptIsKept
  <2>1. receipt[x] \in FileKey /\ x \in R!Users(receipt[x])
    BY DEF FilesInv, FileTypes, R!Expenses, R!Users
  <2> QED BY <2>1 DEF FilesInv, FileKept, FileExcused
<1> QED BY <1>1, FilesHold, PTL

\* Storage and the FileUpload rows agree, but for a request between the object
\* and the row and for requests that stopped there.
THEOREM FilesKeepRows == R!Spec => []R!FilesHaveRows
<1>1. FilesInv => R!FilesHaveRows
  BY DEF FilesInv
<1> QED BY <1>1, FilesHold, PTL

-----------------------------------------------------------------------------
(* The whole office *)

\* A step is a step of a part, or leaves the part alone.
LEMMA Parts == Spec => P!Spec /\ L!Spec /\ C!Spec /\ G!Spec /\ R!Spec
<1>1. Init => P!Init /\ L!Init /\ C!Init /\ G!Init /\ R!Init
  BY DEF Init
<1>2. [Next]_vars => /\ [P!Next]_payrollVars /\ [L!Next]_leaveVars /\ [C!Next]_crmVars
                     /\ [G!Next]_catalogVars /\ [R!Next]_fileVars
  BY DEF Next, PayrollStep, LeaveStep, CrmStep, CatalogStep, FileStep, vars
<1>3. /\ UNCHANGED payrollVars => UNCHANGED P!vars
      /\ UNCHANGED leaveVars => UNCHANGED L!vars
  BY DEF payrollVars, leaveVars, P!vars, P!staffVars, P!slipVars, P!history, L!vars
<1>4. /\ UNCHANGED crmVars => UNCHANGED C!vars
      /\ UNCHANGED catalogVars => UNCHANGED G!vars
      /\ UNCHANGED fileVars => UNCHANGED R!vars
  BY DEF crmVars, catalogVars, fileVars, C!vars, C!rows, C!history, G!vars, R!vars, R!files
<1>5. [Next]_vars => /\ [P!Next]_(P!vars) /\ [L!Next]_(L!vars) /\ [C!Next]_(C!vars)
                     /\ [G!Next]_(G!vars) /\ [R!Next]_(R!vars)
  BY <1>2, <1>3, <1>4
<1>6. QED
  BY <1>1, <1>5, PTL DEF Spec, P!Spec, L!Spec, C!Spec, G!Spec, R!Spec

\* Payroll and leave together: slips tell what was paid, leavers were paid, and
\* the calendar shows leave that was granted and charged.
THEOREM PeopleStayRight == Spec => []PeopleAreRight
<1>1. P!PayrollAssumption /\ L!LeaveAssumption
  BY OfficeAssumption
<1>2. P!Spec => []P!TypeOK /\ []P!PaidSlipIsTrue /\ []P!LeaversArePaid
  BY <1>1, PayTypeCorrect, PaidSlipsAreTrue, LeaversWerePaid
<1>3. L!Spec => []L!TypeOK /\ []L!OnlyGrantedLeaveIsMarked
  BY <1>1, LeaveTypeCorrect, CalendarShowsGranted
<1>4. L!Spec => []L!CalendarIsCharged /\ []L!SummaryAgrees
  BY <1>1, CalendarWasCharged, SummaryWasCharged
<1>5. /\ P!TypeOK /\ P!PaidSlipIsTrue /\ P!LeaversArePaid
      /\ L!TypeOK /\ L!CalendarIsCharged /\ L!SummaryAgrees /\ L!OnlyGrantedLeaveIsMarked
      => PeopleAreRight
  BY DEF PeopleAreRight
<1>6. QED
  BY <1>2, <1>3, <1>4, <1>5, Parts, PTL

\* The CRM and the catalog together: an open lead has its contact and stands where
\* it says, a pending invoice has its customer, and the lists in Redis are true,
\* but for the races their histories name.
THEOREM CustomersStayRight == Spec => []CustomersAreRight
<1>1. C!Spec => []C!TypeOK /\ []C!OpenLeadHasContact /\ []C!LeadIsWhereItSays
  BY CrmTypeCorrect, OpenLeadKeepsContact, LeadStaysWhereItSays
<1>2. C!Spec => []C!OneDefaultPipeline /\ []C!CachedListIsTrue
  BY OneDefaultStays, CachedListStaysTrue
<1>3. G!Spec => []G!TypeOK /\ []G!PendingHasCustomer /\ []G!CustomerListIsTrue
  BY CatalogTypeCorrect, PendingKeepsCustomer, CachedCustomersAreTrue
<1>4. /\ C!TypeOK /\ C!OpenLeadHasContact /\ C!LeadIsWhereItSays /\ C!OneDefaultPipeline
      /\ C!CachedListIsTrue
      /\ G!TypeOK /\ G!PendingHasCustomer /\ G!CustomerListIsTrue
      => CustomersAreRight
  BY DEF CustomersAreRight
<1>5. QED
  BY <1>1, <1>2, <1>3, <1>4, Parts, PTL

\* A receipt an expense refers to is kept, and a stored file has a row, but for
\* the failures and the races their histories name.
THEOREM FilesStayKept == Spec => []FilesAreKept
<1>1. R!Spec => []R!TypeOK /\ []R!ReceiptIsKept /\ []R!FilesHaveRows
  BY ReceiptsTypeCorrect, ReceiptStaysKept, FilesKeepRows
<1>2. R!TypeOK /\ R!ReceiptIsKept /\ R!FilesHaveRows => FilesAreKept
  BY DEF FilesAreKept
<1>3. QED
  BY <1>1, <1>2, Parts, PTL

\* No step of the office changes what was paid or decided, or forgets a day
\* that was worked, but for the races the properties name.
THEOREM SettledStaysFinal == Spec => SettledIsFinal
<1>1. P!PayrollAssumption /\ L!LeaveAssumption
  BY OfficeAssumption
<1>2. P!Spec => P!PaidIsFrozen /\ P!PaidMonthIsSettled
  BY <1>1, PaidStaysFrozen, PaidMonthStaysSettled
<1>3. L!Spec => L!DecisionIsFinal /\ L!WorkIsNotForgotten
  BY <1>1, DecisionsStand, WorkIsKept
<1>4. QED
  BY <1>2, <1>3, Parts DEF SettledIsFinal
=============================================================================
