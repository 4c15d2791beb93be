------------------------------- MODULE Payroll -------------------------------
(***************************************************************************)
(* The payrolls of one month: PayrollService (process, updateOne, payAll,  *)
(* paySingle, getSlip), the worker that draws salary slips, and the two    *)
(* staff operations that touch what a payroll rests on (a new salary, a    *)
(* termination).                                                           *)
(*                                                                         *)
(* A request reads rows, decides on what it read and writes by id later,   *)
(* one action per step other requests can come between. Only basic pay,    *)
(* half days, bonus and other deductions vary: what they add up to is      *)
(* PayrollMath's business, here with PF, ESIC and tax switched off.        *)
(***************************************************************************)
EXTENDS PayrollMath, FiniteSets, FiniteSetsExt

CONSTANTS
    Staff, Request,
    Worker,         \* salary slips drawn at the same time (CONCURRENCY_PDF)
    Attempts,       \* how often a salary slip is tried: withRetry(3)
    Basic,          \* salaries, in paise
    Half,           \* half days somebody may have been present
    Working,        \* working days of the month
    Bonus,          \* bonuses a request may ask for
    None,
    MaxRequests,    \* bound: requests and salary changes started
    MaxFailures     \* bound: requests and slip jobs that die half way

VARIABLES
    salary, present, employed,      \* Staff and Attendance
    row,                            \* the Payroll row of a staff member, or None
    slip,                           \* net pay printed in the stored PDF, or None
    slipJobs,                       \* pdf:salary-slip:generate jobs waiting, by failed tries
    job,                            \* by worker: staff, net pay it has read, failed tries
    undrawn,    \* history: a slip job gave up since the worker last drew it
    req,                            \* requests in flight
    started, failures,
    raced,      \* history: edited or drawn while it was being paid or drawn
    late        \* history: terminated while a payroll run was in flight

staffVars == <<salary, present, employed>>
slipVars == <<slip, slipJobs, job, undrawn>>
history == <<failures, raced, late>>
vars == <<staffVars, row, slipVars, req, started, history>>

Pay(basic, half, bonus) ==
    Calculate([basic |-> basic, hra |-> 0, allowances |-> 0, present |-> half,
               leave |-> 0, working |-> Working, overtime |-> 0, bonus |-> bonus,
               other |-> 0, pf |-> FALSE, esic |-> FALSE, tds |-> FALSE])

\* presentDays is an Int column: create stores Math.floor of it.
NewRow(basic, half, bonus) ==
    [status |-> "DRAFT", days |-> half \div 2, bonus |-> bonus,
     net |-> Pay(basic, half, bonus).net, url |-> "none"]

PayrollRow == [status : {"DRAFT", "PAID"}, days : Nat, bonus : Bonus, net : Nat,
               url : {"none", "signed", "dead", "public"}]

\* Amounts and half days are not negative, and None is none of the things it
\* stands beside.
PayrollAssumption ==
    /\ Basic \cup Half \cup Bonus \subseteq Nat /\ Working \in Nat /\ Attempts \in Nat \ {0}
    /\ None \notin PayrollRow \cup (Staff \X Nat \X Nat) \cup Nat

Rows == {s \in Staff : row[s] # None}
Drafts == {s \in Rows : row[s].status = "DRAFT"}
Paid == {s \in Rows : row[s].status = "PAID"}

\* What a request works on: the staff still to do, the salaries as read at
\* the start, the one in hand with what was read of it, and the bonus asked.
Idle == [op |-> "idle", todo |-> {}, salary |-> <<>>, at |-> None, read |-> 0, bonus |-> 0]
Start(r, op, todo, at, read, bonus) ==
    /\ req[r] = Idle /\ started < MaxRequests
    /\ started' = started + 1
    /\ req' = [req EXCEPT ![r] = [op |-> op, todo |-> todo, salary |-> salary,
                                   at |-> at, read |-> read, bonus |-> bonus]]
Finish(r) == req' = [req EXCEPT ![r] = Idle]
InHand(op, s) == \E r \in Request : req[r].op = op /\ req[r].at = s
Tries == 0 .. Attempts - 1
Waiting(s) == \E k \in Tries : slipJobs[s][k] > 0
AddSlipJob(s, k) == slipJobs' = [slipJobs EXCEPT ![s][k] = @ + 1]
BeingDrawn(s) == InHand("draw", s) \/ \E w \in Worker : job[w] # None /\ job[w][1] = s

Init ==
    /\ salary \in [Staff -> Basic] /\ present \in [Staff -> Half]
    /\ employed = [s \in Staff |-> TRUE]
    /\ row = [s \in Staff |-> None] /\ slip = [s \in Staff |-> None]
    /\ slipJobs = [s \in Staff |-> [k \in Tries |-> 0]]
    /\ job = [w \in Worker |-> None] /\ undrawn = {}
    /\ req = [r \in Request |-> Idle]
    /\ started = 0 /\ failures = 0 /\ raced = {} /\ late = {}

-----------------------------------------------------------------------------
(* process: the ACTIVE staff asked for are read once with their salaries;   *)
(* then each of them is looked up, computed, inserted and queued in turn.   *)
ProcessRead(r, asked, bonus) ==
    LET list == {s \in asked : employed[s]}
    IN  /\ list # {}
        /\ Start(r, "process", list, None, 0, bonus)
        /\ UNCHANGED <<staffVars, row, slipVars, history>>

ProcessLookup(r) == \E s \in req[r].todo :
    /\ req[r].op = "process"
    /\ req' = [req EXCEPT ![r].todo = @ \ {s},
                          ![r].op = IF s \in Rows THEN @ ELSE "insert",
                          ![r].at = s, ![r].read = present[s]]
    /\ UNCHANGED <<staffVars, row, slipVars, started, history>>

\* @@unique([tenantId, staffId, month]): the second insert throws and ends
\* the request; the rest of its list is not processed.
ProcessInsert(r) ==
    LET q == req[r]
    IN  /\ q.op = "insert"
        /\ IF q.at \in Rows
           THEN Finish(r) /\ UNCHANGED <<row, late>>
           ELSE /\ row' = [row EXCEPT ![q.at] = NewRow(q.salary[q.at], q.read, q.bonus)]
                /\ req' = [req EXCEPT ![r].op = "queue"]
                /\ late' = IF InHand("terminate", q.at) THEN late \cup {q.at} ELSE late
        /\ UNCHANGED <<staffVars, slipVars, started, failures, raced>>

\* generateSalarySlip for the row in hand: one insert, or one row just paid.
QueueSlip(r) ==
    /\ req[r].op = "queue"
    /\ AddSlipJob(req[r].at, 0)
    /\ req' = [req EXCEPT ![r].op = "process"]
    /\ UNCHANGED <<staffVars, row, slip, job, undrawn, started, history>>

\* The end of process and of both payments: the realtime event, the answer.
Done(r) ==
    /\ req[r].op \in {"process", "notify"} /\ req[r].todo = {}
    /\ Finish(r)
    /\ UNCHANGED <<staffVars, row, slipVars, started, history>>

(* updateOne: recomputed from the salary of today and the days of the row.  *)
EditReadAny(r, s, bonus) ==
    /\ s \in Rows
    /\ Start(r, "edit", {}, s, Pay(salary[s], 2 * row[s].days, bonus).net, bonus)
    /\ UNCHANGED <<staffVars, row, slipVars, history>>

EditRead(r, s, bonus) ==
    /\ s \in Drafts
    /\ Start(r, "edit", {}, s, Pay(salary[s], 2 * row[s].days, bonus).net, bonus)
    /\ UNCHANGED <<staffVars, row, slipVars, history>>

EditWrite(r) ==
    LET s == req[r].at
    IN  /\ req[r].op = "edit"
        /\ row' = [row EXCEPT ![s].bonus = req[r].bonus, ![s].net = req[r].read]
        /\ Finish(r)
        /\ UNCHANGED <<staffVars, slipVars, started, history>>

(* payAll and paySingle: which rows to pay is read, then written.           *)
PayAllRead(r) ==
    /\ Drafts # {}
    /\ Start(r, "payAll", Drafts, None, 0, 0)
    /\ UNCHANGED <<staffVars, row, slipVars, history>>

PaySingleRead(r, s) ==
    /\ s \in Rows \ Paid
    /\ Start(r, "paySingle", {s}, s, 0, 0)
    /\ UNCHANGED <<staffVars, row, slipVars, history>>

\* payAll pays every DRAFT there is by then, paySingle its one row; slips
\* are queued for the rows that were read.
PayWrite(r) ==
    LET paying == IF req[r].op = "payAll" THEN Drafts ELSE {req[r].at}
    IN  /\ req[r].op \in {"payAll", "paySingle"}
        /\ row' = [s \in Staff |-> IF s \in paying THEN [row[s] EXCEPT !.status = "PAID"]
                                                   ELSE row[s]]
        /\ req' = [req EXCEPT ![r].op = "slips"]
        /\ raced' = raced \cup (paying \ req[r].todo)
                          \cup {s \in paying : InHand("edit", s) \/ BeingDrawn(s)}
        /\ UNCHANGED <<staffVars, slipVars, started, failures, late>>

PayQueueOnlyFirst(r) == \E s \in req[r].todo :
    /\ req[r].op = "slips"
    /\ AddSlipJob(s, 0)
    /\ req' = [req EXCEPT ![r].todo = {}, ![r].op = "notify"]
    /\ UNCHANGED <<staffVars, row, slip, job, undrawn, started, history>>

PayQueue(r) == \E s \in req[r].todo :
    /\ req[r].op = "slips"
    /\ AddSlipJob(s, 0)
    /\ req' = [req EXCEPT ![r].todo = @ \ {s},
                          ![r].op = IF req[r].todo = {s} THEN "notify" ELSE @]
    /\ UNCHANGED <<staffVars, row, slip, job, undrawn, started, history>>

(* getSlip: draws the PDF itself when no link is stored yet.                *)
GetSlip(r, s) ==
    /\ s \in Rows /\ row[s].url = "none"
    /\ Start(r, "draw", {}, s, row[s].net, 0)
    /\ raced' = IF BeingDrawn(s) THEN raced \cup {s} ELSE raced
    /\ UNCHANGED <<staffVars, row, slipVars, failures, late>>

\* The core's links are signed for a day and stored all the same.
StoreSlip(r) ==
    /\ req[r].op = "draw"
    /\ slip' = [slip EXCEPT ![req[r].at] = req[r].read]
    /\ row' = [row EXCEPT ![req[r].at].url = "signed"]
    /\ Finish(r)
    /\ UNCHANGED <<staffVars, slipJobs, job, undrawn, started, history>>

LinkExpires(s) ==
    /\ s \in Rows /\ row[s].url = "signed"
    /\ row' = [row EXCEPT ![s].url = "dead"]
    /\ UNCHANGED <<staffVars, slipVars, req, started, history>>

(* The worker's pdf:salary-slip:generate.                                   *)
SlipRead(w, s) == \E k \in Tries :
    /\ job[w] = None /\ slipJobs[s][k] > 0
    /\ slipJobs' = [slipJobs EXCEPT ![s][k] = @ - 1]
    /\ job' = [job EXCEPT ![w] = <<s, row[s].net, k>>]
    /\ raced' = IF BeingDrawn(s) THEN raced \cup {s} ELSE raced
    /\ UNCHANGED <<staffVars, row, slip, undrawn, req, started, failures, late>>

SlipWrite(w) ==
    /\ job[w] # None
    /\ slip' = [slip EXCEPT ![job[w][1]] = job[w][2]]
    /\ row' = [row EXCEPT ![job[w][1]].url = "public"]
    /\ job' = [job EXCEPT ![w] = None]
    /\ undrawn' = undrawn \ {job[w][1]}
    /\ UNCHANGED <<staffVars, slipJobs, req, started, history>>

\* A job that throws goes back to the queue until its last attempt; the PDF
\* may have been uploaded by then.
SlipFail(w, uploaded) ==
    LET s == job[w][1]
        tries == job[w][3] + 1
    IN  /\ job[w] # None /\ failures < MaxFailures
        /\ failures' = failures + 1
        /\ slip' = IF uploaded THEN [slip EXCEPT ![s] = job[w][2]] ELSE slip
        /\ IF tries < Attempts THEN AddSlipJob(s, tries) /\ UNCHANGED undrawn
                               ELSE undrawn' = undrawn \cup {s} /\ UNCHANGED slipJobs
        /\ job' = [job EXCEPT ![w] = None]
        /\ UNCHANGED <<staffVars, row, req, started, raced, late>>

(* Staff.update and Staff.remove.                                           *)
SetSalary(s, basic) ==
    /\ started < MaxRequests /\ basic # salary[s]
    /\ salary' = [salary EXCEPT ![s] = basic]
    /\ started' = started + 1
    /\ UNCHANGED <<present, employed, row, slipVars, req, failures, raced, late>>

TerminateRead(r, s) ==
    /\ employed[s] /\ s \notin Drafts
    /\ Start(r, "terminate", {}, s, 0, 0)
    /\ UNCHANGED <<staffVars, row, slipVars, history>>

TerminateWrite(r) ==
    LET s == req[r].at
    IN  /\ req[r].op = "terminate"
        /\ employed' = [employed EXCEPT ![s] = FALSE]
        /\ late' = IF InHand("insert", s) \/ \E q \in Request : req[q].op \in {"process", "insert", "queue"} /\ s \in req[q].todo
                   THEN late \cup {s} ELSE late
        /\ Finish(r)
        /\ UNCHANGED <<salary, present, row, slipVars, started, failures, raced>>

\* The process of a request stops, or one of its queries throws.
Die(r) ==
    /\ req[r] # Idle /\ failures < MaxFailures
    /\ failures' = failures + 1
    /\ raced' = IF req[r].op = "slips" THEN raced \cup req[r].todo ELSE raced
    /\ Finish(r)
    /\ UNCHANGED <<staffVars, row, slipVars, started, late>>

\* getSummary: the month as the payroll page shows it; PAID when there is nothing.
Summary == [totalStaff |-> Cardinality(Rows),
            totalNet |-> MapThenSumSet(LAMBDA s : row[s].net, Rows),
            status |-> IF Drafts # {} THEN "DRAFT" ELSE "PAID"]

Step(r) ==
    \/ ProcessLookup(r) \/ ProcessInsert(r) \/ QueueSlip(r) \/ Done(r)
    \/ EditWrite(r) \/ PayWrite(r) \/ PayQueue(r)
    \/ StoreSlip(r) \/ TerminateWrite(r)

Next ==
    \/ \E r \in Request : Step(r) \/ Die(r) \/ PayAllRead(r)
    \/ \E r \in Request, b \in Bonus, asked \in SUBSET Staff : ProcessRead(r, asked, b)
    \/ \E r \in Request, s \in Staff :
         PaySingleRead(r, s) \/ GetSlip(r, s) \/ TerminateRead(r, s)
    \/ \E r \in Request, s \in Staff, b \in Bonus : EditRead(r, s, b)
    \/ \E w \in Worker : SlipWrite(w) \/ \E s \in Staff : SlipRead(w, s)
    \/ \E w \in Worker, up \in BOOLEAN : SlipFail(w, up)
    \/ \E s \in Staff : LinkExpires(s) \/ \E b \in Basic : SetSalary(s, b)

Spec == Init /\ [][Next]_vars

-----------------------------------------------------------------------------
TypeOK ==
    /\ salary \in [Staff -> Basic] /\ present \in [Staff -> Half]
    /\ employed \in [Staff -> BOOLEAN]
    /\ row \in [Staff -> PayrollRow \cup {None}]
    /\ \A s \in Staff : slip[s] \in Nat \cup {None}
    /\ slipJobs \in [Staff -> [Tries -> Nat]]
    /\ \A w \in Worker : job[w] = None \/ job[w] \in Rows \X Nat \X Tries
    /\ raced \cup late \cup undrawn \subseteq Staff

\* The pay on a PAID payroll does not change any more, unless an edit that
\* had seen it as a DRAFT was still to be written when it was paid: updateOne
\* asks for DRAFT when it reads, not when it writes.
PaidIsFrozen ==
    [][\A s \in Paid \ raced : row'[s].net = row[s].net /\ row'[s].bonus = row[s].bonus]_vars

\* A month shown as PAID keeps its figures until somebody is added to it, but
\* for payrolls edited or drawn while they were being paid.
PaidMonthIsSettled ==
    [][Summary.status = "PAID" /\ Rows' = Rows /\ Rows \cap raced = {} => Summary' = Summary]_vars

\* Once nothing is left to draw for a PAID payroll, the stored salary slip
\* shows what was paid and its link is the public one: slips drawn while it
\* was a DRAFT, by the worker or by getSlip, have been drawn again. Only a
\* job that failed its last attempt may leave it untrue.
PaidSlipIsTrue ==
    \A s \in Paid \ (raced \cup undrawn) :
       \/ Waiting(s) \/ BeingDrawn(s)
       \/ \E r \in Request : req[r].op = "slips" /\ s \in req[r].todo
       \/ slip[s] = row[s].net /\ row[s].url = "public"

\* Nobody leaves with an unpaid payroll (Staff.remove refuses it), unless a
\* payroll run that had them on its list was in flight as they left.
LeaversArePaid ==
    \A s \in Drafts : employed[s] \/ s \in late

=============================================================================
