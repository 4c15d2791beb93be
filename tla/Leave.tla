------------------------------- MODULE Leave -------------------------------
(***************************************************************************)
(* One staff member's calendar: LeaveService (apply, approve, reject,      *)
(* getBalance) and AttendanceService (mark, bulkMark) write the same       *)
(* Attendance rows, and PayrollService.process counts them.                *)
(*                                                                         *)
(* A decision reads the leave as PENDING and writes it by id later.        *)
(***************************************************************************)
EXTENDS Integers, FiniteSets, FiniteSetsExt, SequencesExt

CONSTANTS
    Day,            \* days, consecutive integers
    Sunday,         \* those of them that are Sundays
    LeaveId, Request,
    Type,           \* LeaveType: "UNPAID" and paid ones
    None,
    MaxMarks        \* bound: attendance marks

VARIABLES
    today,
    attendance,     \* by day: AttendanceStatus, or None without a row
    leave,          \* by id: the Leave row, or None
    req,
    marks,
    markedBy,       \* history: the leave whose approval wrote the row, or None
    since,          \* history, by leave: days marked PRESENT since it was applied for
    contested       \* history: leaves with two decisions in flight at once

vars == <<today, attendance, leave, req, marks, markedBy, since, contested>>

Status == {"PRESENT", "ABSENT", "HALF_DAY", "ON_LEAVE"}
LeaveRow == [type : Type, from : Day, to : Day, days : Nat,
             status : {"PENDING", "APPROVED", "REJECTED"}]

\* Days are consecutive integers, days and leaves are finitely many, and None is
\* none of the things it stands beside.
LeaveAssumption ==
    /\ Day \subseteq Int /\ IsFiniteSet(Day) /\ IsFiniteSet(LeaveId)
    /\ None \notin LeaveId \cup LeaveRow \cup Status

Idle == [op |-> "idle"]

WorkDays(from, to) == (from .. to) \ Sunday
Leaves == {l \in LeaveId : leave[l] # None}
With(status) == {l \in Leaves : leave[l].status = status}
Deciding(l) == \E r \in Request : req[r].op \in {"approve", "reject"} /\ req[r].leave = l

Init ==
    /\ today \in Day
    /\ attendance = [d \in Day |-> None] /\ markedBy = attendance
    /\ leave = [l \in LeaveId |-> None]
    /\ since = [l \in LeaveId |-> {}]
    /\ req = [r \in Request |-> Idle]
    /\ marks = 0 /\ contested = {}

-----------------------------------------------------------------------------
Midnight ==
    /\ today + 1 \in Day
    /\ today' = today + 1
    /\ UNCHANGED <<attendance, leave, req, marks, markedBy, since, contested>>

(* Attendance, not for future dates: one row per day, written or replaced.  *)
Record(d, status) ==
    /\ d <= today /\ marks < MaxMarks
    /\ marks' = marks + 1
    /\ attendance' = [attendance EXCEPT ![d] = status]
    /\ markedBy' = [markedBy EXCEPT ![d] = None]
    /\ since' = [l \in LeaveId |-> IF status = "PRESENT" THEN since[l] \cup {d} ELSE since[l]]
    /\ UNCHANGED <<today, leave, req, contested>>
Mark(d, status) == Record(d, status)
\* The records of a day in one transaction: the last one for this member stays.
\* A query that fails undoes all of them, those counted as marked included.
BulkMark(d, records) == Record(d, Last(records))

(* apply: refused if a day of the range is already marked PRESENT.          *)
ApplyRead(r, l, from, to, type) ==
    /\ req[r] = Idle /\ l \notin Leaves
    /\ \A q \in Request : req[q].op = "apply" => req[q].leave # l
    /\ from <= to
    /\ \A d \in from .. to : attendance[d] # "PRESENT"
    /\ req' = [req EXCEPT ![r] = [op |-> "apply", leave |-> l, type |-> type,
                                   from |-> from, to |-> to]]
    /\ since' = [since EXCEPT ![l] = {}]
    /\ UNCHANGED <<today, attendance, leave, marks, markedBy, contested>>

ApplyWrite(r) ==
    LET q == req[r]
    IN  /\ q.op = "apply"
        /\ leave' = [leave EXCEPT ![q.leave] =
                       [type |-> q.type, from |-> q.from, to |-> q.to, status |-> "PENDING",
                        days |-> Cardinality(WorkDays(q.from, q.to))]]
        /\ req' = [req EXCEPT ![r] = Idle]
        /\ UNCHANGED <<today, attendance, marks, markedBy, since, contested>>

(* approve and reject: the leave must be PENDING when it is read.           *)
DecideRead(r, l, op) ==
    /\ req[r] = Idle /\ l \in With("PENDING")
    /\ req' = [req EXCEPT ![r] = [op |-> op, leave |-> l]]
    /\ contested' = IF Deciding(l) THEN contested \cup {l} ELSE contested
    /\ UNCHANGED <<today, attendance, leave, marks, markedBy, since>>

\* One transaction: the leave, and a row for each of its days but Sundays.
ApproveWrite(r) ==
    LET l == req[r].leave
        days == WorkDays(leave[l].from, leave[l].to)
    IN  /\ req[r].op = "approve"
        /\ leave' = [leave EXCEPT ![l].status = "APPROVED"]
        /\ attendance' = [d \in Day |-> IF d \in days THEN "ON_LEAVE" ELSE attendance[d]]
        /\ markedBy' = [d \in Day |-> IF d \in days THEN l ELSE markedBy[d]]
        /\ req' = [req EXCEPT ![r] = Idle]
        /\ UNCHANGED <<today, marks, since, contested>>

RejectWrite(r) ==
    LET l == req[r].leave
    IN  /\ req[r].op = "reject"
        /\ leave' = [leave EXCEPT ![l].status = "REJECTED"]
        /\ req' = [req EXCEPT ![r] = Idle]
        /\ UNCHANGED <<today, attendance, marks, markedBy, since, contested>>

\* A query throws, or the transaction rolls back.
Fail(r) ==
    /\ req[r] # Idle
    /\ req' = [req EXCEPT ![r] = Idle]
    /\ UNCHANGED <<today, attendance, leave, marks, markedBy, since, contested>>

\* getBalance: days used up, by type.
Used(types) ==
    MapThenSumSet(LAMBDA l : leave[l].days, {l \in With("APPROVED") : leave[l].type \in types})

\* getSummary over all days; the percentage in tenths, rounded.
Days(status) == Cardinality({d \in Day : attendance[d] = status})
WorkingDays == Cardinality(Day \ Sunday)
Summary ==
    [present |-> Days("PRESENT"), absent |-> Days("ABSENT"),
     halfDay |-> Days("HALF_DAY"), onLeave |-> Days("ON_LEAVE"),
     attendancePercentage |->
        IF WorkingDays = 0 THEN 0
        ELSE (1000 * (2 * Days("PRESENT") + Days("HALF_DAY")) + WorkingDays) \div (2 * WorkingDays)]

Next ==
    \/ Midnight
    \/ \E d \in Day, status \in Status : Mark(d, status) \/ BulkMark(d, <<"ABSENT", status>>)
    \/ \E r \in Request : ApplyWrite(r) \/ ApproveWrite(r) \/ RejectWrite(r) \/ Fail(r)
    \/ \E r \in Request, l \in LeaveId :
         \/ \E op \in {"approve", "reject"} : DecideRead(r, l, op)
         \/ \E from, to \in Day, type \in Type : ApplyRead(r, l, from, to, type)

Spec == Init /\ [][Next]_vars

-----------------------------------------------------------------------------
TypeOK ==
    /\ today \in Day
    /\ attendance \in [Day -> Status \cup {None}] /\ markedBy \in [Day -> LeaveId \cup {None}]
    /\ leave \in [LeaveId -> LeaveRow \cup {None}]
    /\ \A l \in Leaves : leave[l].from <= leave[l].to
    /\ \A r \in Request : req[r].op \in {"idle", "apply", "approve", "reject"}
    /\ since \in [LeaveId -> SUBSET Day] /\ contested \subseteq LeaveId

\* A decided leave keeps its decision, unless a second decision was taken
\* while the first was still to be written: both had seen it PENDING.
DecisionIsFinal ==
    [][\A l \in Leaves \ contested :
          leave[l].status # "PENDING" => leave'[l].status = leave[l].status]_vars

\* No day of the calendar is there on account of a leave that was not
\* granted; only a contested one can be REJECTED and on the calendar.
OnlyGrantedLeaveIsMarked ==
    \A d \in Day : markedBy[d] \in LeaveId \ contested => markedBy[d] \in With("APPROVED")

\* An approval overwrites a day worked only if it was marked PRESENT after
\* the application had been checked against the calendar.
WorkIsNotForgotten ==
    [][\A d \in Day : attendance[d] = "PRESENT" /\ markedBy'[d] # markedBy[d]
                         => d \in since[markedBy'[d]] \/ markedBy'[d] = None]_vars

\* Leave on the calendar has been charged to a balance: the days approvals
\* put there never exceed the days the uncontested approved leaves count.
CalendarIsCharged ==
    contested = {} =>
       Cardinality({d \in Day : markedBy[d] # None}) <= Used(Type)

\* The summary of the month agrees with the balance: all the leave it shows
\* has been charged, but for days marked ON_LEAVE by hand.
SummaryAgrees ==
    contested = {} =>
       Summary.onLeave <= Used(Type) + Cardinality({d \in Day : attendance[d] = "ON_LEAVE"
                                                                /\ markedBy[d] = None})

=============================================================================
