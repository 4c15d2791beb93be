------------------------------- MODULE Office -------------------------------
(***************************************************************************)
(* The back office: payroll, leave, the CRM, the catalog of customers and  *)
(* the receipts. The five share no state: a step is a step of one of them. *)
(***************************************************************************)
EXTENDS Integers

CONSTANTS
    None, Request, MaxFailures,
    Staff, Worker, Attempts, Basic, Half, Working, Bonus, MaxPayroll, MaxDeaths,    \* Payroll
    Day, Sunday, LeaveId, Type, MaxMarks,                           \* Leave
    Contact, Lead, Stage, Phone, NoPhone, Query, MaxCrm,            \* Crm
    Customer, Category, Invoice, Expense, MaxCatalog,               \* Catalog
    FileKey, MaxFiles                                                   \* Receipts

VARIABLES
    salary, present, employed, row, slip, slipJobs, job, undrawn, payrollReq,
    payrollStarted, payrollFailures, raced, late,
    today, attendance, leave, leaveReq, marks, markedBy, since, contested,
    contact, lead, pipelines, told, cache, crmReq, crmStarted, crmFailures, lateLead,
    muddled, adrift, reseeded,
    customer, category, invoice, expense, listed, catalogReq, catalogStarted, lateDue,
    revived,
    stored, upload, receipt, indexed, fileReq, fileStarted, fileFailures, fresh,
    severed, littered

payrollVars == <<salary, present, employed, row, slip, slipJobs, job, undrawn, payrollReq,
                 payrollStarted, payrollFailures, raced, late>>
leaveVars == <<today, attendance, leave, leaveReq, marks, markedBy, since, contested>>
crmVars == <<contact, lead, pipelines, told, cache, crmReq, crmStarted, crmFailures,
             lateLead, muddled, adrift, reseeded>>
catalogVars == <<customer, category, invoice, expense, listed, catalogReq, catalogStarted,
                 lateDue, revived>>
fileVars == <<stored, upload, receipt, indexed, fileReq, fileStarted, fileFailures, fresh,
              severed, littered>>
vars == <<payrollVars, leaveVars, crmVars, catalogVars, fileVars>>

P == INSTANCE Payroll WITH MaxRequests <- MaxPayroll, MaxFailures <- MaxDeaths,
       req <- payrollReq, started <- payrollStarted, failures <- payrollFailures
L == INSTANCE Leave WITH req <- leaveReq
C == INSTANCE Crm WITH MaxRequests <- MaxCrm, req <- crmReq, started <- crmStarted,
       failures <- crmFailures, late <- lateLead
G == INSTANCE Catalog WITH MaxRequests <- MaxCatalog, req <- catalogReq,
       started <- catalogStarted, late <- lateDue
R == INSTANCE Receipts WITH Key <- FileKey, MaxRequests <- MaxFiles, req <- fileReq,
       started <- fileStarted, failures <- fileFailures

ASSUME OfficeAssumption ==
    /\ P!PayrollAssumption /\ L!LeaveAssumption
    /\ C!CrmAssumption /\ G!CatalogAssumption /\ R!ReceiptsAssumption

Init == P!Init /\ L!Init /\ C!Init /\ G!Init /\ R!Init

PayrollStep == P!Next /\ UNCHANGED <<leaveVars, crmVars, catalogVars, fileVars>>
LeaveStep == L!Next /\ UNCHANGED <<payrollVars, crmVars, catalogVars, fileVars>>
CrmStep == C!Next /\ UNCHANGED <<payrollVars, leaveVars, catalogVars, fileVars>>
CatalogStep == G!Next /\ UNCHANGED <<payrollVars, leaveVars, crmVars, fileVars>>
FileStep == R!Next /\ UNCHANGED <<payrollVars, leaveVars, crmVars, catalogVars>>
Next == PayrollStep \/ LeaveStep \/ CrmStep \/ CatalogStep \/ FileStep

Spec == Init /\ [][Next]_vars

-----------------------------------------------------------------------------
\* Payroll: a paid slip tells what was paid, and leavers are paid. Leave: the
\* calendar says what was granted.
PeopleAreRight ==
    /\ P!TypeOK /\ P!PaidSlipIsTrue /\ P!LeaversArePaid
    /\ L!TypeOK /\ L!CalendarIsCharged /\ L!SummaryAgrees /\ L!OnlyGrantedLeaveIsMarked
\* The CRM and the catalog: leads, contacts, customers, the rows that refer to
\* them, and the lists kept of them in Redis.
CustomersAreRight ==
    /\ C!TypeOK /\ C!OpenLeadHasContact /\ C!LeadIsWhereItSays /\ C!OneDefaultPipeline
    /\ C!CachedListIsTrue
    /\ G!TypeOK /\ G!PendingHasCustomer /\ G!CustomerListIsTrue
\* Receipts: what an expense refers to is kept, and what is stored has a row.
FilesAreKept == R!TypeOK /\ R!ReceiptIsKept /\ R!FilesHaveRows
\* What was paid is frozen, what was decided stays decided, and attendance of a
\* day worked is not forgotten.
SettledIsFinal == P!PaidIsFrozen /\ P!PaidMonthIsSettled /\ L!DecisionIsFinal /\ L!WorkIsNotForgotten
=============================================================================
