------------------------------ MODULE MCOffice ------------------------------
(***************************************************************************)
(* Office with a desk per behaviour: the parts share no state, so that side*)
(* by side they would only multiply states. The sums that the code works   *)
(* out twice have a desk of their own, and so have payrolls of few requests*)
(* whose slips fail twice.                                                 *)
(***************************************************************************)
EXTENDS Office, TLC

CONSTANTS a1, a2, i1, i2, r1, r2, st1, st2

VARIABLES desk, sum

MCQuery == {[of |-> "leads", status |-> "OPEN", stage |-> None],
            [of |-> "leads", status |-> "OPEN", stage |-> st1],
            [of |-> "contacts", status |-> None, stage |-> None]}
LakhBorders == {100000 * 100 * n + d : n \in {1, 3, 7, 10, 12, 15, 20}, d \in {-1, 0, 1}}
Lines == [quantity : {1, 2, 3, 7}, rate : {1, 5, 99, 333, 1000, 99999},
          discount : {0, 5, 33, 100}, gstRate : {0, 5, 12, 18, 28}]
Symmetry == Permutations({a1, a2}) \cup Permutations({r1, r2}) \cup Permutations({i1, i2})

F == INSTANCE Figures WITH
       Salaries <- {800000, 1499999, 1500000, 1500001, 2100000, 2100001, 6250000, 12500100},
       HalfDays <- {0, 1, 37, 51, 52}, Working <- 26, Overtime <- {0, 1, 7},
       Incomes <- LakhBorders, Items <- Lines,
       Crores <- {0, 1, 19, 20, 99, 100, 119, 999, 1000, 1999},
       Belows <- {0, 1, 19, 20, 21, 99, 100, 999, 1000, 1019, 99999, 100000, 9999999, 1234567}

DeskInit ==
    /\ desk \in {"payroll", "slips", "leave", "crm", "catalog", "files", "figures"}
    /\ Init
    /\ desk # "leave" => today = 1
    /\ salary = [s \in Staff |-> 8]
    /\ IF desk = "figures" THEN F!Init ELSE sum = None

DeskNext ==
    /\ UNCHANGED <<desk, sum>>
    /\ \/ desk = "payroll" /\ PayrollStep /\ payrollFailures' <= 1
       \/ desk = "slips" /\ PayrollStep /\ payrollStarted' <= 2
       \/ desk = "leave" /\ LeaveStep
       \/ desk = "crm" /\ CrmStep
       \/ desk = "catalog" /\ CatalogStep
       \/ desk = "files" /\ FileStep

DeskSpec == DeskInit /\ [][DeskNext]_<<vars, desk, sum>>

\* The sums worked out twice.
FiguresAgree == desk = "figures" => F!FiguresAgree
=============================================================================
