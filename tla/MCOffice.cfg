SPECIFICATION DeskSpec
CHECK_DEADLOCK FALSE
CONSTANTS
 None = None
 a1 = a1
 a2 = a2
 i1 = i1
 i2 = i2
 r1 = r1
 r2 = r2
 st1 = st1
 st2 = st2
 Request = {r1, r2}
 MaxFailures = 1
 Staff = {a1, a2}
 Worker = {w1}
 Attempts = 2
 Basic = {8, 9}
 Half = {3}
 Working = 2
 Bonus = {0}
 MaxPayroll = 3
 MaxDeaths = 2
 Day = {1, 2, 3}
 Sunday = {2}
 LeaveId = {i1, i2}
 Type = {"CASUAL"}
 MaxMarks = 1
 Contact = {a1, a2}
 Lead = {i1}
 Stage = {st1, st2}
 Phone = {"none", "p"}
 NoPhone = "none"
 Query <- MCQuery
 MaxCrm = 4
 Customer = {a1}
 Category = {st1}
 Invoice = {i1}
 Expense = {i1}
 MaxCatalog = 5
 FileKey = {a1, a2}
 MaxFiles = 5
SYMMETRY Symmetry
INVARIANTS PeopleAreRight CustomersAreRight FilesAreKept FiguresAgree
PROPERTIES SettledIsFinal
