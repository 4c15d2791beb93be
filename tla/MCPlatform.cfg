SPECIFICATION DesksSpec
CHECK_DEADLOCK FALSE
CONSTANTS
 None = None
 Asked = Asked
 a1 = a1
 a2 = a2
 i1 = i1
 i2 = i2
 p1 = p1
 w1 = w1
 w2 = w2
 c1 = c1
 c2 = c2
 s1 = s1
 Invoice = {i1, i2}
 Staff = {s1}
 Request = {a1, a2}
 Month = {2, 3}
 Total = {1, 2}
 MaxRequests = 3
 Job = {i1, i2}
 Worker = {w1, w2}
 Admin = {a1, a2}
 Starter = {a1, a2}
 Cron = {c1, c2}
 Attempts = 2
 Tries = 2
 MaxFaults = 5
 InvoiceId = {p1}
 Click = {a1, a2}
 Amount = 2
 MaxVersion = 2
 Phone = {a1, a2}
 Call = {w1, w2}
 Seconds = 1
 Boxes = 2
 MaxClicks = 3
SYMMETRY Symmetry
INVARIANTS RegistersAgree JobsRunAsPlanned PagesTellTruth
PROPERTIES ReportsFallOnlyByOverdue
