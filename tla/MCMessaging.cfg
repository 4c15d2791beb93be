SPECIFICATION DeskSpec
CHECK_DEADLOCK FALSE
CONSTANTS
 None = None
 a1 = a1
 a2 = a2
 r1 = r1
 r2 = r2
 i1 = i1
 l1 = l1
 Worker = {w1}
 MaxFailures = 1
 Request = {r1, r2}
 MaxRequests = 3
 Core = {r1, r2}
 Msg = {a1, a2}
 DailyLimit = 1
 TenantLimit = 2
 Before = {0, 1}
 Tries = 2
 Attempts <- MCAttempts
 MaxStarted = 2
 Phone = {a1, a2}
 Slot = {r1, r2}
 Text <- MCText
 MaxMessages = 2
 Record = {i1, l1}
 Question = {q1}
 Conversation = {t1}
 Client = {a1, a2}
 Task = {r1, r2}
 Table <- MCTable
 Kept = 2
 MaxChanges = 2
 MaxAsked = 4
 MaxTasks = 2
SYMMETRY Symmetry
INVARIANTS LinksAreCurrent MessagesAreCounted BotIsDiscreet AssistantRemembers
