SPECIFICATION FairDeskSpec
CHECK_DEADLOCK FALSE
CONSTANTS
 None = None
 a1 = a1
 Socket = {w1, w2, w3}
 Timer = {1, 2}
 Event = {e1, e2}
 Token = {11, 12, 21}
 IssuedTo <- MCIssuedTo
 Cap = 2
 MaxTurns = 3
 Client = {a1}
 Tenant = {"A", "B"}
 User = {"u1", "u2"}
 All = "all"
 TenantOf <- MCTenantOf
 UserOf <- MCUserOf
 QueueCap = 1
 BroadcastCap = 1
 SendCap = 1
 MaxEvents = 2
INVARIANTS PageIsOwn
PROPERTIES ConnectionsSettle
