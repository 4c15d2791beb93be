SPECIFICATION Spec
CONSTANTS
    a1 = a1
    a2 = a2
    b1 = b1
    Client = {a1, a2}
    Tenant = {"A", "B"}
    User = {"u1", "u2"}
    TenantOf <- MCTenantOf
    UserOf <- MCUserOf
    All = "all"
    QueueCap = 1
    BroadcastCap = 1
    SendCap = 1
    MaxEvents = 1
INVARIANTS TypeOK NoEmptyRoom CounterMatchesRooms NoGhost TenantIsolation
CHECK_DEADLOCK FALSE
