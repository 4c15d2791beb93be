SPECIFICATION FairSpec
CONSTANTS
    Invoice = {i1}
    Request = {r1, r2}
    Sweeper = {w1}
    Total <- MCTotal
    Amount = {1, 2}
    None = None
    MaxFailures = 1
    MaxPayments = 2
INVARIANTS TypeOK PaidIsCovered UncontendedMoneyAgrees ItemsMatchTotal AnnouncedOnce NoReminderLost
PROPERTIES PaidIsFinal IssuedIsFrozen OverdueIsMarked ImplementsLedger
CHECK_DEADLOCK FALSE
