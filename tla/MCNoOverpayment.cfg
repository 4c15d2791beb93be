SPECIFICATION Spec
CONSTANTS
    Invoice = {i1}
    Request = {r1, r2}
    Sweeper = {w1}
    Total <- MCTotal
    Amount = {1, 2}
    None = None
    MaxFailures = 0
    MaxPayments = 4
INVARIANT NoOverpayment
CHECK_DEADLOCK FALSE
