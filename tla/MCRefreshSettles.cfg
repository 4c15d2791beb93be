SPECIFICATION FairSpec
CONSTANTS
    Device = {d1}
    Call = {c1}
    Token = {t1, t2, t3, t4, t5}
    None = None
    MaxExpiries = 1
    MaxDrops = 0
PROPERTY RefreshSettles
CHECK_DEADLOCK FALSE
