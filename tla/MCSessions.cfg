SPECIFICATION Spec
CONSTANTS
    Device = {d1}
    Call = {c1, c2}
    Token = {t1, t2, t3}
    None = None
    MaxExpiries = 2
    MaxDrops = 1
SYMMETRY Symmetry
INVARIANTS TypeOK SignedInHasToken StoredTokenLive
PROPERTIES ForcedOutOnlyByExpiry
CHECK_DEADLOCK FALSE
