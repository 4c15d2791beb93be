SPECIFICATION FairSpec
CONSTANTS
    Request = {r1, r2}
    MaxSends = 2
    MaxAttempts = 2
    MaxWindows = 1
    MaxFailures = 1
INVARIANTS TypeOK SendsBounded AttemptsBounded OneSignInPerCode OneNewUser
PROPERTY WindowEndsUnlessFailed
CHECK_DEADLOCK FALSE
