SPECIFICATION TermSpec
CONSTANTS
    NoSession = NoSession
    k1 = k1  k2 = k2
    f1 = f1  f2 = f2
    Criteria = {k1, k2}
    Failures = {f1, f2}
    Scripts <- LoopScripts
    MaxFollowers = 2
CHECK_DEADLOCK FALSE
INVARIANT DoneIsVerified
