SPECIFICATION TermFairSpec
CONSTANTS
    NoSession = NoSession
    k1 = k1  k2 = k2
    f1 = f1  f2 = f2
    Criteria = {k1, k2}
    Failures = {f1, f2}
    Scripts <- MCScripts
    MaxFollowers = 2
CHECK_DEADLOCK FALSE
INVARIANT ShownIsCurrent
INVARIANT EscStopsItsTurn
INVARIANT SessionSafe
INVARIANT DoneIsFounded
PROPERTY PromptsServed
