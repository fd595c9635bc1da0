SPECIFICATION ProcFairSpec
CONSTANTS
    c1 = c1
    c2 = c2
    Commands = {c1, c2}
    NoCommand = NoCommand
    Pids = {1, 2, 3}
    Capacity = 1
    Scripts <- MCScripts
CHECK_DEADLOCK FALSE
INVARIANT CleanupDone
PROPERTY StrangersSpared
PROPERTY CommandsEnd
