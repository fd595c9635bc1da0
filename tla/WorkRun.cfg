SPECIFICATION Spec
CONSTANTS
    N = 2
    Strict <- AllTasks
    Weak <- LastTask
    Retries = 1
    MaxCommands = 3
    MaxFaults = 1
    MaxStrays = 1
INVARIANT DoneIsBacked
PROPERTY CheckpointStands
CHECK_DEADLOCK FALSE
