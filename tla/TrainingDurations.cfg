SPECIFICATION JobSpec
CONSTANTS
    Jobs = {"j1", "j2"}
    Callers = {"c1"}
INVARIANT DurationsObservedOnce
CHECK_DEADLOCK FALSE
