SPECIFICATION FairSpec
CONSTANTS
    t1 = t1
    t2 = t2
    Dashboard = {d1, d2}
    Topic <- Topics
    Filter <- Filters
    MaxLog = 1
    MaxCommands = 3
INVARIANTS Consistent 
PROPERTIES LeaverIsCleaned
CHECK_DEADLOCK FALSE
