SPECIFICATION FairSpec
CONSTANTS
    Client = {c1}
    Filter = {f1}
    Topic = {t1}
    Payload = {p1}
    NoPayload = NoPayload
    Limit = 2
    MaxSent = 3
    MaxRuns = 2
    MaxFaults = 1
INVARIANTS TypeOK InStep CommittedPrefix StopComplete
PROPERTIES EverythingCommitted StartupClean
CHECK_DEADLOCK FALSE
