SPECIFICATION FairSpec
CONSTANTS
    Client = {"pub", "shell", "retry"}
    IdLimit = 3
    MaxMsg = 3
    MaxDenied = 1
    MaxConn = 2
INVARIANTS TypeOK AcknowledgedIsAccepted FirstInOrder NoMoreThanSent
PROPERTIES CompletedInTheEnd
CHECK_DEADLOCK FALSE
