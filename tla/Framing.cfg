SPECIFICATION FairStreamSpec
CONSTANTS
    Via = {"tcp", "ws"}
    Kind = {1, 3}
    ConnectLength = {1, 2}
    OtherLength = {0, 1, 3, 5}
    Base = 2
    MaxLengthBytes = 3
    MaxPacketSize = 6
    MaxPackets = 3
INVARIANTS StreamIntact
PROPERTIES PacketsDecoded
CHECK_DEADLOCK FALSE
