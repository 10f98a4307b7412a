SPECIFICATION StreamSpec
CONSTANTS
    Via = {"ws"}
    Kind = {1, 3}
    ConnectLength = {1, 2}
    OtherLength = {0, 1, 3, 5}
    Base = 2
    MaxLengthBytes = 3
    MaxPacketSize = 6
    MaxPackets = 3
INVARIANTS SplitPacketsDecode
CHECK_DEADLOCK FALSE
