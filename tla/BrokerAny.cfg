SPECIFICATION Spec
CONSTANTS
    Conn = {t1, t2}
    Client = {c1, c2}
    Filter = {f1}
    WillFilter = {f1}
    Via = {"tcp3", "tcp5", "ws5"}
    Reconnect = "any"
    NoConn = NoConn
    NoFilter = NoFilter
    NoRequest = NoRequest
SYMMETRY Symmetry
INVARIANTS TypeOK CountMatches  WillAtMostOnce
CHECK_DEADLOCK FALSE
