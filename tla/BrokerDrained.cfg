SPECIFICATION FairSpec
CONSTANTS
    Conn = {t1, t2}
    Client = {c1, c2}
    Filter = {f1}
    WillFilter = {f1}
    Via = {"tcp3", "tcp5", "ws5"}
    Reconnect = "drained"
    NoConn = NoConn
    NoFilter = NoFilter
    NoRequest = NoRequest
INVARIANTS Reachable SessionOwned WillOnlyAfterEnd NoWillAfterDisconnect SavedMatches
PROPERTIES RouterSparesLive ImplementsContract AbruptEndPublishesWill CleanEndForgets
CHECK_DEADLOCK FALSE
