SPECIFICATION Spec
CONSTANTS
    Publisher = {p1}
    Api = {a1}
    Subscriber = {s1}
    Topic = {t1, t2}
    Filter = {{t1}, {t1, t2}}
    Broker = Broker
    WillTopic = {t1}
    MaxLog = 2
INVARIANTS TypeOK RetainedSettles SavedSettles SubscribedGetsAll SettledReaches
CHECK_DEADLOCK FALSE
