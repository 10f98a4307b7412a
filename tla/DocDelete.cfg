SPECIFICATION Spec
CONSTANTS
    Publisher = {p1}
    Api = {a1}
    Subscriber = {s1}
    Topic = {t1}
    Filter = {{t1}}
    Broker = Broker
    WillTopic = {}
    MaxLog = 2
PROPERTY DeletedNotDelivered
CHECK_DEADLOCK FALSE
