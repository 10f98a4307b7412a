SPECIFICATION Spec
CONSTANTS
    Base = 128
    MaxLengthBytes = 4
    Version = {4, 5}
    SubscriberVersion = {4, 5}
    Text <- Texts
    Binary <- Payloads
    KeepAlive = {300}
    Number <- Numbers
    Properties <- PropertyLists
INVARIANTS DeliveredIntact
