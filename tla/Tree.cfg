SPECIFICATION Spec
CONSTANTS
    Client = {c1, c2}
    Segment <- Segments
    Filter <- Filters
    Topic <- Topics
    QoS = {0, 1}
    MaxSubs = 3
SYMMETRY Symmetry
INVARIANTS TypeOK  CountExact MatchersAgree
