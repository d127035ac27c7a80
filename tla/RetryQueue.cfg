\* Two clones with keys of their own; overlapping scans, two ack handlers.
SPECIFICATION FairSpec
CONSTANTS
    c1 = c1
    c2 = c2
    k1 = k1
    k2 = k2
    d1 = d1
    d2 = d2
    None = None
    Clones = {c1, c2}
    Keys = {k1, k2}
    Key <- DistinctKey
    Devices = {d1, d2}
    Device <- KeyDevice
    Blank = {d2}
    Scanners = {1, 2}
    Ackers = {1, 2}
    MaxCount = 1
INVARIANTS
    NoStranded
    RemovesOwnSlot
PROPERTIES
    AckedNeverRetried
    RetriesSettle
