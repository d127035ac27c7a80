\* Two connections of one user with the same device id: an
\* acknowledgement may meet a clone that was never queued.  The server may
\* crash, so the run may stop.
SPECIFICATION Spec
CHECK_DEADLOCK FALSE
CONSTANTS
    c1 = c1
    c2 = c2
    k1 = k1
    k2 = k2
    d1 = d1
    d2 = d2
    None = None
    Clones = {c1, c2}
    Keys = {k1}
    Key <- SharedKey
    Devices = {d1}
    Device <- OneDevice
    Blank = {}
    Scanners = {1, 2}
    Ackers = {1, 2}
    MaxCount = 1
INVARIANTS
    SingleCustody
