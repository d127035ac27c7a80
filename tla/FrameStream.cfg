\* A first allocation of 8 bytes and quarters from 32: the buffers grow and wrap.
SPECIFICATION Spec
CONSTANTS
    MaxRemaingLength = 400
    DefaultBufferSize = 8
    bufferGrowThreshold = 32
    Junk = Junk
    Versions = {1, 2, 3, 4}
    Plans <- MCPlans
    Connect <- MCConnect
    Connack <- MCConnack
    ReadSizes = {7, 64}
    ReadBufferSize = 64
    MaxReadBufferSize = 300
INVARIANTS InOrder NothingLeft
CHECK_DEADLOCK FALSE
