CONSTANTS
    Users = {u1}
    Channels = {c1}
    Subscribers <- MCSubscribers
    Objs = {o1, o2, o3, o4, o5, o6}
    Callers = {k1}
    SyncOnce = 2
    Senders = {None, u1}
    MaxMessages = 2
    MaxCalls = 1
    MaxErrors = 1
    None = None
SPECIFICATION Spec
INVARIANTS UnsavedMarked CountKept
PROPERTIES ChangesSaved StopReturns
CONSTRAINT StopAlone
CHECK_DEADLOCK FALSE
