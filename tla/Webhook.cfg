\* Three messages in pushes of two; two statuses; one restart, one failing
\* transaction.
SPECIFICATION FairSpec
CHECK_DEADLOCK FALSE
CONSTANTS
    CountPerPush = 2
    RetryMax = 2
    MaxMessages = 3
    MaxStatuses = 2
    MaxCrashes = 1
    MaxStoreErrors = 1
INVARIANTS
    NotifiedInOrder
PROPERTIES
    RemovedOnlyWhenDue
    StatusNotLost
    QueuesDrain
