SPECIFICATION Spec
CONSTANTS
  a = a
  b = b
  g = g
  None = None
  Users = {a, b}
  Group = g
  Hash <- MCHash
  Topics <- MCTopics
  Frames = {f1, f2}
  Handlers = {h1, h2}
  Procs = {f1, f2, h1, h2}
  Ackers = {1, 2}
  Objs = {1, 2, 3, 4, 5, 6, 7, 8, 9, 10, 11, 12, 13, 14}
  WebhookOn = TRUE
  MaxSends = 3
  Mixed <- MCMixed
  MaxBatch = 2
  Readers = {b}
  MaxAcks = 2
  MaxTrouble = 1
INVARIANTS AnsweredOnce AckTruth DeliveredWhereSaid SyncReturnsUnacked StreamReadBack
ACTION_CONSTRAINT Urgent
SYMMETRY Alike
CHECK_DEADLOCK FALSE
