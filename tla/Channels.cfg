SPECIFICATION MCSpec
CONSTANTS
  Types = {"person", "group", "topic", "info", "service"}
  Uids = {u1, u2}
  Members = {u1, u2}
  Threads = {t1, t2}
  Objs = {1, 2, 3, 4, 5}
  CreateIfNoExist = FALSE
  MaxRequests = 3
  MaxBatch = 1
  MaxFailures = 1
  None = None
  c1 = c1
  c2 = c2
  c3 = c3
  v1 = v1
  v2 = v2
  Conns = {c1, c2, c3}
  Users = {v1, v2}
  Owner <- TheirOwner
  Procs = {t1, t2}
  DataObjs = {1, 2, 3, 4}
  MaxCalls = 3
  MaxUsers = 1
  Nil = Nil
CONSTRAINT InScope
INVARIANTS
  CacheAgrees
  JudgedByStore
  SubscribersReached
SYMMETRY Alike
CHECK_DEADLOCK FALSE
