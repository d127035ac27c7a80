SPECIFICATION Spec
CONSTANTS
  Objs = {o1, o2, o3}
  Fds = {1, 2, 3}
  Reactors = {"r1"}
  ReactorOf <- MCReactorOf
  Timers = {"t1"}
  Users = {"u1"}
  Logins <- MCLogins
  MaxId = 3
  None = None
INVARIANTS RegistryExact MasterAlone StatusAgrees IdleCovered
SYMMETRY ObjSymmetry
CONSTRAINT ClosedOnce
CHECK_DEADLOCK FALSE
