SPECIFICATION Spec
CONSTANTS
  ServerConfigs <- MCServers
  ClientConfigs <- MCClients
  MaxConns = 2
  MaxTime = 3
  Rotation = 1
  Lifetime = 2
  MaxData = 2
  MaxUpdates = 1
INVARIANTS
  Agreement
  DataInOrder
  NoStall
  FailsOnlyWhen
CHECK_DEADLOCK FALSE
