\* Two managers and their caller, through two NpgsqlConnections.
CONSTANTS
  Writes = {w1, w2}
  MaxConns = 2
  Managers = {d1, d2}
SYMMETRY Symmetry
SPECIFICATION ManagersSpec
INVARIANTS
  TypeOK
  ManagersTypeOK
  OneConnection
  CommitKeepsTheWork
  RollbackUndoesTheWork
  AutocommitIsDurable
PROPERTIES
  ManagersUseTheConnection
  KeepsUnits
