CONSTANTS
  Writes = {w1, w2}
  MaxConns = 2
  Managers = {d1, d2}
SPECIFICATION ManagersSpec
PROPERTY ExternalStaysOpen
