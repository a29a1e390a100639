SPECIFICATION VaultsSpec
CONSTANTS
  Server = {s1, s2}
  Request = {r1, r2}
  Eraser = s1
  Busy = {s2}
  Master = {old, new}
  Current <- MCCurrent
  RewrapTo = new
  MaxErases = 1
  MaxRestarts = 1
  None = None
  new = new
INVARIANT VaultsInv
INVARIANT KeysInv
PROPERTY HousekeepingSpares
PROPERTY IndexesGo
CHECK_DEADLOCK FALSE
