SPECIFICATION MCSpec
CONSTANTS
  MaxChanges = 2
  MaxFailures = 1
  MaxKills = 1
  Writer = {w1, w2}
  KeyOf <- MCKeyOf
  Capacity = 1
  MaxRefused = 1
  NoListing = NoListing
  w1 = w1
  w2 = w2
INVARIANT SnapshotsInv
INVARIANT CachesInv
PROPERTY SavedSoon
PROPERTY CachesConverge
CHECK_DEADLOCK FALSE
