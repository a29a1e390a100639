SPECIFICATION MCSpec
CONSTANTS
  Author = {a1, a2}
  NotePath = {p, q}
  Text = {t, u}
  MaxChanges = 3
  MaxStops = 1
  NoText = NoText
  File <- MCFile
  Folder <- MCFolder
  MaxTransfers = 1
  MaxWrites = 1
  MaxFailures = 1
  Missing = Missing
  Marker = Marker
  Theirs = Theirs
  Process = {p1, p2}
  Searcher = {t1, t2}
  RunsIn <- MCRunsIn
  t1 = t1
  t2 = t2
  p2 = p2
  Note = {n1, n2}
  BatchSize = 1
  MaxSyncs = 2
  MaxFaults = 1
  Nobody = Nobody
  Client = {c1, c2}
  Release = {1, 2}
  MaxWorkers = 3
  MaxRequests = 2
  MaxKills = 1
  NoOneAt = NoOneAt
INVARIANT HistoryInv
INVARIANT DavInv
INVARIANT VectorsInv
INVARIANT WorkerInv
PROPERTY AllEmbedded
CHECK_DEADLOCK FALSE
