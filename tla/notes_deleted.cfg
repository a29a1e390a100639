SPECIFICATION Spec
CONSTANTS
  c1 = c1  c2 = c2  c3 = c3
  s1 = s1  s2 = s2
  n1 = n1  n2 = n2  a1 = a1  a2 = a2  a3 = a3  b1 = b1  b2 = b2  b3 = b3
  idea = idea  m1 = m1  m2 = m2
  Absent = Absent  NoClaim = NoClaim  Anyone = Anyone  Free = Free
  Client = {c1, c2}
  Process = {s1}
  ProcOf <- OneProcess
  Note = {n1, n2}
  Title = {idea}
  Names <- MCNames
  Machine = {m1}
  Backends <- OnFolder
  Calls <- AppendAndDelete
  Attempts = 3
  ClaimAttempts = 2
  MaxCalls = 1
  MaxCrashes = 0
PROPERTY NothingComesBack
CHECK_DEADLOCK FALSE
