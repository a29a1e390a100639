SPECIFICATION MCSpec
CONSTANTS
  Writer = {w1, w2}
  MonthLength = 1
  PreviousMonthGraceDays = 1
  RewriteRetries = 1
  LastDate = 2
  MaxNews = 1
  MaxHandEdits = 2
  MaxWrites = 3
  Session = {s1, s2}
  Hook = {h1, h2}
  Repo = {r1}
  NoSession = NoSession
  Threshold = 1
  AskedLimit = 1
  MaxPrompts = 1
  FinalDay = 2
  MaxHooks = 3
  MaxFailures = 1
  Command = {c1, c2}
  Url = {u1}
  Slug = {home, work}
  Folder = {repo}
  Nowhere = Nowhere
  MaxCommands = 3
  MaxKills = 1
  Process = {p1, p2}
  HasFlock = TRUE
  LastDay = 2
  MaxAnswers = 3
  MaxIds = 3
  Request = {q1, q2, q3}
  MaxConnections = 3
  w1 = w1  w2 = w2  s1 = s1  s2 = s2  c1 = c1  c2 = c2  p1 = p1  p2 = p2  q1 = q1  q2 = q2
  home = home  work = work
SYMMETRY Symmetric
INVARIANT PagesInv
INVARIANT StopInv
INVARIANT ConfigInv
INVARIANT SignalInv
INVARIANT UpstreamInv
CHECK_DEADLOCK FALSE
