SPECIFICATION MCSpec
CONSTANTS
  Vault = {home, team}
  SharedVault = {team}
  Account = {ann, bob}
  Slug = {"home", "work"}
  Credential = {readKey, key, token, namedToken, proxied}
  CredOf <- MCCredOf
  Request = {r}
  Tool = {"search", "set_status", "claim", "PUT"}
  Nothing = Nothing
  MaxChanges = 2
  Owner = {ann, bob}
  Desk = {d1, d2}
  Operator = {o1}
  MaxTime = 6
  MaxDays = 2
  MaxHands = 2
  Gone = Gone
  NoGrant = NoGrant
  Shared = FALSE
  Server = {s1, s2, s3}
  Ahead <- MCAhead
  Limit = 2
  Seconds = 2
  MaxAhead = 1
  MaxHits = 5
  home = home
  team = team
  ann = ann
  key = key
  readKey = readKey
  token = token
  namedToken = namedToken
  proxied = proxied
  s1 = s1
  t1 = t1  t2 = t2  a1 = a1  lg = lg
  Path = {t1, a1, lg}
  FolderOf <- MCFolderOf
  LogPage = {lg, t1}
  Report = lg
  Machine = {m}
  Layouts <- MCLayouts
  Preset <- Default
  HandWritten <- MCHandWritten
  NoNote = NoNote  NoClaim = NoClaim  NoFolder = NoFolder  Plain = Plain
  ClaimStaleDays = 1
  StaleAfterDays = 0
  MaxDay = 2
  MaxCalls = 3
INVARIANT AccessInv
INVARIANT SupportInv
INVARIANT RatesInv
INVARIANT LifecycleInv
CHECK_DEADLOCK FALSE
