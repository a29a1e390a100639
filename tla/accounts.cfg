SPECIFICATION MCSpec
CONSTANTS
  Account = {ann, bob}
  Slug = {x, y}
  FirstSlug = x
  MaxVaults = 3
  Process = {s1, s2}
  NoOne = NoOne
  Handler = {h1, h2}
  MaxGrants = 3
  Person = {pa, pb}
  Browser = {b1, b2}
  Way = {mail, hub, hubB, key}
  WayOf <- MCWayOf
  WayKind <- MCWayKind
  AnyoneRegisters = FALSE
  MaxCeremonies = 2
  NoBody = NoBody
  Layout = {default, para, custom}
  BuiltIn = default
  Custom = custom
  Unknown = Unknown
  ViewsOf <- MCViewsOf
  SchemaKey = SchemaKey
  PreviousKey = PreviousKey
  WelcomeKey = WelcomeKey
  Note = {n1, n2}
  Archive <- MCArchive
  Hand = {w1, w2}
  MaxJobs = 2
  MaxEdits = 1
  MaxStops = 1
  NoFile = NoFile
  Anything = Anything
  s1 = s1
  s2 = s2
  h1 = h1
  h2 = h2
  b1 = b1
  b2 = b2
  pa = pa
  pb = pb
  mail = mail
  hub = hub
  hubB = hubB
  key = key
  w1 = w1
  w2 = w2
  default = default  para = para  custom = custom
  areas = areas  open = open  all = all  n1 = n1
  ann = ann  bob = bob
SYMMETRY Symmetric
INVARIANT MembershipInv
INVARIANT GrantsInv
INVARIANT SignInInv
INVARIANT LayoutsInv
PROPERTY NobodyLosesAVault
CHECK_DEADLOCK FALSE
