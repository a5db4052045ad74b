\* Two replicas, two dashboard requests, a budget of three lookups a minute, two
\* transfers with one slot, and two spellings of a name.
CONSTANTS
  r1 = r1
  r2 = r2
  e1 = e1
  e2 = e2
  open = open
  env = env
  stray = stray
  b1 = b1
  b2 = b2
  c1 = c1
  h1 = h1
  i1 = i1
  k1 = k1
  k2 = k2
  none = none
  x1 = x1
  x2 = x2
  upper = upper
  mixed = mixed
  obj = obj
  lock = lock
  Replicas = {r1, r2}
  Editors = {e1, e2}
  Settings = {open}
  Environment = env
  Stray = stray
  MaxWrites = 2
  MaxRestarts = 1
  Servers = {r1, r2}
  Browsers = {b1, b2}
  Commands = {c1}
  Hashes = {h1}
  Ids = {i1}
  Keys = {k1, k2}
  NoKey = none
  EVERY = 2
  LIFETIME = 2
  LoadTime = 1
  MaxTime = 3
  MaxOutages = 1
  PerMinute = 3
  Minute = 5
  Starts = {0, 2, 5, 6}
  Follow = TRUE
  MaxClock = 14
  Transfers = {x1, x2}
  MaxTransfers = 1
  IDLE = 1
  Length = 2
  Spellings = {upper, mixed}
  Entries = {obj, lock}
  MaxCrashes = 2
  Starters = {r1, r2}
  Variants = {upper, mixed}
  Tails = {lock}
  AtOnce = 2
  MaxEnds = 1
SPECIFICATION Spec
INVARIANTS
  NoRevert
  KeyAgreed
  RevokedGone
  EndedStaysEnded
  WindowKept
  PromiseKept
  EndsHonestly
  
  FilesKept
  KeysFolded
  BodiesKept
PROPERTY
  RulesSettle
CONSTRAINT Few
CHECK_DEADLOCK FALSE
