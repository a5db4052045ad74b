\* Two commands at a time, two tokens, one replica and one request.
CONSTANTS
  s1 = s1
  b1 = b1
  c1 = c1
  c2 = c2
  h1 = h1
  h2 = h2
  k1 = k1
  none = none
  Servers = {s1}
  Browsers = {b1}
  Commands = {c1, c2}
  Hashes = {h1, h2}
  Ids = {}
  Keys = {k1}
  NoKey = none
  EVERY = 1
  LIFETIME = 1
  LoadTime = 1
  MaxTime = 1
  MaxOutages = 0
SPECIFICATION SessionsSpec
INVARIANT RevokedStays
CHECK_DEADLOCK FALSE
