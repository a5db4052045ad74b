\* Two requests of a token's and an anonymous caller's on one repository, and
\* two pushes to two servers with room for one object more; two lookups as the
\* App of an organization with two repositories.
CONSTANTS
  t1 = t1
  t2 = t2
  alice = alice
  nobody = nobody
  scene = scene
  self = self
  h1 = h1
  h2 = h2
  o1 = o1
  o2 = o2
  art = art
  sound = sound
  Requests = {t1, t2}
  Tokens = {alice}
  Anonymous = nobody
  Namespaces = {scene}
  Self = self
  Asks <- Three
  RuleSets <- ThreeRules
  GrantedTTL = 2
  RejectedTTL = 1
  LookupTimeout = 1
  MaxChanges = 1
  PerMinute = 2
  Minute = 9
  Starts = {}
  Follow = FALSE
  MaxClock = 3
  Hosts = {h1, h2}
  Pushes = {t1, t2}
  Objects = {o1, o2}
  Sizeless = {o1}
  Size = 1
  Limit = 2
  UsageTTL = 2
  Measuring = 1
  MaxPushed = 2
  MaxSwept = 1
  MaxFailed = 1
  Seekers = {t1, t2}
  AppRepos = {art, sound}
  JWT_VALID_FOR = 5
  JWT_REUSED_FOR = 1
  TokenLife = 5
  Slack = 2
  RejectionTTL = 2
  CallTime = 2
  MaxInstalls = 1
SPECIFICATION MCSpec
INVARIANTS
  
  
  RulesObeyed
  AnonymousMayRetry
  FullRefused
  
  IdentityCurrent
CONSTRAINT OneTopic
SYMMETRY Symmetry
