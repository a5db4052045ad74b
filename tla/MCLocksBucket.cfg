\* Two replicas over one bucket: lost answers, late writes, clock skew.
CONSTANTS
  r1 = r1
  r2 = r2
  t1 = t1
  t2 = t2
  marie = marie
  root = root
  scene = scene
  arena = arena
  Replicas <- AllReplicas
  Tasks <- TwoTasks
  Actors <- Pair
  Admins <- Root
  Paths <- OnePath
  Slots <- OneSlot
  GateOf <- SameGate
  Bucket = TRUE
  Disconnects = TRUE
  Skew <- Ahead
  MaxAge = 1
  Capacity = 2
  MaxClock = 2
  MaxDrafts = 2
  MaxLate = 1
SPECIFICATION Spec
INVARIANTS
  HeldUntilEnded
  OneHolder
  EndedByRight
SYMMETRY TaskSymmetry
