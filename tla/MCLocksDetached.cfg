\* One process over a volume, callers that leave with a removal still queued.
CONSTANTS
  r1 = r1
  r2 = r2
  t1 = t1
  t2 = t2
  marie = marie
  root = root
  scene = scene
  arena = arena
  Replicas <- OneReplica
  Tasks <- TwoTasks
  Actors <- Pair
  Admins <- Root
  Paths <- OnePath
  Slots <- OneSlot
  GateOf <- SameGate
  Bucket = FALSE
  Disconnects = TRUE
  Skew <- InStep
  MaxAge = 1
  Capacity = 2
  MaxClock = 2
  MaxDrafts = 2
  MaxLate = 1
SPECIFICATION Spec
INVARIANT HeldUntilEnded
