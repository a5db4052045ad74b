\* One process over a volume; two paths behind one gate, a ceiling of one lock, and
\* every request polled.
CONSTANTS
  r1 = r1
  r2 = r2
  t1 = t1
  t2 = t2
  marie = marie
  root = root
  scene = scene
  arena = arena
  Replicas <- OneReplica
  Tasks <- TwoTasks
  Actors <- Pair
  Admins <- Root
  Paths <- TwoPaths
  Slots <- OneSlot
  GateOf <- SameGate
  Bucket = FALSE
  Disconnects = FALSE
  Skew <- InStep
  MaxAge = 0
  Capacity = 1
  MaxClock = 0
  MaxDrafts = 2
  MaxLate = 0
SPECIFICATION FairSpec
INVARIANT CapacityOvershoot

  
  
