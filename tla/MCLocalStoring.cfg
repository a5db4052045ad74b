\* Old objects rewritten, pushed again, swept and downloaded; tasks dropped and killed.
CONSTANTS
  r1 = r1
  r2 = r2
  o1 = o1
  t1 = t1
  t2 = t2
  i1 = i1
  i2 = i2
  i3 = i3
  i4 = i4
  None = None
  Repos = {r1, r2}
  Oids = {o1}
  Tasks = {t1, t2}
  Inodes = {i1, i2, i3}
  Ops <- Rewriting
  Loose <- AllLoose
  Compresses = TRUE
  Interrupts = TRUE
  Meets = FALSE
  Grace = 0
  StagingAge = 0
  MaxClock = 0
  MaxTicket = 1
SPECIFICATION Spec
INVARIANTS
  
  HeldKept
  
SYMMETRY Symmetry
CHECK_DEADLOCK FALSE
