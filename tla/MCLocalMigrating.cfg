\* Old copies folded into .content beside pushes and sweeps.
CONSTANTS
  r1 = r1
  r2 = r2
  o1 = o1
  t1 = t1
  t2 = t2
  i1 = i1
  i2 = i2
  i3 = i3
  i4 = i4
  None = None
  Repos = {r1, r2}
  Oids = {o1}
  Tasks = {t1, t2}
  Inodes = {i1, i2, i3, i4}
  Ops <- Migrating
  Loose <- AllLoose
  Compresses = TRUE
  Interrupts = FALSE
  Meets = FALSE
  Grace = 1
  StagingAge = 1
  MaxClock = 1
  MaxTicket = 1
SPECIFICATION Spec
INVARIANT HeldOrMoving
PROPERTY StoreSpec
SYMMETRY Symmetry
CHECK_DEADLOCK FALSE
