\* Two repositories sharing one object in a bucket that predates the index: pushes,
\* streamed or uploaded straight into it, and sweeps of either, one of which
\* builds the index.
CONSTANTS
  game = game
  film = film
  a = a
  t1 = t1
  t2 = t2
  Repos <- TwoRepos
  Oids <- OneOid
  Tasks <- TwoTasks
  Legacy = TRUE
  Contested = FALSE
  Presigned = TRUE
  Grace = 1
  StagingAge = 1
  MaxClock = 1
  MaxIncoming = 1
SPECIFICATION Spec
INVARIANTS
  IndexCovers
  BytesKept
  
PROPERTY
  StoreSpec
SYMMETRY Interchanging
