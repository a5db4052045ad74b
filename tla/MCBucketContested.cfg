\* A push of the very object a sweep of the same repository is dropping.
CONSTANTS
  game = game
  film = film
  a = a
  t1 = t1
  t2 = t2
  Repos <- TwoRepos
  Oids <- OneOid
  Tasks <- TwoTasks
  Legacy = FALSE
  Contested = TRUE
  Presigned = FALSE
  Grace = 1
  StagingAge = 1
  MaxClock = 1
  MaxIncoming = 1
SPECIFICATION Spec
INVARIANT IndexCovers
SYMMETRY Interchanging
