\* Two downloads and a fetch of each object, in a directory with room for one;
\* two calls on two keys; two uploads of an object, of one piece or three.
CONSTANTS
  o1 = o1
  o2 = o2
  t1 = t1
  t2 = t2
  Oids = {o1, o2}
  Readers = {t1, t2}
  Size <- Alike
  Ceiling = 1
  FillLimit = 2
  Wrap = 8
  MaxBytes = 2
  Clients = {t1, t2}
  Last = 2
  Page = 1
  MaxWritten = 2
  MaxTroubles = 1
  Uploads = {t1, t2}
  Lengths = {1, 5, 7, 13}
  S3_CEILING = 2
  AZURE_CEILING = 2
  GCS_CEILING = 2
  PART = 2
  SMALLEST_PART = 1
  MOST_PARTS = 3
  BLOCK = 2
  LARGEST_BLOCK = 4
  MOST_BLOCKS = 3
  CHUNK = 3
SPECIFICATION MCSpec
INVARIANTS
  
  CounterCovers
  ClaimsOwned
  AnswersHonest
  StoredWhole
PROPERTY CeilingKept
CONSTRAINT OneKey
SYMMETRY Symmetry
CHECK_DEADLOCK FALSE
