----------------------------- MODULE FoldBucket -----------------------------
(***************************************************************************)
(* The first start over a bucket an older version filled: every key under  *)
(* a spelling of a repository's name is copied to the lowercase one, where *)
(* there is none yet, and deleted; then .lfsx/namespace-case says that it  *)
(* was done (fold_bucket of server/src/storage/canonical.rs).              *)
(*                                                                         *)
(* Replicas may start together, each with several moves under way.  Any    *)
(* request may fail, before or after it took effect, and fails the start;  *)
(* a process may also end at any point.  Clients are not served meanwhile. *)
(***************************************************************************)
EXTENDS Integers, FiniteSets

CONSTANTS
  Starters,   \* replicas that start
  Variants,   \* spellings other than the lowercase one
  Tails,      \* what follows the name in a key: an object, a lock
  AtOnce,     \* CONCURRENCY
  MaxEnds     \* bound: starts that fail

ASSUME FoldBucketConstantsOK ==
  /\ AtOnce \in Nat \ {0}
  /\ MaxEnds \in Nat
  /\ {"lower", "none", "empty"} \cap Variants = {}

VARIABLES
  bucket,   \* the keys, each with the spelling whose body it carries
  record,   \* .lfsx/namespace-case
  start,    \* the replicas
  ends,     \* starts that failed
  before    \* history: the keys the older version left

bucketVars == <<bucket, record, start, ends, before>>

-----------------------------------------------------------------------------
BucketKeys == (Variants \cup {"lower"}) \X Tails

Lowered(k) == <<"lower", k[2]>>

\* A body is known by the spelling it was written under.  A key that is not
\* there has none, and is read as an empty one.
Bodies == Variants \cup {"lower", "empty"}

Move == [key : BucketKeys, at : {"put", "delete"}, body : Bodies]

Down == [pc |-> "down", todo |-> {}, moves |-> {}]

FoldBucketTypeOK ==
  /\ bucket \in [BucketKeys -> Bodies \cup {"none"}]
  /\ record \in BOOLEAN
  /\ start \in [Starters -> [pc : {"down", "list", "move", "up"},
                             todo : SUBSET BucketKeys, moves : SUBSET Move]]
  /\ ends \in 0 .. MaxEnds
  /\ before \in SUBSET BucketKeys

FoldBucketInit ==
  /\ before \in SUBSET BucketKeys
  /\ bucket = [k \in BucketKeys |-> IF k \in before THEN k[1] ELSE "none"]
  /\ record = FALSE
  /\ start = [s \in Starters |-> Down]
  /\ ends = 0

\* A start that finds the record has nothing to do.
ReadsRecord(s) ==
  /\ start[s].pc = "down"
  /\ start' = [start EXCEPT ![s].pc = IF record THEN "up" ELSE "list"]
  /\ UNCHANGED <<bucket, record, ends, before>>

ListsKeys(s) ==
  /\ start[s].pc = "list"
  /\ start' = [start EXCEPT ![s] =
       [pc |-> "move",
        todo |-> {k \in BucketKeys : bucket[k] # "none" /\ k[1] # "lower"},
        moves |-> {}]]
  /\ UNCHANGED <<bucket, record, ends, before>>

BodyRead(k) == IF bucket[k] = "none" THEN "empty" ELSE bucket[k]

MoveReads(s, k) ==
  /\ start[s].pc = "move"
  /\ k \in start[s].todo
  /\ Cardinality(start[s].moves) < AtOnce
  /\ start' = [start EXCEPT ![s] =
       [pc |-> "move",
        todo |-> start[s].todo \ {k},
        moves |-> start[s].moves \cup {[key |-> k, at |-> "put", body |-> BodyRead(k)]}]]
  /\ UNCHANGED <<bucket, record, ends, before>>

\* Mutant of PutIfAbsent: the last to come is kept.
PutAnyway(k, body) == [bucket EXCEPT ![k] = body]

PutIfAbsent(k, body) == [bucket EXCEPT ![k] = IF @ = "none" THEN body ELSE @]

MovePuts(s, m) ==
  /\ m \in start[s].moves
  /\ m.at = "put"
  /\ bucket' = PutIfAbsent(Lowered(m.key), m.body)
  /\ start' = [start EXCEPT ![s].moves = (@ \ {m}) \cup {[m EXCEPT !.at = "delete"]}]
  /\ UNCHANGED <<record, ends, before>>

MoveDeletes(s, m) ==
  /\ m \in start[s].moves
  /\ m.at = "delete"
  /\ bucket' = [bucket EXCEPT ![m.key] = "none"]
  /\ start' = [start EXCEPT ![s].moves = @ \ {m}]
  /\ UNCHANGED <<record, ends, before>>

\* Mutant of Records: done once every move has begun.
RecordsEarly(s) ==
  /\ start[s].pc = "move"
  /\ start[s].todo = {}
  /\ record' = TRUE
  /\ start' = [start EXCEPT ![s].pc = IF start[s].moves = {} THEN "up" ELSE @]
  /\ UNCHANGED <<bucket, ends, before>>

Records(s) ==
  /\ start[s].pc = "move"
  /\ start[s].todo = {}
  /\ start[s].moves = {}
  /\ record' = TRUE
  /\ start' = [start EXCEPT ![s].pc = "up"]
  /\ UNCHANGED <<bucket, ends, before>>

\* The process ends, or a request fails and the start with it, and what is
\* under way is dropped.  Of a request that fails after it took effect the step
\* before this one was the effect.
StartFails(s) ==
  /\ start[s].pc # "down"
  /\ ends < MaxEnds
  /\ ends' = ends + 1
  /\ start' = [start EXCEPT ![s] = Down]
  /\ UNCHANGED <<bucket, record, before>>

FoldBucketNext ==
  \E s \in Starters :
    \/ ReadsRecord(s) \/ ListsKeys(s) \/ Records(s) \/ StartFails(s)
    \/ \E k \in BucketKeys : MoveReads(s, k)
    \/ \E m \in start[s].moves : MovePuts(s, m) \/ MoveDeletes(s, m)

FoldBucketSpec == FoldBucketInit /\ [][FoldBucketNext]_bucketVars

-----------------------------------------------------------------------------
(* Properties.                                                             *)

SomeUp == \E s \in Starters : start[s].pc = "up"

\* Whatever failed on the way and however many replicas started, a server that
\* is up finds every key an older version wrote under its lowercase name and
\* none under another (canonical.rs 37-64): a replica that finds the record
\* need not look.
KeysFolded ==
  SomeUp =>
    \A k \in BucketKeys :
      bucket[k] # "none" <=> k[1] = "lower" /\ \E o \in before : Lowered(o) = k

\* At no point is a key's body lost or made up: it is what one of the
\* spellings held, and what the lowercase one held if it was there, so that
\* of two locks the one a current server can see is kept, and a key that is
\* gone when it is read never becomes an empty lock (canonical.rs 51-55).
BodiesKept ==
  \A t \in Tails :
    LET left == {k \in before : k[2] = t} IN
    left # {} =>
      /\ \E k \in BucketKeys : k[2] = t /\ <<bucket[k], t>> \in left
      /\ bucket[<<"lower", t>>] # "none" => <<bucket[<<"lower", t>>], t>> \in left
      /\ <<"lower", t>> \in left => bucket[<<"lower", t>>] = "lower"
=============================================================================
