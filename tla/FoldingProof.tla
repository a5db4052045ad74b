----------------------------- MODULE FoldingProof -----------------------------
(***************************************************************************)
(* Neither migration of server/src/storage/canonical.rs loses anything,    *)
(* for any number of spellings, entries, keys, replicas and interruptions. *)
(*                                                                         *)
(* On a volume what is kept is an equation between unions; it is proved    *)
(* file by file, from what a start knows of the directories at each step.  *)
(* In a bucket the argument is that a key under an old spelling is deleted *)
(* only after its lowercase one is there, so that a replica which reads a  *)
(* key another has deleted never gets to put the empty body it read.       *)
(***************************************************************************)
EXTENDS FoldVolume, FoldBucket, TLAPS

(* Volumes.                                                                *)

\* File by file: what was written is somewhere, and nothing else is.
Somewhere(e) == \E d \in Names : There(d) /\ e \in dirs[d]

Kept == \A e \in Entries : e \in written <=> Somewhere(e)

\* What a start relies on where it is.
Known ==
  /\ fold.pc \in {"park", "settle", "merge"} => \A d \in Spellings : d \in fold.todo <=> There(d)
  /\ fold.pc \in {"settle", "merge"} => There("parked")
  /\ fold.pc = "merge" => There("lower")
  /\ fold.pc = "up" => \A d \in Names \ {"lower"} : ~There(d)

VolumeInv == FoldVolumeTypeOK /\ Kept /\ Known

\* The equation FilesKept states is Kept.
LEMMA KeptUnion ==
  ASSUME FoldVolumeTypeOK
  PROVE  Kept <=> written = UNION {dirs[d] : d \in {n \in Names : There(n)}}
<1> DEFINE all == UNION {dirs[d] : d \in {n \in Names : There(n)}}
<1>1. \A e : e \in all <=> Somewhere(e)
  BY DEF Somewhere
<1>2. \A e \in all : e \in Entries
  BY DEF FoldVolumeTypeOK, There
<1>3. written \subseteq Entries
  BY DEF FoldVolumeTypeOK
<1>4. Kept => \A e : e \in written <=> e \in all
  BY <1>1, <1>2, <1>3 DEF Kept
<1>5. written = all => Kept
  BY <1>1 DEF Kept
<1> QED BY <1>4, <1>5

LEMMA VolumeInit == FoldVolumeInit => VolumeInv
<1> SUFFICES ASSUME FoldVolumeInit PROVE VolumeInv
  OBVIOUS
<1>1. written \subseteq Entries
  BY DEF FoldVolumeInit, There
<1>2. FoldVolumeTypeOK
  BY <1>1, FoldVolumeConstantsOK DEF FoldVolumeInit, FoldVolumeTypeOK
<1>3. Kept
  BY <1>2, KeptUnion DEF FoldVolumeInit
<1>4. Known
  BY DEF FoldVolumeInit, Known
<1> QED BY <1>2, <1>3, <1>4 DEF VolumeInv

\* A step that leaves the files where they are leaves them written.
LEMMA Untouched ==
  ASSUME Kept, UNCHANGED <<dirs, written>>
  PROVE  Kept'
BY DEF Kept, Somewhere, There, Names

LEMMA BeginsKeeps == VolumeInv /\ FoldBegins => VolumeInv'
<1> SUFFICES ASSUME VolumeInv, FoldBegins PROVE VolumeInv'
  OBVIOUS
<1>1. Kept'
  BY Untouched DEF VolumeInv, FoldBegins
<1>2. FoldVolumeTypeOK'
  BY DEF VolumeInv, FoldBegins, FoldVolumeTypeOK
<1>3. Known'
  BY DEF VolumeInv, FoldBegins, Known, There, FoldVolumeTypeOK
<1> QED BY <1>1, <1>2, <1>3 DEF VolumeInv

LEMMA ParksKeeps == \A d \in Spellings : VolumeInv /\ Parks(d) => VolumeInv'
<1> SUFFICES ASSUME NEW d \in Spellings, VolumeInv, Parks(d) PROVE VolumeInv'
  OBVIOUS
<1> USE FoldVolumeConstantsOK
<1>0. /\ d \in Names /\ "parked" \in Names /\ "lower" \in Names
      /\ d # "parked" /\ d # "lower"
      /\ There(d)
      /\ dirs \in [Names -> (SUBSET Entries) \cup {Absent}]
      /\ dirs["parked"] \in {Absent, {}}
      /\ dirs' = [dirs EXCEPT !["parked"] = dirs[d], ![d] = Absent]
      /\ fold.pc = "park"
      /\ fold' = [pc |-> "settle", todo |-> fold.todo \ {d}]
      /\ written' = written /\ crashes' = crashes
  BY DEF Parks, VolumeInv, Known, Names, FoldVolumeTypeOK
<1>a. {} # Absent
  BY DEF Absent
<1>1. FoldVolumeTypeOK'
  BY <1>0 DEF VolumeInv, FoldVolumeTypeOK
<1>2. /\ dirs'["parked"] = dirs[d]
      /\ dirs'[d] = Absent
      /\ \A n \in Names \ {d, "parked"} : dirs'[n] = dirs[n]
  BY <1>0
<1>3. Kept'
  <2> SUFFICES ASSUME NEW e \in Entries
               PROVE  Somewhere(e) <=> Somewhere(e)'
    BY <1>0 DEF Kept, VolumeInv
  <2>1. Somewhere(e) => Somewhere(e)'
    <3> SUFFICES ASSUME NEW n \in Names, There(n), e \in dirs[n]
                 PROVE  Somewhere(e)'
      BY DEF Somewhere
    <3>1. CASE n = d
      BY <3>1, <1>0, <1>2 DEF Somewhere, There
    <3>2. CASE n = "parked"
      BY <3>2, <1>0 DEF There
    <3>3. CASE n \notin {d, "parked"}
      BY <3>3, <1>2 DEF Somewhere, There
    <3> QED BY <3>1, <3>2, <3>3
  <2>2. Somewhere(e)' => Somewhere(e)
    <3> SUFFICES ASSUME NEW n \in Names, dirs'[n] # Absent, e \in dirs'[n]
                 PROVE  Somewhere(e)
      BY DEF Somewhere, There, Names
    <3>1. CASE n = "parked"
      BY <3>1, <1>0, <1>2 DEF Somewhere
    <3>2. CASE n # "parked"
      BY <3>2, <1>0, <1>2 DEF Somewhere, There
    <3> QED BY <3>1, <3>2
  <2> QED BY <2>1, <2>2
<1>4. Known'
  BY <1>0, <1>2, <1>a DEF VolumeInv, Known, There, Names
<1> QED BY <1>1, <1>3, <1>4 DEF VolumeInv

LEMMA TurnsKeeps ==
  ASSUME VolumeInv,
         \/ ParkFails
         \/ Finishes
         \/ Ended
  PROVE  VolumeInv'
<1>1. Kept'
  BY Untouched DEF VolumeInv, ParkFails, Finishes, Ended
<1>2. FoldVolumeTypeOK'
  BY FoldVolumeConstantsOK DEF VolumeInv, ParkFails, Finishes, Ended, Turns, FoldVolumeTypeOK
<1>3. Known'
  BY DEF VolumeInv, ParkFails, Finishes, Ended, Turns, Known, There, Names, FoldVolumeTypeOK
<1> QED BY <1>1, <1>2, <1>3 DEF VolumeInv

LEMMA SettlesKeeps == VolumeInv /\ Settles => VolumeInv'
<1> SUFFICES ASSUME VolumeInv, Settles PROVE VolumeInv'
  OBVIOUS
<1> USE FoldVolumeConstantsOK
<1>0. /\ "parked" \in Names /\ "lower" \in Names
      /\ dirs \in [Names -> (SUBSET Entries) \cup {Absent}]
      /\ There("parked")
      /\ fold.pc = "settle"
      /\ written' = written /\ crashes' = crashes
  BY DEF Settles, VolumeInv, Known, Names, FoldVolumeTypeOK
<1>a. CASE There("lower")
  <2>1. UNCHANGED dirs /\ Turns("merge")
    BY <1>a DEF Settles
  <2>2. Kept'
    BY <2>1, <1>0, Untouched DEF VolumeInv
  <2>3. FoldVolumeTypeOK'
    BY <2>1, <1>0 DEF VolumeInv, Turns, FoldVolumeTypeOK
  <2>4. Known'
    BY <2>1, <1>0, <1>a DEF VolumeInv, Turns, Known, There, Names, FoldVolumeTypeOK
  <2> QED BY <2>2, <2>3, <2>4 DEF VolumeInv
<1>b. CASE ~There("lower")
  <2>1. /\ dirs' = [dirs EXCEPT !["lower"] = dirs["parked"], !["parked"] = Absent]
        /\ Turns("park")
    BY <1>b DEF Settles
  <2>2. /\ dirs'["lower"] = dirs["parked"]
        /\ dirs'["parked"] = Absent
        /\ \A n \in Names \ {"lower", "parked"} : dirs'[n] = dirs[n]
    BY <2>1, <1>0
  <2>3. Kept'
    <3> SUFFICES ASSUME NEW e \in Entries
                 PROVE  Somewhere(e) <=> Somewhere(e)'
      BY <1>0 DEF Kept, VolumeInv
    <3>1. Somewhere(e) => Somewhere(e)'
      <4> SUFFICES ASSUME NEW n \in Names, There(n), e \in dirs[n]
                   PROVE  Somewhere(e)'
        BY DEF Somewhere
      <4>1. CASE n = "parked"
        BY <4>1, <1>0, <2>2 DEF Somewhere, There
      <4>2. CASE n = "lower"
        BY <4>2, <1>b
      <4>3. CASE n \notin {"lower", "parked"}
        BY <4>3, <2>2 DEF Somewhere, There
      <4> QED BY <4>1, <4>2, <4>3
    <3>2. Somewhere(e)' => Somewhere(e)
      <4> SUFFICES ASSUME NEW n \in Names, dirs'[n] # Absent, e \in dirs'[n]
                   PROVE  Somewhere(e)
        BY DEF Somewhere, There, Names
      <4>1. CASE n = "lower"
        BY <4>1, <1>0, <2>2 DEF Somewhere
      <4>2. CASE n # "lower"
        BY <4>2, <1>0, <2>2 DEF Somewhere, There
      <4> QED BY <4>1, <4>2
    <3> QED BY <3>1, <3>2
  <2>4. FoldVolumeTypeOK'
    BY <2>1, <1>0 DEF VolumeInv, Turns, FoldVolumeTypeOK
  <2>5. Known'
    BY <2>1, <2>2, <1>0 DEF VolumeInv, Turns, Known, There, Names, FoldVolumeTypeOK
  <2> QED BY <2>3, <2>4, <2>5 DEF VolumeInv
<1> QED BY <1>a, <1>b

LEMMA MergesKeeps == \A f \in Entries : VolumeInv /\ Merges(f) => VolumeInv'
<1> SUFFICES ASSUME NEW f \in Entries, VolumeInv, Merges(f) PROVE VolumeInv'
  OBVIOUS
<1> USE FoldVolumeConstantsOK
<1>0. /\ "parked" \in Names /\ "lower" \in Names /\ "parked" # "lower"
      /\ dirs \in [Names -> (SUBSET Entries) \cup {Absent}]
      /\ There("parked") /\ There("lower")
      /\ f \in dirs["parked"]
      /\ dirs' = [dirs EXCEPT !["lower"] = @ \cup {f}, !["parked"] = @ \ {f}]
      /\ fold.pc = "merge"
      /\ UNCHANGED <<fold, crashes, written>>
  BY DEF Merges, VolumeInv, Known, Names, FoldVolumeTypeOK
<1>1. /\ dirs["lower"] \in SUBSET Entries /\ dirs["parked"] \in SUBSET Entries
  BY <1>0 DEF There
<1>2. /\ dirs'["lower"] = dirs["lower"] \cup {f}
      /\ dirs'["parked"] = dirs["parked"] \ {f}
      /\ \A n \in Names \ {"lower", "parked"} : dirs'[n] = dirs[n]
      /\ dirs' \in [Names -> (SUBSET Entries) \cup {Absent}]
  BY <1>0, <1>1
<1>3. dirs'["lower"] # Absent /\ dirs'["parked"] # Absent
  BY <1>1, <1>2 DEF Absent
<1>4. Kept'
  <2> SUFFICES ASSUME NEW e \in Entries
               PROVE  Somewhere(e) <=> Somewhere(e)'
    BY <1>0 DEF Kept, VolumeInv
  <2>1. Somewhere(e) => Somewhere(e)'
    <3> SUFFICES ASSUME NEW n \in Names, There(n), e \in dirs[n]
                 PROVE  Somewhere(e)'
      BY DEF Somewhere
    <3>1. CASE e = f
      BY <3>1, <1>0, <1>2, <1>3 DEF Somewhere, There
    <3>2. CASE e # f
      BY <3>2, <1>0, <1>2, <1>3 DEF Somewhere, There
    <3> QED BY <3>1, <3>2
  <2>2. Somewhere(e)' => Somewhere(e)
    <3> SUFFICES ASSUME NEW n \in Names, dirs'[n] # Absent, e \in dirs'[n]
                 PROVE  Somewhere(e)
      BY DEF Somewhere, There, Names
    <3>1. CASE n \in {"lower", "parked"}
      BY <3>1, <1>0, <1>2 DEF Somewhere
    <3>2. CASE n \notin {"lower", "parked"}
      BY <3>2, <1>2 DEF Somewhere, There
    <3> QED BY <3>1, <3>2
  <2> QED BY <2>1, <2>2
<1>5. FoldVolumeTypeOK'
  BY <1>0, <1>2 DEF VolumeInv, FoldVolumeTypeOK
<1>6. Known'
  BY <1>0, <1>2, <1>3 DEF VolumeInv, Known, There, Names
<1> QED BY <1>4, <1>5, <1>6 DEF VolumeInv

LEMMA MergeEndsKeeps == VolumeInv /\ MergeEnds => VolumeInv'
<1> SUFFICES ASSUME VolumeInv, MergeEnds PROVE VolumeInv'
  OBVIOUS
<1> USE FoldVolumeConstantsOK
<1>0. /\ "parked" \in Names
      /\ dirs \in [Names -> (SUBSET Entries) \cup {Absent}]
      /\ dirs["parked"] = {}
      /\ dirs' = [dirs EXCEPT !["parked"] = Absent]
      /\ Turns("park")
      /\ fold.pc = "merge"
      /\ UNCHANGED <<crashes, written>>
  BY DEF MergeEnds, VolumeInv, Names, FoldVolumeTypeOK
<1>1. /\ dirs'["parked"] = Absent
      /\ \A n \in Names \ {"parked"} : dirs'[n] = dirs[n]
  BY <1>0
<1>2. Kept'
  <2> SUFFICES ASSUME NEW e \in Entries
               PROVE  Somewhere(e) <=> Somewhere(e)'
    BY <1>0 DEF Kept, VolumeInv
  <2>1. Somewhere(e) => Somewhere(e)'
    BY <1>0, <1>1 DEF Somewhere, There
  <2>2. Somewhere(e)' => Somewhere(e)
    BY <1>0, <1>1 DEF Somewhere, There, Names
  <2> QED BY <2>1, <2>2
<1>3. FoldVolumeTypeOK'
  BY <1>0 DEF VolumeInv, Turns, FoldVolumeTypeOK
<1>4. Known'
  BY <1>0, <1>1 DEF VolumeInv, Turns, Known, There, Names, FoldVolumeTypeOK
<1> QED BY <1>2, <1>3, <1>4 DEF VolumeInv

\* Whatever the spellings and the files, and however often a start is
\* interrupted, no file is lost, and a server that is up has them all under the
\* lowercase name (canonical.rs 69-176).
THEOREM FilesStay == FoldVolumeSpec => []FilesKept
<1>1. VolumeInv /\ [FoldVolumeNext]_foldVars => VolumeInv'
  <2>1. VolumeInv /\ UNCHANGED foldVars => VolumeInv'
    BY DEF VolumeInv, FoldVolumeTypeOK, Kept, Known, Somewhere, There, Names, foldVars
  <2> QED BY <2>1, BeginsKeeps, ParksKeeps, TurnsKeeps, SettlesKeeps, MergesKeeps, MergeEndsKeeps
          DEF FoldVolumeNext
<1>2. VolumeInv => FilesKept
  BY KeptUnion DEF VolumeInv, Known, FilesKept
<1> QED BY VolumeInit, <1>1, <1>2, PTL DEF FoldVolumeSpec

-----------------------------------------------------------------------------
(* Buckets.                                                                *)

Start == [pc : {"down", "list", "move", "up"}, todo : SUBSET BucketKeys, moves : SUBSET Move]

Old(k) == k \in BucketKeys /\ k[1] # "lower"

Is(k) == bucket[k] # "none"

\* Under an old spelling is what was written there, or nothing, and then the
\* lowercase key is there.
OldKeys ==
  \A k \in BucketKeys :
    k[1] # "lower" =>
      /\ Is(k) => k \in before /\ bucket[k] = k[1]
      /\ k \in before => Is(k) \/ Is(Lowered(k))

\* Under the lowercase name is what was written there, or else what was written
\* under an old spelling.
LowerKeys ==
  \A t \in Tails :
    /\ Is(<<"lower", t>>) => <<bucket[<<"lower", t>>], t>> \in before
    /\ <<"lower", t>> \in before => bucket[<<"lower", t>>] = "lower"

\* A move is of an old key.  Its lowercase key is there before the old one is
\* deleted, and while there is nothing to put.
MoveOK(m) ==
  /\ Old(m.key)
  /\ m.at = "delete" => Is(Lowered(m.key))
  /\ m.body = "empty" => Is(Lowered(m.key))
  /\ m.body # "empty" => <<m.body, m.key[2]>> \in before

MovesOK ==
  \A s \in Starters :
    /\ \A k \in start[s].todo : Old(k) /\ k \in before
    /\ \A m \in start[s].moves : MoveOK(m)

\* A start in the middle of its moves has every old key that is there before it.
Ahead ==
  \A s \in Starters :
    start[s].pc = "move" =>
      \A k \in BucketKeys :
        k[1] # "lower" /\ Is(k) =>
          k \in start[s].todo \/ \E m \in start[s].moves : m.key = k

\* What the record says, and who is up by it.
Recorded ==
  /\ record => \A k \in BucketKeys : k[1] # "lower" => ~Is(k)
  /\ \A s \in Starters : start[s].pc = "up" => record

BucketInv ==
  /\ FoldBucketTypeOK
  /\ OldKeys
  /\ LowerKeys
  /\ MovesOK
  /\ Ahead
  /\ Recorded

LEMMA Keys ==
  /\ \A k \in BucketKeys : /\ k[1] \in Variants \cup {"lower"} /\ k[2] \in Tails
                           /\ k = <<k[1], k[2]>>
                           /\ Lowered(k) = <<"lower", k[2]>>
                           /\ Lowered(k) \in BucketKeys
                           /\ Lowered(k)[1] = "lower"
                           /\ k[1] = "lower" => Lowered(k) = k
  /\ \A t \in Tails : <<"lower", t>> \in BucketKeys
BY DEF BucketKeys, Lowered

LEMMA BucketInit == FoldBucketInit => BucketInv
<1> SUFFICES ASSUME FoldBucketInit PROVE BucketInv
  OBVIOUS
<1> USE FoldBucketConstantsOK
<1>1. FoldBucketTypeOK
  <2>1. bucket \in [BucketKeys -> Bodies \cup {"none"}]
    BY Keys DEF FoldBucketInit, Bodies
  <2>2. Down \in Start
    BY DEF Down, Start
  <2>3. start \in [Starters -> Start]
    BY <2>2 DEF FoldBucketInit
  <2>4. record \in BOOLEAN /\ before \in SUBSET BucketKeys
    BY Zenon DEF FoldBucketInit
  <2>5. ends \in 0 .. MaxEnds
    BY DEF FoldBucketInit
  <2> QED BY <2>1, <2>3, <2>4, <2>5, Zenon DEF FoldBucketTypeOK, Start
<1>2. OldKeys
  BY Keys DEF FoldBucketInit, OldKeys, Is
<1>3. LowerKeys
  BY Keys DEF FoldBucketInit, LowerKeys, Is
<1>4. MovesOK /\ Ahead /\ Recorded
  BY DEF FoldBucketInit, MovesOK, Ahead, Recorded, Down
<1> QED BY <1>1, <1>2, <1>3, <1>4 DEF BucketInv

\* A step of one replica that leaves the keys alone.
LEMMA KeysAlone ==
  ASSUME BucketInv, UNCHANGED <<bucket, before>>
  PROVE  OldKeys' /\ LowerKeys'
BY DEF BucketInv, OldKeys, LowerKeys, Is, Lowered, BucketKeys

LEMMA ReadsRecordKeeps == \A s \in Starters : BucketInv /\ ReadsRecord(s) => BucketInv'
<1> SUFFICES ASSUME NEW s \in Starters, BucketInv, ReadsRecord(s) PROVE BucketInv'
  OBVIOUS
<1>1. OldKeys' /\ LowerKeys'
  BY KeysAlone DEF ReadsRecord
<1>2. FoldBucketTypeOK'
  BY DEF BucketInv, ReadsRecord, FoldBucketTypeOK
<1>3. MovesOK'
  <2>1. UNCHANGED <<bucket, before>>
    BY DEF ReadsRecord
  <2>2. ASSUME NEW u \in Starters
        PROVE  start'[u].todo = start[u].todo /\ start'[u].moves = start[u].moves
    BY DEF BucketInv, ReadsRecord, FoldBucketTypeOK
  <2>3. ASSUME NEW m, MoveOK(m) PROVE MoveOK(m)'
    BY <2>1, <2>3 DEF MoveOK, Old, Is
  <2>4. ASSUME NEW u \in Starters, NEW m \in start[u].moves PROVE MoveOK(m)'
    BY <2>3 DEF BucketInv, MovesOK
  <2> QED BY <2>1, <2>2, <2>4 DEF BucketInv, MovesOK, Old
<1>4. Ahead'
  BY DEF BucketInv, ReadsRecord, Ahead, Is, FoldBucketTypeOK
<1>5. Recorded'
  BY DEF BucketInv, ReadsRecord, Recorded, Is, FoldBucketTypeOK
<1> QED BY <1>1, <1>2, <1>3, <1>4, <1>5 DEF BucketInv

LEMMA ListsKeeps == \A s \in Starters : BucketInv /\ ListsKeys(s) => BucketInv'
<1> SUFFICES ASSUME NEW s \in Starters, BucketInv, ListsKeys(s) PROVE BucketInv'
  OBVIOUS
<1>1. OldKeys' /\ LowerKeys'
  BY KeysAlone DEF ListsKeys
<1>2. FoldBucketTypeOK'
  BY DEF BucketInv, ListsKeys, FoldBucketTypeOK
<1>3. MovesOK'
  BY DEF BucketInv, ListsKeys, OldKeys, MovesOK, MoveOK, Old, Is, FoldBucketTypeOK
<1>4. Ahead'
  BY DEF BucketInv, ListsKeys, Ahead, Is, FoldBucketTypeOK
<1>5. Recorded'
  BY DEF BucketInv, ListsKeys, Recorded, Is, FoldBucketTypeOK
<1> QED BY <1>1, <1>2, <1>3, <1>4, <1>5 DEF BucketInv

LEMMA MoveReadsKeeps ==
  \A s \in Starters, k \in BucketKeys : BucketInv /\ MoveReads(s, k) => BucketInv'
<1> SUFFICES ASSUME NEW s \in Starters, NEW k \in BucketKeys, BucketInv, MoveReads(s, k)
             PROVE  BucketInv'
  OBVIOUS
<1> USE FoldBucketConstantsOK
<1> DEFINE move == [key |-> k, at |-> "put", body |-> BodyRead(k)]
<1>0. /\ start[s].pc = "move"
      /\ k \in start[s].todo
      /\ start' = [start EXCEPT ![s] = [pc |-> "move", todo |-> start[s].todo \ {k},
                                        moves |-> start[s].moves \cup {move}]]
      /\ UNCHANGED <<bucket, record, ends, before>>
  BY DEF MoveReads
<1>1. OldKeys' /\ LowerKeys'
  BY <1>0, KeysAlone
<1>3. Old(k)
  BY <1>0 DEF BucketInv, MovesOK
<1>m. move \in Move /\ move.key = k
  <2>1. BodyRead(k) \in Bodies
    BY DEF BucketInv, FoldBucketTypeOK, Bodies, BodyRead
  <2> QED BY <2>1 DEF Move
<1>6. MoveOK(move)
  <2>1. CASE Is(k)
    <3>1. bucket[k] = k[1] /\ k \in before /\ k[1] \in Variants
      BY <2>1, <1>3, Keys DEF BucketInv, OldKeys, Old
    <3>2. BodyRead(k) = k[1] /\ k[1] # "empty" /\ <<BodyRead(k), k[2]>> \in before
      BY <3>1, <2>1, Keys DEF Is, BodyRead
    <3> QED BY <3>2, <1>3 DEF MoveOK
  <2>2. CASE ~Is(k)
    <3>1. BodyRead(k) = "empty"
      BY <2>2 DEF Is, BodyRead
    <3>2. Is(Lowered(k))
      <4>1. k \in before
        BY <1>0 DEF BucketInv, MovesOK
      <4> QED BY <4>1, <2>2, <1>3 DEF BucketInv, OldKeys, Old
    <3> QED BY <3>1, <3>2, <1>3 DEF MoveOK
  <2> QED BY <2>1, <2>2
<1> HIDE DEF move
<1>2. /\ start'[s].pc = "move"
      /\ start'[s].todo = start[s].todo \ {k}
      /\ start'[s].moves = start[s].moves \cup {move}
      /\ start'[s] \in Start
      /\ \A r \in Starters \ {s} : start'[r] = start[r]
  <2>1. start[s] \in Start /\ start \in [Starters -> Start]
    BY DEF BucketInv, FoldBucketTypeOK, Start
  <2>2. start'[s] = [pc |-> "move", todo |-> start[s].todo \ {k},
                      moves |-> start[s].moves \cup {move}]
    BY <2>1, <1>0
  <2> QED BY <2>1, <2>2, <1>0, <1>m DEF Start
<1>5. FoldBucketTypeOK'
  BY <1>0, <1>2 DEF BucketInv, FoldBucketTypeOK, Start
<1>7. MovesOK'
  <2> SUFFICES ASSUME NEW r \in Starters
               PROVE  /\ \A l \in start'[r].todo : Old(l) /\ l \in before
                      /\ \A m \in start'[r].moves : MoveOK(m)
    BY <1>0 DEF MovesOK, MoveOK, Old, Is
  <2>1. CASE r = s
    BY <2>1, <1>2, <1>6 DEF BucketInv, MovesOK
  <2>2. CASE r # s
    BY <2>2, <1>2 DEF BucketInv, MovesOK
  <2> QED BY <2>1, <2>2
<1>8. Ahead'
  <2> SUFFICES ASSUME NEW r \in Starters, start'[r].pc = "move",
                      NEW l \in BucketKeys, l[1] # "lower", Is(l)
               PROVE  l \in start'[r].todo \/ \E m \in start'[r].moves : m.key = l
    BY <1>0 DEF Ahead, Is
  <2>1. CASE r = s
    <3>1. l \in start[s].todo \/ \E m \in start[s].moves : m.key = l
      BY <2>1, <1>0 DEF BucketInv, Ahead
    <3> QED BY <3>1, <2>1, <1>2, <1>m
  <2>2. CASE r # s
    BY <2>2, <1>2 DEF BucketInv, Ahead
  <2> QED BY <2>1, <2>2
<1>9. Recorded'
  BY <1>0, <1>2 DEF BucketInv, Recorded, Is
<1> QED BY <1>1, <1>5, <1>7, <1>8, <1>9 DEF BucketInv

LEMMA MovePutsKeeps ==
  \A s \in Starters : \A m \in start[s].moves : BucketInv /\ MovePuts(s, m) => BucketInv'
<1> SUFFICES ASSUME NEW s \in Starters, NEW m \in start[s].moves, BucketInv, MovePuts(s, m)
             PROVE  BucketInv'
  OBVIOUS
<1> USE FoldBucketConstantsOK
<1> DEFINE low == Lowered(m.key)
           next == [m EXCEPT !.at = "delete"]
<1>t. /\ start \in [Starters -> Start] /\ start[s] \in Start
      /\ bucket \in [BucketKeys -> Bodies \cup {"none"}]
      /\ m \in Move /\ m.key \in BucketKeys
  BY DEF BucketInv, FoldBucketTypeOK, Start, Move
<1>0. /\ bucket' = [bucket EXCEPT ![low] = IF @ = "none" THEN m.body ELSE @]
      /\ start' = [start EXCEPT ![s].moves = (@ \ {m}) \cup {next}]
      /\ UNCHANGED <<record, ends, before>>
  BY DEF MovePuts, PutIfAbsent
<1>1. /\ next \in Move /\ next.key = m.key /\ next.at = "delete" /\ next.body = m.body
  BY <1>t DEF Move
<1>k. /\ low \in BucketKeys /\ low = <<"lower", m.key[2]>> /\ low[1] = "lower"
      /\ m.key[2] \in Tails
  BY <1>t, Keys
<1>m. MoveOK(m)
  BY DEF BucketInv, MovesOK
<1> HIDE DEF low, next
<1>2. /\ start'[s].pc = start[s].pc
      /\ start'[s].todo = start[s].todo
      /\ start'[s].moves = (start[s].moves \ {m}) \cup {next}
      /\ start'[s] \in Start
      /\ \A r \in Starters \ {s} : start'[r] = start[r]
  BY <1>0, <1>1, <1>t DEF Start
\* What is there stays as it is, and the lowercase key is there now.
<1>3. /\ \A k \in BucketKeys : Is(k) => bucket'[k] = bucket[k]
      /\ \A k \in BucketKeys : k # low => bucket'[k] = bucket[k]
      /\ bucket'[low] # "none"
      /\ ~Is(low) => bucket'[low] = m.body /\ <<m.body, m.key[2]>> \in before
  <2>1. m.body \in Bodies /\ "none" \notin Bodies
    BY <1>t DEF Move, Bodies
  <2>2. ~Is(low) => <<m.body, m.key[2]>> \in before
    BY <1>m DEF MoveOK, low
  <2> QED BY <2>1, <2>2, <1>0, <1>k, <1>t DEF Is
<1>4. FoldBucketTypeOK'
  <2>1. bucket' \in [BucketKeys -> Bodies \cup {"none"}]
    BY <1>0, <1>t, <1>k DEF Move
  <2> QED BY <2>1, <1>0, <1>2, <1>t DEF BucketInv, FoldBucketTypeOK, Start
<1>5. OldKeys'
  <2> SUFFICES ASSUME NEW k \in BucketKeys, k[1] # "lower"
               PROVE  /\ bucket'[k] # "none" => k \in before /\ bucket'[k] = k[1]
                      /\ k \in before => bucket'[k] # "none" \/ bucket'[Lowered(k)] # "none"
    BY <1>0 DEF OldKeys, Is, Lowered
  <2>1. k # low /\ bucket'[k] = bucket[k]
    BY <1>3, <1>k
  <2>2. Lowered(k) \in BucketKeys
    BY Keys
  <2>3. Is(Lowered(k)) => bucket'[Lowered(k)] # "none"
    BY <2>2, <1>3 DEF Is
  <2> QED BY <2>1, <2>3 DEF BucketInv, OldKeys, Is
<1>6. LowerKeys'
  <2> SUFFICES ASSUME NEW t \in Tails
               PROVE  /\ bucket'[<<"lower", t>>] # "none" =>
                           <<bucket'[<<"lower", t>>], t>> \in before
                      /\ <<"lower", t>> \in before => bucket'[<<"lower", t>>] = "lower"
    BY <1>0 DEF LowerKeys, Is
  <2>1. <<"lower", t>> \in BucketKeys
    BY Keys
  <2>2. CASE Is(<<"lower", t>>) \/ <<"lower", t>> # low
    BY <2>1, <2>2, <1>3 DEF BucketInv, LowerKeys, Is
  <2>3. CASE ~Is(<<"lower", t>>) /\ <<"lower", t>> = low
    <3>1. t = m.key[2] /\ ~Is(low)
      BY <2>3, <1>k
    <3>2. <<"lower", t>> \notin before
      BY <2>3 DEF BucketInv, LowerKeys, Is
    <3> QED BY <3>1, <3>2, <2>3, <1>3
  <2> QED BY <2>2, <2>3
<1>7. MovesOK'
  <2>1. ASSUME NEW n, MoveOK(n), n.key \in BucketKeys
        PROVE  MoveOK(n)'
    BY <2>1, <1>0, <1>3, Keys DEF MoveOK, Old, Is, Lowered
  <2>2. MoveOK(next)'
    <3>1. /\ Old(next.key)
          /\ bucket'[Lowered(next.key)] # "none"
          /\ next.body # "empty" => <<next.body, next.key[2]>> \in before
      BY <1>1, <1>m, <1>3 DEF MoveOK, low
    <3>2. next' = next
      BY DEF next
    <3> QED BY <3>1, <1>0 DEF MoveOK, Old, Is, Lowered, next, BucketKeys
  <2> SUFFICES ASSUME NEW r \in Starters
               PROVE  /\ \A l \in start'[r].todo : Old(l) /\ l \in before
                      /\ \A n \in start'[r].moves : MoveOK(n)'
    BY <1>0 DEF MovesOK, Old
  <2>3. CASE r = s
    <3>1. \A n \in start[s].moves : MoveOK(n) /\ n.key \in BucketKeys
      BY DEF BucketInv, MovesOK, MoveOK, Old
    <3> QED BY <3>1, <2>1, <2>2, <2>3, <1>2 DEF BucketInv, MovesOK
  <2>4. CASE r # s
    <3>1. \A n \in start[r].moves : MoveOK(n) /\ n.key \in BucketKeys
      BY DEF BucketInv, MovesOK, MoveOK, Old
    <3> QED BY <3>1, <2>1, <2>4, <1>2 DEF BucketInv, MovesOK
  <2> QED BY <2>3, <2>4
<1>8. Ahead'
  <2> SUFFICES ASSUME NEW r \in Starters, start'[r].pc = "move",
                      NEW l \in BucketKeys, l[1] # "lower", bucket'[l] # "none"
               PROVE  l \in start'[r].todo \/ \E n \in start'[r].moves : n.key = l
    BY DEF Ahead, Is
  <2>0. Is(l)
    BY <1>3, <1>k DEF Is
  <2>1. CASE r = s
    <3>1. l \in start[s].todo \/ \E n \in start[s].moves : n.key = l
      BY <2>0, <2>1, <1>2 DEF BucketInv, Ahead
    <3> QED BY <3>1, <2>1, <1>1, <1>2
  <2>2. CASE r # s
    BY <2>0, <2>2, <1>2 DEF BucketInv, Ahead
  <2> QED BY <2>1, <2>2
<1>9. Recorded'
  <2>1. \A k \in BucketKeys : k[1] # "lower" => bucket'[k] = bucket[k]
    BY <1>3, <1>k
  <2>2. \A r \in Starters : start'[r].pc = start[r].pc
    BY <1>2
  <2> QED BY <2>1, <2>2, <1>0 DEF BucketInv, Recorded, Is
<1> QED BY <1>4, <1>5, <1>6, <1>7, <1>8, <1>9 DEF BucketInv

LEMMA MoveDeletesKeeps ==
  \A s \in Starters : \A m \in start[s].moves : BucketInv /\ MoveDeletes(s, m) => BucketInv'
<1> SUFFICES ASSUME NEW s \in Starters, NEW m \in start[s].moves, BucketInv, MoveDeletes(s, m)
             PROVE  BucketInv'
  OBVIOUS
<1> USE FoldBucketConstantsOK
<1>t. /\ start \in [Starters -> Start] /\ start[s] \in Start
      /\ bucket \in [BucketKeys -> Bodies \cup {"none"}]
      /\ m.key \in BucketKeys
  BY DEF BucketInv, FoldBucketTypeOK, Start, Move
<1>0. /\ bucket' = [bucket EXCEPT ![m.key] = "none"]
      /\ start' = [start EXCEPT ![s].moves = @ \ {m}]
      /\ UNCHANGED <<record, ends, before>>
  BY DEF MoveDeletes
<1>m. Old(m.key) /\ Is(Lowered(m.key))
  BY DEF BucketInv, MovesOK, MoveOK, MoveDeletes
<1>2. /\ start'[s].pc = start[s].pc
      /\ start'[s].todo = start[s].todo
      /\ start'[s].moves = start[s].moves \ {m}
      /\ start'[s] \in Start
      /\ \A r \in Starters \ {s} : start'[r] = start[r]
  BY <1>0, <1>t DEF Start
\* Lowercase keys stay as they are; of the old ones one goes.
<1>3. /\ \A k \in BucketKeys : k[1] = "lower" => bucket'[k] = bucket[k]
      /\ \A k \in BucketKeys : k # m.key => bucket'[k] = bucket[k]
      /\ bucket'[m.key] = "none"
  BY <1>0, <1>t, <1>m DEF Old
<1>4. FoldBucketTypeOK'
  <2>1. bucket' \in [BucketKeys -> Bodies \cup {"none"}]
    BY <1>0, <1>t
  <2> QED BY <2>1, <1>0, <1>2, <1>t DEF BucketInv, FoldBucketTypeOK, Start
<1>5. OldKeys'
  <2> SUFFICES ASSUME NEW k \in BucketKeys, k[1] # "lower"
               PROVE  /\ bucket'[k] # "none" => k \in before /\ bucket'[k] = k[1]
                      /\ k \in before => bucket'[k] # "none" \/ bucket'[Lowered(k)] # "none"
    BY <1>0 DEF OldKeys, Is, Lowered
  <2>1. Lowered(k) \in BucketKeys /\ bucket'[Lowered(k)] = bucket[Lowered(k)]
    BY <1>3, Keys
  <2>2. CASE k = m.key
    BY <2>1, <2>2, <1>3, <1>m DEF Is
  <2>3. CASE k # m.key
    BY <2>1, <2>3, <1>3 DEF BucketInv, OldKeys, Is
  <2> QED BY <2>2, <2>3
<1>6. LowerKeys'
  <2>1. \A t \in Tails : bucket'[<<"lower", t>>] = bucket[<<"lower", t>>]
    BY <1>3, Keys
  <2> SUFFICES ASSUME NEW t \in Tails
               PROVE  /\ bucket'[<<"lower", t>>] # "none" =>
                           <<bucket'[<<"lower", t>>], t>> \in before
                      /\ <<"lower", t>> \in before => bucket'[<<"lower", t>>] = "lower"
    BY <1>0 DEF LowerKeys, Is
  <2>2. /\ bucket[<<"lower", t>>] # "none" => <<bucket[<<"lower", t>>], t>> \in before
        /\ <<"lower", t>> \in before => bucket[<<"lower", t>>] = "lower"
    BY DEF BucketInv, LowerKeys, Is
  <2> QED BY <2>1, <2>2
<1>7. MovesOK'
  <2>1. ASSUME NEW n, MoveOK(n), n.key \in BucketKeys
        PROVE  MoveOK(n)'
    BY <2>1, <1>0, <1>3, Keys DEF MoveOK, Old, Is, Lowered
  <2> SUFFICES ASSUME NEW r \in Starters
               PROVE  /\ \A l \in start'[r].todo : Old(l) /\ l \in before
                      /\ \A n \in start'[r].moves : MoveOK(n)'
    BY <1>0 DEF MovesOK, Old
  <2>2. /\ start'[r].todo = start[r].todo
        /\ start'[r].moves \subseteq start[r].moves
    BY <1>2
  <2>3. \A n \in start[r].moves : MoveOK(n) /\ n.key \in BucketKeys
    BY DEF BucketInv, MovesOK, MoveOK, Old
  <2> QED BY <2>1, <2>2, <2>3 DEF BucketInv, MovesOK
<1>8. Ahead'
  <2> SUFFICES ASSUME NEW r \in Starters, start'[r].pc = "move",
                      NEW l \in BucketKeys, l[1] # "lower", bucket'[l] # "none"
               PROVE  l \in start'[r].todo \/ \E n \in start'[r].moves : n.key = l
    BY DEF Ahead, Is
  <2>0. Is(l) /\ l # m.key
    BY <1>3 DEF Is
  <2>1. CASE r = s
    <3>1. l \in start[s].todo \/ \E n \in start[s].moves : n.key = l
      BY <2>0, <2>1, <1>2 DEF BucketInv, Ahead
    <3> QED BY <3>1, <2>0, <2>1, <1>2
  <2>2. CASE r # s
    BY <2>0, <2>2, <1>2 DEF BucketInv, Ahead
  <2> QED BY <2>1, <2>2
<1>9. Recorded'
  <2>1. \A k \in BucketKeys : bucket'[k] # "none" => bucket[k] # "none"
    BY <1>3
  <2>2. \A r \in Starters : start'[r].pc = start[r].pc
    BY <1>2
  <2> QED BY <2>1, <2>2, <1>0 DEF BucketInv, Recorded, Is
<1> QED BY <1>4, <1>5, <1>6, <1>7, <1>8, <1>9 DEF BucketInv

LEMMA RecordsKeeps == \A s \in Starters : BucketInv /\ Records(s) => BucketInv'
<1> SUFFICES ASSUME NEW s \in Starters, BucketInv, Records(s) PROVE BucketInv'
  OBVIOUS
<1>1. OldKeys' /\ LowerKeys'
  BY KeysAlone DEF Records
<1>2. FoldBucketTypeOK'
  BY DEF BucketInv, Records, FoldBucketTypeOK
<1>3. MovesOK'
  BY DEF BucketInv, Records, MovesOK, MoveOK, Old, Is, FoldBucketTypeOK
<1>4. Ahead'
  BY DEF BucketInv, Records, Ahead, Is, FoldBucketTypeOK
<1>5. \A k \in BucketKeys : k[1] # "lower" => ~Is(k)
  BY DEF BucketInv, Records, Ahead
<1>6. Recorded'
  BY <1>5 DEF BucketInv, Records, Recorded, Is, FoldBucketTypeOK
<1> QED BY <1>1, <1>2, <1>3, <1>4, <1>6 DEF BucketInv

LEMMA StartFailsKeeps == \A s \in Starters : BucketInv /\ StartFails(s) => BucketInv'
<1> SUFFICES ASSUME NEW s \in Starters, BucketInv, StartFails(s) PROVE BucketInv'
  OBVIOUS
<1> USE FoldBucketConstantsOK
<1>0. /\ start' = [start EXCEPT ![s] = Down]
      /\ start \in [Starters -> Start]
      /\ Down \in Start /\ Down.pc = "down" /\ Down.todo = {} /\ Down.moves = {}
      /\ UNCHANGED <<bucket, record, before>>
  BY DEF StartFails, BucketInv, FoldBucketTypeOK, Start, Down
<1>1. OldKeys' /\ LowerKeys'
  BY KeysAlone, <1>0
<1>2. FoldBucketTypeOK'
  <2>1. start' \in [Starters -> Start]
    BY <1>0
  <2>2. ends' \in 0 .. MaxEnds
    BY DEF StartFails, BucketInv, FoldBucketTypeOK
  <2> QED BY <2>1, <2>2, <1>0 DEF BucketInv, FoldBucketTypeOK, Start
<1>3. start'[s] = Down /\ \A r \in Starters \ {s} : start'[r] = start[r]
  BY <1>0
<1>4. MovesOK'
  BY <1>0, <1>3 DEF BucketInv, MovesOK, MoveOK, Old, Is
<1>5. Ahead'
  BY <1>0, <1>3 DEF BucketInv, Ahead, Is
<1>6. Recorded'
  BY <1>0, <1>3 DEF BucketInv, Recorded, Is
<1> QED BY <1>1, <1>2, <1>4, <1>5, <1>6 DEF BucketInv

\* The order in which a move puts and deletes keeps every key accounted for,
\* with any number of replicas and failures.
THEOREM BucketInvariant == FoldBucketSpec => []BucketInv
<1>1. BucketInv /\ [FoldBucketNext]_bucketVars => BucketInv'
  <2>1. BucketInv /\ UNCHANGED bucketVars => BucketInv'
    BY DEF BucketInv, FoldBucketTypeOK, OldKeys, LowerKeys, MovesOK, MoveOK, Ahead, Recorded,
           Old, Is, bucketVars
  <2> QED BY <2>1, ReadsRecordKeeps, ListsKeeps, MoveReadsKeeps, MovePutsKeeps,
             MoveDeletesKeeps, RecordsKeeps, StartFailsKeeps
          DEF FoldBucketNext
<1> QED BY BucketInit, <1>1, PTL DEF FoldBucketSpec

LEMMA FoldedFollows == BucketInv => KeysFolded
<1> SUFFICES ASSUME BucketInv, SomeUp, NEW k \in BucketKeys
             PROVE  Is(k) <=> k[1] = "lower" /\ \E o \in before : Lowered(o) = k
  BY DEF KeysFolded, Is
<1>0. before \subseteq BucketKeys
  BY DEF BucketInv, FoldBucketTypeOK
<1>1. \A l \in BucketKeys : l[1] # "lower" => ~Is(l)
  BY DEF BucketInv, Recorded, SomeUp
<1>2. ASSUME Is(k) PROVE k[1] = "lower" /\ \E o \in before : Lowered(o) = k
  <2>1. k[1] = "lower" /\ k = <<"lower", k[2]>> /\ k[2] \in Tails
    BY <1>1, <1>2, Keys
  <2>2. <<bucket[k], k[2]>> \in before
    BY <2>1, <1>2 DEF BucketInv, LowerKeys
  <2>3. Lowered(<<bucket[k], k[2]>>) = k
    BY <2>1 DEF Lowered
  <2> QED BY <2>1, <2>2, <2>3
<1>3. ASSUME NEW o \in before, Lowered(o) = k PROVE Is(k)
  <2>1. o \in BucketKeys
    BY <1>0
  <2>2. CASE o[1] = "lower"
    <3>1. o = k /\ k[2] \in Tails /\ k = <<"lower", k[2]>>
      BY <2>1, <2>2, <1>3, Keys
    <3>2. bucket[k] = "lower"
      BY <3>1 DEF BucketInv, LowerKeys
    <3> QED BY <3>2 DEF Is
  <2>3. CASE o[1] # "lower"
    BY <2>1, <2>3, <1>1, <1>3 DEF BucketInv, OldKeys
  <2> QED BY <2>2, <2>3
<1> QED BY <1>2, <1>3

LEMMA BodiesFollow == BucketInv => BodiesKept
<1> SUFFICES ASSUME BucketInv, NEW t \in Tails, NEW k \in before, k[2] = t
             PROVE  LET left == {l \in before : l[2] = t} IN
                    /\ \E l \in BucketKeys : l[2] = t /\ <<bucket[l], t>> \in left
                    /\ bucket[<<"lower", t>>] # "none" => <<bucket[<<"lower", t>>], t>> \in left
                    /\ <<"lower", t>> \in left => bucket[<<"lower", t>>] = "lower"
  BY DEF BodiesKept
<1> DEFINE low == <<"lower", t>>
<1>1. k \in BucketKeys /\ low \in BucketKeys /\ Lowered(k) = low
  BY Keys DEF BucketInv, FoldBucketTypeOK
<1>2. Is(low) => <<bucket[low], t>> \in before
  BY DEF BucketInv, LowerKeys
<1>3. low \in before => bucket[low] = "lower"
  BY DEF BucketInv, LowerKeys
<1>4. \E l \in BucketKeys : l[2] = t /\ <<bucket[l], t>> \in before
  <2>1. CASE Is(low)
    BY <2>1, <1>1, <1>2
  <2>2. CASE ~Is(low)
    <3>1. k[1] # "lower"
      BY <2>2, <1>1, <1>3, Keys DEF Is
    <3>2. Is(k)
      BY <2>2, <3>1, <1>1 DEF BucketInv, OldKeys
    <3>3. bucket[k] = k[1] /\ <<k[1], t>> = k
      BY <3>1, <3>2, <1>1, Keys DEF BucketInv, OldKeys
    <3> QED BY <3>3, <1>1
  <2> QED BY <2>1, <2>2
<1> QED BY <1>2, <1>3, <1>4 DEF Is

\* However many replicas fold a bucket at once and whatever fails, a server
\* that is up finds every key under its lowercase name (canonical.rs 35-67).
THEOREM KeysFound == FoldBucketSpec => []KeysFolded
BY BucketInvariant, FoldedFollows, PTL

\* No body is lost, made up or replaced on the way (canonical.rs 51-55).
THEOREM BodiesStay == FoldBucketSpec => []BodiesKept
BY BucketInvariant, BodiesFollow, PTL
=============================================================================
