--------------------------- MODULE DiskCacheProof ---------------------------
(***************************************************************************)
(* Proofs about DiskCache for every set of objects and downloads, whatever *)
(* their sizes, the ceiling and the number of slots.                       *)
(*                                                                         *)
(* The argument for ServedSound: nothing damages a file but a restart,     *)
(* which forgets every check, and nothing that gives a name a file gives   *)
(* it a damaged one (NoDamage).  So what a check found stays true of the   *)
(* name, though not of the file it hashed (IInv).                          *)
(*                                                                         *)
(* For CounterCovers: what the directory holds, and what was removed and   *)
(* not subtracted, is at most what the counter stands for and what it does *)
(* not count yet; with all that is coming it stays below MaxBytes          *)
(* (Balanced).  The counter itself may wrap meanwhile.  For CeilingKept:   *)
(* whoever put the last file in place comes across all there are           *)
(* (CeilingInv).  Sums are cardinalities, so nothing is proved by          *)
(* induction.                                                              *)
(***************************************************************************)
EXTENDS DiskCache, FiniteSetTheorems, TLAPS

-----------------------------------------------------------------------------
(* Types.                                                                  *)

\* A download that is not idle has an object.
LEMMA ReaderType ==
  ASSUME TypeOK, NEW t \in Readers, reader[t].pc # "idle"
  PROVE  reader[t] \in Reader
<1>1. reader[t] \in Reader \cup {NoReader}
  BY DEF TypeOK
<1>2. QED
  BY <1>1 DEF NoReader

\* A fetch that has begun is one.
LEMMA FillType ==
  ASSUME TypeOK, NEW o \in Oids, fill[o].pc # "none"
  PROVE  fill[o] \in Fill
<1>1. fill[o] \in Fill \cup {NoFill}
  BY DEF TypeOK
<1>2. QED
  BY <1>1 DEF NoFill

\* The counter is taken modulo something.
LEMMA WrapPositive == Wrap \in Nat /\ Wrap > 0
BY ConstantsOK

LEMMA Wrapped == \A x \in Int : x % Wrap \in 0 .. Wrap - 1
BY WrapPositive

LEMMA SizeType == \A o \in Oids : Size[o] \in Nat
BY ConstantsOK

LEMMA BytesType == TypeOK => bytes \in Nat
BY WrapPositive DEF TypeOK

\* A download that goes on is a download.
LEMMA GotoType ==
  ASSUME TypeOK, NEW t \in Readers, reader[t].pc # "idle", NEW pc \in Steps, Goto(t, pc)
  PROVE  reader' \in [Readers -> Reader \cup {NoReader}]
<1>1. [reader[t] EXCEPT !.pc = pc] \in Reader
  BY ReaderType DEF Reader
<1>2. QED
  BY <1>1 DEF TypeOK, Goto

\* So is one that ends.
LEMMA FinishType ==
  ASSUME TypeOK, NEW t \in Readers, Finish(t)
  PROVE  reader' \in [Readers -> Reader \cup {NoReader}]
BY DEF TypeOK, Finish

LEMMA TypeInit == Init => TypeOK
<1> SUFFICES ASSUME Init PROVE TypeOK
  OBVIOUS
<1>1. bytes \in 0 .. Wrap - 1
  BY WrapPositive DEF Init
<1>2. QED
  BY <1>1 DEF Init, TypeOK, Files

LEMMA DownloadType ==
  ASSUME TypeOK, NEW t \in Readers, Download(t)
  PROVE  TypeOK'
<1> USE DEF Busy, entries, checks, fills
<1>1. CASE \E o \in Oids : Open(t, o)
  <2>1. PICK o \in Oids : Open(t, o)
    BY <1>1
  <2>2. [pc |-> IF file[o] = "none" THEN "miss" ELSE "look", oid |-> o,
         intact |-> FALSE] \in Reader
    BY DEF Reader, Steps
  <2>3. QED
    BY <2>1, <2>2 DEF Open, TypeOK
<1>2. CASE Look(t)
  BY <1>2, GotoType DEF Look, TypeOK, Steps
<1>3. CASE Enter(t)
  <2>1. reader[t].oid \in Oids
    BY <1>3, ReaderType DEF Enter, Reader
  <2>2. reader' \in [Readers -> Reader \cup {NoReader}]
    BY <1>3, GotoType DEF Enter, Steps
  <2>3. QED
    BY <1>3, <2>1, <2>2 DEF Enter, TypeOK
<1>4. CASE ReadDigest(t)
  <2>1. \A pc \in {"hash", "judge"} :
          [reader[t] EXCEPT !.intact = FALSE, !.pc = pc] \in Reader
    BY <1>4, ReaderType DEF ReadDigest, Reader, Steps
  <2>2. QED
    BY <1>4, <2>1 DEF ReadDigest, TypeOK
<1>5. CASE Hash(t)
  <2>1. PICK read \in BOOLEAN :
          reader' = [reader EXCEPT ![t].pc = "judge",
                       ![t].intact = read /\ file[reader[t].oid] = "sound"]
    BY <1>5 DEF Hash
  <2>2. [reader[t] EXCEPT !.pc = "judge",
                          !.intact = read /\ file[reader[t].oid] = "sound"] \in Reader
    BY <1>5, ReaderType DEF Hash, Reader, Steps
  <2>3. reader' \in [Readers -> Reader \cup {NoReader}]
    BY <2>1, <2>2 DEF TypeOK
  <2>4. QED
    BY <1>5, <2>3 DEF Hash, TypeOK
<1>6. CASE Judge(t)
  <2>1. reader[t].oid \in Oids /\ reader[t] \in Reader
    BY <1>6, ReaderType DEF Judge, Reader
  <2>2. [reader[t] EXCEPT !.pc = "serve", !.intact = FALSE] \in Reader
    BY <2>1 DEF Reader, Steps
  <2>3. reader' \in [Readers -> Reader \cup {NoReader}]
    <3>1. CASE reader[t].intact
      BY <1>6, <2>2, <3>1 DEF Judge, TypeOK
    <3>2. CASE ~reader[t].intact
      BY <1>6, <3>2, GotoType DEF Judge, Steps
    <3>3. QED
      BY <3>1, <3>2
  <2>4. QED
    BY <1>6, <2>1, <2>3 DEF Judge, TypeOK
<1>7. CASE Discard(t)
  <2>1. reader' \in [Readers -> Reader \cup {NoReader}]
    BY <1>7, GotoType DEF Discard, Steps
  <2>2. QED
    BY <1>7, <2>1 DEF Discard, TypeOK, Files
<1>8. CASE DiscardDigest(t)
  <2>1. reader' \in [Readers -> Reader \cup {NoReader}]
    BY <1>8, GotoType DEF DiscardDigest, Steps
  <2>2. QED
    BY <1>8, <2>1 DEF DiscardDigest, TypeOK
<1>9. CASE Serve(t) \/ Leave(t)
  BY <1>9, FinishType DEF Serve, Leave, TypeOK
<1>10. CASE Behind(t)
  <2>1. reader[t].oid \in Oids
    BY <1>10, ReaderType DEF Behind, Reader
  <2>2. Begun(reader[t].oid) \in Fill
    BY <2>1 DEF Begun, Fill
  <2>3. reader' \in [Readers -> Reader \cup {NoReader}]
    BY <1>10, FinishType DEF Behind
  <2>4. QED
    BY <1>10, <2>1, <2>2, <2>3 DEF Behind, TypeOK
<1>11. QED
  BY <1>1, <1>2, <1>3, <1>4, <1>5, <1>6, <1>7, <1>8, <1>9, <1>10 DEF Download

LEMMA FetchType ==
  ASSUME TypeOK, NEW o \in Oids, Fetch(o)
  PROVE  TypeOK'
<1> USE DEF Filling, entries, checks
<1>1. CASE FillFails(o) \/ EvictEnds(o)
  BY <1>1 DEF FillFails, EvictEnds, Release, TypeOK
<1>2. CASE FillTruncate(o) \/ FillSign(o)
  <2>1. fill[o] \in Fill
    BY <1>2, FillType DEF FillTruncate, FillSign
  <2>2. \A pc \in {"sign", "rename"} : [fill[o] EXCEPT !.pc = pc] \in Fill
    BY <2>1 DEF Fill
  <2>3. QED
    BY <1>2, <2>2 DEF FillTruncate, FillSign, FillGoto, TypeOK
<1>3. CASE FillRename(o)
  <2>1. [fill[o] EXCEPT !.pc = "count"] \in Fill
    BY <1>3, FillType DEF FillRename, Fill
  <2>2. QED
    BY <1>3, <2>1 DEF FillRename, FillGoto, TypeOK, Files
<1>4. CASE FillCount(o)
  <2>1. [fill[o] EXCEPT !.pc = "scan", !.rest = Oids] \in Fill
    BY <1>4, FillType DEF FillCount, Fill
  <2>2. bytes + Size[o] \in Int /\ bytes' = (bytes + Size[o]) % Wrap
    BY <1>4, SizeType, BytesType DEF FillCount
  <2>3. QED
    BY <1>4, <2>1, <2>2, Wrapped DEF FillCount, TypeOK
<1>5. ASSUME NEW n \in Oids, Scan(o, n) PROVE TypeOK'
  <2>1. fill[o] \in Fill
    BY <1>5, FillType DEF Scan
  <2>2. /\ fill[o].rest \ {n} \in SUBSET Oids
        /\ fill[o].found \cup ({n} \cap Present) \in SUBSET Oids
        /\ (IF n \in Present THEN fill[o].total + Size[n] ELSE fill[o].total) \in Int
    BY <2>1, SizeType DEF Fill
  <2>3. [fill[o] EXCEPT !.rest = @ \ {n},
                        !.found = @ \cup ({n} \cap Present),
                        !.total = IF n \in Present THEN @ + Size[n] ELSE @,
                        !.pc = IF fill[o].rest = {n} THEN "evict" ELSE "scan"] \in Fill
    BY <2>1, <2>2 DEF Fill
  <2>4. QED
    BY <1>5, <2>3 DEF Scan, TypeOK
<1>6. ASSUME NEW n \in Oids, Take(o, n) PROVE TypeOK'
  <2>1. fill[o] \in Fill
    BY <1>6, FillType DEF Take
  <2>2. [fill[o] EXCEPT !.found = @ \ {n}, !.at = n,
                        !.pc = IF file[n] = "none" THEN "evict" ELSE "undigest"] \in Fill
    BY <2>1 DEF Fill
  <2>3. QED
    BY <1>6, <2>2 DEF Take, TypeOK, Files
<1>7. CASE TakeDigest(o)
  <2>1. fill[o] \in Fill
    BY <1>7, FillType DEF TakeDigest
  <2>2. fill[o].total - Size[fill[o].at] \in Int
    BY <2>1, SizeType DEF Fill
  <2>3. [fill[o] EXCEPT !.pc = "load", !.total = @ - Size[fill[o].at]] \in Fill
    BY <2>1, <2>2 DEF Fill
  <2>4. QED
    BY <1>7, <2>3 DEF TakeDigest, TypeOK
<1>8. CASE Load(o)
  <2>1. fill[o] \in Fill
    BY <1>8, FillType DEF Load
  <2>2. Min2(Size[fill[o].at], bytes) \in Nat
    BY <2>1, SizeType, BytesType DEF Min2, Fill
  <2>3. [fill[o] EXCEPT !.pc = "subtract", !.load = Min2(Size[fill[o].at], bytes)] \in Fill
    BY <2>1, <2>2 DEF Fill
  <2>4. QED
    BY <1>8, <2>3 DEF Load, TypeOK
<1>9. CASE Subtract(o)
  <2>1. fill[o] \in Fill
    BY <1>9, FillType DEF Subtract
  <2>2. [fill[o] EXCEPT !.pc = "evict", !.at = o, !.load = 0] \in Fill
    BY <2>1 DEF Fill
  <2>3. bytes - fill[o].load \in Int /\ bytes' = (bytes - fill[o].load) % Wrap
    BY <1>9, <2>1, BytesType DEF Subtract, Fill
  <2>4. QED
    BY <1>9, <2>2, <2>3, Wrapped DEF Subtract, TypeOK
<1>10. QED
  BY <1>1, <1>2, <1>3, <1>4, <1>5, <1>6, <1>7, <1>8, <1>9 DEF Fetch

LEMMA TypeStep == TypeOK /\ [Next]_vars => TypeOK'
<1> SUFFICES ASSUME TypeOK, [Next]_vars PROVE TypeOK'
  OBVIOUS
<1>1. CASE Restart
  BY <1>1 DEF Restart, TypeOK, Files
<1>2. CASE UNCHANGED vars
  BY <1>2 DEF vars, entries, checks, fills, TypeOK
<1>3. QED
  BY <1>1, <1>2, DownloadType, FetchType DEF Next

\* cache.rs as a whole: its sets, files, counter and what is under way keep
\* their types, the counter through every wrap.
THEOREM TypeCorrect == Spec => []TypeOK
BY TypeInit, TypeStep, PTL DEF Spec

-----------------------------------------------------------------------------
(* ServedSound.                                                            *)

\* Downloads that found their entry to be what its digest says.
Passed(t) ==
  reader[t].pc = "serve" \/ (reader[t].pc = "judge" /\ reader[t].intact)

\* What passed a check, or is about to be declared to have passed, is not
\* damaged under its name.
IInv ==
  /\ \A o \in verified : file[o] # "broken"
  /\ \A t \in Readers : Passed(t) => file[reader[t].oid] # "broken"

\* No name comes to stand for a damaged file.
NoDamage == \A o \in Oids : file'[o] = "broken" => file[o] = "broken"

\* A step that damages nothing, and vouches for nothing it has not checked.
LEMMA CarefulStep ==
  ASSUME TypeOK, IInv, NoDamage,
         \A o \in verified' : o \in verified \/ file[o] # "broken",
         \A t \in Readers : Passed(t)' =>
            /\ reader'[t].oid \in Oids
            /\ file[reader'[t].oid] # "broken",
         verified' \subseteq Oids
  PROVE  IInv'
BY DEF IInv, NoDamage

LEMMA DownloadCareful ==
  ASSUME TypeOK, IInv, NEW t \in Readers, Download(t)
  PROVE  IInv'
<1> USE DEF Busy, entries, checks, fills
<1>1. \A u \in Readers : Passed(u) => reader[u].oid \in Oids /\ file[reader[u].oid] # "broken"
  <2>1. ASSUME NEW u \in Readers, Passed(u) PROVE reader[u].oid \in Oids
    BY <2>1, ReaderType DEF Passed, Reader
  <2>2. QED
    BY <2>1 DEF IInv
<1>2. TypeOK'
  BY DownloadType
<1>3. NoDamage
  <2>1. CASE Discard(t)
    BY <2>1 DEF Discard, NoDamage, TypeOK
  <2>2. CASE ~Discard(t)
    BY <2>2 DEF Download, Open, Look, Enter, ReadDigest, Hash, Judge, DiscardDigest, Serve,
                Leave, Behind, NoDamage
  <2>3. QED
    BY <2>1, <2>2
<1>4. \A u \in Readers : u # t => reader'[u] = reader[u]
  BY DEF Download, Open, Look, Enter, ReadDigest, Hash, Judge, Discard, DiscardDigest, Serve,
         Leave, Behind, Goto, Finish, TypeOK
<1>5. SUFFICES /\ \A o \in verified' : o \in verified \/ file[o] # "broken"
               /\ Passed(t)' => reader'[t].oid \in Oids /\ file[reader'[t].oid] # "broken"
  BY <1>1, <1>2, <1>3, <1>4, CarefulStep DEF Passed, TypeOK
<1>6. CASE Look(t)
  <2>1. reader[t].oid \in Oids /\ reader[t] \in Reader
    BY <1>6, ReaderType DEF Look, Reader
  <2>2. reader'[t].oid = reader[t].oid
    BY <1>6, <2>1 DEF Look, Goto, TypeOK, Reader
  <2>3. reader'[t].pc = "serve" => reader[t].oid \in verified
    BY <1>6, <2>1 DEF Look, Goto, TypeOK, Reader
  <2>4. reader'[t].pc # "judge"
    BY <1>6, <2>1 DEF Look, Goto, TypeOK, Reader
  <2>5. QED
    BY <1>6, <2>1, <2>2, <2>3, <2>4 DEF Look, Passed, IInv
<1>7. CASE ReadDigest(t)
  <2>1. reader[t].oid \in Oids /\ reader[t] \in Reader
    BY <1>7, ReaderType DEF ReadDigest, Reader
  <2>2. QED
    BY <1>7, <2>1 DEF ReadDigest, TypeOK, Reader, Passed
<1>8. CASE Hash(t)
  <2>1. reader[t].oid \in Oids /\ reader[t] \in Reader
    BY <1>8, ReaderType DEF Hash, Reader
  <2>2. reader'[t].oid = reader[t].oid
    BY <1>8, <2>1 DEF Hash, TypeOK, Reader
  <2>3. reader'[t].intact => file[reader[t].oid] = "sound"
    BY <1>8, <2>1 DEF Hash, TypeOK, Reader
  <2>4. reader'[t].pc = "judge"
    BY <1>8, <2>1 DEF Hash, TypeOK, Reader
  <2>5. QED
    BY <1>8, <2>1, <2>2, <2>3, <2>4 DEF Hash, Passed
<1>9. CASE Judge(t)
  <2>1. reader[t].oid \in Oids /\ reader[t] \in Reader
    BY <1>9, ReaderType DEF Judge, Reader
  <2>2. CASE reader[t].intact
    BY <1>1, <1>9, <2>1, <2>2 DEF Judge, TypeOK, Reader, Passed
  <2>3. CASE ~reader[t].intact
    BY <1>9, <2>1, <2>3 DEF Judge, Goto, TypeOK, Reader, Passed
  <2>4. QED
    BY <2>2, <2>3
<1>10. CASE \E o \in Oids : Open(t, o)
  BY <1>10 DEF Open, TypeOK, Passed
<1>11. CASE Enter(t)
  <2>1. reader[t] \in Reader
    BY <1>11, ReaderType DEF Enter
  <2>2. QED
    BY <1>11, <2>1 DEF Enter, Goto, TypeOK, Reader, Passed
<1>12. CASE Discard(t) \/ DiscardDigest(t)
  <2>1. reader[t] \in Reader
    BY <1>12, ReaderType DEF Discard, DiscardDigest
  <2>2. QED
    BY <1>12, <2>1 DEF Discard, DiscardDigest, Goto, TypeOK, Reader, Passed
<1>13. CASE Serve(t) \/ Leave(t) \/ Behind(t)
  BY <1>13 DEF Serve, Leave, Behind, Finish, NoReader, TypeOK, Passed
<1>14. QED
  BY <1>6, <1>7, <1>8, <1>9, <1>10, <1>11, <1>12, <1>13 DEF Download

LEMMA FetchCareful ==
  ASSUME TypeOK, IInv, NEW o \in Oids, Fetch(o)
  PROVE  IInv'
<1> USE DEF entries, checks
<1>1. \A t \in Readers : Passed(t) => reader[t].oid \in Oids /\ file[reader[t].oid] # "broken"
  <2>1. ASSUME NEW t \in Readers, Passed(t) PROVE reader[t].oid \in Oids
    BY <2>1, ReaderType DEF Passed, Reader
  <2>2. QED
    BY <2>1 DEF IInv
<1>2. reader' = reader /\ verified' \subseteq verified
  BY DEF Fetch, FillFails, FillTruncate, FillSign, FillRename, FillCount, Scan, Take,
         TakeDigest, Load, Subtract, EvictEnds
<1>3. NoDamage
  <2>1. CASE FillRename(o)
    BY <2>1 DEF FillRename, NoDamage, TypeOK
  <2>2. ASSUME NEW n \in Oids, Take(o, n) PROVE NoDamage
    BY <2>2 DEF Take, NoDamage, TypeOK
  <2>3. CASE file' = file
    BY <2>3 DEF NoDamage
  <2>4. QED
    BY <2>1, <2>2, <2>3
    DEF Fetch, FillFails, FillTruncate, FillSign, FillCount, Scan, TakeDigest, Load, Subtract,
        EvictEnds
<1>4. QED
  BY <1>1, <1>2, <1>3, CarefulStep DEF Passed, TypeOK

\* cache.rs, "an entry is only in verified once it passed": and from then on,
\* whatever is discarded, fetched again and evicted, the name it passed under
\* stands for nothing damaged.
THEOREM NamesSound == Spec => []ServedSound
<1>1. Init => IInv
  BY DEF Init, IInv, Passed, NoReader
<1>2. TypeOK /\ IInv /\ [Next]_vars => IInv'
  <2> SUFFICES ASSUME TypeOK, IInv, [Next]_vars PROVE IInv'
    OBVIOUS
  <2>1. CASE Restart
    BY <2>1 DEF Restart, IInv, Passed, NoReader
  <2>2. CASE UNCHANGED vars
    BY <2>2 DEF vars, entries, checks, IInv, Passed
  <2>3. QED
    BY <2>1, <2>2, DownloadCareful, FetchCareful DEF Next
<1>3. IInv => ServedSound
  BY DEF IInv, ServedSound, Vouched, Busy, Passed
<1>4. QED
  BY <1>1, <1>2, <1>3, TypeInit, TypeStep, PTL DEF Spec

-----------------------------------------------------------------------------
(* ClaimsOwned.                                                            *)

\* A fetch that goes on keeps its claim.
LEMMA ClaimsFetch ==
  ASSUME TypeOK, ClaimsOwned, NEW o \in Oids, Fetch(o)
  PROVE  ClaimsOwned'
<1>1. CASE FillFails(o) \/ EvictEnds(o)
  BY <1>1 DEF FillFails, EvictEnds, Release, Filling, ClaimsOwned, TypeOK
<1>2. CASE ~(FillFails(o) \/ EvictEnds(o))
  <2>1. filling' = filling
    BY <1>2 DEF Fetch, FillTruncate, FillSign, FillRename, FillCount, Scan, Take, TakeDigest,
                Load, Subtract
  <2>2. \A p \in Oids : p # o => fill'[p] = fill[p]
    BY <1>2 DEF Fetch, FillTruncate, FillSign, FillRename, FillCount, Scan, Take, TakeDigest,
                Load, Subtract, FillGoto, TypeOK
  <2>3. fill[o] \in Fill
    BY <1>2, FillType
    DEF Fetch, FillTruncate, FillSign, FillRename, FillCount, Scan, Take, TakeDigest, Load,
        Subtract, Filling
  <2>4. fill'[o].pc # "none"
    <3>1. CASE FillTruncate(o) \/ FillSign(o) \/ FillRename(o)
      BY <2>3, <3>1 DEF FillTruncate, FillSign, FillRename, FillGoto, TypeOK, Fill
    <3>2. CASE FillCount(o) \/ TakeDigest(o)
      BY <2>3, <3>2 DEF FillCount, TakeDigest, TypeOK, Fill
    <3>3. CASE Load(o) \/ Subtract(o)
      BY <2>3, <3>3 DEF Load, Subtract, TypeOK, Fill
    <3>4. ASSUME NEW n \in Oids, Scan(o, n) PROVE fill'[o].pc # "none"
      BY <2>3, <3>4 DEF Scan, TypeOK, Fill
    <3>5. ASSUME NEW n \in Oids, Take(o, n) PROVE fill'[o].pc # "none"
      BY <2>3, <3>5 DEF Take, TypeOK, Fill
    <3>6. QED
      BY <1>2, <3>1, <3>2, <3>3, <3>4, <3>5 DEF Fetch
  <2>5. QED
    BY <2>1, <2>2, <2>4 DEF ClaimsOwned, Filling, TypeOK
<1>3. QED
  BY <1>1, <1>2

\* fill_behind takes the slot before the claim, and every way out of the fetch
\* gives the claim back (backend.rs 48-74): nothing stays claimed that nobody
\* is fetching.
THEOREM ClaimsAreOwned == Spec => []ClaimsOwned
<1>1. Init => ClaimsOwned
  BY DEF Init, ClaimsOwned
<1>2. TypeOK /\ ClaimsOwned /\ [Next]_vars => ClaimsOwned'
  <2> SUFFICES ASSUME TypeOK, ClaimsOwned, [Next]_vars PROVE ClaimsOwned'
    OBVIOUS
  <2>1. ASSUME NEW t \in Readers, Behind(t) PROVE ClaimsOwned'
    <3>1. reader[t].oid \in Oids
      BY <2>1, ReaderType DEF Behind, Busy, Reader
    <3>2. Begun(reader[t].oid).pc = "fetch"
      BY DEF Begun
    <3>3. QED
      BY <2>1, <3>1, <3>2 DEF Behind, fills, Filling, ClaimsOwned, TypeOK
  <2>2. ASSUME NEW t \in Readers, Download(t), ~Behind(t) PROVE ClaimsOwned'
    BY <2>2
    DEF Download, Open, Look, Enter, ReadDigest, Hash, Judge, Discard, DiscardDigest, Serve,
        Leave, fills, Filling, ClaimsOwned
  <2>3. CASE Restart
    BY <2>3 DEF Restart, ClaimsOwned
  <2>4. CASE UNCHANGED vars
    BY <2>4 DEF vars, fills, Filling, ClaimsOwned
  <2>5. QED
    BY <2>1, <2>2, <2>3, <2>4, ClaimsFetch DEF Next
<1>3. QED
  BY <1>1, <1>2, TypeInit, TypeStep, PTL DEF Spec

-----------------------------------------------------------------------------
(* Sums of one number per object.                                          *)

Unit(w, o) == {o} \X (1 .. w[o])

Sum(w) == Cardinality(UNION {Unit(w, o) : o \in Oids})

Weights == [Oids -> Nat]

LEMMA UnitSize ==
  ASSUME NEW w \in Weights, NEW o \in Oids
  PROVE  IsFiniteSet(Unit(w, o)) /\ Cardinality(Unit(w, o)) = w[o]
<1>1. w[o] \in Nat
  BY DEF Weights
<1>2. IsFiniteSet(1 .. w[o]) /\ Cardinality(1 .. w[o]) = w[o]
  <2>1. Cardinality(1 .. w[o]) = IF 1 > w[o] THEN 0 ELSE w[o] - 1 + 1
    BY <1>1, FS_Interval
  <2>2. IsFiniteSet(1 .. w[o])
    BY <1>1, FS_Interval
  <2>3. QED BY <1>1, <2>1, <2>2
<1>3. IsFiniteSet({o}) /\ Cardinality({o}) = 1
  BY FS_Singleton
<1>4. /\ IsFiniteSet({o} \X (1 .. w[o]))
      /\ Cardinality({o} \X (1 .. w[o])) = Cardinality({o}) * Cardinality(1 .. w[o])
  BY <1>2, <1>3, FS_Product
<1>5. QED BY <1>1, <1>2, <1>3, <1>4 DEF Unit

\* Units of some of the objects are finitely many.
LEMMA UnitsFinite ==
  ASSUME NEW w \in Weights, NEW S \in SUBSET Oids
  PROVE  IsFiniteSet(UNION {Unit(w, o) : o \in S})
<1>1. IsFiniteSet(S)
  BY ConstantsOK, FS_Subset
<1>2. IsFiniteSet({Unit(w, o) : o \in S})
  <2> DEFINE f == [o \in S |-> Unit(w, o)]
  <2>1. f \in Surjection(S, {Unit(w, o) : o \in S})
    BY DEF Surjection
  <2>2. QED BY <1>1, <2>1, FS_Surjection
<1>3. \A T \in {Unit(w, o) : o \in S} : IsFiniteSet(T)
  BY UnitSize
<1>4. QED BY <1>2, <1>3, FS_UNION

LEMMA SumType == ASSUME NEW w \in Weights PROVE Sum(w) \in Nat
BY UnitsFinite, FS_CardinalityType DEF Sum

\* A sum changes by what one of its numbers does.
LEMMA SumChange ==
  ASSUME NEW w \in Weights, NEW v \in Weights, NEW o \in Oids,
         \A p \in Oids \ {o} : v[p] = w[p]
  PROVE  Sum(v) + w[o] = Sum(w) + v[o]
<1> DEFINE Rest == UNION {Unit(w, p) : p \in Oids \ {o}}
<1>1. IsFiniteSet(Rest) /\ Cardinality(Rest) \in Nat
  BY UnitsFinite, FS_CardinalityType
<1>2. ASSUME NEW u \in Weights, \A p \in Oids \ {o} : u[p] = w[p]
      PROVE  Sum(u) = Cardinality(Rest) + u[o]
  <2>1. \A p \in Oids \ {o} : Unit(u, p) = Unit(w, p)
    BY <1>2 DEF Unit
  <2>2. UNION {Unit(u, p) : p \in Oids} = Rest \cup Unit(u, o)
    BY <2>1
  <2>3. Rest \cap Unit(u, o) = {}
    <3>1. ASSUME NEW x \in Rest, x \in Unit(u, o) PROVE FALSE
      <4>1. PICK p \in Oids \ {o} : x \in Unit(w, p)
        BY <3>1
      <4>2. x[1] = p /\ x[1] = o
        BY <4>1, <3>1 DEF Unit
      <4>3. QED BY <4>1, <4>2
    <3>2. QED BY <3>1
  <2>4. IsFiniteSet(Unit(u, o)) /\ Cardinality(Unit(u, o)) = u[o] /\ u[o] \in Nat
    BY <1>2, UnitSize DEF Weights
  <2>5. Cardinality(Rest \cup Unit(u, o))
          = Cardinality(Rest) + Cardinality(Unit(u, o)) - Cardinality(Rest \cap Unit(u, o))
    BY <1>1, <2>4, FS_Union
  <2>6. Cardinality({}) = 0
    BY FS_EmptySet
  <2> HIDE DEF Rest
  <2>7. Sum(u) = Cardinality(Rest \cup Unit(u, o))
    BY <2>2 DEF Sum
  <2>8. Cardinality(Rest \cap Unit(u, o)) = 0
    BY <2>3, <2>6
  <2>9. QED BY <1>1, <2>4, <2>5, <2>7, <2>8
<1>3. Sum(w) = Cardinality(Rest) + w[o] /\ Sum(v) = Cardinality(Rest) + v[o]
  BY <1>2
<1>4. w[o] \in Nat /\ v[o] \in Nat
  BY DEF Weights
<1> HIDE DEF Rest
<1>5. QED BY <1>1, <1>3, <1>4

\* A sum of numbers that are no larger is no larger.
LEMMA SumGrows ==
  ASSUME NEW w \in Weights, NEW v \in Weights, \A o \in Oids : w[o] <= v[o]
  PROVE  Sum(w) <= Sum(v)
<1>1. \A o \in Oids : Unit(w, o) \subseteq Unit(v, o)
  <2> TAKE o \in Oids
  <2>1. 1 .. w[o] \subseteq 1 .. v[o]
    BY DEF Weights
  <2>2. QED BY <2>1 DEF Unit
<1>2. UNION {Unit(w, o) : o \in Oids} \subseteq UNION {Unit(v, o) : o \in Oids}
  BY <1>1
<1>3. IsFiniteSet(UNION {Unit(v, o) : o \in Oids})
  BY UnitsFinite
<1>4. QED BY <1>2, <1>3, FS_Subset DEF Sum

\* Each object of S at its size.
Sizes(S) == [o \in Oids |-> IF o \in S THEN Size[o] ELSE 0]

LEMMA SizesType == ASSUME NEW S PROVE Sizes(S) \in Weights
BY SizeType DEF Sizes, Weights

LEMMA TotalIsSum == ASSUME NEW S \in SUBSET Oids PROVE Total[S] = Sum(Sizes(S))
<1>1. UNION {Unit(Sizes(S), o) : o \in Oids} = UNION {{o} \X (1 .. Size[o]) : o \in S}
  <2>1. \A o \in Oids \ S : Unit(Sizes(S), o) = {}
    <3>1. 1 .. 0 = {}
      OBVIOUS
    <3>2. QED BY <3>1 DEF Unit, Sizes
  <2>2. \A o \in S : Unit(Sizes(S), o) = {o} \X (1 .. Size[o])
    BY DEF Unit, Sizes
  <2> DEFINE U(o) == Unit(Sizes(S), o)
             V(o) == {o} \X (1 .. Size[o])
  <2>3. (\A o \in Oids \ S : U(o) = {}) /\ (\A o \in S : U(o) = V(o))
    BY <2>1, <2>2
  <2> HIDE DEF U, V
  <2>4. UNION {U(o) : o \in Oids} = UNION {V(o) : o \in S}
    BY <2>3
  <2>5. QED BY <2>4 DEF U, V
<1>2. QED BY <1>1 DEF Total, Sum

\* Nothing comes to nothing.
LEMMA SumOfNone == ASSUME NEW w \in Weights, \A o \in Oids : w[o] = 0 PROVE Sum(w) = 0
<1>1. \A o \in Oids : Unit(w, o) = {}
  <2>1. 1 .. 0 = {}
    OBVIOUS
  <2>2. QED BY <2>1 DEF Unit
<1>2. UNION {Unit(w, o) : o \in Oids} = {}
  BY <1>1
<1>3. QED BY <1>2, FS_EmptySet DEF Sum

-----------------------------------------------------------------------------
(* CounterCovers.                                                          *)

\* The bytes of each file, of each that is in place and not counted, of each
\* that is on its way or not counted, and of each that one fetch has removed and
\* not yet subtracted.
Laid(files) == Sizes({o \in Oids : files[o] # "none"})

Uncounted(fetches) == Sizes({o \in Oids : fetches[o].pc = "count"})

Coming(fetches) ==
  Sizes({o \in Oids : fetches[o].pc \in {"fetch", "sign", "rename", "count"}})

Removing(f) == f.pc \in {"undigest", "load", "subtract"}

Leaving(fetches) ==
  [o \in Oids |-> IF Removing(fetches[o]) THEN Size[fetches[o].at] ELSE 0]

\* The counter stands for b, which may be negative or a whole number of times
\* around.
Wraps(x, b) == \E q \in Int : x = b + q * Wrap

Balanced(b, files, fetches) ==
  /\ Sum(Laid(files)) + Sum(Leaving(fetches)) <= b + Sum(Uncounted(fetches))
  /\ b + Sum(Coming(fetches)) <= MaxBytes

\* Nobody subtracts more than what he removed, and who fetches has claimed.
FetchSound(o, f) ==
  /\ f.pc = "subtract" => f.load <= Size[f.at]
  /\ f.pc # "none" => o \in filling

CounterInv ==
  /\ \E b \in Int : Wraps(bytes, b) /\ Balanced(b, file, fill)
  /\ \A o \in Oids : FetchSound(o, fill[o])

Fetches == [Oids -> Fill \cup {NoFill}]

LEMMA LeavingType == ASSUME NEW f \in Fetches PROVE Leaving(f) \in Weights
<1>1. ASSUME NEW o \in Oids, Removing(f[o]) PROVE Size[f[o].at] \in Nat
  BY <1>1, SizeType DEF Removing, Fetches, Fill, NoFill
<1>2. QED BY <1>1 DEF Leaving, Weights

\* The sums about fetches are numbers, and when one fetch goes on they change
\* by what it stands for.
LEMMA FetchSums ==
  ASSUME NEW f \in Fetches, NEW g \in Fetches, NEW o \in Oids,
         \A p \in Oids \ {o} : g[p] = f[p]
  PROVE  /\ Sum(Leaving(g)) + Leaving(f)[o] = Sum(Leaving(f)) + Leaving(g)[o]
         /\ Sum(Uncounted(g)) + Uncounted(f)[o] = Sum(Uncounted(f)) + Uncounted(g)[o]
         /\ Sum(Coming(g)) + Coming(f)[o] = Sum(Coming(f)) + Coming(g)[o]
<1>1. /\ Leaving(f) \in Weights /\ Leaving(g) \in Weights
      /\ Uncounted(f) \in Weights /\ Uncounted(g) \in Weights
      /\ Coming(f) \in Weights /\ Coming(g) \in Weights
  BY LeavingType, SizesType DEF Uncounted, Coming
<1>2. \A p \in Oids \ {o} : /\ Leaving(g)[p] = Leaving(f)[p]
                            /\ Uncounted(g)[p] = Uncounted(f)[p]
                            /\ Coming(g)[p] = Coming(f)[p]
  BY DEF Leaving, Uncounted, Coming, Sizes
<1>3. QED BY <1>1, <1>2, SumChange

LEMMA SumTypes ==
  ASSUME NEW f \in Fetches, NEW files
  PROVE  /\ Sum(Leaving(f)) \in Nat /\ Sum(Uncounted(f)) \in Nat /\ Sum(Coming(f)) \in Nat
         /\ Sum(Laid(files)) \in Nat
BY LeavingType, SizesType, SumType DEF Uncounted, Coming, Laid

\* What one fetch stands for in the sums.
LEMMA OneFetch ==
  ASSUME NEW f \in Fetches, NEW o \in Oids
  PROVE  /\ Leaving(f)[o] = IF Removing(f[o]) THEN Size[f[o].at] ELSE 0
         /\ Uncounted(f)[o] = IF f[o].pc = "count" THEN Size[o] ELSE 0
         /\ Coming(f)[o] = IF f[o].pc \in {"fetch", "sign", "rename", "count"}
                             THEN Size[o] ELSE 0
BY DEF Leaving, Uncounted, Coming, Sizes

\* One file comes or goes.
LEMMA LaidChange ==
  ASSUME NEW f \in [Oids -> Files], NEW g \in [Oids -> Files], NEW o \in Oids,
         \A p \in Oids \ {o} : g[p] = f[p]
  PROVE  Sum(Laid(g)) = Sum(Laid(f)) - (IF f[o] = "none" THEN 0 ELSE Size[o])
                                     + (IF g[o] = "none" THEN 0 ELSE Size[o])
<1>1. Laid(f) \in Weights /\ Laid(g) \in Weights
  BY SizesType DEF Laid
<1>2. \A p \in Oids \ {o} : Laid(g)[p] = Laid(f)[p]
  BY DEF Laid, Sizes
<1>3. /\ Laid(f)[o] = IF f[o] = "none" THEN 0 ELSE Size[o]
      /\ Laid(g)[o] = IF g[o] = "none" THEN 0 ELSE Size[o]
  BY DEF Laid, Sizes
<1>4. Sum(Laid(f)) \in Nat /\ Sum(Laid(g)) \in Nat /\ Size[o] \in Nat
  BY <1>1, SumType, SizeType
<1>5. Sum(Laid(g)) + Laid(f)[o] = Sum(Laid(f)) + Laid(g)[o]
  BY <1>1, <1>2, SumChange
<1>6. QED BY <1>3, <1>4, <1>5

LEMMA Division ==
  ASSUME NEW y \in Int
  PROVE  y = (y \div Wrap) * Wrap + (y % Wrap) /\ y \div Wrap \in Int /\ y % Wrap \in Int
BY WrapPositive

\* Counting around.
LEMMA WrapsAdd ==
  ASSUME NEW x \in Int, NEW b \in Int, NEW d \in Int, Wraps(x, b)
  PROVE  Wraps((x + d) % Wrap, b + d)
<1>1. PICK q \in Int : x = b + q * Wrap
  BY DEF Wraps
<1>2. PICK y \in Int : y = x + d
  OBVIOUS
<1>3. PICK z \in Int, r \in Int : y = z * Wrap + r /\ r = y % Wrap
  BY Division
<1>4. PICK m \in Int : m = q * Wrap
  BY WrapPositive
<1>5. PICK n \in Int : n = z * Wrap
  BY WrapPositive
<1>6. (q - z) * Wrap = m - n
  BY <1>4, <1>5, WrapPositive
<1>7. r = (b + d) + (q - z) * Wrap
  BY <1>1, <1>2, <1>3, <1>4, <1>5, <1>6
<1>8. q - z \in Int
  OBVIOUS
<1>9. QED BY <1>2, <1>3, <1>7, <1>8 DEF Wraps

LEMMA WrapsOnce ==
  ASSUME NEW x \in 0 .. Wrap - 1, NEW b \in Int, Wraps(x, b), b < Wrap
  PROVE  b <= x /\ (b >= 0 => x = b)
<1>1. PICK q \in Int : x = b + q * Wrap
  BY DEF Wraps
<1>2. q > -1
  <2>1. CASE q <= -1
    <3>1. q * Wrap <= -Wrap
      BY <2>1, WrapPositive
    <3>2. QED BY <1>1, <3>1, WrapPositive
  <2>2. QED BY <2>1
<1>3. q * Wrap >= 0
  BY <1>2, WrapPositive
<1>4. CASE q >= 1
  <2>1. q * Wrap >= Wrap
    BY <1>4, WrapPositive
  <2>2. QED BY <1>1, <2>1, WrapPositive
<1>5. CASE q = 0
  BY <1>1, <1>5, WrapPositive
<1>6. QED BY <1>2, <1>4, <1>5

LEMMA FetchesType == TypeOK => fill \in Fetches
BY DEF TypeOK, Fetches

\* A step of one fetch that changes the counter by d and the files by h.
LEMMA Rebalanced ==
  ASSUME TypeOK, TypeOK', NEW o \in Oids, \A p \in Oids \ {o} : fill'[p] = fill[p],
         NEW b \in Int, Balanced(b, file, fill), NEW d \in Int, NEW h \in Int,
         Sum(Laid(file')) = Sum(Laid(file)) + h,
         h + Leaving(fill')[o] + Uncounted(fill)[o]
           <= d + Uncounted(fill')[o] + Leaving(fill)[o],
         d + Coming(fill')[o] <= Coming(fill)[o]
  PROVE  Balanced(b + d, file', fill')
<1>1. fill \in Fetches /\ fill' \in Fetches
  BY FetchesType DEF TypeOK, Fetches
<1>2. /\ Sum(Leaving(fill')) + Leaving(fill)[o] = Sum(Leaving(fill)) + Leaving(fill')[o]
      /\ Sum(Uncounted(fill')) + Uncounted(fill)[o]
           = Sum(Uncounted(fill)) + Uncounted(fill')[o]
      /\ Sum(Coming(fill')) + Coming(fill)[o] = Sum(Coming(fill)) + Coming(fill')[o]
  BY <1>1, FetchSums
<1>3. /\ Sum(Leaving(fill)) \in Nat /\ Sum(Uncounted(fill)) \in Nat
      /\ Sum(Coming(fill)) \in Nat /\ Sum(Laid(file)) \in Nat
      /\ Sum(Leaving(fill')) \in Nat /\ Sum(Uncounted(fill')) \in Nat
      /\ Sum(Coming(fill')) \in Nat /\ Sum(Laid(file')) \in Nat
  BY <1>1, SumTypes
<1>4. \A f \in Fetches : /\ Leaving(f)[o] \in Nat
                         /\ Uncounted(f)[o] \in Nat
                         /\ Coming(f)[o] \in Nat
  BY LeavingType, SizesType DEF Uncounted, Coming, Weights
<1>5. /\ Leaving(fill)[o] \in Nat /\ Uncounted(fill)[o] \in Nat /\ Coming(fill)[o] \in Nat
      /\ Leaving(fill')[o] \in Nat /\ Uncounted(fill')[o] \in Nat
      /\ Coming(fill')[o] \in Nat
  BY <1>1, <1>4
<1>6. MaxBytes \in Int
  BY ConstantsOK
<1>7. /\ Sum(Laid(file)) + Sum(Leaving(fill)) <= b + Sum(Uncounted(fill))
      /\ b + Sum(Coming(fill)) <= MaxBytes
  BY DEF Balanced
<1>8. /\ Sum(Laid(file')) + Sum(Leaving(fill')) <= b + d + Sum(Uncounted(fill'))
      /\ b + d + Sum(Coming(fill')) <= MaxBytes
  BY <1>2, <1>3, <1>5, <1>6, <1>7
<1>9. QED BY <1>8 DEF Balanced

\* Files that are as they were are as many bytes.
LEMMA LaidSame == file' = file => Sum(Laid(file')) = Sum(Laid(file)) + 0
<1>1. Sum(Laid(file)) \in Nat
  BY SizesType, SumType DEF Laid
<1>2. QED BY <1>1

\* The same step, and the rest of the invariant.
LEMMA CounterKept ==
  ASSUME TypeOK, TypeOK', CounterInv, NEW o \in Oids,
         \A p \in Oids \ {o} : fill'[p] = fill[p],
         NEW d \in Int, NEW h \in Int,
         (bytes' = bytes /\ d = 0) \/ bytes' = (bytes + d) % Wrap,
         Sum(Laid(file')) = Sum(Laid(file)) + h,
         h + Leaving(fill')[o] + Uncounted(fill)[o]
           <= d + Uncounted(fill')[o] + Leaving(fill)[o],
         d + Coming(fill')[o] <= Coming(fill)[o],
         filling \ {o} \subseteq filling',
         fill'[o].pc = "subtract" => fill'[o].load <= Size[fill'[o].at],
         fill'[o].pc # "none" => o \in filling'
  PROVE  CounterInv'
<1>1. PICK b \in Int : Wraps(bytes, b) /\ Balanced(b, file, fill)
  BY DEF CounterInv
<1>2. Balanced(b + d, file', fill')
  BY <1>1, Rebalanced
<1>3. bytes \in Int
  BY BytesType
<1>4. Wraps(bytes', b + d)
  <2>1. CASE bytes' = bytes /\ d = 0
    BY <1>1, <2>1 DEF Wraps
  <2>2. CASE bytes' = (bytes + d) % Wrap
    BY <1>1, <1>3, <2>2, WrapsAdd
  <2>3. QED BY <2>1, <2>2
<1>5. \A p \in Oids : FetchSound(p, fill[p])'
  BY DEF CounterInv, FetchSound
<1>6. b + d \in Int
  BY <1>1
<1>7. \E c \in Int : Wraps(bytes', c) /\ Balanced(c, file', fill')
  BY <1>2, <1>4, <1>6
<1>8. QED BY <1>5, <1>7 DEF CounterInv

\* What the fetch that takes the step is about.
LEMMA FetchParts ==
  ASSUME TypeOK, NEW o \in Oids, fill[o].pc # "none"
  PROVE  /\ fill[o] \in Fill /\ fill[o].at \in Oids /\ fill[o].load \in Nat
         /\ fill[o].rest \subseteq Oids /\ fill[o].found \subseteq Oids
         /\ fill[o].total \in Int
         /\ Size[o] \in Nat /\ Size[fill[o].at] \in Nat
BY FillType, SizeType DEF Fill

LEMMA FetchCounter ==
  ASSUME TypeOK, TypeOK', CounterInv, NEW o \in Oids, Fetch(o)
  PROVE  CounterInv'
<1> USE DEF Filling, entries, checks
<1>0. fill \in Fetches /\ fill' \in Fetches /\ file \in [Oids -> Files] /\ file' \in [Oids -> Files]
  BY FetchesType DEF TypeOK, Fetches
<1>1. fill[o].pc # "none"
  BY DEF Fetch, FillFails, FillTruncate, FillSign, FillRename, FillCount, Scan, Take,
         TakeDigest, Load, Subtract, EvictEnds
<1>2. /\ fill[o] \in Fill /\ fill[o].at \in Oids /\ fill[o].load \in Nat
      /\ Size[o] \in Nat /\ Size[fill[o].at] \in Nat /\ fill[o].found \subseteq Oids
  BY <1>1, FetchParts
<1>3. \A p \in Oids \ {o} : fill'[p] = fill[p]
  BY DEF Fetch, FillFails, FillTruncate, FillSign, FillRename, FillCount, Scan, Take,
         TakeDigest, Load, Subtract, EvictEnds, Release, FillGoto, TypeOK
<1>4. /\ Leaving(fill)[o] = IF Removing(fill[o]) THEN Size[fill[o].at] ELSE 0
      /\ Uncounted(fill)[o] = IF fill[o].pc = "count" THEN Size[o] ELSE 0
      /\ Coming(fill)[o] = IF fill[o].pc \in {"fetch", "sign", "rename", "count"}
                             THEN Size[o] ELSE 0
      /\ Leaving(fill')[o] = IF Removing(fill'[o]) THEN Size[fill'[o].at] ELSE 0
      /\ Uncounted(fill')[o] = IF fill'[o].pc = "count" THEN Size[o] ELSE 0
      /\ Coming(fill')[o] = IF fill'[o].pc \in {"fetch", "sign", "rename", "count"}
                              THEN Size[o] ELSE 0
  BY <1>0, OneFetch
<1>5. FetchSound(o, fill[o])
  BY DEF CounterInv
<1>6. CASE FillFails(o) \/ EvictEnds(o)
  <2>1. fill'[o].pc = "none" /\ UNCHANGED <<bytes, file>> /\ filling \ {o} \subseteq filling'
    BY <1>6 DEF FillFails, EvictEnds, Release, NoFill, TypeOK
  <2>2. fill[o].pc \in {"fetch", "sign", "rename", "evict"}
    BY <1>6 DEF FillFails, EvictEnds
  <2>3. QED BY <1>2, <1>3, <1>4, <2>1, <2>2, LaidSame, CounterKept DEF Removing
<1>7. CASE FillTruncate(o) \/ FillSign(o)
  <2>1. /\ fill'[o].pc \in {"sign", "rename"} /\ fill[o].pc \in {"fetch", "sign"}
        /\ UNCHANGED <<bytes, file, filling>>
    BY <1>2, <1>7 DEF FillTruncate, FillSign, FillGoto, TypeOK, Fill
  <2>2. QED
    BY <1>2, <1>3, <1>4, <1>5, <2>1, LaidSame, CounterKept DEF Removing, FetchSound
<1>8. CASE FillRename(o)
  <2>1. /\ fill'[o].pc = "count" /\ fill[o].pc = "rename" /\ UNCHANGED <<bytes, filling>>
        /\ file'[o] # "none" /\ \A p \in Oids \ {o} : file'[p] = file[p]
    BY <1>2, <1>8 DEF FillRename, FillGoto, TypeOK, Fill
  <2>2. PICK h \in Int : h = IF file[o] = "none" THEN Size[o] ELSE 0
    BY <1>2
  <2>3. Sum(Laid(file')) = Sum(Laid(file)) + h
    <3>1. Sum(Laid(file)) \in Nat
      BY SizesType, SumType DEF Laid
    <3>2. QED BY <1>0, <1>2, <2>1, <2>2, <3>1, LaidChange
  <2>4. h + Leaving(fill')[o] + Uncounted(fill)[o]
          <= 0 + Uncounted(fill')[o] + Leaving(fill)[o]
    BY <1>2, <1>4, <2>1, <2>2 DEF Removing
  <2>5. QED
    BY <1>2, <1>3, <1>4, <1>5, <2>1, <2>3, <2>4, CounterKept DEF FetchSound
<1>9. CASE FillCount(o)
  <2>1. /\ fill'[o].pc = "scan" /\ fill[o].pc = "count" /\ UNCHANGED <<file, filling>>
        /\ bytes' = (bytes + Size[o]) % Wrap
    BY <1>2, <1>9 DEF FillCount, TypeOK, Fill
  <2>2. QED
    BY <1>2, <1>3, <1>4, <1>5, <2>1, LaidSame, CounterKept DEF Removing, FetchSound
<1>10. ASSUME NEW n \in Oids, Scan(o, n) PROVE CounterInv'
  <2>1. /\ fill'[o].pc \in {"scan", "evict"} /\ fill[o].pc = "scan"
        /\ UNCHANGED <<bytes, file, filling>>
    BY <1>2, <1>10 DEF Scan, TypeOK, Fill
  <2>2. QED
    BY <1>2, <1>3, <1>4, <1>5, <2>1, LaidSame, CounterKept DEF Removing, FetchSound
<1>11. ASSUME NEW n \in Oids, Take(o, n) PROVE CounterInv'
  <2>1. /\ fill[o].pc = "evict" /\ UNCHANGED <<bytes, filling>>
        /\ file'[n] = "none" /\ \A p \in Oids \ {n} : file'[p] = file[p]
        /\ fill'[o].at = n
        /\ fill'[o].pc = IF file[n] = "none" THEN "evict" ELSE "undigest"
    BY <1>2, <1>11 DEF Take, TypeOK, Fill
  <2>2. Size[n] \in Nat
    BY SizeType
  <2>3. PICK h \in Int : h = IF file[n] = "none" THEN 0 ELSE -Size[n]
    BY <2>2
  <2>4. Sum(Laid(file')) = Sum(Laid(file)) + h
    <3>1. Sum(Laid(file)) \in Nat
      BY SizesType, SumType DEF Laid
    <3>2. QED BY <1>0, <2>1, <2>2, <2>3, <3>1, LaidChange
  <2>5. h + Leaving(fill')[o] + Uncounted(fill)[o]
          <= 0 + Uncounted(fill')[o] + Leaving(fill)[o]
    BY <1>2, <1>4, <2>1, <2>2, <2>3 DEF Removing
  <2>6. QED
    BY <1>2, <1>3, <1>4, <1>5, <2>1, <2>4, <2>5, CounterKept DEF FetchSound
<1>12. CASE TakeDigest(o)
  <2>1. /\ fill'[o].pc = "load" /\ fill[o].pc = "undigest" /\ fill'[o].at = fill[o].at
        /\ UNCHANGED <<bytes, file, filling>>
    BY <1>2, <1>12 DEF TakeDigest, TypeOK, Fill
  <2>2. QED
    BY <1>2, <1>3, <1>4, <1>5, <2>1, LaidSame, CounterKept DEF Removing, FetchSound
<1>13. CASE Load(o)
  <2>1. /\ fill'[o].pc = "subtract" /\ fill[o].pc = "load" /\ fill'[o].at = fill[o].at
        /\ fill'[o].load = Min2(Size[fill[o].at], bytes)
        /\ UNCHANGED <<bytes, file, filling>>
    BY <1>2, <1>13 DEF Load, TypeOK, Fill
  <2>2. fill'[o].load <= Size[fill'[o].at]
    BY <1>2, <2>1, BytesType DEF Min2
  <2>3. QED
    BY <1>2, <1>3, <1>4, <1>5, <2>1, <2>2, LaidSame, CounterKept
      DEF Removing, FetchSound
<1>14. CASE Subtract(o)
  <2>1. /\ fill'[o].pc = "evict" /\ fill[o].pc = "subtract"
        /\ bytes' = (bytes - fill[o].load) % Wrap
        /\ UNCHANGED <<file, filling>>
    BY <1>2, <1>14 DEF Subtract, TypeOK, Fill
  <2>2. PICK d \in Int : d = -fill[o].load
    BY <1>2
  <2>3. bytes' = (bytes + d) % Wrap
    BY <1>2, <2>1, <2>2, BytesType
  <2>4. 0 + Leaving(fill')[o] + Uncounted(fill)[o]
          <= d + Uncounted(fill')[o] + Leaving(fill)[o]
    BY <1>2, <1>4, <1>5, <2>1, <2>2 DEF Removing, FetchSound
  <2>5. d + Coming(fill')[o] <= Coming(fill)[o]
    BY <1>2, <1>4, <2>1, <2>2
  <2>6. QED
    BY <1>2, <1>3, <1>5, <2>1, <2>3, <2>4, <2>5, LaidSame, CounterKept DEF FetchSound
<1>15. QED
  BY <1>6, <1>7, <1>8, <1>9, <1>10, <1>11, <1>12, <1>13, <1>14 DEF Fetch

\* A claim is made only where there is room for what comes already, and for it.
LEMMA ClaimCounter ==
  ASSUME TypeOK, TypeOK', CounterInv, NEW t \in Readers, Behind(t), ~UNCHANGED fills
  PROVE  CounterInv'
<1> USE DEF entries, checks
<1>1. PICK o \in Oids : o = reader[t].oid
  BY ReaderType DEF Behind, Busy, Reader
<1>2. /\ o \notin filling /\ Room(o) /\ filling' = filling \cup {o}
      /\ fill' = [fill EXCEPT ![o] = Begun(o)] /\ UNCHANGED <<bytes, file>>
  BY <1>1 DEF Behind
<1>3. /\ fill \in Fetches /\ fill' \in Fetches
      /\ fill'[o].pc = "fetch" /\ \A p \in Oids \ {o} : fill'[p] = fill[p]
  BY <1>2, FetchesType DEF TypeOK, Fetches, Begun
<1>4. fill[o].pc = "none"
  BY <1>2 DEF CounterInv, FetchSound
<1>5. PICK b \in Int : Wraps(bytes, b) /\ Balanced(b, file, fill)
  BY DEF CounterInv
<1>6. /\ Sum(Leaving(fill')) + Leaving(fill)[o] = Sum(Leaving(fill)) + Leaving(fill')[o]
      /\ Sum(Uncounted(fill')) + Uncounted(fill)[o]
           = Sum(Uncounted(fill)) + Uncounted(fill')[o]
  BY <1>3, FetchSums
<1>7. /\ Leaving(fill)[o] = 0 /\ Uncounted(fill)[o] = 0
      /\ Leaving(fill')[o] = 0 /\ Uncounted(fill')[o] = 0
  BY <1>3, <1>4, OneFetch DEF Removing
<1>8. /\ Sum(Leaving(fill)) \in Nat /\ Sum(Uncounted(fill)) \in Nat
      /\ Sum(Coming(fill)) \in Nat /\ Sum(Leaving(fill')) \in Nat
      /\ Sum(Uncounted(fill')) \in Nat /\ Sum(Coming(fill')) \in Nat
      /\ Sum(Laid(file)) \in Nat
  BY <1>3, SumTypes
<1>9. Sum(Coming(fill')) <= Total[filling \cup {o}]
  <2>1. filling \cup {o} \in SUBSET Oids
    BY DEF TypeOK
  <2>2. \A p \in Oids : Coming(fill')[p] <= Sizes(filling \cup {o})[p]
    <3> TAKE p \in Oids
    <3>1. fill'[p].pc # "none" => p \in filling \cup {o}
      BY <1>3 DEF CounterInv, FetchSound
    <3>2. QED BY <3>1, SizeType DEF Coming, Sizes
  <2>3. Coming(fill') \in Weights /\ Sizes(filling \cup {o}) \in Weights
    BY SizesType DEF Coming
  <2>4. Sum(Coming(fill')) <= Sum(Sizes(filling \cup {o}))
    BY <2>2, <2>3, SumGrows
  <2>5. QED BY <2>1, <2>4, TotalIsSum
<1>10. bytes + Total[filling \cup {o}] <= MaxBytes
  BY <1>2 DEF Room
<1>11. Total[filling \cup {o}] \in Nat
  <2>1. filling \cup {o} \in SUBSET Oids
    BY DEF TypeOK
  <2>2. QED BY <2>1, TotalIsSum, SizesType, SumType
<1>12. b <= bytes
  <2>1. b <= MaxBytes
    BY <1>5, <1>8, ConstantsOK DEF Balanced
  <2>2. b < Wrap
    BY <2>1, ConstantsOK
  <2>3. bytes \in 0 .. Wrap - 1
    BY DEF TypeOK
  <2>4. QED BY <1>5, <2>2, <2>3, WrapsOnce
<1>13. b + Sum(Coming(fill')) <= MaxBytes
  BY <1>8, <1>9, <1>10, <1>11, <1>12, BytesType, ConstantsOK
<1>14. Sum(Leaving(fill')) = Sum(Leaving(fill)) /\ Sum(Uncounted(fill')) = Sum(Uncounted(fill))
  BY <1>6, <1>7, <1>8
<1>15. Balanced(b, file', fill')
  BY <1>2, <1>5, <1>13, <1>14 DEF Balanced
<1>16. Wraps(bytes', b)
  BY <1>2, <1>5
<1>17. \A p \in Oids : FetchSound(p, fill[p])'
  BY <1>2, <1>3 DEF CounterInv, FetchSound
<1>18. QED BY <1>15, <1>16, <1>17 DEF CounterInv

\* What else a download does removes a file at most.
LEMMA DownloadCounter ==
  ASSUME TypeOK, TypeOK', CounterInv, NEW t \in Readers, Download(t)
  PROVE  CounterInv'
<1> USE DEF entries, checks
<1>1. CASE ~UNCHANGED fills
  <2>1. Behind(t)
    BY <1>1
      DEF Download, Open, Look, Enter, ReadDigest, Hash, Judge, Discard, DiscardDigest,
                Serve, Leave
  <2>2. QED BY <1>1, <2>1, ClaimCounter
<1>2. CASE UNCHANGED fills
  <2>1. UNCHANGED bytes
    BY DEF Download, Open, Look, Enter, ReadDigest, Hash, Judge, Discard, DiscardDigest,
           Serve, Leave, Behind
  <2>2. Sum(Laid(file')) <= Sum(Laid(file))
    <3>1. \A o \in Oids : file'[o] # "none" => file[o] # "none"
      <4>1. CASE Discard(t)
        BY <4>1 DEF Discard, TypeOK
      <4>2. CASE ~Discard(t)
        BY <4>2 DEF Download, Open, Look, Enter, ReadDigest, Hash, Judge, DiscardDigest,
                    Serve, Leave, Behind
      <4>3. QED BY <4>1, <4>2
    <3>2. \A o \in Oids : Laid(file')[o] <= Laid(file)[o]
      BY <3>1, SizeType DEF Laid, Sizes
    <3>3. Laid(file) \in Weights /\ Laid(file') \in Weights
      BY SizesType DEF Laid
    <3>4. QED BY <3>2, <3>3, SumGrows
  <2>3. PICK b \in Int : Wraps(bytes, b) /\ Balanced(b, file, fill)
    BY DEF CounterInv
  <2>4. /\ Sum(Leaving(fill)) \in Nat /\ Sum(Uncounted(fill)) \in Nat
        /\ Sum(Laid(file)) \in Nat /\ Sum(Laid(file')) \in Nat
    BY FetchesType, SumTypes
  <2>5. Balanced(b, file', fill)
    BY <2>2, <2>3, <2>4 DEF Balanced
  <2>6. \A p \in Oids : FetchSound(p, fill[p])'
    BY <1>2 DEF CounterInv, FetchSound, fills
  <2>7. QED BY <1>2, <2>1, <2>3, <2>5, <2>6 DEF CounterInv, fills
<1>3. QED BY <1>1, <1>2

LEMMA HeldIsLaid == TypeOK => Held = Sum(Laid(file))
<1> SUFFICES ASSUME TypeOK PROVE Held = Sum(Laid(file))
  OBVIOUS
<1>1. Present \in SUBSET Oids
  BY DEF Present
<1>2. QED BY <1>1, TotalIsSum DEF Held, Laid, Present

LEMMA CounterInit == Init => CounterInv
<1> SUFFICES ASSUME Init PROVE CounterInv
  OBVIOUS
<1>1. fill \in Fetches /\ \A o \in Oids : fill[o].pc = "none" /\ file[o] = "none"
  BY DEF Init, Fetches, NoFill
<1>2. /\ \A o \in Oids : Laid(file)[o] = 0 /\ Leaving(fill)[o] = 0
      /\ \A o \in Oids : Uncounted(fill)[o] = 0 /\ Coming(fill)[o] = 0
  BY <1>1 DEF Laid, Leaving, Removing, Uncounted, Coming, Sizes
<1>3. Leaving(fill) \in Weights /\ Uncounted(fill) \in Weights /\ Coming(fill) \in Weights
      /\ Laid(file) \in Weights
  BY <1>1, LeavingType, SizesType DEF Uncounted, Coming, Laid
<1>4. /\ Sum(Laid(file)) = 0 /\ Sum(Leaving(fill)) = 0
      /\ Sum(Uncounted(fill)) = 0 /\ Sum(Coming(fill)) = 0
  BY <1>2, <1>3, SumOfNone
<1>5. Balanced(0, file, fill)
  BY <1>4, ConstantsOK DEF Balanced
<1>6. Wraps(bytes, 0)
  <2>1. 0 = 0 + 0 * Wrap
    BY WrapPositive
  <2>2. QED BY <2>1 DEF Wraps, Init
<1>7. \A o \in Oids : FetchSound(o, fill[o])
  BY <1>1 DEF FetchSound
<1>8. QED BY <1>5, <1>6, <1>7 DEF CounterInv

\* A process that comes back counts what is there, which was never too much.
LEMMA CounterRestart ==
  ASSUME TypeOK, TypeOK', CounterInv, Restart
  PROVE  CounterInv'
<1> USE DEF entries, checks
<1>1. /\ fill' \in Fetches /\ \A o \in Oids : fill'[o].pc = "none"
      /\ \A o \in Oids : file'[o] = "none" <=> file[o] = "none"
  BY DEF Restart, Fetches, NoFill, Present
<1>2. /\ \A o \in Oids : Leaving(fill')[o] = 0
      /\ \A o \in Oids : Uncounted(fill')[o] = 0 /\ Coming(fill')[o] = 0
  BY <1>1 DEF Leaving, Removing, Uncounted, Coming, Sizes
<1>3. Leaving(fill') \in Weights /\ Uncounted(fill') \in Weights /\ Coming(fill') \in Weights
  BY <1>1, LeavingType, SizesType DEF Uncounted, Coming
<1>4. Sum(Leaving(fill')) = 0 /\ Sum(Uncounted(fill')) = 0 /\ Sum(Coming(fill')) = 0
  BY <1>2, <1>3, SumOfNone
<1>5. Sum(Laid(file')) = Sum(Laid(file))
  <2>1. {o \in Oids : file'[o] # "none"} = {o \in Oids : file[o] # "none"}
    BY <1>1
  <2>2. QED BY <2>1 DEF Laid
<1>6. bytes' = Sum(Laid(file))
  BY HeldIsLaid DEF Restart
<1>7. Sum(Laid(file)) <= MaxBytes
  <2>1. PICK b \in Int : Balanced(b, file, fill)
    BY DEF CounterInv
  <2>2. Sum(Uncounted(fill)) <= Sum(Coming(fill))
    <3>1. Uncounted(fill) \in Weights /\ Coming(fill) \in Weights
      BY SizesType DEF Uncounted, Coming
    <3>2. \A o \in Oids : Uncounted(fill)[o] <= Coming(fill)[o]
      BY SizeType DEF Uncounted, Coming, Sizes
    <3>3. QED BY <3>1, <3>2, SumGrows
  <2>3. /\ Sum(Leaving(fill)) \in Nat /\ Sum(Uncounted(fill)) \in Nat
        /\ Sum(Coming(fill)) \in Nat /\ Sum(Laid(file)) \in Nat
    BY FetchesType, SumTypes
  <2>4. QED BY <2>1, <2>2, <2>3, ConstantsOK DEF Balanced
<1>8. Sum(Laid(file)) \in Nat
  BY SizesType, SumType DEF Laid
<1>9. Balanced(bytes', file', fill')
  BY <1>4, <1>5, <1>6, <1>7, <1>8, ConstantsOK DEF Balanced
<1>10. Wraps(bytes', bytes')
  <2>1. bytes' \in Int /\ bytes' = bytes' + 0 * Wrap
    BY <1>6, <1>8, WrapPositive
  <2>2. QED BY <2>1 DEF Wraps
<1>11. \A o \in Oids : FetchSound(o, fill[o])'
  BY <1>1 DEF FetchSound
<1>12. bytes' \in Int
  BY <1>6, <1>8
<1>13. QED BY <1>9, <1>10, <1>11, <1>12 DEF CounterInv

LEMMA CounterStep == TypeOK /\ CounterInv /\ [Next]_vars => CounterInv'
<1> SUFFICES ASSUME TypeOK, CounterInv, [Next]_vars PROVE CounterInv'
  OBVIOUS
<1>1. TypeOK'
  BY TypeStep
<1>2. CASE UNCHANGED vars
  BY <1>2 DEF vars, entries, fills, CounterInv, FetchSound
<1>3. QED
  BY <1>1, <1>2, DownloadCounter, FetchCounter, CounterRestart DEF Next

\* With nothing half counted the counter is what it stands for.
LEMMA CounterIsTrue == TypeOK /\ CounterInv => CounterCovers
<1> SUFFICES ASSUME TypeOK, CounterInv, \A o \in Oids : ~Counting(o)
             PROVE  Held <= bytes /\ bytes <= MaxBytes
  BY DEF CounterCovers
<1>1. PICK b \in Int : Wraps(bytes, b) /\ Balanced(b, file, fill)
  BY DEF CounterInv
<1>2. \A o \in Oids : Leaving(fill)[o] = 0 /\ Uncounted(fill)[o] = 0
  BY DEF Leaving, Removing, Uncounted, Sizes, Counting
<1>3. Leaving(fill) \in Weights /\ Uncounted(fill) \in Weights
  BY FetchesType, LeavingType, SizesType DEF Uncounted
<1>4. Sum(Leaving(fill)) = 0 /\ Sum(Uncounted(fill)) = 0
  BY <1>2, <1>3, SumOfNone
<1>5. Sum(Coming(fill)) \in Nat /\ Sum(Laid(file)) \in Nat
  BY FetchesType, SumTypes
<1>6. Sum(Laid(file)) <= b /\ b <= MaxBytes
  BY <1>1, <1>4, <1>5, ConstantsOK DEF Balanced
<1>7. bytes = b
  <2>1. b < Wrap /\ b >= 0
    BY <1>5, <1>6, ConstantsOK
  <2>2. bytes \in 0 .. Wrap - 1
    BY DEF TypeOK
  <2>3. QED BY <1>1, <2>1, <2>2, WrapsOnce
<1>8. QED BY <1>6, <1>7, HeldIsLaid

\* lfsx_cache_bytes covers what the directory holds and has not wrapped whenever
\* nothing is half counted, for any objects, sizes and fetches that overlap
\* (cache.rs 40-43, 262-327).
THEOREM CounterHolds == Spec => []CounterCovers
BY CounterInit, CounterStep, CounterIsTrue, TypeInit, TypeStep, PTL DEF Spec

-----------------------------------------------------------------------------
(* CeilingKept.                                                            *)

\* A fetch with its own file in place and counted.
Making(f) == f.pc \in {"scan", "evict", "undigest", "load", "subtract"}

\* Before its listing a fetch has found nothing.  Its total is no less than what
\* it has found and not removed yet.
Tallied(f) ==
  /\ f.pc \in {"fetch", "sign", "rename", "count"} => f.found = {} /\ f.total = 0
  /\ Making(f) => /\ f.rest \cap f.found = {}
                  /\ f.pc # "scan" => f.rest = {}
                  /\ Total[f.found] + (IF f.pc = "undigest" THEN Size[f.at] ELSE 0)
                       <= f.total

\* A fetch that has come across every file there is, or will.
Covers(f) == f.pc = "count" \/ (Making(f) /\ Present \subseteq f.rest \cup f.found)

\* While somebody makes room there is one who has all files before him, unless
\* they fit.
CeilingInv ==
  /\ \A o \in Oids : Tallied(fill[o])
  /\ (\E o \in Oids : Evicting(o)) => Held <= Ceiling \/ \E o \in Oids : Covers(fill[o])

LEMMA TotalType == ASSUME NEW S \in SUBSET Oids PROVE Total[S] \in Nat
BY TotalIsSum, SizesType, SumType

LEMMA TotalGrows ==
  ASSUME NEW S \in SUBSET Oids, NEW T \in SUBSET S
  PROVE  Total[T] <= Total[S]
<1>1. T \in SUBSET Oids
  OBVIOUS
<1>2. \A o \in Oids : Sizes(T)[o] <= Sizes(S)[o]
  BY SizeType DEF Sizes
<1>3. QED BY <1>1, <1>2, TotalIsSum, SizesType, SumGrows

LEMMA TotalAdds ==
  ASSUME NEW S \in SUBSET Oids, NEW n \in Oids, n \notin S
  PROVE  Total[S \cup {n}] = Total[S] + Size[n]
<1>1. S \cup {n} \in SUBSET Oids
  OBVIOUS
<1>2. /\ \A p \in Oids \ {n} : Sizes(S \cup {n})[p] = Sizes(S)[p]
      /\ Sizes(S)[n] = 0 /\ Sizes(S \cup {n})[n] = Size[n]
  BY DEF Sizes
<1>3. Sizes(S) \in Weights /\ Sizes(S \cup {n}) \in Weights
  BY SizesType
<1>4. Sum(Sizes(S \cup {n})) + 0 = Sum(Sizes(S)) + Size[n]
  BY <1>2, <1>3, SumChange
<1>5. Sum(Sizes(S)) \in Nat /\ Sum(Sizes(S \cup {n})) \in Nat /\ Size[n] \in Nat
  BY <1>3, SumType, SizeType
<1>6. Total[S] = Sum(Sizes(S)) /\ Total[S \cup {n}] = Sum(Sizes(S \cup {n}))
  BY <1>1, TotalIsSum
<1>7. QED BY <1>4, <1>5, <1>6

LEMMA TotalOfNone == Total[{}] = 0
<1>1. \A o \in Oids : Sizes({})[o] = 0
  BY DEF Sizes
<1>2. QED BY <1>1, TotalIsSum, SizesType, SumOfNone

LEMMA HeldType == Present \in SUBSET Oids /\ Held \in Nat /\ Ceiling \in Nat
<1>1. Present \in SUBSET Oids
  BY DEF Present
<1>2. QED BY <1>1, TotalType, ConstantsOK DEF Held

\* With fewer files there are fewer bytes.
LEMMA HeldShrinks == Present' \subseteq Present => Held' <= Held
<1> SUFFICES ASSUME Present' \subseteq Present PROVE Held' <= Held
  OBVIOUS
<1>1. Present \in SUBSET Oids
  BY DEF Present
<1>2. QED BY <1>1, TotalGrows DEF Held

\* A fetch that ends with every file before it leaves no more than the ceiling.
LEMMA EndFits ==
  ASSUME TypeOK, CeilingInv, NEW o \in Oids, EvictEnds(o), Covers(fill[o])
  PROVE  Held <= Ceiling
<1>1. fill[o].pc = "evict"
  BY DEF EvictEnds, Filling
<1>2. fill[o].found \in SUBSET Oids /\ fill[o].total \in Int
  BY <1>1, FetchParts
<1>3. Present \subseteq fill[o].found /\ Total[fill[o].found] <= fill[o].total
  BY <1>1, <1>2, TotalType DEF CeilingInv, Tallied, Covers, Making
<1>4. Held <= Total[fill[o].found]
  BY <1>2, <1>3, TotalGrows DEF Held
<1>5. Held \in Nat /\ Ceiling \in Nat /\ Total[fill[o].found] \in Nat
  BY <1>2, HeldType, TotalType
<1>6. CASE fill[o].total <= Ceiling
  BY <1>2, <1>3, <1>4, <1>5, <1>6
<1>7. CASE fill[o].found = {}
  BY <1>4, <1>5, <1>7, TotalOfNone
<1>8. QED BY <1>6, <1>7 DEF EvictEnds

\* A step of one fetch that adds no file and keeps what it covers.
LEMMA CeilingStays ==
  ASSUME TypeOK, CeilingInv, NEW o \in Oids, \A p \in Oids \ {o} : fill'[p] = fill[p],
         Present' \subseteq Present, Tallied(fill'[o]),
         Evicting(o)' => Evicting(o),
         Covers(fill[o]) => Covers(fill[o])'
  PROVE  CeilingInv'
<1>1. \A p \in Oids : Tallied(fill'[p])
  BY DEF CeilingInv
<1>2. \A p \in Oids : Evicting(p)' => Evicting(p)
  BY DEF Evicting
<1>3. \A p \in Oids : Covers(fill[p]) => Covers(fill[p])'
  BY DEF Covers
<1>4. Held' <= Held /\ Held \in Nat /\ Held' \in Nat /\ Ceiling \in Nat
  <2>1. Present' \in SUBSET Oids
    BY DEF Present
  <2>2. Held' \in Nat
    BY <2>1, TotalType DEF Held
  <2>3. QED BY <2>2, HeldShrinks, HeldType
<1>5. Held <= Ceiling => Held' <= Ceiling
  BY <1>4
<1>6. (\E p \in Oids : Evicting(p))' =>
        Held' <= Ceiling \/ \E p \in Oids : Covers(fill[p])'
  BY <1>2, <1>3, <1>5 DEF CeilingInv
<1>7. \A p \in Oids : Tallied(fill[p])'
  BY <1>1 DEF Tallied, Making
<1>8. QED BY <1>6, <1>7 DEF CeilingInv

LEMMA FetchCeiling ==
  ASSUME TypeOK, TypeOK', CeilingInv, NEW o \in Oids, Fetch(o)
  PROVE  CeilingInv'
<1> USE DEF Filling, entries, checks
<1>1. fill[o].pc # "none"
  BY DEF Fetch, FillFails, FillTruncate, FillSign, FillRename, FillCount, Scan, Take,
         TakeDigest, Load, Subtract, EvictEnds
<1>2. /\ fill[o] \in Fill /\ fill[o].at \in Oids /\ fill[o].total \in Int
      /\ Size[o] \in Nat /\ Size[fill[o].at] \in Nat
      /\ fill[o].found \in SUBSET Oids /\ fill[o].rest \in SUBSET Oids
      /\ Total[fill[o].found] \in Nat
  BY <1>1, FetchParts, TotalType
<1>3. \A p \in Oids \ {o} : fill'[p] = fill[p]
  BY DEF Fetch, FillFails, FillTruncate, FillSign, FillRename, FillCount, Scan, Take,
         TakeDigest, Load, Subtract, EvictEnds, Release, FillGoto, TypeOK
<1>4. Tallied(fill[o])
  BY DEF CeilingInv
<1>5. file' = file => Present' = Present
  BY DEF Present
<1>6. CASE FillFails(o)
  <2>1. fill'[o].pc = "none" /\ fill[o].pc \in {"fetch", "sign", "rename"} /\ file' = file
    BY <1>6 DEF FillFails, Release, NoFill, TypeOK
  <2>2. Tallied(fill'[o])
    BY <2>1 DEF Tallied, Making
  <2>3. QED BY <1>3, <1>5, <2>1, <2>2, CeilingStays DEF Evicting, Covers, Making
<1>7. CASE FillTruncate(o) \/ FillSign(o)
  <2>1. /\ fill'[o].pc \in {"sign", "rename"} /\ fill[o].pc \in {"fetch", "sign"}
        /\ fill'[o].found = fill[o].found /\ fill'[o].total = fill[o].total
        /\ file' = file
    BY <1>2, <1>7 DEF FillTruncate, FillSign, FillGoto, TypeOK, Fill
  <2>2. Tallied(fill'[o])
    BY <1>4, <2>1 DEF Tallied, Making
  <2>3. QED BY <1>3, <1>5, <2>1, <2>2, CeilingStays DEF Evicting, Covers, Making
<1>8. CASE FillRename(o)
  <2>1. /\ fill'[o].pc = "count" /\ fill[o].pc = "rename"
        /\ fill'[o].found = fill[o].found /\ fill'[o].total = fill[o].total
    BY <1>2, <1>8 DEF FillRename, FillGoto, TypeOK, Fill
  <2>2. Tallied(fill'[o])
    BY <1>4, <2>1 DEF Tallied, Making
  <2>3. \A p \in Oids : Tallied(fill[p])'
    BY <1>3, <2>2 DEF CeilingInv, Tallied, Making
  <2>4. Covers(fill[o])'
    BY <2>1 DEF Covers
  <2>5. QED BY <2>3, <2>4 DEF CeilingInv
<1>9. CASE FillCount(o)
  <2>1. /\ fill'[o].pc = "scan" /\ fill[o].pc = "count" /\ fill'[o].rest = Oids
        /\ fill'[o].found = fill[o].found /\ fill'[o].total = fill[o].total
        /\ file' = file
    BY <1>2, <1>9 DEF FillCount, TypeOK, Fill
  <2>2. Tallied(fill'[o])
    BY <1>4, <2>1, TotalOfNone DEF Tallied, Making
  <2>3. Covers(fill[o])'
    BY <2>1 DEF Covers, Making, Present
  <2>4. QED BY <1>3, <1>5, <2>1, <2>2, <2>3, CeilingStays DEF Evicting
<1>10. ASSUME NEW n \in Oids, Scan(o, n) PROVE CeilingInv'
  <2>1. /\ fill'[o].pc = (IF fill[o].rest = {n} THEN "evict" ELSE "scan")
        /\ fill[o].pc = "scan" /\ n \in fill[o].rest
        /\ fill'[o].rest = fill[o].rest \ {n}
        /\ fill'[o].found = fill[o].found \cup ({n} \cap Present)
        /\ fill'[o].total = IF n \in Present THEN fill[o].total + Size[n] ELSE fill[o].total
        /\ file' = file
    BY <1>2, <1>10 DEF Scan, TypeOK, Fill
  <2>2. n \notin fill[o].found
    BY <1>4, <2>1 DEF Tallied, Making
  <2>3. Total[fill'[o].found] <= fill'[o].total
    <3>1. Total[fill[o].found] <= fill[o].total
      BY <1>2, <1>4, <2>1 DEF Tallied, Making
    <3>2. CASE n \in Present
      <4>1. fill'[o].found = fill[o].found \cup {n}
        BY <2>1, <3>2
      <4>2. Total[fill[o].found \cup {n}] = Total[fill[o].found] + Size[n]
        BY <1>2, <2>2, TotalAdds
      <4>3. Size[n] \in Nat
        BY SizeType
      <4>4. fill'[o].total = fill[o].total + Size[n]
        BY <2>1, <3>2
      <4>5. Total[fill'[o].found] = Total[fill[o].found] + Size[n]
        BY <4>1, <4>2
      <4>6. QED BY <1>2, <3>1, <4>3, <4>4, <4>5
    <3>3. CASE n \notin Present
      <4>1. fill'[o].found = fill[o].found
        BY <2>1, <3>3
      <4>2. QED BY <2>1, <3>1, <3>3, <4>1
    <3>4. QED BY <3>2, <3>3
  <2>4. Total[fill'[o].found] \in Nat /\ fill'[o].total \in Int
    <3>1. fill'[o].found \in SUBSET Oids
      BY <1>2, <2>1
    <3>2. QED BY <1>2, <2>1, <3>1, TotalType, SizeType
  <2>5. Tallied(fill'[o])
    BY <1>4, <2>1, <2>3, <2>4 DEF Tallied, Making
  <2>6. Covers(fill[o]) => Covers(fill[o])'
    BY <1>5, <2>1 DEF Covers, Making
  <2>7. QED BY <1>3, <1>5, <2>1, <2>5, <2>6, CeilingStays DEF Evicting
<1>11. ASSUME NEW n \in Oids, Take(o, n) PROVE CeilingInv'
  <2>1. /\ fill'[o].pc = (IF file[n] = "none" THEN "evict" ELSE "undigest")
        /\ fill[o].pc = "evict" /\ n \in fill[o].found /\ fill'[o].at = n
        /\ fill'[o].rest = fill[o].rest
        /\ fill'[o].found = fill[o].found \ {n}
        /\ fill'[o].total = fill[o].total
        /\ file' = [file EXCEPT ![n] = "none"]
    BY <1>2, <1>11 DEF Take, TypeOK, Fill
  <2>2. Present' = Present \ {n}
    BY <2>1 DEF Present, TypeOK
  <2>3. PICK left \in SUBSET Oids : left = fill[o].found \ {n} /\ n \notin left
    <3>1. fill[o].found \ {n} \in SUBSET Oids /\ n \notin fill[o].found \ {n}
      BY <1>2
    <3>2. QED BY <3>1
  <2>4. fill[o].found = left \cup {n}
    BY <2>1, <2>3
  <2>5. Total[left \cup {n}] = Total[left] + Size[n]
    BY <2>3, TotalAdds
  <2>6. Total[left] \in Nat /\ Size[n] \in Nat
    BY TotalType, SizeType
  <2>7. Total[fill[o].found] <= fill[o].total
    BY <1>2, <1>4, <2>1 DEF Tallied, Making
  <2>8. Total[left] + Size[n] <= fill[o].total
    BY <2>4, <2>5, <2>7
  <2>9. Tallied(fill'[o])
    BY <1>2, <1>4, <2>1, <2>3, <2>6, <2>8 DEF Tallied, Making
  <2>10. Covers(fill[o]) => Covers(fill[o])'
    BY <2>1, <2>2 DEF Covers, Making
  <2>11. QED BY <1>3, <2>1, <2>2, <2>9, <2>10, CeilingStays DEF Evicting
<1>12. CASE TakeDigest(o)
  <2>1. /\ fill'[o].pc = "load" /\ fill[o].pc = "undigest"
        /\ fill'[o].rest = fill[o].rest /\ fill'[o].found = fill[o].found
        /\ fill'[o].total = fill[o].total - Size[fill[o].at]
        /\ file' = file
    BY <1>2, <1>12 DEF TakeDigest, TypeOK, Fill
  <2>2. Total[fill[o].found] <= fill'[o].total
    BY <1>2, <1>4, <2>1 DEF Tallied, Making
  <2>3. Total[fill[o].found] + 0 <= fill'[o].total
    BY <1>2, <2>1, <2>2
  <2>4. Tallied(fill'[o])
    BY <1>4, <2>1, <2>3 DEF Tallied, Making
  <2>5. Covers(fill[o]) => Covers(fill[o])'
    BY <1>5, <2>1 DEF Covers, Making
  <2>6. QED BY <1>3, <1>5, <2>1, <2>4, <2>5, CeilingStays DEF Evicting
<1>13. CASE Load(o) \/ Subtract(o)
  <2>1. /\ fill'[o].pc \in {"subtract", "evict"} /\ fill[o].pc \in {"load", "subtract"}
        /\ fill'[o].rest = fill[o].rest /\ fill'[o].found = fill[o].found
        /\ fill'[o].total = fill[o].total
        /\ file' = file
    <3>1. CASE Load(o)
      BY <1>2, <3>1 DEF Load, TypeOK, Fill
    <3>2. CASE Subtract(o)
      BY <1>2, <3>2 DEF Subtract, TypeOK, Fill
    <3>3. QED BY <1>13, <3>1, <3>2
  <2>2. Tallied(fill'[o])
    BY <1>4, <2>1 DEF Tallied, Making
  <2>3. Covers(fill[o]) => Covers(fill[o])'
    BY <1>5, <2>1 DEF Covers, Making
  <2>4. QED BY <1>3, <1>5, <2>1, <2>2, <2>3, CeilingStays DEF Evicting
<1>14. CASE EvictEnds(o)
  <2>1. fill'[o].pc = "none" /\ fill[o].pc = "evict" /\ file' = file
    BY <1>14 DEF EvictEnds, Release, NoFill, TypeOK
  <2>2. Tallied(fill'[o])
    BY <2>1 DEF Tallied, Making
  <2>3. CASE Covers(fill[o])
    <3>1. Held <= Ceiling
      BY <1>14, <2>3, EndFits
    <3>2. Held' <= Ceiling
      BY <1>5, <2>1, <3>1 DEF Held
    <3>3. \A p \in Oids : Tallied(fill[p])'
      BY <1>3, <2>2 DEF CeilingInv, Tallied, Making
    <3>4. QED BY <3>2, <3>3 DEF CeilingInv
  <2>4. CASE ~Covers(fill[o])
    BY <1>3, <1>5, <2>1, <2>2, <2>4, CeilingStays DEF Evicting
  <2>5. QED BY <2>3, <2>4
<1>15. QED
  BY <1>6, <1>7, <1>8, <1>9, <1>10, <1>11, <1>12, <1>13, <1>14 DEF Fetch

LEMMA DownloadCeiling ==
  ASSUME TypeOK, TypeOK', CounterInv, CeilingInv, NEW t \in Readers, Download(t)
  PROVE  CeilingInv'
<1> USE DEF entries, checks
<1>1. Present' \subseteq Present
  <2>1. CASE Discard(t)
    BY <2>1 DEF Discard, Present, TypeOK
  <2>2. CASE ~Discard(t)
    BY <2>2
      DEF Download, Open, Look, Enter, ReadDigest, Hash, Judge, DiscardDigest, Serve,
                Leave, Behind, Present
  <2>3. QED BY <2>1, <2>2
<1>2. PICK o \in Oids :
        /\ \A p \in Oids \ {o} : fill'[p] = fill[p]
        /\ fill'[o] = fill[o] \/ (fill[o].pc = "none" /\ fill'[o] = Begun(o))
  <2>1. CASE UNCHANGED fill
    <3>1. CASE Oids = {}
      <4>1. CeilingInv'
        BY <3>1 DEF CeilingInv, Evicting
      <4>2. QED BY <3>1, <4>1, ReaderType
        DEF Download, Open, Look, Enter, ReadDigest, Hash,
                 Judge, Discard, DiscardDigest, Serve, Leave, Behind, Busy, Reader
    <3>2. CASE Oids # {}
      BY <2>1, <3>2
    <3>3. QED BY <3>1, <3>2
  <2>2. CASE ~UNCHANGED fill
    <3>1. Behind(t)
      BY <2>2 DEF Download, Open, Look, Enter, ReadDigest, Hash, Judge, Discard,
                  DiscardDigest, Serve, Leave, fills
    <3>2. reader[t].oid \in Oids
      BY <3>1, ReaderType DEF Behind, Busy, Reader
    <3>3. /\ reader[t].oid \notin filling
          /\ fill' = [fill EXCEPT ![reader[t].oid] = Begun(reader[t].oid)]
      BY <2>2, <3>1 DEF Behind, fills
    <3>4. fill[reader[t].oid].pc = "none"
      BY <3>2, <3>3 DEF CounterInv, FetchSound
    <3>5. QED BY <3>2, <3>3, <3>4 DEF TypeOK
  <2>3. QED BY <2>1, <2>2
<1>3. Tallied(fill[o])
  BY DEF CeilingInv
<1>4. CASE fill'[o] = fill[o]
  BY <1>1, <1>2, <1>3, <1>4, CeilingStays DEF Evicting, Covers
<1>5. CASE fill[o].pc = "none" /\ fill'[o] = Begun(o)
  <2>1. Tallied(fill'[o])
    BY <1>5 DEF Tallied, Making, Begun
  <2>2. QED BY <1>1, <1>2, <1>5, <2>1, CeilingStays DEF Evicting, Covers, Making, Begun
<1>6. QED BY <1>2, <1>4, <1>5

LEMMA CeilingStep == TypeOK /\ CounterInv /\ CeilingInv /\ [Next]_vars => CeilingInv'
<1> SUFFICES ASSUME TypeOK, CounterInv, CeilingInv, [Next]_vars PROVE CeilingInv'
  OBVIOUS
<1>1. TypeOK'
  BY TypeStep
<1>2. CASE Restart
  BY <1>2 DEF Restart, NoFill, CeilingInv, Tallied, Making, Evicting
<1>3. CASE UNCHANGED vars
  <2>1. Present' = Present
    BY <1>3 DEF vars, entries, Present
  <2>2. QED BY <1>3, <2>1
    DEF vars, fills, CeilingInv, Tallied, Making, Evicting, Covers, Held
<1>4. QED
  BY <1>1, <1>2, <1>3, DownloadCeiling, FetchCeiling DEF Next

\* The last fetch to end its eviction leaves no more than the ceiling, whatever
\* the others fetched, listed, removed and discarded meanwhile (cache.rs
\* 284-327).
THEOREM CeilingHolds == Spec => CeilingKept
<1>1. Init => CeilingInv
  BY DEF Init, NoFill, CeilingInv, Tallied, Making, Evicting
<1>2. TypeOK /\ CeilingInv =>
        [\A o \in Oids :
           EvictEnds(o) /\ (\A p \in Oids \ {o} : ~Evicting(p)) => Held <= Ceiling]_vars
  <2> SUFFICES ASSUME TypeOK, CeilingInv, NEW o \in Oids, EvictEnds(o),
                      \A p \in Oids \ {o} : ~Evicting(p)
               PROVE  Held <= Ceiling
    OBVIOUS
  <2>1. Evicting(o)
    BY DEF EvictEnds, Filling, Evicting
  <2>2. \A p \in Oids \ {o} : ~Covers(fill[p])
    BY DEF Evicting, Covers, Making
  <2>3. QED BY <2>1, <2>2, EndFits DEF CeilingInv
<1>3. QED
  BY <1>1, <1>2, CounterInit, CounterStep, CeilingStep, TypeInit, TypeStep, PTL
     DEF Spec, CeilingKept
=============================================================================
