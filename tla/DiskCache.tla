------------------------------ MODULE DiskCache ------------------------------
(***************************************************************************)
(* The local copies of what a bucket holds (server/src/storage/cache.rs,   *)
(* and the callers in storage/backend.rs).                                 *)
(*                                                                         *)
(* An entry is two files: the object's stored bytes under its name, and    *)
(* their digest beside them.  A download looks for an entry, checks it the *)
(* first time this process serves it, and on a miss reads the bucket and   *)
(* has the object fetched behind the request.  A fetch that is done makes  *)
(* room.  Downloads and fetches share the directory and take no lock       *)
(* across two calls.  What the bucket stores of an object does not change, *)
(* and the directory can be listed and its files removed.                  *)
(***************************************************************************)
EXTENDS Integers, FiniteSets

CONSTANTS
  Oids,       \* digests of objects
  Readers,    \* downloads in flight at a time
  Size,       \* the bytes the bucket stores of each
  Ceiling,    \* LFSX_S3_CACHE_MAX_BYTES
  FillLimit,  \* FILL_LIMIT
  Wrap,       \* 2^64, where the byte counter wraps
  MaxBytes    \* bound: no fetch begins that takes the counter past this

ASSUME ConstantsOK ==
  /\ IsFiniteSet(Oids)
  /\ Size \in [Oids -> Nat \ {0}]
  /\ Ceiling \in Nat
  /\ FillLimit \in Nat
  /\ MaxBytes \in Nat
  /\ Wrap \in Nat
  /\ MaxBytes < Wrap

VARIABLES
  file,       \* the bytes under the name of each object
  signed,     \* the objects with their digest, and all of it, beside them
  verified,   \* entries that passed their check in this process
  verifying,  \* entries being hashed
  filling,    \* objects somebody has claimed
  bytes,      \* the counter behind lfsx_cache_bytes
  reader,     \* the downloads
  fill        \* the fetch of each object

entries == <<file, signed>>
checks  == <<verified, verifying>>
fills   == <<filling, fill>>
vars    == <<entries, checks, fills, bytes, reader>>

-----------------------------------------------------------------------------
(* A file is what the bucket sent, or has been damaged while no process    *)
(* looked.  A digest that was cut short is as good as none.                *)

Files == {"sound", "broken", "none"}

Present == {o \in Oids : file[o] # "none"}

\* What objects come to together: as many bytes as there are pairs of one of
\* them and one of its bytes.
Total == [S \in SUBSET Oids |-> Cardinality(UNION {{o} \X (1 .. Size[o]) : o \in S})]

\* What the directory holds.
Held == Total[Present]

Steps == {"look", "enter", "digest", "hash", "judge", "discard", "undigest",
          "miss", "serve"}

NoReader == [pc |-> "idle"]

\* intact is what the check found.
Reader == [pc : Steps, oid : Oids, intact : BOOLEAN]

\* rest is what a listing has yet to come to, found what it came across and
\* total its bytes; at is the entry being evicted and load what was read of
\* the counter.
Fill == [pc : {"fetch", "sign", "rename", "count", "scan", "evict",
               "undigest", "load", "subtract"},
         rest : SUBSET Oids, found : SUBSET Oids, total : Int, at : Oids,
         load : Nat]

NoFill == [pc |-> "none"]

TypeOK ==
  /\ file \in [Oids -> Files]
  /\ signed \subseteq Oids
  /\ verified \subseteq Oids
  /\ verifying \subseteq Oids
  /\ filling \subseteq Oids
  /\ bytes \in 0 .. Wrap - 1
  /\ reader \in [Readers -> Reader \cup {NoReader}]
  /\ fill \in [Oids -> Fill \cup {NoFill}]

Busy(t, pc) == reader[t].pc = pc

Goto(t, pc) == reader' = [reader EXCEPT ![t].pc = pc]

Finish(t) == reader' = [reader EXCEPT ![t] = NoReader]

Filling(o, pc) == fill[o].pc = pc

FillGoto(o, pc) == fill' = [fill EXCEPT ![o].pc = pc]

Min2(a, b) == IF a <= b THEN a ELSE b

Init ==
  /\ file = [o \in Oids |-> "none"]
  /\ signed = {}
  /\ verified = {}
  /\ verifying = {}
  /\ filling = {}
  /\ bytes = 0
  /\ reader = [t \in Readers |-> NoReader]
  /\ fill = [o \in Oids |-> NoFill]

-----------------------------------------------------------------------------
(* open: a hit, or a miss.                                                 *)

Open(t, o) ==
  /\ Busy(t, "idle")
  /\ reader' = [reader EXCEPT ![t] =
       [pc |-> IF file[o] = "none" THEN "miss" ELSE "look", oid |-> o,
        intact |-> FALSE]]
  /\ UNCHANGED <<entries, checks, fills, bytes>>

Look(t) ==
  /\ Busy(t, "look")
  /\ Goto(t, IF reader[t].oid \in verified THEN "serve" ELSE "enter")
  /\ UNCHANGED <<entries, checks, fills, bytes>>

\* Mutant of Enter: a check that somebody else has under way is trusted.
EnterTrusting(t) ==
  /\ Busy(t, "enter")
  /\ verifying' = verifying \cup {reader[t].oid}
  /\ Goto(t, IF reader[t].oid \in verifying THEN "serve" ELSE "digest")
  /\ UNCHANGED <<entries, verified, fills, bytes>>

\* Somebody else may be hashing it: that is a miss.
Enter(t) ==
  /\ Busy(t, "enter")
  /\ verifying' = verifying \cup {reader[t].oid}
  /\ Goto(t, IF reader[t].oid \in verifying THEN "miss" ELSE "digest")
  /\ UNCHANGED <<entries, verified, fills, bytes>>

ReadDigest(t) ==
  /\ Busy(t, "digest")
  /\ reader' = [reader EXCEPT ![t].intact = FALSE,
                    ![t].pc = IF reader[t].oid \in signed THEN "hash" ELSE "judge"]
  /\ UNCHANGED <<entries, checks, fills, bytes>>

\* The file of that name now, whichever was opened before.  Reading it may fail.
Hash(t) ==
  /\ Busy(t, "hash")
  /\ \E read \in BOOLEAN :
       reader' = [reader EXCEPT ![t].pc = "judge",
                    ![t].intact = read /\ file[reader[t].oid] = "sound"]
  /\ UNCHANGED <<entries, checks, fills, bytes>>

\* The entry leaves one set and enters the other.  A download that looked into
\* verified before, and comes to verifying after, checks it again.
Judge(t) ==
  /\ Busy(t, "judge")
  /\ verifying' = verifying \ {reader[t].oid}
  /\ IF reader[t].intact
       THEN /\ verified' = verified \cup {reader[t].oid}
            /\ reader' = [reader EXCEPT ![t].pc = "serve", ![t].intact = FALSE]
       ELSE /\ UNCHANGED verified
            /\ Goto(t, "discard")
  /\ UNCHANGED <<entries, fills, bytes>>

Discard(t) ==
  /\ Busy(t, "discard")
  /\ file' = [file EXCEPT ![reader[t].oid] = "none"]
  /\ Goto(t, "undigest")
  /\ UNCHANGED <<signed, checks, fills, bytes>>

DiscardDigest(t) ==
  /\ Busy(t, "undigest")
  /\ signed' = signed \ {reader[t].oid}
  /\ Goto(t, "miss")
  /\ UNCHANGED <<file, checks, fills, bytes>>

\* A raw object is opened again by name, or comes from the bucket if it is gone.
Serve(t) ==
  /\ Busy(t, "serve")
  /\ Finish(t)
  /\ UNCHANGED <<entries, checks, fills, bytes>>

\* The client goes: the handler is dropped where it waits.
Leave(t) ==
  /\ reader[t].pc \in {"digest", "hash", "discard", "undigest", "serve"}
  /\ Finish(t)
  /\ UNCHANGED <<entries, checks, fills, bytes>>

-----------------------------------------------------------------------------
(* fill_behind: fits, fill_slot, claim, and the bucket answers the client. *)

Slots == Cardinality({o \in Oids : ~Filling(o, "none")})

Fits(o) == Size[o] <= Ceiling

Begun(o) ==
  [pc |-> "fetch", rest |-> {}, found |-> {}, total |-> 0, at |-> o, load |-> 0]

\* Room is the bound of the model.
Room(o) == bytes + Total[filling \cup {o}] <= MaxBytes

Behind(t) ==
  LET o == reader[t].oid IN
  /\ Busy(t, "miss")
  /\ IF Fits(o) /\ Slots < FillLimit /\ o \notin filling /\ Room(o)
       THEN /\ filling' = filling \cup {o}
            /\ fill' = [fill EXCEPT ![o] = Begun(o)]
       ELSE UNCHANGED fills
  /\ Finish(t)
  /\ UNCHANGED <<entries, checks, bytes>>

Download(t) ==
  \/ \E o \in Oids : Open(t, o)
  \/ Look(t) \/ Enter(t) \/ ReadDigest(t) \/ Hash(t) \/ Judge(t)
  \/ Discard(t) \/ DiscardDigest(t) \/ Serve(t) \/ Leave(t)
  \/ Behind(t)

-----------------------------------------------------------------------------
(* fill: stage, then evict.                                                *)

\* The claim and the slot go back.
Release(o) ==
  /\ filling' = filling \ {o}
  /\ fill' = [fill EXCEPT ![o] = NoFill]

\* The body arrived under the temporary name, as long as the bucket said.  The
\* digest is written in place: emptied first.
FillTruncate(o) ==
  /\ Filling(o, "fetch")
  /\ signed' = signed \ {o}
  /\ FillGoto(o, "sign")
  /\ UNCHANGED <<file, checks, filling, bytes, reader>>

\* Mutant of FillFails: the error is returned before the claim is released.
FillFailsKeeps(o) ==
  /\ fill[o].pc \in {"fetch", "sign", "rename"}
  /\ fill' = [fill EXCEPT ![o] = NoFill]
  /\ UNCHANGED <<entries, checks, filling, bytes, reader>>

\* Anything failed: the temporary file goes, what became of the digest stays.
FillFails(o) ==
  /\ fill[o].pc \in {"fetch", "sign", "rename"}
  /\ Release(o)
  /\ UNCHANGED <<entries, checks, bytes, reader>>

FillSign(o) ==
  /\ Filling(o, "sign")
  /\ signed' = signed \cup {o}
  /\ FillGoto(o, "rename")
  /\ UNCHANGED <<file, checks, filling, bytes, reader>>

FillRename(o) ==
  /\ Filling(o, "rename")
  /\ file' = [file EXCEPT ![o] = "sound"]
  /\ FillGoto(o, "count")
  /\ UNCHANGED <<signed, checks, filling, bytes, reader>>

\* Mutant of FillCount: who finds another making room leaves it to that one.
FillCountDefers(o) ==
  /\ Filling(o, "count")
  /\ bytes' = (bytes + Size[o]) % Wrap
  /\ fill' = [fill EXCEPT ![o].rest = Oids,
       ![o].pc = IF \E p \in Oids : fill[p].pc \in {"scan", "evict", "undigest"}
                   THEN "evict" ELSE "scan"]
  /\ UNCHANGED <<entries, checks, filling, reader>>

FillCount(o) ==
  /\ Filling(o, "count")
  /\ bytes' = (bytes + Size[o]) % Wrap
  /\ fill' = [fill EXCEPT ![o].pc = "scan", ![o].rest = Oids]
  /\ UNCHANGED <<entries, checks, filling, reader>>

\* One name of the directory after another, in any order.
Scan(o, n) ==
  /\ Filling(o, "scan")
  /\ n \in fill[o].rest
  /\ fill' = [fill EXCEPT ![o].rest = @ \ {n},
                          ![o].found = @ \cup ({n} \cap Present),
                          ![o].total = IF n \in Present THEN @ + Size[n] ELSE @,
                          ![o].pc = IF fill[o].rest = {n} THEN "evict" ELSE "scan"]
  /\ UNCHANGED <<entries, checks, filling, bytes, reader>>

\* Mutant of Take: a removal that found nothing is subtracted too.
TakeAnyway(o, n) ==
  /\ Filling(o, "evict")
  /\ fill[o].total > Ceiling
  /\ n \in fill[o].found
  /\ file' = [file EXCEPT ![n] = "none"]
  /\ fill' = [fill EXCEPT ![o].found = @ \ {n}, ![o].at = n, ![o].pc = "undigest"]
  /\ UNCHANGED <<signed, checks, filling, bytes, reader>>

\* The next entry in the order of last use, which can be any.  It may be gone,
\* and then is not counted.
Take(o, n) ==
  /\ Filling(o, "evict")
  /\ fill[o].total > Ceiling
  /\ n \in fill[o].found
  /\ file' = [file EXCEPT ![n] = "none"]
  /\ fill' = [fill EXCEPT ![o].found = @ \ {n}, ![o].at = n,
                          ![o].pc = IF file[n] = "none" THEN "evict" ELSE "undigest"]
  /\ UNCHANGED <<signed, checks, filling, bytes, reader>>

TakeDigest(o) ==
  /\ Filling(o, "undigest")
  /\ signed' = signed \ {fill[o].at}
  /\ fill' = [fill EXCEPT ![o].pc = "load", ![o].total = @ - Size[fill[o].at]]
  /\ UNCHANGED <<file, checks, filling, bytes, reader>>

\* size.min(load) and fetch_sub are two accesses of the counter.
Load(o) ==
  /\ Filling(o, "load")
  /\ fill' = [fill EXCEPT ![o].pc = "subtract", ![o].load = Min2(Size[fill[o].at], bytes)]
  /\ UNCHANGED <<entries, checks, filling, bytes, reader>>

Subtract(o) ==
  /\ Filling(o, "subtract")
  /\ bytes' = (bytes - fill[o].load) % Wrap
  /\ verified' = verified \ {fill[o].at}
  /\ fill' = [fill EXCEPT ![o].pc = "evict", ![o].at = o, ![o].load = 0]
  /\ UNCHANGED <<entries, verifying, filling, reader>>

EvictEnds(o) ==
  /\ Filling(o, "evict")
  /\ fill[o].total <= Ceiling \/ fill[o].found = {}
  /\ Release(o)
  /\ UNCHANGED <<entries, checks, bytes, reader>>

Fetch(o) ==
  \/ FillFails(o) \/ FillTruncate(o) \/ FillSign(o)
  \/ FillRename(o) \/ FillCount(o)
  \/ \E n \in Oids : Scan(o, n) \/ Take(o, n)
  \/ TakeDigest(o) \/ Load(o) \/ Subtract(o) \/ EvictEnds(o)

\* The process goes and comes back, and counts what it finds.  Entries may be
\* damaged meanwhile, or lost to a host that had not written them out; they
\* keep their length here.
Restart ==
  /\ \E hurt \in SUBSET Present :
       file' = [o \in Oids |-> IF o \in hurt THEN "broken" ELSE file[o]]
  /\ UNCHANGED signed
  /\ verified' = {}
  /\ verifying' = {}
  /\ filling' = {}
  /\ \E held \in {Held} \cap (0 .. Wrap - 1) : bytes' = held
  /\ reader' = [t \in Readers |-> NoReader]
  /\ fill' = [o \in Oids |-> NoFill]

Next ==
  \/ \E t \in Readers : Download(t)
  \/ \E o \in Oids : Fetch(o)
  \/ Restart

Spec == Init /\ [][Next]_vars

-----------------------------------------------------------------------------
(* Properties.                                                             *)

\* Once an entry passed its check, and until the next start, its name never
\* stands for damaged bytes, which is what a download that opens it again by
\* name relies on (cache.rs 113-153): across every check, discard, refill and
\* eviction that overlaps it, its own or another's.
Vouched(o) ==
  \/ o \in verified
  \/ \E t \in Readers : Busy(t, "serve") /\ reader[t].oid = o

ServedSound == \A o \in Oids : Vouched(o) => file[o] # "broken"

\* Fetches between a change to the directory and the counter's.
Counting(o) == fill[o].pc \in {"count", "undigest", "load", "subtract"}

\* With nothing half counted, lfsx_cache_bytes (cache.rs 40-43) is no less than
\* what the directory holds and has not wrapped, whatever fills, discards and
\* evictions overlapped: one evicts what the other has not counted yet, or
\* both read the counter before either subtracts.
CounterCovers ==
  (\A o \in Oids : ~Counting(o)) => Held <= bytes /\ bytes <= MaxBytes

\* Fetches that put an entry in place and are still making room.
Evicting(o) ==
  fill[o].pc \in {"count", "scan", "evict", "undigest", "load", "subtract"}

\* The last fetch to end its eviction leaves no more than the ceiling, though
\* each listed the directory while others changed it (cache.rs 284-327).
CeilingKept ==
  [][\A o \in Oids :
       EvictEnds(o) /\ (\A p \in Oids \ {o} : ~Evicting(p)) => Held <= Ceiling]_vars

\* An object that is claimed is being fetched: no early return, no failure and
\* no full house leaves a claim that keeps it out of the cache for good
\* (backend.rs 41-74).
ClaimsOwned == \A o \in filling : ~Filling(o, "none")
=============================================================================
