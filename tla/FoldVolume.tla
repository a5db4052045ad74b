----------------------------- MODULE FoldVolume -----------------------------
(***************************************************************************)
(* The first start over a volume an older version filled: one name per     *)
(* repository, whatever case its clients used (fold_local of               *)
(* server/src/storage/canonical.rs).                                       *)
(*                                                                         *)
(* One directory name and its spellings, at one level of the tree: every   *)
(* spelling is renamed to .fold-<name>, parked, which is renamed to the    *)
(* lowercase name or, where that is there already, merged into it entry by *)
(* entry.  Each step is one call to the file system, and the process may   *)
(* end after any of them.  Entries are files; a directory that meets its   *)
(* like is merged in the same way.                                         *)
(***************************************************************************)
EXTENDS Integers

CONSTANTS
  Spellings,   \* the spellings other than the lowercase one
  Entries,     \* names of files in the directories
  MaxCrashes   \* bound: times the process ends before it is done

ASSUME FoldVolumeConstantsOK ==
  /\ MaxCrashes \in Nat
  /\ {"lower", "parked"} \cap Spellings = {}
  /\ "absent" \notin Entries

VARIABLES
  dirs,     \* the directories and what is in them
  fold,     \* the process
  crashes,  \* times it ended
  written   \* history: what the older version left, in any spelling

foldVars == <<dirs, fold, crashes, written>>

-----------------------------------------------------------------------------
Names == Spellings \cup {"lower", "parked"}

\* A directory that is not there, which is not an empty one.
Absent == {"absent"}

There(d) == dirs[d] # Absent

FoldVolumeTypeOK ==
  /\ dirs \in [Names -> (SUBSET Entries) \cup {Absent}]
  /\ fold \in [pc : {"down", "park", "settle", "merge", "failed", "up"},
               todo : SUBSET Spellings]
  /\ crashes \in 0 .. MaxCrashes
  /\ written \in SUBSET Entries

FoldVolumeInit ==
  /\ dirs \in [Names -> (SUBSET Entries) \cup {Absent}]
  /\ dirs["parked"] = Absent
  /\ fold = [pc |-> "down", todo |-> {}]
  /\ crashes = 0
  /\ written = UNION {dirs[d] : d \in {n \in Names : There(n)}}

Turns(pc) == fold' = [fold EXCEPT !.pc = pc]

\* subdirectories: what begins with a dot is none of them.
FoldBegins ==
  /\ fold.pc = "down"
  /\ fold' = [pc |-> "park", todo |-> {d \in Spellings : There(d)}]
  /\ UNCHANGED <<dirs, crashes, written>>

\* rename replaces a directory only if it is empty.
Parks(d) ==
  /\ fold.pc = "park"
  /\ d \in fold.todo
  /\ dirs["parked"] \in {Absent, {}}
  /\ dirs' = [dirs EXCEPT !["parked"] = dirs[d], ![d] = Absent]
  /\ fold' = [pc |-> "settle", todo |-> fold.todo \ {d}]
  /\ UNCHANGED <<crashes, written>>

\* What is parked is in the way, and the start fails.
ParkFails ==
  /\ fold.pc = "park"
  /\ fold.todo # {}
  /\ dirs["parked"] \notin {Absent, {}}
  /\ Turns("failed")
  /\ UNCHANGED <<dirs, crashes, written>>

\* Mutant of Finishes: what is parked is not looked for.
FinishesBlindly ==
  /\ fold.pc = "park"
  /\ fold.todo = {}
  /\ Turns("up")
  /\ UNCHANGED <<dirs, crashes, written>>

\* interrupted: whatever is still parked is settled, and then the server is up.
Finishes ==
  /\ fold.pc = "park"
  /\ fold.todo = {}
  /\ Turns(IF There("parked") THEN "settle" ELSE "up")
  /\ UNCHANGED <<dirs, crashes, written>>

\* Mutant of Settles: the lowercase name is replaced.
SettlesOver ==
  /\ fold.pc = "settle"
  /\ dirs' = [dirs EXCEPT !["lower"] = dirs["parked"], !["parked"] = Absent]
  /\ Turns("park")
  /\ UNCHANGED <<crashes, written>>

Settles ==
  /\ fold.pc = "settle"
  /\ IF There("lower")
       THEN Turns("merge") /\ UNCHANGED dirs
       ELSE /\ dirs' = [dirs EXCEPT !["lower"] = dirs["parked"], !["parked"] = Absent]
            /\ Turns("park")
  /\ UNCHANGED <<crashes, written>>

\* An entry is renamed, or removed where its name is taken.
Merges(e) ==
  /\ fold.pc = "merge"
  /\ e \in dirs["parked"]
  /\ dirs' = [dirs EXCEPT !["lower"] = @ \cup {e}, !["parked"] = @ \ {e}]
  /\ UNCHANGED <<fold, crashes, written>>

MergeEnds ==
  /\ fold.pc = "merge"
  /\ dirs["parked"] = {}
  /\ dirs' = [dirs EXCEPT !["parked"] = Absent]
  /\ Turns("park")
  /\ UNCHANGED <<crashes, written>>

\* The process ends before it is done.
Ended ==
  /\ fold.pc \in {"park", "settle", "merge"}
  /\ crashes < MaxCrashes
  /\ crashes' = crashes + 1
  /\ fold' = [pc |-> "down", todo |-> {}]
  /\ UNCHANGED <<dirs, written>>

FoldVolumeNext ==
  \/ FoldBegins
  \/ \E d \in Spellings : Parks(d)
  \/ ParkFails
  \/ Finishes
  \/ Settles
  \/ \E e \in Entries : Merges(e)
  \/ MergeEnds
  \/ Ended

FoldVolumeSpec == FoldVolumeInit /\ [][FoldVolumeNext]_foldVars

-----------------------------------------------------------------------------
(* Properties.                                                             *)

\* Whatever the process was doing when it ended, every file an older version
\* wrote under any spelling is still under some name, and under the lowercase
\* one, with nothing left beside it, when the server answers its first request
\* (canonical.rs 107-126; docs/storage-layout.md).
FilesKept ==
  /\ written = UNION {dirs[d] : d \in {n \in Names : There(n)}}
  /\ fold.pc = "up" => \A d \in Names \ {"lower"} : ~There(d)
=============================================================================
