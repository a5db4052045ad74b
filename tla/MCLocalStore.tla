---------------------------- MODULE MCLocalStore ----------------------------
(* Instances of LocalStore for TLC. *)
EXTENDS LocalStore, TLC

CONSTANTS r1, r2, o1, t1, t2, i1, i2, i3, i4

NothingLoose == {}
AllLoose     == Repos \X Oids

Rewriting == {"push", "sweep", "compress", "open"}
Migrating == {"push", "sweep", "dedupe"}
Dropping  == {"sweep", "dedupe"}

\* No instance tells repositories apart: they all start with a copy or none does.
Symmetry == Permutations(Repos) \cup Permutations(Tasks) \cup Permutations(Inodes)
=============================================================================
