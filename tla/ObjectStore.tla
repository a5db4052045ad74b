---------------------------- MODULE ObjectStore ----------------------------
(***************************************************************************)
(* What the object store of LFSX promises a repository, over a bucket or   *)
(* on a volume (docs/reclaiming-space.md, docs/operations.md): an object   *)
(* that the repository can read stays readable until a collection of that  *)
(* repository, which came upon it and was not told to keep it, takes it.   *)
(* No push, collection, migration or rewrite of another repository does,   *)
(* and no crash.                                                           *)
(*                                                                         *)
(* Both stores admit one window in which they cannot tell that a           *)
(* repository needs the bytes.  What is in it is exposed.                  *)
(***************************************************************************)
CONSTANTS
  Repos,  \* repositories
  Oids    \* digests of objects

VARIABLES
  holds,       \* what each repository can read
  collecting,  \* what a collection of its repository has come upon
  exposed      \* what is in the window

vars == <<holds, collecting, exposed>>

Claims == Repos \X Oids

Init == holds \subseteq Claims /\ collecting = {} /\ exposed = {}

\* Collections and windows end as they like.
Ends == collecting' \subseteq collecting /\ exposed' \subseteq exposed

\* Bytes arrive, or a name for them: for whoever claims this object.
Gain(o) ==
  /\ holds \subseteq holds'
  /\ holds' \ holds \subseteq Repos \X {o}
  /\ Ends

\* A collection of r comes upon some of what r claims.
Consider(r) ==
  /\ collecting' \ collecting \subseteq {r} \X Oids
  /\ UNCHANGED <<holds, exposed>>

\* And takes one of them.
Collect(c) ==
  /\ c \in collecting
  /\ holds' = holds \ {c}
  /\ Ends

\* One claim enters the window: by a push or a migration of its repository.
Expose(c) ==
  /\ exposed' \ exposed \subseteq {c}
  /\ UNCHANGED <<holds, collecting>>

\* What is in the window may be lost.
Lose ==
  /\ holds' \subseteq holds
  /\ holds \ holds' \subseteq exposed
  /\ Ends

Next ==
  \/ \E o \in Oids : Gain(o)
  \/ \E r \in Repos : Consider(r)
  \/ \E c \in Claims : Collect(c) \/ Expose(c)
  \/ Lose

Spec == Init /\ [][Next]_vars
=============================================================================
