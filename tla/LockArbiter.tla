---------------------------- MODULE LockArbiter ----------------------------
(***************************************************************************)
(* What the lock service of LFSX promises, whatever stores the locks and   *)
(* however many processes serve them (docs/locking.md): a path is granted  *)
(* to one caller at a time, a caller is only told of a lock that was       *)
(* granted, and a granted lock ends by its owner, by an admin, or once it  *)
(* has outlived the age limit, and in no other way.                        *)
(***************************************************************************)
EXTENDS Integers

CONSTANTS Actors, Admins, Paths, Replicas, Skew, MaxAge

VARIABLES
  held,    \* the locks in force
  told,    \* the locks their owners were told of
  ended,   \* the locks that were ended, and on whose behalf
  clock

vars == <<held, told, ended, clock>>

Lock == [path : Paths, owner : Actors, at : Nat, ver : Nat]

Init == held = {} /\ told = {} /\ ended = {} /\ clock = 0

Grant(l) ==
  /\ l \in Lock
  /\ \A m \in held : m.path # l.path
  /\ l \notin {e.lock : e \in ended}
  /\ held' = held \cup {l}
  /\ UNCHANGED <<told, ended, clock>>

Tell(l) ==
  /\ l \in held \cup {e.lock : e \in ended}
  /\ told' = told \cup {l}
  /\ UNCHANGED <<held, ended, clock>>

Expired(l) == \E r \in Replicas : clock + Skew[r] > l.at + MaxAge

End(l, a) ==
  /\ l \in held
  /\ a = l.owner \/ a \in Admins \/ Expired(l)
  /\ held' = held \ {l}
  /\ ended' = ended \cup {[lock |-> l, by |-> a]}
  /\ UNCHANGED <<told, clock>>

Tick == clock' = clock + 1 /\ UNCHANGED <<held, told, ended>>

Next ==
  \/ \E l \in held' : Grant(l)
  \/ \E l \in told' : Tell(l)
  \/ \E l \in held, a \in Actors : End(l, a)
  \/ Tick

Spec == Init /\ [][Next]_vars
=============================================================================
