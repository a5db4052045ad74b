------------------------------- MODULE Locks -------------------------------
(***************************************************************************)
(* The lock store of LFSX (server/src/locks.rs) and the two requests that  *)
(* change it, create_lock and unlock (server/src/routes/locks.rs).         *)
(*                                                                         *)
(* Several server processes (Replicas) serve requests (Tasks) over one     *)
(* shared store.  On a volume the store is a directory with one file per   *)
(* lock; in a bucket it is one key per lock, created by a put that the     *)
(* store refuses when the key is there and removed by a delete that the    *)
(* store refuses when the key is no longer the version that was read.      *)
(* Inside a process the gates order the callers of one slot; between       *)
(* processes only the store does.                                          *)
(*                                                                         *)
(* A request is a task that walks the awaits of the handler, one call to   *)
(* the store per step.  A call may fail, and a caller may go away while    *)
(* its last call is still under way: the gate is then released at once,    *)
(* and the call reaches the store later, or never.                         *)
(***************************************************************************)
EXTENDS Integers, FiniteSets

CONSTANTS
  Replicas,     \* server processes sharing the store
  Tasks,        \* requests in flight at a time, over all the replicas
  Actors,       \* forge identities with push access
  Admins,       \* the ones among them with admin rights on the repository
  Paths,        \* paths somebody may lock (the id is a digest of the path)
  Slots,        \* the gates of one process
  GateOf,       \* the slot a path's id falls in
  Bucket,       \* TRUE over a bucket, FALSE over a volume
  Disconnects,  \* whether a caller may leave with a call still under way
  Skew,         \* how far each replica's clock runs ahead
  MaxAge,       \* LFSX_LOCK_MAX_AGE; unset is an age the clock never reaches
  Capacity,     \* the most locks a repository holds
  MaxClock,     \* bound: the last tick
  MaxDrafts,    \* bound: creates ever begun
  MaxLate       \* bound: writes under way with their caller gone

ASSUME ConstantsOK ==
  /\ IsFiniteSet(Replicas) /\ IsFiniteSet(Slots) /\ IsFiniteSet(Tasks)
  /\ Admins \subseteq Actors
  /\ GateOf \in [Paths -> Slots]
  /\ Skew \in [Replicas -> Nat]
  /\ Bucket \in BOOLEAN
  /\ Disconnects \in BOOLEAN
  /\ MaxAge \in Nat
  /\ Capacity \in Nat
  /\ MaxClock \in Nat
  /\ MaxDrafts \in Nat
  /\ MaxLate \in Nat

VARIABLES
  store,        \* the locks in the store
  drafts,       \* creates begun so far, the source of versions
  task,         \* the requests
  latePuts,     \* conditional creates whose caller is gone
  lateDeletes,  \* deletes whose caller is gone
  clock,        \* wall-clock time
  told,         \* history: the locks a create answered 201 with
  ended         \* history: the locks a delete ended, and on whose behalf

vars == <<store, drafts, task, latePuts, lateDeletes, clock, told, ended>>

-----------------------------------------------------------------------------
(* Data.                                                                   *)

\* A lock as it is stored.  `ver` is the version of the object (its ETag, or
\* its generation), which no two creates share since each encodes its own
\* instant; on a volume nothing reads it and it only tells files apart.
Lock == [path : Paths, owner : Actors, at : Nat, ver : Nat]

Steps == {"gate", "get", "count", "take", "read", "discard", "retake",
          "read_owner", "release", "answer"}

Idle == [pc |-> "idle"]

\* `held` is what the request read and is about to act on: one lock or none.
Request == [pc : Steps, replica : Replicas, op : {"create", "unlock"},
            actor : Actors, path : Paths, force : BOOLEAN,
            at : Nat, ver : Nat, held : SUBSET Lock]

Delete == [held : SUBSET Lock, by : Actors]
End    == [lock : Lock, by : Actors]

TypeOK ==
  /\ store \in SUBSET Lock
  /\ drafts \in Nat
  /\ task \in [Tasks -> Request \cup {Idle}]
  /\ latePuts \in SUBSET Lock
  /\ lateDeletes \in SUBSET Delete
  /\ clock \in Nat
  /\ told \in SUBSET Lock
  /\ ended \in SUBSET End

-----------------------------------------------------------------------------
(* What the code computes.                                                 *)

Now(r) == clock + Skew[r]

\* Mutant of StaleAt: a lock counts as abandoned one tick too soon.
StaleAtLimit(l, r) == Now(r) >= l.at + MaxAge

\* stale_for: older than the age an operator said was too long, by the clock
\* of the replica that asks.  A lock from the future has no age.
StaleAt(l, r) == Now(r) > l.at + MaxAge

\* The object under a path's key, if there is one.
At(p) == {l \in store : l.path = p}

\* A gate is held from the moment exclusive() returns to the end of the
\* handler, so whoever is past it holds it.
Inside(t) == task[t].pc \notin {"idle", "gate"}

\* Mutant of GateFree: whoever waits on a gate holds it as well.
GateFreeOfWaiters(t) ==
  \A u \in Tasks \ {t} :
    task[u].pc # "idle" => \/ task[u].replica # task[t].replica
                           \/ GateOf[task[u].path] # GateOf[task[t].path]

GateFree(t) ==
  \A u \in Tasks \ {t} :
    Inside(u) => \/ task[u].replica # task[t].replica
                 \/ GateOf[task[u].path] # GateOf[task[t].path]

\* Mutant of Absent: the store takes the condition and writes anyway.
AbsentIgnored(p) == p \in Paths

\* put_if_absent in a bucket, hard_link on a volume: the store decides who
\* was first.
Absent(p) == At(p) = {}

\* The lock a create sends: encoded once, inside the gate.
Draft(t) == [path |-> task[t].path, owner |-> task[t].actor,
             at |-> task[t].at, ver |-> task[t].ver]

\* Mutant of Removed: the delete carries no condition.
RemovedByName(held) == {l \in store : \E k \in held : l.path = k.path}

\* What a delete takes away: in a bucket the object that was read and no
\* other; on a volume whatever has that name now.
Removed(held) ==
  {l \in store : \E k \in held : /\ l.path = k.path
                                 /\ Bucket => l.ver = k.ver}

\* Mutant of MayRelease: force without the admin check.
MayReleaseByForce(t, l) == l.owner = task[t].actor \/ task[t].force

\* unlock: the owner may, and an admin who insists.
MayRelease(t, l) ==
  \/ l.owner = task[t].actor
  \/ task[t].force /\ task[t].actor \in Admins

\* A finished task forgets its request.
Finish(t) == task' = [task EXCEPT ![t] = Idle]

Goto(t, pc) == task' = [task EXCEPT ![t].pc = pc]

History == <<told, ended>>
Late    == <<latePuts, lateDeletes>>

-----------------------------------------------------------------------------
Init ==
  /\ store = {}
  /\ drafts = 0
  /\ task = [t \in Tasks |-> Idle]
  /\ latePuts = {}
  /\ lateDeletes = {}
  /\ clock = 0
  /\ told = {}
  /\ ended = {}

\* A request arrives at some replica.
Begin(t, r, op, a, p, f) ==
  /\ task[t].pc = "idle"
  /\ op = "create" => drafts < MaxDrafts /\ ~f
  /\ drafts' = IF op = "create" THEN drafts + 1 ELSE drafts
  /\ task' = [task EXCEPT ![t] =
       [pc |-> "gate", replica |-> r, op |-> op, actor |-> a, path |-> p,
        force |-> f, at |-> 0, ver |-> IF op = "create" THEN drafts + 1 ELSE 0,
        held |-> {}]]
  /\ UNCHANGED <<store, clock, Late, History>>

\* exclusive(id) returns.  A create stamps its lock right after.
Enter(t) ==
  /\ task[t].pc = "gate"
  /\ GateFree(t)
  /\ task' = [task EXCEPT
       ![t].pc = IF task[t].op = "create" THEN "get" ELSE "read_owner",
       ![t].at = IF task[t].op = "create" THEN Now(task[t].replica) ELSE 0]
  /\ UNCHANGED <<store, drafts, clock, Late, History>>

\* The capacity guard looks at the path first: a lock that is there already
\* adds nothing to the count.
Get(t) ==
  /\ task[t].pc = "get"
  /\ Goto(t, IF Absent(task[t].path) THEN "count" ELSE "take")
  /\ UNCHANGED <<store, drafts, clock, Late, History>>

\* Mutant of Count: the ceiling is looked at and not enforced.
CountUnenforced(t) ==
  /\ task[t].pc = "count"
  /\ Goto(t, "take")
  /\ UNCHANGED <<store, drafts, clock, Late, History>>

\* And then counts the locks of the repository.
Count(t) ==
  /\ task[t].pc = "count"
  /\ IF Cardinality(store) >= Capacity THEN Finish(t) ELSE Goto(t, "take")
  /\ UNCHANGED <<store, drafts, clock, Late, History>>

\* take(): the first attempt of a create, or the one after a discard.
Take(t) ==
  /\ task[t].pc \in {"take", "retake"}
  /\ Absent(task[t].path)
  /\ store' = store \cup {Draft(t)}
  /\ task' = [task EXCEPT ![t].pc = "answer", ![t].held = {Draft(t)}]
  /\ UNCHANGED <<drafts, clock, Late, History>>

\* Refused: the first attempt goes on to ask who holds it, the second one
\* has lost.
TakeRefused(t) ==
  /\ task[t].pc \in {"take", "retake"}
  /\ ~Absent(task[t].path)
  /\ IF task[t].pc = "take" THEN Goto(t, "read") ELSE Finish(t)
  /\ UNCHANGED <<store, drafts, clock, Late, History>>

\* The holder is read back.  One that is gone, or that is not stale, ends the
\* create with LockHeld.
ReadHolder(t) ==
  /\ task[t].pc = "read"
  /\ LET found == At(task[t].path) IN
       IF \E l \in found : StaleAt(l, task[t].replica)
         THEN task' = [task EXCEPT ![t].pc = "discard", ![t].held = found]
         ELSE Finish(t)
  /\ UNCHANGED <<store, drafts, clock, Late, History>>

\* unlock reads the lock and settles whether its caller may remove it.
ReadOwner(t) ==
  /\ task[t].pc = "read_owner"
  /\ LET found == At(task[t].path) IN
       IF \E l \in found : MayRelease(t, l)
         THEN task' = [task EXCEPT ![t].pc = "release", ![t].held = found]
         ELSE Finish(t)
  /\ UNCHANGED <<store, drafts, clock, Late, History>>

\* What a delete does when it reaches the store.
Remove(held, by) ==
  /\ store' = store \ Removed(held)
  /\ ended' = IF Removed(held) = {} THEN ended
              ELSE ended \cup {[lock |-> l, by |-> by] : l \in held}

\* discard(): a lock somebody else already removed is the normal case.
Discard(t) ==
  /\ task[t].pc = "discard"
  /\ Remove(task[t].held, task[t].actor)
  /\ task' = [task EXCEPT ![t].pc = "retake", ![t].held = {}]
  /\ UNCHANGED <<drafts, clock, Late, told>>

\* release(): either it removed the lock or the answer is LockNotFound.
Release(t) ==
  /\ task[t].pc = "release"
  /\ Remove(task[t].held, task[t].actor)
  /\ Finish(t)
  /\ UNCHANGED <<drafts, clock, Late, told>>

\* 201: the caller learns the lock is theirs.
Answer(t) ==
  /\ task[t].pc = "answer"
  /\ told' = told \cup task[t].held
  /\ Finish(t)
  /\ UNCHANGED <<store, drafts, clock, Late, ended>>

\* A call answers with an error, or the process stops: the request ends here.
Fail(t) ==
  /\ task[t].pc # "idle"
  /\ Finish(t)
  /\ UNCHANGED <<store, drafts, clock, Late, History>>

\* The caller leaves, or the call times out, with a write under way.  The
\* handler is dropped and its gate with it; the write is not taken back.
Abandon(t) ==
  /\ Disconnects
  /\ Cardinality(latePuts) + Cardinality(lateDeletes) < MaxLate
  /\ task[t].pc \in {"take", "retake", "discard", "release"}
  /\ IF task[t].pc \in {"take", "retake"}
       THEN /\ latePuts' = latePuts \cup {Draft(t)}
            /\ UNCHANGED lateDeletes
       ELSE /\ lateDeletes' = lateDeletes \cup
                 {[held |-> task[t].held, by |-> task[t].actor]}
            /\ UNCHANGED latePuts
  /\ Finish(t)
  /\ UNCHANGED <<store, drafts, clock, History>>

LatePut(d) ==
  /\ d \in latePuts
  /\ latePuts' = latePuts \ {d}
  /\ store' = IF Absent(d.path) THEN store \cup {d} ELSE store
  /\ UNCHANGED <<drafts, task, lateDeletes, clock, History>>

LateDelete(d) ==
  /\ d \in lateDeletes
  /\ lateDeletes' = lateDeletes \ {d}
  /\ Remove(d.held, d.by)
  /\ UNCHANGED <<drafts, task, latePuts, clock, told>>

Tick ==
  /\ clock < MaxClock
  /\ clock' = clock + 1
  /\ UNCHANGED <<store, drafts, task, Late, History>>

\* What the server does with a request once it has it.
Serve(t) ==
  \/ Get(t) \/ Count(t) \/ Take(t) \/ TakeRefused(t) \/ ReadHolder(t)
  \/ ReadOwner(t) \/ Discard(t) \/ Release(t) \/ Answer(t)

Next ==
  \/ \E t \in Tasks, r \in Replicas, op \in {"create", "unlock"},
        a \in Actors, p \in Paths, f \in BOOLEAN : Begin(t, r, op, a, p, f)
  \/ \E t \in Tasks : Enter(t)
  \/ \E t \in Tasks : Serve(t)
  \/ \E t \in Tasks : Fail(t)
  \/ \E t \in Tasks : Abandon(t)
  \/ \E d \in latePuts : LatePut(d)
  \/ \E d \in lateDeletes : LateDelete(d)
  \/ Tick

Spec == Init /\ [][Next]_vars

\* The runtime polls every task, and tokio's Mutex serves its waiters in
\* order, so a request waiting on a gate that keeps being freed gets it.
FairSpec ==
  /\ Spec
  /\ \A t \in Tasks : SF_vars(Enter(t)) /\ WF_vars(Serve(t))

-----------------------------------------------------------------------------
(* Properties.                                                             *)

EndedLocks == {e.lock : e \in ended}

\* Who may end a lock: its owner, an admin, or anybody once it has outlived
\* the age limit by the clock of one of the replicas.
Entitled(l, a) ==
  \/ l.owner = a
  \/ a \in Admins
  \/ \E r \in Replicas : StaleAt(l, r)

\* A lock somebody was told is theirs stays in the store until somebody ends
\* that very lock: no unlock or takeover takes away a lock other than the one
\* it read (locks.rs, exclusive and release; locking.md, "A delete that finds
\* a different object leaves it alone").
HeldUntilEnded == told \subseteq store \cup EndedLocks

\* Only one of the clients reaching for a path comes away with it: of the
\* locks answered with 201 and not ended since, no two are for one path
\* (locking.md, "What makes a lock unique").
OneHolder ==
  \A l, m \in told \ EndedLocks : l.path = m.path => l = m

\* No lock is ended but by its owner, an admin, or past the age limit, even
\* when the delete lands long after the check, on a handler that has gone
\* (routes/locks.rs, unlock; locks.rs, create).
EndedByRight == \A e \in ended : Entitled(e.lock, e.by)

\* Creates behind one gate keep to the ceiling; those behind different gates
\* overshoot it by less than there are gates, and creates under way (locks.rs,
\* create: "Two creates racing under the ceiling can land one over it").
CapacityOvershoot ==
  Capacity > 0 /\ ~Disconnects =>
    LET gates == {<<r, GateOf[p]>> : r \in Replicas, p \in Paths} IN
      /\ Cardinality(store) < Capacity + Cardinality(gates)
      /\ Cardinality(store) < Capacity + Cardinality(Tasks)

\* The lock store keeps the promise LockArbiter states: every step of every
\* handler, on every replica, is a grant, an answer, an end, or nothing as
\* far as the locks in force are concerned.
Arbiter == INSTANCE LockArbiter WITH held <- store
ArbiterSpec == Arbiter!Spec

\* Every request is answered: nobody waits on a gate for ever, and the
\* takeover path ends (locks.rs, exclusive).
EveryRequestAnswered ==
  \A t \in Tasks : task[t].pc # "idle" ~> task[t].pc = "idle"

-----------------------------------------------------------------------------
(* The inductive invariant behind the safety properties.                   *)

\* The store arbitrates, or else one process does and nobody leaves early.
\* One of the two is what the properties above rest on.
Arbitrated ==
  \/ Bucket
  \/ ~Disconnects /\ \A r, s \in Replicas : r = s

\* Every lock the store ever held: it is there, or it was ended.
Issued == store \cup EndedLocks

\* A create that has not stored its lock yet.
Unstored(t) == task[t].pc \in {"gate", "get", "count", "take", "read",
                              "discard", "retake"} /\ task[t].op = "create"

\* Who is about to delete.
Deleting(t) == task[t].pc \in {"discard", "release"}

KeyUnique == \A l, m \in store : l.path = m.path => l = m

VersionsUnique ==
  /\ \A l, m \in Issued \cup latePuts : l.ver = m.ver => l = m
  /\ \A l \in Issued \cup latePuts : l.ver <= drafts
  /\ latePuts \cap Issued = {}

DraftsFresh ==
  /\ \A t \in Tasks : Unstored(t) =>
       /\ task[t].ver <= drafts
       /\ \A l \in Issued \cup latePuts : l.ver # task[t].ver
  /\ \A t, u \in Tasks :
       t # u /\ Unstored(t) /\ Unstored(u) => task[t].ver # task[u].ver

StepsMatchOp ==
  \A t \in Tasks :
    task[t].pc \in {"get", "count", "take", "read", "discard", "retake"} =>
      task[t].op = "create"

HeldJudged ==
  /\ \A t \in Tasks : task[t].pc \in {"discard", "release", "answer"} =>
       task[t].held \subseteq Issued
  /\ \A t \in Tasks : Deleting(t) =>
       \A l \in task[t].held : /\ Entitled(l, task[t].actor)
                               /\ l.path = task[t].path
  /\ \A t \in Tasks : task[t].pc \in {"discard", "release", "answer"} =>
       \A l, m \in task[t].held : l = m
  /\ \A d \in lateDeletes : /\ \A l, m \in d.held : l = m
                            /\ d.held \subseteq Issued
                            /\ \A l \in d.held : Entitled(l, d.by)

GatesExclusive ==
  \A t, u \in Tasks :
    t # u /\ Inside(t) /\ Inside(u) =>
      \/ task[t].replica # task[u].replica
      \/ GateOf[task[t].path] # GateOf[task[u].path]

\* On a volume the gate is all that keeps a judged lock where it is.
GateProtects ==
  ~Bucket => /\ lateDeletes = {}
             /\ \A t \in Tasks : Deleting(t) => task[t].held \subseteq store

IInv ==
  /\ TypeOK
  /\ KeyUnique
  /\ VersionsUnique
  /\ DraftsFresh
  /\ StepsMatchOp
  /\ HeldJudged
  /\ GatesExclusive
  /\ GateProtects
  /\ HeldUntilEnded
  /\ EndedByRight
=============================================================================
