----------------------------- MODULE LocksProof -----------------------------
(***************************************************************************)
(* Proofs about Locks for every set of replicas, requests, actors and      *)
(* paths, every clock skew, age limit and bound.                           *)
(*                                                                         *)
(* The argument: the locks ever stored (Issued) are told apart by their    *)
(* version, a delete is only ever issued for a lock that was read, and     *)
(* what it takes away is that lock or nothing (RemoveTakesOnlyJudged).     *)
(* In a bucket the version says so; on a volume the gate does.             *)
(*                                                                         *)
(* For the ceiling it is enough to count paths: those that are locked, and *)
(* those of creates past the count.  Only a count adds to them (Crowd).    *)
(***************************************************************************)
EXTENDS Locks, FiniteSetTheorems, TLAPS

\* A task that is not idle is a request: what its handler holds between two
\* awaits has its type.
LEMMA RequestType ==
  ASSUME TypeOK, NEW t \in Tasks, task[t].pc # "idle"
  PROVE  task[t] \in Request
<1>1. task[t] \in Request \cup {Idle}
  BY DEF TypeOK
<1>2. task[t] # Idle
  BY DEF Idle
<1>3. QED
  BY <1>1, <1>2

\* The lock a create is about to write is a lock (locks.rs, create).
LEMMA DraftType ==
  ASSUME TypeOK, NEW t \in Tasks, task[t].pc # "idle"
  PROVE  /\ Draft(t) \in Lock
         /\ Draft(t).ver = task[t].ver
         /\ Draft(t).path = task[t].path
<1>1. task[t] \in Request
  BY RequestType
<1>2. QED
  BY <1>1 DEF Request, Draft, Lock

\* A delete leaves well-typed locks behind, and well-typed ends.
LEMMA RemoveType ==
  ASSUME TypeOK, NEW held \in SUBSET Lock, NEW by \in Actors, Remove(held, by)
  PROVE  store' \in SUBSET Lock /\ ended' \in SUBSET End
<1>1. store' \in SUBSET Lock
  BY DEF Remove, TypeOK
<1>2. \A l \in held : [lock |-> l, by |-> by] \in End
  BY DEF End
<1>3. ended' \in SUBSET End
  BY <1>2 DEF Remove, TypeOK
<1>4. QED
  BY <1>1, <1>3

\* Every step of every handler keeps the types.
LEMMA TypeStep == TypeOK /\ [Next]_vars => TypeOK'
<1> SUFFICES ASSUME TypeOK, [Next]_vars PROVE TypeOK'
  OBVIOUS
<1> USE ConstantsOK
<1>1. ASSUME NEW t \in Tasks, Finish(t)
      PROVE  task' \in [Tasks -> Request \cup {Idle}]
  BY <1>1 DEF TypeOK, Finish
<1>2. ASSUME NEW t \in Tasks, NEW pc \in Steps, task[t].pc # "idle", Goto(t, pc)
      PROVE  task' \in [Tasks -> Request \cup {Idle}]
  <2>1. task[t] \in Request
    BY <1>2, RequestType
  <2>2. [task[t] EXCEPT !.pc = pc] \in Request
    BY <2>1 DEF Request
  <2>3. QED
    BY <1>2, <2>2 DEF TypeOK, Goto
<1>3. ASSUME NEW t \in Tasks, NEW pc \in Steps, NEW held \in SUBSET Lock,
             task[t].pc # "idle",
             task' = [task EXCEPT ![t].pc = pc, ![t].held = held]
      PROVE  task' \in [Tasks -> Request \cup {Idle}]
  <2>1. task[t] \in Request
    BY <1>3, RequestType
  <2>2. [task[t] EXCEPT !.pc = pc, !.held = held] \in Request
    BY <2>1 DEF Request
  <2>3. QED
    BY <1>3, <2>2 DEF TypeOK
<1>4. ASSUME NEW t \in Tasks, NEW r \in Replicas, NEW op \in {"create", "unlock"},
             NEW a \in Actors, NEW p \in Paths, NEW f \in BOOLEAN,
             Begin(t, r, op, a, p, f)
      PROVE  TypeOK'
  BY <1>4 DEF Begin, TypeOK, Request, Steps, Late, History
<1>5. ASSUME NEW t \in Tasks, Enter(t)
      PROVE  TypeOK'
  <2>1. task[t] \in Request
    BY <1>5, RequestType DEF Enter
  <2>2. Now(task[t].replica) \in Nat
    BY <2>1 DEF Now, Request, TypeOK
  <2>3. task'[t] \in Request
    BY <1>5, <2>1, <2>2 DEF Enter, Request, Steps, TypeOK
  <2>4. task' \in [Tasks -> Request \cup {Idle}]
    BY <1>5, <2>3 DEF Enter, TypeOK
  <2>5. QED
    BY <1>5, <2>4 DEF Enter, TypeOK, Late, History
<1>6. ASSUME NEW t \in Tasks, Get(t) \/ Count(t) \/ TakeRefused(t)
      PROVE  TypeOK'
  BY <1>1, <1>2, <1>6 DEF Get, Count, TakeRefused, TypeOK, Late, History, Steps
<1>7. ASSUME NEW t \in Tasks, Take(t)
      PROVE  TypeOK'
  <2>1. task[t].pc # "idle" /\ Draft(t) \in Lock
    BY <1>7, DraftType DEF Take
  <2>2. "answer" \in Steps /\ {Draft(t)} \in SUBSET Lock
    BY <2>1 DEF Steps
  <2>3. task' = [task EXCEPT ![t].pc = "answer", ![t].held = {Draft(t)}]
    BY <1>7 DEF Take
  <2>4. task' \in [Tasks -> Request \cup {Idle}]
    BY <1>3, <2>1, <2>2, <2>3
  <2>5. QED
    BY <1>7, <2>1, <2>4 DEF Take, TypeOK, Late, History
<1>8. ASSUME NEW t \in Tasks, ReadHolder(t) \/ ReadOwner(t)
      PROVE  TypeOK'
  <2>1. At(task[t].path) \in SUBSET Lock
    BY DEF At, TypeOK
  <2>2. task' \in [Tasks -> Request \cup {Idle}]
    BY <1>1, <1>3, <1>8, <2>1 DEF ReadHolder, ReadOwner, Steps
  <2>3. QED
    BY <1>8, <2>2 DEF ReadHolder, ReadOwner, TypeOK, Late, History
<1>9. ASSUME NEW t \in Tasks, Discard(t) \/ Release(t)
      PROVE  TypeOK'
  <2>1. task[t] \in Request
    BY <1>9, RequestType DEF Discard, Release
  <2>2. task[t].held \in SUBSET Lock /\ task[t].actor \in Actors
    BY <2>1 DEF Request
  <2>3. store' \in SUBSET Lock /\ ended' \in SUBSET End
    BY <1>9, <2>2, RemoveType DEF Discard, Release
  <2>4. task' \in [Tasks -> Request \cup {Idle}]
    <3>1. CASE Release(t)
      BY <1>1, <3>1 DEF Release
    <3>2. CASE Discard(t)
      <4>1. "retake" \in Steps /\ {} \in SUBSET Lock /\ task[t].pc # "idle"
        BY <3>2 DEF Steps, Discard
      <4>2. task' = [task EXCEPT ![t].pc = "retake", ![t].held = {}]
        BY <3>2 DEF Discard
      <4>3. QED
        BY <1>3, <4>1, <4>2
    <3>3. QED
      BY <1>9, <3>1, <3>2
  <2>5. QED
    BY <1>9, <2>3, <2>4 DEF Discard, Release, TypeOK, Late
<1>10. ASSUME NEW t \in Tasks, Answer(t)
      PROVE  TypeOK'
  <2>1. task[t] \in Request
    BY <1>10, RequestType DEF Answer
  <2>2. QED
    BY <1>1, <1>10, <2>1 DEF Answer, TypeOK, Late, Request
<1>11. ASSUME NEW t \in Tasks, Fail(t)
      PROVE  TypeOK'
  BY <1>1, <1>11 DEF Fail, TypeOK, Late, History
<1>12. ASSUME NEW t \in Tasks, Abandon(t)
      PROVE  TypeOK'
  <2>1. task[t] \in Request /\ Draft(t) \in Lock
    BY <1>12, RequestType, DraftType DEF Abandon
  <2>2. [held |-> task[t].held, by |-> task[t].actor] \in Delete
    BY <2>1 DEF Delete, Request
  <2>3. QED
    BY <1>1, <1>12, <2>1, <2>2 DEF Abandon, TypeOK, History
<1>13. ASSUME NEW d \in latePuts, LatePut(d)
      PROVE  TypeOK'
  BY <1>13 DEF LatePut, TypeOK, History
<1>14. ASSUME NEW d \in lateDeletes, LateDelete(d)
      PROVE  TypeOK'
  <2>1. d \in Delete
    BY DEF TypeOK
  <2>2. store' \in SUBSET Lock /\ ended' \in SUBSET End
    BY <1>14, <2>1, RemoveType DEF LateDelete, Delete
  <2>3. QED
    BY <1>14, <2>2 DEF LateDelete, TypeOK
<1>15. CASE Tick
  BY <1>15 DEF Tick, TypeOK, Late, History
<1>16. CASE UNCHANGED vars
  BY <1>16 DEF vars, TypeOK
<1>17. QED
  BY <1>4, <1>5, <1>6, <1>7, <1>8, <1>9, <1>10, <1>11, <1>12, <1>13, <1>14,
     <1>15, <1>16 DEF Next, Serve

\* The types of every variable, whatever the constants.
THEOREM TypeCorrect == Spec => []TypeOK
<1>1. Init => TypeOK
  BY DEF Init, TypeOK, Idle
<1>2. QED
  BY <1>1, TypeStep, PTL DEF Spec

-----------------------------------------------------------------------------
(* What a delete takes away.                                               *)

\* A delete of locks that were read removes those and nothing else: in a
\* bucket because no two objects share a version, on a volume because the
\* lock that was read is still the one under that name.
LEMMA RemoveTakesOnlyJudged ==
  ASSUME IInv, NEW held \in SUBSET Lock, NEW by \in Actors,
         held \subseteq Issued, Bucket \/ held \subseteq store,
         Remove(held, by)
  PROVE  /\ Removed(held) \subseteq held
         /\ Issued' = Issued
         /\ store' \subseteq store
         /\ \A e \in ended' \ ended : e.lock \in held /\ e.by = by
<1>1. Removed(held) \subseteq held
  <2> SUFFICES ASSUME NEW l \in Removed(held) PROVE l \in held
    OBVIOUS
  <2>1. PICK k \in held : l.path = k.path /\ (Bucket => l.ver = k.ver)
    BY DEF Removed
  <2>2. l \in store
    BY DEF Removed
  <2>3. CASE Bucket
    BY <2>1, <2>2, <2>3 DEF IInv, VersionsUnique, Issued
  <2>4. CASE ~Bucket
    BY <2>1, <2>2, <2>4 DEF IInv, KeyUnique
  <2>5. QED
    BY <2>3, <2>4
<1>2. store' = store \ Removed(held)
  BY DEF Remove
<1>3. CASE Removed(held) = {}
  <2>1. store' = store /\ ended' = ended
    BY <1>2, <1>3 DEF Remove
  <2>2. QED
    BY <1>1, <2>1 DEF Issued, EndedLocks
<1>4. CASE Removed(held) # {}
  <2>1. ended' = ended \cup {[lock |-> l, by |-> by] : l \in held}
    BY <1>4 DEF Remove
  <2>2. EndedLocks' = EndedLocks \cup held
    <3> DEFINE ends == {[lock |-> l, by |-> by] : l \in held}
    <3>1. EndedLocks' = {e.lock : e \in ended \cup ends}
      BY <2>1 DEF EndedLocks
    <3>2. {e.lock : e \in ends} = held
      <4>1. ASSUME NEW l \in held PROVE l \in {e.lock : e \in ends}
        <5>1. [lock |-> l, by |-> by] \in ends /\ [lock |-> l, by |-> by].lock = l
          OBVIOUS
        <5>2. QED
          BY <5>1
      <4>2. ASSUME NEW e \in ends PROVE e.lock \in held
        OBVIOUS
      <4>3. QED
        BY <4>1, <4>2
    <3>3. EndedLocks' = EndedLocks \cup {e.lock : e \in ends}
      BY <3>1 DEF EndedLocks
    <3>4. QED
      BY <3>2, <3>3
  <2>3. Issued' = Issued
    BY <1>1, <1>2, <2>2 DEF Issued
  <2>4. QED
    BY <1>1, <1>2, <2>1, <2>3
<1>5. QED
  BY <1>3, <1>4

\* Entitlement, once established, lasts: nobody's clock runs backwards.
LEMMA EntitledLasts ==
  ASSUME TypeOK, NEW l \in Lock, NEW a \in Actors, Entitled(l, a),
         clock' \in Nat, clock' >= clock
  PROVE  Entitled(l, a)'
<1>1. ASSUME NEW r \in Replicas, StaleAt(l, r)
      PROVE  StaleAt(l, r)'
  <2>1. Skew[r] \in Nat /\ MaxAge \in Nat /\ l.at \in Nat /\ clock \in Nat
    BY ConstantsOK DEF TypeOK, Lock
  <2>2. QED
    BY <1>1, <2>1 DEF StaleAt, Now
<1>2. QED
  BY <1>1 DEF Entitled

\* The properties follow from the invariant.
LEMMA InvariantGivesSafety == IInv => HeldUntilEnded /\ OneHolder /\ EndedByRight
<1> SUFFICES ASSUME IInv PROVE OneHolder
  BY DEF IInv
<1> SUFFICES ASSUME NEW l \in told \ EndedLocks, NEW m \in told \ EndedLocks,
                    l.path = m.path
             PROVE  l = m
  BY DEF OneHolder
<1>1. l \in store /\ m \in store
  BY DEF IInv, HeldUntilEnded
<1>2. QED
  BY <1>1 DEF IInv, KeyUnique

-----------------------------------------------------------------------------
(* The invariant is inductive.                                             *)

\* A step of one request that leaves the store, the writes under way and the
\* clock alone.  What it must show is what the request looks like after it.
LEMMA RequestStep ==
  ASSUME IInv, TypeOK', NEW t \in Tasks,
         UNCHANGED <<store, drafts, latePuts, lateDeletes, clock, ended>>,
         told' \subseteq Issued,
         \A u \in Tasks \ {t} : task'[u] = task[u],
         Unstored(t)' => Unstored(t) /\ task'[t].ver = task[t].ver,
         task'[t].pc \in {"get", "count", "take", "read", "discard", "retake"}
           => task'[t].op = "create",
         task'[t].pc \in {"discard", "release", "answer"}
           => task'[t].held \subseteq Issued /\ \A l, m \in task'[t].held : l = m,
         Deleting(t)' =>
           /\ \A l \in task'[t].held : /\ Entitled(l, task'[t].actor)
                                       /\ l.path = task'[t].path
           /\ ~Bucket => task'[t].held \subseteq store,
         Inside(t)' => /\ Inside(t) \/ GateFree(t)
                       /\ task'[t].replica = task[t].replica
                       /\ task'[t].path = task[t].path
  PROVE  IInv'
<1>1. Issued' = Issued
  BY DEF Issued, EndedLocks
<1>2. KeyUnique' /\ VersionsUnique'
  BY <1>1 DEF IInv, KeyUnique, VersionsUnique
<1>3. DraftsFresh'
  BY <1>1 DEF IInv, DraftsFresh, Unstored
<1>4. StepsMatchOp'
  BY DEF IInv, StepsMatchOp
<1>5. \A l, a : Entitled(l, a)' <=> Entitled(l, a)
  BY DEF Entitled, StaleAt, Now
<1>6. HeldJudged'
  BY <1>1, <1>5 DEF IInv, HeldJudged, Deleting
<1>7. GatesExclusive'
  BY DEF IInv, GatesExclusive, Inside, GateFree
<1>8. GateProtects'
  BY DEF IInv, GateProtects, Deleting
<1>9. HeldUntilEnded'
  BY <1>1 DEF HeldUntilEnded, Issued
<1>10. EndedByRight'
  BY <1>5 DEF IInv, EndedByRight
<1>11. QED
  BY <1>2, <1>3, <1>4, <1>6, <1>7, <1>8, <1>9, <1>10 DEF IInv

\* A lock enters the store under a path that is free, with a version no
\* other lock has; the draft leaves the request, or the writes under way.
LEMMA StoreStep ==
  ASSUME IInv, NEW l \in Lock, Absent(l.path), store' = store \cup {l},
         l.ver <= drafts,
         \A m \in Issued \cup (latePuts \ {l}) : m.ver # l.ver,
         UNCHANGED <<drafts, ended>>,
         latePuts' \subseteq latePuts \ {l}
  PROVE  /\ Issued' = Issued \cup {l}
         /\ KeyUnique'
         /\ VersionsUnique'
<1>1. Issued' = Issued \cup {l}
  BY DEF Issued, EndedLocks
<1>2. KeyUnique'
  BY DEF IInv, KeyUnique, Absent, At
<1>3. VersionsUnique'
  BY <1>1 DEF IInv, VersionsUnique
<1>4. QED
  BY <1>1, <1>2, <1>3

\* A delete reaches the store.  The requests past their gate keep what they
\* judged: on a volume, because nobody else is past the gate of that path.
LEMMA RemoveStep ==
  ASSUME IInv, NEW held \in SUBSET Lock, NEW by \in Actors,
         held \subseteq Issued, Bucket \/ held \subseteq store,
         \A l \in held : Entitled(l, by),
         Remove(held, by),
         UNCHANGED <<drafts, clock, latePuts, told>>
  PROVE  /\ Issued' = Issued
         /\ KeyUnique'
         /\ VersionsUnique'
         /\ HeldUntilEnded'
         /\ EndedByRight'
<1>1. /\ Removed(held) \subseteq held
      /\ Issued' = Issued
      /\ store' \subseteq store
      /\ \A e \in ended' \ ended : e.lock \in held /\ e.by = by
  BY RemoveTakesOnlyJudged
<1>2. KeyUnique' /\ VersionsUnique'
  BY <1>1 DEF IInv, KeyUnique, VersionsUnique
<1>3. HeldUntilEnded'
  BY <1>1 DEF IInv, HeldUntilEnded, Issued
<1>4. \A l, a : Entitled(l, a)' <=> Entitled(l, a)
  BY DEF Entitled, StaleAt, Now
<1>5. EndedByRight'
  BY <1>1, <1>4 DEF IInv, EndedByRight
<1>6. QED
  BY <1>1, <1>2, <1>3, <1>5

\* The inductive step: whatever a handler, a failure, a caller who leaves or
\* a request that lands late does to the store, the invariant survives it.
THEOREM Inductive ==
  ASSUME Arbitrated, IInv, [Next]_vars
  PROVE  IInv'
<1> USE ConstantsOK
<1>0. TypeOK /\ TypeOK'
  <2>1. TypeOK
    BY DEF IInv
  <2>2. TypeOK'
    BY <2>1, TypeStep
  <2>3. QED
    BY <2>1, <2>2
<1>1. ASSUME NEW t \in Tasks, NEW r \in Replicas, NEW op \in {"create", "unlock"},
             NEW a \in Actors, NEW p \in Paths, NEW f \in BOOLEAN,
             Begin(t, r, op, a, p, f)
      PROVE  IInv'
  <2>1. UNCHANGED <<store, clock, latePuts, lateDeletes, told, ended>>
    BY <1>1 DEF Begin, Late, History
  <2>2. Issued' = Issued /\ drafts' \in Nat /\ drafts' >= drafts
    BY <1>0, <1>1, <2>1 DEF Issued, EndedLocks, Begin, TypeOK
  <2>3. /\ task'[t].pc = "gate" /\ task'[t].op = op
        /\ op = "create" => task'[t].ver = drafts + 1 /\ drafts' = drafts + 1
        /\ \A u \in Tasks \ {t} : task'[u] = task[u]
    BY <1>0, <1>1 DEF Begin, TypeOK
  <2>4. \A l \in Issued \cup latePuts : l.ver \in Nat /\ l.ver <= drafts
    BY <1>0 DEF IInv, VersionsUnique, Issued, EndedLocks, TypeOK, Lock, End
  <2>5. KeyUnique' /\ VersionsUnique'
    <3>1. KeyUnique'
      BY <2>1 DEF IInv, KeyUnique
    <3>2. drafts \in Nat
      BY <1>0 DEF TypeOK
    <3>3. \A l \in Issued \cup latePuts : l.ver <= drafts'
      BY <2>2, <2>4, <3>2
    <3>4. VersionsUnique'
      BY <2>1, <2>2, <3>3 DEF IInv, VersionsUnique
    <3>5. QED
      BY <3>1, <3>4
  <2>6. DraftsFresh'
    <3>1. \A u \in Tasks \ {t} : Unstored(u)' => Unstored(u) /\ task'[u].ver = task[u].ver
      BY <2>3 DEF Unstored
    <3>2. Unstored(t)' => task'[t].ver = drafts + 1 /\ drafts' = drafts + 1
      BY <2>3 DEF Unstored
    <3>3. \A u \in Tasks : Unstored(u) => task[u].ver \in Nat /\ task[u].ver <= drafts
      <4> SUFFICES ASSUME NEW u \in Tasks, Unstored(u)
                   PROVE  task[u].ver \in Nat /\ task[u].ver <= drafts
        OBVIOUS
      <4>1. task[u] \in Request
        BY <1>0, RequestType DEF Unstored
      <4>2. QED
        BY <4>1 DEF IInv, DraftsFresh, Request
    <3>4. drafts \in Nat
      BY <1>0 DEF TypeOK
    <3>5. \A u \in Tasks : Unstored(u)' =>
            /\ task'[u].ver <= drafts'
            /\ \A l \in Issued \cup latePuts : l.ver # task'[u].ver
      BY <2>2, <2>4, <3>1, <3>2, <3>3, <3>4 DEF IInv, DraftsFresh
    <3>6. \A u, v \in Tasks :
            u # v /\ Unstored(u)' /\ Unstored(v)' => task'[u].ver # task'[v].ver
      BY <3>1, <3>2, <3>3, <3>4 DEF IInv, DraftsFresh
    <3>7. QED
      BY <2>1, <2>2, <3>5, <3>6 DEF DraftsFresh
  <2>7. StepsMatchOp'
    BY <2>3 DEF IInv, StepsMatchOp
  <2>8. \A l, b : Entitled(l, b)' <=> Entitled(l, b)
    BY <2>1 DEF Entitled, StaleAt, Now
  <2>9. HeldJudged'
    BY <2>1, <2>2, <2>3, <2>8 DEF IInv, HeldJudged, Deleting
  <2>10. GatesExclusive'
    BY <2>3 DEF IInv, GatesExclusive, Inside
  <2>11. GateProtects'
    BY <2>1, <2>3 DEF IInv, GateProtects, Deleting
  <2>12. HeldUntilEnded' /\ EndedByRight'
    BY <2>1, <2>8 DEF IInv, HeldUntilEnded, EndedLocks, EndedByRight
  <2>13. QED
    BY <1>0, <2>5, <2>6, <2>7, <2>9, <2>10, <2>11, <2>12 DEF IInv
<1>2. ASSUME NEW t \in Tasks, Enter(t)
      PROVE  IInv'
  <2>1. task[t] \in Request
    BY <1>0, <1>2, RequestType DEF Enter
  <2>2. /\ task'[t].pc = IF task[t].op = "create" THEN "get" ELSE "read_owner"
        /\ task'[t].op = task[t].op
        /\ task'[t].ver = task[t].ver
        /\ task'[t].replica = task[t].replica
        /\ task'[t].path = task[t].path
        /\ \A u \in Tasks \ {t} : task'[u] = task[u]
    BY <1>0, <1>2, <2>1 DEF Enter, TypeOK, Request
  <2>3. Unstored(t)' => Unstored(t)
    BY <1>2, <2>2 DEF Unstored, Enter
  <2>4. told' \subseteq Issued
    BY <1>2 DEF Enter, History, IInv, HeldUntilEnded, Issued
  <2>5. /\ ~Deleting(t)'
        /\ task'[t].pc \notin {"discard", "release", "answer"}
        /\ task'[t].pc = "get" => task'[t].op = "create"
        /\ task'[t].pc \in {"get", "read_owner"}
    BY <2>2 DEF Deleting
  <2>6. UNCHANGED <<store, drafts, latePuts, lateDeletes, clock, ended>> /\ GateFree(t)
    BY <1>2 DEF Enter, Late, History
  <2>7. QED
    BY <1>0, <2>2, <2>3, <2>4, <2>5, <2>6, RequestStep
<1>3. ASSUME NEW t \in Tasks, Finish(t),
             UNCHANGED <<store, drafts, latePuts, lateDeletes, clock, ended>>,
             told' \subseteq Issued
      PROVE  IInv'
  <2>1. task'[t] = Idle /\ \A u \in Tasks \ {t} : task'[u] = task[u]
    BY <1>0, <1>3 DEF Finish, TypeOK
  <2>2. task'[t].pc = "idle"
    BY <2>1 DEF Idle
  <2>3. ~Unstored(t)' /\ ~Inside(t)' /\ ~Deleting(t)'
    BY <2>2 DEF Unstored, Inside, Deleting
  <2>4. QED
    BY <1>0, <1>3, <2>1, <2>2, <2>3, RequestStep
<1>4. ASSUME NEW t \in Tasks, NEW pc \in Steps, Goto(t, pc),
             task[t].pc \in {"get", "count", "take"},
             pc \in {"count", "take", "read"},
             UNCHANGED <<store, drafts, latePuts, lateDeletes, clock, told, ended>>
      PROVE  IInv'
  <2>1. task[t] \in Request
    BY <1>0, <1>4, RequestType
  <2>2. /\ task'[t].pc = pc
        /\ task'[t].op = task[t].op
        /\ task'[t].ver = task[t].ver
        /\ task'[t].replica = task[t].replica
        /\ task'[t].path = task[t].path
        /\ \A u \in Tasks \ {t} : task'[u] = task[u]
    BY <1>0, <1>4, <2>1 DEF Goto, TypeOK, Request
  <2>3. task[t].op = "create"
    BY <1>4 DEF IInv, StepsMatchOp
  <2>4. Unstored(t) /\ Inside(t)
    BY <1>4, <2>3 DEF Unstored, Inside
  <2>5. told' \subseteq Issued
    BY <1>4 DEF IInv, HeldUntilEnded, Issued
  <2>6. ~Deleting(t)' /\ task'[t].pc \notin {"discard", "release", "answer"}
    BY <1>4, <2>2 DEF Deleting
  <2>7. QED
    BY <1>0, <1>4, <2>2, <2>3, <2>4, <2>5, <2>6, RequestStep
<1>5. ASSUME NEW t \in Tasks,
             UNCHANGED <<store, drafts, latePuts, lateDeletes, clock, told, ended>>,
             \/ task[t].pc = "read" /\ task'= [task EXCEPT ![t].pc = "discard",
                                            ![t].held = At(task[t].path)]
             \/ task[t].pc = "read_owner" /\ task'= [task EXCEPT ![t].pc = "release",
                                            ![t].held = At(task[t].path)],
             \E l \in At(task[t].path) : Entitled(l, task[t].actor)
      PROVE  IInv'
  <2>1. task[t] \in Request
    BY <1>0, <1>5, RequestType
  <2>2. /\ task'[t].pc = IF task[t].pc = "read" THEN "discard" ELSE "release"
        /\ task'[t].held = At(task[t].path)
        /\ task'[t].op = task[t].op
        /\ task'[t].ver = task[t].ver
        /\ task'[t].actor = task[t].actor
        /\ task'[t].replica = task[t].replica
        /\ task'[t].path = task[t].path
        /\ \A u \in Tasks \ {t} : task'[u] = task[u]
    BY <1>0, <1>5, <2>1 DEF TypeOK, Request
  <2>3. \A l \in At(task[t].path) : Entitled(l, task[t].actor) /\ l.path = task[t].path
    BY <1>5 DEF IInv, KeyUnique, At
  <2>4. /\ At(task[t].path) \subseteq store /\ store \subseteq Issued
        /\ \A l, m \in At(task[t].path) : l = m
    BY DEF At, Issued, IInv, KeyUnique
  <2>5. Unstored(t)' => Unstored(t)
    BY <1>5, <2>2 DEF Unstored
  <2>6. task'[t].pc = "discard" => task'[t].op = "create"
    BY <1>5, <2>2 DEF IInv, StepsMatchOp
  <2>7. told' \subseteq Issued
    BY <1>5 DEF IInv, HeldUntilEnded, Issued
  <2>8. Inside(t)
    BY <1>5 DEF Inside
  <2>9. QED
    BY <1>0, <1>5, <2>2, <2>3, <2>4, <2>5, <2>6, <2>7, <2>8, RequestStep
<1>6. ASSUME NEW t \in Tasks, Get(t) \/ Count(t) \/ TakeRefused(t)
      PROVE  IInv'
  <2>1. told' \subseteq Issued
    BY <1>6 DEF Get, Count, TakeRefused, History, IInv, HeldUntilEnded, Issued
  <2>2. QED
    BY <1>3, <1>4, <1>6, <2>1 DEF Get, Count, TakeRefused, Late, History, Steps
<1>7. ASSUME NEW t \in Tasks, ReadHolder(t)
      PROVE  IInv'
  <2>1. told' \subseteq Issued
    BY <1>7 DEF ReadHolder, History, IInv, HeldUntilEnded, Issued
  <2>2. task[t].replica \in Replicas
    BY <1>0, <1>7, RequestType DEF ReadHolder, Request
  <2>3. CASE \E l \in At(task[t].path) : StaleAt(l, task[t].replica)
    <3>1. \E l \in At(task[t].path) : Entitled(l, task[t].actor)
      BY <2>2, <2>3 DEF Entitled
    <3>2. QED
      BY <1>5, <1>7, <2>3, <3>1 DEF ReadHolder, Late, History
  <2>4. CASE ~\E l \in At(task[t].path) : StaleAt(l, task[t].replica)
    BY <1>3, <1>7, <2>1, <2>4 DEF ReadHolder, Late, History
  <2>5. QED
    BY <2>3, <2>4
<1>8. ASSUME NEW t \in Tasks, ReadOwner(t)
      PROVE  IInv'
  <2>1. told' \subseteq Issued
    BY <1>8 DEF ReadOwner, History, IInv, HeldUntilEnded, Issued
  <2>2. CASE \E l \in At(task[t].path) : MayRelease(t, l)
    <3>1. \E l \in At(task[t].path) : Entitled(l, task[t].actor)
      BY <2>2 DEF Entitled, MayRelease
    <3>2. QED
      BY <1>5, <1>8, <2>2, <3>1 DEF ReadOwner, Late, History
  <2>3. CASE ~\E l \in At(task[t].path) : MayRelease(t, l)
    BY <1>3, <1>8, <2>1, <2>3 DEF ReadOwner, Late, History
  <2>4. QED
    BY <2>2, <2>3
<1>9. ASSUME NEW t \in Tasks, Answer(t) \/ Fail(t)
      PROVE  IInv'
  <2>1. told' \subseteq Issued
    BY <1>9 DEF Answer, Fail, History, IInv, HeldUntilEnded, HeldJudged, Issued
  <2>2. QED
    BY <1>3, <1>9, <2>1 DEF Answer, Fail, Late, History
<1>10. ASSUME NEW t \in Tasks, Take(t)
       PROVE  IInv'
  <2> DEFINE l == Draft(t)
  <2>1. task[t] \in Request /\ l \in Lock /\ l.ver = task[t].ver /\ l.path = task[t].path
    BY <1>0, <1>10, RequestType, DraftType DEF Take
  <2>2. Unstored(t) /\ Inside(t)
    BY <1>10 DEF IInv, StepsMatchOp, Unstored, Inside, Take
  <2>3. /\ task'[t].pc = "answer"
        /\ task'[t].held = {l}
        /\ task'[t].replica = task[t].replica
        /\ task'[t].path = task[t].path
        /\ \A u \in Tasks \ {t} : task'[u] = task[u]
    BY <1>0, <1>10, <2>1 DEF Take, TypeOK, Request
  <2>4. UNCHANGED <<drafts, clock, latePuts, lateDeletes, told, ended>>
    BY <1>10 DEF Take, Late, History
  <2>5. l.ver <= drafts /\ \A m \in Issued \cup latePuts : m.ver # l.ver
    BY <2>1, <2>2 DEF IInv, DraftsFresh
  <2>6. latePuts \subseteq latePuts \ {l}
    BY <2>5
  <2>7. Issued' = Issued \cup {l} /\ KeyUnique' /\ VersionsUnique'
    BY <1>10, <2>1, <2>4, <2>5, <2>6, StoreStep DEF Take
  <2>8. ~Unstored(t)' /\ ~Deleting(t)'
    BY <2>3 DEF Unstored, Deleting
  <2>9. DraftsFresh'
    <3>1. \A u \in Tasks : Unstored(u)' => u # t /\ Unstored(u) /\ task'[u].ver = task[u].ver
      BY <2>3, <2>8 DEF Unstored
    <3>2. \A u \in Tasks : Unstored(u)' =>
            /\ task'[u].ver <= drafts
            /\ \A m \in Issued \cup latePuts : m.ver # task'[u].ver
            /\ l.ver # task'[u].ver
      BY <2>1, <2>2, <3>1 DEF IInv, DraftsFresh
    <3>3. \A u, v \in Tasks :
            u # v /\ Unstored(u)' /\ Unstored(v)' => task'[u].ver # task'[v].ver
      BY <3>1 DEF IInv, DraftsFresh
    <3>4. QED
      BY <2>4, <2>7, <3>2, <3>3 DEF DraftsFresh
  <2>10. StepsMatchOp'
    BY <2>3 DEF IInv, StepsMatchOp
  <2>11. \A m, a : Entitled(m, a)' <=> Entitled(m, a)
    BY <2>4 DEF Entitled, StaleAt, Now
  <2>12. HeldJudged'
    BY <2>3, <2>4, <2>7, <2>8, <2>11 DEF IInv, HeldJudged, Deleting
  <2>13. GatesExclusive'
    BY <2>2, <2>3 DEF IInv, GatesExclusive, Inside
  <2>14. GateProtects'
    BY <1>10, <2>3, <2>4, <2>8 DEF IInv, GateProtects, Deleting, Take
  <2>15. HeldUntilEnded' /\ EndedByRight'
    BY <1>10, <2>4, <2>11 DEF IInv, HeldUntilEnded, EndedLocks, EndedByRight, Take
  <2>16. QED
    BY <1>0, <2>7, <2>9, <2>10, <2>12, <2>13, <2>14, <2>15 DEF IInv
<1>11. ASSUME NEW t \in Tasks, Discard(t) \/ Release(t)
       PROVE  IInv'
  <2> DEFINE held == task[t].held
  <2>1. task[t] \in Request /\ Deleting(t) /\ Inside(t)
    BY <1>0, <1>11, RequestType DEF Discard, Release, Deleting, Inside
  <2>2. held \in SUBSET Lock /\ task[t].actor \in Actors
    BY <2>1 DEF Request
  <2>3. /\ held \subseteq Issued
        /\ \A l \in held : Entitled(l, task[t].actor) /\ l.path = task[t].path
        /\ Bucket \/ held \subseteq store
    BY <2>1 DEF IInv, HeldJudged, GateProtects, Deleting
  <2>4. Remove(held, task[t].actor) /\ UNCHANGED <<drafts, clock, latePuts, lateDeletes, told>>
    BY <1>11 DEF Discard, Release, Late
  <2>5. Issued' = Issued /\ KeyUnique' /\ VersionsUnique' /\ HeldUntilEnded' /\ EndedByRight'
    BY <2>2, <2>3, <2>4, RemoveStep
  <2>6. Removed(held) \subseteq held
    BY <2>2, <2>3, <2>4, RemoveTakesOnlyJudged
  <2>7. \A u \in Tasks \ {t} : task'[u] = task[u]
    BY <1>0, <1>11 DEF Discard, Release, Finish, TypeOK
  <2>8. \/ task'[t] = Idle
        \/ /\ task[t].pc = "discard"
           /\ task'[t].pc = "retake"
           /\ task'[t].op = task[t].op
           /\ task'[t].ver = task[t].ver
           /\ task'[t].replica = task[t].replica
           /\ task'[t].path = task[t].path
    BY <1>0, <1>11, <2>1 DEF Discard, Release, Finish, TypeOK, Request
  <2>9. ~Deleting(t)' /\ task'[t].pc \notin {"discard", "release", "answer"}
    BY <2>8 DEF Deleting, Idle
  <2>10. Unstored(t)' => Unstored(t) /\ task'[t].ver = task[t].ver
    BY <2>8 DEF Unstored, Idle
  <2>11. DraftsFresh'
    BY <2>4, <2>5, <2>7, <2>10 DEF IInv, DraftsFresh, Unstored
  <2>12. StepsMatchOp'
    BY <2>7, <2>8 DEF IInv, StepsMatchOp, Idle
  <2>13. \A m, a : Entitled(m, a)' <=> Entitled(m, a)
    BY <2>4 DEF Entitled, StaleAt, Now
  <2>14. HeldJudged'
    BY <2>4, <2>5, <2>7, <2>9, <2>13 DEF IInv, HeldJudged, Deleting
  <2>15. GatesExclusive'
    BY <2>1, <2>7, <2>8 DEF IInv, GatesExclusive, Inside, Idle
  <2>16. GateProtects'
    <3> SUFFICES ASSUME ~Bucket, NEW u \in Tasks, Deleting(u)'
                 PROVE  task'[u].held \subseteq store'
      BY <2>4 DEF IInv, GateProtects
    <3>1. u # t /\ task'[u] = task[u]
      BY <2>7, <2>9
    <3>2. Deleting(u) /\ Inside(u)
      BY <3>1 DEF Deleting, Inside
    <3>3. task[u] \in Request
      BY <1>0, <3>2, RequestType DEF Deleting
    <3>4. task[u].replica = task[t].replica
      BY <2>1, <3>3 DEF Arbitrated, Request
    <3>5. task[u].path # task[t].path
      BY <2>1, <3>1, <3>2, <3>4 DEF IInv, GatesExclusive
    <3>6. task[u].held \subseteq store /\ \A l \in task[u].held : l.path = task[u].path
      BY <3>2 DEF IInv, GateProtects, HeldJudged
    <3>7. QED
      BY <2>3, <2>4, <2>6, <3>1, <3>5, <3>6 DEF Remove
  <2>17. QED
    BY <1>0, <2>5, <2>11, <2>12, <2>14, <2>15, <2>16 DEF IInv
<1>12. ASSUME NEW t \in Tasks, Abandon(t)
       PROVE  IInv'
  <2> DEFINE l == Draft(t)
  <2>1. task[t] \in Request /\ l \in Lock /\ l.ver = task[t].ver /\ Inside(t)
    BY <1>0, <1>12, RequestType, DraftType DEF Abandon, Inside
  <2>2. Bucket
    BY <1>12 DEF Abandon, Arbitrated
  <2>3. UNCHANGED <<store, drafts, clock, told, ended>> /\ Issued' = Issued
    BY <1>12 DEF Abandon, History, Issued, EndedLocks
  <2>4. task'[t] = Idle /\ \A u \in Tasks \ {t} : task'[u] = task[u]
    BY <1>0, <1>12 DEF Abandon, Finish, TypeOK
  <2>5. ~Unstored(t)' /\ ~Deleting(t)' /\ ~Inside(t)' /\ task'[t].pc = "idle"
    BY <2>4 DEF Unstored, Deleting, Inside, Idle
  <2>6. latePuts' \subseteq latePuts \cup {l} /\ (latePuts' # latePuts => Unstored(t))
    BY <1>12 DEF Abandon, IInv, StepsMatchOp, Unstored
  <2>7. VersionsUnique'
    BY <2>1, <2>3, <2>6 DEF IInv, VersionsUnique, DraftsFresh
  <2>8. DraftsFresh'
    <3>1. \A u \in Tasks : Unstored(u)' => u # t /\ Unstored(u) /\ task'[u].ver = task[u].ver
      BY <2>4, <2>5 DEF Unstored
    <3>2. \A u \in Tasks : Unstored(u)' =>
            /\ task'[u].ver <= drafts
            /\ \A m \in Issued \cup latePuts : m.ver # task'[u].ver
            /\ Unstored(t) => l.ver # task'[u].ver
      BY <2>1, <3>1 DEF IInv, DraftsFresh
    <3>3. \A u, v \in Tasks :
            u # v /\ Unstored(u)' /\ Unstored(v)' => task'[u].ver # task'[v].ver
      BY <3>1 DEF IInv, DraftsFresh
    <3>4. QED
      BY <2>3, <2>6, <3>2, <3>3 DEF DraftsFresh
  <2>9. StepsMatchOp'
    BY <2>4, <2>5 DEF IInv, StepsMatchOp
  <2>10. \A m, a : Entitled(m, a)' <=> Entitled(m, a)
    BY <2>3 DEF Entitled, StaleAt, Now
  <2>11. \A d \in lateDeletes' : d \in lateDeletes \/
            /\ Deleting(t) /\ d.held = task[t].held /\ d.by = task[t].actor
    BY <1>12 DEF Abandon, Deleting
  <2>12. HeldJudged'
    BY <2>3, <2>4, <2>5, <2>10, <2>11 DEF IInv, HeldJudged, Deleting
  <2>13. GatesExclusive'
    BY <2>4, <2>5 DEF IInv, GatesExclusive, Inside
  <2>14. GateProtects'
    BY <2>2 DEF GateProtects
  <2>15. KeyUnique' /\ HeldUntilEnded' /\ EndedByRight'
    BY <2>3, <2>10 DEF IInv, KeyUnique, HeldUntilEnded, EndedLocks, EndedByRight
  <2>16. QED
    BY <1>0, <2>7, <2>8, <2>9, <2>12, <2>13, <2>14, <2>15 DEF IInv
<1>13. ASSUME NEW l \in latePuts, LatePut(l)
       PROVE  IInv'
  <2>1. l \in Lock
    BY <1>0 DEF TypeOK
  <2>2. UNCHANGED <<drafts, task, lateDeletes, clock, told, ended>> /\ latePuts' = latePuts \ {l}
    BY <1>13 DEF LatePut, History
  <2>3. /\ Issued' \subseteq Issued \cup {l}
        /\ Issued \subseteq Issued' /\ store \subseteq store'
        /\ KeyUnique' /\ VersionsUnique'
    <3>1. CASE Absent(l.path)
      <4>1. l.ver <= drafts /\ \A m \in Issued \cup (latePuts \ {l}) : m.ver # l.ver
        BY DEF IInv, VersionsUnique
      <4>2. store' = store \cup {l}
        BY <1>13, <3>1 DEF LatePut
      <4>3. QED
        BY <2>1, <2>2, <3>1, <4>1, <4>2, StoreStep
    <3>2. CASE ~Absent(l.path)
      <4>1. store' = store /\ Issued' = Issued
        BY <1>13, <2>2, <3>2 DEF LatePut, Issued, EndedLocks
      <4>2. QED
        BY <2>2, <4>1 DEF IInv, KeyUnique, VersionsUnique
    <3>3. QED
      BY <3>1, <3>2
  <2>4. DraftsFresh'
    BY <2>2, <2>3 DEF IInv, DraftsFresh, Unstored
  <2>5. StepsMatchOp' /\ GatesExclusive'
    BY <2>2 DEF IInv, StepsMatchOp, GatesExclusive, Inside
  <2>6. \A m, a : Entitled(m, a)' <=> Entitled(m, a)
    BY <2>2 DEF Entitled, StaleAt, Now
  <2>7. HeldJudged' /\ GateProtects'
    BY <2>2, <2>3, <2>6 DEF IInv, HeldJudged, GateProtects, Deleting
  <2>8. HeldUntilEnded' /\ EndedByRight'
    BY <2>2, <2>3, <2>6 DEF IInv, HeldUntilEnded, EndedLocks, EndedByRight
  <2>9. QED
    BY <1>0, <2>3, <2>4, <2>5, <2>7, <2>8 DEF IInv
<1>14. ASSUME NEW d \in lateDeletes, LateDelete(d)
       PROVE  IInv'
  <2>1. Bucket
    BY DEF IInv, GateProtects
  <2>2. d.held \in SUBSET Lock /\ d.by \in Actors
    BY <1>0 DEF TypeOK, Delete
  <2>3. d.held \subseteq Issued /\ \A l \in d.held : Entitled(l, d.by)
    BY DEF IInv, HeldJudged
  <2>4. /\ Remove(d.held, d.by)
        /\ UNCHANGED <<drafts, task, clock, latePuts, told>>
        /\ lateDeletes' \subseteq lateDeletes
    BY <1>14 DEF LateDelete
  <2>5. Issued' = Issued /\ KeyUnique' /\ VersionsUnique' /\ HeldUntilEnded' /\ EndedByRight'
    BY <2>1, <2>2, <2>3, <2>4, RemoveStep
  <2>6. DraftsFresh' /\ StepsMatchOp' /\ GatesExclusive'
    BY <2>4, <2>5 DEF IInv, DraftsFresh, Unstored, StepsMatchOp, GatesExclusive, Inside
  <2>7. \A m, a : Entitled(m, a)' <=> Entitled(m, a)
    BY <2>4 DEF Entitled, StaleAt, Now
  <2>8. HeldJudged' /\ GateProtects'
    BY <2>1, <2>4, <2>5, <2>7 DEF IInv, HeldJudged, GateProtects, Deleting
  <2>9. QED
    BY <1>0, <2>5, <2>6, <2>8 DEF IInv
<1>15. CASE Tick
  <2>1. /\ UNCHANGED <<store, drafts, task, latePuts, lateDeletes, told, ended>>
        /\ clock' \in Nat /\ clock' >= clock
    BY <1>0, <1>15 DEF Tick, Late, History, TypeOK
  <2>2. \A l \in Lock, a \in Actors : Entitled(l, a) => Entitled(l, a)'
    BY <1>0, <2>1, EntitledLasts
  <2>3. Issued' = Issued /\ Issued \subseteq Lock
    BY <1>0, <2>1 DEF Issued, EndedLocks, TypeOK, End
  <2>4. \A t \in Tasks : task[t].pc # "idle" => task[t].actor \in Actors
    BY <1>0, RequestType DEF Request
  <2>5. \A d \in lateDeletes : d.by \in Actors
    BY <1>0 DEF TypeOK, Delete
  <2>6. HeldJudged'
    BY <2>1, <2>2, <2>3, <2>4, <2>5 DEF IInv, HeldJudged, Deleting
  <2>7. \A e \in ended : e.lock \in Lock /\ e.by \in Actors
    BY <1>0 DEF TypeOK, End
  <2>8. EndedByRight'
    BY <2>1, <2>2, <2>7 DEF IInv, EndedByRight
  <2>9. KeyUnique' /\ VersionsUnique' /\ DraftsFresh' /\ StepsMatchOp'
    BY <2>1, <2>3 DEF IInv, KeyUnique, VersionsUnique, DraftsFresh, StepsMatchOp, Unstored
  <2>10. GatesExclusive' /\ GateProtects' /\ HeldUntilEnded'
    BY <2>1 DEF IInv, GatesExclusive, GateProtects, HeldUntilEnded, Inside, Deleting, EndedLocks
  <2>11. QED
    BY <1>0, <2>6, <2>8, <2>9, <2>10 DEF IInv
<1>16. CASE UNCHANGED vars
  BY <1>16 DEF vars, IInv, TypeOK, KeyUnique, VersionsUnique, DraftsFresh,
     StepsMatchOp, HeldJudged, GatesExclusive, GateProtects, HeldUntilEnded,
     EndedByRight, Issued, EndedLocks, Unstored, Deleting, Inside, Entitled,
     StaleAt, Now
<1>17. QED
  BY <1>1, <1>2, <1>6, <1>7, <1>8, <1>9, <1>10, <1>11, <1>12, <1>13, <1>14,
     <1>15, <1>16 DEF Next, Serve

-----------------------------------------------------------------------------
(* The theorems.                                                           *)

\* An empty store with no request in flight satisfies the invariant.
LEMMA InitInvariant == Init => IInv
<1> SUFFICES ASSUME Init PROVE IInv
  OBVIOUS
<1> USE ConstantsOK DEF Init
<1>1. TypeOK
  BY DEF TypeOK
<1>2. \A t \in Tasks : task[t].pc = "idle"
  BY DEF Idle
<1>3. EndedLocks = {} /\ Issued = {}
  BY DEF EndedLocks, Issued
<1>4. KeyUnique /\ VersionsUnique /\ DraftsFresh /\ StepsMatchOp
  BY <1>2, <1>3 DEF KeyUnique, VersionsUnique, DraftsFresh, StepsMatchOp, Unstored
<1>5. HeldJudged /\ GatesExclusive /\ GateProtects
  BY <1>2 DEF HeldJudged, GatesExclusive, GateProtects, Deleting, Inside
<1>6. HeldUntilEnded /\ EndedByRight
  BY DEF HeldUntilEnded, EndedByRight
<1>7. QED
  BY <1>1, <1>4, <1>5, <1>6 DEF IInv

\* Whenever the store arbitrates, or one process does and its callers stay,
\* the invariant holds throughout.
THEOREM Invariance ==
  ASSUME Arbitrated
  PROVE  Spec => []IInv
<1>1. IInv /\ [Next]_vars => IInv'
  BY Inductive
<1>2. QED
  BY <1>1, InitInvariant, PTL DEF Spec

\* A lock somebody was told of stays until that very lock is ended, over a
\* bucket with any number of replicas and callers that leave at any point,
\* and over a volume served by one process whose callers wait.
THEOREM LocksAreKept ==
  ASSUME Arbitrated
  PROVE  Spec => []HeldUntilEnded
<1>1. IInv => HeldUntilEnded
  BY InvariantGivesSafety
<1>2. QED
  BY <1>1, Invariance, PTL

\* Only one of the clients reaching for a path comes away with it.
THEOREM MutualExclusion ==
  ASSUME Arbitrated
  PROVE  Spec => []OneHolder
<1>1. IInv => OneHolder
  BY InvariantGivesSafety
<1>2. QED
  BY <1>1, Invariance, PTL

\* No lock is ended but by its owner, an admin, or past the age limit.
THEOREM OnlyTheEntitledEnd ==
  ASSUME Arbitrated
  PROVE  Spec => []EndedByRight
<1>1. IInv => EndedByRight
  BY InvariantGivesSafety
<1>2. QED
  BY <1>1, Invariance, PTL

-----------------------------------------------------------------------------
(* The lock store implements LockArbiter.                                  *)

\* A delete of a lock somebody was entitled to end is LockArbiter's End; a
\* delete that finds nothing is a stutter.
LEMMA RemoveIsEnd ==
  ASSUME IInv, NEW held \in SUBSET Lock, NEW by \in Actors,
         held \subseteq Issued, Bucket \/ held \subseteq store,
         \A l \in held : Entitled(l, by), \A l, m \in held : l = m,
         Remove(held, by), UNCHANGED <<told, clock>>
  PROVE  [Arbiter!Next]_(Arbiter!vars)
<1>1. CASE Removed(held) = {}
  BY <1>1 DEF Remove, Arbiter!vars
<1>2. CASE Removed(held) # {}
  <2>1. PICK l \in Removed(held) : TRUE
    BY <1>2
  <2>2. Removed(held) \subseteq held
    BY RemoveTakesOnlyJudged
  <2>3. held = {l} /\ Removed(held) = {l} /\ l \in store
    BY <2>1, <2>2 DEF Removed
  <2>4. store' = store \ {l} /\ ended' = ended \cup {[lock |-> l, by |-> by]}
    BY <1>2, <2>3 DEF Remove
  <2>5. by = l.owner \/ by \in Admins \/ Arbiter!Expired(l)
    BY <2>3 DEF Entitled, StaleAt, Now, Arbiter!Expired
  <2>6. Arbiter!End(l, by)
    BY <2>3, <2>4, <2>5 DEF Arbiter!End
  <2>7. QED
    BY <2>3, <2>6 DEF Arbiter!Next
<1>3. QED
  BY <1>1, <1>2

\* Every step of the lock store is a step of LockArbiter or leaves the locks
\* in force alone.
LEMMA StepRefines ==
  ASSUME Arbitrated, IInv, [Next]_vars
  PROVE  [Arbiter!Next]_(Arbiter!vars)
<1>0. TypeOK
  BY DEF IInv
<1>1. CASE UNCHANGED <<store, told, ended, clock>>
  BY <1>1 DEF Arbiter!vars
<1>2. ASSUME NEW l \in Lock, Absent(l.path), l \notin Issued,
             store' = store \cup {l}, UNCHANGED <<told, ended, clock>>
      PROVE  [Arbiter!Next]_(Arbiter!vars)
  <2>1. Arbiter!Grant(l)
    BY <1>2 DEF Arbiter!Grant, Arbiter!Lock, Lock, Absent, At, Issued, EndedLocks
  <2>2. QED
    BY <1>2, <2>1 DEF Arbiter!Next
<1>3. ASSUME NEW t \in Tasks, Take(t)
      PROVE  [Arbiter!Next]_(Arbiter!vars)
  <2>1. Draft(t) \in Lock /\ Draft(t).ver = task[t].ver /\ Draft(t).path = task[t].path
    BY <1>0, <1>3, DraftType DEF Take
  <2>2. Unstored(t)
    BY <1>3 DEF IInv, StepsMatchOp, Unstored, Take
  <2>3. Draft(t) \notin Issued
    BY <2>1, <2>2 DEF IInv, DraftsFresh
  <2>4. QED
    BY <1>2, <1>3, <2>1, <2>3 DEF Take, History
<1>4. ASSUME NEW l \in latePuts, LatePut(l)
      PROVE  [Arbiter!Next]_(Arbiter!vars)
  <2>1. l \in Lock /\ l \notin Issued
    BY <1>0 DEF TypeOK, IInv, VersionsUnique
  <2>2. QED
    BY <1>1, <1>2, <1>4, <2>1 DEF LatePut, History
<1>5. ASSUME NEW t \in Tasks, Discard(t) \/ Release(t)
      PROVE  [Arbiter!Next]_(Arbiter!vars)
  <2>1. task[t] \in Request /\ Deleting(t)
    BY <1>0, <1>5, RequestType DEF Discard, Release, Deleting
  <2>2. task[t].held \in SUBSET Lock /\ task[t].actor \in Actors
    BY <2>1 DEF Request
  <2>3. /\ task[t].held \subseteq Issued
        /\ \A l \in task[t].held : Entitled(l, task[t].actor)
        /\ \A l, m \in task[t].held : l = m
        /\ Bucket \/ task[t].held \subseteq store
    BY <2>1 DEF IInv, HeldJudged, GateProtects, Deleting
  <2>4. Remove(task[t].held, task[t].actor) /\ UNCHANGED <<told, clock>>
    BY <1>5 DEF Discard, Release
  <2>5. QED
    BY <2>2, <2>3, <2>4, RemoveIsEnd
<1>6. ASSUME NEW d \in lateDeletes, LateDelete(d)
      PROVE  [Arbiter!Next]_(Arbiter!vars)
  <2>1. Bucket
    BY DEF IInv, GateProtects
  <2>2. d.held \in SUBSET Lock /\ d.by \in Actors
    BY <1>0 DEF TypeOK, Delete
  <2>3. /\ d.held \subseteq Issued /\ \A l \in d.held : Entitled(l, d.by)
        /\ \A l, m \in d.held : l = m
    BY DEF IInv, HeldJudged
  <2>4. Remove(d.held, d.by) /\ UNCHANGED <<told, clock>>
    BY <1>6 DEF LateDelete
  <2>5. QED
    BY <2>1, <2>2, <2>3, <2>4, RemoveIsEnd
<1>7. ASSUME NEW t \in Tasks, Answer(t)
      PROVE  [Arbiter!Next]_(Arbiter!vars)
  <2>1. /\ task[t].held \subseteq Issued
        /\ \A l, m \in task[t].held : l = m
        /\ told' = told \cup task[t].held
        /\ UNCHANGED <<store, ended, clock>>
    BY <1>7 DEF IInv, HeldJudged, Answer
  <2>2. CASE task[t].held = {}
    BY <1>1, <2>1, <2>2
  <2>3. CASE task[t].held # {}
    <3>1. PICK l \in task[t].held : TRUE
      BY <2>3
    <3>2. told' = told \cup {l} /\ l \in store \cup {e.lock : e \in ended}
      BY <2>1, <3>1 DEF Issued, EndedLocks
    <3>3. Arbiter!Tell(l) /\ l \in told'
      BY <2>1, <3>2 DEF Arbiter!Tell
    <3>4. QED
      BY <3>3 DEF Arbiter!Next
  <2>4. QED
    BY <2>2, <2>3
<1>8. CASE Tick
  BY <1>8 DEF Tick, History, Arbiter!Next, Arbiter!Tick
<1>9. ASSUME NEW t \in Tasks,
             \/ Enter(t) \/ Get(t) \/ Count(t) \/ TakeRefused(t)
             \/ ReadHolder(t) \/ ReadOwner(t) \/ Fail(t) \/ Abandon(t)
      PROVE  [Arbiter!Next]_(Arbiter!vars)
  BY <1>1, <1>9 DEF Enter, Get, Count, TakeRefused, ReadHolder, ReadOwner, Fail,
     Abandon, History
<1>10. ASSUME NEW t \in Tasks, NEW r \in Replicas, NEW op \in {"create", "unlock"},
              NEW a \in Actors, NEW p \in Paths, NEW f \in BOOLEAN,
              Begin(t, r, op, a, p, f)
       PROVE  [Arbiter!Next]_(Arbiter!vars)
  BY <1>1, <1>10 DEF Begin, History
<1>11. CASE UNCHANGED vars
  BY <1>1, <1>11 DEF vars
<1>12. QED
  BY <1>3, <1>4, <1>5, <1>6, <1>7, <1>8, <1>9, <1>10, <1>11 DEF Next, Serve

\* However many replicas and requests there are, whatever each of them does,
\* the locks in force are handed out and taken back as LockArbiter says.
THEOREM StoreImplementsArbiter ==
  ASSUME Arbitrated
  PROVE  Spec => ArbiterSpec
<1>1. Init => Arbiter!Init
  BY DEF Init, Arbiter!Init
<1>2. IInv /\ [Next]_vars => [Arbiter!Next]_(Arbiter!vars)
  BY StepRefines
<1>3. QED
  BY <1>1, <1>2, Invariance, PTL DEF Spec, ArbiterSpec, Arbiter!Spec

-----------------------------------------------------------------------------
(* CapacityOvershoot.                                                      *)

\* Creates that are past the count, or had no need of it.
PastOf(requests) ==
  {t \in Tasks : requests[t].pc \in {"take", "read", "discard", "retake"}}

Past == PastOf(task)

\* The paths that are locked, and those that may come to be without another
\* count.
LockedPaths == {l.path : l \in store}

Reached == LockedPaths \cup {task[t].path : t \in Past}

Gates == {<<r, GateOf[p]>> : r \in Replicas, p \in Paths}

\* The ceiling was met when the last create counted, and those already past the
\* count were in gates of their own.
Crowd ==
  /\ latePuts = {}
  /\ IsFiniteSet(Reached)
  /\ Cardinality(Reached) < Capacity + Cardinality(Gates)
  /\ Cardinality(Reached) < Capacity + Cardinality(Tasks)

CapacityInv ==
  /\ TypeOK
  /\ KeyUnique
  /\ GatesExclusive
  /\ Capacity > 0 /\ ~Disconnects => Crowd

LEMMA Finite ==
  /\ IsFiniteSet(Gates) /\ Cardinality(Gates) \in Nat
  /\ Cardinality(Tasks) \in Nat /\ Capacity \in Nat
<1>1. Gates \subseteq Replicas \X Slots
  BY ConstantsOK DEF Gates
<1>2. IsFiniteSet(Replicas \X Slots)
  BY ConstantsOK, FS_Product
<1>3. IsFiniteSet(Gates)
  BY <1>1, <1>2, FS_Subset
<1>4. QED BY <1>3, ConstantsOK, FS_CardinalityType

\* The requests inside a gate are no more than there are gates.
LEMMA PastGates ==
  ASSUME NEW f \in [Tasks -> Request \cup {Idle}],
         \A t, u \in PastOf(f) :
           t # u => f[t].replica # f[u].replica \/ GateOf[f[t].path] # GateOf[f[u].path]
  PROVE  /\ IsFiniteSet(PastOf(f))
         /\ Cardinality(PastOf(f)) <= Cardinality(Gates)
         /\ Cardinality(PastOf(f)) <= Cardinality(Tasks)
<1>1. IsFiniteSet(PastOf(f)) /\ Cardinality(PastOf(f)) <= Cardinality(Tasks)
  <2>1. PastOf(f) \in SUBSET Tasks
    BY DEF PastOf
  <2>2. QED BY <2>1, ConstantsOK, FS_Subset
<1>2. \A t \in PastOf(f) : f[t].replica \in Replicas /\ f[t].path \in Paths
  <2> SUFFICES ASSUME NEW t \in PastOf(f)
               PROVE  f[t].replica \in Replicas /\ f[t].path \in Paths
    OBVIOUS
  <2>1. f[t] \in Request \cup {Idle} /\ f[t].pc # "idle"
    BY DEF PastOf
  <2>2. QED BY <2>1 DEF Idle, Request
<1> DEFINE gate == [t \in PastOf(f) |-> <<f[t].replica, GateOf[f[t].path]>>]
<1>3. gate \in Injection(PastOf(f), Gates)
  <2>1. gate \in [PastOf(f) -> Gates]
    BY <1>2 DEF Gates
  <2>2. ASSUME NEW t \in PastOf(f), NEW u \in PastOf(f), gate[t] = gate[u] PROVE t = u
    <3>1. f[t].replica = f[u].replica /\ GateOf[f[t].path] = GateOf[f[u].path]
      BY <2>2
    <3>2. QED BY <3>1
  <2>3. QED BY <2>1, <2>2 DEF Injection, IsInjective
<1>4. Cardinality(PastOf(f)) <= Cardinality(Gates)
  BY <1>3, Finite, FS_Injection
<1>5. QED BY <1>1, <1>4

\* One lock per path: counting paths is counting locks.
LEMMA LocksAreFew ==
  ASSUME KeyUnique, IsFiniteSet(Reached)
  PROVE  IsFiniteSet(store) /\ Cardinality(store) <= Cardinality(Reached)
<1> DEFINE path == [l \in store |-> l.path]
<1>1. path \in Injection(store, Reached)
  BY DEF Injection, IsInjective, KeyUnique, Reached, LockedPaths
<1>2. QED BY <1>1, FS_Injection

\* Between counts nothing new is reached.
LEMMA NothingNew ==
  ASSUME Crowd, Reached' \subseteq Reached, latePuts' = {}
  PROVE  Crowd'
<1>1. IsFiniteSet(Reached') /\ Cardinality(Reached') <= Cardinality(Reached)
  BY FS_Subset DEF Crowd
<1>2. Cardinality(Reached) \in Nat /\ Cardinality(Reached') \in Nat
  BY <1>1, FS_CardinalityType DEF Crowd
<1>3. Cardinality(Reached') < Capacity + Cardinality(Gates)
      /\ Cardinality(Reached') < Capacity + Cardinality(Tasks)
  BY <1>1, <1>2, Finite DEF Crowd
<1>4. Gates' = Gates
  BY DEF Gates
<1>5. QED BY <1>1, <1>3, <1>4 DEF Crowd

\* A count that lets a create past leaves room for those that are.
LEMMA CountLeavesRoom ==
  ASSUME TypeOK', GatesExclusive', KeyUnique, Crowd, Capacity > 0,
         Cardinality(store) < Capacity, store' = store, latePuts' = {}
  PROVE  Crowd'
<1>1. IsFiniteSet(store) /\ Cardinality(store) \in Nat
  BY LocksAreFew, FS_CardinalityType DEF Crowd
<1>2. /\ IsFiniteSet(LockedPaths)
      /\ Cardinality(LockedPaths) <= Cardinality(store)
      /\ Cardinality(LockedPaths) \in Nat
  <2> DEFINE path == [l \in store |-> l.path]
  <2>1. path \in Surjection(store, LockedPaths)
    BY DEF Surjection, LockedPaths
  <2>2. QED BY <1>1, <2>1, FS_Surjection, FS_CardinalityType
<1>3. /\ IsFiniteSet(PastOf(task'))
      /\ Cardinality(PastOf(task')) <= Cardinality(Gates)
      /\ Cardinality(PastOf(task')) <= Cardinality(Tasks)
  <2>1. task' \in [Tasks -> Request \cup {Idle}]
    BY DEF TypeOK
  <2>2. \A t, u \in PastOf(task') :
          t # u => \/ task'[t].replica # task'[u].replica
                   \/ GateOf[task'[t].path] # GateOf[task'[u].path]
    BY DEF GatesExclusive, Inside, PastOf
  <2>3. QED BY <2>1, <2>2, PastGates
<1> DEFINE paths == {task'[t].path : t \in PastOf(task')}
<1>4. IsFiniteSet(paths) /\ Cardinality(paths) <= Cardinality(PastOf(task'))
  <2> DEFINE path == [t \in PastOf(task') |-> task'[t].path]
  <2>1. path \in Surjection(PastOf(task'), paths)
    BY DEF Surjection
  <2>2. QED BY <1>3, <2>1, FS_Surjection
<1>5. Reached' = LockedPaths \cup paths
  BY DEF Reached, LockedPaths, Past
<1>6. /\ IsFiniteSet(LockedPaths \cup paths)
      /\ Cardinality(LockedPaths \cup paths) <= Cardinality(LockedPaths) + Cardinality(paths)
      /\ Cardinality(LockedPaths \cup paths) \in Nat
  <2>1. /\ IsFiniteSet(LockedPaths \cup paths)
        /\ Cardinality(LockedPaths \cup paths) = Cardinality(LockedPaths) + Cardinality(paths)
             - Cardinality(LockedPaths \cap paths)
    BY <1>2, <1>4, FS_Union
  <2>2. IsFiniteSet(LockedPaths \cap paths)
    BY <1>2, FS_Intersection
  <2>3. /\ Cardinality(LockedPaths \cap paths) \in Nat /\ Cardinality(paths) \in Nat
        /\ Cardinality(LockedPaths \cup paths) \in Nat
    BY <1>4, <2>1, <2>2, FS_CardinalityType
  <2> HIDE DEF paths
  <2>4. QED BY <1>2, <2>1, <2>3
<1>7. Cardinality(paths) \in Nat /\ Cardinality(PastOf(task')) \in Nat
  BY <1>3, <1>4, FS_CardinalityType
<1> HIDE DEF paths
<1>8. /\ Cardinality(LockedPaths \cup paths) < Capacity + Cardinality(Gates)
      /\ Cardinality(LockedPaths \cup paths) < Capacity + Cardinality(Tasks)
  BY <1>1, <1>2, <1>3, <1>4, <1>6, <1>7, Finite
<1>9. Gates' = Gates
  BY DEF Gates
<1>10. QED BY <1>5, <1>6, <1>8, <1>9 DEF Crowd

\* A step of one request: it stays in its gate or finds it free.
LEMMA GatesStay ==
  ASSUME GatesExclusive, NEW t \in Tasks, \A u \in Tasks \ {t} : task'[u] = task[u],
         Inside(t)' => /\ Inside(t) \/ GateFree(t)
                       /\ task'[t].replica = task[t].replica
                       /\ task'[t].path = task[t].path
  PROVE  GatesExclusive'
BY DEF GatesExclusive, Inside, GateFree

\* A step of one request that makes no path come to be which was not reached.
LEMMA ReachedStays ==
  ASSUME NEW t \in Tasks, \A u \in Tasks \ {t} : task'[u] = task[u],
         \A l \in store' : l.path \in Reached,
         task'[t].pc \in {"take", "read", "discard", "retake"} => task'[t].path \in Reached
  PROVE  Reached' \subseteq Reached
BY DEF Reached, LockedPaths, Past, PastOf

\* What a request has and where it is.
LEMMA RequestParts ==
  ASSUME TypeOK, NEW t \in Tasks, task[t].pc # "idle"
  PROVE  task[t] \in Request /\ task \in [Tasks -> Request \cup {Idle}]
BY RequestType DEF TypeOK

LEMMA ServeCapacity ==
  ASSUME CapacityInv, TypeOK', NEW t \in Tasks, Serve(t) \/ Fail(t) \/ Abandon(t)
  PROVE  CapacityInv'
<1> USE DEF CapacityInv
<1>1. task[t] \in Request /\ task \in [Tasks -> Request \cup {Idle}]
  <2>1. task[t].pc # "idle"
    BY DEF Serve, Get, Count, Take, TakeRefused, ReadHolder, ReadOwner, Discard, Release,
           Answer, Fail, Abandon
  <2>2. QED BY <2>1, RequestParts
<1>2. \A u \in Tasks \ {t} : task'[u] = task[u]
  BY <1>1
    DEF Serve, Get, Count, Take, TakeRefused, ReadHolder, ReadOwner, Discard, Release,
              Answer, Fail, Abandon, Finish, Goto
<1>3. /\ task'[t].pc # "idle" => /\ task'[t].replica = task[t].replica
                                 /\ task'[t].path = task[t].path
                                 /\ task[t].pc \notin {"idle", "gate"}
      /\ task'[t].pc \in {"take", "read", "discard", "retake"}
           => \/ task[t].pc \in {"take", "read", "discard", "retake"}
              \/ Get(t) /\ ~Absent(task[t].path)
              \/ Count(t) /\ ~(Cardinality(store) >= Capacity)
  <2>1. CASE Get(t)
    BY <1>1, <2>1 DEF Get, Goto, Request
  <2>2. CASE Count(t)
    <3>1. CASE Cardinality(store) >= Capacity
      BY <1>1, <2>2, <3>1 DEF Count, Finish, Idle
    <3>2. CASE ~(Cardinality(store) >= Capacity)
      BY <1>1, <2>2, <3>2 DEF Count, Goto, Request
    <3>3. QED BY <3>1, <3>2
  <2>3. CASE Take(t)
    BY <1>1, <2>3 DEF Take, Request
  <2>4. CASE TakeRefused(t)
    BY <1>1, <2>4 DEF TakeRefused, Goto, Finish, Idle, Request
  <2>5. CASE ReadHolder(t)
    BY <1>1, <2>5 DEF ReadHolder, Finish, Idle, Request
  <2>6. CASE ReadOwner(t)
    BY <1>1, <2>6 DEF ReadOwner, Finish, Idle, Request
  <2>7. CASE Discard(t)
    BY <1>1, <2>7 DEF Discard, Request
  <2>8. CASE Release(t) \/ Answer(t) \/ Fail(t) \/ Abandon(t)
    BY <1>1, <2>8 DEF Release, Answer, Fail, Abandon, Finish, Idle
  <2>9. QED BY <2>1, <2>2, <2>3, <2>4, <2>5, <2>6, <2>7, <2>8 DEF Serve
<1>4. GatesExclusive'
  BY <1>2, <1>3, GatesStay DEF Inside
<1>5. store' \subseteq store \/ (Take(t) /\ store' = store \cup {Draft(t)})
  BY DEF Serve, Get, Count, Take, TakeRefused, ReadHolder, ReadOwner, Discard, Release,
         Answer, Fail, Abandon, Remove
<1>6. KeyUnique'
  <2>1. CASE store' \subseteq store
    BY <2>1 DEF KeyUnique
  <2>2. CASE Take(t) /\ store' = store \cup {Draft(t)}
    BY <2>2 DEF KeyUnique, Take, Absent, At, Draft
  <2>3. QED BY <1>5, <2>1, <2>2
<1>7. ASSUME Capacity > 0, ~Disconnects PROVE Crowd'
  <2>1. latePuts' = {}
    BY <1>7
      DEF Crowd, Serve, Get, Count, Take, TakeRefused, ReadHolder, ReadOwner, Discard,
                Release, Answer, Fail, Abandon, Late
  <2>2. CASE Count(t) /\ ~(Cardinality(store) >= Capacity)
    <3>1. Crowd
      BY <1>7
    <3>2. Cardinality(store) \in Nat
      BY <3>1, LocksAreFew, FS_CardinalityType DEF Crowd
    <3>3. Cardinality(store) < Capacity
      BY <2>2, <3>2, Finite
    <3>4. QED BY <1>4, <1>7, <2>1, <2>2, <3>1, <3>3, CountLeavesRoom DEF Count
  <2>3. CASE ~(Count(t) /\ ~(Cardinality(store) >= Capacity))
    <3>1. \A l \in store : l.path \in Reached
      BY DEF Reached, LockedPaths
    <3>2. task[t].pc \in {"take", "read", "discard", "retake"} => task[t].path \in Reached
      BY DEF Reached, Past, PastOf
    <3>3. Get(t) /\ ~Absent(task[t].path) => task[t].path \in Reached
      BY DEF Absent, At, Reached, LockedPaths
    <3>4. \A l \in store' : l.path \in Reached
      BY <1>5, <3>1, <3>2 DEF Take, Draft
    <3>5. Reached' \subseteq Reached
      BY <1>2, <1>3, <2>3, <3>2, <3>3, <3>4, ReachedStays
    <3>6. QED BY <1>7, <2>1, <3>5, NothingNew
  <2>4. QED BY <2>2, <2>3
<1>8. QED BY <1>4, <1>6, <1>7

\* Requests that come or wait reach nothing yet.
LEMMA WaitCapacity ==
  ASSUME CapacityInv, TypeOK', NEW t \in Tasks,
         Enter(t) \/ \E r \in Replicas, op \in {"create", "unlock"}, a \in Actors,
                       p \in Paths, f \in BOOLEAN : Begin(t, r, op, a, p, f)
  PROVE  CapacityInv'
<1> USE DEF CapacityInv
<1>1. task \in [Tasks -> Request \cup {Idle}]
  BY DEF TypeOK
<1>2. /\ \A u \in Tasks \ {t} : task'[u] = task[u]
      /\ store' = store /\ latePuts' = latePuts
  BY <1>1 DEF Enter, Begin, Late
<1>3. /\ task'[t].pc \notin {"take", "read", "discard", "retake"}
      /\ Inside(t)' => /\ GateFree(t)
                       /\ task'[t].replica = task[t].replica
                       /\ task'[t].path = task[t].path
  <2>1. CASE Enter(t)
    <3>1. task[t] \in Request
      BY <2>1, RequestParts DEF Enter
    <3>2. QED BY <1>1, <2>1, <3>1 DEF Enter, Inside, Request
  <2>2. CASE \E r \in Replicas, op \in {"create", "unlock"}, a \in Actors, p \in Paths,
                f \in BOOLEAN : Begin(t, r, op, a, p, f)
    BY <1>1, <2>2 DEF Begin, Inside
  <2>3. QED BY <2>1, <2>2
<1>4. GatesExclusive'
  BY <1>2, <1>3, GatesStay
<1>5. Reached' \subseteq Reached
  <2>1. \A l \in store' : l.path \in Reached
    BY <1>2 DEF Reached, LockedPaths
  <2>2. QED BY <1>2, <1>3, <2>1, ReachedStays
<1>6. KeyUnique'
  BY <1>2 DEF KeyUnique
<1>7. ASSUME Capacity > 0, ~Disconnects PROVE Crowd'
  BY <1>2, <1>5, <1>7, NothingNew DEF Crowd
<1>8. QED BY <1>4, <1>6, <1>7

\* Calls that land late, and time.
LEMMA LateCapacity ==
  ASSUME CapacityInv, TypeOK',
         \/ \E d \in latePuts : LatePut(d)
         \/ \E d \in lateDeletes : LateDelete(d)
         \/ Tick
         \/ UNCHANGED vars
  PROVE  CapacityInv'
<1> USE DEF CapacityInv
<1>1. task' = task
  BY DEF LatePut, LateDelete, Tick, vars
<1>2. GatesExclusive'
  BY <1>1 DEF GatesExclusive, Inside
<1>3. KeyUnique'
  <2>1. CASE \E d \in latePuts : LatePut(d)
    BY <2>1 DEF LatePut, KeyUnique, Absent, At
  <2>2. CASE store' \subseteq store
    BY <2>2 DEF KeyUnique
  <2>3. QED BY <2>1, <2>2 DEF LateDelete, Remove, Tick, vars
<1>4. ASSUME Capacity > 0, ~Disconnects PROVE Crowd'
  <2>1. latePuts = {}
    BY <1>4 DEF Crowd
  <2>2. store' \subseteq store /\ latePuts' = {}
    BY <2>1 DEF LateDelete, Remove, Tick, vars, Late
  <2>3. Reached' \subseteq Reached
    BY <1>1, <2>2 DEF Reached, LockedPaths, Past, PastOf
  <2>4. QED BY <1>4, <2>2, <2>3, NothingNew
<1>5. QED BY <1>2, <1>3, <1>4

\* With no lock and no request there is room under any ceiling.
LEMMA CapacityInit == Init => CapacityInv
<1> SUFFICES ASSUME Init PROVE CapacityInv
  OBVIOUS
<1>1. TypeOK /\ KeyUnique /\ GatesExclusive
  BY InitInvariant DEF IInv
<1>2. ASSUME Capacity > 0 PROVE Crowd
  <2>1. Reached = {} /\ latePuts = {}
    BY DEF Init, Reached, LockedPaths, Past, PastOf, Idle
  <2>2. IsFiniteSet({}) /\ Cardinality({}) = 0
    BY FS_EmptySet
  <2>3. QED BY <1>2, <2>1, <2>2, Finite DEF Crowd
<1>3. QED BY <1>1, <1>2 DEF CapacityInv

\* Creates that race each other exceed the ceiling on locks by less than there
\* are gates to race from and requests to race, for any number of each, any
\* paths and any replicas, in a bucket as on a volume (locks.rs 185-200).
THEOREM OvershootBounded == Spec => []CapacityOvershoot
<1>1. CapacityInv /\ [Next]_vars => CapacityInv'
  <2> SUFFICES ASSUME CapacityInv, [Next]_vars PROVE CapacityInv'
    OBVIOUS
  <2>1. TypeOK'
    BY TypeStep DEF CapacityInv
  <2>2. QED BY <2>1, ServeCapacity, WaitCapacity, LateCapacity DEF Next
<1>2. CapacityInv => CapacityOvershoot
  <2> SUFFICES ASSUME CapacityInv, Capacity > 0, ~Disconnects
               PROVE  /\ Cardinality(store) < Capacity + Cardinality(Gates)
                      /\ Cardinality(store) < Capacity + Cardinality(Tasks)
    BY DEF CapacityOvershoot, Gates
  <2>1. Crowd /\ KeyUnique
    BY DEF CapacityInv
  <2>2. IsFiniteSet(store) /\ Cardinality(store) <= Cardinality(Reached)
    BY <2>1, LocksAreFew DEF Crowd
  <2>3. Cardinality(store) \in Nat /\ Cardinality(Reached) \in Nat
    BY <2>1, <2>2, FS_CardinalityType DEF Crowd
  <2>4. QED BY <2>1, <2>2, <2>3, Finite DEF Crowd
<1>3. QED BY <1>1, <1>2, CapacityInit, PTL DEF Spec
=============================================================================
