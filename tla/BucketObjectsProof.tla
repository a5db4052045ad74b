------------------------- MODULE BucketObjectsProof -------------------------
(***************************************************************************)
(* Proofs about BucketObjects for every set of repositories, objects and   *)
(* tasks, indexed or not, with any grace period, while nobody pushes what  *)
(* a sweep of the same repository may be dropping (~Contested).            *)
(*                                                                         *)
(* The argument: a push writes its ref before anything else, and a sweep   *)
(* asks the index last.  So whoever claims bytes that are about to go is   *)
(* either in the index, and then the sweep stops, or wrote its ref after   *)
(* the question (EraseKnows).  What makes the answer worth having is that  *)
(* the index misses no marker, also while it is being built (IndexCovers,  *)
(* BacklogCovers, ElsewhereCovers).                                        *)
(*                                                                         *)
(* It ends with the bucket implementing ObjectStore: every request to it   *)
(* is a step of that store, or one that nobody who reads can tell.         *)
(***************************************************************************)
EXTENDS BucketObjects, TLAPS

\* A task that is not idle is a request.
LEMMA RequestType ==
  ASSUME TypeOK, NEW t \in Tasks, task[t].pc # "idle"
  PROVE  task[t] \in Request
<1>1. task[t] \in Request \cup {Idle}
  BY DEF TypeOK
<1>2. task[t] # Idle
  BY DEF Idle
<1>3. QED
  BY <1>1, <1>2

\* The claim a request is about.
LEMMA TargetType ==
  ASSUME TypeOK, NEW t \in Tasks, task[t].pc # "idle"
  PROVE  Target(t) \in Claim
BY RequestType DEF Target, Claim, Request

\* What a request may turn into leaves the table of requests well-typed.
LEMMA TableType ==
  ASSUME TypeOK, NEW t \in Tasks, NEW q \in Request \cup {Idle},
         task' = [task EXCEPT ![t] = q]
  PROVE  task' \in [Tasks -> Request \cup {Idle}]
BY DEF TypeOK

\* A request that moves on to another step is a request.
LEMMA GotoType ==
  ASSUME TypeOK, NEW t \in Tasks, task[t].pc # "idle", NEW pc \in Steps, Goto(t, pc)
  PROVE  task' \in [Tasks -> Request \cup {Idle}]
<1>1. [task[t] EXCEPT !.pc = pc] \in Request
  BY RequestType DEF Request
<1>2. QED
  BY <1>1 DEF Goto, TypeOK

\* A request that ends leaves the table well-typed.
LEMMA FinishType ==
  ASSUME TypeOK, NEW t \in Tasks, Finish(t)
  PROVE  task' \in [Tasks -> Request \cup {Idle}]
BY DEF TypeOK, Finish

\* A key written now.
LEMMA EntryType ==
  ASSUME TypeOK, NEW t \in Tasks, task[t].pc # "idle", NEW at \in Nat
  PROVE  [repo |-> task[t].repo, oid |-> task[t].oid, at |-> at] \in Entry
BY RequestType DEF Request, Entry

\* Every step of every request keeps the types.
LEMMA TypeStep == TypeOK /\ [Next]_vars => TypeOK'
<1> SUFFICES ASSUME TypeOK, [Next]_vars PROVE TypeOK'
  OBVIOUS
<1> USE ConstantsOK
<1>1. ASSUME NEW t \in Tasks, NEW op \in {"store", "adopt"}, NEW r \in Repos,
             NEW o \in Oids, BeginPush(t, op, r, o)
      PROVE  TypeOK'
  <2>1. Blank(t, "batch", op, r, o) \in Request
    BY DEF Blank, Request, Steps
  <2>2. QED
    BY <1>1, <2>1, TableType DEF BeginPush, TypeOK, Bucket, History
<1>2. ASSUME NEW t \in Tasks, Batch(t) \/ Verify(t) \/ Arrived(t) \/ HeadContent(t)
      PROVE  TypeOK'
  <2>1. task' \in [Tasks -> Request \cup {Idle}]
    <3>1. task[t].pc # "idle"
      BY <1>2 DEF Batch, Verify, Arrived, HeadContent
    <3>2. \/ Finish(t)
          \/ \E pc \in Steps : Goto(t, pc)
      BY <1>2 DEF Batch, Verify, Arrived, HeadContent, Steps
    <3>3. QED
      BY <3>1, <3>2, GotoType, FinishType
  <2>2. QED
    BY <1>2, <2>1 DEF Batch, Verify, Arrived, HeadContent, TypeOK, Bucket, History
<1>3. ASSUME NEW t \in Tasks, Upload(t)
      PROVE  TypeOK'
  <2>1. task' \in [Tasks -> Request \cup {Idle}]
    BY <1>3, GotoType DEF Upload, Steps
  <2>2. incoming' \in SUBSET Entry
    BY <1>3, EntryType DEF Upload, TypeOK, Without
  <2>3. QED
    BY <1>3, <2>1, <2>2 DEF Upload, TypeOK, History
<1>4. ASSUME NEW t \in Tasks, WriteRef(t)
      PROVE  TypeOK'
  <2>1. Target(t) \in Claim /\ task[t] \in Request
    BY <1>4, TargetType, RequestType DEF WriteRef
  <2>2. ASSUME NEW u \in Tasks PROVE task'[u] \in Request \cup {Idle}
    <3>1. CASE u = t
      BY <1>4, <2>1, <3>1 DEF WriteRef, Request, Steps
    <3>2. CASE u # t /\ task[u].pc = "erase" /\ task[u].oid = task[t].oid
      <4>1. task[u] \in Request
        BY <3>2, RequestType
      <4>2. [task[u] EXCEPT !.since = @ \cup {task[t].repo}] \in Request
        BY <2>1, <4>1 DEF Request
      <4>3. QED
        BY <1>4, <3>2, <4>2 DEF WriteRef
    <3>3. CASE u # t /\ ~(task[u].pc = "erase" /\ task[u].oid = task[t].oid)
      BY <1>4, <3>3 DEF WriteRef, TypeOK
    <3>4. QED
      BY <3>1, <3>2, <3>3
  <2>3. task' \in [Tasks -> Request \cup {Idle}]
    BY <1>4, <2>2 DEF WriteRef
  <2>4. QED
    BY <1>4, <2>1, <2>3 DEF WriteRef, TypeOK, History
<1>5. ASSUME NEW t \in Tasks, PutContent(t)
      PROVE  TypeOK'
  <2>1. task' \in [Tasks -> Request \cup {Idle}] /\ task[t] \in Request
    BY <1>5, GotoType, RequestType DEF PutContent, Steps
  <2>2. task[t].oid \in Oids
    BY <2>1 DEF Request
  <2>3. QED
    BY <1>5, <2>1, <2>2 DEF PutContent, TypeOK
<1>6. ASSUME NEW t \in Tasks, Mark(t)
      PROVE  TypeOK'
  <2>1. task[t] \in Request /\ clock \in Nat
    BY <1>6, RequestType DEF Mark, TypeOK
  <2>2. [task[t] EXCEPT !.at = clock,
           !.pc = IF task[t].op = "adopt" THEN "tidy" ELSE "answer"] \in Request
    BY <2>1 DEF Request, Steps
  <2>3. task' \in [Tasks -> Request \cup {Idle}]
    BY <1>6, <2>2 DEF Mark, TypeOK
  <2>4. markers' \in SUBSET Entry
    BY <1>6, <2>1, EntryType DEF Mark, TypeOK, Without
  <2>5. QED
    BY <1>6, <2>3, <2>4 DEF Mark, TypeOK, History
<1>7. ASSUME NEW t \in Tasks, Tidy(t)
      PROVE  TypeOK'
  <2>1. task' \in [Tasks -> Request \cup {Idle}]
    BY <1>7, GotoType DEF Tidy, Steps
  <2>2. incoming' \in SUBSET Entry
    BY <1>7 DEF Tidy, TypeOK, Without
  <2>3. QED
    BY <1>7, <2>1, <2>2 DEF Tidy, TypeOK, History
<1>8. ASSUME NEW t \in Tasks, Answer(t)
      PROVE  TypeOK'
  <2>1. task[t] \in Request
    BY <1>8, RequestType DEF Answer
  <2>2. task[t].at \in Nat
    BY <2>1 DEF Request
  <2>3. told' \in SUBSET Entry
    BY <1>8, <2>2, EntryType DEF Answer, TypeOK, Without
  <2>4. QED
    BY <1>8, <2>3, FinishType DEF Answer, TypeOK, Bucket
<1>9. ASSUME NEW t \in Tasks, NEW r \in Repos, NEW keep \in SUBSET Oids,
             BeginSweep(t, r, keep)
      PROVE  TypeOK'
  <2> DEFINE o == CHOOSE x \in Oids : TRUE
  <2>1. o \in Oids
    OBVIOUS
  <2>2. [Blank(t, "ready", "sweep", r, o) EXCEPT !.keep = keep] \in Request
    BY <2>1 DEF Blank, Request, Steps
  <2>3. QED
    BY <1>9, <2>2, TableType DEF BeginSweep, TypeOK, Bucket, History
<1>10. ASSUME NEW t \in Tasks, NEW whole \in BOOLEAN, Ready(t, whole)
      PROVE  TypeOK'
  <2>1. task[t] \in Request
    BY <1>10, RequestType DEF Ready
  <2>2. [task[t] EXCEPT !.pc = "list", !.whole = whole,
           !.pages = IF whole THEN Repos ELSE {task[t].repo}] \in Request
    BY <2>1 DEF Request, Steps
  <2>3. QED
    BY <1>10, <2>2 DEF Ready, TypeOK, Bucket, History
<1>11. ASSUME NEW t \in Tasks, NEW r \in Repos, List(t, r)
      PROVE  TypeOK'
  <2>1. task[t] \in Request
    BY <1>11, RequestType DEF List
  <2> DEFINE page == {m \in markers : m.repo = r}
             pc   == IF task[t].pages \ {r} = {}
                       THEN IF task[t].whole THEN "backfill" ELSE "judge"
                       ELSE "list"
             todo == IF r = task[t].repo THEN page ELSE task[t].todo
             backlog == IF task[t].whole THEN task[t].backlog \cup Claims(page)
                                         ELSE task[t].backlog
             elsewhere == IF r # task[t].repo
                            THEN task[t].elsewhere \cup {m.oid : m \in page}
                            ELSE task[t].elsewhere
  <2>2. /\ task[t].pages \ {r} \in SUBSET Repos /\ pc \in Steps
        /\ todo \in SUBSET Entry /\ elsewhere \in SUBSET Oids
    BY <2>1 DEF Request, Steps, TypeOK, Entry
  <2>3. backlog \in SUBSET Claim
    BY <2>1 DEF Request, TypeOK, Entry, Claims, ClaimOf, Claim
  <2> HIDE DEF pc, todo, backlog, elsewhere
  <2>4. [task[t] EXCEPT !.pages = task[t].pages \ {r}, !.pc = pc, !.todo = todo,
           !.backlog = backlog, !.elsewhere = elsewhere] \in Request
    BY <2>1, <2>2, <2>3 DEF Request
  <2>5. task' = [task EXCEPT ![t] =
           [task[t] EXCEPT !.pages = task[t].pages \ {r}, !.pc = pc, !.todo = todo,
              !.backlog = backlog, !.elsewhere = elsewhere]]
    BY <1>11, <2>1 DEF List, pc, todo, backlog, elsewhere, TypeOK, Request
  <2>6. task' \in [Tasks -> Request \cup {Idle}]
    BY <2>4, <2>5, TableType
  <2>7. QED
    BY <1>11, <2>6 DEF List, TypeOK, Bucket, History
<1>12. ASSUME NEW t \in Tasks, NEW c \in Claim, Backfill(t, c)
      PROVE  TypeOK'
  <2>1. task[t] \in Request
    BY <1>12, RequestType DEF Backfill
  <2>2. [task[t] EXCEPT !.backlog = @ \ {c}] \in Request
    BY <2>1 DEF Request
  <2>3. QED
    BY <1>12, <2>2 DEF Backfill, TypeOK, History
<1>13. ASSUME NEW t \in Tasks, Complete(t)
      PROVE  TypeOK'
  BY <1>13, GotoType DEF Complete, TypeOK, Steps, History
<1>14. ASSUME NEW t \in Tasks, BackfillFails(t) \/ Judge(t)
      PROVE  TypeOK'
  <2>1. task[t] \in Request
    BY <1>14, RequestType DEF BackfillFails, Judge
  <2>2. [task[t] EXCEPT !.pc = "judge", !.backlog = {}] \in Request
    BY <2>1 DEF Request, Steps
  <2> DEFINE todo == {m \in task[t].todo : Droppable(m, task[t].keep)}
  <2>3. ASSUME BackfillFails(t) PROVE task' \in [Tasks -> Request \cup {Idle}]
    BY <2>1, <2>2, <2>3 DEF BackfillFails, TypeOK
  <2>4. ASSUME Judge(t) PROVE task' \in [Tasks -> Request \cup {Idle}]
    <3>1. todo \in SUBSET Entry
      BY <2>1 DEF Request
    <3>2. task' = [task EXCEPT ![t] =
             [task[t] EXCEPT !.pc = "next", !.todo = todo, !.keep = {}]]
      BY <2>1, <2>4 DEF Judge, TypeOK
    <3> HIDE DEF todo
    <3>3. [task[t] EXCEPT !.pc = "next", !.todo = todo, !.keep = {}] \in Request
      BY <2>1, <3>1 DEF Request, Steps
    <3>4. QED
      BY <3>2, <3>3, TableType
  <2>5. task' \in [Tasks -> Request \cup {Idle}]
    BY <1>14, <2>3, <2>4
  <2>6. QED
    BY <1>14, <2>5 DEF BackfillFails, Judge, TypeOK, Bucket, History
<1>15. ASSUME NEW t \in Tasks, SweepDone(t) \/ Fail(t)
      PROVE  TypeOK'
  BY <1>15, FinishType DEF SweepDone, Fail, TypeOK, Bucket, History
<1>16. ASSUME NEW t \in Tasks, Sweeping(t), NEW m \in task[t].todo,
              NEW frees \in BOOLEAN, Pick(t, m, frees)
      PROVE  TypeOK'
  <2>1. task[t] \in Request
    BY <1>16, RequestType DEF Pick
  <2>2. m.oid \in Oids
    BY <1>16, <2>1 DEF Request, Entry
  <2>3. [task[t] EXCEPT !.pc = "unmark", !.oid = m.oid, !.todo = @ \ {m},
           !.frees = frees, !.since = {}] \in Request
    BY <2>1, <2>2 DEF Request, Steps
  <2>4. QED
    BY <1>16, <2>3 DEF Pick, TypeOK, Bucket, History
<1>17. ASSUME NEW t \in Tasks, Unmark(t) \/ Unref(t) \/ Ask(t)
      PROVE  TypeOK'
  <2>1. task' \in [Tasks -> Request \cup {Idle}]
    <3>1. task[t].pc # "idle"
      BY <1>17 DEF Unmark, Unref, Ask
    <3>2. \E pc \in Steps : Goto(t, pc)
      BY <1>17 DEF Unmark, Unref, Ask, Steps
    <3>3. QED
      BY <3>1, <3>2, GotoType
  <2>2. markers' \in SUBSET Entry /\ refs' \in SUBSET Claim
    BY <1>17 DEF Unmark, Unref, Ask, Without, TypeOK, Bucket
  <2>3. QED
    BY <1>17, <2>1, <2>2 DEF Unmark, Unref, Ask, TypeOK, Bucket, History
<1>18. ASSUME NEW t \in Tasks, Erase(t)
      PROVE  TypeOK'
  <2>1. task[t] \in Request
    BY <1>18, RequestType DEF Erase
  <2>2. {<<r, task[t].oid>> : r \in task[t].since} \in SUBSET Claim
    BY <2>1 DEF Request, Claim
  <2>3. orphans' \in SUBSET Claim
    BY <1>18, <2>2 DEF Erase, TypeOK
  <2>4. QED
    BY <1>18, <2>3, GotoType DEF Erase, TypeOK, Steps
<1>19. ASSUME NEW e \in incoming, Reclaim(e)
      PROVE  TypeOK'
  BY <1>19 DEF Reclaim, TypeOK, History
<1>20. CASE Tick
  BY <1>20 DEF Tick, TypeOK, Bucket, History
<1>21. CASE UNCHANGED vars
  BY <1>21 DEF vars, TypeOK
<1>22. QED
  BY <1>1, <1>2, <1>3, <1>4, <1>5, <1>6, <1>7, <1>8, <1>9, <1>10, <1>11, <1>12,
     <1>13, <1>14, <1>15, <1>16, <1>17, <1>18, <1>19, <1>20, <1>21
     DEF Next, Calm, Push, Sweep

\* The types of every variable, whatever the constants.
THEOREM TypeCorrect == Spec => []TypeOK
<1>1. Init => TypeOK
  BY DEF Init, TypeOK, Idle, Claims, ClaimOf, Claim, Entry
<1>2. QED
  BY <1>1, TypeStep, PTL DEF Spec

-----------------------------------------------------------------------------
(* Keys and claims.                                                        *)

\* Who has a key under a prefix.
LEMMA ClaimsOf ==
  ASSUME NEW S, NEW c
  PROVE  c \in Claims(S) <=> \E e \in S : ClaimOf(e) = c
BY DEF Claims

\* A key that is deleted takes its claim with it and no other.
LEMMA WithoutClaims ==
  ASSUME NEW S, NEW c
  PROVE  Claims(Without(S, c)) = Claims(S) \ {c}
BY DEF Claims, Without

\* A key that is written makes its claim, and keeps those there were.
LEMMA RenewedClaims ==
  ASSUME NEW S, NEW e
  PROVE  Claims(Without(S, ClaimOf(e)) \cup {e}) = Claims(S) \cup {ClaimOf(e)}
BY DEF Claims, Without

\* What a sweep may be about to drop.
LEMMA DroppingIs ==
  ASSUME NEW t, NEW c
  PROVE  c \in Dropping(t) <=>
           /\ Sweeping(t)
           /\ \/ \E e \in task[t].todo : e.oid \notin task[t].keep /\ ClaimOf(e) = c
              \/ Removing(t) /\ c = Target(t)
BY DEF Dropping, Removing

\* A claim of a key is a pair of a repository and an object.
LEMMA ClaimOfEntry ==
  ASSUME NEW e \in Entry
  PROVE  ClaimOf(e) \in Claim /\ ClaimOf(e)[1] = e.repo /\ ClaimOf(e)[2] = e.oid
BY DEF ClaimOf, Claim, Entry

-----------------------------------------------------------------------------
(* Steps that only move a request on.                                      *)

\* A request moves and nothing in the bucket changes.  What must be shown is
\* what the request looks like after it, and that it neither begins to claim
\* nor meets, as a push or as a sweep, one of the other kind.
LEMMA TaskStep ==
  ASSUME IInv, TypeOK', NEW t \in Tasks,
         UNCHANGED <<content, markers, refs, complete, clock, told, orphans>>,
         \A u \in Tasks \ {t} : task'[u] = task[u],
         Sound(t)',
         Claiming(t)' => Claiming(t) /\ Target(t)' = Target(t),
         Pushing(t)' => \/ Pushing(t) /\ Target(t)' = Target(t)
                        \/ \A u \in Tasks \ {t} : Target(t)' \notin Dropping(u),
         \A c \in Dropping(t)' :
           \/ c \in Dropping(t)
           \/ \A u \in Tasks \ {t} : ~(Pushing(u) /\ Target(u) = c)
  PROVE  IInv'
<1>1. ASSUME NEW u \in Tasks, u # t
      PROVE  Sound(u)'
  <2>1. task'[u] = task[u] /\ Sound(u)
    BY <1>1 DEF IInv
  <2>2. StepsMatchOp(u)' /\ SweepShape(u)'
    BY <2>1 DEF Sound, StepsMatchOp, SweepShape, Sweeping, Listed, Removing
  <2>3. ClaimsIndexed(u)' /\ Dropped(u)' /\ MarkBacked(u)'
    BY <2>1 DEF Sound, ClaimsIndexed, Claiming, Pushing, Target, Dropped, Sweeping,
                MarkBacked
  <2>4. BacklogCovers(u)' /\ ElsewhereCovers(u)' /\ FreesKnown(u)'
    BY <2>1 DEF Sound, BacklogCovers, ElsewhereCovers, FreesKnown, Sweeping, Removing
  <2>5. EraseKnows(u)'
    <3>1. \A v \in Tasks : Claiming(v)' => Claiming(v) /\ Target(v)' = Target(v)
      BY DEF Claiming, Pushing, Target
    <3>2. QED
      BY <2>1, <3>1 DEF Sound, EraseKnows, Sweeping
  <2>6. AnswerMarked(u)' /\ TodoOld(u)'
    BY <2>1 DEF Sound, AnswerMarked, TodoOld, Pushing, Sweeping, Removing, Target
  <2>7. QED
    BY <2>2, <2>3, <2>4, <2>5, <2>6 DEF Sound
<1>2. Apart'
  <2> SUFFICES ASSUME NEW v \in Tasks, NEW u \in Tasks, Pushing(v)',
                      Target(v)' \in Dropping(u)'
               PROVE  FALSE
    BY DEF Apart
  <2>1. \A w \in Tasks \ {t} : /\ Dropping(w)' = Dropping(w)
                               /\ Pushing(w)' = Pushing(w)
                               /\ Target(w)' = Target(w)
    BY DEF Dropping, Sweeping, Pushing, Target
  <2>2. Sweeping(u)' /\ u # v
    BY DroppingIs DEF Dropping, Sweeping, Pushing
  <2>3. CASE v = t
    BY <2>1, <2>2, <2>3 DEF IInv, Apart
  <2>4. CASE u = t
    BY <2>1, <2>2, <2>4 DEF IInv, Apart
  <2>5. CASE u # t /\ v # t
    BY <2>1, <2>5 DEF IInv, Apart
  <2>6. QED
    BY <2>3, <2>4, <2>5
<1>3. IndexCovers' /\ BytesKept' /\ MarksFresh' /\ ToldHeld'
  BY DEF IInv, IndexCovers, BytesKept, MarksFresh, ToldHeld
<1>4. QED
  BY <1>1, <1>2, <1>3 DEF IInv

\* A request that ends, for whatever reason.
LEMMA FinishStep ==
  ASSUME IInv, TypeOK', NEW t \in Tasks, Finish(t),
         UNCHANGED <<content, markers, refs, complete, clock, told, orphans>>
  PROVE  IInv'
<1>1. task'[t] = Idle /\ \A u \in Tasks \ {t} : task'[u] = task[u]
  BY DEF Finish, IInv, TypeOK
<1>2. ~Pushing(t)' /\ ~Sweeping(t)' /\ ~Claiming(t)' /\ task'[t].pc = "idle"
  BY <1>1 DEF Pushing, Sweeping, Claiming, Idle
<1>3. Sound(t)'
  BY <1>2 DEF Sound, StepsMatchOp, SweepShape, ClaimsIndexed, Dropped, BacklogCovers,
              ElsewhereCovers, FreesKnown, EraseKnows, MarkBacked, AnswerMarked,
              TodoOld, Removing
<1>4. Dropping(t)' = {}
  BY <1>2 DEF Dropping
<1>5. QED
  BY <1>1, <1>2, <1>3, <1>4, TaskStep

\* What a request looks like one step on.
LEMMA GotoIs ==
  ASSUME TypeOK, NEW t \in Tasks, task[t].pc # "idle", NEW pc \in Steps, Goto(t, pc)
  PROVE  /\ task'[t] = [task[t] EXCEPT !.pc = pc]
         /\ task'[t].pc = pc /\ task'[t].op = task[t].op /\ task'[t].at = task[t].at
         /\ task'[t].oid = task[t].oid /\ Target(t)' = Target(t)
         /\ \A u \in Tasks \ {t} : task'[u] = task[u]
<1>1. task[t] \in Request
  BY RequestType
<1>2. task'[t] = [task[t] EXCEPT !.pc = pc] /\ \A u \in Tasks \ {t} : task'[u] = task[u]
  BY DEF Goto, TypeOK
<1>3. QED
  BY <1>1, <1>2 DEF Request, Target

\* A push that moves on without writing anything a sweep reads.
LEMMA PushStep ==
  ASSUME IInv, TypeOK', NEW t \in Tasks, Pushing(t),
         NEW pc \in {"upload", "verify", "arrived", "ref", "put", "mark", "answer"},
         Goto(t, pc),
         UNCHANGED <<content, markers, refs, complete, clock, told, orphans>>,
         pc \in {"put", "mark"} => Claiming(t),
         pc = "mark" => task[t].oid \in content \/ Target(t) \in orphans,
         pc = "answer" => task[t].pc = "tidy"
  PROVE  IInv'
<1>1. /\ task'[t].pc = pc /\ task'[t].op = task[t].op /\ task'[t].at = task[t].at
      /\ task'[t].oid = task[t].oid /\ Target(t)' = Target(t)
      /\ \A u \in Tasks \ {t} : task'[u] = task[u]
  BY GotoIs DEF IInv, Pushing, Steps
<1>2. Pushing(t)' /\ ~Sweeping(t)'
  BY <1>1 DEF Pushing, Sweeping
<1>3. Sound(t)
  BY DEF IInv
<1>4. StepsMatchOp(t)'
  BY <1>1, <1>2 DEF StepsMatchOp, Pushing
<1>5. ClaimsIndexed(t)' /\ (Claiming(t)' => Claiming(t))
  BY <1>1, <1>3 DEF ClaimsIndexed, Claiming, Sound, Pushing
<1>6. MarkBacked(t)'
  BY <1>1, <1>3 DEF MarkBacked, Sound
<1>7. AnswerMarked(t)'
  BY <1>1, <1>3 DEF AnswerMarked, Sound, Pushing
<1>8. Sound(t)'
  BY <1>2, <1>4, <1>5, <1>6, <1>7
     DEF Sound, SweepShape, Dropped, BacklogCovers, ElsewhereCovers, FreesKnown,
         EraseKnows, TodoOld, Removing
<1>9. Dropping(t)' = {}
  BY <1>2 DEF Dropping
<1>10. QED
  BY <1>1, <1>5, <1>8, <1>9, TaskStep

\* A sweep that moves on without writing anything: what it carries along must
\* be in order, and it may only come to drop what nobody pushes.
LEMMA SweepStep ==
  ASSUME IInv, TypeOK', NEW t \in Tasks,
         UNCHANGED <<content, markers, refs, complete, clock, told, orphans>>,
         \A u \in Tasks \ {t} : task'[u] = task[u],
         task'[t].op = "sweep",
         task'[t].pc \in {"ready", "list", "judge", "next", "unmark", "erase", "backfill"},
         SweepShape(t)', BacklogCovers(t)', ElsewhereCovers(t)', FreesKnown(t)',
         Dropped(t)', EraseKnows(t)', TodoOld(t)',
         \A c \in Dropping(t)' :
           \/ c \in Dropping(t)
           \/ \A u \in Tasks \ {t} : ~(Pushing(u) /\ Target(u) = c)
  PROVE  IInv'
<1>1. Sweeping(t)' /\ ~Pushing(t)' /\ ~Claiming(t)'
  BY DEF Sweeping, Pushing, Claiming
<1>2. Sound(t)'
  BY <1>1 DEF Sound, StepsMatchOp, ClaimsIndexed, MarkBacked, AnswerMarked
<1>3. QED
  BY <1>1, <1>2, TaskStep

\* A push begins where no sweep is dropping.
LEMMA BeginPushStep ==
  ASSUME IInv, TypeOK', ~Contested, NEW t \in Tasks, NEW op \in {"store", "adopt"},
         NEW r \in Repos, NEW o \in Oids, BeginPush(t, op, r, o)
  PROVE  IInv'
<1>1. /\ task'[t] = Blank(t, "batch", op, r, o)
      /\ \A u \in Tasks \ {t} : task'[u] = task[u]
  BY DEF BeginPush, IInv, TypeOK
<1>2. task'[t].pc = "batch" /\ task'[t].op = op /\ Target(t)' = <<r, o>>
  BY <1>1 DEF Blank, Target
<1>3. Pushing(t)' /\ ~Sweeping(t)' /\ ~Claiming(t)'
  BY <1>2 DEF Pushing, Sweeping, Claiming
<1>4. Sound(t)'
  BY <1>2, <1>3
     DEF Sound, StepsMatchOp, SweepShape, ClaimsIndexed, Dropped, BacklogCovers,
         ElsewhereCovers, FreesKnown, EraseKnows, MarkBacked, AnswerMarked, TodoOld,
         Removing
<1>5. Dropping(t)' = {}
  BY <1>3 DEF Dropping
<1>6. \A u \in Tasks : Target(t)' \notin Dropping(u)
  BY <1>2 DEF BeginPush, MayPush
<1>7. QED
  BY <1>1, <1>3, <1>4, <1>5, <1>6, TaskStep DEF BeginPush, Bucket, History

\* A sweep begins with nothing listed.
LEMMA BeginSweepStep ==
  ASSUME IInv, TypeOK', NEW t \in Tasks, NEW r \in Repos, NEW keep \in SUBSET Oids,
         BeginSweep(t, r, keep)
  PROVE  IInv'
<1>1. /\ task'[t].pc = "ready" /\ task'[t].op = "sweep" /\ task'[t].todo = {}
      /\ \A u \in Tasks \ {t} : task'[u] = task[u]
  BY DEF BeginSweep, Blank, IInv, TypeOK
<1>2. /\ SweepShape(t)' /\ BacklogCovers(t)' /\ ElsewhereCovers(t)' /\ FreesKnown(t)'
      /\ Dropped(t)' /\ EraseKnows(t)' /\ TodoOld(t)'
  BY <1>1 DEF SweepShape, BacklogCovers, ElsewhereCovers, FreesKnown, Dropped,
              EraseKnows, TodoOld, Listed, Removing
<1>3. Dropping(t)' = {}
  BY <1>1 DEF Dropping
<1>4. QED
  BY <1>1, <1>2, <1>3, SweepStep DEF BeginSweep, Bucket, History

\* A sweep that trusts the index has seen the word that it is whole.
LEMMA ReadyStep ==
  ASSUME IInv, TypeOK', NEW t \in Tasks, NEW whole \in BOOLEAN, Ready(t, whole)
  PROVE  IInv'
<1>1. task[t] \in Request /\ task[t].op = "sweep" /\ Sound(t)
  BY RequestType DEF Ready, IInv, Sound, StepsMatchOp
<1>2. /\ task'[t].pc = "list" /\ task'[t].op = "sweep" /\ task'[t].whole = whole
      /\ task'[t].pages = IF whole THEN Repos ELSE {task[t].repo}
      /\ task'[t].todo = task[t].todo /\ task'[t].keep = task[t].keep
      /\ task'[t].repo = task[t].repo
      /\ \A u \in Tasks \ {t} : task'[u] = task[u]
  BY <1>1 DEF Ready, IInv, TypeOK, Request
<1>3. Sweeping(t) /\ task[t].pc = "ready"
  BY <1>1 DEF Sweeping, Ready
<1>4. SweepShape(t)' /\ FreesKnown(t)' /\ Dropped(t)' /\ EraseKnows(t)'
  BY <1>1, <1>2, <1>3 DEF Sound, SweepShape, FreesKnown, Dropped, EraseKnows, Listed,
                          Removing, Ready, Bucket
<1>5. \A c \in Claims(markers) : c[1] \in Repos
  BY ClaimsOf, ClaimOfEntry DEF IInv, TypeOK, Entry, Claim
<1>6. BacklogCovers(t)' /\ ElsewhereCovers(t)'
  <2>1. \A c \in Claims(markers) : c[1] \in task'[t].pages \/ (~whole /\ c[1] \in Repos)
    BY <1>2, <1>5
  <2>2. UNCHANGED <<refs, markers>>
    BY DEF Ready, Bucket
  <2>3. BacklogCovers(t)'
    BY <1>2, <2>1, <2>2 DEF BacklogCovers, Claims
  <2>4. ElsewhereCovers(t)'
    BY <1>2, <2>1, <2>2 DEF ElsewhereCovers, Claims
  <2>5. QED BY <2>3, <2>4
<1>7. TodoOld(t)'
  BY <1>1, <1>2, <1>3 DEF Sound, TodoOld, Removing, Ready, History
<1>8. Dropping(t)' \subseteq Dropping(t)
  BY <1>2, <1>3 DEF Dropping, Sweeping
<1>9. QED
  BY <1>2, <1>4, <1>6, <1>7, <1>8, SweepStep DEF Ready, Bucket, History

\* The steps of a push that write nothing a sweep reads.
LEMMA QuietPush ==
  ASSUME IInv, TypeOK', NEW t \in Tasks,
         \/ Batch(t) \/ Upload(t) \/ Verify(t) \/ Arrived(t) \/ HeadContent(t) \/ Tidy(t)
  PROVE  IInv'
<1>1. Pushing(t)
  BY DEF Batch, Upload, Verify, Arrived, HeadContent, Tidy, Pushing, IInv, Sound,
         StepsMatchOp
<1>2. CASE Batch(t) \/ Verify(t) \/ Arrived(t)
  <2>1. \/ Finish(t)
        \/ \E pc \in {"upload", "ref", "arrived"} : Goto(t, pc)
    BY <1>2 DEF Batch, Verify, Arrived
  <2>2. UNCHANGED <<content, markers, refs, complete, clock, told, orphans>>
    BY <1>2 DEF Batch, Verify, Arrived, Bucket, History
  <2>3. QED
    BY <1>1, <2>1, <2>2, FinishStep, PushStep
<1>3. CASE Upload(t)
  BY <1>1, <1>3, PushStep DEF Upload, History
<1>4. CASE HeadContent(t)
  <2>1. Claiming(t)
    BY <1>1, <1>4 DEF Claiming, HeadContent
  <2>2. UNCHANGED <<content, markers, refs, complete, clock, told, orphans>>
    BY <1>4 DEF HeadContent, Bucket, History
  <2>3. CASE task[t].oid \in content /\ Goto(t, "mark")
    BY <1>1, <2>1, <2>2, <2>3, PushStep
  <2>4. CASE Goto(t, "put")
    BY <1>1, <2>1, <2>2, <2>4, PushStep
  <2>5. QED
    BY <1>4, <2>3, <2>4 DEF HeadContent
<1>5. CASE Tidy(t)
  BY <1>1, <1>5, PushStep DEF Tidy, History
<1>6. QED
  BY <1>2, <1>3, <1>4, <1>5

\* A page of the listing: markers without a ref are in it or still to come.
LEMMA ListStep ==
  ASSUME IInv, TypeOK', ~Contested, NEW t \in Tasks, NEW r \in Repos, List(t, r)
  PROVE  IInv'
<1> DEFINE page == {m \in markers : m.repo = r}
           rest == task[t].pages \ {r}
<1>1. /\ task[t] \in Request /\ task[t].op = "sweep" /\ Sound(t) /\ Sweeping(t)
      /\ task[t].pc = "list" /\ r \in task[t].pages
  BY RequestType DEF List, IInv, Sound, StepsMatchOp, Sweeping
<1>2. /\ task'[t].pc = IF rest = {} THEN IF task[t].whole THEN "backfill" ELSE "judge"
                                    ELSE "list"
      /\ task'[t].pages = rest
      /\ task'[t].todo = IF r = task[t].repo THEN page ELSE task[t].todo
      /\ task'[t].backlog = IF task[t].whole THEN task[t].backlog \cup Claims(page)
                                             ELSE task[t].backlog
      /\ task'[t].elsewhere = IF r # task[t].repo
                                THEN task[t].elsewhere \cup {m.oid : m \in page}
                                ELSE task[t].elsewhere
      /\ task'[t].op = "sweep" /\ task'[t].whole = task[t].whole
      /\ task'[t].repo = task[t].repo /\ task'[t].keep = task[t].keep
      /\ \A u \in Tasks \ {t} : task'[u] = task[u]
  <2>1. task \in [Tasks -> Request \cup {Idle}]
    BY DEF IInv, TypeOK
  <2>2. QED BY <1>1, <2>1 DEF List, Request
<1>3. UNCHANGED <<content, markers, refs, complete, clock, told, orphans>>
  BY DEF List, Bucket, History
<1>4. /\ Sweeping(t)' /\ ~Removing(t)'
      /\ task'[t].pc \in {"list", "backfill", "judge"}
  BY <1>2 DEF Sweeping, Removing
<1>5. SweepShape(t)'
  <2>1. \A e \in task'[t].todo : e.repo = task[t].repo
    BY <1>1, <1>2 DEF Sound, SweepShape
  <2>2. Listed(t)' => task'[t].pages = {}
    BY <1>2, <1>4 DEF Listed
  <2>3. QED
    BY <1>1, <1>2, <1>3, <1>4, <2>1, <2>2 DEF Sound, SweepShape, Sweeping
<1>6. \A c \in Claims(markers) :
        c[1] = r => c \in Claims(page) /\ c[2] \in {m.oid : m \in page}
  BY ClaimsOf, ClaimOfEntry DEF IInv, TypeOK
<1>7. BacklogCovers(t)'
  <2> SUFFICES ASSUME task[t].whole, NEW c \in Claims(markers)
               PROVE  c \in refs \/ c[1] \in rest \/ c \in task'[t].backlog
    BY <1>2, <1>3 DEF BacklogCovers
  <2>1. c \in refs \/ c[1] \in task[t].pages \/ c \in task[t].backlog
    BY <1>1 DEF Sound, BacklogCovers
  <2>2. QED
    BY <1>2, <1>6, <2>1
<1>8. ElsewhereCovers(t)'
  <2> SUFFICES ASSUME task[t].whole, NEW c \in Claims(markers)
               PROVE  \/ c \in refs \/ c[1] = task[t].repo \/ c[1] \in rest
                      \/ c[2] \in task'[t].elsewhere
    BY <1>2, <1>3 DEF ElsewhereCovers
  <2>1. \/ c \in refs \/ c[1] = task[t].repo \/ c[1] \in task[t].pages
        \/ c[2] \in task[t].elsewhere
    BY <1>1 DEF Sound, ElsewhereCovers
  <2>2. QED
    BY <1>2, <1>6, <2>1
<1>9. FreesKnown(t)' /\ Dropped(t)' /\ EraseKnows(t)'
  BY <1>4 DEF FreesKnown, Dropped, EraseKnows
<1>10. TodoOld(t)'
  <2>1. \A e \in page, p \in told : ClaimOf(e) = ClaimOf(p) => p.at <= e.at
    BY DEF IInv, MarksFresh
  <2>2. \A e \in task'[t].todo, p \in told :
          e.oid \notin task[t].keep /\ ClaimOf(e) = ClaimOf(p) => p.at <= e.at
    BY <1>1, <1>2, <2>1 DEF Sound, TodoOld
  <2>3. QED
    BY <1>2, <1>3, <1>4, <2>2 DEF TodoOld
<1>11. ASSUME NEW c \in Dropping(t)'
       PROVE  \/ c \in Dropping(t)
              \/ \A u \in Tasks \ {t} : ~(Pushing(u) /\ Target(u) = c)
  <2>1. PICK e \in task'[t].todo : e.oid \notin task[t].keep /\ ClaimOf(e) = c
    BY <1>2, <1>4, <1>11 DEF Dropping, Removing
  <2>2. CASE r = task[t].repo
    <3>1. \A m \in markers : m.repo = r => MayDrop(t, m)
      BY <2>2, Zenon DEF List
    <3>2. e \in markers /\ e.repo = r
      BY <1>2, <2>2
    <3>3. QED
      BY <2>1, <3>1, <3>2 DEF MayDrop
  <2>3. CASE r # task[t].repo
    BY <1>1, <1>2, <2>1, <2>3, DroppingIs
  <2>4. QED
    BY <2>2, <2>3
<1>12. QED
  BY <1>2, <1>3, <1>4, <1>5, <1>7, <1>8, <1>9, <1>10, <1>11, SweepStep

\* A sweep that stops building the index goes on with what it listed.
LEMMA BackfillFailsStep ==
  ASSUME IInv, TypeOK', NEW t \in Tasks, Sweeping(t), BackfillFails(t)
  PROVE  IInv'
<1>1. /\ task[t] \in Request /\ Sound(t)
      /\ task[t].pc = "backfill" /\ task[t].op = "sweep"
  BY RequestType DEF BackfillFails, IInv, Sweeping
<1>2. /\ task'[t] = [task[t] EXCEPT !.pc = "judge", !.backlog = {}]
      /\ \A u \in Tasks \ {t} : task'[u] = task[u]
  BY DEF BackfillFails, IInv, TypeOK
<1>3. /\ task[t].pc = "backfill" /\ task'[t].pc = "judge" /\ task'[t].op = "sweep"
      /\ task'[t].whole = task[t].whole /\ task'[t].repo = task[t].repo
      /\ task'[t].pages = task[t].pages /\ task'[t].keep = task[t].keep
      /\ task'[t].todo = task[t].todo /\ task'[t].elsewhere = task[t].elsewhere
  BY <1>1, <1>2 DEF Request
<1>4. UNCHANGED <<content, markers, refs, complete, clock, told, orphans>>
  BY DEF BackfillFails, Bucket, History
<1>5. Sweeping(t)' /\ ~Removing(t)' /\ Listed(t) /\ Listed(t)'
  BY <1>3 DEF Sweeping, Removing, Listed
<1>6. SweepShape(t)' /\ ElsewhereCovers(t)' /\ TodoOld(t)'
  BY <1>1, <1>3, <1>4, <1>5 DEF Sound, SweepShape, ElsewhereCovers, TodoOld
<1>7. BacklogCovers(t)' /\ FreesKnown(t)' /\ Dropped(t)' /\ EraseKnows(t)'
  BY <1>3, <1>5 DEF BacklogCovers, FreesKnown, Dropped, EraseKnows
<1>8. \A c \in Dropping(t)' : c \in Dropping(t)
  BY <1>3, <1>5, DroppingIs DEF Dropping, Removing
<1>9. QED
  BY <1>2, <1>3, <1>4, <1>6, <1>7, <1>8, SweepStep

\* What is left to drop is past its grace.
LEMMA JudgeStep ==
  ASSUME IInv, TypeOK', NEW t \in Tasks, Sweeping(t), Judge(t)
  PROVE  IInv'
<1> DEFINE todo == {m \in task[t].todo : Droppable(m, task[t].keep)}
<1>1. /\ task[t] \in Request /\ Sound(t)
      /\ task[t].pc = "judge" /\ task[t].op = "sweep"
  BY RequestType DEF Judge, IInv, Sweeping
<1>2. \A e \in todo : /\ e \in task[t].todo /\ e.oid \notin task[t].keep
                      /\ clock - e.at >= Grace
  BY DEF Droppable
<1>3. task' = [task EXCEPT ![t] =
         [task[t] EXCEPT !.pc = "next", !.todo = todo, !.keep = {}]]
  BY <1>1 DEF Judge, IInv, TypeOK
<1> HIDE DEF todo
<1>4. /\ task'[t] = [task[t] EXCEPT !.pc = "next", !.todo = todo, !.keep = {}]
      /\ \A u \in Tasks \ {t} : task'[u] = task[u]
  BY <1>3 DEF IInv, TypeOK
<1>5. /\ task[t].pc = "judge" /\ task'[t].pc = "next" /\ task'[t].op = "sweep"
      /\ task'[t].whole = task[t].whole /\ task'[t].repo = task[t].repo
      /\ task'[t].pages = task[t].pages /\ task'[t].keep = {}
      /\ task'[t].todo = todo /\ task'[t].elsewhere = task[t].elsewhere
  BY <1>1, <1>4 DEF Request
<1>6. UNCHANGED <<content, markers, refs, complete, clock, told, orphans>>
  BY DEF Judge, Bucket, History
<1>7. Sweeping(t)' /\ ~Removing(t)' /\ Listed(t) /\ Listed(t)'
  BY <1>5 DEF Sweeping, Removing, Listed
<1>8. SweepShape(t)' /\ ElsewhereCovers(t)'
  BY <1>1, <1>2, <1>5, <1>6, <1>7 DEF Sound, SweepShape, ElsewhereCovers
<1>9. BacklogCovers(t)' /\ FreesKnown(t)' /\ Dropped(t)' /\ EraseKnows(t)'
  BY <1>5, <1>7 DEF BacklogCovers, FreesKnown, Dropped, EraseKnows
<1>10. TodoOld(t)'
  <2>1. \A e \in todo, p \in told : ClaimOf(e) = ClaimOf(p) => p.at <= e.at
    BY <1>1, <1>2 DEF Sound, TodoOld
  <2>2. QED
    BY <1>2, <1>5, <1>6, <1>7, <2>1 DEF TodoOld
<1>11. \A c \in Dropping(t)' : c \in Dropping(t)
  <2> SUFFICES ASSUME NEW c \in Dropping(t)' PROVE c \in Dropping(t)
    OBVIOUS
  <2>1. PICK e \in todo : ClaimOf(e) = c
    BY <1>5 DEF Dropping
  <2>2. QED
    BY <1>2, <2>1, DroppingIs
<1>12. QED
  BY <1>4, <1>5, <1>6, <1>8, <1>9, <1>10, <1>11, SweepStep

\* The claim a sweep deals with next is one it listed, and past its grace.
LEMMA PickStep ==
  ASSUME IInv, TypeOK', NEW t \in Tasks, Sweeping(t), NEW m \in task[t].todo,
         NEW frees \in BOOLEAN, Pick(t, m, frees)
  PROVE  IInv'
<1>1. /\ task[t] \in Request /\ Sound(t)
      /\ task[t].pc = "next" /\ task[t].op = "sweep"
  BY RequestType DEF Pick, IInv, Sweeping
<1>2. /\ task'[t] = [task[t] EXCEPT !.pc = "unmark", !.oid = m.oid,
                       !.todo = @ \ {m}, !.frees = frees, !.since = {}]
      /\ \A u \in Tasks \ {t} : task'[u] = task[u]
  BY DEF Pick, IInv, TypeOK
<1>3. /\ task[t].pc = "next" /\ task'[t].pc = "unmark" /\ task'[t].op = "sweep"
      /\ task'[t].whole = task[t].whole /\ task'[t].repo = task[t].repo
      /\ task'[t].pages = task[t].pages /\ task'[t].keep = task[t].keep
      /\ task'[t].todo = task[t].todo \ {m} /\ task'[t].oid = m.oid
      /\ task'[t].elsewhere = task[t].elsewhere /\ task'[t].frees = frees
  BY <1>1, <1>2 DEF Request
<1>4. UNCHANGED <<content, markers, refs, complete, clock, told, orphans>>
  BY DEF Pick, Bucket, History
<1>5. Sweeping(t)' /\ Listed(t) /\ Listed(t)' /\ task[t].keep = {}
  BY <1>1, <1>3 DEF Sweeping, Listed, Sound, SweepShape
<1>6. m.repo = task[t].repo /\ Target(t)' = ClaimOf(m)
  BY <1>1, <1>3 DEF Sound, SweepShape, Target, ClaimOf
<1>7. SweepShape(t)' /\ ElsewhereCovers(t)'
  BY <1>1, <1>3, <1>4, <1>5 DEF Sound, SweepShape, ElsewhereCovers
<1>8. FreesKnown(t)'
  BY <1>3 DEF FreesKnown, Pick, Removing
<1>9. BacklogCovers(t)' /\ Dropped(t)' /\ EraseKnows(t)'
  BY <1>3 DEF BacklogCovers, Dropped, EraseKnows
<1>10. TodoOld(t)'
  <2>1. /\ \A e \in task[t].todo : clock - e.at >= Grace
        /\ \A e \in task[t].todo, p \in told : ClaimOf(e) = ClaimOf(p) => p.at <= e.at
    BY <1>1, <1>3, <1>5 DEF Sound, TodoOld
  <2>2. ASSUME NEW p \in told, ClaimOf(p) = Target(t)' PROVE clock - p.at >= Grace
    <3>1. p.at <= m.at /\ clock - m.at >= Grace
      BY <1>6, <2>1, <2>2
    <3>2. p.at \in Nat /\ m.at \in Nat /\ clock \in Nat /\ Grace \in Nat
      BY <1>1, ConstantsOK DEF IInv, TypeOK, Entry, Request
    <3>3. QED
      BY <3>1, <3>2
  <2>3. QED
    BY <1>3, <1>4, <2>1, <2>2 DEF TodoOld
<1>11. \A c \in Dropping(t)' : c \in Dropping(t)
  <2> SUFFICES ASSUME NEW c \in Dropping(t)' PROVE c \in Dropping(t)
    OBVIOUS
  <2>1. \/ \E e \in task[t].todo \ {m} : ClaimOf(e) = c
        \/ c = ClaimOf(m)
    BY <1>3, <1>6 DEF Dropping
  <2>2. QED
    BY <1>5, <2>1, DroppingIs
<1>12. QED
  BY <1>2, <1>3, <1>4, <1>7, <1>8, <1>9, <1>10, <1>11, SweepStep

\* Between the question and the delete: whoever claims the object now and was
\* not there to be seen would have been in the index, or in the listing.
LEMMA AskStep ==
  ASSUME IInv, TypeOK', NEW t \in Tasks, Ask(t)
  PROVE  IInv'
<1>1. /\ task[t] \in Request /\ Sound(t) /\ Sweeping(t) /\ task[t].pc = "ask"
      /\ task[t].op = "sweep"
  BY RequestType DEF Ask, IInv, Sound, StepsMatchOp, Sweeping
<1>2. UNCHANGED <<content, markers, refs, complete, clock, told, orphans>>
  BY DEF Ask, Bucket, History
<1>3. PICK pc \in {"erase", "next"} :
        Goto(t, pc) /\ (pc = "erase" => ~ClaimedByAnother(t))
  BY DEF Ask
<1>4. /\ task'[t] = [task[t] EXCEPT !.pc = pc]
      /\ task'[t].pc = pc /\ task'[t].op = "sweep" /\ task'[t].oid = task[t].oid
      /\ Target(t)' = Target(t)
      /\ \A u \in Tasks \ {t} : task'[u] = task[u]
  BY <1>1, <1>3, GotoIs DEF IInv, Steps
<1>5. /\ task'[t].whole = task[t].whole /\ task'[t].repo = task[t].repo
      /\ task'[t].pages = task[t].pages /\ task'[t].keep = task[t].keep
      /\ task'[t].todo = task[t].todo /\ task'[t].elsewhere = task[t].elsewhere
      /\ task'[t].frees = task[t].frees /\ task'[t].since = task[t].since
  BY <1>1, <1>4 DEF Request
<1>6. Sweeping(t)' /\ Listed(t) /\ Listed(t)' /\ Removing(t)
  BY <1>1, <1>4 DEF Sweeping, Listed, Removing
<1>7. SweepShape(t)' /\ ElsewhereCovers(t)'
  BY <1>1, <1>2, <1>4, <1>5, <1>6 DEF Sound, SweepShape, ElsewhereCovers
<1>8. FreesKnown(t)'
  BY <1>1, <1>4, <1>5, <1>6 DEF Sound, FreesKnown, Removing
<1>9. BacklogCovers(t)' /\ Dropped(t)' /\ TodoOld(t)'
  BY <1>1, <1>2, <1>4, <1>5, <1>6 DEF Sound, BacklogCovers, Dropped, TodoOld
<1>10. EraseKnows(t)'
  <2> SUFFICES ASSUME pc = "erase", NEW r \in Repos,
                      \/ <<r, task[t].oid>> \in Claims(markers)
                      \/ \E u \in Tasks : Claiming(u)' /\ Target(u)' = <<r, task[t].oid>>
               PROVE  FALSE
    BY <1>2, <1>4 DEF EraseKnows
  <2>1. r # task[t].repo => <<r, task[t].oid>> \notin refs
    BY <1>3 DEF ClaimedByAnother
  <2>2. ASSUME NEW u \in Tasks, Claiming(u)', Target(u)' = <<r, task[t].oid>>
        PROVE  FALSE
    <3>1. u # t
      BY <1>4, <2>2 DEF Claiming, Pushing
    <3>2. Claiming(u) /\ Target(u) = <<r, task[t].oid>>
      BY <1>4, <2>2, <3>1 DEF Claiming, Pushing, Target
    <3>3. CASE r = task[t].repo
      <4>1. Target(u) \in Dropping(t)
        BY <1>6, <1>1, <3>2, <3>3, DroppingIs DEF Target
      <4>2. QED
        BY <3>2, <4>1 DEF IInv, Apart, Claiming
    <3>4. CASE r # task[t].repo
      BY <2>1, <3>2, <3>4 DEF IInv, Sound, ClaimsIndexed
    <3>5. QED
      BY <3>3, <3>4
  <2>3. ASSUME <<r, task[t].oid>> \in Claims(markers)
        PROVE  FALSE
    <3>1. r # task[t].repo
      BY <1>1, <2>3 DEF Sound, Dropped, Target
    <3>2. ~complete
      BY <2>1, <2>3, <3>1 DEF IInv, IndexCovers
    <3>3. task[t].whole /\ task[t].pages = {}
      BY <1>1, <1>6, <3>2 DEF Sound, SweepShape
    <3>4. task[t].oid \in task[t].elsewhere
      BY <1>1, <2>1, <2>3, <3>1, <3>3 DEF Sound, ElsewhereCovers
    <3>5. QED
      BY <1>1, <1>6, <3>3, <3>4 DEF Sound, FreesKnown
  <2>4. QED
    BY <2>2, <2>3
<1>11. \A c \in Dropping(t)' : c \in Dropping(t)
  BY <1>1, <1>4, <1>5, <1>6, DroppingIs DEF Dropping
<1>12. QED
  BY <1>2, <1>4, <1>7, <1>8, <1>9, <1>10, <1>11, SweepStep

-----------------------------------------------------------------------------
(* Steps that write to the bucket.                                         *)

\* A request is sound after a step of another one when nothing it knows of
\* the bucket has become false: every marker is in the index, or was there
\* before and still is not.
LEMMA Others ==
  ASSUME IInv, NEW u \in Tasks, task'[u] = task[u], UNCHANGED <<clock, told>>,
         complete => complete',
         ClaimsIndexed(u)', Dropped(u)', EraseKnows(u)', MarkBacked(u)', AnswerMarked(u)',
         \A c \in Claims(markers)' : c \in refs' \/ (c \in Claims(markers) /\ c \notin refs)
  PROVE  Sound(u)'
<1>1. Sound(u)
  BY DEF IInv
<1>2. StepsMatchOp(u)' /\ SweepShape(u)' /\ FreesKnown(u)' /\ TodoOld(u)'
  BY <1>1 DEF Sound, StepsMatchOp, SweepShape, FreesKnown, TodoOld, Sweeping, Listed,
              Removing, Target
<1>3. BacklogCovers(u)' /\ ElsewhereCovers(u)'
  BY <1>1 DEF Sound, BacklogCovers, ElsewhereCovers, Sweeping
<1>4. QED
  BY <1>2, <1>3 DEF Sound

\* A request that moves on stays clear of the others.
LEMMA ApartKept ==
  ASSUME IInv, NEW t \in Tasks,
         \A u \in Tasks \ {t} : /\ Dropping(u)' = Dropping(u)
                                /\ Pushing(u)' => Pushing(u)
                                /\ Target(u)' = Target(u),
         Pushing(t)' => Pushing(t) /\ Target(t)' = Target(t),
         \A c \in Dropping(t)' : c \in Dropping(t)
  PROVE  Apart'
<1>1. \A u \in Tasks : /\ \A c \in Dropping(u)' : c \in Dropping(u)
                       /\ Pushing(u)' => Pushing(u) /\ Target(u)' = Target(u)
  OBVIOUS
<1>2. QED
  BY <1>1 DEF IInv, Apart

\* What others drop and push, when they do not move.
LEMMA SameTask ==
  ASSUME NEW u \in Tasks, task'[u] = task[u]
  PROVE  /\ Dropping(u)' = Dropping(u) /\ Target(u)' = Target(u)
         /\ Pushing(u)' = Pushing(u) /\ Claiming(u)' = Claiming(u)
BY DEF Dropping, Pushing, Sweeping, Target, Claiming

\* A claim pushed is not one that a sweep drops.
LEMMA PushedNotDropped ==
  ASSUME IInv, NEW t \in Tasks, NEW u \in Tasks, Pushing(t), Removing(u)
  PROVE  Target(t) # Target(u)
<1>1. Target(u) \in Dropping(u)
  BY DroppingIs DEF Removing
<1>2. QED
  BY <1>1 DEF IInv, Apart

\* The ref goes into the index before anything else of a push.  A sweep that
\* asked already has it down as one that came after.
LEMMA WriteRefStep ==
  ASSUME IInv, TypeOK', NEW t \in Tasks, WriteRef(t)
  PROVE  IInv'
<1>1. /\ task[t] \in Request /\ Pushing(t) /\ task[t].pc = "ref" /\ Sound(t)
      /\ task[t].op # "sweep"
  BY RequestType DEF WriteRef, IInv, Sound, StepsMatchOp, Pushing
<1>2. /\ task'[t].pc = "head" /\ task'[t].op = task[t].op /\ Target(t)' = Target(t)
  BY <1>1 DEF WriteRef, Request, Target
<1>3. /\ refs' = refs \cup {Target(t)}
      /\ UNCHANGED <<content, markers, complete, clock, told, orphans>>
  BY DEF WriteRef, History
<1>4. ASSUME NEW u \in Tasks \ {t}
      PROVE  /\ \A c \in Claims(markers) : c \in refs \/ c \notin refs'
                  \/ c = Target(t)
             /\ \/ task'[u] = task[u] /\ ~(task[u].pc = "erase" /\ task[u].oid = task[t].oid)
                \/ /\ task[u].pc = "erase" /\ task[u].oid = task[t].oid
                   /\ task[u] \in Request
                   /\ task'[u] = [task[u] EXCEPT !.since = @ \cup {task[t].repo}]
  BY <1>3, RequestType DEF WriteRef, IInv
<1>5. ASSUME NEW u \in Tasks \ {t}
      PROVE  /\ task'[u].pc = task[u].pc /\ task'[u].op = task[u].op
             /\ task'[u].repo = task[u].repo /\ task'[u].oid = task[u].oid
             /\ task'[u].at = task[u].at /\ task'[u].keep = task[u].keep
             /\ task'[u].whole = task[u].whole /\ task'[u].pages = task[u].pages
             /\ task'[u].todo = task[u].todo /\ task'[u].backlog = task[u].backlog
             /\ task'[u].elsewhere = task[u].elsewhere /\ task'[u].frees = task[u].frees
  <2>1. CASE task'[u] = task[u]
    BY <2>1
  <2>2. CASE task[u] \in Request
             /\ task'[u] = [task[u] EXCEPT !.since = @ \cup {task[t].repo}]
    <3>1. PICK since : task'[u] = [task[u] EXCEPT !.since = since]
      BY <2>2
    <3>2. QED BY <2>2, <3>1 DEF Request
  <2>3. QED BY <1>4, <2>1, <2>2
<1>6. ASSUME NEW u \in Tasks \ {t}
      PROVE  /\ Dropping(u)' = Dropping(u) /\ Target(u)' = Target(u)
             /\ Pushing(u)' = Pushing(u) /\ Claiming(u)' = Claiming(u)
             /\ Sweeping(u)' = Sweeping(u) /\ Removing(u)' = Removing(u)
             /\ Listed(u)' = Listed(u)
  BY <1>5 DEF Dropping, Pushing, Sweeping, Target, Claiming, Removing, Listed
<1>7. ASSUME NEW u \in Tasks, u # t
      PROVE  Sound(u)'
  <2>1. Sound(u)
    BY DEF IInv
  <2>2. StepsMatchOp(u)' /\ SweepShape(u)' /\ FreesKnown(u)' /\ TodoOld(u)'
    BY <1>3, <1>5, <1>6, <1>7, <2>1 DEF Sound, StepsMatchOp, SweepShape, FreesKnown, TodoOld
  <2>3. BacklogCovers(u)' /\ ElsewhereCovers(u)'
    BY <1>3, <1>5, <1>6, <1>7, <2>1 DEF Sound, BacklogCovers, ElsewhereCovers
  <2>4. ClaimsIndexed(u)' /\ Dropped(u)' /\ MarkBacked(u)' /\ AnswerMarked(u)'
    BY <1>3, <1>5, <1>6, <1>7, <2>1 DEF Sound, ClaimsIndexed, Dropped, MarkBacked, AnswerMarked
  <2>5. EraseKnows(u)'
    <3> SUFFICES ASSUME Sweeping(u), task[u].pc = "erase", NEW r \in Repos,
                        \/ <<r, task[u].oid>> \in Claims(markers)
                        \/ \E v \in Tasks : Claiming(v)' /\ Target(v)' = <<r, task[u].oid>>
                 PROVE  r \in task'[u].since
      BY <1>3, <1>5, <1>6, <1>7 DEF EraseKnows
    <3>1. task[u].since \subseteq task'[u].since
      <4>1. ASSUME task[u] \in Request,
                   task'[u] = [task[u] EXCEPT !.since = @ \cup {task[t].repo}]
            PROVE  task'[u].since = task[u].since \cup {task[t].repo}
        BY <4>1 DEF Request
      <4>2. QED
        BY <1>4, <1>7, <4>1
    <3>2. CASE Target(t) = <<r, task[u].oid>>
      <4>1. task[u].oid = task[t].oid /\ task[t].repo = r
        BY <3>2 DEF Target
      <4>2. task'[u] = [task[u] EXCEPT !.since = @ \cup {task[t].repo}] /\ task[u] \in Request
        BY <1>4, <1>7, <4>1
      <4>3. QED
        BY <4>1, <4>2 DEF Request
    <3>3. CASE Target(t) # <<r, task[u].oid>>
      <4>1. \/ <<r, task[u].oid>> \in Claims(markers)
            \/ \E v \in Tasks : Claiming(v) /\ Target(v) = <<r, task[u].oid>>
        BY <1>2, <1>6, <3>3
      <4>2. QED
        BY <2>1, <3>1, <4>1 DEF Sound, EraseKnows
    <3>4. QED
      BY <3>2, <3>3
  <2>6. QED
    BY <2>2, <2>3, <2>4, <2>5 DEF Sound
<1>8. Pushing(t)' /\ ~Sweeping(t)'
  BY <1>1, <1>2 DEF Pushing, Sweeping
<1>9. Sound(t)'
  BY <1>1, <1>2, <1>3, <1>8
     DEF Sound, StepsMatchOp, SweepShape, ClaimsIndexed, Dropped, BacklogCovers,
         ElsewhereCovers, FreesKnown, EraseKnows, MarkBacked, AnswerMarked, TodoOld,
         Removing
<1>10. Apart'
  BY <1>1, <1>2, <1>6, <1>8, ApartKept DEF Dropping
<1>11. IndexCovers' /\ BytesKept' /\ MarksFresh' /\ ToldHeld'
  BY <1>3 DEF IInv, IndexCovers, BytesKept, MarksFresh, ToldHeld
<1>12. QED
  BY <1>7, <1>9, <1>10, <1>11 DEF IInv

\* One ref of the backlog.
LEMMA BackfillStep ==
  ASSUME IInv, TypeOK', NEW t \in Tasks, Sweeping(t), NEW c \in Claim, Backfill(t, c)
  PROVE  IInv'
<1>1. /\ task[t] \in Request /\ Sound(t) /\ task[t].pc = "backfill"
      /\ task[t].op = "sweep"
  BY RequestType DEF Backfill, IInv, Sweeping
<1>2. /\ task'[t] = [task[t] EXCEPT !.backlog = @ \ {c}]
      /\ \A u \in Tasks \ {t} : task'[u] = task[u]
  BY DEF Backfill, IInv, TypeOK
<1>3. /\ task'[t].pc = "backfill" /\ task'[t].op = "sweep"
      /\ task'[t].whole = task[t].whole /\ task'[t].repo = task[t].repo
      /\ task'[t].pages = task[t].pages /\ task'[t].keep = task[t].keep
      /\ task'[t].todo = task[t].todo /\ task'[t].elsewhere = task[t].elsewhere
      /\ task'[t].backlog = task[t].backlog \ {c}
  BY <1>1, <1>2 DEF Request
<1>4. refs' = refs \cup {c} /\ UNCHANGED <<content, markers, complete, clock, told, orphans>>
  BY DEF Backfill, History
<1>5. \A x \in Claims(markers)' :
         x \in refs' \/ (x \in Claims(markers) /\ x \notin refs)
  BY <1>4
<1>6. /\ Sweeping(t)' /\ ~Pushing(t)' /\ ~Claiming(t)' /\ ~Removing(t)'
      /\ Listed(t) /\ Listed(t)' /\ ~Claiming(t) /\ ~Pushing(t)
  BY <1>1, <1>3 DEF Sweeping, Pushing, Claiming, Removing, Listed
<1>7. ASSUME NEW u \in Tasks, u # t
      PROVE  Sound(u)'
  <2>1. Sound(u) /\ task'[u] = task[u]
    BY <1>2, <1>7 DEF IInv
  <2>2. ClaimsIndexed(u)' /\ Dropped(u)' /\ MarkBacked(u)' /\ AnswerMarked(u)'
    BY <1>4, <2>1 DEF Sound, ClaimsIndexed, Dropped, MarkBacked, AnswerMarked, Claiming,
                      Pushing, Sweeping, Target
  <2>3. EraseKnows(u)'
    <3>1. \A v \in Tasks : Claiming(v)' => Claiming(v) /\ Target(v)' = Target(v)
      BY <1>2, <1>6, SameTask
    <3>2. QED
      BY <1>4, <2>1, <3>1 DEF Sound, EraseKnows, Sweeping
  <2>4. QED
    BY <1>4, <1>5, <2>1, <2>2, <2>3, Others
<1>8. Sound(t)'
  <2>1. SweepShape(t)' /\ ElsewhereCovers(t)' /\ BacklogCovers(t)' /\ TodoOld(t)'
    BY <1>1, <1>3, <1>4, <1>6 DEF Sound, SweepShape, ElsewhereCovers, BacklogCovers, TodoOld
  <2>2. QED
    BY <1>3, <1>6, <2>1 DEF Sound, StepsMatchOp, ClaimsIndexed, Dropped, FreesKnown,
                            EraseKnows, MarkBacked, AnswerMarked
<1>9. Apart'
  <2>1. Dropping(t)' = Dropping(t)
    BY <1>1, <1>3 DEF Dropping, Sweeping
  <2>2. QED
    BY <1>2, <1>6, <2>1, SameTask, ApartKept
<1>10. IndexCovers' /\ BytesKept' /\ MarksFresh' /\ ToldHeld'
  BY <1>4 DEF IInv, IndexCovers, BytesKept, MarksFresh, ToldHeld
<1>11. QED
  BY <1>7, <1>8, <1>9, <1>10 DEF IInv

\* The backlog is written, and every page was read: no marker is missing.
LEMMA CompleteStep ==
  ASSUME IInv, TypeOK', NEW t \in Tasks, Sweeping(t), Complete(t)
  PROVE  IInv'
<1>1. /\ task[t] \in Request /\ Sound(t) /\ task[t].pc = "backfill"
      /\ task[t].op = "sweep" /\ task[t].backlog = {}
  BY RequestType DEF Complete, IInv, Sweeping
<1>2. /\ task'[t] = [task[t] EXCEPT !.pc = "judge"]
      /\ \A u \in Tasks \ {t} : task'[u] = task[u]
  BY DEF Complete, Goto, IInv, TypeOK
<1>3. /\ task'[t].pc = "judge" /\ task'[t].op = "sweep"
      /\ task'[t].whole = task[t].whole /\ task'[t].repo = task[t].repo
      /\ task'[t].pages = task[t].pages /\ task'[t].keep = task[t].keep
      /\ task'[t].todo = task[t].todo /\ task'[t].elsewhere = task[t].elsewhere
  BY <1>1, <1>2 DEF Request
<1>4. complete' /\ UNCHANGED <<content, markers, refs, clock, told, orphans>>
  BY DEF Complete, History
<1>5. /\ Sweeping(t)' /\ ~Pushing(t)' /\ ~Claiming(t)' /\ ~Removing(t)'
      /\ Listed(t) /\ Listed(t)' /\ ~Claiming(t) /\ ~Pushing(t)
  BY <1>1, <1>3 DEF Sweeping, Pushing, Claiming, Removing, Listed
<1>6. ASSUME NEW u \in Tasks, u # t
      PROVE  Sound(u)'
  <2>1. Sound(u) /\ task'[u] = task[u]
    BY <1>2, <1>6 DEF IInv
  <2>2. ClaimsIndexed(u)' /\ Dropped(u)' /\ MarkBacked(u)' /\ AnswerMarked(u)'
    BY <1>4, <2>1 DEF Sound, ClaimsIndexed, Dropped, MarkBacked, AnswerMarked, Claiming,
                      Pushing, Sweeping, Target
  <2>3. EraseKnows(u)'
    <3>1. \A v \in Tasks : Claiming(v)' => Claiming(v) /\ Target(v)' = Target(v)
      BY <1>2, <1>5, SameTask
    <3>2. QED
      BY <1>4, <2>1, <3>1 DEF Sound, EraseKnows, Sweeping
  <2>4. QED
    BY <1>4, <2>1, <2>2, <2>3, Others
<1>7. Sound(t)'
  <2>1. SweepShape(t)' /\ ElsewhereCovers(t)' /\ TodoOld(t)'
    BY <1>1, <1>3, <1>4, <1>5 DEF Sound, SweepShape, ElsewhereCovers, TodoOld
  <2>2. QED
    BY <1>3, <1>5, <2>1 DEF Sound, StepsMatchOp, ClaimsIndexed, Dropped, FreesKnown,
                            EraseKnows, MarkBacked, AnswerMarked, BacklogCovers
<1>8. Apart'
  <2>1. Dropping(t)' = Dropping(t)
    BY <1>1, <1>3 DEF Dropping, Sweeping
  <2>2. QED
    BY <1>2, <1>5, <2>1, SameTask, ApartKept
<1>9. IndexCovers'
  <2>1. task[t].whole /\ task[t].pages = {}
    BY <1>1, <1>5 DEF Sound, SweepShape
  <2>2. Claims(markers) \subseteq refs
    BY <1>1, <2>1 DEF Sound, BacklogCovers
  <2>3. QED
    BY <1>4, <2>2 DEF IndexCovers
<1>10. BytesKept' /\ MarksFresh' /\ ToldHeld'
  BY <1>4 DEF IInv, BytesKept, MarksFresh, ToldHeld
<1>11. QED
  BY <1>6, <1>7, <1>8, <1>9, <1>10 DEF IInv

\* The bytes are there, whoever waits for them.
LEMMA PutContentStep ==
  ASSUME IInv, TypeOK', NEW t \in Tasks, PutContent(t)
  PROVE  IInv'
<1>1. /\ task[t] \in Request /\ Pushing(t) /\ task[t].pc = "put" /\ Sound(t)
      /\ Claiming(t)
  BY RequestType DEF PutContent, IInv, Sound, StepsMatchOp, Pushing, Claiming
<1>2. /\ task'[t].pc = "mark" /\ task'[t].op = task[t].op /\ Target(t)' = Target(t)
      /\ task'[t].oid = task[t].oid /\ \A u \in Tasks \ {t} : task'[u] = task[u]
  BY <1>1, GotoIs DEF PutContent, IInv, Steps
<1>3. /\ content' = content \cup {task[t].oid}
      /\ orphans' = {c \in orphans : c[2] # task[t].oid}
      /\ UNCHANGED <<markers, refs, complete, clock, told>>
  BY DEF PutContent
<1>4. Pushing(t)' /\ ~Sweeping(t)' /\ Claiming(t)'
  BY <1>1, <1>2 DEF Pushing, Sweeping, Claiming
<1>5. \A c \in Claim : c[2] \in content \/ c \in orphans
                         => c[2] \in content' \/ c \in orphans'
  BY <1>3
<1>6. ASSUME NEW u \in Tasks, u # t
      PROVE  Sound(u)'
  <2>1. Sound(u) /\ task'[u] = task[u]
    BY <1>2, <1>6 DEF IInv
  <2>2. ClaimsIndexed(u)' /\ Dropped(u)' /\ AnswerMarked(u)'
    BY <1>3, <2>1 DEF Sound, ClaimsIndexed, Dropped, AnswerMarked, Claiming, Pushing,
                      Sweeping, Target
  <2>3. EraseKnows(u)'
    <3>1. \A v \in Tasks : Claiming(v)' => Claiming(v) /\ Target(v)' = Target(v)
      BY <1>1, <1>2, SameTask
    <3>2. QED
      BY <1>3, <2>1, <3>1 DEF Sound, EraseKnows, Sweeping
  <2>4. MarkBacked(u)'
    <3> SUFFICES ASSUME Pushing(u), task[u].pc = "mark"
                 PROVE  task[u].oid \in content' \/ Target(u) \in orphans'
      BY <2>1 DEF MarkBacked, Pushing, Target
    <3>1. Target(u) \in Claim /\ Target(u)[2] = task[u].oid
      BY TargetType DEF IInv, Pushing, Target
    <3>2. task[u].oid \in content \/ Target(u) \in orphans
      BY <2>1 DEF Sound, MarkBacked
    <3>3. QED
      BY <1>5, <3>1, <3>2
  <2>5. QED
    BY <1>3, <2>1, <2>2, <2>3, <2>4, Others
<1>7. Sound(t)'
  <2>1. ClaimsIndexed(t)' /\ MarkBacked(t)'
    BY <1>1, <1>2, <1>3 DEF Sound, ClaimsIndexed, MarkBacked
  <2>2. QED
    BY <1>2, <1>4, <2>1
       DEF Sound, StepsMatchOp, SweepShape, Dropped, BacklogCovers, ElsewhereCovers,
           FreesKnown, EraseKnows, AnswerMarked, TodoOld, Pushing, Removing
<1>8. Apart'
  BY <1>1, <1>2, <1>4, SameTask, ApartKept DEF Dropping
<1>9. BytesKept'
  <2>1. Claims(markers) \subseteq Claim
    BY ClaimsOf, ClaimOfEntry DEF IInv, TypeOK
  <2>2. QED
    BY <1>3, <1>5, <2>1 DEF IInv, BytesKept
<1>10. IndexCovers' /\ MarksFresh' /\ ToldHeld'
  BY <1>3 DEF IInv, IndexCovers, MarksFresh, ToldHeld
<1>11. QED
  BY <1>6, <1>7, <1>8, <1>9, <1>10 DEF IInv

\* The marker is the claim the ref announced.
LEMMA MarkStep ==
  ASSUME IInv, TypeOK', NEW t \in Tasks, Mark(t)
  PROVE  IInv'
<1> DEFINE e == [repo |-> task[t].repo, oid |-> task[t].oid, at |-> clock]
<1>1. /\ task[t] \in Request /\ Pushing(t) /\ task[t].pc = "mark" /\ Sound(t)
      /\ Claiming(t) /\ task[t].op # "sweep" /\ clock \in Nat /\ markers \subseteq Entry
      /\ Target(t)[2] = task[t].oid
  BY RequestType DEF Mark, IInv, Sound, StepsMatchOp, Pushing, Claiming, TypeOK, Target
<1>2. /\ task'[t] = [task[t] EXCEPT !.at = clock,
                       !.pc = IF task[t].op = "adopt" THEN "tidy" ELSE "answer"]
      /\ \A u \in Tasks \ {t} : task'[u] = task[u]
  BY DEF Mark, IInv, TypeOK
<1>3. /\ task'[t].pc \in {"tidy", "answer"} /\ task'[t].op = task[t].op
      /\ Target(t)' = Target(t) /\ task'[t].at = clock
  BY <1>1, <1>2 DEF Request, Target
<1>4. /\ markers' = Without(markers, Target(t)) \cup {e}
      /\ UNCHANGED <<content, refs, complete, clock, told, orphans>>
  BY DEF Mark, History
<1>5. ClaimOf(e) = Target(t)
  BY DEF ClaimOf, Target
<1>6. Claims(markers') = Claims(markers) \cup {Target(t)}
  BY <1>4, <1>5, RenewedClaims
<1> HIDE DEF e
<1>7. \A m \in markers' : m \in markers \/ (m = e /\ ClaimOf(m) = Target(t) /\ m.at = clock)
  BY <1>4, <1>5 DEF Without, e
<1>8. Pushing(t)' /\ ~Sweeping(t)' /\ ~Claiming(t)'
  BY <1>1, <1>3 DEF Pushing, Sweeping, Claiming
<1>9. Target(t) \in refs
  BY <1>1 DEF Sound, ClaimsIndexed
<1>10. ASSUME NEW u \in Tasks, u # t
       PROVE  Sound(u)'
  <2>1. Sound(u) /\ task'[u] = task[u]
    BY <1>2, <1>10 DEF IInv
  <2>2. ClaimsIndexed(u)' /\ MarkBacked(u)'
    BY <1>4, <2>1 DEF Sound, ClaimsIndexed, MarkBacked, Claiming, Pushing, Target
  <2>3. Dropped(u)'
    <3>1. Removing(u) => Target(u) # Target(t)
      BY <1>1, PushedNotDropped
    <3>2. QED
      BY <1>6, <2>1, <3>1 DEF Sound, Dropped, Removing, Sweeping, Target
  <2>4. AnswerMarked(u)'
    <3> SUFFICES ASSUME Pushing(u), task[u].pc \in {"tidy", "answer"}
                 PROVE  /\ Target(u) \in Claims(markers') /\ task[u].at <= clock
                        /\ \A m \in markers' : ClaimOf(m) = Target(u) => task[u].at <= m.at
      BY <1>4, <2>1 DEF AnswerMarked, Pushing, Target
    <3>1. /\ Target(u) \in Claims(markers) /\ task[u].at <= clock
          /\ \A m \in markers : ClaimOf(m) = Target(u) => task[u].at <= m.at
      BY <2>1 DEF Sound, AnswerMarked
    <3>2. QED
      BY <1>6, <1>7, <3>1
  <2>5. EraseKnows(u)'
    <3> SUFFICES ASSUME Sweeping(u), task[u].pc = "erase", NEW r \in Repos,
                        \/ <<r, task[u].oid>> \in Claims(markers')
                        \/ \E v \in Tasks : Claiming(v)' /\ Target(v)' = <<r, task[u].oid>>
                 PROVE  r \in task[u].since
      BY <2>1 DEF EraseKnows, Sweeping
    <3>1. \A v \in Tasks : Claiming(v)' => Claiming(v) /\ Target(v)' = Target(v)
      BY <1>2, <1>8, SameTask
    <3>2. \/ <<r, task[u].oid>> \in Claims(markers)
          \/ \E v \in Tasks : Claiming(v) /\ Target(v) = <<r, task[u].oid>>
      BY <1>1, <1>6, <3>1
    <3>3. QED
      BY <2>1, <3>2 DEF Sound, EraseKnows
  <2>6. \A c \in Claims(markers)' :
          c \in refs' \/ (c \in Claims(markers) /\ c \notin refs)
    BY <1>4, <1>6, <1>9 DEF Claims
  <2>7. QED
    BY <1>4, <2>1, <2>2, <2>3, <2>4, <2>5, <2>6, Others
<1>11. Sound(t)'
  <2>1. AnswerMarked(t)'
    <3>1. \A m \in markers' : ClaimOf(m) = Target(t) => clock <= m.at
      BY <1>1, <1>4, <1>7 DEF Without, e
    <3>2. QED
      BY <1>1, <1>3, <1>4, <1>6, <3>1 DEF AnswerMarked, Claims
  <2>2. QED
    BY <1>1, <1>3, <1>8, <2>1
       DEF Sound, StepsMatchOp, SweepShape, ClaimsIndexed, Dropped, BacklogCovers,
           ElsewhereCovers, FreesKnown, EraseKnows, MarkBacked, TodoOld, Removing
<1>12. Apart'
  BY <1>1, <1>2, <1>3, <1>8, SameTask, ApartKept DEF Dropping
<1>13. IndexCovers'
  BY <1>4, <1>6, <1>9 DEF IInv, IndexCovers, Claims
<1>14. BytesKept'
  <2>1. Target(t)[2] \in content \/ Target(t) \in orphans
    BY <1>1 DEF Sound, MarkBacked
  <2>2. QED
    BY <1>4, <1>6, <2>1 DEF IInv, BytesKept, Claims
<1>15. MarksFresh'
  <2>1. \A p \in told : p.at <= clock
    BY DEF IInv, MarksFresh
  <2>2. \A m \in markers, p \in told : ClaimOf(m) = ClaimOf(p) => p.at <= m.at
    BY DEF IInv, MarksFresh
  <2>3. QED
    BY <1>4, <1>7, <2>1, <2>2 DEF MarksFresh
<1>16. ToldHeld'
  BY <1>4, <1>6 DEF IInv, ToldHeld, Claims
<1>17. QED
  BY <1>10, <1>11, <1>12, <1>13, <1>14, <1>15, <1>16 DEF IInv

\* An answer is given for a marker that is there, and that no sweep has down.
LEMMA AnswerStep ==
  ASSUME IInv, TypeOK', NEW t \in Tasks, Answer(t)
  PROVE  IInv'
<1> DEFINE e == [repo |-> task[t].repo, oid |-> task[t].oid, at |-> task[t].at]
<1>1. /\ task[t] \in Request /\ Pushing(t) /\ task[t].pc = "answer" /\ Sound(t)
      /\ clock \in Nat /\ told \subseteq Entry
  BY RequestType DEF Answer, IInv, Sound, StepsMatchOp, Pushing, TypeOK
<1>2. task'[t] = Idle /\ \A u \in Tasks \ {t} : task'[u] = task[u]
  BY DEF Answer, Finish, IInv, TypeOK
<1>3. /\ told' = Without(told, Target(t)) \cup {e}
      /\ UNCHANGED <<content, markers, refs, complete, clock, orphans>>
  BY DEF Answer, Bucket
<1>4. ClaimOf(e) = Target(t) /\ e.at = task[t].at
  BY DEF ClaimOf, Target
<1> HIDE DEF e
<1>5. \A p \in told' : p \in told \/ (ClaimOf(p) = Target(t) /\ p.at = task[t].at)
  BY <1>3, <1>4 DEF Without
<1>6. /\ Target(t) \in Claims(markers) /\ task[t].at <= clock
      /\ \A m \in markers : ClaimOf(m) = Target(t) => task[t].at <= m.at
  BY <1>1 DEF Sound, AnswerMarked
<1>7. ~Pushing(t)' /\ ~Sweeping(t)' /\ ~Claiming(t)' /\ task'[t].pc = "idle"
  BY <1>2 DEF Pushing, Sweeping, Claiming, Idle
<1>8. ASSUME NEW u \in Tasks, u # t
      PROVE  Sound(u)'
  <2>1. Sound(u) /\ task'[u] = task[u]
    BY <1>2, <1>8 DEF IInv
  <2>2. StepsMatchOp(u)' /\ SweepShape(u)' /\ FreesKnown(u)'
    BY <1>3, <2>1 DEF Sound, StepsMatchOp, SweepShape, FreesKnown, Sweeping, Listed, Removing
  <2>3. ClaimsIndexed(u)' /\ Dropped(u)' /\ MarkBacked(u)' /\ AnswerMarked(u)'
    BY <1>3, <2>1 DEF Sound, ClaimsIndexed, Dropped, MarkBacked, AnswerMarked, Claiming,
                      Pushing, Sweeping, Target
  <2>4. BacklogCovers(u)' /\ ElsewhereCovers(u)'
    BY <1>3, <2>1 DEF Sound, BacklogCovers, ElsewhereCovers, Sweeping
  <2>5. EraseKnows(u)'
    <3>1. \A v \in Tasks : Claiming(v)' => Claiming(v) /\ Target(v)' = Target(v)
      BY <1>2, <1>7, SameTask
    <3>2. QED
      BY <1>3, <2>1, <3>1 DEF Sound, EraseKnows, Sweeping
  <2>6. TodoOld(u)'
    <3> SUFFICES ASSUME Sweeping(u)
                 PROVE  /\ \A x \in task[u].todo, p \in told' :
                             x.oid \notin task[u].keep /\ ClaimOf(x) = ClaimOf(p)
                               => p.at <= x.at
                        /\ task[u].pc = "unmark" =>
                             \A p \in told' : ClaimOf(p) = Target(u) => clock - p.at >= Grace
      BY <1>3, <2>1 DEF Sound, TodoOld, Sweeping, Removing, Target
    <3>1. \A x \in task[u].todo : x.oid \notin task[u].keep => ClaimOf(x) # Target(t)
      <4>1. \A x \in task[u].todo : x.oid \notin task[u].keep => ClaimOf(x) \in Dropping(u)
        BY DroppingIs
      <4>2. QED
        BY <1>1, <4>1 DEF IInv, Apart
    <3>2. task[u].pc = "unmark" => Target(u) # Target(t)
      BY <1>1, PushedNotDropped DEF Removing
    <3>3. QED
      BY <1>5, <2>1, <3>1, <3>2 DEF Sound, TodoOld
  <2>7. QED
    BY <2>2, <2>3, <2>4, <2>5, <2>6 DEF Sound
<1>9. Sound(t)'
  BY <1>7 DEF Sound, StepsMatchOp, SweepShape, ClaimsIndexed, Dropped, BacklogCovers,
              ElsewhereCovers, FreesKnown, EraseKnows, MarkBacked, AnswerMarked,
              TodoOld, Removing
<1>10. Apart'
  BY <1>2, <1>7, SameTask, ApartKept DEF Dropping
<1>11. IndexCovers' /\ BytesKept'
  BY <1>3 DEF IInv, IndexCovers, BytesKept
<1>12. MarksFresh'
  <2>1. /\ \A p \in told : p.at <= clock
        /\ \A m \in markers, p \in told : ClaimOf(m) = ClaimOf(p) => p.at <= m.at
    BY DEF IInv, MarksFresh
  <2>2. QED
    BY <1>3, <1>5, <1>6, <2>1 DEF MarksFresh
<1>13. ToldHeld'
  BY <1>3, <1>5, <1>6 DEF IInv, ToldHeld
<1>14. QED
  BY <1>8, <1>9, <1>10, <1>11, <1>12, <1>13 DEF IInv

\* A sweep on its way through drop_marker and past it.
LEMMA RemovingGoes ==
  ASSUME IInv, NEW t \in Tasks, Sweeping(t), Removing(t),
         NEW pc \in {"unref", "ask", "next"}, Goto(t, pc)
  PROVE  /\ task[t] \in Request /\ Sound(t)
         /\ task'[t].pc = pc /\ task'[t].op = "sweep" /\ Target(t)' = Target(t)
         /\ task'[t].whole = task[t].whole /\ task'[t].repo = task[t].repo
         /\ task'[t].pages = task[t].pages /\ task'[t].keep = task[t].keep
         /\ task'[t].todo = task[t].todo /\ task'[t].elsewhere = task[t].elsewhere
         /\ task'[t].frees = task[t].frees /\ task'[t].oid = task[t].oid
         /\ \A u \in Tasks \ {t} : task'[u] = task[u]
         /\ ~Pushing(t)' /\ ~Claiming(t)' /\ ~Claiming(t) /\ ~Pushing(t) /\ Sweeping(t)'
         /\ Listed(t) /\ Listed(t)'
         /\ Apart'
<1>1. /\ task[t] \in Request /\ Sound(t) /\ task[t].op = "sweep"
      /\ task[t].pc \in {"unmark", "unref", "ask", "erase"}
  BY RequestType DEF IInv, Sweeping, Removing
<1>2. /\ task'[t] = [task[t] EXCEPT !.pc = pc] /\ task'[t].pc = pc
      /\ Target(t)' = Target(t) /\ task'[t].oid = task[t].oid
      /\ \A u \in Tasks \ {t} : task'[u] = task[u]
  BY <1>1, GotoIs DEF IInv, Steps
<1>3. /\ task'[t].whole = task[t].whole /\ task'[t].repo = task[t].repo
      /\ task'[t].pages = task[t].pages /\ task'[t].keep = task[t].keep
      /\ task'[t].todo = task[t].todo /\ task'[t].elsewhere = task[t].elsewhere
      /\ task'[t].frees = task[t].frees /\ task'[t].op = "sweep"
  BY <1>1, <1>2 DEF Request
<1>4. /\ ~Pushing(t)' /\ ~Claiming(t)' /\ ~Claiming(t) /\ ~Pushing(t) /\ Sweeping(t)'
      /\ Listed(t) /\ Listed(t)'
  BY <1>1, <1>2, <1>3 DEF Pushing, Claiming, Sweeping, Listed
<1>5. \A c \in Dropping(t)' : c \in Dropping(t)
  BY <1>2, <1>3, DroppingIs DEF Dropping
<1>6. Apart'
  BY <1>2, <1>4, <1>5, SameTask, ApartKept
<1>7. QED
  BY <1>1, <1>2, <1>3, <1>4, <1>6

\* The marker goes: it is past its grace, and nobody is pushing it.
LEMMA UnmarkStep ==
  ASSUME IInv, TypeOK', NEW t \in Tasks, Sweeping(t), Unmark(t)
  PROVE  IInv'
<1>1. Removing(t) /\ task[t].pc = "unmark" /\ Goto(t, "unref")
  BY DEF Unmark, Removing
<1>2. /\ Sound(t) /\ task'[t].pc = "unref" /\ task'[t].op = "sweep"
      /\ Target(t)' = Target(t)
      /\ task'[t].whole = task[t].whole /\ task'[t].repo = task[t].repo
      /\ task'[t].pages = task[t].pages /\ task'[t].keep = task[t].keep
      /\ task'[t].todo = task[t].todo /\ task'[t].elsewhere = task[t].elsewhere
      /\ task'[t].frees = task[t].frees /\ task'[t].oid = task[t].oid
      /\ \A u \in Tasks \ {t} : task'[u] = task[u]
      /\ ~Pushing(t)' /\ ~Claiming(t)' /\ ~Claiming(t) /\ Sweeping(t)'
      /\ Listed(t) /\ Listed(t)' /\ Apart'
  BY <1>1, RemovingGoes
<1>3. /\ markers' = Without(markers, Target(t)) /\ Claims(markers)' = Claims(markers) \ {Target(t)}
      /\ UNCHANGED <<content, refs, complete, clock, told, orphans>>
  BY WithoutClaims DEF Unmark, History, Claims
<1>4. markers' \subseteq markers
  BY <1>3 DEF Without
<1>5. ASSUME NEW u \in Tasks, u # t
      PROVE  Sound(u)'
  <2>1. Sound(u) /\ task'[u] = task[u]
    BY <1>2, <1>5 DEF IInv
  <2>2. ClaimsIndexed(u)' /\ MarkBacked(u)'
    BY <1>3, <2>1 DEF Sound, ClaimsIndexed, MarkBacked, Claiming, Pushing, Target
  <2>3. Dropped(u)'
    BY <1>3, <2>1 DEF Sound, Dropped, Sweeping, Target
  <2>4. AnswerMarked(u)'
    <3>1. Pushing(u) => Target(u) # Target(t)
      BY <1>1, PushedNotDropped
    <3>2. QED
      BY <1>3, <1>4, <2>1, <3>1 DEF Sound, AnswerMarked, Pushing, Target
  <2>5. EraseKnows(u)'
    <3>1. \A v \in Tasks : Claiming(v)' => Claiming(v) /\ Target(v)' = Target(v)
      BY <1>2, SameTask
    <3>2. QED
      BY <1>3, <2>1, <3>1 DEF Sound, EraseKnows, Sweeping
  <2>6. QED
    BY <1>3, <2>1, <2>2, <2>3, <2>4, <2>5, Others DEF IInv
<1>6. Sound(t)'
  <2>1. SweepShape(t)' /\ ElsewhereCovers(t)' /\ Dropped(t)' /\ FreesKnown(t)'
    BY <1>1, <1>2, <1>3 DEF Sound, SweepShape, ElsewhereCovers, Dropped, FreesKnown, Removing
  <2>2. TodoOld(t)'
    BY <1>1, <1>2, <1>3 DEF Sound, TodoOld, Removing
  <2>3. QED
    BY <1>2, <2>1, <2>2 DEF Sound, StepsMatchOp, ClaimsIndexed, EraseKnows, MarkBacked,
                            AnswerMarked, BacklogCovers
<1>7. IndexCovers' /\ BytesKept'
  BY <1>3 DEF IInv, IndexCovers, BytesKept
<1>8. MarksFresh'
  BY <1>3, <1>4 DEF IInv, MarksFresh
<1>9. ToldHeld'
  <2> SUFFICES ASSUME NEW p \in told, clock - p.at < Grace
               PROVE  ClaimOf(p) \in Claims(markers)'
    BY <1>3 DEF ToldHeld
  <2>1. ClaimOf(p) \in Claims(markers)
    BY DEF IInv, ToldHeld
  <2>2. ClaimOf(p) # Target(t)
    <3>1. ClaimOf(p) = Target(t) => clock - p.at >= Grace
      BY <1>1, <1>2 DEF Sound, TodoOld
    <3>2. p.at \in Nat /\ clock \in Nat /\ Grace \in Nat
      BY ConstantsOK DEF IInv, TypeOK, Entry
    <3>3. QED
      BY <3>1, <3>2
  <2>3. QED
    BY <1>3, <2>1, <2>2
<1>10. QED
  BY <1>2, <1>5, <1>6, <1>7, <1>8, <1>9 DEF IInv

\* The ref goes after its marker went, and while nobody announces a new one.
LEMMA UnrefStep ==
  ASSUME IInv, TypeOK', NEW t \in Tasks, Sweeping(t), Unref(t)
  PROVE  IInv'
<1>1. PICK pc \in {"ask", "next"} : /\ Goto(t, pc) /\ (pc = "ask" => task[t].frees)
                                    /\ Removing(t) /\ task[t].pc = "unref"
  BY DEF Unref, Removing
<1>2. /\ Sound(t) /\ task'[t].pc = pc /\ task'[t].op = "sweep"
      /\ Target(t)' = Target(t)
      /\ task'[t].whole = task[t].whole /\ task'[t].repo = task[t].repo
      /\ task'[t].pages = task[t].pages /\ task'[t].keep = task[t].keep
      /\ task'[t].todo = task[t].todo /\ task'[t].elsewhere = task[t].elsewhere
      /\ task'[t].frees = task[t].frees /\ task'[t].oid = task[t].oid
      /\ \A u \in Tasks \ {t} : task'[u] = task[u]
      /\ ~Pushing(t)' /\ ~Claiming(t)' /\ ~Claiming(t) /\ Sweeping(t)'
      /\ Listed(t) /\ Listed(t)' /\ Apart'
  BY <1>1, RemovingGoes
<1>3. UNCHANGED <<markers, content, complete, clock, told, orphans>>
  BY DEF Unref, History
<1>4. Target(t) \notin Claims(markers)
  BY <1>1 DEF IInv, Sound, Dropped
<1>5. \A c : c # Target(t) => (c \in refs' <=> c \in refs)
  BY DEF Unref
<1>6. ASSUME NEW u \in Tasks, u # t
      PROVE  Sound(u)'
  <2>1. Sound(u) /\ task'[u] = task[u]
    BY <1>2, <1>6 DEF IInv
  <2>2. ClaimsIndexed(u)'
    <3>1. Pushing(u) => Target(u) # Target(t)
      BY <1>1, PushedNotDropped
    <3>2. QED
      BY <1>5, <2>1, <3>1 DEF Sound, ClaimsIndexed, Claiming, Pushing, Target
  <2>3. Dropped(u)' /\ MarkBacked(u)' /\ AnswerMarked(u)'
    BY <1>3, <2>1 DEF Sound, Dropped, MarkBacked, AnswerMarked, Pushing, Sweeping, Target
  <2>4. EraseKnows(u)'
    <3>1. \A v \in Tasks : Claiming(v)' => Claiming(v) /\ Target(v)' = Target(v)
      BY <1>2, SameTask
    <3>2. QED
      BY <1>3, <2>1, <3>1 DEF Sound, EraseKnows, Sweeping
  <2>5. \A c \in Claims(markers)' :
          c \in refs' \/ (c \in Claims(markers) /\ c \notin refs)
    BY <1>3, <1>4, <1>5 DEF Claims
  <2>6. QED
    BY <1>3, <2>1, <2>2, <2>3, <2>4, <2>5, Others DEF IInv
<1>7. Sound(t)'
  <2>1. SweepShape(t)' /\ Dropped(t)' /\ FreesKnown(t)' /\ TodoOld(t)'
    BY <1>1, <1>2, <1>3 DEF Sound, SweepShape, Dropped, FreesKnown, TodoOld, Removing
  <2>2. ElsewhereCovers(t)'
    BY <1>1, <1>2, <1>3, <1>4, <1>5 DEF Sound, ElsewhereCovers
  <2>3. QED
    BY <1>1, <1>2, <2>1, <2>2 DEF Sound, StepsMatchOp, ClaimsIndexed, EraseKnows,
                                  MarkBacked, AnswerMarked, BacklogCovers
<1>8. IndexCovers'
  BY <1>3, <1>4, <1>5 DEF IInv, IndexCovers
<1>9. BytesKept' /\ MarksFresh' /\ ToldHeld'
  BY <1>3 DEF IInv, BytesKept, MarksFresh, ToldHeld
<1>10. QED
  BY <1>2, <1>6, <1>7, <1>8, <1>9 DEF IInv

\* The bytes go: whoever loses them by it came after the question.
LEMMA EraseStep ==
  ASSUME IInv, TypeOK', NEW t \in Tasks, Sweeping(t), Erase(t)
  PROVE  IInv'
<1>1. Removing(t) /\ task[t].pc = "erase" /\ Goto(t, "next")
  BY DEF Erase, Removing
<1>2. /\ Sound(t) /\ task'[t].pc = "next" /\ task'[t].op = "sweep"
      /\ Target(t)' = Target(t)
      /\ task'[t].whole = task[t].whole /\ task'[t].repo = task[t].repo
      /\ task'[t].pages = task[t].pages /\ task'[t].keep = task[t].keep
      /\ task'[t].todo = task[t].todo /\ task'[t].elsewhere = task[t].elsewhere
      /\ task'[t].frees = task[t].frees /\ task'[t].oid = task[t].oid
      /\ \A u \in Tasks \ {t} : task'[u] = task[u]
      /\ ~Pushing(t)' /\ ~Claiming(t)' /\ ~Claiming(t) /\ Sweeping(t)'
      /\ Listed(t) /\ Listed(t)' /\ Apart'
  BY <1>1, RemovingGoes
<1>3. /\ content' = content \ {task[t].oid}
      /\ orphans' = IF task[t].oid \in content
                      THEN orphans \cup {<<r, task[t].oid>> : r \in task[t].since}
                      ELSE orphans
      /\ UNCHANGED <<markers, refs, complete, clock, told>>
  BY DEF Erase
<1>4. ASSUME NEW r \in Repos, NEW o \in Oids,
             \/ <<r, o>> \in Claims(markers)
             \/ \E u \in Tasks : Claiming(u) /\ Target(u) = <<r, o>>,
             o \in content \/ <<r, o>> \in orphans
      PROVE  o \in content' \/ <<r, o>> \in orphans'
  <2>1. CASE o = task[t].oid
    <3>1. r \in task[t].since
      BY <1>1, <1>2, <1>4, <2>1 DEF Sound, EraseKnows
    <3>2. QED
      BY <1>3, <1>4, <2>1, <3>1
  <2>2. CASE o # task[t].oid
    BY <1>3, <1>4, <2>2
  <2>3. QED
    BY <2>1, <2>2
<1>5. ASSUME NEW u \in Tasks, u # t
      PROVE  Sound(u)'
  <2>1. Sound(u) /\ task'[u] = task[u]
    BY <1>2, <1>5 DEF IInv
  <2>2. ClaimsIndexed(u)' /\ Dropped(u)' /\ AnswerMarked(u)'
    BY <1>3, <2>1 DEF Sound, ClaimsIndexed, Dropped, AnswerMarked, Claiming, Pushing,
                      Sweeping, Target
  <2>3. MarkBacked(u)'
    <3> SUFFICES ASSUME Pushing(u), task[u].pc = "mark"
                 PROVE  task[u].oid \in content' \/ Target(u) \in orphans'
      BY <2>1 DEF MarkBacked, Pushing, Target
    <3>1. task[u].repo \in Repos /\ task[u].oid \in Oids
      BY RequestType DEF IInv, Pushing, Request
    <3>2. Claiming(u) /\ Target(u) = <<task[u].repo, task[u].oid>>
      BY DEF Claiming, Target
    <3>3. task[u].oid \in content \/ Target(u) \in orphans
      BY <2>1 DEF Sound, MarkBacked
    <3>4. QED
      BY <1>4, <3>1, <3>2, <3>3
  <2>4. EraseKnows(u)'
    <3>1. \A v \in Tasks : Claiming(v)' => Claiming(v) /\ Target(v)' = Target(v)
      BY <1>2, SameTask
    <3>2. QED
      BY <1>3, <2>1, <3>1 DEF Sound, EraseKnows, Sweeping
  <2>5. QED
    BY <1>3, <2>1, <2>2, <2>3, <2>4, Others DEF IInv
<1>6. Sound(t)'
  <2>1. SweepShape(t)' /\ ElsewhereCovers(t)' /\ TodoOld(t)'
    BY <1>1, <1>2, <1>3 DEF Sound, SweepShape, ElsewhereCovers, TodoOld, Removing
  <2>2. QED
    BY <1>2, <2>1 DEF Sound, StepsMatchOp, ClaimsIndexed, EraseKnows, MarkBacked,
                      AnswerMarked, BacklogCovers, Dropped, FreesKnown, Removing
<1>7. BytesKept'
  <2> SUFFICES ASSUME NEW c \in Claims(markers) PROVE c[2] \in content' \/ c \in orphans'
    BY <1>3 DEF BytesKept
  <2>1. c \in Claim /\ c = <<c[1], c[2]>> /\ c[1] \in Repos /\ c[2] \in Oids
    BY ClaimsOf, ClaimOfEntry DEF IInv, TypeOK, Claim
  <2>2. QED
    BY <1>4, <2>1 DEF IInv, BytesKept
<1>8. IndexCovers' /\ MarksFresh' /\ ToldHeld'
  BY <1>3 DEF IInv, IndexCovers, MarksFresh, ToldHeld
<1>9. QED
  BY <1>2, <1>5, <1>6, <1>7, <1>8 DEF IInv

\* Time passes: what is past its grace stays past it.
LEMMA TickStep ==
  ASSUME IInv, TypeOK', Tick
  PROVE  IInv'
<1>1. clock' = clock + 1 /\ clock \in Nat /\ Grace \in Nat
  BY ConstantsOK DEF Tick, IInv, TypeOK
<1>2. UNCHANGED <<content, markers, refs, complete, task, told, orphans>>
  BY DEF Tick, Bucket, History
<1>3. told \subseteq Entry /\ \A p \in told : p.at \in Nat
  BY DEF IInv, TypeOK, Entry
<1>4. ASSUME NEW t \in Tasks
      PROVE  Sound(t)'
  <2>1. Sound(t)
    BY DEF IInv
  <2>2. /\ StepsMatchOp(t)' /\ SweepShape(t)' /\ ClaimsIndexed(t)' /\ Dropped(t)'
        /\ BacklogCovers(t)' /\ ElsewhereCovers(t)' /\ FreesKnown(t)' /\ MarkBacked(t)'
    BY <1>2, <2>1 DEF Sound, StepsMatchOp, SweepShape, ClaimsIndexed, Dropped,
                      BacklogCovers, ElsewhereCovers, FreesKnown, MarkBacked, Claiming,
                      Pushing, Sweeping, Removing, Listed, Target
  <2>3. EraseKnows(t)'
    BY <1>2, <2>1 DEF Sound, EraseKnows, Claiming, Pushing, Sweeping, Target
  <2>4. AnswerMarked(t)'
    <3>1. Pushing(t) => task[t].at \in Nat
      BY RequestType DEF IInv, Pushing, Request
    <3>2. QED
      BY <1>1, <1>2, <2>1, <3>1 DEF Sound, AnswerMarked, Pushing, Target
  <2>5. TodoOld(t)'
    <3>1. Sweeping(t) => \A e \in task[t].todo : e.at \in Nat
      BY RequestType DEF IInv, Sweeping, Request, Entry
    <3>2. ASSUME Sweeping(t)
          PROVE  /\ \A e \in task[t].todo, p \in told :
                      e.oid \notin task[t].keep /\ ClaimOf(e) = ClaimOf(p) => p.at <= e.at
                 /\ task[t].pc = "next" \/ Removing(t) =>
                      \A e \in task[t].todo : clock - e.at >= Grace
                 /\ task[t].pc = "unmark" =>
                      \A p \in told : ClaimOf(p) = Target(t) => clock - p.at >= Grace
      BY <2>1, <3>2 DEF Sound, TodoOld
    <3>3. \A n \in Nat : clock - n >= Grace => clock' - n >= Grace
      BY <1>1
    <3>4. QED
      BY <1>2, <1>3, <3>1, <3>2, <3>3 DEF TodoOld, Sweeping, Removing, Target
  <2>6. QED
    BY <2>2, <2>3, <2>4, <2>5 DEF Sound
<1>5. Apart'
  BY <1>2 DEF IInv, Apart, Pushing, Target, Dropping, Sweeping
<1>6. IndexCovers' /\ BytesKept'
  BY <1>2 DEF IInv, IndexCovers, BytesKept
<1>7. MarksFresh'
  BY <1>1, <1>2, <1>3 DEF IInv, MarksFresh
<1>8. ToldHeld'
  BY <1>1, <1>2, <1>3 DEF IInv, ToldHeld
<1>9. QED
  BY <1>4, <1>5, <1>6, <1>7, <1>8 DEF IInv

\* Nothing the invariant speaks of changes.
LEMMA StutterStep ==
  ASSUME IInv, TypeOK',
         UNCHANGED <<content, markers, refs, complete, task, clock, told, orphans>>
  PROVE  IInv'
<1>1. ASSUME NEW t \in Tasks
      PROVE  Sound(t)'
  <2>1. Sound(t)
    BY DEF IInv
  <2>2. /\ StepsMatchOp(t)' /\ SweepShape(t)' /\ ClaimsIndexed(t)' /\ Dropped(t)'
        /\ BacklogCovers(t)' /\ ElsewhereCovers(t)' /\ FreesKnown(t)' /\ MarkBacked(t)'
    BY <2>1 DEF Sound, StepsMatchOp, SweepShape, ClaimsIndexed, Dropped, BacklogCovers,
                ElsewhereCovers, FreesKnown, MarkBacked, Claiming, Pushing, Sweeping,
                Removing, Listed, Target
  <2>3. EraseKnows(t)' /\ AnswerMarked(t)' /\ TodoOld(t)'
    BY <2>1 DEF Sound, EraseKnows, AnswerMarked, TodoOld, Claiming, Pushing, Sweeping,
                Removing, Target
  <2>4. QED
    BY <2>2, <2>3 DEF Sound
<1>2. Apart'
  BY DEF IInv, Apart, Pushing, Target, Dropping, Sweeping
<1>3. IndexCovers' /\ BytesKept' /\ MarksFresh' /\ ToldHeld'
  BY DEF IInv, IndexCovers, BytesKept, MarksFresh, ToldHeld
<1>4. QED
  BY <1>1, <1>2, <1>3 DEF IInv

\* A bucket at rest, with an index that names its markers or without one.
LEMMA InitHolds == Init => IInv
<1> SUFFICES ASSUME Init PROVE IInv
  OBVIOUS
<1>1. TypeOK
  BY DEF Init, TypeOK, Idle, Claims, ClaimOf, Claim, Entry
<1>2. \A t \in Tasks : /\ task[t].pc = "idle"
                       /\ ~Pushing(t) /\ ~Sweeping(t) /\ ~Claiming(t)
  BY DEF Init, Idle, Pushing, Sweeping, Claiming
<1>3. \A t \in Tasks : Sound(t)
  BY <1>2 DEF Sound, StepsMatchOp, SweepShape, ClaimsIndexed, Dropped, BacklogCovers,
              ElsewhereCovers, FreesKnown, EraseKnows, MarkBacked, AnswerMarked,
              TodoOld, Removing
<1>4. Apart
  BY <1>2 DEF Apart
<1>5. IndexCovers
  BY DEF Init, IndexCovers
<1>6. BytesKept
  <2>1. content = {m.oid : m \in markers}
    BY DEF Init
  <2>2. ASSUME NEW c \in Claims(markers) PROVE c[2] \in content
    <3>1. PICK m \in markers : ClaimOf(m) = c
      BY ClaimsOf
    <3>2. c[2] = m.oid
      BY <3>1 DEF ClaimOf
    <3>3. QED
      BY <2>1, <3>2
  <2>3. QED
    BY <2>2 DEF BytesKept
<1>7. MarksFresh /\ ToldHeld
  BY DEF Init, MarksFresh, ToldHeld
<1>8. QED
  BY <1>1, <1>3, <1>4, <1>5, <1>6, <1>7 DEF IInv

\* The invariant is kept by every step, as long as no push of an object meets
\* a sweep of the same repository that may be dropping it.
THEOREM Inductive == ~Contested /\ IInv /\ [Next]_vars => IInv'
<1> SUFFICES ASSUME ~Contested, IInv, [Next]_vars PROVE IInv'
  OBVIOUS
<1>1. TypeOK'
  BY TypeStep DEF IInv
<1>2. CASE \E t \in Tasks, op \in {"store", "adopt"}, r \in Repos, o \in Oids :
             BeginPush(t, op, r, o)
  BY <1>1, <1>2, BeginPushStep
<1>3. CASE \E t \in Tasks, r \in Repos, keep \in SUBSET Oids : BeginSweep(t, r, keep)
  BY <1>1, <1>3, BeginSweepStep
<1>4. CASE \E t \in Tasks : Push(t)
  BY <1>1, <1>4, QuietPush, WriteRefStep, PutContentStep, MarkStep, AnswerStep DEF Push
<1>5. CASE \E t \in Tasks : Sweeping(t) /\ Sweep(t)
  <2> SUFFICES ASSUME NEW t \in Tasks, Sweeping(t), Sweep(t) PROVE IInv'
    BY <1>5
  <2>1. CASE SweepDone(t)
    BY <1>1, <2>1, FinishStep DEF SweepDone, Bucket, History
  <2>2. CASE Sweep(t) /\ ~SweepDone(t)
    BY <1>1, <2>2, ReadyStep, ListStep, BackfillStep, CompleteStep, BackfillFailsStep,
       JudgeStep, PickStep, UnmarkStep, UnrefStep, AskStep, EraseStep DEF Sweep
  <2>3. QED
    BY <2>1, <2>2
<1>6. CASE \E e \in incoming : Reclaim(e)
  BY <1>1, <1>6, StutterStep DEF Reclaim, History
<1>7. CASE Tick
  BY <1>1, <1>7, TickStep
<1>8. CASE \E t \in Tasks : Fail(t)
  BY <1>1, <1>8, FinishStep DEF Fail, Bucket, History
<1>9. CASE UNCHANGED vars
  BY <1>1, <1>9, StutterStep DEF vars
<1>10. QED
  BY <1>2, <1>3, <1>4, <1>5, <1>6, <1>7, <1>8, <1>9 DEF Next, Calm

\* The invariant holds of every state.
THEOREM Invariant == ~Contested => (Spec => []IInv)
<1>1. ~Contested /\ IInv /\ [Next]_vars => IInv'
  BY Inductive
<1>2. CASE ~Contested
  <2>1. IInv /\ [Next]_vars => IInv'
    BY <1>1, <1>2
  <2>2. Spec => []IInv
    BY <2>1, InitHolds, PTL DEF Spec
  <2>3. QED
    BY <2>2
<1>3. CASE Contested
  BY <1>3
<1>4. QED
  BY <1>2, <1>3

\* refs.rs: the index never misses a holder that is still there, also while it
\* is being built and whatever request is the last that happens.
THEOREM IndexNeverMisses == ~Contested => (Spec => []IndexCovers)
<1>1. IInv => IndexCovers
  BY DEF IInv
<1>2. QED
  BY <1>1, Invariant, PTL

\* collect.rs: bytes go from under a marker only when its push wrote its ref
\* between a sweep's last question and its delete.
THEOREM BytesStay == ~Contested => (Spec => []BytesKept)
<1>1. IInv => BytesKept
  BY DEF IInv
<1>2. QED
  BY <1>1, Invariant, PTL

\* collect.rs, droppable: what was pushed within the grace period is held.
THEOREM PushStays == ~Contested => (Spec => []PushKept)
<1>1. ASSUME IInv PROVE PushKept
  <2> SUFFICES ASSUME NEW p \in told, clock - p.at < Grace
               PROVE  /\ Holds(ClaimOf(p))
                      /\ p.oid \in content \/ ClaimOf(p) \in orphans
    BY DEF PushKept
  <2>1. ClaimOf(p) \in Claims(markers)
    BY <1>1 DEF IInv, ToldHeld
  <2>2. ClaimOf(p)[2] = p.oid
    BY DEF ClaimOf
  <2>3. QED
    BY <1>1, <2>1, <2>2 DEF IInv, BytesKept, Holds
<1>2. QED
  BY <1>1, Invariant, PTL

-----------------------------------------------------------------------------
(* The bucket implements ObjectStore.                                      *)

\* Who wrote a ref for the object a sweep is about to take after its last
\* question.
Window(t) == IF Removing(t) THEN task[t].since \X {task[t].oid} ELSE {}

Readable == {c \in Claims(markers) : c[2] \in content}

\* The mapping, one request at a time.
LEMMA MappingIs ==
  /\ \A c : c \in UNION {Dropping(t) : t \in Tasks} <=> \E t \in Tasks : c \in Dropping(t)
  /\ \A c : c \in UNION {task[t].since \X {task[t].oid} : t \in {u \in Tasks : Removing(u)}}
              <=> \E t \in Tasks : c \in Window(t)
BY DEF Window

\* A request by which no other moves, and that comes to drop nothing more and
\* puts nothing into its window.
Recedes(t) ==
  /\ \A u \in Tasks \ {t} : task'[u] = task[u]
  /\ Dropping(t)' \subseteq Dropping(t)
  /\ Window(t)' \subseteq Window(t)

LEMMA SameWindow ==
  ASSUME NEW u \in Tasks, task'[u] = task[u]
  PROVE  Window(u)' = Window(u)
BY DEF Window, Removing, Sweeping

LEMMA RecedesEnds ==
  ASSUME NEW t \in Tasks, Recedes(t)
  PROVE  Store!Ends
<1>1. ASSUME NEW u \in Tasks
      PROVE  Dropping(u)' \subseteq Dropping(u) /\ Window(u)' \subseteq Window(u)
  BY SameTask, SameWindow DEF Recedes
<1>2. \A c : (\E u \in Tasks : c \in Dropping(u)') => \E u \in Tasks : c \in Dropping(u)
  BY <1>1
<1>3. \A c : (\E u \in Tasks : c \in Window(u)') => \E u \in Tasks : c \in Window(u)
  BY <1>1
<1>4. /\ (UNION {Dropping(u) : u \in Tasks})' \subseteq UNION {Dropping(u) : u \in Tasks}
      /\ (UNION {task[u].since \X {task[u].oid} : u \in {v \in Tasks : Removing(v)}})'
           \subseteq UNION {task[u].since \X {task[u].oid} : u \in {v \in Tasks : Removing(v)}}
  <2>1. \A c : c \in (UNION {Dropping(u) : u \in Tasks})' <=> \E u \in Tasks : c \in Dropping(u)'
    OBVIOUS
  <2>2. \A c : c \in (UNION {task[u].since \X {task[u].oid} : u \in {v \in Tasks : Removing(v)}})'
                 <=> \E u \in Tasks : c \in Window(u)'
    BY DEF Window
  <2>3. QED
    BY <1>2, <1>3, <2>1, <2>2, MappingIs
<1>5. QED
  BY <1>4 DEF Store!Ends

\* Where nobody's bytes or marker go or come.
LEMMA QuietRefines ==
  ASSUME NEW t \in Tasks, Recedes(t), UNCHANGED <<content, markers>>
  PROVE  Store!Next
<1>1. Readable' = Readable
  BY DEF Readable, Claims, ClaimOf
<1>2. Store!Lose
  BY <1>1, RecedesEnds DEF Store!Lose, Readable
<1>3. QED
  BY <1>2 DEF Store!Next

\* A request that ends, or begins.
LEMMA EmptyRecedes ==
  ASSUME NEW t \in Tasks, \A u \in Tasks \ {t} : task'[u] = task[u],
         \/ ~Sweeping(t)'
         \/ task'[t].todo = {} /\ ~Removing(t)'
  PROVE  Recedes(t)
<1>1. Dropping(t)' = {}
  BY DEF Dropping, Removing
<1>2. Window(t)' = {}
  BY DEF Window, Removing
<1>3. QED
  BY <1>1, <1>2 DEF Recedes

\* A sweep that is not dropping a marker yet, and lists nothing more.
LEMMA SweepRecedes ==
  ASSUME NEW t \in Tasks, Sweeping(t), ~Removing(t)',
         \A u \in Tasks \ {t} : task'[u] = task[u],
         \A e \in task'[t].todo : e.oid \notin task'[t].keep =>
           e \in task[t].todo /\ e.oid \notin task[t].keep
  PROVE  Recedes(t)
<1>1. ASSUME NEW c \in Dropping(t)' PROVE c \in Dropping(t)
  <2>1. \E e \in task'[t].todo : e.oid \notin task'[t].keep /\ ClaimOf(e) = c
    BY DEF Dropping, Removing
  <2>2. QED
    BY <2>1, DroppingIs
<1>2. Window(t)' = {}
  BY DEF Window
<1>3. QED
  BY <1>1, <1>2 DEF Recedes

\* A request that moves on to another step.
LEMMA GotoRecedes ==
  ASSUME TypeOK, NEW t \in Tasks, task[t].pc # "idle", NEW pc \in Steps, Goto(t, pc),
         pc \in {"unmark", "unref", "ask", "erase"} => Removing(t)
  PROVE  Recedes(t)
<1>1. task[t] \in Request
  BY RequestType
<1>2. /\ task'[t] = [task[t] EXCEPT !.pc = pc]
      /\ \A u \in Tasks \ {t} : task'[u] = task[u]
  BY GotoIs
<1>3. /\ task'[t].pc = pc /\ task'[t].op = task[t].op /\ Target(t)' = Target(t)
      /\ task'[t].oid = task[t].oid /\ task'[t].todo = task[t].todo
      /\ task'[t].keep = task[t].keep /\ task'[t].since = task[t].since
  BY <1>1, <1>2 DEF Request, Target
<1>4. (Sweeping(t)' => Sweeping(t)) /\ (Removing(t)' => Removing(t))
  BY <1>3 DEF Sweeping, Removing
<1>5. Window(t)' \subseteq Window(t)
  BY <1>3, <1>4 DEF Window
<1>6. Dropping(t)' \subseteq Dropping(t)
  BY <1>3, <1>4 DEF Dropping, Removing
<1>7. QED
  BY <1>2, <1>5, <1>6 DEF Recedes

\* What a sweep is, between its steps.
LEMMA SweepIs ==
  ASSUME IInv, NEW t \in Tasks, Sweeping(t)
  PROVE  /\ task[t] \in Request /\ task[t].op = "sweep" /\ task[t].pc # "idle"
         /\ SweepShape(t)
BY RequestType DEF Sweeping, IInv, Sound

\* A push that only moves on.
LEMMA QuietPushRefines ==
  ASSUME IInv, NEW t \in Tasks,
         \/ Batch(t) \/ Upload(t) \/ Verify(t) \/ Arrived(t) \/ HeadContent(t)
         \/ Tidy(t) \/ Answer(t)
  PROVE  Store!Next
<1>1. task[t].pc # "idle" /\ UNCHANGED <<content, markers>>
  BY DEF Batch, Upload, Verify, Arrived, HeadContent, Tidy, Answer, Bucket
<1>2. \/ Finish(t)
      \/ \E pc \in {"upload", "verify", "arrived", "ref", "put", "mark", "answer"} :
           Goto(t, pc)
  BY DEF Batch, Upload, Verify, Arrived, HeadContent, Tidy, Answer
<1>3. CASE Finish(t)
  <2>1. ~Sweeping(t)' /\ \A u \in Tasks \ {t} : task'[u] = task[u]
    BY <1>3 DEF Finish, IInv, TypeOK, Sweeping, Idle
  <2>2. QED
    BY <1>1, <2>1, EmptyRecedes, QuietRefines
<1>4. ASSUME NEW pc \in {"upload", "verify", "arrived", "ref", "put", "mark", "answer"},
             Goto(t, pc)
      PROVE  Store!Next
  BY <1>1, <1>4, GotoRecedes, QuietRefines DEF IInv, Steps
<1>5. QED
  BY <1>2, <1>3, <1>4

\* A request that begins or ends.
LEMMA EdgeRefines ==
  ASSUME IInv, NEW t \in Tasks,
         \/ \E op \in {"store", "adopt"}, r \in Repos, o \in Oids : BeginPush(t, op, r, o)
         \/ \E r \in Repos, keep \in SUBSET Oids : BeginSweep(t, r, keep)
         \/ SweepDone(t) \/ Fail(t)
  PROVE  Store!Next
<1>1. UNCHANGED <<content, markers>> /\ \A u \in Tasks \ {t} : task'[u] = task[u]
  BY DEF BeginPush, BeginSweep, SweepDone, Fail, Finish, Bucket, IInv, TypeOK
<1>2. CASE \E op \in {"store", "adopt"}, r \in Repos, o \in Oids : BeginPush(t, op, r, o)
  <2>1. ~Sweeping(t)'
    BY <1>2 DEF BeginPush, Blank, Sweeping, IInv, TypeOK
  <2>2. QED
    BY <1>1, <2>1, EmptyRecedes, QuietRefines
<1>3. CASE \E r \in Repos, keep \in SUBSET Oids : BeginSweep(t, r, keep)
  <2>1. task'[t].todo = {} /\ task'[t].pc = "ready"
    BY <1>3 DEF BeginSweep, Blank, IInv, TypeOK
  <2>2. QED
    BY <1>1, <2>1, EmptyRecedes, QuietRefines DEF Removing
<1>4. CASE SweepDone(t) \/ Fail(t)
  <2>1. ~Sweeping(t)'
    BY <1>4 DEF SweepDone, Fail, Finish, Idle, Sweeping, IInv, TypeOK
  <2>2. QED
    BY <1>1, <2>1, EmptyRecedes, QuietRefines
<1>5. QED
  BY <1>2, <1>3, <1>4

\* A sweep that has not picked a marker yet.
LEMMA QuietSweepRefines ==
  ASSUME IInv, NEW t \in Tasks, Sweeping(t),
         \/ \E whole \in BOOLEAN : Ready(t, whole)
         \/ \E c \in Claim : Backfill(t, c)
         \/ Complete(t) \/ BackfillFails(t) \/ Judge(t)
  PROVE  Store!Next
<1>1. task[t] \in Request /\ task \in [Tasks -> Request \cup {Idle}]
  BY SweepIs DEF IInv, TypeOK
<1>2. UNCHANGED <<content, markers>>
  BY DEF Ready, Backfill, Complete, BackfillFails, Judge, Bucket
<1>3. ASSUME ~Judge(t)
      PROVE  /\ task'[t].todo = task[t].todo /\ task'[t].keep = task[t].keep
             /\ task'[t].pc \in {"list", "backfill", "judge"}
             /\ \A u \in Tasks \ {t} : task'[u] = task[u]
  <2>1. ASSUME NEW whole \in BOOLEAN, Ready(t, whole)
        PROVE  /\ task'[t].todo = task[t].todo /\ task'[t].keep = task[t].keep
               /\ task'[t].pc = "list" /\ \A u \in Tasks \ {t} : task'[u] = task[u]
    BY <1>1, <2>1 DEF Ready, Request
  <2>2. ASSUME NEW c \in Claim, Backfill(t, c)
        PROVE  /\ task'[t].todo = task[t].todo /\ task'[t].keep = task[t].keep
               /\ task'[t].pc = "backfill" /\ \A u \in Tasks \ {t} : task'[u] = task[u]
    BY <1>1, <2>2 DEF Backfill, Request
  <2>3. CASE Complete(t)
    BY <1>1, <2>3 DEF Complete, Goto, Request
  <2>4. CASE BackfillFails(t)
    BY <1>1, <2>4 DEF BackfillFails, Request
  <2>5. QED
    BY <1>3, <2>1, <2>2, <2>3, <2>4
<1>4. CASE ~Judge(t)
  BY <1>2, <1>3, <1>4, SweepRecedes, QuietRefines DEF Removing
<1>5. CASE Judge(t)
  <2>1. /\ task'[t].todo = {m \in task[t].todo : Droppable(m, task[t].keep)}
        /\ task'[t].pc = "next"
        /\ \A u \in Tasks \ {t} : task'[u] = task[u]
    BY <1>1, <1>5 DEF Judge, Request
  <2>2. \A e \in task'[t].todo : e \in task[t].todo /\ e.oid \notin task[t].keep
    BY <2>1 DEF Droppable
  <2>3. QED
    BY <1>2, <2>1, <2>2, SweepRecedes, QuietRefines DEF Removing
<1>6. QED
  BY <1>4, <1>5

\* What it picks it had come upon, and nobody wrote a ref for it yet.
LEMMA PickRefines ==
  ASSUME IInv, NEW t \in Tasks, Sweeping(t), NEW m \in task[t].todo,
         NEW frees \in BOOLEAN, Pick(t, m, frees)
  PROVE  Store!Next
<1>1. /\ task[t] \in Request /\ task \in [Tasks -> Request \cup {Idle}]
      /\ task[t].pc = "next" /\ task[t].keep = {} /\ m.repo = task[t].repo
  BY SweepIs DEF IInv, TypeOK, Pick, SweepShape
<1>2. /\ task'[t].pc = "unmark" /\ task'[t].oid = m.oid /\ task'[t].since = {}
      /\ task'[t].todo \subseteq task[t].todo /\ task'[t].keep = task[t].keep
      /\ task'[t].repo = task[t].repo
      /\ \A u \in Tasks \ {t} : task'[u] = task[u]
  BY <1>1 DEF Pick, Request
<1>3. Target(t)' = ClaimOf(m)
  BY <1>1, <1>2 DEF Target, ClaimOf
<1>4. ASSUME NEW c \in Dropping(t)' PROVE c \in Dropping(t)
  <2>1. c = ClaimOf(m) \/ \E e \in task[t].todo : ClaimOf(e) = c
    BY <1>2, <1>3 DEF Dropping
  <2>2. QED
    BY <1>1, <2>1, DroppingIs
<1>5. Window(t)' = {}
  BY <1>2 DEF Window
<1>6. Recedes(t)
  BY <1>2, <1>4, <1>5 DEF Recedes
<1>7. QED
  BY <1>6, QuietRefines DEF Pick, Bucket

\* A sweep that goes on with what it picked, and does not delete.
LEMMA RemovingRefines ==
  ASSUME IInv, NEW t \in Tasks, Sweeping(t), Unref(t) \/ Ask(t)
  PROVE  Store!Next
<1>1. task[t].pc # "idle" /\ Removing(t) /\ UNCHANGED <<content, markers>>
  BY DEF Unref, Ask, Removing, Bucket
<1>2. \E pc \in {"ask", "erase", "next"} : Goto(t, pc)
  BY DEF Unref, Ask
<1>3. QED
  BY <1>1, <1>2, GotoRecedes, QuietRefines DEF IInv, Steps

\* A page of the listing is come upon, and nothing else happens.
LEMMA ListRefines ==
  ASSUME IInv, NEW t \in Tasks, Sweeping(t), NEW r \in Repos, List(t, r)
  PROVE  Store!Next
<1>1. /\ task[t] \in Request /\ task \in [Tasks -> Request \cup {Idle}]
      /\ task[t].pc = "list"
  BY SweepIs DEF IInv, TypeOK, List
<1>2. /\ task'[t].todo = IF r = task[t].repo THEN {m \in markers : m.repo = r}
                                             ELSE task[t].todo
      /\ task'[t].keep = task[t].keep
      /\ task'[t].pc \in {"list", "backfill", "judge"}
      /\ \A u \in Tasks \ {t} : task'[u] = task[u]
      /\ UNCHANGED <<content, markers>>
  BY <1>1 DEF List, Request, Bucket
<1>3. ~Removing(t)' /\ ~Removing(t)
  BY <1>1, <1>2 DEF Removing
<1>4. PICK own : own = task[t].repo
  OBVIOUS
<1>5. ASSUME NEW c \in Dropping(t)', c \notin Dropping(t)
      PROVE  c \in {own} \X Oids
  <2>1. PICK e \in task'[t].todo : e.oid \notin task[t].keep /\ ClaimOf(e) = c
    BY <1>2, <1>3, <1>5 DEF Dropping, Removing
  <2>2. e \notin task[t].todo
    BY <1>5, <2>1, DroppingIs
  <2>3. e \in markers /\ e.repo = own
    BY <1>2, <1>4, <2>1, <2>2
  <2>4. QED
    BY <2>1, <2>3 DEF ClaimOf, IInv, TypeOK, Entry
<1>6. ASSUME NEW u \in Tasks, NEW c \in Dropping(u)', c \notin {own} \X Oids
      PROVE  c \in Dropping(u)
  BY <1>2, <1>5, <1>6, SameTask
<1>7. \A u \in Tasks : \A c : c \in Window(u)' <=> c \in Window(u)
  <2>1. ASSUME NEW u \in Tasks \ {t} PROVE Window(u)' = Window(u)
    BY <1>2, SameWindow
  <2>2. Window(t)' = {} /\ Window(t) = {}
    BY <1>3 DEF Window
  <2>3. QED
    BY <2>1, <2>2
<1>8. Readable' = Readable
  BY <1>2 DEF Readable, Claims, ClaimOf
<1>9. \A c : c \in (UNION {Dropping(u) : u \in Tasks})' <=> \E u \in Tasks : c \in Dropping(u)'
  OBVIOUS
<1>10. \A c : c \in (UNION {task[u].since \X {task[u].oid} : u \in {v \in Tasks : Removing(v)}})'
                <=> \E u \in Tasks : c \in Window(u)'
  BY DEF Window
<1>11. (UNION {Dropping(u) : u \in Tasks})' \ UNION {Dropping(u) : u \in Tasks}
         \subseteq {own} \X Oids
  BY <1>6, <1>9, MappingIs
<1>12. (UNION {task[u].since \X {task[u].oid} : u \in {v \in Tasks : Removing(v)}})'
         = UNION {task[u].since \X {task[u].oid} : u \in {v \in Tasks : Removing(v)}}
  BY <1>7, <1>10, MappingIs
<1>13. Store!Consider(own)
  BY <1>8, <1>11, <1>12 DEF Store!Consider, Readable
<1>14. own \in Repos
  BY <1>1, <1>4 DEF Request
<1>15. QED
  BY <1>13, <1>14 DEF Store!Next

\* The claim of the push is what the window may gain.
LEMMA WriteRefRefines ==
  ASSUME IInv, NEW t \in Tasks, WriteRef(t)
  PROVE  Store!Next
<1>1. /\ task[t] \in Request /\ task[t].op # "sweep" /\ task[t].pc = "ref"
  BY RequestType DEF WriteRef, IInv, Sound, StepsMatchOp
<1>2. PICK c : c = Target(t)
  OBVIOUS
<1>3. ASSUME NEW u \in Tasks
      PROVE  /\ Dropping(u)' = Dropping(u)
             /\ \A x \in Window(u)' : x \in Window(u) \/ x = c
  <2>1. CASE task'[u] = task[u]
    BY <2>1, SameTask, SameWindow
  <2>2. CASE u = t
    <3>1. ~Sweeping(t) /\ ~Sweeping(t)'
      BY <1>1 DEF WriteRef, Sweeping, Request
    <3>2. QED
      BY <2>2, <3>1 DEF Dropping, Window, Removing
  <2>3. CASE u # t /\ task[u].pc = "erase" /\ task[u].oid = task[t].oid
    <3>1. task[u] \in Request
      BY <2>3, RequestType DEF IInv
    <3>2. /\ task'[u].pc = task[u].pc /\ task'[u].op = task[u].op
          /\ task'[u].repo = task[u].repo /\ task'[u].oid = task[u].oid
          /\ task'[u].keep = task[u].keep /\ task'[u].todo = task[u].todo
          /\ task'[u].since = task[u].since \cup {task[t].repo}
      BY <2>3, <3>1 DEF WriteRef, Request
    <3>3. Sweeping(u)' = Sweeping(u) /\ Removing(u)' = Removing(u)
      BY <3>2 DEF Sweeping, Removing
    <3>4. Dropping(u)' = Dropping(u)
      BY <3>2, <3>3 DEF Dropping, Target
    <3>5. \A x \in Window(u)' : x \in Window(u) \/ x = c
      BY <1>2, <2>3, <3>2, <3>3 DEF Window, Target
    <3>6. QED
      BY <3>4, <3>5
  <2>4. QED
    BY <2>1, <2>2, <2>3 DEF WriteRef
<1>4. Readable' = Readable
  BY DEF Readable, Claims, ClaimOf, WriteRef
<1>5. \A x : x \in (UNION {Dropping(u) : u \in Tasks})' <=> \E u \in Tasks : x \in Dropping(u)'
  OBVIOUS
<1>6. \A x : x \in (UNION {task[u].since \X {task[u].oid} : u \in {v \in Tasks : Removing(v)}})'
               <=> \E u \in Tasks : x \in Window(u)'
  BY DEF Window
<1>7. (UNION {Dropping(u) : u \in Tasks})' = UNION {Dropping(u) : u \in Tasks}
  BY <1>3, <1>5, MappingIs
<1>8. (UNION {task[u].since \X {task[u].oid} : u \in {v \in Tasks : Removing(v)}})'
        \ UNION {task[u].since \X {task[u].oid} : u \in {v \in Tasks : Removing(v)}}
        \subseteq {c}
  BY <1>3, <1>6, MappingIs
<1>9. Store!Expose(c)
  BY <1>4, <1>7, <1>8 DEF Store!Expose, Readable
<1>10. c \in Store!Claims
  BY <1>1, <1>2 DEF Target, Request, Store!Claims
<1>11. QED
  BY <1>9, <1>10 DEF Store!Next

\* What the bytes or the marker of an object give, they give those who claim it.
LEMMA GainRefines ==
  ASSUME IInv, NEW t \in Tasks, PutContent(t) \/ Mark(t)
  PROVE  Store!Next
<1>1. task[t] \in Request /\ task \in [Tasks -> Request \cup {Idle}]
  BY RequestType DEF PutContent, Mark, IInv, TypeOK
<1>2. task[t].op # "sweep"
  BY DEF PutContent, Mark, IInv, Sound, StepsMatchOp
<1>3. task'[t].op = task[t].op /\ \A u \in Tasks \ {t} : task'[u] = task[u]
  BY <1>1 DEF PutContent, Mark, Goto, Request
<1>4. Recedes(t)
  BY <1>2, <1>3, EmptyRecedes DEF Sweeping
<1>5. PICK o \in Oids : o = task[t].oid
  BY <1>1 DEF Request
<1>6. \A c \in Claims(markers)' : c \in Claim
  <2>1. markers' \subseteq Entry
    BY <1>1, EntryType DEF PutContent, Mark, IInv, TypeOK, Without
  <2>2. QED
    BY <2>1, ClaimOfEntry DEF Claims
<1>7. Readable \subseteq Readable' /\ Readable' \ Readable \subseteq Repos \X {o}
  <2>1. CASE PutContent(t)
    <3>1. content' = content \cup {o} /\ Claims(markers)' = Claims(markers)
      BY <1>5, <2>1 DEF PutContent, Claims
    <3>2. QED
      BY <1>6, <3>1 DEF Readable, Claim
  <2>2. CASE Mark(t)
    <3>1. PICK e : e = [repo |-> task[t].repo, oid |-> o, at |-> clock]
      OBVIOUS
    <3>2. ClaimOf(e) = Target(t) /\ ClaimOf(e)[2] = o
      BY <1>5, <3>1 DEF ClaimOf, Target
    <3>3. markers' = Without(markers, ClaimOf(e)) \cup {e} /\ content' = content
      BY <1>5, <2>2, <3>1, <3>2 DEF Mark
    <3>4. Claims(markers)' = Claims(markers) \cup {ClaimOf(e)}
      BY <3>3, RenewedClaims
    <3>5. QED
      BY <1>6, <3>2, <3>3, <3>4 DEF Readable, Claim
  <2>3. QED
    BY <2>1, <2>2
<1>8. Store!Gain(o)
  BY <1>4, <1>7, RecedesEnds DEF Store!Gain, Readable
<1>9. QED
  BY <1>5, <1>8 DEF Store!Next

\* The marker that goes is one the sweep came upon.
LEMMA UnmarkRefines ==
  ASSUME IInv, NEW t \in Tasks, Sweeping(t), Unmark(t)
  PROVE  Store!Next
<1>1. Removing(t) /\ task[t].pc # "idle" /\ task[t] \in Request
  BY SweepIs DEF Removing, Unmark
<1>2. Recedes(t)
  BY <1>1, GotoRecedes DEF Unmark, IInv, Steps
<1>3. PICK c : c = Target(t)
  OBVIOUS
<1>4. c \in UNION {Dropping(u) : u \in Tasks} /\ c \in Store!Claims
  BY <1>1, <1>3, DroppingIs DEF Target, Request, Store!Claims
<1>5. Claims(markers)' = Claims(markers) \ {c} /\ content' = content
  BY <1>3, WithoutClaims DEF Unmark
<1>6. Readable' = Readable \ {c}
  BY <1>5 DEF Readable
<1>7. Store!Collect(c)
  BY <1>2, <1>4, <1>6, RecedesEnds DEF Store!Collect, Readable
<1>8. QED
  BY <1>4, <1>7 DEF Store!Next

\* Who still has a marker when the bytes go is in the window.
LEMMA EraseRefines ==
  ASSUME IInv, NEW t \in Tasks, Sweeping(t), Erase(t)
  PROVE  Store!Next
<1>1. Removing(t) /\ task[t].pc = "erase" /\ Sound(t)
  BY DEF Removing, Erase, IInv
<1>2. Recedes(t)
  BY <1>1, GotoRecedes DEF Erase, IInv, Steps
<1>3. Claims(markers)' = Claims(markers) /\ content' = content \ {task[t].oid}
  BY DEF Erase, Claims
<1>4. Readable' \subseteq Readable
  BY <1>3 DEF Readable
<1>5. ASSUME NEW c \in Readable, c \notin Readable'
      PROVE  c \in Window(t)
  <2>1. c \in Claims(markers) /\ c[2] = task[t].oid
    BY <1>3, <1>5 DEF Readable
  <2>2. c[1] \in Repos /\ c = <<c[1], c[2]>>
    BY <2>1, ClaimsOf, ClaimOfEntry DEF IInv, TypeOK, Claim
  <2>3. c[1] \in task[t].since
    BY <1>1, <2>1, <2>2 DEF Sound, EraseKnows
  <2>4. QED
    BY <1>1, <2>1, <2>2, <2>3 DEF Window
<1>6. Readable \ Readable'
        \subseteq UNION {task[u].since \X {task[u].oid} : u \in {v \in Tasks : Removing(v)}}
  BY <1>5, MappingIs
<1>7. Store!Lose
  BY <1>2, <1>4, <1>6, RecedesEnds DEF Store!Lose, Readable
<1>8. QED
  BY <1>7 DEF Store!Next

\* Where no request moves and no key that is read here.
LEMMA SameRefines ==
  ASSUME UNCHANGED <<content, markers, task>>
  PROVE  UNCHANGED Store!vars
<1>1. Readable' = Readable
  BY DEF Readable, Claims, ClaimOf
<1>2. ASSUME NEW u \in Tasks
      PROVE  Dropping(u)' = Dropping(u) /\ Window(u)' = Window(u)
  BY SameTask, SameWindow
<1>3. \A x : x \in (UNION {Dropping(u) : u \in Tasks})' <=> \E u \in Tasks : x \in Dropping(u)'
  OBVIOUS
<1>4. \A x : x \in (UNION {task[u].since \X {task[u].oid} : u \in {v \in Tasks : Removing(v)}})'
               <=> \E u \in Tasks : x \in Window(u)'
  BY DEF Window
<1>5. (UNION {Dropping(u) : u \in Tasks})' = UNION {Dropping(u) : u \in Tasks}
  BY <1>2, <1>3, MappingIs
<1>6. (UNION {task[u].since \X {task[u].oid} : u \in {v \in Tasks : Removing(v)}})'
        = UNION {task[u].since \X {task[u].oid} : u \in {v \in Tasks : Removing(v)}}
  BY <1>2, <1>4, MappingIs
<1>7. QED
  BY <1>1, <1>5, <1>6 DEF Store!vars, Readable

\* Every step of the bucket is one of the object store, or none.
LEMMA StepRefines ==
  ASSUME IInv, [Next]_vars
  PROVE  [Store!Next]_(Store!vars)
<1>1. ASSUME NEW t \in Tasks, Push(t) PROVE Store!Next
  BY <1>1, QuietPushRefines, WriteRefRefines, GainRefines DEF Push
<1>2. ASSUME NEW t \in Tasks, Sweeping(t), Sweep(t) PROVE Store!Next
  <2>1. CASE SweepDone(t)
    BY <2>1, EdgeRefines
  <2>2. ASSUME NEW r \in Repos, List(t, r) PROVE Store!Next
    BY <1>2, <2>2, ListRefines
  <2>3. ASSUME NEW m \in task[t].todo, NEW frees \in BOOLEAN, Pick(t, m, frees)
        PROVE  Store!Next
    BY <1>2, <2>3, PickRefines
  <2>4. QED
    BY <1>2, <2>1, <2>2, <2>3, QuietSweepRefines, UnmarkRefines, RemovingRefines,
       EraseRefines DEF Sweep
<1>3. ASSUME NEW t \in Tasks,
             \/ \E op \in {"store", "adopt"}, r \in Repos, o \in Oids : BeginPush(t, op, r, o)
             \/ \E r \in Repos, keep \in SUBSET Oids : BeginSweep(t, r, keep)
             \/ Fail(t)
      PROVE  Store!Next
  BY <1>3, EdgeRefines
<1>4. CASE \/ \E e \in incoming : Reclaim(e)
           \/ Tick
           \/ UNCHANGED vars
  BY <1>4, SameRefines DEF Reclaim, Tick, Bucket, vars
<1>5. QED
  BY <1>1, <1>2, <1>3, <1>4 DEF Next, Calm

\* Nothing is being swept at first.
LEMMA StoreInit == Init => Store!Init
<1> SUFFICES ASSUME Init PROVE Store!Init
  OBVIOUS
<1>1. \A t \in Tasks : task[t].pc = "idle"
  BY DEF Init, Idle
<1>2. \A t \in Tasks : Dropping(t) = {} /\ Window(t) = {}
  BY <1>1 DEF Dropping, Window, Removing, Sweeping
<1>3. Readable \subseteq Store!Claims
  BY DEF Init, Readable, Claims, ClaimOf, Claim, Store!Claims
<1>4. QED
  BY <1>2, <1>3, MappingIs DEF Store!Init, Readable

\* Whatever is pushed and swept, in whatever order of calls to the bucket and
\* with any of them the last of its request: what a repository can read goes by
\* its own sweep, or if its push wrote its ref after the last question of a
\* sweep about those bytes.
THEOREM BucketKeepsPromise == ~Contested => (Spec => StoreSpec)
<1> SUFFICES ASSUME ~Contested PROVE Spec => StoreSpec
  OBVIOUS
<1>1. Init => IInv
  BY InitHolds
<1>2. IInv /\ [Next]_vars => IInv'
  BY Inductive
<1>3. IInv /\ [Next]_vars => [Store!Next]_(Store!vars)
  BY StepRefines
<1>4. QED
  BY <1>1, <1>2, <1>3, StoreInit, PTL DEF Spec, StoreSpec, Store!Spec
=============================================================================
