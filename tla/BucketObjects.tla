--------------------------- MODULE BucketObjects ---------------------------
(***************************************************************************)
(* The object store of LFSX over a bucket (server/src/storage/s3.rs,       *)
(* s3/refs.rs, s3/collect.rs) and the requests that drive it: negotiation, *)
(* upload, verify and retain (server/src/routes).                          *)
(*                                                                         *)
(* An object's bytes are stored once, under its digest.  A repository that *)
(* holds them owns a marker; a claim index has one ref per marker, so that *)
(* a sweep can ask who else holds an object.  Nothing in the bucket is     *)
(* written together with anything else: every push and every sweep is a    *)
(* sequence of single-key requests, on any replica, and any of them may be *)
(* the last that happens.                                                  *)
(*                                                                         *)
(* A task is a request in flight, one call to the bucket per step.  The    *)
(* size index (s3/sizes.rs) is read by nothing here: a marker without a    *)
(* size is measured, a size without a marker is not counted.               *)
(***************************************************************************)
EXTENDS Integers, FiniteSets

CONSTANTS
  Repos,       \* repositories sharing the bucket
  Oids,        \* digests of objects
  Tasks,       \* pushes and sweeps in flight at a time
  Legacy,      \* TRUE when the bucket was filled before there was an index
  Contested,   \* whether a sweep may be dropping the object a push stores
  Presigned,   \* whether clients are handed URLs into the bucket
  Grace,       \* LFSX_GC_GRACE
  StagingAge,  \* LFSX_STAGING_MAX_AGE
  MaxClock,    \* bound: the last tick
  MaxIncoming  \* bound: uploads waiting under .incoming/

ASSUME ConstantsOK ==
  /\ Legacy \in BOOLEAN
  /\ Contested \in BOOLEAN
  /\ Presigned \in BOOLEAN
  /\ Grace \in Nat
  /\ StagingAge \in Nat
  /\ MaxClock \in Nat
  /\ MaxIncoming \in Nat
  /\ Oids # {}

VARIABLES
  content,   \* the objects under .content/
  markers,   \* the markers, each with the instant it was last written
  refs,      \* the claim index, .refs/
  complete,  \* whether .refs/.complete is there
  incoming,  \* uploads under .incoming/ that nobody adopted yet
  task,      \* the requests
  clock,     \* the bucket's clock
  told,      \* history: the last push of each claim answered 200, and its mark
  orphans    \* history: claims whose bytes went between question and delete

vars == <<content, markers, refs, complete, incoming, task, clock, told, orphans>>

-----------------------------------------------------------------------------
Claim == Repos \X Oids

\* A key that belongs to a repository and an object, and when it was written.
Entry == [repo : Repos, oid : Oids, at : Nat]

Steps == {"batch", "upload", "verify", "arrived", "ref", "head", "put", "mark",
          "tidy", "answer",
          "ready", "list", "backfill", "judge", "next", "unmark", "unref",
          "ask", "erase"}

Idle == [pc |-> "idle"]

\* A push uses repo, oid and at.  A sweep of repo keeps `keep`; it lists
\* `pages` yet to come, has seen its own markers (`todo`), those of everybody
\* (`backlog`) and the objects others claim (`elsewhere`), and is dealing with
\* oid.  `since` is history: who wrote a ref for oid after the last question.
Request == [pc : Steps, op : {"store", "adopt", "sweep"}, repo : Repos,
            oid : Oids, at : Nat, keep : SUBSET Oids, whole : BOOLEAN,
            pages : SUBSET Repos, todo : SUBSET Entry, backlog : SUBSET Claim,
            elsewhere : SUBSET Oids, frees : BOOLEAN, since : SUBSET Repos]

TypeOK ==
  /\ content \in SUBSET Oids
  /\ markers \in SUBSET Entry
  /\ refs \in SUBSET Claim
  /\ complete \in BOOLEAN
  /\ incoming \in SUBSET Entry
  /\ task \in [Tasks -> Request \cup {Idle}]
  /\ clock \in Nat
  /\ told \in SUBSET Entry
  /\ orphans \in SUBSET Claim

-----------------------------------------------------------------------------
(* What the code computes.                                                 *)

ClaimOf(e) == <<e.repo, e.oid>>

Claims(entries) == {ClaimOf(e) : e \in entries}

\* A key is overwritten, never duplicated.
Without(entries, c) == {e \in entries : ClaimOf(e) # c}

\* exists: the marker is the only thing asked.
Holds(c) == c \in Claims(markers)

Target(t) == <<task[t].repo, task[t].oid>>

Pushing(t) == task[t].pc # "idle" /\ task[t].op # "sweep"

Sweeping(t) == task[t].pc # "idle" /\ task[t].op = "sweep"

Removing(t) == Sweeping(t) /\ task[t].pc \in {"unmark", "unref", "ask", "erase"}

\* claimed_by_another: a ref of any repository but the one that asks.
ClaimedByAnother(t) ==
  \E r \in Repos \ {task[t].repo} : <<r, task[t].oid>> \in refs

\* droppable: not retained, and untouched for the length of the grace period.
Droppable(e, keep) == e.oid \notin keep /\ clock - e.at >= Grace

\* The claims a sweep has listed and not been told to keep, until it is done
\* with them.
Dropping(t) ==
  IF ~Sweeping(t) THEN {}
  ELSE {ClaimOf(e) : e \in {x \in task[t].todo : x.oid \notin task[t].keep}}
       \cup (IF task[t].pc \in {"unmark", "unref", "ask", "erase"}
               THEN {Target(t)} ELSE {})

\* Unless the model says otherwise, nobody pushes an object into a repository
\* while a sweep of that repository may be dropping that very object.
MayPush(c) == Contested \/ \A u \in Tasks : c \notin Dropping(u)

MayDrop(t, e) ==
  \/ Contested
  \/ e.oid \in task[t].keep
  \/ \A u \in Tasks \ {t} : Pushing(u) => Target(u) # ClaimOf(e)

Finish(t) == task' = [task EXCEPT ![t] = Idle]

Goto(t, pc) == task' = [task EXCEPT ![t].pc = pc]

Bucket  == <<content, markers, refs, complete, incoming>>
History == <<told, orphans>>

-----------------------------------------------------------------------------
\* A bucket some earlier version filled, with an index or without.
Init ==
  /\ markers \in {{[repo |-> c[1], oid |-> c[2], at |-> 0] : c \in held} :
                     held \in SUBSET Claim}
  /\ content = {m.oid : m \in markers}
  /\ complete = ~Legacy
  /\ refs = IF Legacy THEN {} ELSE Claims(markers)
  /\ incoming = {}
  /\ task = [t \in Tasks |-> Idle]
  /\ clock = 0
  /\ told = {}
  /\ orphans = {}

Blank(t, pc, op, r, o) ==
  [pc |-> pc, op |-> op, repo |-> r, oid |-> o, at |-> 0, keep |-> {},
   whole |-> FALSE, pages |-> {}, todo |-> {}, backlog |-> {},
   elsewhere |-> {}, frees |-> FALSE, since |-> {}]

\* A client means to push one object, through the server or past it.
BeginPush(t, op, r, o) ==
  /\ task[t].pc = "idle"
  /\ op = "adopt" => Presigned
  /\ MayPush(<<r, o>>)
  /\ task' = [task EXCEPT ![t] = Blank(t, "batch", op, r, o)]
  /\ UNCHANGED <<Bucket, clock, History>>

\* batch, for an upload: an object the repository holds is not uploaded.  A
\* marker that cannot be read is one that is not there.
Batch(t) ==
  /\ task[t].pc = "batch"
  /\ \/ Holds(Target(t)) /\ Finish(t)
     \/ Goto(t, IF task[t].op = "adopt" THEN "upload" ELSE "ref")
  /\ UNCHANGED <<Bucket, clock, History>>

\* The client puts the bytes under the key it was handed a signature for.
Upload(t) ==
  /\ task[t].pc = "upload"
  /\ Cardinality(Without(incoming, Target(t))) < MaxIncoming
  /\ incoming' = Without(incoming, Target(t)) \cup
                   {[repo |-> task[t].repo, oid |-> task[t].oid, at |-> clock]}
  /\ Goto(t, "verify")
  /\ UNCHANGED <<content, markers, refs, complete, clock, History>>

\* verify: the repository may hold the object already.
Verify(t) ==
  /\ task[t].pc = "verify"
  /\ \/ Holds(Target(t)) /\ Finish(t)
     \/ Goto(t, "arrived")
  /\ UNCHANGED <<Bucket, clock, History>>

\* And then something has to have arrived.
Arrived(t) ==
  /\ task[t].pc = "arrived"
  /\ IF Target(t) \in Claims(incoming) THEN Goto(t, "ref") ELSE Finish(t)
  /\ UNCHANGED <<Bucket, clock, History>>

\* Mutant of WriteRef: adopt forgets the index.
WriteRefOfStore(t) ==
  /\ task[t].pc = "ref"
  /\ refs' = IF task[t].op = "store" THEN refs \cup {Target(t)} ELSE refs
  /\ Goto(t, "head")
  /\ UNCHANGED <<content, markers, complete, incoming, clock, History>>

\* store and adopt: the ref goes first, before the content is looked at.
WriteRef(t) ==
  /\ task[t].pc = "ref"
  /\ refs' = refs \cup {Target(t)}
  /\ task' = [u \in Tasks |->
       IF u = t THEN [task[t] EXCEPT !.pc = "head"]
       ELSE IF task[u].pc = "erase" /\ task[u].oid = task[t].oid
              THEN [task[u] EXCEPT !.since = @ \cup {task[t].repo}]
              ELSE task[u]]
  /\ UNCHANGED <<content, markers, complete, incoming, clock, History>>

\* Content that is there is not sent again; a question that fails is a no.
HeadContent(t) ==
  /\ task[t].pc = "head"
  /\ \/ task[t].oid \in content /\ Goto(t, "mark")
     \/ Goto(t, "put")
  /\ UNCHANGED <<Bucket, clock, History>>

\* put_file from the staging file, or a copy of what the client uploaded.
PutContent(t) ==
  /\ task[t].pc = "put"
  /\ task[t].op = "adopt" => Target(t) \in Claims(incoming)
  /\ content' = content \cup {task[t].oid}
  /\ orphans' = {c \in orphans : c[2] # task[t].oid}
  /\ Goto(t, "mark")
  /\ UNCHANGED <<markers, refs, complete, incoming, clock, told>>

\* Mutant of Mark: a marker that is there is not written again.
MarkOnce(t) ==
  /\ task[t].pc = "mark"
  /\ markers' = IF Holds(Target(t)) THEN markers ELSE markers \cup
       {[repo |-> task[t].repo, oid |-> task[t].oid, at |-> clock]}
  /\ task' = [task EXCEPT ![t].at = clock, ![t].pc = "answer"]
  /\ UNCHANGED <<content, refs, complete, incoming, clock, History>>

\* The marker makes the object this repository's, and dates it.
Mark(t) ==
  /\ task[t].pc = "mark"
  /\ markers' = Without(markers, Target(t)) \cup
                  {[repo |-> task[t].repo, oid |-> task[t].oid, at |-> clock]}
  /\ task' = [task EXCEPT ![t].at = clock,
                ![t].pc = IF task[t].op = "adopt" THEN "tidy" ELSE "answer"]
  /\ UNCHANGED <<content, refs, complete, incoming, clock, History>>

\* An adopted upload is cleaned up, or a warning says it was not.
Tidy(t) ==
  /\ task[t].pc = "tidy"
  /\ incoming' \in {incoming, Without(incoming, Target(t))}
  /\ Goto(t, "answer")
  /\ UNCHANGED <<content, markers, refs, complete, clock, History>>

Answer(t) ==
  /\ task[t].pc = "answer"
  /\ told' = Without(told, Target(t)) \cup
       {[repo |-> task[t].repo, oid |-> task[t].oid, at |-> task[t].at]}
  /\ Finish(t)
  /\ UNCHANGED <<Bucket, clock, orphans>>

\* An administrator asks for everything but `keep` to be collected.
BeginSweep(t, r, keep) ==
  /\ task[t].pc = "idle"
  /\ task' = [task EXCEPT ![t] =
       [Blank(t, "ready", "sweep", r, CHOOSE o \in Oids : TRUE) EXCEPT !.keep = keep]]
  /\ UNCHANGED <<Bucket, clock, History>>

\* The index is used once something said it is whole.
Ready(t, whole) ==
  /\ task[t].pc = "ready"
  /\ whole \/ complete
  /\ task' = [task EXCEPT ![t].pc = "list", ![t].whole = whole,
                ![t].pages = IF whole THEN Repos ELSE {task[t].repo}]
  /\ UNCHANGED <<Bucket, clock, History>>

\* One page of the listing.  Pages of different repositories are read at
\* different times.  A listing that fails is as good as an empty one, and
\* ends the sweep.
List(t, r) ==
  /\ task[t].pc = "list"
  /\ r \in task[t].pages
  /\ r = task[t].repo => \A m \in markers : m.repo = r => MayDrop(t, m)
  /\ LET page  == {m \in markers : m.repo = r}
         rest  == task[t].pages \ {r}
         after == IF task[t].whole THEN "backfill" ELSE "judge"
     IN task' = [task EXCEPT
          ![t].pages = rest,
          ![t].pc = IF rest = {} THEN after ELSE "list",
          ![t].todo = IF r = task[t].repo THEN page ELSE @,
          ![t].backlog = IF task[t].whole THEN @ \cup Claims(page) ELSE @,
          ![t].elsewhere = IF r # task[t].repo
                             THEN @ \cup {m.oid : m \in page} ELSE @]
  /\ UNCHANGED <<Bucket, clock, History>>

\* backfill: a ref for every marker that was listed, in no order.
Backfill(t, c) ==
  /\ task[t].pc = "backfill"
  /\ c \in task[t].backlog
  /\ refs' = refs \cup {c}
  /\ task' = [task EXCEPT ![t].backlog = @ \ {c}]
  /\ UNCHANGED <<content, markers, complete, incoming, clock, History>>

\* And then the word that there is one for each.
Complete(t) ==
  /\ task[t].pc = "backfill"
  /\ task[t].backlog = {}
  /\ complete' = TRUE
  /\ Goto(t, "judge")
  /\ UNCHANGED <<content, markers, refs, incoming, clock, History>>

\* Mutant of BackfillFails: the index is said to be whole all the same.
BackfillFailsQuietly(t) ==
  /\ task[t].pc = "backfill"
  /\ complete' = TRUE
  /\ task' = [task EXCEPT ![t].pc = "judge", ![t].backlog = {}]
  /\ UNCHANGED <<content, markers, refs, incoming, clock, History>>

\* A write that fails ends the backfill and not the sweep.
BackfillFails(t) ==
  /\ task[t].pc = "backfill"
  /\ task' = [task EXCEPT ![t].pc = "judge", ![t].backlog = {}]
  /\ UNCHANGED <<Bucket, clock, History>>

\* droppable, over the markers as they were listed.
Judge(t) ==
  /\ task[t].pc = "judge"
  /\ task' = [task EXCEPT ![t].pc = "next",
                ![t].todo = {m \in @ : Droppable(m, task[t].keep)},
                ![t].keep = {}]
  /\ UNCHANGED <<Bucket, clock, History>>

SweepDone(t) ==
  /\ task[t].pc = "next"
  /\ task[t].todo = {}
  /\ Finish(t)
  /\ UNCHANGED <<Bucket, clock, History>>

\* The first question: would dropping this marker free the bytes?  The whole
\* listing answers it, or else the index, which fails towards a no.
Pick(t, m, frees) ==
  /\ task[t].pc = "next"
  /\ m \in task[t].todo
  /\ frees => IF task[t].whole
                THEN m.oid \notin task[t].elsewhere
                ELSE \A r \in Repos \ {task[t].repo} : <<r, m.oid>> \notin refs
  /\ task' = [task EXCEPT ![t].pc = "unmark", ![t].oid = m.oid,
                ![t].todo = @ \ {m}, ![t].frees = frees, ![t].since = {}]
  /\ UNCHANGED <<Bucket, clock, History>>

\* Mutant of Unmark: the ref goes before the marker.
UnrefFirst(t) ==
  /\ task[t].pc = "unmark"
  /\ refs' = refs \ {Target(t)}
  /\ Goto(t, "unref")
  /\ UNCHANGED <<content, markers, complete, incoming, clock, History>>

\* drop_marker: the marker goes first.
Unmark(t) ==
  /\ task[t].pc = "unmark"
  /\ markers' = Without(markers, Target(t))
  /\ Goto(t, "unref")
  /\ UNCHANGED <<content, refs, complete, incoming, clock, History>>

\* The ref goes after it, or a warning says it stayed.
Unref(t) ==
  /\ task[t].pc = "unref"
  /\ refs' \in {refs, refs \ {Target(t)}}
  /\ Goto(t, IF task[t].frees THEN "ask" ELSE "next")
  /\ UNCHANGED <<content, markers, complete, incoming, clock, History>>

\* Mutant of Ask: the first answer is good enough.
AskNobody(t) ==
  /\ task[t].pc = "ask"
  /\ Goto(t, "erase")
  /\ UNCHANGED <<Bucket, clock, History>>

\* claimed_since: the index is asked again right before the bytes go, and any
\* failure to answer is a yes.
Ask(t) ==
  /\ task[t].pc = "ask"
  /\ \/ ~ClaimedByAnother(t) /\ Goto(t, "erase")
     \/ Goto(t, "next")
  /\ UNCHANGED <<Bucket, clock, History>>

Erase(t) ==
  /\ task[t].pc = "erase"
  /\ content' = content \ {task[t].oid}
  /\ orphans' = IF task[t].oid \in content
                  THEN orphans \cup {<<r, task[t].oid>> : r \in task[t].since}
                  ELSE orphans
  /\ Goto(t, "next")
  /\ UNCHANGED <<markers, refs, complete, incoming, clock, told>>

\* A call fails, the process stops, the caller leaves: the request goes no
\* further, and what it wrote stays.
Fail(t) ==
  /\ task[t].pc # "idle"
  /\ Finish(t)
  /\ UNCHANGED <<Bucket, clock, History>>

\* reclaim_incoming: uploads nobody came back for.
Reclaim(e) ==
  /\ clock - e.at >= StagingAge
  /\ incoming' = incoming \ {e}
  /\ UNCHANGED <<content, markers, refs, complete, task, clock, History>>

Tick ==
  /\ clock < MaxClock
  /\ clock' = clock + 1
  /\ UNCHANGED <<Bucket, task, History>>

Push(t) ==
  \/ Batch(t) \/ Upload(t) \/ Verify(t) \/ Arrived(t) \/ WriteRef(t)
  \/ HeadContent(t) \/ PutContent(t) \/ Mark(t) \/ Tidy(t) \/ Answer(t)

Sweep(t) ==
  \/ \E whole \in BOOLEAN : Ready(t, whole)
  \/ \E r \in Repos : List(t, r)
  \/ \E c \in Claim : Backfill(t, c)
  \/ Complete(t) \/ BackfillFails(t) \/ Judge(t) \/ SweepDone(t)
  \/ \E m \in task[t].todo, frees \in BOOLEAN : Pick(t, m, frees)
  \/ Unmark(t) \/ Unref(t) \/ Ask(t) \/ Erase(t)

\* What happens when nothing fails.
Calm ==
  \/ \E t \in Tasks, op \in {"store", "adopt"}, r \in Repos, o \in Oids :
       BeginPush(t, op, r, o)
  \/ \E t \in Tasks, r \in Repos, keep \in SUBSET Oids : BeginSweep(t, r, keep)
  \/ \E t \in Tasks : Push(t)
  \/ \E t \in Tasks : Sweeping(t) /\ Sweep(t)
  \/ \E e \in incoming : Reclaim(e)
  \/ Tick

Next == Calm \/ \E t \in Tasks : Fail(t)

Spec == Init /\ [][Next]_vars

-----------------------------------------------------------------------------
(* Properties.                                                             *)

\* The index may name a holder that has gone and never misses one that is
\* there: once it is said to be whole, every marker has its ref, whatever
\* crashed in between (refs.rs, the comment on the index; buckets.md,
\* "Collection works here").
IndexCovers == complete => Claims(markers) \subseteq refs

\* A repository that holds a marker can read the bytes.  The one exception is
\* the window collect.rs admits: its push wrote its ref after a sweep asked
\* for the last time and before that sweep's delete (collect.rs,
\* claimed_since).
BytesKept == \A c \in Claims(markers) : c[2] \in content \/ c \in orphans

\* An object whose push was answered is still held for as long as the grace
\* period lasts, whichever sweeps ran meanwhile and whatever they were told
\* to keep (collect.rs, droppable; reclaiming-space.md, "anything touched
\* within LFSX_GC_GRACE is never taken").
PushKept ==
  \A p \in told :
    clock - p.at < Grace => /\ Holds(ClaimOf(p))
                            /\ p.oid \in content \/ ClaimOf(p) \in orphans

\* The bucket keeps the promise of an object store: what a repository can read
\* goes by its own sweep, or if its push came after a sweep asked for the last
\* time who else holds it.
Store == INSTANCE ObjectStore WITH
  holds <- {c \in Claims(markers) : c[2] \in content},
  collecting <- UNION {Dropping(t) : t \in Tasks},
  exposed <- UNION {task[t].since \X {task[t].oid} : t \in {u \in Tasks : Removing(u)}}
StoreSpec == Store!Spec

-----------------------------------------------------------------------------
(* The inductive invariant behind the safety properties.                   *)

\* A push that wrote its ref and is not marked yet.
Claiming(t) == Pushing(t) /\ task[t].pc \in {"head", "put", "mark"}

\* A sweep that is done listing.
Listed(t) == Sweeping(t) /\ task[t].pc \notin {"ready", "list"}

StepsMatchOp(t) ==
  task[t].pc # "idle" =>
    (task[t].op = "sweep" <=>
       task[t].pc \in {"ready", "list", "backfill", "judge", "next", "unmark",
                       "unref", "ask", "erase"})

\* What a sweep carries from one step to the next.
SweepShape(t) ==
  Sweeping(t) =>
    /\ \A e \in task[t].todo : e.repo = task[t].repo
    /\ Listed(t) => task[t].pages = {}
    /\ task[t].pc = "backfill" => task[t].whole
    /\ task[t].pc = "next" \/ Removing(t) => task[t].keep = {}
    /\ task[t].pc # "ready" /\ ~task[t].whole => complete

ClaimsIndexed(t) == Claiming(t) => Target(t) \in refs

\* Past the marker, the sweeping repository has no claim left.
Dropped(t) ==
  Sweeping(t) /\ task[t].pc \in {"unref", "ask", "erase"} =>
    Target(t) \notin Claims(markers)

\* A marker without a ref is one the sweep that builds the index knows of, or
\* has yet to read.
BacklogCovers(t) ==
  Sweeping(t) /\ task[t].whole /\ task[t].pc \in {"list", "backfill"} =>
    \A c \in Claims(markers) :
      c \in refs \/ c[1] \in task[t].pages \/ c \in task[t].backlog

\* And one that every sweep of the whole bucket counts as a claim.
ElsewhereCovers(t) ==
  Sweeping(t) /\ task[t].whole /\ task[t].pc # "ready" =>
    \A c \in Claims(markers) :
      \/ c \in refs
      \/ c[1] = task[t].repo
      \/ c[1] \in task[t].pages
      \/ c[2] \in task[t].elsewhere

FreesKnown(t) ==
  /\ Removing(t) /\ task[t].frees /\ task[t].whole =>
       task[t].oid \notin task[t].elsewhere
  /\ Sweeping(t) /\ task[t].pc \in {"ask", "erase"} => task[t].frees

\* Whoever else claims the object about to go claimed it after the question.
EraseKnows(t) ==
  Sweeping(t) /\ task[t].pc = "erase" =>
    \A r \in Repos :
      \/ <<r, task[t].oid>> \in Claims(markers)
      \/ \E u \in Tasks : Claiming(u) /\ Target(u) = <<r, task[t].oid>>
      => r \in task[t].since

MarkBacked(t) ==
  Pushing(t) /\ task[t].pc = "mark" =>
    task[t].oid \in content \/ Target(t) \in orphans

\* A push about to answer is answering for a marker that is there.
AnswerMarked(t) ==
  Pushing(t) /\ task[t].pc \in {"tidy", "answer"} =>
    /\ Target(t) \in Claims(markers)
    /\ task[t].at <= clock
    /\ \A m \in markers : ClaimOf(m) = Target(t) => task[t].at <= m.at

\* What a sweep means to drop was marked after every answered push of it, and
\* once judged it is past its grace.
TodoOld(t) ==
  Sweeping(t) =>
    /\ \A e \in task[t].todo, p \in told :
         e.oid \notin task[t].keep /\ ClaimOf(e) = ClaimOf(p) => p.at <= e.at
    /\ task[t].pc = "next" \/ Removing(t) =>
         \A e \in task[t].todo : clock - e.at >= Grace
    /\ task[t].pc = "unmark" =>
         \A p \in told : ClaimOf(p) = Target(t) => clock - p.at >= Grace

\* What holds of one request, whatever the others do.
Sound(t) ==
  /\ StepsMatchOp(t)
  /\ SweepShape(t)
  /\ ClaimsIndexed(t)
  /\ Dropped(t)
  /\ BacklogCovers(t)
  /\ ElsewhereCovers(t)
  /\ FreesKnown(t)
  /\ EraseKnows(t)
  /\ MarkBacked(t)
  /\ AnswerMarked(t)
  /\ TodoOld(t)

\* Nobody pushes what a sweep of the same repository is dropping.
Apart ==
  \A t, u \in Tasks : Pushing(t) => Target(t) \notin Dropping(u)

\* No marker is older than the push it was answered for.
MarksFresh ==
  /\ \A p \in told : p.at <= clock
  /\ \A m \in markers, p \in told : ClaimOf(m) = ClaimOf(p) => p.at <= m.at

ToldHeld ==
  \A p \in told : clock - p.at < Grace => ClaimOf(p) \in Claims(markers)

IInv ==
  /\ TypeOK
  /\ \A t \in Tasks : Sound(t)
  /\ Apart
  /\ IndexCovers
  /\ BytesKept
  /\ MarksFresh
  /\ ToldHeld
=============================================================================
