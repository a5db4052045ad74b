----------------------------- MODULE LocalStore -----------------------------
(***************************************************************************)
(* The object store of LFSX over a volume (server/src/storage/mod.rs,      *)
(* sweep.rs, dedupe.rs, rewrite.rs, staging.rs).                           *)
(*                                                                         *)
(* An object's bytes are one inode with a name under .content and a hard   *)
(* link in each repository that holds them; an upload has a .part name     *)
(* first.  The filesystem's link count is the reference count.  No         *)
(* operation takes a lock: each is a sequence of links, renames, removals  *)
(* and questions, by name, and any of them may be the last.                *)
(*                                                                         *)
(* A task is one operation on one object, one system call per step.  A     *)
(* sweep or a migration of a whole repository is one task per object that  *)
(* its walk found.  Dry runs change nothing and are left out.              *)
(***************************************************************************)
EXTENDS Integers, FiniteSets

CONSTANTS
  Repos,       \* repositories on the volume
  Oids,        \* digests of objects
  Tasks,       \* operations in flight at a time
  Inodes,      \* bound: files there is room for
  None,        \* no file
  Ops,         \* what the clients and administrators ask for
  Loose,       \* what was stored before there was .content
  Compresses,  \* whether LFSX_COMPRESSION is set
  Interrupts,  \* whether tasks may be dropped and the process killed
  Meets,       \* whether a ticket may name a .part that an earlier one left
  Grace,       \* LFSX_GC_GRACE
  StagingAge,  \* LFSX_STAGING_MAX_AGE
  MaxClock,    \* bound: the last tick
  MaxTicket    \* bound: the last ticket of a process

ASSUME ConstantsOK ==
  /\ None \notin Inodes
  /\ Ops \subseteq {"push", "sweep", "dedupe", "compress", "open"}
  /\ Loose \subseteq Repos \X Oids
  /\ Compresses \in BOOLEAN
  /\ Interrupts \in BOOLEAN
  /\ Meets \in BOOLEAN
  /\ Grace \in Nat
  /\ StagingAge \in Nat
  /\ MaxClock \in Nat
  /\ MaxTicket \in Nat

VARIABLES
  dir,      \* the file of every name
  data,     \* what is in each file
  mtime,    \* when it was last written
  counter,  \* the next ticket of this process
  task,     \* the operations
  clock,    \* the volume's clock
  told      \* history: what repositories hold, and whether it was lost to them

files == <<dir, data, mtime>>
vars  == <<dir, data, mtime, counter, task, clock, told>>

-----------------------------------------------------------------------------
(* Names and files.                                                        *)

Content(o)    == <<"content", o>>
Object(r, o)  == <<"object", r, o>>
Part(r, o, n) == <<"part", r, o, n>>

Tickets == 0 .. MaxTicket

Contents == {Content(o) : o \in Oids}
Objects  == {Object(r, o) : r \in Repos, o \in Oids}
Parts    == {Part(r, o, n) : r \in Repos, o \in Oids, n \in Tickets}
Names    == Contents \cup Objects \cup Parts

Exists(name) == dir[name] # None

Same(a, b) == Exists(a) /\ dir[a] = dir[b]

\* st_nlink of the file a name stands for.
LinksTo(name) == Cardinality({n \in Names : Same(n, name)})

\* Bytes of the object, and bytes the codec makes the object of.
Whole == {"raw", "framed"}

Steps == {"create", "stream", "find", "publish", "link", "relink", "again",
          "tidy", "refused",
          "stat", "remove", "count", "probe", "erase",
          "compare", "hash", "stage", "swap", "vouch", "move", "back", "undo",
          "inspect", "rewrite", "fill", "share", "replace", "restage",
          "open", "reopen", "serve"}

Idle == [pc |-> "idle", fd |-> None, src |-> None]

\* part is the name an operation stages under, fd the file it has open, src
\* the one it reads from, ask the repositories a sweep has yet to look into,
\* framed whether what is read was found to be a frame.
Operation == [pc : Steps, op : Ops, repo : Repos, oid : Oids, ticket : Tickets,
              fd : Inodes \cup {None}, src : Inodes \cup {None},
              ask : SUBSET Repos, framed : BOOLEAN]

TypeOK ==
  /\ dir \in [Names -> Inodes \cup {None}]
  /\ data \in [Inodes -> Whole \cup {"partial"}]
  /\ mtime \in [Inodes -> Nat]
  /\ counter \in 0 .. MaxTicket + 1
  /\ task \in [Tasks -> Operation \cup {Idle}]
  /\ clock \in Nat
  /\ told \in SUBSET [repo : Repos, oid : Oids, lost : BOOLEAN]

\* A file without a name that nobody has open.
Free(i) ==
  /\ \A n \in Names : dir[n] # i
  /\ \A t \in Tasks : i \notin {task[t].fd, task[t].src}

Mine(t)   == Object(task[t].repo, task[t].oid)
Shared(t) == Content(task[t].oid)
Staged(t) == Part(task[t].repo, task[t].oid, task[t].ticket)

Busy(t, pc) == task[t].pc = pc

\* What was answered of other claims.
Untold(t) == {p \in told : p.repo # task[t].repo \/ p.oid # task[t].oid}

Goto(t, pc) == task' = [task EXCEPT ![t].pc = pc]

Finish(t) == task' = [task EXCEPT ![t] = Idle]

\* link(2), where a name that is taken is taken for success, and what comes
\* after it.
Link(t, from, to, pc) ==
  /\ Exists(from)
  /\ dir' = IF Exists(to) THEN dir ELSE [dir EXCEPT ![to] = dir[from]]
  /\ Goto(t, pc)
  /\ UNCHANGED <<data, mtime, counter, clock>>

\* The push has its name.
Told(t) ==
  told' = Untold(t) \cup {[repo |-> task[t].repo, oid |-> task[t].oid, lost |-> FALSE]}

\* The shared name goes.  Who held the object by no other has lost it.
Bereaved(t) ==
  told' = {[p EXCEPT !.lost = @ \/ (/\ p.oid = task[t].oid /\ Exists(Shared(t))
                                   /\ ~Exists(Object(p.repo, p.oid))')] : p \in told}

\* rename(2) between two names of one file does nothing.
Renamed(from, to) ==
  IF Same(from, to) THEN dir ELSE [dir EXCEPT ![to] = dir[from], ![from] = None]

\* staging_path: the next ticket.  Other objects and the readiness probe draw
\* from the same counter.
Draw(t, n) ==
  /\ n = counter
  /\ n <= MaxTicket
  /\ Meets \/ ~Exists(Part(task[t].repo, task[t].oid, n))
  /\ counter' = n + 1

\* File::create truncates the file that has the name, or makes one.
Create(name, i) ==
  /\ IF Exists(name) THEN i = dir[name] ELSE Free(i)
  /\ dir' = [dir EXCEPT ![name] = i]
  /\ data' = [data EXCEPT ![i] = "partial"]
  /\ mtime' = [mtime EXCEPT ![i] = clock]

-----------------------------------------------------------------------------
Init ==
  \E home \in [Loose -> Inodes] :
    /\ \A c, d \in Loose : home[c] = home[d] => c = d
    /\ dir = [n \in Names |->
                IF \E c \in Loose : n = Object(c[1], c[2])
                  THEN home[<<n[2], n[3]>>] ELSE None]
    /\ data = [i \in Inodes |-> IF \E c \in Loose : home[c] = i
                                  THEN "raw" ELSE "partial"]
    /\ mtime = [i \in Inodes |-> 0]
    /\ counter = 0
    /\ task = [t \in Tasks |-> Idle]
    /\ clock = 0
    /\ told = {[repo |-> c[1], oid |-> c[2], lost |-> FALSE] : c \in Loose}

Begin(t, op, pc, r, o, seen) ==
  /\ op \in Ops
  /\ Busy(t, "idle")
  /\ task' = [task EXCEPT ![t] =
       [pc |-> pc, op |-> op, repo |-> r, oid |-> o, ticket |-> 0, fd |-> None,
        src |-> None, ask |-> seen, framed |-> FALSE]]
  /\ UNCHANGED <<files, counter, clock, told>>

BeginPush(t, r, o) == Begin(t, "push", "create", r, o, {})

BeginOpen(t, r, o) == Begin(t, "open", "open", r, o, {})

\* The walk found the object and nobody asked to retain it.  other_repositories
\* lists those that have a directory, and so each that has the object.
BeginSweep(t, r, o, seen) ==
  /\ Exists(Object(r, o))
  /\ seen \subseteq Repos \ {r}
  /\ \A q \in Repos \ {r} : Exists(Object(q, o)) => q \in seen
  /\ Begin(t, "sweep", "stat", r, o, seen)

BeginDedupe(t, r, o) ==
  Exists(Object(r, o)) /\ Begin(t, "dedupe", "compare", r, o, {})

BeginCompress(t, r, o) ==
  Compresses /\ Exists(Object(r, o)) /\ Begin(t, "compress", "inspect", r, o, {})

-----------------------------------------------------------------------------
(* write: stream to a .part, then link_or_move.                            *)

PushCreate(t, n, i) ==
  /\ Busy(t, "create")
  /\ Draw(t, n)
  /\ Create(Part(task[t].repo, task[t].oid, n), i)
  /\ task' = [task EXCEPT ![t].pc = "stream", ![t].ticket = n, ![t].fd = i]
  /\ UNCHANGED <<clock, told>>

\* The body has ended, and is what it said it would be.  It goes to the file
\* that was opened, whatever has become of its name.
PushStream(t) ==
  /\ Busy(t, "stream")
  /\ data' = [data EXCEPT ![task[t].fd] = IF Compresses THEN "framed" ELSE "raw"]
  /\ mtime' = [mtime EXCEPT ![task[t].fd] = clock]
  /\ task' = [task EXCEPT ![t].pc = IF Exists(Staged(t)) THEN "find" ELSE "refused",
                          ![t].fd = None]
  /\ UNCHANGED <<dir, counter, clock, told>>

\* Mutant of PushAbort: what arrived is taken for the object.
PushAbortAccepted(t) ==
  /\ Busy(t, "stream")
  /\ Goto(t, "find")
  /\ UNCHANGED <<files, counter, clock, told>>

\* It is cut short, or too long, or something else.
PushAbort(t) ==
  /\ Busy(t, "stream")
  /\ dir' = [dir EXCEPT ![Staged(t)] = None]
  /\ Finish(t)
  /\ UNCHANGED <<data, mtime, counter, clock, told>>

PushFind(t) ==
  /\ Busy(t, "find")
  /\ Goto(t, IF Exists(Shared(t)) THEN "link" ELSE "publish")
  /\ UNCHANGED <<files, counter, clock, told>>

PushPublish(t) ==
  /\ Busy(t, "publish")
  /\ Link(t, Staged(t), Shared(t), "link") /\ UNCHANGED told

PushLink(t) ==
  /\ Busy(t, "link")
  /\ \/ Link(t, Shared(t), Mine(t), "tidy") /\ Told(t)
     \/ /\ ~Exists(Shared(t))
        /\ Goto(t, "relink")
        /\ UNCHANGED <<files, counter, clock, told>>

\* The content was collected meanwhile: the staged copy takes its place.
PushRelink(t) ==
  /\ Busy(t, "relink")
  /\ Link(t, Staged(t), Shared(t), "again") /\ UNCHANGED told

PushAgain(t) ==
  /\ Busy(t, "again")
  /\ Link(t, Shared(t), Mine(t), "tidy") /\ Told(t)

\* A name one of the links starts from is not there.
PushRefused(t) ==
  /\ \/ task[t].pc \in {"publish", "relink"} /\ ~Exists(Staged(t))
     \/ Busy(t, "again") /\ ~Exists(Shared(t))
  /\ Goto(t, "refused")
  /\ UNCHANGED <<files, counter, clock, told>>

PushTidy(t) ==
  /\ Busy(t, "tidy")
  /\ dir' = [dir EXCEPT ![Staged(t)] = None]
  /\ Finish(t)
  /\ UNCHANGED <<data, mtime, counter, clock, told>>

\* The client is told that its push failed.
PushFails(t) ==
  /\ Busy(t, "refused")
  /\ Finish(t)
  /\ UNCHANGED <<files, counter, clock, told>>

Push(t) ==
  \/ \E n \in Tickets, i \in Inodes : PushCreate(t, n, i)
  \/ PushStream(t) \/ PushAbort(t) \/ PushFind(t) \/ PushPublish(t) \/ PushLink(t)
  \/ PushRelink(t) \/ PushAgain(t) \/ PushRefused(t) \/ PushTidy(t)
  \/ PushFails(t)

-----------------------------------------------------------------------------
(* sweep: collect, referenced_elsewhere.                                   *)

\* The age of the file decides, whichever repository it was written for.
SweepStat(t) ==
  /\ Busy(t, "stat")
  /\ IF Exists(Mine(t)) /\ clock - mtime[dir[Mine(t)]] >= Grace
       THEN Goto(t, "remove")
       ELSE Finish(t)
  /\ UNCHANGED <<files, counter, clock, told>>

\* A name that is gone already is one that was removed.
SweepRemove(t) ==
  /\ Busy(t, "remove")
  /\ dir' = [dir EXCEPT ![Mine(t)] = None]
  /\ told' = Untold(t)
  /\ Goto(t, "count")
  /\ UNCHANGED <<data, mtime, counter, clock>>

\* links_to: how many names the shared bytes have.
SweepCount(t) ==
  /\ Busy(t, "count")
  /\ IF ~Exists(Shared(t)) THEN Goto(t, "probe")
     ELSE IF LinksTo(Shared(t)) > 1 THEN Finish(t)
     ELSE Goto(t, "erase")
  /\ UNCHANGED <<files, counter, clock, told>>

\* There is no shared entry to count: look into one repository after another.
SweepProbe(t) ==
  /\ Busy(t, "probe")
  /\ \/ \E r \in task[t].ask :
          IF Exists(Object(r, task[t].oid)) THEN Finish(t)
          ELSE task' = [task EXCEPT ![t].ask = @ \ {r}]
     \/ task[t].ask = {} /\ Goto(t, "erase")
  /\ UNCHANGED <<files, counter, clock, told>>

SweepErase(t) ==
  /\ Busy(t, "erase")
  /\ dir' = [dir EXCEPT ![Shared(t)] = None]
  /\ Bereaved(t)
  /\ Finish(t)
  /\ UNCHANGED <<data, mtime, counter, clock>>

Sweep(t) ==
  \/ SweepStat(t) \/ SweepRemove(t) \/ SweepCount(t) \/ SweepProbe(t)
  \/ SweepErase(t)

-----------------------------------------------------------------------------
(* dedupe: adopt when there is a shared copy, promote when there is none.  *)

DedupeCompare(t) ==
  /\ Busy(t, "compare")
  /\ IF Same(Mine(t), Shared(t)) THEN Finish(t)
     ELSE Goto(t, IF Exists(Shared(t)) THEN "hash" ELSE "vouch")
  /\ UNCHANGED <<files, counter, clock, told>>

\* Only plain bytes hash to the object's name.
Hashes(name) == Exists(name) /\ data[dir[name]] = "raw"

AdoptHash(t) ==
  /\ Busy(t, "hash")
  /\ IF Hashes(Shared(t)) THEN Goto(t, "stage") ELSE Finish(t)
  /\ UNCHANGED <<files, counter, clock, told>>

\* A link to the shared copy under a name of its own; also what compress ends
\* with.
Stage(t, n) ==
  /\ task[t].pc \in {"stage", "restage"}
  /\ Draw(t, n)
  /\ LET staged == Part(task[t].repo, task[t].oid, n) IN
       IF Exists(Shared(t))
         THEN /\ dir' = IF Exists(staged) THEN dir
                        ELSE [dir EXCEPT ![staged] = dir[Shared(t)]]
              /\ task' = [task EXCEPT ![t].pc = "swap", ![t].ticket = n]
         ELSE Finish(t) /\ UNCHANGED dir
  /\ UNCHANGED <<data, mtime, clock, told>>

\* Mutant of Swap: the original goes before its replacement comes.
SwapRemoving(t) ==
  /\ Busy(t, "swap")
  /\ IF Exists(Mine(t)) THEN dir' = [dir EXCEPT ![Mine(t)] = None] /\ UNCHANGED task
     ELSE dir' = Renamed(Staged(t), Mine(t)) /\ Finish(t)
  /\ UNCHANGED <<data, mtime, counter, clock, told>>

\* And over the original.
Swap(t) ==
  /\ Busy(t, "swap")
  /\ dir' = IF Exists(Staged(t)) THEN Renamed(Staged(t), Mine(t)) ELSE dir
  /\ Finish(t)
  /\ UNCHANGED <<data, mtime, counter, clock, told>>

PromoteHash(t) ==
  /\ Busy(t, "vouch")
  /\ IF Hashes(Mine(t)) THEN Goto(t, "move") ELSE Finish(t)
  /\ UNCHANGED <<files, counter, clock, told>>

\* The repository's copy becomes the shared one ...
PromoteMove(t) ==
  /\ Busy(t, "move")
  /\ IF Exists(Mine(t)) THEN dir' = Renamed(Mine(t), Shared(t)) /\ Goto(t, "back")
     ELSE Finish(t) /\ UNCHANGED dir
  /\ UNCHANGED <<data, mtime, counter, clock, told>>

\* Mutant of PromoteBack: the link back is forgotten.
PromoteBackForgotten(t) ==
  /\ Busy(t, "back")
  /\ Finish(t)
  /\ UNCHANGED <<files, counter, clock, told>>

\* ... and gets a link back in its place.
PromoteBack(t) ==
  /\ Busy(t, "back")
  /\ IF ~Exists(Shared(t)) THEN Goto(t, "undo") /\ UNCHANGED dir
     ELSE /\ dir' = IF Exists(Mine(t)) THEN dir
                    ELSE [dir EXCEPT ![Mine(t)] = dir[Shared(t)]]
          /\ Finish(t)
  /\ UNCHANGED <<data, mtime, counter, clock, told>>

\* A link that failed is undone, if the shared copy is back by now.
PromoteUndo(t) ==
  /\ Busy(t, "undo")
  /\ dir' = IF Exists(Shared(t)) THEN Renamed(Shared(t), Mine(t)) ELSE dir
  /\ Bereaved(t)
  /\ Finish(t)
  /\ UNCHANGED <<data, mtime, counter, clock>>

Dedupe(t) ==
  \/ DedupeCompare(t) \/ AdoptHash(t)
  \/ \E n \in Tickets : Stage(t, n)
  \/ Swap(t) \/ PromoteHash(t) \/ PromoteMove(t) \/ PromoteBack(t) \/ PromoteUndo(t)

-----------------------------------------------------------------------------
(* compress: rewrite to a .part, then swap_in.                             *)

CompressInspect(t) ==
  /\ Busy(t, "inspect")
  /\ IF Exists(Mine(t)) /\ data[dir[Mine(t)]] # "framed"
       THEN Goto(t, "rewrite") ELSE Finish(t)
  /\ UNCHANGED <<files, counter, clock, told>>

CompressRewrite(t, n, i) ==
  /\ Busy(t, "rewrite")
  /\ Draw(t, n)
  /\ IF Exists(Mine(t))
       THEN /\ i # None
            /\ Create(Part(task[t].repo, task[t].oid, n), i)
            /\ task' = [task EXCEPT ![t].pc = "fill", ![t].ticket = n, ![t].fd = i,
                                    ![t].src = dir[Mine(t)]]
       ELSE /\ i = None
            /\ dir' = [dir EXCEPT ![Part(task[t].repo, task[t].oid, n)] = None]
            /\ Finish(t) /\ UNCHANGED <<data, mtime>>
  /\ UNCHANGED <<clock, told>>

\* Mutant of CompressFill: the digest of what was read is not looked at.
CompressFillBlind(t) ==
  /\ Busy(t, "fill")
  /\ data' = [data EXCEPT ![task[t].fd] =
                IF data[task[t].src] = "raw" THEN "framed" ELSE "partial"]
  /\ mtime' = [mtime EXCEPT ![task[t].fd] = clock]
  /\ task' = [task EXCEPT ![t].pc = "share", ![t].fd = None, ![t].src = None]
  /\ UNCHANGED <<dir, counter, clock, told>>

\* What was read has to hash to the object's name, and what was written to be
\* smaller.
CompressFill(t) ==
  /\ Busy(t, "fill")
  /\ \/ /\ data[task[t].src] = "raw" /\ Exists(Staged(t))
        /\ data' = [data EXCEPT ![task[t].fd] = "framed"]
        /\ mtime' = [mtime EXCEPT ![task[t].fd] = clock]
        /\ task' = [task EXCEPT ![t].pc = "share", ![t].fd = None, ![t].src = None]
        /\ UNCHANGED dir
     \/ /\ dir' = [dir EXCEPT ![Staged(t)] = None]
        /\ Finish(t)
        /\ UNCHANGED <<data, mtime>>
  /\ UNCHANGED <<counter, clock, told>>

\* shares_bytes_with: is it the shared copy that is to be replaced?
CompressShare(t) ==
  /\ Busy(t, "share")
  /\ Goto(t, IF Same(Mine(t), Shared(t)) THEN "replace" ELSE "swap")
  /\ UNCHANGED <<files, counter, clock, told>>

CompressReplace(t) ==
  /\ Busy(t, "replace")
  /\ IF Exists(Staged(t))
       THEN dir' = Renamed(Staged(t), Shared(t)) /\ Goto(t, "restage")
       ELSE Finish(t) /\ UNCHANGED dir
  /\ UNCHANGED <<data, mtime, counter, clock, told>>

Compress(t) ==
  \/ CompressInspect(t)
  \/ \E n \in Tickets, i \in Inodes \cup {None} : CompressRewrite(t, n, i)
  \/ CompressFill(t) \/ CompressShare(t) \/ CompressReplace(t)

-----------------------------------------------------------------------------
(* open, and what is served.                                               *)

\* The file's first bytes say whether it is a frame.
Open(t) ==
  /\ Busy(t, "open")
  /\ IF ~Exists(Mine(t)) THEN Finish(t)
     ELSE IF data[dir[Mine(t)]] = "framed"
       THEN task' = [task EXCEPT ![t].pc = "serve", ![t].src = dir[Mine(t)],
                                    ![t].framed = TRUE]
       ELSE Goto(t, "reopen")
  /\ UNCHANGED <<files, counter, clock, told>>

\* If it is not, the name is opened again for the bytes themselves.
Reopen(t) ==
  /\ Busy(t, "reopen")
  /\ IF ~Exists(Mine(t)) THEN Finish(t)
     ELSE task' = [task EXCEPT ![t].pc = "serve", ![t].src = dir[Mine(t)]]
  /\ UNCHANGED <<files, counter, clock, told>>

Serve(t) ==
  /\ Busy(t, "serve")
  /\ Finish(t)
  /\ UNCHANGED <<files, counter, clock, told>>

Download(t) == Open(t) \/ Reopen(t) \/ Serve(t)

-----------------------------------------------------------------------------
\* reclaim_staging, over the names it walks.
Reclaim(part) ==
  /\ Exists(part)
  /\ clock - mtime[dir[part]] >= StagingAge
  /\ dir' = [dir EXCEPT ![part] = None]
  /\ UNCHANGED <<data, mtime, counter, task, clock, told>>

\* Somebody else draws a ticket: writable, or an operation on another object.
OtherDraws ==
  /\ counter <= MaxTicket
  /\ counter' = counter + 1
  /\ UNCHANGED <<files, task, clock, told>>

\* The caller has gone, or a call failed that nothing undoes.
Leave(t) ==
  /\ Interrupts
  /\ ~Busy(t, "idle")
  /\ Finish(t)
  /\ UNCHANGED <<files, counter, clock, told>>

\* The process is killed and started again.
Restart ==
  /\ Interrupts
  /\ counter' = 0
  /\ task' = [t \in Tasks |-> Idle]
  /\ UNCHANGED <<files, clock, told>>

Tick ==
  /\ clock < MaxClock
  /\ clock' = clock + 1
  /\ UNCHANGED <<files, counter, task, told>>

Step(t) == Push(t) \/ Sweep(t) \/ Dedupe(t) \/ Compress(t) \/ Download(t)

Next ==
  \/ \E t \in Tasks, r \in Repos, o \in Oids :
       \/ BeginPush(t, r, o) \/ BeginDedupe(t, r, o) \/ BeginCompress(t, r, o)
       \/ BeginOpen(t, r, o)
       \/ \E seen \in SUBSET Repos : BeginSweep(t, r, o, seen)
  \/ \E t \in Tasks : Step(t) \/ Leave(t)
  \/ \E part \in Parts : Reclaim(part)
  \/ OtherDraws \/ Restart \/ Tick

Spec == Init /\ [][Next]_vars

-----------------------------------------------------------------------------
(* Properties.                                                             *)

\* A name of an object is a name of all of its bytes (README.md: "an
\* interrupted transfer can never leave a corrupt object behind").
NeverCorrupt ==
  \A name \in Contents \cup Objects : Exists(name) => data[dir[name]] \in Whole

\* An object a client was told is stored keeps its name until a sweep of that
\* repository drops it, whatever others sweep, fold in or rewrite meanwhile.
HeldKept == \A p \in told : Exists(Object(p.repo, p.oid))

\* What a repository holds and has no name for the moment is about to get it
\* back from the shared copy (dedupe.rs, promote), unless that was taken from it.
HeldOrMoving ==
  \A p \in told :
    \/ Exists(Object(p.repo, p.oid)) \/ p.lost
    \/ \E t \in Tasks : /\ Busy(t, "back") /\ Mine(t) = Object(p.repo, p.oid)
                        /\ Exists(Shared(t))

\* And none is (operations.md: "the repository's file is never removed
\* before its replacement link exists").
NothingLost == \A p \in told : ~p.lost

\* What a download reads stays whole to its end, whoever renames over the file,
\* collects it or draws a staging name meanwhile (mod.rs, open).
ServedWhole == \A t \in Tasks : Busy(t, "serve") => data[task[t].src] \in Whole

\* What a repository can read, by its own name or by the one its migration is
\* about to link back.
Moving(t) == task[t].pc \in {"back", "undo"} /\ Exists(Shared(t))

Readable(name) == Exists(name) /\ data[dir[name]] \in Whole

HeldClaims ==
  {c \in Repos \X Oids :
     \/ Readable(Object(c[1], c[2]))
     \/ \E t \in Tasks : Moving(t) /\ Mine(t) = Object(c[1], c[2]) /\ Readable(Shared(t))}

Targets(steps) == {<<task[t].repo, task[t].oid>> : t \in {u \in Tasks : task[u].pc \in steps}}

\* The volume keeps the promise of an object store: what a repository can read
\* goes by its own sweep, or while its own migration has the only name of it.
Store == INSTANCE ObjectStore WITH
  holds <- HeldClaims,
  collecting <- Targets({"stat", "remove"}),
  exposed <- Targets({"move", "back", "undo"})
StoreSpec == Store!Spec

-----------------------------------------------------------------------------
(* What the proofs rest on: who may still write to which file.             *)

\* Has drawn a ticket it may use.
Staging(t) ==
  task[t].pc \in {"stream", "find", "publish", "link", "relink", "again", "tidy",
                 "swap", "fill", "share", "replace"}

Writing(t) == task[t].pc \in {"stream", "fill"}

TicketsDrawn == \A t \in Tasks : Staging(t) => task[t].ticket < counter

TicketsApart ==
  \A t, u \in Tasks : t # u /\ Staging(t) /\ Staging(u) => task[t].ticket # task[u].ticket

\* A file that is being written has no name but the one it was made under, and
\* that one is nobody else's.
WrittenAlone ==
  \A t \in Tasks : Writing(t) =>
    /\ task[t].fd # None
    /\ \A n \in Names : dir[n] = task[t].fd => n = Staged(t)
    /\ Exists(Staged(t)) => dir[Staged(t)] = task[t].fd

\* What an operation has staged is whole.
StagedWhole ==
  \A t \in Tasks : Staging(t) /\ ~Writing(t) /\ Exists(Staged(t)) =>
    data[dir[Staged(t)]] \in Whole

IInv == NeverCorrupt /\ TicketsDrawn /\ TicketsApart /\ WrittenAlone /\ StagedWhole

\* Only a migration moves an object's name away.
Migrates(t) == task[t].pc \in {"compare", "hash", "stage", "vouch", "move", "back", "undo"}

OnlyDedupe == \A t \in Tasks : Migrates(t) => task[t].op = "dedupe"
=============================================================================
