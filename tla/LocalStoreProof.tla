-------------------------- MODULE LocalStoreProof --------------------------
(***************************************************************************)
(* Proofs about LocalStore for every set of repositories, objects, tasks   *)
(* and files, with or without compression, grace, interruptions.           *)
(*                                                                         *)
(* The argument: a name is only ever given to a file that has another one  *)
(* already, the shared name or the staging name of the operation at work   *)
(* (Naming).  The shared copies are whole, and what an operation staged is *)
(* whole once it has been written, because nobody else may write to it:    *)
(* the file was made under a ticket nobody else has (TicketsApart) and has *)
(* no other name until then (WrittenAlone).                                *)
(*                                                                         *)
(* What a download has open is whole because a file that is open is not    *)
(* free to be made anew, and no staging name that exists is made twice     *)
(* (ServedHeld).  A copy without a name is backed by a promote that is     *)
(* about to link it back, and only another step than that promote's takes  *)
(* the shared name from under it (Backed, Bereaved).                       *)
(*                                                                         *)
(* Where names stand for whole objects, who holds what is a matter of      *)
(* names (HeldAre), and each step changes those of one object: so it is a  *)
(* gain for those who claim it, a sweep's taking of one, or what ends a    *)
(* migration's window (StepRefines).                                       *)
(***************************************************************************)
EXTENDS LocalStore, TLAPS

-----------------------------------------------------------------------------
(* Names.                                                                  *)

\* The three kinds of names never meet.
LEMMA NamesApart ==
  /\ \A q, o, p : Content(o) # Object(q, p)
  /\ \A q, o, p, n : Content(o) # Part(q, p, n)
  /\ \A r, q, o, p, n : Object(r, o) # Part(q, p, n)
BY DEF Content, Object, Part

\* A name says what it is the name of.
LEMMA NamesDiffer ==
  /\ \A r, q, o, p : Object(r, o) = Object(q, p) => r = q /\ o = p
  /\ \A r, q, o, p, n, m : Part(r, o, n) = Part(q, p, m) => r = q /\ o = p /\ n = m
BY DEF Object, Part

\* Where the names come from.
LEMMA NamesType ==
  /\ \A o \in Oids : Content(o) \in Contents /\ Content(o) \in Names
  /\ \A r \in Repos, o \in Oids : Object(r, o) \in Objects /\ Object(r, o) \in Names
  /\ \A r \in Repos, o \in Oids, n \in Tickets : Part(r, o, n) \in Parts /\ Part(r, o, n) \in Names
BY DEF Contents, Objects, Parts, Names

-----------------------------------------------------------------------------
(* Types.                                                                  *)

\* A task that is not idle is an operation.
LEMMA OperationType ==
  ASSUME TypeOK, NEW t \in Tasks, task[t].pc # "idle"
  PROVE  task[t] \in Operation
<1>1. task[t] \in Operation \cup {Idle}
  BY DEF TypeOK
<1>2. task[t] # Idle
  BY DEF Idle
<1>3. QED
  BY <1>1, <1>2

\* The steps that operations get to with more than their place changed.
LEMMA StepNames == {"stream", "swap", "fill", "share", "serve"} \subseteq Steps
BY DEF Steps

\* The names an operation is about.
LEMMA OwnNames ==
  ASSUME TypeOK, NEW t \in Tasks, task[t].pc # "idle"
  PROVE  /\ Mine(t) \in Objects /\ Mine(t) \in Names
         /\ Shared(t) \in Contents /\ Shared(t) \in Names
         /\ Staged(t) \in Parts /\ Staged(t) \in Names
<1>1. task[t].repo \in Repos /\ task[t].oid \in Oids /\ task[t].ticket \in Tickets
  BY OperationType DEF Operation
<1>2. QED
  BY <1>1, NamesType DEF Mine, Shared, Staged

\* What an operation may turn into leaves the table of tasks well-typed.
LEMMA TableType ==
  ASSUME TypeOK, NEW t \in Tasks, NEW q \in Operation \cup {Idle},
         task' = [task EXCEPT ![t] = q]
  PROVE  task' \in [Tasks -> Operation \cup {Idle}]
BY DEF TypeOK

\* An operation that moves on to another step is an operation.
LEMMA GotoType ==
  ASSUME TypeOK, NEW t \in Tasks, task[t].pc # "idle", NEW pc \in Steps, Goto(t, pc)
  PROVE  task' \in [Tasks -> Operation \cup {Idle}]
<1>1. [task[t] EXCEPT !.pc = pc] \in Operation
  BY OperationType DEF Operation
<1>2. QED
  BY <1>1 DEF Goto, TypeOK

\* An operation that ends leaves the table well-typed.
LEMMA FinishType ==
  ASSUME TypeOK, NEW t \in Tasks, Finish(t)
  PROVE  task' \in [Tasks -> Operation \cup {Idle}]
BY DEF TypeOK, Finish

\* A name of a file given to another one, or taken away.
LEMMA DirType ==
  ASSUME TypeOK, NEW n, NEW i \in Inodes \cup {None}, dir' = [dir EXCEPT ![n] = i]
  PROVE  dir' \in [Names -> Inodes \cup {None}]
BY DEF TypeOK

\* link(2) on well-typed names.
LEMMA LinkType ==
  ASSUME TypeOK, NEW t \in Tasks, task[t].pc # "idle", NEW from \in Names, NEW to,
         NEW pc \in Steps, Link(t, from, to, pc)
  PROVE  /\ dir' \in [Names -> Inodes \cup {None}]
         /\ task' \in [Tasks -> Operation \cup {Idle}]
         /\ UNCHANGED <<data, mtime, counter, clock>>
<1>1. dir[from] \in Inodes \cup {None}
  BY DEF TypeOK
<1>2. dir' \in [Names -> Inodes \cup {None}]
  BY <1>1, DirType DEF Link, TypeOK
<1>3. QED
  BY <1>2, GotoType DEF Link

\* rename(2) on well-typed names.
LEMMA RenamedType ==
  ASSUME TypeOK, NEW from \in Names, NEW to
  PROVE  Renamed(from, to) \in [Names -> Inodes \cup {None}]
BY DEF TypeOK, Renamed

\* A push that has its name is one that arrived.
LEMMA ToldType ==
  ASSUME TypeOK, NEW t \in Tasks, task[t].pc # "idle", Told(t)
  PROVE  told' \in SUBSET [repo : Repos, oid : Oids, lost : BOOLEAN]
<1>1. [repo |-> task[t].repo, oid |-> task[t].oid, lost |-> FALSE]
        \in [repo : Repos, oid : Oids, lost : BOOLEAN]
  BY OperationType DEF Operation
<1>2. QED
  BY <1>1 DEF Told, Untold, TypeOK

\* Whatever becomes of the shared copy, the claims are the same.
LEMMA BereavedType ==
  ASSUME TypeOK, NEW t, Bereaved(t)
  PROVE  /\ told' \in SUBSET [repo : Repos, oid : Oids, lost : BOOLEAN]
         /\ \A q \in told' : \E p \in told : q.repo = p.repo /\ q.oid = p.oid
<1>1. SUFFICES ASSUME NEW p \in told, NEW lost \in BOOLEAN
               PROVE  /\ [p EXCEPT !.lost = lost] \in [repo : Repos, oid : Oids, lost : BOOLEAN]
                      /\ [p EXCEPT !.lost = lost].repo = p.repo
                      /\ [p EXCEPT !.lost = lost].oid = p.oid
  <2>1. \A p \in told :
          p.lost \/ (/\ p.oid = task[t].oid /\ Exists(Shared(t))
                    /\ ~Exists(Object(p.repo, p.oid))') \in BOOLEAN
    OBVIOUS
  <2>2. QED
    BY <1>1, <2>1 DEF Bereaved
<1>2. QED
  BY DEF TypeOK

\* A ticket drawn is one there is, and the next one is too.
LEMMA DrawType ==
  ASSUME TypeOK, NEW t \in Tasks, NEW n \in Tickets, Draw(t, n)
  PROVE  counter' \in 0 .. MaxTicket + 1
BY ConstantsOK DEF TypeOK, Draw, Tickets

\* A file made under a name.
LEMMA CreateType ==
  ASSUME TypeOK, NEW name, NEW i \in Inodes, Create(name, i)
  PROVE  /\ dir' \in [Names -> Inodes \cup {None}]
         /\ data' \in [Inodes -> Whole \cup {"partial"}]
         /\ mtime' \in [Inodes -> Nat]
BY DirType DEF TypeOK, Create

\* A file that is written to.
LEMMA WriteType ==
  ASSUME TypeOK, NEW i, NEW d \in Whole, data' = [data EXCEPT ![i] = d],
         mtime' = [mtime EXCEPT ![i] = clock]
  PROVE  /\ data' \in [Inodes -> Whole \cup {"partial"}]
         /\ mtime' \in [Inodes -> Nat]
BY DEF TypeOK

\* An operation that begins.
LEMMA BeginType ==
  ASSUME TypeOK, NEW t \in Tasks, NEW op, NEW pc \in Steps, NEW r \in Repos, NEW o \in Oids,
         NEW seen \in SUBSET Repos, Begin(t, op, pc, r, o, seen)
  PROVE  TypeOK'
<1>1. [pc |-> pc, op |-> op, repo |-> r, oid |-> o, ticket |-> 0, fd |-> None,
       src |-> None, ask |-> seen, framed |-> FALSE] \in Operation
  BY ConstantsOK DEF Begin, Operation, Tickets
<1>2. QED
  BY <1>1, TableType DEF Begin, TypeOK, files

\* Every step of a push keeps the types.
LEMMA PushType ==
  ASSUME TypeOK, NEW t \in Tasks, Push(t)
  PROVE  TypeOK'
<1>1. ASSUME NEW n \in Tickets, NEW i \in Inodes, PushCreate(t, n, i)
      PROVE  TypeOK'
  <2>1. [task[t] EXCEPT !.pc = "stream", !.ticket = n, !.fd = i] \in Operation
    <3>1. task[t] \in Operation
      BY <1>1, OperationType DEF PushCreate, Busy
    <3>2. QED
      BY <3>1, StepNames DEF Operation
  <2>2. task' \in [Tasks -> Operation \cup {Idle}]
    BY <1>1, <2>1, TableType DEF PushCreate, TypeOK
  <2>3. QED
    BY <1>1, <2>2, DrawType, CreateType DEF PushCreate, TypeOK
<1>2. CASE PushStream(t)
  <2>1. ASSUME NEW pc \in {"find", "refused"}
        PROVE  [task[t] EXCEPT !.pc = pc, !.fd = None] \in Operation
    <3>1. task[t] \in Operation
      BY <1>2, OperationType DEF PushStream, Busy, TypeOK
    <3>2. QED
      BY <2>1, <3>1 DEF Operation, Steps
  <2>2. task' \in [Tasks -> Operation \cup {Idle}]
    BY <1>2, <2>1 DEF PushStream, TypeOK
  <2>3. QED
    BY <1>2, <2>2, WriteType DEF PushStream, TypeOK, Whole
<1>3. CASE PushAbort(t) \/ PushTidy(t)
  BY <1>3, FinishType, DirType DEF PushAbort, PushTidy, TypeOK
<1>4. CASE PushFind(t) \/ PushRefused(t)
  <2>1. task[t].pc # "idle" /\ \E pc \in Steps : Goto(t, pc)
    BY <1>4 DEF PushFind, PushRefused, Busy, Steps
  <2>2. QED
    BY <1>4, <2>1, GotoType DEF PushFind, PushRefused, TypeOK, files
<1>5. CASE PushPublish(t) \/ PushRelink(t)
  <2>1. task[t].pc # "idle" /\ \E pc \in Steps : Link(t, Staged(t), Shared(t), pc)
    BY <1>5 DEF PushPublish, PushRelink, Busy, Steps
  <2>2. QED
    BY <1>5, <2>1, LinkType, OwnNames DEF PushPublish, PushRelink, TypeOK
<1>6. CASE PushLink(t)
  <2>1. task[t].pc # "idle"
    BY <1>6 DEF PushLink, Busy
  <2>2. CASE Link(t, Shared(t), Mine(t), "tidy") /\ Told(t)
    BY <2>1, <2>2, LinkType, OwnNames, ToldType DEF TypeOK, Steps
  <2>3. CASE Goto(t, "relink") /\ UNCHANGED <<files, counter, clock, told>>
    BY <2>1, <2>3, GotoType DEF TypeOK, Steps, files
  <2>4. QED
    BY <1>6, <2>2, <2>3 DEF PushLink
<1>7. CASE PushAgain(t)
  <2>1. task[t].pc # "idle"
    BY <1>7 DEF PushAgain, Busy
  <2>2. QED
    BY <1>7, <2>1, LinkType, OwnNames, ToldType DEF PushAgain, TypeOK, Steps
<1>8. CASE PushFails(t)
  BY <1>8, FinishType DEF PushFails, TypeOK, files
<1>9. QED
  BY <1>1, <1>2, <1>3, <1>4, <1>5, <1>6, <1>7, <1>8 DEF Push

\* Every step of a sweep keeps the types.
LEMMA SweepType ==
  ASSUME TypeOK, NEW t \in Tasks, Sweep(t)
  PROVE  TypeOK'
<1>1. task[t].pc # "idle"
  BY DEF Sweep, SweepStat, SweepRemove, SweepCount, SweepProbe, SweepErase, Busy
<1>2. CASE SweepStat(t) \/ SweepCount(t)
  <2>1. Finish(t) \/ \E pc \in Steps : Goto(t, pc)
    BY <1>2 DEF SweepStat, SweepCount, Steps
  <2>2. QED
    BY <1>1, <1>2, <2>1, GotoType, FinishType DEF SweepStat, SweepCount, TypeOK, files
<1>3. CASE SweepRemove(t)
  BY <1>1, <1>3, GotoType, DirType DEF SweepRemove, Untold, TypeOK, Steps
<1>4. CASE SweepProbe(t)
  <2>1. ASSUME NEW r \in task[t].ask, task' = [task EXCEPT ![t].ask = @ \ {r}]
        PROVE  task' \in [Tasks -> Operation \cup {Idle}]
    <3>1. [task[t] EXCEPT !.ask = @ \ {r}] \in Operation
      BY <1>1, OperationType DEF Operation
    <3>2. QED
      BY <2>1, <3>1, TableType DEF TypeOK
  <2>2. QED
    BY <1>1, <1>4, <2>1, GotoType, FinishType DEF SweepProbe, TypeOK, Steps, files
<1>5. CASE SweepErase(t)
  BY <1>5, FinishType, DirType, BereavedType DEF SweepErase, TypeOK
<1>6. QED
  BY <1>2, <1>3, <1>4, <1>5 DEF Sweep

\* Linking under a ticket of one's own keeps the types.
LEMMA StageType ==
  ASSUME TypeOK, NEW t \in Tasks, NEW n \in Tickets, Stage(t, n)
  PROVE  TypeOK'
<1>1. task[t].pc # "idle"
  BY DEF Stage
<1>2. [task[t] EXCEPT !.pc = "swap", !.ticket = n] \in Operation
  <2>1. task[t] \in Operation
    BY <1>1, OperationType
  <2>2. QED
    BY <2>1, StepNames DEF Operation
<1>3. task' \in [Tasks -> Operation \cup {Idle}]
  BY <1>2, TableType, FinishType DEF Stage, TypeOK
<1>4. dir[Shared(t)] \in Inodes \cup {None}
  BY <1>1, OwnNames DEF TypeOK
<1>5. dir' \in [Names -> Inodes \cup {None}]
  BY <1>4, DirType DEF Stage, TypeOK
<1>6. QED
  BY <1>3, <1>5, DrawType DEF Stage, TypeOK

\* Every step of a migration keeps the types.
LEMMA DedupeType ==
  ASSUME TypeOK, NEW t \in Tasks, Dedupe(t)
  PROVE  TypeOK'
<1>1. CASE DedupeCompare(t) \/ AdoptHash(t) \/ PromoteHash(t)
  <2>1. /\ task[t].pc # "idle"
        /\ Finish(t) \/ \E pc \in Steps : Goto(t, pc)
    BY <1>1 DEF DedupeCompare, AdoptHash, PromoteHash, Busy, Steps
  <2>2. QED
    BY <1>1, <2>1, GotoType, FinishType
    DEF DedupeCompare, AdoptHash, PromoteHash, TypeOK, files
<1>2. ASSUME NEW n \in Tickets, Stage(t, n) PROVE TypeOK'
  BY <1>2, StageType
<1>3. CASE Swap(t) \/ PromoteMove(t) \/ PromoteUndo(t)
  <2>1. task[t].pc # "idle"
    BY <1>3 DEF Swap, PromoteMove, PromoteUndo, Busy
  <2>2. dir' \in [Names -> Inodes \cup {None}]
    BY <1>3, <2>1, RenamedType, OwnNames DEF Swap, PromoteMove, PromoteUndo, TypeOK
  <2>3. task' \in [Tasks -> Operation \cup {Idle}]
    BY <1>3, <2>1, GotoType, FinishType DEF Swap, PromoteMove, PromoteUndo, Steps
  <2>4. QED
    BY <1>3, <2>2, <2>3, BereavedType DEF Swap, PromoteMove, PromoteUndo, TypeOK
<1>4. CASE PromoteBack(t)
  <2>1. task[t].pc # "idle"
    BY <1>4 DEF PromoteBack, Busy
  <2>2. dir[Shared(t)] \in Inodes \cup {None}
    BY <2>1, OwnNames DEF TypeOK
  <2>3. dir' \in [Names -> Inodes \cup {None}]
    BY <1>4, <2>2, DirType DEF PromoteBack, TypeOK
  <2>4. task' \in [Tasks -> Operation \cup {Idle}]
    BY <1>4, <2>1, GotoType, FinishType DEF PromoteBack, Steps
  <2>5. QED
    BY <1>4, <2>3, <2>4 DEF PromoteBack, TypeOK
<1>5. QED
  BY <1>1, <1>2, <1>3, <1>4 DEF Dedupe

\* Every step of a rewrite keeps the types.
LEMMA CompressType ==
  ASSUME TypeOK, NEW t \in Tasks, Compress(t)
  PROVE  TypeOK'
<1>1. CASE CompressInspect(t) \/ CompressShare(t)
  <2>1. /\ task[t].pc # "idle"
        /\ Finish(t) \/ \E pc \in Steps : Goto(t, pc)
    BY <1>1 DEF CompressInspect, CompressShare, Busy, Steps
  <2>2. QED
    BY <1>1, <2>1, GotoType, FinishType DEF CompressInspect, CompressShare, TypeOK, files
<1>2. ASSUME NEW n \in Tickets, NEW i \in Inodes \cup {None}, CompressRewrite(t, n, i)
      PROVE  TypeOK'
  <2>1. task[t].pc # "idle"
    BY <1>2 DEF CompressRewrite, Busy
  <2>2. CASE Exists(Mine(t))
    <3>1. dir[Mine(t)] \in Inodes
      BY <2>1, <2>2, OwnNames DEF TypeOK, Exists
    <3>2. [task[t] EXCEPT !.pc = "fill", !.ticket = n, !.fd = i, !.src = dir[Mine(t)]]
            \in Operation
      <4>1. task[t] \in Operation
        BY <2>1, OperationType
      <4>2. QED
        BY <3>1, <4>1, StepNames DEF Operation
    <3>3. task' \in [Tasks -> Operation \cup {Idle}]
      <4>1. task' = [task EXCEPT ![t] = [task[t] EXCEPT !.pc = "fill", !.ticket = n,
                                                        !.fd = i, !.src = dir[Mine(t)]]]
        BY <1>2, <2>2 DEF CompressRewrite
      <4>2. QED
        BY <3>2, <4>1, TableType
    <3>4. i \in Inodes
      BY <1>2, <2>2 DEF CompressRewrite
    <3>5. QED
      BY <1>2, <2>2, <3>3, <3>4, CreateType, DrawType DEF CompressRewrite, TypeOK
  <2>3. CASE ~Exists(Mine(t))
    BY <1>2, <2>3, FinishType, DirType, DrawType DEF CompressRewrite, TypeOK
  <2>4. QED
    BY <2>2, <2>3
<1>3. CASE CompressFill(t)
  <2>1. task[t].pc # "idle"
    BY <1>3 DEF CompressFill, Busy
  <2>2. [task[t] EXCEPT !.pc = "share", !.fd = None, !.src = None] \in Operation
    <3>1. task[t] \in Operation
      BY <2>1, OperationType
    <3>2. QED
      BY <3>1, StepNames DEF Operation
  <2>3. task' \in [Tasks -> Operation \cup {Idle}]
    <3>1. CASE Finish(t)
      BY <3>1, FinishType
    <3>2. CASE task' = [task EXCEPT ![t].pc = "share", ![t].fd = None, ![t].src = None]
      BY <2>2, <3>2 DEF TypeOK
    <3>3. QED
      BY <1>3, <3>1, <3>2 DEF CompressFill
  <2>4. dir' \in [Names -> Inodes \cup {None}]
    BY <1>3, DirType DEF CompressFill, TypeOK
  <2>5. data' \in [Inodes -> Whole \cup {"partial"}] /\ mtime' \in [Inodes -> Nat]
    <3>1. CASE UNCHANGED <<data, mtime>>
      BY <3>1 DEF TypeOK
    <3>2. CASE /\ data' = [data EXCEPT ![task[t].fd] = "framed"]
               /\ mtime' = [mtime EXCEPT ![task[t].fd] = clock]
      BY <3>2, WriteType DEF Whole
    <3>3. QED
      BY <1>3, <3>1, <3>2 DEF CompressFill
  <2>6. QED
    BY <1>3, <2>3, <2>4, <2>5 DEF CompressFill, TypeOK
<1>4. CASE CompressReplace(t)
  <2>1. task[t].pc # "idle"
    BY <1>4 DEF CompressReplace, Busy
  <2>2. QED
    BY <1>4, <2>1, GotoType, FinishType, RenamedType, OwnNames DEF CompressReplace, TypeOK, Steps
<1>5. QED
  BY <1>1, <1>2, <1>3, <1>4 DEF Compress

\* Every step of a download keeps the types.
LEMMA DownloadType ==
  ASSUME TypeOK, NEW t \in Tasks, Download(t)
  PROVE  TypeOK'
<1>1. task[t].pc # "idle"
  BY DEF Download, Open, Reopen, Serve, Busy
<1>2. ASSUME Exists(Mine(t))
      PROVE  /\ [task[t] EXCEPT !.pc = "serve", !.src = dir[Mine(t)], !.framed = TRUE] \in Operation
             /\ [task[t] EXCEPT !.pc = "serve", !.src = dir[Mine(t)]] \in Operation
  <2>1. dir[Mine(t)] \in Inodes
    BY <1>1, <1>2, OwnNames DEF TypeOK, Exists
  <2>2. QED
    <3>1. task[t] \in Operation
      BY <1>1, OperationType
    <3>2. QED
      BY <2>1, <3>1, StepNames DEF Operation
<1>3. task' \in [Tasks -> Operation \cup {Idle}]
  BY <1>1, <1>2, TableType, FinishType, GotoType
  DEF Download, Open, Reopen, Serve, Steps, TypeOK
<1>4. QED
  BY <1>3 DEF Download, Open, Reopen, Serve, TypeOK, files

\* Every step keeps the types.
LEMMA TypeStep == TypeOK /\ [Next]_vars => TypeOK'
<1> SUFFICES ASSUME TypeOK, [Next]_vars PROVE TypeOK'
  OBVIOUS
<1>1. ASSUME NEW t \in Tasks, NEW r \in Repos, NEW o \in Oids,
             \/ BeginPush(t, r, o) \/ BeginDedupe(t, r, o) \/ BeginCompress(t, r, o)
             \/ BeginOpen(t, r, o)
             \/ \E seen \in SUBSET Repos : BeginSweep(t, r, o, seen)
      PROVE  TypeOK'
  <2>1. \E op : \E pc \in Steps, seen \in SUBSET Repos : Begin(t, op, pc, r, o, seen)
    <3>1. {} \in SUBSET Repos /\ {"create", "open", "stat", "compare", "inspect"} \subseteq Steps
      BY DEF Steps
    <3>2. QED
      BY <1>1, <3>1 DEF BeginPush, BeginDedupe, BeginCompress, BeginOpen, BeginSweep
  <2>2. QED
    BY <2>1, BeginType
<1>2. ASSUME NEW t \in Tasks, Step(t) PROVE TypeOK'
  BY <1>2, PushType, SweepType, DedupeType, CompressType, DownloadType DEF Step
<1>3. ASSUME NEW t \in Tasks, Leave(t) PROVE TypeOK'
  BY <1>3, FinishType DEF Leave, TypeOK, files
<1>4. ASSUME NEW part \in Parts, Reclaim(part) PROVE TypeOK'
  BY <1>4, DirType DEF Reclaim, TypeOK
<1>5. CASE OtherDraws
  BY <1>5, ConstantsOK DEF OtherDraws, TypeOK, files
<1>6. CASE Restart
  BY <1>6, ConstantsOK DEF Restart, TypeOK, files
<1>7. CASE Tick
  BY <1>7 DEF Tick, TypeOK, files
<1>8. CASE UNCHANGED vars
  BY <1>8 DEF vars, TypeOK
<1>9. QED
  BY <1>1, <1>2, <1>3, <1>4, <1>5, <1>6, <1>7, <1>8 DEF Next

\* The initial states are well-typed.
LEMMA TypeInit == Init => TypeOK
<1> SUFFICES ASSUME Init PROVE TypeOK
  OBVIOUS
<1>1. PICK home \in [Loose -> Inodes] :
        /\ dir = [n \in Names |->
                    IF \E c \in Loose : n = Object(c[1], c[2])
                      THEN home[<<n[2], n[3]>>] ELSE None]
        /\ data = [i \in Inodes |-> IF \E c \in Loose : home[c] = i
                                      THEN "raw" ELSE "partial"]
        /\ mtime = [i \in Inodes |-> 0]
        /\ counter = 0
        /\ task = [t \in Tasks |-> Idle]
        /\ clock = 0
        /\ told = {[repo |-> c[1], oid |-> c[2], lost |-> FALSE] : c \in Loose}
  BY DEF Init
<1>2. ASSUME NEW c \in Loose, NEW n \in Names, n = Object(c[1], c[2])
      PROVE  home[<<n[2], n[3]>>] \in Inodes
  BY <1>2, ConstantsOK DEF Object
<1>3. dir \in [Names -> Inodes \cup {None}]
  BY <1>1, <1>2
<1>4. told \in SUBSET [repo : Repos, oid : Oids, lost : BOOLEAN]
  <2>1. ASSUME NEW c \in Loose
        PROVE  [repo |-> c[1], oid |-> c[2], lost |-> FALSE]
                 \in [repo : Repos, oid : Oids, lost : BOOLEAN]
    BY ConstantsOK
  <2>2. QED
    BY <1>1, <2>1
<1>5. QED
  BY <1>1, <1>3, <1>4, ConstantsOK DEF TypeOK, Whole

\* Whatever is asked and whenever it stops, the state has its types.
THEOREM TypeCorrect == Spec => []TypeOK
BY TypeInit, TypeStep, PTL DEF Spec

-----------------------------------------------------------------------------
(* What repositories hold.                                                 *)

\* An operation that moves on is the same operation.
LEMMA GotoTurn ==
  ASSUME TypeOK, NEW t \in Tasks, task[t].pc # "idle", NEW pc, Goto(t, pc)
  PROVE  /\ task'[t] = [task[t] EXCEPT !.pc = pc]
         /\ task'[t].pc = pc /\ task'[t].op = task[t].op
         /\ \A v \in Tasks \ {t} : task'[v] = task[v]
<1>1. /\ task'[t] = [task[t] EXCEPT !.pc = pc]
      /\ \A v \in Tasks \ {t} : task'[v] = task[v]
  BY DEF Goto, TypeOK
<1>2. QED
  BY <1>1, OperationType DEF Operation

\* An operation that ends leaves the others alone.
LEMMA FinishTurn ==
  ASSUME TypeOK, NEW t \in Tasks, Finish(t)
  PROVE  /\ task'[t] = Idle /\ task'[t].pc = "idle"
         /\ \A v \in Tasks \ {t} : task'[v] = task[v]
BY DEF Finish, TypeOK, Idle

\* Only an operation that began as a migration gets to a migration's steps.
LEMMA MigrationStep ==
  ASSUME TypeOK, OnlyDedupe, [Next]_vars
  PROVE  OnlyDedupe'
<1> SUFFICES ASSUME NEW u \in Tasks, Migrates(u)' PROVE task'[u].op = "dedupe"
  BY DEF OnlyDedupe
<1> DEFINE Kept(t) == /\ \A v \in Tasks \ {t} : task'[v] = task[v]
                      /\ Migrates(t)' => Migrates(t) /\ task'[t].op = task[t].op
<1>0. ASSUME NEW t \in Tasks, Kept(t) PROVE task'[u].op = "dedupe"
  BY <1>0 DEF OnlyDedupe, Migrates, TypeOK
<1>1. ASSUME NEW t \in Tasks, NEW r \in Repos, NEW o \in Oids,
             \/ BeginPush(t, r, o) \/ BeginCompress(t, r, o) \/ BeginOpen(t, r, o)
             \/ \E seen \in SUBSET Repos : BeginSweep(t, r, o, seen)
      PROVE  Kept(t)
  BY <1>1 DEF BeginPush, BeginCompress, BeginOpen, BeginSweep, Begin, Migrates, TypeOK
<1>2. ASSUME NEW t \in Tasks, NEW r \in Repos, NEW o \in Oids, BeginDedupe(t, r, o)
      PROVE  task'[u].op = "dedupe"
  BY <1>2 DEF BeginDedupe, Begin, OnlyDedupe, Migrates, TypeOK
<1>a. ASSUME NEW t \in Tasks, task[t].pc # "idle", NEW pc, Goto(t, pc),
             pc \in {"compare", "hash", "stage", "vouch", "move", "back", "undo"} => Migrates(t)
      PROVE  Kept(t)
  BY <1>a, GotoTurn DEF Migrates
<1>b. ASSUME NEW t \in Tasks, Finish(t) PROVE Kept(t)
  BY <1>b, FinishTurn DEF Migrates
<1>3. ASSUME NEW t \in Tasks, Push(t) PROVE Kept(t)
  <2>1. ASSUME NEW n \in Tickets, NEW i \in Inodes, PushCreate(t, n, i) PROVE Kept(t)
    BY <2>1, OperationType DEF PushCreate, Busy, Operation, Migrates, TypeOK
  <2>2. CASE PushStream(t)
    BY <2>2, OperationType DEF PushStream, Busy, Operation, Migrates, TypeOK
  <2>3. CASE PushAbort(t) \/ PushTidy(t) \/ PushFails(t)
    BY <2>3, <1>b DEF PushAbort, PushTidy, PushFails
  <2>4. CASE PushFind(t) \/ PushPublish(t) \/ PushLink(t) \/ PushRelink(t) \/ PushAgain(t)
             \/ PushRefused(t)
    <3>1. /\ task[t].pc # "idle"
          /\ \E pc \in {"link", "publish", "tidy", "relink", "again", "refused"} : Goto(t, pc)
      BY <2>4 DEF PushFind, PushPublish, PushLink, PushRelink, PushAgain, PushRefused, Link, Busy
    <3>2. QED
      BY <3>1, <1>a
  <2>5. QED
    BY <1>3, <2>1, <2>2, <2>3, <2>4 DEF Push
<1>4. ASSUME NEW t \in Tasks, Sweep(t) PROVE Kept(t)
  <2>1. CASE Finish(t)
    BY <2>1, <1>b
  <2>2. ASSUME NEW r, task' = [task EXCEPT ![t].ask = @ \ {r}], Busy(t, "probe")
        PROVE  Kept(t)
    BY <2>2, OperationType DEF Busy, Operation, Migrates, TypeOK
  <2>3. CASE task[t].pc # "idle" /\ \E pc \in {"remove", "count", "probe", "erase"} : Goto(t, pc)
    BY <2>3, <1>a
  <2>4. QED
    BY <1>4, <2>1, <2>2, <2>3
    DEF Sweep, SweepStat, SweepRemove, SweepCount, SweepProbe, SweepErase, Busy
<1>5. ASSUME NEW t \in Tasks, Dedupe(t) PROVE Kept(t)
  <2>1. CASE Finish(t)
    BY <2>1, <1>b
  <2>2. ASSUME NEW n \in Tickets, task' = [task EXCEPT ![t].pc = "swap", ![t].ticket = n],
               Stage(t, n)
        PROVE  Kept(t)
    BY <2>2, OperationType DEF Stage, Operation, Migrates, TypeOK
  <2>3. CASE Migrates(t) /\ task[t].pc # "idle" /\ \E pc : Goto(t, pc)
    BY <2>3, <1>a
  <2>4. QED
    BY <1>5, <2>1, <2>2, <2>3
    DEF Dedupe, DedupeCompare, AdoptHash, Stage, Swap, PromoteHash, PromoteMove,
        PromoteBack, PromoteUndo, Busy, Migrates
<1>6. ASSUME NEW t \in Tasks, Compress(t) PROVE Kept(t)
  <2>1. CASE Finish(t)
    BY <2>1, <1>b
  <2>2. ASSUME NEW n \in Tickets, NEW i \in Inodes \cup {None}, CompressRewrite(t, n, i)
        PROVE  Kept(t)
    BY <2>1, <2>2, OperationType DEF CompressRewrite, Busy, Operation, Migrates, TypeOK
  <2>3. CASE CompressFill(t)
    BY <2>1, <2>3, OperationType DEF CompressFill, Busy, Operation, Migrates, TypeOK
  <2>4. CASE /\ task[t].pc # "idle"
             /\ \E pc \in {"rewrite", "replace", "swap", "restage"} : Goto(t, pc)
    BY <2>4, <1>a
  <2>5. QED
    BY <1>6, <2>1, <2>2, <2>3, <2>4
    DEF Compress, CompressInspect, CompressShare, CompressReplace, Busy
<1>7. ASSUME NEW t \in Tasks, Download(t) PROVE Kept(t)
  <2>1. CASE Finish(t)
    BY <2>1, <1>b
  <2>2. CASE task[t].pc # "idle" /\ Goto(t, "reopen")
    BY <2>2, <1>a
  <2>3. CASE Open(t)
    BY <2>1, <2>2, <2>3, OperationType DEF Open, Busy, Operation, Migrates, TypeOK
  <2>4. CASE Reopen(t)
    BY <2>1, <2>4, OperationType DEF Reopen, Busy, Operation, Migrates, TypeOK
  <2>5. QED
    BY <1>7, <2>1, <2>3, <2>4 DEF Download, Serve
<1>8. ASSUME NEW t \in Tasks, Leave(t) PROVE Kept(t)
  BY <1>8, <1>b DEF Leave
<1>9. CASE (\E part \in Parts : Reclaim(part)) \/ OtherDraws \/ Tick \/ UNCHANGED vars
  BY <1>9 DEF Reclaim, OtherDraws, Tick, vars, OnlyDedupe, Migrates
<1>10. CASE Restart
  BY <1>10 DEF Restart, Idle, Migrates
<1>11. QED
  BY <1>0, <1>1, <1>2, <1>3, <1>4, <1>5, <1>6, <1>7, <1>8, <1>9, <1>10 DEF Next, Step

\* The names of objects that a step leaves alone.
ObjectsStay == \A n \in Objects : Exists(n) => Exists(n)'

\* An object's name survives a change to another kind of name, and the gift of a file.
LEMMA ChangeStays ==
  ASSUME TypeOK, NEW n, NEW i, dir' = [dir EXCEPT ![n] = i], n \notin Objects \/ i # None
  PROVE  ObjectsStay
BY DEF ObjectsStay, Exists, TypeOK, Names

\* Links only add names.
LEMMA LinkStays ==
  ASSUME TypeOK, NEW t \in Tasks, NEW from \in Names, NEW to, NEW pc, Link(t, from, to, pc)
  PROVE  ObjectsStay
BY ChangeStays DEF Link, Exists, ObjectsStay

\* A rename of something that is not an object's name.
LEMMA RenamedStays ==
  ASSUME TypeOK, NEW from \in Names \ Objects, NEW to, Exists(from), dir' = Renamed(from, to)
  PROVE  ObjectsStay
BY DEF Renamed, Same, Exists, ObjectsStay, TypeOK, Names

\* The three kinds of names as sets.
LEMMA KindsApart == Contents \cap Objects = {} /\ Parts \cap Objects = {}
BY NamesApart DEF Contents, Objects, Parts

\* No claim comes, and no name goes.
LEMMA HeldStays ==
  ASSUME TypeOK, HeldKept, ObjectsStay,
         UNCHANGED told \/ \E t \in Tasks : Bereaved(t)
  PROVE  HeldKept'
<1>1. \A p \in told : Object(p.repo, p.oid) \in Objects
  BY NamesType DEF TypeOK
<1>2. ASSUME NEW q \in told' PROVE \E p \in told : q.repo = p.repo /\ q.oid = p.oid
  BY <1>2, BereavedType
<1>3. QED
  BY <1>1, <1>2 DEF HeldKept, ObjectsStay, Exists

\* Without migrations every step keeps the names of what repositories hold.
LEMMA HeldStep ==
  ASSUME "dedupe" \notin Ops, TypeOK, OnlyDedupe, HeldKept, [Next]_vars
  PROVE  HeldKept'
<1>0. ASSUME NEW t \in Tasks PROVE ~Migrates(t)
  BY OperationType DEF OnlyDedupe, Migrates, Operation
<1>1. CASE dir' = dir /\ told' = told
  BY <1>1, HeldStays DEF ObjectsStay, Exists
<1>2. ASSUME NEW t \in Tasks, Push(t) PROVE HeldKept'
  <2>1. task[t].pc # "idle"
    BY <1>2 DEF Push, PushCreate, PushStream, PushAbort, PushFind, PushPublish, PushLink,
                PushRelink, PushAgain, PushRefused, PushTidy, PushFails, Busy
  <2> USE OwnNames, KindsApart, <2>1
  <2>2. ASSUME NEW n \in Tickets, NEW i \in Inodes, PushCreate(t, n, i) PROVE HeldKept'
    <3>1. Part(task[t].repo, task[t].oid, n) \in Parts
      BY OperationType, NamesType DEF Operation
    <3>2. QED
      BY <2>2, <3>1, ChangeStays, HeldStays DEF PushCreate, Create
  <2>3. CASE PushAbort(t) \/ PushTidy(t)
    BY <2>3, ChangeStays, HeldStays DEF PushAbort, PushTidy
  <2>4. CASE PushPublish(t) \/ PushRelink(t)
    BY <2>4, LinkStays, HeldStays DEF PushPublish, PushRelink
  <2>5. ASSUME Link(t, Shared(t), Mine(t), "tidy"), Told(t) PROVE HeldKept'
    <3>1. ObjectsStay
      BY <2>5, LinkStays
    <3>2. dir'[Mine(t)] # None
      BY <2>5, ConstantsOK DEF Link, Exists, TypeOK
    <3>3. ASSUME NEW p \in told'
          PROVE  Exists(Object(p.repo, p.oid))'
      <4>1. CASE p \in told
        BY <3>1, <4>1, NamesType DEF HeldKept, ObjectsStay, TypeOK
      <4>2. CASE p = [repo |-> task[t].repo, oid |-> task[t].oid, lost |-> FALSE]
        <5>1. Object(p.repo, p.oid) = Object(task[t].repo, task[t].oid)
          BY <4>2
        <5>2. dir'[Object(task[t].repo, task[t].oid)] # None
          BY <3>2 DEF Mine
        <5>3. QED
          BY <5>1, <5>2 DEF Exists
      <4>3. QED
        BY <2>5, <4>1, <4>2 DEF Told, Untold
    <3>4. QED
      BY <3>3 DEF HeldKept
  <2>6. CASE PushLink(t) \/ PushAgain(t)
    BY <1>1, <2>5, <2>6 DEF PushLink, PushAgain, files
  <2>7. CASE PushStream(t) \/ PushFind(t) \/ PushRefused(t) \/ PushFails(t)
    BY <1>1, <2>7 DEF PushStream, PushFind, PushRefused, PushFails, files
  <2>8. QED
    BY <1>2, <2>2, <2>3, <2>4, <2>6, <2>7 DEF Push
<1>3. ASSUME NEW t \in Tasks, Sweep(t) PROVE HeldKept'
  <2>1. task[t].pc # "idle"
    BY <1>3 DEF Sweep, SweepStat, SweepRemove, SweepCount, SweepProbe, SweepErase, Busy
  <2>2. CASE SweepRemove(t)
    <3>1. SUFFICES ASSUME NEW p \in told'
                   PROVE  Exists(Object(p.repo, p.oid))'
      BY DEF HeldKept
    <3>2. p \in told /\ Object(p.repo, p.oid) # Mine(t)
      BY <2>2, <3>1, NamesDiffer DEF SweepRemove, Untold, Mine
    <3>3. Object(p.repo, p.oid) \in Names
      BY <3>2, NamesType DEF TypeOK
    <3>4. QED
      BY <2>2, <3>2, <3>3 DEF SweepRemove, HeldKept, Exists, TypeOK
  <2>3. CASE SweepErase(t)
    BY <2>1, <2>3, OwnNames, KindsApart, ChangeStays, HeldStays DEF SweepErase
  <2>4. CASE SweepStat(t) \/ SweepCount(t) \/ SweepProbe(t)
    BY <1>1, <2>4 DEF SweepStat, SweepCount, SweepProbe, files
  <2>5. QED
    BY <1>3, <2>2, <2>3, <2>4 DEF Sweep
<1>4. ASSUME NEW t \in Tasks, Dedupe(t) PROVE HeldKept'
  <2>1. ASSUME NEW n \in Tickets, Stage(t, n) PROVE HeldKept'
    <3>1. Part(task[t].repo, task[t].oid, n) \in Parts
      BY <2>1, OperationType, NamesType DEF Stage, Operation
    <3>2. ObjectsStay
      BY <2>1, <3>1, KindsApart, ChangeStays DEF Stage, ObjectsStay, Exists
    <3>3. QED
      BY <2>1, <3>2, HeldStays DEF Stage
  <2>2. CASE Swap(t)
    <3>1. Staged(t) \in Names \ Objects
      BY <2>2, OwnNames, KindsApart DEF Swap, Busy
    <3>2. ObjectsStay
      BY <2>2, <3>1, RenamedStays DEF Swap, ObjectsStay, Exists
    <3>3. QED
      BY <2>2, <3>2, HeldStays DEF Swap
  <2>3. QED
    BY <1>0, <1>4, <2>1, <2>2
    DEF Dedupe, DedupeCompare, AdoptHash, PromoteHash, PromoteMove, PromoteBack,
        PromoteUndo, Busy, Migrates
<1>5. ASSUME NEW t \in Tasks, Compress(t) PROVE HeldKept'
  <2>1. task[t].pc # "idle"
    BY <1>5 DEF Compress, CompressInspect, CompressRewrite, CompressFill, CompressShare,
                CompressReplace, Busy
  <2> USE OwnNames, KindsApart, <2>1
  <2>2. ASSUME NEW n \in Tickets, NEW i \in Inodes \cup {None}, CompressRewrite(t, n, i)
        PROVE  HeldKept'
    <3>1. Part(task[t].repo, task[t].oid, n) \in Parts
      BY OperationType, NamesType DEF Operation
    <3>2. QED
      BY <2>2, <3>1, ChangeStays, HeldStays DEF CompressRewrite, Create
  <2>3. CASE CompressFill(t)
    <3>1. ObjectsStay
      BY <2>3, ChangeStays DEF CompressFill, ObjectsStay, Exists
    <3>2. QED
      BY <2>3, <3>1, HeldStays DEF CompressFill
  <2>4. CASE CompressReplace(t)
    <3>1. ObjectsStay
      BY <2>4, RenamedStays DEF CompressReplace, ObjectsStay, Exists
    <3>2. QED
      BY <2>4, <3>1, HeldStays DEF CompressReplace
  <2>5. CASE CompressInspect(t) \/ CompressShare(t)
    BY <1>1, <2>5 DEF CompressInspect, CompressShare, files
  <2>6. QED
    BY <1>5, <2>2, <2>3, <2>4, <2>5 DEF Compress
<1>6. ASSUME NEW part \in Parts, Reclaim(part) PROVE HeldKept'
  BY <1>6, KindsApart, ChangeStays, HeldStays DEF Reclaim
<1>7. ASSUME NEW t \in Tasks, NEW r \in Repos, NEW o \in Oids,
             \/ BeginPush(t, r, o) \/ BeginDedupe(t, r, o) \/ BeginCompress(t, r, o)
             \/ BeginOpen(t, r, o)
             \/ \E seen \in SUBSET Repos : BeginSweep(t, r, o, seen)
      PROVE  HeldKept'
  BY <1>1, <1>7
  DEF BeginPush, BeginDedupe, BeginCompress, BeginOpen, BeginSweep, Begin, files
<1>8. ASSUME NEW t \in Tasks, Download(t) \/ Leave(t) PROVE HeldKept'
  BY <1>1, <1>8 DEF Download, Open, Reopen, Serve, Leave, files
<1>9. CASE OtherDraws \/ Restart \/ Tick \/ UNCHANGED vars
  BY <1>1, <1>9 DEF OtherDraws, Restart, Tick, vars, files
<1>10. QED
  BY <1>2, <1>3, <1>4, <1>5, <1>6, <1>7, <1>8, <1>9 DEF Next, Step

\* At first repositories hold what was stored before, and nobody is at work.
LEMMA HeldInit == Init => HeldKept /\ OnlyDedupe
<1> SUFFICES ASSUME Init PROVE HeldKept /\ OnlyDedupe
  OBVIOUS
<1>1. OnlyDedupe
  BY DEF Init, OnlyDedupe, Migrates, Idle
<1>2. PICK home \in [Loose -> Inodes] :
        /\ dir = [n \in Names |->
                    IF \E c \in Loose : n = Object(c[1], c[2])
                      THEN home[<<n[2], n[3]>>] ELSE None]
        /\ told = {[repo |-> c[1], oid |-> c[2], lost |-> FALSE] : c \in Loose}
  BY DEF Init
<1>3. ASSUME NEW p \in told PROVE Exists(Object(p.repo, p.oid))
  <2>1. PICK c \in Loose : p = [repo |-> c[1], oid |-> c[2], lost |-> FALSE]
    BY <1>2
  <2>2. /\ c = <<c[1], c[2]>>
        /\ Object(c[1], c[2])[2] = c[1] /\ Object(c[1], c[2])[3] = c[2]
        /\ Object(c[1], c[2]) \in Names
    BY ConstantsOK, NamesType DEF Object
  <2>3. dir[Object(c[1], c[2])] = home[c]
    BY <1>2, <2>2
  <2>4. QED
    BY <2>1, <2>3, ConstantsOK DEF Exists
<1>4. QED
  BY <1>1, <1>3 DEF HeldKept

\* Where no migration runs, what a repository holds keeps its name through every
\* sweep of others, rewrite, reclaim, crash and lost race (link_or_move_after's
\* second try, referenced_elsewhere), until a sweep of its own drops it.
THEOREM HeldStaysHeld == "dedupe" \notin Ops => (Spec => []HeldKept)
<1> SUFFICES ASSUME "dedupe" \notin Ops PROVE Spec => []HeldKept
  OBVIOUS
<1>1. TypeOK /\ OnlyDedupe /\ HeldKept /\ [Next]_vars => TypeOK' /\ OnlyDedupe' /\ HeldKept'
  BY TypeStep, MigrationStep, HeldStep
<1>2. QED
  BY <1>1, TypeInit, HeldInit, PTL DEF Spec

-----------------------------------------------------------------------------
(* Whole objects.                                                          *)

\* A name that a file may be given another name by.
Safe(f) ==
  \/ f \in Contents \cup Objects
  \/ \E t \in Tasks : Staging(t) /\ ~Writing(t) /\ f = Staged(t)

\* What has a safe name is whole, and nobody is writing to it.
LEMMA SafeIsWhole ==
  ASSUME TypeOK, IInv, NEW f \in Names, Safe(f), Exists(f)
  PROVE  /\ data[dir[f]] \in Whole
         /\ \A u \in Tasks : Writing(u) => dir[f] # task[u].fd
<1>1. data[dir[f]] \in Whole
  BY DEF Safe, IInv, NeverCorrupt, StagedWhole
<1>2. ASSUME NEW u \in Tasks, Writing(u), dir[f] = task[u].fd PROVE FALSE
  <2>1. f = Staged(u)
    BY <1>2 DEF IInv, WrittenAlone
  <2>2. f \notin Contents \cup Objects
    BY <2>1, NamesApart DEF Staged, Contents, Objects
  <2>3. PICK t \in Tasks : Staging(t) /\ ~Writing(t) /\ f = Staged(t)
    BY <2>2 DEF Safe
  <2>4. t # u /\ task[t].ticket = task[u].ticket
    <3>1. Staged(t) = Staged(u)
      BY <2>1, <2>3
    <3>2. task[t].ticket = task[u].ticket
      BY <3>1 DEF Staged, Part
    <3>3. QED
      BY <1>2, <2>3, <3>2
  <2>5. QED
    BY <1>2, <2>3, <2>4 DEF IInv, TicketsApart, Staging, Writing
<1>3. QED
  BY <1>1, <1>2

\* Names that go, stay, or come to files with a safe name; none of the new ones
\* is where somebody is writing.
NamesGiven ==
  \A n \in Names :
    \/ dir'[n] = None
    \/ dir'[n] = dir[n]
    \/ /\ \E f \in Names : Safe(f) /\ Exists(f) /\ dir'[n] = dir[f]
       /\ \A u \in Tasks : Writing(u) => n # Staged(u)

\* Giving names that way keeps what has a name whole.
LEMMA Naming ==
  ASSUME TypeOK, IInv, UNCHANGED data, NamesGiven,
         \A u \in Tasks : Writing(u)' => Writing(u) /\ task'[u] = task[u],
         \A u \in Tasks : Staging(u)' /\ ~Writing(u)' =>
           \E n \in Names : n = Staged(u)' /\ (Safe(n) \/ dir[n] = None)
  PROVE  NeverCorrupt' /\ WrittenAlone' /\ StagedWhole'
<1>1. ASSUME NEW n \in Names, dir'[n] # None, Safe(n) \/ dir[n] = None
      PROVE  data[dir'[n]] \in Whole
  BY <1>1, SafeIsWhole DEF NamesGiven, Exists
<1>2. NeverCorrupt'
  <2>1. ASSUME NEW n \in Contents \cup Objects, dir'[n] # None
        PROVE  data[dir'[n]] \in Whole
    BY <1>1, <2>1 DEF Safe, Names
  <2>2. QED
    BY <2>1 DEF NeverCorrupt, Exists
<1>3. WrittenAlone'
  <2>1. SUFFICES ASSUME NEW u \in Tasks, Writing(u), task'[u] = task[u]
                 PROVE  /\ task[u].fd # None
                        /\ \A n \in Names : dir'[n] = task[u].fd => n = Staged(u)
                        /\ dir'[Staged(u)] # None => dir'[Staged(u)] = task[u].fd
    BY DEF WrittenAlone, Exists, Staged
  <2>2. task[u].fd # None
    BY <2>1 DEF IInv, WrittenAlone
  <2>3. ASSUME NEW n \in Names, dir'[n] = task[u].fd PROVE n = Staged(u)
    BY <2>1, <2>2, <2>3, SafeIsWhole DEF NamesGiven, IInv, WrittenAlone
  <2>4. Staged(u) \in Names
    BY <2>1, OwnNames DEF Writing
  <2>5. dir'[Staged(u)] = None \/ dir'[Staged(u)] = dir[Staged(u)]
    BY <2>1, <2>4 DEF NamesGiven
  <2>6. QED
    BY <2>1, <2>2, <2>3, <2>5 DEF IInv, WrittenAlone, Exists
<1>4. StagedWhole'
  BY <1>1 DEF StagedWhole, Exists
<1>5. QED
  BY <1>2, <1>3, <1>4

\* Operations that draw no ticket and begin no writing.
Calm ==
  \A u \in Tasks : Staging(u)' =>
    /\ Staging(u)
    /\ task'[u].repo = task[u].repo /\ task'[u].oid = task[u].oid
    /\ task'[u].ticket = task[u].ticket
    /\ IF Writing(u)' THEN task'[u] = task[u] ELSE ~Writing(u)

\* A step of such operations that gives names to safe files.
LEMMA CalmStep ==
  ASSUME TypeOK, IInv, Calm, NamesGiven, UNCHANGED data, counter \in Nat, counter' \in Nat,
         counter <= counter'
  PROVE  IInv'
<1>1. TicketsDrawn'
  <2>1. SUFFICES ASSUME NEW u \in Tasks, Staging(u)' PROVE task'[u].ticket < counter'
    BY DEF TicketsDrawn
  <2>2. task'[u].ticket = task[u].ticket /\ task[u].ticket < counter
    BY <2>1 DEF Calm, IInv, TicketsDrawn
  <2>3. task[u].ticket \in Nat
    BY <2>1, OperationType, ConstantsOK DEF Calm, Staging, Operation, Tickets
  <2>4. QED
    BY <2>2, <2>3
<1>2. TicketsApart'
  BY DEF TicketsApart, Calm, IInv
<1>3. ASSUME NEW u \in Tasks, Writing(u)' PROVE Writing(u) /\ task'[u] = task[u]
  BY <1>3 DEF Calm, Writing, Staging
<1>4. ASSUME NEW u \in Tasks, Staging(u)', ~Writing(u)'
      PROVE  \E n \in Names : n = Staged(u)' /\ (Safe(n) \/ dir[n] = None)
  <2>1. Staging(u) /\ ~Writing(u) /\ Staged(u)' = Staged(u)
    BY <1>4 DEF Calm, Staged
  <2>2. Staged(u) \in Names /\ Safe(Staged(u))
    BY <2>1, OwnNames DEF Staging, Safe
  <2>3. QED
    BY <2>1, <2>2
<1>5. NeverCorrupt' /\ WrittenAlone' /\ StagedWhole'
  BY <1>3, <1>4, Naming
<1>6. QED
  BY <1>1, <1>2, <1>5 DEF IInv

\* A step of one operation that moves on without a ticket of its own to draw.
LEMMA GotoCalm ==
  ASSUME TypeOK, NEW t \in Tasks, task[t].pc # "idle", NEW pc, Goto(t, pc),
         pc \notin {"stream", "fill"},
         pc \in {"find", "publish", "link", "relink", "again", "tidy", "swap", "share",
                 "replace"} => Staging(t) /\ ~Writing(t)
  PROVE  Calm
<1>1. ASSUME NEW u \in Tasks \ {t} PROVE task'[u] = task[u]
  BY GotoTurn
<1>2. /\ task'[t].pc = pc /\ task'[t].repo = task[t].repo /\ task'[t].oid = task[t].oid
      /\ task'[t].ticket = task[t].ticket
  <2>1. task[t] \in Operation /\ task'[t] = [task[t] EXCEPT !.pc = pc]
    BY GotoTurn, OperationType
  <2>2. QED
    BY <2>1 DEF Operation
<1>3. QED
  BY <1>1, <1>2 DEF Calm, Staging, Writing

\* An operation that ends.
LEMMA FinishCalm ==
  ASSUME TypeOK, NEW t \in Tasks, Finish(t)
  PROVE  Calm
BY FinishTurn DEF Calm, Staging, Writing

\* No operation moves.
LEMMA SameCalm == UNCHANGED task => Calm
BY DEF Calm, Staging, Writing

\* No name changes, or one goes.
LEMMA NamesGo ==
  ASSUME TypeOK, dir' = dir \/ \E n : dir' = [dir EXCEPT ![n] = None]
  PROVE  NamesGiven
BY DEF NamesGiven, TypeOK

\* Names of objects and of shared copies are not where anybody is writing.
LEMMA WrittenElsewhere ==
  ASSUME NEW n \in Contents \cup Objects, NEW u
  PROVE  n # Staged(u)
BY NamesApart DEF Staged, Contents, Objects

\* link(2) from a safe name to an object's or a shared one.
LEMMA LinkGives ==
  ASSUME TypeOK, NEW t, NEW from \in Names, Safe(from), NEW to \in Contents \cup Objects,
         NEW pc, Link(t, from, to, pc)
  PROVE  NamesGiven
BY WrittenElsewhere DEF Link, NamesGiven, TypeOK

\* rename(2) likewise.
LEMMA RenamedGives ==
  ASSUME TypeOK, NEW from \in Names, Safe(from), NEW to \in Contents \cup Objects,
         Exists(from), dir' = Renamed(from, to)
  PROVE  NamesGiven
<1>1. CASE Same(from, to)
  BY <1>1, NamesGo DEF Renamed
<1>2. CASE ~Same(from, to)
  BY <1>2, WrittenElsewhere DEF Renamed, NamesGiven, TypeOK
<1>3. QED
  BY <1>1, <1>2

\* What a step that writes to no file keeps.
LEMMA QuietStep ==
  ASSUME TypeOK, IInv, Calm, NamesGiven, UNCHANGED <<data, counter>>
  PROVE  IInv'
BY CalmStep, ConstantsOK DEF TypeOK

\* An operation that draws a ticket: it differs from every other one's.
LEMMA TicketStep ==
  ASSUME TypeOK, IInv, NEW t \in Tasks, NEW n \in Tickets, Draw(t, n),
         \A u \in Tasks \ {t} : task'[u] = task[u],
         Staging(t)' => task'[t].ticket = n
  PROVE  TicketsDrawn' /\ TicketsApart'
<1>1. n \in Nat /\ counter = n /\ counter' = n + 1
  BY ConstantsOK DEF Draw, Tickets
<1>2. ASSUME NEW u \in Tasks, u # t, Staging(u)'
      PROVE  Staging(u) /\ task'[u].ticket = task[u].ticket /\ task[u].ticket < n
             /\ task[u].ticket \in Nat
  <2>1. Staging(u) /\ task'[u] = task[u]
    BY <1>2 DEF Staging
  <2>2. task[u].ticket \in Nat
    BY <2>1, OperationType, ConstantsOK DEF Staging, Operation, Tickets
  <2>3. QED
    BY <1>1, <2>1, <2>2 DEF IInv, TicketsDrawn
<1>3. TicketsDrawn'
  BY <1>1, <1>2 DEF TicketsDrawn
<1>4. TicketsApart'
  BY <1>1, <1>2 DEF TicketsApart, IInv
<1>5. QED
  BY <1>3, <1>4

\* A file made for an operation that has just drawn a ticket, where no earlier
\* process left one of that name.
LEMMA CreateStep ==
  ASSUME ~Meets, TypeOK, IInv, NEW t \in Tasks, task[t].pc # "idle", NEW n \in Tickets,
         NEW i \in Inodes, Draw(t, n), Create(Part(task[t].repo, task[t].oid, n), i),
         \A u \in Tasks \ {t} : task'[u] = task[u], Writing(t)',
         task'[t].repo = task[t].repo, task'[t].oid = task[t].oid,
         task'[t].ticket = n, task'[t].fd = i
  PROVE  IInv'
<1> DEFINE name == Part(task[t].repo, task[t].oid, n)
<1>1. name \in Names /\ name \in Parts
  BY OperationType, NamesType DEF Operation
<1>2. Free(i) /\ dir' = [dir EXCEPT ![name] = i] /\ data' = [data EXCEPT ![i] = "partial"]
  BY DEF Draw, Create
<1>3. dir'[name] = i /\ \A m \in Names \ {name} : dir'[m] = dir[m] /\ dir[m] # i
  BY <1>1, <1>2 DEF TypeOK, Free
<1>4. \A j \in Inodes \ {i} : data'[j] = data[j]
  BY <1>2 DEF TypeOK
<1>5. TicketsDrawn' /\ TicketsApart'
  BY TicketStep
<1>6. NeverCorrupt'
  <2>1. ASSUME NEW m \in Contents \cup Objects, dir'[m] # None
        PROVE  data'[dir'[m]] \in Whole
    <3>1. m \in Names /\ m # name
      BY <1>1, NamesApart DEF Names, Contents, Objects
    <3>2. dir'[m] = dir[m] /\ dir[m] \in Inodes \ {i}
      BY <1>3, <2>1, <3>1 DEF TypeOK
    <3>3. QED
      BY <1>4, <2>1, <3>2 DEF IInv, NeverCorrupt, Exists
  <2>2. QED
    BY <2>1 DEF NeverCorrupt, Exists
<1>7. ASSUME NEW u \in Tasks, u # t, Staging(u)
      PROVE  Staged(u) \in Names /\ Staged(u) # name
  <2>1. task[u].ticket # n
    BY <1>7, OperationType, ConstantsOK
    DEF Draw, IInv, TicketsDrawn, Staging, Operation, Tickets
  <2>2. Staged(u) # name
    BY <2>1 DEF Staged, Part
  <2>3. QED
    BY <1>7, <2>2, OwnNames DEF Staging
<1>8. WrittenAlone'
  <2>1. SUFFICES ASSUME NEW u \in Tasks, Writing(u)'
                 PROVE  /\ task'[u].fd # None
                        /\ \A m \in Names : dir'[m] = task'[u].fd => m = Staged(u)'
                        /\ dir'[Staged(u)'] # None => dir'[Staged(u)'] = task'[u].fd
    BY DEF WrittenAlone, Exists
  <2>2. CASE u = t
    <3>1. Staged(t)' = name
      BY DEF Staged
    <3>2. QED
      BY <1>3, <2>2, <3>1, ConstantsOK
  <2>3. CASE u # t
    <3>1. task'[u] = task[u] /\ Writing(u) /\ Staging(u) /\ Staged(u)' = Staged(u)
      BY <2>1, <2>3 DEF Writing, Staging, Staged
    <3>2. task[u].fd # i
      BY <1>2 DEF Free
    <3>3. dir'[Staged(u)] = dir[Staged(u)]
      BY <1>3, <1>7, <2>3, <3>1
    <3>4. QED
      BY <1>3, <3>1, <3>2, <3>3 DEF IInv, WrittenAlone, Exists
  <2>4. QED
    BY <2>2, <2>3
<1>9. StagedWhole'
  <2>1. SUFFICES ASSUME NEW u \in Tasks, Staging(u)', ~Writing(u)', dir'[Staged(u)'] # None
                 PROVE  data'[dir'[Staged(u)']] \in Whole
    BY DEF StagedWhole, Exists
  <2>2. u # t /\ task'[u] = task[u]
    BY <2>1
  <2>3. Staging(u) /\ ~Writing(u) /\ Staged(u)' = Staged(u)
    BY <2>1, <2>2 DEF Staging, Writing, Staged
  <2>4. dir'[Staged(u)] = dir[Staged(u)] /\ dir[Staged(u)] \in Inodes \ {i}
    BY <1>3, <1>7, <2>1, <2>2, <2>3 DEF TypeOK
  <2>5. QED
    BY <1>4, <2>1, <2>3, <2>4 DEF IInv, StagedWhole, Exists
<1>10. QED
  BY <1>5, <1>6, <1>8, <1>9 DEF IInv

\* An operation that has written its file to the end.
LEMMA WriteStep ==
  ASSUME TypeOK, IInv, NEW t \in Tasks, Writing(t), NEW d \in Whole,
         data' = [data EXCEPT ![task[t].fd] = d], UNCHANGED <<dir, counter>>,
         \A u \in Tasks \ {t} : task'[u] = task[u], ~Writing(t)',
         task'[t].repo = task[t].repo, task'[t].oid = task[t].oid,
         task'[t].ticket = task[t].ticket
  PROVE  IInv'
<1>1. Staging(t) /\ task[t].fd \in Inodes
  <2>1. task[t].fd \in Inodes \cup {None}
    BY OperationType DEF Writing, Operation
  <2>2. QED
    BY <2>1 DEF Writing, Staging, IInv, WrittenAlone
<1>2. data'[task[t].fd] \in Whole /\ \A j \in Inodes : data'[j] = data[j] \/ data'[j] \in Whole
  BY <1>1 DEF TypeOK
<1>3. \A u \in Tasks : Staged(u)' = Staged(u) \/ u # t
  BY DEF Staged
<1>4. ASSUME NEW u \in Tasks, Staging(u)'
      PROVE  Staging(u) /\ task'[u].ticket = task[u].ticket /\ Staged(u)' = Staged(u)
             /\ Staged(u) \in Names
  <2>1. Staging(u) /\ task'[u].ticket = task[u].ticket /\ Staged(u)' = Staged(u)
    BY <1>1, <1>4 DEF Staging, Staged
  <2>2. QED
    BY <2>1, OwnNames DEF Staging
<1>5. TicketsDrawn' /\ TicketsApart'
  BY <1>4 DEF IInv, TicketsDrawn, TicketsApart
<1>6. ASSUME NEW n \in Names, dir[n] # None, data[dir[n]] \in Whole
      PROVE  data'[dir[n]] \in Whole
  BY <1>2, <1>6 DEF TypeOK
<1>7. NeverCorrupt'
  BY <1>6 DEF IInv, NeverCorrupt, Exists, Names
<1>8. WrittenAlone'
  <2>1. ASSUME NEW u \in Tasks, Writing(u)' PROVE Writing(u) /\ task'[u] = task[u]
    BY <2>1 DEF Writing
  <2>2. QED
    BY <2>1 DEF IInv, WrittenAlone, Exists, Staged
<1>9. StagedWhole'
  <2>1. SUFFICES ASSUME NEW u \in Tasks, Staging(u)', ~Writing(u)', dir[Staged(u)] # None
                 PROVE  data'[dir[Staged(u)]] \in Whole
    BY <1>4 DEF StagedWhole, Exists
  <2>2. CASE u = t
    BY <1>2, <2>1, <2>2 DEF IInv, WrittenAlone, Exists
  <2>3. CASE u # t
    <3>1. ~Writing(u)
      BY <2>1, <2>3 DEF Writing
    <3>2. QED
      BY <1>4, <1>6, <2>1, <3>1 DEF IInv, StagedWhole, Exists
  <2>4. QED
    BY <2>2, <2>3
<1>10. QED
  BY <1>5, <1>7, <1>8, <1>9 DEF IInv

\* Every step of a push keeps whole what has a name.
LEMMA PushWhole ==
  ASSUME ~Meets, TypeOK, IInv, NEW t \in Tasks, Push(t)
  PROVE  IInv'
<1>1. task[t].pc # "idle"
  BY DEF Push, PushCreate, PushStream, PushAbort, PushFind, PushPublish, PushLink,
         PushRelink, PushAgain, PushRefused, PushTidy, PushFails, Busy
<1> USE <1>1
<1>2. ASSUME Staging(t), ~Writing(t) PROVE Safe(Staged(t))
  BY <1>2 DEF Safe
<1>3. Safe(Shared(t)) /\ Safe(Mine(t))
  BY OwnNames DEF Safe
<1>4. ASSUME NEW n \in Tickets, NEW i \in Inodes, PushCreate(t, n, i) PROVE IInv'
  <2>1. \A u \in Tasks \ {t} : task'[u] = task[u]
    BY <1>4 DEF PushCreate, TypeOK
  <2>2. /\ task'[t].pc = "stream" /\ task'[t].repo = task[t].repo
        /\ task'[t].oid = task[t].oid /\ task'[t].ticket = n /\ task'[t].fd = i
    BY <1>4, OperationType DEF PushCreate, Operation, TypeOK
  <2>3. QED
    BY <1>4, <2>1, <2>2, CreateStep DEF PushCreate, Writing
<1>5. CASE PushStream(t)
  <2>1. \A u \in Tasks \ {t} : task'[u] = task[u]
    BY <1>5 DEF PushStream, TypeOK
  <2>2. /\ task'[t].pc \in {"find", "refused"} /\ task'[t].repo = task[t].repo
        /\ task'[t].oid = task[t].oid /\ task'[t].ticket = task[t].ticket
    BY <1>5, OperationType DEF PushStream, Operation, TypeOK
  <2>3. \E d \in Whole : data' = [data EXCEPT ![task[t].fd] = d]
    BY <1>5 DEF PushStream, Whole
  <2>4. QED
    BY <1>5, <2>1, <2>2, <2>3, WriteStep DEF PushStream, Writing, Busy
<1>6. CASE PushAbort(t) \/ PushTidy(t) \/ PushFails(t)
  <2>1. Calm
    BY <1>6, FinishCalm DEF PushAbort, PushTidy, PushFails
  <2>2. NamesGiven
    BY <1>6, NamesGo DEF PushAbort, PushTidy, PushFails, files
  <2>3. QED
    BY <1>6, <2>1, <2>2, QuietStep DEF PushAbort, PushTidy, PushFails, files
<1>7. CASE PushFind(t) \/ PushRefused(t)
  <2>1. Calm
    BY <1>7, GotoCalm DEF PushFind, PushRefused, Busy, Staging, Writing
  <2>2. NamesGiven
    BY <1>7, NamesGo DEF PushFind, PushRefused, files
  <2>3. QED
    BY <1>7, <2>1, <2>2, QuietStep DEF PushFind, PushRefused, files
<1>8. CASE PushPublish(t) \/ PushRelink(t)
  <2>1. /\ Staging(t) /\ ~Writing(t)
        /\ \E pc \in {"link", "again"} : Link(t, Staged(t), Shared(t), pc)
    BY <1>8 DEF PushPublish, PushRelink, Busy, Staging, Writing
  <2>2. Calm
    BY <2>1, GotoCalm DEF Link
  <2>3. NamesGiven
    BY <1>2, <2>1, LinkGives, OwnNames
  <2>4. QED
    BY <2>1, <2>2, <2>3, QuietStep DEF Link
<1>9. CASE PushLink(t) \/ PushAgain(t)
  <2>1. Staging(t) /\ ~Writing(t)
    BY <1>9 DEF PushLink, PushAgain, Busy, Staging, Writing
  <2>2. CASE Link(t, Shared(t), Mine(t), "tidy")
    <3>1. Calm
      BY <2>1, <2>2, GotoCalm DEF Link
    <3>2. NamesGiven
      BY <1>3, <2>2, LinkGives, OwnNames
    <3>3. QED
      BY <2>2, <3>1, <3>2, QuietStep DEF Link
  <2>3. CASE Goto(t, "relink") /\ UNCHANGED <<files, counter>>
    <3>1. Calm
      BY <2>1, <2>3, GotoCalm
    <3>2. QED
      BY <2>3, <3>1, NamesGo, QuietStep DEF files
  <2>4. QED
    BY <1>9, <2>2, <2>3 DEF PushLink, PushAgain
<1>10. QED
  BY <1>4, <1>5, <1>6, <1>7, <1>8, <1>9 DEF Push

\* A sweep makes no names.
LEMMA SweepWhole ==
  ASSUME TypeOK, IInv, NEW t \in Tasks, Sweep(t)
  PROVE  IInv'
<1>1. task[t].pc # "idle"
  BY DEF Sweep, SweepStat, SweepRemove, SweepCount, SweepProbe, SweepErase, Busy
<1>2. Calm
  <2>1. CASE Finish(t)
    BY <2>1, FinishCalm
  <2>2. CASE \E pc \in {"remove", "count", "probe", "erase"} : Goto(t, pc)
    BY <1>1, <2>2, GotoCalm
  <2>3. ASSUME NEW r, task' = [task EXCEPT ![t].ask = @ \ {r}], Busy(t, "probe")
        PROVE  Calm
    <3>1. task'[t].pc = "probe" /\ \A u \in Tasks \ {t} : task'[u] = task[u]
      BY <1>1, <2>3, OperationType DEF Busy, Operation, TypeOK
    <3>2. QED
      BY <3>1 DEF Calm, Staging, Writing
  <2>4. QED
    BY <2>1, <2>2, <2>3
    DEF Sweep, SweepStat, SweepRemove, SweepCount, SweepProbe, SweepErase
<1>3. NamesGiven
  BY NamesGo DEF Sweep, SweepStat, SweepRemove, SweepCount, SweepProbe, SweepErase, files
<1>4. UNCHANGED <<data, counter>>
  BY DEF Sweep, SweepStat, SweepRemove, SweepCount, SweepProbe, SweepErase, files
<1>5. QED
  BY <1>2, <1>3, <1>4, QuietStep

\* A link under a ticket of one's own: its name is new and its file is whole.
LEMMA StageWhole ==
  ASSUME ~Meets, TypeOK, IInv, NEW t \in Tasks, NEW n \in Tickets, Stage(t, n)
  PROVE  IInv'
<1> DEFINE name == Part(task[t].repo, task[t].oid, n)
<1>1. task[t].pc # "idle" /\ ~Staging(t)
  BY DEF Stage, Staging
<1>2. name \in Names
  BY <1>1, OperationType, NamesType DEF Operation
<1>3. dir[name] = None
  BY DEF Stage, Draw, Exists
<1>4. \A u \in Tasks \ {t} : task'[u] = task[u]
  BY DEF Stage, Finish, TypeOK
<1>5. \/ task'[t].pc = "idle"
      \/ /\ task'[t].pc = "swap" /\ task'[t].repo = task[t].repo
         /\ task'[t].oid = task[t].oid /\ task'[t].ticket = n
  <2>1. CASE Exists(Shared(t))
    BY <1>1, <2>1, OperationType DEF Stage, Operation, TypeOK
  <2>2. CASE ~Exists(Shared(t))
    BY <2>2, FinishTurn DEF Stage
  <2>3. QED
    BY <2>1, <2>2
<1>6. TicketsDrawn' /\ TicketsApart'
  BY <1>4, <1>5, TicketStep DEF Stage, Staging
<1>7. ASSUME NEW u \in Tasks, Writing(u) PROVE name # Staged(u)
  <2>1. task[u].ticket # n
    BY <1>7, OperationType, ConstantsOK
    DEF Stage, Draw, IInv, TicketsDrawn, Writing, Staging, Operation, Tickets
  <2>2. QED
    BY <2>1 DEF Staged, Part
<1>8. NamesGiven
  <2>1. CASE dir' = dir
    BY <2>1, NamesGo
  <2>2. CASE Exists(Shared(t)) /\ dir' = [dir EXCEPT ![name] = dir[Shared(t)]]
    <3>1. Shared(t) \in Names /\ Safe(Shared(t))
      BY <1>1, OwnNames DEF Safe
    <3>2. QED
      BY <1>2, <1>7, <2>2, <3>1 DEF NamesGiven, TypeOK
  <2>3. QED
    BY <2>1, <2>2 DEF Stage
<1>9. ASSUME NEW u \in Tasks, Writing(u)' PROVE Writing(u) /\ task'[u] = task[u]
  BY <1>4, <1>5, <1>9 DEF Writing
<1>10. ASSUME NEW u \in Tasks, Staging(u)', ~Writing(u)'
       PROVE  \E m \in Names : m = Staged(u)' /\ (Safe(m) \/ dir[m] = None)
  <2>1. CASE u = t
    BY <1>2, <1>3, <1>5, <1>10, <2>1 DEF Staged, Staging
  <2>2. CASE u # t
    <3>1. Staging(u) /\ ~Writing(u) /\ Staged(u)' = Staged(u)
      BY <1>4, <1>10, <2>2 DEF Staging, Writing, Staged
    <3>2. Staged(u) \in Names /\ Safe(Staged(u))
      BY <3>1, OwnNames DEF Staging, Safe
    <3>3. QED
      BY <3>1, <3>2
  <2>3. QED
    BY <2>1, <2>2
<1>11. QED
  BY <1>6, <1>8, <1>9, <1>10, Naming DEF IInv, Stage

\* Every step of a migration keeps whole what has a name.
LEMMA DedupeWhole ==
  ASSUME ~Meets, TypeOK, IInv, NEW t \in Tasks, Dedupe(t)
  PROVE  IInv'
<1>1. CASE DedupeCompare(t) \/ AdoptHash(t) \/ PromoteHash(t)
  <2>1. Calm
    BY <1>1, FinishCalm, GotoCalm DEF DedupeCompare, AdoptHash, PromoteHash, Busy
  <2>2. QED
    BY <1>1, <2>1, NamesGo, QuietStep DEF DedupeCompare, AdoptHash, PromoteHash, files
<1>2. ASSUME NEW n \in Tickets, Stage(t, n) PROVE IInv'
  BY <1>2, StageWhole
<1>3. CASE Swap(t)
  <2>1. Staging(t) /\ ~Writing(t) /\ task[t].pc # "idle"
    BY <1>3 DEF Swap, Busy, Staging, Writing
  <2>2. Safe(Staged(t))
    BY <2>1 DEF Safe
  <2>3. NamesGiven
    BY <1>3, <2>1, <2>2, OwnNames, RenamedGives, NamesGo DEF Swap
  <2>4. QED
    BY <1>3, <2>3, FinishCalm, QuietStep DEF Swap
<1>4. CASE PromoteMove(t)
  <2>1. task[t].pc # "idle" /\ Safe(Mine(t))
    BY <1>4, OwnNames DEF PromoteMove, Busy, Safe
  <2>2. NamesGiven
    BY <1>4, <2>1, OwnNames, RenamedGives, NamesGo DEF PromoteMove
  <2>3. Calm
    BY <1>4, <2>1, FinishCalm, GotoCalm DEF PromoteMove
  <2>4. QED
    BY <1>4, <2>2, <2>3, QuietStep DEF PromoteMove
<1>5. CASE PromoteBack(t)
  <2>1. task[t].pc # "idle" /\ Safe(Shared(t))
    BY <1>5, OwnNames DEF PromoteBack, Busy, Safe
  <2>2. NamesGiven
    <3>1. CASE dir' = dir
      BY <3>1, NamesGo
    <3>2. CASE Exists(Shared(t)) /\ dir' = [dir EXCEPT ![Mine(t)] = dir[Shared(t)]]
      BY <2>1, <3>2, OwnNames, WrittenElsewhere DEF NamesGiven, TypeOK
    <3>3. QED
      BY <1>5, <3>1, <3>2 DEF PromoteBack
  <2>3. Calm
    BY <1>5, <2>1, FinishCalm, GotoCalm DEF PromoteBack
  <2>4. QED
    BY <1>5, <2>2, <2>3, QuietStep DEF PromoteBack
<1>6. CASE PromoteUndo(t)
  <2>1. task[t].pc # "idle" /\ Safe(Shared(t))
    BY <1>6, OwnNames DEF PromoteUndo, Busy, Safe
  <2>2. NamesGiven
    BY <1>6, <2>1, OwnNames, RenamedGives, NamesGo DEF PromoteUndo
  <2>3. QED
    BY <1>6, <2>2, FinishCalm, QuietStep DEF PromoteUndo
<1>7. QED
  BY <1>1, <1>2, <1>3, <1>4, <1>5, <1>6 DEF Dedupe

\* Every step of a rewrite keeps whole what has a name.
LEMMA CompressWhole ==
  ASSUME ~Meets, TypeOK, IInv, NEW t \in Tasks, Compress(t)
  PROVE  IInv'
<1>1. task[t].pc # "idle"
  BY DEF Compress, CompressInspect, CompressRewrite, CompressFill, CompressShare,
         CompressReplace, Busy
<1>2. CASE CompressInspect(t)
  <2>1. Calm
    BY <1>1, <1>2, FinishCalm, GotoCalm DEF CompressInspect
  <2>2. QED
    BY <1>2, <2>1, NamesGo, QuietStep DEF CompressInspect, files
<1>3. CASE CompressShare(t)
  <2>1. Calm
    BY <1>1, <1>3, GotoCalm DEF CompressShare, Busy, Staging, Writing
  <2>2. QED
    BY <1>3, <2>1, NamesGo, QuietStep DEF CompressShare, files
<1>4. ASSUME NEW n \in Tickets, NEW i \in Inodes \cup {None}, CompressRewrite(t, n, i)
      PROVE  IInv'
  <2>1. CASE Exists(Mine(t))
    <3>1. i \in Inodes
      BY <1>4, <2>1 DEF CompressRewrite
    <3>2. \A u \in Tasks \ {t} : task'[u] = task[u]
      BY <1>4, <2>1 DEF CompressRewrite, TypeOK
    <3>3. /\ task'[t].pc = "fill" /\ task'[t].repo = task[t].repo
          /\ task'[t].oid = task[t].oid /\ task'[t].ticket = n /\ task'[t].fd = i
      BY <1>1, <1>4, <2>1, OperationType DEF CompressRewrite, Operation, TypeOK
    <3>4. QED
      BY <1>1, <1>4, <2>1, <3>1, <3>2, <3>3, CreateStep DEF CompressRewrite, Writing
  <2>2. CASE ~Exists(Mine(t))
    <3>1. Calm /\ NamesGiven /\ UNCHANGED data
      BY <1>4, <2>2, FinishCalm, NamesGo DEF CompressRewrite
    <3>2. counter \in Nat /\ counter' \in Nat /\ counter <= counter'
      BY <1>4, ConstantsOK DEF CompressRewrite, Draw, TypeOK
    <3>3. QED
      BY <3>1, <3>2, CalmStep
  <2>3. QED
    BY <2>1, <2>2
<1>5. CASE CompressFill(t)
  <2>1. CASE Finish(t) /\ UNCHANGED data
    BY <1>5, <2>1, FinishCalm, NamesGo, QuietStep DEF CompressFill
  <2>2. CASE /\ data' = [data EXCEPT ![task[t].fd] = "framed"]
             /\ task' = [task EXCEPT ![t].pc = "share", ![t].fd = None, ![t].src = None]
             /\ UNCHANGED dir
    <3>1. \A u \in Tasks \ {t} : task'[u] = task[u]
      BY <2>2 DEF TypeOK
    <3>2. /\ task'[t].pc = "share" /\ task'[t].repo = task[t].repo
          /\ task'[t].oid = task[t].oid /\ task'[t].ticket = task[t].ticket
      BY <1>1, <2>2, OperationType DEF Operation, TypeOK
    <3>3. QED
      BY <1>5, <2>2, <3>1, <3>2, WriteStep DEF CompressFill, Writing, Busy, Whole
  <2>3. QED
    BY <1>5, <2>1, <2>2 DEF CompressFill
<1>6. CASE CompressReplace(t)
  <2>1. Staging(t) /\ ~Writing(t)
    BY <1>6 DEF CompressReplace, Busy, Staging, Writing
  <2>2. Safe(Staged(t))
    BY <2>1 DEF Safe
  <2>3. NamesGiven
    BY <1>1, <1>6, <2>2, OwnNames, RenamedGives, NamesGo DEF CompressReplace
  <2>4. Calm
    BY <1>1, <1>6, FinishCalm, GotoCalm DEF CompressReplace
  <2>5. QED
    BY <1>6, <2>3, <2>4, QuietStep DEF CompressReplace
<1>7. QED
  BY <1>2, <1>3, <1>4, <1>5, <1>6 DEF Compress

\* A download changes nothing but what it holds.
LEMMA DownloadWhole ==
  ASSUME TypeOK, IInv, NEW t \in Tasks, Download(t)
  PROVE  IInv'
<1>1. task[t].pc # "idle" /\ UNCHANGED <<dir, data, counter>>
  BY DEF Download, Open, Reopen, Serve, Busy, files
<1>2. Calm
  <2>1. CASE Finish(t)
    BY <2>1, FinishCalm
  <2>2. CASE Goto(t, "reopen")
    BY <1>1, <2>2, GotoCalm
  <2>3. ASSUME \/ task' = [task EXCEPT ![t].pc = "serve", ![t].src = dir[Mine(t)], ![t].framed = TRUE]
               \/ task' = [task EXCEPT ![t].pc = "serve", ![t].src = dir[Mine(t)]]
        PROVE  Calm
    <3>1. task'[t].pc = "serve" /\ \A u \in Tasks \ {t} : task'[u] = task[u]
      BY <1>1, <2>3, OperationType DEF Operation, TypeOK
    <3>2. QED
      BY <3>1 DEF Calm, Staging, Writing
  <2>4. QED
    BY <2>1, <2>2, <2>3 DEF Download, Open, Reopen, Serve
<1>3. QED
  BY <1>1, <1>2, NamesGo, QuietStep

\* Every step keeps whole what has a name, while no ticket meets an old file.
LEMMA WholeStep ==
  ASSUME ~Meets, TypeOK, IInv, [Next]_vars
  PROVE  IInv'
<1>1. ASSUME NEW t \in Tasks, NEW r \in Repos, NEW o \in Oids,
             \/ BeginPush(t, r, o) \/ BeginDedupe(t, r, o) \/ BeginCompress(t, r, o)
             \/ BeginOpen(t, r, o)
             \/ \E seen \in SUBSET Repos : BeginSweep(t, r, o, seen)
      PROVE  IInv'
  <2>1. task'[t].pc \in {"create", "open", "stat", "compare", "inspect"}
    BY <1>1 DEF BeginPush, BeginDedupe, BeginCompress, BeginOpen, BeginSweep, Begin, TypeOK
  <2>2. \A u \in Tasks \ {t} : task'[u] = task[u]
    BY <1>1 DEF BeginPush, BeginDedupe, BeginCompress, BeginOpen, BeginSweep, Begin, TypeOK
  <2>3. Calm
    BY <2>1, <2>2 DEF Calm, Staging, Writing
  <2>4. UNCHANGED <<dir, data, counter>>
    BY <1>1 DEF BeginPush, BeginDedupe, BeginCompress, BeginOpen, BeginSweep, Begin, files
  <2>5. QED
    BY <2>3, <2>4, NamesGo, QuietStep
<1>2. ASSUME NEW t \in Tasks, Step(t) PROVE IInv'
  BY <1>2, PushWhole, SweepWhole, DedupeWhole, CompressWhole, DownloadWhole DEF Step
<1>3. ASSUME NEW t \in Tasks, Leave(t) PROVE IInv'
  BY <1>3, FinishCalm, NamesGo, QuietStep DEF Leave, files
<1>4. ASSUME NEW part \in Parts, Reclaim(part) PROVE IInv'
  BY <1>4, SameCalm, NamesGo, QuietStep DEF Reclaim
<1>5. CASE OtherDraws
  <2>1. counter \in Nat /\ counter' \in Nat /\ counter <= counter'
    BY <1>5, ConstantsOK DEF OtherDraws, TypeOK
  <2>2. QED
    BY <1>5, <2>1, SameCalm, NamesGo, CalmStep DEF OtherDraws, files
<1>6. CASE Restart
  <2>1. \A u \in Tasks : ~Staging(u)' /\ ~Writing(u)'
    BY <1>6 DEF Restart, Idle, Staging, Writing
  <2>2. QED
    BY <1>6, <2>1
    DEF Restart, IInv, NeverCorrupt, TicketsDrawn, TicketsApart, WrittenAlone, StagedWhole,
        Exists, files
<1>7. CASE Tick \/ UNCHANGED vars
  BY <1>7, SameCalm, NamesGo, QuietStep DEF Tick, vars, files
<1>8. QED
  BY <1>1, <1>2, <1>3, <1>4, <1>5, <1>6, <1>7 DEF Next

\* What was stored before is whole, and nobody is at work.
LEMMA WholeInit == Init => IInv
<1> SUFFICES ASSUME Init PROVE IInv
  OBVIOUS
<1>1. PICK home \in [Loose -> Inodes] :
        /\ dir = [n \in Names |->
                    IF \E c \in Loose : n = Object(c[1], c[2])
                      THEN home[<<n[2], n[3]>>] ELSE None]
        /\ data = [i \in Inodes |-> IF \E c \in Loose : home[c] = i
                                      THEN "raw" ELSE "partial"]
  BY DEF Init
<1>2. NeverCorrupt
  <2>1. ASSUME NEW n \in Names, dir[n] # None PROVE data[dir[n]] \in Whole
    <3>1. PICK c \in Loose : n = Object(c[1], c[2])
      BY <1>1, <2>1
    <3>2. c = <<c[1], c[2]>> /\ n[2] = c[1] /\ n[3] = c[2]
      BY <3>1, ConstantsOK DEF Object
    <3>3. dir[n] = home[c] /\ home[c] \in Inodes
      BY <1>1, <3>1, <3>2
    <3>4. QED
      BY <1>1, <3>3 DEF Whole
  <2>2. QED
    BY <2>1 DEF NeverCorrupt, Exists, Names
<1>3. \A t \in Tasks : ~Staging(t) /\ ~Writing(t)
  BY DEF Init, Idle, Staging, Writing
<1>4. QED
  BY <1>2, <1>3 DEF IInv, TicketsDrawn, TicketsApart, WrittenAlone, StagedWhole

\* README.md, "an interrupted transfer can never leave a corrupt object behind":
\* true of every interruption as long as no process draws a ticket under which
\* an earlier one left a staging file.
THEOREM NothingCorrupt == ~Meets => (Spec => []NeverCorrupt)
<1> SUFFICES ASSUME ~Meets PROVE Spec => []NeverCorrupt
  OBVIOUS
<1>1. TypeOK /\ IInv /\ [Next]_vars => TypeOK' /\ IInv'
  BY TypeStep, WholeStep
<1>2. IInv => NeverCorrupt
  BY DEF IInv
<1>3. QED
  BY <1>1, <1>2, TypeInit, WholeInit, PTL DEF Spec

-----------------------------------------------------------------------------
(* What is being served.                                                   *)

\* A file somebody reads is not written to but with all of the bytes: it is
\* not free, and no staging name that exists is made again.
LEMMA ReadStays ==
  ASSUME ~Meets, TypeOK, [Next]_vars, NEW u \in Tasks,
         task[u].src # None, data[task[u].src] \in Whole
  PROVE  data'[task[u].src] \in Whole
<1>1. task[u].src \in Inodes
  BY DEF TypeOK, Operation, Idle
<1>2. ASSUME NEW name, NEW i \in Inodes, Create(name, i), ~Exists(name)
      PROVE  data'[task[u].src] \in Whole
  BY <1>1, <1>2 DEF Create, Free, TypeOK
<1>3. ASSUME NEW i, NEW d \in Whole, data' = [data EXCEPT ![i] = d]
      PROVE  data'[task[u].src] \in Whole
  BY <1>1, <1>3 DEF TypeOK
<1>4. CASE data' = data
  BY <1>4
<1>5. ASSUME NEW t \in Tasks, Push(t) PROVE data'[task[u].src] \in Whole
  <2>1. ASSUME NEW n \in Tickets, NEW i \in Inodes, PushCreate(t, n, i)
        PROVE  data'[task[u].src] \in Whole
    BY <1>2, <2>1 DEF PushCreate, Draw
  <2>2. CASE PushStream(t)
    BY <1>3, <2>2 DEF PushStream, Whole
  <2>3. CASE \/ PushAbort(t) \/ PushFind(t) \/ PushPublish(t) \/ PushLink(t) \/ PushRelink(t)
             \/ PushAgain(t) \/ PushRefused(t) \/ PushTidy(t) \/ PushFails(t)
    BY <1>4, <2>3 DEF PushAbort, PushFind, PushPublish, PushLink, PushRelink, PushAgain,
                      PushRefused, PushTidy, PushFails, Link, files
  <2>4. QED
    BY <1>5, <2>1, <2>2, <2>3 DEF Push
<1>6. ASSUME NEW t \in Tasks, Compress(t) PROVE data'[task[u].src] \in Whole
  <2>1. ASSUME NEW n \in Tickets, NEW i \in Inodes \cup {None}, CompressRewrite(t, n, i)
        PROVE  data'[task[u].src] \in Whole
    BY <1>2, <1>4, <2>1 DEF CompressRewrite, Draw
  <2>2. CASE CompressFill(t)
    BY <1>3, <1>4, <2>2 DEF CompressFill, Whole
  <2>3. CASE CompressInspect(t) \/ CompressShare(t) \/ CompressReplace(t)
    BY <1>4, <2>3 DEF CompressInspect, CompressShare, CompressReplace, files
  <2>4. QED
    BY <1>6, <2>1, <2>2, <2>3 DEF Compress
<1>7. ASSUME NEW t \in Tasks, Sweep(t) \/ Dedupe(t) \/ Download(t) \/ Leave(t)
      PROVE  data' = data
  BY <1>7 DEF Sweep, SweepStat, SweepRemove, SweepCount, SweepProbe, SweepErase,
              Dedupe, DedupeCompare, AdoptHash, Stage, Swap, PromoteHash, PromoteMove,
              PromoteBack, PromoteUndo, Download, Open, Reopen, Serve, Leave, files
<1>8. ASSUME NEW t \in Tasks, NEW r \in Repos, NEW o \in Oids,
             \/ BeginPush(t, r, o) \/ BeginDedupe(t, r, o) \/ BeginCompress(t, r, o)
             \/ BeginOpen(t, r, o)
             \/ \E seen \in SUBSET Repos : BeginSweep(t, r, o, seen)
      PROVE  data' = data
  BY <1>8 DEF BeginPush, BeginDedupe, BeginCompress, BeginOpen, BeginSweep, Begin, files
<1>9. CASE (\E part \in Parts : Reclaim(part)) \/ OtherDraws \/ Restart \/ Tick \/ UNCHANGED vars
  BY <1>4, <1>9 DEF Reclaim, OtherDraws, Restart, Tick, vars, files
<1>10. QED
  BY <1>4, <1>5, <1>6, <1>7, <1>8, <1>9 DEF Next, Step

\* Who serves a file has opened it, or opens it now by the object's name.
LEMMA ServesOpened ==
  ASSUME TypeOK, [Next]_vars, NEW u \in Tasks, task'[u].pc = "serve"
  PROVE  \/ task[u].pc = "serve" /\ task'[u].src = task[u].src
         \/ /\ task[u].pc \in {"open", "reopen"} /\ Exists(Mine(u))
            /\ task'[u].src = dir[Mine(u)]
            /\ data' = data
<1> DEFINE Others(t) == \A v \in Tasks \ {t} : task'[v] = task[v]
           Goal == \/ task[u].pc = "serve" /\ task'[u].src = task[u].src
                   \/ /\ task[u].pc \in {"open", "reopen"} /\ Exists(Mine(u))
                      /\ task'[u].src = dir[Mine(u)]
                      /\ data' = data
<1>0. ASSUME NEW t \in Tasks, Others(t), task'[t].pc # "serve" PROVE Goal
  BY <1>0
<1>a. ASSUME NEW t \in Tasks, task[t].pc # "idle", NEW pc \in Steps \ {"serve"}, Goto(t, pc)
      PROVE  Goal
  BY <1>0, <1>a, GotoTurn
<1>b. ASSUME NEW t \in Tasks, Finish(t) PROVE Goal
  BY <1>0, <1>b, FinishTurn
<1>1. ASSUME NEW t \in Tasks, NEW r \in Repos, NEW o \in Oids,
             \/ BeginPush(t, r, o) \/ BeginDedupe(t, r, o) \/ BeginCompress(t, r, o)
             \/ BeginOpen(t, r, o)
             \/ \E seen \in SUBSET Repos : BeginSweep(t, r, o, seen)
      PROVE  Goal
  BY <1>0, <1>1
  DEF BeginPush, BeginDedupe, BeginCompress, BeginOpen, BeginSweep, Begin, TypeOK
<1> HIDE DEF Goal
<1>2. ASSUME NEW t \in Tasks, Push(t) PROVE Goal
  <2>1. ASSUME NEW n \in Tickets, NEW i \in Inodes, PushCreate(t, n, i) PROVE Goal
    BY <1>0, <2>1, OperationType DEF PushCreate, Busy, Operation, TypeOK
  <2>2. CASE PushStream(t)
    BY <1>0, <2>2, OperationType DEF PushStream, Busy, Operation, TypeOK
  <2>3. CASE PushAbort(t) \/ PushTidy(t) \/ PushFails(t)
    BY <2>3, <1>b DEF PushAbort, PushTidy, PushFails
  <2>4. CASE PushFind(t) \/ PushPublish(t) \/ PushLink(t) \/ PushRelink(t) \/ PushAgain(t)
             \/ PushRefused(t)
    <3>1. /\ task[t].pc # "idle"
          /\ \E pc \in {"link", "publish", "tidy", "relink", "again", "refused"} : Goto(t, pc)
      BY <2>4 DEF PushFind, PushPublish, PushLink, PushRelink, PushAgain, PushRefused, Link, Busy
    <3>2. QED
      BY <3>1, <1>a DEF Steps
  <2>5. QED
    BY <1>2, <2>1, <2>2, <2>3, <2>4 DEF Push
<1>3. ASSUME NEW t \in Tasks, Sweep(t) PROVE Goal
  <2>1. ASSUME NEW r, task' = [task EXCEPT ![t].ask = @ \ {r}], Busy(t, "probe") PROVE Goal
    BY <1>0, <2>1, OperationType DEF Busy, Operation, TypeOK
  <2>2. CASE task[t].pc # "idle" /\ \E pc \in {"remove", "count", "probe", "erase"} : Goto(t, pc)
    BY <2>2, <1>a DEF Steps
  <2>3. QED
    BY <1>3, <1>b, <2>1, <2>2
    DEF Sweep, SweepStat, SweepRemove, SweepCount, SweepProbe, SweepErase, Busy
<1>4. ASSUME NEW t \in Tasks, Dedupe(t) PROVE Goal
  <2>1. ASSUME NEW n \in Tickets, task' = [task EXCEPT ![t].pc = "swap", ![t].ticket = n],
               task[t].pc # "idle"
        PROVE  Goal
    BY <1>0, <2>1, OperationType DEF Operation, TypeOK
  <2>2. CASE /\ task[t].pc # "idle"
             /\ \E pc \in {"hash", "vouch", "stage", "move", "back", "undo"} : Goto(t, pc)
    BY <2>2, <1>a DEF Steps
  <2>3. QED
    BY <1>4, <1>b, <2>1, <2>2
    DEF Dedupe, DedupeCompare, AdoptHash, Stage, Swap, PromoteHash, PromoteMove,
        PromoteBack, PromoteUndo, Busy
<1>5. ASSUME NEW t \in Tasks, Compress(t) PROVE Goal
  <2>1. ASSUME NEW n \in Tickets, NEW i \in Inodes \cup {None}, CompressRewrite(t, n, i)
        PROVE  Goal
    BY <1>0, <1>b, <2>1, OperationType DEF CompressRewrite, Busy, Operation, TypeOK
  <2>2. CASE CompressFill(t)
    BY <1>0, <1>b, <2>2, OperationType DEF CompressFill, Busy, Operation, TypeOK
  <2>3. CASE /\ task[t].pc # "idle"
             /\ \E pc \in {"rewrite", "replace", "swap", "restage"} : Goto(t, pc)
    BY <2>3, <1>a DEF Steps
  <2>4. QED
    BY <1>5, <1>b, <2>1, <2>2, <2>3
    DEF Compress, CompressInspect, CompressShare, CompressReplace, Busy
<1>6. ASSUME NEW t \in Tasks, Download(t) PROVE Goal
  <2>1. CASE task[t].pc # "idle" /\ Goto(t, "reopen")
    BY <2>1, <1>a DEF Steps
  <2>2. ASSUME task[t].pc \in {"open", "reopen"}, Exists(Mine(t)), data' = data,
               \/ task' = [task EXCEPT ![t].pc = "serve", ![t].src = dir[Mine(t)],
                                       ![t].framed = TRUE]
               \/ task' = [task EXCEPT ![t].pc = "serve", ![t].src = dir[Mine(t)]]
        PROVE  Goal
    <3>1. task'[t].src = dir[Mine(t)] /\ Others(t)
      BY <2>2, OperationType DEF Operation, TypeOK
    <3>2. QED
      BY <2>2, <3>1 DEF Goal
  <2>3. QED
    BY <1>6, <1>b, <2>1, <2>2 DEF Download, Open, Reopen, Serve, Busy, files
<1>7. ASSUME NEW t \in Tasks, Leave(t) PROVE Goal
  BY <1>7, <1>b DEF Leave
<1>8. CASE (\E part \in Parts : Reclaim(part)) \/ OtherDraws \/ Tick \/ UNCHANGED vars
  BY <1>8 DEF Reclaim, OtherDraws, Tick, vars, Goal
<1>9. CASE Restart
  BY <1>9 DEF Restart, Idle
<1>10. QED
  BY <1>1, <1>2, <1>3, <1>4, <1>5, <1>6, <1>7, <1>8, <1>9 DEF Next, Step, Goal

\* Who serves has a file.
ServedHeld == \A t \in Tasks : Busy(t, "serve") => task[t].src # None

\* A download gets its file under a name of whole objects, and keeps it.
LEMMA ServedStep ==
  ASSUME ~Meets, TypeOK, IInv, ServedHeld, ServedWhole, [Next]_vars
  PROVE  ServedHeld' /\ ServedWhole'
<1> SUFFICES ASSUME NEW u \in Tasks, task'[u].pc = "serve"
             PROVE  task'[u].src # None /\ data'[task'[u].src] \in Whole
  BY DEF ServedHeld, ServedWhole, Busy
<1>1. CASE task[u].pc = "serve" /\ task'[u].src = task[u].src
  BY <1>1, ReadStays DEF ServedHeld, ServedWhole, Busy
<1>2. CASE /\ task[u].pc \in {"open", "reopen"} /\ Exists(Mine(u))
           /\ task'[u].src = dir[Mine(u)]
           /\ data' = data
  BY <1>2, OwnNames DEF IInv, NeverCorrupt, Exists
<1>3. QED
  BY <1>1, <1>2, ServesOpened

\* At first nobody reads.
LEMMA ServedInit == Init => ServedHeld /\ ServedWhole
BY DEF Init, ServedHeld, ServedWhole, Busy, Idle

\* What a download reads stays whole to its end: names are moved and removed
\* under it, but a file somebody has open is never one that is made anew.
THEOREM ServedStaysWhole == ~Meets => (Spec => []ServedWhole)
<1> SUFFICES ASSUME ~Meets PROVE Spec => []ServedWhole
  OBVIOUS
<1>1. /\ TypeOK /\ IInv /\ ServedHeld /\ ServedWhole /\ [Next]_vars
      => TypeOK' /\ IInv' /\ ServedHeld' /\ ServedWhole'
  BY TypeStep, WholeStep, ServedStep
<1>2. QED
  BY <1>1, TypeInit, WholeInit, ServedInit, PTL DEF Spec

-----------------------------------------------------------------------------
(* What is on its way back.                                                *)

Backed(p) ==
  \/ Exists(Object(p.repo, p.oid)) \/ p.lost
  \/ \E t \in Tasks : /\ Busy(t, "back") /\ Mine(t) = Object(p.repo, p.oid)
                      /\ Exists(Shared(t))

\* The names that a step leaves alone.
NamesStay == \A n \in Contents \cup Objects : Exists(n) => Exists(n)'

\* And the migrations that have a link to put back.
BackersStay == \A u \in Tasks : Busy(u, "back") => task'[u] = task[u]

\* A name that is given a file, or a staging name, takes no other away.
LEMMA ChangeLeaves ==
  ASSUME TypeOK, NEW n, NEW i, dir' = [dir EXCEPT ![n] = i], n \in Parts \/ i # None
  PROVE  NamesStay
<1>1. \A m \in Contents \cup Objects : m \notin Parts /\ m \in Names
  BY NamesApart DEF Contents, Objects, Parts, Names
<1>2. QED BY <1>1 DEF NamesStay, Exists, TypeOK

\* Neither does a link.
LEMMA LinkLeaves ==
  ASSUME TypeOK, NEW t \in Tasks, NEW from \in Names, NEW to, NEW pc, Link(t, from, to, pc)
  PROVE  NamesStay
BY ChangeLeaves DEF Link, Exists, NamesStay

\* Nor a rename from a staging name.
LEMMA RenamedLeaves ==
  ASSUME TypeOK, NEW from \in Parts, NEW to, Exists(from), dir' = Renamed(from, to)
  PROVE  NamesStay
<1>1. \A m \in Contents \cup Objects : m \notin Parts /\ m \in Names
  BY NamesApart DEF Contents, Objects, Parts, Names
<1>2. QED BY <1>1 DEF Renamed, Same, Exists, NamesStay, TypeOK

\* Where the names a claim is about come from.
LEMMA ClaimNames ==
  ASSUME TypeOK
  PROVE  /\ \A p \in told : Object(p.repo, p.oid) \in Objects
         /\ \A t \in Tasks : task[t].pc # "idle" => Shared(t) \in Contents
BY NamesType, OwnNames DEF TypeOK

\* With the names and the migrations as they are a claim is as good as before.
LEMMA BackedStays ==
  ASSUME TypeOK, NamesStay, BackersStay, NEW p \in told, Backed(p)
  PROVE  Backed(p)'
<1>1. CASE Exists(Object(p.repo, p.oid)) \/ p.lost
  BY <1>1, ClaimNames DEF NamesStay, Backed, Exists
<1>2. ASSUME NEW t \in Tasks, Busy(t, "back"), Mine(t) = Object(p.repo, p.oid),
             Exists(Shared(t))
      PROVE  Backed(p)'
  <2>1. task'[t] = task[t] /\ Exists(Shared(t))'
    BY <1>2, ClaimNames DEF BackersStay, NamesStay, Busy, Exists, Shared, Content
  <2>2. QED
    BY <1>2, <2>1 DEF Backed, Busy, Mine
<1>3. QED
  BY <1>1, <1>2 DEF Backed

\* A step that takes no name and ends no way back keeps what is on its way.
LEMMA MovingStays ==
  ASSUME TypeOK, HeldOrMoving, NamesStay, BackersStay, told' \subseteq told
  PROVE  HeldOrMoving'
<1>1. \A p \in told : Backed(p)
  BY DEF HeldOrMoving, Backed
<1>2. \A p \in told' : Backed(p)'
  BY <1>1, BackedStays
<1>3. QED
  BY <1>2 DEF HeldOrMoving, Backed

\* A step of one operation leaves the others where they are.
LEMMA StepTurn ==
  ASSUME TypeOK, NEW t \in Tasks, Step(t), NEW u \in Tasks \ {t}
  PROVE  task'[u] = task[u]
<1>1. CASE (\E q : task' = [task EXCEPT ![t] = q]) \/ task' = task
  BY <1>1 DEF TypeOK
<1>2. ASSUME NEW n \in Tickets, NEW i \in Inodes, PushCreate(t, n, i) PROVE task'[u] = task[u]
  BY <1>2 DEF PushCreate, TypeOK
<1>3. CASE PushStream(t)
  BY <1>3 DEF PushStream, TypeOK
<1>4. CASE SweepProbe(t)
  BY <1>4 DEF SweepProbe, Finish, Goto, TypeOK
<1>5. ASSUME NEW n \in Tickets, Stage(t, n) PROVE task'[u] = task[u]
  BY <1>5 DEF Stage, Finish, TypeOK
<1>6. ASSUME NEW n \in Tickets, NEW i \in Inodes \cup {None}, CompressRewrite(t, n, i)
      PROVE  task'[u] = task[u]
  BY <1>6 DEF CompressRewrite, Finish, TypeOK
<1>7. CASE CompressFill(t)
  BY <1>7 DEF CompressFill, Finish, TypeOK
<1>8. CASE Open(t) \/ Reopen(t) \/ Serve(t)
  BY <1>8 DEF Open, Reopen, Serve, Finish, Goto, TypeOK
<1>9. CASE (\E pc : Goto(t, pc)) \/ Finish(t)
  BY <1>9 DEF Goto, Finish, TypeOK
<1>10. CASE \/ PushAbort(t) \/ PushFind(t) \/ PushPublish(t) \/ PushLink(t) \/ PushRelink(t)
            \/ PushAgain(t) \/ PushRefused(t) \/ PushTidy(t) \/ PushFails(t)
  BY <1>9, <1>10 DEF PushAbort, PushFind, PushPublish, PushLink, PushRelink, PushAgain,
                     PushRefused, PushTidy, PushFails, Link
<1>11. CASE SweepStat(t) \/ SweepRemove(t) \/ SweepCount(t) \/ SweepErase(t)
  BY <1>9, <1>11 DEF SweepStat, SweepRemove, SweepCount, SweepErase
<1>12. CASE \/ DedupeCompare(t) \/ AdoptHash(t) \/ Swap(t) \/ PromoteHash(t) \/ PromoteMove(t)
            \/ PromoteBack(t) \/ PromoteUndo(t)
  BY <1>9, <1>12 DEF DedupeCompare, AdoptHash, Swap, PromoteHash, PromoteMove, PromoteBack,
                     PromoteUndo
<1>13. CASE CompressInspect(t) \/ CompressShare(t) \/ CompressReplace(t)
  BY <1>9, <1>13 DEF CompressInspect, CompressShare, CompressReplace
<1>14. QED
  BY <1>2, <1>3, <1>4, <1>5, <1>6, <1>7, <1>8, <1>10, <1>11, <1>12, <1>13
  DEF Step, Push, Sweep, Dedupe, Compress, Download

\* The shared name goes, and whoever had no other is marked.
LEMMA BereavedBacked ==
  ASSUME TypeOK, HeldOrMoving, NEW t \in Tasks, task[t].pc # "idle", Bereaved(t),
         BackersStay,
         \A n \in (Contents \cup Objects) \ {Shared(t)} : Exists(n) => Exists(n)',
         \A r \in Repos, o \in Oids : Exists(Object(r, o)) => Exists(Object(r, o))'
  PROVE  HeldOrMoving'
<1> SUFFICES ASSUME NEW q \in told' PROVE Backed(q)'
  BY DEF HeldOrMoving, Backed
<1>1. PICK p \in told :
        q = [p EXCEPT !.lost = @ \/ (/\ p.oid = task[t].oid /\ Exists(Shared(t))
                                     /\ ~Exists(Object(p.repo, p.oid))')]
  BY DEF Bereaved
<1>2. /\ q.repo = p.repo /\ q.oid = p.oid /\ p.repo \in Repos /\ p.oid \in Oids
      /\ p.lost => q.lost
      /\ p.oid = task[t].oid /\ Exists(Shared(t)) /\ ~Exists(Object(p.repo, p.oid))' => q.lost
  BY <1>1 DEF TypeOK
<1>3. CASE Exists(Object(p.repo, p.oid))
  BY <1>2, <1>3 DEF Backed, Exists, Object
<1>4. CASE p.lost
  BY <1>2, <1>4 DEF Backed
<1>5. ASSUME NEW u \in Tasks, Busy(u, "back"), Mine(u) = Object(p.repo, p.oid),
             Exists(Shared(u))
      PROVE  Backed(q)'
  <2>1. task[u].oid = p.oid /\ task'[u] = task[u]
    <3>1. Object(task[u].repo, task[u].oid) = Object(p.repo, p.oid)
      BY <1>5 DEF Mine
    <3>2. task[u].oid = p.oid
      BY <3>1, NamesDiffer
    <3>3. task'[u] = task[u]
      BY <1>5 DEF BackersStay
    <3>4. QED
      BY <3>2, <3>3
  <2>2. CASE p.oid = task[t].oid
    <3>1. Shared(u) = Shared(t)
      BY <2>1, <2>2 DEF Shared
    <3>2. QED
      BY <1>2, <1>5, <2>2, <3>1 DEF Backed, Exists, Object
  <2>3. CASE p.oid # task[t].oid
    <3>1. Shared(u) # Shared(t) /\ Shared(u) \in Contents
      BY <1>5, <2>1, <2>3, ClaimNames DEF Shared, Content, Busy
    <3>2. Exists(Shared(u))'
      BY <1>5, <2>1, <3>1 DEF Exists, Shared, Content
    <3>3. QED
      BY <1>2, <1>5, <2>1, <3>2 DEF Backed, Busy, Mine
  <2>4. QED
    BY <2>2, <2>3
<1>6. Backed(p)
  BY DEF HeldOrMoving, Backed
<1>7. QED
  BY <1>3, <1>4, <1>5, <1>6 DEF Backed

\* No step of a push takes a name.
LEMMA PushMoving ==
  ASSUME TypeOK, HeldOrMoving, NEW t \in Tasks, Push(t), BackersStay
  PROVE  HeldOrMoving'
<1>1. task[t].pc # "idle"
  BY DEF Push, PushCreate, PushStream, PushAbort, PushFind, PushPublish, PushLink,
         PushRelink, PushAgain, PushRefused, PushTidy, PushFails, Busy
<1> USE OwnNames, <1>1
<1>2. ASSUME NEW n \in Tickets, NEW i \in Inodes, PushCreate(t, n, i) PROVE HeldOrMoving'
  <2>1. Part(task[t].repo, task[t].oid, n) \in Parts
    BY OperationType, NamesType DEF Operation
  <2>2. QED
    BY <1>2, <2>1, ChangeLeaves, MovingStays DEF PushCreate, Create
<1>3. CASE PushAbort(t) \/ PushTidy(t)
  BY <1>3, ChangeLeaves, MovingStays DEF PushAbort, PushTidy
<1>4. CASE PushPublish(t) \/ PushRelink(t)
  BY <1>4, LinkLeaves, MovingStays DEF PushPublish, PushRelink
<1>5. ASSUME Link(t, Shared(t), Mine(t), "tidy"), Told(t) PROVE HeldOrMoving'
  <2>1. NamesStay
    BY <1>5, LinkLeaves
  <2>2. dir'[Mine(t)] # None
    BY <1>5, ConstantsOK DEF Link, Exists, TypeOK
  <2>3. \A p \in told : Backed(p)
    BY DEF HeldOrMoving, Backed
  <2>4. ASSUME NEW p \in told' PROVE Backed(p)'
    <3>1. CASE p \in told
      BY <2>1, <2>3, <3>1, BackedStays
    <3>2. CASE p = [repo |-> task[t].repo, oid |-> task[t].oid, lost |-> FALSE]
      <4>1. Object(p.repo, p.oid) = Mine(t)
        BY <3>2 DEF Mine
      <4>2. QED
        BY <2>2, <4>1 DEF Backed, Exists, Object
    <3>3. QED
      BY <1>5, <3>1, <3>2 DEF Told, Untold
  <2>5. QED
    BY <2>4 DEF HeldOrMoving, Backed
<1>6. CASE dir' = dir /\ told' = told
  BY <1>6, MovingStays DEF NamesStay, Exists
<1>7. CASE PushLink(t) \/ PushAgain(t)
  BY <1>5, <1>6, <1>7 DEF PushLink, PushAgain, files
<1>8. CASE PushStream(t) \/ PushFind(t) \/ PushRefused(t) \/ PushFails(t)
  BY <1>6, <1>8 DEF PushStream, PushFind, PushRefused, PushFails, files
<1>9. QED
  BY <1>2, <1>3, <1>4, <1>7, <1>8 DEF Push

\* A sweep takes its own repository's name, which ends the claim, and then the
\* shared one, whose losers it marks.
LEMMA SweepMoving ==
  ASSUME TypeOK, HeldOrMoving, NEW t \in Tasks, Sweep(t), BackersStay
  PROVE  HeldOrMoving'
<1>1. task[t].pc # "idle"
  BY DEF Sweep, SweepStat, SweepRemove, SweepCount, SweepProbe, SweepErase, Busy
<1> USE OwnNames, <1>1
<1>2. CASE SweepRemove(t)
  <2>1. SUFFICES ASSUME NEW p \in told' PROVE Backed(p)'
    BY DEF HeldOrMoving, Backed
  <2>2. p \in told /\ Object(p.repo, p.oid) # Mine(t)
    BY <1>2, <2>1, NamesDiffer DEF SweepRemove, Untold, Mine
  <2>3. Backed(p)
    BY <2>2 DEF HeldOrMoving, Backed
  <2>4. \A n \in Names \ {Mine(t)} : dir'[n] = dir[n]
    BY <1>2 DEF SweepRemove, TypeOK
  <2>5. CASE Exists(Object(p.repo, p.oid)) \/ p.lost
    <3>1. Object(p.repo, p.oid) \in Names \ {Mine(t)}
      BY <2>2, NamesType DEF TypeOK
    <3>2. QED
      BY <2>4, <2>5, <3>1 DEF Backed, Exists, Object
  <2>6. ASSUME NEW u \in Tasks, Busy(u, "back"), Mine(u) = Object(p.repo, p.oid),
               Exists(Shared(u))
        PROVE  Backed(p)'
    <3>1. task'[u] = task[u]
      BY <2>6 DEF BackersStay
    <3>2. Shared(u) \in Names \ {Mine(t)}
      BY <2>6, OwnNames, KindsApart DEF Busy
    <3>3. Exists(Shared(u))'
      BY <2>4, <2>6, <3>1, <3>2 DEF Exists, Shared, Content
    <3>4. QED
      BY <2>6, <3>1, <3>3 DEF Backed, Busy, Mine
  <2>7. QED
    BY <2>3, <2>5, <2>6 DEF Backed
<1>3. CASE SweepErase(t)
  <2>1. \A n \in Names \ {Shared(t)} : dir'[n] = dir[n]
    BY <1>3 DEF SweepErase, TypeOK
  <2>2. \A n \in (Contents \cup Objects) \ {Shared(t)} : Exists(n) => Exists(n)'
    BY <2>1 DEF Exists, Names
  <2>3. \A r \in Repos, o \in Oids : Object(r, o) \in Names \ {Shared(t)}
    BY NamesType, KindsApart
  <2>4. \A r \in Repos, o \in Oids : Exists(Object(r, o)) => Exists(Object(r, o))'
    BY <2>1, <2>3 DEF Exists, Object
  <2>5. QED
    BY <1>3, <2>2, <2>4, BereavedBacked DEF SweepErase
<1>4. CASE SweepStat(t) \/ SweepCount(t) \/ SweepProbe(t)
  BY <1>4, MovingStays DEF SweepStat, SweepCount, SweepProbe, files, NamesStay, Exists
<1>5. QED
  BY <1>2, <1>3, <1>4 DEF Sweep

\* Promoting a copy takes it away for a moment, and puts it back.
LEMMA PromoteMoving ==
  ASSUME TypeOK, HeldOrMoving, NEW t \in Tasks, BackersStay \/ Busy(t, "back"),
         PromoteMove(t) \/ PromoteBack(t) \/ PromoteUndo(t),
         \A u \in Tasks \ {t} : task'[u] = task[u]
  PROVE  HeldOrMoving'
<1>1. task[t].pc # "idle"
  BY DEF PromoteMove, PromoteBack, PromoteUndo, Busy
<1> USE OwnNames, <1>1
<1>2. /\ Mine(t) \in Objects /\ Mine(t) \in Names /\ Shared(t) \in Contents
      /\ Shared(t) \in Names /\ Mine(t) # Shared(t)
  BY KindsApart
<1>3. \A p \in told : Backed(p)
  BY DEF HeldOrMoving, Backed
<1>4. CASE PromoteMove(t) /\ Exists(Mine(t))
  <2>1. /\ \A n \in Names \ {Mine(t)} : dir[n] # None => dir'[n] # None
        /\ dir'[Shared(t)] # None
    BY <1>2, <1>4 DEF PromoteMove, Renamed, Same, Exists, TypeOK
  <2>2. task'[t] = [task[t] EXCEPT !.pc = "back"] /\ told' = told
    BY <1>4, GotoTurn DEF PromoteMove
  <2>3. /\ Busy(t, "back")' /\ Mine(t)' = Mine(t) /\ Exists(Shared(t))'
    BY <2>1, <2>2, OperationType DEF Busy, Mine, Shared, Exists, Object, Content, Operation
  <2>4. BackersStay
    BY <1>4 DEF PromoteMove, Busy
  <2>5. ASSUME NEW p \in told PROVE Backed(p)'
    <3>1. CASE Object(p.repo, p.oid) = Mine(t)
      BY <2>3, <3>1 DEF Backed, Object
    <3>2. CASE Object(p.repo, p.oid) # Mine(t) /\ (Exists(Object(p.repo, p.oid)) \/ p.lost)
      <4>1. Object(p.repo, p.oid) \in Names
        BY NamesType DEF TypeOK
      <4>2. QED
        BY <2>1, <3>2, <4>1 DEF Backed, Exists, Object
    <3>3. ASSUME NEW u \in Tasks, Busy(u, "back"), Mine(u) = Object(p.repo, p.oid),
                 Exists(Shared(u))
          PROVE  Backed(p)'
      <4>1. task'[u] = task[u] /\ Shared(u) \in Names \ {Mine(t)}
        BY <1>2, <2>4, <3>3, OwnNames, KindsApart DEF BackersStay, Busy
      <4>2. Exists(Shared(u))'
        BY <2>1, <3>3, <4>1 DEF Exists, Shared, Content
      <4>3. QED
        BY <3>3, <4>1, <4>2 DEF Backed, Busy, Mine
    <3>4. QED
      BY <1>3, <3>1, <3>2, <3>3 DEF Backed
  <2>6. QED
    BY <2>2, <2>5 DEF HeldOrMoving, Backed
<1>5. CASE PromoteMove(t) /\ ~Exists(Mine(t))
  <2>1. BackersStay /\ NamesStay /\ told' = told
    BY <1>5 DEF PromoteMove, Busy, NamesStay, Exists
  <2>2. QED
    BY <2>1, MovingStays
<1>6. CASE PromoteBack(t)
  <2>1. /\ \A n \in Names : dir[n] # None => dir'[n] # None
        /\ Exists(Shared(t)) => dir'[Mine(t)] # None
        /\ told' = told
    BY <1>2, <1>6 DEF PromoteBack, Exists, TypeOK
  <2>2. ASSUME NEW p \in told PROVE Backed(p)'
    <3>1. Object(p.repo, p.oid) \in Names
      BY NamesType DEF TypeOK
    <3>2. CASE Exists(Object(p.repo, p.oid)) \/ p.lost
      BY <2>1, <3>1, <3>2 DEF Backed, Exists, Object
    <3>3. ASSUME NEW u \in Tasks, Busy(u, "back"), Mine(u) = Object(p.repo, p.oid),
                 Exists(Shared(u))
          PROVE  Backed(p)'
      <4>1. CASE u = t
        BY <2>1, <3>3, <4>1 DEF Backed, Exists, Object
      <4>2. CASE u # t
        <5>1. task'[u] = task[u] /\ Shared(u) \in Names
          BY <3>3, <4>2 DEF Busy
        <5>2. Exists(Shared(u))'
          BY <2>1, <3>3, <5>1 DEF Exists, Shared, Content
        <5>3. QED
          BY <3>3, <5>1, <5>2 DEF Backed, Busy, Mine
      <4>3. QED
        BY <4>1, <4>2
    <3>4. QED
      BY <1>3, <3>2, <3>3 DEF Backed
  <2>3. QED
    BY <2>1, <2>2 DEF HeldOrMoving, Backed
<1>7. CASE PromoteUndo(t)
  <2>1. BackersStay
    BY <1>7 DEF PromoteUndo, Busy
  <2>2. \A n \in Names \ {Shared(t)} : dir[n] # None => dir'[n] # None
    BY <1>2, <1>7 DEF PromoteUndo, Renamed, Same, Exists, TypeOK
  <2>3. \A n \in (Contents \cup Objects) \ {Shared(t)} : Exists(n) => Exists(n)'
    BY <2>2 DEF Exists, Names
  <2>4. \A r \in Repos, o \in Oids : Object(r, o) \in Names \ {Shared(t)}
    BY NamesType, KindsApart
  <2>5. \A r \in Repos, o \in Oids : Exists(Object(r, o)) => Exists(Object(r, o))'
    BY <2>2, <2>4 DEF Exists, Object
  <2>6. QED
    BY <1>7, <2>1, <2>3, <2>5, BereavedBacked DEF PromoteUndo
<1>8. QED
  BY <1>4, <1>5, <1>6, <1>7

\* A rewrite renames from staging names only.
LEMMA RewriteMoving ==
  ASSUME TypeOK, HeldOrMoving, NEW t \in Tasks, BackersStay,
         \/ Compress(t) \/ Swap(t) \/ \E n \in Tickets : Stage(t, n)
         \/ DedupeCompare(t) \/ AdoptHash(t) \/ PromoteHash(t)
  PROVE  HeldOrMoving'
<1>1. task[t].pc # "idle"
  BY DEF Compress, CompressInspect, CompressRewrite, CompressFill, CompressShare,
         CompressReplace, Swap, Stage, DedupeCompare, AdoptHash, PromoteHash, Busy
<1> USE OwnNames, <1>1
<1>2. CASE dir' = dir /\ told' = told
  BY <1>2, MovingStays DEF NamesStay, Exists
<1>3. ASSUME NEW n \in Tickets, Stage(t, n) PROVE HeldOrMoving'
  <2>1. Part(task[t].repo, task[t].oid, n) \in Parts
    BY OperationType, NamesType DEF Operation
  <2>2. NamesStay
    BY <1>3, <2>1, ChangeLeaves DEF Stage, NamesStay, Exists
  <2>3. QED
    BY <1>3, <2>2, MovingStays DEF Stage
<1>4. CASE Swap(t)
  <2>1. NamesStay
    BY <1>4, RenamedLeaves DEF Swap, NamesStay, Exists
  <2>2. QED
    BY <1>4, <2>1, MovingStays DEF Swap
<1>5. ASSUME NEW n \in Tickets, NEW i \in Inodes \cup {None}, CompressRewrite(t, n, i)
      PROVE  HeldOrMoving'
  <2>1. Part(task[t].repo, task[t].oid, n) \in Parts
    BY OperationType, NamesType DEF Operation
  <2>2. QED
    BY <1>5, <2>1, ChangeLeaves, MovingStays DEF CompressRewrite, Create
<1>6. CASE CompressFill(t)
  <2>1. NamesStay
    BY <1>6, ChangeLeaves DEF CompressFill, NamesStay, Exists
  <2>2. QED
    BY <1>6, <2>1, MovingStays DEF CompressFill
<1>7. CASE CompressReplace(t)
  <2>1. NamesStay
    BY <1>7, RenamedLeaves DEF CompressReplace, NamesStay, Exists
  <2>2. QED
    BY <1>7, <2>1, MovingStays DEF CompressReplace
<1>8. CASE CompressInspect(t) \/ CompressShare(t) \/ DedupeCompare(t) \/ AdoptHash(t)
           \/ PromoteHash(t)
  BY <1>2, <1>8 DEF CompressInspect, CompressShare, DedupeCompare, AdoptHash, PromoteHash, files
<1>9. QED
  BY <1>3, <1>4, <1>5, <1>6, <1>7, <1>8 DEF Compress

\* Only the step that puts a link back takes an operation away from there.
LEMMA BackersStep ==
  ASSUME TypeOK, NEW t \in Tasks, Step(t)
  PROVE  BackersStay \/ PromoteBack(t)
<1>1. CASE task[t].pc # "back"
  BY <1>1, StepTurn DEF BackersStay, Busy
<1>2. CASE task[t].pc = "back"
  BY <1>2
  DEF Step, Push, PushCreate, PushStream, PushAbort, PushFind, PushPublish, PushLink,
      PushRelink, PushAgain, PushRefused, PushTidy, PushFails,
      Sweep, SweepStat, SweepRemove, SweepCount, SweepProbe, SweepErase,
      Dedupe, DedupeCompare, AdoptHash, Stage, Swap, PromoteHash, PromoteMove, PromoteUndo,
      Compress, CompressInspect, CompressRewrite, CompressFill, CompressShare,
      CompressReplace, Download, Open, Reopen, Serve, Busy
<1>3. QED
  BY <1>1, <1>2

\* Every step, then, and the reclaimer, where nobody interrupts.
LEMMA MovingStep ==
  ASSUME ~Interrupts, TypeOK, HeldOrMoving, [Next]_vars
  PROVE  HeldOrMoving'
<1>1. ASSUME NEW t \in Tasks, Step(t) PROVE HeldOrMoving'
  <2>1. BackersStay \/ PromoteBack(t)
    BY <1>1, BackersStep
  <2>2. CASE PromoteBack(t)
    BY <1>1, <2>2, PromoteMoving, StepTurn DEF PromoteBack
  <2>3. CASE BackersStay /\ (Push(t) \/ Sweep(t) \/ Compress(t))
    BY <2>3, PushMoving, SweepMoving, RewriteMoving
  <2>4. CASE BackersStay /\ Dedupe(t)
    BY <1>1, <2>2, <2>4, RewriteMoving, PromoteMoving, StepTurn DEF Dedupe
  <2>5. CASE BackersStay /\ Download(t)
    BY <2>5, MovingStays DEF Download, Open, Reopen, Serve, files, NamesStay, Exists
  <2>6. QED
    BY <1>1, <2>1, <2>2, <2>3, <2>4, <2>5 DEF Step
<1>2. ASSUME NEW t \in Tasks, NEW r \in Repos, NEW o \in Oids,
             \/ BeginPush(t, r, o) \/ BeginDedupe(t, r, o) \/ BeginCompress(t, r, o)
             \/ BeginOpen(t, r, o)
             \/ \E seen \in SUBSET Repos : BeginSweep(t, r, o, seen)
      PROVE  HeldOrMoving'
  <2>1. NamesStay /\ told' = told
    BY <1>2 DEF BeginPush, BeginDedupe, BeginCompress, BeginOpen, BeginSweep, Begin, files,
                NamesStay, Exists
  <2>2. BackersStay
    BY <1>2 DEF BeginPush, BeginDedupe, BeginCompress, BeginOpen, BeginSweep, Begin, Busy,
                BackersStay, TypeOK
  <2>3. QED
    BY <2>1, <2>2, MovingStays
<1>3. ASSUME NEW part \in Parts, Reclaim(part) PROVE HeldOrMoving'
  BY <1>3, ChangeLeaves, MovingStays DEF Reclaim, BackersStay
<1>4. CASE OtherDraws \/ Tick \/ UNCHANGED vars
  BY <1>4, MovingStays DEF OtherDraws, Tick, vars, files, NamesStay, BackersStay, Exists
<1>5. (\E t \in Tasks : Leave(t)) \/ Restart => FALSE
  BY DEF Leave, Restart
<1>6. QED
  BY <1>1, <1>2, <1>3, <1>4, <1>5 DEF Next

\* At first whoever holds an object has its name.
LEMMA MovingInit == Init => HeldOrMoving
BY HeldInit DEF HeldKept, HeldOrMoving

\* Where no operation is cut short, a repository whose name for an object a
\* migration took away is about to get it back, or its loss has been marked.
THEOREM HeldOrOnItsWay == ~Interrupts => (Spec => []HeldOrMoving)
<1> SUFFICES ASSUME ~Interrupts PROVE Spec => []HeldOrMoving
  OBVIOUS
<1>1. TypeOK /\ HeldOrMoving /\ [Next]_vars => TypeOK' /\ HeldOrMoving'
  BY TypeStep, MovingStep
<1>2. QED
  BY <1>1, TypeInit, MovingInit, PTL DEF Spec

-----------------------------------------------------------------------------
(* The volume implements ObjectStore.                                      *)

Claims == Repos \X Oids

\* What a repository holds, as long as what has a name is whole.
Named(c) == Exists(Object(c[1], c[2]))

Mover(t, c) == Moving(t) /\ Mine(t) = Object(c[1], c[2])

Held(c) == Named(c) \/ \E t \in Tasks : Mover(t, c)

\* No name stands for less than the object, so names are all there is to say.
LEMMA HeldAre == TypeOK /\ NeverCorrupt => HeldClaims = {c \in Claims : Held(c)}
<1> SUFFICES ASSUME TypeOK, NeverCorrupt PROVE HeldClaims = {c \in Claims : Held(c)}
  OBVIOUS
<1>1. \A n \in Contents \cup Objects : Readable(n) <=> Exists(n)
  BY DEF NeverCorrupt, Readable
<1>2. \A c \in Claims : Object(c[1], c[2]) \in Objects
  BY NamesType DEF Claims
<1>3. \A t \in Tasks : Moving(t) => Shared(t) \in Contents /\ Exists(Shared(t))
  BY OwnNames DEF Moving
<1>4. QED
  BY <1>1, <1>2, <1>3 DEF HeldClaims, Held, Named, Mover, Claims

\* Operations on their way to take a name, and in a migration's window.
Taking(q) == q.pc \in {"stat", "remove"}

Away(q) == q.pc \in {"move", "back", "undo"}

\* No operation comes to either.
Settles ==
  \A u \in Tasks : /\ Taking(task'[u]) => Taking(task[u])
                   /\ Away(task'[u]) => Away(task[u])
                   /\ Taking(task'[u]) \/ Away(task'[u]) =>
                        task'[u].repo = task[u].repo /\ task'[u].oid = task[u].oid

LEMMA SettlesEnds == Settles => Store!Ends
BY DEF Settles, Taking, Away, Store!Ends, Targets

LEMMA HeldBoth ==
  ASSUME TypeOK /\ NeverCorrupt, (TypeOK /\ NeverCorrupt)'
  PROVE  /\ HeldClaims = {c \in Claims : Held(c)}
         /\ HeldClaims' = {c \in Claims : Held(c)'}
<1>1. HeldClaims = {c \in Claims : Held(c)}
  BY HeldAre
<1>2. (HeldClaims = {c \in Claims : Held(c)})'
  BY HeldAre, PTL
<1>3. QED
  BY <1>1, <1>2 DEF Claims

\* A step by which nobody loses and only those who claim one object gain.
LEMMA GainRefines ==
  ASSUME TypeOK /\ NeverCorrupt, (TypeOK /\ NeverCorrupt)', NEW o \in Oids, Settles,
         \A c \in Claims : Held(c) => Held(c)',
         \A c \in Claims : Held(c)' => Held(c) \/ c[2] = o
  PROVE  Store!Next
<1>1. HeldClaims = {c \in Claims : Held(c)}
  BY HeldBoth
<1>2. HeldClaims' = {c \in Claims : Held(c)'}
  BY HeldBoth
<1>3. HeldClaims \subseteq HeldClaims' /\ HeldClaims' \ HeldClaims \subseteq Repos \X {o}
  BY <1>1, <1>2 DEF Claims
<1>4. Store!Gain(o)
  BY <1>3, SettlesEnds DEF Store!Gain
<1>5. QED
  BY <1>4 DEF Store!Next

\* A step by which only those lose whose migration has the only name.
LEMMA LoseRefines ==
  ASSUME TypeOK /\ NeverCorrupt, (TypeOK /\ NeverCorrupt)', Settles,
         \A c \in Claims : Held(c)' => Held(c),
         \A c \in Claims : Held(c) => Held(c)' \/ \E t \in Tasks : Mover(t, c)
  PROVE  Store!Next
<1>1. HeldClaims = {c \in Claims : Held(c)}
  BY HeldBoth
<1>2. HeldClaims' = {c \in Claims : Held(c)'}
  BY HeldBoth
<1>3. ASSUME NEW c \in Claims, NEW t \in Tasks, Mover(t, c)
      PROVE  c \in Targets({"move", "back", "undo"})
  <2>1. task[t].repo = c[1] /\ task[t].oid = c[2] /\ task[t].pc \in {"move", "back", "undo"}
    BY <1>3, NamesDiffer DEF Mover, Moving, Mine
  <2>2. c = <<task[t].repo, task[t].oid>>
    BY <2>1 DEF Claims
  <2>3. QED
    BY <2>1, <2>2 DEF Targets
<1>4. HeldClaims' \subseteq HeldClaims
      /\ HeldClaims \ HeldClaims' \subseteq Targets({"move", "back", "undo"})
  BY <1>1, <1>2, <1>3
<1>5. Store!Lose
  BY <1>4, SettlesEnds DEF Store!Lose
<1>6. QED
  BY <1>5 DEF Store!Next

\* An operation that moves on is about the same object.
LEMMA GotoOwn ==
  ASSUME TypeOK, NEW t \in Tasks, task[t].pc # "idle", NEW pc, Goto(t, pc)
  PROVE  task'[t].pc = pc /\ task'[t].repo = task[t].repo /\ task'[t].oid = task[t].oid
<1>1. task[t] \in Operation /\ task'[t] = [task[t] EXCEPT !.pc = pc]
  BY GotoTurn, OperationType
<1>2. QED
  BY <1>1 DEF Operation

\* Only migrations about o come to have a name to give back.
MoversCome(o) ==
  \A u \in Tasks : task'[u].pc \in {"back", "undo"} =>
    task'[u] = task[u] \/ (Away(task[u]) /\ task'[u].repo = task[u].repo
                            /\ task'[u].oid = task[u].oid /\ task'[u].oid = o)

\* Names of one object come.
NamesCome(o) ==
  /\ \A c \in Claims : Named(c)' => Named(c) \/ c[2] = o
  /\ \A p \in Oids \ {o} : Exists(Content(p))' => Exists(Content(p))

LEMMA MoverStays ==
  ASSUME TypeOK, NamesStay, NEW u \in Tasks, task'[u] = task[u], NEW c, Mover(u, c)
  PROVE  Mover(u, c)'
<1>1. Shared(u) \in Contents /\ Exists(Shared(u))
  BY OwnNames DEF Mover, Moving
<1>2. Exists(Shared(u))'
  BY <1>1 DEF NamesStay, Exists, Shared, Content
<1>3. QED
  BY <1>2 DEF Mover, Moving, Mine, Object

\* Whoever holds an object does so after a step of one operation that takes no
\* names, unless it was by that operation.
LEMMA HeldRemains ==
  ASSUME TypeOK, NamesStay, NEW t \in Tasks, \A u \in Tasks \ {t} : task'[u] = task[u],
         \A c \in Claims : Mover(t, c) => Held(c)'
  PROVE  \A c \in Claims : Held(c) => Held(c)'
<1>1. ASSUME NEW c \in Claims, Named(c) PROVE Held(c)'
  <2>1. Object(c[1], c[2]) \in Objects
    BY NamesType DEF Claims
  <2>2. Named(c)'
    BY <1>1, <2>1 DEF NamesStay, Named, Exists, Object
  <2>3. QED
    BY <2>2 DEF Held
<1>2. ASSUME NEW c \in Claims, NEW u \in Tasks \ {t}, Mover(u, c) PROVE Held(c)'
  <2>1. Mover(u, c)'
    BY <1>2, MoverStays
  <2>2. QED
    BY <2>1 DEF Held
<1>3. QED
  BY <1>1, <1>2 DEF Held

\* And only those who claim o come to hold it.
LEMMA HeldComes ==
  ASSUME TypeOK, NEW o, NamesCome(o), MoversCome(o), NEW c \in Claims, Held(c)'
  PROVE  Held(c) \/ c[2] = o
<1>1. CASE Named(c)'
  BY <1>1 DEF NamesCome, Held
<1>2. ASSUME NEW u \in Tasks, Mover(u, c)' PROVE Held(c) \/ c[2] = o
  <2>1. /\ task'[u].pc \in {"back", "undo"}
        /\ dir'[Content(task'[u].oid)] # None
        /\ Object(task'[u].repo, task'[u].oid) = Object(c[1], c[2])
    BY <1>2 DEF Mover, Moving, Mine, Shared, Exists, Content, Object
  <2>2. task'[u].oid = c[2]
    BY <2>1, NamesDiffer
  <2>3. CASE task'[u] = task[u] /\ c[2] # o
    <3>1. c[2] \in Oids \ {o}
      BY <2>3 DEF Claims
    <3>2. Exists(Content(c[2]))
      BY <2>1, <2>2, <3>1 DEF NamesCome, Exists, Content
    <3>3. Mover(u, c)
      BY <2>1, <2>2, <2>3, <3>2 DEF Mover, Moving, Mine, Shared
    <3>4. QED
      BY <3>3 DEF Held
  <2>4. QED
    BY <2>1, <2>2, <2>3 DEF MoversCome
<1>3. QED
  BY <1>1, <1>2 DEF Held

\* The names an operation may make: those of its own object.
OwnCome(t) ==
  \A n \in (Contents \cup Objects) \ {Mine(t), Shared(t)} : Exists(n)' => Exists(n)

\* Whoever comes to hold something by it claims its object.
LEMMA OwnHeldComes ==
  ASSUME TypeOK, NEW t \in Tasks, \A u \in Tasks \ {t} : task'[u] = task[u], OwnCome(t),
         Settles, NEW c \in Claims, Held(c)'
  PROVE  Held(c) \/ c[2] = task[t].oid
<1> DEFINE o == task[t].oid
<1>1. NamesCome(o)
  <2>1. ASSUME NEW d \in Claims, d[2] # o, Named(d)' PROVE Named(d)
    <3>1. Object(d[1], d[2]) \in Objects
      BY NamesType DEF Claims
    <3>2. Object(d[1], d[2]) # Mine(t) /\ Object(d[1], d[2]) # Shared(t)
      BY <2>1, NamesDiffer, NamesApart DEF Mine, Shared
    <3>3. QED
      BY <2>1, <3>1, <3>2 DEF OwnCome, Named, Exists, Object
  <2>2. ASSUME NEW p \in Oids \ {o}, Exists(Content(p))' PROVE Exists(Content(p))
    <3>1. Content(p) \in Contents
      BY NamesType
    <3>2. Content(p) # Mine(t) /\ Content(p) # Shared(t)
      BY <2>2, NamesApart DEF Mine, Shared, Content
    <3>3. QED
      BY <2>2, <3>1, <3>2 DEF OwnCome, Exists, Content
  <2>3. QED
    BY <2>1, <2>2 DEF NamesCome
<1>2. MoversCome(o)
  BY DEF MoversCome, Settles, Away
<1>3. QED
  BY <1>1, <1>2, HeldComes

\* A step of one operation by which nobody loses is a gain.
LEMMA OwnGain ==
  ASSUME TypeOK /\ NeverCorrupt, (TypeOK /\ NeverCorrupt)', NEW t \in Tasks,
         task[t].pc # "idle", \A u \in Tasks \ {t} : task'[u] = task[u],
         OwnCome(t), Settles, \A c \in Claims : Held(c) => Held(c)'
  PROVE  Store!Next
<1>1. task[t].oid \in Oids
  BY OperationType DEF Operation
<1>2. \A c \in Claims : Held(c)' => Held(c) \/ c[2] = task[t].oid
  BY OwnHeldComes
<1>3. QED
  BY <1>1, <1>2, GainRefines

\* Neither about to take a name nor in a migration's window.
Aside(q) == ~Taking(q) /\ ~Away(q)

\* Operations that are not and do not come to be.
LEMMA AsideSettles ==
  ASSUME NEW t \in Tasks, \A u \in Tasks \ {t} : task'[u] = task[u], Aside(task'[t])
  PROVE  Settles
BY DEF Settles, Aside

LEMMA AsideMovers ==
  ASSUME NEW t, Aside(task[t])
  PROVE  \A c : ~Mover(t, c)
BY DEF Mover, Moving, Aside, Away

LEMMA GotoAside ==
  ASSUME TypeOK, NEW t \in Tasks, task[t].pc # "idle", NEW pc, Goto(t, pc),
         pc \notin {"stat", "remove", "move", "back", "undo"}
  PROVE  Aside(task'[t])
BY GotoTurn DEF Aside, Taking, Away

LEMMA FinishAside ==
  ASSUME TypeOK, NEW t \in Tasks, Finish(t)
  PROVE  Aside(task'[t])
BY FinishTurn DEF Aside, Taking, Away

\* A push is aside from its first step to its last.
LEMMA PushAside ==
  ASSUME TypeOK, NEW t \in Tasks, Push(t)
  PROVE  task[t].pc # "idle" /\ Aside(task[t]) /\ Aside(task'[t])
<1>1. task[t].pc # "idle" /\ Aside(task[t])
  BY DEF Push, PushCreate, PushStream, PushAbort, PushFind, PushPublish, PushLink,
         PushRelink, PushAgain, PushRefused, PushTidy, PushFails, Busy, Aside, Taking, Away
<1> SUFFICES Aside(task'[t])
  BY <1>1
<1>2. ASSUME NEW n \in Tickets, NEW i \in Inodes, PushCreate(t, n, i) PROVE Aside(task'[t])
  <2>1. task' = [task EXCEPT ![t] = [task[t] EXCEPT !.pc = "stream", !.ticket = n, !.fd = i]]
    BY <1>2 DEF PushCreate
  <2>2. task'[t].pc = "stream"
    BY <1>1, <2>1, OperationType DEF TypeOK, Operation
  <2>3. QED
    BY <2>2 DEF Aside, Taking, Away
<1>3. CASE PushStream(t)
  <2>1. PICK pc \in {"find", "refused"} :
          task' = [task EXCEPT ![t] = [task[t] EXCEPT !.pc = pc, !.fd = None]]
    BY <1>3 DEF PushStream
  <2>2. task'[t].pc = pc
    BY <1>1, <2>1, OperationType DEF TypeOK, Operation
  <2>3. QED
    BY <2>2 DEF Aside, Taking, Away
<1>4. CASE Finish(t)
  BY <1>4, FinishAside
<1>5. CASE \E pc \in {"link", "publish", "tidy", "relink", "again", "refused"} : Goto(t, pc)
  BY <1>1, <1>5, GotoAside
<1>6. QED
  BY <1>1, <1>2, <1>3, <1>4, <1>5
  DEF Push, PushAbort, PushFind, PushPublish, PushLink, PushRelink, PushAgain, PushRefused,
      PushTidy, PushFails, Link

\* So is a rewrite, and a migration that adopts the shared copy.
LEMMA RewriteAside ==
  ASSUME TypeOK, NEW t \in Tasks,
         \/ Compress(t) \/ Swap(t) \/ (\E n \in Tickets : Stage(t, n))
         \/ DedupeCompare(t) \/ AdoptHash(t) \/ Download(t)
  PROVE  task[t].pc # "idle" /\ Aside(task[t]) /\ Aside(task'[t])
<1>1. task[t].pc # "idle" /\ Aside(task[t])
  BY DEF Compress, CompressInspect, CompressRewrite, CompressFill, CompressShare,
         CompressReplace, Swap, Stage, DedupeCompare, AdoptHash, Download, Open, Reopen,
         Serve, Busy, Aside, Taking, Away
<1> SUFFICES Aside(task'[t])
  BY <1>1
<1>2. CASE task'[t].pc \in {"swap", "fill", "share", "serve"}
  BY <1>2 DEF Aside, Taking, Away
<1>3. CASE Finish(t)
  BY <1>3, FinishAside
<1>4. CASE \E pc \in {"rewrite", "replace", "swap", "restage", "hash", "vouch", "stage",
                      "reopen"} : Goto(t, pc)
  BY <1>1, <1>4, GotoAside
<1>5. ASSUME NEW n \in Tickets, Stage(t, n) PROVE Aside(task'[t])
  <2>1. CASE task' = [task EXCEPT ![t] = [task[t] EXCEPT !.pc = "swap", !.ticket = n]]
    <3>1. task'[t].pc = "swap"
      BY <1>1, <2>1, OperationType DEF TypeOK, Operation
    <3>2. QED
      BY <1>2, <3>1
  <2>2. QED
    BY <1>3, <1>5, <2>1 DEF Stage
<1>6. ASSUME NEW n \in Tickets, NEW i \in Inodes \cup {None}, CompressRewrite(t, n, i)
      PROVE  Aside(task'[t])
  <2>1. CASE task' = [task EXCEPT ![t] = [task[t] EXCEPT !.pc = "fill", !.ticket = n,
                                                         !.fd = i, !.src = dir[Mine(t)]]]
    <3>1. task'[t].pc = "fill"
      BY <1>1, <2>1, OperationType DEF TypeOK, Operation
    <3>2. QED
      BY <1>2, <3>1
  <2>2. QED
    BY <1>3, <1>6, <2>1 DEF CompressRewrite
<1>7. CASE CompressFill(t)
  <2>1. CASE task' = [task EXCEPT ![t] = [task[t] EXCEPT !.pc = "share", !.fd = None,
                                                         !.src = None]]
    <3>1. task'[t].pc = "share"
      BY <1>1, <2>1, OperationType DEF TypeOK, Operation
    <3>2. QED
      BY <1>2, <3>1
  <2>2. QED
    BY <1>3, <1>7, <2>1 DEF CompressFill
<1>8. CASE Open(t) \/ Reopen(t)
  <2>1. ASSUME NEW framed,
               task' = [task EXCEPT ![t] = [task[t] EXCEPT !.pc = "serve",
                                              !.src = dir[Mine(t)], !.framed = framed]]
        PROVE  Aside(task'[t])
    <3>1. task'[t].pc = "serve"
      BY <1>1, <2>1, OperationType DEF TypeOK, Operation
    <3>2. QED
      BY <1>2, <3>1
  <2>2. CASE task' = [task EXCEPT ![t] = [task[t] EXCEPT !.pc = "serve",
                                                         !.src = dir[Mine(t)]]]
    <3>1. task'[t].pc = "serve"
      BY <1>1, <2>2, OperationType DEF TypeOK, Operation
    <3>2. QED
      BY <1>2, <3>1
  <2>3. QED
    BY <1>3, <1>4, <1>8, <2>1, <2>2 DEF Open, Reopen
<1>9. QED
  BY <1>3, <1>4, <1>5, <1>6, <1>7, <1>8
  DEF Compress, CompressInspect, CompressShare, CompressReplace, Swap, DedupeCompare,
      AdoptHash, Download, Serve

\* A staging name, and those of its own object, are all an operation makes.
LEMMA ChangeComes ==
  ASSUME TypeOK, NEW t, NEW n, NEW i, dir' = [dir EXCEPT ![n] = i],
         n \in Parts \/ n \in {Mine(t), Shared(t)}
  PROVE  OwnCome(t)
<1>1. \A m \in Contents \cup Objects : m \notin Parts /\ m \in Names
  BY NamesApart DEF Contents, Objects, Parts, Names
<1>2. QED
  BY <1>1 DEF OwnCome, Exists, TypeOK

LEMMA LinkComes ==
  ASSUME TypeOK, NEW t, NEW from, NEW to \in {Mine(t), Shared(t)}, NEW pc,
         Link(t, from, to, pc)
  PROVE  OwnCome(t)
<1>1. CASE dir' = dir
  BY <1>1 DEF OwnCome, Exists
<1>2. CASE dir' = [dir EXCEPT ![to] = dir[from]]
  BY <1>2, ChangeComes
<1>3. QED
  BY <1>1, <1>2 DEF Link

LEMMA RenamedComes ==
  ASSUME TypeOK, NEW t, NEW from \in Names, NEW to \in {Mine(t), Shared(t)},
         dir' = Renamed(from, to)
  PROVE  OwnCome(t)
<1>1. \A m \in Contents \cup Objects : m \in Names
  BY DEF Names
<1>2. \A m \in Names \ {to} : dir'[m] # None => dir[m] # None
  BY DEF Renamed, TypeOK
<1>3. QED
  BY <1>1, <1>2 DEF OwnCome, Exists

\* A push makes names and takes none.
LEMMA PushNames ==
  ASSUME TypeOK, NEW t \in Tasks, Push(t)
  PROVE  NamesStay /\ OwnCome(t)
<1>1. task[t].pc # "idle"
  BY PushAside
<1> USE OwnNames, <1>1
<1>2. ASSUME NEW n \in Tickets, NEW i \in Inodes, PushCreate(t, n, i)
      PROVE  NamesStay /\ OwnCome(t)
  <2>1. Part(task[t].repo, task[t].oid, n) \in Parts
    BY OperationType, NamesType DEF Operation
  <2>2. dir' = [dir EXCEPT ![Part(task[t].repo, task[t].oid, n)] = i]
    BY <1>2 DEF PushCreate, Create
  <2>3. QED
    BY <2>1, <2>2, ChangeLeaves, ChangeComes
<1>3. CASE PushAbort(t) \/ PushTidy(t)
  <2>1. dir' = [dir EXCEPT ![Staged(t)] = None]
    BY <1>3 DEF PushAbort, PushTidy
  <2>2. QED
    BY <2>1, ChangeLeaves, ChangeComes
<1>4. CASE PushPublish(t) \/ PushRelink(t)
  <2>1. PICK pc : Link(t, Staged(t), Shared(t), pc)
    BY <1>4 DEF PushPublish, PushRelink
  <2>2. QED
    BY <2>1, LinkLeaves, LinkComes
<1>5. CASE dir' = dir
  BY <1>5 DEF NamesStay, OwnCome, Exists
<1>6. CASE PushLink(t) \/ PushAgain(t)
  <2>1. dir' = dir \/ Link(t, Shared(t), Mine(t), "tidy")
    BY <1>6 DEF PushLink, PushAgain, files
  <2>2. QED
    BY <1>5, <2>1, LinkLeaves, LinkComes
<1>7. CASE PushStream(t) \/ PushFind(t) \/ PushRefused(t) \/ PushFails(t)
  BY <1>5, <1>7 DEF PushStream, PushFind, PushRefused, PushFails, files
<1>8. QED
  BY <1>2, <1>3, <1>4, <1>6, <1>7 DEF Push

\* So does a rewrite: it renames from staging names only.
LEMMA RewriteNames ==
  ASSUME TypeOK, NEW t \in Tasks,
         \/ Compress(t) \/ Swap(t) \/ (\E n \in Tickets : Stage(t, n))
         \/ DedupeCompare(t) \/ AdoptHash(t) \/ Download(t)
  PROVE  NamesStay /\ OwnCome(t)
<1>1. task[t].pc # "idle"
  BY RewriteAside
<1> USE OwnNames, <1>1
<1>2. CASE dir' = dir
  BY <1>2 DEF NamesStay, OwnCome, Exists
<1>3. ASSUME NEW n \in Parts, NEW i, dir' = [dir EXCEPT ![n] = i]
      PROVE  NamesStay /\ OwnCome(t)
  BY <1>3, ChangeLeaves, ChangeComes
<1>4. \A n \in Tickets : Part(task[t].repo, task[t].oid, n) \in Parts
  BY OperationType, NamesType DEF Operation
<1>5. ASSUME NEW n \in Tickets, Stage(t, n) PROVE NamesStay /\ OwnCome(t)
  <2>1. dir' = dir \/ dir' = [dir EXCEPT ![Part(task[t].repo, task[t].oid, n)] = dir[Shared(t)]]
    BY <1>5 DEF Stage
  <2>2. QED
    BY <1>2, <1>3, <1>4, <2>1
<1>6. ASSUME NEW n \in Tickets, NEW i \in Inodes \cup {None}, CompressRewrite(t, n, i)
      PROVE  NamesStay /\ OwnCome(t)
  <2>1. PICK j : dir' = [dir EXCEPT ![Part(task[t].repo, task[t].oid, n)] = j]
    BY <1>6 DEF CompressRewrite, Create
  <2>2. QED
    BY <1>3, <1>4, <2>1
<1>7. CASE CompressFill(t)
  <2>1. dir' = dir \/ dir' = [dir EXCEPT ![Staged(t)] = None]
    BY <1>7 DEF CompressFill
  <2>2. QED
    BY <1>2, <1>3, <2>1
<1>8. CASE Swap(t) \/ CompressReplace(t)
  <2>1. \/ dir' = dir
        \/ \E to \in {Mine(t), Shared(t)} : Exists(Staged(t)) /\ dir' = Renamed(Staged(t), to)
    BY <1>8 DEF Swap, CompressReplace
  <2>2. QED
    BY <1>2, <2>1, RenamedLeaves, RenamedComes
<1>9. CASE CompressInspect(t) \/ CompressShare(t) \/ DedupeCompare(t) \/ AdoptHash(t)
           \/ Download(t)
  BY <1>2, <1>9 DEF CompressInspect, CompressShare, DedupeCompare, AdoptHash, Download, Open,
                    Reopen, Serve, files
<1>10. QED
  BY <1>5, <1>6, <1>7, <1>8, <1>9 DEF Compress

\* Pushes, rewrites, adoptions and downloads, then, are gains.
LEMMA WritesRefine ==
  ASSUME TypeOK /\ NeverCorrupt, (TypeOK /\ NeverCorrupt)', NEW t \in Tasks, Step(t),
         \/ Push(t) \/ Compress(t) \/ Swap(t) \/ (\E n \in Tickets : Stage(t, n))
         \/ DedupeCompare(t) \/ AdoptHash(t) \/ Download(t)
  PROVE  Store!Next
<1>1. \A u \in Tasks \ {t} : task'[u] = task[u]
  BY StepTurn
<1>2. task[t].pc # "idle" /\ Aside(task[t]) /\ Aside(task'[t])
  BY PushAside, RewriteAside
<1>3. NamesStay /\ OwnCome(t)
  BY PushNames, RewriteNames
<1>4. \A c \in Claims : Held(c) => Held(c)'
  BY <1>1, <1>2, <1>3, AsideMovers, HeldRemains
<1>5. QED
  BY <1>1, <1>2, <1>3, <1>4, AsideSettles, OwnGain

\* Where no name changes and the one operation that moves is on no way back,
\* before or after, all is held as it was.
LEMMA SameHeld ==
  ASSUME UNCHANGED dir, NEW t \in Tasks, \A u \in Tasks \ {t} : task'[u] = task[u],
         task[t].pc \notin {"back", "undo"}, task'[t].pc \notin {"back", "undo"}
  PROVE  \A c : /\ Held(c)' <=> Held(c)
                /\ \A u \in Tasks : Mover(u, c)' <=> Mover(u, c)
<1>1. \A c : Named(c)' <=> Named(c)
  BY DEF Named, Exists, Object
<1>2. ASSUME NEW c, NEW u \in Tasks PROVE Mover(u, c)' <=> Mover(u, c)
  <2>1. CASE u = t
    BY <2>1 DEF Mover, Moving
  <2>2. CASE u # t
    <3>1. task'[u] = task[u]
      BY <2>2
    <3>2. QED
      BY <3>1 DEF Mover, Moving, Exists, Mine, Shared, Object, Content
  <2>3. QED
    BY <2>1, <2>2
<1>3. QED
  BY <1>1, <1>2 DEF Held

\* A collection takes the name it came upon, and later the shared one.
LEMMA SweepRefines ==
  ASSUME TypeOK /\ NeverCorrupt, (TypeOK /\ NeverCorrupt)', NEW t \in Tasks, Step(t), Sweep(t)
  PROVE  Store!Next
<1>1. task[t].pc \in {"stat", "remove", "count", "probe", "erase"}
  BY DEF Sweep, SweepStat, SweepRemove, SweepCount, SweepProbe, SweepErase, Busy
<1>2. \A u \in Tasks \ {t} : task'[u] = task[u]
  BY StepTurn
<1>3. /\ Mine(t) \in Objects /\ Mine(t) \in Names /\ Shared(t) \in Contents
      /\ Shared(t) \in Names
  BY <1>1, OwnNames
<1>4. CASE SweepStat(t) \/ SweepCount(t) \/ SweepProbe(t)
  <2>1. /\ task'[t].pc \in {"remove", "idle", "probe", "erase"}
        /\ task'[t].pc = "remove" =>
             Taking(task[t]) /\ task'[t].repo = task[t].repo /\ task'[t].oid = task[t].oid
    <3>1. CASE Finish(t)
      BY <3>1, FinishTurn
    <3>2. CASE \E pc \in {"probe", "erase"} : Goto(t, pc)
      BY <1>1, <3>2, GotoTurn
    <3>3. CASE Busy(t, "stat") /\ Goto(t, "remove")
      <4>1. task'[t] = [task[t] EXCEPT !.pc = "remove"]
        BY <1>1, <3>3, GotoTurn
      <4>2. QED
        BY <1>1, <3>3, <4>1, OperationType DEF Busy, Taking, Operation
    <3>4. ASSUME NEW r, Busy(t, "probe"), task' = [task EXCEPT ![t].ask = @ \ {r}]
          PROVE  task'[t].pc = "probe"
      BY <1>1, <3>4, OperationType DEF Busy, Operation, TypeOK
    <3>5. QED
      BY <1>4, <3>1, <3>2, <3>3, <3>4 DEF SweepStat, SweepCount, SweepProbe
  <2>2. dir' = dir
    BY <1>4 DEF SweepStat, SweepCount, SweepProbe, files
  <2>3. Settles
    BY <1>2, <2>1 DEF Settles, Taking, Away
  <2>4. \A c : Held(c)' <=> Held(c)
    BY <1>1, <1>2, <2>1, <2>2, SameHeld
  <2>5. QED
    BY <2>3, <2>4, LoseRefines
<1>5. CASE SweepRemove(t)
  <2>0. PICK own : own = <<task[t].repo, task[t].oid>>
    OBVIOUS
  <2>1. /\ own \in Claims /\ Mine(t) = Object(own[1], own[2])
        /\ own \in Targets({"stat", "remove"})
    BY <1>1, <1>5, <2>0, OperationType DEF SweepRemove, Busy, Claims, Operation, Mine, Targets
  <2>2. \A n \in Names \ {Mine(t)} : dir'[n] = dir[n]
    BY <1>5 DEF SweepRemove, TypeOK
  <2>3. dir'[Mine(t)] = None
    BY <1>3, <1>5 DEF SweepRemove, TypeOK
  <2>4. task'[t].pc = "count" /\ Busy(t, "remove")
    BY <1>1, <1>5, GotoTurn DEF SweepRemove
  <2>5. Settles
    BY <1>2, <2>4, AsideSettles DEF Aside, Taking, Away
  <2>6. ASSUME NEW c, NEW u \in Tasks PROVE Mover(u, c)' <=> Mover(u, c)
    <3>1. CASE u = t
      BY <2>4, <3>1 DEF Mover, Moving, Busy
    <3>2. CASE u # t /\ task[u].pc \notin {"back", "undo"}
      BY <1>2, <3>2 DEF Mover, Moving
    <3>3. CASE u # t /\ task[u].pc \in {"back", "undo"}
      <4>1. task'[u] = task[u]
        BY <1>2, <3>3
      <4>2. Shared(u) \in Names \ {Mine(t)}
        BY <1>3, <3>3, OwnNames, KindsApart
      <4>3. Exists(Shared(u))' <=> Exists(Shared(u))
        BY <2>2, <4>1, <4>2 DEF Exists, Shared, Content
      <4>4. QED
        BY <4>1, <4>3 DEF Mover, Moving, Mine, Object
    <3>4. QED
      BY <3>1, <3>2, <3>3
  <2>7. ASSUME NEW c \in Claims, c # own PROVE Held(c)' <=> Held(c)
    <3>1. Object(c[1], c[2]) \in Names
      BY NamesType DEF Claims
    <3>2. Object(c[1], c[2]) # Mine(t)
      <4>1. c[1] # own[1] \/ c[2] # own[2]
        BY <2>1, <2>7 DEF Claims
      <4>2. QED
        BY <2>1, <4>1, NamesDiffer
    <3>3. Named(c)' <=> Named(c)
      BY <2>2, <3>1, <3>2 DEF Named, Exists, Object
    <3>4. QED
      BY <2>6, <3>3 DEF Held
  <2>8. ~Named(own)'
    BY <2>1, <2>3 DEF Named, Exists, Object
  <2>9. CASE \E u \in Tasks : Mover(u, own)
    <3>1. Held(own) /\ Held(own)'
      BY <2>6, <2>9 DEF Held
    <3>2. \A c \in Claims : Held(c)' <=> Held(c)
      BY <2>7, <3>1
    <3>3. QED
      BY <2>5, <3>2, LoseRefines
  <2>10. CASE ~\E u \in Tasks : Mover(u, own)
    <3>1. ~Held(own)'
      BY <2>6, <2>8, <2>10 DEF Held
    <3>2. HeldClaims' = HeldClaims \ {own}
      BY <2>7, <3>1, HeldBoth
    <3>3. Store!Collect(own)
      BY <2>1, <2>5, <3>2, SettlesEnds DEF Store!Collect
    <3>4. own \in Store!Claims
      BY <2>1 DEF Claims, Store!Claims
    <3>5. QED
      BY <3>3, <3>4 DEF Store!Next
  <2>11. QED
    BY <2>9, <2>10
<1>6. CASE SweepErase(t)
  <2>1. task'[t].pc = "idle" /\ Busy(t, "erase")
    BY <1>6, FinishTurn DEF SweepErase
  <2>2. Settles
    BY <1>2, <2>1, AsideSettles DEF Aside, Taking, Away
  <2>3. \A n \in Names \ {Shared(t)} : dir'[n] = dir[n]
    BY <1>6 DEF SweepErase, TypeOK
  <2>4. dir'[Shared(t)] = None
    BY <1>3, <1>6 DEF SweepErase, TypeOK
  <2>5. ASSUME NEW c \in Claims PROVE Named(c)' <=> Named(c)
    <3>1. Object(c[1], c[2]) \in Names \ {Shared(t)}
      BY <1>3, NamesType, KindsApart DEF Claims
    <3>2. QED
      BY <2>3, <3>1 DEF Named, Exists, Object
  <2>6. ASSUME NEW c, NEW u \in Tasks, Mover(u, c)' PROVE Mover(u, c)
    <3>1. u # t /\ task'[u] = task[u]
      BY <1>2, <2>1, <2>6 DEF Mover, Moving
    <3>2. Shared(u) \in Names
      BY <2>6, <3>1, OwnNames DEF Mover, Moving
    <3>3. Exists(Shared(u))' => Exists(Shared(u))
      BY <2>3, <2>4, <3>1, <3>2 DEF Exists, Shared, Content
    <3>4. QED
      BY <2>6, <3>1, <3>3 DEF Mover, Moving, Mine, Object
  <2>7. QED
    BY <2>2, <2>5, <2>6, LoseRefines DEF Held
<1>7. QED
  BY <1>4, <1>5, <1>6 DEF Sweep

\* A promote enters the window of its migration, and there has the only name.
LEMMA PromoteRefines ==
  ASSUME TypeOK /\ NeverCorrupt, (TypeOK /\ NeverCorrupt)', NEW t \in Tasks, Step(t),
         PromoteHash(t) \/ PromoteMove(t) \/ PromoteBack(t) \/ PromoteUndo(t)
  PROVE  Store!Next
<1>1. task[t].pc \in {"vouch", "move", "back", "undo"}
  BY DEF PromoteHash, PromoteMove, PromoteBack, PromoteUndo, Busy
<1>2. \A u \in Tasks \ {t} : task'[u] = task[u]
  BY StepTurn
<1>3. /\ Mine(t) \in Objects /\ Mine(t) \in Names /\ Shared(t) \in Contents
      /\ Shared(t) \in Names /\ Mine(t) # Shared(t)
  BY <1>1, OwnNames, KindsApart
<1>4. PICK own : own = <<task[t].repo, task[t].oid>>
  OBVIOUS
<1>5. own \in Claims /\ Mine(t) = Object(own[1], own[2])
  BY <1>1, <1>4, OperationType DEF Claims, Operation, Mine
<1>6. CASE Finish(t)
  <2>1. task'[t].pc = "idle" /\ Settles
    BY <1>2, <1>6, FinishTurn, FinishAside, AsideSettles
  <2>2. CASE UNCHANGED dir /\ task[t].pc \in {"vouch", "move"}
    BY <1>2, <2>1, <2>2, SameHeld, LoseRefines
  <2>3. CASE UNCHANGED dir /\ task[t].pc = "undo"
    <3>1. ASSUME NEW c PROVE Named(c)' <=> Named(c)
      BY <2>3 DEF Named, Exists, Object
    <3>2. ASSUME NEW c, NEW u \in Tasks, Mover(u, c)' PROVE Mover(u, c)
      <4>1. u # t /\ task'[u] = task[u]
        BY <1>2, <2>1, <3>2 DEF Mover, Moving
      <4>2. QED
        BY <2>3, <3>2, <4>1 DEF Mover, Moving, Exists, Mine, Shared, Object, Content
    <3>3. QED
      BY <2>1, <3>1, <3>2, LoseRefines DEF Held
  <2>4. CASE PromoteBack(t)
    <3>1. /\ Exists(Shared(t)) /\ dir'[Mine(t)] # None
          /\ \A n \in Names \ {Mine(t)} : dir'[n] = dir[n]
      <4>1. task[t].pc = "back" /\ task'[t].pc # "undo"
        BY <2>1, <2>4 DEF PromoteBack, Busy
      <4>2. ASSUME Goto(t, "undo") PROVE FALSE
        <5>1. task'[t].pc = "undo"
          BY <1>1, <4>2, GotoOwn
        <5>2. QED
          BY <4>1, <5>1
      <4>3. Exists(Shared(t))
        BY <2>4, <4>2 DEF PromoteBack
      <4>4. QED
        BY <1>3, <2>4, <4>3 DEF PromoteBack, Exists, TypeOK
    <3>2. NamesStay /\ OwnCome(t)
      BY <1>3, <3>1 DEF NamesStay, OwnCome, Exists, Names
    <3>3. ASSUME NEW c \in Claims, Mover(t, c) PROVE Held(c)'
      BY <3>1, <3>3 DEF Mover, Held, Named, Exists, Object
    <3>4. \A c \in Claims : Held(c) => Held(c)'
      BY <1>2, <3>2, <3>3, HeldRemains
    <3>5. QED
      BY <1>1, <1>2, <2>1, <3>2, <3>4, OwnGain
  <2>5. CASE PromoteUndo(t) /\ Exists(Shared(t))
    <3>1. /\ task[t].pc = "undo"
          /\ \A n \in Names \ {Mine(t)} : dir'[n] # None => dir[n] # None
          /\ \A n \in Names \ {Shared(t)} : dir[n] # None => dir'[n] # None
      BY <1>3, <2>5 DEF PromoteUndo, Busy, Renamed, Same, Exists, TypeOK
    <3>2. ASSUME NEW c \in Claims, Named(c)' PROVE Held(c)
      <4>1. Object(c[1], c[2]) \in Names
        BY NamesType DEF Claims
      <4>2. CASE Object(c[1], c[2]) = Mine(t)
        <5>1. Mover(t, c)
          BY <2>5, <3>1, <4>2 DEF Mover, Moving
        <5>2. QED
          BY <5>1 DEF Held
      <4>3. CASE Object(c[1], c[2]) # Mine(t)
        BY <3>1, <3>2, <4>1, <4>3 DEF Held, Named, Exists, Object
      <4>4. QED
        BY <4>2, <4>3
    <3>3. ASSUME NEW c \in Claims, NEW u \in Tasks, Mover(u, c)' PROVE Held(c)
      <4>1. u # t /\ task'[u] = task[u]
        BY <1>2, <2>1, <3>3 DEF Mover, Moving
      <4>2. Shared(u) \in Names \ {Mine(t)}
        BY <1>3, <3>3, <4>1, OwnNames, KindsApart DEF Mover, Moving
      <4>3. Exists(Shared(u))
        BY <3>1, <3>3, <4>1, <4>2 DEF Mover, Moving, Exists, Shared, Content
      <4>4. Mover(u, c)
        BY <3>3, <4>1, <4>3 DEF Mover, Moving, Mine, Object
      <4>5. QED
        BY <4>4 DEF Held
    <3>4. ASSUME NEW c \in Claims, Named(c) PROVE Held(c)'
      <4>1. Object(c[1], c[2]) \in Names \ {Shared(t)}
        BY <1>3, NamesType, KindsApart DEF Claims
      <4>2. QED
        BY <3>1, <3>4, <4>1 DEF Held, Named, Exists, Object
    <3>5. QED
      BY <2>1, <3>2, <3>3, <3>4, LoseRefines DEF Held
  <2>6. CASE PromoteHash(t)
    BY <2>2, <2>6 DEF PromoteHash, Busy, files
  <2>7. CASE PromoteMove(t)
    <3>1. ASSUME Goto(t, "back") PROVE FALSE
      <4>1. task'[t].pc = "back"
        BY <1>1, <3>1, GotoOwn
      <4>2. QED
        BY <2>1, <4>1
    <3>2. QED
      BY <2>2, <2>7, <3>1 DEF PromoteMove, Busy
  <2>8. CASE PromoteUndo(t) /\ ~Exists(Shared(t))
    BY <2>3, <2>8 DEF PromoteUndo, Busy
  <2>9. QED
    BY <2>4, <2>5, <2>6, <2>7, <2>8
<1>7. CASE PromoteHash(t) /\ Goto(t, "move")
  <2>1. /\ UNCHANGED dir /\ task[t].pc = "vouch"
        /\ task'[t].pc = "move" /\ task'[t].repo = task[t].repo /\ task'[t].oid = task[t].oid
    BY <1>1, <1>7, GotoOwn DEF PromoteHash, Busy, files
  <2>2. HeldClaims' = HeldClaims
    BY <1>2, <2>1, SameHeld, HeldBoth
  <2>3. Targets({"stat", "remove"})' = Targets({"stat", "remove"})
    BY <1>2, <2>1 DEF Targets
  <2>4. Targets({"move", "back", "undo"})' \ Targets({"move", "back", "undo"}) \subseteq {own}
    BY <1>2, <1>4, <2>1 DEF Targets
  <2>5. Store!Expose(own)
    BY <2>2, <2>3, <2>4 DEF Store!Expose
  <2>6. own \in Store!Claims
    BY <1>5 DEF Claims, Store!Claims
  <2>7. QED
    BY <2>5, <2>6 DEF Store!Next
<1>8. CASE PromoteMove(t) /\ Exists(Mine(t))
  <2>1. /\ task[t].pc = "move" /\ task'[t].pc = "back"
        /\ task'[t].repo = task[t].repo /\ task'[t].oid = task[t].oid
    BY <1>1, <1>8, GotoOwn DEF PromoteMove, Busy
  <2>2. /\ dir'[Shared(t)] # None
        /\ \A n \in Names \ {Mine(t)} : dir[n] # None => dir'[n] # None
    BY <1>3, <1>8 DEF PromoteMove, Renamed, Same, Exists, TypeOK
  <2>3. OwnCome(t)
    BY <1>3, <1>8, RenamedComes DEF PromoteMove
  <2>4. Settles
    BY <1>2, <2>1 DEF Settles, Taking, Away
  <2>5. Mover(t, own)'
    BY <1>5, <2>1, <2>2 DEF Mover, Moving, Exists, Mine, Shared, Object, Content
  <2>6. ASSUME NEW c \in Claims, Named(c) PROVE Held(c)'
    <3>1. CASE Object(c[1], c[2]) = Mine(t)
      <4>1. c[1] = own[1] /\ c[2] = own[2]
        BY <1>5, <3>1, NamesDiffer
      <4>2. c = own
        BY <1>5, <4>1 DEF Claims
      <4>3. QED
        BY <2>5, <4>2 DEF Held
    <3>2. CASE Object(c[1], c[2]) # Mine(t)
      <4>1. Object(c[1], c[2]) \in Names
        BY NamesType DEF Claims
      <4>2. QED
        BY <2>2, <2>6, <3>2, <4>1 DEF Held, Named, Exists, Object
    <3>3. QED
      BY <3>1, <3>2
  <2>7. ASSUME NEW c \in Claims, NEW u \in Tasks, Mover(u, c) PROVE Held(c)'
    <3>1. u # t /\ task'[u] = task[u]
      BY <1>2, <2>1, <2>7 DEF Mover, Moving
    <3>2. Shared(u) \in Names \ {Mine(t)}
      BY <1>3, <2>7, OwnNames, KindsApart DEF Mover, Moving
    <3>3. Exists(Shared(u))'
      BY <2>2, <2>7, <3>1, <3>2 DEF Mover, Moving, Exists, Shared, Content
    <3>4. Mover(u, c)'
      BY <2>7, <3>1, <3>3 DEF Mover, Moving, Mine, Object
    <3>5. QED
      BY <3>4 DEF Held
  <2>8. QED
    BY <1>1, <1>2, <2>3, <2>4, <2>6, <2>7, OwnGain DEF Held
<1>9. CASE PromoteBack(t) /\ ~Exists(Shared(t)) /\ Goto(t, "undo") /\ UNCHANGED dir
  <2>1. /\ task[t].pc = "back" /\ task'[t].pc = "undo"
        /\ task'[t].repo = task[t].repo /\ task'[t].oid = task[t].oid
    BY <1>1, <1>9, GotoOwn DEF PromoteBack, Busy
  <2>2. Settles
    BY <1>2, <2>1 DEF Settles, Taking, Away
  <2>3. NamesStay /\ OwnCome(t)
    BY <1>9 DEF NamesStay, OwnCome, Exists
  <2>4. \A c : ~Mover(t, c)
    BY <1>9 DEF Mover, Moving
  <2>5. \A c \in Claims : Held(c) => Held(c)'
    BY <1>2, <2>3, <2>4, HeldRemains
  <2>6. QED
    BY <1>1, <1>2, <2>2, <2>3, <2>5, OwnGain
<1>10. QED
  BY <1>6, <1>7, <1>8, <1>9 DEF PromoteHash, PromoteMove, PromoteBack, PromoteUndo

\* An operation begins: only a sweep comes upon something.
LEMMA BeginRefines ==
  ASSUME TypeOK /\ NeverCorrupt, (TypeOK /\ NeverCorrupt)', NEW t \in Tasks,
         NEW r \in Repos, NEW o \in Oids, NEW op, NEW pc, NEW seen, Begin(t, op, pc, r, o, seen),
         pc \in {"create", "open", "stat", "compare", "inspect"}
  PROVE  Store!Next
<1>1. /\ UNCHANGED dir /\ task[t].pc = "idle"
      /\ \A u \in Tasks \ {t} : task'[u] = task[u]
      /\ task'[t].pc = pc /\ task'[t].repo = r /\ task'[t].oid = o
  BY DEF Begin, Busy, files, TypeOK
<1>2. \A c : Held(c)' <=> Held(c)
  BY <1>1, SameHeld
<1>3. CASE pc # "stat"
  <2>1. Settles
    BY <1>1, <1>3, AsideSettles DEF Aside, Taking, Away
  <2>2. QED
    BY <1>2, <2>1, LoseRefines
<1>4. CASE pc = "stat"
  <2>1. HeldClaims' = HeldClaims
    BY <1>2, HeldBoth
  <2>2. Targets({"move", "back", "undo"})' = Targets({"move", "back", "undo"})
    BY <1>1, <1>4 DEF Targets
  <2>3. Targets({"stat", "remove"})' \ Targets({"stat", "remove"}) \subseteq {r} \X Oids
    BY <1>1 DEF Targets
  <2>4. Store!Consider(r)
    BY <2>1, <2>2, <2>3 DEF Store!Consider
  <2>5. QED
    BY <2>4 DEF Store!Next
<1>5. QED
  BY <1>3, <1>4

\* Operations that are dropped, all of them or one.
LEMMA EndRefines ==
  ASSUME TypeOK /\ NeverCorrupt, (TypeOK /\ NeverCorrupt)', UNCHANGED dir,
         \A u \in Tasks : task'[u] = task[u] \/ task'[u].pc = "idle"
  PROVE  Store!Next
<1>1. Settles
  BY DEF Settles, Taking, Away
<1>2. \A c : Named(c)' <=> Named(c)
  BY DEF Named, Exists, Object
<1>3. ASSUME NEW c, NEW u \in Tasks, Mover(u, c)' PROVE Mover(u, c)
  <2>1. task'[u] = task[u]
    BY <1>3 DEF Mover, Moving
  <2>2. QED
    BY <1>3, <2>1 DEF Mover, Moving, Exists, Mine, Shared, Object, Content
<1>4. QED
  BY <1>1, <1>2, <1>3, LoseRefines DEF Held

\* The reclaimer takes staging names, by which nobody holds anything.
LEMMA ReclaimRefines ==
  ASSUME TypeOK /\ NeverCorrupt, (TypeOK /\ NeverCorrupt)', NEW part \in Parts, Reclaim(part)
  PROVE  Store!Next
<1>1. UNCHANGED task /\ dir' = [dir EXCEPT ![part] = None]
  BY DEF Reclaim
<1>2. Settles
  BY <1>1 DEF Settles, Taking, Away
<1>3. \A n \in Contents \cup Objects : n # part /\ n \in Names
  BY NamesApart DEF Contents, Objects, Parts, Names
<1>4. \A n \in Contents \cup Objects : dir'[n] = dir[n]
  BY <1>1, <1>3 DEF TypeOK
<1>5. ASSUME NEW c \in Claims PROVE Named(c)' <=> Named(c)
  <2>1. Object(c[1], c[2]) \in Objects
    BY NamesType DEF Claims
  <2>2. QED
    BY <1>4, <2>1 DEF Named, Exists, Object
<1>6. ASSUME NEW c, NEW u \in Tasks PROVE Mover(u, c)' <=> Mover(u, c)
  <2>1. CASE task[u].pc \in {"back", "undo"}
    <3>1. Shared(u) \in Contents
      BY <2>1, OwnNames
    <3>2. QED
      BY <1>1, <1>4, <3>1 DEF Mover, Moving, Exists, Mine, Shared, Object, Content
  <2>2. CASE task[u].pc \notin {"back", "undo"}
    BY <1>1, <2>2 DEF Mover, Moving
  <2>3. QED
    BY <2>1, <2>2
<1>7. QED
  BY <1>2, <1>5, <1>6, LoseRefines DEF Held

\* Every step of the volume is one of the promise.
LEMMA StepRefines ==
  ASSUME TypeOK /\ NeverCorrupt, (TypeOK /\ NeverCorrupt)', [Next]_vars
  PROVE  [Store!Next]_(Store!vars)
<1>1. ASSUME NEW t \in Tasks, Step(t) PROVE Store!Next
  BY <1>1, WritesRefine, SweepRefines, PromoteRefines DEF Step, Dedupe
<1>2. ASSUME NEW t \in Tasks, NEW r \in Repos, NEW o \in Oids,
             \/ BeginPush(t, r, o) \/ BeginDedupe(t, r, o) \/ BeginCompress(t, r, o)
             \/ BeginOpen(t, r, o)
             \/ \E seen \in SUBSET Repos : BeginSweep(t, r, o, seen)
      PROVE  Store!Next
  BY <1>2, BeginRefines DEF BeginPush, BeginDedupe, BeginCompress, BeginOpen, BeginSweep
<1>3. ASSUME NEW t \in Tasks, Leave(t) PROVE Store!Next
  BY <1>3, FinishTurn, EndRefines DEF Leave, files
<1>4. ASSUME NEW part \in Parts, Reclaim(part) PROVE Store!Next
  BY <1>4, ReclaimRefines
<1>5. CASE Restart
  BY <1>5, EndRefines DEF Restart, files, Idle
<1>6. CASE OtherDraws \/ Tick \/ UNCHANGED vars
  BY <1>6, EndRefines DEF OtherDraws, Tick, vars, files
<1>7. QED
  BY <1>1, <1>2, <1>3, <1>4, <1>5, <1>6 DEF Next

\* Nothing is being collected or moved at first.
LEMMA StoreInit == Init => Store!Init
<1> SUFFICES ASSUME Init PROVE Store!Init
  OBVIOUS
<1>1. \A t \in Tasks : task[t].pc = "idle"
  BY DEF Init, Idle
<1>2. HeldClaims \subseteq Store!Claims
  BY DEF HeldClaims, Store!Claims
<1>3. QED
  BY <1>1, <1>2 DEF Store!Init, Targets

\* Whatever is pushed, swept, migrated, rewritten or cut short, on a volume
\* where no ticket names a file an earlier one left: what a repository can read
\* goes by its own sweep, or while its own migration has the only name of it.
THEOREM VolumeKeepsPromise == ~Meets => (Spec => StoreSpec)
<1> SUFFICES ASSUME ~Meets PROVE Spec => StoreSpec
  OBVIOUS
<1>1. Init => TypeOK /\ IInv
  BY TypeInit, WholeInit
<1>2. TypeOK /\ IInv /\ [Next]_vars => TypeOK' /\ IInv'
  BY TypeStep, WholeStep
<1>3. IInv => NeverCorrupt
  BY DEF IInv
<1>4. TypeOK /\ NeverCorrupt /\ (TypeOK /\ NeverCorrupt)' /\ [Next]_vars
        => [Store!Next]_(Store!vars)
  BY StepRefines
<1>5. QED
  BY <1>1, <1>2, <1>3, <1>4, StoreInit, PTL DEF Spec, StoreSpec, Store!Spec
=============================================================================
