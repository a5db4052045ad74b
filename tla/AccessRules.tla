---------------------------- MODULE AccessRules ----------------------------
(***************************************************************************)
(* The access settings of one forge, as the dashboard changes them         *)
(* (server/src/console/access.rs, storage/backend/signed.rs and meta.rs,   *)
(* and set_access and refresh_access of auth.rs).                          *)
(*                                                                         *)
(* What is in force is a value in the memory of each replica.  A request   *)
(* writes the file they share and then the memory of its own replica; a    *)
(* loop on every replica reads the file and writes its memory.  Neither    *)
(* holds a lock while the store works.                                     *)
(***************************************************************************)
EXTENDS Integers

CONSTANTS
  Replicas,     \* server processes over one store
  Editors,      \* dashboard requests in flight at a time
  Settings,     \* what somebody may save
  Environment,  \* what the variables say, the same on every replica
  Stray,        \* what is written into the store without the key
  MaxWrites,    \* bound: writes of the file
  MaxRestarts   \* bound: restarts

ASSUME AccessConstantsOK ==
  /\ Environment \notin Settings
  /\ Stray \notin Settings \cup {Environment}
  /\ MaxWrites \in Nat
  /\ MaxRestarts \in Nat

VARIABLES
  file,      \* access.json
  writes,    \* how often it was written
  inForce,   \* Authorizer.access
  revision,  \* Authorizer.revision
  refresh,   \* the loop of each replica
  editor,    \* the requests
  changed,   \* history: the write that the last change on a replica goes with
  restarts   \* how often a replica restarted

accessVars ==
  <<file, writes, inForce, revision, refresh, editor, changed, restarts>>

-----------------------------------------------------------------------------
(* The file: which write it is of, and what it says.  None of its writes   *)
(* is in Nothing: there is no file, or not any more.                       *)

Nothing == "nothing"

Unwritten == 0

File(w, s) == [write |-> w, says |-> s]

Says == Settings \cup {Stray, Nothing}

Idle == [pc |-> "idle"]

Looping == [pc : {"read", "apply"}, seen : Nat, found : Settings \cup {Environment}]

\* write is that of its own once it wrote the file.
Editing ==
  [pc : {"write", "set"}, at : Replicas, says : Settings \cup {Nothing}, write : Nat]

AccessTypeOK ==
  /\ file \in [write : Nat, says : Says]
  /\ writes \in 0 .. MaxWrites
  /\ inForce \in [Replicas -> Settings \cup {Environment}]
  /\ revision \in [Replicas -> Nat]
  /\ refresh \in [Replicas -> Looping \cup {Idle}]
  /\ editor \in [Editors -> Editing \cup {Idle}]
  /\ changed \in [Replicas -> Nat]
  /\ restarts \in 0 .. MaxRestarts

AccessInit ==
  /\ file = File(Unwritten, Nothing)
  /\ writes = 0
  /\ inForce = [r \in Replicas |-> Environment]
  /\ revision = [r \in Replicas |-> 0]
  /\ refresh = [r \in Replicas |-> Idle]
  /\ editor = [e \in Editors |-> Idle]
  /\ changed = [r \in Replicas |-> Unwritten]
  /\ restarts = 0

\* Mutant of Verified: a file is believed as it is found.
VerifiedAnyway(f) == f.says

\* read_signed: a file that is not signed with the key is ignored.
Verified(f) == IF f.says = Stray THEN Nothing ELSE f.says

\* saved, or what the environment says.
Stored == IF Verified(file) = Nothing THEN Environment ELSE Verified(file)

-----------------------------------------------------------------------------
(* keep_fresh: refresh_one, over and over.                                 *)

\* Mutant of RefreshBegins: not any more once somebody changed the rules here.
RefreshBeginsOnce(r) ==
  /\ refresh[r].pc = "idle"
  /\ revision[r] = 0
  /\ refresh' = [refresh EXCEPT ![r] =
       [pc |-> "read", seen |-> revision[r], found |-> Environment]]
  /\ UNCHANGED <<file, writes, inForce, revision, editor, changed, restarts>>

\* The revision is read before the file.
RefreshBegins(r) ==
  /\ refresh[r].pc = "idle"
  /\ refresh' = [refresh EXCEPT ![r] =
       [pc |-> "read", seen |-> revision[r], found |-> Environment]]
  /\ UNCHANGED <<file, writes, inForce, revision, editor, changed, restarts>>

RefreshReads(r) ==
  /\ refresh[r].pc = "read"
  /\ refresh' = [refresh EXCEPT ![r].pc = "apply", ![r].found = Stored]
  /\ UNCHANGED <<file, writes, inForce, revision, editor, changed, restarts>>

\* The store fails: what is in force is kept.
RefreshFails(r) ==
  /\ refresh[r].pc = "read"
  /\ refresh' = [refresh EXCEPT ![r] = Idle]
  /\ UNCHANGED <<file, writes, inForce, revision, editor, changed, restarts>>

\* refresh_access: not if somebody changed it meanwhile.
RefreshApplies(r) ==
  /\ refresh[r].pc = "apply"
  /\ inForce' = [inForce EXCEPT ![r] =
       IF revision[r] = refresh[r].seen THEN refresh[r].found ELSE @]
  /\ refresh' = [refresh EXCEPT ![r] = Idle]
  /\ UNCHANGED <<file, writes, revision, editor, changed, restarts>>

-----------------------------------------------------------------------------
(* write and reset, which is a write of Nothing.                           *)

EditBegins(e, r, s) ==
  /\ editor[e].pc = "idle"
  /\ editor' = [editor EXCEPT ![e] =
       [pc |-> "write", at |-> r, says |-> s, write |-> Unwritten]]
  /\ UNCHANGED <<file, writes, inForce, revision, refresh, changed, restarts>>

\* write_signed, delete_meta: the file is the old one or the new one.
EditWrites(e) ==
  /\ editor[e].pc = "write"
  /\ writes < MaxWrites
  /\ writes' = writes + 1
  /\ file' = File(writes', editor[e].says)
  /\ editor' = [editor EXCEPT ![e].pc = "set", ![e].write = writes']
  /\ UNCHANGED <<inForce, revision, refresh, changed, restarts>>

\* Mutant of EditSets: the revision stays.
EditSetsQuietly(e) ==
  LET r == editor[e].at IN
  /\ editor[e].pc = "set"
  /\ inForce' = [inForce EXCEPT ![r] =
       IF editor[e].says = Nothing THEN Environment ELSE editor[e].says]
  /\ changed' = [changed EXCEPT ![r] = editor[e].write]
  /\ editor' = [editor EXCEPT ![e] = Idle]
  /\ UNCHANGED <<file, writes, revision, refresh, restarts>>

\* set_access.
EditSets(e) ==
  LET r == editor[e].at IN
  /\ editor[e].pc = "set"
  /\ inForce' = [inForce EXCEPT ![r] =
       IF editor[e].says = Nothing THEN Environment ELSE editor[e].says]
  /\ revision' = [revision EXCEPT ![r] = @ + 1]
  /\ changed' = [changed EXCEPT ![r] = editor[e].write]
  /\ editor' = [editor EXCEPT ![e] = Idle]
  /\ UNCHANGED <<file, writes, refresh, restarts>>

\* The store fails, its answer is lost after it wrote, or the client goes.
EditEnds(e) ==
  /\ editor[e].pc # "idle"
  /\ editor' = [editor EXCEPT ![e] = Idle]
  /\ UNCHANGED <<file, writes, inForce, revision, refresh, changed, restarts>>

\* Somebody else puts a file there: one of before the key was configured, or
\* one from elsewhere.
Intrudes ==
  /\ writes < MaxWrites
  /\ writes' = writes + 1
  /\ file' = File(writes', Stray)
  /\ UNCHANGED <<inForce, revision, refresh, editor, changed, restarts>>

Restarts(r) ==
  /\ restarts < MaxRestarts
  /\ restarts' = restarts + 1
  /\ inForce' = [inForce EXCEPT ![r] = Environment]
  /\ revision' = [revision EXCEPT ![r] = 0]
  /\ refresh' = [refresh EXCEPT ![r] = Idle]
  /\ editor' = [e \in Editors |->
       IF editor[e].pc # "idle" /\ editor[e].at = r THEN Idle ELSE editor[e]]
  /\ changed' = [changed EXCEPT ![r] = Unwritten]
  /\ UNCHANGED <<file, writes>>

Refresh(r) ==
  RefreshBegins(r) \/ RefreshReads(r) \/ RefreshFails(r) \/ RefreshApplies(r)

Edit(e) ==
  \/ \E r \in Replicas, s \in Settings \cup {Nothing} : EditBegins(e, r, s)
  \/ EditWrites(e) \/ EditSets(e) \/ EditEnds(e)

AccessNext ==
  \/ \E r \in Replicas : Refresh(r) \/ Restarts(r)
  \/ \E e \in Editors : Edit(e)
  \/ Intrudes

\* The interval of a loop keeps ticking, and the store does not fail each time
\* it is read.
AccessFairness ==
  \A r \in Replicas :
    /\ WF_accessVars(RefreshBegins(r))
    /\ SF_accessVars(RefreshReads(r))
    /\ WF_accessVars(RefreshApplies(r))

AccessSpec == AccessInit /\ [][AccessNext]_accessVars /\ AccessFairness

-----------------------------------------------------------------------------
(* Properties.                                                             *)

\* A change that was made on a replica, and is what the store holds, is in
\* force there: no refresh that read the store before the change puts back
\* what was in force until then, however late it lands (auth.rs 79-83; "a
\* change applies at once on the replica that saved it", docs/dashboard.md).
\* Nor is anything in force that was written into the store without the key
\* (signed.rs 28-53).
NoRevert ==
  \A r \in Replicas :
    /\ changed[r] # Unwritten /\ changed[r] = file.write => inForce[r] = Stored
    /\ inForce[r] # Stray

\* Once nobody changes anything any more, every replica comes to what the
\* store holds and stays there: requests that raced each other, were dropped
\* between the store and the memory, or lost their answer included.
RulesSettle ==
  <>[](\A e \in Editors : editor[e].pc # "set") =>
    <>[](\A r \in Replicas : inForce[r] = Stored)
=============================================================================
