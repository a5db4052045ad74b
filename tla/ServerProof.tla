----------------------------- MODULE ServerProof -----------------------------
(***************************************************************************)
(* The small parts of the server, for any replicas, browsers, commands,    *)
(* tokens, hosts, pushes and transfers, and any times and sizes their      *)
(* assumptions allow: the access rules in force (AccessRules), who is let  *)
(* into the dashboard (Sessions), what a repository is taken to hold       *)
(* (Quota), and the slots of transfers (Transfers).                        *)
(***************************************************************************)
EXTENDS AccessRules, Sessions, Quota, Transfers, FiniteSetTheorems, TLAPS

-----------------------------------------------------------------------------
(* AccessRules: a refresh that has seen the last change of its replica has *)
(* read no older file than that change is of.                              *)

\* The file is that of the last write.
LastWrite == file.write = writes

\* An edit that wrote the file is behind it, unless the file is of a later write.
EditsWritten ==
  \A e \in Editors :
    editor[e].pc = "set" =>
      /\ editor[e].write <= writes
      /\ editor[e].write = writes => file.says = editor[e].says

\* A refresh that has seen the last change of its replica has read no older file
\* than the change is of.
RefreshesCurrent ==
  \A r \in Replicas :
    /\ changed[r] <= writes
    /\ refresh[r].pc # "idle" => refresh[r].seen <= revision[r]
    /\ refresh[r].pc = "apply" /\ refresh[r].seen = revision[r]
         /\ changed[r] # Unwritten /\ changed[r] = file.write
         => refresh[r].found = Stored

AccessInv ==
  AccessTypeOK /\ LastWrite /\ EditsWritten /\ RefreshesCurrent /\ NoRevert

LEMMA Writes == MaxWrites \in Nat /\ MaxRestarts \in Nat
BY AccessConstantsOK

LEMMA StoredIs ==
  ASSUME AccessTypeOK
  PROVE  /\ Stored \in Settings \cup {Environment}
         /\ file.says \in Settings \cup {Nothing} =>
              Stored = IF file.says = Nothing THEN Environment ELSE file.says
BY AccessConstantsOK DEF AccessTypeOK, Stored, Verified, Says

LEMMA FileStays == UNCHANGED file => Stored' = Stored
BY DEF Stored, Verified

LEMMA NeverStray ==
  ASSUME AccessTypeOK, NEW r \in Replicas
  PROVE  inForce[r] # Stray
BY AccessConstantsOK DEF AccessTypeOK

LEMMA AccessInitHolds == AccessInit => AccessInv
<1> SUFFICES ASSUME AccessInit PROVE AccessInv
  OBVIOUS
<1>1. AccessTypeOK
  BY Writes DEF AccessInit, AccessTypeOK, File, Says, Unwritten
<1>2. LastWrite /\ EditsWritten /\ RefreshesCurrent
  BY DEF AccessInit, LastWrite, EditsWritten, RefreshesCurrent, File, Unwritten, Idle
<1>3. NoRevert
  BY <1>1, NeverStray DEF AccessInit, NoRevert
<1> QED BY <1>1, <1>2, <1>3 DEF AccessInv

\* The loop of a replica.  The file, the edits and the changes stay.
LEMMA RefreshKeeps == \A r \in Replicas : AccessInv /\ Refresh(r) => AccessInv'
<1> SUFFICES ASSUME NEW r \in Replicas, AccessInv, Refresh(r) PROVE AccessInv'
  OBVIOUS
<1>0. UNCHANGED <<file, writes, revision, editor, changed, restarts>> /\ Stored' = Stored
      /\ AccessTypeOK
  BY FileStays
    DEF Refresh, RefreshBegins, RefreshReads, RefreshFails, RefreshApplies, AccessInv
<1>1. LastWrite' /\ EditsWritten'
  BY <1>0 DEF AccessInv, LastWrite, EditsWritten
<1>2. CASE RefreshBegins(r)
  <2>1. PICK q \in Looping : q.pc = "read" /\ q.seen = revision[r]
                             /\ refresh' = [refresh EXCEPT ![r] = q] /\ UNCHANGED inForce
    BY <1>0, <1>2 DEF RefreshBegins, Looping, AccessTypeOK
  <2>2. AccessTypeOK'
    BY <1>0, <2>1 DEF AccessTypeOK
  <2>3. RefreshesCurrent'
    BY <1>0, <2>1 DEF AccessInv, AccessTypeOK, RefreshesCurrent
  <2>4. NoRevert'
    BY <1>0, <2>1 DEF AccessInv, NoRevert
  <2> QED BY <1>1, <2>2, <2>3, <2>4 DEF AccessInv
<1>3. CASE RefreshReads(r)
  <2>1. refresh[r] \in Looping
    BY <1>0, <1>3 DEF RefreshReads, AccessTypeOK, Idle
  <2>2. PICK q : q = [refresh[r] EXCEPT !.pc = "apply", !.found = Stored]
    OBVIOUS
  <2>3. q \in Looping /\ q.pc = "apply" /\ q.seen = refresh[r].seen /\ q.found = Stored
    BY <1>0, <2>1, <2>2, StoredIs DEF Looping
  <2>4. refresh' = [refresh EXCEPT ![r] = q] /\ UNCHANGED inForce
    BY <1>3, <2>2 DEF RefreshReads
  <2>5. AccessTypeOK'
    BY <1>0, <2>3, <2>4 DEF AccessTypeOK
  <2>6. RefreshesCurrent'
    BY <1>0, <1>3, <2>3, <2>4
      DEF AccessInv, AccessTypeOK, RefreshesCurrent, RefreshReads
  <2>7. NoRevert'
    BY <1>0, <2>4 DEF AccessInv, NoRevert
  <2> QED BY <1>1, <2>5, <2>6, <2>7 DEF AccessInv
<1>4. CASE RefreshFails(r)
  <2>1. AccessTypeOK' /\ NoRevert'
    BY <1>0, <1>4 DEF AccessInv, AccessTypeOK, NoRevert, RefreshFails
  <2>2. RefreshesCurrent'
    BY <1>0, <1>4 DEF AccessInv, AccessTypeOK, RefreshesCurrent, RefreshFails, Idle
  <2> QED BY <1>1, <2>1, <2>2 DEF AccessInv
<1>5. CASE RefreshApplies(r)
  <2>1. refresh[r] \in Looping /\ refresh[r].pc = "apply"
    BY <1>0, <1>5 DEF RefreshApplies, AccessTypeOK, Idle
  <2>2. /\ inForce' = [inForce EXCEPT ![r] =
             IF revision[r] = refresh[r].seen THEN refresh[r].found ELSE @]
        /\ refresh' = [refresh EXCEPT ![r] = Idle]
    BY <1>5 DEF RefreshApplies
  <2>3. AccessTypeOK'
    BY <1>0, <2>1, <2>2 DEF AccessTypeOK, Looping
  <2>4. RefreshesCurrent'
    BY <1>0, <2>2 DEF AccessInv, AccessTypeOK, RefreshesCurrent, Idle
  <2>5. ASSUME NEW s \in Replicas, changed[s] # Unwritten, changed[s] = file.write
        PROVE  inForce'[s] = Stored
    BY <1>0, <2>1, <2>2, <2>5 DEF AccessInv, AccessTypeOK, RefreshesCurrent, NoRevert
  <2>6. NoRevert'
    BY <1>0, <2>3, <2>5, AccessConstantsOK DEF NoRevert, AccessTypeOK
  <2> QED BY <1>1, <2>3, <2>4, <2>6 DEF AccessInv
<1> QED BY <1>2, <1>3, <1>4, <1>5 DEF Refresh

\* A write makes what was changed before it no longer what the store holds.
LEMMA WritesKeep ==
  ASSUME AccessInv, NEW s \in Says,
         writes < MaxWrites, writes' = writes + 1, file' = File(writes', s),
         UNCHANGED <<inForce, revision, refresh, changed, restarts>>,
         editor' \in [Editors -> Editing \cup {Idle}],
         \A e \in Editors :
           editor'[e].pc = "set" =>
             \/ editor'[e] = editor[e]
             \/ editor'[e].write = writes' /\ editor'[e].says = s
  PROVE  AccessInv'
<1>0. file'.write = writes + 1 /\ file'.says = s /\ writes \in Nat /\ writes' \in Nat
      /\ AccessTypeOK
  BY DEF File, AccessInv, AccessTypeOK
<1>1. AccessTypeOK'
  BY <1>0, Writes DEF AccessTypeOK, File
<1>2. LastWrite'
  BY <1>0 DEF LastWrite
<1>3. EditsWritten'
  BY <1>0 DEF AccessInv, AccessTypeOK, EditsWritten, Editing, Idle
<1>4. \A r \in Replicas : changed'[r] < file'.write /\ changed'[r] \in Nat
  BY <1>0 DEF AccessInv, AccessTypeOK, RefreshesCurrent
<1>5. RefreshesCurrent'
  BY <1>0, <1>4 DEF AccessInv, RefreshesCurrent
<1>6. NoRevert'
  BY <1>0, <1>4 DEF AccessInv, NoRevert
<1> QED BY <1>1, <1>2, <1>3, <1>5, <1>6 DEF AccessInv

LEMMA EditKeeps == \A e \in Editors : AccessInv /\ Edit(e) => AccessInv'
<1> SUFFICES ASSUME NEW e \in Editors, AccessInv, Edit(e) PROVE AccessInv'
  OBVIOUS
<1>0. AccessTypeOK
  BY DEF AccessInv
<1>1. CASE \E r \in Replicas, s \in Settings \cup {Nothing} : EditBegins(e, r, s)
  <2>1. PICK q \in Editing : /\ q.pc = "write" /\ editor' = [editor EXCEPT ![e] = q]
                             /\ UNCHANGED <<file, writes, inForce, revision, refresh, changed, restarts>>
    BY <1>1 DEF EditBegins, Editing, Unwritten
  <2>2. AccessTypeOK' /\ LastWrite' /\ Stored' = Stored
    BY <1>0, <2>1, FileStays DEF AccessTypeOK, LastWrite, AccessInv
  <2>3. EditsWritten'
    BY <1>0, <2>1 DEF AccessInv, AccessTypeOK, EditsWritten
  <2>4. RefreshesCurrent' /\ NoRevert'
    BY <2>1, <2>2 DEF AccessInv, RefreshesCurrent, NoRevert
  <2> QED BY <2>2, <2>3, <2>4 DEF AccessInv
<1>2. CASE EditWrites(e)
  <2>1. editor[e] \in Editing /\ writes' \in Nat
    BY <1>0, <1>2 DEF EditWrites, AccessTypeOK, Idle
  <2>2. PICK q : q = [editor[e] EXCEPT !.pc = "set", !.write = writes']
    OBVIOUS
  <2>3. q \in Editing /\ q.pc = "set" /\ q.write = writes' /\ q.says = editor[e].says
    BY <2>1, <2>2 DEF Editing
  <2>4. editor' = [editor EXCEPT ![e] = q]
    BY <1>2, <2>2 DEF EditWrites
  <2>5. editor[e].says \in Says
    BY <2>1 DEF Editing, Says
  <2>6. editor' \in [Editors -> Editing \cup {Idle}]
    BY <1>0, <2>3, <2>4 DEF AccessTypeOK
  <2>7. \A d \in Editors :
          editor'[d].pc = "set" =>
            \/ editor'[d] = editor[d]
            \/ editor'[d].write = writes' /\ editor'[d].says = editor[e].says
    BY <1>0, <2>3, <2>4 DEF AccessTypeOK
  <2> QED BY <1>2, <2>5, <2>6, <2>7, WritesKeep DEF EditWrites
<1>3. CASE EditSets(e)
  <2> DEFINE r == editor[e].at
             new == IF editor[e].says = Nothing THEN Environment ELSE editor[e].says
  <2>1. editor[e] \in Editing /\ editor[e].pc = "set" /\ r \in Replicas
    BY <1>0, <1>3 DEF EditSets, AccessTypeOK, Idle, Editing
  <2>2. /\ inForce' = [inForce EXCEPT ![r] = new]
        /\ revision' = [revision EXCEPT ![r] = @ + 1]
        /\ changed' = [changed EXCEPT ![r] = editor[e].write]
        /\ editor' = [editor EXCEPT ![e] = Idle]
        /\ UNCHANGED <<file, writes, refresh, restarts>>
        /\ Stored' = Stored
    BY <1>3, FileStays DEF EditSets
  <2>3. new \in Settings \cup {Environment} /\ editor[e].write \in Nat /\ editor[e].write <= writes
    BY <2>1 DEF Editing, AccessInv, EditsWritten
  <2>4. AccessTypeOK' /\ LastWrite'
    BY <1>0, <2>1, <2>2, <2>3 DEF AccessInv, AccessTypeOK, LastWrite
  <2>5. EditsWritten'
    BY <1>0, <2>2 DEF AccessInv, AccessTypeOK, EditsWritten, Idle
  <2>6. editor[e].write = file.write => new = Stored
    BY <1>0, <2>1, StoredIs DEF AccessInv, LastWrite, EditsWritten, Editing
  <2> HIDE DEF new, r
  <2>7. RefreshesCurrent'
    <3> SUFFICES ASSUME NEW s \in Replicas
                 PROVE  /\ changed'[s] <= writes
                        /\ refresh[s].pc # "idle" => refresh[s].seen <= revision'[s]
                        /\ refresh[s].pc = "apply" /\ refresh[s].seen = revision'[s]
                             /\ changed'[s] # Unwritten /\ changed'[s] = file.write
                             => refresh[s].found = Stored
      BY <2>2 DEF RefreshesCurrent
    <3>1. CASE s = r
      <4>1. revision[s] \in Nat /\ revision'[s] = revision[s] + 1 /\ changed'[s] = editor[e].write
        BY <1>0, <2>1, <2>2, <3>1 DEF AccessTypeOK
      <4>2. refresh[s].pc # "idle" => refresh[s].seen \in Nat /\ refresh[s].seen <= revision[s]
        BY <1>0 DEF AccessInv, RefreshesCurrent, AccessTypeOK, Looping, Idle
      <4> QED BY <2>3, <4>1, <4>2
    <3>2. CASE s # r
      BY <1>0, <2>1, <2>2, <3>2 DEF AccessInv, RefreshesCurrent, AccessTypeOK
    <3> QED BY <3>1, <3>2
  <2>8. NoRevert'
    <3>1. ASSUME NEW s \in Replicas, changed'[s] # Unwritten, changed'[s] = file.write
          PROVE  inForce'[s] = Stored
      BY <1>0, <2>1, <2>2, <2>6, <3>1 DEF AccessInv, NoRevert, AccessTypeOK
    <3> QED BY <2>2, <2>4, <3>1, AccessConstantsOK DEF NoRevert, AccessTypeOK
  <2> QED BY <2>4, <2>5, <2>7, <2>8 DEF AccessInv
<1>4. CASE EditEnds(e)
  <2>1. /\ editor' = [editor EXCEPT ![e] = Idle]
        /\ UNCHANGED <<file, writes, inForce, revision, refresh, changed, restarts>>
    BY <1>4 DEF EditEnds
  <2>2. AccessTypeOK' /\ LastWrite' /\ Stored' = Stored
    BY <1>0, <2>1, FileStays DEF AccessTypeOK, LastWrite, AccessInv
  <2>3. EditsWritten'
    BY <1>0, <2>1 DEF AccessInv, AccessTypeOK, EditsWritten, Idle
  <2>4. RefreshesCurrent' /\ NoRevert'
    BY <2>1, <2>2 DEF AccessInv, RefreshesCurrent, NoRevert
  <2> QED BY <2>2, <2>3, <2>4 DEF AccessInv
<1> QED BY <1>1, <1>2, <1>3, <1>4 DEF Edit

LEMMA IntrudesKeeps == AccessInv /\ Intrudes => AccessInv'
<1> SUFFICES ASSUME AccessInv, Intrudes PROVE AccessInv'
  OBVIOUS
<1>1. Stray \in Says /\ editor' \in [Editors -> Editing \cup {Idle}]
  BY DEF Says, Intrudes, AccessInv, AccessTypeOK
<1> QED BY <1>1, WritesKeep DEF Intrudes

LEMMA RestartsKeep == \A r \in Replicas : AccessInv /\ Restarts(r) => AccessInv'
<1> SUFFICES ASSUME NEW r \in Replicas, AccessInv, Restarts(r) PROVE AccessInv'
  OBVIOUS
<1>0. AccessTypeOK /\ UNCHANGED <<file, writes>> /\ Stored' = Stored
  BY FileStays DEF Restarts, AccessInv
<1>1. AccessTypeOK'
  BY <1>0, Writes DEF AccessTypeOK, Restarts, Unwritten
<1>2. LastWrite' /\ EditsWritten'
  BY <1>0 DEF AccessInv, LastWrite, EditsWritten, Restarts, Idle
<1>3. RefreshesCurrent'
  BY <1>0 DEF AccessInv, AccessTypeOK, RefreshesCurrent, Restarts, Idle, Unwritten
<1>4. NoRevert'
  BY <1>0, AccessConstantsOK DEF AccessInv, AccessTypeOK, NoRevert, Restarts, Unwritten
<1> QED BY <1>1, <1>2, <1>3, <1>4 DEF AccessInv

\* Edits behind the file and refreshes that are current, in every state.
THEOREM AccessInvariant == AccessSpec => []AccessInv
<1>1. AccessInv /\ [AccessNext]_accessVars => AccessInv'
  <2>1. AccessInv /\ UNCHANGED accessVars => AccessInv'
    BY FileStays DEF AccessInv, AccessTypeOK, LastWrite, EditsWritten, RefreshesCurrent,
                     NoRevert, accessVars
  <2> QED BY <2>1, RefreshKeeps, EditKeeps, IntrudesKeeps, RestartsKeep DEF AccessNext
<1> QED BY AccessInitHolds, <1>1, PTL DEF AccessSpec

\* A change that was saved stays in force where it was saved, whichever refresh
\* lands after it, for any number of replicas, requests and restarts (auth.rs
\* 79-83).
THEOREM ChangesStay == AccessSpec => []NoRevert
<1>1. AccessInv => NoRevert
  BY DEF AccessInv
<1> QED BY AccessInvariant, <1>1, PTL

-----------------------------------------------------------------------------
(* Sessions: a list that is kept was true at most LoadTime before, an id   *)
(* is opened by one request and held in one place, and nowhere once it     *)
(* ended; a request that came late gets no further than its cookie.        *)

\* What a list that is kept says was so at most LoadTime before it was kept.
SlotsRecent ==
  \A s \in Servers : \A h \in slot[s].list :
    h \in issued \/ listed[h] + LoadTime >= slot[s].at

\* A request the forge is asked about is of a session; what the store answered
\* was so when it was read, not long ago; one that came late gets no further.
RequestSound(r) ==
  /\ r.pc = "forge" => r.of \in Ids
  /\ r.pc = "loaded" =>
       /\ r.read <= time
       /\ time - r.read <= LoadTime
       /\ \A h \in r.got : h \in issued \/ listed[h] >= r.read
  /\ r.late => r.pc = "open" /\ (r.of \in ended \/ r.expires <= time)

RequestsSound == \A b \in Browsers : browser[b] # Quiet => RequestSound(browser[b])

Opens(r, i) == r # Quiet /\ r.pc = "forge" /\ r.does # "views" /\ r.of = i

\* One request opens a session, and nobody has it before.
OpenedOnce ==
  \A b \in Browsers : \A i \in Ids :
    Opens(browser[b], i) =>
      /\ i \notin ended
      /\ \A s \in Servers : held[s][i] = Never
      /\ \A other \in Browsers : Opens(browser[other], i) => other = b

\* A session is held in one place, and nowhere once it ended.
HeldOnce ==
  \A i \in Ids : \A s \in Servers :
    held[s][i] # Never =>
      /\ i \notin ended
      /\ \A t \in Servers : held[t][i] # Never => t = s

SessionsInv ==
  /\ SessionsTypeOK /\ KeyAgreed
  /\ SlotsRecent /\ RequestsSound /\ OpenedOnce /\ HeldOnce
  /\ RevokedGone /\ EndedStaysEnded

LEMMA SessionNumbers ==
  /\ EVERY \in Nat /\ EVERY > 0 /\ LIFETIME \in Nat /\ LIFETIME > 0
  /\ LoadTime \in Nat /\ MaxTime \in Nat /\ MaxOutages \in Nat
  /\ NoKey \notin Keys /\ Hashes \cap Ids = {}
BY SessionsConstantsOK

LEMMA QuietIsNone == Quiet \notin Request /\ Quiet.pc = "quiet"
BY DEF Quiet, Request

LEMMA SessionsInitHolds == SessionsInit => SessionsInv
<1> SUFFICES ASSUME SessionsInit PROVE SessionsInv
  OBVIOUS
<1> USE SessionNumbers
<1>1. SessionsTypeOK
  BY DEF SessionsInit, SessionsTypeOK, Never, NoList
<1>2. KeyAgreed
  BY DEF SessionsInit, KeyAgreed
<1>3. SlotsRecent /\ RequestsSound /\ OpenedOnce /\ HeldOnce
  BY DEF SessionsInit, SlotsRecent, RequestsSound, OpenedOnce, Opens, HeldOnce, NoList
<1>4. RevokedGone /\ EndedStaysEnded
  BY DEF SessionsInit, RevokedGone, EndedStaysEnded
<1> QED BY <1>1, <1>2, <1>3, <1>4 DEF SessionsInv

\* Commands change what is issued, and note when what is no longer issued was.
LEMMA CommandReadsStep ==
  \A c \in Commands, h \in Hashes : SessionsInv /\ CommandReads(c, h) => SessionsInv'
<1> SUFFICES ASSUME NEW c \in Commands, NEW h \in Hashes, SessionsInv, CommandReads(c, h)
             PROVE  SessionsInv'
  OBVIOUS
<1>1. UNCHANGED <<time, issued, listed, revoked, keyVars, memory, cookies, browser, outages,
                  admitted>>
  BY DEF CommandReads
<1>2. SessionsTypeOK'
  <2>1. PICK q \in Command : command' = [command EXCEPT ![c] = q]
    BY DEF CommandReads, Command, SessionsInv, SessionsTypeOK
  <2> QED BY <1>1, <2>1 DEF SessionsInv, SessionsTypeOK, keyVars, memory
<1>3. KeyAgreed' /\ SlotsRecent' /\ RevokedGone' /\ EndedStaysEnded'
  BY <1>1
    DEF SessionsInv, KeyAgreed, SlotsRecent, RevokedGone, EndedStaysEnded, keyVars, memory
<1>4. RequestsSound' /\ OpenedOnce' /\ HeldOnce'
  BY <1>1
    DEF SessionsInv, RequestsSound, RequestSound, OpenedOnce, Opens, HeldOnce, memory
<1> QED BY <1>2, <1>3, <1>4 DEF SessionsInv

LEMMA CommandWritesStep ==
  \A c \in Commands : SessionsInv /\ CommandWrites(c) => SessionsInv'
<1> SUFFICES ASSUME NEW c \in Commands, SessionsInv, CommandWrites(c) PROVE SessionsInv'
  OBVIOUS
<1>1. UNCHANGED <<time, keyVars, memory, cookies, browser, outages, admitted>>
  BY DEF CommandWrites
<1>2. command[c] \in Command /\ time \in Nat /\ listed \in [Hashes -> Never .. time]
  BY SessionNumbers DEF CommandWrites, SessionsInv, SessionsTypeOK
<1>3. issued' \subseteq Hashes /\ issued \subseteq Hashes
  BY <1>2 DEF CommandWrites, Edited, Command, SessionsInv, SessionsTypeOK
<1>4. listed' \in [Hashes -> Never .. time]
      /\ \A h \in Hashes : listed'[h] = IF h \in issued \cup issued' THEN time ELSE listed[h]
  BY <1>2 DEF CommandWrites, Never
<1>5. SessionsTypeOK'
  <2>1. revoked' \subseteq Hashes
    BY <1>2 DEF CommandWrites, Command, SessionsInv, SessionsTypeOK
  <2>2. command' \in [Commands -> Command \cup {Quiet}]
    BY DEF CommandWrites, SessionsInv, SessionsTypeOK
  <2> QED BY <1>1, <1>3, <1>4, <2>1, <2>2
    DEF SessionsInv, SessionsTypeOK, keyVars, memory
<1>6. ASSUME NEW h \in Hashes, NEW n \in Int, n <= time, NEW d \in Nat,
             h \in issued \/ listed[h] + d >= n
      PROVE  h \in issued' \/ listed'[h] + d >= n
  BY <1>2, <1>4, <1>6
<1>7. SlotsRecent'
  <2> SUFFICES ASSUME NEW s \in Servers, NEW h \in slot[s].list
               PROVE  h \in issued' \/ listed'[h] + LoadTime >= slot[s].at
    BY <1>1 DEF SlotsRecent, memory
  <2>1. slot[s] \in [at : Never .. time, list : SUBSET Hashes]
    BY DEF SessionsInv, SessionsTypeOK
  <2>2. h \in Hashes /\ slot[s].at \in Int /\ slot[s].at <= time
    BY <2>1, <1>2 DEF Never
  <2>3. h \in issued \/ listed[h] + LoadTime >= slot[s].at
    BY DEF SessionsInv, SlotsRecent
  <2> QED BY <1>6, <2>2, <2>3, SessionNumbers
<1>8. RequestsSound'
  <2> SUFFICES ASSUME NEW b \in Browsers, browser[b] # Quiet PROVE RequestSound(browser[b])'
    BY <1>1 DEF RequestsSound
  <2>1. browser[b] \in Request /\ RequestSound(browser[b])
    BY DEF SessionsInv, SessionsTypeOK, RequestsSound
  <2>2. ASSUME browser[b].pc = "loaded", NEW h \in browser[b].got
        PROVE  h \in issued' \/ listed'[h] >= browser[b].read
    <3>1. h \in Hashes /\ browser[b].read \in Int /\ browser[b].read <= time
      BY <2>1, <2>2 DEF Request, RequestSound
    <3>2. h \in issued \/ listed[h] + 0 >= browser[b].read
      BY <1>2, <2>1, <2>2, <3>1 DEF RequestSound, Never
    <3>3. h \in issued' \/ listed'[h] + 0 >= browser[b].read
      BY <1>6, <3>1, <3>2
    <3> QED BY <1>4, <3>1, <3>3, <1>2 DEF Never
  <2> QED BY <1>1, <2>1, <2>2 DEF RequestSound, memory
<1>9. KeyAgreed' /\ OpenedOnce' /\ HeldOnce' /\ RevokedGone' /\ EndedStaysEnded'
  BY <1>1
    DEF SessionsInv, KeyAgreed, OpenedOnce, Opens, HeldOnce, RevokedGone, EndedStaysEnded,
              keyVars, memory
<1> QED BY <1>5, <1>7, <1>8, <1>9 DEF SessionsInv

\* Whatever replicas do about the key, one that is kept stays.
LEMMA KeyStep ==
  ASSUME SessionsInv,
         UNCHANGED <<time, tokenVars, memory, cookies, browser, outages, admitted>>,
         kept' \in Keys \cup {NoKey}, kept # NoKey => kept' = kept,
         keying' \in [Servers -> {"none", "create", "reread"}],
         key' \in [Servers -> Keys \cup {NoKey}],
         \A s \in Servers : key'[s] = key[s] \/ key'[s] = kept'
  PROVE  SessionsInv'
<1>1. SessionsTypeOK'
  BY DEF SessionsInv, SessionsTypeOK, tokenVars, memory
<1>2. KeyAgreed'
  BY SessionNumbers DEF SessionsInv, SessionsTypeOK, KeyAgreed, Cookie
<1>3. SlotsRecent' /\ RevokedGone' /\ EndedStaysEnded'
  BY DEF SessionsInv, SlotsRecent, RevokedGone, EndedStaysEnded, tokenVars, memory
<1>4. RequestsSound' /\ OpenedOnce' /\ HeldOnce'
  BY DEF SessionsInv, RequestsSound, RequestSound, OpenedOnce, Opens, HeldOnce, tokenVars, memory
<1> QED BY <1>1, <1>2, <1>3, <1>4 DEF SessionsInv

LEMMA KeysStep ==
  \A s \in Servers :
    SessionsInv /\ (KeyRead(s) \/ KeyReread(s) \/ KeyFails(s) \/ \E k \in Keys : KeyCreate(s, k))
      => SessionsInv'
<1> SUFFICES ASSUME NEW s \in Servers, SessionsInv,
                    KeyRead(s) \/ KeyReread(s) \/ KeyFails(s) \/ \E k \in Keys : KeyCreate(s, k)
             PROVE  SessionsInv'
  OBVIOUS
<1>0. /\ kept \in Keys \cup {NoKey}
      /\ key \in [Servers -> Keys \cup {NoKey}]
      /\ keying \in [Servers -> {"none", "create", "reread"}]
  BY DEF SessionsInv, SessionsTypeOK
<1>1. CASE KeyRead(s)
  BY <1>0, <1>1, KeyStep DEF KeyRead
<1>2. CASE KeyReread(s)
  BY <1>0, <1>2, KeyStep DEF KeyReread
<1>3. CASE KeyFails(s)
  BY <1>0, <1>3, KeyStep DEF KeyFails
<1>4. ASSUME NEW k \in Keys, KeyCreate(s, k) PROVE SessionsInv'
  BY <1>0, <1>4, KeyStep DEF KeyCreate
<1> QED BY <1>1, <1>2, <1>3, <1>4

\* Sessions are closed and none is opened.
Fades ==
  /\ held' \in [Servers -> [Ids -> Never .. time + LIFETIME]]
  /\ ended \subseteq ended' /\ ended' \subseteq Ids
  /\ \A s \in Servers : \A i \in Ids : held'[s][i] \in {held[s][i], Never}
  /\ \A i \in ended' \ ended :
       /\ \E s \in Servers : held[s][i] # Never
       /\ \A s \in Servers : held'[s][i] = Never

LEMMA NothingFades == SessionsInv /\ UNCHANGED memory => Fades
BY DEF SessionsInv, SessionsTypeOK, Fades, memory

LEMMA ClosedFades ==
  \A s \in Servers : \A x \in Hashes \cup Ids :
    SessionsInv /\ Closed(s, x) => Fades /\ UNCHANGED slot
<1> SUFFICES ASSUME NEW s \in Servers, NEW x \in Hashes \cup Ids, SessionsInv, Closed(s, x)
             PROVE  Fades /\ UNCHANGED slot
  OBVIOUS
<1>1. CASE x \notin Ids
  BY <1>1, NothingFades DEF Closed, memory
<1>2. CASE x \in Ids
  <2>1. /\ held \in [Servers -> [Ids -> Never .. time + LIFETIME]]
        /\ Never \in Never .. time + LIFETIME /\ ended \subseteq Ids
    BY SessionNumbers DEF SessionsInv, SessionsTypeOK, Never
  <2>2. /\ held' = [held EXCEPT ![s][x] = Never]
        /\ ended' = IF held[s][x] = Never THEN ended ELSE ended \cup {x}
        /\ UNCHANGED slot
    BY <1>2 DEF Closed
  <2>3. held' \in [Servers -> [Ids -> Never .. time + LIFETIME]]
    BY <2>1, <2>2
  <2>4. \A t \in Servers : \A i \in Ids :
          held'[t][i] = IF t = s /\ i = x THEN Never ELSE held[t][i]
    BY <2>1, <2>2
  <2>5. ASSUME NEW i \in ended' \ ended
        PROVE  held[s][i] # Never /\ \A t \in Servers : held'[t][i] = Never
    BY <1>2, <2>2, <2>4, <2>5 DEF SessionsInv, HeldOnce
  <2> QED BY <1>2, <2>1, <2>2, <2>3, <2>4, <2>5 DEF Fades
<1> QED BY <1>1, <1>2

\* A request that was sound is, while only time stands still.
LEMMA SoundStays ==
  ASSUME NEW r, RequestSound(r), UNCHANGED <<time, issued, listed>>, ended \subseteq ended'
  PROVE  RequestSound(r)'
BY DEF RequestSound

\* A step of one request that opens no session.
LEMMA RequestStep ==
  ASSUME SessionsInv, NEW b \in Browsers, NEW q \in Request \cup {Quiet},
         browser' = [browser EXCEPT ![b] = q],
         UNCHANGED <<time, tokenVars, keyVars, outages>>, Fades,
         q # Quiet => RequestSound(q)',
         \A i \in Ids : Opens(q, i) => Opens(browser[b], i),
         slot' \in [Servers -> [at : Never .. time, list : SUBSET Hashes]], SlotsRecent',
         cookies' \subseteq Cookie,
         \A c \in cookies' : c.expires \in LIFETIME .. time + LIFETIME /\ c.key = kept,
         admitted' \in [late : BOOLEAN, overdue : Int], RevokedGone', EndedStaysEnded'
  PROVE  SessionsInv'
<1>0. browser \in [Browsers -> Request \cup {Quiet}]
  BY DEF SessionsInv, SessionsTypeOK
<1>1. SessionsTypeOK'
  <2>1. browser' \in [Browsers -> Request \cup {Quiet}]
    BY <1>0
  <2> QED BY <2>1 DEF SessionsInv, SessionsTypeOK, tokenVars, keyVars, Fades
<1>2. KeyAgreed'
  BY DEF SessionsInv, KeyAgreed, keyVars
<1>3. RequestsSound'
  <2> SUFFICES ASSUME NEW a \in Browsers, browser'[a] # Quiet PROVE RequestSound(browser[a])'
    BY DEF RequestsSound
  <2>1. CASE a = b
    <3>1. browser'[a] = q
      BY <1>0, <2>1
    <3> QED BY <3>1 DEF RequestSound
  <2>2. CASE a # b
    <3>1. browser'[a] = browser[a]
      BY <1>0, <2>2
    <3>2. RequestSound(browser[a])
      BY <3>1 DEF SessionsInv, RequestsSound
    <3> QED BY <3>1, <3>2 DEF RequestSound, tokenVars, Fades
  <2> QED BY <2>1, <2>2
<1>4. OpenedOnce'
  <2>1. \A a \in Browsers : \A i \in Ids : Opens(browser'[a], i) => Opens(browser[a], i)
    BY <1>0
  <2> SUFFICES ASSUME NEW a \in Browsers, NEW i \in Ids, Opens(browser'[a], i)
               PROVE  /\ i \notin ended'
                      /\ \A s \in Servers : held'[s][i] = Never
                      /\ \A other \in Browsers : Opens(browser'[other], i) => other = a
    BY DEF OpenedOnce, Opens
  <2>2. /\ i \notin ended
        /\ \A s \in Servers : held[s][i] = Never
        /\ \A other \in Browsers : Opens(browser[other], i) => other = a
    BY <2>1 DEF SessionsInv, OpenedOnce
  <2> QED BY <2>1, <2>2 DEF Fades
<1>5. HeldOnce'
  <2> SUFFICES ASSUME NEW i \in Ids, NEW s \in Servers, held'[s][i] # Never
               PROVE  i \notin ended' /\ \A t \in Servers : held'[t][i] # Never => t = s
    BY DEF HeldOnce
  <2>1. held[s][i] # Never
    BY DEF Fades
  <2>2. i \notin ended /\ \A t \in Servers : held[t][i] # Never => t = s
    BY <2>1 DEF SessionsInv, HeldOnce
  <2>3. i \notin ended'
    BY <2>2 DEF Fades
  <2>4. \A t \in Servers : held'[t][i] # Never => held[t][i] # Never
    BY DEF Fades
  <2> QED BY <2>2, <2>3, <2>4
<1> QED BY <1>1, <1>2, <1>3, <1>4, <1>5 DEF SessionsInv

\* A request that moves on or leaves, where nothing else of it changes but what
\* its replica has in memory.
LEMMA MovesStep ==
  ASSUME SessionsInv, NEW b \in Browsers, NEW q \in Request \cup {Quiet},
         browser' = [browser EXCEPT ![b] = q],
         UNCHANGED <<time, tokenVars, keyVars, cookies, outages, admitted, slot>>, Fades,
         q # Quiet => RequestSound(q)',
         \A i \in Ids : Opens(q, i) => Opens(browser[b], i)
  PROVE  SessionsInv'
<1>1. SlotsRecent' /\ RevokedGone' /\ EndedStaysEnded'
  BY DEF SessionsInv, SlotsRecent, RevokedGone, EndedStaysEnded, tokenVars
<1>2. /\ slot' \in [Servers -> [at : Never .. time, list : SUBSET Hashes]]
      /\ cookies' \subseteq Cookie
      /\ \A c \in cookies' : c.expires \in LIFETIME .. time + LIFETIME /\ c.key = kept
      /\ admitted' \in [late : BOOLEAN, overdue : Int]
  BY DEF SessionsInv, SessionsTypeOK, KeyAgreed
<1> QED BY <1>1, <1>2, RequestStep

LEMMA QuietOpensNone == \A i : ~Opens(Quiet, i)
BY DEF Opens

LEMMA LeavesStep ==
  ASSUME SessionsInv, NEW b \in Browsers, Leaves(b), Fades,
         UNCHANGED <<time, tokenVars, keyVars, cookies, outages, admitted, slot>>
  PROVE  SessionsInv'
<1>1. browser' = [browser EXCEPT ![b] = Quiet] /\ Quiet \in Request \cup {Quiet}
  BY DEF Leaves
<1> QED BY <1>1, MovesStep, QuietOpensNone

LEMMA DropStep == \A b \in Browsers : SessionsInv /\ Drop(b) => SessionsInv'
BY LeavesStep, NothingFades DEF Drop, memory

\* What a request is that moves on.
LEMMA MovesTo ==
  ASSUME NEW r \in Request, NEW pc \in {"open", "list", "load", "loaded", "forge", "seal"},
         NEW q, q = [r EXCEPT !.pc = pc]
  PROVE  /\ q \in Request /\ q # Quiet /\ q.pc = pc
         /\ q.at = r.at /\ q.does = r.does /\ q.of = r.of /\ q.sealed = r.sealed
         /\ q.expires = r.expires /\ q.got = r.got /\ q.read = r.read /\ q.late = r.late
BY QuietIsNone DEF Request

LEMMA NeverIs == Never \in Int
BY DEF Never

LEMMA NewRequest ==
  ASSUME NEW pc \in {"open", "list", "load", "loaded", "forge", "seal"}, NEW s \in Servers,
         NEW does \in {"signs in", "views", "signs out"}, NEW x \in Hashes \cup Ids,
         NEW k \in Keys \cup {NoKey}, NEW t \in Int, NEW late \in BOOLEAN
  PROVE  [pc |-> pc, at |-> s, does |-> does, of |-> x, sealed |-> k, expires |-> t,
          got |-> {}, read |-> Never, late |-> late] \in Request
<1>1. {} \in SUBSET Hashes
  OBVIOUS
<1> QED BY <1>1, NeverIs DEF Request

LEMMA PresentStep ==
  \A b \in Browsers, s \in Servers, c \in cookies, does \in {"views", "signs out"} :
    SessionsInv /\ Present(b, s, c, does) => SessionsInv'
<1> SUFFICES ASSUME NEW b \in Browsers, NEW s \in Servers, NEW c \in cookies,
                    NEW does \in {"views", "signs out"}, SessionsInv, Present(b, s, c, does)
             PROVE  SessionsInv'
  OBVIOUS
<1>1. /\ c.key \in Keys /\ c.of \in Hashes \cup Ids /\ c.expires \in Int
      /\ (c.of \in ended \/ c.expires <= time) \in BOOLEAN
  BY DEF SessionsInv, SessionsTypeOK, Cookie
<1>2. PICK q : q = [pc |-> "open", at |-> s, does |-> does, of |-> c.of,
                    sealed |-> c.key, expires |-> c.expires, got |-> {}, read |-> Never,
                    late |-> c.of \in ended \/ c.expires <= time]
  OBVIOUS
<1>3. q \in Request
  BY <1>1, <1>2, NewRequest
<1>4. /\ browser' = [browser EXCEPT ![b] = q]
      /\ UNCHANGED <<time, tokenVars, keyVars, memory, cookies, outages, admitted>>
  BY <1>2 DEF Present, Begin
<1>5. RequestSound(q)'
  BY <1>2, <1>4 DEF RequestSound, memory
<1>6. \A i \in Ids : ~Opens(q, i)
  BY <1>2 DEF Opens
<1> QED BY <1>3, <1>4, <1>5, <1>6, MovesStep, NothingFades DEF memory

LEMMA SignInStep ==
  \A b \in Browsers, s \in Servers, x \in Hashes \cup Ids :
    SessionsInv /\ SignIn(b, s, x) => SessionsInv'
<1> SUFFICES ASSUME NEW b \in Browsers, NEW s \in Servers, NEW x \in Hashes \cup Ids,
                    SessionsInv, SignIn(b, s, x)
             PROVE  SessionsInv'
  OBVIOUS
<1>1. PICK q : q = [pc |-> IF x \in Hashes THEN "list" ELSE "forge", at |-> s,
                    does |-> "signs in", of |-> x, sealed |-> NoKey, expires |-> Never,
                    got |-> {}, read |-> Never, late |-> FALSE]
  OBVIOUS
<1>2. q \in Request /\ q # Quiet
  <2>1. (IF x \in Hashes THEN "list" ELSE "forge") \in {"list", "forge"}
    OBVIOUS
  <2>3. Never \in Int
    BY DEF Never
  <2>2. q \in Request
    BY <1>1, <2>1, <2>3, NewRequest
  <2> QED BY <2>2, QuietIsNone
<1>3. /\ browser[b] = Quiet
      /\ browser' = [browser EXCEPT ![b] = q]
      /\ UNCHANGED <<time, tokenVars, keyVars, memory, cookies, outages, admitted>>
  BY <1>1 DEF SignIn, Begin
<1>4. RequestSound(q)'
  BY <1>1 DEF RequestSound
<1>5. CASE x \in Hashes
  <2>1. \A i \in Ids : ~Opens(q, i)
    BY <1>1, <1>5 DEF Opens
  <2> QED BY <1>2, <1>3, <1>4, <2>1, MovesStep, NothingFades DEF memory
<1>6. CASE x \in Ids
  <2>0. browser \in [Browsers -> Request \cup {Quiet}]
    BY DEF SessionsInv, SessionsTypeOK
  <2>1. /\ x \notin ended /\ \A t \in Servers : held[t][x] = Never
        /\ \A a \in Browsers : ~Opens(browser[a], x)
    BY <1>6 DEF SignIn, Unused, Opens
  <2>2. SessionsTypeOK'
    <3>1. browser' \in [Browsers -> Request \cup {Quiet}]
      BY <1>2, <1>3, <2>0
    <3> QED BY <1>3, <3>1 DEF SessionsInv, SessionsTypeOK, tokenVars, keyVars, memory
  <2>3. KeyAgreed' /\ SlotsRecent' /\ HeldOnce' /\ RevokedGone' /\ EndedStaysEnded'
    BY <1>3
      DEF SessionsInv, KeyAgreed, SlotsRecent, HeldOnce, RevokedGone, EndedStaysEnded,
                tokenVars, keyVars, memory
  <2>4. \A a \in Browsers : browser'[a] = IF a = b THEN q ELSE browser[a]
    BY <1>3, <2>0
  <2>5. RequestsSound'
    <3> SUFFICES ASSUME NEW a \in Browsers, browser'[a] # Quiet PROVE RequestSound(browser[a])'
      BY DEF RequestsSound
    <3>1. CASE a = b
      BY <1>4, <2>4, <3>1 DEF RequestSound
    <3>2. CASE a # b
      <4>1. RequestSound(browser[a]) /\ browser'[a] = browser[a]
        BY <2>4, <3>2 DEF SessionsInv, RequestsSound
      <4> QED BY <1>3, <4>1 DEF RequestSound, tokenVars, memory
    <3> QED BY <3>1, <3>2
  <2>6. OpenedOnce'
    <3>1. \A i \in Ids : Opens(q, i) <=> i = x
      BY <1>1, <1>2, <1>6, SessionNumbers DEF Opens
    <3> SUFFICES ASSUME NEW a \in Browsers, NEW i \in Ids, Opens(browser'[a], i)
                 PROVE  /\ i \notin ended
                        /\ \A t \in Servers : held[t][i] = Never
                        /\ \A other \in Browsers : Opens(browser'[other], i) => other = a
      BY <1>3 DEF OpenedOnce, Opens, memory
    <3>2. CASE a = b
      <4>1. i = x
        BY <2>4, <3>1, <3>2
      <4> QED BY <2>1, <2>4, <3>2, <4>1
    <3>3. CASE a # b
      <4>1. Opens(browser[a], i)
        BY <2>4, <3>3
      <4>2. i # x
        BY <2>1, <4>1
      <4> QED BY <2>4, <3>1, <3>3, <4>1, <4>2 DEF SessionsInv, OpenedOnce
    <3> QED BY <3>2, <3>3
  <2> QED BY <2>2, <2>3, <2>5, <2>6 DEF SessionsInv
<1> QED BY <1>5, <1>6

LEMMA RequestOf ==
  ASSUME SessionsInv, NEW b \in Browsers, browser[b].pc # "quiet"
  PROVE  /\ browser[b] \in Request /\ browser[b] # Quiet
         /\ RequestSound(browser[b])
         /\ browser[b].at \in Servers /\ browser[b].of \in Hashes \cup Ids
         /\ browser[b].got \in SUBSET Hashes
<1>1. browser[b] \in Request
  BY QuietIsNone DEF SessionsInv, SessionsTypeOK
<1> QED BY <1>1, QuietIsNone DEF SessionsInv, RequestsSound, Request

\* Nothing is open that was not, and what is kept or handed out stays.
LEMMA OthersStay ==
  ASSUME SessionsInv, UNCHANGED <<time, tokenVars, keyVars>>
  PROVE  /\ UNCHANGED slot =>
              /\ slot' \in [Servers -> [at : Never .. time, list : SUBSET Hashes]]
              /\ SlotsRecent'
         /\ UNCHANGED cookies =>
              /\ cookies' \subseteq Cookie
              /\ \A c \in cookies' : c.expires \in LIFETIME .. time + LIFETIME /\ c.key = kept
         /\ UNCHANGED admitted =>
              /\ admitted' \in [late : BOOLEAN, overdue : Int]
              /\ RevokedGone' /\ EndedStaysEnded'
BY DEF SessionsInv, SessionsTypeOK, SlotsRecent, KeyAgreed, RevokedGone, EndedStaysEnded,
       tokenVars

LEMMA AdmitsStep ==
  ASSUME SessionsInv, NEW b \in Browsers, browser[b].pc \in {"list", "loaded", "forge"},
         browser[b].of \in Hashes =>
           browser[b].of \in issued \/ time - listed[browser[b].of] < EVERY + LoadTime,
         Admits(b), UNCHANGED <<time, tokenVars, keyVars, held, ended, cookies, outages>>,
         slot' \in [Servers -> [at : Never .. time, list : SUBSET Hashes]], SlotsRecent'
  PROVE  SessionsInv'
<1>1. RequestSound(browser[b]) /\ browser[b] \in Request
  BY RequestOf
<1>2. browser[b].late = FALSE
  BY <1>1 DEF RequestSound, Request
<1>3. /\ admitted'.late = FALSE
      /\ admitted'.overdue = IF browser[b].of \in Hashes \ issued
                               THEN time - listed[browser[b].of] ELSE 0
      /\ admitted' = [late |-> admitted'.late, overdue |-> admitted'.overdue]
      /\ browser' = [browser EXCEPT ![b] = Quiet]
  BY <1>2 DEF Admits, Leaves
<1>4. time \in Int /\ \A h \in Hashes : listed[h] \in Int
  BY SessionNumbers, NeverIs DEF SessionsInv, SessionsTypeOK
<1>5. admitted'.overdue \in Int /\ admitted'.overdue < EVERY + LoadTime
  BY <1>3, <1>4, SessionNumbers
<1>6. admitted' \in [late : BOOLEAN, overdue : Int] /\ RevokedGone' /\ EndedStaysEnded'
  BY <1>3, <1>5 DEF RevokedGone, EndedStaysEnded
<1>7. Fades
  <2>1. SessionsInv /\ held' = held /\ ended' = ended
    OBVIOUS
  <2> QED BY <2>1 DEF SessionsInv, SessionsTypeOK, Fades
<1> QED BY <1>3, <1>6, <1>7, OthersStay, QuietOpensNone, RequestStep

LEMMA JudgesStep ==
  ASSUME SessionsInv, NEW b \in Browsers, browser[b].pc \in {"list", "loaded"},
         NEW list, \A h \in list : h \in issued \/ time - listed[h] < EVERY + LoadTime,
         Judges(b, list),
         UNCHANGED <<time, tokenVars, keyVars, held, ended, cookies, outages>>,
         slot' \in [Servers -> [at : Never .. time, list : SUBSET Hashes]], SlotsRecent'
  PROVE  SessionsInv'
<1>0. Fades
  <2>1. SessionsInv /\ held' = held /\ ended' = ended
    OBVIOUS
  <2> QED BY <2>1 DEF SessionsInv, SessionsTypeOK, Fades
<1>1. CASE browser[b].of \notin list
  <2>1. browser' = [browser EXCEPT ![b] = Quiet] /\ UNCHANGED admitted
    BY <1>1 DEF Judges, Leaves
  <2> QED BY <1>0, <2>1, OthersStay, QuietOpensNone, RequestStep
<1>2. CASE browser[b].of \in list /\ browser[b].does = "views"
  BY <1>2, AdmitsStep DEF Judges
<1>3. CASE browser[b].of \in list /\ browser[b].does # "views"
  <2>1. browser' = [browser EXCEPT ![b].pc = "seal"] /\ UNCHANGED admitted
    BY <1>3 DEF Judges, Moves
  <2>2. browser[b] \in Request /\ RequestSound(browser[b])
    BY RequestOf
  <2>3. PICK q : q = [browser[b] EXCEPT !.pc = "seal"]
    OBVIOUS
  <2>4. /\ q \in Request /\ q # Quiet /\ q.pc = "seal" /\ q.late = browser[b].late
    BY <2>2, <2>3, MovesTo
  <2>5. browser' = [browser EXCEPT ![b] = q]
    BY <2>1, <2>3
  <2>6. RequestSound(q)' /\ \A i \in Ids : ~Opens(q, i)
    BY <2>2, <2>4 DEF RequestSound, Opens
  <2> QED BY <1>0, <2>1, <2>4, <2>5, <2>6, OthersStay, RequestStep
<1> QED BY <1>1, <1>2, <1>3

LEMMA OpenStep == \A b \in Browsers : SessionsInv /\ Open(b) => SessionsInv'
<1> SUFFICES ASSUME NEW b \in Browsers, SessionsInv, Open(b) PROVE SessionsInv'
  OBVIOUS
<1> DEFINE r == browser[b]
           s == r.at
           opens == r.sealed = key[s] /\ r.expires > time
<1>1. /\ r.pc = "open"
      /\ UNCHANGED <<time, tokenVars, keyVars, cookies, outages, admitted>>
  BY DEF Open
<1>2. r \in Request /\ RequestSound(r) /\ s \in Servers /\ r.of \in Hashes \cup Ids /\ r # Quiet
  BY <1>1, RequestOf
<1>3. CASE Leaves(b) /\ UNCHANGED memory
  BY <1>1, <1>3, LeavesStep, NothingFades DEF memory
<1>4. CASE Leaves(b) /\ Closed(s, r.of)
  BY <1>1, <1>2, <1>4, LeavesStep, ClosedFades
<1>5. ASSUME NEW pc \in {"list", "forge"}, Moves(b, pc), UNCHANGED memory, opens,
             r.does = "views", pc = "list" => r.of \in Hashes,
             pc = "forge" => r.of \in Ids /\ held[s][r.of] > time
      PROVE  SessionsInv'
  <2>1. PICK q : q = [r EXCEPT !.pc = pc]
    OBVIOUS
  <2>2. /\ q \in Request /\ q # Quiet /\ q.pc = pc /\ q.late = r.late /\ q.of = r.of
        /\ q.does = "views"
    BY <1>2, <1>5, <2>1, MovesTo
  <2>3. browser' = [browser EXCEPT ![b] = q]
    BY <1>5, <2>1 DEF Moves
  <2>4. ~r.late
    <3>1. time \in Nat /\ ended \subseteq Ids
      BY SessionNumbers DEF SessionsInv, SessionsTypeOK
    <3>2. r.expires \in Int /\ r.expires > time
      BY <1>2, <1>5 DEF Request
    <3>3. r.late => r.of \in ended
      BY <1>2, <3>1, <3>2 DEF RequestSound
    <3>4. CASE pc = "list"
      BY <1>5, <3>1, <3>3, <3>4, SessionNumbers
    <3>5. CASE pc = "forge"
      <4>1. r.of \in Ids /\ held[s][r.of] > time
        BY <1>5, <3>5
      <4>2. held[s][r.of] # Never
        BY <3>1, <4>1 DEF Never
      <4> QED BY <1>2, <3>3, <4>1, <4>2 DEF SessionsInv, HeldOnce
    <3> QED BY <3>4, <3>5
  <2>5. RequestSound(q)' /\ \A i \in Ids : ~Opens(q, i)
    BY <1>5, <2>2, <2>4 DEF RequestSound, Opens
  <2> QED BY <1>1, <1>5, <2>2, <2>3, <2>5, MovesStep, NothingFades DEF memory
<1> QED BY <1>1, <1>2, <1>3, <1>4, <1>5 DEF Open

LEMMA ClockAndLists ==
  ASSUME SessionsInv
  PROVE  /\ time \in Nat
         /\ \A h \in Hashes : listed[h] \in Int /\ listed[h] <= time
         /\ \A s \in Servers :
              /\ slot[s].at \in Int /\ slot[s].at <= time
              /\ slot[s].list \subseteq Hashes
              /\ slot[s] \in [at : Never .. time, list : SUBSET Hashes]
<1>1. /\ time \in 0 .. MaxTime
      /\ listed \in [Hashes -> Never .. time]
      /\ slot \in [Servers -> [at : Never .. time, list : SUBSET Hashes]]
  BY DEF SessionsInv, SessionsTypeOK
<1>2. time \in Nat
  BY <1>1, SessionNumbers
<1>3. \A n \in Never .. time : n \in Int /\ n <= time
  BY <1>2, NeverIs
<1> QED BY <1>1, <1>2, <1>3

LEMMA ListStep == \A b \in Browsers : SessionsInv /\ List(b) => SessionsInv'
<1> SUFFICES ASSUME NEW b \in Browsers, SessionsInv, List(b) PROVE SessionsInv'
  OBVIOUS
<1> DEFINE r == browser[b]
           s == r.at
<1>1. /\ r.pc = "list"
      /\ UNCHANGED <<time, tokenVars, keyVars, held, ended, cookies, outages>>
  BY DEF List
<1>2. r \in Request /\ RequestSound(r) /\ s \in Servers
  BY <1>1, RequestOf
<1>3. CASE Hit(b, s)
  <2>1. time - slot[s].at < EVERY /\ slot' = slot /\ Judges(b, slot[s].list)
    BY <1>3 DEF Hit
  <2>2. ASSUME NEW h \in slot[s].list
        PROVE  h \in issued \/ time - listed[h] < EVERY + LoadTime
    <3>1. h \in issued \/ listed[h] + LoadTime >= slot[s].at
      BY <1>2, <2>2 DEF SessionsInv, SlotsRecent
    <3>2. h \in Hashes
      BY <1>2, <2>2, ClockAndLists
    <3> QED BY <1>2, <2>1, <3>1, <3>2, ClockAndLists, SessionNumbers
  <2> QED BY <1>1, <2>1, <2>2, OthersStay, JudgesStep
<1>4. CASE Moves(b, "load") /\ UNCHANGED <<slot, admitted>>
  <2>1. PICK q : q = [r EXCEPT !.pc = "load"]
    OBVIOUS
  <2>2. /\ q \in Request /\ q # Quiet /\ q.pc = "load" /\ q.late = r.late
    BY <1>2, <2>1, MovesTo
  <2>3. browser' = [browser EXCEPT ![b] = q]
    BY <1>4, <2>1 DEF Moves
  <2>4. RequestSound(q)' /\ \A i \in Ids : ~Opens(q, i)
    BY <1>1, <1>2, <2>2 DEF RequestSound, Opens
  <2> QED BY <1>1, <1>4, <2>2, <2>3, <2>4, MovesStep, NothingFades DEF memory
<1> QED BY <1>3, <1>4 DEF List

LEMMA LoadStep == \A b \in Browsers : SessionsInv /\ Load(b) => SessionsInv'
<1> SUFFICES ASSUME NEW b \in Browsers, SessionsInv, Load(b) PROVE SessionsInv'
  OBVIOUS
<1> DEFINE r == browser[b]
<1>1. /\ r.pc = "load"
      /\ UNCHANGED <<time, tokenVars, keyVars, memory, cookies, outages, admitted>>
  BY DEF Load
<1>2. r \in Request /\ RequestSound(r)
  BY <1>1, RequestOf
<1>3. PICK q : q = [r EXCEPT !.pc = "loaded", !.got = issued, !.read = time]
  OBVIOUS
<1>4. /\ q \in Request /\ q.pc = "loaded" /\ q.got = issued /\ q.read = time
      /\ q.late = r.late
  <2>1. issued \subseteq Hashes /\ time \in Int
    BY ClockAndLists DEF SessionsInv, SessionsTypeOK
  <2> QED BY <1>2, <1>3, <2>1 DEF Request
<1>5. browser' = [browser EXCEPT ![b] = q]
  BY <1>3 DEF Load
<1>6. RequestSound(q)'
  BY <1>1, <1>2, <1>4, ClockAndLists, SessionNumbers DEF RequestSound, tokenVars
<1>7. \A i \in Ids : ~Opens(q, i)
  BY <1>4 DEF Opens
<1> QED BY <1>1, <1>4, <1>5, <1>6, <1>7, MovesStep, NothingFades DEF memory

LEMMA LoadedStep == \A b \in Browsers : SessionsInv /\ Loaded(b) => SessionsInv'
<1> SUFFICES ASSUME NEW b \in Browsers, SessionsInv, Loaded(b) PROVE SessionsInv'
  OBVIOUS
<1> DEFINE r == browser[b]
           s == r.at
<1>1. /\ r.pc = "loaded" /\ Judges(b, r.got)
      /\ slot' = [slot EXCEPT ![s] = [at |-> time, list |-> r.got]]
      /\ UNCHANGED <<time, tokenVars, keyVars, held, ended, cookies, outages>>
  BY DEF Loaded
<1>2. r \in Request /\ RequestSound(r) /\ s \in Servers /\ r.got \in SUBSET Hashes
  BY <1>1, RequestOf
<1>3. r.read \in Int
  BY <1>2 DEF Request
<1>4. ASSUME NEW h \in r.got
      PROVE  /\ h \in issued \/ time - listed[h] < EVERY + LoadTime
             /\ h \in issued \/ listed[h] + LoadTime >= time
  <2>1. h \in issued \/ (listed[h] >= r.read /\ time - r.read <= LoadTime)
    BY <1>1, <1>2, <1>4 DEF RequestSound
  <2>2. h \in Hashes
    BY <1>2, <1>4
  <2> QED BY <1>3, <2>1, <2>2, ClockAndLists, SessionNumbers
<1>5. slot' \in [Servers -> [at : Never .. time, list : SUBSET Hashes]]
  <2>1. time \in Never .. time
    BY ClockAndLists DEF Never
  <2> QED BY <1>1, <1>2, <2>1 DEF SessionsInv, SessionsTypeOK
<1>6. SlotsRecent'
  <2> SUFFICES ASSUME NEW t \in Servers, NEW h \in slot'[t].list
               PROVE  h \in issued \/ listed[h] + LoadTime >= slot'[t].at
    BY <1>1 DEF SlotsRecent, tokenVars
  <2>1. slot \in [Servers -> [at : Never .. time, list : SUBSET Hashes]]
    BY DEF SessionsInv, SessionsTypeOK
  <2>2. CASE t = s
    BY <1>1, <1>2, <1>4, <2>1, <2>2
  <2>3. CASE t # s
    <3>1. slot'[t] = slot[t]
      BY <1>1, <2>1, <2>3
    <3> QED BY <3>1 DEF SessionsInv, SlotsRecent
  <2> QED BY <2>2, <2>3
<1> QED BY <1>1, <1>4, <1>5, <1>6, JudgesStep

LEMMA SealStep == \A b \in Browsers : SessionsInv /\ Seal(b) => SessionsInv'
<1> SUFFICES ASSUME NEW b \in Browsers, SessionsInv, Seal(b) PROVE SessionsInv'
  OBVIOUS
<1> DEFINE r == browser[b]
<1>1. /\ r.pc = "seal" /\ key[r.at] # NoKey
      /\ cookies' = cookies \cup {[key |-> key[r.at], of |-> r.of, expires |-> time + LIFETIME]}
      /\ browser' = [browser EXCEPT ![b] = Quiet]
      /\ UNCHANGED <<time, tokenVars, keyVars, memory, outages, admitted>>
  BY DEF Seal, Leaves
<1>2. r.at \in Servers /\ r.of \in Hashes \cup Ids
  BY <1>1, RequestOf
<1>3. key[r.at] \in Keys /\ key[r.at] = kept
  BY <1>1, <1>2 DEF SessionsInv, SessionsTypeOK, KeyAgreed
<1>4. time + LIFETIME \in Int /\ time + LIFETIME \in LIFETIME .. time + LIFETIME
  BY ClockAndLists, SessionNumbers
<1>5. /\ cookies' \subseteq Cookie
      /\ \A c \in cookies' : c.expires \in LIFETIME .. time + LIFETIME /\ c.key = kept
  <2>1. \A c \in cookies :
          c \in Cookie /\ c.expires \in LIFETIME .. time + LIFETIME /\ c.key = kept
    BY DEF SessionsInv, SessionsTypeOK, KeyAgreed
  <2>2. PICK c : c = [key |-> key[r.at], of |-> r.of, expires |-> time + LIFETIME]
    OBVIOUS
  <2>3. c \in Cookie /\ c.expires = time + LIFETIME /\ c.key = kept
    BY <1>2, <1>3, <1>4, <2>2 DEF Cookie
  <2>4. cookies' = cookies \cup {c}
    BY <1>1, <2>2
  <2> QED BY <1>4, <2>1, <2>3, <2>4
<1> QED BY <1>1, <1>5, OthersStay, QuietOpensNone, NothingFades, RequestStep DEF memory

LEMMA ForgeRefusesStep == \A b \in Browsers : SessionsInv /\ ForgeRefuses(b) => SessionsInv'
<1> SUFFICES ASSUME NEW b \in Browsers, SessionsInv, ForgeRefuses(b) PROVE SessionsInv'
  OBVIOUS
<1>1. /\ browser[b].pc = "forge" /\ Leaves(b)
      /\ Closed(browser[b].at, browser[b].of) \/ UNCHANGED memory
      /\ UNCHANGED <<time, tokenVars, keyVars, cookies, outages, admitted>>
  BY DEF ForgeRefuses
<1>2. browser[b].at \in Servers /\ browser[b].of \in Hashes \cup Ids
  BY <1>1, RequestOf
<1>3. Fades /\ UNCHANGED slot
  BY <1>1, <1>2, ClosedFades, NothingFades DEF memory
<1> QED BY <1>1, <1>3, LeavesStep

LEMMA SecondStep == SessionsInv /\ Second => SessionsInv'
<1> SUFFICES ASSUME SessionsInv, Second PROVE SessionsInv'
  OBVIOUS
<1>1. /\ time < MaxTime /\ time' = time + 1
      /\ \A b \in Browsers : browser[b].pc = "loaded" => time - browser[b].read < LoadTime
      /\ UNCHANGED <<tokenVars, keyVars, memory, cookies, browser, outages, admitted>>
  BY DEF Second
<1>2. \A n : n \in Never .. time => n \in Never .. time'
  BY <1>1, ClockAndLists, NeverIs
<1>3. SessionsTypeOK'
  <2>1. time' \in 0 .. MaxTime
    BY <1>1, ClockAndLists, SessionNumbers
  <2>2. slot' \in [Servers -> [at : Never .. time', list : SUBSET Hashes]]
        /\ listed' \in [Hashes -> Never .. time']
    BY <1>1, <1>2 DEF SessionsInv, SessionsTypeOK, tokenVars, memory
  <2>3. held' \in [Servers -> [Ids -> Never .. time' + LIFETIME]]
    <3>1. \A n : n \in Never .. time + LIFETIME => n \in Never .. time' + LIFETIME
      BY <1>1, ClockAndLists, NeverIs, SessionNumbers
    <3> QED BY <1>1, <3>1 DEF SessionsInv, SessionsTypeOK, memory
  <2>4. \A c \in cookies' : c.expires \in LIFETIME .. time' + LIFETIME
    BY <1>1, ClockAndLists, SessionNumbers DEF SessionsInv, SessionsTypeOK
  <2> QED BY <1>1, <2>1, <2>2, <2>3, <2>4
          DEF SessionsInv, SessionsTypeOK, tokenVars, keyVars, memory
<1>4. RequestsSound'
  <2> SUFFICES ASSUME NEW b \in Browsers, browser[b] # Quiet PROVE RequestSound(browser[b])'
    BY <1>1 DEF RequestsSound
  <2>1. browser[b] \in Request /\ RequestSound(browser[b])
    BY DEF SessionsInv, SessionsTypeOK, RequestsSound
  <2>2. browser[b].read \in Int /\ browser[b].expires \in Int
    BY <2>1 DEF Request
  <2> QED BY <1>1, <2>1, <2>2, ClockAndLists, SessionNumbers
          DEF RequestSound, tokenVars, memory
<1>5. KeyAgreed' /\ SlotsRecent' /\ OpenedOnce' /\ HeldOnce' /\ RevokedGone' /\ EndedStaysEnded'
  BY <1>1
    DEF SessionsInv, KeyAgreed, SlotsRecent, OpenedOnce, Opens, HeldOnce, RevokedGone,
              EndedStaysEnded, tokenVars, keyVars, memory
<1> QED BY <1>3, <1>4, <1>5 DEF SessionsInv

\* A session is held by the replica that opens it, and by no other.
LEMMA ForgeAcceptsStep == \A b \in Browsers : SessionsInv /\ ForgeAccepts(b) => SessionsInv'
<1> SUFFICES ASSUME NEW b \in Browsers, SessionsInv, ForgeAccepts(b) PROVE SessionsInv'
  OBVIOUS
<1> DEFINE r == browser[b]
           x == r.of
<1>1. r.pc = "forge" /\ UNCHANGED <<time, tokenVars, keyVars, cookies, outages>>
  BY DEF ForgeAccepts
<1>2. r \in Request /\ RequestSound(r) /\ r.at \in Servers /\ r # Quiet
  BY <1>1, RequestOf
<1>3. x \in Ids
  BY <1>1, <1>2 DEF RequestSound
<1>4. CASE r.does = "views"
  <2>1. Admits(b) /\ UNCHANGED memory
    BY <1>4 DEF ForgeAccepts
  <2> QED BY <1>1, <1>3, <2>1, SessionNumbers, OthersStay, AdmitsStep DEF memory
<1>5. CASE r.does # "views"
  <2>0. /\ browser \in [Browsers -> Request \cup {Quiet}]
        /\ held \in [Servers -> [Ids -> Never .. time + LIFETIME]]
    BY DEF SessionsInv, SessionsTypeOK
  <2>2. PICK q : q = [r EXCEPT !.pc = "seal"]
    OBVIOUS
  <2>3. q \in Request /\ q # Quiet /\ q.pc = "seal" /\ q.late = r.late /\ q.does = r.does
    BY <1>2, <2>2, MovesTo
  <2>4. /\ browser' = [browser EXCEPT ![b] = q]
        /\ held' = [held EXCEPT ![r.at] = [i \in Ids |->
             IF i = x THEN time + LIFETIME
             ELSE IF @[i] > time THEN @[i] ELSE Never]]
        /\ UNCHANGED <<slot, ended, admitted>>
    BY <1>5, <2>2 DEF ForgeAccepts, Moves
  <2>5. \A s \in Servers : \A i \in Ids :
          held'[s][i] = IF s # r.at THEN held[s][i]
                        ELSE IF i = x THEN time + LIFETIME
                        ELSE IF held[s][i] > time THEN held[s][i] ELSE Never
    BY <1>2, <2>0, <2>4
  <2>6. held' \in [Servers -> [Ids -> Never .. time + LIFETIME]]
    <3>1. Never \in Never .. time + LIFETIME /\ time + LIFETIME \in Never .. time + LIFETIME
      BY ClockAndLists, SessionNumbers DEF Never
    <3>2. \A i \in Ids : held[r.at][i] \in Never .. time + LIFETIME
      BY <1>2, <2>0
    <3>3. [i \in Ids |-> IF i = x THEN time + LIFETIME
                          ELSE IF held[r.at][i] > time THEN held[r.at][i] ELSE Never]
             \in [Ids -> Never .. time + LIFETIME]
      BY <3>1, <3>2
    <3> QED BY <1>2, <2>0, <2>4, <3>3
  <2>7. SessionsTypeOK'
    <3>1. browser' \in [Browsers -> Request \cup {Quiet}]
      BY <2>0, <2>3, <2>4
    <3> QED BY <1>1, <2>4, <2>6, <3>1
      DEF SessionsInv, SessionsTypeOK, tokenVars, keyVars
  <2>8. KeyAgreed' /\ SlotsRecent' /\ RevokedGone' /\ EndedStaysEnded'
    BY <1>1, <2>4 DEF SessionsInv, KeyAgreed, SlotsRecent, RevokedGone, EndedStaysEnded,
                      tokenVars, keyVars
  <2>9. \A a \in Browsers : browser'[a] = IF a = b THEN q ELSE browser[a]
    BY <2>0, <2>4
  <2>10. RequestsSound'
    <3> SUFFICES ASSUME NEW a \in Browsers, browser'[a] # Quiet PROVE RequestSound(browser[a])'
      BY DEF RequestsSound
    <3>1. CASE a = b
      BY <1>1, <1>2, <2>3, <2>9, <3>1 DEF RequestSound
    <3>2. CASE a # b
      <4>1. RequestSound(browser[a]) /\ browser'[a] = browser[a]
        BY <2>9, <3>2 DEF SessionsInv, RequestsSound
      <4> QED BY <1>1, <2>4, <4>1 DEF RequestSound, tokenVars
    <3> QED BY <3>1, <3>2
  <2>11. Opens(r, x)
    BY <1>1, <1>2, <1>5 DEF Opens
  <2>12. /\ x \notin ended /\ \A s \in Servers : held[s][x] = Never
         /\ \A a \in Browsers : Opens(browser[a], x) => a = b
    BY <1>3, <2>11 DEF SessionsInv, OpenedOnce
  <2>13. OpenedOnce'
    <3> SUFFICES ASSUME NEW a \in Browsers, NEW i \in Ids, Opens(browser'[a], i)
                 PROVE  /\ i \notin ended
                        /\ \A s \in Servers : held'[s][i] = Never
                        /\ \A other \in Browsers : Opens(browser'[other], i) => other = a
      BY <2>4 DEF OpenedOnce, Opens
    <3>1. a # b /\ Opens(browser[a], i)
      BY <2>3, <2>9 DEF Opens
    <3>2. i # x
      BY <2>12, <3>1
    <3>3. \A other \in Browsers : Opens(browser'[other], i) => Opens(browser[other], i)
      BY <2>3, <2>9 DEF Opens
    <3>4. /\ i \notin ended /\ \A s \in Servers : held[s][i] = Never
          /\ \A other \in Browsers : Opens(browser[other], i) => other = a
      BY <3>1 DEF SessionsInv, OpenedOnce
    <3> QED BY <2>5, <3>2, <3>3, <3>4
  <2>14. HeldOnce'
    <3> SUFFICES ASSUME NEW i \in Ids, NEW s \in Servers, held'[s][i] # Never
                 PROVE  i \notin ended /\ \A t \in Servers : held'[t][i] # Never => t = s
      BY <2>4 DEF HeldOnce
    <3>1. CASE i = x
      BY <2>5, <2>12, <3>1
    <3>2. CASE i # x
      <4>1. \A t \in Servers : held'[t][i] # Never => held[t][i] # Never
        BY <2>5, <3>2
      <4> QED BY <4>1 DEF SessionsInv, HeldOnce
    <3> QED BY <3>1, <3>2
  <2> QED BY <2>7, <2>8, <2>10, <2>13, <2>14 DEF SessionsInv
<1> QED BY <1>4, <1>5

LEMMA OutageStep == \A s \in Servers : SessionsInv /\ Outage(s) => SessionsInv'
<1> SUFFICES ASSUME NEW s \in Servers, SessionsInv, Outage(s) PROVE SessionsInv'
  OBVIOUS
<1>0. /\ browser \in [Browsers -> Request \cup {Quiet}]
      /\ held \in [Servers -> [Ids -> Never .. time + LIFETIME]]
      /\ key \in [Servers -> Keys \cup {NoKey}]
      /\ slot \in [Servers -> [at : Never .. time, list : SUBSET Hashes]]
      /\ outages \in 0 .. MaxOutages
  BY DEF SessionsInv, SessionsTypeOK
<1>1. /\ outages < MaxOutages /\ outages' = outages + 1
      /\ key' = [key EXCEPT ![s] = NoKey]
      /\ keying' = [keying EXCEPT ![s] = "none"]
      /\ slot' = [slot EXCEPT ![s] = NoList]
      /\ ended' = ended \cup {i \in Ids : held[s][i] # Never}
      /\ held' = [held EXCEPT ![s] = [i \in Ids |-> Never]]
      /\ UNCHANGED <<time, tokenVars, kept, cookies, admitted>>
  BY DEF Outage
<1>2. \A a \in Browsers : browser'[a] = browser[a] \/ browser'[a] = Quiet
  BY DEF Outage
<1>3. Never \in Never .. time + LIFETIME /\ Never \in Never .. time
  BY ClockAndLists, SessionNumbers DEF Never
<1>4. \A t \in Servers : \A i \in Ids : held'[t][i] = IF t = s THEN Never ELSE held[t][i]
  BY <1>0, <1>1
<1>5. SessionsTypeOK'
  <2>1. browser' \in [Browsers -> Request \cup {Quiet}]
    BY <1>0 DEF Outage
  <2>2. held' \in [Servers -> [Ids -> Never .. time + LIFETIME]]
    BY <1>0, <1>1, <1>3
  <2>3. slot' \in [Servers -> [at : Never .. time, list : SUBSET Hashes]]
    <3>1. NoList \in [at : Never .. time, list : SUBSET Hashes]
      BY <1>3 DEF NoList
    <3> QED BY <1>0, <1>1, <3>1
  <2>4. outages' \in 0 .. MaxOutages
    BY <1>0, <1>1, SessionNumbers
  <2>5. ended' \subseteq Ids /\ key' \in [Servers -> Keys \cup {NoKey}]
        /\ keying' \in [Servers -> {"none", "create", "reread"}]
    BY <1>0, <1>1 DEF SessionsInv, SessionsTypeOK
  <2> QED BY <1>1, <2>1, <2>2, <2>3, <2>4, <2>5
    DEF SessionsInv, SessionsTypeOK, tokenVars
<1>6. KeyAgreed' /\ RevokedGone' /\ EndedStaysEnded'
  BY <1>0, <1>1 DEF SessionsInv, KeyAgreed, RevokedGone, EndedStaysEnded
<1>7. SlotsRecent'
  BY <1>0, <1>1 DEF SessionsInv, SlotsRecent, NoList, tokenVars
<1>8. RequestsSound'
  <2> SUFFICES ASSUME NEW a \in Browsers, browser'[a] # Quiet PROVE RequestSound(browser[a])'
    BY DEF RequestsSound
  <2>1. browser'[a] = browser[a] /\ RequestSound(browser[a])
    BY <1>2 DEF SessionsInv, RequestsSound
  <2> QED BY <1>1, <2>1 DEF RequestSound, tokenVars
<1>9. HeldOnce'
  BY <1>1, <1>4 DEF SessionsInv, HeldOnce
<1>10. OpenedOnce'
  <2> SUFFICES ASSUME NEW a \in Browsers, NEW i \in Ids, Opens(browser'[a], i)
               PROVE  /\ i \notin ended'
                      /\ \A t \in Servers : held'[t][i] = Never
                      /\ \A other \in Browsers : Opens(browser'[other], i) => other = a
    BY DEF OpenedOnce, Opens
  <2>1. \A other \in Browsers : Opens(browser'[other], i) => Opens(browser[other], i)
    BY <1>2, QuietOpensNone
  <2>2. /\ i \notin ended /\ \A t \in Servers : held[t][i] = Never
        /\ \A other \in Browsers : Opens(browser[other], i) => other = a
    BY <2>1 DEF SessionsInv, OpenedOnce
  <2> QED BY <1>1, <1>4, <2>1, <2>2
<1> QED BY <1>5, <1>6, <1>7, <1>8, <1>9, <1>10 DEF SessionsInv

\* The invariant: what is kept of the store's list was true not long before, and an
\* id that ended is nowhere, in every state.
THEOREM SessionsInvariant == SessionsSpec => []SessionsInv
<1>1. SessionsInit => SessionsInv
  BY SessionsInitHolds
<1>2. SessionsInv /\ [SessionsNext]_sessionVars => SessionsInv'
  <2> SUFFICES ASSUME SessionsInv, [SessionsNext]_sessionVars PROVE SessionsInv'
    OBVIOUS
  <2>1. CASE UNCHANGED sessionVars
    <3>1. SessionsTypeOK'
      BY <2>1 DEF SessionsInv, SessionsTypeOK, sessionVars, tokenVars, keyVars, memory
    <3>2. KeyAgreed' /\ SlotsRecent' /\ OpenedOnce' /\ HeldOnce' /\ RevokedGone'
          /\ EndedStaysEnded' /\ RequestsSound'
      BY <2>1
        DEF SessionsInv, KeyAgreed, SlotsRecent, RequestsSound, RequestSound, OpenedOnce,
                  Opens, HeldOnce, RevokedGone, EndedStaysEnded, sessionVars, tokenVars, keyVars,
                  memory
    <3> QED BY <3>1, <3>2 DEF SessionsInv
  <2>2. CASE SessionsNext
    BY <2>2, CommandReadsStep, CommandWritesStep, KeysStep, OutageStep, SignInStep, PresentStep,
       OpenStep, ListStep, LoadStep, LoadedStep, SealStep, DropStep, ForgeAcceptsStep,
       ForgeRefusesStep, SecondStep DEF SessionsNext
  <2> QED BY <2>1, <2>2
<1> QED BY <1>1, <1>2, PTL DEF SessionsSpec

\* For any number of replicas, whichever of them makes the key and whatever fails
\* meanwhile, all seal with the key that is kept (session.rs 66-86).
THEOREM OneKey == SessionsSpec => []KeyAgreed
<1>1. SessionsInv => KeyAgreed
  BY DEF SessionsInv
<1> QED BY <1>1, SessionsInvariant, PTL

\* However many replicas and requests ask for a token that the store no longer
\* lists, none of them is let in once a list kept and the time to load one are
\* over (tokens.rs 118-147).
THEOREM RevokedTokensGone == SessionsSpec => []RevokedGone
<1>1. SessionsInv => RevokedGone
  BY DEF SessionsInv
<1> QED BY <1>1, SessionsInvariant, PTL

\* What a command that runs alone has read is what is issued, and a token that was
\* revoked has been listed once: it is never made again.
CommandAlone ==
  /\ RevokedStays
  /\ \A h \in revoked : listed[h] # Never
  /\ \A c \in Commands : command[c] # Quiet =>
       /\ command[c].got = issued
       /\ command[c].does = "creates" => command[c].hash \notin revoked
       /\ command[c].does = "revokes" => command[c].hash \in issued

\* It reads, and nothing is written before it writes.
LEMMA CommandReadsAlone ==
  ASSUME SessionsInv, CommandAlone, \A c, d \in Commands : c = d,
         NEW c \in Commands, NEW h \in Hashes, CommandReads(c, h)
  PROVE  CommandAlone'
<1>1. UNCHANGED <<issued, listed, revoked>>
  BY DEF CommandReads
<1>2. PICK does \in {"creates", "revokes"} :
        /\ IF does = "creates" THEN Fresh(h) ELSE h \in issued
        /\ command' = [command EXCEPT ![c] = [got |-> issued, hash |-> h, does |-> does]]
  BY DEF CommandReads
<1>3. command'[c] = [got |-> issued, hash |-> h, does |-> does]
  BY <1>2 DEF SessionsInv, SessionsTypeOK
<1>4. does = "creates" => h \notin revoked
  BY <1>2 DEF Fresh, CommandAlone
<1>5. does = "revokes" => h \in issued
  BY <1>2
<1> QED BY <1>1, <1>3, <1>4, <1>5 DEF CommandAlone, RevokedStays

\* It writes what it read, but for its own token.
LEMMA CommandWritesAlone ==
  ASSUME SessionsInv, CommandAlone, \A c, d \in Commands : c = d,
         NEW c \in Commands, CommandWrites(c)
  PROVE  CommandAlone'
<1>1. command[c] \in Command /\ command[c] # Quiet
  BY DEF CommandWrites, SessionsInv, SessionsTypeOK
<1>2. PICK h : h = command[c].hash
  OBVIOUS
<1>3. h \in Hashes /\ command[c].does \in {"creates", "revokes"} /\ command[c].got = issued
  BY <1>1, <1>2 DEF Command, CommandAlone
<1>4. command'[c] = Quiet
  BY DEF CommandWrites, SessionsInv, SessionsTypeOK
<1>5. \/ /\ command[c].does = "creates" /\ h \notin revoked
         /\ issued' = issued \cup {h} /\ revoked' = revoked
      \/ /\ command[c].does = "revokes" /\ h \in issued
         /\ issued' = issued \ {h} /\ revoked' = revoked \cup {h}
  BY <1>1, <1>2, <1>3 DEF CommandWrites, Edited, CommandAlone
<1>6. RevokedStays'
  BY <1>5 DEF CommandAlone, RevokedStays
<1>7. ASSUME NEW x \in revoked' PROVE listed'[x] # Never
  <2>1. time \in Nat /\ x \in Hashes
    BY <1>3, <1>5, SessionNumbers DEF SessionsInv, SessionsTypeOK
  <2>2. listed'[x] = IF x \in issued \cup issued' THEN time ELSE listed[x]
    BY <2>1 DEF CommandWrites
  <2>3. x \in issued \/ listed[x] # Never
    BY <1>5 DEF CommandAlone
  <2> QED BY <2>1, <2>2, <2>3 DEF Never
<1> QED BY <1>4, <1>6, <1>7 DEF CommandAlone

\* "Revoking a token ends the sessions it opened" (docs/dashboard.md) for as long as no
\* two commands edit the list at a time: a token that was revoked is not issued again.
THEOREM RevokedStaysAlone ==
  (\A c, d \in Commands : c = d) => (SessionsSpec => []RevokedStays)
<1> SUFFICES ASSUME \A c, d \in Commands : c = d PROVE SessionsSpec => []RevokedStays
  OBVIOUS
<1>1. SessionsInit => CommandAlone
  BY DEF SessionsInit, CommandAlone, RevokedStays
<1>2. SessionsInv /\ CommandAlone /\ [SessionsNext]_sessionVars => CommandAlone'
  <2> SUFFICES ASSUME SessionsInv, CommandAlone, [SessionsNext]_sessionVars
               PROVE  CommandAlone'
    OBVIOUS
  <2>1. \/ \E c \in Commands, h \in Hashes : CommandReads(c, h)
        \/ \E c \in Commands : CommandWrites(c)
        \/ UNCHANGED tokenVars
    <3>1. ASSUME NEW s \in Servers,
                 \/ KeyRead(s) \/ KeyReread(s) \/ KeyFails(s) \/ Outage(s)
                 \/ \E k \in Keys : KeyCreate(s, k)
          PROVE  UNCHANGED tokenVars
      BY <3>1 DEF KeyRead, KeyReread, KeyFails, Outage, KeyCreate
    <3>2. ASSUME NEW b \in Browsers, NEW s \in Servers,
                 \/ \E x \in Hashes \cup Ids : SignIn(b, s, x)
                 \/ \E c \in cookies, does \in {"views", "signs out"} : Present(b, s, c, does)
          PROVE  UNCHANGED tokenVars
      BY <3>2 DEF SignIn, Present, Begin
    <3>3. ASSUME NEW b \in Browsers,
                 \/ Open(b) \/ List(b) \/ Load(b) \/ Loaded(b) \/ Seal(b) \/ Drop(b)
                 \/ ForgeAccepts(b) \/ ForgeRefuses(b)
          PROVE  UNCHANGED tokenVars
      BY <3>3 DEF Open, List, Load, Loaded, Seal, Drop, ForgeAccepts, ForgeRefuses
    <3> QED BY <3>1, <3>2, <3>3 DEF SessionsNext, Second, sessionVars
  <2>2. CASE UNCHANGED tokenVars
    BY <2>2 DEF CommandAlone, RevokedStays, tokenVars
  <2> QED BY <2>1, <2>2, CommandReadsAlone, CommandWritesAlone
<1>3. CommandAlone => RevokedStays
  BY DEF CommandAlone
<1> QED BY <1>1, <1>2, <1>3, SessionsInvariant, PTL DEF SessionsSpec

\* A session that ended lets in nobody who comes later, for any number of requests
\* of it under way when it did (session.rs 149-162, 250-264).
THEOREM EndedSessionsGone == SessionsSpec => []EndedStaysEnded
<1>1. SessionsInv => EndedStaysEnded
  BY DEF SessionsInv
<1> QED BY <1>1, SessionsInvariant, PTL

-----------------------------------------------------------------------------
(* Quota: what a measurement comes to, with all it has still to ask for,   *)
(* is measured against what was held at its listing; from then on the      *)
(* figure and the histories grow older together.                           *)

\* A figure is as old as its listing, give or take the measurement; one that lets
\* a push through and is sound is not older than the last instant at which one
\* fitted, and one that refuses it than the last at which none did, unless
\* something was added.
FigureSound(f, fits, full) ==
  f # NoFigure =>
    /\ f.age < UsageTTL
    /\ f.listed <= f.age + Measuring
    /\ f.sound /\ f.bytes + Size <= Limit => fits <= f.listed
    /\ f.bytes + Size > Limit => f.grown \/ full <= f.listed

\* What a measurement comes to at the most.
Comes(q) == q.bytes + Size * Cardinality(q.todo)

\* The same of what is being measured; a push that writes has an object.
PushSound(q, fits, full) ==
  /\ q.pc = "sizing" =>
       /\ IsFiniteSet(q.todo)
       /\ q.listed <= Measuring
       /\ q.sound /\ Comes(q) + Size <= Limit => fits <= q.listed
       /\ Comes(q) + Size > Limit => full <= q.listed
  /\ q.pc \in {"mark", "size", "note"} => q.oid \in Objects

\* The histories tell now from then.
NowKnown ==
  /\ Fits => fitted = 0
  /\ ~Fits => filled = 0

QuotaInv ==
  /\ QuotaTypeOK
  /\ IsFiniteSet(holds)
  /\ NowKnown
  /\ \A h \in Hosts : FigureSound(figure[h], fitted, filled)
  /\ \A p \in Pushes : PushSound(push[p], fitted, filled)

LEMMA QuotaNumbers ==
  /\ Size \in Nat /\ Size > 0 /\ Limit \in Nat /\ UsageTTL \in Nat /\ UsageTTL > 0
  /\ Measuring \in Nat /\ MaxPushed \in Nat /\ MaxSwept \in Nat /\ MaxFailed \in Nat
  /\ Lag \in Nat /\ Lag = UsageTTL + Measuring
  /\ Sizeless \subseteq Objects /\ IsFiniteSet(Sizeless)
BY QuotaConstantsOK DEF Lag

LEMMA Bytes ==
  /\ \A n \in Nat : Size * n \in Nat
  /\ \A n \in Nat : Size * (n + 1) = Size * n + Size
  /\ \A m, n \in Nat : Size * (m + n) = Size * m + Size * n
  /\ \A m, n \in Nat : m <= n => Size * m <= Size * n
  /\ Size * 0 = 0
<1>1. Size \in Nat
  BY QuotaNumbers
<1> QED BY <1>1

LEMMA NoneIsNone ==
  /\ NoPush \notin Push /\ NoPush.pc = "idle" /\ NoFigure \notin Figure
BY DEF NoPush, Push, NoFigure, Figure

LEMMA OlderIs ==
  ASSUME NEW n \in 0 .. Lag
  PROVE  Older(n) \in 0 .. Lag /\ n <= Older(n) /\ Older(n) <= n + 1
BY QuotaNumbers DEF Older

LEMMA OlderInOrder ==
  ASSUME NEW m \in 0 .. Lag, NEW n \in 0 .. Lag, m <= n
  PROVE  Older(m) <= Older(n)
BY QuotaNumbers DEF Older

\* What holds of the histories holds of shorter ones.
LEMMA ShorterStays ==
  ASSUME NEW a \in 0 .. Lag, NEW b \in 0 .. Lag, NEW c \in 0 .. Lag, NEW d \in 0 .. Lag,
         c <= a, d <= b
  PROVE  /\ \A f \in Figure \cup {NoFigure} : FigureSound(f, a, b) => FigureSound(f, c, d)
         /\ \A q \in Push \cup {NoPush} : PushSound(q, a, b) => PushSound(q, c, d)
<1>1. \A f \in Figure \cup {NoFigure} : FigureSound(f, a, b) => FigureSound(f, c, d)
  <2> SUFFICES ASSUME NEW f \in Figure, FigureSound(f, a, b) PROVE FigureSound(f, c, d)
    BY DEF FigureSound
  <2>1. f.listed \in 0 .. Lag
    BY DEF Figure
  <2> QED BY <2>1, QuotaNumbers DEF FigureSound
<1>2. \A q \in Push \cup {NoPush} : PushSound(q, a, b) => PushSound(q, c, d)
  <2> SUFFICES ASSUME NEW q \in Push, PushSound(q, a, b) PROVE PushSound(q, c, d)
    BY NoneIsNone DEF PushSound
  <2>1. q.listed \in 0 .. Lag
    BY DEF Push
  <2> QED BY <2>1, QuotaNumbers DEF PushSound
<1> QED BY <1>1, <1>2

\* How the histories go on while no time passes.
HistoriesGoOn ==
  /\ fitted' = IF Fits' THEN 0 ELSE fitted
  /\ filled' = IF Fits' THEN filled ELSE 0

\* A step of pushes and figures.
LEMMA StepKeeps ==
  ASSUME QuotaInv, HistoriesGoOn,
         holds' \in SUBSET Objects, IsFiniteSet(holds'),
         sizes' \in SUBSET (Objects \X {0, Size}),
         sweep' \in [pc : {"drop"}, host : Hosts, todo : SUBSET Objects] \cup {NoSweep},
         spent' \in [pushes : 0 .. MaxPushed, sweeps : 0 .. MaxSwept, failures : 0 .. MaxFailed],
         figure' \in [Hosts -> Figure \cup {NoFigure}],
         push' \in [Pushes -> Push \cup {NoPush}],
         \A h \in Hosts : FigureSound(figure'[h], fitted, filled),
         \A p \in Pushes : PushSound(push'[p], fitted, filled)
  PROVE  QuotaInv'
<1>1. /\ fitted \in 0 .. Lag /\ filled \in 0 .. Lag
      /\ fitted' \in 0 .. Lag /\ filled' \in 0 .. Lag /\ fitted' <= fitted /\ filled' <= filled
  BY QuotaNumbers DEF QuotaInv, QuotaTypeOK, HistoriesGoOn
<1>2. QuotaTypeOK'
  BY <1>1 DEF QuotaTypeOK
<1>3. NowKnown'
  BY DEF NowKnown, HistoriesGoOn
<1>4. \A h \in Hosts : FigureSound(figure'[h], fitted', filled')
  BY <1>1, ShorterStays
<1>5. \A p \in Pushes : PushSound(push'[p], fitted', filled')
  BY <1>1, ShorterStays
<1>6. (\A h \in Hosts : FigureSound(figure[h], fitted, filled))'
  BY <1>4 DEF FigureSound
<1>7. (\A p \in Pushes : PushSound(push[p], fitted, filled))'
  BY <1>5 DEF PushSound, Comes
<1> QED BY <1>2, <1>3, <1>6, <1>7 DEF QuotaInv

LEMMA QuotaInitHolds == QuotaInit => QuotaInv
<1> SUFFICES ASSUME QuotaInit PROVE QuotaInv
  OBVIOUS
<1>1. QuotaTypeOK
  BY QuotaNumbers DEF QuotaInit, QuotaTypeOK
<1>2. NowKnown /\ IsFiniteSet(holds)
  BY QuotaNumbers DEF QuotaInit, NowKnown
<1>3. \A h \in Hosts : FigureSound(figure[h], fitted, filled)
  BY DEF QuotaInit, FigureSound
<1>4. \A p \in Pushes : PushSound(push[p], fitted, filled)
  BY NoneIsNone DEF QuotaInit, PushSound
<1> QED BY <1>1, <1>2, <1>3, <1>4 DEF QuotaInv

\* What QuotaInv says, a piece at a time.
LEMMA QuotaHolds ==
  ASSUME QuotaInv
  PROVE  /\ holds \in SUBSET Objects /\ IsFiniteSet(holds)
         /\ sizes \in SUBSET (Objects \X {0, Size})
         /\ figure \in [Hosts -> Figure \cup {NoFigure}]
         /\ push \in [Pushes -> Push \cup {NoPush}]
         /\ sweep \in [pc : {"drop"}, host : Hosts, todo : SUBSET Objects] \cup {NoSweep}
         /\ spent \in [pushes : 0 .. MaxPushed, sweeps : 0 .. MaxSwept, failures : 0 .. MaxFailed]
         /\ fitted \in 0 .. Lag /\ filled \in 0 .. Lag
         /\ \A h \in Hosts : FigureSound(figure[h], fitted, filled)
         /\ \A p \in Pushes : PushSound(push[p], fitted, filled)
BY DEF QuotaInv, QuotaTypeOK

LEMMA PushGoesOn ==
  ASSUME QuotaInv, NEW p \in Pushes, NEW q \in Push \cup {NoPush}, PushSound(q, fitted, filled),
         push' = [push EXCEPT ![p] = q]
  PROVE  /\ push' \in [Pushes -> Push \cup {NoPush}]
         /\ \A a \in Pushes : PushSound(push'[a], fitted, filled)
BY QuotaHolds

LEMMA PushIsOver ==
  ASSUME QuotaInv, NEW p \in Pushes, Over(p)
  PROVE  /\ push' \in [Pushes -> Push \cup {NoPush}]
         /\ \A a \in Pushes : PushSound(push'[a], fitted, filled)
<1>1. PushSound(NoPush, fitted, filled)
  BY NoneIsNone DEF PushSound
<1> QED BY <1>1, PushGoesOn DEF Over

LEMMA JudgedGoesOn ==
  ASSUME QuotaInv, NEW p \in Pushes, NEW h \in Hosts, NEW f, Judged(p, h, f)
  PROVE  /\ push' \in [Pushes -> Push \cup {NoPush}]
         /\ \A a \in Pushes : PushSound(push'[a], fitted, filled)
<1>1. PICK q : q = [pc |-> "fresh", host |-> h, oid |-> NoObject, fresh |-> TRUE, bytes |-> 0,
                    listed |-> 0, sound |-> TRUE, todo |-> {}]
  OBVIOUS
<1>2. q \in Push
  <2>1. 0 \in 0 .. Lag /\ 0 \in Nat /\ {} \in SUBSET Objects
    BY QuotaNumbers
  <2> QED BY <1>1, <2>1 DEF Push
<1>3. PushSound(q, fitted, filled)
  BY <1>1 DEF PushSound
<1>4. CASE f.bytes + Size > Limit
  <2>1. Over(p)
    BY <1>4 DEF Judged, Over
  <2> QED BY <2>1, PushIsOver
<1>5. CASE ~(f.bytes + Size > Limit)
  <2>1. push' = [push EXCEPT ![p] = q]
    BY <1>1, <1>5 DEF Judged
  <2> QED BY <1>2, <1>3, <2>1, PushGoesOn
<1> QED BY <1>4, <1>5

LEMMA MayFailGoesOn ==
  ASSUME QuotaInv, NEW fails \in BOOLEAN, MayFail(fails)
  PROVE  spent' \in [pushes : 0 .. MaxPushed, sweeps : 0 .. MaxSwept, failures : 0 .. MaxFailed]
<1>1. spent \in [pushes : 0 .. MaxPushed, sweeps : 0 .. MaxSwept, failures : 0 .. MaxFailed]
  BY QuotaHolds
<1>2. CASE fails
  <2>1. spent.failures + 1 \in 0 .. MaxFailed
        /\ spent' = [spent EXCEPT !.failures = spent.failures + 1]
    BY <1>1, <1>2, QuotaNumbers DEF MayFail
  <2> QED BY <1>1, <2>1
<1>3. CASE ~fails
  BY <1>1, <1>3 DEF MayFail
<1> QED BY <1>2, <1>3

LEMMA RemembersStep ==
  \A p \in Pushes, h \in Hosts :
    QuotaInv /\ Remembers(p, h) /\ HistoriesGoOn => QuotaInv'
<1> SUFFICES ASSUME NEW p \in Pushes, NEW h \in Hosts, QuotaInv, Remembers(p, h), HistoriesGoOn
             PROVE  QuotaInv'
  OBVIOUS
<1>1. Judged(p, h, figure[h]) /\ UNCHANGED <<holds, sizes, figure, sweep>>
      /\ spent.pushes < MaxPushed /\ spent' = [spent EXCEPT !.pushes = spent.pushes + 1]
  BY DEF Remembers, stored
<1>2. spent' \in [pushes : 0 .. MaxPushed, sweeps : 0 .. MaxSwept, failures : 0 .. MaxFailed]
  <2>1. spent \in [pushes : 0 .. MaxPushed, sweeps : 0 .. MaxSwept, failures : 0 .. MaxFailed]
    BY QuotaHolds
  <2>2. spent.pushes + 1 \in 0 .. MaxPushed
    BY <1>1, <2>1, QuotaNumbers
  <2> QED BY <1>1, <2>1, <2>2
<1> QED BY <1>1, <1>2, JudgedGoesOn, QuotaHolds, StepKeeps

\* A listing: what it counts and what it has still to ask for is no more than
\* the bucket holds, and as much if it is sound.
LEMMA Listing ==
  ASSUME QuotaInv, NEW seen \in {holds, {}},
         NEW known, known = {x \in seen : SizedRight(x)},
         NEW asked, asked = {x \in seen : ~Indexed(x)}
  PROVE  /\ IsFiniteSet(known) /\ IsFiniteSet(asked) /\ asked \subseteq Objects
         /\ Cardinality(known) \in Nat /\ Cardinality(asked) \in Nat /\ Cardinality(holds) \in Nat
         /\ Cardinality(known) + Cardinality(asked) <= Cardinality(holds)
         /\ seen = holds /\ (\A x \in holds : Indexed(x) => SizedRight(x)) =>
              Cardinality(known) + Cardinality(asked) = Cardinality(holds)
<1>1. IsFiniteSet(holds) /\ holds \subseteq Objects
  BY QuotaHolds
<1>2. known \subseteq holds /\ asked \subseteq holds
  OBVIOUS
<1>3. known \cap asked = {}
  <2>1. \A x : SizedRight(x) => Indexed(x)
    BY DEF SizedRight, Indexed
  <2> QED BY <2>1
<1>4. IsFiniteSet(known) /\ IsFiniteSet(asked)
  BY <1>1, <1>2, FS_Subset
<1>5. IsFiniteSet(known \cup asked)
      /\ Cardinality(known \cup asked) =
           Cardinality(known) + Cardinality(asked) - Cardinality(known \cap asked)
  BY <1>4, FS_Union
<1>6. Cardinality(known \cap asked) = 0
  BY <1>3, FS_EmptySet
<1>7. /\ Cardinality(known) \in Nat /\ Cardinality(asked) \in Nat /\ Cardinality(holds) \in Nat
  BY <1>1, <1>4, FS_CardinalityType
<1>8. known \cup asked \subseteq holds
  BY <1>2
<1>9. Cardinality(known \cup asked) <= Cardinality(holds)
  BY <1>1, <1>8, FS_Subset
<1>10. ASSUME seen = holds, \A x \in holds : Indexed(x) => SizedRight(x)
       PROVE  known \cup asked = holds
  BY <1>10
<1>11. asked \subseteq Objects
  BY <1>1, <1>2
<1>12. Cardinality(known) + Cardinality(asked) = Cardinality(known \cup asked)
  BY <1>5, <1>6, <1>7
<1>13. seen = holds /\ (\A x \in holds : Indexed(x) => SizedRight(x)) =>
         Cardinality(known) + Cardinality(asked) = Cardinality(holds)
  BY <1>10, <1>12
<1> QED BY <1>4, <1>7, <1>9, <1>11, <1>12, <1>13

LEMMA ListsStep ==
  \A p \in Pushes, h \in Hosts, seen \in {holds, {}} :
    QuotaInv /\ Lists(p, h, seen) /\ HistoriesGoOn => QuotaInv'
<1> SUFFICES ASSUME NEW p \in Pushes, NEW h \in Hosts, NEW seen \in {holds, {}},
                    QuotaInv, Lists(p, h, seen), HistoriesGoOn
             PROVE  QuotaInv'
  OBVIOUS
<1>1. PICK known : known = {x \in seen : SizedRight(x)}
  OBVIOUS
<1>2. PICK asked : asked = {x \in seen : ~Indexed(x)}
  OBVIOUS
<1>3. PICK sound \in BOOLEAN :
        sound <=> seen = holds /\ \A x \in holds : Indexed(x) => SizedRight(x)
  <2>1. (seen = holds /\ \A x \in holds : Indexed(x) => SizedRight(x)) \in BOOLEAN
    OBVIOUS
  <2> QED BY <2>1
<1>4. PICK q : q = [pc |-> "sizing", host |-> h, oid |-> NoObject, fresh |-> TRUE,
                    bytes |-> Size * Cardinality(known), listed |-> 0, sound |-> sound,
                    todo |-> asked]
  OBVIOUS
<1>5. /\ push' = [push EXCEPT ![p] = q]
      /\ UNCHANGED <<holds, sizes, figure, sweep>>
  <2>1. (seen = holds /\ \A x \in holds : Indexed(x) => SizedRight(x)) = sound
    BY <1>3
  <2> QED BY <1>1, <1>2, <1>4, <2>1 DEF Lists, stored
<1>6. /\ IsFiniteSet(known) /\ IsFiniteSet(asked) /\ asked \subseteq Objects
      /\ Cardinality(known) \in Nat /\ Cardinality(asked) \in Nat /\ Cardinality(holds) \in Nat
      /\ Cardinality(known) + Cardinality(asked) <= Cardinality(holds)
      /\ sound => Cardinality(known) + Cardinality(asked) = Cardinality(holds)
  BY <1>1, <1>2, <1>3, Listing
<1>7. Size * Cardinality(known) \in Nat
  BY <1>6, Bytes
<1>8. q \in Push
  <2>1. 0 \in 0 .. Lag /\ asked \in SUBSET Objects
    BY <1>6, QuotaNumbers
  <2> QED BY <1>3, <1>4, <1>7, <2>1 DEF Push
<1>9. PushSound(q, fitted, filled)
  <2>1. Comes(q) = Size * (Cardinality(known) + Cardinality(asked))
    BY <1>4, <1>6, Bytes DEF Comes
  <2>2. Comes(q) <= Size * Cardinality(holds)
    BY <1>6, <2>1, Bytes
  <2>3. sound => Comes(q) = Size * Cardinality(holds)
    BY <1>6, <2>1
  <2>4. /\ Comes(q) \in Nat /\ Size * Cardinality(holds) \in Nat
    BY <1>6, <2>1, Bytes
  <2>5. sound /\ Comes(q) + Size <= Limit => fitted = 0
    BY <2>3 DEF QuotaInv, NowKnown, Fits
  <2>6. Comes(q) + Size > Limit => filled = 0
    BY <2>2, <2>4, QuotaNumbers DEF QuotaInv, NowKnown, Fits
  <2> QED BY <1>4, <1>6, <2>5, <2>6, QuotaNumbers DEF PushSound
<1>10. spent' \in [pushes : 0 .. MaxPushed, sweeps : 0 .. MaxSwept, failures : 0 .. MaxFailed]
  <2>1. spent \in [pushes : 0 .. MaxPushed, sweeps : 0 .. MaxSwept, failures : 0 .. MaxFailed]
    BY QuotaHolds
  <2>2. PICK n : n = spent.failures + (IF seen # holds THEN 1 ELSE 0)
    OBVIOUS
  <2>3. n \in 0 .. MaxFailed /\ spent.pushes + 1 \in 0 .. MaxPushed
    BY <2>1, <2>2, QuotaNumbers DEF Lists
  <2>4. spent' = [spent EXCEPT !.pushes = spent.pushes + 1, !.failures = n]
    BY <2>1, <2>2 DEF Lists
  <2> QED BY <2>1, <2>3, <2>4
<1> QED BY <1>5, <1>8, <1>9, <1>10, PushGoesOn, QuotaHolds, StepKeeps

LEMMA PushOf ==
  ASSUME QuotaInv, NEW p \in Pushes, push[p].pc # "idle"
  PROVE  /\ push[p] \in Push /\ PushSound(push[p], fitted, filled)
         /\ push[p].host \in Hosts /\ push[p].bytes \in Nat /\ push[p].listed \in 0 .. Lag
         /\ push[p].sound \in BOOLEAN /\ push[p].todo \in SUBSET Objects
<1>1. push[p] \in Push
  BY QuotaHolds, NoneIsNone
<1> QED BY <1>1, QuotaHolds DEF Push

LEMMA MeasuresStep ==
  \A p \in Pushes, o \in Objects, size \in {0, Size}, wrote \in BOOLEAN :
    QuotaInv /\ Measures(p, o, size, wrote) /\ HistoriesGoOn => QuotaInv'
<1> SUFFICES ASSUME NEW p \in Pushes, NEW o \in Objects, NEW size \in {0, Size},
                    NEW wrote \in BOOLEAN, QuotaInv, Measures(p, o, size, wrote), HistoriesGoOn
             PROVE  QuotaInv'
  OBVIOUS
<1> DEFINE r == push[p]
<1>1. r.pc = "sizing" /\ o \in r.todo /\ UNCHANGED <<holds, figure, sweep>>
      /\ sizes' = IF wrote THEN sizes \cup {<<o, size>>} ELSE sizes
  BY DEF Measures, Stage
<1>2. r \in Push /\ PushSound(r, fitted, filled) /\ r.bytes \in Nat /\ r.listed \in 0 .. Lag
      /\ r.sound \in BOOLEAN /\ r.todo \in SUBSET Objects
  BY <1>1, PushOf
<1>0. PICK right \in BOOLEAN : right = (r.sound /\ size = Size)
  OBVIOUS
<1>3. PICK q : q = [r EXCEPT !.bytes = r.bytes + size, !.todo = r.todo \ {o}, !.sound = right]
  OBVIOUS
<1>4. push' = [push EXCEPT ![p] = q]
  <2>1. push' = [push EXCEPT ![p] = [r EXCEPT !.bytes = r.bytes + size, !.todo = r.todo \ {o},
                                              !.sound = (r.sound /\ size = Size)]]
    BY <1>2 DEF Measures
  <2> QED BY <1>0, <1>3, <2>1
<1>5. /\ q.pc = "sizing" /\ q.bytes = r.bytes + size /\ q.todo = r.todo \ {o}
      /\ q.listed = r.listed /\ q.sound = right
  BY <1>0, <1>1, <1>2, <1>3 DEF Push
<1>6. r.bytes + size \in Nat
  BY <1>2, QuotaNumbers
<1>7. q \in Push
  <2>1. r.todo \ {o} \in SUBSET Objects
    BY <1>2
  <2> QED BY <1>2, <1>3, <1>6, <2>1 DEF Push
<1>8. /\ IsFiniteSet(q.todo) /\ Cardinality(r.todo) = Cardinality(q.todo) + 1
      /\ Cardinality(q.todo) \in Nat /\ Cardinality(r.todo) \in Nat
  <2>1. IsFiniteSet(r.todo)
    BY <1>1, <1>2 DEF PushSound
  <2>2. IsFiniteSet(q.todo) /\ Cardinality(q.todo) = Cardinality(r.todo) - 1
    <3>1. q.todo = r.todo \ {o} /\ o \in r.todo
      BY <1>1, <1>5
    <3>2. PICK rest : rest = r.todo \ {o}
      OBVIOUS
    <3>3. IsFiniteSet(rest) /\ Cardinality(rest) = Cardinality(r.todo) - 1
      <4> HIDE DEF r
      <4> QED BY <2>1, <3>1, <3>2, FS_RemoveElement
    <3> QED BY <3>1, <3>2, <3>3
  <2> QED BY <2>1, <2>2, FS_CardinalityType
<1>9. /\ Comes(q) <= Comes(r)
      /\ q.sound => r.sound /\ Comes(q) = Comes(r)
      /\ Comes(q) \in Nat /\ Comes(r) \in Nat
  <2>1. Size * Cardinality(r.todo) = Size * Cardinality(q.todo) + Size
        /\ Size * Cardinality(q.todo) \in Nat
    BY <1>8, Bytes
  <2>2. PICK rest \in Nat : rest = Size * Cardinality(q.todo)
    BY <2>1
  <2>3. Comes(q) = r.bytes + size + rest /\ Comes(r) = r.bytes + rest + Size
    BY <1>2, <1>5, <2>1, <2>2, QuotaNumbers DEF Comes
  <2>4. size = Size \/ size = 0
    OBVIOUS
  <2>5. Comes(q) <= Comes(r) /\ Comes(q) \in Nat /\ Comes(r) \in Nat
    BY <1>2, <2>2, <2>3, <2>4, QuotaNumbers
  <2>6. q.sound => r.sound /\ Comes(q) = Comes(r)
    <3>1. q.sound => r.sound /\ size = Size
      BY <1>0, <1>5
    <3>2. size = Size => Comes(q) = Comes(r)
      BY <1>2, <2>2, <2>3, QuotaNumbers
    <3> QED BY <3>1, <3>2
  <2> QED BY <2>5, <2>6
<1>10. PushSound(q, fitted, filled)
  <2>1. /\ r.listed <= Measuring
        /\ r.sound /\ Comes(r) + Size <= Limit => fitted <= r.listed
        /\ Comes(r) + Size > Limit => filled <= r.listed
    BY <1>1, <1>2 DEF PushSound
  <2>2. q.sound /\ Comes(q) + Size <= Limit => fitted <= q.listed
    BY <1>5, <1>9, <2>1
  <2>3. Comes(q) + Size > Limit => filled <= q.listed
    BY <1>5, <1>9, <2>1, QuotaNumbers
  <2> QED BY <1>5, <1>8, <2>1, <2>2, <2>3 DEF PushSound
<1>11. sizes' \in SUBSET (Objects \X {0, Size})
  BY <1>1, QuotaHolds
<1>12. spent' \in [pushes : 0 .. MaxPushed, sweeps : 0 .. MaxSwept, failures : 0 .. MaxFailed]
  <2>1. PICK fails \in BOOLEAN : fails = (size # Size \/ ~wrote)
    OBVIOUS
  <2>2. MayFail(fails)
    BY <2>1 DEF Measures
  <2> QED BY <2>2, MayFailGoesOn
<1> QED BY <1>1, <1>4, <1>7, <1>10, <1>11, <1>12, PushGoesOn, QuotaHolds, StepKeeps

LEMMA FigureGoesOn ==
  ASSUME QuotaInv, NEW h \in Hosts, NEW f \in Figure \cup {NoFigure},
         FigureSound(f, fitted, filled), figure' = [figure EXCEPT ![h] = f]
  PROVE  /\ figure' \in [Hosts -> Figure \cup {NoFigure}]
         /\ \A a \in Hosts : FigureSound(figure'[a], fitted, filled)
BY QuotaHolds

LEMMA MeasuredStep ==
  \A p \in Pushes : QuotaInv /\ Measured(p) /\ HistoriesGoOn => QuotaInv'
<1> SUFFICES ASSUME NEW p \in Pushes, QuotaInv, Measured(p), HistoriesGoOn PROVE QuotaInv'
  OBVIOUS
<1> DEFINE r == push[p]
<1>1. PICK f : f = [bytes |-> r.bytes, age |-> 0, listed |-> r.listed, sound |-> r.sound,
                    grown |-> FALSE]
  OBVIOUS
<1>2. /\ r.pc = "sizing" /\ r.todo = {} /\ figure' = [figure EXCEPT ![r.host] = f]
      /\ Judged(p, r.host, f) /\ UNCHANGED <<holds, sizes, sweep, spent>>
  BY <1>1 DEF Measured, Stage, stored
<1>3. r \in Push /\ PushSound(r, fitted, filled) /\ r.bytes \in Nat /\ r.listed \in 0 .. Lag
      /\ r.sound \in BOOLEAN /\ r.host \in Hosts
  BY <1>2, PushOf
<1>4. f \in Figure
  <2>1. 0 \in Nat
    OBVIOUS
  <2> QED BY <1>1, <1>3, <2>1 DEF Figure
<1>5. Comes(r) = r.bytes
  <2>1. Cardinality(r.todo) = 0
    BY <1>2, FS_EmptySet
  <2>2. Size * 0 = 0
    BY Bytes
  <2> QED BY <1>3, <2>1, <2>2 DEF Comes
<1>6. FigureSound(f, fitted, filled)
  BY <1>1, <1>2, <1>3, <1>5, QuotaNumbers DEF FigureSound, PushSound
<1> QED BY <1>2, <1>3, <1>4, <1>6, FigureGoesOn, JudgedGoesOn, QuotaHolds, StepKeeps

LEMMA WritingStep ==
  \A p \in Pushes : \A o \in Objects : \A fresh \in BOOLEAN :
    QuotaInv /\ (AsksAgain(p, o, fresh) \/ Marks(p) \/ Indexes(p)) /\ HistoriesGoOn => QuotaInv'
<1> SUFFICES ASSUME NEW p \in Pushes, NEW o \in Objects, NEW fresh \in BOOLEAN, QuotaInv,
                    HistoriesGoOn, AsksAgain(p, o, fresh) \/ Marks(p) \/ Indexes(p)
             PROVE  QuotaInv'
  OBVIOUS
<1> DEFINE r == push[p]
<1>1. r.pc \in {"fresh", "mark", "size"} /\ UNCHANGED <<figure, sweep, spent>>
  BY DEF AsksAgain, Marks, Indexes, Stage
<1>2. r \in Push /\ PushSound(r, fitted, filled)
  BY <1>1, PushOf
<1>3. CASE AsksAgain(p, o, fresh)
  <2>1. PICK q : q = [r EXCEPT !.pc = "mark", !.oid = o, !.fresh = fresh]
    OBVIOUS
  <2>2. q \in Push /\ q.pc = "mark" /\ q.oid = o
    BY <1>2, <2>1 DEF Push
  <2>3. PushSound(q, fitted, filled)
    BY <2>2 DEF PushSound
  <2>4. push' = [push EXCEPT ![p] = q] /\ UNCHANGED <<holds, sizes>>
    BY <1>3, <2>1 DEF AsksAgain, stored
  <2> QED BY <1>1, <2>2, <2>3, <2>4, PushGoesOn, QuotaHolds, StepKeeps
<1>4. CASE Marks(p)
  <2>1. PICK q : q = [r EXCEPT !.pc = "size"]
    OBVIOUS
  <2>2. q \in Push /\ q.pc = "size" /\ q.oid = r.oid
    BY <1>2, <2>1 DEF Push
  <2>3. r.oid \in Objects
    BY <1>2, <1>4 DEF Marks, Stage, PushSound
  <2>4. PushSound(q, fitted, filled)
    BY <2>2, <2>3 DEF PushSound
  <2>5. push' = [push EXCEPT ![p] = q] /\ holds' = holds \cup {r.oid} /\ UNCHANGED sizes
    BY <1>4, <2>1 DEF Marks, Moved
  <2>6. holds' \in SUBSET Objects /\ IsFiniteSet(holds')
    BY <2>3, <2>5, QuotaHolds, FS_AddElement
  <2> QED BY <1>1, <2>2, <2>4, <2>5, <2>6, PushGoesOn, QuotaHolds, StepKeeps
<1>5. CASE Indexes(p)
  <2>1. PICK q : q = [r EXCEPT !.pc = "note"]
    OBVIOUS
  <2>2. q \in Push /\ q.pc = "note" /\ q.oid = r.oid
    BY <1>2, <2>1 DEF Push
  <2>3. r.oid \in Objects
    BY <1>2, <1>5 DEF Indexes, Stage, PushSound
  <2>4. PushSound(q, fitted, filled)
    BY <2>2, <2>3 DEF PushSound
  <2>5. push' = [push EXCEPT ![p] = q] /\ sizes' = sizes \cup {<<r.oid, Size>>} /\ UNCHANGED holds
    BY <1>5, <2>1 DEF Indexes, Moved
  <2>6. sizes' \in SUBSET (Objects \X {0, Size})
    BY <2>3, <2>5, QuotaHolds
  <2> QED BY <1>1, <2>2, <2>4, <2>5, <2>6, PushGoesOn, QuotaHolds, StepKeeps
<1> QED BY <1>3, <1>4, <1>5

LEMMA FailsStep == \A p \in Pushes : QuotaInv /\ Fails(p) /\ HistoriesGoOn => QuotaInv'
<1> SUFFICES ASSUME NEW p \in Pushes, QuotaInv, Fails(p), HistoriesGoOn PROVE QuotaInv'
  OBVIOUS
<1>1. Over(p) /\ MayFail(TRUE) /\ UNCHANGED <<holds, sizes, figure, sweep>>
  BY DEF Fails, stored
<1> QED BY <1>1, PushIsOver, MayFailGoesOn, QuotaHolds, StepKeeps

LEMMA AddsStep == \A p \in Pushes : QuotaInv /\ Adds(p) /\ HistoriesGoOn => QuotaInv'
<1> SUFFICES ASSUME NEW p \in Pushes, QuotaInv, Adds(p), HistoriesGoOn PROVE QuotaInv'
  OBVIOUS
<1> DEFINE h == push[p].host
<1>1. push[p].pc = "note" /\ Over(p) /\ UNCHANGED <<holds, sizes, sweep, spent>>
      /\ figure' = IF push[p].fresh THEN [figure EXCEPT ![h] = Grown(figure[h])] ELSE figure
  BY DEF Adds, Stage, stored
<1>2. h \in Hosts
  BY <1>1, PushOf
<1>3. figure[h] \in Figure \cup {NoFigure} /\ FigureSound(figure[h], fitted, filled)
  BY <1>2, QuotaHolds
<1>4. CASE figure[h] = NoFigure \/ ~push[p].fresh
  <2>1. figure' = figure
    BY <1>1, <1>2, <1>4, QuotaHolds DEF Grown
  <2> QED BY <1>1, <2>1, PushIsOver, QuotaHolds, StepKeeps
<1>5. CASE figure[h] # NoFigure /\ push[p].fresh
  <2> DEFINE f == figure[h]
  <2>1. f \in Figure
    BY <1>3, <1>5
  <2>2. PICK n : n = Sum(f.bytes)
    OBVIOUS
  <2>3. n \in Nat /\ n >= f.bytes /\ f.bytes \in Nat
    BY <2>1, <2>2, QuotaNumbers DEF Sum, Figure
  <2>4. PICK g : g = [f EXCEPT !.bytes = n, !.grown = TRUE]
    OBVIOUS
  <2>5. /\ g \in Figure /\ g # NoFigure /\ g.bytes = n /\ g.grown /\ g.age = f.age
        /\ g.listed = f.listed /\ g.sound = f.sound
    BY <2>1, <2>3, <2>4, NoneIsNone DEF Figure
  <2>6. figure' = [figure EXCEPT ![h] = g]
    BY <1>1, <1>5, <2>2, <2>4 DEF Grown
  <2>7. FigureSound(g, fitted, filled)
    BY <1>3, <1>5, <2>3, <2>5, QuotaNumbers DEF FigureSound
  <2> QED BY <1>1, <1>2, <2>5, <2>6, <2>7, FigureGoesOn, PushIsOver, QuotaHolds, StepKeeps
<1> QED BY <1>4, <1>5

\* Sweeps take markers and sizes away, and what one server remembers.
LEMMA SweepsStep ==
  \A h \in Hosts, drop \in SUBSET holds :
    QuotaInv /\ Sweeps(h, drop) /\ HistoriesGoOn => QuotaInv'
<1> SUFFICES ASSUME NEW h \in Hosts, NEW drop \in SUBSET holds, QuotaInv, HistoriesGoOn,
                    Sweeps(h, drop)
             PROVE  QuotaInv'
  OBVIOUS
<1>1. UNCHANGED <<holds, sizes, figure, push>>
      /\ sweep' = [pc |-> "drop", host |-> h, todo |-> drop]
      /\ spent.sweeps < MaxSwept /\ spent' = [spent EXCEPT !.sweeps = spent.sweeps + 1]
  BY DEF Sweeps, stored
<1>2. spent' \in [pushes : 0 .. MaxPushed, sweeps : 0 .. MaxSwept, failures : 0 .. MaxFailed]
  <2>1. spent \in [pushes : 0 .. MaxPushed, sweeps : 0 .. MaxSwept, failures : 0 .. MaxFailed]
    BY QuotaHolds
  <2>2. spent.sweeps + 1 \in 0 .. MaxSwept
    BY <1>1, <2>1, QuotaNumbers
  <2> QED BY <1>1, <2>1, <2>2
<1>3. sweep' \in [pc : {"drop"}, host : Hosts, todo : SUBSET Objects]
  <2>1. drop \in SUBSET Objects
    BY QuotaHolds
  <2> QED BY <1>1, <2>1
<1> QED BY <1>1, <1>2, <1>3, QuotaHolds, StepKeeps

LEMMA DropsStep ==
  \A o \in Objects, tidy \in BOOLEAN :
    QuotaInv /\ Drops(o, tidy) /\ HistoriesGoOn => QuotaInv'
<1> SUFFICES ASSUME NEW o \in Objects, NEW tidy \in BOOLEAN, QuotaInv, HistoriesGoOn,
                    Drops(o, tidy)
             PROVE  QuotaInv'
  OBVIOUS
<1>1. sweep \in [pc : {"drop"}, host : Hosts, todo : SUBSET Objects]
  BY QuotaHolds DEF Drops
<1>2. /\ UNCHANGED <<figure, push>> /\ holds' = holds \ {o} /\ sizes' \subseteq sizes
      /\ sweep' = [sweep EXCEPT !.todo = sweep.todo \ {o}]
  BY DEF Drops
<1>3. holds' \in SUBSET Objects /\ IsFiniteSet(holds') /\ sizes' \in SUBSET (Objects \X {0, Size})
  BY <1>2, QuotaHolds, FS_Subset
<1>4. sweep' \in [pc : {"drop"}, host : Hosts, todo : SUBSET Objects]
  BY <1>1, <1>2
<1>5. spent' \in [pushes : 0 .. MaxPushed, sweeps : 0 .. MaxSwept, failures : 0 .. MaxFailed]
  <2>1. PICK fails \in BOOLEAN : fails = ~tidy
    OBVIOUS
  <2>2. MayFail(fails)
    BY <2>1 DEF Drops
  <2> QED BY <2>2, MayFailGoesOn
<1> QED BY <1>2, <1>3, <1>4, <1>5, QuotaHolds, StepKeeps

LEMMA SweptStep == QuotaInv /\ (Swept \/ SweepFails) /\ HistoriesGoOn => QuotaInv'
<1> SUFFICES ASSUME QuotaInv, HistoriesGoOn, Swept \/ SweepFails PROVE QuotaInv'
  OBVIOUS
<1>1. CASE Swept
  <2>1. sweep # NoSweep /\ sweep' = NoSweep /\ UNCHANGED <<holds, sizes, push, spent>>
        /\ figure' = [figure EXCEPT ![sweep.host] = NoFigure]
    BY <1>1 DEF Swept, stored
  <2>2. sweep.host \in Hosts
    BY <2>1, QuotaHolds
  <2>3. FigureSound(NoFigure, fitted, filled)
    BY DEF FigureSound
  <2> QED BY <2>1, <2>2, <2>3, FigureGoesOn, QuotaHolds, StepKeeps
<1>2. CASE SweepFails
  <2>1. sweep' = NoSweep /\ MayFail(TRUE) /\ UNCHANGED <<holds, sizes, push, figure>>
    BY <1>2 DEF SweepFails, stored
  <2> QED BY <2>1, MayFailGoesOn, QuotaHolds, StepKeeps
<1> QED BY <1>1, <1>2

\* A tick makes a figure older by as much as what it is measured by.
LEMMA PassesStep == QuotaInv /\ Passes => QuotaInv'
<1> SUFFICES ASSUME QuotaInv, Passes PROVE QuotaInv'
  OBVIOUS
<1>1. /\ UNCHANGED <<holds, sizes, sweep, spent>>
      /\ figure' = [h \in Hosts |-> Aged(figure[h])]
      /\ push' = [p \in Pushes |->
           IF Stage(p, "sizing") THEN [push[p] EXCEPT !.listed = Older(push[p].listed)]
                                 ELSE push[p]]
      /\ fitted' = IF Fits THEN 0 ELSE Older(fitted)
      /\ filled' = IF Fits THEN Older(filled) ELSE 0
  BY DEF Passes, stored
<1>2. Fits' = Fits
  BY <1>1 DEF Fits
<1>3. NowKnown'
  BY <1>1, <1>2 DEF NowKnown
<1>4. /\ fitted \in 0 .. Lag /\ filled \in 0 .. Lag
      /\ Older(fitted) \in 0 .. Lag /\ Older(filled) \in 0 .. Lag
      /\ fitted' \in 0 .. Lag /\ filled' \in 0 .. Lag
      /\ fitted' <= Older(fitted) /\ filled' <= Older(filled)
  <2>1. fitted \in 0 .. Lag /\ filled \in 0 .. Lag
    BY QuotaHolds
  <2>2. Older(fitted) \in 0 .. Lag /\ Older(filled) \in 0 .. Lag
    BY <2>1, OlderIs
  <2> QED BY <1>1, <2>1, <2>2, QuotaNumbers
<1>5. ASSUME NEW n \in 0 .. Lag
      PROVE  /\ fitted <= n => fitted' <= Older(n)
             /\ filled <= n => filled' <= Older(n)
             /\ Older(n) \in 0 .. Lag /\ Older(n) <= n + 1
  <2>1. fitted <= n => Older(fitted) <= Older(n)
    BY <1>4, OlderInOrder
  <2>2. filled <= n => Older(filled) <= Older(n)
    BY <1>4, OlderInOrder
  <2>3. Older(n) \in 0 .. Lag /\ Older(n) <= n + 1
    BY OlderIs
  <2> QED BY <1>4, <2>1, <2>2, <2>3, QuotaNumbers
<1>6. ASSUME NEW h \in Hosts
      PROVE  figure'[h] \in Figure \cup {NoFigure} /\ FigureSound(figure'[h], fitted', filled')
  <2> DEFINE f == figure[h]
  <2>1. figure'[h] = Aged(f) /\ f \in Figure \cup {NoFigure} /\ FigureSound(f, fitted, filled)
    BY <1>1, QuotaHolds
  <2>2. CASE f = NoFigure \/ f.age + 1 >= UsageTTL
    <3>1. figure'[h] = NoFigure
      BY <2>1, <2>2 DEF Aged
    <3> QED BY <3>1 DEF FigureSound
  <2>3. CASE ~(f = NoFigure \/ f.age + 1 >= UsageTTL)
    <3>1. f \in Figure
      BY <2>1, <2>3
    <3>2. PICK n : n = Older(f.listed)
      OBVIOUS
    <3>3. /\ n \in 0 .. Lag /\ n <= f.listed + 1
          /\ fitted <= f.listed => fitted' <= n
          /\ filled <= f.listed => filled' <= n
      BY <1>5, <3>1, <3>2 DEF Figure
    <3>4. PICK g : g = [f EXCEPT !.age = f.age + 1, !.listed = n]
      OBVIOUS
    <3>5. f.age \in Nat /\ f.bytes \in Nat /\ f.listed \in 0 .. Lag
      BY <3>1 DEF Figure
    <3>6. /\ g \in Figure /\ g.age = f.age + 1 /\ g.listed = n /\ g.bytes = f.bytes
          /\ g.sound = f.sound /\ g.grown = f.grown
      <4>1. f.age + 1 \in Nat
        BY <3>5
      <4>2. g \in Figure
        BY <3>1, <3>3, <3>4, <4>1 DEF Figure
      <4> QED BY <3>1, <3>4, <4>2 DEF Figure
    <3>7. figure'[h] = g
      BY <2>1, <2>3, <3>2, <3>4 DEF Aged
    <3>8. f # NoFigure
      BY <2>3
    <3>9. FigureSound(g, fitted', filled')
      BY <2>1, <2>3, <3>3, <3>5, <3>6, <3>8, QuotaNumbers DEF FigureSound
    <3> QED BY <3>6, <3>7, <3>9
  <2> QED BY <2>2, <2>3
<1>7. ASSUME NEW p \in Pushes
      PROVE  push'[p] \in Push \cup {NoPush} /\ PushSound(push'[p], fitted', filled')
  <2> DEFINE r == push[p]
  <2>1. r \in Push \cup {NoPush} /\ PushSound(r, fitted, filled)
    BY QuotaHolds
  <2>2. CASE r.pc # "sizing"
    <3>1. push'[p] = r
      BY <1>1, <2>2 DEF Stage
    <3> QED BY <2>1, <2>2, <3>1 DEF PushSound
  <2>3. CASE r.pc = "sizing"
    <3>1. r \in Push /\ r.listed < Measuring /\ r.listed \in 0 .. Lag
      BY <2>3, PushOf DEF Passes, Stage
    <3>2. PICK n : n = Older(r.listed)
      OBVIOUS
    <3>3. /\ n \in 0 .. Lag /\ n <= r.listed + 1
          /\ fitted <= r.listed => fitted' <= n
          /\ filled <= r.listed => filled' <= n
      BY <1>5, <3>1, <3>2
    <3>4. PICK q : q = [r EXCEPT !.listed = n]
      OBVIOUS
    <3>5. /\ q \in Push /\ q.pc = "sizing" /\ q.listed = n /\ q.bytes = r.bytes
          /\ q.sound = r.sound /\ q.todo = r.todo
      BY <2>3, <3>1, <3>3, <3>4 DEF Push
    <3>6. push'[p] = q
      BY <1>1, <2>3, <3>2, <3>4 DEF Stage
    <3>7. Comes(q) = Comes(r)
      BY <3>5 DEF Comes
    <3>8. n <= Measuring
      BY <3>1, <3>3, QuotaNumbers
    <3>9. PushSound(q, fitted', filled')
      BY <2>1, <2>3, <3>3, <3>5, <3>7, <3>8 DEF PushSound
    <3> QED BY <3>5, <3>6, <3>9
  <2> QED BY <2>2, <2>3
<1>8. QuotaTypeOK'
  <2>1. figure' \in [Hosts -> Figure \cup {NoFigure}]
    BY <1>1, <1>6
  <2>2. push' \in [Pushes -> Push \cup {NoPush}]
    BY <1>1, <1>7
  <2> QED BY <1>1, <1>4, <2>1, <2>2, QuotaHolds DEF QuotaTypeOK
<1>9. (\A h \in Hosts : FigureSound(figure[h], fitted, filled))'
  BY <1>6 DEF FigureSound
<1>10. (\A p \in Pushes : PushSound(push[p], fitted, filled))'
  BY <1>7 DEF PushSound, Comes
<1>11. IsFiniteSet(holds')
  BY <1>1, QuotaHolds
<1> QED BY <1>3, <1>8, <1>9, <1>10, <1>11 DEF QuotaInv

\* The invariant: every figure, and every measurement under way, was at most what
\* was held, or at least what was, at an instant not long gone.
THEOREM QuotaInvariant == QuotaSpec => []QuotaInv
<1>1. QuotaInit => QuotaInv
  BY QuotaInitHolds
<1>2. QuotaInv /\ [QuotaNext]_quotaVars => QuotaInv'
  <2> SUFFICES ASSUME QuotaInv, [QuotaNext]_quotaVars PROVE QuotaInv'
    OBVIOUS
  <2>1. CASE UNCHANGED quotaVars
    <3>1. /\ UNCHANGED <<holds, sizes, figure, push, sweep, spent, fitted, filled>>
      BY <2>1 DEF quotaVars, stored
    <3>2. QuotaTypeOK' /\ NowKnown' /\ IsFiniteSet(holds')
      BY <3>1 DEF QuotaInv, QuotaTypeOK, NowKnown, Fits
    <3>3. (\A h \in Hosts : FigureSound(figure[h], fitted, filled))'
      BY <3>1 DEF QuotaInv, FigureSound
    <3>4. (\A p \in Pushes : PushSound(push[p], fitted, filled))'
      BY <3>1 DEF QuotaInv, PushSound, Comes
    <3> QED BY <3>2, <3>3, <3>4 DEF QuotaInv
  <2>2. CASE Passes
    BY <2>2, PassesStep
  <2>3. CASE HistoriesGoOn /\ ~Passes /\ QuotaNext
    <3>1. CASE \E p \in Pushes : \E h \in Hosts :
                 Remembers(p, h) \/ \E seen \in {holds, {}} : Lists(p, h, seen)
      BY <2>3, <3>1, RemembersStep, ListsStep
    <3>2. CASE \E p \in Pushes :
                 Measured(p) \/ Fails(p) \/ Adds(p)
      BY <2>3, <3>2, MeasuredStep, FailsStep, AddsStep
    <3>3. CASE \E p \in Pushes : \E o \in Objects, size \in {0, Size}, wrote \in BOOLEAN :
                 Measures(p, o, size, wrote)
      BY <2>3, <3>3, MeasuresStep
    <3>4. CASE \E p \in Pushes :
                 (\E o \in Objects, fresh \in BOOLEAN : AsksAgain(p, o, fresh))
                 \/ Marks(p) \/ Indexes(p)
      <4>1. PICK p \in Pushes : (\E o \in Objects, fresh \in BOOLEAN : AsksAgain(p, o, fresh))
                                \/ Marks(p) \/ Indexes(p)
        BY <3>4
      <4>2. CASE \E o \in Objects, fresh \in BOOLEAN : AsksAgain(p, o, fresh)
        BY <2>3, <4>2, WritingStep
      <4>3. CASE Marks(p) \/ Indexes(p)
        <5>1. push[p].oid \in Objects
          BY <4>3, QuotaHolds DEF Marks, Indexes, Stage, PushSound
        <5> QED BY <2>3, <4>3, <5>1, WritingStep
      <4> QED BY <4>1, <4>2, <4>3
    <3>5. CASE (\E h \in Hosts, drop \in SUBSET holds : Sweeps(h, drop))
               \/ (\E o \in Objects, tidy \in BOOLEAN : Drops(o, tidy)) \/ Swept \/ SweepFails
      BY <2>3, <3>5, SweepsStep, DropsStep, SweptStep
    <3> QED BY <2>3, <3>1, <3>2, <3>3, <3>4, <3>5 DEF QuotaNext
  <2> QED BY <2>2, <2>1, <2>3 DEF QuotaNext, HistoriesGoOn
<1> QED BY <1>1, <1>2, PTL DEF QuotaSpec

\* A repository that is full is not let through for longer than a figure is
\* remembered, for any servers, pushes, sizes and quota (usage.rs 8-18).
THEOREM FullIsRefused == QuotaSpec => []FullRefused
<1>1. QuotaInv => FullRefused
  <2> SUFFICES ASSUME QuotaInv, NEW h \in Hosts, figure[h] # NoFigure,
                      figure[h].bytes + Size <= Limit, figure[h].sound
               PROVE  fitted < Lag
    BY DEF FullRefused
  <2>1. figure[h] \in Figure /\ FigureSound(figure[h], fitted, filled) /\ fitted \in 0 .. Lag
    BY QuotaHolds
  <2>2. figure[h].listed \in 0 .. Lag /\ figure[h].age \in Nat
    BY <2>1 DEF Figure
  <2> QED BY <2>1, <2>2, QuotaNumbers DEF FigureSound
<1> QED BY <1>1, QuotaInvariant, PTL

\* Nor is a push refused for longer for want of room that is there (backend.rs
\* 433-438).
THEOREM RoomIsSeen == QuotaSpec => []RoomSeen
<1>1. QuotaInv => RoomSeen
  <2> SUFFICES ASSUME QuotaInv, NEW h \in Hosts, figure[h] # NoFigure,
                      figure[h].bytes + Size > Limit
               PROVE  filled < Lag \/ (figure[h].grown /\ figure[h].listed < Lag)
    BY DEF RoomSeen
  <2>1. figure[h] \in Figure /\ FigureSound(figure[h], fitted, filled) /\ filled \in 0 .. Lag
    BY QuotaHolds
  <2>2. figure[h].listed \in 0 .. Lag /\ figure[h].age \in Nat
    BY <2>1 DEF Figure
  <2> QED BY <2>1, <2>2, QuotaNumbers DEF FigureSound
<1> QED BY <1>1, QuotaInvariant, PTL

-----------------------------------------------------------------------------
(* Transfers: a slot is free or one transfer's; a rest of the client is no *)
(* longer than the task has waited, and no shorter; chunks are in the      *)
(* store, in the task's hand, in the channel or with the client.           *)

Held(r) == r.pc \notin {"new", "over"}

Holding == {t \in Transfers : Held(transfer[t])}

\* Every slot is free or one transfer's.
SlotsCounted == IsFiniteSet(Holding) /\ slots + Cardinality(Holding) = MaxTransfers

\* What the channel holds.
InRoom(r) == IF r.room = "chunk" THEN 1 ELSE 0

\* Nothing is there for the client before the body is, and a rest is no longer
\* than the task has waited.
Bounded(r) ==
  /\ r.room = "free" => r.rests = 0
  /\ r.pc \in {"new", "receive", "store", "open"} => r.room = "free"
  /\ r.pc = "read" => r.rests <= r.waited
  /\ r.pc = "send" => r.rests <= IDLE + r.waited

\* Chunks are where the client has them, in the channel, in the task's hand or
\* in the store; one is missing where an error says so or the client had rested.
Whole(r) ==
  /\ r.rested >= r.rests
  /\ r.got + InRoom(r) <= Length
  /\ r.pc = "send" /\ r.room # "free" => r.rests >= r.waited
  /\ r.pc \in {"new", "open"} => r.got = 0 /\ r.left = Length
  /\ r.pc \in {"new", "receive", "store", "open"} => ~r.down
  /\ ~r.down => r.saw # "end"
  /\ r.pc # "over" => r.saw # "end" /\ r.room # "error"
  /\ r.room = "error" => r.saw # "end"
  /\ r.pc = "read" => r.got + InRoom(r) + r.left = Length
  /\ r.pc = "send" /\ r.item # "error" => r.got + InRoom(r) + r.left + 1 = Length
  /\ r.pc = "over" /\ r.down /\ r.saw = "nothing" /\ r.room # "error" /\ r.client # "gone" =>
       r.rested >= IDLE \/ r.got + InRoom(r) = Length
  /\ r.saw = "end" => r.room = "free"
  /\ r.saw = "end" /\ r.got < Length => r.rested >= IDLE

Sound(r) == Bounded(r) /\ Whole(r)

TransfersInv == TransfersTypeOK /\ SlotsCounted /\ \A t \in Transfers : Sound(transfer[t])

LEMMA TransferNumbers ==
  /\ MaxTransfers \in Nat /\ IDLE \in Nat /\ IDLE > 0 /\ Length \in Nat
  /\ Long \in Nat /\ Long = 2 * IDLE + 1
BY TransfersConstantsOK DEF Long

LEMMA TransferFields ==
  ASSUME NEW r \in Transfer
  PROVE  /\ r.pc \in {"receive", "read", "send", "store", "open", "new", "over"}
         /\ r.down \in BOOLEAN /\ r.left \in Nat /\ r.left <= Length
         /\ r.item \in {"chunk", "last", "error"} /\ r.room \in {"free", "chunk", "error"}
         /\ r.waited \in Nat /\ r.waited <= IDLE
         /\ r.client \in {"reads", "rests", "gone"} /\ r.got \in Nat /\ r.got <= Length
         /\ r.saw \in {"nothing", "end", "error"}
         /\ r.rests \in Nat /\ r.rests <= Long /\ r.rested \in Nat /\ r.rested <= Long
BY TransferNumbers DEF Transfer, Working

\* A step of one transfer that leaves the slots alone.
LEMMA StaysStep ==
  ASSUME TransfersInv, NEW t \in Transfers, NEW q \in Transfer, Sound(q),
         transfer' = [transfer EXCEPT ![t] = q], UNCHANGED slots,
         Held(q) <=> Held(transfer[t])
  PROVE  TransfersInv'
<1>1. transfer \in [Transfers -> Transfer] /\ slots \in 0 .. MaxTransfers
  BY DEF TransfersInv, TransfersTypeOK
<1>2. TransfersTypeOK'
  BY <1>1 DEF TransfersTypeOK
<1>3. \A a \in Transfers : transfer'[a] = IF a = t THEN q ELSE transfer[a]
  BY <1>1
<1>4. Holding' = Holding
  BY <1>3 DEF Holding, Held
<1>5. SlotsCounted'
  BY <1>4 DEF TransfersInv, SlotsCounted
<1>6. \A a \in Transfers : Sound(transfer'[a])
  BY <1>3 DEF TransfersInv
<1> QED BY <1>2, <1>5, <1>6 DEF TransfersInv, Sound, Bounded, Whole, InRoom

\* One that gives its slot back.
LEMMA EndsStep ==
  ASSUME TransfersInv, NEW t \in Transfers, NEW q \in Transfer, Sound(q),
         transfer' = [transfer EXCEPT ![t] = q], slots' = slots + 1,
         ~Held(q), Held(transfer[t])
  PROVE  TransfersInv'
<1>1. transfer \in [Transfers -> Transfer] /\ slots \in 0 .. MaxTransfers
  BY DEF TransfersInv, TransfersTypeOK
<1>2. \A a \in Transfers : transfer'[a] = IF a = t THEN q ELSE transfer[a]
  BY <1>1
<1>3. Holding' = Holding \ {t} /\ t \in Holding
  BY <1>2 DEF Holding, Held
<1>4. IsFiniteSet(Holding) /\ slots + Cardinality(Holding) = MaxTransfers
  BY DEF TransfersInv, SlotsCounted
<1>5. IsFiniteSet(Holding') /\ Cardinality(Holding') = Cardinality(Holding) - 1
  BY <1>3, <1>4, FS_RemoveElement
<1>6. Cardinality(Holding') \in Nat /\ Cardinality(Holding) \in Nat
  BY <1>4, <1>5, FS_CardinalityType
<1>7. SlotsCounted' /\ slots' \in 0 .. MaxTransfers
  BY <1>1, <1>4, <1>5, <1>6, TransferNumbers DEF SlotsCounted
<1>8. TransfersTypeOK'
  BY <1>1, <1>7 DEF TransfersTypeOK
<1>9. \A a \in Transfers : Sound(transfer'[a])
  BY <1>2 DEF TransfersInv
<1> QED BY <1>7, <1>8, <1>9 DEF TransfersInv, Sound, Bounded, Whole, InRoom

LEMMA TransfersInitHolds == TransfersInit => TransfersInv
<1> SUFFICES ASSUME TransfersInit PROVE TransfersInv
  OBVIOUS
<1>1. PICK r : r = [pc |-> "new", down |-> FALSE, left |-> Length, item |-> "chunk",
                    room |-> "free", waited |-> 0, client |-> "reads", got |-> 0,
                    saw |-> "nothing", rests |-> 0, rested |-> 0]
  OBVIOUS
<1>2. slots = MaxTransfers /\ transfer = [t \in Transfers |-> r]
  BY <1>1 DEF TransfersInit
<1>3. r \in Transfer
  <2>1. Length \in 0 .. Length /\ 0 \in 0 .. Length /\ 0 \in 0 .. IDLE /\ 0 \in 0 .. Long
    BY TransferNumbers
  <2> QED BY <1>1, <2>1 DEF Transfer, Working
<1>4. Sound(r)
  BY <1>1, TransferNumbers DEF Sound, Bounded, Whole, InRoom
<1>5. SlotsCounted
  <2>1. Holding = {}
    BY <1>1, <1>2 DEF Holding, Held
  <2> QED BY <1>2, <2>1, FS_EmptySet, TransferNumbers DEF SlotsCounted
<1> QED BY <1>2, <1>3, <1>4, <1>5, TransferNumbers DEF TransfersInv, TransfersTypeOK

(* Uploads, and downloads that end. *)

LEMMA ReceiveFailsStep == \A t \in Transfers : TransfersInv /\ ReceiveFails(t) => TransfersInv'
<1> SUFFICES ASSUME NEW t \in Transfers, TransfersInv, ReceiveFails(t) PROVE TransfersInv'
  OBVIOUS
<1> DEFINE r == transfer[t]
<1>1. r \in Transfer /\ Sound(r) /\ transfer \in [Transfers -> Transfer]
  BY DEF TransfersInv, TransfersTypeOK
<1>2. PICK q : q = [r EXCEPT !.pc = "over", !.waited = 0]
  OBVIOUS
<1>3. /\ q.pc = "over" /\ q.down = r.down /\ q.left = r.left
      /\ q.item = r.item /\ q.room = r.room /\ q.waited = 0
      /\ q.client = r.client /\ q.got = r.got /\ q.saw = r.saw
      /\ q.rests = r.rests /\ q.rested = r.rested
  BY <1>1, <1>2 DEF Transfer
<1>4. 0 \in 0 .. IDLE
  BY <1>1, TransferFields, TransferNumbers DEF ReceiveFails, Is
<1>5. q \in Transfer
  BY <1>1, <1>2, <1>4 DEF Transfer, Working
<1>6. transfer' = [transfer EXCEPT ![t] = q] /\ slots' = slots + 1
  BY <1>1, <1>2 DEF ReceiveFails, Ends, Goes
<1>7. Sound(q)
  BY <1>1, <1>3, <1>4, TransferFields, TransferNumbers
    DEF Sound, Bounded, Whole, InRoom, ReceiveFails, Is
<1>8. ~Held(q) /\ Held(r)
  BY <1>3 DEF Held, ReceiveFails, Is
<1> QED BY <1>5, <1>6, <1>7, <1>8, EndsStep

LEMMA StoreEndsStep == \A t \in Transfers : TransfersInv /\ StoreEnds(t) => TransfersInv'
<1> SUFFICES ASSUME NEW t \in Transfers, TransfersInv, StoreEnds(t) PROVE TransfersInv'
  OBVIOUS
<1> DEFINE r == transfer[t]
<1>1. r \in Transfer /\ Sound(r) /\ transfer \in [Transfers -> Transfer]
  BY DEF TransfersInv, TransfersTypeOK
<1>2. PICK q : q = [r EXCEPT !.pc = "over", !.waited = 0]
  OBVIOUS
<1>3. /\ q.pc = "over" /\ q.down = r.down /\ q.left = r.left
      /\ q.item = r.item /\ q.room = r.room /\ q.waited = 0
      /\ q.client = r.client /\ q.got = r.got /\ q.saw = r.saw
      /\ q.rests = r.rests /\ q.rested = r.rested
  BY <1>1, <1>2 DEF Transfer
<1>4. 0 \in 0 .. IDLE
  BY <1>1, TransferFields, TransferNumbers DEF StoreEnds, Is
<1>5. q \in Transfer
  BY <1>1, <1>2, <1>4 DEF Transfer, Working
<1>6. transfer' = [transfer EXCEPT ![t] = q] /\ slots' = slots + 1
  BY <1>1, <1>2 DEF StoreEnds, Ends, Goes
<1>7. Sound(q)
  BY <1>1, <1>3, <1>4, TransferFields, TransferNumbers
    DEF Sound, Bounded, Whole, InRoom, StoreEnds, Is
<1>8. ~Held(q) /\ Held(r)
  BY <1>3 DEF Held, StoreEnds, Is
<1> QED BY <1>5, <1>6, <1>7, <1>8, EndsStep

LEMMA OpenFailsStep == \A t \in Transfers : TransfersInv /\ OpenFails(t) => TransfersInv'
<1> SUFFICES ASSUME NEW t \in Transfers, TransfersInv, OpenFails(t) PROVE TransfersInv'
  OBVIOUS
<1> DEFINE r == transfer[t]
<1>1. r \in Transfer /\ Sound(r) /\ transfer \in [Transfers -> Transfer]
  BY DEF TransfersInv, TransfersTypeOK
<1>2. PICK q : q = [r EXCEPT !.pc = "over", !.waited = 0]
  OBVIOUS
<1>3. /\ q.pc = "over" /\ q.down = r.down /\ q.left = r.left
      /\ q.item = r.item /\ q.room = r.room /\ q.waited = 0
      /\ q.client = r.client /\ q.got = r.got /\ q.saw = r.saw
      /\ q.rests = r.rests /\ q.rested = r.rested
  BY <1>1, <1>2 DEF Transfer
<1>4. 0 \in 0 .. IDLE
  BY <1>1, TransferFields, TransferNumbers DEF OpenFails, Is
<1>5. q \in Transfer
  BY <1>1, <1>2, <1>4 DEF Transfer, Working
<1>6. transfer' = [transfer EXCEPT ![t] = q] /\ slots' = slots + 1
  BY <1>1, <1>2 DEF OpenFails, Ends, Goes
<1>7. Sound(q)
  BY <1>1, <1>3, <1>4, TransferFields, TransferNumbers
    DEF Sound, Bounded, Whole, InRoom, OpenFails, Is
<1>8. ~Held(q) /\ Held(r)
  BY <1>3 DEF Held, OpenFails, Is
<1> QED BY <1>5, <1>6, <1>7, <1>8, EndsStep

LEMMA SendFailsStep == \A t \in Transfers : TransfersInv /\ SendFails(t) => TransfersInv'
<1> SUFFICES ASSUME NEW t \in Transfers, TransfersInv, SendFails(t) PROVE TransfersInv'
  OBVIOUS
<1> DEFINE r == transfer[t]
<1>1. r \in Transfer /\ Sound(r) /\ transfer \in [Transfers -> Transfer]
  BY DEF TransfersInv, TransfersTypeOK
<1>2. PICK q : q = [r EXCEPT !.pc = "over", !.waited = 0]
  OBVIOUS
<1>3. /\ q.pc = "over" /\ q.down = r.down /\ q.left = r.left
      /\ q.item = r.item /\ q.room = r.room /\ q.waited = 0
      /\ q.client = r.client /\ q.got = r.got /\ q.saw = r.saw
      /\ q.rests = r.rests /\ q.rested = r.rested
  BY <1>1, <1>2 DEF Transfer
<1>4. 0 \in 0 .. IDLE
  BY <1>1, TransferFields, TransferNumbers DEF SendFails, Is
<1>5. q \in Transfer
  BY <1>1, <1>2, <1>4 DEF Transfer, Working
<1>6. transfer' = [transfer EXCEPT ![t] = q] /\ slots' = slots + 1
  BY <1>1, <1>2 DEF SendFails, Ends, Goes
<1>7. Sound(q)
  BY <1>1, <1>3, <1>4, TransferFields, TransferNumbers
    DEF Sound, Bounded, Whole, InRoom, SendFails, Is
<1>8. ~Held(q) /\ Held(r)
  BY <1>3 DEF Held, SendFails, Is
<1> QED BY <1>5, <1>6, <1>7, <1>8, EndsStep

LEMMA OpenedStep == \A t \in Transfers : TransfersInv /\ Opened(t) => TransfersInv'
<1> SUFFICES ASSUME NEW t \in Transfers, TransfersInv, Opened(t) PROVE TransfersInv'
  OBVIOUS
<1> DEFINE r == transfer[t]
<1>1. r \in Transfer /\ Sound(r) /\ transfer \in [Transfers -> Transfer]
  BY DEF TransfersInv, TransfersTypeOK
<1>2. PICK q : q = [r EXCEPT !.pc = "read", !.down = TRUE]
  OBVIOUS
<1>3. /\ q.pc = "read" /\ q.down = TRUE /\ q.left = r.left
      /\ q.item = r.item /\ q.room = r.room /\ q.waited = r.waited
      /\ q.client = r.client /\ q.got = r.got /\ q.saw = r.saw
      /\ q.rests = r.rests /\ q.rested = r.rested
  BY <1>1, <1>2 DEF Transfer
<1>4. TRUE
  BY <1>1, TransferFields, TransferNumbers DEF Opened, Is
<1>5. q \in Transfer
  BY <1>1, <1>2, <1>4 DEF Transfer, Working
<1>6. transfer' = [transfer EXCEPT ![t] = q] /\ UNCHANGED slots
  BY <1>1, <1>2 DEF Opened, Becomes
<1>7. Sound(q)
  BY <1>1, <1>3, <1>4, TransferFields, TransferNumbers
    DEF Sound, Bounded, Whole, InRoom, Opened, Is
<1>8. Held(q) <=> Held(r)
  BY <1>3 DEF Held, Opened, Is
<1> QED BY <1>5, <1>6, <1>7, <1>8, StaysStep

LEMMA ReadFailsStep == \A t \in Transfers : TransfersInv /\ ReadFails(t) => TransfersInv'
<1> SUFFICES ASSUME NEW t \in Transfers, TransfersInv, ReadFails(t) PROVE TransfersInv'
  OBVIOUS
<1> DEFINE r == transfer[t]
<1>1. r \in Transfer /\ Sound(r) /\ transfer \in [Transfers -> Transfer]
  BY DEF TransfersInv, TransfersTypeOK
<1>2. PICK q : q = [r EXCEPT !.pc = "send", !.item = "error", !.waited = 0]
  OBVIOUS
<1>3. /\ q.pc = "send" /\ q.down = r.down /\ q.left = r.left
      /\ q.item = "error" /\ q.room = r.room /\ q.waited = 0
      /\ q.client = r.client /\ q.got = r.got /\ q.saw = r.saw
      /\ q.rests = r.rests /\ q.rested = r.rested
  BY <1>1, <1>2 DEF Transfer
<1>4. 0 \in 0 .. IDLE
  BY <1>1, TransferFields, TransferNumbers DEF ReadFails, Is
<1>5. q \in Transfer
  BY <1>1, <1>2, <1>4 DEF Transfer, Working
<1>6. transfer' = [transfer EXCEPT ![t] = q] /\ UNCHANGED slots
  BY <1>1, <1>2 DEF ReadFails, Becomes
<1>7. Sound(q)
  BY <1>1, <1>3, <1>4, TransferFields, TransferNumbers
    DEF Sound, Bounded, Whole, InRoom, ReadFails, Is
<1>8. Held(q) <=> Held(r)
  BY <1>3 DEF Held, ReadFails, Is
<1> QED BY <1>5, <1>6, <1>7, <1>8, StaysStep

LEMMA EndStep == \A t \in Transfers : TransfersInv /\ End(t) => TransfersInv'
<1> SUFFICES ASSUME NEW t \in Transfers, TransfersInv, End(t) PROVE TransfersInv'
  OBVIOUS
<1> DEFINE r == transfer[t]
<1>1. r \in Transfer /\ Sound(r) /\ transfer \in [Transfers -> Transfer]
  BY DEF TransfersInv, TransfersTypeOK
<1>2. PICK q : q = [r EXCEPT !.saw = "end"]
  OBVIOUS
<1>3. /\ q.pc = r.pc /\ q.down = r.down /\ q.left = r.left
      /\ q.item = r.item /\ q.room = r.room /\ q.waited = r.waited
      /\ q.client = r.client /\ q.got = r.got /\ q.saw = "end"
      /\ q.rests = r.rests /\ q.rested = r.rested
  BY <1>1, <1>2 DEF Transfer
<1>4. TRUE
  BY <1>1, TransferFields, TransferNumbers DEF End, Is
<1>5. q \in Transfer
  BY <1>1, <1>2, <1>4 DEF Transfer, Working
<1>6. transfer' = [transfer EXCEPT ![t] = q] /\ UNCHANGED slots
  BY <1>1, <1>2 DEF End, Becomes
<1>7. Sound(q)
  BY <1>1, <1>3, <1>4, TransferFields, TransferNumbers
    DEF Sound, Bounded, Whole, InRoom, End, Is
<1>8. Held(q) <=> Held(r)
  BY <1>3 DEF Held, End, Is
<1> QED BY <1>5, <1>6, <1>7, <1>8, StaysStep

LEMMA TakesStep == \A t \in Transfers : TransfersInv /\ Takes(t) => TransfersInv'
<1> SUFFICES ASSUME NEW t \in Transfers, TransfersInv, Takes(t) PROVE TransfersInv'
  OBVIOUS
<1> DEFINE r == transfer[t]
<1>1. /\ r \in Transfer /\ Sound(r)
      /\ transfer \in [Transfers -> Transfer] /\ slots \in 0 .. MaxTransfers
  BY DEF TransfersInv, TransfersTypeOK
<1>2. PICK pc \in {"receive", "open"} :
        Goes(t, pc) /\ slots' = slots - 1 /\ slots > 0 /\ r.pc = "new"
  BY DEF Takes, Is
<1>3. PICK q : q = [r EXCEPT !.pc = pc, !.waited = 0]
  OBVIOUS
<1>4. /\ q.pc = pc /\ q.down = r.down /\ q.left = r.left
      /\ q.item = r.item /\ q.room = r.room /\ q.waited = 0
      /\ q.client = r.client /\ q.got = r.got /\ q.saw = r.saw
      /\ q.rests = r.rests /\ q.rested = r.rested
  BY <1>1, <1>3 DEF Transfer
<1>5. q \in Transfer
  <2>1. 0 \in 0 .. IDLE
    BY TransferNumbers
  <2> QED BY <1>1, <1>3, <2>1 DEF Transfer, Working
<1>6. Sound(q)
  BY <1>1, <1>2, <1>4, TransferFields, TransferNumbers DEF Sound, Bounded, Whole, InRoom
<1>7. transfer' = [transfer EXCEPT ![t] = q]
  BY <1>1, <1>2, <1>3 DEF Goes
<1>8. \A a \in Transfers : transfer'[a] = IF a = t THEN q ELSE transfer[a]
  BY <1>1, <1>7
<1>9. Holding' = Holding \cup {t} /\ t \notin Holding
  BY <1>2, <1>4, <1>8 DEF Holding, Held
<1>10. IsFiniteSet(Holding) /\ slots + Cardinality(Holding) = MaxTransfers
  BY DEF TransfersInv, SlotsCounted
<1>11. IsFiniteSet(Holding') /\ Cardinality(Holding') = Cardinality(Holding) + 1
  BY <1>9, <1>10, FS_AddElement
<1>12. Cardinality(Holding) \in Nat
  BY <1>10, FS_CardinalityType
<1>13. SlotsCounted' /\ slots' \in 0 .. MaxTransfers
  BY <1>1, <1>2, <1>10, <1>11, <1>12, TransferNumbers DEF SlotsCounted
<1>14. TransfersTypeOK'
  BY <1>1, <1>5, <1>7, <1>13 DEF TransfersTypeOK
<1>15. \A a \in Transfers : Sound(transfer'[a])
  BY <1>6, <1>8 DEF TransfersInv
<1> QED BY <1>13, <1>14, <1>15 DEF TransfersInv, Sound, Bounded, Whole, InRoom

LEMMA ReceiveStep == \A t \in Transfers : TransfersInv /\ Receive(t) => TransfersInv'
<1> SUFFICES ASSUME NEW t \in Transfers, TransfersInv, Receive(t) PROVE TransfersInv'
  OBVIOUS
<1> DEFINE r == transfer[t]
<1>1. r \in Transfer /\ Sound(r) /\ transfer \in [Transfers -> Transfer]
  BY DEF TransfersInv, TransfersTypeOK
<1>2. CASE r.left = 0
  <2>2. PICK q : q = [r EXCEPT !.pc = "store", !.waited = 0]
    OBVIOUS
  <2>3. /\ q.pc = "store" /\ q.down = r.down /\ q.left = r.left
        /\ q.item = r.item /\ q.room = r.room /\ q.waited = 0
        /\ q.client = r.client /\ q.got = r.got /\ q.saw = r.saw
        /\ q.rests = r.rests /\ q.rested = r.rested
    BY <1>1, <1>2, <2>2 DEF Transfer
  <2>4. 0 \in 0 .. IDLE
    BY <1>1, <1>2, TransferFields, TransferNumbers DEF Receive, Is
  <2>5. q \in Transfer
    BY <1>1, <1>2, <2>2, <2>4 DEF Transfer, Working
  <2>6. transfer' = [transfer EXCEPT ![t] = q] /\ UNCHANGED slots
    BY <1>1, <1>2, <2>2 DEF Receive, Becomes
  <2>7. Sound(q)
    BY <1>1, <1>2, <2>3, <2>4, TransferFields, TransferNumbers
      DEF Sound, Bounded, Whole, InRoom, Receive, Is
  <2>8. Held(q) <=> Held(r)
    BY <2>3 DEF Held, Receive, Is
  <2> QED BY <2>5, <2>6, <2>7, <2>8, StaysStep
<1>3. CASE r.left # 0
  <2>2. PICK q : q = [r EXCEPT !.left = @ - 1, !.waited = 0]
    OBVIOUS
  <2>3. /\ q.pc = r.pc /\ q.down = r.down /\ q.left = r.left - 1
        /\ q.item = r.item /\ q.room = r.room /\ q.waited = 0
        /\ q.client = r.client /\ q.got = r.got /\ q.saw = r.saw
        /\ q.rests = r.rests /\ q.rested = r.rested
    BY <1>1, <1>3, <2>2 DEF Transfer
  <2>4. 0 \in 0 .. IDLE /\ r.left - 1 \in 0 .. Length
    BY <1>1, <1>3, TransferFields, TransferNumbers DEF Receive, Is
  <2>5. q \in Transfer
    BY <1>1, <1>3, <2>2, <2>4 DEF Transfer, Working
  <2>6. transfer' = [transfer EXCEPT ![t] = q] /\ UNCHANGED slots
    BY <1>1, <1>3, <2>2 DEF Receive, Becomes
  <2>7. Sound(q)
    BY <1>1, <1>3, <2>3, <2>4, TransferFields, TransferNumbers
      DEF Sound, Bounded, Whole, InRoom, Receive, Is
  <2>8. Held(q) <=> Held(r)
    BY <2>3 DEF Held, Receive, Is
  <2> QED BY <2>5, <2>6, <2>7, <2>8, StaysStep
<1> QED BY <1>2, <1>3

LEMMA ReadStep == \A t \in Transfers : TransfersInv /\ Read(t) => TransfersInv'
<1> SUFFICES ASSUME NEW t \in Transfers, TransfersInv, Read(t) PROVE TransfersInv'
  OBVIOUS
<1> DEFINE r == transfer[t]
<1>1. r \in Transfer /\ Sound(r) /\ transfer \in [Transfers -> Transfer]
  BY DEF TransfersInv, TransfersTypeOK
<1>2. CASE r.left = 0
  <2>2. PICK q : q = [r EXCEPT !.pc = "over", !.waited = 0]
    OBVIOUS
  <2>3. /\ q.pc = "over" /\ q.down = r.down /\ q.left = r.left
        /\ q.item = r.item /\ q.room = r.room /\ q.waited = 0
        /\ q.client = r.client /\ q.got = r.got /\ q.saw = r.saw
        /\ q.rests = r.rests /\ q.rested = r.rested
    BY <1>1, <1>2, <2>2 DEF Transfer
  <2>4. 0 \in 0 .. IDLE
    BY <1>1, <1>2, TransferFields, TransferNumbers DEF Read, Is
  <2>5. q \in Transfer
    BY <1>1, <1>2, <2>2, <2>4 DEF Transfer, Working
  <2>6. transfer' = [transfer EXCEPT ![t] = q] /\ slots' = slots + 1
    BY <1>1, <1>2, <2>2 DEF Read, Ends, Goes
  <2>7. Sound(q)
    BY <1>1, <1>2, <2>3, <2>4, TransferFields, TransferNumbers
      DEF Sound, Bounded, Whole, InRoom, Read, Is
  <2>8. ~Held(q) /\ Held(r)
    BY <2>3 DEF Held, Read, Is
  <2> QED BY <2>5, <2>6, <2>7, <2>8, EndsStep
<1>3. CASE r.left # 0
  <2>2. PICK q : q = [r EXCEPT !.pc = "send", !.item = "chunk", !.left = @ - 1, !.waited = 0]
    OBVIOUS
  <2>3. /\ q.pc = "send" /\ q.down = r.down /\ q.left = r.left - 1
        /\ q.item = "chunk" /\ q.room = r.room /\ q.waited = 0
        /\ q.client = r.client /\ q.got = r.got /\ q.saw = r.saw
        /\ q.rests = r.rests /\ q.rested = r.rested
    BY <1>1, <1>3, <2>2 DEF Transfer
  <2>4. 0 \in 0 .. IDLE /\ r.left - 1 \in 0 .. Length
    BY <1>1, <1>3, TransferFields, TransferNumbers DEF Read, Is
  <2>5. q \in Transfer
    BY <1>1, <1>3, <2>2, <2>4 DEF Transfer, Working
  <2>6. transfer' = [transfer EXCEPT ![t] = q] /\ UNCHANGED slots
    BY <1>1, <1>3, <2>2 DEF Read, Becomes
  <2>7. Sound(q)
    BY <1>1, <1>3, <2>3, <2>4, TransferFields, TransferNumbers
      DEF Sound, Bounded, Whole, InRoom, Read, Is
  <2>8. Held(q) <=> Held(r)
    BY <2>3 DEF Held, Read, Is
  <2> QED BY <2>5, <2>6, <2>7, <2>8, StaysStep
<1> QED BY <1>2, <1>3

LEMMA SendStep == \A t \in Transfers : TransfersInv /\ Send(t) => TransfersInv'
<1> SUFFICES ASSUME NEW t \in Transfers, TransfersInv, Send(t) PROVE TransfersInv'
  OBVIOUS
<1> DEFINE r == transfer[t]
<1>1. r \in Transfer /\ Sound(r) /\ transfer \in [Transfers -> Transfer]
  BY DEF TransfersInv, TransfersTypeOK
<1>2. CASE r.item = "error"
  <2>2. PICK q : q = [r EXCEPT !.pc = "over", !.room = "error", !.waited = 0]
    OBVIOUS
  <2>3. /\ q.pc = "over" /\ q.down = r.down /\ q.left = r.left
        /\ q.item = r.item /\ q.room = "error" /\ q.waited = 0
        /\ q.client = r.client /\ q.got = r.got /\ q.saw = r.saw
        /\ q.rests = r.rests /\ q.rested = r.rested
    BY <1>1, <1>2, <2>2 DEF Transfer
  <2>4. 0 \in 0 .. IDLE
    BY <1>1, <1>2, TransferFields, TransferNumbers DEF Send, Is
  <2>5. q \in Transfer
    BY <1>1, <1>2, <2>2, <2>4 DEF Transfer, Working
  <2>6. transfer' = [transfer EXCEPT ![t] = q] /\ slots' = slots + 1
    BY <1>1, <1>2, <2>2 DEF Send, Becomes
  <2>7. Sound(q)
    BY <1>1, <1>2, <2>3, <2>4, TransferFields, TransferNumbers
      DEF Sound, Bounded, Whole, InRoom, Send, Is
  <2>8. ~Held(q) /\ Held(r)
    BY <2>3 DEF Held, Send, Is
  <2> QED BY <2>5, <2>6, <2>7, <2>8, EndsStep
<1>3. CASE r.item # "error"
  <2>2. PICK q : q = [r EXCEPT !.pc = "read", !.room = "chunk", !.waited = 0]
    OBVIOUS
  <2>3. /\ q.pc = "read" /\ q.down = r.down /\ q.left = r.left
        /\ q.item = r.item /\ q.room = "chunk" /\ q.waited = 0
        /\ q.client = r.client /\ q.got = r.got /\ q.saw = r.saw
        /\ q.rests = r.rests /\ q.rested = r.rested
    BY <1>1, <1>3, <2>2 DEF Transfer
  <2>4. 0 \in 0 .. IDLE
    BY <1>1, <1>3, TransferFields, TransferNumbers DEF Send, Is
  <2>5. q \in Transfer
    BY <1>1, <1>3, <2>2, <2>4 DEF Transfer, Working
  <2>6. transfer' = [transfer EXCEPT ![t] = q] /\ UNCHANGED slots
    BY <1>1, <1>3, <2>2 DEF Send, Becomes
  <2>7. Sound(q)
    BY <1>1, <1>3, <2>3, <2>4, TransferFields, TransferNumbers
      DEF Sound, Bounded, Whole, InRoom, Send, Is
  <2>8. Held(q) <=> Held(r)
    BY <2>3 DEF Held, Send, Is
  <2> QED BY <2>5, <2>6, <2>7, <2>8, StaysStep
<1> QED BY <1>2, <1>3

LEMMA TakeStep == \A t \in Transfers : TransfersInv /\ Take(t) => TransfersInv'
<1> SUFFICES ASSUME NEW t \in Transfers, TransfersInv, Take(t) PROVE TransfersInv'
  OBVIOUS
<1> DEFINE r == transfer[t]
<1>1. r \in Transfer /\ Sound(r) /\ transfer \in [Transfers -> Transfer]
  BY DEF TransfersInv, TransfersTypeOK
<1>2. CASE r.room = "chunk"
  <2>2. PICK q : q = [r EXCEPT !.room = "free", !.rests = 0, !.got = @ + 1]
    OBVIOUS
  <2>3. /\ q.pc = r.pc /\ q.down = r.down /\ q.left = r.left
        /\ q.item = r.item /\ q.room = "free" /\ q.waited = r.waited
        /\ q.client = r.client /\ q.got = r.got + 1 /\ q.saw = r.saw
        /\ q.rests = 0 /\ q.rested = r.rested
    BY <1>1, <1>2, <2>2 DEF Transfer
  <2>4. 0 \in 0 .. Long /\ r.got + 1 \in 0 .. Length
    BY <1>1, <1>2, TransferFields, TransferNumbers DEF Take, Sound, Whole, InRoom
  <2>5. q \in Transfer
    BY <1>1, <1>2, <2>2, <2>4 DEF Transfer, Working
  <2>6. transfer' = [transfer EXCEPT ![t] = q] /\ UNCHANGED slots
    BY <1>1, <1>2, <2>2 DEF Take, Becomes
  <2>7. Sound(q)
    BY <1>1, <1>2, <2>3, <2>4, TransferFields, TransferNumbers
      DEF Sound, Bounded, Whole, InRoom, Take
  <2>8. Held(q) <=> Held(r)
    BY <2>3 DEF Held, Take
  <2> QED BY <2>5, <2>6, <2>7, <2>8, StaysStep
<1>3. CASE r.room # "chunk"
  <2>2. PICK q : q = [r EXCEPT !.room = "free", !.rests = 0, !.saw = "error"]
    OBVIOUS
  <2>3. /\ q.pc = r.pc /\ q.down = r.down /\ q.left = r.left
        /\ q.item = r.item /\ q.room = "free" /\ q.waited = r.waited
        /\ q.client = r.client /\ q.got = r.got /\ q.saw = "error"
        /\ q.rests = 0 /\ q.rested = r.rested
    BY <1>1, <1>3, <2>2 DEF Transfer
  <2>4. 0 \in 0 .. Long /\ r.room = "error"
    BY <1>1, <1>3, TransferFields, TransferNumbers DEF Take
  <2>5. q \in Transfer
    BY <1>1, <1>3, <2>2, <2>4 DEF Transfer, Working
  <2>6. transfer' = [transfer EXCEPT ![t] = q] /\ UNCHANGED slots
    <3>1. r.room = "error" /\ r.room # "chunk"
      BY <1>3, <2>4
    <3>2. /\ transfer' = [transfer EXCEPT ![t] =
               [r EXCEPT !.room = "free", !.rests = 0,
                         !.got = IF r.room = "chunk" THEN r.got + 1 ELSE r.got,
                         !.saw = IF r.room = "error" THEN "error" ELSE r.saw]]
          /\ UNCHANGED slots
      BY <1>1 DEF Take, Becomes, Transfer
    <3>3. q = [r EXCEPT !.room = "free", !.rests = 0, !.got = r.got, !.saw = "error"]
      BY <1>1, <2>2 DEF Transfer
    <3> QED BY <3>1, <3>2, <3>3
  <2>7. Sound(q)
    BY <1>1, <1>3, <2>3, <2>4, TransferFields, TransferNumbers
      DEF Sound, Bounded, Whole, InRoom, Take
  <2>8. Held(q) <=> Held(r)
    BY <2>3 DEF Held, Take
  <2> QED BY <2>5, <2>6, <2>7, <2>8, StaysStep
<1> QED BY <1>2, <1>3

LEMMA ClientStep == \A t \in Transfers, client \in {"reads", "rests", "gone"} :
    TransfersInv /\ Client(t, client) => TransfersInv'
<1> SUFFICES ASSUME NEW t \in Transfers, NEW client \in {"reads", "rests", "gone"},
                    TransfersInv, Client(t, client)
             PROVE TransfersInv'
  OBVIOUS
<1> DEFINE r == transfer[t]
<1>1. r \in Transfer /\ Sound(r) /\ transfer \in [Transfers -> Transfer]
  BY DEF TransfersInv, TransfersTypeOK
<1>2. CASE client = "gone" /\ r.pc \in {"receive", "store", "open"}
  <2>2. PICK q : q = [r EXCEPT !.client = client, !.pc = "over", !.waited = 0]
    OBVIOUS
  <2>3. /\ q.pc = "over" /\ q.down = r.down /\ q.left = r.left
        /\ q.item = r.item /\ q.room = r.room /\ q.waited = 0
        /\ q.client = client /\ q.got = r.got /\ q.saw = r.saw
        /\ q.rests = r.rests /\ q.rested = r.rested
    BY <1>1, <1>2, <2>2 DEF Transfer
  <2>4. 0 \in 0 .. IDLE
    BY <1>1, <1>2, TransferFields, TransferNumbers DEF Client
  <2>5. q \in Transfer
    BY <1>1, <1>2, <2>2, <2>4 DEF Transfer, Working
  <2>6. transfer' = [transfer EXCEPT ![t] = q] /\ slots' = slots + 1
    BY <1>1, <1>2, <2>2 DEF Client, Becomes
  <2>7. Sound(q)
    BY <1>1, <1>2, <2>3, <2>4, TransferFields, TransferNumbers
      DEF Sound, Bounded, Whole, InRoom, Client
  <2>8. ~Held(q) /\ Held(r)
    BY <1>2, <2>3 DEF Held, Client
  <2> QED BY <2>5, <2>6, <2>7, <2>8, EndsStep
<1>3. CASE ~(client = "gone" /\ r.pc \in {"receive", "store", "open"})
  <2>2. PICK q : q = [r EXCEPT !.client = client]
    OBVIOUS
  <2>3. /\ q.pc = r.pc /\ q.down = r.down /\ q.left = r.left
        /\ q.item = r.item /\ q.room = r.room /\ q.waited = r.waited
        /\ q.client = client /\ q.got = r.got /\ q.saw = r.saw
        /\ q.rests = r.rests /\ q.rested = r.rested
    BY <1>1, <1>3, <2>2 DEF Transfer
  <2>4. TRUE
    BY <1>1, <1>3, TransferFields, TransferNumbers DEF Client
  <2>5. q \in Transfer
    BY <1>1, <1>3, <2>2, <2>4 DEF Transfer, Working
  <2>6. transfer' = [transfer EXCEPT ![t] = q] /\ UNCHANGED slots
    BY <1>1, <1>3, <2>2 DEF Client, Becomes
  <2>7. Sound(q)
    BY <1>1, <1>3, <2>3, <2>4, TransferFields, TransferNumbers
      DEF Sound, Bounded, Whole, InRoom, Client
  <2>8. Held(q) <=> Held(r)
    BY <2>3 DEF Held, Client
  <2> QED BY <2>5, <2>6, <2>7, <2>8, StaysStep
<1> QED BY <1>2, <1>3

LEMMA ElapsesStep == TransfersInv /\ Elapses => TransfersInv'
<1> SUFFICES ASSUME TransfersInv, Elapses PROVE TransfersInv'
  OBVIOUS
<1>1. transfer \in [Transfers -> Transfer] /\ slots \in 0 .. MaxTransfers
  BY DEF TransfersInv, TransfersTypeOK
<1>2. ASSUME NEW t \in Transfers
      PROVE  transfer'[t] \in Transfer /\ Sound(transfer'[t]) /\ transfer'[t].pc = transfer[t].pc
  <2> DEFINE r == transfer[t]
             rests == IF r.room # "free" THEN Up(r.rests) ELSE 0
             waited == IF r.pc \in Waiting THEN r.waited + 1 ELSE r.waited
             rested == IF rests > r.rested THEN rests ELSE r.rested
  <2>1. r \in Transfer /\ Sound(r) /\ ~Due(t)
    BY <1>1, <1>2 DEF TransfersInv, Elapses
  <2>2. transfer'[t] = [r EXCEPT !.waited = waited, !.rests = rests, !.rested = rested]
    BY <2>1 DEF Elapses, Transfer
  <2>3. PICK q : q = [r EXCEPT !.waited = waited, !.rests = rests, !.rested = rested]
    OBVIOUS
  <2>4. /\ q.pc = r.pc /\ q.down = r.down /\ q.left = r.left
        /\ q.item = r.item /\ q.room = r.room /\ q.waited = waited
        /\ q.client = r.client /\ q.got = r.got /\ q.saw = r.saw
        /\ q.rests = rests /\ q.rested = rested
    BY <2>1, <2>3 DEF Transfer
  <2>5. /\ r.rests \in Nat /\ r.rested \in Nat /\ r.rests <= Long /\ r.rested <= Long
        /\ r.waited \in Nat /\ r.waited <= IDLE
    BY <2>1, TransferFields
  <2>6. rests \in 0 .. Long /\ rested \in 0 .. Long
    BY <2>5, TransferNumbers DEF Up
  <2>7. waited \in 0 .. IDLE
    BY <2>1, <2>5, TransferNumbers DEF Due
  <2>8. q \in Transfer
    BY <2>1, <2>3, <2>6, <2>7 DEF Transfer, Working
  <2>9. rests = (IF r.room = "free" THEN 0 ELSE IF r.rests < Long THEN r.rests + 1 ELSE Long)
        /\ rested >= rests /\ rested >= r.rested
    BY <2>5, TransferNumbers DEF Up
  <2>10. Bounded(q)
    BY <2>1, <2>4, <2>5, <2>9, TransferNumbers DEF Sound, Bounded, Waiting
  <2>11. Whole(q)
    <3>1. q.pc = "send" /\ q.room # "free" => q.rests >= q.waited
      BY <2>1, <2>4, <2>5, <2>9, TransferNumbers DEF Sound, Bounded, Whole, Waiting
    <3> HIDE DEF rests, waited, rested
    <3> QED BY <2>1, <2>4, <2>5, <2>6, <2>9, <3>1, TransferFields, TransferNumbers
            DEF Sound, Whole, InRoom
  <2> QED BY <2>2, <2>3, <2>4, <2>8, <2>10, <2>11 DEF Sound
<1>3. transfer' = [t \in Transfers |-> transfer'[t]] /\ UNCHANGED slots
  BY DEF Elapses
<1>4. TransfersTypeOK'
  BY <1>1, <1>2, <1>3 DEF TransfersTypeOK
<1>5. Holding' = Holding
  BY <1>2 DEF Holding, Held
<1>6. SlotsCounted'
  BY <1>3, <1>5 DEF TransfersInv, SlotsCounted
<1> QED BY <1>2, <1>4, <1>6 DEF TransfersInv, Sound, Bounded, Whole, InRoom

\* The invariant: every slot is free or one transfer's, and every transfer's
\* chunks, waits and rests are accounted for.
THEOREM TransfersInvariant == TransfersSpec => []TransfersInv
<1>1. TransfersInit => TransfersInv
  BY TransfersInitHolds
<1>2. TransfersInv /\ [TransfersNext]_transferVars => TransfersInv'
  <2> SUFFICES ASSUME TransfersInv, [TransfersNext]_transferVars PROVE TransfersInv'
    OBVIOUS
  <2>1. CASE UNCHANGED transferVars
    <3>1. TransfersTypeOK' /\ SlotsCounted'
      BY <2>1
        DEF TransfersInv, TransfersTypeOK, transferVars, SlotsCounted, Holding, Held
    <3>2. \A t \in Transfers : Sound(transfer[t])'
      BY <2>1 DEF TransfersInv, transferVars, Sound, Bounded, Whole, InRoom
    <3> QED BY <3>1, <3>2 DEF TransfersInv
  <2>2. CASE TransfersNext
    BY <2>2, TakesStep, ReceiveStep, ReceiveFailsStep, StoreEndsStep, OpenFailsStep, OpenedStep,
       ReadStep, ReadFailsStep, SendStep, SendFailsStep, TakeStep, EndStep, ClientStep, ElapsesStep
       DEF TransfersNext
  <2> QED BY <2>1, <2>2
<1> QED BY <1>1, <1>2, PTL DEF TransfersSpec

\* The semaphore's permits are the slots no transfer holds, so that none is lost
\* or given back twice, for any number of slots and transfers (state.rs 18-22).
THEOREM SlotsAllCounted == TransfersSpec => []SlotsCounted
<1>1. TransfersInv => SlotsCounted
  BY DEF TransfersInv
<1> QED BY <1>1, TransfersInvariant, PTL

\* A client that does not read costs its slot no more than twice IDLE, for any
\* IDLE, chunks and room in the channel (state.rs 18-22, transfer.rs 50-51).
THEOREM SlotsAreFreed == TransfersSpec => []SlotFreed
<1>1. TransfersInv => SlotFreed
  <2> SUFFICES ASSUME TransfersInv, NEW t \in Transfers, Holds(t)
               PROVE  transfer[t].rests <= 2 * IDLE
    BY DEF SlotFreed
  <2>1. transfer[t] \in Transfer /\ Bounded(transfer[t])
    BY DEF TransfersInv, TransfersTypeOK, Sound
  <2> QED BY <2>1, TransferFields, TransferNumbers DEF Bounded, Holds
<1> QED BY <1>1, TransfersInvariant, PTL

\* No download ends short of its object without an error or a rest of the client,
\* for bodies of any length (transfer.rs 50-51).
THEOREM BodiesEndHonestly == TransfersSpec => []EndsHonestly
<1>1. TransfersInv => EndsHonestly
  BY DEF TransfersInv, Sound, Whole, EndsHonestly
<1> QED BY <1>1, TransfersInvariant, PTL
==============================================================================
