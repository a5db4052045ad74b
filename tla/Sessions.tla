------------------------------ MODULE Sessions ------------------------------
(***************************************************************************)
(* Who is let into the dashboard (server/src/console/session.rs,           *)
(* tokens.rs, cached.rs, forge_sessions.rs, and admit of console.rs).      *)
(*                                                                         *)
(* The store keeps the list of dashboard tokens, which only a command      *)
(* changes that runs beside the servers, and the key that cookies are      *)
(* sealed with.  Each replica keeps the key once it read it, the list for  *)
(* a while, and in memory the sessions that forge tokens opened on it.     *)
(***************************************************************************)
EXTENDS Integers

CONSTANTS
  Servers,    \* replicas
  Browsers,   \* requests in flight at a time
  Commands,   \* runs of lfsx-server dashboard token
  Hashes,     \* tokens the command may issue, as their hashes
  Ids,        \* sessions forge tokens may open
  Keys,       \* keys a replica may make up
  NoKey,
  EVERY,      \* how long a list that was read is good
  LIFETIME,   \* how long a session is
  LoadTime,   \* bound: how long an answer of the store is on its way
  MaxTime,    \* bound: the last second of the model
  MaxOutages  \* bound: restarts

ASSUME SessionsConstantsOK ==
  /\ NoKey \notin Keys
  /\ Hashes \cap Ids = {}
  /\ EVERY \in Nat \ {0}
  /\ LIFETIME \in Nat \ {0}
  /\ LoadTime \in Nat
  /\ MaxTime \in Nat
  /\ MaxOutages \in Nat

VARIABLES
  time,      \* the clock
  issued,    \* dashboard-tokens.json
  command,   \* the commands
  kept,      \* session.key
  key,       \* AppState.session_key
  keying,    \* what a replica does about it
  slot,      \* Registry.cached
  held,      \* ForgeSessions.held: until when
  cookies,   \* cookies handed out
  browser,   \* the requests
  outages,   \* restarts
  listed,    \* history: the last second at which the store listed a token
  revoked,   \* history: tokens somebody was told are revoked
  ended,     \* history: sessions that were signed out, refused or lost
  admitted   \* history: the last request that was let in

tokenVars == <<issued, command, listed, revoked>>

keyVars == <<kept, key, keying>>

memory == <<slot, held, ended>>

sessionVars ==
  <<time, tokenVars, keyVars, memory, cookies, browser, outages, admitted>>

-----------------------------------------------------------------------------
Never == -1

Quiet == [pc |-> "quiet"]

\* Claims under the key they are sealed with.  of is a token's hash or the id
\* of a session.
Cookie == [key : Keys, of : Hashes \cup Ids, expires : Int]

\* of is what the request is about; sealed and expires are of its cookie, if
\* it has one; got is what the store answered at second read.  late is
\* history: the session had ended when the request came.
Request ==
  [pc : {"open", "list", "load", "loaded", "forge", "seal"}, at : Servers,
   does : {"signs in", "views", "signs out"}, of : Hashes \cup Ids,
   sealed : Keys \cup {NoKey}, expires : Int,
   got : SUBSET Hashes, read : Int, late : BOOLEAN]

Command == [got : SUBSET Hashes, hash : Hashes, does : {"creates", "revokes"}]

NoList == [at |-> Never, list |-> {}]

SessionsTypeOK ==
  /\ time \in 0 .. MaxTime
  /\ issued \subseteq Hashes
  /\ command \in [Commands -> Command \cup {Quiet}]
  /\ kept \in Keys \cup {NoKey}
  /\ key \in [Servers -> Keys \cup {NoKey}]
  /\ keying \in [Servers -> {"none", "create", "reread"}]
  /\ slot \in [Servers -> [at : Never .. time, list : SUBSET Hashes]]
  /\ held \in [Servers -> [Ids -> Never .. time + LIFETIME]]
  /\ cookies \subseteq Cookie
  /\ \A c \in cookies : c.expires \in LIFETIME .. time + LIFETIME
  /\ browser \in [Browsers -> Request \cup {Quiet}]
  /\ outages \in 0 .. MaxOutages
  /\ listed \in [Hashes -> Never .. time]
  /\ revoked \subseteq Hashes
  /\ ended \subseteq Ids
  /\ admitted \in [late : BOOLEAN, overdue : Int]

SessionsInit ==
  /\ time = 0
  /\ issued = {}
  /\ command = [c \in Commands |-> Quiet]
  /\ kept = NoKey
  /\ key = [s \in Servers |-> NoKey]
  /\ keying = [s \in Servers |-> "none"]
  /\ slot = [s \in Servers |-> NoList]
  /\ held = [s \in Servers |-> [i \in Ids |-> Never]]
  /\ cookies = {}
  /\ browser = [b \in Browsers |-> Quiet]
  /\ outages = 0
  /\ listed = [h \in Hashes |-> Never]
  /\ revoked = {}
  /\ ended = {}
  /\ admitted = [late |-> FALSE, overdue |-> 0]

-----------------------------------------------------------------------------
(* lfsx-server dashboard token: the list is read and then written, by      *)
(* however many commands at a time.                                        *)

\* A token is random: none is made twice.
Fresh(h) == listed[h] = Never /\ \A c \in Commands : command[c] # Quiet => command[c].hash # h

CommandReads(c, h) ==
  /\ command[c] = Quiet
  /\ \E does \in {"creates", "revokes"} :
       /\ IF does = "creates" THEN Fresh(h) ELSE h \in issued
       /\ command' = [command EXCEPT ![c] = [got |-> issued, hash |-> h, does |-> does]]
  /\ UNCHANGED <<time, issued, listed, revoked, keyVars, memory, cookies, browser,
                 outages, admitted>>

\* What the command writes.
Edited(c) ==
  IF c.does = "creates" THEN c.got \cup {c.hash} ELSE c.got \ {c.hash}

\* listed: up to this second what the list loses was on it, and what it gains
\* is from this second on.
CommandWrites(c) ==
  /\ command[c] # Quiet
  /\ issued' = Edited(command[c])
  /\ listed' = [h \in Hashes |-> IF h \in issued \cup issued' THEN time ELSE listed[h]]
  /\ revoked' =
       IF command[c].does = "revokes" THEN revoked \cup {command[c].hash} ELSE revoked
  /\ command' = [command EXCEPT ![c] = Quiet]
  /\ UNCHANGED <<time, keyVars, memory, cookies, browser, outages, admitted>>

-----------------------------------------------------------------------------
(* The key: OnceCell.get_or_try_init lets one request of a replica at a    *)
(* time look for it.  Any request asks for it that signs in, or comes with *)
(* a cookie, whatever the cookie is.                                       *)

KeyRead(s) ==
  /\ key[s] = NoKey
  /\ keying[s] = "none"
  /\ IF kept = NoKey
       THEN keying' = [keying EXCEPT ![s] = "create"] /\ UNCHANGED key
       ELSE key' = [key EXCEPT ![s] = kept] /\ UNCHANGED keying
  /\ UNCHANGED <<time, kept, tokenVars, memory, cookies, browser, outages, admitted>>

\* Mutant of KeyCreate: written like any other file.
KeyOverwrite(s, k) ==
  /\ keying[s] = "create"
  /\ kept' = k
  /\ keying' = [keying EXCEPT ![s] = "reread"]
  /\ UNCHANGED <<time, key, tokenVars, memory, cookies, browser, outages, admitted>>

\* create_meta: a key that is there stays.
KeyCreate(s, k) ==
  /\ keying[s] = "create"
  /\ kept' = IF kept = NoKey THEN k ELSE kept
  /\ keying' = [keying EXCEPT ![s] = "reread"]
  /\ UNCHANGED <<time, key, tokenVars, memory, cookies, browser, outages, admitted>>

KeyReread(s) ==
  /\ keying[s] = "reread"
  /\ key' = [key EXCEPT ![s] = kept]
  /\ keying' = [keying EXCEPT ![s] = "none"]
  /\ UNCHANGED <<time, kept, tokenVars, memory, cookies, browser, outages, admitted>>

\* The store fails, or the request that looked for the key is dropped.
KeyFails(s) ==
  /\ keying[s] # "none"
  /\ keying' = [keying EXCEPT ![s] = "none"]
  /\ UNCHANGED <<time, kept, key, tokenVars, memory, cookies, browser, outages, admitted>>

-----------------------------------------------------------------------------
(* Requests.                                                               *)

At(b, s, pc) == browser[b] # Quiet /\ browser[b].at = s /\ browser[b].pc = pc

Begin(b, r) ==
  /\ browser[b] = Quiet
  /\ browser' = [browser EXCEPT ![b] = r]
  /\ UNCHANGED <<time, tokenVars, keyVars, memory, cookies, outages, admitted>>

\* The id of a session is random: nobody has it yet.
Unused(i) ==
  /\ i \notin ended
  /\ \A s \in Servers : held[s][i] = Never
  /\ \A b \in Browsers : browser[b] # Quiet => browser[b].of # i

\* sign_in: with a token that was issued, or one of the forge's.
SignIn(b, s, x) ==
  /\ x \in Ids => Unused(x)
  /\ Begin(b, [pc |-> IF x \in Hashes THEN "list" ELSE "forge", at |-> s,
               does |-> "signs in", of |-> x, sealed |-> NoKey, expires |-> Never,
               got |-> {}, read |-> Never, late |-> FALSE])

\* viewer and sign_out: with a cookie.
Present(b, s, c, does) ==
  Begin(b, [pc |-> "open", at |-> s, does |-> does, of |-> c.of,
            sealed |-> c.key, expires |-> c.expires, got |-> {}, read |-> Never,
            late |-> c.of \in ended \/ c.expires <= time])

Moves(b, pc) == browser' = [browser EXCEPT ![b].pc = pc]

Leaves(b) == browser' = [browser EXCEPT ![b] = Quiet]

\* history: a token is overdue by as long as the store has not listed it.
Admits(b) ==
  LET x == browser[b].of IN
  /\ Leaves(b)
  /\ admitted' =
       [late |-> browser[b].late,
        overdue |-> IF x \in Hashes \ issued THEN time - listed[x] ELSE 0]

\* Mutant of Closed: the cookie is taken back and no more.
ClosedForTheBrowser(s, x) ==
  /\ UNCHANGED <<slot, held>>
  /\ ended' = IF x \in Hashes \/ held[s][x] = Never THEN ended ELSE ended \cup {x}

\* ForgeSessions::close.
Closed(s, x) ==
  IF x \in Ids
    THEN /\ held' = [held EXCEPT ![s][x] = Never]
         /\ ended' = IF held[s][x] = Never THEN ended ELSE ended \cup {x}
         /\ UNCHANGED slot
    ELSE UNCHANGED memory

\* open, and what the cookie is about.  A forge session is only known where
\* it was opened.
Open(b) ==
  LET r == browser[b]
      s == r.at
      opens == r.sealed = key[s] /\ r.expires > time
  IN /\ r.pc = "open"
     /\ key[s] # NoKey
     /\ \/ /\ ~opens \/ (r.does = "views" /\ r.of \in Ids /\ held[s][r.of] <= time)
           /\ Leaves(b)
           /\ UNCHANGED memory
        \/ /\ opens /\ r.does = "signs out"
           /\ Closed(s, r.of)
           /\ Leaves(b)
        \/ /\ opens /\ r.does = "views"
           /\ IF r.of \in Hashes THEN Moves(b, "list")
                                 ELSE held[s][r.of] > time /\ Moves(b, "forge")
           /\ UNCHANGED memory
     /\ UNCHANGED <<time, tokenVars, keyVars, cookies, outages, admitted>>

\* holder and still_issued, once the list is there.
Judges(b, list) ==
  IF browser[b].of \notin list THEN Leaves(b) /\ UNCHANGED admitted
  ELSE IF browser[b].does = "views" THEN Admits(b)
  ELSE Moves(b, "seal") /\ UNCHANGED admitted

\* Mutant of Hit: a list that is asked for often is good for ever.
HitAgain(b, s) ==
  /\ time - slot[s].at < EVERY
  /\ slot' = [slot EXCEPT ![s].at = time]
  /\ Judges(b, slot[s].list)

Hit(b, s) ==
  /\ time - slot[s].at < EVERY
  /\ UNCHANGED slot
  /\ Judges(b, slot[s].list)

\* Cached::get: nobody else of the replica gets past while one loads.
List(b) ==
  LET s == browser[b].at IN
  /\ browser[b].pc = "list"
  /\ \A other \in Browsers : ~At(other, s, "load") /\ ~At(other, s, "loaded")
  /\ IF slot[s].at # Never /\ time - slot[s].at < EVERY
       THEN Hit(b, s)
       ELSE Moves(b, "load") /\ UNCHANGED <<slot, admitted>>
  /\ UNCHANGED <<time, tokenVars, keyVars, held, ended, cookies, outages>>

Load(b) ==
  /\ browser[b].pc = "load"
  /\ browser' =
       [browser EXCEPT ![b].pc = "loaded", ![b].got = issued, ![b].read = time]
  /\ UNCHANGED <<time, tokenVars, keyVars, memory, cookies, outages, admitted>>

Loaded(b) ==
  LET s == browser[b].at IN
  /\ browser[b].pc = "loaded"
  /\ slot' = [slot EXCEPT ![s] = [at |-> time, list |-> browser[b].got]]
  /\ Judges(b, browser[b].got)
  /\ UNCHANGED <<time, tokenVars, keyVars, held, ended, cookies, outages>>

\* forge_admin: an admin, or not any more, and then still_admin closes the
\* session.
ForgeAccepts(b) ==
  LET r == browser[b] IN
  /\ r.pc = "forge"
  /\ IF r.does = "views" THEN Admits(b) /\ UNCHANGED memory
     ELSE /\ held' =
               [held EXCEPT ![r.at] = [i \in Ids |->
                  IF i = r.of THEN time + LIFETIME
                  ELSE IF @[i] > time THEN @[i] ELSE Never]]
          /\ Moves(b, "seal")
          /\ UNCHANGED <<slot, ended, admitted>>
  /\ UNCHANGED <<time, tokenVars, keyVars, cookies, outages>>

ForgeRefuses(b) ==
  /\ browser[b].pc = "forge"
  /\ Leaves(b)
  /\ IF browser[b].does = "views" THEN Closed(browser[b].at, browser[b].of)
                                  ELSE UNCHANGED memory
  /\ UNCHANGED <<time, tokenVars, keyVars, cookies, outages, admitted>>

\* Mutant of Seal: a cookie lasts from when its session ends.
SealLonger(b) ==
  LET r == browser[b]
      from == IF r.of \in Ids THEN held[r.at][r.of] ELSE time
  IN /\ r.pc = "seal"
     /\ key[r.at] # NoKey
     /\ cookies' =
          cookies \cup {[key |-> key[r.at], of |-> r.of, expires |-> from + LIFETIME]}
     /\ Leaves(b)
     /\ UNCHANGED <<time, tokenVars, keyVars, memory, outages, admitted>>

\* seal.
Seal(b) ==
  LET r == browser[b] IN
  /\ r.pc = "seal"
  /\ key[r.at] # NoKey
  /\ cookies' =
       cookies \cup {[key |-> key[r.at], of |-> r.of, expires |-> time + LIFETIME]}
  /\ Leaves(b)
  /\ UNCHANGED <<time, tokenVars, keyVars, memory, outages, admitted>>

\* The store or the forge fails, or the browser goes; what it holds goes too.
Drop(b) ==
  /\ browser[b] # Quiet
  /\ Leaves(b)
  /\ UNCHANGED <<time, tokenVars, keyVars, memory, cookies, outages, admitted>>

Outage(s) ==
  /\ outages < MaxOutages
  /\ outages' = outages + 1
  /\ key' = [key EXCEPT ![s] = NoKey]
  /\ keying' = [keying EXCEPT ![s] = "none"]
  /\ slot' = [slot EXCEPT ![s] = NoList]
  /\ ended' = ended \cup {i \in Ids : held[s][i] # Never}
  /\ held' = [held EXCEPT ![s] = [i \in Ids |-> Never]]
  /\ browser' = [b \in Browsers |->
       IF browser[b] # Quiet /\ browser[b].at = s THEN Quiet ELSE browser[b]]
  /\ UNCHANGED <<time, tokenVars, kept, cookies, admitted>>

\* The store does not take longer than LoadTime.
Second ==
  /\ time < MaxTime
  /\ \A b \in Browsers :
       browser[b].pc = "loaded" => time - browser[b].read < LoadTime
  /\ time' = time + 1
  /\ UNCHANGED <<tokenVars, keyVars, memory, cookies, browser, outages, admitted>>

SessionsNext ==
  \/ \E c \in Commands, h \in Hashes : CommandReads(c, h)
  \/ \E c \in Commands : CommandWrites(c)
  \/ \E s \in Servers :
       \/ KeyRead(s) \/ KeyReread(s) \/ KeyFails(s) \/ Outage(s)
       \/ \E k \in Keys : KeyCreate(s, k)
  \/ \E b \in Browsers, s \in Servers :
       \/ \E x \in Hashes \cup Ids : SignIn(b, s, x)
       \/ \E c \in cookies, does \in {"views", "signs out"} : Present(b, s, c, does)
  \/ \E b \in Browsers :
       \/ Open(b) \/ List(b) \/ Load(b) \/ Loaded(b) \/ Seal(b) \/ Drop(b)
       \/ ForgeAccepts(b) \/ ForgeRefuses(b)
  \/ Second

SessionsSpec == SessionsInit /\ [][SessionsNext]_sessionVars

-----------------------------------------------------------------------------
(* Properties.                                                             *)

\* Replicas that start at the same time over a store without a key come to
\* seal with the same one, also if the store fails, a request that makes the
\* key is dropped or a replica restarts half way: a cookie one of them handed
\* out opens on all (session.rs 66-86).
KeyAgreed ==
  /\ \A s \in Servers : key[s] # NoKey => key[s] = kept
  /\ \A c \in cookies : c.key = kept

\* A token opens nothing once the store has not listed it for as long as a
\* list is good and the store takes to answer: however often it is asked for,
\* and whoever loads the list (tokens.rs 118-147, cached.rs; "every replica
\* reads it back within 30 seconds", docs/dashboard.md).
RevokedGone == admitted.overdue < EVERY + LoadTime

\* A session that was signed out, whose owner the forge refused, that expired
\* or whose replica restarted lets in no request that comes afterwards, however
\* that request meets others of the same session (session.rs 149-162, 250-264).
EndedStaysEnded == ~admitted.late

\* "Revoking a token ends the sessions it opened" (docs/dashboard.md 36): a
\* token that a command said is revoked is not issued.  Two commands at a time
\* break it.
RevokedStays == revoked \cap issued = {}
=============================================================================
