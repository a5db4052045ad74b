----------------------------- MODULE AppTokens ------------------------------
(***************************************************************************)
(* The server's own identity at GitHub (server/src/auth/github/app.rs):    *)
(* what the lookups of anonymous callers ask with.                         *)
(*                                                                         *)
(* An App signs a JWT, asks with it where it is installed, and has a token *)
(* minted for that installation.  The JWT, the token of an organization    *)
(* and the repositories without an installation are remembered, each for   *)
(* its own time, and no lock is held over a call.  The model has the       *)
(* repositories of one organization; the forge is external.                *)
(***************************************************************************)
EXTENDS Integers

CONSTANTS
  Seekers,          \* lookups in flight
  AppRepos,         \* repositories of the organization
  JWT_VALID_FOR,
  JWT_REUSED_FOR,
  TokenLife,        \* what the forge mints a token for
  Slack,            \* the minute before its end that it is not used in
  RejectionTTL,     \* rejection_ttl
  CallTime,         \* the client's timeout, of each call
  MaxInstalls       \* bound: installations made or withdrawn

ASSUME AppConstantsOK ==
  /\ {JWT_VALID_FOR, JWT_REUSED_FOR, TokenLife, Slack, RejectionTTL, CallTime} \subseteq Nat \ {0}
  /\ JWT_REUSED_FOR + 2 * CallTime <= JWT_VALID_FOR
  /\ CallTime <= Slack
  /\ 2 * CallTime <= TokenLife
  /\ MaxInstalls \in Nat

VARIABLES
  covered,      \* repositories the App is installed on
  installs,
  inside,       \* history: for how long it has been
  signed,       \* App.signed: for how long it is used, and is good
  grant,        \* App.grants, of the organization: the same
  uninstalled,  \* App.uninstalled: for how long
  seeker        \* the lookups

appVars == <<covered, installs, inside, signed, grant, uninstalled, seeker>>

-----------------------------------------------------------------------------
(* Times are what is left of them; 0 is over.                              *)

Nothing == [use |-> 0, life |-> 0]

Free == [pc |-> "free"]

\* Longer than anything is remembered.
Long == RejectionTTL + CallTime

Calling == {"locate", "located", "mint", "minted"}

\* jwt is what is left of the JWT it asks with, by of the call it waits for, and
\* token of the token it got.  ago is history: how long the App had been
\* installed when the lookup was told that it is not.
Seeker ==
  [pc : Calling \cup {"token", "none"}, repo : AppRepos, jwt : 0 .. JWT_VALID_FOR,
   by : 0 .. CallTime, answer : {"nothing", "found", "absent", "denied", "other"},
   token : 0 .. TokenLife, ago : 0 .. Long]

AppTypeOK ==
  /\ covered \subseteq AppRepos
  /\ installs \in 0 .. MaxInstalls
  /\ inside \in [AppRepos -> 0 .. Long]
  /\ signed \in [use : 0 .. JWT_REUSED_FOR, life : 0 .. JWT_VALID_FOR]
  /\ grant \in [use : 0 .. TokenLife, life : 0 .. TokenLife]
  /\ uninstalled \in [AppRepos -> 0 .. RejectionTTL]
  /\ seeker \in [Seekers -> Seeker \cup {Free}]

AppInit ==
  /\ covered \in SUBSET AppRepos
  /\ installs = 0
  /\ inside = [r \in AppRepos |-> IF r \in covered THEN Long ELSE 0]
  /\ signed = Nothing
  /\ grant = Nothing
  /\ uninstalled = [r \in AppRepos |-> 0]
  /\ seeker = [s \in Seekers |-> Free]

Puts(s, r) == seeker' = [seeker EXCEPT ![s] = r]

In(s, pc) == seeker[s].pc = pc

Less(n) == IF n = 0 THEN 0 ELSE n - 1

-----------------------------------------------------------------------------
\* Mutant of Excused: a repository without an installation speaks for its
\* organization, as a token does.
ExcusedByOrganization(r) == \E q \in AppRepos : uninstalled[q] > 0

\* The App was not installed there when it was last asked.
Excused(r) == uninstalled[r] > 0

\* jwt: the last one, or one that is signed now.
Jwt ==
  IF signed.use > 0 THEN signed ELSE [use |-> JWT_REUSED_FOR, life |-> JWT_VALID_FOR]

\* token, up to its first call.
Seek(s, r) ==
  LET new == [pc |-> "locate", repo |-> r, jwt |-> 0, by |-> 0, answer |-> "nothing",
              token |-> 0, ago |-> 0]
  IN
  /\ seeker[s] = Free
  /\ CASE grant.use > 0 ->
            Puts(s, [new EXCEPT !.pc = "token", !.token = grant.life]) /\ UNCHANGED signed
       [] grant.use = 0 /\ Excused(r) ->
            Puts(s, [new EXCEPT !.pc = "none", !.ago = inside[r]]) /\ UNCHANGED signed
       [] OTHER ->
            Puts(s, [new EXCEPT !.jwt = Jwt.life, !.by = CallTime]) /\ signed' = Jwt
  /\ UNCHANGED <<covered, installs, inside, grant, uninstalled>>

\* The forge answers where the App is installed.  It denies a JWT that has
\* ended, or that its own clock or a new key makes out of one.
Locates(s, answer) ==
  LET r == seeker[s] IN
  /\ In(s, "locate")
  /\ r.jwt = 0 => answer = "denied"
  /\ answer = "found" => r.repo \in covered
  /\ answer = "absent" => r.repo \notin covered
  /\ Puts(s, [r EXCEPT !.pc = "located", !.answer = answer])
  /\ UNCHANGED <<covered, installs, inside, signed, grant, uninstalled>>

\* It is not installed: that is remembered of the repository.  A JWT that was
\* denied is not used again.
Located(s) ==
  LET r == seeker[s] IN
  /\ In(s, "located")
  /\ uninstalled' = IF r.answer # "absent" THEN uninstalled
                    ELSE [uninstalled EXCEPT ![r.repo] = RejectionTTL]
  /\ signed' = IF r.answer = "denied" THEN Nothing ELSE signed
  /\ Puts(s, CASE r.answer = "found" -> [r EXCEPT !.pc = "mint", !.by = CallTime]
               [] r.answer = "absent" -> [r EXCEPT !.pc = "none", !.jwt = 0, !.by = 0,
                                                   !.ago = inside[r.repo]]
               [] OTHER -> Free)
  /\ UNCHANGED <<covered, installs, inside, grant>>

\* The forge mints a token for the installation.
Mints(s) ==
  LET r == seeker[s] IN
  /\ In(s, "mint")
  /\ r.jwt > 0
  /\ covered # {}
  /\ Puts(s, [r EXCEPT !.pc = "minted", !.token = TokenLife])
  /\ UNCHANGED <<covered, installs, inside, signed, grant, uninstalled>>

\* Mutant of Usable: to its end.
UsableToTheEnd(life) == life

\* For how long a token is used.
Usable(life) == IF life < Slack THEN 0 ELSE life - Slack

Minted(s) ==
  LET r == seeker[s] IN
  /\ In(s, "minted")
  /\ grant' = [use |-> Usable(r.token), life |-> r.token]
  /\ Puts(s, [r EXCEPT !.pc = "token", !.jwt = 0, !.by = 0])
  /\ UNCHANGED <<covered, installs, inside, signed, uninstalled>>

\* A call is lost, refused or given up.
SeekFails(s) ==
  /\ seeker[s].pc \in Calling
  /\ Puts(s, Free)
  /\ UNCHANGED <<covered, installs, inside, signed, grant, uninstalled>>

Sought(s) ==
  /\ seeker[s].pc \in {"token", "none"}
  /\ Puts(s, Free)
  /\ UNCHANGED <<covered, installs, inside, signed, grant, uninstalled>>

-----------------------------------------------------------------------------
(* The owner of the organization, and time.                                *)

Installs(r) ==
  /\ installs < MaxInstalls
  /\ installs' = installs + 1
  /\ covered' = IF r \in covered THEN covered \ {r} ELSE covered \cup {r}
  /\ inside' = [inside EXCEPT ![r] = 0]
  /\ UNCHANGED <<signed, grant, uninstalled, seeker>>

\* A call that has taken CallTime is over, and a lookup that knows what to ask
\* with has asked, before time passes.
SecondPasses ==
  /\ \A s \in Seekers : seeker[s] = Free \/ (seeker[s].pc \in Calling /\ seeker[s].by > 0)
  /\ inside' = [r \in AppRepos |-> IF r \in covered /\ inside[r] < Long THEN inside[r] + 1
                                   ELSE inside[r]]
  /\ signed' = [use |-> Less(signed.use), life |-> Less(signed.life)]
  /\ grant' = [use |-> Less(grant.use), life |-> Less(grant.life)]
  /\ uninstalled' = [r \in AppRepos |-> Less(uninstalled[r])]
  /\ seeker' = [s \in Seekers |->
       IF seeker[s] = Free THEN Free
       ELSE [seeker[s] EXCEPT !.jwt = Less(@), !.by = Less(@), !.token = Less(@)]]
  /\ UNCHANGED <<covered, installs>>

AppNext ==
  \/ \E s \in Seekers :
       \/ \E r \in AppRepos : Seek(s, r)
       \/ \E answer \in {"found", "absent", "denied", "other"} : Locates(s, answer)
       \/ Located(s) \/ Mints(s) \/ Minted(s) \/ SeekFails(s) \/ Sought(s)
  \/ \E r \in AppRepos : Installs(r)
  \/ SecondPasses

AppSpec == AppInit /\ [][AppNext]_appVars

-----------------------------------------------------------------------------
(* Properties.                                                             *)

\* A lookup asks as the App with a token that outlives the call; it asks without
\* one where the App was not installed a moment ago, and not because it is
\* missing from another repository; and the forge is never shown a JWT that has
\* ended, in either of the two calls it is made for (app.rs 74-76, 115-119).
IdentityCurrent ==
  \A s \in Seekers :
    LET r == seeker[s] IN
    /\ In(s, "token") => CallTime <= r.token
    /\ In(s, "none") => r.ago < RejectionTTL + CallTime
    /\ r.pc \in {"locate", "mint"} => r.jwt > 0
=============================================================================
