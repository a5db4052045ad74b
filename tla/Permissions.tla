---------------------------- MODULE Permissions ----------------------------
(***************************************************************************)
(* Who may reach a repository (server/src/auth.rs, auth/cache.rs).         *)
(*                                                                         *)
(* A request is served or not, is judged by what the forge says of its     *)
(* caller, or by what the forge said a while ago, and by the rules of this *)
(* server.  Requests run at the same time and wait for the forge without   *)
(* knowing of each other; the rules are changed under them.  One           *)
(* authorizer is modelled; a server has one for each of its forges, which  *)
(* share nothing.  Each lookup here may be answered as any kind of forge   *)
(* would, which is more than any one forge does.                           *)
(***************************************************************************)
EXTENDS LookupBudget, ForgeAnswers

CONSTANTS
  Requests,       \* requests in flight at a time
  Tokens,         \* credentials that callers present
  Anonymous,      \* the caller who presents none
  Namespaces,     \* repositories
  Self,           \* what is asked of a token alone: whose it is
  Asks,           \* who asks for what, of them
  RuleSets,       \* rules somebody may save
  GrantedTTL,     \* LFSX_AUTH_CACHE_TTL
  RejectedTTL,    \* LFSX_AUTH_REJECTION_TTL
  LookupTimeout,  \* the client's timeout, of each call
  MaxChanges      \* bound: changes of the rules

ASSUME PermissionsConstantsOK ==
  /\ Anonymous \notin Tokens
  /\ Self \notin Namespaces
  /\ Asks \subseteq (Tokens \cup {Anonymous}) \X (Namespaces \cup {Self})
  /\ RuleSets \subseteq [anonymous_read : BOOLEAN,
                         restricted : SUBSET Namespaces,
                         allowed : SUBSET Namespaces]
  /\ GrantedTTL \in Nat
  /\ RejectedTTL \in Nat
  /\ LookupTimeout \in Nat \ {0}
  /\ MaxChanges \in Nat

VARIABLES
  rules,     \* Access: what is in force
  changes,   \* how often the rules changed
  entries,   \* Cache, and IdentityCache under Self
  request,   \* the requests
  meant      \* history: the last second at which the forge meant what of whom

authVars == <<rules, changes, entries, request, meant>>

vars == <<budgetVars, authVars>>

-----------------------------------------------------------------------------
Callers == Tokens \cup {Anonymous}

Targets == Namespaces \cup {Self}

Keys == Asks

Never == -1

NoEntry == [decision |-> "none", until |-> Never]

NoRequest == [pc |-> "idle"]

\* writers_only is what the code holds over its calls; reply is what the forge
\* answered and may_write what it would say of the scopes; asked is when the
\* call began.  seen is history: the rules in force since the request came.
Request ==
  [pc : {"rules", "look", "ask", "scopes", "land", "done"},
   caller : Callers, target : Targets, writers_only : BOOLEAN, reply : Outcomes, may_write : BOOLEAN,
   asked : Int, outcome : Outcomes \cup {"not_served", "spent"},
   seen : SUBSET RuleSets]

TypeOK ==
  /\ BudgetTypeOK
  /\ rules \in RuleSets
  /\ changes \in 0 .. MaxChanges
  /\ entries \in [Keys -> [decision : Outcomes, until : Int]]
  /\ request \in [Requests -> Request \cup {NoRequest}]
  /\ meant \in [Keys -> [Decisions -> Nat \cup {Never}]]

Init ==
  /\ BudgetInit
  /\ rules \in RuleSets
  /\ changes = 0
  /\ entries = [k \in Keys |-> NoEntry]
  /\ request = [t \in Requests |-> NoRequest]
  /\ meant = [k \in Keys |-> [o \in Decisions |-> Never]]

-----------------------------------------------------------------------------
(* The rules: covers, and set_access.                                      *)

Busy(t, pc) == request[t].pc = pc

Served(r, n) == n = Self \/ n \in r.allowed

WritersOnly(r, n) == n \in r.restricted

\* Requests in flight have now seen these rules in force, too.
SetAccess(r) ==
  /\ changes < MaxChanges
  /\ r # rules
  /\ rules' = r
  /\ changes' = changes + 1
  /\ request' = [t \in Requests |->
       IF Busy(t, "idle") THEN request[t]
       ELSE [request[t] EXCEPT !.seen = @ \cup {r}]]
  /\ UNCHANGED <<budgetVars, entries, meant>>

-----------------------------------------------------------------------------
(* The cache.                                                              *)

\* Mutant of Key: tokens and their absence share a domain.
KeyOfTarget(c, n) == IF n = Self THEN <<c, n>> ELSE <<Anonymous, n>>

\* key, fingerprint.
Key(c, n) == <<c, n>>

\* Mutant of Hit: what is kept is good until it is thrown away.
HitWhileKept(k) == entries[k].decision # "none"

Hit(k) == entries[k].until > now

TTL(decision) == IF decision \in Levels THEN GrantedTTL ELSE RejectedTTL

\* What has expired leaves, and the decision is kept under its key.
Insert(k, decision) ==
  entries' = [e \in Keys |->
    IF e = k THEN [decision |-> decision, until |-> now + TTL(decision)]
    ELSE IF entries[e].until > now THEN entries[e]
    ELSE NoEntry]

-----------------------------------------------------------------------------
(* A request.                                                              *)

Caller(t) == request[t].caller

Target(t) == request[t].target

Goto(t, pc) == request' = [request EXCEPT ![t].pc = pc]

Fresh(c, n, r) ==
  [pc |-> "rules", caller |-> c, target |-> n, writers_only |-> FALSE, reply |-> "none",
   may_write |-> FALSE, asked |-> Never, outcome |-> "none", seen |-> {r}]

\* Nothing but the outcome is left of it.
Done(t, c, n, seen, outcome) ==
  request' = [request EXCEPT ![t] =
    [Fresh(c, n, rules) EXCEPT !.pc = "done", !.seen = seen, !.outcome = outcome]]

Ends(t, outcome) == Done(t, Caller(t), Target(t), request[t].seen, outcome)

\* permission: served reads the rules once, forge_permission once more.
Begin(t, c, n) ==
  /\ Busy(t, "idle")
  /\ <<c, n>> \in Asks
  /\ IF Served(rules, n)
       THEN request' = [request EXCEPT ![t] = Fresh(c, n, rules)]
       ELSE Done(t, c, n, {rules}, "not_served")
  /\ UNCHANGED <<budgetVars, rules, changes, entries, meant>>

\* Nobody anonymous has write access, or an identity.
ReadRules(t) ==
  /\ Busy(t, "rules")
  /\ IF Caller(t) = Anonymous
          /\ \/ Target(t) = Self
             \/ ~rules.anonymous_read
             \/ WritersOnly(rules, Target(t))
       THEN Ends(t, "unauthenticated")
       ELSE request' = [request EXCEPT ![t].pc = "look",
                          ![t].writers_only = WritersOnly(rules, Target(t))]
  /\ UNCHANGED <<budgetVars, rules, changes, entries, meant>>

\* Mutant of Decided: applied to what was asked now and not to what was kept.
DecidedIfAsked(t, outcome) ==
  IF request[t].writers_only /\ Busy(t, "land") /\ outcome = "read"
    THEN "forbidden" ELSE outcome

\* decided.
Decided(t, outcome) ==
  IF request[t].writers_only /\ outcome = "read" THEN "forbidden" ELSE outcome

\* What is kept, or the forge if the budget affords it: past both caches, and
\* only there.  The two locks are taken one after the other, and nothing that is
\* read under the first is used under the second.
Look(t) ==
  LET k == Key(Caller(t), Target(t)) IN
  /\ Busy(t, "look")
  /\ \/ /\ Hit(k)
        /\ Ends(t, Decided(t, entries[k].decision))
        /\ UNCHANGED budgetVars
     \/ /\ ~Hit(k)
        /\ \/ Spend /\ request' = [request EXCEPT ![t].pc = "ask", ![t].asked = now]
           \/ Refuse /\ Ends(t, "spent")
  /\ UNCHANGED <<rules, changes, entries, meant>>

\* What the forge may answer: what it means, what the code makes of it, and
\* whether the code has one more question, whose answer is may_write.
Reply(m, o, more, w) == [means |-> m, outcome |-> o, more |-> more, may_write |-> w]

TokenReplies ==
  {Reply(Meant(p, a), Permission(p, a), AsksScopes(p, a),
         AsksScopes(p, a) /\ GitlabMayWrite(a)) :
     p \in Providers, a \in Answers}

\* The server asks GitHub as its App, if it has one; and only the App is let
\* into what is private.
PublicReplies ==
  {Reply(MeantPublic(x.of, x.says), Public(x.of, x.identified, x.says), FALSE, FALSE) :
     x \in {y \in [of : Providers, identified : BOOLEAN, says : Answers] :
              /\ y.identified => y.of = "github"
              /\ y.says.status = "ok" /\ y.says.private => y.identified}}

LoginReplies ==
  {Reply(MeantLogin(p, a), Login(p, a), FALSE, FALSE) :
     p \in Providers, a \in Answers}

Replies(t) ==
  IF Target(t) = Self THEN LoginReplies
  ELSE IF Caller(t) = Anonymous THEN PublicReplies
  ELSE TokenReplies

\* The forge answers, at some time before the answer is here.
Answer(t) ==
  /\ Busy(t, "ask")
  /\ \E r \in Replies(t) :
       /\ request' = [request EXCEPT ![t].pc = IF r.more THEN "scopes" ELSE "land",
                        ![t].asked = IF r.more THEN now ELSE @,
                        ![t].reply = r.outcome, ![t].may_write = r.may_write]
       /\ meant' = [meant EXCEPT ![<<Caller(t), Target(t)>>] =
                      [o \in Decisions |-> IF o \in r.means THEN now ELSE @[o]]]
  /\ UNCHANGED <<budgetVars, rules, changes, entries>>

\* may_write.  Only a token that has no scopes is refused the question.
AskScopes(t) ==
  /\ Busy(t, "scopes")
  /\ request' = [request EXCEPT ![t].pc = "land",
                   ![t].reply = IF request[t].may_write THEN @ ELSE "read"]
  /\ UNCHANGED <<budgetVars, rules, changes, entries, meant>>

\* The call fails, or takes longer than the client waits.
Lost(t) ==
  /\ request[t].pc \in {"ask", "scopes"}
  /\ request' = [request EXCEPT ![t].pc = "land", ![t].reply = "none"]
  /\ UNCHANGED <<budgetVars, rules, changes, entries, meant>>

\* A decision is kept as the forge gave it; whose a token is, when it is known.
Kept(t) ==
  /\ request[t].reply # "none"
  /\ Target(t) = Self => request[t].reply \in Levels

\* Mutant of Land: what the rules made of the answer is kept.
LandDecided(t) ==
  /\ Busy(t, "land")
  /\ IF Kept(t)
       THEN Insert(Key(Caller(t), Target(t)), Decided(t, request[t].reply))
       ELSE UNCHANGED entries
  /\ Ends(t, Decided(t, request[t].reply))
  /\ UNCHANGED <<budgetVars, rules, changes, meant>>

Land(t) ==
  /\ Busy(t, "land")
  /\ IF Kept(t) THEN Insert(Key(Caller(t), Target(t)), request[t].reply) ELSE UNCHANGED entries
  /\ Ends(t, Decided(t, request[t].reply))
  /\ UNCHANGED <<budgetVars, rules, changes, meant>>

\* The client goes while the answer is on its way.  (Before the forge answers,
\* that is Lost.)
Leave(t) ==
  /\ request[t].pc \in {"scopes", "land"}
  /\ request' = [request EXCEPT ![t] = NoRequest]
  /\ UNCHANGED <<budgetVars, rules, changes, entries, meant>>

\* Mutant of Respond: the request is not let go of.
RespondKeeps(t) ==
  /\ Busy(t, "done")
  /\ request' = [request EXCEPT ![t].pc = "idle"]
  /\ UNCHANGED <<budgetVars, rules, changes, entries, meant>>

Respond(t) ==
  /\ Busy(t, "done")
  /\ request' = [request EXCEPT ![t] = NoRequest]
  /\ UNCHANGED <<budgetVars, rules, changes, entries, meant>>

Serve(t) ==
  \/ \E c \in Callers, n \in Targets : Begin(t, c, n)
  \/ ReadRules(t) \/ Look(t)
  \/ Answer(t) \/ AskScopes(t) \/ Lost(t) \/ Land(t) \/ Leave(t)

\* Every call has its time, and nothing but the forge is waited for.
Pass ==
  /\ \A t \in Requests :
       /\ request[t].pc \in {"idle", "ask", "scopes", "land"}
       /\ request[t].pc \in {"ask", "scopes", "land"} =>
            now < request[t].asked + LookupTimeout
  /\ Tick
  /\ UNCHANGED authVars

Ready == {t \in Requests : Busy(t, "done")}

\* A response that is ready is sent before anything else happens: it reads
\* nothing that others change.
Next ==
  \/ \E t \in Ready : Respond(t)
  \/ /\ Ready = {}
     /\ \/ \E t \in Requests : Serve(t)
        \/ \E r \in RuleSets : SetAccess(r)
        \/ Pass

Spec == Init /\ [][Next]_vars

-----------------------------------------------------------------------------
(* Properties.                                                             *)

\* The forge meant o of c and n, a call and as long as it is kept ago at most.
Lately(c, n, o, ttl) ==
  LET then == meant[<<c, n>>][o] IN
  /\ then # Never
  /\ \/ now <= then + LookupTimeout
     \/ now < then + LookupTimeout + ttl

\* Whoever is granted something is a caller of whom the forge meant just that,
\* no longer ago than the cache keeps a grant and a call may take
\* (cache.rs 61-83): whichever of several lookups lands last, and never from
\* what it said of another caller, or of one without a token.
GrantBacked ==
  \A t \in Requests :
    Busy(t, "done") /\ request[t].outcome \in Levels =>
      Lately(Caller(t), Target(t), request[t].outcome, GrantedTTL)

\* A refusal the rules of this server account for.
Ruled(t, r) ==
  \/ /\ Caller(t) = Anonymous
     /\ \/ Target(t) = Self
        \/ ~r.anonymous_read
        \/ WritersOnly(r, Target(t))
  \/ /\ WritersOnly(r, Target(t))
     /\ Lately(Caller(t), Target(t), "read", GrantedTTL)

\* A refusal is the forge's, and not older than refusals are kept, or that of
\* rules in force since the request came; a forge that was throttling, down or
\* silent refuses nobody who has a token, and a rule that was lifted is not
\* remembered (auth.rs 216-256, cache.rs 20-29).
RefusalBacked ==
  \A t \in Requests :
    Busy(t, "done") /\ request[t].outcome \in Refusals =>
      \/ Lately(Caller(t), Target(t), request[t].outcome, RejectedTTL)
      \/ \E r \in request[t].seen : Ruled(t, r)

\* What is granted is what rules in force since the request came allow,
\* whatever the cache remembers from before them and however they change while
\* the forge is asked (auth.rs 175-195, 216-228).
RulesObeyed ==
  \A t \in Requests :
    Busy(t, "done") =>
      /\ request[t].outcome = "not_served" =>
           \E r \in request[t].seen : ~Served(r, Target(t))
      /\ request[t].outcome \in Levels =>
           /\ \E r \in request[t].seen : Served(r, Target(t))
           /\ \E r \in request[t].seen :
                /\ WritersOnly(r, Target(t)) => request[t].outcome = "write"
                /\ Caller(t) = Anonymous => r.anonymous_read

\* A caller without a token is never told that the answer is final, which would
\* keep git-lfs from asking for a token (github.rs 109-115).
AnonymousMayRetry ==
  \A t \in Requests :
    Busy(t, "done") /\ Caller(t) = Anonymous => request[t].outcome # "forbidden"
=============================================================================
