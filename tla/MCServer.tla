------------------------------ MODULE MCServer ------------------------------
(***************************************************************************)
(* Instances of the small parts of the server for TLC: AccessRules,        *)
(* Sessions, LookupBudget, Transfers, FoldVolume and FoldBucket.  They     *)
(* share nothing, so each behaviour is one of one of them, and the others  *)
(* stay as they are.                                                       *)
(***************************************************************************)
EXTENDS AccessRules, Sessions, LookupBudget, Transfers, FoldVolume, FoldBucket

CONSTANTS r1, r2, e1, e2, open, env, stray, b1, b2, c1, h1, i1, k1, k2, none,
          x1, x2, upper, mixed, obj, lock

VARIABLE part

parts == <<accessVars, sessionVars, budgetVars, transferVars, foldVars, bucketVars>>

Init ==
  /\ part \in {"access", "sessions", "budget", "transfers", "volume", "bucket"}
  /\ AccessInit
  /\ SessionsInit
  /\ BudgetInit
  /\ TransfersInit
  /\ IF part = "volume" THEN FoldVolumeInit
     ELSE /\ dirs = [d \in Names |-> Absent]
          /\ fold = [pc |-> "down", todo |-> {}]
          /\ crashes = 0
          /\ written = {}
  /\ FoldBucketInit
  /\ part # "bucket" => before = {}

Next ==
  /\ UNCHANGED part
  /\ \/ /\ part = "access" /\ AccessNext
        /\ UNCHANGED <<sessionVars, budgetVars, transferVars, foldVars, bucketVars>>
     \/ /\ part = "sessions" /\ SessionsNext
        /\ UNCHANGED <<accessVars, budgetVars, transferVars, foldVars, bucketVars>>
     \/ /\ part = "budget" /\ BudgetNext
        /\ UNCHANGED <<accessVars, sessionVars, transferVars, foldVars, bucketVars>>
     \/ /\ part = "transfers" /\ TransfersNext
        /\ UNCHANGED <<accessVars, sessionVars, budgetVars, foldVars, bucketVars>>
     \/ /\ part = "volume" /\ FoldVolumeNext
        /\ UNCHANGED <<accessVars, sessionVars, budgetVars, transferVars, bucketVars>>
     \/ /\ part = "bucket" /\ FoldBucketNext
        /\ UNCHANGED <<accessVars, sessionVars, budgetVars, transferVars, foldVars>>

\* AccessFairness, where the rules are what moves.
Fairness ==
  \A r \in Replicas :
    /\ WF_accessVars(part = "access" /\ RefreshBegins(r))
    /\ SF_accessVars(part = "access" /\ RefreshReads(r))
    /\ WF_accessVars(part = "access" /\ RefreshApplies(r))

Spec == Init /\ [][Next]_<<part, parts>> /\ Fairness

\* A behaviour has one cookie, about a dashboard token or about a forge session.
\* Two replicas and two keys are for the first second, in which the key is
\* made: a replica knows nothing else of another's.
About(X) ==
  \/ \E b \in Browsers : browser[b] # Quiet /\ browser[b].of \in X
  \/ \E c \in cookies : c.of \in X

Used(s) ==
  \/ key[s] # NoKey \/ keying[s] # "none" \/ slot[s] # NoList
  \/ \E b \in Browsers : browser[b] # Quiet /\ browser[b].at = s

Few ==
  /\ About(Ids) => issued = {} /\ ~About(Hashes)
  /\ Cardinality(cookies) <= 1
  /\ \/ time = 0 /\ listed = [h \in Hashes |-> Never]
     \/ kept # k2 /\ ~Used(r2)
=============================================================================
