----------------------------- MODULE MCRequests -----------------------------
(***************************************************************************)
(* Instances of Permissions, Quota and AppTokens for TLC: whether a        *)
(* request may, whether there is room, and as whom the forge is asked.     *)
(* They share nothing, so each behaviour is one of one of them, and the    *)
(* others stay as they are.                                                *)
(***************************************************************************)
EXTENDS Permissions, Quota, AppTokens, TLC

CONSTANTS t1, t2, alice, nobody, scene, self, h1, h2, o1, o2, art, sound

VARIABLE question

MCInit ==
  /\ question \in {"permission", "room", "identity"}
  /\ Init
  /\ QuotaInit
  /\ AppInit
  /\ question # "identity" => covered = {}
  /\ question # "permission" => rules = CHOOSE r \in RuleSets : TRUE

MCNext ==
  /\ UNCHANGED question
  /\ \/ question = "permission" /\ Next /\ UNCHANGED <<quotaVars, appVars>>
     \/ question = "room" /\ QuotaNext /\ UNCHANGED <<vars, appVars>>
     \/ question = "identity" /\ AppNext /\ UNCHANGED <<vars, quotaVars>>

MCSpec == MCInit /\ [][MCNext]_<<question, vars, quotaVars, appVars>>

Rules(anonymous, writers, served) ==
  [anonymous_read |-> anonymous, restricted |-> writers, allowed |-> served]

\* Open to all, for writers only, and closed.
ThreeRules ==
  {Rules(TRUE, {}, {scene}), Rules(TRUE, {scene}, {scene}), Rules(FALSE, {}, {})}

\* An identity is asked of a token.
Three == {<<alice, scene>>, <<nobody, scene>>, <<alice, self>>}

\* A behaviour asks about the repository or about the token: they have nothing
\* in common but the budget.
Topics ==
  {Target(t) : t \in {u \in Requests : ~Busy(u, "idle")}}
    \cup {k[2] : k \in {k \in Keys : \E d \in Decisions : meant[k][d] # Never}}

OneTopic == ~(Targets \subseteq Topics)

\* Of the requests, and the pushes and lookups of the same names; and of servers.
Symmetry == Permutations(Requests) \cup Permutations(Hosts)
=============================================================================
