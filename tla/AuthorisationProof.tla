------------------------- MODULE AuthorisationProof --------------------------
(***************************************************************************)
(* Who may do what, for any callers, repositories, rules, forges, seekers  *)
(* and times the assumptions of the three modules allow.                   *)
(*                                                                         *)
(* Permissions: a kept answer and one on its way was meant by the forge    *)
(* when it was asked for, and is used no longer from then on than a call   *)
(* takes and its kind is kept; what is in force was seen by the request    *)
(* that goes by it.  AppTokens: whatever is remembered has in reserve what *)
(* its use may take.  LookupBudget: what was afforded since a second and   *)
(* what the bucket still holds come to no more than one minute's worth and *)
(* what was earned since.                                                  *)
(***************************************************************************)
EXTENDS Permissions, AppTokens, TLAPS

-----------------------------------------------------------------------------
(* LookupBudget: the window alone is not inductive: it bounds what was     *)
(* afforded by the clock, and what is in the bucket could still be spent.  *)
(* Credit bounds both together, as of the last time the bucket was filled  *)
(* up.  The promise is kept as the two products it lies between, and needs *)
(* no division.                                                            *)

\* What was afforded since s and what the bucket holds come to no more than one
\* minute's worth and what was earned since s.
Credit ==
  \A s \in Starts :
    since[s] > 0 =>
      /\ s <= refilled
      /\ Minute * since[s] + allowance <= (Minute + refilled - s) * PerMinute

\* The second that was promised is the first by which a lookup is earned.
Promise ==
  due # NoPromise =>
    /\ PerMinute > 0
    /\ allowance < Minute
    /\ (due - refilled - 1) * PerMinute < Minute - allowance
    /\ Minute - allowance <= (due - refilled) * PerMinute

BudgetInv == BudgetTypeOK /\ (PerMinute > 0 => Credit) /\ Promise

-----------------------------------------------------------------------------
(* Arithmetic.                                                             *)

\* What two stretches of time earn, they earn together.
LEMMA Earned ==
  ASSUME NEW a \in Int, NEW b \in Int, NEW p \in Int
  PROVE  (a + b) * p = a * p + b * p
BY SMT

\* More time earns no less.
LEMMA EarnedMore ==
  ASSUME NEW a \in Int, NEW b \in Int, NEW p \in Nat, a <= b
  PROVE  a * p <= b * p
BY SMT

\* Where time passes a product, the other factor says so.
LEMMA Passed ==
  ASSUME NEW a \in Int, NEW b \in Int, NEW p \in Nat \ {0}, a * p < b * p
  PROVE  a < b
BY SMT

LEMMA ProductInt ==
  ASSUME NEW a \in Int, NEW b \in Int
  PROVE  a * b \in Int
BY SMT

\* Rounding up: the least multiple that is not below n.
LEMMA RoundedUp ==
  ASSUME NEW n \in Nat, NEW p \in Nat \ {0}
  PROVE  /\ (n + p - 1) \div p \in Int
         /\ ((n + p - 1) \div p - 1) * p < n
         /\ n <= ((n + p - 1) \div p) * p
BY SMT

-----------------------------------------------------------------------------
(* The bucket.                                                             *)

\* Filled up, it holds what it held and what was earned, or it is full.
LEMMA RefillFacts ==
  ASSUME BudgetTypeOK
  PROVE  /\ Refill \in 0 .. PerMinute * Minute
         /\ Refill <= allowance + (now - refilled) * PerMinute
         /\ \/ Refill = allowance + (now - refilled) * PerMinute
            \/ Refill = PerMinute * Minute
<1>1. /\ PerMinute * Minute \in Int
      /\ (now - refilled) * PerMinute \in Int
  BY BudgetConstantsOK, ProductInt DEF BudgetTypeOK
<1>2. 0 * PerMinute <= (now - refilled) * PerMinute
  BY BudgetConstantsOK, EarnedMore DEF BudgetTypeOK
<1>3. 0 <= (now - refilled) * PerMinute
  BY <1>2, BudgetConstantsOK
<1> DEFINE earned == (now - refilled) * PerMinute
           full == PerMinute * Minute
<1>4. allowance \in 0 .. full
  BY DEF BudgetTypeOK
<1>5. Refill = IF allowance + earned <= full THEN allowance + earned ELSE full
  BY DEF Refill
<1> HIDE DEF earned, full
<1>6. earned \in Int /\ full \in Int /\ 0 <= earned
  BY <1>1, <1>3 DEF earned, full
<1>7. /\ Refill \in 0 .. full
      /\ Refill <= allowance + earned
      /\ Refill = allowance + earned \/ Refill = full
  BY <1>4, <1>5, <1>6
<1> QED BY <1>7 DEF earned, full

\* A budget is at least one lookup when it is full.
LEMMA FullAffords ==
  ASSUME PerMinute > 0
  PROVE  Minute <= PerMinute * Minute
<1>1. 1 * Minute <= PerMinute * Minute
  BY BudgetConstantsOK, EarnedMore
<1> QED BY <1>1, BudgetConstantsOK

LEMMA InitHolds == BudgetInit => BudgetInv
<1> SUFFICES ASSUME BudgetInit PROVE BudgetInv
  OBVIOUS
<1>1. PerMinute * Minute \in Int
  BY BudgetConstantsOK, ProductInt
<1>2. 0 * Minute <= PerMinute * Minute
  BY BudgetConstantsOK, EarnedMore
<1>3. BudgetTypeOK
  BY <1>1, <1>2, BudgetConstantsOK DEF BudgetInit, BudgetTypeOK
<1>4. Credit
  BY DEF BudgetInit, Credit
<1>5. Promise
  BY DEF BudgetInit, Promise
<1> QED BY <1>3, <1>4, <1>5 DEF BudgetInv

LEMMA SpendKeeps == BudgetInv /\ Spend => BudgetInv'
<1> SUFFICES ASSUME BudgetInv, Spend PROVE BudgetInv'
  OBVIOUS
<1> USE BudgetConstantsOK
<1>a. CASE PerMinute = 0 /\ UNCHANGED budgetVars
  BY <1>a DEF BudgetInv, BudgetTypeOK, Credit, Promise, budgetVars, budget
<1>b. CASE /\ PerMinute > 0
           /\ Refill >= Minute
           /\ allowance' = Refill - Minute
           /\ refilled' = now
           /\ since' = [s \in Starts |-> IF s <= now THEN since[s] + 1 ELSE since[s]]
           /\ due' = NoPromise
           /\ UNCHANGED now
  <2>0. /\ Refill \in 0 .. PerMinute * Minute
        /\ Refill <= allowance + (now - refilled) * PerMinute
    BY RefillFacts DEF BudgetInv
  <2>t. PerMinute * Minute \in Int
    BY ProductInt
  <2>1. BudgetTypeOK'
    <3>1. allowance' \in 0 .. PerMinute * Minute
      BY <1>b, <2>0, <2>t
    <3> QED BY <1>b, <3>1 DEF BudgetInv, BudgetTypeOK
  <2>2. Credit'
    <3> SUFFICES ASSUME NEW s \in Starts, since'[s] > 0
                 PROVE  /\ s <= now
                        /\ Minute * since'[s] + (Refill - Minute) <= (Minute + now - s) * PerMinute
      BY <1>b DEF Credit
    <3>0. s \in Nat /\ since[s] \in Nat /\ now \in Nat /\ refilled \in 0 .. now
      BY DEF BudgetInv, BudgetTypeOK
    <3>1. s <= now
      <4>1. CASE since[s] > 0
        BY <4>1, <3>0, <1>b DEF BudgetInv, Credit
      <4>2. CASE since[s] = 0
        BY <4>2, <1>b, <3>0
      <4> QED BY <4>1, <4>2, <3>0
    <3>2. since'[s] = since[s] + 1
      BY <1>b, <3>1
    <3>3. Minute * (since[s] + 1) = Minute * since[s] + Minute
      BY <3>0
    <3>4. Minute * since[s] \in Int /\ (Minute + now - s) * PerMinute \in Int
      BY <3>0, ProductInt
    <3>5. Minute * since[s] + Refill <= (Minute + now - s) * PerMinute
      <4>1. CASE since[s] > 0
        <5>1. /\ s <= refilled
              /\ Minute * since[s] + allowance <= (Minute + refilled - s) * PerMinute
          BY <4>1, <1>b DEF BudgetInv, Credit
        <5>2. (Minute + now - s) * PerMinute
                = (Minute + refilled - s) * PerMinute + (now - refilled) * PerMinute
          <6>1. Minute + now - s = (Minute + refilled - s) + (now - refilled)
            BY <3>0
          <6> QED BY <6>1, <3>0, Earned
        <5>3. /\ (Minute + refilled - s) * PerMinute \in Int
              /\ (now - refilled) * PerMinute \in Int
              /\ allowance \in Int
          BY <3>0, <2>t, ProductInt DEF BudgetInv, BudgetTypeOK
        <5> QED BY <5>1, <5>2, <5>3, <2>0, <2>t, <3>4
      <4>2. CASE since[s] = 0
        <5>1. Minute * PerMinute <= (Minute + now - s) * PerMinute
          BY <3>0, <3>1, EarnedMore
        <5>2. Minute * PerMinute = PerMinute * Minute
          OBVIOUS
        <5> QED BY <4>2, <5>1, <5>2, <2>0, <2>t, <3>4
      <4> QED BY <4>1, <4>2, <3>0
    <3> QED BY <3>1, <3>2, <3>3, <3>4, <3>5, <2>0, <2>t
  <2>3. Promise'
    BY <1>b DEF Promise
  <2> QED BY <2>1, <2>2, <2>3 DEF BudgetInv
<1> QED BY <1>a, <1>b DEF Spend

LEMMA RefuseKeeps == BudgetInv /\ Refuse => BudgetInv'
<1> SUFFICES ASSUME BudgetInv, Refuse PROVE BudgetInv'
  OBVIOUS
<1> USE BudgetConstantsOK
<1>0. /\ PerMinute > 0
      /\ Refill < Minute
      /\ allowance' = Refill
      /\ refilled' = now
      /\ now' = now
      /\ since' = since
  BY DEF Refuse
<1>t. /\ PerMinute * Minute \in Int
      /\ (now - refilled) * PerMinute \in Int
      /\ now \in Nat /\ refilled \in 0 .. now /\ allowance \in 0 .. PerMinute * Minute
  BY ProductInt DEF BudgetInv, BudgetTypeOK
\* Refused, it is not full: it holds what it held and what was earned.
<1>1. /\ Refill \in 0 .. PerMinute * Minute
      /\ Refill = allowance + (now - refilled) * PerMinute
  BY RefillFacts, FullAffords, <1>0, <1>t DEF BudgetInv
<1>2. /\ Wait \in Int
      /\ (Wait - 1) * PerMinute < Minute - Refill
      /\ Minute - Refill <= Wait * PerMinute
  BY <1>0, <1>1, <1>t, RoundedUp DEF Wait
<1>3. now + Wait \in Nat
  <2>1. 0 * PerMinute < Wait * PerMinute
    BY <1>0, <1>1, <1>2, <1>t, ProductInt
  <2>2. 0 < Wait
    BY <2>1, <1>2, <1>t, <1>0, Passed
  <2> QED BY <2>2, <1>2, <1>t
<1>4. BudgetTypeOK'
  BY <1>0, <1>1, <1>3 DEF BudgetInv, BudgetTypeOK, Refuse
<1>5. Credit'
  <2> SUFFICES ASSUME NEW s \in Starts, since[s] > 0
               PROVE  /\ s <= now
                      /\ Minute * since[s] + Refill <= (Minute + now - s) * PerMinute
    BY <1>0 DEF Credit
  <2>0. s \in Nat /\ since[s] \in Nat
    BY DEF BudgetInv, BudgetTypeOK
  <2>1. /\ s <= refilled
        /\ Minute * since[s] + allowance <= (Minute + refilled - s) * PerMinute
    BY <1>0 DEF BudgetInv, Credit
  <2>2. (Minute + now - s) * PerMinute
          = (Minute + refilled - s) * PerMinute + (now - refilled) * PerMinute
    <3>1. Minute + now - s = (Minute + refilled - s) + (now - refilled)
      BY <2>0, <1>t
    <3> QED BY <3>1, <2>0, <1>t, Earned
  <2>3. Minute * since[s] \in Int /\ (Minute + refilled - s) * PerMinute \in Int
    BY <2>0, <1>t, ProductInt
  <2> QED BY <2>0, <2>1, <2>2, <2>3, <1>1, <1>t
<1>6. Promise'
  <2>1. CASE due = NoPromise /\ Follow
    <3>1. due' = now + Wait
      BY <2>1 DEF Refuse
    <3>2. due' - refilled' = Wait
      BY <3>1, <1>0, <1>2, <1>t
    <3> QED BY <3>1, <3>2, <1>0, <1>2 DEF Promise
  <2>2. CASE due # NoPromise
    <3>1. due' = due /\ due \in Nat
      BY <2>2 DEF Refuse, BudgetInv, BudgetTypeOK
    <3>2. /\ (due - refilled - 1) * PerMinute < Minute - allowance
          /\ Minute - allowance <= (due - refilled) * PerMinute
      BY <2>2 DEF BudgetInv, Promise
    <3>3. /\ (due - refilled - 1) * PerMinute
               = (due - now - 1) * PerMinute + (now - refilled) * PerMinute
          /\ (due - refilled) * PerMinute
               = (due - now) * PerMinute + (now - refilled) * PerMinute
      <4>1. due - refilled - 1 = (due - now - 1) + (now - refilled)
        BY <3>1, <1>t
      <4>2. due - refilled = (due - now) + (now - refilled)
        BY <3>1, <1>t
      <4> QED BY <4>1, <4>2, <3>1, <1>t, Earned
    <3>4. /\ (due - now - 1) * PerMinute \in Int
          /\ (due - now) * PerMinute \in Int
      BY <3>1, <1>t, ProductInt
    <3> QED BY <3>1, <3>2, <3>3, <3>4, <1>0, <1>1, <1>t DEF Promise
  <2>3. CASE due = NoPromise /\ ~Follow
    BY <2>3 DEF Refuse, Promise
  <2> QED BY <2>1, <2>2, <2>3
<1> QED BY <1>4, <1>5, <1>6 DEF BudgetInv

LEMMA TickKeeps == BudgetInv /\ Tick => BudgetInv'
BY BudgetConstantsOK DEF BudgetInv, BudgetTypeOK, Credit, Promise, Tick, budget

\* Types, credit and promise hold in every state, for every budget and clock.
THEOREM BudgetInvariant == BudgetSpec => []BudgetInv
<1>1. BudgetInv /\ [BudgetNext]_budgetVars => BudgetInv'
  <2>1. BudgetInv /\ UNCHANGED budgetVars => BudgetInv'
    BY DEF BudgetInv, BudgetTypeOK, Credit, Promise, budgetVars, budget
  <2> QED BY <2>1, SpendKeeps, RefuseKeeps, TickKeeps DEF BudgetNext
<1> QED BY InitHolds, <1>1, PTL DEF BudgetSpec

-----------------------------------------------------------------------------
(* What follows.                                                           *)

LEMMA WindowFollows == BudgetInv => WindowKept
<1> SUFFICES ASSUME BudgetInv, PerMinute > 0, NEW s \in Starts, s <= now
             PROVE  Minute * since[s] <= (Minute + now - s) * PerMinute
  BY DEF WindowKept
<1> USE BudgetConstantsOK
<1>0. /\ s \in Nat /\ since[s] \in Nat /\ now \in Nat /\ refilled \in 0 .. now
      /\ allowance \in 0 .. PerMinute * Minute
  BY DEF BudgetInv, BudgetTypeOK
<1>1. /\ Minute * since[s] \in Int /\ (Minute + now - s) * PerMinute \in Int
      /\ (Minute + refilled - s) * PerMinute \in Int /\ PerMinute * Minute \in Int
  BY <1>0, ProductInt
<1>2. CASE since[s] > 0
  <2>1. Minute * since[s] + allowance <= (Minute + refilled - s) * PerMinute
    BY <1>2 DEF BudgetInv, Credit
  <2>2. (Minute + refilled - s) * PerMinute <= (Minute + now - s) * PerMinute
    BY <1>0, EarnedMore
  <2> QED BY <2>1, <2>2, <1>0, <1>1
<1>3. CASE since[s] = 0
  <2>1. 0 * PerMinute <= (Minute + now - s) * PerMinute
    BY <1>0, EarnedMore
  <2> QED BY <2>1, <1>3, <1>0, <1>1
<1> QED BY <1>2, <1>3, <1>0

LEMMA PromiseFollows == BudgetInv => PromiseKept
<1> SUFFICES ASSUME BudgetInv, due # NoPromise
             PROVE  Refill >= Minute <=> now >= due
  BY DEF PromiseKept
<1> USE BudgetConstantsOK
<1>0. /\ now \in Nat /\ refilled \in 0 .. now /\ due \in Nat
      /\ allowance \in 0 .. PerMinute * Minute
      /\ PerMinute > 0
      /\ allowance < Minute
      /\ (due - refilled - 1) * PerMinute < Minute - allowance
      /\ Minute - allowance <= (due - refilled) * PerMinute
  BY DEF BudgetInv, BudgetTypeOK, Promise
<1>1. /\ (due - refilled - 1) * PerMinute \in Int
      /\ (due - refilled) * PerMinute \in Int
      /\ (now - refilled) * PerMinute \in Int /\ PerMinute * Minute \in Int
  BY <1>0, ProductInt
<1>2. /\ Refill \in Int
      /\ Refill <= allowance + (now - refilled) * PerMinute
      /\ \/ Refill = allowance + (now - refilled) * PerMinute
         \/ Refill = PerMinute * Minute
  BY RefillFacts DEF BudgetInv
<1>3. ASSUME now >= due PROVE Refill >= Minute
  <2>1. (due - refilled) * PerMinute <= (now - refilled) * PerMinute
    BY <1>3, <1>0, EarnedMore
  <2> QED BY <2>1, <1>0, <1>1, <1>2, FullAffords
<1>4. ASSUME Refill >= Minute PROVE now >= due
  <2>1. (due - refilled - 1) * PerMinute < (now - refilled) * PerMinute
    BY <1>4, <1>0, <1>1, <1>2
  <2>2. due - refilled - 1 < now - refilled
    BY <2>1, <1>0, Passed
  <2> QED BY <2>2, <1>0
<1> QED BY <1>3, <1>4

\* For every budget and every sequence of callers, the lookups afforded from
\* any second on are one minute's worth and what was earned since, and no more
\* (budget.rs 76-94).
THEOREM WindowHolds == BudgetSpec => []WindowKept
BY BudgetInvariant, WindowFollows, PTL

\* A caller who was refused finds room at the second he was told, and not
\* before, unless another was let through (budget.rs 95-99).
THEOREM PromiseHolds == BudgetSpec => []PromiseKept
BY BudgetInvariant, PromiseFollows, PTL

-----------------------------------------------------------------------------
(* Permissions: entries, requests and answers are backed by what the forge *)
(* meant.                                                                  *)

\* What is kept was meant when it was asked for, and is kept no longer from then
\* on than a call takes and its kind is kept.
EntryBacked(k) ==
  LET e == entries[k] IN
  /\ e.decision \in Decisions =>
       /\ meant[k][e.decision] # Never
       /\ e.until <= meant[k][e.decision] + LookupTimeout + TTL(e.decision)
  /\ e.decision = "none" => e.until = Never
  /\ k[1] = Anonymous => e.decision # "forbidden"

EntriesBacked == \A k \in Keys : EntryBacked(k)

InCall == {"ask", "scopes", "land"}

Past == {"look"} \cup InCall

\* What is in force has been seen, and so has what the code goes by.
SeenRules(q) ==
  /\ <<q.caller, q.target>> \in Asks
  /\ rules \in q.seen
  /\ q.pc \in {"rules"} \cup Past => \E r \in q.seen : Served(r, q.target)
  /\ q.pc \in Past =>
       /\ \E r \in q.seen :
            /\ q.writers_only = WritersOnly(r, q.target)
            /\ q.caller = Anonymous => r.anonymous_read
       /\ q.caller = Anonymous => q.target # Self /\ ~q.writers_only

\* A call is not older than the client waits, and what it was answered was meant
\* since it began.
AskedSince(q) ==
  LET then == meant[<<q.caller, q.target>>] IN
  /\ q.pc \in InCall => q.asked \in Nat /\ q.asked <= now /\ now <= q.asked + LookupTimeout
  /\ q.pc = "scopes" =>
       /\ q.reply = "write"
       /\ q.caller # Anonymous
       /\ q.asked <= then["read"]
       /\ q.may_write => q.asked <= then["write"]
  /\ q.pc = "land" /\ q.reply \in Decisions => q.asked <= then[q.reply]
  /\ q.pc = "land" /\ q.caller = Anonymous => q.reply # "forbidden"

InFlight(q) == SeenRules(q) /\ AskedSince(q)

AllInFlight == \A t \in Requests : request[t].pc # "idle" => InFlight(request[t])

NotLater == \A k \in Keys, o \in Decisions : meant[k][o] <= now

\* The answer a request is given.
RightAnswer(q) ==
  q.pc = "done" =>
    /\ q.outcome \in Levels => Lately(q.caller, q.target, q.outcome, GrantedTTL)
    /\ q.outcome \in Refusals =>
         \/ Lately(q.caller, q.target, q.outcome, RejectedTTL)
         \/ \E r \in q.seen :
              \/ /\ q.caller = Anonymous
                 /\ \/ q.target = Self
                    \/ ~r.anonymous_read
                    \/ WritersOnly(r, q.target)
              \/ /\ WritersOnly(r, q.target)
                 /\ Lately(q.caller, q.target, "read", GrantedTTL)
    /\ q.outcome = "not_served" => \E r \in q.seen : ~Served(r, q.target)
    /\ q.outcome \in Levels =>
         /\ \E r \in q.seen : Served(r, q.target)
         /\ \E r \in q.seen :
              /\ WritersOnly(r, q.target) => q.outcome = "write"
              /\ q.caller = Anonymous => r.anonymous_read
    /\ q.caller = Anonymous => q.outcome # "forbidden"

AllRight == \A t \in Requests : RightAnswer(request[t])

PermInv ==
  /\ TypeOK /\ BudgetInv
  /\ NotLater /\ EntriesBacked /\ AllInFlight /\ AllRight

-----------------------------------------------------------------------------
LEMMA TTLs ==
  /\ GrantedTTL \in Nat /\ RejectedTTL \in Nat /\ LookupTimeout \in Nat \ {0}
  /\ \A d \in Outcomes : TTL(d) \in Nat
  /\ \A d \in Levels : TTL(d) = GrantedTTL
  /\ \A d \in Refusals : TTL(d) = RejectedTTL
BY PermissionsConstantsOK DEF TTL, Levels, Refusals

LEMMA Words ==
  /\ Decisions = {"read", "write", "unauthenticated", "forbidden"}
  /\ Outcomes = {"read", "write", "unauthenticated", "forbidden", "none"}
  /\ Levels \subseteq Decisions /\ Refusals \subseteq Decisions
BY DEF Outcomes, Decisions, Levels, Refusals

-----------------------------------------------------------------------------
(* What the code makes of an answer is what the forge meant by it.         *)

LEMMA MeantIs ==
  ASSUME NEW p, NEW a
  PROVE  /\ "read" \in Meant(p, a) <=> a.status = "ok" /\ ~(p = "gitlab" /\ a.block = "absent")
         /\ "write" \in Meant(p, a) <=> CanWrite(p, a)
         /\ "unauthenticated" \in Meant(p, a) <=> a.status = "unauthorized"
         /\ "forbidden" \in Meant(p, a) <=>
              \/ a.status \in {"forbidden", "not_found"} /\ ~Throttled(p, a)
              \/ a.status = "ok" /\ p = "gitlab" /\ a.block = "absent"
BY DEF Meant

LEMMA AnswerIs ==
  ASSUME NEW a \in Answers
  PROVE  /\ a.status \in Statuses /\ a.limited \in BOOLEAN /\ a.block \in Blocks
         /\ a.scopes \in Scopes /\ a.private \in BOOLEAN
BY DEF Answers

LEMMA OfEach ==
  ASSUME NEW a, NEW i
  PROVE  /\ Permission("github", a) = GithubPermission(a)
         /\ Permission("gitlab", a) = GitlabPermission(a)
         /\ Permission("gitea", a) = GiteaPermission(a)
         /\ Public("github", i, a) = GithubPublic(i, a)
         /\ Public("gitlab", i, a) = GitlabPublic(a)
         /\ Public("gitea", i, a) = GiteaPublic(a)
         /\ Send("github", a) = GithubSend(a)
         /\ Send("gitlab", a) = GitlabSend(a)
         /\ Send("gitea", a) = GiteaSend(a)
         /\ Throttled("github", a) = (a.status \in {"forbidden", "too_many"} /\ RateLimited(a))
         /\ Throttled("gitlab", a) = (a.status = "too_many")
         /\ Throttled("gitea", a) =
              (a.status = "too_many" \/ (a.status = "unavailable" /\ a.limited))
BY DEF Permission, Public, Send, Throttled

\* Send makes no more of an answer that is not ok than the forge meant.
LEMMA SendMeant ==
  ASSUME NEW p \in Providers, NEW a \in Answers, a.status # "ok"
  PROVE  /\ Send(p, a) \in Refusals \cup {"none"}
         /\ Send(p, a) \in Refusals => Send(p, a) \in Meant(p, a)
<1> USE MeantIs, AnswerIs, OfEach DEF Refusals, RateLimited
<1>1. CASE p = "github"
  BY <1>1 DEF GithubSend
<1>2. CASE p = "gitlab"
  BY <1>2 DEF GitlabSend
<1>3. CASE p = "gitea"
  BY <1>3 DEF GiteaSend
<1> QED BY <1>1, <1>2, <1>3 DEF Providers

\* Of a token: what permission decides, or would once it asked for the scopes.
LEMMA PermissionMeant ==
  ASSUME NEW p \in Providers, NEW a \in Answers
  PROVE  /\ Permission(p, a) \in Outcomes
         /\ Permission(p, a) \in Decisions /\ ~AsksScopes(p, a)
              => Permission(p, a) \in Meant(p, a)
         /\ AsksScopes(p, a) =>
              /\ Permission(p, a) = "write"
              /\ "read" \in Meant(p, a)
              /\ GitlabMayWrite(a) => "write" \in Meant(p, a)
<1>1. CASE a.status # "ok"
  <2>1. Permission(p, a) = Send(p, a)
    <3>1. /\ GithubPermission(a) = GithubSend(a)
          /\ GitlabPermission(a) = GitlabSend(a)
          /\ GiteaPermission(a) = GiteaSend(a)
      BY <1>1 DEF GithubPermission, GitlabPermission, GiteaPermission
    <3> QED BY <3>1, OfEach DEF Providers
  <2> QED BY <2>1, <1>1, SendMeant, Words DEF AsksScopes, Refusals
<1>2. CASE a.status = "ok"
  <2> USE <1>2, MeantIs, AnswerIs, OfEach, Words DEF CanWrite, AsksScopes, GitlabMayWrite
  <2>1. CASE p = "github"
    <3>1. CASE a.block = "push" /\ GithubMayWrite(a)
      BY <2>1, <3>1 DEF GithubPermission, GithubMayWrite
    <3>2. CASE ~(a.block = "push" /\ GithubMayWrite(a))
      BY <2>1, <3>2 DEF GithubPermission
    <3> QED BY <3>1, <3>2
  <2>2. CASE p = "gitlab"
    BY <2>2 DEF GitlabPermission, Blocks
  <2>3. CASE p = "gitea"
    <3>1. CASE a.block = "push"
      BY <2>3, <3>1 DEF GiteaPermission
    <3>2. CASE a.block # "push"
      BY <2>3, <3>2 DEF GiteaPermission
    <3> QED BY <3>1, <3>2
  <2> QED BY <2>1, <2>2, <2>3 DEF Providers
<1> QED BY <1>1, <1>2

\* Of nobody: only GitHub is asked as the App, and only the App is let into what
\* is private.
LEMMA PublicMeant ==
  ASSUME NEW p \in Providers, NEW identified \in BOOLEAN, NEW a \in Answers,
         identified => p = "github",
         a.status = "ok" /\ a.private => identified
  PROVE  /\ Public(p, identified, a) \in {"read", "unauthenticated", "none"}
         /\ Public(p, identified, a) \in Decisions => Public(p, identified, a) \in MeantPublic(p, a)
<1> USE Words, AnswerIs, OfEach DEF MeantPublic
<1>1. CASE p = "github"
  BY <1>1 DEF GithubPublic
<1>2. CASE p = "gitlab"
  BY <1>2 DEF GitlabPublic
<1>3. CASE p = "gitea"
  BY <1>3 DEF GiteaPublic
<1> QED BY <1>1, <1>2, <1>3 DEF Providers

LEMMA LoginMeant ==
  ASSUME NEW p \in Providers, NEW a \in Answers
  PROVE  /\ Login(p, a) \in Outcomes
         /\ Login(p, a) \in Decisions => Login(p, a) \in MeantLogin(p, a)
<1> DEFINE low == [a EXCEPT !.block = "low"]
<1>1. low \in Answers /\ low.status = a.status /\ low.block = "low"
  BY DEF Answers, Blocks
<1>2. a.status # "ok" => Send(p, low) = Send(p, a)
  <2>1. /\ Throttled("github", low) = Throttled("github", a)
        /\ Throttled("gitea", low) = Throttled("gitea", a)
    BY <1>1, OfEach DEF Answers, RateLimited
  <2>2. /\ GithubSend(low) = GithubSend(a)
        /\ GitlabSend(low) = GitlabSend(a)
        /\ GiteaSend(low) = GiteaSend(a)
    <3> HIDE DEF low
    <3> QED BY <1>1, <2>1 DEF GithubSend, GitlabSend, GiteaSend
  <2> QED BY <2>2, OfEach DEF Providers
<1> HIDE DEF low
<1>0. MeantLogin(p, a) = Meant(p, low)
  BY DEF MeantLogin, low
<1>3. CASE a.status = "ok"
  BY <1>0, <1>1, <1>3, MeantIs, Words DEF Login
<1>4. CASE a.status # "ok"
  BY <1>0, <1>1, <1>2, <1>4, SendMeant, Words DEF Login, Refusals
<1> QED BY <1>3, <1>4

\* What comes of it for a request.
LEMMA RepliesMeant ==
  ASSUME NEW t \in Requests, NEW r \in Replies(t)
  PROVE  /\ r.outcome \in Outcomes /\ r.more \in BOOLEAN /\ r.may_write \in BOOLEAN
         /\ ~r.more /\ r.outcome \in Decisions => r.outcome \in r.means
         /\ r.more =>
              /\ r.outcome = "write"
              /\ Caller(t) # Anonymous
              /\ "read" \in r.means
              /\ r.may_write => "write" \in r.means
         /\ Caller(t) = Anonymous /\ Target(t) # Self => r.outcome # "forbidden"
<1>1. CASE Target(t) = Self
  <2>1. PICK p \in Providers, a \in Answers : r = Reply(MeantLogin(p, a), Login(p, a), FALSE, FALSE)
    <3>1. r \in LoginReplies
      BY <1>1 DEF Replies
    <3> QED BY <3>1 DEF LoginReplies, Reply
  <2> QED BY <2>1, <1>1, LoginMeant DEF Reply
<1>2. CASE Target(t) # Self /\ Caller(t) = Anonymous
  <2>1. PICK p \in Providers, i \in BOOLEAN, a \in Answers :
          /\ i => p = "github"
          /\ a.status = "ok" /\ a.private => i
          /\ r = Reply(MeantPublic(p, a), Public(p, i, a), FALSE, FALSE)
    BY <1>2 DEF Replies, PublicReplies
  <2> QED BY <2>1, <1>2, PublicMeant, Words DEF Reply
<1>3. CASE Target(t) # Self /\ Caller(t) # Anonymous
  <2>1. PICK p \in Providers, a \in Answers :
          r = Reply(Meant(p, a), Permission(p, a), AsksScopes(p, a),
                    AsksScopes(p, a) /\ GitlabMayWrite(a))
    BY <1>3 DEF Replies, TokenReplies
  <2> QED BY <2>1, <1>3, PermissionMeant DEF Reply, AsksScopes, GitlabMayWrite
<1> QED BY <1>1, <1>2, <1>3

-----------------------------------------------------------------------------
(* Steps of one request.                                                   *)

LEMMA RequestIs ==
  ASSUME TypeOK, NEW t \in Requests, request[t].pc # "idle"
  PROVE  request[t] \in Request
BY DEF TypeOK, NoRequest

LEMMA KeyIs ==
  ASSUME TypeOK, NEW q \in Request, <<q.caller, q.target>> \in Asks
  PROVE  /\ <<q.caller, q.target>> \in Keys
         /\ \A o \in Decisions : meant[<<q.caller, q.target>>][o] \in Nat \cup {Never}
BY DEF TypeOK, Keys

\* While nobody has an answer, a step of one request that leaves the rules and
\* the clock leaves the others what they have.
LEMMA OneRequest ==
  ASSUME PermInv, Ready = {}, NEW t \in Requests, NEW q \in Request \cup {NoRequest},
         request' = [request EXCEPT ![t] = q],
         UNCHANGED <<rules, changes, now>>, BudgetInv', TypeOK',
         NotLater', EntriesBacked',
         \A k \in Keys, o \in Decisions : meant[k][o] <= meant'[k][o],
         q # NoRequest => InFlight(q)', RightAnswer(q)'
  PROVE  PermInv'
<1> USE DEF PermInv
<1>1. AllInFlight'
  <2> SUFFICES ASSUME NEW u \in Requests, request'[u].pc # "idle"
               PROVE  InFlight(request[u])'
    BY DEF AllInFlight
  <2>1. CASE u = t
    <3>1. request'[u] = q
      BY <2>1 DEF TypeOK
    <3>2. q # NoRequest
      BY <3>1 DEF NoRequest
    <3> QED BY <3>1, <3>2 DEF InFlight, SeenRules, AskedSince
  <2>2. CASE u # t
    <3>1. request'[u] = request[u]
      BY <2>2 DEF TypeOK
    <3>2. InFlight(request[u]) /\ request[u] \in Request
      BY <3>1, RequestIs DEF AllInFlight
    <3>3. SeenRules(request[u])'
      BY <3>1, <3>2 DEF InFlight, SeenRules
    <3>4. /\ <<request[u].caller, request[u].target>> \in Keys
          /\ \A o \in Decisions :
               /\ meant[<<request[u].caller, request[u].target>>][o] \in Int
               /\ meant'[<<request[u].caller, request[u].target>>][o] \in Int
      <4>1. <<request[u].caller, request[u].target>> \in Keys
        BY <3>2 DEF InFlight, SeenRules, Keys
      <4>2. \A k \in Keys, o \in Decisions : meant[k][o] \in Int /\ meant'[k][o] \in Int
        BY DEF TypeOK, Never
      <4> QED BY <4>1, <4>2
    <3>5. AskedSince(request[u])'
      <4> DEFINE then == meant[<<request[u].caller, request[u].target>>]
                 next == meant'[<<request[u].caller, request[u].target>>]
      <4>1. \A o \in Decisions : then[o] \in Int /\ next[o] \in Int /\ then[o] <= next[o]
        BY <3>4
      <4>2. next = (meant[<<request[u].caller, request[u].target>>])'
        BY <3>1
      <4>3. request[u].asked \in Int
        BY <3>2 DEF Request
      <4> HIDE DEF then, next
      <4>4. /\ request[u].pc \in InCall =>
                 /\ request[u].asked \in Nat /\ request[u].asked <= now
                 /\ now <= request[u].asked + LookupTimeout
            /\ request[u].pc = "scopes" =>
                 /\ request[u].reply = "write" /\ request[u].caller # Anonymous
                 /\ request[u].asked <= next["read"]
                 /\ request[u].may_write => request[u].asked <= next["write"]
            /\ request[u].pc = "land" /\ request[u].reply \in Decisions =>
                 request[u].asked <= next[request[u].reply]
            /\ request[u].pc = "land" /\ request[u].caller = Anonymous =>
                 request[u].reply # "forbidden"
        BY <3>2, <4>1, <4>3, Words DEF InFlight, AskedSince, then
      <4> QED BY <3>1, <4>2, <4>4 DEF AskedSince
    <3> QED BY <3>3, <3>5 DEF InFlight
  <2> QED BY <2>1, <2>2
<1>2. AllRight'
  <2> SUFFICES ASSUME NEW u \in Requests PROVE RightAnswer(request[u])'
    BY DEF AllRight
  <2>1. CASE u = t
    <3>1. request'[u] = q
      BY <2>1 DEF TypeOK
    <3> QED BY <3>1 DEF RightAnswer
  <2>2. CASE u # t
    BY <2>2 DEF TypeOK, Ready, Busy, RightAnswer
  <2> QED BY <2>1, <2>2
<1> QED BY <1>1, <1>2

\* What neither the forge nor the cache is asked for stays.
LEMMA Same ==
  ASSUME PermInv, UNCHANGED <<now, entries, meant>>
  PROVE  /\ NotLater' /\ EntriesBacked'
         /\ \A k \in Keys, o \in Decisions : meant[k][o] <= meant'[k][o]
<1>1. \A k \in Keys, o \in Decisions : meant[k][o] \in Int
  BY DEF PermInv, TypeOK, Never
<1> QED BY <1>1 DEF PermInv, NotLater, EntriesBacked, EntryBacked, Keys

LEMMA SameTypes ==
  ASSUME PermInv, NEW t \in Requests, NEW q \in Request \cup {NoRequest},
         request' = [request EXCEPT ![t] = q], UNCHANGED <<rules, changes>>, BudgetTypeOK',
         entries' \in [Keys -> [decision : Outcomes, until : Int]],
         meant' \in [Keys -> [Decisions -> Nat \cup {Never}]]
  PROVE  TypeOK'
BY DEF PermInv, TypeOK

\* The code judges by the cache or the forge: what comes of it is right if that
\* was meant lately enough.
LEMMA DecidedRight ==
  ASSUME PermInv, NEW t \in Requests, request[t].pc \in Past,
         NEW d \in Outcomes,
         d \in Decisions => Lately(Caller(t), Target(t), d, TTL(d)),
         Caller(t) = Anonymous => d # "forbidden",
         NEW q \in Request,
         q.pc = "done", q.caller = Caller(t), q.target = Target(t),
         q.seen = request[t].seen, q.outcome = Decided(t, d)
  PROVE  RightAnswer(q)
<1>1. InFlight(request[t]) /\ request[t] \in Request
  BY RequestIs DEF PermInv, AllInFlight, Past, InCall
<1>2. PICK r \in request[t].seen :
        /\ request[t].writers_only = WritersOnly(r, Target(t))
        /\ Caller(t) = Anonymous => r.anonymous_read
  BY <1>1 DEF InFlight, SeenRules, Caller, Target
<1>3. /\ \E s \in request[t].seen : Served(s, Target(t))
      /\ Caller(t) = Anonymous => ~request[t].writers_only
  BY <1>1 DEF InFlight, SeenRules, Caller, Target
<1>4. CASE request[t].writers_only /\ d = "read"
  <2>1. q.outcome = "forbidden" /\ Caller(t) # Anonymous
    BY <1>3, <1>4 DEF Decided
  <2>2. Lately(Caller(t), Target(t), "read", GrantedTTL)
    BY <1>4, Words, TTLs DEF Levels
  <2> QED BY <1>2, <1>4, <2>1, <2>2 DEF RightAnswer, Levels
<1>5. CASE ~(request[t].writers_only /\ d = "read")
  <2>1. q.outcome = d
    BY <1>5 DEF Decided
  <2>2. /\ d \in Levels => Lately(Caller(t), Target(t), d, GrantedTTL)
        /\ d \in Refusals => Lately(Caller(t), Target(t), d, RejectedTTL)
    BY Words, TTLs
  <2>3. d \in Levels /\ WritersOnly(r, Target(t)) => d = "write"
    BY <1>2, <1>5 DEF Levels
  <2>4. d # "not_served"
    BY Words
  <2> QED BY <1>2, <1>3, <2>1, <2>2, <2>3, <2>4 DEF RightAnswer
<1> QED BY <1>4, <1>5

LEMMA FreshIs ==
  ASSUME NEW c \in Callers, NEW n \in Targets, NEW r \in RuleSets
  PROVE  Fresh(c, n, r) \in Request
BY DEF Fresh, Request, Outcomes, Never

\* A request that ends is a request.
LEMMA EndsMakes ==
  ASSUME TypeOK, NEW t \in Requests, request[t].pc # "idle",
         NEW o \in Outcomes \cup {"not_served", "spent"}, Ends(t, o)
  PROVE  \E q \in Request :
           /\ request' = [request EXCEPT ![t] = q]
           /\ q.pc = "done" /\ q.caller = Caller(t) /\ q.target = Target(t)
           /\ q.seen = request[t].seen /\ q.outcome = o
<1> DEFINE q == [Fresh(Caller(t), Target(t), rules) EXCEPT
                   !.pc = "done", !.seen = request[t].seen, !.outcome = o]
<1>1. request' = [request EXCEPT ![t] = q]
  BY DEF Ends, Done
<1>2. /\ q.pc = "done" /\ q.caller = Caller(t) /\ q.target = Target(t)
      /\ q.seen = request[t].seen /\ q.outcome = o
  BY DEF Fresh
<1>3. q \in Request
  <2>1. request[t] \in Request
    BY RequestIs
  <2>2. Caller(t) \in Callers /\ Target(t) \in Targets /\ request[t].seen \in SUBSET RuleSets
    BY <2>1 DEF Request, Caller, Target
  <2>3. Fresh(Caller(t), Target(t), rules) \in Request
    BY <2>2, FreshIs DEF TypeOK
  <2> QED BY <2>2, <2>3 DEF Request
<1> QED BY <1>1, <1>2, <1>3

\* One that ended has seen the rules in force.
LEMMA EndedInFlight ==
  ASSUME PermInv, NEW t \in Requests, request[t].pc # "idle", UNCHANGED rules,
         NEW q \in Request,
         q.pc = "done", q.caller = Caller(t), q.target = Target(t),
         q.seen = request[t].seen
  PROVE  InFlight(q)'
BY DEF PermInv, AllInFlight, InFlight, SeenRules, AskedSince, Past, InCall, Caller, Target

LEMMA BudgetStays ==
  BudgetInv /\ UNCHANGED budgetVars => BudgetInv' /\ BudgetTypeOK'
BY DEF BudgetInv, BudgetTypeOK, Credit, Promise, budgetVars, budget

LEMMA BeginKeeps ==
  \A t \in Requests, c \in Callers, n \in Targets :
    PermInv /\ Ready = {} /\ Begin(t, c, n) => PermInv'
<1> SUFFICES ASSUME NEW t \in Requests, NEW c \in Callers, NEW n \in Targets,
                    PermInv, Ready = {}, Begin(t, c, n)
             PROVE  PermInv'
  OBVIOUS
<1>0. /\ UNCHANGED <<now, budget, rules, changes, entries, meant>> /\ <<c, n>> \in Asks
      /\ rules \in RuleSets /\ BudgetInv /\ BudgetTypeOK
      /\ entries \in [Keys -> [decision : Outcomes, until : Int]]
      /\ meant \in [Keys -> [Decisions -> Nat \cup {Never}]]
  BY DEF Begin, budgetVars, PermInv, TypeOK
<1>b. BudgetInv' /\ BudgetTypeOK'
  BY <1>0, BudgetStays DEF budgetVars
<1>1. CASE Served(rules, n)
  <2>1. PICK q \in Request : q = Fresh(c, n, rules)
    BY <1>0, FreshIs
  <2>2. request' = [request EXCEPT ![t] = q]
    BY <1>1, <2>1 DEF Begin
  <2>3. q.pc = "rules" /\ q.caller = c /\ q.target = n /\ q.seen = {rules}
    BY <2>1 DEF Fresh
  <2>4. InFlight(q)' /\ RightAnswer(q)'
    BY <1>0, <1>1, <2>3 DEF InFlight, SeenRules, AskedSince, Past, InCall, RightAnswer
  <2> QED BY <1>0, <1>b, <2>2, <2>4, OneRequest, Same, SameTypes
<1>2. CASE ~Served(rules, n)
  <2>1. PICK q : q = [Fresh(c, n, rules) EXCEPT !.pc = "done", !.seen = {rules},
                     !.outcome = "not_served"]
    OBVIOUS
  <2>2. request' = [request EXCEPT ![t] = q]
    BY <1>2, <2>1 DEF Begin, Done
  <2>3. /\ q.pc = "done" /\ q.caller = c /\ q.target = n
        /\ q.seen = {rules} /\ q.outcome = "not_served"
    BY <2>1 DEF Fresh
  <2>4. q \in Request
    <3>1. Fresh(c, n, rules) \in Request /\ {rules} \in SUBSET RuleSets
      BY <1>0, FreshIs
    <3> QED BY <2>1, <3>1 DEF Request
  <2>5. InFlight(q)' /\ RightAnswer(q)'
    BY <1>0, <1>2, <2>3
      DEF InFlight, SeenRules, AskedSince, Past, InCall, RightAnswer, Levels, Refusals
  <2> QED BY <1>0, <1>b, <2>2, <2>4, <2>5, OneRequest, Same, SameTypes
<1> QED BY <1>1, <1>2

LEMMA ReadRulesKeeps ==
  \A t \in Requests : PermInv /\ Ready = {} /\ ReadRules(t) => PermInv'
<1> SUFFICES ASSUME NEW t \in Requests, PermInv, Ready = {}, ReadRules(t) PROVE PermInv'
  OBVIOUS
<1>0. /\ UNCHANGED <<now, budget, rules, changes, entries, meant>>
      /\ request[t].pc = "rules"
      /\ rules \in RuleSets /\ BudgetInv /\ BudgetTypeOK /\ TypeOK
      /\ entries \in [Keys -> [decision : Outcomes, until : Int]]
      /\ meant \in [Keys -> [Decisions -> Nat \cup {Never}]]
  BY DEF ReadRules, Busy, budgetVars, PermInv, TypeOK
<1>b. BudgetInv' /\ BudgetTypeOK'
  BY <1>0, BudgetStays DEF budgetVars
<1>f. request[t] \in Request /\ InFlight(request[t])
  BY <1>0, RequestIs DEF PermInv, AllInFlight
<1> DEFINE refused == /\ Caller(t) = Anonymous
                      /\ \/ Target(t) = Self
                         \/ ~rules.anonymous_read
                         \/ WritersOnly(rules, Target(t))
<1>1. CASE refused
  <2>1. PICK q \in Request :
           /\ request' = [request EXCEPT ![t] = q]
           /\ q.pc = "done" /\ q.caller = Caller(t) /\ q.target = Target(t)
           /\ q.seen = request[t].seen /\ q.outcome = "unauthenticated"
    <3>1. Ends(t, "unauthenticated")
      BY <1>1 DEF ReadRules
    <3> QED BY <3>1, <1>0, EndsMakes, Words
  <2>2. InFlight(q)'
    BY <1>0, <2>1, EndedInFlight
  <2>3. rules \in q.seen
    BY <1>f, <2>1 DEF InFlight, SeenRules
  <2>4. RightAnswer(q)'
    BY <1>1, <2>1, <2>3 DEF RightAnswer, Levels
  <2> QED BY <1>0, <1>b, <2>1, <2>2, <2>4, OneRequest, Same, SameTypes
<1>2. CASE ~refused
  <2>1. PICK q : q = [request[t] EXCEPT !.pc = "look",
                     !.writers_only = WritersOnly(rules, Target(t))]
    OBVIOUS
  <2>2. request' = [request EXCEPT ![t] = q]
    BY <1>2, <2>1 DEF ReadRules
  <2>3. /\ q \in Request /\ q.pc = "look" /\ q.caller = Caller(t) /\ q.target = Target(t)
        /\ q.seen = request[t].seen /\ q.writers_only = WritersOnly(rules, Target(t))
    <3>1. WritersOnly(rules, Target(t)) \in BOOLEAN
      BY DEF WritersOnly
    <3> QED BY <1>f, <2>1, <3>1 DEF Request, Caller, Target
  <2>4. InFlight(q)'
    BY <1>0, <1>2, <1>f, <2>3
      DEF InFlight, SeenRules, AskedSince, Past, InCall, Caller, Target
  <2>5. RightAnswer(q)'
    BY <2>3 DEF RightAnswer
  <2> QED BY <1>0, <1>b, <2>2, <2>3, <2>4, <2>5, OneRequest, Same, SameTypes
<1> QED BY <1>1, <1>2

LEMMA LookKeeps ==
  \A t \in Requests : PermInv /\ Ready = {} /\ Look(t) => PermInv'
<1> SUFFICES ASSUME NEW t \in Requests, PermInv, Ready = {}, Look(t) PROVE PermInv'
  OBVIOUS
<1> DEFINE k == Key(Caller(t), Target(t))
<1>0. /\ UNCHANGED <<now, rules, changes, entries, meant>>
      /\ request[t].pc = "look"
      /\ BudgetInv /\ TypeOK /\ now \in Nat
      /\ entries \in [Keys -> [decision : Outcomes, until : Int]]
      /\ meant \in [Keys -> [Decisions -> Nat \cup {Never}]]
  BY DEF Look, Busy, budgetVars, Spend, Refuse, PermInv, TypeOK, BudgetTypeOK
<1>b. BudgetInv' /\ BudgetTypeOK'
  BY <1>0, BudgetStays, SpendKeeps, RefuseKeeps DEF Look, BudgetInv
<1>f. request[t] \in Request /\ InFlight(request[t])
  BY <1>0, RequestIs DEF PermInv, AllInFlight
<1>k. k \in Keys /\ k = <<Caller(t), Target(t)>>
  BY <1>f DEF InFlight, SeenRules, Keys, Key, Caller, Target
<1>1. CASE Hit(k) /\ Ends(t, Decided(t, entries[k].decision))
  <2> DEFINE d == entries[k].decision
  <2>1. /\ d \in Outcomes /\ EntryBacked(k) /\ entries[k].until \in Int
        /\ \A o \in Decisions : meant[k][o] \in Nat \cup {Never}
    BY <1>0, <1>k DEF PermInv, EntriesBacked
  <2>2. Decided(t, d) \in Outcomes
    BY <2>1, Words DEF Decided
  <2>3. PICK q \in Request :
           /\ request' = [request EXCEPT ![t] = q]
           /\ q.pc = "done" /\ q.caller = Caller(t) /\ q.target = Target(t)
           /\ q.seen = request[t].seen /\ q.outcome = Decided(t, d)
    <3>1. Ends(t, Decided(t, d))
      BY <1>1
    <3> HIDE DEF d
    <3> QED BY <1>0, <2>2, <3>1, EndsMakes
  <2>4. d \in Decisions => Lately(Caller(t), Target(t), d, TTL(d))
    <3> SUFFICES ASSUME d \in Decisions PROVE Lately(Caller(t), Target(t), d, TTL(d))
      OBVIOUS
    <3>1. /\ meant[k][d] \in Nat /\ TTL(d) \in Nat
          /\ entries[k].until <= meant[k][d] + LookupTimeout + TTL(d)
      BY <2>1, TTLs, Words DEF EntryBacked, Never
    <3>2. now < entries[k].until
      BY <1>1, <2>1 DEF Hit
    <3> HIDE DEF d
    <3> QED BY <1>0, <1>k, <2>1, <3>1, <3>2, TTLs DEF Lately, Never
  <2>5. Caller(t) = Anonymous => d # "forbidden"
    BY <1>k, <2>1 DEF EntryBacked
  <2>6. RightAnswer(q)
    BY <1>0, <2>1, <2>3, <2>4, <2>5, DecidedRight DEF Past
  <2>7. RightAnswer(q)'
    BY <1>0, <2>6 DEF RightAnswer, Lately
  <2>8. InFlight(q)'
    BY <1>0, <2>3, EndedInFlight
  <2> QED BY <1>0, <1>b, <2>3, <2>7, <2>8, OneRequest, Same, SameTypes
<1>2. CASE request' = [request EXCEPT ![t].pc = "ask", ![t].asked = now]
  <2>1. PICK q : q = [request[t] EXCEPT !.pc = "ask", !.asked = now]
    OBVIOUS
  <2>2. request' = [request EXCEPT ![t] = q]
    BY <1>2, <2>1
  <2>3. /\ q \in Request /\ q.pc = "ask" /\ q.asked = now
        /\ q.caller = request[t].caller /\ q.target = request[t].target
        /\ q.seen = request[t].seen /\ q.writers_only = request[t].writers_only
    <3>1. request[t] \in Request /\ now \in Int
      BY <1>0, <1>f
    <3>2. q \in Request
      BY <2>1, <3>1 DEF Request
    <3> QED BY <2>1, <3>1, <3>2 DEF Request
  <2>4. InFlight(q)'
    BY <1>0, <1>f, <2>3, TTLs DEF InFlight, SeenRules, AskedSince, Past, InCall
  <2>5. RightAnswer(q)'
    BY <2>3 DEF RightAnswer
  <2> QED BY <1>0, <1>b, <2>2, <2>3, <2>4, <2>5, OneRequest, Same, SameTypes
<1>3. CASE Ends(t, "spent")
  <2>1. PICK q \in Request :
           /\ request' = [request EXCEPT ![t] = q]
           /\ q.pc = "done" /\ q.caller = Caller(t) /\ q.target = Target(t)
           /\ q.seen = request[t].seen /\ q.outcome = "spent"
    BY <1>0, <1>3, EndsMakes
  <2>2. InFlight(q)'
    BY <1>0, <2>1, EndedInFlight
  <2>3. RightAnswer(q)'
    BY <2>1 DEF RightAnswer, Levels, Refusals
  <2> QED BY <1>0, <1>b, <2>1, <2>2, <2>3, OneRequest, Same, SameTypes
<1> QED BY <1>1, <1>2, <1>3 DEF Look

LEMMA AnswerKeeps ==
  \A t \in Requests : PermInv /\ Ready = {} /\ Answer(t) => PermInv'
<1> SUFFICES ASSUME NEW t \in Requests, PermInv, Ready = {}, Answer(t) PROVE PermInv'
  OBVIOUS
<1> DEFINE k == <<Caller(t), Target(t)>>
<1>0. /\ UNCHANGED <<now, budget, rules, changes, entries>>
      /\ request[t].pc = "ask"
      /\ BudgetInv /\ TypeOK /\ now \in Nat
      /\ entries \in [Keys -> [decision : Outcomes, until : Int]]
      /\ meant \in [Keys -> [Decisions -> Nat \cup {Never}]]
  BY DEF Answer, Busy, budgetVars, PermInv, TypeOK, BudgetTypeOK
<1>b. BudgetInv' /\ BudgetTypeOK'
  BY <1>0, BudgetStays DEF budgetVars
<1>f. request[t] \in Request /\ InFlight(request[t])
  BY <1>0, RequestIs DEF PermInv, AllInFlight
<1>k. /\ k \in Keys
      /\ request[t].asked \in Nat /\ request[t].asked <= now
      /\ now <= request[t].asked + LookupTimeout
      /\ Caller(t) = Anonymous => Target(t) # Self
  BY <1>0, <1>f DEF InFlight, SeenRules, AskedSince, Keys, Caller, Target, InCall, Past
<1>1. PICK r \in Replies(t) :
        /\ request' = [request EXCEPT ![t].pc = IF r.more THEN "scopes" ELSE "land",
                         ![t].asked = IF r.more THEN now ELSE @,
                         ![t].reply = r.outcome, ![t].may_write = r.may_write]
        /\ meant' = [meant EXCEPT ![k] =
                       [o \in Decisions |-> IF o \in r.means THEN now ELSE @[o]]]
  BY DEF Answer
<1>2. /\ r.outcome \in Outcomes /\ r.more \in BOOLEAN /\ r.may_write \in BOOLEAN
      /\ ~r.more /\ r.outcome \in Decisions => r.outcome \in r.means
      /\ r.more =>
           /\ r.outcome = "write"
           /\ Caller(t) # Anonymous
           /\ "read" \in r.means
           /\ r.may_write => "write" \in r.means
      /\ Caller(t) = Anonymous => r.outcome # "forbidden"
  BY <1>k, RepliesMeant
<1>3. /\ meant' \in [Keys -> [Decisions -> Nat \cup {Never}]]
      /\ \A o \in r.means \cap Decisions : meant'[k][o] = now
      /\ \A e \in Keys, o \in Decisions : meant'[e][o] \in {meant[e][o], now}
  BY <1>0, <1>1, <1>k
<1>4. \A e \in Keys, o \in Decisions : meant[e][o] <= meant'[e][o] /\ meant'[e][o] <= now
  BY <1>0, <1>3 DEF PermInv, NotLater, Never
<1>5. PICK q : q = [request[t] EXCEPT !.pc = IF r.more THEN "scopes" ELSE "land",
                      !.asked = IF r.more THEN now ELSE @,
                      !.reply = r.outcome, !.may_write = r.may_write]
  OBVIOUS
<1>6. request' = [request EXCEPT ![t] = q]
  BY <1>1, <1>5
<1>7. /\ q \in Request
      /\ q.pc = IF r.more THEN "scopes" ELSE "land"
      /\ q.asked = IF r.more THEN now ELSE request[t].asked
      /\ q.reply = r.outcome /\ q.may_write = r.may_write
      /\ q.caller = Caller(t) /\ q.target = Target(t)
      /\ q.seen = request[t].seen /\ q.writers_only = request[t].writers_only
  <2>1. request[t] \in Request /\ now \in Int
    BY <1>0, <1>f
  <2>2. CASE r.more
    <3>1. q = [request[t] EXCEPT !.pc = "scopes", !.asked = now,
                 !.reply = r.outcome, !.may_write = r.may_write]
      BY <1>5, <2>2
    <3> QED BY <2>1, <2>2, <3>1, <1>2 DEF Request, Caller, Target
  <2>3. CASE ~r.more
    <3>1. q = [request[t] EXCEPT !.pc = "land", !.reply = r.outcome, !.may_write = r.may_write]
      BY <1>5, <2>1, <2>3 DEF Request
    <3> QED BY <2>1, <2>3, <3>1, <1>2 DEF Request, Caller, Target
  <2> QED BY <2>2, <2>3
<1>8. AskedSince(q)'
  <2>1. /\ <<q.caller, q.target>> = k
        /\ q.asked \in Nat /\ q.asked <= now /\ now <= q.asked + LookupTimeout
    BY <1>0, <1>7, <1>k, TTLs
  <2>2. CASE r.more
    <3>1. q.pc = "scopes" /\ q.reply = "write" /\ q.asked = now /\ q.caller # Anonymous
      BY <1>2, <1>7, <2>2
    <3>2. meant'[k]["read"] = now /\ (q.may_write => meant'[k]["write"] = now)
      BY <1>2, <1>3, <1>7, <2>2, Words
    <3> QED BY <1>0, <2>1, <3>1, <3>2 DEF AskedSince, InCall
  <2>3. CASE ~r.more
    <3>1. q.pc = "land" /\ (q.caller = Anonymous => q.reply # "forbidden")
      BY <1>2, <1>7, <2>3
    <3>2. q.reply \in Decisions => meant'[k][q.reply] = now
      BY <1>2, <1>3, <1>7, <2>3
    <3> QED BY <1>0, <2>1, <3>1, <3>2 DEF AskedSince, InCall
  <2> QED BY <2>2, <2>3
<1>9. SeenRules(q)'
  BY <1>0, <1>7, <1>f DEF InFlight, SeenRules, Past, InCall, Caller, Target
<1>10. RightAnswer(q)'
  BY <1>7 DEF RightAnswer
<1>11. NotLater' /\ EntriesBacked'
  <2>1. NotLater'
    BY <1>0, <1>4 DEF NotLater
  <2>2. ASSUME NEW e \in Keys PROVE EntryBacked(e)'
    <3>1. EntryBacked(e) /\ entries[e].decision \in Outcomes /\ entries[e].until \in Int
      BY <1>0 DEF PermInv, EntriesBacked
    <3>2. entries[e].decision \in Decisions =>
            /\ meant[e][entries[e].decision] \in Nat \cup {Never}
            /\ meant'[e][entries[e].decision] \in Nat \cup {Never}
            /\ meant[e][entries[e].decision] <= meant'[e][entries[e].decision]
            /\ TTL(entries[e].decision) \in Nat
      BY <1>0, <1>3, <1>4, TTLs, Words
    <3>3. TTL(entries[e].decision)' = TTL(entries[e].decision)
      BY <1>0 DEF TTL
    <3> QED BY <1>0, <3>1, <3>2, <3>3, TTLs DEF EntryBacked, Never
  <2> QED BY <2>1, <2>2 DEF EntriesBacked, Keys
<1> QED BY <1>0, <1>b, <1>3, <1>4, <1>6, <1>7, <1>8, <1>9, <1>10, <1>11, OneRequest, SameTypes
  DEF InFlight

\* What a step of a request that only moves on, or goes, needs.
LEMMA MovesOn ==
  ASSUME PermInv, Ready = {}, NEW t \in Requests, request[t].pc \in InCall,
         UNCHANGED <<budgetVars, rules, changes, entries, meant>>,
         NEW q \in Request, request' = [request EXCEPT ![t] = q],
         q.pc = "land", q.asked = request[t].asked,
         q.caller = request[t].caller, q.target = request[t].target,
         q.seen = request[t].seen, q.writers_only = request[t].writers_only,
         q.reply \in Decisions =>
           q.asked <= meant[<<request[t].caller, request[t].target>>][q.reply],
         q.caller = Anonymous => q.reply # "forbidden"
  PROVE  PermInv'
<1>0. /\ BudgetInv /\ TypeOK /\ UNCHANGED now
      /\ entries' \in [Keys -> [decision : Outcomes, until : Int]]
      /\ meant' \in [Keys -> [Decisions -> Nat \cup {Never}]]
  BY DEF PermInv, TypeOK, budgetVars
<1>b. BudgetInv' /\ BudgetTypeOK'
  BY <1>0, BudgetStays
<1>f. InFlight(request[t])
  BY DEF PermInv, AllInFlight, InCall
<1>1. SeenRules(q)'
  BY <1>f DEF InFlight, SeenRules, Past, InCall
<1>2. AskedSince(q)'
  BY <1>0, <1>f DEF InFlight, AskedSince, InCall
<1>3. RightAnswer(q)'
  BY DEF RightAnswer
<1> QED BY <1>0, <1>b, <1>1, <1>2, <1>3, OneRequest, Same, SameTypes DEF InFlight

LEMMA AskScopesKeeps ==
  \A t \in Requests : PermInv /\ Ready = {} /\ AskScopes(t) => PermInv'
<1> SUFFICES ASSUME NEW t \in Requests, PermInv, Ready = {}, AskScopes(t) PROVE PermInv'
  OBVIOUS
<1>1. request[t].pc = "scopes" /\ UNCHANGED <<budgetVars, rules, changes, entries, meant>>
  BY DEF AskScopes, Busy
<1>2. request[t] \in Request /\ AskedSince(request[t])
  BY <1>1, RequestIs DEF PermInv, AllInFlight, InFlight
<1>3. PICK q : q = [request[t] EXCEPT !.pc = "land",
                                      !.reply = IF request[t].may_write THEN "write" ELSE "read"]
  OBVIOUS
<1>4. request' = [request EXCEPT ![t] = q]
  BY <1>1, <1>2, <1>3 DEF AskScopes, AskedSince
<1>5. /\ q \in Request /\ q.pc = "land" /\ q.asked = request[t].asked
      /\ q.reply = IF request[t].may_write THEN "write" ELSE "read"
      /\ q.caller = request[t].caller /\ q.target = request[t].target
      /\ q.seen = request[t].seen /\ q.writers_only = request[t].writers_only
  BY <1>2, <1>3, Words DEF Request
<1> QED BY <1>1, <1>2, <1>4, <1>5, MovesOn DEF AskedSince, InCall

LEMMA LostKeeps ==
  \A t \in Requests : PermInv /\ Ready = {} /\ Lost(t) => PermInv'
<1> SUFFICES ASSUME NEW t \in Requests, PermInv, Ready = {}, Lost(t) PROVE PermInv'
  OBVIOUS
<1>1. /\ request[t].pc \in {"ask", "scopes"}
      /\ UNCHANGED <<budgetVars, rules, changes, entries, meant>>
  BY DEF Lost
<1>2. request[t] \in Request
  BY <1>1, RequestIs DEF PermInv
<1>3. PICK q : q = [request[t] EXCEPT !.pc = "land", !.reply = "none"]
  OBVIOUS
<1>4. request' = [request EXCEPT ![t] = q]
  BY <1>3 DEF Lost
<1>5. /\ q \in Request /\ q.pc = "land" /\ q.asked = request[t].asked /\ q.reply = "none"
      /\ q.caller = request[t].caller /\ q.target = request[t].target
      /\ q.seen = request[t].seen /\ q.writers_only = request[t].writers_only
  BY <1>2, <1>3, Words DEF Request
<1> QED BY <1>1, <1>4, <1>5, MovesOn, Words DEF InCall

LEMMA LandKeeps ==
  \A t \in Requests : PermInv /\ Ready = {} /\ Land(t) => PermInv'
<1> SUFFICES ASSUME NEW t \in Requests, PermInv, Ready = {}, Land(t) PROVE PermInv'
  OBVIOUS
<1> DEFINE k == <<Caller(t), Target(t)>>
           d == request[t].reply
<1>0. /\ UNCHANGED <<now, budget, rules, changes, meant>>
      /\ request[t].pc = "land"
      /\ BudgetInv /\ TypeOK /\ now \in Nat
      /\ entries \in [Keys -> [decision : Outcomes, until : Int]]
      /\ meant \in [Keys -> [Decisions -> Nat \cup {Never}]]
  BY DEF Land, Busy, budgetVars, PermInv, TypeOK, BudgetTypeOK
<1>b. BudgetInv' /\ BudgetTypeOK'
  BY <1>0, BudgetStays DEF budgetVars
<1>f. request[t] \in Request /\ InFlight(request[t])
  BY <1>0, RequestIs DEF PermInv, AllInFlight
<1>k. /\ k \in Keys /\ d \in Outcomes
      /\ d \in Decisions => /\ meant[k][d] \in Nat
                            /\ now <= meant[k][d] + LookupTimeout
      /\ Caller(t) = Anonymous => d # "forbidden"
  <2>1. /\ k \in Keys /\ d \in Outcomes
        /\ request[t].asked \in Nat /\ now <= request[t].asked + LookupTimeout
        /\ d \in Decisions => request[t].asked <= meant[k][d]
        /\ Caller(t) = Anonymous => d # "forbidden"
    BY <1>0, <1>f
      DEF InFlight, SeenRules, AskedSince, Keys, Caller, Target, InCall, Request
  <2>2. d \in Decisions => meant[k][d] \in Nat \cup {Never}
    BY <1>0, <2>1
  <2> HIDE DEF k, d
  <2> QED BY <1>0, <2>1, <2>2, TTLs DEF Never
<1>1. PICK q \in Request :
         /\ request' = [request EXCEPT ![t] = q]
         /\ q.pc = "done" /\ q.caller = Caller(t) /\ q.target = Target(t)
         /\ q.seen = request[t].seen /\ q.outcome = Decided(t, d)
  <2>1. Ends(t, Decided(t, d)) /\ Decided(t, d) \in Outcomes
    BY <1>k, Words DEF Land, Decided
  <2> QED BY <1>0, <2>1, EndsMakes
<1>2. InFlight(q)'
  BY <1>0, <1>1, EndedInFlight
<1>3. RightAnswer(q)'
  <2>1. d \in Decisions => Lately(Caller(t), Target(t), d, TTL(d))
    BY <1>k DEF Lately, Never
  <2>2. RightAnswer(q)
    BY <1>0, <1>1, <1>k, <2>1, DecidedRight DEF Past, InCall
  <2> QED BY <1>0, <2>2 DEF RightAnswer, Lately
<1>4. /\ entries' \in [Keys -> [decision : Outcomes, until : Int]]
      /\ EntriesBacked'
  <2>1. CASE ~Kept(t)
    BY <1>0, <2>1, Same DEF Land
  <2>2. CASE Kept(t)
    <3>0. d \in Decisions /\ TTL(d) \in Nat
      BY <1>k, <2>2, Words, TTLs DEF Kept
    <3>1. entries' = [e \in Keys |->
            IF e = k THEN [decision |-> d, until |-> now + TTL(d)]
            ELSE IF entries[e].until > now THEN entries[e] ELSE NoEntry]
      BY <2>2 DEF Land, Insert, Key
    <3>2. entries' \in [Keys -> [decision : Outcomes, until : Int]]
      BY <1>0, <1>k, <3>0, <3>1, Words DEF NoEntry, Never
    <3>3. ASSUME NEW e \in Keys PROVE EntryBacked(e)'
      <4>1. CASE e = k
        <5>1. entries'[e].decision = d /\ entries'[e].until = now + TTL(d)
          BY <3>1, <4>1
        <5>2. TTL(entries'[e].decision) = TTL(d)
          BY <5>1
        <5>3. e[1] = Anonymous => d # "forbidden"
          BY <1>k, <4>1
        <5>4. d # "none"
          BY <3>0, Words
        <5>5. /\ meant'[e][d] # Never
              /\ entries'[e].until <= meant'[e][d] + LookupTimeout + TTL(d)
          BY <1>0, <1>k, <3>0, <4>1, <5>1, TTLs DEF Never
        <5> HIDE DEF d, k
        <5> QED BY <5>1, <5>2, <5>3, <5>4, <5>5 DEF EntryBacked, TTL
      <4>2. CASE e # k /\ entries[e].until > now
        BY <1>0, <3>1, <4>2 DEF PermInv, EntriesBacked, EntryBacked, TTL
      <4>3. CASE e # k /\ ~(entries[e].until > now)
        <5>1. entries'[e] = NoEntry
          BY <3>1, <4>3
        <5> QED BY <5>1, Words DEF EntryBacked, NoEntry
      <4> QED BY <4>1, <4>2, <4>3
    <3> QED BY <3>2, <3>3 DEF EntriesBacked, Keys
  <2> QED BY <2>1, <2>2
<1>5. NotLater' /\ \A e \in Keys, o \in Decisions : meant[e][o] <= meant'[e][o]
  BY <1>0 DEF PermInv, NotLater, Never
<1> QED BY <1>0, <1>b, <1>1, <1>2, <1>3, <1>4, <1>5, OneRequest, SameTypes

LEMMA LeaveKeeps ==
  \A t \in Requests : PermInv /\ Ready = {} /\ Leave(t) => PermInv'
<1> SUFFICES ASSUME NEW t \in Requests, PermInv, Ready = {}, Leave(t) PROVE PermInv'
  OBVIOUS
<1>1. /\ request' = [request EXCEPT ![t] = NoRequest]
      /\ UNCHANGED <<budgetVars, now, rules, changes, entries, meant>>
      /\ entries' \in [Keys -> [decision : Outcomes, until : Int]]
      /\ meant' \in [Keys -> [Decisions -> Nat \cup {Never}]]
  BY DEF Leave, PermInv, TypeOK, budgetVars
<1>2. BudgetInv' /\ BudgetTypeOK'
  BY <1>1, BudgetStays DEF PermInv
<1>3. RightAnswer(NoRequest)'
  BY DEF RightAnswer, NoRequest
<1> QED BY <1>1, <1>2, <1>3, OneRequest, Same, SameTypes

-----------------------------------------------------------------------------
(* Answers that are sent, rules that change, and time.                     *)

LEMMA RespondStep ==
  \A t \in Requests : PermInv /\ Respond(t) => PermInv'
<1> SUFFICES ASSUME NEW t \in Requests, PermInv, Respond(t) PROVE PermInv'
  OBVIOUS
<1>1. /\ request' = [request EXCEPT ![t] = NoRequest]
      /\ UNCHANGED <<budgetVars, now, rules, changes, entries, meant>>
      /\ entries' \in [Keys -> [decision : Outcomes, until : Int]]
      /\ meant' \in [Keys -> [Decisions -> Nat \cup {Never}]]
  BY DEF Respond, PermInv, TypeOK, budgetVars
<1>2. BudgetInv' /\ TypeOK' /\ NotLater' /\ EntriesBacked'
  BY <1>1, BudgetStays, Same, SameTypes DEF PermInv
<1>3. ASSUME NEW u \in Requests
      PROVE  (request[u].pc # "idle" => InFlight(request[u]))' /\ RightAnswer(request[u])'
  <2>1. CASE u = t
    BY <1>1, <2>1 DEF PermInv, TypeOK, NoRequest, RightAnswer
  <2>2. CASE u # t
    <3>1. request'[u] = request[u]
      BY <1>1, <2>2 DEF PermInv, TypeOK
    <3>2. (request[u].pc # "idle" => InFlight(request[u])) /\ RightAnswer(request[u])
      BY DEF PermInv, AllInFlight, AllRight
    <3>3. ASSUME NEW q, InFlight(q) PROVE InFlight(q)'
      BY <1>1, <3>3 DEF InFlight, SeenRules, AskedSince
    <3>4. ASSUME NEW q, RightAnswer(q) PROVE RightAnswer(q)'
      BY <1>1, <3>4 DEF RightAnswer, Lately
    <3>5. (request[u].pc # "idle" => InFlight(request[u]))'
      <4>1. CASE request[u].pc = "idle"
        BY <3>1, <4>1
      <4>2. CASE request[u].pc # "idle"
        <5>1. PICK q : q = request[u]
          OBVIOUS
        <5>2. InFlight(q) /\ request'[u] = q
          BY <3>1, <3>2, <4>2, <5>1
        <5>3. InFlight(q)'
          BY <3>3, <5>2
        <5> QED BY <5>2, <5>3 DEF InFlight, SeenRules, AskedSince
      <4> QED BY <4>1, <4>2
    <3>6. RightAnswer(request[u])'
      <4>1. PICK q : q = request[u]
        OBVIOUS
      <4>2. RightAnswer(q) /\ request'[u] = q
        BY <3>1, <3>2, <4>1
      <4>3. RightAnswer(q)'
        BY <3>4, <4>2
      <4> QED BY <4>2, <4>3 DEF RightAnswer, Lately
    <3> QED BY <3>5, <3>6
  <2> QED BY <2>1, <2>2
<1> QED BY <1>2, <1>3 DEF PermInv, AllInFlight, AllRight

LEMMA SetAccessKeeps ==
  \A r \in RuleSets : PermInv /\ Ready = {} /\ SetAccess(r) => PermInv'
<1> SUFFICES ASSUME NEW r \in RuleSets, PermInv, Ready = {}, SetAccess(r) PROVE PermInv'
  OBVIOUS
<1>1. /\ rules' = r /\ changes < MaxChanges /\ changes' = changes + 1
      /\ UNCHANGED <<budgetVars, now, entries, meant>>
      /\ request' = [t \in Requests |->
           IF Busy(t, "idle") THEN request[t] ELSE [request[t] EXCEPT !.seen = @ \cup {r}]]
  BY DEF SetAccess, budgetVars
<1>2. BudgetInv' /\ BudgetTypeOK' /\ NotLater' /\ EntriesBacked'
  BY <1>1, BudgetStays, Same DEF PermInv
<1>3. ASSUME NEW t \in Requests
      PROVE  /\ request'[t] \in Request \cup {NoRequest}
             /\ (request[t].pc # "idle" => InFlight(request[t]))'
             /\ RightAnswer(request[t])'
  <2>1. CASE Busy(t, "idle")
    BY <1>1, <2>1 DEF PermInv, TypeOK, Busy, RightAnswer
  <2>2. CASE ~Busy(t, "idle")
    <3>1. request[t] \in Request /\ InFlight(request[t])
      BY <2>2, RequestIs DEF PermInv, AllInFlight, Busy
    <3>2. request'[t] = [request[t] EXCEPT !.seen = @ \cup {r}]
      BY <1>1, <2>2
    <3>3. PICK q : q = request'[t]
      OBVIOUS
    <3>4. /\ q \in Request /\ q.pc = request[t].pc /\ q.seen = request[t].seen \cup {r}
          /\ q.caller = request[t].caller /\ q.target = request[t].target
          /\ q.writers_only = request[t].writers_only /\ q.asked = request[t].asked
          /\ q.reply = request[t].reply /\ q.may_write = request[t].may_write
      BY <3>1, <3>2, <3>3 DEF Request
    <3>5. q.pc # "done"
      BY <3>4 DEF Ready, Busy
    <3>6. SeenRules(q)' /\ AskedSince(q)'
      BY <1>1, <3>1, <3>4 DEF InFlight, SeenRules, AskedSince, Past, InCall
    <3> QED BY <3>3, <3>4, <3>5, <3>6 DEF InFlight, SeenRules, AskedSince, RightAnswer
  <2> QED BY <2>1, <2>2
<1>4. TypeOK'
  <2>1. request' \in [Requests -> Request \cup {NoRequest}]
    BY <1>1, <1>3
  <2>2. changes' \in 0 .. MaxChanges
    BY <1>1, PermissionsConstantsOK DEF PermInv, TypeOK
  <2> QED BY <1>1, <1>2, <2>1, <2>2 DEF PermInv, TypeOK
<1> QED BY <1>2, <1>3, <1>4 DEF PermInv, AllInFlight, AllRight

LEMMA PassKeeps == PermInv /\ Ready = {} /\ Pass => PermInv'
<1> SUFFICES ASSUME PermInv, Ready = {}, Pass PROVE PermInv'
  OBVIOUS
<1>1. /\ now' = now + 1 /\ UNCHANGED <<rules, changes, entries, request, meant>> /\ now \in Nat
      /\ TypeOK
  BY DEF Pass, Tick, authVars, PermInv, TypeOK, BudgetTypeOK
<1>2. BudgetInv' /\ BudgetTypeOK'
  BY TickKeeps DEF PermInv, Pass, BudgetInv
<1>3. TypeOK'
  BY <1>1, <1>2 DEF TypeOK
<1>4. NotLater'
  BY <1>1 DEF PermInv, NotLater, TypeOK, Never
<1>5. EntriesBacked'
  BY <1>1 DEF PermInv, EntriesBacked, EntryBacked, TTL
<1>6. ASSUME NEW t \in Requests
      PROVE  (request[t].pc # "idle" => InFlight(request[t]))' /\ RightAnswer(request[t])'
  <2>1. CASE request[t].pc = "idle"
    BY <1>1, <2>1 DEF RightAnswer
  <2>2. CASE request[t].pc # "idle"
    <3>1. /\ request[t] \in Request /\ InFlight(request[t])
          /\ request[t].pc \in InCall
          /\ now < request[t].asked + LookupTimeout
      BY <1>1, <2>2, RequestIs DEF PermInv, AllInFlight, Pass, InCall
    <3>2. SeenRules(request[t])'
      BY <1>1, <3>1 DEF InFlight, SeenRules
    <3>3. AskedSince(request[t])'
      BY <1>1, <3>1, TTLs DEF InFlight, AskedSince
    <3> QED BY <1>1, <3>1, <3>2, <3>3 DEF InFlight, RightAnswer, InCall
  <2> QED BY <2>1, <2>2
<1> QED BY <1>2, <1>3, <1>4, <1>5, <1>6 DEF PermInv, AllInFlight, AllRight

LEMMA PermInitHolds == Init => PermInv
<1> SUFFICES ASSUME Init PROVE PermInv
  OBVIOUS
<1>1. BudgetInv
  BY InitHolds DEF Init
<1>2. TypeOK
  BY <1>1, PermissionsConstantsOK, Words DEF Init, TypeOK, BudgetInv, NoEntry, Never
<1>3. now \in Nat
  BY <1>1 DEF BudgetInv, BudgetTypeOK
<1>4. NotLater /\ EntriesBacked
  BY <1>3, Words DEF Init, NotLater, EntriesBacked, EntryBacked, NoEntry, Never
<1>5. AllInFlight /\ AllRight
  BY DEF Init, AllInFlight, AllRight, RightAnswer, NoRequest
<1> QED BY <1>1, <1>2, <1>4, <1>5 DEF PermInv

\* What is kept and what is under way was meant since it was asked for, and what
\* is answered is right, in every state, whoever asks and whatever is answered.
THEOREM PermissionsInvariant == Spec => []PermInv
<1>1. PermInv /\ [Next]_vars => PermInv'
  <2> SUFFICES ASSUME PermInv, [Next]_vars PROVE PermInv'
    OBVIOUS
  <2>1. ASSUME NEW t \in Ready, Respond(t) PROVE PermInv'
    BY <2>1, RespondStep DEF Ready
  <2>2. ASSUME Ready = {}, NEW t \in Requests, Serve(t) PROVE PermInv'
    BY <2>2, BeginKeeps, ReadRulesKeeps, LookKeeps, AnswerKeeps, AskScopesKeeps, LostKeeps,
       LandKeeps, LeaveKeeps DEF Serve
  <2>3. ASSUME Ready = {}, NEW r \in RuleSets, SetAccess(r) PROVE PermInv'
    BY <2>3, SetAccessKeeps
  <2>4. ASSUME Ready = {}, Pass PROVE PermInv'
    BY <2>4, PassKeeps
  <2>5. CASE UNCHANGED vars
    <3>1. UNCHANGED <<budgetVars, now, rules, changes, entries, request, meant>>
      BY <2>5 DEF vars, budgetVars, authVars
    <3>2. BudgetInv' /\ TypeOK' /\ NotLater' /\ EntriesBacked'
      BY <3>1, BudgetStays, Same DEF PermInv, TypeOK
    <3> QED BY <3>1, <3>2 DEF PermInv, AllInFlight, AllRight, InFlight, SeenRules,
                              AskedSince, RightAnswer, Lately
  <2> QED BY <2>1, <2>2, <2>3, <2>4, <2>5 DEF Next
<1> QED BY PermInitHolds, <1>1, PTL DEF Spec

LEMMA RightAnswers ==
  PermInv => GrantBacked /\ RefusalBacked /\ RulesObeyed /\ AnonymousMayRetry
BY DEF PermInv, AllRight, RightAnswer, GrantBacked, RefusalBacked, RulesObeyed,
       AnonymousMayRetry, Busy, Caller, Target, Ruled

\* Whatever the forge answers and however its answers cross, nobody is granted
\* what it did not lately mean for just that caller and repository (cache.rs
\* 61-83).
THEOREM GrantsHold == Spec => []GrantBacked
BY PermissionsInvariant, RightAnswers, PTL

\* Nobody is refused but by the forge, lately, or by rules that were in force
\* while the request was there (auth.rs 216-256).
THEOREM RefusalsHold == Spec => []RefusalBacked
BY PermissionsInvariant, RightAnswers, PTL

\* The rules are obeyed whatever is remembered from before they changed
\* (auth.rs 175-195, 216-228).
THEOREM RulesHold == Spec => []RulesObeyed
BY PermissionsInvariant, RightAnswers, PTL

\* A caller without a token is never told that the answer is final (github.rs
\* 109-115).
THEOREM AnonymousRetries == Spec => []AnonymousMayRetry
BY PermissionsInvariant, RightAnswers, PTL

\* The budget keeps its window and its promise also as requests use it, which
\* spend and refuse at any point between their other steps (budget.rs 76-99).
THEOREM BudgetHoldsInUse == Spec => [](WindowKept /\ PromiseKept)
<1>1. PermInv => WindowKept /\ PromiseKept
  BY WindowFollows, PromiseFollows DEF PermInv
<1> QED BY PermissionsInvariant, <1>1, PTL

-----------------------------------------------------------------------------
(* AppTokens: a JWT is reused while both calls fit into what is left of    *)
(* it, a token while the slack is, and a repository without an             *)
(* installation is remembered for no longer than the App can have been     *)
(* installed there unnoticed.                                              *)

\* A JWT in use has the time of both its calls beyond its use.
JwtReserve == signed.use > 0 => signed.use + 2 * CallTime <= signed.life

GrantReserve == grant.use > 0 => grant.use + Slack <= grant.life

\* Where the App is not installed it has been for no time; where it is taken not
\* to be, for no longer than the refusal is old and the call took.
Missing ==
  \A r \in AppRepos :
    /\ r \notin covered => inside[r] = 0
    /\ uninstalled[r] > 0 => inside[r] + uninstalled[r] <= RejectionTTL + CallTime

\* What a lookup has in hand where it is.
InHand(r) ==
  /\ r.pc \in {"locate", "located"} => r.by + CallTime < r.jwt
  /\ r.pc = "located" /\ r.answer = "absent" => inside[r.repo] + r.by <= CallTime
  /\ r.pc \in {"mint", "minted"} => r.by < r.jwt
  /\ r.pc = "minted" => TokenLife + r.by <= r.token + CallTime
  /\ r.pc = "token" => CallTime <= r.token
  /\ r.pc = "none" => r.ago < RejectionTTL + CallTime

AllInHand == \A s \in Seekers : seeker[s] # Free => InHand(seeker[s])

AppInv == AppTypeOK /\ JwtReserve /\ GrantReserve /\ Missing /\ AllInHand

LEMMA Times ==
  /\ JWT_VALID_FOR \in Nat \ {0} /\ JWT_REUSED_FOR \in Nat \ {0} /\ TokenLife \in Nat \ {0}
  /\ Slack \in Nat \ {0} /\ RejectionTTL \in Nat \ {0} /\ CallTime \in Nat \ {0}
  /\ Long \in Nat
  /\ JWT_REUSED_FOR + 2 * CallTime <= JWT_VALID_FOR
  /\ CallTime <= Slack
  /\ 2 * CallTime <= TokenLife
  /\ MaxInstalls \in Nat
BY AppConstantsOK DEF Long

LEMMA Zeros ==
  /\ 0 \in 0 .. JWT_VALID_FOR /\ 0 \in 0 .. CallTime /\ 0 \in 0 .. TokenLife /\ 0 \in 0 .. Long
  /\ CallTime \in 0 .. CallTime /\ TokenLife \in 0 .. TokenLife
BY Times

LEMMA LessBounded == \A k \in Nat : \A n \in 0 .. k : Less(n) \in 0 .. k
BY DEF Less

LEMMA AppInitHolds == AppInit => AppInv
<1> SUFFICES ASSUME AppInit PROVE AppInv
  OBVIOUS
<1> USE Times
<1>1. AppTypeOK
  BY DEF AppInit, AppTypeOK, Nothing
<1>2. JwtReserve /\ GrantReserve
  BY DEF AppInit, JwtReserve, GrantReserve, Nothing
<1>3. Missing
  BY DEF AppInit, Missing
<1>4. AllInHand
  BY DEF AppInit, AllInHand
<1> QED BY <1>1, <1>2, <1>3, <1>4 DEF AppInv

\* A step of one lookup that leaves what the App is installed on, and what it is
\* taken not to be: the lookup has in hand what it needs.
LEMMA OneSeeker ==
  ASSUME AppInv, NEW s \in Seekers, NEW r \in Seeker \cup {Free}, Puts(s, r),
         UNCHANGED <<covered, installs, inside>>,
         r # Free => InHand(r),
         JwtReserve', GrantReserve', Missing',
         signed' \in [use : 0 .. JWT_REUSED_FOR, life : 0 .. JWT_VALID_FOR],
         grant' \in [use : 0 .. TokenLife, life : 0 .. TokenLife],
         uninstalled' \in [AppRepos -> 0 .. RejectionTTL]
  PROVE  AppInv'
<1>1. seeker' \in [Seekers -> Seeker \cup {Free}]
  BY DEF AppInv, AppTypeOK, Puts
<1>2. AppTypeOK'
  BY <1>1 DEF AppInv, AppTypeOK
<1>3. AllInHand'
  <2> SUFFICES ASSUME NEW q \in Seekers, seeker'[q] # Free
               PROVE  InHand(seeker'[q])
    BY DEF AllInHand, InHand, Free
  <2>1. CASE q = s
    BY <2>1 DEF AppInv, AppTypeOK, Puts
  <2>2. CASE q # s
    BY <2>2 DEF AppInv, AppTypeOK, Puts, AllInHand
  <2> QED BY <2>1, <2>2
<1> QED BY <1>2, <1>3 DEF AppInv

\* What is remembered stays.
LEMMA Remembered ==
  ASSUME AppInv, UNCHANGED <<covered, inside, signed, grant, uninstalled>>
  PROVE  /\ JwtReserve' /\ GrantReserve' /\ Missing'
         /\ signed' \in [use : 0 .. JWT_REUSED_FOR, life : 0 .. JWT_VALID_FOR]
         /\ grant' \in [use : 0 .. TokenLife, life : 0 .. TokenLife]
         /\ uninstalled' \in [AppRepos -> 0 .. RejectionTTL]
BY DEF AppInv, AppTypeOK, JwtReserve, GrantReserve, Missing

\* A lookup that is anywhere is a lookup.
LEMMA BusySeeker ==
  ASSUME AppInv, NEW s \in Seekers, seeker[s].pc # "free"
  PROVE  seeker[s] \in Seeker /\ InHand(seeker[s]) /\ seeker[s] # Free
BY DEF AppInv, AppTypeOK, AllInHand, Free

LEMMA SeekKeeps == \A s \in Seekers, r \in AppRepos : AppInv /\ Seek(s, r) => AppInv'
<1> SUFFICES ASSUME NEW s \in Seekers, NEW r \in AppRepos, AppInv, Seek(s, r) PROVE AppInv'
  OBVIOUS
<1> USE Times
<1> DEFINE new == [pc |-> "locate", repo |-> r, jwt |-> 0, by |-> 0, answer |-> "nothing",
                   token |-> 0, ago |-> 0]
<1>0. UNCHANGED <<covered, installs, inside, grant, uninstalled>>
  BY DEF Seek
<1>a. CASE grant.use > 0
  <2> DEFINE got == [new EXCEPT !.pc = "token", !.token = grant.life]
  <2>1. Puts(s, got) /\ UNCHANGED signed
    BY <1>a DEF Seek
  <2>0. grant.life \in 0 .. TokenLife
    BY DEF AppInv, AppTypeOK
  <2>2. got \in Seeker /\ got.pc = "token" /\ got.token = grant.life
    BY <2>0, Zeros DEF Seeker, Calling
  <2>3. CallTime <= grant.life
    BY <1>a DEF AppInv, AppTypeOK, GrantReserve
  <2>4. InHand(got)
    BY <2>2, <2>3 DEF InHand
  <2> HIDE DEF got
  <2> QED BY <2>1, <2>2, <2>4, <1>0, OneSeeker, Remembered
<1>b. CASE grant.use = 0 /\ Excused(r)
  <2> DEFINE got == [new EXCEPT !.pc = "none", !.ago = inside[r]]
  <2>1. Puts(s, got) /\ UNCHANGED signed
    BY <1>b DEF Seek
  <2>0. inside[r] \in 0 .. Long
    BY DEF AppInv, AppTypeOK
  <2>2. got \in Seeker /\ got.pc = "none" /\ got.ago = inside[r]
    BY <2>0, Zeros DEF Seeker, Calling
  <2>3. inside[r] < RejectionTTL + CallTime
    BY <1>b DEF AppInv, AppTypeOK, Missing, Excused
  <2>4. InHand(got)
    BY <2>2, <2>3 DEF InHand
  <2> HIDE DEF got
  <2> QED BY <2>1, <2>2, <2>4, <1>0, OneSeeker, Remembered
<1>c. CASE grant.use = 0 /\ ~Excused(r)
  <2> DEFINE got == [new EXCEPT !.jwt = Jwt.life, !.by = CallTime]
  <2>1. Puts(s, got) /\ signed' = Jwt
    BY <1>c DEF Seek, AppInv, AppTypeOK
  <2>2. /\ Jwt \in [use : 0 .. JWT_REUSED_FOR, life : 0 .. JWT_VALID_FOR]
        /\ Jwt.use > 0
        /\ Jwt.use + 2 * CallTime <= Jwt.life
    BY DEF Jwt, AppInv, AppTypeOK, JwtReserve
  <2>0. Jwt.life \in 0 .. JWT_VALID_FOR
    BY <2>2
  <2>3. got \in Seeker /\ got.pc = "locate" /\ got.jwt = Jwt.life /\ got.by = CallTime
    BY <2>0, Zeros DEF Seeker, Calling
  <2>4. InHand(got)
    BY <2>2, <2>3 DEF InHand
  <2>5. JwtReserve'
    BY <2>1, <2>2 DEF JwtReserve
  <2>6. /\ GrantReserve' /\ Missing'
        /\ grant' \in [use : 0 .. TokenLife, life : 0 .. TokenLife]
        /\ uninstalled' \in [AppRepos -> 0 .. RejectionTTL]
    BY <1>0 DEF AppInv, AppTypeOK, GrantReserve, Missing
  <2> HIDE DEF got
  <2> QED BY <2>1, <2>2, <2>3, <2>4, <2>5, <2>6, <1>0, OneSeeker
<1> QED BY <1>a, <1>b, <1>c DEF AppInv, AppTypeOK

LEMMA LocatesKeeps ==
  \A s \in Seekers, answer \in {"found", "absent", "denied", "other"} :
    AppInv /\ Locates(s, answer) => AppInv'
<1> SUFFICES ASSUME NEW s \in Seekers, NEW answer \in {"found", "absent", "denied", "other"},
                    AppInv, Locates(s, answer)
             PROVE  AppInv'
  OBVIOUS
<1> USE Times
<1> DEFINE got == [seeker[s] EXCEPT !.pc = "located", !.answer = answer]
<1>0. /\ Puts(s, got)
      /\ answer = "absent" => seeker[s].repo \notin covered
      /\ seeker[s].pc = "locate"
      /\ UNCHANGED <<covered, installs, inside, signed, grant, uninstalled>>
  BY DEF Locates, In
<1>1. seeker[s] \in Seeker /\ InHand(seeker[s])
  BY <1>0, BusySeeker
<1>2. /\ got \in Seeker /\ got.pc = "located" /\ got.answer = answer
      /\ got.jwt = seeker[s].jwt /\ got.by = seeker[s].by /\ got.repo = seeker[s].repo
  BY <1>1 DEF Seeker, Calling
<1>3. answer = "absent" => inside[seeker[s].repo] = 0
  BY <1>0, <1>1 DEF AppInv, Missing, Seeker
<1>4. InHand(got)
  BY <1>0, <1>1, <1>2, <1>3 DEF InHand, Seeker
<1> HIDE DEF got
<1> QED BY <1>0, <1>2, <1>4, OneSeeker, Remembered

LEMMA LocatedKeeps == \A s \in Seekers : AppInv /\ Located(s) => AppInv'
<1> SUFFICES ASSUME NEW s \in Seekers, AppInv, Located(s) PROVE AppInv'
  OBVIOUS
<1> USE Times
<1> DEFINE r == seeker[s]
<1>0. r.pc = "located" /\ UNCHANGED <<covered, installs, inside, grant>>
  BY DEF Located, In
<1>1. r \in Seeker /\ InHand(r) /\ r # Free
  BY <1>0, BusySeeker
<1>2. /\ GrantReserve' /\ grant' \in [use : 0 .. TokenLife, life : 0 .. TokenLife]
  BY <1>0 DEF AppInv, AppTypeOK, GrantReserve
<1>3. /\ JwtReserve'
      /\ signed' \in [use : 0 .. JWT_REUSED_FOR, life : 0 .. JWT_VALID_FOR]
  BY DEF Located, AppInv, AppTypeOK, JwtReserve, Nothing
<1>a. CASE r.answer = "found"
  <2> DEFINE got == [r EXCEPT !.pc = "mint", !.by = CallTime]
  <2>1. Puts(s, got) /\ UNCHANGED uninstalled
    BY <1>a DEF Located
  <2>2. /\ got \in Seeker /\ got.pc = "mint" /\ got.by = CallTime /\ got.jwt = r.jwt
    BY <1>1, Zeros DEF Seeker, Calling
  <2>3. InHand(got)
    BY <2>2, <1>0, <1>1 DEF InHand, Seeker
  <2>4. Missing' /\ uninstalled' \in [AppRepos -> 0 .. RejectionTTL]
    BY <2>1, <1>0 DEF AppInv, AppTypeOK, Missing
  <2> HIDE DEF got
  <2> QED BY <2>1, <2>2, <2>3, <2>4, <1>0, <1>2, <1>3, OneSeeker
<1>b. CASE r.answer = "absent"
  <2> DEFINE got == [r EXCEPT !.pc = "none", !.jwt = 0, !.by = 0, !.ago = inside[r.repo]]
  <2>1. /\ Puts(s, got)
        /\ uninstalled' = [uninstalled EXCEPT ![r.repo] = RejectionTTL]
    BY <1>b DEF Located
  <2>0. r.repo \in AppRepos /\ inside[r.repo] \in 0 .. Long /\ inside[r.repo] <= CallTime
    BY <1>0, <1>1, <1>b DEF InHand, Seeker, AppInv, AppTypeOK
  <2>2. got \in Seeker /\ got.pc = "none" /\ got.ago = inside[r.repo]
    BY <2>0, <1>1, Zeros DEF Seeker, Calling
  <2>3. InHand(got)
    BY <2>0, <2>2 DEF InHand
  <2>4. Missing' /\ uninstalled' \in [AppRepos -> 0 .. RejectionTTL]
    BY <2>0, <2>1, <1>0 DEF AppInv, AppTypeOK, Missing
  <2> HIDE DEF got
  <2> QED BY <2>1, <2>2, <2>3, <2>4, <1>0, <1>2, <1>3, OneSeeker
<1>c. CASE r.answer \notin {"found", "absent"}
  <2>1. Puts(s, Free) /\ UNCHANGED uninstalled
    BY <1>c DEF Located
  <2>2. Missing' /\ uninstalled' \in [AppRepos -> 0 .. RejectionTTL]
    BY <2>1, <1>0 DEF AppInv, AppTypeOK, Missing
  <2> QED BY <2>1, <2>2, <1>0, <1>2, <1>3, OneSeeker
<1> QED BY <1>a, <1>b, <1>c

LEMMA MintsKeeps == \A s \in Seekers : AppInv /\ Mints(s) => AppInv'
<1> SUFFICES ASSUME NEW s \in Seekers, AppInv, Mints(s) PROVE AppInv'
  OBVIOUS
<1> USE Times
<1> DEFINE got == [seeker[s] EXCEPT !.pc = "minted", !.token = TokenLife]
<1>0. /\ Puts(s, got)
      /\ seeker[s].pc = "mint"
      /\ UNCHANGED <<covered, installs, inside, signed, grant, uninstalled>>
  BY DEF Mints, In
<1>1. seeker[s] \in Seeker /\ InHand(seeker[s])
  BY <1>0, BusySeeker
<1>2. /\ got \in Seeker /\ got.pc = "minted" /\ got.token = TokenLife
      /\ got.jwt = seeker[s].jwt /\ got.by = seeker[s].by
  BY <1>1, Zeros DEF Seeker, Calling
<1>3. InHand(got)
  BY <1>0, <1>1, <1>2 DEF InHand, Seeker
<1> HIDE DEF got
<1> QED BY <1>0, <1>2, <1>3, OneSeeker, Remembered

LEMMA MintedKeeps == \A s \in Seekers : AppInv /\ Minted(s) => AppInv'
<1> SUFFICES ASSUME NEW s \in Seekers, AppInv, Minted(s) PROVE AppInv'
  OBVIOUS
<1> USE Times
<1> DEFINE got == [seeker[s] EXCEPT !.pc = "token", !.jwt = 0, !.by = 0]
<1>0. /\ Puts(s, got)
      /\ seeker[s].pc = "minted"
      /\ grant' = [use |-> Usable(seeker[s].token), life |-> seeker[s].token]
      /\ UNCHANGED <<covered, installs, inside, signed, uninstalled>>
  BY DEF Minted, In
<1>1. seeker[s] \in Seeker /\ InHand(seeker[s])
  BY <1>0, BusySeeker
<1>2. got \in Seeker /\ got.pc = "token" /\ got.token = seeker[s].token
  BY <1>1, Zeros DEF Seeker, Calling
<1>3. InHand(got)
  BY <1>0, <1>1, <1>2 DEF InHand, Seeker
<1>4. /\ seeker[s].token \in 0 .. TokenLife
      /\ Usable(seeker[s].token) \in 0 .. TokenLife
      /\ Usable(seeker[s].token) > 0 => Usable(seeker[s].token) + Slack <= seeker[s].token
  BY <1>1 DEF Seeker, Usable
<1>5. GrantReserve' /\ grant' \in [use : 0 .. TokenLife, life : 0 .. TokenLife]
  BY <1>0, <1>4 DEF GrantReserve
<1>6. /\ JwtReserve' /\ Missing'
      /\ signed' \in [use : 0 .. JWT_REUSED_FOR, life : 0 .. JWT_VALID_FOR]
      /\ uninstalled' \in [AppRepos -> 0 .. RejectionTTL]
  BY <1>0 DEF AppInv, AppTypeOK, JwtReserve, Missing
<1> HIDE DEF got
<1> QED BY <1>0, <1>2, <1>3, <1>5, <1>6, OneSeeker

LEMMA FreedKeeps == \A s \in Seekers : AppInv /\ (SeekFails(s) \/ Sought(s)) => AppInv'
BY OneSeeker, Remembered DEF SeekFails, Sought

LEMMA InstallsKeeps == \A r \in AppRepos : AppInv /\ Installs(r) => AppInv'
<1> SUFFICES ASSUME NEW r \in AppRepos, AppInv, Installs(r) PROVE AppInv'
  OBVIOUS
<1> USE Times
<1>0. /\ covered' = IF r \in covered THEN covered \ {r} ELSE covered \cup {r}
      /\ inside' = [inside EXCEPT ![r] = 0]
      /\ inside \in [AppRepos -> 0 .. Long]
      /\ UNCHANGED <<signed, grant, uninstalled, seeker>>
  BY DEF Installs, AppInv, AppTypeOK
<1>1. AppTypeOK'
  BY <1>0 DEF AppInv, AppTypeOK, Installs
<1>2. JwtReserve' /\ GrantReserve'
  BY <1>0 DEF AppInv, JwtReserve, GrantReserve
<1>3. inside'[r] = 0 /\ \A q \in AppRepos \ {r} : inside'[q] = inside[q]
  BY <1>0
<1>4. Missing'
  BY <1>0, <1>3 DEF AppInv, AppTypeOK, Missing
<1>5. AllInHand'
  <2> SUFFICES ASSUME NEW s \in Seekers, seeker[s] # Free PROVE InHand(seeker[s])'
    BY <1>0 DEF AllInHand, Free
  <2>1. seeker[s] \in Seeker /\ InHand(seeker[s])
    BY DEF AppInv, AppTypeOK, AllInHand
  <2>2. seeker[s].repo \in AppRepos /\ seeker[s].by \in 0 .. CallTime
    BY <2>1 DEF Seeker
  <2>3. inside'[seeker[s].repo] <= inside[seeker[s].repo]
    BY <2>2, <1>0, <1>3
  <2>4. inside[seeker[s].repo] \in Nat /\ inside'[seeker[s].repo] \in Nat
    BY <2>2, <1>0, <1>3
  <2> QED BY <2>1, <2>2, <2>3, <2>4, <1>0 DEF InHand
<1> QED BY <1>1, <1>2, <1>4, <1>5 DEF AppInv

LEMMA SecondKeeps == AppInv /\ SecondPasses => AppInv'
<1> SUFFICES ASSUME AppInv, SecondPasses PROVE AppInv'
  OBVIOUS
<1> USE Times
<1>0. /\ covered' = covered /\ installs' = installs
      /\ signed' = [use |-> Less(signed.use), life |-> Less(signed.life)]
      /\ grant' = [use |-> Less(grant.use), life |-> Less(grant.life)]
      /\ signed \in [use : 0 .. JWT_REUSED_FOR, life : 0 .. JWT_VALID_FOR]
      /\ grant \in [use : 0 .. TokenLife, life : 0 .. TokenLife]
  BY DEF SecondPasses, AppInv, AppTypeOK
<1>1. \A r \in AppRepos :
        /\ inside[r] \in 0 .. Long /\ inside'[r] \in 0 .. Long
        /\ inside'[r] <= inside[r] + 1
        /\ r \notin covered => inside'[r] = inside[r]
        /\ uninstalled[r] \in 0 .. RejectionTTL
        /\ uninstalled'[r] = Less(uninstalled[r])
  <2> SUFFICES ASSUME NEW r \in AppRepos
               PROVE  /\ inside[r] \in 0 .. Long /\ inside'[r] \in 0 .. Long
                      /\ inside'[r] <= inside[r] + 1
                      /\ r \notin covered => inside'[r] = inside[r]
                      /\ uninstalled[r] \in 0 .. RejectionTTL
                      /\ uninstalled'[r] = Less(uninstalled[r])
    OBVIOUS
  <2>1. inside[r] \in 0 .. Long /\ uninstalled[r] \in 0 .. RejectionTTL
    BY DEF AppInv, AppTypeOK
  <2>2. inside'[r] = IF r \in covered /\ inside[r] < Long THEN inside[r] + 1 ELSE inside[r]
    BY DEF SecondPasses
  <2>3. uninstalled'[r] = Less(uninstalled[r])
    BY DEF SecondPasses
  <2> QED BY <2>1, <2>2, <2>3
<1>2. /\ signed' \in [use : 0 .. JWT_REUSED_FOR, life : 0 .. JWT_VALID_FOR]
      /\ grant' \in [use : 0 .. TokenLife, life : 0 .. TokenLife]
  BY <1>0 DEF Less
<1>3. JwtReserve' /\ GrantReserve'
  BY <1>0 DEF AppInv, JwtReserve, GrantReserve, Less
<1>4. Missing'
  BY <1>0, <1>1 DEF AppInv, Missing, Less
<1>5. ASSUME NEW s \in Seekers, seeker[s] # Free
      PROVE  /\ seeker'[s] = [seeker[s] EXCEPT !.jwt = Less(@), !.by = Less(@), !.token = Less(@)]
             /\ seeker[s] \in Seeker /\ InHand(seeker[s])
             /\ seeker[s].pc \in Calling /\ seeker[s].by > 0
  BY <1>5 DEF SecondPasses, AppInv, AppTypeOK, AllInHand
<1>6. \A s \in Seekers : seeker[s] = Free => seeker'[s] = Free
  BY DEF SecondPasses
<1>7. ASSUME NEW s \in Seekers, seeker[s] # Free
      PROVE  seeker'[s] \in Seeker /\ InHand(seeker[s])'
  <2> DEFINE r == seeker[s]
             q == seeker'[s]
  <2>1. /\ r \in Seeker /\ InHand(r) /\ r.pc \in Calling /\ r.by > 0
        /\ q = [r EXCEPT !.jwt = Less(@), !.by = Less(@), !.token = Less(@)]
    BY <1>5, <1>7
  <2>2. /\ q \in Seeker
        /\ q.pc = r.pc /\ q.repo = r.repo /\ q.answer = r.answer /\ q.ago = r.ago
        /\ q.jwt = Less(r.jwt) /\ q.by = Less(r.by) /\ q.token = Less(r.token)
    <3>1. /\ Less(r.jwt) \in 0 .. JWT_VALID_FOR /\ Less(r.by) \in 0 .. CallTime
          /\ Less(r.token) \in 0 .. TokenLife
      BY <2>1, LessBounded DEF Seeker
    <3> QED BY <2>1, <3>1 DEF Seeker
  <2>3. /\ r.repo \in AppRepos /\ r.jwt \in Nat /\ r.by \in Nat /\ r.token \in Nat
    BY <2>1 DEF Seeker
  <2>4. /\ inside[r.repo] \in Nat /\ inside'[r.repo] \in Nat
        /\ inside'[r.repo] <= inside[r.repo] + 1
    BY <2>3, <1>1
  <2> HIDE DEF r, q
  <2>5. /\ q.pc \in {"locate", "located"} => q.by + CallTime < q.jwt
        /\ q.pc = "located" /\ q.answer = "absent" => inside'[q.repo] + q.by <= CallTime
        /\ q.pc \in {"mint", "minted"} => q.by < q.jwt
        /\ q.pc = "minted" => TokenLife + q.by <= q.token + CallTime
        /\ q.pc \notin {"token", "none"}
    BY <2>1, <2>2, <2>3, <2>4 DEF InHand, Less, Calling
  <2> QED BY <2>2, <2>5 DEF InHand, q
<1>8. AppTypeOK'
  <2>1. seeker' \in [Seekers -> Seeker \cup {Free}]
    BY <1>6, <1>7 DEF SecondPasses
  <2>2. inside' \in [AppRepos -> 0 .. Long]
    BY <1>1 DEF SecondPasses
  <2>3. uninstalled' \in [AppRepos -> 0 .. RejectionTTL]
    BY <1>1, LessBounded DEF SecondPasses
  <2> QED BY <2>1, <2>2, <2>3, <1>0, <1>2 DEF AppInv, AppTypeOK
<1>9. AllInHand'
  BY <1>6, <1>7 DEF AllInHand, Free
<1> QED BY <1>3, <1>4, <1>8, <1>9 DEF AppInv

\* Lookups hold what they need and what is remembered has its reserve, for any
\* number of both.
THEOREM AppInvariant == AppSpec => []AppInv
<1>1. AppInv /\ [AppNext]_appVars => AppInv'
  <2>1. AppInv /\ UNCHANGED appVars => AppInv'
    BY DEF AppInv, AppTypeOK, JwtReserve, GrantReserve, Missing, AllInHand, InHand, appVars
  <2> QED BY <2>1, SeekKeeps, LocatesKeeps, LocatedKeeps, MintsKeeps, MintedKeeps, FreedKeeps,
             InstallsKeeps, SecondKeeps
          DEF AppNext
<1> QED BY AppInitHolds, <1>1, PTL DEF AppSpec

\* No lookup asks with a token or a JWT that has ended, or without a token for
\* longer than a missing installation may be remembered (app.rs 80-226), as
\* long as the times are what AppConstantsOK wants of them.
THEOREM IdentityHolds == AppSpec => []IdentityCurrent
<1>1. AppInv => IdentityCurrent
  <2> SUFFICES ASSUME AppInv, NEW s \in Seekers, seeker[s].pc # "free"
               PROVE  /\ seeker[s].pc = "token" => CallTime <= seeker[s].token
                      /\ seeker[s].pc = "none" => seeker[s].ago < RejectionTTL + CallTime
                      /\ seeker[s].pc \in {"locate", "mint"} => seeker[s].jwt > 0
    BY DEF IdentityCurrent, In
  <2>1. seeker[s] \in Seeker /\ InHand(seeker[s])
    BY BusySeeker
  <2> QED BY <2>1, Times DEF InHand, Seeker
<1> QED BY AppInvariant, <1>1, PTL
==============================================================================
