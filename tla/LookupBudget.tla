---------------------------- MODULE LookupBudget ----------------------------
(***************************************************************************)
(* The ceiling on what this server asks its forge                          *)
(* (server/src/auth/budget.rs).                                            *)
(*                                                                         *)
(* A bucket of lookups that fills with the time that passes and is filled  *)
(* up only when somebody looks.  A tick of the clock is a second; the      *)
(* allowance is counted in lookups times Minute, so what a second earns is *)
(* an integer and no float is needed.                                      *)
(***************************************************************************)
EXTENDS Integers

CONSTANTS
  PerMinute,  \* LFSX_AUTH_LOOKUP_BUDGET; 0 for no ceiling
  Minute,     \* seconds in a minute
  Starts,     \* seconds from which the lookups afforded are counted
  Follow,     \* whether callers who were refused are followed
  MaxClock    \* bound: the last second of the model

ASSUME BudgetConstantsOK ==
  /\ PerMinute \in Nat
  /\ Minute \in Nat \ {0}
  /\ Starts \subseteq Nat
  /\ Follow \in BOOLEAN
  /\ MaxClock \in Nat

VARIABLES
  now,        \* the clock
  allowance,  \* State.allowance
  refilled,   \* State.refilled_at
  since,      \* history: lookups afforded from each of Starts on
  due         \* history: when the first caller refused, since somebody was let
              \* through, was told to come back

budget == <<allowance, refilled, since, due>>

budgetVars == <<now, budget>>

NoPromise == -1

BudgetTypeOK ==
  /\ now \in Nat
  /\ allowance \in 0 .. PerMinute * Minute
  /\ refilled \in 0 .. now
  /\ since \in [Starts -> Nat]
  /\ due \in Nat \cup {NoPromise}

BudgetInit ==
  /\ now = 0
  /\ allowance = PerMinute * Minute
  /\ refilled = 0
  /\ since = [s \in Starts |-> 0]
  /\ due = NoPromise

\* Mutant of Refill: what an idle night earned is kept.
RefillUncapped == allowance + (now - refilled) * PerMinute

\* What the bucket holds once it is filled up, as of now.
Refill ==
  LET full == PerMinute * Minute
      with == allowance + (now - refilled) * PerMinute
  IN IF with <= full THEN with ELSE full

\* Mutant of Wait: rounded down.
WaitShort ==
  LET w == (Minute - Refill) \div PerMinute IN IF w = 0 THEN 1 ELSE w

\* Seconds until one lookup is earned: rounded up, and never none.
Wait == (Minute - Refill + PerMinute - 1) \div PerMinute

\* Without a ceiling there is room and nothing to keep count of.
Spend ==
  \/ /\ PerMinute = 0
     /\ UNCHANGED budgetVars
  \/ /\ PerMinute > 0
     /\ Refill >= Minute
     /\ allowance' = Refill - Minute
     /\ refilled' = now
     /\ since' = [s \in Starts |-> IF s <= now THEN since[s] + 1 ELSE since[s]]
     /\ due' = NoPromise
     /\ UNCHANGED now

Refuse ==
  /\ PerMinute > 0
  /\ Refill < Minute
  /\ allowance' = Refill
  /\ refilled' = now
  /\ due' = IF Follow /\ due = NoPromise THEN now + Wait ELSE due
  /\ UNCHANGED <<now, since>>

Tick ==
  /\ now < MaxClock
  /\ now' = now + 1
  /\ UNCHANGED budget

BudgetNext == Spend \/ Refuse \/ Tick

BudgetSpec == BudgetInit /\ [][BudgetNext]_budgetVars

-----------------------------------------------------------------------------
(* Properties.                                                             *)

\* Counted from any second on, the lookups afforded are no more than one
\* minute's worth and what the time since then earned: the end of one window
\* and the beginning of the next do not add up, which is why this is a bucket
\* and not a count per minute (budget.rs 76-81), and an idle night earns no
\* more than one minute.
WindowKept ==
  PerMinute > 0 =>
    \A s \in Starts :
      s <= now => Minute * since[s] <= (Minute + now - s) * PerMinute

\* A caller who was refused and is told when to come back finds room at that
\* second and not before, unless somebody else was let through meanwhile
\* (budget.rs 95-99): however many others were refused in between, each of
\* which filled the bucket up.
PromiseKept == due # NoPromise => (Refill >= Minute <=> now >= due)
=============================================================================
