-------------------------------- MODULE Budget --------------------------------
(***************************************************************************)
(* What a spend budget promises, whoever keeps it: money is held before it *)
(* is signed for, what is held and what is spent stay within the limit,    *)
(* and a hold is never let go for less than may still be collected on it.  *)
(* app/client/guardian.py: "An EIP-3009 authorization is a bearer          *)
(* instrument", and exposure is "committed + sum(outstanding reservations)".*)
(***************************************************************************)
EXTENDS Integers, Totals

CONSTANTS
  Calls,    \* what money is held for
  NoLimit   \* a budget without a limit

VARIABLES
  limit,    \* the budget
  held,     \* what is held for each call
  spent,    \* what has been booked
  over,     \* what was booked above what had been held
  owed      \* what each call's authorization may bring in, or has brought in

budgetVars == <<limit, held, spent, over, owed>>

Exposure == spent + Total(Calls, held)

Init ==
  /\ limit \in Nat \cup {NoLimit}
  /\ held = [c \in Calls |-> 0] /\ owed = held
  /\ spent = 0 /\ over = 0

\* Money is held for a call that has signed nothing, within the limit.
Hold(c) ==
  /\ held[c] = 0 /\ owed[c] = 0
  /\ held'[c] \in Nat /\ held' = [held EXCEPT ![c] = held'[c]]
  /\ limit # NoLimit => Exposure' <= limit
  /\ UNCHANGED <<limit, spent, over, owed>>

\* An authorization is signed for what is held.
SignOut(c) == owed' = [owed EXCEPT ![c] = held[c]] /\ UNCHANGED <<limit, held, spent, over>>

\* It is collected, perhaps in part, and then never again.
Collect(c) ==
  /\ owed'[c] \in 0..owed[c] /\ owed' = [owed EXCEPT ![c] = owed'[c]]
  /\ UNCHANGED <<limit, held, spent, over>>

\* The hold is let go and the cost booked: nothing if nothing was signed, and
\* never less than what is owed.
Book(c, cost) ==
  /\ held[c] > 0 /\ held' = [held EXCEPT ![c] = 0]
  /\ cost \in Nat /\ cost >= owed[c]
  /\ spent' = spent + cost
  /\ over' = over + (IF cost > held[c] THEN cost - held[c] ELSE 0)
  /\ UNCHANGED <<limit, owed>>

\* The keeper of the budget is gone, and another begins from nothing.
Forget ==
  /\ held' = [c \in Calls |-> 0] /\ spent' = 0 /\ owed' = [c \in Calls |-> 0]
  /\ UNCHANGED <<limit, over>>

Next ==
  \/ \E c \in Calls : Hold(c) \/ SignOut(c) \/ Collect(c) \/ Book(c, spent' - spent)
  \/ Forget

Spec == Init /\ [][Next]_budgetVars
=============================================================================
