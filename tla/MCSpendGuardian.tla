--------------------------- MODULE MCSpendGuardian ---------------------------
(***************************************************************************)
(* Small instances of SpendGuardian.                                       *)
(***************************************************************************)
EXTENDS SpendGuardian

CONSTANTS c1, c2, c3

Of(amount) == [amount |-> amount, permitted |-> TRUE]
Barred(amount) == [amount |-> amount, permitted |-> FALSE]

\* One price; two offers of which the client picks the cheaper; an offer outside
\* the allowlist; a price that does not parse, alone or beside one that does.
MCQuotes ==
  {[worst |-> Of(1), chosen |-> Of(1)],
   [worst |-> Of(2), chosen |-> Of(2)],
   [worst |-> Of(2), chosen |-> Of(1)],
   [worst |-> Of(1), chosen |-> Barred(1)],
   [worst |-> Of(1), chosen |-> Of(Unpriced)]}

PriceQuotes == {[worst |-> Of(1), chosen |-> Of(1)], [worst |-> Of(2), chosen |-> Of(2)]}

Policy(session, daily_, perCall, escalate) ==
  [session |-> session, daily |-> daily_, perCall |-> perCall,
   escalate |-> escalate, requireReceipt |-> TRUE]

\* Budgets that run out on the second or third call; with and without a daily
\* budget, a per-call maximum and an escalation threshold.
MCPolicies ==
  {Policy(3, 2, NoLimit, NoLimit),
   Policy(3, NoLimit, NoLimit, 1),
   Policy(2, 3, 1, NoLimit),
   Policy(3, 3, NoLimit, 0)}

DailyPolicies == {Policy(NoLimit, 2, NoLimit, NoLimit)}
=============================================================================
