------------------------------ MODULE MCPricing ------------------------------
(* A take of three tenths, a fee half a price, and prices of every form.    *)
EXTENDS Pricing

Int_(n) == [form |-> "int", value |-> n]
Decimal(n) == [form |-> "decimal", value |-> n]
None == [form |-> "none", value |-> 0]

MCDeclarations ==
  {[scheme |-> s, price |-> p, max |-> x, meter |-> m, per |-> u] :
     s \in Schemes, p \in {Decimal(4), Decimal(3), Int_(3), [form |-> "float", value |-> 2]},
     x \in {None, Int_(1), Decimal(10)}, m \in Meters \cup {Unmetered},
     u \in {None, Int_(1)}}
MCOutcomes == {[dict |-> TRUE, bytes |-> 2, ms |-> 1], [dict |-> FALSE, bytes |-> 4, ms |-> 1001]}
=============================================================================
