-------------------------------- MODULE Money --------------------------------
(***************************************************************************)
(* Amounts of money, app/money.py: prices parsed into atomic units, the    *)
(* split of a captured amount, and the weight of a fee.                    *)
(***************************************************************************)
EXTENDS Integers

CONSTANTS
  Sub,      \* parts of an atomic unit a decimal price can name
  Bps,      \* economics.BPS, one hundred percent
  TakeBps,  \* the platform's take, in those parts
  Fee       \* what the facilitator asks for one transaction

ASSUME MoneyAssumption ==
  Sub \in Nat \ {0} /\ Bps \in Nat \ {0} /\ TakeBps \in 0..Bps /\ Fee \in Nat

Refused == -2    \* PriceError

Least(a, b) == IF a < b THEN a ELSE b
Greatest(a, b) == IF a > b THEN a ELSE b
\* -(-a // b), the integer ceiling.
CeilDiv(a, b) == (a + b - 1) \div b

\* An int of atomic units, or a decimal that is a whole number of them.
ParsePrice(p) ==
  CASE p.form = "int" /\ p.value >= 0 -> p.value
    [] p.form = "decimal" /\ p.value >= 0 /\ p.value % Sub = 0 -> p.value \div Sub
    [] OTHER -> Refused

\* Mutant of PlatformCut: the platform's cut is rounded up.
PlatformCutCeil(gross, bps) == CeilDiv(gross * bps, Bps)
\* split_take: the cut is floored and the remainder is the author's.
PlatformCut(gross, bps) == (gross * bps) \div Bps
AuthorNet(gross, bps) == gross - PlatformCut(gross, bps)

FeeLoad(cost, gross) == IF gross <= 0 THEN 0 ELSE (cost * Bps) \div gross
=============================================================================
