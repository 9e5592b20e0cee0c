------------------------------- MODULE Totals -------------------------------
(***************************************************************************)
(* Sums of natural numbers over a finite set, without recursion: every     *)
(* atomic unit of f[x] is an element <<x, k>>, and the sum is how many     *)
(* elements there are.  The code sums integer atomic units (app/money.py), *)
(* and the facts TotalsProofs.tla proves of Total are facts about          *)
(* cardinalities.                                                          *)
(***************************************************************************)
EXTENDS Naturals, FiniteSets

Units(S, f) == UNION {{x} \X (1..f[x]) : x \in S}
Total(S, f) == Cardinality(Units(S, f))
=============================================================================
