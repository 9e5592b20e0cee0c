---------------------------- MODULE MCFacilitator ----------------------------
(* A metered tool that falls back to 'exact', beside a plain one.           *)
EXTENDS Facilitator, TLC

CONSTANTS metered, plain, c1, c2, p1, p2

MCDeclared == metered :> [scheme |-> "upto", fallback |-> TRUE]
           @@ plain :> [scheme |-> "exact", fallback |-> FALSE]
=============================================================================
