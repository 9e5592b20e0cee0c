----------------------------- MODULE MCDashboard -----------------------------
(* A run of every scheme and failure path, one drawing of the seeder.       *)
EXTENDS Dashboard

Run(scheme, fail, calls, units, budget, perCall) ==
  [scheme |-> scheme, fail |-> fail, calls |-> calls, price |-> 2, ceiling |-> 4, unit |-> 1,
   units |-> units, budget |-> budget, perCall |-> perCall, escalate |-> 4, allowlisted |-> TRUE]
MCArguments ==
  {Run(s, f, 3, 1, 9, 4) : s \in {"exact", "batch-settlement"}, f \in Failures}
  \cup {Run("upto", f, 3, 1, 9, 4) : f \in {"over-budget", "over-capture"}}
  \cup {Run("upto", "none", 2, 5, 9, 4), Run("exact", "none", 3, 0, 4, 4),
        Run("batch-settlement", "none", 3, 0, 5, 4), Run("upto", "none", 1, 0, 9, 3),
        Run("exact", "none", 0, 0, 9, 4),
        [Run("batch-settlement", "none", 2, 0, 9, 4) EXCEPT !.price = 0]}
MCSeeds ==
  {<<[open |-> FALSE, captures |-> <<3, 1>>, declines |-> 1],
     [open |-> TRUE, captures |-> <<2>>, declines |-> 0]>>}
=============================================================================
