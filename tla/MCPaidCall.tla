------------------------------ MODULE MCPaidCall ------------------------------
(***************************************************************************)
(* Small instances of PaidCall.                                            *)
(***************************************************************************)
EXTENDS PaidCall, TLC

CONSTANTS r1, r2, r3, alice, n1, n2, n3

Signed(payer, nonce, scheme, base, ceiling) ==
  [payer |-> payer, nonce |-> nonce, scheme |-> scheme, base |-> base, ceiling |-> ceiling]

\* Alice pays a metered tool by its exact offer, a metered one, and with a
\* voucher; a payload of an unknown shape names neither its payer nor a nonce.
MCAuthorizations ==
  {Signed(alice, n1, "exact", 1, 2),
   Signed(alice, n2, "upto", 0, 2),
   Signed(alice, n3, "batch", 1, 1),
   Signed(NoPayer, NoNonce, "exact", 1, 1),
   Signed(NoPayer, NoNonce, "upto", 0, 1)}

\* One payer and a price of which three go into the budget.
FixedPrice ==
  {Signed(alice, n1, "exact", 2, 2), Signed(alice, n2, "exact", 2, 2),
   Signed(alice, n3, "exact", 2, 2)}
\* Requests are interchangeable; no property is about liveness.
RequestSymmetry == Permutations(Requests)
=============================================================================
