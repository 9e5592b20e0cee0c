------------------------------- MODULE MCWindow -------------------------------
(***************************************************************************)
(* A small instance of Window.                                             *)
(***************************************************************************)
EXTENDS Window

CONSTANTS r1, r2, alice, n1, n2, n3

Payment(nonce, scheme, amount) ==
  [payer |-> alice, nonce |-> nonce, scheme |-> scheme, base |-> amount, ceiling |-> amount]

\* Two raises of one payer's voucher and an exact payment.
Payments == {Payment(n1, "batch", 1), Payment(n2, "batch", 2), Payment(n3, "exact", 1)}
=============================================================================
