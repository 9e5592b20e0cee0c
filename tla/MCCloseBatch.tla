----------------------------- MODULE MCCloseBatch -----------------------------
(***************************************************************************)
(* Small instances of CloseBatch.                                          *)
(***************************************************************************)
EXTENDS CloseBatch

CONSTANTS r1, r2, alice, n1, n2, k1

Voucher(nonce, amount) ==
  [payer |-> alice, nonce |-> nonce, scheme |-> "batch", base |-> amount, ceiling |-> amount]

\* Two raises of one payer's voucher, of different amounts.
Vouchers == {Voucher(n1, 1), Voucher(n2, 2)}
=============================================================================
