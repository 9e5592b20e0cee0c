----------------------------- MODULE MCCatalogue -----------------------------
(* A metered tool at base 1 and ceiling 2; one payer with an 'upto' and an   *)
(* 'exact' payment, another with a voucher.                                  *)
EXTENDS Catalogue

CONSTANTS alice, bob, n1, n2, n3, c1, c2, c3

MCPayments == {[payer |-> alice, nonce |-> n1, scheme |-> "upto"],
               [payer |-> alice, nonce |-> n2, scheme |-> "exact"],
               [payer |-> bob, nonce |-> n3, scheme |-> "batch-settlement"]}
=============================================================================
