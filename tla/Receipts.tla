------------------------------- MODULE Receipts -------------------------------
(***************************************************************************)
(* A receipt, from its issue to its checks: app/pay/receipts.py, the       *)
(* buyer's app/client/verify.py, and the free tool `verify_receipt`        *)
(* (app/gateway/ledger.py).  Operators only; Window keeps the rows.        *)
(*                                                                         *)
(* A digest is modelled by the body it was computed of: SHA-256 over one   *)
(* canonical form on both sides.                                           *)
(***************************************************************************)
EXTENDS Integers

\* A transaction, by what made it: NoTx, or the settlement of a call or a batch.
NoTx == [kind |-> "none", of |-> 0]
Tx(kind, of) == [kind |-> kind, of |-> of]

\* canonical_json and body_digest, of the gateway and of the buyer: one to one.
Digest(body) == body

-----------------------------------------------------------------------------
(* app/pay/receipts.py *)

Body(call, mode, tx, attested) ==
  [call |-> call.id, authorized |-> call.authorized, captured |-> call.captured,
   payer |-> call.payer, settlement |-> mode, transaction |-> tx, attestation |-> attested,
   batch |-> 0, settledAt |-> FALSE]

\* issue: the body, its digest, and the columns beside them.
Issue(call, mode, tx, attested) ==
  LET body == Body(call, mode, tx, attested)
  IN  [issued |-> TRUE, body |-> body, bodyHash |-> Digest(body), parses |-> TRUE,
       authorized |-> call.authorized, captured |-> call.captured, payer |-> call.payer,
       tx |-> tx, attested |-> attested, batch |-> 0]

\* Mutant of Attach: the body is patched and its digest left as it was.
AttachPatched(receipt, b, tx) ==
  LET body == [receipt.body EXCEPT !.transaction = tx, !.settlement = "batched",
                                   !.batch = b, !.settledAt = TRUE]
  IN  IF receipt.parses THEN [receipt EXCEPT !.body = body, !.tx = tx] ELSE receipt
\* attach_batch_settlement, of one receipt: rebuilt and rehashed, or, when its
\* body does not parse, left alone.
Attach(receipt, b, tx) ==
  LET body == [receipt.body EXCEPT !.transaction = tx, !.settlement = "batched",
                                   !.batch = b, !.settledAt = TRUE]
  IN  IF receipt.parses
        THEN [receipt EXCEPT !.body = body, !.bodyHash = Digest(body), !.tx = tx]
        ELSE receipt

Check(name, ok, strength) == [name |-> name, ok |-> ok, strength |-> strength]

\* verify: the receipt against itself, its call, and its batch.
Verify(receipt, call, batch) ==
  IF ~receipt.parses THEN {Check("body_parses", FALSE, "local")}
  ELSE
    {Check("body_hash", Digest(receipt.body) = receipt.bodyHash, "local"),
     Check("capture_within_authorization", receipt.captured <= receipt.authorized, "local"),
     Check("matches_ledger", /\ call.captured = receipt.captured
                             /\ call.authorized = receipt.authorized
                             /\ call.payer = receipt.payer, "local")}
    \cup (IF receipt.attested THEN {Check("facilitator_attestation", TRUE, "facilitator")} ELSE {})
    \cup (IF receipt.batch # 0
            THEN {Check("call_is_in_batch", call.batch = receipt.batch, "local"),
                  IF batch.settleTx # NoTx
                    THEN Check("onchain_settlement", receipt.tx = batch.settleTx, "chain")
                    ELSE Check("onchain_settlement", TRUE, "local")}
          ELSE IF receipt.tx # NoTx THEN {Check("onchain_settlement", TRUE, "chain")}
          ELSE {})

Passed(checks) == \A c \in checks : c.ok

\* Verification.status
Status(checks) ==
  IF ~Passed(checks) THEN "failed"
  ELSE IF \E c \in checks : c.strength = "chain" THEN "verified_onchain"
  ELSE IF \E c \in checks : c.strength = "facilitator" THEN "verified_attested"
  ELSE "verified_local"

-----------------------------------------------------------------------------
(* app/gateway/ledger.py: the free tool *)

\* receipt_body: what the gateway gives back, the stored body with its digest.
Fetched(receipt) == [body |-> receipt.body, bodyHash |-> receipt.bodyHash]

-----------------------------------------------------------------------------
(* app/client/verify.py *)

\* verify_onchain_transfer: what the chain says a transaction moved to the
\* payee, reverted or unknown transactions included.
Unreachable == -2
Reverted == -1
OnChainCheck(moves, least) ==
  IF moves = Unreachable THEN "unavailable"
  ELSE IF moves = Reverted \/ moves < least THEN "failed"
  ELSE "passed"

\* verify_receipt: `rpc` is whether a chain was given to look at, `expected` the
\* buyer's own address.  The attestation is of the facilitator, not of a known
\* attestor, and so is skipped.
BuyerChecks(copy, expected, rpc, moves) ==
  LET b == copy.body
  IN  [structure |-> IF b.captured <= b.authorized /\ b.payer = expected
                       THEN "passed" ELSE "failed",
       digest |-> IF Digest(b) = copy.bodyHash THEN "passed" ELSE "failed",
       attestation |-> "skipped",
       onchain |-> IF b.transaction = NoTx
                     THEN IF b.settlement = "batched" THEN "pending_batch" ELSE "failed"
                   ELSE IF ~rpc THEN "skipped"
                   ELSE OnChainCheck(moves, b.captured)]

\* ReceiptVerification.verified: nothing failed.
BuyerVerified(checks) == \A layer \in DOMAIN checks : checks[layer] # "failed"
=============================================================================
