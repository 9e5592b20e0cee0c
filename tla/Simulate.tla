------------------------------- MODULE Simulate -------------------------------
(***************************************************************************)
(* The offline payment simulator: app/cli/simulate.py and the pieces of    *)
(* app/cli/_x402.py it is made of.  One process, one session: each call is *)
(* challenged, judged by the buyer's policy, signed, verified, captured,   *)
(* and the session is closed.  `--fail` walks one failure path.            *)
(***************************************************************************)
EXTENDS Money, Totals, Sequences

CONSTANT Arguments  \* what one run is given: its arguments and the settings it reads

Schemes == {"exact", "upto", "batch-settlement"}
Failures == {"none", "no-payment", "bad-signature", "replay", "over-budget", "over-capture"}

ASSUME ArgumentsAssumption ==
  \A a \in Arguments :
    /\ a.scheme \in Schemes /\ a.fail \in Failures /\ a.allowlisted \in BOOLEAN
    /\ {a.calls, a.price, a.ceiling, a.unit, a.units, a.budget, a.perCall, a.escalate} \subseteq Nat

VARIABLES
  args,     \* this run's, or NoArgs before it starts
  phase,    \* "idle", "calling", "closing" or "closed"
  records,  \* one CallRecord per call
  channel,  \* the SimulatedChannel: its deposit, the ceiling signed, the last voucher
  seen,     \* OfflineFacilitator.seen_nonces
  cache,    \* _REPLAY_CACHE
  totals    \* captured_total, authorized_ceiling, declined

simVars == <<args, phase, records, channel, seen, cache, totals>>

NoArgs == [scheme |-> "none"]
NoPayload == [kind |-> "none", nonce |-> <<"none", 0>>, amount |-> 0, genuine |-> FALSE]

Channelled == args.scheme = "batch-settlement"
Index == Len(records) + 1

-----------------------------------------------------------------------------
(* ToolSpec *)

AuthorizedOf(a) == IF a.scheme = "upto" THEN a.ceiling ELSE a.price
Authorized == AuthorizedOf(args)
CaptureFor ==
  IF args.scheme # "upto" THEN args.price
  ELSE Least(args.price + args.units * args.unit, Authorized)

-----------------------------------------------------------------------------
(* GuardianPolicy *)

\* `--fail over-budget`: half a call short of two.
BudgetOf(a) == IF a.fail = "over-budget" THEN AuthorizedOf(a) + AuthorizedOf(a) \div 2 ELSE a.budget

\* evaluate and decline_reason: the first rule that is broken.
DeclineReason(spent) ==
  LET broken(rule) == CASE rule = 1 -> ~args.allowlisted
                        [] rule = 2 -> Authorized > args.perCall
                        [] rule = 3 -> spent + Authorized > BudgetOf(args)
                        [] rule = 4 -> Authorized > args.escalate
                        [] rule = 5 -> TRUE
  IN  <<"not_allowlisted", "per_call_max", "over_session_budget", "needs_escalation", "none">>[
        CHOOSE rule \in 1..5 : broken(rule) /\ \A earlier \in 1..(rule - 1) : ~broken(earlier)]

-----------------------------------------------------------------------------
(* Signing and verifying *)

\* SimulatedChannel.open: funded for the whole session, twice over.
Opened(a) ==
  [deposit |-> IF a.scheme = "batch-settlement" THEN AuthorizedOf(a) * Greatest(a.calls, 1) * 2 ELSE 0,
   cumulative |-> 0, voucher |-> 0]

\* sign_next_voucher: the cumulative ceiling is raised by one call's price.
Signed ==
  IF Channelled
    THEN [channel EXCEPT !.cumulative = @ + Authorized, !.voucher = channel.cumulative + Authorized]
    ELSE channel

\* A fresh nonce, or the channel's new ceiling; tamper_signature spoils call #1's.
Payload ==
  IF Channelled
    THEN [kind |-> "voucher", nonce |-> <<"ceiling", Signed.cumulative>>, amount |-> Authorized,
          genuine |-> TRUE]
    ELSE [kind |-> "eip3009", nonce |-> <<"random", Index>>, amount |-> Authorized,
          genuine |-> ~(args.fail = "bad-signature" /\ Index = 1)]

Replayed == args.fail = "replay" /\ Index > 1
Presented == IF Replayed /\ cache # NoPayload THEN cache ELSE Payload

\* Mutant of OfflineVerify: the nonce is not looked up.
OfflineVerifyTwice(p) == p.kind = "eip3009" /\ p.amount = Authorized /\ p.genuine
\* OfflineFacilitator.verify.
OfflineVerify(p) ==
  p.kind = "eip3009" /\ p.amount = Authorized /\ p.nonce \notin seen /\ p.genuine

\* _verify_voucher.
VoucherVerify(c) == c.cumulative <= c.voucher /\ c.cumulative <= c.deposit

Verified == IF Channelled /\ ~Replayed THEN VoucherVerify(Signed) ELSE OfflineVerify(Presented)

-----------------------------------------------------------------------------
(* One call *)

\* _one_call's `blank`.
Blank(status, reason) ==
  [status |-> status, reason |-> reason, authorized |-> Authorized, captured |-> 0,
   platform |-> 0, net |-> 0, nonce |-> <<"none", 0>>]

Recorded(record, stops) ==
  /\ records' = Append(records, record)
  /\ phase' = (IF stops \/ Index = args.calls THEN "closing" ELSE "calling")

Start(a) ==
  /\ phase = "idle"
  /\ args' = a
  /\ phase' = (IF a.calls = 0 THEN "closing" ELSE "calling")
  /\ channel' = Opened(a)
  /\ UNCHANGED <<records, seen, cache, totals>>

\* `--fail no-payment`: the 402 is where it ends.
Challenge ==
  /\ phase = "calling" /\ args.fail = "no-payment" /\ Index = 1
  /\ Recorded(Blank("challenged", "none"), TRUE)
  /\ UNCHANGED <<args, channel, seen, cache, totals>>

Judged == phase = "calling" /\ ~(args.fail = "no-payment" /\ Index = 1)

\* Mutant of Decline: the voucher is signed before the policy is asked.
DeclineSigned ==
  LET reason == DeclineReason(totals.captured)
  IN  /\ Judged /\ reason # "none"
      /\ Recorded(Blank("declined", reason), args.fail = "over-budget")
      /\ totals' = [totals EXCEPT !.declined = @ + 1]
      /\ channel' = Signed
      /\ UNCHANGED <<args, seen, cache>>
\* The policy says no: nothing is signed, and the session goes on.
Decline ==
  LET reason == DeclineReason(totals.captured)
  IN  /\ Judged /\ reason # "none"
      /\ Recorded(Blank("declined", reason), args.fail = "over-budget")
      /\ totals' = [totals EXCEPT !.declined = @ + 1]
      /\ UNCHANGED <<args, channel, seen, cache>>

\* Signing and verifying, of every call the policy allows.
Sign ==
  /\ Judged /\ DeclineReason(totals.captured) = "none"
  /\ channel' = Signed
  /\ cache' = (IF Index = 1 THEN Payload ELSE cache)
  /\ UNCHANGED args

Reject ==
  /\ Sign /\ ~Verified
  /\ Recorded(Blank("failed", "invalid"), args.fail \in {"bad-signature", "replay", "over-capture"})
  /\ UNCHANGED <<seen, totals>>

\* The nonce is reserved by a verification that succeeds.
Reserve == seen' = IF Channelled THEN seen ELSE seen \cup {Presented.nonce}

Captured == IF args.fail = "over-capture" /\ Index = 1 THEN Authorized + 1 ELSE CaptureFor

OverCapture ==
  /\ Sign /\ Verified /\ Captured > Authorized
  /\ Reserve
  /\ Recorded(Blank("failed", "capture_exceeds_authorization"),
              args.fail \in {"bad-signature", "replay", "over-capture"})
  /\ UNCHANGED totals

Settled(rs) == {i \in DOMAIN rs : rs[i].status = "settled"}
\* A column of the settled calls, summed.
SumOf(rs, column) == Total(Settled(rs), [i \in DOMAIN rs |-> rs[i][column]])

\* Mutant of Ceiling: the ceiling of the last call stands for the session's.
CeilingLast(rs) == Authorized
\* authorized_ceiling: the channel's, or the sum of what settled calls authorized.
Ceiling(rs) == IF Channelled THEN Signed.cumulative ELSE SumOf(rs, "authorized")

Capture ==
  /\ Sign /\ Verified /\ Captured <= Authorized
  /\ Reserve
  /\ Recorded([status |-> "settled", reason |-> "none", authorized |-> Authorized,
               captured |-> Captured, platform |-> PlatformCut(Captured, TakeBps),
               net |-> AuthorNet(Captured, TakeBps), nonce |-> Payload.nonce], FALSE)
  /\ totals' = [totals EXCEPT !.captured = @ + Captured, !.ceiling = Ceiling(records')]

-----------------------------------------------------------------------------
(* The close *)

Close ==
  /\ phase = "closing"
  /\ phase' = "closed"
  /\ UNCHANGED <<args, records, channel, seen, cache, totals>>

\* _close: claim_payload claims the channel's whole ceiling.
Result ==
  LET n == Cardinality(Settled(records))
  IN  [calls |-> n, gross |-> totals.captured,
       platform |-> SumOf(records, "platform"), net |-> SumOf(records, "net"),
       claim |-> IF n > 0 /\ Channelled THEN channel.cumulative ELSE 0]

\* _economics: two events close a batch.
Economics ==
  LET n == Result.calls  gross == Result.gross
  IN  [perCall |-> FeeLoad(Fee * n, gross), batched |-> FeeLoad(Fee * 2, gross)]

\* The unique index on the nonce of a call.
NoncesDiffer ==
  \A i, j \in Settled(records) : records[i].nonce = records[j].nonce => i = j

SimInit ==
  /\ args = NoArgs /\ phase = "idle" /\ records = <<>> /\ channel = [deposit |-> 0, cumulative |-> 0,
                                                                    voucher |-> 0]
  /\ seen = {} /\ cache = NoPayload /\ totals = [captured |-> 0, ceiling |-> 0, declined |-> 0]

SimNext ==
  \/ \E a \in Arguments : Start(a)
  \/ Challenge \/ Decline \/ Reject \/ OverCapture \/ Capture \/ Close

SimSpec == SimInit /\ [][SimNext]_simVars

-----------------------------------------------------------------------------
(* What a run shows *)

\* "a decline here costs nothing and is unforgeable" (simulate.py:139): what the
\* buyer has signed for on the channel, and what it was charged, stay within the
\* budget and the deposit, whichever calls are declined or rejected on the way.
SignedWithinBudget ==
  phase # "idle" =>
    /\ totals.captured <= BudgetOf(args)
    /\ channel.cumulative <= BudgetOf(args) /\ channel.cumulative <= channel.deposit

\* FAILURES (simulate.py:53): every failure path stops what it is meant to stop.
\* A channel's payload is never tampered with, and is exempt.
FailurePathsBite ==
  phase = "closed" =>
    LET n == Result.calls
    IN  CASE args.fail \in {"no-payment", "over-capture"} -> n = 0
          [] args.fail = "bad-signature" -> Channelled \/ n = 0
          [] args.fail = "replay" -> n <= 1
          [] args.fail = "over-budget" -> totals.captured <= Authorized + Authorized \div 2
          [] OTHER -> \A i \in DOMAIN records : records[i].status # "failed"

\* "sum(call.captured) = batch.gross" and "platform + author = gross", and the
\* rows a run would persist keep the ledger's constraints: captures within their
\* authorization and within the session's ceiling, nonces used once unless the
\* tool is free.  The claim is what was captured, except on the replay path, and
\* batching is no dearer past "the crossover".
LedgerClaimHolds ==
  phase = "closed" =>
    /\ SumOf(records, "captured") = Result.gross
    /\ Result.platform + Result.net = Result.gross
    /\ Result.gross <= totals.ceiling
    /\ \A i \in Settled(records) : records[i].captured <= records[i].authorized
    /\ Authorized > 0 => NoncesDiffer
    /\ Channelled /\ args.fail # "replay" => Result.claim = Result.gross
    /\ Result.calls > 2 => Economics.batched <= Economics.perCall
=============================================================================
