-------------------------------- MODULE Window --------------------------------
(***************************************************************************)
(* The batch window closed inside the server: should_close, close_window,  *)
(* settle_batch and close_and_settle of app/pay/batching.py, over the      *)
(* sessions and calls of PaidCall, with the receipts of every capture.     *)
(*                                                                         *)
(* settle_batch awaits its driver twice and commits before each await;     *)
(* requests are served, and the process may die, in between.               *)
(***************************************************************************)
EXTENDS PaidCall, Receipts

CONSTANTS
  MaxCalls,   \* settings.batch_max_calls
  Dust,       \* settings.batch_min_gross_atomic
  MaxBatches, \* bound on the batch rows of a behaviour
  MaxFaults   \* bound on the failures of the driver

ASSUME WindowAssumption ==
  MaxCalls \in Nat \ {0} /\ Dust \in Nat /\ MaxBatches \in Nat /\ MaxFaults \in Nat

Batches == 1..MaxBatches

VARIABLES
  batch,    \* the batch rows
  batchOf,  \* call.batch_id, 0 for NULL
  receipt,  \* the receipt rows
  copy,     \* the receipt as it was returned to the agent
  step,     \* where settle_batch is, "idle" when it is not running
  work,     \* the batch it settles
  claimed,  \* the calls whose voucher the manager has claimed on chain
  swept,    \* those whose money it has swept
  moves,    \* those whose money the sweep each batch records has moved
  lost,     \* those swept by a transaction whose answer was lost
  faults

chainVars == <<claimed, swept, moves, lost>>
settleVars == <<step, work, chainVars, faults>>
bookVars == <<batch, batchOf, receipt, copy>>
windowVars == <<vars, bookVars, settleVars>>
requestVars == <<pc, auth, reading, answer, moved, overlapped>>

NoReceipt == [issued |-> FALSE]
NoBatch == [status |-> "none", session |-> 0, gross |-> 0, count |-> 0,
            claimTx |-> NoTx, settleTx |-> NoTx]
Steps == {"idle", "claiming", "claimAnswered", "claimed", "settling", "swept"}

-----------------------------------------------------------------------------
(* Captures *)

CallView(r) == [id |-> r, authorized |-> auth[r].ceiling, captured |-> row'[r].captured,
                payer |-> auth[r].payer]
Mode(r) == IF Settles(r) THEN "per_call" ELSE "batched"

\* Serving goes on; the transaction of a capture also issues its receipt, which
\* the settlement's answer carries to the agent.
Issued(r, attested) ==
  IF row'[r].status \in {"captured", "settled"} /\ row[r].status = "verified"
    THEN Issue(CallView(r), Mode(r), IF Settles(r) THEN Tx("call", r) ELSE NoTx, attested)
    ELSE receipt[r]

ServeAndIssue(r, attested) ==
  /\ Serve(r)
  /\ attested => Settles(r) /\ row'[r].status = "settled"
  /\ receipt' = [receipt EXCEPT ![r] = Issued(r, attested)]
  /\ copy' = [copy EXCEPT ![r] = IF receipt'[r] = receipt[r] THEN @ ELSE Fetched(receipt'[r])]
  /\ UNCHANGED <<batch, batchOf, settleVars>>

-----------------------------------------------------------------------------
(* Closing a window *)

\* _pending_calls
Pending(s) ==
  {r \in Requests : row[r].session = s /\ row[r].status = "captured" /\ batchOf[r] = 0}
Gross(calls) == Total(calls, [r \in Requests |-> row[r].captured])

\* should_close: budget, full batch, a session already closing; the window's
\* end, unless the gross is dust.
ShouldClose(s, elapsed) ==
  \/ Budget # NoLimit /\ session[s].captured >= Budget
  \/ Cardinality(Pending(s)) >= MaxCalls
  \/ session[s].status \in {"frozen", "closing"}
  \/ elapsed /\ Gross(Pending(s)) >= Dust

UsedBatches == {b \in Batches : batch[b].status # "none"}
NewBatch == 1 + Cardinality(UsedBatches)

\* close_window: the batch, its calls and their receipts, the session closing.
CloseWindow(s, elapsed, force) ==
  /\ Pending(s) # {} /\ (force \/ ShouldClose(s, elapsed))
  /\ Cardinality(UsedBatches) < MaxBatches
  /\ batch' = [batch EXCEPT ![NewBatch] =
       [NoBatch EXCEPT !.status = "open", !.session = s, !.gross = Gross(Pending(s)),
                       !.count = Cardinality(Pending(s))]]
  /\ batchOf' = [r \in Requests |-> IF r \in Pending(s) THEN NewBatch ELSE batchOf[r]]
  /\ receipt' = [r \in Requests |->
       IF r \in Pending(s) /\ receipt[r].issued THEN [receipt[r] EXCEPT !.batch = NewBatch]
       ELSE receipt[r]]
  /\ session' = [session EXCEPT ![s].status = "closing"]
  /\ UNCHANGED <<requestVars, row, tool, copy, settleVars>>

-----------------------------------------------------------------------------
(* settle_batch *)

Book(b, status) == batch' = [batch EXCEPT ![b].status = status]

\* close_and_settle's second half, or a retry of a batch left 'claimed'.
StartSettle(b) ==
  /\ step = "idle" /\ batch[b].status \in {"open", "claimed"}
  /\ Book(b, "claiming")
  /\ work' = b /\ step' = "claiming"
  /\ UNCHANGED <<vars, batchOf, receipt, copy, chainVars, faults>>

\* A voucher is raised when its call is settled; these raises are not claimed yet.
Claimable == {r \in Requests \ claimed : auth[r].scheme = "batch" /\ moved[r] > 0}

\* ChannelManagerDriver.claim: every voucher not yet claimed, of whatever batch.
Claim ==
  /\ step = "claiming" /\ Claimable # {}
  /\ claimed' = claimed \cup Claimable /\ step' = "claimAnswered"
  /\ UNCHANGED <<vars, bookVars, work, swept, moves, lost, faults>>

\* Nothing claimable, or the claim raises, before or after it landed.
ClaimFails(landed) ==
  /\ step = "claiming" /\ (Claimable # {} => faults < MaxFaults)
  /\ claimed' = (IF landed THEN claimed \cup Claimable ELSE claimed)
  /\ faults' = (IF Claimable # {} THEN faults + 1 ELSE faults)
  /\ Book(work, "failed")
  /\ step' = "idle" /\ work' = 0
  /\ UNCHANGED <<vars, batchOf, receipt, copy, swept, moves, lost>>

RecordClaim ==
  /\ step = "claimAnswered"
  /\ batch' = [batch EXCEPT ![work].status = "claimed", ![work].claimTx = Tx("claim", work)]
  /\ step' = "claimed"
  /\ UNCHANGED <<vars, batchOf, receipt, copy, work, chainVars, faults>>

StartSweep ==
  /\ step = "claimed"
  /\ Book(work, "settling")
  /\ step' = "settling"
  /\ UNCHANGED <<vars, batchOf, receipt, copy, work, chainVars, faults>>

\* ChannelManagerDriver.settle: everything claimed and not yet swept.
Sweep ==
  /\ step = "settling"
  /\ swept' = claimed /\ moves' = [moves EXCEPT ![work] = claimed \ swept]
  /\ step' = "swept"
  /\ UNCHANGED <<vars, bookVars, work, claimed, lost, faults>>

\* Mutant of SweepFails: it is taken for done.
SweepFailsSettled(landed) ==
  /\ step = "settling" /\ faults < MaxFaults
  /\ step' = "swept" /\ faults' = faults + 1
  /\ UNCHANGED <<vars, bookVars, work, chainVars>>
\* The sweep raises, before or after it landed: the batch is 'claimed' again.
SweepFails(landed) ==
  /\ step = "settling" /\ faults < MaxFaults
  /\ swept' = (IF landed THEN claimed ELSE swept)
  /\ lost' = (IF landed THEN lost \cup (claimed \ swept) ELSE lost)
  /\ faults' = faults + 1
  /\ Book(work, "claimed")
  /\ step' = "idle" /\ work' = 0
  /\ UNCHANGED <<vars, batchOf, receipt, copy, claimed, moves>>

InBatch(b) == {r \in Requests : batchOf[r] = b}

\* Mutant of SessionAfter: what was settled before is forgotten.
SessionAfterOnly(s, gross) ==
  [session[s] EXCEPT !.settled = gross, !.status = "settled"]
\* The session once a batch of it is settled: open again when calls are left.
SessionAfter(s, gross) ==
  LET settled == session[s].settled + gross
  IN  [session[s] EXCEPT !.settled = settled,
         !.status = IF settled >= session[s].captured THEN "settled" ELSE "open"]

\* CHECK settled_atomic <= captured_atomic of the session row.
Fits(b) == session[batch[b].session].settled + batch[b].gross
             <= session[batch[b].session].captured

\* The batch, its calls, its session and its receipts in one transaction.
Finish ==
  LET tx == Tx("sweep", work)
      s == batch[work].session
  IN  /\ step = "swept" /\ Fits(work)
      /\ batch' = [batch EXCEPT ![work].status = "settled", ![work].settleTx = tx]
      /\ row' = [r \in Requests |->
           IF r \in InBatch(work) THEN [row[r] EXCEPT !.status = "settled"] ELSE row[r]]
      /\ session' = [session EXCEPT ![s] = SessionAfter(s, batch[work].gross)]
      /\ receipt' = [r \in Requests |->
           IF receipt[r].issued /\ receipt[r].batch = work THEN Attach(receipt[r], work, tx)
           ELSE receipt[r]]
      /\ step' = "idle" /\ work' = 0
      /\ UNCHANGED <<requestVars, tool, batchOf, copy, chainVars, faults>>

-----------------------------------------------------------------------------
(* The environment *)

\* The process dies: requests and settle_batch are gone, the rows stay.
Die ==
  /\ step # "idle" \/ \E r \in Requests : pc[r] \notin {"idle", "done", "dead"}
  /\ pc' = [r \in Requests |-> IF pc[r] \in {"idle", "done"} THEN pc[r] ELSE "dead"]
  /\ step' = "idle" /\ work' = 0
  /\ UNCHANGED <<auth, reading, answer, ledgerVars, moved, overlapped, bookVars, chainVars,
                 faults>>

\* A stored body is damaged outside the program.
Damage(r) ==
  /\ receipt[r].issued /\ receipt[r].parses /\ faults < MaxFaults
  /\ receipt' = [receipt EXCEPT ![r].parses = FALSE]
  /\ faults' = faults + 1
  /\ UNCHANGED <<vars, batch, batchOf, copy, step, work, chainVars>>

WindowInit ==
  /\ Init
  /\ batch = [b \in Batches |-> NoBatch] /\ batchOf = [r \in Requests |-> 0]
  /\ receipt = [r \in Requests |-> NoReceipt] /\ copy = [r \in Requests |-> NoReceipt]
  /\ step = "idle" /\ work = 0 /\ faults = 0
  /\ claimed = {} /\ swept = {} /\ moves = [b \in Batches |-> {}] /\ lost = {}

WindowNext ==
  \/ \E r \in Requests : (\E attested \in BOOLEAN : ServeAndIssue(r, attested)) \/ Damage(r)
  \/ \E s \in Sessions, elapsed, force \in BOOLEAN : CloseWindow(s, elapsed, force)
  \/ \E b \in Batches : StartSettle(b)
  \/ Claim \/ RecordClaim \/ StartSweep \/ Sweep \/ Finish
  \/ \E landed \in BOOLEAN : ClaimFails(landed) \/ SweepFails(landed)
  \/ Die

WindowSpec == WindowInit /\ [][WindowNext]_windowVars

-----------------------------------------------------------------------------
(* What closing a window promises *)

\* The types of the state.
WindowTypeOK ==
  /\ TypeOK
  /\ \A b \in Batches :
       /\ batch[b].status \in {"none", "open", "claiming", "claimed", "settling", "settled",
                               "failed"}
       /\ batch[b].gross \in Nat /\ batch[b].session \in Sessions \cup {0}
  /\ batchOf \in [Requests -> Batches \cup {0}]
  /\ step \in Steps /\ work \in Batches \cup {0} /\ (work = 0 <=> step = "idle")
  /\ claimed \subseteq Requests /\ swept \subseteq claimed /\ lost \subseteq swept
  /\ moves \in [Batches -> SUBSET swept]
  /\ \A r \in Requests : receipt[r].issued <=> row[r].status \in {"captured", "settled"}

\* "that equality is the audit": a batch's gross and count are those of its calls,
\* and what a session shows as settled is its settled calls, through failures,
\* deaths, and calls captured while a batch of theirs is being settled.
WindowAddsUp ==
  /\ \A b \in UsedBatches : batch[b].gross = Gross(InBatch(b))
                            /\ batch[b].count = Cardinality(InBatch(b))
  /\ \A s \in Sessions :
       session[s].settled =
         Gross({r \in Requests : row[r].session = s /\ row[r].status = "settled"})

\* "Calls are marked SETTLED ... only after the sweep succeeds": the money of every
\* batched call shown as settled has been swept on chain.
SettledIsSwept ==
  \A r \in Requests :
    row[r].status = "settled" /\ ~Settles(r) /\ row[r].captured > 0 => r \in swept

Checks(r) == Verify(receipt[r], [captured |-> row[r].captured, authorized |-> auth[r].ceiling,
                                 payer |-> auth[r].payer, batch |-> batchOf[r]],
                    IF receipt[r].batch = 0 THEN NoBatch ELSE batch[receipt[r].batch])
Seen(rpc, r) == BuyerChecks(copy[r], auth[r].payer, rpc, moved[r])

\* What the transaction that settles a call moved, and whether another one swept it.
TransferOf(r) == Total(IF batchOf[r] = 0 THEN {r} ELSE moves[batchOf[r]], moved)
SweptElsewhere(r) == r \in lost \/ \E b \in Batches : b # batchOf[r] /\ r \in moves[b]

\* "verify() would report our own bookkeeping as fraud": a receipt nobody damaged
\* passes the gateway's checks and the buyer's at all times, and with the chain in
\* sight it passes unless a transaction other than the one it names swept the call:
\* one whose answer was lost, or the sweep of another batch, which takes along what
\* is claimed.  Such a receipt may fail (verify.py:334): the README tells the trace.
\* It is 'verified_onchain' only when its call's money has been moved or swept.
ReceiptsVerify ==
  \A r \in Requests : receipt[r].issued =>
    /\ receipt[r].parses =>
         /\ Passed(Checks(r))
         /\ \A rpc \in BOOLEAN : (rpc => ~SweptElsewhere(r)) =>
              BuyerVerified(BuyerChecks(Fetched(receipt[r]), auth[r].payer, rpc, TransferOf(r)))
    /\ \A rpc \in BOOLEAN : BuyerVerified(Seen(rpc, r))
    /\ Status(Checks(r)) = "verified_onchain" =>
         row[r].status = "settled" /\ (Settles(r) \/ batch[batchOf[r]].settleTx # NoTx)

\* "Status says CLAIMED so a retry does the right thing" (batching.py:538): a batch
\* whose claim is on record is never failed.
ClaimedNeverFails ==
  [][\A b \in Batches : batch[b].claimTx # NoTx => batch'[b].status # "failed"]_windowVars
=============================================================================
