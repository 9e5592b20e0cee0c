------------------------------ MODULE CloseBatch ------------------------------
(***************************************************************************)
(* Settling what batched calls owe: app/cli/close_batch.py, a command an   *)
(* operator runs beside the server, over the ledger of PaidCall and the    *)
(* channel rows of app/channels.py.                                        *)
(*                                                                         *)
(* The command plans, opens a batch, claims the payer's cumulative voucher *)
(* and sweeps, with a commit before each request to the facilitator; it    *)
(* may die or be refused at any of them and be run again with --resume.    *)
(* The server goes on serving meanwhile.                                   *)
(***************************************************************************)
EXTENDS PaidCall

CONSTANTS
  Closers,     \* processes running the command
  MaxBatches,  \* bound on the batch rows of a behaviour
  MaxFaults    \* bound on the refusals and deaths the command meets

ASSUME CloseBounds ==
  /\ IsFiniteSet(Authorizations)
  /\ MaxBatches \in Nat /\ MaxFaults \in Nat

Batches == 1..MaxBatches
Payers == {a.payer : a \in Authorizations} \cup {NoPayer}

VARIABLES
  channel,    \* the sessions whose channel_id is set
  batchOf,    \* call.batch_id, 0 for NULL
  batch,      \* the batch rows; claimed: claim_tx_hash is set
  stored,     \* channel_state: total_claimed of each payer's channel
  at,         \* where each process is
  todo,       \* the plans it has still to settle
  work,       \* the batch it is settling
  voucher,    \* the total of the voucher it claims
  onChain,    \* what has been claimed on each payer's channel
  collected,  \* how much of it each batch's claim brought
  swept,      \* the batches whose sweep was accepted
  faults

commandVars == <<at, todo, work, voucher>>
chainVars == <<onChain, collected, swept>>
closeVars == <<channel, batchOf, batch, stored, commandVars, chainVars, faults>>
allVars == <<vars, closeVars>>
serverVars == <<pc, auth, reading, answer, moved, overlapped>>

NoBatch == [status |-> "none", session |-> 0, gross |-> 0, claimed |-> FALSE]
Steps == {"idle", "next", "opened", "claiming", "accepted", "claimed", "marked",
          "settling", "swept"}

-----------------------------------------------------------------------------
(* Channels, kept by the x402 SDK: one per payer, whose voucher grows by each *)
(* batched settlement.                                                        *)

Charged(p) ==
  Total({r \in Requests : auth[r].scheme = "batch" /\ auth[r].payer = p}, moved)

\* claims_for: the voucher's total, 0 when there is none to claim.
ClaimsFor(plan) ==
  LET p == session[plan.session].payer
  IN  IF plan.noted /\ Charged(p) > stored[p] THEN Charged(p) ELSE 0

\* The operator fills in a session's channel_id: batching.note_channel, which
\* would write it, has no caller in src/.
NoteChannel(s) ==
  /\ session[s].status # "none" /\ session[s].payer # NoPayer
  /\ channel' = channel \cup {s}
  /\ UNCHANGED <<vars, batchOf, batch, stored, commandVars, chainVars, faults>>

-----------------------------------------------------------------------------
(* Selection *)

\* Mutant of Pending: calls already in a batch are planned again.
PendingAgain(s) == {r \in Requests : row[r].session = s /\ row[r].status = "captured"}
Pending(s) ==
  {r \in Requests : row[r].session = s /\ row[r].status = "captured" /\ batchOf[r] = 0}

Selectable(s) ==
  /\ session[s].status \in {"open", "frozen", "closing"}
  /\ session[s].scheme = "batch"
  /\ Pending(s) # {}

PlanFor(s) ==
  [session |-> s, calls |-> Pending(s), noted |-> s \in channel, resume |-> 0,
   gross |-> Total(Pending(s), [r \in Requests |-> row[r].captured])]

Attached(b) == {r \in Requests : batchOf[r] = b}

\* _build_plans: `due` stands for --session, --limit, the window, the call cap
\* and the dust floor.
BuildPlans(k, due) ==
  /\ at[k] = "idle" /\ due # {}
  /\ \A s \in due : Selectable(s)
  /\ todo' = [todo EXCEPT ![k] = {PlanFor(s) : s \in due}]
  /\ at' = [at EXCEPT ![k] = "next"]
  /\ UNCHANGED <<vars, channel, batchOf, batch, stored, work, voucher, chainVars, faults>>

\* Mutant of Resumable: a failed batch is final.
ResumableUnfailed(b) ==
  batch[b].status \notin {"none", "settled", "failed"} /\ Attached(b) # {}
Resumable(b) == batch[b].status \notin {"none", "settled"} /\ Attached(b) # {}

\* _build_plans with --resume.  A batch is only ever opened with a channel.
PlanResume(k, b) ==
  /\ at[k] = "idle" /\ Resumable(b)
  /\ todo' = [todo EXCEPT ![k] =
       {[session |-> batch[b].session, calls |-> Attached(b), noted |-> TRUE,
         resume |-> b, gross |-> batch[b].gross]}]
  /\ at' = [at EXCEPT ![k] = "next"]
  /\ UNCHANGED <<vars, channel, batchOf, batch, stored, work, voucher, chainVars, faults>>

\* Plans are settled in the order their sessions were opened.
Plan(k) == CHOOSE p \in todo[k] : \A q \in todo[k] : p.session <= q.session
Payer(k) == session[Plan(k).session].payer

NextPlan(k) ==
  LET left == todo[k] \ {Plan(k)}
  IN  /\ todo' = [todo EXCEPT ![k] = left]
      /\ at' = [at EXCEPT ![k] = IF left = {} THEN "idle" ELSE "next"]
      /\ work' = [work EXCEPT ![k] = 0] /\ voucher' = [voucher EXCEPT ![k] = 0]

Advance(k, b, status, step) ==
  /\ batch' = [batch EXCEPT ![b].status = status]
  /\ at' = [at EXCEPT ![k] = step]

\* The handler of every exception in _settle.
Failed(k, b) == batch' = [batch EXCEPT ![b].status = "failed"] /\ NextPlan(k)

-----------------------------------------------------------------------------
(* _settle *)

\* The channel has no voucher to claim: the plan is dropped.
SkipPlan(k) ==
  /\ at[k] = "next" /\ Plan(k).resume = 0 /\ ClaimsFor(Plan(k)) = 0
  /\ NextPlan(k)
  /\ UNCHANGED <<vars, channel, batchOf, batch, stored, chainVars, faults>>

UsedBatches == {b \in Batches : batch[b].status # "none"}
NewBatch == 1 + Cardinality(UsedBatches)

\* _open_batch: the row, the calls attached to it, the session closing.  Nobody
\* looks whether the calls have been attached to another batch meanwhile.
OpenBatch(k) ==
  /\ at[k] = "next" /\ Plan(k).resume = 0 /\ ClaimsFor(Plan(k)) # 0
  /\ Cardinality(UsedBatches) < MaxBatches
  /\ LET plan == Plan(k) IN
       /\ batch' = [b \in Batches |->
            IF b = NewBatch
              THEN [status |-> "open", session |-> plan.session, gross |-> plan.gross,
                    claimed |-> FALSE]
              ELSE batch[b]]
       /\ batchOf' = [r \in Requests |-> IF r \in plan.calls THEN NewBatch ELSE batchOf[r]]
       /\ session' = [session EXCEPT ![plan.session].status = "closing"]
       /\ voucher' = [voucher EXCEPT ![k] = ClaimsFor(plan)]
  /\ work' = [work EXCEPT ![k] = NewBatch]
  /\ at' = [at EXCEPT ![k] = "opened"]
  /\ UNCHANGED <<serverVars, row, tool, channel, stored, todo, chainVars, faults>>

\* Mutant of ResumeBatch: whatever was posted before is taken for claimed.
ResumeBatchPosted(k) ==
  /\ at[k] = "next" /\ Plan(k).resume # 0
  /\ LET b == Plan(k).resume
     IN  IF batch[b].status # "open"
           THEN Advance(k, b, "settling", "settling") /\ UNCHANGED <<todo, voucher>>
                /\ work' = [work EXCEPT ![k] = b]
           ELSE Failed(k, b)
  /\ UNCHANGED <<vars, channel, batchOf, stored, chainVars, faults>>

\* --resume: sweep if the claim is recorded, else claim what there is to claim.
ResumeBatch(k) ==
  /\ at[k] = "next" /\ Plan(k).resume # 0
  /\ LET b == Plan(k).resume
         claims == ClaimsFor(Plan(k))
     IN  IF ~batch[b].claimed /\ claims = 0
           THEN Failed(k, b)
           ELSE /\ IF batch[b].claimed THEN Advance(k, b, "settling", "settling")
                                       ELSE Advance(k, b, "claiming", "claiming")
                /\ voucher' = [voucher EXCEPT ![k] = claims]
                /\ work' = [work EXCEPT ![k] = b]
                /\ UNCHANGED todo
  /\ UNCHANGED <<vars, channel, batchOf, stored, chainVars, faults>>

\* Mutant of StartClaim: the transition is committed with the answer.
StartClaimUncommitted(k) ==
  /\ at[k] = "opened"
  /\ Advance(k, work[k], "open", "claiming")
  /\ UNCHANGED <<vars, channel, batchOf, stored, todo, work, voucher, chainVars, faults>>
StartClaim(k) ==
  /\ at[k] = "opened"
  /\ Advance(k, work[k], "claiming", "claiming")
  /\ UNCHANGED <<vars, channel, batchOf, stored, todo, work, voucher, chainVars, faults>>

\* A cumulative claim brings what it adds to what was claimed before.
Claimed(k) ==
  LET gain == IF voucher[k] > onChain[Payer(k)] THEN voucher[k] - onChain[Payer(k)] ELSE 0
  IN  /\ onChain' = [onChain EXCEPT ![Payer(k)] = @ + gain]
      /\ collected' = [collected EXCEPT ![work[k]] = @ + gain]
      /\ UNCHANGED swept

\* The facilitator accepts the claim.
Claim(k) ==
  /\ at[k] = "claiming"
  /\ Claimed(k)
  /\ at' = [at EXCEPT ![k] = "accepted"]
  /\ UNCHANGED <<vars, channel, batchOf, batch, stored, todo, work, voucher, faults>>

\* It refuses it, or the request raises, before or after the claim landed.
ClaimFails(k, landed) ==
  /\ at[k] = "claiming" /\ faults < MaxFaults
  /\ IF landed THEN Claimed(k) ELSE UNCHANGED chainVars
  /\ Failed(k, work[k])
  /\ faults' = faults + 1
  /\ UNCHANGED <<vars, channel, batchOf, stored>>

RecordClaim(k) ==
  /\ at[k] = "accepted"
  /\ batch' = [batch EXCEPT ![work[k]].status = "claimed", ![work[k]].claimed = TRUE]
  /\ at' = [at EXCEPT ![k] = "claimed"]
  /\ UNCHANGED <<vars, channel, batchOf, stored, todo, work, voucher, chainVars, faults>>

\* mark_claimed: the channel's total never goes back.
MarkClaimed(k) ==
  /\ at[k] = "claimed"
  /\ stored' = [stored EXCEPT ![Payer(k)] = IF voucher[k] > @ THEN voucher[k] ELSE @]
  /\ at' = [at EXCEPT ![k] = "marked"]
  /\ UNCHANGED <<vars, channel, batchOf, batch, todo, work, voucher, chainVars, faults>>

StartSettle(k) ==
  /\ at[k] = "marked"
  /\ Advance(k, work[k], "settling", "settling")
  /\ UNCHANGED <<vars, channel, batchOf, stored, todo, work, voucher, chainVars, faults>>

Sweep(k) ==
  /\ at[k] = "settling"
  /\ swept' = swept \cup {work[k]}
  /\ at' = [at EXCEPT ![k] = "swept"]
  /\ UNCHANGED <<vars, channel, batchOf, batch, stored, todo, work, voucher, onChain,
                 collected, faults>>

\* Mutant of SweepFails: a refused sweep is taken for a finished one.
SweepFailsSettled(k, landed) ==
  /\ at[k] = "settling" /\ faults < MaxFaults
  /\ at' = [at EXCEPT ![k] = "swept"]
  /\ faults' = faults + 1
  /\ UNCHANGED <<vars, channel, batchOf, batch, stored, todo, work, voucher, chainVars>>
SweepFails(k, landed) ==
  /\ at[k] = "settling" /\ faults < MaxFaults
  /\ swept' = (IF landed THEN swept \cup {work[k]} ELSE swept)
  /\ Failed(k, work[k])
  /\ faults' = faults + 1
  /\ UNCHANGED <<vars, channel, batchOf, stored, onChain, collected>>

\* CHECK settled_atomic <= captured_atomic of the session row.
Fits(plan) == session[plan.session].settled + plan.gross <= session[plan.session].captured

Paid(plan) == session[plan.session].settled + plan.gross

\* _finalise: calls, batch and session settled in one transaction.  The session
\* is settled whatever it has captured since it was planned.
Finalise(k) ==
  /\ at[k] = "swept" /\ Fits(Plan(k))
  /\ LET plan == Plan(k) IN
       /\ batchOf' = [r \in Requests |-> IF r \in plan.calls THEN work[k] ELSE batchOf[r]]
       /\ row' = [r \in Requests |->
            IF r \in plan.calls THEN [row[r] EXCEPT !.status = "settled"] ELSE row[r]]
       /\ session' = [session EXCEPT ![plan.session] =
            [@ EXCEPT !.settled = Paid(plan), !.status = "settled"]]
  /\ batch' = [batch EXCEPT ![work[k]].status = "settled"]
  /\ NextPlan(k)
  /\ UNCHANGED <<serverVars, tool, channel, stored, chainVars, faults>>

\* The process ends at any point: killed, or by an exception of its own commit.
Dies(k) ==
  /\ at[k] # "idle"
  /\ faults < MaxFaults \/ (at[k] = "swept" /\ ~Fits(Plan(k)))
  /\ faults' = (IF faults < MaxFaults THEN faults + 1 ELSE faults)
  /\ at' = [at EXCEPT ![k] = "idle"] /\ todo' = [todo EXCEPT ![k] = {}]
  /\ work' = [work EXCEPT ![k] = 0] /\ voucher' = [voucher EXCEPT ![k] = 0]
  /\ UNCHANGED <<vars, channel, batchOf, batch, stored, chainVars>>

-----------------------------------------------------------------------------
CloseInit ==
  /\ Init
  /\ channel = {} /\ swept = {} /\ faults = 0
  /\ batchOf = [r \in Requests |-> 0]
  /\ batch = [b \in Batches |-> NoBatch]
  /\ collected = [b \in Batches |-> 0]
  /\ stored = [p \in Payers |-> 0] /\ onChain = [p \in Payers |-> 0]
  /\ at = [k \in Closers |-> "idle"] /\ todo = [k \in Closers |-> {}]
  /\ work = [k \in Closers |-> 0] /\ voucher = [k \in Closers |-> 0]

\* A run of the command, once its plans are made.
Proceed(k) ==
  \/ SkipPlan(k) \/ OpenBatch(k) \/ ResumeBatch(k) \/ StartClaim(k) \/ Claim(k)
  \/ RecordClaim(k) \/ MarkClaimed(k) \/ StartSettle(k) \/ Sweep(k) \/ Finalise(k)

CloseNext ==
  \/ Next /\ UNCHANGED closeVars
  \/ \E s \in Sessions : NoteChannel(s)
  \/ \E k \in Closers :
       \/ \E due \in SUBSET Sessions : BuildPlans(k, due)
       \/ \E b \in Batches : PlanResume(k, b)
       \/ Proceed(k)
       \/ \E landed \in BOOLEAN : ClaimFails(k, landed) \/ SweepFails(k, landed)
       \/ Dies(k)

CloseSpec == CloseInit /\ [][CloseNext]_allVars

\* A run of the command goes on to its end, and the operator resumes, in the
\* end, every batch that a run left unfinished.
FairCloseSpec ==
  /\ CloseSpec
  /\ \A k \in Closers : WF_allVars(Proceed(k))
  /\ \A k \in Closers, b \in Batches : SF_allVars(PlanResume(k, b))

-----------------------------------------------------------------------------
(* What closing promises *)

\* "Calls are marked SETTLED ... only after the sweep succeeds": a batched call
\* that the ledger shows as settled is in a batch that was claimed and swept.
SettledMeansSwept ==
  \A r \in Requests :
    row[r].status = "settled" /\ auth[r].scheme = "batch"
    => batchOf[r] \in swept /\ batch[batchOf[r]].claimed

\* A batch's gross is the sum of what the calls attached to it captured, however
\* often runs die and are resumed, with one run of the command at a time; and the
\* session and tool totals stay those of their calls.
BatchMatchesCalls ==
  /\ \A b \in UsedBatches :
       batch[b].gross = Total(Attached(b), [r \in Requests |-> row[r].captured])
  /\ TotalsMatchCalls

\* What the ledger shows as settled of a payer's batched calls has been claimed on
\* the payer's channel.
SettledIsCollected ==
  \A p \in Payers :
    Total({r \in Requests : /\ row[r].status = "settled" /\ auth[r].scheme = "batch"
                            /\ auth[r].payer = p},
          [r \in Requests |-> row[r].captured]) <= onChain[p]

\* "a process that dies at any point leaves a row saying exactly how far it got":
\* nothing was claimed for a batch still 'open', nor swept for one unclaimed.
DeathLeavesTrace ==
  \A b \in Batches :
    /\ collected[b] > 0 => batch[b].status # "open"
    /\ b \in swept => batch[b].claimed /\ batch[b].status \in {"settling", "settled", "failed"}

\* "money claimed on-chain and not yet swept, which is recoverable with --resume".
ClaimedBatchesSettle ==
  \A b \in Batches : batch[b].claimed ~> batch[b].status = "settled"

\* "whatever was consumed still settles honestly": a settled session, which no
\* plan selects again, has no captured call left.
SettledSessionsStrandNothing ==
  \A s \in Sessions : session[s].status = "settled" => Pending(s) = {}
=============================================================================
