# A verification model of brainwave

brainwave puts a price on MCP tools. A buyer's agent calls a tool, is answered
*402 payment required*, signs an x402 authorization if its own policy allows,
and calls again; the gateway verifies the payment with a facilitator, runs the
tool, meters it, settles, issues a receipt, and writes a ledger from which
batched payments are settled on-chain later. The code is asynchronous on both
sides, keeps money in two places that no transaction spans (a database and a
chain), and dies and restarts. The modules here model that core in TLA+, check
it with TLC, and prove most of what is checked with TLAPS, for every value of the
constants.

`PROJECT.json` maps every definition to the source lines it stands for, and lists
the runs, the mutant each property catches, the theorems, the hazards of the code
and the places where the code and its own documentation disagree.

## Inventory

| Part (under `src/app/`) | State | Operations | Talks to | Hard behaviour | Module |
|---|---|---|---|---|---|
| Guardian, journal: `client/guardian.py` | policy, freeze, committed, reservations, day total and its file | screen, authorize, freeze, reserve, commit, release, roll, load | client, approver | concurrent calls; escalation without the lock; midnight; restart | `SpendGuardian`, `Budget` |
| Paying client: `client/shim.py`, `client/signer.py` | one context per call, the count of signatures | call_tool and its hooks | Guardian, server | a signature cannot be taken back; timeouts after it | `SpendGuardian` |
| Paid-tool wrapper: `pay/decorator.py` | one record per request; the tool's offers | verify, begin, execute, settle, capture, fail; first use | facilitator, ledger | money moves before the ledger hears of it; crashes; replays | `PaidCall`, `Facilitator` |
| Sessions, in-process batching: `pay/batching.py` | session, batch, call rows | open or reuse, close window, settle batch | wrapper, ledger, channel manager | select-then-insert; awaits between commits; retries | `PaidCall`, `Window` |
| Close command: `cli/close_batch.py` | plans, batch rows | plan, open, claim, sweep, finalise, resume | ledger, channel rows, facilitator | a second process; death between commit and request | `CloseBatch` |
| Channels: `channels.py` | voucher state per channel | claims_for, mark_claimed | x402 SDK, close command | cumulative totals | `CloseBatch` |
| Receipts: `pay/receipts.py`, `client/verify.py` | receipt rows, the buyer's copy | issue, attach, verify | wrapper, close, buyer | a settled batch rehashes what was handed out | `Receipts`, `Window` |
| Money, pricing, metering, economics: `money.py`, `pay/pricing.py`, `pay/meters.py`, `gateway/meter.py`, `pay/economics.py` | the meter in scope | declare, record, bridge, capture, split, reports | wrapper | rounding, clamping, the two meters | `Money`, `Pricing` |
| Facilitator gateway: `pay/gateway.py`, `gateway/resource_server.py`, `main.py` | ready flag, last attempt, offers | start, initialize, enhance, back off | facilitator | threads, a lock, two first calls at once | `Facilitator` |
| Earlier ledger and adapter: `gateway/ledger.py`, `gateway/paid.py` | tool, session, batch, call rows | sync, classify, record_call, close_batch | wrapper | load and store of two calls interleave | `Catalogue` |
| Simulator: `cli/simulate.py`, `cli/_x402.py` | one run: records, channel, nonces | challenge, judge, sign, verify, capture, close | offline facilitator | failure paths | `Simulate` |
| Demo rows: `demo.py`, `cli/seed_demo.py` | demo rows by table | seed, persist, purge | ledger | a purge beside writers | `Demo` |
| Dashboard: `ui/queries.py`, `ui/pages/` | what a page has read | open, filter, refresh | ledger | two transactions per page | `Dashboard` |
| Schema: `models.py`, `db.py` | all rows | unique index, CHECKs, foreign keys | everything | | in the modules that use the rows |
| Doctor, theme, charts, migrations | none | read-only or DDL | | | not modelled |

What makes each part correct: a buyer's exposure stays within its budgets and
outlives its process; a refusal costs nothing and leaves nothing; a frozen
Guardian authorizes no new call; a seller admits an authorization once, records
exactly what it collected, and sums it without loss; no capture exceeds its
authorization and no split loses a unit; an offer once shown can be paid; a
batch is settled when, and only when, its money has been claimed and swept, and
a command that died can be resumed; a receipt verifies for as long as nobody
touched it; demo rows come and go whole and are never counted as income.

## Modules

| Module | What it is |
|---|---|
| `Totals` | sums over finite sets, written as a cardinality so that they can be proved about |
| `Budget` | abstract: what any keeper of a spend budget promises |
| `SpendGuardian` | the buyer: Guardian, journal, signer, client; implements `Budget` |
| `PaidCall` | the seller: sessions, calls, settlement, capture |
| `CloseBatch` | `PaidCall` beside the close command, with channels and chain |
| `Receipts` | a receipt's body, issue, rehash and checks: operators, no state |
| `Window` | `PaidCall` with receipts, beside the in-process window |
| `Money`, `Pricing` | amounts; a declaration, its metered calls, its windows and reports |
| `Facilitator` | start-up, initialization and the offers of each tool |
| `Catalogue` | the earlier ledger layer |
| `Simulate`, `Demo`, `Dashboard` | each extends the one before: a simulated run; what it and the seeder persist, with a purge; a page that reads |
| `MCSpendGuardian`, `MCPaidCall`, `MCCloseBatch`, `MCWindow`, `MCPricing`, `MCFacilitator`, `MCCatalogue`, `MCDashboard` | instances for TLC |
| `TotalsProofs`, `SpendGuardianProofs`, `PaidCallProofs`, `CloseBatchProofs`, `WindowProofs`, `PricingProofs`, `GatewayProofs`, `DashboardProofs` | theorems; `GatewayProofs` is about `Facilitator` and `Catalogue`, `DashboardProofs` about `Simulate` and `Demo` too |

Each module also holds, beside the definition it changes, the mutant that shows a
property can fail; no specification uses a mutant.

### SpendGuardian and Budget

An action is the code between two awaits of `PaidMCPClient.call_tool`. `Start`
reads the signature count; `Screen` is phase 1 (`Guardian.screen` on the largest
offer, which reads and so may roll the day, but reserves nothing); the three
`Authorize...` actions are the part of `Guardian.authorize` under its lock;
`AuthorizeAsk` leaves the lock to ask a human and `AnswerAllow` / `AnswerDeny`
come back to it, checking the session budget again and nothing else; `Sign` is
`sign_typed_data`; `Respond` and `Abort` end the call and run
`_resolve_reservation`, `Respond` also `_check_receipt`. `Settle` is the server,
which may collect on anything signed at any later time. `Crash` loses what is in
memory, `Restart` is the journal's `__init__` and `_load`. `reserved[c] = 0`
stands for no reservation: the code treats a zero amount the same way.

`charge`, `chargeDay`, `excess` and `straddled` are history: what the journal
holds against each call, the day it was reserved on, what servers reported above
their ceilings, and whether some call was resolved on another day of the journal.
The server's report of the captured amount is the truth, nothing readable, or
too much. A report below what was really taken is believed by the code and is
outside the model.

`Budget` knows only holds, what was spent, and what an authorization may still
bring in. `SpendGuardian` instantiates it as `Purse`: a reservation is a hold, a
signature makes it owed, a commit or release books a cost, a restart forgets.
`ImplementsBudget` is that instance's specification.

### PaidCall

An action is one ledger transaction (each holds `LEDGER_LOCK`), one answer of the
facilitator, or the tool's return. `Begin` is `_begin_call` whole: the session is
found or opened, `_admit` judges, the unique index on the nonce turns a replay
into a decline, the row is written. `Settle`, `RefuseSettle`, `SettleRaises` are
the facilitator; `moved` is what it collected. `Capture` is `_capture_call`, the
freeze included. The scheme of a payment is that of the offer it accepted: a
metered tool may be paid by its exact fallback, which is why `base` and `ceiling`
differ for an exact payment. Only 'batch' settles without a transaction.

### CloseBatch

One action per commit or facilitator request of `_settle`, so that the process
may die between any two. Several plans of a run wait in `todo` and keep the calls
and gross of the moment they were made. `Failed` is the `except` branch, which
moves on to the next plan. The x402 SDK's channel is external: one per payer, its
voucher's total is the sum of that payer's batched settlements, and a claim
brings what the total adds to the last one. `NoteChannel` is the operator setting
a session's `channel_id` in the admin: `note_channel` of `pay/batching.py`
would do it, but has no caller, and without it every plan is skipped.

### Window and Receipts

`CloseWindow` is `close_window` behind `should_close` (call cap, elapsed time,
dust floor, force). `settle_batch` is a sequence of actions from commit to await:
`StartSettle`, `Claim`, `RecordClaim`, `StartSweep`, `Sweep`, `Finish`; a driver
call may fail before or after it landed, and the process may `Die` anywhere.
Requests are served in between, and `ServeAndIssue` issues the receipt in the
capture's own transaction. A receipt's digest is modelled by the body it was
computed of. `copy` is what the agent was given; `Finish` attaches the settlement
and rehashes the row only. `Damage` is a stored body changed from outside, so that
"nobody damaged it" is a real condition.

The chain is kept as sets of calls: those whose voucher was `claimed`, those whose
money was `swept`, those the sweep recorded by each batch took (`moves`), and those
taken by a sweep whose answer was `lost`. A claim takes every voucher not claimed
yet and a sweep everything claimed and not swept, whichever batch asked. A buyer
may check a receipt with the chain in sight or without: with it, the transaction
the receipt names must have moved at least what the call captured
(`verify_onchain_transfer`).

`ReceiptsVerify` includes that check for every call but those that a transaction
other than the one its receipt names has swept. For these the code can fail an
untouched receipt: a voucher of two units is captured, its batch claimed, the sweep
lands and its answer is lost, which leaves the batch `claimed`; a voucher of one is
captured; the retry finds that one to claim, sweeps it alone, and records the
transaction as the settlement of the batch of two, whose receipt then names a
transfer of one. Without the exemption TLC finds this trace in the `window` run's
instance. A call swept along with another batch's claims is exempt for the same
reason.

### Pricing

A tool is declared (`Declare`: each spelling of a price, ceiling, meter and unit
price the decorator takes), then serves calls: `Begin`, `Record` (the handler
reports to the meter in scope), `Finish` or `Raise`. `Finish` is the bridge
between the two meters, the core's reading and the clamp. As in `_capture_call`, a
capture is settled there and then if its settlement names a transaction and is
summed in `paid`; otherwise it waits in `window`. A voucher names none; another
scheme does unless the facilitator leaves it out. `Cut` is `close_window`, which
takes the waiting calls only; `Settle` is a `settle_batch` that went through, the
session's status included (its failures are in `Window`). `Report` is
`session_report` over both kinds of call. The history variable `money` adds up, step
by step, what is on no transaction yet, what was swept and what the sweeps cost;
`ReportIsHonest` compares the report, which is computed from rows, with it. The
report's unsettled figure counts calls settled on their own; the property says by
how much, and the findings quote the comment. A price is a multiple of half an
atomic unit, which is enough to tell exact from inexact; basis points are tenths.

### Facilitator

`Start` and `Stop` are the lifespan; `Flap` is the outside. A call of a tool
`Arrive`s, waits in a thread for the lock (`Acquire`), asks `/supported` (`Ask`),
is `Resume`d on the loop, enhances the tool's offers, and is verified the same
way. `Want`, `Take`, `Build` are the second resource server with its backoff
clock. `offered` remembers what each tool ever showed to a buyer.

### Catalogue

`record_call` runs in a worker thread without a lock: `Load` reads the session,
batch and tool rows, `Store` writes sums and the call row in one transaction, or
`StoreFails` on the unique nonce. `Settle`, `SettleFails` and `Defer` classify a
result; a settlement may succeed without naming a transaction, and then its call is
captured, not settled, and waits for no batch. `Restart` syncs the catalogue,
`Reprice` is an operator's edit. This layer is not on the serving path any more
(`gateway/paid.py` adapts onto `pay/decorator.py`), so its races are no entry of the
list of hazards; the module says what it promises to code that calls it.

### Simulate, Demo, Dashboard

`Simulate` follows one run call by call; every `--fail` value changes what the code
changes. In `Demo` the rows of one writer are a group with the tables it has rows
in; `Seed` and `Persist` write a group in one transaction, which the unique index
on nonces may refuse to `Persist` (`NoncesDiffer`), `DeleteTable` is one bulk
DELETE of a purge that sees what was committed before it, and a foreign key may
refuse it. `Whole` says what a purge promises of a group: its rows are there as
they were written (`Written`), or none is. A simulated run without a call is the
one group that may go in part: its author, tool and session are held together by
no row. `Dashboard` adds a page that reads its figures in two transactions
(`ReadFirst`, `ReadSecond`) and the demo summary only when opened. Of the overview
it keeps the fee load, of the tools page the counters and their aggregates.

## Runs

| Run | Instance | Shows |
|---|---|---|
| `guardian` | two calls, four policies, two days, one journal, a crash | budgets, freeze, liveness, and each step a step of `Budget` |
| `guardian_midnight` | three calls, a daily budget | *violated*: yesterday's refund makes room in today's budget |
| `paid_call` | three requests, five kinds of payment | one admission per nonce, sums, what moved is what is recorded, refusals are free |
| `seller_budget` | three requests, one price | *violated*: calls in flight are captured past the session budget |
| `close_batch` | two voucher payments beside a command refused, killed and resumed | settled means swept and collected, traces of deaths, claimed batches settle |
| `close_stranded` | the same, no faults | *violated*: a call captured during the close is never settled |
| `window` | two requests, vouchers and an exact payment, two faults | sums of batches and sessions, settled means swept, receipts verify, on chain too |
| `window_retry` | the same | *violated*: a claimed batch is failed by its retry |
| `pricing` | 360 spellings of a declaration, two results, two records, two calls of each kind, two batches | the ceiling, the bridge, conservation, break-even, the report against the money |
| `facilitator` | a metered and a plain tool, two calls, two probers | offers stay payable, the cheaper is first, a facilitator that answers is found |
| `catalogue` | two calls, three payments, settlements that name a transaction or not, a restart, a repricing | roll-ups, no false transaction, paid is recorded |
| `dashboard` | twenty simulated runs, one of a free tool, a seeder, a real call, a purge, a page | the simulator's claims, whole purges, honest figures |

For each violated run `PROJECT.json` quotes the line of the repository that says
otherwise. Where a property fails only under a condition, the passing run checks
it outside that condition and names it: `DailyBudgetUnlessStraddled` without
escalation and without a call across midnight, `SerialSessionWithinBudget` for
sessions whose calls did not overlap, `FreezeStopsNewCalls` except for a call
already being asked about, `RollupsAddUp` unless two records overlapped,
`ReceiptsVerify` on the chain except for calls another transaction swept,
`PaidIsRecorded` unless the row was lost or the settlement answered with an error,
`FiguresAreHonest` unless rows were committed between a page's reads,
`LedgerClaimHolds` with the claim of the replay path exempt.

**Bounds.** Two calls suffice for the buyer's interleavings because every check
compares one call with the totals of the others; the budgets of the four policies
run out on the second call, and the midnight instance uses three because its
overrun needs a call to roll the day, one to be refunded and one to profit. One
midnight is enough to have a yesterday. Three requests let one be captured and
one be in flight while a third is admitted; amounts 0, 1, 2 distinguish metered
from signed. `paid_call` takes requests as symmetric (no property there is a
liveness property). The close run has two requests, one per batch, one process,
and `MaxFaults = 2`: a claim may fail, its resumption too, and still a third run
finishes; `MaxBatches` cannot bind with one process, since each batch takes a
call. The window run needs two faults for the same reason, and two requests so
that one is captured while a batch of the other settles. `pricing` uses a take of
three tenths and a fee of one so that cuts, loads and break-even all round, and the
break-even size lies between one and the window's bound. The facilitator's
properties are per tool; two calls race for the first use, two probers for the
backoff. Two calls are what it takes for one load to fall between another's load
and store. `dashboard` runs every scheme with every failure path, and a free tool
on a channel, whose vouchers do not grow; the seeder draws one pair of sessions, one
open and one closed; one purge meets every writer between its statements.

**Deadlock** is checked in the buyer's runs and the facilitator's (the clock,
freeze, restarts and the facilitator itself go on). Requests, windows, batches
and simulated runs end for good, so the others say `CHECK_DEADLOCK FALSE`.

**Fairness.** `FairSpec` (buyer): a call's own steps are taken, since the event
loop runs them and the transport's timeout ends each wait on the server; the
approver may never answer, the operator and the clock need not act.
`FairCloseSpec`: a run of the command goes on while it lives, and the operator
resumes each unfinished batch in the end (strong fairness, because other runs of
the command come in between); deaths and refusals are finitely many by
`MaxFaults`. `Facilitator`: a worker thread that can run does, the loop resumes
what has been answered, time passes; nobody has to call, and the facilitator may
fail for as long as it likes, so `FacilitatorIsFound` assumes in its own text that
it stays up and that somebody keeps asking. The other specifications state no
fairness and have no liveness property.

## Proofs

The theorems hold for any finite set of calls or requests and any constants the
named assumptions allow; the assumptions give shapes, and finiteness of calls and
authorizations. Two theorems on the buyer's days also assume, in their statement,
`Readable \subseteq {TRUE}`, a journal that can be read back: the code takes an
unreadable one for nothing spent. Those of `CloseBatchProofs` assume `OneCloser`,
one run of the command at a time. Each is an invariant of the specification, shown
by `Init => Inv` and one step per action; what follows is the invariant and why
the property alone is not inductive.

* **Buyer.** `Inv` conjoins the type invariant, the session budget, and facts on
  where reservations live. The budget is not inductive alone: `Commit` must know
  that what it books beyond its own reservation is in `excess`, and `Reserve`
  that the reservation it fills was empty; `TotalUpdate` of `TotalsProofs` then
  turns one changed entry into one changed sum. A further conjunct, `Priced`, says
  that a call which may be reserved or was signed has a price. `FreezeHolds`
  follows from `Inv`, action by action.
* **Buyer implements the abstract budget.** `Inv` is strengthened to `Books`. The
  exposure is the sum of what is charged to the live calls (`Reckoned`: each action
  changes the two by the same amount), what is charged to a call is at least what
  may still be collected on it (`Charged`), and a call that signed is told from one
  that did not by the signer's count (`Counted`), on which the code decides whether
  to release. From these each action of `SpendGuardian` is shown to be a `Hold`,
  `SignOut`, `Collect`, `Book`, `Forget` or a stutter, which gives
  `GuardianKeepsTheBudget`; `TakenIsCovered` is the same invariant read as a bound
  on what servers collected.
* **The buyer's days.** `DayInv`: days only go forward (`DaysInOrder`), the day's
  total, in memory and in the file, is what the calls charged on that day come to
  (`DailyAdds`), and without escalation that stays within the daily limit and the
  excess (`DailyRoom`). `DailyAdds` survives a crash because every change of the
  total is written before the lock is released, and a rollover because no call is
  charged on a day the file has not seen.
* **Seller.** `Inv` adds that rows follow requests (a row exists exactly from
  admission on, with the request's own nonce or none), that admitted nonces are
  unique, what `moved` may be at each place of a request, and that each session
  used belongs to a request, which is why `NextSession` is within `Sessions`.
  `TotalsAreOfTheCalls` is inductive once sessions are known to be opened in the
  order of their ids, since one not opened yet must have nothing in its totals.
  `SerialCallsKeepTheBudget` rests on `SerialRoom`: in a session never overlapped
  at most one call is in flight and its whole ceiling still fits.
* **Close command.** `DeathsLeaveTraces` rests on three facts: `Working`, the
  status of the batch a run holds tells how far the run has got; `InOrder`, batches
  are used in order, so that the next one is fresh (`FirstOnes`: an initial segment
  is as large as its last element); and `PlansOK`, a resuming plan is of a used
  batch. `SettledCallsWereSwept` adds `CallInv`: a captured row is final for the
  server (`ServerKeepsRows`), the calls a run has yet to batch are captured, and
  plans of distinct sessions share no call, so that finalising one plan leaves the
  calls of the next captured and no attached call is taken from its batch before
  it is settled. `BatchesAddUp` needs `BatchInv`: a plan's gross is that of its
  calls from the moment it is made, until its batch is open its calls are in no
  batch, and one that resumes has exactly the calls of its batch.
  `SettledWasClaimed` needs `CollectInv`: the voucher a run is about to claim
  covers every call of the payer that is in a batch, so that what the chain
  collected covers every batch whose claim was accepted, recorded or not. Every
  step of the command is a stutter or a legal change for the seller's invariants,
  which is `ServerPromisesStand`.
* **Window.** `BookInv`: the batches used are the first ones and each has a call,
  the status of the batch under way says how far `settle_batch` has got (`WorkOK`),
  a call in a batch is a captured voucher of the batch's session and is settled
  exactly when the batch is (`AttachedOK`), count and gross are those of the calls
  (`GrossAdds`). `ChainInv` says that the calls of a batch that is claimed, or whose
  claim was answered and not recorded yet, are among those the chain has claimed,
  and the same for sweeps. `MovesInv` says where swept money can be looked up:
  whatever was swept is in the recorded sweep of some batch or was lost, and no
  batch has such a record before its sweep. A settled call no other transaction
  swept is therefore in the sweep its receipt names, which moved at least its amount
  (`TransferCovers`). `ReceiptInv` says what a receipt and its copy hold at any
  time, the transaction being the call's own or, once it is there, its batch's.
  `OneOpenSession` is no part of it, since `settle_batch` may reopen a session
  beside another.
* **Pricing.** A reading is the least of the units' price and the ceiling, and
  flooring call by call is subadditive (`SplitAdds`), for every price, take and
  fee. `BreakEvenHolds` keeps `Worth`, every call of a window captured at least the
  price, and then compares two quotients by their defining inequalities
  (`CeilDivBounds`, `BreakEvenMargin`), where the solver is given each product as
  one term. `TheReportIsHonest` keeps `Books`: what was swept and what the
  sweeps cost are the sums over the settled batches, and what is owed is the window
  and the batches in flight, so every `Cut` and `Settle` moves an amount from one
  sum to another; `GrossParts` and `SplitOfAll` then take the report's sums apart.
* **Facilitator.** An upgrade of a tool's list keeps every scheme payable and puts
  the metered offer first (`UpgradedPays`); both theorems are then an invariant
  over tools and calls. That two first calls both upgrade is part of it.
* **Earlier ledger.** `CatalogueInv` has two halves. `CallStages` follows a call:
  its record names a transaction only for a settlement that moved the capture, one
  that names none is captured and not deferred, and a row, once stored, is the
  record. That gives `TransactionsAreReal` and `MovedIsRecorded` whatever overlaps.
  `Alone` is what holds while no two records overlapped: one worker thread at most
  holds rows, and they are still what the ledger says (`Fresh`); sessions and
  batches are given out in order, each to the row of a call (`Handed`), so that the
  next one is free (`NextIsNew`) and carries nothing yet. With it a `Store` adds one
  call to one session, one batch and the tool (`RowJoins`), which is
  `EarlierRollupsAddUp`. It was checked for three calls as well before it was
  proved.
* **Simulator.** `RunInv` has four parts. While calls go on, the channel's ceiling
  is what was captured, and what the policy lets through fits what is left of the
  budget and of the deposit (`SimInv`); every row keeps the ledger's constraints and
  the totals are the sums of the settled rows (`RowsInv`); what a failure path has
  refused so far, and that a path that refuses once refuses on (`PathsInv`); and
  which nonce each row has, a voucher's being the ceiling it signed, which grows
  with every call unless the call is free (`NoncesInv`).
* **Purge.** `PurgeInv` says what a purge has deleted, and not committed, of each
  demo group: only tables behind it (`P1`); from some table on, all of those that
  had rows (`P2`), because a group is written whole in one transaction and so
  appears between two statements of the purge; never a row that another one left
  refers to (`P3`, the foreign keys); and everything so far if nothing was committed
  meanwhile (`P4`, because `LedgerModels` lists a child before its parents). A group
  with a call that is written half way keeps its children, so a later deletion is
  refused and all is rolled back; if the purge gets to its end, nothing of the group
  was deleted or all of it was, the author's row included (`AllOrNothing`).
* **Dashboard.** `ViewInv`: a page half read has read what it would read second, if
  nothing was committed since; it holds because the counters of every group are the
  sums of its calls (`CountersAgree`, from `PurgeInv`), and a fee load once shown
  stays backed because what real batches have collected never shrinks
  (`GrossGrows`).
* `Totals` is a cardinality because a recursive sum is beyond the provers here.
  `TotalsProofs` derives what is used: a sum is a natural, an entry can be split
  off, a changed entry changes the sum by its difference, sums are monotone, the
  sum over a union is the sum of the sums (`TotalJoin`, `TotalDisjoint`), the sum of
  a sum of functions is the sum of their sums (`TotalSum`).

Only model-checked is liveness, which TLAPS does not reach:
`PendingEscalationBlocksNobody`, `ClaimedBatchesSettle`, `FacilitatorIsFound`. Every
invariant and every action property of a passing run is stated by a theorem.

## Where the code and its words disagree

`PROJECT.json`, "findings", quotes both sides of each. Four have a run that shows
them. The others were met while translating the code; the ones with most weight:

* two escalations approved together pass the daily budget, and a freeze does not
  stop a call already being asked about (`client/guardian.py`);
* an unreadable journal counts as nothing spent;
* a frozen session's payer gets a new session with a whole budget;
* a claim brings the channel's total, which may exceed its batch's gross;
* nothing in `src/` ever records a session's channel, so a live close drops every
  plan until an operator edits the row;
* a session with calls of two authors can never close a window;
* `settle_batch` reopens a frozen session, which may leave its payer two open ones;
* an untouched receipt can fail the buyer's on-chain check after a lost sweep answer,
  and a session's unsettled figure counts calls that are settled;
* recorded units are dropped when a tool returns anything but a dict;
* the simulator's `replay` and `bad-signature` paths do nothing of the kind on a
  channel;
* a free tool on a channel gives each call the same voucher and so the same nonce,
  and `--persist` breaks on the index.

## Not modelled

* A failing write of the journal: the code logs it and goes on, and a restart then
  forgets what was signed since. The model's file is always written.
* A lost update between two transactions inside the database: each transaction of
  the live path is one step. `Catalogue`, whose record is a read and a write
  without a lock, does model it.
* Two runs of the close command at once, and sessions with calls of several
  schemes in the close run: `CloseBatch` is parameterised by `Closers` and the
  payments, but its properties speak of the command used as it is meant to be.
* In `PaidCall` and the modules over it, an exact or upto settlement that succeeds
  and names no transaction (the call is then captured and joins a window):
  `Pricing` and `Catalogue` have it.
* The encryption of stored channel state, and the SDK's own updates of it beyond
  the growth of a voucher.
* Signatures and hashes as such: they are taken as unforgeable and one-to-one.
* The tools (`gateway/tools/`): handlers whose outcome the environment chooses.
* `cli/doctor.py`, the theme, charts, layout and the other read-only queries of the
  dashboard: they change no state. The migrations are generated DDL.
