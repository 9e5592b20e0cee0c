---------------------------- MODULE SpendGuardian ----------------------------
(***************************************************************************)
(* The buyer's side of a paid call: app/client/guardian.py (the spend      *)
(* policy and its journal), app/client/signer.py (the signer whose         *)
(* signatures are bearer instruments) and app/client/shim.py (the call     *)
(* that screens, authorizes, signs, waits and resolves its reservation).   *)
(*                                                                         *)
(* Calls run concurrently on one event loop; a step of this module is the  *)
(* code between two awaits.  The process may die at any step and start     *)
(* again from the journal file.  The server and the approver are part of   *)
(* the environment.                                                        *)
(***************************************************************************)
EXTENDS Integers, FiniteSets, Totals

CONSTANTS
  Calls,        \* call ids: each is used for one call
  Policies,     \* the SpendPolicy values an operator may run with
  Quotes,       \* what a server may answer: [worst |-> Offer, chosen |-> Offer]
  NoLimit,      \* None in a SpendPolicy field
  Unpriced,     \* an amount that does not parse as an integer
  MaxDay,       \* bound of the clock: the last UTC day of a behaviour
  Readable      \* outcomes of reading the journal file at start: {TRUE} or BOOLEAN

Limit == Nat \cup {NoLimit}
Offer == [amount : Nat \cup {Unpriced}, permitted : BOOLEAN]

ASSUME CallsFinite == IsFiniteSet(Calls)
ASSUME PolicyShape ==
  /\ NoLimit \notin Int
  /\ Policies \subseteq [session : Limit, daily : Limit, perCall : Limit,
                         escalate : Limit, requireReceipt : BOOLEAN]
ASSUME QuoteShape ==
  /\ Unpriced \notin Int
  /\ Quotes \subseteq [worst : Offer, chosen : Offer]
ASSUME EnvironmentShape == MaxDay \in Nat /\ Readable \subseteq BOOLEAN

VARIABLES
  policy,      \* Guardian.policy, immutable
  today,       \* the UTC date the clock shows
  up,          \* the buyer process is running
  \* -- SpendJournal
  day,         \* _day
  daily,       \* _daily_committed
  committed,   \* _committed
  reserved,    \* _reservations: the ceiling each open reservation holds, 0 for none
  file,        \* the journal file: the day and the daily total it was last flushed with
  \* -- Guardian and AuditingSigner
  frozen,      \* _frozen_reason is not None
  signatures,  \* AuditingSigner.count
  \* -- one PaidMCPClient.call_tool per call
  pc,          \* where the call is
  offer,       \* the requirement the payment client selected
  before,      \* signatures_before
  \* -- what is true outside the process, or of its past
  signed,      \* an authorization for offer[c].amount exists and is out of reach
  settled,     \* the server has collected on it
  taken,       \* how much it collected
  charge,      \* what the journal holds against the call: its ceiling, then what it booked
  chargeDay,   \* the journal's day when the call was reserved
  excess,      \* total the server reported above the ceilings
  straddled    \* some call was resolved on a later journal day than it was reserved on

journalVars == <<day, daily, committed, reserved, file>>
ghostVars   == <<charge, chargeDay, excess, straddled>>
serverVars  == <<settled, taken>>
vars == <<policy, today, up, journalVars, frozen, signatures,
          pc, offer, before, signed, serverVars, ghostVars>>

\* pc: the call has been sent; phase 1 let it through; a human is being asked;
\* its ceiling is reserved; it is signed and on the wire.
Running == {"called", "screened", "asking", "reserved", "signed"}
\* "denied" and "done" are calls that ended in this process, "dead" ones belong
\* to a process that has died.
PCs == {"idle"} \cup Running \cup {"denied", "done", "dead"}

-----------------------------------------------------------------------------
(* SpendJournal *)

SessionExposure == committed + Total(Calls, reserved)

\* _roll_day as the readouts and reserve see it: a new date starts from zero.
DailyExposure == IF today = day THEN daily ELSE 0

Remaining(limit, exposure) == IF limit > exposure THEN limit - exposure ELSE 0
\* Mutant of OverSession: the budget is charged the captured amounts only.
OverSessionNoReservations(amount) ==
  policy.session # NoLimit /\ amount > Remaining(policy.session, committed)
OverSession(amount) ==
  policy.session # NoLimit /\ amount > Remaining(policy.session, SessionExposure)
\* Mutant of OverDaily: a stateless limit.
OverDailyStateless(amount) == policy.daily # NoLimit /\ amount > policy.daily
OverDaily(amount) ==
  policy.daily # NoLimit /\ amount > Remaining(policy.daily, DailyExposure)

\* Reading the daily remainder rolls the day, and flushes when it rolled.
ReadDaily ==
  /\ day' = (IF policy.daily = NoLimit THEN day ELSE today)
  /\ daily' = (IF policy.daily = NoLimit THEN daily ELSE DailyExposure)
  /\ file' = (IF day' = day THEN file ELSE [day |-> today, daily |-> 0])
  /\ UNCHANGED <<committed, reserved>>

\* Mutant of Reserve: the write-through is left to the end of the call.
ReserveUnflushed(c) ==
  /\ reserved' = [reserved EXCEPT ![c] = offer[c].amount]
  /\ day' = today
  /\ daily' = DailyExposure + offer[c].amount
  /\ UNCHANGED <<committed, file>>
  /\ charge' = [charge EXCEPT ![c] = offer[c].amount]
  /\ chargeDay' = [chargeDay EXCEPT ![c] = today]
  /\ UNCHANGED <<excess, straddled>>

\* reserve: roll, hold the ceiling, count it against the day, write through.
Reserve(c) ==
  /\ reserved' = [reserved EXCEPT ![c] = offer[c].amount]
  /\ day' = today
  /\ daily' = DailyExposure + offer[c].amount
  /\ file' = [day |-> day', daily |-> daily']
  /\ UNCHANGED committed
  /\ charge' = [charge EXCEPT ![c] = offer[c].amount]
  /\ chargeDay' = [chargeDay EXCEPT ![c] = today]
  /\ UNCHANGED <<excess, straddled>>

\* The end of a reservation: the journal keeps `booked` of it and gives the rest
\* back to the day it is on (it does not roll first).
CloseReservation(c, booked) ==
  /\ reserved' = [reserved EXCEPT ![c] = 0]
  /\ daily' = daily - reserved[c] + booked
  /\ file' = [day |-> day, daily |-> daily']
  /\ UNCHANGED day
  /\ charge' = [charge EXCEPT ![c] = booked]
  /\ straddled' = (straddled \/ chargeDay[c] # day)
  /\ UNCHANGED chargeDay

\* Mutant of Commit: the ceiling is taken out of the committed total as well.
CommitRefundTwice(c, captured) ==
  /\ CloseReservation(c, captured)
  /\ committed' = committed + captured - reserved[c]
  /\ excess' = excess + (IF captured > reserved[c] THEN captured - reserved[c] ELSE 0)

\* commit: book what was captured, even above the ceiling.
Commit(c, captured) ==
  /\ CloseReservation(c, captured)
  /\ committed' = committed + captured
  /\ excess' = excess + (IF captured > reserved[c] THEN captured - reserved[c] ELSE 0)

\* release: cancel the reservation entirely.
Release(c) == CloseReservation(c, 0) /\ UNCHANGED <<committed, excess>>

-----------------------------------------------------------------------------
(* Guardian *)

OverPerCall(o) ==
  /\ o.amount # Unpriced
  /\ policy.perCall # NoLimit
  /\ o.amount > policy.perCall

\* Mutant of StaticDeny: the freeze is not looked at.
StaticDenyUnfrozen(o) == o.amount = Unpriced \/ ~o.permitted \/ OverPerCall(o)
\* _static_checks: everything that does not touch the running totals.
StaticDeny(o) == frozen \/ o.amount = Unpriced \/ ~o.permitted \/ OverPerCall(o)

NeedsEscalation(amount) == policy.escalate # NoLimit /\ amount > policy.escalate

Enter(c, state) == pc' = [pc EXCEPT ![c] = state]

-----------------------------------------------------------------------------
(* PaidMCPClient.call_tool: each action ends where the code awaits *)

\* call_tool begins: the signature count is read and the call is sent unpaid.
Start(c) ==
  /\ up /\ pc[c] = "idle"
  /\ Enter(c, "called")
  /\ before' = [before EXCEPT ![c] = signatures]
  /\ UNCHANGED <<policy, today, up, journalVars, frozen, signatures, offer,
                 signed, serverVars, ghostVars>>

\* The server answers 402 and phase 1 judges the largest offer.  It reserves
\* nothing; a price over the escalation threshold is left to phase 2.
Screen(c, q) ==
  /\ up /\ pc[c] = "called"
  /\ IF StaticDeny(q.worst) \/ OverSession(q.worst.amount)
       THEN Enter(c, "denied") /\ UNCHANGED <<journalVars, offer>>
       ELSE /\ ReadDaily
            /\ IF OverDaily(q.worst.amount)
                 THEN Enter(c, "denied") /\ UNCHANGED offer
                 ELSE Enter(c, "screened") /\ offer' = [offer EXCEPT ![c] = q.chosen]
  /\ UNCHANGED <<policy, today, up, frozen, signatures, before, signed,
                 serverVars, ghostVars>>

WithinBudgets(c) ==
  /\ ~StaticDeny(offer[c])
  /\ ~OverSession(offer[c].amount)
  /\ ~OverDaily(offer[c].amount)

\* Phase 2 refuses, before anything is signed.  Running out of session budget
\* freezes the Guardian; a static refusal or the daily budget does not.
AuthorizeDeny(c) ==
  /\ up /\ pc[c] = "screened"
  /\ ~WithinBudgets(c)
  /\ LET static == StaticDeny(offer[c])
         overSession == ~static /\ OverSession(offer[c].amount)
     IN  /\ frozen' = (frozen \/ overSession)
         /\ IF static \/ overSession THEN UNCHANGED journalVars ELSE ReadDaily
  /\ Enter(c, "denied")
  /\ UNCHANGED <<policy, today, up, signatures, offer, before, signed,
                 serverVars, ghostVars>>

\* Phase 2 allows: the ceiling is reserved under the same lock as the checks.
AuthorizeAllow(c) ==
  /\ up /\ pc[c] = "screened"
  /\ WithinBudgets(c)
  /\ ~NeedsEscalation(offer[c].amount)
  /\ Reserve(c)
  /\ Enter(c, "reserved")
  /\ UNCHANGED <<policy, today, up, frozen, signatures, offer, before, signed, serverVars>>

\* Mutant of AuthorizeAsk: one escalation at a time, as if asked under the lock.
AuthorizeAskLocked(c) ==
  /\ up /\ pc[c] = "screened"
  /\ \A d \in Calls : pc[d] # "asking"
  /\ WithinBudgets(c)
  /\ NeedsEscalation(offer[c].amount)
  /\ ReadDaily
  /\ Enter(c, "asking")
  /\ UNCHANGED <<policy, today, up, frozen, signatures, offer, before, signed,
                 serverVars, ghostVars>>

\* Phase 2 has to ask, and drops the lock to do it: nothing is reserved yet.
AuthorizeAsk(c) ==
  /\ up /\ pc[c] = "screened"
  /\ WithinBudgets(c)
  /\ NeedsEscalation(offer[c].amount)
  /\ ReadDaily
  /\ Enter(c, "asking")
  /\ UNCHANGED <<policy, today, up, frozen, signatures, offer, before, signed,
                 serverVars, ghostVars>>

\* The approver refuses, fails or does not exist, or approves when a concurrent
\* call has used the session budget up meanwhile.
AnswerDeny(c, approved) ==
  /\ up /\ pc[c] = "asking"
  /\ approved => OverSession(offer[c].amount)
  /\ Enter(c, "denied")
  /\ UNCHANGED <<policy, today, up, journalVars, frozen, signatures, offer, before,
                 signed, serverVars, ghostVars>>

\* The approver says yes.  Of the checks made before asking only the session
\* budget is made again.
AnswerAllow(c) ==
  /\ up /\ pc[c] = "asking"
  /\ ~OverSession(offer[c].amount)
  /\ Reserve(c)
  /\ Enter(c, "reserved")
  /\ UNCHANGED <<policy, today, up, frozen, signatures, offer, before, signed, serverVars>>

\* sign_typed_data, called by the SDK once the hooks have passed.
Sign(c) ==
  /\ up /\ pc[c] = "reserved"
  /\ signed' = [signed EXCEPT ![c] = TRUE]
  /\ signatures' = signatures + 1
  /\ Enter(c, "signed")
  /\ UNCHANGED <<policy, today, up, journalVars, frozen, offer, before,
                 serverVars, ghostVars>>

\* The server collects on an authorization it holds, whatever became of its
\* signer.  The chain lets it take no more than was signed for.
Settle(c, amount) ==
  /\ signed[c] /\ ~settled[c]
  /\ settled' = [settled EXCEPT ![c] = TRUE]
  /\ taken' = [taken EXCEPT ![c] = amount]
  /\ UNCHANGED <<policy, today, up, journalVars, frozen, signatures, pc, offer,
                 before, signed, ghostVars>>

\* Mutant of Resolve: a call that reports no payment gets its ceiling back.
ResolvePaidOnly(c, paid, captured) ==
  IF reserved[c] = 0
    THEN UNCHANGED <<journalVars, ghostVars>>
    ELSE IF ~paid THEN Release(c) ELSE Commit(c, captured)

\* _resolve_reservation: release only when this call saw no new signature.
Resolve(c, paid, captured) ==
  IF reserved[c] = 0
    THEN UNCHANGED <<journalVars, ghostVars>>
    ELSE IF signatures = before[c] THEN Release(c) ELSE Commit(c, captured)

\* What the settlement or the receipt says was captured: the truth, nothing
\* readable (the ceiling is booked), or more than was authorized.
Reports == {"taken", "absent", "over"}
Captured(c, report) ==
  CASE report = "taken"  -> taken[c]
    [] report = "absent" -> offer[c].amount
    [] report = "over"   -> offer[c].amount + 1

\* A paid result arrives; the reservation is resolved and the receipt checked.
\* An unverifiable receipt freezes the Guardian; a missing one does if required.
Respond(c, report, receipt) ==
  /\ up /\ pc[c] = "signed" /\ settled[c]
  /\ Resolve(c, TRUE, Captured(c, report))
  /\ frozen' = (frozen \/ receipt = "bad" \/ (receipt = "none" /\ policy.requireReceipt))
  /\ Enter(c, "done")
  /\ UNCHANGED <<policy, today, up, signatures, offer, before, signed, serverVars>>

\* Mutant of Abort: only a call that has signed has anything to resolve.
AbortSignedOnly(c) ==
  /\ up /\ pc[c] \in Running
  /\ IF pc[c] = "signed" THEN Resolve(c, FALSE, offer[c].amount)
                         ELSE UNCHANGED <<journalVars, ghostVars>>
  /\ Enter(c, "done")
  /\ UNCHANGED <<policy, today, up, frozen, signatures, offer, before, signed, serverVars>>

\* The call ends with no payment reported: the tool was free, the payload could
\* not be built, the transport failed or timed out, the task was cancelled.
Abort(c) ==
  /\ up /\ pc[c] \in Running
  /\ Resolve(c, FALSE, offer[c].amount)
  /\ Enter(c, "done")
  /\ UNCHANGED <<policy, today, up, frozen, signatures, offer, before, signed, serverVars>>

-----------------------------------------------------------------------------
(* The operator, the clock and the process *)

Freeze ==
  /\ up /\ frozen' = TRUE
  /\ UNCHANGED <<policy, today, up, journalVars, signatures, pc, offer, before,
                 signed, serverVars, ghostVars>>

Unfreeze ==
  /\ up /\ frozen' = FALSE
  /\ UNCHANGED <<policy, today, up, journalVars, signatures, pc, offer, before,
                 signed, serverVars, ghostVars>>

Midnight ==
  /\ today < MaxDay
  /\ today' = today + 1
  /\ UNCHANGED <<policy, up, journalVars, frozen, signatures, pc, offer, before,
                 signed, serverVars, ghostVars>>

\* Everything in memory is lost: the session's totals, the reservations, the
\* freeze, the signer's count.  The file and the signed authorizations stay.
Crash ==
  /\ up /\ up' = FALSE
  /\ committed' = 0 /\ reserved' = [c \in Calls |-> 0] /\ daily' = 0
  /\ frozen' = FALSE /\ signatures' = 0
  /\ pc' = [c \in Calls |-> IF pc[c] = "idle" THEN "idle" ELSE "dead"]
  /\ UNCHANGED <<policy, today, day, file, offer, before, signed, serverVars, ghostVars>>

\* SpendJournal.__init__ and _load: an unreadable file counts as zero.
Restart(readable) ==
  /\ ~up /\ up' = TRUE
  /\ day' = today
  /\ daily' = (IF readable /\ file.day = today THEN file.daily ELSE 0)
  /\ UNCHANGED <<policy, today, committed, reserved, file, frozen, signatures, pc,
                 offer, before, signed, serverVars, ghostVars>>

-----------------------------------------------------------------------------
Init ==
  /\ policy \in Policies
  /\ today = 0 /\ up = TRUE
  /\ day = 0 /\ daily = 0 /\ committed = 0
  /\ reserved = [c \in Calls |-> 0]
  /\ file = [day |-> 0, daily |-> 0]
  /\ frozen = FALSE /\ signatures = 0
  /\ pc = [c \in Calls |-> "idle"]
  /\ offer = [c \in Calls |-> [amount |-> 0, permitted |-> FALSE]]
  /\ before = [c \in Calls |-> 0]
  /\ signed = [c \in Calls |-> FALSE]
  /\ settled = [c \in Calls |-> FALSE]
  /\ taken = [c \in Calls |-> 0]
  /\ charge = [c \in Calls |-> 0]
  /\ chargeDay = [c \in Calls |-> 0]
  /\ excess = 0 /\ straddled = FALSE

\* What the event loop does for a call without a human or an operator: only the
\* waits on the server time out.
ClientStep(c) ==
  \/ \E q \in Quotes : Screen(c, q)
  \/ AuthorizeDeny(c)
  \/ AuthorizeAllow(c)
  \/ AuthorizeAsk(c)
  \/ Sign(c)
  \/ \E report \in Reports, receipt \in {"good", "bad", "none"} : Respond(c, report, receipt)
  \/ pc[c] \in {"called", "signed"} /\ Abort(c)

Answer(c) == AnswerAllow(c) \/ \E approved \in BOOLEAN : AnswerDeny(c, approved)

Next ==
  \/ \E c \in Calls :
       \/ Start(c)
       \/ ClientStep(c)
       \/ Answer(c)
       \/ pc[c] \in {"screened", "asking", "reserved"} /\ Abort(c)
       \/ signed[c] /\ \E amount \in 0..offer[c].amount : Settle(c, amount)
  \/ Freeze \/ Unfreeze \/ Midnight \/ Crash
  \/ \E readable \in Readable : Restart(readable)

Spec == Init /\ [][Next]_vars

\* The transport's timeout ends every wait on the server, so a call's own steps
\* are fair.  Nothing is assumed of the approver, who may never answer.
FairSpec == Spec /\ \A c \in Calls : WF_vars(ClientStep(c))

-----------------------------------------------------------------------------
(* What the Guardian promises *)

TypeOK ==
  /\ policy \in Policies /\ up \in BOOLEAN /\ frozen \in BOOLEAN
  /\ today \in Nat /\ day \in Nat /\ daily \in Int
  /\ committed \in Nat /\ signatures \in Nat /\ excess \in Nat
  /\ reserved \in [Calls -> Nat]
  /\ file \in [day : Nat, daily : Int]
  /\ pc \in [Calls -> PCs]
  /\ offer \in [Calls -> Offer]
  /\ before \in [Calls -> Nat]
  /\ signed \in [Calls -> BOOLEAN] /\ settled \in [Calls -> BOOLEAN]
  /\ taken \in [Calls -> Nat] /\ charge \in [Calls -> Nat]
  /\ chargeDay \in [Calls -> Nat]
  /\ straddled \in BOOLEAN

\* "Exposure is always committed + sum(outstanding reservations)", and however
\* calls, escalations and freezes interleave it stays within session_budget,
\* except for what a server reports above the ceilings it was given.
SessionBudgetHolds ==
  policy.session # NoLimit => SessionExposure <= policy.session + excess

\* What calls reserved and signed on day d are still charged with.
Liability(d) ==
  Total(Calls, [c \in Calls |-> IF signed[c] /\ chargeDay[c] = d THEN charge[c] ELSE 0])

\* "$50 today" is a daily budget: what was signed for today is within it, across
\* the processes that ran today.
DailyBudgetHolds ==
  policy.daily # NoLimit => Liability(today) <= policy.daily + excess

\* It holds as long as nothing was escalated, which goes around the second daily
\* check, and no call was resolved on another day than it was reserved on, which
\* gives yesterday's refund to today.
DailyBudgetUnlessStraddled ==
  policy.escalate = NoLimit /\ ~straddled => DailyBudgetHolds

\* "a process that dies immediately after signing still remembers that it
\* signed": today's total, in memory and in the file a restart would read, is
\* never less than what was signed for today.
DailyRemembersSigned ==
  ~straddled =>
    /\ up => DailyExposure >= Liability(today)
    /\ (IF file.day = today THEN file.daily ELSE 0) >= Liability(today)

\* Money collected on this process's signatures is never more than the exposure
\* the session budget was judged against, whatever was reported or lost.
ExposureCoversTaken ==
  Total(Calls, [c \in Calls |-> IF pc[c] = "dead" THEN 0 ELSE taken[c]]) <= SessionExposure

\* A reservation belongs to a call that is about to sign or has signed, and a
\* call that was refused left nothing behind: no signature, no reservation.
ReservationsBelongToLiveCalls ==
  \A c \in Calls :
    /\ reserved[c] > 0 => pc[c] \in {"reserved", "signed"}
    /\ pc[c] = "denied" => ~signed[c]
    /\ signed[c] /\ pc[c] # "dead" => pc[c] \in {"signed", "done"}

\* Freezing stops every call that has not been judged by phase 2: while frozen,
\* a reservation can only be made for a call that was already being asked about.
FreezeStopsNewCalls ==
  [][\A c \in Calls :
       frozen /\ pc[c] # "reserved" /\ pc'[c] = "reserved" => pc[c] = "asking"]_vars

\* What a call of this process may still bring the server, or has brought it.
Owed(c) ==
  IF ~signed[c] \/ pc[c] = "dead" THEN 0 ELSE IF settled[c] THEN taken[c] ELSE offer[c].amount

\* "An EIP-3009 authorization is a bearer instrument" (guardian.py:21): the journal
\* keeps the budget that Budget.tla promises, so no reservation is let go for less
\* than may be collected on what its call has signed.
Purse == INSTANCE Budget WITH limit <- policy.session, held <- reserved, spent <- committed,
           over <- excess, owed <- [c \in Calls |-> Owed(c)]
ImplementsBudget == Purse!Spec

\* "asking a human can take minutes and must not block every other call's
\* policy evaluation": every other call gets to its end, or to its own question.
PendingEscalationBlocksNobody ==
  \A c \in Calls :
    pc[c] \in Running \ {"asking"} ~> pc[c] \in {"asking", "denied", "done", "dead"}
=============================================================================
