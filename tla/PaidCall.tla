------------------------------- MODULE PaidCall -------------------------------
(***************************************************************************)
(* The seller's side of a paid call: app/pay/decorator.py (verify, admit,  *)
(* execute, settle, capture) over the session and call rows, and the       *)
(* sessions of app/pay/batching.py.                                        *)
(*                                                                         *)
(* Requests run concurrently; every ledger write holds LEDGER_LOCK for one *)
(* transaction, so each is one step.  The server may die between any two.  *)
(* The facilitator, the chain behind it and the tool's handler are part of *)
(* the environment.                                                        *)
(***************************************************************************)
EXTENDS Integers, FiniteSets, Totals

CONSTANTS
  Requests,        \* request ids: each presents one payment
  Authorizations,  \* the signed payments a client may present, once or again
  Consumed,        \* what a handler may say it consumed, one unit priced 1
  Budget,          \* settings.session_budget_atomic, or NoLimit for zero
  NoLimit,         \* a session without a budget
  NoPayer,         \* an authorization that does not say who signed it
  NoNonce          \* the NULL of call.nonce

Schemes == {"exact", "upto", "batch"}

ASSUME RequestsFinite == IsFiniteSet(Requests)
ASSUME AmountShape == Consumed \subseteq Nat /\ NoLimit \notin Int /\ Budget \in Nat \cup {NoLimit}
\* base is the tool's price, ceiling the amount signed.  Only a tool priced as
\* 'upto' has a ceiling above its base, and it may be paid by an exact offer.
ASSUME AuthorizationShape ==
  \A a \in Authorizations :
    /\ {"payer", "nonce", "scheme", "base", "ceiling"} = DOMAIN a
    /\ a.scheme \in Schemes /\ a.base \in Nat /\ a.ceiling \in Nat /\ a.base <= a.ceiling
    /\ a.scheme = "batch" => a.base = a.ceiling

\* A request opens at most one session.
Sessions == 1..Cardinality(Requests)

VARIABLES
  pc,         \* where the request is
  auth,       \* the payment it presented
  reading,    \* record.reading.captured_atomic, once the handler has returned
  answer,     \* what the facilitator said of the settlement
  session,    \* the pay_session rows
  row,        \* the call row of each request
  tool,       \* the tool row's totals
  moved,      \* what the facilitator collected on the request's authorization
  overlapped  \* some two calls of the session were in flight together

ledgerVars == <<session, row, tool>>
vars == <<pc, auth, reading, answer, ledgerVars, moved, overlapped>>

\* Past admission, its outcome not yet in the ledger.
InFlight == {"admitted", "executed", "answered"}
PCs == {"idle", "verifying"} \cup InFlight \cup {"done", "dead"}

NoAuth == [payer |-> NoPayer, nonce |-> NoNonce, scheme |-> "exact", base |-> 0, ceiling |-> 0]
NoRow == [status |-> "none", session |-> 0, nonce |-> NoNonce, captured |-> 0, error |-> "none"]
NoSession == [status |-> "none", payer |-> NoPayer, scheme |-> "exact",
              captured |-> 0, settled |-> 0, calls |-> 0, declined |-> 0]

Goto(r, state) == pc' = [pc EXCEPT ![r] = state]

-----------------------------------------------------------------------------
(* Sessions *)

\* Mutant of OpenSessions: a session of its own for each scheme.
OpenSessionsOfScheme(a) ==
  {s \in Sessions : /\ session[s].status = "open" /\ session[s].payer = a.payer
                    /\ session[s].scheme = a.scheme}
\* A frozen session is not reused, and the scheme is not part of the key.
OpenSessions(a) ==
  {s \in Sessions : session[s].status = "open" /\ session[s].payer = a.payer}

NextSession == 1 + Cardinality({s \in Sessions : session[s].status # "none"})

\* open_or_reuse_session: the payer's newest open session, or a new one.
SessionFor(a) ==
  IF OpenSessions(a) = {} THEN NextSession
  ELSE CHOOSE s \in OpenSessions(a) : \A t \in OpenSessions(a) : t <= s
SessionRow(a) ==
  IF OpenSessions(a) = {}
    THEN [NoSession EXCEPT !.status = "open", !.payer = a.payer, !.scheme = a.scheme]
    ELSE session[SessionFor(a)]

\* Mutant of Refuses: what the call may add is not counted.
RefusesSpent(s, a) == s.status # "open" \/ (Budget # NoLimit /\ s.captured > Budget)
\* _admit, the part that looks at the session: calls in flight do not count.
Refuses(s, a) == s.status # "open" \/ (Budget # NoLimit /\ s.captured + a.ceiling > Budget)

\* Mutant of Replayed: only a payment that went through is remembered.
ReplayedSettled(a) ==
  \E r \in Requests : row[r].status \in {"captured", "settled"} /\ row[r].nonce = a.nonce
\* uq_call_network_nonce: the authorization already has a row.
Replayed(a) == a.nonce # NoNonce /\ \E r \in Requests : row[r].nonce = a.nonce

-----------------------------------------------------------------------------
(* One paid request, from await to await *)

\* The payment arrives; the facilitator is asked to verify it.
Present(r, a) ==
  /\ pc[r] = "idle"
  /\ auth' = [auth EXCEPT ![r] = a]
  /\ Goto(r, "verifying")
  /\ UNCHANGED <<reading, answer, ledgerVars, moved, overlapped>>

\* Unreachable facilitator, invalid payment, or an 'upto' payment of nobody.
Reject(r) ==
  /\ pc[r] = "verifying"
  /\ Goto(r, "done")
  /\ UNCHANGED <<auth, reading, answer, ledgerVars, moved, overlapped>>

\* _begin_call, the payment verified: find the session, judge, write the row.
\* `refused` stands for the reasons outside the session: the tool is unknown or
\* disabled, or the optional gate refuses.  A replay is recorded without nonce.
Begin(r, refused) ==
  /\ pc[r] = "verifying"
  /\ ~(auth[r].payer = NoPayer /\ auth[r].scheme = "upto")
  /\ LET a == auth[r]
         s == SessionFor(a)
         declined == refused \/ Refuses(SessionRow(a), a) \/ Replayed(a)
     IN  /\ session' = [session EXCEPT ![s] =
                [SessionRow(a) EXCEPT !.declined = IF declined THEN @ + 1 ELSE @]]
         /\ row' = [row EXCEPT ![r] =
                [status |-> IF declined THEN "declined" ELSE "verified",
                 session |-> s,
                 nonce |-> IF Replayed(a) THEN NoNonce ELSE a.nonce,
                 captured |-> 0, error |-> "none"]]
         /\ Goto(r, IF declined THEN "done" ELSE "admitted")
         /\ overlapped' =
              (IF ~declined /\ \E q \in Requests : pc[q] \in InFlight /\ row[q].session = s
                 THEN overlapped \cup {s} ELSE overlapped)
  /\ UNCHANGED <<auth, reading, answer, tool, moved>>

\* Mutant of Metered: the consumption is taken off the price, unclamped.
MeteredOff(a, units) == a.base - units
\* app.pay.meters.capture: never above the ceiling.
Metered(a, units) == IF a.base + units < a.ceiling THEN a.base + units ELSE a.ceiling

\* The handler returns and its consumption is metered.
Execute(r, units) ==
  /\ pc[r] = "admitted"
  /\ reading' = [reading EXCEPT ![r] = Metered(auth[r], units)]
  /\ Goto(r, "executed")
  /\ UNCHANGED <<auth, answer, ledgerVars, moved, overlapped>>

\* _fail
Fail(r, error) ==
  /\ row' = [row EXCEPT ![r] = [@ EXCEPT !.status = "failed", !.error = error]]
  /\ UNCHANGED <<session, tool>>

\* Mutant of HandlerRaises: the failure is recorded and the call goes on.
HandlerRaisesOn(r) ==
  /\ pc[r] = "admitted"
  /\ Fail(r, "handler")
  /\ Goto(r, "executed")
  /\ UNCHANGED <<auth, reading, answer, moved, overlapped>>

\* The handler raises: recorded, re-raised, never settled.
HandlerRaises(r) ==
  /\ pc[r] = "admitted"
  /\ Fail(r, "handler")
  /\ Goto(r, "done")
  /\ UNCHANGED <<auth, reading, answer, moved, overlapped>>

\* The handler returns a meter declaration that does not parse: the error is
\* raised outside the try, so nothing is settled and nothing is recorded.
DeclarationRaises(r) ==
  /\ pc[r] = "admitted"
  /\ Goto(r, "done")
  /\ UNCHANGED <<auth, reading, answer, ledgerVars, moved, overlapped>>

\* What settle_payment asks the facilitator for: an exact authorization has no
\* partial capture.
Asked(r) == IF auth[r].scheme = "exact" THEN auth[r].ceiling ELSE reading[r]

\* The facilitator settles (for 'batch' the SDK raises the voucher instead) and
\* says how much: the amount asked for, nothing, or something else.
Settle(r, reported) ==
  /\ pc[r] = "executed"
  /\ moved' = [moved EXCEPT ![r] = Asked(r)]
  /\ answer' = [answer EXCEPT ![r] = reported]
  /\ Goto(r, "answered")
  /\ UNCHANGED <<auth, reading, ledgerVars, overlapped>>

\* The facilitator refuses.
RefuseSettle(r) ==
  /\ pc[r] = "executed"
  /\ answer' = [answer EXCEPT ![r] = "refused"]
  /\ Goto(r, "answered")
  /\ UNCHANGED <<auth, reading, ledgerVars, moved, overlapped>>

\* The round trip raises, before or after the facilitator acted.
SettleRaises(r, acted) ==
  /\ pc[r] = "executed"
  /\ moved' = (IF acted THEN [moved EXCEPT ![r] = Asked(r)] ELSE moved)
  /\ Goto(r, "done")
  /\ UNCHANGED <<auth, reading, answer, ledgerVars, overlapped>>

\* A refused settlement, or one reported with another amount, fails the call.
RecordFailure(r) ==
  /\ pc[r] = "answered"
  /\ answer[r] \in {"refused", "different"}
  /\ Fail(r, answer[r])
  /\ Goto(r, "done")
  /\ UNCHANGED <<auth, reading, answer, moved, overlapped>>

\* Mutant of Booked: the meter's word is taken for every scheme.
BookedAsMetered(r) == reading[r]
\* An exact payment is booked in full, whatever the meter read.
Booked(r) == IF auth[r].scheme = "exact" THEN auth[r].ceiling ELSE reading[r]

\* The settlement has a transaction: everything but a raised voucher.
Settles(r) == auth[r].scheme # "batch"

\* Mutant of SessionOf: the payer's session of the moment.
SessionOfPayer(r) == SessionFor(auth[r])
\* The session the call was admitted into.
SessionOf(r) == row[r].session

\* The session with the call's cost in its totals, frozen once they reach the
\* budget.
Credited(s, r) ==
  LET total == session[s].captured + Booked(r)
  IN  [session[s] EXCEPT
         !.captured = total,
         !.calls = session[s].calls + 1,
         !.settled = IF Settles(r) THEN session[s].settled + Booked(r) ELSE session[s].settled,
         !.status = IF Budget # NoLimit /\ total >= Budget THEN "frozen" ELSE session[s].status]

\* _capture_call: the row, the session's totals and freeze, the tool's totals.
Capture(r) ==
  /\ pc[r] = "answered"
  /\ answer[r] \in {"same", "absent"}
  /\ row' = [row EXCEPT ![r] =
       [@ EXCEPT !.captured = Booked(r),
                 !.status = IF Settles(r) THEN "settled" ELSE "captured"]]
  /\ session' = [session EXCEPT ![SessionOf(r)] = Credited(SessionOf(r), r)]
  /\ tool' = [calls |-> tool.calls + 1, captured |-> tool.captured + Booked(r)]
  /\ Goto(r, "done")
  /\ UNCHANGED <<auth, reading, answer, moved, overlapped>>

\* The capture's transaction fails: logged, and the settlement is returned.
CaptureRaises(r) ==
  /\ pc[r] = "answered"
  /\ answer[r] \in {"same", "absent"}
  /\ Goto(r, "done")
  /\ UNCHANGED <<auth, reading, answer, ledgerVars, moved, overlapped>>

\* The server dies: what is in flight is lost, the rows stay as they are.
Crash ==
  /\ \E r \in Requests : pc[r] \notin {"idle", "done", "dead"}
  /\ pc' = [r \in Requests |-> IF pc[r] \in {"idle", "done"} THEN pc[r] ELSE "dead"]
  /\ UNCHANGED <<auth, reading, answer, ledgerVars, moved, overlapped>>

-----------------------------------------------------------------------------
Init ==
  /\ pc = [r \in Requests |-> "idle"]
  /\ auth = [r \in Requests |-> NoAuth]
  /\ reading = [r \in Requests |-> 0]
  /\ answer = [r \in Requests |-> "none"]
  /\ session = [s \in Sessions |-> NoSession]
  /\ row = [r \in Requests |-> NoRow]
  /\ tool = [calls |-> 0, captured |-> 0]
  /\ moved = [r \in Requests |-> 0]
  /\ overlapped = {}

Serve(r) ==
  \/ \E a \in Authorizations : Present(r, a)
  \/ Reject(r)
  \/ \E refused \in BOOLEAN : Begin(r, refused)
  \/ \E units \in Consumed : Execute(r, units)
  \/ HandlerRaises(r)
  \/ DeclarationRaises(r)
  \/ \E reported \in {"same", "absent", "different"} : Settle(r, reported)
  \/ RefuseSettle(r)
  \/ \E acted \in BOOLEAN : SettleRaises(r, acted)
  \/ RecordFailure(r)
  \/ Capture(r)
  \/ CaptureRaises(r)

Next == (\E r \in Requests : Serve(r)) \/ Crash

Spec == Init /\ [][Next]_vars

-----------------------------------------------------------------------------
(* What the seller's ledger promises *)

SessionRecord ==
  [status : {"none", "open", "frozen", "closing", "settled"},
   payer : {a.payer : a \in Authorizations} \cup {NoPayer}, scheme : Schemes,
   captured : Nat, settled : Nat, calls : Nat, declined : Nat]
RowRecord ==
  [status : {"none", "verified", "declined", "failed", "captured", "settled"},
   session : Sessions \cup {0},
   nonce : {a.nonce : a \in Authorizations} \cup {NoNonce},
   captured : Nat, error : {"none", "handler", "refused", "different"}]

TypeOK ==
  /\ pc \in [Requests -> PCs]
  /\ auth \in [Requests -> Authorizations \cup {NoAuth}]
  /\ reading \in [Requests -> Nat]
  /\ answer \in [Requests -> {"none", "same", "absent", "different", "refused"}]
  /\ session \in [Sessions -> SessionRecord]
  /\ row \in [Requests -> RowRecord]
  /\ tool \in [calls : Nat, captured : Nat]
  /\ moved \in [Requests -> Nat]
  /\ overlapped \subseteq Sessions

\* The money a call is known to have cost its buyer.
Recorded(r) == row[r].status \in {"captured", "settled"}

\* "the same authorization cannot be captured twice": of all the requests that
\* present one nonce, at most one gets past admission, whatever became of it.
OneAdmissionPerNonce ==
  \A q, r \in Requests :
    /\ row[q].status \notin {"none", "declined"} /\ row[r].status \notin {"none", "declined"}
    /\ auth[q].nonce = auth[r].nonce /\ auth[r].nonce # NoNonce
    => q = r

\* sum(captured) across a session equals its total, exactly; so do the settled
\* part, the number of calls, the refusals and the tool's own totals, with calls
\* of all outcomes interleaved.
CapturedIn(s) == {r \in Requests : row[r].session = s /\ Recorded(r)}
TotalsMatchCalls ==
  LET booked == [r \in Requests |-> row[r].captured]
  IN  /\ \A s \in Sessions :
           /\ session[s].captured = Total(CapturedIn(s), booked)
           /\ session[s].settled =
                Total({r \in CapturedIn(s) : row[r].status = "settled"}, booked)
           /\ session[s].calls = Cardinality(CapturedIn(s))
           /\ session[s].declined =
                Cardinality({r \in Requests : row[r].session = s /\ row[r].status = "declined"})
      /\ tool = [calls |-> Cardinality({r \in Requests : Recorded(r)}),
                 captured |-> Total({r \in Requests : Recorded(r)}, booked)]

\* What the ledger and the receipt say a call cost is what the facilitator
\* collected, and no more than was authorized.
RecordedIsWhatMoved ==
  \A r \in Requests :
    /\ moved[r] <= auth[r].ceiling
    /\ Recorded(r) => row[r].captured = moved[r]

\* "A declined call is never settled", "A tool that threw is not billed".
RefusalsAreFree ==
  \A r \in Requests :
    row[r].status = "declined" \/ (row[r].status = "failed" /\ row[r].error # "different")
    => moved[r] = 0

\* "two concurrent first-calls from the same payer would open two sessions and
\* split one agent's budget in half": the lock leaves each payer one.
OneOpenSession ==
  \A s, t \in Sessions :
    session[s].status = "open" /\ session[t].status = "open"
      /\ session[s].payer = session[t].payer
    => s = t

\* "Guardian's hard cap for this session".
SessionWithinBudget ==
  Budget # NoLimit => \A s \in Sessions : session[s].captured <= Budget

\* It holds for a session whose calls came one at a time.
SerialSessionWithinBudget ==
  Budget # NoLimit => \A s \in Sessions \ overlapped : session[s].captured <= Budget
=============================================================================
