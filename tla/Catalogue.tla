------------------------------ MODULE Catalogue ------------------------------
(***************************************************************************)
(* The catalogue's own ledger layer: the tool row and its sync at boot,    *)
(* the wrapper `_ledger_layer` around the SDK's paid function              *)
(* (app/gateway/paid.py), settlement or deferral of a call                 *)
(* (MeteredResourceServer in app/gateway/resource_server.py), and          *)
(* record_call and close_batch (app/gateway/ledger.py).                    *)
(*                                                                         *)
(* record_call runs in a worker thread with no lock of its own: it reads   *)
(* the rows it will change, and writes them back in one transaction, so a  *)
(* record is two steps, Load and Store, and records of two calls interleave*)
(* between them.  A transaction commits whole or not at all.               *)
(***************************************************************************)
EXTENDS Integers, FiniteSets, FiniteSetsExt, Totals

CONSTANTS
  Invocations,     \* invocations of the tool
  Payments,  \* the payments a client may present: payer, nonce, scheme
  Consumed,  \* units a handler may record on its meter, one unit priced 1
  Base,      \* ToolSpec.price_atomic
  Ceiling,   \* ToolSpec.authorized_atomic
  OtherPrice, \* what an operator may set in /admin
  Syncs,     \* CATALOGUE_SYNC_PRICES
  Restarts,  \* bound: restarts of the gateway
  NoPayment  \* an unpaid probe; its payer is "unknown", it has no nonce

ASSUME PricesAssumption ==
  Base \in Nat /\ Ceiling \in Nat /\ Base <= Ceiling /\ Consumed \subseteq Nat
\* "none" is the payer of a session row that is not there.
ASSUME PaymentsAssumption ==
  /\ NoPayment \notin Payments
  /\ \A p \in Payments : DOMAIN p = {"payer", "nonce", "scheme"}
                         /\ p.payer # "none"
                         /\ p.scheme \in {"exact", "upto", "batch-settlement"}
ASSUME InvocationsAssumption == IsFiniteSet(Invocations)
ASSUME ModesAssumption == Syncs \in BOOLEAN /\ Restarts \in Nat /\ OtherPrice \in Nat

Ids == 1..Cardinality(Invocations)     \* a call opens at most one session and one batch
Paid == {"settled", "captured"}

VARIABLES
  batching,   \* settings.batching_enabled
  tool,       \* the tool row: whether it exists, its price, its totals
  boots,      \* restarts so far
  pc,         \* where each call is
  pays,       \* the payment it presented
  record,     \* its CallRecord
  loaded,     \* the rows its worker thread has read
  row,        \* the call rows
  session,    \* the pay_session rows
  batch,      \* the batch rows
  reported,   \* the gross close_batch answered for a batch
  moved,      \* what the chain moved for a call
  lost,       \* record_call raised: "call served, row lost"
  overlapped  \* some two records were in their worker threads together

requestVars == <<pc, pays, record, loaded, moved, lost, overlapped>>
ledgerVars == <<row, session, batch, reported>>
toolRowVars == <<tool, boots>>
catalogueVars == <<batching, toolRowVars, requestVars, ledgerVars>>

NoRecord == [status |-> "none", payer |-> "unknown", scheme |-> "exact", authorized |-> 0,
             captured |-> 0, deferred |-> FALSE, tx |-> FALSE]
NoLoad == [session |-> 0, sessionRow |-> 0, batch |-> 0, batchRow |-> 0, calls |-> 0, total |-> 0]
NoSession == [payer |-> "none", calls |-> 0, declined |-> 0, captured |-> 0, authorized |-> 0,
              settled |-> 0]
NoBatch == [session |-> 0, status |-> "none", calls |-> 0, gross |-> 0]
NoRow == [status |-> "none", session |-> 0, batch |-> 0, authorized |-> 0, captured |-> 0,
          nonce |-> "none", tx |-> FALSE, deferred |-> FALSE, receipt |-> FALSE]

PayerOf(p) == IF p = NoPayment THEN "unknown" ELSE p.payer
NonceOf(p) == IF p = NoPayment THEN "none" ELSE p.nonce

-----------------------------------------------------------------------------
(* The tool row *)

\* Mutant of Synced: the boot starts the totals again.
SyncedAfresh(t) == [t EXCEPT !.exists = TRUE, !.calls = 0, !.captured = 0, !.price = Base]
\* sync_catalogue: insert, or update what the declaration owns.
Synced(t) ==
  IF t.exists /\ ~Syncs THEN t ELSE [t EXCEPT !.exists = TRUE, !.price = Base]

\* A boot syncs the catalogue; a failure is logged and the gateway serves.
Restart(synced) ==
  /\ boots <= Restarts /\ \A c \in Invocations : pc[c] \in {"idle", "done", "replay"}
  /\ boots' = boots + 1
  /\ tool' = IF synced THEN Synced(tool) ELSE tool
  /\ UNCHANGED <<batching, requestVars, ledgerVars>>

Reprice ==
  /\ tool.exists /\ boots > 0 /\ tool.price # OtherPrice
  /\ tool' = [tool EXCEPT !.price = OtherPrice]
  /\ UNCHANGED <<batching, boots, requestVars, ledgerVars>>

\* The 402's amount is built from the ToolSpec when the tool is declared.
Advertised == Base

-----------------------------------------------------------------------------
(* The SDK's paid function, with our resource server *)

Recorded(c, r) ==
  /\ pc' = [pc EXCEPT ![c] = "recording"]
  /\ record' = [record EXCEPT ![c] = r]

\* _classify on a challenge, a payment that matches nothing or does not verify,
\* or one the facilitator cannot be asked about.
Refuse(c, p) ==
  /\ boots > 0 /\ pc[c] = "idle"
  /\ pays' = [pays EXCEPT ![c] = p]
  /\ Recorded(c, [NoRecord EXCEPT !.payer = PayerOf(p),
                    !.status = IF p = NoPayment THEN "challenged" ELSE "declined",
                    !.scheme = IF p = NoPayment THEN "exact" ELSE p.scheme])
  /\ UNCHANGED <<batching, toolRowVars, ledgerVars, loaded, moved, lost, overlapped>>

\* The chain moves the money of an authorization once.
Unspent(p) == \A d \in Invocations : NonceOf(pays[d]) = NonceOf(p) => moved[d] = 0

\* Verified: the handler runs.
Run(c, p) ==
  /\ boots > 0 /\ pc[c] = "idle" /\ p # NoPayment /\ Unspent(p)
  /\ pays' = [pays EXCEPT ![c] = p]
  /\ pc' = [pc EXCEPT ![c] = "running"]
  /\ UNCHANGED <<batching, toolRowVars, ledgerVars, record, loaded, moved, lost, overlapped>>

\* _capture_requirements: `exact` cannot be captured in part.
CaptureAmount(scheme, units) ==
  IF scheme \in {"upto", "batch-settlement"} THEN Min({Base + units, Ceiling}) ELSE Ceiling

Failure(c) ==
  [NoRecord EXCEPT !.status = "failed", !.payer = pays[c].payer, !.scheme = pays[c].scheme]

\* The handler raises before anything is settled.
Raise(c) ==
  /\ pc[c] = "running"
  /\ Recorded(c, Failure(c))
  /\ UNCHANGED <<batching, toolRowVars, ledgerVars, pays, loaded, moved, lost, overlapped>>

\* Mutant of Deferral: a deferred capture is written as a settled one.
DeferralSettled(c, n) ==
  [NoRecord EXCEPT !.status = "settled", !.payer = pays[c].payer, !.scheme = pays[c].scheme,
                   !.authorized = Ceiling, !.captured = n, !.deferred = TRUE, !.tx = TRUE]
\* _deferred: "a settlement that has not happened yet, said out loud".
Deferral(c, n) ==
  [NoRecord EXCEPT !.status = "captured", !.payer = pays[c].payer, !.scheme = pays[c].scheme,
                   !.authorized = Ceiling, !.captured = n, !.deferred = TRUE]

Defer(c, units) ==
  /\ pc[c] = "running" /\ batching
  /\ Recorded(c, Deferral(c, CaptureAmount(pays[c].scheme, units)))
  /\ UNCHANGED <<batching, toolRowVars, ledgerVars, pays, loaded, moved, lost, overlapped>>

\* Mutant of Settle: the ceiling is recorded, whatever was captured.
SettleCeiling(c, units, silent, hash) ==
  /\ pc[c] = "running" /\ ~batching /\ Unspent(pays[c])
  /\ moved' = [moved EXCEPT ![c] = CaptureAmount(pays[c].scheme, units)]
  /\ Recorded(c, [NoRecord EXCEPT !.status = IF hash THEN "settled" ELSE "captured",
                    !.payer = pays[c].payer, !.scheme = pays[c].scheme,
                    !.authorized = Ceiling, !.tx = hash, !.captured = Ceiling])
  /\ UNCHANGED <<batching, toolRowVars, ledgerVars, pays, loaded, lost, overlapped>>
\* The facilitator settles, and _classify reads its answer.  It may leave the
\* amount out (`silent`), and then the meter's own capture is recorded; it may
\* name no transaction (~`hash`), and then the call is captured and not settled,
\* though nothing is deferred.
Settle(c, units, silent, hash) ==
  LET n == CaptureAmount(pays[c].scheme, units)
  IN  /\ pc[c] = "running" /\ ~batching /\ Unspent(pays[c])
      /\ moved' = [moved EXCEPT ![c] = n]
      /\ Recorded(c, [NoRecord EXCEPT !.status = IF hash THEN "settled" ELSE "captured",
                        !.payer = pays[c].payer, !.scheme = pays[c].scheme,
                        !.authorized = Ceiling, !.tx = hash,
                        !.captured = IF silent THEN Min({Base + units, Ceiling}) ELSE n])
      /\ UNCHANGED <<batching, toolRowVars, ledgerVars, pays, loaded, lost, overlapped>>

\* Refused, unreachable, or an exception; the last after the money moved or not.
SettleFails(c, units, after) ==
  /\ pc[c] = "running" /\ ~batching /\ (after => Unspent(pays[c]))
  /\ moved' = [moved EXCEPT ![c] = IF after THEN CaptureAmount(pays[c].scheme, units) ELSE 0]
  /\ Recorded(c, [Failure(c) EXCEPT !.authorized = Ceiling])
  /\ UNCHANGED <<batching, toolRowVars, ledgerVars, pays, loaded, lost, overlapped>>

-----------------------------------------------------------------------------
(* record_call *)

SessionsOf(payer) == {s \in Ids : session[s].payer = payer}
OpenBatches(s) == {b \in Ids : batch[b].status = "open" /\ batch[b].session = s}
NextId(used) == 1 + Cardinality(used)

\* The worker thread reads the tool, the payer's session and its open batch.
Load(c) ==
  LET ss == SessionsOf(record[c].payer)
      s == IF ss = {} THEN 0 ELSE Max(ss)
      bs == IF record[c].deferred /\ record[c].captured > 0 THEN OpenBatches(s) ELSE {}
      b == IF bs = {} THEN 0 ELSE Max(bs)
  IN  /\ pc[c] = "recording"
      /\ IF tool.exists
           THEN /\ loaded' = [loaded EXCEPT ![c] =
                     [session |-> s, sessionRow |-> IF s = 0 THEN NoSession ELSE session[s],
                      batch |-> b, batchRow |-> IF b = 0 THEN NoBatch ELSE batch[b],
                      calls |-> tool.calls, total |-> tool.captured]]
                /\ pc' = [pc EXCEPT ![c] = "storing"]
                /\ UNCHANGED lost
           ELSE /\ pc' = [pc EXCEPT ![c] = "done"]
                /\ lost' = lost \cup {c}
                /\ UNCHANGED loaded
      /\ overlapped' = (overlapped \/ \E d \in Invocations : pc[d] = "storing")
      /\ UNCHANGED <<batching, toolRowVars, ledgerVars, pays, record, moved>>

\* uq_call_network_nonce, hit when the call row is flushed.
Replayed(c) == \E d \in Invocations : row[d].nonce # "none" /\ row[d].nonce = NonceOf(pays[c])

\* The transaction fails: IntegrityError is answered "replay_detected", any
\* other error is logged; nothing of it is kept.
StoreFails(c) ==
  /\ pc[c] = "storing"
  /\ pc' = [pc EXCEPT ![c] = IF Replayed(c) THEN "replay" ELSE "done"]
  /\ lost' = lost \cup {c}
  /\ UNCHANGED <<batching, toolRowVars, ledgerVars, pays, record, loaded, moved, overlapped>>

\* The session row as the thread writes it: what it read, plus this call.
SessionAfter(s, r) ==
  [payer |-> r.payer, calls |-> s.calls + 1,
   declined |-> s.declined + (IF r.status = "declined" THEN 1 ELSE 0),
   captured |-> s.captured + r.captured,
   authorized |-> IF r.captured = 0 THEN s.authorized
                  ELSE IF r.scheme = "batch-settlement" THEN Max({s.authorized, r.authorized})
                  ELSE s.authorized + r.authorized,
   settled |-> s.settled + (IF r.deferred THEN 0 ELSE r.captured)]

\* Call, rollups and receipt in one transaction, over the rows read before.
Store(c) ==
  LET r == record[c]
      l == loaded[c]
      s == IF l.session # 0 THEN l.session
           ELSE NextId({i \in Ids : session[i] # NoSession})
      b == IF ~(r.deferred /\ r.captured > 0) THEN 0
           ELSE IF l.batch # 0 THEN l.batch ELSE NextId({i \in Ids : batch[i] # NoBatch})
  IN  /\ pc[c] = "storing" /\ ~Replayed(c) /\ r.captured <= r.authorized
      /\ row' = [row EXCEPT ![c] =
           [status |-> r.status, session |-> s, batch |-> b, authorized |-> r.authorized,
            captured |-> r.captured, nonce |-> NonceOf(pays[c]), tx |-> r.tx,
            deferred |-> r.deferred, receipt |-> r.captured > 0 \/ r.status \in Paid]]
      /\ session' = [session EXCEPT ![s] = SessionAfter(l.sessionRow, r)]
      /\ batch' = IF b = 0 THEN batch
                  ELSE [batch EXCEPT ![b] =
                    [session |-> s, status |-> IF l.batch = 0 THEN "open" ELSE @.status,
                     calls |-> l.batchRow.calls + 1, gross |-> l.batchRow.gross + r.captured]]
      /\ tool' = IF r.captured = 0 THEN tool
                 ELSE [tool EXCEPT !.calls = l.calls + 1, !.captured = l.total + r.captured]
      /\ pc' = [pc EXCEPT ![c] = "done"]
      /\ UNCHANGED <<batching, boots, pays, record, loaded, moved, lost, overlapped, reported>>

\* close_batch: OPEN -> CLAIMING, and the figures it answers.
CloseBatch(b) ==
  /\ batch[b].status = "open"
  /\ batch' = [batch EXCEPT ![b].status = "claiming"]
  /\ reported' = [reported EXCEPT ![b] = batch[b].gross]
  /\ overlapped' = (overlapped \/ \E c \in Invocations : pc[c] = "storing" /\ loaded[c].batch = b)
  /\ UNCHANGED <<batching, toolRowVars, pc, pays, record, loaded, moved, lost, row, session>>

-----------------------------------------------------------------------------
CatalogueInit ==
  /\ batching \in BOOLEAN
  /\ tool = [exists |-> FALSE, price |-> 0, calls |-> 0, captured |-> 0]
  /\ boots = 0
  /\ pc = [c \in Invocations |-> "idle"] /\ pays = [c \in Invocations |-> NoPayment]
  /\ record = [c \in Invocations |-> NoRecord] /\ loaded = [c \in Invocations |-> NoLoad]
  /\ row = [c \in Invocations |-> NoRow]
  /\ session = [s \in Ids |-> NoSession] /\ batch = [b \in Ids |-> NoBatch]
  /\ reported = [b \in Ids |-> 0]
  /\ moved = [c \in Invocations |-> 0] /\ lost = {} /\ overlapped = FALSE

ServeCall(c) ==
  \/ \E p \in Payments \cup {NoPayment} : Refuse(c, p) \/ Run(c, p)
  \/ \E units \in Consumed :
       \/ Defer(c, units)
       \/ \E silent, hash \in BOOLEAN : Settle(c, units, silent, hash)
       \/ \E after \in BOOLEAN : SettleFails(c, units, after)
  \/ Raise(c) \/ Load(c) \/ Store(c) \/ StoreFails(c)

CatalogueNext ==
  \/ \E synced \in BOOLEAN : Restart(synced)
  \/ Reprice
  \/ \E c \in Invocations : ServeCall(c)
  \/ \E b \in Ids : CloseBatch(b)

CatalogueSpec == CatalogueInit /\ [][CatalogueNext]_catalogueVars

-----------------------------------------------------------------------------
(* Properties *)

CapturedIn(cs) == Total(cs, [c \in Invocations |-> row[c].captured])
CallsOf(s) == {c \in Invocations : row[c].session = s}
CallsIn(b) == {c \in Invocations : row[c].batch = b}

Adds(s) ==
  /\ session[s].captured = CapturedIn(CallsOf(s))
  /\ session[s].calls = Cardinality(CallsOf(s))
  /\ session[s].captured - session[s].settled = CapturedIn({c \in CallsOf(s) : row[c].deferred})

\* "sum(captured) == batch gross == what moved": sessions, batches and the tool
\* agree with the call rows, and a closed batch is what close_batch reported,
\* as long as no two records were written at the same time.
RollupsAddUp ==
  ~overlapped =>
    /\ \A s \in Ids : Adds(s)
    /\ \A b \in Ids : batch[b].gross = CapturedIn(CallsIn(b))
    /\ \A b \in Ids : batch[b].status = "claiming" => batch[b].gross = reported[b]
    /\ tool.captured = CapturedIn(Invocations)
    /\ \A s, t \in Ids : session[s].payer = session[t].payer /\ session[s] # NoSession => s = t

\* "a receipt that names a transaction which does not exist is worse than one
\* that admits it is pending": a row or a receipt has a transaction only for
\* money that moved, as much of it as it says, and a deferred call is in a batch.
NoFalseTransaction ==
  \A c \in Invocations :
    /\ row[c].tx => row[c].captured <= moved[c] /\ row[c].status = "settled" /\ row[c].receipt
    /\ row[c].deferred /\ row[c].captured > 0 => row[c].batch # 0 /\ ~row[c].tx

\* Money that moved is in the ledger at no more than moved, unless the settlement
\* answered with an error or the row was lost; what moved is all of it unless the
\* facilitator left the amount of an exact payment out.  Whether it named a
\* transaction or not, the row has a receipt and waits for no batch.
PaidIsRecorded ==
  \A c \in Invocations :
    pc[c] = "done" /\ moved[c] > 0 /\ c \notin lost /\ row[c].status # "failed" =>
    /\ row[c].status = (IF row[c].tx THEN "settled" ELSE "captured")
    /\ row[c].receipt /\ row[c].batch = 0 /\ row[c].captured <= moved[c]
    /\ record[c].scheme # "exact" => row[c].captured = moved[c]
=============================================================================
