----------------------------- MODULE WindowProofs -----------------------------
(***************************************************************************)
(* What closing a window inside the server keeps true, for any number of   *)
(* calls, sessions, batches and failures, with calls admitted, captured    *)
(* and lost at any point of a settlement.                                  *)
(***************************************************************************)
EXTENDS Window, PaidCallProofs

Transactions ==
  [kind : {"none", "call", "claim", "sweep"}, of : Requests \cup Batches \cup {0}]
BatchRecord ==
  [status : {"none", "open", "claiming", "claimed", "settling", "settled", "failed"},
   session : Sessions \cup {0}, gross : Nat, count : Nat,
   claimTx : Transactions, settleTx : Transactions]
PayerSet == {a.payer : a \in Authorizations} \cup {NoPayer}
BodyRecord ==
  [call : Requests, authorized : Nat, captured : Nat, payer : PayerSet,
   settlement : {"per_call", "batched"}, transaction : Transactions, attestation : BOOLEAN,
   batch : Batches \cup {0}, settledAt : BOOLEAN]
ReceiptRecord ==
  [issued : {TRUE}, body : BodyRecord, bodyHash : BodyRecord, parses : BOOLEAN,
   authorized : Nat, captured : Nat, payer : PayerSet, tx : Transactions,
   attested : BOOLEAN, batch : Batches \cup {0}]
CopyRecord == [body : BodyRecord, bodyHash : BodyRecord]

Shape ==
  /\ batch \in [Batches -> BatchRecord] /\ batchOf \in [Requests -> Batches \cup {0}]
  /\ receipt \in [Requests -> ReceiptRecord \cup {NoReceipt}]
  /\ copy \in [Requests -> CopyRecord \cup {NoReceipt}]
  /\ step \in Steps /\ work \in Batches \cup {0} /\ (work = 0 <=> step = "idle")
  /\ claimed \subseteq Requests /\ swept \subseteq claimed

\* The batches in use are the first ones, each with a call; one that is settled
\* says with which transaction.
BooksOK ==
  \A b \in Batches :
    /\ batch[b].status # "none" =>
         1..b \subseteq UsedBatches /\ \E r \in Requests : batchOf[r] = b
    /\ batch[b].settleTx = IF batch[b].status = "settled" THEN Tx("sweep", b) ELSE NoTx

\* The status of the batch that is being settled says how far it has got.
WorkOK ==
  step # "idle" =>
    batch[work].status = CASE step \in {"claiming", "claimAnswered"} -> "claiming"
                           [] step = "claimed" -> "claimed"
                           [] OTHER -> "settling"

\* A call in a batch is a captured voucher of the batch's session, settled when
\* the batch is; a voucher is settled in a batch only.
AttachedOK ==
  \A r \in Requests :
    /\ batchOf[r] # 0 =>
         /\ batch[batchOf[r]].status # "none" /\ row[r].session = batch[batchOf[r]].session
         /\ auth[r].scheme = "batch" /\ Recorded(r)
         /\ (row[r].status = "settled" <=> batch[batchOf[r]].status = "settled")
    /\ row[r].status = "settled" /\ auth[r].scheme = "batch" => batchOf[r] # 0

GrossAdds ==
  \A b \in UsedBatches :
    batch[b].gross = Total(InBatch(b), Booking) /\ batch[b].count = Cardinality(InBatch(b))

BookInv == Shape /\ BooksOK /\ WorkOK /\ AttachedOK /\ GrossAdds

\* The batches whose claim the chain has seen, and those it has swept.
ClaimSeen(b) ==
  \/ batch[b].status \in {"claimed", "settling", "settled"}
  \/ step = "claimAnswered" /\ b = work
SweepSeen(b) == batch[b].status = "settled" \/ (step = "swept" /\ b = work)
ClaimedCalls == {r \in Requests : batchOf[r] # 0 /\ ClaimSeen(batchOf[r]) /\ moved[r] > 0}
SweptCalls == {r \in Requests : batchOf[r] # 0 /\ SweepSeen(batchOf[r]) /\ moved[r] > 0}
ChainInv == ClaimedCalls \subseteq claimed /\ SweptCalls \subseteq swept

\* What is swept is in the records of a batch's sweep or was lost, and a batch has
\* such a record from its sweep on.
MovesInv ==
  /\ moves \in [Batches -> SUBSET swept] /\ lost \subseteq swept
  /\ swept \subseteq lost \cup UNION {moves[b] : b \in Batches}
  /\ \A b \in Batches :
       moves[b] # {} => /\ batch[b].status \in {"settling", "settled"}
                        /\ ~(step = "settling" /\ work = b)

\* A receipt repeats its call, its body repeats the receipt, and both show the
\* call's own transaction or, once it is there, its batch's.
ReceiptTx(r) ==
  IF Settles(r) THEN Tx("call", r)
  ELSE IF row[r].status = "settled" THEN Tx("sweep", batchOf[r]) ELSE NoTx
BodyOK(body, r) ==
  /\ body.captured = row[r].captured /\ body.authorized = auth[r].ceiling
  /\ body.payer = auth[r].payer /\ body.settlement = Mode(r)
ReceiptOK(r) ==
  /\ receipt[r].issued <=> Recorded(r)
  /\ Recorded(r) =>
       /\ receipt[r].bodyHash = receipt[r].body /\ BodyOK(receipt[r].body, r)
       /\ receipt[r].captured = row[r].captured /\ receipt[r].authorized = auth[r].ceiling
       /\ receipt[r].payer = auth[r].payer /\ receipt[r].batch = batchOf[r]
       /\ receipt[r].body.transaction = receipt[r].tx
       /\ receipt[r].parses => receipt[r].tx = ReceiptTx(r)
       /\ copy[r] \in CopyRecord
       /\ copy[r].bodyHash = copy[r].body /\ BodyOK(copy[r].body, r)
       /\ copy[r].body.transaction = IF Settles(r) THEN Tx("call", r) ELSE NoTx
ReceiptInv == \A r \in Requests : ReceiptOK(r)

-----------------------------------------------------------------------------
(* Steps of the server                                                        *)

LEMMA WindowBounds == MaxBatches \in Nat /\ 0 \notin Batches /\ Batches \subseteq Nat
BY WindowAssumption DEF Batches

(* A step of a request is of that request only, before its call is recorded,  *)
(* and only a capture records it.                                             *)
LEMMA ServeAlone ==
  ASSUME Inv, NEW r \in Requests, Serve(r)
  PROVE  /\ row[r].status \in {"none", "verified"}
         /\ \A q \in Requests \ {r} : row'[q] = row[q] /\ auth'[q] = auth[q] /\ moved'[q] = moved[q]
         /\ Capture(r) \/ row'[r].status \in {"none", "verified", "declined", "failed"}
<1> DEFINE Others ==
      \A q \in Requests \ {r} : row'[q] = row[q] /\ auth'[q] = auth[q] /\ moved'[q] = moved[q]
<1> USE DEF Inv, TypeOK, RowsFollowRequests, InFlight, NoRow, Goto, ledgerVars
<1>1. CASE \E a \in Authorizations : Present(r, a)
  BY <1>1 DEF Present
<1>2. CASE Reject(r) \/ DeclarationRaises(r) \/ CaptureRaises(r) \/ RefuseSettle(r)
           \/ \E units \in Consumed : Execute(r, units)
  BY <1>2 DEF Reject, DeclarationRaises, CaptureRaises, RefuseSettle, Execute
<1>3. CASE \E refused \in BOOLEAN : Begin(r, refused)
  <2>1. PICK declined, s, nonce :
          /\ row' = [row EXCEPT ![r] =
               [status |-> IF declined THEN "declined" ELSE "verified", session |-> s,
                nonce |-> nonce, captured |-> 0, error |-> "none"]]
          /\ UNCHANGED <<auth, moved>> /\ pc[r] = "verifying"
    BY <1>3, Zenon DEF Begin
  <2> QED  BY <2>1
<1>4. CASE HandlerRaises(r) \/ RecordFailure(r)
  <2>1. PICK error : Fail(r, error) /\ UNCHANGED <<auth, moved>> /\ row[r].status = "verified"
    BY <1>4 DEF HandlerRaises, RecordFailure
  <2>2. row'[r].status = "failed"
    BY <2>1 DEF Fail, RowRecord
  <2> QED  BY <2>1, <2>2 DEF Fail
<1>5. CASE \E reported \in {"same", "absent", "different"} : Settle(r, reported)
  BY <1>5 DEF Settle
<1>6. CASE \E acted \in BOOLEAN : SettleRaises(r, acted)
  BY <1>6 DEF SettleRaises
<1>7. CASE Capture(r)
  <2>1. row[r].status = "verified" /\ UNCHANGED <<auth, moved>>
    BY <1>7 DEF Capture
  <2> QED  BY <1>7, <2>1 DEF Capture
<1> QED  BY <1>1, <1>2, <1>3, <1>4, <1>5, <1>6, <1>7 DEF Serve

(* A capture is of the amount booked, and settles all but a voucher.          *)
LEMMA CaptureRow ==
  ASSUME Inv, NEW r \in Requests, Capture(r)
  PROVE  /\ row[r].status = "verified" /\ UNCHANGED <<auth, moved>>
         /\ row'[r].status = IF Settles(r) THEN "settled" ELSE "captured"
         /\ row'[r].captured = moved[r] /\ row'[r].captured \in Nat
<1>1. row[r].status = "verified" /\ row[r] \in RowRecord /\ moved[r] = Booked(r) /\ moved[r] \in Nat
  BY DEF Capture, Inv, TypeOK, RowsFollowRequests, InFlight, MoneyFollowsSettlement, Asked, Booked
<1>2. PICK status, cost : cost = Booked(r) /\ status = IF Settles(r) THEN "settled" ELSE "captured"
  OBVIOUS
<1>3. row'[r] = [row[r] EXCEPT !.captured = cost, !.status = status]
  BY <1>2 DEF Capture, Inv, TypeOK
<1>4. row'[r].captured = cost /\ row'[r].status = status
  BY <1>1, <1>3 DEF RowRecord
<1> QED  BY <1>1, <1>2, <1>4 DEF Capture

(* The server and the process's death leave recorded calls as they are.       *)
LEMMA ServeKeeps ==
  ASSUME Inv, (\E r \in Requests : Serve(r)) \/ Die, NEW q \in Requests
  PROVE  /\ Recorded(q) => row'[q] = row[q] /\ auth'[q] = auth[q] /\ moved'[q] = moved[q]
         /\ row'[q].status = "settled" /\ row[q].status # "settled" => auth'[q].scheme # "batch"
<1>1. ASSUME NEW r \in Requests, Serve(r)
      PROVE  /\ Recorded(q) => row'[q] = row[q] /\ auth'[q] = auth[q] /\ moved'[q] = moved[q]
             /\ row'[q].status = "settled" /\ row[q].status # "settled" => auth'[q].scheme # "batch"
  BY <1>1, ServeAlone, CaptureRow DEF Recorded, Settles
<1>2. Die => UNCHANGED <<row, auth, moved>>
  BY DEF Die, ledgerVars
<1> QED  BY <1>1, <1>2

(* The ledger's own invariant is kept.                                        *)
LEMMA DieLedger == ASSUME LedgerInv, Die PROVE LedgerInv'
<1>1. UNCHANGED <<auth, reading, answer, ledgerVars, moved, overlapped>>
      /\ pc' \in [Requests -> PCs]
      /\ \A r \in Requests : pc'[r] = pc[r] \/ pc'[r] \in {"done", "dead"}
  BY DEF Die, LedgerInv, Inv, TypeOK, PCs
<1>2. Inv'
  BY <1>1, EndInv DEF LedgerInv
<1>3. TotalsInv'
  BY <1>1, TotalsAlone DEF LedgerInv, TotalsInv, SessionsInOrder, Sessions, ledgerVars
<1>4. PayersAgree'
  BY <1>1, PayersAlone DEF LedgerInv, TotalsInv, ledgerVars
<1> QED  BY <1>2, <1>3, <1>4 DEF LedgerInv

-----------------------------------------------------------------------------
(* Batches                                                                    *)

LEMMA BatchesFinite == ASSUME NEW b PROVE IsFiniteSet(InBatch(b)) /\ InBatch(b) \subseteq Requests
<1>1. InBatch(b) \subseteq Requests
  BY DEF InBatch
<1> QED  BY <1>1, RequestsFinite, FS_Subset

(* A new batch is one that is not in use.                                     *)
LEMMA NewBatchFree ==
  ASSUME BooksOK, Cardinality(UsedBatches) < MaxBatches
  PROVE  NewBatch \in Batches \ UsedBatches /\ 1..NewBatch \subseteq UsedBatches \cup {NewBatch}
<1> DEFINE c == Cardinality(UsedBatches)
<1>1. UsedBatches \in SUBSET (1..MaxBatches) /\ MaxBatches \in Nat
  BY WindowBounds DEF UsedBatches, Batches
<1>2. c \in 0..MaxBatches /\ UsedBatches = 1..c
  BY <1>1, FirstOnes DEF BooksOK, UsedBatches
<1> HIDE DEF c
<1>3. NewBatch = 1 + c /\ c < MaxBatches
  BY DEF NewBatch, c
<1> QED  BY <1>1, <1>2, <1>3 DEF Batches

(* A step that leaves the batches, and the recorded calls, as they are.       *)
LEMMA BooksAlone ==
  ASSUME LedgerInv, BookInv, UNCHANGED <<batch, batchOf>>, Shape', WorkOK',
         \A r \in Requests :
           /\ Recorded(r) => row'[r] = row[r] /\ auth'[r] = auth[r]
           /\ row'[r].status = "settled" /\ row[r].status # "settled" => auth'[r].scheme # "batch"
  PROVE  BookInv'
<1>1. BooksOK'
  BY DEF BookInv, BooksOK, UsedBatches, Batches
<1>2. AttachedOK'
  BY DEF BookInv, AttachedOK, Recorded
<1>3. \A b \in UsedBatches : Total(InBatch(b), Booking) = Total(InBatch(b)', Booking')
  <2> SUFFICES ASSUME NEW b \in UsedBatches
               PROVE  Total(InBatch(b), Booking) = Total(InBatch(b)', Booking')
    OBVIOUS
  <2>1. InBatch(b)' = InBatch(b)
    BY DEF InBatch
  <2>2. \A r \in InBatch(b) : Recorded(r)
    BY WindowBounds DEF InBatch, BookInv, AttachedOK, UsedBatches
  <2>3. \A r \in InBatch(b) : Booking[r] = Booking'[r]
    BY <2>2 DEF Booking, InBatch
  <2> QED  BY <2>1, <2>3, TotalAgree
<1>4. GrossAdds'
  <2>1. UsedBatches' = UsedBatches /\ \A b : InBatch(b)' = InBatch(b)
    BY DEF UsedBatches, InBatch
  <2> QED  BY <1>3, <2>1 DEF BookInv, GrossAdds
<1> QED  BY <1>1, <1>2, <1>4 DEF BookInv

(* A step of a settlement that moves one batch on, short of settling it.      *)
LEMMA BooksOnward ==
  ASSUME LedgerInv, BookInv, UNCHANGED <<batchOf, row, auth>>, Shape', WorkOK',
         NEW b \in UsedBatches,
         batch[b].status # "settled", batch'[b].status \notin {"none", "settled"},
         batch'[b].session = batch[b].session, batch'[b].gross = batch[b].gross,
         batch'[b].count = batch[b].count, batch'[b].settleTx = batch[b].settleTx,
         \A c \in Batches \ {b} : batch'[c] = batch[c]
  PROVE  BookInv'
<1>1. UsedBatches' = UsedBatches /\ Booking' = Booking /\ \A c : InBatch(c)' = InBatch(c)
  BY DEF UsedBatches, Booking, InBatch, Batches
<1>2. BooksOK'
  BY <1>1 DEF BookInv, BooksOK, UsedBatches, Batches
<1>3. AttachedOK'
  BY DEF BookInv, AttachedOK, Recorded, Shape, UsedBatches
<1>4. \A c \in UsedBatches : batch'[c].gross = batch[c].gross /\ batch'[c].count = batch[c].count
  BY DEF UsedBatches
<1>5. GrossAdds'
  BY <1>1, <1>4 DEF BookInv, GrossAdds
<1> QED  BY <1>2, <1>3, <1>5 DEF BookInv

LEMMA BookStatus ==
  ASSUME Shape, NEW b \in Batches,
         NEW status \in {"open", "claiming", "claimed", "settling", "settled", "failed"},
         Book(b, status)
  PROVE  /\ batch' \in [Batches -> BatchRecord] /\ \A c \in Batches \ {b} : batch'[c] = batch[c]
         /\ batch'[b].status = status /\ batch'[b].session = batch[b].session
         /\ batch'[b].gross = batch[b].gross /\ batch'[b].count = batch[b].count
         /\ batch'[b].settleTx = batch[b].settleTx
<1>1. batch[b] \in BatchRecord
  BY DEF Shape
<1>2. batch'[b] = [batch[b] EXCEPT !.status = status] /\ \A c \in Batches \ {b} : batch'[c] = batch[c]
  BY DEF Shape, Book
<1>3. /\ batch'[b] \in BatchRecord /\ batch'[b].status = status
      /\ batch'[b].session = batch[b].session /\ batch'[b].gross = batch[b].gross
      /\ batch'[b].count = batch[b].count /\ batch'[b].settleTx = batch[b].settleTx
  BY <1>1, <1>2 DEF BatchRecord
<1>4. batch' \in [Batches -> BatchRecord]
  BY <1>2, <1>3 DEF Shape, Book
<1> QED  BY <1>2, <1>3, <1>4

\* The steps of a settlement short of its last.
SettleStep ==
  \/ \E b \in Batches : StartSettle(b)
  \/ Claim \/ RecordClaim \/ StartSweep \/ Sweep
  \/ \E landed \in BOOLEAN : ClaimFails(landed) \/ SweepFails(landed)

(* All of them leave the ledger, the calls and the receipts alone.            *)
LEMMA SettleStepFrame ==
  ASSUME SettleStep PROVE UNCHANGED <<vars, batchOf, receipt, copy>>
BY DEF SettleStep, StartSettle, Claim, RecordClaim, StartSweep, Sweep, ClaimFails, SweepFails,
       bookVars

LEMMA SettleStepBook ==
  ASSUME LedgerInv, BookInv, SettleStep PROVE BookInv'
<1> USE DEF vars, ledgerVars, bookVars
<1>1. Shape /\ WorkOK /\ UNCHANGED <<row, auth, batchOf, receipt, copy>>
  BY SettleStepFrame DEF BookInv
<1>2. ASSUME NEW b \in Batches, StartSettle(b) PROVE BookInv'
  <2>1. /\ batch[b].status \in {"open", "claimed"} /\ Book(b, "claiming")
        /\ work' = b /\ step' = "claiming" /\ UNCHANGED <<claimed, swept>>
    BY <1>2 DEF StartSettle, chainVars
  <2>2. /\ batch' \in [Batches -> BatchRecord] /\ \A c \in Batches \ {b} : batch'[c] = batch[c]
        /\ batch'[b].status = "claiming" /\ batch'[b].session = batch[b].session
        /\ batch'[b].gross = batch[b].gross /\ batch'[b].count = batch[b].count
        /\ batch'[b].settleTx = batch[b].settleTx
    BY <1>1, <2>1, BookStatus
  <2>3. Shape'
    BY <1>1, <2>1, <2>2, WindowBounds DEF Shape, Steps, Batches, ReceiptRecord, CopyRecord, BatchRecord,
       BodyRecord, Transactions, PayerSet, NoReceipt
  <2>4. WorkOK'
    BY <2>1, <2>2 DEF WorkOK
  <2> QED  BY <1>1, <2>1, <2>2, <2>3, <2>4, BooksOnward DEF UsedBatches
<1>3. ASSUME step # "idle", NEW status \in {"claiming", "claimed", "settling", "failed"},
             Book(work, status) \/ (status = "claimed" /\ batch' =
                 [batch EXCEPT ![work].status = "claimed", ![work].claimTx = Tx("claim", work)]),
             WorkOK', step' \in Steps, work' \in {0, work}, work' = 0 <=> step' = "idle",
             claimed' \subseteq Requests, swept' \subseteq claimed'
      PROVE  BookInv'
  <2>1. PICK b \in Batches : b = work
    BY <1>1, <1>3 DEF Shape
  <2>2. batch[b].status \in {"claiming", "claimed", "settling"} /\ b \in UsedBatches
    BY <1>1, <1>3, <2>1 DEF WorkOK, UsedBatches
  <2>3. /\ batch' \in [Batches -> BatchRecord] /\ \A c \in Batches \ {b} : batch'[c] = batch[c]
        /\ batch'[b].status = status /\ batch'[b].session = batch[b].session
        /\ batch'[b].gross = batch[b].gross /\ batch'[b].count = batch[b].count
        /\ batch'[b].settleTx = batch[b].settleTx
    <3>1. CASE Book(work, status)
      BY <1>1, <2>1, <3>1, BookStatus
    <3>2. CASE status = "claimed" /\ batch' =
                 [batch EXCEPT ![work].status = "claimed", ![work].claimTx = Tx("claim", work)]
      <4>1. Tx("claim", b) \in Transactions /\ batch[b] \in BatchRecord
        BY <1>1 DEF Tx, Transactions, Shape
      <4>2. PICK tx \in Transactions : tx = Tx("claim", b)
        BY <4>1
      <4>3. batch' = [batch EXCEPT ![b] = [batch[b] EXCEPT !.status = "claimed", !.claimTx = tx]]
        BY <1>1, <2>1, <3>2, <4>2 DEF Shape
      <4>4. batch'[b] = [batch[b] EXCEPT !.status = "claimed", !.claimTx = tx]
            /\ \A c \in Batches \ {b} : batch'[c] = batch[c]
        BY <1>1, <4>3 DEF Shape
      <4>5. /\ batch'[b] \in BatchRecord /\ batch'[b].status = "claimed"
            /\ batch'[b].session = batch[b].session /\ batch'[b].gross = batch[b].gross
            /\ batch'[b].count = batch[b].count /\ batch'[b].settleTx = batch[b].settleTx
        BY <4>1, <4>4 DEF BatchRecord
      <4>6. batch' \in [Batches -> BatchRecord]
        BY <1>1, <4>3, <4>4, <4>5 DEF Shape
      <4> QED  BY <3>2, <4>4, <4>5, <4>6
    <3> QED  BY <1>3, <3>1, <3>2
  <2>4. Shape'
    BY <1>1, <1>3, <2>3 DEF Shape, Batches, ReceiptRecord, CopyRecord, BatchRecord, BodyRecord,
       Transactions, PayerSet, NoReceipt, Steps
  <2> QED  BY <1>1, <1>3, <2>2, <2>3, <2>4, BooksOnward
<1>4. ASSUME Claim \/ Sweep PROVE BookInv'
  <2>1. UNCHANGED <<batch, work>> /\ claimed' \subseteq Requests /\ swept' \subseteq claimed'
        /\ step' \in Steps /\ step # "idle" /\ step' # "idle"
    BY <1>1, <1>4 DEF Claim, Claimable, Sweep, Shape, Steps
  <2>2. WorkOK'
    BY <1>1, <1>4, <2>1 DEF Claim, Sweep, WorkOK
  <2>3. Shape'
    BY <1>1, <2>1 DEF Shape, Batches, ReceiptRecord, CopyRecord, BatchRecord, BodyRecord,
       Transactions, PayerSet, NoReceipt, Steps
  <2> QED  BY <1>1, <2>1, <2>2, <2>3, BooksAlone
<1>5. ASSUME NEW landed \in BOOLEAN, ClaimFails(landed) PROVE BookInv'
  <2>1. /\ step # "idle" /\ Book(work, "failed") /\ step' = "idle" /\ work' = 0 /\ swept' = swept
        /\ claimed \subseteq claimed' /\ claimed' \subseteq Requests
    BY <1>1, <1>5 DEF ClaimFails, Claimable, Shape
  <2>2. WorkOK' /\ swept' \subseteq claimed' /\ step' \in Steps
    BY <1>1, <2>1 DEF WorkOK, Shape, Steps
  <2> QED  BY <1>3, <2>1, <2>2
<1>6. ASSUME NEW landed \in BOOLEAN, SweepFails(landed) PROVE BookInv'
  <2>1. /\ step # "idle" /\ Book(work, "claimed") /\ step' = "idle" /\ work' = 0
        /\ claimed' = claimed /\ swept' \in {swept, claimed}
    BY <1>1, <1>6 DEF SweepFails
  <2>2. WorkOK' /\ claimed' \subseteq Requests /\ swept' \subseteq claimed' /\ step' \in Steps
    BY <1>1, <2>1 DEF WorkOK, Shape, Steps
  <2> QED  BY <1>3, <2>1, <2>2
<1>7. ASSUME StartSweep \/ RecordClaim PROVE BookInv'
  <2>1. /\ step # "idle" /\ step' \in Steps /\ step' # "idle" /\ work' = work /\ work # 0
        /\ UNCHANGED <<claimed, swept>>
    BY <1>1, <1>7 DEF StartSweep, RecordClaim, Steps, Shape, chainVars
  <2>2. WorkOK'
    <3>1. work \in Batches /\ batch[work] \in BatchRecord
      BY <1>1, <2>1 DEF Shape
    <3> QED  BY <1>1, <1>7, <2>1, <3>1 DEF StartSweep, RecordClaim, WorkOK, Book, Shape, BatchRecord
  <2>3. claimed' \subseteq Requests /\ swept' \subseteq claimed'
    BY <1>1, <2>1 DEF Shape
  <2>4. CASE StartSweep
    BY <1>3, <2>1, <2>2, <2>3, <2>4 DEF StartSweep
  <2>5. CASE RecordClaim
    BY <1>3, <2>1, <2>2, <2>3, <2>5 DEF RecordClaim
  <2> QED  BY <1>7, <2>4, <2>5
<1> QED  BY <1>2, <1>4, <1>5, <1>6, <1>7 DEF SettleStep

-----------------------------------------------------------------------------
(* Receipts                                                                   *)

(* A receipt repeats the call it is issued for.                               *)
LEMMA IssueFields ==
  ASSUME NEW call, call.id \in Requests, call.authorized \in Nat, call.captured \in Nat,
         call.payer \in PayerSet, NEW mode \in {"per_call", "batched"}, NEW tx \in Transactions,
         NEW attested \in BOOLEAN
  PROVE  LET rc == Issue(call, mode, tx, attested)
         IN  /\ rc \in ReceiptRecord
             /\ rc.issued /\ rc.parses /\ rc.bodyHash = rc.body /\ rc.batch = 0
             /\ rc.captured = call.captured /\ rc.authorized = call.authorized
             /\ rc.payer = call.payer /\ rc.tx = tx
             /\ rc.body.captured = call.captured /\ rc.body.authorized = call.authorized
             /\ rc.body.payer = call.payer /\ rc.body.transaction = tx
             /\ rc.body.settlement = mode
<1>1. PICK body : body = Body(call, mode, tx, attested)
  OBVIOUS
<1>2. /\ body \in BodyRecord
      /\ body.captured = call.captured /\ body.authorized = call.authorized
      /\ body.payer = call.payer /\ body.transaction = tx /\ body.settlement = mode
  BY <1>1 DEF Body, BodyRecord
<1>3. Issue(call, mode, tx, attested) =
        [issued |-> TRUE, body |-> body, bodyHash |-> body, parses |-> TRUE,
         authorized |-> call.authorized, captured |-> call.captured, payer |-> call.payer,
         tx |-> tx, attested |-> attested, batch |-> 0]
  BY <1>1 DEF Issue, Digest
<1> QED  BY <1>2, <1>3 DEF ReceiptRecord

(* Serving a request issues the receipt of the call it captures, if any.      *)
LEMMA ServeReceipts ==
  ASSUME LedgerInv, LedgerInv', Shape, NEW r \in Requests, NEW attested \in BOOLEAN,
         ServeAndIssue(r, attested)
  PROVE  /\ \A q \in Requests \ {r} : receipt'[q] = receipt[q] /\ copy'[q] = copy[q]
         /\ ~Capture(r) => receipt' = receipt /\ copy' = copy
         /\ Capture(r) => LET rc == receipt'[r]
                          IN  /\ rc \in ReceiptRecord
                              /\ rc.issued /\ rc.parses /\ rc.bodyHash = rc.body /\ rc.batch = 0
                              /\ rc.captured = row'[r].captured /\ rc.authorized = auth[r].ceiling
                              /\ rc.payer = auth[r].payer
                              /\ rc.body.captured = row'[r].captured
                              /\ rc.body.authorized = auth[r].ceiling
                              /\ rc.body.payer = auth[r].payer /\ rc.body.settlement = Mode(r)
                              /\ rc.tx = IF Settles(r) THEN Tx("call", r) ELSE NoTx
                              /\ rc.body.transaction = rc.tx
                              /\ copy'[r] = Fetched(rc) \/ rc = receipt[r]
<1>1. /\ receipt' = [receipt EXCEPT ![r] = Issued(r, attested)]
      /\ copy' = [copy EXCEPT ![r] = IF receipt'[r] = receipt[r] THEN @ ELSE Fetched(receipt'[r])]
      /\ Serve(r) /\ receipt'[r] = Issued(r, attested)
  BY DEF ServeAndIssue, Shape
<1>2. \A q \in Requests \ {r} : receipt'[q] = receipt[q] /\ copy'[q] = copy[q]
  BY <1>1 DEF Shape
<1>3. ASSUME ~Capture(r) PROVE receipt' = receipt /\ copy' = copy
  <2>1. row'[r].status \in {"none", "verified", "declined", "failed"}
    BY <1>1, <1>3, ServeAlone DEF LedgerInv
  <2>2. receipt'[r] = receipt[r]
    BY <1>1, <2>1 DEF Issued
  <2> QED  BY <1>1, <2>2 DEF Shape
<1>4. ASSUME Capture(r)
      PROVE  LET rc == receipt'[r]
             IN  /\ rc \in ReceiptRecord
                 /\ rc.issued /\ rc.parses /\ rc.bodyHash = rc.body /\ rc.batch = 0
                 /\ rc.captured = row'[r].captured /\ rc.authorized = auth[r].ceiling
                 /\ rc.payer = auth[r].payer
                 /\ rc.body.captured = row'[r].captured
                 /\ rc.body.authorized = auth[r].ceiling
                 /\ rc.body.payer = auth[r].payer /\ rc.body.settlement = Mode(r)
                 /\ rc.tx = IF Settles(r) THEN Tx("call", r) ELSE NoTx
                 /\ rc.body.transaction = rc.tx
                 /\ copy'[r] = Fetched(rc) \/ rc = receipt[r]
  <2>1. PICK call, mode, tx : call = CallView(r) /\ mode = Mode(r)
                              /\ tx = IF Settles(r) THEN Tx("call", r) ELSE NoTx
    OBVIOUS
  <2>2. /\ row[r].status = "verified" /\ row'[r].status \in {"captured", "settled"}
        /\ UNCHANGED auth /\ row'[r].captured \in Nat
    BY <1>4, CaptureRow DEF LedgerInv
  <2>3. receipt'[r] = Issue(call, mode, tx, attested)
    BY <1>1, <2>1, <2>2 DEF Issued
  <2>4. /\ call.id = r /\ call.authorized = auth[r].ceiling /\ call.captured = row'[r].captured
        /\ call.payer = auth[r].payer
    BY <2>1 DEF CallView
  <2>5. auth[r].ceiling \in Nat /\ auth[r].payer \in PayerSet
    BY AuthTyped DEF LedgerInv, Inv, PayerSet
  <2>6. mode \in {"per_call", "batched"} /\ tx \in Transactions
    BY <2>1 DEF Mode, Tx, NoTx, Transactions
  <2>7. PICK rc : rc = receipt'[r]
    OBVIOUS
  <2>8. /\ rc \in ReceiptRecord
        /\ rc.issued /\ rc.parses /\ rc.bodyHash = rc.body /\ rc.batch = 0
        /\ rc.captured = row'[r].captured /\ rc.authorized = auth[r].ceiling
        /\ rc.payer = auth[r].payer /\ rc.tx = tx
        /\ rc.body.captured = row'[r].captured /\ rc.body.authorized = auth[r].ceiling
        /\ rc.body.payer = auth[r].payer /\ rc.body.transaction = tx
        /\ rc.body.settlement = mode
    BY <2>2, <2>3, <2>4, <2>5, <2>6, <2>7, IssueFields
  <2>9. copy'[r] = Fetched(rc) \/ rc = receipt[r]
    BY <1>1, <2>7 DEF Shape
  <2> QED  BY <2>1, <2>7, <2>8, <2>9
<1> QED  BY <1>2, <1>3, <1>4

-----------------------------------------------------------------------------
(* Closing a window, and its last step                                        *)

\* The calls a window closes on are captured vouchers of one session in use.
LEMMA PendingCalls ==
  ASSUME LedgerInv, Shape, NEW s \in Sessions
  PROVE  /\ Pending(s) \subseteq Requests /\ IsFiniteSet(Pending(s))
         /\ \A r \in Pending(s) : /\ row[r].status = "captured" /\ row[r].session = s
                                  /\ batchOf[r] = 0 /\ auth[r].scheme = "batch"
         /\ Gross(Pending(s)) = Total(Pending(s), Booking) /\ Gross(Pending(s)) \in Nat
         /\ Cardinality(Pending(s)) \in Nat
         /\ Pending(s) # {} => session[s].status # "none"
<1>1. Pending(s) \subseteq Requests /\ IsFiniteSet(Pending(s))
  BY RequestsFinite, FS_Subset DEF Pending
<1>2. Gross(Pending(s)) = Total(Pending(s), Booking)
  BY DEF Gross, Booking
<1>3. \A r \in Pending(s) : Booking[r] \in Nat
  BY <1>1 DEF Booking, LedgerInv, Inv, TypeOK, RowRecord
<1>4. Total(Pending(s), Booking) \in Nat
  BY <1>1, <1>3, TotalType
<1> QED  BY <1>1, <1>2, <1>4, FS_CardinalityType
            DEF Pending, LedgerInv, PayersAgree, TotalsInv, SessionsInOrder

LEMMA CloseWindowBook ==
  ASSUME LedgerInv, BookInv, NEW s \in Sessions, NEW elapsed, NEW force, CloseWindow(s, elapsed, force)
  PROVE  BookInv'
<1>0. PICK b, new : /\ b = NewBatch
                    /\ new = [NoBatch EXCEPT !.status = "open", !.session = s,
                                             !.gross = Gross(Pending(s)),
                                             !.count = Cardinality(Pending(s))]
  OBVIOUS
<1>1. /\ Pending(s) # {} /\ batch' = [batch EXCEPT ![b] = new]
      /\ batchOf' = [r \in Requests |-> IF r \in Pending(s) THEN b ELSE batchOf[r]]
      /\ UNCHANGED <<row, auth, copy, step, work, claimed, swept>>
  BY <1>0 DEF CloseWindow, requestVars, settleVars, chainVars
<1>2. b \in Batches \ UsedBatches /\ 1..b \subseteq UsedBatches \cup {b} /\ b # 0
  BY <1>0, NewBatchFree, WindowBounds DEF CloseWindow, BookInv
<1>3. Shape /\ BooksOK /\ WorkOK /\ AttachedOK /\ GrossAdds
  BY DEF BookInv
<1>4. new = [status |-> "open", session |-> s, gross |-> Gross(Pending(s)),
             count |-> Cardinality(Pending(s)), claimTx |-> NoTx, settleTx |-> NoTx]
      /\ new \in BatchRecord
  BY <1>0, <1>3, PendingCalls DEF NoBatch, BatchRecord, Transactions, NoTx
<1>5. batch'[b] = new /\ \A c \in Batches \ {b} : batch'[c] = batch[c]
  BY <1>1, <1>2, <1>3 DEF Shape
<1>6. UsedBatches' = UsedBatches \cup {b} /\ Booking' = Booking
  BY <1>1, <1>2, <1>4, <1>5 DEF UsedBatches, Booking, Batches
<1>7. /\ InBatch(b)' = Pending(s)
      /\ \A c \in UsedBatches : InBatch(c)' = InBatch(c)
  <2>1. \A r \in Requests : batchOf[r] # b
    BY <1>2, <1>3 DEF AttachedOK, UsedBatches
  <2>2. \A c \in UsedBatches : c # 0 /\ c # b
    BY <1>2, WindowBounds DEF UsedBatches
  <2>3. \A r \in Pending(s) : r \in Requests /\ batchOf[r] = 0
    BY <1>3, PendingCalls
  <2> QED  BY <1>1, <2>1, <2>2, <2>3 DEF InBatch
<1>8. Shape'
  <2>1. batch' \in [Batches -> BatchRecord]
    BY <1>1, <1>3, <1>4 DEF Shape
  <2>2. batchOf' \in [Requests -> Batches \cup {0}]
    BY <1>1, <1>2, <1>3 DEF Shape
  <2>3. receipt' \in [Requests -> ReceiptRecord \cup {NoReceipt}]
    <3> SUFFICES ASSUME NEW r \in Requests PROVE receipt'[r] \in ReceiptRecord \cup {NoReceipt}
      BY DEF CloseWindow
    <3>1. receipt[r] \in ReceiptRecord \cup {NoReceipt}
      BY <1>3 DEF Shape
    <3>2. receipt'[r] = IF r \in Pending(s) /\ receipt[r].issued
                          THEN [receipt[r] EXCEPT !.batch = b] ELSE receipt[r]
      BY <1>0 DEF CloseWindow
    <3>3. CASE receipt[r] \in ReceiptRecord
      BY <1>2, <3>2, <3>3 DEF ReceiptRecord
    <3>4. CASE receipt[r] = NoReceipt
      BY <3>2, <3>4 DEF NoReceipt
    <3> QED  BY <3>1, <3>3, <3>4
  <2> QED
    BY <1>1, <1>3, <2>1, <2>2, <2>3 DEF Shape, Batches, ReceiptRecord, CopyRecord, BatchRecord,
       BodyRecord, Transactions, PayerSet, NoReceipt
<1>9. BooksOK'
  <2>1. \A c \in UsedBatches : 1..c \subseteq UsedBatches'
    BY <1>3, <1>6 DEF BooksOK, UsedBatches
  <2>2. 1..b \subseteq UsedBatches'
    BY <1>2, <1>6
  <2>3. \A c \in UsedBatches' : \E r \in Requests : batchOf'[r] = c
    <3>1. \E r \in Requests : batchOf'[r] = b
      BY <1>1, <1>3, PendingCalls
    <3>2. ASSUME NEW c \in UsedBatches PROVE \E r \in Requests : batchOf'[r] = c
      <4>1. PICK r \in Requests : batchOf[r] = c
        BY <1>3 DEF BooksOK, UsedBatches
      <4>2. r \notin Pending(s)
        BY <4>1, WindowBounds DEF Pending, UsedBatches
      <4> QED  BY <1>1, <4>1, <4>2
    <3> QED  BY <1>6, <3>1, <3>2
  <2>4. \A c \in Batches : batch'[c].status # "none" => c \in UsedBatches'
    BY DEF UsedBatches, Batches
  <2>5. \A c \in Batches :
          batch'[c].settleTx = IF batch'[c].status = "settled" THEN Tx("sweep", c) ELSE NoTx
    BY <1>3, <1>4, <1>5 DEF BooksOK
  <2> QED  BY <1>6, <2>1, <2>2, <2>3, <2>4, <2>5 DEF BooksOK, Batches
<1>10. WorkOK'
  <2>1. step # "idle" => work \in UsedBatches
    BY <1>3 DEF WorkOK, UsedBatches, Shape
  <2> QED  BY <1>1, <1>2, <1>3, <1>5, <2>1 DEF WorkOK, UsedBatches
<1>11. AttachedOK'
  <2>1. ASSUME NEW r \in Pending(s)
        PROVE  /\ r \in Requests /\ batchOf'[r] = b /\ row[r].session = s /\ auth[r].scheme = "batch"
               /\ row[r].status = "captured"
    BY <1>1, <1>3, PendingCalls
  <2>2. ASSUME NEW r \in Requests, r \notin Pending(s), batchOf[r] # 0
        PROVE  batchOf'[r] = batchOf[r] /\ batch'[batchOf[r]] = batch[batchOf[r]]
    BY <1>1, <1>2, <1>3, <1>5, <2>2 DEF AttachedOK, UsedBatches, Shape
  <2>3. \A r \in Requests : r \notin Pending(s) => batchOf'[r] = batchOf[r]
    BY <1>1
  <2> SUFFICES ASSUME NEW r \in Requests
               PROVE  /\ batchOf'[r] # 0 =>
                           /\ batch'[batchOf'[r]].status # "none"
                           /\ row[r].session = batch'[batchOf'[r]].session
                           /\ auth[r].scheme = "batch" /\ Recorded(r)
                           /\ (row[r].status = "settled" <=> batch'[batchOf'[r]].status = "settled")
                      /\ row[r].status = "settled" /\ auth[r].scheme = "batch" => batchOf'[r] # 0
    BY <1>1 DEF AttachedOK, Recorded
  <2>4. CASE r \in Pending(s)
    BY <1>2, <1>4, <1>5, <2>1, <2>4 DEF Recorded
  <2>5. CASE r \notin Pending(s)
    BY <1>3, <2>2, <2>3, <2>5 DEF AttachedOK
  <2> QED  BY <2>4, <2>5
<1>12. GrossAdds'
  <2>1. batch'[b].gross = Total(InBatch(b)', Booking') /\ batch'[b].count = Cardinality(InBatch(b)')
    BY <1>3, <1>4, <1>5, <1>6, <1>7, PendingCalls
  <2>2. ASSUME NEW c \in UsedBatches
        PROVE  batch'[c].gross = Total(InBatch(c)', Booking') /\ batch'[c].count = Cardinality(InBatch(c)')
    <3>1. c \in Batches \ {b}
      BY <1>2 DEF UsedBatches
    <3> QED  BY <1>3, <1>5, <1>6, <1>7, <3>1 DEF GrossAdds
  <2> QED  BY <1>6, <2>1, <2>2 DEF GrossAdds
<1> QED  BY <1>8, <1>9, <1>10, <1>11, <1>12 DEF BookInv

\* The batch that is finished, and its calls, captured until now.
LEMMA FinishCalls ==
  ASSUME LedgerInv, BookInv, Finish
  PROVE  /\ work \in UsedBatches /\ work # 0 /\ batch[work].status = "settling"
         /\ batch[work].session \in Sessions /\ session[batch[work].session].status # "none"
         /\ batch[work].gross = Total(InBatch(work), Booking)
         /\ \A r \in InBatch(work) : /\ r \in Requests /\ row[r].status = "captured"
                                     /\ row[r].session = batch[work].session
<1>1. work \in Batches /\ work # 0 /\ batch[work].status = "settling"
  BY WindowBounds DEF Finish, BookInv, Shape, WorkOK
<1>2. work \in UsedBatches
  BY <1>1 DEF UsedBatches
<1>3. PICK r \in Requests : batchOf[r] = work
  BY <1>1 DEF BookInv, BooksOK
<1>4. row[r].session = batch[work].session /\ row[r].status # "none"
  BY <1>1, <1>3 DEF BookInv, AttachedOK, Recorded
<1>5. batch[work].session \in Sessions /\ session[batch[work].session].status # "none"
  BY <1>4 DEF LedgerInv, TotalsInv, SessionsInOrder
<1>6. \A q \in InBatch(work) : /\ q \in Requests /\ row[q].status = "captured"
                               /\ row[q].session = batch[work].session
  BY <1>1 DEF InBatch, BookInv, AttachedOK, Recorded
<1> QED  BY <1>1, <1>2, <1>5, <1>6 DEF BookInv, GrossAdds

LEMMA FinishLedger ==
  ASSUME LedgerInv, BookInv, Finish PROVE LedgerInv'
<1>1. PICK s, calls : s = batch[work].session /\ calls = InBatch(work)
  OBVIOUS
<1>2. /\ s \in Sessions /\ session[s].status # "none" /\ batch[work].gross = Total(calls, Booking)
      /\ calls \in SUBSET {r \in Requests : row[r].status = "captured" /\ row[r].session = s}
  BY <1>1, FinishCalls
<1>3. PICK status \in {"open", "settled"} :
        status = IF session[s].settled + Total(calls, Booking) >= session[s].captured
                   THEN "settled" ELSE "open"
  OBVIOUS
<1>4. session' = [session EXCEPT ![s] =
         [@ EXCEPT !.settled = session[s].settled + Total(calls, Booking), !.status = status]]
  <2>1. session' = [session EXCEPT ![s] = SessionAfter(s, Total(calls, Booking))]
    BY <1>1, <1>2 DEF Finish
  <2>2. SessionAfter(s, Total(calls, Booking)) =
          [session[s] EXCEPT !.settled = session[s].settled + Total(calls, Booking), !.status = status]
    BY <1>3 DEF SessionAfter
  <2>3. session \in [Sessions -> SessionRecord]
    BY DEF LedgerInv, Inv, TypeOK
  <2> QED  BY <1>2, <2>1, <2>2, <2>3
<1>5. /\ row' = [r \in Requests |-> IF r \in calls THEN [row[r] EXCEPT !.status = "settled"] ELSE row[r]]
      /\ UNCHANGED <<pc, auth, reading, answer, moved, overlapped, tool>>
  BY <1>1 DEF Finish, requestVars
<1> QED  BY <1>2, <1>4, <1>5, SettlingLedger

(* What finishing a batch does to the calls and the batches.                  *)
LEMMA FinishRows ==
  ASSUME LedgerInv, BookInv, Finish
  PROVE  /\ UNCHANGED <<auth, moved, batchOf, copy, claimed, swept>> /\ step' = "idle" /\ work' = 0
         /\ \A r \in InBatch(work) :
              /\ row'[r].status = "settled" /\ row'[r].session = row[r].session
              /\ row'[r].captured = row[r].captured
         /\ \A r \in Requests \ InBatch(work) : row'[r] = row[r]
         /\ batch' \in [Batches -> BatchRecord]
         /\ batch'[work].status = "settled" /\ batch'[work].settleTx = Tx("sweep", work)
         /\ batch'[work].session = batch[work].session /\ batch'[work].gross = batch[work].gross
         /\ batch'[work].count = batch[work].count
         /\ \A c \in Batches \ {work} : batch'[c] = batch[c]
<1>1. UNCHANGED <<auth, moved, batchOf, copy, claimed, swept>> /\ step' = "idle" /\ work' = 0
  BY DEF Finish, requestVars, chainVars
<1>2. \A r \in InBatch(work) : r \in Requests /\ row[r] \in RowRecord
  BY FinishCalls DEF LedgerInv, Inv, TypeOK
<1>3. row' = [r \in Requests |->
        IF r \in InBatch(work) THEN [row[r] EXCEPT !.status = "settled"] ELSE row[r]]
  BY DEF Finish
<1>4. \A r \in InBatch(work) :
        /\ row'[r].status = "settled" /\ row'[r].session = row[r].session
        /\ row'[r].captured = row[r].captured
  <2> SUFFICES ASSUME NEW r \in InBatch(work)
               PROVE  /\ row'[r].status = "settled" /\ row'[r].session = row[r].session
                      /\ row'[r].captured = row[r].captured
    OBVIOUS
  <2>1. row'[r] = [row[r] EXCEPT !.status = "settled"]
    BY <1>2, <1>3
  <2> QED  BY <1>2, <2>1 DEF RowRecord
<1>5. \A r \in Requests \ InBatch(work) : row'[r] = row[r]
  BY <1>3
<1>6. PICK b \in Batches, tx \in Transactions : b = work /\ tx = Tx("sweep", work)
  <2>1. work \in Batches
    BY FinishCalls DEF UsedBatches
  <2> QED  BY <2>1 DEF Tx, Transactions
<1>7. batch[b] \in BatchRecord /\ batch \in [Batches -> BatchRecord]
  BY DEF BookInv, Shape
<1>8. batch' = [batch EXCEPT ![b] = [batch[b] EXCEPT !.status = "settled", !.settleTx = tx]]
  BY <1>6, <1>7 DEF Finish
<1>9. batch'[b] = [batch[b] EXCEPT !.status = "settled", !.settleTx = tx]
      /\ \A c \in Batches \ {b} : batch'[c] = batch[c]
  BY <1>7, <1>8
<1>10. /\ batch'[b] \in BatchRecord
       /\ batch'[b].status = "settled" /\ batch'[b].settleTx = tx
       /\ batch'[b].session = batch[b].session /\ batch'[b].gross = batch[b].gross
       /\ batch'[b].count = batch[b].count
  BY <1>7, <1>9 DEF BatchRecord
<1>11. batch' \in [Batches -> BatchRecord]
  BY <1>7, <1>8, <1>9, <1>10
<1> QED  BY <1>1, <1>4, <1>5, <1>6, <1>9, <1>10, <1>11

(* A settled batch's transaction is put on a receipt and into its body, and   *)
(* nothing they say of the call changes.                                      *)
LEMMA AttachFields ==
  ASSUME NEW rc \in ReceiptRecord, NEW b \in Batches, NEW tx \in Transactions
  PROVE  LET to == Attach(rc, b, tx)
         IN  /\ to \in ReceiptRecord
             /\ to.parses = rc.parses /\ to.captured = rc.captured
             /\ to.authorized = rc.authorized /\ to.payer = rc.payer /\ to.batch = rc.batch
             /\ to.body.captured = rc.body.captured /\ to.body.authorized = rc.body.authorized
             /\ to.body.payer = rc.body.payer
             /\ rc.parses => /\ to.tx = tx /\ to.body.transaction = tx /\ to.bodyHash = to.body
                             /\ to.body.settlement = "batched"
             /\ ~rc.parses => to = rc
<1>1. PICK body : body = [rc.body EXCEPT !.transaction = tx, !.settlement = "batched",
                                         !.batch = b, !.settledAt = TRUE]
  OBVIOUS
<1>2. rc.body \in BodyRecord
  BY DEF ReceiptRecord
<1>3. /\ body \in BodyRecord /\ body.transaction = tx /\ body.settlement = "batched"
      /\ body.captured = rc.body.captured /\ body.authorized = rc.body.authorized
      /\ body.payer = rc.body.payer
  BY <1>1, <1>2 DEF BodyRecord
<1>4. PICK to : to = Attach(rc, b, tx)
  OBVIOUS
<1>5. to = IF rc.parses THEN [rc EXCEPT !.body = body, !.bodyHash = body, !.tx = tx] ELSE rc
  BY <1>1, <1>4 DEF Attach, Digest
<1>6. CASE rc.parses
  <2>1. to = [rc EXCEPT !.body = body, !.bodyHash = body, !.tx = tx]
    BY <1>5, <1>6
  <2>2. /\ to.body = body /\ to.bodyHash = body /\ to.tx = tx /\ to.parses = rc.parses
        /\ to.captured = rc.captured /\ to.authorized = rc.authorized /\ to.payer = rc.payer
        /\ to.batch = rc.batch /\ to \in ReceiptRecord
    BY <1>3, <2>1 DEF ReceiptRecord
  <2> QED  BY <1>3, <1>4, <1>6, <2>2
<1>7. CASE ~rc.parses
  BY <1>4, <1>5, <1>7
<1> QED  BY <1>6, <1>7 DEF ReceiptRecord

LEMMA FinishReceipts ==
  ASSUME LedgerInv, BookInv, Finish, NEW r \in Requests
  PROVE  receipt'[r] = IF receipt[r].issued /\ receipt[r].batch = work
                         THEN Attach(receipt[r], work, Tx("sweep", work)) ELSE receipt[r]
BY DEF Finish

LEMMA FinishBook ==
  ASSUME LedgerInv, BookInv, Finish PROVE BookInv'
<1>1. Shape /\ BooksOK /\ AttachedOK /\ GrossAdds /\ work \in UsedBatches /\ work \in Batches
  BY FinishCalls DEF BookInv, UsedBatches
<1>2. Shape'
  <2>1. receipt' \in [Requests -> ReceiptRecord \cup {NoReceipt}]
    <3>1. ASSUME NEW r \in Requests PROVE receipt'[r] \in ReceiptRecord \cup {NoReceipt}
      <4>1. CASE receipt[r] = NoReceipt
        BY <4>1, FinishReceipts DEF NoReceipt
      <4>2. CASE receipt[r] \in ReceiptRecord
        <5>1. PICK tx \in Transactions : tx = Tx("sweep", work)
          BY <1>1 DEF Transactions, Tx
        <5>2. Attach(receipt[r], work, tx) \in ReceiptRecord
          BY <1>1, <4>2, AttachFields
        <5> QED  BY <4>2, <5>1, <5>2, FinishReceipts
      <4> QED  BY <1>1, <4>1, <4>2 DEF Shape
    <3>2. receipt' = [r \in Requests |-> receipt'[r]]
      BY DEF Finish
    <3> QED  BY <3>1, <3>2
  <2>2. "idle" \in Steps
    BY DEF Steps
  <2>3. /\ batch' \in [Batches -> BatchRecord] /\ UNCHANGED <<batchOf, copy, claimed, swept>>
        /\ step' = "idle" /\ work' = 0
    BY FinishRows
  <2> QED
    BY <1>1, <2>1, <2>2, <2>3 DEF Shape, Batches, ReceiptRecord, CopyRecord, BatchRecord,
       BodyRecord, Transactions, PayerSet, NoReceipt
<1>3. UsedBatches' = UsedBatches /\ (\A c : InBatch(c)' = InBatch(c))
      /\ \A r \in Requests : Booking'[r] = Booking[r]
  <2>1. \A c \in Batches : batch'[c].status = "none" <=> batch[c].status = "none"
    BY <1>1, FinishRows DEF UsedBatches
  <2>2. UsedBatches' = UsedBatches
    BY <2>1 DEF UsedBatches, Batches
  <2>3. \A r \in Requests : Booking'[r] = Booking[r]
    BY FinishRows DEF Booking
  <2> QED  BY <2>2, <2>3, FinishRows DEF InBatch
<1>4. BooksOK'
  <2>1. \A c \in Batches : batch'[c].status # "none" <=> batch[c].status # "none"
    BY <1>1, FinishRows DEF UsedBatches
  <2>2. \A c \in Batches :
          batch'[c].settleTx = IF batch'[c].status = "settled" THEN Tx("sweep", c) ELSE NoTx
    BY <1>1, FinishRows DEF BooksOK
  <2> QED  BY <1>1, <1>3, <2>1, <2>2, FinishRows DEF BooksOK, Batches
<1>5. WorkOK'
  BY FinishRows DEF WorkOK
<1>6. AttachedOK'
  <2> SUFFICES ASSUME NEW r \in Requests
               PROVE  /\ batchOf'[r] # 0 =>
                           /\ batch'[batchOf'[r]].status # "none"
                           /\ row'[r].session = batch'[batchOf'[r]].session
                           /\ auth'[r].scheme = "batch" /\ Recorded(r)'
                           /\ (row'[r].status = "settled" <=> batch'[batchOf'[r]].status = "settled")
                      /\ row'[r].status = "settled" /\ auth'[r].scheme = "batch" => batchOf'[r] # 0
    BY DEF AttachedOK
  <2>1. batchOf' = batchOf /\ auth' = auth
    BY FinishRows
  <2>2. CASE r \in InBatch(work)
    BY <1>1, <2>1, <2>2, FinishRows, FinishCalls DEF InBatch, AttachedOK, Recorded
  <2>3. CASE r \notin InBatch(work)
    <3>1. row'[r] = row[r] /\ batchOf[r] # work
      BY <2>3, FinishRows DEF InBatch
    <3>2. batchOf[r] # 0 => batch'[batchOf[r]] = batch[batchOf[r]]
      BY <1>1, <3>1, FinishRows DEF Shape
    <3> QED  BY <1>1, <2>1, <3>1, <3>2 DEF AttachedOK, Recorded
  <2> QED  BY <2>2, <2>3
<1>7. GrossAdds'
  <2>1. \A c \in Batches : batch'[c].gross = batch[c].gross /\ batch'[c].count = batch[c].count
    BY FinishRows
  <2>2. ASSUME NEW c PROVE Total(InBatch(c), Booking) = Total(InBatch(c), Booking')
    <3>1. \A r \in InBatch(c) : Booking[r] = Booking'[r]
      BY <1>3 DEF InBatch
    <3> QED  BY <3>1, TotalAgree
  <2> QED  BY <1>1, <1>3, <2>1, <2>2 DEF GrossAdds, UsedBatches
<1> QED  BY <1>2, <1>4, <1>5, <1>6, <1>7 DEF BookInv

-----------------------------------------------------------------------------
(* Every step keeps the ledger and the books                                  *)

LEMMA ServeBook ==
  ASSUME LedgerInv, LedgerInv', BookInv, NEW r \in Requests, NEW attested \in BOOLEAN,
         ServeAndIssue(r, attested)
  PROVE  BookInv'
<1>1. Serve(r) /\ UNCHANGED <<batch, batchOf, step, work, claimed, swept>> /\ Shape
  BY DEF ServeAndIssue, settleVars, chainVars, BookInv
<1>2. \A q \in Requests \ {r} : receipt'[q] = receipt[q] /\ copy'[q] = copy[q]
  BY <1>1, ServeReceipts
<1>3. /\ receipt'[r] \in ReceiptRecord \cup {NoReceipt} /\ copy'[r] \in CopyRecord \cup {NoReceipt}
  <2>1. CASE ~Capture(r)
    <3>1. receipt' = receipt /\ copy' = copy
      BY <1>1, <2>1, ServeReceipts
    <3> QED  BY <1>1, <3>1 DEF Shape
  <2>2. CASE Capture(r)
    <3>1. receipt'[r] \in ReceiptRecord
      BY <1>1, <2>2, ServeReceipts
    <3>2. Fetched(receipt'[r]) \in CopyRecord
      BY <3>1 DEF Fetched, CopyRecord, ReceiptRecord
    <3>3. copy'[r] \in {copy[r], Fetched(receipt'[r])}
      BY <1>1 DEF ServeAndIssue, Shape
    <3> QED  BY <1>1, <3>1, <3>2, <3>3 DEF Shape
  <2> QED  BY <2>1, <2>2
<1>4. Shape'
  <2>1. /\ receipt' \in [Requests -> ReceiptRecord \cup {NoReceipt}]
        /\ copy' \in [Requests -> CopyRecord \cup {NoReceipt}]
    <3>1. receipt' = [q \in Requests |-> receipt'[q]] /\ copy' = [q \in Requests |-> copy'[q]]
      BY <1>1 DEF ServeAndIssue, Shape
    <3>2. \A q \in Requests : /\ receipt'[q] \in ReceiptRecord \cup {NoReceipt}
                              /\ copy'[q] \in CopyRecord \cup {NoReceipt}
      BY <1>1, <1>2, <1>3 DEF Shape
    <3> QED  BY <3>1, <3>2
  <2> QED  BY <1>1, <2>1 DEF Shape, Batches, ReceiptRecord, CopyRecord, BatchRecord, BodyRecord,
              Transactions, PayerSet, NoReceipt
<1>5. WorkOK'
  BY <1>1 DEF BookInv, WorkOK
<1> QED  BY <1>1, <1>4, <1>5, BooksAlone, ServeKeeps DEF LedgerInv

LEMMA DieBook ==
  ASSUME LedgerInv, BookInv, Die PROVE BookInv'
<1>1. UNCHANGED <<batch, batchOf, receipt, copy, claimed, swept>> /\ step' = "idle" /\ work' = 0
  BY DEF Die, bookVars, chainVars
<1>2. Shape'
  BY <1>1 DEF BookInv, Shape, Steps, Batches, ReceiptRecord, CopyRecord, BatchRecord, BodyRecord,
     Transactions, PayerSet, NoReceipt
<1>3. WorkOK'
  BY <1>1 DEF WorkOK
<1> QED  BY <1>1, <1>2, <1>3, BooksAlone, ServeKeeps DEF LedgerInv

LEMMA DamageBook ==
  ASSUME LedgerInv, BookInv, NEW r \in Requests, Damage(r) PROVE BookInv'
<1>1. UNCHANGED <<row, auth, batch, batchOf, copy, step, work, claimed, swept>>
      /\ receipt' = [receipt EXCEPT ![r].parses = FALSE] /\ receipt[r].issued
  BY DEF Damage, vars, ledgerVars, chainVars
<1>2. receipt[r] \in ReceiptRecord /\ receipt \in [Requests -> ReceiptRecord \cup {NoReceipt}]
  BY <1>1 DEF BookInv, Shape, NoReceipt
<1>3. receipt' = [receipt EXCEPT ![r] = [receipt[r] EXCEPT !.parses = FALSE]]
  BY <1>1, <1>2
<1>4. [receipt[r] EXCEPT !.parses = FALSE] \in ReceiptRecord
  BY <1>2 DEF ReceiptRecord
<1>5. receipt' \in [Requests -> ReceiptRecord \cup {NoReceipt}]
  BY <1>2, <1>3, <1>4
<1>6. Shape'
  BY <1>1, <1>5 DEF BookInv, Shape, Batches, ReceiptRecord, CopyRecord, BatchRecord, BodyRecord,
     Transactions, PayerSet, NoReceipt
<1>7. WorkOK'
  BY <1>1 DEF BookInv, WorkOK
<1> QED  BY <1>1, <1>6, <1>7, BooksAlone

LEMMA InitBook == WindowInit => LedgerInv /\ BookInv
<1> SUFFICES ASSUME WindowInit PROVE LedgerInv /\ BookInv
  OBVIOUS
<1>1. LedgerInv
  BY InitInv, InitTotals, InitPayers DEF WindowInit, LedgerInv
<1>2. Shape
  <2>1. NoBatch \in BatchRecord
    BY DEF NoBatch, BatchRecord, NoTx, Transactions
  <2> QED  BY <2>1 DEF WindowInit, Shape, Steps
<1>3. \A b \in Batches : batch[b].status = "none" /\ batch[b].settleTx = NoTx
  BY DEF WindowInit, NoBatch
<1>4. BooksOK /\ WorkOK /\ GrossAdds
  BY <1>3 DEF WindowInit, BooksOK, WorkOK, GrossAdds, UsedBatches
<1>5. AttachedOK
  BY DEF WindowInit, Init, NoRow, AttachedOK
<1> QED  BY <1>1, <1>2, <1>4, <1>5 DEF BookInv

LEMMA NextBook ==
  ASSUME LedgerInv, BookInv, [WindowNext]_windowVars
  PROVE  LedgerInv' /\ BookInv'
<1>1. ASSUME NEW r \in Requests, NEW attested \in BOOLEAN, ServeAndIssue(r, attested)
      PROVE  LedgerInv' /\ BookInv'
  <2>1. LedgerInv'
    BY <1>1, ServerLedger DEF ServeAndIssue, Next
  <2> QED  BY <1>1, <2>1, ServeBook
<1>2. ASSUME NEW r \in Requests, Damage(r) PROVE LedgerInv' /\ BookInv'
  BY <1>2, ServerLedger, DamageBook DEF Damage
<1>3. ASSUME NEW s \in Sessions, NEW elapsed, NEW force, CloseWindow(s, elapsed, force)
      PROVE  LedgerInv' /\ BookInv'
  <2>1. session[s].status # "none"
    BY <1>3, PendingCalls DEF CloseWindow, BookInv
  <2>2. LedgerInv'
    BY <1>3, <2>1, ClosingLedger DEF CloseWindow, requestVars
  <2> QED  BY <1>3, <2>2, CloseWindowBook
<1>4. CASE SettleStep
  BY <1>4, SettleStepFrame, ServerLedger, SettleStepBook
<1>5. CASE Finish
  BY <1>5, FinishLedger, FinishBook
<1>6. CASE Die
  BY <1>6, DieLedger, DieBook
<1>7. CASE UNCHANGED windowVars
  <2>1. UNCHANGED <<row, auth, batch, batchOf, receipt, copy, step, work, claimed, swept>>
    BY <1>7 DEF windowVars, vars, ledgerVars, bookVars, settleVars, chainVars
  <2>2. Shape' /\ WorkOK'
    BY <2>1 DEF BookInv, Shape, WorkOK, Batches, ReceiptRecord, CopyRecord, BatchRecord, BodyRecord,
       Transactions, PayerSet, NoReceipt
  <2> QED  BY <1>7, <2>1, <2>2, ServerLedger, BooksAlone DEF windowVars
<1> QED
  BY <1>1, <1>2, <1>3, <1>4, <1>5, <1>6, <1>7 DEF WindowNext, SettleStep

-----------------------------------------------------------------------------
(* The chain                                                                  *)

(* A step that claims and sweeps nothing.                                     *)
LEMMA ChainAlone ==
  ASSUME ChainInv, ClaimedCalls' \subseteq ClaimedCalls, SweptCalls' \subseteq SweptCalls,
         claimed \subseteq claimed', swept \subseteq swept'
  PROVE  ChainInv'
BY DEF ChainInv

(* A claim is of every voucher raised, those of the batch among them.         *)
LEMMA ClaimChain ==
  ASSUME LedgerInv, BookInv, ChainInv, Claim PROVE ChainInv'
<1> USE DEF vars, bookVars
<1>1. claimed' = claimed \cup Claimable /\ step = "claiming" /\ step' = "claimAnswered"
      /\ UNCHANGED <<auth, moved, batch, batchOf, work, swept>>
  BY DEF Claim
<1>2. ClaimedCalls' \subseteq claimed'
  BY <1>1 DEF ClaimedCalls, Claimable, BookInv, AttachedOK
<1>3. SweptCalls' = SweptCalls
  BY <1>1 DEF SweptCalls, SweepSeen
<1> QED  BY <1>1, <1>2, <1>3 DEF ChainInv

(* A sweep is of everything claimed.                                          *)
LEMMA SweepChain ==
  ASSUME LedgerInv, BookInv, ChainInv, Sweep PROVE ChainInv'
<1> USE DEF vars, bookVars
<1>1. swept' = claimed /\ step = "settling" /\ step' = "swept"
      /\ UNCHANGED <<moved, batch, batchOf, work, claimed>>
  BY DEF Sweep
<1>2. batch[work].status = "settling"
  BY <1>1 DEF BookInv, WorkOK
<1>3. SweptCalls' \subseteq ClaimedCalls /\ ClaimedCalls' = ClaimedCalls
  BY <1>1, <1>2 DEF SweptCalls, SweepSeen, ClaimedCalls, ClaimSeen
<1> QED  BY <1>1, <1>3 DEF ChainInv

LEMMA NextChain ==
  ASSUME LedgerInv, BookInv, ChainInv, [WindowNext]_windowVars
  PROVE  ChainInv'
<1> USE DEF chainVars
<1>1. swept \subseteq claimed
  BY DEF BookInv, Shape
<1>2. ASSUME UNCHANGED <<batch, batchOf, claimed, swept>>, (step' = step /\ work' = work) \/ step' = "idle",
             \A r \in Requests : Recorded(r) => moved'[r] = moved[r]
      PROVE  ChainInv'
  <2>1. \A r \in Requests : batchOf[r] # 0 => moved'[r] = moved[r]
    BY <1>2 DEF BookInv, AttachedOK
  <2>2. ClaimedCalls' \subseteq ClaimedCalls /\ SweptCalls' \subseteq SweptCalls
    BY <1>2, <2>1 DEF ClaimedCalls, ClaimSeen, SweptCalls, SweepSeen
  <2> QED  BY <1>2, <2>2, ChainAlone
<1>3. ASSUME NEW r \in Requests, NEW attested \in BOOLEAN, ServeAndIssue(r, attested)
      PROVE  ChainInv'
  BY <1>2, <1>3, ServeKeeps DEF ServeAndIssue, settleVars, LedgerInv
<1>4. CASE Die
  BY <1>2, <1>4 DEF Die, bookVars
<1>5. ASSUME NEW r \in Requests, Damage(r) PROVE ChainInv'
  BY <1>2, <1>5 DEF Damage, vars
<1>6. CASE UNCHANGED windowVars
  BY <1>2, <1>6 DEF windowVars, vars, bookVars, settleVars
<1>7. ASSUME NEW s \in Sessions, NEW elapsed, NEW force, CloseWindow(s, elapsed, force)
      PROVE  ChainInv'
  <2>1. PICK b : b = NewBatch
    OBVIOUS
  <2>2. b \in Batches \ UsedBatches
    BY <1>7, <2>1, NewBatchFree DEF CloseWindow, BookInv
  <2>3. /\ batch'[b].status = "open" /\ \A c \in Batches \ {b} : batch'[c] = batch[c]
        /\ \A r \in Requests : batchOf'[r] = b \/ batchOf'[r] = batchOf[r]
        /\ UNCHANGED <<moved, step, work, claimed, swept>>
    <3>1. /\ batch' = [batch EXCEPT ![b] =
               [NoBatch EXCEPT !.status = "open", !.session = s, !.gross = Gross(Pending(s)),
                               !.count = Cardinality(Pending(s))]]
          /\ UNCHANGED <<moved, step, work, claimed, swept>>
          /\ batchOf' = [r \in Requests |-> IF r \in Pending(s) THEN b ELSE batchOf[r]]
      BY <1>7, <2>1 DEF CloseWindow, requestVars, settleVars
    <3> QED  BY <2>2, <3>1 DEF BookInv, Shape, NoBatch
  <2>4. step = "claimAnswered" \/ step = "swept" => work # b
    BY <2>2 DEF BookInv, WorkOK, Shape, UsedBatches
  <2>5. batchOf \in [Requests -> Batches \cup {0}]
    BY DEF BookInv, Shape
  <2>6. ClaimedCalls' \subseteq ClaimedCalls
    BY <2>2, <2>3, <2>4, <2>5 DEF ClaimedCalls, ClaimSeen
  <2>7. SweptCalls' \subseteq SweptCalls
    BY <2>2, <2>3, <2>4, <2>5 DEF SweptCalls, SweepSeen
  <2> QED  BY <2>3, <2>6, <2>7, ChainAlone
<1>8. CASE Finish
  <2>1. /\ UNCHANGED <<moved, batchOf, claimed, swept>> /\ step' = "idle" /\ step = "swept"
        /\ \A c \in Batches \ {work} : batch'[c] = batch[c]
    BY <1>8, FinishRows DEF Finish
  <2>2. batch[work].status = "settling" /\ batchOf \in [Requests -> Batches \cup {0}]
    BY <1>8, FinishCalls DEF BookInv, Shape
  <2>3. ClaimedCalls' \subseteq ClaimedCalls
    BY <2>1, <2>2 DEF ClaimedCalls, ClaimSeen
  <2>4. SweptCalls' \subseteq SweptCalls
    BY <2>1, <2>2 DEF SweptCalls, SweepSeen
  <2> QED  BY <2>1, <2>3, <2>4, ChainAlone
<1>9. CASE SettleStep
  <2>1. Shape /\ WorkOK /\ UNCHANGED <<moved, batchOf>>
        /\ batchOf \in [Requests -> Batches \cup {0}]
    BY <1>9, SettleStepFrame DEF BookInv, vars, Shape
  <2>2. ASSUME NEW b \in Batches, NEW status \in {"claiming", "claimed", "settling", "failed"},
               Book(b, status) \/ (status = "claimed" /\ b = work /\ batch' =
                 [batch EXCEPT ![work].status = "claimed", ![work].claimTx = Tx("claim", work)]),
               status \in {"claimed", "settling"} =>
                 batch[b].status \in {"claimed", "settling"} \/ (step = "claimAnswered" /\ b = work),
               step' \notin {"claimAnswered", "swept"},
               claimed \subseteq claimed', swept \subseteq swept'
        PROVE  ChainInv'
    <3>1. batch'[b].status = status /\ \A c \in Batches \ {b} : batch'[c] = batch[c]
      <4>1. batch[b] \in BatchRecord
        BY <2>1 DEF Shape
      <4> QED  BY <2>1, <2>2, <4>1 DEF Book, Shape, BatchRecord
    <3>2. ClaimedCalls' \subseteq ClaimedCalls
      BY <2>1, <2>2, <3>1 DEF ClaimedCalls, ClaimSeen
    <3>3. SweptCalls' \subseteq SweptCalls
      BY <2>1, <2>2, <3>1 DEF SweptCalls, SweepSeen
    <3> QED  BY <2>1, <2>2, <3>2, <3>3, ChainAlone
  <2>3. ASSUME NEW b \in Batches, StartSettle(b) PROVE ChainInv'
    BY <2>2, <2>3 DEF StartSettle
  <2>4. step # "idle" => work \in Batches
    BY <2>1 DEF Shape
  <2>5. ASSUME NEW landed \in BOOLEAN, ClaimFails(landed) PROVE ChainInv'
    <3>1. /\ step # "idle" /\ Book(work, "failed") /\ step' = "idle" /\ swept' = swept
          /\ claimed \subseteq claimed'
      BY <2>5 DEF ClaimFails
    <3> QED  BY <2>2, <2>4, <3>1
  <2>6. ASSUME NEW landed \in BOOLEAN, SweepFails(landed) PROVE ChainInv'
    <3>1. /\ step = "settling" /\ Book(work, "claimed") /\ step' = "idle" /\ swept' \in {swept, claimed}
          /\ claimed' = claimed
      BY <2>6 DEF SweepFails
    <3>2. batch[work].status = "settling"
      BY <2>1, <3>1 DEF WorkOK
    <3> QED  BY <1>1, <2>2, <2>4, <3>1, <3>2
  <2>7. CASE StartSweep
    <3>1. /\ step = "claimed" /\ Book(work, "settling") /\ step' = "settling"
          /\ UNCHANGED <<claimed, swept>> /\ batch[work].status = "claimed"
      BY <2>1, <2>7 DEF StartSweep, WorkOK
    <3> QED  BY <2>2, <2>4, <3>1
  <2>8. CASE RecordClaim
    BY <2>2, <2>4, <2>8 DEF RecordClaim
  <2> QED  BY <1>9, <2>3, <2>5, <2>6, <2>7, <2>8, ClaimChain, SweepChain DEF SettleStep
<1> QED
  BY <1>3, <1>4, <1>5, <1>6, <1>7, <1>8, <1>9 DEF WindowNext, SettleStep

LEMMA InitChain == WindowInit => ChainInv /\ MovesInv
BY DEF WindowInit, ChainInv, ClaimedCalls, SweptCalls, MovesInv

(* A step that sweeps nothing, and leaves what was swept where it was.        *)
LEMMA MovesAlone ==
  ASSUME MovesInv, UNCHANGED <<swept, moves, lost>>, step' # "settling" \/ (step' = step /\ work' = work),
         \A b \in Batches :
           batch[b].status \in {"settling", "settled"} => batch'[b].status \in {"settling", "settled"}
  PROVE  MovesInv'
<1>1. \A b \in Batches :
        moves'[b] # {} => /\ batch'[b].status \in {"settling", "settled"}
                          /\ ~(step' = "settling" /\ work' = b)
  BY DEF MovesInv
<1>2. /\ moves' \in [Batches -> SUBSET swept'] /\ lost' \subseteq swept'
      /\ swept' \subseteq lost' \cup UNION {moves'[b] : b \in Batches}
  BY DEF MovesInv
<1> QED  BY <1>1, <1>2 DEF MovesInv, Batches

LEMMA NextMoves ==
  ASSUME LedgerInv, BookInv, MovesInv, [WindowNext]_windowVars
  PROVE  MovesInv'
<1> USE DEF chainVars
<1>1. Shape /\ WorkOK /\ swept \subseteq claimed /\ (step # "idle" => work \in Batches)
  BY DEF BookInv, Shape
<1>2. ASSUME UNCHANGED <<batch, step, work, swept, moves, lost>> PROVE MovesInv'
  BY <1>2, MovesAlone
<1>3. ASSUME NEW r \in Requests, (\E attested \in BOOLEAN : ServeAndIssue(r, attested)) \/ Damage(r)
      PROVE  MovesInv'
  BY <1>2, <1>3 DEF ServeAndIssue, Damage, settleVars
<1>4. CASE UNCHANGED windowVars
  BY <1>2, <1>4 DEF windowVars, bookVars, settleVars
<1>5. CASE Die
  <2>1. UNCHANGED <<batch, swept, moves, lost>> /\ step' = "idle"
    BY <1>5 DEF Die, bookVars
  <2> QED  BY <2>1, MovesAlone
<1>6. ASSUME NEW s \in Sessions, NEW elapsed, NEW force, CloseWindow(s, elapsed, force)
      PROVE  MovesInv'
  <2>1. PICK b, new : b = NewBatch /\ b \in Batches \ UsedBatches /\ batch' = [batch EXCEPT ![b] = new]
                      /\ UNCHANGED <<step, work, swept, moves, lost>>
    BY <1>6, NewBatchFree DEF CloseWindow, BookInv, settleVars
  <2>2. \A c \in Batches : batch[c].status \in {"settling", "settled"} => batch'[c] = batch[c]
    BY <1>1, <2>1 DEF Shape, UsedBatches
  <2> QED  BY <2>1, <2>2, MovesAlone
<1>7. CASE Finish
  <2>1. UNCHANGED <<swept, moves, lost>> /\ step' = "idle"
    BY <1>7 DEF Finish
  <2>2. batch'[work].status = "settled" /\ \A c \in Batches \ {work} : batch'[c] = batch[c]
    BY <1>7, FinishRows
  <2> QED  BY <2>1, <2>2, MovesAlone
<1>8. ASSUME NEW b \in Batches, NEW status \in {"claiming", "claimed", "settling", "failed"},
             Book(b, status) \/ (status = "claimed" /\ batch' =
               [batch EXCEPT ![b].status = "claimed", ![b].claimTx = Tx("claim", b)])
      PROVE  batch'[b].status = status /\ \A c \in Batches \ {b} : batch'[c] = batch[c]
  <2>1. batch[b] \in BatchRecord
    BY <1>1 DEF Shape
  <2> QED  BY <1>1, <1>8, <2>1 DEF Book, Shape, BatchRecord
<1>9. ASSUME NEW b \in Batches, moves[b] = {}, \A c \in Batches \ {b} : batch'[c] = batch[c],
             UNCHANGED <<swept, moves, lost>>, step' = "settling" => work' = b
      PROVE  MovesInv'
  <2>1. /\ moves' \in [Batches -> SUBSET swept'] /\ lost' \subseteq swept'
        /\ swept' \subseteq lost' \cup UNION {moves'[c] : c \in Batches}
    BY <1>9 DEF MovesInv
  <2>2. \A c \in Batches :
          moves'[c] # {} => /\ batch'[c].status \in {"settling", "settled"}
                            /\ ~(step' = "settling" /\ work' = c)
    BY <1>9 DEF MovesInv
  <2> QED  BY <2>1, <2>2 DEF MovesInv, Batches
<1>10. ASSUME NEW b \in Batches, StartSettle(b) PROVE MovesInv'
  <2>1. /\ batch[b].status \in {"open", "claimed"} /\ Book(b, "claiming") /\ step' = "claiming"
        /\ UNCHANGED <<swept, moves, lost>>
    BY <1>10 DEF StartSettle
  <2>2. moves[b] = {}
    BY <2>1 DEF MovesInv
  <2> QED  BY <1>8, <1>9, <2>1, <2>2
<1>11. CASE Claim
  BY <1>11, MovesAlone DEF Claim, bookVars
<1>12. ASSUME RecordClaim \/ StartSweep \/ \E landed \in BOOLEAN : ClaimFails(landed) PROVE MovesInv'
  <2>1. /\ step \in {"claiming", "claimAnswered", "claimed"} /\ work \in Batches
        /\ UNCHANGED <<swept, moves, lost>> /\ (step' = "settling" => work' = work)
    BY <1>1, <1>12 DEF RecordClaim, StartSweep, ClaimFails
  <2>2. moves[work] = {}
    BY <1>1, <2>1 DEF MovesInv, WorkOK
  <2>3. \A c \in Batches \ {work} : batch'[c] = batch[c]
    BY <1>8, <1>12, <2>1 DEF RecordClaim, StartSweep, ClaimFails
  <2> QED  BY <1>9, <2>1, <2>2, <2>3
<1>13. CASE Sweep
  <2>1. /\ step = "settling" /\ step' = "swept" /\ work \in Batches /\ UNCHANGED <<batch, lost>>
        /\ swept' = claimed /\ moves' = [moves EXCEPT ![work] = claimed \ swept]
    BY <1>1, <1>13 DEF Sweep, bookVars
  <2>2. moves[work] = {} /\ batch[work].status = "settling"
    BY <1>1, <2>1 DEF MovesInv, WorkOK
  <2>3. moves'[work] = claimed \ swept /\ \A c \in Batches \ {work} : moves'[c] = moves[c]
    BY <2>1 DEF MovesInv
  <2>4. moves' \in [Batches -> SUBSET swept'] /\ lost' \subseteq swept'
    BY <1>1, <2>1 DEF MovesInv
  <2>5. swept' \subseteq lost' \cup UNION {moves'[c] : c \in Batches}
    <3> SUFFICES ASSUME NEW r \in claimed, r \notin lost PROVE \E c \in Batches : r \in moves'[c]
      BY <2>1
    <3>1. CASE r \in swept
      <4>1. PICK c \in Batches : r \in moves[c]
        BY <3>1 DEF MovesInv
      <4> QED  BY <2>2, <2>3, <4>1
    <3>2. CASE r \notin swept
      BY <2>1, <2>3, <3>2
    <3> QED  BY <3>1, <3>2
  <2>6. \A c \in Batches :
          moves'[c] # {} => /\ batch'[c].status \in {"settling", "settled"}
                            /\ ~(step' = "settling" /\ work' = c)
    BY <2>1, <2>2, <2>3 DEF MovesInv
  <2> QED  BY <2>4, <2>5, <2>6 DEF MovesInv, Batches
<1>14. ASSUME NEW landed \in BOOLEAN, SweepFails(landed) PROVE MovesInv'
  <2>1. /\ step = "settling" /\ step' = "idle" /\ work \in Batches /\ moves' = moves
        /\ Book(work, "claimed")
        /\ swept' = (IF landed THEN claimed ELSE swept)
        /\ lost' = (IF landed THEN lost \cup (claimed \ swept) ELSE lost)
    BY <1>1, <1>14 DEF SweepFails
  <2>2. moves[work] = {} /\ \A c \in Batches \ {work} : batch'[c] = batch[c]
    BY <1>1, <1>8, <2>1 DEF MovesInv
  <2>3. moves' \in [Batches -> SUBSET swept'] /\ lost' \subseteq swept'
    BY <1>1, <2>1 DEF MovesInv
  <2>4. swept' \subseteq lost' \cup UNION {moves'[c] : c \in Batches}
    BY <1>1, <2>1 DEF MovesInv
  <2>5. \A c \in Batches :
          moves'[c] # {} => /\ batch'[c].status \in {"settling", "settled"}
                            /\ ~(step' = "settling" /\ work' = c)
    BY <2>1, <2>2 DEF MovesInv
  <2> QED  BY <2>3, <2>4, <2>5 DEF MovesInv, Batches
<1> QED
  BY <1>3, <1>4, <1>5, <1>6, <1>7, <1>10, <1>11, <1>12, <1>13, <1>14 DEF WindowNext

-----------------------------------------------------------------------------
(* Receipts stay true to their calls                                          *)

(* A step that touches no receipt and no recorded call.                       *)
LEMMA ReceiptsAlone ==
  ASSUME ReceiptInv, UNCHANGED <<row, auth, batchOf, receipt, copy>>
  PROVE  ReceiptInv'
BY DEF ReceiptInv, ReceiptOK, Recorded, BodyOK, Mode, ReceiptTx, Settles, Batches, CopyRecord,
       BodyRecord, Transactions, PayerSet

LEMMA ServeReceiptOK ==
  ASSUME LedgerInv, LedgerInv', BookInv, ReceiptInv, NEW r \in Requests, NEW attested \in BOOLEAN,
         ServeAndIssue(r, attested), NEW q \in Requests
  PROVE  ReceiptOK(q)'
<1>1. Serve(r) /\ UNCHANGED <<batch, batchOf>> /\ Shape
  BY DEF ServeAndIssue, BookInv
<1>2. ReceiptOK(q)
  BY DEF ReceiptInv
<1>3. CASE q # r
  <2>1. row'[q] = row[q] /\ auth'[q] = auth[q]
    BY <1>1, <1>3, ServeAlone DEF LedgerInv
  <2>2. receipt'[q] = receipt[q] /\ copy'[q] = copy[q]
    BY <1>1, <1>3, ServeReceipts
  <2> QED
    BY <1>1, <1>2, <2>1, <2>2 DEF ReceiptOK, Recorded, BodyOK, Mode, ReceiptTx, Settles,
       CopyRecord, BodyRecord, Transactions, PayerSet, Batches
<1>4. CASE q = r /\ ~Capture(r)
  <2>1. ~Recorded(r) /\ ~Recorded(r)' /\ receipt' = receipt
    BY <1>1, <1>4, ServeAlone, ServeReceipts DEF Recorded, LedgerInv
  <2> QED  BY <1>2, <1>4, <2>1 DEF ReceiptOK
<1>5. CASE q = r /\ Capture(r)
  <2>1. /\ ~Recorded(r) /\ Recorded(r)' /\ UNCHANGED auth
        /\ row'[r].status = IF Settles(r) THEN "settled" ELSE "captured"
    BY <1>5, CaptureRow DEF Recorded, LedgerInv
  <2>2. batchOf[r] = 0 /\ ~receipt[r].issued
    BY <1>2, <1>5, <2>1 DEF BookInv, AttachedOK, ReceiptOK
  <2>3. PICK rc : rc = receipt'[r]
    OBVIOUS
  <2>4. /\ rc \in ReceiptRecord
        /\ rc.issued /\ rc.parses /\ rc.bodyHash = rc.body /\ rc.batch = 0
        /\ rc.captured = row'[r].captured /\ rc.authorized = auth[r].ceiling
        /\ rc.payer = auth[r].payer
        /\ rc.body.captured = row'[r].captured /\ rc.body.authorized = auth[r].ceiling
        /\ rc.body.payer = auth[r].payer /\ rc.body.settlement = Mode(r)
        /\ rc.tx = IF Settles(r) THEN Tx("call", r) ELSE NoTx
        /\ rc.body.transaction = rc.tx
        /\ copy'[r] = Fetched(rc) \/ rc = receipt[r]
    BY <1>1, <1>5, <2>3, ServeReceipts
  <2>5. copy'[r] = Fetched(rc)
    BY <2>2, <2>4
  <2>6. /\ copy'[r] \in CopyRecord /\ copy'[r].body = rc.body /\ copy'[r].bodyHash = rc.body
    BY <2>4, <2>5 DEF Fetched, CopyRecord, ReceiptRecord
  <2>7. Mode(r)' = Mode(r) /\ (Settles(r)' <=> Settles(r)) /\ ReceiptTx(r)' = rc.tx
    BY <2>1, <2>4 DEF Mode, Settles, ReceiptTx
  <2>8. copy'[r] \in CopyRecord'
    BY <2>6 DEF CopyRecord, BodyRecord, Transactions, PayerSet, Batches
  <2> QED
    BY <1>1, <1>5, <2>1, <2>2, <2>3, <2>4, <2>6, <2>7, <2>8 DEF ReceiptOK, BodyOK
<1> QED  BY <1>3, <1>4, <1>5

LEMMA DamageReceiptOK ==
  ASSUME BookInv, ReceiptInv, NEW r \in Requests, Damage(r), NEW q \in Requests
  PROVE  ReceiptOK(q)'
<1>1. UNCHANGED <<row, auth, batchOf, copy>> /\ receipt[r].issued
      /\ receipt' = [receipt EXCEPT ![r].parses = FALSE]
  BY DEF Damage, vars, ledgerVars
<1>2. receipt[r] \in ReceiptRecord /\ receipt \in [Requests -> ReceiptRecord \cup {NoReceipt}]
  BY <1>1 DEF BookInv, Shape, NoReceipt
<1>3. receipt'[r] = [receipt[r] EXCEPT !.parses = FALSE] /\ \A x \in Requests \ {r} : receipt'[x] = receipt[x]
  BY <1>1, <1>2
<1>4. /\ receipt'[r].issued /\ ~receipt'[r].parses /\ receipt'[r].bodyHash = receipt[r].bodyHash
      /\ receipt'[r].body = receipt[r].body /\ receipt'[r].captured = receipt[r].captured
      /\ receipt'[r].authorized = receipt[r].authorized /\ receipt'[r].payer = receipt[r].payer
      /\ receipt'[r].batch = receipt[r].batch /\ receipt'[r].tx = receipt[r].tx
  BY <1>1, <1>2, <1>3 DEF ReceiptRecord
<1>5. ReceiptOK(q)
  BY DEF ReceiptInv
<1> QED
  BY <1>1, <1>3, <1>4, <1>5 DEF ReceiptOK, Recorded, BodyOK, Mode, ReceiptTx, Settles,
     CopyRecord, BodyRecord, Transactions, PayerSet, Batches

LEMMA CloseWindowReceiptOK ==
  ASSUME LedgerInv, BookInv, ReceiptInv, NEW s \in Sessions, NEW elapsed, NEW force,
         CloseWindow(s, elapsed, force), NEW r \in Requests
  PROVE  ReceiptOK(r)'
<1>0. PICK b : b = NewBatch
  OBVIOUS
<1>1. /\ UNCHANGED <<row, auth, copy>>
      /\ batchOf'[r] = IF r \in Pending(s) THEN b ELSE batchOf[r]
      /\ receipt'[r] = IF r \in Pending(s) /\ receipt[r].issued
                         THEN [receipt[r] EXCEPT !.batch = b] ELSE receipt[r]
  BY <1>0 DEF CloseWindow, requestVars
<1>2. ReceiptOK(r) /\ receipt[r] \in ReceiptRecord \cup {NoReceipt}
  BY DEF ReceiptInv, BookInv, Shape
<1>3. CASE r \notin Pending(s)
  BY <1>1, <1>2, <1>3 DEF ReceiptOK, Recorded, BodyOK, Mode, ReceiptTx, Settles,
     CopyRecord, BodyRecord, Transactions, PayerSet, Batches
<1>4. CASE r \in Pending(s)
  <2>1. row[r].status = "captured" /\ Recorded(r) /\ receipt[r].issued
    BY <1>2, <1>4, PendingCalls DEF BookInv, Recorded, ReceiptOK
  <2>2. receipt[r] \in ReceiptRecord
    BY <1>2, <2>1 DEF NoReceipt
  <2>3. receipt'[r] = [receipt[r] EXCEPT !.batch = b] /\ batchOf'[r] = b
    BY <1>1, <1>4, <2>1
  <2>4. /\ receipt'[r].issued = receipt[r].issued /\ receipt'[r].parses = receipt[r].parses
        /\ receipt'[r].bodyHash = receipt[r].bodyHash
        /\ receipt'[r].body = receipt[r].body /\ receipt'[r].captured = receipt[r].captured
        /\ receipt'[r].authorized = receipt[r].authorized /\ receipt'[r].payer = receipt[r].payer
        /\ receipt'[r].batch = b /\ receipt'[r].tx = receipt[r].tx
    BY <2>2, <2>3 DEF ReceiptRecord
  <2>5. ReceiptTx(r)' = ReceiptTx(r)
    BY <1>1, <2>1 DEF ReceiptTx, Settles
  <2> QED
    BY <1>1, <1>2, <2>1, <2>3, <2>4, <2>5 DEF ReceiptOK, Recorded, BodyOK, Mode, Settles,
       CopyRecord, BodyRecord, Transactions, PayerSet, Batches
<1> QED  BY <1>3, <1>4

LEMMA FinishReceiptOK ==
  ASSUME LedgerInv, BookInv, ReceiptInv, Finish, NEW r \in Requests
  PROVE  ReceiptOK(r)'
<1>1. UNCHANGED <<auth, batchOf, copy>>
  BY FinishRows
<1>2. ReceiptOK(r) /\ receipt[r] \in ReceiptRecord \cup {NoReceipt}
  BY DEF ReceiptInv, BookInv, Shape
<1>3. CASE batchOf[r] # work
  <2>1. row'[r] = row[r] /\ r \notin InBatch(work)
    BY <1>3, FinishRows DEF InBatch
  <2>2. receipt'[r] = receipt[r]
    BY <1>2, <1>3, FinishReceipts DEF ReceiptOK
  <2> QED
    BY <1>1, <1>2, <2>1, <2>2 DEF ReceiptOK, Recorded, BodyOK, Mode, ReceiptTx, Settles,
       CopyRecord, BodyRecord, Transactions, PayerSet, Batches
<1>4. CASE batchOf[r] = work
  <2>1. r \in InBatch(work) /\ work \in Batches
    BY <1>4, FinishCalls DEF InBatch, UsedBatches
  <2>2. /\ row[r].status = "captured" /\ auth[r].scheme = "batch"
        /\ row'[r].status = "settled" /\ row'[r].captured = row[r].captured
    BY <2>1, FinishRows, FinishCalls DEF LedgerInv, PayersAgree
  <2>3. Recorded(r) /\ Recorded(r)' /\ ~Settles(r) /\ receipt[r].issued /\ receipt[r].batch = work
    BY <1>2, <1>4, <2>2 DEF Recorded, Settles, ReceiptOK
  <2>4. PICK rc \in ReceiptRecord : rc = receipt[r]
    BY <1>2, <2>3 DEF NoReceipt
  <2>5. PICK tx \in Transactions : tx = Tx("sweep", work)
    BY <2>1 DEF Tx, Transactions
  <2>6. PICK to : to = Attach(rc, work, tx)
    OBVIOUS
  <2>7. receipt'[r] = to
    BY <2>3, <2>4, <2>5, <2>6, FinishReceipts
  <2>8. /\ to \in ReceiptRecord
        /\ to.parses = rc.parses /\ to.captured = rc.captured
        /\ to.authorized = rc.authorized /\ to.payer = rc.payer /\ to.batch = rc.batch
        /\ to.body.captured = rc.body.captured /\ to.body.authorized = rc.body.authorized
        /\ to.body.payer = rc.body.payer
        /\ rc.parses => /\ to.tx = tx /\ to.body.transaction = tx /\ to.bodyHash = to.body
                        /\ to.body.settlement = "batched"
        /\ ~rc.parses => to = rc
    BY <2>1, <2>6, AttachFields
  <2>9. to.issued
    BY <2>8 DEF ReceiptRecord
  <2>10. ReceiptTx(r)' = tx /\ Mode(r) = "batched" /\ Mode(r)' = "batched" /\ ~Settles(r)'
    BY <1>1, <1>4, <2>2, <2>3, <2>5 DEF ReceiptTx, Mode, Settles
  <2>11. /\ rc.bodyHash = rc.body /\ BodyOK(rc.body, r) /\ rc.captured = row[r].captured
         /\ rc.authorized = auth[r].ceiling /\ rc.payer = auth[r].payer
         /\ rc.body.transaction = rc.tx
    BY <1>2, <2>3, <2>4 DEF ReceiptOK
  <2>12. /\ to.bodyHash = to.body /\ to.body.transaction = to.tx
         /\ to.body.captured = row'[r].captured /\ to.body.authorized = auth[r].ceiling
         /\ to.body.payer = auth[r].payer /\ to.body.settlement = "batched"
    BY <2>2, <2>8, <2>10, <2>11 DEF BodyOK
  <2>13. copy[r] \in CopyRecord /\ copy[r].bodyHash = copy[r].body /\ BodyOK(copy[r].body, r)
         /\ copy[r].body.transaction = NoTx
    BY <1>2, <2>3 DEF ReceiptOK
  <2>14. BodyOK(copy[r].body, r)'
    BY <1>1, <2>2, <2>10, <2>13 DEF BodyOK
  <2>15. copy'[r] \in CopyRecord'
    BY <1>1, <2>13 DEF CopyRecord, BodyRecord, Transactions, PayerSet, Batches
  <2>16. BodyOK(receipt[r].body, r)'
    BY <1>1, <2>7, <2>10, <2>12 DEF BodyOK
  <2>17. /\ receipt'[r].captured = row'[r].captured /\ receipt'[r].authorized = auth'[r].ceiling
         /\ receipt'[r].payer = auth'[r].payer /\ receipt'[r].batch = batchOf'[r]
         /\ receipt'[r].parses => receipt'[r].tx = ReceiptTx(r)'
    BY <1>1, <1>4, <2>2, <2>3, <2>4, <2>7, <2>8, <2>10, <2>11
  <2> QED
    BY <1>1, <2>3, <2>7, <2>9, <2>10, <2>12, <2>13, <2>14, <2>15, <2>16, <2>17 DEF ReceiptOK
<1> QED  BY <1>3, <1>4

LEMMA NextReceipts ==
  ASSUME LedgerInv, BookInv, ReceiptInv, [WindowNext]_windowVars
  PROVE  ReceiptInv'
<1>1. ASSUME NEW r \in Requests, NEW attested \in BOOLEAN, ServeAndIssue(r, attested)
      PROVE  ReceiptInv'
  BY <1>1, NextBook, ServeReceiptOK DEF ReceiptInv, WindowNext
<1>2. ASSUME NEW r \in Requests, Damage(r) PROVE ReceiptInv'
  BY <1>2, DamageReceiptOK DEF ReceiptInv
<1>3. ASSUME NEW s \in Sessions, NEW elapsed, NEW force, CloseWindow(s, elapsed, force)
      PROVE  ReceiptInv'
  BY <1>3, CloseWindowReceiptOK DEF ReceiptInv
<1>4. CASE SettleStep
  BY <1>4, SettleStepFrame, ReceiptsAlone DEF vars, ledgerVars
<1>5. CASE Finish
  BY <1>5, FinishReceiptOK DEF ReceiptInv
<1>6. CASE Die
  BY <1>6, ReceiptsAlone DEF Die, bookVars, ledgerVars
<1>7. CASE UNCHANGED windowVars
  BY <1>7, ReceiptsAlone DEF windowVars, vars, ledgerVars, bookVars
<1> QED
  BY <1>1, <1>2, <1>3, <1>4, <1>5, <1>6, <1>7 DEF WindowNext, SettleStep

LEMMA InitReceipts == WindowInit => ReceiptInv
BY DEF WindowInit, Init, NoRow, NoReceipt, ReceiptInv, ReceiptOK, Recorded

WindowInv == LedgerInv /\ BookInv /\ ChainInv /\ MovesInv /\ ReceiptInv

LEMMA WindowInvariance == WindowSpec => []WindowInv
<1>1. WindowInit => WindowInv
  BY InitBook, InitChain, InitReceipts DEF WindowInv
<1>2. WindowInv /\ [WindowNext]_windowVars => WindowInv'
  BY NextBook, NextChain, NextMoves, NextReceipts DEF WindowInv
<1> QED  BY <1>1, <1>2, PTL DEF WindowSpec

-----------------------------------------------------------------------------
(* What closing a window promises                                             *)

(* "that equality is the audit": whatever is admitted, captured, declined or  *)
(* lost while close_window and settle_batch run, and however often the driver *)
(* fails, a batch's gross and count are those of its calls, and what a        *)
(* session shows as settled is the sum of its settled calls.                  *)
THEOREM WindowsAddUp == WindowSpec => []WindowAddsUp
<1>1. WindowInv => WindowAddsUp
  <2> USE DEF WindowInv
  <2> SUFFICES ASSUME WindowInv PROVE WindowAddsUp
    OBVIOUS
  <2>1. \A s \in Sessions : session[s].settled = Total(SettledIn(s), Booking)
    BY TotalsParts DEF LedgerInv, TotalsInv, SessionAdds
  <2>2. \A s : SettledIn(s) = {r \in Requests : row[r].session = s /\ row[r].status = "settled"}
    BY DEF SettledIn, CapturedIn, Recorded
  <2> QED  BY <2>1, <2>2 DEF BookInv, GrossAdds, WindowAddsUp, Gross, Booking
<1> QED  BY <1>1, WindowInvariance, PTL

(* "Calls are marked SETTLED ... only after the sweep succeeds": settle_batch *)
(* shows a batched call as settled only when the chain has swept its money,   *)
(* though a failed or lost sweep may have landed and is tried again.          *)
THEOREM SettledWasSwept == WindowSpec => []SettledIsSwept
<1>1. WindowInv => SettledIsSwept
  <2> SUFFICES ASSUME WindowInv, NEW r \in Requests, row[r].status = "settled", ~Settles(r),
                      row[r].captured > 0
               PROVE  r \in swept
    BY DEF SettledIsSwept
  <2>1. moved[r] = row[r].captured
    BY DEF WindowInv, LedgerInv, Inv, RecordedIsWhatMoved, Recorded
  <2> QED  BY <2>1 DEF WindowInv, BookInv, AttachedOK, ChainInv, SweptCalls, SweepSeen, Settles
<1> QED  BY <1>1, WindowInvariance, PTL

(* The transaction that settles a call moved what the call captured, unless   *)
(* another transaction swept it.                                              *)
LEMMA TransferCovers ==
  ASSUME WindowInv, NEW r \in Requests, Recorded(r), ~SweptElsewhere(r),
         row[r].status = "settled"
  PROVE  TransferOf(r) \in Nat /\ TransferOf(r) >= row[r].captured
<1>1. row[r].captured = moved[r] /\ \A q \in Requests : moved[q] \in Nat
  BY DEF WindowInv, LedgerInv, Inv, TypeOK, RecordedIsWhatMoved
<1>2. PICK S : S = IF batchOf[r] = 0 THEN {r} ELSE moves[batchOf[r]]
  OBVIOUS
<1>3. S \subseteq Requests /\ IsFiniteSet(S)
  <2>1. S \subseteq Requests
    BY <1>2 DEF WindowInv, BookInv, Shape, MovesInv
  <2> QED  BY <2>1, RequestsFinite, FS_Subset
<1>4. \A q \in S : moved[q] \in Nat
  BY <1>1, <1>3
<1>5. Total(S, moved) \in Nat
  BY <1>3, <1>4, TotalType
<1>6. moved[r] > 0 => r \in S
  <2>1. ASSUME batchOf[r] # 0, moved[r] > 0 PROVE r \in moves[batchOf[r]]
    BY <2>1 DEF WindowInv, BookInv, AttachedOK, ChainInv, SweptCalls, SweepSeen, MovesInv,
                SweptElsewhere
  <2> QED  BY <1>2, <2>1
<1>7. r \in S => Total(S, moved) >= moved[r]
  <2> SUFFICES ASSUME r \in S PROVE Total(S, moved) >= moved[r]
    OBVIOUS
  <2>1. {r} \in SUBSET S
    OBVIOUS
  <2>2. Total({r}, moved) <= Total(S, moved)
    BY <1>3, <1>4, <2>1, TotalSubset
  <2>3. Total({r}, moved) = moved[r]
    BY <1>4, TotalOfOne
  <2> QED  BY <1>1, <1>5, <2>2, <2>3
<1> QED  BY <1>1, <1>2, <1>5, <1>6, <1>7 DEF TransferOf

LEMMA CheckPasses ==
  ASSUME NEW name, NEW strength, NEW P, P PROVE Check(name, P, strength).ok
BY Zenon DEF Check

(* What verify() asks of a receipt that parses, and what makes its answer     *)
(* 'verified_onchain'.                                                        *)
LEMMA VerifyPasses ==
  ASSUME NEW rc, NEW call, NEW b, rc.parses,
         rc.bodyHash = rc.body, rc.captured <= rc.authorized,
         call.captured = rc.captured, call.authorized = rc.authorized, call.payer = rc.payer,
         rc.batch # 0 => call.batch = rc.batch,
         rc.batch # 0 /\ b.settleTx # NoTx => rc.tx = b.settleTx
  PROVE  Passed(Verify(rc, call, b))
<1> SUFFICES ASSUME NEW c \in Verify(rc, call, b) PROVE c.ok
  BY Zenon DEF Passed
<1>1. \/ c = Check("body_hash", Digest(rc.body) = rc.bodyHash, "local")
      \/ c = Check("capture_within_authorization", rc.captured <= rc.authorized, "local")
      \/ c = Check("matches_ledger", /\ call.captured = rc.captured
                                     /\ call.authorized = rc.authorized
                                     /\ call.payer = rc.payer, "local")
      \/ c = Check("facilitator_attestation", TRUE, "facilitator")
      \/ rc.batch # 0 /\ c = Check("call_is_in_batch", call.batch = rc.batch, "local")
      \/ /\ rc.batch # 0 /\ b.settleTx # NoTx
         /\ c = Check("onchain_settlement", rc.tx = b.settleTx, "chain")
      \/ c = Check("onchain_settlement", TRUE, "local")
      \/ c = Check("onchain_settlement", TRUE, "chain")
  BY Zenon DEF Verify
<1>2. /\ Check("body_hash", Digest(rc.body) = rc.bodyHash, "local").ok
      /\ Check("capture_within_authorization", rc.captured <= rc.authorized, "local").ok
      /\ Check("matches_ledger", /\ call.captured = rc.captured
                                 /\ call.authorized = rc.authorized
                                 /\ call.payer = rc.payer, "local").ok
      /\ Check("facilitator_attestation", TRUE, "facilitator").ok
      /\ Check("onchain_settlement", TRUE, "local").ok
      /\ Check("onchain_settlement", TRUE, "chain").ok
  BY CheckPasses, Zenon DEF Digest
<1>3. rc.batch # 0 => Check("call_is_in_batch", call.batch = rc.batch, "local").ok
  BY CheckPasses, Zenon
<1>4. rc.batch # 0 /\ b.settleTx # NoTx => Check("onchain_settlement", rc.tx = b.settleTx, "chain").ok
  BY CheckPasses, Zenon
<1> QED  BY <1>1, <1>2, <1>3, <1>4, Zenon

LEMMA VerifiedOnChain ==
  ASSUME NEW rc, NEW call, NEW b, Status(Verify(rc, call, b)) = "verified_onchain"
  PROVE  rc.parses /\ IF rc.batch # 0 THEN b.settleTx # NoTx ELSE rc.tx # NoTx
<1>1. Passed(Verify(rc, call, b)) /\ \E c \in Verify(rc, call, b) : c.strength = "chain"
  BY DEF Status
<1>2. rc.parses
  BY <1>1 DEF Passed, Verify, Check
<1> QED  BY <1>1, <1>2 DEF Verify, Check

(* A copy that repeats its call convinces the buyer.                          *)
LEMMA BuyerPasses ==
  ASSUME NEW c, NEW payer, NEW rpc \in BOOLEAN, NEW shown,
         c.bodyHash = c.body, c.body.captured <= c.body.authorized, c.body.payer = payer,
         c.body.transaction = NoTx => c.body.settlement = "batched",
         rpc /\ c.body.transaction # NoTx => shown \in Nat /\ shown >= c.body.captured,
         c.body.captured \in Nat
  PROVE  BuyerVerified(BuyerChecks(c, payer, rpc, shown))
<1> DEFINE b == c.body
           seen == IF b.transaction = NoTx
                     THEN IF b.settlement = "batched" THEN "pending_batch" ELSE "failed"
                   ELSE IF ~rpc THEN "skipped" ELSE OnChainCheck(shown, b.captured)
<1>1. seen # "failed"
  BY DEF OnChainCheck, Unreachable, Reverted
<1> HIDE DEF seen
<1>2. BuyerChecks(c, payer, rpc, shown)
        = [structure |-> "passed", digest |-> "passed", attestation |-> "skipped", onchain |-> seen]
  BY DEF BuyerChecks, Digest, seen
<1> QED  BY <1>1, <1>2 DEF BuyerVerified

(* "verify() would report our own bookkeeping as fraud": through captures,     *)
(* attach_batch_settlement, failures of the driver and damage to other         *)
(* receipts, a receipt nobody damaged passes verify() and the buyer's checks,  *)
(* with the chain in sight unless another transaction than the one it names    *)
(* swept its call; the copy the agent got passes at all times; and             *)
(* 'verified_onchain' is said only of calls whose money was moved or swept.    *)
THEOREM ReceiptsHold == WindowSpec => []ReceiptsVerify
<1>1. WindowInv => ReceiptsVerify
  <2> USE DEF WindowInv
  <2> SUFFICES ASSUME WindowInv,
                      NEW r \in Requests, receipt[r].issued
               PROVE  /\ receipt[r].parses =>
                           /\ Passed(Checks(r))
                           /\ \A rpc \in BOOLEAN : (rpc => ~SweptElsewhere(r)) =>
                                BuyerVerified(BuyerChecks(Fetched(receipt[r]), auth[r].payer,
                                                          rpc, TransferOf(r)))
                      /\ \A rpc \in BOOLEAN : BuyerVerified(Seen(rpc, r))
                      /\ Status(Checks(r)) = "verified_onchain" =>
                           row[r].status = "settled"
                           /\ (Settles(r) \/ batch[batchOf[r]].settleTx # NoTx)
    BY DEF ReceiptsVerify
  <2>1. ReceiptOK(r) /\ Recorded(r)
    BY DEF ReceiptInv, ReceiptOK
  <2>2. /\ row[r].captured = moved[r] /\ moved[r] <= auth[r].ceiling /\ moved[r] \in Nat
        /\ row[r].status = "captured" => auth[r].scheme = "batch"
    BY <2>1 DEF LedgerInv, Inv, TypeOK, RecordedIsWhatMoved, PayersAgree
  <2>3. /\ batchOf[r] \in Batches \cup {0} /\ 0 \notin Batches
        /\ batchOf[r] # 0 =>
             /\ auth[r].scheme = "batch"
             /\ (row[r].status = "settled" <=> batch[batchOf[r]].status = "settled")
             /\ batch[batchOf[r]].settleTx =
                  IF batch[batchOf[r]].status = "settled" THEN Tx("sweep", batchOf[r]) ELSE NoTx
        /\ row[r].status = "settled" /\ auth[r].scheme = "batch" => batchOf[r] # 0
    BY WindowBounds DEF BookInv, AttachedOK, BooksOK, Shape
  <2>4. Tx("call", r) # NoTx
    BY DEF Tx, NoTx
  <2>5. PICK rc : rc = receipt[r]
    OBVIOUS
  <2>6. PICK bt : bt = IF receipt[r].batch = 0 THEN NoBatch ELSE batch[receipt[r].batch]
    OBVIOUS
  <2>7. PICK cl : cl = [captured |-> row[r].captured, authorized |-> auth[r].ceiling,
                        payer |-> auth[r].payer, batch |-> batchOf[r]]
    OBVIOUS
  <2>8. Checks(r) = Verify(rc, cl, bt)
    BY <2>5, <2>6, <2>7 DEF Checks
  <2>9. /\ rc.batch = batchOf[r] /\ rc.captured = row[r].captured
        /\ rc.authorized = auth[r].ceiling /\ rc.payer = auth[r].payer
        /\ rc.bodyHash = rc.body /\ BodyOK(rc.body, r) /\ rc.body.transaction = rc.tx
        /\ rc.parses => rc.tx = ReceiptTx(r)
    BY <2>1, <2>5 DEF ReceiptOK
  <2>10. ASSUME rc.parses PROVE Passed(Checks(r))
    <3>1. rc.batch # 0 /\ bt.settleTx # NoTx => rc.tx = bt.settleTx
      BY <2>3, <2>5, <2>6, <2>9, <2>10 DEF ReceiptTx, Settles
    <3> QED  BY <2>2, <2>7, <2>8, <2>9, <2>10, <3>1, VerifyPasses
  <2>11. ASSUME rc.parses, NEW rpc \in BOOLEAN, rpc => ~SweptElsewhere(r)
         PROVE  BuyerVerified(BuyerChecks(Fetched(rc), auth[r].payer, rpc, TransferOf(r)))
    <3>1. PICK c : c = Fetched(rc)
      OBVIOUS
    <3>2. c.body = rc.body /\ c.bodyHash = rc.body
      BY <2>9, <3>1 DEF Fetched
    <3>3. rc.body.transaction = NoTx => rc.body.settlement = "batched"
      BY <2>4, <2>9, <2>11 DEF BodyOK, ReceiptTx, Mode
    <3>4. rc.body.transaction # NoTx => row[r].status = "settled"
      BY <2>1, <2>2, <2>9, <2>11 DEF ReceiptTx, Settles, Recorded
    <3>5. rpc /\ c.body.transaction # NoTx => TransferOf(r) \in Nat /\ TransferOf(r) >= c.body.captured
      BY <2>1, <2>9, <2>11, <3>2, <3>4, TransferCovers DEF BodyOK
    <3>6. /\ c.bodyHash = c.body /\ c.body.captured <= c.body.authorized
          /\ c.body.payer = auth[r].payer /\ c.body.captured \in Nat
          /\ c.body.transaction = NoTx => c.body.settlement = "batched"
      BY <2>2, <2>9, <3>2, <3>3 DEF BodyOK
    <3> QED  BY <3>1, <3>5, <3>6, BuyerPasses
  <2>12. ASSUME NEW rpc \in BOOLEAN PROVE BuyerVerified(Seen(rpc, r))
    <3>1. PICK c : c = copy[r]
      OBVIOUS
    <3>2. /\ c.bodyHash = c.body /\ BodyOK(c.body, r)
          /\ c.body.transaction = IF Settles(r) THEN Tx("call", r) ELSE NoTx
      BY <2>1, <3>1 DEF ReceiptOK
    <3>3. c.body.transaction = NoTx => c.body.settlement = "batched"
      BY <2>4, <3>2 DEF BodyOK, Mode
    <3> QED  BY <2>2, <3>1, <3>2, <3>3, BuyerPasses DEF BodyOK, Seen
  <2>13. ASSUME Status(Checks(r)) = "verified_onchain"
         PROVE  row[r].status = "settled" /\ (Settles(r) \/ batch[batchOf[r]].settleTx # NoTx)
    <3>1. rc.parses /\ IF rc.batch # 0 THEN bt.settleTx # NoTx ELSE rc.tx # NoTx
      BY <2>8, <2>13, VerifiedOnChain
    <3>2. CASE batchOf[r] # 0
      BY <2>3, <2>5, <2>6, <2>9, <3>1, <3>2
    <3>3. CASE batchOf[r] = 0
      BY <2>1, <2>2, <2>3, <2>9, <3>1, <3>3 DEF ReceiptTx, Settles, Recorded
    <3> QED  BY <3>2, <3>3
  <2> QED  BY <2>5, <2>10, <2>11, <2>12, <2>13
<1> QED  BY <1>1, WindowInvariance, PTL

(* Every state is typed, settle_batch runs one batch at a time, and exactly   *)
(* the calls that are captured or settled have a receipt.                     *)
THEOREM WindowTypes == WindowSpec => []WindowTypeOK
<1>1. WindowInv => WindowTypeOK
  <2> USE DEF WindowInv
  <2> SUFFICES ASSUME WindowInv PROVE WindowTypeOK
    OBVIOUS
  <2>1. TypeOK /\ Shape
    BY DEF LedgerInv, Inv, BookInv
  <2>2. \A b \in Batches :
          /\ batch[b].status \in {"none", "open", "claiming", "claimed", "settling", "settled",
                                  "failed"}
          /\ batch[b].gross \in Nat /\ batch[b].session \in Sessions \cup {0}
    BY <2>1 DEF Shape, BatchRecord
  <2>3. \A r \in Requests : receipt[r].issued <=> row[r].status \in {"captured", "settled"}
    BY DEF ReceiptInv, ReceiptOK, Recorded
  <2> QED  BY <2>1, <2>2, <2>3 DEF WindowTypeOK, Shape, MovesInv
<1> QED  BY <1>1, WindowInvariance, PTL
=============================================================================
