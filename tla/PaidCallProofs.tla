---------------------------- MODULE PaidCallProofs ----------------------------
(***************************************************************************)
(* Theorems of PaidCall, for any number of requests, any set of            *)
(* authorizations presented any number of times, and any budget.           *)
(***************************************************************************)
EXTENDS PaidCall, TotalsProofs

\* A session in use is the session of some row.
SessionsHaveRows ==
  \A s \in Sessions :
    session[s].status # "none" =>
      \E r \in Requests : row[r].status # "none" /\ row[r].session = s

\* A request has no row before admission, a VERIFIED one while it is in flight.
RowsFollowRequests ==
  \A r \in Requests :
    /\ pc[r] \in {"idle", "verifying"} => row[r] = NoRow
    /\ pc[r] \in InFlight => row[r].status = "verified" /\ row[r].session \in Sessions
    /\ row[r].status \notin {"none", "declined"} => row[r].nonce = auth[r].nonce

\* uq_call_network_nonce.
NoncesUnique ==
  \A q, r \in Requests : row[q].nonce = row[r].nonce /\ row[r].nonce # NoNonce => q = r

\* Money moves at settlement, and then in the amount asked for.
MoneyFollowsSettlement ==
  \A r \in Requests :
    /\ pc[r] \in {"idle", "verifying", "admitted", "executed"} => moved[r] = 0
    /\ pc[r] = "idle" => auth[r] = NoAuth
    /\ pc[r] \in {"executed", "answered"} => reading[r] <= auth[r].ceiling
    /\ pc[r] = "answered" => moved[r] = IF answer[r] = "refused" THEN 0 ELSE Asked(r)

Inv ==
  /\ TypeOK
  /\ SessionsHaveRows
  /\ RowsFollowRequests
  /\ NoncesUnique
  /\ MoneyFollowsSettlement
  /\ RecordedIsWhatMoved
  /\ RefusalsAreFree

-----------------------------------------------------------------------------
(* Sessions *)

(* What an authorization says is typed, the absent one included.               *)
LEMMA AuthTyped ==
  ASSUME TypeOK, NEW r \in Requests
  PROVE  /\ auth[r].base \in Nat /\ auth[r].ceiling \in Nat
         /\ auth[r].scheme \in Schemes
         /\ auth[r].payer \in {a.payer : a \in Authorizations} \cup {NoPayer}
         /\ auth[r].nonce \in {a.nonce : a \in Authorizations} \cup {NoNonce}
BY AuthorizationShape DEF TypeOK, NoAuth, Schemes

(* There is a free session for a request that has no row yet: every session in *)
(* use is the session of another request's row.                                *)
LEMMA SessionFree ==
  ASSUME TypeOK, SessionsHaveRows, NEW r \in Requests, row[r] = NoRow
  PROVE  NextSession \in Sessions
<1> DEFINE U == {s \in Sessions : session[s].status # "none"}
           R == {q \in Requests : row[q].status # "none" /\ row[q].session \in U}
           f == [q \in R |-> row[q].session]
<1>1. f \in Surjection(R, U)
  BY DEF Surjection, SessionsHaveRows
<1>2. R \subseteq Requests \ {r}
  BY DEF NoRow
<1>3. IsFiniteSet(Requests \ {r}) /\ Cardinality(Requests \ {r}) = Cardinality(Requests) - 1
  BY RequestsFinite, FS_RemoveElement
<1>4. IsFiniteSet(R) /\ Cardinality(R) <= Cardinality(Requests) - 1
  BY <1>2, <1>3, FS_Subset
<1>5. IsFiniteSet(U) /\ Cardinality(U) <= Cardinality(R)
  BY <1>1, <1>4, FS_Surjection
<1>6. Cardinality(U) \in Nat /\ Cardinality(R) \in Nat /\ Cardinality(Requests) \in Nat
  BY <1>4, <1>5, RequestsFinite, FS_CardinalityType
<1>7. NextSession = 1 + Cardinality(U)
  BY DEF NextSession
<1> QED  BY <1>4, <1>5, <1>6, <1>7 DEF Sessions

(* open_or_reuse_session returns a session with a well-formed row.             *)
LEMMA SessionFound ==
  ASSUME TypeOK, SessionsHaveRows, NEW r \in Requests, row[r] = NoRow
  PROVE  /\ SessionFor(auth[r]) \in Sessions
         /\ OpenSessions(auth[r]) # {} => SessionFor(auth[r]) \in OpenSessions(auth[r])
         /\ SessionRow(auth[r]) \in SessionRecord
         /\ SessionRow(auth[r]).status = "open"
<1> DEFINE O == OpenSessions(auth[r])
<1>1. CASE O = {}
  <2>1. SessionFor(auth[r]) \in Sessions
    BY <1>1, SessionFree DEF SessionFor
  <2>2. SessionRow(auth[r]) = [NoSession EXCEPT !.status = "open", !.payer = auth[r].payer,
                                                !.scheme = auth[r].scheme]
    BY <1>1 DEF SessionRow
  <2>3. SessionRow(auth[r]) =
          [status |-> "open", payer |-> auth[r].payer, scheme |-> auth[r].scheme,
           captured |-> 0, settled |-> 0, calls |-> 0, declined |-> 0]
    BY <2>2 DEF NoSession
  <2> QED  BY <1>1, <2>1, <2>3, AuthTyped DEF SessionRecord
<1>2. CASE O # {}
  <2>1. \A s \in O : s \in Sessions /\ session[s].status = "open"
    BY DEF OpenSessions
  <2>2. \E s \in O : \A t \in O : t <= s
    <3>1. Cardinality(Requests) \in Nat /\ O \in SUBSET (1..Cardinality(Requests))
      BY <2>1, RequestsFinite, FS_CardinalityType DEF Sessions
    <3> QED  BY <1>2, <3>1, GreatestOfNaturals
  <2>3. SessionFor(auth[r]) \in O
    BY <1>2, <2>2 DEF SessionFor
  <2>4. SessionRow(auth[r]) = session[SessionFor(auth[r])]
    BY <1>2 DEF SessionRow
  <2> QED  BY <2>1, <2>3, <2>4 DEF TypeOK
<1> QED  BY <1>1, <1>2

-----------------------------------------------------------------------------
(* The actions *)

LEMMA InitInv == Init => Inv
<1> SUFFICES ASSUME Init PROVE Inv
  OBVIOUS
<1>1. TypeOK
  BY DEF Init, TypeOK, PCs, NoAuth, NoSession, NoRow, SessionRecord, RowRecord, Schemes, InFlight
<1>2. SessionsHaveRows
  BY DEF Init, SessionsHaveRows, NoSession
<1>3. RowsFollowRequests /\ NoncesUnique /\ MoneyFollowsSettlement
  BY DEF Init, RowsFollowRequests, NoncesUnique, MoneyFollowsSettlement, InFlight, NoRow
<1>4. RecordedIsWhatMoved /\ RefusalsAreFree
  BY DEF Init, RecordedIsWhatMoved, RefusalsAreFree, Recorded, NoRow, NoAuth
<1> QED  BY <1>1, <1>2, <1>3, <1>4 DEF Inv

(* A step that leaves the ledger and the money alone and ends the request, or  *)
(* kills several, keeps everything.                                            *)
LEMMA EndInv ==
  ASSUME Inv, UNCHANGED <<auth, reading, answer, ledgerVars, moved, overlapped>>,
         pc' \in [Requests -> PCs],
         \A r \in Requests : pc'[r] = pc[r] \/ pc'[r] \in {"done", "dead"}
  PROVE  Inv'
<1>1. TypeOK' /\ SessionsHaveRows' /\ NoncesUnique'
  BY DEF Inv, TypeOK, SessionsHaveRows, NoncesUnique, ledgerVars
<1>2. RowsFollowRequests' /\ MoneyFollowsSettlement'
  BY DEF Inv, RowsFollowRequests, MoneyFollowsSettlement, InFlight, ledgerVars, Asked
<1>3. RecordedIsWhatMoved' /\ RefusalsAreFree'
  BY DEF Inv, RecordedIsWhatMoved, RefusalsAreFree, Recorded, ledgerVars
<1> QED  BY <1>1, <1>2, <1>3 DEF Inv

LEMMA PresentInv ==
  ASSUME Inv, NEW r \in Requests, NEW a \in Authorizations, Present(r, a)
  PROVE  Inv'
<1> USE DEF Present, Goto, ledgerVars
<1>1. TypeOK' /\ SessionsHaveRows' /\ NoncesUnique'
  BY DEF Inv, TypeOK, PCs, SessionsHaveRows, NoncesUnique
<1>2. RowsFollowRequests' /\ MoneyFollowsSettlement'
  BY DEF Inv, TypeOK, RowsFollowRequests, MoneyFollowsSettlement, InFlight, Asked, NoRow
<1>3. a.ceiling \in Nat /\ moved[r] = 0 /\ row[r] = NoRow
  BY AuthorizationShape DEF Inv, MoneyFollowsSettlement, RowsFollowRequests
<1>4. RecordedIsWhatMoved' /\ RefusalsAreFree'
  BY <1>3 DEF Inv, TypeOK, RecordedIsWhatMoved, RefusalsAreFree, Recorded, NoRow
<1> QED  BY <1>1, <1>2, <1>4 DEF Inv

LEMMA ExecuteInv ==
  ASSUME Inv, NEW r \in Requests, NEW units \in Consumed, Execute(r, units)
  PROVE  Inv'
<1> USE DEF Execute, Goto, ledgerVars
<1>1. Metered(auth[r], units) \in Nat /\ Metered(auth[r], units) <= auth[r].ceiling
  BY AuthTyped, AmountShape DEF Inv, Metered
<1>2. TypeOK' /\ SessionsHaveRows' /\ NoncesUnique'
  BY <1>1 DEF Inv, TypeOK, PCs, InFlight, SessionsHaveRows, NoncesUnique
<1>3. RowsFollowRequests' /\ MoneyFollowsSettlement'
  BY <1>1 DEF Inv, TypeOK, RowsFollowRequests, MoneyFollowsSettlement, InFlight, Asked
<1>4. RecordedIsWhatMoved' /\ RefusalsAreFree'
  BY DEF Inv, TypeOK, RecordedIsWhatMoved, RefusalsAreFree, Recorded
<1> QED  BY <1>2, <1>3, <1>4 DEF Inv

LEMMA AskedTyped ==
  ASSUME Inv, NEW r \in Requests, pc[r] = "executed"
  PROVE  Asked(r) \in Nat /\ Asked(r) <= auth[r].ceiling
BY AuthTyped DEF Inv, TypeOK, MoneyFollowsSettlement, Asked

\* The facilitator acts, and what it collected is what it was asked for.
LEMMA MoveInv ==
  ASSUME Inv, NEW r \in Requests, pc[r] = "executed",
         moved' = [moved EXCEPT ![r] = Asked(r)] \/ moved' = moved,
         UNCHANGED <<auth, reading, ledgerVars, overlapped>>
  PROVE  RecordedIsWhatMoved' /\ RefusalsAreFree' /\ moved' \in [Requests -> Nat]
<1>1. row[r].status = "verified"
  BY DEF Inv, RowsFollowRequests, InFlight
<1> QED
  BY <1>1, AskedTyped DEF Inv, TypeOK, RecordedIsWhatMoved, RefusalsAreFree, Recorded, ledgerVars

LEMMA SettleInv ==
  ASSUME Inv, NEW r \in Requests, NEW reported \in {"same", "absent", "different"},
         Settle(r, reported)
  PROVE  Inv'
<1> USE DEF Settle, Goto
<1>1. RecordedIsWhatMoved' /\ RefusalsAreFree' /\ moved' \in [Requests -> Nat]
  BY MoveInv
<1>2. TypeOK' /\ SessionsHaveRows' /\ NoncesUnique'
  BY <1>1 DEF Inv, TypeOK, PCs, InFlight, SessionsHaveRows, NoncesUnique, ledgerVars
<1>3. RowsFollowRequests' /\ MoneyFollowsSettlement'
  BY DEF Inv, TypeOK, RowsFollowRequests, MoneyFollowsSettlement, InFlight, Asked, ledgerVars
<1> QED  BY <1>1, <1>2, <1>3 DEF Inv

LEMMA RefuseSettleInv ==
  ASSUME Inv, NEW r \in Requests, RefuseSettle(r)
  PROVE  Inv'
<1> USE DEF RefuseSettle, Goto
<1>1. RecordedIsWhatMoved' /\ RefusalsAreFree' /\ moved' \in [Requests -> Nat]
  BY MoveInv
<1>2. TypeOK' /\ SessionsHaveRows' /\ NoncesUnique'
  BY <1>1 DEF Inv, TypeOK, PCs, InFlight, SessionsHaveRows, NoncesUnique, ledgerVars
<1>3. RowsFollowRequests' /\ MoneyFollowsSettlement'
  BY DEF Inv, TypeOK, RowsFollowRequests, MoneyFollowsSettlement, InFlight, Asked, ledgerVars
<1> QED  BY <1>1, <1>2, <1>3 DEF Inv

LEMMA SettleRaisesInv ==
  ASSUME Inv, NEW r \in Requests, NEW acted \in BOOLEAN, SettleRaises(r, acted)
  PROVE  Inv'
<1> USE DEF SettleRaises, Goto
<1>1. RecordedIsWhatMoved' /\ RefusalsAreFree' /\ moved' \in [Requests -> Nat]
  BY MoveInv
<1>2. TypeOK' /\ SessionsHaveRows' /\ NoncesUnique'
  BY <1>1 DEF Inv, TypeOK, PCs, InFlight, SessionsHaveRows, NoncesUnique, ledgerVars
<1>3. RowsFollowRequests' /\ MoneyFollowsSettlement'
  BY DEF Inv, TypeOK, RowsFollowRequests, MoneyFollowsSettlement, InFlight, Asked, ledgerVars
<1> QED  BY <1>1, <1>2, <1>3 DEF Inv

\* A call in flight fails: nothing was collected, or the amounts disagree.
LEMMA FailInv ==
  ASSUME Inv, NEW r \in Requests, pc[r] \in InFlight,
         NEW error \in {"handler", "refused", "different"},
         error # "different" => moved[r] = 0,
         Fail(r, error), Goto(r, "done"),
         UNCHANGED <<auth, reading, answer, moved, overlapped>>
  PROVE  Inv'
<1> USE DEF Fail, Goto
<1>1. row[r].status = "verified" /\ row[r] \in RowRecord
  BY DEF Inv, RowsFollowRequests, TypeOK
<1>2. row'[r] = [status |-> "failed", session |-> row[r].session, nonce |-> row[r].nonce,
                 captured |-> row[r].captured, error |-> error]
  BY <1>1 DEF Inv, TypeOK, RowRecord
<1>3. \A q \in Requests \ {r} : row'[q] = row[q] /\ pc'[q] = pc[q]
  BY DEF Inv, TypeOK
<1>4. TypeOK'
  <2>1. row' \in [Requests -> RowRecord]
    BY <1>1, <1>2, <1>3 DEF Inv, TypeOK, RowRecord
  <2> QED  BY <2>1 DEF Inv, TypeOK, PCs
<1>5. SessionsHaveRows' /\ NoncesUnique'
  BY <1>1, <1>2, <1>3 DEF Inv, SessionsHaveRows, NoncesUnique
<1>6. RowsFollowRequests' /\ MoneyFollowsSettlement'
  BY <1>1, <1>2, <1>3 DEF Inv, TypeOK, RowsFollowRequests, MoneyFollowsSettlement, InFlight, Asked
<1>7. RecordedIsWhatMoved' /\ RefusalsAreFree'
  BY <1>2, <1>3 DEF Inv, RecordedIsWhatMoved, RefusalsAreFree, Recorded
<1> QED  BY <1>4, <1>5, <1>6, <1>7 DEF Inv

\* Admission: the request gets the one row of its nonce, in an open session.
LEMMA BeginInv ==
  ASSUME Inv, NEW r \in Requests, NEW refused \in BOOLEAN, Begin(r, refused)
  PROVE  Inv'
<1> DEFINE a == auth[r]
           s == SessionFor(a)
           declined == refused \/ Refuses(SessionRow(a), a) \/ Replayed(a)
           opened == SessionRow(a)
           sess == [opened EXCEPT !.declined = IF declined THEN @ + 1 ELSE @]
           new == [status |-> IF declined THEN "declined" ELSE "verified",
                   session |-> s,
                   nonce |-> IF Replayed(a) THEN NoNonce ELSE a.nonce,
                   captured |-> 0, error |-> "none"]
<1>1. /\ pc[r] = "verifying"
      /\ session' = [session EXCEPT ![s] = sess]
      /\ row' = [row EXCEPT ![r] = new]
      /\ pc' = [pc EXCEPT ![r] = IF declined THEN "done" ELSE "admitted"]
      /\ overlapped' \in {overlapped, overlapped \cup {s}}
      /\ UNCHANGED <<auth, reading, answer, tool, moved>>
  BY DEF Begin, Goto
<1>2. row[r] = NoRow /\ moved[r] = 0
  BY <1>1 DEF Inv, RowsFollowRequests, MoneyFollowsSettlement
<1>3. s \in Sessions /\ opened \in SessionRecord /\ opened.status = "open"
  BY <1>2, SessionFound DEF Inv
<1>4. /\ sess \in SessionRecord /\ sess.status = "open" /\ sess.payer = opened.payer
  BY <1>3 DEF SessionRecord
<1>5. /\ new = [status |-> IF declined THEN "declined" ELSE "verified", session |-> s,
                nonce |-> IF Replayed(a) THEN NoNonce ELSE a.nonce,
                captured |-> 0, error |-> "none"]
      /\ new \in RowRecord
  <2> DEFINE status == IF declined THEN "declined" ELSE "verified"
             nonce == IF Replayed(a) THEN NoNonce ELSE a.nonce
  <2>1. new = [status |-> status, session |-> s, nonce |-> nonce,
               captured |-> 0, error |-> "none"]
    OBVIOUS
  <2>2. /\ status \in {"none", "verified", "declined", "failed", "captured", "settled"}
        /\ nonce \in {x.nonce : x \in Authorizations} \cup {NoNonce}
    BY AuthTyped DEF Inv
  <2> HIDE DEF status, nonce, new
  <2>3. new \in RowRecord
    BY <1>3, <2>1, <2>2 DEF RowRecord
  <2> QED  BY <2>1, <2>3 DEF status, nonce
<1> HIDE DEF sess, new, opened, s, declined
<1>6. /\ session'[s] = sess /\ \A t \in Sessions \ {s} : session'[t] = session[t]
      /\ row'[r] = new /\ \A q \in Requests \ {r} : row'[q] = row[q] /\ pc'[q] = pc[q]
      /\ pc'[r] = IF declined THEN "done" ELSE "admitted"
  BY <1>1, <1>3 DEF Inv, TypeOK
<1>7. TypeOK'
  <2>1. session' \in [Sessions -> SessionRecord] /\ row' \in [Requests -> RowRecord]
    BY <1>1, <1>4, <1>5 DEF Inv, TypeOK
  <2>2. pc' \in [Requests -> PCs] /\ overlapped' \subseteq Sessions
    BY <1>1, <1>3 DEF Inv, TypeOK, PCs, InFlight
  <2> QED  BY <1>1, <2>1, <2>2 DEF Inv, TypeOK, SessionRecord, RowRecord
<1>8. SessionsHaveRows'
  <2>1. ASSUME NEW t \in Sessions, session'[t].status # "none"
        PROVE  \E q \in Requests : row'[q].status # "none" /\ row'[q].session = t
    <3>1. CASE t = s
      BY <3>1, <1>5, <1>6
    <3>2. CASE t # s
      <4>1. PICK q \in Requests : row[q].status # "none" /\ row[q].session = t
        BY <1>6, <2>1, <3>2 DEF Inv, SessionsHaveRows
      <4>2. q # r
        BY <4>1, <1>2 DEF NoRow
      <4> QED  BY <4>1, <4>2, <1>6
    <3> QED  BY <3>1, <3>2
  <2> QED  BY <2>1 DEF SessionsHaveRows
<1>10. NoncesUnique'
  <2>1. ASSUME NEW q \in Requests, q # r, new.nonce # NoNonce
        PROVE  row[q].nonce # new.nonce
    BY <2>1, <1>5 DEF Replayed
  <2> QED  BY <2>1, <1>6 DEF Inv, NoncesUnique
<1>11. RowsFollowRequests'
  <2>1. ~declined => ~Replayed(a)
    BY DEF declined
  <2> QED
    BY <2>1, <1>1, <1>3, <1>5, <1>6 DEF Inv, RowsFollowRequests, InFlight
<1>12. MoneyFollowsSettlement'
  BY <1>1, <1>2, <1>6 DEF Inv, MoneyFollowsSettlement, InFlight, Asked
<1>13. RecordedIsWhatMoved' /\ RefusalsAreFree'
  BY <1>1, <1>2, <1>5, <1>6 DEF Inv, RecordedIsWhatMoved, RefusalsAreFree, Recorded
<1> QED
  BY <1>7, <1>8, <1>10, <1>11, <1>12, <1>13 DEF Inv

LEMMA CreditedTyped ==
  ASSUME NEW s, session[s] \in SessionRecord, NEW r, Booked(r) \in Nat
  PROVE  /\ Credited(s, r) \in SessionRecord
         /\ Credited(s, r).payer = session[s].payer
         /\ Credited(s, r).status \in {"frozen", session[s].status}
<1> DEFINE total == session[s].captured + Booked(r)
           settled == IF Settles(r) THEN session[s].settled + Booked(r)
                                    ELSE session[s].settled
           status == IF Budget # NoLimit /\ total >= Budget THEN "frozen" ELSE session[s].status
<1>1. /\ total \in Nat /\ settled \in Nat /\ session[s].calls + 1 \in Nat
      /\ status \in {"frozen", session[s].status}
  BY DEF SessionRecord
<1>2. Credited(s, r) = [session[s] EXCEPT !.captured = total, !.calls = session[s].calls + 1,
                                          !.settled = settled, !.status = status]
  BY Zenon DEF Credited
<1> HIDE DEF total, settled, status
<1> QED  BY <1>1, <1>2 DEF SessionRecord

LEMMA CaptureInv ==
  ASSUME Inv, NEW r \in Requests, Capture(r)
  PROVE  Inv'
<1> DEFINE s == row[r].session
           status == IF Settles(r) THEN "settled" ELSE "captured"
<1>1. /\ row[r].status = "verified" /\ row[r] \in RowRecord
      /\ s \in Sessions /\ session[s] \in SessionRecord
      /\ Booked(r) \in Nat /\ moved[r] = Booked(r)
  <2>1. moved[r] = Asked(r) /\ reading[r] \in Nat
    BY DEF Capture, Inv, TypeOK, MoneyFollowsSettlement
  <2> QED
    BY <2>1, AuthTyped DEF Capture, Inv, TypeOK, RowsFollowRequests, InFlight, Booked, Asked
<1>2. /\ row' = [row EXCEPT ![r] = [@ EXCEPT !.captured = Booked(r), !.status = status]]
      /\ session' = [session EXCEPT ![s] = Credited(s, r)]
      /\ tool' = [calls |-> tool.calls + 1, captured |-> tool.captured + Booked(r)]
      /\ pc' = [pc EXCEPT ![r] = "done"]
      /\ UNCHANGED <<auth, reading, answer, moved, overlapped>>
  BY DEF Capture, SessionOf, Goto
<1> HIDE DEF status
<1>3. /\ row'[r] = [status |-> status, session |-> s, nonce |-> row[r].nonce,
                    captured |-> Booked(r), error |-> row[r].error]
      /\ \A q \in Requests \ {r} : row'[q] = row[q] /\ pc'[q] = pc[q]
      /\ pc'[r] = "done"
  BY <1>1, <1>2 DEF Inv, TypeOK, RowRecord
<1>4. /\ session'[s] \in SessionRecord /\ session'[s].payer = session[s].payer
      /\ session'[s].status \in {"frozen", session[s].status}
      /\ \A t \in Sessions \ {s} : session'[t] = session[t]
  BY <1>1, <1>2, CreditedTyped DEF Inv, TypeOK
<1>5. status \in {"settled", "captured"}
  BY DEF status
<1>6. TypeOK'
  <2>1. row' \in [Requests -> RowRecord]
    BY <1>1, <1>2, <1>3, <1>5 DEF Inv, TypeOK, RowRecord
  <2>2. session' \in [Sessions -> SessionRecord]
    BY <1>2, <1>4 DEF Inv, TypeOK
  <2>3. pc' \in [Requests -> PCs] /\ tool' \in [calls : Nat, captured : Nat]
    BY <1>1, <1>2 DEF Inv, TypeOK, PCs
  <2> QED  BY <1>2, <2>1, <2>2, <2>3 DEF Inv, TypeOK, SessionRecord, RowRecord
<1>7. SessionsHaveRows'
  BY <1>1, <1>3, <1>4, <1>5 DEF Inv, SessionsHaveRows
<1>9. NoncesUnique'
  BY <1>1, <1>3 DEF Inv, NoncesUnique
<1>10. RowsFollowRequests' /\ MoneyFollowsSettlement'
  BY <1>1, <1>2, <1>3 DEF Inv, RowsFollowRequests, MoneyFollowsSettlement, InFlight, Asked
<1>11. RecordedIsWhatMoved' /\ RefusalsAreFree'
  BY <1>1, <1>2, <1>3, <1>5 DEF Inv, RecordedIsWhatMoved, RefusalsAreFree, Recorded
<1> QED  BY <1>6, <1>7, <1>9, <1>10, <1>11 DEF Inv

-----------------------------------------------------------------------------
(* The theorems *)

LEMMA NextInv ==
  ASSUME Inv, [Next]_vars PROVE Inv'
<1>1. ASSUME NEW r \in Requests, Serve(r) PROVE Inv'
  <2>1. CASE HandlerRaises(r)
    <3>1. pc[r] \in InFlight /\ moved[r] = 0
      BY <2>1 DEF HandlerRaises, Inv, MoneyFollowsSettlement, InFlight
    <3> QED  BY <2>1, <3>1, FailInv DEF HandlerRaises
  <2>2. CASE RecordFailure(r)
    <3>1. pc[r] \in InFlight /\ (answer[r] # "different" => moved[r] = 0)
      BY <2>2 DEF RecordFailure, Inv, MoneyFollowsSettlement, InFlight
    <3> QED  BY <2>2, <3>1, FailInv DEF RecordFailure
  <2>3. CASE Reject(r) \/ DeclarationRaises(r) \/ CaptureRaises(r)
    BY <2>3, EndInv DEF Inv, TypeOK, PCs, Reject, DeclarationRaises, CaptureRaises, Goto
  <2> QED
    BY <1>1, <2>1, <2>2, <2>3, PresentInv, BeginInv, ExecuteInv, SettleInv, RefuseSettleInv,
       SettleRaisesInv, CaptureInv DEF Serve
<1>2. CASE Crash
  BY <1>2, EndInv DEF Inv, TypeOK, PCs, Crash
<1>3. CASE UNCHANGED vars
  <2>1. UNCHANGED <<auth, reading, answer, ledgerVars, moved, overlapped>> /\ pc' = pc
    BY <1>3 DEF vars
  <2> QED  BY <2>1, EndInv DEF Inv, TypeOK
<1> QED  BY <1>1, <1>2, <1>3 DEF Next

LEMMA Invariance == Spec => []Inv
<1>1. Init => Inv
  BY InitInv
<1>2. Inv /\ [Next]_vars => Inv'
  BY NextInv
<1> QED  BY <1>1, <1>2, PTL DEF Spec

(* The rows, the sessions and the requests are always well typed; a session id *)
(* is never missing for a payer that needs one.                                *)
THEOREM TypeCorrect == Spec => []TypeOK
<1>1. Inv => TypeOK
  BY DEF Inv
<1> QED  BY <1>1, Invariance, PTL

(* However often an authorization is presented, at most one request gets past  *)
(* admission on its nonce, declines and crashes included.                      *)
THEOREM NoReplay == Spec => []OneAdmissionPerNonce
<1>1. Inv => OneAdmissionPerNonce
  BY DEF Inv, OneAdmissionPerNonce, NoncesUnique, RowsFollowRequests
<1> QED  BY <1>1, Invariance, PTL

(* A call the ledger counts as paid is recorded at what was collected for it,  *)
(* and nothing is collected above its authorization.                           *)
THEOREM LedgerTellsTheTruth == Spec => []RecordedIsWhatMoved
<1>1. Inv => RecordedIsWhatMoved
  BY DEF Inv
<1> QED  BY <1>1, Invariance, PTL

(* Nothing is collected for a call that was declined, whose tool failed or     *)
(* whose settlement the facilitator refused.                                   *)
THEOREM RefusalsCostNothing == Spec => []RefusalsAreFree
<1>1. Inv => RefusalsAreFree
  BY DEF Inv
<1> QED  BY <1>1, Invariance, PTL

(* Admission reuses the payer's open session, or opens one when it has none.   *)
LEMMA BeginOneOpen ==
  ASSUME Inv, OneOpenSession, NEW r \in Requests, NEW refused \in BOOLEAN, Begin(r, refused)
  PROVE  OneOpenSession'
<1>0. PICK s : s = SessionFor(auth[r])
  OBVIOUS
<1> DEFINE a == auth[r]
           declined == refused \/ Refuses(SessionRow(a), a) \/ Replayed(a)
           opened == SessionRow(a)
           sess == [opened EXCEPT !.declined = IF declined THEN @ + 1 ELSE @]
<1>1. pc[r] = "verifying" /\ session' = [session EXCEPT ![s] = sess]
  BY <1>0 DEF Begin
<1>2. row[r] = NoRow
  BY <1>1 DEF Inv, RowsFollowRequests
<1>3. s \in Sessions /\ opened \in SessionRecord /\ opened.status = "open"
  BY <1>0, <1>2, SessionFound DEF Inv
<1>4. ASSUME NEW t \in Sessions, t # s, session[t].status = "open"
      PROVE  session[t].payer # opened.payer
  <2>1. CASE OpenSessions(a) = {}
    <3>1. opened.payer = a.payer
      BY <2>1 DEF SessionRow, NoSession
    <3> QED  BY <1>4, <2>1, <3>1 DEF OpenSessions
  <2>2. CASE OpenSessions(a) # {}
    <3>1. opened = session[s] /\ session[s].status = "open"
      BY <1>0, <1>3, <2>2 DEF SessionRow
    <3> QED  BY <1>3, <1>4, <3>1 DEF OneOpenSession
  <2> QED  BY <2>1, <2>2
<1> HIDE DEF opened, declined
<1>5. sess.status = "open" /\ sess.payer = opened.payer
  BY <1>3 DEF SessionRecord
<1> HIDE DEF sess
<1>6. session'[s] = sess /\ \A t \in Sessions \ {s} : session'[t] = session[t]
  BY <1>1, <1>3 DEF Inv, TypeOK
<1> QED  BY <1>4, <1>5, <1>6 DEF OneOpenSession, Sessions

\* Nothing else opens a session; a capture may freeze it.
LEMMA NextOneOpen ==
  ASSUME Inv, OneOpenSession, [Next]_vars PROVE OneOpenSession'
<1>1. CASE UNCHANGED session
  BY <1>1 DEF OneOpenSession, Sessions
<1>2. ASSUME NEW r \in Requests, Capture(r) PROVE OneOpenSession'
  <2>1. PICK s : s = row[r].session
    OBVIOUS
  <2>2. s \in Sessions /\ session[s] \in SessionRecord /\ Booked(r) \in Nat
    BY <1>2, <2>1, AuthTyped DEF Capture, Inv, TypeOK, RowsFollowRequests, InFlight, Booked
  <2>3. session' = [session EXCEPT ![s] = Credited(s, r)]
    BY <1>2, <2>1 DEF Capture, SessionOf
  <2>4. /\ session'[s].payer = session[s].payer
        /\ session'[s].status \in {"frozen", session[s].status}
        /\ \A t \in Sessions \ {s} : session'[t] = session[t]
    BY <2>2, <2>3, CreditedTyped DEF Inv, TypeOK
  <2> QED  BY <2>4 DEF OneOpenSession, Sessions
<1>3. ASSUME NEW r \in Requests, Serve(r) PROVE OneOpenSession'
  BY <1>1, <1>2, <1>3, BeginOneOpen
     DEF Serve, Present, Reject, Execute, DeclarationRaises, Settle, RefuseSettle, SettleRaises,
         CaptureRaises, HandlerRaises, RecordFailure, Fail, ledgerVars
<1>4. Crash \/ UNCHANGED vars => UNCHANGED session
  BY DEF Crash, vars, ledgerVars
<1> QED  BY <1>1, <1>3, <1>4 DEF Next

LEMMA InitOneOpen == Init => OneOpenSession
BY DEF Init, OneOpenSession, NoSession

(* Concurrent first calls of a payer share one session and so one budget.      *)
THEOREM OneBudgetPerPayer == Spec => []OneOpenSession
<1>1. Inv /\ OneOpenSession /\ [Next]_vars => OneOpenSession'
  BY NextOneOpen
<1> QED  BY <1>1, InitOneOpen, Invariance, PTL DEF Spec

-----------------------------------------------------------------------------
(* Totals *)

\* Sessions are opened in the order of their ids; one not opened yet has nothing
\* in its totals, and no row.
SessionsInOrder ==
  /\ \A s \in Sessions :
       /\ session[s].status # "none" => \A t \in 1..s : session[t].status # "none"
       /\ session[s].status = "none" =>
            /\ session[s].captured = 0 /\ session[s].settled = 0
            /\ session[s].calls = 0 /\ session[s].declined = 0
  /\ \A r \in Requests :
       row[r].status # "none" =>
         row[r].session \in Sessions /\ session[row[r].session].status # "none"

TotalsInv == SessionsInOrder /\ TotalsMatchCalls

\* The parts of TotalsMatchCalls.
Booking == [r \in Requests |-> row[r].captured]
SettledIn(s) == {r \in CapturedIn(s) : row[r].status = "settled"}
DeclinedIn(s) == {r \in Requests : row[r].session = s /\ row[r].status = "declined"}
RecordedCalls == {r \in Requests : Recorded(r)}
SessionAdds(s) ==
  /\ session[s].captured = Total(CapturedIn(s), Booking)
  /\ session[s].settled = Total(SettledIn(s), Booking)
  /\ session[s].calls = Cardinality(CapturedIn(s))
  /\ session[s].declined = Cardinality(DeclinedIn(s))
ToolAdds ==
  tool = [calls |-> Cardinality(RecordedCalls), captured |-> Total(RecordedCalls, Booking)]

LEMMA TotalsParts == TotalsMatchCalls <=> (\A s \in Sessions : SessionAdds(s)) /\ ToolAdds
BY DEF TotalsMatchCalls, SessionAdds, ToolAdds, SettledIn, DeclinedIn, RecordedCalls, Booking

LEMMA TotalsPartsNext == TotalsMatchCalls' <=> (\A s \in Sessions : SessionAdds(s)') /\ ToolAdds'
BY DEF TotalsMatchCalls, SessionAdds, ToolAdds, SettledIn, DeclinedIn, RecordedCalls, Booking,
       Sessions

(* All of these are finite.                                                   *)
LEMMA CallsFinite ==
  ASSUME NEW s
  PROVE  /\ IsFiniteSet(CapturedIn(s)) /\ IsFiniteSet(SettledIn(s))
         /\ IsFiniteSet(DeclinedIn(s)) /\ IsFiniteSet(RecordedCalls)
<1>1. /\ CapturedIn(s) \subseteq Requests /\ SettledIn(s) \subseteq Requests
      /\ DeclinedIn(s) \subseteq Requests /\ RecordedCalls \subseteq Requests
  BY DEF CapturedIn, SettledIn, DeclinedIn, RecordedCalls
<1> QED  BY <1>1, RequestsFinite, FS_Subset

(* A new session is one that no row is in.                                    *)
LEMMA NextSessionUnused ==
  ASSUME SessionsInOrder, NextSession \in Sessions
  PROVE  session[NextSession].status = "none" /\ \A t \in 1..NextSession - 1 : session[t].status # "none"
<1> DEFINE n == Cardinality(Requests)
           U == {s \in Sessions : session[s].status # "none"}
           c == Cardinality(U)
<1>1. n \in Nat
  BY RequestsFinite, FS_CardinalityType
<1>2. U \in SUBSET (1..n) /\ \A i \in U : 1..i \subseteq U
  BY <1>1 DEF SessionsInOrder, Sessions
<1>3. c \in 0..n /\ U = 1..c
  <2> HIDE DEF U
  <2> QED  BY <1>1, <1>2, FirstOnes
<1>4. NextSession = 1 + c
  BY DEF NextSession
<1> HIDE DEF c
<1>5. 1 + c \notin 1..c /\ (1 + c) - 1 = c
  BY <1>3
<1> QED  BY <1>3, <1>4, <1>5

(* A step that changes no total and no recorded or declined call.             *)
LEMMA TotalsAlone ==
  ASSUME TotalsMatchCalls, UNCHANGED tool,
         \A s \in Sessions :
           /\ session'[s].captured = session[s].captured /\ session'[s].settled = session[s].settled
           /\ session'[s].calls = session[s].calls /\ session'[s].declined = session[s].declined,
         \A r \in Requests :
           \/ row'[r].status = row[r].status /\ row'[r].session = row[r].session
              /\ row'[r].captured = row[r].captured
           \/ /\ row[r].status \notin {"declined", "captured", "settled"}
              /\ row'[r].status \notin {"declined", "captured", "settled"}
  PROVE  TotalsMatchCalls'
<1>1. ASSUME NEW s
      PROVE  /\ CapturedIn(s)' = CapturedIn(s) /\ SettledIn(s)' = SettledIn(s)
             /\ DeclinedIn(s)' = DeclinedIn(s)
  BY DEF CapturedIn, SettledIn, DeclinedIn, Recorded
<1>2. RecordedCalls' = RecordedCalls
  BY DEF RecordedCalls, Recorded
<1>3. \A r \in RecordedCalls : Booking[r] = Booking'[r]
  BY DEF RecordedCalls, Recorded, Booking
<1>4. ASSUME NEW S \in SUBSET RecordedCalls PROVE Total(S, Booking) = Total(S, Booking')
  BY <1>3, TotalAgree
<1>5. \A s : CapturedIn(s) \in SUBSET RecordedCalls /\ SettledIn(s) \in SUBSET RecordedCalls
  BY DEF CapturedIn, SettledIn, RecordedCalls
<1>6. \A s \in Sessions : SessionAdds(s)'
  BY <1>1, <1>4, <1>5, TotalsParts DEF SessionAdds
<1>7. ToolAdds'
  BY <1>2, <1>4, TotalsParts DEF ToolAdds
<1> QED  BY <1>6, <1>7, TotalsPartsNext

\* A call in flight fails: it was in no total and is in none.
LEMMA FailTotals ==
  ASSUME Inv, TotalsInv, NEW r \in Requests, pc[r] \in InFlight, NEW error, Fail(r, error)
  PROVE  TotalsInv'
<1>1. row[r].status = "verified" /\ row[r] \in RowRecord
  BY DEF Inv, RowsFollowRequests, TypeOK
<1>2. /\ row'[r].status = "failed" /\ row'[r].session = row[r].session
      /\ \A q \in Requests \ {r} : row'[q] = row[q]
      /\ UNCHANGED <<session, tool>>
  BY <1>1 DEF Fail, Inv, TypeOK, RowRecord
<1>3. SessionsInOrder'
  BY <1>1, <1>2 DEF TotalsInv, SessionsInOrder, Sessions
<1>4. TotalsMatchCalls'
  BY <1>1, <1>2, TotalsAlone DEF TotalsInv
<1> QED  BY <1>3, <1>4 DEF TotalsInv

\* The session a request is judged in carries the totals of its calls, new or not.
LEMMA OpenedTotals ==
  ASSUME Inv, SessionsInOrder, NEW r \in Requests, row[r] = NoRow
  PROVE  LET a == auth[r]  s == SessionFor(a)
         IN  /\ s \in Sessions
             /\ \A t \in 1..s - 1 : session[t].status # "none"
             /\ SessionRow(a).captured = session[s].captured
             /\ SessionRow(a).settled = session[s].settled
             /\ SessionRow(a).calls = session[s].calls
             /\ SessionRow(a).declined = session[s].declined
<1> DEFINE a == auth[r]  s == SessionFor(a)
<1>1. s \in Sessions
  BY SessionFound DEF Inv
<1>2. CASE OpenSessions(a) = {}
  <2>1. s = NextSession /\ SessionRow(a) = [NoSession EXCEPT !.status = "open", !.payer = a.payer,
                                                             !.scheme = a.scheme]
    BY <1>2 DEF SessionFor, SessionRow
  <2>2. session[s].status = "none" /\ \A t \in 1..s - 1 : session[t].status # "none"
    BY <1>1, <2>1, NextSessionUnused
  <2> QED  BY <1>1, <2>1, <2>2 DEF NoSession, SessionsInOrder
<1>3. CASE OpenSessions(a) # {}
  <2>1. SessionRow(a) = session[s] /\ SessionRow(a).status = "open"
    BY <1>3, SessionFound DEF SessionRow, Inv
  <2>2. \A t \in 1..s - 1 : t \in 1..s
    BY <1>1 DEF Sessions
  <2>3. \A t \in 1..s - 1 : session[t].status # "none"
    BY <1>1, <2>1, <2>2 DEF SessionsInOrder
  <2> QED  BY <1>1, <2>1, <2>3
<1> QED  BY <1>2, <1>3

\* Admission: a declined call joins the refusals of its session.
LEMMA BeginTotals ==
  ASSUME Inv, TotalsInv, NEW r \in Requests, NEW refused \in BOOLEAN, Begin(r, refused)
  PROVE  TotalsInv'
<1>0. PICK s : s = SessionFor(auth[r])
  OBVIOUS
<1> DEFINE a == auth[r]
           declined == refused \/ Refuses(SessionRow(a), a) \/ Replayed(a)
           opened == SessionRow(a)
           sess == [opened EXCEPT !.declined = IF declined THEN @ + 1 ELSE @]
           nonce == IF Replayed(a) THEN NoNonce ELSE a.nonce
           new == [status |-> IF declined THEN "declined" ELSE "verified", session |-> s,
                   nonce |-> nonce, captured |-> 0, error |-> "none"]
<1>1. /\ pc[r] = "verifying" /\ UNCHANGED tool
      /\ session' = [session EXCEPT ![s] = sess]
      /\ row' = [row EXCEPT ![r] = new]
  BY <1>0 DEF Begin
<1>2. row[r] = NoRow
  BY <1>1 DEF Inv, RowsFollowRequests
<1>3. /\ s \in Sessions /\ opened \in SessionRecord /\ opened.status = "open"
      /\ \A t \in 1..s - 1 : session[t].status # "none"
      /\ opened.captured = session[s].captured /\ opened.settled = session[s].settled
      /\ opened.calls = session[s].calls /\ opened.declined = session[s].declined
  BY <1>0, <1>2, SessionFound, OpenedTotals DEF Inv, TotalsInv
<1> HIDE DEF opened, nonce, declined
<1>4. /\ sess.status = "open" /\ sess.captured = session[s].captured
      /\ sess.settled = session[s].settled /\ sess.calls = session[s].calls
      /\ sess.declined = session[s].declined + (IF declined THEN 1 ELSE 0)
  BY <1>3 DEF SessionRecord
<1>5. /\ new.status = (IF declined THEN "declined" ELSE "verified") /\ new.session = s
  OBVIOUS
<1> HIDE DEF sess, new
<1>6. /\ session'[s] = sess /\ \A t \in Sessions \ {s} : session'[t] = session[t]
      /\ row'[r] = new /\ \A q \in Requests \ {r} : row'[q] = row[q]
  BY <1>1, <1>3 DEF Inv, TypeOK
<1>7. SessionsInOrder'
  <2>1. ASSUME NEW t \in Sessions, session'[t].status # "none", NEW u \in 1..t
        PROVE  session'[u].status # "none"
    <3>1. u \in Sessions /\ (t = s /\ u # s => u \in 1..s - 1)
      BY RequestsFinite, FS_CardinalityType DEF Sessions
    <3> QED  BY <1>3, <1>4, <1>6, <2>1, <3>1 DEF TotalsInv, SessionsInOrder
  <2>2. ASSUME NEW t \in Sessions, session'[t].status = "none"
        PROVE  session'[t] = session[t]
    BY <1>4, <1>6, <2>2
  <2>3. ASSUME NEW q \in Requests, row'[q].status # "none"
        PROVE  row'[q].session \in Sessions /\ session'[row'[q].session].status # "none"
    BY <1>3, <1>4, <1>5, <1>6, <2>3 DEF TotalsInv, SessionsInOrder
  <2> QED  BY <2>1, <2>2, <2>3 DEF TotalsInv, SessionsInOrder, Sessions
<1>8. CASE ~declined
  <2>1. session[s].declined \in Nat
    BY <1>3 DEF Inv, TypeOK, SessionRecord
  <2> QED
    BY <1>1, <1>2, <1>4, <1>5, <1>6, <1>7, <1>8, <2>1, TotalsAlone DEF TotalsInv, NoRow
<1>9. CASE declined
  <2>1. /\ RecordedCalls' = RecordedCalls
        /\ \A q \in RecordedCalls : Booking[q] = Booking'[q]
        /\ \A t \in Sessions : /\ CapturedIn(t)' = CapturedIn(t) /\ SettledIn(t)' = SettledIn(t)
                               /\ CapturedIn(t) \subseteq RecordedCalls
                               /\ SettledIn(t) \subseteq RecordedCalls
    BY <1>2, <1>5, <1>6, <1>9
       DEF RecordedCalls, Recorded, CapturedIn, SettledIn, Booking, NoRow
  <2>2. ASSUME NEW S \in SUBSET RecordedCalls PROVE Total(S, Booking) = Total(S, Booking')
    BY <2>1, TotalAgree
  <2>3. ToolAdds'
    BY <1>1, <2>1, <2>2, TotalsParts DEF TotalsInv, ToolAdds
  <2>4. /\ DeclinedIn(s)' = DeclinedIn(s) \cup {r} /\ r \notin DeclinedIn(s)
        /\ \A t \in Sessions \ {s} : DeclinedIn(t)' = DeclinedIn(t)
    BY <1>2, <1>5, <1>6, <1>9 DEF DeclinedIn, NoRow
  <2>5. Cardinality(DeclinedIn(s)') = Cardinality(DeclinedIn(s)) + 1
    BY <2>4, CallsFinite, FS_AddElement
  <2>6. \A t \in Sessions \ {s} : SessionAdds(t)'
    BY <1>6, <2>1, <2>2, <2>4, TotalsParts DEF TotalsInv, SessionAdds
  <2>7. SessionAdds(s)'
    BY <1>3, <1>4, <1>6, <1>9, <2>1, <2>2, <2>5, TotalsParts DEF TotalsInv, SessionAdds
  <2>8. TotalsMatchCalls'
    BY <2>3, <2>6, <2>7, TotalsPartsNext
  <2> QED  BY <1>7, <2>8 DEF TotalsInv
<1> QED  BY <1>8, <1>9

\* Capture: the call joins the totals of its session and of the tool.
LEMMA CaptureTotals ==
  ASSUME Inv, TotalsInv, NEW r \in Requests, Capture(r)
  PROVE  TotalsInv'
<1>0. PICK s : s = row[r].session
  OBVIOUS
<1> DEFINE cost == Booked(r)
           status == IF Settles(r) THEN "settled" ELSE "captured"
<1>1. /\ row[r].status = "verified" /\ row[r] \in RowRecord
      /\ s \in Sessions /\ session[s] \in SessionRecord /\ cost \in Nat
  BY <1>0, AuthTyped DEF Capture, Inv, TypeOK, RowsFollowRequests, InFlight, Booked
<1>2. /\ row' = [row EXCEPT ![r] = [@ EXCEPT !.captured = cost, !.status = status]]
      /\ session' = [session EXCEPT ![s] = Credited(s, r)]
      /\ tool' = [calls |-> tool.calls + 1, captured |-> tool.captured + cost]
  BY <1>0 DEF Capture, SessionOf
<1>3. /\ Credited(s, r).captured = session[s].captured + cost
      /\ Credited(s, r).calls = session[s].calls + 1
      /\ Credited(s, r).settled = session[s].settled + (IF Settles(r) THEN cost ELSE 0)
      /\ Credited(s, r).status \in {"frozen", session[s].status}
      /\ Credited(s, r).declined = session[s].declined
  BY <1>1 DEF Credited, SessionRecord
<1> HIDE DEF cost, status
<1>4. /\ row'[r].status = status /\ row'[r].session = s /\ row'[r].captured = cost
      /\ \A q \in Requests \ {r} : row'[q] = row[q]
      /\ session'[s] = Credited(s, r) /\ \A t \in Sessions \ {s} : session'[t] = session[t]
  BY <1>0, <1>1, <1>2 DEF Inv, TypeOK, RowRecord
<1>5. status \in {"settled", "captured"} /\ (status = "settled" <=> Settles(r))
  BY DEF status
<1>6. session[s].status # "none"
  BY <1>0, <1>1 DEF TotalsInv, SessionsInOrder
<1>7. SessionsInOrder'
  <2>1. \A t \in Sessions : session'[t].status # "none" <=> session[t].status # "none"
    BY <1>3, <1>4, <1>6
  <2>2. ASSUME NEW t \in Sessions, session'[t].status # "none", NEW u \in 1..t
        PROVE  session'[u].status # "none"
    <3>1. u \in Sessions
      BY RequestsFinite, FS_CardinalityType DEF Sessions
    <3> QED  BY <2>1, <2>2, <3>1 DEF TotalsInv, SessionsInOrder
  <2>3. \A t \in Sessions : session'[t].status = "none" => session'[t] = session[t]
    BY <1>3, <1>4, <1>6
  <2>4. ASSUME NEW q \in Requests, row'[q].status # "none"
        PROVE  row'[q].session \in Sessions /\ session'[row'[q].session].status # "none"
    BY <1>1, <1>4, <1>6, <2>1, <2>4 DEF TotalsInv, SessionsInOrder
  <2> QED  BY <2>2, <2>3, <2>4 DEF TotalsInv, SessionsInOrder, Sessions
<1>8. \A q \in Requests \ {r} : Booking'[q] = Booking[q]
  BY <1>4 DEF Booking
<1>9. Booking'[r] = cost /\ \A q \in RecordedCalls : Booking[q] \in Nat
  BY <1>4 DEF Booking, RecordedCalls, Inv, TypeOK, RowRecord
<1>10. /\ r \notin RecordedCalls /\ RecordedCalls' = RecordedCalls \cup {r}
       /\ \A t \in Sessions : CapturedIn(t) \subseteq RecordedCalls
                              /\ SettledIn(t) \subseteq RecordedCalls
  BY <1>1, <1>4, <1>5 DEF RecordedCalls, Recorded, CapturedIn, SettledIn
<1>11. ASSUME NEW S \in SUBSET RecordedCalls
       PROVE  /\ Total(S, Booking') = Total(S, Booking)
              /\ Total(S \cup {r}, Booking') = Total(S, Booking) + cost
  <2>1. IsFiniteSet(RecordedCalls) /\ r \notin RecordedCalls
    BY <1>10, CallsFinite
  <2>2. Booking'[r] \in Nat /\ SameAmounts(RecordedCalls, Booking, Booking')
    BY <1>1, <1>8, <1>9, <1>10 DEF RecordedCalls, SameAmounts
  <2>3. /\ Total(S, Booking') = Total(S, Booking)
        /\ Total(S \cup {r}, Booking') = Total(S, Booking) + Booking'[r]
    <3> DEFINE more == S \cup {r}
    <3>1. more = S \cup {r} /\ Booking'[r] \in Nat
      BY <2>2
    <3> HIDE DEF more
    <3>2. /\ Total(S, Booking') = Total(S, Booking)
          /\ Total(more, Booking') = Total(S, Booking) + Booking'[r]
      BY <2>1, <2>2, <3>1, TotalJoin
    <3> QED  BY <3>1, <3>2
  <2> QED  BY <1>9, <2>3
<1>12. ToolAdds'
  <2>1. Cardinality(RecordedCalls') = Cardinality(RecordedCalls) + 1
    BY <1>10, CallsFinite, FS_AddElement
  <2>2. Total(RecordedCalls', Booking') = Total(RecordedCalls, Booking) + cost
    BY <1>10, <1>11
  <2>3. tool.calls = Cardinality(RecordedCalls) /\ tool.captured = Total(RecordedCalls, Booking)
    BY TotalsParts DEF TotalsInv, ToolAdds
  <2> QED  BY <1>2, <2>1, <2>2, <2>3 DEF ToolAdds
<1>13. ASSUME NEW t \in Sessions \ {s} PROVE SessionAdds(t)'
  <2>1. /\ CapturedIn(t)' = CapturedIn(t) /\ SettledIn(t)' = SettledIn(t)
        /\ DeclinedIn(t)' = DeclinedIn(t)
    BY <1>0, <1>1, <1>4, <1>5 DEF CapturedIn, SettledIn, DeclinedIn, Recorded
  <2> QED  BY <1>4, <1>10, <1>11, <2>1, TotalsParts, ZenonT(60) DEF TotalsInv, SessionAdds
<1>14. SessionAdds(s)'
  <2>1. /\ CapturedIn(s)' = CapturedIn(s) \cup {r} /\ DeclinedIn(s)' = DeclinedIn(s)
        /\ SettledIn(s)' = IF Settles(r) THEN SettledIn(s) \cup {r} ELSE SettledIn(s)
    BY <1>0, <1>1, <1>4, <1>5 DEF CapturedIn, SettledIn, DeclinedIn, Recorded
  <2>2. Cardinality(CapturedIn(s)') = Cardinality(CapturedIn(s)) + 1
    BY <1>1, <1>10, <2>1, CallsFinite, FS_AddElement
  <2>3. /\ Total(CapturedIn(s)', Booking') = Total(CapturedIn(s), Booking) + cost
        /\ Total(SettledIn(s)', Booking')
             = Total(SettledIn(s), Booking) + (IF Settles(r) THEN cost ELSE 0)
    <3>1. session[s].settled = Total(SettledIn(s), Booking) /\ session[s].settled \in Nat
      BY <1>1, TotalsParts DEF TotalsInv, SessionAdds, SessionRecord
    <3> QED  BY <1>1, <1>10, <1>11, <2>1, <3>1
  <2> QED  BY <1>1, <1>3, <1>4, <2>1, <2>2, <2>3, TotalsParts DEF TotalsInv, SessionAdds
<1>15. TotalsMatchCalls'
  BY <1>12, <1>13, <1>14, TotalsPartsNext
<1> QED  BY <1>7, <1>15 DEF TotalsInv

LEMMA InitTotals == Init => TotalsInv
<1> SUFFICES ASSUME Init PROVE TotalsInv
  OBVIOUS
<1>1. SessionsInOrder
  BY DEF Init, SessionsInOrder, NoSession, NoRow
<1>2. \A s : CapturedIn(s) = {} /\ SettledIn(s) = {} /\ DeclinedIn(s) = {} /\ RecordedCalls = {}
  BY DEF Init, NoRow, CapturedIn, SettledIn, DeclinedIn, RecordedCalls, Recorded
<1>3. Total({}, Booking) = 0 /\ Cardinality({}) = 0
  BY TotalZero, FS_EmptySet
<1>4. (\A s \in Sessions : SessionAdds(s)) /\ ToolAdds
  BY <1>2, <1>3 DEF Init, NoSession, SessionAdds, ToolAdds
<1> QED  BY <1>1, <1>4, TotalsParts DEF TotalsInv

LEMMA NextTotals ==
  ASSUME Inv, TotalsInv, [Next]_vars PROVE TotalsInv'
<1>1. CASE UNCHANGED ledgerVars
  BY <1>1, TotalsAlone DEF TotalsInv, SessionsInOrder, Sessions, ledgerVars
<1>2. ASSUME NEW r \in Requests, Serve(r) PROVE TotalsInv'
  <2>1. CASE HandlerRaises(r) \/ RecordFailure(r)
    BY <2>1, FailTotals DEF HandlerRaises, RecordFailure, InFlight
  <2>2. CASE UNCHANGED ledgerVars
    BY <1>1, <2>2
  <2>3. CASE \E refused \in BOOLEAN : Begin(r, refused)
    BY <2>3, BeginTotals
  <2>4. CASE Capture(r)
    BY <2>4, CaptureTotals
  <2> QED
    BY <1>2, <2>1, <2>2, <2>3, <2>4 DEF Serve, Present, Reject, Execute, DeclarationRaises,
       Settle, RefuseSettle, SettleRaises, CaptureRaises
<1>3. Crash \/ UNCHANGED vars => UNCHANGED ledgerVars
  BY DEF Crash, vars
<1> QED  BY <1>1, <1>2, <1>3 DEF Next

(* Whatever calls of all outcomes run interleaved, and wherever the server     *)
(* dies, the captured and settled totals of every session, its numbers of      *)
(* calls and refusals, and the tool's totals are those of the call rows.       *)
THEOREM TotalsAreOfTheCalls == Spec => []TotalsMatchCalls
<1>1. TotalsInv => TotalsMatchCalls
  BY DEF TotalsInv
<1>2. Inv /\ TotalsInv /\ [Next]_vars => TotalsInv'
  BY NextTotals
<1> QED  BY <1>1, <1>2, InitTotals, Invariance, PTL DEF Spec

-----------------------------------------------------------------------------
(* The budget *)

\* In a session whose calls come one at a time, there is room for the one that
\* is in flight.
SerialRoom ==
  Budget # NoLimit =>
    \A s \in Sessions \ overlapped :
      /\ session[s].captured <= Budget
      /\ \A r \in Requests :
           pc[r] \in InFlight /\ row[r].session = s =>
             /\ session[s].captured + auth[r].ceiling <= Budget
             /\ \A q \in Requests : pc[q] \in InFlight /\ row[q].session = s => q = r

\* A step that admits nothing and leaves the totals alone.
LEMMA RoomAlone ==
  ASSUME Inv, SerialRoom, UNCHANGED overlapped,
         \A s \in Sessions : session'[s].captured = session[s].captured,
         \A r \in Requests :
           pc'[r] \in InFlight =>
             /\ pc[r] \in InFlight /\ auth'[r] = auth[r] /\ row'[r].session = row[r].session
  PROVE  SerialRoom'
BY DEF SerialRoom, InFlight, Sessions

\* Admission: the ceiling of the call still fits, or the session is overlapped.
LEMMA BeginRoom ==
  ASSUME Inv, TotalsInv, SerialRoom,
         NEW r \in Requests, NEW refused \in BOOLEAN, Begin(r, refused)
  PROVE  SerialRoom'
<1>0. PICK s : s = SessionFor(auth[r])
  OBVIOUS
<1> DEFINE a == auth[r]
           declined == refused \/ Refuses(SessionRow(a), a) \/ Replayed(a)
           opened == SessionRow(a)
           sess == [opened EXCEPT !.declined = IF declined THEN @ + 1 ELSE @]
           others == \E q \in Requests : pc[q] \in InFlight /\ row[q].session = s
<1>1. /\ pc[r] = "verifying" /\ UNCHANGED auth
      /\ session' = [session EXCEPT ![s] = sess]
      /\ row'[r].session = s /\ \A q \in Requests \ {r} : row'[q] = row[q]
      /\ pc' = [pc EXCEPT ![r] = IF declined THEN "done" ELSE "admitted"]
      /\ overlapped' = IF ~declined /\ others THEN overlapped \cup {s} ELSE overlapped
  BY <1>0 DEF Begin, Goto, Inv, TypeOK
<1>2. row[r] = NoRow /\ a.ceiling \in Nat
  BY <1>1, AuthTyped DEF Inv, RowsFollowRequests
<1>3. /\ s \in Sessions /\ opened \in SessionRecord
      /\ opened.captured = session[s].captured
  BY <1>0, <1>2, SessionFound, OpenedTotals DEF Inv, TotalsInv
<1>4. ~declined => opened.status = "open" /\ (Budget # NoLimit => opened.captured + a.ceiling <= Budget)
  <2>1. Budget # NoLimit => Budget \in Nat
    BY AmountShape
  <2> QED  BY <1>2, <1>3, <2>1 DEF Refuses, SessionRecord
<1> HIDE DEF opened, declined
<1>5. sess.captured = session[s].captured
  BY <1>3 DEF SessionRecord
<1> HIDE DEF sess
<1>6. \A t \in Sessions : session'[t].captured = session[t].captured
  BY <1>1, <1>3, <1>5 DEF Inv, TypeOK
<1>7. /\ pc'[r] = IF declined THEN "done" ELSE "admitted"
      /\ \A q \in Requests \ {r} : pc'[q] = pc[q]
  BY <1>1 DEF Inv, TypeOK
<1>8. CASE declined
  BY <1>1, <1>6, <1>7, <1>8, RoomAlone DEF InFlight
<1>9. CASE ~declined
  <2> SUFFICES ASSUME Budget # NoLimit, NEW t \in Sessions \ overlapped'
               PROVE  /\ session'[t].captured <= Budget
                      /\ \A p \in Requests :
                           pc'[p] \in InFlight /\ row'[p].session = t =>
                             /\ session'[t].captured + auth'[p].ceiling <= Budget
                             /\ \A q \in Requests :
                                  pc'[q] \in InFlight /\ row'[q].session = t => q = p
    BY DEF SerialRoom, Sessions, InFlight
  <2>1. t \in Sessions \ overlapped
    BY <1>1
  <2>2. CASE t # s
    BY <1>1, <1>6, <1>7, <2>1, <2>2 DEF SerialRoom, InFlight
  <2>3. CASE t = s
    <3>1. ~others
      BY <1>1, <1>9, <2>3
    <3>2. \A q \in Requests : pc'[q] \in InFlight /\ row'[q].session = t => q = r
      BY <1>1, <1>7, <2>3, <3>1
    <3>3. session'[t].captured + auth'[r].ceiling <= Budget
      BY <1>1, <1>3, <1>4, <1>6, <1>9, <2>3
    <3> QED  BY <1>6, <2>1, <3>2, <3>3 DEF SerialRoom
  <2> QED  BY <2>2, <2>3
<1> QED  BY <1>8, <1>9

\* Capture: the one call in flight is booked at no more than its ceiling.
LEMMA CaptureRoom ==
  ASSUME Inv, SerialRoom, NEW r \in Requests, Capture(r)
  PROVE  SerialRoom'
<1>0. PICK s : s = row[r].session
  OBVIOUS
<1>1. /\ s \in Sessions /\ session[s] \in SessionRecord
      /\ Booked(r) \in Nat /\ auth[r].ceiling \in Nat /\ Booked(r) <= auth[r].ceiling
      /\ pc[r] \in InFlight
  BY <1>0, AuthTyped
     DEF Capture, Inv, TypeOK, RowsFollowRequests, MoneyFollowsSettlement, InFlight, Booked
<1>2. /\ session' = [session EXCEPT ![s] = Credited(s, r)] /\ UNCHANGED <<auth, overlapped>>
      /\ pc' = [pc EXCEPT ![r] = "done"]
      /\ \A q \in Requests \ {r} : row'[q] = row[q]
  BY <1>0 DEF Capture, SessionOf, Goto, Inv, TypeOK
<1>3. Credited(s, r).captured = session[s].captured + Booked(r)
  BY <1>1 DEF Credited, SessionRecord
<1>4. /\ session'[s].captured = session[s].captured + Booked(r)
      /\ \A t \in Sessions \ {s} : session'[t] = session[t]
      /\ pc'[r] = "done" /\ \A q \in Requests \ {r} : pc'[q] = pc[q]
  BY <1>1, <1>2, <1>3 DEF Inv, TypeOK
<1> SUFFICES ASSUME Budget # NoLimit, NEW t \in Sessions \ overlapped
             PROVE  /\ session'[t].captured <= Budget
                    /\ \A p \in Requests :
                         pc'[p] \in InFlight /\ row'[p].session = t =>
                           /\ session'[t].captured + auth'[p].ceiling <= Budget
                           /\ \A q \in Requests :
                                pc'[q] \in InFlight /\ row'[q].session = t => q = p
  BY <1>2 DEF SerialRoom, Sessions, InFlight
<1>5. Budget \in Nat /\ session[t].captured \in Nat /\ session[s].captured \in Nat
  BY <1>1, AmountShape DEF Inv, TypeOK, SessionRecord
<1>6. CASE t # s
  BY <1>2, <1>4, <1>6 DEF SerialRoom, InFlight
<1>7. CASE t = s
  <2>1. \A q \in Requests : pc[q] \in InFlight /\ row[q].session = t => q = r
    BY <1>0, <1>1, <1>7 DEF SerialRoom
  <2>2. \A q \in Requests : ~(pc'[q] \in InFlight /\ row'[q].session = t)
    BY <1>2, <1>4, <2>1 DEF InFlight
  <2>3. session[t].captured + auth[r].ceiling <= Budget
    BY <1>0, <1>1, <1>7 DEF SerialRoom
  <2> QED  BY <1>1, <1>4, <1>5, <1>7, <2>2, <2>3
<1> QED  BY <1>6, <1>7

LEMMA InitRoom == Init => SerialRoom
BY AmountShape DEF Init, SerialRoom, InFlight, NoSession

LEMMA NextRoom ==
  ASSUME Inv, TotalsInv, SerialRoom, [Next]_vars PROVE SerialRoom'
<1>1. CASE UNCHANGED <<ledgerVars, overlapped>> /\
           \A r \in Requests : pc'[r] \in InFlight => pc[r] \in InFlight /\ auth'[r] = auth[r]
  BY <1>1, RoomAlone DEF ledgerVars
<1>2. ASSUME NEW r \in Requests, Serve(r) PROVE SerialRoom'
  <2>1. CASE HandlerRaises(r) \/ RecordFailure(r)
    <3>1. \A q \in Requests : pc'[q] \in InFlight => pc[q] \in InFlight /\ row'[q].session = row[q].session
      BY <2>1 DEF HandlerRaises, RecordFailure, Fail, Goto, Inv, TypeOK, InFlight
    <3>2. UNCHANGED <<session, auth, overlapped>>
      BY <2>1 DEF HandlerRaises, RecordFailure, Fail
    <3> QED  BY <3>1, <3>2, RoomAlone
  <2>2. CASE \/ \E a \in Authorizations : Present(r, a)
             \/ Reject(r) \/ \E units \in Consumed : Execute(r, units)
             \/ DeclarationRaises(r)
    BY <1>1, <2>2 DEF Present, Reject, Execute, DeclarationRaises, Goto, InFlight, Inv, TypeOK
  <2>3. CASE \/ \E reported \in {"same", "absent", "different"} : Settle(r, reported)
             \/ RefuseSettle(r) \/ \E acted \in BOOLEAN : SettleRaises(r, acted)
             \/ CaptureRaises(r)
    BY <1>1, <2>3 DEF Settle, RefuseSettle, SettleRaises, CaptureRaises, Goto, InFlight, Inv, TypeOK
  <2>4. CASE \E refused \in BOOLEAN : Begin(r, refused)
    BY <2>4, BeginRoom
  <2>5. CASE Capture(r)
    BY <2>5, CaptureRoom
  <2> QED  BY <1>2, <2>1, <2>2, <2>3, <2>4, <2>5 DEF Serve
<1>3. CASE Crash
  BY <1>1, <1>3 DEF Crash, InFlight
<1>4. CASE UNCHANGED vars
  BY <1>1, <1>4 DEF vars
<1> QED  BY <1>2, <1>3, <1>4 DEF Next

(* A session whose calls came one at a time never captures more than its       *)
(* budget, whatever the calls metered ("Guardian's hard cap for this           *)
(* session").                                                                  *)
THEOREM SerialCallsKeepTheBudget == Spec => []SerialSessionWithinBudget
<1>1. SerialRoom => SerialSessionWithinBudget
  BY DEF SerialRoom, SerialSessionWithinBudget
<1>2. Inv /\ TotalsInv /\ [Next]_vars => TotalsInv'
  BY NextTotals
<1>3. Inv /\ TotalsInv /\ SerialRoom /\ [Next]_vars => SerialRoom'
  BY NextRoom
<1> QED  BY <1>1, <1>2, <1>3, InitTotals, InitRoom, Invariance, PTL DEF Spec

-----------------------------------------------------------------------------
(* Whose calls they are *)

\* A session is of the payer of its calls, and only a voucher leaves its call
\* captured and unsettled.
PayersAgree ==
  \A r \in Requests :
    /\ row[r].status # "none" => session[row[r].session].payer = auth[r].payer
    /\ row[r].status = "captured" => auth[r].scheme = "batch"

LEMMA InitPayers == Init => PayersAgree
BY DEF Init, PayersAgree, NoRow

\* A step that makes no row and opens no session.
LEMMA PayersAlone ==
  ASSUME PayersAgree, SessionsInOrder,
         \A s \in Sessions : session'[s].payer = session[s].payer,
         \A r \in Requests :
           row'[r].status # "none" =>
             /\ row[r].status # "none" /\ row'[r].session = row[r].session
             /\ auth'[r] = auth[r]
             /\ row'[r].status = "captured" => row[r].status = "captured" \/ auth[r].scheme = "batch"
  PROVE  PayersAgree'
BY DEF PayersAgree, SessionsInOrder

\* Admission puts the call in a session of its payer.
LEMMA BeginPayers ==
  ASSUME Inv, TotalsInv, PayersAgree,
         NEW r \in Requests, NEW refused \in BOOLEAN, Begin(r, refused)
  PROVE  PayersAgree'
<1>0. PICK s : s = SessionFor(auth[r])
  OBVIOUS
<1> DEFINE a == auth[r]
           declined == refused \/ Refuses(SessionRow(a), a) \/ Replayed(a)
           opened == SessionRow(a)
           sess == [opened EXCEPT !.declined = IF declined THEN @ + 1 ELSE @]
<1>1. /\ pc[r] = "verifying" /\ UNCHANGED auth
      /\ session' = [session EXCEPT ![s] = sess]
      /\ row'[r].session = s /\ row'[r].status # "captured"
      /\ \A q \in Requests \ {r} : row'[q] = row[q]
  BY <1>0 DEF Begin, Inv, TypeOK
<1>2. row[r] = NoRow
  BY <1>1 DEF Inv, RowsFollowRequests
<1>3. s \in Sessions /\ opened \in SessionRecord
  BY <1>0, <1>2, SessionFound DEF Inv
<1>4. /\ opened.payer = a.payer
      /\ session[s].status # "none" => session[s].payer = a.payer
  <2>1. CASE OpenSessions(a) = {}
    <3>1. session[s].status = "none"
      BY <1>0, <1>3, <2>1, NextSessionUnused DEF SessionFor, TotalsInv
    <3> QED  BY <2>1, <3>1 DEF SessionRow, NoSession
  <2>2. CASE OpenSessions(a) # {}
    <3>1. opened = session[s] /\ session[s].status = "open"
      BY <1>0, <1>2, <2>2, SessionFound DEF SessionRow, Inv
    <3>2. s \in OpenSessions(a)
      BY <1>0, <1>2, <2>2, SessionFound DEF Inv
    <3> QED  BY <3>1, <3>2 DEF OpenSessions
  <2> QED  BY <2>1, <2>2
<1> HIDE DEF opened
<1>5. sess.payer = a.payer
  BY <1>3, <1>4 DEF SessionRecord
<1> HIDE DEF sess
<1>6. /\ session'[s] = sess /\ \A t \in Sessions \ {s} : session'[t] = session[t]
  BY <1>1, <1>3 DEF Inv, TypeOK
<1>7. ASSUME NEW q \in Requests, row'[q].status # "none"
      PROVE  session'[row'[q].session].payer = auth'[q].payer
  <2>1. CASE q = r
    BY <1>1, <1>5, <1>6, <2>1
  <2>2. CASE q # r
    <3>1. /\ row'[q] = row[q] /\ row[q].session \in Sessions
          /\ session[row[q].session].status # "none"
          /\ session[row[q].session].payer = auth[q].payer
      BY <1>1, <1>7, <2>2 DEF TotalsInv, SessionsInOrder, PayersAgree
    <3>2. CASE row[q].session = s
      BY <1>1, <1>4, <1>5, <1>6, <3>1, <3>2
    <3>3. CASE row[q].session # s
      BY <1>1, <1>6, <3>1, <3>3
    <3> QED  BY <3>2, <3>3
  <2> QED  BY <2>1, <2>2
<1> QED  BY <1>1, <1>7 DEF PayersAgree

LEMMA NextPayers ==
  ASSUME Inv, TotalsInv, PayersAgree, [Next]_vars PROVE PayersAgree'
<1>1. CASE UNCHANGED ledgerVars /\
           \A r \in Requests : row[r].status # "none" => auth'[r] = auth[r]
  BY <1>1, PayersAlone DEF ledgerVars, TotalsInv
<1>2. ASSUME NEW r \in Requests, Serve(r) PROVE PayersAgree'
  <2>1. CASE HandlerRaises(r) \/ RecordFailure(r)
    <3>1. row[r].status = "verified" /\ row[r] \in RowRecord
      BY <2>1 DEF HandlerRaises, RecordFailure, Inv, TypeOK, RowsFollowRequests, InFlight
    <3>2. /\ row'[r].status = "failed" /\ row'[r].session = row[r].session
          /\ \A q \in Requests \ {r} : row'[q] = row[q]
          /\ UNCHANGED <<session, auth>>
      <4>1. (\E error : Fail(r, error)) /\ UNCHANGED auth
        BY <2>1 DEF HandlerRaises, RecordFailure
      <4> QED  BY <3>1, <4>1 DEF Fail, Inv, TypeOK, RowRecord
    <3> QED  BY <3>1, <3>2, PayersAlone DEF TotalsInv
  <2>2. CASE \E a \in Authorizations : Present(r, a)
    <3>1. row[r] = NoRow
      BY <2>2 DEF Present, Inv, RowsFollowRequests
    <3> QED  BY <1>1, <2>2, <3>1 DEF Present, NoRow, Inv, TypeOK
  <2>3. CASE UNCHANGED <<ledgerVars, auth>>
    BY <1>1, <2>3
  <2>4. CASE \E refused \in BOOLEAN : Begin(r, refused)
    BY <2>4, BeginPayers
  <2>5. CASE Capture(r)
    <3>1. PICK s : s = row[r].session
      OBVIOUS
    <3>2. /\ row[r].status = "verified" /\ row[r] \in RowRecord /\ s \in Sessions
          /\ session[s] \in SessionRecord /\ Booked(r) \in Nat
      BY <2>5, <3>1, AuthTyped DEF Capture, Inv, TypeOK, RowsFollowRequests, InFlight, Booked
    <3>3. /\ row'[r].session = row[r].session
          /\ row'[r].status = "captured" => auth[r].scheme = "batch"
          /\ \A q \in Requests \ {r} : row'[q] = row[q]
          /\ session' = [session EXCEPT ![s] = Credited(s, r)] /\ UNCHANGED auth
      BY <2>5, <3>1, <3>2 DEF Capture, SessionOf, Settles, Inv, TypeOK, RowRecord
    <3>4. \A t \in Sessions : session'[t].payer = session[t].payer
      BY <3>2, <3>3, CreditedTyped DEF Inv, TypeOK
    <3> QED  BY <3>2, <3>3, <3>4, PayersAlone DEF TotalsInv
  <2> QED
    BY <1>2, <2>1, <2>2, <2>3, <2>4, <2>5 DEF Serve, Reject, Execute, DeclarationRaises,
       Settle, RefuseSettle, SettleRaises, CaptureRaises
<1>3. Crash \/ UNCHANGED vars => UNCHANGED <<ledgerVars, auth>>
  BY DEF Crash, vars
<1> QED  BY <1>1, <1>2, <1>3 DEF Next

-----------------------------------------------------------------------------
(* The ledger with batches settled beside the server                          *)

\* What all of these keep together.
LedgerInv == Inv /\ TotalsInv /\ PayersAgree

LEMMA ServerLedger == LedgerInv /\ [Next]_vars => LedgerInv'
BY NextInv, NextTotals, NextPayers DEF LedgerInv

LEMMA SessionsNat == Cardinality(Requests) \in Nat
BY RequestsFinite, FS_CardinalityType

(* Opening a batch closes a session that is in use.                           *)
LEMMA ClosingLedger ==
  ASSUME LedgerInv, NEW s \in Sessions, session[s].status # "none",
         session' = [session EXCEPT ![s].status = "closing"],
         UNCHANGED <<pc, auth, reading, answer, moved, overlapped, row, tool>>
  PROVE  LedgerInv'
<1>1. session[s] \in SessionRecord
  BY DEF LedgerInv, Inv, TypeOK
<1>2. session'[s] = [session[s] EXCEPT !.status = "closing"]
      /\ \A t \in Sessions \ {s} : session'[t] = session[t]
  BY DEF LedgerInv, Inv, TypeOK
<1>3. /\ session'[s] \in SessionRecord /\ session'[s].status = "closing"
      /\ session'[s].payer = session[s].payer /\ session'[s].captured = session[s].captured
      /\ session'[s].settled = session[s].settled /\ session'[s].calls = session[s].calls
      /\ session'[s].declined = session[s].declined
  BY <1>1, <1>2 DEF SessionRecord
<1>4. TypeOK'
  <2>1. session' \in [Sessions -> SessionRecord]
    BY <1>2, <1>3 DEF LedgerInv, Inv, TypeOK
  <2> QED  BY <2>1 DEF LedgerInv, Inv, TypeOK
<1>5. SessionsHaveRows'
  BY <1>2, <1>3 DEF LedgerInv, Inv, SessionsHaveRows
<1>6. RowsFollowRequests' /\ NoncesUnique'
  BY DEF LedgerInv, Inv, RowsFollowRequests, NoncesUnique, InFlight
<1>7. MoneyFollowsSettlement' /\ RecordedIsWhatMoved' /\ RefusalsAreFree'
  BY DEF LedgerInv, Inv, MoneyFollowsSettlement, RecordedIsWhatMoved, RefusalsAreFree,
         Recorded, InFlight, Asked
<1>8. SessionsInOrder'
  <2>1. \A t \in Sessions : session'[t].status # "none" <=> session[t].status # "none"
    BY <1>2, <1>3
  <2>2. ASSUME NEW t \in Sessions, NEW u \in 1..t PROVE u \in Sessions
    BY SessionsNat DEF Sessions
  <2>3. \A r \in Requests :
          row'[r].status # "none" =>
            row'[r].session \in Sessions /\ session'[row'[r].session].status # "none"
    BY <2>1 DEF LedgerInv, TotalsInv, SessionsInOrder
  <2>4. \A t \in Sessions :
          /\ session'[t].status # "none" => \A u \in 1..t : session'[u].status # "none"
          /\ session'[t].status = "none" => session'[t] = session[t]
    BY <1>2, <1>3, <2>1, <2>2 DEF LedgerInv, TotalsInv, SessionsInOrder
  <2> QED  BY <2>3, <2>4 DEF LedgerInv, TotalsInv, SessionsInOrder, Sessions
<1>9. TotalsMatchCalls'
  BY <1>2, <1>3, TotalsAlone DEF LedgerInv, TotalsInv
<1>10. PayersAgree'
  BY <1>2, <1>3, PayersAlone DEF LedgerInv, TotalsInv
<1> QED  BY <1>4, <1>5, <1>6, <1>7, <1>8, <1>9, <1>10 DEF LedgerInv, Inv, TotalsInv

(* Settling a batch settles captured calls of one session and adds their sum  *)
(* to what the session has settled.                                           *)
LEMMA SettlingLedger ==
  ASSUME LedgerInv, NEW s \in Sessions, session[s].status # "none",
         NEW status \in {"open", "settled"},
         NEW calls \in SUBSET {r \in Requests : row[r].status = "captured" /\ row[r].session = s},
         row' = [r \in Requests |->
           IF r \in calls THEN [row[r] EXCEPT !.status = "settled"] ELSE row[r]],
         session' = [session EXCEPT ![s] =
           [@ EXCEPT !.settled = session[s].settled + Total(calls, Booking), !.status = status]],
         UNCHANGED <<pc, auth, reading, answer, moved, overlapped, tool>>
  PROVE  LedgerInv'
<1> DEFINE more == session[s].settled + Total(calls, Booking)
<1>1. session[s] \in SessionRecord /\ \A r \in Requests : row[r] \in RowRecord
  BY DEF LedgerInv, Inv, TypeOK
<1>2. \A r \in Requests : Booking[r] \in Nat
  BY <1>1 DEF Booking, RowRecord
<1>3. IsFiniteSet(calls) /\ Total(calls, Booking) \in Nat
  <2>1. IsFiniteSet(calls)
    BY RequestsFinite, FS_Subset
  <2>2. \A r \in calls : Booking[r] \in Nat
    BY <1>2
  <2> QED  BY <2>1, <2>2, TotalType
<1>4. more \in Nat
  BY <1>1, <1>3 DEF SessionRecord
<1>5. session'[s] = [session[s] EXCEPT !.settled = more, !.status = status]
      /\ \A t \in Sessions \ {s} : session'[t] = session[t]
  BY DEF LedgerInv, Inv, TypeOK
<1> HIDE DEF more
<1>6. /\ session'[s] \in SessionRecord /\ session'[s].status = status
      /\ session'[s].payer = session[s].payer /\ session'[s].captured = session[s].captured
      /\ session'[s].settled = more /\ session'[s].calls = session[s].calls
      /\ session'[s].declined = session[s].declined
  <2>1. PICK x \in SessionRecord : x = session[s]
    BY <1>1
  <2>2. PICK y : y = session'[s]
    OBVIOUS
  <2>3. y = [x EXCEPT !.settled = more, !.status = status]
    BY ONLY <1>5, <2>1, <2>2
  <2>4. /\ y \in SessionRecord /\ y.status = status /\ y.payer = x.payer
        /\ y.captured = x.captured /\ y.settled = more /\ y.calls = x.calls
        /\ y.declined = x.declined
    BY ONLY <1>4, <2>1, <2>3 DEF SessionRecord
  <2> QED  BY ONLY <2>1, <2>2, <2>4
<1>7. /\ \A r \in calls :
           /\ row[r].status = "captured" /\ row[r].session = s
           /\ row'[r] = [row[r] EXCEPT !.status = "settled"]
      /\ \A r \in Requests \ calls : row'[r] = row[r]
  OBVIOUS
<1>8. \A r \in calls :
        /\ row'[r] \in RowRecord /\ row'[r].status = "settled" /\ row'[r].session = row[r].session
        /\ row'[r].captured = row[r].captured /\ row'[r].nonce = row[r].nonce
        /\ row'[r].error = row[r].error
  BY <1>1, <1>7 DEF RowRecord
<1>9. TypeOK'
  <2>1. session' \in [Sessions -> SessionRecord]
    BY <1>5, <1>6 DEF LedgerInv, Inv, TypeOK
  <2>2. row' \in [Requests -> RowRecord]
    BY <1>1, <1>7, <1>8
  <2> QED  BY <2>1, <2>2 DEF LedgerInv, Inv, TypeOK
<1>10. SessionsHaveRows'
  <2>1. \A t \in Sessions : session'[t].status # "none" => session[t].status # "none"
    BY <1>5
  <2>2. \A r \in Requests : row[r].status # "none" =>
          row'[r].status # "none" /\ row'[r].session = row[r].session
    BY <1>7, <1>8
  <2> QED  BY <1>5, <1>6, <2>1, <2>2 DEF LedgerInv, Inv, SessionsHaveRows
<1>11. RowsFollowRequests' /\ NoncesUnique'
  <2>1. \A r \in calls : pc[r] \notin {"idle", "verifying"} \cup InFlight
    BY <1>7 DEF LedgerInv, Inv, RowsFollowRequests, NoRow
  <2>2. \A r \in Requests : row'[r].nonce = row[r].nonce
    BY <1>7, <1>8
  <2>3. RowsFollowRequests'
    <3> SUFFICES ASSUME NEW r \in Requests
                 PROVE  /\ pc[r] \in {"idle", "verifying"} => row'[r] = NoRow
                        /\ pc[r] \in InFlight => row'[r].status = "verified" /\ row'[r].session \in Sessions
                        /\ row'[r].status \notin {"none", "declined"} => row'[r].nonce = auth[r].nonce
      BY DEF RowsFollowRequests, Sessions, InFlight, NoRow
    <3> QED  BY <1>7, <1>8, <2>1 DEF LedgerInv, Inv, RowsFollowRequests
  <2>4. NoncesUnique'
    BY <2>2 DEF LedgerInv, Inv, NoncesUnique
  <2> QED  BY <2>3, <2>4
<1>12. MoneyFollowsSettlement'
  BY DEF LedgerInv, Inv, MoneyFollowsSettlement, Asked
<1>13. RecordedIsWhatMoved' /\ RefusalsAreFree'
  BY <1>7, <1>8 DEF LedgerInv, Inv, RecordedIsWhatMoved, RefusalsAreFree, Recorded
<1>14. \A t \in Sessions : session'[t].status # "none" <=> session[t].status # "none"
  BY <1>5, <1>6
<1>15. SessionsInOrder'
  <2>1. ASSUME NEW t \in Sessions, NEW u \in 1..t PROVE u \in Sessions
    BY SessionsNat DEF Sessions
  <2>2. \A r \in Requests :
          row'[r].status # "none" =>
            row'[r].session \in Sessions /\ session'[row'[r].session].status # "none"
    BY <1>7, <1>8, <1>14 DEF LedgerInv, TotalsInv, SessionsInOrder
  <2>3. \A t \in Sessions :
          /\ session'[t].status # "none" => \A u \in 1..t : session'[u].status # "none"
          /\ session'[t].status = "none" => session'[t] = session[t]
    BY <1>5, <1>6, <1>14, <2>1 DEF LedgerInv, TotalsInv, SessionsInOrder
  <2> QED  BY <2>2, <2>3 DEF LedgerInv, TotalsInv, SessionsInOrder, Sessions
<1>16. TotalsMatchCalls'
  <2>1. \A r \in Requests : Booking'[r] = Booking[r] /\ (Recorded(r)' <=> Recorded(r))
    BY <1>7, <1>8 DEF Booking, Recorded
  <2>2. /\ RecordedCalls' = RecordedCalls
        /\ \A t : CapturedIn(t)' = CapturedIn(t) /\ DeclinedIn(t)' = DeclinedIn(t)
    BY <1>7, <1>8, <2>1 DEF RecordedCalls, CapturedIn, DeclinedIn
  <2>3. ASSUME NEW S \in SUBSET Requests PROVE Total(S, Booking) = Total(S, Booking')
    BY <2>1, TotalAgree
  <2>4. RecordedCalls \in SUBSET Requests
        /\ \A t : CapturedIn(t) \in SUBSET Requests /\ SettledIn(t) \in SUBSET Requests
    BY DEF RecordedCalls, CapturedIn, SettledIn
  <2>5. ToolAdds'
    BY <2>2, <2>3, <2>4, TotalsParts DEF LedgerInv, TotalsInv, ToolAdds
  <2>6. /\ SettledIn(s)' = SettledIn(s) \cup calls /\ SettledIn(s) \cap calls = {}
        /\ \A t \in Sessions \ {s} : SettledIn(t)' = SettledIn(t)
    BY <1>7, <1>8, <2>1, <2>2 DEF SettledIn, CapturedIn, Recorded
  <2>7. Total(SettledIn(s) \cup calls, Booking) = Total(SettledIn(s), Booking) + Total(calls, Booking)
    <3>1. IsFiniteSet(SettledIn(s)) /\ \A r \in SettledIn(s) \cup calls : Booking[r] \in Nat
      BY <1>2, <2>4, CallsFinite
    <3> QED  BY <1>3, <2>6, <3>1, TotalDisjoint
  <2>8. Total(SettledIn(s)', Booking') = Total(SettledIn(s), Booking) + Total(calls, Booking)
    <3>1. SettledIn(s) \cup calls \in SUBSET Requests
      BY <2>4
    <3>2. Total(SettledIn(s) \cup calls, Booking) = Total(SettledIn(s) \cup calls, Booking')
      BY <2>3, <3>1
    <3> QED  BY <2>6, <2>7, <3>2
  <2>9. \A t \in Sessions \ {s} : SessionAdds(t)'
    BY <1>5, <2>2, <2>3, <2>4, <2>6, TotalsParts DEF LedgerInv, TotalsInv, SessionAdds
  <2>10. SessionAdds(s)'
    BY <1>6, <2>2, <2>3, <2>4, <2>8, TotalsParts DEF LedgerInv, TotalsInv, SessionAdds, more
  <2> QED  BY <2>5, <2>9, <2>10, TotalsPartsNext
<1>17. PayersAgree'
  <2>1. \A t \in Sessions : session'[t].payer = session[t].payer
    BY <1>5, <1>6
  <2>2. \A r \in Requests : row'[r].status # "none" =>
          /\ row[r].status # "none" /\ row'[r].session = row[r].session /\ auth'[r] = auth[r]
          /\ row'[r].status = "captured" => row[r].status = "captured"
    BY <1>7, <1>8
  <2> QED  BY <2>1, <2>2, PayersAlone DEF LedgerInv, TotalsInv
<1> QED  BY <1>9, <1>10, <1>11, <1>12, <1>13, <1>15, <1>16, <1>17 DEF LedgerInv, Inv, TotalsInv
=============================================================================
