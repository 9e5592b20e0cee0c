---------------------------- MODULE GatewayProofs ----------------------------
(***************************************************************************)
(* The two halves of the gateway, which share no state.  The facilitator:  *)
(* what a tool has offered stays payable, and its cheaper offer comes      *)
(* first, for any number of tools and calls and whatever the facilitator   *)
(* does.  The earlier ledger layer: its rollups say what its call rows     *)
(* say, and its rows what the chain did, for any number of calls, payments *)
(* and restarts, and any prices.                                           *)
(***************************************************************************)
EXTENDS Catalogue, Facilitator, TotalsProofs

Schemes == {"exact", "upto"}
OfferShape == [scheme : Schemes, address : BOOLEAN]
Metered(t) == Declared[t].fallback /\ Declared[t].scheme = "upto"

\* `list` can be paid with an offer of this scheme.
Pays(list, scheme) == \E i \in DOMAIN list : list[i].scheme = scheme

ListOK(list) == list \in Seq(OfferShape) /\ list # <<>>

\* A metered tool offers 'upto' first once it is enhanced, and not before.
HeadOK(t) ==
  Metered(t) =>
    /\ kinds = "none" => accepts[t][1].scheme = "exact"
    /\ kinds # "none" /\ enhanced[t] => accepts[t][1].scheme = "upto"

ToolOK(t) ==
  /\ ListOK(accepts[t])
  /\ \A offer \in offered[t] : Pays(accepts[t], offer.scheme)
  /\ HeadOK(t)

CallOK(c) == call[c].pc \in {"enhancing", "enhance"} => call[c].tool \in Tools

Inv ==
  /\ accepts = [t \in Tools |-> accepts[t]]
  /\ enhanced = [t \in Tools |-> enhanced[t]]
  /\ offered = [t \in Tools |-> offered[t]]
  /\ call = [c \in Calls |-> call[c]]
  /\ \A t \in Tools : ToolOK(t)
  /\ \A c \in Calls : CallOK(c)

-----------------------------------------------------------------------------
(* Enhancing a list of offers *)

LEMMA EnhanceKeepsScheme ==
  ASSUME NEW offer \in OfferShape
  PROVE  Enhance(offer) \in OfferShape /\ Enhance(offer).scheme = offer.scheme
BY DEF Enhance, OfferShape, Schemes

LEMMA FirstReplaced ==
  ASSUME NEW list, ListOK(list), NEW offer \in OfferShape
  PROVE  LET next == <<offer>> \o Tail(list)
         IN  /\ ListOK(next) /\ next[1] = offer /\ Len(next) = Len(list)
             /\ \A i \in 2..Len(list) : next[i] = list[i]
BY DEF ListOK

LEMMA FirstInserted ==
  ASSUME NEW list, ListOK(list), NEW offer \in OfferShape
  PROVE  LET next == <<offer>> \o list
         IN  /\ ListOK(next) /\ next[1] = offer /\ Len(next) = Len(list) + 1
             /\ \A i \in 1..Len(list) : next[i + 1] = list[i]
BY DEF ListOK

(* The upgraded list is paid by whatever paid the list before.                *)
LEMMA UpgradedPays ==
  ASSUME NEW t \in Tools, NEW list, ListOK(list)
  PROVE  /\ ListOK(Upgraded(t, list))
         /\ \A scheme : Pays(list, scheme) => Pays(Upgraded(t, list), scheme)
         /\ Metered(t) => IF kinds = "none" THEN Upgraded(t, list) = list
                                            ELSE Upgraded(t, list)[1].scheme = "upto"
<1>1. Len(list) \in Nat \ {0} /\ DOMAIN list = 1..Len(list)
  BY DEF ListOK
<1>2. Head(list) = list[1] /\ list[1] \in OfferShape
  BY <1>1 DEF ListOK
<1>3. CASE ~Metered(t)
  <2> DEFINE first == Enhance(Head(list))
             next == <<first>> \o Tail(list)
  <2>1. first \in OfferShape /\ first.scheme = list[1].scheme
    BY <1>2, EnhanceKeepsScheme
  <2>2. Upgraded(t, list) = next
    BY <1>3 DEF Upgraded, Metered
  <2> HIDE DEF first
  <2>3. /\ ListOK(next) /\ next[1] = first /\ Len(next) = Len(list)
        /\ \A i \in 2..Len(list) : next[i] = list[i]
    BY <2>1, FirstReplaced
  <2>4. \A i \in DOMAIN list : i \in DOMAIN next /\ next[i].scheme = list[i].scheme
    BY <1>1, <2>1, <2>3 DEF ListOK
  <2> QED  BY <1>3, <2>2, <2>3, <2>4 DEF Pays
<1>4. CASE Metered(t) /\ kinds = "none"
  BY <1>4 DEF Upgraded, Metered
<1>5. CASE Metered(t) /\ kinds # "none"
  <2> DEFINE first == Enhance([scheme |-> "upto", address |-> FALSE])
             next == <<first>> \o list
  <2>1. first \in OfferShape /\ first.scheme = "upto"
    BY EnhanceKeepsScheme DEF OfferShape, Schemes
  <2>2. Upgraded(t, list) = next
    BY <1>5 DEF Upgraded, Metered
  <2> HIDE DEF first
  <2>3. /\ ListOK(next) /\ next[1] = first /\ Len(next) = Len(list) + 1
        /\ \A i \in 1..Len(list) : next[i + 1] = list[i]
    BY <2>1, FirstInserted
  <2>4. \A i \in DOMAIN list : i + 1 \in DOMAIN next /\ next[i + 1].scheme = list[i].scheme
    BY <1>1, <2>3 DEF ListOK
  <2> QED  BY <1>5, <2>1, <2>2, <2>3, <2>4 DEF Pays
<1> QED  BY <1>3, <1>4, <1>5

-----------------------------------------------------------------------------
(* Every action keeps the offers *)

LEMMA InitInv == ASSUME Init PROVE Inv
<1>1. ASSUME NEW t \in Tools PROVE ToolOK(t)
  <2> DEFINE first == [scheme |-> IF Declared[t].fallback THEN "exact" ELSE Declared[t].scheme,
                       address |-> FALSE]
  <2>1. first \in OfferShape
    BY ToolsAssumption DEF OfferShape, Schemes
  <2>2. accepts[t] = <<first>> /\ offered[t] = {} /\ enhanced[t] = FALSE
    BY DEF Init, FirstOffers
  <2>3. Metered(t) => first.scheme = "exact"
    BY DEF Metered
  <2> HIDE DEF first
  <2> QED  BY <2>1, <2>2, <2>3 DEF ToolOK, ListOK, HeadOK
<1>2. \A c \in Calls : CallOK(c)
  BY DEF Init, CallOK, Idle
<1> QED  BY <1>1, <1>2 DEF Init, Inv

(* A challenge shows the list as it stands.                                   *)
LEMMA ServeEffect ==
  ASSUME Inv, NEW c \in Calls, NEW t \in Tools, NEW offer, NEW list, ListOK(list),
         Serve(c, t, offer, list)
  PROVE  /\ \A d \in Tools \ {t} : offered'[d] = offered[d]
         /\ offered'[t] \subseteq offered[t] \cup {list[i] : i \in DOMAIN list}
         /\ offered' = [d \in Tools |-> offered'[d]]
         /\ call' = [d \in Calls |-> call'[d]] /\ \A d \in Calls : CallOK(d)'
<1>1. CASE offer = NoOffer
  <2>1. offered' = [offered EXCEPT ![t] = @ \cup Range(list)] /\ call' = [call EXCEPT ![c] = Idle]
    BY <1>1 DEF Serve
  <2>2. \A d \in Calls : CallOK(d)'
    BY <2>1 DEF Inv, CallOK, Idle
  <2> QED  BY <2>1, <2>2 DEF Inv, Range
<1>2. CASE offer # NoOffer
  <2>1. offered' = offered
    BY <1>2 DEF Serve
  <2>2. PICK next : call' = [call EXCEPT ![c] = next] /\ next.pc \notin {"enhancing", "enhance"}
    <3> DEFINE going == [Idle EXCEPT !.pc = "verifying", !.tool = t, !.pays = offer]
    <3>1. call' = [call EXCEPT ![c] = Idle] \/ call' = [call EXCEPT ![c] = going]
      BY <1>2 DEF Serve
    <3>2. Idle.pc = "idle" /\ going.pc = "verifying"
      BY DEF Idle
    <3> HIDE DEF going
    <3> QED  BY <3>1, <3>2
  <2>3. \A d \in Calls : CallOK(d)'
    BY <2>2 DEF Inv, CallOK
  <2> QED  BY <2>1, <2>2, <2>3 DEF Inv
<1> QED  BY <1>1, <1>2

(* What was shown of the list, before or now, is paid by the upgraded list.   *)
LEMMA ToolKept ==
  ASSUME Inv, NEW t \in Tools, UNCHANGED kinds,
         \/ accepts'[t] = accepts[t] /\ enhanced'[t] = enhanced[t]
         \/ accepts'[t] = Upgraded(t, accepts[t]),
         offered'[t] \subseteq offered[t] \cup {accepts'[t][i] : i \in DOMAIN accepts'[t]}
  PROVE  ToolOK(t)'
<1>1. ToolOK(t) /\ ListOK(accepts[t])
  BY DEF Inv, ToolOK
<1>2. /\ ListOK(accepts'[t])
      /\ \A scheme : Pays(accepts[t], scheme) => Pays(accepts'[t], scheme)
  BY <1>1, UpgradedPays
<1>3. HeadOK(t)'
  BY <1>1, UpgradedPays DEF ToolOK, HeadOK, Metered
<1>4. ASSUME NEW offer \in offered'[t] PROVE Pays(accepts'[t], offer.scheme)
  BY <1>1, <1>2, <1>4 DEF ToolOK, Pays
<1> QED  BY <1>2, <1>3, <1>4 DEF ToolOK

LEMMA ShowInv ==
  ASSUME Inv, NEW c \in Calls, NEW t \in Tools, NEW offer, UNCHANGED <<kinds, enhanced, accepts>>,
         Serve(c, t, offer, accepts[t])
  PROVE  Inv'
<1>1. ListOK(accepts[t])
  BY DEF Inv, ToolOK
<1>2. \A d \in Tools : ToolOK(d)'
  BY <1>1, ServeEffect, ToolKept
<1> QED  BY <1>1, <1>2, ServeEffect DEF Inv

LEMMA UpgradeInv ==
  ASSUME Inv, NEW c \in Calls, NEW t \in Tools, NEW offer, UNCHANGED kinds,
         accepts' = [accepts EXCEPT ![t] = Upgraded(t, @)],
         enhanced' = [enhanced EXCEPT ![t] = TRUE],
         Serve(c, t, offer, Upgraded(t, accepts[t]))
  PROVE  Inv'
<1>1. ListOK(accepts[t])
  BY DEF Inv, ToolOK
<1>2. ListOK(Upgraded(t, accepts[t]))
  BY <1>1, UpgradedPays
<1>3. /\ accepts'[t] = Upgraded(t, accepts[t])
      /\ \A d \in Tools \ {t} : accepts'[d] = accepts[d] /\ enhanced'[d] = enhanced[d]
  BY DEF Inv
<1>4. /\ offered'[t] \subseteq offered[t] \cup {accepts'[t][i] : i \in DOMAIN accepts'[t]}
      /\ \A d \in Tools \ {t} : offered'[d] = offered[d]
  BY <1>2, <1>3, ServeEffect
<1>5. ToolOK(t)'
  BY <1>3, <1>4, ToolKept
<1>6. ASSUME NEW d \in Tools \ {t} PROVE ToolOK(d)'
  BY <1>3, <1>4, ToolKept
<1> QED  BY <1>2, <1>5, <1>6, ServeEffect DEF Inv

LEMMA ArriveInv ==
  ASSUME Inv, NEW c \in Calls, NEW t \in Tools, NEW offer, Arrive(c, t, offer)
  PROVE  Inv'
<1>1. CASE enhanced[t] /\ Serve(c, t, offer, accepts[t]) /\ UNCHANGED <<enhanced, accepts>>
  BY <1>1, ShowInv DEF Arrive
<1>2. CASE /\ accepts' = [accepts EXCEPT ![t] = Upgraded(t, @)]
           /\ enhanced' = [enhanced EXCEPT ![t] = TRUE]
           /\ Serve(c, t, offer, Upgraded(t, accepts[t]))
  BY <1>2, UpgradeInv DEF Arrive
<1>3. CASE /\ call' = [call EXCEPT ![c] =
                [pc |-> "enhancing", tool |-> t, pays |-> offer, told |-> FALSE]]
           /\ UNCHANGED toolVars
  <2>1. \A d \in Tools : ToolOK(d)'
    BY <1>3, ToolKept DEF toolVars, Arrive
  <2> QED  BY <1>3, <2>1 DEF Inv, CallOK, toolVars
<1> QED  BY <1>1, <1>2, <1>3 DEF Arrive

LEMMA ResumeInv ==
  ASSUME Inv, NEW c \in Calls, Resume(c) PROVE Inv'
<1>1. call[c].tool \in Tools
  BY DEF Inv, CallOK, Resume
<1> QED  BY <1>1, ShowInv, UpgradeInv DEF Resume

(* The threads, the facilitator and the second resource server change no      *)
(* tool, and a call keeps its own.                                            *)
LEMMA ElsewhereInv ==
  ASSUME Inv, UNCHANGED <<kinds, toolVars>>, call' = [c \in Calls |-> call'[c]],
         \A c \in Calls : CallOK(c)'
  PROVE  Inv'
<1>1. \A t \in Tools : ToolOK(t)'
  BY ToolKept DEF toolVars
<1> QED  BY <1>1 DEF Inv, toolVars

LEMMA ToldKeeps ==
  ASSUME Inv, NEW c \in Calls, NEW ok, Told(c, ok)
  PROVE  call' = [d \in Calls |-> call'[d]] /\ \A d \in Calls : CallOK(d)'
BY DEF Inv, CallOK, Told

LEMMA NextInv == ASSUME Inv, [Next]_vars PROVE Inv'
<1>1. ASSUME NEW c \in Calls, Acquire(c) PROVE Inv'
  <2>1. call' = call \/ Told(c, TRUE)
    BY <1>1 DEF Acquire
  <2>2. call' = [d \in Calls |-> call'[d]] /\ \A d \in Calls : CallOK(d)'
    BY <2>1, ToldKeeps DEF Inv, CallOK
  <2> QED  BY <1>1, <2>2, ElsewhereInv DEF Acquire
<1>2. ASSUME NEW c \in Calls, Ask(c) PROVE Inv'
  <2>1. call' = [d \in Calls |-> call'[d]] /\ \A d \in Calls : CallOK(d)'
    BY <1>2, ToldKeeps DEF Ask
  <2> QED  BY <1>2, <2>1, ElsewhereInv DEF Ask
<1>3. ASSUME NEW c \in Calls, Verified(c) PROVE Inv'
  <2>1. call' = [d \in Calls |-> call'[d]] /\ \A d \in Calls : CallOK(d)'
    BY <1>3 DEF Verified, Idle, Inv, CallOK
  <2> QED  BY <1>3, <2>1, ElsewhereInv DEF Verified
<1>4. ASSUME UNCHANGED <<kinds, toolVars, call>> PROVE Inv'
  <2>1. call' = [d \in Calls |-> call'[d]] /\ \A d \in Calls : CallOK(d)'
    BY <1>4 DEF Inv, CallOK
  <2> QED  BY <1>4, <2>1, ElsewhereInv
<1>5. ASSUME \/ \E sound \in BOOLEAN : Start(sound)
             \/ Stop \/ Flap \/ Tick \/ UNCHANGED vars
             \/ \E p \in Probers : Want(p) \/ Take(p) \/ Build(p)
      PROVE  Inv'
  BY <1>4, <1>5 DEF Start, Stop, Flap, Tick, vars, Want, Take, Build
<1> QED  BY <1>1, <1>2, <1>3, <1>5, ArriveInv, ResumeInv DEF Next, ThreadStep, LoopStep

LEMMA Invariance == Spec => []Inv
<1>1. Init => Inv
  BY InitInv
<1>2. Inv /\ [Next]_vars => Inv'
  BY NextInv
<1> QED  BY <1>1, <1>2, PTL DEF Spec

(* An offer a client was shown can be paid however the list has changed since, *)
(* by a retry, by another first call, or by a facilitator that came back.      *)
THEOREM ShownOffersStayPayable == Spec => []OffersStayGood
<1>1. Inv => OffersStayGood
  BY DEF Inv, ToolOK, Pays, OffersStayGood, Matches
<1> QED  BY <1>1, Invariance, PTL

(* A metered tool that has been enhanced puts 'upto' first exactly when the    *)
(* facilitator supports it.                                                    *)
THEOREM MeteredOfferFirst == Spec => []CheaperOfferFirst
<1>1. Inv => CheaperOfferFirst
  <2> SUFFICES ASSUME Inv, NEW t \in Tools, enhanced[t],
                      Declared[t] = [scheme |-> "upto", fallback |-> TRUE]
               PROVE  (Head(accepts[t]).scheme = "upto") = (kinds # "none")
    BY DEF CheaperOfferFirst
  <2>1. ListOK(accepts[t]) /\ HeadOK(t) /\ Metered(t)
    BY DEF Inv, ToolOK, Metered
  <2>2. Head(accepts[t]) = accepts[t][1]
    BY <2>1 DEF ListOK
  <2> QED  BY <2>1, <2>2 DEF HeadOK
<1> QED  BY <1>1, Invariance, PTL

-----------------------------------------------------------------------------
(***************************************************************************)
(* The earlier ledger layer: what a record says of its call, and what the  *)
(* rollups say of the rows as long as no two records were in their worker  *)
(* threads at one time.                                                    *)
(***************************************************************************)

Answered == {"recording", "storing", "done", "replay"}

\* A call's record names a transaction only for a settlement that moved the
\* capture.  Of whatever moved it says "settled" if it names a transaction and
\* "captured" if not, unless it says "failed".
RecordTrue(c) ==
  LET r == record[c]
  IN  /\ r.captured \in Nat /\ moved[c] \in Nat /\ r.payer # "none"
      /\ r.tx => r.status = "settled" /\ r.captured <= moved[c] /\ ~r.deferred
      /\ moved[c] > 0 /\ r.status # "failed" =>
           /\ r.status = (IF r.tx THEN "settled" ELSE "captured") /\ ~r.deferred
           /\ r.captured <= moved[c]
           /\ r.scheme # "exact" => r.captured = moved[c]

\* A stored row is its call's record.
RowTrue(c) ==
  /\ row[c].status = record[c].status /\ row[c].captured = record[c].captured
  /\ row[c].tx = record[c].tx /\ row[c].deferred = record[c].deferred
  /\ row[c].status \in Paid => row[c].receipt
  /\ row[c].deferred /\ row[c].captured > 0 => row[c].batch # 0
  /\ ~row[c].deferred => row[c].batch = 0

CallStages(c) ==
  /\ pc[c] \in {"idle", "running"} \cup Answered
  /\ pc[c] \in {"idle", "running"} => moved[c] = 0
  /\ pc[c] = "running" => pays[c] \in Payments
  /\ pc[c] \in Answered => RecordTrue(c)
  /\ pc[c] \notin {"done", "replay"} => c \notin lost
  /\ IF pc[c] = "done" /\ c \notin lost THEN RowTrue(c) ELSE row[c] = NoRow

\* What a worker thread has read is still what the ledger says.
Fresh(c) ==
  LET l == loaded[c]
  IN  /\ IF l.session = 0
           THEN l.sessionRow = NoSession /\ \A s \in Ids : session[s].payer # record[c].payer
           ELSE /\ l.session \in Ids /\ session[l.session].payer = record[c].payer
                /\ l.sessionRow = session[l.session]
      /\ IF l.batch = 0 THEN l.batchRow = NoBatch
         ELSE l.batch \in Ids /\ l.batchRow = batch[l.batch] /\ batch[l.batch].status = "open"
      /\ l.total = tool.captured

UsedSessions == {s \in Ids : session[s] # NoSession}
UsedBatches == {b \in Ids : batch[b] # NoBatch}

\* Ids are given out in order, each to the row of a call.
Handed(used, ofRow) ==
  /\ \A i \in used : 1..i \subseteq used
  /\ \A i \in used : \E c \in Invocations : ofRow[c] = i
SessionOfRow == [c \in Invocations |-> row[c].session]
BatchOfRow == [c \in Invocations |-> row[c].batch]

BatchRows == [session : Nat, status : {"none", "open", "claiming"}, calls : Int, gross : Int]

Alone ==
  /\ \A c, d \in Invocations : pc[c] = "storing" /\ pc[d] = "storing" => c = d
  /\ \A c \in Invocations : pc[c] = "storing" => Fresh(c)
  /\ Handed(UsedSessions, SessionOfRow) /\ Handed(UsedBatches, BatchOfRow)
  /\ \A s \in UsedSessions : session[s].payer # "none"
  /\ \A s \in Ids : session[s].settled \in Int
  /\ batch \in [Ids -> BatchRows]

ToolFields == {"exists", "price", "calls", "captured"}
RowsTyped ==
  /\ pc = [c \in Invocations |-> pc[c]] /\ pays = [c \in Invocations |-> pays[c]]
  /\ record = [c \in Invocations |-> record[c]] /\ loaded = [c \in Invocations |-> loaded[c]]
  /\ moved = [c \in Invocations |-> moved[c]] /\ row = [c \in Invocations |-> row[c]]
  /\ session = [s \in Ids |-> session[s]] /\ reported = [b \in Ids |-> reported[b]]
  /\ batch = [b \in Ids |-> batch[b]] /\ tool = [f \in ToolFields |-> tool[f]]

CatalogueInv ==
  /\ RowsTyped
  /\ \A c \in Invocations : CallStages(c)
  /\ ~overlapped => Alone
  /\ RollupsAddUp

-----------------------------------------------------------------------------
(* The state's parts *)

LEMMA IdsFinite ==
  /\ IsFiniteSet(Ids) /\ Cardinality(Invocations) \in Nat
  /\ \A i \in Ids : i \in Nat /\ i # 0
<1>1. Cardinality(Invocations) \in Nat
  BY InvocationsAssumption, FS_CardinalityType
<1> QED  BY <1>1, FS_Interval DEF Ids

(* The least of two, which is how much is captured.                           *)
LEMMA LeastOfTwo ==
  ASSUME NEW a \in Nat, NEW b \in Nat
  PROVE  Min({a, b}) \in Nat /\ Min({a, b}) <= b
<1>1. \E x \in {a, b} : \A y \in {a, b} : x <= y
  OBVIOUS
<1>2. Min({a, b}) \in {a, b} /\ \A y \in {a, b} : Min({a, b}) <= y
  BY <1>1 DEF Min
<1> QED  BY <1>2

(* The greatest id of a set of them is one of them.                           *)
LEMMA GreatestId ==
  ASSUME NEW T \in SUBSET Ids, T # {}
  PROVE  Max(T) \in T
<1>1. \E m \in T : \A t \in T : t <= m
  BY IdsFinite, GreatestOfNaturals DEF Ids
<1>2. \E m \in T : \A t \in T : m >= t
  <2>1. \A t \in T : t \in Nat
    BY IdsFinite
  <2> QED  BY <1>1, <2>1
<1> QED  BY <1>2 DEF Max

LEMMA CaptureBounds ==
  ASSUME NEW scheme, NEW units \in Consumed
  PROVE  /\ CaptureAmount(scheme, units) \in Nat
         /\ Min({Base + units, Ceiling}) \in Nat
         /\ Min({Base + units, Ceiling}) <= Ceiling
         /\ scheme \in {"upto", "batch-settlement"} =>
              CaptureAmount(scheme, units) = Min({Base + units, Ceiling})
         /\ scheme \notin {"upto", "batch-settlement"} => CaptureAmount(scheme, units) = Ceiling
<1>1. Base + units \in Nat /\ Ceiling \in Nat
  BY PricesAssumption
<1> QED  BY <1>1, LeastOfTwo DEF CaptureAmount

(* The id handed out next is new and follows the others, as long as a call    *)
(* has no row in one yet.                                                     *)
LEMMA NextIsNew ==
  ASSUME NEW U \in SUBSET Ids, NEW ofRow, Handed(U, ofRow),
         NEW c \in Invocations, ofRow[c] = 0
  PROVE  /\ NextId(U) \in Ids \ U
         /\ \A t \in 1..NextId(U) : t = NextId(U) \/ t \in U
<1> DEFINE n == Cardinality(Invocations)
           R == {d \in Invocations : ofRow[d] \in U}
           f == [d \in R |-> ofRow[d]]
<1>1. n \in Nat /\ \A i \in U : i # 0
  BY IdsFinite
<1>2. f \in Surjection(R, U)
  BY DEF Surjection, Handed
<1>3. R \subseteq Invocations \ {c}
  BY <1>1
<1>4. IsFiniteSet(Invocations \ {c}) /\ Cardinality(Invocations \ {c}) = n - 1
  BY InvocationsAssumption, FS_RemoveElement
<1>5. IsFiniteSet(R) /\ Cardinality(R) <= n - 1
  BY <1>3, <1>4, FS_Subset
<1>6. IsFiniteSet(U) /\ Cardinality(U) <= Cardinality(R)
  BY <1>2, <1>5, FS_Surjection
<1>7. Cardinality(U) \in Nat /\ Cardinality(R) \in Nat
  BY <1>5, <1>6, FS_CardinalityType
<1>8. U = 1..Cardinality(U)
  BY <1>1, FirstOnes DEF Handed, Ids
<1> HIDE DEF f, R
<1>9. PICK k \in Nat : k = Cardinality(U) /\ U = 1..k /\ k <= n - 1
  BY <1>1, <1>5, <1>6, <1>7, <1>8
<1> HIDE DEF n
<1>10. 1 + k \in 1..n /\ 1 + k \notin 1..k /\ \A t \in 1..(1 + k) : t = 1 + k \/ t \in 1..k
  BY <1>1, <1>9
<1>11. NextId(U) = 1 + k /\ Ids = 1..n
  BY <1>9 DEF NextId, Ids, n
<1> QED  BY <1>9, <1>10, <1>11

-----------------------------------------------------------------------------
(* A call up to its record *)

\* A step of one call leaves the others as they are.
OnlyCall(c) ==
  \A d \in Invocations \ {c} :
    /\ UNCHANGED <<pc[d], pays[d], record[d], moved[d], row[d]>>
    /\ d \in lost' <=> d \in lost

LEMMA OthersKeepStage ==
  ASSUME NEW c \in Invocations, OnlyCall(c), \A d \in Invocations : CallStages(d), CallStages(c)'
  PROVE  \A d \in Invocations : CallStages(d)'
BY DEF OnlyCall, CallStages, RecordTrue, RowTrue

(* Where nothing is written the rollups stay.                                 *)
LEMMA RollupsSame ==
  ASSUME RollupsAddUp, UNCHANGED ledgerVars, tool'.captured = tool.captured,
         overlapped => overlapped'
  PROVE  RollupsAddUp'
<1> SUFFICES ASSUME ~overlapped' PROVE RollupsAddUp'
  BY DEF RollupsAddUp
<1>1. ~overlapped /\ UNCHANGED <<row, session, batch, reported>>
  BY DEF ledgerVars
<1>2. ASSUME NEW s \in Ids PROVE Adds(s)'
  <2>1. Adds(s)
    BY <1>1 DEF RollupsAddUp
  <2> QED  BY <1>1, <2>1 DEF Adds, CapturedIn, CallsOf
<1>3. ASSUME NEW b \in Ids PROVE (batch[b].gross = CapturedIn(CallsIn(b)))'
  BY <1>1 DEF RollupsAddUp, CapturedIn, CallsIn
<1>4. (tool.captured = CapturedIn(Invocations))'
  BY <1>1 DEF RollupsAddUp, CapturedIn
<1> QED  BY <1>1, <1>2, <1>3, <1>4 DEF RollupsAddUp

(* A step that writes no row of the ledger, and that starts no worker thread. *)
LEMMA LedgerQuiet ==
  ASSUME CatalogueInv, UNCHANGED <<loaded, ledgerVars, overlapped>>, tool'.captured = tool.captured,
         \A c \in Invocations : pc'[c] = "storing" => pc[c] = "storing" /\ record'[c] = record[c]
  PROVE  (~overlapped => Alone)' /\ RollupsAddUp'
<1>1. RollupsAddUp'
  BY RollupsSame DEF CatalogueInv
<1>2. ASSUME ~overlapped PROVE Alone'
  <2>1. Alone
    BY <1>2 DEF CatalogueInv
  <2>2. \A c \in Invocations : pc'[c] = "storing" => Fresh(c)'
    BY <2>1 DEF Alone, Fresh, ledgerVars
  <2>3. (Handed(UsedSessions, SessionOfRow) /\ Handed(UsedBatches, BatchOfRow))'
    BY <2>1 DEF Alone, Handed, UsedSessions, UsedBatches, SessionOfRow, BatchOfRow, ledgerVars
  <2> QED  BY <2>1, <2>2, <2>3 DEF Alone, UsedSessions, ledgerVars
<1> QED  BY <1>1, <1>2

(* A call gets its record.                                                    *)
LEMMA RecordedInv ==
  ASSUME CatalogueInv, NEW c \in Invocations, pc[c] \in {"idle", "running"}, NEW r, Recorded(c, r),
         pays' = [pays EXCEPT ![c] = pays'[c]], moved' = [moved EXCEPT ![c] = moved'[c]],
         UNCHANGED <<tool, loaded, ledgerVars, lost, overlapped>>,
         r.captured \in Nat, moved'[c] \in Nat, r.payer # "none",
         r.tx => r.status = "settled" /\ r.captured <= moved'[c] /\ ~r.deferred,
         moved'[c] > 0 /\ r.status # "failed" =>
           /\ r.status = (IF r.tx THEN "settled" ELSE "captured") /\ ~r.deferred
           /\ r.captured <= moved'[c]
           /\ r.scheme # "exact" => r.captured = moved'[c]
  PROVE  CatalogueInv'
<1>1. /\ pc'[c] = "recording" /\ record'[c] = r
      /\ \A d \in Invocations \ {c} : UNCHANGED <<pc[d], pays[d], record[d], moved[d], row[d]>>
      /\ row'[c] = row[c]
  BY DEF CatalogueInv, RowsTyped, Recorded, ledgerVars
<1>2. CallStages(c)'
  BY <1>1 DEF CatalogueInv, CallStages, RecordTrue, Answered
<1>3. \A d \in Invocations : CallStages(d)'
  BY <1>1, <1>2, OthersKeepStage DEF OnlyCall, CatalogueInv
<1>4. RowsTyped'
  BY DEF CatalogueInv, RowsTyped, Recorded, ledgerVars
<1>5. (~overlapped => Alone)' /\ RollupsAddUp'
  BY <1>1, LedgerQuiet
<1> QED  BY <1>3, <1>4, <1>5 DEF CatalogueInv

LEMMA RefuseInv ==
  ASSUME CatalogueInv, NEW c \in Invocations, NEW p \in Payments \cup {NoPayment}, Refuse(c, p)
  PROVE  CatalogueInv'
<1> DEFINE r == [NoRecord EXCEPT !.payer = PayerOf(p),
                   !.status = IF p = NoPayment THEN "challenged" ELSE "declined",
                   !.scheme = IF p = NoPayment THEN "exact" ELSE p.scheme]
<1>1. /\ pc[c] = "idle" /\ Recorded(c, r) /\ pays' = [pays EXCEPT ![c] = pays'[c]]
      /\ moved' = [moved EXCEPT ![c] = moved'[c]] /\ moved'[c] = moved[c]
      /\ UNCHANGED <<tool, loaded, ledgerVars, lost, overlapped>>
  BY DEF Refuse, toolRowVars, CatalogueInv, RowsTyped
<1>2. moved[c] = 0
  BY <1>1 DEF CatalogueInv, CallStages
<1>3. PayerOf(p) # "none"
  BY PaymentsAssumption DEF PayerOf
<1>4. r.captured = 0 /\ ~r.tx /\ r.payer = PayerOf(p)
  BY DEF NoRecord
<1> HIDE DEF r
<1> QED  BY <1>1, <1>2, <1>3, <1>4, RecordedInv

LEMMA RunInv ==
  ASSUME CatalogueInv, NEW c \in Invocations, NEW p \in Payments \cup {NoPayment}, Run(c, p)
  PROVE  CatalogueInv'
<1>1. /\ pc'[c] = "running" /\ pays'[c] = p /\ p \in Payments /\ pc[c] = "idle"
      /\ OnlyCall(c) /\ UNCHANGED <<record, moved, row, lost>>
  BY DEF Run, OnlyCall, CatalogueInv, RowsTyped, ledgerVars
<1>2. CallStages(c)'
  BY <1>1 DEF CatalogueInv, CallStages, Answered
<1>3. \A d \in Invocations : CallStages(d)'
  BY <1>1, <1>2, OthersKeepStage DEF CatalogueInv
<1>4. RowsTyped'
  BY DEF CatalogueInv, RowsTyped, Run, ledgerVars, toolRowVars
<1>5. (~overlapped => Alone)' /\ RollupsAddUp'
  BY <1>1, LedgerQuiet DEF Run, toolRowVars, OnlyCall
<1> QED  BY <1>3, <1>4, <1>5 DEF CatalogueInv

LEMMA FailureIs ==
  ASSUME NEW c \in Invocations, pays[c] \in Payments
  PROVE  /\ Failure(c).captured = 0 /\ ~Failure(c).tx /\ Failure(c).status = "failed"
         /\ Failure(c).payer # "none"
BY PaymentsAssumption DEF Failure, NoRecord

LEMMA RaiseInv ==
  ASSUME CatalogueInv, NEW c \in Invocations, Raise(c)
  PROVE  CatalogueInv'
<1> DEFINE r == Failure(c)
<1>1. /\ pc[c] = "running" /\ Recorded(c, r) /\ pays' = [pays EXCEPT ![c] = pays'[c]]
      /\ moved' = [moved EXCEPT ![c] = moved'[c]] /\ moved'[c] = moved[c]
      /\ UNCHANGED <<tool, loaded, ledgerVars, lost, overlapped>>
  BY DEF Raise, toolRowVars, CatalogueInv, RowsTyped
<1>2. moved[c] = 0 /\ pays[c] \in Payments
  BY <1>1 DEF CatalogueInv, CallStages
<1>3. r.captured = 0 /\ ~r.tx /\ r.payer # "none"
  BY <1>2, FailureIs
<1> HIDE DEF r
<1> QED  BY <1>1, <1>2, <1>3, RecordedInv

LEMMA DeferInv ==
  ASSUME CatalogueInv, NEW c \in Invocations, NEW units \in Consumed, Defer(c, units)
  PROVE  CatalogueInv'
<1> DEFINE n == CaptureAmount(pays[c].scheme, units)
           r == Deferral(c, n)
<1>1. /\ pc[c] = "running" /\ Recorded(c, r) /\ pays' = [pays EXCEPT ![c] = pays'[c]]
      /\ moved' = [moved EXCEPT ![c] = moved'[c]] /\ moved'[c] = moved[c]
      /\ UNCHANGED <<tool, loaded, ledgerVars, lost, overlapped>>
  BY DEF Defer, toolRowVars, CatalogueInv, RowsTyped
<1>2. moved[c] = 0 /\ pays[c] \in Payments
  BY <1>1 DEF CatalogueInv, CallStages
<1>3. n \in Nat
  BY CaptureBounds
<1> HIDE DEF n
<1>4. r.captured = n /\ ~r.tx /\ r.payer = pays[c].payer
  BY DEF Deferral, NoRecord
<1> HIDE DEF r
<1> QED  BY <1>1, <1>2, <1>3, <1>4, RecordedInv, PaymentsAssumption

LEMMA SettleInv ==
  ASSUME CatalogueInv, NEW c \in Invocations, NEW units \in Consumed, NEW silent \in BOOLEAN,
         NEW hash \in BOOLEAN, Settle(c, units, silent, hash)
  PROVE  CatalogueInv'
<1> DEFINE n == CaptureAmount(pays[c].scheme, units)
           least == Min({Base + units, Ceiling})
           k == IF silent THEN least ELSE n
           r == [NoRecord EXCEPT !.status = IF hash THEN "settled" ELSE "captured",
                        !.payer = pays[c].payer, !.scheme = pays[c].scheme,
                        !.authorized = Ceiling, !.tx = hash, !.captured = k]
<1>1. /\ pc[c] = "running" /\ Recorded(c, r) /\ pays' = [pays EXCEPT ![c] = pays'[c]]
      /\ moved' = [moved EXCEPT ![c] = moved'[c]] /\ moved'[c] = n
      /\ UNCHANGED <<tool, loaded, ledgerVars, lost, overlapped>>
  BY DEF Settle, toolRowVars, CatalogueInv, RowsTyped
<1>2. pays[c] \in Payments
  BY <1>1 DEF CatalogueInv, CallStages
<1>3. /\ n \in Nat /\ k \in Nat /\ k <= n
      /\ pays[c].scheme # "exact" => k = n
  <2>1. n \in Nat /\ least \in Nat /\ Ceiling \in Nat /\ least <= Ceiling
    BY CaptureBounds, PricesAssumption
  <2>2. /\ pays[c].scheme \in {"upto", "batch-settlement"} => n = least
        /\ pays[c].scheme \notin {"upto", "batch-settlement"} => n = Ceiling
    BY CaptureBounds
  <2>3. pays[c].scheme # "exact" => n = least
    BY <1>2, <2>2, PaymentsAssumption
  <2> HIDE DEF n, least
  <2> QED  BY <2>1, <2>2, <2>3
<1> HIDE DEF n, k
<1>4. /\ r.captured = k /\ r.status = (IF hash THEN "settled" ELSE "captured") /\ r.tx = hash
      /\ ~r.deferred /\ r.payer = pays[c].payer
      /\ r.scheme = pays[c].scheme
  BY DEF NoRecord
<1> HIDE DEF r
<1>5. r.payer # "none"
  BY <1>2, <1>4, PaymentsAssumption
<1> QED  BY <1>1, <1>3, <1>4, <1>5, RecordedInv

LEMMA SettleFailsInv ==
  ASSUME CatalogueInv, NEW c \in Invocations, NEW units \in Consumed, NEW after \in BOOLEAN,
         SettleFails(c, units, after)
  PROVE  CatalogueInv'
<1> DEFINE n == CaptureAmount(pays[c].scheme, units)
           r == [Failure(c) EXCEPT !.authorized = Ceiling]
<1>1. /\ pc[c] = "running" /\ Recorded(c, r) /\ pays' = [pays EXCEPT ![c] = pays'[c]]
      /\ moved' = [moved EXCEPT ![c] = moved'[c]] /\ moved'[c] = IF after THEN n ELSE 0
      /\ UNCHANGED <<tool, loaded, ledgerVars, lost, overlapped>>
  BY DEF SettleFails, toolRowVars, CatalogueInv, RowsTyped
<1>2. pays[c] \in Payments
  BY <1>1 DEF CatalogueInv, CallStages
<1>3. n \in Nat
  BY CaptureBounds
<1> HIDE DEF n
<1>4. r.captured = 0 /\ r.status = "failed" /\ ~r.tx /\ r.payer = pays[c].payer
  BY DEF Failure, NoRecord
<1> HIDE DEF r
<1>5. r.payer # "none"
  BY <1>2, <1>4, PaymentsAssumption
<1> QED  BY <1>1, <1>3, <1>4, <1>5, RecordedInv

LEMMA StoreFailsInv ==
  ASSUME CatalogueInv, NEW c \in Invocations, StoreFails(c)
  PROVE  CatalogueInv'
<1>1. /\ pc[c] = "storing" /\ pc'[c] \in {"replay", "done"} /\ c \in lost'
      /\ OnlyCall(c) /\ UNCHANGED <<record, moved, row>>
  BY DEF StoreFails, OnlyCall, CatalogueInv, RowsTyped, ledgerVars
<1>2. CallStages(c)'
  BY <1>1 DEF CatalogueInv, CallStages, Answered, RecordTrue
<1>3. \A d \in Invocations : CallStages(d)'
  BY <1>1, <1>2, OthersKeepStage DEF CatalogueInv
<1>4. RowsTyped'
  BY DEF CatalogueInv, RowsTyped, StoreFails, ledgerVars, toolRowVars
<1>5. (~overlapped => Alone)' /\ RollupsAddUp'
  BY <1>1, LedgerQuiet DEF StoreFails, toolRowVars, OnlyCall
<1> QED  BY <1>3, <1>4, <1>5 DEF CatalogueInv

-----------------------------------------------------------------------------
(* The tool row and the batches *)

LEMMA RestartInv ==
  ASSUME CatalogueInv, NEW synced \in BOOLEAN, Restart(synced) \/ Reprice
  PROVE  CatalogueInv'
<1>1. /\ UNCHANGED <<requestVars, ledgerVars>> /\ tool'.captured = tool.captured
      /\ tool' = [f \in ToolFields |-> tool'[f]]
  BY DEF Restart, Reprice, Synced, CatalogueInv, RowsTyped, ToolFields
<1>2. \A d \in Invocations : CallStages(d)'
  BY <1>1 DEF CatalogueInv, CallStages, RecordTrue, RowTrue, requestVars, ledgerVars
<1>3. RowsTyped'
  BY <1>1 DEF CatalogueInv, RowsTyped, requestVars, ledgerVars
<1>4. (~overlapped => Alone)' /\ RollupsAddUp'
  BY <1>1, LedgerQuiet DEF requestVars
<1> QED  BY <1>2, <1>3, <1>4 DEF CatalogueInv

LEMMA CloseBatchInv ==
  ASSUME CatalogueInv, NEW b \in Ids, CloseBatch(b)
  PROVE  CatalogueInv'
<1>1. /\ batch[b].status = "open" /\ batch' = [batch EXCEPT ![b].status = "claiming"]
      /\ reported' = [reported EXCEPT ![b] = batch[b].gross]
      /\ overlapped' = \/ overlapped
                        \/ \E c \in Invocations : pc[c] = "storing" /\ loaded[c].batch = b
      /\ UNCHANGED <<tool, pc, pays, record, loaded, moved, lost, row, session>>
  BY DEF CloseBatch, toolRowVars
<1>2. /\ batch' = [d \in Ids |-> batch'[d]] /\ \A d \in Ids \ {b} : batch'[d] = batch[d]
  BY <1>1 DEF CatalogueInv, RowsTyped
<1>3. \A d \in Invocations : CallStages(d)'
  BY <1>1 DEF CatalogueInv, CallStages, RecordTrue, RowTrue
<1>4. RowsTyped'
  BY <1>1, <1>2 DEF CatalogueInv, RowsTyped
<1>5. ASSUME ~overlapped' PROVE Alone' /\ RollupsAddUp'
  <2>1. ~overlapped /\ Alone /\ \A c \in Invocations : pc[c] = "storing" => loaded[c].batch # b
    BY <1>1, <1>5 DEF CatalogueInv
  <2>2. /\ batch' \in [Ids -> BatchRows]
        /\ batch'[b].status = "claiming" /\ batch'[b].gross = batch[b].gross
    BY <1>1, <2>1 DEF Alone, BatchRows
  <2>3. \A c \in Invocations : pc[c] = "storing" => Fresh(c)'
    BY <1>1, <1>2, <2>1 DEF Alone, Fresh
  <2>4. UsedBatches' = UsedBatches /\ UsedSessions' = UsedSessions
    BY <1>1, <1>2, <2>2 DEF UsedBatches, UsedSessions, NoBatch
  <2>5. (Handed(UsedSessions, SessionOfRow) /\ Handed(UsedBatches, BatchOfRow))'
    BY <1>1, <2>1, <2>4 DEF Alone, Handed, SessionOfRow, BatchOfRow
  <2>6. Alone'
    BY <1>1, <2>1, <2>2, <2>3, <2>4, <2>5 DEF Alone
  <2>7. RollupsAddUp
    BY DEF CatalogueInv
  <2>8. ASSUME NEW s \in Ids PROVE Adds(s)'
    <3>1. Adds(s)
      BY <2>1, <2>7 DEF RollupsAddUp
    <3>2. session' = session /\ row' = row
      BY <1>1
    <3> QED  BY <3>1, <3>2 DEF Adds, CapturedIn, CallsOf
  <2>9. ASSUME NEW d \in Ids PROVE (batch[d].gross = CapturedIn(CallsIn(d)))'
    <3>1. batch'[d].gross = batch[d].gross
      BY <1>2, <2>2
    <3> QED  BY <1>1, <2>1, <2>7, <3>1 DEF RollupsAddUp, CapturedIn, CallsIn
  <2>10. \A d \in Ids : batch'[d].status = "claiming" => batch'[d].gross = reported'[d]
    BY <1>1, <1>2, <2>1, <2>2, <2>7 DEF RollupsAddUp, CatalogueInv, RowsTyped
  <2>11. (tool.captured = CapturedIn(Invocations))'
    BY <1>1, <2>1, <2>7 DEF RollupsAddUp, CapturedIn
  <2>12. RollupsAddUp'
    BY <1>1, <2>1, <2>7, <2>8, <2>9, <2>10, <2>11 DEF RollupsAddUp
  <2> QED  BY <2>6, <2>12
<1>6. overlapped' => RollupsAddUp'
  BY DEF RollupsAddUp
<1> QED  BY <1>3, <1>4, <1>5, <1>6 DEF CatalogueInv

-----------------------------------------------------------------------------
(* Recording a call *)

(* What a worker thread reads is what the ledger says.                        *)
LEMMA LoadedFresh ==
  ASSUME CatalogueInv, NEW c \in Invocations, Load(c), tool.exists
  PROVE  Fresh(c)'
<1> DEFINE ss == SessionsOf(record[c].payer)
           s == IF ss = {} THEN 0 ELSE Max(ss)
           bs == IF record[c].deferred /\ record[c].captured > 0 THEN OpenBatches(s) ELSE {}
           b == IF bs = {} THEN 0 ELSE Max(bs)
           l == [session |-> s, sessionRow |-> IF s = 0 THEN NoSession ELSE session[s],
                 batch |-> b, batchRow |-> IF b = 0 THEN NoBatch ELSE batch[b],
                 calls |-> tool.calls, total |-> tool.captured]
<1>1. loaded'[c] = l /\ UNCHANGED <<session, batch, tool, record>>
  BY DEF Load, CatalogueInv, RowsTyped, toolRowVars, ledgerVars
<1>2. IF s = 0 THEN \A t \in Ids : session[t].payer # record[c].payer
      ELSE s \in Ids /\ session[s].payer = record[c].payer
  <2>1. CASE ss = {}
    BY <2>1 DEF SessionsOf
  <2>2. CASE ss # {}
    <3>1. ss \in SUBSET Ids
      BY DEF SessionsOf
    <3>2. s \in ss
      <4> HIDE DEF ss
      <4> QED  BY <2>2, <3>1, GreatestId
    <3> QED  BY <3>2, IdsFinite DEF SessionsOf
  <2> QED  BY <2>1, <2>2
<1> HIDE DEF s
<1>3. b # 0 => b \in Ids /\ batch[b].status = "open"
  <2>1. CASE bs = {}
    BY <2>1
  <2>2. CASE bs # {}
    <3>1. bs \in SUBSET Ids /\ \A i \in bs : batch[i].status = "open"
      BY DEF OpenBatches
    <3>2. b \in bs
      <4> HIDE DEF bs
      <4> QED  BY <2>2, <3>1, GreatestId
    <3> QED  BY <3>1, <3>2
  <2> QED  BY <2>1, <2>2
<1> HIDE DEF b
<1>4. /\ l.session = s /\ l.sessionRow = (IF s = 0 THEN NoSession ELSE session[s])
      /\ l.batch = b /\ l.batchRow = (IF b = 0 THEN NoBatch ELSE batch[b])
      /\ l.total = tool.captured
  OBVIOUS
<1> HIDE DEF l
<1> QED  BY <1>1, <1>2, <1>3, <1>4 DEF Fresh

LEMMA LoadInv ==
  ASSUME CatalogueInv, NEW c \in Invocations, Load(c)
  PROVE  CatalogueInv'
<1>1. /\ pc[c] = "recording"
      /\ pc'[c] \in {"storing", "done"}
      /\ pc'[c] = "storing" => tool.exists /\ lost' = lost
      /\ pc'[c] = "done" => lost' = lost \cup {c}
      /\ UNCHANGED <<record, moved, row>> /\ OnlyCall(c)
      /\ overlapped' = (overlapped \/ \E d \in Invocations : pc[d] = "storing")
  BY DEF Load, OnlyCall, CatalogueInv, RowsTyped, ledgerVars
<1>2. CallStages(c)'
  BY <1>1 DEF CatalogueInv, CallStages, Answered, RecordTrue
<1>3. \A d \in Invocations : CallStages(d)'
  BY <1>1, <1>2, OthersKeepStage DEF CatalogueInv
<1>4. RowsTyped'
  BY DEF CatalogueInv, RowsTyped, Load, ledgerVars, toolRowVars
<1>5. UNCHANGED <<ledgerVars, tool>>
  BY DEF Load, toolRowVars
<1>6. ASSUME ~overlapped' PROVE Alone'
  <2>1. Alone /\ \A d \in Invocations : pc[d] # "storing"
    BY <1>1, <1>6 DEF CatalogueInv
  <2>2. \A d \in Invocations : pc'[d] = "storing" => d = c
    BY <1>1, <2>1 DEF OnlyCall
  <2>3. ASSUME NEW d \in Invocations, pc'[d] = "storing" PROVE Fresh(d)'
    BY <1>1, <2>2, <2>3, LoadedFresh
  <2>4. (Handed(UsedSessions, SessionOfRow) /\ Handed(UsedBatches, BatchOfRow))'
    BY <1>5, <2>1 DEF Alone, Handed, UsedSessions, UsedBatches, SessionOfRow, BatchOfRow, ledgerVars
  <2> QED  BY <1>5, <2>1, <2>2, <2>3, <2>4 DEF Alone, UsedSessions, ledgerVars
<1>7. RollupsAddUp'
  BY <1>1, <1>5, RollupsSame DEF CatalogueInv
<1> QED  BY <1>3, <1>4, <1>6, <1>7 DEF CatalogueInv

-----------------------------------------------------------------------------
(* Storing a call *)

\* The session and the batch a call is stored in, and the batch row written.
StoreSession(c) ==
  IF loaded[c].session # 0 THEN loaded[c].session ELSE NextId(UsedSessions)
StoreBatch(c) ==
  IF ~(record[c].deferred /\ record[c].captured > 0) THEN 0
  ELSE IF loaded[c].batch # 0 THEN loaded[c].batch ELSE NextId(UsedBatches)
BatchAfter(c) ==
  [session |-> StoreSession(c),
   status |-> IF loaded[c].batch = 0 THEN "open" ELSE batch[StoreBatch(c)].status,
   calls |-> loaded[c].batchRow.calls + 1,
   gross |-> loaded[c].batchRow.gross + record[c].captured]

LEMMA StoreParts ==
  ASSUME CatalogueInv, NEW c \in Invocations, Store(c)
  PROVE  /\ pc[c] = "storing" /\ pc'[c] = "done" /\ OnlyCall(c)
         /\ row'[c].session = StoreSession(c) /\ row'[c].batch = StoreBatch(c)
         /\ row'[c].status = record[c].status /\ row'[c].captured = record[c].captured
         /\ row'[c].tx = record[c].tx /\ row'[c].deferred = record[c].deferred
         /\ row'[c].status \in Paid => row'[c].receipt
         /\ session' = [session EXCEPT ![StoreSession(c)] =
                          SessionAfter(loaded[c].sessionRow, record[c])]
         /\ batch' = IF StoreBatch(c) = 0 THEN batch
                     ELSE [batch EXCEPT ![StoreBatch(c)] = BatchAfter(c)]
         /\ tool'.captured = IF record[c].captured = 0 THEN tool.captured
                             ELSE loaded[c].total + record[c].captured
         /\ UNCHANGED <<pays, record, loaded, moved, lost, overlapped, reported>>
         /\ RowsTyped'
<1> DEFINE s == StoreSession(c)
           b == StoreBatch(c)
           new == [status |-> record[c].status, session |-> s, batch |-> b,
                   authorized |-> record[c].authorized, captured |-> record[c].captured,
                   nonce |-> NonceOf(pays[c]), tx |-> record[c].tx, deferred |-> record[c].deferred,
                   receipt |-> record[c].captured > 0 \/ record[c].status \in Paid]
<1>1. /\ pc[c] = "storing" /\ row' = [row EXCEPT ![c] = new]
      /\ session' = [session EXCEPT ![s] = SessionAfter(loaded[c].sessionRow, record[c])]
      /\ tool' = IF record[c].captured = 0 THEN tool
                 ELSE [tool EXCEPT !.calls = loaded[c].calls + 1,
                                   !.captured = loaded[c].total + record[c].captured]
      /\ pc' = [pc EXCEPT ![c] = "done"]
      /\ UNCHANGED <<pays, record, loaded, moved, lost, overlapped, reported>>
  BY DEF Store, StoreSession, StoreBatch, UsedSessions, UsedBatches
<1>2. batch' = IF b = 0 THEN batch ELSE [batch EXCEPT ![b] = BatchAfter(c)]
  <2>1. batch' = IF b = 0 THEN batch
                 ELSE [batch EXCEPT ![b] =
                   [session |-> s, status |-> IF loaded[c].batch = 0 THEN "open" ELSE @.status,
                    calls |-> loaded[c].batchRow.calls + 1,
                    gross |-> loaded[c].batchRow.gross + record[c].captured]]
    BY DEF Store, StoreSession, StoreBatch, UsedSessions, UsedBatches
  <2> QED  BY <2>1 DEF BatchAfter
<1>3. /\ new.session = s /\ new.batch = b /\ new.status = record[c].status
      /\ new.captured = record[c].captured /\ new.tx = record[c].tx
      /\ new.deferred = record[c].deferred /\ (new.status \in Paid => new.receipt)
  OBVIOUS
<1> HIDE DEF new, s, b
<1>4. row'[c] = new /\ pc'[c] = "done" /\ OnlyCall(c)
  BY <1>1 DEF OnlyCall, CatalogueInv, RowsTyped
<1>5. RowsTyped'
  <2>1. tool' = [f \in ToolFields |-> tool'[f]]
    BY <1>1 DEF CatalogueInv, RowsTyped, ToolFields
  <2>2. session' = [i \in Ids |-> session'[i]] /\ batch' = [i \in Ids |-> batch'[i]]
    BY <1>1, <1>2 DEF CatalogueInv, RowsTyped
  <2> QED  BY <1>1, <2>1, <2>2 DEF CatalogueInv, RowsTyped
<1>6. tool'.captured = IF record[c].captured = 0 THEN tool.captured
                       ELSE loaded[c].total + record[c].captured
  BY <1>1 DEF CatalogueInv, RowsTyped, ToolFields
<1> QED  BY <1>1, <1>2, <1>3, <1>4, <1>5, <1>6 DEF s, b

\* Where a call is stored: in the session of its payer, as it is now, and in a
\* batch as it is now, or in the next of each.
LEMMA StoredWhere ==
  ASSUME CatalogueInv, ~overlapped, NEW c \in Invocations, pc[c] = "storing"
  PROVE  LET s == StoreSession(c)
             b == StoreBatch(c)
         IN  /\ s \in Ids /\ loaded[c].sessionRow = session[s]
             /\ \A t \in 1..s : t = s \/ t \in UsedSessions
             /\ \A t \in Ids \ {s} : session[t].payer # record[c].payer
             /\ b # 0 => /\ b \in Ids /\ loaded[c].batchRow = batch[b]
                         /\ \A t \in 1..b : t = b \/ t \in UsedBatches
                         /\ BatchAfter(c).status = "open"
<1> DEFINE s == StoreSession(c)
           b == StoreBatch(c)
<1>1. Alone /\ Fresh(c)
  BY DEF CatalogueInv, Alone
<1>2. row[c] = NoRow /\ record[c].payer # "none"
  BY DEF CatalogueInv, CallStages, Answered, RecordTrue
<1>3. SessionOfRow[c] = 0 /\ BatchOfRow[c] = 0
  BY <1>2 DEF SessionOfRow, BatchOfRow, NoRow
<1>4. UsedSessions \in SUBSET Ids /\ UsedBatches \in SUBSET Ids
  BY DEF UsedSessions, UsedBatches
<1>5. /\ s \in Ids /\ loaded[c].sessionRow = session[s]
      /\ \A t \in 1..s : t = s \/ t \in UsedSessions
      /\ \A t \in Ids \ {s} : session[t].payer # record[c].payer
  <2>1. CASE loaded[c].session = 0
    <3>1. s = NextId(UsedSessions)
      BY <2>1 DEF StoreSession
    <3>2. s \in Ids \ UsedSessions /\ \A t \in 1..s : t = s \/ t \in UsedSessions
      BY <1>1, <1>3, <1>4, <3>1, NextIsNew DEF Alone
    <3> QED  BY <1>1, <2>1, <3>2 DEF Fresh, UsedSessions
  <2>2. CASE loaded[c].session # 0
    <3>1. s \in Ids /\ session[s].payer = record[c].payer /\ loaded[c].sessionRow = session[s]
      BY <1>1, <2>2 DEF Fresh, StoreSession
    <3>2. s \in UsedSessions
      BY <1>2, <3>1 DEF UsedSessions, NoSession
    <3>3. \A t \in Ids \ {s} : session[t].payer # record[c].payer
      BY <3>1, <3>2 DEF CatalogueInv, RollupsAddUp, UsedSessions
    <3> QED  BY <1>1, <3>1, <3>2, <3>3 DEF Alone, Handed
  <2> QED  BY <2>1, <2>2
<1>6. ASSUME b # 0
      PROVE  /\ b \in Ids /\ loaded[c].batchRow = batch[b]
             /\ \A t \in 1..b : t = b \/ t \in UsedBatches
             /\ BatchAfter(c).status = "open"
  <2>1. CASE loaded[c].batch = 0
    <3>1. b = NextId(UsedBatches)
      BY <1>6, <2>1 DEF StoreBatch
    <3>2. b \in Ids \ UsedBatches /\ \A t \in 1..b : t = b \/ t \in UsedBatches
      BY <1>1, <1>3, <1>4, <3>1, NextIsNew DEF Alone
    <3> QED  BY <1>1, <2>1, <3>2 DEF Fresh, UsedBatches, BatchAfter
  <2>2. CASE loaded[c].batch # 0
    <3>1. b \in Ids /\ batch[b].status = "open" /\ loaded[c].batchRow = batch[b]
      BY <1>1, <1>6, <2>2 DEF Fresh, StoreBatch
    <3>2. b \in UsedBatches
      BY <3>1 DEF UsedBatches, NoBatch
    <3> QED  BY <1>1, <2>2, <3>1, <3>2 DEF Alone, Handed, BatchAfter
  <2> QED  BY <2>1, <2>2
<1> QED  BY <1>5, <1>6

Captures == [c \in Invocations |-> row[c].captured]

LEMMA CapturesTyped ==
  ASSUME CatalogueInv, NEW c \in Invocations
  PROVE  Captures[c] \in Nat
BY DEF Captures, CatalogueInv, CallStages, RowTrue, RecordTrue, Answered, NoRow

\* What a call without a row adds to the sum over a set of others.
LEMMA RowJoins ==
  ASSUME CatalogueInv, NEW c \in Invocations, OnlyCall(c), row'[c].captured \in Nat,
         NEW S \in SUBSET (Invocations \ {c}), NEW U, U = S \cup {c}
  PROVE  /\ Total(S, Captures') = Total(S, Captures)
         /\ Total(U, Captures') = Total(S, Captures) + row'[c].captured
         /\ Cardinality(S) \in Nat /\ Cardinality(U) = Cardinality(S) + 1
         /\ Total(S, Captures) \in Nat
<1> DEFINE T == Invocations \ {c}
<1>1. IsFiniteSet(T) /\ c \notin T
  BY InvocationsAssumption, FS_RemoveElement
<1>2. Captures'[c] = row'[c].captured
  BY DEF Captures
<1>3. \A d \in T : Captures'[d] = Captures[d] /\ Captures[d] \in Nat
  BY CapturesTyped DEF OnlyCall, Captures
<1>4. SameAmounts(T, Captures, Captures')
  BY <1>3 DEF SameAmounts
<1>5. S \in SUBSET T
  OBVIOUS
<1> HIDE DEF T
<1>6. PICK f : f = Captures
  OBVIOUS
<1>7. PICK g : g = Captures'
  OBVIOUS
<1>8. Total(S, g) = Total(S, f) /\ Total(U, g) = Total(S, f) + g[c]
  BY <1>1, <1>2, <1>4, <1>5, <1>6, <1>7, TotalJoin
<1>9. IsFiniteSet(S) /\ c \notin S
  BY <1>1, <1>5, FS_Subset
<1>10. Cardinality(S) \in Nat /\ Cardinality(U) = Cardinality(S) + 1
  BY <1>9, FS_AddElement, FS_CardinalityType
<1>11. Total(S, f) \in Nat
  BY <1>3, <1>5, <1>6, <1>9, TotalType
<1> QED  BY <1>2, <1>6, <1>7, <1>8, <1>10, <1>11

LEMMA StoreAlone ==
  ASSUME CatalogueInv, ~overlapped, NEW c \in Invocations, Store(c)
  PROVE  Alone'
<1>0. PICK s, b : s = StoreSession(c) /\ b = StoreBatch(c)
  OBVIOUS
<1>1. PICK after : after = SessionAfter(loaded[c].sessionRow, record[c])
  OBVIOUS
<1>2. /\ pc[c] = "storing" /\ pc'[c] = "done" /\ OnlyCall(c)
      /\ row'[c].session = s /\ row'[c].batch = b
      /\ session' = [session EXCEPT ![s] = after]
      /\ batch' = IF b = 0 THEN batch ELSE [batch EXCEPT ![b] = BatchAfter(c)]
  BY <1>0, <1>1, StoreParts
<1>3. /\ s \in Ids /\ loaded[c].sessionRow = session[s]
      /\ \A t \in 1..s : t = s \/ t \in UsedSessions
      /\ b # 0 => /\ b \in Ids /\ loaded[c].batchRow = batch[b]
                  /\ \A t \in 1..b : t = b \/ t \in UsedBatches
                  /\ BatchAfter(c).status = "open"
  BY <1>0, <1>2, StoredWhere
<1>4. Alone /\ row[c] = NoRow /\ record[c].payer # "none" /\ record[c].captured \in Nat
  BY <1>2 DEF CatalogueInv, CallStages, RecordTrue, Answered
<1>5. after.payer = record[c].payer /\ after.settled \in Int
  BY <1>1, <1>3, <1>4 DEF SessionAfter, Alone
<1>6. session'[s] = after /\ \A t \in Ids \ {s} : session'[t] = session[t]
  BY <1>2, <1>3 DEF CatalogueInv, RowsTyped
<1>7. \A d \in Invocations : pc'[d] # "storing"
  BY <1>2, <1>4 DEF Alone, OnlyCall
<1>8. after # NoSession
  BY <1>4, <1>5 DEF NoSession
<1>9. UsedSessions' = UsedSessions \cup {s}
  BY <1>3, <1>6, <1>8 DEF UsedSessions
<1>10. /\ \A d \in Invocations \ {c} : row'[d] = row[d]
       /\ SessionOfRow[c] = 0 /\ BatchOfRow[c] = 0
       /\ SessionOfRow'[c] = s /\ BatchOfRow'[c] = b
  BY <1>2, <1>4 DEF OnlyCall, SessionOfRow, BatchOfRow, NoRow
<1>11. \A d \in Invocations \ {c} :
         SessionOfRow'[d] = SessionOfRow[d] /\ BatchOfRow'[d] = BatchOfRow[d]
  BY <1>10 DEF SessionOfRow, BatchOfRow
<1>12. Handed(UsedSessions', SessionOfRow')
  <2>1. ASSUME NEW i \in UsedSessions' PROVE 1..i \subseteq UsedSessions'
    BY <1>3, <1>4, <1>9 DEF Alone, Handed
  <2>2. ASSUME NEW i \in UsedSessions' PROVE \E d \in Invocations : SessionOfRow'[d] = i
    <3>1. CASE i = s
      BY <1>10, <3>1
    <3>2. CASE i # s
      <4>1. i \in UsedSessions /\ i # 0
        BY <1>9, <3>2, IdsFinite DEF UsedSessions
      <4>2. PICK d \in Invocations : SessionOfRow[d] = i
        BY <1>4, <4>1 DEF Alone, Handed
      <4> QED  BY <1>10, <1>11, <4>1, <4>2
    <3> QED  BY <3>1, <3>2
  <2> QED  BY <2>1, <2>2 DEF Handed
<1>13. Handed(UsedBatches', BatchOfRow') /\ batch' \in [Ids -> BatchRows]
  <2>1. CASE b = 0
    <3>1. batch' = batch /\ UsedBatches' = UsedBatches
      BY <1>2, <2>1 DEF UsedBatches
    <3>2. ASSUME NEW i \in UsedBatches PROVE \E d \in Invocations : BatchOfRow'[d] = i
      <4>1. i # 0
        BY IdsFinite DEF UsedBatches
      <4>2. PICK d \in Invocations : BatchOfRow[d] = i
        BY <1>4 DEF Alone, Handed
      <4> QED  BY <1>10, <1>11, <4>1, <4>2
    <3> QED  BY <1>4, <3>1, <3>2 DEF Alone, Handed
  <2>2. CASE b # 0
    <3>1. b \in Ids /\ batch' = [batch EXCEPT ![b] = BatchAfter(c)]
      BY <1>2, <1>3, <2>2
    <3>2. BatchAfter(c) \in BatchRows
      <4>1. batch[b] \in BatchRows
        BY <1>4, <3>1 DEF Alone
      <4>2. batch[b].calls \in Int /\ batch[b].gross \in Int
        BY <4>1 DEF BatchRows
      <4>3. s \in Nat /\ BatchAfter(c).status = "open"
        BY <1>3, <2>2, IdsFinite
      <4>4. /\ BatchAfter(c) = [session |-> s, status |-> BatchAfter(c).status,
                                calls |-> batch[b].calls + 1,
                                gross |-> batch[b].gross + record[c].captured]
        BY <1>0, <1>3, <2>2 DEF BatchAfter
      <4> QED  BY <1>4, <4>2, <4>3, <4>4 DEF BatchRows
    <3>3. /\ batch'[b] = BatchAfter(c) /\ \A t \in Ids \ {b} : batch'[t] = batch[t]
          /\ batch' \in [Ids -> BatchRows]
      BY <1>4, <3>1, <3>2 DEF Alone
    <3>4. UsedBatches' = UsedBatches \cup {b}
      <4>1. BatchAfter(c) # NoBatch
        BY <1>3, <2>2 DEF NoBatch
      <4> QED  BY <3>1, <3>3, <4>1 DEF UsedBatches
    <3>5. ASSUME NEW i \in UsedBatches' PROVE 1..i \subseteq UsedBatches'
      BY <1>3, <1>4, <2>2, <3>4 DEF Alone, Handed
    <3>6. ASSUME NEW i \in UsedBatches' PROVE \E d \in Invocations : BatchOfRow'[d] = i
      <4>1. CASE i = b
        BY <1>10, <4>1
      <4>2. CASE i # b
        <5>1. i \in UsedBatches /\ i # 0
          BY <3>4, <4>2, IdsFinite DEF UsedBatches
        <5>2. PICK d \in Invocations : BatchOfRow[d] = i
          BY <1>4, <5>1 DEF Alone, Handed
        <5> QED  BY <1>10, <1>11, <5>1, <5>2
      <4> QED  BY <4>1, <4>2
    <3> QED  BY <3>3, <3>5, <3>6 DEF Handed
  <2> QED  BY <2>1, <2>2
<1>14. /\ \A t \in UsedSessions' : session'[t].payer # "none"
       /\ \A t \in Ids : session'[t].settled \in Int
  <2>1. /\ \A t \in UsedSessions : t \in Ids /\ session[t].payer # "none"
        /\ \A t \in Ids : session[t].settled \in Int
    BY <1>4 DEF Alone, UsedSessions
  <2> QED  BY <1>4, <1>5, <1>6, <1>9, <2>1
<1> QED  BY <1>7, <1>12, <1>13, <1>14 DEF Alone

LEMMA StoreRollups ==
  ASSUME CatalogueInv, ~overlapped, NEW c \in Invocations, Store(c)
  PROVE  RollupsAddUp'
<1>0. PICK s, b : s = StoreSession(c) /\ b = StoreBatch(c)
  OBVIOUS
<1>1. PICK after : after = SessionAfter(loaded[c].sessionRow, record[c])
  OBVIOUS
<1>2. PICK n : n = record[c].captured
  OBVIOUS
<1>3. /\ pc[c] = "storing" /\ OnlyCall(c) /\ UNCHANGED reported
      /\ row'[c].session = s /\ row'[c].batch = b /\ row'[c].captured = n
      /\ row'[c].deferred = record[c].deferred
      /\ session' = [session EXCEPT ![s] = after]
      /\ batch' = IF b = 0 THEN batch ELSE [batch EXCEPT ![b] = BatchAfter(c)]
      /\ tool'.captured = IF n = 0 THEN tool.captured ELSE loaded[c].total + n
  BY <1>0, <1>1, <1>2, StoreParts
<1>4. /\ s \in Ids /\ loaded[c].sessionRow = session[s]
      /\ \A t \in Ids \ {s} : session[t].payer # record[c].payer
      /\ b # 0 => b \in Ids /\ loaded[c].batchRow = batch[b] /\ BatchAfter(c).status = "open"
  BY <1>0, <1>3, StoredWhere
<1>5. Alone /\ row[c] = NoRow /\ record[c].payer # "none" /\ n \in Nat
  BY <1>2, <1>3 DEF CatalogueInv, CallStages, RecordTrue, Answered
<1>6. RollupsAddUp
  BY DEF CatalogueInv
<1>7. session'[s] = after /\ \A t \in Ids \ {s} : session'[t] = session[t]
  BY <1>3, <1>4 DEF CatalogueInv, RowsTyped
<1>8. /\ after.payer = record[c].payer /\ after.calls = session[s].calls + 1
      /\ after.captured = session[s].captured + n
      /\ after.settled = session[s].settled + (IF record[c].deferred THEN 0 ELSE n)
  BY <1>1, <1>2, <1>4 DEF SessionAfter
<1>9. /\ \A d \in Invocations \ {c} : row'[d] = row[d]
      /\ row[c].session = 0 /\ row[c].batch = 0
      /\ s # 0 /\ \A t \in Ids : t # 0
  BY <1>3, <1>4, <1>5, IdsFinite DEF OnlyCall, NoRow
<1>10. ASSUME NEW t \in Ids PROVE Adds(t)'
  <2> DEFINE D == {d \in CallsOf(t) : row[d].deferred}
  <2>1. /\ session[t].captured = Total(CallsOf(t), Captures)
        /\ session[t].calls = Cardinality(CallsOf(t))
        /\ session[t].captured - session[t].settled = Total(D, Captures)
        /\ session[t].settled \in Int
    BY <1>5, <1>6 DEF RollupsAddUp, Adds, CapturedIn, Captures, Alone
  <2>2. CallsOf(t) \in SUBSET (Invocations \ {c}) /\ D \in SUBSET (Invocations \ {c})
    BY <1>9 DEF CallsOf
  <2>3. PICK A, B : A = CallsOf(t) /\ B = D
    OBVIOUS
  <2>4. /\ Total(A, Captures') = Total(A, Captures)
        /\ Total(A \cup {c}, Captures') = Total(A, Captures) + n
        /\ Cardinality(A) \in Nat /\ Cardinality(A \cup {c}) = Cardinality(A) + 1
        /\ Total(A, Captures) \in Nat
    BY <1>3, <1>5, <2>2, <2>3, RowJoins
  <2>5. /\ Total(B, Captures') = Total(B, Captures)
        /\ Total(B \cup {c}, Captures') = Total(B, Captures) + n
        /\ Total(B, Captures) \in Nat
    BY <1>3, <1>5, <2>2, <2>3, RowJoins
  <2>6. CallsOf(t)' = IF t = s THEN A \cup {c} ELSE A
    BY <1>3, <1>9, <2>3 DEF CallsOf
  <2>7. D' = IF t = s /\ record[c].deferred THEN B \cup {c} ELSE B
    BY <1>3, <1>9, <2>2, <2>3 DEF CallsOf
  <2> HIDE DEF D
  <2>8. /\ session'[t].captured = Total(CallsOf(t)', Captures')
        /\ session'[t].calls = Cardinality(CallsOf(t)')
        /\ session'[t].captured - session'[t].settled = Total(D', Captures')
    <3>1. CASE t = s /\ record[c].deferred
      BY <1>5, <1>7, <1>8, <2>1, <2>3, <2>4, <2>5, <2>6, <2>7, <3>1
    <3>2. CASE t = s /\ ~record[c].deferred
      BY <1>5, <1>7, <1>8, <2>1, <2>3, <2>4, <2>5, <2>6, <2>7, <3>2
    <3>3. CASE t # s
      BY <1>7, <2>1, <2>3, <2>4, <2>5, <2>6, <2>7, <3>3
    <3> QED  BY <3>1, <3>2, <3>3
  <2> QED  BY <2>8 DEF Adds, CapturedIn, Captures, D
<1>11. ASSUME NEW t \in Ids
       PROVE  /\ (batch[t].gross = CapturedIn(CallsIn(t)))'
              /\ batch'[t].status = "claiming" => batch'[t].gross = reported'[t]
  <2>1. /\ batch[t].gross = Total(CallsIn(t), Captures)
        /\ batch[t].status = "claiming" => batch[t].gross = reported[t]
    BY <1>5, <1>6 DEF RollupsAddUp, CapturedIn, Captures
  <2>2. CallsIn(t) \in SUBSET (Invocations \ {c})
    BY <1>9 DEF CallsIn
  <2>3. PICK A : A = CallsIn(t)
    OBVIOUS
  <2>4. /\ Total(A, Captures') = Total(A, Captures)
        /\ Total(A \cup {c}, Captures') = Total(A, Captures) + n
    BY <1>3, <1>5, <2>2, <2>3, RowJoins
  <2>5. CallsIn(t)' = IF t = b THEN A \cup {c} ELSE A
    BY <1>3, <1>9, <2>3 DEF CallsIn
  <2>6. CASE t = b
    <3>1. batch'[t] = BatchAfter(c) /\ loaded[c].batchRow = batch[b]
      BY <1>3, <1>4, <1>9, <2>6 DEF CatalogueInv, RowsTyped
    <3>2. BatchAfter(c).gross = batch[t].gross + n /\ BatchAfter(c).status = "open"
      BY <1>2, <1>4, <1>9, <2>6, <3>1 DEF BatchAfter
    <3> QED  BY <2>1, <2>3, <2>4, <2>5, <2>6, <3>1, <3>2 DEF CapturedIn, Captures
  <2>7. CASE t # b
    <3>1. batch'[t] = batch[t]
      BY <1>3, <1>4, <2>7 DEF CatalogueInv, RowsTyped
    <3> QED  BY <1>3, <2>1, <2>3, <2>4, <2>5, <2>7, <3>1 DEF CapturedIn, Captures
  <2> QED  BY <2>6, <2>7
<1>12. (tool.captured = CapturedIn(Invocations))'
  <2>1. PICK A : A = Invocations \ {c}
    OBVIOUS
  <2>2. PICK E : E = Invocations
    OBVIOUS
  <2>3. /\ Total(E, Captures') = Total(A, Captures) + n
        /\ Total(A, Captures) \in Nat
    BY <1>3, <1>5, <2>1, <2>2, RowJoins
  <2>4. Total(E, Captures) = Total(A, Captures) + Captures[c]
    <3>1. Captures \in [E -> Nat] /\ IsFiniteSet(E) /\ c \in E
      BY <2>2, CapturesTyped, InvocationsAssumption DEF Captures
    <3> QED  BY <2>1, <2>2, <3>1, TotalSplit
  <2>5. Captures[c] = 0
    BY <1>5 DEF Captures, NoRow
  <2>6. tool.captured = Total(E, Captures)
    BY <1>6, <2>2 DEF RollupsAddUp, CapturedIn, Captures
  <2>7. loaded[c].total = tool.captured
    BY <1>3, <1>5 DEF Alone, Fresh
  <2>8. tool'.captured = Total(E, Captures')
    BY <1>3, <1>5, <2>3, <2>4, <2>5, <2>6, <2>7
  <2> QED  BY <2>2, <2>8 DEF CapturedIn, Captures
<1>13. ASSUME NEW p \in Ids, NEW q \in Ids, session'[p].payer = session'[q].payer,
              session'[p] # NoSession
       PROVE  p = q
  <2>1. session[p].payer = session[q].payer /\ session[p] # NoSession => p = q
    BY <1>6 DEF RollupsAddUp
  <2>2. CASE p = s
    BY <1>4, <1>7, <1>8, <1>13, <2>2
  <2>3. CASE p # s /\ q = s
    BY <1>4, <1>7, <1>8, <1>13, <2>3
  <2>4. CASE p # s /\ q # s
    BY <1>7, <1>13, <2>1, <2>4
  <2> QED  BY <2>2, <2>3, <2>4
<1> QED  BY <1>10, <1>11, <1>12, <1>13 DEF RollupsAddUp

LEMMA StoreInv ==
  ASSUME CatalogueInv, NEW c \in Invocations, Store(c)
  PROVE  CatalogueInv'
<1>1. /\ pc[c] = "storing" /\ pc'[c] = "done" /\ OnlyCall(c)
      /\ row'[c].batch = StoreBatch(c)
      /\ row'[c].status = record[c].status /\ row'[c].captured = record[c].captured
      /\ row'[c].tx = record[c].tx /\ row'[c].deferred = record[c].deferred
      /\ row'[c].status \in Paid => row'[c].receipt
      /\ UNCHANGED <<record, moved, lost, overlapped>>
      /\ RowsTyped'
  BY StoreParts
<1>2. /\ record[c].deferred /\ record[c].captured > 0 => StoreBatch(c) # 0
      /\ ~record[c].deferred => StoreBatch(c) = 0
  <2>1. NextId(UsedBatches) # 0
    <3>1. Cardinality(UsedBatches) \in Nat
      <4>1. UsedBatches \subseteq Ids
        BY DEF UsedBatches
      <4> QED  BY <4>1, IdsFinite, FS_Subset, FS_CardinalityType
    <3> QED  BY <3>1 DEF NextId
  <2> QED  BY <2>1 DEF StoreBatch
<1>3. CallStages(c)'
  <2>1. RecordTrue(c) /\ c \notin lost
    BY <1>1 DEF CatalogueInv, CallStages, Answered
  <2>2. RecordTrue(c)'
    BY <1>1, <2>1 DEF RecordTrue
  <2>3. RowTrue(c)'
    BY <1>1, <1>2 DEF RowTrue
  <2> QED  BY <1>1, <2>1, <2>2, <2>3 DEF CallStages, Answered
<1>4. \A d \in Invocations : CallStages(d)'
  BY <1>1, <1>3, OthersKeepStage DEF CatalogueInv
<1>5. (~overlapped => Alone)' /\ RollupsAddUp'
  BY <1>1, StoreAlone, StoreRollups DEF RollupsAddUp
<1> QED  BY <1>1, <1>4, <1>5 DEF CatalogueInv

-----------------------------------------------------------------------------
(* The theorems *)

LEMMA CatalogueInitInv == CatalogueInit => CatalogueInv
<1> SUFFICES ASSUME CatalogueInit PROVE CatalogueInv
  OBVIOUS
<1>1. RowsTyped
  BY DEF CatalogueInit, RowsTyped, ToolFields
<1>2. \A c \in Invocations : CallStages(c)
  BY DEF CatalogueInit, CallStages, Answered
<1>3. UsedSessions = {} /\ UsedBatches = {}
  BY DEF CatalogueInit, UsedSessions, UsedBatches
<1>4. Alone
  BY <1>3 DEF CatalogueInit, Alone, Handed, NoSession, NoBatch, BatchRows
<1>5. RollupsAddUp
  <2>1. \A S : S \in SUBSET Invocations => CapturedIn(S) = 0
    <3> SUFFICES ASSUME NEW S \in SUBSET Invocations PROVE CapturedIn(S) = 0
      OBVIOUS
    <3>1. PICK f : f = Captures
      OBVIOUS
    <3>2. \A c \in S : f[c] = 0
      BY <3>1 DEF CatalogueInit, Captures, NoRow
    <3>3. Total(S, f) = 0
      BY <3>2, TotalZero
    <3> QED  BY <3>1, <3>3 DEF CapturedIn, Captures
  <2>2. \A s \in Ids : CallsOf(s) = {} /\ CallsIn(s) = {}
    BY IdsFinite DEF CatalogueInit, CallsOf, CallsIn, NoRow
  <2>3. ASSUME NEW s \in Ids PROVE Adds(s)
    <3>1. {c \in CallsOf(s) : row[c].deferred} = {}
      BY <2>2
    <3>2. session[s].captured = 0 /\ session[s].calls = 0 /\ session[s].settled = 0
      BY DEF CatalogueInit, NoSession
    <3>3. CallsOf(s) = {} /\ CapturedIn({}) = 0 /\ Cardinality({}) = 0
      BY <2>1, <2>2, FS_EmptySet
    <3>4. CapturedIn(CallsOf(s)) = 0 /\ CapturedIn({c \in CallsOf(s) : row[c].deferred}) = 0
      BY <3>1, <3>3
    <3> QED  BY <3>2, <3>3, <3>4 DEF Adds
  <2>4. \A b \in Ids : batch[b].gross = CapturedIn(CallsIn(b)) /\ batch[b].status # "claiming"
    BY <2>1, <2>2 DEF CatalogueInit, NoBatch
  <2>5. tool.captured = CapturedIn(Invocations)
    BY <2>1 DEF CatalogueInit
  <2>6. \A s \in Ids : session[s] = NoSession
    BY DEF CatalogueInit
  <2> QED  BY <2>3, <2>4, <2>5, <2>6 DEF RollupsAddUp
<1> QED  BY <1>1, <1>2, <1>4, <1>5 DEF CatalogueInv

LEMMA CatalogueNextInv == CatalogueInv /\ [CatalogueNext]_catalogueVars => CatalogueInv'
<1> SUFFICES ASSUME CatalogueInv, [CatalogueNext]_catalogueVars PROVE CatalogueInv'
  OBVIOUS
<1>1. ASSUME NEW c \in Invocations, ServeCall(c) PROVE CatalogueInv'
  <2>1. ASSUME NEW p \in Payments \cup {NoPayment}, Refuse(c, p) \/ Run(c, p) PROVE CatalogueInv'
    BY <2>1, RefuseInv, RunInv
  <2>2. ASSUME NEW units \in Consumed, Defer(c, units) PROVE CatalogueInv'
    BY <2>2, DeferInv
  <2>3. ASSUME NEW units \in Consumed, NEW silent \in BOOLEAN, NEW hash \in BOOLEAN,
             Settle(c, units, silent, hash)
        PROVE  CatalogueInv'
    BY <2>3, SettleInv
  <2>4. ASSUME NEW units \in Consumed, NEW after \in BOOLEAN, SettleFails(c, units, after)
        PROVE  CatalogueInv'
    BY <2>4, SettleFailsInv
  <2>5. ASSUME Raise(c) \/ Load(c) \/ Store(c) \/ StoreFails(c) PROVE CatalogueInv'
    BY <2>5, RaiseInv, LoadInv, StoreInv, StoreFailsInv
  <2> QED  BY <1>1, <2>1, <2>2, <2>3, <2>4, <2>5 DEF ServeCall
<1>2. ASSUME NEW synced \in BOOLEAN, Restart(synced) PROVE CatalogueInv'
  BY <1>2, RestartInv
<1>3. CASE Reprice
  BY <1>3, RestartInv
<1>4. ASSUME NEW b \in Ids, CloseBatch(b) PROVE CatalogueInv'
  BY <1>4, CloseBatchInv
<1>5. CASE UNCHANGED catalogueVars
  <2>1. UNCHANGED <<tool, requestVars, ledgerVars>>
    BY <1>5 DEF catalogueVars, toolRowVars
  <2>2. RowsTyped'
    BY <2>1 DEF CatalogueInv, RowsTyped, requestVars, ledgerVars
  <2>3. \A c \in Invocations : CallStages(c)'
    BY <2>1 DEF CatalogueInv, CallStages, RecordTrue, RowTrue, requestVars, ledgerVars
  <2>4. (~overlapped => Alone)' /\ RollupsAddUp'
    BY <2>1, LedgerQuiet DEF requestVars
  <2> QED  BY <2>2, <2>3, <2>4 DEF CatalogueInv
<1> QED  BY <1>1, <1>2, <1>3, <1>4, <1>5 DEF CatalogueNext

(* Every reachable state satisfies the invariant of the earlier ledger.       *)
LEMMA CatalogueInvHolds == CatalogueSpec => []CatalogueInv
BY CatalogueInitInv, CatalogueNextInv, PTL DEF CatalogueSpec

(* The sessions, the batches and the tool row say what the call rows say, and *)
(* a closed batch is what close_batch answered, for any calls, payers and     *)
(* prices, while no two records were in their worker threads at one time.     *)
THEOREM EarlierRollupsAddUp == CatalogueSpec => []RollupsAddUp
<1>1. CatalogueInv => RollupsAddUp
  BY DEF CatalogueInv
<1> QED  BY <1>1, CatalogueInvHolds, PTL

(* A row or a receipt of the earlier ledger names a transaction only for      *)
(* money that moved; a deferred call is in a batch and names none.            *)
THEOREM TransactionsAreReal == CatalogueSpec => []NoFalseTransaction
<1>1. CatalogueInv => NoFalseTransaction
  <2> SUFFICES ASSUME CatalogueInv, NEW c \in Invocations
               PROVE  /\ row[c].tx => row[c].captured <= moved[c] /\ row[c].status = "settled"
                                      /\ row[c].receipt
                      /\ row[c].deferred /\ row[c].captured > 0 => row[c].batch # 0 /\ ~row[c].tx
    BY DEF NoFalseTransaction
  <2>1. CASE row[c] = NoRow
    BY <2>1 DEF NoRow
  <2>2. CASE RowTrue(c) /\ RecordTrue(c)
    BY <2>2 DEF RowTrue, RecordTrue, Paid
  <2> QED  BY <2>1, <2>2 DEF CatalogueInv, CallStages, Answered
<1> QED  BY <1>1, CatalogueInvHolds, PTL

(* What the chain moved for a call is in its row, at no more than moved, with  *)
(* a receipt and outside every batch, whether the answer named a transaction   *)
(* or not.                                                                     *)
THEOREM MovedIsRecorded == CatalogueSpec => []PaidIsRecorded
<1>1. CatalogueInv => PaidIsRecorded
  <2> SUFFICES ASSUME CatalogueInv, NEW c \in Invocations, pc[c] = "done", moved[c] > 0,
                      c \notin lost, row[c].status # "failed"
               PROVE  /\ row[c].status = (IF row[c].tx THEN "settled" ELSE "captured")
                      /\ row[c].receipt /\ row[c].batch = 0 /\ row[c].captured <= moved[c]
                      /\ record[c].scheme # "exact" => row[c].captured = moved[c]
    BY DEF PaidIsRecorded
  <2>1. RowTrue(c) /\ RecordTrue(c)
    BY DEF CatalogueInv, CallStages, Answered
  <2>2. row[c].status \in Paid
    BY <2>1 DEF RowTrue, RecordTrue, Paid
  <2> QED  BY <2>1, <2>2 DEF RowTrue, RecordTrue
<1> QED  BY <1>1, CatalogueInvHolds, PTL
=============================================================================
