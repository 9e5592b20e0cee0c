---------------------------- MODULE PricingProofs ----------------------------
(***************************************************************************)
(* No capture exceeds its authorization, and no window gives the platform  *)
(* more than its take, for every declaration, price, fee and consumption.  *)
(***************************************************************************)
EXTENDS Pricing, TotalsProofs

\* A declared tool: its ceiling, when it has one, is not under its price.
Declared(s) ==
  /\ s.price \in Nat /\ s.per \in Nat /\ s.meter \in Meters \cup {Unmetered}
  /\ s.max \in Nat \cup {Absent} /\ (s.max # Absent => s.price <= s.max)

Reading ==
  /\ reading.captured \in Nat /\ reading.authorized \in Nat
  /\ reading.captured <= reading.authorized
  /\ reading.capped => reading.captured = reading.authorized

Conserves(w) ==
  /\ w.gross \in Nat /\ w.platform \in Nat /\ w.net \in Int
  /\ w.platform + w.net = w.gross /\ w.platform * Bps <= w.gross * TakeBps

BatchRecord ==
  [status : {"none", "open", "settled"}, calls : Nat, gross : Nat, platform : Nat, net : Int,
   fee : Nat]

Inv ==
  /\ Declared(spec)
  /\ live.units \in Nat \cup {Absent}
  /\ Reading
  /\ Conserves(paid) /\ Conserves(window) /\ window.calls \in Nat
  /\ batches \in [Ids -> BatchRecord] /\ \A b \in Ids : Conserves(batches[b])

-----------------------------------------------------------------------------
(* Amounts *)

LEMMA FlooredQuotient ==
  ASSUME NEW a \in Nat, NEW b \in Nat \ {0}
  PROVE  a \div b \in Nat /\ (a \div b) * b <= a
OBVIOUS

LEMMA Products ==
  ASSUME NEW a \in Nat, NEW b \in Nat, NEW c \in Nat
  PROVE  a * c \in Nat /\ (a + b) * c = a * c + b * c
OBVIOUS

LEMMA CutFloors ==
  ASSUME NEW gross \in Nat
  PROVE  /\ PlatformCut(gross, TakeBps) \in Nat
         /\ PlatformCut(gross, TakeBps) * Bps <= gross * TakeBps
<1>1. gross * TakeBps \in Nat /\ Bps \in Nat \ {0}
  BY MoneyAssumption, Products
<1> QED  BY <1>1, FlooredQuotient DEF PlatformCut

(* One more call keeps a window's split.                                      *)
LEMMA SplitAdds ==
  ASSUME NEW w, Conserves(w), NEW captured \in Nat
  PROVE  Conserves(Counted(w, captured))
<1> DEFINE cut == PlatformCut(captured, TakeBps)
<1>1. cut \in Nat /\ cut * Bps <= captured * TakeBps /\ TakeBps \in Nat /\ Bps \in Nat
  BY CutFloors, MoneyAssumption
<1>2. AuthorNet(captured, TakeBps) = captured - cut
  BY DEF AuthorNet
<1> HIDE DEF cut
<1>3. /\ w.gross \in Nat /\ w.platform \in Nat /\ w.net \in Int
      /\ w.platform + w.net = w.gross /\ w.platform * Bps <= w.gross * TakeBps
  BY DEF Conserves
<1>4. (w.platform + cut) * Bps <= (w.gross + captured) * TakeBps
  <2>1. (w.platform + cut) * Bps = w.platform * Bps + cut * Bps
    BY <1>1, <1>3, Products
  <2>2. (w.gross + captured) * TakeBps = w.gross * TakeBps + captured * TakeBps
    BY <1>1, <1>3, Products
  <2>3. /\ w.platform * Bps \in Nat /\ cut * Bps \in Nat
        /\ w.gross * TakeBps \in Nat /\ captured * TakeBps \in Nat
    BY <1>1, <1>3, Products
  <2> QED  BY <1>1, <1>3, <2>1, <2>2, <2>3
<1> QED  BY <1>1, <1>2, <1>3, <1>4 DEF Conserves, cut, Counted

(* What a call consumed, and what it is captured at.                          *)
LEMMA UnitsTyped ==
  ASSUME Inv, NEW o \in Outcomes
  PROVE  UnitsOf(spec, Bridged(spec, live.units, o), o) \in Nat
<1>1. o.bytes \in Nat /\ o.ms \in Nat
  BY OutcomesAssumption
<1>2. CeilDiv(o.ms, 1000) \in Nat
  BY <1>1, FlooredQuotient DEF CeilDiv
<1> QED  BY <1>1, <1>2 DEF UnitsOf, Measured, Bridged, Declared, Meters, Inv

LEMMA CaptureFits ==
  ASSUME Declared(spec), NEW units \in Nat
  PROVE  /\ Capture(spec, units) \in Nat /\ Authorized(spec) \in Nat
         /\ Capture(spec, units) <= Authorized(spec)
         /\ spec.price + units * spec.per > Authorized(spec) =>
              Capture(spec, units) = Authorized(spec)
<1>1. spec.price + units * spec.per \in Nat
  BY Products DEF Declared
<1>2. Authorized(spec) \in Nat
  BY DEF Authorized, Declared
<1> QED  BY <1>1, <1>2 DEF Capture, Least

LEMMA ParsedTyped ==
  ASSUME NEW p, p.value \in Int PROVE ParsePrice(p) \in Nat \cup {Refused}
<1>1. CASE p.value < 0
  BY <1>1 DEF ParsePrice
<1>2. CASE p.value >= 0
  <2>1. p.value \div Sub \in Nat
    BY <1>2, MoneyAssumption, FlooredQuotient
  <2> QED  BY <1>2, <2>1 DEF ParsePrice
<1> QED  BY <1>1, <1>2

LEMMA AcceptedDeclaration ==
  ASSUME NEW d \in Declarations, Accepts(d)
  PROVE  Declared(SpecOf(d))
<1>1. d.scheme \in Schemes /\ d.meter \in Meters \cup {Unmetered}
      /\ \A p \in {d.price, d.max, d.per} : p.value \in Int
  BY DeclarationsAssumption
<1>2. \A p \in {d.price, d.max, d.per} : ParsePrice(p) \in Nat \cup {Refused}
  BY <1>1, ParsedTyped
<1>3. Valid(SpecOf(d))
  BY DEF Accepts
<1> QED
  BY <1>1, <1>2, <1>3 DEF Valid, SpecOf, Optional, Declared, Refused, Absent

-----------------------------------------------------------------------------
(* Every action keeps the invariant *)

LEMMA InitInv == ASSUME Init PROVE Inv
<1>1. 0 * Bps <= 0 * TakeBps
  BY MoneyAssumption
<1>2. Conserves(EmptyWindow) /\ Conserves(NoBatch) /\ NoBatch \in BatchRecord
  BY <1>1 DEF Conserves, EmptyWindow, NoBatch, BatchRecord
<1>3. window.calls = 0
  BY DEF Init, EmptyWindow
<1> QED  BY <1>2, <1>3 DEF Init, Inv, Declared, Reading, NoMeter, NoSpec, Absent

LEMMA FinishInv ==
  ASSUME Inv, NEW o \in Outcomes, NEW tx \in BOOLEAN, Finish(o, tx) PROVE Inv'
<1> DEFINE units == UnitsOf(spec, Bridged(spec, live.units, o), o)
<1>1. Declared(spec) /\ units \in Nat
  BY UnitsTyped DEF Inv
<1>2. /\ reading'.captured = Capture(spec, units) /\ reading'.authorized = Authorized(spec)
      /\ reading'.capped = (spec.price + units * spec.per > Authorized(spec))
      /\ paid' = (IF tx THEN Counted(paid, Capture(spec, units)) ELSE paid)
      /\ window' = (IF tx THEN window ELSE Counted(window, Capture(spec, units)))
      /\ live' = NoMeter /\ UNCHANGED <<spec, batches>>
  BY DEF Finish
<1> HIDE DEF units
<1>3. Reading'
  BY <1>1, <1>2, CaptureFits DEF Reading
<1>4. Capture(spec, units) \in Nat
  BY <1>1, CaptureFits
<1>5. Conserves(paid') /\ Conserves(window')
  BY <1>2, <1>4, SplitAdds DEF Inv
<1>6. window'.calls \in Nat
  <2>1. Counted(window, Capture(spec, units)).calls = window.calls + 1
    BY DEF Counted
  <2> QED  BY <1>2, <2>1 DEF Inv
<1> QED  BY <1>2, <1>3, <1>5, <1>6 DEF Inv, NoMeter

(* The row a window is cut into.                                              *)
LEMMA CutRow ==
  ASSUME Inv, NEW b \in Ids, Cut(b)
  PROVE  \E row \in BatchRecord :
           /\ row.status = "open" /\ row.gross = window.gross /\ row.platform = window.platform
           /\ row.net = window.net /\ row.fee = SettlementCost(1, TxPerBatch, 0)
           /\ batches' = [batches EXCEPT ![b] = row] /\ Conserves(row)
<1>1. PICK row : row = [status |-> "open", calls |-> window.calls, gross |-> window.gross,
                        platform |-> window.platform, net |-> window.net,
                        fee |-> SettlementCost(1, TxPerBatch, 0)]
  OBVIOUS
<1>2. SettlementCost(1, TxPerBatch, 0) \in Nat
  BY MoneyAssumption DEF SettlementCost, TxPerBatch, Greatest
<1>3. row \in BatchRecord
  BY <1>1, <1>2 DEF Inv, Conserves, BatchRecord
<1>4. Conserves(row)
  BY <1>1 DEF Inv, Conserves
<1> QED  BY <1>1, <1>3, <1>4 DEF Cut

(* The row a settlement leaves.                                               *)
LEMMA SettledRow ==
  ASSUME Inv, NEW b \in Ids, Settle(b)
  PROVE  \E row \in BatchRecord :
           /\ row.status = "settled" /\ row.gross = batches[b].gross
           /\ row.platform = batches[b].platform /\ row.net = batches[b].net
           /\ row.fee = batches[b].fee
           /\ batches' = [batches EXCEPT ![b] = row] /\ Conserves(row)
<1>1. PICK old \in BatchRecord : old = batches[b]
  BY DEF Inv
<1>2. PICK row : row = [old EXCEPT !.status = "settled"]
  OBVIOUS
<1>3. row \in BatchRecord /\ row.status = "settled" /\ row.gross = old.gross
      /\ row.platform = old.platform /\ row.net = old.net /\ row.fee = old.fee
  BY <1>2 DEF BatchRecord
<1>4. Conserves(row)
  BY <1>1, <1>3 DEF Inv, Conserves
<1>5. batches' = [batches EXCEPT ![b] = row]
  BY <1>1, <1>2 DEF Settle
<1> QED  BY <1>1, <1>3, <1>4, <1>5

LEMMA NextInv == ASSUME Inv, [Next]_vars PROVE Inv'
<1>1. ASSUME NEW d \in Declarations, Declare(d) PROVE Inv'
  BY <1>1, AcceptedDeclaration DEF Declare, sessionVars, Inv, Reading
<1>2. CASE Begin
  BY <1>2 DEF Begin, sessionVars, NoMeter, Inv, Reading
<1>3. ASSUME NEW n \in Reports, Record(n) PROVE Inv'
  <2>1. live'.units \in Nat
    <3>1. live'.units = (IF live.units = Absent THEN 0 ELSE live.units) + n
      BY <1>3 DEF Record, Recorded
    <3> QED  BY <3>1, ReportsAssumption DEF Inv
  <2> QED  BY <1>3, <2>1 DEF Record, sessionVars, Inv, Reading
<1>4. CASE Raise
  BY <1>4 DEF Raise, sessionVars, NoMeter, Inv, Reading
<1>5. ASSUME NEW b \in Ids, Cut(b) PROVE Inv'
  <2>1. Conserves(EmptyWindow) /\ EmptyWindow.calls = 0
    <3>1. 0 * Bps <= 0 * TakeBps
      BY MoneyAssumption
    <3> QED  BY <3>1 DEF Conserves, EmptyWindow
  <2>2. PICK row \in BatchRecord : batches' = [batches EXCEPT ![b] = row] /\ Conserves(row)
    BY <1>5, CutRow
  <2>3. batches' \in [Ids -> BatchRecord] /\ \A a \in Ids : Conserves(batches'[a])
    BY <2>2 DEF Inv
  <2> QED  BY <1>5, <2>1, <2>3 DEF Cut, callVars, Inv, Reading
<1>6. ASSUME NEW b \in Ids, Settle(b) PROVE Inv'
  <2>1. PICK row \in BatchRecord : batches' = [batches EXCEPT ![b] = row] /\ Conserves(row)
    BY <1>6, SettledRow
  <2>2. batches' \in [Ids -> BatchRecord] /\ \A a \in Ids : Conserves(batches'[a])
    BY <2>1 DEF Inv
  <2> QED  BY <1>6, <2>2 DEF Settle, callVars, Inv, Reading
<1>7. CASE UNCHANGED vars
  BY <1>7 DEF vars, callVars, sessionVars, Inv, Reading
<1> QED  BY <1>1, <1>2, <1>3, <1>4, <1>5, <1>6, <1>7, FinishInv DEF Next

LEMMA Invariance == Spec => []Inv
<1>1. Init => Inv
  BY InitInv
<1>2. Inv /\ [Next]_vars => Inv'
  BY NextInv
<1> QED  BY <1>1, <1>2, PTL DEF Spec

(* No capture exceeds what was authorized, whatever a handler reports.         *)
THEOREM NoOverCapture == Spec => []CaptureWithinAuthorization
<1>1. Inv => CaptureWithinAuthorization
  BY DEF Inv, Reading, Declared, Authorized, CaptureWithinAuthorization, Absent
<1> QED  BY <1>1, Invariance, PTL

(* Flooring call by call conserves every window and batch to the unit, the     *)
(* calls settled on their own among them, and never gives the platform more    *)
(* than its take of the sum.                                                   *)
THEOREM EveryWindowConserves == Spec => []WindowConserves
<1>1. Inv => WindowConserves
  BY DEF Inv, Conserves, WindowConserves
<1> QED  BY <1>1, Invariance, PTL

-----------------------------------------------------------------------------
(* The two meters                                                             *)

\* What the core reads and what the Meter in scope would have computed agree
\* when the call is finished, and neither is looked at again.
LEMMA FinishBridge ==
  ASSUME Inv, NEW o \in Outcomes, NEW tx \in BOOLEAN, Finish(o, tx) PROVE BridgeAgrees'
<1> DEFINE units == UnitsOf(spec, Bridged(spec, live.units, o), o)
<1>1. /\ reading'.meter = spec.meter /\ reading'.dict = o.dict /\ reading'.recorded = live.units
      /\ reading'.captured = Capture(spec, units)
      /\ reading'.bridge = MeterCapture(spec, live.units)
  BY DEF Finish
<1>2. ASSUME spec.meter \in {"tokens", "bytes", "seconds"}, o.dict, live.units # Absent
      PROVE  units = live.units /\ MeterCapture(spec, live.units) = Capture(spec, live.units)
  BY <1>2 DEF UnitsOf, Bridged, Unmetered, MeterCapture, Capture
<1> HIDE DEF units
<1> QED  BY <1>1, <1>2 DEF BridgeAgrees

LEMMA NextBridge == ASSUME Inv, BridgeAgrees, [Next]_vars PROVE BridgeAgrees'
<1>1. UNCHANGED reading \/ \E o \in Outcomes, tx \in BOOLEAN : Finish(o, tx)
  BY DEF Next, Declare, Begin, Record, Raise, Cut, Settle, vars, callVars
<1> QED  BY <1>1, FinishBridge DEF BridgeAgrees

(* "the bridge": whatever a handler records, and however it is metered, what   *)
(* the payment core captures is what the catalogue's Meter computed, whenever  *)
(* its units can cross.                                                        *)
THEOREM TheMetersAgree == Spec => []BridgeAgrees
<1>1. Init => BridgeAgrees
  BY DEF Init, BridgeAgrees
<1>2. Inv /\ BridgeAgrees /\ [Next]_vars => BridgeAgrees'
  BY NextBridge
<1> QED  BY <1>1, <1>2, Invariance, PTL DEF Spec

-----------------------------------------------------------------------------
(* Break-even                                                                 *)

\* Every call of the window captured its price at least.
Worth ==
  /\ live.open \/ window.calls > 0 => spec # NoSpec
  /\ window.calls \in Nat /\ window.gross \in Nat
  /\ window.gross >= window.calls * spec.price

LEMMA FinishWorth ==
  ASSUME Inv, Worth, NEW o \in Outcomes, NEW tx \in BOOLEAN, Finish(o, tx) PROVE Worth'
<1> DEFINE units == UnitsOf(spec, Bridged(spec, live.units, o), o)
<1>1. Declared(spec) /\ units \in Nat
  BY UnitsTyped DEF Inv
<1>2. /\ window' = (IF tx THEN window ELSE Counted(window, Capture(spec, units)))
      /\ spec # NoSpec /\ spec' = spec /\ ~live'.open
  BY DEF Finish, Worth, NoMeter
<1> HIDE DEF units
<1>3. Capture(spec, units) \in Nat /\ Capture(spec, units) >= spec.price
  <2>1. units * spec.per \in Nat
    BY <1>1, Products DEF Declared
  <2>2. Authorized(spec) \in Nat /\ spec.price <= Authorized(spec)
    BY <1>1 DEF Authorized, Declared
  <2> QED  BY <1>1, <2>1, <2>2 DEF Capture, Least, Declared
<1>4. (window.calls + 1) * spec.price = window.calls * spec.price + spec.price
      /\ window.calls * spec.price \in Nat
  BY <1>1, Products DEF Worth, Declared
<1>5. ~tx => /\ window'.calls = window.calls + 1
             /\ window'.gross = window.gross + Capture(spec, units)
  BY <1>2 DEF Counted
<1> QED  BY <1>1, <1>2, <1>3, <1>4, <1>5 DEF Worth, Declared

LEMMA NextWorth == ASSUME Inv, Worth, [Next]_vars PROVE Worth'
<1>1. ASSUME NEW d \in Declarations, Declare(d) PROVE Worth'
  <2>1. window.calls = 0 /\ ~live.open /\ UNCHANGED <<window, live>>
    BY <1>1 DEF Declare, sessionVars, Worth
  <2>2. spec'.price \in Nat
    BY <1>1, AcceptedDeclaration DEF Declare, Declared
  <2> QED  BY <2>1, <2>2 DEF Worth
<1>2. CASE Begin \/ Raise \/ \E n \in Reports : Record(n)
  BY <1>2 DEF Begin, Raise, Record, Recorded, NoMeter, sessionVars, Worth
<1>3. CASE \E b \in Ids : Cut(b)
  <2>1. window'.calls = 0 /\ window'.gross = 0 /\ UNCHANGED <<spec, live>> /\ spec.price \in Nat
    BY <1>3 DEF Cut, callVars, EmptyWindow, Inv, Declared
  <2> QED  BY <2>1 DEF Worth
<1>4. CASE UNCHANGED vars \/ \E b \in Ids : Settle(b)
  BY <1>4 DEF vars, callVars, sessionVars, Settle, Worth
<1> QED  BY <1>1, <1>2, <1>3, <1>4, FinishWorth DEF Next

LEMMA InitWorth == Init => Worth
BY DEF Init, NoMeter, EmptyWindow, NoSpec, Worth

(* Quotients, rounded down and up.                                            *)
LEMMA QuotientAtMost ==
  ASSUME NEW a \in Nat, NEW b \in Nat \ {0}, NEW c \in Nat, a <= b * c
  PROVE  a \div b <= c
OBVIOUS

LEMMA QuotientLeast ==
  ASSUME NEW a \in Nat, NEW b \in Nat \ {0}
  PROVE  a \div b \in Nat /\ (a \div b) * b \in Nat /\ (a \div b) * b <= a /\ a < (a \div b) * b + b
OBVIOUS

LEMMA CeilDivBounds ==
  ASSUME NEW a \in Nat, NEW b \in Nat \ {0}
  PROVE  LET q == CeilDiv(a, b) IN q \in Nat /\ a <= q * b /\ q * b < a + b
<1>1. a + b - 1 \in Nat
  OBVIOUS
<1>2. PICK q : q = (a + b - 1) \div b
  OBVIOUS
<1>3. q \in Nat /\ q * b \in Nat /\ q * b <= a + b - 1 /\ a + b - 1 < q * b + b
  BY <1>1, <1>2, QuotientLeast
<1> QED  BY <1>2, <1>3 DEF CeilDiv

(* What one settlement of a batch costs, and the load it puts on a gross.     *)
LEMMA SettlementOfOne ==
  /\ SettlementCost(1, TxPerBatch, 0) = 2 * Fee
  /\ \A calls \in Nat \ {0}, gross \in Nat :
       Comparison(calls, gross).batchedLoad = FeeLoad(2 * Fee, gross)
<1>1. SettlementCost(1, TxPerBatch, 0) = 2 * Fee
  BY MoneyAssumption DEF SettlementCost, TxPerBatch, Greatest
<1> QED  BY <1>1 DEF Comparison

(* break_even_calls: from it on the load is within the target, and one call   *)
(* short of it, with every call at the price, it is not.                      *)
LEMMA BreakEvenMargin ==
  ASSUME NEW price \in Nat \ {0}, NEW calls \in Nat, NEW gross \in Nat, gross >= calls * price,
         calls > 0
  PROVE  /\ calls >= BreakEven(price) => FeeLoad(2 * Fee, gross) <= TargetBps
         /\ BreakEven(price) > 1 /\ calls = BreakEven(price) - 1 /\ gross = calls * price
              => 2 * Fee * Bps > gross * TargetBps
<1>1. /\ Fee \in Nat /\ Bps \in Nat \ {0} /\ TargetBps \in Nat \ {0}
      /\ TxPerBatch = 2
  BY MoneyAssumption, BoundsAssumption DEF TxPerBatch
<1>2. PICK cost : cost = 2 * Fee * Bps
  OBVIOUS
<1>3. PICK per : per = price * TargetBps
  OBVIOUS
<1>4. cost \in Nat /\ per \in Nat \ {0}
  BY <1>1, <1>2, <1>3
<1>5. PICK q : q = CeilDiv(cost, per)
  OBVIOUS
<1>6. q \in Nat /\ cost <= q * per /\ q * per < cost + per
  BY <1>4, <1>5, CeilDivBounds
<1>7. BreakEven(price) = IF Fee = 0 THEN 1 ELSE IF 1 > q THEN 1 ELSE q
  BY <1>1, <1>2, <1>3, <1>5 DEF BreakEven, Greatest
<1>8. gross * TargetBps \in Nat /\ calls * per \in Nat /\ calls * per <= gross * TargetBps
  <2>1. calls * price \in Nat /\ (calls * price) * TargetBps = calls * per
    BY <1>1, <1>3
  <2>2. PICK cp \in Nat : cp = calls * price
    BY <2>1
  <2>3. cp * TargetBps <= gross * TargetBps /\ gross * TargetBps \in Nat /\ cp * TargetBps \in Nat
    BY <1>1, <2>2
  <2> QED  BY <2>1, <2>2, <2>3
<1>9. ASSUME calls >= BreakEven(price) PROVE FeeLoad(2 * Fee, gross) <= TargetBps
  <2>1. CASE gross = 0
    BY <1>1, <2>1 DEF FeeLoad
  <2>2. CASE gross > 0
    <3>1. cost <= gross * TargetBps
      <4>1. CASE Fee = 0
        BY <1>1, <1>2, <1>8, <4>1
      <4>2. CASE Fee # 0
        <5>1. calls >= q
          BY <1>6, <1>7, <1>9, <4>2
        <5>2. q * per <= calls * per /\ q * per \in Nat
          BY <1>4, <1>6, <5>1
        <5> QED  BY <1>4, <1>6, <1>8, <5>2
      <4> QED  BY <4>1, <4>2
    <3>2. cost \div gross <= TargetBps
      BY <1>1, <1>4, <2>2, <3>1, QuotientAtMost
    <3> QED  BY <1>2, <2>2, <3>2 DEF FeeLoad
  <2> QED  BY <2>1, <2>2
<1>10. ASSUME BreakEven(price) > 1, calls = BreakEven(price) - 1, gross = calls * price
       PROVE  cost > gross * TargetBps
  <2>1. BreakEven(price) = q /\ calls = q - 1
    BY <1>6, <1>7, <1>10
  <2>2. (calls * price) * TargetBps = calls * per
    BY <1>1, <1>3
  <2>3. gross * TargetBps = calls * per
    BY <1>10, <2>2
  <2>4. q * per = calls * per + per
    BY <1>4, <1>6, <2>1
  <2> QED  BY <1>4, <1>6, <1>8, <2>3, <2>4
<1> QED  BY <1>2, <1>9, <1>10

(* "Smallest batch whose fee load is at or under target_bps": for every price, *)
(* fee and target, a window of break_even_calls captures settles within the    *)
(* target whatever its calls metered, and one call less at the bare price is   *)
(* over it.                                                                    *)
THEOREM BreakEvenHolds == Spec => []BreakEvenIsEnough
<1>1. Inv /\ Worth => BreakEvenIsEnough
  <2> SUFFICES ASSUME Inv, Worth, spec.price > 0, window.calls > 0
               PROVE  LET load == Comparison(window.calls, window.gross).batchedLoad
                          n == BreakEven(spec.price)
                      IN  /\ window.calls >= n => load <= TargetBps
                          /\ n > 1 /\ window.calls = n - 1
                               /\ window.gross = window.calls * spec.price
                             => SettlementCost(1, TxPerBatch, 0) * Bps > window.gross * TargetBps
    BY DEF BreakEvenIsEnough
  <2>1. spec.price \in Nat \ {0} /\ window.calls \in Nat \ {0} /\ window.gross \in Nat
        /\ window.gross >= window.calls * spec.price
    BY DEF Inv, Declared, Worth
  <2> QED  BY <2>1, BreakEvenMargin, SettlementOfOne
<1>2. Inv /\ Worth /\ [Next]_vars => Worth'
  BY NextWorth
<1> QED  BY <1>1, <1>2, InitWorth, Invariance, PTL DEF Spec

-----------------------------------------------------------------------------
(* The report                                                                 *)

LEMMA ProductsGrow ==
  ASSUME NEW a \in Nat, NEW b \in Nat, a <= b, NEW c \in Nat PROVE a * c <= b * c
OBVIOUS

(* What the author keeps of a window is never less than nothing.              *)
LEMMA NetIsNat ==
  ASSUME NEW w, Conserves(w) PROVE w.platform <= w.gross /\ w.net \in Nat
<1>1. /\ w.gross \in Nat /\ w.platform \in Nat /\ w.net \in Int
      /\ w.platform + w.net = w.gross /\ w.platform * Bps <= w.gross * TakeBps
      /\ Bps \in Nat \ {0} /\ TakeBps \in Nat /\ TakeBps <= Bps
  BY MoneyAssumption DEF Conserves
<1>2. w.gross * TakeBps <= w.gross * Bps
  <2>1. TakeBps * w.gross <= Bps * w.gross
    BY <1>1, ProductsGrow
  <2> QED  BY <1>1, <2>1
<1>3. w.platform <= w.gross
  <2> SUFFICES ASSUME w.gross + 1 <= w.platform PROVE FALSE
    BY <1>1
  <2>1. (w.gross + 1) * Bps <= w.platform * Bps
    BY <1>1, ProductsGrow
  <2>2. (w.gross + 1) * Bps = w.gross * Bps + Bps
    BY <1>1
  <2> QED  BY <1>1, <1>2, <2>1, <2>2
<1> QED  BY <1>1, <1>3

(* A column summed over some rows, and what a new value in one row does to it. *)
SumOf(rows, S, column) == Total(S, [b \in S |-> rows[b][column]])
Natural(rows, column) == \A b \in Ids : rows[b][column] \in Nat

LEMMA SumOfNat ==
  ASSUME NEW rows, NEW column, Natural(rows, column), NEW S \in SUBSET Ids
  PROVE  /\ IsFiniteSet(S) /\ SumOf(rows, S, column) \in Nat
         /\ SumOf(rows, S, column) = Total(S, [b \in Ids |-> rows[b][column]])
<1>1. IsFiniteSet(S)
  <2>1. IsFiniteSet(1..MaxBatches)
    BY FS_Interval, BoundsAssumption
  <2> QED  BY <2>1, FS_Subset DEF Ids
<1>2. [b \in S |-> rows[b][column]] \in [S -> Nat]
  BY DEF Natural
<1>3. PICK f : f = [b \in S |-> rows[b][column]]
  OBVIOUS
<1>4. PICK g : g = [b \in Ids |-> rows[b][column]]
  OBVIOUS
<1>5. \A b \in S : f[b] = g[b]
  BY <1>3, <1>4
<1>6. Total(S, f) = Total(S, g)
  BY <1>5, TotalAgree
<1>7. Total(S, f) \in Nat
  BY <1>1, <1>2, <1>3, TotalNat
<1> QED  BY <1>1, <1>3, <1>4, <1>6, <1>7 DEF SumOf

LEMMA SumOfAgrees ==
  ASSUME NEW rows, NEW new, NEW column, NEW S, \A b \in S : new[b][column] = rows[b][column]
  PROVE  SumOf(new, S, column) = SumOf(rows, S, column)
<1>1. [b \in S |-> new[b][column]] = [b \in S |-> rows[b][column]]
  OBVIOUS
<1> QED  BY <1>1 DEF SumOf

LEMMA SumOfWith ==
  ASSUME NEW rows, NEW column, Natural(rows, column), NEW S \in SUBSET Ids, NEW b \in Ids \ S
  PROVE  SumOf(rows, S \cup {b}, column) = SumOf(rows, S, column) + rows[b][column]
<1>1. PICK g : g = [a \in Ids |-> rows[a][column]]
  OBVIOUS
<1>2. g[b] = rows[b][column] /\ g[b] \in Nat /\ \A a \in S : g[a] \in Nat
  BY <1>1 DEF Natural
<1>3. S \cup {b} \in SUBSET Ids
  OBVIOUS
<1>4. /\ IsFiniteSet(S) /\ SumOf(rows, S, column) = Total(S, g)
      /\ SumOf(rows, S \cup {b}, column) = Total(S \cup {b}, g)
  BY <1>1, <1>3, SumOfNat
<1>5. Total(S \cup {b}, g) = Total(S, g) + g[b]
  BY <1>2, <1>4, TotalAdd
<1> QED  BY <1>2, <1>4, <1>5

LEMMA SumOfNewRow ==
  ASSUME NEW rows, NEW new, NEW column, Natural(rows, column), Natural(new, column),
         NEW S \in SUBSET Ids, NEW b \in S,
         \A a \in S \ {b} : new[a][column] = rows[a][column]
  PROVE  SumOf(new, S, column) = SumOf(rows, S, column) - rows[b][column] + new[b][column]
<1>1. PICK T : T = S \ {b}
  OBVIOUS
<1>2. T \in SUBSET Ids /\ b \in Ids \ T /\ T \cup {b} = S
  BY <1>1
<1>3. SumOf(rows, S, column) = SumOf(rows, T, column) + rows[b][column]
      /\ SumOf(new, S, column) = SumOf(new, T, column) + new[b][column]
  BY <1>2, SumOfWith
<1>4. SumOf(new, T, column) = SumOf(rows, T, column)
  BY <1>1, SumOfAgrees
<1>5. SumOf(rows, T, column) \in Nat /\ rows[b][column] \in Nat /\ new[b][column] \in Nat
  BY <1>2, SumOfNat DEF Natural
<1> QED  BY <1>3, <1>4, <1>5

(* The rows of a session against its history: what the sweeps brought in and   *)
(* cost is what the settled batches say, and what is owed is the rest.         *)
Books ==
  /\ money.swept = SumOf(batches, SettledBatches, "gross")
  /\ money.fees = SumOf(batches, SettledBatches, "fee")
  /\ money.owed = window.gross + SumOf(batches, Ids \ SettledBatches, "gross")
  /\ \A b \in Ids : /\ batches[b].status = "none" => batches[b].gross = 0
                    /\ batches[b].status = "open" => batches[b].fee = TxPerBatch * Fee

LEMMA NaturalRows ==
  ASSUME Inv
  PROVE  /\ Natural(batches, "gross") /\ Natural(batches, "fee")
         /\ Natural(batches, "platform") /\ Natural(batches, "net")
<1>1. \A b \in Ids : batches[b].net \in Nat
  BY NetIsNat DEF Inv
<1> QED  BY <1>1 DEF Natural, Inv, BatchRecord

LEMMA FinishBooks ==
  ASSUME Inv, Books, NEW o \in Outcomes, NEW tx \in BOOLEAN, Finish(o, tx) PROVE Books'
<1> DEFINE units == UnitsOf(spec, Bridged(spec, live.units, o), o)
<1>1. Capture(spec, units) \in Nat
  BY UnitsTyped, CaptureFits DEF Inv
<1>2. /\ window' = (IF tx THEN window ELSE Counted(window, Capture(spec, units)))
      /\ money' = (IF tx THEN money ELSE [money EXCEPT !.owed = @ + Capture(spec, units)])
      /\ batches' = batches /\ SettledBatches' = SettledBatches
  BY DEF Finish, SettledBatches
<1> HIDE DEF units
<1>3. PICK rest : rest = SumOf(batches, Ids \ SettledBatches, "gross")
  OBVIOUS
<1>4. rest \in Nat /\ money.owed = window.gross + rest /\ window.gross \in Nat
  BY <1>3, NaturalRows, SumOfNat DEF Books, Inv, Conserves
<1>5. /\ money'.swept = money.swept /\ money'.fees = money.fees
      /\ money'.owed = window'.gross + rest
  <2>1. CASE tx
    BY <1>2, <1>4, <2>1
  <2>2. CASE ~tx
    <3>1. window'.gross = window.gross + Capture(spec, units)
      BY <1>2, <2>2 DEF Counted
    <3>2. money'.owed = money.owed + Capture(spec, units)
          /\ money'.swept = money.swept /\ money'.fees = money.fees
      BY <1>2, <2>2
    <3> QED  BY <1>1, <1>4, <3>1, <3>2
  <2> QED  BY <2>1, <2>2
<1> QED  BY <1>2, <1>3, <1>5 DEF Books

LEMMA CutBooks ==
  ASSUME Inv, Books, Inv', NEW b \in Ids, Cut(b) PROVE Books'
<1>1. PICK row \in BatchRecord :
        /\ row.status = "open" /\ row.gross = window.gross
        /\ row.fee = SettlementCost(1, TxPerBatch, 0)
        /\ batches' = [batches EXCEPT ![b] = row]
  BY CutRow
<1>2. batches'[b] = row /\ \A a \in Ids \ {b} : batches'[a] = batches[a]
  BY <1>1 DEF Inv
<1>3. SettledBatches' = SettledBatches /\ batches[b].status = "none"
  BY <1>1, <1>2 DEF Cut, SettledBatches
<1>4. PICK S \in SUBSET Ids : S = SettledBatches
  BY DEF SettledBatches
<1>5. PICK T \in SUBSET Ids : T = Ids \ SettledBatches
  OBVIOUS
<1>6. b \in T /\ b \notin S
  BY <1>3, <1>4, <1>5 DEF SettledBatches
<1>7. SumOf(batches', S, "gross") = SumOf(batches, S, "gross")
      /\ SumOf(batches', S, "fee") = SumOf(batches, S, "fee")
  BY <1>2, <1>6, SumOfAgrees
<1>8. Natural(batches, "gross") /\ Natural(batches', "gross")
  <2>1. Natural(batches', "gross")
    BY DEF Inv, Natural, BatchRecord
  <2> QED  BY <2>1, NaturalRows
<1>9. SumOf(batches', T, "gross") = SumOf(batches, T, "gross") - batches[b]["gross"]
                                     + batches'[b]["gross"]
  BY <1>2, <1>6, <1>8, SumOfNewRow
<1>10. batches[b]["gross"] = 0 /\ batches'[b]["gross"] = window.gross /\ window.gross \in Nat
       /\ SumOf(batches, T, "gross") \in Nat
  BY <1>1, <1>2, <1>3, <1>8, SumOfNat DEF Books, Inv, Conserves
<1>11. SumOf(batches', T, "gross") = SumOf(batches, T, "gross") + window.gross
  BY <1>9, <1>10
<1>12. money.owed = window.gross + SumOf(batches, T, "gross")
  BY <1>5 DEF Books
<1>13. window'.gross = 0 /\ money' = money
  BY DEF Cut, EmptyWindow
<1>14. money'.owed = window'.gross + SumOf(batches', T, "gross")
  BY <1>10, <1>11, <1>12, <1>13
<1>15. row.fee = TxPerBatch * Fee
  BY <1>1, SettlementOfOne DEF TxPerBatch
<1>16. \A a \in Ids : /\ batches'[a].status = "none" => batches'[a].gross = 0
                      /\ batches'[a].status = "open" => batches'[a].fee = TxPerBatch * Fee
  BY <1>1, <1>2, <1>15 DEF Books
<1>17. /\ money'.swept = SumOf(batches', SettledBatches', "gross")
       /\ money'.fees = SumOf(batches', SettledBatches', "fee")
  BY <1>3, <1>4, <1>7, <1>13 DEF Books
<1> QED  BY <1>3, <1>5, <1>14, <1>16, <1>17 DEF Books

LEMMA SettleBooks ==
  ASSUME Inv, Books, Inv', NEW b \in Ids, Settle(b) PROVE Books'
<1>1. PICK row \in BatchRecord :
        /\ row.status = "settled" /\ row.gross = batches[b].gross /\ row.fee = batches[b].fee
        /\ batches' = [batches EXCEPT ![b] = row]
  BY SettledRow
<1>2. batches'[b] = row /\ \A a \in Ids \ {b} : batches'[a] = batches[a]
  BY <1>1 DEF Inv
<1>3. PICK S \in SUBSET Ids : S = SettledBatches
  BY DEF SettledBatches
<1>4. PICK T \in SUBSET Ids : T = Ids \ SettledBatches'
  OBVIOUS
<1>5. batches[b].status = "open"
  BY DEF Settle
<1>6. SettledBatches' = S \cup {b} /\ b \in Ids \ S
  BY <1>1, <1>2, <1>3, <1>5 DEF SettledBatches
<1>7. b \in Ids \ T /\ Ids \ SettledBatches = T \cup {b}
  BY <1>3, <1>4, <1>6
<1>8. /\ Natural(batches, "gross") /\ Natural(batches, "fee")
      /\ Natural(batches', "gross") /\ Natural(batches', "fee")
  <2>1. Natural(batches', "gross") /\ Natural(batches', "fee")
    BY DEF Inv, Natural, BatchRecord
  <2> QED  BY <2>1, NaturalRows
<1>9. /\ \A a \in Ids : batches'[a]["gross"] = batches[a]["gross"]
      /\ \A a \in Ids : batches'[a]["fee"] = batches[a]["fee"]
  BY <1>1, <1>2
<1>10. SumOf(batches', S \cup {b}, "gross") = SumOf(batches', S, "gross") + batches'[b]["gross"]
  BY <1>6, <1>8, SumOfWith
<1>11. SumOf(batches', S \cup {b}, "fee") = SumOf(batches', S, "fee") + batches'[b]["fee"]
  BY <1>6, <1>8, SumOfWith
<1>12. SumOf(batches, T \cup {b}, "gross") = SumOf(batches, T, "gross") + batches[b]["gross"]
  BY <1>7, <1>8, SumOfWith
<1>13. /\ SumOf(batches', S, "gross") = SumOf(batches, S, "gross")
       /\ SumOf(batches', S, "fee") = SumOf(batches, S, "fee")
       /\ SumOf(batches', T, "gross") = SumOf(batches, T, "gross")
  BY <1>9, SumOfAgrees
<1>14. /\ money'.owed = money.owed - batches[b].gross
       /\ money'.swept = money.swept + batches[b].gross
       /\ money'.fees = money.fees + TxPerBatch * Fee /\ window' = window
  BY DEF Settle
<1>15. batches[b].fee = TxPerBatch * Fee
  BY <1>5 DEF Books
<1>16. money'.swept = SumOf(batches', SettledBatches', "gross")
       /\ money'.fees = SumOf(batches', SettledBatches', "fee")
  BY <1>3, <1>6, <1>9, <1>10, <1>11, <1>13, <1>14, <1>15 DEF Books
<1>17. money.owed = window.gross + SumOf(batches, T \cup {b}, "gross")
  BY <1>7 DEF Books
<1>18. /\ SumOf(batches, T, "gross") \in Nat /\ batches[b]["gross"] \in Nat
       /\ window.gross \in Nat /\ batches[b].gross = batches[b]["gross"]
  BY <1>8, SumOfNat DEF Natural, Inv, Conserves
<1>19. money'.owed = window'.gross + SumOf(batches', T, "gross")
  BY <1>12, <1>13, <1>14, <1>17, <1>18
<1>20. \A a \in Ids : /\ batches'[a].status = "none" => batches'[a].gross = 0
                      /\ batches'[a].status = "open" => batches'[a].fee = TxPerBatch * Fee
  BY <1>1, <1>2 DEF Books
<1> QED  BY <1>4, <1>16, <1>19, <1>20 DEF Books

LEMMA NextBooks == ASSUME Inv, Books, Inv', [Next]_vars PROVE Books'
<1>1. CASE UNCHANGED sessionVars
  BY <1>1 DEF sessionVars, Books, SettledBatches
<1>2. UNCHANGED sessionVars \/ (\E o \in Outcomes, tx \in BOOLEAN : Finish(o, tx))
      \/ (\E b \in Ids : Cut(b)) \/ (\E b \in Ids : Settle(b))
  BY DEF Next, Declare, Begin, Record, Raise, vars
<1> QED  BY <1>1, <1>2, FinishBooks, CutBooks, SettleBooks

LEMMA InitBooks == ASSUME Init PROVE Books
<1>1. SettledBatches = {} /\ \A b \in Ids : batches[b] = NoBatch
  BY DEF Init, SettledBatches, NoBatch
<1>2. PICK f : f = [b \in {} |-> batches[b]["gross"]]
  OBVIOUS
<1>3. PICK g : g = [b \in {} |-> batches[b]["fee"]]
  OBVIOUS
<1>4. PICK h : h = [b \in Ids |-> batches[b]["gross"]]
  OBVIOUS
<1>5. \A b \in Ids : h[b] = 0
  BY <1>1, <1>4 DEF NoBatch
<1>6. Total({}, f) = 0 /\ Total({}, g) = 0 /\ Total(Ids, h) = 0
  BY <1>5, TotalZero
<1>7. /\ SumOf(batches, {}, "gross") = 0 /\ SumOf(batches, {}, "fee") = 0
      /\ SumOf(batches, Ids, "gross") = 0
  BY <1>2, <1>3, <1>4, <1>6 DEF SumOf
<1>8. Ids \ {} = Ids
  OBVIOUS
<1> QED  BY <1>1, <1>7, <1>8 DEF Init, Books, EmptyWindow, NoBatch

(* The grosses of settled and other batches are all there are, and so are the  *)
(* two parts of them.                                                          *)
LEMMA GrossParts ==
  ASSUME Inv
  PROVE  SumOf(batches, Ids, "gross") =
           SumOf(batches, SettledBatches, "gross") + SumOf(batches, Ids \ SettledBatches, "gross")
<1>1. PICK S : S = SettledBatches
  OBVIOUS
<1>2. PICK T : T = Ids \ SettledBatches
  OBVIOUS
<1>3. S \cap T = {} /\ S \cup T = Ids /\ S \in SUBSET Ids /\ T \in SUBSET Ids /\ Ids \in SUBSET Ids
  BY <1>1, <1>2 DEF SettledBatches
<1>4. PICK g : g = [b \in Ids |-> batches[b]["gross"]]
  OBVIOUS
<1>5. /\ SumOf(batches, S, "gross") = Total(S, g) /\ SumOf(batches, T, "gross") = Total(T, g)
      /\ SumOf(batches, Ids, "gross") = Total(Ids, g) /\ IsFiniteSet(S) /\ IsFiniteSet(T)
  BY <1>3, <1>4, SumOfNat, NaturalRows
<1>6. \A b \in S \cup T : g[b] \in Nat
  BY <1>3, <1>4, NaturalRows DEF Natural
<1>7. Total(S \cup T, g) = Total(S, g) + Total(T, g)
  BY <1>3, <1>5, <1>6, TotalDisjoint
<1> QED  BY <1>1, <1>2, <1>3, <1>5, <1>7

LEMMA SplitOfAll ==
  ASSUME Inv
  PROVE  SumOf(batches, Ids, "platform") + SumOf(batches, Ids, "net") = SumOf(batches, Ids, "gross")
<1>1. PICK f : f = [b \in Ids |-> batches[b]["platform"]]
  OBVIOUS
<1>2. PICK g : g = [b \in Ids |-> batches[b]["net"]]
  OBVIOUS
<1>3. PICK h : h = [b \in Ids |-> batches[b]["gross"]]
  OBVIOUS
<1>4. f \in [Ids -> Nat] /\ g \in [Ids -> Nat] /\ h \in [Ids -> Nat] /\ IsFiniteSet(Ids)
  BY <1>1, <1>2, <1>3, NaturalRows, SumOfNat DEF Natural
<1>5. \A b \in Ids : h[b] = f[b] + g[b]
  BY <1>1, <1>2, <1>3 DEF Inv, Conserves
<1>6. Total(Ids, h) = Total(Ids, f) + Total(Ids, g)
  BY <1>4, <1>5, TotalSum
<1> QED  BY <1>1, <1>2, <1>3, <1>6, <1>4, TotalNat DEF SumOf

(* session_report: through any order of captures, windows and settlements, what *)
(* it calls settled is what the sweeps brought in, its load is what they cost   *)
(* over that, its split adds up to what was captured, and what it calls         *)
(* unsettled is what is still owed and what the calls settled on their own took.*)
THEOREM TheReportIsHonest == Spec => []ReportIsHonest
<1>1. Inv /\ Books => ReportIsHonest
  <2> SUFFICES ASSUME Inv, Books PROVE ReportIsHonest
    OBVIOUS
  <2>1. /\ BatchedGross(SettledBatches) = SumOf(batches, SettledBatches, "gross")
        /\ BatchedGross(Ids) = SumOf(batches, Ids, "gross")
        /\ SumOver(SettledBatches, "fee") = SumOf(batches, SettledBatches, "fee")
        /\ SumOver(Ids, "platform") = SumOf(batches, Ids, "platform")
        /\ SumOver(Ids, "net") = SumOf(batches, Ids, "net")
    BY DEF BatchedGross, SumOver, SumOf
  <2>2. /\ Report.settled = BatchedGross(SettledBatches)
        /\ Report.captured = Captured /\ Report.unsettled = Captured - BatchedGross(SettledBatches)
        /\ Report.platform = paid.platform + window.platform + SumOver(Ids, "platform")
        /\ Report.net = paid.net + window.net + SumOver(Ids, "net")
        /\ Report.load = FeeLoad(SumOver(SettledBatches, "fee"), BatchedGross(SettledBatches))
    BY DEF Report, RealisedLoad
  <2>3. /\ paid.gross \in Nat /\ paid.platform \in Nat /\ paid.net \in Int
        /\ paid.platform + paid.net = paid.gross
        /\ window.gross \in Nat /\ window.platform \in Nat /\ window.net \in Int
        /\ window.platform + window.net = window.gross
    BY DEF Inv, Conserves
  <2>4. SettledBatches \in SUBSET Ids /\ Ids \ SettledBatches \in SUBSET Ids /\ Ids \in SUBSET Ids
    BY DEF SettledBatches
  <2>5. /\ SumOf(batches, SettledBatches, "gross") \in Nat
        /\ SumOf(batches, Ids \ SettledBatches, "gross") \in Nat
        /\ SumOf(batches, Ids, "gross") \in Nat
        /\ SumOf(batches, Ids, "platform") \in Nat /\ SumOf(batches, Ids, "net") \in Nat
    BY <2>4, NaturalRows, SumOfNat
  <2>6. Captured = paid.gross + window.gross + SumOf(batches, Ids, "gross")
    BY <2>1 DEF Captured
  <2>7. Report.settled = money.swept /\ Report.load = FeeLoad(money.fees, money.swept)
    BY <2>1, <2>2 DEF Books
  <2>8. Report.unsettled = money.owed + paid.gross
    <3>1. money.owed = window.gross + SumOf(batches, Ids \ SettledBatches, "gross")
      BY DEF Books
    <3> QED  BY <2>1, <2>2, <2>3, <2>5, <2>6, <3>1, GrossParts
  <2>9. Report.platform + Report.net = Report.captured
    BY <2>1, <2>2, <2>3, <2>5, <2>6, SplitOfAll
  <2> QED  BY <2>7, <2>8, <2>9 DEF ReportIsHonest
<1>2. Inv /\ Books /\ [Next]_vars /\ Inv' => Books'
  BY NextBooks
<1>3. Init => Books
  BY InitBooks
<1> QED  BY <1>1, <1>2, <1>3, Invariance, PTL DEF Spec
=============================================================================
