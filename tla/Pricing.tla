------------------------------- MODULE Pricing -------------------------------
(***************************************************************************)
(* What a call costs and what a window of calls is worth, over Money:      *)
(* app/pay/pricing.py (a tool's declared price), app/gateway/meter.py and  *)
(* app/pay/meters.py (what a call consumed), and app/pay/economics.py.     *)
(*                                                                         *)
(* A tool is declared once, then serves calls: the handler reports its     *)
(* consumption to the meter in scope, meter_bridge hands the total to the  *)
(* payment core, and the core decides the capture.  The calls are those of *)
(* one session: a capture with a transaction is settled there and then, one *)
(* without waits in the window that is closed into a batch and settled.    *)
(***************************************************************************)
EXTENDS Money, Totals

CONSTANTS
  Declarations,  \* what an author may write in @paid
  Outcomes,      \* what a handler may return: its shape, its size, its duration
  Reports,       \* what one meter.record() may report
  MaxRecords,    \* bound: meter.record() calls of one handler
  MaxCalls,      \* bound: calls of one window, and calls settled on their own
  MaxBatches,    \* bound: batches of the session
  TargetBps      \* the fee load break_even_calls aims at

Schemes == {"exact", "upto", "batch-settlement"}
Meters == {"calls", "tokens", "bytes", "seconds"}
TxPerBatch == 2

Absent == -1     \* an optional amount that was not given
Unmetered == "unmetered"

ASSUME BoundsAssumption ==
  /\ MaxRecords \in Nat /\ MaxCalls \in Nat /\ MaxBatches \in Nat /\ TargetBps \in Nat \ {0}
ASSUME ReportsAssumption == Reports \subseteq Nat
\* A price is an int of atomic units, a decimal counted in 1/Sub of a unit, or
\* what parse_price refuses: a float, a bool, words.
ASSUME DeclarationsAssumption ==
  \A d \in Declarations :
    /\ DOMAIN d = {"scheme", "price", "max", "meter", "per"}
    /\ d.scheme \in Schemes /\ d.meter \in Meters \cup {Unmetered}
    /\ \A p \in {d.price, d.max, d.per} :
         DOMAIN p = {"form", "value"} /\ p.form \in {"none", "int", "decimal", "float", "bool", "words"}
         /\ p.value \in Int
ASSUME OutcomesAssumption ==
  \A o \in Outcomes : DOMAIN o = {"dict", "bytes", "ms"} /\ o.dict \in BOOLEAN
                      /\ o.bytes \in Nat /\ o.ms \in Nat

VARIABLES
  spec,     \* the tool's PriceSpec, or NoSpec before its declaration
  live,     \* the gateway Meter in scope: units recorded, records made
  reading,  \* the last MeterReading, and what the Meter in scope would have said
  status,   \* the session's: open, closing or settled
  paid,     \* the calls settled on their own, each with its transaction, summed
  window,   \* the captured calls no batch has, summed
  batches,  \* the batch rows, by id
  money     \* history: captured on no transaction yet; captured and swept; fees paid

callVars == <<spec, live, reading>>
sessionVars == <<status, paid, window, batches, money>>
vars == <<callVars, sessionVars>>

-----------------------------------------------------------------------------
(* Declaring a tool *)

NoSpec == [scheme |-> "none", price |-> 0, max |-> Absent, meter |-> Unmetered, per |-> 0]

Optional(p) == IF p.form = "none" THEN Absent ELSE ParsePrice(p)
SpecOf(d) == [scheme |-> d.scheme, price |-> ParsePrice(d.price), max |-> Optional(d.max),
              meter |-> d.meter, per |-> IF d.meter = Unmetered THEN 0 ELSE ParsePrice(d.per)]

\* PriceSpec.__post_init__: only 'upto' has a ceiling, and it needs a meter.
Valid(s) ==
  /\ s.price >= 0 /\ s.max # Refused /\ s.per >= 0
  /\ (s.scheme = "upto") <=> (s.max # Absent)
  /\ s.scheme = "upto" => s.meter # Unmetered
  /\ s.max # Absent => s.price <= s.max

\* PriceSpec.declare: a meter comes with a price per unit, and only with one.
Accepts(d) ==
  /\ (d.meter = Unmetered) <=> (d.per.form = "none")
  /\ d.price.form # "none"
  /\ Valid(SpecOf(d))

Declare(d) ==
  /\ spec = NoSpec
  /\ Accepts(d)
  /\ spec' = SpecOf(d)
  /\ UNCHANGED <<live, reading, sessionVars>>

Authorized(s) == IF s.max # Absent THEN s.max ELSE s.price

-----------------------------------------------------------------------------
(* One call *)

NoMeter == [open |-> FALSE, units |-> Absent, records |-> 0]

\* The catalogue's Meter over a call that recorded `units`, or nothing.
MeterCapture(s, units) ==
  LET amount == s.price + (IF units = Absent THEN 0 ELSE units * s.per)
  IN  IF s.meter = Unmetered THEN amount ELSE Least(amount, Authorized(s))

\* meter_scope: the handler starts with a meter of its own.  A call is admitted
\* into an open session.
Begin ==
  /\ spec # NoSpec /\ ~live.open /\ status = "open"
  /\ window.calls < MaxCalls /\ paid.calls < MaxCalls
  /\ live' = [NoMeter EXCEPT !.open = TRUE]
  /\ UNCHANGED <<spec, reading, sessionVars>>

Recorded(m, n) ==
  [m EXCEPT !.units = (IF @ = Absent THEN 0 ELSE @) + n, !.records = @ + 1]
Record(n) ==
  /\ live.open /\ live.records < MaxRecords
  /\ live' = Recorded(live, n)
  /\ UNCHANGED <<spec, reading, sessionVars>>

\* Mutant of Bridged: the Meter's total never becomes a declaration.
BridgedNever(s, units, o) == Absent
\* meter_bridge writes `_meter.units` into a dict result of a metered tool;
\* declared_units reads it back, and a string or a list carries none.
Bridged(s, units, o) == IF s.meter # Unmetered /\ o.dict THEN units ELSE Absent

\* What the meters of app.pay.meters see for themselves.
Measured(s, o) ==
  CASE s.meter = "tokens" -> 0
    [] s.meter = "bytes" -> o.bytes
    [] s.meter = "seconds" -> CeilDiv(o.ms, 1000)
\* They take what was declared over it; `calls` is one whatever was declared.
UnitsOf(s, declared, o) ==
  CASE s.meter = Unmetered -> 0
    [] s.meter = "calls" -> 1
    [] OTHER -> IF declared # Absent THEN declared ELSE Measured(s, o)

\* Mutant of Capture: what was consumed, ceiling or not.
CaptureComputed(s, units) == s.price + units * s.per
Capture(s, units) == Least(s.price + units * s.per, Authorized(s))

\* One more call in a sum of calls; the split is taken per call.
Counted(sum, captured) ==
  [calls |-> sum.calls + 1, gross |-> sum.gross + captured,
   platform |-> sum.platform + PlatformCut(captured, TakeBps),
   net |-> sum.net + AuthorNet(captured, TakeBps)]

\* The call is priced, settled and captured.  _capture_call: a settlement with a
\* transaction settles the call; without one the call is captured and waits.  A
\* voucher has none, any other scheme has one if the facilitator names it.
Finish(o, tx) ==
  LET units == UnitsOf(spec, Bridged(spec, live.units, o), o)
      captured == Capture(spec, units)
  IN  /\ live.open
      /\ spec.scheme = "batch-settlement" => ~tx
      /\ reading' = [meter |-> spec.meter, units |-> units, captured |-> captured,
                     authorized |-> Authorized(spec), dict |-> o.dict,
                     capped |-> spec.price + units * spec.per > Authorized(spec),
                     recorded |-> live.units, bridge |-> MeterCapture(spec, live.units)]
      /\ paid' = IF tx THEN Counted(paid, captured) ELSE paid
      /\ window' = IF tx THEN window ELSE Counted(window, captured)
      /\ money' = IF tx THEN money ELSE [money EXCEPT !.owed = @ + captured]
      /\ live' = NoMeter
      /\ UNCHANGED <<spec, status, batches>>

\* The handler raises: nothing is captured.
Raise ==
  /\ live.open
  /\ live' = NoMeter
  /\ UNCHANGED <<spec, reading, sessionVars>>

-----------------------------------------------------------------------------
(* The window as a batch, and what it cost *)

SettlementCost(settlements, tx, free) == Greatest(0, settlements * tx - free) * Fee

\* Mutant of BreakEven: the quotient is floored.
BreakEvenFloor(price) ==
  IF Fee = 0 THEN 1 ELSE Greatest(1, (TxPerBatch * Fee * Bps) \div (price * TargetBps))
\* break_even_calls: the batch at which the load is at or under the target.
BreakEven(price) ==
  IF Fee = 0 THEN 1 ELSE Greatest(1, CeilDiv(TxPerBatch * Fee * Bps, price * TargetBps))

\* compare_settlement over one window: per call against settled once.
Comparison(calls, gross) ==
  LET perCall == SettlementCost(calls, 1, 0)
      batched == SettlementCost(IF calls = 0 THEN 0 ELSE 1, TxPerBatch, 0)
  IN  [perCallLoad |-> FeeLoad(perCall, gross), batchedLoad |-> FeeLoad(batched, gross),
       saved |-> Greatest(0, perCall - batched)]

EmptyWindow == [calls |-> 0, gross |-> 0, platform |-> 0, net |-> 0]
Ids == 1..MaxBatches
NoBatch ==
  [status |-> "none", calls |-> 0, gross |-> 0, platform |-> 0, net |-> 0, fee |-> 0]

\* close_window: the waiting calls become the next batch, unsettled, with the fee
\* its two transactions will cost; the session is closing.
Cut(b) ==
  /\ window.calls > 0
  /\ batches[b].status = "none" /\ \A a \in Ids : a < b => batches[a].status # "none"
  /\ batches' = [batches EXCEPT ![b] =
       [status |-> "open", calls |-> window.calls, gross |-> window.gross,
        platform |-> window.platform, net |-> window.net,
        fee |-> SettlementCost(1, TxPerBatch, 0)]]
  /\ window' = EmptyWindow /\ status' = "closing"
  /\ UNCHANGED <<callVars, paid, money>>

SumOver(set, column) == Total(set, [b \in set |-> batches[b][column]])

SettledBatches == {b \in Ids : batches[b].status = "settled"}
BatchedGross(set) == SumOver(set, "gross")
Captured == paid.gross + window.gross + BatchedGross(Ids)

\* settle_batch, claim and sweep gone through: the row has a settle_tx_hash, and
\* the session is settled or open again.
Settle(b) ==
  /\ batches[b].status = "open"
  /\ batches' = [batches EXCEPT ![b].status = "settled"]
  /\ money' = [owed |-> money.owed - batches[b].gross, swept |-> money.swept + batches[b].gross,
               fees |-> money.fees + TxPerBatch * Fee]
  /\ status' = IF paid.gross + BatchedGross(SettledBatches) + batches[b].gross >= Captured
               THEN "settled" ELSE "open"
  /\ UNCHANGED <<callVars, paid, window>>

\* Mutant of RealisedLoad: a batch that never settled earns its gross.
RealisedLoadOfAll == FeeLoad(SumOver(Ids, "fee"), BatchedGross(Ids))
\* realised_fee_load_bps: only rows with a settle_tx_hash count.
RealisedLoad == FeeLoad(SumOver(SettledBatches, "fee"), BatchedGross(SettledBatches))

\* session_report: captured is summed over every call, settled over batches only.
Report ==
  LET settled == BatchedGross(SettledBatches)
  IN  [captured |-> Captured, settled |-> settled, unsettled |-> Captured - settled,
       platform |-> paid.platform + window.platform + SumOver(Ids, "platform"),
       net |-> paid.net + window.net + SumOver(Ids, "net"),
       load |-> RealisedLoad]

-----------------------------------------------------------------------------
Init ==
  /\ spec = NoSpec /\ live = NoMeter /\ status = "open"
  /\ paid = EmptyWindow /\ window = EmptyWindow /\ batches = [b \in Ids |-> NoBatch]
  /\ money = [owed |-> 0, swept |-> 0, fees |-> 0]
  /\ reading = [meter |-> Unmetered, units |-> 0, captured |-> 0, authorized |-> 0, dict |-> TRUE,
                capped |-> FALSE, recorded |-> Absent, bridge |-> 0]

Next ==
  \/ \E d \in Declarations : Declare(d)
  \/ Begin
  \/ \E n \in Reports : Record(n)
  \/ \E o \in Outcomes, tx \in BOOLEAN : Finish(o, tx)
  \/ Raise
  \/ \E b \in Ids : Cut(b)
  \/ \E b \in Ids : Settle(b)

Spec == Init /\ [][Next]_vars

-----------------------------------------------------------------------------
(* Properties *)

\* The types of the state.
PricingTypeOK ==
  /\ spec \in [scheme : Schemes \cup {"none"}, price : Nat, max : Nat \cup {Absent},
               meter : Meters \cup {Unmetered}, per : Nat]
  /\ live \in [open : BOOLEAN, units : Nat \cup {Absent}, records : Nat]
  /\ reading \in [meter : Meters \cup {Unmetered}, units : Nat, captured : Nat, authorized : Nat,
                  dict : BOOLEAN, capped : BOOLEAN, recorded : Nat \cup {Absent}, bridge : Nat]
  /\ status \in {"open", "closing", "settled"}
  /\ {paid, window} \subseteq [calls : Nat, gross : Nat, platform : Nat, net : Nat]
  /\ batches \in [Ids -> [status : {"none", "open", "settled"}, calls : Nat, gross : Nat,
                           platform : Nat, net : Nat, fee : Nat]]
  /\ money \in [owed : Nat, swept : Nat, fees : Nat]

\* "capture exceeds authorization -- this must be impossible"
\* (pay/meters.py:186), and a capped reading takes exactly the ceiling.
CaptureWithinAuthorization ==
  /\ reading.captured <= reading.authorized
  /\ reading.capped => reading.captured = reading.authorized
  /\ spec # NoSpec => spec.price <= Authorized(spec)

\* The bridge keeps the catalogue's metering: what the core captured is what the
\* Meter in scope computed, whenever the units can cross -- a dict result of a
\* meter that reads a declaration, and a handler that recorded something.
BridgeAgrees ==
  reading.meter \in {"tokens", "bytes", "seconds"} /\ reading.dict /\ reading.recorded # Absent
    => reading.captured = reading.bridge

\* "conservation holds for every input" (economics.split): the window, the calls
\* settled on their own and every batch conserve to the unit, and flooring call
\* by call never gives the platform more than its take of the sum.
WindowConserves ==
  \A w \in {paid, window} \cup {batches[b] : b \in Ids} :
    /\ w.platform + w.net = w.gross
    /\ w.platform * Bps <= w.gross * TakeBps

\* "Smallest batch whose fee load is at or under target_bps": a window of
\* break_even_calls(price) captures, none under the price, settles at or under
\* the target, and the load one call earlier, before it is floored, is over it
\* when every call took the price alone.
BreakEvenIsEnough ==
  spec # NoSpec /\ spec.price > 0 /\ window.calls > 0 =>
    LET load == Comparison(window.calls, window.gross).batchedLoad
        n == BreakEven(spec.price)
    IN  /\ window.calls >= n => load <= TargetBps
        /\ n > 1 /\ window.calls = n - 1 /\ window.gross = window.calls * spec.price
             => SettlementCost(1, TxPerBatch, 0) * Bps > window.gross * TargetBps

\* session_report against what happened to the money, step by step: "settled" is
\* what the sweeps brought in and the load is what they cost over it, "the only
\* figure that may be presented as measured" (realised_fee_load_bps).  What it
\* calls "the float the seller is carrying right now" is what is captured and on no
\* transaction yet, plus every call that was settled on its own: it is the float
\* only of a session without such a call.
ReportIsHonest ==
  /\ Report.settled = money.swept
  /\ Report.load = FeeLoad(money.fees, money.swept)
  /\ Report.unsettled = money.owed + paid.gross
  /\ Report.platform + Report.net = Report.captured
=============================================================================
