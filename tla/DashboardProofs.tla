---------------------------- MODULE DashboardProofs ----------------------------
(***************************************************************************)
(* The simulator, its demo rows and the dashboard, for every argument a    *)
(* run may be given, every drawing of the seeder and every number of       *)
(* writers, purges and reads: a run keeps to its budget and its deposit,   *)
(* its failure path stops what it should and its rows keep the ledger's    *)
(* constraints (RunInv); a group of demo rows stays whole under a purge    *)
(* (PurgeInv); a page shows figures that agree (ViewInv).                  *)
(***************************************************************************)
EXTENDS Dashboard, TotalsProofs

Listed == \E S : records \in Seq(S)

\* While calls go on, the channel's ceiling is what was captured.
Tracked ==
  IF Channelled
    THEN channel.cumulative = totals.captured /\ channel.cumulative <= Authorized * Len(records)
    ELSE channel.cumulative = 0

Started ==
  /\ args \in Arguments /\ Listed
  /\ totals.captured \in Nat /\ totals.captured <= BudgetOf(args)
  /\ channel.cumulative \in Nat /\ channel.cumulative <= BudgetOf(args)
  /\ channel.cumulative <= channel.deposit /\ channel.deposit = Opened(args).deposit
  /\ phase = "calling" => Len(records) < args.calls /\ Tracked

Shaped ==
  /\ channel = [deposit |-> channel.deposit, cumulative |-> channel.cumulative,
                voucher |-> channel.voucher]
  /\ totals = [captured |-> totals.captured, ceiling |-> totals.ceiling,
               declined |-> totals.declined]

SimInv ==
  /\ Shaped /\ (phase = "idle" => records = <<>> /\ totals.captured = 0)
  /\ phase # "idle" => Started

-----------------------------------------------------------------------------
(* Amounts *)

LEMMA AmountsTyped ==
  ASSUME NEW a \in Arguments
  PROVE  /\ AuthorizedOf(a) \in Nat /\ BudgetOf(a) \in Nat /\ Opened(a).deposit \in Nat
         /\ a.calls \in Nat /\ a.price \in Nat /\ a.unit \in Nat /\ a.units \in Nat
         /\ a.scheme = "batch-settlement" =>
              Opened(a).deposit >= AuthorizedOf(a) * a.calls /\ AuthorizedOf(a) = a.price
<1>1. /\ {a.calls, a.price, a.ceiling, a.unit, a.units, a.budget} \subseteq Nat
  BY ArgumentsAssumption
<1>2. AuthorizedOf(a) \in Nat
  BY <1>1 DEF AuthorizedOf
<1>3. BudgetOf(a) \in Nat
  BY <1>1, <1>2 DEF BudgetOf
<1>4. /\ Opened(a).deposit \in Nat
      /\ a.scheme = "batch-settlement" => Opened(a).deposit >= AuthorizedOf(a) * a.calls
  <2> DEFINE n == Greatest(a.calls, 1)  A == AuthorizedOf(a)
  <2>1. n \in Nat /\ n >= a.calls /\ a.calls \in Nat
    BY <1>1 DEF Greatest
  <2>2. Opened(a).deposit = IF a.scheme = "batch-settlement" THEN A * n * 2 ELSE 0
    BY DEF Opened
  <2> HIDE DEF n, A
  <2>3. A \in Nat
    BY <1>2 DEF A
  <2>4. A * n \in Nat /\ A * a.calls \in Nat /\ A * n >= A * a.calls
    <3> DEFINE k == n - a.calls
    <3>1. k \in Nat /\ n = a.calls + k
      BY <2>1
    <3> HIDE DEF k
    <3>2. A * n = A * a.calls + A * k /\ A * k \in Nat /\ A * a.calls \in Nat
      BY <2>1, <2>3, <3>1
    <3> QED  BY <3>2
  <2> QED  BY <2>2, <2>4 DEF A
<1> QED  BY <1>1, <1>2, <1>3, <1>4 DEF AuthorizedOf

(* A call is declined when one of the policy's rules is broken.               *)
Refuses(a, spent) ==
  \/ ~a.allowlisted
  \/ AuthorizedOf(a) > a.perCall
  \/ spent + AuthorizedOf(a) > BudgetOf(a)
  \/ AuthorizedOf(a) > a.escalate

LEMMA Judgement ==
  ASSUME NEW spent PROVE DeclineReason(spent) = "none" <=> ~Refuses(args, spent)
<1> DEFINE broken(rule) == CASE rule = 1 -> ~args.allowlisted
                             [] rule = 2 -> Authorized > args.perCall
                             [] rule = 3 -> spent + Authorized > BudgetOf(args)
                             [] rule = 4 -> Authorized > args.escalate
                             [] rule = 5 -> TRUE
           first(rule) == broken(rule) /\ \A earlier \in 1..(rule - 1) : ~broken(earlier)
           reasons == <<"not_allowlisted", "per_call_max", "over_session_budget",
                        "needs_escalation", "none">>
           chosen == CHOOSE rule \in 1..5 : first(rule)
<1>1. \E rule \in 1..5 : first(rule)
  <2>1. broken(5)
    OBVIOUS
  <2> HIDE DEF broken
  <2>2. CASE broken(1)
    <3>1. first(1)  BY <2>2
    <3> QED  BY <3>1
  <2>3. CASE ~broken(1) /\ broken(2)
    <3>1. first(2)  BY <2>3
    <3> QED  BY <3>1
  <2>4. CASE ~broken(1) /\ ~broken(2) /\ broken(3)
    <3>1. first(3)  BY <2>4
    <3> QED  BY <3>1
  <2>5. CASE ~broken(1) /\ ~broken(2) /\ ~broken(3) /\ broken(4)
    <3>1. first(4)  BY <2>5
    <3> QED  BY <3>1
  <2>6. CASE ~broken(1) /\ ~broken(2) /\ ~broken(3) /\ ~broken(4)
    <3>1. first(5)  BY <2>1, <2>6
    <3> QED  BY <3>1
  <2> QED  BY <2>2, <2>3, <2>4, <2>5, <2>6
<1>2. chosen \in 1..5 /\ first(chosen)
  <2> HIDE DEF first
  <2> QED  BY <1>1
<1>3. DeclineReason(spent) = reasons[chosen]
  BY DEF DeclineReason
<1>4. reasons[chosen] = "none" <=> chosen = 5
  <2> HIDE DEF chosen
  <2> QED  BY <1>2
<1>5. chosen = 5 <=> ~broken(1) /\ ~broken(2) /\ ~broken(3) /\ ~broken(4)
  <2> HIDE DEF chosen, broken
  <2>1. chosen \in {1, 2, 3, 4, 5} /\ broken(chosen)
    BY <1>2
  <2>2. chosen = 5 => ~broken(1) /\ ~broken(2) /\ ~broken(3) /\ ~broken(4)
    BY <1>2
  <2> QED  BY <2>1, <2>2
<1>6. /\ broken(1) <=> ~args.allowlisted
      /\ broken(2) <=> Authorized > args.perCall
      /\ broken(3) <=> spent + Authorized > BudgetOf(args)
      /\ broken(4) <=> Authorized > args.escalate
  OBVIOUS
<1> HIDE DEF chosen, broken, reasons
<1> QED  BY <1>3, <1>4, <1>5, <1>6 DEF Refuses, Authorized

(* What the policy lets through fits the budget.                              *)
LEMMA AllowedFits ==
  ASSUME args \in Arguments, NEW spent \in Nat, DeclineReason(spent) = "none"
  PROVE  spent + Authorized <= BudgetOf(args)
<1>1. ~(spent + Authorized > BudgetOf(args))
  BY Judgement DEF Refuses, Authorized
<1> QED  BY <1>1, AmountsTyped DEF Authorized

-----------------------------------------------------------------------------
(* Every step keeps within the budget *)

LEMMA RecordedStep ==
  ASSUME Started, phase = "calling", NEW record, NEW stops, Recorded(record, stops), UNCHANGED args
  PROVE  /\ Listed' /\ Len(records) \in Nat /\ Len(records') = Len(records) + 1
         /\ phase' \in {"calling", "closing"}
         /\ phase' = "calling" => ~stops /\ Len(records') < args.calls
<1>1. PICK S : records \in Seq(S)
  BY DEF Started, Listed
<1>2. records' = Append(records, record) /\ Len(records) \in Nat
  BY <1>1 DEF Recorded
<1>3. records' \in Seq(S \cup {record}) /\ Len(records') = Len(records) + 1
  BY <1>1, <1>2
<1>4. args.calls \in Nat /\ Len(records) < args.calls
  BY AmountsTyped DEF Started
<1> QED  BY <1>2, <1>3, <1>4 DEF Recorded, Index, Listed

LEMMA OneMore ==
  ASSUME NEW A \in Nat, NEW n \in Nat, NEW m \in Nat, n < m
  PROVE  A * (n + 1) = A * n + A /\ A * n + A <= A * m
<1> DEFINE k == m - (n + 1)
<1>1. k \in Nat /\ m = (n + 1) + k
  OBVIOUS
<1> HIDE DEF k
<1>2. A * k \in Nat /\ A * m = A * (n + 1) + A * k
  BY <1>1
<1>3. A * (n + 1) = A * n + A /\ A * n \in Nat
  OBVIOUS
<1> QED  BY <1>2, <1>3

(* Signing one more call stays within the budget and the deposit.             *)
LEMMA SignedFits ==
  ASSUME Shaped, Started, phase = "calling", DeclineReason(totals.captured) = "none"
  PROVE  /\ Signed = [deposit |-> channel.deposit, cumulative |-> Signed.cumulative,
                      voucher |-> Signed.voucher]
         /\ Signed.cumulative = IF Channelled THEN totals.captured + Authorized ELSE 0
         /\ Signed.cumulative <= BudgetOf(args) /\ Signed.cumulative <= channel.deposit
         /\ Channelled => /\ Signed.cumulative <= Authorized * (Len(records) + 1)
                          /\ Signed.voucher = Signed.cumulative
<1>1. Authorized \in Nat /\ args.calls \in Nat /\ BudgetOf(args) \in Nat /\ channel.deposit \in Nat
  BY AmountsTyped DEF Started, Authorized
<1>2. totals.captured \in Nat /\ totals.captured + Authorized <= BudgetOf(args)
  BY AllowedFits DEF Started
<1>3. Len(records) \in Nat /\ Len(records) < args.calls /\ Tracked
  BY DEF Started, Listed
<1>4. CASE Channelled
  <2>1. Signed = [channel EXCEPT !.cumulative = channel.cumulative + Authorized,
                                 !.voucher = channel.cumulative + Authorized]
    BY <1>4 DEF Signed
  <2>2. /\ Signed.cumulative = totals.captured + Authorized
        /\ Signed.voucher = Signed.cumulative /\ Signed.deposit = channel.deposit
        /\ Signed = [deposit |-> channel.deposit, cumulative |-> Signed.cumulative,
                     voucher |-> Signed.voucher]
    BY <1>3, <1>4, <2>1 DEF Tracked, Shaped
  <2>3. channel.cumulative <= Authorized * Len(records) /\ channel.cumulative = totals.captured
    BY <1>3, <1>4 DEF Tracked
  <2>4. /\ Authorized * (Len(records) + 1) = Authorized * Len(records) + Authorized
        /\ Authorized * Len(records) + Authorized <= Authorized * args.calls
    BY <1>1, <1>3, OneMore
  <2>5. channel.deposit >= Authorized * args.calls
    BY <1>4, AmountsTyped DEF Started, Channelled, Authorized
  <2>6. Authorized * Len(records) \in Nat /\ Authorized * args.calls \in Nat
    BY <1>1, <1>3
  <2> QED  BY <1>1, <1>2, <1>4, <2>2, <2>3, <2>4, <2>5, <2>6, SMTT(40)
<1>5. CASE ~Channelled
  BY <1>1, <1>3, <1>5 DEF Signed, Tracked, Shaped, Started
<1> QED  BY <1>4, <1>5

(* A call that signs nothing leaves the rest as it was.                       *)
LEMMA UnsignedInv ==
  ASSUME SimInv, phase = "calling", NEW record, NEW stops, Recorded(record, stops),
         UNCHANGED <<args, channel>>, totals'.captured = totals.captured, Shaped'
  PROVE  SimInv'
<1>1. Started
  BY DEF SimInv
<1>2. /\ Listed' /\ Len(records) \in Nat /\ Len(records') = Len(records) + 1
      /\ phase' \in {"calling", "closing"}
      /\ phase' = "calling" => Len(records') < args.calls
  BY <1>1, RecordedStep
<1>3. Authorized \in Nat /\ args.calls \in Nat
  BY <1>1, AmountsTyped DEF Started, Authorized
<1>4. Tracked'
  <2>1. Authorized * (Len(records) + 1) = Authorized * Len(records) + Authorized
    BY <1>1, <1>2, <1>3, OneMore DEF Started
  <2>2. Authorized * Len(records) \in Nat
    BY <1>2, <1>3
  <2> QED  BY <1>1, <1>2, <1>3, <2>1, <2>2 DEF Started, Tracked, Channelled, Authorized
<1> QED  BY <1>1, <1>2, <1>4 DEF SimInv, Started

(* A call that signs and captures nothing ends the session of a channel: its  *)
(* ceiling is then ahead of what was captured.                                *)
LEMMA StoppedInv ==
  ASSUME SimInv, phase = "calling", NEW record, NEW stops, Recorded(record, stops),
         UNCHANGED <<args, totals>>, channel' = Signed, DeclineReason(totals.captured) = "none",
         Channelled => stops
  PROVE  SimInv'
<1>1. Started /\ Shaped
  BY DEF SimInv
<1>2. /\ Listed' /\ Len(records') = Len(records) + 1 /\ phase' \in {"calling", "closing"}
      /\ phase' = "calling" => ~stops /\ Len(records') < args.calls
  BY <1>1, RecordedStep
<1>3. /\ Signed.deposit = channel.deposit /\ Signed.cumulative \in Nat
      /\ Signed.cumulative = IF Channelled THEN totals.captured + Authorized ELSE 0
      /\ Signed.cumulative <= BudgetOf(args) /\ Signed.cumulative <= channel.deposit
      /\ Shaped'
  BY <1>1, SignedFits, AmountsTyped DEF Shaped, Started, Authorized
<1>4. phase' = "calling" => Tracked'
  BY <1>2, <1>3 DEF Tracked, Channelled
<1> QED  BY <1>1, <1>2, <1>3, <1>4 DEF SimInv, Started

LEMMA StartInv == ASSUME SimInv, NEW a \in Arguments, Start(a) PROVE SimInv'
<1>1. records = <<>> /\ totals.captured = 0 /\ Shaped
  BY DEF SimInv, Start
<1>2. channel' = Opened(a) /\ args' = a /\ UNCHANGED <<records, totals>>
  BY DEF Start
<1>3. /\ channel'.cumulative = 0 /\ channel'.deposit = Opened(a).deposit
      /\ Shaped'
  BY <1>1, <1>2 DEF Opened, Shaped
<1>4. Authorized' \in Nat /\ BudgetOf(a) \in Nat /\ Opened(a).deposit \in Nat /\ a.calls \in Nat
  BY <1>2, AmountsTyped DEF Authorized
<1>5. Listed' /\ Len(records') = 0
  BY <1>1, <1>2 DEF Listed
<1>6. phase' = "calling" => Len(records') < a.calls
  BY <1>4, <1>5 DEF Start
<1>7. Tracked'
  <2>1. ASSUME NEW A \in Nat PROVE A * 0 = 0
    OBVIOUS
  <2>2. Authorized' * Len(records') = 0
    BY <1>4, <1>5, <2>1
  <2> QED  BY <1>1, <1>2, <1>3, <2>2 DEF Tracked
<1> QED
  BY <1>1, <1>2, <1>3, <1>4, <1>5, <1>6, <1>7 DEF SimInv, Started, Start

(* A channel's voucher always verifies, and its captures are never above the   *)
(* price: what goes wrong on a channel is what `--fail` makes go wrong.        *)
LEMMA ChannelFailsOnPurpose ==
  ASSUME Shaped, Started, phase = "calling", DeclineReason(totals.captured) = "none", Channelled
  PROVE  /\ ~Verified => args.fail = "replay"
         /\ Captured > Authorized => args.fail = "over-capture"
         /\ Captured <= Authorized => Captured = Authorized
<1>1. Signed.cumulative <= Signed.voucher /\ Signed.cumulative <= Signed.deposit
  <2>1. Signed.cumulative \in Nat
    BY SignedFits, AmountsTyped DEF Started, Authorized
  <2> QED  BY <2>1, SignedFits
<1>2. ~Verified => args.fail = "replay"
  BY <1>1 DEF Verified, VoucherVerify, Replayed
<1>3. CaptureFor = Authorized /\ Authorized \in Nat
  BY AmountsTyped DEF Started, CaptureFor, Authorized, Channelled
<1> QED  BY <1>2, <1>3 DEF Captured

LEMMA CapturedTyped ==
  ASSUME Started PROVE Captured \in Nat
<1>1. /\ args.price \in Nat /\ args.unit \in Nat /\ args.units \in Nat /\ Authorized \in Nat
      /\ args.units * args.unit \in Nat
  BY AmountsTyped DEF Started, Authorized
<1>2. CaptureFor \in Nat
  BY <1>1 DEF CaptureFor, Least
<1> QED  BY <1>1, <1>2 DEF Captured

LEMMA CaptureInv == ASSUME SimInv, Capture PROVE SimInv'
<1>1. /\ Started /\ Shaped /\ phase = "calling" /\ DeclineReason(totals.captured) = "none"
      /\ channel' = Signed /\ UNCHANGED args /\ Captured <= Authorized
  BY DEF SimInv, Capture, Sign, Judged
<1>2. PICK record : Recorded(record, FALSE)
  BY DEF Capture
<1>3. /\ Listed' /\ Len(records') = Len(records) + 1 /\ phase' \in {"calling", "closing"}
      /\ phase' = "calling" => Len(records') < args.calls
  BY <1>1, <1>2, RecordedStep
<1>4. totals'.captured = totals.captured + Captured
      /\ totals' = [captured |-> totals'.captured, ceiling |-> totals'.ceiling,
                    declined |-> totals'.declined]
  BY <1>1 DEF Capture, Shaped
<1>5. /\ Captured \in Nat /\ Authorized \in Nat /\ BudgetOf(args) \in Nat /\ totals.captured \in Nat
      /\ totals.captured + Authorized <= BudgetOf(args)
  BY <1>1, CapturedTyped, AmountsTyped, AllowedFits DEF Started, Authorized
<1>6. totals'.captured \in Nat /\ totals'.captured <= BudgetOf(args)
  BY <1>1, <1>4, <1>5
<1>7. /\ Signed.deposit = channel.deposit
      /\ Signed = [deposit |-> channel.deposit, cumulative |-> Signed.cumulative,
                   voucher |-> Signed.voucher]
      /\ Signed.cumulative = IF Channelled THEN totals.captured + Authorized ELSE 0
      /\ Signed.cumulative <= BudgetOf(args) /\ Signed.cumulative <= channel.deposit
      /\ Channelled => Signed.cumulative <= Authorized * (Len(records) + 1)
  BY <1>1, SignedFits
<1>8. Tracked'
  <2>1. Channelled => totals'.captured = totals.captured + Authorized
    BY <1>1, <1>4, ChannelFailsOnPurpose
  <2> QED  BY <1>1, <1>3, <1>7, <2>1 DEF Tracked, Channelled, Authorized
<1>9. Started'
  <2>1. Signed.cumulative \in Nat
    BY <1>5, <1>7
  <2> QED  BY <1>1, <1>3, <1>6, <1>7, <1>8, <2>1 DEF Started
<1> QED  BY <1>1, <1>3, <1>4, <1>7, <1>9 DEF SimInv, Shaped

LEMMA NextInv == ASSUME SimInv, [SimNext]_simVars PROVE SimInv'
<1>1. CASE Challenge
  BY <1>1, UnsignedInv DEF Challenge, SimInv, Shaped
<1>2. CASE Decline
  <2>1. totals'.captured = totals.captured /\ Shaped'
    BY <1>2 DEF Decline, SimInv, Shaped
  <2>2. PICK record, stops : Recorded(record, stops)
    BY <1>2 DEF Decline
  <2> QED  BY <1>2, <2>1, <2>2, UnsignedInv DEF Decline, Judged
<1>3. CASE Reject
  <2>1. Channelled => args.fail = "replay"
    BY <1>3, ChannelFailsOnPurpose DEF Reject, Sign, Judged, SimInv
  <2> QED  BY <1>3, <2>1, StoppedInv DEF Reject, Sign, Judged
<1>4. CASE OverCapture
  <2>1. Channelled => args.fail = "over-capture"
    BY <1>4, ChannelFailsOnPurpose DEF OverCapture, Sign, Judged, SimInv
  <2> QED  BY <1>4, <2>1, StoppedInv DEF OverCapture, Sign, Judged
<1>5. CASE Close
  BY <1>5 DEF Close, SimInv, Shaped, Started, Listed
<1>6. CASE UNCHANGED simVars
  BY <1>6 DEF simVars, SimInv, Shaped, Started, Listed, Tracked, Channelled, Authorized
<1> QED  BY <1>1, <1>2, <1>3, <1>4, <1>5, <1>6, StartInv, CaptureInv DEF SimNext

-----------------------------------------------------------------------------
(* One more row *)

Columns == {"captured", "authorized", "platform", "net"}
Amounts(record) == \A column \in Columns : record[column] \in Nat

LEMMA OneMoreRow ==
  ASSUME Listed, NEW record, records' = Append(records, record)
  PROVE  /\ Len(records) \in Nat /\ DOMAIN records = 1..Len(records)
         /\ DOMAIN records' = 1..(Len(records) + 1)
         /\ \A i \in DOMAIN records : i \in DOMAIN records' /\ records'[i] = records[i]
         /\ records'[Len(records) + 1] = record
<1>1. PICK S : records \in Seq(S)
  BY DEF Listed
<1>2. records \in Seq(S \cup {record})
  BY <1>1
<1> QED  BY <1>2

LEMMA SettledRows ==
  ASSUME Listed
  PROVE  /\ IsFiniteSet(Settled(records)) /\ Settled(records) \subseteq 1..Len(records)
         /\ Len(records) \in Nat /\ Cardinality(Settled(records)) \in Nat
<1>1. PICK S : records \in Seq(S)
  BY DEF Listed
<1>2. Len(records) \in Nat /\ DOMAIN records = 1..Len(records)
  BY <1>1
<1>3. Settled(records) \subseteq 1..Len(records)
  BY <1>2 DEF Settled
<1>4. IsFiniteSet(1..Len(records))
  BY <1>2, FS_Interval
<1>5. IsFiniteSet(Settled(records))
  BY <1>3, <1>4, FS_Subset
<1> QED  BY <1>2, <1>3, <1>5, FS_CardinalityType

(* A row that is not settled leaves every sum as it was.                      *)
LEMMA UnsettledRow ==
  ASSUME Listed, NEW record, records' = Append(records, record), record.status # "settled"
  PROVE  /\ Settled(records') = Settled(records)
         /\ \A column : SumOf(records', column) = SumOf(records, column)
<1>1. Settled(records') = Settled(records)
  BY OneMoreRow DEF Settled
<1>2. ASSUME NEW column PROVE SumOf(records', column) = SumOf(records, column)
  <2> DEFINE f == [i \in DOMAIN records |-> records[i][column]]
             g == [i \in DOMAIN records' |-> records'[i][column]]
  <2>1. \A i \in Settled(records) : g[i] = f[i]
    BY OneMoreRow DEF Settled
  <2> HIDE DEF f, g
  <2>2. Total(Settled(records), g) = Total(Settled(records), f)
    BY <2>1, TotalAgree
  <2> QED  BY <1>1, <2>2 DEF SumOf, f, g
<1> QED  BY <1>1, <1>2

(* A settled row adds its amount to every sum.                                *)
LEMMA SettledRow ==
  ASSUME Listed, NEW record, records' = Append(records, record), record.status = "settled",
         Amounts(record), \A i \in DOMAIN records : Amounts(records[i])
  PROVE  /\ Settled(records') = Settled(records) \cup {Len(records) + 1}
         /\ \A column \in Columns :
              SumOf(records', column) = SumOf(records, column) + record[column]
<1>1. Settled(records') = Settled(records) \cup {Len(records) + 1}
  BY OneMoreRow DEF Settled
<1>2. Len(records) + 1 \notin Settled(records) /\ IsFiniteSet(Settled(records))
  BY SettledRows
<1>3. ASSUME NEW column \in Columns
      PROVE  SumOf(records', column) = SumOf(records, column) + record[column]
  <2> DEFINE f == [i \in DOMAIN records |-> records[i][column]]
             g == [i \in DOMAIN records' |-> records'[i][column]]
             x == Len(records) + 1
  <2>1. \A i \in Settled(records) : g[i] \in Nat /\ g[i] = f[i]
    BY OneMoreRow DEF Settled, Amounts
  <2>2. g[x] = record[column] /\ g[x] \in Nat
    BY OneMoreRow DEF Amounts
  <2>3. x \notin Settled(records) /\ IsFiniteSet(Settled(records))
    BY <1>2
  <2> DEFINE T == Settled(records)
  <2> HIDE DEF f, g, x
  <2>5. SameAmounts(T, f, g) /\ T \in SUBSET T /\ IsFiniteSet(T) /\ x \notin T
    BY <2>1, <2>3 DEF SameAmounts
  <2>6. PICK U : U = T \cup {x}
    OBVIOUS
  <2> HIDE DEF T
  <2>4. Total(T \cup {x}, g) = Total(T, f) + g[x]
    BY <2>2, <2>5, <2>6, TotalJoin
  <2> QED  BY <1>1, <2>2, <2>4 DEF SumOf, f, g, x, T
<1> QED  BY <1>1, <1>3

LEMMA SumsTyped ==
  ASSUME Listed, \A i \in DOMAIN records : Amounts(records[i]), NEW column \in Columns
  PROVE  SumOf(records, column) \in Nat
<1> DEFINE f == [i \in DOMAIN records |-> records[i][column]]
<1>1. \A i \in Settled(records) : f[i] \in Nat
  BY DEF Settled, Amounts
<1> HIDE DEF f
<1>2. Total(Settled(records), f) \in Nat
  BY <1>1, SettledRows, TotalType
<1> QED  BY <1>2 DEF SumOf, f

LEMMA NothingSettled ==
  ASSUME Settled(records) = {}, NEW column PROVE SumOf(records, column) = 0
<1> DEFINE f == [i \in DOMAIN records |-> records[i][column]]
<1>1. \A i \in Settled(records) : f[i] = 0
  OBVIOUS
<1> HIDE DEF f
<1>2. Total(Settled(records), f) = 0
  BY <1>1, TotalZero
<1> QED  BY <1>2 DEF SumOf, f

-----------------------------------------------------------------------------
(* The rows and their sums *)

Balanced(record) ==
  /\ Amounts(record)
  /\ record.platform + record.net = record.captured /\ record.captured <= record.authorized

RowsInv ==
  /\ Listed /\ \A i \in DOMAIN records : Balanced(records[i])
  /\ SumOf(records, "platform") + SumOf(records, "net") = SumOf(records, "captured")
  /\ SumOf(records, "captured") <= SumOf(records, "authorized")
  /\ totals.captured = SumOf(records, "captured")
  /\ totals.ceiling \in Nat /\ totals.captured <= totals.ceiling

LEMMA Factors ==
  ASSUME NEW a \in Nat, NEW b \in Nat, NEW c \in Nat, a <= b
  PROVE  c * a \in Nat /\ c * b \in Nat /\ c * a <= c * b
<1> DEFINE k == b - a
<1>1. k \in Nat /\ b = a + k
  OBVIOUS
<1> HIDE DEF k
<1>2. c * k \in Nat /\ c * a \in Nat /\ c * b = c * a + c * k
  BY <1>1
<1> QED  BY <1>2

LEMMA Quotient ==
  ASSUME NEW a \in Nat, NEW b \in Nat, NEW d \in Nat \ {0}, a <= b
  PROVE  a \div d \in Nat /\ b \div d \in Nat /\ a \div d <= b \div d
OBVIOUS

LEMMA QuotientOfProduct ==
  ASSUME NEW a \in Nat, NEW d \in Nat \ {0} PROVE (a * d) \div d = a
OBVIOUS

LEMMA SplitOfOne ==
  ASSUME NEW gross \in Nat
  PROVE  /\ PlatformCut(gross, TakeBps) \in Nat /\ AuthorNet(gross, TakeBps) \in Nat
         /\ PlatformCut(gross, TakeBps) + AuthorNet(gross, TakeBps) = gross
<1>1. TakeBps \in Nat /\ Bps \in Nat \ {0} /\ TakeBps <= Bps
  BY MoneyAssumption
<1>2. gross * TakeBps \in Nat /\ gross * Bps \in Nat /\ gross * TakeBps <= gross * Bps
  BY <1>1, Factors
<1>3. /\ (gross * TakeBps) \div Bps \in Nat
      /\ (gross * TakeBps) \div Bps <= (gross * Bps) \div Bps
  BY <1>1, <1>2, Quotient
<1>4. (gross * Bps) \div Bps = gross
  BY <1>1, QuotientOfProduct
<1> QED  BY <1>3, <1>4 DEF PlatformCut, AuthorNet

(* A row of a call that was not captured.                                     *)
LEMMA UnsettledRows ==
  ASSUME RowsInv, Authorized \in Nat, NEW status, NEW reason, status # "settled",
         records' = Append(records, Blank(status, reason)),
         totals'.captured = totals.captured, totals'.ceiling = totals.ceiling
  PROVE  RowsInv'
<1> DEFINE record == Blank(status, reason)
<1>1. Balanced(record) /\ record.status # "settled"
  BY DEF Balanced, Amounts, Columns, Blank
<1> HIDE DEF record
<1>2. Listed /\ records' = Append(records, record)
  BY DEF RowsInv, record
<1>3. Listed'
  <2>1. PICK S : records \in Seq(S)
    BY <1>2 DEF Listed
  <2>2. records' \in Seq(S \cup {record})
    BY <1>2, <2>1
  <2> QED  BY <2>2 DEF Listed
<1>4. \A i \in DOMAIN records' : Balanced(records'[i])
  <2>1. \A i \in DOMAIN records' : i \in DOMAIN records \/ records'[i] = record
    BY <1>2, OneMoreRow
  <2> QED  BY <1>1, <1>2, <2>1, OneMoreRow DEF RowsInv
<1>5. \A column : SumOf(records', column) = SumOf(records, column)
  BY <1>1, <1>2, UnsettledRow
<1> QED  BY <1>3, <1>4, <1>5 DEF RowsInv

LEMMA CaptureRows == ASSUME SimInv, RowsInv, Capture PROVE RowsInv'
<1> DEFINE record ==
      [status |-> "settled", reason |-> "none", authorized |-> Authorized, captured |-> Captured,
       platform |-> PlatformCut(Captured, TakeBps), net |-> AuthorNet(Captured, TakeBps),
       nonce |-> Payload.nonce]
<1>1. /\ Started /\ Shaped /\ phase = "calling" /\ DeclineReason(totals.captured) = "none"
      /\ Captured <= Authorized /\ records' = Append(records, record) /\ Listed
      /\ totals' = [totals EXCEPT !.captured = @ + Captured, !.ceiling = Ceiling(records')]
  BY DEF SimInv, RowsInv, Capture, Sign, Judged, Recorded
<1>2. Captured \in Nat /\ Authorized \in Nat
  BY <1>1, CapturedTyped, AmountsTyped DEF Started, Authorized
<1>3. Balanced(record) /\ record.status = "settled"
  BY <1>1, <1>2, SplitOfOne DEF Balanced, Amounts, Columns
<1>4. record.captured = Captured
  OBVIOUS
<1> HIDE DEF record
<1>5. Listed'
  <2>1. PICK S : records \in Seq(S)
    BY <1>1 DEF Listed
  <2>2. records' \in Seq(S \cup {record})
    BY <1>1, <2>1
  <2> QED  BY <2>2 DEF Listed
<1>6. \A i \in DOMAIN records' : Balanced(records'[i])
  <2>1. \A i \in DOMAIN records' : i \in DOMAIN records \/ records'[i] = record
    BY <1>1, OneMoreRow
  <2> QED  BY <1>1, <1>3, <2>1, OneMoreRow DEF RowsInv
<1>7. \A column \in Columns : SumOf(records', column) = SumOf(records, column) + record[column]
  BY <1>1, <1>3, SettledRow DEF RowsInv, Balanced
<1>8. /\ SumOf(records', "platform") = SumOf(records, "platform") + record.platform
      /\ SumOf(records', "net") = SumOf(records, "net") + record.net
      /\ SumOf(records', "captured") = SumOf(records, "captured") + record.captured
      /\ SumOf(records', "authorized") = SumOf(records, "authorized") + record.authorized
  BY <1>7 DEF Columns
<1>9. /\ SumOf(records, "platform") \in Nat /\ SumOf(records, "net") \in Nat
      /\ SumOf(records, "captured") \in Nat /\ SumOf(records, "authorized") \in Nat
  BY <1>1, SumsTyped DEF RowsInv, Balanced, Columns
<1>10. /\ record.platform \in Nat /\ record.net \in Nat /\ record.captured \in Nat
       /\ record.authorized \in Nat /\ record.platform + record.net = record.captured
       /\ record.captured <= record.authorized
  BY <1>3 DEF Balanced, Amounts, Columns
<1>11. totals'.captured = totals.captured + Captured /\ totals'.ceiling = Ceiling(records')
  BY <1>1 DEF Shaped
<1>12. totals'.ceiling \in Nat /\ totals'.captured <= totals'.ceiling
  <2>1. CASE Channelled
    <3>1. totals'.ceiling = totals.captured + Authorized
      BY <1>1, <1>11, <2>1, SignedFits DEF Ceiling
    <3> QED  BY <1>1, <1>2, <1>11, <3>1 DEF Started
  <2>2. CASE ~Channelled
    <3>1. totals'.ceiling = SumOf(records', "authorized")
      BY <1>11, <2>2 DEF Ceiling
    <3> QED  BY <1>4, <1>8, <1>9, <1>10, <1>11, <3>1 DEF RowsInv
  <2> QED  BY <2>1, <2>2
<1> QED  BY <1>4, <1>5, <1>6, <1>8, <1>9, <1>10, <1>11, <1>12 DEF RowsInv

LEMMA NextRows == ASSUME SimInv, RowsInv, [SimNext]_simVars PROVE RowsInv'
<1>1. CASE UNCHANGED <<records, totals>>
  BY <1>1 DEF RowsInv, Listed
<1>2. phase = "calling" => Started /\ Authorized \in Nat
  BY AmountsTyped DEF SimInv, Started, Authorized
<1>3. CASE Challenge
  BY <1>2, <1>3, UnsettledRows DEF Challenge, Recorded
<1>4. CASE Decline
  <2>1. totals'.captured = totals.captured /\ totals'.ceiling = totals.ceiling
    BY <1>4 DEF Decline, SimInv, Shaped
  <2> QED  BY <1>2, <1>4, <2>1, UnsettledRows DEF Decline, Judged, Recorded
<1>5. CASE Reject
  BY <1>2, <1>5, UnsettledRows DEF Reject, Sign, Judged, Recorded
<1>6. CASE OverCapture
  BY <1>2, <1>6, UnsettledRows DEF OverCapture, Sign, Judged, Recorded
<1>7. CASE \E a \in Arguments : Start(a)
  BY <1>1, <1>7 DEF Start
<1>8. CASE Close \/ UNCHANGED simVars
  BY <1>1, <1>8 DEF Close, simVars
<1> QED  BY <1>3, <1>4, <1>5, <1>6, <1>7, <1>8, CaptureRows DEF SimNext

LEMMA InitRows == SimInit => RowsInv
<1> SUFFICES ASSUME SimInit PROVE RowsInv
  OBVIOUS
<1>1. records = <<>> /\ totals.captured = 0 /\ totals.ceiling = 0
  BY DEF SimInit
<1>2. Settled(records) = {} /\ DOMAIN records = {}
  BY <1>1 DEF Settled
<1>3. \A column : SumOf(records, column) = 0
  BY <1>2, NothingSettled
<1>4. records \in Seq({})
  BY <1>1
<1> QED  BY <1>1, <1>2, <1>3, <1>4 DEF RowsInv, Listed

-----------------------------------------------------------------------------
(* Where each failure path ends *)

\* Once the policy has refused a first call it refuses them all.
Refusing == Settled(records) = {} /\ (records # <<>> => Refuses(args, 0))

\* The first payment is kept, and a facilitator would know it again.
Spent == records # <<>> /\ cache # NoPayload /\ (cache.kind = "eip3009" => cache.nonce \in seen)

PathsInv ==
  /\ seen \subseteq {<<"random", i>> : i \in 1..Len(records)}
  /\ phase = "idle" => records = <<>>
  /\ phase # "idle" =>
       /\ args.fail = "no-payment" =>
            Settled(records) = {} /\ (phase = "calling" => records = <<>>)
       /\ args.fail = "over-capture" \/ (args.fail = "bad-signature" /\ ~Channelled) =>
            Settled(records) = {} /\ (phase = "calling" => Refusing)
       /\ args.fail = "replay" =>
            Settled(records) \subseteq {1} /\ (phase = "calling" => Refusing \/ Spent)
       /\ args.fail = "none" => \A i \in DOMAIN records : records[i].status # "failed"

(* A first call that is signed for is the first of all, or nothing refused it. *)
LEMMA SignedFirst ==
  ASSUME RowsInv, Refusing, DeclineReason(totals.captured) = "none"
  PROVE  records = <<>>
<1>1. totals.captured = 0
  BY NothingSettled DEF RowsInv, Refusing
<1>2. ~Refuses(args, 0)
  BY <1>1, Judgement
<1> QED  BY <1>2 DEF Refusing

LEMMA DeclinedFirst ==
  ASSUME RowsInv, Settled(records) = {}, DeclineReason(totals.captured) # "none"
  PROVE  Refuses(args, 0)
<1>1. totals.captured = 0
  BY NothingSettled DEF RowsInv
<1> QED  BY <1>1, Judgement

LEMMA EmptyLen == ASSUME records = <<>> PROVE Len(records) = 0 /\ Settled(records) = {}
BY DEF Settled

LEMMA EmptyOnly == ASSUME Listed, Len(records) = 0 PROVE records = <<>>
<1>1. PICK S : records \in Seq(S)
  BY DEF Listed
<1> QED  BY <1>1

(* What is verified is the call's own payment: a replay never is.             *)
LEMMA VerifiedIsOwn ==
  ASSUME RowsInv, PathsInv, phase = "calling", DeclineReason(totals.captured) = "none", Verified
  PROVE  ~Replayed /\ Presented = Payload
<1>1. ~Replayed
  <2> SUFFICES ASSUME Replayed PROVE FALSE
    OBVIOUS
  <2>1. args.fail = "replay" /\ Index > 1
    BY DEF Replayed
  <2>2. records # <<>>
    BY <2>1, EmptyLen DEF Index
  <2>3. Spent
    BY <2>1, <2>2, SignedFirst DEF PathsInv
  <2>4. Presented = cache /\ OfflineVerify(cache)
    BY <2>3 DEF Presented, Spent, Verified
  <2> QED  BY <2>3, <2>4 DEF Spent, OfflineVerify
<1> QED  BY <1>1 DEF Presented

(* Only `--fail over-capture` captures above what was authorized, and only    *)
(* for the first call.                                                        *)
LEMMA CaptureFits ==
  ASSUME Started
  PROVE  /\ Authorized \in Nat
         /\ Captured > Authorized <=> args.fail = "over-capture" /\ Index = 1
<1>1. /\ args.price \in Nat /\ args.unit \in Nat /\ args.units \in Nat /\ Authorized \in Nat
  BY AmountsTyped DEF Started, Authorized
<1>2. args.units * args.unit \in Nat
  BY <1>1
<1>3. CaptureFor \in Nat /\ CaptureFor <= Authorized
  <2>1. CASE args.scheme # "upto"
    BY <1>1, <2>1 DEF CaptureFor, Authorized, AuthorizedOf
  <2>2. CASE args.scheme = "upto"
    BY <1>1, <1>2, <2>2 DEF CaptureFor, Least
  <2> QED  BY <2>1, <2>2
<1> QED  BY <1>1, <1>3 DEF Captured

(* A row that is not settled, added to a path.                                *)
LEMMA UnsettledPaths ==
  ASSUME RowsInv, PathsInv, phase = "calling", UNCHANGED args,
         NEW status \in {"challenged", "declined", "failed"}, NEW reason, NEW stops,
         Recorded(Blank(status, reason), stops),
         status = "failed" => args.fail # "none",
         seen' \subseteq {<<"random", i>> : i \in 1..(Len(records) + 1)},
         args.fail = "no-payment" => stops,
         args.fail \in {"over-capture", "replay"} \/ (args.fail = "bad-signature" /\ ~Channelled)
           => \/ stops
              \/ Settled(records) = {} /\ Refuses(args, 0)
              \/ args.fail = "replay" /\ Spent /\ UNCHANGED <<cache, seen>>
  PROVE  PathsInv'
<1>1. Listed /\ records' = Append(records, Blank(status, reason))
  BY DEF RowsInv, Recorded
<1>2. /\ Len(records) \in Nat /\ DOMAIN records' = 1..(Len(records) + 1)
      /\ DOMAIN records = 1..Len(records)
      /\ \A i \in DOMAIN records : records'[i] = records[i]
      /\ records'[Len(records) + 1] = Blank(status, reason)
  BY <1>1, OneMoreRow
<1>3. Len(records') = Len(records) + 1 /\ records' # <<>>
  <2>1. PICK S : records \in Seq(S)
    BY <1>1 DEF Listed
  <2>2. records' \in Seq(S \cup {Blank(status, reason)}) /\ Len(records') = Len(records) + 1
    BY <1>1, <2>1
  <2> QED  BY <1>2, <2>2
<1>4. Settled(records') = Settled(records)
  BY <1>1, UnsettledRow DEF Blank
<1>5. phase' \in {"calling", "closing"} /\ (phase' = "calling" => ~stops)
  BY DEF Recorded
<1>6. Refuses(args, 0) => Refuses(args', 0)
  OBVIOUS
<1>7. args.fail = "none" => \A i \in DOMAIN records' : records'[i].status # "failed"
  <2> SUFFICES ASSUME args.fail = "none", NEW i \in DOMAIN records'
               PROVE  records'[i].status # "failed"
    OBVIOUS
  <2>1. CASE i \in DOMAIN records
    BY <1>2, <2>1 DEF PathsInv
  <2>2. CASE i = Len(records) + 1
    BY <1>2, <2>2 DEF Blank
  <2> QED  BY <1>2, <2>1, <2>2
<1>8. Channelled' = Channelled
  BY DEF Channelled
<1>9. seen' \subseteq {<<"random", i>> : i \in 1..Len(records')}
  BY <1>3
<1>10. args.fail = "no-payment" => Settled(records') = {} /\ phase' # "calling"
  BY <1>4, <1>5 DEF PathsInv
<1>11. args.fail = "over-capture" \/ (args.fail = "bad-signature" /\ ~Channelled) =>
         Settled(records') = {} /\ (phase' = "calling" => Refusing')
  BY <1>4, <1>5, <1>6 DEF PathsInv, Refusing
<1>12. args.fail = "replay" =>
         Settled(records') \subseteq {1} /\ (phase' = "calling" => Refusing' \/ Spent')
  BY <1>3, <1>4, <1>5, <1>6 DEF PathsInv, Refusing, Spent
<1> QED  BY <1>5, <1>7, <1>8, <1>9, <1>10, <1>11, <1>12 DEF PathsInv

LEMMA JudgedFirst ==
  ASSUME RowsInv, PathsInv, Judged
  PROVE  /\ args.fail # "no-payment" /\ phase = "calling"
         /\ Index = 1 => records = <<>>
<1>1. phase = "calling" /\ ~(args.fail = "no-payment" /\ Index = 1)
  BY DEF Judged
<1>2. Listed /\ Len(records) \in Nat
  BY SettledRows DEF RowsInv
<1>3. Index = 1 => records = <<>>
  BY <1>2, EmptyOnly DEF Index
<1>4. args.fail = "no-payment" => Index = 1
  BY <1>1, EmptyLen DEF PathsInv, Index
<1> QED  BY <1>1, <1>3, <1>4

LEMMA WiderSeen ==
  ASSUME RowsInv, PathsInv
  PROVE  /\ seen \subseteq {<<"random", i>> : i \in 1..(Len(records) + 1)}
         /\ Len(records) + 1 \in 1..(Len(records) + 1)
<1>1. Len(records) \in Nat
  BY SettledRows DEF RowsInv
<1>2. \A i \in 1..Len(records) : i \in 1..(Len(records) + 1)
  BY <1>1
<1> QED  BY <1>1, <1>2 DEF PathsInv

LEMMA ChallengePaths == ASSUME RowsInv, PathsInv, Challenge PROVE PathsInv'
<1>1. seen' \subseteq {<<"random", i>> : i \in 1..(Len(records) + 1)}
  BY WiderSeen DEF Challenge
<1> QED  BY <1>1, UnsettledPaths DEF Challenge

LEMMA DeclinePaths == ASSUME RowsInv, PathsInv, Decline PROVE PathsInv'
<1>1. /\ args.fail # "no-payment" /\ phase = "calling" /\ UNCHANGED <<args, cache, seen>>
      /\ DeclineReason(totals.captured) # "none"
  BY JudgedFirst DEF Decline
<1>2. PICK reason, stops : Recorded(Blank("declined", reason), stops)
  BY DEF Decline
<1>3. seen' \subseteq {<<"random", i>> : i \in 1..(Len(records) + 1)}
  BY <1>1, WiderSeen
<1>4. Settled(records) = {} => Refuses(args, 0)
  BY <1>1, DeclinedFirst
<1>5. args.fail \in {"over-capture", "replay"} \/ (args.fail = "bad-signature" /\ ~Channelled)
        => \/ Settled(records) = {} /\ Refuses(args, 0)
           \/ args.fail = "replay" /\ Spent /\ UNCHANGED <<cache, seen>>
  BY <1>1, <1>4 DEF PathsInv, Refusing
<1> QED  BY <1>1, <1>2, <1>3, <1>5, UnsettledPaths

(* Without a failure to walk, what the policy allows is verified.             *)
LEMMA NothingFails ==
  ASSUME SimInv, RowsInv, PathsInv, phase = "calling", DeclineReason(totals.captured) = "none",
         args.fail = "none"
  PROVE  Verified
<1>1. Started /\ Shaped
  BY DEF SimInv
<1>2. CASE Channelled
  BY <1>1, <1>2, ChannelFailsOnPurpose
<1>3. CASE ~Channelled
  <2>1. ~Replayed /\ Presented = Payload
    BY DEF Presented, Replayed
  <2>2. Len(records) \in Nat
    BY SettledRows DEF RowsInv
  <2>3. <<"random", Index>> \notin seen
    BY <2>2 DEF PathsInv, Index
  <2> QED  BY <1>3, <2>1, <2>3 DEF Verified, OfflineVerify, Payload
<1> QED  BY <1>2, <1>3

LEMMA RejectPaths == ASSUME SimInv, RowsInv, PathsInv, Reject PROVE PathsInv'
<1>1. /\ Judged /\ DeclineReason(totals.captured) = "none" /\ ~Verified
      /\ UNCHANGED <<args, seen>>
      /\ Recorded(Blank("failed", "invalid"),
                  args.fail \in {"bad-signature", "replay", "over-capture"})
  BY DEF Reject, Sign
<1>2. args.fail # "no-payment" /\ phase = "calling"
  BY <1>1, JudgedFirst
<1>3. seen' \subseteq {<<"random", i>> : i \in 1..(Len(records) + 1)}
  BY <1>1, WiderSeen
<1>4. args.fail # "none"
  BY <1>1, <1>2, NothingFails
<1> QED  BY <1>1, <1>2, <1>3, <1>4, UnsettledPaths

LEMMA OverCapturePaths == ASSUME SimInv, RowsInv, PathsInv, OverCapture PROVE PathsInv'
<1>1. /\ Judged /\ DeclineReason(totals.captured) = "none" /\ Verified /\ UNCHANGED args
      /\ Captured > Authorized /\ Reserve
      /\ Recorded(Blank("failed", "capture_exceeds_authorization"),
                  args.fail \in {"bad-signature", "replay", "over-capture"})
  BY DEF OverCapture, Sign
<1>2. phase = "calling" /\ Started
  BY <1>1, JudgedFirst DEF SimInv
<1>3. args.fail = "over-capture"
  BY <1>1, <1>2, CaptureFits
<1>4. seen' \subseteq {<<"random", i>> : i \in 1..(Len(records) + 1)}
  <2>1. Presented = Payload
    BY <1>1, <1>2, VerifiedIsOwn
  <2>2. ~Channelled => Presented.nonce = <<"random", Len(records) + 1>>
    BY <2>1 DEF Payload, Index
  <2> QED  BY <1>1, <2>2, WiderSeen DEF Reserve
<1> QED  BY <1>1, <1>2, <1>3, <1>4, UnsettledPaths

LEMMA CapturePaths == ASSUME SimInv, RowsInv, PathsInv, Capture PROVE PathsInv'
<1>1. /\ Judged /\ DeclineReason(totals.captured) = "none" /\ Verified /\ UNCHANGED args
      /\ Captured <= Authorized /\ Reserve
      /\ cache' = (IF Index = 1 THEN Payload ELSE cache)
  BY DEF Capture, Sign
<1>2. phase = "calling" /\ Started /\ args.fail # "no-payment" /\ (Index = 1 => records = <<>>)
  BY <1>1, JudgedFirst DEF SimInv
<1>3. ~Replayed /\ Presented = Payload
  BY <1>1, <1>2, VerifiedIsOwn
<1>4. PICK record : Recorded(record, FALSE) /\ record.status = "settled"
  <2> DEFINE made == [status |-> "settled", reason |-> "none", authorized |-> Authorized,
                      captured |-> Captured, platform |-> PlatformCut(Captured, TakeBps),
                      net |-> AuthorNet(Captured, TakeBps), nonce |-> Payload.nonce]
  <2>1. Recorded(made, FALSE)
    BY DEF Capture
  <2>2. made.status = "settled"
    OBVIOUS
  <2> HIDE DEF made
  <2> QED  BY <2>1, <2>2
<1>5. /\ Listed /\ Len(records) \in Nat /\ DOMAIN records = 1..Len(records)
      /\ DOMAIN records' = 1..(Len(records) + 1)
      /\ \A i \in DOMAIN records : records'[i] = records[i]
      /\ records'[Len(records) + 1] = record
  BY <1>4, OneMoreRow DEF RowsInv, Recorded
<1>6. Len(records') = Len(records) + 1 /\ records' # <<>>
  <2>1. PICK S : records \in Seq(S)
    BY <1>5 DEF Listed
  <2>2. Len(records') = Len(records) + 1
    BY <1>4, <2>1 DEF Recorded
  <2> QED  BY <1>5, <2>2
<1>7. phase' \in {"calling", "closing"} /\ Channelled' = Channelled
  BY <1>1, <1>4 DEF Recorded, Channelled
<1>8. seen' \subseteq {<<"random", i>> : i \in 1..Len(records')}
  <2>1. ~Channelled => Presented.nonce = <<"random", Len(records) + 1>>
    BY <1>3 DEF Payload, Index
  <2> QED  BY <1>1, <1>6, <2>1, WiderSeen DEF Reserve
<1>9. args.fail # "over-capture"
  <2> SUFFICES ASSUME args.fail = "over-capture" PROVE FALSE
    OBVIOUS
  <2>1. records = <<>>
    BY <1>1, <1>2, SignedFirst DEF PathsInv
  <2>2. Captured > Authorized
    BY <1>2, <2>1, CaptureFits, EmptyLen DEF Index
  <2>3. Captured \in Nat /\ Authorized \in Nat
    BY <1>2, CaptureFits, CapturedTyped
  <2> QED  BY <1>1, <2>2, <2>3
<1>10. ~(args.fail = "bad-signature" /\ ~Channelled)
  <2> SUFFICES ASSUME args.fail = "bad-signature", ~Channelled PROVE FALSE
    OBVIOUS
  <2>1. records = <<>>
    BY <1>1, <1>2, SignedFirst DEF PathsInv
  <2>2. Index = 1
    BY <2>1, EmptyLen DEF Index
  <2>3. OfflineVerify(Payload)
    BY <1>1, <1>3 DEF Verified
  <2> QED  BY <2>2, <2>3 DEF OfflineVerify, Payload
<1>11. args.fail = "replay" => Settled(records') \subseteq {1} /\ Spent'
  <2> SUFFICES ASSUME args.fail = "replay" PROVE Settled(records') \subseteq {1} /\ Spent'
    OBVIOUS
  <2>1. Index = 1 /\ records = <<>> /\ Len(records) = 0
    BY <1>2, <1>3, <1>5, EmptyLen DEF Replayed, Index
  <2>2. Settled(records') \subseteq {1}
    BY <1>5, <2>1 DEF Settled
  <2>3. cache' = Payload /\ Payload # NoPayload
    BY <1>1, <2>1 DEF Payload, NoPayload
  <2>4. Payload.kind = "eip3009" => Payload.nonce \in seen'
    BY <1>1, <1>3 DEF Payload, Reserve
  <2> QED  BY <1>6, <2>2, <2>3, <2>4 DEF Spent
<1>12. args.fail = "none" => \A i \in DOMAIN records' : records'[i].status # "failed"
  <2> SUFFICES ASSUME args.fail = "none", NEW i \in DOMAIN records'
               PROVE  records'[i].status # "failed"
    OBVIOUS
  <2>1. CASE i \in DOMAIN records
    BY <1>2, <1>5, <2>1 DEF PathsInv
  <2>2. CASE i = Len(records) + 1
    BY <1>4, <1>5, <2>2
  <2> QED  BY <1>5, <2>1, <2>2
<1> QED  BY <1>1, <1>2, <1>7, <1>8, <1>9, <1>10, <1>11, <1>12 DEF PathsInv

LEMMA NextPaths == ASSUME SimInv, RowsInv, PathsInv, [SimNext]_simVars PROVE PathsInv'
<1>1. CASE \E a \in Arguments : Start(a)
  <2>1. records = <<>> /\ UNCHANGED <<records, seen>> /\ phase' # "idle"
    BY <1>1 DEF Start, PathsInv
  <2>2. Settled(records') = {} /\ DOMAIN records' = {} /\ Len(records') = Len(records)
    BY <2>1, EmptyLen
  <2> QED  BY <2>1, <2>2 DEF PathsInv, Refusing
<1>2. CASE Close
  BY <1>2 DEF Close, PathsInv, Channelled
<1>3. CASE UNCHANGED simVars
  BY <1>3 DEF simVars, PathsInv, Channelled, Refusing, Spent
<1> QED
  BY <1>1, <1>2, <1>3, ChallengePaths, DeclinePaths, RejectPaths, OverCapturePaths, CapturePaths
  DEF SimNext

LEMMA InitPaths == SimInit => PathsInv
BY DEF SimInit, PathsInv

-----------------------------------------------------------------------------
(* Nonces, and the ceiling that is claimed *)

NonceOf(i) ==
  IF Channelled
    THEN \E x \in Nat : x <= channel.cumulative /\ records[i].nonce = <<"ceiling", x>>
    ELSE records[i].nonce = <<"random", i>>

NoncesInv ==
  phase # "idle" =>
    /\ \A i \in Settled(records) : NonceOf(i)
    /\ Authorized > 0 => NoncesDiffer
    /\ Channelled /\ args.fail \notin {"replay", "over-capture"} =>
         channel.cumulative = totals.captured

(* A row that is not settled, whether its call signed or not.                 *)
LEMMA UnsettledNonces ==
  ASSUME SimInv, Listed, NoncesInv, phase = "calling", UNCHANGED args, phase' # "idle",
         NEW record, records' = Append(records, record), record.status # "settled",
         channel' = channel \/ channel' = Signed, totals'.captured = totals.captured,
         DeclineReason(totals.captured) = "none" \/ channel' = channel,
         channel' = channel \/ (Channelled => args.fail \in {"replay", "over-capture"})
  PROVE  NoncesInv'
<1>1. /\ Settled(records') = Settled(records)
      /\ \A i \in Settled(records) : records'[i] = records[i]
  <2>1. \A i \in Settled(records) : i \in DOMAIN records
    BY DEF Settled
  <2> QED  BY <2>1, UnsettledRow, OneMoreRow
<1>2. Started /\ Shaped /\ Tracked
  BY DEF SimInv, Started
<1>3. Channelled' = Channelled /\ Authorized' = Authorized
  BY DEF Channelled, Authorized
<1>4. Channelled => /\ channel.cumulative \in Nat /\ channel'.cumulative \in Nat
                    /\ channel.cumulative <= channel'.cumulative
  <2>1. CASE channel' = channel
    BY <1>2, <2>1 DEF Started
  <2>2. CASE channel' = Signed /\ DeclineReason(totals.captured) = "none"
    <3>1. Channelled => Signed.cumulative = totals.captured + Authorized
      BY <1>2, <2>2, SignedFits
    <3>2. totals.captured \in Nat /\ Authorized \in Nat
      BY <1>2, AmountsTyped DEF Started, Authorized
    <3> QED  BY <1>2, <2>2, <3>1, <3>2 DEF Tracked
  <2> QED  BY <2>1, <2>2
<1>5. \A i \in Settled(records') : NonceOf(i)'
  <2> SUFFICES ASSUME NEW i \in Settled(records') PROVE NonceOf(i)'
    OBVIOUS
  <2>1. NonceOf(i) /\ records'[i] = records[i]
    BY <1>1 DEF NoncesInv
  <2>2. CASE Channelled
    <3>1. PICK x \in Nat : x <= channel.cumulative /\ records[i].nonce = <<"ceiling", x>>
      BY <2>1, <2>2 DEF NonceOf
    <3>2. x <= channel'.cumulative
      BY <1>4, <2>2, <3>1
    <3> QED  BY <1>3, <2>1, <2>2, <3>1, <3>2 DEF NonceOf
  <2>3. CASE ~Channelled
    BY <1>3, <2>1, <2>3 DEF NonceOf
  <2> QED  BY <2>2, <2>3
<1>6. Authorized > 0 => NoncesDiffer'
  BY <1>1 DEF NoncesInv, NoncesDiffer
<1>7. Channelled /\ args.fail \notin {"replay", "over-capture"} =>
        channel'.cumulative = totals'.captured
  BY DEF NoncesInv
<1> QED  BY <1>3, <1>5, <1>6, <1>7 DEF NoncesInv

LEMMA CaptureNonces == ASSUME SimInv, RowsInv, NoncesInv, Capture PROVE NoncesInv'
<1> DEFINE record ==
      [status |-> "settled", reason |-> "none", authorized |-> Authorized, captured |-> Captured,
       platform |-> PlatformCut(Captured, TakeBps), net |-> AuthorNet(Captured, TakeBps),
       nonce |-> Payload.nonce]
<1>1. /\ Started /\ Shaped /\ Tracked /\ phase = "calling" /\ DeclineReason(totals.captured) = "none"
      /\ Captured <= Authorized /\ Recorded(record, FALSE) /\ Listed
      /\ channel' = Signed /\ UNCHANGED args
      /\ totals' = [totals EXCEPT !.captured = @ + Captured, !.ceiling = Ceiling(records')]
  BY DEF SimInv, RowsInv, Capture, Sign, Judged, Started
<1>2. record.nonce = Payload.nonce /\ record.status = "settled"
  OBVIOUS
<1> HIDE DEF record
<1>3. /\ records' = Append(records, record) /\ phase' \in {"calling", "closing"}
      /\ totals'.captured = totals.captured + Captured
  BY <1>1 DEF Recorded, Shaped
<1>4. /\ Len(records) \in Nat /\ DOMAIN records = 1..Len(records)
      /\ \A i \in DOMAIN records : records'[i] = records[i]
      /\ records'[Len(records) + 1] = record /\ Settled(records) \subseteq DOMAIN records
      /\ Settled(records') = Settled(records) \cup {Len(records) + 1}
  <2>1. \A i \in DOMAIN records : Amounts(records[i])
    BY DEF RowsInv, Balanced
  <2>2. DOMAIN records' = 1..(Len(records) + 1)
    BY <1>1, <1>3, OneMoreRow
  <2>3. Settled(records') = Settled(records) \cup {Len(records) + 1}
    BY <1>1, <1>2, <1>3, OneMoreRow DEF Settled
  <2> QED  BY <1>1, <1>3, <2>3, OneMoreRow DEF Settled
<1>5. Channelled' = Channelled /\ Authorized' = Authorized
  BY <1>1 DEF Channelled, Authorized
<1>6. Authorized \in Nat /\ totals.captured \in Nat
  BY <1>1, AmountsTyped DEF Started, Authorized
<1>7. CASE Channelled
  <2>1. /\ channel.cumulative = totals.captured
        /\ channel'.cumulative = totals.captured + Authorized
        /\ record.nonce = <<"ceiling", channel'.cumulative>>
    BY <1>1, <1>2, <1>7, SignedFits DEF Tracked, Payload
  <2>2. Captured = Authorized
    BY <1>1, <1>7, ChannelFailsOnPurpose
  <2>3. /\ channel.cumulative \in Nat /\ channel'.cumulative \in Nat
        /\ channel.cumulative <= channel'.cumulative
        /\ Authorized > 0 => channel.cumulative < channel'.cumulative
    BY <1>6, <2>1
  <2>4. \A i \in Settled(records) :
          \E x \in Nat : x <= channel.cumulative /\ records'[i].nonce = <<"ceiling", x>>
    BY <1>1, <1>4, <1>7 DEF NoncesInv, NonceOf
  <2>5. \A i \in Settled(records') :
          \E x \in Nat : x <= channel'.cumulative /\ records'[i].nonce = <<"ceiling", x>>
    <3> SUFFICES ASSUME NEW i \in Settled(records')
                 PROVE  \E x \in Nat : x <= channel'.cumulative /\ records'[i].nonce = <<"ceiling", x>>
      OBVIOUS
    <3>1. CASE i \in Settled(records)
      <4>1. PICK x \in Nat : x <= channel.cumulative /\ records'[i].nonce = <<"ceiling", x>>
        BY <2>4, <3>1
      <4> QED  BY <2>3, <4>1
    <3>2. CASE i = Len(records) + 1
      BY <1>4, <2>1, <2>3, <3>2
    <3> QED  BY <1>4, <3>1, <3>2
  <2>6. Authorized > 0 => NoncesDiffer'
    <3> SUFFICES ASSUME Authorized > 0, NEW i \in Settled(records'), NEW j \in Settled(records'),
                        records'[i].nonce = records'[j].nonce
                 PROVE  i = j
      BY DEF NoncesDiffer
    <3>1. ASSUME NEW k \in Settled(records) PROVE records'[k].nonce # record.nonce
      <4>1. PICK x \in Nat : x <= channel.cumulative /\ records'[k].nonce = <<"ceiling", x>>
        BY <2>4, <3>1
      <4>2. x # channel'.cumulative
        BY <2>3, <4>1
      <4> QED  BY <2>1, <4>1, <4>2
    <3>2. CASE i \in Settled(records) /\ j \in Settled(records)
      BY <1>1, <1>4, <3>2 DEF NoncesInv, NoncesDiffer
    <3>3. CASE i = Len(records) + 1 \/ j = Len(records) + 1
      BY <1>4, <3>1, <3>3
    <3> QED  BY <1>4, <3>2, <3>3
  <2> QED  BY <1>3, <1>5, <1>7, <2>1, <2>2, <2>5, <2>6 DEF NoncesInv, NonceOf
<1>8. CASE ~Channelled
  <2>1. record.nonce = <<"random", Len(records) + 1>>
    BY <1>2, <1>8 DEF Payload, Index
  <2>2. \A i \in Settled(records') : records'[i].nonce = <<"random", i>>
    BY <1>1, <1>4, <1>8, <2>1 DEF NoncesInv, NonceOf
  <2>3. NoncesDiffer'
    BY <2>2 DEF NoncesDiffer
  <2> QED  BY <1>3, <1>5, <1>8, <2>2, <2>3 DEF NoncesInv, NonceOf
<1> QED  BY <1>7, <1>8

LEMMA NextNonces ==
  ASSUME SimInv, RowsInv, PathsInv, NoncesInv, [SimNext]_simVars PROVE NoncesInv'
<1>1. Listed /\ (phase = "calling" => Started /\ Shaped)
  BY DEF RowsInv, SimInv
<1>2. CASE \E a \in Arguments : Start(a)
  <2>1. PICK a \in Arguments : Start(a)
    BY <1>2
  <2>2. /\ records = <<>> /\ UNCHANGED <<records, totals>> /\ totals.captured = 0
        /\ channel'.cumulative = 0
    BY <2>1 DEF Start, PathsInv, SimInv, Opened
  <2>3. Settled(records') = {}
    BY <2>2, EmptyLen
  <2> QED  BY <2>2, <2>3 DEF NoncesInv, NoncesDiffer
<1>3. CASE Challenge
  BY <1>1, <1>3, UnsettledNonces DEF Challenge, Recorded, Blank
<1>4. CASE Decline
  <2>1. totals'.captured = totals.captured
    BY <1>4 DEF Decline, SimInv, Shaped
  <2> QED  BY <1>1, <1>4, <2>1, UnsettledNonces DEF Decline, Judged, Recorded, Blank
<1>5. CASE Reject
  <2>1. Channelled => args.fail = "replay"
    BY <1>1, <1>5, ChannelFailsOnPurpose DEF Reject, Sign, Judged
  <2> QED  BY <1>1, <1>5, <2>1, UnsettledNonces DEF Reject, Sign, Judged, Recorded, Blank
<1>6. CASE OverCapture
  <2>1. Channelled => args.fail = "over-capture"
    BY <1>1, <1>6, ChannelFailsOnPurpose DEF OverCapture, Sign, Judged
  <2> QED  BY <1>1, <1>6, <2>1, UnsettledNonces DEF OverCapture, Sign, Judged, Recorded, Blank
<1>7. CASE Close \/ UNCHANGED simVars
  BY <1>7 DEF Close, simVars, NoncesInv, NonceOf, NoncesDiffer, Channelled, Authorized
<1> QED  BY <1>2, <1>3, <1>4, <1>5, <1>6, <1>7, CaptureNonces DEF SimNext

LEMMA InitNonces == SimInit => NoncesInv
BY DEF SimInit, NoncesInv

-----------------------------------------------------------------------------
(* What every run shows, whatever else is written meanwhile *)

RunInv == SimInv /\ RowsInv /\ PathsInv /\ NoncesInv

LEMMA RunSteps ==
  ASSUME [DashboardNext]_dashboardVars
  PROVE  \/ [SimNext]_simVars
         \/ Persist /\ UNCHANGED <<args, records, channel, seen, cache, totals>>
<1>1. CASE DemoNext
  <2>1. CASE \E seed \in Seeds : Seed(seed)
    BY <2>1 DEF Seed, simVars
  <2> QED
    BY <1>1, <2>1
    DEF DemoNext, CaptureLive, SettleLive, Persist, StartPurge, DeleteTable, PurgeRefused,
        CommitPurge
<1>2. CASE UNCHANGED showVars
  BY <1>2 DEF showVars
<1>3. CASE UNCHANGED dashboardVars
  BY <1>2, <1>3 DEF dashboardVars
<1> QED
  BY <1>1, <1>2, <1>3 DEF DashboardNext, Write, Open, ReadFirst, ReadSecond, ClosePage

LEMMA RunStep == ASSUME RunInv, [DashboardNext]_dashboardVars PROVE RunInv'
<1>1. CASE [SimNext]_simVars
  BY <1>1, NextInv, NextRows, NextPaths, NextNonces DEF RunInv
<1>2. CASE Persist /\ UNCHANGED <<args, records, channel, seen, cache, totals>>
  <2>1. phase = "closed" /\ phase' = "persisted"
    BY <1>2 DEF Persist
  <2>2. SimInv'
    BY <1>2, <2>1 DEF RunInv, SimInv, Shaped, Started, Listed
  <2>3. RowsInv'
    BY <1>2 DEF RunInv, RowsInv, Listed
  <2>4. PathsInv'
    BY <1>2, <2>1 DEF RunInv, PathsInv, Channelled
  <2>5. NoncesInv'
    BY <1>2, <2>1 DEF RunInv, NoncesInv, NonceOf, NoncesDiffer, Channelled, Authorized
  <2> QED  BY <2>2, <2>3, <2>4, <2>5 DEF RunInv
<1> QED  BY <1>1, <1>2, RunSteps

LEMMA RunInvariance == DashboardSpec => []RunInv
<1>1. SimInit => SimInv
  BY DEF SimInit, SimInv, Shaped
<1>2. DashboardInit => RunInv
  BY <1>1, InitRows, InitPaths, InitNonces DEF DashboardInit, DemoInit, RunInv
<1>3. RunInv /\ [DashboardNext]_dashboardVars => RunInv'
  BY RunStep
<1> QED  BY <1>2, <1>3, PTL DEF DashboardSpec

(* Whatever the run's arguments and whichever calls are declined or rejected,  *)
(* the buyer has signed and been charged no more than its budget and deposit.  *)
THEOREM RunsStayWithinBudget == DashboardSpec => []SignedWithinBudget
<1>1. RunInv => SignedWithinBudget
  BY DEF RunInv, SimInv, Started, SignedWithinBudget
<1> QED  BY <1>1, RunInvariance, PTL

LEMMA NoneIsZero ==
  ASSUME Listed PROVE Result.calls \in Nat /\ (Result.calls = 0 <=> Settled(records) = {})
BY SettledRows, FS_EmptySet DEF Result

(* Every failure path of the simulator stops what it is said to stop: nothing  *)
(* is settled of a run that never pays, pays with a bad signature or captures  *)
(* too much, one call of a run that replays it, and a run without a failure    *)
(* has no failed call.                                                         *)
THEOREM EveryFailureBites == DashboardSpec => []FailurePathsBite
<1>1. ASSUME RunInv PROVE FailurePathsBite
  <2> SUFFICES ASSUME phase = "closed" PROVE FailurePathsBite
    BY DEF FailurePathsBite
  <2>1. Listed /\ Started /\ args \in Arguments
    BY <1>1 DEF RunInv, RowsInv, SimInv, Started
  <2>2. args.fail = "replay" => Result.calls <= 1
    <3>1. IsFiniteSet({1}) /\ Cardinality({1}) = 1
      BY FS_Singleton
    <3>2. args.fail = "replay" => Settled(records) \subseteq {1}
      BY <1>1 DEF RunInv, PathsInv
    <3> QED  BY <3>1, <3>2, FS_Subset DEF Result
  <2>3. args.fail \in {"no-payment", "over-capture"} => Result.calls = 0
    BY <1>1, <2>1, NoneIsZero DEF RunInv, PathsInv
  <2>4. args.fail = "bad-signature" => Channelled \/ Result.calls = 0
    BY <1>1, <2>1, NoneIsZero DEF RunInv, PathsInv
  <2>5. args.fail = "over-budget" => totals.captured <= Authorized + Authorized \div 2
    BY <2>1 DEF Started, BudgetOf, Authorized
  <2>6. args.fail = "none" => \A i \in DOMAIN records : records[i].status # "failed"
    BY <1>1 DEF RunInv, PathsInv
  <2>7. args.fail \in Failures
    BY <2>1, ArgumentsAssumption
  <2> HIDE DEF Result
  <2> QED  BY <2>2, <2>3, <2>4, <2>5, <2>6, <2>7 DEF FailurePathsBite, Failures
<1> QED  BY <1>1, RunInvariance, PTL

(* More transactions are no cheaper.                                          *)
LEMMA LoadGrows ==
  ASSUME NEW n \in Nat, n > 2, NEW gross \in Nat
  PROVE  FeeLoad(Fee * 2, gross) <= FeeLoad(Fee * n, gross)
<1>1. Fee \in Nat /\ Bps \in Nat
  BY MoneyAssumption
<1>2. Fee * 2 \in Nat /\ Fee * n \in Nat /\ Fee * 2 <= Fee * n
  BY <1>1, Factors
<1>3. /\ (Fee * 2) * Bps \in Nat /\ (Fee * n) * Bps \in Nat
      /\ (Fee * 2) * Bps <= (Fee * n) * Bps
  <2> DEFINE a == Fee * 2  b == Fee * n
  <2>1. a \in Nat /\ b \in Nat /\ a <= b
    BY <1>2
  <2> HIDE DEF a, b
  <2>2. Bps * a \in Nat /\ Bps * b \in Nat /\ Bps * a <= Bps * b
    BY <1>1, <2>1, Factors
  <2>3. a * Bps = Bps * a /\ b * Bps = Bps * b
    BY <1>1, <2>1
  <2> QED  BY <2>2, <2>3 DEF a, b
<1>4. CASE gross = 0
  BY <1>4 DEF FeeLoad
<1>5. CASE gross > 0
  <2> DEFINE a == (Fee * 2) * Bps  b == (Fee * n) * Bps
  <2>1. a \in Nat /\ b \in Nat /\ a <= b
    BY <1>3
  <2>2. FeeLoad(Fee * 2, gross) = a \div gross /\ FeeLoad(Fee * n, gross) = b \div gross
    BY <1>5 DEF FeeLoad
  <2> HIDE DEF a, b
  <2>3. a \div gross <= b \div gross
    BY <1>5, <2>1, Quotient
  <2> QED  BY <2>2, <2>3
<1> QED  BY <1>4, <1>5

(* "sum(call.captured) = batch.gross" and "platform + author = gross" of every *)
(* run; what it would write keeps the ledger's constraints, the claim is what  *)
(* was captured unless a call was replayed, and past two calls a batch is no   *)
(* dearer than settling call by call.                                          *)
THEOREM EveryLedgerClaim == DashboardSpec => []LedgerClaimHolds
<1>1. ASSUME RunInv PROVE LedgerClaimHolds
  <2> SUFFICES ASSUME phase = "closed" PROVE LedgerClaimHolds
    BY DEF LedgerClaimHolds
  <2>1. Listed /\ Started /\ RowsInv /\ PathsInv /\ NoncesInv
    BY <1>1 DEF RunInv, RowsInv, SimInv
  <2>2. /\ Result.gross = totals.captured /\ Result.platform = SumOf(records, "platform")
        /\ Result.net = SumOf(records, "net")
        /\ Result.claim = IF Result.calls > 0 /\ Channelled THEN channel.cumulative ELSE 0
    BY DEF Result
  <2>3. totals.captured \in Nat
    BY <2>1 DEF Started
  <2>4. \A i \in Settled(records) : records[i].captured <= records[i].authorized
    BY <2>1 DEF RowsInv, Balanced, Settled
  <2>5. Channelled /\ args.fail # "replay" => Result.claim = Result.gross
    <3>1. CASE Settled(records) = {}
      <4>1. Result.calls = 0 /\ totals.captured = 0
        BY <2>1, <3>1, NoneIsZero, NothingSettled DEF RowsInv
      <4> QED  BY <2>2, <4>1
    <3>2. CASE Settled(records) # {}
      <4>1. Result.calls \in Nat /\ Result.calls # 0 /\ args.fail # "over-capture"
        BY <2>1, <3>2, NoneIsZero DEF PathsInv
      <4>2. Channelled /\ args.fail # "replay" => channel.cumulative = totals.captured
        BY <2>1, <4>1 DEF NoncesInv
      <4> QED  BY <2>2, <4>1, <4>2
    <3> QED  BY <3>1, <3>2
  <2>6. Result.calls > 2 => Economics.batched <= Economics.perCall
    <3>1. Result.calls \in Nat
      BY <2>1, NoneIsZero
    <3>2. /\ Economics.perCall = FeeLoad(Fee * Result.calls, totals.captured)
          /\ Economics.batched = FeeLoad(Fee * 2, totals.captured)
      BY <2>2 DEF Economics
    <3> QED  BY <2>3, <3>1, <3>2, LoadGrows
  <2>7. Authorized > 0 => NoncesDiffer
    BY <2>1 DEF NoncesInv
  <2> HIDE DEF Result
  <2> QED  BY <2>1, <2>2, <2>4, <2>5, <2>6, <2>7 DEF LedgerClaimHolds, RowsInv
<1> QED  BY <1>1, RunInvariance, PTL

-----------------------------------------------------------------------------
(* The rows of a group *)

Shape(r) ==
  r = [tables |-> r.tables, billable |-> r.billable, declined |-> r.declined, others |-> r.others,
       captured |-> r.captured, counterCalls |-> r.counterCalls,
       counterCaptured |-> r.counterCaptured, batched |-> r.batched, gross |-> r.gross,
       fee |-> r.fee]
Bare(T) ==
  [tables |-> T, billable |-> 0, declined |-> 0, others |-> 0, captured |-> 0,
   counterCalls |-> 0, counterCaptured |-> 0, batched |-> 0, gross |-> 0, fee |-> 0]
Tables == {"receipt", "call", "batch", "pay_session", "tool", "author"}

\* What holds of the rows a writer writes in one transaction.
Sound(r) ==
  /\ Shape(r) /\ {"author", "tool"} \subseteq r.tables /\ r.tables \subseteq Tables
  /\ r.counterCalls = r.billable /\ r.counterCaptured = r.captured
  /\ "batch" \notin r.tables => r.batched = 0 /\ r.gross = 0 /\ r.fee = 0
  /\ "call" \notin r.tables => r = Bare(r.tables)

LEMMA BareRows == NoRows = Bare({}) /\ \A T : [NoRows EXCEPT !.tables = T] = Bare(T)
BY DEF NoRows, Bare

LEMMA WithoutNothing == ASSUME NEW r, Shape(r) PROVE Without(r, {}) = r
BY DEF Shape, Without

LEMMA WithoutBare == ASSUME NEW T, NEW S PROVE Without(Bare(T), S) = Bare(T \ S)
BY DEF Bare, Without

LEMMA WithoutAll ==
  ASSUME NEW r, Sound(r), "call" \in r.tables PROVE Without(r, r.tables) = Bare({})
BY DEF Sound, Shape, Bare, Without

LEMMA EmptyTotal == ASSUME NEW f PROVE Total({}, f) = 0
BY TotalZero

LEMMA SeedSound == ASSUME NEW seed PROVE Sound(SeedRows(seed))
<1> DEFINE sessions == DOMAIN seed
           closed == {i \in sessions : IsClosed(seed[i])}
           Calls(some) == Total(some, [i \in sessions |-> Len(seed[i].captures)])
           Captures(some) == Total(some, [i \in sessions |-> Drawn(seed[i])])
           declines == Total(sessions, [i \in sessions |-> seed[i].declines])
           tables == {"author", "tool"} \cup (IF seed = <<>> THEN {} ELSE {"pay_session", "call"})
                       \cup (IF Calls(sessions) = 0 THEN {} ELSE {"receipt"})
                       \cup (IF closed = {} THEN {} ELSE {"batch"})
           r == SeedRows(seed)
<1>1. r = [tables |-> tables, billable |-> Calls(sessions), others |-> 0, declined |-> declines,
           captured |-> Captures(sessions), counterCalls |-> Calls(sessions),
           counterCaptured |-> Captures(sessions), batched |-> Calls(closed),
           gross |-> Captures(closed), fee |-> 2 * Fee * Cardinality(closed)]
  BY DEF SeedRows
<1>2. closed = {} => Calls(closed) = 0 /\ Captures(closed) = 0 /\ 2 * Fee * Cardinality(closed) = 0
  <2>1. Fee \in Nat /\ Cardinality({}) = 0
    BY MoneyAssumption, FS_EmptySet
  <2> HIDE DEF sessions, closed
  <2>2. closed = {} => Calls(closed) = 0
    BY EmptyTotal
  <2>3. closed = {} => Captures(closed) = 0
    BY EmptyTotal
  <2>4. closed = {} => 2 * Fee * Cardinality(closed) = 0
    BY <2>1
  <2> QED  BY <2>2, <2>3, <2>4
<1>3. seed = <<>> => /\ closed = {} /\ Calls(sessions) = 0 /\ Captures(sessions) = 0
                     /\ declines = 0
  <2>1. seed = <<>> => sessions = {}
    OBVIOUS
  <2>2. sessions = {} => closed = {}
    OBVIOUS
  <2> HIDE DEF sessions
  <2>3. sessions = {} => Calls(sessions) = 0
    BY EmptyTotal
  <2>4. sessions = {} => Captures(sessions) = 0
    BY EmptyTotal
  <2>5. sessions = {} => declines = 0
    BY EmptyTotal
  <2> QED  BY <2>1, <2>2, <2>3, <2>4, <2>5
<1> HIDE DEF sessions, closed, Calls, Captures, declines, r
<1>4. Shape(r)
  BY <1>1 DEF Shape
<1>5. /\ r.tables = tables /\ r.counterCalls = r.billable /\ r.counterCaptured = r.captured
      /\ r.batched = Calls(closed) /\ r.gross = Captures(closed)
      /\ r.fee = 2 * Fee * Cardinality(closed)
  BY <1>1
<1>6. {"author", "tool"} \subseteq tables /\ tables \subseteq Tables
  BY DEF Tables
<1>7. "batch" \notin tables => closed = {}
  OBVIOUS
<1>8. "call" \notin tables => seed = <<>>
  OBVIOUS
<1>9. "call" \notin tables => r = Bare(tables)
  BY <1>1, <1>2, <1>3, <1>8 DEF Bare
<1> HIDE DEF tables
<1>10. Sound(r)
  BY <1>2, <1>4, <1>5, <1>6, <1>7, <1>9 DEF Sound
<1> QED  BY <1>10 DEF r

\* Before the first call nothing is declined.
DeclinesInv == records = <<>> => totals.declined = 0

LEMMA NextDeclines == ASSUME RunInv, DeclinesInv, [SimNext]_simVars PROVE DeclinesInv'
<1>1. ASSUME NEW record, NEW stops, Recorded(record, stops) PROVE records' # <<>>
  <2>1. records' = Append(records, record) /\ Listed
    BY <1>1 DEF Recorded, RunInv, RowsInv
  <2> QED  BY <2>1, OneMoreRow
<1>2. CASE Challenge \/ Decline \/ Reject \/ OverCapture \/ Capture
  <2>1. \E record, stops : Recorded(record, stops)
    BY <1>2 DEF Challenge, Decline, Reject, OverCapture, Capture
  <2> QED  BY <1>1, <2>1 DEF DeclinesInv
<1>3. CASE UNCHANGED <<records, totals>>
  BY <1>3 DEF DeclinesInv
<1> QED  BY <1>2, <1>3 DEF SimNext, Start, Close, simVars

LEMMA SimSound == ASSUME RunInv, DeclinesInv PROVE Sound(SimRows)
<1> DEFINE n == Result.calls
           others == Len(records) - n - totals.declined
           tables == {"author", "tool", "pay_session"} \cup (IF records = <<>> THEN {} ELSE {"call"})
                       \cup (IF n = 0 THEN {} ELSE {"batch", "receipt"})
           fee == IF n = 0 THEN 0 ELSE Fee
           r == SimRows
<1>1. Listed /\ Result.gross = totals.captured
  BY DEF RunInv, RowsInv, Result
<1>2. n = 0 => totals.captured = 0
  BY <1>1, NoneIsZero, NothingSettled DEF RunInv, RowsInv
<1>3. records = <<>> => n = 0 /\ Len(records) = 0 /\ totals.declined = 0
  BY <1>1, NoneIsZero, EmptyLen DEF DeclinesInv
<1>4. r = [tables |-> tables, billable |-> n, declined |-> totals.declined, others |-> others,
           captured |-> totals.captured, counterCalls |-> n, counterCaptured |-> totals.captured,
           batched |-> n, gross |-> totals.captured, fee |-> fee]
  BY <1>1 DEF SimRows
<1>5. records = <<>> => others = 0 /\ fee = 0
  BY <1>3
<1>6. n = 0 => fee = 0
  OBVIOUS
<1> HIDE DEF n, others, fee, r
<1>7. Shape(r)
  BY <1>4 DEF Shape
<1>8. /\ r.tables = tables /\ r.counterCalls = r.billable /\ r.counterCaptured = r.captured
      /\ r.batched = n /\ r.gross = totals.captured /\ r.fee = fee
  BY <1>4
<1>9. {"author", "tool"} \subseteq tables /\ tables \subseteq Tables
  BY DEF Tables
<1>10. "batch" \notin tables => n = 0
  OBVIOUS
<1>11. "call" \notin tables => r = Bare(tables)
  <2>1. "call" \notin tables => records = <<>>
    OBVIOUS
  <2> QED  BY <1>2, <1>3, <1>4, <1>5, <2>1 DEF Bare
<1> HIDE DEF tables
<1>12. Sound(r)
  BY <1>2, <1>6, <1>7, <1>8, <1>9, <1>10, <1>11 DEF Sound
<1> QED  BY <1>12 DEF r

-----------------------------------------------------------------------------
(* A purge beside writers *)

M == LedgerModels

\* What a purge has deleted of a group: of the tables behind it, from some table
\* on (P2), never a row that another one left refers to (P3), and all of them
\* unless the group was written meanwhile (P4).
P1 == \A x \in gone : \E i \in 1..6, g \in DemoGroups :
        x = <<M[i], g>> /\ i < purging /\ M[i] \in ledger[g].tables
P2 == \A g \in DemoGroups : \A i, j \in 1..6 :
        /\ i <= j /\ j < purging /\ <<M[i], g>> \in gone /\ M[j] \in ledger[g].tables
        => <<M[j], g>> \in gone
P3 == \A g \in DemoGroups : \A child, table \in Tables :
        <<child, table>> \in References /\ <<table, g>> \in gone /\ child \in ledger[g].tables
        => <<child, g>> \in gone
P4 == ~raced => \A g \in DemoGroups : \A i \in 1..6 :
        i < purging /\ M[i] \in ledger[g].tables => <<M[i], g>> \in gone

Live(r) ==
  /\ Shape(r) /\ r.counterCalls = r.billable /\ r.counterCaptured = r.captured
  /\ r.captured \in Nat /\ r.gross \in Nat /\ r.gross <= r.captured

PurgeInv ==
  /\ DOMAIN ledger = Groups /\ ledger = [g \in Groups |-> ledger[g]]
  /\ purging \in 0..7 /\ (purging = 0 => gone = {})
  /\ Live(ledger["live"]) /\ \A g \in DemoGroups : Whole(g)
  /\ P1 /\ P2 /\ P3 /\ P4 /\ (refused => raced)

ShowInv == RunInv /\ DeclinesInv /\ PurgeInv

LEMMA ModelsList ==
  /\ Len(M) = 6 /\ DOMAIN M = 1..6
  /\ M[1] = "receipt" /\ M[2] = "call" /\ M[3] = "batch" /\ M[4] = "pay_session"
  /\ M[5] = "tool" /\ M[6] = "author"
BY DEF M, LedgerModels

LEMMA ModelsDiffer ==
  /\ \A i \in 1..6 : M[i] \in Tables
  /\ \A i, j \in 1..6 : M[i] = M[j] => i = j
  /\ \A table \in Tables : \E i \in 1..6 : M[i] = table
<1>1. 1..6 = {1, 2, 3, 4, 5, 6}
  OBVIOUS
<1>2. \A i \in 1..6 : M[i] \in Tables
  BY <1>1, ModelsList DEF Tables
<1>3. \A table \in Tables : \E i \in 1..6 : M[i] = table
  BY <1>1, ModelsList DEF Tables
<1>4. \A i, j \in 1..6 : M[i] = M[j] => i = j
  BY <1>1, ModelsList
<1> QED  BY <1>2, <1>3, <1>4

(* A row is deleted before the rows it refers to.                             *)
LEMMA ChildFirst ==
  ASSUME NEW child, NEW j \in 1..6, <<child, M[j]>> \in References
  PROVE  \E i \in 1..6 : M[i] = child /\ i < j
<1>1. /\ child = "receipt" \/ child = "call" \/ child = "batch" \/ child = "tool"
      /\ child = "receipt" => M[j] \in {"call", "pay_session", "batch"}
      /\ child = "call" => M[j] \in {"pay_session", "tool", "batch"}
      /\ child = "batch" => M[j] = "pay_session"
      /\ child = "tool" => M[j] = "author"
  BY DEF References
<1>2. j \in {1, 2, 3, 4, 5, 6}
  OBVIOUS
<1> QED  BY <1>1, <1>2, ModelsList

(* What is written never loses its shape.                                     *)
LEMMA WrittenSound ==
  ASSUME RunInv, DeclinesInv, NEW g \in DemoGroups, NEW rows \in Written(g)
  PROVE  Sound(rows)
BY SeedSound, SimSound DEF Written, DemoGroups

LEMMA WholeRows ==
  ASSUME RunInv, DeclinesInv, NEW g \in DemoGroups, Whole(g)
  PROVE  \/ ledger[g] \in Written(g) /\ Sound(ledger[g])
         \/ ledger[g] = Bare(ledger[g].tables) /\ "call" \notin ledger[g].tables
            /\ \/ ledger[g].tables = {}
               \/ \E rows \in Written(g) :
                    "call" \notin rows.tables /\ ledger[g].tables \subseteq rows.tables
<1>1. CASE ledger[g] = NoRows
  BY <1>1, BareRows DEF Bare
<1>2. CASE \E rows \in Written(g) : ledger[g] = rows
  BY <1>2, WrittenSound
<1>3. CASE \E rows \in Written(g) :
             "call" \notin rows.tables
             /\ \E left \in SUBSET rows.tables : ledger[g] = [NoRows EXCEPT !.tables = left]
  <2>1. PICK rows \in Written(g) : "call" \notin rows.tables
               /\ \E left \in SUBSET rows.tables : ledger[g] = [NoRows EXCEPT !.tables = left]
    BY <1>3
  <2>2. PICK left \in SUBSET rows.tables : ledger[g] = Bare(left)
    BY <2>1, BareRows
  <2>3. ledger[g].tables = left
    BY <2>2 DEF Bare
  <2> QED  BY <2>1, <2>2, <2>3
<1> QED  BY <1>1, <1>2, <1>3 DEF Whole

LEMMA BareIsWhole ==
  ASSUME NEW g, NEW rows \in Written(g), "call" \notin rows.tables,
         NEW left \in SUBSET rows.tables, ledger[g] = Bare(left)
  PROVE  Whole(g)
BY BareRows DEF Whole

(* As long as the rows and the run stay, a group stays whole.                 *)
LEMMA WholeStays ==
  ASSUME NEW g \in DemoGroups, Whole(g), ledger'[g] = ledger[g],
         Written(g) \subseteq Written(g)'
  PROVE  Whole(g)'
BY DEF Whole

LEMMA SimRowsStay == ASSUME UNCHANGED <<args, records, channel, totals>> PROVE SimRows' = SimRows
<1>1. Result' = Result
  BY DEF Result, SumOf, Settled, Channelled
<1> QED  BY <1>1 DEF SimRows

LEMMA WrittenStays ==
  ASSUME NEW g \in DemoGroups, UNCHANGED simVars PROVE Written(g)' = Written(g)
BY SimRowsStay DEF Written, simVars

-----------------------------------------------------------------------------
(* Every step of a writer and of a purge *)

(* What a group that had no rows is given while a purge runs is not behind the *)
(* purge, which can then tell that something raced it.                         *)
LEMMA CommittedPurge ==
  ASSUME PurgeInv, NEW g \in Groups, NEW rows, Committed(g, rows),
         g \in DemoGroups => ledger[g].tables = {}, g = "live" => Live(rows),
         \A d \in DemoGroups : Whole(d)'
  PROVE  PurgeInv'
<1>1. /\ ledger' = [ledger EXCEPT ![g] = rows] /\ raced' = (raced \/ purging > 0)
      /\ UNCHANGED <<purging, gone, purges, refused>>
  BY DEF Committed
<1>2. /\ DOMAIN ledger' = Groups /\ ledger'[g] = rows
      /\ \A d \in Groups : d # g => ledger'[d] = ledger[d]
      /\ ledger' = [d \in Groups |-> ledger'[d]]
  BY <1>1 DEF PurgeInv
<1>3. Live(ledger'["live"])
  BY <1>2 DEF PurgeInv, Groups
<1>4. g \in DemoGroups => \A i \in 1..6 : <<M[i], g>> \notin gone
  BY DEF PurgeInv, P1
<1>5. \A d \in DemoGroups : d \in Groups
  BY DEF DemoGroups, Groups
<1>6. \A d \in DemoGroups, table \in Tables : <<table, d>> \in gone => d # g
  BY <1>4, ModelsDiffer
<1>7. P1'
  <2> SUFFICES ASSUME NEW x \in gone
               PROVE  \E i \in 1..6, d \in DemoGroups :
                        x = <<M[i], d>> /\ i < purging /\ M[i] \in ledger'[d].tables
    BY <1>1 DEF P1
  <2>1. PICK i \in 1..6 : \E d \in DemoGroups :
               x = <<M[i], d>> /\ i < purging /\ M[i] \in ledger[d].tables
    BY DEF PurgeInv, P1
  <2>2. PICK d \in DemoGroups : x = <<M[i], d>> /\ i < purging /\ M[i] \in ledger[d].tables
    BY <2>1
  <2>3. d # g
    BY <1>4, <2>2
  <2> QED  BY <1>2, <1>5, <2>2, <2>3
<1>8. P2'
  BY <1>1, <1>2, <1>5, <1>6, ModelsDiffer DEF PurgeInv, P2
<1>9. P3'
  BY <1>1, <1>2, <1>5, <1>6 DEF PurgeInv, P3
<1>10. P4'
  <2>1. CASE purging = 0
    <3>1. \A i \in 1..6 : ~(i < purging')
      BY <1>1, <2>1
    <3> QED  BY <3>1 DEF P4
  <2>2. CASE purging > 0
    BY <1>1, <2>2 DEF P4
  <2> QED  BY <2>1, <2>2 DEF PurgeInv
<1> QED  BY <1>1, <1>2, <1>3, <1>7, <1>8, <1>9, <1>10 DEF PurgeInv

LEMMA LiveCaptured ==
  ASSUME NEW r, Live(r), NEW q,
         q = [r EXCEPT !.tables = @ \cup {"pay_session", "call", "receipt"},
                !.billable = @ + 1, !.captured = @ + LivePrice,
                !.counterCalls = @ + 1, !.counterCaptured = @ + LivePrice]
  PROVE  Live(q)
<1>1. Shape(r) /\ LivePrice \in Nat
  BY DemoAssumption DEF Live
<1>2. PICK T, b, c, calls, counted :
        /\ T = r.tables \cup {"pay_session", "call", "receipt"} /\ b = r.billable + 1
        /\ c = r.captured + LivePrice /\ calls = r.counterCalls + 1
        /\ counted = r.counterCaptured + LivePrice
  OBVIOUS
<1>3. PICK q1 : q1 = [r EXCEPT !.tables = T, !.billable = b, !.captured = c]
  OBVIOUS
<1>4. q1 = [tables |-> T, billable |-> b, declined |-> r.declined, others |-> r.others,
            captured |-> c, counterCalls |-> r.counterCalls,
            counterCaptured |-> r.counterCaptured, batched |-> r.batched, gross |-> r.gross,
            fee |-> r.fee]
  BY <1>1, <1>3 DEF Shape
<1>5. q = [q1 EXCEPT !.counterCalls = calls, !.counterCaptured = counted]
  BY <1>2, <1>3
<1>6. q = [tables |-> T, billable |-> b, declined |-> r.declined, others |-> r.others,
           captured |-> c, counterCalls |-> calls, counterCaptured |-> counted,
           batched |-> r.batched, gross |-> r.gross, fee |-> r.fee]
  BY <1>4, <1>5
<1>7. Shape(q)
  BY <1>6 DEF Shape
<1> QED  BY <1>1, <1>2, <1>6, <1>7 DEF Live

LEMMA LiveSettled ==
  ASSUME NEW r, Live(r), NEW q,
         q = [r EXCEPT !.tables = @ \cup {"batch"}, !.batched = r.billable,
                !.gross = r.captured, !.fee = @ + 2 * Fee]
  PROVE  Live(q)
<1>1. Shape(r)
  BY DEF Live
<1>2. PICK T, b, gross, fee :
        /\ T = r.tables \cup {"batch"} /\ b = r.billable /\ gross = r.captured
        /\ fee = r.fee + 2 * Fee
  OBVIOUS
<1>3. q = [r EXCEPT !.tables = T, !.batched = b, !.gross = gross, !.fee = fee]
  BY <1>2
<1>4. q = [tables |-> T, billable |-> r.billable, declined |-> r.declined,
           others |-> r.others, captured |-> r.captured, counterCalls |-> r.counterCalls,
           counterCaptured |-> r.counterCaptured, batched |-> b, gross |-> gross, fee |-> fee]
  BY <1>1, <1>3 DEF Shape
<1>5. Shape(q)
  BY <1>4 DEF Shape
<1> QED  BY <1>2, <1>4, <1>5 DEF Live

LEMMA CaptureLivePurge == ASSUME ShowInv, CaptureLive PROVE PurgeInv'
<1> DEFINE live == ledger["live"]
           rows == [live EXCEPT !.tables = @ \cup {"pay_session", "call", "receipt"},
                      !.billable = @ + 1, !.captured = @ + LivePrice,
                      !.counterCalls = @ + 1, !.counterCaptured = @ + LivePrice]
<1>1. PurgeInv /\ Committed("live", rows) /\ UNCHANGED simVars
  BY DEF ShowInv, CaptureLive
<1>2. Live(rows)
  <2>1. Live(live)
    BY <1>1 DEF PurgeInv
  <2>2. PICK r : r = live
    OBVIOUS
  <2>3. PICK q : q = rows
    OBVIOUS
  <2>4. q = [r EXCEPT !.tables = @ \cup {"pay_session", "call", "receipt"},
               !.billable = @ + 1, !.captured = @ + LivePrice,
               !.counterCalls = @ + 1, !.counterCaptured = @ + LivePrice]
    BY <2>2, <2>3
  <2>5. Live(q)
    BY <2>1, <2>2, <2>4, LiveCaptured
  <2> QED  BY <2>3, <2>5
<1> HIDE DEF rows
<1>3. \A d \in DemoGroups : Whole(d)'
  <2> SUFFICES ASSUME NEW d \in DemoGroups PROVE Whole(d)'
    OBVIOUS
  <2>1. ledger'[d] = ledger[d]
    BY <1>1 DEF Committed, PurgeInv, DemoGroups, Groups
  <2> QED  BY <1>1, <2>1, WholeStays, WrittenStays DEF PurgeInv
<1>4. "live" \in Groups /\ "live" \notin DemoGroups
  BY DEF Groups, DemoGroups
<1> QED  BY <1>1, <1>2, <1>3, <1>4, CommittedPurge

LEMMA SettleLivePurge == ASSUME ShowInv, SettleLive PROVE PurgeInv'
<1> DEFINE live == ledger["live"]
           rows == [live EXCEPT !.tables = @ \cup {"batch"}, !.batched = live.billable,
                      !.gross = live.captured, !.fee = @ + 2 * Fee]
<1>1. PurgeInv /\ Committed("live", rows) /\ UNCHANGED simVars
  BY DEF ShowInv, SettleLive
<1>2. Live(rows)
  <2>1. Live(live)
    BY <1>1 DEF PurgeInv
  <2>2. PICK r : r = live
    OBVIOUS
  <2>3. PICK q : q = rows
    OBVIOUS
  <2>4. q = [r EXCEPT !.tables = @ \cup {"batch"}, !.batched = r.billable,
               !.gross = r.captured, !.fee = @ + 2 * Fee]
    BY <2>2, <2>3
  <2>5. Live(q)
    BY <2>1, <2>2, <2>4, LiveSettled
  <2> QED  BY <2>3, <2>5
<1> HIDE DEF rows
<1>3. \A d \in DemoGroups : Whole(d)'
  <2> SUFFICES ASSUME NEW d \in DemoGroups PROVE Whole(d)'
    OBVIOUS
  <2>1. ledger'[d] = ledger[d]
    BY <1>1 DEF Committed, PurgeInv, DemoGroups, Groups
  <2> QED  BY <1>1, <2>1, WholeStays, WrittenStays DEF PurgeInv
<1>4. "live" \in Groups /\ "live" \notin DemoGroups
  BY DEF Groups, DemoGroups
<1> QED  BY <1>1, <1>2, <1>3, <1>4, CommittedPurge

LEMMA SeedPurge == ASSUME ShowInv, NEW seed \in Seeds, Seed(seed) PROVE PurgeInv'
<1>1. /\ PurgeInv /\ Committed("seed", SeedRows(seed)) /\ UNCHANGED simVars
      /\ ledger["seed"].tables = {}
  BY DEF ShowInv, Seed
<1>2. "seed" \in DemoGroups /\ "seed" \in Groups
  BY DEF Groups, DemoGroups
<1>3. \A d \in DemoGroups : Whole(d)'
  <2> SUFFICES ASSUME NEW d \in DemoGroups PROVE Whole(d)'
    OBVIOUS
  <2>1. CASE d = "seed"
    <3>1. ledger'[d] = SeedRows(seed)
      BY <1>1, <1>2, <2>1 DEF Committed, PurgeInv
    <3>2. SeedRows(seed) \in Written(d)'
      BY <2>1 DEF Written
    <3> QED  BY <3>1, <3>2 DEF Whole
  <2>2. CASE d # "seed"
    <3>1. ledger'[d] = ledger[d]
      BY <1>1, <2>2 DEF Committed, PurgeInv, DemoGroups, Groups
    <3> QED  BY <1>1, <3>1, WholeStays, WrittenStays DEF PurgeInv
  <2> QED  BY <2>1, <2>2
<1> HIDE DEF SeedRows
<1> QED  BY <1>1, <1>2, <1>3, CommittedPurge

LEMMA PersistPurge == ASSUME ShowInv, Persist PROVE PurgeInv'
<1>1. /\ PurgeInv /\ Committed("sim", SimRows) /\ phase = "closed" /\ phase' = "persisted"
      /\ UNCHANGED <<args, records, channel, seen, cache, totals>>
  BY DEF ShowInv, Persist
<1>2. "sim" \in DemoGroups /\ "sim" \in Groups
  BY DEF Groups, DemoGroups
<1>3. ledger["sim"].tables = {}
  <2>1. Written("sim") = {}
    BY <1>1 DEF Written
  <2> QED  BY <1>1, <1>2, <2>1 DEF PurgeInv, Whole, NoRows
<1>4. \A d \in DemoGroups : Whole(d)'
  <2> SUFFICES ASSUME NEW d \in DemoGroups PROVE Whole(d)'
    OBVIOUS
  <2>1. CASE d = "sim"
    <3>1. ledger'[d] = SimRows
      BY <1>1, <1>2, <2>1 DEF Committed, PurgeInv
    <3>2. SimRows' = SimRows
      BY <1>1, SimRowsStay
    <3>3. SimRows' \in Written(d)'
      BY <1>1, <2>1 DEF Written
    <3> QED  BY <3>1, <3>2, <3>3 DEF Whole
  <2>2. CASE d = "seed"
    <3>1. ledger'[d] = ledger[d]
      BY <1>1, <2>2 DEF Committed, PurgeInv, DemoGroups, Groups
    <3>2. Written(d)' = Written(d)
      BY <2>2 DEF Written
    <3> QED  BY <1>1, <3>1, <3>2, WholeStays DEF PurgeInv
  <2> QED  BY <2>1, <2>2 DEF DemoGroups
<1> HIDE DEF SimRows
<1> QED  BY <1>1, <1>2, <1>3, <1>4, CommittedPurge

LEMMA SimPurge == ASSUME ShowInv, [SimNext]_simVars, UNCHANGED demoVars PROVE PurgeInv'
<1>1. PurgeInv /\ UNCHANGED <<ledger, purging, gone, purges, refused, raced>>
  BY DEF ShowInv, demoVars
<1>2. CASE UNCHANGED simVars
  <2>1. \A d \in DemoGroups : Whole(d)'
    BY <1>1, <1>2, WholeStays, WrittenStays DEF PurgeInv
  <2> QED  BY <1>1, <2>1 DEF PurgeInv, P1, P2, P3, P4
<1>3. CASE SimNext
  <2>1. phase # "persisted" /\ phase' # "persisted"
    BY <1>3
    DEF SimNext, Start, Challenge, Decline, Reject, OverCapture, Capture, Close, Sign, Judged,
        Recorded
  <2>2. \A d \in DemoGroups : Written(d)' = Written(d)
    BY <2>1 DEF Written
  <2>3. \A d \in DemoGroups : Whole(d)'
    BY <1>1, <2>2, WholeStays DEF PurgeInv
  <2> QED  BY <1>1, <2>3 DEF PurgeInv, P1, P2, P3, P4
<1> QED  BY <1>2, <1>3

LEMMA GroupsStayWhole ==
  ASSUME PurgeInv, UNCHANGED <<simVars, ledger>> PROVE \A g \in DemoGroups : Whole(g)'
BY WholeStays, WrittenStays DEF PurgeInv

LEMMA StartPurgePurge == ASSUME ShowInv, StartPurge PROVE PurgeInv'
<1>1. /\ PurgeInv /\ purging' = 1 /\ gone' = {} /\ refused' = FALSE
      /\ UNCHANGED <<simVars, ledger>>
  BY DEF ShowInv, StartPurge
<1>2. \A g \in DemoGroups : Whole(g)'
  BY <1>1, GroupsStayWhole
<1>3. P1' /\ P2' /\ P3'
  <2>1. P1'
    BY <1>1 DEF P1
  <2>2. P2'
    BY <1>1 DEF P2
  <2>3. P3'
    BY <1>1 DEF P3
  <2> QED  BY <2>1, <2>2, <2>3
<1>4. P4'
  <2>1. \A i \in 1..6 : ~(i < purging')
    BY <1>1
  <2> QED  BY <2>1 DEF P4
<1> QED  BY <1>1, <1>2, <1>3, <1>4 DEF PurgeInv

LEMMA DeleteTablePurge == ASSUME ShowInv, DeleteTable PROVE PurgeInv'
<1> DEFINE p == purging
<1>1. /\ PurgeInv /\ p \in 1..6 /\ purging' = p + 1 /\ ~Blocked(M[p])
      /\ gone' = gone \cup {<<M[p], g>> : g \in {g \in DemoGroups : M[p] \in ledger[g].tables}}
      /\ UNCHANGED <<simVars, ledger, raced, refused>>
  BY ModelsList DEF ShowInv, DeleteTable, M
<1> HIDE DEF p
<1>2. \A table, g : <<table, g>> \in gone' <=>
        \/ <<table, g>> \in gone
        \/ table = M[p] /\ g \in DemoGroups /\ M[p] \in ledger[g].tables
  BY <1>1
<1>3. \A g \in DemoGroups : Whole(g)'
  BY <1>1, GroupsStayWhole
<1>4. P1'
  <2> SUFFICES ASSUME NEW x \in gone'
               PROVE  \E i \in 1..6, g \in DemoGroups :
                        x = <<M[i], g>> /\ i < p + 1 /\ M[i] \in ledger[g].tables
    BY <1>1 DEF P1
  <2>1. CASE x \in gone
    <3>1. PICK i \in 1..6, g \in DemoGroups :
            x = <<M[i], g>> /\ i < p /\ M[i] \in ledger[g].tables
      BY <1>1, <2>1 DEF PurgeInv, P1, p
    <3>2. i < p + 1
      BY <1>1, <3>1
    <3> QED  BY <3>1, <3>2
  <2>2. CASE \E g \in DemoGroups : x = <<M[p], g>> /\ M[p] \in ledger[g].tables
    <3>1. p < p + 1
      BY <1>1
    <3> QED  BY <1>1, <2>2, <3>1
  <2> QED  BY <1>1, <2>1, <2>2
<1>5. P2'
  <2> SUFFICES ASSUME NEW g \in DemoGroups, NEW i \in 1..6, NEW j \in 1..6, i <= j, j < p + 1,
                      <<M[i], g>> \in gone', M[j] \in ledger[g].tables
               PROVE  <<M[j], g>> \in gone'
    BY <1>1 DEF P2
  <2>1. CASE j = p
    BY <1>2, <2>1
  <2>2. CASE j < p
    <3>1. i # p
      BY <1>1, <2>2
    <3>2. M[i] # M[p]
      BY <1>1, <3>1, ModelsDiffer
    <3>3. <<M[i], g>> \in gone
      BY <1>2, <3>2
    <3>4. <<M[j], g>> \in gone
      BY <1>1, <2>2, <3>3 DEF PurgeInv, P2, p
    <3> QED  BY <1>2, <3>4
  <2> QED  BY <1>1, <2>1, <2>2
<1>6. P3'
  <2> SUFFICES ASSUME NEW g \in DemoGroups, NEW child \in Tables, NEW table \in Tables,
                      <<child, table>> \in References, <<table, g>> \in gone',
                      child \in ledger[g].tables
               PROVE  <<child, g>> \in gone'
    <3>1. ledger' = ledger
      BY <1>1
    <3> QED  BY <3>1 DEF P3
  <2>1. CASE <<table, g>> \in gone
    BY <1>1, <1>2, <2>1 DEF PurgeInv, P3
  <2>2. CASE table = M[p] /\ M[p] \in ledger[g].tables
    <3>1. child \in ledger["seed"].tables \cup ledger["sim"].tables
      BY DEF DemoGroups
    <3>2. <<child, g>> \in gone
      BY <1>1, <2>2, <3>1 DEF Blocked
    <3> QED  BY <1>2, <3>2
  <2> QED  BY <1>2, <2>1, <2>2
<1>7. P4'
  <2> SUFFICES ASSUME ~raced, NEW g \in DemoGroups, NEW i \in 1..6, i < p + 1,
                      M[i] \in ledger[g].tables
               PROVE  <<M[i], g>> \in gone'
    BY <1>1 DEF P4
  <2>1. CASE i = p
    BY <1>2, <2>1
  <2>2. CASE i < p
    <3>1. <<M[i], g>> \in gone
      BY <1>1, <2>2 DEF PurgeInv, P4, p
    <3> QED  BY <1>2, <3>1
  <2> QED  BY <1>1, <2>1, <2>2
<1>8. purging' \in 0..7 /\ purging' # 0
  BY <1>1
<1> QED  BY <1>1, <1>3, <1>4, <1>5, <1>6, <1>7, <1>8 DEF PurgeInv

LEMMA PurgeRefusedPurge == ASSUME ShowInv, PurgeRefused PROVE PurgeInv'
<1>1. /\ PurgeInv /\ purging \in 1..6 /\ Blocked(M[purging]) /\ purging' = 0 /\ gone' = {}
      /\ UNCHANGED <<simVars, ledger, raced>>
  BY ModelsList DEF ShowInv, PurgeRefused, M
<1>2. raced
  <2>1. PICK g \in DemoGroups, child \in Tables :
          /\ <<child, M[purging]>> \in References
          /\ child \in ledger[g].tables /\ <<child, g>> \notin gone
    BY <1>1 DEF Blocked, References, Tables
  <2>2. PICK i \in 1..6 : M[i] = child /\ i < purging
    BY <1>1, <2>1, ChildFirst
  <2> QED  BY <1>1, <2>1, <2>2 DEF PurgeInv, P4
<1>3. \A g \in DemoGroups : Whole(g)'
  BY <1>1, GroupsStayWhole
<1>4. P1' /\ P2' /\ P3'
  <2>1. P1'
    BY <1>1 DEF P1
  <2>2. P2'
    BY <1>1 DEF P2
  <2>3. P3'
    BY <1>1 DEF P3
  <2> QED  BY <2>1, <2>2, <2>3
<1>5. P4'
  <2>1. \A i \in 1..6 : ~(i < purging')
    BY <1>1
  <2> QED  BY <2>1 DEF P4
<1> QED  BY <1>1, <1>2, <1>3, <1>4, <1>5 DEF PurgeInv

(* Of a group with a call a finished purge has deleted nothing or every row.   *)
LEMMA AllOrNothing ==
  ASSUME PurgeInv, purging = 7, NEW g \in DemoGroups, Sound(ledger[g]),
         "call" \in ledger[g].tables, NEW some, <<some, g>> \in gone
  PROVE  \A table \in ledger[g].tables : <<table, g>> \in gone
<1>1. {"author", "tool"} \subseteq ledger[g].tables /\ ledger[g].tables \subseteq Tables
  BY DEF Sound
<1>2. PICK i \in 1..6 : M[i] = some
  BY DEF PurgeInv, P1
<1>3. <<"author", g>> \in gone
  <2>1. i <= 6 /\ 6 < purging /\ 6 \in 1..6 /\ M[6] = "author"
    BY ModelsList
  <2>2. <<M[i], g>> \in gone /\ M[6] \in ledger[g].tables
    BY <1>1, <1>2, <2>1
  <2>3. <<M[6], g>> \in gone
    BY <2>1, <2>2 DEF PurgeInv, P2
  <2> QED  BY <2>1, <2>3
<1>4. <<"tool", g>> \in gone
  BY <1>1, <1>3 DEF PurgeInv, P3, References, Tables
<1>5. <<"call", g>> \in gone
  BY <1>1, <1>4 DEF PurgeInv, P3, References, Tables
<1>6. "receipt" \in ledger[g].tables => <<"receipt", g>> \in gone
  BY <1>1, <1>5 DEF PurgeInv, P3, References, Tables
<1>7. "batch" \in ledger[g].tables => <<"batch", g>> \in gone
  <2>1. 2 <= 3 /\ 3 < purging /\ 2 \in 1..6 /\ 3 \in 1..6 /\ M[2] = "call" /\ M[3] = "batch"
    BY ModelsList
  <2>2. <<M[2], g>> \in gone
    BY <1>5, <2>1
  <2>3. M[3] \in ledger[g].tables => <<M[3], g>> \in gone
    BY <2>1, <2>2 DEF PurgeInv, P2
  <2> QED  BY <2>1, <2>3
<1>8. "pay_session" \in ledger[g].tables => <<"pay_session", g>> \in gone
  <2>1. 2 <= 4 /\ 4 < purging /\ 2 \in 1..6 /\ 4 \in 1..6 /\ M[2] = "call" /\ M[4] = "pay_session"
    BY ModelsList
  <2>2. <<M[2], g>> \in gone
    BY <1>5, <2>1
  <2>3. M[4] \in ledger[g].tables => <<M[4], g>> \in gone
    BY <2>1, <2>2 DEF PurgeInv, P2
  <2> QED  BY <2>1, <2>3
<1> QED  BY <1>1, <1>3, <1>4, <1>5, <1>6, <1>7, <1>8 DEF Tables

LEMMA CommitPurgePurge == ASSUME ShowInv, CommitPurge PROVE PurgeInv'
<1> DEFINE D(g) == {table \in ledger[g].tables : <<table, g>> \in gone}
<1>1. /\ PurgeInv /\ RunInv /\ DeclinesInv /\ purging = 7 /\ purging' = 0 /\ gone' = {}
      /\ ledger' = [g \in Groups |-> Without(ledger[g], D(g))]
      /\ UNCHANGED <<simVars, refused, raced>>
  BY ModelsList DEF ShowInv, CommitPurge, M
<1>2. Live(ledger'["live"])
  <2>1. D("live") = {}
    <3>1. \A table : <<table, "live">> \notin gone
      BY <1>1 DEF PurgeInv, P1, DemoGroups
    <3> QED  BY <3>1
  <2>2. ledger'["live"] = Without(ledger["live"], {})
    BY <1>1, <2>1 DEF Groups
  <2> QED  BY <1>1, <2>2, WithoutNothing DEF PurgeInv, Live
<1>3. \A g \in DemoGroups : Whole(g)'
  <2> SUFFICES ASSUME NEW g \in DemoGroups PROVE Whole(g)'
    OBVIOUS
  <2>1. ledger'[g] = Without(ledger[g], D(g)) /\ Written(g)' = Written(g)
    BY <1>1, WrittenStays DEF DemoGroups, Groups
  <2>2. ASSUME NEW rows \in Written(g), "call" \notin rows.tables, NEW T \in SUBSET rows.tables,
               ledger[g] = Bare(T)
        PROVE  Whole(g)'
    <3>1. ledger'[g] = Bare(T \ D(g)) /\ T \ D(g) \in SUBSET rows.tables
      BY <2>1, <2>2, WithoutBare
    <3>2. ledger'[g] = [NoRows EXCEPT !.tables = T \ D(g)]
      BY <3>1, BareRows
    <3> QED  BY <2>1, <2>2, <3>1, <3>2 DEF Whole
  <2>3. CASE ledger[g] \in Written(g) /\ Sound(ledger[g]) /\ "call" \in ledger[g].tables
    <3>1. CASE D(g) = {}
      <4>1. ledger'[g] = ledger[g]
        BY <2>1, <2>3, <3>1, WithoutNothing DEF Sound
      <4> QED  BY <2>1, <2>3, <4>1 DEF Whole
    <3>2. CASE D(g) # {}
      <4>1. D(g) = ledger[g].tables
        BY <1>1, <2>3, <3>2, AllOrNothing
      <4>2. ledger'[g] = NoRows
        BY <2>1, <2>3, <4>1, WithoutAll, BareRows
      <4> QED  BY <4>2 DEF Whole
    <3> QED  BY <3>1, <3>2
  <2>4. CASE ledger[g] \in Written(g) /\ Sound(ledger[g]) /\ "call" \notin ledger[g].tables
    BY <2>2, <2>4 DEF Sound
  <2>5. CASE ledger[g] = Bare(ledger[g].tables) /\ ledger[g].tables = {}
    <3>1. ledger'[g] = Bare({} \ D(g))
      BY <2>1, <2>5, WithoutBare
    <3>2. ledger'[g] = NoRows
      BY <3>1, BareRows
    <3> QED  BY <3>2 DEF Whole
  <2>6. CASE /\ ledger[g] = Bare(ledger[g].tables)
             /\ \E rows \in Written(g) :
                  "call" \notin rows.tables /\ ledger[g].tables \subseteq rows.tables
    BY <2>2, <2>6
  <2>7. Whole(g)
    BY <1>1 DEF PurgeInv
  <2> HIDE DEF D
  <2> QED  BY <1>1, <2>3, <2>4, <2>5, <2>6, <2>7, WholeRows
<1>4. P1' /\ P2' /\ P3'
  <2>1. P1'
    BY <1>1 DEF P1
  <2>2. P2'
    BY <1>1 DEF P2
  <2>3. P3'
    BY <1>1 DEF P3
  <2> QED  BY <2>1, <2>2, <2>3
<1>5. P4'
  <2>1. \A i \in 1..6 : ~(i < purging')
    BY <1>1
  <2> QED  BY <2>1 DEF P4
<1>6. DOMAIN ledger' = Groups /\ ledger' = [g \in Groups |-> ledger'[g]]
  BY <1>1
<1> HIDE DEF D
<1> QED  BY <1>1, <1>2, <1>3, <1>4, <1>5, <1>6 DEF PurgeInv

LEMMA ShowStep == ASSUME ShowInv, [DashboardNext]_dashboardVars PROVE ShowInv'
<1>1. RunInv'
  BY RunStep DEF ShowInv
<1>2. DeclinesInv'
  <2>1. CASE [SimNext]_simVars
    BY <2>1, NextDeclines DEF ShowInv
  <2>2. CASE UNCHANGED <<args, records, channel, seen, cache, totals>>
    BY <2>2 DEF ShowInv, DeclinesInv
  <2> QED  BY <2>1, <2>2, RunSteps
<1>3. CASE DemoNext
  <2>1. ASSUME SimNext, UNCHANGED demoVars PROVE PurgeInv'
    BY <2>1, SimPurge
  <2>2. ASSUME NEW seed \in Seeds, Seed(seed) PROVE PurgeInv'
    BY <2>2, SeedPurge
  <2>3. PurgeInv'
    BY <1>3, <2>1, <2>2, CaptureLivePurge, SettleLivePurge, PersistPurge, StartPurgePurge,
       DeleteTablePurge, PurgeRefusedPurge, CommitPurgePurge DEF DemoNext
  <2> QED  BY <1>1, <1>2, <2>3 DEF ShowInv
<1>4. CASE UNCHANGED showVars
  <2>1. UNCHANGED simVars /\ UNCHANGED demoVars
    BY <1>4 DEF showVars
  <2>2. PurgeInv'
    BY <2>1, SimPurge
  <2> QED  BY <1>1, <1>2, <2>2 DEF ShowInv
<1>5. CASE UNCHANGED dashboardVars
  BY <1>4, <1>5 DEF dashboardVars
<1> QED
  BY <1>3, <1>4, <1>5 DEF DashboardNext, Write, Open, ReadFirst, ReadSecond, ClosePage

LEMMA ShowInit == ASSUME DashboardInit PROVE ShowInv
<1>1. DemoInit /\ SimInit
  BY DEF DashboardInit, DemoInit
<1>2. RunInv
  <2>1. SimInv
    BY <1>1 DEF SimInit, SimInv, Shaped
  <2> QED  BY <1>1, <2>1, InitRows, InitPaths, InitNonces DEF RunInv
<1>3. DeclinesInv
  BY <1>1 DEF SimInit, DeclinesInv
<1>4. /\ ledger = [g \in Groups |-> IF g = "live" THEN Bare({"author", "tool"}) ELSE NoRows]
      /\ purging = 0 /\ gone = {} /\ refused = FALSE
  BY <1>1, BareRows DEF DemoInit
<1>5. ledger["live"] = Bare({"author", "tool"}) /\ \A g \in DemoGroups : ledger[g] = NoRows
  BY <1>4 DEF Groups, DemoGroups
<1>6. Live(ledger["live"])
  BY <1>5 DEF Live, Shape, Bare
<1>7. \A g \in DemoGroups : Whole(g)
  BY <1>5 DEF Whole
<1>8. P1 /\ P2 /\ P3
  BY <1>4 DEF P1, P2, P3
<1>9. P4
  <2>1. \A i \in 1..6 : ~(i < purging)
    BY <1>4
  <2> QED  BY <2>1 DEF P4
<1>10. DOMAIN ledger = Groups /\ ledger = [g \in Groups |-> ledger[g]]
  BY <1>4
<1>11. PurgeInv
  BY <1>4, <1>6, <1>7, <1>8, <1>9, <1>10 DEF PurgeInv
<1> QED  BY <1>2, <1>3, <1>11 DEF ShowInv

(* A demo group's rows are all there as they were written, or none is, whatever *)
(* is written and purged in between; only a purge that something was written    *)
(* beside is ever refused.                                                      *)
THEOREM PurgesAreWhole == DashboardSpec => []PurgeIsWhole
<1>1. DashboardInit => ShowInv
  BY ShowInit
<1>2. ShowInv /\ [DashboardNext]_dashboardVars => ShowInv'
  BY ShowStep
<1>3. ShowInv => PurgeIsWhole
  BY DEF ShowInv, PurgeInv, PurgeIsWhole
<1> QED  BY <1>1, <1>2, <1>3, PTL DEF DashboardSpec

-----------------------------------------------------------------------------
(* What a page shows *)

\* What a page half read would read now.
Second == IF view.page = "tools" THEN Of(view.exclude, Aggregates) ELSE NoPage.second
ViewInv ==
  /\ DOMAIN view = DOMAIN NoPage
  /\ view.at = "half" /\ ~view.written => view.first = Second
  /\ view.at = "shown" /\ ~view.written => view.first = view.second
  /\ view.load # NoFigure => ledger["live"].gross > 0

(* In every group the tools' counters are the sums of the calls.               *)
LEMMA CountersAgree ==
  ASSUME ShowInv, NEW g \in Groups PROVE Counters(ledger[g]) = Aggregates(ledger[g])
<1>1. /\ ledger[g].counterCalls = ledger[g].billable
      /\ ledger[g].counterCaptured = ledger[g].captured
  <2>1. CASE g = "live"
    BY <2>1 DEF ShowInv, PurgeInv, Live
  <2>2. CASE g \in DemoGroups
    <3>1. Sound(ledger[g]) \/ ledger[g] = Bare(ledger[g].tables)
      BY <2>2, WholeRows DEF ShowInv, PurgeInv
    <3> QED  BY <3>1 DEF Sound, Bare
  <2> QED  BY <2>1, <2>2 DEF Groups, DemoGroups
<1> QED  BY <1>1 DEF Counters, Aggregates

(* What real batches have collected never shrinks.                             *)
LEMMA GrossGrows ==
  ASSUME ShowInv, ShowInv', DemoNext PROVE ledger'["live"].gross >= ledger["live"].gross
<1>1. Live(ledger["live"]) /\ DOMAIN ledger = Groups /\ P1 /\ "live" \in Groups
  BY DEF ShowInv, PurgeInv, Groups
<1>2. CASE CaptureLive
  <2>1. ledger'["live"].gross = ledger["live"].gross
    BY <1>1, <1>2 DEF CaptureLive, Committed, Live, Shape
  <2> QED  BY <1>1, <2>1 DEF Live
<1>3. CASE SettleLive
  <2>1. ledger'["live"].gross = ledger["live"].captured
    BY <1>1, <1>3 DEF SettleLive, Committed, Live, Shape
  <2> QED  BY <1>1, <2>1 DEF Live
<1>4. CASE CommitPurge
  <2>1. ledger'["live"].gross = ledger["live"].gross
    <3>1. {table \in ledger["live"].tables : <<table, "live">> \in gone} = {}
      BY <1>1 DEF P1, DemoGroups
    <3>2. ledger'["live"] = Without(ledger["live"], {})
      BY <1>1, <1>4, <3>1 DEF CommitPurge
    <3> QED  BY <3>2 DEF Without
  <2> QED  BY <1>1, <2>1 DEF Live
<1>5. ASSUME ledger'["live"] = ledger["live"] PROVE ledger'["live"].gross >= ledger["live"].gross
  BY <1>1, <1>5 DEF Live
<1>6. CASE \E seed \in Seeds : Seed(seed)
  <2>1. ledger'["live"] = ledger["live"]
    BY <1>1, <1>6 DEF Seed, Committed
  <2> QED  BY <1>5, <2>1
<1>7. CASE Persist
  <2>1. ledger'["live"] = ledger["live"]
    BY <1>1, <1>7 DEF Persist, Committed
  <2> QED  BY <1>5, <2>1
<1>8. CASE UNCHANGED ledger
  BY <1>5, <1>8
<1> QED
  BY <1>2, <1>3, <1>4, <1>6, <1>7, <1>8
  DEF DemoNext, demoVars, StartPurge, DeleteTable, PurgeRefused

LEMMA ReadFirstView ==
  ASSUME ShowInv, ViewInv, NEW exclude \in BOOLEAN, ReadFirst(exclude) PROVE ViewInv'
<1>1. /\ view' = [view EXCEPT !.at = "half", !.exclude = exclude, !.written = FALSE,
            !.load = NoFigure, !.second = NoPage.second,
            !.first = IF view.page = "tools" THEN Of(exclude, Counters)
                      ELSE NoPage.first]
      /\ DOMAIN view = {"at", "page", "present", "exclude", "load", "first", "second", "written"}
      /\ ledger' = ledger
  BY DEF ReadFirst, ViewInv, NoPage, showVars, demoVars
<1>2. Of(exclude, Counters) = Of(exclude, Aggregates)
  BY CountersAgree DEF Of, Seen
<1>3. NoPage.first = NoPage.second
  BY DEF NoPage
<1>4. /\ DOMAIN view' = DOMAIN view /\ view'.at = "half" /\ view'.exclude = exclude
      /\ view'.load = NoFigure /\ view'.page = view.page
      /\ view'.first = IF view.page = "tools" THEN Of(exclude, Counters)
                       ELSE NoPage.first
  BY <1>1
<1>5. Second' = IF view.page = "tools" THEN Of(exclude, Aggregates) ELSE NoPage.second
  BY <1>1, <1>4 DEF Second, NoPage, Of, Seen, Aggregates
<1>6. view'.first = Second'
  BY <1>2, <1>3, <1>4, <1>5
<1>7. view'.at # "shown"
  BY <1>4
<1> QED  BY <1>4, <1>6, <1>7 DEF ViewInv

LEMMA ReadSecondView == ASSUME ShowInv, ViewInv, ReadSecond PROVE ViewInv'
<1>1. /\ view' = [view EXCEPT !.at = "shown",
            !.second = IF view.page = "tools" THEN Of(view.exclude, Aggregates)
                       ELSE NoPage.second,
            !.load = IF view.page = "overview" THEN RealisedLoad ELSE NoFigure]
      /\ DOMAIN view = {"at", "page", "present", "exclude", "load", "first", "second", "written"}
      /\ ledger' = ledger /\ view.at = "half"
  BY DEF ReadSecond, ViewInv, NoPage, showVars, demoVars
<1>2. /\ DOMAIN view' = DOMAIN view /\ view'.at = "shown" /\ view'.first = view.first
      /\ view'.second = Second /\ view'.written = view.written
      /\ view'.load = IF view.page = "overview" THEN RealisedLoad ELSE NoFigure
  BY <1>1 DEF Second
<1>3. view.first = Second \/ view.written
  BY <1>1 DEF ViewInv
<1>4. ~view'.written => view'.first = view'.second
  BY <1>2, <1>3
<1>5. view'.load # NoFigure => ledger'["live"].gross > 0
  <2>1. Live(ledger["live"])
    BY DEF ShowInv, PurgeInv
  <2>2. RealisedLoad # NoFigure => ledger["live"].gross > 0
    BY <2>1 DEF RealisedLoad, Live
  <2> QED  BY <1>1, <1>2, <2>2
<1>6. view'.at # "half"
  BY <1>2
<1> QED  BY <1>2, <1>4, <1>5, <1>6 DEF ViewInv

LEMMA WriteView == ASSUME ShowInv, ShowInv', ViewInv, Write PROVE ViewInv'
<1>1. /\ view' = [view EXCEPT !.written = view.written \/ (view.at = "half" /\ ledger' # ledger)]
      /\ DOMAIN view = {"at", "page", "present", "exclude", "load", "first", "second", "written"}
      /\ DemoNext
  BY DEF Write, ViewInv, NoPage
<1>2. /\ DOMAIN view' = DOMAIN view /\ view'.at = view.at /\ view'.page = view.page
      /\ view'.exclude = view.exclude /\ view'.load = view.load /\ view'.first = view.first
      /\ view'.second = view.second
  BY <1>1
<1>3. view'.written = (view.written \/ (view.at = "half" /\ ledger' # ledger))
  BY <1>1
<1>4. ~view'.written => ~view.written /\ ~(view.at = "half" /\ ledger' # ledger)
  BY <1>3, Zenon
<1>5. view'.at = "half" /\ ~view'.written => view'.first = Second'
  <2> SUFFICES ASSUME view'.at = "half", ~view'.written PROVE view'.first = Second'
    OBVIOUS
  <2>1. view.first = Second /\ ledger' = ledger
    BY <1>2, <1>4 DEF ViewInv
  <2>2. Second' = Second
    BY <1>2, <2>1 DEF Second, NoPage, Of, Seen, Aggregates
  <2> QED  BY <1>2, <2>1, <2>2
<1>6. view'.at = "shown" /\ ~view'.written => view'.first = view'.second
  BY <1>2, <1>4 DEF ViewInv
<1>7. view'.load # NoFigure => ledger'["live"].gross > 0
  <2> SUFFICES ASSUME view'.load # NoFigure PROVE ledger'["live"].gross > 0
    OBVIOUS
  <2>1. ledger["live"].gross > 0 /\ ledger'["live"].gross >= ledger["live"].gross
    BY <1>1, <1>2, GrossGrows DEF ViewInv
  <2>2. Live(ledger["live"]) /\ Live(ledger'["live"])
    BY DEF ShowInv, PurgeInv, Live, Shape
  <2> QED  BY <2>1, <2>2 DEF Live
<1> QED  BY <1>1, <1>2, <1>5, <1>6, <1>7 DEF ViewInv

(* A page that has read nothing states nothing.                               *)
LEMMA NoPageView ==
  ASSUME \/ view' = NoPage
         \/ \E page, present :
              view' = [NoPage EXCEPT !.at = "open", !.page = page, !.present = present]
  PROVE  ViewInv'
<1>1. PICK none : none = NoPage
  OBVIOUS
<1>2. /\ DOMAIN none = DOMAIN NoPage /\ none.load = NoFigure
      /\ none.at = "closed"
      /\ DOMAIN none = {"at", "page", "present", "exclude", "load", "first", "second", "written"}
  BY <1>1 DEF NoPage
<1>3. \/ view' = none
      \/ \E page, present :
           view' = [none EXCEPT !.at = "open", !.page = page, !.present = present]
  BY <1>1
<1>4. /\ DOMAIN view' = DOMAIN NoPage /\ view'.load = NoFigure
      /\ view'.at # "half" /\ view'.at # "shown"
  BY <1>2, <1>3
<1> QED  BY <1>4 DEF ViewInv

LEMMA ViewStep ==
  ASSUME ShowInv, ShowInv', ViewInv, [DashboardNext]_dashboardVars PROVE ViewInv'
<1>1. CASE Write
  BY <1>1, WriteView
<1>2. CASE \E page \in {"overview", "tools"} : Open(page)
  BY <1>2, NoPageView DEF Open
<1>3. CASE \E exclude \in BOOLEAN : ReadFirst(exclude)
  BY <1>3, ReadFirstView
<1>4. CASE ReadSecond
  BY <1>4, ReadSecondView
<1>5. CASE ClosePage
  BY <1>5, NoPageView DEF ClosePage
<1>6. CASE UNCHANGED dashboardVars
  BY <1>6 DEF ViewInv, Second, NoPage, Of, Seen, Aggregates, dashboardVars, showVars, demoVars
<1> QED  BY <1>1, <1>2, <1>3, <1>4, <1>5, <1>6 DEF DashboardNext

(* A tools page whose reads no commit fell between shows counters that agree   *)
(* with the calls, and a realised fee load is stated only once a real batch    *)
(* has settled.                                                                *)
THEOREM FiguresAreTrue == DashboardSpec => []FiguresAreHonest
<1> DEFINE Inv == ShowInv /\ ViewInv
<1>1. DashboardInit => Inv
  <2> SUFFICES ASSUME DashboardInit PROVE ShowInv /\ ViewInv
    OBVIOUS
  <2>1. view = NoPage
    BY DEF DashboardInit
  <2>2. ViewInv
    BY <2>1 DEF ViewInv, NoPage
  <2> QED  BY <2>2, ShowInit
<1>2. Inv /\ [DashboardNext]_dashboardVars => Inv'
  BY ShowStep, ViewStep
<1>3. Inv => FiguresAreHonest
  BY DEF ViewInv, FiguresAreHonest
<1> QED  BY <1>1, <1>2, <1>3, PTL DEF DashboardSpec
=============================================================================
