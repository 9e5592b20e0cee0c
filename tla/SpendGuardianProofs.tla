------------------------- MODULE SpendGuardianProofs -------------------------
(***************************************************************************)
(* Theorems of SpendGuardian, for every policy, every set of quotes and    *)
(* any number of concurrent calls.                                         *)
(***************************************************************************)
EXTENDS SpendGuardian, TotalsProofs

\* What the session budget rests on: a call that may be reserved, or was, has a
\* price, and only calls between phase 2 and their end hold a reservation.
Priced ==
  \A c \in Calls :
    pc[c] \in {"asking", "reserved", "signed"} \/ signed[c] => offer[c].amount \in Nat

Inv ==
  /\ TypeOK
  /\ Priced
  /\ ReservationsBelongToLiveCalls
  /\ SessionBudgetHolds

-----------------------------------------------------------------------------
(* The journal's operations *)

(* Opening a reservation for a call that has none adds its ceiling to the     *)
(* exposure.                                                                  *)
LEMMA ReserveEffect ==
  ASSUME TypeOK, NEW c \in Calls, offer[c].amount \in Nat, reserved[c] = 0, Reserve(c)
  PROVE  /\ SessionExposure' = SessionExposure + offer[c].amount
         /\ reserved' = [reserved EXCEPT ![c] = offer[c].amount]
         /\ day' \in Nat /\ daily' \in Int /\ committed' \in Nat /\ excess' \in Nat
         /\ file' \in [day : Nat, daily : Int]
         /\ charge' \in [Calls -> Nat] /\ chargeDay' \in [Calls -> Nat]
         /\ straddled' \in BOOLEAN /\ excess' = excess
<1>1. Total(Calls, reserved') = Total(Calls, reserved) + offer[c].amount
  <2>0. /\ reserved \in [Calls -> Nat] /\ reserved' \in [Calls -> Nat]
        /\ reserved'[c] = offer[c].amount
        /\ \A d \in Calls \ {c} : reserved'[d] = reserved[d]
    BY DEF TypeOK, Reserve
  <2>1. Total(Calls, reserved') = Total(Calls, reserved) - reserved[c] + reserved'[c]
    BY <2>0, CallsFinite, TotalUpdate
  <2>2. Total(Calls, reserved) \in Nat
    BY CallsFinite, TotalNat DEF TypeOK
  <2> QED  BY <2>0, <2>1, <2>2
<1>2. Total(Calls, reserved) \in Nat
  BY CallsFinite, TotalNat DEF TypeOK
<1>3. SessionExposure' = SessionExposure + offer[c].amount
  BY <1>1, <1>2 DEF TypeOK, Reserve, SessionExposure
<1> QED  BY <1>3 DEF TypeOK, Reserve, DailyExposure

(* Closing one trades the ceiling for what is booked; the exposure grows only *)
(* by what the server reports above the ceiling.                              *)
LEMMA ResolveEffect ==
  ASSUME TypeOK, NEW c \in Calls, NEW paid, NEW captured,
         reserved[c] > 0 => captured \in Nat,
         Resolve(c, paid, captured)
  PROVE  /\ SessionExposure' - excess' <= SessionExposure - excess
         /\ SessionExposure' \in Nat /\ SessionExposure \in Nat
         /\ reserved' = [reserved EXCEPT ![c] = 0]
         /\ day' \in Nat /\ daily' \in Int /\ committed' \in Nat /\ excess' \in Nat
         /\ file' \in [day : Nat, daily : Int]
         /\ charge' \in [Calls -> Nat] /\ chargeDay' \in [Calls -> Nat]
         /\ straddled' \in BOOLEAN
<1>0. Total(Calls, reserved) \in Nat
  BY CallsFinite, TotalNat DEF TypeOK
<1>1. CASE reserved[c] = 0
  <2>1. reserved' = [reserved EXCEPT ![c] = 0]
    BY <1>1 DEF TypeOK, Resolve, journalVars
  <2>2. UNCHANGED <<journalVars, ghostVars>>
    BY <1>1 DEF Resolve
  <2> QED
    BY <1>0, <2>1, <2>2 DEF TypeOK, journalVars, ghostVars, SessionExposure
<1>2. CASE reserved[c] # 0
  <2>0. reserved[c] > 0 /\ captured \in Nat
    BY <1>2 DEF TypeOK
  <2>1. reserved' = [reserved EXCEPT ![c] = 0]
    BY <1>2 DEF Resolve, Release, Commit, CloseReservation
  <2>2. Total(Calls, reserved') = Total(Calls, reserved) - reserved[c]
    <3>1. /\ reserved \in [Calls -> Nat] /\ reserved' \in [Calls -> Nat]
          /\ reserved'[c] = 0
          /\ \A d \in Calls \ {c} : reserved'[d] = reserved[d]
      BY <2>1 DEF TypeOK
    <3>2. Total(Calls, reserved') = Total(Calls, reserved) - reserved[c] + reserved'[c]
      BY <3>1, CallsFinite, TotalUpdate
    <3> QED  BY <3>1, <3>2, <1>0
  <2>3. Total(Calls, reserved') \in Nat
    BY <2>1, CallsFinite, TotalNat DEF TypeOK
  <2>4. CASE Release(c)
    BY <1>0, <2>0, <2>1, <2>2, <2>3, <2>4
       DEF TypeOK, Release, CloseReservation, SessionExposure
  <2>5. CASE Commit(c, captured)
    BY <1>0, <2>0, <2>1, <2>2, <2>3, <2>5
       DEF TypeOK, Commit, CloseReservation, SessionExposure
  <2> QED  BY <1>2, <2>4, <2>5 DEF Resolve
<1> QED  BY <1>1, <1>2

(* Reading the daily remainder touches neither the reservations nor what is   *)
(* committed.                                                                 *)
LEMMA ReadDailyEffect ==
  ASSUME TypeOK, ReadDaily
  PROVE  /\ day' \in Nat /\ daily' \in Int /\ file' \in [day : Nat, daily : Int]
         /\ UNCHANGED <<committed, reserved>>
BY DEF TypeOK, ReadDaily, DailyExposure

(* A call that fits what remains of the session budget leaves it standing.    *)
LEMMA FitsSession ==
  ASSUME TypeOK, SessionBudgetHolds, NEW amount \in Nat, ~OverSession(amount),
         policy' = policy, SessionExposure' = SessionExposure + amount, excess' = excess
  PROVE  SessionBudgetHolds'
<1>1. SessionExposure \in Nat
  BY CallsFinite, TotalNat DEF TypeOK, SessionExposure
<1>2. policy.session \in Nat \cup {NoLimit}
  BY PolicyShape DEF TypeOK, Limit
<1> QED  BY <1>1, <1>2 DEF TypeOK, SessionBudgetHolds, OverSession, Remaining

-----------------------------------------------------------------------------
(* Every action preserves the invariant *)

(* An action that leaves reservations, commitments and call ends alone keeps  *)
(* the session budget.                                                        *)
LEMMA SameExposure ==
  ASSUME SessionBudgetHolds, UNCHANGED <<policy, committed, reserved, excess>>
  PROVE  SessionBudgetHolds'
BY DEF SessionBudgetHolds, SessionExposure

LEMMA InitInv ==
  ASSUME Init PROVE Inv
<1>1. Total(Calls, reserved) = 0
  BY TotalZero DEF Init
<1>2. SessionBudgetHolds
  BY <1>1, PolicyShape DEF Init, SessionBudgetHolds, SessionExposure, Limit
<1>0. up \in BOOLEAN /\ frozen \in BOOLEAN /\ straddled \in BOOLEAN
  BY Zenon DEF Init
<1>3. TypeOK
  BY <1>0 DEF Init, TypeOK, PCs, Offer
<1>4. Priced /\ ReservationsBelongToLiveCalls
  BY DEF Init, Priced, ReservationsBelongToLiveCalls
<1> QED  BY <1>2, <1>3, <1>4 DEF Inv

LEMMA StartInv ==
  ASSUME Inv, NEW c \in Calls, Start(c) PROVE Inv'
<1>1. SessionBudgetHolds'
  BY SameExposure DEF Inv, Start, journalVars, ghostVars
<1> QED
  BY <1>1 DEF Inv, Start, Enter, TypeOK, Priced, ReservationsBelongToLiveCalls,
              PCs, Running, journalVars, ghostVars, serverVars

LEMMA ScreenInv ==
  ASSUME Inv, NEW c \in Calls, NEW q \in Quotes, Screen(c, q) PROVE Inv'
<1>1. /\ day' \in Nat /\ daily' \in Int /\ file' \in [day : Nat, daily : Int]
      /\ UNCHANGED <<committed, reserved>>
  BY ReadDailyEffect DEF Inv, TypeOK, Screen, journalVars
<1>2. SessionBudgetHolds'
  BY <1>1, SameExposure DEF Inv, Screen, ghostVars
<1>3. pc[c] = "called" /\ pc' \in [Calls -> PCs] /\ offer' \in [Calls -> Offer]
  BY QuoteShape DEF Inv, TypeOK, Screen, Enter, PCs, Running
<1>4. /\ pc'[c] \in {"denied", "screened"} /\ \A d \in Calls \ {c} : pc'[d] = pc[d]
      /\ \A d \in Calls \ {c} : offer'[d] = offer[d]
  BY DEF Inv, TypeOK, Screen, Enter
<1>5. ~signed[c]
  BY <1>3 DEF Inv, TypeOK, ReservationsBelongToLiveCalls
<1> QED
  BY <1>1, <1>2, <1>3, <1>4, <1>5
     DEF Inv, Screen, TypeOK, Priced, ReservationsBelongToLiveCalls, ghostVars, serverVars

LEMMA AuthorizeDenyInv ==
  ASSUME Inv, NEW c \in Calls, AuthorizeDeny(c) PROVE Inv'
<1>1. /\ day' \in Nat /\ daily' \in Int /\ file' \in [day : Nat, daily : Int]
      /\ UNCHANGED <<committed, reserved>>
  BY ReadDailyEffect DEF Inv, TypeOK, AuthorizeDeny, journalVars
<1>2. SessionBudgetHolds'
  BY <1>1, SameExposure DEF Inv, AuthorizeDeny, ghostVars
<1>3. frozen' \in BOOLEAN
  BY DEF Inv, TypeOK, AuthorizeDeny
<1> QED
  BY <1>1, <1>2, <1>3
     DEF Inv, AuthorizeDeny, Enter, TypeOK, Priced, ReservationsBelongToLiveCalls,
         PCs, Running, ghostVars, serverVars

LEMMA AuthorizeAskInv ==
  ASSUME Inv, NEW c \in Calls, AuthorizeAsk(c) PROVE Inv'
<1>1. /\ day' \in Nat /\ daily' \in Int /\ file' \in [day : Nat, daily : Int]
      /\ UNCHANGED <<committed, reserved>>
  BY ReadDailyEffect DEF Inv, AuthorizeAsk
<1>2. SessionBudgetHolds'
  BY <1>1, SameExposure DEF Inv, AuthorizeAsk, ghostVars
<1>3. offer[c].amount \in Nat
  BY DEF Inv, TypeOK, AuthorizeAsk, WithinBudgets, StaticDeny, Offer
<1> QED
  BY <1>1, <1>2, <1>3
     DEF Inv, AuthorizeAsk, Enter, TypeOK, Priced, ReservationsBelongToLiveCalls,
         PCs, Running, ghostVars, serverVars

(* Both ways to a reservation: phase 2, and the approval of an escalation.    *)
LEMMA ReserveInv ==
  ASSUME Inv, NEW c \in Calls, pc[c] \in {"screened", "asking"},
         offer[c].amount \in Nat, ~OverSession(offer[c].amount),
         Reserve(c), Enter(c, "reserved"),
         UNCHANGED <<policy, today, up, frozen, signatures, offer, before, signed, serverVars>>
  PROVE  Inv'
<1>1. reserved[c] = 0
  BY DEF Inv, TypeOK, ReservationsBelongToLiveCalls
<1>2. /\ SessionExposure' = SessionExposure + offer[c].amount
      /\ reserved' = [reserved EXCEPT ![c] = offer[c].amount]
      /\ day' \in Nat /\ daily' \in Int /\ committed' \in Nat /\ excess' \in Nat
      /\ file' \in [day : Nat, daily : Int]
      /\ charge' \in [Calls -> Nat] /\ chargeDay' \in [Calls -> Nat]
      /\ straddled' \in BOOLEAN /\ excess' = excess
  BY <1>1, ReserveEffect DEF Inv
<1>3. SessionBudgetHolds'
  BY <1>2, FitsSession DEF Inv
<1> QED
  BY <1>2, <1>3
     DEF Inv, Enter, TypeOK, Priced, ReservationsBelongToLiveCalls, PCs, Running, serverVars

LEMMA SignInv ==
  ASSUME Inv, NEW c \in Calls, Sign(c) PROVE Inv'
<1>1. SessionBudgetHolds'
  BY SameExposure DEF Inv, Sign, journalVars, ghostVars
<1> QED
  BY <1>1 DEF Inv, Sign, Enter, TypeOK, Priced, ReservationsBelongToLiveCalls,
              PCs, Running, journalVars, ghostVars, serverVars

LEMMA AnswerDenyInv ==
  ASSUME Inv, NEW c \in Calls, NEW approved \in BOOLEAN, AnswerDeny(c, approved) PROVE Inv'
<1>1. SessionBudgetHolds'
  BY SameExposure DEF Inv, AnswerDeny, journalVars, ghostVars
<1> QED
  BY <1>1 DEF Inv, AnswerDeny, Enter, TypeOK, Priced, ReservationsBelongToLiveCalls,
              PCs, Running, journalVars, ghostVars, serverVars

LEMMA SettleInv ==
  ASSUME Inv, NEW c \in Calls, signed[c], NEW amount \in 0..offer[c].amount, Settle(c, amount)
  PROVE  Inv'
<1>1. SessionBudgetHolds'
  BY SameExposure DEF Inv, Settle, journalVars, ghostVars
<1>2. amount \in Nat
  BY DEF Inv, Priced
<1> QED
  BY <1>1, <1>2 DEF Inv, Settle, TypeOK, Priced, ReservationsBelongToLiveCalls,
                    journalVars, ghostVars

(* A bound on a - x carries over when a - x does not grow. *)
LEMMA CapCarries ==
  ASSUME NEW cap \in Nat, NEW a \in Nat, NEW x \in Nat, NEW b \in Nat, NEW y \in Nat,
         a <= cap + x, b - y <= a - x
  PROVE  b <= cap + y
OBVIOUS

(* Both ends of a call: a paid result and anything else.                      *)
LEMMA ResolveInv ==
  ASSUME Inv, NEW c \in Calls, pc[c] \in Running, NEW paid, NEW captured,
         reserved[c] > 0 => captured \in Nat,
         Resolve(c, paid, captured), Enter(c, "done"), frozen' \in BOOLEAN,
         UNCHANGED <<policy, today, up, signatures, offer, before, signed, serverVars>>
  PROVE  Inv'
<1>1. /\ SessionExposure' - excess' <= SessionExposure - excess
      /\ SessionExposure' \in Nat /\ SessionExposure \in Nat
      /\ reserved' = [reserved EXCEPT ![c] = 0]
      /\ day' \in Nat /\ daily' \in Int /\ committed' \in Nat /\ excess' \in Nat
      /\ file' \in [day : Nat, daily : Int]
      /\ charge' \in [Calls -> Nat] /\ chargeDay' \in [Calls -> Nat]
      /\ straddled' \in BOOLEAN
  BY ResolveEffect DEF Inv
<1>2. SessionBudgetHolds'
  <2>1. policy.session \in Nat \cup {NoLimit} /\ policy' = policy
    BY PolicyShape DEF Inv, TypeOK, Limit
  <2>2. excess \in Nat /\ (policy.session # NoLimit => SessionExposure <= policy.session + excess)
    BY DEF Inv, TypeOK, SessionBudgetHolds
  <2>3. policy.session # NoLimit => SessionExposure' <= policy.session + excess'
    <3>1. SUFFICES ASSUME policy.session # NoLimit
                   PROVE  SessionExposure' <= policy.session + excess'
      OBVIOUS
    <3>2. policy.session \in Nat /\ SessionExposure <= policy.session + excess
      BY <2>1, <2>2, <3>1
    <3>3. /\ SessionExposure' - excess' <= SessionExposure - excess
          /\ SessionExposure' \in Nat /\ SessionExposure \in Nat /\ excess' \in Nat
      BY <1>1
    <3>4. excess \in Nat
      BY <2>2
    <3> QED  BY ONLY <3>2, <3>3, <3>4, CapCarries
  <2> QED  BY <2>1, <2>3 DEF SessionBudgetHolds
<1> QED
  BY <1>1, <1>2 DEF Inv, Enter, TypeOK, Priced, ReservationsBelongToLiveCalls,
                    PCs, Running, serverVars

LEMMA RespondInv ==
  ASSUME Inv, NEW c \in Calls, NEW report \in Reports, NEW receipt \in {"good", "bad", "none"},
         Respond(c, report, receipt)
  PROVE  Inv'
<1>1. Captured(c, report) \in Nat
  BY DEF Inv, TypeOK, Priced, Respond, Captured, Reports
<1>2. frozen' \in BOOLEAN
  BY DEF Inv, TypeOK, Respond
<1>3. pc[c] \in Running
  BY DEF Respond, Running
<1> QED  BY <1>1, <1>2, <1>3, ResolveInv DEF Respond

LEMMA AbortInv ==
  ASSUME Inv, NEW c \in Calls, Abort(c) PROVE Inv'
<1>1. reserved[c] > 0 => offer[c].amount \in Nat
  BY DEF Inv, Priced, ReservationsBelongToLiveCalls
<1>2. frozen' \in BOOLEAN
  BY DEF Inv, TypeOK, Abort
<1> QED  BY <1>1, <1>2, ResolveInv DEF Abort

LEMMA FreezeInv ==
  ASSUME Inv, Freeze \/ Unfreeze \/ Midnight PROVE Inv'
<1>1. SessionBudgetHolds'
  BY SameExposure DEF Inv, Freeze, Unfreeze, Midnight, journalVars, ghostVars
<1>0. up' \in BOOLEAN /\ frozen' \in BOOLEAN
  BY Zenon DEF Inv, TypeOK, Freeze, Unfreeze, Midnight
<1>2. TypeOK'
  BY <1>0 DEF Inv, Freeze, Unfreeze, Midnight, TypeOK, journalVars, ghostVars, serverVars
<1>3. Priced' /\ ReservationsBelongToLiveCalls'
  BY DEF Inv, Freeze, Unfreeze, Midnight, Priced, ReservationsBelongToLiveCalls, journalVars
<1> QED  BY <1>1, <1>2, <1>3 DEF Inv

LEMMA CrashInv ==
  ASSUME Inv, Crash PROVE Inv'
<1>1. Total(Calls, reserved') = 0
  BY TotalZero DEF Crash
<1>2. SessionBudgetHolds'
  BY <1>1, PolicyShape DEF Inv, TypeOK, Crash, SessionBudgetHolds, SessionExposure,
                           Limit, ghostVars
<1>0. up' \in BOOLEAN /\ frozen' \in BOOLEAN
  BY Zenon DEF Crash
<1>3. TypeOK'
  BY <1>0 DEF Inv, Crash, TypeOK, PCs, ghostVars, serverVars
<1>4. Priced' /\ ReservationsBelongToLiveCalls'
  BY DEF Inv, TypeOK, Crash, Priced, ReservationsBelongToLiveCalls
<1> QED  BY <1>2, <1>3, <1>4 DEF Inv

LEMMA RestartInv ==
  ASSUME Inv, NEW readable \in Readable, Restart(readable) PROVE Inv'
<1>1. SessionBudgetHolds'
  BY SameExposure DEF Inv, Restart, ghostVars
<1> QED
  BY <1>1 DEF Inv, Restart, TypeOK, Priced, ReservationsBelongToLiveCalls,
              ghostVars, serverVars

-----------------------------------------------------------------------------
(* The theorems *)

LEMMA NextInv ==
  ASSUME Inv, [Next]_vars PROVE Inv'
<1>1. ASSUME NEW c \in Calls, ClientStep(c) PROVE Inv'
  <2>1. CASE AuthorizeAllow(c)
    <3>1. offer[c].amount \in Nat
      BY <2>1 DEF Inv, TypeOK, AuthorizeAllow, WithinBudgets, StaticDeny, Offer
    <3> QED  BY <2>1, <3>1, ReserveInv DEF AuthorizeAllow, WithinBudgets
  <2>2. CASE Abort(c)
    BY <2>2, AbortInv
  <2> QED
    BY <1>1, <2>1, <2>2, ScreenInv, AuthorizeDenyInv, AuthorizeAskInv, SignInv, RespondInv
       DEF ClientStep
<1>2. ASSUME NEW c \in Calls, Answer(c) PROVE Inv'
  <2>1. CASE AnswerAllow(c)
    <3>1. offer[c].amount \in Nat
      BY <2>1 DEF Inv, Priced, AnswerAllow
    <3> QED  BY <2>1, <3>1, ReserveInv DEF AnswerAllow
  <2> QED  BY <1>2, <2>1, AnswerDenyInv DEF Answer
<1>3. CASE UNCHANGED vars
  <2>1. SessionBudgetHolds'
    BY <1>3, SameExposure DEF Inv, vars, journalVars, ghostVars
  <2> QED
    BY <1>3, <2>1 DEF Inv, vars, TypeOK, Priced, ReservationsBelongToLiveCalls,
                      journalVars, ghostVars, serverVars
<1> QED
  BY <1>1, <1>2, <1>3, StartInv, AbortInv, SettleInv, FreezeInv, CrashInv, RestartInv
     DEF Next

LEMMA Invariance == Spec => []Inv
<1>1. Init => Inv
  BY InitInv
<1>2. Inv /\ [Next]_vars => Inv'
  BY NextInv
<1> QED  BY <1>1, <1>2, PTL DEF Spec

(* The state of the Guardian, its journal and its calls is always well typed. *)
THEOREM TypeCorrect == Spec => []TypeOK
<1>1. Inv => TypeOK
  BY DEF Inv
<1> QED  BY <1>1, Invariance, PTL

(* However concurrent calls, escalations, crashes and over-reports interleave, *)
(* committed plus reserved never passes the session budget by more than what   *)
(* servers reported above their ceilings.                                      *)
THEOREM SessionBudget == Spec => []SessionBudgetHolds
<1>1. Inv => SessionBudgetHolds
  BY DEF Inv
<1> QED  BY <1>1, Invariance, PTL

(* A refused call is never signed, and a reservation never outlives its call.  *)
THEOREM RefusedCallsSignNothing == Spec => []ReservationsBelongToLiveCalls
<1>1. Inv => ReservationsBelongToLiveCalls
  BY DEF Inv
<1> QED  BY <1>1, Invariance, PTL

LEMMA FreezeStep ==
  ASSUME Inv, Next, NEW c \in Calls, frozen, pc[c] # "reserved", pc'[c] = "reserved"
  PROVE  pc[c] = "asking"
<1>1. ASSUME NEW d \in Calls, AuthorizeAllow(d) PROVE FALSE
  BY <1>1 DEF AuthorizeAllow, WithinBudgets, StaticDeny
<1>2. ASSUME NEW d \in Calls, AnswerAllow(d) PROVE pc[c] = "asking"
  BY <1>2 DEF Inv, TypeOK, AnswerAllow, Enter
<1>3. ASSUME NEW d \in Calls, NEW state, state # "reserved", Enter(d, state) PROVE FALSE
  BY <1>3 DEF Inv, TypeOK, Enter
<1>4. ASSUME NEW d \in Calls, ClientStep(d), ~AuthorizeAllow(d) PROVE FALSE
  <2>1. ASSUME NEW q \in Quotes, Screen(d, q) PROVE FALSE
    BY <2>1, <1>3 DEF Screen
  <2>2. CASE AuthorizeDeny(d) \/ AuthorizeAsk(d) \/ Sign(d) \/ Abort(d)
    BY <2>2, <1>3 DEF AuthorizeDeny, AuthorizeAsk, Sign, Abort
  <2>3. ASSUME NEW report \in Reports, NEW receipt \in {"good", "bad", "none"},
               Respond(d, report, receipt)
        PROVE  FALSE
    BY <2>3, <1>3 DEF Respond
  <2> QED  BY <1>4, <2>1, <2>2, <2>3 DEF ClientStep
<1>5. ASSUME NEW d \in Calls, NEW approved \in BOOLEAN, AnswerDeny(d, approved) PROVE FALSE
  BY <1>5, <1>3 DEF AnswerDeny
<1>6. ASSUME NEW d \in Calls, Start(d) \/ Abort(d) PROVE FALSE
  BY <1>6, <1>3 DEF Start, Abort
<1>7. ASSUME NEW d \in Calls, NEW amount, Settle(d, amount) PROVE FALSE
  BY <1>7 DEF Settle
<1>8. CASE Freeze \/ Unfreeze \/ Midnight
  BY <1>8 DEF Freeze, Unfreeze, Midnight
<1>9. CASE Crash
  BY <1>9 DEF Crash
<1>10. ASSUME NEW readable \in Readable, Restart(readable) PROVE FALSE
  BY <1>10 DEF Restart
<1> QED
  BY <1>1, <1>2, <1>4, <1>5, <1>6, <1>7, <1>8, <1>9, <1>10 DEF Next, Answer

(* Once frozen, the Guardian reserves only for calls a human was already being *)
(* asked about.                                                                *)
THEOREM FreezeHolds == Spec => FreezeStopsNewCalls
<1>1. Inv /\ [Next]_vars
        => [\A c \in Calls :
              frozen /\ pc[c] # "reserved" /\ pc'[c] = "reserved" => pc[c] = "asking"]_vars
  BY FreezeStep
<1> QED  BY <1>1, Invariance, PTL DEF Spec, FreezeStopsNewCalls

-----------------------------------------------------------------------------
(* The Guardian keeps the budget of Budget.tla, and what servers collect is   *)
(* covered by the exposure, for every policy and any number of calls.         *)

\* What the journal holds against the calls of this process.
LiveCharge == [c \in Calls |-> IF pc[c] = "dead" THEN 0 ELSE charge[c]]
Reckoned == SessionExposure = Total(Calls, LiveCharge)

\* Only what is signed can be collected, and no more than was signed for.
Collectable(c) ==
  /\ settled[c] => signed[c] /\ taken[c] <= offer[c].amount
  /\ ~settled[c] => taken[c] = 0
\* A call that has signed is told from one that has not by the signer's count.
Counted(c) ==
  pc[c] \in Running => before[c] <= signatures /\ (signed[c] => before[c] < signatures)
\* What is charged is what is reserved, and afterwards what may be collected.
Charged(c) ==
  /\ pc[c] \in {"idle", "called", "screened", "asking", "denied"} => charge[c] = 0
  /\ pc[c] \in {"reserved", "signed"} =>
       charge[c] = reserved[c] /\ reserved[c] = offer[c].amount
  /\ pc[c] # "dead" => Owed(c) <= charge[c]

Backed == \A c \in Calls : Collectable(c) /\ Counted(c) /\ Charged(c)

Books == Inv /\ Backed /\ Reckoned

-----------------------------------------------------------------------------
(* The exposure is what the calls are charged *)

LEMMA LiveChargeType ==
  ASSUME TypeOK PROVE LiveCharge \in [Calls -> Nat]
BY DEF TypeOK, LiveCharge

LEMMA SameReckoning ==
  ASSUME TypeOK, Reckoned, UNCHANGED <<committed, reserved, charge>>,
         \A c \in Calls : pc'[c] = "dead" <=> pc[c] = "dead"
  PROVE  Reckoned'
<1>1. LiveCharge' = LiveCharge
  BY DEF LiveCharge
<1> QED  BY <1>1 DEF Reckoned, SessionExposure

(* One call's charge changes by as much as the exposure.                      *)
LEMMA ChargeReckoning ==
  ASSUME TypeOK, TypeOK', Reckoned, NEW c \in Calls, pc[c] # "dead", pc'[c] # "dead",
         \A d \in Calls \ {c} : pc'[d] = pc[d] /\ charge'[d] = charge[d],
         SessionExposure' = SessionExposure - charge[c] + charge'[c]
  PROVE  Reckoned'
<1>1. LiveCharge \in [Calls -> Nat] /\ LiveCharge' \in [Calls -> Nat]
  BY DEF TypeOK, LiveCharge
<1>2. /\ LiveCharge[c] = charge[c] /\ LiveCharge'[c] = charge'[c]
      /\ \A d \in Calls \ {c} : LiveCharge'[d] = LiveCharge[d]
  BY DEF LiveCharge
<1>3. Total(Calls, LiveCharge') = Total(Calls, LiveCharge) - LiveCharge[c] + LiveCharge'[c]
  BY <1>1, <1>2, CallsFinite, TotalUpdate
<1> QED  BY <1>2, <1>3 DEF Reckoned

-----------------------------------------------------------------------------
(* Every action keeps the books *)

LEMMA InitBooks ==
  ASSUME Init PROVE Books
<1>1. Inv
  BY InitInv
<1>2. Total(Calls, LiveCharge) = 0
  <2>1. \A c \in Calls : LiveCharge[c] = 0
    BY DEF Init, LiveCharge
  <2> QED  BY <2>1, TotalZero
<1>3. Total(Calls, reserved) = 0
  BY TotalZero DEF Init
<1>4. Reckoned
  BY <1>2, <1>3 DEF Init, Reckoned, SessionExposure
<1>5. Backed
  BY DEF Init, Backed, Collectable, Counted, Charged, Owed, Running
<1> QED  BY <1>1, <1>4, <1>5 DEF Books

(* A call goes on, having neither reserved nor signed.                        *)
LEMMA EarlyBooks ==
  ASSUME Books, Inv', NEW c \in Calls,
         pc[c] \in {"idle", "called", "screened", "asking"},
         pc'[c] \in {"called", "screened", "asking", "denied"},
         \A d \in Calls \ {c} : pc'[d] = pc[d] /\ offer'[d] = offer[d] /\ before'[d] = before[d],
         before'[c] = (IF pc[c] = "idle" THEN signatures ELSE before[c]),
         UNCHANGED <<committed, reserved, signatures, signed, settled, taken, charge>>
  PROVE  Backed' /\ Reckoned'
<1>1. Reckoned'
  BY SameReckoning DEF Books, Inv
<1>2. ~signed[c]
  BY DEF Books, Inv, TypeOK, ReservationsBelongToLiveCalls
<1>3. Collectable(c)' /\ Counted(c)' /\ Charged(c)'
  BY <1>2 DEF Books, Inv, TypeOK, Backed, Collectable, Counted, Charged, Owed, Running
<1>4. ASSUME NEW d \in Calls \ {c} PROVE Collectable(d)' /\ Counted(d)' /\ Charged(d)'
  BY <1>4 DEF Books, Backed, Collectable, Counted, Charged, Owed
<1> QED  BY <1>1, <1>3, <1>4 DEF Backed

LEMMA ReserveBooks ==
  ASSUME Books, Inv', NEW c \in Calls, pc[c] \in {"screened", "asking"},
         offer[c].amount \in Nat, Reserve(c), Enter(c, "reserved"),
         UNCHANGED <<policy, today, up, frozen, signatures, offer, before, signed, serverVars>>
  PROVE  Backed' /\ Reckoned'
<1>1. reserved[c] = 0 /\ charge[c] = 0 /\ ~signed[c]
  BY DEF Books, Inv, TypeOK, Backed, Charged, ReservationsBelongToLiveCalls
<1>2. /\ SessionExposure' = SessionExposure + offer[c].amount
      /\ reserved' = [reserved EXCEPT ![c] = offer[c].amount]
  BY <1>1, ReserveEffect DEF Books, Inv
<1>3. SessionExposure \in Nat
  BY CallsFinite, TotalNat DEF Books, Inv, TypeOK, SessionExposure
<1>4. charge'[c] = offer[c].amount /\ \A d \in Calls \ {c} : charge'[d] = charge[d]
  BY DEF Reserve, Books, Inv, TypeOK
<1>5. pc'[c] = "reserved" /\ \A d \in Calls \ {c} : pc'[d] = pc[d]
  BY DEF Enter, Books, Inv, TypeOK
<1>6. Reckoned'
  <2>1. SessionExposure' = SessionExposure - charge[c] + charge'[c]
    BY <1>1, <1>2, <1>3, <1>4
  <2> QED  BY <1>4, <1>5, <2>1, ChargeReckoning DEF Books, Inv
<1>7. Collectable(c)' /\ Counted(c)' /\ Charged(c)'
  BY <1>1, <1>2, <1>4, <1>5
     DEF Books, Inv, TypeOK, Backed, Collectable, Counted, Charged, Owed, Running, serverVars
<1>8. ASSUME NEW d \in Calls \ {c} PROVE Collectable(d)' /\ Counted(d)' /\ Charged(d)'
  BY <1>2, <1>4, <1>5, <1>8
     DEF Books, Inv, TypeOK, Backed, Collectable, Counted, Charged, Owed, serverVars
<1> QED  BY <1>6, <1>7, <1>8 DEF Backed

LEMMA SignBooks ==
  ASSUME Books, Inv', NEW c \in Calls, Sign(c)
  PROVE  Backed' /\ Reckoned'
<1>1. pc[c] = "reserved" /\ pc'[c] = "signed" /\ \A d \in Calls \ {c} : pc'[d] = pc[d]
  BY DEF Sign, Enter, Books, Inv, TypeOK
<1>2. Reckoned'
  BY <1>1, SameReckoning DEF Sign, Books, Inv, journalVars, ghostVars
<1>3. signed'[c] /\ \A d \in Calls \ {c} : signed'[d] = signed[d]
  BY DEF Sign, Books, Inv, TypeOK
<1>4. signatures \in Nat /\ signatures' = signatures + 1 /\ before' = before
      /\ \A d \in Calls : before[d] \in Nat
  BY DEF Sign, Books, Inv, TypeOK
<1>5. ~settled[c] /\ taken[c] = 0
  BY <1>1 DEF Books, Inv, Backed, Collectable, ReservationsBelongToLiveCalls
<1>6. Collectable(c)' /\ Counted(c)' /\ Charged(c)'
  BY <1>1, <1>3, <1>4, <1>5
     DEF Sign, Books, Inv, TypeOK, Backed, Priced, Collectable, Counted, Charged, Owed, Running,
         journalVars, ghostVars, serverVars
<1>7. ASSUME NEW d \in Calls \ {c} PROVE Collectable(d)' /\ Counted(d)' /\ Charged(d)'
  BY <1>1, <1>3, <1>4, <1>7
     DEF Sign, Books, Backed, Collectable, Counted, Charged, Owed,
         journalVars, ghostVars, serverVars
<1> QED  BY <1>2, <1>6, <1>7 DEF Backed

LEMMA SettleBooks ==
  ASSUME Books, Inv', NEW c \in Calls, signed[c], NEW amount \in 0..offer[c].amount,
         Settle(c, amount)
  PROVE  Backed' /\ Reckoned'
<1>1. Reckoned'
  BY SameReckoning DEF Settle, Books, Inv, journalVars, ghostVars
<1>2. /\ ~settled[c] /\ settled'[c] /\ taken'[c] = amount
      /\ \A d \in Calls \ {c} : settled'[d] = settled[d] /\ taken'[d] = taken[d]
  BY DEF Settle, Books, Inv, TypeOK
<1>3. offer[c].amount \in Nat /\ charge[c] \in Nat
  BY DEF Books, Inv, TypeOK, Priced
<1>4. Collectable(c)' /\ Counted(c)' /\ Charged(c)'
  BY <1>2, <1>3
     DEF Settle, Books, Backed, Collectable, Counted, Charged, Owed, journalVars, ghostVars
<1>5. ASSUME NEW d \in Calls \ {c} PROVE Collectable(d)' /\ Counted(d)' /\ Charged(d)'
  BY <1>2, <1>5
     DEF Settle, Books, Backed, Collectable, Counted, Charged, Owed, journalVars, ghostVars
<1> QED  BY <1>1, <1>4, <1>5 DEF Backed

(* What a resolved call is booked at covers what it may still cost.           *)
LEMMA ResolvedCharge ==
  ASSUME Books, NEW c \in Calls, pc[c] \in Running, NEW paid, NEW captured,
         reserved[c] > 0 => captured \in Nat,
         signed[c] => captured >= Owed(c),
         Resolve(c, paid, captured)
  PROVE  /\ Owed(c) <= charge'[c]
         /\ SessionExposure' = SessionExposure - charge[c] + charge'[c]
         /\ \A d \in Calls \ {c} : charge'[d] = charge[d]
         /\ reserved' = [reserved EXCEPT ![c] = 0]
         /\ reserved[c] > 0 =>
              /\ committed' = committed + charge'[c] /\ charge'[c] \in Nat
              /\ excess' = excess + (IF charge'[c] > reserved[c]
                                       THEN charge'[c] - reserved[c] ELSE 0)
<1>1. /\ charge[c] = reserved[c] /\ charge[c] \in Nat /\ charge \in [Calls -> Nat]
      /\ committed \in Nat /\ excess \in Nat
  BY DEF Books, Inv, TypeOK, Backed, Charged, ReservationsBelongToLiveCalls, Running
<1>2. CASE reserved[c] = 0
  <2>1. UNCHANGED <<journalVars, ghostVars>>
    BY <1>2 DEF Resolve
  <2>2. Owed(c) <= charge[c]
    BY DEF Books, Backed, Charged, Running
  <2>3. SessionExposure' = SessionExposure /\ SessionExposure \in Nat
    BY <2>1, CallsFinite, TotalNat DEF journalVars, SessionExposure, Books, Inv, TypeOK
  <2>4. reserved' = [reserved EXCEPT ![c] = 0]
    BY <1>2, <2>1 DEF journalVars, Books, Inv, TypeOK
  <2>5. charge' = charge
    BY <2>1 DEF ghostVars
  <2> QED  BY <1>1, <1>2, <2>2, <2>3, <2>4, <2>5
<1>3. CASE reserved[c] # 0
  <2>0. reserved[c] > 0 /\ captured \in Nat
    BY <1>3 DEF Books, Inv, TypeOK
  <2>1. /\ reserved' = [reserved EXCEPT ![c] = 0]
        /\ \A d \in Calls \ {c} : charge'[d] = charge[d]
    BY <1>1, <1>3 DEF Resolve, Release, Commit, CloseReservation
  <2>2. Total(Calls, reserved') = Total(Calls, reserved) - reserved[c]
    <3>1. /\ reserved \in [Calls -> Nat] /\ reserved' \in [Calls -> Nat] /\ reserved'[c] = 0
          /\ \A d \in Calls \ {c} : reserved'[d] = reserved[d]
      BY <2>1 DEF Books, Inv, TypeOK
    <3>2. Total(Calls, reserved') = Total(Calls, reserved) - reserved[c] + reserved'[c]
      BY <3>1, CallsFinite, TotalUpdate
    <3>3. Total(Calls, reserved) \in Nat
      BY <3>1, CallsFinite, TotalNat
    <3> QED  BY <3>1, <3>2, <3>3
  <2>3. Total(Calls, reserved) \in Nat
    BY CallsFinite, TotalNat DEF Books, Inv, TypeOK
  <2>4. CASE signatures = before[c]
    <3>1. Release(c)
      BY <1>3, <2>4 DEF Resolve
    <3>2. ~signed[c]
      BY <2>4 DEF Books, Inv, TypeOK, Backed, Counted
    <3>3. charge'[c] = 0 /\ committed' = committed /\ excess' = excess
      BY <1>1, <3>1 DEF Release, CloseReservation
    <3> QED  BY <1>1, <2>0, <2>1, <2>2, <2>3, <3>2, <3>3 DEF SessionExposure, Owed
  <2>5. CASE signatures # before[c]
    <3>1. Commit(c, captured)
      BY <1>3, <2>5 DEF Resolve
    <3>2. /\ charge'[c] = captured /\ committed' = committed + captured
          /\ excess' = excess + (IF captured > reserved[c] THEN captured - reserved[c] ELSE 0)
      BY <1>1, <3>1 DEF Commit, CloseReservation
    <3>3. Owed(c) <= captured
      BY <2>0 DEF Owed
    <3> QED  BY <1>1, <2>0, <2>1, <2>2, <2>3, <3>2, <3>3 DEF SessionExposure
  <2> QED  BY <2>4, <2>5
<1> QED  BY <1>1, <1>2, <1>3 DEF Books, Inv, TypeOK

LEMMA ResolveBooks ==
  ASSUME Books, Inv', NEW c \in Calls, pc[c] \in Running, NEW paid, NEW captured,
         reserved[c] > 0 => captured \in Nat,
         signed[c] => captured >= Owed(c),
         Resolve(c, paid, captured), Enter(c, "done"),
         UNCHANGED <<policy, today, up, signatures, offer, before, signed, serverVars>>
  PROVE  Backed' /\ Reckoned'
<1>1. /\ Owed(c) <= charge'[c]
      /\ SessionExposure' = SessionExposure - charge[c] + charge'[c]
      /\ \A d \in Calls \ {c} : charge'[d] = charge[d]
      /\ reserved' = [reserved EXCEPT ![c] = 0]
  BY ResolvedCharge
<1>2. pc'[c] = "done" /\ \A d \in Calls \ {c} : pc'[d] = pc[d]
  BY DEF Enter, Books, Inv, TypeOK
<1>3. Reckoned'
  BY <1>1, <1>2, ChargeReckoning DEF Books, Inv, Running
<1>4. Owed(c)' = Owed(c)
  BY <1>2 DEF Owed, serverVars, Running
<1>5. Collectable(c)' /\ Counted(c)' /\ Charged(c)'
  BY <1>1, <1>2, <1>4 DEF Books, Backed, Collectable, Counted, Charged, Running, serverVars
<1>6. ASSUME NEW d \in Calls \ {c} PROVE Collectable(d)' /\ Counted(d)' /\ Charged(d)'
  BY <1>1, <1>2, <1>6
     DEF Books, Inv, TypeOK, Backed, Collectable, Counted, Charged, Owed, serverVars
<1> QED  BY <1>3, <1>5, <1>6 DEF Backed

(* What a server reports, or the ceiling taken for it, is never less than     *)
(* what may still be collected.                                               *)
LEMMA ReportCovers ==
  ASSUME Books, NEW c \in Calls, pc[c] = "signed", settled[c], NEW report \in Reports
  PROVE  Captured(c, report) \in Nat /\ Captured(c, report) >= Owed(c)
BY DEF Books, Inv, TypeOK, Priced, Backed, Collectable, Captured, Reports, Owed

LEMMA CeilingCovers ==
  ASSUME Books, NEW c \in Calls, pc[c] \in Running
  PROVE  /\ reserved[c] > 0 => offer[c].amount \in Nat
         /\ signed[c] => offer[c].amount >= Owed(c)
BY DEF Books, Inv, TypeOK, Priced, ReservationsBelongToLiveCalls, Backed, Collectable, Owed

LEMMA CrashBooks ==
  ASSUME Books, Inv', Crash PROVE Backed' /\ Reckoned'
<1>1. Total(Calls, reserved') = 0
  BY TotalZero DEF Crash
<1>2. \A c \in Calls : LiveCharge'[c] = 0
  BY DEF Crash, LiveCharge, Books, Inv, TypeOK, Backed, Charged, ghostVars
<1>3. Total(Calls, LiveCharge') = 0
  BY <1>2, TotalZero
<1>4. Reckoned'
  BY <1>1, <1>3 DEF Crash, Reckoned, SessionExposure
<1>5. Backed'
  BY DEF Crash, Books, Inv, TypeOK, Backed, Collectable, Counted, Charged, Owed, Running,
         ReservationsBelongToLiveCalls, ghostVars, serverVars
<1> QED  BY <1>4, <1>5

(* The operator, the clock, a restart, and nothing at all.                    *)
LEMMA QuietBooks ==
  ASSUME Books, Inv',
         UNCHANGED <<committed, reserved, signatures, pc, offer, before, signed, serverVars, charge>>
  PROVE  Backed' /\ Reckoned'
<1>1. Reckoned'
  BY SameReckoning DEF Books, Inv
<1>2. Backed'
  BY DEF Books, Backed, Collectable, Counted, Charged, Owed, serverVars
<1> QED  BY <1>1, <1>2

LEMMA NextBooks ==
  ASSUME Books, [Next]_vars PROVE Books'
<1>0. Inv'
  BY NextInv DEF Books
<1>1. ASSUME NEW c \in Calls, Start(c) PROVE Backed' /\ Reckoned'
  BY <1>0, <1>1, EarlyBooks
     DEF Start, Enter, Books, Inv, TypeOK, journalVars, ghostVars, serverVars
<1>2. ASSUME NEW c \in Calls, ClientStep(c) PROVE Backed' /\ Reckoned'
  <2>1. ASSUME NEW q \in Quotes, Screen(c, q) PROVE Backed' /\ Reckoned'
    <3>1. UNCHANGED <<committed, reserved>>
      BY <2>1 DEF Screen, ReadDaily, journalVars
    <3>2. \A d \in Calls \ {c} : offer'[d] = offer[d]
      BY <2>1 DEF Screen, Books, Inv, TypeOK
    <3> QED
      BY <1>0, <2>1, <3>1, <3>2, EarlyBooks
         DEF Screen, Enter, Books, Inv, TypeOK, ghostVars, serverVars
  <2>2. ASSUME AuthorizeDeny(c) \/ AuthorizeAsk(c) PROVE Backed' /\ Reckoned'
    <3>1. UNCHANGED <<committed, reserved>>
      BY <2>2 DEF AuthorizeDeny, AuthorizeAsk, ReadDaily, journalVars
    <3> QED
      BY <1>0, <2>2, <3>1, EarlyBooks
         DEF AuthorizeDeny, AuthorizeAsk, Enter, Books, Inv, TypeOK, ghostVars, serverVars
  <2>3. CASE AuthorizeAllow(c)
    <3>1. offer[c].amount \in Nat
      BY <2>3 DEF Books, Inv, TypeOK, AuthorizeAllow, WithinBudgets, StaticDeny, Offer
    <3> QED  BY <1>0, <2>3, <3>1, ReserveBooks DEF AuthorizeAllow
  <2>4. CASE Sign(c)
    BY <1>0, <2>4, SignBooks
  <2>5. ASSUME NEW report \in Reports, NEW receipt \in {"good", "bad", "none"},
               Respond(c, report, receipt)
        PROVE  Backed' /\ Reckoned'
    <3>1. Captured(c, report) \in Nat /\ Captured(c, report) >= Owed(c)
      BY <2>5, ReportCovers DEF Respond
    <3> QED  BY <1>0, <2>5, <3>1, ResolveBooks DEF Respond, Running
  <2>6. CASE Abort(c)
    BY <1>0, <2>6, CeilingCovers, ResolveBooks DEF Abort
  <2> QED  BY <1>2, <2>1, <2>2, <2>3, <2>4, <2>5, <2>6 DEF ClientStep
<1>3. ASSUME NEW c \in Calls, Answer(c) PROVE Backed' /\ Reckoned'
  <2>1. CASE AnswerAllow(c)
    <3>1. offer[c].amount \in Nat
      BY <2>1 DEF Books, Inv, Priced, AnswerAllow
    <3> QED  BY <1>0, <2>1, <3>1, ReserveBooks DEF AnswerAllow
  <2>2. ASSUME NEW approved \in BOOLEAN, AnswerDeny(c, approved) PROVE Backed' /\ Reckoned'
    BY <1>0, <2>2, EarlyBooks
       DEF AnswerDeny, Enter, Books, Inv, TypeOK, journalVars, ghostVars, serverVars
  <2> QED  BY <1>3, <2>1, <2>2 DEF Answer
<1>4. ASSUME NEW c \in Calls, Abort(c) PROVE Backed' /\ Reckoned'
  BY <1>0, <1>4, CeilingCovers, ResolveBooks DEF Abort
<1>5. ASSUME Freeze \/ Unfreeze \/ Midnight PROVE Backed' /\ Reckoned'
  BY <1>0, <1>5, QuietBooks DEF Freeze, Unfreeze, Midnight, journalVars, ghostVars
<1>6. ASSUME NEW readable \in Readable, Restart(readable) PROVE Backed' /\ Reckoned'
  BY <1>0, <1>6, QuietBooks DEF Restart, ghostVars
<1>7. CASE UNCHANGED vars
  BY <1>0, <1>7, QuietBooks DEF vars, journalVars, ghostVars, Books
<1> QED
  BY <1>0, <1>1, <1>2, <1>3, <1>4, <1>5, <1>6, <1>7, SettleBooks, CrashBooks DEF Next, Books

LEMMA BooksInvariant == Spec => []Books
<1>1. Init => Books
  BY InitBooks
<1>2. Books /\ [Next]_vars => Books'
  BY NextBooks
<1> QED  BY <1>1, <1>2, PTL DEF Spec

(* Whatever is reported, lost or escalated, what servers have collected from  *)
(* the calls of this process is within the exposure its budget is judged by.  *)
THEOREM TakenIsCovered == Spec => []ExposureCoversTaken
<1>1. Books => ExposureCoversTaken
  <2> SUFFICES ASSUME Books PROVE ExposureCoversTaken
    OBVIOUS
  <2> DEFINE collected == [c \in Calls |-> IF pc[c] = "dead" THEN 0 ELSE taken[c]]
  <2>1. collected \in [Calls -> Nat] /\ LiveCharge \in [Calls -> Nat]
    BY LiveChargeType DEF Books, Inv, TypeOK
  <2>2. ASSUME NEW c \in Calls PROVE collected[c] <= LiveCharge[c]
    BY DEF Books, Inv, TypeOK, Backed, Collectable, Charged, Owed, LiveCharge
  <2>3. Total(Calls, collected) <= Total(Calls, LiveCharge)
    <3> HIDE DEF collected
    <3> QED  BY <2>1, <2>2, CallsFinite, TotalMonotone
  <2> QED  BY <2>3 DEF Books, Reckoned, ExposureCoversTaken
<1> QED  BY <1>1, BooksInvariant, PTL

-----------------------------------------------------------------------------
(* The journal's steps are the budget's *)

LEMMA PurseInit == ASSUME Init PROVE Purse!Init
BY PolicyShape DEF Init, Purse!Init, Limit, Owed

(* What moves neither money nor signatures is a stutter of the budget.        *)
LEMMA QuietPurse ==
  ASSUME UNCHANGED <<policy, committed, reserved, excess>>,
         \A c \in Calls : Owed(c)' = Owed(c)
  PROVE  UNCHANGED Purse!budgetVars
BY DEF Purse!budgetVars

(* A call that goes on without signing owes nothing more than before.         *)
LEMMA SameOwed ==
  ASSUME UNCHANGED <<signed, settled, taken>>,
         \A c \in Calls : pc'[c] = "dead" <=> pc[c] = "dead",
         \A c \in Calls : signed[c] => offer'[c] = offer[c]
  PROVE  \A c \in Calls : Owed(c)' = Owed(c)
BY DEF Owed

(* Reserve holds the ceiling: the remainder it was checked against covers it, *)
(* even where reports above the ceilings have left none.                      *)
LEMMA ReserveHolds ==
  ASSUME Books, Books', NEW c \in Calls, pc[c] \in {"screened", "asking"},
         offer[c].amount \in Nat, ~OverSession(offer[c].amount), Reserve(c),
         Enter(c, "reserved"), UNCHANGED <<policy, offer, signed, serverVars>>
  PROVE  [Purse!Next]_(Purse!budgetVars)
<1>1. reserved[c] = 0 /\ ~signed[c]
  BY DEF Books, Inv, TypeOK, ReservationsBelongToLiveCalls
<1>2. SessionExposure' = SessionExposure + offer[c].amount /\ excess' = excess
  BY <1>1, ReserveEffect DEF Books, Inv
<1>3. SessionExposure \in Nat
  BY CallsFinite, TotalNat DEF Books, Inv, TypeOK, SessionExposure
<1>4. \A d \in Calls : Owed(d)' = Owed(d)
  <2>1. \A d \in Calls : pc'[d] = "dead" <=> pc[d] = "dead"
    BY DEF Enter, Books, Inv, TypeOK
  <2> QED  BY <2>1, SameOwed DEF serverVars
<1>5. /\ reserved' = [reserved EXCEPT ![c] = offer[c].amount]
      /\ reserved'[c] = offer[c].amount /\ UNCHANGED committed
  BY DEF Reserve, Books, Inv, TypeOK
<1>6. CASE offer[c].amount = 0
  <2>1. reserved' = reserved
    BY <1>1, <1>5, <1>6 DEF Books, Inv, TypeOK
  <2> QED  BY <1>2, <1>4, <1>5, <2>1, QuietPurse
<1>7. CASE offer[c].amount > 0
  <2>1. ASSUME policy.session # NoLimit PROVE SessionExposure' <= policy.session
    <3>1. policy.session \in Nat
      BY <2>1, PolicyShape DEF Books, Inv, TypeOK, Limit
    <3>2. offer[c].amount <= Remaining(policy.session, SessionExposure)
      BY <1>3, <2>1, <3>1 DEF OverSession, Remaining
    <3> QED  BY <1>2, <1>3, <1>7, <3>1, <3>2 DEF Remaining
  <2>2. Purse!Exposure' = SessionExposure'
    BY DEF Purse!Exposure, Purse!Total, Purse!Units, Purse!Cardinality, SessionExposure, Total,
           Units, Cardinality
  <2>3. Owed(c) = 0
    BY <1>1 DEF Owed
  <2>4. Purse!Hold(c)
    BY <1>1, <1>2, <1>4, <1>5, <2>1, <2>2, <2>3 DEF Purse!Hold
  <2> QED  BY <2>4 DEF Purse!Next
<1> QED  BY <1>6, <1>7

LEMMA SignSignsOut ==
  ASSUME Books, NEW c \in Calls, Sign(c) PROVE Purse!SignOut(c)
<1>1. /\ pc[c] = "reserved" /\ reserved[c] = offer[c].amount /\ ~settled[c]
      /\ pc'[c] = "signed" /\ \A d \in Calls \ {c} : pc'[d] = pc[d]
      /\ signed'[c] /\ \A d \in Calls \ {c} : signed'[d] = signed[d]
  BY DEF Sign, Enter, Books, Inv, TypeOK, Backed, Collectable, Charged,
         ReservationsBelongToLiveCalls
<1>2. Owed(c)' = reserved[c] /\ \A d \in Calls \ {c} : Owed(d)' = Owed(d)
  BY <1>1 DEF Sign, Owed, serverVars
<1> QED  BY <1>2 DEF Purse!SignOut, Sign, journalVars, ghostVars

LEMMA SettleCollects ==
  ASSUME Books, NEW c \in Calls, signed[c], NEW amount \in 0..offer[c].amount,
         Settle(c, amount)
  PROVE  [Purse!Next]_(Purse!budgetVars)
<1>1. /\ ~settled[c] /\ settled'[c] /\ taken'[c] = amount
      /\ \A d \in Calls \ {c} : settled'[d] = settled[d] /\ taken'[d] = taken[d]
      /\ UNCHANGED <<policy, committed, reserved, excess, pc, offer, signed>>
  BY DEF Settle, Books, Inv, TypeOK, journalVars, ghostVars
<1>2. \A d \in Calls \ {c} : Owed(d)' = Owed(d)
  BY <1>1 DEF Owed
<1>3. CASE pc[c] = "dead"
  <2>1. Owed(c)' = Owed(c)
    BY <1>1, <1>3 DEF Owed
  <2> QED  BY <1>1, <1>2, <2>1, QuietPurse
<1>4. CASE pc[c] # "dead"
  <2>1. Owed(c)' \in 0..Owed(c)
    BY <1>1, <1>4 DEF Owed
  <2>2. Purse!Collect(c)
    BY <1>1, <1>2, <2>1 DEF Purse!Collect
  <2> QED  BY <2>2 DEF Purse!Next
<1> QED  BY <1>3, <1>4

(* A resolved reservation is booked for no less than what is owed on it.      *)
LEMMA ResolveBooksCost ==
  ASSUME Books, NEW c \in Calls, pc[c] \in Running, NEW paid, NEW captured,
         reserved[c] > 0 => captured \in Nat,
         signed[c] => captured >= Owed(c),
         Resolve(c, paid, captured), Enter(c, "done"),
         UNCHANGED <<policy, offer, signed, serverVars>>
  PROVE  [Purse!Next]_(Purse!budgetVars)
<1>1. \A d \in Calls : Owed(d)' = Owed(d)
  <2>1. \A d \in Calls : pc'[d] = "dead" <=> pc[d] = "dead"
    BY DEF Enter, Books, Inv, TypeOK, Running
  <2> QED  BY <2>1, SameOwed DEF serverVars
<1>2. CASE reserved[c] = 0
  BY <1>1, <1>2, QuietPurse DEF Resolve, journalVars, ghostVars
<1>3. CASE reserved[c] > 0
  <2>1. /\ Owed(c) <= charge'[c] /\ charge'[c] \in Nat
        /\ reserved' = [reserved EXCEPT ![c] = 0]
        /\ committed' = committed + charge'[c]
        /\ excess' = excess + (IF charge'[c] > reserved[c] THEN charge'[c] - reserved[c] ELSE 0)
    BY <1>3, ResolvedCharge
  <2>2. committed' - committed = charge'[c]
    BY <2>1 DEF Books, Inv, TypeOK
  <2>3. Purse!Book(c, charge'[c])
    BY <1>1, <1>3, <2>1 DEF Purse!Book
  <2>4. Purse!Book(c, committed' - committed)
    BY <2>2, <2>3
  <2> QED  BY <2>4 DEF Purse!Next
<1> QED  BY <1>2, <1>3 DEF Books, Inv, TypeOK

LEMMA CrashForgets ==
  ASSUME Books, Crash PROVE Purse!Forget
<1>1. \A c \in Calls : Owed(c)' = 0
  BY DEF Crash, Owed, Books, Inv, TypeOK, ReservationsBelongToLiveCalls
<1> QED  BY <1>1 DEF Purse!Forget, Crash, ghostVars

LEMMA PurseStep ==
  ASSUME Books, Books', [Next]_vars PROVE [Purse!Next]_(Purse!budgetVars)
<1>1. ASSUME NEW c \in Calls, Start(c) PROVE [Purse!Next]_(Purse!budgetVars)
  <2>1. \A d \in Calls : pc'[d] = "dead" <=> pc[d] = "dead"
    BY <1>1 DEF Start, Enter, Books, Inv, TypeOK
  <2> QED
    BY <1>1, <2>1, SameOwed, QuietPurse DEF Start, journalVars, ghostVars, serverVars
<1>2. ASSUME NEW c \in Calls, ClientStep(c) PROVE [Purse!Next]_(Purse!budgetVars)
  <2>1. ASSUME NEW q \in Quotes, Screen(c, q) PROVE [Purse!Next]_(Purse!budgetVars)
    <3>1. UNCHANGED <<committed, reserved>>
      BY <2>1 DEF Screen, ReadDaily, journalVars
    <3>2. \A d \in Calls : signed[d] => offer'[d] = offer[d]
      BY <2>1 DEF Screen, Books, Inv, TypeOK, ReservationsBelongToLiveCalls
    <3>3. \A d \in Calls : pc'[d] = "dead" <=> pc[d] = "dead"
      BY <2>1 DEF Screen, Enter, Books, Inv, TypeOK
    <3> QED
      BY <2>1, <3>1, <3>2, <3>3, SameOwed, QuietPurse DEF Screen, ghostVars, serverVars
  <2>2. ASSUME AuthorizeDeny(c) \/ AuthorizeAsk(c) PROVE [Purse!Next]_(Purse!budgetVars)
    <3>1. UNCHANGED <<committed, reserved>>
      BY <2>2 DEF AuthorizeDeny, AuthorizeAsk, ReadDaily, journalVars
    <3>2. \A d \in Calls : pc'[d] = "dead" <=> pc[d] = "dead"
      BY <2>2 DEF AuthorizeDeny, AuthorizeAsk, Enter, Books, Inv, TypeOK
    <3> QED
      BY <2>2, <3>1, <3>2, SameOwed, QuietPurse
         DEF AuthorizeDeny, AuthorizeAsk, ghostVars, serverVars
  <2>3. CASE AuthorizeAllow(c)
    <3>1. offer[c].amount \in Nat /\ ~OverSession(offer[c].amount)
      BY <2>3 DEF Books, Inv, TypeOK, AuthorizeAllow, WithinBudgets, StaticDeny, Offer
    <3> QED  BY <2>3, <3>1, ReserveHolds DEF AuthorizeAllow
  <2>4. CASE Sign(c)
    BY <2>4, SignSignsOut DEF Purse!Next
  <2>5. ASSUME NEW report \in Reports, NEW receipt \in {"good", "bad", "none"},
               Respond(c, report, receipt)
        PROVE  [Purse!Next]_(Purse!budgetVars)
    <3>1. Captured(c, report) \in Nat /\ Captured(c, report) >= Owed(c)
      BY <2>5, ReportCovers DEF Respond
    <3> QED  BY <2>5, <3>1, ResolveBooksCost DEF Respond, Running
  <2>6. CASE Abort(c)
    BY <2>6, CeilingCovers, ResolveBooksCost DEF Abort
  <2> QED  BY <1>2, <2>1, <2>2, <2>3, <2>4, <2>5, <2>6 DEF ClientStep
<1>3. ASSUME NEW c \in Calls, Answer(c) PROVE [Purse!Next]_(Purse!budgetVars)
  <2>1. CASE AnswerAllow(c)
    <3>1. offer[c].amount \in Nat
      BY <2>1 DEF Books, Inv, Priced, AnswerAllow
    <3> QED  BY <2>1, <3>1, ReserveHolds DEF AnswerAllow
  <2>2. ASSUME NEW approved \in BOOLEAN, AnswerDeny(c, approved)
        PROVE  [Purse!Next]_(Purse!budgetVars)
    <3>1. \A d \in Calls : pc'[d] = "dead" <=> pc[d] = "dead"
      BY <2>2 DEF AnswerDeny, Enter, Books, Inv, TypeOK
    <3> QED
      BY <2>2, <3>1, SameOwed, QuietPurse DEF AnswerDeny, journalVars, ghostVars, serverVars
  <2> QED  BY <1>3, <2>1, <2>2 DEF Answer
<1>4. ASSUME NEW c \in Calls, Abort(c) PROVE [Purse!Next]_(Purse!budgetVars)
  BY <1>4, CeilingCovers, ResolveBooksCost DEF Abort
<1>5. ASSUME NEW c \in Calls, signed[c] /\ \E amount \in 0..offer[c].amount : Settle(c, amount)
      PROVE  [Purse!Next]_(Purse!budgetVars)
  BY <1>5, SettleCollects
<1>6. ASSUME Freeze \/ Unfreeze \/ Midnight \/ (\E readable \in Readable : Restart(readable))
             \/ UNCHANGED vars
      PROVE  [Purse!Next]_(Purse!budgetVars)
  <2>1. UNCHANGED <<policy, committed, reserved, excess, pc, offer, signed, settled, taken>>
    BY <1>6 DEF Freeze, Unfreeze, Midnight, Restart, vars, journalVars, ghostVars, serverVars
  <2> QED  BY <2>1, SameOwed, QuietPurse
<1>7. CASE Crash
  BY <1>7, CrashForgets DEF Purse!Next
<1> QED  BY <1>1, <1>2, <1>3, <1>4, <1>5, <1>6, <1>7 DEF Next

(* The Guardian implements the budget: no reservation outgrows the limit, and *)
(* none is let go for less than may be collected on what its call has signed. *)
THEOREM GuardianKeepsTheBudget == Spec => ImplementsBudget
<1>1. Init => Purse!Init
  BY PurseInit
<1>2. Books /\ Books' /\ [Next]_vars => [Purse!Next]_(Purse!budgetVars)
  BY PurseStep
<1> QED  BY <1>1, <1>2, BooksInvariant, PTL DEF Spec, ImplementsBudget, Purse!Spec

-----------------------------------------------------------------------------
(* The daily budget                                                           *)

\* What the calls charged on day d come to.
DayTotal(f, g, d) == Total(Calls, [c \in Calls |-> IF g[c] = d THEN f[c] ELSE 0])

\* Days only go forward, and a charge is of a day the file has been written on.
DaysInOrder ==
  /\ day <= today /\ file.day <= day
  /\ \A c \in Calls : chargeDay[c] <= day /\ (charge[c] > 0 => chargeDay[c] <= file.day)

\* The day's total, in the file and in memory, is what its calls are charged.
DailyAdds ==
  ~straddled =>
    /\ file.daily = DayTotal(charge, chargeDay, file.day)
    /\ up => daily = DayTotal(charge, chargeDay, day)

\* Without escalation nobody is asked, and every reservation was judged by the
\* day's total.
DailyRoom ==
  policy.escalate = NoLimit =>
    /\ \A c \in Calls : pc[c] # "asking"
    /\ ~straddled /\ policy.daily # NoLimit =>
         DayTotal(charge, chargeDay, day) <= policy.daily + excess

DayInv == DaysInOrder /\ DailyAdds /\ DailyRoom

LEMMA DayTotalType ==
  ASSUME NEW f \in [Calls -> Nat], NEW g, NEW d
  PROVE  DayTotal(f, g, d) \in Nat
BY CallsFinite, TotalNat DEF DayTotal

(* A day on which no call is charged comes to nothing.                        *)
LEMMA DayTotalZero ==
  ASSUME NEW f \in [Calls -> Nat], NEW g, NEW d, \A c \in Calls : g[c] = d => f[c] = 0
  PROVE  DayTotal(f, g, d) = 0
BY TotalZero DEF DayTotal

(* A day's total changes by what the charge of one call changes by.           *)
LEMMA DayTotalUpdate ==
  ASSUME NEW f \in [Calls -> Nat], NEW g \in [Calls -> Nat], NEW h \in [Calls -> Nat],
         NEW k \in [Calls -> Nat], NEW d \in Nat, NEW c \in Calls,
         \A x \in Calls \ {c} : h[x] = f[x] /\ k[x] = g[x]
  PROVE  DayTotal(h, k, d) = DayTotal(f, g, d) - (IF g[c] = d THEN f[c] ELSE 0)
                                               + (IF k[c] = d THEN h[c] ELSE 0)
<1> DEFINE F == [x \in Calls |-> IF g[x] = d THEN f[x] ELSE 0]
           H == [x \in Calls |-> IF k[x] = d THEN h[x] ELSE 0]
<1>1. F \in [Calls -> Nat] /\ H \in [Calls -> Nat] /\ \A x \in Calls \ {c} : H[x] = F[x]
  OBVIOUS
<1>2. /\ F[c] = (IF g[c] = d THEN f[c] ELSE 0) /\ H[c] = (IF k[c] = d THEN h[c] ELSE 0)
      /\ DayTotal(f, g, d) = Total(Calls, F) /\ DayTotal(h, k, d) = Total(Calls, H)
  BY DEF DayTotal
<1> HIDE DEF F, H
<1>3. Total(Calls, H) = Total(Calls, F) - F[c] + H[c]
  BY <1>1, CallsFinite, TotalUpdate
<1> QED  BY <1>2, <1>3

(* The same when no call changes its day.                                     *)
LEMMA DayTotalCharged ==
  ASSUME NEW f \in [Calls -> Nat], NEW g \in [Calls -> Nat], NEW h \in [Calls -> Nat],
         NEW d \in Nat, NEW c \in Calls, \A x \in Calls \ {c} : h[x] = f[x]
  PROVE  DayTotal(h, g, d) = DayTotal(f, g, d) - (IF g[c] = d THEN f[c] ELSE 0)
                                               + (IF g[c] = d THEN h[c] ELSE 0)
<1>1. PICK k \in [Calls -> Nat] : k = g
  OBVIOUS
<1>2. DayTotal(h, k, d) = DayTotal(f, g, d) - (IF g[c] = d THEN f[c] ELSE 0)
                                            + (IF k[c] = d THEN h[c] ELSE 0)
  BY <1>1, DayTotalUpdate, SMTT(40)
<1> QED  BY <1>1, <1>2

(* Nothing is charged on a day later than the file's.                         *)
LEMMA NothingLater ==
  ASSUME TypeOK, DaysInOrder, NEW d \in Nat, file.day < d
  PROVE  DayTotal(charge, chargeDay, d) = 0
<1>1. \A c \in Calls : chargeDay[c] = d => charge[c] = 0
  BY DEF TypeOK, DaysInOrder
<1> QED  BY <1>1, DayTotalZero DEF TypeOK

(* What the readouts take for today's total is what was charged today.        *)
LEMMA ExposureIsCharged ==
  ASSUME TypeOK, DaysInOrder, DailyAdds, ~straddled, up
  PROVE  DailyExposure = DayTotal(charge, chargeDay, today)
<1>1. CASE today = day
  BY <1>1 DEF DailyExposure, DailyAdds
<1>2. CASE today # day
  <2>1. file.day < today /\ today \in Nat
    BY <1>2 DEF TypeOK, DaysInOrder
  <2> QED  BY <1>2, <2>1, NothingLater DEF DailyExposure
<1> QED  BY <1>1, <1>2

LEMMA InitDays == ASSUME Init PROVE DayInv
<1>1. Inv
  BY InitInv
<1>2. DayTotal(charge, chargeDay, 0) = 0
  <2>1. charge \in [Calls -> Nat] /\ \A c \in Calls : charge[c] = 0
    BY DEF Init
  <2> QED  BY <2>1, DayTotalZero
<1>3. DaysInOrder /\ DailyAdds
  BY <1>2 DEF Init, DaysInOrder, DailyAdds
<1>4. policy.daily \in Limit
  BY <1>1, PolicyShape DEF Inv, TypeOK
<1>5. DailyRoom
  BY <1>2, <1>4, PolicyShape DEF Init, DailyRoom, Limit
<1> QED  BY <1>3, <1>5 DEF DayInv

(* Whatever leaves the journal and its charges alone.                         *)
LEMMA QuietDays ==
  ASSUME TypeOK, DayInv,
         UNCHANGED <<policy, day, daily, file, charge, chargeDay, excess, straddled>>,
         today' \in Nat, today <= today', up' => up,
         \A c \in Calls : pc'[c] = "asking" => pc[c] = "asking" \/ policy.escalate # NoLimit
  PROVE  DayInv'
<1>1. DaysInOrder'
  BY DEF TypeOK, DayInv, DaysInOrder
<1>2. DailyAdds' /\ DailyRoom'
  BY DEF DayInv, DailyAdds, DailyRoom
<1> QED  BY <1>1, <1>2 DEF DayInv

(* Looking at the day's total may roll the day.                               *)
LEMMA ReadDailyDays ==
  ASSUME TypeOK, DayInv, up, ReadDaily, UNCHANGED <<policy, today, up, ghostVars>>,
         \A c \in Calls : pc'[c] = "asking" => pc[c] = "asking" \/ policy.escalate # NoLimit
  PROVE  DayInv'
<1>1. CASE day' = day
  <2>1. UNCHANGED <<daily, file>>
    BY <1>1 DEF ReadDaily, DailyExposure
  <2> QED  BY <1>1, <2>1, QuietDays DEF ghostVars, TypeOK
<1>2. CASE day' # day
  <2>1. /\ day' = today /\ daily' = 0 /\ file' = [day |-> today, daily |-> 0]
        /\ day < today /\ file.day <= day /\ file.day < today
    BY <1>2 DEF ReadDaily, DailyExposure, DayInv, DaysInOrder, TypeOK
  <2>2. DayTotal(charge, chargeDay, today) = 0
    BY <2>1, NothingLater DEF DayInv, TypeOK
  <2>3. DaysInOrder'
    BY <2>1 DEF DayInv, DaysInOrder, TypeOK, ghostVars
  <2>4. DailyAdds'
    BY <2>1, <2>2 DEF DailyAdds, ghostVars
  <2>5. policy.daily \in Nat \cup {NoLimit} /\ excess \in Nat
    BY PolicyShape DEF TypeOK, Limit
  <2>6. DailyRoom'
    BY <2>1, <2>2, <2>5 DEF DayInv, DailyRoom, ghostVars
  <2> QED  BY <2>3, <2>4, <2>6 DEF DayInv
<1> QED  BY <1>1, <1>2

(* A reservation is charged to the day it is made on, and fits what is left   *)
(* of it unless it was escalated.                                             *)
LEMMA ReserveDays ==
  ASSUME TypeOK, TypeOK', DayInv, up, NEW c \in Calls, pc[c] \in {"screened", "asking"},
         charge[c] = 0, offer[c].amount \in Nat, pc[c] = "screened" => ~OverDaily(offer[c].amount),
         Reserve(c), Enter(c, "reserved"), UNCHANGED <<policy, today, up>>
  PROVE  DayInv'
<1>0. PICK a \in Nat, t \in Nat : a = offer[c].amount /\ t = today
  BY DEF TypeOK
<1>1. /\ day' = t /\ daily' = DailyExposure + a /\ file' = [day |-> t, daily |-> daily']
      /\ charge' = [charge EXCEPT ![c] = a] /\ chargeDay' = [chargeDay EXCEPT ![c] = t]
      /\ UNCHANGED <<excess, straddled>>
  BY <1>0 DEF Reserve
<1>2. /\ charge \in [Calls -> Nat] /\ charge' \in [Calls -> Nat] /\ chargeDay \in [Calls -> Nat]
      /\ charge'[c] = a /\ chargeDay'[c] = t
      /\ \A x \in Calls \ {c} : charge'[x] = charge[x] /\ chargeDay'[x] = chargeDay[x]
  BY <1>1 DEF TypeOK
<1>3. DayTotal(charge, chargeDay, t) \in Nat
  BY <1>2, DayTotalType
<1>4. DayTotal(charge', chargeDay', t) = DayTotal(charge, chargeDay, t) + a
  <2>1. DayTotal(charge', chargeDay', t)
          = DayTotal(charge, chargeDay, t) - (IF chargeDay[c] = t THEN charge[c] ELSE 0)
                                           + (IF chargeDay'[c] = t THEN charge'[c] ELSE 0)
    <3>1. PICK f, g, h, k : f = charge /\ g = chargeDay /\ h = charge' /\ k = chargeDay'
      OBVIOUS
    <3>2. /\ f \in [Calls -> Nat] /\ h \in [Calls -> Nat]
          /\ g \in [Calls -> Nat] /\ k \in [Calls -> Nat]
          /\ \A x \in Calls \ {c} : h[x] = f[x] /\ k[x] = g[x]
      BY <1>2, <3>1 DEF TypeOK
    <3>3. DayTotal(h, k, t) = DayTotal(f, g, t) - (IF g[c] = t THEN f[c] ELSE 0)
                                                + (IF k[c] = t THEN h[c] ELSE 0)
      BY <3>2, DayTotalUpdate, SMTT(40)
    <3> QED  BY <3>1, <3>3
  <2> QED  BY <1>2, <1>3, <2>1
<1>5. ~straddled => DailyExposure = DayTotal(charge, chargeDay, t)
  BY <1>0, ExposureIsCharged DEF DayInv
<1>6. DaysInOrder'
  <2>1. \A x \in Calls : chargeDay'[x] <= t
    BY <1>0, <1>2 DEF DayInv, DaysInOrder, TypeOK
  <2> QED  BY <1>0, <1>1, <2>1 DEF DaysInOrder
<1>7. DailyAdds'
  BY <1>1, <1>4, <1>5 DEF DailyAdds
<1>8. DailyRoom'
  <2> SUFFICES ASSUME policy.escalate = NoLimit
               PROVE  /\ \A x \in Calls : pc'[x] # "asking"
                      /\ ~straddled /\ policy.daily # NoLimit =>
                           DayTotal(charge', chargeDay', t) <= policy.daily + excess
    BY <1>1 DEF DailyRoom
  <2>1. \A x \in Calls : pc[x] # "asking"
    BY DEF DayInv, DailyRoom
  <2>2. \A x \in Calls : pc'[x] # "asking"
    BY <2>1 DEF Enter, TypeOK
  <2>3. ASSUME ~straddled, policy.daily # NoLimit
        PROVE  DayTotal(charge', chargeDay', t) <= policy.daily + excess
    <3>1. policy.daily \in Nat /\ excess \in Nat
      BY <2>3, PolicyShape DEF TypeOK, Limit
    <3>2. DayTotal(charge, chargeDay, t) <= policy.daily + excess
      <4>1. CASE t = day
        BY <2>3, <4>1 DEF DayInv, DailyRoom
      <4>2. CASE t # day
        <5>1. file.day < t
          BY <1>0, <4>2 DEF DayInv, DaysInOrder, TypeOK
        <5> QED  BY <3>1, <5>1, NothingLater DEF DayInv
      <4> QED  BY <4>1, <4>2
    <3>3. ~OverDaily(a)
      BY <1>0, <2>1
    <3>4. a <= Remaining(policy.daily, DayTotal(charge, chargeDay, t))
      <4>1. Remaining(policy.daily, DayTotal(charge, chargeDay, t)) \in Nat
        BY <1>3, <3>1 DEF Remaining
      <4>2. ~(a > Remaining(policy.daily, DayTotal(charge, chargeDay, t)))
        BY <1>5, <2>3, <3>3 DEF OverDaily
      <4> QED  BY <4>1, <4>2
    <3> QED  BY <1>3, <1>4, <3>1, <3>2, <3>4 DEF Remaining
  <2> QED  BY <2>2, <2>3
<1> QED  BY <1>6, <1>7, <1>8 DEF DayInv

(* The end of a reservation, on the day it was made.                          *)
LEMMA CloseDays ==
  ASSUME TypeOK, TypeOK', DayInv, up, NEW c \in Calls, NEW booked \in Nat,
         reserved[c] = charge[c], CloseReservation(c, booked),
         excess' = excess + (IF booked > reserved[c] THEN booked - reserved[c] ELSE 0),
         Enter(c, "done"), UNCHANGED <<policy, today, up>>
  PROVE  DayInv'
<1>0. PICK t \in Nat, a \in Nat : t = day /\ a = charge[c]
  BY DEF TypeOK
<1>1. /\ day' = t /\ daily' = daily - a + booked /\ file' = [day |-> t, daily |-> daily']
      /\ charge' = [charge EXCEPT ![c] = booked] /\ chargeDay' = chargeDay
      /\ straddled' = (straddled \/ chargeDay[c] # t)
  BY <1>0 DEF CloseReservation
<1>2. /\ charge \in [Calls -> Nat] /\ charge' \in [Calls -> Nat] /\ charge'[c] = booked
      /\ \A x \in Calls \ {c} : charge'[x] = charge[x]
  BY <1>1 DEF TypeOK
<1>3. ~straddled' => ~straddled /\ chargeDay[c] = t
  BY <1>1
<1>4. DayTotal(charge, chargeDay, t) \in Nat
  BY <1>2, DayTotalType
<1>5. chargeDay[c] = t =>
        DayTotal(charge', chargeDay', t) = DayTotal(charge, chargeDay, t) - a + booked
  <2>1. PICK f, g, h : f = charge /\ g = chargeDay /\ h = charge'
    OBVIOUS
  <2>2. /\ f \in [Calls -> Nat] /\ g \in [Calls -> Nat] /\ h \in [Calls -> Nat]
        /\ \A x \in Calls \ {c} : h[x] = f[x]
    BY <1>2, <2>1 DEF TypeOK
  <2>3. DayTotal(h, g, t) = DayTotal(f, g, t) - (IF g[c] = t THEN f[c] ELSE 0)
                                              + (IF g[c] = t THEN h[c] ELSE 0)
    BY <2>2, DayTotalCharged
  <2> QED  BY <1>0, <1>1, <1>2, <2>1, <2>3
<1>6. DaysInOrder'
  BY <1>0, <1>1 DEF DayInv, DaysInOrder, TypeOK
<1>7. DailyAdds'
  BY <1>0, <1>1, <1>3, <1>5 DEF DayInv, DailyAdds
<1>8. DailyRoom'
  <2> SUFFICES ASSUME policy.escalate = NoLimit
               PROVE  /\ \A x \in Calls : pc'[x] # "asking"
                      /\ ~straddled' /\ policy.daily # NoLimit =>
                           DayTotal(charge', chargeDay', t) <= policy.daily + excess'
    BY <1>1 DEF DailyRoom
  <2>1. \A x \in Calls : pc'[x] # "asking"
    BY DEF DayInv, DailyRoom, Enter, TypeOK
  <2>2. ASSUME ~straddled', policy.daily # NoLimit
        PROVE  DayTotal(charge', chargeDay', t) <= policy.daily + excess'
    <3>1. policy.daily \in Nat /\ excess \in Nat /\ excess' \in Nat
      BY <2>2, PolicyShape DEF TypeOK, Limit
    <3>2. DayTotal(charge, chargeDay, t) <= policy.daily + excess
      BY <1>0, <1>3, <2>2 DEF DayInv, DailyRoom
    <3>3. excess' = excess + (IF booked > a THEN booked - a ELSE 0)
      BY <1>0
    <3>4. DayTotal(charge', chargeDay', t) = DayTotal(charge, chargeDay, t) - a + booked
      BY <1>3, <1>5, <2>2
    <3> QED  BY <1>4, <3>1, <3>2, <3>3, <3>4
  <2> QED  BY <2>1, <2>2
<1> QED  BY <1>6, <1>7, <1>8 DEF DayInv

LEMMA ResolveDays ==
  ASSUME Books, Books', DayInv, up, NEW c \in Calls, pc[c] \in Running, NEW paid, NEW captured,
         reserved[c] > 0 => captured \in Nat,
         Resolve(c, paid, captured), Enter(c, "done"), UNCHANGED <<policy, today, up>>
  PROVE  DayInv'
<1>1. TypeOK /\ TypeOK' /\ reserved[c] \in Nat
  BY DEF Books, Inv, TypeOK
<1>2. CASE reserved[c] = 0
  <2>1. \A x \in Calls : pc'[x] = "asking" => pc[x] = "asking"
    BY <1>1 DEF Enter, TypeOK
  <2>2. UNCHANGED <<journalVars, ghostVars>>
    BY <1>2 DEF Resolve
  <2>3. today \in Nat
    BY <1>1 DEF TypeOK
  <2> QED  BY <1>1, <2>1, <2>2, <2>3, QuietDays DEF journalVars, ghostVars
<1>3. CASE reserved[c] # 0
  <2>1. reserved[c] = charge[c]
    BY <1>1, <1>3 DEF Books, Inv, Backed, Charged, ReservationsBelongToLiveCalls
  <2>2. CASE Release(c)
    <3>1. excess' = excess + (IF 0 > reserved[c] THEN 0 - reserved[c] ELSE 0)
      BY <1>1, <2>2 DEF Release, TypeOK
    <3> QED  BY <1>1, <2>1, <2>2, <3>1, CloseDays DEF Release
  <2>3. CASE Commit(c, captured)
    BY <1>1, <1>3, <2>1, <2>3, CloseDays DEF Commit
  <2> QED  BY <1>3, <2>2, <2>3 DEF Resolve
<1> QED  BY <1>2, <1>3

(* A restart reads back the day it finds in the file, or begins one.          *)
LEMMA RestartDays ==
  ASSUME TypeOK, DayInv, Restart(TRUE)
  PROVE  DayInv'
<1>1. /\ UNCHANGED <<policy, today, file, pc, charge, chargeDay, excess, straddled>>
      /\ day' = today /\ up' = TRUE
      /\ daily' = IF file.day = today THEN file.daily ELSE 0
  BY DEF Restart, ghostVars
<1>2. file.day # today => DayTotal(charge, chargeDay, today) = 0
  <2>1. file.day # today => file.day < today /\ today \in Nat
    BY DEF TypeOK, DayInv, DaysInOrder
  <2> QED  BY <2>1, NothingLater DEF DayInv
<1>3. DaysInOrder'
  BY <1>1 DEF TypeOK, DayInv, DaysInOrder
<1>4. DailyAdds'
  BY <1>1, <1>2 DEF DayInv, DailyAdds
<1>5. DailyRoom'
  <2> SUFFICES ASSUME policy.escalate = NoLimit, ~straddled, policy.daily # NoLimit
               PROVE  DayTotal(charge, chargeDay, today) <= policy.daily + excess
    BY <1>1 DEF DayInv, DailyRoom
  <2>1. policy.daily \in Nat /\ excess \in Nat
    BY PolicyShape DEF TypeOK, Limit
  <2>2. CASE today = day
    BY <2>2 DEF DayInv, DailyRoom
  <2>3. CASE today # day
    <3>1. file.day < today /\ today \in Nat
      BY <2>3 DEF TypeOK, DayInv, DaysInOrder
    <3> QED  BY <2>1, <3>1, NothingLater DEF DayInv
  <2> QED  BY <2>2, <2>3
<1> QED  BY <1>3, <1>4, <1>5 DEF DayInv

LEMMA CrashDays ==
  ASSUME TypeOK, DayInv, Crash
  PROVE  DayInv'
<1>1. UNCHANGED <<policy, today, day, file, charge, chargeDay, excess, straddled>> /\ ~up'
  BY DEF Crash, ghostVars
<1>2. \A c \in Calls : pc'[c] # "asking"
  BY DEF Crash
<1>3. DaysInOrder' /\ DailyAdds' /\ DailyRoom'
  BY <1>1, <1>2 DEF DayInv, DaysInOrder, DailyAdds, DailyRoom
<1> QED  BY <1>3 DEF DayInv

LEMMA NextDays ==
  ASSUME Readable \subseteq {TRUE}, Books, Books', DayInv, [Next]_vars
  PROVE  DayInv'
<1>0. TypeOK /\ TypeOK' /\ today \in Nat
  BY DEF Books, Inv, TypeOK
<1>1. \A c \in Calls : \A state : state # "asking" /\ Enter(c, state) =>
        \A d \in Calls : pc'[d] = "asking" => pc[d] = "asking"
  BY <1>0 DEF Enter, TypeOK
<1>2. ASSUME NEW c \in Calls, Start(c) PROVE DayInv'
  BY <1>0, <1>1, <1>2, QuietDays DEF Start, journalVars, ghostVars
<1>3. ASSUME NEW c \in Calls, NEW q \in Quotes, Screen(c, q) PROVE DayInv'
  <2>1. \A d \in Calls : pc'[d] = "asking" => pc[d] = "asking"
    BY <1>1, <1>3 DEF Screen
  <2>2. CASE ReadDaily
    BY <1>0, <1>3, <2>1, <2>2, ReadDailyDays DEF Screen
  <2>3. CASE UNCHANGED journalVars
    BY <1>0, <1>3, <2>1, <2>3, QuietDays DEF Screen, journalVars, ghostVars
  <2> QED  BY <1>3, <2>2, <2>3 DEF Screen
<1>4. ASSUME NEW c \in Calls, AuthorizeDeny(c) PROVE DayInv'
  <2>1. \A d \in Calls : pc'[d] = "asking" => pc[d] = "asking"
    BY <1>1, <1>4 DEF AuthorizeDeny
  <2>2. CASE ReadDaily
    BY <1>0, <1>4, <2>1, <2>2, ReadDailyDays DEF AuthorizeDeny
  <2>3. CASE UNCHANGED journalVars
    BY <1>0, <1>4, <2>1, <2>3, QuietDays DEF AuthorizeDeny, journalVars, ghostVars
  <2> QED  BY <1>4, <2>2, <2>3 DEF AuthorizeDeny
<1>5. ASSUME NEW c \in Calls, AuthorizeAllow(c) PROVE DayInv'
  <2>1. pc[c] = "screened" /\ charge[c] = 0 /\ offer[c].amount \in Nat /\ ~OverDaily(offer[c].amount)
    BY <1>0, <1>5 DEF AuthorizeAllow, WithinBudgets, StaticDeny, TypeOK, Offer, Books, Backed, Charged
  <2> QED  BY <1>0, <1>5, <2>1, ReserveDays DEF AuthorizeAllow
<1>6. ASSUME NEW c \in Calls, AuthorizeAsk(c) PROVE DayInv'
  <2>1. policy.escalate # NoLimit
    BY <1>6 DEF AuthorizeAsk, NeedsEscalation
  <2> QED  BY <1>0, <1>6, <2>1, ReadDailyDays DEF AuthorizeAsk
<1>7. ASSUME NEW c \in Calls, NEW approved \in BOOLEAN, AnswerDeny(c, approved) PROVE DayInv'
  BY <1>0, <1>1, <1>7, QuietDays DEF AnswerDeny, journalVars, ghostVars
<1>8. ASSUME NEW c \in Calls, AnswerAllow(c) PROVE DayInv'
  <2>1. pc[c] = "asking" /\ charge[c] = 0 /\ offer[c].amount \in Nat
    BY <1>8 DEF AnswerAllow, Books, Inv, Priced, Backed, Charged
  <2> QED  BY <1>0, <1>8, <2>1, ReserveDays DEF AnswerAllow
<1>9. ASSUME NEW c \in Calls, Sign(c) PROVE DayInv'
  BY <1>0, <1>1, <1>9, QuietDays DEF Sign, journalVars, ghostVars
<1>10. ASSUME NEW c \in Calls, NEW amount, Settle(c, amount) PROVE DayInv'
  BY <1>0, <1>10, QuietDays DEF Settle, journalVars, ghostVars
<1>11. ASSUME NEW c \in Calls, NEW report \in Reports, NEW receipt \in {"good", "bad", "none"},
              Respond(c, report, receipt)
       PROVE  DayInv'
  <2>1. Captured(c, report) \in Nat
    BY <1>11, ReportCovers DEF Respond
  <2> QED  BY <1>11, <2>1, ResolveDays DEF Respond, Running
<1>12. ASSUME NEW c \in Calls, Abort(c) PROVE DayInv'
  BY <1>12, CeilingCovers, ResolveDays DEF Abort
<1>13. CASE Freeze \/ Unfreeze \/ Midnight
  <2>1. today' \in Nat /\ today <= today'
    BY <1>0, <1>13 DEF Freeze, Unfreeze, Midnight
  <2> QED  BY <1>0, <1>13, <2>1, QuietDays DEF Freeze, Unfreeze, Midnight, journalVars, ghostVars
<1>14. CASE UNCHANGED vars
  BY <1>0, <1>14, QuietDays DEF vars, journalVars, ghostVars
<1>15. ASSUME NEW readable \in Readable, Restart(readable) PROVE DayInv'
  BY <1>0, <1>15, RestartDays
<1> QED
  BY <1>0, <1>2, <1>3, <1>4, <1>5, <1>6, <1>7, <1>8, <1>9, <1>10, <1>11, <1>12, <1>13, <1>14,
     <1>15, CrashDays DEF Next, ClientStep, Answer

(* What was signed for on a day is part of what was charged on it.            *)
LEMMA LiabilityIsCharged ==
  ASSUME TypeOK, NEW d
  PROVE  /\ Liability(d) \in Nat /\ DayTotal(charge, chargeDay, d) \in Nat
         /\ Liability(d) <= DayTotal(charge, chargeDay, d)
<1> DEFINE L == [c \in Calls |-> IF signed[c] /\ chargeDay[c] = d THEN charge[c] ELSE 0]
           D == [c \in Calls |-> IF chargeDay[c] = d THEN charge[c] ELSE 0]
<1>1. L \in [Calls -> Nat] /\ D \in [Calls -> Nat] /\ \A c \in Calls : L[c] <= D[c]
  BY DEF TypeOK
<1>2. Liability(d) = Total(Calls, L) /\ DayTotal(charge, chargeDay, d) = Total(Calls, D)
  BY DEF Liability, DayTotal
<1> HIDE DEF L, D
<1>3. Total(Calls, L) <= Total(Calls, D) /\ Total(Calls, L) \in Nat /\ Total(Calls, D) \in Nat
  BY <1>1, CallsFinite, TotalMonotone, TotalNat
<1> QED  BY <1>2, <1>3

LEMMA RemembersSigned == TypeOK /\ DayInv => DailyRemembersSigned
<1> SUFFICES ASSUME TypeOK, DayInv, ~straddled
             PROVE  /\ up => DailyExposure >= Liability(today)
                    /\ (IF file.day = today THEN file.daily ELSE 0) >= Liability(today)
  BY DEF DailyRemembersSigned
<1>1. PICK t, l, s : t = today /\ l = Liability(t) /\ s = DayTotal(charge, chargeDay, t)
  OBVIOUS
<1>2. l \in Nat /\ s \in Nat /\ l <= s
  BY <1>1, LiabilityIsCharged
<1>3. up => DailyExposure = s
  BY <1>1, ExposureIsCharged DEF DayInv
<1>4. (IF file.day = t THEN file.daily ELSE 0) = s
  <2>1. CASE file.day = t
    BY <1>1, <2>1 DEF DayInv, DailyAdds
  <2>2. CASE file.day # t
    <3>1. file.day < t /\ t \in Nat
      BY <1>1, <2>2 DEF TypeOK, DayInv, DaysInOrder
    <3> QED  BY <1>1, <2>2, <3>1, NothingLater DEF DayInv
  <2> QED  BY <2>1, <2>2
<1> QED  BY <1>1, <1>2, <1>3, <1>4

LEMMA DailyWithin == TypeOK /\ DayInv => DailyBudgetUnlessStraddled
<1> SUFFICES ASSUME TypeOK, DayInv, policy.escalate = NoLimit, ~straddled, policy.daily # NoLimit
             PROVE  Liability(today) <= policy.daily + excess
  BY DEF DailyBudgetUnlessStraddled, DailyBudgetHolds
<1>1. PICK t, l, s : t = today /\ l = Liability(t) /\ s = DayTotal(charge, chargeDay, t)
  OBVIOUS
<1>2. l \in Nat /\ s \in Nat /\ l <= s
  BY <1>1, LiabilityIsCharged
<1>3. policy.daily \in Nat /\ excess \in Nat
  BY PolicyShape DEF TypeOK, Limit
<1>4. s <= policy.daily + excess
  <2>1. CASE t = day
    BY <1>1, <2>1 DEF DayInv, DailyRoom
  <2>2. CASE t # day
    <3>1. file.day < t /\ t \in Nat
      BY <1>1, <2>2 DEF TypeOK, DayInv, DaysInOrder
    <3> QED  BY <1>1, <1>3, <3>1, NothingLater DEF DayInv
  <2> QED  BY <2>1, <2>2
<1> QED  BY <1>1, <1>2, <1>3, <1>4

LEMMA DaysInvariant == Readable \subseteq {TRUE} => (Spec => [](TypeOK /\ DayInv))
<1>1. Init => Books /\ DayInv
  BY InitBooks, InitDays
<1>2. Books => TypeOK
  BY DEF Books, Inv
<1>3. ASSUME Readable \subseteq {TRUE} PROVE Spec => [](TypeOK /\ DayInv)
  <2>1. Books /\ DayInv /\ [Next]_vars => (Books /\ DayInv)'
    BY <1>3, NextBooks, NextDays
  <2> QED  BY <1>1, <1>2, <2>1, PTL DEF Spec
<1> QED  BY <1>3

(* With a journal file that can be read back, today's total, in memory and in *)
(* the file a restart would read, is never less than what was signed for      *)
(* today, whichever process signed, unless a call was resolved on a later day *)
(* than it was reserved on.                                                   *)
THEOREM SignaturesAreRemembered == Readable \subseteq {TRUE} => (Spec => []DailyRemembersSigned)
<1>1. ASSUME Readable \subseteq {TRUE} PROVE Spec => []DailyRemembersSigned
  BY <1>1, DaysInvariant, RemembersSigned, PTL
<1> QED  BY <1>1

(* And what was signed for today is within the daily budget, across crashes,  *)
(* restarts and midnights, but for what servers reported above the ceilings,  *)
(* as long as the policy escalates nothing and no call straddled midnight.    *)
THEOREM DailyBudget == Readable \subseteq {TRUE} => (Spec => []DailyBudgetUnlessStraddled)
<1>1. ASSUME Readable \subseteq {TRUE} PROVE Spec => []DailyBudgetUnlessStraddled
  BY <1>1, DaysInvariant, DailyWithin, PTL
<1> QED  BY <1>1
=============================================================================
