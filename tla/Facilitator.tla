----------------------------- MODULE Facilitator -----------------------------
(***************************************************************************)
(* Reaching the facilitator, and what a tool offers before and after: the  *)
(* process's start (app/main.py), the gateway shared by its tools          *)
(* (app/pay/gateway.py), the first calls of a tool (`entry` in             *)
(* app/pay/decorator.py), and the second resource server with its backoff  *)
(* (app/gateway/resource_server.py).                                       *)
(*                                                                         *)
(* Calls are coroutines of one event loop; the blocking GET /supported     *)
(* runs in a worker thread under a threading.Lock.  A step is what runs    *)
(* between two awaits, or what a thread does.  The facilitator answers or  *)
(* does not, and advertises what it likes.                                 *)
(***************************************************************************)
EXTENDS Integers, Sequences, FiniteSets, SequencesExt

CONSTANTS
  Calls,     \* coroutines that call a paid tool, one call after another
  Probers,   \* coroutines that ask the second resource server
  Tools,     \* the paid tools
  Declared,  \* what each tool declares: its scheme, and upto_fallback_exact
  Backoff,   \* _INIT_BACKOFF_SECONDS, in ticks of the clock
  Nobody     \* no coroutine

ASSUME ToolsAssumption ==
  \A t \in Tools : Declared[t] \in [scheme : {"exact", "upto"}, fallback : BOOLEAN]
ASSUME ActorsAssumption == Nobody \notin Calls \cup Probers /\ Backoff \in Nat \ {0}

VARIABLES
  app,        \* the process: composed, refused by its preflight, serving, stopped
  up,         \* the facilitator answers
  kinds,      \* what it advertises of 'upto': nothing, the scheme, its address too
  ready,      \* Gateway.ready
  failed,     \* Gateway.last_error is set
  holder,     \* the thread that holds Gateway._lock
  call,       \* each call: where it is, its tool, the offer it pays, what it was told
  enhanced,   \* `enhanced` of each tool's decorator
  accepts,    \* the live list of offers of each tool
  offered,    \* the offers some challenge of the tool has listed
  server,     \* the second resource server is built
  probe,      \* where each prober is
  builder,    \* the prober that holds the asyncio lock
  age         \* ticks since its last failure; past Backoff it is forgotten

gatewayVars == <<ready, failed, holder>>
toolVars == <<enhanced, accepts, offered>>
probeVars == <<server, probe, builder, age>>
vars == <<app, up, kinds, gatewayVars, call, toolVars, probeVars>>

NoOffer == [scheme |-> "none", address |-> FALSE]
Idle == [pc |-> "idle", tool |-> CHOOSE t \in Tools : TRUE, pays |-> NoOffer, told |-> FALSE]

\* Five fields are compared, extra.facilitatorAddress is not one of them.
Matches(offer, wanted) == offer.scheme = wanted.scheme

-----------------------------------------------------------------------------
(* The process *)

\* combined_lifespan: the preflight refuses, or the session manager runs.
Start(sound) ==
  /\ app = "composed"
  /\ app' = IF sound THEN "serving" ELSE "refused"
  /\ UNCHANGED <<up, kinds, gatewayVars, call, toolVars, probeVars>>
Stop ==
  /\ app = "serving"
  /\ app' = "stopped"
  /\ UNCHANGED <<up, kinds, gatewayVars, call, toolVars, probeVars>>

\* The facilitator goes away and comes back.
Flap ==
  /\ up' = ~up
  /\ UNCHANGED <<app, kinds, gatewayVars, call, toolVars, probeVars>>

-----------------------------------------------------------------------------
(* A call of a paid tool *)

\* The offers a tool starts with; a metered one falls back to 'exact'.
FirstOffers(t) ==
  <<[scheme |-> IF Declared[t].fallback THEN "exact" ELSE Declared[t].scheme, address |-> FALSE]>>

\* gateway.enhance: unchanged when there is no kind, or the SDK raises.
Enhance(offer) ==
  IF offer.scheme = "upto" /\ kinds = "address" THEN [offer EXCEPT !.address = TRUE] ELSE offer

\* Mutants of Upgraded: the offer replaces the first one, or comes last.
UpgradedInPlace(t, list) ==
  <<Enhance([scheme |-> Declared[t].scheme, address |-> FALSE])>> \o Tail(list)
UpgradedLast(t, list) ==
  IF kinds = "none" THEN list
  ELSE Append(list, Enhance([scheme |-> Declared[t].scheme, address |-> FALSE]))
\* entry: the metered offer comes first, or the only offer is enhanced in place.
Upgraded(t, list) ==
  IF ~(Declared[t].fallback /\ Declared[t].scheme = "upto")
    THEN <<Enhance(Head(list))>> \o Tail(list)
    ELSE IF kinds = "none" THEN list
         ELSE <<Enhance([scheme |-> "upto", address |-> FALSE])>> \o list

\* create_payment_wrapper: a challenge lists the offers; a payment is matched
\* with one of them and goes to verify_payment, which needs the gateway too.
Serve(c, t, offer, list) ==
  IF offer = NoOffer
    THEN /\ offered' = [offered EXCEPT ![t] = @ \cup Range(list)]
         /\ call' = [call EXCEPT ![c] = Idle]
    ELSE /\ call' = [call EXCEPT ![c] =
              IF ready \/ \A i \in DOMAIN list : ~Matches(list[i], offer) THEN Idle
              ELSE [Idle EXCEPT !.pc = "verifying", !.tool = t, !.pays = offer]]
         /\ UNCHANGED offered

\* A call arrives, with no payment or with one for an offer it was shown.  An
\* enhanced tool, or a ready gateway, is served without an await.
Arrive(c, t, offer) ==
  /\ app = "serving" /\ call[c].pc = "idle"
  /\ offer \in offered[t] \cup {NoOffer}
  /\ \/ /\ enhanced[t]
        /\ Serve(c, t, offer, accepts[t])
        /\ UNCHANGED <<enhanced, accepts>>
     \/ /\ ~enhanced[t] /\ ready
        /\ accepts' = [accepts EXCEPT ![t] = Upgraded(t, @)]
        /\ enhanced' = [enhanced EXCEPT ![t] = TRUE]
        /\ Serve(c, t, offer, Upgraded(t, accepts[t]))
     \/ /\ ~enhanced[t] /\ ~ready
        /\ call' = [call EXCEPT ![c] =
             [pc |-> "enhancing", tool |-> t, pays |-> offer, told |-> FALSE]]
        /\ UNCHANGED toolVars
  /\ UNCHANGED <<app, up, kinds, gatewayVars, probeVars>>

Told(c, ok) ==
  call' = [call EXCEPT ![c].pc = IF @ = "enhancing" THEN "enhance" ELSE "verify", ![c].told = ok]

\* Gateway.initialize in its thread: it takes the lock, and asks unless another
\* thread has made the gateway ready meanwhile.
Acquire(c) ==
  /\ call[c].pc \in {"enhancing", "verifying"} /\ holder = Nobody
  /\ IF ready THEN Told(c, TRUE) /\ UNCHANGED holder
              ELSE holder' = c /\ UNCHANGED call
  /\ UNCHANGED <<app, up, kinds, ready, failed, toolVars, probeVars>>

\* Mutant of Ask: a failure is never asked about again.
AskOnce(c) ==
  /\ holder = c
  /\ holder' = Nobody
  /\ ready' = (up /\ ~failed) /\ failed' = (~up \/ failed)
  /\ Told(c, up /\ ~failed)
  /\ UNCHANGED <<app, up, kinds, toolVars, probeVars>>
\* The GET answers or raises; the lock is released either way.
Ask(c) ==
  /\ holder = c
  /\ holder' = Nobody
  /\ ready' = up /\ failed' = ~up
  /\ Told(c, up)
  /\ UNCHANGED <<app, up, kinds, toolVars, probeVars>>

\* Back on the event loop: entry does not look at `enhanced` again.
Resume(c) ==
  LET t == call[c].tool
  IN  /\ call[c].pc = "enhance"
      /\ IF call[c].told
           THEN /\ accepts' = [accepts EXCEPT ![t] = Upgraded(t, @)]
                /\ enhanced' = [enhanced EXCEPT ![t] = TRUE]
                /\ Serve(c, t, call[c].pays, Upgraded(t, accepts[t]))
           ELSE UNCHANGED <<enhanced, accepts>> /\ Serve(c, t, call[c].pays, accepts[t])
      /\ UNCHANGED <<app, up, kinds, gatewayVars, probeVars>>

\* verify_payment goes on to the facilitator, or answers that it is not there.
Verified(c) ==
  /\ call[c].pc = "verify"
  /\ call' = [call EXCEPT ![c] = Idle]
  /\ UNCHANGED <<app, up, kinds, gatewayVars, toolVars, probeVars>>

-----------------------------------------------------------------------------
(* get_resource_server *)

\* The fast path, or the asyncio lock.
Want(p) ==
  /\ probe[p] = "idle" /\ ~server
  /\ probe' = [probe EXCEPT ![p] = "queued"]
  /\ UNCHANGED <<app, up, kinds, gatewayVars, call, toolVars, server, builder, age>>

\* The last failure is recent: "a dead facilitator does not turn every call into
\* a 30-second blocking probe".
Remembered == age < Backoff

\* With the lock: another built it, a recent failure is repeated, or build.
Take(p) ==
  /\ probe[p] = "queued" /\ builder = Nobody
  /\ IF server \/ Remembered
       THEN probe' = [probe EXCEPT ![p] = "idle"] /\ UNCHANGED builder
       ELSE probe' = [probe EXCEPT ![p] = "building"] /\ builder' = p
  /\ UNCHANGED <<app, up, kinds, gatewayVars, call, toolVars, server, age>>

\* The worker thread answers or raises; the lock is released.
Build(p) ==
  /\ builder = p
  /\ builder' = Nobody
  /\ server' = up
  /\ age' = IF up THEN Backoff + 1 ELSE 0
  /\ probe' = [probe EXCEPT ![p] = "idle"]
  /\ UNCHANGED <<app, up, kinds, gatewayVars, call, toolVars>>

Tick ==
  /\ age <= Backoff
  /\ age' = age + 1
  /\ UNCHANGED <<app, up, kinds, gatewayVars, call, toolVars, server, probe, builder>>

-----------------------------------------------------------------------------
Init ==
  /\ app = "composed" /\ up \in BOOLEAN /\ kinds \in {"none", "bare", "address"}
  /\ ready = FALSE /\ failed = FALSE /\ holder = Nobody
  /\ call = [c \in Calls |-> Idle]
  /\ enhanced = [t \in Tools |-> FALSE]
  /\ accepts = [t \in Tools |-> FirstOffers(t)]
  /\ offered = [t \in Tools |-> {}]
  /\ server = FALSE /\ probe = [p \in Probers |-> "idle"] /\ builder = Nobody
  /\ age = Backoff + 1

ThreadStep(c) == Acquire(c) \/ Ask(c)
LoopStep(c) == Resume(c) \/ Verified(c)

Next ==
  \/ \E sound \in BOOLEAN : Start(sound)
  \/ Stop
  \/ Flap
  \/ \E c \in Calls : \/ \E t \in Tools : \E offer \in offered[t] \cup {NoOffer} : Arrive(c, t, offer)
                      \/ ThreadStep(c) \/ LoopStep(c)
  \/ \E p \in Probers : Want(p) \/ Take(p) \/ Build(p)
  \/ Tick

\* A thread that can run does, and the loop resumes what has been answered;
\* nobody has to call.  Time passes.
Fairness ==
  /\ \A c \in Calls : WF_vars(ThreadStep(c)) /\ WF_vars(LoopStep(c))
  /\ \A p \in Probers : WF_vars(Take(p)) /\ WF_vars(Build(p))
  /\ WF_vars(Tick)

Spec == Init /\ [][Next]_vars /\ Fairness

-----------------------------------------------------------------------------
(* Properties *)

\* The types of the state, and the one lock each side has.
FacilitatorTypeOK ==
  /\ app \in {"composed", "refused", "serving", "stopped"}
  /\ \A t \in Tools : accepts[t] \in Seq([scheme : {"exact", "upto"}, address : BOOLEAN])
  /\ \A c \in Calls : call[c].pc \in {"idle", "enhancing", "enhance", "verifying", "verify"}
  /\ holder # Nobody => call[holder].pc \in {"enhancing", "verifying"}
  /\ \A p \in Probers : probe[p] = "building" <=> builder = p

\* "ONE requirements object, built once and shared, because
\* find_matching_requirements returns the element from this list and the client
\* echoes it back" (pay/decorator.py:948): an offer a client has been shown is
\* matched however the list has changed since.
OffersStayGood ==
  \A t \in Tools : \A offer \in offered[t] :
    \E i \in DOMAIN accepts[t] : Matches(accepts[t][i], offer)

\* "inserted FIRST so a client that takes accepts[0] gets the option that charges
\* it less": a metered tool that has been enhanced offers 'upto' first exactly
\* when the facilitator supports it.
CheaperOfferFirst ==
  \A t \in Tools : enhanced[t] /\ Declared[t] = [scheme |-> "upto", fallback |-> TRUE]
    => (Head(accepts[t]).scheme = "upto") = (kinds # "none")

\* "recovery is automatic" (gateway/resource_server.py:67): a facilitator that is
\* up for good is found by the calls that keep asking for it, however often it
\* failed before.
FacilitatorIsFound ==
  <>[]up => /\ ([]<>(\E c \in Calls : call[c].pc = "enhancing")) => <>ready
            /\ ([]<>(\E p \in Probers : probe[p] = "queued")) => <>server
=============================================================================
