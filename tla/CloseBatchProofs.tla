--------------------------- MODULE CloseBatchProofs ---------------------------
(***************************************************************************)
(* What the close command leaves behind, for any number of calls, sessions,*)
(* batches, refusals and deaths, with one run of the command at a time.    *)
(***************************************************************************)
EXTENDS CloseBatch, PaidCallProofs

OneCloser == \A j, k \in Closers : j = k

BatchShape(b) ==
  batch[b] = [status |-> batch[b].status, session |-> batch[b].session,
              gross |-> batch[b].gross, claimed |-> batch[b].claimed]
Shape ==
  /\ at \in [Closers -> Steps] /\ todo = [k \in Closers |-> todo[k]]
  /\ work = [k \in Closers |-> work[k]]
  /\ batch = [b \in Batches |-> batch[b]] /\ \A b \in Batches : BatchShape(b)
  /\ collected = [b \in Batches |-> collected[b]]

\* The batches in use are the first ones, and one that is not is untouched.
InOrder ==
  /\ \A b \in UsedBatches : batch[b].session \in Sessions /\ 1..b \subseteq UsedBatches
  /\ \A b \in Batches \ UsedBatches : collected[b] = 0 /\ ~batch[b].claimed

\* A plan is of a session; one that resumes is of a batch in use.
PlansOK(k) ==
  /\ at[k] # "idle" => todo[k] # {}
  /\ \A p \in todo[k] :
       p.session \in Sessions /\ (p.resume # 0 => p.resume \in UsedBatches)

\* The batch a run works on says how far the run has got.
Working(k) ==
  /\ at[k] \notin {"idle", "next"} => work[k] \in Batches
  /\ at[k] = "opened" =>
       batch[work[k]].status = "open" /\ ~batch[work[k]].claimed /\ collected[work[k]] = 0
  /\ at[k] \in {"claiming", "accepted"} =>
       batch[work[k]].status = "claiming" /\ ~batch[work[k]].claimed
  /\ at[k] \in {"claimed", "marked"} => batch[work[k]].status = "claimed" /\ batch[work[k]].claimed
  /\ at[k] \in {"settling", "swept"} => batch[work[k]].status = "settling" /\ batch[work[k]].claimed
  /\ at[k] = "swept" => work[k] \in swept

RunInv == Shape /\ InOrder /\ DeathLeavesTrace /\ \A k \in Closers : PlansOK(k) /\ Working(k)

-----------------------------------------------------------------------------
(* Numbers *)

(* The plan a run takes next is one of its plans.                             *)
LEMMA PlanTaken ==
  ASSUME NEW k \in Closers, PlansOK(k), todo[k] # {}
  PROVE  Plan(k) \in todo[k]
<1> DEFINE T == {p.session : p \in todo[k]}
<1>1. T \in SUBSET Sessions /\ T # {}
  BY DEF PlansOK
<1>2. PICK m \in T : \A t \in T : m <= t
  BY <1>1, SessionsNat, LeastOfNaturals DEF Sessions
<1>3. PICK p \in todo[k] : p.session = m
  OBVIOUS
<1>4. \E q \in todo[k] : \A r \in todo[k] : q.session <= r.session
  BY <1>2, <1>3
<1> QED  BY <1>4 DEF Plan

(* A new batch is one that is not in use.                                     *)
LEMMA NewBatchFree ==
  ASSUME RunInv, Cardinality(UsedBatches) < MaxBatches
  PROVE  NewBatch \in Batches \ UsedBatches /\ 1..NewBatch \subseteq UsedBatches \cup {NewBatch}
<1> DEFINE c == Cardinality(UsedBatches)
<1>1. UsedBatches \in SUBSET (1..MaxBatches) /\ MaxBatches \in Nat
  BY CloseBounds DEF UsedBatches, Batches
<1>2. c \in 0..MaxBatches /\ UsedBatches = 1..c
  BY <1>1, FirstOnes DEF RunInv, InOrder
<1> HIDE DEF c
<1>3. NewBatch = 1 + c /\ c < MaxBatches
  BY DEF NewBatch, c
<1> QED  BY <1>1, <1>2, <1>3 DEF Batches

-----------------------------------------------------------------------------
(* Steps of the command *)

(* A step that moves one batch in use on, and adds no plan.                   *)
LEMMA OnwardInv ==
  ASSUME RunInv, OneCloser, NEW k \in Closers, NEW b \in UsedBatches,
         todo'[k] \subseteq todo[k], at'[k] # "idle" => todo'[k] # {}, Shape',
         \A c \in Batches \ {b} : batch'[c] = batch[c] /\ collected'[c] = collected[c],
         \A c \in Batches \ {b} : c \in swept' <=> c \in swept,
         batch'[b].session = batch[b].session, batch'[b].status # "none",
         collected'[b] > 0 => batch'[b].status # "open",
         b \in swept' => batch'[b].claimed /\ batch'[b].status \in {"settling", "settled", "failed"},
         Working(k)'
  PROVE  RunInv'
<1>1. b \in Batches /\ batch[b].status # "none"
  BY DEF UsedBatches
<1>2. \A c \in Batches : batch'[c].status # "none" <=> batch[c].status # "none"
  BY <1>1
<1>3. UsedBatches' = UsedBatches
  BY <1>2 DEF UsedBatches
<1>4. InOrder'
  <2>1. \A c \in UsedBatches : batch'[c].session = batch[c].session
    BY DEF UsedBatches
  <2>2. \A c \in Batches \ UsedBatches : batch'[c] = batch[c] /\ collected'[c] = collected[c]
    BY <1>1
  <2> QED  BY <1>3, <2>1, <2>2 DEF RunInv, InOrder
<1>5. DeathLeavesTrace'
  BY DEF RunInv, DeathLeavesTrace
<1>6. PlansOK(k)'
  BY <1>3 DEF RunInv, PlansOK
<1> QED  BY <1>4, <1>5, <1>6 DEF RunInv, OneCloser

(* A step that touches no batch.                                              *)
LEMMA QuietInv ==
  ASSUME RunInv, OneCloser, NEW k \in Closers, UNCHANGED <<batch, collected, swept>>, Shape',
         PlansOK(k)', Working(k)'
  PROVE  RunInv'
<1>1. UsedBatches' = UsedBatches
  BY DEF UsedBatches
<1>2. InOrder' /\ DeathLeavesTrace'
  BY <1>1 DEF RunInv, InOrder, DeathLeavesTrace
<1> QED  BY <1>2 DEF RunInv, OneCloser

(* The batch a run works on is in use, and its plan still among its plans.                                       *)
LEMMA WorkInUse ==
  ASSUME RunInv, NEW k \in Closers, at[k] \notin {"idle", "next"}
  PROVE  work[k] \in UsedBatches /\ work[k] \in Batches /\ todo[k] # {}
<1>1. at[k] \in Steps /\ Working(k) /\ PlansOK(k)
  BY DEF RunInv, Shape
<1> QED  BY <1>1 DEF Steps, Working, PlansOK, UsedBatches

LEMMA StartClaimInv ==
  ASSUME RunInv, OneCloser, NEW k \in Closers, StartClaim(k)
  PROVE  RunInv'
<1> DEFINE b == work[k]
<1>1. b \in UsedBatches /\ b \in Batches /\ todo[k] # {}
  BY WorkInUse DEF StartClaim
<1>2. batch' = [batch EXCEPT ![b].status = "claiming"] /\ at' = [at EXCEPT ![k] = "claiming"]
      /\ UNCHANGED <<todo, work, collected, swept>>
  BY DEF StartClaim, Advance, chainVars
<1>3. Shape'
  BY <1>1, <1>2 DEF RunInv, Shape, BatchShape, Steps
<1>4. at'[k] = "claiming" /\ batch'[b] = [batch[b] EXCEPT !.status = "claiming"]
      /\ \A c \in Batches \ {b} : batch'[c] = batch[c]
  BY <1>1, <1>2 DEF RunInv, Shape
<1>5. batch[b].status = "open" /\ ~batch[b].claimed /\ b \notin swept
  BY <1>1 DEF RunInv, Working, StartClaim, DeathLeavesTrace
<1>6. batch'[b].status = "claiming" /\ ~batch'[b].claimed /\ batch'[b].session = batch[b].session
  BY <1>1, <1>4, <1>5 DEF RunInv, Shape, BatchShape
<1>7. Working(k)'
  BY <1>1, <1>2, <1>4, <1>6 DEF Working
<1> QED  BY <1>1, <1>2, <1>3, <1>4, <1>5, <1>6, <1>7, OnwardInv

LEMMA ClaimInv ==
  ASSUME RunInv, OneCloser, NEW k \in Closers, Claim(k)
  PROVE  RunInv'
<1> DEFINE b == work[k]
<1>1. b \in UsedBatches /\ b \in Batches /\ todo[k] # {}
  BY WorkInUse DEF Claim
<1>2. at' = [at EXCEPT ![k] = "accepted"] /\ UNCHANGED <<batch, todo, work, swept>>
      /\ \E g : collected' = [collected EXCEPT ![b] = g]
  BY DEF Claim, Claimed
<1>3. Shape' /\ at'[k] = "accepted"
  BY <1>1, <1>2 DEF RunInv, Shape, BatchShape, Steps
<1>4. batch[b].status = "claiming" /\ ~batch[b].claimed /\ b \notin swept
  BY <1>1 DEF RunInv, Working, Claim, DeathLeavesTrace
<1>5. Working(k)'
  BY <1>1, <1>2, <1>3, <1>4 DEF Working
<1>6. \A c \in Batches \ {b} : collected'[c] = collected[c]
  BY <1>2 DEF RunInv, Shape
<1> QED  BY <1>1, <1>2, <1>3, <1>4, <1>5, <1>6, OnwardInv

LEMMA RecordClaimInv ==
  ASSUME RunInv, OneCloser, NEW k \in Closers, RecordClaim(k)
  PROVE  RunInv'
<1> DEFINE b == work[k]
<1>1. b \in UsedBatches /\ b \in Batches /\ todo[k] # {}
  BY WorkInUse DEF RecordClaim
<1>2. batch' = [batch EXCEPT ![b].status = "claimed", ![b].claimed = TRUE]
      /\ at' = [at EXCEPT ![k] = "claimed"] /\ UNCHANGED <<todo, work, collected, swept>>
  BY DEF RecordClaim, chainVars
<1>3. Shape'
  BY <1>1, <1>2 DEF RunInv, Shape, BatchShape, Steps
<1>4. at'[k] = "claimed" /\ \A c \in Batches \ {b} : batch'[c] = batch[c]
  BY <1>1, <1>2 DEF RunInv, Shape
<1>5. batch'[b].status = "claimed" /\ batch'[b].claimed /\ batch'[b].session = batch[b].session
  BY <1>1, <1>2 DEF RunInv, Shape, BatchShape
<1>6. b \notin swept
  BY <1>1 DEF RunInv, Working, RecordClaim, DeathLeavesTrace
<1>7. Working(k)'
  BY <1>1, <1>2, <1>4, <1>5 DEF Working
<1> QED  BY <1>1, <1>2, <1>3, <1>4, <1>5, <1>6, <1>7, OnwardInv

LEMMA MarkClaimedInv ==
  ASSUME RunInv, OneCloser, NEW k \in Closers, MarkClaimed(k)
  PROVE  RunInv'
<1>1. at' = [at EXCEPT ![k] = "marked"] /\ UNCHANGED <<batch, todo, work, collected, swept>>
  BY DEF MarkClaimed, chainVars
<1>2. Shape' /\ at'[k] = "marked"
  BY <1>1 DEF RunInv, Shape, BatchShape, Steps
<1>3. UsedBatches' = UsedBatches
  BY <1>1 DEF UsedBatches
<1>4. Working(k)' /\ PlansOK(k)'
  BY <1>1, <1>2, <1>3 DEF RunInv, Working, PlansOK, MarkClaimed
<1> QED  BY <1>1, <1>2, <1>4, QuietInv

LEMMA StartSettleInv ==
  ASSUME RunInv, OneCloser, NEW k \in Closers, StartSettle(k)
  PROVE  RunInv'
<1> DEFINE b == work[k]
<1>1. b \in UsedBatches /\ b \in Batches /\ todo[k] # {}
  BY WorkInUse DEF StartSettle
<1>2. batch' = [batch EXCEPT ![b].status = "settling"] /\ at' = [at EXCEPT ![k] = "settling"]
      /\ UNCHANGED <<todo, work, collected, swept>>
  BY DEF StartSettle, Advance, chainVars
<1>3. Shape'
  BY <1>1, <1>2 DEF RunInv, Shape, BatchShape, Steps
<1>4. at'[k] = "settling" /\ \A c \in Batches \ {b} : batch'[c] = batch[c]
  BY <1>1, <1>2 DEF RunInv, Shape
<1>5. batch[b].claimed
  BY <1>1 DEF RunInv, Working, StartSettle
<1>6. batch'[b].status = "settling" /\ batch'[b].claimed /\ batch'[b].session = batch[b].session
  BY <1>1, <1>2, <1>5 DEF RunInv, Shape, BatchShape
<1>7. Working(k)'
  BY <1>1, <1>2, <1>4, <1>6 DEF Working
<1> QED  BY <1>1, <1>2, <1>3, <1>4, <1>6, <1>7, OnwardInv

LEMMA SweepInv ==
  ASSUME RunInv, OneCloser, NEW k \in Closers, Sweep(k)
  PROVE  RunInv'
<1> DEFINE b == work[k]
<1>1. b \in UsedBatches /\ b \in Batches /\ todo[k] # {} /\ batch[b].status # "none"
  BY WorkInUse DEF Sweep, UsedBatches
<1>2. swept' = swept \cup {b} /\ at' = [at EXCEPT ![k] = "swept"]
      /\ UNCHANGED <<batch, todo, work, collected>>
  BY DEF Sweep
<1>3. Shape' /\ at'[k] = "swept"
  BY <1>1, <1>2 DEF RunInv, Shape, BatchShape, Steps
<1>4. batch[b].status = "settling" /\ batch[b].claimed
  BY <1>1 DEF RunInv, Working, Sweep
<1>5. Working(k)'
  BY <1>1, <1>2, <1>3, <1>4 DEF Working
<1>6. \A c \in Batches \ {b} : c \in swept' <=> c \in swept
  BY <1>2
<1> QED  BY <1>1, <1>2, <1>3, <1>4, <1>5, <1>6, OnwardInv

-----------------------------------------------------------------------------
(* A plan dropped, failed or finished                                         *)

(* NextPlan keeps the shape and goes to a plan that is left, or rests.        *)
LEMMA NextPlanTakes ==
  ASSUME RunInv, NEW k \in Closers, NextPlan(k)
  PROVE  /\ todo'[k] \subseteq todo[k] /\ (at'[k] = "next" => todo'[k] # {})
         /\ at'[k] \in {"idle", "next"} /\ work'[k] = 0
         /\ at' \in [Closers -> Steps] /\ todo' = [j \in Closers |-> todo'[j]]
         /\ work' = [j \in Closers |-> work'[j]]
BY DEF RunInv, Shape, NextPlan, Steps

(* A batch that failed has lost nothing of what is recorded of it.            *)
LEMMA FailedInv ==
  ASSUME RunInv, OneCloser, NEW k \in Closers, NEW b \in UsedBatches, Failed(k, b),
         collected' = [c \in Batches |-> collected'[c]],
         \A c \in Batches \ {b} : collected'[c] = collected[c],
         \A c \in Batches \ {b} : c \in swept' <=> c \in swept,
         b \in swept' => batch[b].claimed
  PROVE  RunInv'
<1>1. b \in Batches /\ batch' = [batch EXCEPT ![b].status = "failed"] /\ NextPlan(k)
  BY DEF Failed, UsedBatches
<1>2. at'[k] \in {"idle", "next"} /\ Shape'
  BY <1>1, NextPlanTakes DEF RunInv, Shape, BatchShape
<1>3. \A c \in Batches \ {b} : batch'[c] = batch[c]
  BY <1>1 DEF RunInv, Shape
<1>4. batch'[b].status = "failed" /\ batch'[b].claimed = batch[b].claimed
      /\ batch'[b].session = batch[b].session
  BY <1>1 DEF RunInv, Shape, BatchShape
<1>5. Working(k)'
  BY <1>2 DEF Working
<1> QED  BY <1>1, <1>2, <1>3, <1>4, <1>5, NextPlanTakes, OnwardInv

LEMMA ClaimFailsInv ==
  ASSUME RunInv, OneCloser, NEW k \in Closers, NEW landed \in BOOLEAN, ClaimFails(k, landed)
  PROVE  RunInv'
<1> DEFINE b == work[k]
<1>1. b \in UsedBatches /\ b \in Batches /\ todo[k] # {}
  BY WorkInUse DEF ClaimFails
<1>2. Failed(k, b) /\ UNCHANGED swept
      /\ (collected' = collected \/ \E g : collected' = [collected EXCEPT ![b] = g])
  BY DEF ClaimFails, Claimed, chainVars
<1>3. /\ collected' = [c \in Batches |-> collected'[c]]
      /\ \A c \in Batches \ {b} : collected'[c] = collected[c]
  BY <1>2 DEF RunInv, Shape
<1>4. b \in swept => batch[b].claimed
  BY <1>1 DEF RunInv, DeathLeavesTrace
<1> QED  BY <1>1, <1>2, <1>3, <1>4, FailedInv

LEMMA SweepFailsInv ==
  ASSUME RunInv, OneCloser, NEW k \in Closers, NEW landed \in BOOLEAN, SweepFails(k, landed)
  PROVE  RunInv'
<1> DEFINE b == work[k]
<1>1. b \in UsedBatches /\ b \in Batches /\ todo[k] # {}
  BY WorkInUse DEF SweepFails
<1>2. Failed(k, b) /\ UNCHANGED collected /\ (swept' = swept \/ swept' = swept \cup {b})
  BY DEF SweepFails
<1>3. collected' = [c \in Batches |-> collected'[c]]
  BY <1>2 DEF RunInv, Shape
<1>4. batch[b].claimed
  BY <1>1 DEF RunInv, Working, SweepFails
<1> QED  BY <1>1, <1>2, <1>3, <1>4, FailedInv

LEMMA FinaliseInv ==
  ASSUME RunInv, OneCloser, NEW k \in Closers, Finalise(k)
  PROVE  RunInv'
<1> DEFINE b == work[k]
<1>1. b \in UsedBatches /\ b \in Batches /\ todo[k] # {}
  BY WorkInUse DEF Finalise
<1>2. batch' = [batch EXCEPT ![b].status = "settled"] /\ NextPlan(k)
      /\ UNCHANGED <<collected, swept>>
  BY DEF Finalise, chainVars
<1>3. at'[k] \in {"idle", "next"} /\ Shape'
  BY <1>2, NextPlanTakes DEF RunInv, Shape, BatchShape
<1>4. \A c \in Batches \ {b} : batch'[c] = batch[c]
  BY <1>2 DEF RunInv, Shape
<1>5. batch[b].claimed
  BY <1>1 DEF RunInv, Working, Finalise
<1>6. batch'[b].status = "settled" /\ batch'[b].claimed /\ batch'[b].session = batch[b].session
  BY <1>1, <1>2, <1>5 DEF RunInv, Shape, BatchShape
<1>7. Working(k)'
  BY <1>3 DEF Working
<1> QED  BY <1>1, <1>2, <1>3, <1>4, <1>6, <1>7, NextPlanTakes, OnwardInv

LEMMA ResumeBatchInv ==
  ASSUME RunInv, OneCloser, NEW k \in Closers, ResumeBatch(k)
  PROVE  RunInv'
<1> DEFINE b == Plan(k).resume
<1>1. at[k] = "next" /\ PlansOK(k) /\ todo[k] # {}
  BY DEF RunInv, PlansOK, ResumeBatch
<1>2. Plan(k) \in todo[k]
  BY <1>1, PlanTaken
<1>3. b \in UsedBatches /\ b \in Batches
  BY <1>1, <1>2 DEF PlansOK, ResumeBatch, UsedBatches
<1>4. UNCHANGED <<collected, swept>>
  BY DEF ResumeBatch, chainVars
<1>5. b \in swept => batch[b].claimed
  BY <1>3 DEF RunInv, DeathLeavesTrace
<1>6. CASE Failed(k, b)
  <2>1. collected' = [c \in Batches |-> collected'[c]]
    BY <1>4 DEF RunInv, Shape
  <2> QED  BY <1>3, <1>4, <1>5, <1>6, <2>1, FailedInv
<1>7. CASE ~Failed(k, b)
  <2>1. PICK step \in {"settling", "claiming"} :
          /\ step = "settling" <=> batch[b].claimed
          /\ Advance(k, b, step, step)
          /\ work' = [work EXCEPT ![k] = b] /\ UNCHANGED todo
    BY <1>7 DEF ResumeBatch
  <2>2. batch' = [batch EXCEPT ![b].status = step] /\ at' = [at EXCEPT ![k] = step]
    BY <2>1 DEF Advance
  <2>3. Shape' /\ at'[k] = step /\ work'[k] = b
    BY <1>3, <1>4, <2>1, <2>2 DEF RunInv, Shape, BatchShape, Steps
  <2>4. \A c \in Batches \ {b} : batch'[c] = batch[c]
    BY <2>2 DEF RunInv, Shape
  <2>5. batch'[b].status = step /\ batch'[b].claimed = batch[b].claimed
        /\ batch'[b].session = batch[b].session
    BY <1>3, <2>2 DEF RunInv, Shape, BatchShape
  <2>6. Working(k)'
    BY <1>3, <2>1, <2>3, <2>5 DEF Working
  <2> QED  BY <1>1, <1>3, <1>4, <1>5, <2>1, <2>3, <2>4, <2>5, <2>6, OnwardInv
<1> QED  BY <1>6, <1>7

LEMMA SkipPlanInv ==
  ASSUME RunInv, OneCloser, NEW k \in Closers, SkipPlan(k)
  PROVE  RunInv'
<1>1. UNCHANGED <<batch, collected, swept>> /\ NextPlan(k)
  BY DEF SkipPlan, chainVars
<1>2. Shape' /\ at'[k] \in {"idle", "next"} /\ UsedBatches' = UsedBatches
  BY <1>1, NextPlanTakes DEF RunInv, Shape, BatchShape, UsedBatches
<1>3. PlansOK(k)' /\ Working(k)'
  BY <1>1, <1>2, NextPlanTakes DEF RunInv, PlansOK, Working
<1> QED  BY <1>1, <1>2, <1>3, QuietInv

-----------------------------------------------------------------------------
(* Plans made, batches opened, deaths                                         *)

LEMMA BuildPlansInv ==
  ASSUME RunInv, OneCloser, NEW k \in Closers, NEW due \in SUBSET Sessions, BuildPlans(k, due)
  PROVE  RunInv'
<1>1. /\ UNCHANGED <<batch, collected, swept, work>> /\ due # {}
      /\ todo' = [todo EXCEPT ![k] = {PlanFor(s) : s \in due}]
      /\ at' = [at EXCEPT ![k] = "next"]
  BY DEF BuildPlans, chainVars
<1>2. Shape' /\ at'[k] = "next" /\ todo'[k] = {PlanFor(s) : s \in due}
  BY <1>1 DEF RunInv, Shape, BatchShape, Steps
<1>3. \A p \in todo'[k] : p.session \in Sessions /\ p.resume = 0
  <2>1. \A s \in due : PlanFor(s).session = s /\ PlanFor(s).resume = 0
    BY DEF PlanFor
  <2> QED  BY <1>2, <2>1
<1>4. PlansOK(k)' /\ Working(k)'
  <2>1. todo'[k] # {}
    BY <1>1, <1>2
  <2> QED  BY <1>2, <1>3, <2>1 DEF PlansOK, Working, Sessions
<1> QED  BY <1>1, <1>2, <1>4, QuietInv

LEMMA PlanResumeInv ==
  ASSUME RunInv, OneCloser, NEW k \in Closers, NEW b \in Batches, PlanResume(k, b)
  PROVE  RunInv'
<1>1. /\ UNCHANGED <<batch, collected, swept, work>>
      /\ \E p : /\ p.session = batch[b].session /\ p.resume = b
               /\ todo' = [todo EXCEPT ![k] = {p}]
      /\ at' = [at EXCEPT ![k] = "next"]
  BY DEF PlanResume, chainVars
<1>2. b \in UsedBatches
  BY DEF PlanResume, Resumable, UsedBatches
<1>3. batch[b].session \in Sessions /\ UsedBatches' = UsedBatches
  BY <1>1, <1>2 DEF RunInv, InOrder, UsedBatches
<1>4. Shape' /\ at'[k] = "next"
      /\ \E p : p.session = batch[b].session /\ p.resume = b /\ todo'[k] = {p}
  BY <1>1 DEF RunInv, Shape, BatchShape, Steps
<1>5. PlansOK(k)' /\ Working(k)'
  BY <1>2, <1>3, <1>4 DEF PlansOK, Working, Sessions
<1> QED  BY <1>1, <1>4, <1>5, QuietInv

LEMMA OpenBatchInv ==
  ASSUME RunInv, OneCloser, NEW k \in Closers, OpenBatch(k)
  PROVE  RunInv'
<1> DEFINE b == NewBatch
<1>1. b \in Batches /\ b \notin UsedBatches /\ 1..b \subseteq UsedBatches \cup {b}
  BY NewBatchFree DEF OpenBatch
<1> HIDE DEF b
<1>2. at[k] = "next" /\ PlansOK(k) /\ todo[k] # {}
  BY DEF RunInv, PlansOK, OpenBatch
<1>3. Plan(k).session \in Sessions
  BY <1>2, PlanTaken DEF PlansOK
<1>4. \E gross :
        batch' = [c \in Batches |->
          IF c = b THEN [status |-> "open", session |-> Plan(k).session, gross |-> gross,
                         claimed |-> FALSE]
                   ELSE batch[c]]
  BY DEF OpenBatch, b
<1>5. work' = [work EXCEPT ![k] = b] /\ at' = [at EXCEPT ![k] = "opened"]
      /\ UNCHANGED <<todo, collected, swept>>
  BY DEF OpenBatch, chainVars, b
<1>6. /\ \A c \in Batches \ {b} : batch'[c] = batch[c]
      /\ batch'[b].status = "open" /\ ~batch'[b].claimed /\ batch'[b].session \in Sessions
  BY <1>1, <1>3, <1>4
<1>7. Shape'
  <2>1. \A c \in Batches : BatchShape(c)'
    <3>1. \A c \in Batches \ {b} : batch'[c] = batch[c] /\ BatchShape(c)
      BY <1>6 DEF RunInv, Shape
    <3>2. PICK gross :
            batch'[b] = [status |-> "open", session |-> Plan(k).session, gross |-> gross,
                         claimed |-> FALSE]
      BY <1>1, <1>4
    <3>3. batch'[b] = [status |-> batch'[b].status, session |-> batch'[b].session,
                       gross |-> batch'[b].gross, claimed |-> batch'[b].claimed]
      BY <3>2
    <3> QED  BY <3>1, <3>3 DEF BatchShape
  <2>2. batch' = [c \in Batches |-> batch'[c]]
    BY <1>4
  <2>3. /\ at' \in [Closers -> Steps] /\ todo' = [j \in Closers |-> todo'[j]]
        /\ work' = [j \in Closers |-> work'[j]] /\ collected' = [c \in Batches |-> collected'[c]]
    BY <1>5 DEF RunInv, Shape, Steps
  <2> QED  BY <2>1, <2>2, <2>3 DEF Shape
<1>8. UsedBatches' = UsedBatches \cup {b}
  BY <1>1, <1>6 DEF UsedBatches
<1>9. collected[b] = 0 /\ b \notin swept
  BY <1>1 DEF RunInv, InOrder, DeathLeavesTrace
<1>10. InOrder'
  <2>1. \A c \in UsedBatches : batch'[c] = batch[c]
    BY <1>1, <1>6 DEF UsedBatches
  <2>2. \A c \in UsedBatches' : batch'[c].session \in Sessions /\ 1..c \subseteq UsedBatches'
    BY <1>1, <1>6, <1>8, <2>1 DEF RunInv, InOrder
  <2>3. \A c \in Batches \ UsedBatches' : collected'[c] = 0 /\ ~batch'[c].claimed
    BY <1>5, <1>6, <1>8 DEF RunInv, InOrder
  <2>4. Sessions' = Sessions
    BY DEF Sessions
  <2> QED  BY <2>2, <2>3, <2>4 DEF InOrder
<1>11. DeathLeavesTrace'
  BY <1>5, <1>6, <1>9 DEF RunInv, DeathLeavesTrace
<1>12. at'[k] = "opened" /\ work'[k] = b
  BY <1>5 DEF RunInv, Shape
<1>13. PlansOK(k)' /\ Working(k)'
  <2>1. PlansOK(k)'
    BY <1>2, <1>5, <1>8, <1>12 DEF PlansOK, Sessions
  <2>2. Working(k)'
    BY <1>1, <1>5, <1>6, <1>9, <1>12 DEF Working
  <2> QED  BY <2>1, <2>2
<1> QED  BY <1>7, <1>10, <1>11, <1>13 DEF RunInv, OneCloser

LEMMA DiesInv ==
  ASSUME RunInv, OneCloser, NEW k \in Closers, Dies(k)
  PROVE  RunInv'
<1>1. /\ UNCHANGED <<batch, collected, swept>>
      /\ at' = [at EXCEPT ![k] = "idle"] /\ todo' = [todo EXCEPT ![k] = {}]
      /\ work' = [work EXCEPT ![k] = 0]
  BY DEF Dies, chainVars
<1>2. Shape' /\ at'[k] = "idle" /\ todo'[k] = {}
  BY <1>1 DEF RunInv, Shape, BatchShape, Steps
<1>3. PlansOK(k)' /\ Working(k)'
  BY <1>2 DEF PlansOK, Working
<1> QED  BY <1>1, <1>2, <1>3, QuietInv

(* Serving, the operator's edit and stuttering touch nothing of the command.  *)
LEMMA ApartInv ==
  ASSUME RunInv, UNCHANGED <<at, todo, work, batch, collected, swept>>
  PROVE  RunInv'
<1>1. UsedBatches' = UsedBatches /\ Sessions' = Sessions
  BY DEF UsedBatches, Sessions
<1>2. Shape' /\ InOrder' /\ DeathLeavesTrace'
  BY <1>1 DEF RunInv, Shape, BatchShape, InOrder, DeathLeavesTrace
<1>3. \A k \in Closers : PlansOK(k)' /\ Working(k)'
  BY <1>1 DEF RunInv, PlansOK, Working
<1> QED  BY <1>2, <1>3 DEF RunInv

-----------------------------------------------------------------------------
(* The theorem                                                                *)

LEMMA InitRun == CloseInit => RunInv
<1> SUFFICES ASSUME CloseInit PROVE RunInv
  OBVIOUS
<1> USE DEF CloseInit
<1>1. Shape
  BY DEF Shape, BatchShape, NoBatch, Steps
<1>2. UsedBatches = {}
  BY DEF UsedBatches, NoBatch
<1>3. InOrder
  BY <1>2 DEF InOrder, NoBatch
<1>4. DeathLeavesTrace
  BY DEF DeathLeavesTrace, NoBatch
<1>5. \A k \in Closers : PlansOK(k) /\ Working(k)
  BY DEF PlansOK, Working
<1> QED  BY <1>1, <1>3, <1>4, <1>5 DEF RunInv

LEMMA NextRun == OneCloser /\ RunInv /\ [CloseNext]_allVars => RunInv'
<1> SUFFICES ASSUME OneCloser, RunInv, [CloseNext]_allVars PROVE RunInv'
  OBVIOUS
<1>1. CASE UNCHANGED closeVars
  BY <1>1, ApartInv DEF closeVars, commandVars, chainVars
<1>2. ASSUME NEW s \in Sessions, NoteChannel(s) PROVE RunInv'
  BY <1>2, ApartInv DEF NoteChannel, commandVars, chainVars
<1>3. ASSUME NEW k \in Closers, NEW due \in SUBSET Sessions, BuildPlans(k, due) PROVE RunInv'
  BY <1>3, BuildPlansInv
<1>4. ASSUME NEW k \in Closers, NEW b \in Batches, PlanResume(k, b) PROVE RunInv'
  BY <1>4, PlanResumeInv
<1>5. ASSUME NEW k \in Closers, Proceed(k) PROVE RunInv'
  BY <1>5, SkipPlanInv, OpenBatchInv, ResumeBatchInv, StartClaimInv, ClaimInv, RecordClaimInv,
     MarkClaimedInv, StartSettleInv, SweepInv, FinaliseInv DEF Proceed
<1>6. ASSUME NEW k \in Closers, NEW landed \in BOOLEAN,
             ClaimFails(k, landed) \/ SweepFails(k, landed)
      PROVE  RunInv'
  BY <1>6, ClaimFailsInv, SweepFailsInv
<1>7. ASSUME NEW k \in Closers, Dies(k) PROVE RunInv'
  BY <1>7, DiesInv
<1>8. CASE UNCHANGED allVars
  BY <1>1, <1>8 DEF allVars
<1> QED  BY <1>1, <1>2, <1>3, <1>4, <1>5, <1>6, <1>7, <1>8 DEF CloseNext

(* However often runs of the command die, are refused and are resumed, one at *)
(* a time, a batch still 'open' has had nothing claimed for it and one swept  *)
(* is on record as claimed ("leaves a row saying exactly how far it got").    *)
THEOREM DeathsLeaveTraces == OneCloser => (CloseSpec => []DeathLeavesTrace)
<1>1. RunInv => DeathLeavesTrace
  BY DEF RunInv
<1>2. ASSUME OneCloser PROVE CloseSpec => []DeathLeavesTrace
  BY <1>1, <1>2, InitRun, NextRun, PTL DEF CloseSpec
<1> QED  BY <1>2

-----------------------------------------------------------------------------
(* Settled calls                                                              *)

IsRow(x) ==
  x = [status |-> x.status, session |-> x.session, nonce |-> x.nonce,
       captured |-> x.captured, error |-> x.error]

\* The row of a request follows the request until it is captured.
RowsFollow ==
  /\ pc = [r \in Requests |-> pc[r]] /\ auth = [r \in Requests |-> auth[r]]
  /\ row = [r \in Requests |-> row[r]] /\ \A r \in Requests : IsRow(row[r])
  /\ \A r \in Requests :
       /\ pc[r] \in {"idle", "verifying"} => row[r].status = "none"
       /\ pc[r] \in InFlight => row[r].status = "verified"

\* The calls a run has yet to put in a batch are captured and in no other plan,
\* and a run that resumes has one plan.
PlansPend(k) ==
  /\ \A p \in todo[k] : \A r \in p.calls :
       /\ r \in Requests /\ row[r].status \in {"captured", "settled"}
       /\ p.resume = 0 => row[r].status = "captured" /\ row[r].session = p.session
  /\ \A p, q \in todo[k] : p.resume # 0 \/ p.session = q.session => p = q

CallInv ==
  /\ RowsFollow /\ swept \subseteq Batches /\ batchOf = [r \in Requests |-> batchOf[r]]
  /\ \A r \in Requests : batchOf[r] # 0 => row[r].status \in {"captured", "settled"}
  /\ SettledMeansSwept /\ \A k \in Closers : PlansPend(k)

(* A step of the server touches no captured row, and settles no voucher's.    *)
LEMMA ServerKeepsRows ==
  ASSUME RowsFollow, Next
  PROVE  /\ RowsFollow'
         /\ \A q \in Requests :
              /\ row[q].status \in {"captured", "settled"} =>
                   row'[q] = row[q] /\ auth'[q] = auth[q]
              /\ row'[q].status = "settled" /\ row[q].status # "settled" =>
                   auth'[q].scheme # "batch"
<1> DEFINE Kept ==
      /\ RowsFollow'
      /\ \A q \in Requests :
           /\ row[q].status \in {"captured", "settled"} =>
                row'[q] = row[q] /\ auth'[q] = auth[q]
           /\ row'[q].status = "settled" /\ row[q].status # "settled" =>
                auth'[q].scheme # "batch"
<1> USE DEF RowsFollow, InFlight, Goto, ledgerVars
<1>1. ASSUME NEW r \in Requests, NEW a \in Authorizations, Present(r, a) PROVE Kept
  BY <1>1 DEF Present
<1>2. ASSUME NEW r \in Requests, Reject(r) PROVE Kept
  BY <1>2 DEF Reject
<1>3. ASSUME NEW r \in Requests, NEW refused \in BOOLEAN, Begin(r, refused) PROVE Kept
  <2>1. PICK declined, s, nonce :
          /\ row' = [row EXCEPT ![r] =
               [status |-> IF declined THEN "declined" ELSE "verified", session |-> s,
                nonce |-> nonce, captured |-> 0, error |-> "none"]]
          /\ pc' = [pc EXCEPT ![r] = IF declined THEN "done" ELSE "admitted"]
          /\ UNCHANGED auth /\ pc[r] = "verifying"
    BY <1>3, Zenon DEF Begin
  <2> QED  BY <2>1 DEF IsRow
<1>4. ASSUME NEW r \in Requests, NEW units \in Consumed, Execute(r, units) PROVE Kept
  BY <1>4 DEF Execute
<1>5. ASSUME NEW r \in Requests, HandlerRaises(r) PROVE Kept
  <2>1. row' = [row EXCEPT ![r] = [row[r] EXCEPT !.status = "failed", !.error = "handler"]]
        /\ pc' = [pc EXCEPT ![r] = "done"] /\ UNCHANGED auth /\ pc[r] \in InFlight
    BY <1>5 DEF HandlerRaises, Fail
  <2>2. row'[r] = [row[r] EXCEPT !.status = "failed", !.error = "handler"]
    BY <2>1
  <2>3. IsRow(row'[r]) /\ row'[r].status = "failed"
    <3> HIDE DEF RowsFollow, InFlight, Goto, ledgerVars
    <3>1. IsRow(row[r])
      BY DEF RowsFollow
    <3> QED  BY <2>2, <3>1 DEF IsRow
  <2>4. (\A q \in Requests \ {r} : row'[q] = row[q]) /\ row' = [q \in Requests |-> row'[q]]
    BY <2>1
  <2> QED  BY <2>1, <2>3, <2>4
<1>6. ASSUME NEW r \in Requests, DeclarationRaises(r) PROVE Kept
  BY <1>6 DEF DeclarationRaises
<1>7. ASSUME NEW r \in Requests, NEW w \in {"same", "absent", "different"}, Settle(r, w)
      PROVE  Kept
  BY <1>7 DEF Settle
<1>8. ASSUME NEW r \in Requests, RefuseSettle(r) PROVE Kept
  BY <1>8 DEF RefuseSettle
<1>9. ASSUME NEW r \in Requests, NEW acted \in BOOLEAN, SettleRaises(r, acted) PROVE Kept
  BY <1>9 DEF SettleRaises
<1>10. ASSUME NEW r \in Requests, RecordFailure(r) PROVE Kept
  <2>1. row' = [row EXCEPT ![r] = [row[r] EXCEPT !.status = "failed", !.error = answer[r]]]
        /\ pc' = [pc EXCEPT ![r] = "done"] /\ UNCHANGED auth /\ pc[r] \in InFlight
    BY <1>10 DEF RecordFailure, Fail
  <2>2. row'[r] = [row[r] EXCEPT !.status = "failed", !.error = answer[r]]
    BY <2>1
  <2>3. IsRow(row'[r]) /\ row'[r].status = "failed"
    <3> HIDE DEF RowsFollow, InFlight, Goto, ledgerVars
    <3>1. IsRow(row[r])
      BY DEF RowsFollow
    <3> QED  BY <2>2, <3>1 DEF IsRow
  <2>4. (\A q \in Requests \ {r} : row'[q] = row[q]) /\ row' = [q \in Requests |-> row'[q]]
    BY <2>1
  <2> QED  BY <2>1, <2>3, <2>4
<1>11. ASSUME NEW r \in Requests, Capture(r) PROVE Kept
  <2>1. PICK booked :
          /\ row' = [row EXCEPT ![r] =
               [row[r] EXCEPT !.captured = booked,
                              !.status = IF Settles(r) THEN "settled" ELSE "captured"]]
          /\ pc' = [pc EXCEPT ![r] = "done"] /\ UNCHANGED auth /\ pc[r] = "answered"
    BY <1>11 DEF Capture
  <2>2. row'[r] = [row[r] EXCEPT !.captured = booked,
                                 !.status = IF Settles(r) THEN "settled" ELSE "captured"]
    BY <2>1
  <2>3. IsRow(row'[r]) /\ row'[r].status = IF Settles(r) THEN "settled" ELSE "captured"
    <3> HIDE DEF RowsFollow, InFlight, Goto, ledgerVars
    <3>1. IsRow(row[r])
      BY DEF RowsFollow
    <3> QED  BY <2>2, <3>1 DEF IsRow
  <2>4. (\A q \in Requests \ {r} : row'[q] = row[q]) /\ row' = [q \in Requests |-> row'[q]]
    BY <2>1
  <2>5. row[r].status = "verified" /\ row'[r].status \in {"settled", "captured"}
    BY <2>1, <2>3
  <2>6. row'[r].status = "settled" => auth'[r].scheme # "batch"
    BY <2>1, <2>3 DEF Settles
  <2>7. RowsFollow'
    BY <2>1, <2>3, <2>4
  <2> QED  BY <2>1, <2>4, <2>5, <2>6, <2>7
<1>12. ASSUME NEW r \in Requests, CaptureRaises(r) PROVE Kept
  BY <1>12 DEF CaptureRaises
<1>13. CASE Crash
  BY <1>13 DEF Crash
<1> QED
  <2> HIDE DEF Kept, RowsFollow, InFlight, Goto, ledgerVars
  <2>1. ASSUME NEW r \in Requests, Serve(r) PROVE Kept
    <3>1. CASE \/ \E a \in Authorizations : Present(r, a)
               \/ Reject(r) \/ \E refused \in BOOLEAN : Begin(r, refused)
               \/ \E units \in Consumed : Execute(r, units)
      BY <1>1, <1>2, <1>3, <1>4, <3>1
    <3>2. CASE \/ HandlerRaises(r) \/ DeclarationRaises(r)
               \/ \E reported \in {"same", "absent", "different"} : Settle(r, reported)
      BY <1>5, <1>6, <1>7, <3>2
    <3>3. CASE \/ RefuseSettle(r) \/ \E acted \in BOOLEAN : SettleRaises(r, acted)
               \/ RecordFailure(r) \/ Capture(r) \/ CaptureRaises(r)
      BY <1>8, <1>9, <1>10, <1>11, <1>12, <3>3
    <3> QED  BY <2>1, <3>1, <3>2, <3>3 DEF Serve
  <2>2. Crash \/ \E r \in Requests : Serve(r)
    BY DEF Next
  <2>3. CASE Crash
    BY <1>13, <2>3 DEF Kept
  <2>4. CASE \E r \in Requests : Serve(r)
    BY <2>1, <2>4 DEF Kept
  <2> QED  BY <2>2, <2>3, <2>4

LEMMA ServerCalls ==
  ASSUME CallInv, Next, UNCHANGED closeVars
  PROVE  CallInv'
<1>1. UNCHANGED <<at, todo, batch, batchOf, swept>>
  BY DEF closeVars, commandVars, chainVars
<1>2. /\ RowsFollow'
      /\ \A q \in Requests :
           /\ row[q].status \in {"captured", "settled"} => row'[q] = row[q] /\ auth'[q] = auth[q]
           /\ row'[q].status = "settled" /\ row[q].status # "settled" => auth'[q].scheme # "batch"
  BY ServerKeepsRows DEF CallInv
<1>3. SettledMeansSwept'
  BY <1>1, <1>2 DEF CallInv, SettledMeansSwept
<1>4. \A k \in Closers : PlansPend(k)'
  BY <1>1, <1>2 DEF CallInv, PlansPend
<1> QED  BY <1>1, <1>2, <1>3, <1>4 DEF CallInv, Batches

(* A step of the command that leaves the calls alone, adds no plan and keeps  *)
(* what is on record of the claims and sweeps.                                *)
LEMMA CallsAlone ==
  ASSUME CallInv, OneCloser, NEW k \in Closers, UNCHANGED <<pc, auth, row, batchOf>>,
         todo'[k] \subseteq todo[k], swept \subseteq swept', swept' \subseteq Batches,
         \A b \in Batches : batch[b].claimed => batch'[b].claimed
  PROVE  CallInv'
<1>1. RowsFollow'
  BY DEF CallInv, RowsFollow
<1>2. SettledMeansSwept'
  BY DEF CallInv, SettledMeansSwept
<1>3. PlansPend(k)'
  BY DEF CallInv, PlansPend
<1> QED  BY <1>1, <1>2, <1>3 DEF CallInv, OneCloser, Batches

(* No step of the command takes a claim or a sweep off the record.            *)
LEMMA ClaimsStay ==
  ASSUME RunInv, NEW b \in Batches, NEW status,
         batch' = [batch EXCEPT ![b].status = status]
  PROVE  \A c \in Batches : batch[c].claimed => batch'[c].claimed
BY DEF RunInv, Shape, BatchShape

LEMMA NextPlanKeeps ==
  ASSUME RunInv, NEW k \in Closers, NextPlan(k)
  PROVE  todo'[k] \subseteq todo[k]
BY NextPlanTakes

LEMMA ProceedCalls ==
  ASSUME RunInv, CallInv, OneCloser, NEW k \in Closers,
         \/ SkipPlan(k) \/ ResumeBatch(k) \/ StartClaim(k) \/ Claim(k) \/ RecordClaim(k)
         \/ MarkClaimed(k) \/ StartSettle(k) \/ Sweep(k)
         \/ \E landed \in BOOLEAN : ClaimFails(k, landed) \/ SweepFails(k, landed)
         \/ Dies(k)
  PROVE  CallInv'
<1> USE DEF vars, ledgerVars, chainVars
<1>1. swept \subseteq Batches
  BY DEF CallInv
<1>2. CASE SkipPlan(k)
  BY <1>1, <1>2, NextPlanKeeps, CallsAlone DEF SkipPlan
<1>3. CASE ResumeBatch(k)
  <2> DEFINE b == Plan(k).resume
  <2>1. todo[k] # {} /\ PlansOK(k) /\ b # 0
    BY <1>3 DEF ResumeBatch, RunInv, PlansOK
  <2>2. b \in Batches
    BY <2>1, PlanTaken DEF PlansOK, UsedBatches
  <2>3. UNCHANGED <<pc, auth, row, batchOf, swept>>
    BY <1>3 DEF ResumeBatch
  <2>4. CASE Failed(k, b)
    BY <1>1, <2>2, <2>3, <2>4, ClaimsStay, NextPlanKeeps, CallsAlone DEF Failed
  <2>5. CASE ~Failed(k, b)
    <3>1. UNCHANGED todo /\ \E step : batch' = [batch EXCEPT ![b].status = step]
      BY <1>3, <2>5 DEF ResumeBatch, Advance
    <3> QED  BY <1>1, <2>2, <2>3, <3>1, ClaimsStay, CallsAlone
  <2> QED  BY <2>4, <2>5
<1>4. CASE StartClaim(k)
  <2>1. work[k] \in Batches
    BY <1>4, WorkInUse DEF StartClaim
  <2> QED  BY <1>1, <1>4, <2>1, ClaimsStay, CallsAlone DEF StartClaim, Advance
<1>5. CASE Claim(k)
  BY <1>1, <1>5, CallsAlone DEF Claim, Claimed
<1>6. CASE RecordClaim(k)
  <2>1. work[k] \in Batches
    BY <1>6, WorkInUse DEF RecordClaim
  <2>2. batch' = [batch EXCEPT ![work[k]].status = "claimed", ![work[k]].claimed = TRUE]
    BY <1>6 DEF RecordClaim
  <2>3. \A c \in Batches : batch[c].claimed => batch'[c].claimed
    BY <2>1, <2>2 DEF RunInv, Shape, BatchShape
  <2> QED  BY <1>1, <1>6, <2>3, CallsAlone DEF RecordClaim
<1>7. CASE MarkClaimed(k)
  BY <1>1, <1>7, CallsAlone DEF MarkClaimed
<1>8. CASE StartSettle(k)
  <2>1. work[k] \in Batches
    BY <1>8, WorkInUse DEF StartSettle
  <2> QED  BY <1>1, <1>8, <2>1, ClaimsStay, CallsAlone DEF StartSettle, Advance
<1>9. CASE Sweep(k)
  <2>1. work[k] \in Batches
    BY <1>9, WorkInUse DEF Sweep
  <2> QED  BY <1>1, <1>9, <2>1, CallsAlone DEF Sweep
<1>10. ASSUME NEW landed \in BOOLEAN, ClaimFails(k, landed) PROVE CallInv'
  <2>1. work[k] \in Batches
    BY <1>10, WorkInUse DEF ClaimFails
  <2>2. UNCHANGED <<pc, auth, row, batchOf, swept>> /\ Failed(k, work[k])
    BY <1>10 DEF ClaimFails, Claimed
  <2> QED  BY <1>1, <2>1, <2>2, ClaimsStay, NextPlanKeeps, CallsAlone DEF Failed
<1>11. ASSUME NEW landed \in BOOLEAN, SweepFails(k, landed) PROVE CallInv'
  <2>1. work[k] \in Batches
    BY <1>11, WorkInUse DEF SweepFails
  <2>2. /\ UNCHANGED <<pc, auth, row, batchOf>> /\ Failed(k, work[k])
        /\ swept \subseteq swept' /\ swept' \subseteq swept \cup {work[k]}
    BY <1>11 DEF SweepFails
  <2> QED  BY <1>1, <2>1, <2>2, ClaimsStay, NextPlanKeeps, CallsAlone DEF Failed
<1>12. CASE Dies(k)
  <2>1. todo'[k] = {}
    BY <1>12 DEF Dies, RunInv, Shape
  <2> QED  BY <1>1, <1>12, <2>1, CallsAlone DEF Dies
<1> QED  BY <1>2, <1>3, <1>4, <1>5, <1>6, <1>7, <1>8, <1>9, <1>10, <1>11, <1>12

LEMMA BuildPlansCalls ==
  ASSUME RunInv, CallInv, OneCloser, NEW k \in Closers, NEW due \in SUBSET Sessions,
         BuildPlans(k, due)
  PROVE  CallInv'
<1>1. /\ UNCHANGED <<pc, auth, row, batch, batchOf, swept>>
      /\ todo'[k] = {PlanFor(s) : s \in due}
  BY DEF BuildPlans, vars, ledgerVars, chainVars, RunInv, Shape
<1>2. \A s \in due : PlanFor(s).session = s /\ PlanFor(s).resume = 0
                     /\ PlanFor(s).calls = Pending(s)
  BY DEF PlanFor
<1>3. \A s \in due : \A r \in Pending(s) :
        r \in Requests /\ row[r].status = "captured" /\ row[r].session = s
  BY DEF Pending
<1>4. PlansPend(k)'
  <2>1. \A p \in todo'[k] : p.session \in due /\ p = PlanFor(p.session)
    BY <1>1, <1>2
  <2>2. \A p \in todo'[k] : p.resume = 0 /\ p.calls = Pending(p.session)
    BY <1>2, <2>1
  <2>3. \A p \in todo'[k] : \A r \in p.calls :
          r \in Requests /\ row'[r].status = "captured" /\ row'[r].session = p.session
    BY <1>1, <1>3, <2>1, <2>2
  <2>4. \A p \in todo'[k] : \A r \in p.calls :
          /\ r \in Requests /\ row'[r].status \in {"captured", "settled"}
          /\ p.resume = 0 => row'[r].status = "captured" /\ row'[r].session = p.session
    BY <2>3
  <2> QED  BY <2>1, <2>2, <2>4 DEF PlansPend
<1>5. RowsFollow' /\ SettledMeansSwept'
  BY <1>1 DEF CallInv, RowsFollow, SettledMeansSwept
<1> QED  BY <1>1, <1>4, <1>5 DEF CallInv, OneCloser, Batches

LEMMA PlanResumeCalls ==
  ASSUME RunInv, CallInv, OneCloser, NEW k \in Closers, NEW b \in Batches, PlanResume(k, b)
  PROVE  CallInv'
<1>1. UNCHANGED <<pc, auth, row, batch, batchOf, swept>> /\ b # 0
      /\ \E p : p.resume = b /\ p.calls = Attached(b) /\ todo'[k] = {p}
  <2>1. /\ UNCHANGED <<pc, auth, row, batch, batchOf, swept>>
        /\ \E p : p.resume = b /\ p.calls = Attached(b) /\ todo' = [todo EXCEPT ![k] = {p}]
    BY DEF PlanResume, vars, ledgerVars, chainVars
  <2> QED  BY <2>1, CloseBounds DEF RunInv, Shape, Batches
<1>2. PlansPend(k)'
  <2>1. \A r \in Attached(b) : r \in Requests /\ row[r].status \in {"captured", "settled"}
    BY <1>1 DEF CallInv, Attached
  <2> QED  BY <1>1, <2>1 DEF PlansPend
<1>3. RowsFollow' /\ SettledMeansSwept'
  BY <1>1 DEF CallInv, RowsFollow, SettledMeansSwept
<1> QED  BY <1>1, <1>2, <1>3 DEF CallInv, OneCloser, Batches

LEMMA OpenBatchCalls ==
  ASSUME RunInv, CallInv, OneCloser, NEW k \in Closers, OpenBatch(k)
  PROVE  CallInv'
<1>1. at[k] = "next" /\ PlansOK(k) /\ todo[k] # {} /\ Plan(k).resume = 0
  BY DEF RunInv, PlansOK, OpenBatch
<1>2. \A r \in Plan(k).calls : row[r].status = "captured"
  BY <1>1, PlanTaken DEF CallInv, PlansPend
<1>3. /\ UNCHANGED <<pc, auth, row, todo, swept>>
      /\ \E b : /\ batchOf' = [r \in Requests |-> IF r \in Plan(k).calls THEN b ELSE batchOf[r]]
               /\ b \in Batches \ UsedBatches
               /\ \A c \in Batches : c # b => batch'[c] = batch[c]
  BY NewBatchFree DEF OpenBatch, serverVars, chainVars
<1>4. SettledMeansSwept'
  <2> SUFFICES ASSUME NEW r \in Requests, row'[r].status = "settled", auth'[r].scheme = "batch"
               PROVE  batchOf'[r] \in swept' /\ batch'[batchOf'[r]].claimed
    BY DEF SettledMeansSwept
  <2>1. batchOf'[r] = batchOf[r] /\ batchOf[r] \in swept /\ batch[batchOf[r]].claimed
        /\ batchOf[r] \in Batches
    BY <1>2, <1>3 DEF CallInv, SettledMeansSwept
  <2>2. batch'[batchOf[r]] = batch[batchOf[r]]
    BY <1>3, <2>1 DEF RunInv, InOrder
  <2> QED  BY <1>3, <2>1, <2>2
<1>5. RowsFollow' /\ PlansPend(k)'
  BY <1>3 DEF CallInv, RowsFollow, PlansPend
<1>6. /\ batchOf' = [r \in Requests |-> batchOf'[r]]
      /\ \A r \in Requests : batchOf'[r] # 0 => row'[r].status \in {"captured", "settled"}
  BY <1>2, <1>3 DEF CallInv
<1> QED  BY <1>3, <1>4, <1>5, <1>6 DEF CallInv, OneCloser, Batches

LEMMA FinaliseCalls ==
  ASSUME RunInv, CallInv, OneCloser, NEW k \in Closers, Finalise(k)
  PROVE  CallInv'
<1> DEFINE b == work[k]
           calls == Plan(k).calls
<1>1. b \in Batches /\ b \in swept /\ batch[b].claimed
  BY WorkInUse DEF Finalise, RunInv, Working
<1>2. /\ UNCHANGED <<pc, auth, swept>> /\ NextPlan(k)
      /\ row' = [r \in Requests |->
           IF r \in calls THEN [row[r] EXCEPT !.status = "settled"] ELSE row[r]]
      /\ batchOf' = [r \in Requests |-> IF r \in calls THEN b ELSE batchOf[r]]
      /\ batch' = [batch EXCEPT ![b].status = "settled"]
  BY DEF Finalise, serverVars, chainVars
<1> HIDE DEF calls
<1>3. \A c \in Batches : batch[c].claimed => batch'[c].claimed
  BY <1>1, <1>2, ClaimsStay
<1>4. SettledMeansSwept'
  <2> SUFFICES ASSUME NEW r \in Requests, row'[r].status = "settled", auth'[r].scheme = "batch"
               PROVE  batchOf'[r] \in swept' /\ batch'[batchOf'[r]].claimed
    BY DEF SettledMeansSwept
  <2>1. CASE r \in calls
    BY <1>1, <1>2, <1>3, <2>1
  <2>2. CASE r \notin calls
    BY <1>2, <1>3, <2>2 DEF CallInv, SettledMeansSwept
  <2> QED  BY <2>1, <2>2
<1>5. \A r \in calls : r \in Requests /\ row'[r].status = "settled"
  <2>1. todo[k] # {} /\ PlansOK(k)
    BY WorkInUse DEF Finalise, RunInv
  <2>2. Plan(k) \in todo[k]
    BY <2>1, PlanTaken
  <2>3. ASSUME NEW r \in calls PROVE r \in Requests /\ row'[r].status = "settled"
    <3>1. r \in Requests
      BY <2>2 DEF CallInv, PlansPend, calls
    <3>2. IsRow(row[r]) /\ row'[r] = [row[r] EXCEPT !.status = "settled"]
      BY <1>2, <3>1 DEF CallInv, RowsFollow
    <3> QED  BY <3>1, <3>2 DEF IsRow
  <2> QED  BY <2>3
<1>6. PlansPend(k)'
  <2>1. todo'[k] = todo[k] \ {Plan(k)} /\ todo'[k] \subseteq todo[k]
    BY <1>2 DEF NextPlan, RunInv, Shape
  <2>2. ASSUME NEW p \in todo'[k], p.resume = 0, NEW r \in p.calls
        PROVE  r \in Requests /\ row'[r].status = "captured" /\ row'[r].session = p.session
    <3>1. r \in Requests /\ row[r].status = "captured" /\ row[r].session = p.session
      BY <2>1, <2>2 DEF CallInv, PlansPend
    <3>2. p # Plan(k) /\ p \in todo[k] /\ todo[k] # {} /\ PlansOK(k)
      BY <2>1 DEF RunInv
    <3>3. Plan(k) \in todo[k]
      BY <3>2, PlanTaken
    <3>4. Plan(k).resume = 0 /\ p.session # Plan(k).session
      BY <3>2, <3>3 DEF CallInv, PlansPend
    <3>5. r \notin calls
      BY <3>1, <3>3, <3>4 DEF CallInv, PlansPend, calls
    <3> QED  BY <1>2, <3>1, <3>5
  <2>3. ASSUME NEW p \in todo'[k], NEW r \in p.calls
        PROVE  r \in Requests /\ row'[r].status \in {"captured", "settled"}
    <3>1. r \in Requests /\ row[r].status \in {"captured", "settled"}
      BY <2>1, <2>3 DEF CallInv, PlansPend
    <3> QED  BY <1>2, <1>5, <3>1
  <2>4. \A p, q \in todo'[k] : p.resume # 0 \/ p.session = q.session => p = q
    BY <2>1 DEF CallInv, PlansPend
  <2> QED  BY <2>2, <2>3, <2>4 DEF PlansPend
<1>7. RowsFollow'
  <2>1. /\ pc' = [r \in Requests |-> pc'[r]] /\ auth' = [r \in Requests |-> auth'[r]]
        /\ row' = [r \in Requests |-> row'[r]]
    BY <1>2 DEF CallInv, RowsFollow
  <2>2. ASSUME NEW r \in Requests
        PROVE  /\ IsRow(row'[r])
               /\ pc'[r] \in {"idle", "verifying"} => row'[r].status = "none"
               /\ pc'[r] \in InFlight => row'[r].status = "verified"
    <3>1. CASE r \notin calls
      BY <1>2, <3>1 DEF CallInv, RowsFollow
    <3>2. CASE r \in calls
      <4>1. IsRow(row[r]) /\ row'[r] = [row[r] EXCEPT !.status = "settled"]
        BY <1>2, <3>2 DEF CallInv, RowsFollow
      <4>2. IsRow(row'[r])
        BY <4>1 DEF IsRow
      <4>3. Plan(k) \in todo[k]
        <5>1. todo[k] # {} /\ PlansOK(k)
          BY WorkInUse DEF Finalise, RunInv
        <5> QED  BY <5>1, PlanTaken
      <4>4. row[r].status \in {"captured", "settled"}
        BY <3>2, <4>3 DEF CallInv, PlansPend, calls
      <4> QED  BY <1>2, <4>2, <4>4 DEF CallInv, RowsFollow, InFlight
    <3> QED  BY <3>1, <3>2
  <2> QED  BY <2>1, <2>2 DEF RowsFollow
<1>8. /\ batchOf' = [r \in Requests |-> batchOf'[r]]
      /\ \A r \in Requests : batchOf'[r] # 0 => row'[r].status \in {"captured", "settled"}
  BY <1>2, <1>5 DEF CallInv
<1> QED  BY <1>2, <1>4, <1>6, <1>7, <1>8 DEF CallInv, OneCloser, Batches

(* A step that touches neither the calls nor the batches nor the plans.       *)
LEMMA ApartCalls ==
  ASSUME CallInv, UNCHANGED <<pc, auth, row, todo, batch, batchOf, swept>>
  PROVE  CallInv'
<1>1. RowsFollow' /\ SettledMeansSwept'
  BY DEF CallInv, RowsFollow, SettledMeansSwept
<1>2. \A k \in Closers : PlansPend(k)'
  BY DEF CallInv, PlansPend
<1> QED  BY <1>1, <1>2 DEF CallInv, Batches

LEMMA InitCalls == CloseInit => CallInv
<1> SUFFICES ASSUME CloseInit PROVE CallInv
  OBVIOUS
<1> USE DEF CloseInit, Init
<1>1. RowsFollow
  BY DEF RowsFollow, IsRow, NoRow, InFlight
<1>2. SettledMeansSwept
  BY DEF SettledMeansSwept, NoRow
<1>3. \A k \in Closers : PlansPend(k)
  BY DEF PlansPend
<1> QED  BY <1>1, <1>2, <1>3 DEF CallInv

LEMMA NextCalls == OneCloser /\ RunInv /\ CallInv /\ [CloseNext]_allVars => CallInv'
<1> SUFFICES ASSUME OneCloser, RunInv, CallInv, [CloseNext]_allVars PROVE CallInv'
  OBVIOUS
<1>1. CASE Next /\ UNCHANGED closeVars
  BY <1>1, ServerCalls
<1>2. ASSUME NEW s \in Sessions, NoteChannel(s) PROVE CallInv'
  BY <1>2, ApartCalls DEF NoteChannel, vars, ledgerVars, commandVars, chainVars
<1>3. ASSUME NEW k \in Closers, NEW due \in SUBSET Sessions, BuildPlans(k, due)
      PROVE  CallInv'
  BY <1>3, BuildPlansCalls
<1>4. ASSUME NEW k \in Closers, NEW b \in Batches, PlanResume(k, b) PROVE CallInv'
  BY <1>4, PlanResumeCalls
<1>5. ASSUME NEW k \in Closers, Proceed(k) PROVE CallInv'
  BY <1>5, ProceedCalls, OpenBatchCalls, FinaliseCalls DEF Proceed
<1>6. ASSUME NEW k \in Closers, NEW landed \in BOOLEAN,
             ClaimFails(k, landed) \/ SweepFails(k, landed)
      PROVE  CallInv'
  BY <1>6, ProceedCalls
<1>7. ASSUME NEW k \in Closers, Dies(k) PROVE CallInv'
  BY <1>7, ProceedCalls
<1>8. CASE UNCHANGED allVars
  BY <1>8, ApartCalls
     DEF allVars, closeVars, vars, ledgerVars, commandVars, chainVars
<1> QED  BY <1>1, <1>2, <1>3, <1>4, <1>5, <1>6, <1>7, <1>8 DEF CloseNext

(* A batched call that the ledger shows as settled is in a batch that was     *)
(* claimed and swept, whatever runs died or were refused in between and       *)
(* whatever the server captured meanwhile ("Calls are marked SETTLED ... only *)
(* after the sweep succeeds").                                                *)
THEOREM SettledCallsWereSwept == OneCloser => (CloseSpec => []SettledMeansSwept)
<1>1. RunInv /\ CallInv => SettledMeansSwept
  BY DEF CallInv
<1>2. ASSUME OneCloser PROVE CloseSpec => []SettledMeansSwept
  BY <1>1, <1>2, InitRun, NextRun, InitCalls, NextCalls, PTL DEF CloseSpec
<1> QED  BY <1>2

-----------------------------------------------------------------------------
(* What batches, plans and the chain add up to                                *)

\* A call attached to a batch is a voucher's, of the batch's session, and not
\* settled before its batch is.
AttachedOK ==
  \A r \in Requests :
    batchOf[r] # 0 =>
      /\ batchOf[r] \in UsedBatches /\ Recorded(r) /\ auth[r].scheme = "batch"
      /\ row[r].session = batch[batchOf[r]].session
      /\ batch[batchOf[r]].status # "settled" => row[r].status = "captured"

GrossAdds == \A b \in UsedBatches : batch[b].gross = Total(Attached(b), Booking)

\* A plan says what its calls captured.  Until its batch is open its calls are in
\* none; one that resumes, or is being worked on, has the calls of its batch.
PlansAdd(k) ==
  /\ \A p \in todo[k] :
       /\ p.calls # {} /\ p.gross = Total(p.calls, Booking)
       /\ p.resume = 0 /\ (at[k] = "next" \/ p # Plan(k)) => \A r \in p.calls : batchOf[r] = 0
       /\ p.resume # 0 /\ at[k] = "next" =>
            /\ p.calls = Attached(p.resume) /\ p.session = batch[p.resume].session
            /\ batch[p.resume].status # "settled"
  /\ at[k] \notin {"idle", "next"} =>
       Plan(k).calls = Attached(work[k]) /\ Plan(k).session = batch[work[k]].session

BatchInv ==
  /\ batchOf \in [Requests -> Batches \cup {0}]
  /\ AttachedOK /\ GrossAdds /\ \A k \in Closers : PlansAdd(k)

\* The calls of a payer that are in a batch, and those whose claim was accepted.
AttachedOf(p) == {r \in Requests : batchOf[r] # 0 /\ auth[r].payer = p}
Covered(b) == batch[b].claimed \/ \E k \in Closers : at[k] = "accepted" /\ work[k] = b
CoveredOf(p) == {r \in AttachedOf(p) : Covered(batchOf[r])}

\* A voucher to be claimed covers every call of its payer that is in a batch, and
\* the chain has seen what the accepted claims were for.
CollectInv ==
  /\ onChain \in [Payers -> Nat] /\ voucher \in [Closers -> Nat]
  /\ \A k \in Closers :
       at[k] \in {"opened", "claiming"} => Total(AttachedOf(Payer(k)), Booking) <= voucher[k]
  /\ \A p \in Payers : Total(CoveredOf(p), Booking) <= onChain[p]

-----------------------------------------------------------------------------
(* Plans and batches                                                          *)

(* A step of the command that settles nothing and attaches nothing.           *)
LEMMA BatchAlone ==
  ASSUME BatchInv, OneCloser, NEW k \in Closers, UNCHANGED <<auth, row, batchOf>>,
         \A b \in Batches :
           /\ batch'[b].session = batch[b].session /\ batch'[b].gross = batch[b].gross
           /\ batch'[b].status = "none" <=> batch[b].status = "none"
           /\ batch[b].status = "settled" => batch'[b].status = "settled",
         PlansAdd(k)'
  PROVE  BatchInv'
<1>1. UsedBatches' = UsedBatches /\ Booking' = Booking
      /\ \A b : Attached(b)' = Attached(b)
  BY DEF UsedBatches, Booking, Attached
<1>2. AttachedOK'
  BY <1>1 DEF BatchInv, AttachedOK, Recorded, UsedBatches
<1>3. GrossAdds'
  BY <1>1 DEF BatchInv, GrossAdds, UsedBatches
<1> QED  BY <1>2, <1>3 DEF BatchInv, OneCloser, Batches

(* A run that goes on with the plan it works on.                              *)
LEMMA PlansOn ==
  ASSUME BatchInv, NEW k \in Closers, UNCHANGED <<row, batchOf>>,
         at[k] \notin {"idle", "next"}, at'[k] \notin {"idle", "next"},
         todo'[k] = todo[k], work'[k] = work[k], batch'[work[k]].session = batch[work[k]].session
  PROVE  PlansAdd(k)'
<1>1. Plan(k)' = Plan(k) /\ Booking' = Booking /\ \A b : Attached(b)' = Attached(b)
  BY DEF Plan, Booking, Attached
<1>2. PlansAdd(k)
  BY DEF BatchInv
<1> QED  BY <1>1, <1>2 DEF PlansAdd

(* A run that drops the plan it works on.                                     *)
LEMMA PlansLeft ==
  ASSUME RunInv, CallInv, BatchInv, NEW k \in Closers, at[k] # "idle",
         NextPlan(k), UNCHANGED <<Booking, batchOf>>
  PROVE  PlansAdd(k)'
<1>1. at'[k] \in {"idle", "next"} /\ todo'[k] = todo[k] \ {Plan(k)}
  BY DEF NextPlan, RunInv, Shape
<1>2. Plan(k) \in todo[k]
  BY PlanTaken DEF RunInv, PlansOK
<1>3. \A p \in todo'[k] : p.resume = 0
  BY <1>1, <1>2 DEF CallInv, PlansPend
<1>4. \A p \in todo'[k] :
        p.calls # {} /\ p.gross = Total(p.calls, Booking) /\ \A r \in p.calls : batchOf[r] = 0
  BY <1>1, <1>3 DEF BatchInv, PlansAdd
<1> QED  BY <1>1, <1>3, <1>4 DEF PlansAdd

(* What a change of status keeps.                                             *)
LEMMA StatusKeeps ==
  ASSUME RunInv, NEW b \in UsedBatches, batch[b].status # "settled",
         NEW status, status # "none", batch' = [batch EXCEPT ![b].status = status]
  PROVE  \A c \in Batches :
           /\ batch'[c].session = batch[c].session /\ batch'[c].gross = batch[c].gross
           /\ batch'[c].status = "none" <=> batch[c].status = "none"
           /\ batch[c].status = "settled" => batch'[c].status = "settled"
<1>1. b \in Batches /\ batch[b].status # "none" /\ BatchShape(b)
  BY DEF UsedBatches, RunInv, Shape
<1>2. /\ batch'[b] = [batch[b] EXCEPT !.status = status]
      /\ \A c \in Batches \ {b} : batch'[c] = batch[c]
  BY <1>1 DEF RunInv, Shape
<1>3. /\ batch'[b].session = batch[b].session /\ batch'[b].gross = batch[b].gross
      /\ batch'[b].status = status
  BY <1>1, <1>2 DEF BatchShape
<1> QED  BY <1>1, <1>2, <1>3

LEMMA FailedBatch ==
  ASSUME RunInv, CallInv, BatchInv, OneCloser, NEW k \in Closers, at[k] # "idle",
         NEW b \in UsedBatches, batch[b].status # "settled", Failed(k, b),
         UNCHANGED <<auth, row, batchOf>>
  PROVE  BatchInv'
<1>1. batch' = [batch EXCEPT ![b].status = "failed"] /\ NextPlan(k)
  BY DEF Failed
<1>2. PlansAdd(k)'
  BY <1>1, PlansLeft DEF Booking
<1>3. \A c \in Batches :
        /\ batch'[c].session = batch[c].session /\ batch'[c].gross = batch[c].gross
        /\ batch'[c].status = "none" <=> batch[c].status = "none"
        /\ batch[c].status = "settled" => batch'[c].status = "settled"
  BY <1>1, StatusKeeps
<1> QED  BY <1>2, <1>3, BatchAlone

(* The batch a run works on is in use and not settled.                        *)
LEMMA WorkUnsettled ==
  ASSUME RunInv, NEW k \in Closers, at[k] \notin {"idle", "next"}
  PROVE  work[k] \in UsedBatches /\ batch[work[k]].status # "settled"
<1>1. at[k] \in Steps /\ Working(k)
  BY DEF RunInv, Shape
<1> QED  BY <1>1, WorkInUse DEF Steps, Working

LEMMA AdvanceBatch ==
  ASSUME RunInv, BatchInv, OneCloser, NEW k \in Closers, at[k] \notin {"idle", "next"},
         NEW step \in Steps \ {"idle", "next"},
         \/ batch' = batch
         \/ \E status : status # "none" /\ batch' = [batch EXCEPT ![work[k]].status = status]
         \/ batch' = [batch EXCEPT ![work[k]].status = "claimed", ![work[k]].claimed = TRUE],
         at' = [at EXCEPT ![k] = step], UNCHANGED <<auth, row, batchOf, todo, work>>
  PROVE  BatchInv'
<1> DEFINE b == work[k]
<1>1. b \in UsedBatches /\ b \in Batches /\ batch[b].status \notin {"none", "settled"}
  BY WorkUnsettled DEF UsedBatches
<1>2. \A c \in Batches :
        /\ batch'[c].session = batch[c].session /\ batch'[c].gross = batch[c].gross
        /\ batch'[c].status = "none" <=> batch[c].status = "none"
        /\ batch[c].status = "settled" => batch'[c].status = "settled"
  <2>1. CASE batch' = batch
    BY <2>1
  <2>2. CASE \E status : status # "none" /\ batch' = [batch EXCEPT ![b].status = status]
    BY <1>1, <2>2, StatusKeeps
  <2>3. CASE batch' = [batch EXCEPT ![b].status = "claimed", ![b].claimed = TRUE]
    <3>1. \A c \in Batches \ {b} : batch'[c] = batch[c]
      BY <2>3 DEF RunInv, Shape
    <3>2. /\ batch'[b].session = batch[b].session /\ batch'[b].gross = batch[b].gross
          /\ batch'[b].status = "claimed"
      BY <1>1, <2>3 DEF RunInv, Shape, BatchShape
    <3> QED  BY <1>1, <3>1, <3>2
  <2> QED  BY <2>1, <2>2, <2>3
<1>3. at'[k] = step
  BY DEF RunInv, Shape
<1>4. PlansAdd(k)'
  BY <1>1, <1>2, <1>3, PlansOn
<1> QED  BY <1>2, <1>4, BatchAlone

LEMMA SkipPlanBatch ==
  ASSUME RunInv, CallInv, BatchInv, OneCloser, NEW k \in Closers, SkipPlan(k)
  PROVE  BatchInv'
<1>1. UNCHANGED <<auth, row, batchOf, batch>> /\ NextPlan(k) /\ at[k] # "idle"
  BY DEF SkipPlan, vars, ledgerVars
<1>2. PlansAdd(k)'
  BY <1>1, PlansLeft DEF Booking
<1> QED  BY <1>1, <1>2, BatchAlone

LEMMA ResumeBatchBatch ==
  ASSUME RunInv, CallInv, BatchInv, OneCloser, NEW k \in Closers, ResumeBatch(k)
  PROVE  BatchInv'
<1> DEFINE b == Plan(k).resume
<1>1. at[k] = "next" /\ PlansOK(k) /\ todo[k] # {} /\ b # 0
      /\ UNCHANGED <<auth, row, batchOf>>
  BY DEF RunInv, PlansOK, ResumeBatch, vars, ledgerVars
<1>2. Plan(k) \in todo[k]
  BY <1>1, PlanTaken
<1>3. b \in UsedBatches /\ batch[b].status # "settled"
      /\ Plan(k).calls = Attached(b) /\ Plan(k).session = batch[b].session
  BY <1>1, <1>2 DEF PlansOK, BatchInv, PlansAdd
<1>4. CASE Failed(k, b)
  BY <1>1, <1>3, <1>4, FailedBatch
<1>5. CASE ~Failed(k, b)
  <2>1. PICK step \in {"settling", "claiming"} :
          Advance(k, b, step, step) /\ work' = [work EXCEPT ![k] = b] /\ UNCHANGED todo
    BY <1>5 DEF ResumeBatch
  <2>2. batch' = [batch EXCEPT ![b].status = step] /\ at'[k] = step /\ work'[k] = b
    BY <2>1 DEF Advance, RunInv, Shape
  <2>3. \A c \in Batches :
          /\ batch'[c].session = batch[c].session /\ batch'[c].gross = batch[c].gross
          /\ batch'[c].status = "none" <=> batch[c].status = "none"
          /\ batch[c].status = "settled" => batch'[c].status = "settled"
    BY <1>3, <2>2, StatusKeeps
  <2>4. Plan(k)' = Plan(k) /\ Booking' = Booking /\ \A c : Attached(c)' = Attached(c)
    BY <1>1, <2>1 DEF Plan, Booking, Attached
  <2>5. \A p \in todo[k] : p = Plan(k)
    BY <1>1, <1>2 DEF CallInv, PlansPend
  <2>6. PlansAdd(k)'
    <3>1. Plan(k).calls = Attached(work'[k]) /\ Plan(k).session = batch'[work'[k]].session
      BY <1>3, <2>2, <2>3 DEF UsedBatches
    <3>2. at'[k] # "next" /\ todo' = todo
      BY <2>1, <2>2
    <3>3. \A p \in todo[k] : p.calls # {} /\ p.gross = Total(p.calls, Booking)
      BY DEF BatchInv, PlansAdd
    <3> QED  BY <2>4, <2>5, <3>1, <3>2, <3>3 DEF PlansAdd
  <2> QED  BY <1>1, <2>3, <2>6, BatchAlone
<1> QED  BY <1>4, <1>5

LEMMA DiesBatch ==
  ASSUME RunInv, BatchInv, OneCloser, NEW k \in Closers, Dies(k)
  PROVE  BatchInv'
<1>1. UNCHANGED <<auth, row, batchOf, batch>> /\ at'[k] = "idle" /\ todo'[k] = {}
  BY DEF Dies, vars, ledgerVars, RunInv, Shape
<1>2. PlansAdd(k)'
  BY <1>1 DEF PlansAdd
<1> QED  BY <1>1, <1>2, BatchAlone

LEMMA BuildPlansBatch ==
  ASSUME RunInv, BatchInv, OneCloser, NEW k \in Closers, NEW due \in SUBSET Sessions,
         BuildPlans(k, due)
  PROVE  BatchInv'
<1>1. /\ UNCHANGED <<auth, row, batchOf, batch>> /\ \A s \in due : Selectable(s)
      /\ at'[k] = "next" /\ todo'[k] = {PlanFor(s) : s \in due}
  BY DEF BuildPlans, vars, ledgerVars, RunInv, Shape
<1>2. ASSUME NEW s \in due
      PROVE  LET p == PlanFor(s)
             IN  /\ p.calls # {} /\ p.gross = Total(p.calls, Booking) /\ p.resume = 0
                 /\ \A r \in p.calls : batchOf[r] = 0
  <2>1. Pending(s) # {} /\ \A r \in Pending(s) : batchOf[r] = 0
    BY <1>1 DEF Selectable, Pending
  <2> QED  BY <2>1 DEF PlanFor, Booking
<1>3. Booking' = Booking
  BY <1>1 DEF Booking
<1>4. PlansAdd(k)'
  <2>1. ASSUME NEW p \in todo'[k]
        PROVE  /\ p.calls # {} /\ p.gross = Total(p.calls, Booking) /\ p.resume = 0
               /\ \A r \in p.calls : batchOf[r] = 0
    BY <1>1, <1>2
  <2> QED  BY <1>1, <1>3, <2>1 DEF PlansAdd
<1> QED  BY <1>1, <1>4, BatchAlone

LEMMA PlanResumeBatch ==
  ASSUME RunInv, BatchInv, OneCloser, NEW k \in Closers, NEW b \in Batches, PlanResume(k, b)
  PROVE  BatchInv'
<1> DEFINE p == [session |-> batch[b].session, calls |-> Attached(b), noted |-> TRUE,
                 resume |-> b, gross |-> batch[b].gross]
<1>1. /\ UNCHANGED <<auth, row, batchOf, batch>> /\ Resumable(b)
      /\ at'[k] = "next" /\ todo'[k] = {p}
  BY DEF PlanResume, vars, ledgerVars, RunInv, Shape
<1>2. p.session = batch[b].session /\ p.calls = Attached(b) /\ p.resume = b
      /\ p.gross = batch[b].gross
  OBVIOUS
<1> HIDE DEF p
<1>3. /\ b \in UsedBatches /\ b # 0 /\ Attached(b) # {} /\ batch[b].status # "settled"
  BY <1>1, CloseBounds DEF Resumable, UsedBatches, Batches
<1>4. batch[b].gross = Total(Attached(b), Booking)
  BY <1>3 DEF BatchInv, GrossAdds
<1>5. Booking' = Booking /\ \A c : Attached(c)' = Attached(c)
  BY <1>1 DEF Booking, Attached
<1>6. PlansAdd(k)'
  <2>1. \A q \in todo'[k] :
          /\ q.calls = Attached(b) /\ q.session = batch[b].session /\ q.resume = b
          /\ q.gross = batch[b].gross
    BY <1>1, <1>2
  <2> QED  BY <1>1, <1>3, <1>4, <1>5, <2>1 DEF PlansAdd
<1> QED  BY <1>1, <1>6, BatchAlone

(* A batch opens with the calls of its plan, which were in none.              *)
LEMMA OpenBatchBatch ==
  ASSUME RunInv, CallInv, LedgerInv, BatchInv, OneCloser, NEW k \in Closers, OpenBatch(k)
  PROVE  BatchInv'
<1>0. PICK plan, b : plan = Plan(k) /\ b = NewBatch
  OBVIOUS
<1>1. at[k] = "next" /\ PlansOK(k) /\ todo[k] # {} /\ plan.resume = 0
  BY <1>0 DEF RunInv, PlansOK, OpenBatch
<1>2. plan \in todo[k]
  BY <1>0, <1>1, PlanTaken
<1>3. b \in Batches /\ b \notin UsedBatches /\ b # 0
  BY <1>0, NewBatchFree, CloseBounds DEF OpenBatch, Batches
<1>4. /\ UNCHANGED <<auth, row, todo>> /\ at'[k] = "opened" /\ work'[k] = b
      /\ batch'[b] = [status |-> "open", session |-> plan.session, gross |-> plan.gross,
                      claimed |-> FALSE]
      /\ \A c \in Batches \ {b} : batch'[c] = batch[c]
      /\ batchOf' = [r \in Requests |-> IF r \in plan.calls THEN b ELSE batchOf[r]]
  BY <1>0, <1>3 DEF OpenBatch, serverVars, RunInv, Shape
<1>5. \A r \in plan.calls :
        /\ r \in Requests /\ row[r].status = "captured" /\ row[r].session = plan.session
        /\ batchOf[r] = 0
  BY <1>1, <1>2 DEF CallInv, PlansPend, BatchInv, PlansAdd
<1>6. plan.gross = Total(plan.calls, Booking) /\ plan.calls # {}
  BY <1>2 DEF BatchInv, PlansAdd
<1>7. UsedBatches' = UsedBatches \cup {b} /\ Booking' = Booking
  BY <1>3, <1>4 DEF UsedBatches, Booking
<1>8. /\ Attached(b)' = plan.calls
      /\ \A c \in Batches \ {b} : Attached(c)' = Attached(c)
  <2>1. \A r \in Requests : batchOf[r] # b
    BY <1>3 DEF BatchInv, AttachedOK
  <2>2. \A c \in Batches : c # 0
    BY CloseBounds DEF Batches
  <2> QED  BY <1>4, <1>5, <2>1, <2>2 DEF Attached
<1>9. batchOf' \in [Requests -> Batches \cup {0}]
  BY <1>3, <1>4 DEF BatchInv
<1>10. AttachedOK'
  <2> SUFFICES ASSUME NEW r \in Requests, batchOf'[r] # 0
               PROVE  LET c == batchOf'[r]
                      IN  /\ c \in UsedBatches' /\ Recorded(r)' /\ auth'[r].scheme = "batch"
                          /\ row'[r].session = batch'[c].session
                          /\ batch'[c].status # "settled" => row'[r].status = "captured"
    BY DEF AttachedOK
  <2>1. CASE r \in plan.calls
    BY <1>3, <1>4, <1>5, <1>7, <2>1 DEF Recorded, LedgerInv, PayersAgree
  <2>2. CASE r \notin plan.calls
    <3>1. batchOf'[r] = batchOf[r] /\ batchOf[r] \in UsedBatches /\ batchOf[r] \in Batches \ {b}
      BY <1>3, <1>4, <2>2 DEF BatchInv, AttachedOK, UsedBatches
    <3> QED  BY <1>4, <1>7, <3>1 DEF BatchInv, AttachedOK, Recorded
  <2> QED  BY <2>1, <2>2
<1>11. GrossAdds'
  <2>1. batch'[b].gross = Total(Attached(b)', Booking')
    BY <1>4, <1>6, <1>7, <1>8
  <2>2. \A c \in UsedBatches : c \in Batches \ {b}
    BY <1>3 DEF UsedBatches
  <2>3. \A c \in UsedBatches : batch'[c].gross = Total(Attached(c)', Booking')
    BY <1>4, <1>7, <1>8, <2>2 DEF BatchInv, GrossAdds
  <2> QED  BY <1>7, <2>1, <2>3 DEF GrossAdds
<1>12. PlansAdd(k)'
  <2>1. Plan(k)' = plan
    BY <1>0, <1>4 DEF Plan
  <2>2. ASSUME NEW p \in todo[k], p.resume = 0, p # plan, NEW r \in p.calls
        PROVE  batchOf'[r] = 0
    <3>1. r \in Requests /\ batchOf[r] = 0 /\ row[r].session = p.session
      BY <1>1, <2>2 DEF CallInv, PlansPend, BatchInv, PlansAdd
    <3>2. p.session # plan.session
      BY <1>2, <2>2 DEF CallInv, PlansPend
    <3>3. r \notin plan.calls
      BY <1>5, <3>1, <3>2
    <3> QED  BY <1>4, <3>1, <3>3
  <2>3. \A p \in todo[k] : p.calls # {} /\ p.gross = Total(p.calls, Booking)
    BY DEF BatchInv, PlansAdd
  <2>4. todo' = todo /\ at'[k] \notin {"idle", "next"}
    BY <1>4
  <2>5. plan.calls = Attached(work[k])' /\ plan.session = batch'[work'[k]].session
    BY <1>4, <1>8 DEF Attached
  <2> QED  BY <1>7, <2>1, <2>2, <2>3, <2>4, <2>5 DEF PlansAdd
<1> QED  BY <1>9, <1>10, <1>11, <1>12 DEF BatchInv, OneCloser, Batches

(* The calls a run finalises are those of its batch, captured until now.      *)
LEMMA FinaliseCallsOf ==
  ASSUME RunInv, CallInv, LedgerInv, BatchInv, NEW k \in Closers, Finalise(k)
  PROVE  LET plan == Plan(k)
         IN  /\ plan.calls = Attached(work[k]) /\ plan.calls # {}
             /\ plan.gross = Total(plan.calls, Booking)
             /\ plan.session \in Sessions /\ session[plan.session].status # "none"
             /\ \A r \in plan.calls :
                  /\ r \in Requests /\ row[r].status = "captured" /\ row[r].session = plan.session
                  /\ batchOf[r] = work[k]
<1> DEFINE plan == Plan(k)
<1>1. work[k] \in UsedBatches /\ work[k] \in Batches /\ batch[work[k]].status # "settled"
      /\ todo[k] # {} /\ work[k] # 0
  BY WorkUnsettled, WorkInUse, CloseBounds DEF Finalise, Batches
<1>2. plan \in todo[k]
  BY <1>1, PlanTaken DEF RunInv
<1>3. plan.calls = Attached(work[k]) /\ plan.session = batch[work[k]].session
      /\ plan.calls # {} /\ plan.gross = Total(plan.calls, Booking)
  BY <1>2 DEF Finalise, BatchInv, PlansAdd
<1>4. \A r \in plan.calls :
        /\ r \in Requests /\ row[r].status = "captured" /\ row[r].session = plan.session
        /\ batchOf[r] = work[k]
  BY <1>1, <1>3 DEF BatchInv, AttachedOK, Attached
<1>5. plan.session \in Sessions /\ session[plan.session].status # "none"
  <2>1. PICK r \in plan.calls : TRUE
    BY <1>3
  <2>2. row[r].session = plan.session /\ row[r].status # "none" /\ r \in Requests
    BY <1>4, <2>1
  <2> QED  BY <2>2 DEF LedgerInv, TotalsInv, SessionsInOrder
<1> QED  BY <1>3, <1>4, <1>5

LEMMA FinaliseBatch ==
  ASSUME RunInv, CallInv, LedgerInv, BatchInv, OneCloser, NEW k \in Closers, Finalise(k)
  PROVE  BatchInv'
<1>0. PICK plan, b : plan = Plan(k) /\ b = work[k]
  OBVIOUS
<1>1. b \in Batches /\ b \in UsedBatches /\ batch[b].status \notin {"none", "settled"}
  BY <1>0, WorkUnsettled, WorkInUse DEF Finalise, UsedBatches
<1>2. /\ plan.calls = Attached(b)
      /\ \A r \in plan.calls : r \in Requests /\ row[r].status = "captured" /\ batchOf[r] = b
  BY <1>0, FinaliseCallsOf
<1>3. /\ UNCHANGED auth /\ NextPlan(k) /\ at[k] # "idle"
      /\ row' = [r \in Requests |->
           IF r \in plan.calls THEN [row[r] EXCEPT !.status = "settled"] ELSE row[r]]
      /\ batchOf' = [r \in Requests |-> IF r \in plan.calls THEN b ELSE batchOf[r]]
      /\ batch' = [batch EXCEPT ![b].status = "settled"]
  BY <1>0 DEF Finalise, serverVars
<1>4. batchOf' = batchOf
  BY <1>2, <1>3 DEF BatchInv
<1>5. \A r \in Requests :
        /\ row'[r].captured = row[r].captured /\ row'[r].session = row[r].session
        /\ Recorded(r) => Recorded(r)'
        /\ r \notin plan.calls => row'[r] = row[r]
  <2>1. \A r \in Requests : IsRow(row[r])
    BY DEF CallInv, RowsFollow
  <2>2. ASSUME NEW r \in plan.calls
        PROVE  row'[r].captured = row[r].captured /\ row'[r].session = row[r].session
               /\ row'[r].status = "settled"
    <3>1. row'[r] = [row[r] EXCEPT !.status = "settled"] /\ IsRow(row[r])
      BY <1>2, <1>3, <2>1
    <3> QED  BY <3>1 DEF IsRow
  <2>3. \A r \in Requests \ plan.calls : row'[r] = row[r]
    BY <1>3
  <2> QED  BY <2>2, <2>3 DEF Recorded
<1>6. Booking' = Booking
  BY <1>5 DEF Booking
<1>7. \A c : Attached(c)' = Attached(c)
  BY <1>4 DEF Attached
<1>8. /\ \A c \in Batches :
           /\ batch'[c].session = batch[c].session /\ batch'[c].gross = batch[c].gross
           /\ batch'[c].status = "none" <=> batch[c].status = "none"
           /\ batch[c].status = "settled" => batch'[c].status = "settled"
      /\ batch'[b].status = "settled"
  <2>1. \A c \in Batches :
           /\ batch'[c].session = batch[c].session /\ batch'[c].gross = batch[c].gross
           /\ batch'[c].status = "none" <=> batch[c].status = "none"
           /\ batch[c].status = "settled" => batch'[c].status = "settled"
    BY <1>1, <1>3, StatusKeeps
  <2>2. batch'[b].status = "settled"
    BY <1>1, <1>3 DEF RunInv, Shape, BatchShape
  <2> QED  BY <2>1, <2>2
<1>9. UsedBatches' = UsedBatches
  BY <1>8 DEF UsedBatches
<1>10. AttachedOK'
  <2> SUFFICES ASSUME NEW r \in Requests, batchOf[r] # 0
               PROVE  LET c == batchOf[r]
                      IN  /\ c \in UsedBatches' /\ Recorded(r)' /\ auth'[r].scheme = "batch"
                          /\ row'[r].session = batch'[c].session
                          /\ batch'[c].status # "settled" => row'[r].status = "captured"
    BY <1>4 DEF AttachedOK
  <2>1. batchOf[r] \in UsedBatches /\ batchOf[r] \in Batches /\ Recorded(r)
        /\ auth[r].scheme = "batch" /\ row[r].session = batch[batchOf[r]].session
        /\ (batch[batchOf[r]].status # "settled" => row[r].status = "captured")
    BY DEF BatchInv, AttachedOK, UsedBatches
  <2>2. batch'[batchOf[r]].status # "settled" => r \notin plan.calls
    BY <1>2, <1>8
  <2> QED  BY <1>3, <1>5, <1>8, <1>9, <2>1, <2>2
<1>11. GrossAdds'
  <2>1. \A c \in UsedBatches : c \in Batches
    BY DEF UsedBatches
  <2> QED  BY <1>6, <1>7, <1>8, <1>9, <2>1 DEF BatchInv, GrossAdds
<1>12. PlansAdd(k)'
  BY <1>3, <1>4, <1>6, PlansLeft
<1> QED  BY <1>4, <1>10, <1>11, <1>12 DEF BatchInv, OneCloser, Batches

(* The server, the operator's edit and stuttering: recorded calls stay.       *)
LEMMA ApartBatch ==
  ASSUME CallInv, BatchInv, UNCHANGED <<at, todo, work, batch, batchOf>>,
         \A r \in Requests : Recorded(r) => row'[r] = row[r] /\ auth'[r] = auth[r]
  PROVE  BatchInv'
<1>1. UsedBatches' = UsedBatches /\ (\A b : Attached(b)' = Attached(b))
      /\ \A k : Plan(k)' = Plan(k)
  BY DEF UsedBatches, Attached, Plan
<1>2. \A r \in Requests : Recorded(r) => Booking'[r] = Booking[r]
  BY DEF Booking
<1>3. ASSUME NEW S, \A r \in S : r \in Requests /\ Recorded(r)
      PROVE  Total(S, Booking) = Total(S, Booking')
  BY <1>2, <1>3, TotalAgree
<1>4. AttachedOK'
  BY <1>1 DEF BatchInv, AttachedOK, Recorded
<1>5. GrossAdds'
  <2>1. ASSUME NEW b \in UsedBatches
        PROVE  Total(Attached(b), Booking) = Total(Attached(b), Booking')
    <3>1. b # 0
      BY CloseBounds DEF UsedBatches, Batches
    <3>2. \A r \in Attached(b) : r \in Requests /\ Recorded(r)
      BY <3>1 DEF Attached, BatchInv, AttachedOK
    <3> QED  BY <1>3, <3>2
  <2> QED  BY <1>1, <2>1 DEF BatchInv, GrossAdds
<1>6. ASSUME NEW k \in Closers PROVE PlansAdd(k)'
  <2>1. ASSUME NEW p \in todo[k] PROVE Total(p.calls, Booking) = Total(p.calls, Booking')
    <3>1. \A r \in p.calls : r \in Requests /\ Recorded(r)
      BY DEF CallInv, PlansPend, Recorded
    <3> QED  BY <1>3, <3>1
  <2> QED  BY <1>1, <2>1 DEF BatchInv, PlansAdd
<1> QED  BY <1>4, <1>5, <1>6 DEF BatchInv, Batches

LEMMA InitBatch == CloseInit => LedgerInv /\ BatchInv
<1> SUFFICES ASSUME CloseInit PROVE LedgerInv /\ BatchInv
  OBVIOUS
<1>1. LedgerInv
  BY InitInv, InitTotals, InitPayers DEF CloseInit, LedgerInv
<1>2. UsedBatches = {}
  BY DEF CloseInit, UsedBatches, NoBatch
<1>3. AttachedOK /\ GrossAdds /\ batchOf \in [Requests -> Batches \cup {0}]
  BY <1>2 DEF CloseInit, AttachedOK, GrossAdds
<1>4. \A k \in Closers : PlansAdd(k)
  BY DEF CloseInit, PlansAdd
<1> QED  BY <1>1, <1>3, <1>4 DEF BatchInv

LEMMA NextLedger ==
  ASSUME OneCloser, RunInv, CallInv, LedgerInv, BatchInv, [CloseNext]_allVars
  PROVE  LedgerInv'
<1>1. CASE [Next]_vars
  BY <1>1, ServerLedger
<1>2. ASSUME NEW k \in Closers, OpenBatch(k) PROVE LedgerInv'
  <2>1. at[k] = "next" /\ PlansOK(k) /\ todo[k] # {} /\ Plan(k).resume = 0
    BY <1>2 DEF RunInv, PlansOK, OpenBatch
  <2>2. Plan(k) \in todo[k]
    BY <2>1, PlanTaken
  <2>3. PICK r \in Plan(k).calls : TRUE
    BY <2>2 DEF BatchInv, PlansAdd
  <2>4. r \in Requests /\ row[r].status = "captured" /\ row[r].session = Plan(k).session
    BY <2>1, <2>2, <2>3 DEF CallInv, PlansPend
  <2>5. Plan(k).session \in Sessions /\ session[Plan(k).session].status # "none"
    BY <2>4 DEF LedgerInv, TotalsInv, SessionsInOrder
  <2>6. /\ session' = [session EXCEPT ![Plan(k).session].status = "closing"]
        /\ UNCHANGED <<serverVars, row, tool>>
    BY <1>2 DEF OpenBatch
  <2> QED  BY <2>5, <2>6, ClosingLedger DEF serverVars
<1>3. ASSUME NEW k \in Closers, Finalise(k) PROVE LedgerInv'
  <2>1. PICK plan, s : plan = Plan(k) /\ s = plan.session
    OBVIOUS
  <2>2. /\ plan.gross = Total(plan.calls, Booking)
        /\ s \in Sessions /\ session[s].status # "none"
        /\ \A r \in plan.calls : r \in Requests /\ row[r].status = "captured" /\ row[r].session = s
    BY <1>3, <2>1, FinaliseCallsOf
  <2>3. /\ row' = [r \in Requests |->
             IF r \in plan.calls THEN [row[r] EXCEPT !.status = "settled"] ELSE row[r]]
        /\ session' = [session EXCEPT ![s] =
             [@ EXCEPT !.settled = session[s].settled + Total(plan.calls, Booking),
                       !.status = "settled"]]
        /\ UNCHANGED <<serverVars, tool>>
    BY <1>3, <2>1, <2>2 DEF Finalise, Paid
  <2>4. plan.calls \in SUBSET {r \in Requests : row[r].status = "captured" /\ row[r].session = s}
    BY <2>2
  <2>5. PICK status \in {"open", "settled"} : status = "settled"
    OBVIOUS
  <2>6. session' = [session EXCEPT ![s] =
             [@ EXCEPT !.settled = session[s].settled + Total(plan.calls, Booking),
                       !.status = status]]
    BY <2>3, <2>5
  <2> QED  BY <2>2, <2>3, <2>4, <2>6, SettlingLedger, ZenonT(60) DEF serverVars
<1>4. ASSUME NEW k \in Closers, Proceed(k), ~OpenBatch(k), ~Finalise(k) PROVE UNCHANGED vars
  BY <1>4 DEF Proceed, SkipPlan, ResumeBatch, StartClaim, Claim, RecordClaim, MarkClaimed,
              StartSettle, Sweep
<1>5. ASSUME NEW k \in Closers,
             \/ \E due \in SUBSET Sessions : BuildPlans(k, due)
             \/ \E b \in Batches : PlanResume(k, b)
             \/ \E landed \in BOOLEAN : ClaimFails(k, landed) \/ SweepFails(k, landed)
             \/ Dies(k)
      PROVE  UNCHANGED vars
  BY <1>5 DEF BuildPlans, PlanResume, ClaimFails, SweepFails, Dies
<1>6. ASSUME NEW s \in Sessions, NoteChannel(s) PROVE UNCHANGED vars
  BY <1>6 DEF NoteChannel
<1> QED  BY <1>1, <1>2, <1>3, <1>4, <1>5, <1>6 DEF CloseNext, allVars

LEMMA NextBatch ==
  ASSUME OneCloser, RunInv, CallInv, LedgerInv, BatchInv, [CloseNext]_allVars
  PROVE  BatchInv'
<1> USE DEF vars, ledgerVars, chainVars
<1>1. CASE Next /\ UNCHANGED closeVars
  <2>1. \A r \in Requests : Recorded(r) => row'[r] = row[r] /\ auth'[r] = auth[r]
    BY <1>1, ServerKeepsRows DEF CallInv, Recorded
  <2> QED  BY <1>1, <2>1, ApartBatch DEF closeVars, commandVars
<1>2. CASE UNCHANGED <<vars, at, todo, work, batch, batchOf>>
  BY <1>2, ApartBatch
<1>3. ASSUME NEW k \in Closers, NEW due \in SUBSET Sessions, BuildPlans(k, due)
      PROVE  BatchInv'
  BY <1>3, BuildPlansBatch
<1>4. ASSUME NEW k \in Closers, NEW b \in Batches, PlanResume(k, b) PROVE BatchInv'
  BY <1>4, PlanResumeBatch
<1>5. ASSUME NEW k \in Closers, Proceed(k) PROVE BatchInv'
  <2>1. CASE SkipPlan(k) \/ OpenBatch(k) \/ ResumeBatch(k) \/ Finalise(k)
    BY <2>1, SkipPlanBatch, OpenBatchBatch, ResumeBatchBatch, FinaliseBatch
  <2>2. CASE StartClaim(k)
    BY <2>2, AdvanceBatch DEF StartClaim, Advance, Steps
  <2>3. CASE Claim(k)
    BY <2>3, AdvanceBatch DEF Claim, Steps
  <2>4. CASE RecordClaim(k)
    BY <2>4, AdvanceBatch DEF RecordClaim, Steps
  <2>5. CASE MarkClaimed(k)
    BY <2>5, AdvanceBatch DEF MarkClaimed, Steps
  <2>6. CASE StartSettle(k)
    BY <2>6, AdvanceBatch DEF StartSettle, Advance, Steps
  <2>7. CASE Sweep(k)
    BY <2>7, AdvanceBatch DEF Sweep, Steps
  <2> QED  BY <1>5, <2>1, <2>2, <2>3, <2>4, <2>5, <2>6, <2>7 DEF Proceed
<1>6. ASSUME NEW k \in Closers, NEW landed \in BOOLEAN,
             ClaimFails(k, landed) \/ SweepFails(k, landed)
      PROVE  BatchInv'
  <2>1. at[k] \in {"claiming", "settling"} /\ Failed(k, work[k])
        /\ UNCHANGED <<auth, row, batchOf>>
    BY <1>6 DEF ClaimFails, SweepFails
  <2> QED  BY <2>1, WorkUnsettled, FailedBatch
<1>7. ASSUME NEW k \in Closers, Dies(k) PROVE BatchInv'
  BY <1>7, DiesBatch
<1>8. ASSUME NEW s \in Sessions, NoteChannel(s) PROVE BatchInv'
  BY <1>2, <1>8 DEF NoteChannel, commandVars
<1>9. CASE UNCHANGED allVars
  BY <1>2, <1>9 DEF allVars, closeVars, commandVars
<1> QED  BY <1>1, <1>3, <1>4, <1>5, <1>6, <1>7, <1>8, <1>9 DEF CloseNext

(* The whole of it is inductive, with one run of the command at a time.       *)
LEMMA CloseInvariance ==
  OneCloser => (CloseSpec => [](RunInv /\ CallInv /\ LedgerInv /\ BatchInv))
<1>1. CloseInit => RunInv /\ CallInv /\ LedgerInv /\ BatchInv
  BY InitRun, InitCalls, InitBatch
<1>2. ASSUME OneCloser PROVE CloseSpec => [](RunInv /\ CallInv /\ LedgerInv /\ BatchInv)
  <2>1. RunInv /\ CallInv /\ LedgerInv /\ BatchInv /\ [CloseNext]_allVars
        => (RunInv /\ CallInv /\ LedgerInv /\ BatchInv)'
    BY <1>2, NextRun, NextCalls, NextLedger, NextBatch
  <2> QED  BY <1>1, <2>1, PTL DEF CloseSpec
<1> QED  BY <1>2

(* A batch's gross is the sum of what its calls captured, and the session and *)
(* tool totals stay those of their calls, however often runs of the command   *)
(* die, are refused and are resumed while the server goes on serving.         *)
THEOREM BatchesAddUp == OneCloser => (CloseSpec => []BatchMatchesCalls)
<1>1. LedgerInv /\ BatchInv => BatchMatchesCalls
  BY DEF LedgerInv, TotalsInv, BatchInv, GrossAdds, Booking, BatchMatchesCalls
<1>2. ASSUME OneCloser PROVE CloseSpec => []BatchMatchesCalls
  BY <1>1, <1>2, CloseInvariance, PTL
<1> QED  BY <1>2

-----------------------------------------------------------------------------
(* What was collected                                                         *)

(* Every call of the plan a run takes or works on is of the plan's payer.     *)
LEMMA PlanCalls ==
  ASSUME RunInv, CallInv, LedgerInv, BatchInv, NEW k \in Closers, at[k] # "idle"
  PROVE  /\ Plan(k).calls # {} /\ Payer(k) \in Payers
         /\ \A r \in Plan(k).calls :
              /\ r \in Requests /\ Recorded(r) /\ row[r].session = Plan(k).session
              /\ auth[r].payer = Payer(k)
<1>0. PICK plan : plan = Plan(k)
  OBVIOUS
<1>1. PlansOK(k) /\ todo[k] # {} /\ at[k] \in Steps
  BY DEF RunInv, PlansOK, Shape
<1>2. plan \in todo[k] /\ plan.calls # {} /\ plan.session \in Sessions
  BY <1>0, <1>1, PlanTaken DEF BatchInv, PlansAdd, PlansOK
<1>3. \A r \in plan.calls : r \in Requests /\ Recorded(r)
  BY <1>2 DEF CallInv, PlansPend, Recorded
<1>4. ASSUME NEW r \in plan.calls PROVE row[r].session = plan.session
  <2>1. CASE plan.resume = 0
    BY <1>2, <2>1 DEF CallInv, PlansPend
  <2>2. CASE plan.resume # 0 /\ at[k] = "next"
    <3>1. batchOf[r] = plan.resume /\ plan.session = batch[plan.resume].session
      BY <1>2, <1>4, <2>2 DEF BatchInv, PlansAdd, Attached
    <3> QED  BY <1>3, <2>2, <3>1 DEF BatchInv, AttachedOK
  <2>3. CASE at[k] # "next"
    <3>1. batchOf[r] = work[k] /\ plan.session = batch[work[k]].session
      BY <1>0, <1>4, <2>3 DEF BatchInv, PlansAdd, Attached
    <3>2. work[k] # 0
      BY <2>3, WorkUnsettled, CloseBounds DEF UsedBatches, Batches
    <3> QED  BY <1>3, <3>1, <3>2 DEF BatchInv, AttachedOK
  <2> QED  BY <2>1, <2>2, <2>3
<1>5. Payer(k) = session[plan.session].payer
  BY <1>0 DEF Payer
<1>6. \A r \in plan.calls : auth[r].payer = Payer(k)
  BY <1>3, <1>4, <1>5 DEF LedgerInv, PayersAgree, Recorded
<1>7. Payer(k) \in Payers
  BY <1>2, <1>5 DEF LedgerInv, Inv, TypeOK, SessionRecord, Payers
<1> QED  BY <1>0, <1>2, <1>3, <1>4, <1>6, <1>7

(* What recorded vouchers of a payer come to is within what the payer's       *)
(* channel was charged.                                                       *)
LEMMA VoucherCovers ==
  ASSUME LedgerInv, NEW p, NEW S \in SUBSET Requests,
         \A r \in S : Recorded(r) /\ auth[r].scheme = "batch" /\ auth[r].payer = p
  PROVE  /\ Total(S, Booking) \in Nat /\ Charged(p) \in Nat
         /\ Total(S, Booking) <= Charged(p)
<1> DEFINE T == {r \in Requests : auth[r].scheme = "batch" /\ auth[r].payer = p}
<1>1. IsFiniteSet(S) /\ IsFiniteSet(T) /\ S \in SUBSET T
  BY RequestsFinite, FS_Subset
<1>2. \A r \in Requests : moved[r] \in Nat /\ row[r].captured \in Nat
  BY DEF LedgerInv, Inv, TypeOK, RowRecord
<1>3. \A r \in S : Booking[r] = moved[r] /\ moved[r] \in Nat
  BY <1>2 DEF Booking, LedgerInv, Inv, RecordedIsWhatMoved
<1>4. \A r \in T : moved[r] \in Nat
  BY <1>2
<1>5. Charged(p) = Total(T, moved)
  BY DEF Charged
<1> HIDE DEF T
<1>6. Total(S, Booking) = Total(S, moved)
  BY <1>3, TotalAgree
<1>7. Total(S, moved) <= Total(T, moved)
  BY <1>1, <1>4, TotalSubset
<1>8. Total(S, moved) \in Nat /\ Total(T, moved) \in Nat
  BY <1>1, <1>3, <1>4, TotalType
<1> QED  BY <1>5, <1>6, <1>7, <1>8

LEMMA AttachedCovered ==
  ASSUME LedgerInv, BatchInv, NEW p
  PROVE  /\ Total(AttachedOf(p), Booking) \in Nat /\ Charged(p) \in Nat
         /\ Total(AttachedOf(p), Booking) <= Charged(p)
<1>1. /\ AttachedOf(p) \in SUBSET Requests
      /\ \A r \in AttachedOf(p) :
           Recorded(r) /\ auth[r].scheme = "batch" /\ auth[r].payer = p
  BY DEF AttachedOf, BatchInv, AttachedOK
<1> QED  BY <1>1, VoucherCovers

(* Part of a payer's attached calls comes to no more than all of them.        *)
LEMMA AttachedParts ==
  ASSUME LedgerInv, BatchInv, NEW p, NEW S \in SUBSET AttachedOf(p)
  PROVE  Total(S, Booking) \in Nat /\ Total(S, Booking) <= Total(AttachedOf(p), Booking)
<1>1. IsFiniteSet(AttachedOf(p)) /\ IsFiniteSet(S)
  BY RequestsFinite, FS_Subset DEF AttachedOf
<1>2. \A r \in AttachedOf(p) : Booking[r] \in Nat
  BY DEF AttachedOf, Booking, LedgerInv, Inv, TypeOK, RowRecord
<1>3. \A r \in S : Booking[r] \in Nat
  BY <1>2
<1> QED  BY <1>1, <1>2, <1>3, TotalSubset, TotalType

(* A step that attaches nothing and claims nothing.                           *)
LEMMA CollectAlone ==
  ASSUME LedgerInv, BatchInv, CollectInv, UNCHANGED batchOf,
         \A r \in Requests :
           batchOf[r] # 0 => auth'[r] = auth[r] /\ row'[r].captured = row[r].captured,
         onChain' \in [Payers -> Nat], voucher' \in [Closers -> Nat],
         \A p \in Payers : onChain[p] <= onChain'[p],
         \A b \in Batches : Covered(b)' => Covered(b),
         \A k \in Closers :
           at'[k] \in {"opened", "claiming"} =>
             /\ at[k] \in {"opened", "claiming"} /\ voucher'[k] = voucher[k]
             /\ Payer(k)' = Payer(k)
  PROVE  CollectInv'
<1>1. \A p : AttachedOf(p)' = AttachedOf(p)
  BY DEF AttachedOf
<1>2. \A r \in Requests : batchOf[r] # 0 => Booking[r] = Booking'[r]
  BY DEF Booking
<1>3. ASSUME NEW p, NEW S \in SUBSET AttachedOf(p)
      PROVE  Total(S, Booking) = Total(S, Booking')
  <2>1. \A r \in S : Booking[r] = Booking'[r]
    BY <1>2 DEF AttachedOf
  <2> QED  BY <2>1, TotalAgree
<1>4. ASSUME NEW p PROVE CoveredOf(p)' \in SUBSET CoveredOf(p) /\ CoveredOf(p) \in SUBSET AttachedOf(p)
  <2>1. \A r \in Requests : batchOf[r] # 0 => batchOf[r] \in Batches
    BY DEF BatchInv
  <2> QED  BY <1>1, <2>1 DEF CoveredOf, AttachedOf, Covered
<1>5. ASSUME NEW p \in Payers PROVE Total(CoveredOf(p)', Booking') <= onChain'[p]
  <2>1. Total(CoveredOf(p)', Booking) <= Total(CoveredOf(p), Booking)
        /\ Total(CoveredOf(p), Booking) \in Nat /\ Total(CoveredOf(p)', Booking) \in Nat
    <3>1. IsFiniteSet(CoveredOf(p)) /\ IsFiniteSet(CoveredOf(p)')
      <4>1. CoveredOf(p) \in SUBSET Requests /\ CoveredOf(p)' \in SUBSET Requests
        BY <1>4 DEF AttachedOf
      <4> QED  BY <4>1, RequestsFinite, FS_Subset
    <3>2. \A r \in CoveredOf(p) : Booking[r] \in Nat
      BY <1>4 DEF AttachedOf, Booking, LedgerInv, Inv, TypeOK, RowRecord
    <3>3. \A r \in CoveredOf(p)' : Booking[r] \in Nat
      BY <1>4, <3>2
    <3>4. Total(CoveredOf(p), Booking) \in Nat /\ Total(CoveredOf(p)', Booking) \in Nat
      BY <3>1, <3>2, <3>3, TotalType
    <3>5. Total(CoveredOf(p)', Booking) <= Total(CoveredOf(p), Booking)
      BY <1>4, <3>1, <3>2, TotalSubset
    <3> QED  BY <3>4, <3>5
  <2>2. Total(CoveredOf(p)', Booking) = Total(CoveredOf(p)', Booking')
    <3>1. CoveredOf(p)' \in SUBSET AttachedOf(p)
      BY <1>4
    <3> QED  BY <1>3, <3>1
  <2>3. Total(CoveredOf(p), Booking) <= onChain[p] /\ onChain[p] \in Nat /\ onChain'[p] \in Nat
    BY DEF CollectInv
  <2> QED  BY <2>1, <2>2, <2>3
<1>6. ASSUME NEW k \in Closers, at'[k] \in {"opened", "claiming"}
      PROVE  Total(AttachedOf(Payer(k))', Booking') <= voucher'[k]
  <2>1. PICK p : p = Payer(k) /\ p = Payer(k)'
    BY <1>6
  <2>2. AttachedOf(Payer(k))' = AttachedOf(p)
    <3>1. AttachedOf(Payer(k))' = AttachedOf(p)'
      BY <2>1 DEF AttachedOf
    <3> QED  BY <1>1, <3>1
  <2>3. Total(AttachedOf(p), Booking) <= voucher'[k]
    BY <1>6, <2>1 DEF CollectInv
  <2>4. AttachedOf(p) \in SUBSET AttachedOf(p)
    OBVIOUS
  <2> QED  BY <1>3, <2>2, <2>3, <2>4
<1> QED  BY <1>5, <1>6 DEF CollectInv, Payers

(* The payer a run claims for is the same after a step that keeps its plans.  *)
LEMMA PayerStays ==
  ASSUME RunInv, CallInv, LedgerInv, BatchInv, PayersAgree', NEW k \in Closers,
         at[k] # "idle", todo'[k] = todo[k],
         \A r \in Requests : Recorded(r) => row'[r] = row[r] /\ auth'[r] = auth[r]
  PROVE  Payer(k)' = Payer(k)
<1>0. PICK plan : plan = Plan(k)
  OBVIOUS
<1>1. PICK r \in plan.calls : TRUE
  BY <1>0, PlanCalls
<1>2. r \in Requests /\ Recorded(r) /\ row[r].session = plan.session /\ auth[r].payer = Payer(k)
  BY <1>0, <1>1, PlanCalls
<1>3. Plan(k)' = plan
  BY <1>0 DEF Plan
<1>4. row'[r] = row[r] /\ auth'[r] = auth[r] /\ row'[r].status # "none"
  BY <1>2 DEF Recorded
<1>5. session'[plan.session].payer = auth'[r].payer
  BY <1>2, <1>4 DEF PayersAgree
<1>6. Payer(k)' = session'[plan.session].payer
  BY <1>3 DEF Payer
<1> QED  BY <1>2, <1>4, <1>5, <1>6

(* A step of the command that attaches nothing, and from which no batch is    *)
(* claimed that was not.                                                      *)
LEMMA CommandCollect ==
  ASSUME LedgerInv, BatchInv, CollectInv, OneCloser, NEW k \in Closers,
         UNCHANGED <<auth, row, session, batchOf>>,
         onChain' \in [Payers -> Nat], voucher' \in [Closers -> Nat],
         \A p \in Payers : onChain[p] <= onChain'[p],
         \A b \in Batches :
           batch'[b].claimed \/ (at'[k] = "accepted" /\ work'[k] = b)
           => batch[b].claimed \/ (at[k] = "accepted" /\ work[k] = b),
         at'[k] \in {"opened", "claiming"} =>
           /\ at[k] \in {"opened", "claiming"} /\ voucher'[k] = voucher[k]
           /\ todo'[k] = todo[k]
  PROVE  CollectInv'
<1>1. \A b \in Batches : Covered(b)' => Covered(b)
  <2>1. \A b : Covered(b) <=> batch[b].claimed \/ (at[k] = "accepted" /\ work[k] = b)
    BY DEF Covered, OneCloser
  <2>2. \A b : Covered(b)' <=> batch'[b].claimed \/ (at'[k] = "accepted" /\ work'[k] = b)
    BY DEF Covered, OneCloser
  <2> QED  BY <2>1, <2>2
<1>2. todo'[k] = todo[k] => Payer(k)' = Payer(k)
  <2>1. todo'[k] = todo[k] => Plan(k)' = Plan(k)
    BY DEF Plan
  <2> QED  BY <2>1 DEF Payer
<1>3. \A j \in Closers :
        at'[j] \in {"opened", "claiming"} =>
          /\ at[j] \in {"opened", "claiming"} /\ voucher'[j] = voucher[j]
          /\ Payer(j)' = Payer(j)
  <2> SUFFICES ASSUME NEW j \in Closers, at'[j] \in {"opened", "claiming"}
               PROVE  /\ at[j] \in {"opened", "claiming"} /\ voucher'[j] = voucher[j]
                      /\ Payer(j)' = Payer(j)
    OBVIOUS
  <2>1. j = k
    BY DEF OneCloser
  <2> QED  BY <1>2, <2>1
<1> QED  BY <1>1, <1>3, CollectAlone

(* A voucher to claim is the whole of what its payer's channel was charged.   *)
LEMMA ClaimsTyped ==
  ASSUME LedgerInv, BatchInv, CollectInv, NEW k \in Closers
  PROVE  /\ ClaimsFor(Plan(k)) \in Nat
         /\ ClaimsFor(Plan(k)) # 0 => ClaimsFor(Plan(k)) = Charged(Payer(k))
<1>1. PICK p : p = Payer(k)
  OBVIOUS
<1>2. Charged(p) \in Nat
  BY AttachedCovered
<1> QED  BY <1>1, <1>2 DEF ClaimsFor, Payer

LEMMA NextPlanCollect ==
  ASSUME RunInv, LedgerInv, BatchInv, CollectInv, OneCloser, NEW k \in Closers, NextPlan(k),
         UNCHANGED <<auth, row, session, batchOf>>,
         batch' = batch \/ \E b \in Batches : \E status : batch' = [batch EXCEPT ![b].status = status],
         onChain' \in [Payers -> Nat], \A p \in Payers : onChain[p] <= onChain'[p]
  PROVE  CollectInv'
<1>1. at'[k] \in {"idle", "next"}
  BY NextPlanTakes
<1>2. voucher' \in [Closers -> Nat]
  BY DEF NextPlan, CollectInv
<1>3. \A b \in Batches : batch'[b].claimed = batch[b].claimed
  BY DEF RunInv, Shape, BatchShape
<1> QED  BY <1>1, <1>2, <1>3, CommandCollect

(* Steps of a run that leave the chain as it was.                             *)
LEMMA QuietCollect ==
  ASSUME RunInv, LedgerInv, BatchInv, CollectInv, OneCloser, NEW k \in Closers,
         StartClaim(k) \/ RecordClaim(k) \/ MarkClaimed(k) \/ StartSettle(k) \/ Sweep(k)
  PROVE  CollectInv'
<1>1. /\ UNCHANGED <<auth, row, session, batchOf, onChain, todo, work, voucher>>
      /\ onChain \in [Payers -> Nat] /\ voucher \in [Closers -> Nat]
  BY DEF StartClaim, RecordClaim, MarkClaimed, StartSettle, Sweep, vars, ledgerVars,
         chainVars, CollectInv
<1>2. at \in [Closers -> Steps] /\ batch = [b \in Batches |-> batch[b]]
      /\ \A b \in Batches : BatchShape(b)
  BY DEF RunInv, Shape
<1>3. \A p \in Payers : onChain[p] <= onChain[p]
  BY <1>1
<1>4. CASE StartClaim(k) \/ StartSettle(k)
  <2>1. \A b \in Batches : batch'[b].claimed = batch[b].claimed
    BY <1>2, <1>4, SMTT(40) DEF StartClaim, StartSettle, Advance, BatchShape
  <2>2. at'[k] # "accepted" /\ (at'[k] = "claiming" => at[k] = "opened") /\ at'[k] # "opened"
    BY <1>2, <1>4 DEF StartClaim, StartSettle, Advance
  <2> QED  BY <1>1, <1>3, <2>1, <2>2, CommandCollect
<1>5. CASE RecordClaim(k)
  <2>1. at[k] = "accepted" /\ at'[k] = "claimed"
        /\ \A b \in Batches : b # work[k] => batch'[b] = batch[b]
    BY <1>2, <1>5 DEF RecordClaim
  <2> QED  BY <1>1, <1>3, <2>1, CommandCollect
<1>6. CASE MarkClaimed(k) \/ Sweep(k)
  <2>1. batch' = batch /\ at'[k] \in {"marked", "swept"}
    BY <1>2, <1>6 DEF MarkClaimed, Sweep
  <2> QED  BY <1>1, <1>3, <2>1, CommandCollect
<1> QED  BY <1>4, <1>5, <1>6

(* A claim that lands leaves on the chain what the voucher came to.           *)
LEMMA ClaimedChain ==
  ASSUME CollectInv, NEW k \in Closers, Payer(k) \in Payers, Claimed(k)
  PROVE  /\ onChain' \in [Payers -> Nat] /\ voucher[k] <= onChain'[Payer(k)]
         /\ \A p \in Payers : onChain[p] <= onChain'[p]
<1>0. PICK P, v : P = Payer(k) /\ v = voucher[k]
  OBVIOUS
<1>1. v \in Nat /\ P \in Payers /\ onChain \in [Payers -> Nat]
  BY <1>0 DEF CollectInv
<1>2. onChain' = [onChain EXCEPT ![P] = onChain[P] + (IF v > onChain[P] THEN v - onChain[P] ELSE 0)]
  BY <1>0 DEF Claimed
<1>3. \A p \in Payers : onChain[p] \in Nat
  BY <1>1
<1>4. PICK w \in Nat : w = onChain[P]
  BY <1>1, <1>3
<1>5. PICK n : n = w + (IF v > w THEN v - w ELSE 0)
  OBVIOUS
<1>6. n \in Nat /\ w <= n /\ v <= n
  BY <1>1, <1>4, <1>5
<1>7. onChain' = [onChain EXCEPT ![P] = n]
  BY <1>2, <1>4, <1>5
<1>8. onChain' \in [Payers -> Nat] /\ onChain'[P] = n
      /\ \A p \in Payers : p # P => onChain'[p] = onChain[p]
  BY <1>1, <1>6, <1>7
<1>9. \A p \in Payers : onChain[p] <= onChain'[p]
  BY <1>3, <1>4, <1>6, <1>8
<1> QED  BY <1>0, <1>6, <1>8, <1>9

LEMMA EndsCollect ==
  ASSUME RunInv, CallInv, LedgerInv, BatchInv, CollectInv, OneCloser, NEW k \in Closers,
         \/ SkipPlan(k) \/ Dies(k)
         \/ \E landed \in BOOLEAN : ClaimFails(k, landed) \/ SweepFails(k, landed)
         \/ \E due \in SUBSET Sessions : BuildPlans(k, due)
         \/ \E b \in Batches : PlanResume(k, b)
  PROVE  CollectInv'
<1>1. /\ UNCHANGED <<auth, row, session, batchOf>> /\ \A p \in Payers : onChain[p] <= onChain[p]
      /\ onChain \in [Payers -> Nat] /\ voucher \in [Closers -> Nat]
  BY DEF SkipPlan, Dies, ClaimFails, SweepFails, BuildPlans, PlanResume, vars, ledgerVars, CollectInv
<1>2. at \in [Closers -> Steps]
  BY DEF RunInv, Shape
<1>3. CASE SkipPlan(k)
  <2>1. NextPlan(k) /\ batch' = batch /\ onChain' = onChain
    BY <1>3 DEF SkipPlan, chainVars
  <2> QED  BY <1>1, <2>1, NextPlanCollect
<1>4. ASSUME NEW landed \in BOOLEAN, ClaimFails(k, landed) \/ SweepFails(k, landed)
      PROVE  CollectInv'
  <2>1. at[k] \in {"claiming", "settling"} /\ Failed(k, work[k])
    BY <1>4 DEF ClaimFails, SweepFails
  <2>2. onChain' \in [Payers -> Nat] /\ \A p \in Payers : onChain[p] <= onChain'[p]
    <3>1. CASE Claimed(k)
      BY <2>1, <3>1, PlanCalls, ClaimedChain
    <3>2. CASE onChain' = onChain
      BY <1>1, <3>2
    <3> QED  BY <1>4, <3>1, <3>2 DEF ClaimFails, SweepFails, chainVars
  <2>3. NextPlan(k) /\ \E status : batch' = [batch EXCEPT ![work[k]].status = status]
    BY <2>1 DEF Failed
  <2>4. work[k] \in Batches
    BY <2>1, WorkInUse
  <2> QED  BY <1>1, <2>2, <2>3, <2>4, NextPlanCollect
<1>5. CASE Dies(k)
  <2>1. at'[k] = "idle" /\ batch' = batch /\ onChain' = onChain /\ voucher' \in [Closers -> Nat]
    BY <1>1, <1>2, <1>5 DEF Dies, chainVars
  <2> QED  BY <1>1, <2>1, CommandCollect
<1>6. CASE \/ \E due \in SUBSET Sessions : BuildPlans(k, due)
           \/ \E b \in Batches : PlanResume(k, b)
  <2>1. at'[k] = "next" /\ batch' = batch /\ onChain' = onChain /\ voucher' = voucher
    BY <1>1, <1>2, <1>6 DEF BuildPlans, PlanResume, chainVars
  <2> QED  BY <1>1, <2>1, CommandCollect
<1> QED  BY <1>3, <1>4, <1>5, <1>6

LEMMA FinaliseCollect ==
  ASSUME RunInv, CallInv, LedgerInv, BatchInv, CollectInv, OneCloser, NEW k \in Closers,
         Finalise(k)
  PROVE  CollectInv'
<1>0. PICK plan : plan = Plan(k)
  OBVIOUS
<1>1. NextPlan(k) /\ onChain' = onChain /\ auth' = auth /\ at[k] = "swept"
  BY DEF Finalise, chainVars, serverVars
<1>2. \A r \in plan.calls : r \in Requests /\ batchOf[r] = work[k]
  BY <1>0, FinaliseCallsOf
<1>3. UNCHANGED batchOf
  <2>1. batchOf' = [r \in Requests |-> IF r \in plan.calls THEN work[k] ELSE batchOf[r]]
    BY <1>0 DEF Finalise
  <2> QED  BY <1>2, <2>1 DEF BatchInv
<1>4. \A r \in Requests : row'[r].captured = row[r].captured
  BY DEF Finalise, CallInv, RowsFollow, IsRow
<1>5. at'[k] \in {"idle", "next"} /\ voucher' \in [Closers -> Nat]
  BY <1>1, NextPlanTakes DEF NextPlan, CollectInv
<1>6. \A b \in Batches : batch'[b].claimed = batch[b].claimed
  BY DEF Finalise, RunInv, Shape, BatchShape
<1>7. \A b \in Batches : Covered(b)' => Covered(b)
  BY <1>5, <1>6 DEF Covered, OneCloser
<1>8. \A j \in Closers : at'[j] \notin {"opened", "claiming"}
  BY <1>5 DEF OneCloser
<1>9. onChain' \in [Payers -> Nat] /\ \A p \in Payers : onChain[p] <= onChain'[p]
  BY <1>1 DEF CollectInv
<1> QED  BY <1>1, <1>3, <1>4, <1>5, <1>7, <1>8, <1>9, CollectAlone

(* A step of the server, or of the operator beside it.                        *)
LEMMA ApartCollect ==
  ASSUME RunInv, CallInv, LedgerInv, BatchInv, CollectInv, PayersAgree',
         UNCHANGED <<at, todo, work, voucher, batch, batchOf, onChain>>,
         \A r \in Requests : Recorded(r) => row'[r] = row[r] /\ auth'[r] = auth[r]
  PROVE  CollectInv'
<1>1. \A r \in Requests : batchOf[r] # 0 => auth'[r] = auth[r] /\ row'[r] = row[r]
  BY DEF BatchInv, AttachedOK
<1>2. \A k \in Closers : at[k] \in {"opened", "claiming"} => Payer(k)' = Payer(k)
  BY PayerStays
<1>3. \A b \in Batches : Covered(b)' => Covered(b)
  BY DEF Covered
<1>4. onChain' \in [Payers -> Nat] /\ voucher' \in [Closers -> Nat]
      /\ \A p \in Payers : onChain[p] <= onChain'[p]
  BY DEF CollectInv
<1> QED  BY <1>1, <1>2, <1>3, <1>4, CollectAlone

(* Fewer covered calls come to no more than the chain has seen.               *)
LEMMA CoveredLess ==
  ASSUME LedgerInv, CollectInv, NEW p \in Payers, NEW S \in SUBSET CoveredOf(p)
  PROVE  Total(S, Booking) \in Nat /\ Total(S, Booking) <= onChain[p]
<1>1. IsFiniteSet(CoveredOf(p)) /\ IsFiniteSet(S)
  BY RequestsFinite, FS_Subset DEF CoveredOf, AttachedOf
<1>2. \A r \in CoveredOf(p) : Booking[r] \in Nat
  BY DEF CoveredOf, AttachedOf, Booking, LedgerInv, Inv, TypeOK, RowRecord
<1>3. \A r \in S : Booking[r] \in Nat
  BY <1>2
<1>4. Total(S, Booking) \in Nat /\ Total(CoveredOf(p), Booking) \in Nat
  BY <1>1, <1>2, <1>3, TotalType
<1>5. Total(S, Booking) <= Total(CoveredOf(p), Booking)
  BY <1>1, <1>2, TotalSubset
<1>6. Total(CoveredOf(p), Booking) <= onChain[p] /\ onChain[p] \in Nat
  BY DEF CollectInv
<1> QED  BY <1>4, <1>5, <1>6

LEMMA ResumeBatchCollect ==
  ASSUME RunInv, CallInv, LedgerInv, BatchInv, CollectInv, OneCloser, NEW k \in Closers,
         ResumeBatch(k)
  PROVE  CollectInv'
<1>0. PICK plan, b : plan = Plan(k) /\ b = plan.resume
  OBVIOUS
<1>1. at[k] = "next" /\ todo[k] # {} /\ b # 0 /\ PlansOK(k)
  BY <1>0 DEF ResumeBatch, RunInv, PlansOK
<1>2. b \in UsedBatches /\ b \in Batches
  BY <1>0, <1>1, PlanTaken DEF PlansOK, UsedBatches
<1>3. /\ UNCHANGED <<auth, row, session, batchOf, onChain>>
      /\ onChain \in [Payers -> Nat] /\ \A p \in Payers : onChain[p] <= onChain[p]
  BY DEF ResumeBatch, vars, ledgerVars, chainVars, CollectInv
<1>4. at \in [Closers -> Steps] /\ batch = [c \in Batches |-> batch[c]]
      /\ \A c \in Batches : BatchShape(c)
  BY DEF RunInv, Shape
<1>5. CASE Failed(k, b)
  <2>1. NextPlan(k) /\ \E status : batch' = [batch EXCEPT ![b].status = status]
    BY <1>5 DEF Failed
  <2> QED  BY <1>2, <1>3, <2>1, NextPlanCollect
<1>6. CASE ~Failed(k, b)
  <2>1. /\ voucher' = [voucher EXCEPT ![k] = ClaimsFor(plan)]
        /\ UNCHANGED todo
        /\ \/ batch[b].claimed /\ Advance(k, b, "settling", "settling")
           \/ ~batch[b].claimed /\ ClaimsFor(plan) # 0 /\ Advance(k, b, "claiming", "claiming")
    BY <1>0, <1>6 DEF ResumeBatch
  <2>2. voucher' \in [Closers -> Nat] /\ voucher'[k] = ClaimsFor(plan)
    BY <1>0, <2>1, ClaimsTyped DEF CollectInv
  <2>3. \A c \in Batches : batch'[c].claimed = batch[c].claimed
    BY <1>2, <1>4, <2>1 DEF Advance, BatchShape
  <2>4. CASE Advance(k, b, "settling", "settling")
    <3>1. at'[k] = "settling"
      BY <1>4, <2>4 DEF Advance
    <3> QED  BY <1>3, <2>2, <2>3, <3>1, CommandCollect
  <2>5. CASE ClaimsFor(plan) # 0 /\ Advance(k, b, "claiming", "claiming")
    <3>1. at'[k] = "claiming"
      BY <1>4, <2>5 DEF Advance
    <3>2. PICK P : P = Payer(k)
      OBVIOUS
    <3>3. Payer(k)' = P
      BY <1>3, <2>1, <3>2 DEF Payer, Plan
    <3>4. voucher'[k] = Charged(P)
      BY <1>0, <2>2, <2>5, <3>2, ClaimsTyped
    <3>5. Total(AttachedOf(P), Booking) <= Charged(P)
      BY AttachedCovered
    <3>6. \A p : AttachedOf(p)' = AttachedOf(p)
      BY <1>3 DEF AttachedOf
    <3>7. Booking' = Booking
      BY <1>3 DEF Booking
    <3>8. AttachedOf(Payer(k))' = AttachedOf(P)
      BY <1>3, <3>3 DEF AttachedOf
    <3>9. Total(AttachedOf(Payer(k))', Booking') <= voucher'[k]
      BY <3>4, <3>5, <3>7, <3>8
    <3>10. \A p : CoveredOf(p)' \in SUBSET CoveredOf(p)
      <4>1. \A c \in Batches : Covered(c)' => Covered(c)
        BY <2>3, <3>1 DEF Covered, OneCloser
      <4>2. \A r \in Requests : batchOf[r] # 0 => batchOf[r] \in Batches
        BY DEF BatchInv
      <4>3. \A r \in Requests : batchOf[r] # 0 /\ Covered(batchOf[r])' => Covered(batchOf[r])
        <5> SUFFICES ASSUME NEW r \in Requests, batchOf[r] # 0, Covered(batchOf[r])'
                     PROVE  Covered(batchOf[r])
          OBVIOUS
        <5>1. PICK c \in Batches : c = batchOf[r]
          BY <4>2
        <5>2. Covered(c)'
          BY <1>3, <5>1 DEF Covered
        <5> QED  BY <4>1, <5>1, <5>2
      <4> QED  BY <1>3, <4>3 DEF CoveredOf, AttachedOf, Covered
    <3>11. \A p \in Payers : Total(CoveredOf(p)', Booking') <= onChain'[p]
      BY <1>3, <3>7, <3>10, CoveredLess
    <3> QED  BY <1>3, <2>2, <3>9, <3>11 DEF CollectInv, OneCloser, Payers
  <2> QED  BY <2>1, <2>4, <2>5
<1> QED  BY <1>5, <1>6

(* Opening a batch: its voucher covers the calls it attaches.                 *)
LEMMA OpenBatchCollect ==
  ASSUME RunInv, CallInv, LedgerInv, BatchInv, CollectInv, OneCloser, NEW k \in Closers,
         OpenBatch(k)
  PROVE  CollectInv'
<1>0. PICK plan, b, P : plan = Plan(k) /\ b = NewBatch /\ P = Payer(k)
  OBVIOUS
<1>1. at[k] = "next" /\ todo[k] # {} /\ plan.resume = 0 /\ PlansOK(k) /\ plan \in todo[k]
  BY <1>0, PlanTaken DEF RunInv, PlansOK, OpenBatch
<1>2. b \in Batches \ UsedBatches /\ b # 0 /\ ~batch[b].claimed
  BY <1>0, NewBatchFree, CloseBounds DEF OpenBatch, Batches, RunInv, InOrder
<1>3. /\ UNCHANGED <<auth, row, todo, onChain>> /\ at'[k] = "opened"
      /\ ClaimsFor(plan) # 0 /\ voucher' = [voucher EXCEPT ![k] = ClaimsFor(plan)]
      /\ batch' = [c \in Batches |->
           IF c = b THEN [status |-> "open", session |-> plan.session, gross |-> plan.gross,
                          claimed |-> FALSE]
                    ELSE batch[c]]
      /\ batchOf' = [r \in Requests |-> IF r \in plan.calls THEN b ELSE batchOf[r]]
      /\ session' = [session EXCEPT ![plan.session].status = "closing"]
  BY <1>0 DEF OpenBatch, serverVars, chainVars, RunInv, Shape
<1>4. \A r \in plan.calls :
        r \in Requests /\ Recorded(r) /\ auth[r].payer = P /\ batchOf[r] = 0
        /\ auth[r].scheme = "batch"
  <2>1. \A r \in plan.calls : r \in Requests /\ auth[r].payer = P
    BY <1>0, <1>1, PlanCalls
  <2>2. \A r \in plan.calls : row[r].status = "captured" /\ batchOf[r] = 0
    BY <1>1 DEF CallInv, PlansPend, BatchInv, PlansAdd
  <2> QED  BY <2>1, <2>2 DEF Recorded, LedgerInv, PayersAgree
<1>5. voucher' \in [Closers -> Nat] /\ voucher'[k] = Charged(P)
  BY <1>0, <1>3, ClaimsTyped DEF CollectInv
<1>6. Payer(k)' = P /\ P \in Payers
  <2>1. Plan(k)' = plan
    BY <1>0, <1>3 DEF Plan
  <2>2. session'[plan.session].payer = session[plan.session].payer
    <3>1. plan.session \in Sessions /\ session \in [Sessions -> SessionRecord]
      BY <1>1 DEF PlansOK, LedgerInv, Inv, TypeOK
    <3>2. session[plan.session] \in SessionRecord
      BY <3>1
    <3> QED  BY <1>3, <3>1, <3>2 DEF SessionRecord
  <2> QED  BY <1>0, <1>1, <2>1, <2>2, PlanCalls DEF Payer
<1>7. Booking' = Booking
  BY <1>3 DEF Booking
<1>8. Total(AttachedOf(Payer(k))', Booking') <= voucher'[k]
  <2> DEFINE S == AttachedOf(P) \cup plan.calls
  <2>1. AttachedOf(Payer(k))' = S
    BY <1>2, <1>3, <1>4, <1>6 DEF AttachedOf
  <2>2. S \in SUBSET Requests
    BY <1>4 DEF AttachedOf
  <2>3. \A r \in S : Recorded(r) /\ auth[r].scheme = "batch" /\ auth[r].payer = P
    BY <1>4 DEF AttachedOf, BatchInv, AttachedOK
  <2> HIDE DEF S
  <2>4. Total(S, Booking) <= Charged(P)
    BY <2>2, <2>3, VoucherCovers
  <2> QED  BY <1>5, <1>7, <2>1, <2>4
<1>9. \A p : CoveredOf(p)' \in SUBSET CoveredOf(p)
  <2>1. ~Covered(b)'
    BY <1>2, <1>3 DEF Covered, OneCloser
  <2>2. \A c \in Batches \ {b} : Covered(c)' => Covered(c)
    BY <1>3 DEF Covered, OneCloser
  <2> SUFFICES ASSUME NEW p, NEW r \in CoveredOf(p)' PROVE r \in CoveredOf(p)
    OBVIOUS
  <2>3. PICK c : c = batchOf'[r]
    OBVIOUS
  <2>4. r \in Requests /\ c # 0 /\ auth[r].payer = p /\ Covered(c)'
    BY <1>3, <2>3 DEF CoveredOf, AttachedOf, Covered
  <2>5. c # b
    BY <2>1, <2>4
  <2>6. c = batchOf[r] /\ c \in Batches
    BY <1>3, <2>3, <2>4, <2>5 DEF BatchInv
  <2>7. Covered(c)
    BY <2>2, <2>4, <2>5, <2>6
  <2> QED  BY <2>4, <2>6, <2>7 DEF CoveredOf, AttachedOf
<1>10. \A p \in Payers : Total(CoveredOf(p)', Booking') <= onChain'[p]
  BY <1>3, <1>7, <1>9, CoveredLess
<1>11. onChain' \in [Payers -> Nat]
  BY <1>3 DEF CollectInv
<1> QED  BY <1>5, <1>8, <1>10, <1>11 DEF CollectInv, OneCloser, Payers

(* An accepted claim covers the calls of every batch it could be for.         *)
LEMMA ClaimCollect ==
  ASSUME RunInv, CallInv, LedgerInv, BatchInv, CollectInv, OneCloser, NEW k \in Closers,
         Claim(k)
  PROVE  CollectInv'
<1>0. PICK plan, b, P : plan = Plan(k) /\ b = work[k] /\ P = Payer(k)
  OBVIOUS
<1>1. /\ at[k] = "claiming" /\ at'[k] = "accepted" /\ Claimed(k)
      /\ UNCHANGED <<auth, row, session, batchOf, batch, todo, work, voucher>>
  BY DEF Claim, vars, ledgerVars, RunInv, Shape
<1>2. P \in Payers /\ \A r \in plan.calls : r \in Requests /\ auth[r].payer = P
  BY <1>0, <1>1, PlanCalls
<1>3. plan.calls = Attached(b)
  BY <1>0, <1>1 DEF BatchInv, PlansAdd
<1>4. /\ onChain' \in [Payers -> Nat] /\ voucher[k] <= onChain'[P]
      /\ \A p \in Payers : onChain[p] <= onChain'[p]
  BY <1>0, <1>1, <1>2, ClaimedChain
<1>5. Booking' = Booking /\ \A p : AttachedOf(p)' = AttachedOf(p)
  BY <1>1 DEF Booking, AttachedOf
<1>6. \A c \in Batches \ {b} : Covered(c)' => Covered(c)
  BY <1>0, <1>1 DEF Covered, OneCloser
<1>7. ASSUME NEW p \in Payers
      PROVE  Total(CoveredOf(p)', Booking') <= onChain'[p]
  <2>1. CASE p = P
    <3>1. CoveredOf(P)' \in SUBSET AttachedOf(P)
      BY <1>5 DEF CoveredOf, AttachedOf
    <3>2. Total(CoveredOf(P)', Booking) \in Nat
          /\ Total(CoveredOf(P)', Booking) <= Total(AttachedOf(P), Booking)
      BY <3>1, AttachedParts
    <3>3. Total(AttachedOf(P), Booking) <= voucher[k] /\ voucher[k] \in Nat
      BY <1>0, <1>1 DEF CollectInv
    <3>4. Total(AttachedOf(P), Booking) \in Nat /\ onChain'[P] \in Nat
      BY <1>2, <1>4, AttachedCovered
    <3>5. Total(CoveredOf(P)', Booking) <= onChain'[P]
      BY <1>4, <3>2, <3>3, <3>4
    <3> QED  BY <1>5, <2>1, <3>5 DEF CoveredOf, AttachedOf
  <2>2. CASE p # P
    <3>1. CoveredOf(p)' \in SUBSET CoveredOf(p)
      <4> SUFFICES ASSUME NEW r \in CoveredOf(p)' PROVE r \in CoveredOf(p)
        OBVIOUS
      <4>1. PICK c : c = batchOf[r]
        OBVIOUS
      <4>2. r \in Requests /\ c # 0 /\ auth[r].payer = p /\ Covered(c)'
        BY <1>1, <4>1 DEF CoveredOf, AttachedOf, Covered
      <4>3. c \in Batches \ {b}
        BY <1>2, <1>3, <2>2, <4>1, <4>2 DEF BatchInv, Attached
      <4> QED  BY <1>6, <4>1, <4>2, <4>3 DEF CoveredOf, AttachedOf
    <3>2. Total(CoveredOf(p)', Booking) \in Nat /\ Total(CoveredOf(p)', Booking) <= onChain[p]
      BY <3>1, CoveredLess
    <3>3. onChain[p] \in Nat /\ onChain'[p] \in Nat /\ onChain[p] <= onChain'[p]
      BY <1>4 DEF CollectInv
    <3> QED  BY <1>5, <3>2, <3>3
  <2> QED  BY <2>1, <2>2
<1>8. \A j \in Closers : at'[j] \notin {"opened", "claiming"}
  BY <1>1 DEF OneCloser
<1>9. voucher' \in [Closers -> Nat]
  BY <1>1 DEF CollectInv
<1> QED  BY <1>4, <1>7, <1>8, <1>9 DEF CollectInv, Payers

LEMMA InitCollect == CloseInit => CollectInv
<1> SUFFICES ASSUME CloseInit PROVE CollectInv
  OBVIOUS
<1>1. onChain \in [Payers -> Nat] /\ voucher \in [Closers -> Nat]
      /\ \A k \in Closers : at[k] = "idle"
  BY DEF CloseInit
<1>2. ASSUME NEW p \in Payers PROVE Total(CoveredOf(p), Booking) <= onChain[p]
  <2>1. CoveredOf(p) = {} /\ onChain[p] = 0
    BY DEF CloseInit, CoveredOf, AttachedOf
  <2>2. Total(CoveredOf(p), Booking) = 0
    BY <2>1, TotalZero
  <2> QED  BY <2>1, <2>2
<1> QED  BY <1>1, <1>2 DEF CollectInv

LEMMA NextCollect ==
  ASSUME OneCloser, RunInv, CallInv, LedgerInv, BatchInv, CollectInv, [CloseNext]_allVars
  PROVE  CollectInv'
<1> USE DEF vars, ledgerVars, chainVars
<1>1. PayersAgree'
  BY NextLedger DEF LedgerInv
<1>2. CASE Next /\ UNCHANGED closeVars
  <2>1. \A r \in Requests : Recorded(r) => row'[r] = row[r] /\ auth'[r] = auth[r]
    BY <1>2, ServerKeepsRows DEF CallInv, Recorded
  <2> QED  BY <1>1, <1>2, <2>1, ApartCollect DEF closeVars, commandVars
<1>3. CASE UNCHANGED <<vars, at, todo, work, voucher, batch, batchOf, onChain>>
  BY <1>1, <1>3, ApartCollect
<1>4. ASSUME NEW k \in Closers, Proceed(k) PROVE CollectInv'
  BY <1>4, EndsCollect, QuietCollect, FinaliseCollect, ResumeBatchCollect, OpenBatchCollect,
     ClaimCollect DEF Proceed
<1>5. ASSUME NEW k \in Closers,
             \/ \E due \in SUBSET Sessions : BuildPlans(k, due)
             \/ \E b \in Batches : PlanResume(k, b)
             \/ \E landed \in BOOLEAN : ClaimFails(k, landed) \/ SweepFails(k, landed)
             \/ Dies(k)
      PROVE  CollectInv'
  BY <1>5, EndsCollect
<1>6. ASSUME NEW s \in Sessions, NoteChannel(s) PROVE CollectInv'
  BY <1>3, <1>6 DEF NoteChannel, commandVars
<1>7. CASE UNCHANGED allVars
  BY <1>3, <1>7 DEF allVars, closeVars, commandVars
<1> QED  BY <1>2, <1>4, <1>5, <1>6, <1>7 DEF CloseNext

(* Calls settled in the ledger are of batches whose claim is recorded, and so *)
(* are within what the chain has seen of their payer.                         *)
LEMMA CollectedMeansIt == CallInv /\ LedgerInv /\ BatchInv /\ CollectInv => SettledIsCollected
<1> SUFFICES ASSUME CallInv, LedgerInv, BatchInv, CollectInv, NEW p \in Payers
             PROVE  Total({r \in Requests : /\ row[r].status = "settled" /\ auth[r].scheme = "batch"
                                            /\ auth[r].payer = p}, Booking) <= onChain[p]
  BY DEF SettledIsCollected, Booking
<1> DEFINE S == {r \in Requests : /\ row[r].status = "settled" /\ auth[r].scheme = "batch"
                                  /\ auth[r].payer = p}
<1>1. S \in SUBSET CoveredOf(p)
  <2> SUFFICES ASSUME NEW r \in S PROVE r \in CoveredOf(p)
    OBVIOUS
  <2>1. batchOf[r] \in swept /\ batch[batchOf[r]].claimed /\ swept \subseteq Batches
    BY DEF CallInv, SettledMeansSwept
  <2>2. batchOf[r] # 0
    BY <2>1, CloseBounds DEF Batches
  <2> QED  BY <2>1, <2>2 DEF CoveredOf, AttachedOf, Covered
<1> HIDE DEF S
<1>2. Total(S, Booking) <= onChain[p]
  BY <1>1, CoveredLess
<1> QED  BY <1>2 DEF S

(* What the ledger shows as settled of a payer's batched calls has been       *)
(* claimed on the payer's channel, whichever requests to the facilitator were *)
(* refused, landed unanswered or were made again after a death.               *)
THEOREM SettledWasClaimed == OneCloser => (CloseSpec => []SettledIsCollected)
<1>1. CloseInit => RunInv /\ CallInv /\ LedgerInv /\ BatchInv /\ CollectInv
  BY InitRun, InitCalls, InitBatch, InitCollect
<1>2. ASSUME OneCloser PROVE CloseSpec => []SettledIsCollected
  <2>1. RunInv /\ CallInv /\ LedgerInv /\ BatchInv /\ CollectInv /\ [CloseNext]_allVars
        => (RunInv /\ CallInv /\ LedgerInv /\ BatchInv /\ CollectInv)'
    BY <1>2, NextRun, NextCalls, NextLedger, NextBatch, NextCollect
  <2> QED  BY <1>1, <2>1, CollectedMeansIt, PTL DEF CloseSpec
<1> QED  BY <1>2

(* A run of the command opens no session: it closes or settles them.          *)
LEMMA NextOneOpenBeside ==
  ASSUME OneCloser, RunInv, CallInv, LedgerInv, BatchInv, OneOpenSession, [CloseNext]_allVars
  PROVE  OneOpenSession'
<1>1. CASE [Next]_vars
  BY <1>1, NextOneOpen DEF LedgerInv
<1>2. ASSUME NEW k \in Closers, OpenBatch(k) \/ Finalise(k) PROVE OneOpenSession'
  <2>1. PICK s : s = Plan(k).session
    OBVIOUS
  <2>2. PICK x : session' = [session EXCEPT ![s] = x]
                 /\ (s \in Sessions => x.payer = session[s].payer /\ x.status \in {"closing", "settled"})
    <3>1. s \in Sessions => session[s] \in SessionRecord
      BY DEF LedgerInv, Inv, TypeOK
    <3>2. CASE OpenBatch(k)
      <4>1. PICK y : y = [session[s] EXCEPT !.status = "closing"]
        OBVIOUS
      <4>2. session' = [session EXCEPT ![s] = y]
        BY <2>1, <3>2, <4>1 DEF OpenBatch, LedgerInv, Inv, TypeOK
      <4>3. s \in Sessions => y.payer = session[s].payer /\ y.status = "closing"
        BY <3>1, <4>1 DEF SessionRecord
      <4> QED  BY <4>2, <4>3
    <3>3. CASE Finalise(k)
      <4>1. PICK y : y = [session[s] EXCEPT !.settled = Paid(Plan(k)), !.status = "settled"]
        OBVIOUS
      <4>2. session' = [session EXCEPT ![s] = y]
        BY <2>1, <3>3, <4>1 DEF Finalise, LedgerInv, Inv, TypeOK
      <4>3. s \in Sessions => y.payer = session[s].payer /\ y.status = "settled"
        BY <3>1, <4>1 DEF SessionRecord
      <4> QED  BY <4>2, <4>3
    <3> QED  BY <1>2, <3>2, <3>3
  <2>3. /\ \A t \in Sessions \ {s} : session'[t] = session[t]
        /\ s \in Sessions => session'[s] = x
    BY <2>2 DEF LedgerInv, Inv, TypeOK
  <2> QED  BY <2>2, <2>3 DEF OneOpenSession, Sessions
<1>3. ASSUME NEW k \in Closers, Proceed(k), ~OpenBatch(k), ~Finalise(k) PROVE UNCHANGED vars
  BY <1>3 DEF Proceed, SkipPlan, ResumeBatch, StartClaim, Claim, RecordClaim, MarkClaimed,
              StartSettle, Sweep
<1>4. ASSUME NEW k \in Closers,
             \/ \E due \in SUBSET Sessions : BuildPlans(k, due)
             \/ \E b \in Batches : PlanResume(k, b)
             \/ \E landed \in BOOLEAN : ClaimFails(k, landed) \/ SweepFails(k, landed)
             \/ Dies(k)
      PROVE  UNCHANGED vars
  BY <1>4 DEF BuildPlans, PlanResume, ClaimFails, SweepFails, Dies
<1>5. ASSUME NEW s \in Sessions, NoteChannel(s) PROVE UNCHANGED vars
  BY <1>5 DEF NoteChannel
<1> QED  BY <1>1, <1>2, <1>3, <1>4, <1>5 DEF CloseNext, allVars

(* What the server promises it keeps with a run of the command beside it: no  *)
(* nonce is admitted twice, the ledger says what the facilitator moved, what  *)
(* it refused cost nothing and a payer has one open session.                  *)
THEOREM ServerPromisesStand ==
  OneCloser => (CloseSpec => [](/\ OneAdmissionPerNonce /\ RecordedIsWhatMoved
                                /\ RefusalsAreFree /\ OneOpenSession))
<1>1. LedgerInv => OneAdmissionPerNonce /\ RecordedIsWhatMoved /\ RefusalsAreFree
  BY DEF LedgerInv, Inv, OneAdmissionPerNonce, NoncesUnique, RowsFollowRequests
<1>2. CloseInit => OneOpenSession
  BY InitOneOpen DEF CloseInit
<1>3. ASSUME OneCloser
      PROVE  CloseSpec => [](/\ OneAdmissionPerNonce /\ RecordedIsWhatMoved
                             /\ RefusalsAreFree /\ OneOpenSession)
  <2>1. RunInv /\ CallInv /\ LedgerInv /\ BatchInv /\ OneOpenSession /\ [CloseNext]_allVars
        => OneOpenSession'
    BY <1>3, NextOneOpenBeside
  <2>2. CloseSpec => [](RunInv /\ CallInv /\ LedgerInv /\ BatchInv)
    BY <1>3, CloseInvariance
  <2> QED  BY <1>1, <1>2, <2>1, <2>2, PTL DEF CloseSpec
<1> QED  BY <1>3
=============================================================================
