--------------------------- MODULE RuntimeProofs ---------------------------
(***************************************************************************)
(* Theorems about the machines of the runtime: the circuit breaker of a    *)
(* worker, the billing webhook, a task chain, the OAuth connect flow, and  *)
(* the database sessions of concurrent requests.  They share no state, and *)
(* each part of this module speaks of one of them: its inductive           *)
(* invariant, the two facts that make it inductive, and the theorems that  *)
(* follow.  The last part is about who sees which row: the sessions of the *)
(* pool go from one scope to the next and never to two at once, and        *)
(* whatever an earlier borrower left on a session, a scope's statements    *)
(* see the rows of the tenant or user it is made for.                      *)
(***************************************************************************)
EXTENDS MCRuntime, FiniteSetTheorems, TLAPS

-----------------------------------------------------------------------------
(* The circuit breaker.                                                      *)

\* The clock and the timer, with the cooldown between its bounds; a pending resume
\* was set by a trip and is never overdue, since Node runs a due timer first.
BreakerInv ==
  /\ now \in 0 .. MaxTime
  /\ cooldownMs \in initialCooldownMs .. maxCooldownMs
  /\ resumedAt \in -1 .. now
  /\ timer \in Int
  /\ tripped \in BOOLEAN /\ workerPaused \in BOOLEAN
  /\ tripped => timer # -1
  /\ timer # -1 => tripped
  /\ workerPaused => tripped
  /\ timer # -1 => now <= timer /\ timer - now <= maxCooldownMs

\* A cooldown stays between the configured bounds, doubled or reset.
LEMMA CooldownBounds ==
  ASSUME BreakerInv
  PROVE  nextCooldown \in initialCooldownMs .. maxCooldownMs
BY BreakerAssumption DEF BreakerInv, nextCooldown, Min2

\* Each event of the worker and the clock keeps the breaker's invariant.
LEMMA BreakerStep == BreakerInv /\ [BreakerNext]_breakerVars => BreakerInv'
<1> SUFFICES ASSUME BreakerInv, [BreakerNext]_breakerVars PROVE BreakerInv'
  OBVIOUS
<1>1. CASE Tick
  BY <1>1, BreakerAssumption DEF Tick, BreakerInv
<1>2. ASSUME NEW pauseFails \in BOOLEAN, OnError(pauseFails) PROVE BreakerInv'
  <2>1. CASE Len(recentErrors) < errorThreshold
    BY <1>2, <2>1 DEF OnError, BreakerInv
  <2>2. CASE ~(Len(recentErrors) < errorThreshold)
    <3>1. /\ cooldownMs' = nextCooldown /\ timer' = now + nextCooldown
          /\ tripped' = TRUE /\ workerPaused' = ~pauseFails
          /\ UNCHANGED <<now, resumedAt>>
      BY <1>2, <2>2 DEF OnError
    <3>2. QED
      BY <3>1, CooldownBounds, BreakerAssumption DEF BreakerInv
  <2>3. QED
    BY <2>1, <2>2
<1>3. CASE TimerFires
  <2>1. /\ now' = now /\ cooldownMs' = cooldownMs /\ resumedAt' = now /\ timer' = -1
        /\ ~tripped' /\ ~workerPaused'
    BY <1>3 DEF TimerFires
  <2>2. tripped' \in BOOLEAN /\ workerPaused' \in BOOLEAN
    BY <1>3 DEF TimerFires
  <2>3. QED
    BY <2>1, <2>2 DEF BreakerInv
<1>4. CASE UNCHANGED breakerVars
  BY <1>4 DEF breakerVars, BreakerInv
<1>5. QED
  BY <1>1, <1>2, <1>3, <1>4 DEF BreakerNext

\* The breaker's invariant holds in every reachable state.
LEMMA BreakerInvariance == BreakerSpec => []BreakerInv
<1>1. ASSUME BreakerInit PROVE BreakerInv
  <2>1. tripped \in BOOLEAN /\ workerPaused \in BOOLEAN /\ ~tripped /\ ~workerPaused
    BY <1>1 DEF BreakerInit
  <2>2. QED
    BY <1>1, <2>1, BreakerAssumption DEF BreakerInit, BreakerInv
<1>2. QED
  BY <1>1, BreakerStep, PTL DEF BreakerSpec

\* However errors, failing pauses, resumes and new trips follow each other, a
\* worker that the breaker paused has a resume scheduled, at most the maximal
\* cooldown away.
THEOREM PausesEnd == BreakerSpec => []PausedWorkerIsRescheduled
<1>1. BreakerInv => PausedWorkerIsRescheduled
  BY DEF BreakerInv, PausedWorkerIsRescheduled
<1>2. QED
  BY <1>1, BreakerInvariance, PTL

-----------------------------------------------------------------------------
(* The billing webhook.                                                      *)

\* A delivery that changes the stored subscription.
Telling(e) == e.kind # "ignored"

\* The last telling event that is still to be delivered tells of the subscription
\* that is live; when there is none the column tells of it already, and the schedule
\* follows it.
BillingInv ==
  /\ BillingTypeOK
  /\ \A i \in 1 .. Len(events) :
       Telling(events[i]) /\ (\A j \in i + 1 .. Len(events) : ~Telling(events[j]))
         => stripeSubscriptionIdFor(events[i]) = live
  /\ (\A i \in 1 .. Len(events) : ~Telling(events[i])) => column = live /\ ~resync

\* The webhook's events and columns keep their types.
LEMMA BillingTypeStep == BillingTypeOK /\ [BillingNext]_billingVars => BillingTypeOK'
<1> SUFFICES ASSUME BillingTypeOK, [BillingNext]_billingVars PROVE BillingTypeOK'
  OBVIOUS
<1> DEFINE OneEvent(kind, s) == [kind |-> kind, subscription |-> s]
<1>1. \A s \in Subscriptions : /\ OneEvent("subscription-active", s) \in Event
                               /\ OneEvent("subscription-canceled", s) \in Event
                               /\ OneEvent("ignored", s) \in Event
  BY DEF Event
<1>2. ASSUME NEW s \in Subscriptions, Checkout(s) PROVE BillingTypeOK'
  <2>0. \A x, y \in Event : <<x, y>> \in Seq(Event)
    OBVIOUS
  <2>1. <<OneEvent("subscription-active", s), OneEvent("ignored", s)>> \in Seq(Event)
    BY <1>1, <2>0
  <2>2. events' \in Seq(Event)
    BY <1>2, <2>1 DEF Checkout, BillingTypeOK
  <2>3. QED
    BY <1>2, <2>2 DEF Checkout, BillingTypeOK
<1>3. CASE Cancel
  <2>1. OneEvent("subscription-canceled", live) \in Event
    BY <1>1, <1>3 DEF Cancel, BillingTypeOK
  <2>2. events' \in Seq(Event)
    BY <1>3, <2>1 DEF Cancel, BillingTypeOK
  <2>3. QED
    BY <1>3, <2>2 DEF Cancel, BillingTypeOK
<1>4. CASE Webhook \/ WebhookThrows
  <2>1. events # <<>> /\ Head(events) \in Event /\ Tail(events) \in Seq(Event)
    BY <1>4 DEF Webhook, WebhookThrows, BillingTypeOK
  <2>2. stripeSubscriptionIdFor(Head(events)) \in Subscriptions \cup {NoSubscription}
    BY <2>1 DEF Event, stripeSubscriptionIdFor
  <2>3. resync' \in BOOLEAN
    BY <1>4 DEF Webhook, WebhookThrows, BillingTypeOK
  <2>4. /\ events' \in Seq(Event) /\ failures' \in 0 .. MaxFailures
        /\ column' \in Subscriptions \cup {NoSubscription} /\ UNCHANGED <<live, used>>
    BY <1>4, <2>1, <2>2, BillingAssumption DEF Webhook, WebhookThrows, BillingTypeOK
  <2>5. QED
    BY <2>3, <2>4 DEF BillingTypeOK
<1>5. CASE UNCHANGED billingVars
  BY <1>5 DEF billingVars, BillingTypeOK
<1>6. QED
  BY <1>2, <1>3, <1>4, <1>5 DEF BillingNext

\* Each event at Stripe and each delivery keeps the webhook's invariant.
LEMMA BillingStep == BillingInv /\ [BillingNext]_billingVars => BillingInv'
<1> SUFFICES ASSUME BillingInv, [BillingNext]_billingVars PROVE BillingInv'
  OBVIOUS
<1> DEFINE n == Len(events)
<1>0. BillingTypeOK /\ BillingTypeOK' /\ n \in Nat
  BY BillingTypeStep DEF BillingInv, BillingTypeOK
<1>1. ASSUME NEW s \in Subscriptions, Checkout(s) PROVE BillingInv'
  <2>1. /\ Len(events') = n + 2 /\ live' = s
        /\ events'[n + 1] = [kind |-> "subscription-active", subscription |-> s]
        /\ events'[n + 2] = [kind |-> "ignored", subscription |-> s]
    BY <1>0, <1>1 DEF Checkout, BillingTypeOK
  <2>2. Telling(events'[n + 1]) /\ ~Telling(events'[n + 2])
        /\ stripeSubscriptionIdFor(events'[n + 1]) = s
    BY <2>1 DEF Telling, stripeSubscriptionIdFor
  <2>3. QED
    BY SMTT(30), <1>0, <2>1, <2>2 DEF BillingInv, Telling, stripeSubscriptionIdFor
<1>2. CASE Cancel
  <2>1. /\ Len(events') = n + 1 /\ live' = NoSubscription
        /\ events'[n + 1] = [kind |-> "subscription-canceled", subscription |-> live]
    BY <1>0, <1>2 DEF Cancel, BillingTypeOK
  <2>2. Telling(events'[n + 1]) /\ stripeSubscriptionIdFor(events'[n + 1]) = NoSubscription
    BY <2>1 DEF Telling, stripeSubscriptionIdFor
  <2>3. QED
    BY <1>0, <2>1, <2>2 DEF BillingInv, Telling, stripeSubscriptionIdFor
<1>3. CASE Webhook
  <2>1. /\ n > 0 /\ Head(events) = events[1] /\ Len(events') = n - 1
        /\ \A i \in 1 .. n - 1 : events'[i] = events[i + 1]
    BY <1>0, <1>3 DEF Webhook, BillingTypeOK
  <2>2. /\ live' = live
        /\ IF Telling(events[1]) THEN column' = stripeSubscriptionIdFor(events[1]) /\ ~resync'
           ELSE column' = column /\ resync' = resync
    BY <1>3, <2>1 DEF Webhook, Telling
  <2>3. ASSUME NEW i \in 1 .. Len(events'), Telling(events'[i]),
               \A j \in i + 1 .. Len(events') : ~Telling(events'[j])
        PROVE  stripeSubscriptionIdFor(events'[i]) = live'
    <3>1. i + 1 \in 1 .. n /\ events'[i] = events[i + 1]
      BY <1>0, <2>1
    <3>2. ASSUME NEW j \in i + 2 .. n PROVE ~Telling(events[j])
      <4>1. j - 1 \in i + 1 .. Len(events') /\ events'[j - 1] = events[j]
        BY <1>0, <2>1
      <4>2. QED
        BY <2>3, <4>1
    <3>3. QED
      BY <2>2, <2>3, <3>1, <3>2 DEF BillingInv
  <2>4. ASSUME \A i \in 1 .. Len(events') : ~Telling(events'[i])
        PROVE  column' = live' /\ ~resync'
    <3>1. ASSUME NEW j \in 2 .. n PROVE ~Telling(events[j])
      <4>1. j - 1 \in 1 .. Len(events') /\ events'[j - 1] = events[j]
        BY <1>0, <2>1
      <4>2. QED
        BY <2>4, <4>1
    <3>2. CASE Telling(events[1])
      BY <1>0, <2>1, <2>2, <3>1, <3>2 DEF BillingInv
    <3>3. CASE ~Telling(events[1])
      <4>1. \A j \in 1 .. n : ~Telling(events[j])
        BY <1>0, <3>1, <3>3
      <4>2. QED
        BY <2>2, <3>3, <4>1 DEF BillingInv
    <3>4. QED
      BY <3>2, <3>3
  <2>5. QED
    BY <1>0, <2>3, <2>4 DEF BillingInv
<1>4. CASE WebhookThrows
  <2>1. 1 \in 1 .. Len(events) /\ Telling(events[1])
    BY <1>0, <1>4 DEF WebhookThrows, Telling, BillingTypeOK
  <2>2. live' = live /\ events' = events
    BY <1>4 DEF WebhookThrows
  <2>3. QED
    BY <1>0, <2>1, <2>2 DEF BillingInv, Telling, stripeSubscriptionIdFor
<1>5. CASE UNCHANGED billingVars
  BY <1>0, <1>5 DEF billingVars, BillingInv, Telling, stripeSubscriptionIdFor
<1>6. QED
  BY <1>1, <1>2, <1>3, <1>4, <1>5 DEF BillingNext

\* The webhook's invariant holds in every reachable state.
LEMMA BillingInvariance == BillingSpec => []BillingInv
<1>1. ASSUME BillingInit PROVE BillingInv
  <2>1. ~resync /\ resync \in BOOLEAN
    BY <1>1 DEF BillingInit
  <2>2. /\ events = <<>> /\ live = NoSubscription /\ column = NoSubscription
        /\ used = {} /\ failures = 0
    BY <1>1 DEF BillingInit
  <2>3. BillingTypeOK
    BY <2>1, <2>2, BillingAssumption DEF BillingTypeOK
  <2>4. QED
    BY <2>1, <2>2, <2>3 DEF BillingInv
<1>2. QED
  BY <1>1, BillingStep, PTL DEF BillingSpec

\* However checkouts and cancellations follow each other, and whichever deliveries fail
\* half-way and are repeated: once Stripe's events are delivered the stored
\* subscription is the live one and the schedule was re-synced for it.
THEOREM PaidSignal == BillingSpec => []PaidSignalConverges
<1>1. BillingInv => PaidSignalConverges
  BY DEF BillingInv, PaidSignalConverges
<1>2. QED
  BY <1>1, BillingInvariance, PTL

-----------------------------------------------------------------------------
(* A task chain.                                                             *)

\* While a chain is not terminal every step before the current one is completed, its
\* gate approved, and none after it was started; only the current step can have an
\* outcome outstanding, and while the chain waits at a gate not even that one.
ChainInv ==
  LET c == chain.currentStepIndex
  IN /\ ChainTypeOK
     /\ \A s \in Steps : unreported[s] <= starts[s]
     /\ ~isTerminal =>
          /\ c \in Steps
          /\ \A s \in Steps : s < c =>
               chain.steps[s] = "completed" /\ (s \in Gated => s \in approvals)
          /\ \A s \in Steps : s > c => starts[s] = 0
          /\ \A s \in Steps : s # c => unreported[s] = 0
     /\ chain.status = "awaiting_approval" =>
          c \in Gated /\ chain.steps[c] = "completed" /\ unreported[c] = 0
     /\ CompletedChainDidEverything

\* The chain's row, and what a save changes of it.
ChainRow == [steps: [Steps -> {"pending", "completed", "failed"}],
             currentStepIndex: 1..NSteps + 1,
             status: Terminal \cup {"running", "awaiting_approval"}]

WithStatus(r, status) == [r EXCEPT !.status = status]
WithOutcome(r, s, outcome) == [r EXCEPT !.steps[s] = outcome]

\* What a save changes of the row: the status, the position, or a step's outcome.
LEMMA RowUpdates ==
  ASSUME NEW r \in ChainRow
  PROVE  /\ \A status \in Terminal \cup {"running", "awaiting_approval"} :
              LET u == WithStatus(r, status)
              IN  /\ u \in ChainRow /\ u.status = status
                  /\ u.steps = r.steps /\ u.currentStepIndex = r.currentStepIndex
         /\ \A status \in {"running", "awaiting_approval"} :
              r.currentStepIndex \in Steps =>
                LET u == pastCurrentStep(r, status)
                IN  /\ u \in ChainRow /\ u.steps = r.steps
                    /\ u.currentStepIndex = r.currentStepIndex + 1
                    /\ u.status = IF r.currentStepIndex = NSteps THEN "completed" ELSE status
         /\ \A s \in Steps, outcome \in {"completed", "failed"} :
              LET u == WithOutcome(r, s, outcome)
              IN  /\ u \in ChainRow /\ u.steps[s] = outcome
                  /\ \A t \in Steps : t # s => u.steps[t] = r.steps[t]
                  /\ u.currentStepIndex = r.currentStepIndex /\ u.status = r.status
<1>1. /\ r.steps \in [Steps -> {"pending", "completed", "failed"}]
      /\ r.currentStepIndex \in 1 .. NSteps + 1
      /\ r.status \in Terminal \cup {"running", "awaiting_approval"}
      /\ r = [steps |-> r.steps, currentStepIndex |-> r.currentStepIndex, status |-> r.status]
  BY DEF ChainRow
<1>2. ASSUME NEW status \in Terminal \cup {"running", "awaiting_approval"}
      PROVE  /\ WithStatus(r, status) \in ChainRow
             /\ WithStatus(r, status).status = status
             /\ WithStatus(r, status).steps = r.steps
             /\ WithStatus(r, status).currentStepIndex = r.currentStepIndex
  BY <1>1 DEF ChainRow, WithStatus
<1>3. ASSUME NEW status \in {"running", "awaiting_approval"}, r.currentStepIndex \in Steps
      PROVE  /\ pastCurrentStep(r, status) \in ChainRow
             /\ pastCurrentStep(r, status).steps = r.steps
             /\ pastCurrentStep(r, status).currentStepIndex = r.currentStepIndex + 1
             /\ pastCurrentStep(r, status).status =
                  IF r.currentStepIndex = NSteps THEN "completed" ELSE status
  <2> DEFINE past == [steps |-> r.steps, currentStepIndex |-> r.currentStepIndex + 1,
                      status |-> IF r.currentStepIndex = NSteps THEN "completed" ELSE status]
  <2>1. r.currentStepIndex \in Nat /\ r.currentStepIndex + 1 \in 1 .. NSteps + 1
        /\ (r.currentStepIndex >= NSteps <=> r.currentStepIndex = NSteps)
    BY <1>3, ChainAssumption DEF Steps
  <2>2. CASE r.currentStepIndex = NSteps
    <3>1. pastCurrentStep(r, status) = past
      BY <1>1, <2>1, <2>2 DEF pastCurrentStep
    <3>2. past \in ChainRow
      BY <1>1, <2>1, <2>2 DEF ChainRow, Terminal
    <3>3. QED
      BY <3>1, <3>2
  <2>3. CASE r.currentStepIndex # NSteps
    <3>1. pastCurrentStep(r, status) = past
      BY <1>1, <2>1, <2>3 DEF pastCurrentStep
    <3>2. past \in ChainRow
      BY <1>1, <2>1, <2>3 DEF ChainRow
    <3>3. QED
      BY <3>1, <3>2
  <2>4. QED
    BY <2>2, <2>3
<1>4. ASSUME NEW s \in Steps, NEW outcome \in {"completed", "failed"}
      PROVE  /\ WithOutcome(r, s, outcome) \in ChainRow
             /\ WithOutcome(r, s, outcome).steps[s] = outcome
             /\ \A t \in Steps : t # s => WithOutcome(r, s, outcome).steps[t] = r.steps[t]
             /\ WithOutcome(r, s, outcome).currentStepIndex = r.currentStepIndex
             /\ WithOutcome(r, s, outcome).status = r.status
  BY <1>1 DEF ChainRow, WithOutcome
<1>5. QED
  BY <1>2, <1>3, <1>4

\* Each caller's step keeps the chain's invariant, as long as a step is started once.
LEMMA ChainStep ==
  ASSUME MaxStarts = 1, ChainInv, [ChainNext]_chainVars
  PROVE  ChainInv'
<1> DEFINE c == chain.currentStepIndex
<1>0. /\ chain \in ChainRow /\ c \in 1 .. NSteps + 1 /\ Gated \subseteq Steps
      /\ starts \in [Steps -> 0 .. 1] /\ unreported \in [Steps -> 0 .. 1]
      /\ overdue \in BOOLEAN /\ approvals \subseteq Steps
      /\ chain.status \in Terminal \cup {"running", "awaiting_approval"}
  BY ChainAssumption DEF ChainInv, ChainTypeOK, ChainRow, Steps
<1>b. {"aborted_stale", "failed", "expired"} \subseteq Terminal \cup {"running", "awaiting_approval"}
  BY DEF Terminal
<1>1. CASE StartStep
  <2>1. PICK s \in nextRunnableStep :
              /\ starts[s] < MaxStarts
              /\ starts' = [starts EXCEPT ![s] = @ + 1]
              /\ unreported' = [unreported EXCEPT ![s] = @ + 1]
              /\ UNCHANGED <<chain, overdue, approvals>>
    BY <1>1 DEF StartStep
  <2>2. s = c /\ c \in Steps /\ chain.status = "running" /\ ~isTerminal
    BY <1>0, <2>1 DEF nextRunnableStep, isTerminal
  <2>3. starts[s] = 0 /\ unreported[s] = 0
    BY <1>0, <2>1, <2>2 DEF ChainInv
  <2>4. /\ starts' \in [Steps -> 0 .. 1] /\ unreported' \in [Steps -> 0 .. 1]
        /\ starts'[s] = 1 /\ unreported'[s] = 1
        /\ \A t \in Steps : t # s => starts'[t] = starts[t] /\ unreported'[t] = unreported[t]
    BY <1>0, <2>1, <2>2, <2>3
  <2>5. \A t \in Steps : t > c => t # s
    BY <2>2, <1>0 DEF Steps
  <2>6. QED
    BY <1>0, <2>1, <2>2, <2>4, <2>5
       DEF ChainInv, ChainTypeOK, isTerminal, CompletedChainDidEverything, Terminal
<1>2. ASSUME NEW s \in Steps, NEW success \in BOOLEAN, Report(s, success) PROVE ChainInv'
  <2>1. /\ unreported' \in [Steps -> 0 .. 1] /\ unreported[s] = 1 /\ unreported'[s] = 0
        /\ \A t \in Steps : t # s => unreported'[t] = unreported[t]
        /\ UNCHANGED <<starts, overdue, approvals>>
    BY <1>0, <1>2 DEF Report
  <2>2. CASE isTerminal
    <3>1. chain' = chain
      BY <1>2, <2>2 DEF Report
    <3>2. \A t \in Steps : unreported'[t] <= starts'[t]
      BY <1>0, <2>1 DEF ChainInv
    <3>3. QED
      BY <1>0, <2>1, <2>2, <3>1, <3>2
         DEF ChainInv, ChainTypeOK, isTerminal, CompletedChainDidEverything, Terminal
  <2>3. CASE ~isTerminal
    <3>1. s = c /\ chain.status = "running" /\ c < NSteps + 1
      BY <1>0, <2>1, <2>3, ChainAssumption DEF ChainInv, isTerminal, Steps
    <3> DEFINE done == [chain EXCEPT !.steps[s] = IF success THEN "completed" ELSE "failed"]
    <3>2. /\ done \in ChainRow /\ done.currentStepIndex = c /\ done.status = "running"
          /\ success => done.steps[s] = "completed"
          /\ \A t \in Steps : t # s => done.steps[t] = chain.steps[t]
      <4> DEFINE outcome == IF success THEN "completed" ELSE "failed"
      <4>1. outcome \in {"completed", "failed"} /\ (success => outcome = "completed")
        OBVIOUS
      <4>2. done = WithOutcome(chain, s, outcome)
        BY DEF WithOutcome
      <4> HIDE DEF outcome, done
      <4> DEFINE u == WithOutcome(chain, s, outcome)
      <4>3. /\ u \in ChainRow /\ u.steps[s] = outcome
            /\ \A t \in Steps : t # s => u.steps[t] = chain.steps[t]
            /\ u.currentStepIndex = c /\ u.status = chain.status
        BY <1>0, <4>1, RowUpdates
      <4> HIDE DEF u
      <4>4. QED
        BY <3>1, <4>1, <4>2, <4>3 DEF u
    <3>3. chain' = IF ~success THEN WithStatus(done, "failed")
                   ELSE IF s \in Gated THEN WithStatus(done, "awaiting_approval")
                   ELSE pastCurrentStep(done, done.status)
      BY <1>2, <2>3 DEF Report, advanceChain, WithStatus
    <3> HIDE DEF done
    <3>4. \A t \in Steps : unreported'[t] <= starts'[t] /\ unreported'[t] = 0
      BY <1>0, <2>1, <2>3, <3>1 DEF ChainInv
    <3>5. \A t \in Steps : t < c => /\ done.steps[t] = "completed"
                                    /\ t \in Gated => t \in approvals
      BY <1>0, <2>3, <3>1, <3>2 DEF ChainInv, Steps
    <3>6. \A t \in Steps : t > c => starts[t] = 0
      BY <2>3 DEF ChainInv
    <3>7. CASE ~success
      <4>1. chain' \in ChainRow /\ chain'.status = "failed"
        BY <1>b, <3>2, <3>3, <3>7, RowUpdates
      <4>2. QED
        BY <1>0, <2>1, <3>4, <4>1
           DEF ChainInv, ChainTypeOK, ChainRow, isTerminal, CompletedChainDidEverything, Terminal
    <3>8. CASE success /\ s \in Gated
      <4>1. /\ chain' \in ChainRow /\ chain'.status = "awaiting_approval"
            /\ chain'.steps = done.steps /\ chain'.currentStepIndex = c
        BY <3>2, <3>3, <3>8, RowUpdates
      <4>2. QED
        BY <1>0, <2>1, <3>1, <3>2, <3>4, <3>5, <3>6, <3>8, <4>1
           DEF ChainInv, ChainTypeOK, ChainRow, isTerminal, CompletedChainDidEverything, Terminal
    <3>9. CASE success /\ s \notin Gated
      <4>1. /\ chain' \in ChainRow /\ chain'.steps = done.steps
            /\ chain'.currentStepIndex = c + 1
            /\ chain'.status = IF c = NSteps THEN "completed" ELSE "running"
        BY <3>1, <3>2, <3>3, <3>9, RowUpdates
      <4>2. \A t \in Steps : t < c + 1 => /\ done.steps[t] = "completed"
                                          /\ t \in Gated => t \in approvals
        BY <1>0, <3>1, <3>2, <3>5, <3>9 DEF Steps
      <4>3. \A t \in Steps : t > c + 1 => starts[t] = 0
        BY <1>0, <3>6 DEF Steps
      <4>4. CASE c = NSteps
        <5>1. \A t \in Steps : t < c + 1
          BY <4>4, ChainAssumption DEF Steps
        <5>2. QED
          BY <1>0, <2>1, <3>4, <4>1, <4>2, <4>4, <5>1
             DEF ChainInv, ChainTypeOK, ChainRow, isTerminal, CompletedChainDidEverything, Terminal
      <4>5. CASE c # NSteps
        <5>1. c + 1 \in Steps
          BY <1>0, <3>1, <4>5, ChainAssumption DEF Steps
        <5>2. QED
          BY <1>0, <2>1, <3>4, <4>1, <4>2, <4>3, <4>5, <5>1
             DEF ChainInv, ChainTypeOK, ChainRow, isTerminal, CompletedChainDidEverything, Terminal
      <4>6. QED
        BY <4>4, <4>5
    <3>10. QED
      BY <3>7, <3>8, <3>9
  <2>4. QED
    BY <2>2, <2>3
<1>3. ASSUME NEW verdict \in {"approve", "reject"}, NEW valid \in BOOLEAN,
             resolveApprovalGate(verdict, valid)
      PROVE  ChainInv'
  <2>1. /\ chain.status = "awaiting_approval" /\ ~isTerminal
        /\ c \in Gated /\ c \in Steps /\ chain.steps[c] = "completed"
        /\ \A t \in Steps : unreported[t] = 0
        /\ UNCHANGED <<starts, unreported, overdue>>
    BY <1>0, <1>3 DEF resolveApprovalGate, ChainInv, isTerminal, Terminal
  <2>2. CASE ~(valid /\ verdict = "approve")
    <3>1. /\ approvals' = approvals
          /\ \E status \in {"aborted_stale", "failed"} : chain' = WithStatus(chain, status)
      BY <1>3, <2>2 DEF resolveApprovalGate, WithStatus
    <3>2. chain' \in ChainRow /\ chain'.status \in {"aborted_stale", "failed"}
      BY <1>0, <1>b, <3>1, RowUpdates
    <3>3. QED
      BY <1>0, <2>1, <3>1, <3>2
         DEF ChainInv, ChainTypeOK, ChainRow, isTerminal, CompletedChainDidEverything, Terminal
  <2>3. CASE valid /\ verdict = "approve"
    <3>1. chain' = pastCurrentStep(chain, "running") /\ approvals' = approvals \cup {c}
      BY <1>3, <2>3 DEF resolveApprovalGate
    <3>2. /\ chain' \in ChainRow /\ chain'.steps = chain.steps
          /\ chain'.currentStepIndex = c + 1
          /\ chain'.status = IF c = NSteps THEN "completed" ELSE "running"
      BY <1>0, <2>1, <3>1, RowUpdates
    <3>3. \A t \in Steps : t < c + 1 => /\ chain.steps[t] = "completed"
                                        /\ t \in Gated => t \in approvals'
      BY <1>0, <2>1, <3>1 DEF ChainInv, Steps
    <3>4. \A t \in Steps : t > c + 1 => starts[t] = 0
      BY <1>0, <2>1 DEF ChainInv, Steps
    <3>5. approvals' \subseteq Steps
      BY <1>0, <2>1, <3>1
    <3>6. CASE c = NSteps
      <4>1. \A t \in Steps : t < c + 1
        BY <3>6, ChainAssumption DEF Steps
      <4>2. QED
        BY <1>0, <2>1, <3>2, <3>3, <3>5, <3>6, <4>1
           DEF ChainInv, ChainTypeOK, ChainRow, isTerminal, CompletedChainDidEverything, Terminal
    <3>7. CASE c # NSteps
      <4>1. c + 1 \in Steps
        BY <1>0, <2>1, <3>7, ChainAssumption DEF Steps
      <4>2. QED
        BY <1>0, <2>1, <3>2, <3>3, <3>4, <3>5, <3>7, <4>1
           DEF ChainInv, ChainTypeOK, ChainRow, isTerminal, CompletedChainDidEverything, Terminal
    <3>8. QED
      BY <3>6, <3>7
  <2>4. QED
    BY <2>2, <2>3
<1>4. CASE PassExpiry
  <2>1. overdue' \in BOOLEAN /\ UNCHANGED <<chain, starts, unreported, approvals>>
    BY <1>4 DEF PassExpiry
  <2>2. QED
    BY <2>1 DEF ChainInv, ChainTypeOK, isTerminal, CompletedChainDidEverything, Terminal
<1>5. CASE expireChain
  <2>1. /\ chain' = WithStatus(chain, "expired")
        /\ UNCHANGED <<starts, unreported, overdue, approvals>>
    BY <1>5 DEF expireChain, WithStatus
  <2>2. chain' \in ChainRow /\ chain'.status = "expired"
    BY <1>0, <1>b, <2>1, RowUpdates
  <2>3. QED
    BY <1>0, <2>1, <2>2
       DEF ChainInv, ChainTypeOK, ChainRow, isTerminal, CompletedChainDidEverything, Terminal
<1>6. CASE UNCHANGED chainVars
  BY <1>6 DEF chainVars, ChainInv, ChainTypeOK, isTerminal, CompletedChainDidEverything
<1>7. QED
  BY <1>1, <1>2, <1>3, <1>4, <1>5, <1>6 DEF ChainNext

\* However outcomes, verdicts, the expiry sweep and late reports interleave, a chain
\* is completed only after every step ran to completion and every gate was approved,
\* provided no step's outcome is reported twice (MaxStarts = 1).
THEOREM CompletedMeansDone ==
  ASSUME MaxStarts = 1
  PROVE  ChainSpec => []CompletedChainDidEverything
<1>1. ASSUME ChainInit PROVE ChainInv
  <2>1. /\ chain.status = "running" /\ chain.currentStepIndex = 1 /\ chain \in ChainRow
        /\ starts \in [Steps -> 0 .. MaxStarts] /\ unreported = starts
        /\ \A s \in Steps : starts[s] = 0
    BY <1>1, ChainAssumption DEF ChainInit, ChainRow, Steps
  <2>2. overdue \in BOOLEAN /\ approvals \subseteq Steps
    BY <1>1 DEF ChainInit
  <2>3. 1 \in Steps /\ \A s \in Steps : ~(s < 1)
    BY ChainAssumption DEF Steps
  <2>4. QED
    BY <2>1, <2>2, <2>3
       DEF ChainInv, ChainTypeOK, ChainRow, isTerminal, Terminal, CompletedChainDidEverything
<1>2. ChainInv /\ [ChainNext]_chainVars => ChainInv'
  BY ChainStep
<1>3. ChainInv => CompletedChainDidEverything
  BY DEF ChainInv
<1>4. QED
  BY <1>1, <1>2, <1>3, PTL DEF ChainSpec

-----------------------------------------------------------------------------
(* The OAuth connect flow.                                                   *)

OAuthSpec == OAuthInit /\ [][OAuthNext]_oauthVars

\* What an accepted callback, and the credential it stores, take from its flow.
BoundTo(d) ==
  /\ d.tenant = flow[d.flow].tenant /\ d.agent = flow[d.flow].agent
  /\ d.tenant # SignedOut
  /\ d.acceptedAt - flow[d.flow].issuedAt <= StateTtl

\* A started flow is known by its tenant; what is accepted or stored is bound to a
\* started flow.  The provider's code is used up by the one callback that exchanged
\* it, which is about to store or has stored.
OAuthInv ==
  /\ OAuthTypeOK
  /\ \A f \in Flows : flow[f] = NoFlow \/ flow[f].tenant # SignedOut
  /\ \A c \in callbacks : BoundTo(c) /\ flow[c.flow].code # "none"
  /\ \A d \in connected : BoundTo(d) /\ flow[d.flow].code = "used"
  /\ \A c \in callbacks : c.pc = "store" =>
       /\ flow[c.flow].code = "used"
       /\ \A b \in callbacks : b.pc = "store" /\ b.flow = c.flow => b = c
       /\ \A d \in connected : d.flow # c.flow
  /\ \A d, e \in connected : d.flow = e.flow => d = e

\* A code issued or used up changes nothing else of its flow, nor any other flow.
LEMMA CodeUpdate ==
  ASSUME OAuthTypeOK, NEW f \in Flows, flow[f] # NoFlow,
         NEW code \in {"none", "issued", "used"}, flow' = [flow EXCEPT ![f].code = code]
  PROVE  /\ flow' \in [Flows -> {NoFlow} \cup
                        [tenant : OAuthTenants, agent : SubAgents, issuedAt : 0 .. MaxOAuthTime,
                         code : {"none", "issued", "used"}]]
         /\ flow'[f].code = code /\ flow'[f].tenant = flow[f].tenant
         /\ flow'[f].agent = flow[f].agent /\ flow'[f].issuedAt = flow[f].issuedAt
         /\ \A g \in Flows : g # f => flow'[g] = flow[g]
<1> DEFINE Bound == [tenant : OAuthTenants, agent : SubAgents, issuedAt : 0 .. MaxOAuthTime,
                     code : {"none", "issued", "used"}]
           r == [flow[f] EXCEPT !.code = code]
<1>1. flow \in [Flows -> {NoFlow} \cup Bound] /\ flow[f] \in Bound
  BY DEF OAuthTypeOK
<1>2. /\ r \in Bound /\ r.code = code /\ r.tenant = flow[f].tenant
      /\ r.agent = flow[f].agent /\ r.issuedAt = flow[f].issuedAt
  BY <1>1
<1>3. flow' = [flow EXCEPT ![f] = r]
  OBVIOUS
<1> HIDE DEF r, Bound
<1>4. flow' \in [Flows -> {NoFlow} \cup Bound]
  BY <1>1, <1>2, <1>3
<1>5. flow'[f] = r /\ \A g \in Flows : g # f => flow'[g] = flow[g]
  BY <1>1, <1>3
<1>6. QED
  BY <1>2, <1>4, <1>5 DEF Bound

\* Each request, answer and click keeps the connect flow's invariant.
LEMMA OAuthStep == OAuthInv /\ [OAuthNext]_oauthVars => OAuthInv'
<1> SUFFICES ASSUME OAuthInv, [OAuthNext]_oauthVars PROVE OAuthInv'
  OBVIOUS
<1> DEFINE Callback == [n : 1 .. MaxCallbacks, flow : Flows, tenant : OAuthTenants, agent : SubAgents,
                        acceptedAt : 0 .. MaxOAuthTime, pc : {"exchange", "store"}]
           Credential == [flow : Flows, tenant : OAuthTenants, agent : SubAgents,
                          acceptedAt : 0 .. MaxOAuthTime]
<1>0. OAuthTypeOK /\ callbacks \subseteq Callback /\ connected \subseteq Credential
      /\ NoFlow.tenant = SignedOut
  BY DEF OAuthInv, OAuthTypeOK, NoFlow
<1>1. ASSUME NEW f \in Flows, NEW a \in SubAgents, startFlow(f, a) PROVE OAuthInv'
  <2>1. /\ flow' \in [Flows -> {NoFlow} \cup
                        [tenant : OAuthTenants, agent : SubAgents, issuedAt : 0 .. MaxOAuthTime,
                         code : {"none", "issued", "used"}]]
        /\ flow'[f].tenant # SignedOut
        /\ \A g \in Flows : g # f => flow'[g] = flow[g]
    BY <1>0, <1>1 DEF startFlow, createOAuthState, OAuthTypeOK
  <2>2. flow[f] = NoFlow /\ UNCHANGED <<session, callbacks, connected, oauthTime>>
    BY <1>1 DEF startFlow
  <2>3. \A c \in callbacks \cup connected : c.flow \in Flows /\ c.flow # f
    BY <1>0, <2>2 DEF OAuthInv, BoundTo
  <2>4. QED
    BY <1>0, <2>1, <2>2, <2>3 DEF OAuthInv, OAuthTypeOK, BoundTo
<1>2. ASSUME NEW f \in Flows, Consent(f) PROVE OAuthInv'
  <2>1. /\ flow[f] # NoFlow /\ flow[f].code = "none" /\ flow' = [flow EXCEPT ![f].code = "issued"]
        /\ UNCHANGED <<session, callbacks, connected, oauthTime>>
    BY <1>2 DEF Consent
  <2>2. /\ flow' \in [Flows -> {NoFlow} \cup
                        [tenant : OAuthTenants, agent : SubAgents, issuedAt : 0 .. MaxOAuthTime,
                         code : {"none", "issued", "used"}]]
        /\ flow'[f].tenant = flow[f].tenant
        /\ \A g \in Flows : g # f => flow'[g] = flow[g]
    BY <1>0, <2>1, CodeUpdate
  <2>3. \A c \in callbacks \cup connected : c.flow \in Flows /\ c.flow # f
    BY <1>0, <2>1 DEF OAuthInv
  <2>4. QED
    BY <1>0, <2>1, <2>2, <2>3 DEF OAuthInv, OAuthTypeOK, BoundTo
<1>3. ASSUME NEW f \in Flows, callback(f) PROVE OAuthInv'
  <2>1. PICK n \in 1 .. MaxCallbacks :
          callbacks' = callbacks \cup {[n |-> n, flow |-> f, tenant |-> session,
                                        agent |-> flow[f].agent, acceptedAt |-> oauthTime,
                                        pc |-> "exchange"]}
    BY <1>3 DEF callback
  <2> DEFINE new == [n |-> n, flow |-> f, tenant |-> session, agent |-> flow[f].agent,
                     acceptedAt |-> oauthTime, pc |-> "exchange"]
  <2>2. /\ flow[f].code # "none" /\ flow[f] # NoFlow /\ session # SignedOut
        /\ flow[f].tenant = session /\ oauthTime - flow[f].issuedAt <= StateTtl
        /\ UNCHANGED <<session, flow, connected, oauthTime>>
    BY <1>3 DEF callback, callbackChecks, verifyOAuthState
  <2>3. flow[f].agent \in SubAgents /\ session \in OAuthTenants
    BY <1>0, <2>2 DEF OAuthTypeOK
  <2>4. /\ new \in Callback /\ new.flow = f /\ new.tenant = session /\ new.pc = "exchange"
        /\ new.agent = flow[f].agent /\ new.acceptedAt = oauthTime
    BY <1>0, <2>3 DEF OAuthTypeOK
  <2>5. callbacks' = callbacks \cup {new}
    BY <2>1
  <2> HIDE DEF new
  <2>6. BoundTo(new)
    BY <2>2, <2>4 DEF BoundTo
  <2>7. OAuthTypeOK'
    BY <1>0, <2>2, <2>4, <2>5 DEF OAuthTypeOK
  <2>8. QED
    BY <2>2, <2>4, <2>5, <2>6, <2>7 DEF OAuthInv, BoundTo
<1>4. ASSUME NEW c \in callbacks, exchangeGoogleCalendarCode(c) PROVE OAuthInv'
  <2> DEFINE f == c.flow
             stored == [c EXCEPT !.pc = "store"]
  <2>1. /\ c \in Callback /\ c.pc = "exchange" /\ f \in Flows /\ flow[f] # NoFlow
        /\ UNCHANGED <<session, connected, oauthTime>>
    BY <1>0, <1>4 DEF exchangeGoogleCalendarCode, OAuthInv, BoundTo
  <2>2. /\ flow' \in [Flows -> {NoFlow} \cup
                        [tenant : OAuthTenants, agent : SubAgents, issuedAt : 0 .. MaxOAuthTime,
                         code : {"none", "issued", "used"}]]
        /\ flow'[f].code = "used" /\ flow'[f].tenant = flow[f].tenant
        /\ flow'[f].agent = flow[f].agent /\ flow'[f].issuedAt = flow[f].issuedAt
        /\ \A g \in Flows : g # f => flow'[g] = flow[g]
    BY <1>0, <1>4, <2>1, CodeUpdate DEF exchangeGoogleCalendarCode
  <2>3. \A d \in callbacks \cup connected :
           /\ d.flow \in Flows /\ BoundTo(d) /\ BoundTo(d)'
           /\ flow[d.flow].code = "used" => flow'[d.flow].code = "used"
           /\ flow[d.flow].code # "none" => flow'[d.flow].code # "none"
    BY <1>0, <2>2 DEF OAuthInv, BoundTo
  <2>4. \A g \in Flows : flow'[g] = NoFlow \/ flow'[g].tenant # SignedOut
    BY <1>0, <2>1, <2>2 DEF OAuthInv
  <2>5. CASE callbacks' = callbacks \ {c}
    <3>1. OAuthTypeOK'
      BY <1>0, <2>1, <2>2, <2>5 DEF OAuthTypeOK
    <3>2. QED
      BY <2>1, <2>3, <2>4, <2>5, <3>1 DEF OAuthInv
  <2>6. CASE flow[f].code = "issued" /\ callbacks' = (callbacks \ {c}) \cup {stored}
    <3>1. /\ stored \in Callback /\ stored.flow = f /\ stored.tenant = c.tenant
          /\ stored.agent = c.agent /\ stored.acceptedAt = c.acceptedAt /\ stored.pc = "store"
      BY <2>1
    <3>2. callbacks' = (callbacks \ {c}) \cup {stored}
      BY <2>6
    <3> HIDE DEF stored
    <3>3. BoundTo(stored)'
      BY <2>1, <2>3, <3>1 DEF BoundTo
    <3>4. /\ \A b \in callbacks : b.pc = "store" => b.flow # f
          /\ \A d \in connected : d.flow # f
      BY <2>6 DEF OAuthInv
    <3>5. OAuthTypeOK'
      BY <1>0, <2>1, <2>2, <3>1, <3>2 DEF OAuthTypeOK
    <3>6. \A b \in callbacks' : b = stored \/ (b \in callbacks /\ b # c)
      BY <3>2
    <3>7. \A b \in callbacks' : BoundTo(b)' /\ flow'[b.flow].code # "none"
      BY <2>2, <2>3, <3>1, <3>3, <3>6 DEF OAuthInv
    <3>8. \A d \in connected' : BoundTo(d)' /\ flow'[d.flow].code = "used"
      BY <2>1, <2>3 DEF OAuthInv
    <3>9. \A b \in callbacks' : b.pc = "store" =>
            /\ flow'[b.flow].code = "used"
            /\ \A e \in callbacks' : e.pc = "store" /\ e.flow = b.flow => e = b
            /\ \A d \in connected' : d.flow # b.flow
      BY <2>1, <2>2, <2>3, <3>1, <3>4, <3>6 DEF OAuthInv
    <3>10. QED
      BY <2>1, <2>4, <3>5, <3>7, <3>8, <3>9 DEF OAuthInv
  <2>7. QED
    BY <1>4, <2>5, <2>6 DEF exchangeGoogleCalendarCode
<1>5. ASSUME NEW c \in callbacks, storeExchanged(c) PROVE OAuthInv'
  <2> DEFINE d == [flow |-> c.flow, tenant |-> c.tenant, agent |-> c.agent,
                   acceptedAt |-> c.acceptedAt]
  <2>1. /\ c.pc = "store" /\ callbacks' = callbacks \ {c}
        /\ connected' = connected \cup {d} \/ connected' = connected
        /\ UNCHANGED <<session, flow, oauthTime>>
    BY <1>5 DEF storeExchanged
  <2>2. /\ d \in Credential /\ d.flow = c.flow /\ d.tenant = c.tenant /\ d.agent = c.agent
        /\ d.acceptedAt = c.acceptedAt
    BY <1>0
  <2> HIDE DEF d
  <2>3. /\ BoundTo(d) /\ flow[d.flow].code = "used"
        /\ \A b \in callbacks : b.pc = "store" /\ b.flow = d.flow => b = c
        /\ \A e \in connected : e.flow # d.flow
    BY <2>1, <2>2 DEF OAuthInv, BoundTo
  <2>4. OAuthTypeOK'
    BY <1>0, <2>1, <2>2 DEF OAuthTypeOK
  <2>5. /\ \A b \in callbacks' : b \in callbacks /\ b # c
        /\ \A e \in connected' : e = d \/ e \in connected
    BY <2>1
  <2>6. QED
    BY <2>1, <2>3, <2>4, <2>5 DEF OAuthInv, BoundTo
<1>6. ASSUME NEW t \in OAuthTenants \cup {SignedOut}, SwitchTenant(t) PROVE OAuthInv'
  BY <1>6 DEF SwitchTenant, OAuthInv, OAuthTypeOK, BoundTo
<1>7. CASE OAuthTick
  BY <1>7, OAuthAssumption DEF OAuthTick, OAuthInv, OAuthTypeOK, BoundTo
<1>8. CASE UNCHANGED oauthVars
  BY <1>8 DEF oauthVars, OAuthInv, OAuthTypeOK, BoundTo
<1>9. QED
  BY <1>1, <1>2, <1>3, <1>4, <1>5, <1>6, <1>7, <1>8 DEF OAuthNext

\* The connect flow's invariant holds in every reachable state.
LEMMA OAuthInvariance == OAuthSpec => []OAuthInv
<1>1. ASSUME OAuthInit PROVE OAuthInv
  BY <1>1, OAuthAssumption DEF OAuthInit, OAuthInv, OAuthTypeOK
<1>2. QED
  BY <1>1, OAuthStep, PTL DEF OAuthSpec

\* However the browser switches tenants, repeats callbacks and delays them, a stored
\* credential belongs to the tenant and the sub-agent its flow was started for, was
\* accepted within the state's lifetime, and is the only one of its flow.
THEOREM ConnectedWhereStarted == OAuthSpec => []StoredWhereStarted
<1>1. OAuthInv => StoredWhereStarted
  BY DEF OAuthInv, BoundTo, StoredWhereStarted
<1>2. QED
  BY <1>1, OAuthInvariance, PTL

-----------------------------------------------------------------------------
(* The data: calls, rows, settings, sessions and open scopes.               *)

Names == {"none", "u1", "u2", "tA", "tB", "vU", "vW", "vA", "vB"}
Tables == {"batches", "members"}
Scopes == {"tenant", "user", "both", "metrics", "bare", "client"}
Ops == {"route", "read", "claim", "activate", "users", "delete", "cascade", "insert", "find", "miss"}

\* No row and no call carries UNSET_SCOPE_UUID.
RowT == [table : Tables, user : Names, tenant : Names]
CallT == [scope : Scopes, user : Names, tenant : Names, op : Ops, row : RowT]
SettingsT == [tenant : Names \cup {Unset}, user : Names \cup {Unset}, metrics : BOOLEAN]
SessionT == [st : {"absent", "idle", "held"}, live : BOOLEAN, txn : BOOLEAN, settings : SettingsT]
FrameT == [phase : Phases, conn : Conns \cup {NoOne}]

\* A call for a tenant names one.
CallSound(k) == k \in CallT /\ (k.scope \in {"tenant", "both"} => k.tenant # NoOne)

RequestT == [script : Seq(CallT), at : Nat, stack : Seq(FrameT), threw : BOOLEAN,
             outcome : {NoOne, "ok", "error"}]

-----------------------------------------------------------------------------
(* The inductive invariant.                                                 *)

\* The types, and the one policy that is always there: files 0004 and 0005 only add
\* one, and 0006 drops that one again.
DbShape ==
    /\ conn \in [Conns -> SessionT]
    /\ rows \subseteq RowT
    /\ req \in [Requests -> RequestT]
    /\ policies \in {{"owner_isolation"}, {"owner_isolation", "user_isolation"}}

\* A request with an open scope is at one of its calls.  Only a route call nests, its
\* outer scope waiting in fn; a scope has a session exactly once it has connected;
\* a fresh client never takes one from the pool.
StackSound(q) ==
    /\ \A i \in 1 .. Len(q.script) : CallSound(q.script[i])
    /\ Len(q.stack) <= 2
    /\ q.stack # <<>> => q.at \in 1 .. Len(q.script)
    /\ Len(q.stack) = 2 => q.stack[1].phase = "fn"
    /\ \A i \in 1 .. Len(q.stack) :
        /\ q.stack[i].conn = NoOne <=> q.stack[i].phase = "connect"
        /\ q.script[q.at].scope = "client" => q.stack[i].phase = "connect"

Has(r, i, c) == i \in 1 .. Len(req[r].stack) /\ req[r].stack[i].conn = c

\* The settings on a session are the ones of the call, and nothing else.
InScope(s, k) ==
    /\ s.tenant = (IF k.scope \in {"tenant", "both"} THEN k.tenant ELSE Unset)
    /\ s.user = (IF k.scope \in {"user", "both"} THEN k.user ELSE Unset)
    /\ s.metrics = (k.scope = "metrics")

\* What a scope of call k, at phase p, knows of its session.
Borrowed(k, p, x) ==
    /\ p = "begin" \/ k.scope = "bare" => x.txn = FALSE
    /\ p \in {"fn", "commit"} /\ k.scope # "bare" => InScope(x.settings, k)

\* The session c is out, and fit for r's i-th scope.
Lends(r, i, c) == conn[c].st = "held" /\ Borrowed(TheCall(r), req[r].stack[i].phase, conn[c])

\* A session is out with one scope of one request, or with nobody.
PoolSound ==
    /\ \A c \in Conns : conn[c].st = "idle" => conn[c].live = TRUE /\ conn[c].txn = FALSE
    /\ \A c \in Conns : conn[c].st = "held" => \E r \in Requests, i \in 1 .. 2 : Has(r, i, c)
    /\ \A c \in Conns, r \in Requests, i \in 1 .. 2 : Has(r, i, c) => Lends(r, i, c)
    /\ \A c \in Conns, r, q \in Requests, i, j \in 1 .. 2 :
        Has(r, i, c) /\ Has(q, j, c) => r = q /\ i = j

DbInv == DbShape /\ (\A r \in Requests : StackSound(req[r])) /\ PoolSound

-----------------------------------------------------------------------------
(* The scripts are made of sound calls.                                     *)

LEMMA CallIsSound ==
  \A scope \in Scopes, u, t \in Names, op \in Ops, x \in RowT :
    (scope \in {"tenant", "both"} => t # NoOne) => CallSound(Call(scope, u, t, op, x))
BY DEF Call, CallSound, CallT, NoOne

LEMMA RowsAreRows ==
  \A u, t \in Names : Batch(u, t) \in RowT /\ Member(u, t) \in RowT
BY DEF Batch, Member, RowT, Tables

\* What a script is made of.
ScriptSound(s) == s \in Seq(CallT) /\ \A i \in 1 .. Len(s) : CallSound(s[i])

LEMMA ScriptsOfSoundCalls ==
  /\ ScriptSound(<<>>)
  /\ \A a : CallSound(a) => ScriptSound(<<a>>)
  /\ \A a, b : CallSound(a) /\ CallSound(b) => ScriptSound(<<a, b>>)
  /\ \A a, b, c, d : CallSound(a) /\ CallSound(b) /\ CallSound(c) /\ CallSound(d)
        => ScriptSound(<<a, b, c, d>>)
  /\ \A a, b, c, d, e : CallSound(a) /\ CallSound(b) /\ CallSound(c) /\ CallSound(d) /\ CallSound(e)
        => ScriptSound(<<a, b, c, d, e>>)
  /\ \A a, b, c, d, e, f :
        /\ CallSound(a) /\ CallSound(b) /\ CallSound(c) /\ CallSound(d) /\ CallSound(e) /\ CallSound(f)
        => ScriptSound(<<a, b, c, d, e, f>>)
<1>1. ScriptSound(<<>>)
  BY DEF ScriptSound
<1>2. ASSUME NEW a, CallSound(a) PROVE ScriptSound(<<a>>)
  BY <1>2 DEF ScriptSound, CallSound
<1>3. ASSUME NEW a, NEW b, CallSound(a), CallSound(b) PROVE ScriptSound(<<a, b>>)
  BY <1>3 DEF ScriptSound, CallSound
<1>4. ASSUME NEW a, NEW b, NEW c, NEW d, CallSound(a), CallSound(b), CallSound(c), CallSound(d)
      PROVE  ScriptSound(<<a, b, c, d>>)
  BY <1>4 DEF ScriptSound, CallSound
<1>5. ASSUME NEW a, NEW b, NEW c, NEW d, NEW e,
             CallSound(a), CallSound(b), CallSound(c), CallSound(d), CallSound(e)
      PROVE  ScriptSound(<<a, b, c, d, e>>)
  BY <1>5 DEF ScriptSound, CallSound
<1>6. ASSUME NEW a, NEW b, NEW c, NEW d, NEW e, NEW f,
             CallSound(a), CallSound(b), CallSound(c), CallSound(d), CallSound(e), CallSound(f)
      PROVE  ScriptSound(<<a, b, c, d, e, f>>)
  BY <1>6 DEF ScriptSound, CallSound
<1>7. QED
  BY <1>1, <1>2, <1>3, <1>4, <1>5, <1>6

\* Every script a request can arrive with.
LEMMA ScriptsSound == \A s \in Scripts : ScriptSound(s)
<1> USE RowsAreRows
<1>0. /\ \A t \in {"tA", "tB", "vA", "vB"} : t \in Names /\ t # NoOne
      /\ NoOne \in Names /\ {"u1", "u2", "vU", "vW"} \subseteq Names
      /\ {"tenant", "user", "both", "bare", "metrics", "client"} \subseteq Scopes
      /\ {"route", "read", "claim", "activate", "users", "delete", "cascade", "insert", "find",
          "miss"} \subseteq Ops
  BY DEF Names, Scopes, Ops, NoOne
<1>1. ASSUME NEW t \in {"tA", "tB", "vA", "vB"}, NEW op \in Ops, NEW x \in RowT
      PROVE  CallSound(TenantCall(t, op, x))
  BY <1>0, CallIsSound DEF TenantCall
<1>2. ASSUME NEW u \in Names, NEW op \in Ops, NEW x \in RowT PROVE CallSound(UserCall(u, op, x))
  BY <1>0, CallIsSound DEF UserCall
<1>3. ASSUME NEW scope \in {"bare", "metrics", "client"}, NEW op \in Ops, NEW x \in RowT
      PROVE  CallSound(Outside(scope, op, x))
  BY <1>0, CallIsSound DEF Outside
<1>4. NoRow \in RowT
  BY <1>0 DEF NoRow
<1>5. ASSUME NEW s \in RouteScripts PROVE ScriptSound(s)
  BY <1>0, <1>1, <1>2, <1>4, ScriptsOfSoundCalls DEF RouteScripts
<1>6. ScriptSound(verifyTenantIsolation)
  <2>1. Member("vU", "vA") \in RowT
    BY <1>0
  <2>2. QED
    BY <2>1, <1>0, <1>1, <1>3, ScriptsOfSoundCalls DEF verifyTenantIsolation
<1>7. ScriptSound(verifyUserIsolation)
  <2>1. Batch("vU", NoOne) \in RowT
    BY <1>0
  <2>2. QED
    BY <2>1, <1>0, <1>2, <1>3, ScriptsOfSoundCalls DEF verifyUserIsolation
<1>8. ScriptSound(verifyTransferIsolation)
  <2>1. Batch("vU", NoOne) \in RowT /\ Batch("vU", "vA") \in RowT
    BY <1>0
  <2>2. CallSound(Call("both", "vU", "vA", "claim", Batch("vU", "vA")))
    BY <2>1, CallIsSound, <1>0
  <2>3. QED
    BY <2>1, <2>2, <1>0, <1>1, <1>2, ScriptsOfSoundCalls DEF verifyTransferIsolation
<1>9. ScriptSound(claimScript("u1", "tA"))
  <2>1. CallSound(Call("both", "u1", "tA", "claim", Batch("u1", "tA")))
    BY CallIsSound, <1>0
  <2>2. QED
    BY <2>1, ScriptsOfSoundCalls DEF claimScript
<1>10. ScriptSound(setActiveTenant("u2", "tB"))
  BY <1>0, <1>1, <1>3, <1>4, ScriptsOfSoundCalls DEF setActiveTenant
<1>11. ScriptSound(internalMetricsRoute)
  BY <1>0, <1>3, <1>4, ScriptsOfSoundCalls DEF internalMetricsRoute
<1>12. ScriptSound(deleteAccountByEmail("u2", "tB"))
  <2>1. Batch("u2", NoOne) \in RowT /\ Member("u2", "tB") \in RowT
    BY <1>0
  <2>2. QED
    BY <2>1, <1>0, <1>1, <1>2, <1>3, <1>4, ScriptsOfSoundCalls DEF deleteAccountByEmail
<1>13. QED
  BY <1>5, <1>6, <1>7, <1>8, <1>9, <1>10, <1>11, <1>12 DEF Scripts, VerifyScripts

-----------------------------------------------------------------------------
(* What the model's steps do to the stack of open scopes.                   *)

\* The top of a stack is its last frame.
LEMMA TopFrame ==
  ASSUME DbShape, NEW r \in Requests, req[r].stack # <<>>
  PROVE  /\ Len(req[r].stack) \in Nat \ {0}
         /\ Top(r) = req[r].stack[Len(req[r].stack)] /\ Top(r) \in FrameT
<1>1. req[r].stack \in Seq(FrameT)
  BY DEF DbShape, RequestT
<1>2. QED
  BY <1>1 DEF Top, Last

\* A request with an open scope.
LEMMA OpenRequest ==
  ASSUME DbShape, NEW r \in Requests, StackSound(req[r]), req[r].stack # <<>>
  PROVE  /\ req[r] \in RequestT /\ req[r].script \in Seq(CallT) /\ req[r].stack \in Seq(FrameT)
         /\ Len(req[r].stack) \in 1 .. 2 /\ req[r].at \in 1 .. Len(req[r].script)
         /\ TheCall(r) \in CallT /\ CallSound(TheCall(r))
<1>1. req[r] \in RequestT
  BY DEF DbShape
<1>2. req[r].stack \in Seq(FrameT) /\ req[r].script \in Seq(CallT)
  BY <1>1 DEF RequestT
<1>3. Len(req[r].stack) <= 2 /\ req[r].at \in 1 .. Len(req[r].script)
  BY DEF StackSound
<1>4. Len(req[r].stack) \in Nat /\ Len(req[r].stack) # 0
  BY <1>2
<1>5. CallSound(req[r].script[req[r].at])
  BY <1>3 DEF StackSound
<1>6. Len(req[r].stack) \in 1 .. 2
  <2>1. \A n \in Nat : n # 0 /\ n <= 2 => n \in 1 .. 2
    OBVIOUS
  <2>2. QED
    BY <1>3, <1>4, <2>1
<1>7. QED
  BY <1>1, <1>2, <1>3, <1>5, <1>6 DEF TheCall, CallSound

\* The step changed the request of r alone and left it sound, with the same script.
OnlyRequest(r) ==
    /\ req' \in [Requests -> RequestT]
    /\ \A q \in Requests : q # r => req'[q] = req[q]
    /\ StackSound(req'[r])

\* The top frame is replaced.
LEMMA TopReplaced ==
  ASSUME DbShape, NEW r \in Requests, StackSound(req[r]), req[r].stack # <<>>,
         NEW f \in FrameT, f.conn = NoOne <=> f.phase = "connect",
         TheCall(r).scope = "client" => f.phase = "connect",
         req' = [req EXCEPT ![r].stack[Len(req[r].stack)] = f]
  PROVE  /\ OnlyRequest(r)
         /\ req'[r].script = req[r].script /\ req'[r].at = req[r].at
         /\ Len(req'[r].stack) = Len(req[r].stack)
         /\ req'[r].stack[Len(req[r].stack)] = f
         /\ \A i \in 1 .. Len(req[r].stack) :
              i # Len(req[r].stack) => req'[r].stack[i] = req[r].stack[i]
<1> DEFINE n == Len(req[r].stack)
<1>1. req[r] \in RequestT /\ req[r].stack \in Seq(FrameT) /\ n \in 1 .. 2 /\ n \in 1 .. Len(req[r].stack)
  BY OpenRequest
<1>2. PICK s : s = [req[r].stack EXCEPT ![n] = f]
  OBVIOUS
<1>3. /\ s \in Seq(FrameT) /\ Len(s) = n /\ s[n] = f
      /\ \A i \in 1 .. n : i # n => s[i] = req[r].stack[i]
  BY <1>1, <1>2
<1>4. PICK q : q = [req[r] EXCEPT !.stack = s]
  OBVIOUS
<1>5. /\ q \in RequestT /\ q.script = req[r].script /\ q.at = req[r].at /\ q.stack = s
  BY <1>1, <1>3, <1>4 DEF RequestT
<1>6. req' = [req EXCEPT ![r] = q]
  BY <1>2, <1>4
<1>7. req' \in [Requests -> RequestT] /\ req'[r] = q /\ \A x \in Requests : x # r => req'[x] = req[x]
  BY <1>5, <1>6 DEF DbShape
<1>8. StackSound(q)
  <2>1. \A i \in 1 .. n : s[i] = f \/ s[i] = req[r].stack[i]
    BY <1>3
  <2>2. n = 2 => s[1] = req[r].stack[1]
    BY <1>3, <1>1
  <2>3. q.stack # <<>> => q.at \in 1 .. Len(q.script)
    BY <1>5 DEF StackSound
  <2>4. QED
    BY <1>1, <1>3, <1>5, <2>1, <2>2, <2>3 DEF StackSound, TheCall
<1>9. QED
  BY <1>3, <1>5, <1>7, <1>8 DEF OnlyRequest

\* The top scope is left: a route handler's own scope goes on to its commit, or the
\* request goes on to its next call, or it ends.
LEMMA TopLeft ==
  ASSUME DbShape, NEW r \in Requests, StackSound(req[r]), req[r].stack # <<>>,
         NEW threw \in BOOLEAN, req' = Leave(r, threw)
  PROVE  /\ OnlyRequest(r)
         /\ req'[r].script = req[r].script
         /\ Len(req[r].stack) = 2 =>
              /\ req'[r].at = req[r].at /\ Len(req'[r].stack) = 1
              /\ req'[r].stack[1].phase = "commit"
              /\ req'[r].stack[1].conn = req[r].stack[1].conn
         /\ Len(req[r].stack) # 2 => req'[r].stack = <<>> \/ req'[r].stack = <<NoFrame>>
<1>1. /\ req[r] \in RequestT /\ req[r].stack \in Seq(FrameT) /\ req[r].at \in 1 .. Len(req[r].script)
      /\ Len(req[r].stack) \in 1 .. 2
  BY OpenRequest
<1>2. NoFrame \in FrameT /\ <<NoFrame>> \in Seq(FrameT) /\ <<>> \in Seq(FrameT)
      /\ NoFrame.phase = "connect" /\ NoFrame.conn = NoOne
  BY DEF NoFrame, FrameT, Phases
<1>3. CASE Len(req[r].stack) = 2
  <2>1. PICK g : g = [req[r].stack[1] EXCEPT !.phase = "commit"]
    OBVIOUS
  <2>2. /\ req[r].stack[1] \in FrameT /\ req[r].stack[1].phase = "fn"
        /\ req[r].stack[1].conn # NoOne /\ req[r].script[req[r].at].scope # "client"
    BY <1>1, <1>3 DEF StackSound
  <2>3. g \in FrameT /\ g.phase = "commit" /\ g.conn = req[r].stack[1].conn
    BY <2>1, <2>2 DEF FrameT, Phases
  <2>4. PICK failed : failed = (req[r].threw \/ threw)
    OBVIOUS
  <2>5. failed \in BOOLEAN
    BY <2>4, Zenon
  <2>6. req' = [req EXCEPT ![r].stack = <<g>>, ![r].threw = failed]
    BY <1>3, <2>1, <2>4, Zenon DEF Leave
  <2>7. PICK q : q = [req[r] EXCEPT !.stack = <<g>>, !.threw = failed]
    OBVIOUS
  <2>8. <<g>> \in Seq(FrameT) /\ Len(<<g>>) = 1 /\ <<g>>[1] = g
    BY <2>3
  <2>9. q \in RequestT /\ q.script = req[r].script /\ q.at = req[r].at /\ q.stack = <<g>>
    BY <1>1, <2>5, <2>7, <2>8 DEF RequestT
  <2>10. req' = [req EXCEPT ![r] = q]
    BY <2>6, <2>7
  <2>11. req' \in [Requests -> RequestT] /\ req'[r] = q /\ \A x \in Requests : x # r => req'[x] = req[x]
    BY <2>9, <2>10 DEF DbShape
  <2>12. StackSound(q)
    BY <1>1, <2>2, <2>3, <2>8, <2>9 DEF StackSound
  <2>13. QED
    BY <1>3, <2>3, <2>8, <2>9, <2>11, <2>12 DEF OnlyRequest
<1>4. CASE Len(req[r].stack) # 2
  <2> DEFINE last == Len(req[r].script)
             next == IF threw /\ req[r].script \in VerifyScripts /\ req[r].at < last
                     THEN last ELSE req[r].at + 1
             over == next > last \/ (threw /\ req[r].script \notin VerifyScripts)
  <2>1. req' = [req EXCEPT ![r].stack = IF over THEN <<>> ELSE <<NoFrame>>,
                           ![r].at = IF over THEN @ ELSE next,
                           ![r].threw = (req[r].threw \/ threw),
                           ![r].outcome = IF over THEN IF req[r].threw \/ threw THEN "error" ELSE "ok" ELSE @]
    BY <1>4, Zenon DEF Leave
  <2>2. PICK s, at, failed, out :
           /\ s = (IF over THEN <<>> ELSE <<NoFrame>>)
           /\ at = (IF over THEN req[r].at ELSE next)
           /\ failed = (req[r].threw \/ threw)
           /\ out = (IF over THEN IF req[r].threw \/ threw THEN "error" ELSE "ok" ELSE req[r].outcome)
    OBVIOUS
  <2>3. failed \in BOOLEAN
    BY <2>2, Zenon
  <2>4. out \in {NoOne, "ok", "error"}
    BY <1>1, <2>2 DEF RequestT
  <2>5. s \in Seq(FrameT) /\ (s = <<>> \/ s = <<NoFrame>>)
    BY <1>2, <2>2
  <2>6. last \in Nat /\ next \in Nat \ {0} /\ (~over => next <= last)
    BY <1>1 DEF RequestT
  <2>7. at \in Nat /\ (s # <<>> => at \in 1 .. last)
    BY <1>1, <2>2, <2>6
  <2>8. PICK q : q = [req[r] EXCEPT !.stack = s, !.at = at, !.threw = failed, !.outcome = out]
    OBVIOUS
  <2>9. q \in RequestT /\ q.script = req[r].script /\ q.at = at /\ q.stack = s
    BY <1>1, <2>3, <2>4, <2>5, <2>7, <2>8 DEF RequestT
  <2>10. req' = [req EXCEPT ![r] = q]
    BY <2>1, <2>2, <2>8
  <2>11. req' \in [Requests -> RequestT] /\ req'[r] = q /\ \A x \in Requests : x # r => req'[x] = req[x]
    BY <2>9, <2>10 DEF DbShape
  <2>12. StackSound(q)
    <3>1. /\ Len(s) = 0 \/ (Len(s) = 1 /\ s[1] = NoFrame)
          /\ Len(s) \in Nat
      BY <1>2, <2>5
    <3>2. \A i \in 1 .. Len(s) : s[i].phase = "connect" /\ s[i].conn = NoOne
      BY <1>2, <3>1
    <3>3. Len(s) <= 2 /\ Len(s) # 2
      BY <3>1
    <3>4. \A i \in 1 .. Len(q.script) : CallSound(q.script[i])
      BY <2>9 DEF StackSound
    <3>5. q.stack # <<>> => q.at \in 1 .. Len(q.script)
      BY <2>7, <2>9
    <3>6. QED
      BY <2>9, <3>2, <3>3, <3>4, <3>5 DEF StackSound
  <2>13. QED
    BY <1>4, <2>5, <2>9, <2>11, <2>12 DEF OnlyRequest
<1>5. QED
  BY <1>3, <1>4

-----------------------------------------------------------------------------
(* Sessions change hands.                                                   *)

\* A step in which at most one frame, r's i-th, changes the session it has to d, and
\* the sessions of all other frames stay as they are, keeps the pool sound: the new
\* session was nobody's, and the old one is with nobody.
HandsOver(r, i, d) ==
    /\ \A q \in Requests, j \in 1 .. 2, c \in Conns :
        ~(q = r /\ j = i) =>
            /\ Has(q, j, c)' <=> Has(q, j, c)
            /\ Has(q, j, c) => conn'[c] = conn[c] /\ Lends(q, j, c)'
    /\ \A c \in Conns : Has(r, i, c)' <=> c = d
    /\ \A c \in Conns : c # d => conn'[c] = conn[c] \/ conn'[c].st # "held"
    /\ \A c \in Conns : conn'[c].st = "idle" => conn'[c].live = TRUE /\ conn'[c].txn = FALSE
    /\ \A c \in Conns : Has(r, i, c) /\ c # d => conn'[c].st # "held"
    /\ d \in Conns => (Has(r, i, d) \/ conn[d].st # "held") /\ Lends(r, i, d)'

LEMMA HandOver ==
  ASSUME PoolSound, NEW r \in Requests, NEW i \in 1 .. 2, NEW d, HandsOver(r, i, d)
  PROVE  PoolSound'
<1> USE DEF HandsOver
<1>1. ASSUME NEW c \in Conns, conn'[c].st = "held"
      PROVE  \E q \in Requests, j \in 1 .. 2 : Has(q, j, c)'
  <2>1. CASE c = d
    BY <2>1
  <2>2. CASE c # d
    <3>1. conn'[c] = conn[c]
      BY <1>1, <2>2
    <3>2. PICK q \in Requests, j \in 1 .. 2 : Has(q, j, c)
      BY <1>1, <3>1 DEF PoolSound
    <3>3. ~(q = r /\ j = i)
      BY <1>1, <2>2, <3>2
    <3>4. QED
      BY <3>2, <3>3
  <2>3. QED
    BY <2>1, <2>2
<1>2. ASSUME NEW c \in Conns, NEW q \in Requests, NEW j \in 1 .. 2, Has(q, j, c)'
      PROVE  Lends(q, j, c)'
  <2>1. CASE q = r /\ j = i
    BY <1>2, <2>1
  <2>2. CASE ~(q = r /\ j = i)
    BY <1>2, <2>2 DEF PoolSound
  <2>3. QED
    BY <2>1, <2>2
<1>3. ASSUME NEW c \in Conns, NEW q1 \in Requests, NEW q2 \in Requests, NEW j1 \in 1 .. 2,
             NEW j2 \in 1 .. 2, Has(q1, j1, c)', Has(q2, j2, c)'
      PROVE  q1 = q2 /\ j1 = j2
  <2>1. ASSUME NEW q \in Requests, NEW j \in 1 .. 2, ~(q = r /\ j = i), Has(q, j, c)', c = d
        PROVE  FALSE
    <3>1. Has(q, j, c) /\ conn[c].st = "held"
      BY <2>1 DEF PoolSound, Lends
    <3>2. Has(r, i, c)
      BY <2>1, <3>1
    <3>3. QED
      BY <2>1, <3>1, <3>2 DEF PoolSound
  <2>2. CASE (q1 = r /\ j1 = i) \/ (q2 = r /\ j2 = i)
    BY <1>3, <2>1, <2>2
  <2>3. CASE ~(q1 = r /\ j1 = i) /\ ~(q2 = r /\ j2 = i)
    BY <1>3, <2>3 DEF PoolSound
  <2>4. QED
    BY <2>2, <2>3
<1>4. QED
  <2>1. \A c \in Conns : conn'[c].st = "idle" => conn'[c].live = TRUE /\ conn'[c].txn = FALSE
    OBVIOUS
  <2>2. QED
    BY <1>1, <1>2, <1>3, <2>1 DEF PoolSound

\* The other requests' scopes do not notice.
LEMMA OthersKeepTheirs ==
  ASSUME NEW r \in Requests, OnlyRequest(r), NEW q \in Requests, q # r, NEW j \in 1 .. 2, NEW c
  PROVE  /\ Has(q, j, c)' <=> Has(q, j, c)
         /\ TheCall(q)' = TheCall(q) /\ req'[q].stack[j].phase = req[q].stack[j].phase
BY DEF OnlyRequest, Has, TheCall

\* No other scope has the session of r's top scope; what others have is held.
LEMMA SessionsDiffer ==
  ASSUME DbInv, NEW r \in Requests, req[r].stack # <<>>, NEW q \in Requests, NEW j \in 1 .. 2,
         NEW c \in Conns, ~(q = r /\ j = Len(req[r].stack)), Has(q, j, c)
  PROVE  c # Top(r).conn /\ conn[c].st = "held"
<1>1. conn[c].st = "held"
  BY DEF DbInv, PoolSound, Lends
<1>2. /\ Len(req[r].stack) \in 1 .. 2 /\ Len(req[r].stack) \in 1 .. Len(req[r].stack)
      /\ Top(r) = req[r].stack[Len(req[r].stack)]
  BY OpenRequest, TopFrame DEF DbInv
<1>3. ASSUME c = Top(r).conn PROVE FALSE
  <2>1. Has(r, Len(req[r].stack), c)
    BY <1>2, <1>3 DEF Has
  <2>2. QED
    BY <1>2, <2>1 DEF DbInv, PoolSound
<1>4. QED
  BY <1>1, <1>3

\* The top scope takes a session nobody has, or goes on with its own.
LEMMA ReplaceStep ==
  ASSUME DbInv, NEW r \in Requests, req[r].stack # <<>>, NEW f \in FrameT,
         f.conn \in Conns, f.phase # "connect", TheCall(r).scope # "client",
         req' = [req EXCEPT ![r].stack[Len(req[r].stack)] = f],
         f.conn = Top(r).conn \/ (Top(r).conn = NoOne /\ conn[f.conn].st # "held"),
         \A c \in Conns : c # f.conn => conn'[c] = conn[c],
         conn'[f.conn].st = "held",
         Borrowed(TheCall(r), f.phase, conn'[f.conn])
  PROVE  PoolSound' /\ OnlyRequest(r)
<1>0. PICK n, d : n = Len(req[r].stack) /\ d = f.conn
  OBVIOUS
<1>1. d # NoOne /\ d \in Conns
  BY <1>0, DbAssumption DEF NoOne
<1>2. /\ OnlyRequest(r)
      /\ req'[r].script = req[r].script /\ req'[r].at = req[r].at
      /\ Len(req'[r].stack) = n /\ req'[r].stack[n] = f
      /\ \A i \in 1 .. n : i # n => req'[r].stack[i] = req[r].stack[i]
  <2>1. (f.conn = NoOne <=> f.phase = "connect") /\ (TheCall(r).scope = "client" => f.phase = "connect")
    BY <1>0, <1>1
  <2>2. DbShape /\ StackSound(req[r])
    BY DEF DbInv
  <2>3. /\ OnlyRequest(r)
        /\ req'[r].script = req[r].script /\ req'[r].at = req[r].at
        /\ Len(req'[r].stack) = Len(req[r].stack)
        /\ req'[r].stack[Len(req[r].stack)] = f
        /\ \A i \in 1 .. Len(req[r].stack) :
              i # Len(req[r].stack) => req'[r].stack[i] = req[r].stack[i]
    BY <2>1, <2>2, TopReplaced
  <2>4. QED
    BY <1>0, <2>3
<1>3. n \in 1 .. 2 /\ n \in 1 .. n /\ Top(r) = req[r].stack[n]
  BY <1>0, OpenRequest, TopFrame DEF DbInv
<1>4. TheCall(r)' = TheCall(r)
  BY <1>2 DEF TheCall
<1>5. ASSUME NEW q \in Requests, NEW j \in 1 .. 2, NEW c \in Conns, ~(q = r /\ j = n)
      PROVE  /\ Has(q, j, c)' <=> Has(q, j, c)
             /\ TheCall(q)' = TheCall(q) /\ (Has(q, j, c) => req'[q].stack[j].phase = req[q].stack[j].phase)
  <2>1. CASE q # r
    BY <1>2, <2>1, OthersKeepTheirs
  <2>2. CASE q = r
    BY <1>2, <1>3, <1>4, <1>5, <2>2 DEF Has
  <2>3. QED
    BY <2>1, <2>2
<1>6. ASSUME NEW q \in Requests, NEW j \in 1 .. 2, NEW c \in Conns, ~(q = r /\ j = n), Has(q, j, c)
      PROVE  conn'[c] = conn[c] /\ c # d
  <2>1. c # d
    BY <1>0, <1>1, <1>6, SessionsDiffer
  <2>2. QED
    BY <1>0, <2>1
<1>7. ASSUME NEW q \in Requests, NEW j \in 1 .. 2, NEW c \in Conns, ~(q = r /\ j = n)
      PROVE  /\ Has(q, j, c)' <=> Has(q, j, c)
             /\ Has(q, j, c) => conn'[c] = conn[c] /\ Lends(q, j, c)'
  <2>1. Has(q, j, c)' <=> Has(q, j, c)
    BY <1>5, <1>7
  <2>2. ASSUME Has(q, j, c)
        PROVE  conn'[c] = conn[c] /\ Lends(q, j, c)'
    <3>1. TheCall(q)' = TheCall(q) /\ req'[q].stack[j].phase = req[q].stack[j].phase
      BY <1>5, <1>7, <2>2
    <3>2. conn'[c] = conn[c]
      BY <1>6, <1>7, <2>2
    <3>3. Lends(q, j, c)
      BY <2>2 DEF DbInv, PoolSound
    <3>4. QED
      BY <3>1, <3>2, <3>3 DEF Lends, Borrowed
  <2>3. QED
    BY <2>1, <2>2
<1>8. \A c \in Conns : Has(r, n, c)' <=> c = d
  BY <1>0, <1>2, <1>3 DEF Has
<1>9. \A c \in Conns : Has(r, n, c) => c = d
  BY <1>0, <1>3, DbAssumption DEF Has, NoOne
<1>10. \A c \in Conns : c # d => conn'[c] = conn[c] \/ conn'[c].st # "held"
  BY <1>0
<1>11. \A c \in Conns : conn'[c].st = "idle" => conn'[c].live = TRUE /\ conn'[c].txn = FALSE
  <2>1. ASSUME NEW c \in Conns, conn'[c].st = "idle" PROVE conn'[c] = conn[c]
    BY <1>0, <2>1
  <2>2. QED
    BY <2>1 DEF DbInv, PoolSound
<1>12. Has(r, n, d) \/ conn[d].st # "held"
  BY <1>0, <1>3 DEF Has
<1>13. Lends(r, n, d)'
  BY <1>0, <1>2, <1>4 DEF Lends, Borrowed
<1>14. HandsOver(r, n, d)
  BY <1>1, <1>7, <1>8, <1>9, <1>10, <1>11, <1>12, <1>13 DEF HandsOver
<1>15. PoolSound'
  BY <1>3, <1>14, HandOver DEF DbInv
<1>16. QED
  BY <1>2, <1>15

\* The top scope gives its session back, or never had one.
LEMMA LeaveStep ==
  ASSUME DbInv, NEW r \in Requests, req[r].stack # <<>>, NEW threw \in BOOLEAN,
         req' = Leave(r, threw),
         \A c \in Conns : c # Top(r).conn => conn'[c] = conn[c],
         \A c \in Conns : c = Top(r).conn =>
             /\ conn'[c].st # "held"
             /\ conn'[c].st = "idle" => conn'[c].live = TRUE /\ conn'[c].txn = FALSE
  PROVE  PoolSound' /\ OnlyRequest(r)
<1>0. PICK n : n = Len(req[r].stack)
  OBVIOUS
<1>1. DbShape /\ StackSound(req[r])
  BY DEF DbInv
<1>2. /\ OnlyRequest(r)
      /\ req'[r].script = req[r].script
      /\ n = 2 => /\ req'[r].at = req[r].at /\ Len(req'[r].stack) = 1
                  /\ req'[r].stack[1].phase = "commit"
                  /\ req'[r].stack[1].conn = req[r].stack[1].conn
      /\ n # 2 => req'[r].stack = <<>> \/ req'[r].stack = <<NoFrame>>
  BY <1>0, <1>1, TopLeft
<1>3. n \in 1 .. 2 /\ Top(r) = req[r].stack[n]
  BY <1>0, <1>1, OpenRequest, TopFrame
<1>4. NoOne \notin Conns
  BY DbAssumption DEF NoOne
<1>5. ASSUME NEW c \in Conns PROVE ~Has(r, n, c)'
  <2>1. CASE n = 2
    BY <1>2, <2>1 DEF Has
  <2>2. CASE n # 2
    <3>1. n = 1
      BY <1>3, <2>2
    <3>2. CASE req'[r].stack = <<>>
      BY <3>1, <3>2 DEF Has
    <3>3. CASE req'[r].stack = <<NoFrame>>
      BY <1>4, <3>1, <3>3 DEF Has, NoFrame
    <3>4. QED
      BY <1>2, <2>2, <3>2, <3>3
  <2>3. QED
    BY <2>1, <2>2
<1>6. ASSUME NEW q \in Requests, NEW j \in 1 .. 2, NEW c \in Conns, ~(q = r /\ j = n), Has(q, j, c)
      PROVE  conn'[c] = conn[c] /\ Lends(q, j, c)
  <2>1. c # Top(r).conn
    BY <1>0, <1>6, SessionsDiffer
  <2>2. Lends(q, j, c)
    BY <1>6 DEF DbInv, PoolSound
  <2>3. QED
    BY <2>1, <2>2
<1>7. ASSUME NEW q \in Requests, NEW j \in 1 .. 2, NEW c \in Conns, ~(q = r /\ j = n)
      PROVE  /\ Has(q, j, c)' <=> Has(q, j, c)
             /\ Has(q, j, c) => conn'[c] = conn[c] /\ Lends(q, j, c)'
  <2>1. CASE q # r
    <3>1. /\ Has(q, j, c)' <=> Has(q, j, c)
          /\ TheCall(q)' = TheCall(q) /\ req'[q].stack[j].phase = req[q].stack[j].phase
      BY <1>2, <2>1, OthersKeepTheirs
    <3>2. Has(q, j, c) => conn'[c] = conn[c] /\ Lends(q, j, c)
      BY <1>6, <1>7
    <3>3. conn'[c] = conn[c] /\ Lends(q, j, c) => Lends(q, j, c)'
      BY <3>1 DEF Lends, Borrowed
    <3>4. QED
      BY <3>1, <3>2, <3>3
  <2>2. CASE q = r /\ n = 2
    <3>1. j = 1
      BY <1>3, <1>7, <2>2
    <3>2. (Has(r, 1, c)' <=> Has(r, 1, c)) /\ req[r].stack[1].phase = "fn"
      BY <1>0, <1>1, <1>2, <2>2 DEF Has, StackSound
    <3>3. TheCall(r)' = TheCall(r) /\ req'[r].stack[1].phase = "commit"
      BY <1>2, <2>2 DEF TheCall
    <3>4. ASSUME Has(q, j, c) PROVE conn'[c] = conn[c] /\ Lends(q, j, c)'
      <4>1. conn'[c] = conn[c] /\ Lends(r, 1, c)
        BY <1>6, <1>7, <2>2, <3>1, <3>4
      <4>2. Lends(r, 1, c)'
        BY <3>2, <3>3, <4>1 DEF Lends, Borrowed
      <4>3. QED
        BY <2>2, <3>1, <4>1, <4>2
    <3>5. QED
      BY <2>2, <3>1, <3>2, <3>4
  <2>3. CASE q = r /\ n # 2
    <3>1. j = 2 /\ n = 1
      BY <1>3, <1>7, <2>3
    <3>2. ~Has(r, 2, c)
      BY <1>0, <3>1 DEF Has
    <3>3. ~Has(r, 2, c)'
      BY <1>2, <3>1 DEF Has
    <3>4. QED
      BY <2>3, <3>1, <3>2, <3>3
  <2>4. QED
    BY <2>1, <2>2, <2>3
<1>8. ASSUME NEW c \in Conns, conn'[c].st = "idle" PROVE conn'[c].live = TRUE /\ conn'[c].txn = FALSE
  BY <1>8 DEF DbInv, PoolSound
<1>9. ASSUME NEW c \in Conns PROVE conn'[c] = conn[c] \/ conn'[c].st # "held"
  OBVIOUS
<1>10. ASSUME NEW c \in Conns, Has(r, n, c) PROVE conn'[c].st # "held"
  BY <1>3, <1>10 DEF Has
<1>11. HandsOver(r, n, NoOne)
  BY <1>4, <1>5, <1>7, <1>8, <1>9, <1>10 DEF HandsOver
<1>12. QED
  BY <1>2, <1>3, <1>11, HandOver DEF DbInv

\* A scope is opened and has no session yet.
LEMMA OpenStep ==
  ASSUME DbInv, NEW r \in Requests, NEW n \in 1 .. 2, n = Len(req[r].stack) + 1, conn' = conn,
         OnlyRequest(r), Len(req'[r].stack) = n, req'[r].stack[n] = NoFrame,
         n = 2 => /\ TheCall(r)' = TheCall(r) /\ req'[r].stack[1] = req[r].stack[1]
  PROVE  PoolSound'
<1>1. NoOne \notin Conns
  BY DbAssumption DEF NoOne
<1>2. ASSUME NEW c \in Conns PROVE ~Has(r, n, c) /\ ~Has(r, n, c)'
  <2>1. NoFrame.conn = NoOne
    BY DEF NoFrame
  <2>2. ~(n \in 1 .. Len(req[r].stack))
    <3>1. \A x, k \in Int : x = k + 1 => ~(x \in 1 .. k)
      OBVIOUS
    <3>2. Len(req[r].stack) \in Int
      BY DEF DbInv, DbShape, RequestT
    <3>3. QED
      BY <3>1, <3>2
  <2>3. QED
    BY <1>1, <2>1, <2>2 DEF Has
<1>3. ASSUME NEW q \in Requests, NEW j \in 1 .. 2, NEW c \in Conns, ~(q = r /\ j = n)
      PROVE  /\ Has(q, j, c)' <=> Has(q, j, c)
             /\ Has(q, j, c) => conn'[c] = conn[c] /\ Lends(q, j, c)'
  <2>1. Has(q, j, c) => Lends(q, j, c)
    BY DEF DbInv, PoolSound
  <2>2. CASE q # r
    <3>1. /\ Has(q, j, c)' <=> Has(q, j, c)
          /\ TheCall(q)' = TheCall(q) /\ req'[q].stack[j].phase = req[q].stack[j].phase
      BY <2>2, OthersKeepTheirs
    <3>2. QED
      BY <2>1, <3>1 DEF Lends, Borrowed
  <2>3. CASE q = r /\ n = 2
    <3>1. j = 1
      BY <1>3, <2>3
    <3>2. Has(r, 1, c)' <=> Has(r, 1, c)
      BY <2>3 DEF Has
    <3>3. QED
      BY <2>1, <2>3, <3>1, <3>2 DEF Lends, Borrowed
  <2>4. CASE q = r /\ n = 1
    <3>1. j = 2 /\ Len(req'[r].stack) = 1
      BY <1>3, <2>4
    <3>2. ~Has(r, 2, c)'
      BY <3>1 DEF Has
    <3>3. ~Has(r, 2, c)
      BY <2>4 DEF Has
    <3>4. QED
      BY <2>4, <3>1, <3>2, <3>3
  <2>5. QED
    BY <2>2, <2>3, <2>4
<1>4. HandsOver(r, n, NoOne)
  BY <1>1, <1>2, <1>3 DEF HandsOver, DbInv, PoolSound
<1>5. QED
  BY <1>4, HandOver DEF DbInv

-----------------------------------------------------------------------------
(* Every step keeps the invariant.                                          *)

LEMMA DbInitInv == DbInit => DbInv
<1> SUFFICES ASSUME DbInit PROVE DbInv
  OBVIOUS
<1>1. /\ conn = [c \in Conns |-> NoSession]
      /\ rows = {Batch(u, NoOne) : u \in Users} \cup {Member("u1", "tA"), Member("u2", "tB")}
      /\ req = [r \in Requests |-> NotStarted]
      /\ policies = {"owner_isolation"}
  BY DEF DbInit
<1>2. NoSession \in SessionT
  BY DEF NoSession, SessionT, NoSettings, SettingsT, Names, NoOne
<1>3. rows \subseteq RowT
  <2>1. NoOne \in Names /\ Users \subseteq Names /\ {"u1", "u2", "tA", "tB"} \subseteq Names
    BY DEF Names, NoOne, Users
  <2>2. QED
    BY <1>1, <2>1, RowsAreRows
<1>4. NotStarted \in RequestT /\ NotStarted.stack = <<>> /\ NotStarted.script = <<>>
  BY DEF NotStarted, RequestT
<1>5. DbShape
  BY <1>1, <1>2, <1>3, <1>4 DEF DbShape
<1>6. \A r \in Requests : req[r].stack = <<>> /\ req[r].script = <<>>
  BY <1>1, <1>4
<1>7. \A r \in Requests : StackSound(req[r])
  BY <1>6 DEF StackSound
<1>8. PoolSound
  BY <1>1, <1>6 DEF PoolSound, NoSession, Has
<1>9. QED
  BY <1>5, <1>7, <1>8 DEF DbInv

\* Of the step of one request, what remains to be shown.
LEMMA RequestStepKeeps ==
  ASSUME DbInv, NEW r \in Requests, OnlyRequest(r), PoolSound',
         conn' \in [Conns -> SessionT], rows' \subseteq RowT, policies' = policies
  PROVE  DbInv'
<1>1. \A q \in Requests : StackSound(req'[q])
  BY DEF OnlyRequest, DbInv
<1>2. DbShape'
  BY DEF OnlyRequest, DbInv, DbShape
<1>3. \A q \in Requests : StackSound(req[q])'
  BY <1>1
<1>4. QED
  BY <1>2, <1>3 DEF DbInv

LEMMA ArriveStep ==
  ASSUME DbInv, NEW r \in Requests, Arrive(r) PROVE DbInv'
<1>1. PICK s \in Scripts : req' = [req EXCEPT ![r].script = s, ![r].stack = <<NoFrame>>]
  BY DEF Arrive
<1>2. req[r] = NotStarted /\ UNCHANGED <<conn, rows, policies>>
  BY DEF Arrive, Quiet
<1>3. ScriptSound(s) /\ s # <<>>
  <2>1. ScriptSound(s)
    BY ScriptsSound
  <2>2. s # <<>>
    BY DEF Scripts, RouteScripts, VerifyScripts, claimScript, setActiveTenant, internalMetricsRoute,
           deleteAccountByEmail, verifyTenantIsolation, verifyUserIsolation, verifyTransferIsolation
  <2>3. QED
    BY <2>1, <2>2
<1>4. NoFrame \in FrameT /\ NoFrame.phase = "connect" /\ NoFrame.conn = NoOne
  BY DEF NoFrame, FrameT, Phases
<1>5. PICK q : q = [req[r] EXCEPT !.script = s, !.stack = <<NoFrame>>]
  OBVIOUS
<1>6. /\ req[r] \in RequestT /\ req[r].at = 1 /\ Len(req[r].stack) = 0
  <2>1. req[r] \in RequestT
    BY DEF DbInv, DbShape
  <2>2. NotStarted.at = 1 /\ NotStarted.stack = <<>>
    BY DEF NotStarted
  <2>3. QED
    BY <1>2, <2>1, <2>2
<1>7. /\ <<NoFrame>> \in Seq(FrameT) /\ Len(<<NoFrame>>) = 1 /\ <<NoFrame>>[1] = NoFrame
  BY <1>4
<1>8. /\ q \in RequestT /\ q.script = s /\ q.at = 1 /\ q.stack = <<NoFrame>>
  BY <1>3, <1>5, <1>6, <1>7 DEF RequestT, ScriptSound
<1>9. /\ req' \in [Requests -> RequestT] /\ req'[r] = q
      /\ \A x \in Requests : x # r => req'[x] = req[x]
  BY <1>1, <1>5, <1>8 DEF DbInv, DbShape
<1>10. StackSound(q)
  <2>1. 1 \in 1 .. Len(s)
    BY <1>3 DEF ScriptSound
  <2>2. QED
    BY <1>3, <1>4, <1>7, <1>8, <2>1 DEF StackSound, ScriptSound
<1>11. OnlyRequest(r)
  BY <1>9, <1>10 DEF OnlyRequest
<1>12. PoolSound'
  <2>1. 1 = Len(req[r].stack) + 1 /\ conn' = conn /\ Len(req'[r].stack) = 1 /\ req'[r].stack[1] = NoFrame
    <3>1. 1 = Len(req[r].stack) + 1 /\ conn' = conn
      BY <1>2, <1>6
    <3>2. req'[r].stack = <<NoFrame>>
      BY <1>8, <1>9
    <3>3. QED
      BY <1>7, <3>1, <3>2
  <2>2. QED
    BY <1>11, <2>1, OpenStep
<1>13. QED
  BY <1>2, <1>11, <1>12, RequestStepKeeps DEF DbInv, DbShape

\* What the top scope knows of its session, once it has connected.
LEMMA TopHasSession ==
  ASSUME DbInv, NEW r \in Requests, NEW p, p # "connect", At(r, p)
  PROVE  /\ req[r].stack # <<>> /\ Top(r).phase = p
         /\ Top(r).conn \in Conns /\ TheCall(r).scope # "client" /\ TheCall(r) \in CallT
         /\ CallSound(TheCall(r))
         /\ Session(r) \in SessionT /\ Session(r).st = "held" /\ Borrowed(TheCall(r), p, Session(r))
<1>0. PICK n : n = Len(req[r].stack)
  OBVIOUS
<1>1. /\ req[r].stack # <<>> /\ Top(r).phase = p /\ StackSound(req[r]) /\ DbShape
  BY DEF At, DbInv
<1>2. /\ n \in 1 .. 2 /\ n \in 1 .. Len(req[r].stack) /\ Top(r) = req[r].stack[n] /\ Top(r) \in FrameT
      /\ TheCall(r) \in CallT /\ CallSound(TheCall(r))
  BY <1>0, <1>1, OpenRequest, TopFrame
<1>3. Top(r).conn # NoOne /\ TheCall(r).scope # "client"
  BY <1>1, <1>2 DEF StackSound, TheCall
<1>4. PICK c : c = Top(r).conn
  OBVIOUS
<1>5. c \in Conns
  BY <1>2, <1>3, <1>4 DEF FrameT
<1>6. Has(r, n, c)
  BY <1>2, <1>4 DEF Has
<1>7. Lends(r, n, c)
  BY <1>2, <1>5, <1>6 DEF DbInv, PoolSound
<1>8. conn[c] \in SessionT
  BY <1>1, <1>5 DEF DbShape
<1>9. QED
  BY <1>1, <1>2, <1>3, <1>4, <1>5, <1>7, <1>8 DEF Lends, Session

\* A scope that keeps its session goes on to another phase.
LEMMA PhaseStep ==
  ASSUME DbInv, NEW r \in Requests, NEW p0, p0 # "connect", At(r, p0),
         NEW p \in Phases, p # "connect", req' = SetPhase(r, p),
         \A c \in Conns : c # Top(r).conn => conn'[c] = conn[c],
         conn'[Top(r).conn].st = "held", Borrowed(TheCall(r), p, conn'[Top(r).conn])
  PROVE  PoolSound' /\ OnlyRequest(r)
<1>1. /\ req[r].stack # <<>> /\ Top(r).conn \in Conns /\ TheCall(r).scope # "client"
  BY TopHasSession
<1>2. Top(r) = req[r].stack[Len(req[r].stack)] /\ Top(r) \in FrameT
  BY <1>1, TopFrame DEF DbInv
<1>3. PICK f : f = [Top(r) EXCEPT !.phase = p]
  OBVIOUS
<1>4. f \in FrameT /\ f.phase = p /\ f.conn = Top(r).conn
  BY <1>2, <1>3 DEF FrameT
<1>5. req' = [req EXCEPT ![r].stack[Len(req[r].stack)] = f]
  BY <1>2, <1>3 DEF SetPhase
<1>6. \A c \in Conns : c # f.conn => conn'[c] = conn[c]
  BY <1>4
<1>7. f.conn \in Conns /\ f.phase # "connect" /\ conn'[f.conn].st = "held"
  BY <1>1, <1>4
<1>8. Borrowed(TheCall(r), f.phase, conn'[f.conn])
  BY <1>4
<1>9. QED
  BY <1>1, <1>4, <1>5, <1>6, <1>7, <1>8, ReplaceStep

LEMMA timedConnectStep ==
  ASSUME DbInv, NEW r \in Requests, timedConnect(r) PROVE DbInv'
<1>1. /\ At(r, "connect") /\ TheCall(r).scope # "client" /\ UNCHANGED <<rows, policies>>
  BY DEF timedConnect, Quiet
<1>2. PICK c \in Conns :
        /\ conn[c].st = "idle" \/ conn[c].st = "absent"
        /\ conn' = [conn EXCEPT ![c] = IF @.st = "idle" THEN [@ EXCEPT !.st = "held"] ELSE NewSession]
        /\ req' = [req EXCEPT ![r].stack[Len(req[r].stack)] = [phase |-> "begin", conn |-> c]]
  BY DEF timedConnect
<1>3. PICK f : f = [phase |-> "begin", conn |-> c]
  OBVIOUS
<1>4. f \in FrameT /\ f.phase = "begin" /\ f.conn = c
  BY <1>3 DEF FrameT, Phases
<1>5. req[r].stack # <<>> /\ Top(r).conn = NoOne
  <2>1. req[r].stack # <<>> /\ Top(r).phase = "connect"
    BY <1>1 DEF At
  <2>2. /\ Top(r) = req[r].stack[Len(req[r].stack)] /\ Len(req[r].stack) \in 1 .. Len(req[r].stack)
    BY <2>1, TopFrame DEF DbInv
  <2>3. QED
    BY <2>1, <2>2 DEF DbInv, StackSound
<1>6. conn[c] \in SessionT /\ conn \in [Conns -> SessionT]
  BY DEF DbInv, DbShape
<1>7. PICK x : x = (IF conn[c].st = "idle" THEN [conn[c] EXCEPT !.st = "held"] ELSE NewSession)
  OBVIOUS
<1>8. x \in SessionT /\ x.st = "held" /\ x.txn = FALSE
  <2>1. CASE conn[c].st = "idle"
    <3>1. conn[c].txn = FALSE
      BY <2>1 DEF DbInv, PoolSound
    <3>2. QED
      BY <1>6, <1>7, <2>1, <3>1 DEF SessionT
  <2>2. CASE conn[c].st # "idle"
    <3>1. NewSession \in SessionT /\ NewSession.st = "held" /\ NewSession.txn = FALSE
      BY DEF NewSession, SessionT, NoSettings, SettingsT, Names, NoOne
    <3>2. QED
      BY <1>7, <2>2, <3>1
  <2>3. QED
    BY <2>1, <2>2
<1>9. conn' = [conn EXCEPT ![c] = x]
  BY <1>2, <1>7
<1>10. /\ conn' \in [Conns -> SessionT] /\ conn'[c] = x
       /\ \A d \in Conns : d # c => conn'[d] = conn[d]
  BY <1>6, <1>8, <1>9
<1>11. Borrowed(TheCall(r), f.phase, conn'[f.conn])
  BY <1>4, <1>8, <1>10 DEF Borrowed
<1>12. PoolSound' /\ OnlyRequest(r)
  <2>1. req' = [req EXCEPT ![r].stack[Len(req[r].stack)] = f]
    BY <1>2, <1>3
  <2>2. /\ conn'[f.conn].st = "held" /\ \A d \in Conns : d # f.conn => conn'[d] = conn[d]
        /\ f.conn \in Conns /\ f.phase # "connect" /\ conn[f.conn].st # "held"
    BY <1>2, <1>4, <1>8, <1>10
  <2>3. QED
    BY <1>1, <1>4, <1>5, <1>11, <2>1, <2>2, ReplaceStep
<1>13. QED
  BY <1>1, <1>10, <1>12, RequestStepKeeps DEF DbInv, DbShape

\* A scope that waits for a session has none.
LEMMA NoSessionYet ==
  ASSUME DbInv, NEW r \in Requests, At(r, "connect")
  PROVE  req[r].stack # <<>> /\ Top(r).conn = NoOne /\ Top(r).conn \notin Conns
<1>1. req[r].stack # <<>> /\ Top(r).phase = "connect"
  BY DEF At
<1>2. Top(r) = req[r].stack[Len(req[r].stack)] /\ Len(req[r].stack) \in 1 .. Len(req[r].stack)
  BY <1>1, TopFrame DEF DbInv
<1>3. Top(r).conn = NoOne
  BY <1>1, <1>2 DEF DbInv, StackSound
<1>4. QED
  BY <1>1, <1>3, DbAssumption DEF NoOne

LEMMA connectionTimeoutStep ==
  ASSUME DbInv, NEW r \in Requests, connectionTimeout(r) PROVE DbInv'
<1>1. At(r, "connect") /\ UNCHANGED <<conn, rows, policies>> /\ req' = Leave(r, TRUE)
  BY DEF connectionTimeout, Quiet
<1>2. TRUE \in BOOLEAN
  OBVIOUS
<1>3. PoolSound' /\ OnlyRequest(r)
  BY <1>1, <1>2, NoSessionYet, LeaveStep
<1>4. QED
  BY <1>1, <1>3, RequestStepKeeps DEF DbInv, DbShape

LEMMA FreshClientStep ==
  ASSUME DbInv, NEW r \in Requests, FreshClient(r) PROVE DbInv'
<1>1. PICK threw \in BOOLEAN : req' = Leave(r, threw)
  <2>1. PICK x, V : x = TheCall(r).row /\ V = Visible(NoSettings)
    OBVIOUS
  <2>2. req' = Leave(r, x \in V)
    BY <2>1 DEF FreshClient
  <2>3. (x \in V) \in BOOLEAN
    OBVIOUS
  <2>4. QED
    BY <2>2, <2>3, Zenon
<1>2. At(r, "connect") /\ UNCHANGED <<conn, rows, policies>>
  BY DEF FreshClient, Quiet
<1>3. PoolSound' /\ OnlyRequest(r)
  BY <1>1, <1>2, NoSessionYet, LeaveStep
<1>4. QED
  BY <1>2, <1>3, RequestStepKeeps DEF DbInv, DbShape

\* Whatever settings a session had, a scope's own replace all of them; a bare query
\* leaves them.
LEMMA SettingsReplaced ==
  ASSUME NEW s \in SettingsT, NEW k \in CallT, k.scope # "client"
  PROVE  /\ ScopeSettings(s, k) \in SettingsT
         /\ k.scope # "bare" => InScope(ScopeSettings(s, k), k)
<1>1. k.scope \in Scopes /\ k.tenant \in Names /\ k.user \in Names
  BY DEF CallT
<1>2. CASE k.scope = "tenant"
  BY <1>1, <1>2 DEF ScopeSettings, withTenantScope, SettingsT, InScope
<1>3. CASE k.scope = "user"
  BY <1>1, <1>3 DEF ScopeSettings, withUserScope, SettingsT, InScope
<1>4. CASE k.scope = "both"
  BY <1>1, <1>4 DEF ScopeSettings, withUserAndTenantScope, SettingsT, InScope
<1>5. CASE k.scope = "metrics"
  BY <1>1, <1>5 DEF ScopeSettings, withInternalMetricsScope, SettingsT, InScope
<1>6. CASE k.scope = "bare"
  BY <1>1, <1>6 DEF ScopeSettings
<1>7. QED
  BY <1>1, <1>2, <1>3, <1>4, <1>5, <1>6 DEF Scopes

LEMMA BeginStep ==
  ASSUME DbInv, NEW r \in Requests, Begin(r) PROVE DbInv'
<1>1. /\ At(r, "begin") /\ UNCHANGED <<rows, policies>> /\ req' = SetPhase(r, "fn")
  BY DEF Begin, Quiet
<1>2. PICK c, k : c = Top(r).conn /\ k = TheCall(r)
  OBVIOUS
<1>3. /\ c \in Conns /\ k \in CallT /\ k.scope # "client" /\ conn[c] \in SessionT
      /\ conn[c].st = "held"
  BY <1>1, <1>2, TopHasSession DEF Session
<1>4. PICK s, t : s = ScopeSettings(conn[c].settings, k) /\ t = (k.scope # "bare")
  OBVIOUS
<1>5. /\ s \in SettingsT /\ (k.scope # "bare" => InScope(s, k))
      /\ t \in BOOLEAN
  <2>1. conn[c].settings \in SettingsT
    BY <1>3 DEF SessionT
  <2>2. s \in SettingsT /\ (k.scope # "bare" => InScope(s, k))
    BY <1>3, <1>4, <2>1, SettingsReplaced
  <2>3. t \in BOOLEAN
    BY <1>4, Zenon
  <2>4. QED
    BY <2>2, <2>3
<1>6. k.scope = "bare" => t = FALSE
  BY <1>4, Zenon
<1>7. PICK x : x = [conn[c] EXCEPT !.settings = s, !.txn = t]
  OBVIOUS
<1>8. x \in SessionT /\ x.st = "held" /\ x.settings = s /\ x.txn = t
  BY <1>3, <1>5, <1>7 DEF SessionT
<1>9. conn' = [conn EXCEPT ![c] = x]
  <2>1. conn' = [conn EXCEPT ![c].settings = ScopeSettings(@, k), ![c].txn = (k.scope # "bare")]
    BY <1>2 DEF Begin
  <2>2. conn' = [conn EXCEPT ![c].settings = s, ![c].txn = t]
    BY <1>4, <2>1
  <2>3. QED
    BY <1>7, <2>2
<1>10. /\ conn' \in [Conns -> SessionT] /\ conn'[c] = x
       /\ \A d \in Conns : d # c => conn'[d] = conn[d]
  BY <1>3, <1>8, <1>9 DEF DbInv, DbShape
<1>11. Borrowed(k, "fn", x)
  BY <1>5, <1>6, <1>8 DEF Borrowed
<1>12. PoolSound' /\ OnlyRequest(r)
  <2>1. "fn" \in Phases
    BY DEF Phases
  <2>2. QED
    BY <1>1, <1>2, <1>8, <1>10, <1>11, <2>1, PhaseStep
<1>13. QED
  BY <1>1, <1>10, <1>12, RequestStepKeeps DEF DbInv, DbShape

LEMMA CallStoreStep ==
  ASSUME DbInv, NEW r \in Requests, CallStore(r) PROVE DbInv'
<1>1. /\ At(r, "fn") /\ Len(req[r].stack) = 1 /\ UNCHANGED <<conn, rows, policies>>
      /\ req' = [req EXCEPT ![r].stack = Append(@, NoFrame)]
  BY DEF CallStore, Quiet
<1>2. /\ req[r].stack # <<>> /\ Top(r).phase = "fn" /\ TheCall(r).scope # "client"
  BY <1>1, TopHasSession
<1>3. /\ req[r] \in RequestT /\ req[r].stack \in Seq(FrameT) /\ Top(r) = req[r].stack[1]
      /\ DbShape /\ StackSound(req[r])
  BY <1>1, <1>2, OpenRequest, TopFrame DEF DbInv
<1>4. NoFrame \in FrameT /\ NoFrame.phase = "connect" /\ NoFrame.conn = NoOne
  BY DEF NoFrame, FrameT, Phases
<1>5. PICK s : s = Append(req[r].stack, NoFrame)
  OBVIOUS
<1>6. s \in Seq(FrameT) /\ Len(s) = 2 /\ s[1] = req[r].stack[1] /\ s[2] = NoFrame
  BY <1>1, <1>3, <1>4, <1>5
<1>7. PICK q : q = [req[r] EXCEPT !.stack = s]
  OBVIOUS
<1>8. q \in RequestT /\ q.script = req[r].script /\ q.at = req[r].at /\ q.stack = s
  BY <1>3, <1>6, <1>7 DEF RequestT
<1>9. req' = [req EXCEPT ![r] = q]
  BY <1>1, <1>5, <1>7
<1>10. req' \in [Requests -> RequestT] /\ req'[r] = q /\ \A x \in Requests : x # r => req'[x] = req[x]
  BY <1>3, <1>8, <1>9 DEF DbShape
<1>11. StackSound(q)
  <2>1. \A i \in 1 .. Len(s) : s[i] = NoFrame \/ (i = 1 /\ s[i] = req[r].stack[1])
    BY <1>6
  <2>2. req[r].stack[1].conn # NoOne
    BY <1>1, <1>2, <1>3 DEF StackSound
  <2>3. q.at \in 1 .. Len(q.script)
    BY <1>2, <1>3, <1>8 DEF StackSound
  <2>4. \A i \in 1 .. Len(q.script) : CallSound(q.script[i])
    BY <1>3, <1>8 DEF StackSound
  <2>5. q.script[q.at].scope # "client"
    BY <1>2, <1>8 DEF TheCall
  <2>6. s[1].phase = "fn" /\ Len(s) <= 2
    BY <1>2, <1>3, <1>6
  <2>7. \A i \in 1 .. Len(s) : s[i].conn = NoOne <=> s[i].phase = "connect"
    BY <1>2, <1>3, <1>4, <2>1, <2>2
  <2>8. QED
    BY <1>8, <2>3, <2>4, <2>5, <2>6, <2>7 DEF StackSound
<1>12. OnlyRequest(r)
  BY <1>10, <1>11 DEF OnlyRequest
<1>13. PoolSound'
  <2>1. TheCall(r)' = TheCall(r)
    BY <1>8, <1>10 DEF TheCall
  <2>2. 2 = Len(req[r].stack) + 1 /\ Len(req'[r].stack) = 2 /\ req'[r].stack[2] = NoFrame
        /\ req'[r].stack[1] = req[r].stack[1]
    <3>1. req'[r].stack = s
      BY <1>8, <1>10
    <3>2. QED
      BY <1>1, <1>6, <3>1
  <2>3. QED
    BY <1>1, <1>12, <2>1, <2>2, OpenStep
<1>14. QED
  BY <1>1, <1>12, <1>13, RequestStepKeeps DEF DbInv, DbShape

LEMMA FnStep ==
  ASSUME DbInv, NEW r \in Requests, Fn(r) PROVE DbInv'
<1>1. At(r, "fn") /\ UNCHANGED <<conn, rows, policies>>
  BY DEF Fn, Quiet
<1>2. PICK p \in {"rollback", "commit"} : req' = SetPhase(r, p)
  BY DEF Fn
<1>3. PICK c : c = Top(r).conn
  OBVIOUS
<1>4. conn[c].st = "held" /\ Borrowed(TheCall(r), "fn", conn[c])
  BY <1>1, <1>3, TopHasSession DEF Session
<1>5. Borrowed(TheCall(r), p, conn[c]) /\ p \in Phases /\ p # "connect"
  BY <1>4 DEF Borrowed, Phases
<1>6. PoolSound' /\ OnlyRequest(r)
  BY <1>1, <1>2, <1>3, <1>4, <1>5, PhaseStep
<1>7. QED
  BY <1>1, <1>6, RequestStepKeeps DEF DbInv, DbShape

\* Rows stay rows.
LEMMA EffectRows ==
  ASSUME DbInv, NEW r \in Requests, TheCall(r) \in CallT PROVE Effect(r) \subseteq RowT
<1>1. rows \subseteq RowT /\ TheCall(r).row \in RowT
  BY DEF DbInv, DbShape, CallT
<1>2. QED
  BY <1>1 DEF Effect

LEMMA CommitStep ==
  ASSUME DbInv, NEW r \in Requests, Commit(r) PROVE DbInv'
<1>1. At(r, "commit") /\ rows' = Effect(r) /\ req' = Leave(r, FALSE) /\ UNCHANGED policies
  BY DEF Commit, Quiet
<1>2. PICK c : c = Top(r).conn
  OBVIOUS
<1>3. /\ req[r].stack # <<>> /\ c \in Conns /\ TheCall(r) \in CallT /\ conn[c] \in SessionT
  BY <1>1, <1>2, TopHasSession DEF Session
<1>4. conn[c].live = TRUE
  <2>1. conn[c].live
    BY <1>2 DEF Commit, Session
  <2>2. conn[c].live \in BOOLEAN
    BY <1>3 DEF SessionT
  <2>3. QED
    BY <2>1, <2>2
<1>5. PICK s \in {conn[c].settings, NoSettings} :
        conn' = [conn EXCEPT ![c] = [@ EXCEPT !.st = "idle", !.txn = FALSE, !.settings = s]]
  BY <1>2 DEF Commit, Session
<1>6. s \in SettingsT
  <2>1. NoSettings \in SettingsT
    BY DEF NoSettings, SettingsT, Names, NoOne
  <2>2. conn[c].settings \in SettingsT
    BY <1>3 DEF SessionT
  <2>3. QED
    BY <2>1, <2>2
<1>7. PICK x : x = [conn[c] EXCEPT !.st = "idle", !.txn = FALSE, !.settings = s]
  OBVIOUS
<1>8. x \in SessionT /\ x.st = "idle" /\ x.live = TRUE /\ x.txn = FALSE
  BY <1>3, <1>4, <1>6, <1>7 DEF SessionT
<1>9. conn' = [conn EXCEPT ![c] = x]
  BY <1>5, <1>7
<1>10. /\ conn' \in [Conns -> SessionT] /\ conn'[c] = x
       /\ \A d \in Conns : d # c => conn'[d] = conn[d]
  BY <1>3, <1>8, <1>9 DEF DbInv, DbShape
<1>11. PoolSound' /\ OnlyRequest(r)
  <2>1. FALSE \in BOOLEAN
    OBVIOUS
  <2>2. \A d \in Conns : d = c => conn'[d].st # "held" /\ conn'[d].live = TRUE /\ conn'[d].txn = FALSE
    BY <1>8, <1>10
  <2>3. QED
    BY <1>1, <1>2, <1>3, <1>10, <2>1, <2>2, LeaveStep
<1>12. rows' \subseteq RowT
  BY <1>1, <1>3, EffectRows
<1>13. QED
  BY <1>1, <1>10, <1>11, <1>12, RequestStepKeeps

LEMMA QueryFailsStep ==
  ASSUME DbInv, NEW r \in Requests, QueryFails(r) PROVE DbInv'
<1>1. PICK p \in {"begin", "fn", "commit"} : At(r, p)
  BY DEF QueryFails
<1>2. /\ UNCHANGED <<conn, policies>> /\ req' = SetPhase(r, "rollback")
      /\ rows' = rows \/ rows' = Effect(r)
  BY DEF QueryFails, Quiet
<1>3. PICK c : c = Top(r).conn
  OBVIOUS
<1>4. /\ conn[c].st = "held" /\ Borrowed(TheCall(r), p, conn[c]) /\ TheCall(r) \in CallT
  BY <1>1, <1>3, TopHasSession DEF Session
<1>5. Borrowed(TheCall(r), "rollback", conn[c]) /\ "rollback" \in Phases /\ p # "connect"
  BY <1>4 DEF Borrowed, Phases
<1>6. PoolSound' /\ OnlyRequest(r)
  BY <1>1, <1>2, <1>3, <1>4, <1>5, PhaseStep
<1>7. rows' \subseteq RowT
  BY <1>2, <1>4, EffectRows DEF DbInv, DbShape
<1>8. QED
  BY <1>2, <1>6, <1>7, RequestStepKeeps DEF DbInv, DbShape

LEMMA RollbackStep ==
  ASSUME DbInv, NEW r \in Requests, Rollback(r) PROVE DbInv'
<1>1. At(r, "rollback") /\ conn' = release(r) /\ req' = Leave(r, TRUE) /\ UNCHANGED <<rows, policies>>
  BY DEF Rollback, Quiet
<1>2. PICK c, k : c = Top(r).conn /\ k = TheCall(r)
  OBVIOUS
<1>3. /\ req[r].stack # <<>> /\ c \in Conns /\ conn[c] \in SessionT /\ Borrowed(k, "rollback", conn[c])
  BY <1>1, <1>2, TopHasSession DEF Session
<1>4. PICK x : x = (IF k.scope = "bare" /\ k.op = "read" /\ conn[c].live
                    THEN [conn[c] EXCEPT !.st = "idle"] ELSE NoSession)
  OBVIOUS
<1>5. x \in SessionT /\ x.st # "held" /\ (x.st = "idle" => x.live = TRUE /\ x.txn = FALSE)
  <2>1. CASE k.scope = "bare" /\ k.op = "read" /\ conn[c].live
    <3>1. x = [conn[c] EXCEPT !.st = "idle"]
      BY <1>4, <2>1
    <3>2. conn[c].txn = FALSE
      BY <1>3, <2>1 DEF Borrowed
    <3>3. conn[c].live = TRUE
      BY <1>3, <2>1 DEF SessionT
    <3>4. QED
      BY <1>3, <3>1, <3>2, <3>3 DEF SessionT
  <2>2. CASE ~(k.scope = "bare" /\ k.op = "read" /\ conn[c].live)
    <3>1. x = NoSession
      BY <1>4, <2>2
    <3>2. NoSession \in SessionT /\ NoSession.st = "absent"
      BY DEF NoSession, SessionT, NoSettings, SettingsT, Names, NoOne
    <3>3. QED
      BY <3>1, <3>2
  <2>3. QED
    BY <2>1, <2>2
<1>6. conn' = [conn EXCEPT ![c] = x]
  BY <1>1, <1>2, <1>4 DEF release
<1>7. /\ conn' \in [Conns -> SessionT] /\ conn'[c] = x
      /\ \A d \in Conns : d # c => conn'[d] = conn[d]
  BY <1>3, <1>5, <1>6 DEF DbInv, DbShape
<1>8. PoolSound' /\ OnlyRequest(r)
  <2>1. TRUE \in BOOLEAN
    OBVIOUS
  <2>2. \A d \in Conns : d = c =>
          /\ conn'[d].st # "held"
          /\ conn'[d].st = "idle" => conn'[d].live = TRUE /\ conn'[d].txn = FALSE
    BY <1>5, <1>7
  <2>3. QED
    BY <1>1, <1>2, <1>3, <1>7, <2>1, <2>2, LeaveStep
<1>9. QED
  BY <1>1, <1>7, <1>8, RequestStepKeeps DEF DbInv, DbShape

LEMMA SessionDiesStep ==
  ASSUME DbInv, NEW c \in Conns, SessionDies(c) PROVE DbInv'
<1>1. /\ conn' = [conn EXCEPT ![c] = IF @.st = "idle" THEN NoSession ELSE [@ EXCEPT !.live = FALSE]]
      /\ UNCHANGED <<rows, req, policies>>
  BY DEF SessionDies, Quiet
<1>2. PICK x : x = (IF conn[c].st = "idle" THEN NoSession ELSE [conn[c] EXCEPT !.live = FALSE])
  OBVIOUS
<1>3. /\ x \in SessionT /\ x.st # "idle" /\ (x.st = "held" <=> conn[c].st = "held")
      /\ x.st = "held" => x.txn = conn[c].txn /\ x.settings = conn[c].settings
  <2>1. conn[c] \in SessionT
    BY DEF DbInv, DbShape
  <2>2. NoSession \in SessionT /\ NoSession.st = "absent"
    BY DEF NoSession, SessionT, NoSettings, SettingsT, Names, NoOne
  <2>3. QED
    BY <1>2, <2>1, <2>2 DEF SessionT
<1>4. conn' = [conn EXCEPT ![c] = x]
  BY <1>1, <1>2
<1>5. /\ conn' \in [Conns -> SessionT] /\ conn'[c] = x
      /\ \A d \in Conns : d # c => conn'[d] = conn[d]
  BY <1>3, <1>4 DEF DbInv, DbShape
<1>6. DbShape'
  BY <1>1, <1>5 DEF DbInv, DbShape
<1>7. \A d \in Conns : conn'[d].st = "idle" => conn'[d] = conn[d]
  BY <1>3, <1>5
<1>8. \A d \in Conns :
        /\ conn'[d].st = "held" <=> conn[d].st = "held"
        /\ conn'[d].st = "held" => conn'[d].txn = conn[d].txn /\ conn'[d].settings = conn[d].settings
  BY <1>3, <1>5
<1>9. ASSUME NEW d \in Conns, NEW r \in Requests, NEW i \in 1 .. 2
      PROVE  (Has(r, i, d)' <=> Has(r, i, d)) /\ (Lends(r, i, d) => Lends(r, i, d)')
  BY <1>1, <1>8 DEF Has, Lends, Borrowed, TheCall
<1>10. PoolSound'
  BY <1>7, <1>8, <1>9 DEF DbInv, PoolSound
<1>11. \A r \in Requests : StackSound(req'[r])
  BY <1>1 DEF DbInv
<1>12. QED
  BY <1>6, <1>10, <1>11 DEF DbInv

\* A boot changes the policies, never the one that is always there.
LEMMA BootStep ==
  ASSUME DbInv, BootStart \/ runMigrations \/ BootFails PROVE DbInv'
<1>1. UNCHANGED <<conn, rows, req>>
  BY DEF BootStart, runMigrations, BootFails
<1>2. policies' \in {{"owner_isolation"}, {"owner_isolation", "user_isolation"}}
  <2>1. policies \in {{"owner_isolation"}, {"owner_isolation", "user_isolation"}}
    BY DEF DbInv, DbShape
  <2>2. CASE runMigrations
    <3>1. \E file : policies' = AfterMigration(file)
      BY <2>2 DEF runMigrations
    <3>2. QED
      BY <2>1, <3>1 DEF AfterMigration
  <2>3. CASE BootStart \/ BootFails
    BY <2>1, <2>3 DEF BootStart, BootFails
  <2>4. QED
    BY <2>2, <2>3
<1>3. DbShape'
  BY <1>1, <1>2 DEF DbInv, DbShape
<1>4. PoolSound'
  BY <1>1 DEF DbInv, PoolSound, Has, Lends, Borrowed, TheCall
<1>5. QED
  BY <1>1, <1>3, <1>4 DEF DbInv

LEMMA DbStep == DbInv /\ [DbNext]_dbVars => DbInv'
<1> SUFFICES ASSUME DbInv, [DbNext]_dbVars PROVE DbInv'
  OBVIOUS
<1>1. ASSUME NEW r \in Requests, Progress(r) PROVE DbInv'
  BY <1>1, timedConnectStep, connectionTimeoutStep, FreshClientStep, BeginStep, CallStoreStep, FnStep,
     CommitStep, QueryFailsStep, RollbackStep DEF Progress, SessionGone
<1>2. ASSUME NEW r \in Requests, Arrive(r) PROVE DbInv'
  BY <1>2, ArriveStep
<1>3. ASSUME NEW r \in Requests, StatementFails(r) PROVE DbInv'
  BY <1>3, QueryFailsStep DEF StatementFails
<1>4. ASSUME NEW c \in Conns, SessionDies(c) PROVE DbInv'
  BY <1>4, SessionDiesStep
<1>5. CASE BootStart \/ runMigrations \/ BootFails
  BY <1>5, BootStep
<1>6. CASE UNCHANGED dbVars
  BY <1>6 DEF dbVars, DbInv, DbShape, PoolSound, Has, Lends, Borrowed, TheCall
<1>7. QED
  BY <1>1, <1>2, <1>3, <1>4, <1>5, <1>6 DEF DbNext

-----------------------------------------------------------------------------
(* What the invariant says.                                                 *)

LEMMA PoolFollows == DbInv => PoolIsClean
<1> SUFFICES ASSUME DbInv, NEW c \in Conns
             PROVE  /\ conn[c].st = "idle" => conn[c].live /\ ~conn[c].txn
                    /\ (conn[c].st = "held") <=>
                        (\E r \in Requests : \E i \in DOMAIN req[r].stack : req[r].stack[i].conn = c)
  BY DEF PoolIsClean
<1>1. conn[c].st = "idle" => conn[c].live /\ ~conn[c].txn
  BY DEF DbInv, PoolSound
<1>2. ASSUME NEW r \in Requests
      PROVE  Len(req[r].stack) \in 0 .. 2 /\ DOMAIN req[r].stack = 1 .. Len(req[r].stack)
  <2>1. req[r].stack \in Seq(FrameT)
    BY DEF DbInv, DbShape, RequestT
  <2>2. Len(req[r].stack) \in Nat /\ Len(req[r].stack) <= 2
    BY <2>1 DEF DbInv, StackSound
  <2>3. \A n \in Nat : n <= 2 => n \in 0 .. 2
    OBVIOUS
  <2>4. Len(req[r].stack) \in 0 .. 2
    BY <2>2, <2>3
  <2>5. DOMAIN req[r].stack = 1 .. Len(req[r].stack)
    BY <2>1
  <2>6. QED
    BY <2>4, <2>5
<1>3. ASSUME conn[c].st = "held"
      PROVE  \E r \in Requests : \E i \in DOMAIN req[r].stack : req[r].stack[i].conn = c
  BY <1>2, <1>3 DEF DbInv, PoolSound, Has
<1>4. ASSUME NEW r \in Requests, NEW i \in DOMAIN req[r].stack, req[r].stack[i].conn = c
      PROVE  conn[c].st = "held"
  <2>1. i \in 1 .. 2 /\ Has(r, i, c)
    <3>1. PICK n : n = Len(req[r].stack)
      OBVIOUS
    <3>2. n \in 0 .. 2 /\ i \in 1 .. n
      BY <1>2, <1>4, <3>1
    <3>3. QED
      BY <1>4, <3>1, <3>2 DEF Has
  <2>2. QED
    BY <2>1 DEF DbInv, PoolSound, Lends
<1>5. QED
  BY <1>1, <1>3, <1>4

\* What a session with a call's settings shows, and to whom.
LEMMA InScopeShows ==
  ASSUME rows \subseteq RowT, policies \in {{"owner_isolation"}, {"owner_isolation", "user_isolation"}},
         NEW k, CallSound(k), k.scope \notin {"bare", "client"}, NEW s, InScope(s, k)
  PROVE  /\ Entitled(k) \subseteq Visible(s)
         /\ \A x \in Visible(s) \ Entitled(k) :
              policies # {"owner_isolation"} /\ x.table = "batches" /\ x.user = k.user
<1>1. /\ k.scope \in {"tenant", "user", "both", "metrics"} /\ k.tenant \in Names /\ k.user \in Names
      /\ k.scope \in {"tenant", "both"} => k.tenant # NoOne
  BY DEF CallSound, CallT, Scopes
<1>2. \A x \in rows : x.table \in {"batches", "members"} /\ x.tenant # Unset /\ x.user # Unset
  BY DEF RowT, Tables, Names, Unset
<1>3. "owner_isolation" \in policies
      /\ ("user_isolation" \in policies => policies # {"owner_isolation"})
  OBVIOUS
<1>4. ASSUME NEW x \in Entitled(k) PROVE x \in Visible(s)
  <2>1. x \in rows
    BY DEF Entitled
  <2>2. CASE k.scope = "metrics" /\ x.table = "batches"
    BY <1>3, <2>1, <2>2 DEF InScope, Visible, owner_isolation
  <2>3. CASE k.scope \in {"tenant", "both"} /\ x.tenant = k.tenant
    BY <1>1, <1>2, <1>3, <2>1, <2>3 DEF InScope, Visible, owner_isolation, tenant_isolation
  <2>4. CASE k.scope \in {"user", "both"} /\ x.table = "batches" /\ x.user = k.user /\ x.tenant = NoOne
    BY <1>3, <2>1, <2>4 DEF InScope, Visible, owner_isolation
  <2>5. QED
    BY <2>2, <2>3, <2>4 DEF Entitled
<1>5. ASSUME NEW x \in Visible(s), x \notin Entitled(k)
      PROVE  policies # {"owner_isolation"} /\ x.table = "batches" /\ x.user = k.user
  <2>1. x \in rows
    BY DEF Visible
  <2>2. CASE x.table = "members" /\ tenant_isolation(s, x)
    BY <1>1, <1>2, <1>5, <2>1, <2>2 DEF InScope, tenant_isolation, Entitled
  <2>3. CASE x.table = "batches" /\ owner_isolation(s, x)
    BY <1>1, <1>2, <1>5, <2>1, <2>3 DEF InScope, owner_isolation, Entitled
  <2>4. CASE x.table = "batches" /\ "user_isolation" \in policies /\ user_isolation(s, x)
    BY <1>1, <1>2, <1>3, <1>5, <2>1, <2>4 DEF InScope, user_isolation, Entitled
  <2>5. QED
    BY <2>2, <2>3, <2>4 DEF Visible
<1>6. QED
  BY <1>4, <1>5

LEMMA ScopesFollow == DbInv => ScopeIsolation
<1> SUFFICES ASSUME DbInv, NEW r \in Requests, At(r, "fn"), TheCall(r).scope # "bare"
             PROVE  /\ Entitled(TheCall(r)) \subseteq Visible(Session(r).settings)
                    /\ \A x \in Visible(Session(r).settings) \ Entitled(TheCall(r)) :
                         policies # {"owner_isolation"} /\ x.table = "batches" /\ x.user = TheCall(r).user
  BY DEF ScopeIsolation
<1>1. CallSound(TheCall(r)) /\ TheCall(r).scope # "client" /\ Borrowed(TheCall(r), "fn", Session(r))
  BY TopHasSession
<1>2. InScope(Session(r).settings, TheCall(r))
  BY <1>1 DEF Borrowed
<1>3. QED
  BY <1>1, <1>2, InScopeShows DEF DbInv, DbShape

-----------------------------------------------------------------------------
(* The theorems, of every behaviour of the runtime's machines.              *)

\* A session in the pool is alive and outside any transaction; one that is out belongs
\* to exactly the scopes that are open: none leaks on any path through the scope
\* functions (tenantContext.ts 43-75).
THEOREM SessionsChangeHands == Spec => []PoolIsClean
<1>1. Init => DbInv
  BY DbInitInv DEF Init
<1>2. DbInv /\ [Next]_vars => DbInv'
  <2>1. [Next]_vars => [DbNext]_dbVars
    BY DEF Next, vars, dbVars
  <2>2. QED
    BY <2>1, DbStep
<1>3. QED
  BY <1>1, <1>2, PoolFollows, PTL DEF Spec

\* No statement sees another tenant's or user's rows, whatever the sessions went
\* through before and whichever migrations are re-run meanwhile, and a connected
\* credential lands with the tenant whose flow asked for it.
THEOREM TenantsApart == Spec => []TenantsStayApart
<1>1. Init => DbInv
  BY DbInitInv DEF Init
<1>2. DbInv /\ [Next]_vars => DbInv'
  <2>1. [Next]_vars => [DbNext]_dbVars
    BY DEF Next, vars, dbVars
  <2>2. QED
    BY <2>1, DbStep
<1>3. Init => OAuthInit
  BY DEF Init
<1>4. [Next]_vars => [OAuthNext]_oauthVars
  BY DEF Next, vars, oauthVars
<1>5. Spec => []StoredWhereStarted
  BY <1>3, <1>4, ConnectedWhereStarted, PTL DEF Spec, OAuthSpec
<1>6. ScopeIsolation /\ StoredWhereStarted => TenantsStayApart
  BY DEF TenantsStayApart
<1>7. QED
  BY <1>1, <1>2, <1>5, <1>6, ScopesFollow, PTL DEF Spec
=============================================================================
