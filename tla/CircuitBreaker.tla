--------------------------- MODULE CircuitBreaker ---------------------------
(***************************************************************************)
(* packages/jobs/src/redisErrorCircuitBreaker.ts around one BullMQ worker: *)
(* error events, the pause and the timer that resumes it, over a clock.    *)
(***************************************************************************)
EXTENDS Integers, Sequences

CONSTANTS errorThreshold, windowMs, initialCooldownMs, maxCooldownMs,
          MaxTime     \* bound: the clock stops here

ASSUME BreakerAssumption ==
    /\ errorThreshold \in Nat \ {0} /\ windowMs \in Nat
    /\ initialCooldownMs \in Nat \ {0} /\ maxCooldownMs \in Nat /\ MaxTime \in Nat
    /\ initialCooldownMs <= maxCooldownMs

VARIABLES now,
          errorTimestamps,
          cooldownMs,
          tripped,
          resumedAt,     \* -1 for null
          timer,         \* when the pending resume timer fires, -1 for none
          workerPaused   \* BullMQ's own pause flag

breakerVars == <<now, errorTimestamps, cooldownMs, tripped, resumedAt, timer, workerPaused>>

BreakerTypeOK ==
    /\ now \in 0..MaxTime
    /\ errorTimestamps \in Seq(0..MaxTime) /\ Len(errorTimestamps) < errorThreshold
    /\ cooldownMs \in initialCooldownMs..maxCooldownMs
    /\ tripped \in BOOLEAN /\ workerPaused \in BOOLEAN
    /\ resumedAt \in -1..MaxTime /\ timer \in -1..MaxTime + maxCooldownMs

BreakerInit ==
    /\ now = 0 /\ errorTimestamps = <<>> /\ cooldownMs = initialCooldownMs
    /\ tripped = FALSE /\ resumedAt = -1 /\ timer = -1 /\ workerPaused = FALSE

Min2(a, b) == IF a <= b THEN a ELSE b

\* Node runs a timer that is due before the clock moves on.
Tick ==
    /\ now < MaxTime /\ (timer = -1 \/ now < timer)
    /\ now' = now + 1
    /\ UNCHANGED <<errorTimestamps, cooldownMs, tripped, resumedAt, timer, workerPaused>>

\* The cooldown of a trip now: doubled when it follows a resume closely, else reset.
nextCooldown ==
    IF resumedAt # -1 /\ now - resumedAt < cooldownMs * 2
    THEN Min2(cooldownMs * 2, maxCooldownMs) ELSE initialCooldownMs

recentErrors == SelectSeq(Append(errorTimestamps, now), LAMBDA ts : now - ts <= windowMs)

\* A trip that schedules no resume (a mutant).
OnErrorNoTimer(pauseFails) ==
    /\ ~tripped
    /\ IF Len(recentErrors) < errorThreshold
       THEN /\ errorTimestamps' = recentErrors
            /\ UNCHANGED <<cooldownMs, tripped, timer, workerPaused>>
       ELSE /\ cooldownMs' = nextCooldown
            /\ tripped' = ~pauseFails /\ errorTimestamps' = <<>>
            /\ workerPaused' = ~pauseFails
            /\ UNCHANGED timer
    /\ UNCHANGED <<now, resumedAt>>

\* worker.on("error"): ignored while tripped; at the threshold the worker is paused
\* (pause() may itself fail, which is only logged) and a resume timer is set.
OnError(pauseFails) ==
    /\ ~tripped
    /\ IF Len(recentErrors) < errorThreshold
       THEN /\ errorTimestamps' = recentErrors
            /\ UNCHANGED <<cooldownMs, tripped, timer, workerPaused>>
       ELSE /\ cooldownMs' = nextCooldown
            /\ tripped' = TRUE /\ errorTimestamps' = <<>>
            /\ workerPaused' = ~pauseFails
            /\ timer' = now + nextCooldown
    /\ UNCHANGED <<now, resumedAt>>

\* The timer callback.
TimerFires ==
    /\ timer # -1 /\ now >= timer
    /\ workerPaused' = FALSE /\ tripped' = FALSE
    /\ resumedAt' = now /\ timer' = -1
    /\ UNCHANGED <<now, errorTimestamps, cooldownMs>>

BreakerNext == Tick \/ (\E pauseFails \in BOOLEAN : OnError(pauseFails)) \/ TimerFires

BreakerSpec == BreakerInit /\ [][BreakerNext]_breakerVars

\* A worker the breaker paused is never left paused: its resume is scheduled, no
\* further than the maximal cooldown away (redisErrorCircuitBreaker.ts:85-101).
PausedWorkerIsRescheduled ==
    (workerPaused \/ tripped) => (timer # -1 /\ tripped /\ timer - now <= maxCooldownMs)
=============================================================================
