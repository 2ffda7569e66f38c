------------------------- MODULE ScheduledDispatch -------------------------
(***************************************************************************)
(* Scheduled dispatch of one tenant: the worker that processes one firing  *)
(* of a repeatable job (apps/api/src/scheduler/scheduledDispatchProcessor),*)
(* the pause it takes when the cost gate refuses a task, the paused batch  *)
(* it stores (packages/cost-gate durable batch store), the schedule state  *)
(* (packages/db tenantSchedule), and the run-now and resume requests of    *)
(* apps/api/src/routes/scheduler.ts.  Workers and requests interleave at   *)
(* every await that touches shared state; a crash of the process loses     *)
(* their progress and hands the jobs they held out again.                  *)
(***************************************************************************)
EXTENDS Integers, FiniteSets

CONSTANTS Workers,      \* concurrent executions of the processor (worker.ts: concurrency)
          Requests,     \* concurrent HTTP requests of the founder
          Tasks,        \* cadence tasks of the tenant's org chart
          MaxQueued,    \* bound: waiting jobs per task
          MaxBatches,   \* bound: paused batches ever created
          MaxBudget,    \* bound: tasks the ceiling still admits
          MaxCrashes    \* bound: crashes of the process

ASSUME DispatchAssumption ==
    /\ IsFiniteSet(Workers) /\ Workers # {} /\ IsFiniteSet(Requests)
    /\ MaxQueued \in Nat \ {0} /\ MaxBatches \in Nat \ {0}
    /\ MaxBudget \in Nat /\ MaxCrashes \in Nat

VARIABLES
    queue,      \* waiting scheduled-dispatch jobs per task (BullMQ)
    budget,     \* how many more tasks the cost gate admits
    sched,      \* the row of tenant_schedule_state
    batches,    \* the ids in paused_batches
    nextBatch,  \* the next id paused_batches hands out
    worker,     \* progress of every execution of the processor
    request,    \* progress of every HTTP request
    coolingDown,\* tasks whose lastRunNowAt entry is younger than RUN_NOW_COOLDOWN_MS
    crashes,    \* crashes so far
    \* history, read by the properties only
    late,       \* tasks submitted while the schedule was paused, since it was paused
    announced,  \* the owners were mailed about the latest pause
    mailLost,   \* a notification was not sent: it failed, or a crash cut it off
    forgotten,  \* a paused batch lost the schedule state that named it
    runNows     \* run-now jobs per task since its cooldown was last over

sysvars == <<queue, budget, sched, batches, nextBatch,
             worker, request, coolingDown, crashes>>
history == <<late, announced, mailLost, forgotten, runNows>>
vars == <<sysvars, history>>

NoBatch == 0
BatchIds == 1..MaxBatches
NoTask == "no task"
Running == [paused |-> FALSE, batch |-> NoBatch]

IdleWorker == [pc |-> "idle", task |-> NoTask, batch |-> NoBatch]
IdleRequest == [pc |-> "idle", task |-> NoTask, batch |-> NoBatch]

TypeOK ==
    /\ queue \in [Tasks -> 0..MaxQueued + 1 + Cardinality(Workers)]
    /\ budget \in 0..MaxBudget
    /\ sched \in [paused: BOOLEAN, batch: BatchIds \cup {NoBatch}]
    /\ batches \subseteq BatchIds
    /\ nextBatch \in 1..MaxBatches + 1
    /\ worker \in [Workers -> [pc: {"idle", "check", "load", "submit", "record", "recordRefused",
                                    "storeBatch", "pauseSchedule", "notify"},
                               task: Tasks \cup {NoTask}, batch: BatchIds \cup {NoBatch}]]
    /\ request \in [Requests -> [pc: {"idle", "chart", "complete", "clear", "mail"},
                                 task: Tasks \cup {NoTask}, batch: BatchIds \cup {NoBatch}]]
    /\ coolingDown \subseteq Tasks
    /\ crashes \in 0..MaxCrashes
    /\ late \in Nat /\ announced \in BOOLEAN /\ mailLost \in BOOLEAN
    /\ forgotten \in BOOLEAN /\ runNows \in [Tasks -> Nat]

Init ==
    /\ queue = [t \in Tasks |-> 0]
    /\ budget = MaxBudget
    /\ sched = Running /\ batches = {} /\ nextBatch = 1
    /\ worker = [w \in Workers |-> IdleWorker]
    /\ request = [r \in Requests |-> IdleRequest]
    /\ coolingDown = {} /\ crashes = 0
    /\ late = 0 /\ announced = TRUE /\ mailLost = FALSE
    /\ forgotten = FALSE /\ runNows = [t \in Tasks |-> 0]

-----------------------------------------------------------------------------
(* The queue and the tenant's data around the processor. *)

\* A registered job scheduler fires: BullMQ adds a job.  External.
Fire(t) ==
    /\ queue[t] < MaxQueued
    /\ queue' = [queue EXCEPT ![t] = @ + 1]
    /\ UNCHANGED <<budget, sched, batches, nextBatch, worker, request,
                   coolingDown, crashes, history>>

\* The founder raises the ceiling, or a new month begins.
RaiseCeiling ==
    /\ budget < MaxBudget
    /\ budget' = budget + 1
    /\ UNCHANGED <<queue, sched, batches, nextBatch, worker, request,
                   coolingDown, crashes, history>>

-----------------------------------------------------------------------------
(* processScheduledDispatch, one action per await that touches shared state. *)

Goto(w, pc) == worker' = [worker EXCEPT ![w].pc = pc]
Finish(w) == worker' = [worker EXCEPT ![w] = IdleWorker]

\* A free slot of the BullMQ worker takes a waiting job.  External.
TakeJob(w, t) ==
    /\ worker[w].pc = "idle" /\ queue[t] > 0
    /\ queue' = [queue EXCEPT ![t] = @ - 1]
    /\ worker' = [worker EXCEPT ![w] = [IdleWorker EXCEPT !.pc = "check", !.task = t]]
    /\ UNCHANGED <<budget, sched, batches, nextBatch, request,
                   coolingDown, crashes, history>>

\* A job that does not look at the pause (a mutant).
CheckPausedIgnored(w) ==
    /\ worker[w].pc = "check"
    /\ Goto(w, "load")
    /\ UNCHANGED <<queue, budget, sched, batches, nextBatch, request,
                   coolingDown, crashes, history>>

\* scheduleState.get: a paused schedule makes the job a no-op.
CheckPaused(w) ==
    /\ worker[w].pc = "check"
    /\ IF sched.paused THEN Finish(w) ELSE Goto(w, "load")
    /\ UNCHANGED <<queue, budget, sched, batches, nextBatch, request,
                   coolingDown, crashes, history>>

\* Charter, cascade and chart are read together; the founder may have replaced
\* them at any time, so whether they still hold the agent and its task is open.
\* What is missing raises UnschedulableDispatchError, and the job is over.
LoadChart(w, found) ==
    /\ worker[w].pc = "load"
    /\ IF found THEN Goto(w, "submit") ELSE Finish(w)
    /\ UNCHANGED <<queue, budget, sched, batches, nextBatch, request,
                   coolingDown, crashes, history>>

Submitted == late' = IF sched.paused THEN late + 1 ELSE late

\* router.submitTask admits and runs the task (it ends done, failed or awaiting approval).
SubmitAdmitted(w) ==
    /\ worker[w].pc = "submit" /\ budget > 0
    /\ budget' = budget - 1
    /\ Goto(w, "record")
    /\ Submitted
    /\ UNCHANGED <<queue, sched, batches, nextBatch, request,
                   coolingDown, crashes, announced, mailLost, forgotten, runNows>>

\* router.submitTask returns queued or skipped: the ceiling is reached, or the
\* gate failed closed because the estimator could not price the task.
SubmitRefused(w) ==
    /\ worker[w].pc = "submit"
    /\ Goto(w, "recordRefused")
    /\ Submitted
    /\ UNCHANGED <<queue, budget, sched, batches, nextBatch, request,
                   coolingDown, crashes, announced, mailLost, forgotten, runNows>>

\* router.submitTask (or the provider lookup before it) throws: the job fails.
SubmitThrows(w) ==
    /\ worker[w].pc = "submit"
    /\ Finish(w)
    /\ UNCHANGED <<queue, budget, sched, batches, nextBatch, request,
                   coolingDown, crashes, history>>

\* recordScheduledRun, then isCeilingExhaustion on the result's status.
Record(w) ==
    /\ worker[w].pc \in {"record", "recordRefused"}
    /\ IF worker[w].pc = "recordRefused" THEN Goto(w, "storeBatch") ELSE Finish(w)
    /\ UNCHANGED <<queue, budget, sched, batches, nextBatch, request,
                   coolingDown, crashes, history>>

\* durableBatchStore.pause: INSERT ... RETURNING id.
StoreBatch(w) ==
    /\ worker[w].pc = "storeBatch" /\ nextBatch <= MaxBatches
    /\ batches' = batches \cup {nextBatch}
    /\ nextBatch' = nextBatch + 1
    /\ worker' = [worker EXCEPT ![w].pc = "pauseSchedule", ![w].batch = nextBatch]
    /\ UNCHANGED <<queue, budget, sched, request, coolingDown, crashes,
                   history>>

\* scheduleState.pause: the upsert overwrites whatever batch the row named.
PauseSchedule(w) ==
    /\ worker[w].pc = "pauseSchedule"
    /\ sched' = [paused |-> TRUE, batch |-> worker[w].batch]
    /\ forgotten' = (forgotten \/ sched.batch # NoBatch)
    /\ late' = IF sched.paused THEN late ELSE 0
    /\ announced' = FALSE
    /\ Goto(w, "notify")
    /\ UNCHANGED <<queue, budget, batches, nextBatch, request,
                   coolingDown, crashes, mailLost, runNows>>

\* notifySchedulePaused: mails every owner; whatever fails is logged, never thrown.
NotifyPaused(w, sent) ==
    /\ worker[w].pc = "notify"
    /\ Finish(w)
    /\ announced' = (announced \/ sent) /\ mailLost' = (mailLost \/ ~sent)
    /\ UNCHANGED <<queue, budget, sched, batches, nextBatch, request,
                   coolingDown, crashes, late, forgotten, runNows>>

-----------------------------------------------------------------------------
(* The founder's requests (routes/scheduler.ts). *)

\* POST /run-now: refused while paused or cooling down; then the chart is awaited.
RunNow(r, t) ==
    /\ request[r].pc = "idle"
    /\ ~sched.paused /\ t \notin coolingDown
    /\ request' = [request EXCEPT ![r] = [pc |-> "chart", task |-> t, batch |-> NoBatch]]
    /\ UNCHANGED <<queue, budget, sched, batches, nextBatch, worker,
                   coolingDown, crashes, history>>

\* A run-now that starts no cooldown (a mutant).
RunNowEnqueueNoCooldown(r, found) ==
    /\ request[r].pc = "chart"
    /\ LET t == request[r].task IN
         /\ found /\ queue[t] <= MaxQueued
         /\ queue' = [queue EXCEPT ![t] = @ + 1]
         /\ runNows' = [runNows EXCEPT ![t] = @ + 1]
    /\ request' = [request EXCEPT ![r] = IdleRequest]
    /\ UNCHANGED <<budget, sched, batches, nextBatch, worker, crashes,
                   coolingDown, late, announced, mailLost, forgotten>>

\* With the chart read: an unknown task is refused, any other starts its cooldown
\* and is added to the queue (not to the schedule).  The cooldown is not looked at again.
RunNowEnqueue(r, found) ==
    /\ request[r].pc = "chart"
    /\ LET t == request[r].task IN
         \/ /\ found /\ queue[t] <= MaxQueued
            /\ coolingDown' = coolingDown \cup {t}
            /\ queue' = [queue EXCEPT ![t] = @ + 1]
            /\ runNows' = [runNows EXCEPT ![t] = @ + 1]
         \/ /\ ~found
            /\ UNCHANGED <<coolingDown, queue, runNows>>
    /\ request' = [request EXCEPT ![r] = IdleRequest]
    /\ UNCHANGED <<budget, sched, batches, nextBatch, worker, crashes,
                   late, announced, mailLost, forgotten>>

\* RUN_NOW_COOLDOWN_MS has passed since the task's last run-now.
CooldownElapses(t) ==
    /\ t \in coolingDown
    /\ \A r \in Requests : request[r].task # t
    /\ coolingDown' = coolingDown \ {t}
    /\ runNows' = [runNows EXCEPT ![t] = 0]
    /\ UNCHANGED <<queue, budget, sched, batches, nextBatch, worker,
                   request, crashes, late, announced, mailLost, forgotten>>

\* A resume that clears the pause and leaves the batch paused (a mutant).
ResumeWithoutComplete(r) ==
    /\ request[r].pc = "idle"
    /\ request' = [request EXCEPT ![r] = [pc |-> "clear", task |-> NoTask, batch |-> sched.batch]]
    /\ UNCHANGED <<queue, budget, sched, batches, nextBatch, worker,
                   coolingDown, crashes, history>>

\* POST /resume reads the schedule state.
Resume(r) ==
    /\ request[r].pc = "idle"
    /\ request' = [request EXCEPT ![r] = [pc |-> IF sched.batch = NoBatch THEN "clear" ELSE "complete",
                                          task |-> NoTask, batch |-> sched.batch]]
    /\ UNCHANGED <<queue, budget, sched, batches, nextBatch, worker,
                   coolingDown, crashes, history>>

\* durableBatchStore.complete deletes the batch, or throws when there is none:
\* the request then fails before it reaches scheduleState.resume.
CompleteBatch(r) ==
    /\ request[r].pc = "complete"
    /\ IF request[r].batch \in batches
       THEN request' = [request EXCEPT ![r].pc = "clear"]
       ELSE request' = [request EXCEPT ![r] = IdleRequest]
    /\ batches' = batches \ {request[r].batch}
    /\ UNCHANGED <<queue, budget, sched, nextBatch, worker, coolingDown,
                   crashes, history>>

\* scheduleState.resume clears the pause, whichever batch the row names by now.
ClearPause(r) ==
    /\ request[r].pc = "clear"
    /\ sched' = Running
    /\ forgotten' = (forgotten \/ sched.batch \notin {NoBatch, request[r].batch})
    /\ request' = [request EXCEPT ![r].pc = "mail"]
    /\ UNCHANGED <<queue, budget, batches, nextBatch, worker,
                   coolingDown, crashes, late, announced, mailLost, runNows>>

\* notifyScheduleResumed, and the response.
NotifyResumed(r) ==
    /\ request[r].pc = "mail"
    /\ request' = [request EXCEPT ![r] = IdleRequest]
    /\ UNCHANGED <<queue, budget, sched, batches, nextBatch, worker,
                   coolingDown, crashes, history>>

-----------------------------------------------------------------------------
\* The process dies and restarts: requests and the run-now map are gone; the jobs
\* the workers held are stalled and handed out again, each as a new task, because
\* the dedup key holds the time of the attempt.
Crash ==
    /\ crashes < MaxCrashes
    /\ crashes' = crashes + 1
    /\ queue' = [t \in Tasks |-> queue[t] + Cardinality({w \in Workers : worker[w].task = t})]
    /\ worker' = [w \in Workers |-> IdleWorker]
    /\ request' = [r \in Requests |-> IdleRequest]
    /\ coolingDown' = {} /\ runNows' = [t \in Tasks |-> 0]
    /\ mailLost' = (mailLost \/ \E w \in Workers : worker[w].pc = "notify")
    /\ forgotten' = (forgotten \/ \E w \in Workers : worker[w].pc = "pauseSchedule")
    /\ UNCHANGED <<budget, sched, batches, nextBatch, late, announced>>

Next ==
    \/ \E t \in Tasks : Fire(t) \/ CooldownElapses(t)
    \/ RaiseCeiling
    \/ \E w \in Workers, t \in Tasks : TakeJob(w, t)
    \/ \E w \in Workers :
          \/ CheckPaused(w)
          \/ \E found \in BOOLEAN : LoadChart(w, found)
          \/ SubmitAdmitted(w) \/ SubmitRefused(w) \/ SubmitThrows(w)
          \/ Record(w) \/ StoreBatch(w) \/ PauseSchedule(w)
          \/ \E sent \in BOOLEAN : NotifyPaused(w, sent)
    \/ \E r \in Requests :
          \/ \E t \in Tasks : RunNow(r, t)
          \/ \E found \in BOOLEAN : RunNowEnqueue(r, found)
          \/ Resume(r) \/ CompleteBatch(r) \/ ClearPause(r) \/ NotifyResumed(r)
    \/ Crash

Spec == Init /\ [][Next]_vars

-----------------------------------------------------------------------------
Idle == /\ \A w \in Workers : worker[w].pc = "idle"
        /\ \A r \in Requests : request[r].pc = "idle"

\* A pause stops the schedule within the worker's concurrency: once it is stored,
\* only executions that read the state before it still submit a task, and the one
\* that paused is not among them (scheduledDispatchProcessor.ts:74-75).
PauseOverrunBounded == late < Cardinality(Workers)

\* A pause is never silent: when nothing is in flight, the owners of a paused
\* tenant have been mailed since the pause, unless a mail failed or a crash cut
\* it off (scheduledDispatchProcessor.ts:152).
PauseAnnounced == (Idle /\ sched.paused /\ ~mailLost) => announced

\* Paused batches do not pile up: when nothing is in flight the stored batches are
\* exactly the one the schedule state names, except when two refusals overlapped, a
\* resume cleared a newer pause, or a crash fell between storing the batch and the
\* pause, the three ways the code forgets one (routes/scheduler.ts:206-212).
NoForgottenBatch ==
    (Idle /\ ~forgotten) => batches \ {sched.batch} = {}

\* When nothing is in flight the pause is accounted for: announced, and with no
\* batch beside the one the schedule names.
PauseAccountedFor == PauseAnnounced /\ NoForgottenBatch

\* The run-now cooldown leaks by no more than the requests that were in flight
\* together: it is read before the chart is awaited and written after it
\* (routes/scheduler.ts:98-121).
RunNowBounded == \A t \in Tasks : runNows[t] <= Cardinality(Requests)
=============================================================================
