---------------------- MODULE ScheduledDispatchProofs ----------------------
(***************************************************************************)
(* Theorems about ScheduledDispatch, for any number of workers, requests,  *)
(* tasks, batches and crashes.                                             *)
(*                                                                         *)
(* Each property is a bound or a promise about what is left once everything *)
(* in flight has ended, so each strengthening accounts for what is in      *)
(* flight: the workers that read the state before the pause, the batch a   *)
(* worker is about to name, the mail it is about to send, the requests that *)
(* read the cooldown before it began.                                      *)
(***************************************************************************)
EXTENDS ScheduledDispatch, FiniteSetTheorems, TLAPS

-----------------------------------------------------------------------------
(* The progress of workers and requests.                                     *)

WorkerPcs == {"idle", "check", "load", "submit", "record", "recordRefused",
              "storeBatch", "pauseSchedule", "notify"}
RequestPcs == {"idle", "chart", "complete", "clear", "mail"}
Batch == BatchIds \cup {NoBatch}

WorkerState == [pc: WorkerPcs, task: Tasks \cup {NoTask}, batch: Batch]
RequestState == [pc: RequestPcs, task: Tasks \cup {NoTask}, batch: Batch]

\* The types the proofs use; a run-now names a task of the chart.
Typed ==
  /\ sched \in [paused: BOOLEAN, batch: Batch]
  /\ batches \subseteq BatchIds /\ nextBatch \in 1..MaxBatches + 1
  /\ worker \in [Workers -> WorkerState]
  /\ request \in [Requests -> RequestState]
  /\ coolingDown \subseteq Tasks
  /\ late \in Nat /\ announced \in BOOLEAN /\ mailLost \in BOOLEAN /\ forgotten \in BOOLEAN
  /\ runNows \in [Tasks -> Nat]
  /\ \A r \in Requests : request[r].pc = "chart" => request[r].task \in Tasks

\* The steps of the processor, of the founder's requests, and what happens around them.
WorkerSteps(w) ==
  \/ \E t \in Tasks : TakeJob(w, t)
  \/ CheckPaused(w)
  \/ \E found \in BOOLEAN : LoadChart(w, found)
  \/ SubmitAdmitted(w) \/ SubmitRefused(w) \/ SubmitThrows(w)
  \/ Record(w) \/ StoreBatch(w) \/ PauseSchedule(w)
  \/ \E sent \in BOOLEAN : NotifyPaused(w, sent)

RequestSteps(r) ==
  \/ \E t \in Tasks : RunNow(r, t)
  \/ \E found \in BOOLEAN : RunNowEnqueue(r, found)
  \/ Resume(r) \/ CompleteBatch(r) \/ ClearPause(r) \/ NotifyResumed(r)

Environment == (\E t \in Tasks : Fire(t) \/ CooldownElapses(t)) \/ RaiseCeiling

\* What is at rest.
LEMMA AtRest ==
  /\ IdleWorker \in WorkerState /\ IdleWorker.pc = "idle" /\ IdleWorker.batch = NoBatch
  /\ IdleRequest \in RequestState /\ IdleRequest.pc = "idle" /\ IdleRequest.batch = NoBatch
BY DEF IdleWorker, WorkerState, WorkerPcs, IdleRequest, RequestState, RequestPcs, Batch

\* Goto moves one worker on.
LEMMA Moved ==
  ASSUME Typed, NEW w \in Workers, NEW pc \in WorkerPcs, Goto(w, pc)
  PROVE  /\ worker' \in [Workers -> WorkerState]
         /\ worker'[w].pc = pc /\ worker'[w].batch = worker[w].batch
         /\ \A v \in Workers : v # w => worker'[v] = worker[v]
<1>1. worker[w] \in WorkerState /\ worker' = [worker EXCEPT ![w] = [worker[w] EXCEPT !.pc = pc]]
  BY DEF Typed, Goto
<1>2. LET u == [worker[w] EXCEPT !.pc = pc]
      IN  u \in WorkerState /\ u.pc = pc /\ u.batch = worker[w].batch
  BY <1>1 DEF WorkerState
<1>3. QED
  BY <1>1, <1>2 DEF Typed

\* Finish lets one worker rest.
LEMMA Finished ==
  ASSUME Typed, NEW w \in Workers, Finish(w)
  PROVE  /\ worker' \in [Workers -> WorkerState]
         /\ worker'[w].pc = "idle" /\ worker'[w].batch = NoBatch
         /\ \A v \in Workers : v # w => worker'[v] = worker[v]
BY AtRest DEF Typed, Finish

\* A worker that takes a job.
LEMMA Taken ==
  ASSUME Typed, NEW w \in Workers, NEW t \in Tasks, TakeJob(w, t)
  PROVE  /\ worker' \in [Workers -> WorkerState]
         /\ worker'[w].pc = "check"
         /\ \A v \in Workers : v # w => worker'[v] = worker[v]
<1> DEFINE u == [IdleWorker EXCEPT !.pc = "check", !.task = t]
<1>1. u \in WorkerState /\ u.pc = "check"
  BY DEF IdleWorker, WorkerState, WorkerPcs, Batch
<1>2. worker' = [worker EXCEPT ![w] = u]
  BY DEF TakeJob
<1> HIDE DEF u
<1>3. QED
  BY <1>1, <1>2 DEF Typed

\* A worker that stores a batch knows its id, which is new.
LEMMA Stored ==
  ASSUME Typed, NEW w \in Workers, StoreBatch(w)
  PROVE  /\ worker' \in [Workers -> WorkerState]
         /\ worker'[w].pc = "pauseSchedule" /\ worker'[w].batch = nextBatch
         /\ \A v \in Workers : v # w => worker'[v] = worker[v]
         /\ nextBatch \in BatchIds /\ nextBatch' = nextBatch + 1
         /\ nextBatch' \in 1..MaxBatches + 1 /\ batches' = batches \cup {nextBatch}
<1> DEFINE u == [worker[w] EXCEPT !.pc = "pauseSchedule", !.batch = nextBatch]
<1>1. /\ nextBatch <= MaxBatches /\ nextBatch' = nextBatch + 1 /\ batches' = batches \cup {nextBatch}
      /\ worker' = [worker EXCEPT ![w] = u]
  BY DEF StoreBatch
<1>2. nextBatch \in BatchIds /\ nextBatch' \in 1..MaxBatches + 1
  BY <1>1, DispatchAssumption DEF Typed, BatchIds
<1>3. worker[w] \in WorkerState
  BY DEF Typed
<1>4. u \in WorkerState /\ u.pc = "pauseSchedule" /\ u.batch = nextBatch
  BY <1>2, <1>3 DEF WorkerState, WorkerPcs, Batch
<1> HIDE DEF u
<1>5. QED
  BY <1>1, <1>2, <1>4 DEF Typed

\* A request goes on in another state.
LEMMA Replaced ==
  ASSUME Typed, NEW r \in Requests, NEW q \in RequestState, request' = [request EXCEPT ![r] = q]
  PROVE  /\ request' \in [Requests -> RequestState]
         /\ request'[r] = q
         /\ \A s \in Requests : s # r => request'[s] = request[s]
BY DEF Typed

\* What each step of a request makes of it.
LEMMA Asked ==
  ASSUME Typed, NEW r \in Requests, RequestSteps(r)
  PROVE  /\ request' \in [Requests -> RequestState]
         /\ \A s \in Requests : s # r => request'[s] = request[s]
         /\ (\E t \in Tasks : RunNow(r, t) /\ request'[r].task = t) \/ request'[r].pc # "chart"
         /\ request'[r].pc = "clear" =>
              \/ request'[r].batch = NoBatch
              \/ CompleteBatch(r) /\ request'[r].batch = request[r].batch
         /\ request'[r].pc = "complete" => request'[r].batch = sched.batch
<1>0. request[r] \in RequestState /\ sched.batch \in Batch /\ request \in [Requests -> RequestState]
  BY DEF Typed
<1>1. ASSUME NEW t \in Tasks, RunNow(r, t)
      PROVE  request' = [request EXCEPT ![r] = [pc |-> "chart", task |-> t, batch |-> NoBatch]]
  BY <1>1 DEF RunNow
<1>2. ASSUME NEW t \in Tasks
      PROVE  LET q == [pc |-> "chart", task |-> t, batch |-> NoBatch]
             IN  q \in RequestState /\ q.task = t /\ q.pc = "chart"
  BY DEF RequestState, RequestPcs, Batch
<1>3. CASE \E t \in Tasks : RunNow(r, t)
  <2>1. PICK t \in Tasks : RunNow(r, t)
    BY <1>3
  <2> DEFINE q == [pc |-> "chart", task |-> t, batch |-> NoBatch]
  <2>2. request' = [request EXCEPT ![r] = q] /\ q \in RequestState /\ q.task = t /\ q.pc = "chart"
    BY <1>1, <1>2, <2>1
  <2> HIDE DEF q
  <2>3. QED
    BY <2>1, <2>2, Replaced
<1>4. CASE (\E found \in BOOLEAN : RunNowEnqueue(r, found)) \/ NotifyResumed(r)
  <2>1. request' = [request EXCEPT ![r] = IdleRequest]
    BY <1>4 DEF RunNowEnqueue, NotifyResumed
  <2>2. QED
    BY <2>1, AtRest, Replaced
<1>5. CASE Resume(r)
  <2> DEFINE q == [pc |-> IF sched.batch = NoBatch THEN "clear" ELSE "complete",
                   task |-> NoTask, batch |-> sched.batch]
  <2>1. /\ q \in RequestState /\ q.batch = sched.batch
        /\ q.pc = "clear" => sched.batch = NoBatch
        /\ q.pc \in {"clear", "complete"}
    BY <1>0 DEF RequestState, RequestPcs
  <2>2. request' = [request EXCEPT ![r] = q]
    BY <1>5 DEF Resume
  <2> HIDE DEF q
  <2>3. QED
    BY <2>1, <2>2, Replaced
<1>6. ASSUME NEW pc \in {"clear", "mail"}, request' = [request EXCEPT ![r].pc = pc]
      PROVE  /\ request' \in [Requests -> RequestState]
             /\ \A s \in Requests : s # r => request'[s] = request[s]
             /\ request'[r].pc = pc /\ request'[r].batch = request[r].batch
  <2> DEFINE q == [request[r] EXCEPT !.pc = pc]
  <2>1. q \in RequestState /\ q.pc = pc /\ q.batch = request[r].batch
    BY <1>0 DEF RequestState, RequestPcs
  <2>2. request' = [request EXCEPT ![r] = q]
    BY <1>0, <1>6
  <2> HIDE DEF q
  <2>3. QED
    BY <2>1, <2>2, Replaced
<1>7. CASE CompleteBatch(r)
  <2>1. request' = [request EXCEPT ![r].pc = "clear"] \/ request' = [request EXCEPT ![r] = IdleRequest]
    BY <1>7 DEF CompleteBatch
  <2>2. QED
    BY <1>6, <1>7, <2>1, AtRest, Replaced
<1>8. CASE ClearPause(r)
  BY <1>6, <1>8 DEF ClearPause
<1>9. QED
  BY <1>3, <1>4, <1>5, <1>7, <1>8 DEF RequestSteps

\* What each step of a worker makes of it.
LEMMA Worked ==
  ASSUME Typed, NEW w \in Workers, WorkerSteps(w)
  PROVE  /\ worker' \in [Workers -> WorkerState]
         /\ \A v \in Workers : v # w => worker'[v] = worker[v]
         /\ worker'[w].pc \in {"load", "submit"} =>
              worker[w].pc \in {"load", "submit"} \/ sched.paused = FALSE
         /\ worker'[w].pc = "pauseSchedule" => StoreBatch(w)
         /\ worker'[w].pc = "notify" => PauseSchedule(w)
         /\ PauseSchedule(w) => worker[w].pc = "pauseSchedule" /\ worker'[w].pc = "notify"
         /\ worker[w].pc = "pauseSchedule" => PauseSchedule(w)
         /\ (\E sent \in BOOLEAN : NotifyPaused(w, sent)) \/ worker[w].pc # "notify"
         /\ SubmitAdmitted(w) \/ SubmitRefused(w) =>
              worker[w].pc = "submit" /\ worker'[w].pc \notin {"load", "submit"}
<1>0. sched.paused \in BOOLEAN /\ worker[w].pc \in WorkerPcs
  BY DEF Typed, WorkerState
<1>1. ASSUME NEW pc \in WorkerPcs, Goto(w, pc)
      PROVE  /\ worker' \in [Workers -> WorkerState] /\ worker'[w].pc = pc
             /\ \A v \in Workers : v # w => worker'[v] = worker[v]
  BY <1>1, Moved
<1>2. ASSUME Finish(w)
      PROVE  /\ worker' \in [Workers -> WorkerState] /\ worker'[w].pc = "idle"
             /\ \A v \in Workers : v # w => worker'[v] = worker[v]
  BY <1>2, Finished
<1>3. CASE \E t \in Tasks : TakeJob(w, t)
  <2>1. worker[w].pc = "idle"
    BY <1>3 DEF TakeJob
  <2>2. QED
    BY <1>3, <2>1, Taken DEF SubmitAdmitted, SubmitRefused, PauseSchedule
<1>4. CASE CheckPaused(w)
  <2>1. (sched.paused = FALSE /\ Goto(w, "load")) \/ Finish(w)
    BY <1>0, <1>4 DEF CheckPaused
  <2>2. "load" \in WorkerPcs /\ worker[w].pc = "check"
    BY <1>4 DEF WorkerPcs, CheckPaused
  <2>3. QED
    BY <1>1, <1>2, <2>1, <2>2 DEF SubmitAdmitted, SubmitRefused, PauseSchedule
<1>5. CASE \E found \in BOOLEAN : LoadChart(w, found)
  <2>1. worker[w].pc = "load" /\ (Goto(w, "submit") \/ Finish(w))
    BY <1>5 DEF LoadChart
  <2>2. "submit" \in WorkerPcs
    BY DEF WorkerPcs
  <2>3. QED
    BY <1>1, <1>2, <2>1, <2>2 DEF SubmitAdmitted, SubmitRefused, PauseSchedule
<1>6. CASE SubmitAdmitted(w) \/ SubmitRefused(w) \/ SubmitThrows(w)
  <2>1. worker[w].pc = "submit"
    BY <1>6 DEF SubmitAdmitted, SubmitRefused, SubmitThrows
  <2>2. \/ SubmitAdmitted(w) /\ Goto(w, "record")
        \/ SubmitRefused(w) /\ Goto(w, "recordRefused")
        \/ SubmitThrows(w) /\ Finish(w)
    BY <1>6 DEF SubmitAdmitted, SubmitRefused, SubmitThrows
  <2>3. "record" \in WorkerPcs /\ "recordRefused" \in WorkerPcs
    BY DEF WorkerPcs
  <2>4. /\ worker' \in [Workers -> WorkerState]
        /\ \A v \in Workers : v # w => worker'[v] = worker[v]
        /\ worker'[w].pc \in {"record", "recordRefused", "idle"}
    BY <1>1, <1>2, <2>2, <2>3
  <2>5. QED
    BY <2>1, <2>4 DEF PauseSchedule
<1>7. CASE Record(w)
  <2>1. worker[w].pc \in {"record", "recordRefused"} /\ (Goto(w, "storeBatch") \/ Finish(w))
    BY <1>7 DEF Record
  <2>2. "storeBatch" \in WorkerPcs
    BY DEF WorkerPcs
  <2>3. QED
    BY <1>1, <1>2, <2>1, <2>2 DEF SubmitAdmitted, SubmitRefused, PauseSchedule
<1>8. CASE StoreBatch(w)
  <2>1. worker[w].pc = "storeBatch"
    BY <1>8 DEF StoreBatch
  <2>2. QED
    BY <1>8, <2>1, Stored DEF SubmitAdmitted, SubmitRefused, PauseSchedule
<1>9. CASE PauseSchedule(w)
  <2>1. worker[w].pc = "pauseSchedule" /\ Goto(w, "notify") /\ "notify" \in WorkerPcs
    BY <1>9 DEF PauseSchedule, WorkerPcs
  <2>2. QED
    BY <1>1, <1>9, <2>1 DEF SubmitAdmitted, SubmitRefused
<1>10. CASE \E sent \in BOOLEAN : NotifyPaused(w, sent)
  <2>1. worker[w].pc = "notify" /\ Finish(w)
    BY <1>10 DEF NotifyPaused
  <2>2. QED
    BY <1>2, <1>10, <2>1 DEF SubmitAdmitted, SubmitRefused, PauseSchedule
<1>11. QED
  BY <1>3, <1>4, <1>5, <1>6, <1>7, <1>8, <1>9, <1>10 DEF WorkerSteps

\* The steps, by who takes them.
LEMMA Steps ==
  Next => \/ \E w \in Workers : WorkerSteps(w)
          \/ \E r \in Requests : RequestSteps(r)
          \/ Environment \/ Crash
BY DEF Next, WorkerSteps, RequestSteps, Environment

\* A run-now that enqueues, and the end of a cooldown.
LEMMA Counted ==
  ASSUME Typed, NEW t \in Tasks
  PROVE  /\ [runNows EXCEPT ![t] = @ + 1] \in [Tasks -> Nat]
         /\ [runNows EXCEPT ![t] = 0] \in [Tasks -> Nat]
BY DEF Typed

\* Every step keeps the types.
LEMMA TypedStep == Typed /\ [Next]_vars => Typed'
<1> SUFFICES ASSUME Typed, [Next]_vars PROVE Typed'
  OBVIOUS
<1>0. /\ sched \in [paused: BOOLEAN, batch: Batch]
      /\ batches \subseteq BatchIds /\ nextBatch \in 1..MaxBatches + 1
      /\ worker \in [Workers -> WorkerState]
      /\ request \in [Requests -> RequestState]
      /\ coolingDown \subseteq Tasks
      /\ late \in Nat /\ announced \in BOOLEAN /\ mailLost \in BOOLEAN /\ forgotten \in BOOLEAN
      /\ runNows \in [Tasks -> Nat]
      /\ \A r \in Requests : request[r].pc = "chart" => request[r].task \in Tasks
  BY DEF Typed
<1>1. ASSUME NEW w \in Workers, WorkerSteps(w) PROVE Typed'
  <2>1. worker' \in [Workers -> WorkerState]
    BY <1>1, Worked
  <2>2. UNCHANGED <<request, coolingDown, runNows>>
    BY <1>1 DEF WorkerSteps, TakeJob, CheckPaused, LoadChart, SubmitAdmitted, SubmitRefused, SubmitThrows,
       Record, StoreBatch, PauseSchedule, NotifyPaused, history
  <2>3. late' \in {0, late, late + 1}
    BY <1>1 DEF WorkerSteps, TakeJob, CheckPaused, LoadChart, SubmitAdmitted, SubmitRefused, SubmitThrows,
       Record, StoreBatch, PauseSchedule, NotifyPaused, history, Submitted
  <2>4. /\ announced' \in BOOLEAN /\ mailLost' \in BOOLEAN /\ forgotten' \in BOOLEAN
    BY <1>0, <1>1 DEF WorkerSteps, TakeJob, CheckPaused, LoadChart, SubmitAdmitted, SubmitRefused, SubmitThrows,
       Record, StoreBatch, PauseSchedule, NotifyPaused, history
  <2>5. batches' \subseteq BatchIds /\ nextBatch' \in 1..MaxBatches + 1
    <3>1. CASE StoreBatch(w)
      BY <1>0, <3>1, Stored
    <3>2. ~StoreBatch(w) => UNCHANGED <<batches, nextBatch>>
      BY <1>1 DEF WorkerSteps, TakeJob, CheckPaused, LoadChart, SubmitAdmitted, SubmitRefused, SubmitThrows,
         Record, PauseSchedule, NotifyPaused
    <3>3. QED
      BY <1>0, <3>1, <3>2
  <2>6. sched' \in [paused: BOOLEAN, batch: Batch]
    <3>1. CASE PauseSchedule(w)
      <4>1. worker[w].batch \in Batch /\ sched' = [paused |-> TRUE, batch |-> worker[w].batch]
        BY <1>0, <3>1 DEF WorkerState, PauseSchedule
      <4>2. QED
        BY <4>1
    <3>2. ~PauseSchedule(w) => sched' = sched
      BY <1>1 DEF WorkerSteps, TakeJob, CheckPaused, LoadChart, SubmitAdmitted, SubmitRefused, SubmitThrows,
         Record, StoreBatch, NotifyPaused
    <3>3. QED
      BY <1>0, <3>1, <3>2
  <2>7. late' \in Nat
    BY <1>0, <2>3
  <2>8. QED
    BY <1>0, <2>1, <2>2, <2>4, <2>5, <2>6, <2>7 DEF Typed
<1>2. ASSUME NEW r \in Requests, RequestSteps(r) PROVE Typed'
  <2>1. /\ request' \in [Requests -> RequestState]
        /\ \A s \in Requests : s # r => request'[s] = request[s]
        /\ request'[r].pc = "chart" => request'[r].task \in Tasks
    BY <1>2, Asked
  <2>2. UNCHANGED <<worker, late, announced, mailLost, nextBatch>>
    BY <1>2 DEF RequestSteps, RunNow, RunNowEnqueue, Resume, CompleteBatch, ClearPause, NotifyResumed, history
  <2>3. coolingDown' \subseteq Tasks /\ runNows' \in [Tasks -> Nat]
    <3>1. ASSUME NEW found \in BOOLEAN, RunNowEnqueue(r, found)
          PROVE  coolingDown' \subseteq Tasks /\ runNows' \in [Tasks -> Nat]
      <4>1. request[r].task \in Tasks
        BY <1>0, <3>1 DEF RunNowEnqueue
      <4>2. \/ coolingDown' = coolingDown \cup {request[r].task}
               /\ runNows' = [runNows EXCEPT ![request[r].task] = @ + 1]
            \/ UNCHANGED <<coolingDown, runNows>>
        BY <3>1 DEF RunNowEnqueue
      <4>3. QED
        BY <1>0, <4>1, <4>2
    <3>2. (\E found \in BOOLEAN : RunNowEnqueue(r, found)) \/ UNCHANGED <<coolingDown, runNows>>
      BY <1>2 DEF RequestSteps, RunNow, Resume, CompleteBatch, ClearPause, NotifyResumed, history
    <3>3. QED
      BY <1>0, <3>1, <3>2
  <2>4. forgotten' \in BOOLEAN /\ batches' \subseteq BatchIds
    BY <1>0, <1>2 DEF RequestSteps, RunNow, RunNowEnqueue, Resume, CompleteBatch, ClearPause, NotifyResumed, history
  <2>5. sched' \in [paused: BOOLEAN, batch: Batch]
    <3>1. sched' = Running \/ sched' = sched
      BY <1>2 DEF RequestSteps, RunNow, RunNowEnqueue, Resume, CompleteBatch, ClearPause, NotifyResumed
    <3>2. Running \in [paused: BOOLEAN, batch: Batch]
      BY DEF Running, Batch
    <3>3. QED
      BY <1>0, <3>1, <3>2
  <2>6. QED
    BY <1>0, <2>1, <2>2, <2>3, <2>4, <2>5 DEF Typed
<1>3. CASE Environment
  <2>1. UNCHANGED <<sched, batches, nextBatch, worker, request, late, announced, mailLost, forgotten>>
    BY <1>3 DEF Environment, Fire, CooldownElapses, RaiseCeiling, history
  <2>2. coolingDown' \subseteq Tasks /\ runNows' \in [Tasks -> Nat]
    BY <1>0, <1>3, Counted DEF Environment, Fire, CooldownElapses, RaiseCeiling, history
  <2>3. QED
    BY <1>0, <2>1, <2>2 DEF Typed
<1>4. CASE Crash
  <2>1. /\ worker' = [w \in Workers |-> IdleWorker] /\ request' = [r \in Requests |-> IdleRequest]
        /\ coolingDown' = {} /\ runNows' = [t \in Tasks |-> 0]
        /\ mailLost' \in BOOLEAN /\ forgotten' \in BOOLEAN
        /\ UNCHANGED <<sched, batches, nextBatch, late, announced>>
    BY <1>4 DEF Crash
  <2>2. /\ worker' \in [Workers -> WorkerState] /\ request' \in [Requests -> RequestState]
        /\ \A r \in Requests : request'[r].pc # "chart"
    BY <2>1, AtRest
  <2>3. QED
    BY <1>0, <2>1, <2>2 DEF Typed
<1>5. CASE UNCHANGED vars
  BY <1>5 DEF vars, sysvars, history, Typed
<1>6. QED
  BY <1>1, <1>2, <1>3, <1>4, <1>5, Steps

\* Everything starts at rest.
LEMMA TypedInit == Init => Typed
<1> SUFFICES ASSUME Init PROVE Typed
  OBVIOUS
<1>1. /\ worker \in [Workers -> WorkerState] /\ request \in [Requests -> RequestState]
      /\ \A r \in Requests : request[r].pc # "chart"
  BY AtRest DEF Init
<1>2. sched \in [paused: BOOLEAN, batch: Batch] /\ nextBatch \in 1..MaxBatches + 1
  BY DispatchAssumption DEF Init, Running, Batch
<1>3. announced \in BOOLEAN /\ mailLost \in BOOLEAN /\ forgotten \in BOOLEAN
  BY DEF Init
<1>4. QED
  BY <1>1, <1>2, <1>3 DEF Init, Typed

-----------------------------------------------------------------------------
(* The overrun of a pause.                                                   *)

\* The workers that have read the schedule state and not submitted their task yet.
Past == {w \in Workers : worker[w].pc \in {"load", "submit"}}

\* While the schedule is paused, what was submitted since and what still can be leaves
\* out the worker that paused it.
LateInv ==
  /\ late < Cardinality(Workers)
  /\ sched.paused = TRUE => late + Cardinality(Past) < Cardinality(Workers)

\* Sets of workers are finite.
LEMMA WorkerSets ==
  /\ Cardinality(Workers) \in Nat
  /\ \A S, T \in SUBSET Workers : S \subseteq T => /\ Cardinality(S) \in Nat /\ Cardinality(T) \in Nat
                                                   /\ Cardinality(S) <= Cardinality(T)
  /\ \A S \in SUBSET Workers, w \in Workers : Cardinality(S \ {w}) = IF w \in S THEN Cardinality(S) - 1
                                                                     ELSE Cardinality(S)
  /\ \A S \in SUBSET Workers, w \in Workers : w \notin S => Cardinality(S) < Cardinality(Workers)
<1>1. IsFiniteSet(Workers) /\ Cardinality(Workers) \in Nat
  BY DispatchAssumption, FS_CardinalityType
<1>2. ASSUME NEW S \in SUBSET Workers
      PROVE  IsFiniteSet(S) /\ Cardinality(S) \in Nat
  BY <1>1, FS_Subset, FS_CardinalityType
<1>3. ASSUME NEW S \in SUBSET Workers, NEW T \in SUBSET Workers, S \subseteq T
      PROVE  Cardinality(S) <= Cardinality(T)
  <2>1. IsFiniteSet(T) /\ S \in SUBSET T
    BY <1>2, <1>3
  <2>2. QED
    BY <2>1, FS_Subset
<1>4. ASSUME NEW S \in SUBSET Workers, NEW w \in Workers
      PROVE  Cardinality(S \ {w}) = IF w \in S THEN Cardinality(S) - 1 ELSE Cardinality(S)
  BY <1>2, FS_RemoveElement
<1>5. ASSUME NEW S \in SUBSET Workers, NEW w \in Workers, w \notin S
      PROVE  Cardinality(S) < Cardinality(Workers)
  <2>1. Cardinality(S) <= Cardinality(Workers) /\ (Cardinality(Workers) = Cardinality(S) => Workers = S)
    BY <1>1, FS_Subset
  <2>2. QED
    BY <1>1, <1>2, <1>5, <2>1
<1>6. QED
  BY <1>1, <1>2, <1>3, <1>4, <1>5

\* Every step keeps the overrun bounded.
LEMMA LateStep == Typed /\ LateInv /\ [Next]_vars => LateInv'
<1> SUFFICES ASSUME Typed, LateInv, [Next]_vars PROVE LateInv'
  OBVIOUS
<1>0. /\ late \in Nat /\ sched.paused \in BOOLEAN /\ Past \in SUBSET Workers /\ Past' \in SUBSET Workers
      /\ Cardinality(Workers) \in Nat /\ Cardinality(Past) \in Nat /\ Cardinality(Past') \in Nat
  BY WorkerSets DEF Typed, Past
\* Nobody gets past the check, and nothing is submitted.
<1>1. ASSUME Past' \subseteq Past, late' = late, sched'.paused = TRUE => sched.paused = TRUE PROVE LateInv'
  <2>1. Cardinality(Past') <= Cardinality(Past)
    BY <1>0, <1>1, WorkerSets
  <2>2. QED
    BY <1>0, <1>1, <2>1 DEF LateInv
<1>2. ASSUME NEW w \in Workers, WorkerSteps(w) PROVE LateInv'
  <2>1. /\ \A v \in Workers : v # w => worker'[v] = worker[v]
        /\ worker'[w].pc \in {"load", "submit"} => w \in Past \/ sched.paused = FALSE
    BY <1>2, Worked DEF Past
  <2>2. CASE SubmitAdmitted(w) \/ SubmitRefused(w)
    <3>1. w \in Past /\ w \notin Past'
      BY <1>2, <2>2, Worked DEF Past
    <3>2. Past' = Past \ {w}
      BY <2>1, <3>1 DEF Past
    <3>3. Cardinality(Past') = Cardinality(Past) - 1
      BY <1>0, <3>1, <3>2, WorkerSets
    <3>4. late' = (IF sched.paused THEN late + 1 ELSE late) /\ sched' = sched
      BY <2>2 DEF SubmitAdmitted, SubmitRefused, Submitted
    <3>5. QED
      BY <1>0, <3>3, <3>4 DEF LateInv
  <2>3. CASE PauseSchedule(w)
    <3>1. w \notin Past' /\ w \notin Past
      BY <1>2, <2>3, Worked DEF Past
    <3>2. Past' = Past
      BY <2>1, <3>1 DEF Past
    <3>3. late' = IF sched.paused THEN late ELSE 0
      BY <2>3 DEF PauseSchedule
    <3>4. Cardinality(Past') < Cardinality(Workers)
      BY <1>0, <3>1, WorkerSets
    <3>5. QED
      BY <1>0, <3>2, <3>3, <3>4 DEF LateInv
  <2>4. CASE ~SubmitAdmitted(w) /\ ~SubmitRefused(w) /\ ~PauseSchedule(w)
    <3>1. late' = late /\ sched' = sched
      BY <1>2, <2>4 DEF WorkerSteps, TakeJob, CheckPaused, LoadChart, SubmitThrows, Record, StoreBatch,
         NotifyPaused, history
    <3>2. CASE sched.paused = TRUE
      <4>1. Past' \subseteq Past
        BY <2>1, <3>2 DEF Past
      <4>2. QED
        BY <1>1, <3>1, <4>1
    <3>3. CASE sched.paused = FALSE
      BY <1>0, <3>1, <3>3 DEF LateInv
    <3>4. QED
      BY <1>0, <3>2, <3>3
  <2>5. QED
    BY <2>2, <2>3, <2>4
<1>3. ASSUME NEW r \in Requests, RequestSteps(r) PROVE LateInv'
  <2>1. worker' = worker /\ late' = late /\ sched' \in {sched, Running}
    BY <1>3 DEF RequestSteps, RunNow, RunNowEnqueue, Resume, CompleteBatch, ClearPause, NotifyResumed, history
  <2>2. Past' \subseteq Past /\ Running.paused = FALSE
    BY <2>1 DEF Past, Running
  <2>3. sched'.paused = TRUE => sched.paused = TRUE
    BY <2>1, <2>2
  <2>4. QED
    BY <1>1, <2>1, <2>2, <2>3
<1>4. CASE Environment
  BY <1>1, <1>4 DEF Environment, Fire, CooldownElapses, RaiseCeiling, history, Past
<1>5. CASE Crash
  <2>1. \A w \in Workers : worker'[w].pc = "idle"
    BY <1>5, AtRest DEF Crash
  <2>2. late' = late /\ sched' = sched
    BY <1>5 DEF Crash
  <2>3. QED
    BY <1>1, <2>1, <2>2 DEF Past
<1>6. CASE UNCHANGED vars
  BY <1>1, <1>6 DEF vars, sysvars, history, Past
<1>7. QED
  BY <1>2, <1>3, <1>4, <1>5, <1>6, Steps

\* However many workers race with the pause, and however they crash, fewer tasks are
\* submitted after it than there are workers.
THEOREM OverrunBounded == Spec => []PauseOverrunBounded
<1>1. Init => LateInv
  <2>1. Cardinality(Workers) \in Nat /\ Cardinality(Workers) # 0
    BY DispatchAssumption, FS_CardinalityType, FS_EmptySet
  <2>2. QED
    BY <2>1 DEF Init, LateInv, Running
<1>2. LateInv => PauseOverrunBounded
  BY DEF LateInv, PauseOverrunBounded
<1>3. QED
  BY <1>1, <1>2, TypedInit, TypedStep, LateStep, PTL DEF Spec

-----------------------------------------------------------------------------
(* The mail about a pause, and the batch behind it.                          *)

\* Until the owners are mailed about a pause, the worker that paused is about to.
MailInv ==
  sched.paused = TRUE /\ mailLost = FALSE /\ announced = FALSE =>
    \E w \in Workers : worker[w].pc = "notify"

\* Every stored batch is named by the schedule state or by the worker about to pause
\* with it; ids are given out once; and a resume clears the pause with the batch deleted.
BatchInv ==
  /\ forgotten = FALSE =>
       \A b \in batches : \/ b = sched.batch
                          \/ \E w \in Workers : worker[w].pc = "pauseSchedule" /\ worker[w].batch = b
  /\ \A b \in batches : b < nextBatch
  /\ sched.batch < nextBatch
  /\ \A w \in Workers : worker[w].pc = "pauseSchedule" => worker[w].batch < nextBatch
  /\ \A r \in Requests : request[r].pc \in {"complete", "clear"} => request[r].batch < nextBatch
  /\ \A r \in Requests : request[r].pc = "clear" => request[r].batch \notin batches

\* Every step keeps the promise of a mail.
LEMMA MailStep == Typed /\ MailInv /\ [Next]_vars => MailInv'
<1> SUFFICES ASSUME Typed, MailInv, [Next]_vars,
                    sched'.paused = TRUE, mailLost' = FALSE, announced' = FALSE
             PROVE  \E w \in Workers : worker'[w].pc = "notify"
  BY DEF MailInv
<1>0. announced \in BOOLEAN /\ mailLost \in BOOLEAN /\ sched.paused \in BOOLEAN
  BY DEF Typed
<1>1. ASSUME NEW w \in Workers, WorkerSteps(w) PROVE \E v \in Workers : worker'[v].pc = "notify"
  <2>1. /\ \A v \in Workers : v # w => worker'[v] = worker[v]
        /\ PauseSchedule(w) => worker'[w].pc = "notify"
        /\ (\E sent \in BOOLEAN : NotifyPaused(w, sent)) \/ worker[w].pc # "notify"
    BY <1>1, Worked
  <2>2. CASE \E sent \in BOOLEAN : NotifyPaused(w, sent)
    <3>1. PICK sent \in BOOLEAN : NotifyPaused(w, sent)
      BY <2>2
    <3>2. announced' = (announced \/ sent) /\ mailLost' = (mailLost \/ ~sent)
      BY <3>1 DEF NotifyPaused
    <3>3. FALSE
      BY <1>0, <3>2
    <3>4. QED
      BY <3>3
  <2>3. CASE ~PauseSchedule(w) /\ worker[w].pc # "notify"
    <3>1. UNCHANGED <<sched, announced, mailLost>>
      <4>1. ~(\E sent \in BOOLEAN : NotifyPaused(w, sent))
        BY <2>3 DEF NotifyPaused
      <4>2. QED
        BY <1>1, <2>3, <4>1 DEF WorkerSteps, TakeJob, CheckPaused, LoadChart, SubmitAdmitted, SubmitRefused,
           SubmitThrows, Record, StoreBatch, history
    <3>2. \E v \in Workers : worker[v].pc = "notify"
      BY <3>1 DEF MailInv
    <3>3. QED
      BY <2>1, <2>3, <3>2
  <2>4. QED
    BY <2>1, <2>2, <2>3
<1>2. ASSUME NEW r \in Requests, RequestSteps(r) PROVE \E v \in Workers : worker'[v].pc = "notify"
  <2>1. worker' = worker /\ announced' = announced /\ mailLost' = mailLost /\ sched' \in {sched, Running}
    BY <1>2 DEF RequestSteps, RunNow, RunNowEnqueue, Resume, CompleteBatch, ClearPause, NotifyResumed, history
  <2>2. Running.paused = FALSE
    BY DEF Running
  <2>3. sched' = sched
    BY <2>1, <2>2
  <2>4. QED
    BY <2>1, <2>3 DEF MailInv
<1>3. CASE Environment
  BY <1>3 DEF Environment, Fire, CooldownElapses, RaiseCeiling, history, MailInv
<1>4. CASE Crash
  <2>1. /\ mailLost' = (mailLost \/ \E w \in Workers : worker[w].pc = "notify")
        /\ sched' = sched /\ announced' = announced
    BY <1>4 DEF Crash
  <2>2. mailLost = FALSE /\ ~(\E w \in Workers : worker[w].pc = "notify")
    BY <1>0, <2>1
  <2>3. QED
    BY <2>1, <2>2 DEF MailInv
<1>5. CASE UNCHANGED vars
  BY <1>5 DEF vars, sysvars, history, MailInv
<1>6. QED
  BY <1>1, <1>2, <1>3, <1>4, <1>5, Steps

\* Every step keeps the stored batches named.
LEMMA BatchStep == Typed /\ Typed' /\ BatchInv /\ [Next]_vars => BatchInv'
<1> SUFFICES ASSUME Typed, Typed', BatchInv, [Next]_vars PROVE BatchInv'
  OBVIOUS
<1>0. /\ batches \subseteq BatchIds /\ NoBatch \notin BatchIds /\ nextBatch \in Nat /\ nextBatch # 0
      /\ forgotten \in BOOLEAN /\ sched.batch \in Nat
      /\ \A r \in Requests : request[r].batch \in Nat
      /\ \A w \in Workers : worker[w].batch \in Nat
      /\ \A b \in batches : b \in Nat
  BY DispatchAssumption DEF Typed, BatchIds, NoBatch, Batch, WorkerState, RequestState
<1>1. ASSUME NEW w \in Workers, StoreBatch(w) PROVE BatchInv'
  <2>1. /\ worker'[w].pc = "pauseSchedule" /\ worker'[w].batch = nextBatch
        /\ \A v \in Workers : v # w => worker'[v] = worker[v]
        /\ nextBatch' = nextBatch + 1 /\ batches' = batches \cup {nextBatch}
    BY <1>1, Stored
  <2>2. worker[w].pc # "pauseSchedule" /\ UNCHANGED <<sched, request, forgotten>>
    BY <1>1 DEF StoreBatch, history
  <2>3. forgotten' = FALSE =>
          \A b \in batches' : \/ b = sched'.batch
                              \/ \E v \in Workers : worker'[v].pc = "pauseSchedule" /\ worker'[v].batch = b
    BY <2>1, <2>2 DEF BatchInv
  <2>4. /\ \A b \in batches' : b < nextBatch'
        /\ sched'.batch < nextBatch'
        /\ \A v \in Workers : worker'[v].pc = "pauseSchedule" => worker'[v].batch < nextBatch'
        /\ \A r \in Requests : request'[r].pc \in {"complete", "clear"} => request'[r].batch < nextBatch'
    BY <1>0, <2>1, <2>2 DEF BatchInv
  <2>5. \A r \in Requests : request'[r].pc = "clear" => request'[r].batch \notin batches'
    BY <1>0, <2>1, <2>2 DEF BatchInv
  <2>6. QED
    BY <2>3, <2>4, <2>5 DEF BatchInv
<1>2. ASSUME NEW w \in Workers, PauseSchedule(w) PROVE BatchInv'
  <2>1. /\ \A v \in Workers : v # w => worker'[v] = worker[v]
        /\ worker[w].pc = "pauseSchedule" /\ worker'[w].pc = "notify"
    BY <1>2, Worked DEF WorkerSteps
  <2>2. /\ sched' = [paused |-> TRUE, batch |-> worker[w].batch]
        /\ forgotten' = (forgotten \/ sched.batch # NoBatch)
        /\ UNCHANGED <<batches, nextBatch, request>>
    BY <1>2 DEF PauseSchedule
  <2>3. sched'.batch = worker[w].batch
    BY <2>2
  <2>4. ASSUME forgotten' = FALSE, NEW b \in batches'
        PROVE  \/ b = sched'.batch
               \/ \E v \in Workers : worker'[v].pc = "pauseSchedule" /\ worker'[v].batch = b
    <3>1. forgotten = FALSE /\ b # sched.batch
      BY <1>0, <2>2, <2>4
    <3>2. PICK v \in Workers : worker[v].pc = "pauseSchedule" /\ worker[v].batch = b
      BY <2>2, <2>4, <3>1 DEF BatchInv
    <3>3. QED
      BY <2>1, <2>3, <3>2
  <2>5. QED
    BY <2>1, <2>2, <2>3, <2>4 DEF BatchInv
<1>3. ASSUME NEW w \in Workers, WorkerSteps(w), ~StoreBatch(w), ~PauseSchedule(w) PROVE BatchInv'
  <2>1. /\ \A v \in Workers : v # w => worker'[v] = worker[v]
        /\ worker[w].pc # "pauseSchedule" /\ worker'[w].pc # "pauseSchedule"
    BY <1>3, Worked
  <2>2. UNCHANGED <<sched, batches, nextBatch, request, forgotten>>
    BY <1>3 DEF WorkerSteps, TakeJob, CheckPaused, LoadChart, SubmitAdmitted, SubmitRefused, SubmitThrows,
       Record, NotifyPaused, history
  <2>3. \A v \in Workers : (worker[v].pc = "pauseSchedule" \/ worker'[v].pc = "pauseSchedule")
                             => worker'[v] = worker[v]
    BY <2>1
  <2>4. forgotten = FALSE =>
          \A b \in batches : \/ b = sched.batch
                             \/ \E v \in Workers : worker'[v].pc = "pauseSchedule" /\ worker'[v].batch = b
    BY <2>3 DEF BatchInv
  <2>5. QED
    BY <2>2, <2>3, <2>4 DEF BatchInv
<1>4. ASSUME NEW r \in Requests, RequestSteps(r) PROVE BatchInv'
  <2>1. /\ \A s \in Requests : s # r => request'[s] = request[s]
        /\ request'[r].pc = "clear" =>
             \/ request'[r].batch = NoBatch
             \/ CompleteBatch(r) /\ request'[r].batch = request[r].batch
        /\ request'[r].pc = "complete" => request'[r].batch = sched.batch
    BY <1>4, Asked
  <2>2. worker' = worker /\ nextBatch' = nextBatch /\ batches' \subseteq batches
    BY <1>4 DEF RequestSteps, RunNow, RunNowEnqueue, Resume, CompleteBatch, ClearPause, NotifyResumed, history
  <2>3. CompleteBatch(r) => request[r].pc = "complete" /\ batches' = batches \ {request[r].batch}
    BY DEF CompleteBatch
  <2>4. sched'.batch < nextBatch
    <3>1. sched' = sched \/ sched'.batch = NoBatch
      BY <1>4 DEF RequestSteps, RunNow, RunNowEnqueue, Resume, CompleteBatch, ClearPause, NotifyResumed, Running
    <3>2. QED
      BY <1>0, <3>1 DEF BatchInv, NoBatch
  <2>5. request'[r].pc \in {"complete", "clear"} => request'[r].batch < nextBatch
    BY <1>0, <2>1, <2>3 DEF BatchInv, NoBatch
  <2>6. request'[r].pc = "clear" => request'[r].batch \notin batches'
    BY <1>0, <2>1, <2>2, <2>3
  <2>7. ASSUME forgotten' = FALSE, NEW b \in batches'
        PROVE  \/ b = sched'.batch
               \/ \E w \in Workers : worker'[w].pc = "pauseSchedule" /\ worker'[w].batch = b
    <3>1. CASE ClearPause(r)
      <4>1. forgotten' = (forgotten \/ sched.batch \notin {NoBatch, request[r].batch})
            /\ request[r].pc = "clear" /\ b \in batches
        BY <2>2, <3>1 DEF ClearPause
      <4>2. forgotten = FALSE /\ b # sched.batch
        BY <1>0, <2>2, <2>7, <4>1 DEF BatchInv
      <4>3. QED
        BY <2>2, <4>1, <4>2 DEF BatchInv
    <3>2. ~ClearPause(r) => sched' = sched /\ forgotten' = forgotten
      BY <1>4 DEF RequestSteps, RunNow, RunNowEnqueue, Resume, CompleteBatch, NotifyResumed, history
    <3>3. QED
      BY <2>2, <2>7, <3>1, <3>2 DEF BatchInv
  <2>8. QED
    <3>1. ASSUME NEW q \in Requests
          PROVE  /\ request'[q].pc \in {"complete", "clear"} => request'[q].batch < nextBatch'
                 /\ request'[q].pc = "clear" => request'[q].batch \notin batches'
      <4>1. CASE q = r
        BY <2>2, <2>5, <2>6, <4>1
      <4>2. CASE q # r
        BY <2>1, <2>2, <4>2 DEF BatchInv
      <4>3. QED
        BY <4>1, <4>2
    <3>2. (\A b \in batches' : b < nextBatch') /\ sched'.batch < nextBatch'
      BY <2>2, <2>4 DEF BatchInv
    <3>3. \A w \in Workers : worker'[w].pc = "pauseSchedule" => worker'[w].batch < nextBatch'
      BY <2>2 DEF BatchInv
    <3>4. QED
      BY <2>7, <3>1, <3>2, <3>3 DEF BatchInv
<1>5. CASE Environment
  <2>1. UNCHANGED <<sched, batches, nextBatch, worker, request, forgotten>>
    BY <1>5 DEF Environment, Fire, CooldownElapses, RaiseCeiling, history
  <2>2. QED
    BY <2>1 DEF BatchInv
<1>6. CASE Crash
  <2>1. /\ forgotten' = (forgotten \/ \E w \in Workers : worker[w].pc = "pauseSchedule")
        /\ UNCHANGED <<sched, batches, nextBatch>>
        /\ \A w \in Workers : worker'[w].pc = "idle"
        /\ \A r \in Requests : request'[r].pc = "idle"
    BY <1>6, AtRest DEF Crash
  <2>2. forgotten' = FALSE => forgotten = FALSE /\ ~(\E w \in Workers : worker[w].pc = "pauseSchedule")
    BY <1>0, <2>1
  <2>3. QED
    BY <2>1, <2>2 DEF BatchInv
<1>7. CASE UNCHANGED vars
  <2>1. UNCHANGED <<sched, batches, nextBatch, worker, request, forgotten>>
    BY <1>7 DEF vars, sysvars, history
  <2>2. QED
    BY <2>1 DEF BatchInv
<1>8. QED
  BY <1>1, <1>2, <1>3, <1>4, <1>5, <1>6, <1>7, Steps

\* Once nothing is in flight, a paused schedule was announced, and no stored batch is
\* left without the schedule state that names it, but for the losses the code admits.
THEOREM PausesAccounted == Spec => []PauseAccountedFor
<1>1. Init => MailInv /\ BatchInv
  <2> SUFFICES ASSUME Init PROVE MailInv /\ BatchInv
    OBVIOUS
  <2>1. /\ batches = {} /\ nextBatch = 1 /\ sched.batch = 0 /\ sched.paused = FALSE
        /\ \A w \in Workers : worker[w].pc = "idle"
        /\ \A r \in Requests : request[r].pc = "idle"
    BY AtRest DEF Init, Running, NoBatch
  <2>2. QED
    BY <2>1 DEF MailInv, BatchInv
<1>2. Typed /\ MailInv /\ BatchInv => PauseAccountedFor
  <2> SUFFICES ASSUME Typed, MailInv, BatchInv PROVE PauseAnnounced /\ NoForgottenBatch
    BY DEF PauseAccountedFor
  <2>1. announced \in BOOLEAN /\ mailLost \in BOOLEAN /\ sched.paused \in BOOLEAN /\ forgotten \in BOOLEAN
    BY DEF Typed
  <2>2. Idle => /\ ~(\E w \in Workers : worker[w].pc = "notify")
                /\ ~(\E w \in Workers : worker[w].pc = "pauseSchedule")
    BY DEF Idle
  <2>3. PauseAnnounced
    BY <2>1, <2>2 DEF MailInv, PauseAnnounced
  <2>4. NoForgottenBatch
    BY <2>1, <2>2 DEF BatchInv, NoForgottenBatch
  <2>5. QED
    BY <2>3, <2>4
<1>3. QED
  BY <1>1, <1>2, TypedInit, TypedStep, MailStep, BatchStep, PTL DEF Spec

-----------------------------------------------------------------------------
(* The cooldown of run-now.                                                  *)

\* The requests that read task t's cooldown before it began and will enqueue it yet.
Asking(t) == {r \in Requests : request[r].pc = "chart" /\ request[r].task = t}

\* A task that cools down was enqueued at most once by each request of its time.
Spent(t) ==
  /\ t \notin coolingDown => runNows[t] = 0
  /\ runNows[t] + Cardinality(Asking(t)) <= Cardinality(Requests)

RunNowInv == \A t \in Tasks : Spent(t)

\* Sets of requests are finite.
LEMMA RequestSets ==
  /\ Cardinality(Requests) \in Nat
  /\ \A S \in SUBSET Requests : Cardinality(S) \in Nat /\ Cardinality(S) <= Cardinality(Requests)
  /\ \A S, T \in SUBSET Requests : S \subseteq T => Cardinality(S) <= Cardinality(T)
  /\ \A S \in SUBSET Requests, r \in Requests : r \in S => Cardinality(S \ {r}) = Cardinality(S) - 1
<1>1. IsFiniteSet(Requests) /\ Cardinality(Requests) \in Nat
  BY DispatchAssumption, FS_CardinalityType
<1>2. ASSUME NEW S \in SUBSET Requests
      PROVE  IsFiniteSet(S) /\ Cardinality(S) \in Nat /\ Cardinality(S) <= Cardinality(Requests)
  BY <1>1, FS_Subset, FS_CardinalityType
<1>3. ASSUME NEW S \in SUBSET Requests, NEW T \in SUBSET Requests, S \subseteq T
      PROVE  Cardinality(S) <= Cardinality(T)
  <2>1. IsFiniteSet(T) /\ S \in SUBSET T
    BY <1>2, <1>3
  <2>2. QED
    BY <2>1, FS_Subset
<1>4. ASSUME NEW S \in SUBSET Requests, NEW r \in Requests, r \in S
      PROVE  Cardinality(S \ {r}) = Cardinality(S) - 1
  BY <1>2, <1>4, FS_RemoveElement
<1>5. QED
  BY <1>1, <1>2, <1>3, <1>4

\* Every step keeps the count of run-nows within the requests.
LEMMA RunNowStep == Typed /\ Typed' /\ RunNowInv /\ [Next]_vars => RunNowInv'
<1> SUFFICES ASSUME Typed, Typed', RunNowInv, [Next]_vars PROVE RunNowInv'
  OBVIOUS
<1>0. /\ runNows \in [Tasks -> Nat] /\ runNows' \in [Tasks -> Nat]
      /\ Cardinality(Requests) \in Nat
      /\ \A t \in Tasks : /\ Asking(t) \in SUBSET Requests /\ Asking(t)' \in SUBSET Requests
                          /\ Cardinality(Asking(t)) \in Nat /\ Cardinality(Asking(t)') \in Nat
                          /\ Cardinality(Asking(t)') <= Cardinality(Requests)
  BY RequestSets DEF Typed, Asking
\* Nobody starts to ask, and no task is enqueued.
<1>1. ASSUME NEW t \in Tasks, Asking(t)' \subseteq Asking(t), runNows'[t] = runNows[t],
             t \in coolingDown' <=> t \in coolingDown
      PROVE  Spent(t)'
  <2>1. Cardinality(Asking(t)') <= Cardinality(Asking(t))
    BY <1>0, <1>1, RequestSets
  <2>2. QED
    BY <1>0, <1>1, <2>1 DEF RunNowInv, Spent
\* The task was not enqueued since its cooldown.
<1>2. ASSUME NEW t \in Tasks, runNows'[t] = 0 PROVE Spent(t)'
  BY <1>0, <1>2 DEF Spent
<1>3. ASSUME NEW r \in Requests, RequestSteps(r), NEW t \in Tasks PROVE Spent(t)'
  <2>1. /\ \A s \in Requests : s # r => request'[s] = request[s]
        /\ (\E u \in Tasks : RunNow(r, u) /\ request'[r].task = u) \/ request'[r].pc # "chart"
    BY <1>3, Asked
  <2>2. CASE \E u \in Tasks : RunNow(r, u) /\ request'[r].task = u
    <3>1. PICK u \in Tasks : RunNow(r, u) /\ request'[r].task = u
      BY <2>2
    <3>2. u \notin coolingDown /\ UNCHANGED <<coolingDown, runNows>>
      BY <3>1 DEF RunNow, history
    <3>3. CASE t = u
      <4>1. runNows'[t] = 0
        BY <3>2, <3>3 DEF RunNowInv, Spent
      <4>2. QED
        BY <1>2, <4>1
    <3>4. CASE t # u
      <4>1. Asking(t)' \subseteq Asking(t)
        BY <2>1, <3>1, <3>4 DEF Asking
      <4>2. QED
        BY <1>1, <3>2, <4>1
    <3>5. QED
      BY <3>3, <3>4
  <2>3. CASE request'[r].pc # "chart"
    <3>1. Asking(t)' \subseteq Asking(t) /\ r \notin Asking(t)'
      BY <2>1, <2>3 DEF Asking
    <3>2. CASE /\ request[r].pc = "chart" /\ request[r].task = t
               /\ coolingDown' = coolingDown \cup {t} /\ runNows' = [runNows EXCEPT ![t] = @ + 1]
      <4>1. r \in Asking(t) /\ Asking(t)' = Asking(t) \ {r}
        BY <2>1, <3>1, <3>2 DEF Asking
      <4>2. Cardinality(Asking(t)') = Cardinality(Asking(t)) - 1
        BY <1>0, <4>1, RequestSets
      <4>3. runNows'[t] = runNows[t] + 1 /\ t \in coolingDown'
        BY <1>0, <3>2
      <4>4. QED
        BY <1>0, <4>2, <4>3 DEF RunNowInv, Spent
    <3>3. \/ /\ request[r].pc = "chart"
             /\ coolingDown' = coolingDown \cup {request[r].task}
             /\ runNows' = [runNows EXCEPT ![request[r].task] = @ + 1]
          \/ UNCHANGED <<coolingDown, runNows>>
      BY <1>3 DEF RequestSteps, RunNow, RunNowEnqueue, Resume, CompleteBatch, ClearPause, NotifyResumed, history
    <3>4. CASE request[r].task # t \/ UNCHANGED <<coolingDown, runNows>>
      <4>1. runNows'[t] = runNows[t] /\ (t \in coolingDown' <=> t \in coolingDown)
        BY <1>0, <3>3, <3>4
      <4>2. QED
        BY <1>1, <3>1, <4>1
    <3>5. QED
      BY <3>2, <3>3, <3>4
  <2>4. QED
    BY <2>1, <2>2, <2>3
<1>4. ASSUME NEW w \in Workers, WorkerSteps(w), NEW t \in Tasks PROVE Spent(t)'
  <2>1. UNCHANGED <<request, coolingDown, runNows>>
    BY <1>4 DEF WorkerSteps, TakeJob, CheckPaused, LoadChart, SubmitAdmitted, SubmitRefused, SubmitThrows,
       Record, StoreBatch, PauseSchedule, NotifyPaused, history
  <2>2. QED
    BY <1>1, <2>1 DEF Asking
<1>5. ASSUME Environment, NEW t \in Tasks PROVE Spent(t)'
  <2>1. CASE \E u \in Tasks : CooldownElapses(u)
    <3>1. PICK u \in Tasks : CooldownElapses(u)
      BY <2>1
    <3>2. coolingDown' = coolingDown \ {u} /\ runNows' = [runNows EXCEPT ![u] = 0] /\ request' = request
      BY <3>1 DEF CooldownElapses
    <3>3. CASE t = u
      <4>1. runNows'[t] = 0
        BY <1>0, <3>2, <3>3
      <4>2. QED
        BY <1>2, <4>1
    <3>4. CASE t # u
      <4>1. runNows'[t] = runNows[t] /\ (t \in coolingDown' <=> t \in coolingDown) /\ Asking(t)' \subseteq Asking(t)
        BY <1>0, <3>2, <3>4 DEF Asking
      <4>2. QED
        BY <1>1, <4>1
    <3>5. QED
      BY <3>3, <3>4
  <2>2. CASE UNCHANGED <<request, coolingDown, runNows>>
    BY <1>1, <2>2 DEF Asking
  <2>3. QED
    BY <1>5, <2>1, <2>2 DEF Environment, Fire, RaiseCeiling, history
<1>6. ASSUME Crash, NEW t \in Tasks PROVE Spent(t)'
  <2>1. runNows'[t] = 0
    BY <1>6 DEF Crash
  <2>2. QED
    BY <1>2, <2>1
<1>7. ASSUME UNCHANGED vars, NEW t \in Tasks PROVE Spent(t)'
  BY <1>1, <1>7 DEF vars, sysvars, history, Asking
<1>8. QED
  BY <1>3, <1>4, <1>5, <1>6, <1>7, Steps DEF RunNowInv, Spent

\* A cooldown is leaked by at most as many run-nows as there are requests in flight.
THEOREM RunNowsBounded == Spec => []RunNowBounded
<1>1. Init => RunNowInv
  <2> SUFFICES ASSUME Init, NEW t \in Tasks PROVE Spent(t)
    BY DEF RunNowInv, Spent
  <2>1. Asking(t) \in SUBSET Requests /\ runNows[t] = 0
    BY DEF Init, Asking
  <2>2. QED
    BY <2>1, RequestSets DEF Spent
<1>2. Typed /\ RunNowInv => RunNowBounded
  <2> SUFFICES ASSUME Typed, RunNowInv, NEW t \in Tasks
               PROVE  runNows[t] <= Cardinality(Requests)
    BY DEF RunNowBounded
  <2>1. Asking(t) \in SUBSET Requests /\ runNows[t] \in Nat
    BY DEF Asking, Typed
  <2>2. QED
    BY <2>1, RequestSets DEF RunNowInv, Spent
<1>3. QED
  BY <1>1, <1>2, TypedInit, TypedStep, RunNowStep, PTL DEF Spec
=============================================================================
