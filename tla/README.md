# A TLA+ verification of the BYOK business autopilot

The repository runs AI agents on behalf of small companies ("tenants") with the
tenant's own API keys. What makes that acceptable is its *trust core*: a **cost
gate** in front of every model call, a **router** that runs each task once, and an
**approval queue** between what an agent proposes and what happens in the world.
Around it stand the **schedule** that dispatches tasks, the **vault** that keeps the
keys, the **onboarding** that turns an idea into a company, and a **web client** on
which people answer, approve and edit. This directory models these parts in TLA+,
checks them with TLC on small instances, and proves every safety property of those
checks with TLAPS for all values of the constants.

## 1. Inventory

| Part | State | Operations | Interacts with |
|---|---|---|---|
| cost gate (`packages/cost-gate`) | Postgres `cost_ledger_counters`, `cost_reservations`; per process `tenantLedgers`, `reservationMeta` | `evaluateAndReserve`, `settle`, `release`; editing ceilings | called by the router and by `runExtractionBatch` |
| approval queue (`packages/approval-queue`) | `approval_queue_items`, `autonomy_counters` | submit/resolve an action or a recommendation, accept an offer, revoke autonomy, run an effect | submitted to by the router, resolved by people over HTTP, sends mail with a key of the vault |
| router (`apps/router`) | `router_tasks`, `task_ledger_entries` | `submitTask` | gate, executor, approval queue; called by `routes/tasks.ts` and the scheduled dispatch |
| scheduled dispatch (`apps/api/src/scheduler`, `routes/scheduler.ts`, `batchStore.ts`, `tenantSchedule.ts`) | `tenant_schedule` pause state, paused batches, run-now cooldowns in memory | dispatch, pause on exhaustion, resume, run-now | router, queue, mail |
| schedule and charter (`packages/jobs`, `companyCharters.ts`, `routes/charter.ts`) | registered job schedulers, charter versions with their prompt cascade, the claimed chart | draft, edit, accept, sync, cadence edit, tier change | chart, BullMQ |
| circuit breaker (`packages/jobs`) | error window, cooldown, resume timer | error event, timer | one BullMQ worker |
| chains (`packages/chains`) | `task_chains` rows saved whole | `advanceChain`, `resolveApprovalGate`, `expireChain` | no caller wired yet |
| vault (`packages/vault`) | Brain and Hands keys, data keys, in-flight refreshes | store, rotate, revoke, decrypt, refresh | executor, effect executor, OAuth routes |
| OAuth connection (`routes/handsOAuth.ts`, `oauth/`) | nothing but a signed state in the browser | start, callback, exchange | session, vault |
| billing (`routes/billing.ts`) | `stripe_subscription_id` | checkout, webhook | Stripe, schedule sync |
| tenant scope (`packages/db`) | pooled sessions with sticky `app.*` settings, policies, migrations | scoped transactions, boots, account deletion, isolation check | every store |
| extraction (`packages/agents/extraction`, `packages/templates`) | locals of one run | select, customise, validate, assemble, onboarding batch | provider, spend guard |
| signup (`signupExtractionBatches.ts`, `runExtractionBatch.ts`, `routes/extraction.ts`) | `signup_extraction_batches`, `template_task_deltas` | run a batch, edit its chart, claim it | cost gate, extraction |
| web client (`apps/web`) | React state, `sessionStorage` | interview, task list, org chart, connect, charter, approvals | the API's routes |

Webhook verification, authentication, digests and metrics are stateless, library
configuration or reads (section 6).

What is hard here is not sequential logic (the repository's tests cover that well)
but that several API replicas share one database, keep extra state in memory, and can
stop between any two awaits; that rows are read, changed in memory and written back
whole; that a browser leaves, reloads and answers late. Nothing reaps what an
interrupted request leaves behind, so *what* may be left behind is a correctness
question. The hazards, each at its line, are in `PROJECT.json`.

What makes each part correct:

* **cost gate** - a ceiling is a cap over all replicas and restarts; the running
  totals agree with the reservations; a grant is backed by money set aside; money
  set aside is given back or spent once; the local fast path is only an optimisation.
* **approval queue** - nothing with an effect happens without one human's approval,
  and then once; autonomy is earned, offered at the right moment, and lost on a
  rejected spot check.
* **router** - one execution per dedup key; the saved status is the truth about
  execution, money and review; the ledger tells the same story; tasks finish.
* **scheduled dispatch** - a pause stops everything but what had already passed its
  check, is announced, and leaves no batch behind that nobody knows of.
* **chains** - a completed chain did every step and passed every gate. **vault** - what
  is stored can be read, a revoked key stays revoked, one refresh at a time.
  **billing** - the stored subscription is the live one. **tenant scope** - nobody sees
  another's rows, no session is lost, every request is answered.
* **onboarding** - spend stays capped, a finished chart is sound, a batch's outcome
  matches its money, one tenant owns it for good, one charter is in force and the
  registered jobs are those of the chart, and the browser shows what the server holds.

## 2. Modules

| Module | What it is |
|---|---|
| `CostGate` | ceilings resolved, local pre-check, durable reserve, mirror, audit, settle, release |
| `ApprovalQueue` | the queue, the effect executor's outcome and earned autonomy |
| `ActionLifecycle` | abstract specification of what the queue promises about one action |
| `Router` | `submitTask` against the gate and the queue as their callers see them |
| `ScheduledDispatch` | workers, run-now and resume requests over the schedule state and the paused batches |
| `Vault` | keys, data key, KMS master key and the single-flight refresh |
| `Chains`, `Billing`, `CircuitBreaker`, `HandsOAuth` | one small machine each |
| `TenantScope` | pool, settings, policies, migrations, requests made of scoped calls |
| `Templates`, `TemplateSelect`, `OrgChart` | the seven templates as data, their selection, the assembly of a chart: pure operators |
| `Extraction` | one run of the pipeline over them |
| `Signup` | batches, edits, deltas and claims as concurrent requests |
| `CharterSchedule` | charter versions, and the sync of the registered jobs |
| `Interview`, `Screens`, `ChartScreens` | the web client's screens against what the server does |
| `MCRuntime`, `MCOnboarding` | compositions of machines that share no state: each behaviour follows one, chosen at the start (`focus`) |
| other `MC*` | TLC instances; `*.cfg` give the constants |
| `CostGateProofs`, `ApprovalQueueProofs`, `RouterProofs`, `ScheduledDispatchProofs`, `VaultProofs` | the theorems about the module they extend |
| `RuntimeProofs` | those about the machines of `MCRuntime`: the four small ones, then the database with the composition |
| `OnboardingProofs` | those about `Extraction` with its selection and assembly, `Signup` and `CharterSchedule` |
| `ClientProofs` | those about the three modules of the web client, and their composition in `MCOnboarding` |

An action is one stretch of code between two awaits, or one database transaction.
Postgres transactions are atomic: the code takes row locks (`FOR UPDATE`, or a
conditional `UPDATE`) in a fixed order within each. All modules but `TenantScope`,
`Signup` and `HandsOAuth` have one tenant, because every row, ledger and key is
partitioned by `tenantId`; that this partition holds is what `TenantScope` is about.
A definition marked "(a mutant)" or "Mutant:" in its comment is a plausible bug used
to show that a property can fail; no specification uses one. Where a property is a
conjunction of named parts, one part's mutant is listed in `PROJECT.json` and the
others stand beside the definitions they mutate (`persistWhileLoading`,
`ConnectReturnsAnyway`, `handleAcceptStored`, `EditReturnsUnshown`,
`handleContinueWithAll`, `acceptWithoutDemotion`, `callbackChecksUnbound`,
`revertKeepingLog`, `claimUpdateNoIndex`).

### CostGate

`counters` and `reservations` are the two tables, `ledger` and `meta` the maps in the
memory of each replica, `call[c]` is one call of `evaluateAndReserve` with its caller:
its place (`pc`), its replica, the ceilings it read, its verdict, its estimate, and the
UTC day taken before the transaction. A call names the reservation it inserts.

`ResolveCeilings` reads the ceilings; `PreCheck` is the synchronous
`evaluateGateVerdict` (price, local ceilings, one tier down, queue or skip);
`ReserveCommit`/`ReserveRefused` are the transaction's two ends; `MirrorReservation`
and `AuditAppended` complete the call. `SettleCommit`, `ReleaseCommit` and their
mirrors are the resolution. `CallThrows` is a database call that throws before *or
after* it took effect; `Crash` empties a replica's memory; `SetCeilings` and `NextDay`
are the environment. Release after a settle that threw is `runExtractionBatch`'s catch
block. Estimates are a constant per model, dollars natural numbers.
The counters' day and the reservation's `created_at` are different readings of the
clock, as in the code.

### ApprovalQueue and ActionLifecycle

`submission[a]` is the call of `submitProposedAction` for action `a` with the autonomy it
read, `item` and `autonomy` are the tables, `request[q]` a call of
`POST /approvals/:id/resolve`; `sends[a]` counts the times the effect really went out.
Requests choose item, kind and verdict freely: duplicates and contradictions are the
normal case. `EffectThrows` is the exception of the two reads that are outside the
executor's `try` blocks. The sampler of spot checks is a free choice.

`ActionLifecycle` knows only *new, awaiting, unreviewed, approved, rejected, dispatched*.
`LifeOf` maps the queue's state to it.

### Router

`row` and `ledger` are the two tables, `run[s]` one call of `submitTask`. Every save and
every append is an action, so the two can be seen apart, and `Interrupt` may end a call
before any of them. The gate is what `CostGate` promises its caller: a grant with a
reservation, or a refusal without one. `SKIP` is only given to tasks that are not
batchable. The executor answers with an error, a result, or a result with missing Hands.
The wiring is that of `durableTrustCore.ts` (gate and queue attached); the branch
without a queue (`router.ts:212-216`) is therefore left out. A submission with a key is
the same task each time (`Ceo`, `WantsEffect`, `Batchable`, `Gated` are sets of keys).

### ScheduledDispatch

`worker[w]` is a BullMQ worker processing one firing: check the pause, load the chart,
`submitTask`, record the run, and when the gate refused for want of budget
(`isCeilingExhaustion`) store a paused batch, pause the schedule and mail the owners.
`request[r]` is a run-now or a resume. `sched` is the row of `tenant_schedule`, `batches`
the stored batches, `budget` what the gate still admits. `Crash` hands every held job out
again *as a new task*: the dedup key contains the time of the attempt. `late`,
`announced`, `mailLost` and `forgotten` are history: what happened since the pause.

### Vault

A row's material is the number of the data key it is encrypted under, 0 for the NULL of a
purged row; `deks` says under which KMS master key each data key was made. Each request
reads a row, gets or creates the data key and writes the row back in separate steps, so
two of them interleave at every await. `settled` collects the keys whose revocation no
other request overlapped. `Restart` may come back with another master key, which is when
`discardAndRecreateDek` runs. A refresh answers *fresh*, *dead* or *error*.

### Chains, Billing, CircuitBreaker, HandsOAuth

`Chains` takes a row's read, engine function and save as one step: nothing calls the engine
yet, so how callers overlap is not fixed by the code. `Billing` keeps Stripe's truth beside
the stored column; a delivery may fail after it stored the ids and is retried.
`CircuitBreaker` runs on a clock, with a timer that is never late and a `pause()` that may
fail. `HandsOAuth` has a browser that changes tenant, signs out and loads a callback again at
any time; a provider's code is spent by its first exchange.

### TenantScope

`req[r]` is a request with its *script*, the scoped calls the code makes one after another
(a tenant route nests them: it holds one session and each store call takes a second). A
session keeps its settings when it goes back to the pool. Statements and sessions fail, a
replica boots and applies the migration files one by one (`policies`), a request that cannot
get a session in time is answered with an error. `verifyRlsIsolation.ts` is a set of scripts.

### Extraction, TemplateSelect, OrgChart, Templates

The seven templates are transcribed with every field that decides clustering, restriction or
scheduling; `Select` chooses any answers and any keyword hits. A model's answer is any the
schema admits, from small sets (`Removals`, `Additions`, `CorrectedHints`). A call is let
through by its estimate and billed at most `Slack` above it; `accounted` is `meta.costUsd`,
`lost` what was billed for answers then refused.

A task list is the set of its tasks, each with its place in the list, so that a filter is a
set, "the first task of this agent type" is a task no other of the type precedes, and a
blend's or an added task's place is an offset. `assignAgentNames` goes through the places in
order and probes the name bank, wrapping around, from the hash of the agent type. What the
code relies on without checking it, that the curated templates name their tasks apart,
assemble untouched and fit the name bank ("not reachable with today's templates"), is
`TemplatesAssumption`. TLC evaluates it over every selection, blends included.

### Signup, CharterSchedule

Requests are sequences of SQL statements and Redis calls. In `Signup` a call may throw before
or after its effect (a lost reply) and the process may die; `rows` obey the row-level policy, so
an edit in flight during a claim changes no row. In `CharterSchedule` a charter's text is the
number of the edit it comes from; its cascade records which text each prompt was made of and
whether it was overridden. `overlapped` and `alone` say whether a sync ran by itself.

### Interview, Screens, ChartScreens

A handler runs to its await in one step, the effects of a render belong to the step that
commits it, and a response arrives later, in any order, as an answer or an error. A request is
served once or fails before that; its response may be lost. `given`, `sent`, `hurried`, `spoiled`
and `overlapped` are history variables that say what the user did and name the cases in which
the code does lose something (section 4).

## 3. Runs

| Run | Instance | Shows |
|---|---|---|
| `cost_gate` | 2 calls, 2 replicas, 2 roles sharing a task type, 3 models (one without a price), 2 configurations, 2 days in 2 months, actual costs below and above the estimate | all properties of `CostGate` but the two below |
| `cost_gate_local_no` | as above, one replica | **violated**: a local refusal can be wrong after a month boundary |
| `cost_gate_ceiling_edit` | as above, one day, two ceilings | **violated**: an edited ceiling does not gate reservations |
| `approval_queue` | 4 actions (2 drafts, 1 with an effect, 1 deny-listed), 1 recommendation, 3 requests, threshold 2 | safety and refinement |
| `approval_queue_live` | 2 actions, 2 requests, threshold 1, with fairness | a rejected spot check revokes |
| `approval_queue_effect_throws` | 2 actions, 2 requests | **violated**: the executor can throw |
| `router` | 3 submissions over 3 keys (an effect, a CEO task, one without a model), with fairness | safety, the lifecycle of the status, termination |
| `router_ungated` | the same, smaller | **violated**: the executor is reached without the gate |
| `scheduled_dispatch` | 2 workers, 2 requests, 1 task, 1 queued firing, 2 batches, 1 crash | a pause is bounded in its overrun, announced, and forgets no batch; run-now respects its cooldown |
| `vault` | 2 requests, 2 roles, 2 keys, 3 data keys, 2 master keys | readable keys, final revocations, single-flight refresh |
| `runtime` | chain of 4 steps with 2 gates; 2 subscriptions; breaker with threshold 3 over 14 ticks; 2 flows and 2 callbacks over 2 tenants; 2 connections, 2 requests, 1 fault, 1 boot; with fairness | the five machines' safety, and that every request is answered |
| `onboarding` | the real templates, 1 added task, cap 3; 2 batches, 2 tenants, 2 requests; 2 charter versions, 2 edits, 1 failed call; 2 mounts of the interview; queue of 3 items; 2 chart edits | the six machines' safety, and that a claim is final |

*Why the bounds are enough.* Two calls on two replicas are what a race for a ceiling
needs; one call cannot overshoot and a third adds no new kind of conflict (the proofs
cover any number). With one day per month, one step of the clock changes the day and the
month. Two approvals of one task type reach threshold 2, and the third request is the
racing or contradicting one. Two submissions race for one key while a third runs another.
In the schedule one worker pauses while another is past its check, and two requests overlap
on the cooldown or the resume; two batches are what a second pause or a forgotten batch
needs. The vault's races are between two requests (writer against writer, reader,
revoker); three data keys are the first one, the one recreated, and the loser's. A pool of
two connections is full with two tenant routes, each waiting for its second; one boot covers
every point at which requests can see half-applied migrations. Two batches and two tenants
are what a claim race needs; two charter versions are one in force and one that replaces it. Two
mounts of the interview are a first visit and a return, with the calls of both in flight.
What these instances leave open, the proofs close: section 5 takes any number of each.

`scheduled_dispatch` and `vault` check for deadlock. The others set `CHECK_DEADLOCK FALSE`:
calls, requests, submissions, flows and edits are a bounded supply, and once each has returned
the system rightly stops.

*Symmetry.* Calls, requests, workers and processes are interchangeable and used as symmetry
sets in safety runs; the runs with liveness use none.

*Fairness.* Weak fairness on the steps of a request whose verdict is committed, of a
submission that has begun, and of a database request that has arrived: Node's event loop
resumes a function when its await is answered, a database call is answered or fails, and
the pool's connection timeout fires. Interruption is always possible and never required;
nothing obliges a person to answer or a caller to submit.

*Type invariants.* Those of the first three components are checked and proved, that of `Vault`
is proved. `ScheduledDispatch` and the machines of `MCRuntime` and `MCOnboarding` state theirs
(`TypeOK`, `ChainTypeOK`, `SignupTypeOK`, ...), which hold on the same instances and are not in
the configurations, which keep to what could really be wrong; the proofs carry the types they
need in their inductive invariants.

## 4. What the code does not keep

The four violation runs:

1. *Local refusals* (`costGate.ts:88-92`). "a local "no" can never be a false negative
   relative to the durable truth". The durable counter is keyed by month; the local
   ledger never forgets. `LocalUnderestimates` states what does hold: within a month and
   with no reply outstanding the local sum is at most the durable one.
2. *Edited ceilings* (`routes/ceiling.ts:79-81`). "what a tenant sets here genuinely gates
   its spend". The counter row keeps the ceiling of the first call in its scope.
   `CeilingHolds` is therefore about the *stored* ceiling.
3. *Effects that throw* (`effectExecutor.ts:51-54`). "Every failure returns
   {success:false, error} rather than throwing". Two reads are outside the `try`s.
4. *Gate before executor* (`router.ts:77`). "GATE — strictly before the executor". Only if
   the caller names a model, which `routes/tasks.ts:12` makes optional.

While modelling the other parts we met further disagreements with the code's own words. They
are listed under "findings" in `PROJECT.json` with their lines, and each is visible in
the module that models it, as a case a property names and sets aside:

| Case | Where a property says so |
|---|---|
| a resume interrupted after it deleted the paused batch can never succeed | `CompleteBatch` then `Crash`; `forgotten` in `NoForgottenBatch` |
| an outcome reported twice moves a chain past a gate | `MaxStarts = 1` |
| a rotation or refresh in flight undoes a revocation | `settled` in `SettledRevocationIsFinal` |
| the second of two recreated data keys orphans a key | `liveDekDiscarded` in `StoredKeysStayReadable` |
| a billed call whose answer is refused is not accounted | `lost` beside `AccountedSpendWithinCap` |
| a batch whose completion throws stays *running*, its cost settled | allowed by `OutcomeMatchesMoney` |
| overlapped syncs leave an older schedule registered | `alone` in `RegistryFollowsChart` |
| while migrations re-run, a user sees a claimed row again | the exception in `ScopeIsolation` |
| a failed first load overwrites saved interview progress; answering twice skips a question | `spoiled`, `hurried` in `AnswersSurvive` |
| a rename overlapping a merge shows a chart the server does not hold | `overlapped` in `ChartIsTheServers` |

## 5. Proofs

41 theorems of eight modules are listed in `PROJECT.json`. Assumptions are the named
`ASSUME`s of the modules: the sentinels are not numbers, the constants have their types,
sets a `CHOOSE` draws from are not empty, the threshold is positive, the sets a cardinality
or a sum ranges over (`Actions`, `Calls`, the dispatcher's `Requests`) are finite, the seven
templates are as described above (`TemplatesAssumption`), and an interview's options are texts
(`QuestionsAssumption`). TLC evaluates them in each run. One theorem has a hypothesis of its own, `MaxStarts = 1` for
`CompletedMeansDone`, which is the proviso of the property (no step is reported twice).

Nearly every property speaks of stored rows while the next write is decided by what a
request read some awaits ago, so none is inductive as it stands. The strengthenings all say
the same kind of thing: what is already true at each await, and who alone may still
change it.

* **CostGateProofs.** `CeilingHolds` is not inductive: a release lowers the counters by
  the *reservation's* amount and an overrun is defined by comparing the reservation with
  the *call's*. `IInv` adds `Linked`, which ties the place of each call to the status and
  amount of its reservation, to the replica's mirror and to `meta`: a reservation exists
  exactly from `reserved` on, its amount is the call's estimate until it is settled, an
  entry of a local ledger belongs to the replica of its call. The step theorem has
  one case per action. From `IInv` follow `TypeCorrect`, `CeilingIsCap`, `GrantsBacked`,
  `Orphans`, `LocalMirror`, and the action property `ResolutionIsFinal`.
  `CountersMatch` and `LocalNeverOver` speak of sums over any finite set of calls. The second
  half of the module first proves what is needed of `SumFunctionOnSet`: that its recursion
  has a solution (`SumExists`), that two solutions agree, that any term may be taken out
  first (`SumRemove`), monotonicity. Induction is over a set of naturals
  (`NatSetInduction`), so no lemma takes an operator. `CountersInv` adds that the four rows
  of a reservation exist: without it an `UPDATE` could miss one. Each of reserve, settle and
  release changes a counter by exactly the change of that reservation's share
  (`CommittedChange`); all else changes neither.
* **ApprovalQueueProofs.** `TypeCorrect`; a queue invariant saying which request may still
  send (the one whose commit resolved the item: its verdict is the item's, no two requests
  hold the same item) gives `EffectSafety`; `OfferSafety` is inductive with types.
  `AutonomySafety` counts: the streak of a task type is at most the number of its approved
  actions whose approval has been recorded (`Earned`), an offer taken up or a submission that
  read autonomy saw enough of them (`SawEarned`), and a verdict is never withdrawn.
  `Refinement` shows that each action is a step of `ActionLifecycle` or a stutter under
  `LifeOf`; it needs the queue invariant, since a second send or verdict would be no
  abstract step.
* **RouterProofs.** `RouterInv` has two parts: `OneOwner` (one submission owns a
  key whose row exists) and `Progress` (what row, reservation, item and executions are at
  each place of the owner). From it `ExecutedOnce`, `StatusHonest`, `EffectsEarned`,
  `ReservationsOwned` and the action property `StatusLifecycle`. `HistoryInv` adds the ledger:
  it has as many entries as the row's status has behind it, or one fewer while that
  entry is still to be appended, and gives `LedgerTellsRun`.
* **ScheduledDispatchProofs.** `OverrunBounded`: what was submitted since the pause plus the
  workers past their check leaves out the worker that paused (`LateInv`, a cardinality that
  each step moves by one). `PausesAccounted`: until the owners are mailed, the worker that
  paused is about to (`MailInv`); every stored batch is named by the schedule or in the hands
  of the worker about to pause with it (`BatchInv`). `RunNowsBounded`: the run-nows of a
  cooldown plus the requests that read the state before it are at most all requests.
* **VaultProofs.** `Shape` relates each request's place to its locals and types the tables.
  `FlightInv` (the in-flight map names exactly the keys being refreshed, one request
  each) gives `OneRefresh`. `HeldInv` (no id is given out twice; a settled id has no live copy
  in a table or in a request's hands) gives `RevocationsHold`. `DekInv` (a data key in use was
  made under today's master key, and until a live one is discarded only that on file is used)
  gives `KeysReadable`.
* **RuntimeProofs.** `PausesEnd`: a pending resume was set by a trip and is never overdue.
  `PaidSignal`: the last telling event still to be delivered tells of the live subscription,
  and with none left the column does. `CompletedMeansDone`: all before the current step is
  done and approved, nothing after it was started. `ConnectedWhereStarted`: whatever is
  accepted or stored is bound to a started flow whose code only that callback has used up.
  The database is the second half of the module. `DbInv` types every script the requests can run, keeps a request's
  stack in the order its scopes were opened (`StackSound`), and says that a session is held by
  one scope, with the settings that scope has set so far (`PoolSound`). It was model-checked
  on the `runtime` instance first. One lemma per action says how sessions change hands
  (`HandsOver`). `SessionsChangeHands` and, with `ConnectedWhereStarted`, `TenantsApart` follow,
  the latter from the settings of the scope and the policies in force: in every half-applied
  migration, and whatever an earlier borrower left behind.
* **OnboardingProofs.** `SpendWithinCap`: only a call let through by its estimate adds to
  what is accounted. `MoneyMatchesOutcome` and the action property `ClaimsAreFinal`: `SignupInv`
  says what a request knows of its batch at each place, that a batch has one run and that a
  tenant has one batch. `CompanyRuns`: no version is active but the last accepted one, with a
  cascade written before it became so (`ForceInv`), and a sync that is alone has registered
  the stored chart's options for each task it is past (`ScheduleInv`).
  The chart of an extraction run is the last part. `ProbeFindsFreeName`: a probe from any
  start reaches each name of the bank once (`WrapsFrom`), so it finds a free one while there
  is one. `NamesApart` goes along the places of the list: after each, every agent so far has a
  name of the bank and no two have the same; it needs that the recursive function of
  `assignAgentNames` exists (`NamesDefined`), and that there are never more agents than
  agent types, hence than names. Induction here is by the least place at which a statement
  about sets fails (`LeastNumber`), which needs no operator parameter. `RunInv` says at each
  stage what the log, the hints and the removals have to do with each other, also after
  corrections were reverted, and gives `FinishedCharts`. Its half about an untouched template is
  what `TemplatesAssumption` says of the selections, joined to the fact, proved, that a run
  selects one of them. `SelectionIsBest` is about `selectTemplate` alone: no template scores
  above the chosen one, and the blend is the best of the rest, made exactly when it is close.
* **ClientProofs.** `ClientAgrees` is `ClientAgreesWithServer` for all behaviours of
  `MCOnboarding`, from three invariants. `ChartInv`: while no edits overlapped there is at most
  one in flight, it carries the stored chart once it was served, and with none in flight the
  chart on show is the stored one; whatever overlaps, edits never change which tasks there are.
  `ScreensInv`: a request that was served has had its effect (`ServedInv`: its item is
  resolved, its offer accepted, its key stored), and while the charter's page hands over,
  the one request in flight carries, or has stored, the text that was on show (`HandoverInv`).
  That an item leaves the queue at its own index needs that a list less the resolved items
  is counted off by its positions (`ElementAt`). `InterviewInv`: with nothing loading the saved
  progress is the tab's; a load in flight carries the progress it resumes; an answer in flight
  is to the question at the index, which is past no spine question without an answer.
  Lemma `Lists` adds what `questionsFor` promises: every list starts with the whole spine.

*Only model-checked.* Liveness (`SpotCheckRejectionRevokes`, `TaskFinishes`,
`RequestsAnswered`), since the prover has no rule for fairness; and that the seven templates
satisfy `TemplatesAssumption`, a computation over some hundred tasks and all blends that TLC
does exhaustively. All other properties of the passing runs are stated by a theorem.

## 6. Not modelled

Cryptography inside a ciphertext, HTTP clients (Stripe, Resend, Google, a company's website), the
LLM loop, prompts and wording, schema declarations, layout: pure I/O, library code or data. The
in-memory stores are test doubles. Webhook verification and its tables have no caller.
Authentication is a library's configuration and stateless checks. Task queries, digests,
dashboards and metrics only read. Partial delivery to several recipients of one effect is not
distinguished. The remaining screens show one read or send one request. `PROJECT.json` has
the full list with reasons.

## 7. What could follow

Two hazards of `PROJECT.json` have no property. A send that fails after some of several
recipients got the mail needs the recipients in `ApprovalQueue`, and a promise from the code
about them, which it does not make. Concurrent saves of one chain need a caller of the
engine to say how they overlap. Of the parts that are not modelled, none decides what the
modelled ones may do.
