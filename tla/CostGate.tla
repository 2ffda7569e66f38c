------------------------------ MODULE CostGate ------------------------------
(***************************************************************************)
(* The cost gate: packages/cost-gate/src.  Every model call is gated by    *)
(* CostGate.evaluateAndReserve, which                                      *)
(*   1. resolves the tenant's ceilings,                                    *)
(*   2. runs the pure pre-check evaluateGateVerdict against a ledger that  *)
(*      lives in the memory of one API replica,                            *)
(*   3. on PROCEED/DOWNGRADE reserves the estimate in Postgres, in one     *)
(*      transaction over four counter rows (PostgresReservationStore),     *)
(*   4. mirrors the reservation in the local ledger and appends an audit   *)
(*      event;                                                             *)
(* afterwards the caller settles the reservation at the actual cost, or    *)
(* releases it.  Each await is a place where other calls, other replicas,  *)
(* the clock, a change of ceilings, a failing database call or a crash of  *)
(* the replica may intervene, so each is the end of an action here.        *)
(*                                                                         *)
(* One tenant is modelled: every row, ledger and key of the code is        *)
(* partitioned by tenantId.  Dollars are natural numbers.                  *)
(***************************************************************************)
EXTENDS Integers, FiniteSets, Functions

CONSTANTS
  Calls,          \* calls of evaluateAndReserve; a call names its reservation
  Replicas,       \* API processes sharing the database
  Roles, TaskTypes, Models,
  Inputs,         \* requests: [roleId, taskType, model, batchable]
  Estimate,       \* [Models -> Nat \cup {Unpriced}], the upper bound of estimateCost
  LowerModel,     \* [Models -> Models \cup {NoModel}], one tier down, same provider
  Configs,        \* the CeilingConfig values a tenant may have
  Actuals,        \* actual costs a settled call may turn out to have
  LastDay,        \* bound on the clock: days run from 0 to LastDay
  DaysPerMonth,
  Uncapped,       \* a ceiling of null
  NoRow,          \* the counter row does not exist yet
  Unpriced,       \* estimateCost throws: unknown model or stale price table
  NoModel         \* no tier below, or no tier map for the provider

Days == 0 .. LastDay
MonthOf(d) == d \div DaysPerMonth
Months == {MonthOf(d) : d \in Days}

Levels == {"company", "role", "task-type", "task-type-day"}

\* levelsFor: the scope_key of each level for a request made on day d.
ScopeKey(level, i, d) ==
  CASE level = "company"       -> <<level, MonthOf(d)>>
    [] level = "role"          -> <<level, i.roleId>>
    [] level = "task-type"     -> <<level, i.taskType>>
    [] level = "task-type-day" -> <<level, i.taskType, d>>

ScopeKeys(i, d) == {ScopeKey(level, i, d) : level \in Levels}

Keys == UNION {ScopeKeys(i, d) : i \in Inputs, d \in Days}

\* levelsFor: the ceiling of each level, null when the configuration has none.
CeilingFor(level, i, cfg) ==
  CASE level = "company"       -> cfg.companyMonthlyUsd
    [] level = "role"          -> cfg.perRoleUsd[i.roleId]
    [] level = "task-type"     -> cfg.perTaskTypeUsd[i.taskType]
    [] level = "task-type-day" -> cfg.perTaskTypePerDayUsd[i.taskType]

Ceiling == Nat \cup {Uncapped}

InputType == [roleId : Roles, taskType : TaskTypes, model : Models, batchable : BOOLEAN]

ConfigType == [companyMonthlyUsd    : Nat,
               perRoleUsd           : [Roles -> Ceiling],
               perTaskTypeUsd       : [TaskTypes -> Ceiling],
               perTaskTypePerDayUsd : [TaskTypes -> Ceiling]]

ASSUME SentinelAssumption ==
  /\ Uncapped \notin Int /\ NoRow \notin Int /\ NoRow # Uncapped
  /\ Unpriced \notin Int /\ NoModel \notin Models

ASSUME ParameterAssumption ==
  /\ Inputs \subseteq InputType /\ Inputs # {}
  /\ Configs \subseteq ConfigType /\ Configs # {}
  /\ Estimate \in [Models -> Nat \cup {Unpriced}]
  /\ LowerModel \in [Models -> Models \cup {NoModel}]
  /\ Actuals \subseteq Nat
  /\ LastDay \in Nat /\ DaysPerMonth \in Nat \ {0}
  /\ Replicas # {}
  /\ IsFiniteSet(Calls)   \* rows of a table

VARIABLES
  today,         \* the UTC day, as utcDay() and the database's now() see it
  config,        \* the tenant's stored ceilings
  counters,      \* table cost_ledger_counters
  reservations,  \* table cost_reservations, by the call that inserted the row
  ledger,        \* per replica: the in-memory ReservationLedger of the tenant
  meta,          \* per replica: reservationMeta, the ids settle/release accept
  call           \* progress of each call of evaluateAndReserve and its caller

vars == <<today, config, counters, reservations, ledger, meta, call>>

\* Where a call can be, and what it is waiting for there.
\*   resolved   ceilings read, the pre-check runs next
\*   reserving  pre-check passed, reserveAtomic in flight
\*   reserved   reserveAtomic committed, its reply not yet processed
\*   auditing   verdict known, audit.append in flight
\*   granted    PROCEED/DOWNGRADE returned, the caller is spending
\*   denied     QUEUE/SKIP returned
\*   settled, released   the store committed, the local mirror not updated
\*   settleFailed  settle threw, before or after the store committed
\*   done       settle/release returned
\*   failed     a database call threw; the caller can do nothing more
\*   crashed    the replica died under the call
Pcs == {"idle", "resolved", "reserving", "reserved", "auditing", "granted",
        "denied", "settled", "released", "settleFailed", "done", "failed",
        "crashed"}

Running == {"resolved", "reserving", "reserved", "auditing", "granted",
            "settled", "released", "settleFailed"}

Verdicts == {"none", "PROCEED", "DOWNGRADE", "QUEUE", "SKIP"}
Grants == {"PROCEED", "DOWNGRADE"}

CallType == [pc : Pcs, replica : Replicas, input : Inputs, config : Configs,
             verdict : Verdicts, amountUsd : Nat, day : Days]

RowType == [total : Int, ceiling : Nat \cup {Uncapped, NoRow}]

ReservationType == [status : {"none", "reserved", "settled", "released"},
                    amountUsd : Nat, day : Days]

LocalType == [status : {"none", "reserved", "settled", "released"}, amountUsd : Nat]

TypeOK ==
  /\ today \in Days
  /\ config \in Configs
  /\ counters \in [Keys -> RowType]
  /\ reservations \in [Calls -> ReservationType]
  /\ ledger \in [Replicas -> [Calls -> LocalType]]
  /\ meta \in [Replicas -> SUBSET Calls]
  /\ call \in [Calls -> CallType]

EmptyLedger == [c \in Calls |-> [status |-> "none", amountUsd |-> 0]]

Init ==
  /\ today = 0
  /\ config \in Configs
  /\ counters = [k \in Keys |-> [total |-> 0, ceiling |-> NoRow]]
  /\ reservations = [c \in Calls |-> [status |-> "none", amountUsd |-> 0, day |-> 0]]
  /\ ledger = [r \in Replicas |-> EmptyLedger]
  /\ meta = [r \in Replicas |-> {}]
  /\ call = [c \in Calls |->
               [pc |-> "idle", replica |-> CHOOSE r \in Replicas : TRUE,
                input |-> CHOOSE i \in Inputs : TRUE,
                config |-> CHOOSE cfg \in Configs : TRUE,
                verdict |-> "none", amountUsd |-> 0, day |-> 0]]

-----------------------------------------------------------------------------
(* The pure pre-check: ceilings.ts, gate.ts, over one replica's ledger.      *)

\* ReservationLedger: settled plus reserved dollars of the requests in scope.
LocalSpend(r, scope) ==
  SumFunctionOnSet([c \in Calls |-> ledger[r][c].amountUsd],
                   {c \in Calls : /\ ledger[r][c].status \in {"reserved", "settled"}
                                  /\ call[c].input \in scope})

Fits(spent, additional, ceiling) ==
  ceiling # Uncapped => spent + additional <= ceiling

\* checkCeilings: company, role, task type; the day level is durable only.
CheckCeilings(r, i, cfg, additional) ==
  /\ Fits(LocalSpend(r, Inputs), additional, cfg.companyMonthlyUsd)
  /\ Fits(LocalSpend(r, {j \in Inputs : j.roleId = i.roleId}), additional,
          cfg.perRoleUsd[i.roleId])
  /\ Fits(LocalSpend(r, {j \in Inputs : j.taskType = i.taskType}), additional,
          cfg.perTaskTypeUsd[i.taskType])

\* A model that can be priced and whose estimate fits every local ceiling.
FitsAt(r, i, cfg, model) ==
  /\ model # NoModel
  /\ Estimate[model] # Unpriced
  /\ CheckCeilings(r, i, cfg, Estimate[model])

Refusal(i) == IF i.batchable THEN "QUEUE" ELSE "SKIP"

\* evaluateGateVerdict: verdict, and the estimate when there is one to reserve.
EvaluateGateVerdict(r, i, cfg) ==
  CASE Estimate[i.model] = Unpriced ->
         [kind |-> "QUEUE", amountUsd |-> 0]
    [] Estimate[i.model] # Unpriced /\ FitsAt(r, i, cfg, i.model) ->
         [kind |-> "PROCEED", amountUsd |-> Estimate[i.model]]
    [] /\ Estimate[i.model] # Unpriced
       /\ ~FitsAt(r, i, cfg, i.model)
       /\ FitsAt(r, i, cfg, LowerModel[i.model]) ->
         [kind |-> "DOWNGRADE", amountUsd |-> Estimate[LowerModel[i.model]]]
    [] OTHER ->
         [kind |-> Refusal(i), amountUsd |-> 0]

-----------------------------------------------------------------------------
(* The durable store: PostgresReservationStore.  A transaction holds the row *)
(* locks it takes until it commits, always in the order company, role,       *)
(* task-type, task-type-day, so each is one atomic step.                     *)

\* The ceiling a counter row will have once the INSERT .. DO NOTHING has run:
\* the one stored by the first reservation in the scope, never a later one.
RowCeiling(k, i, cfg) ==
  IF counters[k].ceiling = NoRow THEN CeilingFor(k[1], i, cfg)
  ELSE counters[k].ceiling

\* Mutant: the UPDATE tests the running total, not total plus amount.
TestsTotalOnly(i, cfg, amount, d) ==
  \A k \in ScopeKeys(i, d) : Fits(counters[k].total, 0, RowCeiling(k, i, cfg))

\* Every level's conditional UPDATE finds its row.
WithinDurableCeilings(i, cfg, amount, d) ==
  \A k \in ScopeKeys(i, d) : Fits(counters[k].total, amount, RowCeiling(k, i, cfg))

\* Mutant: the counters of the current day, not of the reservation's.
AdjustsTodaysCounters(i, d, delta) ==
  [k \in Keys |->
     IF k \in ScopeKeys(i, today) /\ counters[k].ceiling # NoRow
     THEN [counters[k] EXCEPT !.total = @ + delta]
     ELSE counters[k]]

\* adjustCounters: an UPDATE, so a row that does not exist is left alone.
AdjustCounters(i, d, delta) ==
  [k \in Keys |->
     IF k \in ScopeKeys(i, d) /\ counters[k].ceiling # NoRow
     THEN [counters[k] EXCEPT !.total = @ + delta]
     ELSE counters[k]]

-----------------------------------------------------------------------------
(* Actions.                                                                  *)

\* evaluateAndReserve begins and the ceiling resolver's read returns.
ResolveCeilings(c, r, i) ==
  /\ call[c].pc = "idle"
  /\ call' = [call EXCEPT ![c] = [@ EXCEPT !.pc = "resolved", !.replica = r,
                                           !.input = i, !.config = config]]
  /\ UNCHANGED <<today, config, counters, reservations, ledger, meta>>

\* The synchronous stretch after the resolver: pre-check, and on a grant the
\* call of reserveAtomic, which computes utcDay() before it awaits anything.
PreCheck(c) ==
  LET v == EvaluateGateVerdict(call[c].replica, call[c].input, call[c].config)
  IN /\ call[c].pc = "resolved"
     /\ call' = [call EXCEPT ![c] =
                   [@ EXCEPT !.pc = IF v.kind \in Grants THEN "reserving" ELSE "auditing",
                             !.verdict = v.kind,
                             !.amountUsd = v.amountUsd,
                             !.day = today]]
     /\ UNCHANGED <<today, config, counters, reservations, ledger, meta>>

\* reserveAtomic commits.  The counters are those of the day computed before
\* the transaction; the reservation's created_at is the database's now().
ReserveCommit(c) ==
  LET i == call[c].input
      d == call[c].day
  IN /\ call[c].pc = "reserving"
     /\ WithinDurableCeilings(i, call[c].config, call[c].amountUsd, d)
     /\ counters' = [k \in Keys |->
                       IF k \in ScopeKeys(i, d)
                       THEN [total   |-> counters[k].total + call[c].amountUsd,
                             ceiling |-> RowCeiling(k, i, call[c].config)]
                       ELSE counters[k]]
     /\ reservations' = [reservations EXCEPT ![c] =
                           [status |-> "reserved", amountUsd |-> call[c].amountUsd,
                            day |-> today]]
     /\ call' = [call EXCEPT ![c].pc = "reserved"]
     /\ UNCHANGED <<today, config, ledger, meta>>

\* Mutant: the pre-check's verdict survives the durable refusal.
RefusalKeepsVerdict(c) ==
  LET i == call[c].input
  IN /\ call[c].pc = "reserving"
     /\ ~WithinDurableCeilings(i, call[c].config, call[c].amountUsd, call[c].day)
     /\ call' = [call EXCEPT ![c].pc = "auditing"]
     /\ UNCHANGED <<today, config, counters, reservations, ledger, meta>>

\* A level refuses: the transaction rolls back, inserted rows included, and
\* the durable answer overrides the pre-check's verdict.
ReserveRefused(c) ==
  LET i == call[c].input
  IN /\ call[c].pc = "reserving"
     /\ ~WithinDurableCeilings(i, call[c].config, call[c].amountUsd, call[c].day)
     /\ call' = [call EXCEPT ![c] = [@ EXCEPT !.pc = "auditing", !.verdict = Refusal(i)]]
     /\ UNCHANGED <<today, config, counters, reservations, ledger, meta>>

\* Mutant: the reservation is not entered in reservationMeta.
MirrorForgetsMeta(c) ==
  /\ call[c].pc = "reserved"
  /\ ledger' = [ledger EXCEPT ![call[c].replica][c] =
                  [status |-> "reserved", amountUsd |-> call[c].amountUsd]]
  /\ call' = [call EXCEPT ![c].pc = "auditing"]
  /\ UNCHANGED <<today, config, counters, reservations, meta>>

\* The reply is processed: local mirror and reservationMeta, then the audit.
MirrorReservation(c) ==
  LET r == call[c].replica
  IN /\ call[c].pc = "reserved"
     /\ ledger' = [ledger EXCEPT ![r][c] =
                     [status |-> "reserved", amountUsd |-> call[c].amountUsd]]
     /\ meta' = [meta EXCEPT ![r] = @ \cup {c}]
     /\ call' = [call EXCEPT ![c].pc = "auditing"]
     /\ UNCHANGED <<today, config, counters, reservations>>

\* audit.append returns and evaluateAndReserve hands its result to the caller.
AuditAppended(c) ==
  /\ call[c].pc = "auditing"
  /\ call' = [call EXCEPT ![c].pc = IF call[c].verdict \in Grants THEN "granted" ELSE "denied"]
  /\ UNCHANGED <<today, config, counters, reservations, ledger, meta>>

\* Mutant: the adjustment, not the actual cost, is written to the row.
SettleStoresDelta(c, actual) ==
  LET delta == actual - reservations[c].amountUsd
  IN /\ call[c].pc = "granted"
     /\ c \in meta[call[c].replica]
     /\ reservations[c].status = "reserved"
     /\ counters' = AdjustCounters(call[c].input, reservations[c].day, delta)
     /\ reservations' = [reservations EXCEPT ![c].status = "settled", ![c].amountUsd = delta]
     /\ call' = [call EXCEPT ![c].pc = "settled"]
     /\ UNCHANGED <<today, config, ledger, meta>>

\* settle: requireMeta, then the store's transaction commits.
SettleCommit(c, actual) ==
  /\ call[c].pc = "granted"
  /\ c \in meta[call[c].replica]
  /\ reservations[c].status = "reserved"
  /\ counters' = AdjustCounters(call[c].input, reservations[c].day,
                                actual - reservations[c].amountUsd)
  /\ reservations' = [reservations EXCEPT ![c].status = "settled", ![c].amountUsd = actual]
  /\ call' = [call EXCEPT ![c].pc = "settled"]
  /\ UNCHANGED <<today, config, ledger, meta>>

\* Mutant: the local entry keeps the estimate.
MirrorKeepsEstimate(c) ==
  LET r == call[c].replica
  IN /\ call[c].pc = "settled"
     /\ ledger' = [ledger EXCEPT ![r][c].status = "settled"]
     /\ meta' = [meta EXCEPT ![r] = @ \ {c}]
     /\ call' = [call EXCEPT ![c].pc = "done"]
     /\ UNCHANGED <<today, config, counters, reservations>>

MirrorSettle(c) ==
  LET r == call[c].replica
  IN /\ call[c].pc = "settled"
     /\ ledger' = [ledger EXCEPT ![r][c] =
                     [status |-> "settled", amountUsd |-> reservations[c].amountUsd]]
     /\ meta' = [meta EXCEPT ![r] = @ \ {c}]
     /\ call' = [call EXCEPT ![c].pc = "done"]
     /\ UNCHANGED <<today, config, counters, reservations>>

\* Mutant: release does not check that the row is still reserved.
ReleaseUnguarded(c) ==
  /\ call[c].pc \in {"granted", "settleFailed"}
  /\ c \in meta[call[c].replica]
  /\ counters' = AdjustCounters(call[c].input, reservations[c].day,
                                -reservations[c].amountUsd)
  /\ reservations' = [reservations EXCEPT ![c].status = "released"]
  /\ call' = [call EXCEPT ![c].pc = "released"]
  /\ UNCHANGED <<today, config, ledger, meta>>

\* release: of a call that failed, or of one whose settle threw.
ReleaseCommit(c) ==
  /\ call[c].pc \in {"granted", "settleFailed"}
  /\ c \in meta[call[c].replica]
  /\ reservations[c].status = "reserved"
  /\ counters' = AdjustCounters(call[c].input, reservations[c].day,
                                -reservations[c].amountUsd)
  /\ reservations' = [reservations EXCEPT ![c].status = "released"]
  /\ call' = [call EXCEPT ![c].pc = "released"]
  /\ UNCHANGED <<today, config, ledger, meta>>

\* Mutant: the local ledger is not told.
ReleaseForgetsLedger(c) ==
  /\ call[c].pc = "released"
  /\ meta' = [meta EXCEPT ![call[c].replica] = @ \ {c}]
  /\ call' = [call EXCEPT ![c].pc = "done"]
  /\ UNCHANGED <<today, config, counters, reservations, ledger>>

MirrorRelease(c) ==
  LET r == call[c].replica
  IN /\ call[c].pc = "released"
     /\ ledger' = [ledger EXCEPT ![r][c].status = "released"]
     /\ meta' = [meta EXCEPT ![r] = @ \ {c}]
     /\ call' = [call EXCEPT ![c].pc = "done"]
     /\ UNCHANGED <<today, config, counters, reservations>>

\* A database call throws, either before its transaction took effect or after
\* it committed (the reply is lost).  release also throws when it finds the
\* reservation already resolved.
CallThrows(c) ==
  /\ call[c].pc \in Running \ {"resolved"}
  /\ call' = [call EXCEPT ![c].pc =
                IF call[c].pc \in {"granted", "settled"} THEN "settleFailed" ELSE "failed"]
  /\ UNCHANGED <<today, config, counters, reservations, ledger, meta>>

\* The process dies and a fresh one takes its place.
Crash(r) ==
  /\ \E c \in Calls : call[c].replica = r /\ call[c].pc # "idle"
  /\ ledger' = [ledger EXCEPT ![r] = EmptyLedger]
  /\ meta' = [meta EXCEPT ![r] = {}]
  /\ call' = [c \in Calls |->
                IF call[c].replica = r /\ call[c].pc \in Running
                THEN [call[c] EXCEPT !.pc = "crashed"] ELSE call[c]]
  /\ UNCHANGED <<today, config, counters, reservations>>

\* The tenant edits the monthly ceiling or an agent's daily budget.
SetCeilings(cfg) ==
  /\ config' = cfg
  /\ UNCHANGED <<today, counters, reservations, ledger, meta, call>>

NextDay ==
  /\ today < LastDay
  /\ today' = today + 1
  /\ UNCHANGED <<config, counters, reservations, ledger, meta, call>>

CallStep(c) ==
  \/ \E r \in Replicas, i \in Inputs : ResolveCeilings(c, r, i)
  \/ PreCheck(c)
  \/ ReserveCommit(c)
  \/ ReserveRefused(c)
  \/ MirrorReservation(c)
  \/ AuditAppended(c)
  \/ \E actual \in Actuals : SettleCommit(c, actual)
  \/ MirrorSettle(c)
  \/ ReleaseCommit(c)
  \/ MirrorRelease(c)
  \/ CallThrows(c)

Next ==
  \/ \E c \in Calls : CallStep(c)
  \/ \E r \in Replicas : Crash(r)
  \/ \E cfg \in Configs : SetCeilings(cfg)
  \/ NextDay

Spec == Init /\ [][Next]_vars

-----------------------------------------------------------------------------
(* Properties.                                                               *)

\* A settled reservation that cost more than was reserved for it, adjusting k.
OverrunOn(k) ==
  \E c \in Calls : /\ reservations[c].status = "settled"
                   /\ reservations[c].amountUsd > call[c].amountUsd
                   /\ k \in ScopeKeys(call[c].input, reservations[c].day)

\* The ceiling is a real cap (costGate.ts, reservationStore.ts): whatever the
\* interleaving of calls, replicas, restarts and lost replies, a counter row is
\* above the ceiling stored in it only because a model call that had been
\* admitted turned out to cost more than its estimate.
CeilingHolds ==
  \A k \in Keys :
    counters[k].ceiling \in Nat =>
      \/ counters[k].total <= counters[k].ceiling
      \/ OverrunOn(k)

\* Dollars of the reservations whose counters are those of key k.
Committed(k) ==
  SumFunctionOnSet([c \in Calls |-> reservations[c].amountUsd],
                   {c \in Calls : /\ reservations[c].status \in {"reserved", "settled"}
                                  /\ k \in ScopeKeys(call[c].input, call[c].day)})

\* No reservation was inserted on another UTC day than the one its counters
\* were chosen for (utcDay() runs before the transaction's now()).
NoMidnightStraddle ==
  \A c \in Calls : reservations[c].status # "none" => reservations[c].day = call[c].day

\* The counters are independently maintained running totals, adjusted by
\* reserve, settle and release in any order: each always equals the sum of the
\* reservations behind it, unless a reserve straddled midnight.
CountersMatchReservations ==
  NoMidnightStraddle => \A k \in Keys : counters[k].total = Committed(k)

\* settle and release check the row's status under its lock: a reservation is
\* resolved at most once, also when a settle whose reply was lost is followed
\* by a release.
ResolvedOnce ==
  [][\A c \in Calls : reservations[c].status \in {"settled", "released"}
                         => reservations'[c] = reservations[c]]_vars

\* A caller that was told PROCEED or DOWNGRADE holds a durable reservation of
\* the very amount the pre-check estimated, and its replica can resolve it.
GrantIsBacked ==
  \A c \in Calls :
    call[c].pc = "granted" =>
      /\ reservations[c].status = "reserved"
      /\ reservations[c].amountUsd = call[c].amountUsd
      /\ c \in meta[call[c].replica]

\* There is no reaper of reservations: one that is still reserved is either in
\* the hands of a call that can resolve it, or was orphaned by an exception or
\* by the death of its process, and by nothing else.
OrphansExplained ==
  \A c \in Calls :
    reservations[c].status = "reserved" =>
      \/ call[c].pc \in {"reserved", "failed", "crashed"}
      \/ c \in meta[call[c].replica]

\* The local ledger records only reservations the durable store confirmed, and
\* agrees with it except while, or because, a reply is outstanding.
LocalMirrorsDurable ==
  \A r \in Replicas, c \in Calls :
    ledger[r][c].status # "none" =>
      /\ reservations[c].status # "none"
      /\ call[c].pc \notin {"settled", "released", "settleFailed", "failed"} =>
           /\ ledger[r][c].status = reservations[c].status
           /\ ledger[r][c].amountUsd = reservations[c].amountUsd

\* No reply is outstanding on a local entry and all are of the current month.
LocalIsCurrent(r) ==
  \A c \in Calls :
    ledger[r][c].status # "none" =>
      /\ call[c].pc \notin {"settled", "released", "settleFailed", "failed"}
      /\ MonthOf(call[c].day) = MonthOf(today)

\* The part of the comment at costGate.ts:88-92 that is true: within a month
\* and with no reply outstanding, the local ledger never counts more spend
\* than the durable company counter does.
LocalUnderestimates ==
  \A r \in Replicas :
    LocalIsCurrent(r) /\ NoMidnightStraddle =>
      LocalSpend(r, Inputs) <= counters[<<"company", MonthOf(today)>>].total

\* The comment at costGate.ts:88-92 as written: a local "no" is never a false
\* negative relative to the durable truth.
LocalNoIsDurableNo ==
  [][\A c \in Calls :
       LET i == call[c].input
       IN /\ call[c].pc = "resolved"
          /\ call'[c].verdict = Refusal(i)
          /\ Estimate[i.model] # Unpriced
          => ~WithinDurableCeilings(i, call[c].config, Estimate[i.model], today)]_vars

\* The comment at routes/ceiling.ts:79-81 and the wall T4 of the threat model:
\* the ceiling the tenant has set, as this very call resolved it, gates its
\* spend.
ResolvedCeilingGates ==
  [][\A c \in Calls :
       call[c].pc = "reserving" /\ call'[c].pc = "reserved" =>
         counters'[<<"company", MonthOf(call[c].day)>>].total
           <= call[c].config.companyMonthlyUsd]_vars
=============================================================================
