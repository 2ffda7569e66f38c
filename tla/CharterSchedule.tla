--------------------------- MODULE CharterSchedule ---------------------------
(***************************************************************************)
(* A tenant's charter and its standing schedule, once the org chart is      *)
(* claimed: drafting, editing and accepting the charter                     *)
(* (apps/api/src/routes/charter.ts, packages/db/src/companyCharters.ts),    *)
(* and the reconciliation of the registered job schedulers with the chart   *)
(* (packages/jobs/src/tenantScheduler.ts) after an acceptance, a cadence    *)
(* edit, a billing change or a manual sync.                                 *)
(*                                                                          *)
(* A charter's text is abstracted to the number of the edit it comes from.  *)
(* Requests interleave between their statements and Redis calls.            *)
(***************************************************************************)
EXTENDS Integers, Sequences, FiniteSets

CONSTANTS
    CadenceTasks,   \* the chart's tasks with triggerType "cadence"
    EditCadences,   \* the cadences an edit may choose
    CharterReqs,    \* concurrent requests
    MaxVersions,    \* charter versions
    MaxEdits,       \* edits of a draft and of a cadence, together
    MaxSyncFaults   \* Redis or store errors in the middle of a request

Cadences == {"15min", "hourly", "nightly", "daily", "weekly", "monthly"}

ASSUME CharterAssumption ==
    /\ EditCadences \subseteq Cadences
    /\ {MaxVersions, MaxEdits, MaxSyncFaults} \subseteq Nat

VARIABLES
    chart,      \* the claimed batch's org chart: its cadences, and whether it has a charter draft
    charters,   \* company_charters of the tenant, by version
    registry,   \* the job schedulers registered for the tenant
    creq,       \* the requests
    edits, syncFaults,
    alone       \* history: the last reconciliation ran from read to end with no other
                \* request touching chart or registry, and nothing has since

charterVars == <<chart, charters, registry, creq, edits, syncFaults, alone>>

Unregistered == [every |-> 0, pattern |-> "none"]
NoCascade == [e \in {"ceo", "role-lead", "sub-agent"} |-> [of |-> -1, overridden |-> FALSE]]
CharterIdle == [pc |-> "idle", id |-> 0, cascade |-> NoCascade, chart |-> <<>>, todo |-> {}, overlapped |-> FALSE]

(***************************************************************************)
(* The schedule a chart asks for                                           *)
(***************************************************************************)

CADENCE_RANK(c) ==
    CASE c = "15min" -> 0 [] c = "hourly" -> 1 [] c \in {"nightly", "daily"} -> 2
      [] c = "weekly" -> 3 [] c = "monthly" -> 4

CADENCE_FLOOR == "daily"

clampCadenceToFloor(declared) ==
    IF CADENCE_RANK(declared) >= CADENCE_RANK(CADENCE_FLOOR) THEN declared ELSE CADENCE_FLOOR

\* An interval in quarters of an hour, or a cron pattern.
cadenceToRepeatOptions(c) ==
    CASE c = "15min" -> [every |-> 1, pattern |-> "none"]
      [] c = "hourly" -> [every |-> 4, pattern |-> "none"]
      [] c = "nightly" -> [every |-> 0, pattern |-> "2am-daily"]
      [] c = "daily" -> [every |-> 96, pattern |-> "none"]
      [] c = "weekly" -> [every |-> 672, pattern |-> "none"]
      [] c = "monthly" -> [every |-> 0, pattern |-> "9am-first-of-month"]

\* Every cadence task of the chart, under the floor.
computeDesiredSchedule(c) == [t \in DOMAIN c.cadence |-> clampCadenceToFloor(c.cadence[t])]

\* Comparing intervals alone: two patterns look the same (a mutant).
sameScheduleByInterval(current, desired) == current.every = desired.every

\* `every` when the desired schedule has one, else the pattern.
sameSchedule(current, desired) ==
    IF desired.every # 0 THEN current.every = desired.every ELSE current.pattern = desired.pattern

(***************************************************************************)
(* Requests                                                                *)
(***************************************************************************)

CharterInit ==
    /\ chart \in {[cadence |-> [t \in CadenceTasks |-> "weekly"], hasBatch |-> b] : b \in BOOLEAN}
    /\ charters = <<>>
    /\ registry = [t \in CadenceTasks |-> Unregistered]
    /\ creq = [p \in CharterReqs |-> CharterIdle]
    /\ edits = 0 /\ syncFaults = 0 /\ alone = FALSE

cGoto(p, pc) == creq' = [creq EXCEPT ![p].pc = pc]
cReturn(p) == creq' = [creq EXCEPT ![p] = CharterIdle]

\* A request between its read of the chart and its last upsert.
scheduling(p) == creq[p].pc \in {"cadence", "list", "upsert"}

draftsOf == {v \in DOMAIN charters : charters[v].status = "draft"}
activeOf == {v \in DOMAIN charters : charters[v].status = "active"}
latest(versions) == CHOOSE v \in versions : \A w \in versions : w <= v

\* createDraft: one past the highest version.
createDraft(content) ==
    charters' = Append(charters, [status |-> "draft", content |-> content, cascade |-> NoCascade])

\* POST /draft: an existing draft is the answer (nothing changes); else the request goes on.
draftRead(p) ==
    /\ creq[p].pc = "idle" /\ draftsOf = {} /\ Len(charters) < MaxVersions
    /\ cGoto(p, "draft")
    /\ UNCHANGED <<chart, charters, registry, edits, syncFaults, alone>>

\* A reopened charter starts from the active one; a first one from the chart's own draft.
draftCreate(p) ==
    /\ creq[p].pc = "draft" /\ Len(charters) < MaxVersions
    /\ \/ activeOf # {} /\ createDraft(charters[latest(activeOf)].content) /\ cReturn(p)
       \/ activeOf = {} /\ chart.hasBatch /\ createDraft(0) /\ cReturn(p)
       \/ /\ activeOf = {} /\ ~chart.hasBatch /\ UNCHANGED charters
          /\ creq' = [creq EXCEPT ![p].pc = "regenerate", ![p].chart = chart]
    /\ UNCHANGED <<chart, registry, edits, syncFaults, alone>>

\* The missing onboarding batch is generated and stored with the whole chart as it was
\* read; an error answers 502 and changes nothing.
regenerateOnboardingBatch(p) ==
    /\ creq[p].pc = "regenerate"
    /\ \/ /\ chart' = [creq[p].chart EXCEPT !.hasBatch = TRUE]
          /\ creq' = [q \in CharterReqs |->
                         IF q = p THEN [creq[q] EXCEPT !.pc = "draft-regenerated"]
                         ELSE [creq[q] EXCEPT !.overlapped = scheduling(q)]]
          /\ alone' = FALSE
       \/ cReturn(p) /\ UNCHANGED <<chart, alone>>
    /\ UNCHANGED <<charters, registry, edits, syncFaults>>

draftRegenerated(p) ==
    /\ creq[p].pc = "draft-regenerated" /\ Len(charters) < MaxVersions
    /\ createDraft(0) /\ cReturn(p)
    /\ UNCHANGED <<chart, registry, edits, syncFaults, alone>>

\* PATCH /draft/:id: one statement, of a row that is still a draft.
updateDraft(p) ==
    /\ creq[p].pc = "idle" /\ edits < MaxEdits
    /\ \E v \in draftsOf : charters' = [charters EXCEPT ![v].content = edits + 1]
    /\ edits' = edits + 1
    /\ UNCHANGED <<chart, registry, creq, syncFaults, alone>>

\* The prompts of the three tiers, each written from the charter's content, except those
\* a human has overridden in the previous cascade.
generateCascade(content, previous) ==
    [e \in DOMAIN previous |-> IF previous[e].overridden THEN previous[e]
                               ELSE [of |-> content, overridden |-> FALSE]]

\* POST /draft/:id/accept reads the draft, then the active version, and computes the
\* cascade from what it read.
acceptRead(p) ==
    /\ creq[p].pc = "idle"
    /\ \E v \in draftsOf :
           LET previous == IF activeOf = {} THEN NoCascade ELSE charters[latest(activeOf)].cascade
           IN creq' = [creq EXCEPT ![p] = [CharterIdle EXCEPT !.pc = "accept", !.id = v,
                           !.cascade = generateCascade(charters[v].content, previous)]]
    /\ UNCHANGED <<chart, charters, registry, edits, syncFaults, alone>>

\* Only the new version is installed (a mutant).
acceptWithoutDemotion(v, cascade) ==
    charters' = [charters EXCEPT ![v].status = "active", ![v].cascade = cascade]

\* One transaction: the active version is superseded, this one becomes active with
\* its cascade.
accept(v, cascade) ==
    charters' = [w \in DOMAIN charters |->
        CASE w = v -> [charters[w] EXCEPT !.status = "active", !.cascade = cascade]
          [] w # v /\ charters[w].status = "active" -> [charters[w] EXCEPT !.status = "superseded"]
          [] OTHER -> charters[w]]

acceptWrite(p) ==
    /\ creq[p].pc = "accept"
    /\ accept(creq[p].id, creq[p].cascade)
    /\ cGoto(p, "accepted")
    /\ UNCHANGED <<chart, registry, edits, syncFaults, alone>>

(***************************************************************************)
(* Reconciling the schedule                                                *)
(***************************************************************************)

\* A request that enters the schedule while another is in it: neither ran alone.
entering(p, entry) ==
    creq' = [q \in CharterReqs |->
        IF q = p THEN [entry EXCEPT !.overlapped = \E r \in CharterReqs \ {p} : scheduling(r)]
        ELSE [creq[q] EXCEPT !.overlapped = scheduling(q)]]

startSync(p) ==
    /\ entering(p, [CharterIdle EXCEPT !.pc = "list", !.chart = chart])
    /\ UNCHANGED <<chart, charters, registry, edits, syncFaults, alone>>

\* The last part of an acceptance.
onAccepted(p) == creq[p].pc = "accepted" /\ startSync(p)

\* POST /sync, only under an active charter with its cascade.
syncRoute(p) == creq[p].pc = "idle" /\ activeOf # {} /\ startSync(p)

\* A subscription started or ended (module Billing): the same, under the same condition.
applyTierChange(p) == creq[p].pc = "idle" /\ activeOf # {} /\ startSync(p)

\* PATCH /tasks/:taskId/cadence reads the chart and edits its copy.
cadenceRead(p) ==
    /\ creq[p].pc = "idle" /\ edits < MaxEdits
    /\ \E t \in CadenceTasks, c \in EditCadences :
           entering(p, [CharterIdle EXCEPT !.pc = "cadence", !.chart = [chart EXCEPT !.cadence[t] = c]])
    /\ edits' = edits + 1
    /\ UNCHANGED <<chart, charters, registry, syncFaults, alone>>

\* updateOrgChartForTenant: the whole chart, as it was read, with the one edit.
cadenceWrite(p) ==
    /\ creq[p].pc = "cadence"
    /\ chart' = creq[p].chart /\ alone' = FALSE
    /\ cGoto(p, "list")
    /\ UNCHANGED <<charters, registry, edits, syncFaults>>

\* getJobSchedulers, then one upsert for every job whose schedule differs.
syncList(p) ==
    /\ creq[p].pc = "list"
    /\ LET desired == computeDesiredSchedule(creq[p].chart)
       IN creq' = [creq EXCEPT ![p].pc = "upsert",
                       ![p].todo = {t \in CadenceTasks :
                                       \/ registry[t] = Unregistered
                                       \/ ~sameSchedule(registry[t], cadenceToRepeatOptions(desired[t]))}]
    /\ UNCHANGED <<chart, charters, registry, edits, syncFaults, alone>>

upsertJobScheduler(p) ==
    /\ creq[p].pc = "upsert"
    /\ \E t \in creq[p].todo :
           /\ registry' = [registry EXCEPT ![t] =
                              cadenceToRepeatOptions(computeDesiredSchedule(creq[p].chart)[t])]
           /\ creq' = [creq EXCEPT ![p].todo = @ \ {t}]
    /\ alone' = FALSE
    /\ UNCHANGED <<chart, charters, edits, syncFaults>>

\* No job of the tenant is registered that the chart does not ask for: nothing to remove.
syncDone(p) ==
    /\ creq[p].pc = "upsert" /\ creq[p].todo = {}
    /\ alone' = ~creq[p].overlapped
    /\ cReturn(p)
    /\ UNCHANGED <<chart, charters, registry, edits, syncFaults>>

\* A call throws: the request answers an error and leaves what it has done.
requestFails(p) ==
    /\ syncFaults < MaxSyncFaults /\ creq[p].pc # "idle"
    /\ syncFaults' = syncFaults + 1
    /\ cReturn(p)
    /\ UNCHANGED <<chart, charters, registry, edits, alone>>

CharterNext ==
    \E p \in CharterReqs :
        \/ draftRead(p) \/ draftCreate(p) \/ regenerateOnboardingBatch(p) \/ draftRegenerated(p)
        \/ updateDraft(p) \/ acceptRead(p) \/ acceptWrite(p)
        \/ onAccepted(p) \/ syncRoute(p) \/ applyTierChange(p) \/ cadenceRead(p) \/ cadenceWrite(p)
        \/ syncList(p) \/ upsertJobScheduler(p) \/ syncDone(p) \/ requestFails(p)

(***************************************************************************)
(* Properties                                                              *)
(***************************************************************************)

CharterTypeOK ==
    /\ chart \in [cadence : [CadenceTasks -> Cadences], hasBatch : BOOLEAN]
    /\ Len(charters) <= MaxVersions
    /\ \A v \in DOMAIN charters :
           charters[v] \in [status : {"draft", "active", "superseded"}, content : 0 .. MaxEdits,
                            cascade : [DOMAIN NoCascade -> [of : -1 .. MaxEdits, overridden : BOOLEAN]]]
    /\ registry \in [CadenceTasks -> {Unregistered} \cup {cadenceToRepeatOptions(c) : c \in Cadences}]
    /\ edits \in 0 .. MaxEdits /\ syncFaults \in 0 .. MaxSyncFaults /\ alone \in BOOLEAN

\* From the first acceptance on, exactly one version is active, with a cascade written
\* for it, whatever acceptances, reopened drafts and failures interleave
\* (companyCharters.ts's accept).
OneCharterInForce ==
    /\ Cardinality(activeOf) = IF \E v \in DOMAIN charters : charters[v].status # "draft" THEN 1 ELSE 0
    /\ \A v \in activeOf : \A e \in DOMAIN NoCascade : charters[v].cascade[e].of >= 0

\* No job is ever registered faster than the floor, and a reconciliation that ran
\* without another in its way leaves exactly the jobs the stored chart asks for, also
\* over what a failed or overlapped one left behind (syncTenantSchedule's promise).
RegistryFollowsChart ==
    /\ \A t \in CadenceTasks : registry[t].every \notin {1, 4}
    /\ alone => \A t \in CadenceTasks :
           registry[t] = cadenceToRepeatOptions(clampCadenceToFloor(chart.cadence[t]))

\* What the founder accepted is what runs: one charter is in force, and the registered
\* jobs are those of the stored chart.
AcceptedCompanyRuns == OneCharterInForce /\ RegistryFollowsChart
==============================================================================
