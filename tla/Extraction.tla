------------------------------ MODULE Extraction ------------------------------
(***************************************************************************)
(* One extraction run (packages/agents/extraction/src/pipeline.ts): a       *)
(* template or a blend of two, customised by one model call, its added      *)
(* tasks re-categorised by a second, assembled into an org chart, and a     *)
(* third call for the onboarding batch.  What a model answers is chosen     *)
(* nondeterministically; prompts and wording are left out.                  *)
(*                                                                          *)
(* Money is counted in small units.  Every call is allowed by its estimate; *)
(* what it is billed may exceed that estimate by Slack (the estimate counts *)
(* four characters per token and leaves the tool schema out).               *)
(***************************************************************************)
EXTENDS TemplateSelect, OrgChart

CONSTANTS
    MaxCost,                                      \* DEFAULT_MAX_COST_USD
    CustomizeEstimate, ValidateEstimate, BatchEstimate,
    Slack,                                        \* billed beyond the estimate, at most
    HitProfiles,                                  \* the keyword hits of the ideas considered
    Additions,                                    \* the additions the customize pass may propose
    Removals,                                     \* the sets of ids it may remove
    MaxAdded,                                     \* additions per run
    CorrectedHints                                \* the categories the validator may answer

ASSUME ExtractionAssumption ==
    /\ MaxCost \in Nat /\ Slack \in Nat /\ MaxAdded \in 0 .. 3
    /\ {CustomizeEstimate, ValidateEstimate, BatchEstimate} \subseteq Nat \ {0}
    /\ CorrectedHints \subseteq TeamHints

VARIABLES
    stage,       \* where extractOrgChart is
    selection,   \* selectTemplate's answer
    removed,     \* removeTaskIds of the customize pass
    adjusted,    \* the kept tasks whose frequency it changed
    added,       \* its addTasks
    hints,       \* the teamHint each added task has now
    log,         \* the chart's CustomizationLog
    accounted,   \* the sum of `calls`: what the run knows it spent
    lost         \* billed by calls that threw afterwards, in no `calls` entry

extractionVars == <<stage, selection, removed, adjusted, added, hints, log, accounted, lost>>

NoSelection == [primary |-> NoTemplate, blendedWith |-> NoTemplate, lowConfidence |-> FALSE]
NoLog == [added |-> {}, removed |-> {}, adjusted |-> {}, corrected |-> <<>>]

(***************************************************************************)
(* The tasks of the run                                                    *)
(***************************************************************************)

\* The template's tasks and, in a blend, those of the other with a new id.
baseTasksOf(chosen) ==
    LET primary == allTemplates[chosen.primary]
        own == listed(primary, 0)
        other == IF chosen.blendedWith = NoTemplate THEN {}
                 ELSE listed(allTemplates[chosen.blendedWith], Len(primary))
    IN own \cup {t \in other : t.id \notin idsOf(own)}

baseTasks == baseTasksOf(selection)

keptTasks == {t \in baseTasks : t.id \notin removed}

AddedIds == <<"customize.1", "customize.2", "customize.3">>

\* Cadence and trigger of an added task, from a keyword of its agent type or its frequency.
deriveScheduleMetadata(frequency, keyword) ==
    CASE keyword = "triage" -> <<NoCadence, "event">>
      [] keyword = "expense" -> <<"nightly", "cadence">>
      [] keyword = "forecast" -> <<"weekly", "cadence">>
      [] keyword = "tax" -> <<"monthly", "cadence">>
      [] keyword = "inventory" -> <<"daily", "threshold">>
      [] keyword = "none" /\ frequency = "adhoc" -> <<NoCadence, "event">>
      [] keyword = "none" /\ frequency # "adhoc" -> <<frequency, "cadence">>

\* The added tasks, after all of the base.
addedTasks(currentHints) ==
    LET last == lastOf(baseTasks)
        taskOf(i) ==
            LET a == added[i]
                schedule == deriveScheduleMetadata(a.frequency, a.keyword)
            IN Task(AddedIds[i], a.agentType, currentHints[i], a.tier, a.autonomy, a.handsTool,
                    a.verified, schedule[1], schedule[2])
    IN {placed(taskOf(i), last + i) : i \in DOMAIN added}

finalTasks(currentHints) == keptTasks \cup addedTasks(currentHints)

ownHints == [i \in DOMAIN added |-> added[i].teamHint]

\* The deltas captured from the log of a generation, by kind.
customizationLogToDeltas(l, tasks) ==
    [added |-> l.added \cap idsOf(tasks), removed |-> l.removed, adjusted |-> l.adjusted]

\* The curated templates name their tasks apart, assemble before a model touched them,
\* alone and in every blend, and leave a free name for every agent that may be added
\* (assignAgentNames: "not reachable with today's templates").
ASSUME TemplatesAssumption ==
    /\ HitProfiles \subseteq [BusinessTemplateIds -> Nat]
    /\ \A id \in BusinessTemplateIds :
           /\ Len(allTemplates[id]) \in Nat
           /\ Cardinality(idsOf(listed(allTemplates[id], 0))) = Len(allTemplates[id])
    /\ \A chosen \in TemplateSelections :
           LET base == baseTasksOf(chosen)
           IN /\ assembleError(base) = "none"
              /\ Cardinality(agentTypesOf(base)) + MaxAdded <= BankSize
              /\ agentTypesOf(base) \subseteq DOMAIN NameStart
    /\ \A a \in Additions : a.agentType \in DOMAIN NameStart

(***************************************************************************)
(* Steps of the run                                                        *)
(***************************************************************************)

ExtractionInit ==
    /\ stage = "idea" /\ selection = NoSelection
    /\ removed = {} /\ adjusted = {} /\ added = <<>> /\ hints = <<>>
    /\ log = NoLog /\ accounted = 0 /\ lost = 0

\* Step 1: template selection from the answers and the idea's keywords.
Select ==
    /\ stage = "idea"
    /\ \E answers \in InterviewAnswers, hits \in HitProfiles :
           selection' = selectTemplate(answers, hits)
    /\ stage' = "selected"
    /\ UNCHANGED <<removed, adjusted, added, hints, log, accounted, lost>>

\* Every API call is allowed by its estimate against the budget it is given.
guardEstimatedCost(estimate, maxCostUsd) == estimate <= maxCostUsd

Billed(estimate) == 1 .. estimate + Slack

\* The customize call answers: removals, additions and frequency changes.
customizeAnswers(cost) ==
    \E r \in Removals, adj \in Removals, n \in 0 .. MaxAdded :
        \E adds \in [1 .. n -> Additions] :
            /\ removed' = r
            /\ adjusted' = (adj \ r) \cap idsOf(baseTasks)
            /\ added' = adds
            /\ hints' = [i \in 1 .. n |-> adds[i].teamHint]
            /\ accounted' = accounted + cost
            /\ stage' = "customized"

\* Step 2: over the cap nothing is called; a call without a tool answer fails the
\* run after it was billed.
runCustomizePass ==
    /\ stage = "selected"
    /\ UNCHANGED <<selection, log>>
    /\ IF ~guardEstimatedCost(CustomizeEstimate, MaxCost)
       THEN stage' = "failed" /\ UNCHANGED <<removed, adjusted, added, hints, accounted, lost>>
       ELSE \E cost \in Billed(CustomizeEstimate) :
                \/ customizeAnswers(cost) /\ UNCHANGED lost
                \/ /\ stage' = "failed" /\ lost' = lost + cost
                   /\ UNCHANGED <<removed, adjusted, added, hints, accounted>>

remainingBudget == MaxCost - accounted

\* The validation is skipped without additions or budget, or by the guard.
validateSkipped ==
    /\ added = <<>> \/ remainingBudget <= 0 \/ ~guardEstimatedCost(ValidateEstimate, remainingBudget)
    /\ UNCHANGED <<hints, accounted, lost>>

\* The validator's corrections are applied to the added tasks.
validateCategories ==
    /\ added # <<>> /\ guardEstimatedCost(ValidateEstimate, remainingBudget)
    /\ \E cost \in Billed(ValidateEstimate) : accounted' = accounted + cost
    /\ \E corrections \in [DOMAIN added -> CorrectedHints \cup {"unchanged"}] :
           hints' = [i \in DOMAIN added |->
                        IF corrections[i] = "unchanged" THEN hints[i] ELSE corrections[i]]
    /\ UNCHANGED lost

\* The call was billed and then threw: the run goes on, and `calls` never sees it.
validateThrows ==
    /\ added # <<>> /\ guardEstimatedCost(ValidateEstimate, remainingBudget)
    /\ \E cost \in Billed(ValidateEstimate) : lost' = lost + cost
    /\ UNCHANGED <<hints, accounted>>

\* Step 2.5: the category validation of the added tasks.
Validate ==
    /\ stage = "customized"
    /\ validateSkipped \/ validateCategories \/ validateThrows
    /\ stage' = "validated"
    /\ UNCHANGED <<selection, removed, adjusted, added, log>>

\* The log of what the customize pass and the validation did.
customizationLog(currentHints) ==
    [added |-> idsOf(addedTasks(currentHints)), removed |-> removed \cap idsOf(baseTasks), adjusted |-> adjusted,
     corrected |-> [i \in {j \in DOMAIN added : currentHints[j] # added[j].teamHint} |-> currentHints[i]]]

\* Corrections that break the scope separation are reverted (a mutant keeps their log).
revertKeepingLog ==
    /\ hints' = ownHints
    /\ log' = customizationLog(hints)
    /\ stage' = IF assembleError(finalTasks(ownHints)) = "none" THEN "assembled" ELSE "failed"

\* The fallback: the corrections are dropped, from the tasks and from the log.
revertCorrections ==
    /\ hints' = ownHints
    /\ log' = customizationLog(ownHints)
    /\ stage' = IF assembleError(finalTasks(ownHints)) = "none" THEN "assembled" ELSE "failed"

\* Steps 3-4: assembly.  Only a scope violation caused by corrections is retried.
assembleOrgChart ==
    /\ stage = "validated"
    /\ LET error == assembleError(finalTasks(hints))
           corrected == hints # ownHints
       IN \/ /\ error = "none"
             /\ stage' = "assembled" /\ log' = customizationLog(hints) /\ UNCHANGED hints
          \/ error = "hands-scope" /\ corrected /\ revertCorrections
          \/ /\ error = "compliance" \/ (error = "hands-scope" /\ ~corrected)
             /\ stage' = "failed" /\ UNCHANGED <<hints, log>>
    /\ UNCHANGED <<selection, removed, adjusted, added, accounted, lost>>

\* The batch is guarded by the whole cap instead of what is left of it (a mutant).
batchBudgetWhole == MaxCost

\* What chart.meta.costUsd leaves of the cap.
batchRemainingBudget == MaxCost - accounted

\* Step 5: the onboarding batch.  Only a budget decision leaves the chart without
\* one; any other failure fails the run.
generateOnboardingBatch ==
    /\ stage = "assembled"
    /\ IF batchRemainingBudget <= 0 \/ ~guardEstimatedCost(BatchEstimate, batchRemainingBudget)
       THEN stage' = "done" /\ UNCHANGED <<accounted, lost>>
       ELSE \E cost \in Billed(BatchEstimate) :
                \/ stage' = "done" /\ accounted' = accounted + cost /\ UNCHANGED lost
                \/ stage' = "failed" /\ lost' = lost + cost /\ UNCHANGED accounted
    /\ UNCHANGED <<selection, removed, adjusted, added, hints, log>>

ExtractionNext ==
    Select \/ runCustomizePass \/ Validate \/ assembleOrgChart \/ generateOnboardingBatch

(***************************************************************************)
(* Properties                                                              *)
(***************************************************************************)

Stages == {"idea", "selected", "customized", "validated", "assembled", "done", "failed"}

\* The run's locals keep their types (the types of pipeline.ts and types.ts).
ExtractionTypeOK ==
    /\ stage \in Stages
    /\ selection \in TemplateSelections \cup {NoSelection}
    /\ added \in UNION {[1 .. n -> Additions] : n \in 0 .. MaxAdded}
    /\ DOMAIN hints = DOMAIN added /\ Range(hints) \subseteq TeamHints
    /\ accounted \in Nat /\ lost \in Nat

\* Whatever the three calls are billed, what the run has accounted for stays within
\* the cap, up to the error of the one estimate that let the last call through
\* (guardEstimatedCost against remainingBudget and batchRemainingBudget).
AccountedSpendWithinCap == accounted <= MaxCost + Slack

\* Any template, and any blend the selection can make, assembles before the model
\* touched it, and leaves a free name for every agent that may be added.  A chart that
\* is handed on names its agents apart, keeps the CFO's and the clients' tools apart,
\* marks compliance work, and is exactly what its log says: the base tasks, less the
\* removed, plus the added, under the logged corrections, also after corrections were
\* reverted (templates, validateHandsScopeSeparation, validateComplianceMetadata,
\* assignAgentNames, pipeline.ts's fallback, taskDeltas.ts).
FinishedChartIsSound ==
    /\ stage = "selected" =>
           assembleError(baseTasks) = "none" /\ Cardinality(agentTypesOf(baseTasks)) + MaxAdded <= BankSize
    /\ stage = "done" =>
        LET tasks == finalTasks(hints)
            agents == agentsFrom(tasks)
            deltas == customizationLogToDeltas(log, tasks)
        IN /\ \A a, b \in agents : a.name >= 0 /\ (a.name = b.name => a = b)
           /\ validateHandsScopeSeparation(agents) /\ validateComplianceMetadata(tasks)
           /\ idsOf(tasks) = (idsOf(baseTasks) \ deltas.removed) \cup deltas.added
           /\ deltas.adjusted \subseteq idsOf(tasks)
           /\ \A i \in DOMAIN added :
                  hints[i] = IF i \in DOMAIN log.corrected THEN log.corrected[i] ELSE added[i].teamHint
==============================================================================
