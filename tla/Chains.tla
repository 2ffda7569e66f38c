------------------------------- MODULE Chains -------------------------------
(***************************************************************************)
(* One task chain: the pure engine of packages/chains/src/chainEngine.ts   *)
(* over the row the durable store keeps (get, engine function, save).  The *)
(* caller starts the step the engine names, reports its outcome later, and *)
(* a founder resolves the gates; a sweep expires old chains.               *)
(***************************************************************************)
EXTENDS Integers

CONSTANTS NSteps,     \* steps of the chain
          Gated,      \* the steps with requiresApproval
          MaxStarts   \* how often a caller may start one step (1: never retried)

ASSUME ChainAssumption == NSteps \in Nat \ {0} /\ Gated \subseteq 1..NSteps /\ MaxStarts \in Nat \ {0}

VARIABLES chain,      \* the row of task_chains
          starts,     \* how often each step was started
          unreported, \* started and not reported yet, per step
          overdue,    \* the clock is past expiresAt
          approvals   \* history: the steps whose gate was approved while current

chainVars == <<chain, starts, unreported, overdue, approvals>>

Steps == 1..NSteps
Terminal == {"completed", "aborted_stale", "expired", "failed"}

ChainTypeOK ==
    /\ chain \in [steps: [Steps -> {"pending", "completed", "failed"}],
                  currentStepIndex: 1..NSteps + 1,
                  status: Terminal \cup {"running", "awaiting_approval"}]
    /\ starts \in [Steps -> 0..MaxStarts]
    /\ unreported \in [Steps -> 0..MaxStarts]
    /\ overdue \in BOOLEAN
    /\ approvals \subseteq Steps

\* PostgresChainStore.create: a running chain at its first step.
ChainInit ==
    /\ chain = [steps |-> [s \in Steps |-> "pending"], currentStepIndex |-> 1, status |-> "running"]
    /\ starts = [s \in Steps |-> 0] /\ unreported = starts
    /\ overdue = FALSE /\ approvals = {}

isTerminal == chain.status \in Terminal

\* The step a caller should run next: none when terminal or waiting on a human.
nextRunnableStep ==
    IF isTerminal \/ chain.status = "awaiting_approval" THEN {} ELSE {chain.currentStepIndex} \cap Steps

StartStep ==
    \E s \in nextRunnableStep :
        /\ starts[s] < MaxStarts
        /\ starts' = [starts EXCEPT ![s] = @ + 1]
        /\ unreported' = [unreported EXCEPT ![s] = @ + 1]
        /\ UNCHANGED <<chain, overdue, approvals>>

\* The chain after moving past its current step: completed after the last one.
pastCurrentStep(c, status) ==
    IF c.currentStepIndex >= NSteps
    THEN [c EXCEPT !.status = "completed", !.currentStepIndex = NSteps + 1]
    ELSE [c EXCEPT !.status = status, !.currentStepIndex = @ + 1]

\* Every successful step moves on, a gated one too (a mutant).
advanceChainUngated(s, success) ==
    LET done == [chain EXCEPT !.steps[s] = IF success THEN "completed" ELSE "failed"]
    IN  IF ~success THEN [done EXCEPT !.status = "failed"] ELSE pastCurrentStep(done, done.status)

\* advanceChain on a chain that is not terminal: a failed step fails it, a gated
\* step parks it, any other moves on and leaves the status as it is.
advanceChain(s, success) ==
    LET done == [chain EXCEPT !.steps[s] = IF success THEN "completed" ELSE "failed"]
    IN  IF ~success THEN [done EXCEPT !.status = "failed"]
        ELSE IF s \in Gated THEN [done EXCEPT !.status = "awaiting_approval"]
        ELSE pastCurrentStep(done, done.status)

\* A started step's outcome arrives; a terminal chain throws ChainNotRunnableError.
Report(s, success) ==
    /\ unreported[s] > 0
    /\ unreported' = [unreported EXCEPT ![s] = @ - 1]
    /\ chain' = IF isTerminal THEN chain ELSE advanceChain(s, success)
    /\ UNCHANGED <<starts, overdue, approvals>>

\* A verdict on the gate, with the caller's word on whether the trigger still holds.
resolveApprovalGate(verdict, conditionStillValid) ==
    /\ chain.status = "awaiting_approval"
    /\ chain' = IF ~conditionStillValid THEN [chain EXCEPT !.status = "aborted_stale"]
                ELSE IF verdict = "reject" THEN [chain EXCEPT !.status = "failed"]
                ELSE pastCurrentStep(chain, "running")
    /\ approvals' = IF conditionStillValid /\ verdict = "approve"
                    THEN approvals \cup {chain.currentStepIndex} ELSE approvals
    /\ UNCHANGED <<starts, unreported, overdue>>

PassExpiry ==
    /\ ~overdue /\ overdue' = TRUE
    /\ UNCHANGED <<chain, starts, unreported, approvals>>

\* The sweep: isChainExpired, then expireChain.
expireChain ==
    /\ overdue /\ ~isTerminal
    /\ chain' = [chain EXCEPT !.status = "expired"]
    /\ UNCHANGED <<starts, unreported, overdue, approvals>>

ChainNext ==
    \/ StartStep
    \/ \E s \in Steps, success \in BOOLEAN : Report(s, success)
    \/ \E verdict \in {"approve", "reject"}, valid \in BOOLEAN : resolveApprovalGate(verdict, valid)
    \/ PassExpiry \/ expireChain

ChainSpec == ChainInit /\ [][ChainNext]_chainVars

\* A completed chain did all of its work: every step ran to completion and every gate
\* was approved by a human, as long as no step's outcome is reported twice
\* (chainEngine.ts:44-47, "a verdict is never accidentally skipped").
CompletedChainDidEverything ==
    chain.status = "completed" =>
        /\ \A s \in Steps : chain.steps[s] = "completed"
        /\ Gated \subseteq approvals
=============================================================================
