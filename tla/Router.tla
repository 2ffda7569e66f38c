------------------------------- MODULE Router -------------------------------
(***************************************************************************)
(* The router: apps/router/src/router.ts over durable/dedupStore.ts and    *)
(* durable/ledgerStore.ts.  submitTask creates the task row at most once   *)
(* per dedup key, passes the cost gate, runs the executor, resolves the    *)
(* reservation and hands the result to the approval queue, saving the row  *)
(* and appending a ledger entry along the way.  Every await is the end of  *)
(* an action; the process may stop at any of them (a crash, or an          *)
(* exception nobody catches), and callers may submit a key again, also     *)
(* concurrently from another replica.                                      *)
(*                                                                         *)
(* The cost gate is seen through what it promises its caller (CostGate:    *)
(* GrantIsBacked, ResolvedOnce), the approval queue through its submit     *)
(* calls (ApprovalQueue).                                                  *)
(***************************************************************************)
EXTENDS Integers, Sequences

CONSTANTS
  Submissions,   \* calls of submitTask
  DedupKeys,     \* a dedup key names the task created for it
  Ceo,           \* keys whose task has promptTier "ceo"
  WantsEffect,   \* keys submitted with an effect
  Batchable,     \* keys submitted with batchable true (the default)
  Gated          \* keys submitted with a model; the others skip the gate

ASSUME RouterAssumption ==
  /\ Ceo \subseteq DedupKeys /\ WantsEffect \subseteq DedupKeys
  /\ Batchable \subseteq DedupKeys /\ Gated \subseteq DedupKeys
  /\ DedupKeys # {}

VARIABLES
  row,          \* table router_tasks: the status saved for each key
  ledger,       \* table task_ledger_entries: the statuses appended per key
  run,          \* progress of each call of submitTask
  reservation,  \* the cost gate's reservation for the task
  item,         \* what the approval queue was given for the task
  executions    \* how often the executor was run to its end for the task

vars == <<row, ledger, run, reservation, item, executions>>

Statuses == {"pending", "queued", "skipped", "in_progress", "failed",
             "awaiting_review", "completed"}
Final == Statuses \ {"pending", "in_progress"}

\* The executor's answer: an error, a result, or a result obtained while some
\* Hands tool was not connected (missingHands).
Outcomes == {"none", "error", "result", "draft"}

\* save and append: the row's UPDATE, the ledger's INSERT of run.status next.
Pcs == {"idle", "gating", "save", "append", "executing", "releasing", "settling",
        "submitting", "returned", "replayed", "interrupted"}

RunType == [pc : Pcs, key : DedupKeys, status : Statuses, outcome : Outcomes]

\* An item of the queue is a recommendation, or an action with or without an
\* effect; passed: the action went through on earned autonomy.
ItemKinds == {"none", "recommendation", "draft", "effect", "passed"}

TypeOK ==
  /\ row \in [DedupKeys -> Statuses \cup {"none"}]
  /\ ledger \in [DedupKeys -> Seq(Statuses)]
  /\ run \in [Submissions -> RunType]
  /\ reservation \in [DedupKeys -> {"none", "reserved", "settled", "released"}]
  /\ item \in [DedupKeys -> ItemKinds]
  /\ executions \in [DedupKeys -> Nat]

Init ==
  /\ row = [k \in DedupKeys |-> "none"]
  /\ ledger = [k \in DedupKeys |-> <<>>]
  /\ run = [s \in Submissions |-> [pc |-> "idle", key |-> CHOOSE k \in DedupKeys : TRUE,
                                   status |-> "pending", outcome |-> "none"]]
  /\ reservation = [k \in DedupKeys |-> "none"]
  /\ item = [k \in DedupKeys |-> "none"]
  /\ executions = [k \in DedupKeys |-> 0]

-----------------------------------------------------------------------------
(* Actions: one per await of submitTask.                                     *)

\* The call goes on to its next await with the given in-memory status.
Continue(s, pc, status) ==
  run' = [run EXCEPT ![s] = [pc |-> pc, key |-> run[s].key, status |-> status,
                             outcome |-> run[s].outcome]]

Begin(s, k, pc) ==
  run' = [run EXCEPT ![s] = [pc |-> pc, key |-> k, status |-> "pending", outcome |-> "none"]]

\* Mutant: a key whose task is still pending is taken over.
CreateTakesOver(s, k) ==
  /\ run[s].pc = "idle"
  /\ row[k] \in {"none", "pending"}
  /\ row' = [row EXCEPT ![k] = "pending"]
  /\ Begin(s, k, "append")
  /\ UNCHANGED <<ledger, reservation, item, executions>>

\* getOrCreate inserts the row: INSERT .. ON CONFLICT (tenant_id, dedup_key).
Create(s, k) ==
  /\ run[s].pc = "idle"
  /\ row[k] = "none"
  /\ row' = [row EXCEPT ![k] = "pending"]
  /\ Begin(s, k, "append")
  /\ UNCHANGED <<ledger, reservation, item, executions>>

\* The key is taken: the stored task is returned as it is.
Replay(s, k) ==
  /\ run[s].pc = "idle"
  /\ row[k] # "none"
  /\ Begin(s, k, "replayed")
  /\ UNCHANGED <<row, ledger, reservation, item, executions>>

\* Mutant: the failure path returns before its ledger entry.
AppendSkipsFailed(s) ==
  LET k == run[s].key
      status == run[s].status
      ungated == status = "pending" /\ k \notin Gated
  IN /\ run[s].pc = "append"
     /\ ledger' = [ledger EXCEPT ![k] = IF status = "failed" THEN @ ELSE Append(@, status)]
     /\ Continue(s, IF ungated THEN "save"
                    ELSE IF status = "pending" THEN "gating"
                    ELSE IF status = "in_progress" THEN "executing"
                    ELSE "returned",
                 IF ungated THEN "in_progress" ELSE status)
     /\ UNCHANGED <<row, reservation, item, executions>>

\* ledger.append, and what submitTask goes on to.
AppendLedger(s) ==
  LET k == run[s].key
      status == run[s].status
      ungated == status = "pending" /\ k \notin Gated
  IN /\ run[s].pc = "append"
     /\ ledger' = [ledger EXCEPT ![k] = Append(@, status)]
     /\ Continue(s, IF ungated THEN "save"
                    ELSE IF status = "pending" THEN "gating"
                    ELSE IF status = "in_progress" THEN "executing"
                    ELSE "returned",
                 IF ungated THEN "in_progress" ELSE status)
     /\ UNCHANGED <<row, reservation, item, executions>>

\* dedupStore.update.
SaveTask(s) ==
  /\ run[s].pc = "save"
  /\ row' = [row EXCEPT ![run[s].key] = run[s].status]
  /\ Continue(s, "append", run[s].status)
  /\ UNCHANGED <<ledger, reservation, item, executions>>

\* evaluateAndReserve grants the call.
GateGrants(s) ==
  /\ run[s].pc = "gating"
  /\ reservation' = [reservation EXCEPT ![run[s].key] = "reserved"]
  /\ Continue(s, "save", "in_progress")
  /\ UNCHANGED <<row, ledger, item, executions>>

\* Mutant: a refusal is decided after the reservation was made, and keeps it.
RefusesButReserves(s, status) ==
  /\ run[s].pc = "gating"
  /\ status = "skipped" => run[s].key \notin Batchable
  /\ reservation' = [reservation EXCEPT ![run[s].key] = "reserved"]
  /\ Continue(s, "save", status)
  /\ UNCHANGED <<row, ledger, item, executions>>

\* It refuses with QUEUE (also when it cannot price the model) or SKIP.
GateRefuses(s, status) ==
  /\ run[s].pc = "gating"
  /\ status = "skipped" => run[s].key \notin Batchable
  /\ Continue(s, "save", status)
  /\ UNCHANGED <<row, ledger, reservation, item, executions>>

\* Mutant: the outcome's tag is taken for the task's status.
ExecuteStoresTag(s, outcome) ==
  LET k == run[s].key
  IN /\ run[s].pc = "executing"
     /\ executions' = [executions EXCEPT ![k] = @ + 1]
     /\ run' = [run EXCEPT ![s] =
                  [pc |-> IF outcome = "error" THEN "save" ELSE "submitting", key |-> k,
                   status |-> IF outcome = "error" THEN outcome ELSE run[s].status,
                   outcome |-> outcome]]
     /\ UNCHANGED <<row, ledger, reservation, item>>

\* executor.execute returns; an exception is caught and becomes an error.
Execute(s, outcome) ==
  LET k == run[s].key
  IN /\ run[s].pc = "executing"
     /\ executions' = [executions EXCEPT ![k] = @ + 1]
     /\ run' = [run EXCEPT ![s] =
                  [pc |-> IF outcome = "error"
                          THEN IF k \in Gated THEN "releasing" ELSE "save"
                          ELSE IF k \in Gated THEN "settling" ELSE "submitting",
                   key |-> k,
                   status |-> IF outcome = "error" THEN "failed" ELSE run[s].status,
                   outcome |-> outcome]]
     /\ UNCHANGED <<row, ledger, reservation, item>>

\* Mutant: the reservation of a failed run is not given back.
ReleaseForgotten(s) ==
  /\ run[s].pc = "releasing"
  /\ Continue(s, "save", run[s].status)
  /\ UNCHANGED <<row, ledger, reservation, item, executions>>

\* Mutant: the failure path appends its ledger entry but does not save the row.
ReleaseSkipsSave(s) ==
  /\ run[s].pc = "releasing"
  /\ reservation' = [reservation EXCEPT ![run[s].key] = "released"]
  /\ Continue(s, "append", run[s].status)
  /\ UNCHANGED <<row, ledger, item, executions>>

Release(s) ==
  /\ run[s].pc = "releasing"
  /\ reservation' = [reservation EXCEPT ![run[s].key] = "released"]
  /\ Continue(s, "save", run[s].status)
  /\ UNCHANGED <<row, ledger, item, executions>>

Settle(s) ==
  /\ run[s].pc = "settling"
  /\ reservation' = [reservation EXCEPT ![run[s].key] = "settled"]
  /\ Continue(s, "submitting", run[s].status)
  /\ UNCHANGED <<row, ledger, item, executions>>

SubmitRecommendation(s) ==
  LET k == run[s].key
  IN /\ run[s].pc = "submitting"
     /\ k \in Ceo
     /\ item' = [item EXCEPT ![k] = "recommendation"]
     /\ Continue(s, "save", "awaiting_review")
     /\ UNCHANGED <<row, ledger, reservation, executions>>

\* Mutant: missing Hands do not drop the effect.
EffectOfDraft(k, outcome) == k \in WantsEffect \ Ceo

\* effectiveEffect: dropped for a CEO task and for a draft.
EffectiveEffect(k, outcome) == k \in WantsEffect \ Ceo /\ outcome # "draft"

\* submitProposedAction queues the action ...
SubmitQueued(s) ==
  LET k == run[s].key
  IN /\ run[s].pc = "submitting"
     /\ k \notin Ceo
     /\ item' = [item EXCEPT ![k] =
                   IF EffectiveEffect(k, run[s].outcome) THEN "effect" ELSE "draft"]
     /\ Continue(s, "save", "awaiting_review")
     /\ UNCHANGED <<row, ledger, reservation, executions>>

\* ... or, if it carries no effect, may let it pass.
SubmitPasses(s) ==
  LET k == run[s].key
  IN /\ run[s].pc = "submitting"
     /\ k \notin Ceo
     /\ ~EffectiveEffect(k, run[s].outcome)
     /\ item' = [item EXCEPT ![k] = "passed"]
     /\ Continue(s, "save", "completed")
     /\ UNCHANGED <<row, ledger, reservation, executions>>

Running == Pcs \ {"idle", "returned", "replayed", "interrupted"}

\* The process dies, or an await throws: submitTask does nothing more.
Interrupt(s) ==
  /\ run[s].pc \in Running
  /\ Continue(s, "interrupted", run[s].status)
  /\ UNCHANGED <<row, ledger, reservation, item, executions>>

-----------------------------------------------------------------------------
RunStep(s) ==
  \/ AppendLedger(s)
  \/ SaveTask(s)
  \/ GateGrants(s)
  \/ \E status \in {"queued", "skipped"} : GateRefuses(s, status)
  \/ \E outcome \in Outcomes \ {"none"} : Execute(s, outcome)
  \/ Release(s)
  \/ Settle(s)
  \/ SubmitRecommendation(s)
  \/ SubmitQueued(s)
  \/ SubmitPasses(s)

Next ==
  \E s \in Submissions :
    \/ \E k \in DedupKeys : Create(s, k) \/ Replay(s, k)
    \/ RunStep(s)
    \/ Interrupt(s)

Spec == Init /\ [][Next]_vars

\* The event loop keeps a call going until it returns or is interrupted.
FairSpec == Spec /\ \A s \in Submissions : WF_vars(RunStep(s))

-----------------------------------------------------------------------------
(* Properties.                                                               *)

\* A run that owns the task of key k: it created the row.
Owns(s, k) == run[s].key = k /\ run[s].pc \notin {"idle", "replayed"}

\* "never re-execute a seen dedupKey" (router.ts:72): however many replicas
\* race and however often a caller retries, one call owns a task (only an owner
\* can start the executor) and the executor runs at most once for it.
ExecutedAtMostOnce ==
  \A k \in DedupKeys :
    /\ executions[k] <= 1
    /\ \A s1, s2 \in Submissions : Owns(s1, k) /\ Owns(s2, k) => s1 = s2

\* What must have happened to the task of key k for a status to be true.
Earned(k, status) ==
  /\ status \in {"queued", "skipped"} =>
       executions[k] = 0 /\ reservation[k] = "none" /\ item[k] = "none"
  /\ status = "failed" =>
       /\ executions[k] = 1 /\ item[k] = "none"
       /\ reservation[k] = IF k \in Gated THEN "released" ELSE "none"
  /\ status \in {"awaiting_review", "completed"} =>
       /\ executions[k] = 1
       /\ reservation[k] = IF k \in Gated THEN "settled" ELSE "none"
       /\ item[k] \in IF status = "completed" THEN {"passed"}
                      ELSE {"recommendation", "draft", "effect"}

\* The saved status never lies about money and review: a refused task reserved
\* nothing and ran nothing; a failed one ran and gave its reservation back; a
\* reviewed or completed one ran, was paid for and reached the queue.
StatusIsEarned == \A k \in DedupKeys : Earned(k, row[k])

\* T10 and issue #22 (router.ts:133-151): a CEO task has no dispatch pathway at
\* all, and a run whose Hands were missing can only propose a draft.
NoUnearnedEffect ==
  \A s \in Submissions, k \in DedupKeys :
    Owns(s, k) =>
      /\ k \in Ceo => item[k] \in {"none", "recommendation"}
      /\ item[k] = "effect" => run[s].outcome = "result" /\ k \in WantsEffect

\* Reservations of a task are held by the run that will resolve them, unless it
\* was interrupted: nothing else reaps them.
ReservationHeld ==
  \A k \in DedupKeys :
    reservation[k] = "reserved" =>
      \E s \in Submissions : Owns(s, k) /\ run[s].pc \in Running \cup {"interrupted"}

\* ledgerRowsFor of scheduledDispatchProcessor.ts, which bills ledger rows by
\* the returned status ("mirrors router.ts's actual code exactly").
LedgerRowsFor(status) == IF status \in {"queued", "skipped"} THEN 2 ELSE 3

\* The ledger tells the task's history: when submitTask returns a task it
\* created, the row has a final status, that status is the last ledger entry,
\* and there are exactly as many entries as the dispatcher's meter counts.
\* Before that the ledger lags the row by at most the entry still to append.
LedgerAccountsForRun ==
  \A s \in Submissions, k \in DedupKeys :
    Owns(s, k) =>
      /\ run[s].pc = "returned" =>
           /\ row[k] \in Final
           /\ Len(ledger[k]) = LedgerRowsFor(row[k])
           /\ ledger[k][Len(ledger[k])] = row[k]
      /\ run[s].pc # "append" /\ run[s].pc # "interrupted" =>
           ledger[k] # <<>> /\ ledger[k][Len(ledger[k])] = row[k]

\* A task never stays pending or in progress while its process lives: it gets a
\* final status unless the run that owns it was interrupted.
TaskFinishes ==
  \A k \in DedupKeys :
    row[k] \in {"pending", "in_progress"}
      ~> \/ row[k] \in Final
         \/ \E s \in Submissions : Owns(s, k) /\ run[s].pc = "interrupted"

\* The moves a saved status may make; a final one makes none.
Moves == {<<"none", "pending">>, <<"pending", "queued">>, <<"pending", "skipped">>,
          <<"pending", "in_progress">>}
         \cup {"in_progress"} \X {"failed", "awaiting_review", "completed"}

\* The row follows the task's lifecycle whatever the callers do: no retry, race
\* or late write takes a status back or overwrites a final one.
StatusMovesForward ==
  [][\A k \in DedupKeys : row'[k] = row[k] \/ <<row[k], row'[k]>> \in Moves]_vars

\* router.ts:77: "GATE - strictly before the executor", with the gate attached.
GateBeforeExecutor ==
  \A k \in DedupKeys : executions[k] > 0 => reservation[k] # "none"
=============================================================================
