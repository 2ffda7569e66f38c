---------------------------- MODULE RouterProofs ----------------------------
(***************************************************************************)
(* Theorems about Router, for any number of keys, callers and retries.     *)
(*                                                                         *)
(* The properties are not inductive: they speak of the saved row, while    *)
(* what happens next is decided by the status a run holds in memory.  The  *)
(* strengthening Progress says what is already true at each await, and     *)
(* OneOwner that nobody else can have changed it since.                    *)
(***************************************************************************)
EXTENDS Router, TLAPS

Owner(s) == run[s].pc \notin {"idle", "replayed"}

\* A task has one owner, and only a task that was created has one.
OneOwner ==
  /\ \A s1, s2 \in Submissions :
       Owner(s1) /\ Owner(s2) /\ run[s1].key = run[s2].key => s1 = s2
  /\ \A s \in Submissions : Owner(s) => row[run[s].key] # "none"

\* Nothing has happened to the task of key k beyond its reservation.
Fresh(k) == executions[k] = 0 /\ item[k] = "none"

Held(k) == reservation[k] = IF k \in Gated THEN "reserved" ELSE "none"

\* What is true of the task while its owner waits at each await.
Progress(s) ==
  LET k == run[s].key
      pc == run[s].pc
      status == run[s].status
  IN /\ pc = "append" => row[k] = status
     /\ pc \in {"save", "append"} => Earned(k, status)
     /\ pc = "gating" \/ (pc = "append" /\ status = "pending") =>
          row[k] = "pending" /\ status = "pending" /\ Fresh(k) /\ reservation[k] = "none"
     /\ pc = "gating" => k \in Gated
     /\ pc = "save" => status # "pending"
     /\ pc = "save" /\ status \in {"in_progress", "queued", "skipped"} => row[k] = "pending"
     /\ pc = "save" /\ status \in {"failed", "awaiting_review", "completed"} =>
          row[k] = "in_progress"
     /\ pc \in {"save", "append"} /\ status = "in_progress" => Fresh(k) /\ Held(k)
     /\ pc = "executing" =>
          row[k] = "in_progress" /\ status = "in_progress" /\ Fresh(k) /\ Held(k)
     /\ pc \in {"releasing", "settling", "submitting"} =>
          row[k] = "in_progress" /\ executions[k] = 1 /\ item[k] = "none"
     /\ pc \in {"releasing", "settling"} => k \in Gated
     /\ pc = "releasing" => status = "failed"
     /\ pc \in {"settling", "submitting"} =>
          status = "in_progress" /\ run[s].outcome \in {"result", "draft"}
     /\ pc = "submitting" => reservation[k] = IF k \in Gated THEN "settled" ELSE "none"

Untouched(k) == row[k] = "none" => Fresh(k) /\ reservation[k] = "none"

RouterInv ==
  /\ TypeOK
  /\ OneOwner
  /\ \A s \in Submissions : Progress(s)
  /\ \A k \in DedupKeys : Untouched(k) /\ executions[k] <= 1
  /\ StatusIsEarned
  /\ NoUnearnedEffect

-----------------------------------------------------------------------------
\* The empty tables and idle runs are well typed.
LEMMA TypeInit == Init => TypeOK
<1> SUFFICES ASSUME Init PROVE TypeOK
  OBVIOUS
<1>1. (CHOOSE k \in DedupKeys : TRUE) \in DedupKeys
  BY RouterAssumption
<1>2. <<>> \in Seq(Statuses)
  OBVIOUS
<1>3. QED
  BY <1>1, <1>2 DEF Init, TypeOK, RunType, Pcs, Statuses, Outcomes, ItemKinds

\* What a run remembers, and what Continue leaves of it.
LEMMA RunFacts ==
  ASSUME TypeOK, NEW s \in Submissions
  PROVE  /\ run[s].pc \in Pcs /\ run[s].key \in DedupKeys
         /\ run[s].status \in Statuses /\ run[s].outcome \in Outcomes
         /\ \A pc \in Pcs, status \in Statuses :
              Continue(s, pc, status) =>
                /\ run' \in [Submissions -> RunType]
                /\ run'[s].pc = pc /\ run'[s].key = run[s].key
                /\ run'[s].status = status /\ run'[s].outcome = run[s].outcome
                /\ \A t \in Submissions : t # s => run'[t] = run[t]
<1>1. run[s] \in RunType
  BY DEF TypeOK
<1>2. run[s].pc \in Pcs /\ run[s].key \in DedupKeys /\ run[s].status \in Statuses
      /\ run[s].outcome \in Outcomes
  BY <1>1 DEF RunType
<1>3. ASSUME NEW pc \in Pcs, NEW status \in Statuses, Continue(s, pc, status)
      PROVE  /\ run' \in [Submissions -> RunType]
             /\ run'[s].pc = pc /\ run'[s].key = run[s].key
             /\ run'[s].status = status /\ run'[s].outcome = run[s].outcome
             /\ \A t \in Submissions : t # s => run'[t] = run[t]
  <2> DEFINE r == [pc |-> pc, key |-> run[s].key, status |-> status, outcome |-> run[s].outcome]
  <2>1. r \in RunType
    BY <1>2 DEF RunType
  <2>2. run' = [run EXCEPT ![s] = r]
    BY <1>3 DEF Continue
  <2>3. r.pc = pc /\ r.key = run[s].key /\ r.status = status /\ r.outcome = run[s].outcome
    OBVIOUS
  <2> HIDE DEF r
  <2>4. QED
    BY <2>1, <2>2, <2>3 DEF TypeOK
<1>4. QED
  BY <1>2, <1>3

\* Each await of submitTask keeps tables and runs in their types.
LEMMA TypeStep == TypeOK /\ [Next]_vars => TypeOK'
<1> SUFFICES ASSUME TypeOK, [Next]_vars PROVE TypeOK'
  OBVIOUS
<1>0. \A s \in Submissions : /\ run[s].key \in DedupKeys /\ run[s].status \in Statuses
                             /\ run[s].outcome \in Outcomes
  BY RunFacts
<1>a. ASSUME NEW s \in Submissions, NEW pc \in Pcs, NEW status \in Statuses, Continue(s, pc, status)
      PROVE  run' \in [Submissions -> RunType]
  BY <1>a, RunFacts
<1>1. ASSUME NEW s \in Submissions, NEW k \in DedupKeys, Create(s, k) \/ Replay(s, k)
      PROVE  TypeOK'
  <2>1. \A pc \in Pcs : [pc |-> pc, key |-> k, status |-> "pending", outcome |-> "none"] \in RunType
    BY DEF RunType, Statuses, Outcomes
  <2>2. \A pc \in Pcs : Begin(s, k, pc) => run' \in [Submissions -> RunType]
    BY <2>1 DEF Begin, TypeOK
  <2>3. run' \in [Submissions -> RunType]
    BY <1>1, <2>2 DEF Create, Replay, Pcs
  <2>4. QED
    BY <1>1, <2>3 DEF Create, Replay, TypeOK, Statuses
<1>2. ASSUME NEW s \in Submissions, AppendLedger(s) PROVE TypeOK'
  <2> DEFINE k == run[s].key
             ungated == run[s].status = "pending" /\ k \notin Gated
             pc == IF ungated THEN "save"
                   ELSE IF run[s].status = "pending" THEN "gating"
                   ELSE IF run[s].status = "in_progress" THEN "executing" ELSE "returned"
             status == IF ungated THEN "in_progress" ELSE run[s].status
  <2>1. Append(ledger[k], run[s].status) \in Seq(Statuses)
    BY <1>0 DEF TypeOK
  <2>2. pc \in Pcs /\ status \in Statuses
    BY <1>0 DEF Pcs, Statuses
  <2>3. Continue(s, pc, status)
    BY <1>2 DEF AppendLedger
  <2>4. /\ ledger' = [ledger EXCEPT ![k] = Append(ledger[k], run[s].status)]
        /\ UNCHANGED <<row, reservation, item, executions>>
    BY <1>2 DEF AppendLedger
  <2> HIDE DEF pc, status, ungated
  <2>5. run' \in [Submissions -> RunType]
    BY <1>a, <2>2, <2>3
  <2>6. QED
    BY <1>0, <2>1, <2>4, <2>5 DEF TypeOK
<1>3. ASSUME NEW s \in Submissions, SaveTask(s) \/ Release(s) \/ Settle(s) \/ Interrupt(s)
      PROVE  TypeOK'
  <2>1. run' \in [Submissions -> RunType]
    BY <1>0, <1>3, <1>a DEF SaveTask, Release, Settle, Interrupt, Pcs
  <2>2. QED
    BY <1>0, <1>3, <2>1 DEF SaveTask, Release, Settle, Interrupt, TypeOK
<1>5. ASSUME NEW s \in Submissions,
             GateGrants(s) \/ \E status \in {"queued", "skipped"} : GateRefuses(s, status)
      PROVE  TypeOK'
  <2>1. run' \in [Submissions -> RunType]
    BY <1>5, <1>a DEF GateGrants, GateRefuses, Pcs, Statuses
  <2>2. QED
    BY <1>0, <1>5, <2>1 DEF GateGrants, GateRefuses, TypeOK
<1>7. ASSUME NEW s \in Submissions, SubmitRecommendation(s) \/ SubmitQueued(s) \/ SubmitPasses(s)
      PROVE  TypeOK'
  <2>1. run' \in [Submissions -> RunType]
    BY <1>7, <1>a DEF SubmitRecommendation, SubmitQueued, SubmitPasses, Pcs, Statuses
  <2>2. PICK kind \in ItemKinds : item' = [item EXCEPT ![run[s].key] = kind]
    BY <1>7 DEF SubmitRecommendation, SubmitQueued, SubmitPasses, ItemKinds
  <2>3. UNCHANGED <<row, ledger, reservation, executions>>
    BY <1>7 DEF SubmitRecommendation, SubmitQueued, SubmitPasses
  <2>4. QED
    BY <1>0, <2>1, <2>2, <2>3 DEF TypeOK
<1>8. ASSUME NEW s \in Submissions, NEW outcome \in Outcomes, Execute(s, outcome) PROVE TypeOK'
  <2> DEFINE k == run[s].key
             pc == IF outcome = "error" THEN IF k \in Gated THEN "releasing" ELSE "save"
                   ELSE IF k \in Gated THEN "settling" ELSE "submitting"
             status == IF outcome = "error" THEN "failed" ELSE run[s].status
             r == [pc |-> pc, key |-> k, status |-> status, outcome |-> outcome]
  <2>1. pc \in Pcs /\ status \in Statuses
    BY <1>0 DEF Pcs, Statuses
  <2>2. run' = [run EXCEPT ![s] = r]
    BY <1>8 DEF Execute
  <2>3. /\ executions' = [executions EXCEPT ![k] = executions[k] + 1]
        /\ UNCHANGED <<row, ledger, reservation, item>>
    BY <1>8 DEF Execute
  <2> HIDE DEF pc, status
  <2>4. r \in RunType
    BY <1>0, <2>1 DEF RunType
  <2> HIDE DEF r
  <2>5. QED
    BY <1>0, <2>2, <2>3, <2>4 DEF TypeOK
<1>9. UNCHANGED vars => TypeOK'
  BY DEF TypeOK, vars
<1>10. QED
  BY <1>1, <1>2, <1>3, <1>5, <1>7, <1>8, <1>9 DEF Next, RunStep

\* Every state of the router is well typed.
THEOREM TypeCorrect == Spec => []TypeOK
  BY TypeInit, TypeStep, PTL DEF Spec

-----------------------------------------------------------------------------
\* A step of one call changes its own record and the tables at its own key.
LocalStep(s, k, pc, status, outcome) ==
  /\ run' \in [Submissions -> RunType]
  /\ run'[s].pc = pc /\ run'[s].key = k
  /\ run'[s].status = status /\ run'[s].outcome = outcome
  /\ \A t \in Submissions : t # s => run'[t] = run[t]
  /\ \A j \in DedupKeys : j # k => /\ row'[j] = row[j] /\ reservation'[j] = reservation[j]
                                   /\ item'[j] = item[j] /\ executions'[j] = executions[j]

\* What a local step of an owner must establish at its own key.
LEMMA LocalPreserves ==
  ASSUME RouterInv, TypeOK', NEW s \in Submissions, NEW k \in DedupKeys,
         NEW pc \in Pcs \ {"idle", "replayed"}, NEW status, NEW outcome,
         LocalStep(s, k, pc, status, outcome),
         (Owner(s) /\ run[s].key = k) \/ row[k] = "none",
         row'[k] # "none", executions'[k] <= 1,
         Progress(s)', Earned(k, row[k])',
         k \in Ceo => item'[k] \in {"none", "recommendation"},
         item'[k] = "effect" => outcome = "result" /\ k \in WantsEffect
  PROVE  RouterInv'
<1>1. \A t \in Submissions : t # s /\ Owner(t) => run[t].key # k /\ run[t].key \in DedupKeys
  BY RunFacts DEF RouterInv, OneOwner
<1>2. \A t \in Submissions : t # s => (Owner(t)' <=> Owner(t)) /\ run'[t] = run[t]
  BY DEF LocalStep, Owner
<1>3. Owner(s)' /\ run'[s].key = k
  BY DEF LocalStep, Owner
<1>4. OneOwner'
  BY <1>1, <1>2, <1>3 DEF OneOwner, LocalStep, RouterInv
<1>5. ASSUME NEW t \in Submissions, t # s, Owner(t) PROVE Progress(t)'
  <2>1. /\ run[t].key \in DedupKeys /\ run[t].key # k
        /\ run'[t] = run[t] /\ Progress(t)
    BY <1>1, <1>2, <1>5 DEF RouterInv
  <2>2. QED
    BY <2>1 DEF Progress, LocalStep, Earned, Fresh, Held
<1>6. ASSUME NEW t \in Submissions, t # s, ~Owner(t) PROVE Progress(t)'
  BY <1>2, <1>6 DEF Progress, Owner
<1>7. \A j \in DedupKeys : Untouched(j)' /\ executions'[j] <= 1
  BY DEF RouterInv, Untouched, Fresh, LocalStep
<1>8. StatusIsEarned'
  BY DEF RouterInv, StatusIsEarned, Earned, LocalStep
<1>9. NoUnearnedEffect'
  <2> SUFFICES ASSUME NEW t \in Submissions, NEW j \in DedupKeys, Owns(t, j)'
               PROVE  /\ j \in Ceo => item'[j] \in {"none", "recommendation"}
                      /\ item'[j] = "effect" => run'[t].outcome = "result" /\ j \in WantsEffect
    BY DEF NoUnearnedEffect
  <2>1. CASE t = s
    BY <1>3, <2>1 DEF LocalStep, Owns
  <2>2. CASE t # s
    <3>1. Owner(t) /\ run'[t] = run[t] /\ run[t].key = j
      BY <1>2, <2>2 DEF Owns, Owner
    <3>2. j # k /\ item'[j] = item[j] /\ Owns(t, j)
      BY <1>1, <2>2, <3>1 DEF LocalStep, Owns, Owner
    <3>3. QED
      BY <3>1, <3>2 DEF RouterInv, NoUnearnedEffect
  <2>3. QED
    BY <2>1, <2>2
<1>10. QED
  BY <1>4, <1>5, <1>6, <1>7, <1>8, <1>9 DEF RouterInv

\* Each action keeps the invariant: it is local, and Progress holds at its end.
LEMMA RouterStep == RouterInv /\ [Next]_vars => RouterInv'
<1> SUFFICES ASSUME RouterInv, [Next]_vars PROVE RouterInv'
  OBVIOUS
<1>0. TypeOK /\ TypeOK'
  BY TypeStep DEF RouterInv
<1>a. ASSUME NEW s \in Submissions
      PROVE  /\ run[s].pc \in Pcs /\ run[s].key \in DedupKeys /\ run[s].status \in Statuses
             /\ run[s].outcome \in Outcomes /\ Progress(s) /\ Earned(run[s].key, row[run[s].key])
             /\ executions[run[s].key] \in {0, 1}
             /\ Owner(s) => /\ row[run[s].key] # "none"
                            /\ run[s].key \in Ceo => item[run[s].key] \in {"none", "recommendation"}
                            /\ item[run[s].key] = "effect" =>
                                 run[s].outcome = "result" /\ run[s].key \in WantsEffect
  BY <1>0, RunFacts DEF RouterInv, StatusIsEarned, OneOwner, NoUnearnedEffect, Owns, Owner, TypeOK
<1>b. ASSUME NEW s \in Submissions, NEW pc \in Pcs, NEW status \in Statuses, Continue(s, pc, status)
      PROVE  /\ run' \in [Submissions -> RunType]
             /\ run'[s].pc = pc /\ run'[s].key = run[s].key
             /\ run'[s].status = status /\ run'[s].outcome = run[s].outcome
             /\ \A t \in Submissions : t # s => run'[t] = run[t]
  BY <1>0, <1>b, RunFacts
<1>1. ASSUME NEW s \in Submissions, NEW k \in DedupKeys, Create(s, k) PROVE RouterInv'
  <2>1. /\ LocalStep(s, k, "append", "pending", "none")
        /\ row[k] = "none" /\ row'[k] = "pending"
        /\ reservation'[k] = "none" /\ item'[k] = "none" /\ executions'[k] = 0
    BY <1>0, <1>1 DEF Create, Begin, LocalStep, TypeOK, RouterInv, Untouched, Fresh
  <2>2. Progress(s)' /\ Earned(k, row[k])'
    BY <2>1 DEF Progress, Earned, LocalStep, Fresh, Held
  <2>3. QED
    BY <1>0, <2>1, <2>2, LocalPreserves DEF Pcs
<1>2. ASSUME NEW s \in Submissions, NEW k \in DedupKeys, Replay(s, k) PROVE RouterInv'
  <2>1. /\ run'[s].pc = "replayed" /\ run[s].pc = "idle"
        /\ \A t \in Submissions : t # s => run'[t] = run[t]
        /\ UNCHANGED <<row, ledger, reservation, item, executions>>
    BY <1>0, <1>2 DEF Replay, Begin, TypeOK
  <2>2. \A t \in Submissions : Owner(t)' => Owner(t) /\ run'[t] = run[t]
    BY <2>1 DEF Owner
  <2>3. OneOwner'
    BY <2>1, <2>2 DEF RouterInv, OneOwner
  <2>4. ASSUME NEW t \in Submissions PROVE Progress(t)'
    <3>1. CASE t = s
      BY <2>1, <3>1 DEF Progress
    <3>2. CASE t # s
      BY <1>a, <2>1, <3>2 DEF Progress, Earned, Fresh, Held
    <3>3. QED
      BY <3>1, <3>2
  <2>5. NoUnearnedEffect'
    BY <2>1, <2>2 DEF RouterInv, NoUnearnedEffect, Owns, Owner
  <2>6. QED
    BY <1>0, <2>1, <2>3, <2>4, <2>5 DEF RouterInv, StatusIsEarned, Earned, Untouched, Fresh
<1>3. ASSUME NEW s \in Submissions, AppendLedger(s) PROVE RouterInv'
  <2>0. PICK k \in DedupKeys : k = run[s].key
    BY <1>a
  <2> DEFINE ungated == run[s].status = "pending" /\ k \notin Gated
             pc == IF ungated THEN "save"
                   ELSE IF run[s].status = "pending" THEN "gating"
                   ELSE IF run[s].status = "in_progress" THEN "executing" ELSE "returned"
             status == IF ungated THEN "in_progress" ELSE run[s].status
  <2>1. pc \in Pcs \ {"idle", "replayed"} /\ status \in Statuses
    BY <1>a DEF Pcs, Statuses
  <2>2. Continue(s, pc, status) /\ UNCHANGED <<row, reservation, item, executions>>
        /\ run[s].pc = "append"
    BY <1>3, <2>0 DEF AppendLedger
  <2>3. LocalStep(s, k, pc, status, run[s].outcome)
    BY <1>b, <2>0, <2>1, <2>2 DEF LocalStep
  <2>4. Progress(s)'
    <3>1. /\ run[s].key = k /\ row'[k] = row[k] /\ row[k] = run[s].status
          /\ reservation'[k] = reservation[k] /\ item'[k] = item[k] /\ executions'[k] = executions[k]
          /\ Earned(k, run[s].status)
          /\ run[s].status = "pending" => Fresh(k) /\ reservation[k] = "none"
          /\ run[s].status = "in_progress" => Fresh(k) /\ Held(k)
      BY <1>a, <2>0, <2>2 DEF Progress
    <3>2. /\ run'[s].key = k /\ run'[s].pc = pc /\ run'[s].status = status
      BY <2>3 DEF LocalStep
    <3> HIDE DEF pc, status
    <3>3. CASE ungated
      <4>1. pc = "save" /\ status = "in_progress"
        BY <3>3 DEF pc, status
      <4>2. row[k] = "pending" /\ Fresh(k) /\ Held(k)
        BY <3>1, <3>3 DEF Held
      <4>3. QED
        BY <3>1, <3>2, <4>1, <4>2 DEF Progress, Earned, Fresh, Held
    <3>4. CASE run[s].status = "pending" /\ k \in Gated
      <4>1. pc = "gating" /\ status = "pending"
        BY <3>4 DEF pc, status
      <4>2. QED
        BY <3>1, <3>2, <3>4, <4>1 DEF Progress, Fresh
    <3>5. CASE run[s].status = "in_progress"
      <4>1. pc = "executing" /\ status = "in_progress"
        BY <3>5 DEF pc, status
      <4>2. QED
        BY <3>1, <3>2, <3>5, <4>1 DEF Progress, Fresh, Held
    <3>6. CASE run[s].status \notin {"pending", "in_progress"}
      <4>1. pc = "returned"
        BY <3>6 DEF pc
      <4>2. QED
        BY <3>2, <4>1 DEF Progress
    <3>7. QED
      BY <3>3, <3>4, <3>5, <3>6
  <2>5. Owner(s) /\ Earned(k, row[k])'
    BY <1>a, <2>0, <2>2 DEF Owner, Earned
  <2> HIDE DEF pc, status, ungated
  <2>6. QED
    BY <1>0, <1>a, <2>0, <2>1, <2>2, <2>3, <2>5, <2>4, LocalPreserves
<1>4. ASSUME NEW s \in Submissions, SaveTask(s) PROVE RouterInv'
  <2>0. PICK k \in DedupKeys : k = run[s].key
    BY <1>a
  <2>1. /\ run[s].pc = "save" /\ Owner(s) /\ row'[k] = run[s].status
        /\ \A j \in DedupKeys : j # k => row'[j] = row[j]
        /\ UNCHANGED <<reservation, item, executions>>
        /\ Continue(s, "append", run[s].status)
    BY <1>0, <1>4, <2>0 DEF SaveTask, TypeOK, Owner
  <2>2. LocalStep(s, k, "append", run[s].status, run[s].outcome)
    BY <1>a, <1>b, <2>0, <2>1 DEF LocalStep, Pcs
  <2>3. Progress(s)' /\ Earned(k, row[k])'
    BY <1>a, <2>0, <2>1, <2>2 DEF Progress, LocalStep, Earned, Fresh, Held
  <2>4. QED
    BY <1>0, <1>a, <2>0, <2>1, <2>2, <2>3, LocalPreserves DEF Pcs, Statuses
<1>5. ASSUME NEW s \in Submissions, Release(s) PROVE RouterInv'
  <2>0. PICK k \in DedupKeys : k = run[s].key
    BY <1>a
  <2>1. /\ run[s].pc = "releasing" /\ Owner(s) /\ reservation'[k] = "released"
        /\ \A j \in DedupKeys : j # k => reservation'[j] = reservation[j]
        /\ UNCHANGED <<row, item, executions>>
        /\ Continue(s, "save", run[s].status)
    BY <1>0, <1>5, <2>0 DEF Release, TypeOK, Owner
  <2>2. LocalStep(s, k, "save", run[s].status, run[s].outcome)
    BY <1>a, <1>b, <2>0, <2>1 DEF LocalStep, Pcs
  <2>3. Progress(s)' /\ Earned(k, row[k])'
    BY <1>a, <2>0, <2>1, <2>2 DEF Progress, LocalStep, Earned, Fresh, Held
  <2>4. QED
    BY <1>0, <1>a, <2>0, <2>1, <2>2, <2>3, LocalPreserves DEF Pcs
<1>6. ASSUME NEW s \in Submissions, Settle(s) PROVE RouterInv'
  <2>0. PICK k \in DedupKeys : k = run[s].key
    BY <1>a
  <2>1. /\ run[s].pc = "settling" /\ Owner(s) /\ reservation'[k] = "settled"
        /\ \A j \in DedupKeys : j # k => reservation'[j] = reservation[j]
        /\ UNCHANGED <<row, item, executions>>
        /\ Continue(s, "submitting", run[s].status)
    BY <1>0, <1>6, <2>0 DEF Settle, TypeOK, Owner
  <2>2. LocalStep(s, k, "submitting", run[s].status, run[s].outcome)
    BY <1>a, <1>b, <2>0, <2>1 DEF LocalStep, Pcs
  <2>3. Progress(s)' /\ Earned(k, row[k])'
    BY <1>a, <2>0, <2>1, <2>2 DEF Progress, LocalStep, Earned, Fresh, Held
  <2>4. QED
    BY <1>0, <1>a, <2>0, <2>1, <2>2, <2>3, LocalPreserves DEF Pcs
<1>7. ASSUME NEW s \in Submissions, GateGrants(s) PROVE RouterInv'
  <2>0. PICK k \in DedupKeys : k = run[s].key
    BY <1>a
  <2>1. /\ run[s].pc = "gating" /\ Owner(s) /\ reservation'[k] = "reserved"
        /\ \A j \in DedupKeys : j # k => reservation'[j] = reservation[j]
        /\ UNCHANGED <<row, item, executions>>
        /\ Continue(s, "save", "in_progress")
    BY <1>0, <1>7, <2>0 DEF GateGrants, TypeOK, Owner
  <2>2. LocalStep(s, k, "save", "in_progress", run[s].outcome)
    BY <1>a, <1>b, <2>0, <2>1 DEF LocalStep, Pcs, Statuses
  <2>3. Progress(s)' /\ Earned(k, row[k])'
    BY <1>a, <2>0, <2>1, <2>2 DEF Progress, LocalStep, Earned, Fresh, Held
  <2>4. QED
    BY <1>0, <1>a, <2>0, <2>1, <2>2, <2>3, LocalPreserves DEF Pcs
<1>8. ASSUME NEW s \in Submissions, NEW status \in {"queued", "skipped"}, GateRefuses(s, status)
      PROVE  RouterInv'
  <2>0. PICK k \in DedupKeys : k = run[s].key
    BY <1>a
  <2>1. /\ run[s].pc = "gating" /\ Owner(s)
        /\ UNCHANGED <<row, reservation, item, executions>>
        /\ Continue(s, "save", status)
    BY <1>8 DEF GateRefuses, Owner
  <2>2. LocalStep(s, k, "save", status, run[s].outcome)
    BY <1>a, <1>b, <2>0, <2>1 DEF LocalStep, Pcs, Statuses
  <2>3. Progress(s)' /\ Earned(k, row[k])'
    BY <1>a, <2>0, <2>1, <2>2 DEF Progress, LocalStep, Earned, Fresh, Held
  <2>4. QED
    BY <1>0, <1>a, <2>0, <2>1, <2>2, <2>3, LocalPreserves DEF Pcs
<1>9. ASSUME NEW s \in Submissions, NEW outcome \in Outcomes \ {"none"}, Execute(s, outcome)
      PROVE  RouterInv'
  <2>0. PICK k \in DedupKeys : k = run[s].key
    BY <1>a
  <2> DEFINE pc == IF outcome = "error" THEN IF k \in Gated THEN "releasing" ELSE "save"
                   ELSE IF k \in Gated THEN "settling" ELSE "submitting"
             status == IF outcome = "error" THEN "failed" ELSE run[s].status
             r == [pc |-> pc, key |-> k, status |-> status, outcome |-> outcome]
  <2>1. run' = [run EXCEPT ![s] = r]
    BY <1>9, <2>0 DEF Execute
  <2>2. pc \in Pcs \ {"idle", "replayed"}
    BY DEF Pcs
  <2>3. r.pc = pc /\ r.key = k /\ r.status = status /\ r.outcome = outcome
    OBVIOUS
  <2>4. /\ run[s].pc = "executing" /\ Owner(s) /\ executions'[k] = executions[k] + 1
        /\ \A j \in DedupKeys : j # k => executions'[j] = executions[j]
        /\ UNCHANGED <<row, reservation, item>>
    BY <1>0, <1>9, <2>0 DEF Execute, TypeOK, Owner
  <2>5. LocalStep(s, k, pc, status, outcome)
    <3> HIDE DEF r
    <3>1. run' \in [Submissions -> RunType] /\ run'[s] = r
          /\ \A t \in Submissions : t # s => run'[t] = run[t]
      BY <1>0, <2>1 DEF TypeOK
    <3>2. QED
      BY <2>3, <2>4, <3>1 DEF LocalStep
  <2>6. executions'[k] = 1 /\ item'[k] = "none"
    BY <1>a, <2>0, <2>4 DEF Progress, Fresh
  <2>7. Progress(s)' /\ Earned(k, row[k])'
    BY <1>a, <2>0, <2>4, <2>5, <2>6 DEF Progress, LocalStep, Earned, Fresh, Held, Outcomes
  <2> HIDE DEF pc, status, r
  <2>8. QED
    BY <1>0, <1>a, <2>0, <2>2, <2>4, <2>5, <2>6, <2>7, LocalPreserves
<1>10. ASSUME NEW s \in Submissions, SubmitRecommendation(s) \/ SubmitQueued(s) \/ SubmitPasses(s)
       PROVE  RouterInv'
  <2>0. PICK k \in DedupKeys : k = run[s].key
    BY <1>a
  <2>1. PICK status \in {"awaiting_review", "completed"} : Continue(s, "save", status)
            /\ item'[k] \in IF status = "completed" THEN {"passed"}
                            ELSE {"recommendation", "draft", "effect"}
    BY <1>0, <1>10, <2>0 DEF SubmitRecommendation, SubmitQueued, SubmitPasses, TypeOK
  <2>2. /\ run[s].pc = "submitting" /\ Owner(s)
        /\ \A j \in DedupKeys : j # k => item'[j] = item[j]
        /\ UNCHANGED <<row, reservation, executions>>
    BY <1>0, <1>10, <2>0 DEF SubmitRecommendation, SubmitQueued, SubmitPasses, TypeOK, Owner
  <2>3. LocalStep(s, k, "save", status, run[s].outcome)
    BY <1>a, <1>b, <2>0, <2>1, <2>2 DEF LocalStep, Pcs, Statuses
  <2>4. Progress(s)' /\ Earned(k, row[k])'
    BY <1>a, <2>0, <2>1, <2>2, <2>3 DEF Progress, LocalStep, Earned, Fresh, Held
  <2>5. run[s].outcome \in {"result", "draft"}
    BY <1>a, <2>2 DEF Progress
  <2>6. /\ k \in Ceo => item'[k] \in {"none", "recommendation"}
        /\ item'[k] = "effect" => run[s].outcome = "result" /\ k \in WantsEffect
    BY <1>0, <1>10, <2>0, <2>5
       DEF SubmitRecommendation, SubmitQueued, SubmitPasses, TypeOK, EffectiveEffect
  <2>7. QED
    BY <1>0, <1>a, <2>0, <2>1, <2>2, <2>3, <2>4, <2>6, LocalPreserves DEF Pcs
<1>11. ASSUME NEW s \in Submissions, Interrupt(s) PROVE RouterInv'
  <2>0. PICK k \in DedupKeys : k = run[s].key
    BY <1>a
  <2>1. /\ run[s].pc \in Running /\ Owner(s)
        /\ UNCHANGED <<row, reservation, item, executions>>
        /\ Continue(s, "interrupted", run[s].status)
    BY <1>11 DEF Interrupt, Owner, Running
  <2>2. LocalStep(s, k, "interrupted", run[s].status, run[s].outcome)
    BY <1>a, <1>b, <2>0, <2>1 DEF LocalStep, Pcs
  <2>3. Progress(s)' /\ Earned(k, row[k])'
    BY <1>a, <2>0, <2>1, <2>2 DEF Progress, LocalStep, Earned
  <2>4. QED
    BY <1>0, <1>a, <2>0, <2>1, <2>2, <2>3, LocalPreserves DEF Pcs
<1>12. CASE UNCHANGED vars
  BY <1>0, <1>12 DEF RouterInv, vars, OneOwner, Owner, Progress, Earned, Fresh, Held, Untouched,
     StatusIsEarned, NoUnearnedEffect, Owns
<1>13. QED
  BY <1>1, <1>2, <1>3, <1>4, <1>5, <1>6, <1>7, <1>8, <1>9, <1>10, <1>11, <1>12 DEF Next, RunStep

\* Before the first submission no task has an owner or a row.
LEMMA RouterInit == Init => RouterInv
<1> SUFFICES ASSUME Init PROVE RouterInv
  OBVIOUS
<1>1. \A s \in Submissions : ~Owner(s) /\ run[s].pc = "idle"
  BY DEF Init, Owner
<1>2. QED
  BY <1>1, TypeInit DEF Init, RouterInv, OneOwner, Progress, Untouched, Fresh, StatusIsEarned,
     Earned, NoUnearnedEffect, Owns, Owner

\* The router's inductive invariant holds in every reachable state.
LEMMA Invariance == Spec => []RouterInv
  BY RouterInit, RouterStep, PTL DEF Spec

\* However many calls race for or retry a dedup key, one of them owns its task
\* and the executor is started at most once.
THEOREM ExecutedOnce == Spec => []ExecutedAtMostOnce
<1>1. RouterInv => ExecutedAtMostOnce
  BY DEF RouterInv, OneOwner, ExecutedAtMostOnce, Owns, Owner
<1>2. QED
  BY <1>1, Invariance, PTL

\* A saved status is backed by the reservation, the run and the queue item it
\* claims.
THEOREM StatusHonest == Spec => []StatusIsEarned
<1>1. RouterInv => StatusIsEarned
  BY DEF RouterInv
<1>2. QED
  BY <1>1, Invariance, PTL

\* No CEO task and no run with missing Hands proposes an effect.
THEOREM EffectsEarned == Spec => []NoUnearnedEffect
<1>1. RouterInv => NoUnearnedEffect
  BY DEF RouterInv
<1>2. QED
  BY <1>1, Invariance, PTL

\* The saved status only moves along the lifecycle; a final one stays.
THEOREM StatusLifecycle == Spec => StatusMovesForward
<1>1. RouterInv /\ [Next]_vars =>
        [\A k \in DedupKeys : row'[k] = row[k] \/ <<row[k], row'[k]>> \in Moves]_vars
  <2> SUFFICES ASSUME RouterInv, Next, NEW k \in DedupKeys
               PROVE  row'[k] = row[k] \/ <<row[k], row'[k]>> \in Moves
    BY DEF vars
  <2>1. ASSUME NEW s \in Submissions, NEW j \in DedupKeys, Create(s, j)
        PROVE  row'[k] = row[k] \/ <<row[k], row'[k]>> \in Moves
    BY <2>1 DEF Create, RouterInv, TypeOK, Moves
  <2>2. ASSUME NEW s \in Submissions, SaveTask(s)
        PROVE  row'[k] = row[k] \/ <<row[k], row'[k]>> \in Moves
    <3>1. run[s].key \in DedupKeys /\ run[s].status \in Statuses /\ Progress(s)
      BY RunFacts DEF RouterInv
    <3>2. /\ run[s].pc = "save"
          /\ row'[k] = row[k] \/ (k = run[s].key /\ row'[k] = run[s].status)
      BY <2>2 DEF SaveTask, RouterInv, TypeOK
    <3>3. QED
      BY <3>1, <3>2 DEF Progress, Moves, Statuses
  <2>3. row' = row => row'[k] = row[k]
    OBVIOUS
  <2>4. QED
    BY <2>1, <2>2, <2>3 DEF Next, RunStep, Replay, AppendLedger, GateGrants, GateRefuses,
       Execute, Release, Settle, SubmitRecommendation, SubmitQueued, SubmitPasses, Interrupt
<1>2. QED
  BY <1>1, Invariance, PTL DEF Spec, StatusMovesForward

-----------------------------------------------------------------------------
(* The ledger, and who still holds a reservation.                            *)

\* The entry of the ledger a status becomes, at most once per run.
Position(status) ==
  IF status = "pending" THEN 1
  ELSE IF status \in {"in_progress", "queued", "skipped"} THEN 2 ELSE 3

\* The ledger of a task lags its row by the entry still to append, and is level with
\* it at every other await.
Recorded(s) ==
  LET k == run[s].key
      n == Len(ledger[k])
  IN /\ run[s].pc = "append" => n = Position(row[k]) - 1
     /\ run[s].pc \notin {"append", "interrupted"} =>
          n = Position(row[k]) /\ ledger[k][n] = row[k]
     /\ run[s].pc = "returned" => row[k] \in Final

\* Every task that was created keeps its owner, and the owner its place in the ledger.
HistoryInv ==
  /\ \A k \in DedupKeys : row[k] = "none" => ledger[k] = <<>>
  /\ \A k \in DedupKeys : row[k] # "none" => \E s \in Submissions : Owner(s) /\ run[s].key = k
  /\ \A s \in Submissions : Owner(s) => Recorded(s)

\* A step of the run of task k leaves the owners and the histories of the others alone.
LEMMA OthersHistory ==
  ASSUME RouterInv, RouterInv', HistoryInv, NEW s \in Submissions, NEW k \in DedupKeys,
         Owner(s)', run'[s].key = k, Owner(s) => run[s].key = k,
         \A t \in Submissions : t # s => run'[t] = run[t],
         \A j \in DedupKeys : j # k => row'[j] = row[j] /\ ledger'[j] = ledger[j],
         Recorded(s)'
  PROVE  HistoryInv'
<1>1. row'[k] # "none"
  BY DEF RouterInv, OneOwner
<1>2. ASSUME NEW t \in Submissions, t # s, Owner(t)' PROVE Recorded(t)'
  <2>1. /\ Owner(t) /\ Recorded(t) /\ run'[t] = run[t]
        /\ run[t].key \in DedupKeys /\ run[t].key # k
    BY <1>2, RunFacts DEF Owner, HistoryInv, RouterInv, OneOwner
  <2>2. QED
    BY <2>1 DEF Recorded
<1>3. ASSUME NEW j \in DedupKeys, row'[j] # "none"
      PROVE  \E t \in Submissions : Owner(t)' /\ run'[t].key = j
  <2>1. CASE j = k
    BY <2>1
  <2>2. CASE j # k
    <3>1. PICK t \in Submissions : Owner(t) /\ run[t].key = j
      BY <1>3, <2>2 DEF HistoryInv
    <3>2. t # s
      BY <2>2, <3>1
    <3>3. QED
      BY <3>1, <3>2 DEF Owner
  <2>3. QED
    BY <2>1, <2>2
<1>4. QED
  BY <1>1, <1>2, <1>3 DEF HistoryInv

\* Each await keeps the ledger level with the row.
LEMMA HistoryStep == RouterInv /\ RouterInv' /\ HistoryInv /\ [Next]_vars => HistoryInv'
<1> SUFFICES ASSUME RouterInv, RouterInv', HistoryInv, [Next]_vars PROVE HistoryInv'
  OBVIOUS
<1>0. TypeOK /\ TypeOK'
  BY DEF RouterInv
<1>a. ASSUME NEW s \in Submissions
      PROVE  /\ run[s].pc \in Pcs /\ run[s].key \in DedupKeys /\ run[s].status \in Statuses
             /\ Progress(s) /\ (Owner(s) => Recorded(s))
             /\ row[run[s].key] \in Statuses \cup {"none"}
             /\ ledger[run[s].key] \in Seq(Statuses)
             /\ Owner(s) => row[run[s].key] # "none"
  BY <1>0, RunFacts DEF RouterInv, HistoryInv, OneOwner, TypeOK
<1>b. ASSUME NEW s \in Submissions, NEW pc \in Pcs, NEW status \in Statuses, Continue(s, pc, status)
      PROVE  /\ run'[s].pc = pc /\ run'[s].key = run[s].key
             /\ \A t \in Submissions : t # s => run'[t] = run[t]
  BY <1>0, <1>b, RunFacts
<1>1. ASSUME NEW s \in Submissions, NEW k \in DedupKeys, Create(s, k) PROVE HistoryInv'
  <2>1. /\ run'[s].pc = "append" /\ run'[s].key = k /\ run[s].pc = "idle"
        /\ \A t \in Submissions : t # s => run'[t] = run[t]
        /\ row[k] = "none" /\ row'[k] = "pending" /\ ledger' = ledger
        /\ \A j \in DedupKeys : j # k => row'[j] = row[j]
    BY <1>0, <1>1 DEF Create, Begin, TypeOK
  <2>2. Len(ledger[k]) = 0
    BY <2>1 DEF HistoryInv
  <2>3. Owner(s)' /\ ~Owner(s) /\ Recorded(s)'
    BY <2>1, <2>2 DEF Owner, Recorded, Position
  <2>4. QED
    BY <2>1, <2>3, OthersHistory
<1>2. ASSUME NEW s \in Submissions, NEW k \in DedupKeys, Replay(s, k) PROVE HistoryInv'
  <2>1. /\ run'[s].pc = "replayed" /\ run[s].pc = "idle"
        /\ \A t \in Submissions : t # s => run'[t] = run[t]
        /\ row' = row /\ ledger' = ledger
    BY <1>0, <1>2 DEF Replay, Begin, TypeOK
  <2>2. ~Owner(s) /\ ~Owner(s)' /\ \A t \in Submissions : Owner(t)' <=> Owner(t)
    BY <2>1 DEF Owner
  <2>3. \A t \in Submissions : Owner(t)' => Recorded(t)'
    BY <2>1, <2>2 DEF HistoryInv, Recorded
  <2>4. QED
    BY <2>1, <2>2, <2>3 DEF HistoryInv
<1>3. ASSUME NEW s \in Submissions, AppendLedger(s) PROVE HistoryInv'
  <2>0. PICK k \in DedupKeys : k = run[s].key
    BY <1>a
  <2> DEFINE ungated == run[s].status = "pending" /\ k \notin Gated
             pc == IF ungated THEN "save"
                   ELSE IF run[s].status = "pending" THEN "gating"
                   ELSE IF run[s].status = "in_progress" THEN "executing" ELSE "returned"
             status == IF ungated THEN "in_progress" ELSE run[s].status
  <2>1. pc \in Pcs \ {"idle", "replayed", "append"} /\ status \in Statuses
    BY <1>a DEF Pcs, Statuses
  <2>2. /\ Continue(s, pc, status) /\ row' = row /\ run[s].pc = "append"
        /\ ledger' = [ledger EXCEPT ![k] = Append(@, run[s].status)]
    BY <1>3, <2>0 DEF AppendLedger
  <2>3. pc = "returned" => run[s].status \in Final
    BY <1>a DEF Statuses, Final
  <2> HIDE DEF pc, status, ungated
  <2>4. /\ run'[s].pc = pc /\ run'[s].key = k
        /\ \A t \in Submissions : t # s => run'[t] = run[t]
    BY <1>b, <2>0, <2>1, <2>2
  <2>5. row[k] = run[s].status /\ Owner(s) /\ Len(ledger[k]) = Position(row[k]) - 1
    BY <1>a, <2>0, <2>2 DEF Progress, Owner, Recorded
  <2>6. /\ ledger'[k] = Append(ledger[k], row[k])
        /\ \A j \in DedupKeys : j # k => ledger'[j] = ledger[j]
    BY <1>0, <2>2, <2>5 DEF TypeOK
  <2>7. /\ Len(ledger'[k]) = Position(row[k])
        /\ ledger'[k][Len(ledger'[k])] = row[k]
    BY <1>a, <2>0, <2>5, <2>6 DEF Position
  <2>8. Owner(s)' /\ Recorded(s)'
    BY <2>1, <2>2, <2>3, <2>4, <2>5, <2>7 DEF Owner, Recorded
  <2>9. QED
    BY <2>0, <2>2, <2>4, <2>6, <2>8, OthersHistory
<1>4. ASSUME NEW s \in Submissions, SaveTask(s) PROVE HistoryInv'
  <2>0. PICK k \in DedupKeys : k = run[s].key
    BY <1>a
  <2>1. /\ run[s].pc = "save" /\ Owner(s) /\ row'[k] = run[s].status
        /\ \A j \in DedupKeys : j # k => row'[j] = row[j]
        /\ ledger' = ledger /\ Continue(s, "append", run[s].status)
    BY <1>0, <1>4, <2>0 DEF SaveTask, TypeOK, Owner
  <2>2. /\ run'[s].pc = "append" /\ run'[s].key = k
        /\ \A t \in Submissions : t # s => run'[t] = run[t]
    BY <1>a, <1>b, <2>0, <2>1 DEF Pcs
  <2>3. Len(ledger[k]) = Position(row[k]) /\ Position(row[k]) = Position(row'[k]) - 1
    BY <1>a, <2>0, <2>1 DEF Recorded, Progress, Position, Statuses
  <2>4. Owner(s)' /\ Recorded(s)'
    BY <2>1, <2>2, <2>3 DEF Owner, Recorded
  <2>5. QED
    BY <2>0, <2>1, <2>2, <2>4, OthersHistory
<1>5. ASSUME NEW s \in Submissions, row' = row, ledger' = ledger,
             run[s].pc \in Running \ {"append"}, run'[s].key = run[s].key,
             run'[s].pc \in (Running \ {"append"}) \cup {"interrupted"},
             \A t \in Submissions : t # s => run'[t] = run[t]
      PROVE  HistoryInv'
  <2>1. Owner(s) /\ Owner(s)' /\ Recorded(s)
    BY <1>5 DEF Owner, Running, HistoryInv
  <2>2. Recorded(s)'
    BY <1>5, <2>1 DEF Recorded, Running
  <2>3. QED
    BY <1>a, <1>5, <2>1, <2>2, OthersHistory
<1>6. ASSUME NEW s \in Submissions,
             \/ GateGrants(s) \/ \E status \in {"queued", "skipped"} : GateRefuses(s, status)
             \/ Release(s) \/ Settle(s)
             \/ SubmitRecommendation(s) \/ SubmitQueued(s) \/ SubmitPasses(s)
      PROVE  HistoryInv'
  <2>1. PICK pc \in {"save", "submitting"}, status \in Statuses : Continue(s, pc, status)
    BY <1>a, <1>6 DEF GateGrants, GateRefuses, Release, Settle, SubmitRecommendation, SubmitQueued,
       SubmitPasses, Statuses
  <2>2. row' = row /\ ledger' = ledger /\ run[s].pc \in {"gating", "releasing", "settling", "submitting"}
    BY <1>6 DEF GateGrants, GateRefuses, Release, Settle, SubmitRecommendation, SubmitQueued,
       SubmitPasses
  <2>3. pc \in Pcs /\ pc \in Running \ {"append"} /\ run[s].pc \in Running \ {"append"}
    BY <2>2 DEF Pcs, Running
  <2>4. QED
    BY <1>b, <1>5, <2>1, <2>2, <2>3
<1>7. ASSUME NEW s \in Submissions, NEW outcome \in Outcomes \ {"none"}, Execute(s, outcome)
      PROVE  HistoryInv'
  <2> DEFINE pc == IF outcome = "error" THEN IF run[s].key \in Gated THEN "releasing" ELSE "save"
                   ELSE IF run[s].key \in Gated THEN "settling" ELSE "submitting"
             status == IF outcome = "error" THEN "failed" ELSE run[s].status
             r == [pc |-> pc, key |-> run[s].key, status |-> status, outcome |-> outcome]
  <2>1. run' = [run EXCEPT ![s] = r] /\ row' = row /\ ledger' = ledger /\ run[s].pc = "executing"
    BY <1>7 DEF Execute
  <2>2. r.pc \in Running \ {"append"} /\ r.key = run[s].key
    BY DEF Running, Pcs
  <2> HIDE DEF r
  <2>3. run'[s] = r /\ \A t \in Submissions : t # s => run'[t] = run[t]
    BY <1>0, <2>1 DEF TypeOK
  <2>4. run[s].pc \in Running \ {"append"}
    BY <2>1 DEF Running, Pcs
  <2>5. /\ run'[s].pc \in (Running \ {"append"}) \cup {"interrupted"}
        /\ run'[s].key = run[s].key
    BY <2>2, <2>3
  <2>6. row' = row /\ ledger' = ledger
    BY <1>7 DEF Execute
  <2> HIDE DEF pc, status
  <2>7. QED
    BY <1>5, <2>3, <2>4, <2>5, <2>6
<1>8. ASSUME NEW s \in Submissions, Interrupt(s) PROVE HistoryInv'
  <2>1. /\ run[s].pc \in Running /\ row' = row /\ ledger' = ledger
        /\ Continue(s, "interrupted", run[s].status)
    BY <1>8 DEF Interrupt
  <2>2. /\ run'[s].pc = "interrupted" /\ run'[s].key = run[s].key
        /\ \A t \in Submissions : t # s => run'[t] = run[t]
    BY <1>a, <1>b, <2>1 DEF Pcs
  <2>3. Owner(s) /\ Owner(s)' /\ Recorded(s)'
    BY <2>1, <2>2 DEF Owner, Running, Recorded
  <2>4. QED
    BY <1>a, <2>1, <2>2, <2>3, OthersHistory
<1>9. CASE UNCHANGED vars
  BY <1>9 DEF vars, HistoryInv, Recorded, Owner
<1>10. QED
  BY <1>1, <1>2, <1>3, <1>4, <1>6, <1>7, <1>8, <1>9 DEF Next, RunStep

\* The histories start empty, and stay in step with the rows.
LEMMA HistoryInvariance == Spec => []HistoryInv
<1>1. Init => HistoryInv
  BY DEF Init, HistoryInv, Owner
<1>2. QED
  BY <1>1, HistoryStep, Invariance, PTL DEF Spec

\* Whenever submitTask returns a task it created, the row is final and the ledger holds
\* exactly the entries the dispatcher's meter bills for that status, the last of them
\* the status itself; before that it lags by at most the entry still to append.
THEOREM LedgerTellsRun == Spec => []LedgerAccountsForRun
<1>1. TypeOK /\ RouterInv /\ HistoryInv => LedgerAccountsForRun
  <2> SUFFICES ASSUME TypeOK, RouterInv, HistoryInv, NEW s \in Submissions, NEW k \in DedupKeys,
                      Owns(s, k)
               PROVE  /\ run[s].pc = "returned" =>
                           /\ row[k] \in Final
                           /\ Len(ledger[k]) = LedgerRowsFor(row[k])
                           /\ ledger[k][Len(ledger[k])] = row[k]
                      /\ run[s].pc # "append" /\ run[s].pc # "interrupted" =>
                           ledger[k] # <<>> /\ ledger[k][Len(ledger[k])] = row[k]
    BY DEF LedgerAccountsForRun
  <2>1. Recorded(s) /\ run[s].key = k
    BY DEF HistoryInv, Owner, Owns
  <2>2. Position(row[k]) > 0 /\ (row[k] \in Final => LedgerRowsFor(row[k]) = Position(row[k]))
    BY DEF Position, LedgerRowsFor, Final, Statuses
  <2>3. QED
    BY <2>1, <2>2 DEF Recorded
<1>2. RouterInv => TypeOK
  BY DEF RouterInv
<1>3. QED
  BY <1>1, <1>2, Invariance, HistoryInvariance, PTL

\* A reservation is only outstanding while the run that will settle or release it is
\* under way or was interrupted: none outlives a run that returned.
THEOREM ReservationsOwned == Spec => []ReservationHeld
<1>1. RouterInv /\ HistoryInv => ReservationHeld
  <2> SUFFICES ASSUME RouterInv, HistoryInv, NEW k \in DedupKeys, reservation[k] = "reserved"
               PROVE  \E s \in Submissions : Owns(s, k) /\ run[s].pc \in Running \cup {"interrupted"}
    BY DEF ReservationHeld
  <2>1. row[k] # "none"
    BY DEF RouterInv, Untouched
  <2>2. PICK s \in Submissions : Owner(s) /\ run[s].key = k
    BY <2>1 DEF HistoryInv
  <2>3. row[k] \notin Final
    BY DEF RouterInv, StatusIsEarned, Earned, Final, Statuses
  <2>4. run[s].pc \in Pcs /\ run[s].pc # "returned"
    BY <2>2, <2>3, RunFacts DEF HistoryInv, Recorded, RouterInv
  <2>5. QED
    BY <2>2, <2>4 DEF Owner, Owns, Running
<1>2. QED
  BY <1>1, Invariance, HistoryInvariance, PTL
=============================================================================
