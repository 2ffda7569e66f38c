------------------------ MODULE ApprovalQueueProofs ------------------------
(***************************************************************************)
(* Proofs about ApprovalQueue, for every set of actions, recommendations,  *)
(* task types and requests and every threshold.                            *)
(***************************************************************************)
EXTENDS ApprovalQueue, FiniteSetTheorems, TLAPS

\* A request that won the conditional UPDATE.
Won(q) == request[q].pc \notin {"idle", "refused"}

\* A winning request's item is resolved, with its verdict while it still acts.
RequestLinked(q) ==
  /\ Won(q) => item[request[q].target].status = "resolved"
  /\ request[q].pc \in {"committed", "recording"} =>
       /\ request[q].target \in Actions
       /\ item[request[q].target].verdict = request[q].verdict
  /\ request[q].pc = "committed" => sends[request[q].target] = 0
  /\ request[q].pc = "recording" => request[q].verdict # "REJECT"

\* At most one request wins an item.
OneWinner ==
  \A p, q \in Requests : Won(p) /\ Won(q) /\ request[p].target = request[q].target => p = q

\* The row of an action exists iff it was enqueued, has a verdict iff it was
\* resolved, and its effect ran at most once and only after approval.
ActionLinked(a) ==
  /\ item[a].status # "none" <=> submission[a].pc = "queued"
  /\ item[a].verdict # "none" <=> item[a].status = "resolved"
  /\ sends[a] \in {0, 1}
  /\ sends[a] = 1 => a \in HasEffect /\ item[a].verdict \in {"APPROVE", "MODIFY"}

QueueInv ==
  /\ TypeOK
  /\ \A q \in Requests : RequestLinked(q)
  /\ OneWinner
  /\ \A a \in Actions : ActionLinked(a)

-----------------------------------------------------------------------------
\* The empty tables and idle requests are well typed.
LEMMA TypeInit == Init => TypeOK
<1> SUFFICES ASSUME Init PROVE TypeOK
  OBVIOUS
<1>1. (CHOOSE x \in Items : TRUE) \in Items
  BY QueueAssumption DEF Items
<1>2. QED
  BY <1>1 DEF Init, TypeOK, SubmissionType, ItemType, AutonomyType, RequestType, Verdicts

\* Each action keeps every table and program counter in its type.
LEMMA TypeStep == TypeOK /\ [Next]_vars => TypeOK'
<1> SUFFICES ASSUME TypeOK, [Next]_vars PROVE TypeOK'
  OBVIOUS
<1> USE DEF TypeOK
<1>1. ASSUME NEW a \in Actions, ReadAutonomy(a) PROVE TypeOK'
  <2> DEFINE act == autonomy[TaskTypeOf[a]].active /\ a \notin Denied
  <2>1. act \in BOOLEAN
    OBVIOUS
  <2> HIDE DEF act
  <2>2. submission' = [submission EXCEPT ![a] = [pc |-> "decided", active |-> act]]
    BY <1>1 DEF ReadAutonomy, act
  <2>3. QED
    BY <1>1, <2>1, <2>2 DEF ReadAutonomy, SubmissionType
<1>2. ASSUME NEW a \in Actions, Bypass(a) PROVE TypeOK'
  BY <1>2 DEF Bypass, SubmissionType
<1>3. ASSUME NEW a \in Actions, Enqueue(a) PROVE TypeOK'
  BY <1>3 DEF Enqueue, SubmissionType, ItemType, Items
<1>4. ASSUME NEW a \in Actions, SubmissionInterrupted(a) PROVE TypeOK'
  BY <1>4 DEF SubmissionInterrupted, SubmissionType
<1>5. ASSUME NEW x \in Recommendations, SubmitRecommendation(x) PROVE TypeOK'
  BY <1>5 DEF SubmitRecommendation, ItemType, Items
<1>6. ASSUME NEW q \in Requests, NEW x \in Items, NEW kind \in Kinds, NEW v \in Verdicts,
             ResolveCommit(q, x, kind, v)
      PROVE  TypeOK'
  <2> DEFINE given == IF kind = "action" THEN v ELSE item[x].verdict
             next == IF kind = "action" THEN "committed" ELSE "done"
  <2>1. given \in Verdicts \cup {"none"} /\ next \in {"committed", "done"}
    BY DEF ItemType
  <2>2. /\ item' = [item EXCEPT ![x].status = "resolved", ![x].verdict = given]
        /\ request' = [request EXCEPT ![q] = [pc |-> next, target |-> x, verdict |-> v]]
    BY <1>6 DEF ResolveCommit
  <2> HIDE DEF given, next
  <2>3. item' \in [Items -> ItemType]
    BY <2>1, <2>2 DEF ItemType
  <2>4. request' \in [Requests -> RequestType]
    BY <2>1, <2>2 DEF RequestType
  <2>5. QED
    BY <1>6, <2>3, <2>4 DEF ResolveCommit
<1>7. ASSUME NEW q \in Requests, NEW x \in Items, NEW kind \in Kinds, NEW v \in Verdicts,
             ResolveRefused(q, x, kind, v)
      PROVE  TypeOK'
  BY <1>7 DEF ResolveRefused, RequestType
<1>8. ASSUME NEW q \in Requests, NoEffect(q) PROVE TypeOK'
  BY <1>8 DEF NoEffect, RequestType
<1>9. ASSUME NEW q \in Requests, NEW sent \in BOOLEAN, ExecuteEffect(q, sent) PROVE TypeOK'
  <2>1. request[q].target \in Actions
    BY <1>9, QueueAssumption DEF ExecuteEffect
  <2>2. QED
    BY <1>9, <2>1 DEF ExecuteEffect, RequestType
<1>10. ASSUME NEW q \in Requests, EffectThrows(q) PROVE TypeOK'
  BY <1>10 DEF EffectThrows, RequestType
<1>11. ASSUME NEW q \in Requests, RecordApproval(q) PROVE TypeOK'
  <2>1. \A s \in AutonomyType : Approved(s) \in AutonomyType
    BY DEF Approved, AutonomyType
  <2>2. autonomy' \in [TaskTypes -> AutonomyType]
    BY <1>11, <2>1 DEF RecordApproval
  <2>3. QED
    BY <1>11, <2>2 DEF RecordApproval, RequestType
<1>12. ASSUME NEW q \in Requests, RecordRejection(q) PROVE TypeOK'
  BY <1>12 DEF RecordRejection, AutonomyType, RequestType
<1>13. ASSUME NEW q \in Requests, RecordSpotCheckRejection(q) PROVE TypeOK'
  BY <1>13 DEF RecordSpotCheckRejection, AutonomyType, RequestType
<1>14. ASSUME NEW q \in Requests, RequestInterrupted(q) PROVE TypeOK'
  BY <1>14 DEF RequestInterrupted, RequestType
<1>15. ASSUME NEW t \in TaskTypes, AcceptOffer(t) PROVE TypeOK'
  BY <1>15 DEF AcceptOffer, AutonomyType
<1>16. ASSUME NEW T \in SUBSET TaskTypes, Revoke(T) PROVE TypeOK'
  BY <1>16 DEF Revoke, AutonomyType
<1>17. CASE UNCHANGED vars
  BY <1>17 DEF vars
<1>18. QED
  BY <1>1, <1>2, <1>3, <1>4, <1>5, <1>6, <1>7, <1>8, <1>9, <1>10, <1>11, <1>12, <1>13,
     <1>14, <1>15, <1>16, <1>17 DEF Next, SubmitStep, ResolveStep

\* Every reachable state of the queue is well typed.
THEOREM TypeCorrect == Spec => []TypeOK
  BY TypeInit, TypeStep, PTL DEF Spec

-----------------------------------------------------------------------------
(* One winner, effects, items.                                               *)

\* Before anything is submitted the queue invariant holds trivially.
LEMMA QueueInit == Init => QueueInv
<1> SUFFICES ASSUME Init PROVE QueueInv
  OBVIOUS
<1>1. TypeOK
  BY TypeInit
<1>2. \A a \in Actions : ActionLinked(a)
  BY DEF Init, ActionLinked, Items
<1>3. OneWinner /\ \A q \in Requests : RequestLinked(q)
  BY DEF Init, OneWinner, Won, RequestLinked
<1>4. QED
  BY <1>1, <1>2, <1>3 DEF QueueInv

\* Every action keeps one winner per item and every effect behind its verdict.
LEMMA QueueStep == QueueInv /\ [Next]_vars => QueueInv'
<1> SUFFICES ASSUME QueueInv, [Next]_vars PROVE QueueInv'
  OBVIOUS
<1>0. /\ TypeOK /\ TypeOK'
      /\ \A q \in Requests : RequestLinked(q) /\ request[q] \in RequestType
      /\ OneWinner
      /\ \A a \in Actions : ActionLinked(a) /\ item[a] \in ItemType
  BY TypeStep DEF QueueInv, TypeOK, Items
<1> USE DEF TypeOK
<1>1. ASSUME UNCHANGED <<request, sends>>,
             \A x \in Items : item[x].status = "resolved" => item'[x] = item[x],
             \A a \in Actions : ActionLinked(a)'
      PROVE  QueueInv'
  BY <1>0, <1>1 DEF QueueInv, OneWinner, RequestLinked, Won, RequestType
<1>2. ASSUME NEW b \in Actions, SubmitStep(b) \/ SubmissionInterrupted(b)
      PROVE  QueueInv'
  <2>1. \A x \in Items : item[x].status = "resolved" => item'[x] = item[x]
    BY <1>0, <1>2 DEF SubmitStep, SubmissionInterrupted, ReadAutonomy, Bypass, Enqueue,
       ActionLinked
  <2>2. ASSUME NEW a \in Actions PROVE ActionLinked(a)'
    BY <1>0, <1>2 DEF SubmitStep, SubmissionInterrupted, ReadAutonomy, Bypass, Enqueue,
       ActionLinked, Items, SubmissionType
  <2>3. QED
    BY <1>1, <1>2, <2>1, <2>2 DEF SubmitStep, SubmissionInterrupted, ReadAutonomy, Bypass, Enqueue
<1>3. ASSUME NEW x \in Recommendations, SubmitRecommendation(x) PROVE QueueInv'
  <2>1. \A a \in Actions : item'[a] = item[a]
    BY <1>3, QueueAssumption DEF SubmitRecommendation, Items
  <2>2. ASSUME NEW a \in Actions PROVE ActionLinked(a)'
    BY <1>0, <1>3, <2>1 DEF SubmitRecommendation, ActionLinked
  <2>3. QED
    BY <1>1, <1>3, <2>2 DEF SubmitRecommendation
<1>4. ASSUME NEW q \in Requests, NEW x \in Items, NEW kind \in Kinds, NEW v \in Verdicts,
             ResolveCommit(q, x, kind, v)
      PROVE  QueueInv'
  <2>1. /\ item[x].status = "pending" /\ item'[x].status = "resolved"
        /\ kind = "action" <=> x \in Actions
        /\ item'[x].verdict = IF kind = "action" THEN v ELSE item[x].verdict
        /\ \A y \in Items : y # x => item'[y] = item[y]
        /\ request'[q] = [pc |-> IF kind = "action" THEN "committed" ELSE "done",
                          target |-> x, verdict |-> v]
        /\ \A p \in Requests : p # q => request'[p] = request[p]
        /\ request[q].pc = "idle" /\ UNCHANGED <<submission, autonomy, sends>>
    BY <1>0, <1>4 DEF ResolveCommit, Matches, ItemType, Kinds
  <2>2. \A p \in Requests : Won(p) => request[p].target # x
    BY <1>0, <2>1 DEF RequestLinked
  <2>3. OneWinner'
    BY <1>0, <2>1, <2>2 DEF OneWinner, Won
  <2>4. ASSUME NEW p \in Requests PROVE RequestLinked(p)'
    <3>1. CASE p = q
      BY <1>0, <2>1, <3>1 DEF RequestLinked, Won, ActionLinked, Verdicts
    <3>2. CASE p # q
      BY <1>0, <2>1, <2>2, <3>2 DEF RequestLinked, Won, RequestType
    <3>3. QED
      BY <3>1, <3>2
  <2>5. ASSUME NEW a \in Actions PROVE ActionLinked(a)'
    BY <1>0, <2>1 DEF ActionLinked, Items, Verdicts
  <2>6. QED
    BY <1>0, <2>3, <2>4, <2>5 DEF QueueInv
<1>5. ASSUME NEW q \in Requests, NEW x \in Items, NEW kind \in Kinds, NEW v \in Verdicts,
             ResolveRefused(q, x, kind, v)
      PROVE  QueueInv'
  <2>1. /\ \A p \in Requests : p # q => request'[p] = request[p]
        /\ request'[q].pc = "refused" /\ UNCHANGED <<submission, item, autonomy, sends>>
    BY <1>0, <1>5 DEF ResolveRefused, RequestType
  <2>2. QED
    BY <1>0, <2>1 DEF QueueInv, OneWinner, RequestLinked, Won, ActionLinked
<1>6. ASSUME NEW q \in Requests, Won(q), Won(q)', UNCHANGED <<submission, item>>,
             request'[q].target = request[q].target,
             request'[q].verdict = request[q].verdict,
             \A p \in Requests : p # q => request'[p] = request[p],
             \A a \in Actions : ActionLinked(a)', RequestLinked(q)',
             \A a \in Actions : a # request[q].target => sends'[a] = sends[a]
      PROVE  QueueInv'
  <2>1. OneWinner'
    BY <1>0, <1>6 DEF OneWinner, Won
  <2>2. ASSUME NEW p \in Requests, p # q PROVE RequestLinked(p)'
    <3>1. request'[p] = request[p] /\ item' = item
      BY <1>6, <2>2
    <3>2. request[p].pc = "committed" =>
            /\ request[p].target # request[q].target
            /\ request[p].target \in Actions /\ sends[request[p].target] = 0
      BY <1>0, <1>6, <2>2 DEF OneWinner, Won, RequestLinked
    <3>3. QED
      BY <1>0, <1>6, <3>1, <3>2 DEF RequestLinked, Won
  <2>3. QED
    BY <1>0, <1>6, <2>1, <2>2 DEF QueueInv
<1>7. ASSUME NEW q \in Requests,
             \/ NoEffect(q) \/ EffectThrows(q) \/ RecordApproval(q) \/ RecordRejection(q)
             \/ RecordSpotCheckRejection(q) \/ RequestInterrupted(q)
      PROVE  QueueInv'
  <2>1. /\ UNCHANGED <<submission, item, sends>>
        /\ \E p \in {"recording", "effectThrew", "done", "interrupted"} :
             /\ request' = [request EXCEPT ![q].pc = p]
             /\ p = "recording" => request[q].verdict # "REJECT" /\ request[q].pc = "committed"
        /\ request[q].pc \in {"committed", "recording"}
    BY <1>7 DEF NoEffect, EffectThrows, RecordApproval, RecordRejection,
       RecordSpotCheckRejection, RequestInterrupted
  <2>2. \A a \in Actions : ActionLinked(a)'
    BY <1>0, <2>1 DEF ActionLinked
  <2>3. RequestLinked(q)' /\ Won(q) /\ Won(q)'
    BY <1>0, <2>1 DEF RequestLinked, Won, RequestType
  <2>4. QED
    BY <1>0, <1>6, <2>1, <2>2, <2>3 DEF RequestType
<1>8. ASSUME NEW q \in Requests, NEW sent \in BOOLEAN, ExecuteEffect(q, sent) PROVE QueueInv'
  <2> DEFINE b == request[q].target
  <2>1. /\ b \in Actions /\ b \in HasEffect /\ sends[b] = 0
        /\ item[b].verdict \in {"APPROVE", "MODIFY"}
    BY <1>0, <1>8, QueueAssumption DEF ExecuteEffect, RequestLinked, RequestType, Verdicts
  <2>2. /\ UNCHANGED <<submission, item>> /\ request' = [request EXCEPT ![q].pc = "recording"]
        /\ sends'[b] \in {0, 1} /\ \A a \in Actions : a # b => sends'[a] = sends[a]
        /\ request[q].pc = "committed" /\ request[q].verdict # "REJECT"
    BY <1>8, <2>1 DEF ExecuteEffect
  <2>3. ASSUME NEW a \in Actions PROVE ActionLinked(a)'
    BY <1>0, <2>1, <2>2 DEF ActionLinked
  <2>4. RequestLinked(q)' /\ Won(q) /\ Won(q)'
    BY <1>0, <2>2 DEF RequestLinked, Won, RequestType
  <2>5. QED
    BY <1>0, <1>6, <2>2, <2>3, <2>4 DEF RequestType
<1>9. ASSUME UNCHANGED <<submission, item, request, sends>> PROVE QueueInv'
  BY <1>0, <1>9 DEF QueueInv, OneWinner, RequestLinked, Won, ActionLinked
<1>10. QED
  BY <1>2, <1>3, <1>4, <1>5, <1>7, <1>8, <1>9
     DEF Next, ResolveStep, AcceptOffer, Revoke, vars

\* However requests race, are duplicated or disagree, and wherever processes
\* stop: an effect runs at most once and only after a human approved the item.
THEOREM EffectSafety == Spec => []EffectOnlyAfterApproval
<1>1. QueueInv => EffectOnlyAfterApproval
  BY DEF QueueInv, ActionLinked, EffectOnlyAfterApproval
<1>2. QED
  BY <1>1, QueueInit, QueueStep, PTL DEF Spec

-----------------------------------------------------------------------------
(* Earned autonomy.                                                          *)

\* Approvals, rejections, accepts and revocations preserve the correspondence
\* between streak and offer.
LEMMA OfferStep == TypeOK /\ OfferMatchesStreak /\ [Next]_vars => OfferMatchesStreak'
<1> SUFFICES ASSUME TypeOK, OfferMatchesStreak, [Next]_vars PROVE OfferMatchesStreak'
  OBVIOUS
<1> DEFINE Ok(s) == /\ s.offered => s.count >= OfferThreshold
                    /\ ~s.active /\ s.count >= OfferThreshold => s.offered
           Reset(b) == [count |-> 0, active |-> b, offered |-> FALSE]
<1>1. /\ OfferThreshold \in Nat /\ OfferThreshold > 0
      /\ \A t \in TaskTypes : autonomy[t] \in AutonomyType /\ Ok(autonomy[t])
  BY QueueAssumption DEF TypeOK, OfferMatchesStreak
<1>2. SUFFICES ASSUME NEW t \in TaskTypes PROVE Ok(autonomy'[t])
  BY DEF OfferMatchesStreak
<1>3. \A s \in AutonomyType : Ok(s) => Ok(Approved(s))
  <2> SUFFICES ASSUME NEW s \in AutonomyType, Ok(s) PROVE Ok(Approved(s))
    OBVIOUS
  <2>1. s.count \in Nat /\ Approved(s).count = s.count + 1 /\ Approved(s).active = s.active
    BY DEF AutonomyType, Approved
  <2>2. Approved(s).offered <=> (s.offered \/ (s.count + 1 = OfferThreshold /\ ~s.active))
    BY DEF AutonomyType, Approved
  <2>3. QED
    BY <1>1, <2>1, <2>2
<1>4. \A b \in BOOLEAN : Ok(Reset(b))
  BY <1>1
<1>5. ASSUME NEW q \in Requests, RecordApproval(q) PROVE Ok(autonomy'[t])
  <2>1. autonomy'[t] \in {autonomy[t], Approved(autonomy[t])}
    BY <1>5 DEF RecordApproval, TypeOK
  <2>2. QED
    BY <1>1, <1>3, <2>1
<1>6. ASSUME NEW q \in Requests, RecordRejection(q) \/ RecordSpotCheckRejection(q)
      PROVE  Ok(autonomy'[t])
  <2>1. \/ autonomy'[t] = autonomy[t]
        \/ autonomy'[t] = Reset(autonomy[t].active)
        \/ autonomy'[t] = Reset(FALSE)
    BY <1>6 DEF RecordRejection, RecordSpotCheckRejection, TypeOK
  <2>2. autonomy[t].active \in BOOLEAN
    BY <1>1 DEF AutonomyType
  <2>3. QED
    BY <1>1, <1>4, <2>1, <2>2
<1>7. ASSUME NEW u \in TaskTypes, AcceptOffer(u) PROVE Ok(autonomy'[t])
  <2>1. CASE t = u
    <3>1. /\ autonomy'[t].offered = autonomy[t].offered /\ autonomy'[t].count = autonomy[t].count
          /\ autonomy'[t].active = TRUE
      BY <1>1, <1>7, <2>1 DEF AcceptOffer, TypeOK, AutonomyType
    <3>2. QED
      BY <1>1, <3>1
  <2>2. CASE t # u
    BY <1>1, <1>7, <2>2 DEF AcceptOffer, TypeOK
  <2>3. QED
    BY <2>1, <2>2
<1>8. ASSUME NEW T \in SUBSET TaskTypes, Revoke(T) PROVE Ok(autonomy'[t])
  <2>1. autonomy'[t] = autonomy[t] \/ autonomy'[t] = Reset(FALSE)
    BY <1>8 DEF Revoke
  <2>2. QED
    BY <1>1, <1>4, <2>1
<1>9. autonomy' = autonomy => Ok(autonomy'[t])
  BY <1>1
<1> HIDE DEF Ok
<1>10. QED
  BY <1>5, <1>6, <1>7, <1>8, <1>9 DEF Next, SubmitStep, ResolveStep, ReadAutonomy, Bypass,
     Enqueue, SubmissionInterrupted, SubmitRecommendation, ResolveCommit, ResolveRefused,
     NoEffect, ExecuteEffect, EffectThrows, RequestInterrupted, vars

\* No offer is lost and none is stale, for every threshold and any number of
\* concurrent verdicts.
THEOREM OfferSafety == Spec => []OfferMatchesStreak
<1>1. Init => OfferMatchesStreak
  BY QueueAssumption DEF Init, OfferMatchesStreak
<1>2. QED
  BY <1>1, OfferStep, TypeInit, TypeStep, PTL DEF Spec

\* Approvals whose recordApproval has committed.
Recorded(t) ==
  {a \in ApprovedActions(t) :
     \E q \in Requests : request[q].target = a /\ request[q].pc = "done"}

Threshold(t) == Cardinality(ApprovedActions(t)) >= OfferThreshold

\* The streak counts different recorded approvals; an offer, an autonomous task
\* type and a submission that saw one all stand on enough approvals.
Earned(t) ==
  /\ autonomy[t].count <= Cardinality(Recorded(t))
  /\ autonomy[t].offered = TRUE => Threshold(t)
  /\ autonomy[t].active = TRUE => Threshold(t)

SawEarned(a) ==
  /\ submission[a].active = TRUE => Threshold(TaskTypeOf[a]) /\ a \notin Denied
  /\ submission[a].pc = "new" => submission[a].active = FALSE
  /\ submission[a].pc = "bypassed" => submission[a].active = TRUE /\ a \notin HasEffect

EarnedInv == (\A t \in TaskTypes : Earned(t)) /\ (\A a \in Actions : SawEarned(a))

\* The counting sets are finite.
LEMMA CountsFinite ==
  \A t : /\ IsFiniteSet(ApprovedActions(t)) /\ IsFiniteSet(Recorded(t))
         /\ Cardinality(ApprovedActions(t)) \in Nat /\ Cardinality(Recorded(t)) \in Nat
         /\ Cardinality(Recorded(t)) <= Cardinality(ApprovedActions(t))
<1> SUFFICES ASSUME NEW t
             PROVE  /\ IsFiniteSet(ApprovedActions(t)) /\ IsFiniteSet(Recorded(t))
                    /\ Cardinality(ApprovedActions(t)) \in Nat /\ Cardinality(Recorded(t)) \in Nat
                    /\ Cardinality(Recorded(t)) <= Cardinality(ApprovedActions(t))
  OBVIOUS
<1>1. ApprovedActions(t) \subseteq Actions /\ Recorded(t) \subseteq ApprovedActions(t)
  BY DEF ApprovedActions, Recorded
<1>2. IsFiniteSet(ApprovedActions(t))
  BY <1>1, FS_Subset, QueueAssumption
<1>3. QED
  BY <1>1, <1>2, FS_Subset, FS_CardinalityType

\* A verdict, once given, stays; a request that is done stays done.
LEMMA VerdictsStay ==
  ASSUME QueueInv, [Next]_vars
  PROVE  /\ \A a \in Actions : item[a].verdict # "none" => item'[a].verdict = item[a].verdict
         /\ \A q \in Requests : request[q].pc = "done" => request'[q] = request[q]
<1>0. /\ \A a \in Actions : ActionLinked(a) /\ item[a] \in ItemType
      /\ item \in [Items -> ItemType]
      /\ \A q \in Requests : request[q] \in RequestType
      /\ request \in [Requests -> RequestType]
  BY DEF QueueInv, TypeOK, Items
<1>1. ASSUME NEW b \in Actions, SubmitStep(b) \/ SubmissionInterrupted(b)
      PROVE  /\ \A a \in Actions : item[a].verdict # "none" => item'[a] = item[a]
             /\ request' = request
  BY <1>0, <1>1 DEF SubmitStep, SubmissionInterrupted, ReadAutonomy, Bypass, Enqueue,
     ActionLinked, Items
<1>2. ASSUME NEW x \in Recommendations, SubmitRecommendation(x)
      PROVE  /\ \A a \in Actions : item'[a] = item[a]
             /\ request' = request
  BY <1>0, <1>2, QueueAssumption DEF SubmitRecommendation, Items
<1>3. ASSUME NEW q \in Requests, NEW x \in Items, NEW kind \in Kinds, NEW v \in Verdicts,
             ResolveCommit(q, x, kind, v)
      PROVE  /\ \A a \in Actions : item[a].verdict # "none" => item'[a] = item[a]
             /\ \A p \in Requests : request[p].pc = "done" => request'[p] = request[p]
  <2>1. item[x].status = "pending" /\ \A y \in Items : y # x => item'[y] = item[y]
    BY <1>0, <1>3 DEF ResolveCommit, Matches
  <2>2. request[q].pc = "idle" /\ \A p \in Requests : p # q => request'[p] = request[p]
    BY <1>0, <1>3 DEF ResolveCommit
  <2>3. QED
    BY <1>0, <2>1, <2>2 DEF ActionLinked, Items
<1>4. ASSUME NEW q \in Requests, NEW x \in Items, NEW kind \in Kinds, NEW v \in Verdicts,
             ResolveRefused(q, x, kind, v)
      PROVE  item' = item /\ \A p \in Requests : request[p].pc = "done" => request'[p] = request[p]
  BY <1>0, <1>4 DEF ResolveRefused
<1>5. ASSUME NEW q \in Requests, ResolveStep(q) \/ RequestInterrupted(q)
      PROVE  item' = item /\ \A p \in Requests : request[p].pc = "done" => request'[p] = request[p]
  BY <1>0, <1>5 DEF ResolveStep, RequestInterrupted, NoEffect, ExecuteEffect, EffectThrows,
     RecordApproval, RecordRejection, RecordSpotCheckRejection
<1>6. ASSUME UNCHANGED <<item, request>>
      PROVE  item' = item /\ request' = request
  BY <1>6
<1>7. QED
  BY <1>1, <1>2, <1>3, <1>4, <1>5, <1>6 DEF Next, AcceptOffer, Revoke, vars

\* So the approvals behind a streak and a threshold only grow.
LEMMA ApprovalsGrow ==
  ASSUME QueueInv, [Next]_vars, NEW t
  PROVE  /\ ApprovedActions(t) \subseteq ApprovedActions(t)'
         /\ Recorded(t) \subseteq Recorded(t)'
         /\ Cardinality(Recorded(t)) <= Cardinality(Recorded(t)')
         /\ Threshold(t) => Threshold(t)'
<1>1. ApprovedActions(t) \subseteq ApprovedActions(t)'
  BY VerdictsStay DEF ApprovedActions
<1>2. Recorded(t) \subseteq Recorded(t)'
  BY <1>1, VerdictsStay DEF Recorded
<1>3. IsFiniteSet(ApprovedActions(t)') /\ IsFiniteSet(Recorded(t)')
  <2>1. ApprovedActions(t)' \subseteq Actions /\ Recorded(t)' \subseteq Actions
    BY DEF ApprovedActions, Recorded
  <2>2. QED
    BY <2>1, FS_Subset, QueueAssumption
<1>4. /\ Cardinality(Recorded(t)) <= Cardinality(Recorded(t)')
      /\ Cardinality(ApprovedActions(t)) <= Cardinality(ApprovedActions(t)')
  BY <1>1, <1>2, <1>3, FS_Subset
<1>5. /\ Cardinality(ApprovedActions(t)) \in Nat /\ Cardinality(ApprovedActions(t)') \in Nat
      /\ OfferThreshold \in Nat
  BY <1>3, CountsFinite, FS_CardinalityType, QueueAssumption
<1>6. QED
  BY <1>1, <1>2, <1>4, <1>5 DEF Threshold

\* Before any approval every streak is 0 and nothing is autonomous.
LEMMA EarnedInit == Init => EarnedInv
<1> SUFFICES ASSUME Init PROVE EarnedInv
  OBVIOUS
<1>1. ASSUME NEW t \in TaskTypes PROVE Earned(t)
  BY CountsFinite DEF Init, Earned
<1>2. ASSUME NEW a \in Actions PROVE SawEarned(a)
  BY DEF Init, SawEarned
<1>3. QED
  BY <1>1, <1>2 DEF EarnedInv

\* recordApproval of a request counts an action no earlier request counted.
LEMMA ApprovalCounts ==
  ASSUME QueueInv, EarnedInv, NEW q \in Requests, RecordApproval(q),
         request[q].target \notin Denied,
         NEW t \in TaskTypes, t = TaskTypeOf[request[q].target]
  PROVE  Earned(t)'
<1>0. PICK a \in Actions : a = request[q].target
  BY DEF QueueInv, RequestLinked, RecordApproval
<1>1. t = TaskTypeOf[a]
  BY <1>0
<1>2. /\ a \in ApprovedActions(t) /\ a \in ApprovedActions(t)' /\ a \notin Recorded(t)
      /\ a \in Recorded(t)'
  <2>1. /\ request[q].pc = "recording" /\ item[a].verdict \in {"APPROVE", "MODIFY"}
        /\ item' = item /\ a \notin Denied
        /\ request'[q].target = a /\ request'[q].pc = "done"
    BY <1>0 DEF QueueInv, TypeOK, RequestLinked, RecordApproval, RequestType, Verdicts
  <2>2. \A p \in Requests : ~(request[p].target = a /\ request[p].pc = "done")
    BY <1>0, <2>1 DEF QueueInv, OneWinner, Won
  <2>3. QED
    BY <1>0, <1>1, <2>1, <2>2 DEF ApprovedActions, Recorded
<1>3. [Next]_vars
  BY DEF Next, ResolveStep
<1>4. /\ IsFiniteSet(Recorded(t)) /\ IsFiniteSet(Recorded(t)') /\ IsFiniteSet(ApprovedActions(t)')
      /\ Recorded(t)' \subseteq ApprovedActions(t)'
  <2>1. ApprovedActions(t)' \subseteq Actions /\ Recorded(t)' \subseteq ApprovedActions(t)'
    BY DEF ApprovedActions, Recorded
  <2>2. QED
    BY <2>1, CountsFinite, FS_Subset, QueueAssumption
<1>5. Cardinality(Recorded(t) \cup {a}) = Cardinality(Recorded(t)) + 1
  BY <1>2, <1>4, FS_AddElement
<1>6. Cardinality(Recorded(t) \cup {a}) <= Cardinality(Recorded(t)')
  <2>1. Recorded(t) \cup {a} \subseteq Recorded(t)'
    BY <1>2, <1>3, ApprovalsGrow
  <2>2. QED
    BY <1>4, <2>1, FS_Subset
<1>7. Cardinality(Recorded(t)') <= Cardinality(ApprovedActions(t)')
  BY <1>4, FS_Subset
<1>8. /\ autonomy'[t] = Approved(autonomy[t])
      /\ autonomy[t] \in AutonomyType
  BY <1>0, <1>1 DEF RecordApproval, QueueInv, TypeOK
<1>9. /\ autonomy[t].count \in Nat
      /\ autonomy'[t].count = autonomy[t].count + 1
      /\ autonomy'[t].active = autonomy[t].active
      /\ autonomy'[t].offered = TRUE =>
           autonomy[t].offered = TRUE \/ autonomy[t].count + 1 = OfferThreshold
  <2>1. autonomy[t].offered \in BOOLEAN /\ autonomy[t].count \in Nat
    BY <1>8 DEF AutonomyType
  <2>2. /\ autonomy'[t].count = autonomy[t].count + 1
        /\ autonomy'[t].active = autonomy[t].active
        /\ autonomy'[t].offered =
             (autonomy[t].offered \/ (autonomy[t].count + 1 = OfferThreshold /\ ~autonomy[t].active))
    BY <1>8 DEF Approved
  <2>3. QED
    BY <2>1, <2>2
<1>10. /\ Cardinality(Recorded(t)) \in Nat /\ Cardinality(Recorded(t)') \in Nat
       /\ Cardinality(ApprovedActions(t)') \in Nat /\ OfferThreshold \in Nat
  BY <1>4, FS_CardinalityType, QueueAssumption
<1>11. Earned(t)
  BY DEF EarnedInv
<1>12. autonomy'[t].count <= Cardinality(Recorded(t)')
  BY <1>5, <1>6, <1>9, <1>10, <1>11 DEF Earned
<1>13. Threshold(t) => Threshold(t)'
  BY <1>3, ApprovalsGrow
<1>14. autonomy[t].count + 1 = OfferThreshold => Threshold(t)'
  BY <1>7, <1>9, <1>10, <1>12 DEF Threshold
<1>15. QED
  BY <1>0, <1>1, <1>9, <1>11, <1>12, <1>13, <1>14 DEF Earned

\* Streaks, offers and autonomy stay earned through every step.
LEMMA EarnedStep == QueueInv /\ EarnedInv /\ [Next]_vars => EarnedInv'
<1> SUFFICES ASSUME QueueInv, EarnedInv, [Next]_vars PROVE EarnedInv'
  OBVIOUS
<1>0. /\ TypeOK /\ \A t \in TaskTypes : Earned(t) /\ autonomy[t] \in AutonomyType
      /\ \A a \in Actions : SawEarned(a)
      /\ \A t : /\ Cardinality(Recorded(t)) <= Cardinality(Recorded(t)')
                /\ Threshold(t) => Threshold(t)'
                /\ Cardinality(Recorded(t)) \in Nat /\ Cardinality(Recorded(t)') \in Nat
  <2>1. \A t : Cardinality(Recorded(t)) \in Nat /\ Cardinality(Recorded(t)') \in Nat
    <3>1. \A t : Recorded(t)' \subseteq Actions
      BY DEF Recorded, ApprovedActions
    <3>2. QED
      BY <3>1, CountsFinite, FS_Subset, FS_CardinalityType, QueueAssumption
  <2>2. QED
    BY <2>1, ApprovalsGrow DEF QueueInv, EarnedInv, TypeOK
<1>1. ASSUME NEW t \in TaskTypes, autonomy'[t] = autonomy[t] PROVE Earned(t)'
  <2>1. autonomy[t].count \in Nat
    BY <1>0 DEF AutonomyType
  <2>2. QED
    BY <1>0, <1>1, <2>1 DEF Earned
<1>2. ASSUME NEW t \in TaskTypes, NEW b \in {FALSE, autonomy[t].active},
             autonomy'[t] = [count |-> 0, active |-> b, offered |-> FALSE]
      PROVE  Earned(t)'
  <2>1. /\ autonomy'[t].count = 0 /\ autonomy'[t].offered = FALSE
        /\ autonomy'[t].active = b
    BY <1>2
  <2>2. b = TRUE => autonomy[t].active = TRUE
    BY <1>2
  <2>3. autonomy'[t].active = TRUE => Threshold(t)
    BY <1>0, <2>1, <2>2 DEF Earned
  <2>4. QED
    BY <1>0, <2>1, <2>3 DEF Earned
<1>3. ASSUME NEW a \in Actions, submission'[a].active = submission[a].active,
             submission'[a].pc = submission[a].pc \/ submission'[a].pc \in {"queued", "interrupted"}
      PROVE  SawEarned(a)'
  BY <1>0, <1>3, QueueAssumption DEF SawEarned
<1>4. ASSUME NEW b \in Actions, SubmitStep(b) \/ SubmissionInterrupted(b)
      PROVE  \A a \in Actions : SawEarned(a)'
  <2> SUFFICES ASSUME NEW a \in Actions PROVE SawEarned(a)'
    OBVIOUS
  <2>1. CASE a # b
    BY <1>0, <1>3, <1>4, <2>1 DEF SubmitStep, SubmissionInterrupted, ReadAutonomy, Bypass,
       Enqueue, TypeOK
  <2>2. CASE a = b /\ ReadAutonomy(b)
    <3>1. TaskTypeOf[b] \in TaskTypes
      BY QueueAssumption
    <3>2. /\ submission'[b].pc = "decided"
          /\ submission'[b].active = TRUE => autonomy[TaskTypeOf[b]].active = TRUE /\ b \notin Denied
      <4>1. autonomy[TaskTypeOf[b]].active \in BOOLEAN
        BY <1>0, <3>1 DEF AutonomyType
      <4>2. /\ submission'[b].pc = "decided"
            /\ submission'[b].active = (autonomy[TaskTypeOf[b]].active /\ b \notin Denied)
        BY <1>0, <2>2 DEF ReadAutonomy, TypeOK
      <4>3. QED
        BY <4>1, <4>2
    <3>3. QED
      BY <1>0, <2>2, <3>1, <3>2 DEF SawEarned, Earned
  <2>3. CASE a = b /\ Bypass(b)
    <3>1. submission[b].active \in BOOLEAN
      BY <1>0 DEF TypeOK, SubmissionType
    <3>2. /\ submission[b].active = TRUE /\ submission'[b].active = submission[b].active
          /\ submission'[b].pc = "bypassed" /\ b \notin HasEffect
      BY <1>0, <2>3, <3>1 DEF Bypass, TypeOK, SubmissionType
    <3>3. QED
      BY <1>0, <2>3, <3>2, QueueAssumption DEF SawEarned
  <2>4. CASE a = b /\ (Enqueue(b) \/ SubmissionInterrupted(b))
    <3>1. /\ submission'[b].active = submission[b].active
          /\ submission'[b].pc \in {"queued", "interrupted"}
      BY <1>0, <2>4 DEF Enqueue, SubmissionInterrupted, TypeOK, SubmissionType
    <3>2. QED
      BY <1>3, <2>4, <3>1
  <2>5. QED
    BY <1>4, <2>1, <2>2, <2>3, <2>4 DEF SubmitStep
<1>5. submission' = submission => \A a \in Actions : SawEarned(a)'
  BY <1>3
<1>6. ASSUME NEW q \in Requests, RecordApproval(q) PROVE \A t \in TaskTypes : Earned(t)'
  <2>1. CASE request[q].target \in Denied
    BY <1>1, <1>6, <2>1 DEF RecordApproval
  <2>2. CASE request[q].target \notin Denied
    <3>1. \A t \in TaskTypes : t # TaskTypeOf[request[q].target] => autonomy'[t] = autonomy[t]
      BY <1>0, <1>6, <2>2 DEF RecordApproval, TypeOK
    <3>2. QED
      BY <1>1, <1>6, <2>2, <3>1, ApprovalCounts
  <2>3. QED
    BY <2>1, <2>2
<1>7. ASSUME NEW q \in Requests, RecordRejection(q) \/ RecordSpotCheckRejection(q)
      PROVE  \A t \in TaskTypes : Earned(t)'
  <2>1. \A t \in TaskTypes :
          \/ autonomy'[t] = autonomy[t]
          \/ \E b \in {FALSE, autonomy[t].active} :
               autonomy'[t] = [count |-> 0, active |-> b, offered |-> FALSE]
    BY <1>0, <1>7 DEF RecordRejection, RecordSpotCheckRejection, TypeOK
  <2>2. QED
    BY <1>1, <1>2, <2>1
<1>8. ASSUME NEW u \in TaskTypes, AcceptOffer(u) PROVE \A t \in TaskTypes : Earned(t)'
  <2> SUFFICES ASSUME NEW t \in TaskTypes PROVE Earned(t)'
    OBVIOUS
  <2>1. CASE t = u
    <3>1. /\ autonomy'[t].count = autonomy[t].count /\ autonomy'[t].offered = autonomy[t].offered
          /\ autonomy[t].count \in Nat
      BY <1>0, <1>8, <2>1 DEF AcceptOffer, TypeOK, AutonomyType
    <3>2. autonomy[t].offered = TRUE
      BY <1>0, <1>8, <2>1 DEF AcceptOffer, AutonomyType
    <3>3. QED
      BY <1>0, <3>1, <3>2 DEF Earned
  <2>2. CASE t # u
    BY <1>0, <1>1, <1>8, <2>2 DEF AcceptOffer, TypeOK
  <2>3. QED
    BY <2>1, <2>2
<1>9. ASSUME NEW T \in SUBSET TaskTypes, Revoke(T) PROVE \A t \in TaskTypes : Earned(t)'
  <2>1. \A t \in TaskTypes :
          \/ autonomy'[t] = autonomy[t]
          \/ autonomy'[t] = [count |-> 0, active |-> FALSE, offered |-> FALSE]
    BY <1>9 DEF Revoke
  <2>2. QED
    BY <1>1, <1>2, <2>1
<1>10. autonomy' = autonomy => \A t \in TaskTypes : Earned(t)'
  BY <1>1
<1> DEFINE Standing == \A t \in TaskTypes : Earned(t)
           Seen == \A a \in Actions : SawEarned(a)
<1>11. Standing'
  BY <1>6, <1>7, <1>8, <1>9, <1>10 DEF Next, SubmitStep, ResolveStep, ReadAutonomy, Bypass,
     Enqueue, SubmissionInterrupted, SubmitRecommendation, ResolveCommit, ResolveRefused,
     NoEffect, ExecuteEffect, EffectThrows, RequestInterrupted, vars
<1>12. Seen'
  BY <1>4, <1>5 DEF Next, ResolveStep, SubmitRecommendation, ResolveCommit, ResolveRefused,
     NoEffect, ExecuteEffect, EffectThrows, RecordApproval, RecordRejection,
     RecordSpotCheckRejection, RequestInterrupted, AcceptOffer, Revoke, vars
<1>13. QED
  BY <1>11, <1>12 DEF EarnedInv

\* However verdicts race with offers, revocations and submissions: no task type
\* is autonomous and no action skips review without enough human approvals of
\* different actions.
THEOREM AutonomySafety == Spec => []AutonomyIsEarned
<1>1. QueueInv /\ EarnedInv => AutonomyIsEarned
  <2> SUFFICES ASSUME QueueInv, EarnedInv PROVE AutonomyIsEarned
    OBVIOUS
  <2>1. ASSUME NEW t \in TaskTypes, autonomy[t].active
        PROVE  Cardinality(ApprovedActions(t)) >= OfferThreshold
    <3>1. autonomy[t].active = TRUE
      BY <2>1 DEF QueueInv, TypeOK, AutonomyType
    <3>2. QED
      BY <3>1 DEF EarnedInv, Earned, Threshold
  <2>2. ASSUME NEW a \in Actions, submission[a].pc = "bypassed"
        PROVE  /\ Cardinality(ApprovedActions(TaskTypeOf[a])) >= OfferThreshold
               /\ a \notin Denied \cup HasEffect
    BY <2>2 DEF EarnedInv, SawEarned, Threshold
  <2>3. QED
    BY <2>1, <2>2 DEF AutonomyIsEarned
<1>2. QED
  BY <1>1, QueueInit, QueueStep, EarnedInit, EarnedStep, PTL DEF Spec

-----------------------------------------------------------------------------
(* Refinement.                                                               *)

\* An action whose row, submission and send count do not change does not move.
LEMMA LifeFrame ==
  ASSUME NEW a \in Actions, item'[a] = item[a], sends'[a] = sends[a],
         submission'[a].pc = "bypassed" <=> submission[a].pc = "bypassed"
  PROVE  LifeOf(a)' = LifeOf(a)
  BY DEF LifeOf

\* Each step of the queue is a step of the lifecycle or leaves it alone.
LEMMA LifeStep == QueueInv /\ [Next]_vars => [Life!LifeNext]_([a \in Actions |-> LifeOf(a)])
<1> SUFFICES ASSUME QueueInv, [Next]_vars
             PROVE  [Life!LifeNext]_([a \in Actions |-> LifeOf(a)])
  OBVIOUS
<1> DEFINE life == [a \in Actions |-> LifeOf(a)]
<1>0. /\ TypeOK
      /\ \A q \in Requests : RequestLinked(q) /\ request[q] \in RequestType
      /\ \A a \in Actions : /\ ActionLinked(a) /\ item[a] \in ItemType
                            /\ submission[a] \in SubmissionType
  BY DEF QueueInv, TypeOK, Items
<1>1. ASSUME NEW a \in Actions,
             \A b \in Actions : b # a => LifeOf(b)' = LifeOf(b)
      PROVE  life' = [life EXCEPT ![a] = LifeOf(a)']
  BY <1>1
<1>2. ASSUME \A b \in Actions : LifeOf(b)' = LifeOf(b)
      PROVE  life' = life
  BY <1>2
<1>3. ASSUME NEW a \in Actions, ReadAutonomy(a) \/ SubmissionInterrupted(a)
      PROVE  life' = life
  <2>1. ASSUME NEW b \in Actions PROVE LifeOf(b)' = LifeOf(b)
    BY <1>0, <1>3, LifeFrame DEF ReadAutonomy, SubmissionInterrupted, TypeOK, SubmissionType
  <2>2. QED
    BY <1>2, <2>1
<1>4. ASSUME NEW a \in Actions, Bypass(a) PROVE Life!Pass(a)
  <2>1. \A b \in Actions : b # a => LifeOf(b)' = LifeOf(b)
    BY <1>0, <1>4, LifeFrame DEF Bypass, TypeOK
  <2>2. /\ item[a].status = "none" /\ item[a].verdict = "none" /\ sends[a] = 0
        /\ item'[a] = item[a] /\ sends'[a] = 0
        /\ submission[a].pc = "decided" /\ submission'[a].pc = "bypassed"
    BY <1>0, <1>4 DEF Bypass, ActionLinked, ItemType, TypeOK, SubmissionType
  <2>3. LifeOf(a) = "new" /\ LifeOf(a)' = "unreviewed"
    BY <2>2 DEF LifeOf
  <2>4. QED
    BY <1>1, <1>4, <2>1, <2>3 DEF Life!Pass, Life!Move, Bypass
<1>5. ASSUME NEW a \in Actions, Enqueue(a) PROVE Life!Queue(a)
  <2>1. \A b \in Actions : b # a => LifeOf(b)' = LifeOf(b)
    BY <1>0, <1>5, LifeFrame DEF Enqueue, TypeOK, Items
  <2>2. /\ item[a].status = "none" /\ item[a].verdict = "none" /\ sends[a] = 0
        /\ item'[a].status = "pending" /\ item'[a].verdict = "none" /\ sends'[a] = 0
        /\ submission[a].pc = "decided"
    BY <1>0, <1>5 DEF Enqueue, ActionLinked, ItemType, TypeOK, Items
  <2>3. LifeOf(a) = "new" /\ LifeOf(a)' = "awaiting"
    BY <2>2 DEF LifeOf
  <2>4. QED
    BY <1>1, <2>1, <2>3 DEF Life!Queue, Life!Move
<1>6. ASSUME NEW x \in Recommendations, SubmitRecommendation(x) PROVE life' = life
  <2>1. \A b \in Actions : item'[b] = item[b]
    BY <1>6, QueueAssumption DEF SubmitRecommendation, Items
  <2>2. \A b \in Actions : LifeOf(b)' = LifeOf(b)
    BY <1>6, <2>1, LifeFrame DEF SubmitRecommendation
  <2>3. QED
    BY <1>2, <2>2
<1>7. ASSUME NEW q \in Requests, NEW x \in Items, NEW kind \in Kinds, NEW v \in Verdicts,
             ResolveCommit(q, x, kind, v)
      PROVE  life' = life \/ Life!LifeNext
  <2>1. /\ item[x].status = "pending" /\ item'[x].status = "resolved"
        /\ kind = "action" <=> x \in Actions
        /\ item'[x].verdict = IF kind = "action" THEN v ELSE item[x].verdict
        /\ \A y \in Items : y # x => item'[y] = item[y]
        /\ UNCHANGED <<submission, sends>>
    BY <1>0, <1>7 DEF ResolveCommit, Matches, ItemType, Kinds, TypeOK
  <2>2. \A b \in Actions : b # x => LifeOf(b)' = LifeOf(b)
    BY <2>1, LifeFrame DEF Items
  <2>3. CASE x \in Actions
    <3>1. sends[x] = 0 /\ item[x].verdict = "none" /\ item'[x].verdict = v
      BY <1>0, <2>1, <2>3 DEF ActionLinked
    <3>2. LifeOf(x) = "awaiting"
      BY <2>1, <3>1 DEF LifeOf
    <3>3. LifeOf(x)' = IF v = "REJECT" THEN "rejected" ELSE "approved"
      BY <2>1, <3>1 DEF LifeOf, Verdicts
    <3>4. Life!Approve(x) \/ Life!Reject(x)
      BY <1>1, <2>2, <2>3, <3>2, <3>3 DEF Life!Approve, Life!Reject, Life!Move
    <3>5. QED
      BY <2>3, <3>4 DEF Life!LifeNext
  <2>4. CASE x \notin Actions
    BY <1>2, <2>2, <2>4
  <2>5. QED
    BY <2>3, <2>4
<1>8. ASSUME NEW q \in Requests, NEW sent \in BOOLEAN, ExecuteEffect(q, sent)
      PROVE  life' = life \/ Life!LifeNext
  <2>0. PICK b \in Actions : b = request[q].target
    BY <1>8, QueueAssumption DEF ExecuteEffect
  <2>1. /\ b \in Actions /\ b \in HasEffect /\ sends[b] = 0
        /\ item[b].verdict \in {"APPROVE", "MODIFY"}
    BY <1>0, <1>8, <2>0, QueueAssumption DEF ExecuteEffect, RequestLinked, RequestType, Verdicts
  <2>2. /\ UNCHANGED <<submission, item>> /\ \A a \in Actions : a # b => sends'[a] = sends[a]
        /\ sends'[b] \in {0, 1}
    BY <1>0, <1>8, <2>0, <2>1 DEF ExecuteEffect, TypeOK
  <2>3. \A a \in Actions : a # b => LifeOf(a)' = LifeOf(a)
    BY <2>2, LifeFrame
  <2>4. CASE sends'[b] = 0
    <3>1. LifeOf(b)' = LifeOf(b)
      BY <2>1, <2>2, <2>4, LifeFrame
    <3>2. QED
      BY <1>2, <2>3, <3>1
  <2>5. CASE sends'[b] = 1
    <3>1. LifeOf(b) = "approved" /\ LifeOf(b)' = "dispatched"
      BY <2>1, <2>2, <2>5 DEF LifeOf
    <3>2. Life!Dispatch(b)
      BY <1>1, <2>1, <2>3, <3>1 DEF Life!Dispatch, Life!Move
    <3>3. QED
      BY <2>1, <3>2 DEF Life!LifeNext
  <2>6. QED
    BY <2>2, <2>4, <2>5
<1>9. ASSUME UNCHANGED <<submission, item, sends>> PROVE life' = life
  BY <1>2, <1>9, LifeFrame
<1> HIDE DEF life
<1>10. life' = life \/ Life!LifeNext
  BY <1>3, <1>4, <1>5, <1>6, <1>7, <1>8, <1>9 DEF Next, SubmitStep, ResolveStep, ResolveRefused,
     NoEffect, EffectThrows, RecordApproval, RecordRejection, RecordSpotCheckRejection,
     RequestInterrupted, AcceptOffer, Revoke, vars, Life!LifeNext
<1>11. QED
  BY <1>10 DEF life

\* The approval queue, with its races, duplicated verdicts and interruptions,
\* implements the one-action lifecycle.
THEOREM Refinement == Spec => ImplementsLifecycle
<1>1. Init => Life!LifeInit
  <2> SUFFICES ASSUME Init PROVE Life!LifeInit
    OBVIOUS
  <2>1. \A a \in Actions : LifeOf(a) = "new"
    BY DEF Init, LifeOf, Items
  <2>2. QED
    BY <2>1 DEF Life!LifeInit
<1>2. QED
  BY <1>1, QueueInit, QueueStep, LifeStep, PTL DEF Spec, ImplementsLifecycle, Life!LifeSpec
=============================================================================
