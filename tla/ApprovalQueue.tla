---------------------------- MODULE ApprovalQueue ----------------------------
(***************************************************************************)
(* The approval queue and earned autonomy: packages/approval-queue/src     *)
(* (queue.ts, durable/approvalStore.ts, durable/autonomyStore.ts,          *)
(* effectExecutor.ts) as wired by durableTrustCore.ts and called by        *)
(* routes/approvals.ts and the router.                                     *)
(*                                                                         *)
(* A proposed action is submitted once, by the router.  A human's verdict  *)
(* arrives as a request; requests may be duplicated, may disagree, and run *)
(* concurrently in any replica.  Every database statement is atomic; the   *)
(* process may stop (crash or exception) between any two.  One tenant.     *)
(***************************************************************************)
EXTENDS Integers, FiniteSets

CONSTANTS
  Actions,          \* proposed actions
  Recommendations,  \* items of the CEO pathway
  TaskTypes,
  TaskTypeOf,       \* [Actions -> TaskTypes]
  HasEffect,        \* actions that carry an effect descriptor
  Denied,           \* actions with a deny-listed stakes tag
  Requests,         \* calls of POST /approvals/:id/resolve
  OfferThreshold

ASSUME QueueAssumption ==
  /\ TaskTypeOf \in [Actions -> TaskTypes]
  /\ HasEffect \subseteq Actions
  /\ Denied \subseteq Actions
  /\ Actions \cap Recommendations = {}
  /\ OfferThreshold \in Nat \ {0}
  /\ Actions # {}
  /\ IsFiniteSet(Actions)   \* rows of a table

Items == Actions \cup Recommendations
Verdicts == {"APPROVE", "MODIFY", "REJECT"}
Kinds == {"action", "recommendation"}

VARIABLES
  submission,  \* progress of submitProposedAction
  item,        \* table approval_queue_items
  autonomy,    \* table autonomy_counters
  request,     \* progress of each resolve request
  sends        \* how often the external effect of an action was carried out

vars == <<submission, item, autonomy, request, sends>>

\* active: the value submitProposedAction holds in autonomyActive.
SubmissionType == [pc : {"new", "decided", "queued", "bypassed", "interrupted"},
                   active : BOOLEAN]

ItemType == [status : {"none", "pending", "resolved"},
             verdict : Verdicts \cup {"none"}, spotCheck : BOOLEAN]

AutonomyType == [count : Nat, active : BOOLEAN, offered : BOOLEAN]

\* committed: store.resolve returned the item; recorded next: see below.
RequestType == [pc : {"idle", "committed", "recording", "done", "refused",
                      "interrupted", "effectThrew"},
                target : Items, verdict : Verdicts]

TypeOK ==
  /\ submission \in [Actions -> SubmissionType]
  /\ item \in [Items -> ItemType]
  /\ autonomy \in [TaskTypes -> AutonomyType]
  /\ request \in [Requests -> RequestType]
  /\ sends \in [Actions -> Nat]

Init ==
  /\ submission = [a \in Actions |-> [pc |-> "new", active |-> FALSE]]
  /\ item = [x \in Items |-> [status |-> "none", verdict |-> "none", spotCheck |-> FALSE]]
  /\ autonomy = [t \in TaskTypes |-> [count |-> 0, active |-> FALSE, offered |-> FALSE]]
  /\ request = [q \in Requests |->
                  [pc |-> "idle", target |-> CHOOSE x \in Items : TRUE,
                   verdict |-> "REJECT"]]
  /\ sends = [a \in Actions |-> 0]

-----------------------------------------------------------------------------
(* submitProposedAction, submitRecommendation                                *)

\* The isActive read returns; the deny-list is a pure check on the tags.
ReadAutonomy(a) ==
  /\ submission[a].pc = "new"
  /\ submission' = [submission EXCEPT ![a] =
        [pc |-> "decided",
         active |-> autonomy[TaskTypeOf[a]].active /\ a \notin Denied]]
  /\ UNCHANGED <<item, autonomy, request, sends>>

\* Mutant: an effect-bearing action may bypass review.
BypassIgnoresEffect(a) ==
  /\ submission[a].pc = "decided"
  /\ submission[a].active
  /\ submission' = [submission EXCEPT ![a].pc = "bypassed"]
  /\ UNCHANGED <<item, autonomy, request, sends>>

\* canBypass: autonomy seen active, the sampler passed, no effect.
Bypass(a) ==
  /\ submission[a].pc = "decided"
  /\ submission[a].active
  /\ a \notin HasEffect
  /\ submission' = [submission EXCEPT ![a].pc = "bypassed"]
  /\ UNCHANGED <<item, autonomy, request, sends>>

\* Otherwise the item is inserted; it is a spot check iff autonomy was seen
\* active (the sampler may select any action that could have bypassed).
Enqueue(a) ==
  /\ submission[a].pc = "decided"
  /\ submission' = [submission EXCEPT ![a].pc = "queued"]
  /\ item' = [item EXCEPT ![a] = [status |-> "pending", verdict |-> "none",
                                  spotCheck |-> submission[a].active]]
  /\ UNCHANGED <<autonomy, request, sends>>

SubmissionInterrupted(a) ==
  /\ submission[a].pc = "decided"
  /\ submission' = [submission EXCEPT ![a].pc = "interrupted"]
  /\ UNCHANGED <<item, autonomy, request, sends>>

SubmitRecommendation(x) ==
  /\ item[x].status = "none"
  /\ item' = [item EXCEPT ![x].status = "pending"]
  /\ UNCHANGED <<submission, autonomy, request, sends>>

-----------------------------------------------------------------------------
(* resolve, resolveRecommendation                                            *)

\* Mutant: an item that is already resolved matches again.
MatchesResolved(x, kind) ==
  /\ item[x].status # "none"
  /\ kind = IF x \in Actions THEN "action" ELSE "recommendation"

\* The conditional UPDATE: the row must be pending and of the requested kind.
Matches(x, kind) ==
  /\ item[x].status = "pending"
  /\ kind = IF x \in Actions THEN "action" ELSE "recommendation"

\* store.resolve commits for one request; a recommendation needs no more.
ResolveCommit(q, x, kind, v) ==
  /\ request[q].pc = "idle"
  /\ ~(kind = "recommendation" /\ v = "MODIFY")
  /\ Matches(x, kind)
  /\ item' = [item EXCEPT ![x].status = "resolved",
                          ![x].verdict = IF kind = "action" THEN v ELSE @]
  /\ request' = [request EXCEPT ![q] =
        [pc |-> IF kind = "action" THEN "committed" ELSE "done",
         target |-> x, verdict |-> v]]
  /\ UNCHANGED <<submission, autonomy, sends>>

\* No row: UnknownActionError, UnknownRecommendationError, or the route's 400.
ResolveRefused(q, x, kind, v) ==
  /\ request[q].pc = "idle"
  /\ (kind = "recommendation" /\ v = "MODIFY") \/ ~Matches(x, kind)
  /\ request' = [request EXCEPT ![q].pc = "refused"]
  /\ UNCHANGED <<submission, item, autonomy, sends>>

\* The approve path without an effect goes straight to recordApproval.
NoEffect(q) ==
  /\ request[q].pc = "committed"
  /\ request[q].verdict # "REJECT"
  /\ request[q].target \notin HasEffect
  /\ request' = [request EXCEPT ![q].pc = "recording"]
  /\ UNCHANGED <<submission, item, autonomy, sends>>

\* effectExecutor.execute returns; sent: some recipient got the mail (all of
\* them, or the first ones before a send failed), otherwise {success: false}.
ExecuteEffect(q, sent) ==
  /\ request[q].pc = "committed"
  /\ request[q].verdict # "REJECT"
  /\ request[q].target \in HasEffect
  /\ sends' = [sends EXCEPT ![request[q].target] = IF sent THEN @ + 1 ELSE @]
  /\ request' = [request EXCEPT ![q].pc = "recording"]
  /\ UNCHANGED <<submission, item, autonomy>>

\* resolveHandsKeyId or getOwnerEmails, both outside execute's try blocks,
\* rejects: the exception leaves resolve before recordApproval.
EffectThrows(q) ==
  /\ request[q].pc = "committed"
  /\ request[q].verdict # "REJECT"
  /\ request[q].target \in HasEffect
  /\ request' = [request EXCEPT ![q].pc = "effectThrew"]
  /\ UNCHANGED <<submission, item, autonomy, sends>>

\* Mutant: the threshold is tested before the increment.
ApprovedTestsOldCount(s) ==
  [count   |-> s.count + 1,
   active  |-> s.active,
   offered |-> s.offered \/ (s.count = OfferThreshold /\ ~s.active)]

\* recordApproval: increment and threshold test in one transaction; an action
\* on the deny-list leaves the counters alone.
Approved(s) ==
  [count   |-> s.count + 1,
   active  |-> s.active,
   offered |-> s.offered \/ (s.count + 1 = OfferThreshold /\ ~s.active)]

\* Mutant: approving an action on the deny-list counts towards autonomy.
RecordApprovalOfDenied(q) ==
  /\ request[q].pc = "recording"
  /\ autonomy' = [autonomy EXCEPT ![TaskTypeOf[request[q].target]] = Approved(@)]
  /\ request' = [request EXCEPT ![q].pc = "done"]
  /\ UNCHANGED <<submission, item, sends>>

RecordApproval(q) ==
  LET a == request[q].target
  IN /\ request[q].pc = "recording"
     /\ autonomy' = IF a \in Denied THEN autonomy
                    ELSE [autonomy EXCEPT ![TaskTypeOf[a]] = Approved(@)]
     /\ request' = [request EXCEPT ![q].pc = "done"]
     /\ UNCHANGED <<submission, item, sends>>

\* Mutant: a rejection takes one approval back instead of resetting.
RejectionDecrements(q) ==
  LET a == request[q].target
  IN /\ request[q].pc = "committed"
     /\ request[q].verdict = "REJECT"
     /\ ~item[a].spotCheck
     /\ autonomy' = [autonomy EXCEPT ![TaskTypeOf[a]] =
                       [count |-> @.count - 1, active |-> @.active, offered |-> FALSE]]
     /\ request' = [request EXCEPT ![q].pc = "done"]
     /\ UNCHANGED <<submission, item, sends>>

\* recordRejection leaves active as it is.
RecordRejection(q) ==
  LET a == request[q].target
  IN /\ request[q].pc = "committed"
     /\ request[q].verdict = "REJECT"
     /\ ~item[a].spotCheck
     /\ autonomy' = [autonomy EXCEPT ![TaskTypeOf[a]] =
                       [count |-> 0, active |-> @.active, offered |-> FALSE]]
     /\ request' = [request EXCEPT ![q].pc = "done"]
     /\ UNCHANGED <<submission, item, sends>>

\* Mutant: a rejected spot check is handled as an ordinary rejection.
SpotCheckKeepsAutonomy(q) ==
  LET a == request[q].target
  IN /\ request[q].pc = "committed"
     /\ request[q].verdict = "REJECT"
     /\ item[a].spotCheck
     /\ autonomy' = [autonomy EXCEPT ![TaskTypeOf[a]] =
                       [count |-> 0, active |-> @.active, offered |-> FALSE]]
     /\ request' = [request EXCEPT ![q].pc = "done"]
     /\ UNCHANGED <<submission, item, sends>>

RecordSpotCheckRejection(q) ==
  LET a == request[q].target
  IN /\ request[q].pc = "committed"
     /\ request[q].verdict = "REJECT"
     /\ item[a].spotCheck
     /\ autonomy' = [autonomy EXCEPT ![TaskTypeOf[a]] =
                       [count |-> 0, active |-> FALSE, offered |-> FALSE]]
     /\ request' = [request EXCEPT ![q].pc = "done"]
     /\ UNCHANGED <<submission, item, sends>>

\* The process stops between two awaits: a crash, or a database error.
RequestInterrupted(q) ==
  /\ request[q].pc \in {"committed", "recording"}
  /\ request' = [request EXCEPT ![q].pc = "interrupted"]
  /\ UNCHANGED <<submission, item, autonomy, sends>>

-----------------------------------------------------------------------------
(* Autonomy offers.                                                          *)

AcceptOffer(t) ==
  /\ autonomy[t].offered
  /\ autonomy' = [autonomy EXCEPT ![t].active = TRUE]
  /\ UNCHANGED <<submission, item, request, sends>>

\* revoke: the given task types, restricted to the active ones.
Revoke(T) ==
  /\ \E t \in T : autonomy[t].active
  /\ autonomy' = [t \in TaskTypes |->
                    IF t \in T /\ autonomy[t].active
                    THEN [count |-> 0, active |-> FALSE, offered |-> FALSE]
                    ELSE autonomy[t]]
  /\ UNCHANGED <<submission, item, request, sends>>

-----------------------------------------------------------------------------
SubmitStep(a) == ReadAutonomy(a) \/ Bypass(a) \/ Enqueue(a)

\* What a request does once its verdict is committed.
ResolveStep(q) ==
  \/ NoEffect(q)
  \/ \E sent \in BOOLEAN : ExecuteEffect(q, sent)
  \/ EffectThrows(q)
  \/ RecordApproval(q)
  \/ RecordRejection(q)
  \/ RecordSpotCheckRejection(q)

Next ==
  \/ \E a \in Actions : SubmitStep(a) \/ SubmissionInterrupted(a)
  \/ \E x \in Recommendations : SubmitRecommendation(x)
  \/ \E q \in Requests, x \in Items, kind \in Kinds, v \in Verdicts :
       ResolveCommit(q, x, kind, v) \/ ResolveRefused(q, x, kind, v)
  \/ \E q \in Requests : ResolveStep(q) \/ RequestInterrupted(q)
  \/ \E t \in TaskTypes : AcceptOffer(t) \/ Revoke({t})
  \/ Revoke(TaskTypes)

Spec == Init /\ [][Next]_vars

\* A request whose verdict is committed keeps running on the event loop until
\* it returns or is interrupted; nothing obliges a human to answer.
FairSpec == Spec /\ \A q \in Requests : WF_vars(ResolveStep(q))

-----------------------------------------------------------------------------
(* Properties.                                                               *)

\* An external effect runs at most once, however many requests race for the
\* same item (approvalStore.ts:123-126), and only for an item a human has
\* approved or modified (queue.ts:28-38), never for one that bypassed review.
EffectOnlyAfterApproval ==
  \A a \in Actions :
    /\ sends[a] <= 1
    /\ sends[a] > 0 => /\ item[a].status = "resolved"
                       /\ item[a].verdict \in {"APPROVE", "MODIFY"}

\* The threshold test of recordApproval never loses an offer and never leaves
\* a stale one: while autonomy is off, an offer is open exactly when the streak
\* has reached the threshold, in whatever order approvals, rejections, accepts
\* and revocations of several requests commit.
OfferMatchesStreak ==
  \A t \in TaskTypes :
    /\ autonomy[t].offered => autonomy[t].count >= OfferThreshold
    /\ ~autonomy[t].active /\ autonomy[t].count >= OfferThreshold => autonomy[t].offered

\* Actions of a task type that count towards autonomy and a human approved.
ApprovedActions(t) ==
  {a \in Actions : /\ TaskTypeOf[a] = t /\ a \notin Denied
                   /\ item[a].verdict \in {"APPROVE", "MODIFY"}}

\* Autonomy is earned: a task type is autonomous, and an action skips review,
\* only if a human approved at least OfferThreshold different actions of that
\* task type that are not on the deny-list; such an action is itself neither on
\* the deny-list nor effect-bearing.
AutonomyIsEarned ==
  /\ \A t \in TaskTypes :
       autonomy[t].active => Cardinality(ApprovedActions(t)) >= OfferThreshold
  /\ \A a \in Actions :
       submission[a].pc = "bypassed" =>
         /\ Cardinality(ApprovedActions(TaskTypeOf[a])) >= OfferThreshold
         /\ a \notin Denied \cup HasEffect

\* A spot check that a human rejects ends the autonomy of its task type, unless
\* the process is interrupted between the verdict and the revocation.
SpotCheckRejectionRevokes ==
  \A q \in Requests, a \in Actions :
    (/\ request[q].pc = "committed" /\ request[q].target = a
     /\ request[q].verdict = "REJECT"
     /\ item[a].spotCheck)
    ~> (request[q].pc = "interrupted" \/ ~autonomy[TaskTypeOf[a]].active)

\* effectExecutor.ts:51-54: every failure of the effect is returned, so that
\* resolve can surface it; none leaves it as an exception.
EffectFailuresAreReturned ==
  \A q \in Requests : request[q].pc # "effectThrew"

\* How far an action is in its life, in the terms of ActionLifecycle.
LifeOf(a) ==
  IF sends[a] # 0 THEN "dispatched"
  ELSE IF item[a].verdict = "REJECT" THEN "rejected"
  ELSE IF item[a].verdict # "none" THEN "approved"
  ELSE IF item[a].status = "pending" THEN "awaiting"
  ELSE IF submission[a].pc = "bypassed" THEN "unreviewed"
  ELSE "new"

Life == INSTANCE ActionLifecycle WITH life <- [a \in Actions |-> LifeOf(a)]

\* The queue implements the lifecycle it promises.
ImplementsLifecycle == Life!LifeSpec
=============================================================================
