-------------------------------- MODULE Signup --------------------------------
(***************************************************************************)
(* A signup before and at the birth of its company: extraction batches of   *)
(* one user (apps/api/src/extraction/runExtractionBatch.ts), the edits of a *)
(* finished chart (routes/extraction.ts), and the claim that hands a batch  *)
(* to a tenant (routes/me.ts), over the store of                            *)
(* packages/db/src/signupExtractionBatches.ts and its row-level security.   *)
(*                                                                          *)
(* Each SQL statement is atomic; a request is a sequence of them, and       *)
(* requests interleave.  A process crash ends every request; a fault makes  *)
(* one call of the store or the cost gate throw, before it was done or      *)
(* after it, with its reply lost.                                           *)
(***************************************************************************)
EXTENDS Integers, FiniteSets

CONSTANTS
    MaxBatches,     \* batches a user starts
    Tenants,        \* companies the user creates
    Reqs,           \* concurrent requests
    EditableTasks   \* the tasks an edit keeps or drops

ASSUME SignupAssumption ==
    /\ MaxBatches \in Nat /\ EditableTasks # {}
    /\ IsFiniteSet(Tenants) /\ IsFiniteSet(Reqs)

NoTenant == "no-tenant"
NoChart == [tasks |-> {}, renamed |-> FALSE]

VARIABLES
    rows,          \* signup_extraction_batches, in creation order
    deltas,        \* template_task_deltas: the batches with rows in it
    reservation,   \* the cost gate's reservation of each batch
    req            \* what each request is doing: its op, its next step and its locals

signupVars == <<rows, deltas, reservation, req>>

Batches == 1 .. MaxBatches
Charts == [tasks : SUBSET EditableTasks, renamed : BOOLEAN]
Row(status, tenant, chart) == [status |-> status, tenant |-> tenant, chart |-> chart]
Idle == [pc |-> "idle", batch |-> 0, chart |-> NoChart, tenant |-> NoTenant]

SignupInit ==
    /\ rows = [b \in Batches |-> Row("none", NoTenant, NoChart)]
    /\ deltas = {}
    /\ reservation = [b \in Batches |-> "none"]
    /\ req = [p \in Reqs |-> Idle]

Goto(p, pc) == req' = [req EXCEPT ![p].pc = pc]
Return(p) == req' = [req EXCEPT ![p] = Idle]

(***************************************************************************)
(* The store                                                               *)
(***************************************************************************)

\* The row-level security of app.user_id: a claimed row is out of the user's sight.
visibleToUser(b) == rows[b].status # "none" /\ rows[b].tenant = NoTenant

\* updateOrgChart without the policy of the claimed row (a mutant).
updateOrgChartUnscoped(b, chart) ==
    rows' = IF rows[b].status = "completed" THEN [rows EXCEPT ![b].chart = chart] ELSE rows

\* UPDATE ... SET org_chart, of a completed row the user still sees; else of no row.
updateOrgChart(b, chart) ==
    rows' = IF visibleToUser(b) /\ rows[b].status = "completed"
            THEN [rows EXCEPT ![b].chart = chart] ELSE rows

\* UPDATE ... SET status = 'completed' and the chart.
complete(b, chart) ==
    rows' = IF visibleToUser(b)
            THEN [rows EXCEPT ![b].status = "completed", ![b].chart = chart] ELSE rows

\* UPDATE ... SET status = 'failed'.
fail(b) ==
    rows' = IF visibleToUser(b) THEN [rows EXCEPT ![b].status = "failed"] ELSE rows

(***************************************************************************)
(* runExtractionBatch                                                      *)
(***************************************************************************)

\* The two calls of the cost gate (module CostGate).
hold(b) == reservation' = [reservation EXCEPT ![b] = "held"]
resolve(b, how) == reservation' = [reservation EXCEPT ![b] = how]

start(p) ==
    /\ req[p].pc = "idle"
    /\ \E b \in Batches :
           /\ rows[b].status = "none" /\ \A c \in 1 .. b - 1 : rows[c].status # "none"
           /\ rows' = [rows EXCEPT ![b].status = "running"]
           /\ req' = [req EXCEPT ![p] = [Idle EXCEPT !.pc = "reserve", !.batch = b]]
    /\ UNCHANGED <<deltas, reservation>>

\* evaluateAndReserve: a reservation, or a SKIP that goes to the store as a failure.
\* What it throws leaves the request, which has no catch block yet.
evaluateAndReserve(p) ==
    /\ req[p].pc = "reserve"
    /\ \/ hold(req[p].batch) /\ Goto(p, "extract")
       \/ Goto(p, "fail") /\ UNCHANGED reservation
       \/ Return(p) /\ (hold(req[p].batch) \/ UNCHANGED reservation)
    /\ UNCHANGED <<rows, deltas>>

\* The run itself (module Extraction): a chart, or any of its errors.
extract(p) ==
    /\ req[p].pc = "extract"
    /\ \/ req' = [req EXCEPT ![p].pc = "settle", ![p].chart = [tasks |-> EditableTasks, renamed |-> FALSE]]
       \/ Goto(p, "release")
    /\ UNCHANGED <<rows, deltas, reservation>>

\* Completing before the money is settled (a mutant).
settleAfterComplete(p) ==
    /\ req[p].pc = "settle"
    /\ complete(req[p].batch, req[p].chart) /\ Goto(p, "complete")
    /\ UNCHANGED <<deltas, reservation>>

settle(p) ==
    /\ req[p].pc = "settle"
    /\ \/ resolve(req[p].batch, "settled") /\ Goto(p, "complete")
       \/ Goto(p, "release") /\ (resolve(req[p].batch, "settled") \/ UNCHANGED reservation)
    /\ UNCHANGED <<rows, deltas>>

\* The chart is stored, and what the customize pass changed is captured after it.
completeBatch(p) ==
    /\ req[p].pc = "complete"
    /\ \/ complete(req[p].batch, req[p].chart) /\ Goto(p, "capture")
       \/ Goto(p, "release") /\ (complete(req[p].batch, req[p].chart) \/ UNCHANGED rows)
    /\ UNCHANGED <<deltas, reservation>>

\* recordMany: one insert of the deltas, none for an empty list.  A failure is logged and
\* the request goes on: the capture cannot fail a batch or an edit.
recordMany(p) ==
    /\ req[p].pc = "capture"
    /\ deltas' = deltas \cup {req[p].batch} \/ UNCHANGED deltas
    /\ Return(p)
    /\ UNCHANGED <<rows, reservation>>

\* The catch block.  A reservation already settled is unknown to the gate: release
\* throws, and the batch is never marked as failed.
release(p) ==
    /\ req[p].pc = "release"
    /\ IF reservation[req[p].batch] = "held"
       THEN \/ resolve(req[p].batch, "released") /\ Goto(p, "fail")
            \/ Return(p) /\ (resolve(req[p].batch, "released") \/ UNCHANGED reservation)
       ELSE Return(p) /\ UNCHANGED reservation
    /\ UNCHANGED <<rows, deltas>>

failBatch(p) ==
    /\ req[p].pc = "fail"
    /\ fail(req[p].batch) \/ UNCHANGED rows
    /\ Return(p)
    /\ UNCHANGED <<deltas, reservation>>

(***************************************************************************)
(* Edits of a chart                                                        *)
(***************************************************************************)

\* Both edits read the user's batch first; without a chart they answer 404.
getForEdit(p, pc) ==
    /\ req[p].pc = "idle"
    /\ \E b \in Batches :
           /\ visibleToUser(b) /\ rows[b].status = "completed"
           /\ req' = [req EXCEPT ![p] = [Idle EXCEPT !.pc = pc, !.batch = b, !.chart = rows[b].chart]]
    /\ UNCHANGED <<rows, deltas, reservation>>

reassembleRead(p) == getForEdit(p, "reassemble")
renameRead(p) == getForEdit(p, "rename")

\* The tasks added and removed by an edit (its frequency changes are left out).
diffTaskLists(before, after) ==
    {<<"added", t>> : t \in after \ before} \cup {<<"removed", t>> : t \in before \ after}

\* The submitted task list is assembled anew: names come from the bank again.  An
\* assembly error changes nothing.  The capture follows whether or not a row was updated.
reassembleWrite(p) ==
    /\ req[p].pc = "reassemble"
    /\ \/ \E tasks \in SUBSET EditableTasks \ {{}} :
              /\ updateOrgChart(req[p].batch, [tasks |-> tasks, renamed |-> FALSE])
              /\ IF diffTaskLists(req[p].chart.tasks, tasks) # {} THEN Goto(p, "capture") ELSE Return(p)
       \/ Return(p) /\ UNCHANGED rows
    /\ UNCHANGED <<deltas, reservation>>

\* The whole chart, as it was read, with the agent's new name.
renameWrite(p) ==
    /\ req[p].pc = "rename"
    /\ updateOrgChart(req[p].batch, [req[p].chart EXCEPT !.renamed = TRUE])
    /\ Return(p)
    /\ UNCHANGED <<deltas, reservation>>

(***************************************************************************)
(* claimLatestForTenant                                                    *)
(***************************************************************************)

claimedBy(t) == {b \in Batches : rows[b].tenant = t}

\* The idempotency check: a tenant with a batch is given that batch.
claimCheck(p) ==
    /\ req[p].pc = "idle"
    /\ \E t \in Tenants :
           /\ claimedBy(t) = {}
           /\ req' = [req EXCEPT ![p] = [Idle EXCEPT !.pc = "claim", !.tenant = t]]
    /\ UNCHANGED <<rows, deltas, reservation>>

eligible == {b \in Batches : rows[b].status = "completed" /\ rows[b].tenant = NoTenant}

\* The claim without the unique index on tenant_id (a mutant).
claimUpdateNoIndex(p) ==
    /\ req[p].pc = "claim"
    /\ rows' = IF eligible = {} THEN rows
               ELSE [rows EXCEPT ![CHOOSE b \in eligible : \A c \in eligible : c <= b].tenant = req[p].tenant]
    /\ Return(p)
    /\ UNCHANGED <<deltas, reservation>>

\* The latest eligible batch.  The unique index on tenant_id refuses a second one:
\* the statement, and the request, fail.
claimUpdate(p) ==
    /\ req[p].pc = "claim"
    /\ rows' = IF eligible = {} \/ claimedBy(req[p].tenant) # {} THEN rows
               ELSE [rows EXCEPT ![CHOOSE b \in eligible : \A c \in eligible : c <= b].tenant = req[p].tenant]
    /\ Return(p)
    /\ UNCHANGED <<deltas, reservation>>

\* The API process dies: requests are gone, the rows and the reservations stay.
SignupCrash ==
    /\ \E p \in Reqs : req[p] # Idle
    /\ req' = [p \in Reqs |-> Idle]
    /\ UNCHANGED <<rows, deltas, reservation>>

SignupNext ==
    \/ \E p \in Reqs :
           \/ start(p) \/ evaluateAndReserve(p) \/ extract(p) \/ settle(p) \/ completeBatch(p) \/ recordMany(p)
           \/ release(p) \/ failBatch(p)
           \/ reassembleRead(p) \/ reassembleWrite(p) \/ renameRead(p) \/ renameWrite(p)
           \/ claimCheck(p) \/ claimUpdate(p)
    \/ SignupCrash

(***************************************************************************)
(* Properties                                                              *)
(***************************************************************************)

SignupTypeOK ==
    /\ rows \in [Batches -> [status : {"none", "running", "completed", "failed"},
                             tenant : Tenants \cup {NoTenant}, chart : Charts]]
    /\ deltas \subseteq Batches
    /\ reservation \in [Batches -> {"none", "held", "settled", "released"}]
    /\ \A p \in Reqs :
           /\ req[p].pc \in {"idle", "reserve", "extract", "settle", "complete", "release", "fail",
                             "capture", "reassemble", "rename", "claim"}
           /\ req[p].batch \in 0 .. MaxBatches /\ req[p].chart \in Charts

\* However requests, faults, lost replies and crashes fall between the steps, a batch's
\* outcome, its money and its captures agree: a completed batch was settled, a failed
\* one holds nothing, and templates learn only from charts that were delivered
\* (the order settle, complete, capture and release, fail of runExtractionBatch).
OutcomeMatchesMoney ==
    \A b \in Batches :
        /\ rows[b].status = "completed" => reservation[b] = "settled"
        /\ rows[b].status = "failed" => reservation[b] # "held"
        /\ b \in deltas => rows[b].status = "completed"

\* A tenant never owns two batches, only a completed batch has an owner, and once it
\* has one nothing that was in flight for the user changes the row any more: not a
\* reassemble or a rename that read it before, not a second claim
\* (claimLatestForTenant, migrations/0006's policy and unique index).
ClaimIsFinal ==
    [][\A b \in Batches :
          /\ rows[b].tenant # NoTenant => rows'[b] = rows[b]
          /\ rows'[b].tenant # NoTenant =>
                 /\ rows'[b].status = "completed"
                 /\ \A c \in Batches \ {b} : rows'[c].tenant # rows'[b].tenant]_signupVars
==============================================================================
