----------------------------- MODULE ChartScreens -----------------------------
(***************************************************************************)
(* The two screens on which a founder shapes the extracted company: the     *)
(* task list (TaskListScreen.tsx: uncheck, add, build) and the org chart    *)
(* (OrgChartScreen.tsx: rename, merge, split), over the batch the server    *)
(* holds.  A request is served once or fails; its response reaches the      *)
(* screen later, in any order, or is lost, which the screen sees as an      *)
(* error.  What the server does with a batch is modelled in Signup.         *)
(***************************************************************************)
EXTENDS Integers, FiniteSets

CONSTANTS
    FoundTasks,      \* the extracted tasks, each with its agent: [task -> agent]
    AddedTask,       \* a task the founder adds
    MaxChartEdits,   \* edits of the org chart
    MaxChartFaults   \* reads and edits that fail or whose response is lost

ASSUME ChartScreensAssumption ==
    /\ MaxChartFaults \in Nat /\ MaxChartEdits \in Nat
    /\ FoundTasks = [t \in DOMAIN FoundTasks |-> FoundTasks[t]] /\ AddedTask \notin DOMAIN FoundTasks

VARIABLES
    batch,       \* the server's batch: its status, its chart, whether a tenant claimed it
    view,        \* the open screen and its component state
    inFlight,       \* edits in flight
    chosen,      \* the tasks that were checked when "build my team" was pressed (history)
    overlapped,  \* an edit was made while another was in flight (history)
    made,        \* edits made so far
    chartFaults

chartScreensVars == <<batch, view, inFlight, chosen, overlapped, made, chartFaults>>

Chart(agentOf, renamed) == [agentOf |-> agentOf, renamed |-> renamed]
NoChartShown == Chart(<<>>, {})
agents(chart) == {chart.agentOf[t] : t \in DOMAIN chart.agentOf}

View(screen) ==
    [screen |-> screen, kind |-> "loading", chart |-> NoChartShown, excluded |-> {},
     added |-> FALSE, submitting |-> FALSE, busy |-> FALSE, saveError |-> FALSE]

ChartScreensInit ==
    /\ batch = [status |-> "running", chart |-> NoChartShown, claimed |-> FALSE]
    /\ view = View("tasks")
    /\ inFlight = {} /\ chosen = {} /\ overlapped = FALSE /\ made = 0 /\ chartFaults = 0

ChartFault == chartFaults < MaxChartFaults /\ chartFaults' = chartFaults + 1
history == <<chosen, overlapped, made>>

(***************************************************************************)
(* The server                                                              *)
(***************************************************************************)

BatchEnds ==
    /\ batch.status = "running"
    /\ \/ batch' = [batch EXCEPT !.status = "completed", !.chart = Chart(FoundTasks, {})]
       \/ batch' = [batch EXCEPT !.status = "failed"]
    /\ UNCHANGED <<view, inFlight, history, chartFaults>>

\* The company is created: the batch now belongs to the tenant.
BatchClaimed ==
    /\ batch.status = "completed" /\ ~batch.claimed
    /\ batch' = [batch EXCEPT !.claimed = TRUE]
    /\ UNCHANGED <<view, inFlight, history, chartFaults>>

\* rename-agent keeps the chart and changes a name; reassemble builds a new chart of
\* the tasks it is sent, in which no agent is renamed.
ServeEdit(e) ==
    /\ ~e.served /\ ~batch.claimed
    /\ e.op = "rename" => e.agent \in agents(batch.chart)
    /\ LET chart == IF e.op = "rename"
                    THEN [batch.chart EXCEPT !.renamed = @ \cup {e.agent}]
                    ELSE Chart(e.agentOf, {})
       IN  /\ batch' = [batch EXCEPT !.chart = chart]
           /\ inFlight' = (inFlight \ {e}) \cup {[e EXCEPT !.served = TRUE, !.result = chart]}
    /\ UNCHANGED <<view, history, chartFaults>>

\* A claimed batch is out of the user's sight, an agent may be gone: the edit is refused.
EditErrs(e) ==
    /\ \/ /\ ~e.served
          /\ batch.claimed \/ (e.op = "rename" /\ e.agent \notin agents(batch.chart))
          /\ UNCHANGED chartFaults
       \/ ChartFault
    /\ inFlight' = inFlight \ {e}

(***************************************************************************)
(* Loading: both screens poll while the batch runs                          *)
(***************************************************************************)

\* What a read shows: the task list reads the user's latest batch, the org chart the
\* tenant's chart first and the user's latest batch when there is none.
Shown(b) ==
    CASE b.status = "running" -> [view EXCEPT !.kind = "waiting"]
      [] b.status = "failed" -> [view EXCEPT !.kind = "error"]
      [] OTHER -> [view EXCEPT !.kind = "ready", !.chart = b.chart]

Load ==
    /\ view.kind \in {"loading", "waiting"}
    /\ \/ /\ view.screen = "tasks" => ~batch.claimed
          /\ view' = Shown(batch) /\ UNCHANGED chartFaults
       \/ /\ view.screen = "tasks" /\ batch.claimed      \* no batch of the user's is left
          /\ view' = View("home") /\ UNCHANGED chartFaults
       \/ /\ ChartFault
          /\ view' = IF view.screen = "tasks" THEN [view EXCEPT !.kind = "error"] ELSE View("home")
    /\ UNCHANGED <<batch, inFlight, history>>

\* "Start over", the dashboard's link, the address bar.
OpenScreen(screen) ==
    /\ \/ view.kind = "error" /\ screen = "home"
       \/ view.screen # screen /\ view.kind # "loading" /\ screen # "home" /\ ~view.submitting
       \/ view.screen = "home" /\ screen # "home"
    /\ inFlight = {}
    /\ view' = View(screen)
    /\ chosen' = {}
    /\ UNCHANGED <<batch, inFlight, overlapped, made, chartFaults>>

(***************************************************************************)
(* TaskListScreen                                                          *)
(***************************************************************************)

onTasks == view.screen = "tasks" /\ view.kind = "ready"
allTasks == [t \in DOMAIN view.chart.agentOf \cup (IF view.added THEN {AddedTask} ELSE {}) |->
                IF t \in DOMAIN view.chart.agentOf THEN view.chart.agentOf[t] ELSE AddedTask]
checkedTasks == [t \in DOMAIN allTasks \ view.excluded |-> allTasks[t]]

onToggle(t) ==
    /\ onTasks /\ t \in DOMAIN allTasks
    /\ view' = [view EXCEPT !.excluded = IF t \in @ THEN @ \ {t} ELSE @ \cup {t}]
    /\ UNCHANGED <<batch, inFlight, history, chartFaults>>

\* newCustomTask: an ad-hoc task of its own agent.
onAdd ==
    /\ onTasks /\ ~view.added /\ AddedTask \notin DOMAIN view.chart.agentOf
    /\ view' = [view EXCEPT !.added = TRUE]
    /\ UNCHANGED <<batch, inFlight, history, chartFaults>>

Edit(op, agent, agentOf) ==
    [op |-> op, agent |-> agent, agentOf |-> agentOf, served |-> FALSE, result |-> NoChartShown]

\* Sending every task, the unchecked ones too (a mutant).
handleContinueWithAll ==
    /\ onTasks /\ ~view.submitting /\ DOMAIN checkedTasks # {}
    /\ view' = [view EXCEPT !.submitting = TRUE]
    /\ inFlight' = inFlight \cup {Edit("continue", "", allTasks)}
    /\ chosen' = DOMAIN checkedTasks
    /\ UNCHANGED <<batch, overlapped, made, chartFaults>>

\* The tasks still checked become the company; disabled when none is.
handleContinue ==
    /\ onTasks /\ ~view.submitting /\ DOMAIN checkedTasks # {}
    /\ view' = [view EXCEPT !.submitting = TRUE]
    /\ inFlight' = inFlight \cup {Edit("continue", "", checkedTasks)}
    /\ chosen' = DOMAIN checkedTasks
    /\ UNCHANGED <<batch, overlapped, made, chartFaults>>

\* On to the org chart; an error replaces the list, and what was unchecked and added.
ContinueReturns(e) ==
    /\ e.op = "continue"
    /\ \/ /\ e.served /\ inFlight' = inFlight \ {e} /\ UNCHANGED chartFaults
          /\ view' = View("org-chart") /\ UNCHANGED chosen
       \/ /\ EditErrs(e)
          /\ view' = [view EXCEPT !.kind = "error"] /\ chosen' = {}
    /\ UNCHANGED <<batch, overlapped, made>>

(***************************************************************************)
(* OrgChartReveal                                                          *)
(***************************************************************************)

onChart == view.screen = "org-chart" /\ view.kind = "ready"
SendEdit(e) ==
    /\ made < MaxChartEdits /\ made' = made + 1
    /\ inFlight' = inFlight \cup {e}
    /\ overlapped' = (overlapped \/ inFlight # {})
    /\ view' = [view EXCEPT !.busy = TRUE, !.saveError = FALSE]
    /\ UNCHANGED <<batch, chosen, chartFaults>>

\* Renaming is not held back while another edit is in flight.
handleRename(a) ==
    /\ onChart /\ a \in agents(view.chart) /\ a \notin view.chart.renamed
    /\ SendEdit(Edit("rename", a, <<>>))

\* The tasks of the selected agents go to the first of them.
handleMerge(first, second) ==
    /\ onChart /\ ~view.busy /\ {first, second} \subseteq agents(view.chart) /\ first # second
    /\ SendEdit(Edit("reassemble", "",
           [t \in DOMAIN view.chart.agentOf |->
               IF view.chart.agentOf[t] \in {first, second} THEN first ELSE view.chart.agentOf[t]]))

\* A selected task gets an agent of its own.
handleSplit(t) ==
    /\ onChart /\ ~view.busy /\ t \in DOMAIN view.chart.agentOf /\ view.chart.agentOf[t] # "split"
    /\ SendEdit(Edit("reassemble", "", [view.chart.agentOf EXCEPT ![t] = "split"]))

\* Clearing the busy marker and keeping the old chart (a mutant).
EditReturnsUnshown(e) ==
    /\ e.op # "continue"
    /\ \/ e.served /\ inFlight' = inFlight \ {e} /\ UNCHANGED chartFaults
       \/ EditErrs(e)
    /\ view' = [view EXCEPT !.busy = FALSE]
    /\ UNCHANGED <<batch, history>>

\* The screen shows the chart of the response, or an error and the chart it had.
EditReturns(e) ==
    /\ e.op # "continue"
    /\ \/ /\ e.served /\ inFlight' = inFlight \ {e} /\ UNCHANGED chartFaults
          /\ view' = [view EXCEPT !.chart = e.result, !.busy = FALSE]
       \/ /\ EditErrs(e)
          /\ view' = [view EXCEPT !.saveError = TRUE, !.busy = FALSE]
    /\ UNCHANGED <<batch, history>>

Agents == {FoundTasks[t] : t \in DOMAIN FoundTasks} \cup {AddedTask, "split"}
ChartScreensNext ==
    \/ BatchEnds \/ BatchClaimed \/ Load
    \/ \E screen \in {"home", "tasks", "org-chart"} : OpenScreen(screen)
    \/ \E t \in DOMAIN FoundTasks \cup {AddedTask} : onToggle(t) \/ handleSplit(t)
    \/ onAdd \/ handleContinue
    \/ \E a \in Agents : handleRename(a)
    \/ \E a, b \in Agents : handleMerge(a, b)
    \/ \E e \in inFlight : ServeEdit(e) \/ ContinueReturns(e) \/ EditReturns(e)

(***************************************************************************)
(* Properties                                                              *)
(***************************************************************************)

\* The company is built of exactly the tasks that were checked, through every rename,
\* merge and split that follows; and when no edit is in flight, and edits were made one
\* at a time, the org chart on the screen is the one the server holds, unless the screen
\* says that the last change was not saved.
ChartIsTheServers ==
    /\ chosen # {} /\ view.screen = "org-chart" => DOMAIN batch.chart.agentOf = chosen
    /\ onChart /\ inFlight = {} /\ ~overlapped /\ ~view.saveError => view.chart = batch.chart
==============================================================================
