----------------------------- MODULE ClientProofs -----------------------------
(***************************************************************************)
(* Theorems about the web client against the server: the task list and the *)
(* org chart, the approval queue, the wizard and the charter, and the      *)
(* interview.  Each part of this module speaks of one machine; the last    *)
(* puts them together (ClientAgreesWithServer).                            *)
(*                                                                         *)
(* The invariants say the same kind of thing throughout: what a request in *)
(* flight will have made true by the time its response is believed.        *)
(***************************************************************************)
EXTENDS MCOnboarding, FiniteSetTheorems, NaturalsInduction, TLAPS

-----------------------------------------------------------------------------
(* The task list and the org chart.                                          *)

AllTasks == DOMAIN FoundTasks \cup {AddedTask}
AgentMaps == UNION {[S -> Agents] : S \in SUBSET AllTasks}
ShownCharts == [agentOf : AgentMaps, renamed : SUBSET Agents]
StoredBatches == [status : {"running", "completed", "failed"}, chart : ShownCharts, claimed : BOOLEAN]
Views == [screen : {"home", "tasks", "org-chart"}, kind : {"loading", "waiting", "error", "ready"},
          chart : ShownCharts, excluded : SUBSET AllTasks, added : BOOLEAN, submitting : BOOLEAN,
          busy : BOOLEAN, saveError : BOOLEAN]
Edits == [op : {"continue", "rename", "reassemble"}, agent : Agents \cup {""}, agentOf : AgentMaps,
          served : BOOLEAN, result : ShownCharts]

ChartTypes ==
  /\ batch \in StoredBatches /\ view \in Views /\ inFlight \subseteq Edits
  /\ overlapped \in BOOLEAN

\* What is in flight on each screen: at most the tasks that were checked, or edits.
TasksInv ==
  /\ view.kind # "ready" \/ view.screen = "home" => inFlight = {}
  /\ view.screen = "tasks" =>
       /\ view.submitting = FALSE => inFlight = {}
       /\ \A e \in inFlight : /\ e.op = "continue" /\ DOMAIN e.agentOf = chosen
                              /\ e.served = TRUE => DOMAIN batch.chart.agentOf = chosen
       /\ \A e, f \in inFlight : e = f
  /\ view.screen = "org-chart" => \A e \in inFlight : e.op # "continue"
  /\ view.kind = "ready" \/ chosen # {} => batch.status = "completed"

\* Edits are about the tasks that were checked, on the screen, in flight and stored.
ChosenInv ==
  view.screen = "org-chart" /\ chosen # {} =>
    /\ DOMAIN batch.chart.agentOf = chosen
    /\ view.kind = "ready" => DOMAIN view.chart.agentOf = chosen
    /\ \A e \in inFlight : /\ e.op = "reassemble" => DOMAIN e.agentOf = chosen
                           /\ e.served = TRUE => DOMAIN e.result.agentOf = chosen

\* One edit at a time: the one in flight carries the stored chart once it was served.
OneEditInv ==
  view.screen = "org-chart" /\ view.kind = "ready" /\ overlapped = FALSE =>
    /\ \A e, f \in inFlight : e = f
    /\ \A e \in inFlight : e.served = TRUE => e.result = batch.chart
    /\ inFlight = {} /\ view.saveError = FALSE => view.chart = batch.chart

ChartInv == ChartTypes /\ TasksInv /\ ChosenInv /\ OneEditInv

\* An agent map is a function into the agents; the charts, edits and views built here
\* have their types.
LEMMA AgentMap ==
  /\ \A f \in AgentMaps : DOMAIN f \in SUBSET AllTasks /\ f \in [DOMAIN f -> Agents]
  /\ \A S \in SUBSET AllTasks : \A f \in [S -> Agents] : f \in AgentMaps /\ DOMAIN f = S
BY DEF AgentMaps

LEMMA ChartValues ==
  /\ FoundTasks \in AgentMaps /\ <<>> \in AgentMaps
  /\ AddedTask \in Agents /\ "split" \in Agents
  /\ \A f \in AgentMaps, R \in SUBSET Agents : /\ Chart(f, R) \in ShownCharts
                                            /\ Chart(f, R).agentOf = f /\ Chart(f, R).renamed = R
  /\ NoChartShown \in ShownCharts
<1>1. FoundTasks \in AgentMaps
  <2>1. FoundTasks \in [DOMAIN FoundTasks -> Agents]
    BY ChartScreensAssumption DEF Agents
  <2>2. DOMAIN FoundTasks \in SUBSET AllTasks
    BY DEF AllTasks
  <2>3. QED
    BY <2>1, <2>2, AgentMap
<1>2. <<>> \in AgentMaps
  <2>1. <<>> \in [{} -> Agents]
    OBVIOUS
  <2>2. QED
    BY <2>1, AgentMap
<1>3. \A f \in AgentMaps, R \in SUBSET Agents :
        Chart(f, R) \in ShownCharts /\ Chart(f, R).agentOf = f /\ Chart(f, R).renamed = R
  BY DEF Chart, ShownCharts
<1>4. NoChartShown \in ShownCharts
  BY <1>2, <1>3 DEF NoChartShown
<1>5. QED
  BY <1>1, <1>2, <1>3, <1>4 DEF Agents

LEMMA ChartRecords ==
  /\ \A screen \in {"home", "tasks", "org-chart"} :
       /\ View(screen) \in Views /\ View(screen).screen = screen /\ View(screen).kind = "loading"
       /\ View(screen).submitting = FALSE
  /\ \A op \in {"continue", "rename", "reassemble"}, a \in Agents \cup {""}, f \in AgentMaps :
       /\ Edit(op, a, f) \in Edits /\ Edit(op, a, f).op = op /\ Edit(op, a, f).agent = a
       /\ Edit(op, a, f).agentOf = f /\ Edit(op, a, f).served = FALSE
<1>1. ASSUME NEW screen \in {"home", "tasks", "org-chart"}
      PROVE  /\ View(screen) \in Views /\ View(screen).screen = screen
             /\ View(screen).kind = "loading" /\ View(screen).submitting = FALSE
  BY ChartValues DEF View, Views
<1>2. ASSUME NEW op \in {"continue", "rename", "reassemble"}, NEW a \in Agents \cup {""}, NEW f \in AgentMaps
      PROVE  /\ Edit(op, a, f) \in Edits /\ Edit(op, a, f).op = op /\ Edit(op, a, f).agent = a
             /\ Edit(op, a, f).agentOf = f /\ Edit(op, a, f).served = FALSE
  BY ChartValues DEF Edit, Edits
<1>3. QED
  BY <1>1, <1>2

\* The edits the screens make.
LEMMA NewEdits ==
  /\ \A f \in AgentMaps, op \in {"continue", "reassemble"} :
       \A e : e = Edit(op, "", f) =>
         e \in Edits /\ e.op = op /\ e.agentOf = f /\ e.served = FALSE
  /\ \A a \in Agents : \A e : e = Edit("rename", a, <<>>) =>
       e \in Edits /\ e.op = "rename" /\ e.served = FALSE
<1>1. "" \in Agents \cup {""} /\ <<>> \in AgentMaps /\ Agents \subseteq Agents \cup {""}
  BY ChartValues
<1>2. ASSUME NEW f \in AgentMaps, NEW op \in {"continue", "reassemble"}, NEW e, e = Edit(op, "", f)
      PROVE  e \in Edits /\ e.op = op /\ e.agentOf = f /\ e.served = FALSE
  BY <1>1, <1>2, ChartValues DEF Edit, Edits
<1>3. ASSUME NEW a \in Agents, NEW e, e = Edit("rename", a, <<>>)
      PROVE  e \in Edits /\ e.op = "rename" /\ e.served = FALSE
  BY <1>1, <1>3, ChartValues DEF Edit, Edits
<1>4. QED
  BY <1>2, <1>3

\* Every task of the list has an agent.
LEMMA ListedTasks ==
  ASSUME ChartTypes
  PROVE  /\ allTasks \in AgentMaps /\ checkedTasks \in AgentMaps
         /\ view.chart.agentOf \in AgentMaps /\ view.chart.renamed \in SUBSET Agents
         /\ batch.chart.agentOf \in AgentMaps /\ batch.chart.renamed \in SUBSET Agents
<1>1. /\ view.chart.agentOf \in AgentMaps /\ view.chart.renamed \in SUBSET Agents
      /\ batch.chart.agentOf \in AgentMaps /\ batch.chart.renamed \in SUBSET Agents
  BY DEF ChartTypes, Views, StoredBatches, ShownCharts
<1>2. PICK S \in SUBSET AllTasks :
        S = DOMAIN view.chart.agentOf \cup (IF view.added THEN {AddedTask} ELSE {})
  BY <1>1, AgentMap DEF AllTasks
<1>3. allTasks \in [S -> Agents]
  BY <1>1, <1>2, AgentMap, ChartValues DEF allTasks
<1>4. checkedTasks \in [S \ view.excluded -> Agents]
  BY <1>3 DEF checkedTasks
<1>5. QED
  BY <1>1, <1>3, <1>4, AgentMap

\* The screens keep their types.
LEMMA ChartTypesStep == ChartTypes /\ ChartScreensNext => ChartTypes'
<1> SUFFICES ASSUME ChartTypes, ChartScreensNext PROVE ChartTypes'
  OBVIOUS
<1>0. /\ batch \in StoredBatches /\ view \in Views /\ inFlight \subseteq Edits /\ overlapped \in BOOLEAN
      /\ batch.chart \in ShownCharts
  BY DEF ChartTypes, StoredBatches
<1>1. CASE BatchEnds
  <2>1. Chart(FoundTasks, {}) \in ShownCharts
    BY ChartValues
  <2>2. batch' \in StoredBatches
    BY <1>0, <1>1, <2>1 DEF BatchEnds, StoredBatches
  <2>3. QED
    BY <1>0, <1>1, <2>2 DEF BatchEnds, ChartTypes, history
<1>2. CASE BatchClaimed
  BY <1>0, <1>2 DEF BatchClaimed, ChartTypes, StoredBatches, history
<1>3. CASE Load
  <2>1. Shown(batch) \in Views
    BY <1>0 DEF Shown, Views
  <2>2. [view EXCEPT !.kind = "error"] \in Views
    BY <1>0 DEF Views
  <2>3. View("home") \in Views
    BY ChartRecords
  <2>4. view' \in {Shown(batch), View("home"), [view EXCEPT !.kind = "error"]}
    BY <1>3 DEF Load
  <2>5. view' \in Views
    BY <2>1, <2>2, <2>3, <2>4
  <2>6. QED
    BY <1>0, <1>3, <2>5 DEF Load, ChartTypes, history
<1>4. ASSUME NEW screen \in {"home", "tasks", "org-chart"}, OpenScreen(screen) PROVE ChartTypes'
  BY <1>0, <1>4, ChartRecords DEF OpenScreen, ChartTypes
<1>5. ASSUME NEW t \in AllTasks, onToggle(t) PROVE ChartTypes'
  BY <1>0, <1>5 DEF onToggle, ChartTypes, Views, history
<1>6. CASE onAdd
  BY <1>0, <1>6 DEF onAdd, ChartTypes, Views, history
<1>7. CASE handleContinue
  <2>1. Edit("continue", "", checkedTasks) \in Edits
    BY ListedTasks, ChartRecords
  <2>2. QED
    BY <1>0, <1>7, <2>1 DEF handleContinue, ChartTypes, Views
<1>8. ASSUME NEW e \in Edits, SendEdit(e) PROVE ChartTypes'
  BY <1>0, <1>8 DEF SendEdit, ChartTypes, Views
<1>9. ASSUME NEW a \in Agents, handleRename(a) PROVE ChartTypes'
  <2>1. Edit("rename", a, <<>>) \in Edits
    BY ChartValues, ChartRecords
  <2>2. QED
    BY <1>8, <1>9, <2>1 DEF handleRename
<1>10. ASSUME NEW f \in AgentMaps, SendEdit(Edit("reassemble", "", f)) PROVE ChartTypes'
  BY <1>8, <1>10, ChartRecords
<1>11. ASSUME NEW a \in Agents, NEW b \in Agents, handleMerge(a, b) PROVE ChartTypes'
  <2> DEFINE f == [t \in DOMAIN view.chart.agentOf |->
                     IF view.chart.agentOf[t] \in {a, b} THEN a ELSE view.chart.agentOf[t]]
  <2>1. f \in AgentMaps
    BY ListedTasks, AgentMap
  <2>2. SendEdit(Edit("reassemble", "", f))
    BY <1>11 DEF handleMerge
  <2> HIDE DEF f
  <2>3. QED
    BY <1>10, <2>1, <2>2
<1>12. ASSUME NEW t \in AllTasks, handleSplit(t) PROVE ChartTypes'
  <2> DEFINE f == [view.chart.agentOf EXCEPT ![t] = "split"]
  <2>1. f \in AgentMaps
    BY ListedTasks, AgentMap, ChartValues
  <2>2. SendEdit(Edit("reassemble", "", f))
    BY <1>12 DEF handleSplit
  <2> HIDE DEF f
  <2>3. QED
    BY <1>10, <2>1, <2>2
<1>13. ASSUME NEW e \in inFlight, ServeEdit(e) PROVE ChartTypes'
  <2>1. e \in Edits
    BY <1>0
  <2>2. PICK c \in ShownCharts :
          /\ batch' = [batch EXCEPT !.chart = c]
          /\ inFlight' = (inFlight \ {e}) \cup {[e EXCEPT !.served = TRUE, !.result = c]}
    <3>1. CASE e.op = "rename"
      <4>1. e.agent \in Agents
        <5>1. e.agent \in agents(batch.chart)
          BY <1>13, <3>1 DEF ServeEdit
        <5>2. QED
          BY <5>1, ListedTasks, AgentMap DEF agents
      <4>2. [batch.chart EXCEPT !.renamed = @ \cup {e.agent}] \in ShownCharts
        BY <1>0, <4>1 DEF ShownCharts
      <4>3. QED
        BY <1>13, <3>1, <4>2 DEF ServeEdit
    <3>2. CASE e.op # "rename"
      <4>1. Chart(e.agentOf, {}) \in ShownCharts
        BY <2>1, ChartValues DEF Edits
      <4>2. QED
        BY <1>13, <3>2, <4>1 DEF ServeEdit
    <3>3. QED
      BY <3>1, <3>2
  <2>3. [e EXCEPT !.served = TRUE, !.result = c] \in Edits
    BY <2>1 DEF Edits
  <2>4. batch' \in StoredBatches
    BY <1>0, <2>2 DEF StoredBatches
  <2>5. view' = view /\ overlapped' = overlapped
    BY <1>13 DEF ServeEdit, history
  <2>6. QED
    BY <1>0, <2>2, <2>3, <2>4, <2>5 DEF ChartTypes
<1>14. ASSUME NEW e \in inFlight, ContinueReturns(e) PROVE ChartTypes'
  <2>1. [view EXCEPT !.kind = "error"] \in Views /\ View("org-chart") \in Views
    BY <1>0, ChartRecords DEF Views
  <2>2. view' \in {View("org-chart"), [view EXCEPT !.kind = "error"]}
    BY <1>14 DEF ContinueReturns
  <2>3. batch' = batch /\ inFlight' \subseteq inFlight /\ overlapped' = overlapped
    BY <1>14 DEF ContinueReturns, EditErrs
  <2>4. QED
    BY <1>0, <2>1, <2>2, <2>3 DEF ChartTypes
<1>15. ASSUME NEW e \in inFlight, EditReturns(e) PROVE ChartTypes'
  <2>1. e.result \in ShownCharts
    BY <1>0 DEF Edits
  <2>2. view' \in Views
    BY <1>0, <1>15, <2>1 DEF EditReturns, Views
  <2>3. batch' = batch /\ inFlight' \subseteq inFlight /\ overlapped' = overlapped
    BY <1>15 DEF EditReturns, EditErrs, history
  <2>4. QED
    BY <1>0, <2>2, <2>3 DEF ChartTypes
<1>16. QED
  BY <1>1, <1>2, <1>3, <1>4, <1>5, <1>6, <1>7, <1>9, <1>11, <1>12, <1>13, <1>14, <1>15
     DEF ChartScreensNext, AllTasks

\* What a new edit does to the invariants: it is no continue, and a chart it carries is
\* about the tasks of the chart on show.
LEMMA SendEditKeeps ==
  ASSUME ChartInv, onChart, NEW e \in Edits, SendEdit(e), e.op # "continue", e.served = FALSE,
         e.op = "reassemble" => DOMAIN e.agentOf = DOMAIN view.chart.agentOf
  PROVE  TasksInv' /\ ChosenInv' /\ OneEditInv'
<1>1. /\ inFlight' = inFlight \cup {e} /\ batch' = batch /\ chosen' = chosen
      /\ overlapped' = (overlapped \/ inFlight # {})
      /\ view' = [view EXCEPT !.busy = TRUE, !.saveError = FALSE]
  BY DEF SendEdit
<1>2. view \in Views /\ view.screen = "org-chart" /\ view.kind = "ready"
  BY DEF ChartInv, ChartTypes, onChart
<1>3. view'.screen = "org-chart" /\ view'.kind = "ready" /\ view'.chart = view.chart
  BY <1>1, <1>2 DEF Views
<1>4. TasksInv'
  BY <1>1, <1>2, <1>3 DEF ChartInv, TasksInv
<1>5. ChosenInv'
  BY <1>1, <1>2, <1>3 DEF ChartInv, ChosenInv
<1>6. OneEditInv'
  <2>1. SUFFICES ASSUME overlapped' = FALSE PROVE OneEditInv'
    BY DEF OneEditInv
  <2>2. inFlight = {}
    BY <1>1, <2>1
  <2>3. inFlight' = {e}
    BY <1>1, <2>2
  <2>4. QED
    BY <2>3 DEF OneEditInv
<1>7. QED
  BY <1>4, <1>5, <1>6

\* A served edit carries the chart the server now holds, about the same tasks.
LEMMA ServeEditKeeps ==
  ASSUME ChartInv, NEW e \in inFlight, ServeEdit(e)
  PROVE  TasksInv' /\ ChosenInv' /\ OneEditInv'
<1> DEFINE c == batch'.chart
           d == [e EXCEPT !.served = TRUE, !.result = c]
<1>1. /\ view \in Views /\ batch \in StoredBatches /\ e \in Edits /\ batch.chart \in ShownCharts
  BY DEF ChartInv, ChartTypes, StoredBatches
<1>2. view' = view /\ chosen' = chosen /\ overlapped' = overlapped /\ e.served = FALSE
  BY <1>1 DEF ServeEdit, history, Edits
<1>3. PICK x : /\ batch' = [batch EXCEPT !.chart = x]
               /\ inFlight' = (inFlight \ {e}) \cup {[e EXCEPT !.served = TRUE, !.result = x]}
               /\ x = IF e.op = "rename"
                      THEN [batch.chart EXCEPT !.renamed = @ \cup {e.agent}]
                      ELSE Chart(e.agentOf, {})
  BY DEF ServeEdit
<1>4. c = x /\ batch'.status = batch.status /\ inFlight' = (inFlight \ {e}) \cup {d}
  BY <1>1, <1>3 DEF StoredBatches
<1>5. /\ e.op = "rename" => DOMAIN c.agentOf = DOMAIN batch.chart.agentOf
      /\ e.op # "rename" => c.agentOf = e.agentOf
  BY <1>1, <1>3, <1>4 DEF ShownCharts, Chart
<1>6. d.op = e.op /\ d.agentOf = e.agentOf /\ d.served = TRUE /\ d.result = c
  BY <1>1 DEF Edits
<1> HIDE DEF c, d
<1>7. view.screen \in {"tasks", "org-chart"} /\ view.kind = "ready"
  BY <1>1 DEF ChartInv, TasksInv, Views
<1>8. CASE view.screen = "tasks"
  <2>1. e.op = "continue" /\ DOMAIN e.agentOf = chosen /\ inFlight' = {d}
    BY <1>4, <1>8 DEF ChartInv, TasksInv
  <2>2. DOMAIN batch'.chart.agentOf = chosen
    BY <2>1, <1>5 DEF c
  <2>3. TasksInv'
    BY <1>2, <1>4, <1>6, <1>7, <1>8, <2>1, <2>2 DEF ChartInv, TasksInv
  <2>4. QED
    BY <1>2, <1>8, <2>3 DEF ChosenInv, OneEditInv
<1>9. CASE view.screen = "org-chart"
  <2>1. e.op \in {"rename", "reassemble"}
    BY <1>1, <1>9 DEF ChartInv, TasksInv, Edits
  <2>2. TasksInv'
    BY <1>2, <1>4, <1>6, <1>7, <1>9, <2>1 DEF ChartInv, TasksInv
  <2>3. ChosenInv'
    <3>1. SUFFICES ASSUME chosen # {} PROVE ChosenInv'
      BY <1>2 DEF ChosenInv
    <3>2. /\ DOMAIN batch.chart.agentOf = chosen /\ DOMAIN view.chart.agentOf = chosen
          /\ e.op = "reassemble" => DOMAIN e.agentOf = chosen
      BY <3>1, <1>7, <1>9 DEF ChartInv, ChosenInv
    <3>3. DOMAIN c.agentOf = chosen
      BY <3>2, <2>1, <1>5
    <3>4. \A f \in inFlight \ {e} :
            /\ f.op = "reassemble" => DOMAIN f.agentOf = chosen
            /\ f.served = TRUE => DOMAIN f.result.agentOf = chosen
      BY <3>1, <1>9 DEF ChartInv, ChosenInv
    <3>5. \A f \in inFlight' :
            /\ f.op = "reassemble" => DOMAIN f.agentOf = chosen
            /\ f.served = TRUE => DOMAIN f.result.agentOf = chosen
      BY <1>4, <1>6, <3>2, <3>3, <3>4
    <3>6. DOMAIN batch'.chart.agentOf = chosen
      BY <3>3 DEF c
    <3>7. QED
      BY <1>2, <3>2, <3>5, <3>6 DEF ChosenInv
  <2>4. OneEditInv'
    <3>1. SUFFICES ASSUME overlapped = FALSE PROVE OneEditInv'
      BY <1>2 DEF OneEditInv
    <3>2. \A f \in inFlight : f = e
      BY <3>1, <1>7, <1>9 DEF ChartInv, OneEditInv
    <3>3. inFlight' = {d}
      BY <3>2, <1>4
    <3>4. QED
      BY <3>3, <1>6 DEF OneEditInv, c
  <2>5. QED
    BY <2>2, <2>3, <2>4
<1>10. QED
  BY <1>7, <1>8, <1>9

\* The response of a continue, and of an edit of the org chart.
LEMMA ResponseKeeps ==
  ASSUME ChartInv, NEW e \in inFlight, ContinueReturns(e) \/ EditReturns(e)
  PROVE  TasksInv' /\ ChosenInv' /\ OneEditInv'
<1>1. view \in Views /\ e \in Edits
  BY DEF ChartInv, ChartTypes
<1>2. view.kind = "ready" /\ view.screen \in {"tasks", "org-chart"}
  BY <1>1 DEF ChartInv, TasksInv, Views
<1>3. CASE ContinueReturns(e)
  <2>1. view.screen = "tasks" /\ inFlight' = {} /\ batch' = batch
    BY <1>2, <1>3 DEF ChartInv, TasksInv, ContinueReturns, EditErrs
  <2>2. CASE e.served /\ view' = View("org-chart") /\ chosen' = chosen
    <3>1. view'.screen = "org-chart" /\ view'.kind = "loading"
      BY <2>2, ChartRecords
    <3>2. e.served = TRUE
      BY <1>1, <2>2 DEF Edits
    <3>3. DOMAIN batch.chart.agentOf = chosen
      BY <3>2, <2>1 DEF ChartInv, TasksInv
    <3>4. QED
      BY <2>1, <2>2, <3>1, <3>3 DEF ChartInv, TasksInv, ChosenInv, OneEditInv
  <2>3. CASE view' = [view EXCEPT !.kind = "error"] /\ chosen' = {}
    <3>1. view'.screen = "tasks" /\ view'.kind = "error"
      BY <2>1, <2>3, <1>1 DEF Views
    <3>2. QED
      BY <2>1, <2>3, <3>1 DEF TasksInv, ChosenInv, OneEditInv
  <2>4. QED
    BY <1>3, <2>2, <2>3 DEF ContinueReturns
<1>4. CASE EditReturns(e)
  <2>1. /\ view.screen = "org-chart" /\ inFlight' = inFlight \ {e}
        /\ batch' = batch /\ chosen' = chosen /\ overlapped' = overlapped
    BY <1>2, <1>4 DEF ChartInv, TasksInv, EditReturns, EditErrs, history
  <2>2. CASE e.served = TRUE /\ view' = [view EXCEPT !.chart = e.result, !.busy = FALSE]
    <3>1. view'.screen = "org-chart" /\ view'.kind = "ready" /\ view'.chart = e.result
      BY <1>1, <1>2, <2>1, <2>2 DEF Views
    <3>2. TasksInv'
      BY <1>2, <2>1, <3>1 DEF ChartInv, TasksInv
    <3>3. ChosenInv'
      BY <2>1, <2>2, <3>1, <1>2 DEF ChartInv, ChosenInv
    <3>4. OneEditInv'
      BY <2>1, <2>2, <3>1, <1>2 DEF ChartInv, OneEditInv
    <3>5. QED
      BY <3>2, <3>3, <3>4
  <2>3. CASE view' = [view EXCEPT !.saveError = TRUE, !.busy = FALSE]
    <3>1. /\ view'.screen = "org-chart" /\ view'.kind = "ready" /\ view'.chart = view.chart
          /\ view'.saveError = TRUE
      BY <1>1, <1>2, <2>1, <2>3 DEF Views
    <3>2. TasksInv'
      BY <1>2, <2>1, <3>1 DEF ChartInv, TasksInv
    <3>3. ChosenInv'
      BY <2>1, <3>1, <1>2 DEF ChartInv, ChosenInv
    <3>4. OneEditInv'
      BY <2>1, <3>1, <1>2 DEF ChartInv, OneEditInv
    <3>5. QED
      BY <3>2, <3>3, <3>4
  <2>4. e.served \in BOOLEAN
    BY <1>1 DEF Edits
  <2>5. QED
    BY <1>4, <2>2, <2>3, <2>4 DEF EditReturns
<1>5. QED
  BY <1>3, <1>4

\* The screens keep their invariants.
LEMMA ChartInvStep == ChartInv /\ [ChartScreensNext]_chartScreensVars => ChartInv'
<1> SUFFICES ASSUME ChartInv, [ChartScreensNext]_chartScreensVars PROVE ChartInv'
  OBVIOUS
<1>a. CASE UNCHANGED chartScreensVars
  BY <1>a DEF chartScreensVars, ChartInv, ChartTypes, TasksInv, ChosenInv, OneEditInv
<1> SUFFICES ASSUME ChartScreensNext PROVE TasksInv' /\ ChosenInv' /\ OneEditInv'
  BY <1>a, ChartTypesStep DEF ChartInv
<1>0. /\ batch \in StoredBatches /\ view \in Views /\ inFlight \subseteq Edits
      /\ TasksInv /\ ChosenInv /\ OneEditInv
  BY DEF ChartInv, ChartTypes
<1>1. CASE BatchEnds
  <2>1. view' = view /\ inFlight' = inFlight /\ chosen' = chosen /\ batch.status = "running"
    BY <1>1 DEF BatchEnds, history
  <2>2. view.kind # "ready" /\ inFlight = {} /\ chosen = {}
    BY <1>0, <2>1 DEF TasksInv
  <2>3. QED
    BY <2>1, <2>2 DEF TasksInv, ChosenInv, OneEditInv
<1>2. CASE BatchClaimed
  <2>1. batch'.status = batch.status /\ batch'.chart = batch.chart
    BY <1>0, <1>2 DEF BatchClaimed, StoredBatches
  <2>2. view' = view /\ inFlight' = inFlight /\ chosen' = chosen /\ overlapped' = overlapped
    BY <1>2 DEF BatchClaimed, history
  <2>3. QED
    BY <1>0, <2>1, <2>2 DEF TasksInv, ChosenInv, OneEditInv
<1>3. CASE Load
  <2>1. batch' = batch /\ inFlight = {} /\ inFlight' = {} /\ chosen' = chosen
    BY <1>0, <1>3 DEF Load, TasksInv, history
  <2>2. CASE view' = Shown(batch)
    <3>1. view'.screen = view.screen
      BY <1>0, <2>2 DEF Shown, Views
    <3>2. view'.kind = "ready" => view'.chart = batch.chart /\ batch.status = "completed"
      BY <1>0, <2>2 DEF Shown, Views, StoredBatches
    <3>3. QED
      BY <1>0, <2>1, <3>1, <3>2 DEF TasksInv, ChosenInv, OneEditInv
  <2>3. CASE view' = View("home")
    <3>1. view'.screen = "home" /\ view'.kind = "loading"
      BY <2>3, ChartRecords
    <3>2. QED
      BY <1>0, <2>1, <3>1 DEF TasksInv, ChosenInv, OneEditInv
  <2>4. CASE view' = [view EXCEPT !.kind = "error"]
    <3>1. view'.screen = view.screen /\ view'.kind = "error"
      BY <1>0, <2>4 DEF Views
    <3>2. QED
      BY <1>0, <2>1, <3>1 DEF TasksInv, ChosenInv, OneEditInv
  <2>5. QED
    BY <1>3, <2>2, <2>3, <2>4 DEF Load
<1>4. ASSUME NEW screen \in {"home", "tasks", "org-chart"}, OpenScreen(screen)
      PROVE  TasksInv' /\ ChosenInv' /\ OneEditInv'
  <2>1. view'.screen = screen /\ view'.kind = "loading"
    BY <1>4, ChartRecords DEF OpenScreen
  <2>2. inFlight' = {} /\ chosen' = {} /\ batch' = batch
    BY <1>4 DEF OpenScreen
  <2>3. QED
    BY <2>1, <2>2 DEF TasksInv, ChosenInv, OneEditInv
<1>5. CASE onAdd \/ \E t \in AllTasks : onToggle(t)
  <2>1. /\ batch' = batch /\ inFlight' = inFlight /\ chosen' = chosen
        /\ view.screen = "tasks" /\ view.kind = "ready"
    BY <1>5 DEF onAdd, onToggle, onTasks, history
  <2>2. view'.screen = "tasks" /\ view'.kind = "ready" /\ view'.submitting = view.submitting
    BY <1>0, <1>5, <2>1 DEF onAdd, onToggle, Views
  <2>3. QED
    BY <1>0, <2>1, <2>2 DEF TasksInv, ChosenInv, OneEditInv
<1>6. CASE handleContinue
  <2> DEFINE e == Edit("continue", "", checkedTasks)
  <2>a. checkedTasks \in AgentMaps
    BY ListedTasks DEF ChartInv
  <2>1. e.op = "continue" /\ e.agentOf = checkedTasks /\ e.served = FALSE
    BY <2>a, NewEdits, Zenon
  <2> HIDE DEF e
  <2>2. /\ batch' = batch /\ chosen' = DOMAIN checkedTasks /\ view.submitting = FALSE
        /\ view.screen = "tasks" /\ view.kind = "ready" /\ inFlight' = inFlight \cup {e}
        /\ view' = [view EXCEPT !.submitting = TRUE]
    BY <1>0, <1>6 DEF handleContinue, onTasks, Views, e
  <2>3. view'.screen = "tasks" /\ view'.kind = "ready" /\ view'.submitting = TRUE
    BY <1>0, <2>2 DEF Views
  <2>4. inFlight' = {e} /\ batch.status = "completed"
    BY <1>0, <2>2 DEF TasksInv
  <2>5. QED
    BY <2>1, <2>2, <2>3, <2>4 DEF TasksInv, ChosenInv, OneEditInv
<1>7. ASSUME NEW a \in Agents, handleRename(a) PROVE TasksInv' /\ ChosenInv' /\ OneEditInv'
  <2> DEFINE e == Edit("rename", a, <<>>)
  <2>1. e \in Edits /\ e.op = "rename" /\ e.served = FALSE
    BY NewEdits, Zenon
  <2>2. onChart /\ SendEdit(e)
    BY <1>7 DEF handleRename
  <2> HIDE DEF e
  <2>3. QED
    BY <2>1, <2>2, SendEditKeeps
<1>8. ASSUME NEW a \in Agents, NEW b \in Agents, handleMerge(a, b)
      PROVE  TasksInv' /\ ChosenInv' /\ OneEditInv'
  <2> DEFINE f == [t \in DOMAIN view.chart.agentOf |->
                     IF view.chart.agentOf[t] \in {a, b} THEN a ELSE view.chart.agentOf[t]]
             e == Edit("reassemble", "", f)
  <2>1. f \in AgentMaps /\ DOMAIN f = DOMAIN view.chart.agentOf
    BY ListedTasks, AgentMap DEF ChartInv
  <2>2. onChart /\ SendEdit(e)
    BY <1>8 DEF handleMerge
  <2> HIDE DEF f
  <2>3. e \in Edits /\ e.op = "reassemble" /\ e.served = FALSE /\ e.agentOf = f
    BY <2>1, NewEdits, Zenon
  <2> HIDE DEF e
  <2>4. QED
    BY <2>1, <2>2, <2>3, SendEditKeeps
<1>9. ASSUME NEW t \in AllTasks, handleSplit(t) PROVE TasksInv' /\ ChosenInv' /\ OneEditInv'
  <2> DEFINE f == [view.chart.agentOf EXCEPT ![t] = "split"]
             e == Edit("reassemble", "", f)
  <2>1. f \in AgentMaps /\ DOMAIN f = DOMAIN view.chart.agentOf
    BY ListedTasks, AgentMap, ChartValues DEF ChartInv
  <2>2. onChart /\ SendEdit(e)
    BY <1>9 DEF handleSplit
  <2> HIDE DEF f
  <2>3. e \in Edits /\ e.op = "reassemble" /\ e.served = FALSE /\ e.agentOf = f
    BY <2>1, NewEdits, Zenon
  <2> HIDE DEF e
  <2>4. QED
    BY <2>1, <2>2, <2>3, SendEditKeeps
<1>10. ASSUME NEW e \in inFlight, ServeEdit(e) \/ ContinueReturns(e) \/ EditReturns(e)
       PROVE  TasksInv' /\ ChosenInv' /\ OneEditInv'
  BY <1>10, ServeEditKeeps, ResponseKeeps
<1>11. QED
  BY <1>1, <1>2, <1>3, <1>4, <1>5, <1>6, <1>7, <1>8, <1>9, <1>10 DEF ChartScreensNext, AllTasks

LEMMA ChartInvInit == ChartScreensInit => ChartInv
<1> SUFFICES ASSUME ChartScreensInit PROVE ChartInv
  OBVIOUS
<1>1. batch \in StoredBatches
  BY ChartValues DEF ChartScreensInit, StoredBatches
<1>2. view \in Views /\ view.screen = "tasks" /\ view.kind = "loading"
  BY ChartRecords DEF ChartScreensInit
<1>3. inFlight = {} /\ chosen = {} /\ overlapped = FALSE
  BY DEF ChartScreensInit
<1>4. QED
  BY <1>1, <1>2, <1>3 DEF ChartInv, ChartTypes, TasksInv, ChosenInv, OneEditInv

LEMMA ChartShown == ChartInv => ChartIsTheServers
<1> SUFFICES ASSUME ChartInv PROVE ChartIsTheServers
  OBVIOUS
<1>1. chosen # {} /\ view.screen = "org-chart" => DOMAIN batch.chart.agentOf = chosen
  BY DEF ChartInv, ChosenInv
<1>2. onChart /\ inFlight = {} /\ ~overlapped /\ ~view.saveError => view.chart = batch.chart
  <2>1. overlapped \in BOOLEAN /\ view.saveError \in BOOLEAN
    BY DEF ChartInv, ChartTypes, Views
  <2>2. QED
    BY <2>1 DEF ChartInv, OneEditInv, onChart
<1>3. QED
  BY <1>1, <1>2 DEF ChartIsTheServers

-----------------------------------------------------------------------------
(* The approval queue, the wizard and the charter.                           *)

Verdicts == {"view", "reject", "modify"}
Kept == STRING \cup {NoText, "save", "accept"} \cup Verdicts \cup TaskTypes \cup Providers \cup CharterTexts
Servers == [resolved : [ToSet(Items) -> Kept], active : SUBSET Kept, offered : SUBSET Kept,
            keys : SUBSET Kept, ceiling : BOOLEAN, draft : Kept, charter : Kept]
Queues == [kind : {"loading", "ready", "error"}, items : SUBSET DOMAIN Items, index : Nat,
           mode : Verdicts, text : Kept, submitting : BOOLEAN, error : BOOLEAN,
           active : SUBSET Kept, accepting : Kept]
Wizards == [kind : {"loading", "connected-summary", "choose", "walkthrough", "ceiling", "spend-cap", "done"},
            provider : Kept, status : {"idle", "validating", "error"}, visit : Nat, saving : BOOLEAN]
CharterViews == [kind : {"loading", "installed", "creating", "editing", "empty", "accepted"},
                 content : Kept, shownAt : Kept, saving : BOOLEAN, accepting : BOOLEAN, error : BOOLEAN]
ScreenRequests ==
  [op : {"resolve", "acceptOffer", "connect", "setCeiling", "createDraft", "updateDraft", "acceptDraft"},
   about : Kept, value : Kept, visit : Nat, served : BOOLEAN]

ScreensTypes ==
  /\ server \in Servers /\ queue \in Queues /\ wizard \in Wizards /\ charter \in CharterViews
  /\ requests \subseteq ScreenRequests

\* A verdict is about an item; a request that was served has had its effect.
ServedInv ==
  \A r \in requests :
    /\ r.op = "resolve" => /\ r.about \in ToSet(Items) /\ r.value \in Verdicts
                           /\ r.served = TRUE => server.resolved[r.about] # NoText
    /\ r.op = "acceptOffer" /\ r.served = TRUE => r.about \in server.active
    /\ r.op = "connect" /\ r.served = TRUE => r.about \in server.keys
    /\ r.op = "setCeiling" => /\ r.about \in server.keys
                              /\ r.served = TRUE => server.ceiling = TRUE

QueueInv ==
  /\ queue.kind = "loading" => queue.index = 0
  /\ QueueHidesOnlyResolved

\* Of the charter's page one request is in flight at most; while it hands over, it
\* carries, or has stored, the charter that was on show.
HandoverInv ==
  /\ page # "charter" => charter.kind = "loading"
  /\ page = "charter" =>
       /\ \A r, q \in requests : r = q
       /\ charter.kind \in {"loading", "installed", "empty", "accepted"} => requests = {}
       /\ charter.kind = "editing" /\ charter.saving = FALSE /\ charter.accepting = FALSE => requests = {}
       /\ \A r \in requests :
            \/ charter.kind = "creating" /\ r.op = "createDraft"
            \/ /\ charter.kind = "editing"
               /\ \/ charter.accepting = FALSE /\ r.op = "updateDraft" /\ r.about = "save"
                  \/ /\ charter.saving = FALSE /\ r.op = "updateDraft" /\ r.about = "accept"
                     /\ r.value = charter.shownAt
                     /\ r.served = TRUE => server.draft = charter.shownAt
                  \/ /\ charter.saving = FALSE /\ r.op = "acceptDraft"
                     /\ r.served = FALSE => server.draft = charter.shownAt
                     /\ r.served = TRUE => server.charter = charter.shownAt

ScreensInv ==
  /\ ScreensTypes /\ ServedInv /\ QueueInv /\ ConnectedMeansStored
  /\ HandoverInv /\ AcceptedIsWhatWasShown

\* Of a finite set of numbers, the one with i others below it.
LEMMA ElementAt ==
  ASSUME NEW n \in Nat, NEW S \in SUBSET (1 .. n), NEW i \in Nat, i < Cardinality(S)
  PROVE  \E k \in S : Cardinality({j \in S : j < k}) = i
<1> DEFINE Below(k) == {j \in S : j < k}
<1>0. \A x \in S : x \in Nat /\ 0 < x /\ x < n + 1
  <2>1. \A x \in 1 .. n : x \in Nat /\ 0 < x /\ x < n + 1
    OBVIOUS
  <2>2. QED
    BY <2>1
<1>1. IsFiniteSet(S)
  <2>1. IsFiniteSet(1 .. n)
    BY FS_Interval
  <2>2. QED
    BY <2>1, FS_Subset, Zenon
<1>2. ASSUME NEW k PROVE IsFiniteSet(Below(k)) /\ Cardinality(Below(k)) \in Nat
  BY <1>1, FS_Subset, FS_CardinalityType
<1>3. PICK B : B = {k \in Nat : i < Cardinality(Below(k))}
  OBVIOUS
<1>4. n + 1 \in B
  <2>1. Below(n + 1) = S
    BY <1>0
  <2>2. QED
    BY <1>3, <2>1
<1>5. PICK m \in B : \A y \in B : ~(<<y, m>> \in OpToRel(<, Nat))
  <2>1. B \subseteq Nat /\ B # {}
    BY <1>3, <1>4
  <2>2. QED
    BY <2>1, WFMin, NatLessThanWellFounded
<1>6. m \in Nat /\ i < Cardinality(Below(m)) /\ \A y \in B : ~(y < m)
  BY <1>3, <1>5 DEF OpToRel
<1>7. m # 0
  <2>1. \A j \in S : ~(j < 0)
    BY <1>0
  <2>a. Below(0) = {}
    BY <2>1
  <2>2. Cardinality(Below(0)) = 0
    BY <2>a, FS_EmptySet
  <2>3. QED
    BY <1>6, <2>2
<1>8. PICK p \in Nat : m = p + 1
  <2>1. m - 1 \in Nat /\ m = (m - 1) + 1
    BY <1>6, <1>7
  <2>2. QED
    BY <2>1
<1>9. Cardinality(Below(p)) <= i
  <2>1. p \notin B
    BY <1>6, <1>8
  <2>2. QED
    BY <1>2, <1>3, <2>1
<1>10. p \in S /\ Below(m) = Below(p) \cup {p}
  <2>1. \A j \in S : j < m <=> j < p \/ j = p
    BY <1>0, <1>8
  <2>2. CASE p \notin S
    <3>1. \A j \in S : j < m <=> j < p
      BY <2>1, <2>2
    <3>2. Below(m) = Below(p)
      BY <3>1
    <3>3. QED
      BY <1>2, <1>6, <1>9, <3>2
  <2>3. CASE p \in S
    BY <2>1, <2>3
  <2>4. QED
    BY <2>2, <2>3
<1>11. Cardinality(Below(m)) = Cardinality(Below(p)) + 1
  <2>1. p \notin Below(p)
    OBVIOUS
  <2>2. QED
    BY <1>2, <1>10, <2>1, FS_AddElement
<1>12. Cardinality(Below(p)) = i
  <2>1. PICK c \in Nat : c = Cardinality(Below(p))
    BY <1>2
  <2>2. QED
    BY <1>6, <1>9, <1>11, <2>1
<1>13. QED
  BY <1>10, <1>12

\* Items is a sequence of strings: its positions, and what they hold.
LEMMA ItemFacts ==
  /\ Len(Items) \in Nat /\ DOMAIN Items = 1 .. Len(Items)
  /\ \A k \in DOMAIN Items : Items[k] \in ToSet(Items)
  /\ ToSet(Items) \subseteq Kept /\ NoText \in Kept
<1>1. Items \in Seq(STRING)
  BY ScreensAssumption
<1>2. Len(Items) \in Nat /\ DOMAIN Items = 1 .. Len(Items) /\ \A k \in DOMAIN Items : Items[k] \in STRING
  BY <1>1
<1>3. \A k \in DOMAIN Items : Items[k] \in ToSet(Items)
  BY DEF ToSet
<1>4. ToSet(Items) \subseteq STRING
  BY <1>2 DEF ToSet
<1>5. STRING \subseteq Kept /\ NoText \in Kept
  BY DEF Kept
<1>6. QED
  BY <1>2, <1>3, <1>4, <1>5

\* The list on show is finite; the item on show is one of them.
LEMMA ShownFacts ==
  ASSUME ScreensTypes
  PROVE  /\ queue.items \in SUBSET (1 .. Len(Items)) /\ queue.index \in Nat
         /\ \A P : /\ IsFiniteSet(queue.items \ P) /\ Cardinality(queue.items \ P) \in Nat
                   /\ queue.items \ P # {} => Cardinality(queue.items \ P) # 0
         /\ shown \in Nat /\ (queue.items # {} => shown # 0)
<1>1. queue.items \in SUBSET (1 .. Len(Items)) /\ queue.index \in Nat
  BY ItemFacts DEF ScreensTypes, Queues
<1>2. IsFiniteSet(queue.items)
  <2>1. IsFiniteSet(1 .. Len(Items))
    BY ItemFacts, FS_Interval
  <2>2. QED
    BY <1>1, <2>1, FS_Subset, Zenon
<1>3. ASSUME NEW P
      PROVE  /\ IsFiniteSet(queue.items \ P) /\ Cardinality(queue.items \ P) \in Nat
             /\ queue.items \ P # {} => Cardinality(queue.items \ P) # 0
  BY <1>2, FS_Subset, FS_CardinalityType, FS_EmptySet
<1>4. shown \in Nat /\ (queue.items # {} => shown # 0)
  BY <1>2, FS_CardinalityType, FS_EmptySet DEF shown
<1>5. QED
  BY <1>1, <1>3, <1>4

LEMMA ItemOnShow ==
  ASSUME ScreensTypes, QueueInv, showsItem
  PROVE  item \in ToSet(Items) /\ item \in Kept
<1>1. queue.index < Cardinality(queue.items)
  BY DEF QueueInv, QueueHidesOnlyResolved, showsItem, shown
<1>2. \E k \in queue.items : Cardinality({j \in queue.items : j < k}) = queue.index
  BY <1>1, ShownFacts, ItemFacts, ElementAt
<1>3. at(queue.index) \in queue.items
  BY <1>2 DEF at
<1>4. QED
  BY <1>3, ShownFacts, ItemFacts DEF item

\* A list without some of its items: the index stays on an item.
LEMMA Without ==
  ASSUME ScreensTypes, NEW P
  PROVE  /\ without(P) \in Queues /\ without(P).items = queue.items \ P
         /\ without(P).kind = queue.kind /\ without(P).active = queue.active
         /\ without(P).items # {} => without(P).index < Cardinality(without(P).items)
         /\ queue.index = 0 => without(P).index = 0
<1>1. PICK I : I = queue.items \ P
  OBVIOUS
<1>2. PICK c \in Nat : c = Cardinality(I) /\ (I # {} => c # 0)
  BY <1>1, ShownFacts
<1>3. PICK x : x = IF I = {} THEN 0 ELSE IF queue.index >= c THEN c - 1 ELSE queue.index
  OBVIOUS
<1>4. x \in Nat /\ (I # {} => x < c) /\ (queue.index = 0 => x = 0)
  BY <1>2, <1>3, ShownFacts
<1>5. without(P) = [queue EXCEPT !.items = I, !.index = x]
  BY <1>1, <1>2, <1>3 DEF without
<1>6. I \in SUBSET DOMAIN Items /\ queue \in Queues
  BY <1>1 DEF ScreensTypes, Queues
<1>7. /\ without(P) \in Queues /\ without(P).items = I /\ without(P).index = x
      /\ without(P).kind = queue.kind /\ without(P).active = queue.active
  BY <1>4, <1>5, <1>6 DEF Queues
<1>8. QED
  BY <1>1, <1>2, <1>4, <1>7

\* What the screens send is kept in one set of values.
LEMMA TextsKept ==
  /\ \A t \in TaskTypes : t \in Kept
  /\ \A p \in Providers : p \in Kept
  /\ \A c \in CharterTexts : c \in Kept
  /\ \A v \in Verdicts : v \in Kept
  /\ "save" \in Kept /\ "accept" \in Kept
BY DEF Kept

\* What a new request must be like: requests are answered, or such a one is sent.
NewRequestOK(r) ==
  /\ r \in ScreenRequests /\ r.served = FALSE
  /\ r.op = "resolve" => r.about \in ToSet(Items) /\ r.value \in Verdicts
  /\ r.op = "setCeiling" => r.about \in server.keys

LEMMA RequestsKeep ==
  ASSUME ScreensInv, server' = server,
         \/ requests' \subseteq requests
         \/ \E r : NewRequestOK(r) /\ requests' = requests \cup {r}
         \/ \E r, q : NewRequestOK(r) /\ requests' = (requests \ {q}) \cup {r}
  PROVE  ServedInv' /\ requests' \subseteq ScreenRequests
<1>1. \A r \in requests' : r \in requests \/ NewRequestOK(r)
  OBVIOUS
<1>2. requests' \subseteq ScreenRequests
  BY <1>1 DEF ScreensInv, ScreensTypes, NewRequestOK
<1>3. ServedInv'
  BY <1>1 DEF ScreensInv, ServedInv, NewRequestOK
<1>4. QED
  BY <1>2, <1>3

\* A step of the approval queue.
LEMMA OnQueueKeeps ==
  ASSUME ScreensInv, OnQueue, queue' \in Queues, QueueInv',
         \/ requests' \subseteq requests
         \/ \E r : NewRequestOK(r) /\ requests' = requests \cup {r}
  PROVE  ScreensInv'
<1>1. /\ page = "approvals" /\ page' = page /\ server' = server /\ wizard' = wizard
      /\ charter' = charter
  BY DEF OnQueue
<1>2. ServedInv' /\ requests' \subseteq ScreenRequests
  BY <1>1, RequestsKeep
<1>3. charter.kind = "loading"
  BY <1>1 DEF ScreensInv, HandoverInv
<1>4. HandoverInv' /\ AcceptedIsWhatWasShown'
  BY <1>1, <1>3 DEF HandoverInv, AcceptedIsWhatWasShown
<1>5. ConnectedMeansStored'
  BY <1>1 DEF ScreensInv, ConnectedMeansStored
<1>6. ScreensTypes'
  BY <1>1, <1>2 DEF ScreensInv, ScreensTypes
<1>7. QED
  BY <1>2, <1>4, <1>5, <1>6 DEF ScreensInv

\* A step of the wizard.
LEMMA OnWizardKeeps ==
  ASSUME ScreensInv, OnWizard, wizard' \in Wizards, ConnectedMeansStored',
         \/ requests' \subseteq requests
         \/ \E r : NewRequestOK(r) /\ requests' = requests \cup {r}
  PROVE  ScreensInv'
<1>1. page = "connect" /\ page' = page /\ server' = server /\ queue' = queue /\ charter' = charter
  BY DEF OnWizard
<1>2. ServedInv' /\ requests' \subseteq ScreenRequests
  BY <1>1, RequestsKeep
<1>3. charter.kind = "loading"
  BY <1>1 DEF ScreensInv, HandoverInv
<1>4. HandoverInv' /\ AcceptedIsWhatWasShown'
  BY <1>1, <1>3 DEF HandoverInv, AcceptedIsWhatWasShown
<1>5. QueueInv'
  BY <1>1 DEF ScreensInv, QueueInv, QueueHidesOnlyResolved, shown
<1>6. ScreensTypes'
  BY <1>1, <1>2 DEF ScreensInv, ScreensTypes
<1>7. QED
  BY <1>2, <1>4, <1>5, <1>6 DEF ScreensInv

\* A step of the charter's page.
LEMMA OnCharterKeeps ==
  ASSUME ScreensInv, OnCharter, charter' \in CharterViews, HandoverInv', AcceptedIsWhatWasShown',
         \/ requests' \subseteq requests
         \/ \E r : NewRequestOK(r) /\ requests' = requests \cup {r}
         \/ \E r, q : NewRequestOK(r) /\ requests' = (requests \ {q}) \cup {r}
  PROVE  ScreensInv'
<1>1. page' = page /\ server' = server /\ queue' = queue /\ wizard' = wizard
  BY DEF OnCharter
<1>2. ServedInv' /\ requests' \subseteq ScreenRequests
  BY <1>1, RequestsKeep
<1>3. QueueInv'
  BY <1>1 DEF ScreensInv, QueueInv, QueueHidesOnlyResolved, shown
<1>4. ConnectedMeansStored'
  BY <1>1 DEF ScreensInv, ConnectedMeansStored
<1>5. ScreensTypes'
  BY <1>1, <1>2 DEF ScreensInv, ScreensTypes
<1>6. QED
  BY <1>2, <1>3, <1>4, <1>5 DEF ScreensInv

\* A request is served: what the server holds only grows, and holds what was asked for.
LEMMA ServeKeeps ==
  ASSUME ScreensInv, NEW r \in requests, Serve(r)
  PROVE  ScreensInv'
<1> DEFINE d == [r EXCEPT !.served = TRUE]
<1>1. server \in Servers /\ r \in ScreenRequests
  BY DEF ScreensInv, ScreensTypes
<1>2. /\ requests' = (requests \ {r}) \cup {d} /\ r.served = FALSE
      /\ page' = page /\ queue' = queue /\ wizard' = wizard /\ charter' = charter
  BY <1>1 DEF Serve, ScreenRequests
<1>3. /\ d \in ScreenRequests /\ d.op = r.op /\ d.about = r.about /\ d.value = r.value
      /\ d.served = TRUE
  BY <1>1 DEF ScreenRequests
<1> HIDE DEF d
<1>4. r.about \in Kept /\ r.value \in Kept
  BY <1>1 DEF ScreenRequests
<1>5. CASE r.op = "resolve"
  <2>1. r.about \in ToSet(Items) /\ r.value \in Verdicts
    BY <1>5 DEF ScreensInv, ServedInv
  <2>2. server' = [server EXCEPT !.resolved[r.about] = r.value]
    BY <1>5 DEF Serve
  <2>3. server.resolved \in [ToSet(Items) -> Kept]
    BY <1>1 DEF Servers
  <2>4. PICK f : f = [server.resolved EXCEPT ![r.about] = r.value]
    OBVIOUS
  <2>5. /\ f \in [ToSet(Items) -> Kept] /\ f[r.about] = r.value
        /\ \A i \in ToSet(Items) : i # r.about => f[i] = server.resolved[i]
    BY <1>4, <2>1, <2>3, <2>4
  <2>6. server' = [server EXCEPT !.resolved = f]
    BY <1>1, <2>2, <2>4
  <2>7. /\ server' \in Servers /\ server'.resolved = f /\ server'.active = server.active
        /\ server'.keys = server.keys /\ server'.ceiling = server.ceiling
    BY <1>1, <2>5, <2>6 DEF Servers
  <2>8. r.value # NoText
    BY <2>1 DEF Verdicts, NoText
  <2>9. /\ \A i \in ToSet(Items) : server.resolved[i] # NoText => server'.resolved[i] # NoText
        /\ server'.resolved[r.about] # NoText
    BY <2>5, <2>7, <2>8
  <2>10. ServedInv'
    BY <1>2, <1>3, <1>5, <2>1, <2>7, <2>9 DEF ScreensInv, ServedInv
  <2>11. QueueInv'
    BY <1>2, <2>7, <2>9, ItemFacts DEF ScreensInv, QueueInv, QueueHidesOnlyResolved, shown
  <2>12. ConnectedMeansStored'
    BY <1>2, <2>7 DEF ScreensInv, ConnectedMeansStored
  <2>13. HandoverInv' /\ AcceptedIsWhatWasShown'
    <3>1. page # "charter" /\ charter.kind = "loading"
      BY <1>5 DEF ScreensInv, HandoverInv
    <3>2. QED
      BY <3>1, <1>2 DEF HandoverInv, AcceptedIsWhatWasShown
  <2>14. ScreensTypes'
    BY <1>2, <1>3, <2>7 DEF ScreensInv, ScreensTypes
  <2>15. QED
    BY <2>10, <2>11, <2>12, <2>13, <2>14 DEF ScreensInv
<1>6. CASE r.op # "resolve"
  <2>1. /\ server' \in Servers /\ server'.resolved = server.resolved
        /\ server.active \subseteq server'.active /\ server.keys \subseteq server'.keys
        /\ server.ceiling = TRUE => server'.ceiling = TRUE
        /\ r.op = "acceptOffer" => r.about \in server'.active
        /\ r.op = "connect" => r.about \in server'.keys
        /\ r.op = "setCeiling" => server'.ceiling = TRUE
        /\ r.op = "updateDraft" => server'.draft = r.value
        /\ r.op = "acceptDraft" => server'.charter = server.draft
    <3>1. CASE r.op = "acceptOffer"
      <4>1. PICK O, A : O = server.offered \ {r.about} /\ A = server.active \cup {r.about}
        OBVIOUS
      <4>2. server' = [server EXCEPT !.offered = O, !.active = A]
        BY <1>1, <3>1, <4>1 DEF Serve, Servers
      <4>3. O \in SUBSET Kept /\ A \in SUBSET Kept
        BY <1>1, <1>4, <4>1 DEF Servers
      <4>4. /\ server' \in Servers /\ server'.resolved = server.resolved /\ server'.active = A
            /\ server'.keys = server.keys /\ server'.ceiling = server.ceiling
        BY <1>1, <4>2, <4>3 DEF Servers
      <4>5. QED
        BY <3>1, <4>1, <4>4
    <3>2. CASE r.op = "connect"
      BY <1>1, <1>4, <3>2 DEF Serve, Servers
    <3>3. CASE r.op = "setCeiling"
      BY <1>1, <1>4, <3>3 DEF Serve, Servers
    <3>4. CASE r.op = "createDraft"
      <4>1. PICK text \in CharterTexts :
              server' = IF server.draft = NoText THEN [server EXCEPT !.draft = text] ELSE server
        BY <3>4 DEF Serve
      <4>2. QED
        BY <1>1, <3>4, <4>1, TextsKept DEF Servers
    <3>5. CASE r.op = "updateDraft"
      BY <1>1, <1>4, <3>5 DEF Serve, Servers
    <3>6. CASE r.op = "acceptDraft"
      BY <1>1, <1>4, <3>6, ItemFacts DEF Serve, Servers
    <3>7. QED
      BY <1>1, <1>6, <3>1, <3>2, <3>3, <3>4, <3>5, <3>6 DEF ScreenRequests
  <2>2. ServedInv'
    <3>1. \A q \in requests \ {r} :
            /\ q.op = "resolve" => /\ q.about \in ToSet(Items) /\ q.value \in Verdicts
                                   /\ q.served = TRUE => server'.resolved[q.about] # NoText
            /\ q.op = "acceptOffer" /\ q.served = TRUE => q.about \in server'.active
            /\ q.op = "connect" /\ q.served = TRUE => q.about \in server'.keys
            /\ q.op = "setCeiling" => /\ q.about \in server'.keys
                                      /\ q.served = TRUE => server'.ceiling = TRUE
      BY <2>1 DEF ScreensInv, ServedInv
    <3>2. r.op = "setCeiling" => r.about \in server'.keys
      BY <2>1 DEF ScreensInv, ServedInv
    <3>3. QED
      BY <1>2, <1>3, <1>6, <2>1, <3>1, <3>2 DEF ServedInv
  <2>3. QueueInv'
    BY <1>2, <2>1 DEF ScreensInv, QueueInv, QueueHidesOnlyResolved, shown
  <2>4. ConnectedMeansStored'
    BY <1>2, <2>1 DEF ScreensInv, ConnectedMeansStored
  <2>5. AcceptedIsWhatWasShown'
    BY <1>2 DEF ScreensInv, HandoverInv, AcceptedIsWhatWasShown
  <2>6. HandoverInv'
    <3>1. CASE page # "charter"
      BY <1>2, <3>1 DEF ScreensInv, HandoverInv
    <3>2. CASE page = "charter"
      <4>1. requests' = {d}
        BY <1>2, <3>2 DEF ScreensInv, HandoverInv
      <4>2. \/ charter.kind = "creating" /\ r.op = "createDraft"
            \/ /\ charter.kind = "editing"
               /\ \/ charter.accepting = FALSE /\ r.op = "updateDraft" /\ r.about = "save"
                  \/ /\ charter.saving = FALSE /\ r.op = "updateDraft" /\ r.about = "accept"
                     /\ r.value = charter.shownAt
                  \/ /\ charter.saving = FALSE /\ r.op = "acceptDraft"
                     /\ server.draft = charter.shownAt
        BY <1>2, <3>2 DEF ScreensInv, HandoverInv
      <4>3. /\ ~(charter.kind \in {"loading", "installed", "empty", "accepted"})
            /\ ~(charter.kind = "editing" /\ charter.saving = FALSE /\ charter.accepting = FALSE)
        BY <3>2 DEF ScreensInv, HandoverInv
      <4>4. QED
        BY <1>2, <1>3, <2>1, <3>2, <4>1, <4>2, <4>3 DEF HandoverInv
    <3>3. QED
      BY <3>1, <3>2
  <2>7. ScreensTypes'
    BY <1>2, <1>3, <2>1 DEF ScreensInv, ScreensTypes
  <2>8. QED
    BY <2>2, <2>3, <2>4, <2>5, <2>6, <2>7 DEF ScreensInv
<1>7. QED
  BY <1>5, <1>6

\* The approval queue.
LEMMA QueueSteps ==
  ASSUME ScreensInv,
         \/ getApprovals \/ TypeText \/ submitVerdict
         \/ \E i \in 0 .. Len(Items) : GoTo(i)
         \/ \E m \in {"view", "reject", "modify"} : EnterMode(m)
         \/ \E t \in TaskTypes : handleAcceptOffer(t)
         \/ \E r \in requests : VerdictReturns(r) \/ OfferReturns(r)
  PROVE  ScreensInv'
<1>0. ScreensTypes /\ QueueInv /\ queue \in Queues /\ server \in Servers
  BY DEF ScreensInv, ScreensTypes
<1>1. CASE getApprovals
  <2>1. OnQueue /\ queue.kind = "loading" /\ requests' = requests /\ server' = server
    BY <1>1 DEF getApprovals, OnQueue
  <2>2. queue.index = 0
    BY <1>0, <2>1 DEF QueueInv
  <2>3. CASE queue' = [queue EXCEPT !.kind = "error"]
    <3>1. queue' \in Queues /\ queue'.kind = "error"
      BY <1>0, <2>3 DEF Queues
    <3>2. QueueInv'
      BY <3>1 DEF QueueInv, QueueHidesOnlyResolved
    <3>3. QED
      BY <2>1, <3>1, <3>2, OnQueueKeeps
  <2>4. CASE queue' = [queue EXCEPT !.kind = "ready", !.active = server.active,
                         !.items = {k \in DOMAIN Items : server.resolved[Items[k]] = NoText}]
    <3>1. PICK I : I = {k \in DOMAIN Items : server.resolved[Items[k]] = NoText}
      OBVIOUS
    <3>2. I \in SUBSET DOMAIN Items /\ server.active \in SUBSET Kept
      BY <1>0, <3>1 DEF Servers
    <3>3. queue' = [queue EXCEPT !.kind = "ready", !.active = server.active, !.items = I]
      BY <2>4, <3>1
    <3>4. /\ queue' \in Queues /\ queue'.items = I /\ queue'.active = server.active
          /\ queue'.index = 0 /\ queue'.kind = "ready"
      BY <1>0, <2>2, <3>2, <3>3 DEF Queues
    <3>5. IsFiniteSet(I)
      <4>1. IsFiniteSet(DOMAIN Items)
        BY ItemFacts, FS_Interval
      <4>2. QED
        BY <3>2, <4>1, FS_Subset, Zenon
    <3>6. I # {} => 0 < Cardinality(I)
      BY <3>5, FS_CardinalityType, FS_EmptySet
    <3>7. \A k \in DOMAIN Items \ I : server.resolved[Items[k]] # NoText
      BY <3>1
    <3>8. QueueInv'
      BY <2>1, <3>4, <3>6, <3>7 DEF QueueInv, QueueHidesOnlyResolved, shown
    <3>9. QED
      BY <2>1, <3>4, <3>8, OnQueueKeeps
  <2>5. QED
    BY <1>1, <2>3, <2>4 DEF getApprovals
<1>2. CASE TypeText
  <2>1. OnQueue /\ requests' = requests /\ server' = server
    BY <1>2 DEF TypeText, OnQueue, NoRequest
  <2>2. item \in Kept
    BY <1>0, <1>2, ItemOnShow DEF TypeText
  <2>3. PICK text \in Kept : queue' = [queue EXCEPT !.text = text]
    BY <1>2, <2>2 DEF TypeText
  <2>4. /\ queue' \in Queues /\ queue'.items = queue.items /\ queue'.active = queue.active
        /\ queue'.index = queue.index /\ queue'.kind = queue.kind
    BY <1>0, <2>3 DEF Queues
  <2>5. QueueInv'
    BY <1>0, <2>1, <2>4 DEF QueueInv, QueueHidesOnlyResolved, shown
  <2>6. QED
    BY <2>1, <2>4, <2>5, OnQueueKeeps
<1>3. CASE submitVerdict
  <2>1. OnQueue /\ server' = server /\ queue' = [queue EXCEPT !.submitting = TRUE, !.error = FALSE]
    BY <1>3 DEF submitVerdict, OnQueue
  <2>2. item \in Kept /\ item \in ToSet(Items) /\ queue.mode \in Verdicts
    BY <1>0, <1>3, ItemOnShow DEF submitVerdict, Queues
  <2>3. PICK r : r = Request("resolve", item, queue.mode, 0)
    OBVIOUS
  <2>4. r \in ScreenRequests /\ r.op = "resolve" /\ r.about = item /\ r.value = queue.mode /\ r.served = FALSE
    BY <2>2, <2>3, TextsKept DEF Request, ScreenRequests
  <2>5. NewRequestOK(r)
    BY <2>2, <2>4 DEF NewRequestOK
  <2>6. requests' = requests \cup {r}
    BY <1>3, <2>3 DEF submitVerdict, Send
  <2>7. /\ queue' \in Queues /\ queue'.items = queue.items /\ queue'.active = queue.active
        /\ queue'.index = queue.index /\ queue'.kind = queue.kind
    BY <1>0, <2>1 DEF Queues
  <2>8. QueueInv'
    BY <1>0, <2>1, <2>7 DEF QueueInv, QueueHidesOnlyResolved, shown
  <2>9. QED
    BY <2>1, <2>5, <2>6, <2>7, <2>8, OnQueueKeeps
<1>4. ASSUME NEW i \in 0 .. Len(Items), GoTo(i) PROVE ScreensInv'
  <2>1. /\ OnQueue /\ requests' = requests /\ server' = server /\ queue' = [queue EXCEPT !.index = i]
        /\ queue.kind = "ready" /\ i \in 0 .. shown - 1
    BY <1>4 DEF GoTo, OnQueue, NoRequest, showsItem
  <2>2. i \in Nat /\ i < shown
    BY <1>0, <2>1, ShownFacts, ItemFacts
  <2>3. /\ queue' \in Queues /\ queue'.items = queue.items /\ queue'.active = queue.active
        /\ queue'.index = i /\ queue'.kind = "ready"
    BY <1>0, <2>1, <2>2 DEF Queues
  <2>4. QueueInv'
    BY <1>0, <2>1, <2>2, <2>3 DEF QueueInv, QueueHidesOnlyResolved, shown
  <2>5. QED
    BY <2>1, <2>3, <2>4, OnQueueKeeps
<1>5. ASSUME NEW m \in {"view", "reject", "modify"}, EnterMode(m) PROVE ScreensInv'
  <2>1. OnQueue /\ requests' = requests /\ server' = server
    BY <1>5 DEF EnterMode, OnQueue, NoRequest
  <2>2. /\ queue' \in Queues /\ queue'.items = queue.items /\ queue'.active = queue.active
        /\ queue'.index = queue.index /\ queue'.kind = queue.kind
    BY <1>0, <1>5, ItemFacts DEF EnterMode, resetLocalState, Queues, Verdicts
  <2>3. QueueInv'
    BY <1>0, <2>1, <2>2 DEF QueueInv, QueueHidesOnlyResolved, shown
  <2>4. QED
    BY <2>1, <2>2, <2>3, OnQueueKeeps
<1>6. ASSUME NEW t \in TaskTypes, handleAcceptOffer(t) PROVE ScreensInv'
  <2>1. OnQueue /\ server' = server /\ queue' = [queue EXCEPT !.accepting = t]
    BY <1>6 DEF handleAcceptOffer, OnQueue
  <2>2. PICK r : r = Request("acceptOffer", t, NoText, 0)
    OBVIOUS
  <2>3. r \in ScreenRequests /\ r.op = "acceptOffer" /\ r.served = FALSE
    BY <2>2, TextsKept, ItemFacts DEF Request, ScreenRequests
  <2>4. NewRequestOK(r) /\ requests' = requests \cup {r}
    BY <1>6, <2>2, <2>3 DEF NewRequestOK, handleAcceptOffer, Send
  <2>5. /\ queue' \in Queues /\ queue'.items = queue.items /\ queue'.active = queue.active
        /\ queue'.index = queue.index /\ queue'.kind = queue.kind
    BY <1>0, <2>1, TextsKept DEF Queues
  <2>6. QueueInv'
    BY <1>0, <2>1, <2>5 DEF QueueInv, QueueHidesOnlyResolved, shown
  <2>7. QED
    BY <2>1, <2>4, <2>5, <2>6, OnQueueKeeps
<1>7. ASSUME NEW r \in requests, VerdictReturns(r) PROVE ScreensInv'
  <2>1. OnQueue /\ server' = server /\ requests' \subseteq requests /\ r \in ScreenRequests
    BY <1>0, <1>7 DEF VerdictReturns, OnQueue, Returns, Errs, ScreensTypes
  <2>2. CASE queue' = [queue EXCEPT !.submitting = FALSE, !.error = TRUE]
    <3>1. /\ queue' \in Queues /\ queue'.items = queue.items /\ queue'.active = queue.active
          /\ queue'.index = queue.index /\ queue'.kind = queue.kind
      BY <1>0, <2>2 DEF Queues
    <3>2. QueueInv'
      BY <1>0, <2>1, <3>1 DEF QueueInv, QueueHidesOnlyResolved, shown
    <3>3. QED
      BY <2>1, <3>1, <3>2, OnQueueKeeps
  <2>3. CASE /\ Returns(r)
             /\ queue' = [resetLocalState(removeItemAndAdvance(r.about)) EXCEPT !.submitting = FALSE]
    <3>1. PICK P : P = {k \in queue.items : Items[k] = r.about}
      OBVIOUS
    <3>2. PICK q : q = without(P)
      OBVIOUS
    <3>3. /\ q \in Queues /\ q.items = queue.items \ P /\ q.kind = queue.kind
          /\ q.active = queue.active /\ (q.items # {} => q.index < Cardinality(q.items))
          /\ (queue.index = 0 => q.index = 0)
      BY <1>0, <3>2, Without
    <3>4. queue' = [resetLocalState(q) EXCEPT !.submitting = FALSE]
      BY <2>3, <3>1, <3>2 DEF removeItemAndAdvance
    <3>5. /\ queue' \in Queues /\ queue'.items = q.items /\ queue'.active = q.active
          /\ queue'.index = q.index /\ queue'.kind = q.kind
      BY <3>3, <3>4, ItemFacts DEF resetLocalState, Queues, Verdicts
    <3>6. server.resolved[r.about] # NoText
      <4>1. r.op = "resolve" /\ r.served = TRUE
        BY <1>7, <2>1, <2>3 DEF VerdictReturns, Returns, ScreenRequests
      <4>2. QED
        BY <4>1 DEF ScreensInv, ServedInv
    <3>7. queue.kind = "ready" =>
            /\ \A k \in DOMAIN Items \ q.items : server.resolved[Items[k]] # NoText
            /\ q.active \subseteq server.active
      BY <1>0, <3>1, <3>3, <3>6 DEF QueueInv, QueueHidesOnlyResolved
    <3>8. QueueInv'
      BY <1>0, <2>1, <3>3, <3>5, <3>7 DEF QueueInv, QueueHidesOnlyResolved, shown
    <3>9. QED
      BY <2>1, <3>5, <3>8, OnQueueKeeps
  <2>4. QED
    BY <1>7, <2>2, <2>3 DEF VerdictReturns
<1>8. ASSUME NEW r \in requests, OfferReturns(r) PROVE ScreensInv'
  <2>1. /\ OnQueue /\ server' = server /\ requests' \subseteq requests /\ r \in ScreenRequests
        /\ r.op = "acceptOffer" /\ r.about \in Kept
    BY <1>0, <1>8 DEF OfferReturns, OnQueue, Returns, Errs, ScreensTypes, ScreenRequests
  <2>2. PICK A \in SUBSET Kept : /\ queue' = [queue EXCEPT !.active = A, !.accepting = NoText]
                                 /\ queue.active \subseteq server.active => A \subseteq server.active
    <3>1. queue.active \in SUBSET Kept
      BY <1>0 DEF Queues
    <3>2. CASE Returns(r) /\ queue' = [queue EXCEPT !.active = @ \cup {r.about}, !.accepting = NoText]
      <4>1. r.served = TRUE
        BY <2>1, <3>2 DEF Returns, ScreenRequests
      <4>2. r.about \in server.active
        BY <2>1, <4>1 DEF ScreensInv, ServedInv
      <4>3. queue' = [queue EXCEPT !.active = queue.active \cup {r.about}, !.accepting = NoText]
        BY <3>2
      <4>4. queue.active \cup {r.about} \in SUBSET Kept
        BY <2>1, <3>1
      <4>5. QED
        BY <4>2, <4>3, <4>4
    <3>3. CASE queue' = [queue EXCEPT !.accepting = NoText]
      <4>1. queue' = [queue EXCEPT !.active = queue.active, !.accepting = NoText]
        BY <1>0, <3>3 DEF Queues
      <4>2. QED
        BY <3>1, <4>1
    <3>4. QED
      BY <1>8, <3>2, <3>3 DEF OfferReturns
  <2>3. /\ queue' \in Queues /\ queue'.items = queue.items /\ queue'.active = A
        /\ queue'.index = queue.index /\ queue'.kind = queue.kind
    BY <1>0, <2>2, ItemFacts DEF Queues
  <2>4. QueueInv'
    BY <1>0, <2>1, <2>2, <2>3 DEF QueueInv, QueueHidesOnlyResolved, shown
  <2>5. QED
    BY <2>1, <2>3, <2>4, OnQueueKeeps
<1>9. QED
  BY <1>1, <1>2, <1>3, <1>4, <1>5, <1>6, <1>7, <1>8

\* The wizard that connects a key.
LEMMA WizardSteps ==
  ASSUME ScreensInv,
         \/ getBrainKeyStatus \/ onReconnect \/ onBack \/ handleConnect \/ handleSaveCeiling \/ onDone
         \/ \E p \in Providers : onChoose(p)
         \/ \E r \in requests : ConnectReturns(r) \/ CeilingReturns(r)
  PROVE  ScreensInv'
<1>0. /\ ScreensTypes /\ ConnectedMeansStored /\ wizard \in Wizards /\ server \in Servers
      /\ NoText \in Kept
  BY ItemFacts DEF ScreensInv, ScreensTypes
<1>1. CASE getBrainKeyStatus \/ onReconnect \/ onBack \/ \E p \in Providers : onChoose(p)
  <2>1. OnWizard /\ requests' = requests /\ server' = server
    BY <1>1 DEF getBrainKeyStatus, onReconnect, onBack, onChoose, OnWizard, NoRequest
  <2>2. /\ wizard' \in Wizards
        /\ wizard'.kind \in {"connected-summary", "choose", "walkthrough"}
    <3>1. CASE getBrainKeyStatus
      <4>1. PICK kind \in {"connected-summary", "choose"} : wizard' = [wizard EXCEPT !.kind = kind]
        BY <3>1 DEF getBrainKeyStatus
      <4>2. QED
        BY <1>0, <4>1 DEF Wizards
    <3>2. CASE onReconnect \/ onBack
      BY <1>0, <3>2 DEF onReconnect, onBack, Wizards
    <3>3. ASSUME NEW p \in Providers, onChoose(p)
          PROVE  wizard' \in Wizards /\ wizard'.kind = "walkthrough"
      <4>1. PICK n \in Nat : n = wizard.visit + 1
        BY <1>0 DEF Wizards
      <4>2. wizard' = [wizard EXCEPT !.kind = "walkthrough", !.provider = p, !.status = "idle", !.visit = n]
        BY <3>3, <4>1 DEF onChoose
      <4>3. QED
        BY <1>0, <4>2, TextsKept DEF Wizards
    <3>4. QED
      BY <1>1, <3>1, <3>2, <3>3
  <2>3. ConnectedMeansStored'
    BY <2>2 DEF ConnectedMeansStored
  <2>4. QED
    BY <2>1, <2>2, <2>3, OnWizardKeeps
<1>2. CASE handleConnect
  <2>1. OnWizard /\ server' = server /\ wizard' = [wizard EXCEPT !.status = "validating"] /\ wizard.kind = "walkthrough"
    BY <1>2 DEF handleConnect, OnWizard
  <2>2. PICK r : r = Request("connect", wizard.provider, NoText, wizard.visit)
    OBVIOUS
  <2>3. r \in ScreenRequests /\ r.op = "connect" /\ r.served = FALSE
    BY <1>0, <2>2 DEF Request, ScreenRequests, Wizards
  <2>4. NewRequestOK(r) /\ requests' = requests \cup {r}
    BY <1>2, <2>2, <2>3 DEF NewRequestOK, handleConnect, Send
  <2>5. wizard' \in Wizards /\ wizard'.kind = "walkthrough"
    BY <1>0, <2>1 DEF Wizards
  <2>6. ConnectedMeansStored'
    BY <2>5 DEF ConnectedMeansStored
  <2>7. QED
    BY <2>1, <2>4, <2>5, <2>6, OnWizardKeeps
<1>3. CASE handleSaveCeiling
  <2>1. OnWizard /\ server' = server /\ wizard' = [wizard EXCEPT !.saving = TRUE] /\ wizard.kind = "ceiling"
    BY <1>3 DEF handleSaveCeiling, OnWizard
  <2>2. PICK r : r = Request("setCeiling", wizard.provider, NoText, wizard.visit)
    OBVIOUS
  <2>3. r \in ScreenRequests /\ r.op = "setCeiling" /\ r.about = wizard.provider /\ r.served = FALSE
    BY <1>0, <2>2 DEF Request, ScreenRequests, Wizards
  <2>4. wizard.provider \in server.keys
    BY <1>0, <2>1 DEF ConnectedMeansStored
  <2>5. NewRequestOK(r) /\ requests' = requests \cup {r}
    BY <1>3, <2>2, <2>3, <2>4 DEF NewRequestOK, handleSaveCeiling, Send
  <2>6. wizard' \in Wizards /\ wizard'.kind = "ceiling" /\ wizard'.provider = wizard.provider
    BY <1>0, <2>1 DEF Wizards
  <2>7. ConnectedMeansStored'
    BY <2>1, <2>4, <2>6 DEF ConnectedMeansStored
  <2>8. QED
    BY <2>1, <2>5, <2>6, <2>7, OnWizardKeeps
<1>4. CASE onDone
  <2>1. /\ OnWizard /\ server' = server /\ requests' = requests /\ wizard.kind = "spend-cap"
        /\ wizard' = [wizard EXCEPT !.kind = "done"]
    BY <1>4 DEF onDone, OnWizard, NoRequest
  <2>2. wizard' \in Wizards /\ wizard'.kind = "done" /\ wizard'.provider = wizard.provider
    BY <1>0, <2>1 DEF Wizards
  <2>3. ConnectedMeansStored'
    BY <1>0, <2>1, <2>2 DEF ConnectedMeansStored
  <2>4. QED
    BY <2>1, <2>2, <2>3, OnWizardKeeps
<1>5. ASSUME NEW r \in requests, ConnectReturns(r) PROVE ScreensInv'
  <2>1. /\ OnWizard /\ server' = server /\ requests' \subseteq requests /\ r \in ScreenRequests
        /\ r.op = "connect" /\ r.about \in Kept
    BY <1>0, <1>5 DEF ConnectReturns, OnWizard, Returns, Errs, ScreensTypes, ScreenRequests
  <2>2. CASE wizard' = IF wizard.kind = "walkthrough" /\ wizard.visit = r.visit
                       THEN [wizard EXCEPT !.status = "error"] ELSE wizard
    <3>1. wizard' \in Wizards /\ wizard'.kind = wizard.kind /\ wizard'.provider = wizard.provider
      BY <1>0, <2>2 DEF Wizards
    <3>2. ConnectedMeansStored'
      BY <1>0, <2>1, <3>1 DEF ConnectedMeansStored
    <3>3. QED
      BY <2>1, <3>1, <3>2, OnWizardKeeps
  <2>3. CASE /\ Returns(r)
             /\ wizard' = [wizard EXCEPT !.kind = "ceiling", !.provider = r.about,
                                         !.status = "idle", !.saving = @ /\ wizard.kind = "ceiling"]
    <3>1. PICK s \in BOOLEAN : wizard' = [wizard EXCEPT !.kind = "ceiling", !.provider = r.about,
                                                       !.status = "idle", !.saving = s]
      <4>1. (wizard.saving /\ wizard.kind = "ceiling") \in BOOLEAN
        OBVIOUS
      <4>2. QED
        BY <2>3, <4>1
    <3>2. wizard' \in Wizards /\ wizard'.kind = "ceiling" /\ wizard'.provider = r.about
      BY <1>0, <2>1, <3>1 DEF Wizards
    <3>3. r.about \in server.keys
      <4>1. r.served = TRUE
        BY <2>1, <2>3 DEF Returns, ScreenRequests
      <4>2. QED
        BY <2>1, <4>1 DEF ScreensInv, ServedInv
    <3>4. ConnectedMeansStored'
      BY <2>1, <3>2, <3>3 DEF ConnectedMeansStored
    <3>5. QED
      BY <2>1, <3>2, <3>4, OnWizardKeeps
  <2>4. QED
    BY <1>5, <2>2, <2>3 DEF ConnectReturns
<1>6. ASSUME NEW r \in requests, CeilingReturns(r) PROVE ScreensInv'
  <2>1. /\ OnWizard /\ server' = server /\ requests' \subseteq requests /\ r \in ScreenRequests
        /\ r.op = "setCeiling" /\ r.about \in Kept
    BY <1>0, <1>6 DEF CeilingReturns, OnWizard, Returns, Errs, ScreensTypes, ScreenRequests
  <2>2. CASE wizard' = [wizard EXCEPT !.saving = FALSE]
    <3>1. wizard' \in Wizards /\ wizard'.kind = wizard.kind /\ wizard'.provider = wizard.provider
      BY <1>0, <2>2 DEF Wizards
    <3>2. ConnectedMeansStored'
      BY <1>0, <2>1, <3>1 DEF ConnectedMeansStored
    <3>3. QED
      BY <2>1, <3>1, <3>2, OnWizardKeeps
  <2>3. CASE /\ Returns(r)
             /\ wizard' = [wizard EXCEPT !.kind = "spend-cap", !.provider = r.about, !.saving = FALSE]
    <3>1. wizard' \in Wizards /\ wizard'.kind = "spend-cap" /\ wizard'.provider = r.about
      BY <1>0, <2>1, <2>3 DEF Wizards
    <3>2. r.about \in server.keys /\ server.ceiling = TRUE
      <4>1. r.served = TRUE
        BY <2>1, <2>3 DEF Returns, ScreenRequests
      <4>2. QED
        BY <2>1, <4>1 DEF ScreensInv, ServedInv
    <3>3. ConnectedMeansStored'
      BY <2>1, <3>1, <3>2 DEF ConnectedMeansStored
    <3>4. QED
      BY <2>1, <3>1, <3>3, OnWizardKeeps
  <2>4. QED
    BY <1>6, <2>2, <2>3 DEF CeilingReturns
<1>7. QED
  BY <1>1, <1>2, <1>3, <1>4, <1>5, <1>6

\* The charter's page while it opens: the installed charter, the draft, a new one, or none.
LEMMA CharterOpens ==
  ASSUME ScreensInv, getCharterState \/ ReopenCharter \/ \E r \in requests : DraftReturns(r)
  PROVE  ScreensInv'
<1>0. /\ ScreensTypes /\ HandoverInv /\ charter \in CharterViews /\ server \in Servers
      /\ NoText \in Kept /\ server.draft \in Kept /\ server.charter \in Kept
  BY ItemFacts DEF ScreensInv, ScreensTypes, Servers
<1>1. ASSUME OnCharter, NEW kind \in {"loading", "installed", "editing", "empty"},
             requests' = {}, charter' \in CharterViews, charter'.kind = kind
      PROVE  ScreensInv'
  <2>1. page = "charter" /\ page' = "charter"
    BY <1>1 DEF OnCharter
  <2>2. HandoverInv' /\ AcceptedIsWhatWasShown'
    BY <1>1, <2>1 DEF HandoverInv, AcceptedIsWhatWasShown
  <2>3. QED
    BY <1>1, <2>2, OnCharterKeeps
<1>2. ASSUME NEW text \in Kept, NEW kind \in {"installed", "editing", "empty", "creating"}
      PROVE  /\ [charter EXCEPT !.kind = kind, !.content = text] \in CharterViews
             /\ [charter EXCEPT !.kind = kind, !.content = text].kind = kind
             /\ [charter EXCEPT !.kind = kind] \in CharterViews
             /\ [charter EXCEPT !.kind = kind].kind = kind
  BY <1>0 DEF CharterViews
<1>3. CASE getCharterState
  <2>1. OnCharter /\ page = "charter" /\ page' = page /\ requests = {}
    BY <1>0, <1>3 DEF getCharterState, OnCharter, HandoverInv
  <2>2. CASE charter' = [charter EXCEPT !.kind = "installed", !.content = server.charter] /\ requests' = requests
    BY <1>0, <1>1, <1>2, <2>1, <2>2
  <2>3. CASE charter' = Editing(server.draft) /\ requests' = requests
    BY <1>0, <1>1, <1>2, <2>1, <2>3 DEF Editing
  <2>4. CASE /\ charter' = [charter EXCEPT !.kind = "creating"]
             /\ requests' = requests \cup {Request("createDraft", NoText, NoText, 0)}
    <3>1. PICK r : r = Request("createDraft", NoText, NoText, 0)
      OBVIOUS
    <3>2. r \in ScreenRequests /\ r.op = "createDraft" /\ r.served = FALSE
      BY <1>0, <3>1 DEF Request, ScreenRequests
    <3>3. NewRequestOK(r) /\ requests' = requests \cup {r} /\ requests' = {r}
      BY <2>1, <2>4, <3>1, <3>2 DEF NewRequestOK
    <3>4. charter' \in CharterViews /\ charter'.kind = "creating"
      BY <1>0, <1>2, <2>4
    <3>5. HandoverInv' /\ AcceptedIsWhatWasShown'
      BY <2>1, <3>2, <3>3, <3>4 DEF HandoverInv, AcceptedIsWhatWasShown
    <3>6. QED
      BY <2>1, <3>3, <3>4, <3>5, OnCharterKeeps
  <2>5. CASE charter' = [charter EXCEPT !.kind = "empty"] /\ requests' = requests
    BY <1>0, <1>1, <1>2, <2>1, <2>5
  <2>6. QED
    BY <1>3, <2>2, <2>3, <2>4, <2>5 DEF getCharterState, NoRequest, Send
<1>4. CASE ReopenCharter
  <2>1. OnCharter /\ requests' = {}
    BY <1>4 DEF ReopenCharter, NoRequest
  <2>2. charter' \in CharterViews /\ charter'.kind = "loading"
    BY <1>0, <1>4 DEF ReopenCharter, CharterViews
  <2>3. QED
    BY <1>0, <1>1, <2>1, <2>2
<1>5. ASSUME NEW r \in requests, DraftReturns(r) PROVE ScreensInv'
  <2>1. OnCharter /\ requests' = {}
    BY <1>0, <1>5 DEF DraftReturns, OnCharter, Returns, Errs, HandoverInv
  <2>2. CASE charter' = Editing(server.draft)
    BY <1>0, <1>1, <1>2, <2>1, <2>2 DEF Editing
  <2>3. CASE charter' = [charter EXCEPT !.kind = "empty"]
    BY <1>0, <1>1, <1>2, <2>1, <2>3
  <2>4. QED
    BY <1>5, <2>2, <2>3 DEF DraftReturns
<1>6. QED
  BY <1>3, <1>4, <1>5

\* The charter is edited, saved and handed over.
LEMMA CharterSteps ==
  ASSUME ScreensInv,
         \/ handleSave \/ handleAccept
         \/ \E text \in CharterTexts : EditCharter(text)
         \/ \E r \in requests : UpdateReturns(r) \/ AcceptReturns(r)
  PROVE  ScreensInv'
<1>0. /\ ScreensTypes /\ HandoverInv /\ charter \in CharterViews /\ server \in Servers
      /\ NoText \in Kept
  BY ItemFacts DEF ScreensInv, ScreensTypes
<1>1. ASSUME NEW text \in CharterTexts, EditCharter(text) PROVE ScreensInv'
  <2>1. /\ OnCharter /\ requests' = requests /\ charter' = [charter EXCEPT !.content = text]
        /\ page' = page /\ server' = server /\ charter.kind = "editing"
    BY <1>1 DEF EditCharter, OnCharter, NoRequest
  <2>2. /\ charter' \in CharterViews /\ charter'.kind = "editing" /\ charter'.shownAt = charter.shownAt
        /\ charter'.saving = charter.saving /\ charter'.accepting = charter.accepting
    BY <1>0, <2>1, TextsKept DEF CharterViews
  <2>3. HandoverInv' /\ AcceptedIsWhatWasShown'
    BY <1>0, <2>1, <2>2 DEF HandoverInv, AcceptedIsWhatWasShown
  <2>4. QED
    BY <2>1, <2>2, <2>3, OnCharterKeeps
<1>2. CASE handleSave \/ handleAccept
  <2>1. OnCharter /\ page = "charter" /\ page' = page /\ charter.kind = "editing"
    BY <1>2 DEF handleSave, handleAccept, OnCharter, mayPress
  <2>2. requests = {} /\ charter.saving = FALSE /\ charter.accepting = FALSE
    BY <1>0, <1>2, <2>1 DEF handleSave, handleAccept, mayPress, HandoverInv, CharterViews
  <2>3. PICK b \in {"save", "accept"} :
          /\ requests' = {Update(b)}
          /\ charter' = IF b = "save" THEN [charter EXCEPT !.saving = TRUE, !.error = FALSE]
                        ELSE [charter EXCEPT !.accepting = TRUE, !.error = FALSE, !.shownAt = charter.content]
    <3>1. CASE handleSave
      BY <2>2, <3>1 DEF handleSave, Send
    <3>2. CASE handleAccept
      BY <2>2, <3>2 DEF handleAccept, Send
    <3>3. QED
      BY <1>2, <3>1, <3>2
  <2>4. PICK r : r = Update(b)
    OBVIOUS
  <2>5. /\ r \in ScreenRequests /\ r.op = "updateDraft" /\ r.about = b
        /\ r.value = charter.content /\ r.served = FALSE
    BY <1>0, <2>4, TextsKept DEF Update, Request, ScreenRequests, CharterViews
  <2>6. NewRequestOK(r) /\ requests' = {r} /\ requests' = requests \cup {r}
    BY <2>2, <2>3, <2>4, <2>5 DEF NewRequestOK
  <2>7. /\ charter' \in CharterViews /\ charter'.kind = "editing"
        /\ b = "save" => charter'.accepting = FALSE /\ charter'.saving = TRUE
        /\ b = "accept" => /\ charter'.saving = FALSE /\ charter'.accepting = TRUE
                           /\ charter'.shownAt = charter.content
    BY <1>0, <2>1, <2>2, <2>3 DEF CharterViews
  <2>8. HandoverInv' /\ AcceptedIsWhatWasShown'
    BY <2>1, <2>5, <2>6, <2>7 DEF HandoverInv, AcceptedIsWhatWasShown
  <2>9. QED
    BY <2>1, <2>6, <2>7, <2>8, OnCharterKeeps
<1>3. ASSUME NEW r \in requests, UpdateReturns(r) PROVE ScreensInv'
  <2>1. OnCharter /\ page = "charter" /\ page' = page /\ server' = server /\ r.op = "updateDraft"
    BY <1>3 DEF UpdateReturns, OnCharter
  <2>2. requests = {r} /\ charter.kind = "editing" /\ r \in ScreenRequests
    BY <1>0, <2>1 DEF HandoverInv, ScreensTypes
  <2>3. CASE /\ requests' = requests \ {r}
             /\ \/ charter' = [charter EXCEPT !.saving = FALSE]
                \/ charter' = [charter EXCEPT !.saving = FALSE, !.accepting = FALSE, !.error = TRUE]
    <3>1. charter' \in CharterViews /\ charter'.kind = "editing"
      BY <1>0, <2>2, <2>3 DEF CharterViews
    <3>2. requests' = {}
      BY <2>2, <2>3
    <3>3. HandoverInv' /\ AcceptedIsWhatWasShown'
      BY <2>1, <3>1, <3>2 DEF HandoverInv, AcceptedIsWhatWasShown
    <3>4. QED
      BY <2>1, <3>1, <3>2, <3>3, OnCharterKeeps
  <2>4. CASE /\ r.about = "accept" /\ r.served /\ charter' = charter
             /\ requests' = (requests \ {r}) \cup {Request("acceptDraft", NoText, NoText, 0)}
    <3>1. r.served = TRUE
      BY <2>2, <2>4 DEF ScreenRequests
    <3>2. charter.saving = FALSE /\ server.draft = charter.shownAt
      BY <1>0, <2>1, <2>4, <3>1 DEF HandoverInv
    <3>3. charter.accepting = TRUE
      BY <1>0, <2>1, <2>2, <3>2 DEF HandoverInv, CharterViews
    <3>4. PICK q : q = Request("acceptDraft", NoText, NoText, 0)
      OBVIOUS
    <3>5. q \in ScreenRequests /\ q.op = "acceptDraft" /\ q.served = FALSE
      BY <1>0, <3>4 DEF Request, ScreenRequests
    <3>6. NewRequestOK(q) /\ requests' = {q} /\ requests' = (requests \ {r}) \cup {q}
      BY <2>2, <2>4, <3>4, <3>5 DEF NewRequestOK
    <3>7. HandoverInv' /\ AcceptedIsWhatWasShown'
      BY <2>1, <2>2, <2>4, <3>2, <3>3, <3>5, <3>6 DEF HandoverInv, AcceptedIsWhatWasShown
    <3>8. charter' \in CharterViews
      BY <1>0, <2>4
    <3>9. QED
      BY <2>1, <3>6, <3>7, <3>8, OnCharterKeeps
  <2>5. QED
    BY <1>3, <2>3, <2>4 DEF UpdateReturns, Returns, Errs
<1>4. ASSUME NEW r \in requests, AcceptReturns(r) PROVE ScreensInv'
  <2>1. OnCharter /\ page = "charter" /\ page' = page /\ server' = server /\ r.op = "acceptDraft"
    BY <1>4 DEF AcceptReturns, OnCharter
  <2>2. requests = {r} /\ charter.kind = "editing" /\ r \in ScreenRequests
    BY <1>0, <2>1 DEF HandoverInv, ScreensTypes
  <2>3. requests' = {}
    BY <1>4, <2>2 DEF AcceptReturns, Returns, Errs
  <2>4. CASE Returns(r) /\ charter' = [charter EXCEPT !.kind = "accepted"]
    <3>1. charter' \in CharterViews /\ charter'.kind = "accepted" /\ charter'.shownAt = charter.shownAt
      BY <1>0, <2>4 DEF CharterViews
    <3>2. r.served = TRUE
      BY <2>2, <2>4 DEF Returns, ScreenRequests
    <3>3. server.charter = charter.shownAt
      BY <1>0, <2>1, <3>2 DEF HandoverInv
    <3>4. HandoverInv' /\ AcceptedIsWhatWasShown'
      BY <2>1, <2>3, <3>1, <3>3 DEF HandoverInv, AcceptedIsWhatWasShown
    <3>5. QED
      BY <2>1, <2>3, <3>1, <3>4, OnCharterKeeps
  <2>5. CASE charter' = [charter EXCEPT !.accepting = FALSE, !.error = TRUE]
    <3>1. charter' \in CharterViews /\ charter'.kind = "editing"
      BY <1>0, <2>2, <2>5 DEF CharterViews
    <3>2. HandoverInv' /\ AcceptedIsWhatWasShown'
      BY <2>1, <2>3, <3>1 DEF HandoverInv, AcceptedIsWhatWasShown
    <3>3. QED
      BY <2>1, <2>3, <3>1, <3>2, OnCharterKeeps
  <2>6. QED
    BY <1>4, <2>4, <2>5 DEF AcceptReturns
<1>5. QED
  BY <1>1, <1>2, <1>3, <1>4

\* The screens keep their invariants.
LEMMA ScreensInvStep == ScreensInv /\ [ScreensNext]_screensVars => ScreensInv'
<1> SUFFICES ASSUME ScreensInv, [ScreensNext]_screensVars PROVE ScreensInv'
  OBVIOUS
<1>1. CASE UNCHANGED screensVars
  BY <1>1 DEF screensVars, ScreensInv, ScreensTypes, ServedInv, QueueInv, QueueHidesOnlyResolved, shown,
       ConnectedMeansStored, HandoverInv, AcceptedIsWhatWasShown
<1>2. CASE ScreensNext
  BY <1>2, ServeKeeps, QueueSteps, WizardSteps, CharterOpens, CharterSteps DEF ScreensNext
<1>3. QED
  BY <1>1, <1>2

LEMMA ScreensInvInit == ScreensInit => ScreensInv
<1> SUFFICES ASSUME ScreensInit PROVE ScreensInv
  OBVIOUS
<1>1. server \in Servers
  <2>1. PICK f : f = [i \in ToSet(Items) |-> NoText]
    OBVIOUS
  <2>2. f \in [ToSet(Items) -> Kept]
    BY <2>1, ItemFacts
  <2>3. /\ TaskTypes \in SUBSET Kept /\ SUBSET Providers \subseteq SUBSET Kept /\ {} \in SUBSET Kept
        /\ {NoText} \cup CharterTexts \subseteq Kept
    BY TextsKept, ItemFacts
  <2>4. server \in [resolved : {f}, active : {{}}, offered : {TaskTypes}, keys : SUBSET Providers,
                    ceiling : BOOLEAN, draft : {NoText} \cup CharterTexts,
                    charter : {NoText} \cup CharterTexts]
    BY <2>1 DEF ScreensInit
  <2>5. QED
    BY <2>2, <2>3, <2>4 DEF Servers
<1>2. queue \in Queues /\ queue.kind = "loading" /\ queue.index = 0
  BY ItemFacts DEF ScreensInit, Queues, Verdicts
<1>3. wizard \in Wizards /\ wizard.kind = "loading"
  BY ItemFacts DEF ScreensInit, Wizards
<1>4. charter \in CharterViews /\ charter.kind = "loading"
  BY ItemFacts DEF ScreensInit, CharterViews
<1>5. requests = {}
  BY DEF ScreensInit
<1>6. QED
  BY <1>1, <1>2, <1>3, <1>4, <1>5 DEF ScreensInv, ScreensTypes, ServedInv, QueueInv,
       QueueHidesOnlyResolved, ConnectedMeansStored, HandoverInv, AcceptedIsWhatWasShown

-----------------------------------------------------------------------------
(* The interview.                                                            *)

Texts == STRING \cup {"", "given"}
Progresses == [answers : AnswersType, index : Nat, country : BOOLEAN, guessed : SUBSET QuestionIds]
Stores == [idea : BOOLEAN, saved : BOOLEAN, progress : Progresses]
Tabs(retry) ==
  [screen : {"home", "signup", "login", "away", "tasks", "interview"}, mount : Nat, loading : BOOLEAN,
   questions : Seq(QuestionIds), answers : AnswersType, country : BOOLEAN,
   guessed : SUBSET QuestionIds, index : Nat, phase : {"answering", "submitting", "error"},
   error : {"none", "network", "session-expired", "submit"}, retry : {retry}]

\* A call of any kind; a load carries a progress, an answer what it makes of the answers.
CallOK(c) ==
  /\ c.kind \in {"load", "answer", "jurisdiction", "submit"} /\ c.mount \in Nat
  /\ c.kind = "load" => c.from \in Progresses /\ c.resume \in BOOLEAN
  /\ c.kind \in {"answer", "jurisdiction"} => c.base \in AnswersType
  /\ c.kind = "answer" => [c.base EXCEPT ![c.q] = c.value] \in AnswersType

\* The list of questions starts with the spine.
QuestionList(qs) ==
  qs \in Seq(QuestionIds) /\ Len(qs) >= 5 /\ \A i \in 1 .. 5 : qs[i] = SPINE_QUESTIONS[i]

InterviewTypes ==
  /\ store \in Stores /\ tab \in Tabs(tab.retry) /\ given \in [QuestionIds -> Texts]
  /\ hurried \in BOOLEAN /\ spoiled \in BOOLEAN
  /\ form \in [mode : {"text", "url"}, submitting : {"no", "summary", "session"}]
  /\ \A c \in calls : CallOK(c) /\ c.mount <= tab.mount
  /\ tab.questions = <<>> \/ QuestionList(tab.questions)

here(c) == c \in calls /\ c.mount = tab.mount
answering(c) == here(c) /\ c.kind \in {"answer", "jurisdiction"}
loadingCall(c) == here(c) /\ c.kind = "load"

\* What was given, g, is in the answers.
Agrees(g, answers) == \A q \in QuestionIds \ {"jurisdiction"} : g[q] # "" => answers[q] = g[q]
NothingGiven(g) == \A q \in QuestionIds \ {"jurisdiction"} : g[q] = ""

\* The index n is past no spine question without an answer.
Sound(g, n) == \A i \in 1 .. 5 : n >= i => g[SPINE_QUESTIONS[i]] # ""

\* An idea is there while it is interviewed, and the form is not on its way.
IdeaInv ==
  /\ tab.screen = "interview" => store.idea = TRUE
  /\ form.submitting = "summary" => tab.screen = "home" \/ store.idea = FALSE

KeptInv ==
  /\ hurried = FALSE /\ spoiled = FALSE =>
       Agrees(given, store.progress.answers) /\ (store.saved = TRUE \/ NothingGiven(given))
  /\ hurried = FALSE => Sound(given, store.progress.index)

\* The calls of the open interview: one load while loading, answers only after it.
LoadInv ==
  tab.screen = "interview" =>
    /\ tab.loading = FALSE =>
         /\ store.saved = TRUE
         /\ store.progress = Progress(tab.answers, tab.index, tab.country, tab.guessed)
         /\ \A c \in calls : ~loadingCall(c)
    /\ tab.loading = TRUE =>
         /\ \A c \in calls : ~answering(c)
         /\ \A c, d \in calls : loadingCall(c) /\ loadingCall(d) => c = d
         /\ \A c \in calls : loadingCall(c) /\ spoiled = FALSE =>
              c.from = store.progress /\ c.resume = store.saved
    /\ tab.phase = "error" /\ tab.error = "network" =>
         /\ CallOK(tab.retry) /\ tab.retry.kind # "submit" /\ tab.retry.mount = tab.mount
         /\ tab.retry.kind = "load" => spoiled = TRUE

\* For a user in no hurry: one answer in flight, to the question at the index.
IndexInv ==
  tab.screen = "interview" /\ hurried = FALSE =>
    /\ Sound(given, tab.index)
    /\ \A c \in calls : loadingCall(c) => Sound(given, c.from.index)
    /\ tab.phase = "error" /\ tab.error = "network" /\ tab.retry.kind = "load" =>
         Sound(given, tab.retry.from.index)
    /\ \A c, d \in calls : answering(c) /\ answering(d) => c = d
    /\ \A c \in calls : answering(c) /\ tab.index < 5 => given[SPINE_QUESTIONS[tab.index + 1]] # ""

SentInv ==
  sent.is = TRUE /\ sent.orderly = TRUE =>
    /\ \A q \in SPINE_AND_CONTEXT_IDS : sent.given[q] # "" => sent.answers[q] = sent.given[q]
    /\ sent.auto = TRUE => \A i \in 1 .. 5 : sent.given[SPINE_QUESTIONS[i]] # ""

InterviewInv == InterviewTypes /\ IdeaInv /\ KeptInv /\ LoadInv /\ IndexInv /\ SentInv

LEMMA QuestionNames ==
  /\ \A i \in 1 .. 5 : SPINE_QUESTIONS[i] \in QuestionIds
  /\ SPINE_AND_CONTEXT_IDS \subseteq QuestionIds \ {"jurisdiction"}
  /\ "jurisdiction" \in QuestionIds /\ "howDeliveryReaches" \in QuestionIds
  /\ templateDisambiguation \in QuestionIds
  /\ \A t \in DOMAIN BranchOf : ToSet(BranchOf[t]) \subseteq QuestionIds
  /\ \A i \in 1 .. 2 : CONTEXT_QUESTIONS[i] \in QuestionIds
<1> DEFINE all == SPINE_QUESTIONS \o CONTEXT_QUESTIONS
<1>1. /\ DOMAIN all = 1 .. 7
      /\ \A i \in 1 .. 5 : all[i] = SPINE_QUESTIONS[i]
      /\ \A i \in 1 .. 2 : all[i + 5] = CONTEXT_QUESTIONS[i]
  BY DEF SPINE_QUESTIONS, CONTEXT_QUESTIONS
<1>2. \A i \in 1 .. 7 : all[i] \in ToSet(all)
  BY <1>1 DEF ToSet
<1>3. (\A i \in 1 .. 5 : SPINE_QUESTIONS[i] \in ToSet(all)) /\ (\A i \in 1 .. 2 : CONTEXT_QUESTIONS[i] \in ToSet(all))
  <2>1. ASSUME NEW i \in 1 .. 5 PROVE SPINE_QUESTIONS[i] \in ToSet(all)
    BY <1>1, <1>2
  <2>2. ASSUME NEW i \in 1 .. 2 PROVE CONTEXT_QUESTIONS[i] \in ToSet(all)
    <3>1. i + 5 \in 1 .. 7
      OBVIOUS
    <3>2. all[i + 5] \in ToSet(all)
      BY <1>2, <3>1
    <3>3. QED
      BY <1>1, <3>2
  <2>3. QED
    BY <2>1, <2>2
<1>4. SPINE_AND_CONTEXT_IDS = ToSet(all) \ {"jurisdiction"}
  BY DEF SPINE_AND_CONTEXT_IDS
<1> HIDE DEF all
<1>5. SPINE_QUESTIONS[4] = "howDeliveryReaches"
  BY DEF SPINE_QUESTIONS
<1>6. QED
  BY <1>3, <1>4, <1>5 DEF QuestionIds

LEMMA BranchLists == \A t \in DOMAIN BranchOf : BranchOf[t] \in Seq(QuestionIds)
<1>1. ASSUME NEW t \in DOMAIN BranchOf PROVE BranchOf[t] \in Seq(QuestionIds)
  <2>1. BranchOf[t] \in Seq(STRING)
    BY QuestionsAssumption
  <2>2. PICK s : s = BranchOf[t]
    OBVIOUS
  <2>3. Len(s) \in Nat /\ s \in [1 .. Len(s) -> STRING]
    BY <2>1, <2>2
  <2>4. \A i \in 1 .. Len(s) : s[i] \in QuestionIds
    <3>1. ToSet(s) \subseteq QuestionIds
      BY <2>2, QuestionNames
    <3>2. \A i \in 1 .. Len(s) : s[i] \in ToSet(s)
      BY <2>3 DEF ToSet
    <3>3. QED
      BY <3>1, <3>2
  <2>5. s \in [1 .. Len(s) -> QuestionIds]
    BY <2>3, <2>4
  <2>6. s \in Seq(QuestionIds)
    BY <2>3, <2>5
  <2>7. QED
    BY <2>2, <2>6
<1>2. QED
  BY <1>1

LEMMA Prefix ==
  ASSUME NEW S, NEW a \in Seq(S), NEW b \in Seq(S), Len(a) >= 5
  PROVE  a \o b \in Seq(S) /\ Len(a \o b) >= 5 /\ \A i \in 1 .. 5 : (a \o b)[i] = a[i]
<1>1. PICK m \in Nat, n \in Nat : m = Len(a) /\ n = Len(b) /\ m >= 5
  OBVIOUS
<1>2. a \o b \in Seq(S)
  OBVIOUS
<1>3. Len(a \o b) = m + n
  BY <1>1
<1>4. \A i \in 1 .. m : (a \o b)[i] = a[i]
  BY <1>1
<1>5. \A i \in 1 .. 5 : i \in 1 .. m
  BY <1>1
<1>6. QED
  BY <1>1, <1>2, <1>3, <1>4, <1>5

\* Whatever was answered, the list starts with the spine and holds known questions.
LEMMA Lists == \A a \in AnswersType : QuestionList(questionsFor(a))
<1>1. ASSUME NEW middle \in Seq(QuestionIds)
      PROVE  QuestionList(SPINE_QUESTIONS \o middle \o CONTEXT_QUESTIONS)
  <2>1. SPINE_QUESTIONS \in Seq(QuestionIds) /\ Len(SPINE_QUESTIONS) = 5
    BY QuestionNames DEF SPINE_QUESTIONS
  <2>2. CONTEXT_QUESTIONS \in Seq(QuestionIds)
    BY QuestionNames DEF CONTEXT_QUESTIONS
  <2>3. PICK a, b, c : a = SPINE_QUESTIONS /\ b = middle /\ c = CONTEXT_QUESTIONS
    OBVIOUS
  <2>4. a \in Seq(QuestionIds) /\ b \in Seq(QuestionIds) /\ c \in Seq(QuestionIds) /\ Len(a) = 5
    BY <2>1, <2>2, <2>3
  <2>5. PICK d : d = a \o b
    OBVIOUS
  <2>6. d \in Seq(QuestionIds) /\ Len(d) >= 5 /\ \A i \in 1 .. 5 : d[i] = a[i]
    BY <2>4, <2>5, Prefix
  <2>7. PICK e : e = d \o c
    OBVIOUS
  <2>8. e \in Seq(QuestionIds) /\ Len(e) >= 5 /\ \A i \in 1 .. 5 : e[i] = d[i]
    BY <2>4, <2>6, <2>7, Prefix
  <2>9. QED
    BY <2>3, <2>5, <2>6, <2>7, <2>8 DEF QuestionList
<1>2. ASSUME NEW a \in AnswersType PROVE QuestionList(questionsFor(a))
  <2>1. PICK merged : merged = [q \in QuestionIds |-> IF a[q] # "" THEN a[q] ELSE Guess[q]]
    OBVIOUS
  <2>2. merged[templateDisambiguation] \in {""} \cup DOMAIN BranchOf
    BY <2>1, QuestionNames, QuestionsAssumption DEF AnswersType
  <2>3. PICK s : s = Selection(merged)
    OBVIOUS
  <2>4. s.template \in DOMAIN BranchOf
    BY <2>2, <2>3, QuestionsAssumption DEF Selection
  <2>5. <<templateDisambiguation>> \in Seq(QuestionIds) /\ BranchOf[s.template] \in Seq(QuestionIds)
    BY <2>4, QuestionNames, BranchLists
  <2>6. questionsFor(a) = IF s.low
          THEN SPINE_QUESTIONS \o <<templateDisambiguation>> \o CONTEXT_QUESTIONS
          ELSE SPINE_QUESTIONS \o BranchOf[s.template] \o CONTEXT_QUESTIONS
    BY <2>1, <2>3 DEF questionsFor, getInterviewQuestionsForTemplate
  <2>7. QED
    BY <1>1, <2>5, <2>6
<1>3. QED
  BY <1>2

\* An index is sound up to the spine's length, downwards, one question on, and for more answers.
LEMMA SoundFacts ==
  ASSUME NEW g
  PROVE  /\ Sound(g, 0)
         /\ Sound(g, 5) => \A i \in 1 .. 5 : g[SPINE_QUESTIONS[i]] # ""
         /\ \A n \in Nat : n >= 5 /\ Sound(g, n) => Sound(g, 5)
         /\ \A n \in Nat : Sound(g, n) /\ (n < 5 => g[SPINE_QUESTIONS[n + 1]] # "") => Sound(g, n + 1)
         /\ \A h, n : Sound(g, n) /\ (\A q \in QuestionIds : g[q] # "" => h[q] # "") => Sound(h, n)
<1>1. (\A i \in 1 .. 5 : ~(0 >= i)) /\ (\A i \in 1 .. 5 : 5 >= i)
  OBVIOUS
<1>2. Sound(g, 0)
  BY <1>1 DEF Sound
<1>3. Sound(g, 5) => \A i \in 1 .. 5 : g[SPINE_QUESTIONS[i]] # ""
  BY <1>1 DEF Sound
<1>4. ASSUME NEW n \in Nat, n >= 5, Sound(g, n) PROVE Sound(g, 5)
  <2>1. \A i \in 1 .. 5 : n >= i
    BY <1>4
  <2>2. QED
    BY <1>4, <2>1 DEF Sound
<1>5. ASSUME NEW n \in Nat, Sound(g, n), n < 5 => g[SPINE_QUESTIONS[n + 1]] # "" PROVE Sound(g, n + 1)
  <2>1. ASSUME NEW i \in 1 .. 5, n + 1 >= i PROVE g[SPINE_QUESTIONS[i]] # ""
    <3>1. n >= i \/ (i = n + 1 /\ n < 5)
      BY <2>1
    <3>2. QED
      BY <1>5, <2>1, <3>1 DEF Sound
  <2>2. QED
    BY <2>1 DEF Sound
<1>6. ASSUME NEW h, NEW n, Sound(g, n), \A q \in QuestionIds : g[q] # "" => h[q] # "" PROVE Sound(h, n)
  BY <1>6, QuestionNames DEF Sound
<1>7. QED
  BY <1>2, <1>3, <1>4, <1>5, <1>6

\* The values the interview starts from.
LEMMA InterviewValues ==
  /\ NoAnswers \in AnswersType /\ NoAnswers \in [QuestionIds -> Texts]
  /\ NothingGiven(NoAnswers) /\ Agrees(NoAnswers, NoAnswers) /\ Sound(NoAnswers, 0)
  /\ \A s \in {saveIdea, clearIdea} :
       s \in Stores /\ s.saved = FALSE /\ s.progress.answers = NoAnswers /\ s.progress.index = 0
  /\ saveIdea.idea = TRUE /\ clearIdea.idea = FALSE
<1>1. NoAnswers \in AnswersType /\ NoAnswers \in [QuestionIds -> Texts]
  BY QuestionNames DEF NoAnswers, AnswersType, Texts
<1>2. NothingGiven(NoAnswers) /\ Agrees(NoAnswers, NoAnswers)
  BY DEF NothingGiven, Agrees, NoAnswers
<1>3. Sound(NoAnswers, 0)
  BY SoundFacts
<1>4. NoProgress \in Progresses /\ NoProgress.answers = NoAnswers /\ NoProgress.index = 0
  BY <1>1 DEF NoProgress, Progress, Progresses
<1>5. QED
  BY <1>1, <1>2, <1>3, <1>4 DEF saveIdea, clearIdea, Stores

LEMMA NewTab == <<>> \in Seq(QuestionIds) /\ NoAnswers \in AnswersType
BY InterviewValues

\* What a commit does: the screen is t, or t submitting; t is saved unless it is loading.
Committed(t, live) ==
  /\ tab' = t \/ (t.phase = "answering" /\ tab' = Submitting(t))
  /\ calls' = live \/ calls' = live \cup {SubmitCall(t)}
  /\ store'.idea = store.idea
  /\ t.loading = TRUE => store' = store
  /\ t.loading = FALSE => /\ store'.saved = TRUE
                          /\ store'.progress = Progress(t.answers, t.index, t.country, t.guessed)

\* The screen after a commit is t but for its phase.
LEMMA CommittedTab ==
  ASSUME NEW t, t \in Tabs(t.retry), NEW live, Committed(t, live)
  PROVE  /\ tab' \in Tabs(tab'.retry) /\ tab'.screen = t.screen /\ tab'.mount = t.mount
         /\ tab'.loading = t.loading /\ tab'.questions = t.questions /\ tab'.answers = t.answers
         /\ tab'.country = t.country /\ tab'.guessed = t.guessed /\ tab'.index = t.index
         /\ tab'.retry = t.retry /\ (tab'.phase = "error" => t.phase = "error" /\ tab'.error = t.error)
<1>1. CASE tab' = t
  BY <1>1
<1>2. CASE tab' = Submitting(t)
  BY <1>2 DEF Submitting, Tabs
<1>3. QED
  BY <1>1, <1>2 DEF Committed

LEMMA CommittedCalls ==
  ASSUME NEW t, NEW live, Committed(t, live)
  PROVE  /\ \A c \in calls' : c \in live \/ (c.kind = "submit" /\ c.mount = t.mount)
         /\ \A c \in calls' : c.kind # "submit" => c \in live
BY DEF Committed, SubmitCall

\* A commit of the open interview.
LEMMA Commits ==
  ASSUME InterviewTypes, LoadInv, tab.screen = "interview", NEW t, t \in Tabs(t.retry), t.mount = tab.mount,
         NEW live, Commit(t, live)
  PROVE  /\ Committed(t, live) /\ store' \in Stores
         /\ sent' = sent \/ (pastTheEnd(t) /\ sent' = Batch(t, t.answers, TRUE))
<1>1. store \in Stores /\ tab \in Tabs(tab.retry) /\ tab.loading \in BOOLEAN /\ t.loading \in BOOLEAN
  BY DEF InterviewTypes, Tabs
<1>2. store' = saveInterviewProgress(t)
  BY DEF Commit
<1>3. /\ tab' = t \/ (t.phase = "answering" /\ tab' = Submitting(t))
      /\ calls' = live \/ calls' = live \cup {SubmitCall(t)}
      /\ sent' = sent \/ (pastTheEnd(t) /\ sent' = Batch(t, t.answers, TRUE))
  BY DEF Commit, pastTheEnd
<1>4. PICK p : p = Progress(t.answers, t.index, t.country, t.guessed)
  OBVIOUS
<1>5. p \in Progresses
  BY <1>4 DEF Progress, Progresses, Tabs
<1>6. CASE t.loading = TRUE
  <2>1. store' = store
    BY <1>2, <1>6 DEF saveInterviewProgress
  <2>2. QED
    BY <1>1, <1>3, <1>6, <2>1 DEF Committed
<1>7. CASE t.loading = FALSE /\ Remembered(t) = Remembered(tab)
  <2>1. store' = store
    BY <1>2, <1>7 DEF saveInterviewProgress
  <2>2. tab.loading = FALSE /\ Progress(tab.answers, tab.index, tab.country, tab.guessed) = p
    BY <1>4, <1>7 DEF Remembered
  <2>3. store.saved = TRUE /\ store.progress = p
    BY <2>2 DEF LoadInv
  <2>4. QED
    BY <1>1, <1>3, <1>4, <1>7, <2>1, <2>3 DEF Committed
<1>8. CASE t.loading = FALSE /\ Remembered(t) # Remembered(tab)
  <2>1. store' = [store EXCEPT !.saved = TRUE, !.progress = Remembered(t).progress]
    BY <1>2, <1>8 DEF saveInterviewProgress
  <2>2. Remembered(t).progress = p
    BY <1>4 DEF Remembered
  <2>3. store' \in Stores /\ store'.saved = TRUE /\ store'.progress = p /\ store'.idea = store.idea
    BY <1>1, <1>5, <2>1, <2>2 DEF Stores
  <2>4. QED
    BY <1>3, <1>4, <1>8, <2>3 DEF Committed
<1>9. QED
  BY <1>1, <1>6, <1>7, <1>8

\* A batch started in no hurry carries what was given.
LEMMA Sends ==
  ASSUME NEW t, NEW answers, NEW auto \in BOOLEAN, sent' = Batch(t, answers, auto),
         hurried \in BOOLEAN, spoiled \in BOOLEAN,
         hurried = FALSE /\ spoiled = FALSE => Agrees(given, answers),
         hurried = FALSE /\ auto = TRUE => Sound(given, 5)
  PROVE  SentInv'
<1>1. /\ sent'.is = TRUE /\ sent'.auto = auto /\ sent'.given = given
      /\ sent'.answers = buildFullAnswers(t, answers)
      /\ sent'.orderly = (~hurried /\ ~spoiled)
  BY DEF Batch
<1>2. SUFFICES ASSUME sent'.orderly = TRUE PROVE SentInv'
  BY DEF SentInv
<1>3. hurried = FALSE /\ spoiled = FALSE
  BY <1>1, <1>2
<1>4. \A q \in SPINE_AND_CONTEXT_IDS : sent'.answers[q] = answers[q]
  BY <1>1, QuestionNames DEF buildFullAnswers
<1>5. \A q \in SPINE_AND_CONTEXT_IDS : given[q] # "" => answers[q] = given[q]
  BY <1>3, QuestionNames DEF Agrees
<1>6. auto = TRUE => \A i \in 1 .. 5 : given[SPINE_QUESTIONS[i]] # ""
  BY <1>3, SoundFacts
<1>7. QED
  BY <1>1, <1>4, <1>5, <1>6 DEF SentInv

\* What a commit needs: the types of the new screen, and, past the end, an agreement of
\* the answers with what was given.
LEMMA CommitKeeps ==
  ASSUME InterviewInv, tab.screen = "interview", NEW t, NEW live, Commit(t, live), form' = form,
         t \in Tabs(t.retry), t.screen = "interview", t.mount = tab.mount,
         t.questions = <<>> \/ QuestionList(t.questions),
         \A c \in live : CallOK(c) /\ c.mount <= tab.mount,
         given' \in [QuestionIds -> Texts], hurried' \in BOOLEAN, spoiled' \in BOOLEAN,
         pastTheEnd(t) => /\ hurried = FALSE /\ spoiled = FALSE => Agrees(given, t.answers)
                          /\ hurried = FALSE => Sound(given, t.index)
  PROVE  Committed(t, live) /\ InterviewTypes' /\ IdeaInv' /\ SentInv'
<1>1. /\ Committed(t, live) /\ store' \in Stores
      /\ sent' = sent \/ (pastTheEnd(t) /\ sent' = Batch(t, t.answers, TRUE))
  BY Commits DEF InterviewInv
<1>2. /\ tab' \in Tabs(tab'.retry) /\ tab'.screen = "interview" /\ tab'.mount = tab.mount
      /\ tab'.questions = t.questions /\ store'.idea = store.idea
  BY <1>1, CommittedTab DEF Committed
<1>3. \A c \in calls' : CallOK(c) /\ c.mount <= tab.mount
  <2>1. tab.mount \in Nat
    BY DEF InterviewInv, InterviewTypes, Tabs
  <2>2. CallOK(SubmitCall(t)) /\ SubmitCall(t).mount <= tab.mount
    BY <2>1 DEF CallOK, SubmitCall
  <2>3. QED
    BY <1>1, <2>2 DEF Committed
<1>4. InterviewTypes'
  BY <1>1, <1>2, <1>3 DEF InterviewInv, InterviewTypes
<1>5. IdeaInv'
  BY <1>2 DEF InterviewInv, IdeaInv
<1>6. SentInv'
  <2>1. CASE sent' = sent
    BY <2>1 DEF InterviewInv, SentInv
  <2>2. CASE pastTheEnd(t) /\ sent' = Batch(t, t.answers, TRUE)
    <3>1. QuestionList(t.questions) /\ t.index >= Len(t.questions)
      BY <2>2 DEF pastTheEnd
    <3>2. t.index >= 5
      <4>1. PICK n \in Nat : n = Len(t.questions)
        BY <3>1 DEF QuestionList
      <4>2. PICK i \in Nat : i = t.index
        BY DEF Tabs
      <4>3. QED
        BY <3>1, <4>1, <4>2 DEF QuestionList
    <3>3. hurried = FALSE => Sound(given, 5)
      <4>1. t.index \in Nat
        BY DEF Tabs
      <4>2. QED
        BY <2>2, <3>2, <4>1, SoundFacts
    <3>4. hurried \in BOOLEAN /\ spoiled \in BOOLEAN
      BY DEF InterviewInv, InterviewTypes
    <3>5. QED
      BY <2>2, <3>3, <3>4, Sends
  <2>3. QED
    BY <1>1, <2>1, <2>2
<1>7. QED
  BY <1>1, <1>4, <1>5, <1>6

\* What is kept after a commit of a screen that is not loading.
LEMMA KeptAfter ==
  ASSUME NEW t, NEW live, Committed(t, live), t.loading = FALSE,
         hurried' = FALSE /\ spoiled' = FALSE => Agrees(given', t.answers),
         hurried' = FALSE => Sound(given', t.index)
  PROVE  KeptInv'
<1>1. store'.saved = TRUE /\ store'.progress.answers = t.answers /\ store'.progress.index = t.index
  BY DEF Committed, Progress
<1>2. QED
  BY <1>1 DEF KeptInv

\* What is on the open screen agrees with what was given.
LEMMA TabAgrees ==
  ASSUME InterviewInv, tab.screen = "interview", tab.loading = FALSE
  PROVE  /\ hurried = FALSE /\ spoiled = FALSE => Agrees(given, tab.answers)
         /\ hurried = FALSE => Sound(given, tab.index)
         /\ \A c \in calls : ~loadingCall(c)
<1>1. store.progress = Progress(tab.answers, tab.index, tab.country, tab.guessed)
  BY DEF InterviewInv, LoadInv
<1>2. store.progress.answers = tab.answers /\ store.progress.index = tab.index
  BY <1>1 DEF Progress
<1>3. QED
  BY <1>2 DEF InterviewInv, LoadInv, KeptInv

\* The same for a call that returned: the others are live still.
LEMMA RestKeeps ==
  ASSUME InterviewInv, tab.screen = "interview", NEW t, NEW c, Commit(t, calls \ {c}), form' = form,
         t \in Tabs(t.retry), t.screen = "interview", t.mount = tab.mount,
         t.questions = <<>> \/ QuestionList(t.questions),
         given' = given, hurried' = hurried, spoiled' \in BOOLEAN,
         pastTheEnd(t) => /\ hurried = FALSE /\ spoiled = FALSE => Agrees(given, t.answers)
                          /\ hurried = FALSE => Sound(given, t.index)
  PROVE  Committed(t, calls \ {c}) /\ InterviewTypes' /\ IdeaInv' /\ SentInv'
<1>1. PICK live : live = calls \ {c}
  OBVIOUS
<1>2. Commit(t, live)
  BY <1>1
<1>3. \A d \in live : CallOK(d) /\ d.mount <= tab.mount
  BY <1>1 DEF InterviewInv, InterviewTypes
<1>4. given' \in [QuestionIds -> Texts] /\ hurried' \in BOOLEAN
  BY DEF InterviewInv, InterviewTypes
<1>5. Committed(t, live) /\ InterviewTypes' /\ IdeaInv' /\ SentInv'
  BY <1>2, <1>3, <1>4, CommitKeeps
<1>6. QED
  BY <1>1, <1>5

\* Of the calls of the open interview no new one is under way.
LEMMA CallsStay ==
  ASSUME tab'.mount = tab.mount, NEW Old, \A c \in calls' : c.kind # "submit" => c \in Old, Old \subseteq calls
  PROVE  \A c \in calls' : /\ loadingCall(c)' => c \in Old /\ c \in calls /\ loadingCall(c)
                           /\ answering(c)' => c \in Old /\ c \in calls /\ answering(c)
BY DEF loadingCall, answering, here

\* A screen other than the interview: what is kept need only stay, or start anew.
LEMMA AwayKeeps ==
  ASSUME InterviewInv, tab'.screen # "interview", tab' \in Tabs(tab'.retry), tab'.mount = tab.mount,
         tab'.questions = <<>> \/ QuestionList(tab'.questions),
         calls' \subseteq calls, sent' = sent,
         form' \in [mode : {"text", "url"}, submitting : {"no", "summary", "session"}],
         \/ store' = store /\ given' = given /\ hurried' = hurried /\ spoiled' = spoiled
         \/ store' \in {saveIdea, clearIdea} /\ given' = NoAnswers /\ hurried' = FALSE /\ spoiled' = FALSE,
         form'.submitting = "summary" => tab'.screen = "home" \/ store'.idea = FALSE
  PROVE  InterviewInv'
<1>1. /\ store' \in Stores /\ given' \in [QuestionIds -> Texts] /\ hurried' \in BOOLEAN
      /\ spoiled' \in BOOLEAN
  BY InterviewValues DEF InterviewInv, InterviewTypes
<1>2. InterviewTypes'
  BY <1>1 DEF InterviewInv, InterviewTypes
<1>3. KeptInv'
  BY InterviewValues DEF InterviewInv, KeptInv
<1>4. SentInv'
  BY DEF InterviewInv, SentInv
<1>5. IdeaInv' /\ LoadInv' /\ IndexInv'
  BY DEF IdeaInv, LoadInv, IndexInv
<1>6. QED
  BY <1>2, <1>3, <1>4, <1>5 DEF InterviewInv

\* The interview opens: it loads what is kept, whatever calls are left of earlier mounts.
LEMMA MountKeeps ==
  ASSUME InterviewInv, NEW live \in SUBSET calls, Mount(live), UNCHANGED <<sent, ghosts>>,
         form' \in [mode : {"text", "url"}, submitting : {"no", "summary", "session"}],
         form'.submitting = "summary" => store.idea = FALSE
  PROVE  InterviewInv'
<1>1. /\ store \in Stores /\ tab.mount \in Nat /\ sent' = sent /\ given' = given
      /\ hurried' = hurried /\ spoiled' = spoiled
  BY DEF InterviewInv, InterviewTypes, Tabs, ghosts
<1>2. CASE store.idea = FALSE
  <2>1. tab' = Tab("home", tab.mount, FALSE) /\ calls' = live /\ store' = store
    BY <1>2 DEF Mount
  <2>2. tab' \in Tabs(tab'.retry) /\ tab'.screen = "home" /\ tab'.mount = tab.mount /\ tab'.questions = <<>>
    BY <1>1, <2>1, NewTab DEF Tab, Tabs
  <2>3. QED
    BY <1>1, <2>1, <2>2, AwayKeeps
<1>3. CASE store.idea = TRUE
  <2>1. PICK t : t = Tab("interview", tab.mount + 1, TRUE)
    OBVIOUS
  <2>2. PICK m \in Nat : m = tab.mount + 1
    BY <1>1
  <2>3. /\ t \in Tabs(t.retry) /\ t.screen = "interview" /\ t.mount = m /\ t.loading = TRUE
        /\ t.questions = <<>> /\ t.index = 0 /\ t.phase = "answering"
    BY <2>1, <2>2, NewTab DEF Tab, Tabs
  <2>4. PICK c : c = [kind |-> "load", mount |-> t.mount, n |-> MaxInFlight + 1,
                      resume |-> store.saved, from |-> store.progress]
    OBVIOUS
  <2>5. tab' = t /\ calls' = live \cup {c} /\ store' = saveInterviewProgress(t)
    BY <1>3, <2>1, <2>4 DEF Mount
  <2>6. store' = store
    BY <2>3, <2>5 DEF saveInterviewProgress
  <2>7. /\ CallOK(c) /\ c.mount = m /\ c.kind = "load" /\ c.from = store.progress /\ c.resume = store.saved
    BY <1>1, <2>3, <2>4 DEF CallOK, Stores
  <2>8. \A d \in live : CallOK(d) /\ d.mount <= tab.mount /\ d.mount # m /\ d.mount <= m
    <3>1. ASSUME NEW d \in live PROVE CallOK(d) /\ d.mount <= tab.mount /\ d.mount # m /\ d.mount <= m
      <4>1. CallOK(d) /\ d.mount <= tab.mount
        BY DEF InterviewInv, InterviewTypes
      <4>2. d.mount \in Nat
        BY <4>1 DEF CallOK
      <4>3. QED
        BY <1>1, <2>2, <4>1, <4>2
    <3>2. QED
      BY <3>1
  <2>9. \A d \in calls' : d.mount = tab'.mount => d = c
    BY <2>3, <2>5, <2>8
  <2>10. InterviewTypes'
    <3>1. \A d \in calls' : CallOK(d) /\ d.mount <= tab'.mount
      BY <2>2, <2>3, <2>5, <2>7, <2>8
    <3>2. QED
      BY <1>1, <2>3, <2>5, <2>6, <3>1 DEF InterviewInv, InterviewTypes
  <2>11. IdeaInv'
    BY <1>3, <2>6 DEF IdeaInv
  <2>12. KeptInv' /\ SentInv'
    BY <1>1, <2>6 DEF InterviewInv, KeptInv, SentInv
  <2>13. LoadInv'
    BY <2>3, <2>5, <2>6, <2>7, <2>9 DEF LoadInv, loadingCall, answering, here
  <2>14. IndexInv'
    <3>1. SUFFICES ASSUME hurried = FALSE PROVE IndexInv'
      BY <1>1 DEF IndexInv
    <3>2. Sound(given, 0) /\ Sound(given, store.progress.index)
      BY <3>1, SoundFacts DEF InterviewInv, KeptInv
    <3>3. QED
      BY <1>1, <2>3, <2>5, <2>7, <2>9, <3>2 DEF IndexInv, loadingCall, answering, here
  <2>15. QED
    BY <2>10, <2>11, <2>12, <2>13, <2>14 DEF InterviewInv
<1>4. QED
  BY <1>1, <1>2, <1>3 DEF Stores

\* The form, the way to the interview and out of it.
LEMMA FormSteps ==
  ASSUME InterviewInv,
         \/ \E m \in {"text", "url"} : SetMode(m)
         \/ handleTextSubmit \/ handleUrlSubmit \/ SummaryReturns \/ SessionReturns
         \/ Open \/ Leave \/ Reload \/ SignIn
  PROVE  InterviewInv'
<1> DEFINE Forms == [mode : {"text", "url"}, submitting : {"no", "summary", "session"}]
<1>0. /\ form \in Forms /\ tab \in Tabs(tab.retry) /\ tab.mount \in Nat /\ store \in Stores
      /\ tab.questions = <<>> \/ QuestionList(tab.questions)
      /\ NewForm \in Forms /\ NewForm.submitting = "no"
  BY DEF InterviewInv, InterviewTypes, Tabs, NewForm
<1>1. ASSUME NEW m \in {"text", "url"}, SetMode(m) PROVE InterviewInv'
  <2>1. /\ tab.screen = "home" /\ tab' = tab /\ calls' = calls /\ sent' = sent /\ store' = store
        /\ given' = given /\ hurried' = hurried /\ spoiled' = spoiled
    BY <1>1 DEF SetMode, ghosts
  <2>2. form' \in Forms
    BY <1>0, <1>1 DEF SetMode
  <2>3. QED
    BY <1>0, <2>1, <2>2, AwayKeeps
<1>2. CASE handleTextSubmit
  <2>1. /\ tab.screen = "home" /\ tab' = tab /\ calls' = calls /\ sent' = sent /\ store' = saveIdea
        /\ given' = NoAnswers /\ hurried' = FALSE /\ spoiled' = FALSE
    BY <1>2 DEF handleTextSubmit, proceedWithIdea
  <2>2. form' \in Forms
    BY <1>0, <1>2 DEF handleTextSubmit, proceedWithIdea
  <2>3. QED
    BY <1>0, <2>1, <2>2, AwayKeeps
<1>3. CASE handleUrlSubmit
  <2>1. /\ tab.screen = "home" /\ tab' = tab /\ calls' = calls /\ sent' = sent /\ store' = store
        /\ given' = given /\ hurried' = hurried /\ spoiled' = spoiled
    BY <1>3 DEF handleUrlSubmit, ghosts
  <2>2. form' \in Forms
    BY <1>0, <1>3 DEF handleUrlSubmit
  <2>3. QED
    BY <1>0, <2>1, <2>2, AwayKeeps
<1>4. CASE SummaryReturns
  <2>1. tab' = tab /\ calls' = calls /\ sent' = sent /\ form.submitting = "summary"
    BY <1>4 DEF SummaryReturns
  <2>2. tab.screen # "interview"
    BY <2>1 DEF InterviewInv, IdeaInv
  <2>3. /\ form' \in Forms /\ form'.submitting # "summary"
        /\ \/ store' = store /\ given' = given /\ hurried' = hurried /\ spoiled' = spoiled
           \/ store' = saveIdea /\ given' = NoAnswers /\ hurried' = FALSE /\ spoiled' = FALSE
    <3>1. CASE proceedWithIdea
      BY <1>0, <3>1 DEF proceedWithIdea
    <3>2. CASE form' = NewForm /\ UNCHANGED <<store, ghosts>>
      BY <1>0, <3>2 DEF ghosts
    <3>3. QED
      BY <1>4, <3>1, <3>2 DEF SummaryReturns
  <2>4. QED
    BY <1>0, <2>1, <2>2, <2>3, AwayKeeps
<1>5. CASE SessionReturns
  <2>1. UNCHANGED <<sent, ghosts>> /\ form.submitting = "session"
    BY <1>5 DEF SessionReturns
  <2>2. CASE Mount(calls) /\ form' = NewForm
    BY <1>0, <2>1, <2>2, MountKeeps
  <2>3. CASE tab' = Tab("signup", tab.mount, FALSE) /\ form' = NewForm /\ UNCHANGED <<store, calls>>
    <3>1. /\ tab' \in Tabs(tab'.retry) /\ tab'.screen = "signup" /\ tab'.mount = tab.mount
          /\ tab'.questions = <<>>
      BY <1>0, <2>3, NewTab DEF Tab, Tabs
    <3>2. QED
      BY <1>0, <2>1, <2>3, <3>1, AwayKeeps DEF ghosts
  <2>4. CASE form' = [form EXCEPT !.submitting = "no"] /\ UNCHANGED <<store, tab, calls>>
    <3>1. form' \in Forms /\ form'.submitting = "no"
      BY <1>0, <2>4
    <3>2. /\ tab' = tab /\ calls' = calls /\ sent' = sent /\ store' = store
          /\ given' = given /\ hurried' = hurried /\ spoiled' = spoiled
      BY <2>1, <2>4 DEF ghosts
    <3>3. InterviewTypes' /\ IdeaInv'
      BY <3>1, <3>2 DEF InterviewInv, InterviewTypes, IdeaInv
    <3>4. KeptInv' /\ SentInv'
      BY <3>2 DEF InterviewInv, KeptInv, SentInv
    <3>5. LoadInv'
      BY <3>2 DEF InterviewInv, LoadInv, loadingCall, answering, here
    <3>6. IndexInv'
      BY <3>2 DEF InterviewInv, IndexInv, loadingCall, answering, here
    <3>7. QED
      BY <3>3, <3>4, <3>5, <3>6 DEF InterviewInv
  <2>5. QED
    BY <1>5, <2>2, <2>3, <2>4 DEF SessionReturns
<1>6. CASE Open \/ Reload
  <2>1. PICK live \in SUBSET calls : Mount(live)
    BY <1>6 DEF Open, Reload
  <2>2. /\ UNCHANGED <<sent, ghosts>> /\ form' = form /\ tab.screen # "home"
    BY <1>6 DEF Open, Reload
  <2>3. form'.submitting = "summary" => store.idea = FALSE
    BY <2>2 DEF InterviewInv, IdeaInv
  <2>4. QED
    BY <1>0, <2>1, <2>2, <2>3, MountKeeps
<1>7. CASE Leave \/ SignIn
  <2>1. PICK s \in {"away", "home", "login"} : tab' = Tab(s, tab.mount, FALSE)
    BY <1>7 DEF Leave, SignIn
  <2>2. /\ tab' \in Tabs(tab'.retry) /\ tab'.screen = s /\ tab'.mount = tab.mount /\ tab'.questions = <<>>
    BY <1>0, <2>1, NewTab DEF Tab, Tabs
  <2>3. /\ calls' \subseteq calls /\ sent' = sent /\ store' = store /\ form' = form
        /\ given' = given /\ hurried' = hurried /\ spoiled' = spoiled /\ tab.screen # "home"
    BY <1>7 DEF Leave, SignIn, ghosts, Outliving, showsError
  <2>4. form'.submitting = "summary" => store'.idea = FALSE
    BY <2>3 DEF InterviewInv, IdeaInv
  <2>5. QED
    BY <1>0, <2>2, <2>3, <2>4, AwayKeeps
<1>8. QED
  BY <1>1, <1>2, <1>3, <1>4, <1>5, <1>6, <1>7

\* A batch is started from the open interview, by hand.
LEMMA SubmitSteps ==
  ASSUME InterviewInv, skipTheRest \/ Resubmit
  PROVE  InterviewInv'
<1>0. /\ tab \in Tabs(tab.retry) /\ hurried \in BOOLEAN /\ spoiled \in BOOLEAN
  BY DEF InterviewInv, InterviewTypes
<1>1. /\ tab.screen = "interview" /\ tab.loading = FALSE /\ tab' = Submitting(tab)
      /\ calls' = calls \cup {SubmitCall(tab)} /\ store' = store /\ form' = form
      /\ given' = given /\ hurried' = hurried /\ spoiled' = spoiled
  BY <1>0 DEF skipTheRest, Resubmit, showsError, ghosts, Tabs
<1>2. /\ tab' \in Tabs(tab'.retry) /\ tab'.screen = "interview" /\ tab'.mount = tab.mount
      /\ tab'.loading = FALSE /\ tab'.questions = tab.questions /\ tab'.answers = tab.answers
      /\ tab'.country = tab.country /\ tab'.guessed = tab.guessed /\ tab'.index = tab.index
      /\ tab'.phase = "submitting"
  BY <1>0, <1>1 DEF Submitting, Tabs
<1>3. CallOK(SubmitCall(tab)) /\ SubmitCall(tab).mount = tab.mount /\ SubmitCall(tab).kind = "submit"
  BY <1>0 DEF CallOK, SubmitCall, Tabs
<1>4. InterviewTypes'
  <2>1. tab.mount <= tab.mount
    BY <1>0 DEF Tabs
  <2>2. \A c \in calls' : CallOK(c) /\ c.mount <= tab'.mount
    BY <1>1, <1>2, <1>3, <2>1 DEF InterviewInv, InterviewTypes
  <2>3. QED
    BY <1>1, <1>2, <2>2 DEF InterviewInv, InterviewTypes
<1>5. SentInv'
  <2>1. PICK answers :
          /\ sent' = Batch(tab, answers, FALSE)
          /\ \A q \in QuestionIds : tab.answers[q] # "" => answers[q] = tab.answers[q]
    <3>1. CASE skipTheRest
      <4>1. PICK filled : /\ filled = [q \in QuestionIds |->
                                         IF q \in ToSet(tab.questions) /\ tab.answers[q] = ""
                                         THEN "default" ELSE tab.answers[q]]
                          /\ sent' = Batch(tab, filled, FALSE)
        BY <3>1 DEF skipTheRest
      <4>2. \A q \in QuestionIds : tab.answers[q] # "" => filled[q] = tab.answers[q]
        BY <4>1
      <4>3. QED
        BY <4>1, <4>2, Zenon
    <3>2. CASE Resubmit
      <4>1. sent' = Batch(tab, tab.answers, FALSE)
        BY <3>2 DEF Resubmit
      <4>2. QED
        BY <4>1, Zenon
    <3>3. QED
      BY <3>1, <3>2
  <2>2. hurried = FALSE /\ spoiled = FALSE => Agrees(given, answers)
    BY <1>1, <2>1, TabAgrees DEF Agrees
  <2>3. PICK auto \in BOOLEAN : auto = FALSE
    OBVIOUS
  <2>4. QED
    BY <1>0, <2>1, <2>2, <2>3, Sends
<1>6. KeptInv' /\ IdeaInv'
  BY <1>1, <1>2 DEF InterviewInv, KeptInv, IdeaInv
<1>7. \A c \in calls' : c.kind # "submit" => c \in calls
  BY <1>1, <1>3
<1>8. LoadInv'
  BY <1>1, <1>2, <1>7 DEF InterviewInv, LoadInv, loadingCall, here
<1>9. IndexInv'
  BY <1>1, <1>2, <1>7, CallsStay DEF InterviewInv, IndexInv
<1>10. QED
  BY <1>4, <1>5, <1>6, <1>8, <1>9 DEF InterviewInv

\* A batch ends: what was kept is cleared, or the screen that waits shows the error.
LEMMA BatchSteps ==
  ASSUME InterviewInv, NEW c \in calls, BatchCompletes(c) \/ BatchFails(c)
  PROVE  InterviewInv'
<1>0. /\ tab \in Tabs(tab.retry) /\ tab.mount \in Nat
      /\ form \in [mode : {"text", "url"}, submitting : {"no", "summary", "session"}]
  BY DEF InterviewInv, InterviewTypes, Tabs
<1>1. CASE BatchCompletes(c)
  <2>1. /\ tab' = Tab("tasks", tab.mount, FALSE) /\ store' = clearIdea /\ sent' = sent
        /\ calls' \subseteq calls /\ given' = NoAnswers /\ hurried' = FALSE /\ spoiled' = FALSE
        /\ form' = NewForm \/ form' = form
    BY <1>1 DEF BatchCompletes, Outliving
  <2>2. /\ tab' \in Tabs(tab'.retry) /\ tab'.screen = "tasks" /\ tab'.mount = tab.mount
        /\ tab'.questions = <<>>
    BY <1>0, <2>1, NewTab DEF Tab, Tabs
  <2>3. form' \in [mode : {"text", "url"}, submitting : {"no", "summary", "session"}]
    BY <1>0, <2>1 DEF NewForm
  <2>4. store'.idea = FALSE
    BY <2>1, InterviewValues
  <2>5. QED
    BY <2>1, <2>2, <2>3, <2>4, AwayKeeps
<1>2. CASE BatchFails(c)
  <2>1. /\ c.kind = "submit" /\ calls' = calls \ {c} /\ store' = store /\ form' = form /\ sent' = sent
        /\ given' = given /\ hurried' = hurried /\ spoiled' = spoiled
        /\ tab' = tab \/ tab' = [tab EXCEPT !.phase = "error", !.error = "submit"]
    BY <1>2 DEF BatchFails, ghosts
  <2>2. /\ tab' \in Tabs(tab'.retry) /\ tab'.screen = tab.screen /\ tab'.mount = tab.mount
        /\ tab'.loading = tab.loading /\ tab'.questions = tab.questions /\ tab'.answers = tab.answers
        /\ tab'.country = tab.country /\ tab'.guessed = tab.guessed /\ tab'.index = tab.index
        /\ tab'.retry = tab.retry
        /\ tab'.phase = "error" /\ tab'.error = "network" => tab.phase = "error" /\ tab.error = "network"
    BY <1>0, <2>1 DEF Tabs
  <2>3. InterviewTypes'
    BY <2>1, <2>2 DEF InterviewInv, InterviewTypes
  <2>4. KeptInv' /\ IdeaInv' /\ SentInv'
    BY <2>1, <2>2 DEF InterviewInv, KeptInv, IdeaInv, SentInv
  <2>5. LoadInv'
    BY <2>1, <2>2 DEF InterviewInv, LoadInv, loadingCall, answering, here
  <2>6. IndexInv'
    <3>1. \A d \in calls' : d.kind # "submit" => d \in calls
      BY <2>1
    <3>2. QED
      BY <2>1, <2>2, <3>1, CallsStay DEF InterviewInv, IndexInv
  <2>7. QED
    BY <2>3, <2>4, <2>5, <2>6 DEF InterviewInv
<1>3. QED
  BY <1>1, <1>2

\* The screen t after an answer, and the calls it starts.
AnswerScreen(t) ==
  /\ t \in Tabs(t.retry) /\ t.screen = "interview" /\ t.mount = tab.mount /\ t.loading = FALSE
  /\ t.questions = tab.questions /\ t.index = tab.index /\ t.phase = "answering"
AnswerCalls(new) ==
  /\ \A c \in new : CallOK(c) /\ c.mount = tab.mount /\ c.kind \in {"answer", "jurisdiction"}
  /\ \A c, d \in new : c = d
AnswersGrow ==
  /\ given' \in [QuestionIds -> Texts] /\ hurried' \in BOOLEAN /\ (hurried = TRUE => hurried' = TRUE)
  /\ \A q \in QuestionIds : given[q] # "" => given'[q] # ""

\* A question is answered: the answer is saved with its call.  A user in no hurry has no
\* other answer on its way.
LEMMA AnswerSteps ==
  ASSUME InterviewInv, answerCurrent \/ answerJurisdiction \/ TypeCountry
  PROVE  InterviewInv'
<1>0. /\ tab \in Tabs(tab.retry) /\ hurried \in BOOLEAN /\ spoiled \in BOOLEAN
      /\ given \in [QuestionIds -> Texts] /\ tab.mount \in Nat /\ tab.index \in Nat
      /\ tab.answers \in AnswersType
  BY DEF InterviewInv, InterviewTypes, Tabs
<1>1. /\ tab.screen = "interview" /\ tab.loading = FALSE /\ tab.phase = "answering"
      /\ tab.index < Len(tab.questions) /\ form' = form /\ spoiled' = spoiled
  BY <1>0 DEF answerCurrent, answerJurisdiction, TypeCountry, showsQuestion, ghosts, Tabs
<1>2. QuestionList(tab.questions)
  <2>1. tab.questions # <<>>
    <3>1. ASSUME tab.questions = <<>> PROVE FALSE
      <4>1. Len(tab.questions) = 0
        BY <3>1
      <4>2. QED
        BY <1>0, <1>1, <4>1
    <3>2. QED
      BY <3>1
  <2>2. QED
    BY <2>1 DEF InterviewInv, InterviewTypes
<1>3. current \in QuestionIds /\ (tab.index < 5 => current = SPINE_QUESTIONS[tab.index + 1])
  <2>1. PICK i \in Nat : i = tab.index
    BY <1>0
  <2>2. PICK n \in Nat : n = Len(tab.questions) /\ i < n
    BY <1>1, <1>2, <2>1 DEF QuestionList
  <2>3. i + 1 \in 1 .. n
    BY <2>2
  <2>4. tab.questions[i + 1] \in QuestionIds
    BY <1>2, <2>2, <2>3 DEF QuestionList
  <2>5. i < 5 => i + 1 \in 1 .. 5
    BY <2>1
  <2>6. i < 5 => tab.questions[i + 1] = SPINE_QUESTIONS[i + 1]
    BY <1>2, <2>5 DEF QuestionList
  <2>7. QED
    BY <2>1, <2>4, <2>6 DEF current
<1>4. ASSUME NEW t, NEW new, Commit(t, calls \cup new), AnswerScreen(t), AnswerCalls(new), AnswersGrow,
             hurried = FALSE /\ spoiled = FALSE => Agrees(given', t.answers),
             new # {} => (hurried' = FALSE => ~awaitingAnswer),
             new # {} => (tab.index < 5 => given'[SPINE_QUESTIONS[tab.index + 1]] # "")
      PROVE  InterviewInv'
  <2>0. /\ t \in Tabs(t.retry) /\ t.screen = "interview" /\ t.mount = tab.mount /\ t.loading = FALSE
        /\ t.questions = tab.questions /\ t.index = tab.index /\ t.phase = "answering"
        /\ \A c \in new : CallOK(c) /\ c.mount = tab.mount /\ c.kind \in {"answer", "jurisdiction"}
        /\ \A c, d \in new : c = d
        /\ given' \in [QuestionIds -> Texts] /\ hurried' \in BOOLEAN /\ (hurried = TRUE => hurried' = TRUE)
        /\ \A q \in QuestionIds : given[q] # "" => given'[q] # ""
    BY <1>4 DEF AnswerScreen, AnswerCalls, AnswersGrow
  <2> DEFINE live == calls \cup new
  <2>1. ~pastTheEnd(t)
    BY <1>1, <1>4, <2>0 DEF pastTheEnd
  <2>2. \A c \in live : CallOK(c) /\ c.mount <= tab.mount
    <3>1. tab.mount <= tab.mount
      BY <1>0
    <3>2. QED
      BY <1>4, <2>0, <3>1 DEF InterviewInv, InterviewTypes
  <2>3. Committed(t, live) /\ InterviewTypes' /\ IdeaInv' /\ SentInv'
    BY <1>0, <1>1, <1>2, <1>4, <2>0, <2>1, <2>2, CommitKeeps
  <2>4. /\ tab'.screen = "interview" /\ tab'.mount = tab.mount /\ tab'.loading = FALSE
        /\ tab'.answers = t.answers /\ tab'.country = t.country /\ tab'.guessed = t.guessed
        /\ tab'.index = tab.index /\ tab'.phase # "error"
    BY <1>4, <2>0, <2>3, CommittedTab
  <2>5. \A c \in calls' : c.kind # "submit" => c \in live
    BY <2>3, CommittedCalls
  <2> HIDE DEF live
  <2>6. hurried' = FALSE => Sound(given', tab.index)
    <3>1. SUFFICES ASSUME hurried' = FALSE PROVE Sound(given', tab.index)
      OBVIOUS
    <3>2. Sound(given, tab.index)
      BY <1>0, <1>1, <2>0, <3>1, TabAgrees
    <3>3. PICK h : h = given'
      OBVIOUS
    <3>4. \A q \in QuestionIds : given[q] # "" => h[q] # ""
      BY <2>0, <3>3
    <3>5. Sound(h, tab.index)
      BY <3>2, <3>4, SoundFacts
    <3>6. QED
      BY <3>3, <3>5
  <2>7. KeptInv'
    BY <1>0, <1>1, <1>4, <2>0, <2>3, <2>6, KeptAfter
  <2>8. \A c \in calls : ~loadingCall(c)
    BY <1>1, TabAgrees
  <2>9. \A c \in calls' : /\ ~loadingCall(c)'
                          /\ answering(c)' => c \in new \/ (c \in calls /\ answering(c))
    BY <1>4, <2>0, <2>4, <2>5, <2>8 DEF live, loadingCall, answering, here
  <2>10. LoadInv'
    BY <2>3, <2>4, <2>9, <1>4, <2>0 DEF LoadInv, Committed
  <2>11. IndexInv'
    <3>1. SUFFICES ASSUME hurried' = FALSE PROVE IndexInv'
      BY DEF IndexInv
    <3>2. hurried = FALSE
      BY <1>0, <1>4, <2>0, <3>1
    <3>3. new # {} => \A c \in calls : ~answering(c)
      BY <1>4, <2>0, <3>1 DEF awaitingAnswer, answering, here
    <3>4. /\ \A c, d \in calls : answering(c) /\ answering(d) => c = d
          /\ \A c \in calls : answering(c) /\ tab.index < 5 => given[SPINE_QUESTIONS[tab.index + 1]] # ""
      BY <1>1, <3>2 DEF InterviewInv, IndexInv
    <3>5. \A c, d \in calls' : answering(c)' /\ answering(d)' => c = d
      BY <1>4, <2>0, <2>9, <3>3, <3>4
    <3>6. tab.index < 5 => SPINE_QUESTIONS[tab.index + 1] \in QuestionIds
      BY <1>3
    <3>7. \A c \in calls' : answering(c)' /\ tab.index < 5 => given'[SPINE_QUESTIONS[tab.index + 1]] # ""
      BY <1>4, <2>0, <2>9, <3>3, <3>4, <3>6
    <3>8. QED
      BY <2>4, <2>6, <2>9, <3>1, <3>5, <3>7 DEF IndexInv
  <2>12. QED
    BY <2>3, <2>7, <2>10, <2>11 DEF InterviewInv
<1>5. CASE answerCurrent
  <2>1. PICK value \in Options[current] : /\ Answer(tab.answers, current, value)
                                          /\ given' = [given EXCEPT ![current] = value]
    BY <1>5 DEF answerCurrent
  <2>2. current # "jurisdiction" /\ hurried' = (hurried \/ awaitingAnswer)
    BY <1>5 DEF answerCurrent
  <2>3. value \in STRING /\ value # "" /\ (current = templateDisambiguation => value \in DOMAIN BranchOf)
    BY <1>3, <2>1, <2>2, QuestionsAssumption
  <2>4. PICK q : q = current
    OBVIOUS
  <2>5. PICK answers : answers = [tab.answers EXCEPT ![q] = value]
    OBVIOUS
  <2>6. answers \in AnswersType
    BY <1>0, <1>3, <2>3, <2>4, <2>5, QuestionNames DEF AnswersType
  <2>7. PICK t : t = [tab EXCEPT !.answers = answers, !.guessed = @ \ {q}]
    OBVIOUS
  <2>8. PICK c : c = NewCall("answer", tab.answers, q, value)
    OBVIOUS
  <2>9. Commit(t, calls \cup {c})
    BY <2>1, <2>4, <2>5, <2>7, <2>8 DEF Answer
  <2>10. /\ t \in Tabs(t.retry) /\ t.screen = tab.screen /\ t.mount = tab.mount /\ t.loading = tab.loading
         /\ t.questions = tab.questions /\ t.index = tab.index /\ t.phase = tab.phase /\ t.answers = answers
    <3>1. PICK G \in SUBSET QuestionIds : t = [tab EXCEPT !.answers = answers, !.guessed = G]
      <4>1. tab.guessed \ {q} \in SUBSET QuestionIds
        BY <1>0 DEF Tabs
      <4>2. t = [tab EXCEPT !.answers = answers, !.guessed = tab.guessed \ {q}]
        BY <2>7
      <4>3. QED
        BY <4>1, <4>2
    <3>2. QED
      BY <1>0, <2>6, <3>1 DEF Tabs
  <2>11. CallOK(c) /\ c.mount = tab.mount /\ c.kind = "answer"
    <3>1. /\ c.kind = "answer" /\ c.mount = tab.mount /\ c.base = tab.answers /\ c.q = q /\ c.value = value
      BY <2>8 DEF NewCall
    <3>2. QED
      BY <1>0, <2>5, <2>6, <3>1 DEF CallOK
  <2>12. /\ given' \in [QuestionIds -> Texts] /\ given'[q] = value
         /\ \A r \in QuestionIds : r # q => given'[r] = given[r]
    BY <1>0, <1>3, <2>1, <2>3, <2>4 DEF Texts
  <2>13. answers[q] = value /\ \A r \in QuestionIds : r # q => answers[r] = tab.answers[r]
    BY <1>0, <1>3, <2>4, <2>5 DEF AnswersType
  <2>14. hurried = FALSE /\ spoiled = FALSE => Agrees(given', answers)
    BY <1>1, <2>12, <2>13, TabAgrees DEF Agrees
  <2>15. \A r \in QuestionIds : given[r] # "" => given'[r] # ""
    BY <2>3, <2>12
  <2>16. tab.index < 5 => given'[SPINE_QUESTIONS[tab.index + 1]] # ""
    BY <1>3, <2>3, <2>4, <2>12
  <2>17. /\ hurried' \in BOOLEAN /\ (hurried = TRUE => hurried' = TRUE)
         /\ hurried' = FALSE => ~awaitingAnswer
    BY <1>0, <2>2 DEF awaitingAnswer
  <2>18. AnswerScreen(t) /\ AnswerCalls({c}) /\ AnswersGrow
    BY <1>1, <2>10, <2>11, <2>12, <2>15, <2>17 DEF AnswerScreen, AnswerCalls, AnswersGrow
  <2>19. hurried = FALSE /\ spoiled = FALSE => Agrees(given', t.answers)
    BY <2>10, <2>14
  <2>20. QED
    BY <1>4, <2>9, <2>16, <2>17, <2>18, <2>19, Zenon
<1>6. CASE answerJurisdiction
  <2>1. PICK c : c = NewCall("jurisdiction", tab.answers, "jurisdiction", "given")
    OBVIOUS
  <2>2. /\ Commit(tab, calls \cup {c}) /\ given' = [given EXCEPT !["jurisdiction"] = "given"]
        /\ current = "jurisdiction" /\ hurried' = (hurried \/ awaitingAnswer)
    BY <1>6, <2>1 DEF answerJurisdiction
  <2>3. CallOK(c) /\ c.mount = tab.mount /\ c.kind = "jurisdiction"
    BY <1>0, <2>1 DEF NewCall, CallOK
  <2>4. /\ given' \in [QuestionIds -> Texts] /\ given'["jurisdiction"] = "given"
        /\ \A r \in QuestionIds : r # "jurisdiction" => given'[r] = given[r]
    BY <1>0, <2>2, QuestionNames DEF Texts
  <2>5. hurried = FALSE /\ spoiled = FALSE => Agrees(given', tab.answers)
    BY <1>1, <2>4, TabAgrees DEF Agrees
  <2>6. \A r \in QuestionIds : given[r] # "" => given'[r] # ""
    BY <2>4
  <2>7. tab.index < 5 => given'[SPINE_QUESTIONS[tab.index + 1]] # ""
    BY <1>3, <2>2, <2>4
  <2>8. /\ hurried' \in BOOLEAN /\ (hurried = TRUE => hurried' = TRUE)
        /\ hurried' = FALSE => ~awaitingAnswer
    BY <1>0, <2>2 DEF awaitingAnswer
  <2>9. AnswerScreen(tab) /\ AnswerCalls({c}) /\ AnswersGrow
    BY <1>0, <1>1, <2>3, <2>4, <2>6, <2>8 DEF AnswerScreen, AnswerCalls, AnswersGrow
  <2>10. QED
    BY <1>4, <2>2, <2>5, <2>7, <2>8, <2>9, Zenon
<1>7. CASE TypeCountry
  <2>1. PICK t : t = [tab EXCEPT !.country = TRUE]
    OBVIOUS
  <2>2. Commit(t, calls \cup {}) /\ given' = given /\ hurried' = hurried
    BY <1>7, <2>1 DEF TypeCountry, ghosts
  <2>3. /\ t \in Tabs(t.retry) /\ t.screen = tab.screen /\ t.mount = tab.mount /\ t.loading = tab.loading
        /\ t.questions = tab.questions /\ t.index = tab.index /\ t.phase = tab.phase /\ t.answers = tab.answers
    BY <1>0, <2>1 DEF Tabs
  <2>4. hurried = FALSE /\ spoiled = FALSE => Agrees(given', t.answers)
    BY <1>1, <2>2, <2>3, TabAgrees
  <2>5. AnswerScreen(t) /\ AnswerCalls({}) /\ AnswersGrow
    BY <1>0, <1>1, <2>2, <2>3 DEF AnswerScreen, AnswerCalls, AnswersGrow
  <2>6. QED
    BY <1>4, <2>2, <2>4, <2>5, Zenon
<1>8. QED
  BY <1>5, <1>6, <1>7

\* A failed question call is retried: the load as it was, an answer in a hurry.
LEMMA RetrySteps ==
  ASSUME InterviewInv, Retry
  PROVE  InterviewInv'
<1> DEFINE r == tab.retry
<1>0. /\ tab \in Tabs(tab.retry) /\ hurried \in BOOLEAN /\ spoiled \in BOOLEAN
      /\ given \in [QuestionIds -> Texts] /\ tab.mount \in Nat /\ tab.mount <= tab.mount
      /\ tab.questions = <<>> \/ QuestionList(tab.questions)
      /\ \A c \in calls : CallOK(c) /\ c.mount <= tab.mount
  BY DEF InterviewInv, InterviewTypes, Tabs
<1>1. /\ tab.screen = "interview" /\ tab.loading = FALSE /\ tab.phase = "error" /\ tab.error = "network"
      /\ form' = form /\ given' = given /\ spoiled' = spoiled
      /\ \A c \in calls : ~answering(c)
  BY <1>0 DEF Retry, showsError, Tabs, awaitingAnswer, answering, here
<1>2. /\ CallOK(r) /\ r.kind # "submit" /\ r.mount = tab.mount
      /\ r.kind = "load" => spoiled = TRUE
  BY <1>1 DEF InterviewInv, LoadInv
<1>3. \A c \in calls : ~loadingCall(c)
  BY <1>1, TabAgrees
<1> HIDE DEF r
<1>4. ASSUME NEW t, NEW c, Commit(t, calls \cup {c}), CallOK(c), c.mount = tab.mount, c.kind # "load",
             t \in Tabs(t.retry), t.screen = "interview", t.mount = tab.mount, t.loading = FALSE,
             t.questions = tab.questions, t.phase = "error", t.error = "network", t.retry = r, hurried' = TRUE
      PROVE  InterviewInv'
  <2>1. ~pastTheEnd(t)
    BY <1>4 DEF pastTheEnd
  <2>2. \A d \in calls \cup {c} : CallOK(d) /\ d.mount <= tab.mount
    BY <1>0, <1>4
  <2>3. Committed(t, calls \cup {c}) /\ InterviewTypes' /\ IdeaInv' /\ SentInv'
    BY <1>0, <1>1, <1>4, <2>1, <2>2, CommitKeeps
  <2>4. /\ tab'.screen = "interview" /\ tab'.mount = tab.mount /\ tab'.loading = FALSE
        /\ tab'.answers = t.answers /\ tab'.country = t.country /\ tab'.guessed = t.guessed
        /\ tab'.index = t.index /\ tab'.retry = r
    BY <1>4, <2>3, CommittedTab
  <2>5. \A d \in calls' : ~loadingCall(d)'
    <3>1. \A d \in calls' : d.kind # "submit" => d \in calls \cup {c}
      BY <2>3, CommittedCalls
    <3>2. QED
      BY <1>3, <1>4, <2>4, <3>1 DEF loadingCall, here
  <2>6. KeptInv' /\ IndexInv'
    BY <1>4 DEF KeptInv, IndexInv
  <2>7. LoadInv'
    BY <1>1, <1>2, <1>4, <2>3, <2>4, <2>5 DEF LoadInv, Committed, r
  <2>8. QED
    BY <2>3, <2>6, <2>7 DEF InterviewInv
<1>5. CASE r.kind = "load"
  <2>1. PICK t : t = [tab EXCEPT !.loading = TRUE]
    OBVIOUS
  <2>2. Commit(t, calls \cup {r}) /\ hurried' = hurried
    BY <1>5, <2>1 DEF Retry, r
  <2>3. /\ t \in Tabs(t.retry) /\ t.screen = "interview" /\ t.mount = tab.mount /\ t.loading = TRUE
        /\ t.questions = tab.questions /\ t.answers = tab.answers /\ t.index = tab.index
        /\ t.phase = "error" /\ t.error = "network" /\ t.retry = r
    BY <1>0, <1>1, <2>1 DEF Tabs, r
  <2>4. ~pastTheEnd(t)
    BY <2>3 DEF pastTheEnd
  <2>5. \A d \in calls \cup {r} : CallOK(d) /\ d.mount <= tab.mount
    BY <1>0, <1>2
  <2>6. Committed(t, calls \cup {r}) /\ InterviewTypes' /\ IdeaInv' /\ SentInv'
    BY <1>0, <1>1, <2>2, <2>3, <2>4, <2>5, CommitKeeps
  <2>7. /\ tab'.screen = "interview" /\ tab'.mount = tab.mount /\ tab'.loading = TRUE
        /\ tab'.index = tab.index /\ tab'.retry = r /\ store' = store
    BY <2>3, <2>6, CommittedTab DEF Committed
  <2>8. \A d \in calls' : /\ loadingCall(d)' => d = r
                          /\ ~answering(d)'
    <3>1. \A d \in calls' : d.kind # "submit" => d \in calls \cup {r}
      BY <2>6, CommittedCalls
    <3>2. QED
      BY <1>1, <1>3, <1>5, <2>7, <3>1 DEF loadingCall, answering, here
  <2>9. KeptInv'
    BY <1>1, <2>2, <2>7 DEF InterviewInv, KeptInv
  <2>10. LoadInv'
    BY <1>1, <1>2, <1>5, <2>7, <2>8 DEF LoadInv, r
  <2>11. IndexInv'
    <3>1. SUFFICES ASSUME hurried = FALSE PROVE IndexInv'
      BY <2>2 DEF IndexInv
    <3>2. Sound(given, tab.index) /\ Sound(given, r.from.index)
      BY <1>1, <1>5, <3>1 DEF InterviewInv, IndexInv, r
    <3>3. QED
      BY <1>1, <2>7, <2>8, <3>2 DEF IndexInv
  <2>12. QED
    BY <2>6, <2>9, <2>10, <2>11 DEF InterviewInv
<1>6. CASE r.kind = "answer"
  <2>1. PICK answers : answers = [r.base EXCEPT ![r.q] = r.value]
    OBVIOUS
  <2>2. answers \in AnswersType /\ r.base \in AnswersType
    BY <1>2, <1>6, <2>1 DEF CallOK
  <2>3. PICK G : G = tab.guessed \ {r.q}
    OBVIOUS
  <2>4. G \in SUBSET QuestionIds
    BY <1>0, <2>3 DEF Tabs
  <2>5. PICK t : t = [tab EXCEPT !.answers = answers, !.guessed = G]
    OBVIOUS
  <2>6. PICK c : c = NewCall("answer", r.base, r.q, r.value)
    OBVIOUS
  <2>7. Commit(t, calls \cup {c}) /\ hurried' = TRUE
    BY <1>6, <2>1, <2>3, <2>5, <2>6 DEF Retry, Answer, r
  <2>8. /\ t \in Tabs(t.retry) /\ t.screen = "interview" /\ t.mount = tab.mount /\ t.loading = FALSE
        /\ t.questions = tab.questions /\ t.phase = "error" /\ t.error = "network" /\ t.retry = r
    BY <1>0, <1>1, <2>2, <2>4, <2>5 DEF Tabs, r
  <2>9. CallOK(c) /\ c.mount = tab.mount /\ c.kind # "load"
    <3>1. /\ c.kind = "answer" /\ c.mount = tab.mount /\ c.base = r.base /\ c.q = r.q /\ c.value = r.value
      BY <2>6 DEF NewCall
    <3>2. QED
      BY <1>0, <2>1, <2>2, <3>1 DEF CallOK
  <2>10. QED
    BY <1>4, <2>7, <2>8, <2>9
<1>7. CASE r.kind = "jurisdiction"
  <2>1. Commit(tab, calls \cup {r}) /\ hurried' = TRUE
    BY <1>7 DEF Retry, r
  <2>2. r.kind # "load" /\ tab.retry = r
    BY <1>7 DEF r
  <2>3. QED
    BY <1>0, <1>1, <1>2, <1>4, <2>1, <2>2
<1>8. r.kind \in {"load", "answer", "jurisdiction"}
  BY <1>2 DEF CallOK
<1>9. QED
  BY <1>5, <1>6, <1>7, <1>8

\* The questions arrive: the screen takes up what was kept when it was opened, or starts
\* from the guess when nothing was.
LEMMA LoadStep ==
  ASSUME InterviewInv, NEW c \in calls, LoadReturns(c)
  PROVE  InterviewInv'
<1>0. /\ tab \in Tabs(tab.retry) /\ hurried \in BOOLEAN /\ spoiled \in BOOLEAN
      /\ given \in [QuestionIds -> Texts] /\ tab.mount \in Nat
      /\ \A d \in calls : CallOK(d) /\ d.mount <= tab.mount
  BY DEF InterviewInv, InterviewTypes, Tabs
<1>1. /\ tab.screen = "interview" /\ c.mount = tab.mount /\ c.kind = "load" /\ loadingCall(c)
      /\ form' = form /\ given' = given /\ hurried' = hurried
  BY DEF LoadReturns, mounted, loadingCall, here
<1>2. c.from \in Progresses /\ c.resume \in BOOLEAN
  BY <1>0, <1>1 DEF CallOK
<1>3. /\ tab.loading = TRUE
      /\ \A d \in calls : ~answering(d)
      /\ \A d \in calls : loadingCall(d) => d = c
      /\ spoiled = FALSE => c.from = store.progress /\ c.resume = store.saved
  BY <1>0, <1>1 DEF InterviewInv, LoadInv, Tabs
<1>4. PICK t : t = loadInitialQuestions(c)
  OBVIOUS
<1>5. /\ Commit(t, calls \ {c})
      /\ spoiled' = (spoiled /\ \E q \in QuestionIds \ {"jurisdiction"} :
                                  given[q] # "" /\ t.answers[q] # given[q])
  BY <1>4 DEF LoadReturns
<1>6. QuestionList(questionsFor(c.from.answers))
  BY <1>2, Lists DEF Progresses
<1>7. /\ t \in Tabs(t.retry) /\ t.screen = "interview" /\ t.mount = tab.mount /\ t.loading = FALSE
      /\ t.phase = "answering" /\ t.questions = questionsFor(c.from.answers)
      /\ c.resume = TRUE => t.answers = c.from.answers /\ t.index = c.from.index
      /\ c.resume = FALSE => t.index = tab.index
  <2>1. PICK Q : Q = questionsFor(c.from.answers) /\ Q \in Seq(QuestionIds)
    BY <1>6 DEF QuestionList
  <2>2. PICK u : u = [tab EXCEPT !.loading = FALSE, !.phase = "answering", !.error = "none", !.questions = Q]
    OBVIOUS
  <2>3. /\ u \in Tabs(u.retry) /\ u.screen = "interview" /\ u.mount = tab.mount /\ u.loading = FALSE
        /\ u.phase = "answering" /\ u.questions = Q /\ u.index = tab.index
    BY <1>0, <1>1, <2>1, <2>2 DEF Tabs
  <2>4. CASE c.resume = TRUE
    <3>1. t = [u EXCEPT !.answers = c.from.answers, !.guessed = c.from.guessed,
                        !.country = c.from.country, !.index = c.from.index]
      BY <1>4, <2>1, <2>2, <2>4 DEF loadInitialQuestions
    <3>2. /\ c.from.answers \in AnswersType /\ c.from.guessed \in SUBSET QuestionIds
          /\ c.from.country \in BOOLEAN /\ c.from.index \in Nat
      BY <1>2 DEF Progresses
    <3>3. QED
      BY <2>1, <2>3, <2>4, <3>1, <3>2 DEF Tabs
  <2>5. CASE c.resume = FALSE
    <3>1. PICK G \in SUBSET QuestionIds : G = {q \in QuestionIds : Guess[q] # ""}
      OBVIOUS
    <3>2. t = [u EXCEPT !.answers = Guess, !.guessed = G]
      BY <1>4, <2>1, <2>2, <2>5, <3>1 DEF loadInitialQuestions
    <3>3. QED
      BY <2>1, <2>3, <2>5, <3>1, <3>2, QuestionsAssumption DEF Tabs
  <2>6. QED
    BY <1>2, <2>4, <2>5
<1>8. hurried = FALSE => Sound(given, t.index)
  BY <1>1, <1>2, <1>7 DEF InterviewInv, IndexInv
<1>9. hurried = FALSE /\ spoiled = FALSE => Agrees(given, t.answers)
  <2>1. SUFFICES ASSUME hurried = FALSE, spoiled = FALSE PROVE Agrees(given, t.answers)
    OBVIOUS
  <2>2. /\ Agrees(given, store.progress.answers) /\ (store.saved = TRUE \/ NothingGiven(given))
        /\ c.from = store.progress /\ c.resume = store.saved
    BY <1>3, <2>1 DEF InterviewInv, KeptInv
  <2>3. CASE c.resume = TRUE
    BY <1>7, <2>2, <2>3
  <2>4. CASE c.resume = FALSE
    <3>1. NothingGiven(given)
      BY <2>2, <2>4
    <3>2. QED
      BY <3>1 DEF NothingGiven, Agrees
  <2>5. QED
    BY <1>2, <2>3, <2>4
<1>10. hurried = FALSE /\ spoiled' = FALSE => Agrees(given, t.answers)
  BY <1>0, <1>5, <1>9 DEF Agrees
<1>11. spoiled' \in BOOLEAN
  BY <1>5
<1>12. Committed(t, calls \ {c}) /\ InterviewTypes' /\ IdeaInv' /\ SentInv'
  <2>1. /\ t \in Tabs(t.retry) /\ t.screen = "interview" /\ t.mount = tab.mount
        /\ t.questions = <<>> \/ QuestionList(t.questions)
    BY <1>6, <1>7
  <2>2. form' = form /\ given' = given /\ hurried' = hurried
    BY <1>1
  <2>3. Commit(t, calls \ {c})
    BY <1>5
  <2>4. QED
    BY <1>1, <1>8, <1>9, <1>11, <2>1, <2>2, <2>3, RestKeeps
<1>13. /\ tab'.screen = "interview" /\ tab'.mount = tab.mount /\ tab'.loading = FALSE
       /\ tab'.answers = t.answers /\ tab'.country = t.country /\ tab'.guessed = t.guessed
       /\ tab'.index = t.index /\ tab'.phase # "error"
  BY <1>7, <1>12, CommittedTab
<1>14. \A d \in calls' : ~loadingCall(d)' /\ ~answering(d)'
  <2>1. \A d \in calls' : d.kind # "submit" => d \in calls \ {c}
    BY <1>12, CommittedCalls
  <2>2. QED
    BY <1>3, <1>13, <2>1 DEF loadingCall, answering, here
<1>15. KeptInv'
  BY <1>1, <1>7, <1>8, <1>10, <1>12, KeptAfter
<1>16. LoadInv'
  BY <1>7, <1>12, <1>13, <1>14 DEF LoadInv, Committed
<1>17. IndexInv'
  BY <1>1, <1>8, <1>13, <1>14 DEF IndexInv
<1>18. QED
  BY <1>12, <1>15, <1>16, <1>17 DEF InterviewInv

\* The next questions arrive: on to the question after the one that was answered.
LEMMA AnswerStep ==
  ASSUME InterviewInv, NEW c \in calls, AnswerReturns(c)
  PROVE  InterviewInv'
<1>0. /\ tab \in Tabs(tab.retry) /\ hurried \in BOOLEAN /\ spoiled \in BOOLEAN
      /\ given \in [QuestionIds -> Texts] /\ tab.mount \in Nat /\ tab.index \in Nat
      /\ \A d \in calls : CallOK(d) /\ d.mount <= tab.mount
  BY DEF InterviewInv, InterviewTypes, Tabs
<1>1. /\ tab.screen = "interview" /\ c.mount = tab.mount /\ c.kind \in {"answer", "jurisdiction"}
      /\ answering(c) /\ form' = form /\ given' = given /\ hurried' = hurried /\ spoiled' = spoiled
  BY DEF AnswerReturns, mounted, answering, here, ghosts
<1>2. tab.loading = FALSE
  BY <1>0, <1>1 DEF InterviewInv, LoadInv, Tabs
<1>3. PICK answers : answers = IF c.kind = "answer" THEN [c.base EXCEPT ![c.q] = c.value] ELSE c.base
  OBVIOUS
<1>4. answers \in AnswersType
  BY <1>0, <1>1, <1>3 DEF CallOK
<1>5. PICK Q : Q = questionsFor(answers)
  OBVIOUS
<1>6. QuestionList(Q) /\ Q \in Seq(QuestionIds)
  BY <1>4, <1>5, Lists DEF QuestionList
<1>7. PICK n \in Nat : n = tab.index + 1
  BY <1>0
<1>8. PICK t : t = [tab EXCEPT !.questions = Q, !.index = n]
  OBVIOUS
<1>9. Commit(t, calls \ {c})
  BY <1>3, <1>5, <1>7, <1>8 DEF AnswerReturns
<1>10. /\ t \in Tabs(t.retry) /\ t.screen = "interview" /\ t.mount = tab.mount /\ t.loading = FALSE
       /\ t.questions = Q /\ t.answers = tab.answers /\ t.index = n
       /\ t.phase = tab.phase /\ t.error = tab.error /\ t.retry = tab.retry
  BY <1>0, <1>1, <1>2, <1>6, <1>8 DEF Tabs
<1>11. hurried = FALSE => Sound(given, n)
  <2>1. SUFFICES ASSUME hurried = FALSE PROVE Sound(given, tab.index + 1)
    BY <1>7
  <2>2. Sound(given, tab.index) /\ (tab.index < 5 => given[SPINE_QUESTIONS[tab.index + 1]] # "")
    BY <1>1, <2>1 DEF InterviewInv, IndexInv
  <2>3. QED
    BY <1>0, <2>2, SoundFacts
<1>12. hurried = FALSE /\ spoiled = FALSE => Agrees(given, t.answers)
  BY <1>1, <1>2, <1>10, TabAgrees
<1>13. hurried = FALSE => Sound(given, t.index)
  BY <1>10, <1>11
<1>14. Committed(t, calls \ {c}) /\ InterviewTypes' /\ IdeaInv' /\ SentInv'
  <2>1. t.questions = <<>> \/ QuestionList(t.questions)
    BY <1>6, <1>10
  <2>2. spoiled' \in BOOLEAN
    BY <1>0, <1>1
  <2>3. QED
    BY <1>1, <1>9, <1>10, <1>12, <1>13, <2>1, <2>2, RestKeeps
<1>15. /\ tab'.screen = "interview" /\ tab'.mount = tab.mount /\ tab'.loading = FALSE
       /\ tab'.answers = t.answers /\ tab'.country = t.country /\ tab'.guessed = t.guessed
       /\ tab'.index = t.index /\ tab'.retry = tab.retry
       /\ tab'.phase = "error" => tab.phase = "error" /\ tab'.error = tab.error
  BY <1>10, <1>14, CommittedTab
<1>16. \A d \in calls' : d.kind # "submit" => d \in calls \ {c}
  BY <1>14, CommittedCalls
<1>17. \A d \in calls' : ~loadingCall(d)'
  <2>1. \A d \in calls : ~loadingCall(d)
    BY <1>1, <1>2, TabAgrees
  <2>2. QED
    BY <1>15, <1>16, <2>1, CallsStay
<1>18. KeptInv'
  BY <1>1, <1>10, <1>12, <1>13, <1>14, KeptAfter
<1>19. LoadInv'
  BY <1>1, <1>10, <1>14, <1>15, <1>17 DEF InterviewInv, LoadInv, Committed
<1>20. IndexInv'
  <2>1. SUFFICES ASSUME hurried = FALSE PROVE IndexInv'
    BY <1>1 DEF IndexInv
  <2>2. \A d \in calls' : ~answering(d)'
    <3>1. \A d \in calls : answering(d) => d = c
      BY <1>1, <2>1 DEF InterviewInv, IndexInv
    <3>2. PICK Old : Old = calls \ {c}
      OBVIOUS
    <3>3. \A d \in calls' : d.kind # "submit" => d \in Old
      BY <1>16, <3>2
    <3>4. Old \subseteq calls /\ tab'.mount = tab.mount
      BY <1>15, <3>2
    <3>5. \A d \in calls' : answering(d)' => d \in Old /\ d \in calls /\ answering(d)
      BY <3>3, <3>4, CallsStay
    <3>6. QED
      BY <3>1, <3>2, <3>5
  <2>3. QED
    BY <1>1, <1>13, <1>15, <1>17, <2>1, <2>2 DEF InterviewInv, IndexInv
<1>21. QED
  BY <1>14, <1>18, <1>19, <1>20 DEF InterviewInv

\* A question call fails: a failed load overwrites what was kept, and says so (spoiled).
LEMMA FailStep ==
  ASSUME InterviewInv, NEW c \in calls, QuestionsFail(c)
  PROVE  InterviewInv'
<1>0. /\ tab \in Tabs(tab.retry) /\ hurried \in BOOLEAN /\ spoiled \in BOOLEAN
      /\ given \in [QuestionIds -> Texts] /\ tab.mount \in Nat
      /\ tab.questions = <<>> \/ QuestionList(tab.questions)
      /\ \A d \in calls : CallOK(d) /\ d.mount <= tab.mount
  BY DEF InterviewInv, InterviewTypes, Tabs
<1>1. /\ tab.screen = "interview" /\ c.mount = tab.mount /\ c.kind # "submit" /\ CallOK(c)
      /\ form' = form /\ given' = given /\ hurried' = hurried
      /\ spoiled' = (spoiled \/ c.kind = "load")
  BY <1>0 DEF QuestionsFail, mounted
<1>2. PICK error \in {"network", "session-expired"} :
        Commit([tab EXCEPT !.loading = FALSE, !.phase = "error", !.error = error, !.retry = c], calls \ {c})
  BY DEF QuestionsFail
<1>3. PICK t : t = [tab EXCEPT !.loading = FALSE, !.phase = "error", !.error = error, !.retry = c]
  OBVIOUS
<1>4. /\ t \in Tabs(t.retry) /\ t.screen = "interview" /\ t.mount = tab.mount /\ t.loading = FALSE
      /\ t.questions = tab.questions /\ t.answers = tab.answers /\ t.index = tab.index
      /\ t.phase = "error" /\ t.error = error /\ t.retry = c
  BY <1>0, <1>1, <1>3 DEF Tabs
<1>5. ~pastTheEnd(t)
  BY <1>4 DEF pastTheEnd
<1>6. Committed(t, calls \ {c}) /\ InterviewTypes' /\ IdeaInv' /\ SentInv'
  <2>1. spoiled' \in BOOLEAN
    BY <1>0, <1>1
  <2>2. t.questions = <<>> \/ QuestionList(t.questions)
    BY <1>0, <1>4
  <2>3. Commit(t, calls \ {c})
    BY <1>2, <1>3
  <2>4. QED
    BY <1>1, <1>4, <1>5, <2>1, <2>2, <2>3, RestKeeps
<1>7. /\ tab'.screen = "interview" /\ tab'.mount = tab.mount /\ tab'.loading = FALSE
      /\ tab'.answers = t.answers /\ tab'.country = t.country /\ tab'.guessed = t.guessed
      /\ tab'.index = tab.index /\ tab'.retry = c
  BY <1>4, <1>6, CommittedTab
<1>8. \A d \in calls' : d.kind # "submit" => d \in calls \ {c}
  BY <1>6, CommittedCalls
<1>9. hurried = FALSE => Sound(given, tab.index)
  BY <1>1 DEF InterviewInv, IndexInv
<1>10. tab.loading = TRUE => c.kind = "load"
  BY <1>1 DEF InterviewInv, LoadInv, answering, here, CallOK
<1>11. hurried = FALSE /\ spoiled' = FALSE => Agrees(given, t.answers)
  <2>1. SUFFICES ASSUME hurried = FALSE, spoiled' = FALSE PROVE Agrees(given, t.answers)
    OBVIOUS
  <2>2. spoiled = FALSE /\ c.kind # "load"
    BY <1>0, <1>1, <2>1
  <2>3. tab.loading = FALSE
    BY <1>0, <1>10, <2>2 DEF Tabs
  <2>4. QED
    BY <1>1, <1>4, <2>1, <2>2, <2>3, TabAgrees
<1>12. KeptInv'
  BY <1>1, <1>4, <1>6, <1>9, <1>11, KeptAfter
<1>13. \A d \in calls' : ~loadingCall(d)'
  <2>1. \A d \in calls \ {c} : ~loadingCall(d)
    <3>1. CASE tab.loading = FALSE
      BY <1>1, <3>1, TabAgrees
    <3>2. CASE tab.loading = TRUE
      <4>1. loadingCall(c)
        BY <1>1, <1>10, <3>2 DEF loadingCall, here
      <4>2. QED
        BY <1>1, <3>2, <4>1 DEF InterviewInv, LoadInv
    <3>3. QED
      BY <1>0, <3>1, <3>2 DEF Tabs
  <2>2. QED
    BY <1>7, <1>8, <2>1, CallsStay
<1>14. LoadInv'
  BY <1>1, <1>6, <1>7, <1>13, <1>4 DEF LoadInv, Committed
<1>15. IndexInv'
  <2>1. SUFFICES ASSUME hurried = FALSE PROVE IndexInv'
    BY <1>1 DEF IndexInv
  <2>2. c.kind = "load" => Sound(given, c.from.index)
    BY <1>1, <2>1 DEF InterviewInv, IndexInv, loadingCall, here
  <2>3. /\ \A d, e \in calls : answering(d) /\ answering(e) => d = e
        /\ \A d \in calls : answering(d) /\ tab.index < 5 => given[SPINE_QUESTIONS[tab.index + 1]] # ""
    BY <1>1, <2>1 DEF InterviewInv, IndexInv
  <2>4. \A d \in calls' : answering(d)' => d \in calls /\ answering(d)
    BY <1>7, <1>8, CallsStay
  <2>5. QED
    BY <1>1, <1>7, <1>9, <1>13, <2>1, <2>2, <2>3, <2>4 DEF IndexInv
<1>16. QED
  BY <1>6, <1>12, <1>14, <1>15 DEF InterviewInv

\* The tab keeps its invariants.
LEMMA InterviewInvStep == InterviewInv /\ [InterviewNext]_interviewVars => InterviewInv'
<1> SUFFICES ASSUME InterviewInv, [InterviewNext]_interviewVars PROVE InterviewInv'
  OBVIOUS
<1>1. CASE UNCHANGED interviewVars
  <2>1. /\ store' = store /\ form' = form /\ tab' = tab /\ calls' = calls /\ sent' = sent /\ given' = given
        /\ hurried' = hurried /\ spoiled' = spoiled
    BY <1>1 DEF interviewVars
  <2>2. InterviewTypes' /\ IdeaInv' /\ KeptInv' /\ SentInv'
    BY <2>1 DEF InterviewInv, InterviewTypes, IdeaInv, KeptInv, SentInv
  <2>3. LoadInv'
    BY <2>1 DEF InterviewInv, LoadInv, loadingCall, answering, here
  <2>4. IndexInv'
    BY <2>1 DEF InterviewInv, IndexInv, loadingCall, answering, here
  <2>5. QED
    BY <2>2, <2>3, <2>4 DEF InterviewInv
<1>2. CASE InterviewNext
  BY <1>2, FormSteps, AnswerSteps, RetrySteps, SubmitSteps, BatchSteps, LoadStep, AnswerStep, FailStep
     DEF InterviewNext
<1>3. QED
  BY <1>1, <1>2

LEMMA InterviewInvInit == InterviewInit => InterviewInv
<1> SUFFICES ASSUME InterviewInit PROVE InterviewInv
  OBVIOUS
<1>1. /\ store = clearIdea /\ form = NewForm /\ tab = Tab("home", 0, FALSE) /\ calls = {}
      /\ sent = NothingSent /\ given = NoAnswers /\ hurried = FALSE /\ spoiled = FALSE
  BY DEF InterviewInit
<1>2. tab \in Tabs(tab.retry) /\ tab.screen = "home" /\ tab.questions = <<>>
  BY <1>1, NewTab DEF Tab, Tabs
<1>3. form \in [mode : {"text", "url"}, submitting : {"no", "summary", "session"}] /\ form.submitting = "no"
  BY <1>1 DEF NewForm
<1>4. InterviewTypes /\ KeptInv
  BY <1>1, <1>2, <1>3, InterviewValues DEF InterviewTypes, KeptInv
<1>5. IdeaInv /\ LoadInv /\ IndexInv
  BY <1>2, <1>3 DEF IdeaInv, LoadInv, IndexInv
<1>6. SentInv
  BY <1>1 DEF SentInv, NothingSent
<1>7. QED
  BY <1>4, <1>5, <1>6 DEF InterviewInv

LEMMA InterviewKept == InterviewInv => AnswersSurvive
<1> SUFFICES ASSUME InterviewInv PROVE AnswersSurvive
  OBVIOUS
<1>1. ASSUME tab.screen = "interview", ~hurried, ~spoiled
      PROVE  \A q \in QuestionIds \ {"jurisdiction"} :
               given[q] # "" => store.progress.answers[q] = given[q]
  BY <1>1 DEF InterviewInv, InterviewTypes, KeptInv, Agrees
<1>2. ASSUME sent.is, sent.orderly
      PROVE  /\ \A q \in SPINE_AND_CONTEXT_IDS :
                  sent.given[q] # "" => sent.answers[q] = sent.given[q]
             /\ sent.auto => \A i \in DOMAIN SPINE_QUESTIONS : sent.given[SPINE_QUESTIONS[i]] # ""
  <2>1. DOMAIN SPINE_QUESTIONS = 1 .. 5
    BY DEF SPINE_QUESTIONS
  <2>2. QED
    BY <1>2, <2>1 DEF InterviewInv, SentInv
<1>3. QED
  BY <1>1, <1>2 DEF AnswersSurvive

-----------------------------------------------------------------------------
(* All of the client.  A behaviour follows one machine while the others stay, so each    *)
(* step is one of each machine or leaves it as it is.                                     *)

ClientInv == ChartInv /\ ScreensInv /\ InterviewInv

\* The web client agrees with the server (ClientAgreesWithServer), for any questions,
\* items, texts and tasks and however many calls, mounts, edits and faults there are.
THEOREM ClientAgrees == Spec => []ClientAgreesWithServer
<1>1. Init => ClientInv
  BY ChartInvInit, ScreensInvInit, InterviewInvInit DEF Init, ClientInv
<1>2. ClientInv /\ [Next]_vars => ClientInv'
  <2>1. [Next]_vars => /\ [ChartScreensNext]_chartScreensVars
                       /\ [ScreensNext]_screensVars
                       /\ [InterviewNext]_interviewVars
    BY DEF Next, vars
  <2>2. QED
    BY <2>1, ChartInvStep, ScreensInvStep, InterviewInvStep DEF ClientInv
<1>3. ClientInv => ClientAgreesWithServer
  BY ChartShown, InterviewKept DEF ClientInv, ScreensInv, QueueInv, ClientAgreesWithServer
<1>4. QED
  BY <1>1, <1>2, <1>3, PTL DEF Spec
=============================================================================
