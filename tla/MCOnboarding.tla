----------------------------- MODULE MCOnboarding -----------------------------
(***************************************************************************)
(* From an idea to a company, in six machines that share no state: the      *)
(* interview, the extraction of a chart, the signup batches around it, the  *)
(* screens that edit the chart, the charter and the schedule it installs,   *)
(* and the screens that approve, connect and hand over.  A behaviour follows *)
(* one of them, chosen at the start, while the others stay where they are:  *)
(* the state space is the sum of theirs.                                    *)
(***************************************************************************)
EXTENDS Extraction, Signup, CharterSchedule, Interview, Screens, ChartScreens, TLC

VARIABLE focus

vars == <<extractionVars, signupVars, charterVars, interviewVars, screensVars, chartScreensVars, focus>>

Init ==
    /\ ExtractionInit
    /\ SignupInit
    /\ CharterInit
    /\ InterviewInit
    /\ ScreensInit
    /\ ChartScreensInit
    /\ focus \in {"extraction", "signup", "charter", "interview", "screens", "chart"}
    \* One initial state of each machine for the others to stay beside.
    /\ focus # "screens" => page = "approvals"
    /\ focus # "charter" => chart.hasBatch

Next ==
    \/ /\ focus = "extraction" /\ ExtractionNext
       /\ UNCHANGED <<signupVars, charterVars, interviewVars, screensVars, chartScreensVars, focus>>
    \/ /\ focus = "signup" /\ SignupNext
       /\ UNCHANGED <<extractionVars, charterVars, interviewVars, screensVars, chartScreensVars, focus>>
    \/ /\ focus = "charter" /\ CharterNext
       /\ UNCHANGED <<extractionVars, signupVars, interviewVars, screensVars, chartScreensVars, focus>>
    \/ /\ focus = "interview" /\ InterviewNext
       /\ UNCHANGED <<extractionVars, signupVars, charterVars, screensVars, chartScreensVars, focus>>
    \/ /\ focus = "screens" /\ ScreensNext
       /\ UNCHANGED <<extractionVars, signupVars, charterVars, interviewVars, chartScreensVars, focus>>
    \/ /\ focus = "chart" /\ ChartScreensNext
       /\ UNCHANGED <<extractionVars, signupVars, charterVars, interviewVars, screensVars, focus>>

Spec == Init /\ [][Next]_vars

(***************************************************************************)
(* The instance                                                            *)
(***************************************************************************)

MCNameStart == [a \in {t.agentType : t \in UNION {Range(allTemplates[id]) : id \in BusinessTemplateIds}}
                       \cup {a.agentType : a \in Additions} |-> 37]
MCHits == {h \in [BusinessTemplateIds -> 0 .. 2] : Cardinality({i \in BusinessTemplateIds : h[i] > 0}) <= 2}
Addition(agentType, teamHint, tool, verified, keyword, frequency) ==
    [agentType |-> agentType, teamHint |-> teamHint, tier |-> 2, autonomy |-> 1, handsTool |-> tool,
     verified |-> verified, keyword |-> keyword, frequency |-> frequency]
MCAdditions ==
    { Addition("kiln-firing", "delivery", "Stripe", FALSE, "none", "weekly"),
      Addition("client-books", "sales", "Client-facing systems (per-client, scoped access)", TRUE, "forecast", "adhoc") }
MCRemovals == {{}, {"cfo.invoicing.create", "cfo.cashflow.forecast"}}
MCOptions == [q \in QuestionIds |-> CASE q = "howDeliveryReaches" -> {"clear", "unclear"}
                 [] q = templateDisambiguation -> {"first", "second"} [] OTHER -> {"x"}]
MCBranchOf == [t \in {"first", "second"} |-> IF t = "first" THEN <<"branch">> ELSE <<>>]
MCGuess == [q \in QuestionIds |-> IF q = "whatCustomersPayFor" THEN "idea" ELSE ""]
MCItems == <<"i1", "i2", "i3">>
MCFoundTasks == ("t1" :> "a") @@ ("t2" :> "b")

\* The web client agrees with the server: no answer of the interview is lost, no item
\* leaves the approval queue unresolved, the wizard and the charter claim only what was
\* stored, and the chart on show is the chart in force (see the named parts).
ClientAgreesWithServer ==
    /\ AnswersSurvive
    /\ QueueHidesOnlyResolved
    /\ ConnectedMeansStored
    /\ AcceptedIsWhatWasShown
    /\ ChartIsTheServers
==============================================================================
