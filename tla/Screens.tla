------------------------------- MODULE Screens -------------------------------
(***************************************************************************)
(* Three screens of the web client against the part of the server each one  *)
(* changes: the approval queue (ApprovalsScreen.tsx), the wizard that        *)
(* connects an AI provider's key (ConnectScreen.tsx) and the charter         *)
(* (CharterScreen.tsx).  The page that is open is fixed for a behaviour.     *)
(*                                                                          *)
(* A handler runs to its await in one step.  A request in flight is served   *)
(* once or fails before it is served; its response then reaches the screen   *)
(* at any later time, or is lost, which the screen sees as an error.         *)
(***************************************************************************)
EXTENDS Integers, FiniteSets, Sequences, SequencesExt

CONSTANTS
    Items,           \* items waiting for approval when the queue is opened, in order
    Recommendations, \* the items that are recommendations: they cannot be edited
    TaskTypes,       \* task types with an autonomy offer
    Providers,       \* AI providers
    CharterTexts,    \* contents of a charter
    MaxScreenFaults  \* requests that fail or whose response is lost

ASSUME ScreensAssumption ==
    /\ Items \in Seq(STRING) /\ Recommendations \subseteq ToSet(Items)
    /\ IsFiniteSet(TaskTypes) /\ IsFiniteSet(Providers)
    /\ MaxScreenFaults \in Nat

VARIABLES
    page,           \* the screen that is open
    server,         \* what the server holds of the three
    queue,          \* ApprovalsScreen and its QueueCard
    wizard,         \* ConnectScreen
    charter,        \* CharterScreen
    requests,       \* in flight: the operation, its arguments, whether it was served
    screenFaults

screensVars == <<page, server, queue, wizard, charter, requests, screenFaults>>

NoText == "none"
ScreenFault == screenFaults < MaxScreenFaults /\ screenFaults' = screenFaults + 1

ScreensInit ==
    /\ page \in {"approvals", "connect", "charter"}
    /\ server \in [resolved : {[i \in ToSet(Items) |-> NoText]},
                   active : {{}}, offered : {TaskTypes},
                   keys : SUBSET Providers, ceiling : BOOLEAN,
                   draft : {NoText} \cup CharterTexts, charter : {NoText} \cup CharterTexts]
    /\ page # "connect" => server.keys = {} /\ ~server.ceiling
    /\ page # "charter" => server.draft = NoText /\ server.charter = NoText
    /\ queue = [kind |-> "loading", items |-> {}, index |-> 0, mode |-> "view",
                text |-> NoText, submitting |-> FALSE, error |-> FALSE,
                active |-> {}, accepting |-> NoText]
    /\ wizard = [kind |-> "loading", provider |-> NoText, status |-> "idle", visit |-> 0,
                 saving |-> FALSE]
    /\ charter = [kind |-> "loading", content |-> NoText, shownAt |-> NoText,
                  saving |-> FALSE, accepting |-> FALSE, error |-> FALSE]
    /\ requests = {} /\ screenFaults = 0

\* A request: what it is about (an item, a task type, a provider, a button), what it
\* carries (a verdict, a text), and the visit of the wizard its continuation closes over.
Request(op, about, value, visit) ==
    [op |-> op, about |-> about, value |-> value, visit |-> visit, served |-> FALSE]
Send(r) == requests' = requests \cup {r}

(***************************************************************************)
(* The server's side of each request                                       *)
(***************************************************************************)

\* What the server refuses: an item resolved before, an edit of a recommendation, an
\* offer that is gone, a draft that is no draft any more.
Refused(r) ==
    \/ r.op = "resolve" /\ server.resolved[r.about] # NoText
    \/ r.op = "resolve" /\ r.about \in Recommendations /\ r.value = "modify"
    \/ r.op = "acceptOffer" /\ r.about \notin server.offered
    \/ r.op \in {"updateDraft", "acceptDraft"} /\ server.draft = NoText

\* A key is stored once its provider accepts it; createDraft returns the draft there is.
Serve(r) ==
    /\ r \in requests /\ ~r.served /\ ~Refused(r)
    /\ CASE r.op = "resolve" -> server' = [server EXCEPT !.resolved[r.about] = r.value]
         [] r.op = "acceptOffer" -> server' = [server EXCEPT !.offered = @ \ {r.about},
                                                             !.active = @ \cup {r.about}]
         [] r.op = "connect" -> server' = [server EXCEPT !.keys = @ \cup {r.about}]
         [] r.op = "setCeiling" -> server' = [server EXCEPT !.ceiling = TRUE]
         [] r.op = "createDraft" -> \E text \in CharterTexts :
                server' = IF server.draft = NoText THEN [server EXCEPT !.draft = text] ELSE server
         [] r.op = "updateDraft" -> server' = [server EXCEPT !.draft = r.value]
         [] r.op = "acceptDraft" -> server' = [server EXCEPT !.charter = server.draft, !.draft = NoText]
    /\ requests' = (requests \ {r}) \cup {[r EXCEPT !.served = TRUE]}
    /\ UNCHANGED <<page, queue, wizard, charter, screenFaults>>

\* The request errs at the screen: refused, failed, or served with its response lost.
Errs(r) ==
    /\ r \in requests
    /\ \/ ~r.served /\ Refused(r) /\ UNCHANGED screenFaults
       \/ ScreenFault
    /\ requests' = requests \ {r}

Returns(r) ==
    /\ r \in requests /\ r.served
    /\ requests' = requests \ {r}
    /\ UNCHANGED screenFaults

(***************************************************************************)
(* ApprovalsScreen                                                         *)
(***************************************************************************)

OnQueue == page = "approvals" /\ UNCHANGED <<page, server, wizard, charter>>
NoRequest == UNCHANGED <<requests, screenFaults>>

getApprovals ==
    /\ OnQueue /\ queue.kind = "loading"
    /\ \/ /\ queue' = [queue EXCEPT !.kind = "ready", !.active = server.active,
                          !.items = {k \in DOMAIN Items : server.resolved[Items[k]] = NoText}]
          /\ UNCHANGED screenFaults
       \/ ScreenFault /\ queue' = [queue EXCEPT !.kind = "error"]
    /\ UNCHANGED requests

\* The list on show is the part of Items at the positions queue.items; `at(i)` is the
\* position with i others before it.
at(i) == CHOOSE k \in queue.items : Cardinality({j \in queue.items : j < k}) = i
shown == Cardinality(queue.items)
item == Items[at(queue.index)]

\* The index stays, and stays within the list.
without(positions) ==
    LET items == queue.items \ positions
    IN  [queue EXCEPT !.items = items,
                      !.index = IF items = {} THEN 0
                                ELSE IF queue.index >= Cardinality(items) THEN Cardinality(items) - 1
                                ELSE queue.index]

\* Removing the item on show instead of the one the response is about (a mutant).
removeItemOnShow(id) == without({at(queue.index)})

\* The resolved item leaves the list.
removeItemAndAdvance(id) == without({k \in queue.items : Items[k] = id})

resetLocalState(q) == [q EXCEPT !.mode = "view", !.text = NoText, !.error = FALSE]

showsItem == queue.kind = "ready" /\ queue.items # {}

\* The arrows stay enabled while a verdict is in flight, and keep the mode and the text.
GoTo(i) ==
    /\ OnQueue /\ showsItem /\ shown > 1
    /\ i \in {queue.index - 1, queue.index + 1} /\ i \in 0 .. shown - 1
    /\ queue' = [queue EXCEPT !.index = i]
    /\ NoRequest

EnterMode(m) ==
    /\ OnQueue /\ showsItem /\ ~queue.submitting
    /\ \/ queue.mode = "view" /\ m # "view" /\ queue' = [queue EXCEPT !.mode = m]
       \/ queue.mode # "view" /\ m = "view" /\ queue' = resetLocalState(queue)
    /\ NoRequest

\* The text areas of "reject" and "modify" share one life: text is typed for an item.
TypeText ==
    /\ OnQueue /\ showsItem /\ queue.mode # "view" /\ queue.text # item
    /\ queue' = [queue EXCEPT !.text = item]
    /\ NoRequest

\* APPROVE in view mode; REJECT with feedback; MODIFY with the edit or the output itself.
submitVerdict ==
    /\ OnQueue /\ showsItem /\ ~queue.submitting
    /\ queue.mode = "reject" => queue.text # NoText
    /\ Send(Request("resolve", item, queue.mode, 0))
    /\ queue' = [queue EXCEPT !.submitting = TRUE, !.error = FALSE]
    /\ UNCHANGED screenFaults

VerdictReturns(r) ==
    /\ OnQueue /\ r.op = "resolve"
    /\ \/ /\ Returns(r)
          /\ queue' = [resetLocalState(removeItemAndAdvance(r.about)) EXCEPT !.submitting = FALSE]
       \/ /\ Errs(r)
          /\ queue' = [queue EXCEPT !.submitting = FALSE, !.error = TRUE]

\* AutonomySection: one "accepting" marker for all task types.
handleAcceptOffer(type) ==
    /\ OnQueue /\ queue.kind = "ready"
    /\ type \notin queue.active /\ queue.accepting # type
    /\ Send(Request("acceptOffer", type, NoText, 0))
    /\ queue' = [queue EXCEPT !.accepting = type]
    /\ UNCHANGED screenFaults

OfferReturns(r) ==
    /\ OnQueue /\ r.op = "acceptOffer"
    /\ \/ Returns(r) /\ queue' = [queue EXCEPT !.active = @ \cup {r.about}, !.accepting = NoText]
       \/ Errs(r) /\ queue' = [queue EXCEPT !.accepting = NoText]

(***************************************************************************)
(* ConnectScreen                                                           *)
(***************************************************************************)

OnWizard == page = "connect" /\ UNCHANGED <<page, server, queue, charter>>

\* A stored key that decrypts shows the summary; none, or an error, the choice.
getBrainKeyStatus ==
    /\ OnWizard /\ wizard.kind = "loading"
    /\ \/ /\ wizard' = [wizard EXCEPT
                 !.kind = IF server.keys # {} THEN "connected-summary" ELSE "choose"]
          /\ UNCHANGED screenFaults
       \/ ScreenFault /\ wizard' = [wizard EXCEPT !.kind = "choose"]
    /\ UNCHANGED requests

onReconnect ==
    /\ OnWizard /\ wizard.kind = "connected-summary"
    /\ wizard' = [wizard EXCEPT !.kind = "choose"]
    /\ NoRequest

onChoose(p) ==
    /\ OnWizard /\ wizard.kind = "choose" /\ wizard.visit < 2
    /\ wizard' = [wizard EXCEPT !.kind = "walkthrough", !.provider = p, !.status = "idle",
                                !.visit = @ + 1]
    /\ NoRequest

\* Back unmounts the walkthrough; a connection under way is not cancelled.
onBack ==
    /\ OnWizard /\ wizard.kind = "walkthrough"
    /\ wizard' = [wizard EXCEPT !.kind = "choose", !.provider = NoText]
    /\ NoRequest

handleConnect ==
    /\ OnWizard /\ wizard.kind = "walkthrough" /\ wizard.status # "validating"
    /\ Send(Request("connect", wizard.provider, NoText, wizard.visit))
    /\ wizard' = [wizard EXCEPT !.status = "validating"]
    /\ UNCHANGED screenFaults

\* onConnected also when the connection failed (a mutant).
ConnectReturnsAnyway(r) ==
    /\ OnWizard /\ r.op = "connect"
    /\ wizard' = [wizard EXCEPT !.kind = "ceiling", !.provider = r.about, !.status = "idle"]
    /\ \/ Returns(r)
       \/ Errs(r)

\* onConnected closes over the step it was rendered in: a late answer takes the wizard
\* to the ceiling of that provider from wherever it is.  A late error is not shown.
ConnectReturns(r) ==
    /\ OnWizard /\ r.op = "connect"
    /\ \/ /\ Returns(r)
          /\ wizard' = [wizard EXCEPT !.kind = "ceiling", !.provider = r.about,
                                      !.status = "idle", !.saving = @ /\ wizard.kind = "ceiling"]
       \/ /\ Errs(r)
          /\ wizard' = IF wizard.kind = "walkthrough" /\ wizard.visit = r.visit
                       THEN [wizard EXCEPT !.status = "error"] ELSE wizard

\* The ceiling step: the current ceiling, or a default when it cannot be read, and the
\* user's save.
handleSaveCeiling ==
    /\ OnWizard /\ wizard.kind = "ceiling" /\ ~wizard.saving
    /\ Send(Request("setCeiling", wizard.provider, NoText, wizard.visit))
    /\ wizard' = [wizard EXCEPT !.saving = TRUE]
    /\ UNCHANGED screenFaults

CeilingReturns(r) ==
    /\ OnWizard /\ r.op = "setCeiling"
    /\ \/ /\ Returns(r)
          /\ wizard' = [wizard EXCEPT !.kind = "spend-cap", !.provider = r.about, !.saving = FALSE]
       \/ Errs(r) /\ wizard' = [wizard EXCEPT !.saving = FALSE]

onDone ==
    /\ OnWizard /\ wizard.kind = "spend-cap"
    /\ wizard' = [wizard EXCEPT !.kind = "done"]
    /\ NoRequest

(***************************************************************************)
(* CharterScreen                                                           *)
(***************************************************************************)

OnCharter == page = "charter" /\ UNCHANGED <<page, server, queue, wizard>>

Editing(text) == [charter EXCEPT !.kind = "editing", !.content = text]

\* load: an accepted charter without a draft is shown as installed; otherwise the draft,
\* created when there is none.  Any error ends in the empty view.
getCharterState ==
    /\ OnCharter /\ charter.kind = "loading"
    /\ \/ /\ server.charter # NoText /\ server.draft = NoText
          /\ charter' = [charter EXCEPT !.kind = "installed", !.content = server.charter]
          /\ NoRequest
       \/ /\ server.draft # NoText
          /\ charter' = Editing(server.draft)
          /\ NoRequest
       \/ /\ server.charter = NoText /\ server.draft = NoText
          /\ charter' = [charter EXCEPT !.kind = "creating"]
          /\ Send(Request("createDraft", NoText, NoText, 0)) /\ UNCHANGED screenFaults
       \/ ScreenFault /\ charter' = [charter EXCEPT !.kind = "empty"] /\ UNCHANGED requests

DraftReturns(r) ==
    /\ OnCharter /\ r.op = "createDraft"
    /\ \/ Returns(r) /\ charter' = Editing(server.draft)
       \/ Errs(r) /\ charter' = [charter EXCEPT !.kind = "empty"]

\* The fields stay editable while a save or the handover is under way.
EditCharter(text) ==
    /\ OnCharter /\ charter.kind = "editing" /\ charter.content # text
    /\ charter' = [charter EXCEPT !.content = text]
    /\ NoRequest

mayPress == charter.kind = "editing" /\ ~charter.saving /\ ~charter.accepting
Update(for) == Request("updateDraft", for, charter.content, 0)

handleSave ==
    /\ OnCharter /\ mayPress
    /\ Send(Update("save")) /\ UNCHANGED screenFaults
    /\ charter' = [charter EXCEPT !.saving = TRUE, !.error = FALSE]

\* Handing over the stored draft without saving what is on show (a mutant).
handleAcceptStored ==
    /\ OnCharter /\ mayPress
    /\ Send(Request("acceptDraft", NoText, NoText, 0)) /\ UNCHANGED screenFaults
    /\ charter' = [charter EXCEPT !.accepting = TRUE, !.error = FALSE, !.shownAt = charter.content]

\* handleAccept saves what is on show, then accepts the draft.
handleAccept ==
    /\ OnCharter /\ mayPress
    /\ Send(Update("accept")) /\ UNCHANGED screenFaults
    /\ charter' = [charter EXCEPT !.accepting = TRUE, !.error = FALSE, !.shownAt = charter.content]

UpdateReturns(r) ==
    /\ OnCharter /\ r.op = "updateDraft"
    /\ \/ /\ r.about = "save" /\ Returns(r)
          /\ charter' = [charter EXCEPT !.saving = FALSE]
       \/ /\ r.about = "accept" /\ r.served /\ UNCHANGED <<charter, screenFaults>>
          /\ requests' = (requests \ {r}) \cup {Request("acceptDraft", NoText, NoText, 0)}
       \/ /\ Errs(r)
          /\ charter' = [charter EXCEPT !.saving = FALSE, !.accepting = FALSE, !.error = TRUE]

AcceptReturns(r) ==
    /\ OnCharter /\ r.op = "acceptDraft"
    /\ \/ Returns(r) /\ charter' = [charter EXCEPT !.kind = "accepted"]
       \/ Errs(r) /\ charter' = [charter EXCEPT !.accepting = FALSE, !.error = TRUE]

\* The page is opened again.
ReopenCharter ==
    /\ OnCharter /\ charter.kind \notin {"loading", "creating"} /\ requests = {}
    /\ charter' = [charter EXCEPT !.kind = "loading", !.content = NoText, !.shownAt = NoText,
                                  !.saving = FALSE, !.accepting = FALSE, !.error = FALSE]
    /\ NoRequest

ScreensNext ==
    \/ \E r \in requests : Serve(r)
    \/ getApprovals \/ (\E i \in 0 .. Len(Items) : GoTo(i)) \/ TypeText \/ submitVerdict
    \/ \E m \in {"view", "reject", "modify"} : EnterMode(m)
    \/ \E t \in TaskTypes : handleAcceptOffer(t)
    \/ getBrainKeyStatus \/ onReconnect \/ (\E p \in Providers : onChoose(p)) \/ onBack
    \/ handleConnect \/ handleSaveCeiling \/ onDone
    \/ getCharterState \/ (\E text \in CharterTexts : EditCharter(text))
    \/ handleSave \/ handleAccept \/ ReopenCharter
    \/ \E r \in requests : \/ VerdictReturns(r) \/ OfferReturns(r) \/ ConnectReturns(r)
                           \/ CeilingReturns(r) \/ DraftReturns(r) \/ UpdateReturns(r)
                           \/ AcceptReturns(r)

(***************************************************************************)
(* Properties                                                              *)
(***************************************************************************)

\* An item the queue no longer shows is resolved on the server, the index stays on an
\* item, and autonomy shown as active is active, whatever was navigated, lost or late.
QueueHidesOnlyResolved ==
    queue.kind = "ready" =>
        /\ \A k \in DOMAIN Items \ queue.items : server.resolved[Items[k]] # NoText
        /\ queue.items # {} => queue.index < shown
        /\ queue.active \subseteq server.active

\* The wizard is past the key of a provider only when that key is stored, and past the
\* ceiling only when a ceiling is, also after a late answer for another provider.
ConnectedMeansStored ==
    /\ wizard.kind \in {"ceiling", "spend-cap", "done"} => wizard.provider \in server.keys
    /\ wizard.kind \in {"spend-cap", "done"} => server.ceiling

\* The charter handed over is the one on show when the button was pressed.
AcceptedIsWhatWasShown ==
    charter.kind = "accepted" => server.charter = charter.shownAt
==============================================================================
