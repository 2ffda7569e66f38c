------------------------------ MODULE Interview ------------------------------
(***************************************************************************)
(* The interview in one browser tab: the idea form of the landing page      *)
(* (apps/web/src/components/landing/IdeaForm.tsx), the one-question-at-a-    *)
(* time screen (InterviewScreen.tsx), what both keep in sessionStorage       *)
(* (lib/extractionClient.ts), and the stateless POST /extraction/questions   *)
(* that assembles the list for the answers so far.                          *)
(*                                                                          *)
(* A handler runs to its await in one step, a render's effects (persisting,  *)
(* submitting after the last question) belong to the step that commits it,   *)
(* and a response arrives later, in any order, as an answer or as an error.  *)
(* Leaving the screen does not cancel what is in flight; a reload does.      *)
(***************************************************************************)
EXTENDS Integers, Sequences, FiniteSets, SequencesExt

CONSTANTS
    Options,        \* the answers tried for each question
    BranchOf,       \* branch questions of each template
    Guess,          \* guessAnswersFromIdea: the spine answers read off the idea
    MaxMounts,      \* times the interview is opened
    MaxInFlight,    \* question calls the user lets pile up
    MaxWebFaults    \* calls of the interview that fail

ASSUME InterviewAssumption ==
    MaxMounts \in Nat /\ MaxInFlight \in Nat /\ MaxWebFaults \in Nat

VARIABLES
    store,      \* sessionStorage: the pending idea and the saved progress
    form,       \* the idea form
    tab,        \* the screen and its component state
    calls,      \* requests in flight, with what their continuation closes over
    sent,       \* the answers the latest batch was started with
    given,      \* what the user answered of this idea (history)
    hurried,    \* an answer was given while another was in flight, or retried (history)
    spoiled,    \* a failed load has overwritten the saved progress (history)
    webFaults

interviewVars == <<store, form, tab, calls, sent, given, hurried, spoiled, webFaults>>

(***************************************************************************)
(* The questions                                                           *)
(***************************************************************************)

SPINE_QUESTIONS == <<"whatCustomersPayFor", "whoTheCustomerIs", "howMoneyArrives",
                     "howDeliveryReaches", "jurisdiction">>
CONTEXT_QUESTIONS == <<"stage", "whoIsWorkingOnIt">>
templateDisambiguation == "templateDisambiguation"
SPINE_AND_CONTEXT_IDS == ToSet(SPINE_QUESTIONS \o CONTEXT_QUESTIONS) \ {"jurisdiction"}
QuestionIds == SPINE_AND_CONTEXT_IDS \cup {"jurisdiction", templateDisambiguation}
               \cup UNION {ToSet(BranchOf[t]) : t \in DOMAIN BranchOf}
NoAnswers == [q \in QuestionIds |-> ""]

\* The answers to the questions: the one that tells the templates apart names one of them.
AnswersType == {a \in [QuestionIds -> STRING \cup {""}] :
                    a[templateDisambiguation] \in {""} \cup DOMAIN BranchOf}

\* Every question but the country's is answered with a text that is not empty.
ASSUME QuestionsAssumption ==
    /\ "first" \in DOMAIN BranchOf
    /\ \A t \in DOMAIN BranchOf : BranchOf[t] \in Seq(STRING)
    /\ Guess \in AnswersType
    /\ \A q \in QuestionIds \ {"jurisdiction"} : Options[q] \subseteq STRING \ {""}
    /\ Options[templateDisambiguation] \subseteq DOMAIN BranchOf

\* The spine, the template's own questions, the context.
getInterviewQuestionsForTemplate(t) == SPINE_QUESTIONS \o BranchOf[t] \o CONTEXT_QUESTIONS

\* What selectTemplate makes of the answers, as far as the list depends on it: an
\* answer to the disambiguation question pins the template, a clear delivery answer
\* selects the first one, anything else is a low-confidence blend of the two.
Selection(answers) ==
    IF answers[templateDisambiguation] # ""
    THEN [template |-> answers[templateDisambiguation], low |-> FALSE]
    ELSE [template |-> "first", low |-> answers["howDeliveryReaches"] # "clear"]

\* POST /questions: no branch questions while the template is ambiguous; the question
\* that resolves the ambiguity takes their place, and leaves the list once answered.
questionsFor(answers) ==
    LET merged == [q \in QuestionIds |-> IF answers[q] # "" THEN answers[q] ELSE Guess[q]]
        s == Selection(merged)
    IN  IF s.low THEN SPINE_QUESTIONS \o <<templateDisambiguation>> \o CONTEXT_QUESTIONS
        ELSE getInterviewQuestionsForTemplate(s.template)

(***************************************************************************)
(* sessionStorage                                                          *)
(***************************************************************************)

Progress(answers, index, country, guessed) ==
    [answers |-> answers, index |-> index, country |-> country, guessed |-> guessed]
NoProgress == Progress(NoAnswers, 0, FALSE, {})

\* A new idea never inherits the answers of an abandoned interview.
saveIdea == [idea |-> TRUE, saved |-> FALSE, progress |-> NoProgress]
\* clearIdea and clearInterviewProgress, when the batch completed.
clearIdea == [idea |-> FALSE, saved |-> FALSE, progress |-> NoProgress]

\* What the persist effect depends on.
Remembered(t) == [progress |-> Progress(t.answers, t.index, t.country, t.guessed),
                  loading |-> t.loading, mount |-> t.mount]

\* The persist effect without its loading test (a mutant).
persistWhileLoading(t) ==
    IF Remembered(t) = Remembered(tab) THEN store
    ELSE [store EXCEPT !.saved = TRUE, !.progress = Remembered(t).progress]

\* The persist effect, after a commit that changed what it depends on: skipped while
\* loading, so that the empty initial state does not overwrite what is being resumed.
saveInterviewProgress(t) ==
    IF t.loading \/ Remembered(t) = Remembered(tab) THEN store
    ELSE [store EXCEPT !.saved = TRUE, !.progress = Remembered(t).progress]

(***************************************************************************)
(* The tab                                                                 *)
(***************************************************************************)

NoRetry == [kind |-> "none"]
Tab(screen, mount, loading) ==
    [screen |-> screen, mount |-> mount, loading |-> loading, questions |-> <<>>,
     answers |-> NoAnswers, country |-> FALSE, guessed |-> {}, index |-> 0,
     phase |-> "answering", error |-> "none", retry |-> NoRetry]
NewForm == [mode |-> "text", submitting |-> "no"]
NothingSent == [is |-> FALSE, auto |-> FALSE, answers |-> NoAnswers,
                given |-> NoAnswers, orderly |-> TRUE]

InterviewInit ==
    /\ store = clearIdea
    /\ form = NewForm
    /\ tab = Tab("home", 0, FALSE)
    /\ calls = {} /\ sent = NothingSent
    /\ given = NoAnswers /\ hurried = FALSE /\ spoiled = FALSE /\ webFaults = 0

ghosts == <<given, hurried, spoiled>>
WebFault == webFaults < MaxWebFaults /\ webFaults' = webFaults + 1

(***************************************************************************)
(* IdeaForm: a plain idea, or a website the server summarises first         *)
(***************************************************************************)

SetMode(m) ==
    /\ tab.screen = "home" /\ form.submitting = "no" /\ form.mode # m
    /\ form' = [form EXCEPT !.mode = m]
    /\ UNCHANGED <<store, tab, calls, sent, ghosts, webFaults>>

\* proceedWithIdea up to its await: the idea is saved before the session is known.
proceedWithIdea ==
    /\ store' = saveIdea
    /\ given' = NoAnswers /\ hurried' = FALSE /\ spoiled' = FALSE
    /\ form' = [form EXCEPT !.submitting = "session"]

handleTextSubmit ==
    /\ tab.screen = "home" /\ form.mode = "text" /\ form.submitting = "no"
    /\ proceedWithIdea
    /\ UNCHANGED <<tab, calls, sent, webFaults>>

handleUrlSubmit ==
    /\ tab.screen = "home" /\ form.mode = "url" /\ form.submitting = "no"
    /\ form' = [form EXCEPT !.submitting = "summary"]
    /\ UNCHANGED <<store, tab, calls, sent, ghosts, webFaults>>

\* Any outcome but "completed", a thrown call included, falls back to the text box.
SummaryReturns ==
    /\ form.submitting = "summary"
    /\ \/ proceedWithIdea /\ UNCHANGED webFaults
       \/ /\ WebFault
          /\ form' = NewForm
          /\ UNCHANGED <<store, ghosts>>
    /\ UNCHANGED <<tab, calls, sent>>

\* The mount effect: no idea sends the visitor home; otherwise the questions are
\* loaded with the answers the progress held at this moment.
Mount(live) ==
    IF ~store.idea
    THEN tab' = Tab("home", tab.mount, FALSE) /\ calls' = live /\ UNCHANGED store
    ELSE LET t == Tab("interview", tab.mount + 1, TRUE)
         IN  /\ tab.mount < MaxMounts
             /\ tab' = t
             /\ store' = saveInterviewProgress(t)
             /\ calls' = live \cup {[kind |-> "load", mount |-> t.mount, n |-> MaxInFlight + 1,
                                     resume |-> store.saved, from |-> store.progress]}

\* getSession answers: the interview, or the signup page on the way to it; a timeout
\* or an error leaves the visitor on the form, with the idea saved.
SessionReturns ==
    /\ form.submitting = "session"
    /\ \/ Mount(calls) /\ form' = NewForm /\ UNCHANGED webFaults
       \/ /\ tab' = Tab("signup", tab.mount, FALSE) /\ form' = NewForm
          /\ UNCHANGED <<store, calls, webFaults>>
       \/ WebFault /\ form' = [form EXCEPT !.submitting = "no"] /\ UNCHANGED <<store, tab, calls>>
    /\ UNCHANGED <<sent, ghosts>>

\* The interview opened from elsewhere: after a sign-in, by the dashboard's redirect
\* of a visitor with a pending idea, by the back button.
Open ==
    /\ tab.screen \in {"signup", "login", "away"}
    /\ Mount(calls)
    /\ UNCHANGED <<form, sent, ghosts, webFaults>>

\* A question call of a screen that is gone has no effect when it returns; a batch
\* that was started still has one.
Outliving == {c \in calls : c.kind = "submit"}

Leave ==
    /\ tab.screen \in {"interview", "tasks"}
    /\ \E s \in {"away", "home"} : tab' = Tab(s, tab.mount, FALSE)
    /\ calls' = Outliving
    /\ UNCHANGED <<store, form, sent, ghosts, webFaults>>

Reload ==
    /\ tab.screen = "interview"
    /\ Mount({})
    /\ UNCHANGED <<form, sent, ghosts, webFaults>>

(***************************************************************************)
(* InterviewScreen                                                         *)
(***************************************************************************)

showsQuestion == /\ tab.screen = "interview" /\ ~tab.loading /\ tab.phase = "answering"
                 /\ tab.index < Len(tab.questions)
current == tab.questions[tab.index + 1]
showsError(source) == /\ tab.screen = "interview" /\ ~tab.loading
                      /\ tab.phase = "error" /\ tab.error = source
awaitingAnswer == \E c \in calls : c.kind \in {"answer", "jurisdiction"} /\ c.mount = tab.mount
\* Nothing keeps the user from answering while an answer is in flight; bounded
\* by one time, in the last of the mounts.
mayAnswer == awaitingAnswer => /\ tab.mount = MaxMounts /\ ~hurried
                               /\ Cardinality(calls) < MaxInFlight

\* buildFullAnswers: the spine and the context, and the branch answers of the questions
\* on the list at this moment; an answer whose question has left the list stays behind.
buildFullAnswers(t, answers) ==
    [q \in QuestionIds |->
        IF q \in SPINE_AND_CONTEXT_IDS \/ q \in ToSet(t.questions) THEN answers[q] ELSE ""]

\* submit up to its await: the batch is started with these answers.
Submitting(t) == [t EXCEPT !.phase = "submitting", !.error = "none"]
SubmitCall(t) == [kind |-> "submit", mount |-> t.mount, n |-> MaxInFlight + 2]
Batch(t, answers, auto) ==
    [is |-> TRUE, auto |-> auto, answers |-> buildFullAnswers(t, answers),
     given |-> given, orderly |-> ~hurried /\ ~spoiled]

\* The effect that notices that the last question was answered.
pastTheEnd(t) ==
    /\ ~t.loading /\ t.phase = "answering" /\ t.questions # <<>> /\ t.index >= Len(t.questions)
    /\ \/ t.index # tab.index \/ t.loading # tab.loading
       \/ Len(t.questions) # Len(tab.questions)

\* A render is committed and its effects run.
Commit(t, live) ==
    /\ store' = saveInterviewProgress(t)
    /\ IF pastTheEnd(t)
       THEN /\ tab' = Submitting(t) /\ calls' = live \cup {SubmitCall(t)}
            /\ sent' = Batch(t, t.answers, TRUE)
       ELSE tab' = t /\ calls' = live /\ UNCHANGED sent

\* A question call, the n-th of those in flight.
NewCall(kind, base, q, value) ==
    [kind |-> kind, base |-> base, q |-> q, value |-> value, mount |-> tab.mount,
     n |-> CHOOSE n \in 0 .. Cardinality(calls) : \A d \in calls : d.n # n]

\* answerCurrent up to its await, with the answers and the question it closed over:
\* on a retry these are the ones of the render in which the answer was first given.
Answer(base, q, value) ==
    Commit([tab EXCEPT !.answers = [base EXCEPT ![q] = value], !.guessed = @ \ {q}],
           calls \cup {NewCall("answer", base, q, value)})

answerCurrent ==
    /\ showsQuestion /\ current # "jurisdiction"
    /\ mayAnswer
    /\ \E value \in Options[current] :
           /\ Answer(tab.answers, current, value)
           /\ given' = [given EXCEPT ![current] = value]
    /\ hurried' = (hurried \/ awaitingAnswer)
    /\ UNCHANGED <<form, spoiled, webFaults>>

TypeCountry ==
    /\ showsQuestion /\ current = "jurisdiction" /\ ~tab.country
    /\ Commit([tab EXCEPT !.country = TRUE], calls)
    /\ UNCHANGED <<form, ghosts, webFaults>>

answerJurisdiction ==
    /\ showsQuestion /\ current = "jurisdiction" /\ tab.country
    /\ mayAnswer
    /\ Commit(tab, calls \cup {NewCall("jurisdiction", tab.answers, "jurisdiction", "given")})
    /\ given' = [given EXCEPT !["jurisdiction"] = "given"]
    /\ hurried' = (hurried \/ awaitingAnswer)
    /\ UNCHANGED <<form, spoiled, webFaults>>

\* "Try again" on a load error: the closure stored with the error runs once more.
\* Only loadInitialQuestions takes the screen out of the error phase, so a retried
\* answer that succeeds leaves the error on show and each retry advances the index
\* (bounded here by one past the end of the list).
Retry ==
    /\ showsError("network") /\ tab.index <= Len(tab.questions)
    /\ ~awaitingAnswer
    /\ LET c == tab.retry
       IN  CASE c.kind = "load" ->
                  /\ Commit([tab EXCEPT !.loading = TRUE], calls \cup {c})
                  /\ UNCHANGED hurried
             [] c.kind = "answer" ->
                  Answer(c.base, c.q, c.value) /\ hurried' = TRUE
             [] c.kind = "jurisdiction" ->
                  Commit(tab, calls \cup {c}) /\ hurried' = TRUE
    /\ UNCHANGED <<form, given, spoiled, webFaults>>

SignIn ==
    /\ showsError("session-expired")
    /\ tab' = Tab("login", tab.mount, FALSE) /\ calls' = Outliving
    /\ UNCHANGED <<store, form, sent, ghosts, webFaults>>

\* skipTheRest: every question of the list that has no answer gets its first option.
skipTheRest ==
    /\ \/ tab.screen = "interview" /\ ~tab.loading /\ tab.phase = "answering"
       \/ showsError("network") \/ showsError("session-expired")
    /\ LET filled == [q \in QuestionIds |->
                         IF q \in ToSet(tab.questions) /\ tab.answers[q] = ""
                         THEN "default" ELSE tab.answers[q]]
       IN  sent' = Batch(tab, filled, FALSE)
    /\ tab' = Submitting(tab) /\ calls' = calls \cup {SubmitCall(tab)}
    /\ UNCHANGED <<store, form, ghosts, webFaults>>

\* "Try again" on a failed submission.
Resubmit ==
    /\ showsError("submit")
    /\ tab' = Submitting(tab) /\ calls' = calls \cup {SubmitCall(tab)}
    /\ sent' = Batch(tab, tab.answers, FALSE)
    /\ UNCHANGED <<store, form, ghosts, webFaults>>

(***************************************************************************)
(* Responses                                                               *)
(***************************************************************************)

mounted(c) == tab.screen = "interview" /\ tab.mount = c.mount

\* loadInitialQuestions after its await: the saved answers win over the guess.
loadInitialQuestions(c) ==
    LET t == [tab EXCEPT !.loading = FALSE, !.phase = "answering", !.error = "none",
                         !.questions = questionsFor(c.from.answers)]
    IN  IF c.resume
        THEN [t EXCEPT !.answers = c.from.answers, !.guessed = c.from.guessed,
                       !.country = c.from.country, !.index = c.from.index]
        ELSE [t EXCEPT !.answers = Guess, !.guessed = {q \in QuestionIds : Guess[q] # ""}]

LoadReturns(c) ==
    /\ c.kind = "load" /\ mounted(c)
    /\ LET t == loadInitialQuestions(c)
       IN  /\ Commit(t, calls \ {c})
           /\ spoiled' = (spoiled /\ \E q \in QuestionIds \ {"jurisdiction"} :
                                        given[q] # "" /\ t.answers[q] # given[q])
    /\ UNCHANGED <<form, given, hurried, webFaults>>

\* refetchQuestions answers: the list for the answers of that call, and the next index.
AnswerReturns(c) ==
    /\ c.kind \in {"answer", "jurisdiction"} /\ mounted(c)
    /\ LET answers == IF c.kind = "answer" THEN [c.base EXCEPT ![c.q] = c.value] ELSE c.base
       IN  Commit([tab EXCEPT !.questions = questionsFor(answers), !.index = @ + 1], calls \ {c})
    /\ UNCHANGED <<form, ghosts, webFaults>>

\* A question call fails.  A failed load also ends loading, and the persist effect
\* then saves the empty state over the progress it was to resume.
QuestionsFail(c) ==
    /\ c.kind # "submit" /\ mounted(c)
    /\ WebFault
    /\ \E error \in {"network", "session-expired"} :
           Commit([tab EXCEPT !.loading = FALSE, !.phase = "error", !.error = error, !.retry = c],
                  calls \ {c})
    /\ spoiled' = (spoiled \/ c.kind = "load")
    /\ UNCHANGED <<form, given, hurried>>

\* startBatch completes: the idea and the progress are cleared and the visitor is taken
\* to the task list, also when the screen that submitted is gone.
BatchCompletes(c) ==
    /\ c.kind = "submit"
    /\ store' = clearIdea
    /\ tab' = Tab("tasks", tab.mount, FALSE)
    /\ calls' = Outliving \ {c}
    /\ given' = NoAnswers /\ hurried' = FALSE /\ spoiled' = FALSE
    /\ form' = IF form.submitting = "no" THEN NewForm ELSE form
    /\ UNCHANGED <<sent, webFaults>>

\* A failed, queued or skipped batch, or no answer at all: the batch may have run.
BatchFails(c) ==
    /\ c.kind = "submit"
    /\ WebFault
    /\ tab' = IF mounted(c) THEN [tab EXCEPT !.phase = "error", !.error = "submit"] ELSE tab
    /\ calls' = calls \ {c}
    /\ UNCHANGED <<store, form, sent, ghosts>>

InterviewNext ==
    \/ \E m \in {"text", "url"} : SetMode(m)
    \/ handleTextSubmit \/ handleUrlSubmit \/ SummaryReturns \/ SessionReturns
    \/ Open \/ Leave \/ Reload
    \/ answerCurrent \/ TypeCountry \/ answerJurisdiction \/ Retry \/ SignIn
    \/ skipTheRest \/ Resubmit
    \/ \E c \in calls : \/ LoadReturns(c) \/ AnswerReturns(c) \/ QuestionsFail(c)
                        \/ BatchCompletes(c) \/ BatchFails(c)

(***************************************************************************)
(* Properties                                                              *)
(***************************************************************************)

\* The interview keeps what the user said, over reloads, detours, sign-ins and failed
\* calls, for a user who answers one question at a time: what was answered is in the
\* saved progress (unless a failed first load has overwritten it: see spoiled); the
\* batch is started with exactly those spine and context answers; and a batch that was
\* started by answering the last question was preceded by an answer to every spine
\* question (a resumed index never skips one).
AnswersSurvive ==
    /\ tab.screen = "interview" /\ ~hurried /\ ~spoiled =>
           \A q \in QuestionIds \ {"jurisdiction"} :
               given[q] # "" => store.progress.answers[q] = given[q]
    /\ sent.is /\ sent.orderly =>
           /\ \A q \in SPINE_AND_CONTEXT_IDS :
                  sent.given[q] # "" => sent.answers[q] = sent.given[q]
           /\ sent.auto => \A i \in DOMAIN SPINE_QUESTIONS : sent.given[SPINE_QUESTIONS[i]] # ""
==============================================================================
