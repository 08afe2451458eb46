-------------------------- MODULE PhasicGeneration --------------------------
(***************************************************************************)
(* The phasic code-generation agent: the state machine of                  *)
(* PhasicCodingBehavior.launchStateMachine, the single-flight wrapper of   *)
(* BaseCodingBehavior.generateAllFiles, the chat turns that queue requests *)
(* for it, and the WebSocket commands that start, stop and resume it.      *)
(*                                                                         *)
(* The agent is a Durable Object: its code runs on one thread and is       *)
(* interleaved only at awaits, so an action is the code between two        *)
(* awaits.  "Persisted" variables live in the agent state and survive an   *)
(* eviction; the others are fields and locals of the running instance.     *)
(*                                                                         *)
(* An operator named Mut... is the operator after it with a plausible      *)
(* mistake in it; no action uses it.                                       *)
(***************************************************************************)
EXTENDS Integers, Sequences, FiniteSets

CONSTANTS
    Requests,       \* the user's chat messages, each a possible queued request
    PhaseNames,     \* names the planner gives to phases, not always distinct
    InitialPhase,   \* the name of blueprint.initialPhase
    MAX_PHASES,     \* phasesCounter of a new agent
    QueueRecharge,  \* what queueUserRequest recharges phasesCounter to
    None,           \* "no chat turn"
    Failures,       \* BOOLEAN: inference, template and usage calls may fail
    MaxStops,       \* bound: STOP_GENERATION messages in a behaviour
    MaxRestarts     \* bound: evictions of the Durable Object in a behaviour

ASSUME PhasicAssumption ==
    /\ InitialPhase \in PhaseNames
    /\ MAX_PHASES \in Nat \ {0}
    /\ QueueRecharge \in 1..MAX_PHASES
    /\ None \notin Requests
    /\ Failures \in BOOLEAN
    /\ MaxStops \in Nat
    /\ MaxRestarts \in Nat

VARIABLES
    \* persisted
    generatedPhases, phasesCounter, pendingUserInputs, mvpGenerated,
    reviewingInitiated, shouldBeGenerating,
    \* in memory: the generation in flight
    gen,         \* the await it is suspended at ("none": generationPromise is null)
    finalizing,  \* it is inside executeFinalizing
    phaseConcept,\* the phase it implements, an index of generatedPhases, or 0
    userContext, \* suggestions handed to the planner, no phase carries them yet
    signal,      \* the abort signal of its inference: none, live or aborted
    controller,  \* currentAbortController is defined
    clearsFlag,  \* GENERATE_ALL launched it and clears shouldBeGenerating after it
    \* in memory: the chat turns
    chat, debugger,
    \* history
    asked,       \* requests ever queued
    stops, restarts

plan      == <<generatedPhases, phasesCounter, pendingUserInputs>>
flags     == <<mvpGenerated, reviewingInitiated>>
persisted == <<plan, flags, shouldBeGenerating>>
place     == <<finalizing, phaseConcept>>
abort     == <<signal, controller>>
running   == <<gen, place, userContext, abort, clearsFlag>>
talk      == <<chat, debugger>>
bounds    == <<stops, restarts>>
history   == <<asked, bounds>>
vars      == <<persisted, running, talk, history>>

-----------------------------------------------------------------------------
\* A phase, with the requests its plan was made for.
Phase == [name : PhaseNames, lastPhase : BOOLEAN, completed : BOOLEAN,
          requests : SUBSET Requests]

Implementing == {"piIssues", "piInfer", "piDeploy"}
Inferring    == {"pgInfer", "piInfer"}
Working      == {"pgIssues", "pgInfer", "rvIssues"} \cup Implementing
GenStates    == {"none", "starting", "closing", "stuck"} \cup Working
ChatStates   == {"unsent", "checking", "inferring", "debugging", "debugged", "done"}

\* isCodeGenerating(): the promise is set, running or rejected.
Generating == gen # "none"

Talking(r) == chat[r] \in {"inferring", "debugged"}

CurrentPhase == generatedPhases[phaseConcept]

MutNoResume == {}

IncompletedPhases ==
    {i \in DOMAIN generatedPhases : ~generatedPhases[i].completed}

\* markPhaseComplete finds phases by name.
MarkPhaseComplete(name) ==
    [i \in DOMAIN generatedPhases |->
        IF generatedPhases[i].name = name
        THEN [generatedPhases[i] EXCEPT !.completed = TRUE]
        ELSE generatedPhases[i]]

MutPhaseNotStored(name, last, requests) == UNCHANGED generatedPhases

CreateNewIncompletePhase(name, last, requests) ==
    generatedPhases' = Append(generatedPhases,
        [name |-> name, lastPhase |-> last, completed |-> FALSE,
         requests |-> requests])

RechargePhasesCounter(max) ==
    phasesCounter' = IF phasesCounter <= max THEN max ELSE phasesCounter

MutCounterKept == UNCHANGED phasesCounter

DecrementPhasesCounter == phasesCounter' = phasesCounter - 1

MutQueueOverwrites(r) == pendingUserInputs' = {r}

QueuePendingInput(r) == pendingUserInputs' = pendingUserInputs \cup {r}

MutInputsKept ==
    /\ userContext' = pendingUserInputs
    /\ UNCHANGED pendingUserInputs

\* The planner gets all the pending inputs, and the state keeps none.
FetchPendingUserRequests ==
    /\ userContext' = pendingUserInputs
    /\ pendingUserInputs' = {}

\* generateAllFiles returns at once when there is nothing it thinks is left.
NothingToGenerate == mvpGenerated /\ pendingUserInputs = {}

MutFinalizeRegardless == CurrentPhase.lastPhase \/ phasesCounter' <= 0

\* After a phase: finalize, unless requests came in while it was built.
ShouldFinalize ==
    /\ CurrentPhase.lastPhase \/ phasesCounter' <= 0
    /\ pendingUserInputs = {}

TypeOK ==
    /\ generatedPhases \in Seq(Phase)
    /\ phasesCounter \in Int
    /\ pendingUserInputs \in SUBSET Requests
    /\ mvpGenerated \in BOOLEAN
    /\ reviewingInitiated \in BOOLEAN
    /\ shouldBeGenerating \in BOOLEAN
    /\ gen \in GenStates
    /\ finalizing \in BOOLEAN
    /\ phaseConcept \in 0..Len(generatedPhases)
    /\ userContext \in SUBSET Requests
    /\ signal \in {"none", "live", "aborted"}
    /\ controller \in BOOLEAN
    /\ clearsFlag \in BOOLEAN
    /\ chat \in [Requests -> ChatStates]
    /\ debugger \in Requests \cup {None}
    /\ asked \in SUBSET Requests
    /\ stops \in Nat
    /\ restarts \in Nat

Init ==
    /\ generatedPhases = << >>
    /\ phasesCounter = MAX_PHASES
    /\ pendingUserInputs = {}
    /\ mvpGenerated = FALSE
    /\ reviewingInitiated = FALSE
    /\ shouldBeGenerating = FALSE
    /\ gen = "none"
    /\ finalizing = FALSE
    /\ phaseConcept = 0
    /\ userContext = {}
    /\ signal = "none"
    /\ controller = FALSE
    /\ clearsFlag = FALSE
    /\ chat = [r \in Requests |-> "unsent"]
    /\ debugger = None
    /\ asked = {}
    /\ stops = 0
    /\ restarts = 0

-----------------------------------------------------------------------------
\* The loop's transitions, shared by the actions below.

\* IDLE: the loop ends and buildWrapper's finally clears the controller.
EnterIdle ==
    /\ gen' = "closing"
    /\ finalizing' = FALSE
    /\ phaseConcept' = 0
    /\ controller' = FALSE
    /\ signal' = "none"

\* The review runs once in the life of the agent.
EnterReviewing ==
    \/ /\ reviewingInitiated
       /\ EnterIdle
       /\ UNCHANGED reviewingInitiated
    \/ /\ ~reviewingInitiated
       /\ reviewingInitiated' = TRUE
       /\ gen' = "rvIssues"
       /\ finalizing' = FALSE
       /\ phaseConcept' = 0
       /\ signal' = "none"
       /\ UNCHANGED controller

MutPlanAgain ==
    /\ gen' = "pgIssues"
    /\ phaseConcept' = 0
    /\ signal' = "none"
    /\ UNCHANGED <<finalizing, controller, flags>>

\* setMVPGenerated() returns TRUE the first time, and that time goes to review.
EnterFinalizing ==
    \/ /\ ~mvpGenerated
       /\ mvpGenerated' = TRUE
       /\ EnterReviewing
    \/ /\ mvpGenerated
       /\ gen' = "pgIssues"
       /\ finalizing' = TRUE
       /\ phaseConcept' = 0
       /\ signal' = "none"
       /\ UNCHANGED <<flags, controller>>

MutGoOnAfterFailure ==
    /\ gen' = "pgIssues"
    /\ phaseConcept' = 0
    /\ signal' = "none"
    /\ UNCHANGED <<finalizing, controller, reviewingInitiated>>

\* A phase step came to nothing.  executeFinalizing goes to review whatever
\* its steps return; a rate-limit error, rethrown, ends the loop from there too.
EnterAfterFailure ==
    \/ /\ ~finalizing \/ Failures
       /\ EnterIdle
       /\ UNCHANGED reviewingInitiated
    \/ finalizing /\ EnterReviewing

-----------------------------------------------------------------------------
\* Starting a generation

\* generateAllFiles, up to buildWrapper's first await.
Launch(byGenerateAll) ==
    /\ ~Generating
    /\ gen' = "starting"
    /\ clearsFlag' = byGenerateAll

\* ensureTemplateDetails resolves; launchStateMachine picks up where it left.
StartStateMachine ==
    /\ gen = "starting"
    /\ \/ /\ IncompletedPhases # {}
          /\ gen' = "piIssues"
          /\ phaseConcept' \in IncompletedPhases
          /\ \A i \in IncompletedPhases : i <= phaseConcept'
          /\ UNCHANGED generatedPhases
       \/ /\ IncompletedPhases = {} /\ generatedPhases # << >>
          /\ gen' = "pgIssues"
          /\ UNCHANGED <<generatedPhases, phaseConcept>>
       \/ /\ generatedPhases = << >>
          /\ gen' = "piIssues"
          /\ phaseConcept' = 1
          /\ \E last \in BOOLEAN :
                CreateNewIncompletePhase(InitialPhase, last, {})
    /\ UNCHANGED <<phasesCounter, pendingUserInputs, flags,
                   shouldBeGenerating, finalizing, userContext, abort,
                   clearsFlag, talk, history>>

\* ensureTemplateDetails throws outside the try: generationPromise keeps the
\* rejected promise and nothing resets it but a restart.
TemplateUnavailable ==
    /\ Failures
    /\ gen = "starting"
    /\ gen' = "stuck"
    /\ clearsFlag' = FALSE
    /\ UNCHANGED <<persisted, place, userContext, abort, talk, history>>

-----------------------------------------------------------------------------
\* PHASE_GENERATING: executePhaseGeneration and generateNextPhase

\* Issues fetched: take every pending request and ask for the next phase.
AskForPhase ==
    /\ gen = "pgIssues"
    /\ gen' = "pgInfer"
    /\ FetchPendingUserRequests
    /\ signal' = "live"
    /\ controller' = TRUE
    /\ UNCHANGED <<generatedPhases, phasesCounter, flags, shouldBeGenerating,
                   place, clearsFlag, talk, history>>

\* The plan arrives: createNewIncompletePhase, then straight into
\* PHASE_IMPLEMENTING up to its first await.
PhasePlanned ==
    /\ gen = "pgInfer" /\ signal = "live"
    /\ gen' = "piIssues"
    /\ signal' = "none"
    /\ \E name \in PhaseNames, last \in BOOLEAN :
          CreateNewIncompletePhase(name, last, userContext)
    /\ phaseConcept' = Len(generatedPhases) + 1
    /\ userContext' = {}
    /\ UNCHANGED <<phasesCounter, pendingUserInputs, flags,
                   shouldBeGenerating, finalizing, controller, clearsFlag,
                   talk, history>>

\* The planner names no files: nothing is left to build.
NoMorePhases ==
    /\ gen = "pgInfer" /\ signal = "live"
    /\ userContext' = {}
    /\ \/ ~finalizing /\ EnterFinalizing
       \/ /\ finalizing
          /\ EnterReviewing
          /\ UNCHANGED mvpGenerated
    /\ UNCHANGED <<plan, shouldBeGenerating, clearsFlag, talk, asked, bounds>>

\* The planning inference throws: aborted by the user, failed or rate limited.
PhaseGenerationFails ==
    /\ gen = "pgInfer"
    /\ signal = "aborted" \/ Failures
    /\ userContext' = {}
    /\ EnterAfterFailure
    /\ UNCHANGED <<plan, mvpGenerated, shouldBeGenerating, clearsFlag, talk,
                   history>>

-----------------------------------------------------------------------------
\* PHASE_IMPLEMENTING: executePhaseImplementation and implementPhase

\* Issues fetched: the implementing inference starts.
StartImplementing ==
    /\ gen = "piIssues"
    /\ gen' = "piInfer"
    /\ signal' = "live"
    /\ controller' = TRUE
    /\ UNCHANGED <<persisted, place, userContext, clearsFlag, talk, history>>

\* The files have streamed in; the safety gate asks for an inference context
\* again, and saving, commands and the sandbox deployment hold no signal.
FilesGenerated ==
    /\ gen = "piInfer" /\ signal = "live"
    /\ gen' = "piDeploy"
    /\ signal' = "none"
    /\ controller' = TRUE
    /\ UNCHANGED <<persisted, place, userContext, clearsFlag, talk, history>>

\* Deployed: the phase is complete and the loop chooses what is next.
PhaseImplemented ==
    /\ gen = "piDeploy"
    /\ generatedPhases' = MarkPhaseComplete(CurrentPhase.name)
    /\ DecrementPhasesCounter
    /\ \/ /\ finalizing
          /\ EnterReviewing
          /\ UNCHANGED mvpGenerated
       \/ /\ ~finalizing /\ ShouldFinalize
          /\ EnterFinalizing
       \/ /\ ~finalizing /\ ~ShouldFinalize
          /\ gen' = "pgIssues"
          /\ phaseConcept' = 0
          /\ UNCHANGED <<flags, finalizing, abort>>
    /\ UNCHANGED <<pendingUserInputs, shouldBeGenerating, userContext,
                   clearsFlag, talk, asked, bounds>>

\* Implementing throws: aborted, rate limited, or saving or deploying failed.
PhaseImplementationFails ==
    /\ \/ gen = "piInfer" /\ (signal = "aborted" \/ Failures)
       \/ gen = "piDeploy" /\ Failures
    /\ EnterAfterFailure
    /\ UNCHANGED <<plan, mvpGenerated, shouldBeGenerating, userContext,
                   clearsFlag, talk, history>>

-----------------------------------------------------------------------------
\* REVIEWING and the end

\* The issues are in; a prompt to the user is all that comes of them.
Reviewed ==
    /\ gen = "rvIssues"
    /\ EnterIdle
    /\ UNCHANGED <<persisted, userContext, clearsFlag, talk, history>>

\* updateApp resolves (it swallows its errors): generationPromise = null, and
\* the finally of GENERATE_ALL runs with no generation in flight.
GenerationComplete ==
    /\ gen = "closing"
    /\ gen' = "none"
    /\ shouldBeGenerating' = (shouldBeGenerating /\ ~clearsFlag)
    /\ clearsFlag' = FALSE
    /\ UNCHANGED <<plan, flags, place, userContext, abort, talk, history>>

-----------------------------------------------------------------------------
\* Chat turns

\* USER_SUGGESTION, up to the usage check.
UserSuggestion(r) ==
    /\ chat[r] = "unsent"
    /\ chat' = [chat EXCEPT ![r] = "checking"]
    /\ UNCHANGED <<persisted, running, debugger, history>>

\* Over the limit, or the check throws: the message goes no further.
UsageDenied(r) ==
    /\ Failures
    /\ chat[r] = "checking"
    /\ chat' = [chat EXCEPT ![r] = "done"]
    /\ UNCHANGED <<persisted, running, debugger, history>>

\* Allowed: handleUserInput gathers its context and starts the inference.
UsageAllowed(r) ==
    /\ chat[r] = "checking"
    /\ chat' = [chat EXCEPT ![r] = "inferring"]
    /\ controller' = TRUE
    /\ UNCHANGED <<persisted, gen, place, userContext, signal, clearsFlag,
                   debugger, history>>

\* The queue_request tool: queueUserRequest recharges, then queues.
QueueUserRequest(r) ==
    /\ Talking(r) /\ r \notin asked
    /\ RechargePhasesCounter(QueueRecharge)
    /\ QueuePendingInput(r)
    /\ asked' = asked \cup {r}
    /\ UNCHANGED <<generatedPhases, flags, shouldBeGenerating, running, talk, bounds>>

\* The deep_debug tool: once a turn, refused while generating or debugging.
StartDeepDebug(r) ==
    /\ chat[r] = "inferring"
    /\ ~Generating /\ debugger = None
    /\ chat' = [chat EXCEPT ![r] = "debugging"]
    /\ debugger' = r
    /\ controller' = TRUE
    /\ UNCHANGED <<persisted, gen, place, userContext, signal, clearsFlag,
                   history>>

EndDeepDebug(r) ==
    /\ chat[r] = "debugging"
    /\ chat' = [chat EXCEPT ![r] = "debugged"]
    /\ debugger' = None
    /\ UNCHANGED <<persisted, running, history>>

MutTurnClearsController(r) ==
    /\ Talking(r)
    /\ chat' = [chat EXCEPT ![r] = "done"]
    /\ controller' = FALSE
    /\ \/ ~NothingToGenerate /\ Launch(FALSE)
       \/ /\ Generating \/ NothingToGenerate
          /\ UNCHANGED <<gen, clearsFlag>>
    /\ UNCHANGED <<persisted, place, userContext, signal, debugger, history>>

\* The turn ends, aborted or not; the agent starts generating if it is idle.
TurnEnds(r) ==
    /\ Talking(r)
    /\ chat' = [chat EXCEPT ![r] = "done"]
    /\ \/ ~NothingToGenerate /\ Launch(FALSE)
       \/ /\ Generating \/ NothingToGenerate
          /\ UNCHANGED <<gen, clearsFlag>>
    /\ UNCHANGED <<persisted, place, userContext, abort, debugger, history>>

\* The turn's inference throws: what it queued stays, nothing is started.
TurnFails(r) ==
    /\ Failures
    /\ Talking(r)
    /\ chat' = [chat EXCEPT ![r] = "done"]
    /\ UNCHANGED <<persisted, running, debugger, history>>

-----------------------------------------------------------------------------
\* WebSocket commands

\* The button, or the client on reconnecting to a state that should generate.
GenerateAll ==
    \/ /\ ~NothingToGenerate
       /\ Launch(TRUE)
       /\ shouldBeGenerating' = TRUE
       /\ UNCHANGED <<plan, flags, place, userContext, abort, talk, history>>
    \/ /\ Generating \* skipped, or returned and cleared the flag again
       /\ shouldBeGenerating' = TRUE
       /\ UNCHANGED <<plan, flags, running, talk, history>>
    \/ /\ ~Generating /\ NothingToGenerate
       /\ shouldBeGenerating' = FALSE
       /\ UNCHANGED <<plan, flags, running, talk, history>>

\* RESUME_GENERATION: as above, and nothing clears the flag afterwards.
ResumeGeneration ==
    /\ shouldBeGenerating' = TRUE
    /\ \/ ~NothingToGenerate /\ Launch(FALSE)
       \/ /\ Generating \/ NothingToGenerate
          /\ UNCHANGED <<gen, clearsFlag>>
    /\ UNCHANGED <<plan, flags, place, userContext, abort, talk, history>>

\* STOP_GENERATION: cancelCurrentInference aborts whatever holds the
\* controller; the state machine itself is not told.
StopGeneration ==
    /\ stops < MaxStops
    /\ stops' = stops + 1
    /\ shouldBeGenerating' = FALSE
    /\ controller' = FALSE
    /\ signal' = IF controller /\ signal = "live" THEN "aborted" ELSE signal
    /\ UNCHANGED <<plan, flags, gen, place, userContext, clearsFlag, talk,
                   asked, restarts>>

\* The Durable Object is evicted: fields, locals and running turns are gone.
Restart ==
    /\ restarts < MaxRestarts
    /\ restarts' = restarts + 1
    /\ gen' = "none"
    /\ finalizing' = FALSE
    /\ phaseConcept' = 0
    /\ userContext' = {}
    /\ signal' = "none"
    /\ controller' = FALSE
    /\ clearsFlag' = FALSE
    /\ chat' = [r \in Requests |-> IF chat[r] = "unsent" THEN "unsent" ELSE "done"]
    /\ debugger' = None
    /\ UNCHANGED <<persisted, asked, stops>>

-----------------------------------------------------------------------------
GenStep ==
    \/ StartStateMachine \/ TemplateUnavailable
    \/ AskForPhase \/ PhasePlanned \/ NoMorePhases \/ PhaseGenerationFails
    \/ StartImplementing \/ FilesGenerated \/ PhaseImplemented
    \/ PhaseImplementationFails
    \/ Reviewed \/ GenerationComplete

\* What a turn does once its message is sent, apart from optional tool calls.
TurnStep(r) ==
    \/ UsageDenied(r) \/ UsageAllowed(r) \/ EndDeepDebug(r)
    \/ TurnEnds(r) \/ TurnFails(r)

Next ==
    \/ GenStep
    \/ \E r \in Requests :
          \/ UserSuggestion(r) \/ TurnStep(r)
          \/ QueueUserRequest(r) \/ StartDeepDebug(r)
    \/ GenerateAll \/ ResumeGeneration \/ StopGeneration
    \/ Restart

Spec == Init /\ [][Next]_vars

\* The event loop keeps running what it has: an inference, a deployment or a
\* query settles in the end.  The user, and the evictions, owe nothing.
FairSpec ==
    /\ Spec
    /\ WF_vars(GenStep)
    /\ \A r \in Requests : WF_vars(TurnStep(r))
-----------------------------------------------------------------------------
\* Properties

\* The phases left to finish.
Open == {i \in DOMAIN generatedPhases : ~generatedPhases[i].completed}

\* At most one phase is unfinished, the last of generatedPhases: a resumed
\* agent never leaves an older phase half built behind a newer one
\* (launchStateMachine resumes only the last incomplete phase).
OneOpenPhase == \A i \in Open : i = Len(generatedPhases)

\* What is being implemented is the open phase of the plan, and no new phase is
\* planned over an open one, whatever failed, was stopped or restarted before.
WorksOnOpenPhase ==
    /\ gen \in Implementing =>
          phaseConcept = Len(generatedPhases) /\ phaseConcept \in Open
    /\ gen \in {"pgIssues", "pgInfer"} => Open = {}

\* One phase at a time, from its plan to its end.
OnePhaseAtATime == OneOpenPhase /\ WorksOnOpenPhase

\* A planning or implementing inference that has not been aborted is within
\* reach of STOP_GENERATION, though chat turns share its abort controller.
StopReachesInference ==
    gen \in Inferring /\ signal = "live" => controller

\* Where a queued request may be: waiting, with the planner, or in a plan.
Planned == UNION {generatedPhases[i].requests : i \in DOMAIN generatedPhases}
Held    == pendingUserInputs \cup userContext \cup Planned

\* A request is in one of the three places and in one phase: it is never
\* planned again after a failed phase, a stop or a resumed generation.
HandledOnce ==
    /\ Held \subseteq asked
    /\ pendingUserInputs \cap (userContext \cup Planned) = {}
    /\ userContext \cap Planned = {}
    /\ \A i, j \in DOMAIN generatedPhases :
          i # j => generatedPhases[i].requests \cap generatedPhases[j].requests = {}

\* A queued request is lost only out of the hands of the planner, when the
\* planning inference ends without a phase or the agent is evicted under it.
LostOnlyWhilePlanning ==
    [][~(Held \subseteq Held') =>
          /\ gen = "pgInfer" /\ gen' # "piIssues"
          /\ Held \ Held' = userContext]_vars

\* A queued request pays for at most QueueRecharge + 1 phases, the final one
\* included, on top of the agent's first MAX_PHASES: no run of failures, stops
\* and resumptions makes the planner go on for ever.
PhaseBudget ==
    Len(generatedPhases) <= MAX_PHASES + Cardinality(asked) * (QueueRecharge + 1)

\* The agent implements RequestQueue: it takes, plans, builds and loses requests
\* in whole batches, one phase at a time, whatever fails, stops or restarts it.
RequestsOf(phases) == UNION {generatedPhases[i].requests : i \in phases}

Queue == INSTANCE RequestQueue WITH
    waiting  <- pendingUserInputs,
    planning <- userContext,
    open     <- Open # {},
    building <- RequestsOf(Open),
    built    <- RequestsOf(DOMAIN generatedPhases \ Open),
    lost     <- asked \ Held

Implements == Queue!Spec

\* Every generation that starts comes to an end, or is stuck on its template:
\* phasesCounter stops a planner that never names a last phase.
GenerationEnds == gen = "starting" ~> gen \in {"none", "stuck"}

\* A request queued while a phase is being built is picked up by a phase of the
\* same generation (the check of pendingUserInputs before FINALIZING), and is
\* implemented unless the planner declines it.
QueuedIsBuilt ==
    \A r \in Requests :
        r \in pendingUserInputs /\ gen \in Implementing /\ ~finalizing
        ~> \/ r \in asked \ Held
           \/ \E i \in DOMAIN generatedPhases :
                 r \in generatedPhases[i].requests /\ generatedPhases[i].completed

=============================================================================
