----------------------- MODULE PhasicGeneration_proofs -----------------------
(***************************************************************************)
(* What holds of PhasicGeneration for every set of requests and phase      *)
(* names, every phase budget, and any number of stops and evictions.       *)
(***************************************************************************)
EXTENDS PhasicGeneration, SequenceTheorems, FiniteSetTheorems, TLAPS

-----------------------------------------------------------------------------
\* The two operators that write generatedPhases

\* createNewIncompletePhase keeps the phases there are and adds an open one.
LEMMA AppendedPhase ==
    ASSUME generatedPhases \in Seq(Phase),
           NEW name \in PhaseNames, NEW last \in BOOLEAN,
           NEW requests \in SUBSET Requests,
           CreateNewIncompletePhase(name, last, requests)
    PROVE  /\ generatedPhases' \in Seq(Phase)
           /\ Len(generatedPhases) \in Nat
           /\ Len(generatedPhases') = Len(generatedPhases) + 1
           /\ DOMAIN generatedPhases = 1..Len(generatedPhases)
           /\ DOMAIN generatedPhases' = 1..(Len(generatedPhases) + 1)
           /\ \A i \in 1..Len(generatedPhases) :
                 generatedPhases'[i] = generatedPhases[i]
           /\ LET new == generatedPhases'[Len(generatedPhases) + 1]
              IN  ~new.completed /\ new.requests = requests
<1> DEFINE new == [name |-> name, lastPhase |-> last, completed |-> FALSE,
                   requests |-> requests]
<1>1. new \in Phase
  BY DEF Phase
<1>2. generatedPhases' = Append(generatedPhases, new)
  BY DEF CreateNewIncompletePhase
<1> HIDE DEF new
<1>3. /\ generatedPhases' \in Seq(Phase)
      /\ Len(generatedPhases') = Len(generatedPhases) + 1
      /\ \A i \in 1..Len(generatedPhases) :
            generatedPhases'[i] = generatedPhases[i]
      /\ generatedPhases'[Len(generatedPhases) + 1] = new
  BY <1>1, <1>2, AppendProperties
<1>4. /\ Len(generatedPhases) \in Nat
      /\ DOMAIN generatedPhases = 1..Len(generatedPhases)
      /\ DOMAIN generatedPhases' = 1..(Len(generatedPhases) + 1)
  BY <1>3, LenProperties
<1>5. ~new.completed /\ new.requests = requests
  BY DEF new
<1>6. QED
  BY <1>3, <1>4, <1>5

\* markPhaseComplete changes no phase but those of the name, and of them only
\* whether they are completed.
LEMMA MarkedPhases ==
    ASSUME generatedPhases \in Seq(Phase), NEW name
    PROVE  LET marked == MarkPhaseComplete(name)
           IN  /\ marked \in Seq(Phase)
               /\ Len(generatedPhases) \in Nat
               /\ Len(marked) = Len(generatedPhases)
               /\ DOMAIN generatedPhases = 1..Len(generatedPhases)
               /\ DOMAIN marked = 1..Len(generatedPhases)
               /\ \A i \in 1..Len(generatedPhases) :
                     /\ marked[i].requests = generatedPhases[i].requests
                     /\ marked[i].completed <=>
                           \/ generatedPhases[i].completed
                           \/ generatedPhases[i].name = name
<1> DEFINE marked == MarkPhaseComplete(name)
           n == Len(generatedPhases)
<1>1. /\ n \in Nat
      /\ DOMAIN generatedPhases = 1..n
      /\ \A i \in 1..n : generatedPhases[i] \in Phase
  BY LenProperties, ElementOfSeq
<1>2. \A i \in 1..n : marked[i] =
         IF generatedPhases[i].name = name
         THEN [generatedPhases[i] EXCEPT !.completed = TRUE]
         ELSE generatedPhases[i]
  BY <1>1 DEF MarkPhaseComplete
<1>3. \A i \in 1..n :
         /\ marked[i] \in Phase
         /\ marked[i].requests = generatedPhases[i].requests
         /\ marked[i].completed <=>
               \/ generatedPhases[i].completed
               \/ generatedPhases[i].name = name
  BY <1>1, <1>2 DEF Phase
<1>4. marked \in [1..n -> Phase]
  <2>1. marked = [i \in 1..n |-> marked[i]]
    BY <1>1 DEF MarkPhaseComplete
  <2> HIDE DEF marked
  <2>2. QED
    BY <1>3, <2>1
<1> HIDE DEF marked
<1>5. /\ marked \in Seq(Phase)
      /\ DOMAIN marked = 1..n
  BY <1>1, <1>4, SeqDef
<1>6. Len(marked) = n
  BY <1>1, <1>5, LenProperties
<1>7. QED
  BY <1>1, <1>3, <1>5, <1>6 DEF marked

-----------------------------------------------------------------------------
\* The type invariant

\* A transition to idle, review or finalizing is well typed.
LEMMA TypedTransitions ==
    ASSUME TypeOK,
           \/ EnterIdle /\ UNCHANGED flags
           \/ EnterReviewing /\ UNCHANGED mvpGenerated
           \/ EnterFinalizing
           \/ EnterAfterFailure /\ UNCHANGED mvpGenerated
    PROVE  /\ gen' \in GenStates
           /\ finalizing' \in BOOLEAN
           /\ phaseConcept' = 0
           /\ signal' \in {"none", "live", "aborted"}
           /\ controller' \in BOOLEAN
           /\ mvpGenerated' \in BOOLEAN
           /\ reviewingInitiated' \in BOOLEAN
<1> USE DEF TypeOK, GenStates, Working, Implementing, flags
<1>1. CASE EnterIdle /\ UNCHANGED flags
  BY <1>1 DEF EnterIdle
<1>2. CASE EnterReviewing /\ UNCHANGED mvpGenerated
  BY <1>2 DEF EnterReviewing, EnterIdle
<1>3. CASE EnterFinalizing
  <2>1. CASE mvpGenerated' = TRUE /\ EnterReviewing
    BY <2>1 DEF EnterReviewing, EnterIdle
  <2>2. CASE /\ mvpGenerated
             /\ gen' = "pgIssues"
             /\ finalizing' = TRUE
             /\ phaseConcept' = 0
             /\ signal' = "none"
             /\ UNCHANGED <<flags, controller>>
    BY <2>2
  <2>3. QED
    BY <1>3, <2>1, <2>2 DEF EnterFinalizing
<1>4. CASE EnterAfterFailure /\ UNCHANGED mvpGenerated
  BY <1>1, <1>2, <1>4 DEF EnterAfterFailure
<1>5. QED
  BY <1>1, <1>2, <1>3, <1>4

\* Every step of the generation keeps the types.
LEMMA GenStepTyped == ASSUME TypeOK, GenStep PROVE TypeOK'
<1> USE DEF plan, flags, place, abort, talk, bounds, history, GenStates,
            Working, Implementing
<1>0. generatedPhases \in Seq(Phase) /\ Len(generatedPhases) \in Nat
  BY LenProperties DEF TypeOK
<1>1. CASE StartStateMachine
  <2>1. CASE generatedPhases # << >>
    <3>1. /\ UNCHANGED generatedPhases
          /\ gen' \in GenStates
          /\ phaseConcept' \in IncompletedPhases \/ UNCHANGED phaseConcept
      BY <1>1, <2>1 DEF StartStateMachine
    <3>2. IncompletedPhases \subseteq 0..Len(generatedPhases)
      BY <1>0, LenProperties DEF IncompletedPhases
    <3>3. phaseConcept' \in 0..Len(generatedPhases')
      BY <3>1, <3>2 DEF TypeOK
    <3>4. QED
      BY <1>1, <3>1, <3>3 DEF StartStateMachine, TypeOK
  <2>2. CASE generatedPhases = << >>
    <3>1. IncompletedPhases = {}
      BY <2>2 DEF IncompletedPhases
    <3>2. \E last \in BOOLEAN :
             CreateNewIncompletePhase(InitialPhase, last, {})
      BY <1>1, <2>2, <3>1 DEF StartStateMachine
    <3>3. /\ generatedPhases' \in Seq(Phase)
          /\ Len(generatedPhases') = Len(generatedPhases) + 1
      BY <1>0, <3>2, AppendedPhase, PhasicAssumption
    <3>4. gen' \in GenStates /\ phaseConcept' = 1
      BY <1>1, <2>2, <3>1 DEF StartStateMachine
    <3>5. QED
      BY <1>0, <1>1, <3>3, <3>4 DEF StartStateMachine, TypeOK
  <2>3. QED
    BY <2>1, <2>2
<1>2. CASE TemplateUnavailable
  BY <1>2 DEF TemplateUnavailable, TypeOK, persisted
<1>3. CASE AskForPhase
  BY <1>3 DEF AskForPhase, FetchPendingUserRequests, TypeOK
<1>4. CASE PhasePlanned
  <2>1. /\ generatedPhases' \in Seq(Phase)
        /\ Len(generatedPhases') = Len(generatedPhases) + 1
    BY <1>0, <1>4, AppendedPhase DEF PhasePlanned, TypeOK
  <2>2. phaseConcept' \in 0..Len(generatedPhases')
    BY <1>0, <1>4, <2>1 DEF PhasePlanned
  <2>3. QED
    BY <1>4, <2>1, <2>2 DEF PhasePlanned, TypeOK
<1>5. CASE NoMorePhases
  BY <1>0, <1>5, TypedTransitions DEF NoMorePhases, TypeOK
<1>6. CASE PhaseGenerationFails
  BY <1>0, <1>6, TypedTransitions DEF PhaseGenerationFails, TypeOK
<1>7. CASE StartImplementing
  BY <1>7 DEF StartImplementing, TypeOK, persisted
<1>8. CASE FilesGenerated
  BY <1>8 DEF FilesGenerated, TypeOK, persisted
<1>9. CASE PhaseImplemented
  <2>1. /\ generatedPhases' \in Seq(Phase)
        /\ Len(generatedPhases') = Len(generatedPhases)
    BY <1>0, <1>9, MarkedPhases DEF PhaseImplemented
  <2>2. phasesCounter' \in Int
    BY <1>9 DEF PhaseImplemented, DecrementPhasesCounter, TypeOK
  <2>3. /\ gen' \in GenStates /\ finalizing' \in BOOLEAN
        /\ phaseConcept' = 0
        /\ signal' \in {"none", "live", "aborted"} /\ controller' \in BOOLEAN
        /\ mvpGenerated' \in BOOLEAN /\ reviewingInitiated' \in BOOLEAN
    <3>1. CASE gen' = "pgIssues" /\ phaseConcept' = 0
               /\ UNCHANGED <<flags, finalizing, abort>>
      BY <3>1 DEF TypeOK
    <3>2. QED
      BY <1>9, <3>1, TypedTransitions DEF PhaseImplemented
  <2>4. QED
    BY <1>0, <1>9, <2>1, <2>2, <2>3 DEF PhaseImplemented, TypeOK
<1>10. CASE PhaseImplementationFails
  <2>1. EnterAfterFailure /\ UNCHANGED mvpGenerated
    BY <1>10 DEF PhaseImplementationFails
  <2>2. UNCHANGED <<plan, mvpGenerated, shouldBeGenerating, userContext,
                    clearsFlag, talk, history>>
    BY <1>10 DEF PhaseImplementationFails
  <2>3. /\ gen' \in GenStates /\ finalizing' \in BOOLEAN
        /\ phaseConcept' = 0
        /\ signal' \in {"none", "live", "aborted"} /\ controller' \in BOOLEAN
        /\ reviewingInitiated' \in BOOLEAN
    BY <2>1, TypedTransitions
  <2>4. QED
    BY <1>0, <2>2, <2>3 DEF TypeOK
<1>11. CASE Reviewed
  <2>1. EnterIdle /\ UNCHANGED <<persisted, userContext, clearsFlag, talk, history>>
    BY <1>11 DEF Reviewed
  <2>2. UNCHANGED <<plan, flags, shouldBeGenerating, userContext, clearsFlag,
                    talk, history>>
    BY <2>1 DEF persisted
  <2>3. /\ gen' \in GenStates /\ finalizing' \in BOOLEAN
        /\ phaseConcept' = 0
        /\ signal' \in {"none", "live", "aborted"} /\ controller' \in BOOLEAN
    BY <2>1, <2>2, TypedTransitions
  <2>4. QED
    BY <1>0, <2>2, <2>3 DEF TypeOK
<1>12. CASE GenerationComplete
  BY <1>12 DEF GenerationComplete, TypeOK
<1>13. QED
  BY <1>1, <1>2, <1>3, <1>4, <1>5, <1>6, <1>7, <1>8, <1>9, <1>10, <1>11,
     <1>12 DEF GenStep

\* Every step of a chat turn keeps the types.
LEMMA TurnTyped ==
    ASSUME TypeOK, NEW r \in Requests,
           \/ UserSuggestion(r) \/ TurnStep(r)
           \/ QueueUserRequest(r) \/ StartDeepDebug(r)
    PROVE  TypeOK'
<1> USE DEF TypeOK, ChatStates, plan, flags, persisted, place, abort, running,
            talk, bounds, history
<1>1. CASE UserSuggestion(r)
  BY <1>1 DEF UserSuggestion
<1>2. CASE UsageDenied(r)
  BY <1>2 DEF UsageDenied
<1>3. CASE UsageAllowed(r)
  BY <1>3 DEF UsageAllowed
<1>4. CASE EndDeepDebug(r)
  BY <1>4 DEF EndDeepDebug
<1>5. CASE TurnEnds(r)
  BY <1>5 DEF TurnEnds, Launch, GenStates
<1>6. CASE TurnFails(r)
  BY <1>6 DEF TurnFails
<1>7. CASE QueueUserRequest(r)
  BY <1>7, PhasicAssumption
     DEF QueueUserRequest, RechargePhasesCounter, QueuePendingInput
<1>8. CASE StartDeepDebug(r)
  BY <1>8 DEF StartDeepDebug
<1>9. QED
  BY <1>1, <1>2, <1>3, <1>4, <1>5, <1>6, <1>7, <1>8 DEF TurnStep

\* TypeOK holds for every instance of the agent.
THEOREM TypeCorrect == Spec => []TypeOK
<1>1. Init => TypeOK
  <2> SUFFICES ASSUME Init PROVE TypeOK
    OBVIOUS
  <2>1. generatedPhases \in Seq(Phase) /\ phaseConcept \in 0..Len(generatedPhases)
    BY EmptySeq DEF Init
  <2>2. chat \in [Requests -> ChatStates]
    BY DEF Init, ChatStates
  <2>3. /\ mvpGenerated \in BOOLEAN /\ reviewingInitiated \in BOOLEAN
        /\ shouldBeGenerating \in BOOLEAN /\ finalizing \in BOOLEAN
        /\ controller \in BOOLEAN /\ clearsFlag \in BOOLEAN
    BY DEF Init
  <2>4. /\ phasesCounter \in Int
        /\ stops \in Nat /\ restarts \in Nat
    BY PhasicAssumption DEF Init
  <2>5. /\ pendingUserInputs \in SUBSET Requests
        /\ userContext \in SUBSET Requests /\ asked \in SUBSET Requests
        /\ gen \in GenStates /\ signal \in {"none", "live", "aborted"}
        /\ debugger \in Requests \cup {None}
    BY DEF Init, GenStates
  <2>6. QED
    BY <2>1, <2>2, <2>3, <2>4, <2>5 DEF TypeOK
<1>2. TypeOK /\ [Next]_vars => TypeOK'
  <2> SUFFICES ASSUME TypeOK, [Next]_vars PROVE TypeOK'
    OBVIOUS
  <2> USE DEF plan, flags, persisted, place, abort, running, talk, bounds,
              history
  <2>1. CASE GenerateAll
    BY <2>1 DEF GenerateAll, Launch, TypeOK, GenStates
  <2>2. CASE ResumeGeneration
    BY <2>2 DEF ResumeGeneration, Launch, TypeOK, GenStates
  <2>3. CASE StopGeneration
    <3>1. signal' \in {"none", "live", "aborted"}
      BY <2>3 DEF StopGeneration, TypeOK
    <3>2. shouldBeGenerating' \in BOOLEAN /\ controller' \in BOOLEAN
      BY <2>3 DEF StopGeneration
    <3>3. /\ stops' \in Nat
          /\ UNCHANGED <<plan, flags, gen, place, userContext, clearsFlag, talk,
                         asked, restarts>>
      BY <2>3 DEF StopGeneration, TypeOK
    <3>4. QED
      BY <3>1, <3>2, <3>3 DEF TypeOK
  <2>4. CASE Restart
    <3>1. Len(generatedPhases) \in Nat
      BY LenProperties DEF TypeOK
    <3>2. chat' \in [Requests -> ChatStates]
      BY <2>4 DEF Restart, TypeOK, ChatStates
    <3>3. /\ finalizing' \in BOOLEAN /\ controller' \in BOOLEAN
          /\ clearsFlag' \in BOOLEAN
      BY <2>4 DEF Restart
    <3>4. /\ gen' \in GenStates
          /\ signal' \in {"none", "live", "aborted"}
          /\ userContext' \in SUBSET Requests
          /\ debugger' \in Requests \cup {None}
      BY <2>4 DEF Restart, GenStates
    <3>5. /\ restarts' \in Nat /\ phaseConcept' = 0
          /\ UNCHANGED <<persisted, asked, stops>>
      BY <2>4 DEF Restart, TypeOK
    <3>6. QED
      BY <3>1, <3>2, <3>3, <3>4, <3>5 DEF TypeOK
  <2>5. CASE UNCHANGED vars
    BY <2>5 DEF vars, TypeOK
  <2>6. QED
    BY <2>1, <2>2, <2>3, <2>4, <2>5, GenStepTyped, TurnTyped DEF Next
<1>3. QED
  BY <1>1, <1>2, PTL DEF Spec

-----------------------------------------------------------------------------
\* One open phase, and the implementation works on it

\* Where the transitions of the loop lead.
LEMMA TransitionTargets ==
    /\ EnterIdle => gen' = "closing" /\ signal' = "none"
    /\ EnterReviewing => gen' \in {"closing", "rvIssues"} /\ signal' = "none"
    /\ EnterAfterFailure => gen' \in {"closing", "rvIssues"} /\ signal' = "none"
    /\ EnterFinalizing =>
          gen' \in {"closing", "rvIssues", "pgIssues"} /\ signal' = "none"
<1>1. EnterIdle => gen' = "closing" /\ signal' = "none"
  BY DEF EnterIdle
<1>2. EnterReviewing => gen' \in {"closing", "rvIssues"} /\ signal' = "none"
  BY <1>1 DEF EnterReviewing
<1>3. EnterAfterFailure => gen' \in {"closing", "rvIssues"} /\ signal' = "none"
  BY <1>1, <1>2 DEF EnterAfterFailure
<1>4. EnterFinalizing =>
         gen' \in {"closing", "rvIssues", "pgIssues"} /\ signal' = "none"
  BY <1>2 DEF EnterFinalizing
<1>5. QED
  BY <1>1, <1>2, <1>3, <1>4

\* The two parts of OnePhaseAtATime are inductive together: a phase is planned
\* only when no other is open, so the open one is always the last.

\* A step that leaves the phases alone keeps them, if it begins no work.
LEMMA PhasesUntouched ==
    ASSUME OnePhaseAtATime, UNCHANGED generatedPhases,
           \/ gen' \notin Implementing \cup {"pgIssues", "pgInfer"}
           \/ UNCHANGED <<gen, phaseConcept>>
           \/ /\ gen \in Implementing /\ gen' \in Implementing
              /\ UNCHANGED phaseConcept
           \/ gen \in {"pgIssues", "pgInfer"} /\ gen' \in {"pgIssues", "pgInfer"}
    PROVE  OnePhaseAtATime'
<1>1. Open' = Open
  BY DEF Open
<1>2. OneOpenPhase'
  BY <1>1 DEF OnePhaseAtATime, OneOpenPhase
<1>3. WorksOnOpenPhase'
  BY <1>1 DEF OnePhaseAtATime, WorksOnOpenPhase, Implementing
<1>4. QED
  BY <1>2, <1>3 DEF OnePhaseAtATime

\* A phase appended when none is open is the open phase.
LEMMA PhaseOpened ==
    ASSUME generatedPhases \in Seq(Phase), Open = {},
           NEW name \in PhaseNames, NEW last \in BOOLEAN,
           NEW requests \in SUBSET Requests,
           CreateNewIncompletePhase(name, last, requests),
           gen' = "piIssues", phaseConcept' = Len(generatedPhases) + 1
    PROVE  OnePhaseAtATime'
<1>1. Open' = {Len(generatedPhases')}
  BY AppendedPhase DEF Open
<1>2. phaseConcept' = Len(generatedPhases')
  BY AppendedPhase
<1>3. QED
  BY <1>1, <1>2 DEF OnePhaseAtATime, OneOpenPhase, WorksOnOpenPhase

\* The state machine resumes the open phase, or plans or begins one if there
\* is none.
LEMMA StartOpen ==
    ASSUME TypeOK, OnePhaseAtATime, StartStateMachine PROVE OnePhaseAtATime'
<1>0. /\ generatedPhases \in Seq(Phase)
      /\ IncompletedPhases = Open
  BY DEF TypeOK, IncompletedPhases, Open
<1>1. CASE Open # {} /\ generatedPhases # << >>
  <2>1. /\ UNCHANGED generatedPhases
        /\ gen' = "piIssues"
        /\ phaseConcept' \in Open
    BY <1>0, <1>1 DEF StartStateMachine
  <2>2. Open' = Open
    BY <2>1 DEF Open
  <2>3. phaseConcept' = Len(generatedPhases')
    BY <2>1 DEF OnePhaseAtATime, OneOpenPhase
  <2>4. QED
    BY <2>1, <2>2, <2>3 DEF OnePhaseAtATime, OneOpenPhase, WorksOnOpenPhase
<1>2. CASE Open = {} /\ generatedPhases # << >>
  <2>1. UNCHANGED generatedPhases /\ gen' = "pgIssues"
    BY <1>0, <1>2 DEF StartStateMachine
  <2>2. Open' = {}
    BY <1>2, <2>1 DEF Open
  <2>3. QED
    BY <2>1, <2>2 DEF OnePhaseAtATime, OneOpenPhase, WorksOnOpenPhase, Implementing
<1>3. CASE generatedPhases = << >>
  <2>1. Open = {} /\ Len(generatedPhases) = 0
    BY <1>3, EmptySeq DEF Open
  <2>2. /\ gen' = "piIssues" /\ phaseConcept' = 1
        /\ \E last \in BOOLEAN :
              CreateNewIncompletePhase(InitialPhase, last, {})
    BY <1>0, <1>3, <2>1 DEF StartStateMachine
  <2>3. phaseConcept' = Len(generatedPhases) + 1
    BY <2>1, <2>2
  <2>4. QED
    BY <1>0, <2>1, <2>2, <2>3, PhaseOpened, PhasicAssumption
<1>4. QED
  BY <1>1, <1>2, <1>3

\* Completing the phase that was implemented leaves none open.
LEMMA PhaseClosed ==
    ASSUME TypeOK, OnePhaseAtATime, PhaseImplemented
    PROVE  Open' = {} /\ OnePhaseAtATime'
<1> DEFINE c == phaseConcept
           n == Len(generatedPhases)
<1>1. /\ generatedPhases \in Seq(Phase)
      /\ generatedPhases' = MarkPhaseComplete(generatedPhases[c].name)
      /\ gen' \in {"closing", "rvIssues", "pgIssues"}
  BY TransitionTargets DEF PhaseImplemented, CurrentPhase, TypeOK
<1>2. /\ n \in Nat
      /\ DOMAIN generatedPhases = 1..n /\ DOMAIN generatedPhases' = 1..n
      /\ \A i \in 1..n : generatedPhases'[i].completed <=>
            \/ generatedPhases[i].completed
            \/ generatedPhases[i].name = generatedPhases[c].name
  BY <1>1, MarkedPhases
<1>3. c = n /\ c \in Open
  BY DEF PhaseImplemented, OnePhaseAtATime, WorksOnOpenPhase, Implementing
<1>4. \A i \in 1..n : i # n => generatedPhases[i].completed
  BY <1>2 DEF OnePhaseAtATime, OneOpenPhase, Open
<1>5. Open' = {}
  BY <1>2, <1>3, <1>4 DEF Open
<1>6. QED
  BY <1>1, <1>5 DEF OnePhaseAtATime, OneOpenPhase, WorksOnOpenPhase, Implementing

\* Every step keeps OnePhaseAtATime.
LEMMA OpenStep ==
    ASSUME TypeOK, OnePhaseAtATime, [Next]_vars PROVE OnePhaseAtATime'
<1> USE DEF plan, flags, persisted, place, abort, running
<1>0. generatedPhases \in Seq(Phase)
  BY DEF TypeOK
<1>1. CASE StartStateMachine
  BY <1>1, StartOpen
<1>2. CASE TemplateUnavailable
  BY <1>2, PhasesUntouched DEF TemplateUnavailable, Implementing
<1>3. CASE AskForPhase
  BY <1>3, PhasesUntouched DEF AskForPhase
<1>4. CASE PhasePlanned
  <2>1. Open = {} /\ userContext \in SUBSET Requests
    BY <1>4 DEF PhasePlanned, TypeOK, OnePhaseAtATime, WorksOnOpenPhase
  <2>2. /\ gen' = "piIssues" /\ phaseConcept' = Len(generatedPhases) + 1
        /\ \E name \in PhaseNames, last \in BOOLEAN :
              CreateNewIncompletePhase(name, last, userContext)
    BY <1>4 DEF PhasePlanned
  <2>3. QED
    BY <1>0, <2>1, <2>2, PhaseOpened
<1>5. CASE NoMorePhases
  <2>1. /\ gen \in {"pgIssues", "pgInfer"} /\ UNCHANGED generatedPhases
        /\ gen' \in {"closing", "rvIssues", "pgIssues"}
    BY <1>5, TransitionTargets DEF NoMorePhases
  <2>2. QED
    BY <2>1, PhasesUntouched DEF Implementing
<1>6. CASE PhaseGenerationFails \/ PhaseImplementationFails \/ Reviewed
  <2>1. gen' \in {"closing", "rvIssues"} /\ UNCHANGED generatedPhases
    BY <1>6, TransitionTargets
       DEF PhaseGenerationFails, PhaseImplementationFails, Reviewed
  <2>2. QED
    BY <2>1, PhasesUntouched DEF Implementing
<1>7. CASE StartImplementing \/ FilesGenerated
  BY <1>7, PhasesUntouched DEF StartImplementing, FilesGenerated, Implementing
<1>8. CASE PhaseImplemented
  BY <1>8, PhaseClosed
<1>9. CASE GenerationComplete
  BY <1>9, PhasesUntouched DEF GenerationComplete, Implementing
<1>10. CASE GenerateAll \/ ResumeGeneration
  <2>1. /\ UNCHANGED generatedPhases
        /\ gen' = "starting" \/ UNCHANGED <<gen, phaseConcept>>
    BY <1>10 DEF GenerateAll, ResumeGeneration, Launch
  <2>2. QED
    BY <2>1, PhasesUntouched DEF Implementing
<1>11. CASE StopGeneration
  BY <1>11, PhasesUntouched DEF StopGeneration
<1>12. CASE Restart
  BY <1>12, PhasesUntouched DEF Restart, Implementing
<1>13. ASSUME NEW r \in Requests,
              \/ UserSuggestion(r) \/ TurnStep(r)
              \/ QueueUserRequest(r) \/ StartDeepDebug(r)
       PROVE  OnePhaseAtATime'
  <2>1. /\ UNCHANGED generatedPhases
        /\ gen' = "starting" \/ UNCHANGED <<gen, phaseConcept>>
    BY <1>13 DEF UserSuggestion, TurnStep, UsageDenied, UsageAllowed,
                 EndDeepDebug, TurnEnds, TurnFails, Launch, QueueUserRequest,
                 StartDeepDebug
  <2>2. QED
    BY <2>1, PhasesUntouched DEF Implementing
<1>14. CASE UNCHANGED vars
  BY <1>14, PhasesUntouched DEF vars
<1>15. QED
  BY <1>1, <1>2, <1>3, <1>4, <1>5, <1>6, <1>7, <1>8, <1>9, <1>10, <1>11,
     <1>12, <1>13, <1>14 DEF Next, GenStep

\* Whatever fails, is stopped, restarted or resumed, at most the last phase is
\* unfinished, what is being implemented is that phase, and none is planned over
\* it.
THEOREM OnePhaseAtATimeCorrect == Spec => []OnePhaseAtATime
<1>1. Init => OnePhaseAtATime
  BY EmptySeq DEF Init, OnePhaseAtATime, OneOpenPhase, WorksOnOpenPhase, Open,
                  Implementing
<1>2. TypeOK /\ OnePhaseAtATime /\ [Next]_vars => OnePhaseAtATime'
  BY OpenStep
<1>3. QED
  BY <1>1, <1>2, TypeCorrect, PTL DEF Spec

-----------------------------------------------------------------------------
\* STOP_GENERATION reaches the inference

\* The invariant is inductive: a turn may replace the controller but not clear
\* it, and STOP clears it only together with the signal it aborts.
LEMMA StopStep ==
    ASSUME StopReachesInference, [Next]_vars PROVE StopReachesInference'
<1> USE DEF StopReachesInference, Inferring, plan, flags, persisted, place,
            abort, running
<1>1. CASE StartStateMachine \/ TemplateUnavailable \/ GenerationComplete
  BY <1>1 DEF StartStateMachine, TemplateUnavailable, GenerationComplete
<1>2. CASE AskForPhase \/ StartImplementing
  BY <1>2 DEF AskForPhase, StartImplementing
<1>3. CASE PhasePlanned \/ FilesGenerated
  BY <1>3 DEF PhasePlanned, FilesGenerated
<1>4. CASE \/ NoMorePhases \/ PhaseGenerationFails \/ PhaseImplemented
           \/ PhaseImplementationFails \/ Reviewed
  <2>1. gen' \notin Inferring
    BY <1>4, TransitionTargets
       DEF NoMorePhases, PhaseGenerationFails, PhaseImplemented,
           PhaseImplementationFails, Reviewed
  <2>2. QED
    BY <2>1
<1>5. CASE GenerateAll \/ ResumeGeneration
  BY <1>5 DEF GenerateAll, ResumeGeneration, Launch
<1>6. CASE StopGeneration
  BY <1>6 DEF StopGeneration
<1>7. CASE Restart
  BY <1>7 DEF Restart
<1>8. ASSUME NEW r \in Requests,
             \/ UserSuggestion(r) \/ TurnStep(r)
             \/ QueueUserRequest(r) \/ StartDeepDebug(r)
      PROVE  StopReachesInference'
  <2>1. \/ UNCHANGED <<gen, signal, controller>>
        \/ UNCHANGED <<gen, signal>> /\ controller' = TRUE
        \/ gen' = "starting"
    BY <1>8 DEF UserSuggestion, TurnStep, UsageDenied, UsageAllowed,
                EndDeepDebug, TurnEnds, TurnFails, Launch, QueueUserRequest,
                StartDeepDebug
  <2>2. QED
    BY <2>1
<1>9. CASE UNCHANGED vars
  BY <1>9 DEF vars
<1>10. QED
  BY <1>1, <1>2, <1>3, <1>4, <1>5, <1>6, <1>7, <1>8, <1>9 DEF Next, GenStep

\* No interleaving of chat turns, stops and evictions leaves a running planning
\* or implementing inference that STOP_GENERATION cannot abort.
THEOREM StopReachesInferenceCorrect == Spec => []StopReachesInference
<1>1. Init => StopReachesInference
  BY DEF Init, StopReachesInference, Inferring
<1>2. StopReachesInference /\ [Next]_vars => StopReachesInference'
  BY StopStep
<1>3. QED
  BY <1>1, <1>2, PTL DEF Spec

-----------------------------------------------------------------------------
\* Where the queued requests go

\* No request is in the plans of two phases.
PlansDisjoint ==
    \A i, j \in DOMAIN generatedPhases :
        i # j => generatedPhases[i].requests \cap generatedPhases[j].requests = {}

\* The inductive invariant: outside the planning inference nothing is in the
\* planner's hands.
RequestInv == HandledOnce /\ (userContext # {} => gen = "pgInfer")

\* What a step may do with the requests.
KeepsRequests ==
    /\ UNCHANGED <<generatedPhases, pendingUserInputs, userContext, asked>>
    /\ UNCHANGED gen \/ gen # "pgInfer"

DropsContext ==
    /\ UNCHANGED <<generatedPhases, pendingUserInputs, asked>>
    /\ userContext' = {}
    /\ gen # "pgInfer" \/ gen' # "piIssues"

CompletesPhase ==
    /\ gen = "piDeploy"
    /\ \E name : generatedPhases' = MarkPhaseComplete(name)
    /\ UNCHANGED <<pendingUserInputs, userContext, asked>>

OpensPhase ==
    /\ \E name \in PhaseNames, last \in BOOLEAN :
          CreateNewIncompletePhase(name, last, userContext)
    /\ userContext' = {}
    /\ UNCHANGED <<pendingUserInputs, asked>>

\* A phase appended to the plan carries the requests it was planned for.
LEMMA PlannedOnOpening ==
    ASSUME TypeOK, RequestInv, OpensPhase
    PROVE  Planned' = Planned \cup userContext /\ PlansDisjoint'
<1> DEFINE n == Len(generatedPhases)
<1>1. /\ n \in Nat
      /\ DOMAIN generatedPhases = 1..n /\ DOMAIN generatedPhases' = 1..(n + 1)
      /\ \A i \in 1..n : generatedPhases'[i] = generatedPhases[i]
      /\ generatedPhases'[n + 1].requests = userContext
  BY AppendedPhase DEF OpensPhase, TypeOK
<1>2. \A i \in 1..n : generatedPhases[i].requests \subseteq Planned
  BY <1>1 DEF Planned
<1>3. 1..(n + 1) = 1..n \cup {n + 1}
  BY <1>1
<1> HIDE DEF n
<1>4. Planned' = Planned \cup userContext
  <2>1. Planned' = UNION {generatedPhases'[i].requests : i \in 1..n \cup {n + 1}}
    BY <1>1, <1>3 DEF Planned
  <2>2. Planned = UNION {generatedPhases[i].requests : i \in 1..n}
    BY <1>1 DEF Planned
  <2>3. QED
    BY <1>1, <2>1, <2>2
<1>5. PlansDisjoint'
  <2>1. PlansDisjoint /\ userContext \cap Planned = {}
    BY DEF RequestInv, HandledOnce, PlansDisjoint
  <2>2. SUFFICES ASSUME NEW i \in 1..(n + 1), NEW j \in 1..(n + 1), i # j
                 PROVE  generatedPhases'[i].requests
                           \cap generatedPhases'[j].requests = {}
    BY <1>1 DEF PlansDisjoint
  <2>3. CASE i \in 1..n /\ j \in 1..n
    BY <1>1, <2>1, <2>2, <2>3 DEF PlansDisjoint
  <2>4. CASE i = n + 1 /\ j \in 1..n
    BY <1>1, <1>2, <2>1, <2>4
  <2>5. CASE i \in 1..n /\ j = n + 1
    BY <1>1, <1>2, <2>1, <2>5
  <2>6. QED
    BY <1>3, <2>2, <2>3, <2>4, <2>5
<1>6. QED
  BY <1>4, <1>5

\* Completing a phase moves no request.
LEMMA PlannedOnCompletion ==
    ASSUME TypeOK, RequestInv, CompletesPhase
    PROVE  Planned' = Planned /\ PlansDisjoint'
<1>1. /\ DOMAIN generatedPhases' = DOMAIN generatedPhases
      /\ \A i \in DOMAIN generatedPhases :
            generatedPhases'[i].requests = generatedPhases[i].requests
  BY MarkedPhases DEF CompletesPhase, TypeOK
<1>2. Planned' = Planned
  BY <1>1 DEF Planned
<1>3. PlansDisjoint'
  BY <1>1 DEF PlansDisjoint, RequestInv, HandledOnce
<1>4. QED
  BY <1>2, <1>3

\* Every step is one of six kinds.
LEMMA RequestSteps ==
    ASSUME TypeOK, RequestInv, [Next]_vars
    PROVE  \/ KeepsRequests \/ DropsContext \/ CompletesPhase
           \/ OpensPhase
           \/ AskForPhase
           \/ \E r \in Requests : QueueUserRequest(r)
<1> USE DEF plan, flags, persisted, running, history
<1>1. CASE StartStateMachine
  <2>1. gen = "starting" /\ userContext = {}
    BY <1>1 DEF StartStateMachine, RequestInv
  <2>2. CASE UNCHANGED generatedPhases
    BY <1>1, <2>1, <2>2 DEF StartStateMachine, KeepsRequests
  <2>3. CASE \E last \in BOOLEAN :
                CreateNewIncompletePhase(InitialPhase, last, {})
    BY <1>1, <2>1, <2>3, PhasicAssumption DEF StartStateMachine, OpensPhase
  <2>4. QED
    BY <1>1, <2>2, <2>3 DEF StartStateMachine
<1>2. CASE TemplateUnavailable \/ StartImplementing \/ FilesGenerated
           \/ Reviewed \/ GenerationComplete
  BY <1>2 DEF TemplateUnavailable, StartImplementing, FilesGenerated, Reviewed,
              GenerationComplete, KeepsRequests
<1>3. CASE AskForPhase
  BY <1>3
<1>4. CASE PhasePlanned
  BY <1>4 DEF PhasePlanned, OpensPhase
<1>5. CASE NoMorePhases \/ PhaseGenerationFails
  BY <1>5, TransitionTargets
     DEF NoMorePhases, PhaseGenerationFails, DropsContext
<1>6. CASE PhaseImplemented
  BY <1>6 DEF PhaseImplemented, CompletesPhase
<1>7. CASE PhaseImplementationFails
  BY <1>7 DEF PhaseImplementationFails, KeepsRequests
<1>8. CASE GenerateAll \/ ResumeGeneration
  BY <1>8 DEF GenerateAll, ResumeGeneration, Launch, Generating, place,
              KeepsRequests
<1>9. CASE StopGeneration
  BY <1>9 DEF StopGeneration, KeepsRequests
<1>10. CASE Restart
  BY <1>10 DEF Restart, DropsContext
<1>11. ASSUME NEW r \in Requests,
              \/ UserSuggestion(r) \/ TurnStep(r)
              \/ QueueUserRequest(r) \/ StartDeepDebug(r)
       PROVE  KeepsRequests \/ QueueUserRequest(r)
  BY <1>11 DEF UserSuggestion, TurnStep, UsageDenied, UsageAllowed,
               EndDeepDebug, TurnEnds, TurnFails, Launch, Generating,
               StartDeepDebug, KeepsRequests
<1>12. CASE UNCHANGED vars
  BY <1>12 DEF vars, KeepsRequests
<1>13. QED
  BY <1>1, <1>2, <1>3, <1>4, <1>5, <1>6, <1>7, <1>8, <1>9, <1>10, <1>11,
     <1>12 DEF Next, GenStep

\* The step that LostOnlyWhilePlanning allows.
MayLose ==
    ~(Held \subseteq Held') =>
        /\ gen = "pgInfer" /\ gen' # "piIssues"
        /\ Held \ Held' = userContext

\* Every step keeps RequestInv and loses no request but from the planner.
LEMMA RequestStep ==
    ASSUME TypeOK, RequestInv, [Next]_vars PROVE RequestInv' /\ MayLose
<1> USE DEF RequestInv, HandledOnce, MayLose, Held
<1>1. CASE KeepsRequests
  <2>1. Planned' = Planned
    BY <1>1 DEF KeepsRequests, Planned
  <2>2. QED
    BY <1>1, <2>1 DEF KeepsRequests
<1>2. CASE DropsContext
  <2>1. Planned' = Planned
    BY <1>2 DEF DropsContext, Planned
  <2>2. Held' = pendingUserInputs \cup Planned
    BY <1>2, <2>1 DEF DropsContext
  <2>3. QED
    BY <1>2, <2>1, <2>2 DEF DropsContext
<1>3. CASE CompletesPhase
  BY <1>3, PlannedOnCompletion DEF CompletesPhase, PlansDisjoint
<1>4. CASE OpensPhase
  BY <1>4, PlannedOnOpening DEF OpensPhase, PlansDisjoint
<1>5. CASE AskForPhase
  <2>1. Planned' = Planned
    BY <1>5 DEF AskForPhase, Planned
  <2>2. userContext = {}
    BY <1>5 DEF AskForPhase
  <2>3. QED
    BY <1>5, <2>1, <2>2 DEF AskForPhase, FetchPendingUserRequests, history
<1>6. ASSUME NEW r \in Requests, QueueUserRequest(r)
      PROVE  RequestInv' /\ MayLose
  <2>1. Planned' = Planned
    BY <1>6 DEF QueueUserRequest, Planned
  <2>2. QED
    BY <1>6, <2>1 DEF QueueUserRequest, QueuePendingInput, running
<1>7. QED
  BY <1>1, <1>2, <1>3, <1>4, <1>5, <1>6, RequestSteps

\* A queued request is in one place and one phase, for ever.
THEOREM HandledOnceCorrect == Spec => []HandledOnce
<1>1. Init => RequestInv
  BY DEF Init, RequestInv, HandledOnce, Held, Planned
<1>2. TypeOK /\ RequestInv /\ [Next]_vars => RequestInv'
  BY RequestStep
<1>3. RequestInv => HandledOnce
  BY DEF RequestInv
<1>4. QED
  BY <1>1, <1>2, <1>3, TypeCorrect, PTL DEF Spec

\* A queued request is lost only with the planning inference that holds it.
THEOREM LostOnlyWhilePlanningCorrect == Spec => LostOnlyWhilePlanning
<1>1. Init => RequestInv
  BY DEF Init, RequestInv, HandledOnce, Held, Planned
<1>2. TypeOK /\ RequestInv /\ [Next]_vars => RequestInv' /\ MayLose
  BY RequestStep
<1>3. QED
  BY <1>1, <1>2, TypeCorrect, PTL DEF Spec, LostOnlyWhilePlanning, MayLose

-----------------------------------------------------------------------------
\* The steps of RequestQueue

\* The steps of the abstract specification in the terms of the mapping.
Built == DOMAIN generatedPhases \ Open
PlanSame == UNCHANGED <<Open # {}, RequestsOf(Open), RequestsOf(Built)>>
AbstractTake ==
    /\ Open = {} /\ userContext = {}
    /\ userContext' = pendingUserInputs /\ pendingUserInputs' = {}
    /\ PlanSame /\ UNCHANGED (asked \ Held)
AbstractPlan ==
    /\ Open = {} /\ Open' # {}
    /\ RequestsOf(Open)' = userContext /\ userContext' = {}
    /\ UNCHANGED <<pendingUserInputs, RequestsOf(Built), asked \ Held>>
AbstractBuild ==
    /\ Open # {} /\ Open' = {}
    /\ RequestsOf(Built)' = RequestsOf(Built) \cup RequestsOf(Open)
    /\ RequestsOf(Open)' = {}
    /\ UNCHANGED <<pendingUserInputs, userContext, asked \ Held>>
AbstractLose ==
    /\ userContext # {} /\ userContext' = {}
    /\ (asked \ Held)' = (asked \ Held) \cup userContext
    /\ PlanSame /\ UNCHANGED pendingUserInputs
AbstractAsk(r) ==
    /\ r \notin asked
    /\ pendingUserInputs' = pendingUserInputs \cup {r}
    /\ PlanSame /\ UNCHANGED <<userContext, asked \ Held>>
AbstractStutter ==
    PlanSame /\ UNCHANGED <<pendingUserInputs, userContext, asked \ Held>>

\* The plan is in two parts.
LEMMA PlannedParts == Planned = RequestsOf(Open) \cup RequestsOf(Built)
<1>1. DOMAIN generatedPhases = Open \cup Built
  BY DEF Open, Built
<1>2. Planned = RequestsOf(Open \cup Built)
  BY <1>1 DEF Planned, RequestsOf
<1>3. QED
  BY <1>2 DEF RequestsOf

\* Phases that stay as they are keep their requests.
LEMMA PhasesSame ==
    ASSUME UNCHANGED generatedPhases
    PROVE  PlanSame /\ Planned' = Planned
<1>1. Open' = Open /\ Built' = Built
  BY DEF Open, Built
<1>2. \A S : RequestsOf(S)' = RequestsOf(S)
  BY DEF RequestsOf
<1>3. UNCHANGED <<RequestsOf(Open), RequestsOf(Built)>>
  BY <1>1 DEF RequestsOf
<1>4. Planned' = Planned
  BY DEF Planned
<1>5. QED
  BY <1>1, <1>3, <1>4 DEF PlanSame

\* Completing by name completes the open phase or changes nothing that counts.
LEMMA CompletesBuilds ==
    ASSUME TypeOK, OnePhaseAtATime, RequestInv, CompletesPhase
    PROVE  AbstractBuild \/ AbstractStutter
<1>1. /\ DOMAIN generatedPhases' = DOMAIN generatedPhases
      /\ \A i \in DOMAIN generatedPhases :
            /\ generatedPhases'[i].requests = generatedPhases[i].requests
            /\ generatedPhases[i].completed => generatedPhases'[i].completed
  BY MarkedPhases DEF CompletesPhase, TypeOK
<1>2. Open' \subseteq Open /\ Open \subseteq DOMAIN generatedPhases
  BY <1>1 DEF Open
<1>3. UNCHANGED <<pendingUserInputs, userContext, asked \ Held>>
  BY PlannedOnCompletion DEF CompletesPhase, Held
<1>4. \A S \in SUBSET DOMAIN generatedPhases :
         UNION {generatedPhases'[i].requests : i \in S} = RequestsOf(S)
  BY <1>1 DEF RequestsOf
<1>5. /\ RequestsOf(Open)' = RequestsOf(Open')
      /\ RequestsOf(Built)' = RequestsOf(DOMAIN generatedPhases \ Open')
  <2>1. Built' = DOMAIN generatedPhases \ Open'
    BY <1>1 DEF Built
  <2>2. Open' \in SUBSET DOMAIN generatedPhases
    BY <1>2
  <2>3. RequestsOf(Open)' = UNION {generatedPhases'[i].requests : i \in Open'}
    BY DEF RequestsOf
  <2>4. RequestsOf(Built)' = UNION {generatedPhases'[i].requests : i \in Built'}
    BY DEF RequestsOf
  <2>5. QED
    BY <1>4, <2>1, <2>2, <2>3, <2>4
<1>6. CASE Open' = Open
  BY <1>3, <1>5, <1>6 DEF AbstractStutter, PlanSame, Built
<1>7. CASE Open' # Open
  <2>1. Open # {} /\ Open' = {}
    BY <1>2, <1>7 DEF OnePhaseAtATime, OneOpenPhase
  <2>2. Planned = RequestsOf(Open) \cup RequestsOf(Built)
    BY PlannedParts
  <2>3. RequestsOf(Built)' = Planned /\ RequestsOf(Open)' = {}
    BY <1>5, <2>1 DEF RequestsOf, Planned
  <2>4. QED
    BY <1>3, <2>1, <2>2, <2>3 DEF AbstractBuild
<1>8. QED
  BY <1>6, <1>7

\* A phase is opened when none is: of the phases after the step the last only
\* is open.
LEMMA OpensPlans ==
    ASSUME TypeOK, OnePhaseAtATime', RequestInv, OpensPhase
    PROVE  AbstractPlan
<1> DEFINE n == Len(generatedPhases)
<1>1. /\ n \in Nat
      /\ Len(generatedPhases') = n + 1
      /\ DOMAIN generatedPhases = 1..n /\ DOMAIN generatedPhases' = 1..(n + 1)
      /\ \A i \in 1..n : generatedPhases'[i] = generatedPhases[i]
      /\ generatedPhases'[n + 1].requests = userContext
      /\ ~generatedPhases'[n + 1].completed
  BY AppendedPhase DEF OpensPhase, TypeOK
<1> HIDE DEF n
<1>2. Open \subseteq Open' /\ n + 1 \in Open'
  BY <1>1 DEF Open
<1>3. \A i \in Open' : i = n + 1
  BY <1>1 DEF OnePhaseAtATime, OneOpenPhase
<1>4. Open = {} /\ Open' = {n + 1}
  <2>1. \A i \in Open : i \in 1..n
    BY <1>1 DEF Open
  <2>2. QED
    BY <1>1, <1>2, <1>3, <2>1
<1>5. Built = 1..n /\ Built' = 1..n
  BY <1>1, <1>4 DEF Built
<1>6. RequestsOf(Open)' = userContext
  BY <1>1, <1>4 DEF RequestsOf
<1>7. RequestsOf(Built)' = RequestsOf(Built)
  BY <1>1, <1>5 DEF RequestsOf
<1>8. UNCHANGED (asked \ Held)
  BY PlannedOnOpening DEF OpensPhase, Held
<1>9. QED
  BY <1>2, <1>4, <1>6, <1>7, <1>8 DEF AbstractPlan, OpensPhase

\* Every step of the agent is one of the queue, or none.
LEMMA QueueStep ==
    ASSUME TypeOK, OnePhaseAtATime, OnePhaseAtATime', RequestInv, [Next]_vars
    PROVE  \/ AbstractTake \/ AbstractPlan \/ AbstractBuild \/ AbstractLose
           \/ \E r \in Requests : AbstractAsk(r)
           \/ AbstractStutter
<1>1. CASE KeepsRequests
  BY <1>1, PhasesSame DEF KeepsRequests, AbstractStutter, Held
<1>2. CASE DropsContext
  <2>1. /\ PlanSame /\ Planned' = Planned
        /\ UNCHANGED <<pendingUserInputs, asked>> /\ userContext' = {}
    BY <1>2, PhasesSame DEF DropsContext
  <2>2. Held' = pendingUserInputs \cup Planned
    BY <2>1 DEF Held
  <2>3. CASE userContext = {}
    BY <2>1, <2>2, <2>3 DEF AbstractStutter, Held
  <2>4. CASE userContext # {}
    <3>1. (asked \ Held)' = (asked \ Held) \cup userContext
      BY <2>1, <2>2 DEF RequestInv, HandledOnce, Held
    <3>2. QED
      BY <2>1, <2>4, <3>1 DEF AbstractLose
  <2>5. QED
    BY <2>3, <2>4
<1>3. CASE CompletesPhase
  BY <1>3, CompletesBuilds
<1>4. CASE OpensPhase
  BY <1>4, OpensPlans
<1>5. CASE AskForPhase
  <2>1. /\ Open = {} /\ userContext = {}
        /\ userContext' = pendingUserInputs /\ pendingUserInputs' = {}
        /\ UNCHANGED <<generatedPhases, asked>>
    BY <1>5 DEF AskForPhase, OnePhaseAtATime, WorksOnOpenPhase, RequestInv,
                FetchPendingUserRequests, history
  <2>2. PlanSame /\ Planned' = Planned
    BY <2>1, PhasesSame
  <2>3. Held' = Held
    BY <2>1, <2>2 DEF Held
  <2>4. QED
    BY <2>1, <2>2, <2>3 DEF AbstractTake
<1>6. ASSUME NEW r \in Requests, QueueUserRequest(r) PROVE AbstractAsk(r)
  <2>1. /\ r \notin asked /\ asked' = asked \cup {r}
        /\ pendingUserInputs' = pendingUserInputs \cup {r}
        /\ UNCHANGED <<generatedPhases, userContext>>
    BY <1>6 DEF QueueUserRequest, QueuePendingInput, running
  <2>2. PlanSame /\ Planned' = Planned
    BY <2>1, PhasesSame
  <2>3. Held' = Held \cup {r}
    BY <2>1, <2>2 DEF Held
  <2>4. Held \subseteq asked
    BY DEF RequestInv, HandledOnce
  <2>5. UNCHANGED (asked \ Held)
    BY <2>1, <2>3, <2>4
  <2>6. QED
    BY <2>1, <2>2, <2>5 DEF AbstractAsk
<1>7. QED
  BY <1>1, <1>2, <1>3, <1>4, <1>5, <1>6, RequestSteps

\* The steps named here are those of RequestQueue.
LEMMA QueueNext ==
    ASSUME TypeOK, OnePhaseAtATime, OnePhaseAtATime', RequestInv, [Next]_vars
    PROVE  [Queue!Next]_Queue!vars
<1> USE DEF Built, PlanSame
<1>1. CASE AbstractTake
  <2>1. Queue!Take
    BY <1>1 DEF AbstractTake, Queue!Take
  <2>2. QED
    BY <2>1 DEF Queue!Next
<1>2. CASE AbstractPlan
  <2>1. Queue!Plan
    BY <1>2 DEF AbstractPlan, Queue!Plan
  <2>2. QED
    BY <2>1 DEF Queue!Next
<1>3. CASE AbstractBuild
  <2>1. Queue!Build
    BY <1>3 DEF AbstractBuild, Queue!Build
  <2>2. QED
    BY <2>1 DEF Queue!Next
<1>4. CASE AbstractLose
  <2>1. Queue!Lose
    BY <1>4 DEF AbstractLose, Queue!Lose
  <2>2. QED
    BY <2>1 DEF Queue!Next
<1>5. ASSUME NEW r \in Requests, AbstractAsk(r) PROVE Queue!Next
  <2>1. Queue!Queued \subseteq asked
    <3>1. pendingUserInputs \cup userContext \cup Planned \subseteq asked
      BY DEF RequestInv, HandledOnce, Held
    <3>2. QED
      BY <3>1, PlannedParts DEF Queue!Queued
  <2>2. Queue!Ask(r)
    BY <1>5, <2>1 DEF AbstractAsk, Queue!Ask
  <2>3. QED
    BY <2>2 DEF Queue!Next
<1>6. CASE AbstractStutter
  BY <1>6 DEF AbstractStutter, Queue!vars
<1>7. QED
  BY <1>1, <1>2, <1>3, <1>4, <1>5, <1>6, QueueStep

\* The agent implements RequestQueue: whatever fails, stops or restarts it, its
\* requests are taken, planned, built and lost in whole batches, one phase at a
\* time.
THEOREM ImplementsCorrect == Spec => Implements
<1>1. Init => Queue!Init
  <2>1. SUFFICES ASSUME Init PROVE Queue!Init
    OBVIOUS
  <2>2. Open = {} /\ DOMAIN generatedPhases = {}
    BY <2>1, EmptySeq DEF Init, Open
  <2>3. RequestsOf(Open) = {} /\ RequestsOf(DOMAIN generatedPhases \ Open) = {}
    BY <2>2 DEF RequestsOf
  <2>4. QED
    BY <2>1, <2>2, <2>3 DEF Init, Queue!Init
<1>2. Init => RequestInv
  BY DEF Init, RequestInv, HandledOnce, Held, Planned
<1>3. TypeOK /\ RequestInv /\ [Next]_vars => RequestInv'
  BY RequestStep
<1>4. /\ TypeOK /\ OnePhaseAtATime /\ OnePhaseAtATime' /\ RequestInv
      /\ [Next]_vars
      => [Queue!Next]_Queue!vars
  BY QueueNext
<1>5. QED
  BY <1>1, <1>2, <1>3, <1>4, TypeCorrect, OnePhaseAtATimeCorrect, PTL
     DEF Spec, Implements, Queue!Spec

-----------------------------------------------------------------------------
\* The phase budget

\* A phase that will be appended to the plan before phasesCounter moves: the
\* first one, and the one the planner is asked for.
Foreseen == generatedPhases = << >> \/ gen = "pgInfer"

\* A phase is made or under way, and phasesCounter has not paid for it yet.
InHand == Foreseen \/ Open # {}

\* What phasesCounter still pays for.
Payable == IF InHand THEN phasesCounter - 1 ELSE phasesCounter

\* The finalizing phase is to come: the agent builds, or will be launched to
\* build, more than its first version.
Finale ==
    \/ pendingUserInputs # {}
    \/ /\ mvpGenerated /\ ~finalizing
       /\ gen \in {"pgIssues", "pgInfer"} \cup Implementing

\* One phase may be planned though phasesCounter does not pay for it.
Late ==
    /\ Payable <= 0
    /\ \/ pendingUserInputs # {}
       \/ gen = "pgIssues"
       \/ ~mvpGenerated /\ ~InHand

\* The phases there are, and the most that can come of the requests so far.
nForeseen == IF Foreseen THEN 1 ELSE 0
nPaid     == IF Payable > 0 THEN Payable ELSE 0
nFinale   == IF Finale THEN 1 ELSE 0
nLate     == IF Late THEN 1 ELSE 0
Account   == Len(generatedPhases) + nForeseen + nPaid + nFinale + nLate

Cost   == QueueRecharge + 1
Budget == MAX_PHASES + Cardinality(asked) * Cost

\* After the first version the agent is launched only for a request, and only
\* after it does it finalize a second time.
LaunchInv ==
    /\ finalizing => mvpGenerated
    /\ gen = "starting" /\ mvpGenerated => pendingUserInputs # {}

\* The inductive invariant: every phase that can still come is in the budget.
BudgetInv == IsFiniteSet(asked) /\ LaunchInv /\ Account <= Budget

\* The types the account is made of.
LEMMA AccountTypes ==
    ASSUME TypeOK PROVE Len(generatedPhases) \in Nat /\ phasesCounter \in Int
BY LenProperties DEF TypeOK

LEMMA CountTypes ==
    /\ nForeseen \in Nat /\ nForeseen' \in Nat
    /\ nFinale \in Nat /\ nFinale' \in Nat /\ nFinale' <= 1
    /\ nLate \in Nat /\ nLate' \in Nat /\ nLate' <= 1
<1>1. nForeseen \in Nat /\ nForeseen' \in Nat
  BY DEF nForeseen
<1>2. nFinale \in Nat /\ nFinale' \in Nat /\ nFinale' <= 1
  BY DEF nFinale
<1>3. nLate \in Nat /\ nLate' \in Nat /\ nLate' <= 1
  BY DEF nLate
<1>4. QED
  BY <1>1, <1>2, <1>3

\* Two accounts of one plan compared: what comes before the review, and what
\* phasesCounter does not pay for, may be exchanged for one another.
LEMMA AccountCompared ==
    ASSUME Len(generatedPhases') = Len(generatedPhases),
           Len(generatedPhases) \in Nat, nPaid \in Nat, nPaid' \in Nat,
           \/ /\ nForeseen' + nPaid' + nLate' <= nForeseen + nPaid + nLate
              /\ nFinale' <= nFinale
           \/ /\ nForeseen' = nForeseen /\ nPaid' = nPaid
              /\ nFinale' + nLate' <= nFinale + nLate
    PROVE  Account' <= Account
<1> DEFINE n == Len(generatedPhases)
           a == nForeseen  b == nPaid   c == nFinale   d == nLate
           e == nForeseen' f == nPaid'  g == nFinale'  h == nLate'
<1>1. /\ a \in Nat /\ b \in Nat /\ c \in Nat /\ d \in Nat /\ n \in Nat
      /\ e \in Nat /\ f \in Nat /\ g \in Nat /\ h \in Nat
  BY CountTypes
<1>2. \/ e + f + h <= a + b + d /\ g <= c
      \/ e = a /\ f = b /\ g + h <= c + d
  OBVIOUS
<1>3. Account' = n + e + f + g + h /\ Account = n + a + b + c + d
  BY DEF Account
<1> HIDE DEF n, a, b, c, d, e, f, g, h
<1>4. QED
  BY <1>1, <1>2, <1>3

\* A step that leaves the plan alone, and lets neither a final nor a late
\* phase come that was not to come before.
LEMMA AccountKept ==
    ASSUME TypeOK, UNCHANGED plan,
           gen' = "pgInfer" <=> gen = "pgInfer",
           Finale' => Finale,
           gen' = "pgIssues" => gen = "pgIssues" \/ (~mvpGenerated /\ ~InHand)
                                \/ pendingUserInputs # {},
           mvpGenerated => mvpGenerated'
    PROVE  Account' <= Account
<1>1. /\ Foreseen' <=> Foreseen
      /\ InHand' <=> InHand
  BY DEF Foreseen, InHand, Open, plan
<1>2. Payable' = Payable
  BY <1>1 DEF Payable, plan
<1>3. Late' => Late
  BY <1>1, <1>2 DEF Late, plan
<1>4. /\ Len(generatedPhases') = Len(generatedPhases) /\ Payable \in Int
      /\ Len(generatedPhases) \in Nat
  BY AccountTypes DEF Payable, plan
<1>5. nForeseen' = nForeseen /\ nFinale' <= nFinale /\ nLate' <= nLate
  BY <1>1, <1>3 DEF nForeseen, nFinale, nLate
<1>6. nPaid \in Nat /\ nPaid' = nPaid
  BY <1>2, <1>4 DEF nPaid
<1>7. QED
  BY <1>4, <1>5, <1>6, CountTypes DEF Account

\* The planner comes to nothing: its phase will not be appended, and what
\* phasesCounter was to pay for it pays for another.
LEMMA AccountPlannerLeft ==
    ASSUME TypeOK, UNCHANGED plan,
           gen = "pgInfer", gen' # "pgInfer",
           Finale' => Finale,
           gen' = "pgIssues" => Finale /\ (Finale' => pendingUserInputs # {})
    PROVE  Account' <= Account
<1>1. Foreseen /\ InHand
  BY DEF Foreseen, InHand
<1>2. Foreseen' => generatedPhases = << >> /\ InHand'
  BY DEF Foreseen, InHand, plan
<1>3. /\ Payable = phasesCounter - 1
      /\ Payable' = IF InHand' THEN phasesCounter - 1 ELSE phasesCounter
  BY <1>1 DEF Payable, plan
<1>4. Late <=> Payable <= 0 /\ pendingUserInputs # {}
  BY <1>1 DEF Late
<1>5. Foreseen' /\ Late' => Late \/ (Finale /\ ~Finale')
  BY <1>2, <1>3, <1>4 DEF Late, plan
<1>6. Late' => Payable' <= 0
  BY DEF Late
<1>7. /\ Len(generatedPhases') = Len(generatedPhases)
      /\ Len(generatedPhases) \in Nat /\ phasesCounter \in Int
  BY AccountTypes DEF plan
<1>8. nPaid \in Nat /\ nPaid' \in Nat
  BY <1>3, <1>7 DEF nPaid
<1>9. nForeseen = 1 /\ nFinale' <= nFinale
  BY <1>1 DEF nForeseen, nFinale
<1>10. nPaid' + nLate' <= nPaid + 1
  <2>1. CASE Late'
    BY <1>3, <1>6, <1>7, <1>8, <2>1 DEF nPaid, nLate
  <2>2. CASE ~Late'
    BY <1>3, <1>7, <2>2 DEF nPaid, nLate
  <2>3. QED
    BY <2>1, <2>2
<1>11. CASE ~Foreseen'
  <2>1. nForeseen' = 0
    BY <1>11 DEF nForeseen
  <2>2. QED
    <3>1. nForeseen' + nPaid' + nLate' <= nForeseen + nPaid + nLate
      <4> DEFINE a == nPaid'  b == nPaid  c == nLate'  d == nLate
      <4>1. /\ a \in Nat /\ b \in Nat /\ c \in Nat /\ d \in Nat
            /\ a + c <= b + 1
        BY <1>8, <1>10, CountTypes
      <4> HIDE DEF a, b, c, d
      <4>2. 0 + a + c <= 1 + b + d
        BY <4>1
      <4>3. QED
        BY <1>9, <2>1, <4>2 DEF a, b, c, d
    <3>2. QED
      BY <1>7, <1>8, <1>9, <3>1, AccountCompared
<1>12. CASE Foreseen'
  <2>1. nPaid' = nPaid /\ nForeseen' = 1
    BY <1>2, <1>3, <1>7, <1>12 DEF nPaid, nForeseen
  <2>2. nFinale' + nLate' <= nFinale + nLate
    BY <1>5, <1>12 DEF nFinale, nLate
  <2>3. QED
    BY <1>7, <1>8, <1>9, <2>1, <2>2, AccountCompared
<1>13. QED
  BY <1>11, <1>12

\* The planner is asked: the phase it will name is foreseen.
LEMMA AccountAsked ==
    ASSUME TypeOK, OnePhaseAtATime, AskForPhase PROVE Account' <= Account
<1>1. /\ gen = "pgIssues" /\ gen' = "pgInfer" /\ pendingUserInputs' = {}
      /\ UNCHANGED <<generatedPhases, phasesCounter, mvpGenerated, finalizing>>
  BY DEF AskForPhase, FetchPendingUserRequests, flags, place
<1>2. Open = {}
  BY <1>1 DEF OnePhaseAtATime, WorksOnOpenPhase
<1>3. Foreseen' /\ InHand' /\ (InHand <=> Foreseen)
  BY <1>1, <1>2 DEF Foreseen, InHand
<1>4. Finale' => Finale
  BY <1>1 DEF Finale
<1>5. /\ Payable = IF Foreseen THEN phasesCounter - 1 ELSE phasesCounter
      /\ Payable' = phasesCounter - 1
  BY <1>1, <1>3 DEF Payable
<1>6. (Late <=> Payable <= 0) /\ ~Late'
  BY <1>1, <1>3 DEF Late
<1>7. /\ Len(generatedPhases') = Len(generatedPhases)
      /\ Len(generatedPhases) \in Nat /\ phasesCounter \in Int
  BY <1>1, AccountTypes
<1>8. nForeseen' = 1 /\ nLate' = 0 /\ nFinale' <= nFinale
  BY <1>3, <1>4, <1>6 DEF nForeseen, nLate, nFinale
<1>9. /\ nPaid \in Nat /\ nPaid' \in Nat
      /\ nPaid' + 1 <= nForeseen + nPaid + nLate
  <2>1. CASE Foreseen
    BY <1>5, <1>7, <2>1, CountTypes DEF nForeseen, nPaid
  <2>2. CASE ~Foreseen /\ Payable <= 0
    BY <1>5, <1>6, <1>7, <2>2 DEF nForeseen, nPaid, nLate
  <2>3. CASE ~Foreseen /\ Payable > 0
    BY <1>5, <1>6, <1>7, <2>3 DEF nForeseen, nPaid, nLate
  <2>4. QED
    BY <1>5, <1>7, <2>1, <2>2, <2>3
<1>10. QED
  <2>1. nForeseen' + nPaid' + nLate' <= nForeseen + nPaid + nLate
    <3> DEFINE a == nPaid'  b == nForeseen  c == nPaid  d == nLate
    <3>1. /\ a \in Nat /\ b \in Nat /\ c \in Nat /\ d \in Nat
          /\ a + 1 <= b + c + d
      BY <1>9, CountTypes
    <3> HIDE DEF a, b, c, d
    <3>2. 1 + a + 0 <= b + c + d
      BY <3>1
    <3>3. QED
      BY <1>8, <3>2 DEF a, b, c, d
  <2>2. QED
    BY <1>7, <1>8, <1>9, <2>1, AccountCompared

\* A foreseen phase is appended: it is the open one now.
LEMMA AccountOpened ==
    ASSUME TypeOK, Foreseen, Finale' => Finale,
           NEW name \in PhaseNames, NEW last \in BOOLEAN,
           NEW requests \in SUBSET Requests,
           CreateNewIncompletePhase(name, last, requests),
           gen' = "piIssues",
           UNCHANGED <<phasesCounter, pendingUserInputs>>
    PROVE  Account' <= Account
<1> DEFINE n == Len(generatedPhases)
<1>1. /\ n \in Nat /\ phasesCounter \in Int
      /\ Len(generatedPhases') = n + 1
      /\ DOMAIN generatedPhases' = 1..(n + 1)
      /\ ~generatedPhases'[n + 1].completed
  BY AppendedPhase, AccountTypes DEF TypeOK
<1>2. n + 1 \in Open'
  BY <1>1 DEF Open
<1>3. ~Foreseen'
  BY <1>1, EmptySeq DEF Foreseen
<1>4. InHand /\ InHand'
  BY <1>2 DEF InHand
<1>5. Payable' = phasesCounter - 1 /\ Payable = phasesCounter - 1
  BY <1>4 DEF Payable
<1>6. Late' => Late
  BY <1>4, <1>5 DEF Late
<1>7. /\ nForeseen = 1 /\ nForeseen' = 0
      /\ nFinale' <= nFinale /\ nLate' <= nLate
  BY <1>3, <1>6 DEF nForeseen, nFinale, nLate
<1>8. nPaid \in Nat /\ nPaid' = nPaid
  BY <1>1, <1>5 DEF nPaid
<1>9. QED
  BY <1>1, <1>7, <1>8, CountTypes DEF Account

\* Where the transitions of the loop leave the flags.
LEMMA TransitionFlags ==
    /\ EnterIdle \/ EnterReviewing \/ EnterAfterFailure => ~finalizing'
    /\ EnterFinalizing =>
          \/ /\ ~mvpGenerated /\ mvpGenerated' /\ ~finalizing'
             /\ gen' \in {"closing", "rvIssues"}
          \/ /\ mvpGenerated /\ mvpGenerated' /\ finalizing'
             /\ gen' = "pgIssues"
<1>1. EnterIdle => ~finalizing'
  BY DEF EnterIdle
<1>2. EnterReviewing => ~finalizing'
  BY <1>1 DEF EnterReviewing
<1>3. EnterAfterFailure => ~finalizing'
  BY <1>1, <1>2 DEF EnterAfterFailure
<1>4. ASSUME EnterFinalizing
      PROVE  \/ /\ ~mvpGenerated /\ mvpGenerated' /\ ~finalizing'
                /\ gen' \in {"closing", "rvIssues"}
             \/ /\ mvpGenerated /\ mvpGenerated' /\ finalizing'
                /\ gen' = "pgIssues"
  <2>1. CASE ~mvpGenerated
    BY <1>2, <1>4, <2>1, TransitionTargets DEF EnterFinalizing
  <2>2. CASE mvpGenerated
    BY <1>4, <2>2 DEF EnterFinalizing, flags
  <2>3. QED
    BY <2>1, <2>2
<1>5. QED
  BY <1>1, <1>2, <1>3, <1>4

\* A phase is implemented: phasesCounter pays for it, and what follows was to
\* come before.
LEMMA AccountImplemented ==
    ASSUME TypeOK, OnePhaseAtATime, LaunchInv, PhaseImplemented
    PROVE  Account' <= Account
<1>1. /\ gen = "piDeploy" /\ gen' # "pgInfer"
      /\ phasesCounter' = phasesCounter - 1
      /\ pendingUserInputs' = pendingUserInputs
  BY TransitionTargets DEF PhaseImplemented, DecrementPhasesCounter
<1>2. /\ Len(generatedPhases) \in Nat /\ phasesCounter \in Int
      /\ generatedPhases \in Seq(Phase)
  BY AccountTypes DEF TypeOK
<1>3. /\ Len(generatedPhases') = Len(generatedPhases)
      /\ generatedPhases' \in Seq(Phase)
  BY <1>2, MarkedPhases DEF PhaseImplemented
<1>4. Open # {} /\ Len(generatedPhases) > 0
  <2>1. phaseConcept = Len(generatedPhases) /\ phaseConcept \in Open
    BY <1>1 DEF OnePhaseAtATime, WorksOnOpenPhase, Implementing
  <2>2. QED
    BY <1>2, <2>1, LenProperties DEF Open
<1>5. Open' = {}
  BY PhaseClosed
<1>6. ~Foreseen /\ ~Foreseen' /\ InHand /\ ~InHand'
  BY <1>1, <1>3, <1>4, <1>5, EmptySeq DEF Foreseen, InHand
<1>7. Payable = phasesCounter - 1 /\ Payable' = phasesCounter - 1
  BY <1>1, <1>6 DEF Payable
<1>8. \/ (Finale' => Finale) /\ (Late' => Late)
      \/ Finale /\ ~Finale'
  <2>1. CASE finalizing
    <3>1. /\ ~finalizing' /\ gen' \in {"closing", "rvIssues"}
          /\ mvpGenerated'
      BY <2>1, TransitionFlags, TransitionTargets DEF PhaseImplemented, LaunchInv
    <3>2. QED
      BY <1>1, <1>7, <3>1 DEF Finale, Late, Implementing
  <2>2. CASE ~finalizing /\ ShouldFinalize
    <3>1. EnterFinalizing /\ pendingUserInputs = {}
      BY <2>2 DEF PhaseImplemented, ShouldFinalize
    <3>2. CASE /\ ~mvpGenerated /\ mvpGenerated' /\ ~finalizing'
               /\ gen' \in {"closing", "rvIssues"}
      BY <1>1, <3>1, <3>2 DEF Finale, Late, Implementing
    <3>3. CASE /\ mvpGenerated /\ mvpGenerated' /\ finalizing'
               /\ gen' = "pgIssues"
      BY <1>1, <2>2, <3>1, <3>3 DEF Finale, Implementing
    <3>4. QED
      BY <3>1, <3>2, <3>3, TransitionFlags
  <2>3. CASE ~finalizing /\ ~ShouldFinalize
    <3>1. /\ gen' = "pgIssues"
          /\ UNCHANGED <<mvpGenerated, finalizing>>
      BY <2>3 DEF PhaseImplemented, flags
    <3>2. pendingUserInputs = {} => Payable' > 0
      BY <1>1, <1>2, <1>7, <2>3 DEF ShouldFinalize
    <3>3. Finale' => Finale
      BY <1>1, <3>1 DEF Finale, Implementing
    <3>4. Late' => Late
      BY <1>1, <1>2, <1>7, <3>2 DEF Late
    <3>5. QED
      BY <3>3, <3>4
  <2>4. QED
    BY <2>1, <2>2, <2>3
<1>9. nForeseen' = nForeseen /\ nFinale' + nLate' <= nFinale + nLate
  BY <1>6, <1>8 DEF nForeseen, nFinale, nLate
<1>10. nPaid \in Nat /\ nPaid' = nPaid
  BY <1>2, <1>7 DEF nPaid
<1>11. QED
  BY <1>2, <1>3, <1>9, <1>10, AccountCompared

\* A request is queued: the recharge, its own phase and the finalizing one are
\* what it costs.
LEMMA AccountQueued ==
    ASSUME TypeOK, NEW r \in Requests, QueueUserRequest(r)
    PROVE  Account' <= Account + Cost
<1>1. /\ phasesCounter' = IF phasesCounter <= QueueRecharge
                          THEN QueueRecharge ELSE phasesCounter
      /\ UNCHANGED <<generatedPhases, gen, mvpGenerated, finalizing>>
  BY DEF QueueUserRequest, RechargePhasesCounter, flags, running, place
<1>2. (Foreseen' <=> Foreseen) /\ (InHand' <=> InHand)
  BY <1>1 DEF Foreseen, InHand, Open
<1>3. /\ Payable = IF InHand THEN phasesCounter - 1 ELSE phasesCounter
      /\ Payable' = IF InHand THEN phasesCounter' - 1 ELSE phasesCounter'
  BY <1>2 DEF Payable
<1>4. /\ Len(generatedPhases) \in Nat /\ phasesCounter \in Int
      /\ QueueRecharge \in Nat \ {0}
  BY AccountTypes, PhasicAssumption
<1>5. ~InHand => ~Late'
  BY <1>1, <1>3, <1>4 DEF Late
<1>6. nForeseen' = nForeseen
  BY <1>2 DEF nForeseen
<1>7. /\ nPaid \in Nat /\ nPaid' \in Nat
      /\ nPaid' + nLate' <= nPaid + QueueRecharge
  <2>1. CASE InHand
    <3>1. nPaid' + 1 <= nPaid + QueueRecharge
      BY <1>1, <1>3, <1>4, <2>1 DEF nPaid
    <3>2. nPaid \in Nat /\ nPaid' \in Nat
      BY <1>1, <1>3, <1>4, <2>1 DEF nPaid
    <3> DEFINE a == nPaid'  b == nPaid  c == nLate'
    <3>3. /\ a \in Nat /\ b \in Nat /\ c \in Nat /\ c <= 1
          /\ a + 1 <= b + QueueRecharge
      BY <3>1, <3>2, CountTypes
    <3> HIDE DEF a, b, c
    <3>4. a + c <= b + QueueRecharge
      BY <1>4, <3>3
    <3>5. QED
      BY <3>2, <3>4 DEF a, b, c
  <2>2. CASE ~InHand
    BY <1>1, <1>3, <1>4, <1>5, <2>2 DEF nPaid, nLate
  <2>3. QED
    BY <2>1, <2>2
<1> DEFINE n == Len(generatedPhases)
           a == nForeseen b == nPaid  c == nFinale  d == nLate
           f == nPaid'    g == nFinale'  h == nLate'
<1>8. /\ a \in Nat /\ b \in Nat /\ c \in Nat /\ d \in Nat /\ n \in Nat
      /\ f \in Nat /\ g \in Nat /\ h \in Nat /\ g <= 1
      /\ f + h <= b + QueueRecharge
  BY <1>4, <1>7, CountTypes
<1>9. Account' = n + a + f + g + h /\ Account = n + a + b + c + d
  BY <1>1, <1>6 DEF Account
<1> HIDE DEF n, a, b, c, d, f, g, h
<1>10. QED
  BY <1>4, <1>8, <1>9 DEF Cost

\* Every step but the queueing of a request keeps the account; that one puts
\* in a new request what it may cost.
LEMMA AccountStep ==
    ASSUME TypeOK, OnePhaseAtATime, LaunchInv, [Next]_vars
    PROVE  \/ Account' <= Account /\ UNCHANGED asked
           \/ \E r \in Requests : QueueUserRequest(r)
<1> USE DEF plan, flags, persisted, place, abort, running, history
<1>1. CASE StartStateMachine
  <2>0. /\ gen = "starting" /\ (mvpGenerated => pendingUserInputs # {})
        /\ IncompletedPhases = Open
        /\ UNCHANGED <<phasesCounter, pendingUserInputs, flags, finalizing, asked>>
    BY <1>1 DEF StartStateMachine, LaunchInv, IncompletedPhases, Open
  <2>1. CASE UNCHANGED generatedPhases /\ gen' = "piIssues"
    <3>1. Finale' => Finale
      BY <2>0, <2>1 DEF Finale
    <3>2. QED
      BY <2>0, <2>1, <3>1, AccountKept
  <2>2. CASE /\ UNCHANGED generatedPhases /\ gen' = "pgIssues"
             /\ Open = {} /\ generatedPhases # << >>
    <3>1. Finale' => Finale
      BY <2>0, <2>2 DEF Finale
    <3>2. ~InHand
      BY <2>0, <2>2 DEF InHand, Foreseen
    <3>3. QED
      BY <2>0, <2>2, <3>1, <3>2, AccountKept
  <2>3. CASE /\ generatedPhases = << >> /\ gen' = "piIssues"
             /\ \E last \in BOOLEAN :
                   CreateNewIncompletePhase(InitialPhase, last, {})
    <3>1. Finale' => Finale
      BY <2>0, <2>3 DEF Finale
    <3>2. Foreseen
      BY <2>3 DEF Foreseen
    <3>3. QED
      BY <2>0, <2>3, <3>1, <3>2, AccountOpened, PhasicAssumption
  <2>4. QED
    BY <1>1, <2>0, <2>1, <2>2, <2>3 DEF StartStateMachine
<1>2. CASE \/ TemplateUnavailable \/ StartImplementing \/ FilesGenerated
           \/ PhaseImplementationFails \/ Reviewed \/ GenerationComplete
  <2>1. UNCHANGED <<plan, mvpGenerated, asked>>
    BY <1>2 DEF TemplateUnavailable, StartImplementing, FilesGenerated,
                PhaseImplementationFails, Reviewed, GenerationComplete
  <2>2. /\ gen # "pgInfer"
        /\ \/ gen' \in {"stuck", "closing", "rvIssues", "none"}
           \/ /\ gen \in Implementing /\ gen' \in Implementing
              /\ UNCHANGED finalizing
    BY <1>2, TransitionTargets
       DEF TemplateUnavailable, StartImplementing, FilesGenerated,
           PhaseImplementationFails, Reviewed, GenerationComplete, Implementing
  <2>3. Finale' => Finale
    BY <2>1, <2>2 DEF Finale, Implementing
  <2>4. QED
    BY <2>1, <2>2, <2>3, AccountKept DEF Implementing
<1>3. CASE AskForPhase
  BY <1>3, AccountAsked DEF AskForPhase
<1>4. CASE PhasePlanned
  <2>1. /\ gen = "pgInfer" /\ gen' = "piIssues"
        /\ \E name \in PhaseNames, last \in BOOLEAN :
              CreateNewIncompletePhase(name, last, userContext)
        /\ UNCHANGED <<phasesCounter, pendingUserInputs, mvpGenerated,
                       finalizing, asked>>
        /\ userContext \in SUBSET Requests
    BY <1>4 DEF PhasePlanned, TypeOK
  <2>2. Foreseen /\ (Finale' => Finale)
    BY <2>1 DEF Foreseen, Finale
  <2>3. QED
    BY <2>1, <2>2, AccountOpened
<1>5. CASE NoMorePhases
  <2>1. UNCHANGED <<plan, asked>> /\ gen = "pgInfer"
    BY <1>5 DEF NoMorePhases
  <2>2. CASE finalizing
    <3>1. gen' \in {"closing", "rvIssues"}
      BY <1>5, <2>2, TransitionTargets DEF NoMorePhases
    <3>2. Finale' => Finale
      BY <2>1, <3>1 DEF Finale, Implementing
    <3>3. QED
      BY <2>1, <3>1, <3>2, AccountPlannerLeft
  <2>3. CASE ~finalizing
    <3>1. EnterFinalizing
      BY <1>5, <2>3 DEF NoMorePhases
    <3>2. CASE ~mvpGenerated /\ gen' \in {"closing", "rvIssues"}
      <4>1. Finale' => Finale
        BY <2>1, <3>2 DEF Finale, Implementing
      <4>2. QED
        BY <2>1, <3>2, <4>1, AccountPlannerLeft
    <3>3. CASE mvpGenerated /\ finalizing' /\ gen' = "pgIssues"
      <4>1. Finale /\ (Finale' => pendingUserInputs # {})
        BY <2>1, <2>3, <3>3 DEF Finale
      <4>2. QED
        BY <2>1, <3>3, <4>1, AccountPlannerLeft
    <3>4. QED
      BY <3>1, <3>2, <3>3, TransitionFlags
  <2>4. QED
    BY <2>2, <2>3
<1>6. CASE PhaseGenerationFails
  <2>1. /\ UNCHANGED <<plan, asked>> /\ gen = "pgInfer"
        /\ gen' \in {"closing", "rvIssues"}
    BY <1>6, TransitionTargets DEF PhaseGenerationFails
  <2>2. Finale' => Finale
    BY <2>1 DEF Finale, Implementing
  <2>3. QED
    BY <2>1, <2>2, AccountPlannerLeft
<1>7. CASE PhaseImplemented
  BY <1>7, AccountImplemented DEF PhaseImplemented
<1>8. CASE GenerateAll \/ ResumeGeneration
  <2>1. /\ UNCHANGED <<plan, mvpGenerated, finalizing, asked>>
        /\ UNCHANGED gen \/ (gen = "none" /\ gen' = "starting")
    BY <1>8 DEF GenerateAll, ResumeGeneration, Launch, Generating
  <2>2. Finale' => Finale
    BY <2>1 DEF Finale, Implementing
  <2>3. QED
    BY <2>1, <2>2, AccountKept
<1>9. CASE StopGeneration
  <2>1. UNCHANGED <<plan, mvpGenerated, finalizing, gen, asked>>
    BY <1>9 DEF StopGeneration
  <2>2. Finale' => Finale
    BY <2>1 DEF Finale
  <2>3. QED
    BY <2>1, <2>2, AccountKept
<1>10. CASE Restart
  <2>1. UNCHANGED <<plan, mvpGenerated, asked>> /\ gen' = "none"
    BY <1>10 DEF Restart
  <2>2. Finale' => Finale
    BY <2>1 DEF Finale, Implementing
  <2>3. QED
    BY <2>1, <2>2, AccountKept, AccountPlannerLeft
<1>11. ASSUME NEW r \in Requests,
              \/ UserSuggestion(r) \/ TurnStep(r)
              \/ QueueUserRequest(r) \/ StartDeepDebug(r),
              ~QueueUserRequest(r)
       PROVE  Account' <= Account /\ UNCHANGED asked
  <2>1. /\ UNCHANGED <<plan, mvpGenerated, finalizing, asked>>
        /\ UNCHANGED gen \/ (gen = "none" /\ gen' = "starting")
    BY <1>11 DEF UserSuggestion, TurnStep, UsageDenied, UsageAllowed,
                 EndDeepDebug, TurnEnds, TurnFails, Launch, Generating,
                 StartDeepDebug
  <2>2. Finale' => Finale
    BY <2>1 DEF Finale, Implementing
  <2>3. QED
    BY <2>1, <2>2, AccountKept
<1>12. CASE UNCHANGED vars
  <2>1. UNCHANGED <<plan, mvpGenerated, finalizing, gen, asked>>
    BY <1>12 DEF vars
  <2>2. Finale' => Finale
    BY <2>1 DEF Finale
  <2>3. QED
    BY <2>1, <2>2, AccountKept
<1>13. QED
  BY <1>1, <1>2, <1>3, <1>4, <1>5, <1>6, <1>7, <1>8, <1>9, <1>10, <1>11,
     <1>12 DEF Next, GenStep

\* The flags a launch and the finalizing state rest on.
LEMMA LaunchStep ==
    ASSUME LaunchInv, [Next]_vars PROVE LaunchInv'
<1> USE DEF LaunchInv, plan, flags, persisted, place, running
<1>1. CASE StartStateMachine \/ TemplateUnavailable \/ GenerationComplete
           \/ StartImplementing \/ FilesGenerated
  BY <1>1 DEF StartStateMachine, TemplateUnavailable, GenerationComplete,
              StartImplementing, FilesGenerated
<1>2. CASE AskForPhase \/ PhasePlanned
  BY <1>2 DEF AskForPhase, PhasePlanned
<1>3. CASE \/ NoMorePhases \/ PhaseGenerationFails \/ PhaseImplemented
           \/ PhaseImplementationFails \/ Reviewed
  <2>1. gen' # "starting"
    BY <1>3, TransitionTargets
       DEF NoMorePhases, PhaseGenerationFails, PhaseImplemented,
           PhaseImplementationFails, Reviewed
  <2>2. finalizing' => mvpGenerated'
    BY <1>3, TransitionFlags
       DEF NoMorePhases, PhaseGenerationFails, PhaseImplemented,
           PhaseImplementationFails, Reviewed
  <2>3. QED
    BY <2>1, <2>2
<1>4. CASE GenerateAll \/ ResumeGeneration
  BY <1>4 DEF GenerateAll, ResumeGeneration, Launch, NothingToGenerate
<1>5. CASE StopGeneration
  BY <1>5 DEF StopGeneration
<1>6. CASE Restart
  BY <1>6 DEF Restart
<1>7. ASSUME NEW r \in Requests,
             \/ UserSuggestion(r) \/ TurnStep(r)
             \/ QueueUserRequest(r) \/ StartDeepDebug(r)
      PROVE  LaunchInv'
  <2>1. CASE QueueUserRequest(r)
    BY <2>1 DEF QueueUserRequest, QueuePendingInput
  <2>2. CASE TurnEnds(r)
    BY <2>2 DEF TurnEnds, Launch, NothingToGenerate
  <2>3. CASE \/ UserSuggestion(r) \/ StartDeepDebug(r) \/ UsageDenied(r)
             \/ UsageAllowed(r) \/ EndDeepDebug(r) \/ TurnFails(r)
    BY <2>3 DEF UserSuggestion, StartDeepDebug, UsageDenied, UsageAllowed,
                EndDeepDebug, TurnFails
  <2>4. QED
    BY <1>7, <2>1, <2>2, <2>3 DEF TurnStep
<1>8. CASE UNCHANGED vars
  BY <1>8 DEF vars
<1>9. QED
  BY <1>1, <1>2, <1>3, <1>4, <1>5, <1>6, <1>7, <1>8 DEF Next, GenStep

\* A budget grows by the cost of a request with each one queued.
LEMMA BudgetGrows ==
    ASSUME IsFiniteSet(asked), NEW r \in Requests, QueueUserRequest(r)
    PROVE  IsFiniteSet(asked') /\ Budget' = Budget + Cost
<1> DEFINE k == Cardinality(asked)
<1>1. asked' = asked \cup {r} /\ r \notin asked
  BY DEF QueueUserRequest
<1>2. /\ IsFiniteSet(asked') /\ Cardinality(asked') = k + 1
      /\ k \in Nat
  BY <1>1, FS_AddElement, FS_CardinalityType
<1>3. Cost \in Nat /\ MAX_PHASES \in Nat
  BY PhasicAssumption DEF Cost
<1> HIDE DEF k
<1>4. (k + 1) * Cost = k * Cost + Cost /\ k * Cost \in Nat
  BY <1>2, <1>3
<1>5. Budget' = MAX_PHASES + (k + 1) * Cost
  BY <1>2 DEF Budget, Cost
<1>6. Budget = MAX_PHASES + k * Cost
  BY DEF Budget, k
<1>7. MAX_PHASES + (k * Cost + Cost) = (MAX_PHASES + k * Cost) + Cost
  BY <1>3, <1>4
<1>8. QED
  BY <1>2, <1>4, <1>5, <1>6, <1>7

\* The account and the budget are integers.
LEMMA BudgetTypes ==
    ASSUME TypeOK, IsFiniteSet(asked)
    PROVE  Account \in Int /\ Budget \in Int /\ Cost \in Nat
<1>1. nPaid \in Nat
  BY AccountTypes DEF nPaid, Payable
<1>2. Account \in Int
  BY <1>1, CountTypes, AccountTypes DEF Account
<1>3. Cost \in Nat
  BY PhasicAssumption DEF Cost
<1>4. Cardinality(asked) \in Nat
  BY FS_CardinalityType
<1>5. Cardinality(asked) * Cost \in Int
  BY <1>3, <1>4
<1>6. Budget \in Int
  BY <1>5, PhasicAssumption DEF Budget
<1>7. QED
  BY <1>2, <1>3, <1>6

LEMMA AccountTypeNext == ASSUME TypeOK' PROVE Account' \in Int
<1>1. Len(generatedPhases') \in Nat /\ phasesCounter' \in Int
  BY LenProperties DEF TypeOK
<1>2. Payable' \in Int
  <2>1. Payable' \in {phasesCounter', phasesCounter' - 1}
    BY DEF Payable
  <2>2. QED
    BY <1>1, <2>1
<1>3. nPaid' \in Nat
  BY <1>2 DEF nPaid
<1>4. QED
  BY <1>1, <1>3, CountTypes DEF Account

\* Every step keeps BudgetInv.
LEMMA BudgetStep ==
    ASSUME TypeOK, TypeOK', OnePhaseAtATime, BudgetInv, [Next]_vars
    PROVE  BudgetInv'
<1>1. LaunchInv /\ LaunchInv' /\ IsFiniteSet(asked) /\ Account <= Budget
  BY LaunchStep DEF BudgetInv
<1>2. CASE Account' <= Account /\ UNCHANGED asked
  <2>1. Budget' = Budget /\ IsFiniteSet(asked')
    BY <1>1, <1>2 DEF Budget, Cost
  <2> DEFINE a == Account' b == Account c == Budget
  <2>2. a \in Int /\ b \in Int /\ c \in Int /\ a <= b /\ b <= c
    BY <1>1, <1>2, <2>1, BudgetTypes, AccountTypeNext
  <2> HIDE DEF a, b, c
  <2>3. a <= c
    BY <2>2
  <2>4. QED
    BY <1>1, <2>1, <2>3 DEF BudgetInv, a, c
<1>3. ASSUME NEW r \in Requests, QueueUserRequest(r) PROVE BudgetInv'
  <2>1. /\ Budget' = Budget + Cost /\ IsFiniteSet(asked')
        /\ Account' <= Account + Cost
    BY <1>1, <1>3, BudgetGrows, AccountQueued
  <2> DEFINE a == Account' b == Account c == Budget d == Budget'
  <2>2. /\ a \in Int /\ b \in Int /\ c \in Int /\ d \in Int /\ Cost \in Nat
        /\ a <= b + Cost /\ b <= c /\ d = c + Cost
    BY <1>1, <2>1, BudgetTypes, AccountTypeNext
  <2> HIDE DEF a, b, c, d
  <2>3. a <= d
    BY <2>2
  <2>4. QED
    BY <1>1, <2>1, <2>3 DEF BudgetInv, a, d
<1>4. QED
  BY <1>1, <1>2, <1>3, AccountStep

\* Initially the budget is exactly what the account promises.
LEMMA BudgetInit == ASSUME Init PROVE BudgetInv
<1>1. /\ generatedPhases = << >> /\ phasesCounter = MAX_PHASES
      /\ pendingUserInputs = {} /\ gen = "none"
      /\ ~mvpGenerated /\ ~finalizing
      /\ asked = {} /\ MAX_PHASES \in Nat \ {0}
  BY PhasicAssumption DEF Init
<1>2. IsFiniteSet(asked) /\ Cardinality(asked) = 0 /\ Len(generatedPhases) = 0
  BY <1>1, FS_EmptySet, EmptySeq
<1>3. Cost \in Nat
  BY PhasicAssumption DEF Cost
<1>4. Budget = MAX_PHASES
  BY <1>1, <1>2, <1>3 DEF Budget
<1>5. Foreseen /\ InHand /\ ~Finale /\ ~Late
  BY <1>1 DEF Foreseen, InHand, Finale, Late
<1>6. nForeseen = 1 /\ nPaid = MAX_PHASES - 1 /\ nFinale = 0 /\ nLate = 0
  BY <1>1, <1>5 DEF nForeseen, nPaid, nFinale, nLate, Payable
<1>7. Account = MAX_PHASES
  BY <1>1, <1>2, <1>6 DEF Account
<1>8. QED
  BY <1>1, <1>2, <1>4, <1>7 DEF BudgetInv, LaunchInv

\* The phases there are are within the account.
LEMMA AccountBounds ==
    ASSUME TypeOK, BudgetInv PROVE PhaseBudget
<1> DEFINE n == Len(generatedPhases)
           a == nForeseen  b == nPaid  c == nFinale  d == nLate
<1>1. /\ n \in Nat /\ a \in Nat /\ b \in Nat /\ c \in Nat /\ d \in Nat
      /\ Account = n + a + b + c + d /\ Budget \in Int /\ Account <= Budget
  BY AccountTypes, CountTypes, BudgetTypes DEF nPaid, Payable, Account, BudgetInv
<1> HIDE DEF n, a, b, c, d
<1>2. n <= Budget
  BY <1>1
<1>3. QED
  BY <1>2 DEF PhaseBudget, Budget, Cost, n

\* The requests asked pay for every phase there is, whatever fails, is stopped,
\* restarted or resumed.
THEOREM PhaseBudgetCorrect == Spec => []PhaseBudget
<1>1. Init => OnePhaseAtATime
  BY EmptySeq DEF Init, OnePhaseAtATime, OneOpenPhase, WorksOnOpenPhase, Open,
                  Implementing
<1>2. Init => BudgetInv
  BY BudgetInit
<1>3. TypeOK /\ OnePhaseAtATime /\ [Next]_vars => OnePhaseAtATime'
  BY OpenStep
<1>4. TypeOK /\ TypeOK' /\ OnePhaseAtATime /\ BudgetInv /\ [Next]_vars
         => BudgetInv'
  BY BudgetStep
<1>5. TypeOK /\ BudgetInv => PhaseBudget
  BY AccountBounds
<1>6. QED
  BY <1>1, <1>2, <1>3, <1>4, <1>5, TypeCorrect, PTL DEF Spec
=============================================================================
