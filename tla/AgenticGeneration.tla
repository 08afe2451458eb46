-------------------------- MODULE AgenticGeneration --------------------------
(* The agentic coding behavior: the build loop of behaviors/agentic.ts under the *)
(* wrapper of behaviors/base.ts, the tool calls of inferutils/core.ts and        *)
(* toolExecution.ts with the callbacks agentic.ts gives them, the queue of user  *)
(* messages, and the conversation stored by codingAgent.ts.                      *)
(*                                                                               *)
(* An action is the code between two awaits. The text of a message is its        *)
(* identity, and the history the set of the user messages in it: the responses   *)
(* and tool results added to it are left out, their compaction checks are not. A *)
(* check is due after every ninth message, and compacts when the history is      *)
(* long: here any message may be followed by one that compacts. The running      *)
(* history is written with the full one and holds no message of its own.         *)
(* An operator named Mut... is the operator after it with a plausible mistake.   *)
EXTENDS Naturals, FiniteSets

CONSTANTS
    Messages,       \* user messages, sent once each
    MaxTools,       \* bound: tool calls
    MaxGenerations, \* bound: generations at once
    MaxEvictions    \* bound: evictions of the object

ASSUME AgenticAssumption ==
    /\ MaxTools \in Nat
    /\ MaxGenerations \in Nat \ {0}
    /\ MaxEvictions \in Nat

Generation == 1..MaxGenerations
ToolCall == 1..MaxTools

VARIABLES
    pending,        \* pendingUserInputs
    mvp,            \* mvpGenerated
    full,           \* fullHistory
    promise,        \* the generation behind generationPromise, 0 for null
    pc,             \* where the generations in flight are suspended
    group,          \* tool calls that Promise.all of a generation waits for
    marked,         \* the response of a generation called the completion tool
    held,           \* full as a generation in a compaction has read it
    tool, toolHeld, \* the same of the tool calls, which may outlive their group
    sent, evictions,
    \* what has happened, for the properties
    cleared,        \* messages the user has cleared
    lost,           \* messages a compaction has overwritten
    interrupted     \* a generation has failed or was evicted

persisted == <<pending, mvp, full>>
generations == <<promise, pc, group, marked, held>>
tools == <<tool, toolHeld>>
history == <<cleared, lost, interrupted>>
vars == <<persisted, generations, tools, sent, evictions, history>>

TypeOK ==
    /\ pending \subseteq Messages
    /\ mvp \in BOOLEAN
    /\ full \subseteq Messages
    /\ promise \in 0..MaxGenerations
    /\ pc \in [Generation -> {"none", "template", "inferring", "message", "tools",
                              "compacting", "ending", "stuck"}]
    /\ group \in [Generation -> SUBSET ToolCall]
    /\ \A g \in Generation : pc[g] = "tools" <=> group[g] # {}
    /\ marked \in [Generation -> BOOLEAN]
    /\ held \in [Generation -> SUBSET Messages]
    /\ tool \in [ToolCall -> {"unused", "running", "compacting", "over"}]
    /\ toolHeld \in [ToolCall -> SUBSET Messages]
    /\ sent \subseteq Messages
    /\ evictions \in 0..MaxEvictions
    /\ cleared \subseteq Messages
    /\ lost \subseteq Messages
    /\ interrupted \in BOOLEAN

Init ==
    /\ pending = {}
    /\ mvp = FALSE
    /\ full = {}
    /\ promise = 0
    /\ pc = [g \in Generation |-> "none"]
    /\ group = [g \in Generation |-> {}]
    /\ marked = [g \in Generation |-> FALSE]
    /\ held = [g \in Generation |-> {}]
    /\ tool = [t \in ToolCall |-> "unused"]
    /\ toolHeld = [t \in ToolCall |-> {}]
    /\ sent = {}
    /\ evictions = 0
    /\ cleared = {}
    /\ lost = {}
    /\ interrupted = FALSE

InFlight == {g \in Generation : pc[g] \notin {"none", "stuck"}}

--------------------------------------------------------------------------------
(* Starting: generateAllFiles, called by GENERATE_ALL, RESUME_GENERATION and,    *)
(* for an agent that is not generating, by the next user message.                *)

GenerateAllFiles ==
    IF promise # 0 \/ (mvp /\ pending' = {})
    THEN UNCHANGED <<promise, pc>>
    ELSE \E g \in Generation :
            /\ pc[g] = "none" /\ \A i \in 1..(g - 1) : pc[i] # "none"
            /\ promise' = g
            /\ pc' = [pc EXCEPT ![g] = "template"]

GenerationCommand ==
    /\ UNCHANGED <<persisted, group, marked, held, tools, sent, evictions, history>>
    /\ promise = 0
    /\ GenerateAllFiles

(* handleUserInput queues the message, images uploaded before that. *)
UserMessage(m) ==
    /\ m \notin sent
    /\ sent' = sent \union {m}
    /\ pending' = pending \union {m}
    /\ UNCHANGED <<mvp, full, group, marked, held, tools, evictions, history>>
    /\ GenerateAllFiles

(* An iteration of build() ends in the finally of executeGeneration, which clears *)
(* the promise of the whole generation, and the next begins at once: it fetches   *)
(* what is queued and adds it to the conversation, F.                             *)
NextIteration(g, F) ==
    /\ group' = [group EXCEPT ![g] = {}]
    /\ marked' = [marked EXCEPT ![g] = FALSE]
    /\ held' = [held EXCEPT ![g] = {}]
    /\ IF mvp' /\ pending = {}
       THEN pc' = [pc EXCEPT ![g] = "ending"]
       ELSE pc' = [pc EXCEPT ![g] = "inferring"]
    /\ pending' = {}
    /\ full' = F \union pending

MutIterationEnds(g, F) ==
    /\ promise' = 0
    /\ group' = [group EXCEPT ![g] = {}]
    /\ marked' = [marked EXCEPT ![g] = FALSE]
    /\ held' = [held EXCEPT ![g] = {}]
    /\ pc' = [pc EXCEPT ![g] = IF mvp' THEN "ending" ELSE "inferring"]
    /\ pending' = IF mvp' THEN pending ELSE {}
    /\ full' = IF mvp' THEN F ELSE F \union pending

IterationEnds(g, F) == promise' = 0 /\ NextIteration(g, F)

TemplateLoaded(g) ==
    /\ pc[g] = "template"
    /\ UNCHANGED <<mvp, promise, tools, sent, evictions, history>>
    /\ NextIteration(g, full)

(* ensureTemplateDetails throws outside the try: nobody clears the promise. *)
TemplateUnavailable(g) ==
    /\ pc[g] = "template"
    /\ pc' = [pc EXCEPT ![g] = "stuck"]
    /\ interrupted' = TRUE
    /\ UNCHANGED <<persisted, promise, group, marked, held, tools, sent, evictions, cleared, lost>>

--------------------------------------------------------------------------------
(* One inference of a chain: the response, its tool calls, their results.        *)

(* compactifyIfNeeded at the end of the chain reads F, or finds it short enough. *)
MutChainEnds(g, F) ==
    /\ full' = F
    /\ pc' = [pc EXCEPT ![g] = "ending"]
    /\ group' = [group EXCEPT ![g] = {}]
    /\ marked' = [marked EXCEPT ![g] = FALSE]
    /\ held' = [held EXCEPT ![g] = {}]
    /\ UNCHANGED <<pending, promise>>

ChainEnds(g, F) ==
    \/ IterationEnds(g, F)
    \/ /\ pc' = [pc EXCEPT ![g] = "compacting"]
       /\ held' = [held EXCEPT ![g] = F]
       /\ full' = F
       /\ group' = [group EXCEPT ![g] = {}]
       /\ marked' = [marked EXCEPT ![g] = FALSE]
       /\ UNCHANGED <<pending, promise>>

(* The next group of tool calls that have no conflict among them. *)
Unused == {t \in ToolCall : tool[t] = "unused"}
NextTools == {S \in SUBSET Unused : S # {} /\ \A t \in Unused, s \in S : t < s => t \in S}

StartTools(g) ==
    \E S \in NextTools :
        /\ pc' = [pc EXCEPT ![g] = "tools"]
        /\ group' = [group EXCEPT ![g] = S]
        /\ tool' = [t \in ToolCall |-> IF t \in S THEN "running" ELSE tool[t]]

(* onAssistantMessage adds the response; its compaction comes before the tools. *)
Responds(g) ==
    /\ pc[g] = "inferring"
    /\ UNCHANGED <<mvp, sent, evictions, history, toolHeld>>
    /\ \/ /\ ChainEnds(g, full)
          /\ UNCHANGED tool
       \/ /\ StartTools(g)
          /\ UNCHANGED <<pending, full, promise, marked, held>>
       \/ /\ pc' = [pc EXCEPT ![g] = "message"]
          /\ held' = [held EXCEPT ![g] = full]
          /\ UNCHANGED <<pending, full, promise, group, marked, tool>>

(* setConversationState writes F, what was read before the compaction. *)
WriteBack(F) == lost' = lost \union (full \ F)

MessageCompacted(g) ==
    /\ pc[g] = "message"
    /\ WriteBack(held[g])
    /\ UNCHANGED <<mvp, sent, evictions, cleared, interrupted, toolHeld>>
    /\ \/ /\ ChainEnds(g, held[g])
          /\ UNCHANGED tool
       \/ /\ full' = held[g]
          /\ held' = [held EXCEPT ![g] = {}]
          /\ StartTools(g)
          /\ UNCHANGED <<pending, promise, marked>>

(* Rate limit, security error or cancellation: nothing is retried, build() ends. *)
MutInferenceThrows(g) ==
    /\ pc[g] = "inferring"
    /\ promise' = 0
    /\ pc' = [pc EXCEPT ![g] = "ending"]
    /\ pending' = {}
    /\ marked' = [marked EXCEPT ![g] = FALSE]
    /\ interrupted' = TRUE
    /\ UNCHANGED <<mvp, full, group, held, tools, sent, evictions, cleared, lost>>

InferenceThrows(g) ==
    /\ pc[g] = "inferring"
    /\ promise' = 0
    /\ pc' = [pc EXCEPT ![g] = "ending"]
    /\ marked' = [marked EXCEPT ![g] = FALSE]
    /\ interrupted' = TRUE
    /\ UNCHANGED <<persisted, group, held, tools, sent, evictions, cleared, lost>>

HistoryCompacted(g) ==
    /\ pc[g] = "compacting"
    /\ WriteBack(held[g])
    /\ UNCHANGED <<mvp, sent, evictions, cleared, interrupted, tools>>
    /\ IterationEnds(g, held[g])

NextGroup(g, t, S) ==
    /\ pc' = [pc EXCEPT ![g] = "tools"]
    /\ group' = [group EXCEPT ![g] = S]
    /\ tool' = [u \in ToolCall |-> IF u = t THEN "over"
                                   ELSE IF u \in S THEN "running"
                                   ELSE tool[u]]

MutGroupGoesOn(g, t, F) ==
    /\ group' = [group EXCEPT ![g] = @ \ {t}]
    /\ full' = F
    /\ tool' = [tool EXCEPT ![t] = "over"]
    /\ pc' = [pc EXCEPT ![g] = "inferring"]
    /\ UNCHANGED <<pending, promise, marked, held>>

(* Promise.all of the group, when t has settled: the next group of the response, *)
(* the next inference, or the end of the chain at the completion signal.         *)
GroupGoesOn(g, t, F) ==
    LET rest == group[g] \ {t}
    IN IF rest # {}
       THEN /\ group' = [group EXCEPT ![g] = rest]
            /\ full' = F
            /\ tool' = [tool EXCEPT ![t] = "over"]
            /\ UNCHANGED <<pending, promise, pc, marked, held>>
       ELSE \/ /\ tool' = [tool EXCEPT ![t] = "over"]
               /\ marked[g] /\ ChainEnds(g, F)
            \/ /\ tool' = [tool EXCEPT ![t] = "over"]
               /\ ~marked[g]
               /\ pc' = [pc EXCEPT ![g] = "inferring"]
               /\ group' = [group EXCEPT ![g] = {}]
               /\ full' = F
               /\ UNCHANGED <<pending, promise, marked, held>>
            \/ /\ full' = F
               /\ \E S \in NextTools : NextGroup(g, t, S)
               /\ UNCHANGED <<pending, promise, marked, held>>

(* An AbortError rejects Promise.all and ends the chain; the other calls of the   *)
(* group run on and settle unheard, as do those of a generation that is gone.     *)
ToolSettles(t, F, aborts) ==
    \/ \E g \in Generation :
          /\ t \in group[g]
          /\ IF aborts
             THEN tool' = [tool EXCEPT ![t] = "over"] /\ ChainEnds(g, F)
             ELSE GroupGoesOn(g, t, F)
    \/ /\ \A g \in Generation : t \notin group[g]
       /\ full' = F
       /\ tool' = [tool EXCEPT ![t] = "over"]
       /\ UNCHANGED <<pending, generations>>

(* onToolComplete adds the result, may compact, then aborts for queued messages. *)
ToolCompletes(t) ==
    /\ tool[t] = "running"
    /\ UNCHANGED <<mvp, sent, evictions, history>>
    /\ \/ /\ ToolSettles(t, full, pending # {})
          /\ UNCHANGED toolHeld
       \/ /\ tool' = [tool EXCEPT ![t] = "compacting"]
          /\ toolHeld' = [toolHeld EXCEPT ![t] = full]
          /\ UNCHANGED <<pending, full, generations>>

ToolCompacted(t) ==
    /\ tool[t] = "compacting"
    /\ WriteBack(toolHeld[t])
    /\ UNCHANGED <<mvp, sent, evictions, cleared, interrupted>>
    /\ toolHeld' = [toolHeld EXCEPT ![t] = {}]
    /\ ToolSettles(t, toolHeld[t], pending # {})

(* A tool that throws settles with an error result, and no callback is called. *)
ToolFails(t) ==
    /\ tool[t] = "running"
    /\ UNCHANGED <<mvp, sent, evictions, history, toolHeld>>
    /\ ToolSettles(t, full, FALSE)

(* mark_generation_complete has no callback. *)
MarkGenerationComplete(t) ==
    /\ tool[t] = "running"
    /\ mvp' = TRUE
    /\ \/ \E g \in Generation :
             /\ t \in group[g]
             /\ \/ /\ group[g] = {t}
                   /\ tool' = [tool EXCEPT ![t] = "over"]
                   /\ ChainEnds(g, full)
                \/ /\ group[g] # {t}
                   /\ tool' = [tool EXCEPT ![t] = "over"]
                   /\ group' = [group EXCEPT ![g] = @ \ {t}]
                   /\ marked' = [marked EXCEPT ![g] = TRUE]
                   /\ UNCHANGED <<pending, full, promise, pc, held>>
                \/ /\ group[g] = {t}
                   /\ marked' = [marked EXCEPT ![g] = TRUE]
                   /\ \E S \in NextTools : NextGroup(g, t, S)
                   /\ UNCHANGED <<pending, full, promise, held>>
       \/ /\ \A g \in Generation : t \notin group[g]
          /\ tool' = [tool EXCEPT ![t] = "over"]
          /\ UNCHANGED <<pending, full, generations>>
    /\ UNCHANGED <<sent, evictions, history, toolHeld>>

--------------------------------------------------------------------------------
(* The finally of buildWrapper, after the app record is updated. *)
GenerationEnds(g) ==
    /\ pc[g] = "ending"
    /\ pc' = [pc EXCEPT ![g] = "none"]
    /\ promise' = 0
    /\ UNCHANGED <<persisted, group, marked, held, tools, sent, evictions, history>>

ClearConversation ==
    /\ full # {}
    /\ full' = {}
    /\ cleared' = cleared \union full
    /\ UNCHANGED <<pending, mvp, generations, tools, sent, evictions, lost, interrupted>>

(* The object is evicted: what is not in the agent state or in SQL is lost. *)
Evicted ==
    /\ evictions < MaxEvictions
    /\ evictions' = evictions + 1
    /\ promise' = 0
    /\ pc' = [g \in Generation |-> "none"]
    /\ group' = [g \in Generation |-> {}]
    /\ marked' = [g \in Generation |-> FALSE]
    /\ held' = [g \in Generation |-> {}]
    /\ tool' = [t \in ToolCall |-> IF tool[t] = "unused" THEN "unused" ELSE "over"]
    /\ toolHeld' = [t \in ToolCall |-> {}]
    /\ interrupted' = TRUE
    /\ UNCHANGED <<persisted, sent, cleared, lost>>

Step(g) ==
    \/ TemplateLoaded(g) \/ TemplateUnavailable(g)
    \/ Responds(g) \/ MessageCompacted(g) \/ InferenceThrows(g)
    \/ HistoryCompacted(g) \/ GenerationEnds(g)

ToolStep(t) ==
    ToolCompletes(t) \/ ToolCompacted(t) \/ ToolFails(t) \/ MarkGenerationComplete(t)

Next ==
    \/ GenerationCommand
    \/ \E m \in Messages : UserMessage(m)
    \/ \E g \in Generation : Step(g)
    \/ \E t \in ToolCall : ToolStep(t)
    \/ ClearConversation
    \/ Evicted

Spec == Init /\ [][Next]_vars

(* Inferences, tools, compactions and updates settle; nobody has to call.        *)
FairSpec ==
    /\ Spec
    /\ \A g \in Generation : WF_vars(Step(g))
    /\ \A t \in ToolCall : WF_vars(ToolStep(t))

--------------------------------------------------------------------------------
(* While isCodeGenerating() answers true, so that a user message is only queued   *)
(* (handleUserInput), some generation has yet to look at the queue; a generation  *)
(* that threw may leave a promise behind it.                                      *)
WakeupKept == interrupted \/ promise = 0 \/ \E g \in InFlight : pc[g] # "ending"

(* A user message is in the queue or in the history until the user clears it: no  *)
(* abort, failure, eviction or second generation loses it between the two. Only   *)
(* the history a compaction writes back may lack it.                              *)
MessageKept == sent \subseteq pending \union full \union cleared \union lost

(* GENERATE_ALL, RESUME_GENERATION and a user message start no generation while   *)
(* one runs ("Check if generation is already active to avoid duplicate            *)
(* processes", websocket.ts).                                                     *)
OneGeneration == Cardinality(InFlight) <= 1

(* A queued user message is fetched into the conversation, unless a generation    *)
(* fails or is evicted.                                                           *)
QueuedIsFetched == \A m \in Messages : m \in pending ~> m \notin pending \/ interrupted
================================================================================
