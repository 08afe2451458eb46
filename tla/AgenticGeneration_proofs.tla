----------------------- MODULE AgenticGeneration_proofs -----------------------
(* Theorems of AgenticGeneration, for any messages, tool calls and generations. *)
EXTENDS AgenticGeneration, TLAPS

(* The types, in the groups the steps write. *)
Place == {"none", "template", "inferring", "message", "tools", "compacting", "ending", "stuck"}

StoreTypes == pending \subseteq Messages /\ full \subseteq Messages

GenerationTypes ==
    /\ promise \in 0..MaxGenerations
    /\ pc \in [Generation -> Place]
    /\ group \in [Generation -> SUBSET ToolCall]
    /\ \A g \in Generation : pc[g] = "tools" <=> group[g] # {}
    /\ marked \in [Generation -> BOOLEAN]
    /\ held \in [Generation -> SUBSET Messages]

ToolTypes ==
    /\ tool \in [ToolCall -> {"unused", "running", "compacting", "over"}]
    /\ toolHeld \in [ToolCall -> SUBSET Messages]

HistoryTypes ==
    /\ mvp \in BOOLEAN
    /\ sent \subseteq Messages
    /\ evictions \in 0..MaxEvictions
    /\ cleared \subseteq Messages
    /\ lost \subseteq Messages
    /\ interrupted \in BOOLEAN

LEMMA TypesTogether == TypeOK <=> StoreTypes /\ GenerationTypes /\ ToolTypes /\ HistoryTypes
BY DEF TypeOK, StoreTypes, GenerationTypes, ToolTypes, HistoryTypes, Place

--------------------------------------------------------------------------------
(* What the operators that the actions share do to the types. *)
LEMMA StartKeepsTypes ==
    ASSUME TypeOK, GenerateAllFiles, UNCHANGED <<group, marked, held>>
    PROVE  GenerationTypes'
<1>1. CASE UNCHANGED <<promise, pc>>
    BY <1>1 DEF TypeOK, GenerationTypes, Place
<1>2. CASE \E g \in Generation : pc[g] = "none" /\ promise' = g /\ pc' = [pc EXCEPT ![g] = "template"]
    <2>1. PICK g \in Generation :
              pc[g] = "none" /\ promise' = g /\ pc' = [pc EXCEPT ![g] = "template"]
        BY <1>2
    <2>2. promise' \in 0..MaxGenerations
        BY <2>1, AgenticAssumption DEF Generation
    <2> QED BY <2>1, <2>2 DEF TypeOK, GenerationTypes, Place
<1> QED BY <1>1, <1>2 DEF GenerateAllFiles

LEMMA NextIterationKeepsTypes ==
    ASSUME TypeOK, NEW g \in Generation, NEW F \in SUBSET Messages, NextIteration(g, F),
           promise' \in 0..MaxGenerations
    PROVE  StoreTypes' /\ GenerationTypes'
<1>1. pc' = [pc EXCEPT ![g] = "ending"] \/ pc' = [pc EXCEPT ![g] = "inferring"]
    BY DEF NextIteration
<1>2. StoreTypes'
    BY DEF NextIteration, TypeOK, StoreTypes
<1>3. /\ group' = [group EXCEPT ![g] = {}]
      /\ marked' = [marked EXCEPT ![g] = FALSE]
      /\ held' = [held EXCEPT ![g] = {}]
    BY DEF NextIteration
<1> QED BY <1>1, <1>2, <1>3 DEF TypeOK, GenerationTypes, Place

LEMMA ChainEndKeepsTypes ==
    ASSUME TypeOK, NEW g \in Generation, NEW F \in SUBSET Messages, ChainEnds(g, F)
    PROVE  StoreTypes' /\ GenerationTypes'
<1>1. CASE IterationEnds(g, F)
    <2>1. promise' \in 0..MaxGenerations
        BY <1>1, AgenticAssumption DEF IterationEnds
    <2> QED BY <1>1, <2>1, NextIterationKeepsTypes DEF IterationEnds
<1>2. CASE /\ pc' = [pc EXCEPT ![g] = "compacting"]
           /\ held' = [held EXCEPT ![g] = F]
           /\ full' = F
           /\ group' = [group EXCEPT ![g] = {}]
           /\ marked' = [marked EXCEPT ![g] = FALSE]
           /\ UNCHANGED <<pending, promise>>
    BY <1>2 DEF TypeOK, StoreTypes, GenerationTypes, Place
<1> QED BY <1>1, <1>2 DEF ChainEnds

LEMMA StartToolsKeepsTypes ==
    ASSUME TypeOK, NEW g \in Generation, StartTools(g),
           UNCHANGED <<promise, marked, toolHeld>>,
           held' = held \/ held' = [held EXCEPT ![g] = {}]
    PROVE  GenerationTypes' /\ ToolTypes'
<1>1. PICK S \in NextTools :
          /\ pc' = [pc EXCEPT ![g] = "tools"]
          /\ group' = [group EXCEPT ![g] = S]
          /\ tool' = [t \in ToolCall |-> IF t \in S THEN "running" ELSE tool[t]]
    BY DEF StartTools
<1>2. S # {} /\ S \subseteq ToolCall
    BY DEF NextTools, Unused
<1>3. held' \in [Generation -> SUBSET Messages]
    BY DEF TypeOK
<1>4. ToolTypes'
    BY <1>1 DEF TypeOK, ToolTypes
<1> QED BY <1>1, <1>2, <1>3, <1>4 DEF TypeOK, GenerationTypes, Place

LEMMA NextGroupKeepsTypes ==
    ASSUME TypeOK, NEW g \in Generation, NEW t \in ToolCall, NEW S \in NextTools,
           NextGroup(g, t, S), marked' \in [Generation -> BOOLEAN],
           UNCHANGED <<promise, held, toolHeld>>
    PROVE  GenerationTypes' /\ ToolTypes'
<1>1. S # {} /\ S \subseteq ToolCall
    BY DEF NextTools, Unused
<1>2. ToolTypes'
    BY DEF NextGroup, TypeOK, ToolTypes
<1>3. pc' = [pc EXCEPT ![g] = "tools"] /\ group' = [group EXCEPT ![g] = S]
    BY DEF NextGroup
<1> QED BY <1>1, <1>2, <1>3 DEF TypeOK, GenerationTypes, Place

LEMMA GroupKeepsTypes ==
    ASSUME TypeOK, NEW g \in Generation, NEW t \in group[g], NEW F \in SUBSET Messages,
           GroupGoesOn(g, t, F)
    PROVE  /\ StoreTypes' /\ GenerationTypes'
           /\ tool' \in [ToolCall -> {"unused", "running", "compacting", "over"}]
<1>0. t \in ToolCall /\ pc[g] = "tools"
    BY DEF TypeOK
<1>1. CASE /\ group[g] \ {t} # {}
           /\ group' = [group EXCEPT ![g] = group[g] \ {t}]
           /\ full' = F
           /\ tool' = [tool EXCEPT ![t] = "over"]
           /\ UNCHANGED <<pending, promise, pc, marked, held>>
    BY <1>0, <1>1 DEF TypeOK, StoreTypes, GenerationTypes, Place
<1>2. CASE tool' = [tool EXCEPT ![t] = "over"] /\ ChainEnds(g, F)
    BY <1>0, <1>2, ChainEndKeepsTypes DEF TypeOK
<1>3. CASE /\ tool' = [tool EXCEPT ![t] = "over"]
           /\ pc' = [pc EXCEPT ![g] = "inferring"]
           /\ group' = [group EXCEPT ![g] = {}]
           /\ full' = F
           /\ UNCHANGED <<pending, promise, marked, held>>
    BY <1>0, <1>3 DEF TypeOK, StoreTypes, GenerationTypes, Place
<1>4. CASE /\ full' = F
           /\ \E S \in NextTools : NextGroup(g, t, S)
           /\ UNCHANGED <<pending, promise, marked, held>>
    <2>1. PICK S \in NextTools : NextGroup(g, t, S)
        BY <1>4
    <2>2. S # {} /\ S \subseteq ToolCall
        BY DEF NextTools, Unused
    <2>3. StoreTypes'
        BY <1>4 DEF TypeOK, StoreTypes
    <2>4. tool' \in [ToolCall -> {"unused", "running", "compacting", "over"}]
        BY <2>1 DEF NextGroup, TypeOK
    <2>5. pc' = [pc EXCEPT ![g] = "tools"] /\ group' = [group EXCEPT ![g] = S]
        BY <2>1 DEF NextGroup
    <2> QED BY <1>4, <2>2, <2>3, <2>4, <2>5 DEF TypeOK, GenerationTypes, Place
<1> QED BY <1>1, <1>2, <1>3, <1>4 DEF GroupGoesOn

LEMMA SettlingKeepsTypes ==
    ASSUME TypeOK, NEW t \in ToolCall, NEW F \in SUBSET Messages, NEW aborts \in BOOLEAN,
           ToolSettles(t, F, aborts)
    PROVE  /\ StoreTypes' /\ GenerationTypes'
           /\ tool' \in [ToolCall -> {"unused", "running", "compacting", "over"}]
<1>1. CASE \E g \in Generation :
              t \in group[g] /\ tool' = [tool EXCEPT ![t] = "over"] /\ ChainEnds(g, F)
    BY <1>1, ChainEndKeepsTypes DEF TypeOK
<1>2. CASE \E g \in Generation : t \in group[g] /\ GroupGoesOn(g, t, F)
    BY <1>2, GroupKeepsTypes
<1>3. CASE /\ full' = F
           /\ tool' = [tool EXCEPT ![t] = "over"]
           /\ UNCHANGED <<pending, generations>>
    BY <1>3 DEF TypeOK, StoreTypes, GenerationTypes, Place, generations
<1> QED BY <1>1, <1>2, <1>3 DEF ToolSettles

--------------------------------------------------------------------------------
(* Types: one lemma for commands and faults, one for the generations, one for the *)
(* tool calls.                                                                    *)
LEMMA CommandKeepsTypes ==
    ASSUME TypeOK,
           \/ GenerationCommand
           \/ \E m \in Messages : UserMessage(m)
           \/ ClearConversation
           \/ Evicted
    PROVE  TypeOK'
<1> USE DEF persisted, tools, history
<1>1. CASE GenerationCommand
    <2>1. GenerationTypes'
        BY <1>1, StartKeepsTypes DEF GenerationCommand
    <2> QED BY <1>1, <2>1, TypesTogether
            DEF GenerationCommand, TypeOK, GenerationTypes, Place
<1>2. CASE \E m \in Messages : UserMessage(m)
    <2>1. GenerationTypes'
        BY <1>2, StartKeepsTypes DEF UserMessage
    <2> QED BY <1>2, <2>1 DEF UserMessage, TypeOK, GenerationTypes, Place
<1>3. CASE ClearConversation
    BY <1>3 DEF ClearConversation, TypeOK, generations
<1>4. CASE Evicted
    <2>1. evictions' \in 0..MaxEvictions
        BY <1>4, AgenticAssumption DEF Evicted, TypeOK
    <2>2. promise' \in 0..MaxGenerations
        BY <1>4, AgenticAssumption DEF Evicted
    <2> QED BY <1>4, <2>1, <2>2 DEF Evicted, TypeOK
<1> QED BY <1>1, <1>2, <1>3, <1>4

LEMMA GenerationStepKeepsTypes ==
    ASSUME TypeOK, NEW g \in Generation, Step(g)
    PROVE  TypeOK'
<1> USE DEF persisted, tools, history, generations
<1>0. full \in SUBSET Messages /\ held[g] \in SUBSET Messages
    BY DEF TypeOK
<1>1. CASE TemplateLoaded(g)
    <2>1. promise' \in 0..MaxGenerations /\ mvp' \in BOOLEAN
        BY <1>1 DEF TemplateLoaded, TypeOK
    <2>2. StoreTypes' /\ GenerationTypes'
        BY <1>0, <1>1, <2>1, NextIterationKeepsTypes DEF TemplateLoaded
    <2>3. ToolTypes' /\ HistoryTypes'
        BY <1>1 DEF TemplateLoaded, TypeOK, ToolTypes, HistoryTypes
    <2> QED BY <2>2, <2>3 DEF TypeOK, StoreTypes, GenerationTypes, ToolTypes, HistoryTypes, Place
<1>2. CASE TemplateUnavailable(g)
    BY <1>2 DEF TemplateUnavailable, TypeOK
<1>3. CASE Responds(g)
    <2>1. HistoryTypes'
        BY <1>3 DEF Responds, TypeOK, HistoryTypes
    <2>2. CASE ChainEnds(g, full) /\ UNCHANGED <<tool, toolHeld>>
        <3>1. StoreTypes' /\ GenerationTypes'
            BY <1>0, <2>2, ChainEndKeepsTypes
        <3> QED BY <2>1, <2>2, <3>1
                DEF TypeOK, StoreTypes, GenerationTypes, HistoryTypes, Place
    <2>3. CASE StartTools(g) /\ UNCHANGED <<pending, full, promise, marked, held, toolHeld>>
        <3>1. GenerationTypes' /\ ToolTypes'
            BY <2>3, StartToolsKeepsTypes
        <3> QED BY <2>1, <2>3, <3>1 DEF TypeOK, GenerationTypes, ToolTypes, HistoryTypes, Place
    <2>4. CASE /\ pc[g] = "inferring"
               /\ pc' = [pc EXCEPT ![g] = "message"]
               /\ held' = [held EXCEPT ![g] = full]
               /\ UNCHANGED <<pending, full, promise, group, marked, tool, toolHeld>>
        BY <1>0, <2>1, <2>4 DEF TypeOK, HistoryTypes
    <2> QED BY <1>3, <2>2, <2>3, <2>4 DEF Responds
<1>4. CASE MessageCompacted(g)
    <2>1. HistoryTypes'
        BY <1>0, <1>4 DEF MessageCompacted, WriteBack, TypeOK, HistoryTypes
    <2>2. CASE ChainEnds(g, held[g]) /\ UNCHANGED <<tool, toolHeld>>
        <3>1. StoreTypes' /\ GenerationTypes'
            BY <1>0, <2>2, ChainEndKeepsTypes
        <3> QED BY <2>1, <2>2, <3>1
                DEF TypeOK, StoreTypes, GenerationTypes, HistoryTypes, Place
    <2>3. CASE /\ full' = held[g]
               /\ held' = [held EXCEPT ![g] = {}]
               /\ StartTools(g)
               /\ UNCHANGED <<pending, promise, marked, toolHeld>>
        <3>1. GenerationTypes' /\ ToolTypes'
            BY <2>3, StartToolsKeepsTypes
        <3> QED BY <1>0, <2>1, <2>3, <3>1
                DEF TypeOK, GenerationTypes, ToolTypes, HistoryTypes, Place
    <2> QED BY <1>4, <2>2, <2>3 DEF MessageCompacted
<1>5. CASE InferenceThrows(g)
    <2>1. promise' \in 0..MaxGenerations
        BY <1>5, AgenticAssumption DEF InferenceThrows
    <2> QED BY <1>5, <2>1 DEF InferenceThrows, TypeOK
<1>6. CASE HistoryCompacted(g)
    <2>1. HistoryTypes'
        BY <1>0, <1>6 DEF HistoryCompacted, WriteBack, TypeOK, HistoryTypes
    <2>2. promise' \in 0..MaxGenerations
        BY <1>6, AgenticAssumption DEF HistoryCompacted, IterationEnds
    <2>3. StoreTypes' /\ GenerationTypes'
        BY <1>0, <1>6, <2>2, NextIterationKeepsTypes DEF HistoryCompacted, IterationEnds
    <2>4. UNCHANGED tools
        BY <1>6 DEF HistoryCompacted
    <2> QED BY <2>1, <2>3, <2>4 DEF TypeOK, StoreTypes, GenerationTypes, HistoryTypes, Place
<1>7. CASE GenerationEnds(g)
    <2>1. promise' \in 0..MaxGenerations
        BY <1>7, AgenticAssumption DEF GenerationEnds
    <2> QED BY <1>7, <2>1 DEF GenerationEnds, TypeOK
<1> QED BY <1>1, <1>2, <1>3, <1>4, <1>5, <1>6, <1>7 DEF Step

LEMMA ToolStepKeepsTypes ==
    ASSUME TypeOK, NEW t \in ToolCall, ToolStep(t)
    PROVE  TypeOK'
<1> USE DEF history, generations
<1>0. /\ full \in SUBSET Messages /\ toolHeld[t] \in SUBSET Messages
      /\ (pending # {}) \in BOOLEAN /\ FALSE \in BOOLEAN
    BY DEF TypeOK
<1>1. CASE ToolCompletes(t)
    <2>1. HistoryTypes'
        BY <1>1 DEF ToolCompletes, TypeOK, HistoryTypes
    <2>2. CASE ToolSettles(t, full, pending # {}) /\ UNCHANGED toolHeld
        <3>1. /\ StoreTypes' /\ GenerationTypes'
              /\ tool' \in [ToolCall -> {"unused", "running", "compacting", "over"}]
            BY <1>0, <2>2, SettlingKeepsTypes
        <3> QED BY <2>1, <2>2, <3>1
                DEF TypeOK, StoreTypes, GenerationTypes, HistoryTypes, Place
    <2>3. CASE /\ tool' = [tool EXCEPT ![t] = "compacting"]
               /\ toolHeld' = [toolHeld EXCEPT ![t] = full]
               /\ UNCHANGED <<pending, full, generations>>
        BY <1>0, <2>1, <2>3 DEF TypeOK, HistoryTypes
    <2> QED BY <1>1, <2>2, <2>3 DEF ToolCompletes
<1>2. CASE ToolCompacted(t)
    <2>1. HistoryTypes'
        BY <1>0, <1>2 DEF ToolCompacted, WriteBack, TypeOK, HistoryTypes
    <2>2. /\ StoreTypes' /\ GenerationTypes'
          /\ tool' \in [ToolCall -> {"unused", "running", "compacting", "over"}]
        BY <1>0, <1>2, SettlingKeepsTypes DEF ToolCompacted
    <2>3. toolHeld' \in [ToolCall -> SUBSET Messages]
        BY <1>2 DEF ToolCompacted, TypeOK
    <2> QED BY <2>1, <2>2, <2>3 DEF TypeOK, StoreTypes, GenerationTypes, HistoryTypes, Place
<1>3. CASE ToolFails(t)
    <2>1. HistoryTypes' /\ UNCHANGED toolHeld
        BY <1>3 DEF ToolFails, TypeOK, HistoryTypes
    <2>2. /\ StoreTypes' /\ GenerationTypes'
          /\ tool' \in [ToolCall -> {"unused", "running", "compacting", "over"}]
        BY <1>0, <1>3, SettlingKeepsTypes DEF ToolFails
    <2> QED BY <2>1, <2>2 DEF TypeOK, StoreTypes, GenerationTypes, HistoryTypes, Place
<1>4. CASE MarkGenerationComplete(t)
    <2>1. HistoryTypes' /\ UNCHANGED toolHeld
        BY <1>4 DEF MarkGenerationComplete, TypeOK, HistoryTypes
    <2>2. CASE \E g \in Generation :
                  /\ t \in group[g] /\ tool' = [tool EXCEPT ![t] = "over"]
                  /\ ChainEnds(g, full)
        <3>1. StoreTypes' /\ GenerationTypes'
            BY <1>0, <2>2, ChainEndKeepsTypes
        <3> QED BY <2>1, <2>2, <3>1
                DEF TypeOK, StoreTypes, GenerationTypes, HistoryTypes, Place
    <2>3. CASE \E g \in Generation :
                  /\ t \in group[g] /\ group[g] # {t}
                  /\ tool' = [tool EXCEPT ![t] = "over"]
                  /\ group' = [group EXCEPT ![g] = @ \ {t}]
                  /\ marked' = [marked EXCEPT ![g] = TRUE]
                  /\ UNCHANGED <<pending, full, promise, pc, held>>
        <3>1. PICK g \in Generation :
                  /\ t \in group[g] /\ group[g] # {t}
                  /\ group' = [group EXCEPT ![g] = @ \ {t}]
                  /\ marked' = [marked EXCEPT ![g] = TRUE]
            BY <2>3
        <3>2. group[g] \ {t} # {} /\ group[g] \ {t} \subseteq ToolCall /\ pc[g] = "tools"
            BY <3>1 DEF TypeOK
        <3> QED BY <2>1, <2>3, <3>1, <3>2 DEF TypeOK, HistoryTypes
    <2>4. CASE \E g \in Generation :
                  /\ marked' = [marked EXCEPT ![g] = TRUE]
                  /\ \E S \in NextTools : NextGroup(g, t, S)
                  /\ UNCHANGED <<pending, full, promise, held>>
        <3>1. PICK g \in Generation, S \in NextTools :
                  marked' = [marked EXCEPT ![g] = TRUE] /\ NextGroup(g, t, S)
            BY <2>4
        <3>2. marked' \in [Generation -> BOOLEAN] /\ UNCHANGED <<promise, held>>
            BY <2>4, <3>1 DEF TypeOK
        <3>3. GenerationTypes' /\ ToolTypes'
            BY <2>1, <3>1, <3>2, NextGroupKeepsTypes
        <3> QED BY <2>1, <2>4, <3>3 DEF TypeOK, GenerationTypes, ToolTypes, HistoryTypes, Place
    <2>5. CASE /\ tool' = [tool EXCEPT ![t] = "over"]
               /\ UNCHANGED <<pending, full, generations>>
        BY <2>1, <2>5 DEF TypeOK, HistoryTypes
    <2> QED BY <1>4, <2>2, <2>3, <2>4, <2>5 DEF MarkGenerationComplete
<1> QED BY <1>1, <1>2, <1>3, <1>4 DEF ToolStep

(* Every variable keeps its type, and a generation waits for tool calls exactly    *)
(* while it has some, for any messages, tool calls and generations.               *)
THEOREM TypeCorrect == Spec => []TypeOK
<1>1. Init => TypeOK
    <2>1. 0 \in 0..MaxGenerations /\ 0 \in 0..MaxEvictions
        BY AgenticAssumption
    <2>2. Init => \A g \in Generation : pc[g] = "tools" <=> group[g] # {}
        BY DEF Init
    <2> QED BY <2>1, <2>2 DEF Init, TypeOK
<1>2. TypeOK /\ [Next]_vars => TypeOK'
    <2> SUFFICES ASSUME TypeOK, [Next]_vars PROVE TypeOK'
        OBVIOUS
    <2>1. CASE UNCHANGED vars
        BY <2>1 DEF vars, persisted, generations, tools, history, TypeOK
    <2> QED BY <2>1, CommandKeepsTypes, GenerationStepKeepsTypes, ToolStepKeepsTypes DEF Next
<1> QED BY <1>1, <1>2, PTL DEF Spec

--------------------------------------------------------------------------------
(* What is queued or in the history F a step goes on with stays in one of them.  *)
LEMMA ChainEndKeepsMessages ==
    ASSUME NEW g, NEW F, ChainEnds(g, F)
    PROVE  F \union pending \subseteq full' \union pending'
BY DEF ChainEnds, IterationEnds, NextIteration

LEMMA SettlingKeepsMessages ==
    ASSUME NEW t, NEW F, NEW aborts, ToolSettles(t, F, aborts)
    PROVE  F \union pending \subseteq full' \union pending'
<1>1. CASE \E g \in Generation : ChainEnds(g, F)
    BY <1>1, ChainEndKeepsMessages
<1>2. CASE full' = F /\ UNCHANGED pending
    BY <1>2
<1> QED BY <1>1, <1>2 DEF ToolSettles, GroupGoesOn, generations

LEMMA GenerationStepKeepsMessages ==
    ASSUME TypeOK, MessageKept, NEW g \in Generation, Step(g)
    PROVE  MessageKept'
<1> USE DEF MessageKept, WriteBack, history, persisted, tools, generations
<1>1. CASE TemplateLoaded(g) \/ TemplateUnavailable(g) \/ InferenceThrows(g) \/ GenerationEnds(g)
    BY <1>1 DEF TemplateLoaded, NextIteration, TemplateUnavailable, InferenceThrows, GenerationEnds
<1>2. CASE Responds(g)
    BY <1>2, ChainEndKeepsMessages DEF Responds
<1>3. CASE MessageCompacted(g)
    BY <1>3, ChainEndKeepsMessages DEF MessageCompacted
<1>4. CASE HistoryCompacted(g)
    BY <1>4 DEF HistoryCompacted, IterationEnds, NextIteration
<1> QED BY <1>1, <1>2, <1>3, <1>4 DEF Step

LEMMA ToolStepKeepsMessages ==
    ASSUME TypeOK, MessageKept, NEW t \in ToolCall, ToolStep(t)
    PROVE  MessageKept'
<1> USE DEF MessageKept, WriteBack, history, generations
<1>1. CASE ToolCompletes(t)
    BY <1>1, SettlingKeepsMessages DEF ToolCompletes
<1>2. CASE ToolCompacted(t)
    BY <1>2, SettlingKeepsMessages DEF ToolCompacted
<1>3. CASE ToolFails(t)
    BY <1>3, SettlingKeepsMessages DEF ToolFails
<1>4. CASE MarkGenerationComplete(t)
    BY <1>4, ChainEndKeepsMessages DEF MarkGenerationComplete
<1> QED BY <1>1, <1>2, <1>3, <1>4 DEF ToolStep

(* No user message disappears between queue and history: only a clearing takes it *)
(* out, or a compaction that writes back what it read before the message came.    *)
THEOREM MessageKeptCorrect == Spec => []MessageKept
<1>1. Init => MessageKept
    BY DEF Init, MessageKept
<1>2. TypeOK /\ MessageKept /\ [Next]_vars => MessageKept'
    <2> SUFFICES ASSUME TypeOK, MessageKept, [Next]_vars PROVE MessageKept'
        OBVIOUS
    <2> USE DEF MessageKept, persisted, history
    <2>1. CASE GenerationCommand \/ ClearConversation \/ Evicted \/ UNCHANGED vars
        BY <2>1 DEF GenerationCommand, ClearConversation, Evicted, vars
    <2>2. CASE \E m \in Messages : UserMessage(m)
        BY <2>2 DEF UserMessage
    <2> QED BY <2>1, <2>2, GenerationStepKeepsMessages, ToolStepKeepsMessages DEF Next
<1> QED BY <1>1, <1>2, TypeCorrect, PTL DEF Spec

--------------------------------------------------------------------------------
(* While a promise is there some generation works, or one that starts will find   *)
(* something to do. Until the project is marked complete no generation ends by     *)
(* itself, so one works while a tool call runs that may mark it.                  *)
Works(g) == pc[g] \in {"inferring", "message", "tools", "compacting"}
SomeWorks == \E g \in Generation : Works(g)
Starts == (~mvp \/ pending # {}) /\ \E g \in Generation : pc[g] = "template"

Awake == promise # 0 => SomeWorks \/ Starts
NoneEnds == ~mvp => \A g \in Generation : pc[g] # "ending"
MarkersServe == ~mvp /\ (\E t \in ToolCall : tool[t] = "running") => SomeWorks
WakeupInv == interrupted \/ (Awake /\ NoneEnds /\ MarkersServe)

(* At the end of a chain there is no promise any more, or a compaction goes on. *)
LEMMA ChainEndWakes ==
    ASSUME TypeOK, NoneEnds, NEW g \in Generation, NEW F, ChainEnds(g, F), mvp => mvp'
    PROVE  Awake' /\ NoneEnds' /\ MarkersServe'
<1>1. pc' = [pc EXCEPT ![g] = pc'[g]]
    BY DEF ChainEnds, IterationEnds, NextIteration, TypeOK
<1>2. CASE promise' = 0 /\ mvp' /\ pc'[g] = "ending"
    BY <1>1, <1>2 DEF Awake, NoneEnds, MarkersServe
<1>3. CASE Works(g)'
    <2>1. SomeWorks'
        BY <1>3 DEF SomeWorks
    <2>2. NoneEnds'
        BY <1>1, <1>3 DEF NoneEnds, Works, TypeOK
    <2> QED BY <2>1, <2>2 DEF Awake, MarkersServe
<1> QED BY <1>2, <1>3 DEF ChainEnds, IterationEnds, NextIteration, TypeOK, Works

(* A generation that goes on working serves everybody. *)
LEMMA WorkingWakes ==
    ASSUME NoneEnds, mvp => mvp', NEW g \in Generation, Works(g)',
           \A i \in Generation \ {g} : pc'[i] = pc[i]
    PROVE  Awake' /\ NoneEnds' /\ MarkersServe'
<1>1. SomeWorks'
    BY DEF SomeWorks
<1>2. NoneEnds'
    BY DEF NoneEnds, Works
<1> QED BY <1>1, <1>2 DEF Awake, MarkersServe

LEMMA SettlingWakes ==
    ASSUME TypeOK, Awake, NoneEnds, MarkersServe, UNCHANGED mvp,
           NEW t \in ToolCall, tool[t] # "unused", NEW F, NEW aborts, ToolSettles(t, F, aborts)
    PROVE  Awake' /\ NoneEnds' /\ MarkersServe'
<1>1. CASE \E g \in Generation : ChainEnds(g, F)
    BY <1>1, ChainEndWakes
<1>2. CASE \E g \in Generation : t \in group[g] /\ GroupGoesOn(g, t, F)
    <2>1. PICK g \in Generation : t \in group[g] /\ GroupGoesOn(g, t, F)
        BY <1>2
    <2>2. CASE Works(g)' /\ \A i \in Generation \ {g} : pc'[i] = pc[i]
        BY <2>2, WorkingWakes
    <2>3. pc[g] = "tools"
        BY <2>1 DEF TypeOK
    <2> QED BY <1>1, <2>1, <2>2, <2>3 DEF GroupGoesOn, NextGroup, TypeOK, Works
<1>3. CASE tool' = [tool EXCEPT ![t] = "over"] /\ UNCHANGED <<pending, generations>>
    BY <1>3 DEF generations, Awake, NoneEnds, MarkersServe, SomeWorks, Starts, Works, TypeOK
<1> QED BY <1>1, <1>2, <1>3 DEF ToolSettles

(* What stays as it was, but for more messages in the queue and fewer running      *)
(* tool calls, wakes whom it woke.                                                *)
LEMMA StoppingWakes ==
    ASSUME TypeOK, Awake, NoneEnds, MarkersServe, UNCHANGED <<mvp, pc, promise>>,
           pending \subseteq pending',
           \A t \in ToolCall : tool'[t] = "running" => tool[t] = "running"
    PROVE  Awake' /\ NoneEnds' /\ MarkersServe'
BY DEF Awake, NoneEnds, MarkersServe, SomeWorks, Starts, Works

LEMMA CommandWakes ==
    ASSUME TypeOK, Awake, NoneEnds, MarkersServe,
           GenerationCommand \/ \E m \in Messages : UserMessage(m)
    PROVE  Awake' /\ NoneEnds' /\ MarkersServe'
<1>1. UNCHANGED <<mvp, tools>> /\ pending \subseteq pending' /\ GenerateAllFiles
    BY DEF GenerationCommand, UserMessage, persisted
<1>2. CASE UNCHANGED <<promise, pc>>
    BY <1>1, <1>2, StoppingWakes DEF tools
<1>3. CASE /\ ~(mvp /\ pending' = {})
           /\ \E g \in Generation :
                 pc[g] = "none" /\ promise' = g /\ pc' = [pc EXCEPT ![g] = "template"]
    <2>1. PICK g \in Generation : pc[g] = "none" /\ pc' = [pc EXCEPT ![g] = "template"]
        BY <1>3
    <2>2. Starts'
        BY <1>1, <1>3, <2>1 DEF Starts, TypeOK
    <2>3. SomeWorks => SomeWorks'
        BY <2>1 DEF SomeWorks, Works, TypeOK
    <2>4. NoneEnds'
        BY <1>1, <2>1 DEF NoneEnds, TypeOK
    <2> QED BY <1>1, <2>2, <2>3, <2>4 DEF Awake, MarkersServe, tools
<1> QED BY <1>1, <1>2, <1>3 DEF GenerateAllFiles

LEMMA GenerationStepWakes ==
    ASSUME TypeOK, Awake, NoneEnds, MarkersServe, ~interrupted', NEW g \in Generation, Step(g)
    PROVE  Awake' /\ NoneEnds' /\ MarkersServe'
<1>1. CASE TemplateLoaded(g)
    <2>1. CASE pc' = [pc EXCEPT ![g] = "inferring"]
        <3>1. Works(g)' /\ \A i \in Generation \ {g} : pc'[i] = pc[i]
            BY <2>1 DEF Works, TypeOK
        <3> QED BY <1>1, <3>1, WorkingWakes DEF TemplateLoaded
    <2>2. CASE mvp /\ pending = {} /\ pc' = [pc EXCEPT ![g] = "ending"]
        <3>1. SomeWorks => SomeWorks'
            BY <1>1, <2>2 DEF TemplateLoaded, SomeWorks, Works, TypeOK
        <3>2. promise' = promise /\ mvp' = mvp
            BY <1>1 DEF TemplateLoaded
        <3> QED BY <2>2, <3>1, <3>2 DEF Awake, Starts, NoneEnds, MarkersServe
    <2> QED BY <1>1, <2>1, <2>2 DEF TemplateLoaded, NextIteration
<1>2. CASE Responds(g) \/ MessageCompacted(g)
    <2>1. CASE \E F : ChainEnds(g, F)
        BY <1>2, <2>1, ChainEndWakes DEF Responds, MessageCompacted
    <2>2. CASE StartTools(g) \/ pc' = [pc EXCEPT ![g] = "message"]
        <3>1. Works(g)' /\ \A i \in Generation \ {g} : pc'[i] = pc[i]
            BY <2>2 DEF StartTools, Works, TypeOK
        <3> QED BY <1>2, <3>1, WorkingWakes DEF Responds, MessageCompacted
    <2> QED BY <1>2, <2>1, <2>2 DEF Responds, MessageCompacted
<1>3. CASE HistoryCompacted(g)
    <2>1. ChainEnds(g, held[g]) /\ mvp' = mvp
        BY <1>3 DEF HistoryCompacted, ChainEnds
    <2> QED BY <2>1, ChainEndWakes
<1>4. CASE GenerationEnds(g)
    <2>1. mvp /\ mvp' /\ promise' = 0
        BY <1>4 DEF GenerationEnds, NoneEnds, persisted
    <2> QED BY <2>1 DEF Awake, NoneEnds, MarkersServe
<1>5. ~TemplateUnavailable(g) /\ ~InferenceThrows(g)
    BY DEF TemplateUnavailable, InferenceThrows
<1> QED BY <1>1, <1>2, <1>3, <1>4, <1>5 DEF Step

LEMMA ToolStepWakes ==
    ASSUME TypeOK, Awake, NoneEnds, MarkersServe, NEW t \in ToolCall, ToolStep(t)
    PROVE  Awake' /\ NoneEnds' /\ MarkersServe'
<1>1. CASE \E F, aborts : ToolSettles(t, F, aborts) /\ UNCHANGED mvp /\ tool[t] # "unused"
    BY <1>1, SettlingWakes
<1>2. CASE ToolCompletes(t) /\ tool' = [tool EXCEPT ![t] = "compacting"]
                           /\ UNCHANGED <<pending, full, generations, mvp>>
    BY <1>2, StoppingWakes DEF generations, TypeOK
<1>3. CASE MarkGenerationComplete(t)
    <2>1. CASE \E g \in Generation : ChainEnds(g, full)
        BY <1>3, <2>1, ChainEndWakes DEF MarkGenerationComplete
    <2>2. CASE \E g \in Generation :
                  /\ t \in group[g]
                  /\ UNCHANGED pc \/ \E S \in NextTools : NextGroup(g, t, S)
        <3>1. PICK g \in Generation :
                  /\ t \in group[g]
                  /\ UNCHANGED pc \/ \E S \in NextTools : NextGroup(g, t, S)
            BY <2>2
        <3>2. Works(g)' /\ \A i \in Generation \ {g} : pc'[i] = pc[i]
            BY <3>1 DEF NextGroup, Works, TypeOK
        <3> QED BY <1>3, <3>2, WorkingWakes DEF MarkGenerationComplete
    <2>3. CASE UNCHANGED <<pending, full, generations>>
        <3>1. tool[t] = "running" /\ mvp'
            BY <1>3 DEF MarkGenerationComplete
        <3>2. promise # 0 => SomeWorks \/ (pending # {} /\ Starts)
            BY <3>1 DEF Awake, MarkersServe, Starts
        <3>3. Awake'
            BY <2>3, <3>2 DEF Awake, SomeWorks, Starts, Works, generations
        <3> QED BY <3>1, <3>3 DEF NoneEnds, MarkersServe
    <2> QED BY <1>3, <2>1, <2>2, <2>3 DEF MarkGenerationComplete
<1> QED BY <1>1, <1>2, <1>3 DEF ToolStep, ToolCompletes, ToolCompacted, ToolFails

(* A queued message finds somebody awake: as long as a promise keeps users from    *)
(* starting a generation, one has yet to look at the queue.                       *)
THEOREM WakeupKeptCorrect == Spec => []WakeupKept
<1>1. Init => WakeupInv
    BY DEF Init, WakeupInv, Awake, NoneEnds, MarkersServe
<1>2. TypeOK /\ WakeupInv /\ [Next]_vars => WakeupInv'
    <2> SUFFICES ASSUME TypeOK, WakeupInv, [Next]_vars PROVE WakeupInv'
        OBVIOUS
    <2>1. CASE interrupted
        <3>1. interrupted'
            BY <2>1 DEF Next, vars, history, GenerationCommand, UserMessage, ClearConversation,
                        Evicted, Step, TemplateLoaded, TemplateUnavailable, Responds,
                        MessageCompacted, InferenceThrows, HistoryCompacted, GenerationEnds,
                        ToolStep, ToolCompletes, ToolCompacted, ToolFails, MarkGenerationComplete
        <3> QED BY <3>1 DEF WakeupInv
    <2>2. CASE interrupted'
        BY <2>2 DEF WakeupInv
    <2>3. CASE Awake /\ NoneEnds /\ MarkersServe /\ ~interrupted'
        <3>1. CASE ClearConversation \/ UNCHANGED vars
            BY <2>3, <3>1, StoppingWakes
               DEF WakeupInv, ClearConversation, vars, persisted, generations, tools
        <3>2. ~Evicted
            BY <2>3 DEF Evicted
        <3> QED BY <2>3, <3>1, <3>2, CommandWakes, GenerationStepWakes, ToolStepWakes
                DEF Next, WakeupInv
    <2> QED BY <2>1, <2>2, <2>3 DEF WakeupInv
<1>3. WakeupInv => WakeupKept
    BY DEF WakeupInv, WakeupKept, Awake, SomeWorks, Starts, Works, InFlight
<1> QED BY <1>1, <1>2, <1>3, TypeCorrect, PTL DEF Spec
================================================================================
