----------------------------- MODULE ToolExecution -----------------------------
(* The tool calls of one answer of the model: buildExecutionPlan sorts them into  *)
(* groups by the resources they claim, executeToolCallsWithDependencies runs the  *)
(* groups one after the other and the calls of a group side by side.              *)
(*                                                                                *)
(* A call is its place in the answer. Its arguments are the claims each of them   *)
(* makes, merged into the claim of the call. What the calls do to the files is    *)
(* kept as history: the last writer of a path, and what each call found.          *)
(* An operator named Mut... is the operator after it with a plausible mistake.    *)
EXTENDS Naturals, Sequences, FiniteSets

CONSTANTS
    NumCalls,       \* calls in the answer
    Path,           \* paths of files
    Signatures      \* the claims of the arguments a call can have

Resources ==
    [files : {"none", "read", "write"}, paths : SUBSET Path,
     sandbox : {"none", "exec", "analysis", "deploy", "read"},
     blueprint : BOOLEAN, gitCommit : BOOLEAN]

(* "last one wins, they should be the same for same tool" *)
OneSandbox(signature) ==
    \A i, j \in DOMAIN signature :
        \/ signature[i].sandbox = signature[j].sandbox
        \/ "none" \in {signature[i].sandbox, signature[j].sandbox}

ASSUME ToolAssumption ==
    /\ NumCalls \in Nat \ {0}
    /\ Signatures \subseteq Seq(Resources)
    /\ \A s \in Signatures : OneSandbox(s)

Call == 1..NumCalls

VARIABLES
    arguments,      \* of the calls
    known,          \* the calls whose tool has a definition
    group,          \* the group of a call, 0 before it has one
    groups,         \* groups planned
    stage,          \* of the batch
    current,        \* the group that runs, the last one started
    status,         \* of the calls
    content,        \* the last call that wrote a path, 0 for none
    found,          \* what the paths held when a call started
    wrote           \* the calls that have written

plan == <<group, groups>>
files == <<content, found, wrote>>
vars == <<arguments, known, group, groups, stage, current, status, content, found, wrote>>

TypeOK ==
    /\ arguments \in [Call -> Signatures]
    /\ known \in SUBSET Call
    /\ group \in [Call -> 0..NumCalls]
    /\ groups \in 0..NumCalls
    /\ stage \in {"planning", "running", "returned", "rejected"}
    /\ current \in 0..NumCalls
    /\ status \in [Call -> {"waiting", "running", "done", "aborted", "unknown"}]
    /\ content \in [Path -> 0..NumCalls]
    /\ found \in [Call -> [Path -> 0..NumCalls]]
    /\ wrote \in SUBSET Call

--------------------------------------------------------------------------------
(* Resources. A claim on files without paths is one on all files.                 *)
NoResources ==
    [files |-> "none", paths |-> {}, sandbox |-> "none",
     blueprint |-> FALSE, gitCommit |-> FALSE]

MergeResources(target, source) ==
    [files |-> CASE source.files = "none" -> target.files
                 [] target.files = "none" -> source.files
                 [] OTHER -> IF source.files = "write" THEN "write" ELSE target.files,
     paths |-> CASE source.files = "none" -> target.paths
                 [] target.files = "none" -> source.paths
                 [] OTHER -> IF target.paths = {} \/ source.paths = {}
                             THEN {} ELSE target.paths \union source.paths,
     sandbox |-> IF source.sandbox = "none" THEN target.sandbox ELSE source.sandbox,
     blueprint |-> target.blueprint \/ source.blueprint,
     gitCommit |-> target.gitCommit \/ source.gitCommit]

(* The claims of the first arguments of a call, merged one after the other.       *)
Merged(signature) ==
    LET merged[n \in 0..Len(signature)] ==
            IF n = 0 THEN NoResources ELSE MergeResources(merged[n - 1], signature[n])
    IN merged

ExtractResources(signature) == Merged(signature)[Len(signature)]

PathsOverlap(paths1, paths2) ==
    paths1 = {} \/ paths2 = {} \/ paths1 \intersect paths2 # {}

Exclusive == {"exec", "analysis", "deploy"}

HasResourceConflict(r1, r2) ==
    \/ /\ r1.files # "none" /\ r2.files # "none"
       /\ "write" \in {r1.files, r2.files}
       /\ PathsOverlap(r1.paths, r2.paths)
    \/ /\ r1.sandbox # "none" /\ r2.sandbox # "none"
       /\ {r1.sandbox, r2.sandbox} \intersect Exclusive # {}
    \/ r1.blueprint /\ r2.blueprint
    \/ r1.gitCommit /\ r2.files = "write"
    \/ r2.gitCommit /\ r1.files = "write"

(* What the arguments of a call let it do to a path. *)
Touches(signature, path, mode) ==
    \E i \in DOMAIN signature :
        signature[i].files = mode /\ (signature[i].paths = {} \/ path \in signature[i].paths)

(* The merged claim of a call conflicts wherever one of its arguments would.      *)
ClaimsCover ==
    \A s1, s2 \in Signatures, p \in Path :
        (Touches(s1, p, "write") /\ (Touches(s2, p, "read") \/ Touches(s2, p, "write")))
            => HasResourceConflict(ExtractResources(s1), ExtractResources(s2))

Reads(c, path) == Touches(arguments[c], path, "read")
Writes(c, path) == Touches(arguments[c], path, "write")

--------------------------------------------------------------------------------
Init ==
    /\ arguments \in [Call -> Signatures]
    /\ known \in SUBSET Call
    /\ group = [c \in Call |-> 0]
    /\ groups = 0
    /\ stage = "planning"
    /\ current = 0
    /\ status = [c \in Call |-> "waiting"]
    /\ content = [p \in Path |-> 0]
    /\ found = [c \in Call |-> [p \in Path |-> 0]]
    /\ wrote = {}

Conflicting(c, d) ==
    HasResourceConflict(ExtractResources(arguments[c]), ExtractResources(arguments[d]))

(* The dependency graph: a call waits for the earlier ones it conflicts with. A   *)
(* call without a definition has no resources.                                    *)
MutDependsOn(c) == {d \in known : c < d /\ c \in known /\ Conflicting(c, d)}

DependsOn(c) == {d \in known : d < c /\ c \in known /\ Conflicting(c, d)}

Unplanned == {c \in Call : group[c] = 0}

MutReady == {c \in Unplanned : \A d \in Unplanned : c <= d}

Ready == {c \in Unplanned : DependsOn(c) \intersect Unplanned = {}}

(* "Circular dependency detected, falling back to sequential" *)
FirstUnplanned == {c \in Unplanned : \A d \in Unplanned : c <= d}

(* A round of the topological sort. *)
MutPlanGroup ==
    /\ stage = "planning"
    /\ group' = [c \in Call |-> IF c \in Ready THEN groups + 1 ELSE group[c]]
    /\ groups' = groups + 1
    /\ UNCHANGED <<arguments, known, stage, current, status, files>>

PlanGroup ==
    /\ stage = "planning" /\ Unplanned # {}
    /\ LET next == IF Ready = {} THEN FirstUnplanned ELSE Ready
       IN group' = [c \in Call |-> IF c \in next THEN groups + 1 ELSE group[c]]
    /\ groups' = groups + 1
    /\ UNCHANGED <<arguments, known, stage, current, status, files>>

MutGroupDone ==
    current > 0 => \E c \in Call : group[c] = current /\ status[c] = "done"

GroupDone == \A c \in Call : group[c] = current => status[c] = "done"

(* Promise.all over the next group. A call without a definition throws at once,   *)
(* which rejects the batch while the rest of the group runs.                      *)
StartGroup ==
    /\ stage \in {"planning", "running"} /\ Unplanned = {}
    /\ GroupDone /\ current < groups
    /\ current' = current + 1
    /\ LET started == {c \in Call : group[c] = current + 1}
       IN /\ stage' = IF started \subseteq known THEN "running" ELSE "rejected"
          /\ status' = [c \in Call |-> CASE c \in started \intersect known -> "running"
                                         [] c \in started \ known -> "unknown"
                                         [] OTHER -> status[c]]
          /\ found' = [c \in Call |-> IF c \in started \intersect known THEN content ELSE found[c]]
    /\ UNCHANGED <<arguments, known, plan, content, wrote>>

Written(c) ==
    /\ wrote' = wrote \union {c}
    /\ content' = [p \in Path |-> IF Writes(c, p) THEN c ELSE content[p]]
    /\ UNCHANGED found

(* executeSingleTool: the tool returns, or fails, which is a result as well: its  *)
(* hook or its implementation threw, before it had written or after.              *)
ToolReturns(c) ==
    /\ status[c] = "running"
    /\ status' = [status EXCEPT ![c] = "done"]
    /\ Written(c)
    /\ UNCHANGED <<arguments, known, plan, stage, current>>

ToolFails(c) ==
    /\ status[c] = "running"
    /\ status' = [status EXCEPT ![c] = "done"]
    /\ Written(c) \/ UNCHANGED files
    /\ UNCHANGED <<arguments, known, plan, stage, current>>

(* Only an abort is passed on: the batch is rejected, nothing stops the others.   *)
ToolAborts(c) ==
    /\ status[c] = "running"
    /\ status' = [status EXCEPT ![c] = "aborted"]
    /\ stage' = "rejected"
    /\ Written(c) \/ UNCHANGED files
    /\ UNCHANGED <<arguments, known, plan, current>>

MutReturnResults ==
    /\ stage = "running"
    /\ GroupDone /\ current > groups
    /\ stage' = "returned"
    /\ UNCHANGED <<arguments, known, plan, current, status, files>>

ReturnResults ==
    /\ stage = "running"
    /\ GroupDone /\ current = groups
    /\ stage' = "returned"
    /\ UNCHANGED <<arguments, known, plan, current, status, files>>

Next ==
    \/ PlanGroup \/ StartGroup \/ ReturnResults
    \/ \E c \in Call : ToolReturns(c) \/ ToolFails(c) \/ ToolAborts(c)

Spec == Init /\ [][Next]_vars

(* The plan is synchronous code, promises resume, and a tool returns or fails:    *)
(* each has a timeout of its own. No tool has to abort.                           *)
Fairness ==
    /\ WF_vars(PlanGroup) /\ WF_vars(StartGroup) /\ WF_vars(ReturnResults)
    /\ \A c \in Call : WF_vars(ToolReturns(c) \/ ToolFails(c))

FairSpec == Spec /\ Fairness

--------------------------------------------------------------------------------
(* Calls that conflict run in the order the model gave them: a call is started    *)
(* only when every earlier one it conflicts with has a result, whichever calls    *)
(* fail, abort or have no definition.                                             *)
ProgramOrder ==
    \A c, d \in known :
        (d < c /\ Conflicting(c, d) /\ status[c] # "waiting") => status[d] = "done"

(* The files look to every call as if the calls had run one by one: what a call   *)
(* finds in a path it reads or writes is what the last earlier writer left there. *)
(* The claims are those of the single arguments, before they are merged.          *)
AsIfSequential ==
    \A c \in Call, p \in Path :
        (status[c] \notin {"waiting", "unknown"} /\ (Reads(c, p) \/ Writes(c, p)))
            => LET writers == {d \in wrote : d < c /\ Writes(d, p)}
               IN IF writers = {} THEN found[c][p] = 0
                  ELSE found[c][p] \in writers /\ \A d \in writers : d <= found[c][p]

(* "Independent tools: Execute in parallel": a call is in a later group only      *)
(* behind a conflicting call of the group before it.                              *)
NoNeedlessWait ==
    \A c \in Call :
        group[c] > 1 => \E d \in DependsOn(c) : group[d] = group[c] - 1

(* The sort never falls back to the sequential order.                             *)
NeverCircular == Unplanned # {} => Ready # {}

(* A batch that is neither returned nor rejected never hangs: it plans on, or a   *)
(* call of its runs, or the group is done and the next or the return is due.      *)
NotStuck ==
    stage \in {"planning", "running"} =>
        \/ stage = "planning" /\ Unplanned # {}
        \/ \E c \in Call : status[c] = "running"
        \/ /\ Unplanned = {} /\ GroupDone
           /\ current < groups \/ (stage = "running" /\ current = groups)

(* A batch is returned or rejected.                                               *)
BatchSettles == stage = "planning" ~> stage \in {"returned", "rejected"}
================================================================================
