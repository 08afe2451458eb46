-------------------------- MODULE Deployment_proofs --------------------------
(***************************************************************************)
(* What holds of Deployment for every set of callers and files, every      *)
(* maxAttemptsBeforeSessionReset, with and without setup commands, and for *)
(* any number of faults, late callers and evictions.                       *)
(***************************************************************************)
EXTENDS Deployment, SequenceTheorems, TLAPS

-----------------------------------------------------------------------------
\* Types

\* A deploy() under way knows a sandbox there is and a loop there is.
TasksPlaced ==
    \A t \in DOMAIN tasks :
        /\ tasks[t].instance <= Len(sandboxes)
        /\ tasks[t].pc # "settled" => tasks[t].loop \in DOMAIN loops

TypeInv == TypeOK /\ TasksPlaced

\* What the steps that change one element of a sequence have in common.
LEMMA ElementReplaced ==
    ASSUME NEW S, NEW s \in Seq(S), NEW i \in DOMAIN s, NEW e \in S
    PROVE  LET r == [s EXCEPT ![i] = e]
           IN  /\ r \in Seq(S)
               /\ Len(s) \in Nat /\ Len(r) = Len(s)
               /\ DOMAIN s = 1..Len(s) /\ DOMAIN r = DOMAIN s
               /\ \A j \in DOMAIN s : r[j] = IF j = i THEN e ELSE s[j]
<1> DEFINE r == [s EXCEPT ![i] = e]
<1>1. Len(s) \in Nat /\ DOMAIN s = 1..Len(s)
  BY LenProperties
<1>2. /\ r \in Seq(S) /\ Len(r) = Len(s)
      /\ \A j \in 1..Len(s) : r[j] = IF j = i THEN e ELSE s[j]
  BY <1>1, ExceptSeq
<1> HIDE DEF r
<1>3. DOMAIN r = 1..Len(s)
  BY <1>2, LenProperties
<1>4. QED
  BY <1>1, <1>2, <1>3 DEF r

LEMMA ElementAppended ==
    ASSUME NEW S, NEW s \in Seq(S), NEW e \in S
    PROVE  LET r == Append(s, e)
           IN  /\ r \in Seq(S)
               /\ Len(s) \in Nat /\ Len(r) = Len(s) + 1
               /\ DOMAIN s = 1..Len(s) /\ DOMAIN r = 1..(Len(s) + 1)
               /\ \A j \in DOMAIN s : r[j] = s[j]
               /\ r[Len(s) + 1] = e
<1> DEFINE r == Append(s, e)
<1>1. Len(s) \in Nat /\ DOMAIN s = 1..Len(s)
  BY LenProperties
<1>2. /\ r \in Seq(S) /\ Len(r) = Len(s) + 1
      /\ \A j \in 1..Len(s) : r[j] = s[j]
      /\ r[Len(s) + 1] = e
  BY <1>1, AppendProperties
<1> HIDE DEF r
<1>3. DOMAIN r = 1..(Len(s) + 1)
  BY <1>2, LenProperties
<1>4. QED
  BY <1>1, <1>2, <1>3 DEF r

\* The elements of the three sequences, and the places of the elements.
LEMMA TypedElements ==
    ASSUME TypeInv
    PROVE  /\ Len(loops) \in Nat /\ DOMAIN loops = 1..Len(loops)
           /\ Len(tasks) \in Nat /\ DOMAIN tasks = 1..Len(tasks)
           /\ Len(sandboxes) \in Nat /\ DOMAIN sandboxes = 1..Len(sandboxes)
           /\ \A l \in DOMAIN loops : loops[l] \in Loop
           /\ \A t \in DOMAIN tasks : tasks[t] \in Task
           /\ \A i \in DOMAIN sandboxes : sandboxes[i] \in Sandbox
<1>1. /\ loops \in Seq(Loop) /\ tasks \in Seq(Task)
      /\ sandboxes \in Seq(Sandbox)
  BY DEF TypeInv, TypeOK, Sandbox
<1>2. Len(loops) \in Nat /\ DOMAIN loops = 1..Len(loops)
  BY <1>1, LenProperties
<1>3. Len(tasks) \in Nat /\ DOMAIN tasks = 1..Len(tasks)
  BY <1>1, LenProperties
<1>4. Len(sandboxes) \in Nat /\ DOMAIN sandboxes = 1..Len(sandboxes)
  BY <1>1, LenProperties
<1>5. \A l \in DOMAIN loops : loops[l] \in Loop
  BY <1>1, <1>2, ElementOfSeq
<1>6. \A t \in DOMAIN tasks : tasks[t] \in Task
  BY <1>1, <1>3, ElementOfSeq
<1>7. \A i \in DOMAIN sandboxes : sandboxes[i] \in Sandbox
  BY <1>1, <1>4, ElementOfSeq
<1>8. QED
  BY <1>2, <1>3, <1>4, <1>5, <1>6, <1>7

-----------------------------------------------------------------------------
\* The operators the actions share

\* One loop is replaced by another record of the same owner, files and attempts.
LoopChanged(l) ==
    /\ loops' \in Seq(Loop)
    /\ Len(loops') = Len(loops) /\ DOMAIN loops' = DOMAIN loops
    /\ loops'[l].owner = loops[l].owner
    /\ loops'[l].files = loops[l].files
    /\ loops'[l].sessions = loops[l].sessions
    /\ \A k \in DOMAIN loops : k # l => loops'[k] = loops[k]

LEMMA LoopReturnsEffect ==
    ASSUME TypeInv, DeploymentAssumption,
           NEW l \in DOMAIN loops, NEW i \in Nat, LoopReturns(l, i)
    PROVE  /\ LoopChanged(l)
           /\ loops'[l].pc = "ended" /\ loops'[l].result = i
           /\ calls' \in [Callers -> Call]
           /\ \A c \in Callers : calls'[c] = calls[c] \/ calls'[c].loop = l
           /\ promise' = IF loops[l].owner = None THEN promise ELSE 0
<1> DEFINE new == [loops[l] EXCEPT !.pc = "ended", !.result = i]
<1>1. loops[l] \in Loop /\ loops \in Seq(Loop) /\ l \in Nat
  BY TypedElements DEF TypeInv, TypeOK
<1>2. /\ new \in Loop /\ new.pc = "ended" /\ new.result = i
      /\ new.owner = loops[l].owner /\ new.sessions = loops[l].sessions
      /\ new.files = loops[l].files
  BY <1>1 DEF Loop
<1>3. loops' = [loops EXCEPT ![l] = new]
  BY <1>1 DEF LoopReturns
<1> HIDE DEF new
<1>4. LoopChanged(l) /\ loops'[l].pc = "ended" /\ loops'[l].result = i
  BY <1>1, <1>2, <1>3, ElementReplaced DEF LoopChanged
<1>5. calls' \in [Callers -> Call]
  <2> SUFFICES ASSUME NEW c \in Callers
               PROVE  calls'[c] \in Call /\ calls[c] \in Call
    BY DEF LoopReturns, TypeInv, TypeOK
  <2> QED
    BY <1>1 DEF LoopReturns, TypeInv, TypeOK, Call
<1>6. \A c \in Callers : calls'[c] = calls[c] \/ calls'[c].loop = l
  BY DEF LoopReturns
<1>7. QED
  BY <1>4, <1>5, <1>6 DEF LoopReturns, ClearPromise

LEMMA LoopSucceedsEffect ==
    ASSUME TypeInv, DeploymentAssumption,
           NEW l \in DOMAIN loops, NEW i \in 0..Len(sandboxes),
           NEW redeployed \in BOOLEAN, UNCHANGED session,
           LoopSucceeds(l, i, redeployed)
    PROVE  /\ LoopChanged(l) /\ loops'[l].result = i
           /\ \/ /\ loops'[l].pc = "ended"
                 /\ promise' = IF loops[l].owner = None THEN promise ELSE 0
                 /\ \A c \in Callers :
                       calls'[c] = calls[c] \/ calls'[c].loop = l
              \/ loops'[l].pc = "setup" /\ UNCHANGED <<promise, calls>>
           /\ calls' \in [Callers -> Call]
           /\ client' = client \/ client' = GetClient(client)
           /\ interval' \in 0..Len(sandboxes)
<1>1. /\ loops[l] \in Loop /\ loops \in Seq(Loop) /\ l \in Nat
      /\ Len(sandboxes) \in Nat /\ i \in Nat
      /\ interval \in 0..Len(sandboxes)
  BY TypedElements, SMTT(20) DEF TypeInv, TypeOK
<1>2. CASE LoopReturns(l, i) /\ interval' \in {i, interval}
              /\ client' \in {client, GetClient(client)}
  BY <1>1, <1>2, LoopReturnsEffect
<1>3. CASE /\ interval' = i /\ client' = GetClient(client)
           /\ loops' = [loops EXCEPT ![l].pc = "setup", ![l].result = i]
           /\ UNCHANGED <<promise, calls>>
  <2> DEFINE new == [loops[l] EXCEPT !.pc = "setup", !.result = i]
  <2>1. /\ new \in Loop /\ new.pc = "setup" /\ new.result = i
        /\ new.owner = loops[l].owner /\ new.sessions = loops[l].sessions
        /\ new.files = loops[l].files
    BY <1>1 DEF Loop
  <2>2. loops' = [loops EXCEPT ![l] = new]
    BY <1>1, <1>3
  <2> HIDE DEF new
  <2>3. LoopChanged(l) /\ loops'[l].pc = "setup" /\ loops'[l].result = i
    BY <1>1, <2>1, <2>2, ElementReplaced DEF LoopChanged
  <2>4. QED
    BY <1>3, <2>3 DEF TypeInv, TypeOK
<1>4. QED
  BY <1>2, <1>3 DEF LoopSucceeds

LEMMA LoopFailsEffect ==
    ASSUME TypeInv, DeploymentAssumption,
           NEW l \in DOMAIN loops, NEW sessionLevel \in BOOLEAN,
           LoopFails(l, sessionLevel)
    PROVE  /\ LoopChanged(l) /\ loops'[l].pc = "backoff"
           /\ \/ session' = session + 1 /\ client' = 0
              \/ /\ session' = session /\ client' = client
                 /\ ~AttemptsExhausted(l)
           /\ instance' = 0
<1> DEFINE new == [loops[l] EXCEPT !.pc = "backoff"]
<1>1. loops[l] \in Loop /\ loops \in Seq(Loop)
  BY TypedElements DEF TypeInv, TypeOK
<1>2. /\ new \in Loop /\ new.pc = "backoff"
      /\ new.owner = loops[l].owner /\ new.sessions = loops[l].sessions
      /\ new.files = loops[l].files
  BY <1>1 DEF Loop
<1>3. loops' = [loops EXCEPT ![l] = new]
  BY <1>1 DEF LoopFails
<1> HIDE DEF new
<1>4. LoopChanged(l) /\ loops'[l].pc = "backoff"
  BY <1>1, <1>2, <1>3, ElementReplaced DEF LoopChanged
<1>5. QED
  BY <1>4 DEF LoopFails, ResetSession, CachedClient

\* One deploy() is replaced by another record that is well placed.
TaskChanged(t) ==
    /\ tasks' \in Seq(Task)
    /\ DOMAIN tasks' = DOMAIN tasks
    /\ \A u \in DOMAIN tasks : u # t => tasks'[u] = tasks[u]

LEMMA ContinueEffect ==
    ASSUME TypeInv, session \in Nat, UNCHANGED session,
           NEW t \in DOMAIN tasks,
           NEW pc \in {"status", "creating", "writing"}, NEW i \in Nat,
           NEW redeployed, redeployed \in BOOLEAN,
           NEW files \in SUBSET Files,
           Continue(t, pc, i, redeployed, files)
    PROVE  /\ TaskChanged(t)
           /\ tasks'[t].loop = tasks[t].loop /\ tasks'[t].instance = i
           /\ client' = IF client = 0 THEN session ELSE client
<1> DEFINE new == [pc |-> pc, loop |-> tasks[t].loop, client |-> client',
                   instance |-> i, redeployed |-> redeployed,
                   files |-> files]
<1>1. /\ tasks[t] \in Task /\ tasks \in Seq(Task)
      /\ client' = IF client = 0 THEN session ELSE client
      /\ client' \in Nat
  BY TypedElements DEF TypeInv, TypeOK, Continue, GetClient
<1>2. /\ new \in Task
      /\ new.loop = tasks[t].loop /\ new.instance = i
  BY <1>1 DEF Task
<1>3. tasks' = [tasks EXCEPT ![t] = new]
  BY <1>1 DEF Continue
<1> HIDE DEF new
<1>4. TaskChanged(t) /\ tasks'[t] = new
  BY <1>1, <1>2, <1>3, ElementReplaced DEF TaskChanged
<1>5. QED
  BY <1>1, <1>2, <1>4

LEMMA SettleEffect ==
    ASSUME TypeInv, NEW t \in DOMAIN tasks, Settle(t)
    PROVE  /\ TaskChanged(t)
           /\ tasks'[t].pc = "settled" /\ tasks'[t].instance = 0
<1> DEFINE new == [pc |-> "settled", loop |-> 0, client |-> 0, instance |-> 0,
                   redeployed |-> FALSE, files |-> {}]
<1>1. new \in Task /\ new.pc = "settled" /\ new.instance = 0
  BY DEF Task
<1>2. tasks' = [tasks EXCEPT ![t] = new] /\ tasks \in Seq(Task)
  BY DEF Settle, TypeInv, TypeOK
<1> HIDE DEF new
<1>3. TaskChanged(t) /\ tasks'[t] = new
  BY <1>1, <1>2, ElementReplaced DEF TaskChanged
<1>4. QED
  BY <1>1, <1>3

LEMMA BeginDeployEffect ==
    ASSUME TypeInv, NEW l \in Nat, NEW redeploy \in BOOLEAN,
           saved' \in SUBSET Files, BeginDeploy(l, redeploy)
    PROVE  /\ \/ session' = session + 1 /\ client' = session'
              \/ /\ session' = session
                 /\ client' = IF client = 0 THEN session ELSE client
           /\ instance' \in 0..Len(sandboxes)
           /\ tasks' \in Seq(Task) /\ DOMAIN tasks' = 1..(Len(tasks) + 1)
           /\ Len(tasks') = Len(tasks) + 1
           /\ \A t \in DOMAIN tasks : tasks'[t] = tasks[t]
           /\ tasks'[Len(tasks) + 1].loop = l
           /\ tasks'[Len(tasks) + 1].instance = instance'
           /\ tasks'[Len(tasks) + 1].pc \in {"status", "creating"}
<1> DEFINE new == [pc |-> IF instance' # 0 THEN "status" ELSE "creating",
                   loop |-> l, client |-> client', instance |-> instance',
                   redeployed |-> FALSE,
                   files |-> IF instance' # 0 THEN {} ELSE saved']
<1>1. /\ session \in Nat /\ client \in Nat /\ Len(sandboxes) \in Nat
      /\ instance \in 0..Len(sandboxes) /\ tasks \in Seq(Task)
  BY TypedElements DEF TypeInv, TypeOK
<1>2. /\ \/ session' = session + 1 /\ client' = session'
         \/ /\ session' = session
            /\ client' = IF client = 0 THEN session ELSE client
      /\ instance' \in 0..Len(sandboxes)
  BY <1>1 DEF BeginDeploy, ResetSession, CachedClient, GetClient
<1>3. /\ new \in Task /\ new.loop = l /\ new.instance = instance'
      /\ new.pc \in {"status", "creating"}
  BY <1>1, <1>2 DEF Task
<1>4. tasks' = Append(tasks, new)
  BY DEF BeginDeploy
<1> HIDE DEF new
<1>5. /\ tasks' \in Seq(Task) /\ DOMAIN tasks' = 1..(Len(tasks) + 1)
      /\ Len(tasks') = Len(tasks) + 1
      /\ \A t \in DOMAIN tasks : tasks'[t] = tasks[t]
      /\ tasks'[Len(tasks) + 1] = new
  BY <1>1, <1>3, <1>4, ElementAppended
<1>6. QED
  BY <1>2, <1>3, <1>5

\* deployToSandbox joins the loop there is or starts one.
LEMMA DeployToSandboxEffect ==
    ASSUME TypeInv, NEW c \in Callers, NEW files \in SUBSET Files,
           NEW redeploy \in BOOLEAN, saved' \in SUBSET Files,
           DeployToSandbox(c, files, redeploy)
    PROVE  \/ /\ promise # 0
              /\ calls' = [calls EXCEPT ![c] =
                     [pc |-> "waiting", loop |-> promise]]
              /\ calls' \in [Callers -> Call]
              /\ UNCHANGED <<session, instance, client, promise, loops, tasks>>
           \/ /\ promise = 0 /\ promise' = Len(loops) + 1
              /\ calls' = [calls EXCEPT ![c] =
                     [pc |-> "waiting", loop |-> promise']]
              /\ calls' \in [Callers -> Call]
              /\ BeginDeploy(promise', redeploy)
              /\ loops' \in Seq(Loop) /\ Len(loops') = Len(loops) + 1
              /\ DOMAIN loops' = 1..(Len(loops) + 1)
              /\ \A l \in DOMAIN loops : loops'[l] = loops[l]
              /\ LET new == loops'[Len(loops) + 1]
                 IN  /\ new.pc = "attempt" /\ new.owner = c
                     /\ new.files = files /\ new.sessions = <<client'>>
<1>1. /\ Len(loops) \in Nat /\ promise \in Nat
      /\ calls \in [Callers -> Call] /\ loops \in Seq(Loop)
      /\ session \in Nat /\ client \in Nat /\ Len(tasks) \in Nat
  BY TypedElements DEF TypeInv, TypeOK
<1>2. promise' \in Nat => 
        [calls EXCEPT ![c] = [pc |-> "waiting", loop |-> promise']]
            \in [Callers -> Call]
  BY <1>1 DEF Call
<1>3. CASE promise # 0
  BY <1>1, <1>2, <1>3 DEF DeployToSandbox
<1>4. CASE promise = 0
  <2> DEFINE new == [pc |-> "attempt", files |-> files, redeploy |-> redeploy,
                     owner |-> c, sessions |-> <<client'>>,
                     task |-> Len(tasks'), result |-> 0]
  <2>1. /\ promise' = Len(loops) + 1 /\ promise' \in Nat
        /\ BeginDeploy(promise', redeploy)
        /\ calls' = [calls EXCEPT ![c] = [pc |-> "waiting", loop |-> promise']]
        /\ loops' = Append(loops, new)
    BY <1>1, <1>4 DEF DeployToSandbox
  <2>2. client' \in Nat /\ Len(tasks') \in Nat
    BY <1>1, <2>1, BeginDeployEffect, SMTT(20)
  <2>3. <<client'>> \in Seq(Nat)
    BY <2>2
  <2>4. /\ new \in Loop /\ new.pc = "attempt" /\ new.owner = c
        /\ new.files = files /\ new.sessions = <<client'>>
    BY <2>2, <2>3 DEF Loop
  <2> HIDE DEF new
  <2>5. /\ loops' \in Seq(Loop) /\ Len(loops') = Len(loops) + 1
        /\ DOMAIN loops' = 1..(Len(loops) + 1)
        /\ \A l \in DOMAIN loops : loops'[l] = loops[l]
        /\ loops'[Len(loops) + 1] = new
    BY <1>1, <2>1, <2>4, ElementAppended
  <2>6. QED
    BY <1>2, <1>4, <2>1, <2>4, <2>5
<1>5. QED
  BY <1>3, <1>4

LEMMA DeployStarts ==
    ASSUME TypeInv, NEW c \in Callers, NEW files \in SUBSET Files,
           NEW redeploy \in BOOLEAN, saved' \in SUBSET Files,
           DeployToSandbox(c, files, redeploy), promise = 0
    PROVE  /\ promise' = Len(loops) + 1
           /\ calls' = [calls EXCEPT ![c] =
                  [pc |-> "waiting", loop |-> promise']]
           /\ BeginDeploy(promise', redeploy)
<1>1. promise' = Len(loops) + 1 /\ BeginDeploy(promise', redeploy)
  BY DEF DeployToSandbox
<1>2. calls' = [calls EXCEPT ![c] = [pc |-> "waiting", loop |-> promise']]
  BY DEF DeployToSandbox
<1>3. QED
  BY <1>1, <1>2

LEMMA DeployStartsWithFiles ==
    ASSUME TypeInv, NEW c \in Callers, NEW files \in SUBSET Files,
           NEW redeploy \in BOOLEAN, saved' \in SUBSET Files,
           DeployToSandbox(c, files, redeploy), promise = 0
    PROVE  loops'[Len(loops) + 1].files = files
  BY DeployToSandboxEffect

\* Retry keeps the owner of the loop and adds the client of the new attempt.
LEMMA RetryEffect ==
    ASSUME TypeInv, NEW l \in DOMAIN loops, Retry(l)
    PROVE  /\ loops[l].pc = "backoff" /\ loops'[l].pc = "attempt"
           /\ BeginDeploy(l, loops[l].redeploy) /\ loops[l].redeploy \in BOOLEAN
           /\ loops' \in Seq(Loop)
           /\ Len(loops') = Len(loops) /\ DOMAIN loops' = DOMAIN loops
           /\ loops'[l].owner = loops[l].owner
           /\ loops'[l].files = loops[l].files
           /\ loops'[l].sessions = Append(loops[l].sessions, client')
           /\ loops'[l].task = Len(tasks')
           /\ \A k \in DOMAIN loops : k # l => loops'[k] = loops[k]
<1> DEFINE new == [loops[l] EXCEPT !.pc = "attempt",
                                   !.sessions = Append(@, client'),
                                   !.task = Len(tasks')]
<1>1. /\ loops[l] \in Loop /\ loops \in Seq(Loop) /\ l \in Nat
      /\ session \in Nat /\ client \in Nat
      /\ Len(tasks) \in Nat /\ saved' \in SUBSET Files
  BY TypedElements DEF TypeInv, TypeOK, Retry
<1>2. loops[l].redeploy \in BOOLEAN /\ loops[l].sessions \in Seq(Nat)
  BY <1>1 DEF Loop
<1>3. BeginDeploy(l, loops[l].redeploy) /\ loops[l].pc = "backoff"
  BY DEF Retry
<1>4. client' \in Nat /\ Len(tasks') \in Nat
  BY <1>1, <1>2, <1>3, BeginDeployEffect
<1>5. Append(loops[l].sessions, client') \in Seq(Nat)
  BY <1>2, <1>4, AppendProperties
<1>6. /\ new \in Loop /\ new.pc = "attempt" /\ new.owner = loops[l].owner
      /\ new.files = loops[l].files
      /\ new.sessions = Append(loops[l].sessions, client')
      /\ new.task = Len(tasks')
  BY <1>1, <1>4, <1>5 DEF Loop
<1>7. loops' = [loops EXCEPT ![l] = new]
  BY <1>1 DEF Retry
<1> HIDE DEF new
<1>8. /\ loops' \in Seq(Loop)
      /\ Len(loops') = Len(loops) /\ DOMAIN loops' = DOMAIN loops
      /\ loops'[l] = new
      /\ \A k \in DOMAIN loops : k # l => loops'[k] = loops[k]
  BY <1>1, <1>6, <1>7, ElementReplaced
<1>9. QED
  BY <1>2, <1>3, <1>6, <1>8

\* The files of the writes an instance has answered with success.
Given(sandbox) == sandbox.files \cup sandbox.lost

\* No instance is forgotten, nor what was given to it.
SandboxesLater ==
    /\ sandboxes' \in Seq(Sandbox)
    /\ Len(sandboxes') \in Nat /\ Len(sandboxes') >= Len(sandboxes)
    /\ DOMAIN sandboxes \subseteq DOMAIN sandboxes'
    /\ \A i \in DOMAIN sandboxes :
          Given(sandboxes[i]) \subseteq Given(sandboxes'[i])

LEMMA SandboxesSame ==
    ASSUME TypeInv, UNCHANGED sandboxes
    PROVE  SandboxesLater
  BY TypedElements DEF TypeInv, TypeOK, SandboxesLater

LEMMA SandboxReplaced ==
    ASSUME TypeInv, NEW i \in DOMAIN sandboxes, NEW new \in Sandbox,
           Given(sandboxes[i]) \subseteq Given(new),
           sandboxes' = [sandboxes EXCEPT ![i] = new]
    PROVE  SandboxesLater /\ sandboxes'[i] = new
<1>1. sandboxes \in Seq(Sandbox)
  BY DEF TypeInv, TypeOK
<1>2. /\ sandboxes' \in Seq(Sandbox)
      /\ Len(sandboxes) \in Nat /\ Len(sandboxes') = Len(sandboxes)
      /\ DOMAIN sandboxes' = DOMAIN sandboxes
      /\ \A j \in DOMAIN sandboxes :
            sandboxes'[j] = IF j = i THEN new ELSE sandboxes[j]
  BY <1>1, ElementReplaced
<1>3. QED
  BY <1>2 DEF SandboxesLater

\* A write gives its files, however many of them arrive.
LEMMA WriteFilesEffect ==
    ASSUME TypeInv, NEW i \in DOMAIN sandboxes, NEW files \in SUBSET Files,
           WriteFiles(i, files)
    PROVE  /\ SandboxesLater /\ files \subseteq Given(sandboxes'[i])
           /\ Fault \/ UNCHANGED faults
<1>1. PICK written \in SUBSET (files \ Protected) :
         /\ WriteFilesViaScript(files \ Protected, written)
         /\ sandboxes' = [sandboxes EXCEPT ![i].files = @ \cup written,
                                          ![i].lost = (@ \cup files) \ written]
  BY DEF WriteFiles
<1> DEFINE new == [sandboxes[i] EXCEPT !.files = @ \cup written,
                                       !.lost = (@ \cup files) \ written]
<1>2. sandboxes[i] \in Sandbox
  BY TypedElements
<1>3. /\ new \in Sandbox
      /\ Given(sandboxes[i]) \subseteq Given(new) /\ files \subseteq Given(new)
  BY <1>2 DEF Sandbox, Given
<1>4. sandboxes' = [sandboxes EXCEPT ![i] = new]
  BY <1>1
<1> HIDE DEF new
<1>5. SandboxesLater /\ sandboxes'[i] = new
  BY <1>3, <1>4, SandboxReplaced
<1>6. QED
  BY <1>1, <1>3, <1>5 DEF WriteFilesViaScript

LEMMA WriteFilesFailsEffect ==
    ASSUME TypeInv, NEW i \in DOMAIN sandboxes, NEW files \in SUBSET Files,
           WriteFilesFails(i, files)
    PROVE  SandboxesLater /\ Fault
<1>1. PICK written \in SUBSET (files \ Protected) :
         sandboxes' = [sandboxes EXCEPT ![i].files = @ \cup written,
                                       ![i].lost = @ \ written]
  BY DEF WriteFilesFails
<1> DEFINE new == [sandboxes[i] EXCEPT !.files = @ \cup written,
                                       !.lost = @ \ written]
<1>2. sandboxes[i] \in Sandbox
  BY TypedElements
<1>3. new \in Sandbox /\ Given(sandboxes[i]) \subseteq Given(new)
  BY <1>2 DEF Sandbox, Given
<1>4. sandboxes' = [sandboxes EXCEPT ![i] = new]
  BY <1>1
<1> HIDE DEF new
<1>5. SandboxesLater
  BY <1>3, <1>4, SandboxReplaced
<1>6. QED
  BY <1>5 DEF WriteFilesFails

LEMMA CreateInstanceEffect ==
    ASSUME TypeInv, NEW s \in Nat, NEW files \in SUBSET Files,
           CreateInstance(s, files)
    PROVE  SandboxesLater /\ (Fault \/ UNCHANGED faults)
<1>1. PICK written \in SUBSET files :
         /\ WriteFilesViaScript(files, written)
         /\ sandboxes' = Append(sandboxes,
               [session |-> s, healthy |-> TRUE, files |-> written,
                lost |-> files \ written])
  BY DEF CreateInstance
<1> DEFINE new == [session |-> s, healthy |-> TRUE, files |-> written,
                   lost |-> files \ written]
<1>2. sandboxes \in Seq(Sandbox)
  BY DEF TypeInv, TypeOK
<1>3. new \in Sandbox
  BY DEF Sandbox
<1>4. sandboxes' = Append(sandboxes, new)
  BY <1>1
<1> HIDE DEF new
<1>5. /\ sandboxes' \in Seq(Sandbox)
      /\ Len(sandboxes) \in Nat /\ Len(sandboxes') = Len(sandboxes) + 1
      /\ DOMAIN sandboxes = 1..Len(sandboxes)
      /\ DOMAIN sandboxes' = 1..(Len(sandboxes) + 1)
      /\ \A j \in DOMAIN sandboxes : sandboxes'[j] = sandboxes[j]
  BY <1>2, <1>3, <1>4, ElementAppended
<1>6. SandboxesLater
  BY <1>5 DEF SandboxesLater
<1>7. QED
  BY <1>1, <1>6 DEF WriteFilesViaScript

\* A failed call may have written some files, and loses none.
LEMMA SandboxCallFailsEffect ==
    ASSUME TypeInv, NEW t \in DOMAIN tasks, NEW sessionLevel \in BOOLEAN,
           SandboxCallFails(t, sessionLevel)
    PROVE  /\ SandboxesLater /\ (Fault \/ UNCHANGED faults)
           /\ tasks[t].pc # "settled"
<1>1. CASE UNCHANGED sandboxes
  BY <1>1, SandboxesSame DEF SandboxCallFails, WriteFilesFails
<1>2. CASE /\ tasks[t].pc = "writing"
           /\ Reachable(tasks[t].instance, tasks[t].client)
           /\ WriteFilesFails(tasks[t].instance, tasks[t].files)
  <2>1. tasks[t] \in Task /\ DOMAIN sandboxes = 1..Len(sandboxes)
    BY TypedElements
  <2>2. tasks[t].instance \in DOMAIN sandboxes /\ tasks[t].files \in SUBSET Files
    BY <1>2, <2>1, TypedElements DEF Reachable, Task, TypeInv, TasksPlaced
  <2>3. QED
    BY <1>2, <2>2, WriteFilesFailsEffect
<1>3. QED
  BY <1>1, <1>2 DEF SandboxCallFails

-----------------------------------------------------------------------------
\* Type correctness

\* The steps that change neither a task nor a loop's number keep the tasks
\* placed; so do those that change one task as below.
LEMMA PlacedTasks ==
    ASSUME TypeInv, NEW t \in DOMAIN tasks, TaskChanged(t),
           Len(sandboxes') \in Nat, Len(sandboxes') >= Len(sandboxes),
           DOMAIN loops' = DOMAIN loops,
           tasks'[t].instance <= Len(sandboxes'),
           tasks'[t].pc # "settled" => tasks'[t].loop \in DOMAIN loops
    PROVE  TasksPlaced'
<1> SUFFICES ASSUME NEW u \in DOMAIN tasks
             PROVE  /\ tasks'[u].instance <= Len(sandboxes')
                    /\ tasks'[u].pc # "settled" =>
                          tasks'[u].loop \in DOMAIN loops'
  BY DEF TasksPlaced, TaskChanged
<1>1. CASE u = t
  BY <1>1
<1>2. CASE u # t
  <2>1. tasks'[u] = tasks[u] /\ tasks[u] \in Task /\ Len(sandboxes) \in Nat
    BY <1>2, TypedElements DEF TaskChanged
  <2>2. tasks[u].instance \in Nat
    BY <2>1 DEF Task
  <2>3. QED
    BY <2>1, <2>2 DEF TypeInv, TasksPlaced
<1>3. QED
  BY <1>1, <1>2

LEMMA DeployTyped ==
    ASSUME TypeInv, NEW c \in Callers, NEW files \in SUBSET Files,
           NEW redeploy \in BOOLEAN, saved' \in SUBSET Files,
           DeployToSandbox(c, files, redeploy),
           interval' \in 0..Len(sandboxes),
           tick' \in [pc : {"idle", "checking"}, instance : Nat, client : Nat],
           faults' \in 0..MaxFaults, UNCHANGED <<sandboxes, restarts>>
    PROVE  TypeInv'
<1>1. /\ Len(loops) \in Nat /\ DOMAIN loops = 1..Len(loops)
      /\ Len(tasks) \in Nat /\ DOMAIN tasks = 1..Len(tasks)
      /\ Len(sandboxes) \in Nat
  BY TypedElements
<1>2. /\ session \in Nat /\ client \in Nat /\ promise \in 0..Len(loops)
      /\ instance \in 0..Len(sandboxes)
      /\ loops \in Seq(Loop) /\ tasks \in Seq(Task)
  BY DEF TypeInv, TypeOK
<1>3. CASE promise # 0
  <2>1. /\ calls' \in [Callers -> Call]
        /\ UNCHANGED <<session, instance, client, promise, loops, tasks>>
    BY <1>3, DeployToSandboxEffect
  <2>2. QED
    BY <1>1, <2>1 DEF TypeInv, TypeOK, TasksPlaced
<1>4. CASE promise = 0
  <2>1. /\ promise' = Len(loops) + 1 /\ BeginDeploy(promise', redeploy)
        /\ calls' \in [Callers -> Call]
        /\ loops' \in Seq(Loop) /\ Len(loops') = Len(loops) + 1
        /\ DOMAIN loops' = 1..(Len(loops) + 1)
    <3>1. /\ promise' = Len(loops) + 1 /\ BeginDeploy(promise', redeploy)
          /\ calls' \in [Callers -> Call]
      BY <1>4, DeployToSandboxEffect, ZenonT(20)
    <3>2. /\ loops' \in Seq(Loop) /\ Len(loops') = Len(loops) + 1
          /\ DOMAIN loops' = 1..(Len(loops) + 1)
      BY <1>4, DeployToSandboxEffect
    <3>3. QED
      BY <3>1, <3>2
  <2>2. promise' \in 0..Len(loops') /\ promise' \in DOMAIN loops'
    BY <1>1, <2>1
  <2>3. /\ session' \in Nat /\ client' \in Nat
        /\ instance' \in 0..Len(sandboxes)
        /\ tasks' \in Seq(Task) /\ DOMAIN tasks' = 1..(Len(tasks) + 1)
        /\ \A t \in DOMAIN tasks : tasks'[t] = tasks[t]
        /\ tasks'[Len(tasks) + 1].loop = promise'
        /\ tasks'[Len(tasks) + 1].instance = instance'
    <3>1. promise' \in Nat
      BY <1>1, <2>1
    <3>2. session' \in Nat /\ client' \in Nat
      <4>1. \/ session' = session + 1 /\ client' = session'
            \/ /\ session' = session
               /\ client' = IF client = 0 THEN session ELSE client
        BY <2>1, <3>1, BeginDeployEffect
      <4>2. QED
        BY <1>2, <4>1
    <3>3. instance' \in 0..Len(sandboxes)
      BY <2>1, <3>1, BeginDeployEffect
    <3>4. /\ tasks' \in Seq(Task) /\ DOMAIN tasks' = 1..(Len(tasks) + 1)
          /\ \A t \in DOMAIN tasks : tasks'[t] = tasks[t]
      BY <2>1, <3>1, BeginDeployEffect
    <3>5. tasks'[Len(tasks) + 1].loop = promise'
      BY <2>1, <3>1, BeginDeployEffect
    <3>6. tasks'[Len(tasks) + 1].instance = instance'
      BY <2>1, <3>1, BeginDeployEffect
    <3>7. QED
      BY <3>2, <3>3, <3>4, <3>5, <3>6
  <2>4. UNCHANGED <<sandboxes, restarts>>
    OBVIOUS
  <2>5. /\ sandboxes' \in Seq(Sandbox)
        /\ faults' \in 0..MaxFaults /\ restarts' \in 0..MaxRestarts
    BY <2>4 DEF TypeInv, TypeOK
  <2>6. TypeOK'
    <3>1. /\ calls' \in [Callers -> Call] /\ loops' \in Seq(Loop)
          /\ instance' \in 0..Len(sandboxes')
          /\ interval' \in 0..Len(sandboxes')
      BY <2>1, <2>3, <2>4
    <3>2. QED
      BY <2>2, <2>3, <2>5, <3>1 DEF TypeOK
  <2>7. TasksPlaced'
    <3> SUFFICES ASSUME NEW t \in 1..(Len(tasks) + 1)
                 PROVE  /\ tasks'[t].instance <= Len(sandboxes)
                        /\ tasks'[t].pc # "settled" =>
                              tasks'[t].loop \in DOMAIN loops'
      BY <2>3, <2>4 DEF TasksPlaced
    <3>1. CASE t = Len(tasks) + 1
      BY <1>1, <2>2, <2>3, <3>1, SMTT(20)
    <3>2. CASE t # Len(tasks) + 1
      <4>1. t \in DOMAIN tasks
        BY <1>1, <3>2
      <4>2. QED
        BY <1>1, <2>1, <2>3, <4>1, SMTT(20) DEF TypeInv, TasksPlaced
    <3>3. QED
      BY <3>1, <3>2
  <2>8. QED
    BY <2>6, <2>7 DEF TypeInv
<1>5. QED
  BY <1>3, <1>4

\* Every fault is counted within its bound.
LEMMA FaultTyped ==
    ASSUME TypeInv, DeploymentAssumption, Fault \/ UNCHANGED faults
    PROVE  faults' \in 0..MaxFaults
<1>1. faults \in 0..MaxFaults /\ MaxFaults \in Nat
  BY DEF TypeInv, TypeOK, DeploymentAssumption
<1>2. QED
  BY <1>1 DEF Fault

LEMMA TaskStepTyped ==
    ASSUME TypeInv, DeploymentAssumption, NEW t \in DOMAIN tasks, TaskStep(t)
    PROVE  TypeInv'
<1>1. /\ Len(loops) \in Nat /\ DOMAIN loops = 1..Len(loops)
      /\ Len(sandboxes) \in Nat /\ DOMAIN sandboxes = 1..Len(sandboxes)
      /\ session \in Nat /\ client \in Nat /\ saved \in SUBSET Files
      /\ promise \in 0..Len(loops) /\ sandboxes \in Seq(Sandbox)
      /\ faults \in Nat /\ MaxFaults \in Nat
      /\ tasks[t].instance <= Len(sandboxes)
      /\ tasks[t].pc # "settled" => tasks[t].loop \in DOMAIN loops
  BY TypedElements DEF TypeInv, TypeOK, TasksPlaced, Sandbox,
                       DeploymentAssumption
<1>2. /\ tasks[t].instance \in 0..Len(sandboxes) /\ tasks[t].client \in Nat
      /\ tasks[t].files \in SUBSET Files /\ tasks[t].redeployed \in BOOLEAN
  BY <1>1, TypedElements DEF Task
<1>3. tasks[t].pc # "settled" =>
        \A redeployed \in BOOLEAN :
           FilesToDeploy(tasks[t].loop, redeployed) \in SUBSET Files
  BY <1>1, TypedElements DEF FilesToDeploy, Loop
<1>4. CASE TaskStatus(t)
  <2> DEFINE i == tasks[t].instance
             f == FilesToDeploy(tasks[t].loop, FALSE)
  <2>1. /\ tasks[t].pc = "status" /\ (Fault \/ UNCHANGED faults)
        /\ Continue(t, "writing", i, FALSE, f)
              \/ Continue(t, "creating", 0, FALSE, saved)
        /\ UNCHANGED <<session, instance, saved, promise, interval, calls,
                       loops, tick, sandboxes, restarts>>
    BY <1>4 DEF TaskStatus
  <2>2. /\ TaskChanged(t) /\ tasks'[t].loop = tasks[t].loop
        /\ tasks'[t].instance \in 0..Len(sandboxes)
        /\ client' \in Nat
    <3>1. f \in SUBSET Files
      BY <1>3, <2>1
    <3>2. i \in 0..Len(sandboxes) /\ i \in Nat
      BY <1>1, <1>2
    <3> HIDE DEF f, i
    <3>3. CASE Continue(t, "writing", i, FALSE, f)
      <4>1. TaskChanged(t)
        BY <1>1, <2>1, <3>1, <3>2, <3>3, ContinueEffect
      <4>2. tasks'[t].loop = tasks[t].loop /\ tasks'[t].instance = i
        BY <1>1, <2>1, <3>1, <3>2, <3>3, ContinueEffect
      <4>3. client' \in Nat
        BY <1>1, <2>1, <3>1, <3>2, <3>3, ContinueEffect
      <4>4. QED
        BY <3>2, <4>1, <4>2, <4>3
    <3>4. CASE Continue(t, "creating", 0, FALSE, saved)
      <4>1. TaskChanged(t)
        BY <1>1, <2>1, <3>4, ContinueEffect
      <4>2. tasks'[t].loop = tasks[t].loop /\ tasks'[t].instance = 0
        BY <1>1, <2>1, <3>4, ContinueEffect
      <4>3. client' \in Nat
        BY <1>1, <2>1, <3>4, ContinueEffect
      <4>4. QED
        BY <1>1, <4>1, <4>2, <4>3
    <3>5. QED
      BY <2>1, <3>3, <3>4
  <2>3. faults' \in 0..MaxFaults
    BY <2>1, FaultTyped
  <2>4. TasksPlaced'
    BY <1>1, <2>1, <2>2, PlacedTasks
  <2>5. QED
    BY <2>1, <2>2, <2>3, <2>4 DEF TypeInv, TypeOK, TaskChanged
<1>5. CASE TaskCreated(t)
  <2>1. /\ SandboxesLater /\ (Fault \/ UNCHANGED faults)
        /\ instance' \in 0..Len(sandboxes')
    <3>1. CASE /\ CreateInstance(tasks[t].client, tasks[t].files)
               /\ instance' = Len(sandboxes')
      <4>1. SandboxesLater /\ (Fault \/ UNCHANGED faults)
        BY <1>2, <3>1, CreateInstanceEffect
      <4>2. QED
        BY <3>1, <4>1 DEF SandboxesLater
    <3>2. CASE FindInstance(tasks[t].client)
      <4>1. UNCHANGED sandboxes /\ instance' \in DOMAIN sandboxes
            /\ UNCHANGED faults
        BY <3>2 DEF FindInstance
      <4>2. QED
        BY <1>1, <4>1, SandboxesSame
    <3>3. QED
      BY <1>5, <3>1, <3>2 DEF TaskCreated
  <2>2. /\ TaskChanged(t) /\ tasks'[t].loop = tasks[t].loop
        /\ tasks'[t].instance = instance'
        /\ client' \in Nat /\ UNCHANGED session
    <3> DEFINE f == FilesToDeploy(tasks[t].loop, TRUE)
    <3>1. /\ tasks[t].pc = "creating" /\ UNCHANGED session
          /\ Continue(t, "writing", instance', TRUE, f)
      BY <1>5 DEF TaskCreated
    <3>2. f \in SUBSET Files
      BY <1>3, <3>1
    <3>3. instance' \in Nat
      BY <2>1 DEF SandboxesLater
    <3> HIDE DEF f
    <3>4. TaskChanged(t)
      BY <1>1, <3>1, <3>2, <3>3, ContinueEffect
    <3>5. tasks'[t].loop = tasks[t].loop /\ tasks'[t].instance = instance'
      BY <1>1, <3>1, <3>2, <3>3, ContinueEffect
    <3>6. client' \in Nat
      BY <1>1, <3>1, <3>2, <3>3, ContinueEffect
    <3>7. QED
      BY <3>1, <3>4, <3>5, <3>6
  <2>3. TasksPlaced'
    <3>1. UNCHANGED loops /\ tasks[t].pc # "settled"
      BY <1>5 DEF TaskCreated
    <3>2. QED
      BY <1>1, <2>1, <2>2, <3>1, PlacedTasks DEF SandboxesLater
  <2>4. TypeOK'
    <3>1. /\ UNCHANGED <<session, saved, promise, interval, calls, loops, tick>>
          /\ UNCHANGED restarts
      BY <1>5 DEF TaskCreated
    <3>2. interval' \in 0..Len(sandboxes')
      BY <1>1, <2>1, <3>1 DEF TypeInv, TypeOK, SandboxesLater
    <3>3. faults' \in 0..MaxFaults
      BY <2>1, FaultTyped
    <3>4. QED
      BY <2>1, <2>2, <3>1, <3>2, <3>3
      DEF TypeInv, TypeOK, TaskChanged, SandboxesLater
  <2>5. QED
    BY <2>3, <2>4 DEF TypeInv
<1>6. CASE TaskWritten(t)
  <2> DEFINE i == tasks[t].instance
             l == tasks[t].loop
  <2>1. i \in DOMAIN sandboxes /\ l \in DOMAIN loops
    BY <1>1, <1>2, <1>6 DEF TaskWritten, Reachable
  <2>2. SandboxesLater /\ (Fault \/ UNCHANGED faults)
    <3>1. WriteFiles(i, tasks[t].files)
      BY <1>6 DEF TaskWritten
    <3> HIDE DEF i
    <3>2. QED
      BY <1>2, <2>1, <3>1, WriteFilesEffect
  <2>3. faults' \in 0..MaxFaults
    BY <2>2, FaultTyped
  <2>4. /\ sandboxes' \in Seq(Sandbox) /\ Len(sandboxes') \in Nat
        /\ Len(sandboxes') >= Len(sandboxes)
    BY <2>2 DEF SandboxesLater
  <2>5. /\ TaskChanged(t) /\ tasks'[t].pc = "settled"
        /\ tasks'[t].instance = 0 /\ UNCHANGED session
    BY <1>6, SettleEffect DEF TaskWritten
  <2>6. DOMAIN loops' = DOMAIN loops => TasksPlaced'
    BY <1>1, <2>4, <2>5, PlacedTasks
  <2>7. /\ loops' \in Seq(Loop) /\ DOMAIN loops' = DOMAIN loops
        /\ Len(loops') = Len(loops)
        /\ calls' \in [Callers -> Call] /\ client' \in Nat
        /\ promise' \in 0..Len(loops) /\ interval' \in 0..Len(sandboxes)
    <3>1. CASE LoopSucceeds(l, i, tasks[t].redeployed)
      BY <1>1, <1>2, <2>1, <2>5, <3>1, LoopSucceedsEffect, SMTT(20)
      DEF LoopChanged, GetClient
    <3>2. CASE UNCHANGED <<client, promise, interval, calls, loops>>
      BY <3>2 DEF TypeInv, TypeOK
    <3>3. QED
      BY <1>6, <3>1, <3>2 DEF TaskWritten
  <2>8. UNCHANGED <<instance, saved, tick, restarts>>
    BY <1>6 DEF TaskWritten
  <2>9. /\ instance' \in 0..Len(sandboxes') /\ promise' \in 0..Len(loops')
        /\ interval' \in 0..Len(sandboxes')
    <3>1. PICK n \in Nat : n = Len(sandboxes') /\ n >= Len(sandboxes)
      BY <2>4
    <3>2. instance \in 0..Len(sandboxes) /\ Len(loops') = Len(loops)
      BY <2>7 DEF TypeInv, TypeOK
    <3>3. instance' \in 0..n
      BY <1>1, <2>8, <3>1, <3>2
    <3>4. interval' \in 0..n
      BY <1>1, <2>7, <3>1
    <3>5. QED
      BY <2>7, <3>1, <3>2, <3>3, <3>4
  <2>10. TypeOK'
    BY <2>3, <2>4, <2>5, <2>7, <2>8, <2>9 DEF TypeInv, TypeOK, TaskChanged
  <2>11. QED
    BY <2>6, <2>7, <2>10 DEF TypeInv
<1>7. CASE TaskFails(t)
  <2>1. PICK sessionLevel \in BOOLEAN :
           /\ SandboxCallFails(t, sessionLevel)
           /\ Settle(t)
           /\ \/ LoopFails(tasks[t].loop, sessionLevel)
              \/ UNCHANGED <<session, instance, client, loops>>
           /\ UNCHANGED <<saved, promise, interval, calls, tick, restarts>>
    BY <1>7 DEF TaskFails
  <2>0. /\ SandboxesLater /\ (Fault \/ UNCHANGED faults)
        /\ tasks[t].pc # "settled"
    BY <2>1, SandboxCallFailsEffect
  <2>2. /\ TaskChanged(t) /\ tasks'[t].pc = "settled"
        /\ tasks'[t].instance = 0
    BY <2>1, SettleEffect
  <2>3. /\ loops' \in Seq(Loop) /\ DOMAIN loops' = DOMAIN loops
        /\ Len(loops') = Len(loops)
        /\ session' \in Nat /\ client' \in Nat
        /\ instance' \in 0..Len(sandboxes)
    <3>1. CASE LoopFails(tasks[t].loop, sessionLevel)
      BY <1>1, <2>0, <3>1, LoopFailsEffect DEF LoopChanged
    <3>2. CASE UNCHANGED <<session, instance, client, loops>>
      BY <3>2 DEF TypeInv, TypeOK
    <3>3. QED
      BY <2>1, <3>1, <3>2
  <2>4. TasksPlaced'
    BY <1>1, <2>0, <2>2, <2>3, PlacedTasks DEF SandboxesLater
  <2>5. faults' \in 0..MaxFaults
    BY <2>0, FaultTyped
  <2>6. /\ instance' \in 0..Len(sandboxes') /\ promise' \in 0..Len(loops')
        /\ interval' \in 0..Len(sandboxes')
    <3>1. PICK n \in Nat : n = Len(sandboxes') /\ n >= Len(sandboxes)
      BY <2>0 DEF SandboxesLater
    <3>2. interval \in 0..Len(sandboxes) /\ UNCHANGED <<interval, promise>>
      BY <2>1 DEF TypeInv, TypeOK
    <3>3. instance' \in 0..n
      BY <1>1, <2>3, <3>1
    <3>4. interval' \in 0..n
      BY <1>1, <3>1, <3>2
    <3>5. QED
      BY <1>1, <2>3, <3>1, <3>2, <3>3, <3>4
  <2>7. TypeOK'
    BY <2>0, <2>1, <2>2, <2>3, <2>5, <2>6
    DEF TypeInv, TypeOK, TaskChanged, SandboxesLater
  <2>8. QED
    BY <2>4, <2>7 DEF TypeInv
<1>8. QED
  BY <1>4, <1>5, <1>6, <1>7 DEF TaskStep

LEMMA LoopStepTyped ==
    ASSUME TypeInv, DeploymentAssumption, NEW l \in DOMAIN loops, LoopStep(l)
    PROVE  TypeInv'
<1>1. /\ Len(loops) \in Nat /\ DOMAIN loops = 1..Len(loops)
      /\ Len(tasks) \in Nat /\ DOMAIN tasks = 1..Len(tasks)
      /\ Len(sandboxes) \in Nat
      /\ session \in Nat /\ client \in Nat
      /\ promise \in 0..Len(loops)
      /\ loops[l] \in Loop
  BY TypedElements DEF TypeInv, TypeOK
<1>2. ASSUME NEW sessionLevel \in BOOLEAN, LoopFails(l, sessionLevel), Fault,
             UNCHANGED <<saved, promise, interval, calls, tasks, tick,
                         sandboxes, restarts>>
      PROVE  TypeInv'
  <2>1. LoopChanged(l) /\ instance' = 0
    BY <1>2, LoopFailsEffect
  <2>2. session' \in Nat /\ client' \in Nat
    BY <1>1, <1>2, LoopFailsEffect
  <2>3. faults' \in 0..MaxFaults
    BY <1>2, FaultTyped
  <2>4. TasksPlaced'
    BY <1>2, <2>1 DEF LoopChanged, TypeInv, TasksPlaced
  <2>5. TypeOK'
    <3>1. /\ loops' \in Seq(Loop) /\ promise' \in 0..Len(loops')
          /\ instance' \in 0..Len(sandboxes')
      BY <1>1, <1>2, <2>1 DEF LoopChanged
    <3>2. UNCHANGED <<saved, interval, calls, tasks, tick, sandboxes, restarts>>
      BY <1>2
    <3>3. QED
      BY <2>2, <2>3, <3>1, <3>2 DEF TypeInv, TypeOK
  <2>6. QED
    BY <2>4, <2>5 DEF TypeInv
<1>3. CASE AttemptTimeout(l)
  BY <1>2, <1>3 DEF AttemptTimeout
<1>4. CASE SetupFails(l)
  BY <1>2, <1>4 DEF SetupFails
<1>5. CASE SetupDone(l)
  <2>1. LoopReturns(l, loops[l].result) /\ loops[l].result \in Nat
    BY <1>1, <1>5 DEF SetupDone, Loop
  <2>2. LoopChanged(l) /\ calls' \in [Callers -> Call]
    BY <2>1, LoopReturnsEffect
  <2>3. promise' \in 0..Len(loops)
    BY <1>1, <2>1, LoopReturnsEffect
  <2>4. UNCHANGED <<session, instance, saved, client, interval, tasks, tick,
                    sandboxes, faults, restarts>>
    BY <1>5 DEF SetupDone, state, history
  <2>5. TasksPlaced'
    BY <2>2, <2>4 DEF LoopChanged, TypeInv, TasksPlaced
  <2>6. TypeOK'
    BY <2>2, <2>3, <2>4 DEF LoopChanged, TypeInv, TypeOK
  <2>7. QED
    BY <2>5, <2>6 DEF TypeInv
<1>6. CASE Retry(l)
  <2>1. /\ UNCHANGED <<saved, promise, interval, calls, tick, sandboxes,
                       faults, restarts>>
        /\ saved' \in SUBSET Files
    BY <1>6 DEF Retry, history, TypeInv, TypeOK
  <2>2. PICK redeploy \in BOOLEAN : BeginDeploy(l, redeploy)
    BY <1>6, RetryEffect
  <2>3. /\ loops' \in Seq(Loop) /\ Len(loops') = Len(loops)
        /\ DOMAIN loops' = DOMAIN loops
    BY <1>6, RetryEffect
  <2>4. session' \in Nat /\ client' \in Nat
    <3>1. \/ session' = session + 1 /\ client' = session'
          \/ /\ session' = session
             /\ client' = IF client = 0 THEN session ELSE client
      BY <1>1, <2>1, <2>2, BeginDeployEffect
    <3>2. QED
      BY <1>1, <3>1
  <2>5. /\ instance' \in 0..Len(sandboxes)
        /\ tasks' \in Seq(Task) /\ DOMAIN tasks' = 1..(Len(tasks) + 1)
        /\ \A t \in DOMAIN tasks : tasks'[t] = tasks[t]
    BY <1>1, <2>1, <2>2, BeginDeployEffect
  <2>6. /\ tasks'[Len(tasks) + 1].loop = l
        /\ tasks'[Len(tasks) + 1].instance = instance'
    BY <1>1, <2>1, <2>2, BeginDeployEffect
  <2>7. TypeOK'
    BY <2>1, <2>3, <2>4, <2>5 DEF TypeInv, TypeOK
  <2>8. TasksPlaced'
    <3> SUFFICES ASSUME NEW t \in 1..(Len(tasks) + 1)
                 PROVE  /\ tasks'[t].instance <= Len(sandboxes)
                        /\ tasks'[t].pc # "settled" =>
                              tasks'[t].loop \in DOMAIN loops
      BY <2>1, <2>3, <2>5 DEF TasksPlaced
    <3>1. CASE t = Len(tasks) + 1
      BY <1>1, <2>5, <2>6, <3>1
    <3>2. CASE t # Len(tasks) + 1
      <4>1. t \in DOMAIN tasks
        BY <1>1, <3>2
      <4>2. QED
        BY <2>5, <4>1 DEF TypeInv, TasksPlaced
    <3>3. QED
      BY <3>1, <3>2
  <2>9. QED
    BY <2>7, <2>8 DEF TypeInv
<1>7. QED
  BY <1>3, <1>4, <1>5, <1>6 DEF LoopStep

\* MasterTimeout changes a call and the owner of a loop.
LEMMA MasterTimeoutEffect ==
    ASSUME TypeInv, NEW l \in DOMAIN loops, MasterTimeout(l)
    PROVE  /\ loops' \in Seq(Loop)
           /\ Len(loops') = Len(loops) /\ DOMAIN loops' = DOMAIN loops
           /\ loops'[l].owner = None /\ loops'[l].pc = loops[l].pc
           /\ loops'[l].sessions = loops[l].sessions
           /\ loops'[l].task = loops[l].task
           /\ \A k \in DOMAIN loops : k # l => loops'[k] = loops[k]
           /\ calls' \in [Callers -> Call]
           /\ \A c \in Callers :
                 calls'[c] = calls[c] \/ calls'[c].pc \in {"idle", "failed"}
<1> DEFINE new == [loops[l] EXCEPT !.owner = None]
           call == [pc |-> IF loops[l].owner = Tick THEN "idle" ELSE "failed",
                    loop |-> l]
<1>1. /\ loops[l] \in Loop /\ loops \in Seq(Loop) /\ l \in Nat
      /\ calls \in [Callers -> Call]
  BY TypedElements DEF TypeInv, TypeOK
<1>2. /\ new \in Loop /\ new.owner = None /\ new.pc = loops[l].pc
      /\ new.sessions = loops[l].sessions /\ new.task = loops[l].task
  BY <1>1 DEF Loop
<1>3. loops' = [loops EXCEPT ![l] = new]
  BY <1>1 DEF MasterTimeout
<1>4. /\ calls' = [calls EXCEPT ![loops[l].owner] = call] /\ call \in Call
      /\ call.pc \in {"idle", "failed"}
  BY <1>1 DEF MasterTimeout, Call
<1> HIDE DEF new, call
<1>5. /\ loops' \in Seq(Loop)
      /\ Len(loops') = Len(loops) /\ DOMAIN loops' = DOMAIN loops
      /\ loops'[l] = new
      /\ \A k \in DOMAIN loops : k # l => loops'[k] = loops[k]
  BY <1>1, <1>2, <1>3, ElementReplaced
<1>6. /\ calls' \in [Callers -> Call]
      /\ \A c \in Callers :
            calls'[c] = calls[c] \/ calls'[c].pc \in {"idle", "failed"}
  BY <1>1, <1>4
<1>7. QED
  BY <1>2, <1>5, <1>6

\* Restart leaves the sequences of running code empty.
LEMMA RestartEffect ==
    ASSUME TypeInv, Restart
    PROVE  /\ loops' \in Seq(Loop) /\ Len(loops') = 0 /\ DOMAIN loops' = {}
           /\ tasks' \in Seq(Task) /\ DOMAIN tasks' = {}
           /\ calls' \in [Callers -> Call]
           /\ promise' = 0 /\ client' = 0 /\ interval' = 0
           /\ UNCHANGED <<session, instance, saved, sandboxes, faults>>
<1>1. loops' = << >> /\ tasks' = << >>
  BY DEF Restart
<1>2. /\ loops' \in Seq(Loop) /\ Len(loops') = 0 /\ DOMAIN loops' = {}
      /\ tasks' \in Seq(Task) /\ DOMAIN tasks' = {}
  BY <1>1
<1>3. calls' \in [Callers -> Call]
  <2> SUFFICES ASSUME NEW c \in Callers
               PROVE  calls'[c] \in Call /\ calls[c] \in Call
    BY DEF Restart, TypeInv, TypeOK
  <2> QED
    BY DEF Restart, TypeInv, TypeOK, Call
<1>4. QED
  BY <1>2, <1>3 DEF Restart, state

\* The state keeps its types, and every deploy() under way is of a loop and a
\* sandbox there are: no timeout, retry, tick or eviction leaves an index of
\* something that is gone.
THEOREM TypeCorrect == Spec => [](TypeOK /\ TasksPlaced)
<1> USE DeploymentAssumption
<1>1. Init => TypeInv
  <2> SUFFICES ASSUME Init PROVE TypeInv
    OBVIOUS
  <2>1. /\ loops \in Seq(Loop) /\ tasks \in Seq(Task)
        /\ sandboxes \in Seq(Sandbox)
        /\ Len(loops) = 0 /\ Len(sandboxes) = 0 /\ DOMAIN tasks = {}
    BY DEF Init
  <2>2. calls \in [Callers -> Call]
    BY DEF Init, Call
  <2>3. /\ session \in Nat /\ instance = 0 /\ promise = 0 /\ interval = 0
        /\ client = 0 /\ saved \in SUBSET Files
        /\ tick \in [pc : {"idle", "checking"}, instance : Nat, client : Nat]
    BY DEF Init, Files
  <2>4. faults \in 0..MaxFaults /\ restarts \in 0..MaxRestarts
    BY DEF Init, DeploymentAssumption
  <2>5. QED
    BY <2>1, <2>2, <2>3, <2>4 DEF TypeInv, TypeOK, TasksPlaced
<1>2. TypeInv /\ [Next]_vars => TypeInv'
  <2> SUFFICES ASSUME TypeInv, [Next]_vars PROVE TypeInv'
    OBVIOUS
  <2>1. /\ Len(loops) \in Nat /\ DOMAIN loops = 1..Len(loops)
        /\ Len(sandboxes) \in Nat /\ DOMAIN sandboxes = 1..Len(sandboxes)
        /\ session \in Nat /\ client \in Nat
        /\ interval \in 0..Len(sandboxes)
        /\ calls \in [Callers -> Call] /\ saved \in SUBSET Files
        /\ faults \in 0..MaxFaults /\ restarts \in 0..MaxRestarts
        /\ MaxRestarts \in Nat
    BY TypedElements DEF TypeInv, TypeOK, DeploymentAssumption
  <2>2. ASSUME NEW c \in Calls, CallDeploy(c) PROVE TypeInv'
    <3> DEFINE own == {c} \cap WithFiles
               redeploy == c \in Redeploying
    <3>1. /\ own \in SUBSET Files /\ redeploy \in BOOLEAN
          /\ c \in Callers
      BY DEF Files, Callers, DeploymentAssumption
    <3>2. /\ saved' = saved \cup own
          /\ DeployToSandbox(c, own, redeploy)
          /\ UNCHANGED <<interval, tick, sandboxes, history>>
      BY <2>2 DEF CallDeploy
    <3>3. saved' \in SUBSET Files
      BY <2>1, <3>1, <3>2
    <3>4. /\ interval' \in 0..Len(sandboxes)
          /\ tick' \in [pc : {"idle", "checking"}, instance : Nat, client : Nat]
      BY <3>2 DEF TypeInv, TypeOK
    <3> HIDE DEF own, redeploy
    <3>5. faults' \in 0..MaxFaults /\ UNCHANGED <<sandboxes, restarts>>
      BY <2>1, <3>2 DEF history
    <3>6. QED
      BY <3>1, <3>2, <3>3, <3>4, <3>5, DeployTyped
  <2>3. ASSUME NEW c \in Callers, JoinerTimeout(c) PROVE TypeInv'
    <3>1. /\ calls' \in [Callers -> Call]
          /\ UNCHANGED <<session, instance, saved, client, promise, interval,
                         loops, tasks, tick, sandboxes, faults, restarts>>
      BY <2>1, <2>3, SMTT(20) DEF JoinerTimeout, Call, state, fields, history
    <3>2. QED
      BY <3>1 DEF TypeInv, TypeOK, TasksPlaced
  <2>4. ASSUME NEW l \in DOMAIN loops, MasterTimeout(l) PROVE TypeInv'
    <3>1. /\ loops' \in Seq(Loop)
          /\ Len(loops') = Len(loops) /\ DOMAIN loops' = DOMAIN loops
          /\ calls' \in [Callers -> Call]
      BY <2>4, MasterTimeoutEffect
    <3>2. /\ promise' = 0
          /\ UNCHANGED <<session, instance, saved, client, interval, tasks,
                         tick, sandboxes, faults, restarts>>
      BY <2>1, <2>4, SMTT(20) DEF MasterTimeout, state, history
    <3>3. promise' \in 0..Len(loops')
      BY <2>1, <3>1, <3>2
    <3>4. TypeOK'
      BY <3>1, <3>2, <3>3 DEF TypeInv, TypeOK
    <3>5. TasksPlaced'
      BY <3>1, <3>2 DEF TypeInv, TasksPlaced
    <3>6. QED
      BY <3>4, <3>5 DEF TypeInv
  <2>5. CASE Deploying
    BY <2>5, TaskStepTyped, LoopStepTyped DEF Deploying
  <2>6. CASE TickStart
    <3>1. /\ client' \in Nat
          /\ tick' = [pc |-> "checking", instance |-> interval,
                      client |-> client']
          /\ UNCHANGED <<session, instance, saved, promise, interval, calls,
                         loops, tasks, sandboxes, faults, restarts>>
      BY <2>1, <2>6 DEF TickStart, GetClient, history
    <3>2. tick' \in [pc : {"idle", "checking"}, instance : Nat, client : Nat]
      BY <2>1, <3>1
    <3>3. QED
      BY <3>1, <3>2 DEF TypeInv, TypeOK, TasksPlaced
  <2>7. CASE TickHealthy
    BY <2>7 DEF TickHealthy, Idle, TypeInv, TypeOK, TasksPlaced,
                state, fields, history
  <2>8. CASE TickUnhealthy
    <3>1. /\ DeployToSandbox(Tick, {}, FALSE)
          /\ saved' \in SUBSET Files
          /\ UNCHANGED <<sandboxes, restarts>> /\ (Fault \/ UNCHANGED faults)
      BY <2>1, <2>8 DEF TickUnhealthy
    <3>2. /\ interval' \in 0..Len(sandboxes)
          /\ tick' \in [pc : {"idle", "checking"}, instance : Nat, client : Nat]
      BY <2>1, <2>8 DEF TickUnhealthy, Idle
    <3>3. PICK c \in Callers, files \in SUBSET Files, redeploy \in BOOLEAN :
             DeployToSandbox(c, files, redeploy)
      BY <3>1, Zenon DEF Callers
    <3>4. faults' \in 0..MaxFaults
      BY <3>1, FaultTyped
    <3>5. QED
      BY <3>1, <3>2, <3>3, <3>4, DeployTyped
  <2>9. ASSUME NEW i \in DOMAIN sandboxes, SandboxDies(i) PROVE TypeInv'
    <3> DEFINE new == [sandboxes[i] EXCEPT !.healthy = FALSE]
    <3>1. new \in Sandbox
      BY TypedElements DEF Sandbox
    <3>2. sandboxes' = [sandboxes EXCEPT ![i] = new]
      BY <2>1, <2>9 DEF SandboxDies
    <3> HIDE DEF new
    <3>3. sandboxes' \in Seq(Sandbox) /\ Len(sandboxes') = Len(sandboxes)
      BY <3>1, <3>2, ElementReplaced, SMTT(20) DEF TypeInv, TypeOK, Sandbox
    <3>4. /\ faults' \in 0..MaxFaults
          /\ UNCHANGED <<session, instance, saved, client, promise, interval,
                         calls, loops, tasks, tick, restarts>>
      BY <2>9, FaultTyped DEF SandboxDies, state, fields, running
    <3>5. QED
      BY <3>3, <3>4 DEF TypeInv, TypeOK, TasksPlaced, Sandbox
  <2>10. CASE Restart
    <3>1. /\ restarts' \in 0..MaxRestarts
          /\ tick' \in [pc : {"idle", "checking"}, instance : Nat, client : Nat]
      BY <2>1, <2>10 DEF Restart, Idle
    <3>2. /\ promise' \in 0..Len(loops') /\ interval' \in 0..Len(sandboxes')
          /\ client' \in Nat
      BY <2>1, <2>10, RestartEffect
    <3>3. TypeOK'
      BY <2>10, <3>1, <3>2, RestartEffect DEF TypeInv, TypeOK
    <3>4. QED
      BY <2>10, <3>3, RestartEffect DEF TypeInv, TasksPlaced
  <2>11. CASE UNCHANGED vars
    BY <2>11 DEF vars, state, fields, running, history,
                 TypeInv, TypeOK, TasksPlaced
  <2>12. QED
    BY <2>2, <2>3, <2>4, <2>5, <2>6, <2>7, <2>8, <2>9, <2>10, <2>11
    DEF Next, Ticking
<1>3. QED
  BY <1>1, <1>2, PTL DEF Spec, TypeInv

-----------------------------------------------------------------------------
\* One deployment at a time

\* A loop that is running goes on, or ends and clears the promise if its
\* maker still waits.
LEMMA RunningLoopStep ==
    ASSUME TypeInv, SingleFlight, NEW l \in DOMAIN loops, Active(l),
           LoopChanged(l),
           \/ loops'[l].pc # "ended" /\ promise' = promise
           \/ /\ loops'[l].pc = "ended"
              /\ promise' = IF loops[l].owner = None THEN promise ELSE 0
    PROVE  SingleFlight'
<1>1. promise # 0 => promise \in DOMAIN loops
  BY TypedElements DEF TypeInv, TypeOK
<1>2. /\ DOMAIN loops' = DOMAIN loops
      /\ \A k \in DOMAIN loops : loops'[k].owner = loops[k].owner
      /\ \A k \in DOMAIN loops : k # l => loops'[k].pc = loops[k].pc
  BY DEF LoopChanged
<1>3. promise' # 0 => Active(promise)' /\ loops'[promise'].owner # None
  BY <1>1, <1>2 DEF SingleFlight, Active
<1>4. ASSUME NEW k \in DOMAIN loops, loops'[k].pc # "ended",
             loops'[k].owner # None
      PROVE  k = promise'
  BY <1>2, <1>4 DEF SingleFlight, Active
<1>5. QED
  BY <1>2, <1>3, <1>4 DEF SingleFlight, Active

LEMMA NewLoop ==
    ASSUME TypeInv, DeploymentAssumption, SingleFlight,
           NEW c \in Callers, NEW files \in SUBSET Files,
           NEW redeploy \in BOOLEAN, saved' \in SUBSET Files,
           DeployToSandbox(c, files, redeploy)
    PROVE  SingleFlight'
<1>1. Len(loops) \in Nat /\ DOMAIN loops = 1..Len(loops)
  BY TypedElements
<1>2. CASE promise # 0
  <2>1. UNCHANGED <<promise, loops>>
    BY <1>2, DeployToSandboxEffect
  <2>2. QED
    BY <2>1 DEF SingleFlight, Active
<1>3. CASE promise = 0
  <2>1. /\ promise' = Len(loops) + 1
        /\ DOMAIN loops' = 1..(Len(loops) + 1)
        /\ \A l \in DOMAIN loops : loops'[l] = loops[l]
    BY <1>3, DeployToSandboxEffect
  <2>2. /\ loops'[Len(loops) + 1].pc = "attempt"
        /\ loops'[Len(loops) + 1].owner = c
    BY <1>3, DeployToSandboxEffect
  <2>3. c # None
    BY DEF Callers, DeploymentAssumption
  <2>4. promise' # 0 => Active(promise)' /\ loops'[promise'].owner # None
    BY <2>1, <2>2, <2>3 DEF Active
  <2>5. ASSUME NEW k \in DOMAIN loops', loops'[k].pc # "ended",
               loops'[k].owner # None
        PROVE  k = promise'
    <3>1. CASE k \in DOMAIN loops
      BY <1>3, <2>1, <2>5, <3>1, <1>1 DEF SingleFlight, Active
    <3>2. CASE k \notin DOMAIN loops
      BY <1>1, <2>1, <3>2
    <3>3. QED
      BY <3>1, <3>2
  <2>6. QED
    BY <2>4, <2>5 DEF SingleFlight, Active
<1>4. QED
  BY <1>2, <1>3

LEMMA SingleFlightStep ==
    ASSUME TypeInv, DeploymentAssumption, SingleFlight, [Next]_vars
    PROVE  SingleFlight'
<1>1. CASE UNCHANGED <<promise, loops>>
  BY <1>1 DEF SingleFlight, Active
<1>2. ASSUME NEW c \in Calls, CallDeploy(c) PROVE SingleFlight'
  <2> DEFINE own == {c} \cap WithFiles
             redeploy == c \in Redeploying
  <2>1. /\ own \in SUBSET Files /\ redeploy \in BOOLEAN
        /\ c \in Callers /\ saved \in SUBSET Files
    BY DEF Files, Callers, DeploymentAssumption, TypeInv, TypeOK
  <2>2. saved' = saved \cup own /\ DeployToSandbox(c, own, redeploy)
    BY <1>2 DEF CallDeploy
  <2>3. saved' \in SUBSET Files
    BY <2>1, <2>2
  <2> HIDE DEF own, redeploy
  <2>4. QED
    BY <2>1, <2>2, <2>3, NewLoop
<1>3. ASSUME NEW c \in Callers, JoinerTimeout(c) PROVE SingleFlight'
  BY <1>1, <1>3 DEF JoinerTimeout, fields
<1>4. ASSUME NEW l \in DOMAIN loops, MasterTimeout(l) PROVE SingleFlight'
  <2>1. Active(l) /\ loops[l].owner # None /\ promise' = 0
    BY <1>4 DEF MasterTimeout, Active
  <2>2. /\ DOMAIN loops' = DOMAIN loops /\ loops'[l].owner = None
        /\ \A k \in DOMAIN loops : k # l => loops'[k] = loops[k]
    BY <1>4, MasterTimeoutEffect
  <2>3. QED
    BY <2>1, <2>2 DEF SingleFlight, Active
<1>5. ASSUME NEW t \in DOMAIN tasks, TaskStep(t) PROVE SingleFlight'
  <2> DEFINE l == tasks[t].loop
             i == tasks[t].instance
  <2>1. tasks[t].pc # "settled" => l \in DOMAIN loops
    BY DEF TypeInv, TasksPlaced
  <2>2. tasks[t] \in Task /\ Len(sandboxes) \in Nat
    BY TypedElements
  <2>3. i \in 0..Len(sandboxes) /\ tasks[t].redeployed \in BOOLEAN
    BY <2>2 DEF TypeInv, TasksPlaced, Task
  <2>4. CASE TaskStatus(t) \/ TaskCreated(t)
    BY <1>1, <2>4 DEF TaskStatus, TaskCreated
  <2>5. CASE TaskWritten(t)
    <3>1. CASE Awaited(t) /\ LoopSucceeds(l, i, tasks[t].redeployed)
      <4>1. l \in DOMAIN loops /\ Active(l) /\ UNCHANGED session
        BY <2>1, <2>5, <3>1 DEF TaskWritten, Awaited, Active
      <4> HIDE DEF l, i
      <4>2. LoopChanged(l)
        BY <2>3, <3>1, <4>1, LoopSucceedsEffect
      <4>3. \/ loops'[l].pc # "ended" /\ promise' = promise
            \/ /\ loops'[l].pc = "ended"
               /\ promise' = IF loops[l].owner = None THEN promise ELSE 0
        BY <2>3, <3>1, <4>1, LoopSucceedsEffect
      <4>4. QED
        BY <4>1, <4>2, <4>3, RunningLoopStep
    <3>2. QED
      BY <1>1, <2>5, <3>1 DEF TaskWritten
  <2>6. CASE TaskFails(t)
    <3>1. PICK sessionLevel \in BOOLEAN :
             /\ tasks[t].pc # "settled" /\ UNCHANGED promise
             /\ \/ Awaited(t) /\ LoopFails(l, sessionLevel)
                \/ UNCHANGED loops
      BY <2>6 DEF TaskFails, SandboxCallFails
    <3>2. CASE Awaited(t) /\ LoopFails(l, sessionLevel)
      <4>1. l \in DOMAIN loops /\ Active(l)
        BY <2>1, <3>1, <3>2 DEF Awaited, Active
      <4> HIDE DEF l
      <4>2. LoopChanged(l) /\ loops'[l].pc = "backoff"
        BY <3>2, <4>1, LoopFailsEffect
      <4>3. QED
        BY <3>1, <4>1, <4>2, RunningLoopStep
    <3>3. QED
      BY <1>1, <3>1, <3>2
  <2>7. QED
    BY <1>5, <2>4, <2>5, <2>6 DEF TaskStep
<1>6. ASSUME NEW l \in DOMAIN loops, LoopStep(l) PROVE SingleFlight'
  <2>1. ASSUME NEW sessionLevel \in BOOLEAN, LoopFails(l, sessionLevel),
               Active(l), UNCHANGED promise
        PROVE  SingleFlight'
    <3>1. LoopChanged(l) /\ loops'[l].pc = "backoff"
      BY <2>1, LoopFailsEffect
    <3>2. QED
      BY <2>1, <3>1, RunningLoopStep
  <2>2. CASE AttemptTimeout(l) \/ SetupFails(l)
    BY <2>1, <2>2 DEF AttemptTimeout, SetupFails, Active
  <2>3. CASE SetupDone(l)
    <3>1. Active(l) /\ LoopReturns(l, loops[l].result)
      BY <2>3 DEF SetupDone, Active
    <3>2. loops[l].result \in Nat
      BY TypedElements DEF Loop
    <3>3. /\ LoopChanged(l) /\ loops'[l].pc = "ended"
          /\ promise' = IF loops[l].owner = None THEN promise ELSE 0
      BY <3>1, <3>2, LoopReturnsEffect
    <3>4. QED
      BY <3>1, <3>3, RunningLoopStep
  <2>4. CASE Retry(l)
    <3>1. /\ DOMAIN loops' = DOMAIN loops /\ Active(l)
          /\ loops'[l].pc = "attempt" /\ loops'[l].owner = loops[l].owner
          /\ \A k \in DOMAIN loops : k # l => loops'[k] = loops[k]
      BY <2>4, RetryEffect DEF Active
    <3>2. UNCHANGED promise
      BY <2>4 DEF Retry
    <3>3. promise # 0 => promise \in DOMAIN loops
      BY TypedElements DEF TypeInv, TypeOK
    <3>4. QED
      BY <3>1, <3>2, <3>3 DEF SingleFlight, Active
  <2>5. QED
    BY <1>6, <2>2, <2>3, <2>4 DEF LoopStep
<1>7. CASE TickUnhealthy
  <2>1. PICK c \in Callers, files \in SUBSET Files, redeploy \in BOOLEAN :
           DeployToSandbox(c, files, redeploy)
    <3>1. DeployToSandbox(Tick, {}, FALSE)
      BY <1>7 DEF TickUnhealthy
    <3>2. QED
      BY <3>1, Zenon DEF Callers
  <2>2. saved' \in SUBSET Files
    BY <1>7 DEF TickUnhealthy, TypeInv, TypeOK
  <2>3. QED
    BY <2>1, <2>2, NewLoop
<1>8. CASE TickStart \/ TickHealthy
  BY <1>1, <1>8 DEF TickStart, TickHealthy, fields
<1>9. ASSUME NEW i \in DOMAIN sandboxes, SandboxDies(i) PROVE SingleFlight'
  BY <1>1, <1>9 DEF SandboxDies, fields, running
<1>10. CASE Restart
  <2>1. promise' = 0 /\ DOMAIN loops' = {}
    BY <1>10, RestartEffect
  <2>2. QED
    BY <2>1 DEF SingleFlight
<1>11. CASE UNCHANGED vars
  BY <1>1, <1>11 DEF vars, fields, running
<1>12. QED
  BY <1>2, <1>3, <1>4, <1>5, <1>6, <1>7, <1>8, <1>9, <1>10, <1>11
  DEF Next, Deploying, Ticking

\* For any callers, late answers, abandoned loops and evictions, the promise
\* is the one running loop whose maker still waits.
THEOREM SingleFlightCorrect == Spec => []SingleFlight
<1> USE DeploymentAssumption
<1>1. Init => SingleFlight
  BY DEF Init, SingleFlight
<1>2. TypeInv /\ SingleFlight /\ [Next]_vars => SingleFlight'
  BY SingleFlightStep
<1>3. QED
  BY <1>1, <1>2, TypeCorrect, PTL DEF Spec, TypeInv

-----------------------------------------------------------------------------
\* The client and the sessions

\* A new deployment renews the session or keeps it, and has a client of it.
LEMMA DeploySession ==
    ASSUME TypeInv, NEW c \in Callers, NEW files \in SUBSET Files,
           NEW redeploy \in BOOLEAN, saved' \in SUBSET Files,
           DeployToSandbox(c, files, redeploy)
    PROVE  /\ session' \in {session, session + 1}
           /\ ClientOfSession => ClientOfSession'
<1>1. session \in Nat /\ client \in Nat /\ Len(loops) \in Nat
  BY TypedElements DEF TypeInv, TypeOK
<1>2. CASE promise # 0
  <2>1. UNCHANGED <<session, client>>
    BY <1>2, DeployToSandboxEffect
  <2>2. QED
    BY <2>1 DEF ClientOfSession
<1>3. CASE promise = 0
  <2>1. promise' = Len(loops) + 1 /\ BeginDeploy(promise', redeploy)
    BY <1>3, DeployToSandboxEffect
  <2>2. promise' \in Nat
    BY <1>1, <2>1
  <2>3. \/ session' = session + 1 /\ client' = session'
        \/ /\ session' = session
           /\ client' = IF client = 0 THEN session ELSE client
    BY <2>1, <2>2, BeginDeployEffect
  <2>4. QED
    BY <1>1, <2>3 DEF ClientOfSession
<1>4. QED
  BY <1>2, <1>3

\* In every step the session stays or is renewed, and the client is of it.
LEMMA SessionClientStep ==
    ASSUME TypeInv, DeploymentAssumption, [Next]_vars
    PROVE  /\ session' \in {session, session + 1}
           /\ ClientOfSession => ClientOfSession'
<1>1. session \in Nat /\ client \in Nat
  BY DEF TypeInv, TypeOK
<1>2. CASE /\ session' = session
           /\ \/ client' \in {0, client}
              \/ client' = IF client = 0 THEN session ELSE client
  BY <1>1, <1>2 DEF ClientOfSession
<1>3. ASSUME NEW l \in DOMAIN loops, NEW sessionLevel \in BOOLEAN,
             LoopFails(l, sessionLevel)
      PROVE  /\ session' \in {session, session + 1}
             /\ ClientOfSession => ClientOfSession'
  <2>1. \/ session' = session + 1 /\ client' = 0
        \/ session' = session /\ client' = client
    BY <1>3, LoopFailsEffect
  <2>2. QED
    BY <2>1 DEF ClientOfSession
<1>4. ASSUME NEW c \in Calls, CallDeploy(c)
      PROVE  /\ session' \in {session, session + 1}
             /\ ClientOfSession => ClientOfSession'
  <2> DEFINE own == {c} \cap WithFiles
             redeploy == c \in Redeploying
  <2>1. /\ own \in SUBSET Files /\ redeploy \in BOOLEAN
        /\ c \in Callers /\ saved \in SUBSET Files
    BY DEF Files, Callers, DeploymentAssumption, TypeInv, TypeOK
  <2>2. saved' = saved \cup own /\ DeployToSandbox(c, own, redeploy)
    BY <1>4 DEF CallDeploy
  <2>3. saved' \in SUBSET Files
    BY <2>1, <2>2
  <2> HIDE DEF own, redeploy
  <2>4. QED
    BY <2>1, <2>2, <2>3, DeploySession
<1>5. ASSUME NEW t \in DOMAIN tasks, TaskStep(t)
      PROVE  /\ session' \in {session, session + 1}
             /\ ClientOfSession => ClientOfSession'
  <2> DEFINE l == tasks[t].loop
             i == tasks[t].instance
  <2>1. tasks[t].pc # "settled" => l \in DOMAIN loops
    BY DEF TypeInv, TasksPlaced
  <2>2. tasks[t] \in Task /\ Len(sandboxes) \in Nat
    BY TypedElements
  <2>3. CASE TaskStatus(t) \/ TaskCreated(t)
    <3>1. session' = session /\ client' = GetClient(client)
      BY <2>3 DEF TaskStatus, TaskCreated, Continue
    <3>2. QED
      BY <1>2, <3>1 DEF GetClient
  <2>4. CASE TaskWritten(t)
    <3>1. /\ session' = session
          /\ client' = client \/ client' = GetClient(client)
      BY <2>4 DEF TaskWritten, LoopSucceeds
    <3>2. QED
      BY <1>2, <3>1 DEF GetClient
  <2>5. CASE TaskFails(t)
    <3>1. PICK sessionLevel \in BOOLEAN :
             /\ tasks[t].pc # "settled"
             /\ \/ LoopFails(l, sessionLevel)
                \/ UNCHANGED <<session, client>>
      BY <2>5 DEF TaskFails, SandboxCallFails
    <3>2. CASE LoopFails(l, sessionLevel)
      <4>1. l \in DOMAIN loops
        BY <2>1, <3>1
      <4> HIDE DEF l
      <4>2. QED
        BY <1>3, <3>2, <4>1
    <3>3. QED
      BY <1>2, <3>1, <3>2
  <2>6. QED
    BY <1>5, <2>3, <2>4, <2>5 DEF TaskStep
<1>6. ASSUME NEW l \in DOMAIN loops, LoopStep(l)
      PROVE  /\ session' \in {session, session + 1}
             /\ ClientOfSession => ClientOfSession'
  <2>1. CASE AttemptTimeout(l) \/ SetupFails(l)
    BY <1>3, <2>1 DEF AttemptTimeout, SetupFails
  <2>2. CASE SetupDone(l)
    BY <1>2, <2>2 DEF SetupDone, state
  <2>3. CASE Retry(l)
    <3>1. PICK redeploy \in BOOLEAN : BeginDeploy(l, redeploy)
      BY <2>3, RetryEffect
    <3>2. l \in Nat /\ saved' \in SUBSET Files
      BY <2>3, TypedElements, SMTT(20) DEF Retry, TypeInv, TypeOK
    <3>3. \/ session' = session + 1 /\ client' = session'
          \/ /\ session' = session
             /\ client' = IF client = 0 THEN session ELSE client
      BY <3>1, <3>2, BeginDeployEffect
    <3>4. QED
      BY <1>1, <3>3 DEF ClientOfSession
  <2>4. QED
    BY <1>6, <2>1, <2>2, <2>3 DEF LoopStep
<1>7. CASE TickUnhealthy
  <2>1. PICK c \in Callers, files \in SUBSET Files, redeploy \in BOOLEAN :
           DeployToSandbox(c, files, redeploy)
    <3>1. DeployToSandbox(Tick, {}, FALSE)
      BY <1>7 DEF TickUnhealthy
    <3>2. QED
      BY <3>1, Zenon DEF Callers
  <2>2. saved' \in SUBSET Files
    BY <1>7 DEF TickUnhealthy, TypeInv, TypeOK
  <2>3. QED
    BY <2>1, <2>2, DeploySession
<1>8. CASE TickStart
  BY <1>2, <1>8 DEF TickStart, GetClient
<1>9. ASSUME \/ TickHealthy \/ UNCHANGED vars
             \/ \E c \in Callers : JoinerTimeout(c)
             \/ \E m \in DOMAIN loops : MasterTimeout(m)
             \/ \E i \in DOMAIN sandboxes : SandboxDies(i)
      PROVE  UNCHANGED <<session, client>>
  BY <1>9 DEF TickHealthy, JoinerTimeout, MasterTimeout, SandboxDies,
              vars, state, fields
<1>10. CASE Restart
  <2>1. session' = session /\ client' = 0
    BY <1>10, RestartEffect
  <2>2. QED
    BY <1>2, <2>1
<1>11. QED
  BY <1>2, <1>4, <1>5, <1>6, <1>7, <1>8, <1>9, <1>10
  DEF Next, Deploying, Ticking

\* The cached client is never of another session than the agent's, whoever
\* resets it and whoever asks for a client meanwhile.
THEOREM ClientOfSessionCorrect == Spec => []ClientOfSession
<1> USE DeploymentAssumption
<1>1. Init => ClientOfSession
  BY DEF Init, ClientOfSession
<1>2. TypeInv /\ ClientOfSession /\ [Next]_vars => ClientOfSession'
  BY SessionClientStep
<1>3. QED
  BY <1>1, <1>2, TypeCorrect, PTL DEF Spec, TypeInv

-----------------------------------------------------------------------------
\* Sessions are renewed

\* What the attempts' sessions are as of session now: they grow, strictly after
\* each MaxAttempts attempts, and those of a loop that used its attempts up
\* are over.
Grows(s, now) ==
    /\ \A j \in DOMAIN s : s[j] <= now
    /\ \A i, j \in DOMAIN s : i <= j => s[i] <= s[j]
    /\ \A k \in DOMAIN s :
          k + 1 \in DOMAIN s /\ k % MaxAttempts = 0 => s[k] < s[k + 1]

UsedUp(s, now) ==
    Len(s) % MaxAttempts = 0 => \A j \in DOMAIN s : s[j] < now

SessionsGrow ==
    \A l \in DOMAIN loops :
        /\ Grows(loops[l].sessions, session)
        /\ loops[l].pc = "backoff" => UsedUp(loops[l].sessions, session)

\* Of any MaxAttempts consecutive numbers one is a multiple of MaxAttempts.
LEMMA MultipleAmong ==
    ASSUME NEW M \in Nat \ {0}, NEW k \in Nat
    PROVE  \E m \in k..(k + M - 1) : m % M = 0
<1> DEFINE a == k \div M
           r == k % M
<1>1. a \in Int /\ r \in 0..(M - 1) /\ k = M * a + r
  OBVIOUS
<1>2. \A d \in Int : (d >= 1 => d * M >= M) /\ (d <= 0 => d * M <= 0)
  OBVIOUS
<1>3. \A q \in Int : (q * M) % M = 0
  <2> SUFFICES ASSUME NEW q \in Int PROVE (q * M) % M = 0
    OBVIOUS
  <2> DEFINE b == (q * M) \div M
             s == (q * M) % M
  <2>1. b \in Int /\ s \in 0..(M - 1) /\ q * M = M * b + s
    OBVIOUS
  <2>2. (q - b) * M = s
    BY <2>1
  <2>3. QED
    BY <2>1, <2>2, <1>2
<1>4. CASE r = 0
  BY <1>1, <1>4
<1>5. CASE r # 0
  <2>1. k + (M - r) = (a + 1) * M
    BY <1>1
  <2>2. (k + (M - r)) % M = 0
    BY <2>1, <1>3, <1>1
  <2>3. QED
    BY <2>2, <1>1, <1>5
<1>6. QED
  BY <1>4, <1>5

\* Sessions that grow so are never the same MaxAttempts attempts later.
LEMMA GrowingIsFresh ==
    ASSUME DeploymentAssumption, NEW s \in Seq(Nat), NEW now \in Nat,
           Grows(s, now), NEW k \in DOMAIN s, k + MaxAttempts <= Len(s)
    PROVE  s[k + MaxAttempts] # s[k]
<1>1. Len(s) \in Nat /\ DOMAIN s = 1..Len(s) /\ k \in Nat /\ k >= 1
  BY LenProperties
<1>2. MaxAttempts \in Nat \ {0}
  BY DEF DeploymentAssumption
<1>3. PICK m \in k..(k + MaxAttempts - 1) : m % MaxAttempts = 0
  BY <1>1, <1>2, MultipleAmong
<1> DEFINE next == m + 1
           n == k + MaxAttempts
<1>4. /\ m \in DOMAIN s /\ next \in DOMAIN s /\ n \in DOMAIN s
      /\ k <= m /\ next <= n
  <2>1. m \in Int /\ k <= m /\ next <= n /\ next = m + 1
    BY <1>1, <1>2
  <2>2. n \in Int /\ n <= Len(s)
    BY <1>1, <1>2
  <2> HIDE DEF next, n
  <2>3. PICK len \in Nat : len = Len(s)
    BY <1>1
  <2>4. n <= len /\ k >= 1 /\ k \in Nat
    BY <1>1, <2>2, <2>3
  <2>5. m \in 1..len /\ next \in 1..len /\ n \in 1..len
    BY <2>1, <2>2, <2>4
  <2>6. QED
    BY <1>1, <2>1, <2>3, <2>5
<1>5. s[m] < s[next]
  <2>1. m \in DOMAIN s /\ m + 1 \in DOMAIN s /\ m % MaxAttempts = 0
    BY <1>3, <1>4
  <2>2. QED
    BY <2>1, Zenon DEF Grows
<1> HIDE DEF next, n
<1>6. s[k] <= s[m] /\ s[next] <= s[n]
  BY <1>4 DEF Grows
<1>7. s[k] \in Nat /\ s[m] \in Nat /\ s[next] \in Nat /\ s[n] \in Nat
  BY <1>1, <1>4, ElementOfSeq
<1>8. s[n] # s[k]
  <2>1. \A a, b, c, d \in Nat : a <= b /\ b < c /\ c <= d => d # a
    OBVIOUS
  <2>2. QED
    BY <1>5, <1>6, <1>7, <2>1, Zenon
<1>9. QED
  BY <1>8 DEF n

\* As sessions are only renewed, growing sessions stay so.
LEMMA GrowsLater ==
    ASSUME NEW s \in Seq(Nat), NEW now \in Nat, NEW later \in Nat,
           now <= later, Grows(s, now)
    PROVE  Grows(s, later) /\ (UsedUp(s, now) => UsedUp(s, later))
<1>1. \A j \in DOMAIN s : s[j] \in Nat
  BY LenProperties, ElementOfSeq
<1>2. Grows(s, later)
  BY <1>1 DEF Grows
<1>3. UsedUp(s, now) => UsedUp(s, later)
  BY <1>1 DEF UsedUp
<1>4. QED
  BY <1>2, <1>3

\* The next attempt, after a session it must not share if they are used up.
LEMMA GrowsOn ==
    ASSUME NEW s \in Seq(Nat), NEW now \in Nat, NEW later \in Nat,
           now <= later, Grows(s, now), UsedUp(s, now)
    PROVE  Grows(Append(s, later), later)
<1> DEFINE r == Append(s, later)
<1>1. /\ Len(s) \in Nat /\ DOMAIN s = 1..Len(s)
      /\ DOMAIN r = 1..(Len(s) + 1)
      /\ \A j \in DOMAIN s : r[j] = s[j]
      /\ r[Len(s) + 1] = later
  BY ElementAppended
<1>2. \A j \in DOMAIN s : s[j] \in Nat /\ s[j] <= later
  BY <1>1, ElementOfSeq DEF Grows
<1> HIDE DEF r
<1>3. \A j \in DOMAIN r : r[j] <= later
  BY <1>1, <1>2
<1>4. ASSUME NEW i \in DOMAIN r, NEW j \in DOMAIN r, i <= j
      PROVE  r[i] <= r[j]
  <2>1. CASE j = Len(s) + 1
    BY <1>1, <1>3, <2>1
  <2>2. CASE j # Len(s) + 1
    <3>1. i \in DOMAIN s /\ j \in DOMAIN s
      BY <1>1, <1>4, <2>2
    <3>2. QED
      BY <1>1, <1>4, <3>1 DEF Grows
  <2>3. QED
    BY <2>1, <2>2
<1>5. ASSUME NEW k \in DOMAIN r, k + 1 \in DOMAIN r, k % MaxAttempts = 0
      PROVE  r[k] < r[k + 1]
  <2>1. k \in DOMAIN s
    BY <1>1, <1>5
  <2>2. CASE k = Len(s)
    <3>1. s[k] < now
      BY <1>5, <2>1, <2>2 DEF UsedUp
    <3>2. r[k] = s[k] /\ r[k + 1] = later /\ s[k] \in Nat
      BY <1>1, <1>2, <2>1, <2>2
    <3>3. QED
      BY <3>1, <3>2
  <2>3. CASE k # Len(s)
    <3>1. k + 1 \in DOMAIN s
      BY <1>1, <2>1, <2>3
    <3>2. s[k] < s[k + 1]
      BY <1>5, <2>1, <3>1 DEF Grows
    <3>3. QED
      BY <1>1, <2>1, <3>1, <3>2
  <2>4. QED
    BY <2>2, <2>3
<1>6. QED
  BY <1>3, <1>4, <1>5 DEF Grows, r

\* A deploy() begins with a client of the session of now.
LEMMA BeginDeployClient ==
    ASSUME TypeInv, ClientOfSession, NEW l \in Nat, NEW redeploy \in BOOLEAN,
           saved' \in SUBSET Files, BeginDeploy(l, redeploy)
    PROVE  client' = session'
<1>1. \/ session' = session + 1 /\ client' = session'
      \/ /\ session' = session
         /\ client' = IF client = 0 THEN session ELSE client
  BY BeginDeployEffect
<1>2. QED
  BY <1>1 DEF ClientOfSession

\* The steps in which a loop keeps its attempts.
LEMMA SameAttempts ==
    ASSUME TypeInv, SessionsGrow, session' \in {session, session + 1},
           \A l \in DOMAIN loops' :
              /\ l \in DOMAIN loops
              /\ loops'[l].sessions = loops[l].sessions
              /\ \/ loops'[l].pc \in {loops[l].pc, "ended", "setup"}
                 \/ session' = session + 1
                 \/ ~AttemptsExhausted(l)
    PROVE  SessionsGrow'
<1> SUFFICES ASSUME NEW l \in DOMAIN loops'
             PROVE  /\ Grows(loops[l].sessions, session')
                    /\ loops'[l].pc = "backoff" =>
                          UsedUp(loops[l].sessions, session')
  BY DEF SessionsGrow
<1> DEFINE s == loops[l].sessions
<1>1. /\ l \in DOMAIN loops /\ s \in Seq(Nat)
      /\ session \in Nat /\ session' \in Nat /\ session <= session'
  <2>1. l \in DOMAIN loops /\ s \in Seq(Nat)
    BY TypedElements DEF Loop
  <2>2. session \in Nat
    BY DEF TypeInv, TypeOK
  <2>3. QED
    BY <2>1, <2>2
<1>2. Grows(s, session) /\ (loops[l].pc = "backoff" => UsedUp(s, session))
  BY <1>1 DEF SessionsGrow
<1>3. Grows(s, session')
  <2> HIDE DEF s
  <2>1. QED
    BY <1>1, <1>2, GrowsLater
<1>4. ASSUME loops'[l].pc = "backoff" PROVE UsedUp(s, session')
  <2>1. CASE loops[l].pc = "backoff"
    <3> HIDE DEF s
    <3>1. QED
      BY <1>1, <1>2, <2>1, GrowsLater
  <2>2. CASE session' = session + 1
    <3>1. \A j \in DOMAIN s : s[j] \in Nat /\ s[j] <= session
      BY <1>1, <1>2, LenProperties, ElementOfSeq DEF Grows
    <3>2. QED
      BY <1>1, <2>2, <3>1 DEF UsedUp
  <2>3. CASE ~AttemptsExhausted(l)
    BY <2>3 DEF AttemptsExhausted, UsedUp
  <2>4. QED
    BY <1>4, <2>1, <2>2, <2>3
<1>5. QED
  BY <1>3, <1>4

LEMMA FailedAttempt ==
    ASSUME TypeInv, DeploymentAssumption, SessionsGrow,
           NEW l \in DOMAIN loops, NEW sessionLevel \in BOOLEAN,
           LoopFails(l, sessionLevel)
    PROVE  SessionsGrow'
<1>1. LoopChanged(l)
  BY LoopFailsEffect
<1>2. session' = session + 1 \/ (session' = session /\ ~AttemptsExhausted(l))
  BY LoopFailsEffect
<1>3. QED
  BY <1>1, <1>2, SameAttempts DEF LoopChanged

LEMMA FirstAttempt ==
    ASSUME TypeInv, SessionsGrow, ClientOfSession,
           session' \in {session, session + 1},
           NEW c \in Callers, NEW files \in SUBSET Files,
           NEW redeploy \in BOOLEAN, saved' \in SUBSET Files,
           DeployToSandbox(c, files, redeploy)
    PROVE  SessionsGrow'
<1>1. /\ Len(loops) \in Nat /\ DOMAIN loops = 1..Len(loops)
      /\ session \in Nat /\ session' \in Nat /\ session <= session'
  BY TypedElements DEF TypeInv, TypeOK
<1>2. CASE promise # 0
  <2>1. UNCHANGED <<session, loops>>
    BY <1>2, DeployToSandboxEffect
  <2>2. QED
    BY <2>1 DEF SessionsGrow
<1>3. CASE promise = 0
  <2>1. /\ DOMAIN loops' = 1..(Len(loops) + 1)
        /\ \A l \in DOMAIN loops : loops'[l] = loops[l]
    BY <1>3, DeployToSandboxEffect
  <2>2. /\ loops'[Len(loops) + 1].pc = "attempt"
        /\ loops'[Len(loops) + 1].sessions = <<client'>>
    BY <1>3, DeployToSandboxEffect
  <2>0. client' = session'
    <3>1. promise' = Len(loops) + 1 /\ BeginDeploy(promise', redeploy)
      BY <1>3, DeployToSandboxEffect
    <3>2. promise' \in Nat
      BY <1>1, <3>1
    <3>3. QED
      BY <3>1, <3>2, BeginDeployClient
  <2>3. Grows(<<session'>>, session')
    BY <1>1 DEF Grows
  <2>4. ASSUME NEW l \in DOMAIN loops
        PROVE  /\ Grows(loops'[l].sessions, session')
               /\ loops'[l].pc = "backoff" =>
                     UsedUp(loops'[l].sessions, session')
    <3>1. loops'[l] = loops[l] /\ loops[l].sessions \in Seq(Nat)
      BY <2>1, TypedElements DEF Loop
    <3>2. QED
      BY <1>1, <3>1, GrowsLater DEF SessionsGrow
  <2>5. ASSUME NEW l \in DOMAIN loops'
        PROVE  /\ Grows(loops'[l].sessions, session')
               /\ loops'[l].pc = "backoff" =>
                     UsedUp(loops'[l].sessions, session')
    <3>1. l = Len(loops) + 1 \/ l \in DOMAIN loops
      BY <1>1, <2>1
    <3>2. QED
      BY <2>0, <2>2, <2>3, <2>4, <3>1
  <2>6. QED
    BY <2>5 DEF SessionsGrow
<1>4. QED
  BY <1>2, <1>3

LEMMA NextAttempt ==
    ASSUME TypeInv, SessionsGrow, ClientOfSession,
           session' \in {session, session + 1},
           NEW l \in DOMAIN loops, Retry(l)
    PROVE  SessionsGrow'
<1>1. /\ session \in Nat /\ session' \in Nat /\ session <= session'
      /\ \A k \in DOMAIN loops : loops[k].sessions \in Seq(Nat)
  <2>1. \A k \in DOMAIN loops : loops[k].sessions \in Seq(Nat)
    BY TypedElements DEF Loop
  <2>2. session \in Nat
    BY DEF TypeInv, TypeOK
  <2>3. QED
    BY <2>1, <2>2
<1>2. /\ loops[l].pc = "backoff" /\ loops'[l].pc = "attempt"
      /\ DOMAIN loops' = DOMAIN loops
      /\ loops'[l].sessions = Append(loops[l].sessions, client')
      /\ \A k \in DOMAIN loops : k # l => loops'[k] = loops[k]
  BY RetryEffect
<1>0. client' = session'
  <2>1. PICK redeploy \in BOOLEAN : BeginDeploy(l, redeploy)
    BY RetryEffect
  <2>2. l \in Nat /\ saved' \in SUBSET Files
    BY TypedElements, SMTT(20) DEF Retry, TypeInv, TypeOK
  <2>3. QED
    BY <2>1, <2>2, BeginDeployClient
<1>3. Grows(loops'[l].sessions, session')
  BY <1>0, <1>1, <1>2, GrowsOn DEF SessionsGrow
<1>4. ASSUME NEW k \in DOMAIN loops, k # l
      PROVE  /\ Grows(loops'[k].sessions, session')
             /\ loops'[k].pc = "backoff" =>
                   UsedUp(loops'[k].sessions, session')
  BY <1>1, <1>2, <1>4, GrowsLater DEF SessionsGrow
<1>5. QED
  BY <1>2, <1>3, <1>4 DEF SessionsGrow

LEMMA SessionsGrowStep ==
    ASSUME TypeInv, DeploymentAssumption, SessionsGrow, ClientOfSession,
           [Next]_vars
    PROVE  SessionsGrow'
<1>1. session' \in {session, session + 1}
  BY SessionClientStep
<1>2. CASE UNCHANGED loops
  BY <1>1, <1>2, SameAttempts
<1>3. ASSUME NEW l \in DOMAIN loops, LoopChanged(l),
             loops'[l].pc \in {"ended", "setup"}
      PROVE  SessionsGrow'
  BY <1>1, <1>3, SameAttempts DEF LoopChanged
<1>4. ASSUME NEW c \in Calls, CallDeploy(c) PROVE SessionsGrow'
  <2> DEFINE own == {c} \cap WithFiles
             redeploy == c \in Redeploying
  <2>1. /\ own \in SUBSET Files /\ redeploy \in BOOLEAN
        /\ c \in Callers /\ saved \in SUBSET Files
    BY DEF Files, Callers, DeploymentAssumption, TypeInv, TypeOK
  <2>2. saved' = saved \cup own /\ DeployToSandbox(c, own, redeploy)
    BY <1>4 DEF CallDeploy
  <2>3. saved' \in SUBSET Files
    BY <2>1, <2>2
  <2> HIDE DEF own, redeploy
  <2>4. QED
    BY <1>1, <2>1, <2>2, <2>3, FirstAttempt
<1>5. ASSUME NEW t \in DOMAIN tasks, TaskStep(t) PROVE SessionsGrow'
  <2> DEFINE l == tasks[t].loop
             i == tasks[t].instance
  <2>1. tasks[t].pc # "settled" => l \in DOMAIN loops
    BY DEF TypeInv, TasksPlaced
  <2>2. tasks[t] \in Task /\ Len(sandboxes) \in Nat
    BY TypedElements
  <2>3. i \in 0..Len(sandboxes) /\ tasks[t].redeployed \in BOOLEAN
    BY <2>2 DEF TypeInv, TasksPlaced, Task
  <2>4. CASE TaskStatus(t) \/ TaskCreated(t)
    BY <1>2, <2>4 DEF TaskStatus, TaskCreated
  <2>5. CASE TaskWritten(t)
    <3>1. CASE LoopSucceeds(l, i, tasks[t].redeployed)
      <4>1. l \in DOMAIN loops /\ UNCHANGED session
        BY <2>1, <2>5 DEF TaskWritten
      <4> HIDE DEF l, i
      <4>2. LoopChanged(l)
        BY <2>3, <3>1, <4>1, LoopSucceedsEffect
      <4>3. loops'[l].pc \in {"ended", "setup"}
        BY <2>3, <3>1, <4>1, LoopSucceedsEffect
      <4>4. QED
        BY <1>3, <4>1, <4>2, <4>3
    <3>2. QED
      BY <1>2, <2>5, <3>1 DEF TaskWritten
  <2>6. CASE TaskFails(t)
    <3>1. PICK sessionLevel \in BOOLEAN :
             /\ tasks[t].pc # "settled"
             /\ LoopFails(l, sessionLevel) \/ UNCHANGED loops
      BY <2>6 DEF TaskFails, SandboxCallFails
    <3>2. CASE LoopFails(l, sessionLevel)
      <4>1. l \in DOMAIN loops
        BY <2>1, <3>1
      <4> HIDE DEF l
      <4>2. QED
        BY <3>2, <4>1, FailedAttempt
    <3>3. QED
      BY <1>2, <3>1, <3>2
  <2>7. QED
    BY <1>5, <2>4, <2>5, <2>6 DEF TaskStep
<1>6. ASSUME NEW l \in DOMAIN loops, LoopStep(l) PROVE SessionsGrow'
  <2>1. CASE AttemptTimeout(l) \/ SetupFails(l)
    BY <2>1, FailedAttempt DEF AttemptTimeout, SetupFails
  <2>2. CASE SetupDone(l)
    <3>1. LoopReturns(l, loops[l].result) /\ loops[l].result \in Nat
      BY <2>2, TypedElements DEF SetupDone, Loop
    <3>2. LoopChanged(l) /\ loops'[l].pc = "ended"
      BY <3>1, LoopReturnsEffect
    <3>3. QED
      BY <1>3, <3>2
  <2>3. CASE Retry(l)
    BY <1>1, <2>3, NextAttempt
  <2>4. QED
    BY <1>6, <2>1, <2>2, <2>3 DEF LoopStep
<1>7. CASE TickUnhealthy
  <2>1. PICK c \in Callers, files \in SUBSET Files, redeploy \in BOOLEAN :
           DeployToSandbox(c, files, redeploy)
    <3>1. DeployToSandbox(Tick, {}, FALSE)
      BY <1>7 DEF TickUnhealthy
    <3>2. QED
      BY <3>1, Zenon DEF Callers
  <2>2. saved' \in SUBSET Files
    BY <1>7 DEF TickUnhealthy, TypeInv, TypeOK
  <2>3. QED
    BY <1>1, <2>1, <2>2, FirstAttempt
<1>8. ASSUME NEW l \in DOMAIN loops, MasterTimeout(l) PROVE SessionsGrow'
  <2>1. /\ DOMAIN loops' = DOMAIN loops /\ loops'[l].pc = loops[l].pc
        /\ loops'[l].sessions = loops[l].sessions
        /\ \A k \in DOMAIN loops : k # l => loops'[k] = loops[k]
    BY <1>8, MasterTimeoutEffect
  <2>2. QED
    BY <1>1, <2>1, SameAttempts
<1>9. ASSUME \/ TickStart \/ TickHealthy \/ UNCHANGED vars
             \/ \E c \in Callers : JoinerTimeout(c)
             \/ \E i \in DOMAIN sandboxes : SandboxDies(i)
      PROVE  UNCHANGED loops
  BY <1>9 DEF TickStart, TickHealthy, JoinerTimeout, SandboxDies,
              vars, running
<1>10. CASE Restart
  <2>1. DOMAIN loops' = {}
    BY <1>10, RestartEffect
  <2>2. QED
    BY <2>1 DEF SessionsGrow
<1>11. QED
  BY <1>2, <1>4, <1>5, <1>6, <1>7, <1>8, <1>9, <1>10
  DEF Next, Deploying, Ticking

\* For every MaxAttempts, no loop makes more than that many attempts with a
\* client of one session, whatever abandoned loops and redeploying callers do
\* with session and client.
THEOREM FreshSessionCorrect == Spec => []FreshSession
<1> USE DeploymentAssumption
<1>1. Init => SessionsGrow
  BY DEF Init, SessionsGrow
<1>2. TypeInv /\ SessionsGrow /\ ClientOfSession /\ [Next]_vars
         => SessionsGrow'
  BY SessionsGrowStep
<1>3. TypeInv /\ SessionsGrow => FreshSession
  <2> SUFFICES ASSUME TypeInv, SessionsGrow, NEW l \in DOMAIN loops,
                      NEW k \in DOMAIN loops[l].sessions,
                      k + MaxAttempts <= Len(loops[l].sessions)
               PROVE  loops[l].sessions[k + MaxAttempts]
                          # loops[l].sessions[k]
    BY DEF FreshSession
  <2>1. /\ loops[l].sessions \in Seq(Nat) /\ session \in Nat
        /\ Grows(loops[l].sessions, session)
    BY TypedElements DEF Loop, TypeInv, TypeOK, SessionsGrow
  <2>2. QED
    BY <2>1, GrowingIsFresh
<1>4. QED
  BY <1>1, <1>2, <1>3, TypeCorrect, ClientOfSessionCorrect, PTL
  DEF Spec, TypeInv

-----------------------------------------------------------------------------
\* The files of a call

\* A call with a preview waited for a loop that has ended.
Returned ==
    \A c \in Calls :
        calls[c].pc = "preview" /\ calls[c].loop # 0 =>
            /\ calls[c].loop \in DOMAIN loops
            /\ loops[calls[c].loop].pc = "ended"

\* Loop l brings the file of c: it is saved and among the files of l, so that
\* whichever of the two a deploy() of l writes, it is in it; and the instance
\* that l deployed has it.
Serves(l, c) ==
    /\ c \in saved /\ c \in loops[l].files
    /\ loops[l].pc \in {"setup", "ended"} =>
          /\ loops[l].result \in DOMAIN sandboxes
          /\ c \in Given(sandboxes[loops[l].result])
    /\ \A t \in DOMAIN tasks :
          tasks[t].pc = "writing" /\ tasks[t].loop = l => c \in tasks[t].files

FilesInv ==
    /\ Returned
    /\ \A l \in DOMAIN loops :
          loops[l].owner \in WithFiles => Serves(l, loops[l].owner)

\* No file is lost from the state, nor from what an instance was given.
Grown ==
    /\ saved \subseteq saved'
    /\ DOMAIN sandboxes \subseteq DOMAIN sandboxes'
    /\ \A i \in DOMAIN sandboxes :
          Given(sandboxes[i]) \subseteq Given(sandboxes'[i])

LEMMA ContinueKept ==
    ASSUME NEW t \in DOMAIN tasks, NEW pc, NEW i, NEW redeployed, NEW files,
           Continue(t, pc, i, redeployed, files)
    PROVE  /\ DOMAIN tasks' = DOMAIN tasks
           /\ tasks'[t].loop = tasks[t].loop
           /\ tasks'[t].pc = pc /\ tasks'[t].files = files
           /\ \A u \in DOMAIN tasks : u # t => tasks'[u] = tasks[u]
  BY DEF Continue

LEMMA GrownStep ==
    ASSUME TypeInv, [Next]_vars
    PROVE  Grown
<1>1. /\ Len(sandboxes) \in Nat /\ DOMAIN sandboxes = 1..Len(sandboxes)
      /\ sandboxes \in Seq(Sandbox)
  BY TypedElements DEF TypeInv, TypeOK, Sandbox
<1>2. CASE UNCHANGED <<saved, sandboxes>>
  BY <1>2 DEF Grown
<1>3. ASSUME NEW c \in Calls, CallDeploy(c) PROVE Grown
  BY <1>3 DEF CallDeploy, Grown
<1>4. ASSUME NEW t \in DOMAIN tasks, TaskStep(t) PROVE Grown
  <2>1. /\ tasks[t] \in Task /\ UNCHANGED saved
        /\ tasks[t].instance <= Len(sandboxes)
    BY <1>4, TypedElements
    DEF TaskStep, TaskStatus, TaskCreated, TaskWritten, TaskFails,
        TypeInv, TasksPlaced
  <2>2. /\ tasks[t].client \in Nat /\ tasks[t].files \in SUBSET Files
        /\ tasks[t].instance \in 0..Len(sandboxes)
    BY <1>1, <2>1 DEF Task
  <2>3. CASE SandboxesLater
    BY <2>1, <2>3 DEF SandboxesLater, Grown
  <2>4. CASE UNCHANGED sandboxes
    BY <1>2, <2>1, <2>4
  <2>5. CASE TaskCreated(t)
    <3>1. CASE CreateInstance(tasks[t].client, tasks[t].files)
      BY <2>2, <2>3, <3>1, CreateInstanceEffect
    <3>2. CASE FindInstance(tasks[t].client)
      BY <2>4, <3>2 DEF FindInstance
    <3>3. QED
      BY <2>5, <3>1, <3>2 DEF TaskCreated
  <2>6. CASE TaskWritten(t)
    <3>1. /\ WriteFiles(tasks[t].instance, tasks[t].files)
          /\ tasks[t].instance # 0
      BY <2>6 DEF TaskWritten, Reachable
    <3>2. tasks[t].instance \in DOMAIN sandboxes
      BY <1>1, <2>2, <3>1
    <3>3. QED
      BY <2>2, <2>3, <3>1, <3>2, WriteFilesEffect
  <2>7. CASE TaskFails(t)
    <3>1. PICK sessionLevel \in BOOLEAN : SandboxCallFails(t, sessionLevel)
      BY <2>7 DEF TaskFails
    <3>2. QED
      BY <2>3, <3>1, SandboxCallFailsEffect
  <2>8. CASE TaskStatus(t)
    BY <2>4, <2>8 DEF TaskStatus
  <2>9. QED
    BY <1>4, <2>5, <2>6, <2>7, <2>8 DEF TaskStep
<1>6. ASSUME NEW i \in DOMAIN sandboxes, SandboxDies(i) PROVE Grown
  <2>1. /\ sandboxes' = [sandboxes EXCEPT ![i].healthy = FALSE]
        /\ UNCHANGED saved
    BY <1>6 DEF SandboxDies, state
  <2>2. ASSUME NEW j \in DOMAIN sandboxes
        PROVE  Given(sandboxes[j]) \subseteq Given(sandboxes'[j])
    <3>1. sandboxes[j] \in Sandbox
      BY TypedElements
    <3>2. QED
      BY <2>1, <3>1 DEF Sandbox, Given
  <2>3. QED
    BY <2>1, <2>2 DEF Grown
<1>8. ASSUME NEW l \in DOMAIN loops, LoopStep(l) PROVE Grown
  BY <1>2, <1>8
  DEF LoopStep, AttemptTimeout, SetupFails, SetupDone, Retry, state
<1>9. ASSUME \/ \E c \in Callers : JoinerTimeout(c)
             \/ \E l \in DOMAIN loops : MasterTimeout(l)
             \/ TickStart \/ TickHealthy \/ TickUnhealthy \/ Restart
             \/ UNCHANGED vars
      PROVE  Grown
  BY <1>2, <1>9 DEF JoinerTimeout, MasterTimeout, TickStart, TickHealthy,
                    TickUnhealthy, Restart, vars, state
<1>10. QED
  BY <1>3, <1>4, <1>6, <1>8, <1>9 DEF Next, Deploying, Ticking

\* An ended loop stays, and a new preview is of a loop that ended.
LEMMA ReturnedKept ==
    ASSUME Returned,
           \A l \in DOMAIN loops : loops[l].pc = "ended" =>
              l \in DOMAIN loops' /\ loops'[l].pc = "ended",
           \A c \in Calls :
              \/ calls'[c] = calls[c]
              \/ calls'[c].pc # "preview"
              \/ /\ calls'[c].loop \in DOMAIN loops'
                 /\ loops'[calls'[c].loop].pc = "ended"
    PROVE  Returned'
<1> SUFFICES ASSUME NEW c \in Calls,
                    calls'[c].pc = "preview", calls'[c].loop # 0
             PROVE  /\ calls'[c].loop \in DOMAIN loops'
                    /\ loops'[calls'[c].loop].pc = "ended"
  BY DEF Returned
<1>1. CASE calls'[c] = calls[c]
  BY <1>1 DEF Returned
<1>2. QED
  BY <1>1

\* A loop serves its maker as long as what it returns has the file, and so has
\* whatever is being written for it.
LEMMA ServesLater ==
    ASSUME Grown, NEW l \in DOMAIN loops, NEW c, Serves(l, c),
           c \in loops'[l].files,
           loops'[l].pc \in {"setup", "ended"} =>
              \/ /\ loops[l].pc \in {"setup", "ended"}
                 /\ loops'[l].result = loops[l].result
              \/ /\ loops'[l].result \in DOMAIN sandboxes'
                 /\ c \in Given(sandboxes'[loops'[l].result]),
           \A t \in DOMAIN tasks' :
              \/ t \in DOMAIN tasks /\ tasks'[t] = tasks[t]
              \/ tasks'[t].pc # "writing"
              \/ tasks'[t].loop # l
              \/ c \in tasks'[t].files
    PROVE  Serves(l, c)'
<1>1. c \in saved'
  BY DEF Serves, Grown
<1>2. ASSUME loops'[l].pc \in {"setup", "ended"}
      PROVE  /\ loops'[l].result \in DOMAIN sandboxes'
             /\ c \in Given(sandboxes'[loops'[l].result])
  BY <1>2 DEF Serves, Grown
<1>3. ASSUME NEW t \in DOMAIN tasks', tasks'[t].pc = "writing",
             tasks'[t].loop = l
      PROVE  c \in tasks'[t].files
  BY <1>3 DEF Serves
<1>4. QED
  BY <1>1, <1>2, <1>3 DEF Serves

\* A loop that runs is changed, or given up by its maker, and no task begins
\* to write.
LEMMA LoopMoves ==
    ASSUME TypeInv, DeploymentAssumption, FilesInv, Grown,
           NEW l \in DOMAIN loops, loops[l].pc # "ended",
           DOMAIN loops' = DOMAIN loops,
           \A k \in DOMAIN loops : k # l => loops'[k] = loops[k],
           \/ loops'[l].owner = None
           \/ /\ loops'[l].owner = loops[l].owner
              /\ loops'[l].files = loops[l].files,
           \A c \in WithFiles :
              loops[l].owner = c /\ loops'[l].pc \in {"setup", "ended"} =>
                 \/ /\ loops[l].pc = "setup"
                    /\ loops'[l].result = loops[l].result
                 \/ /\ loops'[l].result \in DOMAIN sandboxes'
                    /\ c \in Given(sandboxes'[loops'[l].result]),
           \A c \in Callers :
              \/ calls'[c] = calls[c]
              \/ calls'[c].pc # "preview"
              \/ calls'[c].loop = l /\ loops'[l].pc = "ended",
           \A t \in DOMAIN tasks' :
              \/ t \in DOMAIN tasks /\ tasks'[t] = tasks[t]
              \/ tasks'[t].pc # "writing"
    PROVE  FilesInv'
<1>1. Returned'
  <2>1. Returned
    BY DEF FilesInv
  <2>2. \A k \in DOMAIN loops : loops[k].pc = "ended" =>
           k \in DOMAIN loops' /\ loops'[k].pc = "ended"
    OBVIOUS
  <2>3. \A c \in Calls :
           \/ calls'[c] = calls[c]
           \/ calls'[c].pc # "preview"
           \/ /\ calls'[c].loop \in DOMAIN loops'
              /\ loops'[calls'[c].loop].pc = "ended"
    BY DEF Callers
  <2>4. QED
    BY <2>1, <2>2, <2>3, ReturnedKept
<1>2. ASSUME NEW k \in DOMAIN loops, NEW c \in WithFiles, loops'[k].owner = c
      PROVE  Serves(k, c)'
  <2>1. c # None
    BY DEF DeploymentAssumption
  <2>2. loops[k].owner = c /\ loops'[k].files = loops[k].files
    BY <1>2, <2>1
  <2>3. Serves(k, c)
    BY <2>2 DEF FilesInv
  <2>4. c \in loops'[k].files
    BY <2>2, <2>3 DEF Serves
  <2>5. loops'[k].pc \in {"setup", "ended"} =>
           \/ /\ loops[k].pc \in {"setup", "ended"}
              /\ loops'[k].result = loops[k].result
           \/ /\ loops'[k].result \in DOMAIN sandboxes'
              /\ c \in Given(sandboxes'[loops'[k].result])
    BY <2>2
  <2>6. QED
    BY <2>3, <2>4, <2>5, ServesLater
<1>3. QED
  BY <1>1, <1>2 DEF FilesInv

\* No loop is changed, no preview is new, and what a task begins to write has
\* the file of the loop's maker.
LEMMA LoopsStay ==
    ASSUME FilesInv, Grown, UNCHANGED loops,
           \A c \in Calls : calls'[c] = calls[c] \/ calls'[c].pc # "preview",
           \A t \in DOMAIN tasks' :
              \/ t \in DOMAIN tasks /\ tasks'[t] = tasks[t]
              \/ tasks'[t].pc # "writing"
              \/ \A l \in DOMAIN loops :
                    loops[l].owner \in WithFiles /\ tasks'[t].loop = l =>
                       loops[l].owner \in tasks'[t].files
    PROVE  FilesInv'
<1>1. Returned'
  BY ReturnedKept DEF FilesInv
<1>2. ASSUME NEW l \in DOMAIN loops, NEW c \in WithFiles, loops[l].owner = c
      PROVE  Serves(l, c)'
  <2>1. Serves(l, c)
    BY <1>2 DEF FilesInv
  <2>2. c \in loops'[l].files
    BY <2>1 DEF Serves
  <2>3. \A t \in DOMAIN tasks' :
           \/ t \in DOMAIN tasks /\ tasks'[t] = tasks[t]
           \/ tasks'[t].pc # "writing"
           \/ tasks'[t].loop # l
           \/ c \in tasks'[t].files
    BY <1>2
  <2>4. QED
    BY <2>1, <2>2, <2>3, ServesLater
<1>3. QED
  BY <1>1, <1>2 DEF FilesInv

\* A new deployment brings the file of its maker.
LEMMA NewLoopServes ==
    ASSUME TypeInv, DeploymentAssumption, FilesInv, Grown,
           NEW c \in Callers, NEW files \in SUBSET Files,
           NEW redeploy \in BOOLEAN, saved' \in SUBSET Files,
           c \in WithFiles => c \in files /\ c \in saved',
           DeployToSandbox(c, files, redeploy)
    PROVE  FilesInv'
<1>1. /\ Len(loops) \in Nat /\ DOMAIN loops = 1..Len(loops)
      /\ Len(tasks) \in Nat /\ DOMAIN tasks = 1..Len(tasks)
      /\ calls \in [Callers -> Call]
  BY TypedElements DEF TypeInv, TypeOK
<1>2. ASSUME NEW w, calls' = [calls EXCEPT ![c] = [pc |-> "waiting", loop |-> w]]
      PROVE  \A d \in Calls : calls'[d] = calls[d] \/ calls'[d].pc # "preview"
  BY <1>1, <1>2 DEF Callers
<1>3. CASE promise # 0
  <2>1. calls' = [calls EXCEPT ![c] = [pc |-> "waiting", loop |-> promise]]
    BY <1>3, DeployToSandboxEffect
  <2>2. UNCHANGED <<loops, tasks>>
    BY <1>3, DeployToSandboxEffect
  <2>3. QED
    BY <1>2, <2>1, <2>2, LoopsStay
<1>4. CASE promise = 0
  <2>0. PICK n \in Nat : n = Len(loops) + 1
    BY <1>1
  <2>1. promise' = n /\ BeginDeploy(promise', redeploy)
    <3>1. promise' = Len(loops) + 1 /\ BeginDeploy(promise', redeploy)
      BY <1>4, DeployStarts
    <3>2. QED
      BY <2>0, <3>1
  <2>2. calls' = [calls EXCEPT ![c] = [pc |-> "waiting", loop |-> promise']]
    BY <1>4, DeployStarts
  <2>3. /\ DOMAIN loops' = 1..n
        /\ \A l \in DOMAIN loops : loops'[l] = loops[l]
    BY <1>4, <2>0, DeployToSandboxEffect
  <2>4. loops'[n].pc = "attempt" /\ loops'[n].owner = c /\ loops'[n].files = files
    <3>1. loops'[n].pc = "attempt" /\ loops'[n].owner = c
      BY <1>4, <2>0, DeployToSandboxEffect
    <3>2. loops'[n].files = files
      BY <1>4, <2>0, DeployStartsWithFiles
    <3>3. QED
      BY <3>1, <3>2
  <2>5. promise' \in Nat
    BY <1>1, <2>1
  <2>6. /\ DOMAIN tasks' = 1..(Len(tasks) + 1)
        /\ \A t \in DOMAIN tasks : tasks'[t] = tasks[t]
    BY <2>1, <2>5, BeginDeployEffect
  <2>7. tasks'[Len(tasks) + 1].pc \in {"status", "creating"}
    BY <2>1, <2>5, BeginDeployEffect
  <2>8. \A t \in DOMAIN tasks' :
           \/ t \in DOMAIN tasks /\ tasks'[t] = tasks[t]
           \/ tasks'[t].pc # "writing"
    BY <1>1, <2>6, <2>7
  <2>9. Returned'
    <3>1. \A l \in DOMAIN loops : loops[l].pc = "ended" =>
             l \in DOMAIN loops' /\ loops'[l].pc = "ended"
      BY <1>1, <2>0, <2>3
    <3>2. \A d \in Calls : calls'[d] = calls[d] \/ calls'[d].pc # "preview"
      BY <1>2, <2>2
    <3>3. QED
      BY <3>1, <3>2, ReturnedKept DEF FilesInv
  <2>10. ASSUME NEW l \in DOMAIN loops, NEW d \in WithFiles, loops[l].owner = d
         PROVE  Serves(l, d)'
    <3>1. Serves(l, d) /\ loops'[l] = loops[l]
      BY <2>3, <2>10 DEF FilesInv
    <3>2. d \in loops'[l].files
      BY <3>1 DEF Serves
    <3>3. QED
      BY <2>8, <3>1, <3>2, ServesLater
  <2>11. c \in WithFiles => Serves(n, c)'
    <3>1. \A t \in DOMAIN tasks' :
             ~(tasks'[t].pc = "writing" /\ tasks'[t].loop = n)
      <4> SUFFICES ASSUME NEW t \in DOMAIN tasks', tasks'[t].pc = "writing"
                   PROVE  tasks'[t].loop # n
        OBVIOUS
      <4>1. t \in DOMAIN tasks /\ tasks'[t] = tasks[t]
        BY <2>8
      <4>2. tasks[t].loop \in DOMAIN loops
        BY <4>1 DEF TypeInv, TasksPlaced
      <4>3. QED
        BY <1>1, <2>0, <4>1, <4>2
    <3>2. QED
      BY <2>4, <3>1 DEF Serves
  <2>12. ASSUME NEW l \in DOMAIN loops', NEW d \in WithFiles,
                loops'[l].owner = d
         PROVE  Serves(l, d)'
    <3>1. CASE l \in DOMAIN loops
      BY <2>3, <2>10, <2>12, <3>1
    <3>2. CASE l = n
      BY <2>4, <2>11, <2>12, <3>2
    <3>3. QED
      BY <1>1, <2>0, <2>3, <3>1, <3>2
  <2>13. QED
    BY <2>9, <2>12 DEF FilesInv
<1>5. QED
  BY <1>3, <1>4

\* After a failed attempt the loop returns nothing until the next one writes.
LEMMA FailedServes ==
    ASSUME TypeInv, DeploymentAssumption, FilesInv, Grown,
           NEW l \in DOMAIN loops, loops[l].pc # "ended",
           NEW sessionLevel \in BOOLEAN, LoopFails(l, sessionLevel),
           UNCHANGED calls,
           \A t \in DOMAIN tasks' :
              \/ t \in DOMAIN tasks /\ tasks'[t] = tasks[t]
              \/ tasks'[t].pc # "writing"
    PROVE  FilesInv'
<1>1. LoopChanged(l) /\ loops'[l].pc = "backoff"
  BY LoopFailsEffect
<1>2. /\ DOMAIN loops' = DOMAIN loops
      /\ \A k \in DOMAIN loops : k # l => loops'[k] = loops[k]
      /\ loops'[l].owner = loops[l].owner
      /\ loops'[l].files = loops[l].files
  BY <1>1 DEF LoopChanged
<1>3. QED
  BY <1>1, <1>2, LoopMoves

\* What is written has the file of the maker, whichever files it is.
LEMMA DeployedFiles ==
    ASSUME FilesInv, NEW l \in DOMAIN loops, loops[l].owner \in WithFiles,
           NEW redeployed \in BOOLEAN
    PROVE  loops[l].owner \in FilesToDeploy(l, redeployed)
<1>1. loops[l].owner \in saved /\ loops[l].owner \in loops[l].files
  BY DEF FilesInv, Serves
<1>2. QED
  BY <1>1 DEF FilesToDeploy

LEMMA TaskStepServes ==
    ASSUME TypeInv, DeploymentAssumption, FilesInv, Grown,
           NEW t \in DOMAIN tasks, TaskStep(t)
    PROVE  FilesInv'
<1> DEFINE l == tasks[t].loop
           i == tasks[t].instance
<1>1. tasks[t].pc # "settled" => l \in DOMAIN loops
  BY DEF TypeInv, TasksPlaced
<1>2. /\ tasks[t] \in Task /\ Len(sandboxes) \in Nat
      /\ DOMAIN sandboxes = 1..Len(sandboxes)
      /\ DOMAIN tasks = 1..Len(tasks)
  BY TypedElements
<1>3. i \in 0..Len(sandboxes) /\ tasks[t].redeployed \in BOOLEAN
  BY <1>2 DEF TypeInv, TasksPlaced, Task
<1>4. Settle(t) => \A u \in DOMAIN tasks' :
                      \/ u \in DOMAIN tasks /\ tasks'[u] = tasks[u]
                      \/ tasks'[u].pc # "writing"
  <2> SUFFICES ASSUME Settle(t), NEW u \in DOMAIN tasks'
               PROVE  \/ u \in DOMAIN tasks /\ tasks'[u] = tasks[u]
                      \/ tasks'[u].pc # "writing"
    OBVIOUS
  <2>1. TaskChanged(t) /\ tasks'[t].pc = "settled"
    BY SettleEffect
  <2>2. QED
    BY <2>1 DEF TaskChanged
<1>5. ASSUME l \in DOMAIN loops, NEW pc, NEW j, NEW redeployed, NEW files,
             Continue(t, pc, j, redeployed, files),
             UNCHANGED <<loops, calls>>,
             \/ pc # "writing"
             \/ loops[l].owner \in WithFiles => loops[l].owner \in files
      PROVE  FilesInv'
  <2>1. /\ DOMAIN tasks' = DOMAIN tasks
        /\ tasks'[t].loop = l /\ tasks'[t].pc = pc /\ tasks'[t].files = files
        /\ \A u \in DOMAIN tasks : u # t => tasks'[u] = tasks[u]
    BY <1>5, ContinueKept
  <2>2. \A u \in DOMAIN tasks' :
           \/ u \in DOMAIN tasks /\ tasks'[u] = tasks[u]
           \/ tasks'[u].pc # "writing"
           \/ \A k \in DOMAIN loops :
                 loops[k].owner \in WithFiles /\ tasks'[u].loop = k =>
                    loops[k].owner \in tasks'[u].files
    BY <1>5, <2>1
  <2>3. QED
    BY <1>5, <2>2, LoopsStay
<1>6. CASE TaskStatus(t)
  <2> DEFINE f == FilesToDeploy(l, FALSE)
  <2>1. /\ tasks[t].pc = "status" /\ UNCHANGED <<loops, calls>>
        /\ Continue(t, "writing", i, FALSE, f)
              \/ Continue(t, "creating", 0, FALSE, saved)
    BY <1>6 DEF TaskStatus
  <2>2. l \in DOMAIN loops
    BY <1>1, <2>1
  <2>3. loops[l].owner \in WithFiles => loops[l].owner \in f
    BY <2>2, DeployedFiles
  <2> HIDE DEF f, l, i
  <2>4. QED
    BY <1>5, <2>1, <2>2, <2>3
<1>7. CASE TaskCreated(t)
  <2> DEFINE f == FilesToDeploy(l, TRUE)
  <2>1. /\ tasks[t].pc = "creating" /\ UNCHANGED <<loops, calls>>
        /\ \E j : Continue(t, "writing", j, TRUE, f)
    BY <1>7 DEF TaskCreated
  <2>2. l \in DOMAIN loops
    BY <1>1, <2>1
  <2>3. loops[l].owner \in WithFiles => loops[l].owner \in f
    BY <2>2, DeployedFiles
  <2> HIDE DEF f, l
  <2>4. QED
    BY <1>5, <2>1, <2>2, <2>3
<1>8. CASE TaskWritten(t)
  <2>1. /\ tasks[t].pc = "writing" /\ i # 0 /\ Settle(t) /\ UNCHANGED session
        /\ WriteFiles(i, tasks[t].files)
        /\ \/ Awaited(t) /\ LoopSucceeds(l, i, tasks[t].redeployed)
           \/ UNCHANGED <<loops, calls>>
    BY <1>8 DEF TaskWritten, Reachable
  <2>2. l \in DOMAIN loops /\ i \in DOMAIN sandboxes
    BY <1>1, <1>2, <1>3, <2>1
  <2>3. CASE UNCHANGED <<loops, calls>>
    BY <1>4, <2>1, <2>3, LoopsStay
  <2>4. CASE Awaited(t) /\ LoopSucceeds(l, i, tasks[t].redeployed)
    <3>1. loops[l].pc # "ended"
      BY <2>4 DEF Awaited
    <3>2. ASSUME NEW c \in WithFiles, loops[l].owner = c
          PROVE  i \in DOMAIN sandboxes' /\ c \in Given(sandboxes'[i])
      <4>1. c \in tasks[t].files
        BY <2>1, <2>2, <3>2 DEF FilesInv, Serves
      <4>2. tasks[t].files \in SUBSET Files
        BY <1>2 DEF Task
      <4> HIDE DEF i
      <4>3. /\ SandboxesLater
            /\ tasks[t].files \subseteq Given(sandboxes'[i])
        BY <2>1, <2>2, <4>2, WriteFilesEffect
      <4>4. QED
        BY <2>2, <4>1, <4>3 DEF SandboxesLater
    <3> HIDE DEF l, i
    <3>3. LoopChanged(l) /\ loops'[l].result = i
      BY <1>3, <2>1, <2>2, <2>4, LoopSucceedsEffect
    <3>4. \/ loops'[l].pc = "ended" /\ \A c \in Callers :
                calls'[c] = calls[c] \/ calls'[c].loop = l
          \/ UNCHANGED calls
      BY <1>3, <2>1, <2>2, <2>4, LoopSucceedsEffect
    <3>5. /\ DOMAIN loops' = DOMAIN loops
          /\ \A k \in DOMAIN loops : k # l => loops'[k] = loops[k]
          /\ loops'[l].owner = loops[l].owner
          /\ loops'[l].files = loops[l].files
      BY <3>3 DEF LoopChanged
    <3>6. \A c \in Callers :
             \/ calls'[c] = calls[c]
             \/ calls'[c].pc # "preview"
             \/ calls'[c].loop = l /\ loops'[l].pc = "ended"
      BY <3>4
    <3>7. QED
      BY <1>4, <2>1, <2>2, <3>1, <3>2, <3>3, <3>5, <3>6, LoopMoves
  <2>5. QED
    BY <2>1, <2>3, <2>4
<1>9. CASE TaskFails(t)
  <2>1. PICK sessionLevel \in BOOLEAN :
           /\ tasks[t].pc # "settled" /\ Settle(t) /\ UNCHANGED calls
           /\ \/ Awaited(t) /\ LoopFails(l, sessionLevel)
              \/ UNCHANGED loops
    BY <1>9 DEF TaskFails, SandboxCallFails
  <2>2. CASE UNCHANGED loops
    BY <1>4, <2>1, <2>2, LoopsStay
  <2>3. CASE Awaited(t) /\ LoopFails(l, sessionLevel)
    <3>1. l \in DOMAIN loops /\ loops[l].pc # "ended"
      BY <1>1, <2>1, <2>3 DEF Awaited
    <3> HIDE DEF l
    <3>2. QED
      BY <1>4, <2>1, <2>3, <3>1, FailedServes
  <2>4. QED
    BY <2>1, <2>2, <2>3
<1>10. QED
  BY <1>6, <1>7, <1>8, <1>9 DEF TaskStep

LEMMA LoopStepServes ==
    ASSUME TypeInv, DeploymentAssumption, FilesInv, Grown,
           NEW l \in DOMAIN loops, LoopStep(l)
    PROVE  FilesInv'
<1>1. CASE AttemptTimeout(l) \/ SetupFails(l)
  <2>1. PICK sessionLevel \in BOOLEAN : LoopFails(l, sessionLevel)
    BY <1>1 DEF AttemptTimeout, SetupFails
  <2>2. loops[l].pc # "ended" /\ UNCHANGED <<calls, tasks>>
    BY <1>1 DEF AttemptTimeout, SetupFails
  <2>3. QED
    BY <2>1, <2>2, FailedServes
<1>2. CASE SetupDone(l)
  <2>1. /\ LoopReturns(l, loops[l].result) /\ loops[l].result \in Nat
        /\ loops[l].pc = "setup" /\ UNCHANGED tasks
    BY <1>2, TypedElements DEF SetupDone, Loop
  <2>2. LoopChanged(l) /\ loops'[l].pc = "ended"
    BY <2>1, LoopReturnsEffect
  <2>3. /\ loops'[l].result = loops[l].result
        /\ \A c \in Callers : calls'[c] = calls[c] \/ calls'[c].loop = l
    BY <2>1, LoopReturnsEffect
  <2>4. /\ DOMAIN loops' = DOMAIN loops
        /\ \A k \in DOMAIN loops : k # l => loops'[k] = loops[k]
        /\ loops'[l].owner = loops[l].owner
        /\ loops'[l].files = loops[l].files
    BY <2>2 DEF LoopChanged
  <2>5. QED
    BY <2>1, <2>2, <2>3, <2>4, LoopMoves
<1>3. CASE Retry(l)
  <2>1. /\ UNCHANGED calls /\ saved' \in SUBSET Files /\ l \in Nat
        /\ Len(tasks) \in Nat /\ DOMAIN tasks = 1..Len(tasks)
    <3>1. UNCHANGED <<calls, saved>>
      BY <1>3 DEF Retry
    <3>2. saved \in SUBSET Files
      BY DEF TypeInv, TypeOK
    <3>3. l \in Nat /\ Len(tasks) \in Nat /\ DOMAIN tasks = 1..Len(tasks)
      BY TypedElements
    <3>4. QED
      BY <3>1, <3>2, <3>3
  <2>2. PICK redeploy \in BOOLEAN : BeginDeploy(l, redeploy)
    BY <1>3, RetryEffect
  <2>3. /\ loops[l].pc = "backoff" /\ loops'[l].pc = "attempt"
        /\ DOMAIN loops' = DOMAIN loops
        /\ \A k \in DOMAIN loops : k # l => loops'[k] = loops[k]
        /\ loops'[l].owner = loops[l].owner
        /\ loops'[l].files = loops[l].files
    BY <1>3, RetryEffect
  <2>4. /\ DOMAIN tasks' = 1..(Len(tasks) + 1)
        /\ \A t \in DOMAIN tasks : tasks'[t] = tasks[t]
    BY <2>1, <2>2, BeginDeployEffect
  <2>5. tasks'[Len(tasks) + 1].pc \in {"status", "creating"}
    BY <2>1, <2>2, BeginDeployEffect
  <2>6. \A t \in DOMAIN tasks' :
           \/ t \in DOMAIN tasks /\ tasks'[t] = tasks[t]
           \/ tasks'[t].pc # "writing"
    BY <2>1, <2>4, <2>5
  <2>7. QED
    BY <2>1, <2>3, <2>6, LoopMoves
<1>4. QED
  BY <1>1, <1>2, <1>3 DEF LoopStep

LEMMA FilesInvStep ==
    ASSUME TypeInv, DeploymentAssumption, FilesInv, [Next]_vars
    PROVE  FilesInv'
<1>1. Grown
  BY GrownStep
<1>2. ASSUME NEW c \in Calls, CallDeploy(c) PROVE FilesInv'
  <2> DEFINE own == {c} \cap WithFiles
             redeploy == c \in Redeploying
  <2>1. /\ own \in SUBSET Files /\ redeploy \in BOOLEAN
        /\ c \in Callers /\ saved \in SUBSET Files
        /\ c \in WithFiles => c \in own
    BY DEF Files, Callers, DeploymentAssumption, TypeInv, TypeOK
  <2>2. saved' = saved \cup own /\ DeployToSandbox(c, own, redeploy)
    BY <1>2 DEF CallDeploy
  <2>3. saved' \in SUBSET Files /\ (c \in WithFiles => c \in saved')
    BY <2>1, <2>2
  <2> HIDE DEF own, redeploy
  <2>4. QED
    BY <1>1, <2>1, <2>2, <2>3, NewLoopServes
<1>3. CASE TickUnhealthy
  <2>1. Tick \notin WithFiles
    BY DEF DeploymentAssumption
  <2>2. saved' \in SUBSET Files
    BY <1>3 DEF TickUnhealthy, TypeInv, TypeOK
  <2>3. PICK c \in Callers, files \in SUBSET Files, redeploy \in BOOLEAN :
           c = Tick /\ DeployToSandbox(c, files, redeploy)
    <3>1. DeployToSandbox(Tick, {}, FALSE)
      BY <1>3 DEF TickUnhealthy
    <3>2. QED
      BY <3>1, Zenon DEF Callers
  <2>4. QED
    BY <1>1, <2>1, <2>2, <2>3, NewLoopServes
<1>4. ASSUME NEW c \in Callers, JoinerTimeout(c) PROVE FilesInv'
  <2>1. UNCHANGED <<loops, tasks>>
    BY <1>4 DEF JoinerTimeout
  <2>2. \A d \in Calls : calls'[d] = calls[d] \/ calls'[d].pc # "preview"
    BY <1>4 DEF JoinerTimeout, TypeInv, TypeOK, Call, Callers
  <2>3. QED
    BY <1>1, <2>1, <2>2, LoopsStay
<1>5. ASSUME NEW l \in DOMAIN loops, MasterTimeout(l) PROVE FilesInv'
  <2>1. /\ DOMAIN loops' = DOMAIN loops /\ loops'[l].owner = None
        /\ \A k \in DOMAIN loops : k # l => loops'[k] = loops[k]
        /\ \A c \in Callers :
              calls'[c] = calls[c] \/ calls'[c].pc \in {"idle", "failed"}
    BY <1>5, MasterTimeoutEffect
  <2>2. loops'[l].pc = loops[l].pc
    BY <1>5, MasterTimeoutEffect
  <2>3. loops'[l].pc = "setup" => loops'[l].result = loops[l].result
    BY <1>5, TypedElements DEF MasterTimeout, Loop
  <2>4. loops[l].pc # "ended" /\ UNCHANGED tasks
    BY <1>5 DEF MasterTimeout
  <2>5. loops[l].pc \in {"attempt", "setup", "backoff"}
    BY <2>4, TypedElements DEF Loop
  <2>6. QED
    BY <1>1, <2>1, <2>2, <2>3, <2>4, <2>5, LoopMoves
<1>6. CASE Deploying
  BY <1>1, <1>6, TaskStepServes, LoopStepServes DEF Deploying
<1>7. CASE Restart
  <2>1. DOMAIN loops' = {}
    BY <1>7, RestartEffect
  <2>2. \A c \in Calls : calls'[c].loop = 0
    BY <1>7 DEF Restart, TypeInv, TypeOK, Call, Callers
  <2>3. Returned'
    BY <2>2 DEF Returned
  <2>4. QED
    BY <2>1, <2>3 DEF FilesInv
<1>8. ASSUME \/ TickStart \/ TickHealthy \/ UNCHANGED vars
             \/ \E i \in DOMAIN sandboxes : SandboxDies(i)
      PROVE  FilesInv'
  <2>1. UNCHANGED <<calls, loops, tasks>>
    BY <1>8 DEF TickStart, TickHealthy, SandboxDies, vars, running
  <2>2. QED
    BY <1>1, <2>1, LoopsStay
<1>9. QED
  BY <1>2, <1>3, <1>4, <1>5, <1>6, <1>7, <1>8 DEF Next, Ticking

\* For any files, resets, late deploy()s and lost instances, the caller that
\* started a deployment finds its file in its preview, or the client of that
\* sandbox has answered its write with success and not written it.
THEOREM OwnerFilesWrittenOrLostCorrect == Spec => []OwnerFilesWrittenOrLost
<1> USE DeploymentAssumption
<1>1. Init => FilesInv
  BY DEF Init, FilesInv, Returned, Callers
<1>2. TypeInv /\ FilesInv /\ [Next]_vars => FilesInv'
  BY FilesInvStep
<1>3. FilesInv => OwnerFilesWrittenOrLost
  BY DEF FilesInv, Returned, Serves, Given, OwnerFilesWrittenOrLost, OwnsPreview,
         Previewed, DeploymentAssumption
<1>4. QED
  BY <1>1, <1>2, <1>3, TypeCorrect, PTL DEF Spec, TypeInv

-----------------------------------------------------------------------------
\* Nobody waits for what is over

Waiters ==
    \A c \in Callers : calls[c].pc = "waiting" =>
        calls[c].loop \in DOMAIN loops /\ Active(calls[c].loop)

\* The last attempt of loop l is under way.
Underway(l) ==
    /\ loops[l].task \in DOMAIN tasks
    /\ tasks[loops[l].task].pc # "settled"
    /\ tasks[loops[l].task].loop = l

Attempts == \A l \in DOMAIN loops : loops[l].pc = "attempt" => Underway(l)

\* A loop that ends leaves nobody behind.
LEMMA ReleasedWaiters ==
    ASSUME TypeInv, NEW l \in DOMAIN loops, NEW i \in Nat, LoopReturns(l, i)
    PROVE  \A c \in Callers : calls'[c].pc = "waiting" =>
              calls'[c] = calls[c] /\ calls[c].loop # l
<1> SUFFICES ASSUME NEW c \in Callers, calls'[c].pc = "waiting"
             PROVE  calls'[c] = calls[c] /\ calls[c].loop # l
  OBVIOUS
<1>1. calls'[c] = IF calls[c] = [pc |-> "waiting", loop |-> l]
                  THEN [pc |-> IF c = Tick THEN "idle" ELSE "preview",
                        loop |-> l]
                  ELSE calls[c]
  BY DEF LoopReturns
<1>2. calls[c] # [pc |-> "waiting", loop |-> l] /\ calls'[c] = calls[c]
  BY <1>1
<1>3. calls[c] \in Call
  BY DEF TypeInv, TypeOK
<1>4. QED
  BY <1>2, <1>3 DEF Call

\* No loop ends while one waits for it, and no new call waits.
LEMMA WaitersLater ==
    ASSUME Waiters, DOMAIN loops' = DOMAIN loops,
           \A c \in Callers : calls'[c].pc = "waiting" => calls'[c] = calls[c],
           \A c \in Callers : \A l \in DOMAIN loops :
              calls'[c].pc = "waiting" /\ calls[c].loop = l =>
                 loops[l].pc = "ended" \/ loops'[l].pc # "ended"
    PROVE  Waiters'
  BY DEF Waiters, Active

\* Loops are kept, or leave the attempt; tasks are kept, or go on.
LEMMA AttemptsLater ==
    ASSUME Attempts, DOMAIN loops' = DOMAIN loops,
           DOMAIN tasks \subseteq DOMAIN tasks',
           \A l \in DOMAIN loops :
              \/ loops'[l].pc # "attempt"
              \/ loops'[l].pc = loops[l].pc /\ loops'[l].task = loops[l].task,
           \A l \in DOMAIN loops : \A t \in DOMAIN tasks :
              loops'[l].pc = "attempt" /\ loops[l].task = t
              /\ tasks[t].loop = l /\ tasks[t].pc # "settled" =>
                 tasks'[t].loop = l /\ tasks'[t].pc # "settled"
    PROVE  Attempts'
<1> SUFFICES ASSUME NEW l \in DOMAIN loops, loops'[l].pc = "attempt"
             PROVE  Underway(l)'
  BY DEF Attempts
<1>1. Underway(l) /\ loops'[l].task = loops[l].task
  BY DEF Attempts
<1>2. QED
  BY <1>1 DEF Underway

\* deployToSandbox waits for the promise, which runs, or for the loop it
\* starts, which has a deploy() of its own.
LEMMA DeployWaits ==
    ASSUME TypeInv, SingleFlight, Waiters, Attempts,
           NEW c \in Callers, NEW files \in SUBSET Files,
           NEW redeploy \in BOOLEAN, saved' \in SUBSET Files,
           DeployToSandbox(c, files, redeploy)
    PROVE  Waiters' /\ Attempts'
<1>1. /\ Len(loops) \in Nat /\ DOMAIN loops = 1..Len(loops)
      /\ Len(tasks) \in Nat /\ DOMAIN tasks = 1..Len(tasks)
      /\ calls \in [Callers -> Call] /\ promise \in 0..Len(loops)
      /\ loops \in Seq(Loop)
  BY TypedElements DEF TypeInv, TypeOK
<1>2. CASE promise # 0
  <2>1. UNCHANGED <<loops, tasks>>
    BY <1>2, DeployToSandboxEffect
  <2>2. calls' = [calls EXCEPT ![c] = [pc |-> "waiting", loop |-> promise]]
    BY <1>2, DeployToSandboxEffect
  <2>3. promise \in DOMAIN loops /\ Active(promise)
    BY <1>1, <1>2 DEF SingleFlight
  <2>4. Waiters'
    BY <1>1, <2>1, <2>2, <2>3 DEF Waiters, Active
  <2>5. QED
    BY <2>1, <2>4 DEF Attempts, Underway
<1>3. CASE promise = 0
  <2>0. PICK n \in Nat : n = Len(loops) + 1
    BY <1>1
  <2>1. promise' = n /\ BeginDeploy(promise', redeploy)
    BY <1>3, <2>0, DeployToSandboxEffect
  <2>2. calls' = [calls EXCEPT ![c] = [pc |-> "waiting", loop |-> promise']]
    BY <1>3, DeployToSandboxEffect
  <2>3. /\ DOMAIN loops' = 1..n
        /\ \A l \in DOMAIN loops : loops'[l] = loops[l]
    BY <1>3, <2>0, DeployToSandboxEffect
  <2>4. loops'[n].pc = "attempt"
    BY <1>3, <2>0, DeployToSandboxEffect
  <2>5. loops'[n].task = Len(tasks')
    <3> DEFINE new == [pc |-> "attempt", files |-> files, redeploy |-> redeploy,
                       owner |-> c, sessions |-> <<client'>>,
                       task |-> Len(tasks'), result |-> 0]
    <3>1. loops' = Append(loops, new) /\ new.task = Len(tasks')
      BY <1>3 DEF DeployToSandbox
    <3> HIDE DEF new
    <3>2. loops'[Len(loops) + 1] = new
      BY <1>1, <3>1
    <3>3. QED
      BY <2>0, <3>1, <3>2
  <2>6. promise' \in Nat
    BY <1>1, <2>1
  <2>7. /\ DOMAIN tasks' = 1..(Len(tasks) + 1) /\ Len(tasks') = Len(tasks) + 1
        /\ \A t \in DOMAIN tasks : tasks'[t] = tasks[t]
    BY <2>1, <2>6, BeginDeployEffect
  <2>8. tasks'[Len(tasks) + 1].loop = n
    BY <2>1, <2>6, BeginDeployEffect
  <2>9. tasks'[Len(tasks) + 1].pc \in {"status", "creating"}
    BY <2>1, <2>6, BeginDeployEffect
  <2>10. Underway(n)'
    BY <1>1, <2>5, <2>7, <2>8, <2>9 DEF Underway
  <2>11. ASSUME NEW d \in Callers, calls'[d].pc = "waiting"
         PROVE  /\ calls'[d].loop \in DOMAIN loops'
                /\ loops'[calls'[d].loop].pc # "ended"
    <3>1. CASE d = c
      <4>1. calls'[d].loop = n
        BY <1>1, <2>1, <2>2, <3>1
      <4>2. QED
        BY <1>1, <2>0, <2>3, <2>4, <4>1
    <3>2. CASE d # c
      <4>1. calls'[d] = calls[d]
        BY <1>1, <2>2, <3>2
      <4>2. calls[d].loop \in DOMAIN loops /\ loops[calls[d].loop].pc # "ended"
        BY <2>11, <4>1 DEF Waiters, Active
      <4>3. QED
        BY <1>1, <2>0, <2>3, <4>1, <4>2
    <3>3. QED
      BY <3>1, <3>2
  <2>12. ASSUME NEW l \in DOMAIN loops', loops'[l].pc = "attempt"
         PROVE  Underway(l)'
    <3>1. CASE l \in DOMAIN loops
      <4>1. Underway(l) /\ loops'[l] = loops[l]
        BY <2>3, <2>12, <3>1 DEF Attempts
      <4>2. QED
        BY <1>1, <2>7, <4>1 DEF Underway
    <3>2. CASE l = n
      BY <2>10, <3>2
    <3>3. QED
      BY <1>1, <2>0, <2>3, <3>1, <3>2
  <2>13. QED
    BY <2>11, <2>12 DEF Waiters, Attempts, Active
<1>4. QED
  BY <1>2, <1>3

\* A loop that runs is changed and leaves the attempt; whoever waited for it
\* does so no longer if it ends.
LEMMA LoopLeaves ==
    ASSUME Waiters, Attempts, NEW l \in DOMAIN loops, LoopChanged(l),
           loops'[l].pc # "attempt",
           \A c \in Callers : calls'[c].pc = "waiting" =>
              /\ calls'[c] = calls[c]
              /\ calls[c].loop # l \/ loops'[l].pc # "ended",
           \/ UNCHANGED tasks
           \/ \E t \in DOMAIN tasks : Settle(t) /\ Awaited(t) /\ tasks[t].loop = l,
           TypeInv
    PROVE  Waiters' /\ Attempts'
<1>1. /\ DOMAIN loops' = DOMAIN loops
      /\ \A k \in DOMAIN loops : k # l => loops'[k] = loops[k]
  BY DEF LoopChanged
<1>2. Waiters'
  BY <1>1, WaitersLater
<1>3. /\ DOMAIN tasks' = DOMAIN tasks
      /\ \A u \in DOMAIN tasks : tasks'[u] = tasks[u] \/ tasks[u].loop = l
  <2>1. ASSUME NEW t \in DOMAIN tasks, Settle(t), tasks[t].loop = l
        PROVE  /\ DOMAIN tasks' = DOMAIN tasks
               /\ \A u \in DOMAIN tasks : tasks'[u] = tasks[u] \/ tasks[u].loop = l
    <3>1. TaskChanged(t)
      BY <2>1, SettleEffect
    <3>2. QED
      BY <2>1, <3>1 DEF TaskChanged
  <2>2. QED
    BY <2>1
<1>4. Attempts'
  BY <1>1, <1>3, AttemptsLater
<1>5. QED
  BY <1>2, <1>4

\* Nobody waits for the deploy() that settles.
LEMMA LateTask ==
    ASSUME TypeInv, Waiters, Attempts, NEW t \in DOMAIN tasks,
           Settle(t), ~Awaited(t), UNCHANGED <<calls, loops>>
    PROVE  Waiters' /\ Attempts'
<1>1. TaskChanged(t)
  BY SettleEffect
<1>2. /\ DOMAIN tasks' = DOMAIN tasks
      /\ \A u \in DOMAIN tasks : u # t => tasks'[u] = tasks[u]
  BY <1>1 DEF TaskChanged
<1>3. \A l \in DOMAIN loops : \A u \in DOMAIN tasks :
         loops'[l].pc = "attempt" /\ loops[l].task = u
         /\ tasks[u].loop = l /\ tasks[u].pc # "settled" =>
            tasks'[u].loop = l /\ tasks'[u].pc # "settled"
  BY <1>2 DEF Awaited
<1>4. Attempts'
  BY <1>2, <1>3, AttemptsLater
<1>5. QED
  BY <1>4 DEF Waiters, Active

LEMMA SucceedsOrReturns ==
    ASSUME TypeInv, NEW l \in DOMAIN loops, NEW i, NEW redeployed,
           LoopSucceeds(l, i, redeployed)
    PROVE  \/ LoopReturns(l, i)
           \/ UNCHANGED calls /\ loops'[l].pc = "setup"
<1>1. loops[l] \in Loop
  BY TypedElements
<1>2. ASSUME loops' = [loops EXCEPT ![l].pc = "setup", ![l].result = i]
      PROVE  loops'[l].pc = "setup"
  <2>1. loops'[l] = [loops[l] EXCEPT !.pc = "setup", !.result = i]
    BY <1>2
  <2>2. QED
    BY <1>1, <2>1 DEF Loop
<1>3. QED
  BY <1>2, Zenon DEF LoopSucceeds

LEMMA TaskStepWaits ==
    ASSUME TypeInv, DeploymentAssumption, Waiters, Attempts,
           NEW t \in DOMAIN tasks, TaskStep(t)
    PROVE  Waiters' /\ Attempts'
<1> DEFINE l == tasks[t].loop
           i == tasks[t].instance
<1>1. tasks[t].pc # "settled" => l \in DOMAIN loops
  BY DEF TypeInv, TasksPlaced
<1>2. tasks[t] \in Task /\ Len(sandboxes) \in Nat
  BY TypedElements
<1>3. /\ i \in 0..Len(sandboxes) /\ i \in Nat
      /\ tasks[t].redeployed \in BOOLEAN
  BY <1>2 DEF TypeInv, TasksPlaced, Task
<1>4. CASE TaskStatus(t) \/ TaskCreated(t)
  <2>1. PICK pc \in {"writing", "creating"} : \E j, redeployed, files :
           Continue(t, pc, j, redeployed, files)
    BY <1>4 DEF TaskStatus, TaskCreated
  <2>2. UNCHANGED <<calls, loops>>
    BY <1>4 DEF TaskStatus, TaskCreated
  <2>3. /\ DOMAIN tasks' = DOMAIN tasks
        /\ tasks'[t].loop = tasks[t].loop
        /\ tasks'[t].pc = pc
        /\ \A u \in DOMAIN tasks : u # t => tasks'[u] = tasks[u]
    BY <2>1, ContinueKept
  <2>4. Attempts'
    BY <2>2, <2>3, AttemptsLater
  <2>5. QED
    BY <2>2, <2>4 DEF Waiters, Active
<1>5. CASE TaskWritten(t)
  <2>1. /\ tasks[t].pc = "writing" /\ Settle(t) /\ UNCHANGED session
        /\ \/ Awaited(t) /\ LoopSucceeds(l, i, tasks[t].redeployed)
           \/ ~Awaited(t) /\ UNCHANGED <<calls, loops>>
    BY <1>5 DEF TaskWritten
  <2>2. l \in DOMAIN loops
    BY <1>1, <2>1
  <2>3. CASE Awaited(t) /\ LoopSucceeds(l, i, tasks[t].redeployed)
    <3>1. \/ LoopReturns(l, i)
          \/ UNCHANGED calls /\ loops'[l].pc = "setup"
      BY <2>2, <2>3, SucceedsOrReturns
    <3>2. LoopChanged(l) /\ loops'[l].pc \in {"setup", "ended"}
      <4> HIDE DEF l, i
      <4>1. QED
        BY <1>3, <2>1, <2>2, <2>3, LoopSucceedsEffect
    <3>3. \A c \in Callers : calls'[c].pc = "waiting" =>
             /\ calls'[c] = calls[c]
             /\ calls[c].loop # l \/ loops'[l].pc # "ended"
      <4> HIDE DEF l, i
      <4>1. QED
        BY <1>3, <2>2, <3>1, ReleasedWaiters
    <3>4. QED
      BY <2>1, <2>2, <2>3, <3>2, <3>3, LoopLeaves
  <2>4. CASE ~Awaited(t) /\ UNCHANGED <<calls, loops>>
    BY <2>1, <2>4, LateTask
  <2>5. QED
    BY <2>1, <2>3, <2>4
<1>6. CASE TaskFails(t)
  <2>1. PICK sessionLevel \in BOOLEAN :
           /\ tasks[t].pc # "settled" /\ Settle(t) /\ UNCHANGED calls
           /\ \/ Awaited(t) /\ LoopFails(l, sessionLevel)
              \/ ~Awaited(t) /\ UNCHANGED loops
    BY <1>6 DEF TaskFails, SandboxCallFails
  <2>2. l \in DOMAIN loops
    BY <1>1, <2>1
  <2>3. CASE Awaited(t) /\ LoopFails(l, sessionLevel)
    <3>1. LoopChanged(l) /\ loops'[l].pc = "backoff"
      <4> HIDE DEF l
      <4>1. QED
        BY <2>2, <2>3, LoopFailsEffect
    <3>2. QED
      BY <2>1, <2>2, <2>3, <3>1, LoopLeaves
  <2>4. CASE ~Awaited(t) /\ UNCHANGED loops
    BY <2>1, <2>4, LateTask
  <2>5. QED
    BY <2>1, <2>3, <2>4
<1>7. QED
  BY <1>4, <1>5, <1>6 DEF TaskStep

LEMMA LoopStepWaits ==
    ASSUME TypeInv, DeploymentAssumption, Waiters, Attempts,
           NEW l \in DOMAIN loops, LoopStep(l)
    PROVE  Waiters' /\ Attempts'
<1>1. CASE AttemptTimeout(l) \/ SetupFails(l)
  <2>1. PICK sessionLevel \in BOOLEAN : LoopFails(l, sessionLevel)
    BY <1>1 DEF AttemptTimeout, SetupFails
  <2>2. UNCHANGED <<calls, tasks>>
    BY <1>1 DEF AttemptTimeout, SetupFails
  <2>3. LoopChanged(l) /\ loops'[l].pc = "backoff"
    BY <2>1, LoopFailsEffect
  <2>4. QED
    BY <2>2, <2>3, LoopLeaves
<1>2. CASE SetupDone(l)
  <2>1. PICK i \in Nat : LoopReturns(l, i)
    BY <1>2, TypedElements DEF SetupDone, Loop
  <2>2. UNCHANGED tasks
    BY <1>2 DEF SetupDone
  <2>3. LoopChanged(l) /\ loops'[l].pc = "ended"
    BY <2>1, LoopReturnsEffect
  <2>4. QED
    BY <2>1, <2>2, <2>3, ReleasedWaiters, LoopLeaves
<1>3. CASE Retry(l)
  <2>1. /\ UNCHANGED calls /\ saved' \in SUBSET Files /\ l \in Nat
        /\ Len(tasks) \in Nat /\ DOMAIN tasks = 1..Len(tasks)
    <3>1. UNCHANGED <<calls, saved>>
      BY <1>3 DEF Retry
    <3>2. saved \in SUBSET Files
      BY DEF TypeInv, TypeOK
    <3>3. l \in Nat /\ Len(tasks) \in Nat /\ DOMAIN tasks = 1..Len(tasks)
      BY TypedElements
    <3>4. QED
      BY <3>1, <3>2, <3>3
  <2>2. PICK redeploy \in BOOLEAN : BeginDeploy(l, redeploy)
    BY <1>3, RetryEffect
  <2>3. /\ loops'[l].pc = "attempt" /\ DOMAIN loops' = DOMAIN loops
        /\ \A k \in DOMAIN loops : k # l => loops'[k] = loops[k]
    BY <1>3, RetryEffect
  <2>4. loops'[l].task = Len(tasks')
    BY <1>3, RetryEffect
  <2>5. /\ DOMAIN tasks' = 1..(Len(tasks) + 1) /\ Len(tasks') = Len(tasks) + 1
        /\ \A t \in DOMAIN tasks : tasks'[t] = tasks[t]
    BY <2>1, <2>2, BeginDeployEffect
  <2>6. tasks'[Len(tasks) + 1].loop = l
    BY <2>1, <2>2, BeginDeployEffect
  <2>7. tasks'[Len(tasks) + 1].pc \in {"status", "creating"}
    BY <2>1, <2>2, BeginDeployEffect
  <2>8. Underway(l)'
    BY <2>1, <2>4, <2>5, <2>6, <2>7 DEF Underway
  <2>9. Waiters'
    BY <2>1, <2>3, WaitersLater
  <2>10. ASSUME NEW k \in DOMAIN loops', loops'[k].pc = "attempt", k # l
         PROVE  Underway(k)'
    <3>1. Underway(k) /\ loops'[k] = loops[k]
      BY <2>3, <2>10 DEF Attempts
    <3>2. QED
      BY <2>1, <2>5, <3>1 DEF Underway
  <2>11. QED
    BY <2>8, <2>9, <2>10 DEF Attempts
<1>4. QED
  BY <1>1, <1>2, <1>3 DEF LoopStep

LEMMA NoLostWakeupStep ==
    ASSUME TypeInv, DeploymentAssumption, SingleFlight, Waiters, Attempts,
           [Next]_vars
    PROVE  Waiters' /\ Attempts'
<1>1. ASSUME NEW c \in Calls, CallDeploy(c) PROVE Waiters' /\ Attempts'
  <2> DEFINE own == {c} \cap WithFiles
             redeploy == c \in Redeploying
  <2>1. /\ own \in SUBSET Files /\ redeploy \in BOOLEAN
        /\ c \in Callers /\ saved \in SUBSET Files
    BY DEF Files, Callers, DeploymentAssumption, TypeInv, TypeOK
  <2>2. saved' = saved \cup own /\ DeployToSandbox(c, own, redeploy)
    BY <1>1 DEF CallDeploy
  <2>3. saved' \in SUBSET Files
    BY <2>1, <2>2
  <2> HIDE DEF own, redeploy
  <2>4. QED
    BY <2>1, <2>2, <2>3, DeployWaits
<1>2. CASE TickUnhealthy
  <2>1. saved' \in SUBSET Files
    BY <1>2 DEF TickUnhealthy, TypeInv, TypeOK
  <2>2. PICK c \in Callers, files \in SUBSET Files, redeploy \in BOOLEAN :
           DeployToSandbox(c, files, redeploy)
    <3>1. DeployToSandbox(Tick, {}, FALSE)
      BY <1>2 DEF TickUnhealthy
    <3>2. QED
      BY <3>1, Zenon DEF Callers
  <2>3. QED
    BY <2>1, <2>2, DeployWaits
<1>3. ASSUME NEW c \in Callers, JoinerTimeout(c) PROVE Waiters' /\ Attempts'
  <2>1. UNCHANGED <<loops, tasks>>
    BY <1>3 DEF JoinerTimeout
  <2>2. \A d \in Callers : calls'[d].pc = "waiting" => calls'[d] = calls[d]
    BY <1>3 DEF JoinerTimeout, TypeInv, TypeOK, Call
  <2>3. QED
    BY <2>1, <2>2, WaitersLater, AttemptsLater
<1>4. ASSUME NEW l \in DOMAIN loops, MasterTimeout(l)
      PROVE  Waiters' /\ Attempts'
  <2>1. /\ DOMAIN loops' = DOMAIN loops
        /\ \A k \in DOMAIN loops : k # l => loops'[k] = loops[k]
        /\ \A c \in Callers :
              calls'[c] = calls[c] \/ calls'[c].pc \in {"idle", "failed"}
    BY <1>4, MasterTimeoutEffect
  <2>2. loops'[l].pc = loops[l].pc
    BY <1>4, MasterTimeoutEffect
  <2>3. loops'[l].task = loops[l].task
    BY <1>4, MasterTimeoutEffect
  <2>4. UNCHANGED tasks
    BY <1>4 DEF MasterTimeout
  <2>5. Waiters'
    BY <2>1, <2>2, WaitersLater
  <2>6. Attempts'
    BY <2>1, <2>2, <2>3, <2>4, AttemptsLater
  <2>7. QED
    BY <2>5, <2>6
<1>5. CASE Deploying
  BY <1>5, TaskStepWaits, LoopStepWaits DEF Deploying
<1>6. CASE Restart
  <2>1. DOMAIN loops' = {}
    BY <1>6, RestartEffect
  <2>2. \A c \in Callers : calls'[c].pc # "waiting"
    BY <1>6 DEF Restart, TypeInv, TypeOK, Call
  <2>3. QED
    BY <2>1, <2>2 DEF Waiters, Attempts
<1>7. ASSUME \/ TickStart \/ TickHealthy \/ UNCHANGED vars
             \/ \E i \in DOMAIN sandboxes : SandboxDies(i)
      PROVE  Waiters' /\ Attempts'
  <2>1. UNCHANGED <<calls, loops, tasks>>
    BY <1>7 DEF TickStart, TickHealthy, SandboxDies, vars, running
  <2>2. QED
    BY <2>1 DEF Waiters, Attempts, Active, Underway
<1>8. QED
  BY <1>1, <1>2, <1>3, <1>4, <1>5, <1>6, <1>7 DEF Next, Ticking

\* For any callers, joiners, timeouts, late deploy()s and evictions, no caller
\* waits for a loop that is over, and no attempt for a deploy() that is.
THEOREM NoLostWakeupCorrect == Spec => []NoLostWakeup
<1> USE DeploymentAssumption
<1>1. Init => Waiters /\ Attempts
  BY DEF Init, Waiters, Attempts
<1>2. TypeInv /\ SingleFlight /\ Waiters /\ Attempts /\ [Next]_vars
         => Waiters' /\ Attempts'
  BY NoLostWakeupStep
<1>3. Waiters /\ Attempts => NoLostWakeup
  BY DEF Waiters, Attempts, Underway, NoLostWakeup
<1>4. QED
  BY <1>1, <1>2, <1>3, TypeCorrect, SingleFlightCorrect, PTL DEF Spec, TypeInv

\* One deployment at a time is awaited, and none in vain.
THEOREM DeploymentInFlightCorrect == Spec => []DeploymentInFlight
  BY SingleFlightCorrect, NoLostWakeupCorrect, PTL DEF DeploymentInFlight

-----------------------------------------------------------------------------
\* One shared deployment

Running == {l \in DOMAIN loops : Active(l)}

\* The health check that may deploy waits for no deployment.
TickFree == tick.pc = "checking" => calls[Tick].pc # "waiting"

\* Whatever happens to attempts, sessions and sandboxes.
LEMMA SharedStutter ==
    ASSUME TypeInv, UNCHANGED <<promise, calls>>,
           Len(loops') = Len(loops), DOMAIN loops' = DOMAIN loops,
           \A l \in DOMAIN loops :
              /\ loops'[l].pc = "ended" <=> loops[l].pc = "ended"
              /\ loops'[l].owner = loops[l].owner
    PROVE  UNCHANGED Shared!vars
<1>1. promise # 0 => promise \in DOMAIN loops
  BY TypedElements DEF TypeInv, TypeOK
<1>2. UNCHANGED Maker
  BY <1>1 DEF Maker
<1>3. UNCHANGED Running
  BY DEF Running, Active
<1>4. UNCHANGED Waits
  BY DEF Waits
<1>5. QED
  BY <1>2, <1>3, <1>4 DEF Shared!vars, Running

LEMMA SharedReturn ==
    ASSUME TypeInv, DeploymentAssumption, SingleFlight,
           NEW l \in DOMAIN loops, Active(l), NEW i \in Nat, LoopReturns(l, i)
    PROVE  Shared!Return(l)
<1>1. LoopChanged(l) /\ loops'[l].pc = "ended"
  BY LoopReturnsEffect
<1>2. promise' = IF loops[l].owner = None THEN promise ELSE 0
  BY LoopReturnsEffect
<1>3. /\ Len(loops') = Len(loops) /\ DOMAIN loops' = DOMAIN loops
      /\ \A k \in DOMAIN loops : k # l => loops'[k] = loops[k]
  BY <1>1 DEF LoopChanged
<1>4. l # 0 /\ (promise # 0 => promise \in DOMAIN loops)
  BY TypedElements DEF TypeInv, TypeOK
<1>5. l \in Running /\ Running' = Running \ {l}
  BY <1>1, <1>3 DEF Running, Active
<1>6. Waits' = [c \in Callers |-> IF Waits[c] = l THEN 0 ELSE Waits[c]]
  <2> SUFFICES ASSUME NEW c \in Callers
               PROVE  Waits'[c] = IF Waits[c] = l THEN 0 ELSE Waits[c]
    BY Zenon DEF Waits
  <2>1. Waits[c] = IF calls[c].pc = "waiting" THEN calls[c].loop ELSE 0
    BY DEF Waits
  <2>2. Waits'[c] = IF calls'[c].pc = "waiting" THEN calls'[c].loop ELSE 0
    BY DEF Waits
  <2>3. CASE calls[c] = [pc |-> "waiting", loop |-> l]
    <3>1. calls'[c].pc # "waiting"
      BY <2>3 DEF LoopReturns
    <3>2. QED
      BY <2>1, <2>2, <2>3, <3>1
  <2>4. CASE calls[c] # [pc |-> "waiting", loop |-> l]
    <3>1. calls'[c] = calls[c]
      BY <2>4 DEF LoopReturns
    <3>2. calls[c] \in Call
      BY DEF TypeInv, TypeOK
    <3>3. ~(calls[c].pc = "waiting" /\ calls[c].loop = l)
      BY <2>4, <3>2 DEF Call
    <3>4. QED
      BY <1>4, <2>1, <2>2, <3>1, <3>3
  <2>5. QED
    BY <2>3, <2>4
<1>7. CASE promise = l
  <2>1. promise' = 0 /\ Maker' = None
    BY <1>2, <1>4, <1>7 DEF SingleFlight, Maker
  <2>2. QED
    BY <1>3, <1>5, <1>6, <1>7, <2>1 DEF Shared!Return, Running
<1>8. CASE promise # l
  <2>1. loops[l].owner = None
    BY <1>8 DEF SingleFlight
  <2>2. promise' = promise /\ Maker' = Maker
    BY <1>2, <1>3, <1>4, <1>8, <2>1 DEF Maker
  <2>3. QED
    BY <1>3, <1>5, <1>6, <1>8, <2>2 DEF Shared!Return, Running
<1>9. QED
  BY <1>7, <1>8

LEMMA SharedDeploy ==
    ASSUME TypeInv, DeploymentAssumption,
           NEW c \in Callers, NEW files \in SUBSET Files,
           NEW redeploy \in BOOLEAN, saved' \in SUBSET Files,
           calls[c].pc # "waiting", DeployToSandbox(c, files, redeploy)
    PROVE  Shared!Start(c) \/ Shared!Join(c)
<1>1. /\ Len(loops) \in Nat /\ DOMAIN loops = 1..Len(loops)
      /\ calls \in [Callers -> Call] /\ promise \in 0..Len(loops)
  BY TypedElements DEF TypeInv, TypeOK
<1>2. Waits[c] = 0
  BY DEF Waits
<1>3. ASSUME NEW w, calls' = [calls EXCEPT ![c] = [pc |-> "waiting", loop |-> w]]
      PROVE  Waits' = [Waits EXCEPT ![c] = w]
  <2>1. ASSUME NEW d \in Callers
        PROVE  Waits'[d] = IF d = c THEN w ELSE Waits[d]
    <3>1. calls'[d] = IF d = c THEN [pc |-> "waiting", loop |-> w] ELSE calls[d]
      BY <1>1, <1>3
    <3>2. QED
      BY <3>1 DEF Waits
  <2>2. QED
    BY <2>1, Zenon DEF Waits
<1>4. CASE promise # 0
  <2>1. UNCHANGED <<promise, loops>>
    BY <1>4, DeployToSandboxEffect
  <2>2. calls' = [calls EXCEPT ![c] = [pc |-> "waiting", loop |-> promise]]
    BY <1>4, DeployToSandboxEffect
  <2>3. Waits' = [Waits EXCEPT ![c] = promise]
    BY <1>3, <2>2
  <2>4. UNCHANGED <<Maker, Len(loops), Running>>
    BY <2>1 DEF Maker, Running, Active
  <2>5. Shared!Join(c)
    BY <1>2, <1>4, <2>1, <2>3, <2>4 DEF Shared!Join, Running
  <2>6. QED
    BY <2>5
<1>5. CASE promise = 0
  <2>0. PICK n \in Nat : n = Len(loops) + 1
    BY <1>1
  <2>1. promise' = n
    BY <1>5, <2>0, DeployStarts
  <2>2. calls' = [calls EXCEPT ![c] = [pc |-> "waiting", loop |-> promise']]
    BY <1>5, DeployStarts
  <2>3. /\ DOMAIN loops' = 1..n /\ Len(loops') = n
        /\ \A l \in DOMAIN loops : loops'[l] = loops[l]
    BY <1>5, <2>0, DeployToSandboxEffect
  <2>4. loops'[n].pc = "attempt" /\ loops'[n].owner = c
    BY <1>5, <2>0, DeployToSandboxEffect
  <2>5. Waits' = [Waits EXCEPT ![c] = n]
    BY <1>3, <2>1, <2>2
  <2>6. Maker' = c
    BY <2>0, <2>1, <2>4 DEF Maker
  <2>7. Running' = Running \cup {n}
    BY <1>1, <2>0, <2>3, <2>4 DEF Running, Active
  <2>8. Shared!Start(c)
    BY <1>2, <1>5, <2>0, <2>1, <2>3, <2>5, <2>6, <2>7
    DEF Shared!Start, Running
  <2>9. QED
    BY <2>8
<1>6. QED
  BY <1>4, <1>5

LEMMA SharedGiveUp ==
    ASSUME TypeInv, DeploymentAssumption, SingleFlight,
           NEW l \in DOMAIN loops, MasterTimeout(l)
    PROVE  Shared!GiveUp
<1>1. /\ Active(l) /\ loops[l].owner # None /\ promise' = 0
      /\ calls' = [calls EXCEPT ![loops[l].owner] =
            [pc |-> IF loops[l].owner = Tick THEN "idle" ELSE "failed",
             loop |-> l]]
  BY DEF MasterTimeout, Active
<1>2. l = promise /\ l # 0 /\ calls \in [Callers -> Call]
  BY <1>1, TypedElements DEF SingleFlight, TypeInv, TypeOK
<1>3. Maker = loops[l].owner /\ Maker' = None
  BY <1>1, <1>2 DEF Maker
<1>4. Waits' = [Waits EXCEPT ![Maker] = 0]
  <2>1. ASSUME NEW d \in Callers
        PROVE  Waits'[d] = IF d = Maker THEN 0 ELSE Waits[d]
    <3>1. CASE d = Maker
      <4>1. calls'[d].pc # "waiting"
        BY <1>1, <1>2, <1>3, <3>1
      <4>2. QED
        BY <3>1, <4>1 DEF Waits
    <3>2. CASE d # Maker
      <4>1. calls'[d] = calls[d]
        BY <1>1, <1>2, <1>3, <3>2
      <4>2. QED
        BY <3>2, <4>1 DEF Waits
    <3>3. QED
      BY <3>1, <3>2
  <2>2. QED
    BY <2>1, Zenon DEF Waits
<1>5. /\ Len(loops') = Len(loops) /\ DOMAIN loops' = DOMAIN loops
      /\ \A k \in DOMAIN loops : k # l => loops'[k] = loops[k]
  BY MasterTimeoutEffect
<1>6. loops'[l].pc = loops[l].pc
  BY MasterTimeoutEffect
<1>7. Running' = Running
  BY <1>5, <1>6 DEF Running, Active
<1>8. QED
  BY <1>1, <1>2, <1>3, <1>4, <1>5, <1>7 DEF Shared!GiveUp, Running

LEMMA SharedLeave ==
    ASSUME TypeInv, NoLostWakeup, NEW c \in Callers, JoinerTimeout(c)
    PROVE  Shared!Leave(c)
<1>1. /\ calls[c].pc = "waiting" /\ loops[calls[c].loop].owner # c
      /\ calls' = [calls EXCEPT ![c].pc = IF c = Tick THEN "idle" ELSE "failed"]
      /\ UNCHANGED <<promise, loops>>
  BY DEF JoinerTimeout, fields
<1>2. /\ calls \in [Callers -> Call] /\ calls[c] \in Call
      /\ calls[c].loop \in DOMAIN loops /\ DOMAIN loops = 1..Len(loops)
      /\ Len(loops) \in Nat
  BY <1>1, TypedElements DEF NoLostWakeup, TypeInv, TypeOK
<1>3. Waits[c] = calls[c].loop /\ Waits[c] # 0
  BY <1>1, <1>2 DEF Waits
<1>4. Waits[c] = promise => c # Maker
  BY <1>1, <1>3 DEF Maker
<1>5. Waits' = [Waits EXCEPT ![c] = 0]
  <2>1. ASSUME NEW d \in Callers
        PROVE  Waits'[d] = IF d = c THEN 0 ELSE Waits[d]
    <3>1. CASE d = c
      <4>1. calls'[d].pc # "waiting"
        BY <1>1, <1>2, <3>1 DEF Call
      <4>2. QED
        BY <3>1, <4>1 DEF Waits
    <3>2. CASE d # c
      <4>1. calls'[d] = calls[d]
        BY <1>1, <1>2, <3>2
      <4>2. QED
        BY <3>2, <4>1 DEF Waits
    <3>3. QED
      BY <3>1, <3>2
  <2>2. QED
    BY <2>1, Zenon DEF Waits
<1>6. UNCHANGED <<Maker, Len(loops), Running>>
  BY <1>1 DEF Maker, Running, Active
<1>7. QED
  BY <1>1, <1>3, <1>4, <1>5, <1>6 DEF Shared!Leave, Running

LEMMA SharedEvict ==
    ASSUME TypeInv, Restart
    PROVE  Shared!Evict
<1>1. promise' = 0 /\ Len(loops') = 0 /\ DOMAIN loops' = {}
  BY RestartEffect
<1>2. Maker' = None /\ Running' = {}
  BY <1>1 DEF Maker, Running
<1>3. \A c \in Callers : calls'[c].pc # "waiting"
  BY DEF Restart, TypeInv, TypeOK, Call
<1>4. Waits' = [c \in Callers |-> 0]
  BY <1>3 DEF Waits
<1>5. QED
  BY <1>1, <1>2, <1>4 DEF Shared!Evict, Running

\* What deploy() and the retry loop do is seen when the loop returns only.
LEMMA TaskStepShared ==
    ASSUME TypeInv, DeploymentAssumption, SingleFlight,
           NEW t \in DOMAIN tasks, TaskStep(t)
    PROVE  \/ UNCHANGED Shared!vars
           \/ \E l \in Running : Shared!Return(l)
<1> DEFINE l == tasks[t].loop
           i == tasks[t].instance
<1>1. tasks[t].pc # "settled" => l \in DOMAIN loops
  BY DEF TypeInv, TasksPlaced
<1>2. tasks[t] \in Task /\ Len(sandboxes) \in Nat
  BY TypedElements
<1>3. /\ i \in 0..Len(sandboxes) /\ i \in Nat
      /\ tasks[t].redeployed \in BOOLEAN
  BY <1>2 DEF TypeInv, TasksPlaced, Task
<1>4. CASE UNCHANGED <<promise, calls, loops>>
  BY <1>4, SharedStutter
<1>5. CASE TaskStatus(t) \/ TaskCreated(t)
  BY <1>4, <1>5 DEF TaskStatus, TaskCreated
<1>6. CASE TaskWritten(t)
  <2>1. /\ tasks[t].pc = "writing" /\ UNCHANGED session
        /\ \/ Awaited(t) /\ LoopSucceeds(l, i, tasks[t].redeployed)
           \/ UNCHANGED <<promise, calls, loops>>
    BY <1>6 DEF TaskWritten
  <2>2. l \in DOMAIN loops
    BY <1>1, <2>1
  <2>3. CASE Awaited(t) /\ LoopSucceeds(l, i, tasks[t].redeployed)
    <3>1. Active(l)
      BY <2>3 DEF Awaited, Active
    <3> HIDE DEF l, i
    <3>2. CASE LoopReturns(l, i)
      <4>1. Shared!Return(l) /\ l \in Running
        BY <1>3, <2>2, <3>1, <3>2, SharedReturn DEF Running
      <4>2. QED
        BY <4>1
    <3>3. CASE ~LoopReturns(l, i)
      <4>1. UNCHANGED <<promise, calls>> /\ loops'[l].pc = "setup"
        <5>1. UNCHANGED calls /\ loops'[l].pc = "setup"
          BY <2>2, <2>3, <3>3, SucceedsOrReturns
        <5>2. UNCHANGED promise
          BY <2>3, <3>3 DEF LoopSucceeds
        <5>3. QED
          BY <5>1, <5>2
      <4>2. LoopChanged(l)
        BY <1>3, <2>1, <2>2, <2>3, LoopSucceedsEffect
      <4>3. QED
        BY <3>1, <4>1, <4>2, SharedStutter DEF LoopChanged, Active
    <3>4. QED
      BY <3>2, <3>3
  <2>4. QED
    BY <1>4, <2>1, <2>3
<1>7. CASE TaskFails(t)
  <2>1. PICK sessionLevel \in BOOLEAN :
           /\ tasks[t].pc # "settled" /\ UNCHANGED <<promise, calls>>
           /\ \/ Awaited(t) /\ LoopFails(l, sessionLevel)
              \/ UNCHANGED loops
    BY <1>7 DEF TaskFails, SandboxCallFails
  <2>2. CASE Awaited(t) /\ LoopFails(l, sessionLevel)
    <3>1. l \in DOMAIN loops /\ Active(l)
      BY <1>1, <2>1, <2>2 DEF Awaited, Active
    <3> HIDE DEF l
    <3>2. LoopChanged(l) /\ loops'[l].pc = "backoff"
      BY <2>2, <3>1, LoopFailsEffect
    <3>3. QED
      BY <2>1, <3>1, <3>2, SharedStutter DEF LoopChanged, Active
  <2>3. QED
    BY <1>4, <2>1, <2>2
<1>8. QED
  BY <1>5, <1>6, <1>7 DEF TaskStep

LEMMA LoopStepShared ==
    ASSUME TypeInv, DeploymentAssumption, SingleFlight,
           NEW l \in DOMAIN loops, LoopStep(l)
    PROVE  \/ UNCHANGED Shared!vars
           \/ \E d \in Running : Shared!Return(d)
<1>1. CASE AttemptTimeout(l) \/ SetupFails(l)
  <2>1. PICK sessionLevel \in BOOLEAN : LoopFails(l, sessionLevel)
    BY <1>1 DEF AttemptTimeout, SetupFails
  <2>2. UNCHANGED <<promise, calls>> /\ Active(l)
    BY <1>1 DEF AttemptTimeout, SetupFails, Active
  <2>3. LoopChanged(l) /\ loops'[l].pc = "backoff"
    BY <2>1, LoopFailsEffect
  <2>4. QED
    BY <2>2, <2>3, SharedStutter DEF LoopChanged, Active
<1>2. CASE SetupDone(l)
  <2>1. PICK i \in Nat : LoopReturns(l, i)
    BY <1>2, TypedElements DEF SetupDone, Loop
  <2>2. Active(l)
    BY <1>2 DEF SetupDone, Active
  <2>3. Shared!Return(l) /\ l \in Running
    BY <2>1, <2>2, SharedReturn DEF Running
  <2>4. QED
    BY <2>3
<1>3. CASE Retry(l)
  <2>1. UNCHANGED <<promise, calls>>
    BY <1>3 DEF Retry
  <2>2. /\ loops[l].pc = "backoff" /\ loops'[l].pc = "attempt"
        /\ Len(loops') = Len(loops) /\ DOMAIN loops' = DOMAIN loops
        /\ loops'[l].owner = loops[l].owner
        /\ \A k \in DOMAIN loops : k # l => loops'[k] = loops[k]
    BY <1>3, RetryEffect
  <2>3. QED
    BY <2>1, <2>2, SharedStutter
<1>4. QED
  BY <1>1, <1>2, <1>3 DEF LoopStep

LEMMA SharedStep ==
    ASSUME TypeInv, DeploymentAssumption, SingleFlight, NoLostWakeup, TickFree,
           [Next]_vars
    PROVE  [Shared!Next]_Shared!vars
<1>1. ASSUME NEW c \in Calls, CallDeploy(c) PROVE Shared!Next
  <2> DEFINE own == {c} \cap WithFiles
             redeploy == c \in Redeploying
  <2>1. /\ own \in SUBSET Files /\ redeploy \in BOOLEAN
        /\ c \in Callers /\ saved \in SUBSET Files
    BY DEF Files, Callers, DeploymentAssumption, TypeInv, TypeOK
  <2>2. /\ saved' = saved \cup own /\ DeployToSandbox(c, own, redeploy)
        /\ calls[c].pc # "waiting"
    BY <1>1 DEF CallDeploy
  <2>3. saved' \in SUBSET Files
    BY <2>1, <2>2
  <2> HIDE DEF own, redeploy
  <2>4. Shared!Start(c) \/ Shared!Join(c)
    BY <2>1, <2>2, <2>3, SharedDeploy
  <2>5. QED
    BY <2>1, <2>4 DEF Shared!Next
<1>2. CASE TickUnhealthy
  <2>1. saved' \in SUBSET Files
    BY <1>2 DEF TickUnhealthy, TypeInv, TypeOK
  <2>2. PICK c \in Callers, files \in SUBSET Files, redeploy \in BOOLEAN :
           c = Tick /\ DeployToSandbox(c, files, redeploy)
    <3>1. DeployToSandbox(Tick, {}, FALSE)
      BY <1>2 DEF TickUnhealthy
    <3>2. QED
      BY <3>1, Zenon DEF Callers
  <2>3. calls[c].pc # "waiting"
    BY <1>2, <2>2 DEF TickUnhealthy, TickFree
  <2>4. Shared!Start(c) \/ Shared!Join(c)
    BY <2>1, <2>2, <2>3, SharedDeploy
  <2>5. QED
    BY <2>4 DEF Shared!Next
<1>3. ASSUME NEW c \in Callers, JoinerTimeout(c) PROVE Shared!Next
  BY <1>3, SharedLeave DEF Shared!Next
<1>4. ASSUME NEW l \in DOMAIN loops, MasterTimeout(l) PROVE Shared!Next
  BY <1>4, SharedGiveUp DEF Shared!Next
<1>5. CASE Deploying
  <2>1. \/ UNCHANGED Shared!vars
        \/ \E l \in Running : Shared!Return(l)
    BY <1>5, TaskStepShared, LoopStepShared DEF Deploying
  <2>2. QED
    BY <2>1 DEF Shared!Next, Running
<1>6. CASE Restart
  BY <1>6, SharedEvict DEF Shared!Next
<1>7. ASSUME \/ TickStart \/ TickHealthy \/ UNCHANGED vars
             \/ \E i \in DOMAIN sandboxes : SandboxDies(i)
      PROVE  UNCHANGED Shared!vars
  <2>1. UNCHANGED <<promise, calls, loops>>
    BY <1>7 DEF TickStart, TickHealthy, SandboxDies, vars, running, fields
  <2>2. QED
    BY <2>1, SharedStutter
<1>8. QED
  BY <1>1, <1>2, <1>3, <1>4, <1>5, <1>6, <1>7 DEF Next, Ticking

\* The callback runs again only after its deployment has answered it.
LEMMA TickFreeStep ==
    ASSUME TypeInv, DeploymentAssumption, TickFree, [Next]_vars
    PROVE  TickFree'
<1>1. calls \in [Callers -> Call] /\ Tick \in Callers /\ Tick \notin Calls
  BY DEF TypeInv, TypeOK, Callers, DeploymentAssumption
<1>2. CASE /\ tick' = tick
           /\ calls'[Tick].pc = "waiting" => calls'[Tick] = calls[Tick]
  BY <1>2 DEF TickFree
<1>3. CASE tick'.pc = "idle"
  BY <1>3 DEF TickFree
<1>4. ASSUME NEW c \in Calls, CallDeploy(c) PROVE TickFree'
  <2>1. /\ UNCHANGED tick
        /\ \E w : calls' = [calls EXCEPT ![c] = [pc |-> "waiting", loop |-> w]]
    BY <1>4 DEF CallDeploy, DeployToSandbox
  <2>2. calls'[Tick] = calls[Tick]
    BY <1>1, <2>1
  <2>3. QED
    BY <1>2, <2>1, <2>2
<1>5. ASSUME NEW c \in Callers, JoinerTimeout(c) PROVE TickFree'
  <2>1. UNCHANGED tick
    BY <1>5 DEF JoinerTimeout
  <2>2. calls'[Tick].pc = "waiting" => calls'[Tick] = calls[Tick]
    BY <1>1, <1>5 DEF JoinerTimeout, Call
  <2>3. QED
    BY <1>2, <2>1, <2>2
<1>6. ASSUME NEW l \in DOMAIN loops, MasterTimeout(l) PROVE TickFree'
  <2>1. UNCHANGED tick
    BY <1>6 DEF MasterTimeout
  <2>2. calls'[Tick] = calls[Tick] \/ calls'[Tick].pc \in {"idle", "failed"}
    BY <1>1, <1>6, MasterTimeoutEffect
  <2>3. QED
    BY <1>2, <2>1, <2>2
<1>7. ASSUME NEW l, NEW i, LoopReturns(l, i), UNCHANGED tick
      PROVE  TickFree'
  <2>1. calls'[Tick].pc = "waiting" => calls'[Tick] = calls[Tick]
    BY <1>1, <1>7 DEF LoopReturns
  <2>2. QED
    BY <1>2, <1>7, <2>1
<1>8. CASE Deploying
  <2>1. \/ UNCHANGED <<tick, calls>>
        \/ UNCHANGED tick /\ \E l, i : LoopReturns(l, i)
    <3>1. ASSUME NEW t \in DOMAIN tasks, TaskStep(t) PROVE <2>1
      BY <3>1 DEF TaskStep, TaskStatus, TaskCreated, TaskWritten, TaskFails,
                  LoopSucceeds
    <3>2. ASSUME NEW l \in DOMAIN loops, LoopStep(l) PROVE <2>1
      BY <3>2 DEF LoopStep, AttemptTimeout, SetupFails, SetupDone, Retry
    <3>3. QED
      BY <1>8, <3>1, <3>2 DEF Deploying
  <2>2. QED
    BY <1>2, <1>7, <2>1
<1>9. CASE TickStart
  BY <1>9 DEF TickStart, TickFree
<1>10. CASE TickHealthy \/ TickUnhealthy \/ Restart
  <2>1. tick' = Idle
    BY <1>10 DEF TickHealthy, TickUnhealthy, Restart
  <2>2. QED
    BY <1>3, <2>1 DEF Idle
<1>11. ASSUME UNCHANGED vars \/ \E i \in DOMAIN sandboxes : SandboxDies(i)
       PROVE  TickFree'
  BY <1>2, <1>11 DEF SandboxDies, vars, running
<1>12. QED
  BY <1>4, <1>5, <1>6, <1>8, <1>9, <1>10, <1>11 DEF Next, Ticking

\* Whatever becomes of attempts, sessions and sandboxes, every step of the
\* manager is a step of one shared deployment, or none.
THEOREM ImplementsCorrect == Spec => Implements
<1> USE DeploymentAssumption
<1>1. Init => Shared!Init
  <2>1. SUFFICES ASSUME Init PROVE Shared!Init
    OBVIOUS
  <2>2. Len(loops) = 0 /\ DOMAIN loops = {}
    BY <2>1 DEF Init
  <2>3. Waits = [c \in Callers |-> 0]
    BY <2>1 DEF Init, Waits
  <2>4. QED
    BY <2>1, <2>2, <2>3 DEF Init, Shared!Init, Maker
<1>2. Init => TickFree
  BY DEF Init, TickFree
<1>3. TypeInv /\ TickFree /\ [Next]_vars => TickFree'
  BY TickFreeStep
<1>4. TypeInv /\ SingleFlight /\ NoLostWakeup /\ TickFree /\ [Next]_vars
         => [Shared!Next]_Shared!vars
  BY SharedStep
<1>5. QED
  BY <1>1, <1>2, <1>3, <1>4, TypeCorrect, SingleFlightCorrect,
     NoLostWakeupCorrect, PTL DEF Spec, Implements, Shared!Spec, TypeInv

=============================================================================
