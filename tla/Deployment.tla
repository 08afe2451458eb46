------------------------------ MODULE Deployment ------------------------------
(***************************************************************************)
(* DeploymentManager: deployToSandbox with its shared promise, the retry   *)
(* loop behind it, deploy() with ensureInstance, the sandbox session the   *)
(* agent talks to, and the health check that redeploys.                    *)
(*                                                                         *)
(* Timeouts race a promise and do not cancel it, so a deploy() whose       *)
(* attempt timed out, and a retry loop whose caller timed out, run on.     *)
(* An action is the code between two awaits; what a settled promise        *)
(* resumes without another await belongs to the same action.               *)
(*                                                                         *)
(* An operator named Mut... is the operator after it with a plausible      *)
(* mistake in it; no action uses it.                                       *)
(***************************************************************************)
EXTENDS Integers, Sequences, FiniteSets

CONSTANTS
    Calls,        \* calls of deployToSandbox by the agent
    WithFiles,    \* those that pass a file (a call saves its file first)
    Redeploying,  \* those that pass redeploy = TRUE
    Tick,         \* the caller that is the health-check callback
    Base,         \* a file the project has from its initialization
    None,         \* no caller
    MaxAttempts,  \* maxAttemptsBeforeSessionReset, 3 in the code
    HasCommands,  \* BOOLEAN: commandsHistory is not empty
    OneToOne,     \* BOOLEAN: ALLOCATION_STRATEGY is one_to_one
    InPool(_),    \* otherwise, the pooled container of a session
    Protected,    \* files of donttouch_files, which writeFiles leaves alone
    MaxFaults,    \* bound: failed or late sandbox calls, dead instances
    MaxTries,     \* bound: attempts of a loop while another one is active
    MaxRestarts   \* bound: evictions of the Durable Object

ASSUME DeploymentAssumption ==
    /\ WithFiles \subseteq Calls
    /\ Redeploying \subseteq Calls
    /\ Tick \notin Calls /\ None \notin Calls \cup {Tick}
    /\ Base \notin Calls
    /\ MaxAttempts \in Nat \ {0}
    /\ {HasCommands, OneToOne} \subseteq BOOLEAN
    /\ Protected \subseteq Calls \cup {Base}
    /\ {MaxFaults, MaxTries, MaxRestarts} \subseteq Nat

VARIABLES
    \* persisted in the agent state
    session,    \* sessionId
    instance,   \* sandboxInstanceId, an index of sandboxes, or 0
    saved,      \* generatedFilesMap
    \* fields of the manager
    client,     \* the session of cachedSandboxClient, or 0
    promise,    \* the loop of currentDeploymentPromise, or 0
    interval,   \* the instance healthCheckInterval watches, or 0
    \* running code
    calls,      \* each caller, and the loop it waits for
    loops,      \* the runs of executeDeploymentWithRetry
    tasks,      \* the runs of deploy()
    tick,       \* the health-check callback
    \* the sandbox service
    sandboxes,
    \* history
    faults, restarts

state   == <<session, instance, saved>>
fields  == <<client, promise, interval>>
running == <<calls, loops, tasks, tick>>
history == <<faults, restarts>>
vars    == <<state, fields, running, sandboxes, history>>

-----------------------------------------------------------------------------
Callers == Calls \cup {Tick}
Files   == Calls \cup {Base}

Loop == [pc : {"attempt", "setup", "backoff", "ended"},
         files : SUBSET Files, redeploy : BOOLEAN,
         owner : Callers \cup {None},   \* the caller that still waits for it
         sessions : Seq(Nat),           \* the client's session, of each attempt
         task : Nat,                    \* the deploy() of the last attempt
         result : Nat]                  \* the instance it deployed

Task == [pc : {"status", "creating", "writing", "settled"}, loop : Nat,
         client : Nat, instance : Nat, redeployed : BOOLEAN,
         files : SUBSET Files]

Call == [pc : {"idle", "waiting", "preview", "failed"}, loop : Nat]

Sandbox == [session : Nat, healthy : BOOLEAN,
            files : SUBSET Files,       \* written
            lost : SUBSET Files]        \* not, by a write answered with success

TypeOK ==
    /\ session \in Nat /\ instance \in 0..Len(sandboxes)
    /\ saved \in SUBSET Files
    /\ client \in Nat
    /\ promise \in 0..Len(loops)
    /\ interval \in 0..Len(sandboxes)
    /\ calls \in [Callers -> Call]
    /\ loops \in Seq(Loop)
    /\ tasks \in Seq(Task)
    /\ tick \in [pc : {"idle", "checking"}, instance : Nat, client : Nat]
    /\ sandboxes \in Seq(Sandbox)
    /\ faults \in 0..MaxFaults
    /\ restarts \in 0..MaxRestarts

Fault == faults < MaxFaults /\ faults' = faults + 1

Init ==
    /\ session = 1
    /\ instance = 0
    /\ saved = {Base}
    /\ client = 0
    /\ promise = 0
    /\ interval = 0
    /\ calls = [c \in Callers |-> [pc |-> "idle", loop |-> 0]]
    /\ loops = << >>
    /\ tasks = << >>
    /\ tick = [pc |-> "idle", instance |-> 0, client |-> 0]
    /\ sandboxes = << >>
    /\ faults = 0 /\ restarts = 0

-----------------------------------------------------------------------------
\* Shared by the actions

Container(s) == IF OneToOne THEN s ELSE InPool(s)

\* A client finds the instances of its container: session, metadata and
\* processes of an instance are looked up there.
Reachable(i, s) == i # 0 /\ Container(sandboxes[i].session) = Container(s)
Healthy(i, s)   == Reachable(i, s) /\ sandboxes[i].healthy

\* The script that writes the files of a request ends, having written all of
\* them, or fails with some: its caller is told of success in either case.
WriteFilesViaScript(files, written) ==
    \/ written = files /\ UNCHANGED faults
    \/ written \in SUBSET files \ {files} /\ Fault

\* writeFiles answers with success; deploy() looks no further.
WriteFiles(i, files) ==
    \E written \in SUBSET (files \ Protected) :
        /\ WriteFilesViaScript(files \ Protected, written)
        /\ sandboxes' = [sandboxes EXCEPT ![i].files = @ \cup written,
                                         ![i].lost = (@ \cup files) \ written]

\* It throws, some of the files written or none.
WriteFilesFails(i, files) ==
    /\ Fault
    /\ \E written \in SUBSET (files \ Protected) :
          sandboxes' = [sandboxes EXCEPT ![i].files = @ \cup written,
                                         ![i].lost = @ \ written]

\* createInstance answers with a new instance of session s.
CreateInstance(s, files) ==
    \E written \in SUBSET files :
        /\ WriteFilesViaScript(files, written)
        /\ sandboxes' = Append(sandboxes,
              [session |-> s, healthy |-> TRUE, files |-> written,
               lost |-> files \ written])

\* It answers with the live instance there is in the container of s.
FindInstance(s) ==
    /\ OneToOne
    /\ \E i \in DOMAIN sandboxes : Healthy(i, s) /\ instance' = i
    /\ UNCHANGED <<sandboxes, faults>>

\* resetSessionId() drops the client that is tied to the old session.
CachedClient(reset) == IF reset THEN 0 ELSE client

\* resetSessionId(), if it is called, but for the client
ResetSession(reset) == session' = IF reset THEN session + 1 ELSE session

\* getClient() makes a client for the session of now if none is cached.
GetClient(cached) == IF cached = 0 THEN session' ELSE cached

\* getFilesToDeploy
FilesToDeploy(l, redeployed) ==
    IF loops[l].files = {} \/ redeployed THEN saved ELSE loops[l].files

\* deploy() of loop l up to its first await: the status of the instance there
\* is, or the creation of one with all the files.
BeginDeploy(l, redeploy) ==
    /\ ResetSession(redeploy)
    /\ instance' = IF redeploy THEN 0 ELSE instance
    /\ client' = GetClient(CachedClient(redeploy))
    /\ tasks' = Append(tasks,
          [pc |-> IF instance' # 0 THEN "status" ELSE "creating",
           loop |-> l, client |-> client', instance |-> instance',
           redeployed |-> FALSE,
           files |-> IF instance' # 0 THEN {} ELSE saved'])

\* t goes on to its next await, through the client of now.
Continue(t, pc, i, redeployed, files) ==
    /\ client' = GetClient(client)
    /\ tasks' = [tasks EXCEPT ![t] =
          [pc |-> pc, loop |-> @.loop, client |-> client', instance |-> i,
           redeployed |-> redeployed, files |-> files]]

Settle(t) ==
    tasks' = [tasks EXCEPT ![t] =
        [pc |-> "settled", loop |-> 0, client |-> 0, instance |-> 0,
         redeployed |-> FALSE, files |-> {}]]

Active(l) == loops[l].pc # "ended"
Alone(l)  == \A k \in DOMAIN loops : Active(k) => k = l

\* The attempt that started t still waits for it.
Awaited(t) ==
    /\ loops[tasks[t].loop].pc = "attempt"
    /\ loops[tasks[t].loop].task = t

MutClearAnyPromise(l) == promise' = 0

\* The finally of the caller that made the promise, unless it gave up before.
ClearPromise(l) == promise' = IF loops[l].owner = None THEN promise ELSE 0

MutOwnerReturns(l, i) ==
    /\ loops' = [loops EXCEPT ![l].pc = "ended", ![l].result = i]
    /\ ClearPromise(l)
    /\ calls' = [c \in Callers |->
          IF c = loops[l].owner
          THEN [pc |-> IF c = Tick THEN "idle" ELSE "preview", loop |-> l]
          ELSE calls[c]]

\* Loop l returns instance i to whoever still waits for it.
LoopReturns(l, i) ==
    /\ loops' = [loops EXCEPT ![l].pc = "ended", ![l].result = i]
    /\ ClearPromise(l)
    /\ calls' = [c \in Callers |->
          IF calls[c] = [pc |-> "waiting", loop |-> l]
          THEN [pc |-> IF c = Tick THEN "idle" ELSE "preview", loop |-> l]
          ELSE calls[c]]

\* deploy() succeeded: a new instance, or one nobody watches, gets a health
\* check and the setup commands.
LoopSucceeds(l, i, redeployed) ==
    \/ /\ redeployed \/ interval = 0
       /\ interval' = i
       /\ client' = GetClient(client)
       /\ \/ /\ HasCommands
             /\ loops' = [loops EXCEPT ![l].pc = "setup", ![l].result = i]
             /\ UNCHANGED <<promise, calls>>
          \/ ~HasCommands /\ LoopReturns(l, i)
    \/ /\ ~redeployed /\ interval # 0
       /\ LoopReturns(l, i)
       /\ UNCHANGED <<client, interval>>

MutResetLate(l) == Len(loops[l].sessions) % (MaxAttempts + 1) = 0

\* attempt % maxAttemptsBeforeSessionReset === 0
AttemptsExhausted(l) == Len(loops[l].sessions) % MaxAttempts = 0

\* The catch of the retry loop, up to its backoff.  Some errors of the sandbox
\* ask for a new session at once.
LoopFails(l, sessionLevel) ==
    LET reset == sessionLevel \/ AttemptsExhausted(l)
    IN  /\ ResetSession(reset)
        /\ client' = CachedClient(reset)
        /\ instance' = 0
        /\ loops' = [loops EXCEPT ![l].pc = "backoff"]

\* deployToSandbox up to its first await: join the deployment in progress, and
\* leave the arguments, or start one.
DeployToSandbox(c, files, redeploy) ==
    \/ /\ promise # 0
       /\ calls' = [calls EXCEPT ![c] = [pc |-> "waiting", loop |-> promise]]
       /\ UNCHANGED <<session, instance, client, promise, loops, tasks>>
    \/ /\ promise = 0
       /\ promise' = Len(loops) + 1
       /\ calls' = [calls EXCEPT ![c] = [pc |-> "waiting", loop |-> promise']]
       /\ BeginDeploy(promise', redeploy)
       /\ loops' = Append(loops,
             [pc |-> "attempt", files |-> files, redeploy |-> redeploy,
              owner |-> c, sessions |-> <<client'>>, task |-> Len(tasks'),
              result |-> 0])

-----------------------------------------------------------------------------
\* Calls of the agent

\* The files of a phase, a fix or a tool are saved, then deployed.
CallDeploy(c) ==
    /\ calls[c].pc = "idle"
    /\ saved' = saved \cup ({c} \cap WithFiles)
    /\ DeployToSandbox(c, {c} \cap WithFiles, c \in Redeploying)
    /\ UNCHANGED <<interval, tick, sandboxes, history>>

\* The five minutes of the caller that made the promise are over: it stops
\* waiting and clears the promise; the loop runs on.  They do not fit into the
\* sixty seconds of one attempt.
MasterTimeout(l) ==
    /\ loops[l].pc # "ended" /\ loops[l].owner # None
    /\ Len(loops[l].sessions) > 1
    /\ calls' = [calls EXCEPT ![loops[l].owner] =
          [pc |-> IF loops[l].owner = Tick THEN "idle" ELSE "failed", loop |-> l]]
    /\ loops' = [loops EXCEPT ![l].owner = None]
    /\ promise' = 0
    /\ UNCHANGED <<state, client, interval, tasks, tick, sandboxes, history>>

\* The same for a caller that joined: its answer is null, nothing is cleared.
JoinerTimeout(c) ==
    /\ calls[c].pc = "waiting"
    /\ loops[calls[c].loop].owner # c
    /\ Len(loops[calls[c].loop].sessions) > 1
    /\ calls' = [calls EXCEPT ![c].pc = IF c = Tick THEN "idle" ELSE "failed"]
    /\ UNCHANGED <<state, fields, loops, tasks, tick, sandboxes, history>>

-----------------------------------------------------------------------------
\* deploy()

\* getInstanceStatus answers; an instance that is gone, or cannot be reached
\* through the session asked, is replaced.
TaskStatus(t) ==
    /\ tasks[t].pc = "status"
    /\ UNCHANGED session
    /\ \/ /\ Healthy(tasks[t].instance, tasks[t].client)
          /\ Continue(t, "writing", tasks[t].instance, FALSE,
                      FilesToDeploy(tasks[t].loop, FALSE))
          /\ UNCHANGED faults
       \/ /\ \/ ~Healthy(tasks[t].instance, tasks[t].client) /\ UNCHANGED faults
             \/ Fault
          /\ Continue(t, "creating", 0, FALSE, saved)
    /\ UNCHANGED <<instance, saved, promise, interval, calls, loops, tick,
                   sandboxes, restarts>>

\* createInstance answers, and its instance becomes the agent's whatever the
\* agent's session is by now.
TaskCreated(t) ==
    /\ tasks[t].pc = "creating"
    /\ \/ /\ CreateInstance(tasks[t].client, tasks[t].files)
          /\ instance' = Len(sandboxes')
       \/ FindInstance(tasks[t].client)
    /\ UNCHANGED session
    /\ Continue(t, "writing", instance', TRUE,
                FilesToDeploy(tasks[t].loop, TRUE))
    /\ UNCHANGED <<saved, promise, interval, calls, loops, tick, restarts>>

MutWriteUnchecked(t) ==
    LET i == tasks[t].instance
    IN  /\ tasks[t].pc = "writing"
        /\ IF Reachable(i, tasks[t].client)
           THEN WriteFiles(i, tasks[t].files)
           ELSE UNCHANGED <<sandboxes, faults>>
        /\ Settle(t)
        /\ UNCHANGED session
        /\ \/ /\ Awaited(t)
              /\ LoopSucceeds(tasks[t].loop, i, tasks[t].redeployed)
           \/ ~Awaited(t) /\ UNCHANGED <<client, promise, interval, calls, loops>>
        /\ UNCHANGED <<instance, saved, tick, restarts>>

\* writeFiles answers with success, whatever became of the files, and the
\* attempt, if it still waits, succeeds.
TaskWritten(t) ==
    LET i == tasks[t].instance
    IN  /\ tasks[t].pc = "writing" /\ Reachable(i, tasks[t].client)
        /\ WriteFiles(i, tasks[t].files)
        /\ Settle(t)
        /\ UNCHANGED session
        /\ \/ /\ Awaited(t)
              /\ LoopSucceeds(tasks[t].loop, i, tasks[t].redeployed)
           \/ ~Awaited(t) /\ UNCHANGED <<client, promise, interval, calls, loops>>
        /\ UNCHANGED <<instance, saved, tick, restarts>>

\* createInstance or writeFiles answers with an error, writeFiles always when
\* the client of now does not find the instance.
SandboxCallFails(t, sessionLevel) ==
    \/ /\ tasks[t].pc = "creating" /\ Fault
       /\ UNCHANGED sandboxes
    \/ /\ tasks[t].pc = "writing"
       /\ Reachable(tasks[t].instance, tasks[t].client)
       /\ WriteFilesFails(tasks[t].instance, tasks[t].files)
    \/ /\ tasks[t].pc = "writing" /\ ~sessionLevel
       /\ ~Reachable(tasks[t].instance, tasks[t].client)
       /\ UNCHANGED <<sandboxes, faults>>

TaskFails(t) ==
    \E sessionLevel \in BOOLEAN :
        /\ SandboxCallFails(t, sessionLevel)
        /\ Settle(t)
        /\ \/ Awaited(t) /\ LoopFails(tasks[t].loop, sessionLevel)
           \/ ~Awaited(t) /\ UNCHANGED <<session, instance, client, loops>>
        /\ UNCHANGED <<saved, promise, interval, calls, tick, restarts>>

-----------------------------------------------------------------------------
\* The retry loop

\* Sixty seconds: the attempt fails, its deploy() runs on.
AttemptTimeout(l) ==
    /\ loops[l].pc = "attempt"
    /\ Fault
    /\ LoopFails(l, FALSE)
    /\ UNCHANGED <<saved, promise, interval, calls, tasks, tick, sandboxes,
                   restarts>>

\* The setup commands time out or are refused: one more failed attempt.
SetupFails(l) ==
    /\ loops[l].pc = "setup"
    /\ Fault
    /\ \E sessionLevel \in BOOLEAN : LoopFails(l, sessionLevel)
    /\ UNCHANGED <<saved, promise, interval, calls, tasks, tick, sandboxes,
                   restarts>>

SetupDone(l) ==
    /\ loops[l].pc = "setup"
    /\ LoopReturns(l, loops[l].result)
    /\ UNCHANGED <<state, client, interval, tasks, tick, sandboxes, history>>

MutRetryOldTask(l) ==
    /\ loops[l].pc = "backoff"
    /\ Len(loops[l].sessions) < MaxTries \/ Alone(l)
    /\ UNCHANGED saved
    /\ BeginDeploy(l, loops[l].redeploy)
    /\ loops' = [loops EXCEPT ![l].pc = "attempt",
                              ![l].sessions = Append(@, client')]
    /\ UNCHANGED <<promise, interval, calls, tick, sandboxes, history>>

\* The backoff is over.  Two loops may reset each other's session for ever;
\* the model has one of them stand still in its last backoff instead.
Retry(l) ==
    /\ loops[l].pc = "backoff"
    /\ Len(loops[l].sessions) < MaxTries \/ Alone(l)
    /\ UNCHANGED saved
    /\ BeginDeploy(l, loops[l].redeploy)
    /\ loops' = [loops EXCEPT ![l].pc = "attempt",
                              ![l].sessions = Append(@, client'),
                              ![l].task = Len(tasks')]
    /\ UNCHANGED <<promise, interval, calls, tick, sandboxes, history>>

-----------------------------------------------------------------------------
\* The health check

\* Thirty seconds: the callback asks for the status of its instance.
TickStart ==
    /\ interval # 0 /\ tick.pc = "idle" /\ calls[Tick].pc = "idle"
    /\ UNCHANGED session
    /\ client' = GetClient(client)
    /\ tick' = [pc |-> "checking", instance |-> interval, client |-> client']
    /\ UNCHANGED <<instance, saved, promise, interval, calls, loops, tasks,
                   sandboxes, history>>

Idle == [pc |-> "idle", instance |-> 0, client |-> 0]

TickHealthy ==
    /\ tick.pc = "checking"
    /\ Healthy(tick.instance, tick.client)
    /\ tick' = Idle
    /\ UNCHANGED <<state, fields, calls, loops, tasks, sandboxes, history>>

\* Unhealthy, or the query fails: clear the interval there is by now, and
\* deploy all the files.
TickUnhealthy ==
    /\ tick.pc = "checking"
    /\ \/ ~Healthy(tick.instance, tick.client) /\ UNCHANGED faults
       \/ Fault
    /\ tick' = Idle
    /\ interval' = 0
    /\ UNCHANGED saved
    /\ DeployToSandbox(Tick, {}, FALSE)
    /\ UNCHANGED <<sandboxes, restarts>>

-----------------------------------------------------------------------------
\* The environment

\* The dev server of an instance stops, or its container goes.
SandboxDies(i) ==
    /\ sandboxes[i].healthy
    /\ Fault
    /\ sandboxes' = [sandboxes EXCEPT ![i].healthy = FALSE]
    /\ UNCHANGED <<state, fields, running, restarts>>

MutPromiseSurvives ==
    /\ restarts < MaxRestarts
    /\ restarts' = restarts + 1
    /\ client' = 0 /\ interval' = 0
    /\ calls' = [c \in Callers |->
          IF calls[c].pc # "waiting" THEN [calls[c] EXCEPT !.loop = 0]
          ELSE [pc |-> IF c = Tick THEN "idle" ELSE "failed", loop |-> 0]]
    /\ loops' = << >> /\ tasks' = << >> /\ tick' = Idle
    /\ UNCHANGED <<state, promise, sandboxes, faults>>

\* The Durable Object is evicted: only its state is left.
Restart ==
    /\ restarts < MaxRestarts
    /\ restarts' = restarts + 1
    /\ client' = 0 /\ promise' = 0 /\ interval' = 0
    /\ calls' = [c \in Callers |->
          IF calls[c].pc # "waiting" THEN [calls[c] EXCEPT !.loop = 0]
          ELSE [pc |-> IF c = Tick THEN "idle" ELSE "failed", loop |-> 0]]
    /\ loops' = << >> /\ tasks' = << >> /\ tick' = Idle
    /\ UNCHANGED <<state, sandboxes, faults>>

-----------------------------------------------------------------------------
TaskStep(t) == TaskStatus(t) \/ TaskCreated(t) \/ TaskWritten(t) \/ TaskFails(t)

LoopStep(l) == AttemptTimeout(l) \/ SetupFails(l) \/ SetupDone(l) \/ Retry(l)

Deploying ==
    \/ \E t \in DOMAIN tasks : TaskStep(t)
    \/ \E l \in DOMAIN loops : LoopStep(l)

Ticking == TickHealthy \/ TickUnhealthy

Next ==
    \/ \E c \in Calls : CallDeploy(c)
    \/ \E c \in Callers : JoinerTimeout(c)
    \/ \E l \in DOMAIN loops : MasterTimeout(l)
    \/ Deploying
    \/ TickStart \/ Ticking
    \/ \E i \in DOMAIN sandboxes : SandboxDies(i)
    \/ Restart

Spec == Init /\ [][Next]_vars

\* Sandbox calls answer or time out, timers fire: deployments and a health
\* check under way go on.  Callers need neither call nor give up, no interval
\* ticks.
FairSpec == Spec /\ WF_vars(Deploying) /\ WF_vars(Ticking)
-----------------------------------------------------------------------------
\* Properties

\* The promise is the one loop whose maker still waits: a loop that was given
\* up never clears the promise of its successor, and no caller starts a loop
\* beside one that is waited for.
SingleFlight ==
    /\ promise # 0 => Active(promise) /\ loops[promise].owner # None
    /\ \A l \in DOMAIN loops :
          Active(l) /\ loops[l].owner # None => l = promise

\* "Cache is tied to current sessionId and invalidated on reset" (getClient).
ClientOfSession == client # 0 => client = session

\* No loop tries more than MaxAttempts times with a client of one session,
\* whatever other loops do with session and client ("After consecutive
\* failures, reset session to get fresh sandbox").
FreshSession ==
    \A l \in DOMAIN loops : \A k \in DOMAIN loops[l].sessions :
        k + MaxAttempts <= Len(loops[l].sessions) =>
            loops[l].sessions[k + MaxAttempts] # loops[l].sessions[k]

\* The preview of caller c, its own deployment's.
Previewed(c) == sandboxes[loops[calls[c].loop].result]

OwnsPreview(c) ==
    /\ calls[c].pc = "preview" /\ calls[c].loop # 0
    /\ loops[calls[c].loop].owner = c

\* The caller that made the promise finds its file in its preview, though
\* sessions, instances and clients change under the writing deploy(), or the
\* client of that very sandbox has answered its write with success and not
\* written it: "Files written to sandbox instance" is true up to this.
OwnerFilesWrittenOrLost ==
    \A c \in WithFiles :
        OwnsPreview(c) => c \in Previewed(c).files \cup Previewed(c).lost

\* No call is forgotten: a caller waits for a loop that runs, and a loop in an
\* attempt for a deploy() of its own that is under way, though loops end, fail,
\* are given up and retried while the deploy()s of earlier attempts run on.
NoLostWakeup ==
    /\ \A c \in Callers : calls[c].pc = "waiting" =>
          calls[c].loop \in DOMAIN loops /\ Active(calls[c].loop)
    /\ \A l \in DOMAIN loops : loops[l].pc = "attempt" =>
          /\ loops[l].task \in DOMAIN tasks
          /\ tasks[loops[l].task].pc # "settled"
          /\ tasks[loops[l].task].loop = l

\* One deployment at a time is awaited, and none is awaited in vain.
DeploymentInFlight == SingleFlight /\ NoLostWakeup

\* To its callers this is one shared deployment, whatever becomes of attempts,
\* sessions and instances: see SharedDeployment.
Maker == IF promise = 0 THEN None ELSE loops[promise].owner
Waits ==
    [c \in Callers |-> IF calls[c].pc = "waiting" THEN calls[c].loop ELSE 0]

Shared == INSTANCE SharedDeployment WITH
    current <- promise, maker <- Maker, started <- Len(loops),
    running <- {l \in DOMAIN loops : Active(l)}, waits <- Waits

Implements == Shared!Spec

\* A retry loop has no bound, and one that was given up runs on.  It ends all
\* the same when it is the last one: no health check, no late deploy() of its
\* earlier attempts or of other loops keeps it failing, and it misses no end of
\* its own deploy().  Two loops that redeploy need not end: each resets the
\* session between the other's creation and writing.
LastLoopSettles ==
    <>[](Cardinality({l \in DOMAIN loops : Active(l)}) <= 1)
        => <>[](\A l \in DOMAIN loops : ~Active(l))

AtRest ==
    /\ \A l \in DOMAIN loops : ~Active(l)
    /\ tick.pc = "idle" /\ calls[Tick].pc = "idle"

\* "Periodic ping to sandbox every 30s": a deployed instance is watched.
WatchedAtRest ==
    AtRest /\ (\E c \in Calls : calls[c].pc = "preview") => interval # 0

=============================================================================
