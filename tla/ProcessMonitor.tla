---------------------------- MODULE ProcessMonitor ----------------------------
(* The process monitor of a sandbox container: src/container/process-monitor.ts *)
(* with the runner and the shutdown handler of src/container/cli-tools.ts, its   *)
(* only client. One action per stretch of code between two awaits. Every await   *)
(* that is left out is of a log line with nothing shared around it. An operator  *)
(* named Mut... is the operator after it with a plausible mistake.               *)
(*                                                                               *)
(* A child is the process spawn() starts, the leader of a process group: exitCode *)
(* and the exit event are the leader's. The processes it starts, and those they    *)
(* start, are in its group: they may outlive it, and then only group tells.        *)
(* Option autoRestart is true: the runner never sets it. A log line is written     *)
(* faster than the restart delay (1 s), so a restart does not fall inside the      *)
(* write before a health kill.                                                     *)
EXTENDS Naturals, FiniteSets

CONSTANTS
    MaxRestarts,        \* options.maxRestarts
    MaxSpawns,          \* bound: children spawned
    MaxPortFailures,    \* bound: portFailureCount
    MaxFaults,          \* bound: failing spawns and child 'error' events
    Forking             \* the children that start processes of their own

ASSUME MonitorAssumption ==
    /\ MaxRestarts \in Nat
    /\ MaxSpawns \in Nat \ {0}
    /\ MaxPortFailures \in Nat /\ MaxPortFailures >= 2
    /\ MaxFaults \in Nat
    /\ Forking \subseteq Nat

VARIABLES
    state,              \* ProcessState
    child,              \* status of every child ever spawned
    group,              \* children whose group has, or may still get, other processes
    cause,              \* how an ended child ended, until its exit event
    current,            \* this.childProcess: the last child spawned, 0 before
    restartCount,
    restartTimer,       \* this.restartTimer is set
    healthTimer,        \* this.healthCheckTimer is set
    startPc,            \* where a start() of the runner or of the timer is
    stage,              \* of the runner: from start to process.exit
    stopPc,             \* where the runner's call of stop() is
    killing,            \* the child killProcess of that stop() waits for
    check,              \* performHealthCheck calls in progress
    portBindConfirmed, portFailureCount, healthRestartInProgress,
    grace,              \* PORT_STARTUP_GRACE_MS have passed since startTime
    faults,
    \* what has happened, for the properties
    ownFailure,         \* a probe of the current child has counted as a failure
    late                \* children spawned after the last stop() of a shutdown

monitor == <<state, restartCount, restartTimer, healthTimer, startPc>>
children == <<child, group, cause, current>>
shutdown == <<stage, stopPc, killing>>
health == <<check, portBindConfirmed, portFailureCount, healthRestartInProgress, grace>>
history == <<ownFailure, late>>
vars == <<monitor, children, shutdown, health, faults, history>>

Child == 1..MaxSpawns
Caller == {"runner", "timer"}
Check == {"a", "b"}       \* one check probes while another may wait for its kill
PORT_FAILURE_THRESHOLD == 2

IdleCheck == [pc |-> "idle", target |-> 0, grace |-> FALSE]

ProcessState == {"stopped", "starting", "running", "stopping", "crashed"}

TypeOK ==
    /\ state \in ProcessState
    /\ child \in [Child -> {"unborn", "alive", "terminating", "ended", "reaped"}]
    /\ group \in SUBSET Child
    /\ cause \in [Child -> {"none", "zero", "nonzero", "signal"}]
    /\ current \in 0..MaxSpawns
    /\ restartCount \in 0..MaxRestarts
    /\ restartTimer \in BOOLEAN
    /\ healthTimer \in BOOLEAN
    /\ startPc \in [Caller -> {"idle", "logging", "spawning"}]
    /\ stage \in {"init", "up", "first", "second", "exited"}
    /\ stopPc \in {"idle", "logging", "killing", "done"}
    /\ killing \in 0..MaxSpawns
    /\ check \in [Check -> [pc : {"idle", "probing", "logging", "killing"},
                            target : 0..MaxSpawns, grace : BOOLEAN]]
    /\ portBindConfirmed \in BOOLEAN
    /\ portFailureCount \in 0..MaxPortFailures
    /\ healthRestartInProgress \in BOOLEAN
    /\ grace \in BOOLEAN
    /\ faults \in Nat
    /\ ownFailure \in BOOLEAN
    /\ late \in SUBSET Child

Init ==
    /\ state = "stopped"
    /\ child = [c \in Child |-> "unborn"]
    /\ group = {}
    /\ cause = [c \in Child |-> "none"]
    /\ current = 0
    /\ restartCount = 0
    /\ restartTimer = FALSE
    /\ healthTimer = FALSE
    /\ startPc = [w \in Caller |-> "idle"]
    /\ stage = "init"
    /\ stopPc = "idle"
    /\ killing = 0
    /\ check = [h \in Check |-> IdleCheck]
    /\ portBindConfirmed = FALSE
    /\ portFailureCount = 0
    /\ healthRestartInProgress = FALSE
    /\ grace = FALSE
    /\ faults = 0
    /\ ownFailure = FALSE
    /\ late = {}

Up == stage # "exited"    \* the monitor's process is there to take a step

(* What exitCode and signalCode say: the leader of the group is gone.            *)
Exited(c) == c = 0 \/ (c \in Child /\ child[c] = "reaped")

--------------------------------------------------------------------------------
(* start(): the guard on the state, then log lines, then spawn and the rest.     *)

MutCanStart == state = "stopped"

CanStart == state \in {"stopped", "crashed"}

(* ProcessRunner.start, called once by ProcessCommands.start. *)
RunnerStart ==
    /\ stage = "init" /\ startPc["runner"] = "idle"
    /\ CanStart
    /\ state' = "starting"
    /\ startPc' = [startPc EXCEPT !["runner"] = "spawning"]
    /\ UNCHANGED <<children, restartCount, restartTimer, healthTimer, shutdown, health,
                   faults, history>>

(* The timer of scheduleRestart: cancelled when stop() was called in the delay,  *)
(* otherwise the callback logs before it calls start().                          *)
RestartFires ==
    /\ Up /\ restartTimer
    /\ \A h \in Check : check[h].pc # "logging"
    /\ restartTimer' = FALSE
    /\ startPc' = IF state \in {"stopped", "stopping"} THEN startPc
                  ELSE [startPc EXCEPT !["timer"] = "logging"]
    /\ UNCHANGED <<state, children, restartCount, healthTimer, shutdown, health, faults,
                   history>>

RestartCallsStart ==
    /\ Up /\ startPc["timer"] = "logging"
    /\ IF CanStart
       THEN /\ state' = "starting"
            /\ startPc' = [startPc EXCEPT !["timer"] = "spawning"]
       ELSE /\ startPc' = [startPc EXCEPT !["timer"] = "idle"]
            /\ UNCHANGED state
    /\ UNCHANGED <<children, restartCount, restartTimer, healthTimer, shutdown, health,
                   faults, history>>

(* A previous run over STABILITY_THRESHOLD_MS resets restartCount. *)
Stability ==
    \/ UNCHANGED restartCount
    \/ current > 0 /\ restartCount' = 0

MutResetPortTracking ==
    /\ portBindConfirmed' = FALSE
    /\ healthRestartInProgress' = FALSE
    /\ ownFailure' = FALSE
    /\ UNCHANGED <<portFailureCount, check>>

ResetPortTracking ==
    /\ portBindConfirmed' = FALSE
    /\ portFailureCount' = 0
    /\ healthRestartInProgress' = FALSE
    /\ ownFailure' = FALSE
    /\ UNCHANGED check

SpawnSucceeds(w) ==
    /\ Up /\ startPc[w] = "spawning"
    /\ current < MaxSpawns
    /\ Stability
    /\ current' = current + 1
    /\ child' = [child EXCEPT ![current + 1] = "alive"]
    /\ group' = group \union ({current + 1} \intersect Forking)
    /\ late' = IF stage = "second" /\ stopPc = "done"
               THEN late \union {current + 1} ELSE late
    /\ state' = "running"
    /\ healthTimer' = TRUE
    /\ startPc' = [startPc EXCEPT ![w] = "idle"]
    /\ stage' = IF w = "runner" THEN "up" ELSE stage
    /\ ResetPortTracking
    /\ grace' = FALSE
    /\ UNCHANGED <<cause, restartTimer, stopPc, killing, faults>>

(* No pid: start() reports a failure; the runner exits, the timer gives up, unless *)
(* the 'error' event of the new object, which nothing listens to yet, ends the     *)
(* runner. An object without a process counts as exited, as the child before does. *)
SpawnFails(w) ==
    /\ Up /\ startPc[w] = "spawning"
    /\ faults < MaxFaults
    /\ faults' = faults + 1
    /\ Stability
    /\ state' = "stopped"
    /\ startPc' = [startPc EXCEPT ![w] = "idle"]
    /\ stage' \in IF w = "runner" THEN {"exited"} ELSE {stage, "exited"}
    /\ ResetPortTracking
    /\ UNCHANGED <<children, restartTimer, healthTimer, stopPc, killing, grace, late>>

--------------------------------------------------------------------------------
(* The child: it may end at any time and in any way, after SIGTERM too, and       *)
(* whether or not other processes of its group live on.                           *)

ChildEnds(c) ==
    /\ child[c] \in {"alive", "terminating"}
    /\ \E k \in {"zero", "nonzero", "signal"} : cause' = [cause EXCEPT ![c] = k]
    /\ child' = [child EXCEPT ![c] = "ended"]
    /\ UNCHANGED <<monitor, group, current, shutdown, health, faults, history>>

(* The other processes of the group are gone, of themselves or for a SIGTERM.     *)
GroupEnds(c) ==
    /\ c \in group
    /\ group' = group \ {c}
    /\ UNCHANGED <<monitor, child, cause, current, shutdown, health, faults, history>>

(* SIGTERM, to the group or to its leader: any of its processes may ignore it.    *)
Terminated(c) == IF child[c] = "alive" THEN [child EXCEPT ![c] = "terminating"] ELSE child

MutSigKill(c) == UNCHANGED <<child, group, cause>>

(* SIGKILL to the group, of which no process survives. *)
SigKill(c) ==
    /\ group' = group \ {c}
    /\ IF c \in Child /\ child[c] \in {"alive", "terminating"}
       THEN /\ child' = [child EXCEPT ![c] = "ended"]
            /\ cause' = [cause EXCEPT ![c] = "signal"]
       ELSE UNCHANGED <<child, cause>>

MutKillResolves(c) == Exited(c) /\ UNCHANGED <<child, group, cause>>

(* killProcess resolves on the exit event of the leader, whatever its group does,  *)
(* or after killTimeout with SIGKILL.                                              *)
KillResolves(c) == IF Exited(c) THEN UNCHANGED <<child, group, cause>> ELSE SigKill(current)

MutShouldRestart(c, silent) ==
    /\ state = "running"
    /\ restartCount <= MaxRestarts
    /\ cause[c] = "zero" => silent

(* shouldRestartAfterExit; exit code 0 is taken for a kill after a silence of     *)
(* INACTIVITY_THRESHOLD_MS.                                                       *)
ShouldRestart(c, silent) ==
    /\ state = "running"
    /\ restartCount < MaxRestarts
    /\ cause[c] = "zero" => silent

MutScheduleRestart ==
    /\ restartTimer' = TRUE
    /\ UNCHANGED restartCount

ScheduleRestart ==
    /\ restartTimer' = TRUE
    /\ restartCount' = restartCount + 1

(* The 'exit' listener of setupProcessMonitoring. *)
ExitEvent(c) ==
    /\ Up /\ child[c] = "ended"
    /\ child' = [child EXCEPT ![c] = "reaped"]
    /\ cause' = [cause EXCEPT ![c] = "none"]
    /\ \E silent \in BOOLEAN :
         LET restart == ShouldRestart(c, silent)
         IN IF state = "running" /\ (cause[c] # "zero" \/ restart)
            THEN /\ state' = "crashed"
                 /\ IF restart THEN ScheduleRestart
                    ELSE UNCHANGED <<restartTimer, restartCount>>
            ELSE /\ state' = "stopped"
                 /\ UNCHANGED <<restartTimer, restartCount>>
    /\ UNCHANGED <<group, current, healthTimer, startPc, shutdown, health, faults, history>>

(* The 'error' listener: a child that could not be signalled, still there. *)
ErrorEvent(c) ==
    /\ Up /\ child[c] \in {"alive", "terminating"}
    /\ faults < MaxFaults
    /\ faults' = faults + 1
    /\ state' = IF state \in {"running", "starting"} THEN "crashed" ELSE state
    /\ UNCHANGED <<restartCount, restartTimer, healthTimer, startPc, children, shutdown,
                   health, history>>

(* A fatal error in a line of output, of the child or of its group (which holds    *)
(* the same pipe): handleFatalError sends SIGTERM to the leader of the last run.   *)
FatalLog(c) ==
    /\ Up /\ (child[c] \in {"alive", "terminating"} \/ c \in group)
    /\ state = "running"
    /\ child' = Terminated(current)
    /\ UNCHANGED <<monitor, group, cause, current, shutdown, health, faults, history>>

--------------------------------------------------------------------------------
(* Health checks. A probe ends within PORT_PROBE_TIMEOUT_MS, before the next tick,*)
(* but the wait of killProcess lasts as long as the ticks are apart.              *)

SetCheck(h, pc, target) ==
    check' = [check EXCEPT ![h] = [pc |-> pc, target |-> target, grace |-> FALSE]]

GraceExpires ==
    /\ Up /\ state = "running" /\ ~grace
    /\ grace' = TRUE
    /\ UNCHANGED <<monitor, children, shutdown, check, portBindConfirmed, portFailureCount,
                   healthRestartInProgress, faults, history>>

HealthTick(h) ==
    /\ Up /\ healthTimer /\ state = "running"
    /\ check[h].pc = "idle" /\ (h = "b" => check["a"].pc # "idle")
    /\ \A i \in Check : check[i].pc \notin {"probing", "logging"}
    /\ portFailureCount < MaxPortFailures
    /\ check' = [check EXCEPT ![h] =
                    [pc |-> "probing", target |-> current, grace |-> grace]]
    /\ UNCHANGED <<monitor, children, shutdown, portBindConfirmed, portFailureCount,
                   healthRestartInProgress, grace, faults, history>>

(* The port does not tell who answers: a child, or what is left of its group. *)
ProbeAnswered(h) ==
    /\ Up /\ check[h].pc = "probing"
    /\ \E c \in Child : child[c] \in {"alive", "terminating"} \/ c \in group
    /\ portBindConfirmed' = TRUE
    /\ portFailureCount' = 0
    /\ healthRestartInProgress' = FALSE
    /\ SetCheck(h, "idle", 0)
    /\ ownFailure' = FALSE
    /\ UNCHANGED <<monitor, children, shutdown, grace, faults, late>>

(* The grace is the one of the run the check began in. *)
ProbeFails(h) ==
    /\ Up /\ check[h].pc = "probing"
    /\ portFailureCount' = IF portBindConfirmed \/ check[h].grace
                           THEN portFailureCount + 1 ELSE portFailureCount
    /\ IF portFailureCount' > portFailureCount
          /\ portFailureCount' >= PORT_FAILURE_THRESHOLD
          /\ ~healthRestartInProgress /\ state = "running"
       THEN SetCheck(h, "logging", 0)
       ELSE SetCheck(h, "idle", 0)
    /\ ownFailure' = (ownFailure \/ (/\ check[h].target = current
                                    /\ portFailureCount' > portFailureCount))
    /\ UNCHANGED <<monitor, children, shutdown, portBindConfirmed, healthRestartInProgress,
                   grace, faults, late>>

HealthKill(h) ==
    /\ Up /\ check[h].pc = "logging"
    /\ healthRestartInProgress' = TRUE
    /\ IF Exited(current)
       THEN /\ SetCheck(h, "idle", 0)
            /\ UNCHANGED child
       ELSE /\ child' = Terminated(current)
            /\ SetCheck(h, "killing", current)
    /\ UNCHANGED <<monitor, group, cause, current, shutdown, portBindConfirmed,
                   portFailureCount, grace, faults, history>>

HealthKillReturns(h) ==
    /\ Up /\ check[h].pc = "killing"
    /\ KillResolves(check[h].target)
    /\ SetCheck(h, "idle", 0)
    /\ UNCHANGED <<monitor, current, shutdown, portBindConfirmed, portFailureCount,
                   healthRestartInProgress, grace, faults, history>>

--------------------------------------------------------------------------------
(* gracefulShutdown: ProcessRunner.stop calls stop(), then cleanup(), which calls *)
(* stop() again, then the process exits whatever they returned.                   *)

(* stop() returns at once, with success or a refusal, or logs and goes on. *)
StopEntry == IF state \in {"stopped", "starting"} THEN "done" ELSE "logging"

ShutdownSignal ==
    /\ stage = "up"
    /\ stage' = "first"
    /\ stopPc' = StopEntry
    /\ UNCHANGED <<monitor, children, killing, health, faults, history>>

StopMarks ==
    /\ Up /\ stopPc = "logging"
    /\ restartTimer' = FALSE
    /\ healthTimer' = FALSE
    /\ killing' = current
    /\ IF Exited(current)
       THEN /\ state' = "stopped"
            /\ stopPc' = "done"
            /\ UNCHANGED child
       ELSE /\ state' = "stopping"
            /\ stopPc' = "killing"
            /\ child' = Terminated(current)
    /\ UNCHANGED <<group, cause, current, restartCount, startPc, stage, health, faults,
                   history>>

StopKillReturns ==
    /\ Up /\ stopPc = "killing"
    /\ KillResolves(killing)
    /\ state' = IF state = "stopping" THEN "stopped" ELSE state
    /\ stopPc' = "done"
    /\ UNCHANGED <<current, restartCount, restartTimer, healthTimer, startPc, stage, killing,
                   health, faults, history>>

Cleanup ==
    /\ stage = "first" /\ stopPc = "done"
    /\ stage' = "second"
    /\ restartTimer' = FALSE
    /\ healthTimer' = FALSE
    /\ stopPc' = StopEntry
    /\ UNCHANGED <<state, restartCount, startPc, children, killing, health, faults, history>>

ProcessExit ==
    /\ stage = "second" /\ stopPc = "done"
    /\ stage' = "exited"
    /\ UNCHANGED <<monitor, children, stopPc, killing, health, faults, history>>

--------------------------------------------------------------------------------
Next ==
    \/ RunnerStart \/ RestartFires \/ RestartCallsStart
    \/ \E w \in Caller : SpawnSucceeds(w) \/ SpawnFails(w)
    \/ \E c \in Child : \/ ChildEnds(c) \/ GroupEnds(c) \/ ExitEvent(c)
                        \/ ErrorEvent(c) \/ FatalLog(c)
    \/ GraceExpires
    \/ \E h \in Check : \/ HealthTick(h) \/ ProbeAnswered(h) \/ ProbeFails(h)
                        \/ HealthKill(h) \/ HealthKillReturns(h)
    \/ ShutdownSignal \/ StopMarks \/ StopKillReturns \/ Cleanup \/ ProcessExit

(* Timers fire, awaited file writes end and the exit of a child is reported.      *)
(* Nothing makes a child end by itself, a probe be sent or a signal come.         *)
Fairness ==
    /\ WF_vars(RestartFires)
    /\ WF_vars(RestartCallsStart)
    /\ \A w \in Caller : WF_vars(SpawnSucceeds(w) \/ SpawnFails(w))
    /\ \A c \in Child : WF_vars(ExitEvent(c))
    /\ \A h \in Check : WF_vars(HealthKill(h)) /\ WF_vars(HealthKillReturns(h))
    /\ WF_vars(StopMarks)
    /\ WF_vars(StopKillReturns)
    /\ WF_vars(Cleanup)
    /\ WF_vars(ProcessExit)

Spec == Init /\ [][Next]_vars /\ Fairness

--------------------------------------------------------------------------------
(* Properties. *)

(* Shutdown kills the leader of every run, also one a restart in progress spawns   *)
(* after the signal, whatever it does with SIGTERM. Only a start() that the second *)
(* stop() found in progress, or passed between timer and spawn, and that spawns    *)
(* after this stop() returned, leaves a leader behind: late names these alone.     *)
NoneLeftBehind ==
    stage = "exited" =>
        \A c \in Child : child[c] \in {"alive", "terminating"} => c \in late

(* What the monitor's state says of the leader: what it calls running is one whose *)
(* exit it will hear of, what it calls stopped is one that has ended, whatever     *)
(* kills, errors, restarts and calls of stop() came between. Of the group it says  *)
(* nothing.                                                                        *)
StateIsTrue ==
    /\ state = "running" => current > 0 /\ child[current] # "reaped"
    /\ state = "stopped" => \A c \in Child : child[c] \notin {"alive", "terminating"}

(* A health check kills no child for the failed probes of the child before it     *)
(* only: "Reset port confirmation on new start", with a probe in flight.          *)
HealthKillOwnFailure ==
    [][\A h \in Check : check[h].pc = "logging" /\ check'[h].pc = "killing"
                            => ownFailure]_vars

(* A scheduled restart is made, unless its spawn fails or a shutdown comes.       *)
CrashRestarts ==
    (restartTimer /\ current < MaxSpawns /\ stage = "up")
        ~> (state \in {"running", "stopped"} \/ stage # "up")

(* A shutdown signal ends in process.exit: killProcess returns for a child that   *)
(* is already gone and for one that ignores SIGTERM (fix C1).                     *)
ShutdownEnds == (stage = "first") ~> (stage = "exited")

(* A child that a health check terminates is replaced while restarts are left,    *)
(* which is what the monitor logs as a health-triggered restart.                  *)
HealthRestarts ==
    \A c \in 1..(MaxSpawns - 1) :
        (\E h \in Check : check[h].pc = "killing" /\ check[h].target = c)
            ~> (current # c \/ stage # "up" \/ restartCount >= MaxRestarts)

(* The promise of the monitor, without its timers, signals and awaits. *)
Promise == INSTANCE Supervisor WITH
    run <- current,
    up <- current > 0 /\ child[current] # "reaped",
    owed <- restartTimer \/ \E w \in Caller : startPc[w] # "idle",
    budget <- MaxRestarts - restartCount

Implements == Promise!Spec
================================================================================
