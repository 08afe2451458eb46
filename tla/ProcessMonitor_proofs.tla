------------------------- MODULE ProcessMonitor_proofs -------------------------
(* Theorems of ProcessMonitor, for any budget of restarts, any number of children *)
(* and any number of faults.                                                      *)
EXTENDS ProcessMonitor, TLAPS

ChildStatus == {"unborn", "alive", "terminating", "ended", "reaped"}
CheckRecord == [pc : {"idle", "probing", "logging", "killing"}, target : 0..MaxSpawns,
                grace : BOOLEAN]

--------------------------------------------------------------------------------
(* What a step does to the children: it leaves them alone or makes some end, reaps *)
(* one that has ended, or spawns the next.                                        *)
Dying ==
    /\ UNCHANGED current
    /\ group' \in SUBSET Child
    /\ child' \in [Child -> ChildStatus]
    /\ cause' \in [Child -> {"none", "zero", "nonzero", "signal"}]
    /\ \A c \in Child : \/ child'[c] = child[c]
                        \/ /\ child[c] \in {"alive", "terminating"}
                           /\ child'[c] \in {"terminating", "ended"}

LEMMA UnchangedDying == ASSUME TypeOK, UNCHANGED children PROVE Dying
BY DEF TypeOK, children, Dying, ChildStatus

LEMMA TerminatedDying ==
    ASSUME TypeOK, child' = Terminated(current) \/ UNCHANGED child,
           UNCHANGED <<current, cause, group>>
    PROVE  Dying
<1>1. CASE UNCHANGED child
    BY <1>1, UnchangedDying DEF children
<1>2. CASE child[current] = "alive" /\ child' = [child EXCEPT ![current] = "terminating"]
    BY <1>2 DEF TypeOK, Dying, ChildStatus
<1> QED BY <1>1, <1>2 DEF Terminated

LEMMA KilledDying ==
    ASSUME TypeOK, NEW c, KillResolves(c), UNCHANGED current
    PROVE  Dying
<1>1. group' \in SUBSET Child
    BY DEF KillResolves, SigKill, TypeOK
<1>2. CASE UNCHANGED <<child, cause>>
    BY <1>1, <1>2 DEF TypeOK, Dying, ChildStatus
<1>3. CASE /\ current \in Child /\ child[current] \in {"alive", "terminating"}
           /\ child' = [child EXCEPT ![current] = "ended"]
           /\ cause' = [cause EXCEPT ![current] = "signal"]
    BY <1>1, <1>3 DEF TypeOK, Dying, ChildStatus
<1> QED BY <1>2, <1>3 DEF KillResolves, SigKill

LEMMA EndedDying ==
    ASSUME TypeOK, NEW c \in Child, ChildEnds(c) \/ GroupEnds(c)
    PROVE  Dying
BY DEF ChildEnds, GroupEnds, TypeOK, Dying, ChildStatus

(* The steps of a health check or of stop(), and those that touch no child. *)
CheckStep ==
    \E h \in Check : \/ HealthTick(h) \/ ProbeAnswered(h) \/ ProbeFails(h)
                     \/ HealthKill(h) \/ HealthKillReturns(h)

StopStep == ShutdownSignal \/ StopMarks \/ StopKillReturns \/ Cleanup \/ ProcessExit

Unborn == \A c \in Child : current < c <=> child[c] = "unborn"

LEMMA CheckIsDying == ASSUME TypeOK, CheckStep PROVE Dying
<1>1. CASE \E h \in Check : HealthTick(h) \/ ProbeAnswered(h) \/ ProbeFails(h)
    BY <1>1, UnchangedDying DEF HealthTick, ProbeAnswered, ProbeFails
<1>2. CASE \E h \in Check : HealthKill(h)
    BY <1>2, TerminatedDying DEF HealthKill
<1>3. CASE \E h \in Check : HealthKillReturns(h)
    BY <1>3, KilledDying DEF HealthKillReturns
<1> QED BY <1>1, <1>2, <1>3 DEF CheckStep

LEMMA StopIsDying == ASSUME TypeOK, StopStep PROVE Dying
<1>1. CASE ShutdownSignal \/ Cleanup \/ ProcessExit
    BY <1>1, UnchangedDying DEF ShutdownSignal, Cleanup, ProcessExit
<1>2. CASE StopMarks
    BY <1>2, TerminatedDying DEF StopMarks
<1>3. CASE StopKillReturns
    BY <1>3, KilledDying DEF StopKillReturns
<1> QED BY <1>1, <1>2, <1>3 DEF StopStep

LEMMA ChildrenStep ==
    ASSUME TypeOK, [Next]_vars
    PROVE  \/ Dying
           \/ \E c \in Child : ExitEvent(c)
           \/ \E w \in Caller : SpawnSucceeds(w)
<1>1. CASE \/ RunnerStart \/ RestartFires \/ RestartCallsStart
           \/ (\E w \in Caller : SpawnFails(w))
           \/ (\E c \in Child : ErrorEvent(c))
           \/ GraceExpires \/ UNCHANGED vars
    BY <1>1, UnchangedDying
       DEF RunnerStart, RestartFires, RestartCallsStart, SpawnFails, ErrorEvent, GraceExpires, vars
<1>2. CASE \E c \in Child : ChildEnds(c) \/ GroupEnds(c)
    BY <1>2, EndedDying
<1>3. CASE \E c \in Child : FatalLog(c)
    BY <1>3, TerminatedDying DEF FatalLog
<1>4. CASE CheckStep
    BY <1>4, CheckIsDying
<1>5. CASE StopStep
    BY <1>5, StopIsDying
<1> QED BY <1>1, <1>2, <1>3, <1>4, <1>5 DEF Next, CheckStep, StopStep

--------------------------------------------------------------------------------
(* Types. One check at a time probes or is about to kill; while one probes, the    *)
(* count of failures has room for its answer.                                     *)
Active(h) == check[h].pc \in {"probing", "logging"}
OneCheck == \A h, i \in Check : Active(h) /\ Active(i) => h = i
RoomToFail ==
    \A h \in Check : check[h].pc = "probing" => portFailureCount < MaxPortFailures
CheckInv == OneCheck /\ RoomToFail

CheckTypes ==
    /\ check \in [Check -> CheckRecord]
    /\ portBindConfirmed \in BOOLEAN
    /\ portFailureCount \in 0..MaxPortFailures
    /\ healthRestartInProgress \in BOOLEAN
    /\ grace \in BOOLEAN
    /\ ownFailure \in BOOLEAN

LEMMA CheckStepKeepsTypes ==
    ASSUME TypeOK, CheckInv, CheckStep
    PROVE  CheckTypes' /\ CheckInv'
<1> USE DEF SetCheck, CheckRecord
<1>0. /\ check \in [Check -> CheckRecord] /\ current \in 0..MaxSpawns /\ 0 \in 0..MaxSpawns
      /\ grace \in BOOLEAN /\ FALSE \in BOOLEAN
    BY MonitorAssumption DEF TypeOK
<1>1. ASSUME NEW h \in Check, HealthTick(h)
      PROVE  CheckTypes' /\ CheckInv'
    <2>1. check' = [check EXCEPT ![h] = [pc |-> "probing", target |-> current, grace |-> grace]]
        BY <1>1 DEF HealthTick
    <2>2. check' \in [Check -> CheckRecord]
        BY <1>0, <2>1
    <2>3. OneCheck' /\ RoomToFail'
        BY <1>0, <1>1, <2>1 DEF HealthTick, OneCheck, RoomToFail, Active
    <2> QED BY <1>1, <2>2, <2>3 DEF HealthTick, history, TypeOK, CheckTypes, CheckInv
<1>2. ASSUME NEW h \in Check, NEW p \in {"idle", "logging", "killing"}, NEW d \in 0..MaxSpawns,
             SetCheck(h, p, d), p = "logging" => check[h].pc = "probing"
      PROVE  check' \in [Check -> CheckRecord] /\ OneCheck'
    BY <1>0, <1>2 DEF CheckInv, OneCheck, Active
<1>3. ASSUME NEW h \in Check, ProbeAnswered(h)
      PROVE  CheckTypes' /\ CheckInv'
    <2>1. check' \in [Check -> CheckRecord] /\ OneCheck'
        BY <1>0, <1>2, <1>3 DEF ProbeAnswered
    <2>2. portFailureCount' \in 0..MaxPortFailures /\ portFailureCount' < MaxPortFailures
        BY <1>3, MonitorAssumption DEF ProbeAnswered
    <2> QED BY <1>3, <2>1, <2>2 DEF ProbeAnswered, TypeOK, CheckTypes, CheckInv, RoomToFail
<1>4. ASSUME NEW h \in Check, ProbeFails(h)
      PROVE  CheckTypes' /\ CheckInv'
    <2>1. SetCheck(h, "logging", 0) \/ SetCheck(h, "idle", 0)
        BY <1>4 DEF ProbeFails
    <2>2. check' \in [Check -> CheckRecord] /\ OneCheck'
        BY <1>0, <1>2, <1>4, <2>1 DEF ProbeFails
    <2>3. portFailureCount' \in 0..MaxPortFailures
        BY <1>4, MonitorAssumption DEF ProbeFails, CheckInv, RoomToFail, TypeOK
    <2>4. \A i \in Check : check'[i].pc # "probing"
        <3>1. \A i \in Check \ {h} : check'[i].pc # "probing"
            BY <1>0, <1>4, <2>1 DEF ProbeFails, CheckInv, OneCheck, Active
        <3>2. check'[h].pc # "probing"
            BY <1>0, <2>1
        <3> QED BY <3>1, <3>2
    <2>5. ownFailure' \in BOOLEAN
        BY <1>4 DEF ProbeFails, TypeOK
    <2>6. UNCHANGED <<portBindConfirmed, healthRestartInProgress, grace>>
        BY <1>4 DEF ProbeFails
    <2> QED BY <2>2, <2>3, <2>4, <2>5, <2>6 DEF TypeOK, CheckTypes, CheckInv, RoomToFail
<1>5. ASSUME NEW h \in Check, HealthKill(h) \/ HealthKillReturns(h)
      PROVE  CheckTypes' /\ CheckInv'
    <2>1. SetCheck(h, "killing", current) \/ SetCheck(h, "idle", 0)
        BY <1>5 DEF HealthKill, HealthKillReturns
    <2>2. check' \in [Check -> CheckRecord] /\ OneCheck'
        BY <1>0, <1>2, <2>1
    <2>3. RoomToFail'
        BY <1>0, <1>5, <2>1 DEF HealthKill, HealthKillReturns, CheckInv, RoomToFail
    <2> QED BY <1>5, <2>2, <2>3
            DEF HealthKill, HealthKillReturns, history, TypeOK, CheckTypes, CheckInv
<1> QED BY <1>1, <1>3, <1>4, <1>5 DEF CheckStep

(* The other steps leave the checks alone; a start resets the count.              *)
LEMMA OtherStepKeepsTypes ==
    ASSUME TypeOK, CheckInv, [Next]_vars, ~CheckStep
    PROVE  CheckTypes' /\ CheckInv'
<1>1. CASE UNCHANGED <<health, ownFailure>>
    BY <1>1 DEF health, TypeOK, CheckTypes, CheckRecord, CheckInv, OneCheck, RoomToFail, Active
<1>2. CASE GraceExpires
    BY <1>2 DEF GraceExpires, history,
                TypeOK, CheckTypes, CheckRecord, CheckInv, OneCheck, RoomToFail, Active
<1>3. CASE \E w \in Caller : SpawnSucceeds(w) \/ SpawnFails(w)
    <2>1. ResetPortTracking /\ grace' \in BOOLEAN
        BY <1>3 DEF SpawnSucceeds, SpawnFails, TypeOK
    <2>2. CheckTypes'
        <3>1. check \in [Check -> CheckRecord]
            BY DEF TypeOK, CheckRecord
        <3>2. 0 \in 0..MaxPortFailures
            BY MonitorAssumption
        <3>3. /\ portBindConfirmed' \in BOOLEAN /\ healthRestartInProgress' \in BOOLEAN
              /\ ownFailure' \in BOOLEAN /\ portFailureCount' = 0 /\ check' = check
            BY <2>1 DEF ResetPortTracking
        <3> QED BY <2>1, <3>1, <3>2, <3>3 DEF CheckTypes, CheckRecord
    <2>3. 0 < MaxPortFailures
        BY MonitorAssumption
    <2>4. portFailureCount' = 0 /\ check' = check
        BY <2>1 DEF ResetPortTracking
    <2>5. OneCheck'
        BY <2>4 DEF CheckInv, OneCheck, Active
    <2>6. RoomToFail'
        BY <2>3, <2>4 DEF RoomToFail
    <2> QED BY <2>2, <2>5, <2>6 DEF CheckInv
<1>4. CASE RunnerStart \/ RestartFires \/ RestartCallsStart
    BY <1>1, <1>4 DEF RunnerStart, RestartFires, RestartCallsStart, history
<1>5. CASE \E c \in Child : \/ ChildEnds(c) \/ GroupEnds(c) \/ ExitEvent(c)
                            \/ ErrorEvent(c) \/ FatalLog(c)
    BY <1>1, <1>5 DEF ChildEnds, GroupEnds, ExitEvent, ErrorEvent, FatalLog, history
<1>6. CASE StopStep
    BY <1>1, <1>6
       DEF StopStep, ShutdownSignal, StopMarks, StopKillReturns, Cleanup, ProcessExit, history
<1>7. CASE UNCHANGED vars
    BY <1>1, <1>7 DEF vars, history
<1> QED BY <1>2, <1>3, <1>4, <1>5, <1>6, <1>7 DEF Next, CheckStep, StopStep

MonitorTypes ==
    /\ state \in ProcessState
    /\ restartCount \in 0..MaxRestarts
    /\ restartTimer \in BOOLEAN
    /\ healthTimer \in BOOLEAN
    /\ startPc \in [Caller -> {"idle", "logging", "spawning"}]
    /\ stage \in {"init", "up", "first", "second", "exited"}
    /\ stopPc \in {"idle", "logging", "killing", "done"}
    /\ killing \in 0..MaxSpawns
    /\ faults \in Nat
    /\ late \in SUBSET Child

(* What the exit listener does to the monitor. *)
Counted == restartCount < MaxRestarts /\ ScheduleRestart

LEMMA ExitOutcome ==
    ASSUME NEW c, ExitEvent(c)
    PROVE  /\ state' \in {"stopped", "crashed"}
           /\ Counted \/ UNCHANGED <<restartTimer, restartCount>>
<1>1. PICK silent \in BOOLEAN :
         IF state = "running" /\ (cause[c] # "zero" \/ ShouldRestart(c, silent))
         THEN /\ state' = "crashed"
              /\ IF ShouldRestart(c, silent) THEN ScheduleRestart
                 ELSE UNCHANGED <<restartTimer, restartCount>>
         ELSE /\ state' = "stopped"
              /\ UNCHANGED <<restartTimer, restartCount>>
    BY DEF ExitEvent
<1>2. ShouldRestart(c, silent) => restartCount < MaxRestarts
    BY DEF ShouldRestart
<1> QED BY <1>1, <1>2, Zenon DEF Counted

LEMMA StepKeepsMonitorTypes ==
    ASSUME TypeOK, [Next]_vars
    PROVE  MonitorTypes'
<1>0. MonitorTypes
    BY DEF TypeOK, MonitorTypes
<1>1. ASSUME UNCHANGED <<monitor, shutdown, faults, late>>
      PROVE  MonitorTypes'
    BY <1>0, <1>1 DEF MonitorTypes, monitor, shutdown
<1>2. ASSUME UNCHANGED <<restartCount, healthTimer, shutdown, faults, late>>,
             state' \in ProcessState, restartTimer' \in BOOLEAN,
             startPc' = startPc \/ \E w \in Caller, pc \in {"idle", "logging", "spawning"} :
                                       startPc' = [startPc EXCEPT ![w] = pc]
      PROVE  MonitorTypes'
    BY <1>0, <1>2 DEF MonitorTypes, shutdown
<1>3. CASE RunnerStart \/ RestartCallsStart
    BY <1>0, <1>2, <1>3
       DEF RunnerStart, RestartCallsStart, MonitorTypes, ProcessState, Caller, history
<1>4. CASE RestartFires
    BY <1>0, <1>2, <1>4 DEF RestartFires, MonitorTypes, Caller, history
<1>5. ASSUME NEW w \in Caller, SpawnSucceeds(w) \/ SpawnFails(w)
      PROVE  MonitorTypes'
    <2>1. restartCount' \in 0..MaxRestarts
        BY <1>0, <1>5, MonitorAssumption DEF MonitorTypes, SpawnSucceeds, SpawnFails, Stability
    <2>2. late' \in SUBSET Child
        <3>1. current < MaxSpawns => current + 1 \in Child
            BY MonitorAssumption DEF TypeOK, Child
        <3> QED BY <1>0, <1>5, <3>1 DEF MonitorTypes, SpawnSucceeds, SpawnFails
    <2>3. startPc' \in [Caller -> {"idle", "logging", "spawning"}]
        BY <1>0, <1>5 DEF MonitorTypes, SpawnSucceeds, SpawnFails
    <2>4. /\ state' \in ProcessState /\ stage' \in {"init", "up", "first", "second", "exited"}
          /\ faults' \in Nat /\ healthTimer' \in BOOLEAN
        <3>1. CASE SpawnSucceeds(w)
            BY <1>0, <3>1 DEF MonitorTypes, SpawnSucceeds, ProcessState
        <3>2. CASE SpawnFails(w)
            BY <1>0, <3>2 DEF MonitorTypes, SpawnFails, ProcessState
        <3> QED BY <1>5, <3>1, <3>2
    <2>5. UNCHANGED <<restartTimer, stopPc, killing>>
        BY <1>5 DEF SpawnSucceeds, SpawnFails
    <2> QED BY <1>0, <2>1, <2>2, <2>3, <2>4, <2>5 DEF MonitorTypes
<1>6. ASSUME NEW c \in Child, ExitEvent(c)
      PROVE  MonitorTypes'
    <2>1. restartCount' \in 0..MaxRestarts /\ restartTimer' \in BOOLEAN
        <3>1. Counted \/ UNCHANGED <<restartTimer, restartCount>>
            BY <1>6, ExitOutcome
        <3>2. restartCount < MaxRestarts => restartCount + 1 \in 0..MaxRestarts
            BY <1>0, MonitorAssumption DEF MonitorTypes
        <3> QED BY <1>0, <3>1, <3>2 DEF Counted, ScheduleRestart, MonitorTypes
    <2>2. state' \in ProcessState
        BY <1>6, ExitOutcome DEF ProcessState
    <2>3. UNCHANGED <<healthTimer, startPc, shutdown, faults, late>>
        BY <1>6 DEF ExitEvent, history
    <2> QED BY <1>0, <2>1, <2>2, <2>3 DEF MonitorTypes, shutdown
<1>7. ASSUME NEW c \in Child, ErrorEvent(c)
      PROVE  MonitorTypes'
    BY <1>0, <1>7 DEF ErrorEvent, shutdown, history, MonitorTypes, ProcessState
<1>8. CASE \/ GraceExpires \/ UNCHANGED vars
           \/ \E c \in Child : ChildEnds(c) \/ GroupEnds(c) \/ FatalLog(c)
    BY <1>1, <1>8 DEF GraceExpires, ChildEnds, GroupEnds, FatalLog, history, vars
<1>9. CASE CheckStep
    BY <1>1, <1>9
       DEF CheckStep, HealthTick, ProbeAnswered, ProbeFails, HealthKill, HealthKillReturns,
           history
<1>10. CASE ShutdownSignal \/ Cleanup \/ ProcessExit
    BY <1>0, <1>10
       DEF MonitorTypes, ShutdownSignal, Cleanup, ProcessExit, StopEntry, monitor, history
<1>11. CASE StopMarks \/ StopKillReturns
    <2>1. current \in 0..MaxSpawns
        BY DEF TypeOK
    <2> QED BY <1>0, <1>11, <2>1
            DEF MonitorTypes, ProcessState, StopMarks, StopKillReturns, history
<1> QED BY <1>3, <1>4, <1>5, <1>6, <1>7, <1>8, <1>9, <1>10, <1>11 DEF Next, CheckStep

ChildTypes ==
    /\ child \in [Child -> ChildStatus]
    /\ group \in SUBSET Child
    /\ cause \in [Child -> {"none", "zero", "nonzero", "signal"}]
    /\ current \in 0..MaxSpawns

LEMMA StepKeepsChildTypes ==
    ASSUME TypeOK, [Next]_vars
    PROVE  ChildTypes'
<1>1. CASE Dying
    BY <1>1 DEF Dying, TypeOK, ChildTypes
<1>2. ASSUME NEW c \in Child, ExitEvent(c)
      PROVE  ChildTypes'
    BY <1>2 DEF ExitEvent, TypeOK, ChildTypes, ChildStatus
<1>3. ASSUME NEW w \in Caller, SpawnSucceeds(w)
      PROVE  ChildTypes'
    <2>1. current + 1 \in Child
        BY <1>3, MonitorAssumption DEF SpawnSucceeds, TypeOK, Child
    <2>2. group' \in SUBSET Child
        BY <1>3, <2>1 DEF SpawnSucceeds, TypeOK
    <2> QED BY <1>3, <2>1, <2>2 DEF SpawnSucceeds, TypeOK, ChildTypes, ChildStatus, Child
<1> QED BY <1>1, <1>2, <1>3, ChildrenStep

LEMMA InitTypes == Init => TypeOK /\ CheckInv
<1> SUFFICES ASSUME Init PROVE TypeOK /\ CheckInv
    OBVIOUS
<1>1. TypeOK
    <2>1. 0 \in 0..MaxSpawns /\ 0 \in 0..MaxRestarts /\ 0 \in 0..MaxPortFailures
        BY MonitorAssumption
    <2>2. /\ startPc \in [Caller -> {"idle", "logging", "spawning"}]
          /\ child \in [Child -> {"unborn", "alive", "terminating", "ended", "reaped"}]
          /\ cause \in [Child -> {"none", "zero", "nonzero", "signal"}]
        BY DEF Init
    <2>3. check \in [Check -> [pc : {"idle", "probing", "logging", "killing"},
                              target : 0..MaxSpawns, grace : BOOLEAN]]
        BY <2>1 DEF Init, IdleCheck
    <2>4. faults \in Nat /\ late \in SUBSET Child /\ state \in ProcessState
        BY DEF Init, ProcessState
    <2> QED BY <2>1, <2>2, <2>3, <2>4 DEF Init, TypeOK
<1>2. CheckInv
    BY DEF Init, CheckInv, OneCheck, RoomToFail, Active, IdleCheck
<1> QED BY <1>1, <1>2

LEMMA StepKeepsTypes == TypeOK /\ CheckInv /\ [Next]_vars => TypeOK' /\ CheckInv'
<1> SUFFICES ASSUME TypeOK, CheckInv, [Next]_vars PROVE TypeOK' /\ CheckInv'
    OBVIOUS
<1>1. CheckTypes' /\ CheckInv'
    BY CheckStepKeepsTypes, OtherStepKeepsTypes
<1> QED BY <1>1, StepKeepsMonitorTypes, StepKeepsChildTypes
        DEF TypeOK, CheckTypes, MonitorTypes, ChildTypes, CheckRecord, ChildStatus

(* No counter leaves its range: restartCount stays within the budget of restarts, *)
(* and portFailureCount within the bound of the model.                            *)
THEOREM TypeCorrect == Spec => []TypeOK
<1>1. Spec => [](TypeOK /\ CheckInv)
    BY InitTypes, StepKeepsTypes, PTL DEF Spec
<1> QED BY <1>1, PTL

--------------------------------------------------------------------------------
(* The monitor implements Supervisor. Children come and go one after the other, and *)
(* while one is there no other is owed: restartTimer and the two callers of start() *)
(* exclude each other.                                                             *)
UpNow == current > 0 /\ child[current] # "reaped"
AllIdle == \A w \in Caller : startPc[w] = "idle"
Owed == restartTimer \/ \E w \in Caller : startPc[w] # "idle"

Generations ==
    \A c \in Child : /\ c < current => child[c] = "reaped"
                     /\ current < c <=> child[c] = "unborn"
OneOwed ==
    /\ UpNow => ~Owed
    /\ restartTimer => AllIdle
    /\ startPc["runner"] = "idle" \/ startPc["timer"] = "idle"
FirstRun ==
    /\ stage = "init" => current = 0 /\ ~restartTimer /\ startPc["timer"] = "idle"
    /\ startPc["runner"] # "idle" => stage = "init"
OrderInv == Generations /\ OneOwed /\ FirstRun

LEMMA DyingKeepsGenerations ==
    ASSUME TypeOK, Generations, Dying
    PROVE  /\ Generations'
           /\ UpNow' <=> UpNow
<1>1. current \in 0..MaxSpawns /\ MaxSpawns \in Nat \ {0}
    BY MonitorAssumption DEF TypeOK
<1>2. Generations'
    BY <1>1 DEF Dying, Generations, Child
<1>3. UpNow' <=> UpNow
    <2>1. CASE current = 0
        BY <1>1, <2>1 DEF Dying, UpNow
    <2>2. CASE current # 0
        <3>1. current \in Child /\ current' = current
            BY <1>1, <2>2 DEF Child, Dying
        <3>2. child'[current] # "reaped" <=> child[current] # "reaped"
            BY <3>1 DEF Dying
        <3> QED BY <3>1, <3>2 DEF UpNow
    <2> QED BY <2>1, <2>2
<1> QED BY <1>2, <1>3

LEMMA ExitIsOfCurrent ==
    ASSUME TypeOK, Generations, NEW c \in Child, child[c] \in {"alive", "terminating", "ended"}
    PROVE  c = current
BY MonitorAssumption DEF TypeOK, Generations, Child

(* Steps that touch neither the timer nor a caller of start() nor the stage.      *)
LEMMA QuietKeepsOrder ==
    ASSUME TypeOK, OrderInv, Dying, UNCHANGED <<restartTimer, startPc>>,
           stage' = stage \/ (stage # "init" /\ stage' # "init")
    PROVE  OrderInv'
<1>1. Generations' /\ (UpNow' <=> UpNow)
    BY DyingKeepsGenerations DEF OrderInv
<1>2. OneOwed'
    BY <1>1 DEF OrderInv, OneOwed, Owed, AllIdle
<1>3. current' = current
    BY DEF Dying
<1>4. FirstRun'
    BY <1>3 DEF OrderInv, FirstRun
<1> QED BY <1>1, <1>2, <1>4 DEF OrderInv

LEMMA StartStepKeepsOrder ==
    ASSUME TypeOK, OrderInv, RunnerStart \/ RestartFires \/ RestartCallsStart
    PROVE  OrderInv'
<1>0. startPc \in [Caller -> {"idle", "logging", "spawning"}] /\ Caller = {"runner", "timer"}
    BY DEF TypeOK, Caller
<1>1. UNCHANGED children /\ UNCHANGED stage
    BY DEF RunnerStart, RestartFires, RestartCallsStart, shutdown
<1>2. Generations' /\ (UpNow' <=> UpNow) /\ current' = current
    BY <1>1, UnchangedDying, DyingKeepsGenerations DEF OrderInv, children
<1>3. CASE RunnerStart
    <2>1. ~UpNow /\ ~restartTimer /\ startPc["timer"] = "idle" /\ current = 0
        BY <1>3 DEF RunnerStart, OrderInv, FirstRun, UpNow
    <2>2. /\ ~restartTimer' /\ startPc'["timer"] = "idle" /\ stage' = "init"
        BY <1>0, <1>1, <1>3, <2>1 DEF RunnerStart
    <2> QED BY <1>2, <2>1, <2>2 DEF OrderInv, OneOwed, FirstRun
<1>4. CASE RestartFires
    <2>1. ~UpNow /\ AllIdle /\ stage # "init" /\ restartTimer
        BY <1>4 DEF RestartFires, OrderInv, OneOwed, Owed, FirstRun
    <2>2. startPc'["runner"] = "idle" /\ ~restartTimer'
        BY <1>0, <1>4, <2>1 DEF RestartFires, AllIdle
    <2> QED BY <1>1, <1>2, <2>1, <2>2 DEF OrderInv, OneOwed, FirstRun
<1>5. CASE RestartCallsStart
    <2>1. /\ ~UpNow /\ ~restartTimer /\ stage # "init" /\ startPc["runner"] = "idle"
        BY <1>0, <1>5 DEF RestartCallsStart, OrderInv, OneOwed, Owed, AllIdle, FirstRun
    <2>2. startPc'["runner"] = "idle" /\ ~restartTimer'
        BY <1>0, <1>5, <2>1 DEF RestartCallsStart
    <2> QED BY <1>1, <1>2, <2>1, <2>2 DEF OrderInv, OneOwed, FirstRun
<1> QED BY <1>3, <1>4, <1>5

LEMMA SpawnKeepsOrder ==
    ASSUME TypeOK, OrderInv, NEW w \in Caller, SpawnSucceeds(w) \/ SpawnFails(w)
    PROVE  OrderInv' /\ ~UpNow /\ Owed /\ AllIdle' /\ ~restartTimer'
<1>0. startPc \in [Caller -> {"idle", "logging", "spawning"}] /\ Caller = {"runner", "timer"}
    BY DEF TypeOK, Caller
<1>1. startPc[w] = "spawning" /\ startPc' = [startPc EXCEPT ![w] = "idle"]
      /\ restartTimer' = restartTimer /\ (w = "runner" \/ stage' \in {stage, "exited"})
    BY DEF SpawnSucceeds, SpawnFails
<1>2. Owed /\ ~UpNow /\ ~restartTimer
    BY <1>1 DEF Owed, OrderInv, OneOwed, AllIdle
<1>3. AllIdle'
    BY <1>0, <1>1 DEF OrderInv, OneOwed, AllIdle
<1>4. stage' # "init"
    BY <1>0, <1>1 DEF SpawnSucceeds, SpawnFails, OrderInv, FirstRun
<1>5. OneOwed' /\ FirstRun'
    BY <1>0, <1>1, <1>2, <1>3, <1>4 DEF OneOwed, FirstRun, AllIdle, Owed
<1>6. Generations'
    <2>1. CASE SpawnSucceeds(w)
        <3>1. /\ current \in Nat /\ current' = current + 1 /\ current + 1 \in Child
              /\ child \in [Child -> ChildStatus]
              /\ child' = [child EXCEPT ![current + 1] = "alive"]
            BY <2>1, MonitorAssumption DEF SpawnSucceeds, TypeOK, Child, ChildStatus
        <3>2. current > 0 => child[current] = "reaped"
            BY <1>2 DEF UpNow
        <3>3. ASSUME NEW c \in Child
              PROVE  /\ c < current' => child'[c] = "reaped"
                     /\ current' < c <=> child'[c] = "unborn"
            <4>1. /\ c < current => child[c] = "reaped"
                  /\ current < c <=> child[c] = "unborn"
                  /\ c \in Nat /\ c > 0
                BY DEF OrderInv, Generations, Child
            <4>2. CASE c = current + 1
                BY <3>1, <4>2
            <4>3. CASE c # current + 1
                <5>1. child'[c] = child[c]
                    BY <3>1, <4>3
                <5> QED BY <3>1, <3>2, <4>1, <4>3, <5>1
            <4> QED BY <4>2, <4>3
        <3> QED BY <3>3 DEF Generations
    <2>2. CASE SpawnFails(w)
        BY <2>2 DEF SpawnFails, children, OrderInv, Generations
    <2> QED BY <2>1, <2>2
<1> QED BY <1>1, <1>2, <1>3, <1>5, <1>6 DEF OrderInv

LEMMA ExitKeepsOrder ==
    ASSUME TypeOK, OrderInv, NEW c \in Child, ExitEvent(c)
    PROVE  OrderInv' /\ UpNow /\ ~UpNow' /\ ~Owed /\ AllIdle'
<1>1. c = current /\ current > 0 /\ current \in Child
    BY ExitIsOfCurrent DEF ExitEvent, OrderInv, Child
<1>2. UpNow /\ ~Owed
    BY <1>1 DEF ExitEvent, UpNow, OrderInv, OneOwed
<1>3. /\ current' = current /\ child' = [child EXCEPT ![current] = "reaped"]
      /\ startPc' = startPc /\ stage' = stage
    BY <1>1 DEF ExitEvent, shutdown
<1>4. ~UpNow'
    BY <1>1, <1>3 DEF TypeOK, UpNow
<1>5. AllIdle'
    BY <1>2, <1>3 DEF Owed, AllIdle
<1>6. Generations'
    <2>1. child \in [Child -> ChildStatus] /\ current \in Nat /\ Child \subseteq Nat
        BY DEF TypeOK, ChildStatus, Child
    <2>2. ASSUME NEW d \in Child
          PROVE  /\ d < current' => child'[d] = "reaped"
                 /\ current' < d <=> child'[d] = "unborn"
        <3>1. CASE d = current
            BY <1>1, <1>3, <2>1, <3>1
        <3>2. CASE d # current
            BY <1>3, <2>1, <3>2 DEF OrderInv, Generations
        <3> QED BY <3>1, <3>2
    <2> QED BY <2>2 DEF Generations
<1>7. FirstRun'
    BY <1>1, <1>3, <1>5 DEF OrderInv, FirstRun, AllIdle, Caller
<1>8. OneOwed'
    BY <1>4, <1>5 DEF OneOwed, AllIdle, Caller
<1> QED BY <1>2, <1>4, <1>5, <1>6, <1>7, <1>8 DEF OrderInv

(* Steps of stop(): they may cancel the timer.                                    *)
LEMMA StopKeepsOrder ==
    ASSUME TypeOK, OrderInv, StopStep
    PROVE  /\ OrderInv'
           /\ Dying /\ UNCHANGED <<startPc, restartCount>>
           /\ ~restartTimer' \/ UNCHANGED restartTimer
<1>1. Dying
    BY StopIsDying
<1>2. UNCHANGED <<startPc, restartCount>> /\ (~restartTimer' \/ UNCHANGED restartTimer)
    BY DEF StopStep, ShutdownSignal, StopMarks, StopKillReturns, Cleanup, ProcessExit, monitor
<1>3. stage' = stage \/ (stage # "init" /\ stage' # "init")
    BY DEF StopStep, ShutdownSignal, StopMarks, StopKillReturns, Cleanup, ProcessExit
<1>4. Generations' /\ (UpNow' <=> UpNow) /\ current' = current
    BY <1>1, DyingKeepsGenerations DEF OrderInv, Dying
<1>5. OneOwed' /\ FirstRun'
    BY <1>2, <1>3, <1>4 DEF OrderInv, OneOwed, Owed, AllIdle, FirstRun
<1> QED BY <1>1, <1>2, <1>4, <1>5 DEF OrderInv

(* The state of Supervisor, named, and a step of it in these names.               *)
Budget == MaxRestarts - restartCount
Same == current' = current /\ UpNow' = UpNow
SupervisorStep ==
    \/ current = 0 /\ ~Owed /\ Owed' /\ Same /\ Budget' = Budget
    \/ /\ Owed /\ ~UpNow /\ ~Owed' /\ UpNow' /\ current' = current + 1
       /\ Budget' \in {Budget, MaxRestarts}
    \/ /\ UpNow /\ ~Owed /\ ~UpNow' /\ Owed' /\ current' = current
       /\ Budget > 0 /\ Budget' = Budget - 1
    \/ UpNow /\ ~UpNow' /\ current' = current /\ Owed' = Owed /\ Budget' = Budget
    \/ Owed /\ ~Owed' /\ Same /\ Budget' \in {Budget, MaxRestarts}
    \/ Same /\ Owed' = Owed /\ Budget' = Budget

LEMMA SupervisorSteps == SupervisorStep => [Promise!Next]_(Promise!vars)
<1> SUFFICES ASSUME SupervisorStep PROVE [Promise!Next]_(Promise!vars)
    OBVIOUS
<1>1. CASE current = 0 /\ ~Owed /\ Owed' /\ Same /\ Budget' = Budget
    <2>1. Promise!Ask
        BY <1>1 DEF Promise!Ask, Owed, UpNow, Same, Budget
    <2> QED BY <2>1 DEF Promise!Next
<1>2. CASE /\ Owed /\ ~UpNow /\ ~Owed' /\ UpNow' /\ current' = current + 1
           /\ Budget' \in {Budget, MaxRestarts}
    <2>1. Promise!Begin
        BY <1>2 DEF Promise!Begin, Owed, UpNow, Budget
    <2> QED BY <2>1 DEF Promise!Next
<1>3. CASE /\ UpNow /\ ~Owed /\ ~UpNow' /\ Owed' /\ current' = current
           /\ Budget > 0 /\ Budget' = Budget - 1
    <2>1. Promise!EndAndOwe
        BY <1>3 DEF Promise!EndAndOwe, Owed, UpNow, Budget
    <2> QED BY <2>1 DEF Promise!Next
<1>4. CASE UpNow /\ ~UpNow' /\ current' = current /\ Owed' = Owed /\ Budget' = Budget
    <2>1. Promise!EndForGood
        BY <1>4 DEF Promise!EndForGood, Owed, UpNow, Budget
    <2> QED BY <2>1 DEF Promise!Next
<1>5. CASE Owed /\ ~Owed' /\ Same /\ Budget' \in {Budget, MaxRestarts}
    <2>1. Promise!Cancel
        BY <1>5 DEF Promise!Cancel, Owed, UpNow, Same, Budget
    <2> QED BY <2>1 DEF Promise!Next
<1>6. CASE Same /\ Owed' = Owed /\ Budget' = Budget
    <2>1. UNCHANGED Promise!vars
        BY <1>6 DEF Promise!vars, Owed, UpNow, Same, Budget
    <2> QED BY <2>1
<1> QED BY <1>1, <1>2, <1>3, <1>4, <1>5, <1>6 DEF SupervisorStep

LEMMA SameUp == ASSUME UpNow' <=> UpNow, current' = current PROVE Same
BY DEF Same, UpNow

(* Every step keeps the order of runs and is a step of Supervisor or a stutter.   *)
LEMMA StepImplements ==
    ASSUME TypeOK, OrderInv, [Next]_vars
    PROVE  OrderInv' /\ SupervisorStep
<1>1. ASSUME Dying, UNCHANGED <<restartTimer, startPc, restartCount>>,
             stage' = stage \/ (stage # "init" /\ stage' # "init")
      PROVE  OrderInv' /\ SupervisorStep
    <2>1. OrderInv'
        BY <1>1, QuietKeepsOrder
    <2>2. Same
        BY <1>1, DyingKeepsGenerations, SameUp DEF OrderInv, Dying
    <2>3. Owed' = Owed /\ Budget' = Budget
        BY <1>1 DEF Owed, Budget
    <2> QED BY <2>1, <2>2, <2>3 DEF SupervisorStep
<1>2. CASE RunnerStart \/ RestartFires \/ RestartCallsStart
    <2>1. OrderInv'
        BY <1>2, StartStepKeepsOrder
    <2>2. UNCHANGED <<children, restartCount>>
        BY <1>2 DEF RunnerStart, RestartFires, RestartCallsStart
    <2>3. Same /\ Budget' = Budget
        BY <2>2, SameUp DEF children, UpNow, Budget
    <2>4. startPc \in [Caller -> {"idle", "logging", "spawning"}] /\ Caller = {"runner", "timer"}
        BY DEF TypeOK, Caller
    <2>5. CASE RunnerStart
        <3>1. current = 0 /\ ~Owed
            BY <2>4, <2>5 DEF RunnerStart, OrderInv, FirstRun, Owed
        <3>2. Owed'
            BY <2>4, <2>5 DEF RunnerStart, Owed
        <3> QED BY <2>1, <2>3, <3>1, <3>2 DEF SupervisorStep
    <2>6. CASE RestartFires \/ RestartCallsStart
        <3>1. Owed
            BY <2>4, <2>6 DEF RestartFires, RestartCallsStart, Owed
        <3>2. Owed' = Owed \/ ~Owed'
            BY <3>1 DEF Owed
        <3> QED BY <2>1, <2>3, <3>1, <3>2 DEF SupervisorStep
    <2> QED BY <1>2, <2>5, <2>6
<1>3. ASSUME NEW w \in Caller, SpawnSucceeds(w) \/ SpawnFails(w)
      PROVE  OrderInv' /\ SupervisorStep
    <2>1. OrderInv' /\ ~UpNow /\ Owed /\ ~Owed'
        BY <1>3, SpawnKeepsOrder DEF AllIdle, Owed
    <2>2. Budget' \in {Budget, MaxRestarts}
        BY <1>3, MonitorAssumption DEF SpawnSucceeds, SpawnFails, Stability, Budget
    <2>3. CASE SpawnSucceeds(w)
        <3>1. /\ current' = current + 1 /\ current \in Nat /\ current + 1 \in Child
              /\ child' = [child EXCEPT ![current + 1] = "alive"]
            BY <2>3, MonitorAssumption DEF SpawnSucceeds, TypeOK, Child
        <3>2. UpNow'
            BY <3>1 DEF TypeOK, UpNow
        <3> QED BY <2>1, <2>2, <3>1, <3>2 DEF SupervisorStep
    <2>4. CASE SpawnFails(w)
        <3>1. Same
            BY <2>4 DEF SpawnFails, children, Same, UpNow
        <3> QED BY <2>1, <2>2, <3>1 DEF SupervisorStep
    <2> QED BY <1>3, <2>3, <2>4
<1>4. ASSUME NEW c \in Child, ExitEvent(c)
      PROVE  OrderInv' /\ SupervisorStep
    <2>1. OrderInv' /\ UpNow /\ ~UpNow' /\ ~Owed /\ AllIdle' /\ current' = current
        BY <1>4, ExitKeepsOrder DEF ExitEvent
    <2>2. CASE Counted
        <3>1. restartCount \in Nat /\ MaxRestarts \in Nat
            BY MonitorAssumption DEF TypeOK
        <3>2. Owed' /\ Budget > 0 /\ Budget' = Budget - 1
            BY <2>2, <3>1 DEF Counted, ScheduleRestart, Owed, Budget
        <3> QED BY <2>1, <3>2 DEF SupervisorStep
    <2>3. CASE UNCHANGED <<restartTimer, restartCount>>
        <3>1. Owed' = Owed
            BY <2>1, <2>3 DEF Owed, AllIdle
        <3> QED BY <2>1, <2>3, <3>1 DEF SupervisorStep, Budget
    <2> QED BY <1>4, <2>2, <2>3, ExitOutcome
<1>5. CASE StopStep
    <2>1. /\ OrderInv' /\ Dying /\ UNCHANGED <<startPc, restartCount>>
          /\ ~restartTimer' \/ UNCHANGED restartTimer
        BY <1>5, StopKeepsOrder
    <2>2. Same /\ Budget' = Budget
        BY <2>1, DyingKeepsGenerations, SameUp DEF OrderInv, Dying, Budget
    <2>3. Owed' = Owed \/ (Owed /\ ~Owed')
        BY <2>1 DEF Owed
    <2> QED BY <2>1, <2>2, <2>3 DEF SupervisorStep
<1>6. CASE CheckStep
    <2>1. UNCHANGED <<restartTimer, startPc, restartCount, stage>>
        BY <1>6
           DEF CheckStep, HealthTick, ProbeAnswered, ProbeFails, HealthKill,
               HealthKillReturns, monitor, shutdown
    <2> QED BY <1>1, <1>6, <2>1, CheckIsDying
<1>7. CASE \E c \in Child : ChildEnds(c) \/ GroupEnds(c) \/ ErrorEvent(c) \/ FatalLog(c)
    <2>1. UNCHANGED <<restartTimer, startPc, restartCount, stage>>
        BY <1>7 DEF ChildEnds, GroupEnds, ErrorEvent, FatalLog, monitor, shutdown
    <2>2. Dying
        BY <1>7, EndedDying, UnchangedDying, TerminatedDying DEF ErrorEvent, FatalLog
    <2> QED BY <1>1, <2>1, <2>2
<1>8. CASE GraceExpires \/ UNCHANGED vars
    BY <1>1, <1>8, UnchangedDying DEF GraceExpires, vars, monitor, shutdown
<1> QED BY <1>2, <1>3, <1>4, <1>5, <1>6, <1>7, <1>8 DEF Next, CheckStep, StopStep

LEMMA InitImplements == Init => OrderInv /\ Promise!Init
<1> SUFFICES ASSUME Init PROVE OrderInv /\ Promise!Init
    OBVIOUS
<1>1. OrderInv
    BY DEF Init, OrderInv, Generations, OneOwed, FirstRun, UpNow, AllIdle, Caller, Child
<1>2. Promise!Init
    BY MonitorAssumption DEF Init, Promise!Init
<1> QED BY <1>1, <1>2

(* The monitor implements its promise: one run at a time, a later one only when it *)
(* is owed, and no more restarts than the budget between two resets of it.        *)
THEOREM ImplementsCorrect == Spec => Implements
<1>1. TypeOK /\ OrderInv /\ [Next]_vars => OrderInv' /\ [Promise!Next]_(Promise!vars)
    BY StepImplements, SupervisorSteps
<1>2. Spec => [](TypeOK /\ OrderInv)
    BY <1>1, InitImplements, TypeCorrect, PTL DEF Spec
<1> QED BY <1>1, <1>2, InitImplements, PTL DEF Spec, Implements, Promise!Spec

--------------------------------------------------------------------------------
(* Health checks. While the state is running a child is there, so no start() is    *)
(* in progress: none comes between the decision to kill and the kill. A probe of   *)
(* an earlier child finds the count at zero, and one failure is not enough.        *)
RunningIsUp == state = "running" => UpNow
NoneAtInit == stage = "init" => state # "running" /\ \A h \in Check : check[h].pc = "idle"
KillsForOwn == \A h \in Check : check[h].pc = "logging" => ownFailure /\ AllIdle
StaleProbe ==
    \A h \in Check :
        check[h].pc = "probing" /\ check[h].target # current => portFailureCount = 0
HealthInv == RunningIsUp /\ NoneAtInit /\ KillsForOwn /\ StaleProbe

LEMMA RunningStep ==
    ASSUME TypeOK, OrderInv, RunningIsUp, NoneAtInit, [Next]_vars
    PROVE  RunningIsUp' /\ (stage' = "init" => state' # "running" /\ stage = "init")
<1>1. ASSUME Dying, state' = state \/ state' # "running",
             stage' = stage \/ (stage # "init" /\ stage' # "init")
      PROVE  RunningIsUp' /\ (stage' = "init" => state' # "running" /\ stage = "init")
    BY <1>1, DyingKeepsGenerations DEF RunningIsUp, NoneAtInit, OrderInv
<1>2. CASE RunnerStart \/ RestartFires \/ RestartCallsStart
    <2>1. UNCHANGED children /\ UNCHANGED stage /\ (state' = state \/ state' # "running")
        BY <1>2 DEF RunnerStart, RestartFires, RestartCallsStart, shutdown
    <2> QED BY <1>1, <2>1, UnchangedDying
<1>3. ASSUME NEW w \in Caller, SpawnSucceeds(w) \/ SpawnFails(w)
      PROVE  RunningIsUp' /\ (stage' = "init" => state' # "running" /\ stage = "init")
    <2>1. stage' # "init"
        BY <1>3 DEF SpawnSucceeds, SpawnFails, OrderInv, OneOwed, FirstRun, Caller
    <2>2. CASE SpawnSucceeds(w)
        <3>1. /\ current' = current + 1 /\ current \in Nat /\ current + 1 \in Child
              /\ child' = [child EXCEPT ![current + 1] = "alive"]
            BY <2>2, MonitorAssumption DEF SpawnSucceeds, TypeOK, Child
        <3>2. UpNow'
            BY <3>1 DEF TypeOK, UpNow
        <3> QED BY <2>1, <3>2 DEF RunningIsUp
    <2>3. CASE SpawnFails(w)
        BY <2>1, <2>3 DEF SpawnFails, RunningIsUp
    <2> QED BY <1>3, <2>2, <2>3
<1>4. ASSUME NEW c \in Child, ExitEvent(c)
      PROVE  RunningIsUp' /\ (stage' = "init" => state' # "running" /\ stage = "init")
    <2>1. state' # "running" /\ stage' = stage
        BY <1>4, ExitOutcome DEF ExitEvent, shutdown
    <2> QED BY <2>1 DEF RunningIsUp
<1>5. CASE StopStep
    <2>1. /\ state' = state \/ state' # "running"
          /\ stage' = stage \/ (stage # "init" /\ stage' # "init")
        BY <1>5
           DEF StopStep, ShutdownSignal, StopMarks, StopKillReturns, Cleanup, ProcessExit,
               monitor
    <2> QED BY <1>1, <1>5, <2>1, StopIsDying
<1>6. CASE CheckStep
    <2>1. UNCHANGED <<state, stage>>
        BY <1>6
           DEF CheckStep, HealthTick, ProbeAnswered, ProbeFails, HealthKill,
               HealthKillReturns, monitor, shutdown
    <2> QED BY <1>1, <1>6, <2>1, CheckIsDying
<1>7. CASE \E c \in Child : ChildEnds(c) \/ GroupEnds(c) \/ ErrorEvent(c) \/ FatalLog(c)
    <2>1. UNCHANGED stage /\ (state' = state \/ state' # "running")
        BY <1>7 DEF ChildEnds, GroupEnds, ErrorEvent, FatalLog, monitor, shutdown
    <2>2. Dying
        BY <1>7, EndedDying, UnchangedDying, TerminatedDying DEF ErrorEvent, FatalLog
    <2> QED BY <1>1, <2>1, <2>2
<1>8. CASE GraceExpires \/ UNCHANGED vars
    BY <1>1, <1>8, UnchangedDying DEF GraceExpires, vars, monitor, shutdown
<1> QED BY <1>2, <1>3, <1>4, <1>5, <1>6, <1>7, <1>8 DEF Next, CheckStep, StopStep

ChecksInv == /\ stage = "init" => \A h \in Check : check[h].pc = "idle"
             /\ KillsForOwn /\ StaleProbe

LEMMA CheckStepKeepsChecks ==
    ASSUME TypeOK, CheckInv, OrderInv, HealthInv, CheckStep
    PROVE  ChecksInv'
<1>0. /\ check \in [Check -> CheckRecord]
      /\ portFailureCount \in Nat /\ current \in 0..MaxSpawns
    BY MonitorAssumption DEF TypeOK, CheckRecord
<1>1. UNCHANGED <<state, startPc, stage, current>>
    BY DEF CheckStep, HealthTick, ProbeAnswered, ProbeFails, HealthKill, HealthKillReturns,
           monitor, shutdown, children
<1>2. state = "running" => AllIdle /\ stage # "init"
    BY DEF HealthInv, RunningIsUp, NoneAtInit, OrderInv, OneOwed, Owed, AllIdle
<1>3. AllIdle' <=> AllIdle
    BY <1>1 DEF AllIdle
<1>4. ASSUME NEW h \in Check, HealthTick(h)
      PROVE  ChecksInv'
    <2>1. check' = [check EXCEPT ![h] = [pc |-> "probing", target |-> current, grace |-> grace]]
          /\ UNCHANGED <<portFailureCount, ownFailure>> /\ state = "running"
        BY <1>4 DEF HealthTick, history
    <2> QED BY <1>0, <1>1, <1>2, <1>3, <2>1
            DEF CheckRecord, ChecksInv, HealthInv, KillsForOwn, StaleProbe
<1>5. ASSUME NEW h \in Check, ProbeAnswered(h)
      PROVE  ChecksInv'
    <2>1. SetCheck(h, "idle", 0) /\ portFailureCount' = 0
        BY <1>5 DEF ProbeAnswered
    <2>2. \A i \in Check : check'[i].pc # "logging"
        BY <1>0, <1>5, <2>1 DEF ProbeAnswered, SetCheck, CheckRecord, CheckInv, OneCheck, Active
    <2>3. stage # "init"
        BY <1>5 DEF ProbeAnswered, HealthInv, NoneAtInit
    <2> QED BY <1>1, <2>1, <2>2, <2>3 DEF ChecksInv, KillsForOwn, StaleProbe
<1>6. ASSUME NEW h \in Check, ProbeFails(h)
      PROVE  ChecksInv'
    <2>0. stage # "init"
        BY <1>6 DEF ProbeFails, HealthInv, NoneAtInit
    <2>1. \A i \in Check \ {h} : check'[i] = check[i] /\ ~Active(i)
        BY <1>0, <1>6 DEF ProbeFails, SetCheck, CheckInv, OneCheck, Active
    <2>2. CASE /\ portFailureCount' > portFailureCount
               /\ portFailureCount' >= PORT_FAILURE_THRESHOLD
               /\ ~healthRestartInProgress /\ state = "running"
        <3>1. check'[h].pc = "logging"
            BY <1>0, <1>6, <2>2 DEF ProbeFails, SetCheck, CheckRecord
        <3>2. portFailureCount' = portFailureCount + 1
            BY <1>0, <1>6, <2>2 DEF ProbeFails
        <3>3. portFailureCount # 0
            BY <1>0, <2>2, <3>2 DEF PORT_FAILURE_THRESHOLD
        <3>4. check[h].target = current
            BY <1>6, <3>3 DEF ProbeFails, HealthInv, StaleProbe
        <3>5. ownFailure'
            BY <1>6, <2>2, <3>4 DEF ProbeFails
        <3> QED BY <1>1, <1>2, <1>3, <2>0, <2>1, <2>2, <3>1, <3>5
                DEF ChecksInv, KillsForOwn, StaleProbe, Active
    <2>3. CASE check'[h].pc = "idle"
        BY <1>1, <2>0, <2>1, <2>3 DEF ChecksInv, KillsForOwn, StaleProbe, Active
    <2>4. check'[h].pc = "idle" \/ (/\ portFailureCount' > portFailureCount
                                    /\ portFailureCount' >= PORT_FAILURE_THRESHOLD
                                    /\ ~healthRestartInProgress /\ state = "running")
        BY <1>0, <1>6 DEF ProbeFails, SetCheck, CheckRecord
    <2> QED BY <2>2, <2>3, <2>4
<1>7. ASSUME NEW h \in Check, HealthKill(h) \/ HealthKillReturns(h)
      PROVE  ChecksInv'
    <2>1. SetCheck(h, "killing", current) \/ SetCheck(h, "idle", 0)
        BY <1>7 DEF HealthKill, HealthKillReturns
    <2>2. /\ \A i \in Check \ {h} : check'[i] = check[i]
          /\ check'[h].pc \in {"killing", "idle"}
        BY <1>0, <2>1 DEF SetCheck, CheckRecord
    <2>3. UNCHANGED <<portFailureCount, ownFailure>> /\ stage # "init"
        BY <1>7 DEF HealthKill, HealthKillReturns, history, HealthInv, NoneAtInit
    <2> QED BY <1>1, <1>3, <2>2, <2>3 DEF ChecksInv, HealthInv, KillsForOwn, StaleProbe
<1> QED BY <1>4, <1>5, <1>6, <1>7 DEF CheckStep

LEMMA OtherStepKeepsChecks ==
    ASSUME TypeOK, OrderInv, HealthInv, [Next]_vars, ~CheckStep
    PROVE  ChecksInv'
<1>0. stage' = "init" => stage = "init"
    BY RunningStep DEF HealthInv
<1>1. ASSUME UNCHANGED <<check, portFailureCount, ownFailure, current>>,
             AllIdle => AllIdle' \/ \A h \in Check : check[h].pc # "logging"
      PROVE  ChecksInv'
    BY <1>0, <1>1 DEF ChecksInv, HealthInv, NoneAtInit, KillsForOwn, StaleProbe
<1>2. CASE RunnerStart
    BY <1>1, <1>2 DEF RunnerStart, health, children, history, HealthInv, NoneAtInit
<1>3. CASE RestartFires
    BY <1>1, <1>3 DEF RestartFires, health, children, history
<1>4. CASE RestartCallsStart
    <2>1. ~AllIdle
        BY <1>4 DEF RestartCallsStart, AllIdle, Caller
    <2> QED BY <1>1, <1>4, <2>1 DEF RestartCallsStart, health, children, history
<1>5. ASSUME NEW w \in Caller, SpawnSucceeds(w) \/ SpawnFails(w)
      PROVE  ChecksInv'
    <2>1. UNCHANGED check /\ portFailureCount' = 0
        BY <1>5 DEF SpawnSucceeds, SpawnFails, ResetPortTracking
    <2>2. \A h \in Check : check[h].pc # "logging"
        BY <1>5 DEF SpawnSucceeds, SpawnFails, HealthInv, KillsForOwn, AllIdle
    <2> QED BY <1>0, <2>1, <2>2 DEF ChecksInv, HealthInv, NoneAtInit, KillsForOwn, StaleProbe
<1>6. CASE \/ StopStep \/ GraceExpires \/ UNCHANGED vars
           \/ \E c \in Child : \/ ChildEnds(c) \/ GroupEnds(c) \/ ExitEvent(c)
                              \/ ErrorEvent(c) \/ FatalLog(c)
    <2>1. UNCHANGED <<check, portFailureCount, ownFailure, current, startPc>>
        BY <1>6
           DEF StopStep, ShutdownSignal, StopMarks, StopKillReturns, Cleanup, ProcessExit,
               GraceExpires, ChildEnds, GroupEnds, ExitEvent, ErrorEvent, FatalLog, vars, monitor,
               children, health, history
    <2> QED BY <1>1, <2>1 DEF AllIdle
<1> QED BY <1>2, <1>3, <1>4, <1>5, <1>6 DEF Next, CheckStep, StopStep

LEMMA StepKeepsHealth ==
    ASSUME TypeOK, CheckInv, OrderInv, HealthInv, [Next]_vars
    PROVE  HealthInv'
BY RunningStep, CheckStepKeepsChecks, OtherStepKeepsChecks DEF HealthInv, ChecksInv, NoneAtInit

LEMMA HealthInvariant == Spec => [](TypeOK /\ CheckInv /\ OrderInv /\ HealthInv)
<1>1. Init => HealthInv
    BY DEF Init, HealthInv, RunningIsUp, NoneAtInit, KillsForOwn, StaleProbe, IdleCheck
<1>2. TypeOK /\ CheckInv /\ OrderInv /\ HealthInv /\ [Next]_vars
      => TypeOK' /\ CheckInv' /\ OrderInv' /\ HealthInv'
    BY StepKeepsTypes, StepImplements, StepKeepsHealth
<1> QED BY <1>1, <1>2, InitTypes, InitImplements, PTL DEF Spec

(* A health check kills no child for the failed probes of an earlier one only,    *)
(* however probes, restarts and kills in progress interleave.                     *)
THEOREM HealthKillOwnFailureCorrect == Spec => HealthKillOwnFailure
<1>1. HealthInv =>
        [\A h \in Check : check[h].pc = "logging" /\ check'[h].pc = "killing"
                              => ownFailure]_vars
    BY DEF HealthInv, KillsForOwn
<1> QED BY <1>1, HealthInvariant, PTL DEF HealthKillOwnFailure

--------------------------------------------------------------------------------
(* Shutdown. A child still there is never in a state stop() refuses or takes for   *)
(* stopped; while stop() waits for a kill no start() is in progress, so the child   *)
(* it kills is the last one; and once the last stop() has returned, a child that is *)
(* there was spawned after that.                                                   *)
Live == current > 0 /\ child[current] \in {"alive", "terminating"}

LiveState == Live => state \in {"running", "crashed", "stopping"}
StopStage == stage \in {"init", "up"} => stopPc = "idle"
KillsLast ==
    stopPc = "killing" => killing = current /\ ~Owed /\ state \in {"stopping", "stopped"}
Returned == stage = "exited" \/ (stage = "second" /\ stopPc = "done")
LateOnly == Returned /\ Live => current \in late
ShutdownInv == LiveState /\ StopStage /\ KillsLast /\ LateOnly

LEMMA LiveIsUp == Live => UpNow
BY DEF Live, UpNow

LEMMA DyingLive ==
    ASSUME TypeOK, Dying
    PROVE  (Live' => Live) /\ current' = current
<1>1. current' = current /\ current \in 0..MaxSpawns
    BY DEF Dying, TypeOK
<1>2. ASSUME Live' PROVE Live
    <2>1. current \in Child /\ child'[current] \in {"alive", "terminating"}
        BY <1>1, <1>2, MonitorAssumption DEF Live, Child
    <2> QED BY <1>1, <2>1 DEF Dying, Live, Child
<1> QED BY <1>1, <1>2

(* Steps that leave stop() and the start of a child alone. *)
LEMMA DyingKeepsShutdown ==
    ASSUME TypeOK, ShutdownInv, Dying, UNCHANGED <<restartTimer, startPc, shutdown, late>>,
           state' = state \/ (state \in {"running", "starting"} /\ state' = "crashed")
    PROVE  ShutdownInv'
<1>1. (Live' => Live) /\ current' = current
    BY DyingLive
<1>2. Owed' = Owed
    BY DEF Owed
<1> QED BY <1>1, <1>2
        DEF ShutdownInv, LiveState, StopStage, KillsLast, Returned, LateOnly, shutdown

LEMMA StartStepKeepsShutdown ==
    ASSUME TypeOK, OrderInv, ShutdownInv, RunnerStart \/ RestartFires \/ RestartCallsStart
    PROVE  ShutdownInv'
<1>1. UNCHANGED <<children, shutdown, late>>
    BY DEF RunnerStart, RestartFires, RestartCallsStart, history
<1>2. Owed \/ stage = "init"
    <2>1. RestartCallsStart => Owed
        BY DEF RestartCallsStart, Owed, Caller
    <2> QED BY <2>1 DEF RunnerStart, RestartFires, Owed
<1>3. ~Live /\ ~Live'
    BY <1>1, <1>2 DEF OrderInv, OneOwed, FirstRun, UpNow, Live, children
<1>4. stopPc' = stopPc /\ stopPc # "killing"
    BY <1>1, <1>2 DEF ShutdownInv, KillsLast, StopStage, shutdown
<1> QED BY <1>1, <1>3, <1>4
        DEF ShutdownInv, LiveState, StopStage, KillsLast, LateOnly, shutdown

LEMMA SpawnKeepsShutdown ==
    ASSUME TypeOK, OrderInv, ShutdownInv, NEW w \in Caller, SpawnSucceeds(w) \/ SpawnFails(w)
    PROVE  ShutdownInv'
<1>1. Owed /\ ~UpNow
    BY SpawnKeepsOrder
<1>2. stopPc' = stopPc /\ stopPc # "killing"
    BY <1>1 DEF SpawnSucceeds, SpawnFails, ShutdownInv, KillsLast
<1>3. startPc["runner"] # "idle" => stage = "init"
    BY DEF OrderInv, FirstRun
<1>4. w = "runner" => stage = "init"
    BY <1>3 DEF SpawnSucceeds, SpawnFails
<1>5. StopStage'
    BY <1>2, <1>4 DEF SpawnSucceeds, SpawnFails, ShutdownInv, StopStage
<1>6. CASE SpawnSucceeds(w)
    <2>1. state' = "running"
        BY <1>6 DEF SpawnSucceeds
    <2>2. Returned' => current' \in late'
        <3>1. CASE w = "runner"
            BY <1>6, <3>1 DEF SpawnSucceeds, Returned
        <3>2. CASE w # "runner"
            BY <1>6, <3>2 DEF SpawnSucceeds, Returned, Up
        <3> QED BY <3>1, <3>2
    <2> QED BY <1>2, <1>5, <2>1, <2>2 DEF ShutdownInv, LiveState, KillsLast, LateOnly
<1>7. CASE SpawnFails(w)
    <2>1. ~Live'
        BY <1>1, <1>7 DEF SpawnFails, children, Live, UpNow
    <2> QED BY <1>2, <1>5, <2>1 DEF ShutdownInv, LiveState, KillsLast, LateOnly
<1> QED BY <1>6, <1>7

LEMMA ExitKeepsShutdown ==
    ASSUME TypeOK, OrderInv, ShutdownInv, NEW c \in Child, ExitEvent(c)
    PROVE  ShutdownInv'
<1>1. ~UpNow' /\ AllIdle'
    BY ExitKeepsOrder
<1>2. ~Live'
    BY <1>1, LiveIsUp DEF Live, UpNow
<1>3. UNCHANGED <<shutdown, current>>
    BY DEF ExitEvent
<1>4. ASSUME stopPc = "killing"
      PROVE  ~restartTimer' /\ state' = "stopped"
    <2>1. state # "running" /\ ~restartTimer
        BY <1>4 DEF ShutdownInv, KillsLast, Owed
    <2>2. \A silent \in BOOLEAN : ~ShouldRestart(c, silent)
        BY <2>1 DEF ShouldRestart
    <2> QED BY <2>1, <2>2 DEF ExitEvent
<1>5. KillsLast'
    BY <1>1, <1>3, <1>4 DEF ShutdownInv, KillsLast, Owed, AllIdle, shutdown
<1> QED BY <1>2, <1>3, <1>5 DEF ShutdownInv, LiveState, StopStage, LateOnly, shutdown

LEMMA StopKeepsShutdown ==
    ASSUME TypeOK, OrderInv, ShutdownInv, StopStep
    PROVE  ShutdownInv'
<1>1. (Live' => Live) /\ current' = current
    BY StopIsDying, DyingLive
<1>2. current \in 0..MaxSpawns /\ current \in Nat
    BY DEF TypeOK
<1>3. Exited(current) => ~Live
    BY <1>2 DEF Exited, Live
<1>4. ~Exited(current) => UpNow
    BY <1>2 DEF Exited, UpNow, Child
<1>5. UNCHANGED late
    BY DEF StopStep, ShutdownSignal, StopMarks, StopKillReturns, Cleanup, ProcessExit, history
<1>6. StopStage'
    BY DEF StopStep, ShutdownSignal, StopMarks, StopKillReturns, Cleanup, ProcessExit,
           StopEntry, ShutdownInv, StopStage
<1>7. CASE ShutdownSignal
    <2>1. /\ stage' = "first" /\ stopPc' = StopEntry /\ state' = state
        BY <1>7 DEF ShutdownSignal, monitor
    <2>2. stopPc' = "done" => ~Live
        BY <2>1 DEF StopEntry, ShutdownInv, LiveState
    <2> QED BY <1>1, <1>6, <2>1, <2>2
            DEF ShutdownInv, LiveState, KillsLast, LateOnly, Returned, StopEntry
<1>8. CASE Cleanup
    <2>1. /\ stage = "first" /\ stopPc = "done" /\ stopPc' = StopEntry /\ state' = state
          /\ stage' = "second"
        BY <1>8 DEF Cleanup
    <2> QED BY <1>1, <1>5, <1>6, <2>1
            DEF ShutdownInv, LiveState, KillsLast, LateOnly, Returned, StopEntry
<1>9. CASE ProcessExit
    <2>1. /\ stage = "second" /\ stopPc = "done" /\ stopPc' = stopPc /\ state' = state
        BY <1>9 DEF ProcessExit, monitor
    <2> QED BY <1>1, <1>5, <1>6, <2>1 DEF ShutdownInv, LiveState, KillsLast, LateOnly, Returned
<1>10. CASE StopMarks
    <2>1. /\ stage' = stage /\ stopPc = "logging" /\ killing' = current
          /\ ~restartTimer' /\ startPc' = startPc
        BY <1>10 DEF StopMarks
    <2>2. CASE Exited(current)
        <3>1. state' = "stopped" /\ stopPc' = "done" /\ ~Live'
            BY <1>1, <1>3, <1>10, <2>2 DEF StopMarks
        <3> QED BY <1>6, <3>1 DEF ShutdownInv, LiveState, KillsLast, LateOnly
    <2>3. CASE ~Exited(current)
        <3>1. state' = "stopping" /\ stopPc' = "killing"
            BY <1>10, <2>3 DEF StopMarks
        <3>2. ~Owed'
            BY <1>4, <2>1, <2>3 DEF OrderInv, OneOwed, Owed
        <3> QED BY <1>1, <1>5, <1>6, <2>1, <3>1, <3>2
                DEF ShutdownInv, LiveState, KillsLast, LateOnly, Returned
    <2> QED BY <2>2, <2>3
<1>11. CASE StopKillReturns
    <2>1. killing = current /\ state \in {"stopping", "stopped"}
        BY <1>11 DEF StopKillReturns, ShutdownInv, KillsLast
    <2>2. KillResolves(current) /\ stopPc' = "done"
        BY <1>11, <2>1 DEF StopKillReturns
    <2>3. ~Live'
        <3>1. CASE Exited(current)
            BY <1>1, <1>3, <3>1
        <3>2. CASE ~Exited(current)
            <4>1. SigKill(current) /\ current \in Child
                BY <1>2, <2>2, <3>2, MonitorAssumption DEF KillResolves, Exited, Child
            <4>2. CASE child[current] \in {"alive", "terminating"}
                <5>1. child' = [child EXCEPT ![current] = "ended"]
                    BY <4>1, <4>2 DEF SigKill
                <5> QED BY <1>1, <4>1, <5>1 DEF TypeOK, Live
            <4>3. CASE child[current] \notin {"alive", "terminating"}
                BY <1>1, <4>3 DEF Live
            <4> QED BY <4>2, <4>3
        <3> QED BY <3>1, <3>2
    <2> QED BY <1>6, <2>2, <2>3 DEF ShutdownInv, LiveState, KillsLast, LateOnly
<1> QED BY <1>7, <1>8, <1>9, <1>10, <1>11 DEF StopStep

LEMMA StepKeepsShutdown ==
    ASSUME TypeOK, OrderInv, ShutdownInv, [Next]_vars
    PROVE  ShutdownInv'
<1>1. CASE CheckStep
    <2>1. UNCHANGED <<state, restartTimer, startPc, shutdown, late>>
        BY <1>1
           DEF CheckStep, HealthTick, ProbeAnswered, ProbeFails, HealthKill,
               HealthKillReturns, monitor, history
    <2> QED BY <1>1, <2>1, CheckIsDying, DyingKeepsShutdown
<1>2. CASE \E c \in Child : ChildEnds(c) \/ GroupEnds(c) \/ ErrorEvent(c) \/ FatalLog(c)
    <2>1. /\ UNCHANGED <<restartTimer, startPc, shutdown, late>>
          /\ state' = state \/ (state \in {"running", "starting"} /\ state' = "crashed")
        BY <1>2 DEF ChildEnds, GroupEnds, ErrorEvent, FatalLog, monitor, history
    <2>2. Dying
        BY <1>2, EndedDying, UnchangedDying, TerminatedDying DEF ErrorEvent, FatalLog
    <2> QED BY <2>1, <2>2, DyingKeepsShutdown
<1>3. CASE GraceExpires \/ UNCHANGED vars
    BY <1>3, UnchangedDying, DyingKeepsShutdown DEF GraceExpires, vars, monitor, history
<1> QED BY <1>1, <1>2, <1>3, StartStepKeepsShutdown, SpawnKeepsShutdown, ExitKeepsShutdown,
           StopKeepsShutdown
        DEF Next, CheckStep, StopStep

LEMMA ShutdownInvariant == Spec => [](TypeOK /\ OrderInv /\ ShutdownInv)
<1>1. Init => ShutdownInv
    BY DEF Init, ShutdownInv, Live, LiveState, StopStage, KillsLast, LateOnly, Returned
<1>2. TypeOK /\ OrderInv /\ ShutdownInv /\ [Next]_vars => ShutdownInv'
    BY StepKeepsShutdown
<1> QED BY <1>1, <1>2, HealthInvariant, PTL DEF Spec

(* The leader of every run is gone when the monitor exits, whatever it does with   *)
(* SIGTERM and whatever else is in progress, but for one spawned after the last    *)
(* stop() of the shutdown returned.                                               *)
THEOREM NoneLeftBehindCorrect == Spec => []NoneLeftBehind
<1>1. TypeOK /\ OrderInv /\ ShutdownInv => NoneLeftBehind
    <2> SUFFICES ASSUME TypeOK, OrderInv, ShutdownInv, stage = "exited",
                        NEW c \in Child, child[c] \in {"alive", "terminating"}
                 PROVE  c \in late
        BY DEF NoneLeftBehind
    <2>1. c = current /\ Live
        BY ExitIsOfCurrent DEF OrderInv, Live, Child
    <2> QED BY <2>1 DEF ShutdownInv, LateOnly, Returned
<1> QED BY <1>1, ShutdownInvariant, PTL

(* The leader of what the monitor calls running will be heard of, that of what it  *)
(* calls stopped has ended, for any number of children, faults and restarts; of    *)
(* the other processes of a group the state says nothing.                         *)
THEOREM StateIsTrueCorrect == Spec => []StateIsTrue
<1>1. TypeOK /\ OrderInv /\ HealthInv /\ ShutdownInv => StateIsTrue
    <2> SUFFICES ASSUME TypeOK, OrderInv, HealthInv, ShutdownInv PROVE StateIsTrue
        OBVIOUS
    <2>1. ASSUME NEW c \in Child, child[c] \in {"alive", "terminating"}
          PROVE  state # "stopped"
        <3>1. c = current /\ Live
            BY <2>1, ExitIsOfCurrent DEF OrderInv, Live, Child
        <3> QED BY <3>1 DEF ShutdownInv, LiveState
    <2> QED BY <2>1 DEF HealthInv, RunningIsUp, UpNow, StateIsTrue
<1> QED BY <1>1, HealthInvariant, ShutdownInvariant, PTL
================================================================================
