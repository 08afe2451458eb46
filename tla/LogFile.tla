-------------------------------- MODULE LogFile --------------------------------
(* The log file of a monitored process: what the monitor appends and trims       *)
(* (SimpleLogManager of process-monitor.ts), who reads and resets it, in the      *)
(* monitor or from the command line (LogCommands.get of cli-tools.ts), and the    *)
(* lock file among them (FileLock, written out a second time in cli-tools.ts).    *)
(*                                                                                *)
(* An action is one call of the file system. A line is a number and a file the    *)
(* set of its lines: appends are not awaited, so they keep no order. An operation  *)
(* runs in a process of its own, which may be killed (the sandbox service runs     *)
(* the command line under a timeout). The lock of a killed process is stale after  *)
(* a while, that of a live one never: no operation takes half a minute.            *)
(* An operator named Mut... is the operator after it with a plausible mistake.    *)
EXTENDS Naturals, FiniteSets

CONSTANTS
    Operations,     \* operations on the log, each run once
    MaxRetries,     \* attempts to acquire the lock
    MaxLines,       \* bound: lines appended
    MaxTrims,       \* bound: trims
    MaxCrashes,     \* bound: processes killed
    MaxFiles        \* bound: files that exist at once

Line == 1..MaxLines
File == 1..MaxFiles
Kind == {"get", "cliReset", "monitorReset", "cleanup"}
NoOne == "no one"

ASSUME LogAssumption ==
    /\ MaxRetries \in Nat \ {0}
    /\ MaxLines \in Nat
    /\ MaxTrims \in Nat
    /\ MaxCrashes \in Nat
    /\ MaxFiles \in Nat \ {0}
    /\ NoOne \notin Operations

VARIABLES
    log,            \* the file the path of the log leads to, 0 for none
    content,        \* of the files
    line, lineFile, \* the appends, and the file each has opened
    lock,           \* who created the lock file
    lockState,      \* what it holds: "none" without a file, "empty", "fresh", "stale"
    pc, kind, attempt,
    acquired,       \* the operation has to release the lock
    temp,           \* the file of the temporary path of an operation
    logs,           \* what an operation has read of it
    trim, trimmed,  \* the trim, and the lines it keeps
    trims, crashes,
    \* what has happened, for the properties
    times,          \* how often a line was handed out by a reset: read, its file removed
    revived,        \* lines a trim wrote back after a reset had taken them
    dropped         \* lines truncated, trimmed, left behind or written too late

appends == <<line, lineFile>>
locking == <<lock, lockState, acquired, attempt>>
trimming == <<trim, trimmed, trims>>
history == <<times, revived, dropped>>
moved == <<temp, logs>>
vars == <<log, content, appends, locking, pc, kind, moved, trimming, crashes, history>>

TypeOK ==
    /\ log \in 0..MaxFiles
    /\ content \in [File -> SUBSET Line]
    /\ line \in [Line -> {"none", "opened", "written"}]
    /\ lineFile \in [Line -> 0..MaxFiles]
    /\ lock \in Operations \union {NoOne}
    /\ lockState \in {"none", "empty", "fresh", "stale"}
    /\ lockState = "none" <=> lock = NoOne
    /\ pc \in [Operations -> {"acquire", "exists", "created", "steal", "work", "renamed",
                              "reading", "removing", "release", "done", "killed"}]
    /\ kind \in [Operations -> Kind]
    /\ attempt \in [Operations -> 0..MaxRetries]
    /\ acquired \in [Operations -> BOOLEAN]
    /\ temp \in [Operations -> 0..MaxFiles]
    /\ logs \in [Operations -> SUBSET Line]
    /\ trim \in {"idle", "read"}
    /\ trimmed \subseteq Line
    /\ trims \in 0..MaxTrims
    /\ crashes \in 0..MaxCrashes
    /\ times \in [Line -> Nat]
    /\ revived \subseteq Line
    /\ dropped \subseteq Line

Init ==
    /\ log = 0
    /\ content = [f \in File |-> {}]
    /\ line = [l \in Line |-> "none"]
    /\ lineFile = [l \in Line |-> 0]
    /\ lock = NoOne /\ lockState = "none"
    /\ pc = [o \in Operations |-> "acquire"]
    /\ kind \in [Operations -> Kind]
    /\ Cardinality({o \in Operations : kind[o] = "cleanup"}) <= 1
    /\ attempt = [o \in Operations |-> 0]
    /\ acquired = [o \in Operations |-> FALSE]
    /\ temp = [o \in Operations |-> 0]
    /\ logs = [o \in Operations |-> {}]
    /\ trim = "idle" /\ trimmed = {} /\ trims = 0
    /\ crashes = 0
    /\ times = [l \in Line |-> 0]
    /\ revived = {}
    /\ dropped = {}

(* A file exists while a path leads to it or someone has it open. *)
Named(f) == f = log \/ \E o \in Operations : temp[o] = f
Opened(f) == \E l \in Line : line[l] = "opened" /\ lineFile[l] = f

NewFile(f) ==
    /\ ~Named(f) /\ ~Opened(f)
    /\ \A i \in 1..(f - 1) : Named(i) \/ Opened(i)

Goes(o, place) == pc' = [pc EXCEPT ![o] = place]

--------------------------------------------------------------------------------
(* appendLog: appendFile opens the path, creating the file, and then writes.     *)
AppendOpens(l) ==
    /\ line[l] = "none" /\ \A k \in 1..(l - 1) : line[k] # "none"
    /\ line' = [line EXCEPT ![l] = "opened"]
    /\ \/ /\ log # 0
          /\ lineFile' = [lineFile EXCEPT ![l] = log]
          /\ UNCHANGED <<log, content>>
       \/ /\ log = 0
          /\ \E f \in File :
                /\ NewFile(f)
                /\ log' = f
                /\ content' = [content EXCEPT ![f] = {}]
                /\ lineFile' = [lineFile EXCEPT ![l] = f]
    /\ UNCHANGED <<locking, pc, kind, moved, trimming, crashes, history>>

AppendWrites(l) ==
    LET f == lineFile[l]
    IN /\ line[l] = "opened"
       /\ line' = [line EXCEPT ![l] = "written"]
       /\ lineFile' = [lineFile EXCEPT ![l] = 0]
       /\ \/ /\ Named(f)
             /\ content' = [content EXCEPT ![f] = @ \union {l}]
             /\ UNCHANGED dropped
          \/ /\ ~Named(f)
             /\ dropped' = dropped \union {l}
             /\ UNCHANGED content
       /\ UNCHANGED <<log, locking, pc, kind, moved, trimming, crashes, times, revived>>

(* trimLogFile, after every hundredth append and without the lock: it reads the   *)
(* file, keeps the last lines, which of a file too large may be all of them, and  *)
(* renames its own file over the log.                                             *)
TrimReads ==
    /\ trim = "idle" /\ trims < MaxTrims
    /\ log # 0 /\ content[log] # {}
    /\ trim' = "read"
    /\ trims' = trims + 1
    /\ \E l \in 1..(MaxLines + 1) : trimmed' = {k \in content[log] : l <= k}
    /\ UNCHANGED <<log, content, appends, locking, pc, kind, moved, crashes, history>>

TrimRenames ==
    /\ trim = "read"
    /\ trim' = "idle"
    /\ trimmed' = {}
    /\ \E f \in File :
          /\ NewFile(f)
          /\ log' = f
          /\ content' = [i \in File |-> IF i = f THEN trimmed ELSE IF i = log THEN {} ELSE content[i]]
    /\ \/ /\ log = 0
          /\ revived' = revived \union trimmed
          /\ UNCHANGED dropped
       \/ /\ log # 0
          /\ revived' = revived \union (trimmed \ content[log])
          /\ dropped' = dropped \union (content[log] \ trimmed)
    /\ UNCHANGED <<appends, locking, pc, kind, moved, trims, crashes, times>>

--------------------------------------------------------------------------------
(* FileLock.acquire, and acquireLock of the command line.                        *)

(* writeFile with flag wx creates the file and then writes its owner and time. *)
LockCreated(o) ==
    /\ pc[o] = "acquire" /\ attempt[o] < MaxRetries
    /\ lockState = "none"
    /\ lock' = o /\ lockState' = "empty"
    /\ Goes(o, "created")
    /\ UNCHANGED <<log, content, appends, acquired, attempt, kind, moved, trimming, crashes,
                   history>>

MutLockWritten(o) ==
    /\ pc[o] = "created"
    /\ lockState' = "fresh"
    /\ acquired' = [acquired EXCEPT ![o] = TRUE]
    /\ attempt' = [attempt EXCEPT ![o] = 0]
    /\ Goes(o, "work")
    /\ UNCHANGED <<log, content, appends, lock, kind, moved, trimming, crashes, history>>

LockWritten(o) ==
    /\ pc[o] = "created"
    /\ lockState' = IF lock = o THEN "fresh" ELSE lockState
    /\ acquired' = [acquired EXCEPT ![o] = TRUE]
    /\ attempt' = [attempt EXCEPT ![o] = 0]
    /\ Goes(o, "work")
    /\ UNCHANGED <<log, content, appends, lock, kind, moved, trimming, crashes, history>>

LockExists(o) ==
    /\ pc[o] = "acquire" /\ attempt[o] < MaxRetries
    /\ lockState # "none"
    /\ Goes(o, "exists")
    /\ UNCHANGED <<log, content, appends, locking, kind, moved, trimming, crashes, history>>

(* Any other error ends the operation: acquire() throws, the command line gives up.*)
LockFails(o) ==
    /\ pc[o] = "acquire" /\ attempt[o] < MaxRetries
    /\ attempt' = [attempt EXCEPT ![o] = 0]
    /\ Goes(o, "done")
    /\ UNCHANGED <<log, content, appends, lock, lockState, acquired, kind, moved, trimming,
                   crashes, history>>

(* A lock that is gone when it is read, or has no time in it, is waited for like  *)
(* a fresh one.                                                                   *)
LockRead(o) ==
    /\ pc[o] = "exists"
    /\ \/ /\ lockState = "stale"
          /\ Goes(o, "steal")
          /\ UNCHANGED attempt
       \/ /\ lockState # "stale"
          /\ attempt' = [attempt EXCEPT ![o] = @ + 1]
          /\ Goes(o, "acquire")
    /\ UNCHANGED <<log, content, appends, lock, lockState, acquired, kind, moved, trimming,
                   crashes, history>>

(* The file removed need not be the one that was read. *)
StaleLockRemoved(o) ==
    /\ pc[o] = "steal"
    /\ lock' = NoOne /\ lockState' = "none"
    /\ Goes(o, "acquire")
    /\ attempt' = [attempt EXCEPT ![o] = @ + 1]
    /\ UNCHANGED <<log, content, appends, acquired, kind, moved, trimming, crashes, history>>

(* Readers return without the logs; a cleanup goes on without the lock. *)
LockGivenUp(o) ==
    /\ pc[o] = "acquire" /\ attempt[o] = MaxRetries
    /\ attempt' = [attempt EXCEPT ![o] = 0]
    /\ Goes(o, IF kind[o] = "cleanup" THEN "work" ELSE "done")
    /\ UNCHANGED <<log, content, appends, lock, lockState, acquired, kind, moved, trimming,
                   crashes, history>>

MutReleased(o) ==
    /\ pc[o] = "release"
    /\ lock' = NoOne /\ lockState' = "none"
    /\ acquired' = [acquired EXCEPT ![o] = FALSE]
    /\ Goes(o, "done")
    /\ UNCHANGED <<log, content, appends, attempt, kind, moved, trimming, crashes, history>>

Released(o) ==
    /\ pc[o] = "release"
    /\ IF acquired[o] THEN lock' = NoOne /\ lockState' = "none" ELSE UNCHANGED <<lock, lockState>>
    /\ acquired' = [acquired EXCEPT ![o] = FALSE]
    /\ Goes(o, "done")
    /\ UNCHANGED <<log, content, appends, attempt, kind, moved, trimming, crashes, history>>

(* Half a minute after its owner was killed, unless it was killed before the time *)
(* was written.                                                                   *)
LockAges ==
    /\ lockState = "fresh" /\ pc[lock] = "killed"
    /\ lockState' = "stale"
    /\ UNCHANGED <<log, content, appends, lock, acquired, attempt, pc, kind, moved, trimming,
                   crashes, history>>

--------------------------------------------------------------------------------
(* The operations under the lock.                                                *)

Got(o) ==
    /\ pc[o] = "work" /\ kind[o] = "get"
    /\ Goes(o, "release")
    /\ UNCHANGED <<log, content, appends, locking, kind, moved, trimming, crashes, history>>

CleanedUp(o) ==
    /\ pc[o] = "work" /\ kind[o] = "cleanup"
    /\ log' = 0
    /\ dropped' = IF log = 0 THEN dropped ELSE dropped \union content[log]
    /\ content' = [f \in File |-> IF f = log THEN {} ELSE content[f]]
    /\ Goes(o, "release")
    /\ UNCHANGED <<appends, locking, kind, moved, trimming, crashes, times, revived>>

(* A reset moves the log to a path of its own, *)
Renamed(o) ==
    /\ pc[o] = "work" /\ kind[o] \in {"cliReset", "monitorReset"}
    /\ log' = 0
    /\ temp' = [temp EXCEPT ![o] = log]
    /\ Goes(o, IF log = 0 THEN "release" ELSE "renamed")
    /\ UNCHANGED <<content, appends, locking, kind, logs, trimming, crashes, history>>

(* makes an empty log: the monitor only if there is none, *)
MutMonitorEmpties(o) ==
    /\ pc[o] = "renamed" /\ kind[o] = "monitorReset"
    /\ \/ log # 0 /\ UNCHANGED log /\ content' = [content EXCEPT ![log] = {}]
       \/ /\ log = 0
          /\ \E f \in File : NewFile(f) /\ log' = f /\ content' = [content EXCEPT ![f] = {}]
    /\ Goes(o, "reading")
    /\ UNCHANGED <<appends, locking, kind, moved, trimming, crashes, history>>

MonitorEmpties(o) ==
    /\ pc[o] = "renamed" /\ kind[o] = "monitorReset"
    /\ \/ log # 0 /\ UNCHANGED <<log, content>>
       \/ /\ log = 0
          /\ \E f \in File : NewFile(f) /\ log' = f /\ content' = [content EXCEPT ![f] = {}]
    /\ Goes(o, "reading")
    /\ UNCHANGED <<appends, locking, kind, moved, trimming, crashes, history>>

(* the command line whatever was appended meanwhile, *)
CliEmpties(o) ==
    /\ pc[o] = "renamed" /\ kind[o] = "cliReset"
    /\ \/ /\ log # 0 /\ UNCHANGED log
          /\ content' = [content EXCEPT ![log] = {}]
          /\ dropped' = dropped \union content[log]
       \/ /\ log = 0
          /\ \E f \in File : NewFile(f) /\ log' = f /\ content' = [content EXCEPT ![f] = {}]
          /\ UNCHANGED dropped
    /\ Goes(o, "reading")
    /\ UNCHANGED <<appends, locking, kind, moved, trimming, crashes, times, revived>>

(* and reads what it moved, *)
TempRead(o) ==
    /\ pc[o] = "reading"
    /\ logs' = [logs EXCEPT ![o] = content[temp[o]]]
    /\ Goes(o, "removing")
    /\ UNCHANGED <<log, content, appends, locking, kind, temp, trimming, crashes, history>>

(* removes it, with what was appended since, and has the lines to hand out. *)
MutHandedOut(o) ==
    /\ pc[o] = "removing"
    /\ times' = [l \in Line |-> IF l \in logs[o] THEN times[l] + 1 ELSE times[l]]
    /\ log' = temp[o]
    /\ temp' = [temp EXCEPT ![o] = 0]
    /\ logs' = [logs EXCEPT ![o] = {}]
    /\ Goes(o, "release")
    /\ UNCHANGED <<content, appends, locking, kind, trimming, crashes, revived, dropped>>

HandedOut(o) ==
    /\ pc[o] = "removing"
    /\ times' = [l \in Line |-> IF l \in logs[o] THEN times[l] + 1 ELSE times[l]]
    /\ dropped' = dropped \union (content[temp[o]] \ logs[o])
    /\ temp' = [temp EXCEPT ![o] = 0]
    /\ logs' = [logs EXCEPT ![o] = {}]
    /\ content' = [content EXCEPT ![temp[o]] = {}]
    /\ Goes(o, "release")
    /\ UNCHANGED <<log, appends, locking, kind, trimming, crashes, revived>>

(* A killed process leaves its files, the lock and the temporary one. A lock file  *)
(* created and not written, for want of space, is as if it were killed there.     *)
Killed(o) ==
    /\ crashes < MaxCrashes /\ pc[o] \notin {"done", "killed"}
    /\ crashes' = crashes + 1
    /\ Goes(o, "killed")
    /\ logs' = [logs EXCEPT ![o] = {}]
    /\ attempt' = [attempt EXCEPT ![o] = 0]
    /\ acquired' = [acquired EXCEPT ![o] = FALSE]
    /\ UNCHANGED <<log, content, appends, lock, lockState, kind, temp, trimming, history>>

--------------------------------------------------------------------------------
Locking(o) ==
    \/ LockCreated(o) \/ LockWritten(o) \/ LockExists(o) \/ LockRead(o) \/ LockFails(o)
    \/ StaleLockRemoved(o) \/ LockGivenUp(o) \/ Released(o)

Working(o) ==
    \/ Got(o) \/ CleanedUp(o) \/ Renamed(o) \/ MonitorEmpties(o) \/ CliEmpties(o)
    \/ TempRead(o) \/ HandedOut(o)

Next ==
    \/ \E l \in Line : AppendOpens(l) \/ AppendWrites(l)
    \/ TrimReads \/ TrimRenames
    \/ \E o \in Operations : Locking(o) \/ Working(o) \/ Killed(o)
    \/ LockAges

Spec == Init /\ [][Next]_vars

--------------------------------------------------------------------------------
(* Who is between acquire() and release().                                       *)
Holders ==
    {o \in Operations : acquired[o]
                       /\ pc[o] \in {"work", "renamed", "reading", "removing", "release"}}

(* While nobody was killed the lock excludes: at most one process holds it, and    *)
(* the file is there exactly while one holds it or takes it. Two processes that    *)
(* find the same stale lock may remove each other's.                               *)
LockIsHeld ==
    crashes = 0 =>
        /\ Cardinality(Holders) <= 1
        /\ lockState # "none" <=> \E o \in Operations : pc[o] = "created" \/ o \in Holders

(* No line is handed out by two resets, whatever became of the lock, unless a trim *)
(* had read it before the first and wrote it back.                                 *)
HandedOutOnce == \A l \in Line : times[l] <= 1 \/ l \in revived

(* A written line is in the log, in the hands of a reset, handed out, or among the *)
(* dropped: truncated by the command line, trimmed, cleaned up, or written to a    *)
(* file that was taken meanwhile. A reset of the monitor drops none by itself.     *)
Accounted ==
    \A l \in Line :
        line[l] = "written" =>
            \/ \E f \in File : Named(f) /\ l \in content[f]
            \/ times[l] > 0
            \/ l \in dropped
================================================================================
