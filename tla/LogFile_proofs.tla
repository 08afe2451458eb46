---------------------------- MODULE LogFile_proofs ----------------------------
(* Theorems of LogFile, for any number of operations, attempts, lines, trims and *)
(* killed processes.                                                             *)
EXTENDS LogFile, FiniteSetTheorems, TLAPS

Place == {"acquire", "exists", "created", "steal", "work", "renamed", "reading", "removing",
          "release", "done", "killed"}

--------------------------------------------------------------------------------
(* Types. A process that reads a lock, or removes a stale one, has attempts left;   *)
(* it is killed at any place.                                                      *)
AttemptsLeft == \A o \in Operations : pc[o] \in {"exists", "steal"} => attempt[o] < MaxRetries

LogTypes ==
    /\ log \in 0..MaxFiles
    /\ content \in [File -> SUBSET Line]
    /\ line \in [Line -> {"none", "opened", "written"}]
    /\ lineFile \in [Line -> 0..MaxFiles]
    /\ temp \in [Operations -> 0..MaxFiles]
    /\ logs \in [Operations -> SUBSET Line]
    /\ trim \in {"idle", "read"}
    /\ trimmed \subseteq Line
    /\ trims \in 0..MaxTrims
    /\ times \in [Line -> Nat]
    /\ revived \subseteq Line
    /\ dropped \subseteq Line

LockTypes ==
    /\ lock \in Operations \union {NoOne}
    /\ lockState \in {"none", "empty", "fresh", "stale"}
    /\ lockState = "none" <=> lock = NoOne
    /\ pc \in [Operations -> Place]
    /\ kind \in [Operations -> Kind]
    /\ attempt \in [Operations -> 0..MaxRetries]
    /\ acquired \in [Operations -> BOOLEAN]
    /\ crashes \in 0..MaxCrashes

LEMMA TypesSplit == TypeOK <=> LogTypes /\ LockTypes
BY DEF TypeOK, LogTypes, LockTypes, Place

LEMMA InitTypes == Init => TypeOK /\ AttemptsLeft
<1> SUFFICES ASSUME Init PROVE TypeOK /\ AttemptsLeft
    OBVIOUS
<1>1. LogTypes
    BY LogAssumption DEF Init, LogTypes
<1>2. LockTypes /\ AttemptsLeft
    BY LogAssumption DEF Init, LockTypes, AttemptsLeft, Place
<1> QED BY <1>1, <1>2, TypesSplit

LEMMA LockingKeepsTypes ==
    ASSUME LockTypes, AttemptsLeft, NEW o \in Operations, Locking(o)
    PROVE  LockTypes' /\ AttemptsLeft'
<1> USE LogAssumption DEF LockTypes, AttemptsLeft, Place, Goes
<1>1. CASE LockCreated(o)
    BY <1>1 DEF LockCreated
<1>2. CASE LockWritten(o)
    <2>1. 0 \in 0..MaxRetries
        OBVIOUS
    <2> QED BY <1>2, <2>1 DEF LockWritten
<1>3. CASE LockRead(o)
    <2>1. attempt[o] < MaxRetries /\ attempt[o] + 1 \in 0..MaxRetries
        BY <1>3 DEF LockRead
    <2>2. CASE /\ lockState = "stale" /\ Goes(o, "steal") /\ UNCHANGED attempt
        BY <1>3, <2>1, <2>2 DEF LockRead
    <2>3. CASE /\ attempt' = [attempt EXCEPT ![o] = @ + 1] /\ Goes(o, "acquire")
        <3>1. /\ UNCHANGED <<lock, lockState, kind, acquired, crashes>>
              /\ attempt' \in [Operations -> 0..MaxRetries]
              /\ pc' \in [Operations -> Place]
            BY <1>3, <2>1, <2>3 DEF LockRead
        <3>2. AttemptsLeft'
            BY <2>3
        <3> QED BY <3>1, <3>2
    <2> QED BY <1>3, <2>2, <2>3 DEF LockRead
<1>7. CASE LockExists(o)
    BY <1>7 DEF LockExists, locking
<1>8. CASE LockFails(o)
    <2>1. 0 \in 0..MaxRetries
        OBVIOUS
    <2>2. pc' \in [Operations -> Place] /\ AttemptsLeft'
        BY <1>8 DEF LockFails
    <2> QED BY <1>8, <2>1, <2>2 DEF LockFails
<1>4. CASE StaleLockRemoved(o)
    <2>1. attempt' = [attempt EXCEPT ![o] = attempt[o] + 1] /\ attempt[o] + 1 \in 0..MaxRetries
        BY <1>4 DEF StaleLockRemoved
    <2>2. attempt' \in [Operations -> 0..MaxRetries]
        BY <2>1
    <2>3. AttemptsLeft'
        BY <1>4, <2>1 DEF StaleLockRemoved
    <2> QED BY <1>4, <2>2, <2>3 DEF StaleLockRemoved
<1>5. CASE LockGivenUp(o)
    <2>1. 0 \in 0..MaxRetries
        OBVIOUS
    <2>2. pc' \in [Operations -> Place] /\ AttemptsLeft'
        BY <1>5 DEF LockGivenUp
    <2> QED BY <1>5, <2>1, <2>2 DEF LockGivenUp
<1>6. CASE Released(o)
    BY <1>6 DEF Released
<1> QED BY <1>1, <1>2, <1>3, <1>4, <1>5, <1>6, <1>7, <1>8 DEF Locking

LEMMA OtherKeepsLockTypes ==
    ASSUME LockTypes, AttemptsLeft, [Next]_vars,
           ~\E o \in Operations : Locking(o)
    PROVE  LockTypes' /\ AttemptsLeft'
<1> USE DEF LockTypes, AttemptsLeft, Place
<1>1. CASE UNCHANGED <<locking, pc, kind, crashes>>
    BY <1>1 DEF locking
<1>2. ASSUME NEW o \in Operations, Working(o)
      PROVE  LockTypes' /\ AttemptsLeft'
    <2>1. /\ UNCHANGED <<locking, kind, crashes>>
          /\ \E p \in {"release", "renamed", "reading", "removing"} : pc' = [pc EXCEPT ![o] = p]
        BY <1>2
           DEF Working, Got, CleanedUp, Renamed, MonitorEmpties, CliEmpties, TempRead, HandedOut, Goes
    <2> QED BY <2>1 DEF locking
<1>3. ASSUME NEW o \in Operations, Killed(o)
      PROVE  LockTypes' /\ AttemptsLeft'
    <2>1. crashes' \in 0..MaxCrashes /\ 0 \in 0..MaxRetries
        BY <1>3, LogAssumption DEF Killed
    <2>2. pc' \in [Operations -> Place] /\ AttemptsLeft'
        BY <1>3 DEF Killed, Goes
    <2> QED BY <1>3, <2>1, <2>2 DEF Killed
<1>4. CASE LockAges
    BY <1>4, LogAssumption DEF LockAges
<1>5. CASE (\E l \in Line : AppendOpens(l) \/ AppendWrites(l)) \/ TrimReads \/ TrimRenames
    BY <1>1, <1>5 DEF AppendOpens, AppendWrites, TrimReads, TrimRenames
<1>6. CASE UNCHANGED vars
    BY <1>1, <1>6 DEF vars
<1> QED BY <1>2, <1>3, <1>4, <1>5, <1>6 DEF Next

(* What a step does to the log: nothing, an append, a trim or the work of an       *)
(* operation.                                                                      *)
LogVars == <<log, content, appends, temp, trimming, history>>
LogsKept == UNCHANGED logs \/ \E o \in Operations : logs' = [logs EXCEPT ![o] = {}]

LEMMA LockLeavesLog ==
    ASSUME [Next]_vars
    PROVE  \/ UNCHANGED LogVars /\ LogsKept
           \/ \E l \in Line : AppendOpens(l) \/ AppendWrites(l)
           \/ TrimReads \/ TrimRenames
           \/ \E o \in Operations : Working(o)
<1>1. ASSUME NEW o \in Operations, Locking(o) \/ Killed(o)
      PROVE  UNCHANGED LogVars /\ LogsKept
    BY <1>1
       DEF Locking, LockCreated, LockWritten, LockExists, LockRead, LockFails, StaleLockRemoved, LockGivenUp,
           Released, Killed, LogVars, LogsKept, locking, moved
<1>2. LockAges \/ UNCHANGED vars => UNCHANGED LogVars /\ LogsKept
    BY DEF LockAges, vars, LogVars, LogsKept, moved
<1> QED BY <1>1, <1>2 DEF Next

(* The files an operation works on. *)
TempHeld ==
    \A o \in Operations :
        /\ pc[o] \in {"renamed", "reading", "removing"} => temp[o] # 0
        /\ temp[o] # 0 => pc[o] \in {"renamed", "reading", "removing", "killed"}

LEMMA StepKeepsTemp ==
    ASSUME LogTypes, LockTypes, TempHeld, [Next]_vars
    PROVE  TempHeld'
<1> USE DEF LogTypes, LockTypes, TempHeld, Goes
<1>1. CASE UNCHANGED <<pc, temp>>
    BY <1>1
<1>2. ASSUME NEW o \in Operations, Locking(o)
      PROVE  TempHeld'
    <2>1. /\ pc[o] \notin {"renamed", "reading", "removing", "killed"} /\ UNCHANGED temp
          /\ \E p \in Place \ {"renamed", "reading", "removing"} : pc' = [pc EXCEPT ![o] = p]
        BY <1>2
           DEF Locking, LockCreated, LockWritten, LockExists, LockRead, LockFails, StaleLockRemoved, LockGivenUp,
               Released, Place, moved
    <2> QED BY <2>1
<1>3. ASSUME NEW o \in Operations, Working(o)
      PROVE  TempHeld'
    <2>1. CASE Got(o) \/ CleanedUp(o)
        BY <1>3, <2>1 DEF Got, CleanedUp, moved
    <2>2. CASE Renamed(o)
        BY <2>2 DEF Renamed
    <2>3. CASE MonitorEmpties(o) \/ CliEmpties(o)
        BY <2>3 DEF MonitorEmpties, CliEmpties, moved
    <2>4. CASE TempRead(o)
        BY <2>4 DEF TempRead
    <2>5. CASE HandedOut(o)
        BY <2>5 DEF HandedOut
    <2> QED BY <1>3, <2>1, <2>2, <2>3, <2>4, <2>5 DEF Working
<1>4. ASSUME NEW o \in Operations, Killed(o)
      PROVE  TempHeld'
    BY <1>4 DEF Killed
<1>5. CASE \/ \E l \in Line : AppendOpens(l) \/ AppendWrites(l)
           \/ TrimReads \/ TrimRenames \/ LockAges \/ UNCHANGED vars
    BY <1>1, <1>5 DEF AppendOpens, AppendWrites, TrimReads, TrimRenames, LockAges, vars, moved
<1> QED BY <1>2, <1>3, <1>4, <1>5 DEF Next

(* A step that leaves the log, makes a new one, or empties it. *)
LEMMA EmptiedTypes ==
    ASSUME LogTypes,
           \/ UNCHANGED <<log, content>>
           \/ UNCHANGED log /\ content' = [content EXCEPT ![log] = {}]
           \/ \E f \in File : log' = f /\ content' = [content EXCEPT ![f] = {}]
    PROVE  log' \in 0..MaxFiles /\ content' \in [File -> SUBSET Line]
<1>1. CASE UNCHANGED <<log, content>>
    BY <1>1 DEF LogTypes
<1>2. CASE UNCHANGED log /\ content' = [content EXCEPT ![log] = {}]
    BY <1>2 DEF LogTypes
<1>3. ASSUME NEW f \in File, log' = f, content' = [content EXCEPT ![f] = {}]
      PROVE  log' \in 0..MaxFiles /\ content' \in [File -> SUBSET Line]
    BY <1>3, LogAssumption DEF LogTypes, File
<1> QED BY <1>1, <1>2, <1>3

LEMMA StepKeepsLogTypes ==
    ASSUME LogTypes, LockTypes, TempHeld, [Next]_vars
    PROVE  LogTypes'
<1> USE DEF LogTypes
<1>1. CASE UNCHANGED LogVars /\ LogsKept
    <2>1. logs' \in [Operations -> SUBSET Line]
        BY <1>1 DEF LogsKept
    <2> QED BY <1>1, <2>1 DEF LogVars, appends, trimming, history
<1>2. ASSUME NEW l \in Line, AppendOpens(l)
      PROVE  LogTypes'
    <2>1. log' \in 0..MaxFiles /\ content' \in [File -> SUBSET Line]
        BY <1>2, EmptiedTypes DEF AppendOpens
    <2>2. line' \in [Line -> {"none", "opened", "written"}]
        BY <1>2 DEF AppendOpens
    <2>3. \E f \in 0..MaxFiles : lineFile' = [lineFile EXCEPT ![l] = f]
        BY <1>2, LogAssumption DEF AppendOpens, File
    <2>4. lineFile' \in [Line -> 0..MaxFiles]
        BY <2>3
    <2> QED BY <1>2, <2>1, <2>2, <2>4 DEF AppendOpens, trimming, history, moved
<1>3. ASSUME NEW l \in Line, AppendWrites(l)
      PROVE  LogTypes'
    <2>1. content' \in [File -> SUBSET Line] /\ dropped' \subseteq Line
        BY <1>3 DEF AppendWrites
    <2>2. lineFile' \in [Line -> 0..MaxFiles] /\ line' \in [Line -> {"none", "opened", "written"}]
        BY <1>3, LogAssumption DEF AppendWrites
    <2> QED BY <1>3, <2>1, <2>2 DEF AppendWrites, trimming, moved
<1>4. CASE TrimReads
    <2>1. trims' \in 0..MaxTrims
        BY <1>4, LogAssumption DEF TrimReads
    <2>2. trimmed' \subseteq Line
        BY <1>4, LogAssumption DEF TrimReads, File
    <2> QED BY <1>4, <2>1, <2>2 DEF TrimReads, appends, history, moved
<1>5. CASE TrimRenames
    <2>1. PICK f \in File :
             /\ log' = f
             /\ content' = [i \in File |-> IF i = f THEN trimmed ELSE IF i = log THEN {} ELSE content[i]]
        BY <1>5 DEF TrimRenames
    <2>2. content' \in [File -> SUBSET Line] /\ log' \in 0..MaxFiles
        BY <2>1 DEF File
    <2>3. revived' \subseteq Line /\ dropped' \subseteq Line
        <3>1. CASE log = 0
            BY <1>5, <3>1 DEF TrimRenames
        <3>2. CASE log # 0
            <4>1. content[log] \subseteq Line
                BY <3>2, LogAssumption DEF File
            <4> QED BY <1>5, <3>2, <4>1 DEF TrimRenames
        <3> QED BY <3>1, <3>2
    <2> QED BY <1>5, <2>2, <2>3 DEF TrimRenames, appends, moved
<1>6. ASSUME NEW o \in Operations, Working(o)
      PROVE  LogTypes'
    <2>0. 0 \in 0..MaxFiles
        BY LogAssumption
    <2>1. CASE Got(o)
        BY <1>1, <2>1 DEF Got, LogVars, LogsKept, moved
    <2>2. CASE CleanedUp(o)
        <3>1. log' \in 0..MaxFiles /\ content' \in [File -> SUBSET Line]
            BY <2>0, <2>2 DEF CleanedUp
        <3>2. dropped' \subseteq Line
            <4>1. CASE log = 0
                BY <2>2, <4>1 DEF CleanedUp
            <4>2. CASE log # 0
                <5>1. content[log] \subseteq Line
                    BY <4>2, LogAssumption DEF File
                <5> QED BY <2>2, <4>2, <5>1 DEF CleanedUp
            <4> QED BY <4>1, <4>2
        <3> QED BY <2>2, <3>1, <3>2 DEF CleanedUp, appends, trimming, moved
    <2>3. CASE Renamed(o)
        BY <2>0, <2>3 DEF Renamed, appends, trimming, history
    <2>4. CASE MonitorEmpties(o)
        <3>1. log' \in 0..MaxFiles /\ content' \in [File -> SUBSET Line]
            BY <2>4, EmptiedTypes DEF MonitorEmpties
        <3> QED BY <2>4, <3>1 DEF MonitorEmpties, appends, trimming, history, moved
    <2>5. CASE CliEmpties(o)
        <3>1. log' \in 0..MaxFiles /\ content' \in [File -> SUBSET Line]
            BY <2>5, EmptiedTypes DEF CliEmpties
        <3>2. dropped' \subseteq Line
            BY <2>5 DEF CliEmpties, File
        <3> QED BY <2>5, <3>1, <3>2 DEF CliEmpties, appends, trimming, moved
    <2>6. CASE HandedOut(o)
        <3>1. times' \in [Line -> Nat]
            BY <2>6 DEF HandedOut
        <3>2. temp[o] \in File
            BY <2>6, LogAssumption DEF HandedOut, TempHeld, File
        <3>3. dropped' \subseteq Line
            BY <2>6, <3>2 DEF HandedOut
        <3> QED BY <2>0, <2>6, <3>1, <3>3 DEF HandedOut, appends, trimming
    <2>7. CASE TempRead(o)
        <3>1. temp[o] \in File
            BY <2>7, LogAssumption DEF TempRead, TempHeld, File
        <3>2. logs' \in [Operations -> SUBSET Line]
            BY <2>7, <3>1 DEF TempRead
        <3> QED BY <2>7, <3>2 DEF TempRead, appends, trimming, history
    <2> QED BY <1>6, <2>1, <2>2, <2>3, <2>4, <2>5, <2>6, <2>7 DEF Working
<1> QED BY <1>1, <1>2, <1>3, <1>4, <1>5, <1>6, LockLeavesLog

TypesInv == TypeOK /\ AttemptsLeft /\ TempHeld

LEMMA StepKeepsTypes == TypesInv /\ [Next]_vars => TypesInv'
<1> SUFFICES ASSUME TypesInv, [Next]_vars PROVE TypesInv'
    OBVIOUS
<1>1. LogTypes /\ LockTypes /\ AttemptsLeft /\ TempHeld
    BY TypesSplit DEF TypesInv
<1>2. LockTypes' /\ AttemptsLeft'
    BY <1>1, LockingKeepsTypes, OtherKeepsLockTypes
<1>3. LogTypes' /\ TempHeld'
    BY <1>1, StepKeepsLogTypes, StepKeepsTemp
<1>4. TypeOK'
    BY <1>2, <1>3 DEF TypeOK, LogTypes, LockTypes, Place
<1> QED BY <1>2, <1>3, <1>4 DEF TypesInv

LEMMA TypesInvariant == Spec => []TypesInv
<1>1. Init => TypesInv
    BY InitTypes DEF Init, TypesInv, TempHeld
<1> QED BY <1>1, StepKeepsTypes, PTL DEF Spec

(* The log's state keeps its types, and the lock file has an owner exactly while it *)
(* exists.                                                                         *)
THEOREM TypeCorrect == Spec => []TypeOK
BY TypesInvariant, PTL DEF TypesInv

--------------------------------------------------------------------------------
(* The lock. Before any process is killed no lock is stale, and its owner is the   *)
(* one who takes or holds it; who gave up waiting holds nothing to release.        *)
Owns(o) == pc[o] = "created" \/ o \in Holders
OwnerOnly ==
    /\ lockState # "stale"
    /\ \A o \in Operations : pc[o] \notin {"steal", "killed"}
    /\ \A o \in Operations : Owns(o) => lock = o
    /\ lockState # "none" => Owns(lock)
    /\ \A o \in Operations : acquired[o] => o \in Holders
LockInv == crashes = 0 => OwnerOnly

LEMMA LockingKeepsOwner ==
    ASSUME LockTypes, OwnerOnly, NEW o \in Operations, Locking(o)
    PROVE  OwnerOnly'
<1> USE DEF LockTypes, OwnerOnly, Owns, Holders, Goes
<1>1. CASE LockCreated(o)
    <2>1. \A p \in Operations : ~Owns(p)
        BY <1>1, LogAssumption DEF LockCreated
    <2>2. /\ lock' = o /\ lockState' = "empty" /\ acquired' = acquired
          /\ pc' = [pc EXCEPT ![o] = "created"]
        BY <1>1 DEF LockCreated
    <2> QED BY <2>1, <2>2
<1>2. CASE LockWritten(o)
    <2>1. lock = o
        BY <1>2 DEF LockWritten
    <2>2. /\ lock' = o /\ lockState' = "fresh" /\ acquired' = [acquired EXCEPT ![o] = TRUE]
          /\ pc' = [pc EXCEPT ![o] = "work"]
        BY <1>2, <2>1 DEF LockWritten
    <2> QED BY <2>1, <2>2
<1>3. CASE LockExists(o) \/ LockRead(o) \/ LockFails(o)
    <2>1. ~acquired[o] /\ ~Owns(o)
        BY <1>3 DEF LockExists, LockRead, LockFails
    <2>2. /\ UNCHANGED <<lock, lockState, acquired>>
          /\ \E p \in {"exists", "acquire", "done"} : pc' = [pc EXCEPT ![o] = p]
        BY <1>3 DEF LockExists, LockRead, LockFails, locking
    <2>3. lock # o \/ lockState = "none"
        BY <2>1
    <2> QED BY <2>1, <2>2, <2>3
<1>4. CASE StaleLockRemoved(o)
    BY <1>4 DEF StaleLockRemoved
<1>5. CASE LockGivenUp(o)
    <2>1. ~acquired[o] /\ ~Owns(o)
        BY <1>5 DEF LockGivenUp
    <2>2. /\ UNCHANGED <<lock, lockState, acquired>>
          /\ \E p \in {"work", "done"} : pc' = [pc EXCEPT ![o] = p]
        BY <1>5 DEF LockGivenUp
    <2>3. lock # o \/ lockState = "none"
        BY <2>1
    <2> QED BY <2>1, <2>2, <2>3
<1>6. CASE Released(o)
    <2>1. CASE acquired[o]
        <3>1. lock = o /\ \A p \in Operations \ {o} : ~Owns(p)
            BY <2>1
        <3>2. /\ lockState' = "none" /\ acquired' = [acquired EXCEPT ![o] = FALSE]
              /\ pc' = [pc EXCEPT ![o] = "done"]
            BY <1>6, <2>1 DEF Released
        <3> QED BY <3>1, <3>2
    <2>2. CASE ~acquired[o]
        <3>1. /\ UNCHANGED <<lock, lockState>> /\ acquired' = [acquired EXCEPT ![o] = FALSE]
              /\ pc' = [pc EXCEPT ![o] = "done"] /\ ~Owns(o)
            BY <1>6, <2>2 DEF Released
        <3> QED BY <2>2, <3>1
    <2> QED BY <2>1, <2>2
<1> QED BY <1>1, <1>2, <1>3, <1>4, <1>5, <1>6 DEF Locking

LEMMA StepKeepsLock ==
    ASSUME TypesInv, LockInv, [Next]_vars
    PROVE  LockInv'
<1>0. LockTypes
    BY TypesSplit DEF TypesInv
<1>1. CASE UNCHANGED <<locking, pc, crashes>>
    BY <1>1 DEF locking, LockInv, OwnerOnly, Owns, Holders
<1>2. ASSUME NEW o \in Operations, Locking(o)
      PROVE  LockInv'
    <2>1. UNCHANGED crashes
        BY <1>2
           DEF Locking, LockCreated, LockWritten, LockExists, LockRead, LockFails, StaleLockRemoved, LockGivenUp,
               Released
    <2> QED BY <1>0, <1>2, <2>1, LockingKeepsOwner DEF LockInv
<1>3. ASSUME NEW o \in Operations, Working(o)
      PROVE  LockInv'
    <2>1. /\ UNCHANGED <<locking, crashes>>
          /\ pc[o] \in {"work", "renamed", "reading", "removing"}
          /\ \E p \in {"release", "renamed", "reading", "removing"} : pc' = [pc EXCEPT ![o] = p]
        BY <1>3
           DEF Working, Got, CleanedUp, Renamed, MonitorEmpties, CliEmpties, TempRead, HandedOut, Goes
    <2> QED BY <1>0, <2>1 DEF locking, LockTypes, LockInv, OwnerOnly, Owns, Holders
<1>4. ASSUME NEW o \in Operations, Killed(o)
      PROVE  LockInv'
    BY <1>0, <1>4 DEF Killed, LockTypes, LockInv
<1>5. CASE LockAges
    BY <1>0, <1>5, LogAssumption DEF LockAges, LockTypes, LockInv, OwnerOnly
<1>6. CASE \/ \E l \in Line : AppendOpens(l) \/ AppendWrites(l)
           \/ TrimReads \/ TrimRenames \/ UNCHANGED vars
    BY <1>1, <1>6 DEF AppendOpens, AppendWrites, TrimReads, TrimRenames, vars
<1> QED BY <1>2, <1>3, <1>4, <1>5, <1>6 DEF Next

LEMMA OwnerExcludes == ASSUME LockTypes, OwnerOnly PROVE Cardinality(Holders) <= 1
<1>1. Holders = {} \/ Holders = {lock}
    BY DEF OwnerOnly, Owns, Holders
<1>2. Cardinality({}) = 0 /\ Cardinality({lock}) = 1
    BY FS_EmptySet, FS_Singleton
<1> QED BY <1>1, <1>2

(* While nobody was killed the lock excludes, and the file is there exactly while  *)
(* one holds it or takes it, for any number of contenders.                         *)
THEOREM LockIsHeldCorrect == Spec => []LockIsHeld
<1>1. Init => LockInv
    BY DEF Init, LockInv, OwnerOnly, Owns, Holders
<1>2. TypesInv /\ LockInv /\ [Next]_vars => LockInv'
    BY StepKeepsLock
<1>3. TypesInv /\ LockInv => LockIsHeld
    <2> SUFFICES ASSUME LockTypes, OwnerOnly
                 PROVE  /\ Cardinality(Holders) <= 1
                        /\ lockState # "none" <=>
                               \E o \in Operations : pc[o] = "created" \/ o \in Holders
        BY TypesSplit DEF TypesInv, LockInv, LockIsHeld
    <2>1. lockState # "none" <=> \E o \in Operations : Owns(o)
        BY LogAssumption DEF LockTypes, OwnerOnly
    <2> QED BY <2>1, OwnerExcludes DEF Owns
<1> QED BY <1>1, <1>2, <1>3, TypesInvariant, PTL DEF Spec

--------------------------------------------------------------------------------
(* Lines. One that no trim wrote back is in one file at most, in none before it is *)
(* written and in none after it was handed out.                                    *)
Once(l) ==
    /\ times[l] <= 1
    /\ \A f \in File : l \in content[f] => times[l] = 0 /\ line[l] = "written"
    /\ \A f, g \in File : l \in content[f] /\ l \in content[g] => f = g
    /\ line[l] # "written" => times[l] = 0
OnceInv == \A l \in Line : l \in revived \/ Once(l)

(* A step that only takes lines out of files. *)
LEMMA EmptiedOnce ==
    ASSUME LogTypes, OnceInv, UNCHANGED <<line, revived, times>>,
           \A f \in File : content'[f] \subseteq content[f]
    PROVE  OnceInv'
BY DEF OnceInv, Once

LEMMA EmptiedShrinks ==
    ASSUME LogTypes,
           \/ UNCHANGED <<log, content>>
           \/ UNCHANGED log /\ content' = [content EXCEPT ![log] = {}]
           \/ \E f \in File : log' = f /\ content' = [content EXCEPT ![f] = {}]
    PROVE  \A f \in File : content'[f] \subseteq content[f]
BY DEF LogTypes

(* What a reset has read is in the file it moved until it removes it: no path leads *)
(* to that file but its own.                                                       *)
Apart ==
    /\ \A o \in Operations : temp[o] # 0 => temp[o] # log
    /\ \A o, p \in Operations : temp[o] # 0 /\ temp[o] = temp[p] => o = p
ReadKept == \A o \in Operations : pc[o] = "removing" => logs[o] \subseteq content[temp[o]]
ReadInv == Apart /\ ReadKept

LEMMA ElsewhereKeepsRead ==
    ASSUME TempHeld, ReadInv, UNCHANGED moved,
           \A o \in Operations : pc'[o] = "removing" => pc[o] = "removing",
           \A o \in Operations : temp[o] # 0 =>
               log' # temp[o] /\ content[temp[o]] \subseteq content'[temp[o]]
    PROVE  ReadInv'
BY DEF TempHeld, ReadInv, Apart, ReadKept, moved

LEMMA NewFileIsNoTemp ==
    ASSUME NEW f, NewFile(f)
    PROVE  \A o \in Operations : temp[o] # f
BY DEF NewFile, Named

(* A step that leaves the log, makes a new one, or empties it. *)
LEMMA EmptiedKeepsTemp ==
    ASSUME LogTypes, ReadInv,
           \/ UNCHANGED <<log, content>>
           \/ UNCHANGED log /\ content' = [content EXCEPT ![log] = {}]
           \/ \E f \in File : NewFile(f) /\ log' = f /\ content' = [content EXCEPT ![f] = {}],
           NEW o \in Operations, temp[o] # 0
    PROVE  log' # temp[o] /\ content[temp[o]] \subseteq content'[temp[o]]
<1>0. temp[o] # log /\ temp[o] \in File
    BY LogAssumption DEF ReadInv, Apart, LogTypes, File
<1>1. ASSUME NEW f \in File, NewFile(f), log' = f, content' = [content EXCEPT ![f] = {}]
      PROVE  log' # temp[o] /\ content[temp[o]] \subseteq content'[temp[o]]
    <2>1. temp[o] # f
        BY <1>1, NewFileIsNoTemp
    <2> QED BY <1>0, <1>1, <2>1 DEF LogTypes
<1> QED BY <1>0, <1>1 DEF LogTypes

LEMMA StepKeepsRead ==
    ASSUME TypesInv, ReadInv, [Next]_vars
    PROVE  ReadInv'
<1>0. LogTypes /\ LockTypes /\ TempHeld
    BY TypesSplit DEF TypesInv
<1>1. ASSUME UNCHANGED <<log, content, moved>>,
             \A o \in Operations : pc'[o] = "removing" => pc[o] = "removing"
      PROVE  ReadInv'
    BY <1>0, <1>1, ElsewhereKeepsRead DEF ReadInv, Apart
<1>2. ASSUME NEW l \in Line, AppendOpens(l)
      PROVE  ReadInv'
    <2>1. UNCHANGED <<pc, moved>>
        BY <1>2 DEF AppendOpens
    <2>2. \A o \in Operations : temp[o] # 0 =>
              log' # temp[o] /\ content[temp[o]] \subseteq content'[temp[o]]
        BY <1>0, <1>2, EmptiedKeepsTemp DEF AppendOpens
    <2> QED BY <1>0, <2>1, <2>2, ElsewhereKeepsRead
<1>3. ASSUME NEW l \in Line, AppendWrites(l)
      PROVE  ReadInv'
    <2>1. /\ UNCHANGED <<log, pc, moved>>
          /\ \/ UNCHANGED content
             \/ content' = [content EXCEPT ![lineFile[l]] = content[lineFile[l]] \union {l}]
        BY <1>3 DEF AppendWrites
    <2>2. \A f \in File : content[f] \subseteq content'[f]
        BY <1>0, <2>1 DEF LogTypes
    <2>3. \A o \in Operations : temp[o] # 0 => temp[o] \in File /\ temp[o] # log
        BY <1>0, LogAssumption DEF LogTypes, File, ReadInv, Apart
    <2> QED BY <1>0, <2>1, <2>2, <2>3, ElsewhereKeepsRead
<1>4. CASE TrimRenames
    <2>1. PICK f \in File :
             /\ NewFile(f) /\ log' = f
             /\ content' = [i \in File |-> IF i = f THEN trimmed ELSE IF i = log THEN {} ELSE content[i]]
        BY <1>4 DEF TrimRenames
    <2>2. UNCHANGED <<pc, moved>>
        BY <1>4 DEF TrimRenames
    <2>3. ASSUME NEW o \in Operations, temp[o] # 0
          PROVE  log' # temp[o] /\ content[temp[o]] \subseteq content'[temp[o]]
        <3>1. temp[o] # f
            BY <2>1, NewFileIsNoTemp
        <3>2. temp[o] \in File /\ temp[o] # log
            BY <1>0, <2>3, LogAssumption DEF LogTypes, File, ReadInv, Apart
        <3> QED BY <2>1, <3>1, <3>2
    <2> QED BY <1>0, <2>2, <2>3, ElsewhereKeepsRead
<1>5. ASSUME NEW o \in Operations, Locking(o)
      PROVE  ReadInv'
    <2>1. /\ UNCHANGED <<log, content, moved>>
          /\ \E p \in Place \ {"removing"} : pc' = [pc EXCEPT ![o] = p]
        BY <1>5
           DEF Locking, LockCreated, LockWritten, LockExists, LockRead, LockFails,
               StaleLockRemoved, LockGivenUp, Released, Place, Goes
    <2> QED BY <1>0, <1>1, <2>1 DEF LockTypes
<1>6. ASSUME NEW o \in Operations, Killed(o)
      PROVE  ReadInv'
    <2>1. /\ UNCHANGED <<log, content, temp>> /\ logs' = [logs EXCEPT ![o] = {}]
          /\ pc' = [pc EXCEPT ![o] = "killed"]
        BY <1>6 DEF Killed, Goes
    <2> QED BY <1>0, <2>1 DEF LogTypes, LockTypes, ReadInv, Apart, ReadKept
<1>7. ASSUME NEW o \in Operations, Working(o)
      PROVE  ReadInv'
    <2>1. CASE Got(o)
        <3>1. UNCHANGED <<log, content, moved>> /\ pc' = [pc EXCEPT ![o] = "release"]
            BY <2>1 DEF Got, Goes
        <3> QED BY <1>0, <1>1, <3>1 DEF LockTypes
    <2>2. CASE CleanedUp(o)
        <3>1. /\ UNCHANGED moved /\ pc' = [pc EXCEPT ![o] = "release"] /\ log' = 0
              /\ content' = [f \in File |-> IF f = log THEN {} ELSE content[f]]
            BY <2>2 DEF CleanedUp, Goes
        <3>2. \A p \in Operations : temp[p] # 0 =>
                  log' # temp[p] /\ content[temp[p]] \subseteq content'[temp[p]]
            BY <1>0, <3>1, LogAssumption DEF LogTypes, File, ReadInv, Apart
        <3>3. \A p \in Operations : pc'[p] = "removing" => pc[p] = "removing"
            BY <1>0, <3>1 DEF LockTypes
        <3> QED BY <1>0, <3>1, <3>2, <3>3, ElsewhereKeepsRead
    <2>3. CASE Renamed(o)
        <3>1. /\ temp' = [temp EXCEPT ![o] = log] /\ log' = 0 /\ UNCHANGED <<content, logs>>
              /\ \E p \in {"release", "renamed"} : pc' = [pc EXCEPT ![o] = p]
            BY <2>3 DEF Renamed, Goes
        <3>2. Apart'
            BY <1>0, <3>1 DEF LogTypes, ReadInv, Apart
        <3>3. ReadKept'
            BY <1>0, <3>1 DEF LogTypes, LockTypes, ReadInv, ReadKept
        <3> QED BY <3>2, <3>3 DEF ReadInv
    <2>4. CASE MonitorEmpties(o) \/ CliEmpties(o)
        <3>1. UNCHANGED moved /\ pc' = [pc EXCEPT ![o] = "reading"]
            BY <2>4 DEF MonitorEmpties, CliEmpties, Goes
        <3>2. \A p \in Operations : temp[p] # 0 =>
                  log' # temp[p] /\ content[temp[p]] \subseteq content'[temp[p]]
            BY <1>0, <2>4, EmptiedKeepsTemp DEF MonitorEmpties, CliEmpties
        <3>3. \A p \in Operations : pc'[p] = "removing" => pc[p] = "removing"
            BY <1>0, <3>1 DEF LockTypes
        <3> QED BY <1>0, <3>1, <3>2, <3>3, ElsewhereKeepsRead
    <2>5. CASE TempRead(o)
        <3>1. /\ UNCHANGED <<log, content, temp>> /\ pc' = [pc EXCEPT ![o] = "removing"]
              /\ logs' = [logs EXCEPT ![o] = content[temp[o]]]
            BY <2>5 DEF TempRead, Goes
        <3> QED BY <1>0, <3>1 DEF LogTypes, LockTypes, ReadInv, Apart, ReadKept
    <2>6. CASE HandedOut(o)
        <3>1. /\ UNCHANGED log /\ pc' = [pc EXCEPT ![o] = "release"]
              /\ temp' = [temp EXCEPT ![o] = 0] /\ logs' = [logs EXCEPT ![o] = {}]
              /\ content' = [content EXCEPT ![temp[o]] = {}] /\ temp[o] # 0
            BY <1>0, <2>6 DEF HandedOut, Goes, TempHeld
        <3>2. Apart'
            BY <1>0, <3>1 DEF LogTypes, ReadInv, Apart
        <3>3. ASSUME NEW p \in Operations, pc'[p] = "removing"
              PROVE  logs'[p] \subseteq content'[temp'[p]]
            <4>1. p # o /\ pc[p] = "removing" /\ temp'[p] = temp[p] /\ logs'[p] = logs[p]
                BY <1>0, <3>1, <3>3 DEF LogTypes, LockTypes
            <4>2. temp[p] # temp[o] /\ temp[p] \in File
                BY <1>0, <3>1, <4>1, LogAssumption
                   DEF ReadInv, Apart, TempHeld, LogTypes, File
            <4>3. content'[temp[p]] = content[temp[p]]
                BY <1>0, <3>1, <4>2 DEF LogTypes
            <4> QED BY <4>1, <4>3 DEF ReadInv, ReadKept
        <3> QED BY <3>2, <3>3 DEF ReadInv, ReadKept
    <2> QED BY <1>7, <2>1, <2>2, <2>3, <2>4, <2>5, <2>6 DEF Working
<1>8. CASE TrimReads \/ LockAges \/ UNCHANGED vars
    BY <1>1, <1>8 DEF TrimReads, LockAges, vars
<1> QED BY <1>2, <1>3, <1>4, <1>5, <1>6, <1>7, <1>8 DEF Next

LEMMA StepKeepsOnce ==
    ASSUME TypesInv, ReadInv, OnceInv, [Next]_vars
    PROVE  OnceInv'
<1>0. LogTypes /\ TempHeld
    BY TypesSplit DEF TypesInv
<1>1. CASE UNCHANGED <<line, revived, times, content>>
    BY <1>0, <1>1, EmptiedOnce
<1>2. ASSUME NEW l \in Line, AppendOpens(l)
      PROVE  OnceInv'
    <2>1. \A f \in File : content'[f] \subseteq content[f]
        BY <1>0, <1>2, EmptiedShrinks DEF AppendOpens
    <2>2. /\ line[l] = "none" /\ line' = [line EXCEPT ![l] = "opened"]
          /\ UNCHANGED <<revived, times>>
        BY <1>2 DEF AppendOpens, history
    <2> QED BY <1>0, <2>1, <2>2 DEF LogTypes, OnceInv, Once
<1>3. ASSUME NEW l \in Line, AppendWrites(l)
      PROVE  OnceInv'
    <2>1. /\ line[l] = "opened" /\ line' = [line EXCEPT ![l] = "written"]
          /\ UNCHANGED <<revived, times>>
          /\ \/ content' = [content EXCEPT ![lineFile[l]] = content[lineFile[l]] \union {l}]
             \/ UNCHANGED content
        BY <1>3 DEF AppendWrites
    <2>2. \A f \in File : \/ content'[f] = content[f]
                          \/ f = lineFile[l] /\ content'[f] = content[f] \union {l}
        BY <1>0, <2>1 DEF LogTypes
    <2>3. ASSUME NEW k \in Line, k \notin revived
          PROVE  Once(k)'
        <3>1. CASE k = l
            <4>1. \A f \in File : l \notin content[f]
                BY <2>1, <2>3, <3>1 DEF OnceInv, Once
            <4>2. times[l] = 0 /\ line'[l] = "written"
                BY <1>0, <2>1, <2>3, <3>1 DEF LogTypes, OnceInv, Once
            <4> QED BY <2>1, <2>2, <3>1, <4>1, <4>2 DEF Once
        <3>2. CASE k # l
            <4>1. Once(k) /\ line'[k] = line[k]
                BY <1>0, <2>1, <2>3, <3>2 DEF LogTypes, OnceInv
            <4>2. \A f \in File : k \in content'[f] <=> k \in content[f]
                BY <2>2, <3>2
            <4> QED BY <2>1, <4>1, <4>2 DEF Once
        <3> QED BY <3>1, <3>2
    <2> QED BY <2>1, <2>3 DEF OnceInv
<1>4. CASE TrimReads
    BY <1>1, <1>4 DEF TrimReads, appends, history
<1>5. CASE TrimRenames
    <2>1. PICK f \in File :
             /\ NewFile(f)
             /\ content' = [i \in File |-> IF i = f THEN trimmed ELSE IF i = log THEN {} ELSE content[i]]
        BY <1>5 DEF TrimRenames
    <2>2. UNCHANGED <<line, times>>
        BY <1>5 DEF TrimRenames, appends
    <2>3. CASE log = 0
        <3>1. revived' = revived \union trimmed
            BY <1>5, <2>3 DEF TrimRenames
        <3> QED BY <2>1, <2>2, <3>1 DEF OnceInv, Once
    <2>4. CASE log # 0
        <3>1. revived' = revived \union (trimmed \ content[log]) /\ log \in File
            BY <1>0, <1>5, <2>4, LogAssumption DEF TrimRenames, LogTypes, File
        <3>2. ASSUME NEW k \in Line, k \notin revived'
              PROVE  Once(k)'
            <4>1. Once(k) /\ (k \in trimmed => k \in content[log])
                BY <3>1, <3>2 DEF OnceInv
            <4>2. CASE k \in trimmed
                <5>1. \A g \in File : g # log => k \notin content[g]
                    BY <3>1, <4>1, <4>2 DEF Once
                <5>2. \A g \in File : k \in content'[g] => g = f
                    BY <2>1, <5>1
                <5> QED BY <2>2, <3>1, <4>1, <4>2, <5>2 DEF Once
            <4>3. CASE k \notin trimmed
                <5>1. \A g \in File : k \in content'[g] => k \in content[g]
                    BY <2>1, <4>3
                <5> QED BY <2>2, <4>1, <5>1 DEF Once
            <4> QED BY <4>2, <4>3
        <3> QED BY <3>2 DEF OnceInv
    <2> QED BY <2>3, <2>4
<1>6. ASSUME NEW o \in Operations, Working(o)
      PROVE  OnceInv'
    <2>1. CASE Got(o) \/ Renamed(o)
        BY <1>1, <2>1 DEF Got, Renamed, appends, history
    <2>2. CASE CleanedUp(o)
        <3>1. \A f \in File : content'[f] \subseteq content[f]
            BY <2>2 DEF CleanedUp
        <3> QED BY <1>0, <2>2, <3>1, EmptiedOnce DEF CleanedUp, appends
    <2>3. CASE MonitorEmpties(o)
        <3>1. \A f \in File : content'[f] \subseteq content[f]
            BY <1>0, <2>3, EmptiedShrinks DEF MonitorEmpties
        <3> QED BY <1>0, <2>3, <3>1, EmptiedOnce DEF MonitorEmpties, appends, history
    <2>4. CASE CliEmpties(o)
        <3>1. \A f \in File : content'[f] \subseteq content[f]
            BY <1>0, <2>4, EmptiedShrinks DEF CliEmpties
        <3> QED BY <1>0, <2>4, <3>1, EmptiedOnce DEF CliEmpties, appends
    <2>5. CASE HandedOut(o)
        <3>1. temp[o] \in File
            BY <1>0, <2>5, LogAssumption DEF HandedOut, TempHeld, LogTypes, File
        <3>2. /\ content' = [content EXCEPT ![temp[o]] = {}]
              /\ times' = [l \in Line |-> IF l \in logs[o] THEN times[l] + 1 ELSE times[l]]
              /\ UNCHANGED <<line, revived>>
            BY <2>5 DEF HandedOut, appends
        <3>4. logs[o] \subseteq content[temp[o]]
            BY <2>5 DEF HandedOut, ReadInv, ReadKept
        <3>3. ASSUME NEW k \in Line, k \notin revived
              PROVE  Once(k)'
            <4>1. Once(k)
                BY <3>3 DEF OnceInv
            <4>2. CASE k \in content[temp[o]]
                <5>1. times'[k] <= 1 /\ line'[k] = "written"
                    BY <3>1, <3>2, <4>1, <4>2 DEF Once
                <5>2. \A f \in File : k \notin content'[f]
                    BY <1>0, <3>1, <3>2, <4>1, <4>2 DEF LogTypes, Once
                <5> QED BY <5>1, <5>2 DEF Once
            <4>3. CASE k \notin content[temp[o]]
                <5>1. times'[k] = times[k] /\ \A f \in File : k \in content'[f] => k \in content[f]
                    BY <1>0, <3>2, <3>4, <4>3 DEF LogTypes
                <5> QED BY <3>2, <4>1, <5>1 DEF Once
            <4> QED BY <4>2, <4>3
        <3> QED BY <3>2, <3>3 DEF OnceInv
    <2>6. CASE TempRead(o)
        BY <1>1, <2>6 DEF TempRead, appends, history
    <2> QED BY <1>6, <2>1, <2>2, <2>3, <2>4, <2>5, <2>6 DEF Working
<1>7. CASE UNCHANGED LogVars
    BY <1>1, <1>7 DEF LogVars, appends, history
<1> QED BY <1>2, <1>3, <1>4, <1>5, <1>6, <1>7, LockLeavesLog

(* No line is handed out twice unless a trim wrote it back, also when the lock is  *)
(* broken: what moves and removes lines excludes by itself.                        *)
THEOREM HandedOutOnceCorrect == Spec => []HandedOutOnce
<1>1. Init => OnceInv /\ ReadInv
    BY DEF Init, OnceInv, Once, ReadInv, Apart, ReadKept
<1>2. TypesInv /\ ReadInv /\ OnceInv /\ [Next]_vars => ReadInv' /\ OnceInv'
    BY StepKeepsOnce, StepKeepsRead
<1>3. OnceInv => HandedOutOnce
    BY DEF OnceInv, Once, HandedOutOnce
<1> QED BY <1>1, <1>2, <1>3, TypesInvariant, PTL DEF Spec

--------------------------------------------------------------------------------
(* Where a line is. A file loses its name only to an operation that hands it out   *)
(* or to one that drops it, and a temporary path is not overwritten.               *)
Placed(l) ==
    line[l] = "written" =>
        (\E f \in File : Named(f) /\ l \in content[f]) \/ times[l] > 0 \/ l \in dropped

(* A step after which every file that had a name still has one and its lines,      *)
(* and no line has been written.                                                   *)
LEMMA NamesKept ==
    ASSUME LogTypes,
           \A l \in Line : line'[l] = "written" => line[l] = "written",
           \A l \in Line : times[l] > 0 => times'[l] > 0,
           dropped \subseteq dropped',
           \A f \in File : Named(f) =>
               /\ \A l \in content[f] : \/ l \in content'[f] /\ Named(f)'
                                        \/ times'[l] > 0 \/ l \in dropped',
           Accounted
    PROVE  Accounted'
<1> SUFFICES ASSUME NEW l \in Line, line'[l] = "written"
             PROVE  \/ \E f \in File : Named(f)' /\ l \in content'[f]
                    \/ times'[l] > 0
                    \/ l \in dropped'
    BY DEF Accounted
<1>1. (\E f \in File : Named(f) /\ l \in content[f]) \/ times[l] > 0 \/ l \in dropped
    BY DEF Accounted
<1> QED BY <1>1

OpenedFiles == \A l \in Line : line[l] = "opened" => lineFile[l] # 0

LEMMA StepKeepsOpened ==
    ASSUME LogTypes, OpenedFiles, [Next]_vars
    PROVE  OpenedFiles'
<1>1. CASE UNCHANGED appends
    BY <1>1 DEF appends, OpenedFiles
<1>2. ASSUME NEW l \in Line, AppendOpens(l)
      PROVE  OpenedFiles'
    <2>1. \E f \in 0..MaxFiles : f # 0 /\ lineFile' = [lineFile EXCEPT ![l] = f]
        BY <1>2, LogAssumption DEF AppendOpens, LogTypes, File
    <2>2. line' = [line EXCEPT ![l] = "opened"]
        BY <1>2 DEF AppendOpens
    <2> QED BY <2>1, <2>2 DEF LogTypes, OpenedFiles
<1>3. ASSUME NEW l \in Line, AppendWrites(l)
      PROVE  OpenedFiles'
    BY <1>3 DEF AppendWrites, LogTypes, OpenedFiles
<1>4. CASE TrimReads \/ TrimRenames \/ UNCHANGED LogVars
    BY <1>1, <1>4 DEF TrimReads, TrimRenames, LogVars
<1>5. ASSUME NEW o \in Operations, Working(o)
      PROVE  OpenedFiles'
    BY <1>1, <1>5 DEF Working, Got, CleanedUp, Renamed, MonitorEmpties, CliEmpties, TempRead, HandedOut
<1> QED BY <1>2, <1>3, <1>4, <1>5, LockLeavesLog

LEMMA StepKeepsAccounted ==
    ASSUME TypesInv, OpenedFiles, Accounted, [Next]_vars
    PROVE  Accounted'
<1>0. LogTypes /\ TempHeld
    BY TypesSplit DEF TypesInv
<1>1. CASE UNCHANGED <<log, content, line, temp, times, dropped>>
    BY <1>1 DEF Accounted, Named
<1>2. ASSUME NEW l \in Line, AppendOpens(l)
      PROVE  Accounted'
    <2>1. /\ line' = [line EXCEPT ![l] = "opened"] /\ UNCHANGED <<temp, times, dropped>>
        BY <1>2 DEF AppendOpens, history, moved
    <2>2. \A k \in Line : line'[k] = "written" => line[k] = "written"
        BY <1>0, <2>1 DEF LogTypes
    <2>3. ASSUME NEW f \in File, Named(f)
          PROVE  content'[f] = content[f] /\ Named(f)'
        <3>1. CASE UNCHANGED <<log, content>>
            BY <2>1, <2>3, <3>1 DEF Named
        <3>2. ASSUME log = 0, NEW g \in File, NewFile(g), log' = g,
                     content' = [content EXCEPT ![g] = {}]
              PROVE  content'[f] = content[f] /\ Named(f)'
            <4>1. f # g /\ f # 0
                BY <2>3, <3>2, LogAssumption DEF NewFile, File
            <4> QED BY <2>1, <2>3, <3>2, <4>1 DEF Named
        <3> QED BY <1>2, <3>1, <3>2 DEF AppendOpens
    <2> QED BY <1>0, <2>1, <2>2, <2>3, NamesKept
<1>3. ASSUME NEW l \in Line, AppendWrites(l)
      PROVE  Accounted'
    <2>1. /\ line' = [line EXCEPT ![l] = "written"] /\ UNCHANGED <<log, temp, times>>
          /\ \/ /\ Named(lineFile[l]) /\ UNCHANGED dropped
                /\ content' = [content EXCEPT ![lineFile[l]] = content[lineFile[l]] \union {l}]
             \/ dropped' = dropped \union {l} /\ UNCHANGED content
        BY <1>3 DEF AppendWrites, moved
    <2>2. \A f : Named(f)' <=> Named(f)
        BY <2>1 DEF Named
    <2>3. \A f \in File : content[f] \subseteq content'[f]
        BY <1>0, <2>1 DEF LogTypes
    <2>4. lineFile[l] \in File \/ lineFile[l] = 0
        BY <1>0, LogAssumption DEF LogTypes, File
    <2>5. ASSUME NEW k \in Line, k # l, line'[k] = "written"
          PROVE  Placed(k)'
        BY <1>0, <2>1, <2>2, <2>3, <2>5 DEF LogTypes, Accounted, Placed
    <2>6. lineFile[l] # 0
        BY <1>3 DEF AppendWrites, OpenedFiles
    <2>7. Placed(l)'
        BY <1>0, <2>1, <2>2, <2>4, <2>6 DEF LogTypes, Placed
    <2> QED BY <2>5, <2>7 DEF Accounted, Placed
<1>4. CASE TrimReads
    BY <1>1, <1>4 DEF TrimReads, appends, history, moved
<1>5. CASE TrimRenames
    <2>1. PICK f \in File :
             /\ NewFile(f) /\ log' = f
             /\ content' = [i \in File |-> IF i = f THEN trimmed ELSE IF i = log THEN {} ELSE content[i]]
        BY <1>5 DEF TrimRenames
    <2>2. UNCHANGED <<line, temp, times>> /\ dropped \subseteq dropped'
        BY <1>5 DEF TrimRenames, appends, moved
    <2>3. Named(f)'
        BY <2>1 DEF Named
    <2>4. ASSUME NEW l \in Line, line[l] = "written"
          PROVE  Placed(l)'
        <3>1. CASE times[l] > 0 \/ l \in dropped
            BY <2>2, <3>1 DEF Placed
        <3>2. ASSUME NEW g \in File, Named(g), l \in content[g]
              PROVE  Placed(l)'
            <4>1. g # f
                BY <2>1, <3>2 DEF NewFile
            <4>2. CASE g = log
                <5>1. log # 0
                    BY <3>2, <4>2, LogAssumption DEF File
                <5>2. dropped' = dropped \union (content[log] \ trimmed)
                    BY <1>5, <5>1 DEF TrimRenames
                <5>3. l \in dropped' \/ l \in trimmed
                    BY <3>2, <4>2, <5>2
                <5> QED BY <2>1, <2>3, <5>3 DEF Placed
            <4>3. CASE g # log
                <5>1. Named(g)' /\ l \in content'[g]
                    BY <2>1, <2>2, <3>2, <4>1, <4>3 DEF Named
                <5> QED BY <5>1 DEF Placed
            <4> QED BY <4>2, <4>3
        <3> QED BY <2>4, <3>1, <3>2 DEF Accounted
    <2> QED BY <2>2, <2>4 DEF Accounted, Placed
<1>6. ASSUME NEW o \in Operations, Working(o)
      PROVE  Accounted'
    <2>1. CASE Got(o)
        BY <1>1, <2>1 DEF Got, appends, history, moved
    <2>2. CASE CleanedUp(o)
        <3>1. /\ log' = 0 /\ UNCHANGED <<line, temp, times>>
              /\ content' = [f \in File |-> IF f = log THEN {} ELSE content[f]]
              /\ log # 0 => dropped' = dropped \union content[log]
              /\ dropped \subseteq dropped'
            BY <2>2 DEF CleanedUp, appends, moved
        <3>2. ASSUME NEW f \in File, Named(f)
              PROVE  \A l \in content[f] : (l \in content'[f] /\ Named(f)') \/ l \in dropped'
            <4>1. CASE f = log
                BY <3>1, <4>1, LogAssumption DEF File
            <4>2. CASE f # log
                BY <3>1, <3>2, <4>2 DEF Named
            <4> QED BY <4>1, <4>2
        <3> QED BY <1>0, <3>1, <3>2, NamesKept
    <2>3. CASE Renamed(o)
        <3>1. /\ temp' = [temp EXCEPT ![o] = log] /\ temp[o] = 0
              /\ UNCHANGED <<content, line, times, dropped>>
            BY <1>0, <2>3 DEF Renamed, appends, history, TempHeld
        <3>2. ASSUME NEW f \in File, Named(f)
              PROVE  Named(f)'
            <4>1. f # 0
                BY LogAssumption DEF File
            <4>2. temp'[o] = log /\ \A p \in Operations \ {o} : temp'[p] = temp[p]
                BY <1>0, <3>1 DEF LogTypes
            <4> QED BY <3>1, <3>2, <4>1, <4>2 DEF Named
        <3> QED BY <1>0, <3>1, <3>2, NamesKept
    <2>4. CASE MonitorEmpties(o) \/ CliEmpties(o)
        <3>1. UNCHANGED <<line, temp, times>> /\ dropped \subseteq dropped'
            BY <2>4 DEF MonitorEmpties, CliEmpties, appends, history, moved
        <3>2. ASSUME NEW f \in File, Named(f)
              PROVE  \A l \in content[f] : (l \in content'[f] /\ Named(f)') \/ l \in dropped'
            <4>1. CASE UNCHANGED <<log, content>>
                BY <3>1, <3>2, <4>1 DEF Named
            <4>2. CASE /\ log # 0 /\ UNCHANGED log /\ content' = [content EXCEPT ![log] = {}]
                       /\ dropped' = dropped \union content[log]
                BY <1>0, <3>1, <3>2, <4>2 DEF LogTypes, Named
            <4>3. ASSUME log = 0, NEW g \in File, NewFile(g), log' = g,
                         content' = [content EXCEPT ![g] = {}]
                  PROVE  content'[f] = content[f] /\ Named(f)'
                <5>1. f # g /\ f # 0
                    BY <3>2, <4>3, LogAssumption DEF NewFile, File
                <5> QED BY <3>1, <3>2, <4>3, <5>1 DEF Named
            <4> QED BY <2>4, <4>1, <4>2, <4>3 DEF MonitorEmpties, CliEmpties
        <3> QED BY <1>0, <3>1, <3>2, NamesKept
    <2>5. CASE HandedOut(o)
        <3>1. temp[o] \in File
            BY <1>0, <2>5, LogAssumption DEF HandedOut, TempHeld, LogTypes, File
        <3>2. /\ content' = [content EXCEPT ![temp[o]] = {}] /\ temp' = [temp EXCEPT ![o] = 0]
              /\ times' = [l \in Line |-> IF l \in logs[o] THEN times[l] + 1 ELSE times[l]]
              /\ dropped' = dropped \union (content[temp[o]] \ logs[o])
              /\ UNCHANGED <<log, line>>
            BY <2>5 DEF HandedOut, appends
        <3>3. \A l \in Line : /\ times[l] > 0 => times'[l] > 0
                              /\ l \in logs[o] => times'[l] > 0
            BY <1>0, <3>2 DEF LogTypes
        <3>4. ASSUME NEW f \in File, Named(f)
              PROVE  \A l \in content[f] : \/ l \in content'[f] /\ Named(f)'
                                          \/ times'[l] > 0 \/ l \in dropped'
            <4>1. CASE f = temp[o]
                BY <1>0, <3>2, <3>3, <4>1 DEF LogTypes
            <4>2. CASE f # temp[o]
                <5>1. content'[f] = content[f]
                    BY <1>0, <3>2, <4>2 DEF LogTypes
                <5>2. Named(f)'
                    BY <1>0, <3>2, <3>4, <4>2 DEF LogTypes, Named
                <5> QED BY <5>1, <5>2
            <4> QED BY <4>1, <4>2
        <3> QED BY <1>0, <3>2, <3>3, <3>4, NamesKept
    <2>6. CASE TempRead(o)
        BY <1>1, <2>6 DEF TempRead, appends, history
    <2> QED BY <1>6, <2>1, <2>2, <2>3, <2>4, <2>5, <2>6 DEF Working
<1>7. CASE UNCHANGED LogVars
    BY <1>1, <1>7 DEF LogVars, appends, history
<1> QED BY <1>2, <1>3, <1>4, <1>5, <1>6, <1>7, LockLeavesLog

(* No written line disappears but in the ways the code names, for any operations   *)
(* beside appends and trims and whoever is killed.                                 *)
THEOREM AccountedCorrect == Spec => []Accounted
<1>1. Init => Accounted /\ OpenedFiles
    BY DEF Init, Accounted, OpenedFiles
<1>2. TypesInv /\ OpenedFiles /\ Accounted /\ [Next]_vars => Accounted' /\ OpenedFiles'
    BY StepKeepsAccounted, StepKeepsOpened, TypesSplit DEF TypesInv
<1> QED BY <1>1, <1>2, TypesInvariant, PTL DEF Spec
===============================================================================
