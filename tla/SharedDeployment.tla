-------------------------- MODULE SharedDeployment --------------------------
(***************************************************************************)
(* What deployToSandbox promises its callers, with none of its sessions,   *)
(* attempts, sandboxes and files: whoever calls while a deployment is      *)
(* awaited joins it; a deployment ends once, and answers everybody who     *)
(* still waits for it; its maker, and nobody else, may give it up, and     *)
(* from then on it is nobody's: the next caller starts another beside it.  *)
(***************************************************************************)
EXTENDS Naturals

CONSTANTS Callers, None

VARIABLES
    current,    \* the deployment that is joined, or 0
    maker,      \* the caller that started it
    started,    \* the number of deployments
    running,    \* those under way
    waits       \* each caller, and the deployment it waits for, or 0

vars == <<current, maker, started, running, waits>>

Init ==
    /\ current = 0 /\ maker = None
    /\ started = 0 /\ running = {}
    /\ waits = [c \in Callers |-> 0]

Start(c) ==
    /\ current = 0 /\ waits[c] = 0
    /\ started' = started + 1
    /\ current' = started' /\ maker' = c
    /\ running' = running \cup {started'}
    /\ waits' = [waits EXCEPT ![c] = started']

Join(c) ==
    /\ current # 0 /\ waits[c] = 0
    /\ waits' = [waits EXCEPT ![c] = current]
    /\ UNCHANGED <<current, maker, started, running>>

\* A deployment nobody joins any more leaves the one after it alone.
Return(d) ==
    /\ d \in running
    /\ running' = running \ {d}
    /\ waits' = [c \in Callers |-> IF waits[c] = d THEN 0 ELSE waits[c]]
    /\ \/ current = d /\ current' = 0 /\ maker' = None
       \/ current # d /\ UNCHANGED <<current, maker>>
    /\ UNCHANGED started

GiveUp ==
    /\ current # 0
    /\ current' = 0 /\ maker' = None
    /\ waits' = [waits EXCEPT ![maker] = 0]
    /\ UNCHANGED <<started, running>>

\* One that joined stops waiting; the deployment is no less awaited.
Leave(c) ==
    /\ waits[c] # 0
    /\ waits[c] = current => c # maker
    /\ waits' = [waits EXCEPT ![c] = 0]
    /\ UNCHANGED <<current, maker, started, running>>

\* The Durable Object is evicted: nothing is under way, nobody waits.
Evict ==
    /\ current' = 0 /\ maker' = None
    /\ started' = 0 /\ running' = {}
    /\ waits' = [c \in Callers |-> 0]

Next ==
    \/ \E c \in Callers : Start(c) \/ Join(c) \/ Leave(c)
    \/ \E d \in running : Return(d)
    \/ GiveUp
    \/ Evict

Spec == Init /\ [][Next]_vars
=============================================================================
