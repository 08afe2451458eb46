---------------------------- MODULE RequestQueue ----------------------------
(***************************************************************************)
(* What the agent promises of the requests a user queues, with none of its *)
(* inferences, counters, stops and evictions: a request waits, is handed   *)
(* to the planner with all that wait, and becomes part of the phase that   *)
(* is built next.  One phase is built at a time; what is built stays       *)
(* built, and only the planner loses requests.                             *)
(***************************************************************************)
CONSTANT Requests

VARIABLES
    waiting,    \* queued, not yet taken by the planner
    planning,   \* in the hands of the planner
    open,       \* a phase is planned and not yet built
    building,   \* the requests of that phase
    built,      \* the requests of the phases built so far
    lost        \* those the planner had when it came to nothing

vars == <<waiting, planning, open, building, built, lost>>

Queued == waiting \cup planning \cup building \cup built \cup lost

Init ==
    /\ waiting = {} /\ planning = {} /\ building = {} /\ built = {} /\ lost = {}
    /\ open = FALSE

\* A request is queued once.
Ask(r) ==
    /\ r \notin Queued
    /\ waiting' = waiting \cup {r}
    /\ UNCHANGED <<planning, open, building, built, lost>>

\* The planner takes all that wait, and nothing while a phase is being built.
Take ==
    /\ ~open /\ planning = {}
    /\ planning' = waiting
    /\ waiting' = {}
    /\ UNCHANGED <<open, building, built, lost>>

\* A phase is planned for all that the planner has.
Plan ==
    /\ ~open
    /\ open' = TRUE
    /\ building' = planning
    /\ planning' = {}
    /\ UNCHANGED <<waiting, built, lost>>

Build ==
    /\ open
    /\ open' = FALSE
    /\ built' = built \cup building
    /\ building' = {}
    /\ UNCHANGED <<waiting, planning, lost>>

Lose ==
    /\ planning # {}
    /\ lost' = lost \cup planning
    /\ planning' = {}
    /\ UNCHANGED <<waiting, open, building, built>>

Next == Take \/ Plan \/ Build \/ Lose \/ \E r \in Requests : Ask(r)

Spec == Init /\ [][Next]_vars
=============================================================================
