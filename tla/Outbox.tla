-------------------------------- MODULE Outbox --------------------------------
(* What a build session promises of the messages it is given: they reach the     *)
(* agent in the order of the calls, each once at most. They wait while there is  *)
(* no socket; the oldest go when too many wait, all when the session is closed,  *)
(* and those written to a dead socket are lost.                                  *)
EXTENDS Naturals, Sequences

VARIABLES
    accepted,   \* how many messages the session was given: 1, 2, ...
    queue,      \* those that wait for a socket
    received    \* those the agent has got

vars == <<accepted, queue, received>>

Init ==
    /\ accepted = 0
    /\ queue = <<>>
    /\ received = <<>>

Accept == accepted' = accepted + 1

(* No message overtakes one that waits. *)
SendNow ==
    /\ Accept
    /\ queue = <<>> /\ UNCHANGED queue
    /\ received' \in {received, Append(received, accepted')}

Wait ==
    /\ Accept
    /\ queue' = Append(queue, accepted')
    /\ UNCHANGED received

WaitAndDropOldest ==
    /\ Accept
    /\ queue # <<>> /\ queue' = Append(Tail(queue), accepted')
    /\ UNCHANGED received

(* A greeting takes its place. *)
DropOldest ==
    /\ queue # <<>> /\ queue' = Tail(queue)
    /\ UNCHANGED <<accepted, received>>

Flush ==
    /\ queue' = <<>>
    /\ received' = received \o queue
    /\ UNCHANGED accepted

Discard ==
    /\ queue' = <<>>
    /\ UNCHANGED <<accepted, received>>

Next == SendNow \/ Wait \/ WaitAndDropOldest \/ DropOldest \/ Flush \/ Discard

Spec == Init /\ [][Next]_vars
================================================================================
