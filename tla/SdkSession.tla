------------------------------ MODULE SdkSession ------------------------------
(* The client SDK: a BuildSession (session.ts), the connections it creates       *)
(* (createAgentConnection of ws.ts) with their retry timers and queues, and the  *)
(* sockets of the runtime, with an agent at the other end that may go away.      *)
(*                                                                               *)
(* An action is a call of the session's user or an event of the runtime, run to  *)
(* its end. A message is the number of the call that sent it, Hello stands for   *)
(* session_init and get_conversation_state. Sockets are numbered anew when they  *)
(* are closed. An operator named Mut... is the operator after it with a          *)
(* plausible mistake.                                                            *)
EXTENDS Naturals, Sequences, FiniteSets

CONSTANTS
    MaxRetries,     \* retry.maxRetries; 0 stands for a retry that is not enabled
    MaxPendingSends,
    MaxConnections, \* bound: calls of connect() that create a connection
    MaxSockets,     \* bound: sockets not yet closed
    MaxMessages,    \* bound: messages given to the session
    MaxFaults       \* bound: lost sockets and tickets that are refused

ASSUME SdkAssumption ==
    /\ MaxRetries \in Nat
    /\ MaxPendingSends \in Nat \ {0}
    /\ MaxConnections \in Nat \ {0}
    /\ MaxSockets \in Nat \ {0}
    /\ MaxMessages \in Nat
    /\ MaxFaults \in Nat

Connection == 1..MaxConnections
Socket == 1..MaxSockets
Hello == 0

VARIABLES
    \* BuildSession
    connection,     \* 0 for null
    state,          \* state.connection
    connections,    \* how many were created
    \* createAgentConnection
    ws,             \* 0 for null
    isOpen, closedByUser, reconnectAttempts, pendingSends,
    timers,         \* reconnect timers that run
    fetching,       \* calls of connectNow() that wait for getUrl()
    \* the runtime and the agent
    socket,         \* readyState of a socket, as far as its events have told
    owner,
    heard,          \* what the agent got on a socket
    received,       \* messages the agent got
    accepted, faults

session == <<connection, state, connections>>
retry == <<reconnectAttempts, timers, fetching>>
wire == <<socket, owner, heard, received>>
vars == <<session, ws, isOpen, closedByUser, retry, pendingSends, wire, accepted, faults>>

TypeOK ==
    /\ connection \in 0..connections
    /\ state \in {"disconnected", "connecting", "connected"}
    /\ connections \in 0..MaxConnections
    /\ ws \in [Connection -> 0..MaxSockets]
    /\ isOpen \in [Connection -> BOOLEAN]
    /\ closedByUser \in [Connection -> BOOLEAN]
    /\ reconnectAttempts \in [Connection -> 0..MaxRetries]
    /\ \A c \in Connection :
          /\ pendingSends[c] \in Seq(0..MaxMessages)
          /\ Len(pendingSends[c]) <= MaxPendingSends
    /\ timers \in [Connection -> 0..1]
    /\ fetching \in [Connection -> 0..1]
    /\ socket \in [Socket -> {"closed", "connecting", "open", "dead", "failing", "closing"}]
    /\ owner \in [Socket -> 0..MaxConnections]
    /\ heard \in [Socket -> Seq(0..MaxMessages)]
    /\ received \in Seq(1..MaxMessages)
    /\ accepted \in 0..MaxMessages
    /\ faults \in 0..MaxFaults

Init ==
    /\ connection = 0
    /\ state = "disconnected"
    /\ connections = 0
    /\ ws = [c \in Connection |-> 0]
    /\ isOpen = [c \in Connection |-> FALSE]
    /\ closedByUser = [c \in Connection |-> FALSE]
    /\ reconnectAttempts = [c \in Connection |-> 0]
    /\ pendingSends = [c \in Connection |-> <<>>]
    /\ timers = [c \in Connection |-> 0]
    /\ fetching = [c \in Connection |-> 0]
    /\ socket = [s \in Socket |-> "closed"]
    /\ owner = [s \in Socket |-> 0]
    /\ heard = [s \in Socket |-> <<>>]
    /\ received = <<>>
    /\ accepted = 0
    /\ faults = 0

Fault == faults < MaxFaults /\ faults' = faults + 1

(* The messages among the first n elements of q. *)
Taken(q) ==
    LET first[n \in 0..Len(q)] ==
            IF n = 0 THEN <<>>
            ELSE IF q[n] = Hello THEN first[n - 1] ELSE Append(first[n - 1], q[n])
    IN first

Messages(q) == Taken(q)[Len(q)]

Queued(q, m) == IF Len(q) = MaxPendingSends THEN Append(Tail(q), m) ELSE Append(q, m)

--------------------------------------------------------------------------------
(* Calls of the session's user.                                                  *)

(* connect() returns the connection there is, or creates one, whose connectNow() *)
(* asks for a ticket at once.                                                    *)
Connect ==
    /\ connection = 0 /\ connections < MaxConnections
    /\ connections' = connections + 1
    /\ connection' = connections'
    /\ state' = "connecting"
    /\ fetching' = [fetching EXCEPT ![connections'] = 1]
    /\ UNCHANGED <<ws, isOpen, closedByUser, reconnectAttempts, timers, pendingSends,
                   wire, accepted, faults>>

(* startGeneration(), followUp() and the rest. A dead socket takes what is sent. *)
MutSend ==
    LET c == connection
        m == accepted + 1
    IN /\ connection # 0 /\ accepted < MaxMessages
       /\ accepted' = m
       /\ pendingSends' = [pendingSends EXCEPT ![c] = Append(@, m)]
       /\ UNCHANGED <<heard, received>>
       /\ UNCHANGED <<session, ws, isOpen, closedByUser, retry, socket, owner, faults>>

Send ==
    LET c == connection
        m == accepted + 1
    IN /\ connection # 0 /\ accepted < MaxMessages
       /\ accepted' = m
       /\ \/ /\ isOpen[c] /\ socket[ws[c]] = "open"
             /\ heard' = [heard EXCEPT ![ws[c]] = Append(@, m)]
             /\ received' = Append(received, m)
             /\ UNCHANGED pendingSends
          \/ /\ isOpen[c] /\ socket[ws[c]] # "open"
             /\ UNCHANGED <<heard, received, pendingSends>>
          \/ /\ ~isOpen[c]
             /\ pendingSends' = [pendingSends EXCEPT ![c] = Queued(@, m)]
             /\ UNCHANGED <<heard, received>>
       /\ UNCHANGED <<session, ws, isOpen, closedByUser, retry, socket, owner, faults>>

(* close() of the session and of its connection. *)
Close ==
    LET c == connection
    IN /\ c # 0
       /\ closedByUser' = [closedByUser EXCEPT ![c] = TRUE]
       /\ isOpen' = [isOpen EXCEPT ![c] = FALSE]
       /\ pendingSends' = [pendingSends EXCEPT ![c] = <<>>]
       /\ timers' = [timers EXCEPT ![c] = 0]
       /\ socket' = [s \in Socket |-> IF s = ws[c] /\ owner[s] = c /\ socket[s] # "closed"
                                      THEN "closing" ELSE socket[s]]
       /\ ws' = [ws EXCEPT ![c] = 0]
       /\ connection' = 0
       /\ state' = "disconnected"
       /\ UNCHANGED <<connections, reconnectAttempts, fetching, owner, heard, received,
                      accepted, faults>>

--------------------------------------------------------------------------------
(* Connecting, and connecting again.                                             *)

MutScheduleReconnect(c) ==
    IF closedByUser[c] \/ reconnectAttempts[c] >= MaxRetries
    THEN UNCHANGED <<reconnectAttempts, timers>>
    ELSE /\ reconnectAttempts' = [reconnectAttempts EXCEPT ![c] = @ + 1]
         /\ timers' = [timers EXCEPT ![c] = @ + 1]

ScheduleReconnect(c) ==
    IF closedByUser[c] \/ reconnectAttempts[c] >= MaxRetries \/ timers[c] # 0
    THEN UNCHANGED <<reconnectAttempts, timers>>
    ELSE /\ reconnectAttempts' = [reconnectAttempts EXCEPT ![c] = @ + 1]
         /\ timers' = [timers EXCEPT ![c] = @ + 1]

(* A runtime that reports an error reports the close it leads to before the       *)
(* shortest delay of a retry is over.                                             *)
TimerFires(c) ==
    /\ timers[c] # 0
    /\ \A s \in Socket : ~(owner[s] = c /\ socket[s] = "failing")
    /\ timers' = [timers EXCEPT ![c] = @ - 1]
    /\ fetching' = [fetching EXCEPT ![c] = @ + 1]
    /\ UNCHANGED <<session, ws, isOpen, closedByUser, reconnectAttempts, pendingSends,
                   wire, accepted, faults>>

(* connectNow() does not look at closedByUser again. *)
UrlFetched(c) ==
    /\ fetching[c] # 0
    /\ fetching' = [fetching EXCEPT ![c] = @ - 1]
    /\ \E s \in Socket :
          /\ socket[s] = "closed" /\ \A i \in 1..(s - 1) : socket[i] # "closed"
          /\ ws' = [ws EXCEPT ![c] = s]
          /\ socket' = [socket EXCEPT ![s] = "connecting"]
          /\ owner' = [owner EXCEPT ![s] = c]
          /\ heard' = [heard EXCEPT ![s] = <<>>]
    /\ UNCHANGED <<session, isOpen, closedByUser, reconnectAttempts, timers, pendingSends,
                   received, accepted, faults>>

UrlFails(c) ==
    /\ fetching[c] # 0 /\ Fault
    /\ fetching' = [fetching EXCEPT ![c] = @ - 1]
    /\ ScheduleReconnect(c)
    /\ UNCHANGED <<session, ws, isOpen, closedByUser, pendingSends, wire, accepted>>

--------------------------------------------------------------------------------
(* Events of a socket. Its connection has the listeners of connect().            *)

(* What onOpen() sends on s after the greeting: the queue, which is then empty.  *)
MutFlushPendingSends(c, s, greeting) ==
    /\ heard' = [heard EXCEPT ![s] = pendingSends[c] \o greeting]
    /\ received' = received \o Messages(pendingSends[c])
    /\ pendingSends' = [pendingSends EXCEPT ![c] = <<>>]

MutFlushKeepsPendingSends(c, s, greeting) ==
    /\ heard' = [heard EXCEPT ![s] = greeting \o pendingSends[c]]
    /\ received' = received \o Messages(pendingSends[c])
    /\ UNCHANGED pendingSends

FlushPendingSends(c, s, greeting) ==
    /\ heard' = [heard EXCEPT ![s] = greeting \o pendingSends[c]]
    /\ received' = received \o Messages(pendingSends[c])
    /\ pendingSends' = [pendingSends EXCEPT ![c] = <<>>]

OnOpen(s) ==
    /\ socket[s] = "connecting"
    /\ socket' = [socket EXCEPT ![s] = "open"]
    /\ isOpen' = [isOpen EXCEPT ![owner[s]] = TRUE]
    /\ reconnectAttempts' = [reconnectAttempts EXCEPT ![owner[s]] = 0]
    /\ state' = "connected"
    /\ UNCHANGED <<connection, connections, ws, closedByUser, timers, fetching, owner,
                   accepted, faults>>

SocketOpens(s) ==
    /\ OnOpen(s)
    /\ owner[s] = connection
    /\ FlushPendingSends(owner[s], s, <<Hello>>)

(* The socket of a connection closed while it waited for its ticket: its listener *)
(* greets on the connection the session has by then, if any.                      *)
AbandonedSocketOpens(s) ==
    LET d == connection
    IN /\ OnOpen(s)
       /\ owner[s] # d
       /\ UNCHANGED received
       /\ \/ /\ d = 0
             /\ UNCHANGED <<heard, pendingSends>>
          \/ /\ d # 0 /\ ~isOpen[d]
             /\ pendingSends' = [pendingSends EXCEPT ![d] = Queued(@, Hello)]
             /\ UNCHANGED heard
          \/ /\ d # 0 /\ isOpen[d]
             /\ heard' = [t \in Socket |-> IF t = ws[d] /\ socket[t] = "open"
                                           THEN Append(heard[t], Hello) ELSE heard[t]]
             /\ UNCHANGED pendingSends

(* The agent or the network goes away, and the runtime has not noticed. *)
SocketDies(s) ==
    /\ socket[s] = "open" /\ Fault
    /\ socket' = [socket EXCEPT ![s] = "dead"]
    /\ UNCHANGED <<session, ws, isOpen, closedByUser, retry, pendingSends, owner, heard,
                   received, accepted>>

OnError(s) ==
    /\ \/ socket[s] = "connecting" /\ Fault
       \/ socket[s] = "dead" /\ UNCHANGED faults
    /\ socket' = [socket EXCEPT ![s] = "failing"]
    /\ ScheduleReconnect(owner[s])
    /\ UNCHANGED <<session, ws, isOpen, closedByUser, fetching, pendingSends, owner, heard,
                   received, accepted>>

OnClose(s) ==
    /\ \/ socket[s] = "open" /\ Fault
       \/ socket[s] \in {"dead", "failing", "closing"} /\ UNCHANGED faults
    /\ socket' = [socket EXCEPT ![s] = "closed"]
    /\ isOpen' = [isOpen EXCEPT ![owner[s]] = FALSE]
    /\ ScheduleReconnect(owner[s])
    /\ state' = "disconnected"
    /\ UNCHANGED <<connection, connections, ws, closedByUser, fetching, pendingSends, owner,
                   heard, received, accepted>>

--------------------------------------------------------------------------------
ConnectionStep(c) == TimerFires(c) \/ UrlFetched(c) \/ UrlFails(c)

SocketStep(s) ==
    SocketOpens(s) \/ AbandonedSocketOpens(s) \/ OnError(s) \/ OnClose(s)

Next ==
    \/ Connect \/ Send \/ Close
    \/ \E c \in Connection : ConnectionStep(c)
    \/ \E s \in Socket : SocketStep(s) \/ SocketDies(s)

Spec == Init /\ [][Next]_vars

(* Timers fire, tickets are answered or refused, and the runtime reports what     *)
(* becomes of a socket; an open one need not close.                               *)
FairSpec ==
    /\ Spec
    /\ \A c \in Connection : WF_vars(ConnectionStep(c))
    /\ \A s \in Socket : WF_vars(socket[s] # "open" /\ SocketStep(s))

--------------------------------------------------------------------------------
(* A connection has one socket at a time, in which what isOpen sends to is open   *)
(* or was: a reconnect begins when the last socket is gone.                       *)
Live(s) == socket[s] \in {"connecting", "open", "dead", "failing"}

OneSocket ==
    /\ \A s, t \in Socket : Live(s) /\ Live(t) /\ owner[s] = owner[t] => s = t
    /\ \A c \in Connection :
          isOpen[c] => ws[c] # 0 /\ owner[ws[c]] = c /\ socket[ws[c]] \in {"open", "dead", "failing"}

(* The agent hears session_init before any other message of a socket, also of one *)
(* opened with messages waiting.                                                  *)
HelloFirst == \A s \in Socket : heard[s] # <<>> => Head(heard[s]) = Hello

(* Messages reach the agent in order, at most once, and none overtakes the queue.  *)
Promised == INSTANCE Outbox WITH
    queue <- IF connection = 0 THEN <<>> ELSE Messages(pendingSends[connection])

Implements == Promised!Spec

(* The session is not left alone: whatever fails in whichever order, something    *)
(* that will happen goes on with its connection, unless retries are used up.      *)
Attended ==
    connection # 0 =>
        \/ timers[connection] # 0 \/ fetching[connection] # 0
        \/ \E s \in Socket : Live(s) /\ owner[s] = connection
        \/ reconnectAttempts[connection] = MaxRetries

(* A message that waits is sent, dropped or discarded, unless retries are used up. *)
Waits(m) == connection # 0 /\ \E i \in DOMAIN pendingSends[connection] : pendingSends[connection][i] = m

QueuedIsSent ==
    \A m \in 1..MaxMessages :
        Waits(m) ~> ~Waits(m) \/ reconnectAttempts[connection] = MaxRetries
================================================================================
