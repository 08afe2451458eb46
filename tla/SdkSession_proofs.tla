--------------------------- MODULE SdkSession_proofs ---------------------------
(* Theorems of SdkSession, for any number of connections, sockets, messages and   *)
(* faults.                                                                         *)
EXTENDS SdkSession, Induction, SequenceTheorems, TLAPS

SocketState == {"closed", "connecting", "open", "dead", "failing", "closing"}

--------------------------------------------------------------------------------
(* The sockets of a connection. What a connection does next is one of three: it    *)
(* waits for a ticket, it has a socket, or a timer runs for a socket that is gone   *)
(* or about to go.                                                                 *)
ControlTypes ==
    /\ connections \in 0..MaxConnections
    /\ connection \in 0..connections
    /\ ws \in [Connection -> 0..MaxSockets]
    /\ isOpen \in [Connection -> BOOLEAN]
    /\ closedByUser \in [Connection -> BOOLEAN]
    /\ reconnectAttempts \in [Connection -> 0..MaxRetries]
    /\ timers \in [Connection -> 0..1]
    /\ fetching \in [Connection -> 0..1]
    /\ socket \in [Socket -> SocketState]
    /\ owner \in [Socket -> 0..MaxConnections]

Created == \A c \in Connection : c > connections => timers[c] = 0 /\ fetching[c] = 0
Owned ==
    \A s \in Socket : socket[s] # "closed" => owner[s] \in 1..connections
IsLast == \A s \in Socket : Live(s) => ws[owner[s]] = s
OneThing ==
    \A c \in Connection :
        /\ fetching[c] # 0 => timers[c] = 0 /\ \A s \in Socket : Live(s) => owner[s] # c
        /\ timers[c] # 0 => \A s \in Socket : Live(s) /\ owner[s] = c => socket[s] = "failing"
OpenSocket ==
    \A c \in Connection :
        isOpen[c] => /\ ws[c] # 0 /\ owner[ws[c]] = c
                     /\ socket[ws[c]] \in {"open", "dead", "failing"}
ClosingIsClosed ==
    \A s \in Socket : socket[s] = "closing" => closedByUser[owner[s]]

SocketInv ==
    ControlTypes /\ Created /\ Owned /\ IsLast /\ OneThing /\ OpenSocket /\ ClosingIsClosed

LEMMA InitSockets == Init => SocketInv
<1> SUFFICES ASSUME Init PROVE SocketInv
    OBVIOUS
<1>1. 0 \in 0..MaxConnections /\ 0 \in 0..MaxSockets /\ 0 \in 0..MaxRetries /\ 0 \in 0..0
    BY SdkAssumption
<1>2. ControlTypes
    BY <1>1 DEF Init, ControlTypes, SocketState
<1> QED BY <1>2
        DEF Init, SocketInv, Created, Owned, IsLast, OneThing, OpenSocket, ClosingIsClosed, Live

LEMMA ConnectKeepsSockets ==
    ASSUME SocketInv, Connect
    PROVE  SocketInv'
<1> DEFINE n == connections + 1
<1>1. /\ n \in Connection /\ n \in 1..MaxConnections /\ connections \in Nat
      /\ connections' = n /\ connection' = n
      /\ fetching' = [fetching EXCEPT ![n] = 1]
      /\ UNCHANGED <<ws, isOpen, closedByUser, reconnectAttempts, timers, socket, owner>>
    BY SdkAssumption DEF Connect, SocketInv, ControlTypes, Connection, wire
<1>2. ControlTypes'
    BY <1>1 DEF SocketInv, ControlTypes
<1>3. Created' /\ Owned'
    BY <1>1 DEF SocketInv, ControlTypes, Created, Owned, Connection
<1>4. timers[n] = 0 /\ \A s \in Socket : Live(s) => owner[s] # n
    BY <1>1 DEF SocketInv, Created, Owned, Live, ControlTypes
<1>5. OneThing'
    BY <1>1, <1>4 DEF SocketInv, ControlTypes, OneThing, Live
<1> QED BY <1>1, <1>2, <1>3, <1>5 DEF SocketInv, IsLast, OpenSocket, ClosingIsClosed, Live

LEMMA CloseKeepsSockets ==
    ASSUME SocketInv, Close
    PROVE  SocketInv'
<1> DEFINE c == connection
<1>1. /\ c \in Connection /\ connections \in 0..MaxConnections
      /\ closedByUser' = [closedByUser EXCEPT ![c] = TRUE]
      /\ isOpen' = [isOpen EXCEPT ![c] = FALSE]
      /\ timers' = [timers EXCEPT ![c] = 0]
      /\ socket' = [s \in Socket |-> IF s = ws[c] /\ owner[s] = c /\ socket[s] # "closed"
                                     THEN "closing" ELSE socket[s]]
      /\ ws' = [ws EXCEPT ![c] = 0]
      /\ connection' = 0
      /\ UNCHANGED <<connections, reconnectAttempts, fetching, owner>>
    BY SdkAssumption DEF Close, SocketInv, ControlTypes, Connection
<1>2. ControlTypes'
    <2>1. socket' \in [Socket -> SocketState]
        BY <1>1 DEF SocketInv, ControlTypes, SocketState
    <2>2. 0 \in 0..MaxSockets /\ 0 \in 0..connections
        BY <1>1, SdkAssumption
    <2> QED BY <1>1, <2>1, <2>2 DEF SocketInv, ControlTypes
<1>3. \A s \in Socket : \/ socket'[s] = socket[s] /\ (owner[s] = c /\ s = ws[c] => socket[s] = "closed")
                        \/ socket'[s] = "closing" /\ owner[s] = c /\ socket[s] # "closed"
    BY <1>1
<1>4. Owned' /\ ClosingIsClosed'
    BY <1>1, <1>3 DEF SocketInv, ControlTypes, Owned, ClosingIsClosed, Connection
<1>5. \A s \in Socket : Live(s)' => Live(s) /\ owner[s] # c /\ socket'[s] = socket[s]
    BY <1>1, <1>3 DEF SocketInv, IsLast, Live
<1>6. IsLast'
    BY <1>1, <1>5 DEF SocketInv, ControlTypes, IsLast
<1>7. Created' /\ OneThing'
    BY <1>1, <1>5 DEF SocketInv, ControlTypes, Created, OneThing
<1>8. OpenSocket'
    <2> SUFFICES ASSUME NEW d \in Connection, isOpen'[d]
                 PROVE  /\ ws'[d] # 0 /\ owner'[ws'[d]] = d
                        /\ socket'[ws'[d]] \in {"open", "dead", "failing"}
        BY DEF OpenSocket
    <2>1. d # c /\ isOpen[d] /\ ws'[d] = ws[d]
        BY <1>1 DEF SocketInv, ControlTypes
    <2>2. ws[d] \in Socket /\ owner[ws[d]] = d /\ socket[ws[d]] \in {"open", "dead", "failing"}
        BY <2>1, SdkAssumption DEF SocketInv, ControlTypes, OpenSocket, Socket
    <2> QED BY <1>1, <1>3, <2>1, <2>2 DEF Socket
<1> QED BY <1>2, <1>4, <1>6, <1>7, <1>8 DEF SocketInv

(* A reconnect is scheduled only if neither a timer nor a ticket nor a socket is   *)
(* there that has not failed.                                                      *)
LEMMA ScheduleKeepsSockets ==
    ASSUME ControlTypes, Created, NEW c \in Connection, c <= connections,
           ScheduleReconnect(c), UNCHANGED connections,
           fetching' \in [Connection -> 0..1],
           \A d \in Connection : d # c => fetching'[d] = fetching[d]
    PROVE  /\ reconnectAttempts' \in [Connection -> 0..MaxRetries]
           /\ timers' \in [Connection -> 0..1]
           /\ \A d \in Connection : d # c => timers'[d] = timers[d]
           /\ timers'[c] # timers[c] => ~closedByUser[c]
           /\ Created'
<1>1. CASE UNCHANGED <<reconnectAttempts, timers>>
    BY <1>1 DEF ControlTypes, Created, Connection
<1>2. CASE /\ ~closedByUser[c] /\ reconnectAttempts[c] < MaxRetries /\ timers[c] = 0
           /\ reconnectAttempts' = [reconnectAttempts EXCEPT ![c] = reconnectAttempts[c] + 1]
           /\ timers' = [timers EXCEPT ![c] = timers[c] + 1]
    <2>1. reconnectAttempts[c] + 1 \in 0..MaxRetries /\ timers[c] + 1 \in 0..1
        BY <1>2, SdkAssumption DEF ControlTypes
    <2>2. /\ reconnectAttempts' \in [Connection -> 0..MaxRetries]
          /\ timers' \in [Connection -> 0..1]
          /\ \A d \in Connection : d # c => timers'[d] = timers[d]
        BY <1>2, <2>1 DEF ControlTypes
    <2> QED BY <1>2, <2>2 DEF ControlTypes, Created, Connection
<1>3. reconnectAttempts[c] >= MaxRetries \/ reconnectAttempts[c] < MaxRetries
    BY SdkAssumption DEF ControlTypes
<1> QED BY <1>1, <1>2, <1>3 DEF ScheduleReconnect

LEMMA TimerKeepsSockets ==
    ASSUME SocketInv, NEW c \in Connection, TimerFires(c)
    PROVE  SocketInv'
<1>1. timers[c] = 1 /\ fetching[c] = 0 /\ connections \in Nat /\ c <= connections
    BY SdkAssumption DEF TimerFires, SocketInv, ControlTypes, OneThing, Created, Connection
<1>2. /\ timers' = [timers EXCEPT ![c] = 0]
      /\ fetching' = [fetching EXCEPT ![c] = 1]
      /\ UNCHANGED <<connection, connections, ws, isOpen, closedByUser, reconnectAttempts,
                     socket, owner>>
    BY <1>1 DEF TimerFires, session, wire
<1>3. \A s \in Socket : Live(s) => owner[s] # c
    BY <1>1 DEF TimerFires, SocketInv, OneThing
<1>4. ControlTypes'
    BY <1>2 DEF SocketInv, ControlTypes
<1>5. Created' /\ OneThing'
    BY <1>1, <1>2, <1>3 DEF SocketInv, ControlTypes, Created, OneThing, Live, Connection
<1> QED BY <1>2, <1>4, <1>5
        DEF SocketInv, Owned, IsLast, OpenSocket, ClosingIsClosed, Live

LEMMA UrlFetchedKeepsSockets ==
    ASSUME SocketInv, NEW c \in Connection, UrlFetched(c)
    PROVE  SocketInv'
<1>1. PICK s \in Socket :
         /\ socket[s] = "closed"
         /\ ws' = [ws EXCEPT ![c] = s]
         /\ socket' = [socket EXCEPT ![s] = "connecting"]
         /\ owner' = [owner EXCEPT ![s] = c]
    BY DEF UrlFetched
<1>2. /\ fetching[c] = 1 /\ timers[c] = 0 /\ fetching' = [fetching EXCEPT ![c] = 0]
      /\ UNCHANGED <<connection, connections, isOpen, closedByUser, reconnectAttempts, timers>>
    <2>1. fetching[c] = 1
        BY DEF UrlFetched, SocketInv, ControlTypes
    <2>2. timers[c] = 0
        BY <2>1 DEF SocketInv, OneThing, ControlTypes
    <2> QED BY <2>1, <2>2 DEF UrlFetched, session
<1>3. c \in 1..connections /\ connections \in Nat
    BY <1>2, SdkAssumption DEF SocketInv, ControlTypes, Created, Connection
<1>4. ~isOpen[c] /\ \A t \in Socket : Live(t) => owner[t] # c /\ t # s
    <2>1. \A t \in Socket : Live(t) => owner[t] # c /\ t # s
        BY <1>1, <1>2 DEF SocketInv, OneThing, Live
    <2>2. ~isOpen[c]
        <3>1. isOpen[c] => ws[c] \in Socket /\ Live(ws[c]) /\ owner[ws[c]] = c
            BY SdkAssumption DEF SocketInv, ControlTypes, OpenSocket, Live, Socket
        <3> QED BY <2>1, <3>1
    <2> QED BY <2>1, <2>2
<1>5. ControlTypes'
    BY <1>1, <1>2, SdkAssumption DEF SocketInv, ControlTypes, SocketState, Connection, Socket
<1>6. \A t \in Socket : t # s => socket'[t] = socket[t] /\ owner'[t] = owner[t]
    BY <1>1 DEF SocketInv, ControlTypes
<1>7. socket'[s] = "connecting" /\ owner'[s] = c /\ ws'[c] = s
    BY <1>1 DEF SocketInv, ControlTypes
<1>8. \A d \in Connection : d # c => ws'[d] = ws[d] /\ fetching'[d] = fetching[d]
    BY <1>1, <1>2 DEF SocketInv, ControlTypes
<1>9. Created' /\ Owned' /\ ClosingIsClosed'
    BY <1>2, <1>3, <1>6, <1>7, <1>8
       DEF SocketInv, ControlTypes, Created, Owned, ClosingIsClosed, Connection
<1>10. IsLast'
    <2> SUFFICES ASSUME NEW t \in Socket, Live(t)' PROVE ws'[owner'[t]] = t
        BY DEF IsLast
    <2>1. CASE t = s
        BY <1>7, <2>1
    <2>2. CASE t # s
        <3>1. Live(t) /\ owner'[t] = owner[t] /\ owner[t] # c /\ owner[t] \in Connection
            BY <1>3, <1>4, <1>6, <2>2, SdkAssumption
               DEF Live, SocketInv, ControlTypes, Owned, Connection
        <3> QED BY <1>8, <3>1 DEF SocketInv, IsLast
    <2> QED BY <2>1, <2>2
<1>11. OneThing'
    BY <1>2, <1>6, <1>7, <1>8 DEF SocketInv, ControlTypes, OneThing, Live
<1>12. OpenSocket'
    <2> SUFFICES ASSUME NEW d \in Connection, isOpen'[d]
                 PROVE  /\ ws'[d] # 0 /\ owner'[ws'[d]] = d
                        /\ socket'[ws'[d]] \in {"open", "dead", "failing"}
        BY DEF OpenSocket
    <2>1. d # c /\ isOpen[d] /\ ws'[d] = ws[d]
        BY <1>2, <1>4, <1>8
    <2>2. /\ ws[d] \in Socket /\ owner[ws[d]] = d
          /\ socket[ws[d]] \in {"open", "dead", "failing"}
        BY <2>1, SdkAssumption DEF SocketInv, ControlTypes, OpenSocket, Socket
    <2> QED BY <1>1, <1>6, <2>1, <2>2, SdkAssumption DEF Socket
<1> QED BY <1>5, <1>9, <1>10, <1>11, <1>12 DEF SocketInv

LEMMA UrlFailsKeepsSockets ==
    ASSUME SocketInv, NEW c \in Connection, UrlFails(c)
    PROVE  SocketInv'
<1>1. /\ fetching[c] = 1 /\ fetching' = [fetching EXCEPT ![c] = 0]
      /\ UNCHANGED <<connection, connections, ws, isOpen, closedByUser, socket, owner>>
    <2>1. fetching[c] = 1
        BY DEF UrlFails, SocketInv, ControlTypes
    <2> QED BY <2>1 DEF UrlFails, session, wire
<1>2. fetching' \in [Connection -> 0..1] /\ c <= connections
      /\ \A d \in Connection : d # c => fetching'[d] = fetching[d]
    BY <1>1, SdkAssumption DEF SocketInv, ControlTypes, Created, Connection
<1>3. /\ reconnectAttempts' \in [Connection -> 0..MaxRetries]
      /\ timers' \in [Connection -> 0..1]
      /\ \A d \in Connection : d # c => timers'[d] = timers[d]
      /\ Created'
    BY <1>1, <1>2, ScheduleKeepsSockets DEF UrlFails, SocketInv
<1>4. ControlTypes'
    BY <1>1, <1>2, <1>3 DEF SocketInv, ControlTypes
<1>5. OneThing'
    BY <1>1, <1>2, <1>3 DEF SocketInv, ControlTypes, OneThing, Live
<1> QED BY <1>1, <1>3, <1>4, <1>5
        DEF SocketInv, Owned, IsLast, OpenSocket, ClosingIsClosed, Live

--------------------------------------------------------------------------------
LEMMA OnOpenKeepsSockets ==
    ASSUME SocketInv, NEW s \in Socket, OnOpen(s)
    PROVE  SocketInv'
<1>1. /\ socket[s] = "connecting" /\ socket' = [socket EXCEPT ![s] = "open"]
      /\ isOpen' = [isOpen EXCEPT ![owner[s]] = TRUE]
      /\ reconnectAttempts' = [reconnectAttempts EXCEPT ![owner[s]] = 0]
      /\ UNCHANGED <<connection, connections, ws, closedByUser, timers, fetching, owner>>
    BY DEF OnOpen
<1>2. /\ owner[s] \in Connection /\ ws[owner[s]] = s /\ timers[owner[s]] = 0
    BY <1>1, SdkAssumption
       DEF SocketInv, ControlTypes, Owned, IsLast, OneThing, Live, Connection
<1>3. ControlTypes'
    <2>1. 0 \in 0..MaxRetries
        BY SdkAssumption
    <2>2. /\ reconnectAttempts' \in [Connection -> 0..MaxRetries]
          /\ isOpen' \in [Connection -> BOOLEAN]
        BY <1>1, <2>1 DEF SocketInv, ControlTypes
    <2>3. socket' \in [Socket -> SocketState]
        BY <1>1 DEF SocketInv, ControlTypes, SocketState
    <2> QED BY <1>1, <2>2, <2>3 DEF SocketInv, ControlTypes
<1>4. \A t \in Socket : t # s => socket'[t] = socket[t]
    BY <1>1 DEF SocketInv, ControlTypes
<1>5. socket'[s] = "open" /\ \A t \in Socket : Live(t)' <=> Live(t)
    BY <1>1, <1>4 DEF SocketInv, ControlTypes, Live
<1>6. Created' /\ Owned' /\ IsLast' /\ ClosingIsClosed'
    BY <1>1, <1>4, <1>5 DEF SocketInv, Created, Owned, IsLast, ClosingIsClosed
<1>7. OneThing'
    BY <1>1, <1>2, <1>4, <1>5 DEF SocketInv, OneThing
<1>8. OpenSocket'
    <2> SUFFICES ASSUME NEW d \in Connection, isOpen'[d]
                 PROVE  /\ ws'[d] # 0 /\ owner'[ws'[d]] = d
                        /\ socket'[ws'[d]] \in {"open", "dead", "failing"}
        BY DEF OpenSocket
    <2>1. CASE d = owner[s]
        BY <1>1, <1>2, <1>5, <2>1 DEF Socket
    <2>2. CASE d # owner[s]
        <3>1. isOpen[d]
            BY <1>1, <2>2 DEF SocketInv, ControlTypes
        <3>2. ws[d] \in Socket /\ owner[ws[d]] = d /\ socket[ws[d]] \in {"open", "dead", "failing"}
            BY <3>1, SdkAssumption DEF SocketInv, ControlTypes, OpenSocket, Socket
        <3> QED BY <1>1, <1>4, <2>2, <3>2 DEF Socket
    <2> QED BY <2>1, <2>2
<1> QED BY <1>3, <1>6, <1>7, <1>8 DEF SocketInv

LEMMA SocketDiesKeepsSockets ==
    ASSUME SocketInv, NEW s \in Socket, SocketDies(s)
    PROVE  SocketInv'
<1>1. /\ socket[s] = "open" /\ socket' = [socket EXCEPT ![s] = "dead"]
      /\ UNCHANGED <<connection, connections, ws, isOpen, closedByUser, reconnectAttempts,
                     timers, fetching, owner>>
    BY DEF SocketDies, session, retry
<1>2. ControlTypes'
    BY <1>1 DEF SocketInv, ControlTypes, SocketState
<1>3. socket'[s] = "dead" /\ \A t \in Socket : t # s => socket'[t] = socket[t]
    BY <1>1 DEF SocketInv, ControlTypes
<1>4. \A t \in Socket : Live(t)' <=> Live(t)
    BY <1>1, <1>3 DEF Live
<1>5. Created' /\ Owned' /\ IsLast' /\ ClosingIsClosed'
    BY <1>1, <1>3, <1>4 DEF SocketInv, Created, Owned, IsLast, ClosingIsClosed
<1>6. OneThing'
    BY <1>1, <1>3, <1>4 DEF SocketInv, OneThing, Live
<1>7. OpenSocket'
    <2>1. \A d \in Connection : ws[d] # 0 => ws[d] \in Socket
        BY SdkAssumption DEF SocketInv, ControlTypes, Socket
    <2> QED BY <1>1, <1>3, <2>1 DEF SocketInv, OpenSocket
<1> QED BY <1>2, <1>5, <1>6, <1>7 DEF SocketInv

LEMMA OnErrorKeepsSockets ==
    ASSUME SocketInv, NEW s \in Socket, OnError(s)
    PROVE  SocketInv'
<1> DEFINE c == owner[s]
<1>1. /\ socket[s] \in {"connecting", "dead"} /\ socket' = [socket EXCEPT ![s] = "failing"]
      /\ ScheduleReconnect(c)
      /\ UNCHANGED <<connection, connections, ws, isOpen, closedByUser, fetching, owner>>
    BY DEF OnError, session
<1>2. /\ c \in Connection /\ c <= connections /\ ws[c] = s /\ fetching[c] = 0
    BY <1>1, SdkAssumption
       DEF SocketInv, ControlTypes, Owned, IsLast, OneThing, Live, Connection
<1>3. /\ reconnectAttempts' \in [Connection -> 0..MaxRetries]
      /\ timers' \in [Connection -> 0..1]
      /\ \A d \in Connection : d # c => timers'[d] = timers[d]
      /\ Created'
    BY <1>1, <1>2, ScheduleKeepsSockets DEF SocketInv, ControlTypes
<1>4. ControlTypes'
    BY <1>1, <1>3 DEF SocketInv, ControlTypes, SocketState
<1>5. socket'[s] = "failing" /\ \A t \in Socket : t # s => socket'[t] = socket[t]
    BY <1>1 DEF SocketInv, ControlTypes
<1>6. \A t \in Socket : Live(t)' <=> Live(t)
    BY <1>1, <1>5 DEF Live
<1>7. Owned' /\ IsLast' /\ ClosingIsClosed'
    BY <1>1, <1>5, <1>6 DEF SocketInv, Owned, IsLast, ClosingIsClosed
<1>8. \A t \in Socket : Live(t) /\ owner[t] = c => t = s
    BY <1>2 DEF SocketInv, IsLast
<1>9. OneThing'
    BY <1>1, <1>2, <1>3, <1>5, <1>6, <1>8 DEF SocketInv, OneThing
<1>10. OpenSocket'
    <2>1. \A d \in Connection : ws[d] # 0 => ws[d] \in Socket
        BY SdkAssumption DEF SocketInv, ControlTypes, Socket
    <2> QED BY <1>1, <1>5, <2>1 DEF SocketInv, OpenSocket
<1> QED BY <1>3, <1>4, <1>7, <1>9, <1>10 DEF SocketInv

LEMMA OnCloseKeepsSockets ==
    ASSUME SocketInv, NEW s \in Socket, OnClose(s)
    PROVE  SocketInv'
<1> DEFINE c == owner[s]
<1>1. /\ socket[s] \in {"open", "dead", "failing", "closing"}
      /\ socket' = [socket EXCEPT ![s] = "closed"]
      /\ isOpen' = [isOpen EXCEPT ![c] = FALSE]
      /\ ScheduleReconnect(c)
      /\ UNCHANGED <<connection, connections, ws, closedByUser, fetching, owner>>
    BY DEF OnClose
<1>2. /\ c \in Connection /\ c <= connections
    BY <1>1, SdkAssumption DEF SocketInv, ControlTypes, Owned, Connection
<1>3. /\ reconnectAttempts' \in [Connection -> 0..MaxRetries]
      /\ timers' \in [Connection -> 0..1]
      /\ \A d \in Connection : d # c => timers'[d] = timers[d]
      /\ timers'[c] # timers[c] => ~closedByUser[c]
      /\ Created'
    BY <1>1, <1>2, ScheduleKeepsSockets DEF SocketInv, ControlTypes
<1>4. ControlTypes'
    BY <1>1, <1>3 DEF SocketInv, ControlTypes, SocketState
<1>5. socket'[s] = "closed" /\ \A t \in Socket : t # s => socket'[t] = socket[t]
    BY <1>1 DEF SocketInv, ControlTypes
<1>6. \A t \in Socket : Live(t)' => Live(t) /\ t # s
    BY <1>5 DEF Live
<1>7. Owned' /\ IsLast' /\ ClosingIsClosed'
    BY <1>1, <1>5, <1>6 DEF SocketInv, Owned, IsLast, ClosingIsClosed
<1>8. OneThing'
    <2>1. CASE timers'[c] = timers[c]
        BY <1>1, <1>3, <1>5, <1>6, <2>1 DEF SocketInv, OneThing
    <2>2. CASE timers'[c] # timers[c]
        <3>1. Live(s)
            BY <1>1, <1>3, <2>2 DEF SocketInv, ClosingIsClosed, Live
        <3>2. fetching[c] = 0 /\ \A t \in Socket : Live(t) /\ owner[t] = c => t = s
            BY <1>2, <3>1 DEF SocketInv, OneThing, IsLast, ControlTypes
        <3> QED BY <1>1, <1>3, <1>5, <1>6, <3>2 DEF SocketInv, OneThing
    <2> QED BY <2>1, <2>2
<1>9. OpenSocket'
    <2> SUFFICES ASSUME NEW d \in Connection, isOpen'[d]
                 PROVE  /\ ws'[d] # 0 /\ owner'[ws'[d]] = d
                        /\ socket'[ws'[d]] \in {"open", "dead", "failing"}
        BY DEF OpenSocket
    <2>1. d # c /\ isOpen[d]
        BY <1>1, <1>2 DEF SocketInv, ControlTypes
    <2>2. ws[d] \in Socket /\ owner[ws[d]] = d /\ socket[ws[d]] \in {"open", "dead", "failing"}
        BY <2>1, SdkAssumption DEF SocketInv, ControlTypes, OpenSocket, Socket
    <2> QED BY <1>1, <1>5, <2>1, <2>2 DEF Socket
<1> QED BY <1>3, <1>4, <1>7, <1>8, <1>9 DEF SocketInv

LEMMA StepKeepsSockets == SocketInv /\ [Next]_vars => SocketInv'
<1> SUFFICES ASSUME SocketInv, [Next]_vars PROVE SocketInv'
    OBVIOUS
<1>1. CASE Send \/ UNCHANGED vars
    <2>1. UNCHANGED <<session, ws, isOpen, closedByUser, retry, socket, owner>>
        BY <1>1 DEF Send, vars, wire
    <2> QED BY <2>1
            DEF session, retry, SocketInv, ControlTypes, Created, Owned, IsLast, OneThing,
                OpenSocket, ClosingIsClosed, Live
<1>2. ASSUME NEW s \in Socket, SocketStep(s) PROVE SocketInv'
    BY <1>2, OnOpenKeepsSockets, OnErrorKeepsSockets, OnCloseKeepsSockets
       DEF SocketStep, SocketOpens, AbandonedSocketOpens
<1>3. ASSUME NEW c \in Connection, ConnectionStep(c) PROVE SocketInv'
    BY <1>3, TimerKeepsSockets, UrlFetchedKeepsSockets, UrlFailsKeepsSockets
       DEF ConnectionStep
<1> QED BY <1>1, <1>2, <1>3, ConnectKeepsSockets, CloseKeepsSockets, SocketDiesKeepsSockets
        DEF Next

LEMMA SocketInvariant == Spec => []SocketInv
BY InitSockets, StepKeepsSockets, PTL DEF Spec

(* A connection never has two sockets, however timers, tickets, errors and closes  *)
(* interleave, and it never takes for open a socket that it no longer has.         *)
THEOREM OneSocketCorrect == Spec => []OneSocket
<1>1. SocketInv => OneSocket
    <2> SUFFICES ASSUME SocketInv PROVE OneSocket
        OBVIOUS
    <2>1. \A s, t \in Socket : Live(s) /\ Live(t) /\ owner[s] = owner[t] => s = t
        BY DEF SocketInv, IsLast
    <2> QED BY <2>1 DEF SocketInv, OpenSocket, OneSocket
<1> QED BY <1>1, SocketInvariant, PTL

--------------------------------------------------------------------------------
(* What goes on with the session's connection.                                     *)
NotClosed ==
    /\ connection # 0 => ~closedByUser[connection]
    /\ \A c \in Connection : c > connections => ~closedByUser[c]
AttendInv == NotClosed /\ Attended

(* A loss is answered by a timer, unless one runs or retries are used up.          *)
LEMMA ScheduleAttends ==
    ASSUME SocketInv, NEW c \in Connection, c <= connections, ~closedByUser[c],
           ScheduleReconnect(c)
    PROVE  timers'[c] # 0 \/ reconnectAttempts'[c] = MaxRetries
<1>1. /\ timers[c] \in 0..1 /\ reconnectAttempts[c] \in 0..MaxRetries
      /\ timers \in [Connection -> 0..1]
    BY DEF SocketInv, ControlTypes
<1>2. CASE timers[c] # 0
    BY <1>1, <1>2 DEF ScheduleReconnect
<1>3. CASE timers[c] = 0 /\ reconnectAttempts[c] >= MaxRetries
    <2>1. reconnectAttempts[c] = MaxRetries
        BY <1>1, <1>3, SdkAssumption
    <2> QED BY <1>3, <2>1 DEF ScheduleReconnect
<1>4. CASE timers[c] = 0 /\ ~(reconnectAttempts[c] >= MaxRetries)
    <2>1. timers' = [timers EXCEPT ![c] = timers[c] + 1]
        BY <1>4 DEF ScheduleReconnect
    <2> QED BY <1>1, <1>4, <2>1
<1> QED BY <1>2, <1>3, <1>4

(* Another connection's steps change nothing of this one.                          *)
LEMMA OthersAttend ==
    ASSUME Attended, UNCHANGED connection,
           connection # 0 =>
              /\ timers'[connection] = timers[connection]
              /\ fetching'[connection] = fetching[connection]
              /\ reconnectAttempts'[connection] = reconnectAttempts[connection],
           \A s \in Socket : Live(s) /\ owner[s] = connection =>
              Live(s)' /\ owner'[s] = owner[s]
    PROVE  Attended'
BY DEF Attended

LEMMA StepKeepsNotClosed ==
    ASSUME SocketInv, NotClosed, [Next]_vars
    PROVE  NotClosed'
<1>1. /\ connection \in 0..connections /\ connections \in 0..MaxConnections
      /\ closedByUser \in [Connection -> BOOLEAN]
    BY DEF SocketInv, ControlTypes
<1>2. CASE UNCHANGED <<connection, connections, closedByUser>>
    BY <1>2 DEF NotClosed
<1>3. CASE Connect
    <2>1. connections' = connections + 1 /\ connection' = connections'
          /\ UNCHANGED closedByUser /\ connection' \in Connection
        BY <1>1, <1>3, SdkAssumption DEF Connect, Connection
    <2> QED BY <1>1, <2>1 DEF NotClosed, Connection
<1>4. CASE Close
    <2>1. connection' = 0 /\ UNCHANGED connections
          /\ closedByUser' = [closedByUser EXCEPT ![connection] = TRUE]
        BY <1>4 DEF Close
    <2> QED BY <1>1, <2>1, SdkAssumption DEF NotClosed, Connection
<1>5. CASE Send
    BY <1>2, <1>5 DEF Send, session
<1>6. ASSUME NEW c \in Connection, ConnectionStep(c) PROVE NotClosed'
    BY <1>2, <1>6 DEF ConnectionStep, TimerFires, UrlFetched, UrlFails, session
<1>7. ASSUME NEW s \in Socket, SocketStep(s) \/ SocketDies(s) PROVE NotClosed'
    BY <1>2, <1>7 DEF SocketStep, SocketOpens, AbandonedSocketOpens, OnOpen, OnError,
                      OnClose, SocketDies, session
<1>8. CASE UNCHANGED vars
    BY <1>2, <1>8 DEF vars, session
<1> QED BY <1>3, <1>4, <1>5, <1>6, <1>7, <1>8 DEF Next

LEMMA ConnectionAttends ==
    ASSUME SocketInv, AttendInv, NEW c \in Connection, ConnectionStep(c)
    PROVE  Attended'
<1>1. /\ timers \in [Connection -> 0..1] /\ fetching \in [Connection -> 0..1]
      /\ reconnectAttempts \in [Connection -> 0..MaxRetries]
      /\ socket \in [Socket -> SocketState] /\ owner \in [Socket -> 0..MaxConnections]
      /\ Attended
    BY DEF SocketInv, ControlTypes, AttendInv
<1>2. UNCHANGED connection
    BY DEF ConnectionStep, TimerFires, UrlFetched, UrlFails, session
<1>3. CASE TimerFires(c)
    <2>1. /\ timers' = [timers EXCEPT ![c] = @ - 1] /\ fetching' = [fetching EXCEPT ![c] = @ + 1]
          /\ UNCHANGED <<reconnectAttempts, socket, owner>>
        BY <1>3 DEF TimerFires, wire
    <2>2. CASE connection = c
        BY <1>1, <1>2, <2>1, <2>2 DEF Attended
    <2>3. CASE connection # c
        BY <1>1, <1>2, <2>1, <2>3, OthersAttend DEF Live
    <2> QED BY <2>2, <2>3
<1>4. CASE UrlFetched(c)
    <2>1. PICK s \in Socket : /\ socket[s] = "closed"
                              /\ socket' = [socket EXCEPT ![s] = "connecting"]
                              /\ owner' = [owner EXCEPT ![s] = c]
        BY <1>4 DEF UrlFetched
    <2>2. /\ fetching' = [fetching EXCEPT ![c] = @ - 1]
          /\ UNCHANGED <<reconnectAttempts, timers>>
        BY <1>4 DEF UrlFetched
    <2>3. CASE connection = c
        <3>1. Live(s)' /\ owner'[s] = connection'
            BY <1>1, <1>2, <2>1, <2>3 DEF Live
        <3> QED BY <3>1 DEF Attended
    <2>4. CASE connection # c
        <3>1. \A t \in Socket : Live(t) /\ owner[t] = connection =>
                  Live(t)' /\ owner'[t] = owner[t]
            BY <1>1, <2>1 DEF Live
        <3> QED BY <1>1, <1>2, <2>2, <2>4, <3>1, OthersAttend
    <2> QED BY <2>3, <2>4
<1>5. CASE UrlFails(c)
    <2>1. /\ fetching' = [fetching EXCEPT ![c] = @ - 1] /\ fetching[c] # 0
          /\ ScheduleReconnect(c) /\ UNCHANGED <<connections, socket, owner>>
        BY <1>5 DEF UrlFails, wire, session
    <2>2. c <= connections
        BY <2>1, SdkAssumption DEF SocketInv, ControlTypes, Created, Connection
    <2>3. CASE connection = c
        <3>1. ~closedByUser[c]
            BY <2>3, SdkAssumption DEF AttendInv, NotClosed, Connection
        <3>2. timers'[c] # 0 \/ reconnectAttempts'[c] = MaxRetries
            BY <2>1, <2>2, <3>1, ScheduleAttends
        <3> QED BY <1>2, <2>3, <3>2 DEF Attended
    <2>4. CASE connection # c
        <3>1. connection # 0 => connection \in Connection
            BY SdkAssumption DEF SocketInv, ControlTypes, Connection
        <3>2. connection # 0 => /\ timers'[connection] = timers[connection]
                                /\ reconnectAttempts'[connection] = reconnectAttempts[connection]
            BY <1>1, <2>1, <2>4, <3>1 DEF ScheduleReconnect
        <3>3. connection # 0 => fetching'[connection] = fetching[connection]
            BY <1>1, <2>1, <2>4, <3>1
        <3>4. \A t \in Socket : Live(t) /\ owner[t] = connection =>
                  Live(t)' /\ owner'[t] = owner[t]
            BY <2>1 DEF Live
        <3> QED BY <1>1, <1>2, <3>2, <3>3, <3>4, OthersAttend
    <2> QED BY <2>3, <2>4
<1> QED BY <1>3, <1>4, <1>5 DEF ConnectionStep

LEMMA SocketAttends ==
    ASSUME SocketInv, AttendInv, NEW s \in Socket, SocketStep(s) \/ SocketDies(s)
    PROVE  Attended'
<1> DEFINE c == owner[s]
<1>1. /\ timers \in [Connection -> 0..1] /\ fetching \in [Connection -> 0..1]
      /\ reconnectAttempts \in [Connection -> 0..MaxRetries]
      /\ socket \in [Socket -> SocketState]
      /\ Attended
      /\ connection # 0 => connection \in Connection
    BY SdkAssumption DEF SocketInv, ControlTypes, AttendInv, Connection
<1>2. UNCHANGED <<connection, connections, fetching, owner>>
    BY DEF SocketStep, SocketOpens, AbandonedSocketOpens, OnOpen, OnError, OnClose,
           SocketDies, session, retry
<1>3. CASE OnOpen(s)
    <2>1. /\ socket[s] = "connecting" /\ socket' = [socket EXCEPT ![s] = "open"]
          /\ reconnectAttempts' = [reconnectAttempts EXCEPT ![c] = 0] /\ UNCHANGED timers
        BY <1>3 DEF OnOpen
    <2>2. \A t \in Socket : Live(t) => Live(t)'
        BY <1>1, <2>1 DEF Live
    <2>3. CASE connection = c
        BY <1>2, <2>1, <2>2, <2>3 DEF Attended, Live
    <2>4. CASE connection # c
        BY <1>1, <1>2, <2>1, <2>2, <2>4, OthersAttend
    <2> QED BY <2>3, <2>4
<1>4. CASE SocketDies(s)
    <2>1. /\ socket[s] = "open" /\ socket' = [socket EXCEPT ![s] = "dead"]
          /\ UNCHANGED <<timers, reconnectAttempts>>
        BY <1>4 DEF SocketDies, retry
    <2>2. \A t \in Socket : Live(t) => Live(t)'
        BY <1>1, <2>1 DEF Live
    <2> QED BY <1>1, <1>2, <2>1, <2>2, OthersAttend
<1>5. ASSUME socket[s] # "closed", ScheduleReconnect(c),
             \A t \in Socket : t # s => socket'[t] = socket[t]
      PROVE  Attended'
    <2>1. c \in Connection /\ c <= connections
        BY <1>5, SdkAssumption DEF SocketInv, ControlTypes, Owned, Connection
    <2>2. CASE connection = c
        <3>1. ~closedByUser[c]
            BY <2>1, <2>2, SdkAssumption DEF AttendInv, NotClosed, Connection
        <3>2. timers'[c] # 0 \/ reconnectAttempts'[c] = MaxRetries
            BY <1>5, <2>1, <3>1, ScheduleAttends
        <3> QED BY <1>2, <2>2, <3>2 DEF Attended
    <2>3. CASE connection # c
        <3>1. connection # 0 => /\ timers'[connection] = timers[connection]
                                /\ reconnectAttempts'[connection] = reconnectAttempts[connection]
            BY <1>1, <1>5, <2>3 DEF ScheduleReconnect
        <3>2. \A t \in Socket : Live(t) /\ owner[t] = connection =>
                  Live(t)' /\ owner'[t] = owner[t]
            BY <1>2, <1>5, <2>3 DEF Live
        <3> QED BY <1>1, <1>2, <3>1, <3>2, OthersAttend
    <2> QED BY <2>2, <2>3
<1>6. CASE OnError(s) \/ OnClose(s)
    BY <1>1, <1>5, <1>6 DEF OnError, OnClose
<1> QED BY <1>3, <1>4, <1>6 DEF SocketStep, SocketOpens, AbandonedSocketOpens

(* Whatever tickets, sockets and timers fail, in whichever order, the connection   *)
(* the session has is tried again, for any number of retries and failures.         *)
THEOREM AttendedCorrect == Spec => []Attended
<1>1. Init => AttendInv
    BY DEF Init, AttendInv, NotClosed, Attended
<1>2. ASSUME SocketInv, AttendInv, [Next]_vars PROVE AttendInv'
    <2>1. NotClosed'
        BY <1>2, StepKeepsNotClosed DEF AttendInv
    <2>2. CASE Connect
        <3>1. PICK n \in Connection : /\ fetching' = [fetching EXCEPT ![n] = 1]
                                      /\ connection' = n
            <4>1. /\ connections \in Nat /\ connections < MaxConnections
                  /\ connections' = connections + 1 /\ connection' = connections + 1
                  /\ fetching' = [fetching EXCEPT ![connections + 1] = 1]
                BY <1>2, <2>2, SdkAssumption DEF Connect, SocketInv, ControlTypes
            <4>2. connections + 1 \in Connection
                BY <4>1, SdkAssumption DEF Connection
            <4> QED BY <4>1, <4>2
        <3>2. fetching'[connection'] = 1
            BY <1>2, <3>1 DEF SocketInv, ControlTypes
        <3>3. Attended'
            BY <3>2 DEF Attended
        <3> QED BY <2>1, <3>3 DEF AttendInv
    <2>3. CASE Close
        BY <2>1, <2>3 DEF Close, Attended, AttendInv
    <2>4. CASE Send \/ UNCHANGED vars
        <3>1. UNCHANGED <<connection, timers, fetching, reconnectAttempts, socket, owner>>
            BY <2>4 DEF Send, vars, session, retry, wire
        <3> QED BY <1>2, <2>1, <3>1 DEF AttendInv, Attended, Live
    <2> QED BY <1>2, <2>1, <2>2, <2>3, <2>4, ConnectionAttends, SocketAttends
            DEF Next, AttendInv
<1>3. AttendInv => Attended
    BY DEF AttendInv
<1> QED BY <1>1, <1>2, <1>3, SocketInvariant, PTL DEF Spec

--------------------------------------------------------------------------------
(* The greeting. The socket the session's connection sends to has been greeted,    *)
(* so nothing that is sent comes first on a socket.                                *)
WireTypes ==
    /\ heard \in [Socket -> Seq(Nat)]
    /\ pendingSends \in [Connection -> Seq(Nat)]
    /\ accepted \in Nat
Greeted == connection # 0 /\ isOpen[connection] => heard[ws[connection]] # <<>>
GreetInv == WireTypes /\ Greeted /\ HelloFirst

LEMMA AppendKeepsHead ==
    ASSUME NEW q \in Seq(Nat), NEW m \in Nat
    PROVE  /\ Append(q, m) \in Seq(Nat) /\ Append(q, m) # <<>>
           /\ q # <<>> => Head(Append(q, m)) = Head(q)
           /\ q = <<>> => Head(Append(q, m)) = m
BY AppendProperties, HeadTailAppend

LEMMA GreetingFirst ==
    ASSUME NEW q \in Seq(Nat)
    PROVE  /\ <<Hello>> \o q \in Seq(Nat) /\ <<Hello>> \o q # <<>>
           /\ Head(<<Hello>> \o q) = Hello
BY DEF Hello

LEMMA QueuedType ==
    ASSUME NEW q \in Seq(Nat), NEW m \in Nat
    PROVE  Queued(q, m) \in Seq(Nat)
<1>1. CASE Len(q) = MaxPendingSends
    <2>1. MaxPendingSends # 0
        BY SdkAssumption
    <2>2. q # <<>>
        BY <1>1, <2>1
    <2> QED BY <1>1, <2>2 DEF Queued
<1>2. CASE Len(q) # MaxPendingSends
    BY <1>2 DEF Queued
<1> QED BY <1>1, <1>2

LEMMA CurrentSocket ==
    ASSUME SocketInv, connection # 0, isOpen[connection]
    PROVE  /\ connection \in Connection /\ ws[connection] \in Socket
           /\ socket[ws[connection]] # "closed" /\ socket[ws[connection]] # "connecting"
           /\ owner[ws[connection]] = connection
<1>1. connection \in Connection
    BY SdkAssumption DEF SocketInv, ControlTypes, Connection
<1>2. ws[connection] # 0 /\ ws[connection] \in 0..MaxSockets
      /\ owner[ws[connection]] = connection
      /\ socket[ws[connection]] \in {"open", "dead", "failing"}
    BY <1>1 DEF SocketInv, ControlTypes, OpenSocket
<1> QED BY <1>1, <1>2, SdkAssumption DEF Socket

(* Steps that send nothing and open nothing. *)
LEMMA SilentKeepsGreeting ==
    ASSUME SocketInv, GreetInv, UNCHANGED <<heard, accepted>>,
           pendingSends' \in [Connection -> Seq(Nat)],
           \/ connection' = 0
           \/ /\ UNCHANGED <<connection, ws>>
              /\ isOpen'[connection] \in {FALSE, isOpen[connection]}
    PROVE  GreetInv'
BY DEF GreetInv, WireTypes, Greeted, HelloFirst

LEMMA ConnectKeepsGreeting ==
    ASSUME SocketInv, GreetInv, Connect
    PROVE  GreetInv'
<1>1. connections \in Nat /\ connection' = connections + 1 /\ connections + 1 \in Connection
    BY SdkAssumption DEF Connect, SocketInv, ControlTypes, Connection
<1>2. ~isOpen[connections + 1]
    <2> SUFFICES ASSUME isOpen[connections + 1] PROVE FALSE
        OBVIOUS
    <2>1. /\ ws[connections + 1] # 0 /\ ws[connections + 1] \in 0..MaxSockets
          /\ owner[ws[connections + 1]] = connections + 1
          /\ socket[ws[connections + 1]] # "closed"
        BY <1>1 DEF SocketInv, ControlTypes, OpenSocket
    <2>2. owner[ws[connections + 1]] \in 1..connections
        BY <2>1, SdkAssumption DEF SocketInv, Owned, Socket
    <2> QED BY <1>1, <2>1, <2>2
<1> QED BY <1>1, <1>2 DEF Connect, wire, GreetInv, WireTypes, Greeted, HelloFirst

LEMMA SendKeepsGreeting ==
    ASSUME SocketInv, GreetInv, Send
    PROVE  GreetInv'
<1> DEFINE m == accepted + 1
<1>1. /\ m \in Nat /\ accepted' = m /\ connection \in Connection
      /\ UNCHANGED <<connection, isOpen, ws>>
    BY SdkAssumption DEF Send, GreetInv, WireTypes, session, SocketInv, ControlTypes, Connection
<1>2. CASE UNCHANGED <<heard, pendingSends>>
    BY <1>1, <1>2 DEF GreetInv, WireTypes, Greeted, HelloFirst
<1>3. CASE /\ UNCHANGED heard
           /\ pendingSends' = [pendingSends EXCEPT
                                 ![connection] = Queued(pendingSends[connection], m)]
    <2>1. Queued(pendingSends[connection], m) \in Seq(Nat)
        BY <1>1, QueuedType DEF GreetInv, WireTypes
    <2>2. WireTypes'
        BY <1>1, <1>3, <2>1 DEF GreetInv, WireTypes
    <2> QED BY <1>1, <1>3, <2>2 DEF GreetInv, Greeted, HelloFirst
<1>4. CASE /\ isOpen[connection] /\ UNCHANGED pendingSends
           /\ heard' = [heard EXCEPT ![ws[connection]] = Append(heard[ws[connection]], m)]
    <2> DEFINE s == ws[connection]
    <2>1. s \in Socket /\ heard[s] \in Seq(Nat) /\ heard[s] # <<>>
        BY <1>1, <1>4, CurrentSocket, SdkAssumption
           DEF GreetInv, WireTypes, Greeted, Connection
    <2>2. /\ Append(heard[s], m) \in Seq(Nat) /\ Append(heard[s], m) # <<>>
          /\ Head(Append(heard[s], m)) = Head(heard[s])
        BY <1>1, <2>1, AppendKeepsHead
    <2>3. WireTypes'
        BY <1>1, <1>4, <2>1, <2>2 DEF GreetInv, WireTypes
    <2>4. heard'[s] = Append(heard[s], m) /\ \A t \in Socket : t # s => heard'[t] = heard[t]
        BY <1>4, <2>1 DEF GreetInv, WireTypes
    <2>5. HelloFirst'
        BY <2>1, <2>2, <2>4 DEF GreetInv, HelloFirst
    <2>6. Greeted'
        BY <1>1, <2>2, <2>4 DEF Greeted
    <2> QED BY <2>3, <2>5, <2>6 DEF GreetInv
<1> QED BY <1>2, <1>3, <1>4 DEF Send

LEMMA UrlFetchedKeepsGreeting ==
    ASSUME SocketInv, GreetInv, NEW c \in Connection, UrlFetched(c)
    PROVE  GreetInv'
<1>1. PICK s \in Socket :
         /\ socket[s] = "closed"
         /\ ws' = [ws EXCEPT ![c] = s]
         /\ heard' = [heard EXCEPT ![s] = <<>>]
    BY DEF UrlFetched
<1>2. UNCHANGED <<connection, isOpen, pendingSends, accepted>> /\ fetching[c] # 0
    BY DEF UrlFetched, session
<1>3. WireTypes'
    BY <1>1, <1>2 DEF GreetInv, WireTypes
<1>4. HelloFirst'
    BY <1>1 DEF GreetInv, WireTypes, HelloFirst
<1>5. Greeted'
    <2> SUFFICES ASSUME connection # 0, isOpen[connection]
                 PROVE  heard'[ws'[connection]] # <<>>
        BY <1>2 DEF Greeted
    <2>1. /\ connection \in Connection /\ ws[connection] \in Socket
          /\ socket[ws[connection]] # "closed" /\ owner[ws[connection]] = connection
        BY CurrentSocket
    <2>2. Live(ws[connection])
        BY <2>1 DEF SocketInv, OpenSocket, Live
    <2>3. connection # c
        BY <1>2, <2>1, <2>2 DEF SocketInv, OneThing
    <2>4. ws'[connection] = ws[connection] /\ heard'[ws[connection]] = heard[ws[connection]]
        BY <1>1, <2>1, <2>3 DEF SocketInv, ControlTypes, GreetInv, WireTypes
    <2> QED BY <2>4 DEF GreetInv, Greeted
<1> QED BY <1>3, <1>4, <1>5 DEF GreetInv

LEMMA SocketOpensKeepsGreeting ==
    ASSUME SocketInv, GreetInv, NEW s \in Socket, SocketOpens(s)
    PROVE  GreetInv'
<1>1. /\ owner[s] \in Connection /\ ws[owner[s]] = s /\ owner[s] = connection
    BY SdkAssumption
       DEF SocketOpens, OnOpen, SocketInv, ControlTypes, Owned, IsLast, Live, Connection
<1>2. /\ heard' = [heard EXCEPT ![s] = <<Hello>> \o pendingSends[connection]]
      /\ pendingSends' = [pendingSends EXCEPT ![connection] = <<>>]
      /\ UNCHANGED <<connection, ws, accepted>>
    BY <1>1 DEF SocketOpens, OnOpen, FlushPendingSends
<1>3. pendingSends[connection] \in Seq(Nat)
    BY <1>1 DEF GreetInv, WireTypes
<1>4. /\ heard'[s] \in Seq(Nat) /\ heard'[s] # <<>> /\ Head(heard'[s]) = Hello
      /\ heard' \in [Socket -> Seq(Nat)]
      /\ \A t \in Socket : t # s => heard'[t] = heard[t]
    BY <1>2, <1>3, GreetingFirst DEF GreetInv, WireTypes
<1>5. WireTypes'
    <2>1. <<>> \in Seq(Nat)
        OBVIOUS
    <2> QED BY <1>2, <1>4, <2>1 DEF GreetInv, WireTypes
<1>6. HelloFirst'
    BY <1>4 DEF GreetInv, HelloFirst
<1> QED BY <1>1, <1>2, <1>4, <1>5, <1>6 DEF GreetInv, Greeted

LEMMA AbandonedKeepsGreeting ==
    ASSUME SocketInv, GreetInv, NEW s \in Socket, AbandonedSocketOpens(s)
    PROVE  GreetInv'
<1>1. /\ owner[s] # connection /\ UNCHANGED <<connection, ws, accepted>>
      /\ isOpen' = [isOpen EXCEPT ![owner[s]] = TRUE]
    BY DEF AbandonedSocketOpens, OnOpen
<1>2. connection # 0 => connection \in Connection /\ isOpen'[connection] = isOpen[connection]
    <2>1. connection # 0 => connection \in Connection
        BY SdkAssumption DEF SocketInv, ControlTypes, Connection
    <2> QED BY <1>1, <2>1 DEF SocketInv, ControlTypes
<1>3. CASE UNCHANGED <<heard, pendingSends>>
    BY <1>1, <1>2, <1>3 DEF GreetInv, WireTypes, Greeted, HelloFirst
<1>4. CASE /\ connection # 0 /\ UNCHANGED heard
           /\ pendingSends' = [pendingSends EXCEPT
                                 ![connection] = Queued(pendingSends[connection], Hello)]
    <2>1. Queued(pendingSends[connection], Hello) \in Seq(Nat)
        BY <1>2, <1>4, QueuedType DEF GreetInv, WireTypes, Hello
    <2>2. WireTypes'
        BY <1>1, <1>4, <2>1 DEF GreetInv, WireTypes
    <2> QED BY <1>1, <1>2, <1>4, <2>2 DEF GreetInv, Greeted, HelloFirst
<1>5. CASE /\ connection # 0 /\ isOpen[connection] /\ UNCHANGED pendingSends
           /\ heard' = [t \in Socket |-> IF t = ws[connection] /\ socket[t] = "open"
                                         THEN Append(heard[t], Hello) ELSE heard[t]]
    <2>1. \A t \in Socket :
             /\ heard'[t] \in Seq(Nat) /\ (heard[t] # <<>> => heard'[t] # <<>>)
             /\ heard'[t] # <<>> => Head(heard'[t]) = Hello
        <3> SUFFICES ASSUME NEW t \in Socket
                     PROVE  /\ heard'[t] \in Seq(Nat) /\ (heard[t] # <<>> => heard'[t] # <<>>)
                            /\ heard'[t] # <<>> => Head(heard'[t]) = Hello
            OBVIOUS
        <3>1. heard[t] \in Seq(Nat) /\ Hello \in Nat /\ (heard[t] # <<>> => Head(heard[t]) = Hello)
            BY DEF GreetInv, WireTypes, HelloFirst, Hello
        <3>2. heard'[t] = Append(heard[t], Hello) \/ heard'[t] = heard[t]
            BY <1>5
        <3> QED BY <3>1, <3>2, AppendKeepsHead
    <2>2. heard' \in [Socket -> Seq(Nat)]
        BY <1>5, <2>1
    <2>3. ws[connection] \in Socket
        BY <1>5, CurrentSocket
    <2> QED BY <1>1, <1>2, <1>5, <2>1, <2>2, <2>3 DEF GreetInv, WireTypes, Greeted, HelloFirst
<1> QED BY <1>3, <1>4, <1>5 DEF AbandonedSocketOpens

LEMMA StepKeepsGreeting == SocketInv /\ GreetInv /\ [Next]_vars => GreetInv'
<1> SUFFICES ASSUME SocketInv, GreetInv, [Next]_vars PROVE GreetInv'
    OBVIOUS
<1>1. CASE Close
    <2>1. /\ connection' = 0 /\ UNCHANGED <<heard, accepted>>
          /\ pendingSends' \in [Connection -> Seq(Nat)]
        <3>1. <<>> \in Seq(Nat)
            OBVIOUS
        <3> QED BY <1>1, <3>1 DEF Close, GreetInv, WireTypes
    <2> QED BY <2>1, SilentKeepsGreeting
<1>2. ASSUME NEW s \in Socket, OnError(s) \/ OnClose(s) \/ SocketDies(s)
      PROVE  GreetInv'
    <2>1. UNCHANGED <<heard, accepted, pendingSends, connection, ws>>
        BY <1>2 DEF OnError, OnClose, SocketDies, session
    <2>2. connection # 0 => isOpen'[connection] \in {FALSE, isOpen[connection]}
        <3>1. connection # 0 => connection \in Connection
            BY SdkAssumption DEF SocketInv, ControlTypes, Connection
        <3>2. isOpen' = isOpen \/ isOpen' = [isOpen EXCEPT ![owner[s]] = FALSE]
            BY <1>2 DEF OnError, OnClose, SocketDies
        <3> QED BY <3>1, <3>2 DEF SocketInv, ControlTypes
    <2>3. pendingSends' \in [Connection -> Seq(Nat)]
        BY <2>1 DEF GreetInv, WireTypes
    <2> QED BY <2>1, <2>2, <2>3, SilentKeepsGreeting
<1>3. ASSUME NEW c \in Connection, TimerFires(c) \/ UrlFails(c)
      PROVE  GreetInv'
    <2>1. UNCHANGED <<heard, accepted, pendingSends, connection, ws, isOpen>>
        BY <1>3 DEF TimerFires, UrlFails, session, wire
    <2> QED BY <2>1 DEF GreetInv, WireTypes, Greeted, HelloFirst
<1>4. CASE UNCHANGED vars
    BY <1>4 DEF vars, session, wire, GreetInv, WireTypes, Greeted, HelloFirst
<1>5. ASSUME NEW s \in Socket, SocketStep(s)
      PROVE  GreetInv'
    BY <1>2, <1>5, SocketOpensKeepsGreeting, AbandonedKeepsGreeting DEF SocketStep
<1>6. ASSUME NEW c \in Connection, ConnectionStep(c)
      PROVE  GreetInv'
    BY <1>3, <1>6, UrlFetchedKeepsGreeting DEF ConnectionStep
<1> QED BY <1>1, <1>2, <1>4, <1>5, <1>6, ConnectKeepsGreeting, SendKeepsGreeting DEF Next

(* session_init is the first message of every socket the agent hears anything on,  *)
(* also when the listener of an abandoned socket greets on the session's own.      *)
THEOREM HelloFirstCorrect == Spec => []HelloFirst
<1>1. Init => GreetInv
    BY DEF Init, GreetInv, WireTypes, Greeted, HelloFirst
<1>2. GreetInv => HelloFirst
    BY DEF GreetInv
<1> QED BY <1>1, <1>2, StepKeepsGreeting, SocketInvariant, PTL DEF Spec

--------------------------------------------------------------------------------
(* The messages in a queue. What the recursive function in Messages computes is    *)
(* found by induction over the length of the queue.                                *)
Step(f, q, n) ==
    IF n = 0 THEN <<>>
    ELSE IF q[n] = Hello THEN f[n - 1] ELSE Append(f[n - 1], q[n])

LEMMA TakenExists ==
    ASSUME NEW q \in Seq(Nat)
    PROVE  \E f : f = [n \in 0..Len(q) |-> Step(f, q, n)]
<1> DEFINE Bad == {n \in 0..Len(q) : ~ \E f : f = [i \in 0..n |-> Step(f, q, i)]}
<1>0. Len(q) \in Nat
    BY LenProperties
<1>1. ASSUME Bad # {} PROVE FALSE
    <2>1. PICK n \in Bad : \A k \in Bad : n <= k
        <3>1. Bad \in SUBSET Nat
            BY <1>0
        <3> HIDE DEF Bad
        <3> QED BY <1>1, <3>1, LeastNumber
    <2>2. n \in Nat /\ n <= Len(q)
        BY <1>0
    <2>3. CASE n = 0
        <3> DEFINE f == [i \in 0..0 |-> <<>>]
        <3>1. f = [i \in 0..0 |-> Step(f, q, i)]
            BY DEF Step
        <3> HIDE DEF f
        <3> QED BY <2>3, <3>1
    <2>4. CASE n # 0
        <3>1. n - 1 \in 0..Len(q) /\ n - 1 \notin Bad
            BY <1>0, <2>1, <2>2, <2>4
        <3>2. PICK f : f = [i \in 0..(n - 1) |-> Step(f, q, i)]
            BY <3>1
        <3> DEFINE g == [i \in 0..n |-> IF i = n THEN Step(f, q, n) ELSE f[i]]
        <3>3. \A i \in 0..n : g[i] = Step(g, q, i)
            <4> SUFFICES ASSUME NEW i \in 0..n PROVE g[i] = Step(g, q, i)
                OBVIOUS
            <4>1. i # 0 => g[i - 1] = f[i - 1]
                BY <2>2
            <4>2. Step(g, q, i) = Step(f, q, i)
                BY <4>1 DEF Step
            <4>3. i # n => g[i] = f[i] /\ f[i] = Step(f, q, i)
                <5>1. i # n => i \in 0..(n - 1)
                    BY <2>2
                <5> QED BY <3>2, <5>1
            <4> QED BY <4>2, <4>3
        <3>4. g = [i \in 0..n |-> Step(g, q, i)]
            <4>1. g = [i \in 0..n |-> g[i]]
                OBVIOUS
            <4> HIDE DEF g
            <4> QED BY <3>3, <4>1
        <3> HIDE DEF g
        <3> QED BY <3>4
    <2> QED BY <2>3, <2>4
<1> QED BY <1>0, <1>1

LEMMA TakenIs ==
    ASSUME NEW q \in Seq(Nat)
    PROVE  Taken(q) = [n \in 0..Len(q) |-> Step(Taken(q), q, n)]
<1> DEFINE D(f) == f = [n \in 0..Len(q) |-> Step(f, q, n)]
<1>1. Taken(q) = CHOOSE f : D(f)
    BY DEF Taken, Step
<1>2. \E f : D(f)
    BY TakenExists
<1> HIDE DEF D
<1>3. D(Taken(q))
    BY <1>1, <1>2
<1> QED BY <1>3 DEF D

(* What the first elements of a sequence let through, one at a time. *)
LEMMA TakenNext ==
    ASSUME NEW q \in Seq(Nat)
    PROVE  /\ Len(q) \in Nat
           /\ Taken(q)[0] = <<>>
           /\ \A n \in 1..Len(q) :
                 Taken(q)[n] = IF q[n] = Hello THEN Taken(q)[n - 1]
                               ELSE Append(Taken(q)[n - 1], q[n])
<1>1. Len(q) \in Nat
    BY LenProperties
<1>2. \A n \in 0..Len(q) : Taken(q)[n] = Step(Taken(q), q, n)
    <2>1. PICK f : f = Taken(q)
        OBVIOUS
    <2>2. f = [n \in 0..Len(q) |-> Step(f, q, n)]
        BY <2>1, TakenIs
    <2> QED BY <2>1, <2>2
<1> QED BY <1>1, <1>2 DEF Step

LEMMA TakenType ==
    ASSUME NEW b \in Nat, NEW q \in Seq(0..b)
    PROVE  \A n \in 0..Len(q) : Taken(q)[n] \in Seq(1..b)
<1> DEFINE S == {n \in 0..Len(q) : Taken(q)[n] \in Seq(1..b)}
<1>1. q \in Seq(Nat) /\ Len(q) \in Nat /\ \A n \in 1..Len(q) : q[n] \in 0..b
    BY LenProperties, ElementOfSeq
<1>2. <<>> \in Seq(1..b)
    OBVIOUS
<1>3. 0 \in S
    <2>1. Taken(q)[0] = <<>> /\ 0 \in 0..Len(q)
        BY <1>1, TakenNext
    <2> QED BY <1>2, <2>1
<1>4. ASSUME NEW k \in 1..Len(q), k - 1 \in S PROVE k \in S
    <2>1. Taken(q)[k - 1] \in Seq(1..b)
        BY <1>4
    <2>2. q[k] # Hello => q[k] \in 1..b
        BY <1>1 DEF Hello
    <2>3. q[k] # Hello => Append(Taken(q)[k - 1], q[k]) \in Seq(1..b)
        BY <2>1, <2>2, AppendProperties
    <2>4. Taken(q)[k] \in Seq(1..b)
        BY <1>1, <2>1, <2>3, TakenNext
    <2> QED BY <1>1, <2>4
<1>5. S \in SUBSET (0..Len(q))
    OBVIOUS
<1> HIDE DEF S
<1>6. S = 0..Len(q)
    BY <1>1, <1>3, <1>4, <1>5, UpTo
<1> QED BY <1>6 DEF S

LEMMA MessagesType ==
    ASSUME NEW b \in Nat, NEW q \in Seq(0..b)
    PROVE  Messages(q) \in Seq(1..b)
<1>1. Len(q) \in 0..Len(q)
    BY LenProperties
<1> QED BY <1>1, TakenType DEF Messages

LEMMA MessagesEmpty == Messages(<<>>) = <<>>
<1>1. <<>> \in Seq(Nat) /\ Len(<<>>) = 0
    OBVIOUS
<1> QED BY <1>1, TakenNext DEF Messages

(* A message that is appended comes last; a greeting is none. *)
LEMMA MessagesAppended ==
    ASSUME NEW q \in Seq(Nat), NEW m \in Nat
    PROVE  Messages(Append(q, m)) = IF m = Hello THEN Messages(q)
                                    ELSE Append(Messages(q), m)
<1> DEFINE r == Append(q, m)
           S == {n \in 0..Len(q) : Taken(r)[n] = Taken(q)[n]}
<1>1. /\ r \in Seq(Nat) /\ Len(q) \in Nat /\ Len(r) = Len(q) + 1
      /\ \A n \in 1..Len(q) : r[n] = q[n]
      /\ r[Len(q) + 1] = m
    BY AppendProperties, LenProperties
<1> HIDE DEF r
<1>2. 0 \in S
    BY <1>1, TakenNext
<1>3. ASSUME NEW k \in 1..Len(q), k - 1 \in S PROVE k \in S
    <2>1. k \in 1..Len(r) /\ r[k] = q[k] /\ k \in 0..Len(q)
        BY <1>1
    <2>2. Taken(r)[k - 1] = Taken(q)[k - 1]
        BY <1>3
    <2>3. Taken(r)[k] = IF r[k] = Hello THEN Taken(r)[k - 1]
                        ELSE Append(Taken(r)[k - 1], r[k])
        BY <1>1, <2>1, TakenNext
    <2>4. Taken(q)[k] = IF q[k] = Hello THEN Taken(q)[k - 1]
                        ELSE Append(Taken(q)[k - 1], q[k])
        BY TakenNext
    <2> QED BY <2>1, <2>2, <2>3, <2>4
<1>4. S \in SUBSET (0..Len(q))
    OBVIOUS
<1> HIDE DEF S
<1>5. S = 0..Len(q)
    BY <1>1, <1>2, <1>3, <1>4, UpTo
<1>6. Taken(r)[Len(q)] = Taken(q)[Len(q)]
    BY <1>1, <1>5 DEF S
<1>7. Taken(r)[Len(r)] = IF m = Hello THEN Taken(r)[Len(q)]
                         ELSE Append(Taken(r)[Len(q)], m)
    <2>1. Len(q) + 1 \in 1..Len(r) /\ Len(q) + 1 - 1 = Len(q)
        BY <1>1
    <2>2. Taken(r)[Len(q) + 1] = IF r[Len(q) + 1] = Hello THEN Taken(r)[Len(q)]
                                 ELSE Append(Taken(r)[Len(q)], r[Len(q) + 1])
        BY <1>1, <2>1, TakenNext
    <2> QED BY <1>1, <2>2
<1> QED BY <1>6, <1>7 DEF Messages, r

LEMMA AppendToConcat ==
    ASSUME NEW s \in Seq(Nat), NEW t \in Seq(Nat), NEW e \in Nat
    PROVE  Append(s \o t, e) = s \o Append(t, e)
<1>1. <<e>> \in Seq(Nat) /\ s \o t \in Seq(Nat)
    OBVIOUS
<1>2. Append(s \o t, e) = (s \o t) \o <<e>> /\ Append(t, e) = t \o <<e>>
    BY <1>1, AppendIsConcat
<1>3. (s \o t) \o <<e>> = s \o (t \o <<e>>)
    BY <1>1, ConcatAssociative
<1> QED BY <1>2, <1>3

(* Without its first element, a queue is short of its first message or of none.    *)
LEMMA MessagesOfTail ==
    ASSUME NEW q \in Seq(Nat), q # <<>>
    PROVE  \/ Messages(Tail(q)) = Messages(q)
           \/ Messages(q) # <<>> /\ Messages(Tail(q)) = Tail(Messages(q))
<1> DEFINE r == Tail(q)
           first == IF q[1] = Hello THEN <<>> ELSE <<q[1]>>
           S == {n \in 0..Len(r) : Taken(q)[n + 1] = first \o Taken(r)[n]}
<1>1. /\ r \in Seq(Nat) /\ Len(r) \in Nat /\ Len(q) = Len(r) + 1
      /\ \A n \in 1..Len(r) : r[n] = q[n + 1]
    BY HeadTailProperties, LenProperties, EmptySeq
<1>2. first \in Seq(Nat) /\ first \o <<>> = first
    <2>1. q[1] \in Nat
        BY <1>1, ElementOfSeq
    <2> QED BY <2>1
<1> HIDE DEF r
<1>3. \A n \in 0..Len(r) : Taken(r)[n] \in Seq(Nat)
    <2> DEFINE U == {n \in 0..Len(r) : Taken(r)[n] \in Seq(Nat)}
    <2>1. 0 \in U
        <3>1. <<>> \in Seq(Nat)
            OBVIOUS
        <3>2. Taken(r)[0] = <<>> /\ 0 \in 0..Len(r)
            BY <1>1, TakenNext
        <3> QED BY <3>1, <3>2
    <2>2. ASSUME NEW k \in 1..Len(r), k - 1 \in U PROVE k \in U
        <3>1. Taken(r)[k - 1] \in Seq(Nat) /\ r[k] \in Nat
            BY <1>1, <2>2, ElementOfSeq
        <3>2. Append(Taken(r)[k - 1], r[k]) \in Seq(Nat)
            BY <3>1, AppendProperties
        <3>3. Taken(r)[k] \in Seq(Nat)
            BY <1>1, <3>1, <3>2, TakenNext
        <3> QED BY <1>1, <3>3
    <2>3. U \in SUBSET (0..Len(r))
        OBVIOUS
    <2> HIDE DEF U
    <2>4. U = 0..Len(r)
        BY <1>1, <2>1, <2>2, <2>3, UpTo
    <2> QED BY <2>4 DEF U
<1>4. 0 \in S
    <2>1. 1 \in 1..Len(q) /\ Taken(q)[0] = <<>> /\ Taken(r)[0] = <<>>
        BY <1>1, TakenNext
    <2>2. Taken(q)[1] = IF q[1] = Hello THEN Taken(q)[0] ELSE Append(Taken(q)[0], q[1])
        <3>1. 1 - 1 = 0
            OBVIOUS
        <3> QED BY <2>1, <3>1, TakenNext
    <2>3. Taken(q)[1] = first
        BY <2>1, <2>2
    <2> HIDE DEF first
    <2> QED BY <1>1, <1>2, <2>1, <2>3
<1>5. ASSUME NEW k \in 1..Len(r), k - 1 \in S PROVE k \in S
    <2>1. k \in 0..Len(r) /\ k + 1 \in 1..Len(q) /\ (k + 1) - 1 = k /\ (k - 1) + 1 = k
        BY <1>1
    <2>2. Taken(q)[k] = first \o Taken(r)[k - 1]
        BY <1>5, <2>1
    <2>3. Taken(r)[k] = IF r[k] = Hello THEN Taken(r)[k - 1]
                        ELSE Append(Taken(r)[k - 1], r[k])
        BY <1>1, TakenNext
    <2>4. Taken(q)[k + 1] = IF r[k] = Hello THEN Taken(q)[k]
                            ELSE Append(Taken(q)[k], r[k])
        BY <1>1, <2>1, TakenNext
    <2>5. Taken(r)[k - 1] \in Seq(Nat) /\ r[k] \in Nat
        <3>1. k - 1 \in 0..Len(r)
            BY <1>1
        <3> QED BY <1>1, <1>3, <3>1, ElementOfSeq
    <2> HIDE DEF first
    <2>6. Append(first \o Taken(r)[k - 1], r[k]) = first \o Append(Taken(r)[k - 1], r[k])
        BY <1>2, <2>5, AppendToConcat
    <2> QED BY <2>1, <2>2, <2>3, <2>4, <2>6
<1>6. S \in SUBSET (0..Len(r))
    OBVIOUS
<1>7. Taken(q)[Len(q)] = first \o Taken(r)[Len(r)]
    <2> HIDE DEF S
    <2>1. S = 0..Len(r)
        BY <1>1, <1>4, <1>5, <1>6, UpTo
    <2>2. Len(r) \in S
        BY <1>1, <2>1
    <2>3. Taken(q)[Len(r) + 1] = first \o Taken(r)[Len(r)]
        BY <2>2 DEF S
    <2> QED BY <1>1, <2>3
<1>8. Taken(r)[Len(r)] \in Seq(Nat)
    BY <1>1, <1>3
<1>9. CASE q[1] = Hello
    BY <1>7, <1>8, <1>9 DEF Messages, r
<1>10. CASE q[1] # Hello
    <2>1. q[1] \in Nat
        BY <1>1, ElementOfSeq
    <2>2. <<q[1]>> \o Taken(r)[Len(r)] # <<>>
          /\ Tail(<<q[1]>> \o Taken(r)[Len(r)]) = Taken(r)[Len(r)]
        BY <1>8, <2>1
    <2> QED BY <1>7, <1>10, <2>2 DEF Messages, r
<1> QED BY <1>9, <1>10

--------------------------------------------------------------------------------
(* The messages on their way. Only the session's connection has a queue, and only  *)
(* while it is not open: what is sent at once overtakes nothing.                   *)
DataTypes ==
    /\ state \in {"disconnected", "connecting", "connected"}
    /\ accepted \in 0..MaxMessages
    /\ faults \in 0..MaxFaults
    /\ heard \in [Socket -> Seq(0..MaxMessages)]
    /\ received \in Seq(1..MaxMessages)

QueueTypes ==
    /\ pendingSends \in [Connection -> Seq(0..MaxMessages)]
    /\ \A c \in Connection : Len(pendingSends[c]) <= MaxPendingSends

Waiting ==
    \A c \in Connection : c # connection \/ isOpen[c] => pendingSends[c] = <<>>

MessageInv == DataTypes /\ QueueTypes /\ Waiting

LEMMA Bounds ==
    /\ MaxMessages \in Nat /\ MaxFaults \in Nat
    /\ MaxPendingSends \in Nat /\ MaxPendingSends >= 1
    /\ \A q \in Seq(0..MaxMessages) : q \in Seq(Nat)
<1>1. MaxMessages \in Nat
    BY SdkAssumption
<1>2. ASSUME NEW q \in Seq(0..MaxMessages) PROVE q \in Seq(Nat)
    BY <1>1, LenProperties, ElementOfSeq
<1> QED BY <1>1, <1>2, SdkAssumption

LEMMA QueuedFits ==
    ASSUME NEW q \in Seq(0..MaxMessages), Len(q) <= MaxPendingSends,
           NEW m \in 0..MaxMessages
    PROVE  Queued(q, m) \in Seq(0..MaxMessages) /\ Len(Queued(q, m)) <= MaxPendingSends
<1>1. Len(q) \in Nat /\ Append(q, m) \in Seq(0..MaxMessages) /\ Len(Append(q, m)) = Len(q) + 1
    BY LenProperties, AppendProperties
<1>2. CASE Len(q) = MaxPendingSends
    <2>1. q # <<>>
        BY <1>2, Bounds
    <2>2. Tail(q) \in Seq(0..MaxMessages) /\ Len(Tail(q)) = Len(q) - 1
        BY <2>1, HeadTailProperties
    <2>3. /\ Append(Tail(q), m) \in Seq(0..MaxMessages)
          /\ Len(Append(Tail(q), m)) = Len(Tail(q)) + 1
        BY <2>2, AppendProperties
    <2> QED BY <1>1, <1>2, <2>2, <2>3, Bounds DEF Queued
<1>3. CASE Len(q) # MaxPendingSends
    <2>1. Len(q) + 1 <= MaxPendingSends
        BY <1>1, <1>3, Bounds
    <2>2. Queued(q, m) = Append(q, m)
        BY <1>3 DEF Queued
    <2> QED BY <1>1, <2>1, <2>2
<1> QED BY <1>2, <1>3

(* What waits has its place in the queue of the session's connection.              *)
LEMMA CurrentQueue ==
    ASSUME SocketInv, MessageInv, connection # 0
    PROVE  /\ connection \in Connection
           /\ pendingSends[connection] \in Seq(0..MaxMessages)
           /\ pendingSends[connection] \in Seq(Nat)
           /\ Len(pendingSends[connection]) <= MaxPendingSends
<1>1. connection \in Connection
    BY SdkAssumption DEF SocketInv, ControlTypes, Connection
<1> QED BY <1>1, Bounds DEF MessageInv, QueueTypes

(* One queue is changed, of the session's connection while it is not open.         *)
LEMMA QueueChanged ==
    ASSUME SocketInv, MessageInv, connection # 0, NEW q \in Seq(0..MaxMessages),
           Len(q) <= MaxPendingSends,
           pendingSends' = [pendingSends EXCEPT ![connection] = q],
           UNCHANGED connection,
           \A c \in Connection : isOpen'[c] = isOpen[c] \/ c # connection,
           ~isOpen[connection]
    PROVE  QueueTypes' /\ Waiting'
<1>1. connection \in Connection
    BY CurrentQueue
<1> QED BY <1>1 DEF MessageInv, QueueTypes, Waiting, SocketInv, ControlTypes

LEMMA SendKeepsMessages ==
    ASSUME SocketInv, MessageInv, Send
    PROVE  MessageInv'
<1> DEFINE m == accepted + 1
           s == ws[connection]
<1>1. /\ connection # 0 /\ accepted' = m /\ m \in 1..MaxMessages /\ m \in 0..MaxMessages
      /\ UNCHANGED <<connection, state, isOpen, faults>>
    BY Bounds DEF Send, MessageInv, DataTypes, session
<1>2. CASE isOpen[connection] /\ UNCHANGED pendingSends
    <2>1. s \in Socket
        BY <1>1, <1>2, CurrentSocket
    <2>2. heard' \in [Socket -> Seq(0..MaxMessages)] /\ received' \in Seq(1..MaxMessages)
        <3>1. CASE UNCHANGED <<heard, received>>
            BY <3>1 DEF MessageInv, DataTypes
        <3>2. CASE /\ heard' = [heard EXCEPT ![s] = Append(heard[s], m)]
                   /\ received' = Append(received, m)
            <4>1. Append(heard[s], m) \in Seq(0..MaxMessages)
                BY <1>1, <2>1, AppendProperties DEF MessageInv, DataTypes
            <4>2. Append(received, m) \in Seq(1..MaxMessages)
                BY <1>1, AppendProperties DEF MessageInv, DataTypes
            <4> HIDE DEF m, s
            <4> QED BY <2>1, <3>2, <4>1, <4>2 DEF MessageInv, DataTypes
        <3> QED BY <1>2, <3>1, <3>2 DEF Send
    <2>3. DataTypes'
        BY <1>1, <2>2 DEF MessageInv, DataTypes
    <2> QED BY <1>1, <1>2, <2>3 DEF MessageInv, QueueTypes, Waiting
<1>3. CASE /\ ~isOpen[connection] /\ UNCHANGED <<heard, received>>
           /\ pendingSends' = [pendingSends EXCEPT
                                 ![connection] = Queued(pendingSends[connection], m)]
    <2>1. /\ Queued(pendingSends[connection], m) \in Seq(0..MaxMessages)
          /\ Len(Queued(pendingSends[connection], m)) <= MaxPendingSends
        BY <1>1, CurrentQueue, QueuedFits
    <2>2. QueueTypes' /\ Waiting'
        BY <1>1, <1>3, <2>1, QueueChanged
    <2>3. DataTypes'
        BY <1>1, <1>3 DEF MessageInv, DataTypes
    <2> QED BY <2>2, <2>3 DEF MessageInv
<1> QED BY <1>2, <1>3 DEF Send

LEMMA SocketOpensKeepsMessages ==
    ASSUME SocketInv, MessageInv, NEW s \in Socket, SocketOpens(s)
    PROVE  MessageInv'
<1> DEFINE q == pendingSends[connection]
<1>1. /\ owner[s] = connection /\ connection \in Connection /\ connection # 0
    BY SdkAssumption
       DEF SocketOpens, OnOpen, SocketInv, ControlTypes, Owned, Connection
<1>2. /\ heard' = [heard EXCEPT ![s] = <<Hello>> \o q]
      /\ received' = received \o Messages(q)
      /\ pendingSends' = [pendingSends EXCEPT ![connection] = <<>>]
      /\ isOpen' = [isOpen EXCEPT ![connection] = TRUE]
      /\ state' = "connected"
      /\ UNCHANGED <<connection, accepted, faults>>
    BY <1>1 DEF SocketOpens, OnOpen, FlushPendingSends
<1>3. q \in Seq(0..MaxMessages)
    BY <1>1, CurrentQueue
<1>4. received' \in Seq(1..MaxMessages)
    <2>1. Messages(q) \in Seq(1..MaxMessages)
        BY <1>3, Bounds, MessagesType
    <2> QED BY <1>2, <2>1, ConcatProperties DEF MessageInv, DataTypes
<1>5. heard' \in [Socket -> Seq(0..MaxMessages)]
    <2>1. 0 \in 0..MaxMessages
        BY Bounds
    <2>2. <<Hello>> \in Seq(0..MaxMessages)
        BY <2>1 DEF Hello
    <2>3. <<Hello>> \o q \in Seq(0..MaxMessages)
        BY <1>3, <2>2, ConcatProperties
    <2> QED BY <1>2, <2>3 DEF MessageInv, DataTypes
<1>6. DataTypes'
    BY <1>2, <1>4, <1>5 DEF MessageInv, DataTypes
<1>7. <<>> \in Seq(0..MaxMessages) /\ Len(<<>>) <= MaxPendingSends
    BY Bounds
<1>8. QueueTypes' /\ Waiting'
    BY <1>1, <1>2, <1>7 DEF MessageInv, QueueTypes, Waiting, SocketInv, ControlTypes
<1> QED BY <1>6, <1>8 DEF MessageInv

LEMMA AbandonedKeepsMessages ==
    ASSUME SocketInv, MessageInv, NEW s \in Socket, AbandonedSocketOpens(s)
    PROVE  MessageInv'
<1> DEFINE d == connection
<1>1. /\ owner[s] # d /\ state' = "connected"
      /\ isOpen' = [isOpen EXCEPT ![owner[s]] = TRUE]
      /\ UNCHANGED <<connection, received, accepted, faults>>
    BY DEF AbandonedSocketOpens, OnOpen
<1>2. \A c \in Connection : isOpen'[c] = isOpen[c] \/ c # d
    BY <1>1 DEF SocketInv, ControlTypes
<1>3. CASE UNCHANGED <<heard, pendingSends>>
    BY <1>1, <1>2, <1>3 DEF MessageInv, DataTypes, QueueTypes, Waiting
<1>4. CASE /\ d # 0 /\ ~isOpen[d] /\ UNCHANGED heard
           /\ pendingSends' = [pendingSends EXCEPT ![d] = Queued(pendingSends[d], Hello)]
    <2>1. /\ Queued(pendingSends[d], Hello) \in Seq(0..MaxMessages)
          /\ Len(Queued(pendingSends[d], Hello)) <= MaxPendingSends
        BY <1>4, CurrentQueue, QueuedFits, Bounds DEF Hello
    <2>2. QueueTypes' /\ Waiting'
        BY <1>1, <1>2, <1>4, <2>1, QueueChanged
    <2> QED BY <1>1, <1>4, <2>2 DEF MessageInv, DataTypes
<1>5. CASE /\ UNCHANGED pendingSends
           /\ heard' = [t \in Socket |-> IF t = ws[d] /\ socket[t] = "open"
                                         THEN Append(heard[t], Hello) ELSE heard[t]]
    <2>1. ASSUME NEW t \in Socket PROVE heard'[t] \in Seq(0..MaxMessages)
        <3>1. heard[t] \in Seq(0..MaxMessages) /\ Hello \in 0..MaxMessages
            BY Bounds DEF MessageInv, DataTypes, Hello
        <3>2. Append(heard[t], Hello) \in Seq(0..MaxMessages)
            BY <3>1, AppendProperties
        <3> QED BY <1>5, <3>1, <3>2
    <2>2. heard' \in [Socket -> Seq(0..MaxMessages)]
        BY <1>5, <2>1
    <2> QED BY <1>1, <1>2, <1>5, <2>2 DEF MessageInv, DataTypes, QueueTypes, Waiting
<1> QED BY <1>3, <1>4, <1>5 DEF AbandonedSocketOpens

LEMMA StepKeepsMessages == SocketInv /\ MessageInv /\ [Next]_vars => MessageInv'
<1> SUFFICES ASSUME SocketInv, MessageInv, [Next]_vars PROVE MessageInv'
    OBVIOUS
<1>1. ASSUME Fault \/ UNCHANGED faults PROVE faults' \in 0..MaxFaults
    BY <1>1, Bounds DEF Fault, MessageInv, DataTypes
<1>2. CASE Connect
    <2>1. /\ connection = 0 /\ state' = "connecting"
          /\ UNCHANGED <<isOpen, pendingSends, heard, received, accepted, faults>>
        BY <1>2 DEF Connect, wire
    <2>2. \A c \in Connection : pendingSends[c] = <<>>
        BY <2>1 DEF MessageInv, Waiting, Connection
    <2> QED BY <2>1, <2>2 DEF MessageInv, DataTypes, QueueTypes, Waiting
<1>3. CASE Close
    <2>1. /\ connection \in Connection /\ connection' = 0 /\ state' = "disconnected"
          /\ pendingSends' = [pendingSends EXCEPT ![connection] = <<>>]
          /\ UNCHANGED <<heard, received, accepted, faults>>
        BY <1>3, CurrentQueue DEF Close
    <2>2. <<>> \in Seq(0..MaxMessages) /\ Len(<<>>) <= MaxPendingSends
        BY Bounds
    <2>3. QueueTypes' /\ Waiting'
        BY <2>1, <2>2 DEF MessageInv, QueueTypes, Waiting
    <2> QED BY <2>1, <2>3 DEF MessageInv, DataTypes
<1>4. ASSUME NEW c \in Connection, TimerFires(c) \/ UrlFails(c) PROVE MessageInv'
    <2>1. /\ UNCHANGED <<connection, state, isOpen, pendingSends, heard, received, accepted>>
          /\ Fault \/ UNCHANGED faults
        BY <1>4 DEF TimerFires, UrlFails, session, wire
    <2> QED BY <1>1, <2>1 DEF MessageInv, DataTypes, QueueTypes, Waiting
<1>5. ASSUME NEW c \in Connection, UrlFetched(c) PROVE MessageInv'
    <2>1. PICK s \in Socket : heard' = [heard EXCEPT ![s] = <<>>]
        BY <1>5 DEF UrlFetched
    <2>2. UNCHANGED <<connection, state, isOpen, pendingSends, received, accepted, faults>>
        BY <1>5 DEF UrlFetched, session
    <2>3. heard' \in [Socket -> Seq(0..MaxMessages)]
        <3>1. <<>> \in Seq(0..MaxMessages)
            OBVIOUS
        <3> QED BY <2>1, <3>1 DEF MessageInv, DataTypes
    <2> QED BY <2>2, <2>3 DEF MessageInv, DataTypes, QueueTypes, Waiting
<1>6. ASSUME NEW s \in Socket, OnError(s) \/ OnClose(s) \/ SocketDies(s)
      PROVE  MessageInv'
    <2>1. /\ UNCHANGED <<connection, pendingSends, heard, received, accepted>>
          /\ state' \in {state, "disconnected"}
          /\ Fault \/ UNCHANGED faults
          /\ isOpen' = isOpen \/ isOpen' = [isOpen EXCEPT ![owner[s]] = FALSE]
        BY <1>6 DEF OnError, OnClose, SocketDies, session
    <2>2. \A c \in Connection : isOpen'[c] => isOpen[c]
        BY <2>1 DEF SocketInv, ControlTypes
    <2> QED BY <1>1, <2>1, <2>2 DEF MessageInv, DataTypes, QueueTypes, Waiting
<1>7. CASE UNCHANGED vars
    BY <1>7 DEF vars, session, wire, MessageInv, DataTypes, QueueTypes, Waiting
<1>8. ASSUME NEW s \in Socket, SocketStep(s) PROVE MessageInv'
    BY <1>6, <1>8, SocketOpensKeepsMessages, AbandonedKeepsMessages DEF SocketStep
<1>9. ASSUME NEW c \in Connection, ConnectionStep(c) PROVE MessageInv'
    BY <1>4, <1>5, <1>9 DEF ConnectionStep
<1> QED BY <1>2, <1>3, <1>6, <1>7, <1>8, <1>9, SendKeepsMessages DEF Next

LEMMA MessageInvariant == Spec => []MessageInv
<1>1. Init => MessageInv
    <2> SUFFICES ASSUME Init PROVE MessageInv
        OBVIOUS
    <2>1. <<>> \in Seq(0..MaxMessages) /\ <<>> \in Seq(1..MaxMessages)
          /\ Len(<<>>) <= MaxPendingSends
        BY Bounds
    <2>2. DataTypes
        BY <2>1, Bounds DEF Init, DataTypes
    <2> QED BY <2>1, <2>2 DEF Init, MessageInv, QueueTypes, Waiting
<1> QED BY <1>1, StepKeepsMessages, SocketInvariant, PTL DEF Spec

(* The state keeps its types: no queue outgrows maxPendingSends, no connection has *)
(* two timers or waits for two tickets, and no retry is beyond the last.           *)
THEOREM TypeCorrect == Spec => []TypeOK
<1>1. SocketInv /\ MessageInv => TypeOK
    <2> SUFFICES ASSUME SocketInv, MessageInv PROVE TypeOK
        OBVIOUS
    <2>1. ControlTypes /\ DataTypes /\ QueueTypes
        BY DEF SocketInv, MessageInv
    <2> QED BY <2>1 DEF ControlTypes, DataTypes, QueueTypes, SocketState, TypeOK
<1> QED BY <1>1, SocketInvariant, MessageInvariant, PTL

--------------------------------------------------------------------------------
(* The session implements its promise. *)
Out == IF connection = 0 THEN <<>> ELSE Messages(pendingSends[connection])

(* The steps of Outbox, in the names of the mapping.                               *)
OutboxStep ==
    \/ /\ accepted' = accepted + 1
       /\ \/ Out = <<>> /\ Out' = Out /\ received' \in {received, Append(received, accepted')}
          \/ Out' = Append(Out, accepted') /\ UNCHANGED received
          \/ Out # <<>> /\ Out' = Append(Tail(Out), accepted') /\ UNCHANGED received
    \/ /\ UNCHANGED accepted
       /\ \/ Out # <<>> /\ Out' = Tail(Out) /\ UNCHANGED received
          \/ Out' = <<>> /\ received' = received \o Out
          \/ Out' = <<>> /\ UNCHANGED received
          \/ Out' = Out /\ UNCHANGED received

(* What queueing does to the messages that wait: it may drop the oldest.           *)
LEMMA QueuedMessages ==
    ASSUME NEW q \in Seq(Nat), NEW m \in Nat
    PROVE  \E p \in Seq(Nat) :
              /\ Messages(Queued(q, m)) = IF m = Hello THEN Messages(p)
                                          ELSE Append(Messages(p), m)
              /\ \/ Messages(p) = Messages(q)
                 \/ Messages(q) # <<>> /\ Messages(p) = Tail(Messages(q))
<1>1. CASE Len(q) = MaxPendingSends
    <2>1. q # <<>>
        BY <1>1, Bounds
    <2>2. Tail(q) \in Seq(Nat)
        BY <2>1, HeadTailProperties
    <2> QED BY <1>1, <2>1, <2>2, MessagesAppended, MessagesOfTail DEF Queued
<1>2. CASE Len(q) # MaxPendingSends
    BY <1>2, MessagesAppended DEF Queued
<1> QED BY <1>1, <1>2

LEMMA SendImplements ==
    ASSUME SocketInv, MessageInv, Send
    PROVE  OutboxStep
<1> DEFINE q == pendingSends[connection]
           m == accepted + 1
<1>1. /\ connection \in Connection /\ connection # 0 /\ q \in Seq(Nat)
      /\ accepted' = m /\ m \in Nat /\ m # Hello /\ UNCHANGED connection
    BY CurrentQueue, Bounds DEF Send, session, MessageInv, DataTypes, Hello
<1>2. Out = Messages(q) /\ Out' = Messages(pendingSends'[connection])
    BY <1>1 DEF Out
<1>3. CASE isOpen[connection] /\ UNCHANGED pendingSends
    <2>1. q = <<>>
        BY <1>1, <1>3 DEF MessageInv, Waiting
    <2>2. Out = <<>> /\ Out' = Out
        BY <1>2, <1>3, <2>1, MessagesEmpty
    <2>3. received' \in {received, Append(received, accepted')}
        BY <1>1, <1>3 DEF Send
    <2> QED BY <1>1, <2>2, <2>3 DEF OutboxStep
<1>4. CASE /\ pendingSends' = [pendingSends EXCEPT ![connection] = Queued(q, m)]
           /\ UNCHANGED received
    <2>1. pendingSends'[connection] = Queued(q, m)
        BY <1>1, <1>4 DEF MessageInv, QueueTypes
    <2>2. PICK p \in Seq(Nat) :
             /\ Messages(Queued(q, m)) = Append(Messages(p), m)
             /\ \/ Messages(p) = Messages(q)
                \/ Messages(q) # <<>> /\ Messages(p) = Tail(Messages(q))
        <3> HIDE DEF q, m
        <3> QED BY <1>1, QueuedMessages
    <2>3. \/ Out' = Append(Out, accepted')
          \/ Out # <<>> /\ Out' = Append(Tail(Out), accepted')
        BY <1>1, <1>2, <2>1, <2>2
    <2> QED BY <1>1, <1>4, <2>3 DEF OutboxStep
<1> QED BY <1>3, <1>4 DEF Send

LEMMA SocketOpensImplements ==
    ASSUME SocketInv, MessageInv, NEW s \in Socket, SocketOpens(s)
    PROVE  OutboxStep
<1> DEFINE q == pendingSends[connection]
<1>1. /\ owner[s] = connection /\ connection \in Connection /\ connection # 0
    BY SdkAssumption
       DEF SocketOpens, OnOpen, SocketInv, ControlTypes, Owned, Connection
<1>2. /\ received' = received \o Messages(q)
      /\ pendingSends' = [pendingSends EXCEPT ![connection] = <<>>]
      /\ UNCHANGED <<connection, accepted>>
    BY <1>1 DEF SocketOpens, OnOpen, FlushPendingSends
<1>3. Out = Messages(q) /\ Out' = Messages(<<>>)
    BY <1>1, <1>2 DEF Out, MessageInv, QueueTypes
<1> QED BY <1>2, <1>3, MessagesEmpty DEF OutboxStep

LEMMA AbandonedImplements ==
    ASSUME SocketInv, MessageInv, NEW s \in Socket, AbandonedSocketOpens(s)
    PROVE  OutboxStep
<1> DEFINE q == pendingSends[connection]
<1>1. UNCHANGED <<connection, received, accepted>>
    BY DEF AbandonedSocketOpens, OnOpen
<1>2. CASE UNCHANGED pendingSends
    BY <1>1, <1>2 DEF OutboxStep, Out
<1>3. CASE /\ connection # 0
           /\ pendingSends' = [pendingSends EXCEPT ![connection] = Queued(q, Hello)]
    <2>1. /\ q \in Seq(Nat) /\ connection \in Connection /\ Hello \in Nat
        BY <1>3, CurrentQueue DEF Hello
    <2>2. pendingSends'[connection] = Queued(q, Hello)
        BY <1>3, <2>1 DEF MessageInv, QueueTypes
    <2>3. Out = Messages(q) /\ Out' = Messages(Queued(q, Hello))
        BY <1>1, <1>3, <2>2 DEF Out
    <2>4. PICK p \in Seq(Nat) :
             /\ Messages(Queued(q, Hello)) = Messages(p)
             /\ \/ Messages(p) = Messages(q)
                \/ Messages(q) # <<>> /\ Messages(p) = Tail(Messages(q))
        <3> HIDE DEF q
        <3> QED BY <2>1, QueuedMessages
    <2> QED BY <1>1, <2>3, <2>4 DEF OutboxStep
<1> QED BY <1>2, <1>3 DEF AbandonedSocketOpens

LEMMA StepImplements ==
    ASSUME SocketInv, MessageInv, [Next]_vars
    PROVE  OutboxStep
<1>1. CASE UNCHANGED <<connection, pendingSends, received, accepted>>
    BY <1>1 DEF OutboxStep, Out
<1>2. CASE Connect
    <2>1. /\ connection = 0 /\ connection' \in Connection /\ connection' # 0
          /\ UNCHANGED <<pendingSends, received, accepted>>
        BY <1>2, SdkAssumption DEF Connect, wire, SocketInv, ControlTypes, Connection
    <2>2. pendingSends'[connection'] = <<>>
        BY <2>1 DEF MessageInv, Waiting
    <2>3. Out = <<>> /\ Out' = <<>>
        BY <2>1, <2>2, MessagesEmpty DEF Out
    <2> QED BY <2>1, <2>3 DEF OutboxStep
<1>3. CASE Close
    <2>1. connection' = 0 /\ UNCHANGED <<received, accepted>>
        BY <1>3 DEF Close
    <2> QED BY <2>1 DEF OutboxStep, Out
<1>4. ASSUME NEW c \in Connection, ConnectionStep(c)
      PROVE  UNCHANGED <<connection, pendingSends, received, accepted>>
    BY <1>4 DEF ConnectionStep, TimerFires, UrlFetched, UrlFails, session, wire
<1>5. ASSUME NEW s \in Socket, OnError(s) \/ OnClose(s) \/ SocketDies(s)
      PROVE  UNCHANGED <<connection, pendingSends, received, accepted>>
    BY <1>5 DEF OnError, OnClose, SocketDies, session
<1>6. CASE UNCHANGED vars
    BY <1>1, <1>6 DEF vars, session, wire
<1>7. ASSUME NEW s \in Socket, SocketStep(s) PROVE OutboxStep
    BY <1>1, <1>5, <1>7, SocketOpensImplements, AbandonedImplements DEF SocketStep
<1> QED BY <1>1, <1>2, <1>3, <1>4, <1>5, <1>6, <1>7, SendImplements DEF Next

(* The session keeps the promise of Outbox: messages reach the agent in the order  *)
(* of the calls, at most once each, whatever becomes of sockets and tickets, and   *)
(* whichever connection's listener greets.                                         *)
THEOREM ImplementsCorrect == Spec => Implements
<1>1. Init => Promised!Init
    BY DEF Init, Promised!Init
<1>2. SocketInv /\ MessageInv /\ [Next]_vars => [Promised!Next]_(Promised!vars)
    <2> SUFFICES ASSUME OutboxStep PROVE [Promised!Next]_(Promised!vars)
        BY StepImplements
    <2> QED BY DEF OutboxStep, Out, Promised!Next, Promised!vars, Promised!Accept,
                   Promised!SendNow, Promised!Wait, Promised!WaitAndDropOldest,
                   Promised!DropOldest, Promised!Flush, Promised!Discard
<1> QED BY <1>1, <1>2, SocketInvariant, MessageInvariant, PTL
        DEF Implements, Promised!Spec, Spec

================================================================================
