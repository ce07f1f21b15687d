---------------------------- MODULE TcpSockets -----------------------------
(***************************************************************************)
(* The TCP half of the SocketTable of src/sockets.rs: sockets that connect *)
(* in two calls, listeners with a queue of clients, and the map from       *)
(* addresses to listeners.  nextHandle and nextPort are shared with UDP.   *)
(*                                                                         *)
(* An address is a port of the one simulated host; buffers are lengths.    *)
(* Calls that fail without a change are no step.                           *)
(***************************************************************************)
EXTENDS Integers, SequencesExt

CONSTANTS
    MaxPort,         \* the largest port (u16::MAX)
    FirstEphemeral,  \* the first port given to a socket that has none
    ExplicitPorts,   \* the ports programs ask for themselves
    None,            \* Option::None
    OverflowChecks,  \* TRUE: `+= 1` panics on overflow (debug); FALSE: it wraps
    MaxHandle,       \* bound: sockets ever created (below 2^32)
    MaxBytes         \* bound: bytes sent and bytes delivered to one socket

Port == 0 .. MaxPort

Handle == 1 .. MaxHandle

VARIABLES
    tcp,         \* the open sockets
    boundTcp,    \* the listener of each address
    nextHandle,  \* the handle of the next socket
    nextPort     \* the next ephemeral port

tcpVars == <<tcp, boundTcp, nextHandle, nextPort>>

NewSocket == [state |-> "Closed", local |-> None, remote |-> None, reuse |-> FALSE,
              queue |-> <<>>, recv |-> 0, received |-> 0, sent |-> 0]

Init ==
    /\ tcp = [h \in {} |-> NewSocket]
    /\ boundTcp = [a \in {} |-> 1]
    /\ nextHandle = 1
    /\ nextPort = FirstEphemeral

-----------------------------------------------------------------------------
Opened == DOMAIN tcp
In(h, state) == h \in Opened /\ tcp[h].state = state

Added(socket) == [k \in Opened \union {nextHandle} |-> IF k = nextHandle THEN socket ELSE tcp[k]]
AllocHandle == nextHandle <= MaxHandle /\ nextHandle' = nextHandle + 1

Create ==
    /\ AllocHandle
    /\ tcp' = Added(NewSocket)
    /\ UNCHANGED <<boundTcp, nextPort>>

\* options_mut.
SetReuse(h, reuse) ==
    /\ tcp' = [tcp EXCEPT ![h].reuse = reuse]
    /\ UNCHANGED <<boundTcp, nextHandle, nextPort>>

\* The address is compared with those of listeners only, and is not recorded.
Bind(h, a) ==
    /\ In(h, "Closed")
    /\ a \in DOMAIN boundTcp => tcp[h].reuse
    /\ tcp' = [tcp EXCEPT ![h].local = a]
    /\ UNCHANGED <<boundTcp, nextHandle, nextPort>>

\* The socket takes the next ephemeral port; the counter panics (before the
\* socket is changed) or wraps at the end of the range.
AutoBind ==
    /\ OverflowChecks => nextPort < MaxPort
    /\ nextPort' = (nextPort + 1) % (MaxPort + 1)

StartConnect(h, remote) ==
    /\ In(h, "Closed")
    /\ IF tcp[h].local = None THEN AutoBind ELSE UNCHANGED nextPort
    /\ tcp' = [tcp EXCEPT ![h].local = IF @ = None THEN nextPort ELSE @,
                          ![h].remote = remote,
                          ![h].state = "Connecting"]
    /\ UNCHANGED <<boundTcp, nextHandle>>

\* Slip: a connected socket may finish connecting once more.
FinishConnectAgain(h) ==
    /\ In(h, "Connecting") \/ In(h, "Connected")
    /\ tcp[h].remote \in DOMAIN boundTcp
    /\ tcp' = [tcp EXCEPT ![h].state = "Connected",
                          ![boundTcp[tcp[h].remote]].queue = Append(@, h)]
    /\ UNCHANGED <<boundTcp, nextHandle, nextPort>>

\* A listener at the remote address queues the client; without one the client is
\* Closed again (ConnectionRefused).
FinishConnect(h) ==
    /\ In(h, "Connecting")
    /\ LET remote == tcp[h].remote IN
       \/ /\ remote \in DOMAIN boundTcp
          /\ LET connected == [tcp EXCEPT ![h].state = "Connected"]
                 listener == boundTcp[remote]
             IN tcp' = IF listener \in Opened
                       THEN [connected EXCEPT ![listener].queue = Append(@, h)]
                       ELSE connected
       \/ /\ remote \notin DOMAIN boundTcp
          /\ tcp' = [tcp EXCEPT ![h].state = "Closed", ![h].remote = None]
    /\ UNCHANGED <<boundTcp, nextHandle, nextPort>>

StartListen(h) ==
    /\ In(h, "Closed")
    /\ LET a == tcp[h].local IN
       /\ a # None
       /\ a \in DOMAIN boundTcp => boundTcp[a] = h
       /\ boundTcp' = [k \in DOMAIN boundTcp \union {a} |-> IF k = a THEN h ELSE boundTcp[k]]
    /\ tcp' = [tcp EXCEPT ![h].state = "Listening"]
    /\ UNCHANGED <<nextHandle, nextPort>>

\* The first client of the queue, which may have been closed since, gets a peer.
Accept(h) ==
    /\ In(h, "Listening")
    /\ tcp[h].queue # <<>>
    /\ AllocHandle
    /\ LET client == Head(tcp[h].queue)
           peer == [NewSocket EXCEPT !.state = "Connected",
                                     !.local = tcp[h].local,
                                     !.remote = IF client \in Opened THEN tcp[client].local ELSE None]
       IN tcp' = [Added(peer) EXCEPT ![h].queue = Tail(@)]
    /\ UNCHANGED <<boundTcp, nextPort>>

\* What is sent stays in the send buffer of the socket.
Send(h, n) ==
    /\ In(h, "Connected")
    /\ tcp[h].sent + n <= MaxBytes
    /\ tcp' = [tcp EXCEPT ![h].sent = @ + n]
    /\ UNCHANGED <<boundTcp, nextHandle, nextPort>>

Recv(h, maxLen) ==
    /\ In(h, "Connected")
    /\ tcp[h].recv > 0
    /\ LET n == IF maxLen <= tcp[h].recv THEN maxLen ELSE tcp[h].recv IN
       tcp' = [tcp EXCEPT ![h].recv = @ - n, ![h].received = @ + n]
    /\ UNCHANGED <<boundTcp, nextHandle, nextPort>>

\* Data arrives for a socket, whatever its state.
Deliver(h, n) ==
    /\ tcp[h].recv + tcp[h].received + n <= MaxBytes
    /\ tcp' = [tcp EXCEPT ![h].recv = @ + n]
    /\ UNCHANGED <<boundTcp, nextHandle, nextPort>>

\* Slip: the address is released whoever listens there.
CloseReleasesAny(h) ==
    /\ boundTcp' = [b \in DOMAIN boundTcp \ {tcp[h].local} |-> boundTcp[b]]
    /\ tcp' = [k \in Opened \ {h} |-> tcp[k]]
    /\ UNCHANGED <<nextHandle, nextPort>>

Close(h) ==
    /\ LET a == tcp[h].local
           released == {b \in DOMAIN boundTcp : b = a /\ boundTcp[b] = h}
       IN boundTcp' = [b \in DOMAIN boundTcp \ released |-> boundTcp[b]]
    /\ tcp' = [k \in Opened \ {h} |-> tcp[k]]
    /\ UNCHANGED <<nextHandle, nextPort>>

\* A call on a handle that was closed fails (BadHandle).
BadHandle ==
    /\ Opened # 1 .. nextHandle - 1
    /\ UNCHANGED tcpVars

-----------------------------------------------------------------------------
Next ==
    \/ Create
    \/ BadHandle
    \/ \E h \in Opened :
        \/ \E reuse \in BOOLEAN : SetReuse(h, reuse)
        \/ \E a \in ExplicitPorts : Bind(h, a)
        \/ \E a \in ExplicitPorts : StartConnect(h, a)
        \/ FinishConnect(h)
        \/ StartListen(h)
        \/ Accept(h)
        \/ \E n \in 1 .. MaxBytes : Send(h, n) \/ Recv(h, n) \/ Deliver(h, n)
        \/ Close(h)

Spec == Init /\ [][Next]_tcpVars

-----------------------------------------------------------------------------
(***************************************************************************)
(* Properties.                                                             *)
(***************************************************************************)

Socket == [state : {"Closed", "Connecting", "Connected", "Listening"},
           local : Port \union {None}, remote : Port \union {None}, reuse : BOOLEAN,
           queue : Seq(Handle), recv : Nat, received : Nat, sent : Nat]

\* The sockets, listeners and counters have their types; a connecting socket has
\* both its addresses (the NotConnected branch of tcp_finish_connect is dead).
TypeOK ==
    /\ Opened \subseteq 1 .. nextHandle - 1
    /\ \A h \in Opened :
        /\ tcp[h] \in Socket
        /\ tcp[h].state = "Connecting" => None \notin {tcp[h].local, tcp[h].remote}
    /\ DOMAIN boundTcp \subseteq Port
    /\ \A a \in DOMAIN boundTcp : boundTcp[a] \in Handle
    /\ nextHandle \in 1 .. MaxHandle + 1
    /\ nextPort \in Port

\* The map of listeners and the sockets agree after any mix of binds (with and
\* without reuse_address), refused connections and closes: each address has at
\* most one listener, open and listening there, and each listener its address.
ListenersBound ==
    /\ \A a \in DOMAIN boundTcp : In(boundTcp[a], "Listening") /\ tcp[boundTcp[a]].local = a
    /\ \A h \in Opened : In(h, "Listening") =>
           tcp[h].local \in DOMAIN boundTcp /\ boundTcp[tcp[h].local] = h

Places(c) == UNION {{h} \X {k \in DOMAIN tcp[h].queue : tcp[h].queue[k] = c} : h \in Opened}

\* A client waits in one place of one queue, that of a listener at the address it
\* connected to, and is then Connected if it is still open.
QueuedOnce ==
    \A c \in Handle :
        /\ \A x, y \in Places(c) : x = y
        /\ \A x \in Places(c) :
            /\ In(x[1], "Listening")
            /\ c \in Opened => In(c, "Connected") /\ tcp[c].remote = tcp[x[1]].local

\* A client that was accepted, or whose listener closed, or that was closed, is
\* never queued again: no client gets two peers.
AcceptedOnce ==
    [][\A c \in 1 .. nextHandle - 1 :
           Places(c) = {} /\ (c \in Opened => In(c, "Connected")) => Places(c)' = {}]_tcpVars

=============================================================================
