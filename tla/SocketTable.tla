---------------------------- MODULE SocketTable ----------------------------
(***************************************************************************)
(* The SocketTable of src/sockets.rs as a whole: TCP and UDP sockets take  *)
(* their handles and their ephemeral ports from the same two counters.     *)
(***************************************************************************)
EXTENDS Integers

CONSTANTS
    MaxPort,         \* the largest port (u16::MAX)
    FirstEphemeral,  \* the first port given to a socket that has none
    ExplicitPorts,   \* the ports programs ask for themselves
    None,            \* Option::None
    OverflowChecks,  \* TRUE: `+= 1` panics on overflow (debug); FALSE: it wraps
    MaxHandle,       \* bound: sockets ever created (below 2^32)
    MaxBytes,        \* bound: bytes sent and bytes delivered to one TCP socket
    MaxQueue         \* bound: datagrams waiting at one UDP socket

ASSUME PortAssumption ==
    /\ MaxPort \in Nat
    /\ FirstEphemeral \in 0 .. MaxPort /\ ExplicitPorts \subseteq 0 .. MaxPort
    /\ None \notin 0 .. MaxPort
ASSUME SwitchAssumption == OverflowChecks \in BOOLEAN
ASSUME BoundAssumption == MaxHandle \in Nat /\ MaxBytes \in Nat /\ MaxQueue \in Nat

VARIABLES tcp, boundTcp, udp, boundUdp, nextHandle, nextPort

vars == <<tcp, boundTcp, udp, boundUdp, nextHandle, nextPort>>

Tcp == INSTANCE TcpSockets
Udp == INSTANCE UdpSockets

Init == Tcp!Init /\ Udp!Init

Next == \/ Tcp!Next /\ UNCHANGED <<udp, boundUdp>>
        \/ Udp!Next /\ UNCHANGED <<tcp, boundTcp>>

Spec == Init /\ [][Next]_vars

-----------------------------------------------------------------------------
(***************************************************************************)
(* Properties.                                                             *)
(***************************************************************************)

\* Both halves keep their types when the other takes handles and ports in between,
\* and no handle names a TCP socket and a UDP socket.
TypeOK == Tcp!TypeOK /\ Udp!TypeOK /\ DOMAIN tcp \intersect DOMAIN udp = {}

\* Through binds, refused connections and closes of both protocols: each listener
\* has its address to itself, and a client waits in one place of one queue, that
\* of a listener at the address it connected to.
ListenersServe == TypeOK /\ Tcp!ListenersBound /\ Tcp!QueuedOnce

\* What each half promises of its clients and its registrations still holds of
\* the two together.
AcceptedOnce == Tcp!AcceptedOnce
RegisteredAreOpen == Udp!RegisteredAreOpen
=============================================================================
