---------------------------- MODULE UdpSockets -----------------------------
(***************************************************************************)
(* The UDP half of the SocketTable of src/sockets.rs: sockets bound to     *)
(* addresses by a call or by their first send, and datagrams put into the  *)
(* queue of the socket registered at their destination.  nextHandle and    *)
(* nextPort are shared with TCP.                                           *)
(*                                                                         *)
(* An address is a port of the one simulated host; of a datagram only the  *)
(* source is kept.  Calls that fail without a change are no step.          *)
(***************************************************************************)
EXTENDS Integers, SequencesExt

CONSTANTS
    MaxPort,         \* the largest port (u16::MAX)
    FirstEphemeral,  \* the first port given to a socket that has none
    ExplicitPorts,   \* the ports programs ask for themselves
    None,            \* Option::None
    OverflowChecks,  \* TRUE: `+= 1` panics on overflow (debug); FALSE: it wraps
    MaxHandle,       \* bound: sockets ever created (below 2^32)
    MaxQueue         \* bound: datagrams waiting at one socket

Port == 0 .. MaxPort

VARIABLES
    udp,         \* the open sockets
    boundUdp,    \* the socket registered at each address
    nextHandle,  \* the handle of the next socket
    nextPort     \* the next ephemeral port

udpVars == <<udp, boundUdp, nextHandle, nextPort>>

NewSocket == [local |-> None, reuse |-> FALSE, queue |-> <<>>]

Init ==
    /\ udp = [h \in {} |-> NewSocket]
    /\ boundUdp = [a \in {} |-> 1]
    /\ nextHandle = 1
    /\ nextPort = FirstEphemeral

-----------------------------------------------------------------------------
Opened == DOMAIN udp

Create ==
    /\ nextHandle <= MaxHandle
    /\ nextHandle' = nextHandle + 1
    /\ udp' = [h \in Opened \union {nextHandle} |-> IF h = nextHandle THEN NewSocket ELSE udp[h]]
    /\ UNCHANGED <<boundUdp, nextPort>>

\* options_mut.
SetReuse(h, reuse) ==
    /\ udp' = [udp EXCEPT ![h].reuse = reuse]
    /\ UNCHANGED <<boundUdp, nextHandle, nextPort>>

\* With reuse_address the socket takes the address over from the one registered.
Bind(h, a) ==
    /\ udp[h].local = None
    /\ a \in DOMAIN boundUdp => udp[h].reuse
    /\ udp' = [udp EXCEPT ![h].local = a]
    /\ boundUdp' = [b \in DOMAIN boundUdp \union {a} |-> IF b = a THEN h ELSE boundUdp[b]]
    /\ UNCHANGED <<nextHandle, nextPort>>

\* The socket takes the next ephemeral port, which is not registered; the counter
\* panics (before the socket is changed) or wraps at the end of the range.
AutoBind ==
    /\ OverflowChecks => nextPort < MaxPort
    /\ nextPort' = (nextPort + 1) % (MaxPort + 1)

Reaches(a) == a \in DOMAIN boundUdp /\ boundUdp[a] \in Opened

SendTo(h, remote) ==
    LET local == IF udp[h].local = None THEN nextPort ELSE udp[h].local
        sender == [udp EXCEPT ![h].local = local]
        target == boundUdp[remote]
    IN
    /\ IF udp[h].local = None THEN AutoBind ELSE UNCHANGED nextPort
    /\ \/ /\ Reaches(remote)
          /\ Len(udp[target].queue) < MaxQueue
          /\ udp' = [sender EXCEPT ![target].queue = Append(@, local)]
       \/ /\ ~ Reaches(remote)
          /\ udp' = sender
    /\ UNCHANGED <<boundUdp, nextHandle>>

ReceiveFrom(h) ==
    /\ udp[h].queue # <<>>
    /\ udp' = [udp EXCEPT ![h].queue = Tail(@)]
    /\ UNCHANGED <<boundUdp, nextHandle, nextPort>>

\* udp_deliver: a datagram from elsewhere arrives.
Deliver(h, source) ==
    /\ Len(udp[h].queue) < MaxQueue
    /\ udp' = [udp EXCEPT ![h].queue = Append(@, source)]
    /\ UNCHANGED <<boundUdp, nextHandle, nextPort>>

\* Slip: the address is not released.
CloseKeepsAddress(h) ==
    /\ udp' = [k \in Opened \ {h} |-> udp[k]]
    /\ UNCHANGED <<boundUdp, nextHandle, nextPort>>

\* The address of the socket is released, whoever is registered there.
Close(h) ==
    /\ boundUdp' = [a \in DOMAIN boundUdp \ {udp[h].local} |-> boundUdp[a]]
    /\ udp' = [k \in Opened \ {h} |-> udp[k]]
    /\ UNCHANGED <<nextHandle, nextPort>>

\* A call on a handle that was closed fails (BadHandle).
BadHandle ==
    /\ Opened # 1 .. nextHandle - 1
    /\ UNCHANGED udpVars

-----------------------------------------------------------------------------
Next ==
    \/ Create
    \/ BadHandle
    \/ \E h \in Opened :
        \/ \E reuse \in BOOLEAN : SetReuse(h, reuse)
        \/ \E a \in ExplicitPorts : Bind(h, a) \/ SendTo(h, a) \/ Deliver(h, a)
        \/ ReceiveFrom(h)
        \/ Close(h)

Spec == Init /\ [][Next]_udpVars

-----------------------------------------------------------------------------
(***************************************************************************)
(* Properties.                                                             *)
(***************************************************************************)

\* Sockets, registrations and counters have their types.
TypeOK ==
    /\ Opened \subseteq 1 .. nextHandle - 1
    /\ \A h \in Opened : udp[h] \in [local : Port \union {None}, reuse : BOOLEAN, queue : Seq(Port)]
    /\ DOMAIN boundUdp \subseteq Port
    /\ nextHandle \in 1 .. MaxHandle + 1
    /\ nextPort \in Port

\* A datagram never goes to a socket that is closed or that is bound elsewhere,
\* through any take-over by reuse_address and any order of closing.
RegisteredAreOpen ==
    \A a \in DOMAIN boundUdp : boundUdp[a] \in Opened /\ udp[boundUdp[a]].local = a
=============================================================================
