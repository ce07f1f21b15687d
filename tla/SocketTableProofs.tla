-------------------------- MODULE SocketTableProofs -------------------------
(***************************************************************************)
(* What SocketTable promises for any ports and any number of sockets: the  *)
(* halves keep their types and their registries whatever the other does to *)
(* the two counters they share.                                            *)
(***************************************************************************)
EXTENDS SocketTable, SequenceTheorems, TLAPS

-----------------------------------------------------------------------------
(***************************************************************************)
(* The shared counters.                                                    *)
(***************************************************************************)

\* A step takes at most one handle, and at most one port.
CounterStep ==
    /\ nextHandle' \in {nextHandle, nextHandle + 1} /\ nextHandle' \in 1 .. MaxHandle + 1
    /\ nextPort' \in 0 .. MaxPort

CountersTyped == nextHandle \in 1 .. MaxHandle + 1 /\ nextPort \in 0 .. MaxPort

LEMMA PortWraps ==
    ASSUME nextPort \in 0 .. MaxPort
    PROVE  (nextPort + 1) % (MaxPort + 1) \in 0 .. MaxPort
<1>1. MaxPort \in Nat
  BY PortAssumption
<1>2. CASE nextPort = MaxPort
  <2>1. (MaxPort + 1) % (MaxPort + 1) = 0
    BY <1>1
  <2> QED BY <1>1, <1>2, <2>1
<1>3. CASE nextPort < MaxPort
  BY <1>1, <1>3
<1> QED BY <1>1, <1>2, <1>3

LEMMA TcpCounters == ASSUME CountersTyped, Tcp!Next PROVE CounterStep
<1> USE PortWraps, PortAssumption, BoundAssumption DEF CountersTyped, CounterStep
<1>1. CASE Tcp!Create
  BY <1>1 DEF Tcp!Create, Tcp!AllocHandle
<1>2. ASSUME NEW h \in DOMAIN tcp, NEW a \in ExplicitPorts, Tcp!StartConnect(h, a)
      PROVE  CounterStep
  BY <1>2 DEF Tcp!StartConnect, Tcp!AutoBind
<1>3. ASSUME NEW h \in DOMAIN tcp, Tcp!Accept(h) PROVE CounterStep
  <2>1. Tcp!AllocHandle /\ UNCHANGED nextPort
    BY ONLY <1>3 DEF Tcp!Accept
  <2> QED BY <2>1 DEF Tcp!AllocHandle
<1>4. CASE UNCHANGED <<nextHandle, nextPort>>
  BY <1>4
<1> QED BY <1>1, <1>2, <1>3, <1>4
        DEF Tcp!Next, Tcp!BadHandle, Tcp!SetReuse, Tcp!Bind, Tcp!FinishConnect, Tcp!StartListen,
            Tcp!Send, Tcp!Recv, Tcp!Deliver, Tcp!Close, Tcp!Opened, Tcp!tcpVars

LEMMA UdpCounters == ASSUME CountersTyped, Udp!Next PROVE CounterStep
<1> USE PortWraps, PortAssumption, BoundAssumption DEF CountersTyped, CounterStep
<1>1. CASE Udp!Create
  BY <1>1 DEF Udp!Create
<1>2. ASSUME NEW h \in DOMAIN udp, NEW a \in ExplicitPorts, Udp!SendTo(h, a)
      PROVE  CounterStep
  BY <1>2 DEF Udp!SendTo, Udp!AutoBind
<1>3. CASE UNCHANGED <<nextHandle, nextPort>>
  BY <1>3
<1> QED BY <1>1, <1>2, <1>3
        DEF Udp!Next, Udp!BadHandle, Udp!SetReuse, Udp!Bind, Udp!ReceiveFrom, Udp!Deliver,
            Udp!Close, Udp!Opened, Udp!udpVars

-----------------------------------------------------------------------------
(***************************************************************************)
(* UDP sockets.  Types and registrations are proved together: a datagram   *)
(* is put into the queue of a socket because a registered one is open.     *)
(***************************************************************************)

UdpInv == Udp!TypeOK /\ Udp!RegisteredAreOpen

UdpSocket == [local : Udp!Port \union {None}, reuse : BOOLEAN, queue : Seq(Udp!Port)]

LEMMA UdpInit == Init => UdpInv
BY PortAssumption, BoundAssumption
   DEF Init, Udp!Init, UdpInv, Udp!TypeOK, Udp!RegisteredAreOpen, Udp!Opened, Udp!Port

\* Sockets change in place and keep their types; none that has an address loses it.
LEMMA UdpChange ==
    ASSUME UdpInv, CounterStep, UNCHANGED boundUdp,
           DOMAIN udp' = DOMAIN udp,
           \A k \in DOMAIN udp : /\ udp'[k] \in UdpSocket
                                 /\ udp[k].local # None => udp'[k].local = udp[k].local
    PROVE  UdpInv'
<1> USE PortAssumption DEF UdpInv, Udp!Opened, Udp!Port, CounterStep
<1>1. Udp!TypeOK'
  BY DEF Udp!TypeOK, UdpSocket
<1>2. Udp!RegisteredAreOpen'
  BY DEF Udp!TypeOK, Udp!RegisteredAreOpen
<1> QED BY <1>1, <1>2

LEMMA UdpStep == ASSUME CountersTyped, UdpInv, Udp!Next PROVE UdpInv'
<1>0. CounterStep
  BY UdpCounters
<1> USE PortAssumption DEF Udp!Opened, Udp!Port
<1>t. \A h \in DOMAIN udp : udp[h] \in UdpSocket
  BY DEF UdpInv, Udp!TypeOK, UdpSocket
<1>1. CASE Udp!Create
  <2>1. nextHandle \notin DOMAIN udp
    BY BoundAssumption DEF UdpInv, Udp!TypeOK, CountersTyped
  <2>2. Udp!NewSocket \in UdpSocket
    BY DEF Udp!NewSocket, UdpSocket
  <2>3. Udp!TypeOK'
    BY <1>0, <1>1, <2>1, <2>2, <1>t, BoundAssumption
       DEF Udp!Create, UdpInv, Udp!TypeOK, CounterStep, CountersTyped, UdpSocket
  <2>4. Udp!RegisteredAreOpen'
    BY <1>1, <2>1 DEF Udp!Create, UdpInv, Udp!RegisteredAreOpen
  <2> QED BY <2>3, <2>4 DEF UdpInv
<1>2. ASSUME NEW h \in DOMAIN udp, NEW reuse \in BOOLEAN, Udp!SetReuse(h, reuse)
      PROVE  UdpInv'
  <2>1. \A k \in DOMAIN udp : udp'[k] \in UdpSocket /\ udp'[k].local = udp[k].local
    BY <1>2, <1>t DEF Udp!SetReuse, UdpSocket
  <2> QED BY <1>0, <1>2, <2>1, UdpChange DEF Udp!SetReuse
<1>3. ASSUME NEW h \in DOMAIN udp, NEW a \in ExplicitPorts, Udp!Bind(h, a)
      PROVE  UdpInv'
  <2>1. \A k \in DOMAIN udp : /\ udp'[k] \in UdpSocket
                              /\ udp'[k].local = IF k = h THEN a ELSE udp[k].local
    BY <1>3, <1>t DEF Udp!Bind, UdpSocket
  <2>2. DOMAIN udp' = DOMAIN udp /\ DOMAIN boundUdp' = DOMAIN boundUdp \union {a}
    BY <1>3 DEF Udp!Bind
  <2>3. Udp!TypeOK'
    <3>1. \A k \in DOMAIN udp' : udp'[k] \in UdpSocket
      BY <2>1, <2>2
    <3>2. DOMAIN udp' \subseteq 1 .. nextHandle' - 1
      BY <1>3, <2>2 DEF Udp!Bind, UdpInv, Udp!TypeOK
    <3>3. DOMAIN boundUdp' \subseteq 0 .. MaxPort
      BY <2>2 DEF UdpInv, Udp!TypeOK
    <3> QED BY <1>0, <3>1, <3>2, <3>3 DEF Udp!TypeOK, CounterStep, UdpSocket
  <2>4. \A b \in DOMAIN boundUdp : boundUdp[b] # h
    BY <1>3 DEF Udp!Bind, UdpInv, Udp!TypeOK, Udp!RegisteredAreOpen
  <2>5. Udp!RegisteredAreOpen'
    BY <1>3, <2>1, <2>2, <2>4 DEF Udp!Bind, UdpInv, Udp!RegisteredAreOpen
  <2> QED BY <2>3, <2>5 DEF UdpInv
<1>4. ASSUME NEW h \in DOMAIN udp, NEW a \in ExplicitPorts, Udp!SendTo(h, a)
      PROVE  UdpInv'
  <2> DEFINE local == IF udp[h].local = None THEN nextPort ELSE udp[h].local
             sender == [udp EXCEPT ![h].local = local]
  <2>1. local \in Udp!Port
    BY <1>t DEF CountersTyped, UdpSocket
  <2>2. /\ DOMAIN sender = DOMAIN udp
        /\ \A k \in DOMAIN udp : /\ sender[k] \in UdpSocket
                                 /\ udp[k].local # None => sender[k].local = udp[k].local
    BY <1>t, <2>1 DEF UdpSocket
  <2>3. CASE udp' = sender
    BY <1>0, <1>4, <2>2, <2>3, UdpChange DEF Udp!SendTo
  <2>4. CASE /\ boundUdp[a] \in DOMAIN udp
             /\ udp' = [sender EXCEPT ![boundUdp[a]].queue = Append(@, local)]
    <3> DEFINE target == boundUdp[a]
    <3>1. Append(sender[target].queue, local) \in Seq(Udp!Port)
      BY <2>1, <2>2, <2>4 DEF UdpSocket
    <3> HIDE DEF sender, local
    <3>2. \A k \in DOMAIN udp : udp'[k] \in UdpSocket /\ udp'[k].local = sender[k].local
      BY <2>2, <2>4, <3>1 DEF UdpSocket
    <3>3. DOMAIN udp' = DOMAIN udp
      BY <2>2, <2>4
    <3> QED BY <1>0, <1>4, <2>2, <3>2, <3>3, UdpChange DEF Udp!SendTo
  <2> QED BY <1>4, <2>3, <2>4 DEF Udp!SendTo, Udp!Reaches
<1>5. ASSUME NEW h \in DOMAIN udp, NEW a \in ExplicitPorts, Udp!Deliver(h, a)
      PROVE  UdpInv'
  <2>1. Append(udp[h].queue, a) \in Seq(Udp!Port)
    BY <1>t DEF UdpSocket
  <2>2. \A k \in DOMAIN udp : udp'[k] \in UdpSocket /\ udp'[k].local = udp[k].local
    BY <1>5, <1>t, <2>1 DEF Udp!Deliver, UdpSocket
  <2> QED BY <1>0, <1>5, <2>2, UdpChange DEF Udp!Deliver
<1>6. ASSUME NEW h \in DOMAIN udp, Udp!ReceiveFrom(h) PROVE UdpInv'
  <2>1. Tail(udp[h].queue) \in Seq(Udp!Port)
    BY <1>6, <1>t, HeadTailProperties DEF Udp!ReceiveFrom, UdpSocket
  <2>2. \A k \in DOMAIN udp : udp'[k] \in UdpSocket /\ udp'[k].local = udp[k].local
    BY <1>6, <1>t, <2>1 DEF Udp!ReceiveFrom, UdpSocket
  <2> QED BY <1>0, <1>6, <2>2, UdpChange DEF Udp!ReceiveFrom
<1>7. ASSUME NEW h \in DOMAIN udp, Udp!Close(h) PROVE UdpInv'
  <2>1. Udp!TypeOK'
    BY <1>0, <1>7, <1>t DEF Udp!Close, UdpInv, Udp!TypeOK, CounterStep, UdpSocket
  <2>2. Udp!RegisteredAreOpen'
    BY <1>7 DEF Udp!Close, UdpInv, Udp!RegisteredAreOpen
  <2> QED BY <2>1, <2>2 DEF UdpInv
<1>8. CASE Udp!BadHandle
  BY <1>8 DEF Udp!BadHandle, Udp!udpVars, UdpInv, Udp!TypeOK, Udp!RegisteredAreOpen
<1> QED BY <1>1, <1>2, <1>3, <1>4, <1>5, <1>6, <1>7, <1>8 DEF Udp!Next

-----------------------------------------------------------------------------
(***************************************************************************)
(* TCP sockets.  QueueInv is QueuedOnce by positions in queues, with what  *)
(* makes it inductive: a client's handle was given out, so that a new      *)
(* socket is in no queue.                                                  *)
(***************************************************************************)

QueueInv ==
    /\ \A l \in DOMAIN tcp : \A k \in DOMAIN tcp[l].queue :
           LET c == tcp[l].queue[k] IN
           /\ tcp[l].state = "Listening"
           /\ c \in 1 .. nextHandle - 1
           /\ c \in DOMAIN tcp => tcp[c].state = "Connected" /\ tcp[c].remote = tcp[l].local
    /\ \A l, m \in DOMAIN tcp : \A j \in DOMAIN tcp[l].queue, k \in DOMAIN tcp[m].queue :
           tcp[l].queue[j] = tcp[m].queue[k] => l = m /\ j = k

TcpInv == Tcp!TypeOK /\ Tcp!ListenersBound /\ QueueInv

LEMMA TcpInit == Init => TcpInv
BY PortAssumption, BoundAssumption
   DEF Init, Tcp!Init, TcpInv, Tcp!TypeOK, Tcp!ListenersBound, QueueInv, Tcp!In, Tcp!Opened, Tcp!Port

\* A socket that connects has both its addresses.
Addressed(s) == s.state = "Connecting" => None \notin {s.local, s.remote}

\* Sockets change in place: none becomes or ceases to be Connected or Listening, and
\* those that are keep their addresses.
LEMMA TcpChange ==
    ASSUME TcpInv, CounterStep, UNCHANGED boundTcp,
           DOMAIN tcp' = DOMAIN tcp,
           \A k \in DOMAIN tcp :
               /\ tcp'[k] \in Tcp!Socket
               /\ tcp'[k].queue = tcp[k].queue
               /\ \/ /\ tcp'[k].state = tcp[k].state
                     /\ tcp'[k].local = tcp[k].local
                     /\ tcp'[k].remote = tcp[k].remote
                  \/ /\ tcp[k].state \in {"Closed", "Connecting"}
                     /\ tcp'[k].state \in {"Closed", "Connecting"}
                     /\ Addressed(tcp'[k])
    PROVE  TcpInv'
<1> USE PortAssumption DEF TcpInv, Tcp!Opened, Tcp!Port, CounterStep
<1>1. Tcp!TypeOK'
  BY DEF Tcp!TypeOK, Addressed
<1>2. Tcp!ListenersBound'
  BY DEF Tcp!ListenersBound, Tcp!In
<1>3. QueueInv'
  <2>1. ASSUME NEW l \in DOMAIN tcp', NEW k \in DOMAIN tcp'[l].queue
        PROVE  LET c == tcp[l].queue[k] IN
               /\ c = tcp'[l].queue[k]
               /\ tcp'[l].state = "Listening"
               /\ c \in 1 .. nextHandle' - 1
               /\ c \in DOMAIN tcp => tcp'[c].state = "Connected" /\ tcp'[c].remote = tcp'[l].local
    BY <2>1 DEF QueueInv, Tcp!TypeOK
  <2>2. \A l, m \in DOMAIN tcp' : \A j \in DOMAIN tcp'[l].queue, k \in DOMAIN tcp'[m].queue :
            tcp'[l].queue[j] = tcp'[m].queue[k] => l = m /\ j = k
    BY DEF QueueInv
  <2> QED BY <2>1, <2>2 DEF QueueInv
<1> QED BY <1>1, <1>2, <1>3

LEMMA SocketParts ==
    ASSUME TcpInv, NEW h \in DOMAIN tcp
    PROVE  /\ tcp[h] \in Tcp!Socket
           /\ tcp[h].state \in {"Closed", "Connecting", "Connected", "Listening"}
           /\ tcp[h].queue \in Seq(Tcp!Handle)
           /\ tcp[h].local \in Tcp!Port \union {None}
           /\ tcp[h].remote \in Tcp!Port \union {None}
           /\ tcp[h].recv \in Nat /\ tcp[h].received \in Nat /\ tcp[h].sent \in Nat
BY DEF TcpInv, Tcp!TypeOK, Tcp!Opened, Tcp!Socket

\* A new socket, which nobody waits for.
LEMMA TcpAdded ==
    ASSUME TcpInv, CounterStep, CountersTyped, UNCHANGED boundTcp,
           NEW s \in Tcp!Socket, s.state \in {"Closed", "Connected"}, s.queue = <<>>,
           nextHandle' = nextHandle + 1, tcp' = Tcp!Added(s)
    PROVE  TcpInv' /\ nextHandle \notin DOMAIN tcp /\ nextHandle \in DOMAIN tcp'
<1> USE PortAssumption, BoundAssumption DEF TcpInv, Tcp!Opened, Tcp!Port, CounterStep, CountersTyped
<1>1. nextHandle \notin DOMAIN tcp
  BY DEF Tcp!TypeOK
<1>2. /\ DOMAIN tcp' = DOMAIN tcp \union {nextHandle}
      /\ tcp'[nextHandle] = s
      /\ \A k \in DOMAIN tcp : tcp'[k] = tcp[k]
  BY <1>1 DEF Tcp!Added
<1>3. Tcp!TypeOK'
  BY <1>2 DEF Tcp!TypeOK
<1>4. Tcp!ListenersBound'
  BY <1>2 DEF Tcp!ListenersBound, Tcp!In
<1>5. QueueInv'
  <2>1. DOMAIN s.queue = {}
    OBVIOUS
  <2>2. \A l \in DOMAIN tcp : \A k \in DOMAIN tcp[l].queue : tcp[l].queue[k] # nextHandle
    BY DEF QueueInv
  <2> QED BY <1>2, <2>1, <2>2 DEF QueueInv
<1> QED BY <1>1, <1>2, <1>3, <1>4, <1>5

LEMMA AppendedParts ==
    ASSUME NEW S, NEW seq \in Seq(S), NEW e \in S, NEW q, q = Append(seq, e)
    PROVE  /\ q \in Seq(S) /\ Len(q) = Len(seq) + 1
           /\ DOMAIN q = 1 .. Len(q) /\ DOMAIN seq = 1 .. Len(seq)
           /\ Len(seq) \in Nat
           /\ \A k \in DOMAIN seq : q[k] = seq[k]
           /\ q[Len(q)] = e
BY AppendProperties, LenProperties

\* A client that was Connecting is Connected, and waits in the queue of the listener
\* at the address it connects to.
LEMMA TcpQueued ==
    ASSUME TcpInv, CounterStep, NEW h \in DOMAIN tcp, Tcp!FinishConnect(h),
           tcp[h].remote \in DOMAIN boundTcp
    PROVE  TcpInv'
<1> USE PortAssumption, BoundAssumption DEF TcpInv, Tcp!Opened, Tcp!Port, CounterStep
<1> DEFINE l == boundTcp[tcp[h].remote]
           s == [tcp[h] EXCEPT !.state = "Connected"]
           q == Append(tcp[l].queue, h)
<1>1. /\ l \in DOMAIN tcp /\ l # h
      /\ tcp[l].state = "Listening" /\ tcp[l].local = tcp[h].remote
      /\ tcp[h].state = "Connecting"
  BY DEF Tcp!FinishConnect, Tcp!ListenersBound, Tcp!In
<1>2. h \in Tcp!Handle /\ h \in 1 .. nextHandle - 1
  BY DEF Tcp!TypeOK, Tcp!Handle
<1>3. /\ q \in Seq(Tcp!Handle) /\ Len(q) = Len(tcp[l].queue) + 1
      /\ DOMAIN q = 1 .. Len(q) /\ DOMAIN tcp[l].queue = 1 .. Len(tcp[l].queue)
      /\ Len(tcp[l].queue) \in Nat
      /\ \A k \in DOMAIN tcp[l].queue : q[k] = tcp[l].queue[k]
      /\ q[Len(q)] = h
  <2>1. tcp[l].queue \in Seq(Tcp!Handle)
    BY <1>1, SocketParts
  <2>2. h \in Tcp!Handle /\ q = Append(tcp[l].queue, h)
    BY <1>2
  <2> HIDE DEF l, q
  <2> QED BY ONLY <2>1, <2>2, AppendedParts
<1>4. s \in Tcp!Socket
  BY SocketParts DEF Tcp!Socket
<1>5. UNCHANGED boundTcp
  BY DEF Tcp!FinishConnect
<1>6. /\ DOMAIN tcp' = DOMAIN tcp
      /\ tcp'[h] = s
      /\ tcp'[l] = [tcp[l] EXCEPT !.queue = q]
      /\ \A k \in DOMAIN tcp \ {h, l} : tcp'[k] = tcp[k]
  BY <1>1 DEF Tcp!FinishConnect
<1> HIDE DEF q, s, l
<1>7. /\ tcp'[l].state = "Listening" /\ tcp'[l].local = tcp[l].local
      /\ tcp'[l].remote = tcp[l].remote /\ tcp'[l].queue = q
      /\ tcp'[l] \in Tcp!Socket
  <2>1. tcp[l] \in Tcp!Socket
    BY <1>1, SocketParts
  <2>2. /\ q \in Seq(Tcp!Handle) /\ tcp'[l] = [tcp[l] EXCEPT !.queue = q]
        /\ tcp[l].state = "Listening"
    BY <1>1, <1>3, <1>6
  <2> QED BY ONLY <2>1, <2>2 DEF Tcp!Socket
<1>8. /\ tcp'[h].state = "Connected" /\ tcp'[h].local = tcp[h].local
      /\ tcp'[h].remote = tcp[h].remote /\ tcp'[h].queue = tcp[h].queue
      /\ tcp'[h] \in Tcp!Socket
  <2>1. tcp[h] \in Tcp!Socket
    BY SocketParts
  <2>2. /\ s.state = "Connected" /\ s.local = tcp[h].local
        /\ s.remote = tcp[h].remote /\ s.queue = tcp[h].queue
    BY ONLY <2>1 DEF Tcp!Socket, s
  <2> QED BY ONLY <1>4, <1>6, <2>2
<1>c. /\ DOMAIN tcp' = DOMAIN tcp
      /\ \A k \in DOMAIN tcp :
             /\ tcp'[k] \in Tcp!Socket
             /\ tcp'[k].local = tcp[k].local
             /\ tcp'[k].remote = tcp[k].remote
             /\ tcp'[k].state = IF k = h THEN "Connected" ELSE tcp[k].state
             /\ tcp'[k].queue = IF k = l THEN q ELSE tcp[k].queue
  BY <1>1, <1>6, <1>7, <1>8, SocketParts
<1>9. Tcp!TypeOK'
  BY <1>5, <1>c DEF Tcp!TypeOK
<1>10. Tcp!ListenersBound'
  BY <1>1, <1>5, <1>c DEF Tcp!ListenersBound, Tcp!In
<1>11. QueueInv'
  <2>1. \A m \in DOMAIN tcp : \A k \in DOMAIN tcp[m].queue : tcp[m].queue[k] # h
    BY <1>1 DEF QueueInv
  <2>2. DOMAIN tcp[h].queue = {}
    BY <1>1 DEF QueueInv
  <2>3. \A m \in DOMAIN tcp : \A k \in DOMAIN tcp'[m].queue :
            \/ k \in DOMAIN tcp[m].queue /\ tcp'[m].queue[k] = tcp[m].queue[k]
            \/ m = l /\ k = Len(q) /\ tcp'[m].queue[k] = h
    <3> TAKE m \in DOMAIN tcp
    <3>1. CASE m = l
      <4>1. tcp'[m].queue = q
        BY ONLY <1>1, <1>c, <3>1
      <4>2. \A k \in DOMAIN q : k = Len(q) \/ k \in DOMAIN tcp[l].queue
        BY ONLY <1>3
      <4> QED BY ONLY <1>3, <3>1, <4>1, <4>2
    <3>2. CASE m # l
      BY ONLY <1>c, <3>2, m \in DOMAIN tcp
    <3> QED BY <3>1, <3>2
  <2>4. ASSUME NEW m \in DOMAIN tcp', NEW k \in DOMAIN tcp'[m].queue
        PROVE  LET c == tcp'[m].queue[k] IN
               /\ tcp'[m].state = "Listening"
               /\ c \in 1 .. nextHandle' - 1
               /\ c \in DOMAIN tcp' => tcp'[c].state = "Connected" /\ tcp'[c].remote = tcp'[m].local
    <3>1. CASE k \in DOMAIN tcp[m].queue /\ tcp'[m].queue[k] = tcp[m].queue[k]
      BY <1>1, <1>c, <2>1, <2>2, <3>1 DEF QueueInv, Tcp!TypeOK
    <3>2. CASE m = l /\ k = Len(q) /\ tcp'[m].queue[k] = h
      <4>1. /\ tcp'[m].state = "Listening"
            /\ tcp'[h].state = "Connected" /\ tcp'[h].remote = tcp'[m].local
        BY <1>1, <1>c, <3>2
      <4>2. h \in 1 .. nextHandle' - 1
        BY <1>2 DEF Tcp!TypeOK
      <4> QED BY ONLY <3>2, <4>1, <4>2
    <3> QED BY <1>c, <2>3, <3>1, <3>2
  <2>5. ASSUME NEW m \in DOMAIN tcp', NEW n \in DOMAIN tcp',
               NEW j \in DOMAIN tcp'[m].queue, NEW k \in DOMAIN tcp'[n].queue,
               tcp'[m].queue[j] = tcp'[n].queue[k]
        PROVE  m = n /\ j = k
    BY <1>c, <2>1, <2>3, <2>5 DEF QueueInv
  <2> QED BY <2>4, <2>5 DEF QueueInv
<1> QED BY <1>9, <1>10, <1>11

\* The first client of a queue leaves it and gets a peer, a new socket.
LEMMA TcpAccepted ==
    ASSUME TcpInv, CounterStep, CountersTyped, NEW h \in DOMAIN tcp, Tcp!Accept(h)
    PROVE  TcpInv'
<1> USE PortAssumption, BoundAssumption DEF TcpInv, Tcp!Opened, Tcp!Port, CounterStep, CountersTyped
<1> DEFINE q == Tail(tcp[h].queue)
           client == Head(tcp[h].queue)
           remote == IF client \in DOMAIN tcp THEN tcp[client].local ELSE None
           peer == [Tcp!NewSocket EXCEPT
                       !.state = "Connected", !.local = tcp[h].local, !.remote = remote]
<1>1. /\ q \in Seq(Tcp!Handle)
      /\ DOMAIN q = 1 .. Len(tcp[h].queue) - 1
      /\ DOMAIN tcp[h].queue = 1 .. Len(tcp[h].queue) /\ Len(tcp[h].queue) \in Nat
      /\ \A k \in DOMAIN q : q[k] = tcp[h].queue[k + 1]
  <2>1. tcp[h].queue \in Seq(Tcp!Handle) /\ tcp[h].queue # <<>>
    BY SocketParts DEF Tcp!Accept
  <2>2. q \in Seq(Tcp!Handle) /\ Len(q) = Len(tcp[h].queue) - 1
        /\ \A k \in 1 .. Len(q) : q[k] = tcp[h].queue[k + 1]
    BY <2>1, HeadTailProperties
  <2> HIDE DEF q
  <2> QED BY <2>1, <2>2, LenProperties
<1>2. peer \in Tcp!Socket /\ peer.state = "Connected" /\ DOMAIN peer.queue = {}
  <2>1. remote \in Tcp!Port \union {None} /\ tcp[h].local \in Tcp!Port \union {None}
    BY SocketParts
  <2> HIDE DEF remote
  <2>2. Tcp!NewSocket \in Tcp!Socket /\ Tcp!NewSocket.queue = <<>>
    BY DEF Tcp!NewSocket, Tcp!Socket
  <2>3. peer \in Tcp!Socket /\ peer.state = "Connected" /\ peer.queue = Tcp!NewSocket.queue
    BY <2>1, <2>2 DEF Tcp!Socket
  <2> HIDE DEF peer
  <2> QED BY <2>2, <2>3
<1> HIDE DEF peer, q
<1>3. nextHandle \notin DOMAIN tcp /\ h # nextHandle
  BY DEF Tcp!TypeOK
<1>4. /\ tcp' = [Tcp!Added(peer) EXCEPT ![h].queue = q]
      /\ nextHandle' = nextHandle + 1 /\ UNCHANGED boundTcp
  <2>1. Tcp!Added(peer)[h] = tcp[h]
    BY <1>3 DEF Tcp!Added
  <2>2. /\ tcp' = [Tcp!Added(peer) EXCEPT ![h].queue = Tail(Tcp!Added(peer)[h].queue)]
        /\ nextHandle' = nextHandle + 1 /\ UNCHANGED boundTcp
    BY DEF Tcp!Accept, Tcp!AllocHandle, peer
  <2> QED BY <2>1, <2>2 DEF q
<1>5. /\ DOMAIN tcp' = DOMAIN tcp \union {nextHandle}
      /\ tcp'[nextHandle] = peer
      /\ tcp'[h] = [tcp[h] EXCEPT !.queue = q]
      /\ \A k \in DOMAIN tcp \ {h} : tcp'[k] = tcp[k]
  BY <1>3, <1>4 DEF Tcp!Added
<1>6. \A k \in DOMAIN tcp :
          /\ tcp'[k] \in Tcp!Socket
          /\ tcp'[k].local = tcp[k].local
          /\ tcp'[k].remote = tcp[k].remote
          /\ tcp'[k].state = tcp[k].state
          /\ tcp'[k].queue = IF k = h THEN q ELSE tcp[k].queue
  <2>1. \A k \in DOMAIN tcp : tcp[k] \in Tcp!Socket
    BY SocketParts
  <2>2. /\ tcp'[h] \in Tcp!Socket /\ tcp'[h].local = tcp[h].local
        /\ tcp'[h].remote = tcp[h].remote /\ tcp'[h].state = tcp[h].state
        /\ tcp'[h].queue = q
    BY <1>1, <1>5, <2>1 DEF Tcp!Socket
  <2> QED BY <1>5, <2>1, <2>2
<1>7. Tcp!TypeOK'
  BY <1>2, <1>4, <1>5, <1>6 DEF Tcp!TypeOK
<1>8. Tcp!ListenersBound'
  BY <1>2, <1>3, <1>4, <1>5, <1>6 DEF Tcp!ListenersBound, Tcp!In
<1>9. QueueInv'
  <2> DEFINE was(m, k) == IF m = h THEN k + 1 ELSE k
  <2>1. \A m \in DOMAIN tcp' : \A k \in DOMAIN tcp'[m].queue :
            /\ m \in DOMAIN tcp /\ was(m, k) \in DOMAIN tcp[m].queue
            /\ tcp'[m].queue[k] = tcp[m].queue[was(m, k)]
    <3>1. ASSUME NEW k \in DOMAIN tcp'[h].queue
          PROVE  k + 1 \in DOMAIN tcp[h].queue /\ tcp'[h].queue[k] = tcp[h].queue[k + 1]
      <4>1. tcp'[h].queue = q
        BY <1>6
      <4>2. k \in 1 .. Len(tcp[h].queue) - 1 /\ q[k] = tcp[h].queue[k + 1]
        BY <1>1, <4>1
      <4> QED BY <1>1, <4>1, <4>2
    <3>2. \A m \in DOMAIN tcp \ {h} : tcp'[m].queue = tcp[m].queue
      BY <1>6
    <3> QED BY <1>2, <1>5, <3>1, <3>2
  <2>2. ASSUME NEW m \in DOMAIN tcp', NEW k \in DOMAIN tcp'[m].queue
        PROVE  LET c == tcp'[m].queue[k] IN
               /\ tcp'[m].state = "Listening"
               /\ c \in 1 .. nextHandle' - 1
               /\ c \in DOMAIN tcp' => tcp'[c].state = "Connected" /\ tcp'[c].remote = tcp'[m].local
    <3> HIDE DEF was
    <3> QED BY <1>4, <1>5, <1>6, <2>1 DEF QueueInv
  <2>3. ASSUME NEW m \in DOMAIN tcp', NEW n \in DOMAIN tcp',
               NEW j \in DOMAIN tcp'[m].queue, NEW k \in DOMAIN tcp'[n].queue,
               tcp'[m].queue[j] = tcp'[n].queue[k]
        PROVE  m = n /\ j = k
    <3>1. m = n /\ was(m, j) = was(n, k)
      <4> HIDE DEF was
      <4> QED BY <1>5, <2>1, <2>3 DEF QueueInv
    <3>2. CASE m = h
      <4>1. j \in DOMAIN q /\ k \in DOMAIN q
        BY <1>6, <3>1, <3>2
      <4>2. j \in Nat /\ k \in Nat /\ j + 1 = k + 1
        BY <1>1, <3>1, <3>2, <4>1
      <4> QED BY <3>1, <4>2
    <3> QED BY <3>1, <3>2
  <2> QED BY <2>2, <2>3 DEF QueueInv
<1> QED BY <1>7, <1>8, <1>9

\* A Closed socket starts to listen at an address that is nobody's.
LEMMA TcpListens ==
    ASSUME TcpInv, CounterStep, NEW h \in DOMAIN tcp, Tcp!StartListen(h)
    PROVE  TcpInv'
<1> USE PortAssumption DEF TcpInv, Tcp!Opened, Tcp!Port, CounterStep
<1> DEFINE a == tcp[h].local
<1>1. tcp[h].state = "Closed" /\ a \in 0 .. MaxPort
  BY SocketParts DEF Tcp!StartListen, Tcp!In
<1>2. a \notin DOMAIN boundTcp
  BY <1>1 DEF Tcp!StartListen, Tcp!ListenersBound, Tcp!In
<1>3. /\ DOMAIN boundTcp' = DOMAIN boundTcp \union {a} /\ boundTcp'[a] = h
      /\ \A b \in DOMAIN boundTcp : boundTcp'[b] = boundTcp[b]
  BY <1>2 DEF Tcp!StartListen
<1>4. /\ DOMAIN tcp' = DOMAIN tcp
      /\ tcp'[h] = [tcp[h] EXCEPT !.state = "Listening"]
      /\ \A k \in DOMAIN tcp \ {h} : tcp'[k] = tcp[k]
  BY DEF Tcp!StartListen
<1>5. \A k \in DOMAIN tcp :
          /\ tcp'[k] \in Tcp!Socket
          /\ tcp'[k].local = tcp[k].local
          /\ tcp'[k].remote = tcp[k].remote
          /\ tcp'[k].state = IF k = h THEN "Listening" ELSE tcp[k].state
          /\ tcp'[k].queue = tcp[k].queue
  <2> SUFFICES ASSUME NEW k \in DOMAIN tcp
               PROVE  /\ tcp'[k] \in Tcp!Socket
                      /\ tcp'[k].local = tcp[k].local
                      /\ tcp'[k].remote = tcp[k].remote
                      /\ tcp'[k].state = IF k = h THEN "Listening" ELSE tcp[k].state
                      /\ tcp'[k].queue = tcp[k].queue
    OBVIOUS
  <2>1. tcp[k] \in Tcp!Socket
    BY SocketParts
  <2>2. CASE k = h
    BY ONLY <1>4, <2>1, <2>2 DEF Tcp!Socket
  <2>3. CASE k # h
    BY ONLY <1>4, <2>1, <2>3, k \in DOMAIN tcp
  <2> QED BY <2>2, <2>3
<1>6. Tcp!TypeOK'
  <2>1. h \in Tcp!Handle
    BY BoundAssumption DEF Tcp!TypeOK, Tcp!Handle
  <2>2. DOMAIN boundTcp' \subseteq Tcp!Port /\ \A b \in DOMAIN boundTcp' : boundTcp'[b] \in Tcp!Handle
    BY <1>1, <1>3, <2>1 DEF Tcp!TypeOK
  <2>3. \A k \in DOMAIN tcp' : /\ tcp'[k] \in Tcp!Socket
                               /\ tcp'[k].state = "Connecting" => None \notin {tcp'[k].local, tcp'[k].remote}
    BY <1>4, <1>5 DEF Tcp!TypeOK
  <2> QED BY <1>4, <2>2, <2>3 DEF Tcp!TypeOK
<1>7. Tcp!ListenersBound'
  BY <1>1, <1>2, <1>3, <1>4, <1>5 DEF Tcp!ListenersBound, Tcp!In
<1>8. QueueInv'
  <2>1. \A m \in DOMAIN tcp : \A k \in DOMAIN tcp[m].queue : m # h /\ tcp[m].queue[k] # h
    BY <1>1 DEF QueueInv
  <2> QED BY <1>4, <1>5, <2>1 DEF QueueInv, Tcp!TypeOK
<1> QED BY <1>6, <1>7, <1>8

\* A socket leaves the table, with its registration and its queue.
LEMMA TcpClosed ==
    ASSUME TcpInv, CounterStep, NEW h \in DOMAIN tcp, Tcp!Close(h)
    PROVE  TcpInv'
<1> USE PortAssumption DEF TcpInv, Tcp!Opened, Tcp!Port, CounterStep
<1>1. /\ DOMAIN tcp' = DOMAIN tcp \ {h} /\ \A k \in DOMAIN tcp' : tcp'[k] = tcp[k]
      /\ nextHandle' = nextHandle
  BY DEF Tcp!Close
<1>2. /\ DOMAIN boundTcp' = {b \in DOMAIN boundTcp : ~ (b = tcp[h].local /\ boundTcp[b] = h)}
      /\ \A b \in DOMAIN boundTcp' : boundTcp'[b] = boundTcp[b]
  BY DEF Tcp!Close
<1>3. Tcp!TypeOK'
  BY <1>1, <1>2 DEF Tcp!TypeOK
<1>4. Tcp!ListenersBound'
  BY <1>1, <1>2 DEF Tcp!ListenersBound, Tcp!In
<1>5. QueueInv'
  BY <1>1 DEF QueueInv
<1> QED BY <1>3, <1>4, <1>5

LEMMA TcpStep == ASSUME CountersTyped, TcpInv, Tcp!Next PROVE TcpInv'
<1>0. CounterStep
  BY TcpCounters
<1> USE DEF Tcp!Opened
<1>1. CASE Tcp!Create
  <2>1. Tcp!NewSocket \in Tcp!Socket /\ Tcp!NewSocket.state = "Closed" /\ Tcp!NewSocket.queue = <<>>
    BY DEF Tcp!NewSocket, Tcp!Socket
  <2>2. /\ nextHandle' = nextHandle + 1 /\ tcp' = Tcp!Added(Tcp!NewSocket)
        /\ UNCHANGED boundTcp
    BY <1>1 DEF Tcp!Create, Tcp!AllocHandle
  <2> QED BY <1>0, <2>1, <2>2, TcpAdded
<1>2. CASE Tcp!BadHandle
  BY <1>2 DEF Tcp!BadHandle, Tcp!tcpVars, TcpInv, Tcp!TypeOK, Tcp!ListenersBound, QueueInv, Tcp!In
<1>3. ASSUME NEW h \in DOMAIN tcp, NEW reuse \in BOOLEAN, Tcp!SetReuse(h, reuse) PROVE TcpInv'
  <2>1. tcp[h] \in Tcp!Socket
    BY SocketParts
  <2>2. [tcp[h] EXCEPT !.reuse = reuse] \in Tcp!Socket
    BY <2>1 DEF Tcp!Socket
  <2> QED BY <1>0, <1>3, <2>1, <2>2, SocketParts, TcpChange DEF Tcp!SetReuse, Tcp!Socket
<1>4. ASSUME NEW h \in DOMAIN tcp, NEW a \in ExplicitPorts, Tcp!Bind(h, a) PROVE TcpInv'
  <2>1. tcp[h] \in Tcp!Socket /\ a \in Tcp!Port
    BY SocketParts, PortAssumption DEF Tcp!Port
  <2>2. [tcp[h] EXCEPT !.local = a] \in Tcp!Socket
    BY <2>1 DEF Tcp!Socket
  <2> QED BY <1>0, <1>4, <2>1, <2>2, SocketParts, TcpChange
          DEF Tcp!Bind, Tcp!In, Tcp!Socket, Addressed
<1>5. ASSUME NEW h \in DOMAIN tcp, NEW a \in ExplicitPorts, Tcp!StartConnect(h, a) PROVE TcpInv'
  <2> DEFINE local == IF tcp[h].local = None THEN nextPort ELSE tcp[h].local
             s == [tcp[h] EXCEPT !.local = local, !.remote = a, !.state = "Connecting"]
  <2>1. /\ tcp[h] \in Tcp!Socket /\ a \in Tcp!Port /\ local \in Tcp!Port
        /\ a # None /\ local # None
    BY SocketParts, PortAssumption DEF Tcp!Port, CountersTyped
  <2>2. tcp' = [tcp EXCEPT ![h] = s] /\ UNCHANGED boundTcp /\ tcp[h].state = "Closed"
    BY <1>5 DEF Tcp!StartConnect, Tcp!In
  <2> HIDE DEF local
  <2>3. s \in Tcp!Socket /\ s.queue = tcp[h].queue /\ s.state = "Connecting" /\ Addressed(s)
    BY <2>1 DEF Tcp!Socket, Addressed
  <2> HIDE DEF s
  <2> QED BY <1>0, <2>2, <2>3, SocketParts, TcpChange
<1>6. ASSUME NEW h \in DOMAIN tcp, Tcp!FinishConnect(h) PROVE TcpInv'
  <2>1. CASE tcp[h].remote \in DOMAIN boundTcp
    BY <1>0, <1>6, <2>1, TcpQueued
  <2>2. CASE tcp[h].remote \notin DOMAIN boundTcp
    <3> DEFINE s == [tcp[h] EXCEPT !.state = "Closed", !.remote = None]
    <3>1. tcp' = [tcp EXCEPT ![h] = s] /\ UNCHANGED boundTcp /\ tcp[h].state = "Connecting"
      BY <1>6, <2>2 DEF Tcp!FinishConnect, Tcp!In
    <3>2. s \in Tcp!Socket /\ s.queue = tcp[h].queue /\ s.state = "Closed" /\ Addressed(s)
      BY SocketParts DEF Tcp!Socket, Addressed
    <3> HIDE DEF s
    <3> QED BY <1>0, <3>1, <3>2, SocketParts, TcpChange
  <2> QED BY <2>1, <2>2
<1>7. ASSUME NEW h \in DOMAIN tcp, Tcp!StartListen(h) PROVE TcpInv'
  BY <1>0, <1>7, TcpListens
<1>8. ASSUME NEW h \in DOMAIN tcp, Tcp!Accept(h) PROVE TcpInv'
  BY <1>0, <1>8, TcpAccepted
<1>9. ASSUME NEW h \in DOMAIN tcp, NEW n \in 1 .. MaxBytes,
             Tcp!Send(h, n) \/ Tcp!Recv(h, n) \/ Tcp!Deliver(h, n)
      PROVE  TcpInv'
  <2>1. ASSUME NEW s \in Tcp!Socket, tcp' = [tcp EXCEPT ![h] = s],
               s.state = tcp[h].state, s.local = tcp[h].local,
               s.remote = tcp[h].remote, s.queue = tcp[h].queue
        PROVE  TcpInv'
    <3>1. UNCHANGED boundTcp
      BY <1>9 DEF Tcp!Send, Tcp!Recv, Tcp!Deliver
    <3> QED BY <1>0, <2>1, <3>1, SocketParts, TcpChange
  <2>2. CASE Tcp!Send(h, n)
    <3> DEFINE sent == tcp[h].sent + n
               s == [tcp[h] EXCEPT !.sent = sent]
    <3>1. sent \in Nat
      BY SocketParts, BoundAssumption
    <3>2. tcp' = [tcp EXCEPT ![h] = s]
      BY <2>2 DEF Tcp!Send
    <3> HIDE DEF sent
    <3>3. /\ s \in Tcp!Socket /\ s.state = tcp[h].state /\ s.local = tcp[h].local
          /\ s.remote = tcp[h].remote /\ s.queue = tcp[h].queue
      BY <3>1, SocketParts DEF Tcp!Socket
    <3> HIDE DEF s
    <3> QED BY <2>1, <3>2, <3>3
  <2>3. CASE Tcp!Recv(h, n)
    <3> DEFINE m == IF n <= tcp[h].recv THEN n ELSE tcp[h].recv
               recv == tcp[h].recv - m
               received == tcp[h].received + m
               s == [tcp[h] EXCEPT !.recv = recv, !.received = received]
    <3>1. recv \in Nat /\ received \in Nat
      BY SocketParts, BoundAssumption
    <3>2. tcp' = [tcp EXCEPT ![h] = s]
      BY <2>3 DEF Tcp!Recv
    <3> HIDE DEF m, recv, received
    <3>3. /\ s \in Tcp!Socket /\ s.state = tcp[h].state /\ s.local = tcp[h].local
          /\ s.remote = tcp[h].remote /\ s.queue = tcp[h].queue
      BY <3>1, SocketParts DEF Tcp!Socket
    <3> HIDE DEF s
    <3> QED BY <2>1, <3>2, <3>3
  <2>4. CASE Tcp!Deliver(h, n)
    <3> DEFINE recv == tcp[h].recv + n
               s == [tcp[h] EXCEPT !.recv = recv]
    <3>1. recv \in Nat
      BY SocketParts, BoundAssumption
    <3>2. tcp' = [tcp EXCEPT ![h] = s]
      BY <2>4 DEF Tcp!Deliver
    <3> HIDE DEF recv
    <3>3. /\ s \in Tcp!Socket /\ s.state = tcp[h].state /\ s.local = tcp[h].local
          /\ s.remote = tcp[h].remote /\ s.queue = tcp[h].queue
      BY <3>1, SocketParts DEF Tcp!Socket
    <3> HIDE DEF s
    <3> QED BY <2>1, <3>2, <3>3
  <2> QED BY <1>9, <2>2, <2>3, <2>4
<1>10. ASSUME NEW h \in DOMAIN tcp, Tcp!Close(h) PROVE TcpInv'
  BY <1>0, <1>10, TcpClosed
<1> QED BY <1>1, <1>2, <1>3, <1>4, <1>5, <1>6, <1>7, <1>8, <1>9, <1>10 DEF Tcp!Next

-----------------------------------------------------------------------------
(***************************************************************************)
(* The table.  A step of one half is a change of the counters to the       *)
(* other.                                                                  *)
(***************************************************************************)

Inv == TcpInv /\ UdpInv /\ DOMAIN tcp \intersect DOMAIN udp = {}

LEMMA TcpHandles == ASSUME Tcp!Next PROVE DOMAIN tcp' \subseteq DOMAIN tcp \union {nextHandle}
<1> USE DEF Tcp!Opened
<1>1. CASE Tcp!Create
  BY <1>1 DEF Tcp!Create, Tcp!Added
<1>2. ASSUME NEW h \in DOMAIN tcp, Tcp!Accept(h)
      PROVE  DOMAIN tcp' \subseteq DOMAIN tcp \union {nextHandle}
  BY <1>2 DEF Tcp!Accept, Tcp!Added
<1>3. ASSUME NEW h \in DOMAIN tcp, Tcp!FinishConnect(h) PROVE DOMAIN tcp' = DOMAIN tcp
  BY <1>3 DEF Tcp!FinishConnect
<1>4. ASSUME NEW h \in DOMAIN tcp, NEW a, Tcp!Bind(h, a) \/ Tcp!StartConnect(h, a)
      PROVE  DOMAIN tcp' = DOMAIN tcp
  BY <1>4 DEF Tcp!Bind, Tcp!StartConnect
<1>5. ASSUME NEW h \in DOMAIN tcp, NEW n, Tcp!Send(h, n) \/ Tcp!Recv(h, n) \/ Tcp!Deliver(h, n)
      PROVE  DOMAIN tcp' = DOMAIN tcp
  BY <1>5 DEF Tcp!Send, Tcp!Recv, Tcp!Deliver
<1>6. ASSUME NEW h \in DOMAIN tcp, Tcp!Close(h) \/ Tcp!StartListen(h)
      PROVE  DOMAIN tcp' \subseteq DOMAIN tcp
  BY <1>6 DEF Tcp!Close, Tcp!StartListen
<1>7. ASSUME NEW h \in DOMAIN tcp, NEW reuse, Tcp!SetReuse(h, reuse) PROVE DOMAIN tcp' = DOMAIN tcp
  BY <1>7 DEF Tcp!SetReuse
<1>8. CASE Tcp!BadHandle
  BY <1>8 DEF Tcp!BadHandle, Tcp!tcpVars
<1> QED BY <1>1, <1>2, <1>3, <1>4, <1>5, <1>6, <1>7, <1>8 DEF Tcp!Next

LEMMA UdpHandles == ASSUME Udp!Next PROVE DOMAIN udp' \subseteq DOMAIN udp \union {nextHandle}
BY DEF Udp!Next, Udp!Create, Udp!BadHandle, Udp!SetReuse, Udp!Bind, Udp!SendTo, Udp!ReceiveFrom,
       Udp!Deliver, Udp!Close, Udp!udpVars, Udp!Opened

LEMMA InvInit == Init => Inv
BY TcpInit, UdpInit DEF Init, Inv, Tcp!Init

LEMMA InvNext == Inv /\ [Next]_vars => Inv'
<1> SUFFICES ASSUME Inv, [Next]_vars PROVE Inv'
  OBVIOUS
<1>1. CountersTyped
  BY DEF Inv, UdpInv, Udp!TypeOK, CountersTyped, Udp!Port
<1>2. nextHandle \notin DOMAIN tcp /\ nextHandle \notin DOMAIN udp
  BY <1>1, BoundAssumption
     DEF Inv, TcpInv, UdpInv, Tcp!TypeOK, Udp!TypeOK, Tcp!Opened, Udp!Opened, CountersTyped
<1>3. CASE Tcp!Next /\ UNCHANGED <<udp, boundUdp>>
  <2>1. CounterStep
    BY <1>1, <1>3, TcpCounters
  <2>2. TcpInv'
    BY <1>1, <1>3, TcpStep DEF Inv
  <2>3. UdpInv'
    <3>1. \A k \in DOMAIN udp : udp[k] \in UdpSocket
      BY DEF Inv, UdpInv, Udp!TypeOK, Udp!Opened, UdpSocket
    <3> QED BY <1>3, <2>1, <3>1, UdpChange DEF Inv
  <2>4. (DOMAIN tcp \intersect DOMAIN udp)' = {}
    BY <1>2, <1>3, TcpHandles DEF Inv
  <2> QED BY <2>2, <2>3, <2>4 DEF Inv
<1>4. CASE Udp!Next /\ UNCHANGED <<tcp, boundTcp>>
  <2>1. CounterStep
    BY <1>1, <1>4, UdpCounters
  <2>2. UdpInv'
    BY <1>1, <1>4, UdpStep DEF Inv
  <2>3. TcpInv'
    BY <1>4, <2>1, SocketParts, TcpChange DEF Inv
  <2>4. (DOMAIN tcp \intersect DOMAIN udp)' = {}
    BY <1>2, <1>4, UdpHandles DEF Inv
  <2> QED BY <2>2, <2>3, <2>4 DEF Inv
<1>5. CASE UNCHANGED vars
  BY <1>5 DEF vars, Inv, TcpInv, UdpInv, Tcp!TypeOK, Udp!TypeOK, Tcp!ListenersBound, QueueInv,
              Udp!RegisteredAreOpen, Tcp!In, Tcp!Opened, Udp!Opened
<1> QED BY <1>3, <1>4, <1>5 DEF Next

LEMMA InvAlways == Spec => []Inv
BY InvInit, InvNext, PTL DEF Spec

\* Both halves keep their types, and no handle names two sockets, whichever half takes
\* a handle or a port, for any ports and bounds.
THEOREM TableTyped == Spec => []TypeOK
<1>1. Inv => TypeOK
  BY DEF Inv, TcpInv, UdpInv, TypeOK
<1> QED BY <1>1, InvAlways, PTL

\* A registered address belongs to an open socket that is bound to it, whatever was
\* taken over and closed before.
THEOREM RegisteredAreOpenAlways == Spec => []RegisteredAreOpen
<1>1. Inv => RegisteredAreOpen
  BY DEF Inv, UdpInv, RegisteredAreOpen
<1> QED BY <1>1, InvAlways, PTL

LEMMA QueuedAreOnce == ASSUME Inv PROVE Tcp!QueuedOnce
<1>1. ASSUME NEW c, NEW x \in Tcp!Places(c)
      PROVE  /\ x = <<x[1], x[2]>>
             /\ x[1] \in DOMAIN tcp /\ x[2] \in DOMAIN tcp[x[1]].queue
             /\ tcp[x[1]].queue[x[2]] = c
  BY <1>1 DEF Tcp!Places, Tcp!Opened
<1>2. ASSUME NEW c \in Tcp!Handle, NEW x \in Tcp!Places(c), NEW y \in Tcp!Places(c) PROVE x = y
  BY <1>1, <1>2 DEF Inv, TcpInv, QueueInv
<1>3. ASSUME NEW c \in Tcp!Handle, NEW x \in Tcp!Places(c)
      PROVE  /\ Tcp!In(x[1], "Listening")
             /\ c \in Tcp!Opened => Tcp!In(c, "Connected") /\ tcp[c].remote = tcp[x[1]].local
  BY <1>1, <1>3 DEF Inv, TcpInv, QueueInv, Tcp!In, Tcp!Opened
<1> QED BY <1>2, <1>3 DEF Tcp!QueuedOnce

\* Each listener has its address to itself, and a client waits in one place of one
\* queue, that of a listener at the address it connected to.
THEOREM ListenersServeAlways == Spec => []ListenersServe
<1>1. Inv => ListenersServe
  BY QueuedAreOnce DEF Inv, TcpInv, UdpInv, TypeOK, ListenersServe
<1> QED BY <1>1, InvAlways, PTL

-----------------------------------------------------------------------------
(***************************************************************************)
(* Clients enter a queue once.                                             *)
(***************************************************************************)

Queued(c) == \E h \in DOMAIN tcp : \E k \in DOMAIN tcp[h].queue : tcp[h].queue[k] = c

LEMMA QueuedHasPlace == \A c : Queued(c) <=> Tcp!Places(c) # {}
<1> SUFFICES ASSUME NEW c PROVE Queued(c) <=> Tcp!Places(c) # {}
  OBVIOUS
<1>1. ASSUME Queued(c) PROVE Tcp!Places(c) # {}
  <2>h. PICK h \in DOMAIN tcp : \E k \in DOMAIN tcp[h].queue : tcp[h].queue[k] = c
    BY <1>1 DEF Queued
  <2>1. PICK k \in DOMAIN tcp[h].queue : tcp[h].queue[k] = c
    BY <2>h
  <2>2. k \in {j \in DOMAIN tcp[h].queue : tcp[h].queue[j] = c}
    BY <2>1
  <2>3. <<h, k>> \in {h} \X {j \in DOMAIN tcp[h].queue : tcp[h].queue[j] = c}
    BY <2>2
  <2>4. <<h, k>> \in Tcp!Places(c)
    BY <2>1, <2>3 DEF Tcp!Places, Tcp!Opened
  <2> QED BY <2>4
<1>2. ASSUME NEW x \in Tcp!Places(c) PROVE Queued(c)
  <2>1. PICK h \in DOMAIN tcp : x \in {h} \X {k \in DOMAIN tcp[h].queue : tcp[h].queue[k] = c}
    BY <1>2 DEF Tcp!Places, Tcp!Opened
  <2>2. x[2] \in DOMAIN tcp[h].queue /\ tcp[h].queue[x[2]] = c
    BY <2>1
  <2> QED BY <2>1, <2>2 DEF Queued
<1> QED BY <1>1, <1>2

LEMMA QueuedHasPlaceNext == \A c : Queued(c)' <=> Tcp!Places(c)' # {}
<1> SUFFICES ASSUME NEW c PROVE Queued(c)' <=> Tcp!Places(c)' # {}
  OBVIOUS
<1>1. ASSUME Queued(c)' PROVE Tcp!Places(c)' # {}
  <2>h. PICK h \in DOMAIN tcp' : \E k \in DOMAIN tcp'[h].queue : tcp'[h].queue[k] = c
    BY <1>1 DEF Queued
  <2>1. PICK k \in DOMAIN tcp'[h].queue : tcp'[h].queue[k] = c
    BY <2>h
  <2>2. k \in {j \in DOMAIN tcp'[h].queue : tcp'[h].queue[j] = c}
    BY <2>1
  <2>3. <<h, k>> \in {h} \X {j \in DOMAIN tcp'[h].queue : tcp'[h].queue[j] = c}
    BY <2>2
  <2>4. <<h, k>> \in Tcp!Places(c)'
    BY <2>1, <2>3 DEF Tcp!Places, Tcp!Opened
  <2> QED BY <2>4
<1>2. ASSUME NEW x \in Tcp!Places(c)' PROVE Queued(c)'
  <2>1. PICK h \in DOMAIN tcp' : x \in {h} \X {k \in DOMAIN tcp'[h].queue : tcp'[h].queue[k] = c}
    BY <1>2 DEF Tcp!Places, Tcp!Opened
  <2>2. x[2] \in DOMAIN tcp'[h].queue /\ tcp'[h].queue[x[2]] = c
    BY <2>1
  <2> QED BY <2>1, <2>2 DEF Queued
<1> QED BY <1>1, <1>2

\* Who waits after a step waited before, or was connecting.
LEMMA QueuedBefore ==
    ASSUME Inv, Tcp!Next, NEW c, Queued(c)'
    PROVE  Queued(c) \/ (c \in DOMAIN tcp /\ tcp[c].state = "Connecting")
<1> USE DEF Inv, Tcp!Opened
<1>h. PICK h \in DOMAIN tcp' : \E k \in DOMAIN tcp'[h].queue : tcp'[h].queue[k] = c
  BY DEF Queued
<1>1. PICK k \in DOMAIN tcp'[h].queue : tcp'[h].queue[k] = c
  BY <1>h
<1>q. \A m \in DOMAIN tcp : tcp[m].queue \in Seq(Tcp!Handle)
  BY SocketParts
<1>2. ASSUME h \in DOMAIN tcp, tcp'[h].queue = tcp[h].queue PROVE Queued(c)
  BY <1>1, <1>2 DEF Queued
<1>3. CASE Tcp!Create
  <2>1. DOMAIN Tcp!NewSocket.queue = {}
    BY DEF Tcp!NewSocket
  <2>2. h \in DOMAIN tcp /\ tcp'[h].queue = tcp[h].queue
    BY <1>1, <1>3, <2>1 DEF Tcp!Create, Tcp!Added
  <2> QED BY <1>2, <2>2
<1>4. ASSUME NEW m \in DOMAIN tcp, Tcp!FinishConnect(m)
      PROVE  Queued(c) \/ (c \in DOMAIN tcp /\ tcp[c].state = "Connecting")
  <2>1. tcp[m].state = "Connecting" /\ DOMAIN tcp' = DOMAIN tcp
    BY <1>4 DEF Tcp!FinishConnect, Tcp!In
  <2>2. tcp'[h].queue = tcp[h].queue \/ tcp'[h].queue = Append(tcp[h].queue, m)
    <3> DEFINE connected == [tcp EXCEPT ![m].state = "Connected"]
               listener == boundTcp[tcp[m].remote]
               refused == [tcp EXCEPT ![m].state = "Closed", ![m].remote = None]
    <3>1. h \in DOMAIN tcp /\ tcp[h] \in Tcp!Socket
      BY <1>1, <2>1, SocketParts
    <3>2. /\ DOMAIN connected = DOMAIN tcp
          /\ connected[h].queue = tcp[h].queue
          /\ refused[h].queue = tcp[h].queue
          /\ connected[h] \in Tcp!Socket
      BY <3>1 DEF Tcp!Socket
    <3>3. \/ tcp' = refused \/ tcp' = connected
          \/ listener \in DOMAIN tcp /\ tcp' = [connected EXCEPT ![listener].queue = Append(@, m)]
      BY <1>4 DEF Tcp!FinishConnect
    <3>4. CASE tcp' = refused \/ tcp' = connected
      BY <3>2, <3>4
    <3>5. CASE listener \in DOMAIN tcp /\ tcp' = [connected EXCEPT ![listener].queue = Append(@, m)]
      <4> HIDE DEF connected, listener
      <4>1. h # listener => tcp'[h] = connected[h]
        BY <3>1, <3>2, <3>5
      <4>2. h = listener => tcp'[h].queue = Append(connected[h].queue, m)
        BY <3>1, <3>2, <3>5 DEF Tcp!Socket
      <4> QED BY <3>2, <4>1, <4>2
    <3> QED BY <3>3, <3>4, <3>5
  <2>3. CASE tcp'[h].queue = Append(tcp[h].queue, m)
    <3>1. m \in Tcp!Handle
      BY BoundAssumption DEF TcpInv, Tcp!TypeOK, Tcp!Handle
    <3>2. c = m \/ (k \in DOMAIN tcp[h].queue /\ c = tcp[h].queue[k])
      <4> DEFINE q == Append(tcp[h].queue, m)
      <4>1. /\ tcp[h].queue \in Seq(Tcp!Handle)
            /\ k \in DOMAIN q /\ c = q[k]
        BY <1>1, <1>q, <2>1, <2>3
      <4> HIDE DEF q
      <4>2. /\ DOMAIN q = 1 .. Len(tcp[h].queue) + 1 /\ DOMAIN tcp[h].queue = 1 .. Len(tcp[h].queue)
            /\ Len(tcp[h].queue) \in Nat /\ q[Len(tcp[h].queue) + 1] = m
            /\ \A j \in DOMAIN tcp[h].queue : q[j] = tcp[h].queue[j]
        BY <3>1, <4>1, AppendedParts DEF q
      <4> QED BY <4>1, <4>2
    <3> QED BY <1>1, <2>1, <3>2 DEF Queued
  <2> QED BY <1>1, <1>2, <2>1, <2>2, <2>3
<1>5. ASSUME NEW m \in DOMAIN tcp, Tcp!Accept(m) PROVE Queued(c)
  <2>1. m # nextHandle
    BY DEF TcpInv, Tcp!TypeOK
  <2>2. h \in DOMAIN tcp /\ tcp'[h].queue = IF h = m THEN Tail(tcp[h].queue) ELSE tcp[h].queue
    <3>1. DOMAIN Tcp!NewSocket.queue = {}
      BY DEF Tcp!NewSocket
    <3>2. PICK peer : /\ peer.queue = Tcp!NewSocket.queue
                      /\ tcp' = [Tcp!Added(peer) EXCEPT ![m].queue = Tail(@)]
      <4> DEFINE client == Head(tcp[m].queue)
                 remote == IF client \in DOMAIN tcp THEN tcp[client].local ELSE None
                 p == [Tcp!NewSocket EXCEPT
                          !.state = "Connected", !.local = tcp[m].local, !.remote = remote]
      <4>1. tcp' = [Tcp!Added(p) EXCEPT ![m].queue = Tail(@)]
        BY <1>5 DEF Tcp!Accept
      <4>2. p.queue = Tcp!NewSocket.queue
        BY DEF Tcp!NewSocket
      <4> QED BY <4>1, <4>2
    <3>3. /\ DOMAIN tcp' = DOMAIN tcp \union {nextHandle}
          /\ nextHandle \notin DOMAIN tcp
          /\ tcp'[nextHandle] = peer
          /\ tcp'[m].queue = Tail(tcp[m].queue)
          /\ \A n \in DOMAIN tcp \ {m} : tcp'[n] = tcp[n]
      <4>1. nextHandle \notin DOMAIN tcp
        BY DEF TcpInv, Tcp!TypeOK
      <4>2. m \in DOMAIN Tcp!Added(peer) /\ Tcp!Added(peer)[m] = tcp[m]
        BY <2>1 DEF Tcp!Added
      <4>3. tcp'[m].queue = Tail(tcp[m].queue)
        <5>1. tcp' = [Tcp!Added(peer) EXCEPT ![m] = [tcp[m] EXCEPT !.queue = Tail(tcp[m].queue)]]
          BY <3>2, <4>2
        <5>2. tcp[m] \in Tcp!Socket
          BY SocketParts
        <5> QED BY <4>2, <5>1, <5>2 DEF Tcp!Socket
      <4> QED BY <2>1, <3>2, <4>1, <4>3 DEF Tcp!Added
    <3> QED BY <1>1, <3>1, <3>2, <3>3
  <2>3. CASE h = m
    <3> DEFINE q == Tail(tcp[h].queue)
    <3>1. tcp[h].queue \in Seq(Tcp!Handle) /\ tcp[h].queue # <<>> /\ k \in DOMAIN q /\ c = q[k]
      BY <1>1, <1>5, <1>q, <2>2, <2>3 DEF Tcp!Accept
    <3>2. /\ q \in Seq(Tcp!Handle) /\ Len(q) = Len(tcp[h].queue) - 1
          /\ \A j \in 1 .. Len(q) : q[j] = tcp[h].queue[j + 1]
      BY <3>1, HeadTailProperties
    <3> HIDE DEF q
    <3>3. k + 1 \in DOMAIN tcp[h].queue /\ tcp[h].queue[k + 1] = c
      BY <3>1, <3>2, LenProperties
    <3> QED BY <2>2, <3>3 DEF Queued
  <2> QED BY <1>2, <2>2, <2>3
<1>6. CASE /\ DOMAIN tcp' \subseteq DOMAIN tcp
           /\ \A m \in DOMAIN tcp' : tcp'[m].queue = tcp[m].queue
  BY <1>1, <1>2, <1>6
<1>7. \/ Tcp!Create
      \/ \E m \in DOMAIN tcp : Tcp!FinishConnect(m) \/ Tcp!Accept(m)
      \/ /\ DOMAIN tcp' \subseteq DOMAIN tcp
         /\ \A m \in DOMAIN tcp' : tcp'[m].queue = tcp[m].queue
  <2> DEFINE Same == /\ DOMAIN tcp' \subseteq DOMAIN tcp
                     /\ \A m \in DOMAIN tcp' : tcp'[m].queue = tcp[m].queue
  <2>1. \A m \in DOMAIN tcp : tcp[m] \in Tcp!Socket
    BY SocketParts
  <2>2. CASE Tcp!BadHandle
    BY <2>2 DEF Tcp!BadHandle, Tcp!tcpVars
  <2>3. ASSUME NEW n \in DOMAIN tcp, NEW reuse \in BOOLEAN, Tcp!SetReuse(n, reuse) PROVE Same
    BY <2>1, <2>3 DEF Tcp!SetReuse, Tcp!Socket
  <2>4. ASSUME NEW n \in DOMAIN tcp, NEW a, Tcp!Bind(n, a) PROVE Same
    BY <2>1, <2>4 DEF Tcp!Bind, Tcp!Socket
  <2>5. ASSUME NEW n \in DOMAIN tcp, NEW a, Tcp!StartConnect(n, a) PROVE Same
    BY <2>1, <2>5 DEF Tcp!StartConnect, Tcp!Socket
  <2>6. ASSUME NEW n \in DOMAIN tcp, Tcp!StartListen(n) PROVE Same
    BY <2>1, <2>6 DEF Tcp!StartListen, Tcp!Socket
  <2>7. ASSUME NEW n \in DOMAIN tcp, NEW b, Tcp!Send(n, b) PROVE Same
    BY <2>1, <2>7 DEF Tcp!Send, Tcp!Socket
  <2>8. ASSUME NEW n \in DOMAIN tcp, NEW b, Tcp!Recv(n, b) PROVE Same
    BY <2>1, <2>8 DEF Tcp!Recv, Tcp!Socket
  <2>9. ASSUME NEW n \in DOMAIN tcp, NEW b, Tcp!Deliver(n, b) PROVE Same
    BY <2>1, <2>9 DEF Tcp!Deliver, Tcp!Socket
  <2>10. ASSUME NEW n \in DOMAIN tcp, Tcp!Close(n) PROVE Same
    BY <2>10 DEF Tcp!Close
  <2> QED BY <2>2, <2>3, <2>4, <2>5, <2>6, <2>7, <2>8, <2>9, <2>10 DEF Tcp!Next
<1> QED BY <1>3, <1>4, <1>5, <1>6, <1>7

\* A client that left its queue, or was closed, is in no queue again: none gets two
\* peers.
THEOREM AcceptedOnceAlways == Spec => AcceptedOnce
<1>1. Inv /\ [Next]_vars =>
          [\A c \in 1 .. nextHandle - 1 :
               Tcp!Places(c) = {} /\ (c \in Tcp!Opened => Tcp!In(c, "Connected"))
                   => Tcp!Places(c)' = {}]_Tcp!tcpVars
  <2> SUFFICES ASSUME Inv, [Next]_vars, ~ UNCHANGED Tcp!tcpVars,
                      NEW c \in 1 .. nextHandle - 1, Tcp!Places(c) = {},
                      c \in Tcp!Opened => Tcp!In(c, "Connected")
               PROVE  Tcp!Places(c)' = {}
    OBVIOUS
  <2>1. CASE Tcp!Next
    BY <2>1, QueuedBefore, QueuedHasPlace, QueuedHasPlaceNext DEF Tcp!In, Tcp!Opened
  <2>2. CASE UNCHANGED tcp
    BY <2>2 DEF Tcp!Places, Tcp!Opened
  <2> QED BY <2>1, <2>2 DEF Next, vars
<1> QED BY <1>1, InvAlways, PTL DEF Spec, AcceptedOnce, Tcp!AcceptedOnce
=============================================================================
