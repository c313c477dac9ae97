--------------------------- MODULE ConnectionProofs ---------------------------
(***************************************************************************)
(* Connection for every size of packets, buffers and queues and every bound*)
(* on what the ends and the network do.                                    *)
(*                                                                         *)
(* First its types and capacities, and that the two ends agree on the      *)
(* handshake.  The argument counts units.  An end that has not sent its    *)
(* whole part of the handshake has sent less than the other needs to go    *)
(* on, wherever those units are: in its stream, under way, or in the       *)
(* other's stream.                                                         *)
(*                                                                         *)
(* Then that what is queued arrives exactly once and in order as long as   *)
(* no send is cut, that two ends that follow the protocol never reject     *)
(* each other's bytes, and that cut or not nothing is overtaken, repeated  *)
(* or of another connection.  The argument follows one direction at a      *)
(* time.  Its line is the queue of the receiver, the units under way and   *)
(* the queue of the sender, and every step either leaves the line as it    *)
(* is, for it only moves units along, or adds to its end, or takes from    *)
(* its front, or cuts off what the sender has not handed to the network.   *)
(* Lines are put together and taken apart with two facts: which messages   *)
(* the parts hold, and that the ranks rise along a line if they do in its  *)
(* parts and from part to part.                                            *)
(*                                                                         *)
(* Last, that the two ends are a channel (`Channel').  Every step is a     *)
(* step of the channel or none: most move units along a line or cut its    *)
(* end off, which the owner sees only as messages that can no longer be    *)
(* read, on a connection that is lossy by then.                            *)
(***************************************************************************)
EXTENDS Connection, SequenceTheorems, WellFoundedInduction, TLAPS

USE UnitsAssumption, CapsAssumption, BoundsAssumption

\* The sockets, and what the status and the place in update() say of them.
Links ==
  /\ conn["server"] <= accepted
  /\ conn["client"] <= opened
  /\ \A e \in End :
       /\ conn[e] = 0 <=> status[e] = "uninitialized"
       /\ step[e] # "idle" => status[e] = "ready"
       /\ step[e] = "sending" => outgoing[e] # <<>>
  /\ status["server"] # "handshake_not_started"
  /\ status["client"] \notin {"handshake_hello_scheduled", "handshake_hello_sent"}

\* An end without a socket has nothing in its streams and queues.
Clear ==
  \A e \in End :
    conn[e] = 0 => inStream[e] = <<>> /\ outStream[e] = <<>> /\ incoming[e] = <<>>

\* Nothing has travelled on a connection that the server has not accepted.
Fresh ==
  /\ \A k \in Conns : k > accepted => \A e \in End : net[k][e] = <<>>
  /\ conn["client"] > accepted =>
       /\ status["client"] \in {"handshake_not_started", "error"}
       /\ inStream["client"] = <<>> /\ outStream["client"] = <<>>

\* The units sent to e that it has not used.
Pending(e) == Len(inStream[e]) + Len(net[conn[e]][e])

\* Of n units that e sends to begin with, none or not all are pending.
Unsaid(e, n) ==
  /\ Pending(Other(e)) + Len(outStream[e]) <= n
  /\ outStream[e] = <<>> => Pending(Other(e)) = 0

\* A server that has not sent its hello, and a client that has not answered.
Greeting ==
  Together =>
    /\ status["server"] = "handshake_hello_scheduled" =>
         /\ status["client"] \in {"handshake_not_started", "error"}
         /\ Unsaid("server", HelloUnits)
    /\ status["client"] = "handshake_not_started" =>
         /\ status["server"] # "ready"
         /\ Unsaid("client", HeaderUnits)

\* Messages are queued for the owner and read by it after the handshake only.
Reading ==
  \A e \in End :
    taken[e] > 0 \/ incoming[e] # <<>> => status[e] \in {"ready", "error"}

\* The parts of TypeOK.
TypeFlags ==
  /\ status \in [End -> Status]
  /\ step \in [End -> {"idle", "sending", "receiving", "reading"}]
  /\ err \in [End -> Errors]

TypeSockets ==
  /\ conn \in [End -> 0 .. MaxConns]
  /\ opened \in 0 .. MaxConns
  /\ accepted \in 0 .. opened
  /\ closed \in [Conns -> SUBSET End]
  /\ lost \in SUBSET Conns
  /\ dropped \in SUBSET Conns

TypeStreams ==
  /\ inStream \in [End -> Seq(Unit)]
  /\ outStream \in [End -> Seq(Unit)]
  /\ \A e \in End : Len(inStream[e]) <= InCap /\ Len(outStream[e]) <= OutCap

TypeNet ==
  /\ net \in [Conns -> [End -> Seq(Unit)]]
  /\ \A k \in Conns, e \in End : Len(net[k][e]) <= NetCap

TypeQueues ==
  /\ incoming \in [End -> Seq(Message)]
  /\ outgoing \in [End -> Seq(Message)]
  /\ \A e \in End : Len(incoming[e]) <= QueueIn /\ Len(outgoing[e]) <= QueueOut

TypeHistory ==
  /\ queued \in [End -> 0 .. MaxData]
  /\ taken \in [End -> Nat]
  /\ healths \in [End -> Nat] /\ \A e \in End : healths[e] <= MaxHealth[e]

Inv == TypeOK /\ Links /\ Clear
Agreed == Fresh /\ Greeting /\ Reading

-----------------------------------------------------------------------------
(***************************************************************************)
(* The smaller of two lengths, as Socket::send and receive compute it.     *)
(***************************************************************************)
LEMMA MinOfTwo ==
  ASSUME NEW a \in Int, NEW b \in Int
  PROVE  Min({a, b}) = IF a <= b THEN a ELSE b
<1>1. CASE a <= b
  <2>1. a \in {a, b} /\ \A y \in {a, b} : a =< y
    BY <1>1
  <2>2. \A x \in {a, b} : (\A y \in {a, b} : x =< y) => x = a
    BY <1>1
  <2> QED BY <1>1, <2>1, <2>2 DEF Min
<1>2. CASE ~(a <= b)
  <2>1. b \in {a, b} /\ \A y \in {a, b} : b =< y
    BY <1>2
  <2>2. \A x \in {a, b} : (\A y \in {a, b} : x =< y) => x = b
    BY <1>2
  <2> QED BY <1>2, <2>1, <2>2 DEF Min
<1> QED BY <1>1, <1>2

(***************************************************************************)
(* A frame is a sequence of as many units as its message has (codec.h 29,  *)
(* 52-62).                                                                 *)
(***************************************************************************)
LEMMA FrameIsUnits ==
  ASSUME NEW m \in Wire
  PROVE  /\ Frame(m) \in Seq(Unit)
         /\ Len(Frame(m)) = Size(m)
         /\ Size(m) \in Nat \ {0}
<1>1. Size(m) \in 1 .. HelloUnits + HeaderUnits + PayloadUnits
  BY DEF Size
<1>2. \A i \in 1 .. Size(m) : [m |-> m, i |-> i] \in Unit
  BY <1>1 DEF Unit
<1> QED BY <1>1, <1>2 DEF Frame

LEMMA HandshakeFrames ==
  /\ Frame(Packet) \in Seq(Unit) /\ Len(Frame(Packet)) = HelloUnits
  /\ Frame(HelloMsg) \in Seq(Unit) /\ Len(Frame(HelloMsg)) = HeaderUnits
  /\ HelloMsg \in Message /\ Health \in Message
<1>1. Packet \in Wire /\ HelloMsg \in Wire /\ HelloMsg \in Message /\ Health \in Message
  BY DEF Wire, Message
<1>2. Size(Packet) = HelloUnits
  BY DEF Size
<1>3. HelloMsg.op = "hello" /\ Packet.op = "packet"
  BY DEF HelloMsg, Packet
<1>4. Size(HelloMsg) = HeaderUnits
  BY <1>3 DEF Size
<1> QED BY <1>1, <1>2, <1>4, FrameIsUnits

(***************************************************************************)
(* The two ends of a stream that Accumulator::trim and Socket::send leave. *)
(***************************************************************************)
LEMMA TakeAndDrop ==
  ASSUME NEW s \in Seq(Unit), NEW n \in 0 .. Len(s)
  PROVE  /\ Take(s, n) \in Seq(Unit) /\ Len(Take(s, n)) = n
         /\ Drop(s, n) \in Seq(Unit) /\ Len(Drop(s, n)) = Len(s) - n
<1>1. Len(s) \in Nat /\ \A i \in 1 .. Len(s) : s[i] \in Unit
  BY ElementOfSeq
<1>2. \A i \in 1 .. n : s[i] \in Unit
  BY <1>1
<1>3. \A i \in n + 1 .. Len(s) : s[i] \in Unit
  BY <1>1
<1>4. Take(s, n) \in Seq(Unit) /\ Len(Take(s, n)) = n
  BY <1>1, <1>2, SubSeqProperties DEF Take
<1>5. Drop(s, n) \in Seq(Unit) /\ Len(Drop(s, n)) = Len(s) - n
  BY <1>1, <1>3, SubSeqProperties DEF Drop
<1> QED BY <1>4, <1>5

(***************************************************************************)
(* What try_read_message_from_in_stream() takes is a message, all of it.   *)
(***************************************************************************)
LEMMA ParsedIsThere ==
  ASSUME NEW s \in Seq(Unit), Parse(s) = "message"
  PROVE  /\ s[1].m \in Message
         /\ Size(s[1].m) \in 0 .. Len(s)
         /\ HeaderUnits <= Len(s)
<1>1. Len(s) >= HeaderUnits /\ s[1].m # Packet /\ Len(s) >= Size(s[1].m)
  <2>1. ~(Len(s) < HeaderUnits) /\ ~(s[1].m = Packet) /\ ~(Len(s) < Size(s[1].m))
    BY DEF Parse
  <2>2. s[1].m # Packet => Size(s[1].m) \in Nat
    BY DEF Size
  <2> QED BY <2>1, <2>2
<1>2. s[1] \in Unit
  BY <1>1, ElementOfSeq
<1>3. s[1].m \in Wire
  BY <1>2 DEF Unit
<1> QED BY <1>1, <1>3, FrameIsUnits DEF Wire

-----------------------------------------------------------------------------
(***************************************************************************)
(* What the kernel holds in each direction of a connection.                *)
(***************************************************************************)
LEMMA NetTypes ==
  ASSUME TypeOK, NEW k \in Conns, NEW f \in End
  PROVE  net[k][f] \in Seq(Unit) /\ Len(net[k][f]) \in 0 .. NetCap
<1>1. net[k][f] \in Seq(Unit)
  BY DEF TypeOK
<1>2. Len(net[k][f]) <= NetCap
  BY DEF TypeOK, Bounded
<1> QED BY <1>1, <1>2

(***************************************************************************)
(* A receive and a send move no more than there is and no more than fits,  *)
(* and touch no other connection.                                          *)
(***************************************************************************)
CanMove(e, n, data, m) ==
  /\ conn[e] \in Conns
  /\ n \in 0 .. Len(Arrived(e))
  /\ data \in Seq(Unit)
  /\ m \in 0 .. Len(data)
  /\ Vanishes(e) \/ m <= Room(e)

LEMMA NetMoves ==
  ASSUME TypeOK, NEW e \in End, NEW n, NEW data, NEW m, CanMove(e, n, data, m),
         NEW N, N = NetAfter(e, n, data, m)
  PROVE  /\ N \in [Conns -> [End -> Seq(Unit)]]
         /\ \A k \in Conns, f \in End : Len(N[k][f]) <= NetCap
         /\ \A k \in Conns : k # conn[e] => N[k] = net[k]
         /\ Len(N[conn[e]][e]) = Len(net[conn[e]][e]) - n
         /\ Len(N[conn[e]][Other(e)]) =
              Len(net[conn[e]][Other(e)]) + (IF Vanishes(e) THEN 0 ELSE m)
<1> DEFINE k0 == conn[e]
           f0 == Other(e)
           back == Drop(net[k0][e], n)
           forth == IF Vanishes(e) THEN net[k0][f0] ELSE net[k0][f0] \o Take(data, m)
<1>1. k0 \in Conns /\ f0 \in End /\ f0 # e /\ End = {e, f0}
  BY DEF CanMove, Other, End
<1>2. /\ net \in [Conns -> [End -> Seq(Unit)]]
      /\ \A k \in Conns, f \in End : Len(net[k][f]) <= NetCap /\ Len(net[k][f]) \in Nat
  <2>1. net \in [Conns -> [End -> Seq(Unit)]]
    BY DEF TypeOK
  <2>2. \A k \in Conns, f \in End : Len(net[k][f]) <= NetCap
    BY DEF TypeOK, Bounded
  <2>3. \A k \in Conns, f \in End : Len(net[k][f]) \in Nat
    BY <2>1
  <2> QED BY <2>1, <2>2, <2>3
<1>3. net[k0][e] \in Seq(Unit) /\ net[k0][f0] \in Seq(Unit)
  BY <1>1, <1>2
<1>4. back \in Seq(Unit) /\ Len(back) = Len(net[k0][e]) - n /\ Len(back) <= NetCap
  <2>1. n \in 0 .. Len(net[k0][e])
    BY DEF CanMove, Arrived
  <2>2. back \in Seq(Unit) /\ Len(back) = Len(net[k0][e]) - n
    BY <2>1, <1>3, TakeAndDrop
  <2> QED BY <2>1, <2>2, <1>1, <1>2
<1>5. /\ forth \in Seq(Unit)
      /\ Len(forth) = Len(net[k0][f0]) + (IF Vanishes(e) THEN 0 ELSE m)
      /\ Len(forth) <= NetCap
  <2>1. CASE Vanishes(e)
    BY <2>1, <1>1, <1>2, <1>3
  <2>2. CASE ~Vanishes(e)
    <3>1. m \in 0 .. Len(data) /\ data \in Seq(Unit) /\ m <= NetCap - Len(net[k0][f0])
      BY <2>2 DEF CanMove, Room
    <3>2. Take(data, m) \in Seq(Unit) /\ Len(Take(data, m)) = m
      BY <3>1, TakeAndDrop
    <3>3. /\ net[k0][f0] \o Take(data, m) \in Seq(Unit)
          /\ Len(net[k0][f0] \o Take(data, m)) = Len(net[k0][f0]) + m
      BY <3>2, <1>3, ConcatProperties
    <3> QED BY <2>2, <3>1, <3>3, <1>1, <1>2
  <2> QED BY <2>1, <2>2
<1>6. N = [net EXCEPT ![k0][e] = back, ![k0][f0] = forth]
  BY <1>1, <1>2 DEF NetAfter
<1> HIDE DEF back, forth
<1>7. /\ N[k0][e] = back /\ N[k0][f0] = forth
      /\ \A k \in Conns : k # k0 => N[k] = net[k]
      /\ N[k0] \in [End -> Seq(Unit)]
  BY <1>1, <1>2, <1>4, <1>5, <1>6
<1>8. N \in [Conns -> [End -> Seq(Unit)]]
  BY <1>1, <1>2, <1>6, <1>7
<1>9. \A k \in Conns, f \in End : Len(N[k][f]) <= NetCap
  <2> TAKE k \in Conns, f \in End
  <2>1. CASE k = k0 /\ f = e
    BY <2>1, <1>4, <1>7
  <2>2. CASE k = k0 /\ f = f0
    BY <2>2, <1>5, <1>7
  <2>3. CASE k # k0
    BY <2>3, <1>2, <1>7
  <2> QED BY <1>1, <2>1, <2>2, <2>3
<1> QED BY <1>4, <1>5, <1>7, <1>8, <1>9

(***************************************************************************)
(* Socket::send() takes no more than there is, nor than the kernel holds.  *)
(***************************************************************************)
LEMMA RoomTypes ==
  ASSUME TypeOK, NEW e \in End, conn[e] \in Conns
  PROVE  Room(e) \in Nat
<1>1. Other(e) \in End
  BY DEF Other, End
<1> QED BY <1>1, NetTypes DEF Room

LEMMA SendFits ==
  ASSUME TypeOK, NEW e \in End, conn[e] \in Conns, NEW data \in Seq(Unit)
  PROVE  CanMove(e, 0, data, Sent(e, data))
<1>1. Other(e) \in End
  BY DEF Other, End
<1>2. Len(Arrived(e)) \in Nat /\ Room(e) \in Nat /\ Len(data) \in Nat
  BY <1>1, NetTypes, RoomTypes DEF Arrived
<1>3. Sent(e, data) = IF PeerClosed(e) THEN Len(data)
                      ELSE IF Len(data) <= Room(e) THEN Len(data) ELSE Room(e)
  BY <1>2, MinOfTwo DEF Sent
<1>4. Sent(e, data) \in 0 .. Len(data) /\ (PeerClosed(e) \/ Sent(e, data) <= Room(e))
  BY <1>2, <1>3
<1> QED BY <1>2, <1>4 DEF CanMove, Vanishes

LEMMA ReceiveFits ==
  ASSUME TypeOK, NEW e \in End, conn[e] \in Conns, NEW limit \in Nat,
         NEW n \in Receivable(e, limit)
  PROVE  /\ CanMove(e, n, <<>>, 0)
         /\ n \in Nat /\ n <= limit
         /\ Take(Arrived(e), n) \in Seq(Unit) /\ Len(Take(Arrived(e), n)) = n
<1>1. Other(e) \in End
  BY DEF Other, End
<1>2. /\ Arrived(e) \in Seq(Unit) /\ Len(Arrived(e)) \in Nat
      /\ Room(e) \in Nat
  <2>1. Arrived(e) \in Seq(Unit) /\ Len(Arrived(e)) \in Nat
    BY NetTypes DEF Arrived
  <2>2. Room(e) \in Nat
    BY <1>1, NetTypes DEF Room
  <2> QED BY <2>1, <2>2
<1>3. Min({limit, Len(Arrived(e))}) = IF limit <= Len(Arrived(e)) THEN limit
                                      ELSE Len(Arrived(e))
  BY <1>2, MinOfTwo
<1>4. n \in 0 .. Len(Arrived(e)) /\ n <= limit
  BY <1>2, <1>3 DEF Receivable
<1>5. 0 <= Room(e) /\ 0 \in 0 .. Len(<<>>) /\ <<>> \in Seq(Unit)
  BY <1>2, EmptySeq
<1>6. CanMove(e, n, <<>>, 0)
  BY <1>4, <1>5 DEF CanMove
<1> QED BY <1>2, <1>4, <1>6, TakeAndDrop

-----------------------------------------------------------------------------
LEMMA TypeParts ==
  TypeOK <=> TypeFlags /\ TypeSockets /\ TypeStreams /\ TypeNet /\ TypeQueues /\ TypeHistory
BY DEF TypeOK, Bounded, TypeFlags, TypeSockets, TypeStreams, TypeNet, TypeQueues,
       TypeHistory

LEMMA TypePartsNext ==
  TypeFlags' /\ TypeSockets' /\ TypeStreams' /\ TypeNet' /\ TypeQueues' /\ TypeHistory'
    => TypeOK'
BY DEF TypeOK, Bounded, TypeFlags, TypeSockets, TypeStreams, TypeNet, TypeQueues,
       TypeHistory

LEMMA ConnOfSocket ==
  ASSUME TypeOK, NEW e \in End, conn[e] # 0
  PROVE  conn[e] \in Conns
BY TypeParts DEF TypeSockets, Conns

(***************************************************************************)
(* Socket::close() on the socket of e.                                     *)
(***************************************************************************)
LEMMA CloseTypes ==
  ASSUME TypeOK, NEW e \in End, conn[e] # 0, CloseSocket(e)
  PROVE  closed' \in [Conns -> SUBSET End] /\ TypeNet'
<1>1. conn[e] \in Conns
  BY ConnOfSocket
<1>2. closed' \in [Conns -> SUBSET End]
  BY <1>1, TypeParts DEF TypeSockets, CloseSocket
<1>3. TypeNet'
  <2>1. net' \in [Conns -> [End -> Seq(Unit)]]
    BY <1>1, TypeParts, EmptySeq DEF TypeNet, CloseSocket
  <2>2. \A k \in Conns, f \in End : net'[k][f] \in {net[k][f], <<>>}
    BY <1>1, TypeParts DEF TypeNet, CloseSocket
  <2>3. Len(<<>>) = 0
    BY EmptySeq
  <2>4. \A k \in Conns, f \in End : Len(net'[k][f]) <= NetCap
    BY <2>2, <2>3, TypeParts DEF TypeNet
  <2> QED BY <2>1, <2>4 DEF TypeNet
<1> QED BY <1>2, <1>3

LEMMA ClearTypes ==
  ASSUME TypeOK, NEW e \in End, ClearBuffers(e)
  PROVE  TypeStreams' /\ TypeQueues'
<1>1. <<>> \in Seq(Unit) /\ <<>> \in Seq(Message) /\ Len(<<>>) = 0
  BY EmptySeq
<1>2. TypeStreams'
  BY <1>1, TypeParts DEF ClearBuffers, TypeStreams
<1>3. TypeQueues'
  BY <1>1, TypeParts DEF ClearBuffers, TypeQueues
<1> QED BY <1>2, <1>3

(***************************************************************************)
(* The calls of the owners and the network.                                *)
(***************************************************************************)
LEMMA ConnectInv ==
  ASSUME Inv, Connect
  PROVE  Inv'
<1> USE DEF Inv
<1>1. TypeFlags' /\ TypeSockets' /\ TypeHistory'
  BY TypeParts, HealthAssumption DEF Connect, Begin, TypeFlags, TypeSockets, TypeHistory, Status, Handshaking,
     End
<1>2. TypeStreams' /\ TypeNet' /\ TypeQueues'
  BY TypeParts DEF Connect, streams, queues, TypeStreams, TypeNet, TypeQueues
<1>3. Links'
  BY TypeParts DEF Links, Connect, Begin, queues, TypeFlags, TypeSockets, End
<1>4. Clear'
  BY TypeParts DEF Clear, Connect, Begin, streams, queues, TypeFlags, TypeSockets, End
<1> QED BY <1>1, <1>2, <1>3, <1>4, TypePartsNext

LEMMA AcceptInv ==
  ASSUME Inv, Accept
  PROVE  Inv'
<1> USE DEF Inv
<1>1. TypeFlags' /\ TypeHistory'
  BY TypeParts, HealthAssumption DEF Accept, Begin, TypeFlags, TypeHistory, Status, Handshaking, End
<1>2. /\ closed' \in [Conns -> SUBSET End]
      /\ TypeStreams' /\ TypeNet' /\ TypeQueues'
  <2>1. CASE conn["server"] = 0
    BY <2>1, TypeParts DEF Accept, streams, queues, TypeSockets, TypeStreams, TypeNet,
       TypeQueues
  <2>2. CASE conn["server"] # 0
    BY <2>2, CloseTypes, ClearTypes DEF Accept, End
  <2> QED BY <2>1, <2>2
<1>3. TypeSockets'
  <2>1. accepted + 1 \in 0 .. opened /\ accepted + 1 \in 0 .. MaxConns
    BY TypeParts DEF Accept, TypeSockets
  <2> QED BY <1>2, <2>1, TypeParts DEF Accept, Begin, TypeSockets
<1>4. Links'
  BY TypeParts DEF Links, Accept, Begin, ClearBuffers, queues, TypeFlags, TypeSockets,
     TypeQueues, End
<1>5. Clear'
  BY TypeParts DEF Clear, Accept, Begin, ClearBuffers, streams, queues, TypeSockets,
     TypeStreams, TypeQueues, End
<1> QED BY <1>1, <1>2, <1>3, <1>4, <1>5, TypePartsNext

LEMMA ShutdownInv ==
  ASSUME Inv, NEW e \in End, Shutdown(e)
  PROVE  Inv'
<1> USE DEF Inv
<1>1. TypeFlags' /\ TypeHistory'
  BY TypeParts, HealthAssumption DEF Shutdown, TypeFlags, TypeHistory, Status, Errors
<1>2. /\ closed' \in [Conns -> SUBSET End]
      /\ TypeStreams' /\ TypeNet' /\ TypeQueues'
  BY CloseTypes, ClearTypes DEF Shutdown
<1>3. TypeSockets'
  BY <1>2, TypeParts DEF Shutdown, TypeSockets
<1>4. Links'
  BY TypeParts DEF Links, Shutdown, ClearBuffers, TypeFlags, TypeSockets, TypeQueues, End
<1>5. Clear'
  BY TypeParts DEF Clear, Shutdown, ClearBuffers, TypeSockets, TypeStreams, TypeQueues, End
<1> QED BY <1>1, <1>2, <1>3, <1>4, <1>5, TypePartsNext

LEMMA LosePathInv ==
  ASSUME Inv, NEW k \in Conns, LosePath(k)
  PROVE  Inv'
<1> USE DEF Inv
<1>1. TypeFlags' /\ TypeSockets' /\ TypeStreams' /\ TypeQueues' /\ TypeHistory'
  BY TypeParts DEF LosePath, queues, history, TypeFlags, TypeSockets, TypeStreams,
     TypeQueues, TypeHistory
<1>2. TypeNet'
  BY TypeParts, EmptySeq DEF LosePath, TypeNet
<1>3. Links' /\ Clear'
  BY DEF Links, Clear, LosePath, queues
<1> QED BY <1>1, <1>2, <1>3, TypePartsNext

LEMMA OwnerInv ==
  ASSUME Inv, NEW e \in End, AddOutgoing(e) \/ RemoveIncoming(e)
  PROVE  Inv'
<1> USE DEF Inv
<1>1. TypeFlags' /\ TypeSockets' /\ TypeStreams' /\ TypeNet'
  BY TypeParts DEF AddOutgoing, RemoveIncoming, session, sockets, streams, TypeFlags,
     TypeSockets, TypeStreams, TypeNet
<1>2. CASE AddOutgoing(e)
  <2>1. TypeHistory' /\ queued[e] + 1 \in 1 .. MaxData
    BY <1>2, TypeParts DEF AddOutgoing, TypeHistory
  <2>2. Data(conn[e], queued[e] + 1) \in Message
    BY <1>2, <2>1, ConnOfSocket DEF AddOutgoing, Usable, Message
  <2>3. TypeQueues'
    BY <1>2, <2>2, TypeParts DEF AddOutgoing, TypeQueues
  <2>4. Links' /\ Clear'
    BY <1>2, TypeParts DEF Links, Clear, AddOutgoing, Usable, session, sockets, streams,
       TypeQueues
  <2> QED BY <1>1, <2>1, <2>3, <2>4, TypePartsNext
<1>3. CASE RemoveIncoming(e)
  <2>1. TypeHistory'
    BY <1>3, TypeParts DEF RemoveIncoming, TypeHistory
  <2>2. TypeQueues'
    BY <1>3, HeadTailProperties, TypeParts DEF RemoveIncoming, TypeQueues
  <2>3. Links' /\ Clear'
    BY <1>3, TypeParts DEF Links, Clear, RemoveIncoming, Usable, session, sockets, streams,
       TypeQueues
  <2> QED BY <1>1, <2>1, <2>2, <2>3, TypePartsNext
<1> QED BY <1>2, <1>3

-----------------------------------------------------------------------------
(***************************************************************************)
(* What a step inside a connection keeps: the sockets and the network, when*)
(* it receives n units, sends m of data, and changes nothing else of them. *)
(***************************************************************************)
LEMMA NetStep ==
  ASSUME Inv, NEW e \in End, NEW n, NEW data, NEW m, CanMove(e, n, data, m),
         net' = NetAfter(e, n, data, m)
  PROVE  TypeNet'
BY NetMoves DEF TypeNet, Inv

(***************************************************************************)
(* A step of e inside a connection moves the handshake on, or fails.       *)
(***************************************************************************)
Onward(e) ==
  /\ UNCHANGED <<conn, opened, accepted>>
  /\ \A f \in End \ {e} :
       status'[f] = status[f] /\ step'[f] = step[f] /\ outgoing'[f] = outgoing[f]
  /\ \/ status'[e] \in {status[e], "ready", "error"}
     \/ status'[e] = "handshake_hello_sent" /\ status[e] = "handshake_hello_scheduled"
  /\ step'[e] # "idle" => status'[e] = "ready"
  /\ step'[e] = "sending" => outgoing'[e] # <<>>

LEMMA OnwardLinks ==
  ASSUME Inv, NEW e \in End, conn[e] # 0, Onward(e)
  PROVE  Links'
<1> USE DEF Inv
<1>1. conn' = conn /\ opened' = opened /\ accepted' = accepted
  BY DEF Onward
<1>2. ASSUME NEW f \in End
      PROVE  /\ conn[f] = 0 <=> status'[f] = "uninitialized"
             /\ step'[f] # "idle" => status'[f] = "ready"
             /\ step'[f] = "sending" => outgoing'[f] # <<>>
  <2>1. CASE f = e
    BY <2>1 DEF Onward, Links
  <2>2. CASE f # e
    BY <2>2 DEF Onward, Links
  <2> QED BY <2>1, <2>2
<1>3. status'["server"] # "handshake_not_started"
  BY DEF Onward, Links, End
<1>4. status'["client"] \notin {"handshake_hello_scheduled", "handshake_hello_sent"}
  BY DEF Onward, Links, End
<1> QED BY <1>1, <1>2, <1>3, <1>4 DEF Links

(***************************************************************************)
(* The failures and the timers that only record an error.                  *)
(***************************************************************************)
LEMMA FailInv ==
  ASSUME Inv, NEW e \in End,
         HandshakeTimeout(e) \/ HealthTimeout(e) \/ HealthQueueFull(e) \/ SocketError(e)
           \/ SendLeftoverFails(e)
  PROVE  Inv'
<1> USE DEF Inv
<1>1. UNCHANGED <<session, streams, queues, history>>
  BY DEF HandshakeTimeout, HealthTimeout, HealthQueueFull, SocketError, SendLeftoverFails
<1>2. TypeSockets' /\ TypeStreams' /\ TypeNet' /\ TypeQueues' /\ TypeHistory' /\ Clear'
  BY <1>1, TypeParts DEF session, sockets, streams, queues, history, TypeSockets,
     TypeStreams, TypeNet, TypeQueues, TypeHistory, Clear
<1>3. conn[e] # 0
  BY DEF HandshakeTimeout, HealthTimeout, HealthQueueFull, SocketError, SendLeftoverFails,
     CanHandshake, CanUpdate, Usable, Links
<1>4. \/ \E x \in Errors : Fail(e, x)
      \/ \E x \in Errors : err' = [err EXCEPT ![e] = x] /\ UNCHANGED <<status, step>>
  BY DEF HandshakeTimeout, HealthTimeout, HealthQueueFull, SocketError, SendLeftoverFails,
     Errors
<1>5. TypeFlags'
  BY <1>4, TypeParts DEF TypeFlags, Fail, Status
<1>6. Links'
  <2>1. Onward(e)
    BY <1>1, <1>4, TypeParts DEF Onward, Links, Fail, TypeFlags, session, sockets, queues
  <2> QED BY <2>1, <1>3, OnwardLinks
<1> QED BY <1>2, <1>5, <1>6, TypePartsNext

(***************************************************************************)
(* The handshake of connection.cpp 396-458, step by step.                  *)
(***************************************************************************)
LEMMA StreamTypes ==
  ASSUME TypeOK, NEW e \in End
  PROVE  /\ inStream[e] \in Seq(Unit) /\ Len(inStream[e]) \in 0 .. InCap
         /\ outStream[e] \in Seq(Unit) /\ Len(outStream[e]) \in 0 .. OutCap
<1>1. inStream[e] \in Seq(Unit) /\ outStream[e] \in Seq(Unit)
  BY TypeParts DEF TypeStreams
<1>2. Len(inStream[e]) <= InCap /\ Len(outStream[e]) <= OutCap
  BY TypeParts DEF TypeStreams
<1> QED BY <1>1, <1>2

\* What try_send_hello and try_send_hello_message send: the frame of m, or
\* what is left of it.
ToSay(e, m) == IF outStream[e] = <<>> THEN Frame(m) ELSE outStream[e]

LEMMA ToSayFits ==
  ASSUME TypeOK, NEW e \in End, conn[e] # 0, NEW p \in {Packet, HelloMsg}
  PROVE  /\ ToSay(e, p) \in Seq(Unit) /\ Len(ToSay(e, p)) <= OutCap
         /\ CanMove(e, 0, ToSay(e, p), Sent(e, ToSay(e, p)))
         /\ Sent(e, ToSay(e, p)) \in 0 .. Len(ToSay(e, p))
         /\ Drop(ToSay(e, p), Sent(e, ToSay(e, p))) \in Seq(Unit)
         /\ Len(Drop(ToSay(e, p), Sent(e, ToSay(e, p))))
              = Len(ToSay(e, p)) - Sent(e, ToSay(e, p))
<1>1. ToSay(e, p) \in Seq(Unit) /\ Len(ToSay(e, p)) <= OutCap
  BY HandshakeFrames, StreamTypes DEF ToSay
<1>2. CanMove(e, 0, ToSay(e, p), Sent(e, ToSay(e, p)))
  BY <1>1, ConnOfSocket, SendFits
<1>3. Sent(e, ToSay(e, p)) \in 0 .. Len(ToSay(e, p))
  BY <1>2 DEF CanMove
<1> QED BY <1>1, <1>2, <1>3, TakeAndDrop

LEMMA SendHelloInv ==
  ASSUME Inv, NEW e \in End, SendHello(e)
  PROVE  Inv'
<1> USE DEF Inv
<1> DEFINE out == ToSay(e, Packet)
           m == Sent(e, out)
<1>1. /\ conn[e] # 0 /\ status[e] = "handshake_hello_scheduled" /\ step[e] = "idle"
      /\ UNCHANGED <<session, queues, history>> /\ inStream' = inStream
  BY DEF SendHello, CanHandshake, Usable
<1>2. TypeSockets' /\ TypeQueues' /\ TypeHistory'
  BY <1>1, TypeParts DEF session, sockets, queues, history, TypeSockets, TypeQueues,
     TypeHistory
<1>3. CASE /\ outStream' = [outStream EXCEPT ![e] = Drop(out, m)]
           /\ net' = NetAfter(e, 0, out, m)
           /\ status' = [status EXCEPT ![e] =
                           IF m = Len(out) THEN "handshake_hello_sent" ELSE @]
           /\ UNCHANGED <<step, err, inStream>>
  <2>1. TypeNet'
    BY <1>1, <1>3, ToSayFits, NetStep
  <2>2. TypeFlags'
    BY <1>3, TypeParts DEF TypeFlags, Status, Handshaking
  <2>3. TypeStreams'
    <3>1. Drop(out, m) \in Seq(Unit) /\ Len(Drop(out, m)) <= OutCap
      BY <1>1, ToSayFits
    <3> HIDE DEF out, m
    <3> QED BY <1>3, <3>1, TypeParts DEF TypeStreams
  <2>4. Onward(e)
    <3> HIDE DEF out, m
    <3> QED BY <1>1, <1>3, TypeParts DEF Onward, TypeFlags, session, sockets, queues
  <2>5. Clear'
    BY <1>1, <1>3 DEF Clear, session, sockets, queues
  <2> QED BY <1>1, <1>2, <2>1, <2>2, <2>3, <2>4, <2>5, OnwardLinks, TypePartsNext
<1>4. CASE /\ Arrived(e) # <<>>
           /\ Fail(e, "RECEIVE_BEFORE_SEND")
           /\ net' = NetAfter(e, 1, <<>>, 0)
           /\ UNCHANGED <<inStream, outStream>>
  <2>1. CanMove(e, 1, <<>>, 0)
    <3>1. Arrived(e) \in Seq(Unit) /\ Other(e) \in End
      BY <1>1, ConnOfSocket, NetTypes DEF Arrived, Other, End
    <3>2. 1 \in 0 .. Len(Arrived(e))
      BY <1>4, <3>1, EmptySeq
    <3>3. Room(e) >= 0
      BY <1>1, <3>1, ConnOfSocket, NetTypes DEF Room
    <3> QED BY <1>1, <3>2, <3>3, ConnOfSocket, EmptySeq DEF CanMove
  <2>2. TypeNet'
    BY <1>4, <2>1, NetStep
  <2>3. TypeFlags' /\ TypeStreams'
    BY <1>4, TypeParts DEF Fail, TypeFlags, TypeStreams, Status, Errors
  <2>4. Onward(e)
    BY <1>1, <1>4, TypeParts DEF Onward, Fail, TypeFlags, session, sockets, queues
  <2>5. Clear'
    BY <1>1, <1>4 DEF Clear, session, sockets, queues
  <2> QED BY <1>1, <1>2, <2>2, <2>3, <2>4, <2>5, OnwardLinks, TypePartsNext
<1> QED BY <1>3, <1>4 DEF SendHello, ToSay

\* What try_read_data_into_in_stream() leaves in the stream when it receives n.
Joined(e, n) == inStream[e] \o Take(Arrived(e), n)

LEMMA JoinedLength ==
  ASSUME TypeOK, NEW e \in End, conn[e] # 0, NEW limit \in Nat,
         NEW n \in Receivable(e, limit)
  PROVE  /\ Joined(e, n) \in Seq(Unit)
         /\ Len(Joined(e, n)) = Len(inStream[e]) + n
         /\ n \in 0 .. limit
         /\ CanMove(e, n, <<>>, 0)
<1>1. /\ Take(Arrived(e), n) \in Seq(Unit) /\ Len(Take(Arrived(e), n)) = n
      /\ n \in 0 .. limit /\ CanMove(e, n, <<>>, 0)
  BY ReceiveFits, ConnOfSocket
<1>2. /\ Joined(e, n) \in Seq(Unit)
      /\ Len(Joined(e, n)) = Len(inStream[e]) + Len(Take(Arrived(e), n))
  BY <1>1, StreamTypes, ConcatProperties DEF Joined
<1> QED BY <1>1, <1>2

LEMMA ReceiveHelloInv ==
  ASSUME Inv, NEW e \in End, ReceiveHello(e)
  PROVE  Inv'
<1> USE DEF Inv
<1>1. /\ conn[e] # 0 /\ status[e] = "handshake_not_started" /\ step[e] = "idle"
      /\ UNCHANGED <<session, queues, history>>
  BY DEF ReceiveHello, CanHandshake, Usable
<1>2. TypeSockets' /\ TypeQueues' /\ TypeHistory'
  BY <1>1, TypeParts DEF session, sockets, queues, history, TypeSockets, TypeQueues,
     TypeHistory
<1> DEFINE out == ToSay(e, HelloMsg)
           m == Sent(e, out)
<1>3. PICK n \in Receivable(e, HelloUnits) \ {0} :
        \/ /\ Len(Joined(e, n)) < HelloUnits
           /\ inStream' = [inStream EXCEPT ![e] = Joined(e, n)]
           /\ net' = NetAfter(e, n, <<>>, 0)
           /\ UNCHANGED <<status, step, err, outStream>>
        \/ /\ Len(Joined(e, n)) >= HelloUnits
           /\ inStream' = [inStream EXCEPT ![e] = Drop(Joined(e, n), HelloUnits)]
           /\ net' = NetAfter(e, n, <<>>, 0)
           /\ Fail(e, "HELLO_INVALID")
           /\ UNCHANGED outStream
        \/ /\ Len(Joined(e, n)) >= HelloUnits
           /\ inStream' = [inStream EXCEPT ![e] = Drop(Joined(e, n), HelloUnits)]
           /\ outStream' = [outStream EXCEPT ![e] = Drop(out, m)]
           /\ net' = NetAfter(e, n, out, m)
           /\ status' = [status EXCEPT ![e] = IF m = Len(out) THEN "ready" ELSE @]
           /\ UNCHANGED <<step, err>>
  BY DEF ReceiveHello, Joined, ToSay
<1>4. /\ Joined(e, n) \in Seq(Unit)
      /\ Len(Joined(e, n)) = Len(inStream[e]) + n
      /\ n \in 0 .. HelloUnits
      /\ CanMove(e, n, <<>>, 0)
  BY <1>1, JoinedLength
<1>5. /\ out \in Seq(Unit) /\ CanMove(e, 0, out, m)
      /\ Drop(out, m) \in Seq(Unit) /\ Len(Drop(out, m)) <= OutCap
  BY <1>1, ToSayFits
<1> HIDE DEF out, m
<1>6. CanMove(e, n, out, m)
  BY <1>4, <1>5 DEF CanMove
<1>7. TypeNet'
  BY <1>3, <1>4, <1>6, NetStep
<1>8. TypeFlags'
  BY <1>3, TypeParts DEF TypeFlags, Fail, Status, Errors
<1>9. TypeStreams'
  <2>1. Len(inStream[e]) \in 0 .. InCap
    BY StreamTypes
  <2>2. Len(Joined(e, n)) >= HelloUnits =>
          /\ Drop(Joined(e, n), HelloUnits) \in Seq(Unit)
          /\ Len(Drop(Joined(e, n), HelloUnits)) <= InCap
    BY <1>4, <2>1, TakeAndDrop
  <2>3. \E s \in Seq(Unit) : Len(s) <= InCap /\ inStream' = [inStream EXCEPT ![e] = s]
    BY <1>3, <1>4, <2>2
  <2>4. \/ outStream' = outStream
        \/ outStream' = [outStream EXCEPT ![e] = Drop(out, m)]
    BY <1>3
  <2> QED BY <1>5, <2>3, <2>4, TypeParts DEF TypeStreams
<1>10. Onward(e)
  BY <1>1, <1>3, TypeParts DEF Onward, Fail, TypeFlags, session, sockets, queues
<1>11. Clear'
  <2>1. \A f \in End \ {e} :
          inStream'[f] = inStream[f] /\ outStream'[f] = outStream[f]
    BY <1>1, <1>3, TypeParts DEF TypeStreams
  <2> QED BY <1>1, <2>1 DEF Clear, session, sockets, queues
<1> QED BY <1>1, <1>2, <1>7, <1>8, <1>9, <1>10, <1>11, OnwardLinks, TypePartsNext

LEMMA ReceiveHelloMessageInv ==
  ASSUME Inv, NEW e \in End, ReceiveHelloMessage(e)
  PROVE  Inv'
<1> USE DEF Inv
<1>1. /\ conn[e] # 0 /\ status[e] = "handshake_hello_sent" /\ step[e] = "idle"
      /\ UNCHANGED <<session, outStream, queues, history>>
  BY DEF ReceiveHelloMessage, CanHandshake, Usable
<1>2. TypeSockets' /\ TypeQueues' /\ TypeHistory'
  BY <1>1, TypeParts DEF session, sockets, queues, history, TypeSockets, TypeQueues,
     TypeHistory
<1>3. InCap - Len(inStream[e]) \in Nat
  BY StreamTypes
<1>4. PICK n \in Receivable(e, InCap - Len(inStream[e])) :
        LET s == Joined(e, n) IN
        /\ net' = NetAfter(e, n, <<>>, 0)
        /\ \/ /\ Parse(s) = "short"
              /\ inStream' = [inStream EXCEPT ![e] = s]
              /\ UNCHANGED <<status, step, err>>
           \/ /\ Parse(s) = "bad"
              /\ inStream' = [inStream EXCEPT ![e] = s]
              /\ Fail(e, "BAD_FRAME")
           \/ /\ Parse(s) = "message"
              /\ inStream' = [inStream EXCEPT ![e] = Drop(s, Size(s[1].m))]
              /\ \/ /\ status' = [status EXCEPT ![e] = "ready"]
                    /\ UNCHANGED <<step, err>>
                 \/ Fail(e, "HELLO_MESSAGE_REPLY_INVALID")
  BY DEF ReceiveHelloMessage, Joined
<1> DEFINE s == Joined(e, n)
<1>5. s \in Seq(Unit) /\ Len(s) <= InCap /\ CanMove(e, n, <<>>, 0)
  BY <1>1, <1>3, JoinedLength, StreamTypes
<1>6. Parse(s) = "message" =>
        Drop(s, Size(s[1].m)) \in Seq(Unit) /\ Len(Drop(s, Size(s[1].m))) <= InCap
  BY <1>5, ParsedIsThere, TakeAndDrop
<1> HIDE DEF s
<1>7. TypeNet'
  BY <1>4, <1>5, NetStep
<1>8. TypeFlags'
  BY <1>4, TypeParts DEF TypeFlags, Fail, Status, Errors
<1>9. TypeStreams'
  <2>1. \E t \in Seq(Unit) : Len(t) <= InCap /\ inStream' = [inStream EXCEPT ![e] = t]
    BY <1>4, <1>5, <1>6 DEF s
  <2> QED BY <1>1, <2>1, TypeParts DEF TypeStreams
<1>10. Onward(e)
  BY <1>1, <1>4, TypeParts DEF Onward, Fail, TypeFlags, session, sockets, queues
<1>11. Clear'
  <2>1. \A f \in End \ {e} :
          inStream'[f] = inStream[f] /\ outStream'[f] = outStream[f]
    BY <1>1, <1>4, TypeParts DEF TypeStreams
  <2> QED BY <1>1, <2>1 DEF Clear, session, sockets, queues
<1> QED BY <1>1, <1>2, <1>7, <1>8, <1>9, <1>10, <1>11, OnwardLinks, TypePartsNext

(***************************************************************************)
(* The update of a ready connection (connection.cpp 305-614), step by step.*)
(***************************************************************************)
LEMMA SendPendingTypes ==
  ASSUME TypeOK, NEW e \in End, conn[e] # 0, NEW out \in Seq(Unit), Len(out) <= OutCap,
         SendPending(e, out), UNCHANGED inStream
  PROVE  /\ TypeStreams' /\ TypeNet'
         /\ dropped' \in SUBSET Conns
         /\ \A f \in End \ {e} : outStream'[f] = outStream[f]
<1>1. conn[e] \in Conns /\ <<>> \in Seq(Unit) /\ Len(<<>>) = 0
  BY ConnOfSocket, EmptySeq
<1>2. TypeNet'
  <2>1. CanMove(e, 0, out, Sent(e, out))
    BY <1>1, SendFits
  <2>2. net' = net \/ net' = NetAfter(e, 0, out, Sent(e, out))
    BY DEF SendPending
  <2>3. CASE net' = net
    BY <2>3, TypeParts DEF TypeNet
  <2>4. CASE net' = NetAfter(e, 0, out, Sent(e, out))
    BY <2>1, <2>4, NetMoves DEF TypeNet
  <2> QED BY <2>2, <2>3, <2>4
<1>3. dropped' \in SUBSET Conns
  BY <1>1, TypeParts DEF SendPending, TypeSockets
<1>4. PICK s \in {<<>>, out} : outStream' = [outStream EXCEPT ![e] = s]
  BY DEF SendPending
<1>5. s \in Seq(Unit) /\ Len(s) <= OutCap
  <2>1. CASE s = <<>>
    BY <1>1, <2>1
  <2>2. CASE s = out
    BY <2>2
  <2> QED BY <2>1, <2>2
<1>6. TypeStreams' /\ \A f \in End \ {e} : outStream'[f] = outStream[f]
  BY <1>4, <1>5, TypeParts DEF TypeStreams
<1> QED BY <1>2, <1>3, <1>6

LEMMA BeginUpdateInv ==
  ASSUME Inv, NEW e \in End, BeginUpdate(e)
  PROVE  Inv'
<1> USE DEF Inv
<1>1. /\ conn[e] # 0 /\ status[e] = "ready"
      /\ UNCHANGED <<status, err, sockets, inStream, incoming, queued, taken>>
      /\ SendPending(e, outStream[e])
  BY DEF BeginUpdate, CanUpdate, Usable
<1>2. PICK due \in BOOLEAN :
        LET q == IF due THEN Append(outgoing[e], Health) ELSE outgoing[e] IN
        /\ due => healths[e] < MaxHealth[e] /\ Len(outgoing[e]) # QueueOut
        /\ healths' = [healths EXCEPT ![e] = IF due THEN @ + 1 ELSE @]
        /\ outgoing' = [outgoing EXCEPT ![e] = q]
        /\ step' = [step EXCEPT ![e] = IF Writable(e) THEN After(q) ELSE "idle"]
  BY DEF BeginUpdate
<1> DEFINE q == IF due THEN Append(outgoing[e], Health) ELSE outgoing[e]
<1>3. /\ TypeStreams' /\ TypeNet' /\ dropped' \in SUBSET Conns
      /\ \A f \in End \ {e} : outStream'[f] = outStream[f]
  BY <1>1, StreamTypes, SendPendingTypes
<1>4. TypeSockets'
  BY <1>1, <1>3, TypeParts DEF TypeSockets, sockets
<1>5. TypeQueues'
  <2>1. q \in Seq(Message) /\ Len(q) <= QueueOut
    BY <1>2, HandshakeFrames, TypeParts DEF TypeQueues
  <2> HIDE DEF q
  <2> QED BY <1>1, <1>2, <2>1, TypeParts DEF TypeQueues, q
<1>6. TypeHistory'
  <2>1. due => healths[e] + 1 <= MaxHealth[e]
    BY <1>2, TypeParts, HealthAssumption DEF TypeHistory
  <2> QED BY <1>1, <1>2, <2>1, TypeParts, HealthAssumption DEF TypeHistory
<1>7. TypeFlags'
  BY <1>1, <1>2, TypeParts DEF TypeFlags, After
<1>8. Onward(e)
  BY <1>1, <1>2, TypeParts DEF Onward, TypeFlags, TypeQueues, After, sockets
<1>9. Clear'
  BY <1>1, <1>3 DEF Clear, sockets
<1> QED BY <1>1, <1>3, <1>4, <1>5, <1>6, <1>7, <1>8, <1>9, OnwardLinks, TypePartsNext

LEMMA SendNextInv ==
  ASSUME Inv, NEW e \in End, SendNext(e)
  PROVE  Inv'
<1> USE DEF Inv
<1> DEFINE out == outStream[e] \o Frame(Head(outgoing[e]))
<1>1. /\ step[e] = "sending" /\ status[e] = "ready" /\ conn[e] # 0 /\ outgoing[e] # <<>>
      /\ outgoing' = [outgoing EXCEPT ![e] = Tail(@)]
      /\ UNCHANGED <<sockets, inStream, incoming, history>>
  BY DEF SendNext, Links
<1>2. \/ Fail(e, "OUT_MESSAGE_TOO_BIG_FOR_STREAM") /\ UNCHANGED <<outStream, net, dropped>>
      \/ /\ Len(out) <= OutCap
         /\ SendPending(e, out)
         /\ step' = [step EXCEPT ![e] = After(Tail(outgoing[e]))]
         /\ UNCHANGED <<status, err>>
      \/ /\ Len(out) <= OutCap
         /\ Fail(e, "SOCKET_SEND_FAILED")
         /\ outStream' = [outStream EXCEPT ![e] = out]
         /\ UNCHANGED <<net, dropped>>
  BY DEF SendNext
<1>3. /\ outgoing[e] \in Seq(Message) /\ Head(outgoing[e]) \in Message
      /\ Tail(outgoing[e]) \in Seq(Message) /\ Len(Tail(outgoing[e])) <= QueueOut
  <2>1. outgoing[e] \in Seq(Message) /\ Len(outgoing[e]) <= QueueOut
    BY TypeParts DEF TypeQueues
  <2> QED BY <1>1, <2>1, HeadTailProperties
<1>4. out \in Seq(Unit)
  BY <1>3, StreamTypes, FrameIsUnits, ConcatProperties DEF Wire
<1> HIDE DEF out
<1>5. /\ TypeStreams' /\ TypeNet' /\ dropped' \in SUBSET Conns
      /\ \A f \in End \ {e} : outStream'[f] = outStream[f]
  <2>1. CASE Len(out) <= OutCap /\ SendPending(e, out)
    BY <1>1, <1>4, <2>1, SendPendingTypes
  <2>2. CASE UNCHANGED <<outStream, net, dropped>>
    BY <1>1, <2>2, TypeParts DEF TypeStreams, TypeNet, TypeSockets
  <2>3. CASE /\ Len(out) <= OutCap
             /\ outStream' = [outStream EXCEPT ![e] = out]
             /\ UNCHANGED <<net, dropped>>
    BY <1>1, <1>4, <2>3, TypeParts DEF TypeStreams, TypeNet, TypeSockets
  <2> QED BY <1>2, <2>1, <2>2, <2>3
<1>6. TypeSockets'
  BY <1>1, <1>5, TypeParts DEF TypeSockets, sockets
<1>7. TypeQueues' /\ TypeHistory'
  BY <1>1, <1>3, TypeParts DEF TypeQueues, TypeHistory, history
<1>8. TypeFlags'
  BY <1>2, TypeParts DEF TypeFlags, Fail, After, Status, Errors
<1>9. Onward(e)
  BY <1>1, <1>2, TypeParts DEF Onward, Fail, TypeFlags, TypeQueues, After, sockets
<1>10. Clear'
  BY <1>1, <1>5 DEF Clear, sockets
<1> QED BY <1>1, <1>5, <1>6, <1>7, <1>8, <1>9, <1>10, OnwardLinks, TypePartsNext

LEMMA ReceiveInv ==
  ASSUME Inv, NEW e \in End, Receive(e, 0) \/ ReceiveSome(e)
  PROVE  Inv'
<1> USE DEF Inv
<1>1. /\ step[e] = "receiving" /\ status[e] = "ready" /\ conn[e] # 0
      /\ UNCHANGED <<status, err, session, outStream, queues, history>>
  BY DEF Receive, ReceiveSome, Links
<1>2. InCap - Len(inStream[e]) \in Nat
  BY StreamTypes
<1>3. PICK n \in Receivable(e, InCap - Len(inStream[e])) : Receive(e, n)
  <2>1. Len(Arrived(e)) \in Nat
    BY <1>1, ConnOfSocket, NetTypes DEF Arrived
  <2>2. 0 \in Receivable(e, InCap - Len(inStream[e]))
    BY <1>2, <2>1, MinOfTwo DEF Receivable
  <2> QED BY <2>2 DEF ReceiveSome
<1> DEFINE s == Joined(e, n)
<1>4. s \in Seq(Unit) /\ Len(s) <= InCap /\ CanMove(e, n, <<>>, 0)
  BY <1>1, <1>2, JoinedLength, StreamTypes
<1>5. /\ inStream' = [inStream EXCEPT ![e] = s]
      /\ step' = [step EXCEPT ![e] = IF Len(s) < HeaderUnits THEN "idle" ELSE "reading"]
      /\ net' = NetAfter(e, n, <<>>, 0)
  BY <1>3 DEF Receive, Joined
<1> HIDE DEF s
<1>6. TypeNet'
  BY <1>4, <1>5, NetStep
<1>7. TypeStreams' /\ TypeFlags'
  BY <1>1, <1>4, <1>5, TypeParts DEF TypeStreams, TypeFlags
<1>8. TypeSockets' /\ TypeQueues' /\ TypeHistory'
  BY <1>1, TypeParts DEF session, sockets, queues, history, TypeSockets, TypeQueues,
     TypeHistory
<1>9. Onward(e)
  BY <1>1, <1>5, TypeParts DEF Onward, TypeFlags, session, sockets, queues
<1>10. Clear'
  <2>1. \A f \in End \ {e} :
          inStream'[f] = inStream[f] /\ outStream'[f] = outStream[f]
    BY <1>1, <1>5, TypeParts DEF TypeStreams
  <2> QED BY <1>1, <2>1 DEF Clear, session, sockets, queues
<1> QED BY <1>1, <1>6, <1>7, <1>8, <1>9, <1>10, OnwardLinks, TypePartsNext

LEMMA ReadMessageInv ==
  ASSUME Inv, NEW e \in End, ReadMessage(e)
  PROVE  Inv'
<1> USE DEF Inv
<1> DEFINE s == inStream[e]
           m == s[1].m
<1>1. /\ step[e] = "reading" /\ status[e] = "ready" /\ conn[e] # 0
      /\ UNCHANGED <<session, outStream, net, outgoing, history>>
  BY DEF ReadMessage, Links
<1>2. \/ /\ UNCHANGED <<inStream, incoming>>
         /\ \/ step' = [step EXCEPT ![e] = "receiving"] /\ UNCHANGED <<status, err>>
            \/ Fail(e, "BAD_FRAME")
      \/ /\ Parse(s) = "message"
         /\ inStream' = [inStream EXCEPT ![e] = Drop(s, Size(m))]
         /\ \/ UNCHANGED <<status, step, err, incoming>>
            \/ /\ Len(incoming[e]) # QueueIn
               /\ incoming' = [incoming EXCEPT ![e] = Append(@, m)]
               /\ UNCHANGED <<status, step, err>>
            \/ /\ err' = [err EXCEPT ![e] = "INCOMING_QUEUE_INSUFFICIENT_SPACE"]
               /\ step' = [step EXCEPT ![e] = "idle"]
               /\ UNCHANGED <<status, incoming>>
  BY DEF ReadMessage
<1>3. s \in Seq(Unit) /\ Len(s) \in 0 .. InCap
  BY StreamTypes
<1>4. Parse(s) = "message" =>
        m \in Message /\ Drop(s, Size(m)) \in Seq(Unit) /\ Len(Drop(s, Size(m))) <= InCap
  <2> SUFFICES ASSUME Parse(s) = "message"
               PROVE  m \in Message /\ Drop(s, Size(m)) \in Seq(Unit)
                        /\ Len(Drop(s, Size(m))) <= InCap
    OBVIOUS
  <2>1. m \in Message /\ Size(m) \in 0 .. Len(s)
    BY <1>3, ParsedIsThere
  <2> HIDE DEF s, m
  <2>2. Drop(s, Size(m)) \in Seq(Unit) /\ Len(Drop(s, Size(m))) = Len(s) - Size(m)
    BY <1>3, <2>1, TakeAndDrop
  <2> QED BY <1>3, <2>1, <2>2
<1> HIDE DEF s, m
<1>5. TypeStreams'
  BY <1>1, <1>2, <1>4, TypeParts DEF TypeStreams
<1>6. TypeQueues'
  <2>1. incoming[e] \in Seq(Message) /\ Len(incoming[e]) \in 0 .. QueueIn
    BY TypeParts DEF TypeQueues
  <2>2. Len(incoming[e]) # QueueIn /\ m \in Message =>
          Append(incoming[e], m) \in Seq(Message) /\ Len(Append(incoming[e], m)) <= QueueIn
    BY <2>1
  <2>3. CASE incoming' = incoming
    BY <1>1, <2>3, TypeParts DEF TypeQueues
  <2>4. CASE /\ Parse(s) = "message" /\ Len(incoming[e]) # QueueIn
             /\ incoming' = [incoming EXCEPT ![e] = Append(@, m)]
    BY <1>1, <1>4, <2>2, <2>4, TypeParts DEF TypeQueues
  <2> QED BY <1>2, <2>3, <2>4
<1>7. TypeFlags'
  BY <1>2, TypeParts DEF TypeFlags, Fail, Status, Errors
<1>8. TypeSockets' /\ TypeNet' /\ TypeHistory'
  BY <1>1, TypeParts DEF session, sockets, history, TypeSockets, TypeNet, TypeHistory
<1>9. Onward(e)
  BY <1>1, <1>2, TypeParts DEF Onward, Fail, TypeFlags, session, sockets
<1>10. Clear'
  <2>1. \A f \in End \ {e} :
          inStream'[f] = inStream[f] /\ incoming'[f] = incoming[f]
    BY <1>2, TypeParts DEF TypeStreams, TypeQueues
  <2> QED BY <1>1, <2>1 DEF Clear, session, sockets
<1> QED BY <1>1, <1>5, <1>6, <1>7, <1>8, <1>9, <1>10, OnwardLinks, TypePartsNext

-----------------------------------------------------------------------------
LEMMA InitInv ==
  ASSUME Init
  PROVE  Inv
<1>1. <<>> \in Seq(Unit) /\ <<>> \in Seq(Message) /\ Len(<<>>) = 0
  BY EmptySeq
<1>2. TypeFlags /\ TypeSockets /\ TypeHistory
  BY HealthAssumption DEF Init, TypeFlags, TypeSockets, TypeHistory, Status, Errors
<1>3. TypeStreams /\ TypeNet /\ TypeQueues
  BY <1>1 DEF Init, TypeStreams, TypeNet, TypeQueues
<1>4. Links /\ Clear
  BY DEF Init, Links, Clear, End
<1> QED BY <1>2, <1>3, <1>4, TypeParts DEF Inv

LEMMA StepInv ==
  ASSUME Inv, [Next]_vars
  PROVE  Inv'
<1>1. CASE Connect \/ Accept \/ \E k \in Conns : LosePath(k)
  BY <1>1, ConnectInv, AcceptInv, LosePathInv
<1>2. ASSUME NEW e \in End,
             \/ Shutdown(e) \/ AddOutgoing(e) \/ RemoveIncoming(e)
             \/ HandshakeTimeout(e) \/ HealthTimeout(e) \/ HealthQueueFull(e)
             \/ SocketError(e) \/ SendLeftoverFails(e)
      PROVE  Inv'
  BY <1>2, ShutdownInv, OwnerInv, FailInv
<1>3. ASSUME NEW e \in End,
             \/ SendHello(e) \/ ReceiveHello(e) \/ ReceiveHelloMessage(e)
             \/ BeginUpdate(e) \/ SendNext(e)
             \/ Receive(e, 0) \/ ReceiveSome(e) \/ ReadMessage(e)
      PROVE  Inv'
  BY <1>3, SendHelloInv, ReceiveHelloInv, ReceiveHelloMessageInv, BeginUpdateInv,
     SendNextInv, ReceiveInv, ReadMessageInv
<1>4. CASE UNCHANGED vars
  <2>1. TypeOK'
    BY <1>4 DEF vars, session, sockets, streams, queues, history, Inv, TypeOK, Bounded
  <2>2. Links' /\ Clear'
    BY <1>4 DEF vars, session, sockets, streams, queues, history, Inv, Links, Clear
  <2> QED BY <2>1, <2>2 DEF Inv
<1> QED BY <1>1, <1>2, <1>3, <1>4 DEF Next

LEMMA Invariant == Spec => []Inv
<1>1. Init => Inv
  BY InitInv
<1>2. Inv /\ [Next]_vars => Inv'
  BY StepInv
<1> QED BY <1>1, <1>2, PTL DEF Spec

(***************************************************************************)
(* For every size of packets, streams, kernel buffers and queues, and      *)
(* however sends and receives are cut, lost or refused: nothing overflows, *)
(* and every stream holds units of packets and messages only.              *)
(***************************************************************************)
THEOREM TypeCorrect == Spec => []TypeOK
<1>1. Inv => TypeOK
  BY DEF Inv
<1> QED BY <1>1, Invariant, PTL

-----------------------------------------------------------------------------
(***************************************************************************)
(* The units pending are counted by natural numbers.                       *)
(***************************************************************************)
LEMMA Counts ==
  ASSUME TypeOK, NEW e \in End, conn[e] # 0
  PROVE  /\ Len(inStream[e]) \in Nat /\ Len(outStream[e]) \in Nat
         /\ Len(net[conn[e]][e]) \in Nat /\ Pending(e) \in Nat
         /\ Other(e) \in End /\ Other(e) # e /\ End = {e, Other(e)}
         /\ Len(net[conn[e]][Other(e)]) \in Nat
<1>1. Other(e) \in End /\ Other(e) # e /\ End = {e, Other(e)}
  BY DEF Other, End
<1>2. /\ Len(inStream[e]) \in Nat /\ Len(outStream[e]) \in Nat
      /\ Len(net[conn[e]][e]) \in Nat /\ Len(net[conn[e]][Other(e)]) \in Nat
  BY <1>1, StreamTypes, NetTypes, ConnOfSocket
<1>3. Pending(e) \in Nat
  <2>1. \A a, b \in Nat : a + b \in Nat
    OBVIOUS
  <2> QED BY <1>2, <2>1, Zenon DEF Pending
<1> QED BY <1>1, <1>2, <1>3

LEMMA CountsNext ==
  ASSUME TypeOK', NEW e \in End, conn'[e] # 0
  PROVE  Pending(e)' \in Nat /\ Len(outStream'[e]) \in Nat
<1>1. inStream'[e] \in Seq(Unit) /\ outStream'[e] \in Seq(Unit)
  BY DEF TypeOK
<1>2. conn'[e] \in Conns
  BY DEF TypeOK, Conns
<1>3. net'[conn'[e]][e] \in Seq(Unit)
  BY <1>2 DEF TypeOK
<1>4. /\ Len(inStream'[e]) \in Nat /\ Len(outStream'[e]) \in Nat
      /\ Len(net'[conn'[e]][e]) \in Nat
  BY <1>1, <1>3
<1>5. \A a, b \in Nat : a + b \in Nat
  OBVIOUS
<1> QED BY <1>4, <1>5, Zenon DEF Pending

(***************************************************************************)
(* Steps that move no unit and at most fail.                               *)
(***************************************************************************)
LEMMA QuietAgreed ==
  ASSUME Inv, Agreed, NEW e \in End,
         \/ AddOutgoing(e) \/ RemoveIncoming(e)
         \/ HandshakeTimeout(e) \/ HealthTimeout(e) \/ HealthQueueFull(e)
         \/ SocketError(e) \/ SendLeftoverFails(e)
  PROVE  Agreed'
<1>1. UNCHANGED <<conn, opened, accepted, lost, inStream, outStream, net>>
  BY DEF AddOutgoing, RemoveIncoming, HandshakeTimeout, HealthTimeout, HealthQueueFull,
     SocketError, SendLeftoverFails, session, sockets, streams
<1>2. \/ status' = status
      \/ status' = [status EXCEPT ![e] = "error"] /\ UNCHANGED <<taken, incoming>>
  BY DEF AddOutgoing, RemoveIncoming, HandshakeTimeout, HealthTimeout, HealthQueueFull,
     SocketError, SendLeftoverFails, Fail, queues, history
<1>3. \A f \in End : status'[f] \in {status[f], "error"}
  BY <1>2 DEF Inv, TypeOK
<1>4. Fresh'
  BY <1>1, <1>3 DEF Agreed, Fresh, End
<1>5. Greeting'
  <2>1. \A f \in End : \A n : Unsaid(f, n) => Unsaid(f, n)'
    BY <1>1 DEF Unsaid, Pending
  <2>2. Together' = Together
    BY <1>1 DEF Together
  <2> QED BY <1>3, <2>1, <2>2 DEF Agreed, Greeting, End
<1>6. Reading'
  <2>1. \/ UNCHANGED <<taken, incoming>>
        \/ RemoveIncoming(e) /\ status' = status
    BY DEF AddOutgoing, RemoveIncoming, HandshakeTimeout, HealthTimeout, HealthQueueFull,
       SocketError, SendLeftoverFails, queues, history
  <2>2. CASE UNCHANGED <<taken, incoming>>
    BY <1>3, <2>2 DEF Agreed, Reading
  <2>3. CASE RemoveIncoming(e) /\ status' = status
    <3>1. \A f \in End \ {e} : taken'[f] = taken[f] /\ incoming'[f] = incoming[f]
      BY <2>3 DEF RemoveIncoming, Inv, TypeOK
    <3>2. status[e] \in {"ready", "error"}
      BY <2>3 DEF RemoveIncoming, Agreed, Reading
    <3> QED BY <2>3, <3>1, <3>2 DEF Agreed, Reading
  <2> QED BY <2>1, <2>2, <2>3
<1> QED BY <1>4, <1>5, <1>6 DEF Agreed

(***************************************************************************)
(* A ready end may send and receive anything: the handshake is over.       *)
(***************************************************************************)
LEMMA ReadyAgreed ==
  ASSUME Inv, Agreed, NEW e \in End,
         BeginUpdate(e) \/ SendNext(e) \/ Receive(e, 0) \/ ReceiveSome(e) \/ ReadMessage(e)
  PROVE  Agreed'
<1>1. /\ status[e] = "ready" /\ conn[e] # 0
      /\ UNCHANGED <<conn, opened, accepted, taken>>
  BY DEF BeginUpdate, CanUpdate, Usable, SendNext, Receive, ReceiveSome, ReadMessage, Inv,
     Links, session, sockets, history
<1>2. status' = status \/ status' = [status EXCEPT ![e] = "error"]
  BY DEF BeginUpdate, SendNext, Receive, ReceiveSome, ReadMessage, Fail
<1>3. /\ status'[e] \in {"ready", "error"}
      /\ \A f \in End \ {e} : status'[f] = status[f]
  BY <1>1, <1>2 DEF Inv, TypeOK
<1>4. /\ \A f \in End \ {e} : inStream'[f] = inStream[f] /\ incoming'[f] = incoming[f]
      /\ \A f \in End \ {e} : outStream'[f] = outStream[f]
  <2>1. \A f \in End \ {e} : inStream'[f] = inStream[f] /\ incoming'[f] = incoming[f]
    BY DEF BeginUpdate, SendNext, Receive, ReceiveSome, ReadMessage, queues, Inv, TypeOK
  <2>2. \A f \in End \ {e} : outStream'[f] = outStream[f]
    <3>1. outStream' = outStream \/ \E o : outStream' = [outStream EXCEPT ![e] = o]
      <4>1. CASE BeginUpdate(e)
        BY <4>1 DEF BeginUpdate, SendPending
      <4>2. CASE SendNext(e)
        BY <4>2 DEF SendNext, SendPending
      <4>3. CASE Receive(e, 0) \/ ReceiveSome(e)
        BY <4>3 DEF Receive, ReceiveSome
      <4>4. CASE ReadMessage(e)
        BY <4>4 DEF ReadMessage
      <4> QED BY <4>1, <4>2, <4>3, <4>4
    <3>2. DOMAIN outStream = End
      BY DEF Inv, TypeOK
    <3> QED BY <3>1, <3>2
  <2> QED BY <2>1, <2>2
<1>5. conn[e] \in Conns /\ \A k \in Conns \ {conn[e]} : net'[k] = net[k]
  <2>1. conn[e] \in Conns /\ Other(e) \in End /\ net \in [Conns -> [End -> Seq(Unit)]]
    BY <1>1, ConnOfSocket DEF Inv, TypeOK, Other, End
  <2>2. net' = net \/ \E n, data, m : net' = NetAfter(e, n, data, m)
    BY DEF BeginUpdate, SendNext, SendPending, Receive, ReceiveSome, ReadMessage
  <2>3. ASSUME NEW n, NEW data, NEW m, NEW k \in Conns \ {conn[e]}
        PROVE  NetAfter(e, n, data, m)[k] = net[k]
    BY <2>1, <2>3 DEF NetAfter
  <2> QED BY <2>1, <2>2, <2>3
<1>6. conn[e] <= accepted
  <2>1. CASE e = "server"
    BY <2>1 DEF Inv, Links
  <2>2. CASE e = "client"
    <3>1. ~(conn["client"] > accepted)
      BY <1>1, <2>2 DEF Agreed, Fresh
    <3>2. conn["client"] \in Nat /\ accepted \in Nat
      BY DEF Inv, TypeOK, End
    <3> QED BY <2>2, <3>1, <3>2
  <2> QED BY <2>1, <2>2 DEF End
<1>7. Fresh'
  <2>1. \A k \in Conns : k > accepted => k # conn[e]
    BY <1>1, <1>5, <1>6 DEF Inv, TypeOK, Conns
  <2>2. \A k \in Conns : k > accepted => \A f \in End : net'[k][f] = <<>>
    BY <1>5, <2>1 DEF Agreed, Fresh
  <2>3. conn["client"] > accepted => e # "client"
    BY <1>6 DEF Inv, TypeOK
  <2> QED BY <1>1, <1>3, <1>4, <2>2, <2>3 DEF Agreed, Fresh, End
<1>8. Greeting'
  <2>1. Together => /\ status["server"] # "handshake_hello_scheduled"
                    /\ status["client"] # "handshake_not_started"
    BY <1>1 DEF Agreed, Greeting, End
  <2>2. Together' = Together
    BY <1>1 DEF Together
  <2> QED BY <1>3, <2>1, <2>2 DEF Greeting, End
<1>9. Reading'
  BY <1>1, <1>3, <1>4 DEF Agreed, Reading
<1> QED BY <1>7, <1>8, <1>9 DEF Agreed

-----------------------------------------------------------------------------
(***************************************************************************)
(* The handshake counts units.  First, what a move does to the counts.     *)
(***************************************************************************)
LEMMA MoveCounts ==
  ASSUME Inv, NEW e \in End, conn[e] # 0, Together, NEW n, NEW data, NEW m,
         CanMove(e, n, data, m), net' = NetAfter(e, n, data, m), conn' = conn,
         inStream'[Other(e)] = inStream[Other(e)]
  PROVE  /\ Len(net'[conn'[e]][e]) = Len(net[conn[e]][e]) - n
         /\ Pending(Other(e))' <= Pending(Other(e)) + m
         /\ m = 0 => Pending(Other(e))' = Pending(Other(e))
<1>1. Other(e) \in End /\ conn[Other(e)] = conn[e]
  BY DEF Together, Other, End
<1>2. /\ Len(net'[conn[e]][e]) = Len(net[conn[e]][e]) - n
      /\ Len(net'[conn[e]][Other(e)]) =
           Len(net[conn[e]][Other(e)]) + (IF Vanishes(e) THEN 0 ELSE m)
  BY NetMoves DEF Inv
<1>3. m \in Nat
  <2>1. Len(data) \in Nat
    BY DEF CanMove
  <2> QED BY <2>1 DEF CanMove
<1>4. Len(net[conn[e]][Other(e)]) \in Nat /\ Len(inStream[Other(e)]) \in Nat
  BY <1>1, Counts DEF Inv
<1>5. /\ Pending(Other(e)) = Len(inStream[Other(e)]) + Len(net[conn[e]][Other(e)])
      /\ Pending(Other(e))' = Len(inStream[Other(e)]) + Len(net'[conn[e]][Other(e)])
  BY <1>1 DEF Pending
<1> DEFINE a == Len(inStream[Other(e)])
           b == Len(net[conn[e]][Other(e)])
           p == Pending(Other(e))
           q == Pending(Other(e))'
<1>6. a \in Nat /\ b \in Nat /\ p = a + b /\ q = a + (b + IF Vanishes(e) THEN 0 ELSE m)
  BY <1>2, <1>4, <1>5
<1>7. q <= p + m /\ (m = 0 => q = p)
  <2> HIDE DEF a, b, p, q
  <2>1. CASE Vanishes(e)
    BY <1>3, <1>6, <2>1
  <2>2. CASE ~Vanishes(e)
    BY <1>3, <1>6, <2>2
  <2> QED BY <2>1, <2>2
<1> QED BY <1>2, <1>7

LEMMA MoveFresh ==
  ASSUME Inv, Fresh, NEW e \in End, conn[e] # 0, conn[e] <= accepted,
         NEW n, NEW data, NEW m,
         CanMove(e, n, data, m), net' = NetAfter(e, n, data, m),
         UNCHANGED <<conn, accepted>>,
         \A f \in End \ {e} : /\ status'[f] = status[f] /\ inStream'[f] = inStream[f]
                              /\ outStream'[f] = outStream[f]
  PROVE  Fresh'
<1>1. conn[e] \in Nat /\ accepted \in Nat /\ \A k \in Conns : k \in Nat
  BY DEF Inv, TypeOK, Conns
<1>2. \A k \in Conns : k # conn[e] => net'[k] = net[k]
  BY NetMoves DEF Inv
<1>3. \A k \in Conns : k > accepted => \A f \in End : net'[k][f] = <<>>
  BY <1>1, <1>2 DEF Fresh
<1>4. conn["client"] > accepted => e # "client"
  BY <1>1
<1> QED BY <1>3, <1>4 DEF Fresh, End

(***************************************************************************)
(* What an end sends to begin with fits in what it has not said.           *)
(***************************************************************************)
LEMMA ToSayCounts ==
  ASSUME Inv, NEW e \in End, Together, NEW p \in {Packet, HelloMsg},
         Unsaid(e, Size(p))
  PROVE  Pending(Other(e)) + Len(ToSay(e, p)) <= Size(p)
<1>1. Other(e) \in End /\ conn[e] # 0 /\ conn[Other(e)] # 0
  BY DEF Together, Other, End
<1>2. p \in Wire /\ Len(Frame(p)) = Size(p) /\ Size(p) \in Nat
  <2>1. p \in Wire
    BY HandshakeFrames DEF Wire
  <2> QED BY <2>1, FrameIsUnits
<1>3. CASE outStream[e] = <<>>
  BY <1>2, <1>3 DEF ToSay, Unsaid
<1>4. CASE outStream[e] # <<>>
  BY <1>4 DEF ToSay, Unsaid
<1> QED BY <1>3, <1>4

LEMMA SizesOfHandshake == Size(Packet) = HelloUnits /\ Size(HelloMsg) = HeaderUnits
BY HandshakeFrames, FrameIsUnits DEF Wire

LEMMA SendHelloAgreed ==
  ASSUME Inv, Inv', Agreed, NEW e \in End, SendHello(e)
  PROVE  Agreed'
<1> DEFINE out == ToSay(e, Packet)
           m == Sent(e, out)
<1>1. /\ e = "server" /\ Other(e) = "client"
      /\ conn[e] # 0 /\ conn[e] <= accepted
      /\ status[e] = "handshake_hello_scheduled"
      /\ UNCHANGED <<conn, accepted, taken, incoming, inStream>>
  BY DEF SendHello, CanHandshake, Usable, Inv, Links, End, Other, session, sockets, queues,
     history
<1>2. \/ /\ outStream' = [outStream EXCEPT ![e] = Drop(out, m)]
         /\ net' = NetAfter(e, 0, out, m)
         /\ status' = [status EXCEPT ![e] =
                         IF m = Len(out) THEN "handshake_hello_sent" ELSE @]
      \/ /\ Arrived(e) # <<>>
         /\ status' = [status EXCEPT ![e] = "error"]
         /\ net' = NetAfter(e, 1, <<>>, 0)
         /\ UNCHANGED outStream
  BY DEF SendHello, ToSay, Fail
<1>3. /\ out \in Seq(Unit) /\ CanMove(e, 0, out, m) /\ m \in 0 .. Len(out)
      /\ Len(Drop(out, m)) = Len(out) - m /\ Len(out) \in Nat
  BY <1>1, ToSayFits DEF Inv
<1> HIDE DEF out, m
<1>4. Arrived(e) # <<>> => CanMove(e, 1, <<>>, 0) /\ Len(net[conn[e]][e]) >= 1
  <2> SUFFICES ASSUME Arrived(e) # <<>>
               PROVE  CanMove(e, 1, <<>>, 0) /\ Len(net[conn[e]][e]) >= 1
    OBVIOUS
  <2>1. conn[e] \in Conns /\ Arrived(e) \in Seq(Unit) /\ Other(e) \in End
    BY <1>1, ConnOfSocket, NetTypes DEF Arrived, Inv, End
  <2>2. Len(Arrived(e)) >= 1
    BY <2>1, EmptySeq
  <2>3. Room(e) >= 0
    BY <2>1, NetTypes DEF Room, Inv
  <2> QED BY <2>1, <2>2, <2>3, EmptySeq DEF CanMove, Arrived
<1>5. \A f \in End \ {e} : /\ status'[f] = status[f] /\ inStream'[f] = inStream[f]
                           /\ outStream'[f] = outStream[f]
  BY <1>1, <1>2 DEF Inv, TypeOK
<1>6. Fresh'
  BY <1>1, <1>2, <1>3, <1>4, <1>5, MoveFresh DEF Agreed
<1>7. Reading'
  BY <1>1, <1>5 DEF Agreed, Reading
<1>8. ASSUME Together
      PROVE  /\ status["client"] \in {"handshake_not_started", "error"}
             /\ Unsaid("server", HelloUnits)
             /\ status["client"] = "handshake_not_started" => Unsaid("client", HeaderUnits)
  BY <1>1, <1>8 DEF Agreed, Greeting
<1>9. Other("client") = "server" /\ "client" \in End /\ status'["client"] = status["client"]
      /\ inStream'["client"] = inStream["client"]
      /\ outStream'["client"] = outStream["client"]
  BY <1>1, <1>5 DEF End, Other
<1>10. CASE /\ outStream' = [outStream EXCEPT ![e] = Drop(out, m)]
            /\ net' = NetAfter(e, 0, out, m)
            /\ status' = [status EXCEPT ![e] =
                            IF m = Len(out) THEN "handshake_hello_sent" ELSE @]
  <2> SUFFICES ASSUME Together
               PROVE  /\ status'["server"] = "handshake_hello_scheduled" =>
                           Unsaid("server", HelloUnits)'
                      /\ status'["server"] # "ready"
                      /\ status["client"] = "handshake_not_started" =>
                           Unsaid("client", HeaderUnits)'
    BY <1>1, <1>6, <1>7, <1>8, <1>9 DEF Greeting, Agreed, Together
  <2>1. /\ status'["server"] # "ready"
        /\ status'["server"] = "handshake_hello_scheduled" => m # Len(out)
        /\ outStream'["server"] = Drop(out, m)
    BY <1>1, <1>10 DEF Inv, TypeOK
  <2>2. Pending("client") + Len(out) <= HelloUnits
    BY <1>1, <1>8, ToSayCounts, SizesOfHandshake DEF out
  <2>3. /\ Len(net'[conn'[e]][e]) = Len(net[conn[e]][e])
        /\ Pending("client")' <= Pending("client") + m
    <3>1. Len(net[conn[e]][e]) \in Nat
      BY <1>1, Counts DEF Inv
    <3> QED BY <1>1, <1>3, <1>9, <1>10, <3>1, MoveCounts
  <2>4. Pending("client") \in Nat /\ Pending("client")' \in Nat
    <3>1. conn["client"] # 0 /\ conn'["client"] # 0
      BY <1>1 DEF Together
    <3>2. Pending("client") \in Nat
      BY <3>1, <1>9, Counts DEF Inv
    <3> QED BY <3>1, <3>2, <1>9, CountsNext DEF Inv
  <2>5. status'["server"] = "handshake_hello_scheduled" => Unsaid("server", HelloUnits)'
    <3>1. Pending("client")' + Len(outStream'["server"]) <= HelloUnits
      BY <1>3, <2>1, <2>2, <2>3, <2>4
    <3>2. m # Len(out) => outStream'["server"] # <<>>
      BY <1>3, <2>1, EmptySeq
    <3> QED BY <1>1, <2>1, <3>1, <3>2 DEF Unsaid
  <2>6. Pending("server")' = Pending("server")
    BY <1>1, <2>3 DEF Pending
  <2> QED BY <1>8, <1>9, <2>1, <2>5, <2>6 DEF Unsaid
<1>11. CASE /\ Arrived(e) # <<>>
            /\ status' = [status EXCEPT ![e] = "error"]
            /\ net' = NetAfter(e, 1, <<>>, 0)
            /\ UNCHANGED outStream
  <2>1. status'["server"] = "error"
    BY <1>1, <1>11 DEF Inv, TypeOK
  <2> SUFFICES ASSUME Together, status["client"] = "handshake_not_started"
               PROVE  Unsaid("client", HeaderUnits)'
    BY <1>1, <1>6, <1>7, <1>9, <2>1 DEF Greeting, Agreed, Together
  <2>2. Len(net'[conn'[e]][e]) = Len(net[conn[e]][e]) - 1
    BY <1>1, <1>4, <1>9, <1>11, MoveCounts
  <2>3. /\ Len(net[conn[e]][e]) \in Nat /\ Len(inStream[e]) \in Nat
        /\ Len(outStream["client"]) \in Nat
    BY <1>1, <1>9, Counts DEF Inv, Together
  <2> DEFINE a == Len(inStream["server"])
             b == Len(net[conn["server"]]["server"])
             c == Len(outStream["client"])
             p == Pending("server")
             q == Pending("server")'
  <2>4. a \in Nat /\ b \in Nat /\ c \in Nat /\ b >= 1 /\ p = a + b /\ q = a + (b - 1)
    BY <1>1, <1>4, <1>11, <2>2, <2>3 DEF Pending
  <2>5. p + c <= HeaderUnits /\ (outStream["client"] = <<>> => p = 0)
    BY <1>8, <1>9 DEF Unsaid
  <2>6. q + c <= HeaderUnits /\ outStream["client"] # <<>>
    <3> HIDE DEF a, b, c, p, q
    <3> QED BY <2>4, <2>5
  <2> QED BY <1>9, <2>6 DEF Unsaid
<1> QED BY <1>2, <1>10, <1>11

(***************************************************************************)
(* A client reads of the hello no more than the server has said of it.     *)
(***************************************************************************)
LEMMA ReceiveHelloAgreed ==
  ASSUME Inv, Inv', Agreed, NEW e \in End, ReceiveHello(e)
  PROVE  Agreed'
<1> DEFINE out == ToSay(e, HelloMsg)
           m == Sent(e, out)
<1>1. /\ e = "client" /\ Other(e) = "server" /\ Other("server") = "client"
      /\ conn[e] # 0
      /\ status[e] = "handshake_not_started"
      /\ UNCHANGED <<conn, accepted, taken, incoming>>
  BY DEF ReceiveHello, CanHandshake, Usable, Inv, Links, End, Other, session, sockets,
     queues, history
<1>2. PICK n \in Receivable(e, HelloUnits) \ {0} :
        \/ /\ Len(Joined(e, n)) < HelloUnits
           /\ inStream' = [inStream EXCEPT ![e] = Joined(e, n)]
           /\ net' = NetAfter(e, n, <<>>, 0)
           /\ UNCHANGED <<status, outStream>>
        \/ /\ Len(Joined(e, n)) >= HelloUnits
           /\ inStream' = [inStream EXCEPT ![e] = Drop(Joined(e, n), HelloUnits)]
           /\ net' = NetAfter(e, n, <<>>, 0)
           /\ status' = [status EXCEPT ![e] = "error"]
           /\ UNCHANGED outStream
        \/ /\ Len(Joined(e, n)) >= HelloUnits
           /\ inStream' = [inStream EXCEPT ![e] = Drop(Joined(e, n), HelloUnits)]
           /\ outStream' = [outStream EXCEPT ![e] = Drop(out, m)]
           /\ net' = NetAfter(e, n, out, m)
           /\ status' = [status EXCEPT ![e] = IF m = Len(out) THEN "ready" ELSE @]
  BY DEF ReceiveHello, Joined, ToSay, Fail
<1>3. /\ Len(Joined(e, n)) = Len(inStream[e]) + n
      /\ n \in Nat \ {0}
      /\ CanMove(e, n, <<>>, 0) /\ n <= Len(net[conn[e]][e])
  BY <1>1, JoinedLength DEF Inv, CanMove, Arrived
<1>4. /\ out \in Seq(Unit) /\ CanMove(e, n, out, m) /\ m \in 0 .. Len(out)
      /\ Len(Drop(out, m)) = Len(out) - m /\ Len(out) \in Nat
  BY <1>1, <1>3, ToSayFits DEF Inv, CanMove
<1> HIDE DEF out, m
<1>5. \A f \in End \ {e} : /\ status'[f] = status[f] /\ inStream'[f] = inStream[f]
                           /\ outStream'[f] = outStream[f]
  BY <1>2 DEF Inv, TypeOK
<1>6. conn[e] <= accepted
  <2>1. conn[e] \in Conns
    BY <1>1, ConnOfSocket DEF Inv
  <2>2. accepted \in Nat /\ conn[e] \in Nat
    BY <2>1 DEF Inv, TypeOK, Conns
  <2>3. net[conn[e]][e] # <<>>
    BY <1>3, EmptySeq
  <2> QED BY <2>1, <2>2, <2>3 DEF Agreed, Fresh
<1>7. Fresh'
  BY <1>1, <1>2, <1>3, <1>4, <1>5, <1>6, MoveFresh DEF Agreed
<1>8. Reading'
  BY <1>1, <1>5 DEF Agreed, Reading
<1> SUFFICES ASSUME Together
             PROVE  /\ status'["server"] = "handshake_hello_scheduled" =>
                         /\ status'["client"] \in {"handshake_not_started", "error"}
                         /\ Unsaid("server", HelloUnits)'
                    /\ status'["client"] = "handshake_not_started" =>
                         /\ status'["server"] # "ready"
                         /\ Unsaid("client", HeaderUnits)'
  BY <1>1, <1>7, <1>8 DEF Agreed, Greeting, Together
<1>9. /\ status'["server"] = status["server"]
      /\ inStream'["server"] = inStream["server"] /\ outStream'["server"] = outStream["server"]
  BY <1>1, <1>5 DEF End
<1>10. /\ status["server"] = "handshake_hello_scheduled" => Unsaid("server", HelloUnits)
       /\ status["server"] # "ready"
       /\ Unsaid("client", HeaderUnits)
  BY <1>1 DEF Agreed, Greeting
<1>11. /\ Pending("client") = Len(inStream["client"]) + Len(net[conn["client"]]["client"])
       /\ Len(inStream["client"]) \in Nat /\ Len(net[conn["client"]]["client"]) \in Nat
       /\ Len(outStream["server"]) \in Nat
       /\ outStream["server"] # <<>> => Len(outStream["server"]) >= 1
  <2>1. /\ Len(inStream["client"]) \in Nat /\ Len(net[conn["client"]]["client"]) \in Nat
        /\ Len(outStream["server"]) \in Nat
    BY <1>1, Counts DEF Inv, Together, End
  <2>2. outStream["server"] \in Seq(Unit)
    BY StreamTypes DEF Inv, End
  <2> QED BY <2>1, <2>2, EmptySeq DEF Pending
<1>12. status["server"] = "handshake_hello_scheduled" => Len(Joined(e, n)) < HelloUnits
  <2> SUFFICES ASSUME status["server"] = "handshake_hello_scheduled"
               PROVE  Len(Joined(e, n)) < HelloUnits
    OBVIOUS
  <2>1. /\ Pending("client") + Len(outStream["server"]) <= HelloUnits
        /\ outStream["server"] = <<>> => Pending("client") = 0
    BY <1>1, <1>10 DEF Unsaid
  <2> DEFINE a == Len(inStream["client"])
             b == Len(net[conn["client"]]["client"])
             c == Len(outStream["server"])
             j == Len(Joined(e, n))
             p == Pending("client")
  <2>2. /\ a \in Nat /\ b \in Nat /\ c \in Nat /\ p = a + b /\ j = a + n /\ n <= b
        /\ p + c <= HelloUnits /\ (p # 0 => c >= 1)
    BY <1>1, <1>3, <1>11, <2>1
  <2>3. j < HelloUnits
    <3> HIDE DEF a, b, c, j, p
    <3> QED BY <1>3, <2>2
  <2> QED BY <2>3
<1>13. CASE /\ Len(Joined(e, n)) < HelloUnits
            /\ inStream' = [inStream EXCEPT ![e] = Joined(e, n)]
            /\ net' = NetAfter(e, n, <<>>, 0)
            /\ UNCHANGED <<status, outStream>>
  <2>1. /\ Len(net'[conn'[e]][e]) = Len(net[conn[e]][e]) - n
        /\ Pending("server")' = Pending("server")
    BY <1>1, <1>3, <1>9, <1>13, MoveCounts
  <2>2. Len(inStream'["client"]) = Len(inStream["client"]) + n
    BY <1>1, <1>3, <1>13 DEF Inv, TypeOK
  <2>3. Pending("client")' = Pending("client")
    <3>1. Pending("client")' = (Len(inStream["client"]) + n)
                                 + (Len(net[conn["client"]]["client"]) - n)
      BY <1>1, <2>1, <2>2 DEF Pending
    <3>2. \A a, b \in Nat : (a + n) + (b - n) = a + b
      BY <1>3
    <3> QED BY <1>11, <3>1, <3>2
  <2>4. /\ Unsaid("server", HelloUnits) => Unsaid("server", HelloUnits)'
        /\ Unsaid("client", HeaderUnits)'
    BY <1>1, <1>10, <1>13, <2>1, <2>3 DEF Unsaid
  <2> QED BY <1>1, <1>10, <1>13, <2>4
<1>14. CASE /\ Len(Joined(e, n)) >= HelloUnits
            /\ status' = [status EXCEPT ![e] = "error"]
  <2>1. status["server"] # "handshake_hello_scheduled"
    BY <1>1, <1>3, <1>11, <1>12, <1>14
  <2>2. status'["client"] = "error"
    BY <1>1, <1>14 DEF Inv, TypeOK
  <2> QED BY <1>9, <2>1, <2>2
<1>15. CASE /\ Len(Joined(e, n)) >= HelloUnits
            /\ outStream' = [outStream EXCEPT ![e] = Drop(out, m)]
            /\ net' = NetAfter(e, n, out, m)
            /\ status' = [status EXCEPT ![e] = IF m = Len(out) THEN "ready" ELSE @]
  <2>1. status["server"] # "handshake_hello_scheduled"
    BY <1>1, <1>3, <1>11, <1>12, <1>15
  <2>2. /\ status'["client"] = "handshake_not_started" => m # Len(out)
        /\ outStream'["client"] = Drop(out, m)
    BY <1>1, <1>15 DEF Inv, TypeOK
  <2>3. Pending("server") + Len(out) <= HeaderUnits
    BY <1>1, <1>10, ToSayCounts, SizesOfHandshake DEF out
  <2>4. Pending("server")' <= Pending("server") + m
    BY <1>1, <1>4, <1>9, <1>15, MoveCounts
  <2>5. Pending("server") \in Nat /\ Pending("server")' \in Nat
    BY <1>1, Counts, CountsNext DEF Inv, Together, End
  <2>6. Pending("server")' + Len(outStream'["client"]) <= HeaderUnits
    BY <1>4, <2>2, <2>3, <2>4, <2>5
  <2>7. m # Len(out) => outStream'["client"] # <<>>
    BY <1>4, <2>2, EmptySeq
  <2> QED BY <1>1, <1>9, <1>10, <2>1, <2>2, <2>6, <2>7 DEF Unsaid
<1> QED BY <1>2, <1>13, <1>14, <1>15

(***************************************************************************)
(* A server finds no whole message in what an unready client has said.     *)
(***************************************************************************)
LEMMA ReceiveHelloMessageAgreed ==
  ASSUME Inv, Inv', Agreed, NEW e \in End, ReceiveHelloMessage(e)
  PROVE  Agreed'
<1>1. /\ e = "server" /\ Other(e) = "client" /\ Other("client") = "server"
      /\ conn[e] # 0 /\ conn[e] <= accepted
      /\ status[e] = "handshake_hello_sent"
      /\ UNCHANGED <<conn, accepted, taken, incoming, outStream>>
  BY DEF ReceiveHelloMessage, CanHandshake, Usable, Inv, Links, End, Other, session,
     sockets, queues, history
<1>2. InCap - Len(inStream[e]) \in Nat
  BY StreamTypes DEF Inv
<1>3. PICK n \in Receivable(e, InCap - Len(inStream[e])) \ {0} :
        LET s == Joined(e, n) IN
        /\ net' = NetAfter(e, n, <<>>, 0)
        /\ \/ /\ Parse(s) = "short"
              /\ inStream' = [inStream EXCEPT ![e] = s]
              /\ UNCHANGED status
           \/ /\ Parse(s) \in {"bad", "message"}
              /\ \E t \in {s, Drop(s, Size(s[1].m))} : inStream' = [inStream EXCEPT ![e] = t]
              /\ status' \in {[status EXCEPT ![e] = "ready"], [status EXCEPT ![e] = "error"]}
  BY DEF ReceiveHelloMessage, Joined, Fail
<1> DEFINE s == Joined(e, n)
<1>4. /\ Len(s) = Len(inStream[e]) + n /\ s \in Seq(Unit)
      /\ n \in Nat \ {0}
      /\ CanMove(e, n, <<>>, 0) /\ n <= Len(net[conn[e]][e])
  BY <1>1, <1>2, JoinedLength DEF Inv, CanMove, Arrived
<1> HIDE DEF s
<1>5. \A f \in End \ {e} : /\ status'[f] = status[f] /\ inStream'[f] = inStream[f]
                           /\ outStream'[f] = outStream[f]
  BY <1>1, <1>3 DEF Inv, TypeOK
<1>6. Fresh'
  BY <1>1, <1>3, <1>4, <1>5, MoveFresh DEF Agreed
<1>7. status'[e] \in {"handshake_hello_sent", "ready", "error"}
  BY <1>1, <1>3 DEF Inv, TypeOK
<1>8. Reading'
  BY <1>1, <1>5 DEF Agreed, Reading
<1>9. /\ status'["client"] = status["client"] /\ inStream'["client"] = inStream["client"]
      /\ "client" \in End
  BY <1>1, <1>5 DEF End
<1> SUFFICES ASSUME Together, status["client"] = "handshake_not_started"
             PROVE  /\ status'["server"] # "ready"
                    /\ Unsaid("client", HeaderUnits)'
  BY <1>1, <1>6, <1>7, <1>8, <1>9 DEF Agreed, Greeting, Together
<1>10. /\ Pending("server") + Len(outStream["client"]) <= HeaderUnits
       /\ outStream["client"] = <<>> => Pending("server") = 0
  BY <1>1 DEF Agreed, Greeting, Unsaid
<1> DEFINE a == Len(inStream["server"])
           b == Len(net[conn["server"]]["server"])
           c == Len(outStream["client"])
           j == Len(s)
           p == Pending("server")
<1>11. a \in Nat /\ b \in Nat /\ c \in Nat /\ p = a + b /\ j = a + n /\ n <= b
  <2>1. c \in Nat
    BY <1>9, Counts DEF Inv, Together
  <2> QED BY <1>1, <1>4, <2>1, Counts DEF Inv, Pending
<1>12. outStream["client"] # <<>> => c >= 1
  <2>1. outStream["client"] \in Seq(Unit)
    BY <1>9, StreamTypes DEF Inv
  <2> QED BY <2>1, EmptySeq
<1>13. j < HeaderUnits
  <2>1. p + c <= HeaderUnits /\ (p # 0 => c >= 1)
    BY <1>10, <1>12
  <2> HIDE DEF a, b, c, j, p
  <2> QED BY <1>4, <1>11, <2>1
<1>14. Parse(s) = "short"
  BY <1>13 DEF Parse
<1>15. inStream' = [inStream EXCEPT ![e] = s] /\ status' = status
  BY <1>3, <1>14 DEF s
<1>16. Pending("server")' = Pending("server")
  <2>1. Len(net'[conn'[e]][e]) = Len(net[conn[e]][e]) - n
    <3> HIDE DEF a, b, c, j, p
    <3>1. conn' = conn /\ inStream'[Other(e)] = inStream[Other(e)]
      BY <1>1, <1>9
    <3>2. CanMove(e, n, <<>>, 0) /\ net' = NetAfter(e, n, <<>>, 0)
      BY <1>3, <1>4
    <3> QED BY <1>1, <3>1, <3>2, MoveCounts
  <2>2. Pending("server")' = (a + n) + (b - n)
    BY <1>1, <1>4, <1>15, <2>1 DEF Pending, Inv, TypeOK
  <2> HIDE DEF a, b, p
  <2>3. (a + n) + (b - n) = p
    BY <1>4, <1>11
  <2> QED BY <2>2, <2>3 DEF p
<1> QED BY <1>1, <1>10, <1>15, <1>16 DEF Unsaid

-----------------------------------------------------------------------------
(***************************************************************************)
(* The owners' steps: a new connection has carried nothing.                *)
(***************************************************************************)
LEMMA ConnectAgreed ==
  ASSUME Inv, Agreed, Connect
  PROVE  Agreed'
<1>1. /\ conn["client"] = 0 /\ conn' = [conn EXCEPT !["client"] = opened + 1]
      /\ status' = [status EXCEPT !["client"] = "handshake_not_started"]
      /\ taken' = [taken EXCEPT !["client"] = 0]
      /\ UNCHANGED <<accepted, streams, incoming>>
  BY DEF Connect, Begin, queues
<1>2. /\ conn'["client"] = opened + 1 /\ conn'["server"] = conn["server"]
      /\ status'["client"] = "handshake_not_started" /\ status'["server"] = status["server"]
      /\ taken'["client"] = 0 /\ taken'["server"] = taken["server"]
  BY <1>1 DEF Inv, TypeOK, End
<1>3. conn["server"] < opened + 1
  <2>1. conn["server"] \in Nat /\ accepted \in Nat /\ opened \in Nat /\ accepted <= opened
    BY DEF Inv, TypeOK, End
  <2>2. conn["server"] <= accepted
    BY DEF Inv, Links
  <2> QED BY <2>1, <2>2
<1>4. Fresh'
  BY <1>1, <1>2 DEF Agreed, Fresh, Inv, Clear, End, streams
<1>5. ~Together'
  <2>1. conn["server"] # opened + 1
    BY <1>3 DEF Inv, TypeOK, End
  <2> QED BY <1>2, <2>1 DEF Together
<1>6. Reading'
  BY <1>1, <1>2 DEF Agreed, Reading, Inv, Clear, End
<1> QED BY <1>4, <1>5, <1>6 DEF Agreed, Greeting

LEMMA ShutdownAgreed ==
  ASSUME Inv, Agreed, NEW e \in End, Shutdown(e)
  PROVE  Agreed'
<1>1. /\ conn' = [conn EXCEPT ![e] = 0]
      /\ inStream' = [inStream EXCEPT ![e] = <<>>]
      /\ outStream' = [outStream EXCEPT ![e] = <<>>]
      /\ incoming' = [incoming EXCEPT ![e] = <<>>]
      /\ taken' = [taken EXCEPT ![e] = 0]
      /\ status' = [status EXCEPT ![e] = "uninitialized"]
      /\ net' = [net EXCEPT ![conn[e]][e] = <<>>]
      /\ conn[e] \in Conns /\ accepted' = accepted
  BY ConnOfSocket DEF Shutdown, ClearBuffers, CloseSocket, Inv
<1>2. /\ conn'[e] = 0 /\ incoming'[e] = <<>> /\ taken'[e] = 0
      /\ \A f \in End \ {e} : /\ conn'[f] = conn[f] /\ status'[f] = status[f]
                              /\ inStream'[f] = inStream[f] /\ outStream'[f] = outStream[f]
                              /\ incoming'[f] = incoming[f] /\ taken'[f] = taken[f]
  BY <1>1 DEF Inv, TypeOK
<1>3. Fresh'
  <2>1. \A k \in Conns, f \in End : net'[k][f] \in {net[k][f], <<>>}
    BY <1>1 DEF Inv, TypeOK
  <2>2. accepted \in Nat
    BY DEF Inv, TypeOK
  <2>3. conn'["client"] > accepted => e # "client"
    BY <1>2, <2>2
  <2> QED BY <1>1, <1>2, <2>1, <2>3 DEF Agreed, Fresh, End
<1>4. ~Together'
  BY <1>2 DEF Together, End
<1>5. Reading'
  <2> SUFFICES ASSUME NEW f \in End, taken'[f] > 0 \/ incoming'[f] # <<>>
               PROVE  status'[f] \in {"ready", "error"}
    BY DEF Reading
  <2>1. f # e
    BY <1>2
  <2> QED BY <1>2, <2>1 DEF Agreed, Reading
<1> QED BY <1>3, <1>4, <1>5 DEF Agreed, Greeting

LEMMA LosePathAgreed ==
  ASSUME Inv, Inv', Agreed, NEW k \in Conns, LosePath(k)
  PROVE  Agreed'
<1>1. /\ net' = [net EXCEPT ![k] = [e \in End |-> <<>>]]
      /\ UNCHANGED <<conn, accepted, status, inStream, outStream, incoming, taken>>
  BY DEF LosePath, queues, history
<1>2. \A i \in Conns, f \in End : net'[i][f] \in {net[i][f], <<>>}
  BY <1>1 DEF Inv, TypeOK
<1>3. Fresh' /\ Reading'
  BY <1>1, <1>2 DEF Agreed, Fresh, Reading
<1>4. ASSUME NEW e \in End, Together, NEW n \in Nat, Unsaid(e, n)
      PROVE  Unsaid(e, n)'
  <2>1. Other(e) \in End /\ conn[e] # 0 /\ conn[Other(e)] # 0
    BY <1>4 DEF Together, Other, End
  <2> DEFINE a == Len(inStream[Other(e)])
             b == Len(net[conn[Other(e)]][Other(e)])
             c == Len(outStream[e])
             b1 == Len(net'[conn[Other(e)]][Other(e)])
  <2>2. a \in Nat /\ b \in Nat /\ c \in Nat
    BY <2>1, Counts DEF Inv
  <2>3. b1 = b \/ b1 = 0
    BY <1>2, <2>1, ConnOfSocket, EmptySeq DEF Inv
  <2>4. /\ a + b + c <= n /\ (outStream[e] = <<>> => a + b = 0)
        /\ Unsaid(e, n)' <=> a + b1 + c <= n /\ (outStream[e] = <<>> => a + b1 = 0)
    BY <1>1, <1>4 DEF Unsaid, Pending
  <2>5. a + b1 + c <= n /\ (outStream[e] = <<>> => a + b1 = 0)
    <3>1. a + b + c <= n /\ (outStream[e] = <<>> => a + b = 0)
      BY <2>4
    <3> HIDE DEF a, b, c, b1
    <3> QED BY <2>2, <2>3, <3>1
  <2> QED BY <2>4, <2>5
<1>5. Greeting'
  BY <1>1, <1>4 DEF Agreed, Greeting, Together, End
<1> QED BY <1>3, <1>5 DEF Agreed

(***************************************************************************)
(* Server::update_listen_socket: the streams of both ends are empty.       *)
(***************************************************************************)
LEMMA AcceptAgreed ==
  ASSUME Inv, Inv', Agreed, Accept
  PROVE  Agreed'
<1>1. /\ accepted < opened /\ accepted' = accepted + 1
      /\ conn' = [conn EXCEPT !["server"] = accepted + 1]
      /\ status' = [status EXCEPT !["server"] = "handshake_hello_scheduled"]
      /\ taken' = [taken EXCEPT !["server"] = 0]
  BY DEF Accept, Begin
<1>2. /\ conn'["server"] = accepted + 1 /\ conn'["client"] = conn["client"]
      /\ status'["server"] = "handshake_hello_scheduled"
      /\ status'["client"] = status["client"]
      /\ taken'["server"] = 0 /\ taken'["client"] = taken["client"]
      /\ accepted \in Nat /\ conn["client"] \in Nat
      /\ accepted + 1 \in Conns
  <2>1. accepted \in Nat /\ opened \in Nat /\ opened <= MaxConns /\ conn["client"] \in Nat
    BY DEF Inv, TypeOK, End
  <2>2. accepted + 1 \in Conns
    BY <1>1, <2>1 DEF Conns
  <2> QED BY <1>1, <2>1, <2>2 DEF Inv, TypeOK, End
<1>3. /\ inStream'["server"] = <<>> /\ outStream'["server"] = <<>>
      /\ incoming'["server"] = <<>>
      /\ inStream'["client"] = inStream["client"]
      /\ outStream'["client"] = outStream["client"]
      /\ incoming'["client"] = incoming["client"]
  <2>1. CASE conn["server"] = 0
    BY <2>1 DEF Accept, streams, queues, Inv, Clear, End
  <2>2. CASE conn["server"] # 0
    BY <2>2 DEF Accept, ClearBuffers, Inv, TypeOK, End
  <2> QED BY <2>1, <2>2
<1>4. \A k \in Conns, f \in End : net'[k][f] \in {net[k][f], <<>>}
  <2>1. CASE conn["server"] = 0
    BY <2>1 DEF Accept, streams
  <2>2. CASE conn["server"] # 0
    <3>1. conn["server"] \in Conns
      BY <2>2, ConnOfSocket DEF Inv, End
    <3>2. net' = [net EXCEPT ![conn["server"]]["server"] = <<>>]
      BY <2>2 DEF Accept, CloseSocket
    <3>3. net \in [Conns -> [End -> Seq(Unit)]] /\ "server" \in End
      BY DEF Inv, TypeOK, End
    <3> QED BY <3>1, <3>2, <3>3
  <2> QED BY <2>1, <2>2
<1>5. \A k \in Conns : k > accepted' => k > accepted
  BY <1>1, <1>2 DEF Conns
<1>6. conn'["client"] > accepted' => conn["client"] > accepted
  BY <1>1, <1>2
<1>7. Fresh'
  BY <1>2, <1>3, <1>4, <1>5, <1>6 DEF Agreed, Fresh
<1>8. Greeting'
  <2> SUFFICES ASSUME Together'
               PROVE  /\ status'["client"] \in {"handshake_not_started", "error"}
                      /\ Unsaid("server", HelloUnits)' /\ Unsaid("client", HeaderUnits)'
    BY <1>2 DEF Greeting
  <2>1. conn["client"] = accepted + 1 /\ conn["client"] > accepted
    <3>1. conn["client"] = accepted + 1
      BY <1>2 DEF Together
    <3> QED BY <1>2, <3>1
  <2>2. /\ status["client"] \in {"handshake_not_started", "error"}
        /\ inStream["client"] = <<>> /\ outStream["client"] = <<>>
    BY <2>1 DEF Agreed, Fresh
  <2>3. net[accepted + 1]["server"] = <<>> /\ net[accepted + 1]["client"] = <<>>
    <3>1. accepted + 1 > accepted
      BY <1>2
    <3> QED BY <1>2, <3>1 DEF Agreed, Fresh, End
  <2>4. net'[accepted + 1]["server"] = <<>> /\ net'[accepted + 1]["client"] = <<>>
    BY <1>2, <1>4, <2>3 DEF End
  <2>5. Len(<<>>) = 0
    BY EmptySeq
  <2>6. Pending("server")' = 0 /\ Pending("client")' = 0
    BY <1>2, <1>3, <2>1, <2>2, <2>4, <2>5 DEF Pending
  <2>7. Other("server") = "client" /\ Other("client") = "server"
    BY DEF Other
  <2> QED BY <1>2, <1>3, <2>2, <2>5, <2>6, <2>7 DEF Unsaid
<1>9. Reading'
  BY <1>2, <1>3 DEF Agreed, Reading, End
<1> QED BY <1>7, <1>8, <1>9 DEF Agreed

-----------------------------------------------------------------------------
LEMMA StepAgreed ==
  ASSUME Inv, Inv', Agreed, [Next]_vars
  PROVE  Agreed'
<1>1. CASE Connect \/ Accept \/ \E k \in Conns : LosePath(k)
  BY <1>1, ConnectAgreed, AcceptAgreed, LosePathAgreed
<1>2. ASSUME NEW e \in End,
             \/ Shutdown(e) \/ AddOutgoing(e) \/ RemoveIncoming(e)
             \/ HandshakeTimeout(e) \/ HealthTimeout(e) \/ HealthQueueFull(e)
             \/ SocketError(e) \/ SendLeftoverFails(e)
      PROVE  Agreed'
  BY <1>2, ShutdownAgreed, QuietAgreed
<1>3. ASSUME NEW e \in End,
             SendHello(e) \/ ReceiveHello(e) \/ ReceiveHelloMessage(e)
      PROVE  Agreed'
  BY <1>3, SendHelloAgreed, ReceiveHelloAgreed, ReceiveHelloMessageAgreed
<1>4. ASSUME NEW e \in End,
             \/ BeginUpdate(e) \/ SendNext(e)
             \/ Receive(e, 0) \/ ReceiveSome(e) \/ ReadMessage(e)
      PROVE  Agreed'
  BY <1>4, ReadyAgreed
<1>5. CASE UNCHANGED vars
  BY <1>5 DEF vars, session, sockets, streams, queues, history, Agreed, Fresh, Greeting,
     Reading, Together, Unsaid, Pending
<1> QED BY <1>1, <1>2, <1>3, <1>4, <1>5 DEF Next

LEMMA AgreedMeansAgreement ==
  ASSUME Inv, Agreed
  PROVE  HandshakeAgreement
<1>1. ASSUME Together, status["server"] = "ready"
      PROVE  status["client"] \in {"ready", "error"}
  BY <1>1 DEF Inv, TypeOK, Links, Status, Handshaking, Agreed, Greeting, Together, End
<1>2. ASSUME Together, status["client"] = "ready"
      PROVE  status["server"] \in {"handshake_hello_sent", "ready", "error"}
  BY <1>2 DEF Inv, TypeOK, Links, Status, Handshaking, Agreed, Greeting, Together, End
<1>3. ASSUME NEW e \in End, taken[e] > 0 \/ incoming[e] # <<>>
      PROVE  status[e] \in {"ready", "error"}
  BY <1>3 DEF Agreed, Reading
<1> QED BY <1>1, <1>2, <1>3 DEF HandshakeAgreement

(***************************************************************************)
(* For every size of packets and buffers, and however the network cuts,    *)
(* delays or loses what is sent: a server is ready only with a client that *)
(* is, a client only with a server whose whole hello went out, and nothing *)
(* is read before that (connection.cpp 396-458).                           *)
(***************************************************************************)
THEOREM HandshakeAgrees == Spec => []HandshakeAgreement
<1>1. Init => Inv /\ Agreed
  <2>1. Init => Inv
    BY InitInv
  <2>2. Init => Agreed
    BY DEF Init, Agreed, Fresh, Greeting, Reading, Together, End
  <2> QED BY <2>1, <2>2
<1>2. Inv /\ Agreed /\ [Next]_vars => (Inv /\ Agreed)'
  BY StepInv, StepAgreed
<1>3. Inv /\ Agreed => HandshakeAgreement
  BY AgreedMeansAgreement
<1> QED BY <1>1, <1>2, <1>3, PTL DEF Spec

-----------------------------------------------------------------------------
(* One direction, told by what is in its parts.                            *)

\* The queued messages of s are of connection k, ranks rise and exceed n.
Climbs(s, k, n) ==
  /\ \A p \in Starts(s) : s[p].m.conn = k /\ s[p].m.id > n
  /\ \A p, q \in Starts(s) : p < q => s[p].m.id < s[q].m.id

\* The ranks in I are those after n up to the highest of them.
NoGap(I, n) == \A i \in I : n + 1 .. i \subseteq I

\* A receiver that has read n messages of connection k and has those of inc
\* in its queue; us are the units under way and q the heads of the sender's
\* queue.  When up, the sender can still send, and has queued most messages;
\* when cut, a send of connection k was cut.
Flow(inc, us, q, k, n, up, most, cut) ==
  /\ \A j \in 1 .. Len(inc) : IsData(inc[j])
  /\ Climbs(Heads(inc) \o us \o q, k, n)
  /\ up => n <= most /\ \A i \in Ids(Heads(inc) \o us \o q) : i <= most
  /\ ~cut =>
       /\ InFrames(us)
       /\ NoGap(Ids(Heads(inc) \o us \o q), n)
       /\ up => EndsWhole(us) /\ Ids(Heads(inc) \o us \o q) = n + 1 .. most

\* What may be under way to a receiver whose status is st; answered when the
\* sender is ready.
Hears(st, us, up, answered) ==
  /\ st = "handshake_hello_scheduled" => us = <<>>
  /\ st = "handshake_not_started" =>
       /\ Len(us) <= HelloUnits
       /\ \A p \in 1 .. Len(us) : us[p] = [m |-> Packet, i |-> p]
  /\ st = "handshake_hello_sent" =>
       /\ \A p \in 1 .. Len(us) :
            /\ us[p].m # Packet
            /\ us[p].m = HelloMsg => us[p].i = p /\ p <= HeaderUnits
       /\ us # <<>> => us[1].m = HelloMsg
       /\ up /\ answered => us # <<>>
  /\ st = "ready" => \A p \in 1 .. Len(us) : us[p].m \notin {Packet, HelloMsg}

\* The heads of what the sender has queued for e and can still send.
Queue(e) == IF Served(e) THEN Heads(outgoing[Other(e)]) ELSE <<>>

Direction(e) ==
  conn[e] # 0 /\ Healthy(e) =>
    /\ Flow(incoming[e], UnitsTo(e), Queue(e), conn[e], taken[e], Served(e),
            queued[Other(e)], conn[e] \in dropped)
    /\ Hears(status[e], UnitsTo(e), Served(e), status[Other(e)] = "ready")

\* An end without a socket has nothing queued; one that failed knows it.
Idle ==
  \A e \in End :
    /\ conn[e] = 0 =>
         err[e] = "none" /\ outgoing[e] = <<>> /\ queued[e] = 0 /\ taken[e] = 0
    /\ status[e] = "error" => err[e] # "none"
    /\ step[e] # "idle" => err[e] = "none"

\* No end has closed the connection it is on.
Shut ==
  /\ \A e \in End : conn[e] # 0 => e \notin closed[conn[e]]
  /\ \A k \in Conns : /\ k > opened => closed[k] = {}
                      /\ k > accepted => "server" \notin closed[k]

\* Queues hold messages for the owner and health messages; before the
\* handshake is over nothing has left them.
Queues ==
  \A e \in End :
    /\ \A j \in 1 .. Len(outgoing[e]) : outgoing[e][j].op \in {"data", "health"}
    /\ status[e] \notin {"ready", "error"} =>
         /\ Climbs(Heads(outgoing[e]), conn[e], 0)
         /\ Ids(Heads(outgoing[e])) = 1 .. queued[e]

Deliver ==
  /\ Idle
  /\ Shut
  /\ Queues
  /\ \A e \in End : Direction(e)
  /\ NoProtocolError

-----------------------------------------------------------------------------
(***************************************************************************)
(* Units and the messages they belong to.                                  *)
(***************************************************************************)
LEMMA UnitOfStream ==
  ASSUME NEW s \in Seq(Unit), NEW p \in 1 .. Len(s)
  PROVE  /\ s[p] \in Unit /\ s[p].m \in Wire /\ s[p].i \in Nat \ {0}
         /\ s[p] = [m |-> s[p].m, i |-> s[p].i]
<1>1. s[p] \in Unit
  BY ElementOfSeq
<1> QED BY <1>1 DEF Unit

LEMMA RankOfData ==
  ASSUME NEW m \in Wire, IsData(m)
  PROVE  m \in Message /\ m.id \in Nat \ {0}
<1>1. Packet.op # "data" /\ HelloMsg.op # "data" /\ Health.op # "data"
  BY DEF Packet, HelloMsg, Health
<1>2. PICK k \in Conns, n \in 1 .. MaxData : m = Data(k, n)
  BY <1>1 DEF IsData, Wire, Message
<1> QED BY <1>2 DEF Data, Message

LEMMA RanksAreNumbers ==
  ASSUME NEW s \in Seq(Unit)
  PROVE  /\ Ids(s) \in SUBSET Nat
         /\ \A p \in Starts(s) : p \in Nat \ {0} /\ s[p].m.id \in Ids(s) /\ s[p].m.id \in Nat
<1>1. ASSUME NEW p \in Starts(s)
      PROVE  p \in Nat \ {0} /\ s[p].m.id \in Ids(s) /\ s[p].m.id \in Nat
  <2>1. p \in 1 .. Len(s) /\ IsData(s[p].m)
    BY DEF Starts
  <2>2. s[p].m.id \in Nat
    BY <2>1, UnitOfStream, RankOfData
  <2> QED BY <2>1, <2>2 DEF Ids
<1> QED BY <1>1 DEF Ids

(***************************************************************************)
(* Two stretches of a stream, one after the other.                         *)
(***************************************************************************)
LEMMA Joining ==
  ASSUME NEW s \in Seq(Unit), NEW t \in Seq(Unit)
  PROVE  /\ s \o t \in Seq(Unit)
         /\ Len(s) \in Nat /\ Len(t) \in Nat /\ Len(s \o t) = Len(s) + Len(t)
         /\ \A i \in 1 .. Len(s) : (s \o t)[i] = s[i]
         /\ \A i \in 1 .. Len(t) : (s \o t)[Len(s) + i] = t[i]
         /\ \A i \in 1 .. Len(s \o t) :
              \/ i \in 1 .. Len(s)
              \/ (i - Len(s) \in 1 .. Len(t) /\ (s \o t)[i] = t[i - Len(s)])
<1>1. Len(s) \in Nat /\ Len(t) \in Nat
  BY LenProperties
<1>2. /\ s \o t \in Seq(Unit) /\ Len(s \o t) = Len(s) + Len(t)
      /\ \A i \in 1 .. Len(s) + Len(t) :
           (s \o t)[i] = IF i <= Len(s) THEN s[i] ELSE t[i - Len(s)]
  BY ConcatProperties
<1> DEFINE a == Len(s)
           b == Len(t)
<1>3. \A i \in 1 .. a : i \in 1 .. a + b /\ i <= a
  BY <1>1
<1>4. \A i \in 1 .. b : a + i \in 1 .. a + b /\ ~(a + i <= a) /\ (a + i) - a = i
  <2> HIDE DEF a, b
  <2> QED BY <1>1 DEF a, b
<1>5. \A i \in 1 .. a + b : i \in 1 .. a \/ (i - a \in 1 .. b /\ ~(i <= a))
  BY <1>1
<1>6. \A i \in 1 .. Len(s) : (s \o t)[i] = s[i]
  BY <1>2, <1>3
<1>7. \A i \in 1 .. Len(t) : (s \o t)[Len(s) + i] = t[i]
  BY <1>2, <1>4
<1>8. \A i \in 1 .. Len(s) + Len(t) :
        \/ i \in 1 .. Len(s)
        \/ (i - Len(s) \in 1 .. Len(t) /\ (s \o t)[i] = t[i - Len(s)])
  BY <1>2, <1>5
<1> QED BY <1>1, <1>2, <1>6, <1>7, <1>8

LEMMA HeadsOfQueue ==
  ASSUME NEW q \in Seq(Message)
  PROVE  Heads(q) \in Seq(Unit) /\ Len(Heads(q)) = Len(q)
<1>1. \A j \in 1 .. Len(q) : q[j] \in Wire
  BY ElementOfSeq DEF Wire
<1>2. \A j \in 1 .. Len(q) : [m |-> q[j], i |-> 1] \in Unit
  BY <1>1 DEF Unit
<1>3. Len(q) \in Nat
  BY LenProperties
<1>4. Heads(q) \in Seq(Unit)
  BY <1>2, <1>3, IsASeq DEF Heads
<1> QED BY <1>3, <1>4, LenProperties DEF Heads

\* The unit a message in a queue counts as.
Lead(m) == <<[m |-> m, i |-> 1]>>

LEMMA LeadIsUnits ==
  ASSUME NEW m \in Wire
  PROVE  Lead(m) \in Seq(Unit) /\ Len(Lead(m)) = 1 /\ Lead(m)[1] = [m |-> m, i |-> 1]
<1>1. [m |-> m, i |-> 1] \in Unit
  BY DEF Unit
<1> QED BY <1>1 DEF Lead

LEMMA HeadsOfLonger ==
  ASSUME NEW q \in Seq(Message), NEW m \in Message
  PROVE  Heads(Append(q, m)) = Heads(q) \o Lead(m)
<1> DEFINE a == Append(q, m)
           g == Heads(a)
           h == Heads(q) \o Lead(m)
           l == Len(q)
<1>1. m \in Wire /\ l \in Nat
  BY LenProperties DEF Wire
<1>2. /\ a \in Seq(Message) /\ Len(a) = l + 1 /\ a[l + 1] = m
      /\ \A i \in 1 .. l : a[i] = q[i]
  BY AppendProperties
<1>3. g \in Seq(Unit) /\ Len(g) = l + 1
  BY <1>2, HeadsOfQueue
<1>4. Heads(q) \in Seq(Unit) /\ Len(Heads(q)) = l
  BY HeadsOfQueue
<1>5. Lead(m) \in Seq(Unit) /\ Len(Lead(m)) = 1 /\ Lead(m)[1] = [m |-> m, i |-> 1]
  BY <1>1, LeadIsUnits
<1>6. /\ h \in Seq(Unit) /\ Len(h) = l + 1
      /\ \A i \in 1 .. l : h[i] = Heads(q)[i]
      /\ h[l + 1] = [m |-> m, i |-> 1]
  <2> DEFINE x == Heads(q)
             y == Lead(m)
  <2>1. x \in Seq(Unit) /\ Len(x) = l /\ y \in Seq(Unit) /\ Len(y) = 1 /\ h = x \o y
    BY <1>4, <1>5
  <2> HIDE DEF x, y, h, l
  <2>2. /\ h \in Seq(Unit) /\ Len(h) = Len(x) + Len(y)
        /\ \A i \in 1 .. Len(x) : h[i] = x[i]
        /\ \A i \in 1 .. Len(y) : h[Len(x) + i] = y[i]
    BY <2>1, Joining
  <2>3. /\ h \in Seq(Unit) /\ Len(h) = l + 1 /\ \A i \in 1 .. l : h[i] = x[i]
        /\ h[l + 1] = y[1]
    BY <1>1, <2>1, <2>2
  <2>4. y[1] = [m |-> m, i |-> 1]
    BY <1>5 DEF y
  <2> QED BY <2>3, <2>4 DEF x
<1>7. /\ \A i \in 1 .. l : g[i] = [m |-> q[i], i |-> 1] /\ Heads(q)[i] = [m |-> q[i], i |-> 1]
      /\ g[l + 1] = [m |-> m, i |-> 1]
  BY <1>1, <1>2 DEF Heads
<1>8. \A i \in 1 .. l + 1 : i \in 1 .. l \/ i = l + 1
  BY <1>1
<1> HIDE DEF a, g, h, l
<1>9. g = h
  BY <1>3, <1>6, <1>7, <1>8, SeqEqual
<1> QED BY <1>9 DEF a, g, h

LEMMA HeadsOfRest ==
  ASSUME NEW q \in Seq(Message), q # <<>>
  PROVE  /\ Head(q) \in Message /\ Tail(q) \in Seq(Message) /\ Len(Tail(q)) = Len(q) - 1
         /\ \A j \in 1 .. Len(Tail(q)) : j + 1 \in 1 .. Len(q) /\ Tail(q)[j] = q[j + 1]
         /\ Head(q) = q[1] /\ 1 \in 1 .. Len(q)
         /\ Heads(q) = Lead(Head(q)) \o Heads(Tail(q))
<1> DEFINE g == Heads(q)
           h == Lead(Head(q)) \o Heads(Tail(q))
           l == Len(q) - 1
<1>1. /\ Head(q) \in Message /\ Tail(q) \in Seq(Message) /\ Len(Tail(q)) = Len(q) - 1
      /\ \A j \in 1 .. Len(Tail(q)) : Tail(q)[j] = q[j + 1]
      /\ Head(q) = q[1] /\ Len(q) \in Nat \ {0}
  <2>1. Len(q) \in Nat \ {0}
    BY EmptySeq, LenProperties
  <2>2. Head(q) = q[1] /\ q[1] \in Message
    BY <2>1, ElementOfSeq
  <2> QED BY <2>1, <2>2, HeadTailProperties
<1>2. Head(q) \in Wire /\ l \in Nat /\ Len(q) = l + 1
  BY <1>1 DEF Wire
<1>3. g \in Seq(Unit) /\ Len(g) = l + 1
  BY <1>2, HeadsOfQueue
<1>4. Heads(Tail(q)) \in Seq(Unit) /\ Len(Heads(Tail(q))) = l
  BY <1>1, HeadsOfQueue
<1>5. /\ Lead(Head(q)) \in Seq(Unit) /\ Len(Lead(Head(q))) = 1
      /\ Lead(Head(q))[1] = [m |-> Head(q), i |-> 1]
  BY <1>2, LeadIsUnits
<1>6. /\ h \in Seq(Unit) /\ Len(h) = l + 1
      /\ h[1] = [m |-> Head(q), i |-> 1]
      /\ \A i \in 1 .. l : h[1 + i] = Heads(Tail(q))[i]
  <2> DEFINE x == Lead(Head(q))
             y == Heads(Tail(q))
  <2>1. /\ h \in Seq(Unit) /\ Len(h) = 1 + l
        /\ \A i \in 1 .. 1 : h[i] = x[i]
        /\ \A i \in 1 .. l : h[1 + i] = y[i]
    <3>1. x \in Seq(Unit) /\ y \in Seq(Unit) /\ Len(x) = 1 /\ Len(y) = l /\ h = x \o y
      BY <1>4, <1>5
    <3>2. /\ x \o y \in Seq(Unit) /\ Len(x \o y) = Len(x) + Len(y)
          /\ \A i \in 1 .. Len(x) : (x \o y)[i] = x[i]
          /\ \A i \in 1 .. Len(y) : (x \o y)[Len(x) + i] = y[i]
      BY <3>1, Joining
    <3> HIDE DEF x, y, h, l
    <3> QED BY <3>1, <3>2
  <2> HIDE DEF h, l
  <2> QED BY <1>2, <1>5, <2>1
<1>7. /\ g[1] = [m |-> Head(q), i |-> 1]
      /\ \A i \in 1 .. l : /\ g[1 + i] = [m |-> q[1 + i], i |-> 1]
                            /\ Heads(Tail(q))[i] = [m |-> q[1 + i], i |-> 1]
  BY <1>1 DEF Heads
<1>8. \A i \in 1 .. l + 1 : i = 1 \/ (i - 1 \in 1 .. l /\ i = 1 + (i - 1))
  BY <1>2
<1>9. \A j \in 1 .. Len(Tail(q)) : j + 1 \in 1 .. Len(q)
  BY <1>1
<1>10. 1 \in 1 .. Len(q)
  BY <1>1
<1> HIDE DEF g, h, l
<1>11. \A i \in 1 .. l + 1 : g[i] = h[i]
  <2> SUFFICES ASSUME NEW i \in 1 .. l + 1
               PROVE  g[i] = h[i]
    OBVIOUS
  <2>1. CASE i = 1
    BY <1>6, <1>7, <2>1
  <2>2. CASE i - 1 \in 1 .. l /\ i = 1 + (i - 1)
    <3>1. \A j \in 1 .. l : g[1 + j] = h[1 + j]
      BY <1>6, <1>7
    <3> QED BY <2>2, <3>1
  <2> QED BY <1>8, <2>1, <2>2
<1>12. g = h
  BY <1>3, <1>6, <1>11, SeqEqual
<1> QED BY <1>1, <1>9, <1>10, <1>12 DEF g, h

-----------------------------------------------------------------------------
(***************************************************************************)
(* What two stretches of a stream hold together.                           *)
(***************************************************************************)
LEMMA StartsOfJoin ==
  ASSUME NEW s \in Seq(Unit), NEW t \in Seq(Unit)
  PROVE  /\ \A p \in Starts(s) : p \in Starts(s \o t) /\ (s \o t)[p] = s[p] /\ p <= Len(s)
         /\ \A p \in Starts(t) : /\ Len(s) + p \in Starts(s \o t)
                                 /\ (s \o t)[Len(s) + p] = t[p]
         /\ \A p \in Starts(s \o t) :
              p \in Starts(s) \/ (\E r \in Starts(t) : p = Len(s) + r)
<1>1. /\ Len(s) \in Nat /\ Len(t) \in Nat /\ Len(s \o t) = Len(s) + Len(t)
      /\ \A i \in 1 .. Len(s) : (s \o t)[i] = s[i]
      /\ \A i \in 1 .. Len(t) : (s \o t)[Len(s) + i] = t[i]
      /\ \A i \in 1 .. Len(s \o t) :
           \/ i \in 1 .. Len(s)
           \/ (i - Len(s) \in 1 .. Len(t) /\ (s \o t)[i] = t[i - Len(s)])
  BY Joining
<1>2. ASSUME NEW p \in Starts(s)
      PROVE  p \in Starts(s \o t) /\ (s \o t)[p] = s[p] /\ p <= Len(s)
  <2>1. p \in 1 .. Len(s) /\ s[p].i = 1 /\ IsData(s[p].m)
    BY DEF Starts
  <2>2. p \in 1 .. Len(s \o t) /\ p <= Len(s)
    BY <1>1, <2>1
  <2> QED BY <1>1, <2>1, <2>2 DEF Starts
<1>3. ASSUME NEW p \in Starts(t)
      PROVE  Len(s) + p \in Starts(s \o t) /\ (s \o t)[Len(s) + p] = t[p]
  <2>1. p \in 1 .. Len(t) /\ t[p].i = 1 /\ IsData(t[p].m)
    BY DEF Starts
  <2>2. Len(s) + p \in 1 .. Len(s \o t)
    BY <1>1, <2>1
  <2> QED BY <1>1, <2>1, <2>2 DEF Starts
<1>4. ASSUME NEW p \in Starts(s \o t)
      PROVE  p \in Starts(s) \/ (\E r \in Starts(t) : p = Len(s) + r)
  <2>1. p \in 1 .. Len(s \o t) /\ (s \o t)[p].i = 1 /\ IsData((s \o t)[p].m)
    BY DEF Starts
  <2>2. CASE p \in 1 .. Len(s)
    BY <1>1, <2>1, <2>2 DEF Starts
  <2>3. CASE p - Len(s) \in 1 .. Len(t) /\ (s \o t)[p] = t[p - Len(s)]
    <3>1. p - Len(s) \in Starts(t)
      BY <2>1, <2>3 DEF Starts
    <3>2. p = Len(s) + (p - Len(s))
      BY <1>1, <2>1
    <3> QED BY <3>1, <3>2
  <2> QED BY <1>1, <2>1, <2>2, <2>3
<1> QED BY <1>2, <1>3, <1>4

LEMMA IdsOfJoin ==
  ASSUME NEW s \in Seq(Unit), NEW t \in Seq(Unit)
  PROVE  Ids(s \o t) = Ids(s) \cup Ids(t)
<1>1. ASSUME NEW i \in Ids(s \o t)
      PROVE  i \in Ids(s) \cup Ids(t)
  <2>1. PICK p \in Starts(s \o t) : i = (s \o t)[p].m.id
    BY DEF Ids
  <2>2. CASE p \in Starts(s)
    <3>1. (s \o t)[p] = s[p]
      BY <2>2, StartsOfJoin
    <3> QED BY <2>1, <2>2, <3>1 DEF Ids
  <2>3. CASE \E r \in Starts(t) : p = Len(s) + r
    <3>1. PICK r \in Starts(t) : p = Len(s) + r
      BY <2>3
    <3>2. (s \o t)[Len(s) + r] = t[r]
      BY StartsOfJoin
    <3> QED BY <2>1, <3>1, <3>2 DEF Ids
  <2> QED BY <2>1, <2>2, <2>3, StartsOfJoin
<1>2. ASSUME NEW i \in Ids(s)
      PROVE  i \in Ids(s \o t)
  <2>1. PICK p \in Starts(s) : i = s[p].m.id
    BY DEF Ids
  <2>2. p \in Starts(s \o t) /\ (s \o t)[p] = s[p]
    BY StartsOfJoin
  <2> QED BY <2>1, <2>2 DEF Ids
<1>3. ASSUME NEW i \in Ids(t)
      PROVE  i \in Ids(s \o t)
  <2>1. PICK p \in Starts(t) : i = t[p].m.id
    BY DEF Ids
  <2>2. Len(s) + p \in Starts(s \o t) /\ (s \o t)[Len(s) + p] = t[p]
    BY StartsOfJoin
  <2> QED BY <2>1, <2>2 DEF Ids
<1> QED BY <1>1, <1>2, <1>3

\* Every rank in I is lower than every rank in J.
Below(I, J) == \A i \in I, j \in J : i < j

LEMMA ClimbsOfJoin ==
  ASSUME NEW s \in Seq(Unit), NEW t \in Seq(Unit), NEW k, NEW n
  PROVE  Climbs(s \o t, k, n) <=>
           Climbs(s, k, n) /\ Climbs(t, k, n) /\ Below(Ids(s), Ids(t))
<1> DEFINE v == s \o t
<1>1. /\ \A p \in Starts(s) : p \in Starts(v) /\ v[p] = s[p] /\ p <= Len(s)
      /\ \A p \in Starts(t) : Len(s) + p \in Starts(v) /\ v[Len(s) + p] = t[p]
      /\ \A p \in Starts(v) : p \in Starts(s) \/ (\E r \in Starts(t) : p = Len(s) + r)
  BY StartsOfJoin
<1>2. /\ Len(s) \in Nat
      /\ \A p \in Starts(s) : p \in Nat \ {0} /\ s[p].m.id \in Ids(s) /\ s[p].m.id \in Nat
      /\ \A p \in Starts(t) : p \in Nat \ {0} /\ t[p].m.id \in Ids(t) /\ t[p].m.id \in Nat
  BY RanksAreNumbers, Joining
<1> HIDE DEF v
<1>3. ASSUME Climbs(v, k, n)
      PROVE  Climbs(s, k, n) /\ Climbs(t, k, n) /\ Below(Ids(s), Ids(t))
  <2>1. Climbs(s, k, n)
    BY <1>1, <1>3 DEF Climbs
  <2>2. Climbs(t, k, n)
    <3>1. \A p, q \in Starts(t) : p < q => Len(s) + p < Len(s) + q
      BY <1>2
    <3> QED BY <1>1, <1>3, <3>1 DEF Climbs
  <2>3. Below(Ids(s), Ids(t))
    <3> SUFFICES ASSUME NEW p \in Starts(s), NEW q \in Starts(t)
                 PROVE  s[p].m.id < t[q].m.id
      BY DEF Below, Ids
    <3>1. p < Len(s) + q
      BY <1>1, <1>2
    <3> QED BY <1>1, <1>3, <3>1 DEF Climbs
  <2> QED BY <2>1, <2>2, <2>3
<1>4. ASSUME Climbs(s, k, n), Climbs(t, k, n), Below(Ids(s), Ids(t))
      PROVE  Climbs(v, k, n)
  <2>1. ASSUME NEW p \in Starts(v)
        PROVE  v[p].m.conn = k /\ v[p].m.id > n
    BY <1>1, <1>4 DEF Climbs
  <2>2. ASSUME NEW p \in Starts(v), NEW q \in Starts(v), p < q
        PROVE  v[p].m.id < v[q].m.id
    <3>1. CASE p \in Starts(s) /\ q \in Starts(s)
      BY <1>1, <1>4, <2>2, <3>1 DEF Climbs
    <3>2. CASE p \in Starts(s) /\ \E r \in Starts(t) : q = Len(s) + r
      BY <1>1, <1>2, <1>4, <3>2 DEF Below
    <3>3. CASE (\E r \in Starts(t) : p = Len(s) + r) /\ q \in Starts(s)
      <4>1. PICK r \in Starts(t) : p = Len(s) + r
        BY <3>3
      <4>2. q <= Len(s) /\ q \in Nat /\ r \in Nat
        BY <1>1, <1>2, <3>3
      <4> QED BY <1>2, <2>2, <4>1, <4>2
    <3>4. CASE (\E r \in Starts(t) : p = Len(s) + r) /\ \E r \in Starts(t) : q = Len(s) + r
      <4>1. PICK a \in Starts(t), b \in Starts(t) : p = Len(s) + a /\ q = Len(s) + b
        BY <3>4
      <4>2. a < b
        BY <1>2, <2>2, <4>1
      <4>3. t[a].m.id < t[b].m.id
        BY <1>4, <4>2 DEF Climbs
      <4>4. v[p] = t[a] /\ v[q] = t[b]
        BY <1>1, <4>1
      <4> QED BY <4>3, <4>4
    <3> QED BY <1>1, <3>1, <3>2, <3>3, <3>4
  <2> QED BY <2>1, <2>2 DEF Climbs
<1> QED BY <1>3, <1>4 DEF v

(***************************************************************************)
(* A frame holds its message once, as does the unit that leads it.         *)
(***************************************************************************)
LEMMA OneMessage ==
  ASSUME NEW m \in Wire, NEW s \in {Frame(m), Lead(m)}, NEW k, NEW n
  PROVE  /\ s \in Seq(Unit)
         /\ Ids(s) = IF IsData(m) THEN {m.id} ELSE {}
         /\ Climbs(s, k, n) <=> (IsData(m) => m.conn = k /\ m.id > n)
<1>1. s \in Seq(Unit) /\ Len(s) \in Nat \ {0} /\ s[1] = [m |-> m, i |-> 1]
  <2>1. CASE s = Frame(m)
    <3>1. Frame(m) \in Seq(Unit) /\ Len(Frame(m)) \in Nat \ {0} /\ 1 \in 1 .. Size(m)
      BY FrameIsUnits
    <3>2. Frame(m)[1] = [m |-> m, i |-> 1]
      BY <3>1 DEF Frame
    <3> QED BY <2>1, <3>1, <3>2
  <2>2. CASE s = Lead(m)
    BY <2>2, LeadIsUnits
  <2> QED BY <2>1, <2>2
<1>2. \A p \in 1 .. Len(s) : p # 1 => s[p].i # 1
  <2>1. CASE s = Frame(m)
    <3>1. Len(Frame(m)) = Size(m)
      BY FrameIsUnits
    <3>2. \A p \in 1 .. Size(m) : Frame(m)[p].i = p
      BY DEF Frame
    <3>3. \A p \in 1 .. Len(Frame(m)) : p # 1 => Frame(m)[p].i # 1
      BY <3>1, <3>2
    <3> QED BY <2>1, <3>3
  <2>2. CASE s = Lead(m)
    <3>1. Len(s) = 1
      BY <2>2, LeadIsUnits
    <3> QED BY <3>1
  <2> QED BY <2>1, <2>2
<1>3. Starts(s) = IF IsData(m) THEN {1} ELSE {}
  <2>1. 1 \in 1 .. Len(s) /\ s[1].i = 1 /\ s[1].m = m
    BY <1>1
  <2> QED BY <1>2, <2>1 DEF Starts
<1>4. s[1].m = m
  BY <1>1
<1> HIDE DEF IsData
<1>5. Ids(s) = IF IsData(m) THEN {m.id} ELSE {}
  BY <1>3, <1>4 DEF Ids
<1>6. Climbs(s, k, n) <=> (IsData(m) => m.conn = k /\ m.id > n)
  BY <1>3, <1>4 DEF Climbs
<1> QED BY <1>1, <1>5, <1>6

LEMMA NothingQueued ==
  ASSUME NEW k, NEW n
  PROVE  /\ <<>> \in Seq(Unit) /\ Len(<<>>) = 0 /\ Heads(<<>>) = <<>>
         /\ Starts(<<>>) = {} /\ Ids(<<>>) = {} /\ Climbs(<<>>, k, n)
         /\ InFrames(<<>>) /\ EndsWhole(<<>>)
<1>1. <<>> \in Seq(Unit) /\ Len(<<>>) = 0 /\ 1 .. 0 = {}
  BY EmptySeq
<1>2. Starts(<<>>) = {}
  BY <1>1 DEF Starts
<1>3. Heads(<<>>) = <<>>
  <2>1. <<>> \in Seq(Message)
    BY EmptySeq
  <2>2. Heads(<<>>) \in Seq(Unit) /\ Len(Heads(<<>>)) = 0
    BY <1>1, <2>1, HeadsOfQueue
  <2> QED BY <2>2, EmptySeq
<1> QED BY <1>1, <1>2, <1>3 DEF Ids, Climbs, InFrames, EndsWhole

-----------------------------------------------------------------------------
(***************************************************************************)
(* Frames one after the other (codec.h 29-62, connection.cpp 305-376).     *)
(***************************************************************************)

\* The unit at p of s continues a frame, or begins one after a whole one.
Fits(s, p) ==
  /\ s[p].i <= Size(s[p].m)
  /\ s[p].i = 1 => p = 1 \/ s[p - 1].i = Size(s[p - 1].m)
  /\ s[p].i # 1 => p > 1 /\ s[p - 1] = [m |-> s[p].m, i |-> s[p].i - 1]

LEMMA FramesFit ==
  ASSUME NEW s
  PROVE  InFrames(s) <=> \A p \in 1 .. Len(s) : Fits(s, p)
BY DEF InFrames, Fits

LEMMA FramesOfPart ==
  ASSUME NEW s \in Seq(Unit), NEW t \in Seq(Unit), InFrames(s \o t)
  PROVE  InFrames(s)
<1> DEFINE v == s \o t
<1>1. /\ Len(s) \in Nat /\ Len(t) \in Nat /\ Len(v) = Len(s) + Len(t)
      /\ \A i \in 1 .. Len(s) : v[i] = s[i]
  BY Joining
<1> HIDE DEF v
<1>2. ASSUME NEW p \in 1 .. Len(s)
      PROVE  Fits(s, p)
  <2>1. p \in 1 .. Len(v) /\ v[p] = s[p]
    BY <1>1
  <2>2. Fits(v, p)
    BY <2>1, FramesFit DEF v
  <2>3. p > 1 => v[p - 1] = s[p - 1]
    BY <1>1
  <2>4. p = 1 \/ p > 1
    OBVIOUS
  <2> QED BY <2>1, <2>2, <2>3, <2>4 DEF Fits
<1> QED BY <1>2, FramesFit

LEMMA FramesOfJoin ==
  ASSUME NEW s \in Seq(Unit), NEW t \in Seq(Unit), EndsWhole(s)
  PROVE  /\ InFrames(s) /\ InFrames(t) => InFrames(s \o t)
         /\ EndsWhole(t) => EndsWhole(s \o t)
<1> DEFINE v == s \o t
           l == Len(s)
<1>1. /\ l \in Nat /\ Len(t) \in Nat /\ Len(v) = l + Len(t)
      /\ \A i \in 1 .. l : v[i] = s[i]
      /\ \A i \in 1 .. Len(t) : v[l + i] = t[i]
      /\ \A i \in 1 .. Len(v) : i \in 1 .. l \/ i - l \in 1 .. Len(t)
  BY Joining
<1>2. s # <<>> <=> l > 0
  BY <1>1, EmptySeq
<1> HIDE DEF v, l
<1>3. ASSUME InFrames(s), InFrames(t), NEW p \in 1 .. Len(v)
      PROVE  Fits(v, p)
  <2>1. CASE p \in 1 .. l
    <3>1. Fits(s, p) /\ v[p] = s[p]
      BY <1>1, <1>3, <2>1, FramesFit DEF l
    <3>2. p > 1 => v[p - 1] = s[p - 1]
      <4>1. p > 1 => p - 1 \in 1 .. l
        BY <1>1, <2>1
      <4>2. \A i \in 1 .. l : v[i] = s[i]
        BY <1>1
      <4> QED BY <4>1, <4>2
    <3>3. p = 1 \/ p > 1
      BY <2>1
    <3> QED BY <3>1, <3>2, <3>3 DEF Fits
  <2>2. CASE p - l \in 1 .. Len(t)
    <3> DEFINE r == p - l
    <3>1. r \in 1 .. Len(t) /\ p = l + r /\ p - 1 = l + (r - 1)
      BY <1>1, <2>2
    <3> HIDE DEF r
    <3>2. Fits(t, r) /\ v[p] = t[r]
      BY <1>1, <1>3, <3>1, FramesFit
    <3>3. CASE r > 1
      <4>1. r - 1 \in 1 .. Len(t) /\ p > 1 /\ r # 1
        BY <1>1, <3>1, <3>3
      <4>2. v[p - 1] = t[r - 1]
        <5>1. v[l + (r - 1)] = t[r - 1]
          BY <1>1, <4>1
        <5> QED BY <3>1, <5>1
      <4> QED BY <3>2, <4>1, <4>2 DEF Fits
    <3>4. CASE r = 1
      <4>1. v[p].i = 1 /\ v[p].i <= Size(v[p].m)
        BY <3>2, <3>4 DEF Fits
      <4>2. CASE l = 0
        BY <3>1, <3>4, <4>1, <4>2 DEF Fits
      <4>3. CASE l # 0
        <5>1. p - 1 = l /\ l \in 1 .. l /\ s # <<>>
          BY <1>1, <1>2, <3>1, <3>4, <4>3
        <5>2. v[p - 1] = s[l] /\ s[l].i = Size(s[l].m)
          BY <1>1, <5>1 DEF EndsWhole, l
        <5> QED BY <4>1, <5>2 DEF Fits
      <4> QED BY <4>2, <4>3
    <3>5. r = 1 \/ r > 1
      BY <3>1
    <3> QED BY <3>3, <3>4, <3>5
  <2> QED BY <1>1, <2>1, <2>2
<1>4. ASSUME EndsWhole(t)
      PROVE  EndsWhole(v)
  <2>1. CASE Len(t) = 0
    <3>1. t = <<>> /\ v = s
      BY <2>1, EmptySeq, ConcatEmptySeq DEF v
    <3> QED BY <3>1
  <2>2. CASE Len(t) # 0
    <3>1. t # <<>> /\ Len(t) \in 1 .. Len(t) /\ v[Len(v)] = t[Len(t)]
      BY <1>1, <2>2, EmptySeq
    <3> QED BY <1>4, <3>1 DEF EndsWhole
  <2> QED BY <2>1, <2>2
<1> QED BY <1>3, <1>4, FramesFit DEF v

LEMMA FrameIsWhole ==
  ASSUME NEW m \in Wire
  PROVE  /\ InFrames(Frame(m)) /\ EndsWhole(Frame(m)) /\ Frame(m) # <<>>
         /\ Frame(m)[1] = [m |-> m, i |-> 1]
         /\ \A p \in 1 .. Len(Frame(m)) : Frame(m)[p].m = m
         /\ \A p \in 1 .. Len(Frame(m)) : Frame(m)[p] = [m |-> m, i |-> p]
<1> DEFINE f == Frame(m)
<1>1. f \in Seq(Unit) /\ Len(f) = Size(m) /\ Size(m) \in Nat \ {0}
  BY FrameIsUnits
<1>2. /\ \A p \in 1 .. Size(m) : f[p] = [m |-> m, i |-> p]
      /\ \A p \in 1 .. Size(m) : f[p].m = m
  BY DEF Frame
<1> HIDE DEF f
<1>3. ASSUME NEW p \in 1 .. Len(f)
      PROVE  Fits(f, p)
  <2>1. f[p].i = p /\ f[p].m = m /\ p <= Size(m)
    BY <1>1, <1>2
  <2>2. CASE p = 1
    BY <2>1, <2>2 DEF Fits
  <2>3. CASE p # 1
    <3>1. p - 1 \in 1 .. Size(m) /\ p > 1
      BY <1>1, <2>3
    <3> QED BY <1>2, <2>1, <2>3, <3>1 DEF Fits
  <2> QED BY <2>2, <2>3
<1>4. f # <<>> /\ Len(f) \in 1 .. Size(m)
  BY <1>1, EmptySeq
<1>5. EndsWhole(f)
  BY <1>1, <1>2, <1>4 DEF EndsWhole
<1>6. f[1] = [m |-> m, i |-> 1]
  BY <1>1, <1>2
<1> QED BY <1>1, <1>2, <1>3, <1>4, <1>5, <1>6, FramesFit DEF f

\* What is left when the first frame has been taken.
LEMMA FramesOfRest ==
  ASSUME NEW m \in Wire, NEW t \in Seq(Unit)
  PROVE  /\ InFrames(Frame(m) \o t) => InFrames(t)
         /\ EndsWhole(Frame(m) \o t) => EndsWhole(t)
<1> DEFINE f == Frame(m)
           l == Len(f)
           v == f \o t
<1>1. f \in Seq(Unit) /\ l = Size(m) /\ l \in Nat \ {0} /\ f[l] = [m |-> m, i |-> l]
  <2>1. f \in Seq(Unit) /\ l = Size(m) /\ l \in Nat \ {0}
    BY FrameIsUnits
  <2>2. l \in 1 .. l
    BY <2>1
  <2> QED BY <2>1, <2>2, FrameIsWhole
<1>2. /\ Len(t) \in Nat /\ Len(v) = l + Len(t)
      /\ \A i \in 1 .. l : v[i] = f[i]
      /\ \A i \in 1 .. Len(t) : v[l + i] = t[i]
  BY <1>1, Joining
<1> HIDE DEF f, l, v
<1>3. ASSUME InFrames(v), NEW p \in 1 .. Len(t)
      PROVE  Fits(t, p)
  <2>1. l + p \in 1 .. Len(v) /\ v[l + p] = t[p] /\ (l + p) - 1 = l + (p - 1)
    BY <1>1, <1>2
  <2>2. Fits(v, l + p)
    BY <1>3, <2>1, FramesFit
  <2>3. CASE p = 1
    <3>1. v[(l + p) - 1] = [m |-> m, i |-> l]
      <4>1. (l + p) - 1 = l /\ l \in 1 .. l
        BY <1>1, <2>3
      <4> QED BY <1>1, <1>2, <4>1
    <3>2. ASSUME t[p].i # 1
          PROVE  FALSE
      <4>1. [m |-> m, i |-> l] = [m |-> t[p].m, i |-> t[p].i - 1] /\ t[p].i <= Size(t[p].m)
        BY <2>1, <2>2, <3>1, <3>2 DEF Fits
      <4>2. t[p].m = m /\ t[p].i - 1 = l
        BY <4>1
      <4>3. t[p].i \in Nat
        BY UnitOfStream
      <4> QED BY <1>1, <4>1, <4>2, <4>3
    <3> QED BY <2>1, <2>2, <2>3, <3>2 DEF Fits
  <2>4. CASE p # 1
    <3>1. v[(l + p) - 1] = t[p - 1] /\ p > 1 /\ l + p # 1
      <4>1. p - 1 \in 1 .. Len(t) /\ p > 1 /\ l + p # 1
        BY <1>1, <1>2, <2>4
      <4> QED BY <1>2, <2>1, <4>1
    <3> QED BY <2>1, <2>2, <2>4, <3>1 DEF Fits
  <2> QED BY <2>3, <2>4
<1>4. ASSUME EndsWhole(v)
      PROVE  EndsWhole(t)
  <2> SUFFICES ASSUME t # <<>>
               PROVE  t[Len(t)].i = Size(t[Len(t)].m)
    BY DEF EndsWhole
  <2>1. Len(t) \in 1 .. Len(t)
    BY <1>2, EmptySeq
  <2>2. v[Len(v)] = t[Len(t)] /\ Len(v) > 0
    BY <1>1, <1>2, <2>1
  <2>3. v # <<>>
    BY <2>2, EmptySeq
  <2> QED BY <1>4, <2>2, <2>3 DEF EndsWhole
<1> QED BY <1>3, <1>4, FramesFit DEF v, f

(***************************************************************************)
(* A nonempty set of natural numbers has a least one.                      *)
(***************************************************************************)
LEMMA LeastNat ==
  ASSUME NEW T \in SUBSET Nat, T # {}
  PROVE  \E n \in T : \A m \in T : n <= m
<1> DEFINE R == OpToRel(<, Nat)
<1>1. IsWellFoundedOn(R, Nat)
  BY NatLessThanWellFounded, Zenon
<1>2. \A x, y \in Nat : y < x => <<y, x>> \in R
  BY DEF OpToRel
<1> HIDE DEF R
<1>3. PICK x \in T : \A y \in T : ~(<<y, x>> \in R)
  BY <1>1, WFMin
<1>4. \A y \in T : ~(y < x) /\ x \in Nat /\ y \in Nat
  BY <1>2, <1>3
<1>5. \A y \in T : x <= y
  BY <1>4
<1> QED BY <1>5

(***************************************************************************)
(* Frames one after the other begin with a frame, as far as they go.       *)
(***************************************************************************)
LEMMA FirstFrame ==
  ASSUME NEW s \in Seq(Unit), InFrames(s), s # <<>>
  PROVE  /\ s[1].m \in Wire
         /\ \A p \in 1 .. Len(s) : p <= Size(s[1].m) => s[p] = [m |-> s[1].m, i |-> p]
<1> DEFINE m == s[1].m
           T == {p \in 1 .. Len(s) : p <= Size(m) /\ s[p] # [m |-> m, i |-> p]}
<1>1. Len(s) \in Nat \ {0} /\ 1 \in 1 .. Len(s)
  BY EmptySeq
<1>2. m \in Wire /\ Size(m) \in Nat \ {0}
  BY <1>1, UnitOfStream, FrameIsUnits
<1>3. s[1] = [m |-> m, i |-> 1]
  <2>1. Fits(s, 1)
    BY <1>1, FramesFit
  <2>2. s[1].i = 1
    BY <2>1 DEF Fits
  <2> QED BY <1>1, <2>2, UnitOfStream
<1> HIDE DEF m
<1>4. ASSUME T # {}
      PROVE  FALSE
  <2>1. T \in SUBSET Nat
    OBVIOUS
  <2>2. PICK p \in T : \A r \in T : p <= r
    BY <1>4, <2>1, LeastNat
  <2>3. p \in 1 .. Len(s) /\ p <= Size(m) /\ s[p] # [m |-> m, i |-> p]
    OBVIOUS
  <2>4. p # 1
    BY <1>3, <2>3
  <2>5. p - 1 \in 1 .. Len(s) /\ p - 1 <= Size(m) /\ p - 1 \notin T
    BY <1>1, <1>2, <2>2, <2>3, <2>4
  <2>6. s[p - 1] = [m |-> m, i |-> p - 1]
    BY <2>5
  <2>7. Fits(s, p)
    BY <2>3, FramesFit
  <2>8. s[p].i # 1
    <3> SUFFICES ASSUME s[p].i = 1
                 PROVE  FALSE
      OBVIOUS
    <3>1. s[p - 1].i = Size(s[p - 1].m)
      BY <2>4, <2>7 DEF Fits
    <3>2. p - 1 = Size(m)
      BY <2>6, <3>1
    <3> QED BY <1>2, <2>3, <3>2
  <2>9. [m |-> m, i |-> p - 1] = [m |-> s[p].m, i |-> s[p].i - 1]
    BY <2>6, <2>7, <2>8 DEF Fits
  <2>10. s[p].m = m /\ s[p].i - 1 = p - 1
    BY <2>9
  <2>11. s[p].i \in Nat /\ s[p] = [m |-> s[p].m, i |-> s[p].i]
    BY <2>3, UnitOfStream
  <2>12. s[p].i = p
    BY <2>3, <2>10, <2>11
  <2> QED BY <2>3, <2>10, <2>11, <2>12
<1> QED BY <1>2, <1>4 DEF m

(***************************************************************************)
(* try_read_message_from_in_stream() rejects nothing that is in frames and *)
(* does not begin with the hello packet.                                   *)
(***************************************************************************)
LEMMA FramesParse ==
  ASSUME NEW s \in Seq(Unit), InFrames(s), s # <<>> => s[1].m # Packet
  PROVE  Parse(s) # "bad"
<1> DEFINE m == s[1].m
<1> SUFFICES ASSUME ~(Len(s) < HeaderUnits)
             PROVE  Parse(s) # "bad"
  BY DEF Parse
<1>1. Len(s) \in Nat /\ Len(s) >= HeaderUnits /\ s # <<>>
  BY EmptySeq
<1>2. m \in Wire /\ m # Packet
  BY <1>1, FirstFrame
<1>3. \A p \in 1 .. Len(s) : p <= Size(m) => s[p] = [m |-> m, i |-> p]
  BY <1>1, FirstFrame
<1>4. Frame(m) \in Seq(Unit) /\ Len(Frame(m)) = Size(m) /\ Size(m) \in Nat
  BY <1>2, FrameIsUnits
<1>5. \A p \in 1 .. Size(m) : Frame(m)[p] = [m |-> m, i |-> p]
  BY <1>2, <1>4, FrameIsWhole
<1>6. HeaderUnits <= Size(m)
  BY <1>2 DEF Size
<1> HIDE DEF m
<1>7. ASSUME NEW n \in 0 .. Size(m), n <= Len(s)
      PROVE  Take(s, n) = Take(Frame(m), n)
  <2>1. \A p \in 1 .. n : p \in 1 .. Len(s) /\ p \in 1 .. Size(m)
    BY <1>1, <1>4, <1>7
  <2>2. \A p \in 1 .. n : s[p] = Frame(m)[p] /\ s[p] \in Unit
    <3>1. \A p \in 1 .. Len(s) : s[p] \in Unit
      BY UnitOfStream
    <3>2. \A p \in 1 .. n : p <= Size(m)
      BY <2>1
    <3> QED BY <1>3, <1>5, <2>1, <3>1, <3>2
  <2>3. Take(s, n) = [p \in 1 .. n |-> s[p]] /\ Take(Frame(m), n) = [p \in 1 .. n |-> Frame(m)[p]]
    <3>1. /\ Len(Take(s, n)) = n /\ Take(s, n) \in Seq(Unit)
          /\ \A p \in 1 .. n : Take(s, n)[p] = s[p]
      <4>1. n \in 0 .. Len(s) /\ 1 \in 1 .. n + 1
        BY <1>1, <1>7
      <4> QED BY <2>2, <4>1, SubSeqProperties DEF Take
    <3>2. /\ Len(Take(Frame(m), n)) = n /\ Take(Frame(m), n) \in Seq(Unit)
          /\ \A p \in 1 .. n : Take(Frame(m), n)[p] = Frame(m)[p]
      BY <1>4, <2>2, SubSeqProperties DEF Take
    <3> QED BY <3>1, <3>2, LenProperties
  <2> QED BY <2>2, <2>3
<1>8. Take(s, HeaderUnits) = Take(Frame(m), HeaderUnits)
  <2>1. HeaderUnits \in 0 .. Size(m) /\ HeaderUnits <= Len(s)
    BY <1>1, <1>4, <1>6
  <2> QED BY <1>7, <2>1
<1>9. ASSUME ~(Len(s) < Size(m))
      PROVE  Take(s, Size(m)) = Frame(m)
  <2>1. Take(s, Size(m)) = Take(Frame(m), Size(m))
    BY <1>1, <1>4, <1>7, <1>9
  <2>2. Take(Frame(m), Size(m)) = Frame(m)
    BY <1>4, SubSeqFull DEF Take
  <2> QED BY <2>1, <2>2
<1> QED BY <1>2, <1>8, <1>9 DEF Parse, m

-----------------------------------------------------------------------------
(***************************************************************************)
(* A line from what is in its three parts.                                 *)
(***************************************************************************)
Line(inc, us, q) == Heads(inc) \o us \o q

LEMMA LineIsUnits ==
  ASSUME NEW inc \in Seq(Message), NEW us \in Seq(Unit), NEW q \in Seq(Unit)
  PROVE  Line(inc, us, q) \in Seq(Unit) /\ Ids(Line(inc, us, q)) \in SUBSET Nat
<1>1. Heads(inc) \in Seq(Unit)
  BY HeadsOfQueue
<1>2. Heads(inc) \o us \in Seq(Unit)
  BY <1>1, Joining
<1>3. Line(inc, us, q) \in Seq(Unit)
  BY <1>2, Joining DEF Line
<1> QED BY <1>3, RanksAreNumbers

LEMMA LineParts ==
  ASSUME NEW inc \in Seq(Message), NEW us \in Seq(Unit), NEW q \in Seq(Unit), NEW k, NEW n
  PROVE  /\ Ids(Line(inc, us, q)) = Ids(Heads(inc)) \cup Ids(us) \cup Ids(q)
         /\ Climbs(Line(inc, us, q), k, n) <=>
              /\ Climbs(Heads(inc), k, n) /\ Climbs(us, k, n) /\ Climbs(q, k, n)
              /\ Below(Ids(Heads(inc)), Ids(us))
              /\ Below(Ids(Heads(inc)), Ids(q)) /\ Below(Ids(us), Ids(q))
<1> DEFINE h == Heads(inc)
           v == h \o us
<1>1. h \in Seq(Unit) /\ v \in Seq(Unit)
  BY HeadsOfQueue, Joining
<1>2. /\ Ids(v) = Ids(h) \cup Ids(us)
      /\ Climbs(v, k, n) <=> Climbs(h, k, n) /\ Climbs(us, k, n) /\ Below(Ids(h), Ids(us))
  BY <1>1, IdsOfJoin, ClimbsOfJoin
<1>3. /\ Ids(v \o q) = Ids(v) \cup Ids(q)
      /\ Climbs(v \o q, k, n) <=> Climbs(v, k, n) /\ Climbs(q, k, n) /\ Below(Ids(v), Ids(q))
  <2> HIDE DEF v
  <2> QED BY <1>1, IdsOfJoin, ClimbsOfJoin
<1>4. Below(Ids(v), Ids(q)) <=> Below(Ids(h), Ids(q)) /\ Below(Ids(us), Ids(q))
  <2> HIDE DEF v
  <2> QED BY <1>2 DEF Below
<1>5. Line(inc, us, q) = v \o q
  BY DEF Line
<1> HIDE DEF h, v
<1>6. Ids(Line(inc, us, q)) = Ids(h) \cup Ids(us) \cup Ids(q)
  BY <1>2, <1>3, <1>5
<1> QED BY <1>2, <1>3, <1>4, <1>5, <1>6 DEF h

\* The conjuncts of Flow, from the ranks in its three parts.
Ranked(I, J, K, n, up, most, cut) ==
  /\ Below(I, J) /\ Below(I, K) /\ Below(J, K)
  /\ up => n <= most /\ \A i \in I \cup J \cup K : i <= most
  /\ ~cut => /\ NoGap(I \cup J \cup K, n)
             /\ up => I \cup J \cup K = n + 1 .. most

Carried(inc, us, q, k, n, up, cut) ==
  /\ \A j \in 1 .. Len(inc) : IsData(inc[j])
  /\ Climbs(Heads(inc), k, n) /\ Climbs(us, k, n) /\ Climbs(q, k, n)
  /\ ~cut => InFrames(us) /\ (up => EndsWhole(us))

LEMMA FlowParts ==
  ASSUME NEW inc \in Seq(Message), NEW us \in Seq(Unit), NEW q \in Seq(Unit),
         NEW k, NEW n, NEW up, NEW most, NEW cut
  PROVE  /\ Flow(inc, us, q, k, n, up, most, cut) <=>
              /\ Carried(inc, us, q, k, n, up, cut)
              /\ Ranked(Ids(Heads(inc)), Ids(us), Ids(q), n, up, most, cut)
         /\ Ids(Heads(inc)) \in SUBSET Nat /\ Ids(us) \in SUBSET Nat
         /\ Ids(q) \in SUBSET Nat
<1> DEFINE all == Ids(Heads(inc)) \cup Ids(us) \cup Ids(q)
           apart == /\ Below(Ids(Heads(inc)), Ids(us))
                    /\ Below(Ids(Heads(inc)), Ids(q)) /\ Below(Ids(us), Ids(q))
           each == Climbs(Heads(inc), k, n) /\ Climbs(us, k, n) /\ Climbs(q, k, n)
           data == \A j \in 1 .. Len(inc) : IsData(inc[j])
<1>1. /\ Ids(Line(inc, us, q)) = all
      /\ Climbs(Line(inc, us, q), k, n) <=> each /\ apart
  BY LineParts
<1>2. Flow(inc, us, q, k, n, up, most, cut) <=>
        /\ data
        /\ Climbs(Line(inc, us, q), k, n)
        /\ up => n <= most /\ \A i \in Ids(Line(inc, us, q)) : i <= most
        /\ ~cut => /\ InFrames(us)
                   /\ NoGap(Ids(Line(inc, us, q)), n)
                   /\ up => EndsWhole(us) /\ Ids(Line(inc, us, q)) = n + 1 .. most
  BY DEF Flow, Line
<1>3. /\ Carried(inc, us, q, k, n, up, cut) <=>
           data /\ each /\ (~cut => InFrames(us) /\ (up => EndsWhole(us)))
      /\ Ranked(Ids(Heads(inc)), Ids(us), Ids(q), n, up, most, cut) <=>
           /\ apart
           /\ up => n <= most /\ \A i \in all : i <= most
           /\ ~cut => NoGap(all, n) /\ (up => all = n + 1 .. most)
  BY DEF Carried, Ranked
<1>4. /\ Ids(Heads(inc)) \in SUBSET Nat /\ Ids(us) \in SUBSET Nat
      /\ Ids(q) \in SUBSET Nat
  BY RanksAreNumbers, HeadsOfQueue
<1> HIDE DEF all, apart, each, data
<1> QED BY <1>1, <1>2, <1>3, <1>4

(***************************************************************************)
(* What the sender has not handed over is lost: it fails, or is gone.      *)
(***************************************************************************)
LEMMA FlowCutOff ==
  ASSUME NEW inc \in Seq(Message), NEW us \in Seq(Unit), NEW vs \in Seq(Unit),
         NEW q \in Seq(Unit), NEW k, NEW n \in Nat, NEW up, NEW most \in Nat,
         NEW cut, Flow(inc, us \o vs, q, k, n, up, most, cut), NEW most2 \in Nat
  PROVE  Flow(inc, us, <<>>, k, n, FALSE, most2, cut)
<1> DEFINE I == Ids(Heads(inc))
           J == Ids(us)
           L == Ids(vs)
           K == Ids(q)
<1>1. us \o vs \in Seq(Unit) /\ <<>> \in Seq(Unit) /\ Ids(<<>>) = {} /\ Climbs(<<>>, k, n)
  BY Joining, NothingQueued
<1>2. /\ Carried(inc, us \o vs, q, k, n, up, cut)
      /\ Ranked(I, Ids(us \o vs), K, n, up, most, cut)
      /\ I \in SUBSET Nat /\ K \in SUBSET Nat
  <2> DEFINE x == us \o vs
  <2>1. x \in Seq(Unit) /\ Flow(inc, x, q, k, n, up, most, cut)
    BY <1>1
  <2> HIDE DEF x
  <2>2. /\ Carried(inc, x, q, k, n, up, cut)
        /\ Ranked(I, Ids(x), K, n, up, most, cut)
        /\ I \in SUBSET Nat /\ K \in SUBSET Nat
    BY <2>1, FlowParts
  <2> QED BY <2>2 DEF x
<1>3. /\ Ids(us \o vs) = J \cup L /\ J \in SUBSET Nat /\ L \in SUBSET Nat
      /\ Climbs(us, k, n) /\ Below(J, L)
  BY <1>2, IdsOfJoin, ClimbsOfJoin, RanksAreNumbers DEF Carried
<1>4. Carried(inc, us, <<>>, k, n, FALSE, cut)
  BY <1>1, <1>2, <1>3, FramesOfPart DEF Carried
<1>5. Ranked(I, J, {}, n, FALSE, most2, cut)
  <2>1. Ranked(I, J \cup L, K, n, up, most, cut)
    BY <1>2, <1>3
  <2> HIDE DEF I, J, K, L
  <2>2. Below(I, J) /\ Below(I, L) /\ Below(I, K) /\ Below(J, K) /\ Below(L, K)
    BY <2>1 DEF Ranked, Below
  <2>3. ASSUME ~cut, NEW i \in I \cup J, NEW j \in n + 1 .. i
        PROVE  j \in I \cup J
    <3>1. j \in I \cup J \cup L \cup K
      BY <2>1, <2>3 DEF Ranked, NoGap
    <3>2. i \in Nat /\ j <= i
      BY <1>2, <1>3
    <3>3. j \notin L /\ j \notin K
      BY <1>2, <1>3, <2>2, <3>2 DEF Below
    <3> QED BY <3>1, <3>3
  <2> QED BY <2>2, <2>3 DEF Ranked, NoGap, Below
<1> DEFINE z == <<>>
<1>6. z \in Seq(Unit) /\ Ranked(I, J, Ids(z), n, FALSE, most2, cut)
  BY <1>1, <1>5
<1>7. Carried(inc, us, z, k, n, FALSE, cut)
  BY <1>4
<1> HIDE DEF z
<1>8. Flow(inc, us, z, k, n, FALSE, most2, cut)
  BY <1>6, <1>7, FlowParts
<1> QED BY <1>8 DEF z

(***************************************************************************)
(* A send of queued messages is cut: the rest of it never arrives.         *)
(***************************************************************************)
LEMMA FlowLost ==
  ASSUME NEW inc \in Seq(Message), NEW us \in Seq(Unit), NEW vs \in Seq(Unit),
         NEW q \in Seq(Unit), NEW k, NEW n \in Nat, NEW up, NEW most \in Nat,
         NEW cut, Flow(inc, us \o vs, q, k, n, up, most, cut)
  PROVE  Flow(inc, us, q, k, n, up, most, TRUE)
<1> DEFINE I == Ids(Heads(inc))
           J == Ids(us)
           L == Ids(vs)
           K == Ids(q)
<1>1. us \o vs \in Seq(Unit)
  BY Joining
<1>2. /\ Carried(inc, us \o vs, q, k, n, up, cut)
      /\ Ranked(I, Ids(us \o vs), K, n, up, most, cut)
      /\ I \in SUBSET Nat /\ K \in SUBSET Nat
  <2> DEFINE x == us \o vs
  <2>1. x \in Seq(Unit) /\ Flow(inc, x, q, k, n, up, most, cut)
    BY <1>1
  <2> HIDE DEF x
  <2>2. /\ Carried(inc, x, q, k, n, up, cut)
        /\ Ranked(I, Ids(x), K, n, up, most, cut)
        /\ I \in SUBSET Nat /\ K \in SUBSET Nat
    BY <2>1, FlowParts
  <2> QED BY <2>2 DEF x
<1>3. /\ Ids(us \o vs) = J \cup L /\ J \in SUBSET Nat /\ L \in SUBSET Nat
      /\ Climbs(us, k, n) /\ Below(J, L)
  BY <1>2, IdsOfJoin, ClimbsOfJoin, RanksAreNumbers DEF Carried
<1>4. Carried(inc, us, q, k, n, up, TRUE)
  BY <1>2, <1>3 DEF Carried
<1>5. Ranked(I, J, K, n, up, most, TRUE)
  <2>1. Ranked(I, J \cup L, K, n, up, most, cut)
    BY <1>2, <1>3
  <2> HIDE DEF I, J, K, L
  <2> QED BY <2>1 DEF Ranked, Below
<1> QED BY <1>4, <1>5, FlowParts

(***************************************************************************)
(* The owner of the sender queues a message, or a health message is due.   *)
(***************************************************************************)
LEMMA FlowQueued ==
  ASSUME NEW inc \in Seq(Message), NEW us \in Seq(Unit), NEW q \in Seq(Unit),
         NEW k, NEW n \in Nat, NEW most \in Nat, NEW cut,
         Flow(inc, us, q, k, n, TRUE, most, cut),
         NEW m \in Message, NEW now \in Nat,
         \/ IsData(m) /\ m.conn = k /\ m.id = most + 1 /\ now = most + 1
         \/ ~IsData(m) /\ now = most
  PROVE  Flow(inc, us, q \o Lead(m), k, n, TRUE, now, cut)
<1> DEFINE I == Ids(Heads(inc))
           J == Ids(us)
           K == Ids(q)
           L == Ids(Lead(m))
<1>1. m \in Wire /\ Lead(m) \in Seq(Unit) /\ q \o Lead(m) \in Seq(Unit)
  BY LeadIsUnits, Joining DEF Wire
<1>2. /\ Carried(inc, us, q, k, n, TRUE, cut) /\ Ranked(I, J, K, n, TRUE, most, cut)
      /\ I \in SUBSET Nat /\ J \in SUBSET Nat /\ K \in SUBSET Nat
  BY FlowParts
<1>3. L = (IF IsData(m) THEN {most + 1} ELSE {}) /\ Climbs(Lead(m), k, n)
  <2>1. n < most + 1
    BY <1>2 DEF Ranked
  <2> QED BY <1>1, <2>1, OneMessage
<1>4. /\ Ids(q \o Lead(m)) = K \cup L
      /\ Below(K, L) => Climbs(q \o Lead(m), k, n)
  BY <1>1, <1>2, <1>3, IdsOfJoin, ClimbsOfJoin DEF Carried
<1> HIDE DEF I, J, K, L, IsData
<1>5. Below(I, L) /\ Below(J, L) /\ Below(K, L)
  BY <1>2, <1>3 DEF Ranked, Below
<1>6. Ranked(I, J, K \cup L, n, TRUE, now, cut)
  <2>1. CASE IsData(m)
    <3>1. L = {most + 1} /\ now = most + 1 /\ n <= most
      BY <1>2, <1>3, <2>1 DEF Ranked
    <3>2. Below(I, J) /\ Below(I, K \cup L) /\ Below(J, K \cup L)
      BY <1>2, <1>5 DEF Ranked, Below
    <3>3. \A i \in I \cup J \cup (K \cup L) : i <= now
      BY <1>2, <3>1 DEF Ranked
    <3>4. ~cut => I \cup J \cup (K \cup L) = n + 1 .. now
      <4>1. n + 1 .. most + 1 = (n + 1 .. most) \cup {most + 1}
        BY <3>1
      <4>2. ~cut => I \cup J \cup K = n + 1 .. most
        BY <1>2 DEF Ranked
      <4> QED BY <3>1, <4>1, <4>2
    <3>5. ~cut => NoGap(I \cup J \cup (K \cup L), n)
      BY <3>4 DEF NoGap
    <3> QED BY <3>1, <3>2, <3>3, <3>4, <3>5 DEF Ranked
  <2>2. CASE ~IsData(m)
    <3>1. K \cup L = K /\ now = most
      BY <1>3, <2>2
    <3> QED BY <1>2, <3>1
  <2> QED BY <2>1, <2>2
<1>7. Carried(inc, us, q \o Lead(m), k, n, TRUE, cut)
  BY <1>2, <1>4, <1>5 DEF Carried
<1> QED BY <1>1, <1>4, <1>6, <1>7, FlowParts DEF I, J, K, L

(***************************************************************************)
(* The sender puts the frame of its oldest message, or of one of the       *)
(* handshake, behind what is under way.                                    *)
(***************************************************************************)
LEMMA FlowSaid ==
  ASSUME NEW inc \in Seq(Message), NEW us \in Seq(Unit), NEW q \in Seq(Unit),
         NEW k, NEW n \in Nat, NEW most \in Nat, NEW cut,
         Flow(inc, us, q, k, n, TRUE, most, cut), NEW m \in Wire, ~IsData(m)
  PROVE  Flow(inc, us \o Frame(m), q, k, n, TRUE, most, cut)
<1> DEFINE x == us \o Frame(m)
           J == Ids(us)
<1>1. Frame(m) \in Seq(Unit) /\ x \in Seq(Unit)
  BY FrameIsUnits, Joining
<1>2. /\ Carried(inc, us, q, k, n, TRUE, cut)
      /\ Ranked(Ids(Heads(inc)), Ids(us), Ids(q), n, TRUE, most, cut)
  BY FlowParts
<1>3. Ids(Frame(m)) = {} /\ Climbs(Frame(m), k, n)
  BY OneMessage
<1>4. Ids(x) = J /\ Climbs(x, k, n)
  <2>1. Below(J, {}) /\ Climbs(us, k, n)
    BY <1>2 DEF Below, Carried
  <2>2. /\ Ids(x) = J \cup Ids(Frame(m))
        /\ Climbs(x, k, n) <=>
             Climbs(us, k, n) /\ Climbs(Frame(m), k, n) /\ Below(J, Ids(Frame(m)))
    BY <1>1, IdsOfJoin, ClimbsOfJoin
  <2> QED BY <1>3, <2>1, <2>2
<1>5. ~cut => InFrames(x) /\ EndsWhole(x)
  BY <1>1, <1>2, FramesOfJoin, FrameIsWhole DEF Carried
<1>6. Carried(inc, x, q, k, n, TRUE, cut)
  BY <1>2, <1>4, <1>5 DEF Carried
<1>7. Ranked(Ids(Heads(inc)), Ids(x), Ids(q), n, TRUE, most, cut)
  BY <1>2, <1>4
<1> HIDE DEF x
<1>8. Flow(inc, x, q, k, n, TRUE, most, cut)
  BY <1>1, <1>6, <1>7, FlowParts
<1> QED BY <1>8 DEF x

LEMMA FlowSent ==
  ASSUME NEW inc \in Seq(Message), NEW us \in Seq(Unit), NEW q \in Seq(Unit), NEW m \in Wire,
         NEW k, NEW n \in Nat, NEW most \in Nat, NEW cut,
         Flow(inc, us, Lead(m) \o q, k, n, TRUE, most, cut)
  PROVE  Flow(inc, us \o Frame(m), q, k, n, TRUE, most, cut)
<1> DEFINE x == us \o Frame(m)
           y == Lead(m) \o q
           I == Ids(Heads(inc))
           J == Ids(us)
           K == Ids(q)
           L == Ids(Lead(m))
<1>1. Frame(m) \in Seq(Unit) /\ Lead(m) \in Seq(Unit) /\ x \in Seq(Unit) /\ y \in Seq(Unit)
  BY FrameIsUnits, LeadIsUnits, Joining
<1>2. Carried(inc, us, y, k, n, TRUE, cut) /\ Ranked(I, J, Ids(y), n, TRUE, most, cut)
  <2>1. Flow(inc, us, y, k, n, TRUE, most, cut)
    OBVIOUS
  <2> HIDE DEF y
  <2> QED BY <1>1, <2>1, FlowParts
<1>3. /\ Ids(y) = L \cup K
      /\ Climbs(Lead(m), k, n) /\ Climbs(q, k, n) /\ Below(L, K)
  BY <1>1, <1>2, IdsOfJoin, ClimbsOfJoin DEF Carried
<1>4. Ids(Frame(m)) = L /\ Climbs(Frame(m), k, n)
  BY <1>3, OneMessage
<1>5. Ranked(I, J, L \cup K, n, TRUE, most, cut)
  BY <1>2, <1>3
<1>6. Ids(x) = J \cup L /\ Climbs(x, k, n)
  <2>1. Below(J, L)
    BY <1>5 DEF Ranked, Below
  <2> QED BY <1>1, <1>2, <1>4, <2>1, IdsOfJoin, ClimbsOfJoin DEF Carried
<1>7. ~cut => InFrames(x) /\ EndsWhole(x)
  BY <1>1, <1>2, FramesOfJoin, FrameIsWhole DEF Carried
<1>8. Carried(inc, x, q, k, n, TRUE, cut)
  BY <1>2, <1>3, <1>6, <1>7 DEF Carried
<1>9. Ranked(I, J \cup L, K, n, TRUE, most, cut)
  <2> HIDE DEF I, J, K, L
  <2>1. I \cup (J \cup L) \cup K = I \cup J \cup (L \cup K)
    OBVIOUS
  <2>2. Below(I, J \cup L) /\ Below(I, K) /\ Below(J \cup L, K)
    BY <1>3, <1>5 DEF Ranked, Below
  <2> QED BY <1>5, <2>1, <2>2 DEF Ranked
<1>10. Ranked(I, Ids(x), K, n, TRUE, most, cut)
  BY <1>6, <1>9
<1> HIDE DEF x
<1>11. Flow(inc, x, q, k, n, TRUE, most, cut)
  BY <1>1, <1>8, <1>10, FlowParts
<1> QED BY <1>11 DEF x

(***************************************************************************)
(* The receiver reads the first frame: a message into its queue, a hello   *)
(* or a health message into nothing.                                       *)
(***************************************************************************)
LEMMA FlowRead ==
  ASSUME NEW inc \in Seq(Message), NEW vs \in Seq(Unit), NEW q \in Seq(Unit), NEW m \in Wire,
         NEW k, NEW n \in Nat, NEW up, NEW most \in Nat, NEW cut,
         Flow(inc, Frame(m) \o vs, q, k, n, up, most, cut)
  PROVE  /\ IsData(m) => Flow(Append(inc, m), vs, q, k, n, up, most, cut)
         /\ ~IsData(m) => Flow(inc, vs, q, k, n, up, most, cut)
<1> DEFINE x == Frame(m) \o vs
           I == Ids(Heads(inc))
           J == Ids(vs)
           K == Ids(q)
           L == Ids(Frame(m))
<1>1. Frame(m) \in Seq(Unit) /\ Lead(m) \in Seq(Unit) /\ x \in Seq(Unit)
  BY FrameIsUnits, LeadIsUnits, Joining
<1>2. Carried(inc, x, q, k, n, up, cut) /\ Ranked(I, Ids(x), K, n, up, most, cut)
  <2>1. Flow(inc, x, q, k, n, up, most, cut)
    OBVIOUS
  <2> HIDE DEF x
  <2> QED BY <1>1, <2>1, FlowParts
<1>3. /\ Ids(x) = L \cup J
      /\ Climbs(Frame(m), k, n) /\ Climbs(vs, k, n) /\ Below(L, J)
  BY <1>1, <1>2, IdsOfJoin, ClimbsOfJoin DEF Carried
<1>4. L = (IF IsData(m) THEN {m.id} ELSE {}) /\ Ids(Lead(m)) = L /\ Climbs(Lead(m), k, n)
  BY <1>3, OneMessage
<1>5. Ranked(I, L \cup J, K, n, up, most, cut)
  BY <1>2, <1>3
<1>6. ~cut => InFrames(vs) /\ (up => EndsWhole(vs))
  BY <1>2, FramesOfRest DEF Carried
<1>7. ASSUME ~IsData(m)
      PROVE  Flow(inc, vs, q, k, n, up, most, cut)
  <2>1. L = {}
    BY <1>4, <1>7
  <2>2. L \cup J = J
    BY <2>1
  <2>3. Ranked(I, J, K, n, up, most, cut)
    BY <1>5, <2>2
  <2>4. Carried(inc, vs, q, k, n, up, cut)
    BY <1>2, <1>3, <1>6 DEF Carried
  <2> QED BY <2>3, <2>4, FlowParts
<1>8. ASSUME IsData(m)
      PROVE  Flow(Append(inc, m), vs, q, k, n, up, most, cut)
  <2> DEFINE a == Append(inc, m)
  <2>1. m \in Message /\ a \in Seq(Message) /\ Heads(inc) \in Seq(Unit)
        /\ Heads(a) = Heads(inc) \o Lead(m)
    BY <1>8, RankOfData, HeadsOfLonger, HeadsOfQueue, AppendProperties
  <2>2. \A j \in 1 .. Len(a) : IsData(a[j])
    <3>1. Len(a) = Len(inc) + 1 /\ a[Len(inc) + 1] = m /\ Len(inc) \in Nat
          /\ \A j \in 1 .. Len(inc) : a[j] = inc[j]
      BY <2>1, AppendProperties
    <3>2. \A j \in 1 .. Len(inc) + 1 : j \in 1 .. Len(inc) \/ j = Len(inc) + 1
      BY <3>1
    <3>3. \A j \in 1 .. Len(inc) : IsData(inc[j])
      BY <1>2 DEF Carried
    <3> HIDE DEF a
    <3> QED BY <1>8, <3>1, <3>2, <3>3
  <2>3. Ids(Heads(a)) = I \cup L /\ Climbs(Heads(a), k, n)
    <3>1. Below(I, L)
      BY <1>5 DEF Ranked, Below
    <3>2. Climbs(Heads(inc), k, n)
      BY <1>2 DEF Carried
    <3>3. /\ Ids(Heads(inc) \o Lead(m)) = I \cup Ids(Lead(m))
          /\ Climbs(Heads(inc) \o Lead(m), k, n) <=>
               /\ Climbs(Heads(inc), k, n) /\ Climbs(Lead(m), k, n)
               /\ Below(I, Ids(Lead(m)))
      BY <1>1, <2>1, IdsOfJoin, ClimbsOfJoin
    <3> QED BY <1>4, <2>1, <3>1, <3>2, <3>3
  <2>4. Carried(a, vs, q, k, n, up, cut)
    BY <1>2, <1>3, <1>6, <2>2, <2>3 DEF Carried
  <2>5. Ranked(I \cup L, J, K, n, up, most, cut)
    <3> HIDE DEF I, J, K, L
    <3>1. (I \cup L) \cup J \cup K = I \cup (L \cup J) \cup K
      OBVIOUS
    <3>2. Below(I \cup L, J) /\ Below(I \cup L, K) /\ Below(J, K)
      BY <1>3, <1>5 DEF Ranked, Below
    <3> QED BY <1>5, <3>1, <3>2 DEF Ranked
  <2>6. Ranked(Ids(Heads(a)), J, K, n, up, most, cut)
    BY <2>3, <2>5
  <2> HIDE DEF a
  <2>7. Flow(a, vs, q, k, n, up, most, cut)
    BY <2>1, <2>4, <2>6, FlowParts
  <2> QED BY <2>7 DEF a
<1> QED BY <1>7, <1>8

(***************************************************************************)
(* The owner of the receiver takes the oldest message.                     *)
(***************************************************************************)
LEMMA FlowTaken ==
  ASSUME NEW inc \in Seq(Message), inc # <<>>, NEW us \in Seq(Unit), NEW q \in Seq(Unit),
         NEW k, NEW n \in Nat, NEW up, NEW most \in Nat, NEW cut,
         Flow(inc, us, q, k, n, up, most, cut)
  PROVE  Flow(Tail(inc), us, q, k, n + 1, up, most, cut)
<1> DEFINE m == Head(inc)
           r == Tail(inc)
           I == Ids(Heads(r))
           J == Ids(us)
           K == Ids(q)
<1>1. /\ m \in Message /\ r \in Seq(Message) /\ m = inc[1] /\ 1 \in 1 .. Len(inc)
      /\ \A j \in 1 .. Len(r) : j + 1 \in 1 .. Len(inc) /\ r[j] = inc[j + 1]
      /\ Heads(inc) = Lead(m) \o Heads(r)
  BY HeadsOfRest
<1>2. /\ Carried(inc, us, q, k, n, up, cut)
      /\ Ranked(Ids(Heads(inc)), J, K, n, up, most, cut)
  BY FlowParts
<1>3. m \in Wire /\ Lead(m) \in Seq(Unit) /\ Heads(r) \in Seq(Unit)
  BY <1>1, LeadIsUnits, HeadsOfQueue DEF Wire
<1>4. IsData(m) /\ m.id \in Nat
  BY <1>1, <1>2, <1>3, RankOfData DEF Carried
<1>5. Ids(Lead(m)) = {m.id} /\ (Climbs(Lead(m), k, n) <=> m.conn = k /\ m.id > n)
  BY <1>3, <1>4, OneMessage
<1>6. /\ Ids(Heads(inc)) = {m.id} \cup I
      /\ m.id > n /\ Climbs(Heads(r), k, n) /\ Below({m.id}, I)
  <2>1. Climbs(Lead(m) \o Heads(r), k, n)
    BY <1>1, <1>2 DEF Carried
  <2>2. /\ Ids(Lead(m) \o Heads(r)) = Ids(Lead(m)) \cup I
        /\ Climbs(Lead(m), k, n) /\ Climbs(Heads(r), k, n) /\ Below(Ids(Lead(m)), I)
    BY <1>3, <2>1, IdsOfJoin, ClimbsOfJoin
  <2> QED BY <1>1, <1>5, <2>2
<1>7. Ranked({m.id} \cup I, J, K, n, up, most, cut)
  BY <1>2, <1>6
<1>8. I \in SUBSET Nat /\ J \in SUBSET Nat /\ K \in SUBSET Nat
  BY <1>1, FlowParts
<1>9. \A j \in I \cup J \cup K : j > m.id /\ j > n + 1
  <2> HIDE DEF I, J, K, m
  <2>1. \A j \in I \cup J \cup K : j > m.id
    BY <1>4, <1>6, <1>7, <1>8 DEF Ranked, Below
  <2> QED BY <1>4, <1>6, <1>8, <2>1
<1>10. ASSUME NEW s \in Seq(Unit), Climbs(s, k, n), Ids(s) \in SUBSET (I \cup J \cup K)
       PROVE  Climbs(s, k, n + 1)
  <2>1. \A p \in Starts(s) : s[p].m.id > n + 1
    BY <1>9, <1>10, RanksAreNumbers
  <2> QED BY <1>10, <2>1 DEF Climbs
<1>11. Carried(r, us, q, k, n + 1, up, cut)
  <2>1. \A j \in 1 .. Len(r) : IsData(r[j])
    BY <1>1, <1>2 DEF Carried
  <2>2. Climbs(Heads(r), k, n + 1) /\ Climbs(us, k, n + 1) /\ Climbs(q, k, n + 1)
    BY <1>2, <1>3, <1>6, <1>10 DEF Carried
  <2> QED BY <1>2, <2>1, <2>2 DEF Carried
<1>12. Ranked(I, J, K, n + 1, up, most, cut)
  <2> DEFINE d == m.id
             A == I \cup J \cup K
  <2>1. Ranked({d} \cup I, J, K, n, up, most, cut) /\ d \in Nat /\ d > n
    BY <1>4, <1>6, <1>7
  <2>2. \A j \in A : j > d /\ j > n + 1
    BY <1>9
  <2>3. ({d} \cup I) \cup J \cup K = {d} \cup A
    OBVIOUS
  <2>4. A \in SUBSET Nat
    BY <1>8
  <2> HIDE DEF m, d, I, J, K
  <2>5. Below(I, J) /\ Below(I, K) /\ Below(J, K)
    BY <2>1 DEF Ranked, Below
  <2>6. up => n + 1 <= most /\ \A i \in A : i <= most
    <3>1. up => d <= most
      BY <2>1 DEF Ranked
    <3>2. up => \A i \in A : i <= most
      BY <2>1 DEF Ranked
    <3> QED BY <2>1, <3>1, <3>2
  <2> HIDE DEF A
  <2>7. ASSUME ~cut
        PROVE  NoGap(A, n + 1) /\ (up => A = (n + 1) + 1 .. most)
    <3>1. NoGap({d} \cup A, n) /\ (up => {d} \cup A = n + 1 .. most)
      BY <2>1, <2>3, <2>7 DEF Ranked
    <3>2. n + 1 \in {d} \cup A
      BY <2>1, <3>1 DEF NoGap
    <3>3. d = n + 1
      BY <2>2, <3>2
    <3>4. NoGap(A, n + 1)
      <4> SUFFICES ASSUME NEW i \in A, NEW j \in (n + 1) + 1 .. i
                   PROVE  j \in A
        BY DEF NoGap
      <4>1. j \in n + 1 .. i /\ j # d
        BY <2>4, <3>3
      <4> QED BY <3>1, <4>1 DEF NoGap
    <3>5. ASSUME up
          PROVE  A = (n + 1) + 1 .. most
      <4>1. {d} \cup A = n + 1 .. most /\ d \notin A
        BY <2>2, <2>4, <3>1, <3>5
      <4>2. A = (n + 1 .. most) \ {n + 1}
        BY <3>3, <4>1
      <4>3. (n + 1 .. most) \ {n + 1} = (n + 1) + 1 .. most
        OBVIOUS
      <4> QED BY <4>2, <4>3
    <3> QED BY <3>4, <3>5
  <2> QED BY <2>5, <2>6, <2>7 DEF Ranked, A
<1> HIDE DEF r
<1>13. r \in Seq(Message)
  BY <1>1
<1>14. Flow(r, us, q, k, n + 1, up, most, cut)
  <2> DEFINE n1 == n + 1
  <2>1. /\ Carried(r, us, q, k, n1, up, cut)
        /\ Ranked(Ids(Heads(r)), Ids(us), Ids(q), n1, up, most, cut)
    BY <1>11, <1>12
  <2> HIDE DEF n1
  <2>2. Flow(r, us, q, k, n1, up, most, cut)
    BY <1>13, <2>1, FlowParts
  <2> QED BY <2>2 DEF n1
<1> QED BY <1>14 DEF r

(***************************************************************************)
(* A connection begins with nothing but what the sender has queued.        *)
(***************************************************************************)
LEMMA FlowBegins ==
  ASSUME NEW q \in Seq(Unit), NEW k, NEW up, NEW most \in Nat, NEW cut,
         up => Climbs(q, k, 0) /\ Ids(q) = 1 .. most,
         ~up => q = <<>>
  PROVE  Flow(<<>>, <<>>, q, k, 0, up, most, cut)
<1> DEFINE z == <<>>
           K == Ids(q)
<1>1. /\ z \in Seq(Message) /\ z \in Seq(Unit) /\ Heads(z) = z /\ Ids(z) = {} /\ Len(z) = 0
      /\ Climbs(z, k, 0) /\ InFrames(z) /\ EndsWhole(z)
  BY NothingQueued, EmptySeq
<1>2. Climbs(q, k, 0)
  BY <1>1
<1>3. K = {} \/ K = 1 .. most
  BY <1>1
<1> HIDE DEF z, K
<1>4. Carried(z, z, q, k, 0, up, cut)
  BY <1>1, <1>2 DEF Carried
<1>5. Ranked({}, {}, K, 0, up, most, cut)
  <2>1. up => K = 1 .. most
    BY DEF K
  <2>2. Below({}, {}) /\ Below({}, K) /\ NoGap(K, 0)
    BY <1>3 DEF Below, NoGap
  <2>3. {} \cup {} \cup K = K /\ 0 + 1 = 1
    OBVIOUS
  <2> QED BY <2>1, <2>2, <2>3 DEF Ranked
<1>6. Ranked(Ids(Heads(z)), Ids(z), Ids(q), 0, up, most, cut)
  BY <1>1, <1>5 DEF K
<1>7. Flow(z, z, q, k, 0, up, most, cut)
  BY <1>1, <1>4, <1>6, FlowParts
<1> QED BY <1>7 DEF z

-----------------------------------------------------------------------------
(***************************************************************************)
(* What an end may hear, when the line to it is cut short or goes on.      *)
(***************************************************************************)
LEMMA HearsPart ==
  ASSUME NEW us \in Seq(Unit), NEW vs \in Seq(Unit), NEW st, NEW up, NEW answered,
         Hears(st, us \o vs, up, answered), NEW up2, NEW answered2,
         st = "handshake_hello_sent" /\ up2 /\ answered2 => us # <<>>
  PROVE  Hears(st, us, up2, answered2)
<1> DEFINE ws == us \o vs
<1>1. /\ Len(us) \in Nat /\ Len(vs) \in Nat /\ Len(ws) = Len(us) + Len(vs)
      /\ \A i \in 1 .. Len(us) : ws[i] = us[i]
  BY Joining
<1>2. \A i \in 1 .. Len(us) : i \in 1 .. Len(ws)
  BY <1>1
<1>3. us # <<>> => 1 \in 1 .. Len(us) /\ ws # <<>>
  BY <1>1, EmptySeq, ConcatEqualIffEmpty
<1>4. Len(us) <= Len(ws)
  BY <1>1
<1>5. Hears(st, ws, up, answered)
  OBVIOUS
<1> HIDE DEF ws
<1>6. st = "handshake_hello_scheduled" => us = <<>>
  BY <1>3, <1>5 DEF Hears
<1>7. st = "handshake_not_started" =>
        /\ Len(us) <= HelloUnits
        /\ \A p \in 1 .. Len(us) : us[p] = [m |-> Packet, i |-> p]
  <2>1. st = "handshake_not_started" => Len(ws) <= HelloUnits
    BY <1>5 DEF Hears
  <2>2. Len(us) \in Nat /\ Len(ws) \in Nat
    BY <1>1
  <2>3. st = "handshake_not_started" => Len(us) <= HelloUnits
    BY <1>4, <2>1, <2>2
  <2> QED BY <1>1, <1>2, <1>5, <2>3 DEF Hears
<1>8. st = "handshake_hello_sent" =>
        /\ \A p \in 1 .. Len(us) :
             us[p].m # Packet /\ (us[p].m = HelloMsg => us[p].i = p /\ p <= HeaderUnits)
        /\ us # <<>> => us[1].m = HelloMsg
  BY <1>1, <1>2, <1>3, <1>5 DEF Hears
<1>9. st = "ready" => \A p \in 1 .. Len(us) : us[p].m \notin {Packet, HelloMsg}
  BY <1>1, <1>2, <1>5 DEF Hears
<1> QED BY <1>6, <1>7, <1>8, <1>9 DEF Hears

LEMMA HearsFrame ==
  ASSUME NEW us \in Seq(Unit), NEW m \in Message, m.op \in {"data", "health"},
         NEW st \in {"handshake_hello_sent", "ready", "error", "uninitialized"},
         NEW up, NEW answered,
         st = "handshake_hello_sent" => us # <<>>,
         Hears(st, us, up, answered)
  PROVE  Hears(st, us \o Frame(m), up, answered)
<1> DEFINE f == Frame(m)
           ws == us \o f
<1>1. m \in Wire /\ m # Packet /\ m # HelloMsg
  BY DEF Wire, Packet, HelloMsg
<1>2. f \in Seq(Unit) /\ \A i \in 1 .. Len(f) : f[i].m = m
  <2>1. \A i \in 1 .. Len(f) : f[i].m = m
    BY <1>1, FrameIsWhole
  <2>2. f \in Seq(Unit)
    BY <1>1, FrameIsUnits
  <2> QED BY <2>1, <2>2
<1>3. /\ Len(us) \in Nat /\ ws \in Seq(Unit)
      /\ \A i \in 1 .. Len(us) : ws[i] = us[i]
      /\ \A i \in 1 .. Len(ws) :
           \/ i \in 1 .. Len(us)
           \/ (i - Len(us) \in 1 .. Len(f) /\ ws[i] = f[i - Len(us)])
  BY <1>2, Joining
<1>4. us # <<>> => 1 \in 1 .. Len(us) /\ ws # <<>>
  BY <1>2, <1>3, EmptySeq, ConcatEqualIffEmpty
<1> HIDE DEF f, ws
<1>5. \A i \in 1 .. Len(ws) : (i \in 1 .. Len(us) /\ ws[i] = us[i]) \/ ws[i].m = m
  BY <1>2, <1>3
<1>6. st = "handshake_hello_sent" =>
        /\ \A p \in 1 .. Len(ws) :
             ws[p].m # Packet /\ (ws[p].m = HelloMsg => ws[p].i = p /\ p <= HeaderUnits)
        /\ ws # <<>> /\ ws[1].m = HelloMsg
  BY <1>1, <1>3, <1>4, <1>5 DEF Hears
<1>7. st = "ready" => \A p \in 1 .. Len(ws) : ws[p].m \notin {Packet, HelloMsg}
  BY <1>1, <1>5 DEF Hears
<1> QED BY <1>6, <1>7 DEF Hears, ws, f

LEMMA HearsRest ==
  ASSUME NEW us \in Seq(Unit), NEW vs \in Seq(Unit), NEW up, NEW answered,
         Hears("ready", us \o vs, up, answered)
  PROVE  Hears("ready", vs, up, answered)
<1> DEFINE ws == us \o vs
<1>1. /\ Len(us) \in Nat /\ Len(vs) \in Nat /\ Len(ws) = Len(us) + Len(vs)
      /\ \A i \in 1 .. Len(vs) : ws[Len(us) + i] = vs[i]
  BY Joining
<1>2. \A i \in 1 .. Len(vs) : Len(us) + i \in 1 .. Len(ws)
  BY <1>1
<1>3. Hears("ready", ws, up, answered)
  OBVIOUS
<1> HIDE DEF ws
<1> QED BY <1>1, <1>2, <1>3 DEF Hears

-----------------------------------------------------------------------------
(***************************************************************************)
(* What a direction is made of.                                            *)
(***************************************************************************)

\* What has reached the kernel and what the sender still holds.
Landed(e) == inStream[e] \o net[conn[e]][e]
Unsent(e) == IF Served(e) THEN outStream[Other(e)] ELSE <<>>

LEMMA LineTypes ==
  ASSUME TypeOK, NEW e \in End
  PROVE  /\ Other(e) \in End /\ Other(e) # e /\ Other(Other(e)) = e /\ End = {e, Other(e)}
         /\ incoming[e] \in Seq(Message) /\ outgoing[e] \in Seq(Message)
         /\ Queue(e) \in Seq(Unit) /\ Unsent(e) \in Seq(Unit)
         /\ taken[e] \in Nat /\ queued[e] \in Nat /\ queued[Other(e)] \in Nat
         /\ UnitsTo(e) = Landed(e) \o Unsent(e)
         /\ conn[e] # 0 => /\ conn[e] \in Conns
                           /\ inStream[e] \in Seq(Unit) /\ net[conn[e]][e] \in Seq(Unit)
                           /\ Landed(e) \in Seq(Unit) /\ UnitsTo(e) \in Seq(Unit)
<1>1. Other(e) \in End /\ Other(e) # e /\ Other(Other(e)) = e /\ End = {e, Other(e)}
  BY DEF Other, End
<1>2. /\ \A f \in End : incoming[f] \in Seq(Message) /\ outgoing[f] \in Seq(Message)
      /\ \A f \in End : taken[f] \in Nat /\ queued[f] \in Nat
  BY DEF TypeOK
<1>3. Queue(e) \in Seq(Unit)
  BY <1>1, <1>2, HeadsOfQueue, EmptySeq DEF Queue
<1>4. Unsent(e) \in Seq(Unit)
  <2>1. outStream[Other(e)] \in Seq(Unit)
    BY <1>1, StreamTypes
  <2> QED BY <2>1, EmptySeq DEF Unsent
<1>5. UnitsTo(e) = Landed(e) \o Unsent(e)
  BY DEF UnitsTo, Landed, Unsent
<1>6. ASSUME conn[e] # 0
      PROVE  /\ conn[e] \in Conns
             /\ inStream[e] \in Seq(Unit) /\ net[conn[e]][e] \in Seq(Unit)
             /\ Landed(e) \in Seq(Unit) /\ UnitsTo(e) \in Seq(Unit)
  <2>1. conn[e] \in Conns
    BY <1>6, ConnOfSocket
  <2>2. inStream[e] \in Seq(Unit) /\ net[conn[e]][e] \in Seq(Unit)
    BY <2>1, StreamTypes, NetTypes
  <2>3. Landed(e) \in Seq(Unit)
    BY <2>2, Joining DEF Landed
  <2> QED BY <1>4, <1>5, <2>1, <2>2, <2>3, Joining
<1> QED BY <1>1, <1>2, <1>3, <1>4, <1>5, <1>6

LEMMA FlowCutMore ==
  ASSUME NEW inc \in Seq(Message), NEW us \in Seq(Unit), NEW q \in Seq(Unit), NEW k,
         NEW n \in Nat, NEW up, NEW most \in Nat, NEW D, NEW E, D \subseteq E,
         Flow(inc, us, q, k, n, up, most, k \in D)
  PROVE  Flow(inc, us, q, k, n, up, most, k \in E)
<1>1. CASE (k \in D) = (k \in E)
  BY <1>1
<1>2. CASE k \in E
  <2>1. <<>> \in Seq(Unit) /\ us \o <<>> = us
    BY EmptySeq, ConcatEmptySeq
  <2>2. Flow(inc, us \o <<>>, q, k, n, up, most, k \in D)
    BY <2>1
  <2>3. Flow(inc, us, q, k, n, up, most, TRUE)
    BY <2>1, <2>2, FlowLost
  <2>4. (k \in E) = TRUE
    BY <1>2
  <2> QED BY <2>3, <2>4
<1> QED BY <1>1, <1>2

\* The part of a step that a direction sees, when nothing of it moves.
Untouched(e) ==
  /\ conn'[e] = conn[e] /\ incoming'[e] = incoming[e] /\ taken'[e] = taken[e]
  /\ status'[e] = status[e]
  /\ err'[e] = err[e]

LEMMA DirectionKept ==
  ASSUME TypeOK, NEW e \in End, Direction(e), Untouched(e), dropped \subseteq dropped',
         UnitsTo(e)' = UnitsTo(e), Queue(e)' = Queue(e), Served(e)' = Served(e),
         queued'[Other(e)] = queued[Other(e)],
         status[e] = "handshake_hello_sent" /\ status'[Other(e)] = "ready"
           => status[Other(e)] = "ready"
  PROVE  Direction(e)'
<1> SUFFICES ASSUME conn'[e] # 0, Healthy(e)'
             PROVE  /\ Flow(incoming[e], UnitsTo(e), Queue(e), conn[e], taken[e], Served(e),
                            queued[Other(e)], conn[e] \in dropped')
                    /\ Hears(status[e], UnitsTo(e), Served(e), status'[Other(e)] = "ready")
  BY DEF Direction, Untouched
<1>1. /\ conn[e] # 0 /\ Healthy(e)
      /\ Flow(incoming[e], UnitsTo(e), Queue(e), conn[e], taken[e], Served(e),
              queued[Other(e)], conn[e] \in dropped)
      /\ Hears(status[e], UnitsTo(e), Served(e), status[Other(e)] = "ready")
  BY DEF Direction, Untouched, Healthy
<1>2. /\ incoming[e] \in Seq(Message) /\ UnitsTo(e) \in Seq(Unit) /\ Queue(e) \in Seq(Unit)
      /\ taken[e] \in Nat /\ queued[Other(e)] \in Nat
  BY <1>1, LineTypes
<1>3. Flow(incoming[e], UnitsTo(e), Queue(e), conn[e], taken[e], Served(e), queued[Other(e)],
           conn[e] \in dropped')
  BY <1>1, <1>2, FlowCutMore
<1>4. Hears(status[e], UnitsTo(e), Served(e), status'[Other(e)] = "ready")
  BY <1>1 DEF Hears
<1> QED BY <1>3, <1>4

LEMMA DirectionCut ==
  ASSUME TypeOK, NEW e \in End, Direction(e), Untouched(e), dropped \subseteq dropped',
         NEW us \in Seq(Unit), NEW vs \in Seq(Unit),
         UnitsTo(e) = us \o vs, UnitsTo(e)' = us, ~Served(e)', queued'[Other(e)] \in Nat
  PROVE  Direction(e)'
<1> SUFFICES ASSUME conn[e] # 0, Healthy(e)
             PROVE  /\ Flow(incoming[e], us, <<>>, conn[e], taken[e], FALSE,
                            queued'[Other(e)], conn[e] \in dropped')
                    /\ Hears(status[e], us, FALSE, status'[Other(e)] = "ready")
  <2>1. Queue(e)' = <<>> /\ Served(e)' = FALSE
    BY DEF Queue
  <2> QED BY <2>1 DEF Direction, Untouched, Healthy
<1>1. /\ Flow(incoming[e], us \o vs, Queue(e), conn[e], taken[e], Served(e),
              queued[Other(e)], conn[e] \in dropped)
      /\ Hears(status[e], us \o vs, Served(e), status[Other(e)] = "ready")
  BY DEF Direction
<1>2. /\ incoming[e] \in Seq(Message) /\ Queue(e) \in Seq(Unit)
      /\ taken[e] \in Nat /\ queued[Other(e)] \in Nat
  BY LineTypes
<1>3. Flow(incoming[e], us, <<>>, conn[e], taken[e], FALSE, queued'[Other(e)],
           conn[e] \in dropped)
  BY <1>1, <1>2, FlowCutOff
<1>4. Flow(incoming[e], us, <<>>, conn[e], taken[e], FALSE, queued'[Other(e)],
           conn[e] \in dropped')
  <2>1. <<>> \in Seq(Unit)
    BY EmptySeq
  <2> QED BY <1>2, <1>3, <2>1, FlowCutMore
<1>5. Hears(status[e], us, FALSE, status'[Other(e)] = "ready")
  BY <1>1, HearsPart
<1> QED BY <1>4, <1>5

-----------------------------------------------------------------------------
(***************************************************************************)
(* How a step of one end moves the units of the two directions.            *)
(***************************************************************************)
LEMMA SplitAt ==
  ASSUME NEW s \in Seq(Unit), NEW n \in 0 .. Len(s)
  PROVE  /\ Take(s, n) \in Seq(Unit) /\ Drop(s, n) \in Seq(Unit)
         /\ Len(Take(s, n)) = n
         /\ s = Take(s, n) \o Drop(s, n)
<1> DEFINE a == Take(s, n)
           b == Drop(s, n)
           l == Len(s)
<1>1. l \in Nat /\ \A i \in 1 .. l : s[i] \in Unit
  BY LenProperties, UnitOfStream
<1>2. a \in Seq(Unit) /\ Len(a) = n /\ \A i \in 1 .. n : a[i] = s[i]
  <2>1. \A i \in 1 .. n : i \in 1 .. l
    BY <1>1
  <2>2. \A i \in 1 .. n : s[i] \in Unit
    BY <1>1, <2>1
  <2> QED BY <1>1, <2>2, SubSeqProperties DEF Take
<1>3. b \in Seq(Unit) /\ Len(b) = l - n /\ \A i \in 1 .. l - n : b[i] = s[n + i]
  <2>1. \A i \in n + 1 .. l : i \in 1 .. l
    BY <1>1
  <2>2. \A i \in n + 1 .. l : s[i] \in Unit
    BY <1>1, <2>1
  <2>3. n + 1 \in Int /\ l \in Int /\ (n + 1 <= l + 1)
    BY <1>1
  <2>4. /\ b \in Seq(Unit)
        /\ Len(b) = (IF n + 1 <= l THEN l - (n + 1) + 1 ELSE 0)
        /\ \A i \in 1 .. l - (n + 1) + 1 : b[i] = s[(n + 1) + i - 1]
    BY <2>2, <2>3, SubSeqProperties DEF Drop
  <2>5. (IF n + 1 <= l THEN l - (n + 1) + 1 ELSE 0) = l - n /\ l - (n + 1) + 1 = l - n
    BY <1>1
  <2>6. \A i \in 1 .. l - n : (n + 1) + i - 1 = n + i
    BY <1>1
  <2> QED BY <2>4, <2>5, <2>6
<1> HIDE DEF a, b
<1>4. /\ a \o b \in Seq(Unit) /\ Len(a \o b) = l
      /\ \A i \in 1 .. n : (a \o b)[i] = s[i]
      /\ \A i \in 1 .. l - n : (a \o b)[n + i] = s[n + i]
  BY <1>1, <1>2, <1>3, Joining
<1>5. \A i \in 1 .. l : i \in 1 .. n \/ (i - n \in 1 .. l - n /\ i = n + (i - n))
  BY <1>1
<1>6. \A i \in 1 .. l : (a \o b)[i] = s[i]
  BY <1>4, <1>5
<1>7. a \o b = s
  BY <1>4, <1>6, SeqEqual
<1> QED BY <1>2, <1>3, <1>7 DEF a, b

LEMMA Associates ==
  ASSUME NEW r \in Seq(Unit), NEW s \in Seq(Unit), NEW t \in Seq(Unit)
  PROVE  (r \o s) \o t = r \o (s \o t)
BY ConcatAssociative

LEMMA TakeAll ==
  ASSUME NEW s \in Seq(Unit)
  PROVE  Take(s, 0) = <<>> /\ Take(s, Len(s)) = s /\ Drop(s, 0) = s /\ Drop(s, Len(s)) = <<>>
<1>1. Len(s) \in Nat
  BY LenProperties
<1>2. Take(s, Len(s)) = s /\ Drop(s, 0) = s
  BY SubSeqFull DEF Take, Drop
<1>3. Take(s, 0) = <<>>
  BY <1>1, SplitAt, EmptySeq
<1>4. Drop(s, Len(s)) = <<>>
  <2>1. Drop(s, Len(s)) \in Seq(Unit) /\ Len(Drop(s, Len(s))) = 0
    BY <1>1, TakeAndDrop
  <2> QED BY <2>1, EmptySeq
<1> QED BY <1>2, <1>3, <1>4

(***************************************************************************)
(* The network after e received n units and sent m (Socket::receive, send).*)
(***************************************************************************)
LEMMA NetParts ==
  ASSUME TypeOK, NEW e \in End, NEW n, NEW data, NEW m, CanMove(e, n, data, m),
         NEW N, N = NetAfter(e, n, data, m)
  PROVE  /\ \A k \in Conns : k # conn[e] => N[k] = net[k]
         /\ N[conn[e]][e] = Drop(net[conn[e]][e], n)
         /\ N[conn[e]][Other(e)] = IF Vanishes(e) THEN net[conn[e]][Other(e)]
                                   ELSE net[conn[e]][Other(e)] \o Take(data, m)
<1> DEFINE k0 == conn[e]
           f0 == Other(e)
           back == Drop(net[k0][e], n)
           forth == IF Vanishes(e) THEN net[k0][f0] ELSE net[k0][f0] \o Take(data, m)
<1>1. k0 \in Conns /\ f0 \in End /\ f0 # e /\ End = {e, f0}
  BY DEF CanMove, Other, End
<1>2. net \in [Conns -> [End -> Seq(Unit)]]
  BY DEF TypeOK
<1>3. N = [net EXCEPT ![k0][e] = back, ![k0][f0] = forth]
  BY <1>1, <1>2 DEF NetAfter
<1> HIDE DEF back, forth
<1>4. /\ N[k0][e] = back /\ N[k0][f0] = forth
      /\ \A k \in Conns : k # k0 => N[k] = net[k]
  BY <1>1, <1>2, <1>3
<1> QED BY <1>4 DEF back, forth

LEMMA NetUnsent ==
  ASSUME TypeOK, NEW e \in End, NEW n, CanMove(e, n, <<>>, 0),
         NEW N, N = NetAfter(e, n, <<>>, 0)
  PROVE  /\ \A k \in Conns : N[k][Other(e)] = net[k][Other(e)]
         /\ N[conn[e]][e] = Drop(net[conn[e]][e], n)
<1>1. conn[e] \in Conns /\ Other(e) \in End
  BY DEF CanMove, Other, End
<1>2. net[conn[e]][Other(e)] \in Seq(Unit)
  BY <1>1, NetTypes
<1>3. Take(<<>>, 0) = <<>>
  BY TakeAll, EmptySeq
<1>4. net[conn[e]][Other(e)] \o <<>> = net[conn[e]][Other(e)]
  BY <1>2, ConcatEmptySeq
<1>5. /\ \A k \in Conns : k # conn[e] => N[k] = net[k]
      /\ N[conn[e]][e] = Drop(net[conn[e]][e], n)
      /\ N[conn[e]][Other(e)] = IF Vanishes(e) THEN net[conn[e]][Other(e)]
                                ELSE net[conn[e]][Other(e)] \o Take(<<>>, 0)
  BY NetParts
<1>6. N[conn[e]][Other(e)] = net[conn[e]][Other(e)]
  BY <1>3, <1>4, <1>5
<1> QED BY <1>5, <1>6

(***************************************************************************)
(* What e receives and keeps is a stretch of what was under way to it.     *)
(***************************************************************************)
LEMMA ReceivedUnits ==
  ASSUME TypeOK, NEW e \in End, conn[e] # 0, NEW n, CanMove(e, n, <<>>, 0)
  PROVE  /\ Joined(e, n) \in Seq(Unit) /\ Drop(Arrived(e), n) \in Seq(Unit)
         /\ Landed(e) = Joined(e, n) \o Drop(Arrived(e), n)
         /\ UnitsTo(e) = Joined(e, n) \o (Drop(Arrived(e), n) \o Unsent(e))
<1> DEFINE a == inStream[e]
           b == Take(Arrived(e), n)
           c == Drop(Arrived(e), n)
           d == Unsent(e)
<1>1. /\ a \in Seq(Unit) /\ d \in Seq(Unit) /\ Arrived(e) \in Seq(Unit)
      /\ UnitsTo(e) = Landed(e) \o d
  BY LineTypes DEF Arrived
<1>2. b \in Seq(Unit) /\ c \in Seq(Unit) /\ Arrived(e) = b \o c
  <2>1. n \in 0 .. Len(Arrived(e))
    BY DEF CanMove
  <2> QED BY <1>1, <2>1, SplitAt
<1>3. Landed(e) = a \o Arrived(e) /\ Joined(e, n) = a \o b
  BY DEF Landed, Arrived, Joined
<1> HIDE DEF a, b, c, d
<1>4. a \o b \in Seq(Unit)
  BY <1>1, <1>2, Joining
<1>5. a \o (b \o c) = (a \o b) \o c
  BY <1>1, <1>2, Associates
<1>6. ((a \o b) \o c) \o d = (a \o b) \o (c \o d)
  BY <1>1, <1>2, <1>4, Associates
<1> QED BY <1>1, <1>2, <1>3, <1>4, <1>5, <1>6 DEF c, d

(***************************************************************************)
(* An end whose peer can hear it finds the path open; one that sends and   *)
(* is not heard sends to another connection, or to nobody.                 *)
(***************************************************************************)
LEMMA HeardSender ==
  ASSUME Shut, NEW f \in End, conn[f] # 0
  PROVE  /\ Served(Other(f)) =>
              /\ conn[Other(f)] = conn[f] /\ Healthy(f)
              /\ ~PeerClosed(f) /\ ~Vanishes(f)
         /\ Healthy(f) /\ ~Served(Other(f)) => conn[Other(f)] # conn[f] \/ Vanishes(f)
<1>1. /\ Other(f) \in End /\ Other(Other(f)) = f
      /\ {conn[f], conn[Other(f)]} = {conn["server"], conn["client"]}
      /\ (f = "server" /\ Other(f) = "client") \/ (f = "client" /\ Other(f) = "server")
  BY DEF Other, End
<1>2. Together <=> conn[Other(f)] = conn[f] /\ conn[f] # 0
  BY <1>1 DEF Together
<1>3. Linked <=> conn[Other(f)] = conn[f] /\ conn[f] # 0 /\ conn[f] \notin lost
  BY <1>1, <1>2 DEF Linked, Together
<1>4. Served(Other(f)) <=> Linked /\ Healthy(f)
  BY <1>1 DEF Served
<1>5. conn[Other(f)] = conn[f] => ~PeerClosed(f)
  BY <1>1 DEF Shut, PeerClosed
<1> QED BY <1>3, <1>4, <1>5 DEF Vanishes

LEMMA SendUnits ==
  ASSUME TypeOK, Shut, NEW f \in End, conn[f] # 0, conn[Other(f)] # 0,
         Healthy(f), Healthy(f)', UNCHANGED sockets,
         inStream'[Other(f)] = inStream[Other(f)],
         NEW n, NEW data, NEW m, CanMove(f, n, data, m), net' = NetAfter(f, n, data, m)
  PROVE  /\ Served(Other(f))' = Served(Other(f))
         /\ ~Served(Other(f)) => UnitsTo(Other(f))' = UnitsTo(Other(f))
         /\ Served(Other(f)) =>
              UnitsTo(Other(f))' = (Landed(Other(f)) \o Take(data, m)) \o outStream'[f]
<1> DEFINE o == Other(f)
<1>1. /\ o \in End /\ o # f /\ Other(o) = f /\ conn[o] \in Conns /\ conn[f] \in Conns
      /\ inStream[o] \in Seq(Unit) /\ net[conn[o]][o] \in Seq(Unit)
      /\ UnitsTo(o) = Landed(o) \o Unsent(o)
  <2>1. o \in End /\ o # f /\ Other(o) = f
    BY LineTypes
  <2> QED BY <2>1, LineTypes
<1>2. /\ Served(o)' = Served(o) /\ conn'[o] = conn[o]
      /\ UnitsTo(o)' = (inStream[o] \o net'[conn[o]][o])
                         \o (IF Served(o) THEN outStream'[f] ELSE <<>>)
  <2>1. conn' = conn
    BY DEF sockets
  <2>2. Served(o)' = Served(o)
    BY <1>1 DEF Served, Linked, Together, sockets, Healthy
  <2>3. UnitsTo(o)' = (inStream'[o] \o net'[conn'[o]][o])
                         \o (IF Served(o)' THEN outStream'[Other(o)] ELSE <<>>)
    BY DEF UnitsTo
  <2> QED BY <1>1, <2>1, <2>2, <2>3
<1>3. /\ \A k \in Conns : k # conn[f] => net'[k] = net[k]
      /\ net'[conn[f]][o] = IF Vanishes(f) THEN net[conn[f]][o]
                             ELSE net[conn[f]][o] \o Take(data, m)
  BY NetParts
<1>4. ASSUME ~Served(o)
      PROVE  UnitsTo(o)' = UnitsTo(o)
  <2>1. conn[o] # conn[f] \/ Vanishes(f)
    BY <1>4, HeardSender
  <2>2. net'[conn[o]][o] = net[conn[o]][o]
    BY <1>1, <1>3, <2>1
  <2> QED BY <1>1, <1>2, <1>4, <2>2 DEF Landed, Unsent
<1>5. ASSUME Served(o)
      PROVE  UnitsTo(o)' = (Landed(o) \o Take(data, m)) \o outStream'[f]
  <2>1. conn[o] = conn[f] /\ ~Vanishes(f)
    BY <1>5, HeardSender
  <2>2. net'[conn[o]][o] = net[conn[o]][o] \o Take(data, m)
    BY <1>3, <2>1
  <2>3. Take(data, m) \in Seq(Unit)
    BY TakeAndDrop DEF CanMove
  <2>4. inStream[o] \o (net[conn[o]][o] \o Take(data, m))
          = (inStream[o] \o net[conn[o]][o]) \o Take(data, m)
    BY <1>1, <2>3, Associates
  <2> QED BY <1>2, <1>5, <2>2, <2>4 DEF Landed
<1> QED BY <1>2, <1>4, <1>5

(***************************************************************************)
(* What a step leaves of a direction whose units it does not touch.        *)
(***************************************************************************)
LEMMA SameUnits ==
  ASSUME NEW e \in End, conn'[e] = conn[e], inStream'[e] = inStream[e],
         net'[conn[e]][e] = net[conn[e]][e], Served(e)' = Served(e),
         Served(e) => outStream'[Other(e)] = outStream[Other(e)]
  PROVE  UnitsTo(e)' = UnitsTo(e)
BY DEF UnitsTo

(***************************************************************************)
(* An end that fails, or is gone: what it had not sent is cut off.         *)
(***************************************************************************)
LEMMA SenderGone ==
  ASSUME TypeOK, NEW o \in End, Direction(o), Untouched(o), dropped \subseteq dropped',
         ~Served(o)', queued'[Other(o)] \in Nat,
         conn[o] # 0 => inStream'[o] = inStream[o] /\ net'[conn[o]][o] = net[conn[o]][o]
  PROVE  Direction(o)'
<1>1. CASE conn[o] = 0
  BY <1>1 DEF Direction, Untouched
<1>2. CASE conn[o] # 0
  <2>1. /\ UnitsTo(o) = Landed(o) \o Unsent(o)
        /\ Landed(o) \in Seq(Unit) /\ Unsent(o) \in Seq(Unit)
    BY <1>2, LineTypes
  <2>2. UnitsTo(o)' = Landed(o)
    <3>1. UnitsTo(o)' = (inStream'[o] \o net'[conn'[o]][o]) \o <<>>
      BY DEF UnitsTo
    <3>2. UnitsTo(o)' = Landed(o) \o <<>>
      BY <1>2, <3>1 DEF Landed, Untouched
    <3> QED BY <2>1, <3>2, ConcatEmptySeq
  <2> QED BY <2>1, <2>2, DirectionCut
<1> QED BY <1>1, <1>2

LEMMA FailDirections ==
  ASSUME TypeOK, TypeOK', NEW f \in End, Direction(Other(f)), UNCHANGED sockets,
         err'[f] # "none", Untouched(Other(f)), dropped' = dropped,
         inStream'[Other(f)] = inStream[Other(f)],
         \A k \in Conns : net'[k][Other(f)] = net[k][Other(f)]
  PROVE  Direction(f)' /\ Direction(Other(f))'
<1> DEFINE o == Other(f)
<1>1. o \in End /\ Other(o) = f /\ (conn[o] # 0 => conn[o] \in Conns)
  <2>1. o \in End /\ Other(o) = f
    BY LineTypes
  <2> QED BY <2>1, LineTypes
<1>2. Direction(f)'
  BY DEF Direction, Healthy
<1>3. ~Served(o)'
  BY <1>1 DEF Served, Healthy
<1>4. queued'[f] \in Nat
  BY DEF TypeOK
<1> QED BY <1>1, <1>2, <1>3, <1>4, SenderGone

LEMMA UnservedKept ==
  ASSUME TypeOK, NEW o \in End, Direction(o), Untouched(o), dropped \subseteq dropped',
         ~Served(o)', queued'[Other(o)] \in Nat, conn[o] # 0 => UnitsTo(o)' = UnitsTo(o)
  PROVE  Direction(o)'
<1>1. CASE conn[o] = 0
  BY <1>1 DEF Direction, Untouched
<1>2. CASE conn[o] # 0
  <2>1. UnitsTo(o) \in Seq(Unit) /\ <<>> \in Seq(Unit)
    BY <1>2, LineTypes, EmptySeq
  <2>2. UnitsTo(o) = UnitsTo(o) \o <<>>
    BY <2>1, ConcatEmptySeq
  <2> QED BY <1>2, <2>1, <2>2, DirectionCut
<1> QED BY <1>1, <1>2

-----------------------------------------------------------------------------
(***************************************************************************)
(* The owners' calls (connection.cpp 67-110), and the failures that only   *)
(* record an error.                                                        *)
(***************************************************************************)

LEMMA QuietFails ==
  ASSUME Inv, Inv', Deliver, NEW f \in End,
         HandshakeTimeout(f) \/ HealthTimeout(f) \/ HealthQueueFull(f) \/ SocketError(f)
           \/ SendLeftoverFails(f)
  PROVE  Direction(f)' /\ Direction(Other(f))'
<1>1. Other(f) \in End /\ Other(f) # f /\ TypeOK /\ TypeOK'
  BY LineTypes DEF Inv
<1>2. /\ UNCHANGED <<session, streams, queues, history>>
      /\ err' = [err EXCEPT ![f] = err'[f]] /\ err'[f] # "none"
      /\ status'[Other(f)] = status[Other(f)]
  <2>1. /\ UNCHANGED <<session, streams, queues, history>>
        /\ \/ \E x \in Errors : Fail(f, x) /\ x # "none"
           \/ \E x \in Errors : /\ err' = [err EXCEPT ![f] = x] /\ x # "none"
                              /\ UNCHANGED <<status, step>>
    BY DEF HandshakeTimeout, HealthTimeout, HealthQueueFull, SocketError,
       SendLeftoverFails, Errors
  <2> QED BY <1>1, <2>1 DEF Fail, TypeOK
<1>3. err'[f] # "none" /\ err'[Other(f)] = err[Other(f)]
  BY <1>2, <1>1 DEF TypeOK
<1>4. Untouched(Other(f))
  BY <1>2, <1>3 DEF Untouched, session, sockets, queues, history
<1>5. /\ UNCHANGED sockets /\ dropped' = dropped
      /\ inStream'[Other(f)] = inStream[Other(f)]
      /\ \A k \in Conns : net'[k][Other(f)] = net[k][Other(f)]
  BY <1>2 DEF session, streams
<1>6. Direction(Other(f))
  BY <1>1 DEF Deliver
<1> QED BY <1>1, <1>3, <1>4, <1>5, <1>6, FailDirections

LEMMA AddOutgoingDirections ==
  ASSUME Inv, Inv', Deliver, NEW f \in End, AddOutgoing(f)
  PROVE  Direction(f)' /\ Direction(Other(f))'
<1> DEFINE o == Other(f)
           d == Data(conn[f], queued[f] + 1)
<1>1. /\ o \in End /\ o # f /\ Other(o) = f /\ TypeOK /\ TypeOK'
      /\ Direction(f) /\ Direction(o) /\ conn[f] # 0 /\ conn[f] \in Conns
      /\ queued[f] \in Nat /\ queued[o] \in Nat /\ queued'[f] \in Nat
      /\ taken[o] \in Nat /\ incoming[o] \in Seq(Message) /\ outgoing[f] \in Seq(Message)
  <2>1. o \in End /\ o # f /\ Other(o) = f /\ TypeOK /\ TypeOK' /\ conn[f] # 0
    BY LineTypes DEF Inv, AddOutgoing, Usable
  <2>2. queued'[f] \in Nat
    BY <2>1 DEF TypeOK
  <2> QED BY <2>1, <2>2, LineTypes DEF Deliver
<1>2. /\ UNCHANGED <<status, err, session, streams, incoming, taken>>
      /\ queued[f] < MaxData
      /\ queued' = [queued EXCEPT ![f] = queued[f] + 1]
      /\ outgoing' = [outgoing EXCEPT ![f] = Append(outgoing[f], d)]
  BY DEF AddOutgoing
<1>3. /\ queued'[f] = queued[f] + 1 /\ queued'[o] = queued[o]
      /\ outgoing'[f] = Append(outgoing[f], d) /\ outgoing'[o] = outgoing[o]
  BY <1>1, <1>2 DEF TypeOK
<1>4. /\ Untouched(f) /\ Untouched(o) /\ dropped' = dropped
      /\ Served(f)' = Served(f) /\ Served(o)' = Served(o)
      /\ UnitsTo(f)' = UnitsTo(f) /\ UnitsTo(o)' = UnitsTo(o)
  BY <1>2 DEF Untouched, session, sockets, streams, Served, Linked, Together, Healthy,
     UnitsTo
<1>5. Direction(f)'
  <2>1. Queue(f)' = Queue(f)
    BY <1>3, <1>4 DEF Queue
  <2>2. status' = status
    BY <1>2
  <2> QED BY <1>1, <1>3, <1>4, <2>1, <2>2, DirectionKept
<1>6. ASSUME ~Served(o)
      PROVE  Direction(o)'
  <2>1. ~Served(o)' /\ dropped \subseteq dropped' /\ queued'[Other(o)] \in Nat
    BY <1>1, <1>4, <1>6
  <2> QED BY <1>1, <1>4, <2>1, UnservedKept
<1>7. ASSUME Served(o), conn[o] # 0, Healthy(o)
      PROVE  Direction(o)'
  <2>1. /\ d \in Message /\ IsData(d) /\ d.conn = conn[f] /\ d.id = queued[f] + 1
    <3>1. queued[f] + 1 \in 1 .. MaxData
      BY <1>1, <1>2
    <3> QED BY <1>1, <3>1 DEF Message, Data, IsData
  <2>2. conn[o] = conn[f]
    BY <1>1, <1>7, HeardSender DEF Deliver
  <2>3. Queue(o)' = Queue(o) \o Lead(d)
    <3> HIDE DEF d
    <3>1. Heads(Append(outgoing[f], d)) = Heads(outgoing[f]) \o Lead(d)
      BY <1>1, <2>1, HeadsOfLonger
    <3>2. Queue(o) = Heads(outgoing[f]) /\ Queue(o)' = Heads(outgoing'[f])
      BY <1>1, <1>4, <1>7 DEF Queue
    <3> QED BY <1>3, <3>1, <3>2
  <2> HIDE DEF d
  <2>4. /\ Flow(incoming[o], UnitsTo(o), Queue(o), conn[o], taken[o], Served(o), queued[f],
                conn[o] \in dropped)
        /\ Hears(status[o], UnitsTo(o), Served(o), status[f] = "ready")
    BY <1>1, <1>7 DEF Direction
  <2>5. Served(o) = TRUE
    BY <1>7 DEF Served
  <2>6. Flow(incoming[o], UnitsTo(o), Queue(o) \o Lead(d), conn[o], taken[o], TRUE,
             queued[f] + 1, conn[o] \in dropped)
    <3>1. UnitsTo(o) \in Seq(Unit) /\ Queue(o) \in Seq(Unit) /\ queued[f] + 1 \in Nat
      BY <1>1, <1>7, LineTypes
    <3>2. Flow(incoming[o], UnitsTo(o), Queue(o), conn[o], taken[o], TRUE, queued[f],
               conn[o] \in dropped)
      BY <2>4, <2>5
    <3> QED BY <1>1, <2>1, <2>2, <3>1, <3>2, FlowQueued
  <2>7. /\ Flow(incoming[o], UnitsTo(o), Queue(o)', conn[o], taken[o], Served(o),
                queued'[f], conn[o] \in dropped)
        /\ Hears(status[o], UnitsTo(o), Served(o), status'[f] = "ready")
    BY <1>2, <1>3, <2>3, <2>4, <2>5, <2>6
  <2>8. /\ Flow(incoming[o], UnitsTo(o)', Queue(o)', conn[o], taken[o], Served(o)',
                queued'[Other(o)], conn[o] \in dropped')
        /\ Hears(status[o], UnitsTo(o)', Served(o)', status'[Other(o)] = "ready")
    BY <1>1, <1>4, <2>7
  <2> QED BY <1>4, <2>8 DEF Direction, Untouched
<1>8. ASSUME ~(conn[o] # 0 /\ Healthy(o))
      PROVE  Direction(o)'
  BY <1>4, <1>8 DEF Direction, Untouched, Healthy
<1> QED BY <1>5, <1>6, <1>7, <1>8

LEMMA Actors ==
  ASSUME Inv, Inv', Deliver, NEW f \in End
  PROVE  /\ Other(f) \in End /\ Other(f) # f /\ Other(Other(f)) = f
         /\ TypeOK /\ TypeOK' /\ Shut /\ Direction(f) /\ Direction(Other(f))
         /\ queued[f] \in Nat /\ queued[Other(f)] \in Nat
         /\ queued'[f] \in Nat /\ queued'[Other(f)] \in Nat
         /\ taken[f] \in Nat /\ taken[Other(f)] \in Nat
         /\ incoming[f] \in Seq(Message) /\ incoming[Other(f)] \in Seq(Message)
         /\ outgoing[f] \in Seq(Message) /\ Queue(f) \in Seq(Unit)
         /\ conn[f] # 0 => conn[f] \in Conns /\ UnitsTo(f) \in Seq(Unit)
         /\ conn[Other(f)] # 0 => conn[Other(f)] \in Conns /\ UnitsTo(Other(f)) \in Seq(Unit)
<1>1. Other(f) \in End /\ Other(f) # f /\ Other(Other(f)) = f /\ TypeOK /\ TypeOK'
  BY LineTypes DEF Inv
<1>2. queued'[f] \in Nat /\ queued'[Other(f)] \in Nat
  BY <1>1 DEF TypeOK
<1> QED BY <1>1, <1>2, LineTypes DEF Deliver

\* A direction whose sender is heard, from what the step makes of its parts.
LEMMA HeardDirection ==
  ASSUME NEW o \in End, Untouched(o), Served(o)',
         NEW us, NEW q, NEW most, NEW cut, NEW answered,
         UnitsTo(o)' = us, Queue(o)' = q, queued'[Other(o)] = most,
         (conn[o] \in dropped') = cut, (status'[Other(o)] = "ready") = answered,
         conn[o] # 0 /\ Healthy(o) =>
           /\ Flow(incoming[o], us, q, conn[o], taken[o], TRUE, most, cut)
           /\ Hears(status[o], us, TRUE, answered)
  PROVE  Direction(o)'
<1> SUFFICES ASSUME conn[o] # 0, Healthy(o)
             PROVE  /\ Flow(incoming[o], us, q, conn[o], taken[o], Served(o)', most, cut)
                    /\ Hears(status[o], us, Served(o)', answered)
  BY DEF Direction, Untouched, Healthy
<1>1. Served(o)' = TRUE
  BY DEF Served
<1> QED BY <1>1

\* What a direction with a heard sender says.
LEMMA DirectionHeard ==
  ASSUME NEW o \in End, Direction(o), Served(o), conn[o] # 0, Healthy(o)
  PROVE  /\ Flow(incoming[o], UnitsTo(o), Queue(o), conn[o], taken[o], TRUE,
                 queued[Other(o)], conn[o] \in dropped)
         /\ Hears(status[o], UnitsTo(o), TRUE, status[Other(o)] = "ready")
         /\ Queue(o) = Heads(outgoing[Other(o)])
<1>1. Served(o) = TRUE
  BY DEF Served
<1> QED BY <1>1 DEF Direction, Queue

LEMMA RemoveIncomingDirections ==
  ASSUME Inv, Inv', Deliver, NEW f \in End, RemoveIncoming(f)
  PROVE  Direction(f)' /\ Direction(Other(f))'
<1> DEFINE o == Other(f)
<1>1. /\ o \in End /\ o # f /\ Other(o) = f /\ TypeOK /\ Direction(f) /\ Direction(o)
      /\ queued[o] \in Nat /\ taken[f] \in Nat /\ incoming[f] \in Seq(Message)
      /\ Queue(f) \in Seq(Unit) /\ (conn[f] # 0 => UnitsTo(f) \in Seq(Unit))
  BY Actors
<1>2. /\ UNCHANGED <<status, err, session, streams, outgoing, queued>>
      /\ incoming[f] # <<>> /\ conn[f] # 0 /\ err[f] = "none"
      /\ incoming' = [incoming EXCEPT ![f] = Tail(incoming[f])]
      /\ taken' = [taken EXCEPT ![f] = taken[f] + 1]
  BY DEF RemoveIncoming, Usable
<1>3. /\ incoming'[f] = Tail(incoming[f]) /\ incoming'[o] = incoming[o]
      /\ taken'[f] = taken[f] + 1 /\ taken'[o] = taken[o]
  BY <1>1, <1>2 DEF TypeOK
<1>4. /\ dropped' = dropped /\ conn' = conn
      /\ Served(f)' = Served(f) /\ Served(o)' = Served(o)
      /\ UnitsTo(f)' = UnitsTo(f) /\ UnitsTo(o)' = UnitsTo(o)
      /\ Queue(f)' = Queue(f) /\ Queue(o)' = Queue(o)
  BY <1>2 DEF session, sockets, streams, Served, Linked, Together, Healthy, UnitsTo, Queue
<1>5. Direction(f)'
  <2>1. /\ Flow(incoming[f], UnitsTo(f), Queue(f), conn[f], taken[f], Served(f), queued[o],
                conn[f] \in dropped)
        /\ Hears(status[f], UnitsTo(f), Served(f), status[o] = "ready")
    BY <1>1, <1>2 DEF Direction, Healthy
  <2>2. Flow(Tail(incoming[f]), UnitsTo(f), Queue(f), conn[f], taken[f] + 1, Served(f),
             queued[o], conn[f] \in dropped)
    BY <1>1, <1>2, <2>1, FlowTaken
  <2>3. /\ Flow(incoming'[f], UnitsTo(f)', Queue(f)', conn'[f], taken'[f], Served(f)',
                queued'[o], conn'[f] \in dropped')
        /\ Hears(status'[f], UnitsTo(f)', Served(f)', status'[o] = "ready")
    BY <1>2, <1>3, <1>4, <2>1, <2>2
  <2> QED BY <2>3 DEF Direction
<1>6. Direction(o)'
  <2>1. Untouched(o)
    BY <1>2, <1>3, <1>4 DEF Untouched
  <2>2. status'[Other(o)] = status[Other(o)] /\ queued'[Other(o)] = queued[Other(o)]
    BY <1>2
  <2> QED BY <1>1, <1>4, <2>1, <2>2, DirectionKept
<1> QED BY <1>5, <1>6

-----------------------------------------------------------------------------
(***************************************************************************)
(* send_pending_data() of f, of what is left from before and a message     *)
(* more (connection.cpp 522-558).                                          *)
(***************************************************************************)
LEMMA PendingUnits ==
  ASSUME TypeOK, Shut, NEW f \in End, conn[f] # 0, conn[Other(f)] # 0,
         Healthy(f), Healthy(f)', UNCHANGED <<sockets, inStream>>,
         NEW out \in Seq(Unit), SendPending(f, out)
  PROVE  /\ Served(Other(f))' = Served(Other(f)) /\ dropped \subseteq dropped'
         /\ ~Served(Other(f)) => UnitsTo(Other(f))' = UnitsTo(Other(f))
         /\ Served(Other(f)) =>
              \/ UnitsTo(Other(f))' = Landed(Other(f)) \o out /\ dropped' = dropped
              \/ \E vs \in Seq(Unit) :
                   /\ UnitsTo(Other(f))' \in Seq(Unit) /\ UnitsTo(Other(f))' # <<>>
                   /\ Landed(Other(f)) \o out = UnitsTo(Other(f))' \o vs
                   /\ dropped' = dropped \cup {conn[f]}
<1> DEFINE o == Other(f)
           m == Sent(f, out)
<1>1. /\ o \in End /\ o # f /\ Other(o) = f /\ conn[o] \in Conns /\ conn[f] \in Conns
      /\ Landed(o) \in Seq(Unit)
  <2>1. o \in End /\ o # f /\ Other(o) = f
    BY LineTypes
  <2> QED BY <2>1, LineTypes
<1>2. /\ CanMove(f, 0, out, m) /\ m \in 0 .. Len(out) /\ Len(out) \in Nat
      /\ Room(f) \in Nat
      /\ outStream[f] \in Seq(Unit) /\ outStream \in [End -> Seq(Unit)]
  <2>1. CanMove(f, 0, out, m) /\ Room(f) \in Nat
    BY <1>1, SendFits, RoomTypes
  <2>2. outStream \in [End -> Seq(Unit)]
    BY DEF TypeOK
  <2> HIDE DEF m
  <2>3. m \in 0 .. Len(out)
    BY <2>1 DEF CanMove
  <2> QED BY <2>1, <2>2, <2>3, LenProperties
<1>3. /\ Take(out, m) \in Seq(Unit) /\ Drop(out, m) \in Seq(Unit)
      /\ Len(Take(out, m)) = m /\ out = Take(out, m) \o Drop(out, m)
  BY <1>2, SplitAt
<1>4. dropped \subseteq dropped'
  BY DEF SendPending
<1>5. CASE ~Writable(f)
  <2>1. outStream'[f] = out /\ net' = net /\ dropped' = dropped
    BY <1>2, <1>5 DEF SendPending
  <2>2. Served(o)' = Served(o) /\ conn' = conn /\ inStream' = inStream
    BY <1>1 DEF Served, Linked, Together, sockets, Healthy
  <2>3. UnitsTo(o)' = (inStream[o] \o net[conn[o]][o])
                         \o (IF Served(o) THEN outStream'[f] ELSE <<>>)
    BY <1>1, <2>1, <2>2 DEF UnitsTo
  <2> QED BY <1>1, <1>4, <2>1, <2>2, <2>3 DEF UnitsTo, Landed
<1>6. CASE Writable(f)
  <2>1. /\ outStream'[f] = <<>> /\ net' = NetAfter(f, 0, out, m)
        /\ dropped' = IF m = Len(out) THEN dropped ELSE dropped \cup {conn[f]}
    BY <1>2, <1>6 DEF SendPending
  <2>2. /\ Served(o)' = Served(o)
        /\ ~Served(o) => UnitsTo(o)' = UnitsTo(o)
        /\ Served(o) => UnitsTo(o)' = (Landed(o) \o Take(out, m)) \o outStream'[f]
    BY <1>2, <2>1, SendUnits
  <2>3. Landed(o) \o Take(out, m) \in Seq(Unit)
    BY <1>1, <1>3, Joining
  <2>4. (Landed(o) \o Take(out, m)) \o <<>> = Landed(o) \o Take(out, m)
    BY <2>3, ConcatEmptySeq
  <2>5. Served(o) => UnitsTo(o)' = Landed(o) \o Take(out, m)
    BY <2>1, <2>2, <2>4
  <2>6. CASE m = Len(out)
    <3>1. Take(out, m) = out
      BY <2>6, TakeAll
    <3> QED BY <1>4, <2>1, <2>2, <2>5, <2>6, <3>1
  <2>7. CASE m # Len(out)
    <3>1. ASSUME Served(o)
          PROVE  UnitsTo(o)' # <<>>
      <4>1. ~PeerClosed(f)
        BY <3>1, HeardSender
      <4>2. Room(f) \in Nat \ {0}
        BY <1>2, <1>6, <4>1 DEF Writable
      <4>3. m = IF Len(out) <= Room(f) THEN Len(out) ELSE Room(f)
        <5>1. m = Min({Len(out), Room(f)})
          BY <4>1 DEF Sent
        <5>2. Len(out) \in Int /\ Room(f) \in Int
          BY <1>2
        <5> QED BY <5>1, <5>2, MinOfTwo
      <4>4. m > 0
        BY <1>2, <2>7, <4>2, <4>3
      <4>5. /\ Len(Landed(o) \o Take(out, m)) = Len(Landed(o)) + m
            /\ Len(Landed(o)) \in Nat
        <5> DEFINE a == Landed(o)
                   b == Take(out, m)
        <5>1. a \in Seq(Unit) /\ b \in Seq(Unit) /\ Len(b) = m
          BY <1>1, <1>3
        <5> HIDE DEF a, b
        <5>2. Len(a \o b) = Len(a) + Len(b) /\ Len(a) \in Nat
          BY <5>1, Joining
        <5> QED BY <5>1, <5>2 DEF a, b
      <4>6. Len(Landed(o) \o Take(out, m)) # 0
        BY <1>2, <4>4, <4>5
      <4>7. Len(<<>>) = 0
        BY EmptySeq
      <4> QED BY <2>5, <3>1, <4>6, <4>7
    <3>2. Landed(o) \o out = (Landed(o) \o Take(out, m)) \o Drop(out, m)
      <4> DEFINE a == Landed(o)
                 b == Take(out, m)
                 c == Drop(out, m)
      <4>1. a \in Seq(Unit) /\ b \in Seq(Unit) /\ c \in Seq(Unit)
        BY <1>1, <1>3
      <4>2. out = b \o c
        BY <1>3
      <4> HIDE DEF a, b, c
      <4>3. (a \o b) \o c = a \o (b \o c)
        BY <4>1, Associates
      <4>4. a \o out = (a \o b) \o c
        BY <4>2, <4>3
      <4> QED BY <4>4 DEF a, b, c
    <3>3. Served(o) => Landed(o) \o out = UnitsTo(o)' \o Drop(out, m)
      BY <2>5, <3>2
    <3>4. Served(o) => UnitsTo(o)' \in Seq(Unit)
      BY <2>3, <2>5
    <3> QED BY <1>3, <1>4, <2>1, <2>2, <2>7, <3>1, <3>3, <3>4
  <2> QED BY <2>6, <2>7
<1> QED BY <1>5, <1>6

LEMMA PendingDirection ==
  ASSUME TypeOK, TypeOK', Shut, NEW f \in End, conn[f] # 0, Healthy(f), Healthy(f)',
         UNCHANGED <<sockets, inStream>>, Direction(Other(f)), Untouched(Other(f)),
         NEW out \in Seq(Unit), SendPending(f, out), status'[f] = status[f],
         Served(Other(f)) /\ conn[Other(f)] # 0 /\ Healthy(Other(f)) =>
           /\ Flow(incoming[Other(f)], Landed(Other(f)) \o out, Heads(outgoing'[f]),
                   conn[Other(f)], taken[Other(f)], TRUE, queued'[f],
                   conn[Other(f)] \in dropped)
           /\ Hears(status[Other(f)], Landed(Other(f)) \o out, TRUE, status[f] = "ready")
  PROVE  Direction(Other(f))'
<1> DEFINE o == Other(f)
<1>1. /\ o \in End /\ o # f /\ Other(o) = f /\ queued'[f] \in Nat
      /\ incoming[o] \in Seq(Message) /\ taken[o] \in Nat
      /\ outgoing' \in [End -> Seq(Message)]
  <2>1. o \in End /\ o # f /\ Other(o) = f
    BY LineTypes
  <2>2. queued'[f] \in Nat /\ outgoing' \in [End -> Seq(Message)]
    BY DEF TypeOK
  <2> QED BY <2>1, <2>2, LineTypes
<1>2. CASE conn[o] = 0
  BY <1>2 DEF Direction, Untouched
<1>3. CASE conn[o] # 0 /\ ~Served(o)
  <2>1. ~Served(o)' /\ dropped \subseteq dropped' /\ UnitsTo(o)' = UnitsTo(o)
    BY <1>3, PendingUnits
  <2> QED BY <1>1, <2>1, UnservedKept
<1>4. CASE conn[o] # 0 /\ Served(o)
  <2>1. /\ Served(o)'
        /\ \/ UnitsTo(o)' = Landed(o) \o out /\ dropped' = dropped
           \/ \E vs \in Seq(Unit) :
                /\ UnitsTo(o)' \in Seq(Unit) /\ UnitsTo(o)' # <<>>
                /\ Landed(o) \o out = UnitsTo(o)' \o vs
                /\ dropped' = dropped \cup {conn[f]}
    BY <1>4, PendingUnits
  <2>2. conn[o] = conn[f]
    BY <1>4, HeardSender
  <2>3. Queue(o)' = Heads(outgoing'[f])
    BY <1>1, <2>1 DEF Queue
  <2>4. Heads(outgoing'[f]) \in Seq(Unit)
    BY <1>1, HeadsOfQueue
  <2>5. conn[o] # 0 /\ Healthy(o) =>
          /\ Flow(incoming[o], UnitsTo(o)', Heads(outgoing'[f]), conn[o], taken[o], TRUE,
                  queued'[f], conn[o] \in dropped')
          /\ Hears(status[o], UnitsTo(o)', TRUE, status[f] = "ready")
    <3> SUFFICES ASSUME Healthy(o)
                 PROVE  /\ Flow(incoming[o], UnitsTo(o)', Heads(outgoing'[f]), conn[o],
                                taken[o], TRUE, queued'[f], conn[o] \in dropped')
                        /\ Hears(status[o], UnitsTo(o)', TRUE, status[f] = "ready")
      OBVIOUS
    <3>1. /\ Flow(incoming[o], Landed(o) \o out, Heads(outgoing'[f]), conn[o], taken[o],
                  TRUE, queued'[f], conn[o] \in dropped)
          /\ Hears(status[o], Landed(o) \o out, TRUE, status[f] = "ready")
      BY <1>4
    <3>2. CASE UnitsTo(o)' = Landed(o) \o out /\ dropped' = dropped
      BY <3>1, <3>2
    <3>3. ASSUME NEW vs \in Seq(Unit), UnitsTo(o)' \in Seq(Unit), UnitsTo(o)' # <<>>,
                 Landed(o) \o out = UnitsTo(o)' \o vs, dropped' = dropped \cup {conn[f]}
          PROVE  /\ Flow(incoming[o], UnitsTo(o)', Heads(outgoing'[f]), conn[o],
                         taken[o], TRUE, queued'[f], conn[o] \in dropped')
                 /\ Hears(status[o], UnitsTo(o)', TRUE, status[f] = "ready")
      <4> DEFINE us == UnitsTo(o)'
      <4>1. /\ Flow(incoming[o], us \o vs, Heads(outgoing'[f]), conn[o], taken[o],
                    TRUE, queued'[f], conn[o] \in dropped)
            /\ Hears(status[o], us \o vs, TRUE, status[f] = "ready")
        BY <3>1, <3>3
      <4>2. (conn[o] \in dropped') = TRUE
        BY <2>2, <3>3
      <4>3. us \in Seq(Unit) /\ us # <<>>
        BY <3>3
      <4> HIDE DEF us
      <4>4. Flow(incoming[o], us, Heads(outgoing'[f]), conn[o], taken[o], TRUE,
                 queued'[f], TRUE)
        BY <1>1, <2>4, <4>1, <4>3, FlowLost
      <4>5. Hears(status[o], us, TRUE, status[f] = "ready")
        BY <4>1, <4>3, HearsPart
      <4> QED BY <4>2, <4>4, <4>5 DEF us
    <3> QED BY <2>1, <3>2, <3>3
  <2> QED BY <1>1, <2>1, <2>3, <2>5, HeardDirection
<1> QED BY <1>2, <1>3, <1>4

\* What is under way to an end that only sends.
LEMMA OwnUnits ==
  ASSUME TypeOK, NEW f \in End, conn[f] # 0, UNCHANGED <<sockets, inStream>>,
         err'[Other(f)] = err[Other(f)], outStream'[Other(f)] = outStream[Other(f)],
         net'[conn[f]][f] = net[conn[f]][f]
  PROVE  Served(f)' = Served(f) /\ UnitsTo(f)' = UnitsTo(f)
<1>1. conn' = conn /\ inStream' = inStream
  BY DEF sockets
<1>2. Served(f)' = Served(f)
  BY DEF Served, Linked, Together, sockets, Healthy
<1> QED BY <1>1, <1>2, SameUnits

LEMMA PendingOwn ==
  ASSUME TypeOK, NEW f \in End, conn[f] # 0, UNCHANGED <<sockets, inStream>>,
         err'[Other(f)] = err[Other(f)], NEW out \in Seq(Unit), SendPending(f, out)
  PROVE  Served(f)' = Served(f) /\ UnitsTo(f)' = UnitsTo(f) /\ dropped \subseteq dropped'
<1>1. Other(f) # f /\ Other(f) \in End /\ conn[f] \in Conns
  BY LineTypes
<1>2. outStream'[Other(f)] = outStream[Other(f)] /\ dropped \subseteq dropped'
  BY <1>1 DEF SendPending, TypeOK
<1>3. net'[conn[f]][f] = net[conn[f]][f]
  <2>1. CASE net' = net
    BY <2>1
  <2>2. CASE net' = NetAfter(f, 0, out, Sent(f, out))
    <3>1. CanMove(f, 0, out, Sent(f, out))
      BY <1>1, SendFits
    <3>2. net'[conn[f]][f] = Drop(net[conn[f]][f], 0)
      BY <2>2, <3>1, NetParts
    <3>3. net[conn[f]][f] \in Seq(Unit)
      BY <1>1, NetTypes
    <3> QED BY <3>2, <3>3, TakeAll
  <2> QED BY <2>1, <2>2 DEF SendPending
<1> QED BY <1>2, <1>3, OwnUnits

(***************************************************************************)
(* update() of a ready connection, up to the sending loop and in it.       *)
(***************************************************************************)
LEMMA BeginUpdateDirections ==
  ASSUME Inv, Inv', Deliver, NEW f \in End, BeginUpdate(f)
  PROVE  Direction(f)' /\ Direction(Other(f))'
<1> DEFINE o == Other(f)
<1>1. /\ o \in End /\ o # f /\ Other(o) = f /\ TypeOK /\ TypeOK' /\ Shut
      /\ Direction(f) /\ Direction(o) /\ queued[f] \in Nat
      /\ taken[o] \in Nat /\ incoming[o] \in Seq(Message) /\ outgoing[f] \in Seq(Message)
      /\ conn[o] # 0 => UnitsTo(o) \in Seq(Unit)
  BY Actors
<1>2. /\ conn[f] # 0 /\ err[f] = "none"
      /\ UNCHANGED <<status, err, sockets, inStream, incoming, queued, taken>>
      /\ SendPending(f, outStream[f]) /\ outStream[f] \in Seq(Unit)
  BY <1>1, StreamTypes DEF BeginUpdate, CanUpdate, Usable
<1>3. outgoing' = [outgoing EXCEPT ![f] = outgoing[f]]
        \/ outgoing' = [outgoing EXCEPT ![f] = Append(outgoing[f], Health)]
  BY DEF BeginUpdate
<1>4. /\ outgoing'[o] = outgoing[o]
      /\ outgoing'[f] = outgoing[f] \/ outgoing'[f] = Append(outgoing[f], Health)
  BY <1>1, <1>3 DEF TypeOK
<1>5. Untouched(f) /\ Untouched(o)
  BY <1>2 DEF Untouched, sockets
<1>6. Direction(f)'
  <2>1. /\ Served(f)' = Served(f) /\ UnitsTo(f)' = UnitsTo(f)
        /\ dropped \subseteq dropped'
    BY <1>1, <1>2, PendingOwn
  <2>2. Queue(f)' = Queue(f)
    BY <1>4, <2>1 DEF Queue
  <2>3. queued'[o] = queued[o] /\ status'[o] = status[o]
    BY <1>2
  <2> QED BY <1>1, <1>5, <2>1, <2>2, <2>3, DirectionKept
<1>7. ASSUME Served(o), conn[o] # 0, Healthy(o)
      PROVE  /\ Flow(incoming[o], Landed(o) \o outStream[f], Heads(outgoing'[f]), conn[o],
                     taken[o], TRUE, queued'[f], conn[o] \in dropped)
             /\ Hears(status[o], Landed(o) \o outStream[f], TRUE, status[f] = "ready")
  <2>1. /\ Flow(incoming[o], UnitsTo(o), Queue(o), conn[o], taken[o], TRUE, queued[f],
                conn[o] \in dropped)
        /\ Hears(status[o], UnitsTo(o), TRUE, status[f] = "ready")
        /\ Queue(o) = Heads(outgoing[f])
    BY <1>1, <1>7, DirectionHeard
  <2>2. UnitsTo(o) = Landed(o) \o outStream[f] /\ UnitsTo(o) \in Seq(Unit)
    BY <1>1, <1>7, LineTypes DEF Unsent
  <2>3. Flow(incoming[o], UnitsTo(o), Heads(outgoing'[f]), conn[o], taken[o], TRUE,
             queued[f], conn[o] \in dropped)
    <3>1. CASE outgoing'[f] = outgoing[f]
      BY <2>1, <3>1
    <3>2. CASE outgoing'[f] = Append(outgoing[f], Health)
      <4>1. Health \in Message /\ ~IsData(Health)
        BY HandshakeFrames DEF IsData, Health
      <4>2. Heads(outgoing'[f]) = Heads(outgoing[f]) \o Lead(Health)
        BY <1>1, <3>2, <4>1, HeadsOfLonger
      <4>3. Heads(outgoing[f]) \in Seq(Unit)
        BY <1>1, HeadsOfQueue
      <4>4. Flow(incoming[o], UnitsTo(o), Heads(outgoing[f]), conn[o], taken[o], TRUE,
                 queued[f], conn[o] \in dropped)
        BY <2>1
      <4>5. Flow(incoming[o], UnitsTo(o), Heads(outgoing[f]) \o Lead(Health), conn[o],
                 taken[o], TRUE, queued[f], conn[o] \in dropped)
        BY <1>1, <2>2, <4>1, <4>3, <4>4, FlowQueued
      <4> QED BY <4>2, <4>5
    <3> QED BY <1>4, <3>1, <3>2
  <2> QED BY <1>2, <2>1, <2>2, <2>3
<1>8. Direction(o)'
  <2>1. Healthy(f) /\ Healthy(f)' /\ status'[f] = status[f]
    BY <1>2 DEF Healthy
  <2> QED BY <1>1, <1>2, <1>5, <1>7, <2>1, PendingDirection
<1> QED BY <1>6, <1>8

\* What a ready end sends: its peer expects messages by then.
LEMMA ReadyToHear ==
  ASSUME Inv, Agreed, Deliver, NEW f \in End, status[f] = "ready",
         Served(Other(f)), conn[Other(f)] # 0, Healthy(Other(f))
  PROVE  /\ status[Other(f)] \in {"handshake_hello_sent", "ready", "error", "uninitialized"}
         /\ status[Other(f)] = "handshake_hello_sent" => UnitsTo(Other(f)) # <<>>
<1> DEFINE o == Other(f)
<1>1. o \in End /\ Other(o) = f /\ Direction(o) /\ TypeOK
  BY LineTypes DEF Inv, Deliver
<1>2. Together
  BY DEF Served, Linked
<1>3. status[o] \in Status
  BY <1>1 DEF TypeOK
<1>4. CASE f = "server"
  <2>1. o = "client"
    BY <1>4 DEF Other
  <2> QED BY <1>2, <1>3, <1>4, <2>1 DEF Agreed, Greeting, Inv, Links, Status, Handshaking
<1>5. CASE f = "client"
  <2>1. o = "server"
    BY <1>5 DEF Other
  <2>2. status["server"] \notin {"handshake_hello_scheduled", "handshake_not_started"}
    BY <1>2, <1>5 DEF Agreed, Greeting, Inv, Links
  <2>3. Hears(status[o], UnitsTo(o), TRUE, status[f] = "ready")
    BY <1>1, DirectionHeard
  <2>4. status[o] = "handshake_hello_sent" => UnitsTo(o) # <<>>
    BY <2>3 DEF Hears
  <2> QED BY <1>3, <2>1, <2>2, <2>4 DEF Status, Handshaking
<1> QED BY <1>4, <1>5 DEF End

LEMMA SendNextDirections ==
  ASSUME Inv, Inv', Agreed, Deliver, NEW f \in End, SendNext(f)
  PROVE  Direction(f)' /\ Direction(Other(f))'
<1> DEFINE o == Other(f)
           h == Head(outgoing[f])
           out == outStream[f] \o Frame(h)
<1>1. /\ o \in End /\ o # f /\ Other(o) = f /\ TypeOK /\ TypeOK' /\ Shut
      /\ Direction(f) /\ Direction(o) /\ queued[f] \in Nat
      /\ taken[o] \in Nat /\ incoming[o] \in Seq(Message) /\ outgoing[f] \in Seq(Message)
      /\ conn[o] # 0 => UnitsTo(o) \in Seq(Unit)
  BY Actors
<1>2. /\ status[f] = "ready" /\ conn[f] # 0 /\ outgoing[f] # <<>> /\ err[f] = "none"
      /\ UNCHANGED <<sockets, inStream, incoming, history>>
      /\ outgoing' = [outgoing EXCEPT ![f] = Tail(outgoing[f])]
      /\ \/ /\ SendPending(f, out)
            /\ UNCHANGED <<status, err>>
         \/ /\ \E x \in {"OUT_MESSAGE_TOO_BIG_FOR_STREAM", "SOCKET_SEND_FAILED"} : Fail(f, x)
            /\ UNCHANGED <<net, dropped>>
  BY DEF SendNext, Inv, Links, Deliver, Idle
<1>3. /\ h \in Message /\ Tail(outgoing[f]) \in Seq(Message)
      /\ Heads(outgoing[f]) = Lead(h) \o Heads(Tail(outgoing[f]))
      /\ h \in Wire /\ Frame(h) \in Seq(Unit) /\ h.op \in {"data", "health"}
  <2>1. /\ h \in Message /\ Tail(outgoing[f]) \in Seq(Message) /\ h = outgoing[f][1]
        /\ 1 \in 1 .. Len(outgoing[f])
        /\ Heads(outgoing[f]) = Lead(h) \o Heads(Tail(outgoing[f]))
    BY <1>1, <1>2, HeadsOfRest
  <2>2. h \in Wire
    BY <2>1 DEF Wire
  <2>3. h.op \in {"data", "health"}
    BY <2>1 DEF Deliver, Queues
  <2> QED BY <2>1, <2>2, <2>3, FrameIsUnits
<1>4. outgoing'[f] = Tail(outgoing[f]) /\ outgoing'[o] = outgoing[o]
  BY <1>1, <1>2 DEF TypeOK
<1>5. outStream[f] \in Seq(Unit) /\ out \in Seq(Unit)
  BY <1>1, <1>3, StreamTypes, Joining
<1> HIDE DEF h, out
<1>6. CASE SendPending(f, out) /\ UNCHANGED <<status, err>>
  <2>1. Untouched(f) /\ Untouched(o)
    BY <1>2, <1>6 DEF Untouched, sockets, history
  <2>2. Direction(f)'
    <3>1. /\ Served(f)' = Served(f) /\ UnitsTo(f)' = UnitsTo(f)
          /\ dropped \subseteq dropped'
      BY <1>1, <1>2, <1>5, <1>6, PendingOwn
    <3>2. Queue(f)' = Queue(f)
      BY <1>4, <3>1 DEF Queue
    <3>3. queued'[o] = queued[o] /\ status'[o] = status[o]
      BY <1>2, <1>6 DEF history
    <3> QED BY <1>1, <2>1, <3>1, <3>2, <3>3, DirectionKept
  <2>3. ASSUME Served(o), conn[o] # 0, Healthy(o)
        PROVE  /\ Flow(incoming[o], Landed(o) \o out, Heads(outgoing'[f]), conn[o],
                       taken[o], TRUE, queued'[f], conn[o] \in dropped)
               /\ Hears(status[o], Landed(o) \o out, TRUE, status[f] = "ready")
    <3>1. /\ Flow(incoming[o], UnitsTo(o), Heads(outgoing[f]), conn[o], taken[o], TRUE,
                  queued[f], conn[o] \in dropped)
          /\ Hears(status[o], UnitsTo(o), TRUE, status[f] = "ready")
      BY <1>1, <2>3, DirectionHeard
    <3>2. UnitsTo(o) = Landed(o) \o outStream[f] /\ Landed(o) \in Seq(Unit)
      BY <1>1, <2>3, LineTypes DEF Unsent
    <3>3. Landed(o) \o out = UnitsTo(o) \o Frame(h)
      <4>1. (Landed(o) \o outStream[f]) \o Frame(h) = Landed(o) \o (outStream[f] \o Frame(h))
        BY <1>3, <1>5, <3>2, Associates
      <4> QED BY <3>2, <4>1 DEF out
    <3>4. Heads(Tail(outgoing[f])) \in Seq(Unit) /\ UnitsTo(o) \in Seq(Unit)
      BY <1>1, <1>3, <2>3, HeadsOfQueue
    <3>5. Flow(incoming[o], UnitsTo(o) \o Frame(h), Heads(Tail(outgoing[f])), conn[o],
               taken[o], TRUE, queued[f], conn[o] \in dropped)
      <4>1. Flow(incoming[o], UnitsTo(o), Lead(h) \o Heads(Tail(outgoing[f])), conn[o],
                 taken[o], TRUE, queued[f], conn[o] \in dropped)
        BY <1>3, <3>1
      <4> QED BY <1>1, <1>3, <3>4, <4>1, FlowSent
    <3>6. Hears(status[o], UnitsTo(o) \o Frame(h), TRUE, status[f] = "ready")
      <4>1. /\ status[o] \in {"handshake_hello_sent", "ready", "error", "uninitialized"}
            /\ status[o] = "handshake_hello_sent" => UnitsTo(o) # <<>>
        BY <1>2, <2>3, ReadyToHear
      <4> QED BY <1>3, <3>1, <3>4, <4>1, HearsFrame
    <3>7. queued'[f] = queued[f]
      BY <1>2 DEF history
    <3> QED BY <1>4, <3>3, <3>5, <3>6, <3>7
  <2>4. Direction(o)'
    <3>1. Healthy(f) /\ Healthy(f)' /\ status'[f] = status[f]
      BY <1>2, <1>6 DEF Healthy
    <3> QED BY <1>1, <1>2, <1>5, <1>6, <2>1, <2>3, <3>1, PendingDirection
  <2> QED BY <2>2, <2>4
<1>7. ASSUME NEW x \in {"OUT_MESSAGE_TOO_BIG_FOR_STREAM", "SOCKET_SEND_FAILED"}, Fail(f, x),
             UNCHANGED <<net, dropped>>
      PROVE  Direction(f)' /\ Direction(o)'
  <2>1. err'[f] = x /\ err'[o] = err[o] /\ status'[o] = status[o]
    BY <1>1, <1>7 DEF Fail, TypeOK
  <2>2. err'[f] # "none" /\ Untouched(o) /\ UNCHANGED sockets /\ dropped' = dropped
    BY <1>2, <1>7, <2>1 DEF Untouched, sockets, history
  <2>3. inStream'[o] = inStream[o] /\ \A k \in Conns : net'[k][o] = net[k][o]
    BY <1>2, <1>7
  <2> QED BY <1>1, <2>2, <2>3, FailDirections
<1> QED BY <1>2, <1>6, <1>7

-----------------------------------------------------------------------------
(***************************************************************************)
(* Receiving and reading (connection.cpp 305-376, 577-614).                *)
(***************************************************************************)

\* f receives n units and leaves rest of its stream and them.
LEMMA ReceiverUnits ==
  ASSUME TypeOK, NEW f \in End, conn[f] # 0, UNCHANGED sockets,
         err'[Other(f)] = err[Other(f)], outStream'[Other(f)] = outStream[Other(f)],
         NEW n, CanMove(f, n, <<>>, 0),
         net'[conn[f]][f] = Drop(Arrived(f), n)
  PROVE  /\ Served(f)' = Served(f)
         /\ Drop(Arrived(f), n) \o Unsent(f) \in Seq(Unit)
         /\ UnitsTo(f) = Joined(f, n) \o (Drop(Arrived(f), n) \o Unsent(f))
         /\ inStream'[f] \in Seq(Unit) =>
              UnitsTo(f)' = inStream'[f] \o (Drop(Arrived(f), n) \o Unsent(f))
<1>1. /\ Drop(Arrived(f), n) \in Seq(Unit) /\ Unsent(f) \in Seq(Unit)
      /\ UnitsTo(f) = Joined(f, n) \o (Drop(Arrived(f), n) \o Unsent(f))
  BY ReceivedUnits, LineTypes
<1>2. Served(f)' = Served(f) /\ conn' = conn
  BY DEF Served, Linked, Together, sockets, Healthy
<1>3. UnitsTo(f)' = (inStream'[f] \o Drop(Arrived(f), n)) \o Unsent(f)
  BY <1>2 DEF UnitsTo, Unsent
<1>4. inStream'[f] \in Seq(Unit) =>
        (inStream'[f] \o Drop(Arrived(f), n)) \o Unsent(f)
          = inStream'[f] \o (Drop(Arrived(f), n) \o Unsent(f))
  <2> DEFINE b == Drop(Arrived(f), n)
             c == Unsent(f)
             a == inStream'[f]
  <2>1. b \in Seq(Unit) /\ c \in Seq(Unit)
    BY <1>1
  <2> HIDE DEF a, b, c
  <2>2. a \in Seq(Unit) => (a \o b) \o c = a \o (b \o c)
    BY <2>1, Associates
  <2> QED BY <2>2 DEF a, b, c
<1>5. Drop(Arrived(f), n) \o Unsent(f) \in Seq(Unit)
  BY <1>1, Joining
<1> QED BY <1>1, <1>2, <1>3, <1>4, <1>5

\* The direction of the peer, when f only receives.
LEMMA PeerKept ==
  ASSUME TypeOK, TypeOK', NEW f \in End, Direction(Other(f)), UNCHANGED sockets,
         Untouched(Other(f)), dropped' = dropped, Healthy(f)' = Healthy(f),
         inStream'[Other(f)] = inStream[Other(f)],
         outStream'[f] = outStream[f], outgoing'[f] = outgoing[f], queued'[f] = queued[f],
         \A k \in Conns : net'[k][Other(f)] = net[k][Other(f)],
         status[Other(f)] = "handshake_hello_sent" /\ status'[f] = "ready"
           => status[f] = "ready"
  PROVE  Direction(Other(f))'
<1> DEFINE o == Other(f)
<1>1. o \in End /\ Other(o) = f /\ (conn[o] # 0 => conn[o] \in Conns)
  <2>1. o \in End /\ Other(o) = f
    BY LineTypes
  <2> QED BY <2>1, LineTypes
<1>2. Served(o)' = Served(o) /\ conn' = conn
  BY <1>1 DEF Served, Linked, Together, sockets
<1>3. CASE conn[o] = 0
  BY <1>2, <1>3 DEF Direction
<1>4. CASE conn[o] # 0
  <2>1. UnitsTo(o)' = UnitsTo(o)
    BY <1>1, <1>2, <1>4, SameUnits
  <2>2. Queue(o)' = Queue(o)
    BY <1>1, <1>2 DEF Queue
  <2> QED BY <1>1, <1>2, <2>1, <2>2, DirectionKept
<1> QED BY <1>3, <1>4

LEMMA ReceiveDirections ==
  ASSUME Inv, Inv', Deliver, NEW f \in End, Receive(f, 0) \/ ReceiveSome(f)
  PROVE  Direction(f)' /\ Direction(Other(f))'
<1> DEFINE o == Other(f)
<1>1. /\ o \in End /\ o # f /\ Other(o) = f /\ TypeOK /\ TypeOK'
      /\ Direction(f) /\ Direction(o)
  BY Actors
<1>2. /\ step[f] = "receiving" /\ status[f] = "ready" /\ conn[f] # 0
      /\ UNCHANGED <<status, err, session, outStream, queues, history>>
  BY DEF Receive, ReceiveSome, Inv, Links
<1>3. InCap - Len(inStream[f]) \in Nat
  BY <1>1, StreamTypes
<1>4. PICK n \in Receivable(f, InCap - Len(inStream[f])) : Receive(f, n)
  <2>1. Len(Arrived(f)) \in Nat
    BY <1>1, <1>2, ConnOfSocket, NetTypes DEF Arrived
  <2>2. 0 \in Receivable(f, InCap - Len(inStream[f]))
    BY <1>3, <2>1, MinOfTwo DEF Receivable
  <2> QED BY <2>2 DEF ReceiveSome
<1>5. CanMove(f, n, <<>>, 0) /\ Joined(f, n) \in Seq(Unit)
  BY <1>1, <1>2, <1>3, JoinedLength
<1>6. /\ inStream'[f] = Joined(f, n) /\ inStream'[o] = inStream[o]
      /\ net' = NetAfter(f, n, <<>>, 0)
  BY <1>1, <1>4 DEF Receive, Joined, TypeOK
<1>7. /\ \A k \in Conns : net'[k][o] = net[k][o]
      /\ net'[conn[f]][f] = Drop(Arrived(f), n)
  BY <1>1, <1>5, <1>6, NetUnsent DEF Arrived
<1>8. Untouched(f) /\ Untouched(o) /\ UNCHANGED sockets /\ dropped' = dropped
  BY <1>2 DEF Untouched, session, sockets, queues, history
<1>9. Direction(f)'
  <2>1. Served(f)' = Served(f) /\ UnitsTo(f)' = UnitsTo(f)
    BY <1>1, <1>2, <1>5, <1>6, <1>7, <1>8, ReceiverUnits
  <2>2. Queue(f)' = Queue(f)
    BY <1>2, <2>1 DEF Queue, queues
  <2>3. queued'[o] = queued[o] /\ status'[o] = status[o]
    BY <1>2 DEF history
  <2> QED BY <1>1, <1>8, <2>1, <2>2, <2>3, DirectionKept
<1>10. Direction(o)'
  <2>1. /\ Healthy(f)' = Healthy(f) /\ outStream'[f] = outStream[f]
        /\ outgoing'[f] = outgoing[f] /\ queued'[f] = queued[f] /\ status'[f] = status[f]
    BY <1>2 DEF Healthy, queues, history
  <2> QED BY <1>1, <1>6, <1>7, <1>8, <2>1, PeerKept
<1> QED BY <1>9, <1>10

\* Parse() takes the frame of the first message off the stream.
LEMMA ParsedFrame ==
  ASSUME NEW s \in Seq(Unit), Parse(s) = "message"
  PROVE  /\ s[1].m \in Message /\ s[1].m \in Wire /\ 1 \in 1 .. Len(s)
         /\ Drop(s, Size(s[1].m)) \in Seq(Unit)
         /\ s = Frame(s[1].m) \o Drop(s, Size(s[1].m))
<1>1. s[1].m \in Message /\ Size(s[1].m) \in 0 .. Len(s) /\ HeaderUnits <= Len(s)
  BY ParsedIsThere
<1>2. Take(s, Size(s[1].m)) = Frame(s[1].m)
  BY DEF Parse
<1>3. Drop(s, Size(s[1].m)) \in Seq(Unit)
      /\ s = Take(s, Size(s[1].m)) \o Drop(s, Size(s[1].m))
  BY <1>1, SplitAt
<1>4. 1 \in 1 .. Len(s)
  BY <1>1, LenProperties
<1> QED BY <1>1, <1>2, <1>3, <1>4 DEF Wire

LEMMA ReadMessageDirections ==
  ASSUME Inv, Inv', Deliver, NEW f \in End, ReadMessage(f)
  PROVE  Direction(f)' /\ Direction(Other(f))'
<1> DEFINE o == Other(f)
           s == inStream[f]
           m == s[1].m
           vs == net[conn[f]][f] \o Unsent(f)
<1>1. /\ o \in End /\ o # f /\ Other(o) = f /\ TypeOK /\ TypeOK'
      /\ Direction(f) /\ Direction(o) /\ queued[o] \in Nat
      /\ taken[f] \in Nat /\ incoming[f] \in Seq(Message) /\ Queue(f) \in Seq(Unit)
  BY Actors
<1>2. /\ status[f] = "ready" /\ conn[f] # 0 /\ err[f] = "none"
      /\ UNCHANGED <<session, outStream, net, outgoing, history>>
      /\ \/ /\ UNCHANGED <<inStream, incoming, status, err>>
         \/ /\ Fail(f, "BAD_FRAME")
            /\ UNCHANGED <<inStream, incoming>>
         \/ /\ Parse(s) = "message"
            /\ inStream' = [inStream EXCEPT ![f] = Drop(s, Size(m))]
            /\ \/ /\ m.op = "health"
                  /\ UNCHANGED <<status, err, incoming>>
               \/ /\ m.op # "health"
                  /\ incoming' = [incoming EXCEPT ![f] = Append(incoming[f], m)]
                  /\ UNCHANGED <<status, err>>
               \/ /\ err' = [err EXCEPT ![f] = "INCOMING_QUEUE_INSUFFICIENT_SPACE"]
                  /\ UNCHANGED <<status, incoming>>
  BY DEF ReadMessage, Inv, Links, Deliver, Idle
<1>3. UNCHANGED sockets /\ dropped' = dropped
  BY <1>2 DEF session
<1>4. /\ s \in Seq(Unit) /\ vs \in Seq(Unit) /\ UnitsTo(f) = s \o vs
      /\ net[conn[f]][f] \in Seq(Unit) /\ Unsent(f) \in Seq(Unit)
  <2>1. /\ s \in Seq(Unit) /\ net[conn[f]][f] \in Seq(Unit) /\ Unsent(f) \in Seq(Unit)
        /\ UnitsTo(f) = Landed(f) \o Unsent(f)
    BY <1>1, <1>2, LineTypes
  <2>2. vs \in Seq(Unit)
    BY <2>1, Joining
  <2>3. (s \o net[conn[f]][f]) \o Unsent(f) = s \o vs
    BY <2>1, Associates
  <2> QED BY <2>1, <2>2, <2>3 DEF Landed
<1>5. /\ \A k \in Conns : net'[k][o] = net[k][o]
      /\ outStream'[f] = outStream[f] /\ outgoing'[f] = outgoing[f] /\ queued'[f] = queued[f]
  BY <1>2 DEF history
<1>6. ASSUME err' = err, status' = status, incoming'[o] = incoming[o],
             inStream'[o] = inStream[o]
      PROVE  Direction(o)'
  <2>1. Untouched(o) /\ Healthy(f)' = Healthy(f) /\ status'[f] = status[f]
    BY <1>2, <1>6 DEF Untouched, session, sockets, history, Healthy
  <2> QED BY <1>1, <1>3, <1>5, <1>6, <2>1, PeerKept
<1>7. ASSUME err'[f] # "none", err'[o] = err[o], status'[o] = status[o],
             incoming' = incoming, inStream'[o] = inStream[o]
      PROVE  Direction(f)' /\ Direction(o)'
  <2>1. Untouched(o)
    BY <1>2, <1>7 DEF Untouched, session, sockets, history
  <2> QED BY <1>1, <1>3, <1>5, <1>7, <2>1, FailDirections
<1>8. CASE UNCHANGED <<inStream, incoming, status, err>>
  <2>1. Untouched(f) /\ Served(f)' = Served(f) /\ UnitsTo(f)' = UnitsTo(f)
        /\ Queue(f)' = Queue(f)
    BY <1>2, <1>8 DEF Untouched, session, sockets, history, Served, Linked, Together,
       Healthy, UnitsTo, Queue
  <2>2. queued'[o] = queued[o] /\ status'[o] = status[o]
    BY <1>2, <1>8 DEF history
  <2>3. Direction(f)'
    BY <1>1, <1>3, <2>1, <2>2, DirectionKept
  <2> QED BY <1>6, <1>8, <2>3
<1>9. CASE Fail(f, "BAD_FRAME") /\ UNCHANGED <<inStream, incoming>>
  <2>1. err'[f] # "none" /\ err'[o] = err[o] /\ status'[o] = status[o]
    BY <1>1, <1>9 DEF Fail, TypeOK
  <2> QED BY <1>7, <1>9, <2>1
<1>10. CASE /\ Parse(s) = "message"
            /\ inStream' = [inStream EXCEPT ![f] = Drop(s, Size(m))]
  <2> DEFINE r == Drop(s, Size(m))
  <2>1. /\ m \in Message /\ m \in Wire /\ 1 \in 1 .. Len(s)
        /\ r \in Seq(Unit) /\ s = Frame(m) \o r
        /\ Frame(m) \in Seq(Unit)
    BY <1>4, <1>10, ParsedFrame, FrameIsUnits
  <2>2. inStream'[f] = r /\ inStream'[o] = inStream[o]
    BY <1>1, <1>10 DEF TypeOK
  <2>3. /\ Flow(incoming[f], UnitsTo(f), Queue(f), conn[f], taken[f], Served(f), queued[o],
                conn[f] \in dropped)
        /\ Hears("ready", UnitsTo(f), Served(f), status[o] = "ready")
    BY <1>1, <1>2 DEF Direction, Healthy
  <2>4. m # HelloMsg
    <3>1. Len(s) \in Nat /\ Len(vs) \in Nat /\ Len(s \o vs) = Len(s) + Len(vs)
          /\ \A i \in 1 .. Len(s) : (s \o vs)[i] = s[i]
      BY <1>4, Joining
    <3>2. UnitsTo(f)[1] = s[1] /\ 1 \in 1 .. Len(UnitsTo(f))
      <4>1. UnitsTo(f) = s \o vs /\ 1 \in 1 .. Len(s)
        BY <1>4, <2>1
      <4> HIDE DEF s, vs
      <4> QED BY <3>1, <4>1
    <3>3. \A p \in 1 .. Len(UnitsTo(f)) : UnitsTo(f)[p].m \notin {Packet, HelloMsg}
      BY <2>3 DEF Hears
    <3> QED BY <3>2, <3>3
  <2>5. IsData(m) <=> m.op # "health"
    BY <2>1, <2>4 DEF Message, Data, Health, IsData
  <2> HIDE DEF s, m, r, vs
  <2>6. UnitsTo(f) = Frame(m) \o (r \o vs) /\ r \o vs \in Seq(Unit)
    <3>1. (Frame(m) \o r) \o vs = Frame(m) \o (r \o vs)
      BY <1>4, <2>1, Associates
    <3> QED BY <1>4, <2>1, <3>1, Joining
  <2>7. Flow(incoming[f], Frame(m) \o (r \o vs), Queue(f), conn[f], taken[f], Served(f),
             queued[o], conn[f] \in dropped)
    BY <2>3, <2>6
  <2>8. /\ IsData(m) => Flow(Append(incoming[f], m), r \o vs, Queue(f), conn[f], taken[f],
                              Served(f), queued[o], conn[f] \in dropped)
        /\ ~IsData(m) => Flow(incoming[f], r \o vs, Queue(f), conn[f], taken[f],
                               Served(f), queued[o], conn[f] \in dropped)
    BY <1>1, <2>1, <2>6, <2>7, FlowRead
  <2>9. Hears("ready", r \o vs, Served(f), status[o] = "ready")
    <3> DEFINE y == r \o vs
               x == Frame(m)
    <3>1. x \in Seq(Unit) /\ y \in Seq(Unit) /\ UnitsTo(f) = x \o y
      BY <2>1, <2>6
    <3> HIDE DEF x, y
    <3>2. Hears("ready", x \o y, Served(f), status[o] = "ready")
      BY <2>3, <3>1
    <3>3. Hears("ready", y, Served(f), status[o] = "ready")
      BY <3>1, <3>2, HearsRest
    <3> QED BY <3>3 DEF y
  <2>10. ASSUME err' = err, status' = status,
                incoming'[f] = IF IsData(m) THEN Append(incoming[f], m) ELSE incoming[f]
         PROVE  Direction(f)'
    <3>1. /\ Served(f)' = Served(f) /\ conn' = conn /\ Queue(f)' = Queue(f)
          /\ taken' = taken /\ queued' = queued
      BY <1>2, <2>10 DEF session, sockets, history, Served, Linked, Together, Healthy, Queue
    <3>2. UnitsTo(f)' = r \o vs
      <4>1. UnitsTo(f)' = (r \o net[conn[f]][f]) \o Unsent(f)
        BY <1>2, <2>2, <3>1 DEF UnitsTo, Unsent
      <4>2. (r \o net[conn[f]][f]) \o Unsent(f) = r \o (net[conn[f]][f] \o Unsent(f))
        <5> DEFINE x == net[conn[f]][f]
                   y == Unsent(f)
        <5>1. x \in Seq(Unit) /\ y \in Seq(Unit)
          BY <1>4
        <5> HIDE DEF x, y
        <5>2. (r \o x) \o y = r \o (x \o y)
          BY <2>1, <5>1, Associates
        <5> QED BY <5>2 DEF x, y
      <4> QED BY <4>1, <4>2 DEF vs
    <3>3. Flow(incoming'[f], r \o vs, Queue(f), conn[f], taken[f], Served(f), queued[o],
               conn[f] \in dropped)
      BY <2>8, <2>10
    <3>4. /\ Flow(incoming'[f], UnitsTo(f)', Queue(f)', conn'[f], taken'[f], Served(f)',
                  queued'[o], conn'[f] \in dropped')
          /\ Hears(status'[f], UnitsTo(f)', Served(f)', status'[o] = "ready")
      BY <1>2, <1>3, <2>9, <2>10, <3>1, <3>2, <3>3
    <3> QED BY <3>4 DEF Direction
  <2>11. CASE m.op = "health" /\ UNCHANGED <<status, err, incoming>>
    BY <1>6, <2>2, <2>5, <2>10, <2>11
  <2>12. CASE /\ m.op # "health"
              /\ incoming' = [incoming EXCEPT ![f] = Append(incoming[f], m)]
              /\ UNCHANGED <<status, err>>
    <3>1. incoming'[f] = Append(incoming[f], m) /\ incoming'[o] = incoming[o]
      BY <1>1, <2>12 DEF TypeOK
    <3> QED BY <1>6, <2>2, <2>5, <2>10, <2>12, <3>1
  <2>13. CASE /\ err' = [err EXCEPT ![f] = "INCOMING_QUEUE_INSUFFICIENT_SPACE"]
              /\ UNCHANGED <<status, incoming>>
    <3>1. err'[f] # "none" /\ err'[o] = err[o] /\ status'[o] = status[o]
      BY <1>1, <2>13 DEF TypeOK
    <3> QED BY <1>7, <2>2, <2>13, <3>1
  <2>14. \/ m.op = "health" /\ UNCHANGED <<status, err, incoming>>
         \/ /\ m.op # "health"
            /\ incoming' = [incoming EXCEPT ![f] = Append(incoming[f], m)]
            /\ UNCHANGED <<status, err>>
         \/ /\ err' = [err EXCEPT ![f] = "INCOMING_QUEUE_INSUFFICIENT_SPACE"]
            /\ UNCHANGED <<status, incoming>>
         \/ UNCHANGED <<inStream, incoming, status, err>>
         \/ Fail(f, "BAD_FRAME") /\ UNCHANGED <<inStream, incoming>>
    BY <1>2 DEF m
  <2> QED BY <1>8, <1>9, <2>11, <2>12, <2>13, <2>14
<1> QED BY <1>2, <1>8, <1>9, <1>10

-----------------------------------------------------------------------------
(***************************************************************************)
(* The handshake (connection.cpp 396-458).                                 *)
(***************************************************************************)

\* f says p, or goes on saying it: all of it is then under way.
LEMMA SaidUnits ==
  ASSUME TypeOK, Shut, NEW f \in End, conn[f] # 0, conn[Other(f)] # 0,
         Healthy(f), Healthy(f)', UNCHANGED sockets,
         inStream'[Other(f)] = inStream[Other(f)],
         NEW p \in {Packet, HelloMsg}, NEW n, CanMove(f, n, <<>>, 0),
         net' = NetAfter(f, n, ToSay(f, p), Sent(f, ToSay(f, p))),
         outStream'[f] = Drop(ToSay(f, p), Sent(f, ToSay(f, p))),
         outStream[f] = <<>> => Pending(Other(f)) = 0
  PROVE  /\ Served(Other(f))' = Served(Other(f))
         /\ ~Served(Other(f)) => UnitsTo(Other(f))' = UnitsTo(Other(f))
         /\ Served(Other(f)) =>
              \/ UnitsTo(Other(f)) = <<>> /\ UnitsTo(Other(f))' = Frame(p)
              \/ UnitsTo(Other(f))' = UnitsTo(Other(f)) /\ UnitsTo(Other(f)) # <<>>
<1> DEFINE o == Other(f)
           out == ToSay(f, p)
           m == Sent(f, out)
<1>1. /\ o \in End /\ Other(o) = f /\ conn[o] \in Conns
      /\ inStream[o] \in Seq(Unit) /\ net[conn[o]][o] \in Seq(Unit)
      /\ Landed(o) \in Seq(Unit) /\ UnitsTo(o) = Landed(o) \o Unsent(o)
  <2>1. o \in End /\ Other(o) = f
    BY LineTypes
  <2> QED BY <2>1, LineTypes
<1>2. /\ out \in Seq(Unit) /\ CanMove(f, 0, out, m) /\ m \in 0 .. Len(out)
      /\ outStream[f] \in Seq(Unit) /\ Frame(p) \in Seq(Unit)
  BY ToSayFits, StreamTypes, HandshakeFrames
<1>3. net' = NetAfter(f, n, out, m) /\ outStream'[f] = Drop(out, m)
  OBVIOUS
<1>4. out = IF outStream[f] = <<>> THEN Frame(p) ELSE outStream[f]
  BY DEF ToSay
<1> HIDE DEF out, m
<1>5. CanMove(f, n, out, m)
  BY <1>2 DEF CanMove
<1>6. /\ Served(o)' = Served(o)
      /\ ~Served(o) => UnitsTo(o)' = UnitsTo(o)
      /\ Served(o) => UnitsTo(o)' = (Landed(o) \o Take(out, m)) \o outStream'[f]
  BY <1>3, <1>5, SendUnits
<1>7. (Landed(o) \o Take(out, m)) \o Drop(out, m) = Landed(o) \o out
  <2> DEFINE a == Landed(o)
             b == Take(out, m)
             c == Drop(out, m)
  <2>1. a \in Seq(Unit) /\ b \in Seq(Unit) /\ c \in Seq(Unit) /\ out = b \o c
    BY <1>1, <1>2, SplitAt
  <2> HIDE DEF a, b, c
  <2>2. (a \o b) \o c = a \o (b \o c)
    BY <2>1, Associates
  <2> QED BY <2>1, <2>2 DEF a, b, c
<1>8. CASE outStream[f] = <<>>
  <2>1. Landed(o) = <<>>
    <3>1. Len(inStream[o]) = 0 /\ Len(net[conn[o]][o]) = 0
      <4> DEFINE a == Len(inStream[o])
                 b == Len(net[conn[o]][o])
      <4>1. a \in Nat /\ b \in Nat
        BY <1>1, LenProperties
      <4>2. a + b = 0
        BY <1>8 DEF Pending
      <4> HIDE DEF a, b
      <4>3. a = 0 /\ b = 0
        BY <4>1, <4>2
      <4> QED BY <4>3 DEF a, b
    <3>2. inStream[o] = <<>> /\ net[conn[o]][o] = <<>>
      BY <1>1, <3>1, EmptySeq
    <3>3. <<>> \o <<>> = <<>>
      BY EmptySeq, ConcatEmptySeq
    <3> QED BY <3>2, <3>3 DEF Landed
  <2>2. Served(o) => UnitsTo(o) = <<>>
    <3>1. <<>> \o <<>> = <<>>
      BY EmptySeq, ConcatEmptySeq
    <3> QED BY <1>1, <1>8, <2>1, <3>1 DEF Unsent
  <2>3. Served(o) => UnitsTo(o)' = Frame(p)
    <3>1. <<>> \o Frame(p) = Frame(p)
      BY <1>2, ConcatEmptySeq
    <3> QED BY <1>3, <1>4, <1>6, <1>7, <1>8, <2>1, <3>1
  <2> QED BY <1>6, <2>2, <2>3
<1>9. CASE outStream[f] # <<>>
  <2>1. Served(o) => UnitsTo(o)' = UnitsTo(o)
    BY <1>1, <1>3, <1>4, <1>6, <1>7, <1>9 DEF Unsent
  <2>2. Served(o) => UnitsTo(o) # <<>>
    <3>1. /\ Len(Landed(o) \o outStream[f]) = Len(Landed(o)) + Len(outStream[f])
          /\ Len(Landed(o)) \in Nat /\ Len(outStream[f]) \in Nat
      BY <1>1, <1>2, Joining
    <3>2. Len(outStream[f]) # 0 /\ Len(<<>>) = 0
      BY <1>2, <1>9, EmptySeq
    <3>3. Landed(o) \o outStream[f] # <<>>
      BY <3>1, <3>2
    <3> QED BY <1>1, <3>3 DEF Unsent
  <2> QED BY <1>6, <2>1, <2>2
<1> QED BY <1>8, <1>9

\* The peer's direction, when f says p.
LEMMA SaidDirection ==
  ASSUME TypeOK, TypeOK', Shut, NEW f \in End, conn[f] # 0,
         Healthy(f), Healthy(f)', UNCHANGED sockets, dropped' = dropped,
         Direction(Other(f)), Untouched(Other(f)),
         inStream'[Other(f)] = inStream[Other(f)],
         outgoing' = outgoing, queued' = queued,
         NEW p \in {Packet, HelloMsg}, NEW n, CanMove(f, n, <<>>, 0),
         net' = NetAfter(f, n, ToSay(f, p), Sent(f, ToSay(f, p))),
         outStream'[f] = Drop(ToSay(f, p), Sent(f, ToSay(f, p))),
         Served(Other(f)) /\ conn[Other(f)] # 0 /\ outStream[f] = <<>> => Pending(Other(f)) = 0,
         Served(Other(f)) /\ conn[Other(f)] # 0 /\ Healthy(Other(f)) =>
           Hears(status[Other(f)], Frame(p), TRUE, status'[f] = "ready")
  PROVE  Direction(Other(f))'
<1> DEFINE o == Other(f)
<1>1. /\ o \in End /\ o # f /\ Other(o) = f /\ queued'[f] \in Nat /\ queued[f] \in Nat
      /\ incoming[o] \in Seq(Message) /\ taken[o] \in Nat
  <2>1. o \in End /\ o # f /\ Other(o) = f
    BY LineTypes
  <2>2. queued'[f] \in Nat
    BY DEF TypeOK
  <2> QED BY <2>1, <2>2, LineTypes
<1>2. CASE conn[o] = 0
  BY <1>2 DEF Direction, Untouched
<1>3. CASE conn[o] # 0 /\ ~Served(o)
  <2>1. Served(o)' = Served(o) /\ UnitsTo(o)' = UnitsTo(o)
    <3> DEFINE out == ToSay(f, p)
               m == Sent(f, out)
    <3>1. CanMove(f, 0, out, m) /\ net' = NetAfter(f, n, out, m)
      BY ToSayFits
    <3> HIDE DEF out, m
    <3>2. CanMove(f, n, out, m)
      BY <3>1 DEF CanMove
    <3> QED BY <1>3, <3>1, <3>2, SendUnits
  <2>2. ~Served(o)' /\ dropped \subseteq dropped'
    BY <1>3, <2>1
  <2> QED BY <1>1, <2>1, <2>2, UnservedKept
<1>4. CASE conn[o] # 0 /\ Served(o)
  <2>1. /\ Served(o)'
        /\ \/ UnitsTo(o) = <<>> /\ UnitsTo(o)' = Frame(p)
           \/ UnitsTo(o)' = UnitsTo(o) /\ UnitsTo(o) # <<>>
    BY <1>4, SaidUnits
  <2>2. Queue(o)' = Heads(outgoing[f])
    BY <1>1, <2>1 DEF Queue
  <2>3. conn[o] # 0 /\ Healthy(o) =>
          /\ Flow(incoming[o], UnitsTo(o)', Heads(outgoing[f]), conn[o], taken[o], TRUE,
                  queued[f], conn[o] \in dropped)
          /\ Hears(status[o], UnitsTo(o)', TRUE, status'[f] = "ready")
    <3> SUFFICES ASSUME Healthy(o)
                 PROVE  /\ Flow(incoming[o], UnitsTo(o)', Heads(outgoing[f]), conn[o],
                                taken[o], TRUE, queued[f], conn[o] \in dropped)
                        /\ Hears(status[o], UnitsTo(o)', TRUE, status'[f] = "ready")
      OBVIOUS
    <3>1. /\ Flow(incoming[o], UnitsTo(o), Heads(outgoing[f]), conn[o], taken[o], TRUE,
                  queued[f], conn[o] \in dropped)
          /\ Hears(status[o], UnitsTo(o), TRUE, status[f] = "ready")
      BY <1>1, <1>4, DirectionHeard
    <3>2. CASE UnitsTo(o) = <<>> /\ UnitsTo(o)' = Frame(p)
      <4>1. Hears(status[o], Frame(p), TRUE, status'[f] = "ready")
        BY <1>4
      <4>2. /\ p \in Wire /\ ~IsData(p) /\ Frame(p) \in Seq(Unit) /\ <<>> \in Seq(Unit)
            /\ Heads(outgoing[f]) \in Seq(Unit)
        <5>1. outgoing[f] \in Seq(Message)
          BY LineTypes
        <5>2. Heads(outgoing[f]) \in Seq(Unit)
          BY <5>1, HeadsOfQueue
        <5>3. p \in Wire /\ Frame(p) \in Seq(Unit)
          BY HandshakeFrames DEF Wire
        <5>4. ~IsData(p)
          BY DEF IsData, Packet, HelloMsg
        <5> QED BY <5>2, <5>3, <5>4, EmptySeq
      <4>3. Flow(incoming[o], <<>>, Heads(outgoing[f]), conn[o], taken[o], TRUE,
                 queued[f], conn[o] \in dropped)
        BY <3>1, <3>2
      <4>4. Flow(incoming[o], <<>> \o Frame(p), Heads(outgoing[f]), conn[o], taken[o], TRUE,
                 queued[f], conn[o] \in dropped)
        BY <1>1, <4>2, <4>3, FlowSaid
      <4>5. <<>> \o Frame(p) = Frame(p)
        BY <4>2, ConcatEmptySeq
      <4> QED BY <3>2, <4>1, <4>4, <4>5
    <3>3. CASE UnitsTo(o)' = UnitsTo(o) /\ UnitsTo(o) # <<>>
      <4>1. Hears(status[o], UnitsTo(o), TRUE, status'[f] = "ready")
        BY <3>1, <3>3 DEF Hears
      <4> QED BY <3>1, <3>3, <4>1
    <3> QED BY <2>1, <3>2, <3>3
  <2> QED BY <1>1, <2>1, <2>2, <2>3, HeardDirection
<1> QED BY <1>2, <1>3, <1>4

LEMMA SendHelloDirections ==
  ASSUME Inv, Inv', Agreed, Deliver, NEW f \in End, SendHello(f)
  PROVE  Direction(f)' /\ Direction(Other(f))' /\ err' = err
<1> DEFINE o == Other(f)
           out == ToSay(f, Packet)
           m == Sent(f, out)
<1>1. /\ o \in End /\ o # f /\ Other(o) = f /\ TypeOK /\ TypeOK' /\ Shut
      /\ Direction(f) /\ Direction(o)
  BY Actors
<1>2. /\ conn[f] # 0 /\ status[f] = "handshake_hello_scheduled" /\ err[f] = "none"
      /\ UNCHANGED <<session, queues, history>> /\ inStream' = inStream
      /\ \/ /\ outStream' = [outStream EXCEPT ![f] = Drop(out, m)]
            /\ net' = NetAfter(f, 0, out, m)
            /\ status' = [status EXCEPT ![f] = IF m = Len(out) THEN "handshake_hello_sent"
                                                              ELSE @]
            /\ err' = err
         \/ Arrived(f) # <<>>
  BY DEF SendHello, CanHandshake, Usable, ToSay
<1>3. /\ Flow(incoming[f], UnitsTo(f), Queue(f), conn[f], taken[f], Served(f), queued[o],
              conn[f] \in dropped)
      /\ UnitsTo(f) = <<>>
  BY <1>1, <1>2 DEF Direction, Healthy, Hears
<1>4. Arrived(f) = <<>>
  <2>1. /\ Arrived(f) \in Seq(Unit) /\ inStream[f] \in Seq(Unit) /\ Unsent(f) \in Seq(Unit)
        /\ UnitsTo(f) = Landed(f) \o Unsent(f) /\ Landed(f) = inStream[f] \o Arrived(f)
        /\ Landed(f) \in Seq(Unit)
    BY <1>1, <1>2, LineTypes DEF Arrived, Landed
  <2> DEFINE a == inStream[f]
             b == Arrived(f)
             c == Landed(f)
             d == Unsent(f)
  <2> HIDE DEF a, b, c, d
  <2>2. /\ Len(a) \in Nat /\ Len(b) \in Nat /\ Len(c) \in Nat /\ Len(d) \in Nat
        /\ Len(a \o b) = Len(a) + Len(b) /\ Len(c \o d) = Len(c) + Len(d)
    BY <2>1, Joining DEF a, b, c, d
  <2>3. c = a \o b /\ c \o d = <<>> /\ b \in Seq(Unit)
    BY <1>3, <2>1 DEF a, b, c, d
  <2>4. Len(c \o d) = 0 /\ Len(c) = Len(a) + Len(b)
    BY <2>2, <2>3, EmptySeq
  <2>5. Len(b) = 0
    BY <2>2, <2>4
  <2> QED BY <2>3, <2>5, EmptySeq DEF b
<1>5. f = "server" /\ o = "client"
  BY <1>2 DEF Inv, Links, End, Other
<1>6. /\ outStream'[f] = Drop(out, m) /\ outStream'[o] = outStream[o]
      /\ net' = NetAfter(f, 0, out, m)
      /\ status'[f] \in {"handshake_hello_scheduled", "handshake_hello_sent"}
      /\ status'[o] = status[o] /\ err' = err
  <2> HIDE DEF out, m
  <2> QED BY <1>1, <1>2, <1>4 DEF TypeOK
<1>7. UNCHANGED sockets /\ dropped' = dropped /\ Untouched(o)
      /\ conn' = conn /\ incoming' = incoming /\ taken' = taken /\ outgoing' = outgoing
      /\ queued' = queued
  BY <1>2, <1>6 DEF session, sockets, queues, history, Untouched
<1>8. CanMove(f, 0, out, m) /\ conn[f] \in Conns
  BY <1>1, <1>2, ToSayFits, ConnOfSocket
<1>9. CanMove(f, 0, <<>>, 0)
  <2>1. Room(f) \in Nat
    BY <1>1, <1>8, RoomTypes
  <2>2. 0 \in 0 .. Len(Arrived(f)) /\ 0 \in 0 .. Len(<<>>) /\ <<>> \in Seq(Unit)
    BY <1>4, EmptySeq
  <2> QED BY <1>8, <2>1, <2>2 DEF CanMove
<1>10. Direction(f)'
  <2>1. Served(f)' = Served(f) /\ UnitsTo(f)' = UnitsTo(f)
    <3>1. net'[conn[f]][f] = net[conn[f]][f]
      <4>1. net'[conn[f]][f] = Drop(net[conn[f]][f], 0)
        <5> HIDE DEF out, m
        <5> QED BY <1>1, <1>6, <1>8, NetParts
      <4>2. net[conn[f]][f] \in Seq(Unit)
        BY <1>1, <1>8, NetTypes
      <4> QED BY <4>1, <4>2, TakeAll
    <3> HIDE DEF out, m
    <3>2. err'[o] = err[o] /\ inStream' = inStream
      BY <1>2, <1>6
    <3> QED BY <1>1, <1>2, <1>6, <1>7, <3>1, <3>2, OwnUnits
  <2>2. Queue(f)' = Queue(f)
    BY <1>7, <2>1 DEF Queue
  <2>3. Hears(status'[f], <<>>, Served(f), status[o] = "ready")
    <3>1. Served(f) => status[o] # "ready"
      BY <1>2, <1>5 DEF Served, Linked, Agreed, Greeting
    <3>2. Len(<<>>) = 0
      BY EmptySeq
    <3> QED BY <1>6, <3>1, <3>2 DEF Hears
  <2>4. /\ Flow(incoming'[f], UnitsTo(f)', Queue(f)', conn'[f], taken'[f], Served(f)',
                queued'[o], conn'[f] \in dropped')
        /\ Hears(status'[f], UnitsTo(f)', Served(f)', status'[o] = "ready")
    BY <1>3, <1>6, <1>7, <2>1, <2>2, <2>3
  <2> QED BY <2>4 DEF Direction
<1>11. Direction(o)'
  <2>1. ASSUME Served(o), conn[o] # 0, outStream[f] = <<>>
        PROVE  Pending(o) = 0
    BY <1>2, <1>5, <2>1 DEF Served, Linked, Agreed, Greeting, Unsaid
  <2>2. ASSUME Served(o), conn[o] # 0, Healthy(o)
        PROVE  Hears(status[o], Frame(Packet), TRUE, status'[f] = "ready")
    <3>1. status[o] \in {"handshake_not_started", "error"}
      BY <1>2, <1>5, <2>2 DEF Served, Linked, Agreed, Greeting
    <3>2. Packet \in Wire /\ Len(Frame(Packet)) = HelloUnits
      BY HandshakeFrames DEF Wire
    <3>3. \A p \in 1 .. Len(Frame(Packet)) : Frame(Packet)[p] = [m |-> Packet, i |-> p]
      BY <3>2, FrameIsWhole
    <3> QED BY <3>1, <3>2, <3>3 DEF Hears
  <2>3. /\ Healthy(f) /\ Healthy(f)' /\ inStream'[o] = inStream[o]
        /\ outgoing' = outgoing /\ queued' = queued
    BY <1>2, <1>6, <1>7 DEF Healthy
  <2> QED BY <1>1, <1>2, <1>6, <1>7, <1>9, <2>1, <2>2, <2>3, SaidDirection
<1> QED BY <1>6, <1>10, <1>11

\* All that is under way to a client that waits for the hello is the hello;
\* when it has received as much, the server has nothing left to say.
LEMMA HelloUnitsOnly ==
  ASSUME NEW us \in Seq(Unit), NEW s \in Seq(Unit), NEW t \in Seq(Unit), us = s \o t,
         NEW up, NEW answered, Hears("handshake_not_started", us, up, answered),
         Len(s) >= HelloUnits
  PROVE  /\ s = Frame(Packet) /\ t = <<>> /\ us = Frame(Packet)
         /\ HelloSeen(s) = Frame(Packet) /\ Drop(s, HelloUnits) = <<>>
<1>1. /\ Len(s) \in Nat /\ Len(t) \in Nat /\ Len(s \o t) = Len(s) + Len(t)
      /\ \A i \in 1 .. Len(s) : (s \o t)[i] = s[i]
  BY Joining
<1>2. /\ Len(us) <= HelloUnits
      /\ \A p \in 1 .. Len(us) : us[p] = [m |-> Packet, i |-> p]
  BY DEF Hears
<1>3. Len(s) = HelloUnits /\ Len(t) = 0 /\ Len(us) = HelloUnits
  <2> DEFINE a == Len(s)
             b == Len(t)
             c == Len(us)
  <2>1. a \in Nat /\ b \in Nat /\ c = a + b /\ c <= HelloUnits /\ a >= HelloUnits
    BY <1>1, <1>2
  <2> HIDE DEF a, b, c
  <2>2. a = HelloUnits /\ b = 0 /\ c = HelloUnits
    BY <2>1
  <2> QED BY <2>2 DEF a, b, c
<1>4. t = <<>> /\ us = s
  <2>1. t = <<>>
    BY <1>3, EmptySeq
  <2> QED BY <2>1, ConcatEmptySeq
<1>5. /\ Packet \in Wire /\ Frame(Packet) \in Seq(Unit) /\ Len(Frame(Packet)) = HelloUnits
  BY HandshakeFrames DEF Wire
<1>6. \A p \in 1 .. HelloUnits : Frame(Packet)[p] = [m |-> Packet, i |-> p]
  BY <1>5, FrameIsWhole
<1>7. s = Frame(Packet)
  <2>1. \A p \in 1 .. HelloUnits : s[p] = Frame(Packet)[p]
    BY <1>2, <1>3, <1>4, <1>6
  <2> QED BY <1>3, <1>5, <2>1, SeqEqual
<1>8. Drop(s, HelloUnits) = <<>>
  BY <1>3, TakeAll
<1>9. HelloSeen(s) = s
  <2>1. Len(<<>>) = 0 /\ Drop(s, 0) = s /\ <<>> \o s = s /\ Take(s, HelloUnits) = s
    BY <1>3, TakeAll, EmptySeq, ConcatEmptySeq
  <2> QED BY <1>8, <2>1 DEF HelloSeen
<1> QED BY <1>4, <1>7, <1>8, <1>9

LEMMA ReceiveHelloDirections ==
  ASSUME Inv, Inv', Agreed, Deliver, NEW f \in End, ReceiveHello(f)
  PROVE  Direction(f)' /\ Direction(Other(f))' /\ err' = err
<1> DEFINE o == Other(f)
           out == ToSay(f, HelloMsg)
           m == Sent(f, out)
<1>1. /\ o \in End /\ o # f /\ Other(o) = f /\ TypeOK /\ TypeOK' /\ Shut
      /\ Direction(f) /\ Direction(o) /\ queued[o] \in Nat
      /\ taken[f] \in Nat /\ incoming[f] \in Seq(Message) /\ Queue(f) \in Seq(Unit)
  BY Actors
<1>2. /\ conn[f] # 0 /\ status[f] = "handshake_not_started" /\ err[f] = "none"
      /\ UNCHANGED <<session, queues, history>>
  BY DEF ReceiveHello, CanHandshake, Usable
<1>3. PICK n \in Receivable(f, HelloUnits) \ {0} :
        \/ /\ Len(Joined(f, n)) < HelloUnits
           /\ inStream' = [inStream EXCEPT ![f] = Joined(f, n)]
           /\ net' = NetAfter(f, n, <<>>, 0)
           /\ UNCHANGED <<status, step, err, outStream>>
        \/ /\ Len(Joined(f, n)) >= HelloUnits
           /\ HelloSeen(Joined(f, n)) # Frame(Packet)
        \/ /\ Len(Joined(f, n)) >= HelloUnits
           /\ inStream' = [inStream EXCEPT ![f] = Drop(Joined(f, n), HelloUnits)]
           /\ outStream' = [outStream EXCEPT ![f] = Drop(out, m)]
           /\ net' = NetAfter(f, n, out, m)
           /\ status' = [status EXCEPT ![f] = IF m = Len(out) THEN "ready" ELSE @]
           /\ UNCHANGED <<step, err>>
  BY DEF ReceiveHello, Joined, ToSay
<1>4. /\ Joined(f, n) \in Seq(Unit) /\ Len(Joined(f, n)) = Len(inStream[f]) + n
      /\ CanMove(f, n, <<>>, 0) /\ n \in 0 .. HelloUnits
  BY <1>1, <1>2, JoinedLength
<1>5. f = "client" /\ o = "server"
  BY <1>2 DEF Inv, Links, End, Other
<1>6. UNCHANGED sockets /\ dropped' = dropped
      /\ conn' = conn /\ incoming' = incoming /\ taken' = taken /\ outgoing' = outgoing
      /\ queued' = queued
  BY <1>2 DEF session, sockets, queues, history
<1> DEFINE us == UnitsTo(f)
           s == Joined(f, n)
           t == Drop(Arrived(f), n) \o Unsent(f)
<1>7. /\ us \in Seq(Unit) /\ s \in Seq(Unit) /\ t \in Seq(Unit) /\ us = s \o t
  <2>1. /\ Joined(f, n) \in Seq(Unit) /\ Drop(Arrived(f), n) \in Seq(Unit)
        /\ UnitsTo(f) = Joined(f, n) \o (Drop(Arrived(f), n) \o Unsent(f))
    BY <1>1, <1>2, <1>4, ReceivedUnits
  <2>2. Unsent(f) \in Seq(Unit) /\ UnitsTo(f) \in Seq(Unit)
    BY <1>1, <1>2, LineTypes
  <2> QED BY <2>1, <2>2, Joining
<1>8. /\ Flow(incoming[f], us, Queue(f), conn[f], taken[f], Served(f), queued[o],
              conn[f] \in dropped)
      /\ Hears("handshake_not_started", us, Served(f), status[o] = "ready")
  BY <1>1, <1>2 DEF Direction, Healthy
<1>9. ASSUME Len(s) >= HelloUnits
      PROVE  /\ s = Frame(Packet) /\ t = <<>> /\ us = Frame(Packet)
             /\ HelloSeen(s) = Frame(Packet) /\ Drop(s, HelloUnits) = <<>>
  <2> HIDE DEF us, s, t
  <2> QED BY <1>7, <1>8, <1>9, HelloUnitsOnly
<1>10. CASE /\ Len(s) < HelloUnits
            /\ inStream' = [inStream EXCEPT ![f] = s]
            /\ net' = NetAfter(f, n, <<>>, 0)
            /\ UNCHANGED <<status, step, err, outStream>>
  <2>1. inStream'[f] = Joined(f, n) /\ inStream'[o] = inStream[o]
    BY <1>1, <1>10 DEF TypeOK
  <2>2. /\ \A k \in Conns : net'[k][o] = net[k][o]
        /\ net'[conn[f]][f] = Drop(Arrived(f), n)
    BY <1>1, <1>4, <1>10, NetUnsent DEF Arrived
  <2>3. Untouched(f) /\ Untouched(o)
    BY <1>6, <1>10 DEF Untouched
  <2>4. Direction(f)'
    <3>1. Served(f)' = Served(f) /\ UnitsTo(f)' = UnitsTo(f)
      <4>1. /\ err'[o] = err[o] /\ outStream'[o] = outStream[o]
            /\ inStream'[f] \in Seq(Unit) /\ inStream'[f] = Joined(f, n)
        BY <1>4, <1>10, <2>1
      <4> HIDE DEF s
      <4> QED BY <1>1, <1>2, <1>4, <1>6, <2>2, <4>1, ReceiverUnits
    <3>2. Queue(f)' = Queue(f)
      BY <1>6, <3>1 DEF Queue
    <3> QED BY <1>1, <1>6, <1>10, <2>3, <3>1, <3>2, DirectionKept
  <2>5. Direction(o)'
    <3>1. Healthy(f)' = Healthy(f) /\ outStream'[f] = outStream[f]
      BY <1>10 DEF Healthy
    <3> QED BY <1>1, <1>6, <1>10, <2>1, <2>2, <2>3, <3>1, PeerKept
  <2> QED BY <1>10, <2>4, <2>5
<1>11. CASE /\ Len(s) >= HelloUnits
            /\ inStream' = [inStream EXCEPT ![f] = Drop(s, HelloUnits)]
            /\ outStream' = [outStream EXCEPT ![f] = Drop(out, m)]
            /\ net' = NetAfter(f, n, out, m)
            /\ status' = [status EXCEPT ![f] = IF m = Len(out) THEN "ready" ELSE @]
            /\ UNCHANGED <<step, err>>
  <2>1. /\ inStream'[f] = <<>> /\ inStream'[o] = inStream[o]
        /\ outStream'[f] = Drop(out, m) /\ outStream'[o] = outStream[o]
        /\ status'[f] \in {"handshake_not_started", "ready"} /\ status'[o] = status[o]
        /\ err' = err
    <3>1. Drop(s, HelloUnits) = <<>>
      BY <1>9, <1>11
    <3> HIDE DEF s, out, m
    <3> QED BY <1>1, <1>2, <1>11, <3>1 DEF TypeOK
  <2>2. Untouched(o)
    BY <1>6, <2>1 DEF Untouched
  <2>3. CanMove(f, n, out, m)
    <3>1. CanMove(f, 0, out, m)
      BY <1>1, <1>2, ToSayFits
    <3> HIDE DEF out, m
    <3> QED BY <1>4, <3>1 DEF CanMove
  <2>4. net'[conn[f]][f] = Drop(Arrived(f), n)
    <3> HIDE DEF out, m
    <3> QED BY <1>1, <1>11, <2>3, NetParts DEF Arrived
  <2>5. Served(f)' = Served(f) /\ UnitsTo(f)' = <<>>
    <3>1. <<>> \in Seq(Unit) /\ err'[o] = err[o]
      BY <2>1, EmptySeq
    <3>2. Served(f)' = Served(f) /\ UnitsTo(f)' = inStream'[f] \o t
      BY <1>1, <1>2, <1>4, <1>6, <2>1, <2>4, <3>1, ReceiverUnits
    <3>3. t = <<>>
      BY <1>9, <1>11
    <3>4. <<>> \o <<>> = <<>>
      BY <3>1, ConcatEmptySeq
    <3> HIDE DEF t
    <3> QED BY <2>1, <3>2, <3>3, <3>4
  <2>6. Direction(f)'
    <3>1. Queue(f)' = Queue(f)
      BY <1>6, <2>5 DEF Queue
    <3>2. Flow(incoming[f], <<>>, Queue(f), conn[f], taken[f], Served(f), queued[o],
               conn[f] \in dropped)
      <4>1. Packet \in Wire /\ ~IsData(Packet) /\ Frame(Packet) \in Seq(Unit)
            /\ <<>> \in Seq(Unit)
        BY HandshakeFrames, EmptySeq DEF Wire, IsData, Packet
      <4>2. us = Frame(Packet) \o <<>>
        <5>1. us = Frame(Packet)
          BY <1>9, <1>11
        <5> QED BY <4>1, <5>1, ConcatEmptySeq
      <4> HIDE DEF us
      <4>3. Flow(incoming[f], Frame(Packet) \o <<>>, Queue(f), conn[f], taken[f],
                 Served(f), queued[o], conn[f] \in dropped)
        BY <1>8, <4>2
      <4> QED BY <1>1, <4>1, <4>3, FlowRead
    <3>3. Hears(status'[f], <<>>, Served(f), status[o] = "ready")
      <4>1. Len(<<>>) = 0
        BY EmptySeq
      <4> QED BY <2>1, <4>1 DEF Hears
    <3>4. /\ Flow(incoming'[f], UnitsTo(f)', Queue(f)', conn'[f], taken'[f], Served(f)',
                  queued'[o], conn'[f] \in dropped')
          /\ Hears(status'[f], UnitsTo(f)', Served(f)', status'[o] = "ready")
      BY <1>6, <2>1, <2>5, <3>1, <3>2, <3>3
    <3> QED BY <3>4 DEF Direction
  <2>7. Direction(o)'
    <3>1. ASSUME Served(o), conn[o] # 0, outStream[f] = <<>>
          PROVE  Pending(o) = 0
      BY <1>2, <1>5, <3>1 DEF Served, Linked, Agreed, Greeting, Unsaid
    <3>2. ASSUME Served(o), conn[o] # 0, Healthy(o)
          PROVE  Hears(status[o], Frame(HelloMsg), TRUE, status'[f] = "ready")
      <4>1. status[o] # "ready" /\ Together
        BY <1>2, <1>5, <3>2 DEF Served, Linked, Agreed, Greeting
      <4>2. status[o] # "handshake_not_started"
        BY <1>5 DEF Inv, Links
      <4>3. status[o] # "handshake_hello_scheduled"
        <5> SUFFICES ASSUME status[o] = "handshake_hello_scheduled"
                     PROVE  FALSE
          OBVIOUS
        <5>1. /\ Pending(f) + Len(outStream[o]) <= HelloUnits
              /\ outStream[o] = <<>> => Pending(f) = 0
          BY <1>5, <4>1 DEF Agreed, Greeting, Unsaid, Other
        <5> DEFINE a == Len(inStream[f])
                   b == Len(net[conn[f]][f])
                   c == Len(outStream[o])
        <5>2. /\ inStream[f] \in Seq(Unit) /\ net[conn[f]][f] \in Seq(Unit)
              /\ outStream[o] \in Seq(Unit)
          <6>1. outStream[o] \in Seq(Unit)
            BY <1>1, StreamTypes
          <6> QED BY <1>1, <1>2, <6>1, LineTypes
        <5>3. a \in Nat /\ b \in Nat /\ c \in Nat /\ n \in 0 .. b
          BY <1>4, <5>2, LenProperties DEF CanMove, Arrived
        <5>4. a + n >= HelloUnits
          BY <1>4, <1>11
        <5>5. Pending(f) = a + b
          BY DEF Pending
        <5>6. Pending(f) + c <= HelloUnits
          BY <5>1
        <5> HIDE DEF a, b, c
        <5>7. a + b >= HelloUnits
          BY <5>3, <5>4
        <5>8. c = 0 /\ Pending(f) >= HelloUnits
          BY <5>3, <5>5, <5>6, <5>7
        <5>9. outStream[o] = <<>>
          BY <5>2, <5>8, EmptySeq DEF c
        <5> QED BY <5>1, <5>8, <5>9
      <4>4. HelloMsg \in Wire /\ Len(Frame(HelloMsg)) = HeaderUnits
        BY HandshakeFrames DEF Wire
      <4>5. \A p \in 1 .. HeaderUnits : Frame(HelloMsg)[p] = [m |-> HelloMsg, i |-> p]
        BY <4>4, FrameIsWhole
      <4>6. Frame(HelloMsg) # <<>> /\ Frame(HelloMsg)[1].m = HelloMsg
        <5>1. Frame(HelloMsg) # <<>> /\ Frame(HelloMsg)[1] = [m |-> HelloMsg, i |-> 1]
          BY <4>4, FrameIsWhole
        <5> DEFINE g == Frame(HelloMsg)[1]
        <5>2. g = [m |-> HelloMsg, i |-> 1]
          BY <5>1
        <5> HIDE DEF g
        <5>3. g.m = HelloMsg
          BY <5>2
        <5> QED BY <5>1, <5>3 DEF g
      <4>7. HelloMsg # Packet
        BY DEF HelloMsg, Packet
      <4> QED BY <4>1, <4>2, <4>3, <4>4, <4>5, <4>6, <4>7 DEF Hears
    <3>3. Healthy(f) /\ Healthy(f)'
      BY <1>2, <2>1 DEF Healthy
    <3>4. net' = NetAfter(f, n, out, m)
      BY <1>11
    <3>5. HelloMsg \in {Packet, HelloMsg}
      OBVIOUS
    <3> QED BY <1>1, <1>2, <1>4, <1>6, <2>1, <2>2, <3>1, <3>2, <3>3, <3>4, <3>5,
               SaidDirection
  <2> QED BY <2>1, <2>6, <2>7
<1>12. CASE Len(s) >= HelloUnits /\ HelloSeen(s) # Frame(Packet)
  BY <1>9, <1>12
<1> QED BY <1>3, <1>10, <1>11, <1>12

\* The beginning of what is under way parses, if all of it is in frames and
\* no hello packet comes first.
LEMMA BeginningParses ==
  ASSUME NEW us \in Seq(Unit), NEW s \in Seq(Unit), NEW t \in Seq(Unit), us = s \o t,
         InFrames(us), us # <<>> => us[1].m # Packet
  PROVE  Parse(s) # "bad"
<1>1. InFrames(s)
  BY FramesOfPart
<1>2. ASSUME s # <<>>
      PROVE  s[1].m # Packet
  <2>1. /\ Len(s) \in Nat /\ Len(t) \in Nat /\ Len(us) = Len(s) + Len(t)
        /\ \A i \in 1 .. Len(s) : us[i] = s[i]
    BY Joining
  <2>2. Len(s) # 0
    BY <1>2, EmptySeq
  <2>3. 1 \in 1 .. Len(s) /\ Len(us) # 0
    BY <2>1, <2>2
  <2>4. Len(<<>>) = 0
    BY EmptySeq
  <2> QED BY <2>1, <2>3, <2>4
<1> QED BY <1>1, <1>2, FramesParse

\* Behind the hello message come messages for the owner and health messages.
LEMMA HelloHeard ==
  ASSUME NEW vs \in Seq(Unit), NEW up, NEW answered,
         Hears("handshake_hello_sent", Frame(HelloMsg) \o vs, up, answered)
  PROVE  Hears("ready", vs, up, answered)
<1> DEFINE h == Frame(HelloMsg)
           us == h \o vs
<1>1. h \in Seq(Unit) /\ Len(h) = HeaderUnits
  BY HandshakeFrames
<1>2. \A p \in 1 .. Len(us) : /\ us[p].m # Packet
                              /\ us[p].m = HelloMsg => p <= HeaderUnits
  BY DEF Hears
<1> HIDE DEF h
<1>3. /\ Len(vs) \in Nat /\ Len(us) = HeaderUnits + Len(vs)
      /\ \A i \in 1 .. Len(vs) : us[HeaderUnits + i] = vs[i]
  BY <1>1, Joining
<1> HIDE DEF us
<1>4. ASSUME NEW p \in 1 .. Len(vs)
      PROVE  vs[p].m \notin {Packet, HelloMsg}
  <2>1. HeaderUnits + p \in 1 .. Len(us) /\ ~(HeaderUnits + p <= HeaderUnits)
    BY <1>3
  <2> QED BY <1>2, <1>3, <2>1
<1> QED BY <1>4 DEF Hears

LEMMA ReceiveHelloMessageDirections ==
  ASSUME Inv, Inv', Agreed, Deliver, NEW f \in End, ReceiveHelloMessage(f)
  PROVE  /\ Direction(f)' /\ Direction(Other(f))'
         /\ err' = err \/ (err' = [err EXCEPT ![f] = "BAD_FRAME"] /\ conn[f] \in dropped)
<1> DEFINE o == Other(f)
<1>1. /\ o \in End /\ o # f /\ Other(o) = f /\ TypeOK /\ TypeOK' /\ Shut
      /\ Direction(f) /\ Direction(o) /\ queued[o] \in Nat
      /\ taken[f] \in Nat /\ incoming[f] \in Seq(Message) /\ Queue(f) \in Seq(Unit)
  BY Actors
<1>2. /\ conn[f] # 0 /\ status[f] = "handshake_hello_sent" /\ err[f] = "none"
      /\ UNCHANGED <<session, outStream, queues, history>>
  BY DEF ReceiveHelloMessage, CanHandshake, Usable
<1>3. PICK n \in Receivable(f, InCap - Len(inStream[f])) \ {0} :
        /\ net' = NetAfter(f, n, <<>>, 0)
        /\ \/ /\ inStream' = [inStream EXCEPT ![f] = Joined(f, n)]
              /\ UNCHANGED <<status, err>>
           \/ /\ Parse(Joined(f, n)) = "bad"
              /\ inStream' = [inStream EXCEPT ![f] = Joined(f, n)]
              /\ Fail(f, "BAD_FRAME")
           \/ /\ Parse(Joined(f, n)) = "message"
              /\ inStream' = [inStream EXCEPT
                                ![f] = Drop(Joined(f, n), Size(Joined(f, n)[1].m))]
              /\ Joined(f, n)[1].m = HelloMsg =>
                   /\ status' = [status EXCEPT ![f] = "ready"]
                   /\ UNCHANGED err
  BY DEF ReceiveHelloMessage, Joined
<1>4. Joined(f, n) \in Seq(Unit) /\ CanMove(f, n, <<>>, 0)
  <2>1. InCap - Len(inStream[f]) \in Nat
    BY <1>1, StreamTypes
  <2> QED BY <1>1, <1>2, <2>1, JoinedLength
<1>5. f = "server" /\ o = "client"
  BY <1>2 DEF Inv, Links, End, Other
<1>6. UNCHANGED sockets /\ dropped' = dropped
      /\ conn' = conn /\ incoming' = incoming /\ taken' = taken /\ outgoing' = outgoing
      /\ queued' = queued /\ outStream' = outStream
  BY <1>2 DEF session, sockets, queues, history
<1> DEFINE us == UnitsTo(f)
           s == Joined(f, n)
           t == Drop(Arrived(f), n) \o Unsent(f)
<1>7. /\ us \in Seq(Unit) /\ s \in Seq(Unit) /\ t \in Seq(Unit) /\ us = s \o t
  <2>1. /\ Joined(f, n) \in Seq(Unit) /\ Drop(Arrived(f), n) \in Seq(Unit)
        /\ UnitsTo(f) = Joined(f, n) \o (Drop(Arrived(f), n) \o Unsent(f))
    BY <1>1, <1>2, <1>4, ReceivedUnits
  <2>2. Unsent(f) \in Seq(Unit) /\ UnitsTo(f) \in Seq(Unit)
    BY <1>1, <1>2, LineTypes
  <2> QED BY <2>1, <2>2, Joining
<1>8. /\ Flow(incoming[f], us, Queue(f), conn[f], taken[f], Served(f), queued[o],
              conn[f] \in dropped)
      /\ Hears("handshake_hello_sent", us, Served(f), status[o] = "ready")
  BY <1>1, <1>2 DEF Direction, Healthy
<1>9. /\ \A k \in Conns : net'[k][o] = net[k][o]
      /\ net'[conn[f]][f] = Drop(Arrived(f), n)
  BY <1>1, <1>3, <1>4, NetUnsent DEF Arrived
<1>10. us # <<>> => us[1].m = HelloMsg
  BY <1>8 DEF Hears
<1>11. ASSUME err' = err, inStream'[o] = inStream[o], status'[o] = status[o]
       PROVE  Direction(o)'
  <2>1. Untouched(o) /\ Healthy(f)' = Healthy(f) /\ outStream'[f] = outStream[f]
        /\ outgoing'[f] = outgoing[f] /\ queued'[f] = queued[f]
    BY <1>6, <1>11 DEF Untouched, Healthy
  <2>2. status[o] # "handshake_hello_sent"
    BY <1>5 DEF Inv, Links
  <2> QED BY <1>1, <1>6, <1>9, <1>11, <2>1, <2>2, PeerKept
<1>12. CASE /\ inStream' = [inStream EXCEPT ![f] = Joined(f, n)]
            /\ UNCHANGED <<status, err>>
  <2>1. inStream'[f] = Joined(f, n) /\ inStream'[o] = inStream[o]
    BY <1>1, <1>12 DEF TypeOK
  <2>2. Untouched(f) /\ queued'[o] = queued[o] /\ status'[o] = status[o]
    BY <1>6, <1>12 DEF Untouched
  <2>3. Direction(f)'
    <3>1. Served(f)' = Served(f) /\ UnitsTo(f)' = UnitsTo(f)
      <4>1. /\ err'[o] = err[o] /\ outStream'[o] = outStream[o]
            /\ inStream'[f] \in Seq(Unit) /\ inStream'[f] = Joined(f, n)
        BY <1>4, <1>6, <1>12, <2>1
      <4> QED BY <1>1, <1>2, <1>4, <1>6, <1>9, <4>1, ReceiverUnits
    <3>2. Queue(f)' = Queue(f)
      BY <1>6, <3>1 DEF Queue
    <3> QED BY <1>1, <1>6, <2>2, <3>1, <3>2, DirectionKept
  <2>4. Direction(o)'
    BY <1>11, <1>12, <2>1
  <2> QED BY <1>12, <2>3, <2>4
<1>13. CASE /\ Parse(s) = "bad"
            /\ inStream' = [inStream EXCEPT ![f] = Joined(f, n)]
            /\ Fail(f, "BAD_FRAME")
  <2>1. /\ err'[f] # "none" /\ err' = [err EXCEPT ![f] = "BAD_FRAME"]
        /\ err'[o] = err[o] /\ status'[o] = status[o]
        /\ inStream'[o] = inStream[o]
    BY <1>1, <1>13 DEF TypeOK, Fail
  <2>2. Untouched(o)
    BY <1>6, <2>1 DEF Untouched
  <2>3. Direction(f)' /\ Direction(o)'
    BY <1>1, <1>6, <1>9, <2>1, <2>2, FailDirections
  <2>4. conn[f] \in dropped
    <3> SUFFICES ASSUME conn[f] \notin dropped
                 PROVE  FALSE
      OBVIOUS
    <3>1. InFrames(us)
      BY <1>8 DEF Flow
    <3>2. HelloMsg # Packet
      BY DEF HelloMsg, Packet
    <3> HIDE DEF us, s, t
    <3> QED BY <1>7, <1>10, <1>13, <3>1, <3>2, BeginningParses
  <2> QED BY <2>1, <2>3, <2>4
<1>14. CASE /\ Parse(s) = "message"
            /\ inStream' = [inStream EXCEPT ![f] = Drop(s, Size(s[1].m))]
            /\ s[1].m = HelloMsg => /\ status' = [status EXCEPT ![f] = "ready"]
                                    /\ UNCHANGED err
  <2> DEFINE r == Drop(s, Size(s[1].m))
             h == Frame(HelloMsg)
  <2>1. 1 \in 1 .. Len(s) /\ r \in Seq(Unit) /\ s = Frame(s[1].m) \o r
    <3> HIDE DEF s
    <3> QED BY <1>7, <1>14, ParsedFrame
  <2>2. s[1].m = HelloMsg
    <3> HIDE DEF us, s, t
    <3>1. /\ Len(s) \in Nat /\ Len(t) \in Nat /\ Len(us) = Len(s) + Len(t)
          /\ \A i \in 1 .. Len(s) : us[i] = s[i]
      BY <1>7, Joining
    <3>2. us # <<>>
      <4>1. Len(<<>>) = 0 /\ Len(us) # 0
        BY <2>1, <3>1, EmptySeq
      <4> QED BY <4>1
    <3> QED BY <1>10, <2>1, <3>1, <3>2
  <2>3. /\ inStream'[f] = r /\ inStream'[o] = inStream[o]
        /\ status'[f] = "ready" /\ status'[o] = status[o] /\ err' = err
    <3> HIDE DEF s, r
    <3>1. inStream' = [inStream EXCEPT ![f] = r]
      BY <1>14 DEF r
    <3> QED BY <1>1, <1>14, <2>2, <3>1 DEF TypeOK
  <2>4. h \in Seq(Unit) /\ s = h \o r /\ HelloMsg \in Wire /\ ~IsData(HelloMsg)
    <3>1. HelloMsg \in Wire /\ ~IsData(HelloMsg) /\ h \in Seq(Unit)
      BY HandshakeFrames DEF Wire, IsData, HelloMsg
    <3> HIDE DEF s, r
    <3> QED BY <2>1, <2>2, <3>1
  <2>5. Served(f)' = Served(f) /\ UnitsTo(f)' = r \o t
    <3>1. /\ err'[o] = err[o] /\ outStream'[o] = outStream[o] /\ inStream'[f] \in Seq(Unit)
      BY <1>6, <2>1, <2>3
    <3>2. Served(f)' = Served(f) /\ UnitsTo(f)' = inStream'[f] \o t
      <4> HIDE DEF r, s
      <4> QED BY <1>1, <1>2, <1>4, <1>6, <1>9, <3>1, ReceiverUnits
    <3> QED BY <2>3, <3>2
  <2> HIDE DEF us, s, t, r, h
  <2>6. us = h \o (r \o t) /\ r \o t \in Seq(Unit)
    <3>1. (h \o r) \o t = h \o (r \o t)
      <4>1. h \in Seq(Unit) /\ r \in Seq(Unit) /\ t \in Seq(Unit)
        BY <1>7, <2>1, <2>4
      <4> QED BY <4>1, Associates
    <3> QED BY <1>7, <2>1, <2>4, <3>1, Joining
  <2> DEFINE w == r \o t
  <2>7. us = h \o w /\ w \in Seq(Unit)
    BY <2>6
  <2> HIDE DEF w
  <2>8. /\ Flow(incoming[f], w, Queue(f), conn[f], taken[f], Served(f), queued[o],
                conn[f] \in dropped)
        /\ Hears("ready", w, Served(f), status[o] = "ready")
    <3>1. /\ Flow(incoming[f], h \o w, Queue(f), conn[f], taken[f], Served(f), queued[o],
                  conn[f] \in dropped)
          /\ Hears("handshake_hello_sent", h \o w, Served(f), status[o] = "ready")
      BY <1>8, <2>7
    <3>2. Hears("ready", w, Served(f), status[o] = "ready")
      BY <2>7, <3>1, HelloHeard DEF h
    <3>3. Flow(incoming[f], w, Queue(f), conn[f], taken[f], Served(f), queued[o],
               conn[f] \in dropped)
      BY <1>1, <2>4, <2>7, <3>1, FlowRead DEF h
    <3> QED BY <3>2, <3>3
  <2>9. Direction(f)'
    <3>1. Queue(f)' = Queue(f)
      BY <1>6, <2>5 DEF Queue
    <3>2. /\ Flow(incoming'[f], UnitsTo(f)', Queue(f)', conn'[f], taken'[f], Served(f)',
                  queued'[o], conn'[f] \in dropped')
          /\ Hears(status'[f], UnitsTo(f)', Served(f)', status'[o] = "ready")
      BY <1>6, <2>3, <2>5, <2>8, <3>1 DEF w
    <3> QED BY <3>2 DEF Direction
  <2>10. Direction(o)'
    BY <1>11, <2>3
  <2> QED BY <2>3, <2>9, <2>10
<1> QED BY <1>3, <1>12, <1>13, <1>14

-----------------------------------------------------------------------------
(***************************************************************************)
(* Connections that begin, end or lose their path.                         *)
(***************************************************************************)
LEMMA DirectionBegins ==
  ASSUME TypeOK', NEW e \in End,
         status'[e] \in {"handshake_not_started", "handshake_hello_scheduled"},
         incoming'[e] = <<>>, taken'[e] = 0, inStream'[e] = <<>>,
         net'[conn'[e]][e] = <<>>,
         Served(e)' => /\ outStream'[Other(e)] = <<>>
                       /\ Climbs(Heads(outgoing'[Other(e)]), conn'[e], 0)
                       /\ Ids(Heads(outgoing'[Other(e)])) = 1 .. queued'[Other(e)]
  PROVE  Direction(e)'
<1> DEFINE q == Heads(outgoing'[Other(e)])
           up == Served(e)'
           z == <<>>
<1>1. z \in Seq(Unit) /\ Len(z) = 0 /\ z \o z = z
  BY EmptySeq, ConcatEmptySeq
<1>2. UnitsTo(e)' = <<>>
  <2>1. UnitsTo(e)' = (inStream'[e] \o net'[conn'[e]][e])
                        \o (IF up THEN outStream'[Other(e)] ELSE <<>>)
    BY DEF UnitsTo
  <2>2. UnitsTo(e)' = (z \o z) \o z
    BY <2>1
  <2> QED BY <1>1, <2>2
<1>3. q \in Seq(Unit) /\ queued'[Other(e)] \in Nat
  <2>1. outgoing'[Other(e)] \in Seq(Message) /\ queued'[Other(e)] \in Nat
    BY DEF TypeOK, End, Other
  <2> QED BY <2>1, HeadsOfQueue
<1>4. Queue(e)' \in Seq(Unit) /\ Queue(e)' = IF up THEN q ELSE <<>>
  BY <1>1, <1>3 DEF Queue
<1>5. Flow(<<>>, <<>>, Queue(e)', conn'[e], 0, Served(e)', queued'[Other(e)],
           conn'[e] \in dropped')
  <2> DEFINE r == Queue(e)'
             k == conn'[e]
             most == queued'[Other(e)]
             cut == conn'[e] \in dropped'
  <2>1. /\ r \in Seq(Unit) /\ most \in Nat
        /\ up => Climbs(r, k, 0) /\ Ids(r) = 1 .. most
        /\ ~up => r = <<>>
    BY <1>3, <1>4
  <2> HIDE DEF r, k, most, cut, up
  <2>2. Flow(<<>>, <<>>, r, k, 0, up, most, cut)
    BY <2>1, FlowBegins
  <2> QED BY <2>2 DEF r, k, most, cut, up
<1>6. Hears(status'[e], <<>>, Served(e)', status'[Other(e)] = "ready")
  BY <1>1 DEF Hears
<1> QED BY <1>2, <1>5, <1>6 DEF Direction

LEMMA ConnectDirections ==
  ASSUME Inv, Inv', Agreed, Deliver, Connect
  PROVE  Direction("client")' /\ Direction("server")'
<1>1. /\ "client" \in End /\ "server" \in End
      /\ Other("client") = "server" /\ Other("server") = "client"
      /\ TypeOK /\ TypeOK' /\ Direction("server")
  BY DEF End, Other, Inv, Deliver
<1>2. opened + 1 \in Conns /\ opened \in Nat
  <2>1. opened < MaxConns
    BY DEF Connect
  <2> QED BY <1>1, <2>1 DEF TypeOK, Conns
<1>3. /\ conn["client"] = 0
      /\ conn' = [conn EXCEPT !["client"] = opened + 1]
      /\ status' = [status EXCEPT !["client"] = "handshake_not_started"]
      /\ queued' = [queued EXCEPT !["client"] = 0]
      /\ taken' = [taken EXCEPT !["client"] = 0]
      /\ UNCHANGED <<step, err, accepted, closed, lost, dropped, streams, queues>>
  BY DEF Connect, Begin
<1>4. /\ conn'["client"] = opened + 1 /\ conn'["server"] = conn["server"]
      /\ status'["client"] = "handshake_not_started" /\ status'["server"] = status["server"]
      /\ queued'["client"] = 0 /\ queued'["server"] = queued["server"]
      /\ taken'["client"] = 0 /\ taken'["server"] = taken["server"]
  BY <1>1, <1>3 DEF TypeOK
<1>5. ~Together /\ ~Together'
  <2>1. conn["server"] <= opened /\ conn["server"] \in Nat
    <3>1. conn["server"] \in 0 .. MaxConns /\ accepted \in 0 .. opened /\ opened \in Nat
      BY <1>1, <1>2 DEF TypeOK
    <3>2. conn["server"] <= accepted
      BY DEF Inv, Links
    <3> QED BY <3>1, <3>2
  <2>2. conn["server"] # opened + 1
    BY <1>2, <2>1
  <2> QED BY <1>3, <1>4, <2>2 DEF Together
<1>6. \A e \in End : ~Served(e) /\ ~Served(e)'
  BY <1>5 DEF Served, Linked
<1>7. Direction("client")'
  <2>1. /\ incoming'["client"] = <<>> /\ inStream'["client"] = <<>>
        /\ net'[opened + 1]["client"] = <<>>
    <3>1. opened + 1 > accepted
      BY <1>1, <1>2 DEF TypeOK
    <3> QED BY <1>1, <1>3, <1>2, <3>1 DEF Inv, Clear, Agreed, Fresh, streams, queues
  <2> QED BY <1>1, <1>4, <1>6, <2>1, DirectionBegins
<1>8. Direction("server")'
  <2>1. Untouched("server")
    BY <1>3, <1>4 DEF Untouched, queues
  <2>2. UnitsTo("server")' = UnitsTo("server")
    BY <1>1, <1>3, <1>4, <1>6 DEF UnitsTo, streams
  <2> QED BY <1>1, <1>3, <1>4, <1>6, <2>1, <2>2, UnservedKept
<1> QED BY <1>7, <1>8

LEMMA ShutdownDirections ==
  ASSUME Inv, Inv', Deliver, NEW f \in End, Shutdown(f)
  PROVE  Direction(f)' /\ Direction(Other(f))'
<1> DEFINE o == Other(f)
<1>1. o \in End /\ o # f /\ Other(o) = f /\ TypeOK /\ TypeOK' /\ Direction(o)
  BY Actors
<1>2. /\ conn[f] # 0
      /\ inStream' = [inStream EXCEPT ![f] = <<>>]
      /\ incoming' = [incoming EXCEPT ![f] = <<>>]
      /\ net' = [net EXCEPT ![conn[f]][f] = <<>>]
      /\ status' = [status EXCEPT ![f] = "uninitialized"]
      /\ err' = [err EXCEPT ![f] = "none"]
      /\ conn' = [conn EXCEPT ![f] = 0]
      /\ queued' = [queued EXCEPT ![f] = 0]
      /\ taken' = [taken EXCEPT ![f] = 0]
      /\ dropped' = dropped
  BY DEF Shutdown, ClearBuffers, CloseSocket
<1>3. conn'[f] = 0 /\ queued'[f] = 0 /\ Untouched(o) /\ inStream'[o] = inStream[o]
  BY <1>1, <1>2 DEF TypeOK, Untouched
<1>4. ~Served(o)'
  BY <1>3 DEF Served, Linked, Together, End
<1>5. conn[o] # 0 => net'[conn[o]][o] = net[conn[o]][o]
  <2>1. conn[o] # 0 => conn[o] \in Conns
    BY <1>1, ConnOfSocket
  <2> QED BY <1>1, <1>2, <2>1 DEF TypeOK
<1>6. Direction(o)'
  BY <1>1, <1>2, <1>3, <1>4, <1>5, SenderGone
<1>7. Direction(f)'
  BY <1>3 DEF Direction
<1> QED BY <1>6, <1>7

LEMMA LosePathDirections ==
  ASSUME Inv, Inv', Deliver, NEW k \in Conns, LosePath(k), NEW e \in End
  PROVE  Direction(e)'
<1> DEFINE o == Other(e)
<1>1. o \in End /\ o # e /\ Other(o) = e /\ TypeOK /\ TypeOK' /\ Direction(e)
      /\ queued'[o] \in Nat
  BY Actors
<1>2. /\ lost' = lost \cup {k} /\ net' = [net EXCEPT ![k] = [f \in End |-> <<>>]]
      /\ UNCHANGED <<status, step, err, conn, opened, accepted, closed, dropped, inStream,
                     outStream, queues, history>>
  BY DEF LosePath
<1>3. Untouched(e) /\ conn' = conn /\ dropped' = dropped
  BY <1>2 DEF Untouched, queues, history
<1>4. CASE conn[e] = 0
  BY <1>3, <1>4 DEF Direction
<1>5. CASE conn[e] = k /\ conn[e] # 0
  <2>1. /\ inStream[e] \in Seq(Unit) /\ net[k][e] \in Seq(Unit) /\ Unsent(e) \in Seq(Unit)
        /\ UnitsTo(e) = Landed(e) \o Unsent(e)
    BY <1>1, <1>5, LineTypes
  <2> DEFINE x == inStream[e]
             y == net[k][e]
             z == Unsent(e)
  <2>2. y \o z \in Seq(Unit) /\ UnitsTo(e) = x \o (y \o z)
    <3>1. UnitsTo(e) = (x \o y) \o z
      BY <1>5, <2>1 DEF Landed
    <3>2. x \in Seq(Unit) /\ y \in Seq(Unit) /\ z \in Seq(Unit)
      BY <2>1
    <3> HIDE DEF x, y, z
    <3>3. (x \o y) \o z = x \o (y \o z)
      BY <3>2, Associates
    <3> QED BY <3>1, <3>2, <3>3, Joining
  <2>3. ~Served(e)'
    BY <1>1, <1>2, <1>3, <1>5 DEF Served, Linked, Together, End
  <2>4. UnitsTo(e)' = x
    <3>1. net'[k][e] = <<>> /\ inStream' = inStream
      BY <1>1, <1>2 DEF TypeOK
    <3>2. UnitsTo(e)' = (inStream'[e] \o net'[conn'[e]][e]) \o <<>>
      BY <2>3 DEF UnitsTo
    <3>3. UnitsTo(e)' = (x \o <<>>) \o <<>>
      BY <1>3, <1>5, <3>1, <3>2
    <3>4. x \in Seq(Unit)
      BY <2>1
    <3> HIDE DEF x
    <3>5. x \o <<>> = x
      BY <3>4, ConcatEmptySeq
    <3> QED BY <3>3, <3>5
  <2>5. x \in Seq(Unit) /\ y \o z \in Seq(Unit)
    BY <2>1, <2>2
  <2> HIDE DEF x, y, z
  <2> QED BY <1>1, <1>3, <2>2, <2>3, <2>4, <2>5, DirectionCut
<1>6. CASE conn[e] # k /\ conn[e] # 0
  <2>1. Served(e)' = Served(e)
    <3>1. conn["server"] = conn["client"] => conn["server"] # k
      BY <1>6 DEF End
    <3> QED BY <1>2, <3>1 DEF Served, Linked, Together, Healthy
  <2>2. net'[conn[e]][e] = net[conn[e]][e]
    <3>1. conn[e] \in Conns
      BY <1>1, <1>6, ConnOfSocket
    <3> QED BY <1>1, <1>2, <1>6, <3>1 DEF TypeOK
  <2>3. UnitsTo(e)' = UnitsTo(e)
    BY <1>2, <2>1, <2>2 DEF UnitsTo
  <2>4. Queue(e)' = Queue(e) /\ queued'[o] = queued[o] /\ status'[o] = status[o]
    BY <1>2, <2>1 DEF Queue, queues, history
  <2> QED BY <1>1, <1>3, <2>1, <2>3, <2>4, DirectionKept
<1> QED BY <1>4, <1>5, <1>6

LEMMA AcceptDirections ==
  ASSUME Inv, Inv', Agreed, Deliver, Accept
  PROVE  Direction("server")' /\ Direction("client")'
<1> DEFINE k == accepted + 1
<1>1. /\ "client" \in End /\ "server" \in End /\ "client" # "server"
      /\ Other("client") = "server" /\ Other("server") = "client"
      /\ TypeOK /\ TypeOK' /\ Direction("client") /\ queued'["server"] \in Nat
  BY Actors DEF End, Other, Inv, Deliver
<1>2. k \in Conns /\ k > accepted /\ accepted \in Nat
  <2>1. accepted < opened
    BY DEF Accept
  <2> QED BY <1>1, <2>1 DEF TypeOK, Conns
<1>3. /\ conn' = [conn EXCEPT !["server"] = k]
      /\ status' = [status EXCEPT !["server"] = "handshake_hello_scheduled"]
      /\ queued' = [queued EXCEPT !["server"] = 0]
      /\ taken' = [taken EXCEPT !["server"] = 0]
      /\ UNCHANGED <<step, err, opened, lost, dropped>>
      /\ IF conn["server"] = 0
           THEN UNCHANGED <<closed, streams, queues>>
           ELSE CloseSocket("server") /\ ClearBuffers("server")
  BY DEF Accept, Begin
<1>4. /\ conn'["server"] = k /\ conn'["client"] = conn["client"]
      /\ status'["server"] = "handshake_hello_scheduled" /\ status'["client"] = status["client"]
      /\ queued'["server"] = 0 /\ queued'["client"] = queued["client"]
      /\ taken'["server"] = 0 /\ taken'["client"] = taken["client"]
  BY <1>1, <1>3 DEF TypeOK
<1>5. /\ inStream'["server"] = <<>> /\ outStream'["server"] = <<>>
      /\ incoming'["server"] = <<>> /\ outgoing'["server"] = <<>>
  <2>1. CASE conn["server"] = 0
    BY <1>1, <1>3, <2>1 DEF Inv, Clear, Deliver, Idle, streams, queues
  <2>2. CASE conn["server"] # 0
    <3>1. /\ inStream' = [inStream EXCEPT !["server"] = <<>>]
          /\ outStream' = [outStream EXCEPT !["server"] = <<>>]
          /\ incoming' = [incoming EXCEPT !["server"] = <<>>]
          /\ outgoing' = [outgoing EXCEPT !["server"] = <<>>]
      BY <1>3, <2>2 DEF ClearBuffers
    <3>2. /\ inStream \in [End -> Seq(Unit)] /\ outStream \in [End -> Seq(Unit)]
          /\ incoming \in [End -> Seq(Message)] /\ outgoing \in [End -> Seq(Message)]
      BY <1>1 DEF TypeOK
    <3> QED BY <1>1, <3>1, <3>2
  <2> QED BY <2>1, <2>2
<1>6. /\ inStream'["client"] = inStream["client"] /\ outStream'["client"] = outStream["client"]
      /\ incoming'["client"] = incoming["client"] /\ outgoing'["client"] = outgoing["client"]
  <2>1. CASE conn["server"] = 0
    BY <1>3, <2>1 DEF streams, queues
  <2>2. CASE conn["server"] # 0
    <3>1. /\ inStream' = [inStream EXCEPT !["server"] = <<>>]
          /\ outStream' = [outStream EXCEPT !["server"] = <<>>]
          /\ incoming' = [incoming EXCEPT !["server"] = <<>>]
          /\ outgoing' = [outgoing EXCEPT !["server"] = <<>>]
      BY <1>3, <2>2 DEF ClearBuffers
    <3>2. /\ inStream \in [End -> Seq(Unit)] /\ outStream \in [End -> Seq(Unit)]
          /\ incoming \in [End -> Seq(Message)] /\ outgoing \in [End -> Seq(Message)]
      BY <1>1 DEF TypeOK
    <3> QED BY <1>1, <3>1, <3>2
  <2> QED BY <2>1, <2>2
<1>7. /\ \A j \in Conns : net'[j]["client"] = net[j]["client"]
      /\ net'[k]["server"] = net[k]["server"]
  <2>1. CASE conn["server"] = 0
    BY <1>3, <2>1 DEF streams
  <2>2. CASE conn["server"] # 0
    <3>1. conn["server"] # k /\ conn["server"] \in Conns
      <4>1. conn["server"] <= accepted /\ conn["server"] \in Conns
        BY <1>1, <2>2, ConnOfSocket DEF Inv, Links
      <4> QED BY <1>2, <4>1 DEF Conns
    <3>2. net' = [net EXCEPT ![conn["server"]]["server"] = <<>>]
      BY <1>3, <2>2 DEF CloseSocket
    <3> HIDE DEF k
    <3> QED BY <1>1, <1>2, <3>1, <3>2 DEF TypeOK
  <2> QED BY <2>1, <2>2
<1>8. net'[k]["server"] = <<>> /\ net'[k]["client"] = <<>>
  <2>1. net[k]["server"] = <<>> /\ net[k]["client"] = <<>>
    BY <1>1, <1>2 DEF Agreed, Fresh
  <2> HIDE DEF k
  <2> QED BY <1>2, <1>7, <2>1
<1>9. ASSUME conn["client"] = k
      PROVE  /\ inStream["client"] = <<>> /\ outStream["client"] = <<>>
             /\ Healthy("client") =>
                  /\ status["client"] = "handshake_not_started"
                  /\ incoming["client"] = <<>> /\ taken["client"] = 0
                  /\ Climbs(Heads(outgoing["client"]), k, 0)
                  /\ Ids(Heads(outgoing["client"])) = 1 .. queued["client"]
  <2>1. /\ inStream["client"] = <<>> /\ outStream["client"] = <<>>
        /\ status["client"] \in {"handshake_not_started", "error"}
    BY <1>2, <1>9 DEF Agreed, Fresh
  <2>2. ASSUME Healthy("client")
        PROVE  status["client"] = "handshake_not_started"
    BY <1>1, <2>1, <2>2 DEF Healthy, Deliver, Idle
  <2>3. ASSUME status["client"] = "handshake_not_started"
        PROVE  incoming["client"] = <<>> /\ taken["client"] = 0
    <3>1. taken["client"] \in Nat
      BY <1>1 DEF TypeOK
    <3> QED BY <1>1, <2>3, <3>1 DEF Agreed, Reading
  <2>4. ASSUME status["client"] = "handshake_not_started"
        PROVE  /\ Climbs(Heads(outgoing["client"]), k, 0)
               /\ Ids(Heads(outgoing["client"])) = 1 .. queued["client"]
    BY <1>1, <1>9, <2>4 DEF Deliver, Queues
  <2> QED BY <2>1, <2>2, <2>3, <2>4
<1>10. Direction("server")'
  <2>1. ASSUME Served("server")'
        PROVE  /\ outStream'["client"] = <<>>
               /\ Climbs(Heads(outgoing'["client"]), conn'["server"], 0)
               /\ Ids(Heads(outgoing'["client"])) = 1 .. queued'["client"]
    <3>1. conn["client"] = k /\ Healthy("client")
      BY <1>1, <1>3, <1>4, <2>1 DEF Served, Linked, Together, Healthy
    <3> QED BY <1>4, <1>6, <1>9, <3>1
  <2> QED BY <1>1, <1>4, <1>5, <1>8, <2>1, DirectionBegins
<1>11. Direction("client")'
  <2>1. CASE conn["client"] = k
    <3>1. CASE Healthy("client")
      <4>1. /\ status'["client"] = "handshake_not_started" /\ incoming'["client"] = <<>>
            /\ taken'["client"] = 0 /\ inStream'["client"] = <<>>
            /\ net'[conn'["client"]]["client"] = <<>>
        BY <1>4, <1>6, <1>8, <1>9, <2>1, <3>1
      <4>2. Climbs(<<>>, k, 0) /\ Ids(<<>>) = {} /\ Heads(<<>>) = <<>> /\ 1 .. 0 = {}
        BY NothingQueued
      <4> HIDE DEF k
      <4> QED BY <1>1, <1>4, <1>5, <2>1, <4>1, <4>2, DirectionBegins
    <3>2. CASE ~Healthy("client")
      BY <1>3, <3>2 DEF Direction, Healthy
    <3> QED BY <3>1, <3>2
  <2>2. CASE conn["client"] # k
    <3>1. ~Served("client")'
      BY <1>4, <2>2 DEF Served, Linked, Together
    <3>2. Untouched("client")
      BY <1>3, <1>4, <1>6 DEF Untouched
    <3>3. conn["client"] # 0 => conn["client"] \in Conns
      BY <1>1, ConnOfSocket
    <3> QED BY <1>1, <1>3, <1>6, <1>7, <3>1, <3>2, <3>3, SenderGone
  <2> QED BY <2>1, <2>2
<1> QED BY <1>10, <1>11

-----------------------------------------------------------------------------
(***************************************************************************)
(* The rest of the invariant: what the calls and the updates of an end f   *)
(* do to its flags and its queue, and to nothing of the other end.         *)
(***************************************************************************)
Foreign == {"RECEIVE_BEFORE_SEND", "HELLO_INVALID", "BAD_FRAME",
            "HELLO_MESSAGE_REPLY_INVALID"}
Early == Status \ {"ready", "error"}

Acts(f) ==
  /\ conn[f] # 0 /\ UNCHANGED sockets /\ dropped \subseteq dropped'
  /\ \A e \in End \ {f} :
       /\ status'[e] = status[e] /\ err'[e] = err[e] /\ step'[e] = step[e]
       /\ outgoing'[e] = outgoing[e] /\ queued'[e] = queued[e] /\ taken'[e] = taken[e]
  /\ status'[f] = "error" => err'[f] # "none"
  /\ step'[f] # "idle" => err'[f] = "none"
  /\ status'[f] \in Early => status[f] \in Early
  /\ \/ outgoing'[f] = outgoing[f] /\ queued'[f] = queued[f]
     \/ /\ outgoing'[f] = Append(outgoing[f], Data(conn[f], queued[f] + 1))
        /\ queued'[f] = queued[f] + 1
     \/ /\ status'[f] \notin Early
        /\ \/ outgoing'[f] = Append(outgoing[f], Health)
           \/ outgoing[f] # <<>> /\ outgoing'[f] = Tail(outgoing[f])
  /\ err'[f] \notin Foreign \/ err'[f] = err[f] \/ conn[f] \in dropped'

LEMMA FailActs ==
  ASSUME TypeOK, NEW f \in End, conn[f] # 0, NEW x, x # "none", x \notin Foreign,
         Fail(f, x), UNCHANGED <<session, queues, history>>
  PROVE  Acts(f)
<1>1. /\ status'[f] = "error" /\ err'[f] = x /\ step'[f] = "idle"
      /\ \A e \in End \ {f} :
           status'[e] = status[e] /\ err'[e] = err[e] /\ step'[e] = step[e]
  <2>1. /\ status \in [End -> Status] /\ err \in [End -> Errors]
        /\ step \in [End -> {"idle", "sending", "receiving", "reading"}]
    BY DEF TypeOK
  <2> QED BY <2>1 DEF Fail
<1> QED BY <1>1 DEF Acts, Early, session, queues, history

LEMMA QuietFailsActs ==
  ASSUME Inv, NEW f \in End,
         HandshakeTimeout(f) \/ HealthTimeout(f) \/ HealthQueueFull(f) \/ SocketError(f)
  PROVE  Acts(f)
<1>1. TypeOK
  BY DEF Inv
<1>2. conn[f] # 0
  BY DEF HandshakeTimeout, HealthTimeout, HealthQueueFull, SocketError, CanUpdate, CanHandshake,
     Usable, Inv, Links
<1>3. UNCHANGED <<session, queues, history>>
  BY DEF HandshakeTimeout, HealthTimeout, HealthQueueFull, SocketError
<1>4. PICK x \in {"HANDSHAKE_TIMEOUT", "HEALTH_TIMEOUT", "OUTGOING_QUEUE_INSUFFICIENT_SPACE",
                  "SOCKET_FAILED"} : Fail(f, x)
  BY DEF HandshakeTimeout, HealthTimeout, HealthQueueFull, SocketError
<1> QED BY <1>1, <1>2, <1>3, <1>4, FailActs DEF Foreign

LEMMA SendLeftoverFailsActs ==
  ASSUME Inv, NEW f \in End, SendLeftoverFails(f)
  PROVE  Acts(f)
<1>1. /\ conn[f] # 0 /\ step[f] = "idle" /\ status[f] = "ready"
      /\ err' = [err EXCEPT ![f] = "SOCKET_SEND_FAILED"]
      /\ UNCHANGED <<status, step, session, streams, queues, history>>
  BY DEF SendLeftoverFails, CanUpdate, Usable
<1>2. err'[f] = "SOCKET_SEND_FAILED" /\ \A e \in End \ {f} : err'[e] = err[e]
  BY <1>1 DEF Inv, TypeOK
<1> QED BY <1>1, <1>2 DEF Acts, Early, Foreign, session, queues, history

LEMMA OwnerActs ==
  ASSUME Inv, Idle, NEW f \in End, AddOutgoing(f) \/ RemoveIncoming(f)
  PROVE  Acts(f)
<1>1. /\ conn[f] # 0 /\ step[f] = "idle" /\ err[f] = "none"
      /\ UNCHANGED <<status, step, err, session>> /\ status[f] # "error"
  BY DEF AddOutgoing, RemoveIncoming, Usable, Idle
<1>2. /\ outgoing \in [End -> Seq(Message)] /\ queued \in [End -> 0 .. MaxData]
      /\ taken \in [End -> Nat]
  BY DEF Inv, TypeOK
<1>3. CASE AddOutgoing(f)
  <2>1. /\ queued' = [queued EXCEPT ![f] = queued[f] + 1]
        /\ outgoing' = [outgoing EXCEPT
                          ![f] = Append(outgoing[f], Data(conn[f], queued[f] + 1))]
        /\ taken' = taken
    BY <1>3 DEF AddOutgoing
  <2> DEFINE q == Append(outgoing[f], Data(conn[f], queued[f] + 1))
  <2>2. /\ queued'[f] = queued[f] + 1 /\ outgoing'[f] = q
        /\ \A e \in End \ {f} : queued'[e] = queued[e] /\ outgoing'[e] = outgoing[e]
    <3>1. outgoing' = [outgoing EXCEPT ![f] = q]
      BY <2>1
    <3> HIDE DEF q
    <3> QED BY <1>2, <2>1, <3>1
  <2> QED BY <1>1, <2>1, <2>2 DEF Acts, session
<1>4. CASE RemoveIncoming(f)
  <2>1. taken' = [taken EXCEPT ![f] = taken[f] + 1] /\ UNCHANGED <<outgoing, queued>>
    BY <1>4 DEF RemoveIncoming
  <2> QED BY <1>1, <1>2, <2>1 DEF Acts, session
<1> QED BY <1>3, <1>4

LEMMA HandshakeActs ==
  ASSUME Inv, Inv', Agreed, Deliver, NEW f \in End,
         SendHello(f) \/ ReceiveHello(f) \/ ReceiveHelloMessage(f)
  PROVE  Acts(f)
<1>1. /\ status \in [End -> Status] /\ err \in [End -> Errors]
      /\ step \in [End -> {"idle", "sending", "receiving", "reading"}]
  BY DEF Inv, TypeOK
<1>2. /\ conn[f] # 0 /\ step[f] = "idle" /\ err[f] = "none" /\ status[f] \in Early
      /\ UNCHANGED <<session, queues, history>>
  <2>1. status[f] \in Handshaking /\ Usable(f) /\ UNCHANGED <<session, queues, history>>
    BY DEF SendHello, ReceiveHello, ReceiveHelloMessage, CanHandshake, Handshaking
  <2> QED BY <2>1 DEF Early, Status, Handshaking, Usable
<1>3. ASSUME step' = step, status'[f] # "error",
             \A e \in End \ {f} : status'[e] = status[e], err' = err
      PROVE  Acts(f)
  BY <1>2, <1>3 DEF Acts, session, queues, history
<1>4. ASSUME Fail(f, "BAD_FRAME"), conn[f] \in dropped
      PROVE  Acts(f)
  <2>1. /\ status'[f] = "error" /\ err'[f] = "BAD_FRAME" /\ step'[f] = "idle"
        /\ \A e \in End \ {f} :
             status'[e] = status[e] /\ err'[e] = err[e] /\ step'[e] = step[e]
    BY <1>1, <1>4 DEF Fail
  <2> QED BY <1>2, <1>4, <2>1 DEF Acts, Early, session, queues, history
<1>5. ASSUME NEW x, Fail(f, x)
      PROVE  err'[f] = x
  BY <1>1, <1>5 DEF Fail
<1>6. CASE SendHello(f)
  <2>1. err' = err
    BY <1>6, SendHelloDirections
  <2>2. \E st \in {"handshake_hello_sent", status[f]} :
          status' = [status EXCEPT ![f] = st] /\ step' = step
    <3>1. ~Fail(f, "RECEIVE_BEFORE_SEND")
      BY <1>2, <1>5, <2>1
    <3> QED BY <1>6, <3>1 DEF SendHello
  <2>3. status'[f] # "error" /\ \A e \in End \ {f} : status'[e] = status[e]
    BY <1>1, <1>2, <2>2 DEF Early
  <2> QED BY <1>3, <2>1, <2>2, <2>3
<1>7. CASE ReceiveHello(f)
  <2>1. err' = err
    BY <1>7, ReceiveHelloDirections
  <2>2. \E st \in {"ready", status[f]} :
          (status' = [status EXCEPT ![f] = st] \/ status' = status) /\ step' = step
    <3>1. ~Fail(f, "HELLO_INVALID")
      BY <1>2, <1>5, <2>1
    <3> QED BY <1>7, <3>1 DEF ReceiveHello
  <2>3. status'[f] # "error" /\ \A e \in End \ {f} : status'[e] = status[e]
    BY <1>1, <1>2, <2>2 DEF Early
  <2> QED BY <1>3, <2>1, <2>2, <2>3
<1>8. CASE ReceiveHelloMessage(f)
  <2>1. err' = err \/ (err' = [err EXCEPT ![f] = "BAD_FRAME"] /\ conn[f] \in dropped)
    BY <1>8, ReceiveHelloMessageDirections
  <2>2. err'[f] \in {"none", "BAD_FRAME"}
    BY <1>1, <1>2, <2>1
  <2>3. ~Fail(f, "HELLO_MESSAGE_REPLY_INVALID")
    BY <1>5, <2>2
  <2>4. \/ Fail(f, "BAD_FRAME")
        \/ (status' = [status EXCEPT ![f] = "ready"] \/ status' = status)
             /\ step' = step /\ err' = err
    BY <1>8, <2>3 DEF ReceiveHelloMessage
  <2>5. CASE Fail(f, "BAD_FRAME")
    <3>1. conn[f] \in dropped
      BY <1>2, <1>5, <2>1, <2>5
    <3> QED BY <1>4, <2>5, <3>1
  <2>6. CASE (status' = [status EXCEPT ![f] = "ready"] \/ status' = status)
               /\ step' = step /\ err' = err
    <3>1. status'[f] # "error" /\ \A e \in End \ {f} : status'[e] = status[e]
      BY <1>1, <1>2, <2>6 DEF Early
    <3> QED BY <1>3, <2>6, <3>1
  <2> QED BY <2>4, <2>5, <2>6
<1> QED BY <1>6, <1>7, <1>8

LEMMA BeginUpdateActs ==
  ASSUME Inv, NEW f \in End, BeginUpdate(f)
  PROVE  Acts(f)
<1>1. /\ conn[f] # 0 /\ err[f] = "none" /\ status[f] = "ready"
      /\ UNCHANGED <<status, err, sockets, queued, taken>>
      /\ SendPending(f, outStream[f])
  BY DEF BeginUpdate, CanUpdate, Usable
<1>2. PICK due \in {FALSE, TRUE} :
        LET q == IF due THEN Append(outgoing[f], Health) ELSE outgoing[f] IN
        /\ outgoing' = [outgoing EXCEPT ![f] = q]
        /\ step' = [step EXCEPT ![f] = IF Writable(f) THEN After(q) ELSE "idle"]
  BY DEF BeginUpdate
<1>3. dropped \subseteq dropped'
  BY <1>1 DEF SendPending
<1>4. /\ outgoing'[f] \in {outgoing[f], Append(outgoing[f], Health)}
      /\ \A e \in End \ {f} : outgoing'[e] = outgoing[e]
  <2> DEFINE q == IF due THEN Append(outgoing[f], Health) ELSE outgoing[f]
  <2>1. outgoing' = [outgoing EXCEPT ![f] = q] /\ outgoing \in [End -> Seq(Message)]
    BY <1>2 DEF Inv, TypeOK
  <2>2. q \in {outgoing[f], Append(outgoing[f], Health)}
    OBVIOUS
  <2> HIDE DEF q
  <2> QED BY <2>1, <2>2
<1>5. \A e \in End \ {f} : step'[e] = step[e]
  BY <1>2 DEF Inv, TypeOK
<1> QED BY <1>1, <1>3, <1>4, <1>5 DEF Acts, Early

LEMMA SendNextActs ==
  ASSUME Inv, Idle, NEW f \in End, SendNext(f)
  PROVE  Acts(f)
<1>1. /\ status \in [End -> Status] /\ err \in [End -> Errors]
      /\ step \in [End -> {"idle", "sending", "receiving", "reading"}]
      /\ outgoing \in [End -> Seq(Message)]
  BY DEF Inv, TypeOK
<1>2. /\ conn[f] # 0 /\ err[f] = "none" /\ status[f] = "ready" /\ outgoing[f] # <<>>
      /\ UNCHANGED <<sockets, queued, taken>>
      /\ outgoing' = [outgoing EXCEPT ![f] = Tail(outgoing[f])]
  BY DEF SendNext, Inv, Links, Idle, history
<1>3. outgoing'[f] = Tail(outgoing[f]) /\ \A e \in End \ {f} : outgoing'[e] = outgoing[e]
  BY <1>1, <1>2
<1>4. \/ \E x \in {"OUT_MESSAGE_TOO_BIG_FOR_STREAM", "SOCKET_SEND_FAILED"} :
           Fail(f, x) /\ dropped' = dropped
      \/ /\ SendPending(f, outStream[f] \o Frame(Head(outgoing[f])))
         /\ step' = [step EXCEPT ![f] = After(Tail(outgoing[f]))]
         /\ UNCHANGED <<status, err>>
  BY DEF SendNext
<1>5. CASE \E x \in {"OUT_MESSAGE_TOO_BIG_FOR_STREAM", "SOCKET_SEND_FAILED"} :
             Fail(f, x) /\ dropped' = dropped
  <2>1. PICK x \in {"OUT_MESSAGE_TOO_BIG_FOR_STREAM", "SOCKET_SEND_FAILED"} :
          Fail(f, x) /\ dropped' = dropped
    BY <1>5
  <2>2. /\ status'[f] = "error" /\ err'[f] = x /\ step'[f] = "idle"
        /\ \A e \in End \ {f} :
             status'[e] = status[e] /\ err'[e] = err[e] /\ step'[e] = step[e]
    BY <1>1, <2>1 DEF Fail
  <2> QED BY <1>2, <1>3, <2>1, <2>2 DEF Acts, Early, Foreign
<1>6. CASE /\ SendPending(f, outStream[f] \o Frame(Head(outgoing[f])))
           /\ step' = [step EXCEPT ![f] = After(Tail(outgoing[f]))]
           /\ UNCHANGED <<status, err>>
  <2>1. dropped \subseteq dropped'
    BY <1>6 DEF SendPending
  <2>2. \A e \in End \ {f} : step'[e] = step[e]
    BY <1>1, <1>6
  <2> QED BY <1>2, <1>3, <1>6, <2>1, <2>2 DEF Acts, Early
<1> QED BY <1>4, <1>5, <1>6

LEMMA ReceiveActs ==
  ASSUME Inv, Idle, NEW f \in End, Receive(f, 0) \/ ReceiveSome(f)
  PROVE  Acts(f)
<1>1. PICK n : Receive(f, n)
  BY DEF ReceiveSome
<1>2. /\ conn[f] # 0 /\ err[f] = "none" /\ status[f] = "ready"
      /\ UNCHANGED <<status, err, session, queues, history>>
  BY <1>1 DEF Receive, Inv, Links, Idle
<1>3. \A e \in End \ {f} : step'[e] = step[e]
  BY <1>1 DEF Receive, Inv, TypeOK
<1> QED BY <1>2, <1>3 DEF Acts, Early, session, queues, history

LEMMA ReadMessageActs ==
  ASSUME Inv, Inv', Deliver, NEW f \in End, ReadMessage(f)
  PROVE  Acts(f)
<1> DEFINE s == inStream[f]
           t == net[conn[f]][f] \o Unsent(f)
           us == UnitsTo(f)
<1>1. /\ status \in [End -> Status] /\ err \in [End -> Errors]
      /\ step \in [End -> {"idle", "sending", "receiving", "reading"}]
      /\ TypeOK /\ Direction(f)
  BY DEF Inv, TypeOK, Deliver
<1>2. /\ conn[f] # 0 /\ err[f] = "none" /\ status[f] = "ready"
      /\ UNCHANGED <<session, outgoing, history>>
      /\ \/ UNCHANGED <<status, err>> /\ step' = [step EXCEPT ![f] = "receiving"]
         \/ UNCHANGED <<status, err, step>>
         \/ Parse(s) = "bad" /\ Fail(f, "BAD_FRAME")
         \/ /\ err' = [err EXCEPT ![f] = "INCOMING_QUEUE_INSUFFICIENT_SPACE"]
            /\ step' = [step EXCEPT ![f] = "idle"]
            /\ UNCHANGED status
  BY DEF ReadMessage, Inv, Links, Deliver, Idle
<1>3. CASE \/ UNCHANGED <<status, err>> /\ step' = [step EXCEPT ![f] = "receiving"]
           \/ UNCHANGED <<status, err, step>>
  <2>1. \A e \in End \ {f} : step'[e] = step[e]
    BY <1>1, <1>3
  <2> QED BY <1>2, <1>3, <2>1 DEF Acts, Early, session, history
<1>4. CASE Parse(s) = "bad" /\ Fail(f, "BAD_FRAME")
  <2>1. conn[f] \in dropped
    <3> SUFFICES ASSUME conn[f] \notin dropped
                 PROVE  FALSE
      OBVIOUS
    <3>1. /\ InFrames(us)
          /\ \A p \in 1 .. Len(us) : us[p].m \notin {Packet, HelloMsg}
      <4>1. /\ Flow(incoming[f], us, Queue(f), conn[f], taken[f], Served(f),
                    queued[Other(f)], conn[f] \in dropped)
            /\ Hears("ready", us, Served(f), status[Other(f)] = "ready")
        BY <1>1, <1>2 DEF Direction, Healthy
      <4> HIDE DEF us
      <4> QED BY <4>1 DEF Flow, Hears
    <3>2. s \in Seq(Unit) /\ t \in Seq(Unit) /\ us \in Seq(Unit) /\ us = s \o t
      <4>1. /\ inStream[f] \in Seq(Unit) /\ net[conn[f]][f] \in Seq(Unit)
            /\ Unsent(f) \in Seq(Unit) /\ UnitsTo(f) \in Seq(Unit)
            /\ UnitsTo(f) = Landed(f) \o Unsent(f)
        BY <1>1, <1>2, LineTypes
      <4>2. (s \o net[conn[f]][f]) \o Unsent(f) = s \o t
        BY <4>1, Associates
      <4>3. t \in Seq(Unit)
        BY <4>1, Joining
      <4> QED BY <4>1, <4>2, <4>3 DEF Landed
    <3> HIDE DEF us, s, t
    <3>3. us # <<>> => us[1].m # Packet
      <4>1. us # <<>> => 1 \in 1 .. Len(us)
        BY <3>2, EmptySeq, LenProperties
      <4> QED BY <3>1, <4>1
    <3> QED BY <1>4, <3>1, <3>2, <3>3, BeginningParses
  <2>2. /\ status'[f] = "error" /\ err'[f] = "BAD_FRAME" /\ step'[f] = "idle"
        /\ \A e \in End \ {f} :
             status'[e] = status[e] /\ err'[e] = err[e] /\ step'[e] = step[e]
    BY <1>1, <1>4 DEF Fail
  <2> QED BY <1>2, <2>1, <2>2 DEF Acts, Early, session, history
<1>5. CASE /\ err' = [err EXCEPT ![f] = "INCOMING_QUEUE_INSUFFICIENT_SPACE"]
           /\ step' = [step EXCEPT ![f] = "idle"]
           /\ UNCHANGED status
  <2>1. /\ err'[f] = "INCOMING_QUEUE_INSUFFICIENT_SPACE" /\ step'[f] = "idle"
        /\ \A e \in End \ {f} : err'[e] = err[e] /\ step'[e] = step[e]
    BY <1>1, <1>5
  <2> QED BY <1>2, <1>5, <2>1 DEF Acts, Early, Foreign, session, history
<1> QED BY <1>2, <1>3, <1>4, <1>5

LEMMA DataIsMessage ==
  ASSUME NEW k \in Conns, NEW n \in 1 .. MaxData
  PROVE  /\ Data(k, n) \in Message /\ Data(k, n) \in Wire /\ IsData(Data(k, n))
         /\ Data(k, n).conn = k /\ Data(k, n).id = n /\ Data(k, n).op = "data"
<1>1. Data(k, n) \in Message
  BY DEF Message
<1>2. IsData(Data(k, n)) /\ Data(k, n).conn = k /\ Data(k, n).id = n /\ Data(k, n).op = "data"
  BY DEF Data, IsData
<1> QED BY <1>1, <1>2 DEF Wire

LEMMA QueueGrows ==
  ASSUME NEW q \in Seq(Message), NEW k \in Conns, NEW n \in Nat, n + 1 \in 1 .. MaxData,
         Climbs(Heads(q), k, 0), Ids(Heads(q)) = 1 .. n
  PROVE  /\ Climbs(Heads(Append(q, Data(k, n + 1))), k, 0)
         /\ Ids(Heads(Append(q, Data(k, n + 1)))) = 1 .. n + 1
<1> DEFINE m == Data(k, n + 1)
           s == Heads(q)
           l == Lead(m)
<1>1. /\ m \in Message /\ m \in Wire /\ IsData(m) /\ m.conn = k /\ m.id = n + 1
  BY DataIsMessage
<1>2. Heads(Append(q, m)) = s \o l
  <2> HIDE DEF m
  <2> QED BY <1>1, HeadsOfLonger
<1>3. s \in Seq(Unit) /\ Climbs(s, k, 0) /\ Ids(s) = 1 .. n
  BY HeadsOfQueue
<1>4. l \in Seq(Unit) /\ Ids(l) = {n + 1} /\ Climbs(l, k, 0)
  <2> HIDE DEF m
  <2>1. /\ l \in Seq(Unit) /\ Ids(l) = {m.id}
        /\ Climbs(l, k, 0) <=> m.conn = k /\ m.id > 0
    BY <1>1, OneMessage
  <2> QED BY <1>1, <2>1
<1> HIDE DEF s, l
<1>5. Ids(s \o l) = 1 .. n + 1
  <2>1. Ids(s \o l) = (1 .. n) \cup {n + 1}
    BY <1>3, <1>4, IdsOfJoin
  <2> QED BY <2>1
<1>6. Climbs(s \o l, k, 0)
  <2>1. Below(Ids(s), Ids(l))
    BY <1>3, <1>4 DEF Below
  <2> QED BY <1>3, <1>4, <2>1, ClimbsOfJoin
<1> QED BY <1>2, <1>5, <1>6

\* Messages for the owner and health messages only.
Plain(q) == \A j \in 1 .. Len(q) : q[j].op \in {"data", "health"}

LEMMA PlainQueues ==
  ASSUME NEW q \in Seq(Message), Plain(q)
  PROVE  /\ q # <<>> => Plain(Tail(q))
         /\ \A m \in Message : m.op \in {"data", "health"} => Plain(Append(q, m))
<1>1. ASSUME q # <<>>
      PROVE  Plain(Tail(q))
  BY <1>1, HeadsOfRest DEF Plain
<1>2. ASSUME NEW m \in Message, m.op \in {"data", "health"}
      PROVE  Plain(Append(q, m))
  <2> DEFINE r == Append(q, m)
             n == Len(q)
  <2>1. /\ Len(r) = n + 1 /\ r[n + 1] = m /\ n \in Nat
        /\ \A i \in 1 .. n : r[i] = q[i]
    BY AppendProperties, LenProperties
  <2>2. \A i \in 1 .. n : q[i].op \in {"data", "health"}
    BY DEF Plain
  <2>3. \A i \in 1 .. n + 1 : i \in 1 .. n \/ i = n + 1
    BY <2>1
  <2> HIDE DEF r, n
  <2>4. \A i \in 1 .. Len(r) : r[i].op \in {"data", "health"}
    BY <1>2, <2>1, <2>2, <2>3
  <2> QED BY <2>4 DEF Plain, r
<1> QED BY <1>1, <1>2

LEMMA ActsKeep ==
  ASSUME Inv, Inv', Deliver, NEW f \in End, Acts(f)
  PROVE  Idle' /\ Shut' /\ Queues' /\ NoProtocolError'
<1>1. /\ TypeOK /\ TypeOK' /\ Idle /\ Shut /\ Queues /\ NoProtocolError
      /\ conn[f] # 0 /\ conn[f] \in Conns
  BY ConnOfSocket DEF Inv, Deliver, Acts
<1>2. /\ conn' = conn /\ opened' = opened /\ accepted' = accepted /\ closed' = closed
      /\ dropped \subseteq dropped'
  BY DEF Acts, sockets
<1>3. Idle'
  <2> SUFFICES ASSUME NEW e \in End
               PROVE  /\ conn'[e] = 0 => err'[e] = "none" /\ outgoing'[e] = <<>>
                                           /\ queued'[e] = 0 /\ taken'[e] = 0
                      /\ status'[e] = "error" => err'[e] # "none"
                      /\ step'[e] # "idle" => err'[e] = "none"
    BY DEF Idle
  <2>1. CASE e = f
    BY <1>1, <1>2, <2>1 DEF Acts
  <2>2. CASE e # f
    BY <1>1, <1>2, <2>2 DEF Acts, Idle
  <2> QED BY <2>1, <2>2
<1>4. Shut'
  BY <1>1, <1>2 DEF Shut
<1>5. Queues'
  <2> SUFFICES ASSUME NEW e \in End
               PROVE  /\ Plain(outgoing'[e])
                      /\ status'[e] \notin {"ready", "error"} =>
                           /\ Climbs(Heads(outgoing'[e]), conn'[e], 0)
                           /\ Ids(Heads(outgoing'[e])) = 1 .. queued'[e]
    BY DEF Queues, Plain
  <2>1. /\ Plain(outgoing[e])
        /\ status[e] \notin {"ready", "error"} =>
             Climbs(Heads(outgoing[e]), conn[e], 0) /\ Ids(Heads(outgoing[e])) = 1 .. queued[e]
    BY <1>1 DEF Queues, Plain
  <2>2. CASE e # f
    BY <1>2, <2>1, <2>2 DEF Acts
  <2>3. CASE e = f
    <3>1. /\ outgoing[f] \in Seq(Message) /\ queued[f] \in Nat
          /\ queued'[f] \in 0 .. MaxData
          /\ status'[f] \notin {"ready", "error"} =>
               status'[f] \in Early /\ status[f] \notin {"ready", "error"}
      <4>1. status'[f] \in Status /\ status[f] \in Status
            /\ (status'[f] \in Early => status[f] \in Early)
        BY <1>1 DEF TypeOK, Acts
      <4> QED BY <1>1, <4>1 DEF TypeOK, Early
    <3>2. CASE outgoing'[f] = outgoing[f] /\ queued'[f] = queued[f]
      BY <1>2, <2>1, <2>3, <3>1, <3>2
    <3>3. CASE /\ outgoing'[f] = Append(outgoing[f], Data(conn[f], queued[f] + 1))
               /\ queued'[f] = queued[f] + 1
      <4> DEFINE k == conn[f]
                 n == queued[f]
                 q == outgoing[f]
      <4>1. n + 1 \in 1 .. MaxData /\ k \in Conns /\ n \in Nat /\ q \in Seq(Message)
        BY <1>1, <3>1, <3>3
      <4>2. outgoing'[f] = Append(q, Data(k, n + 1)) /\ queued'[f] = n + 1
        BY <3>3
      <4>3. /\ Plain(q)
            /\ status'[f] \notin {"ready", "error"} =>
                 Climbs(Heads(q), k, 0) /\ Ids(Heads(q)) = 1 .. n
        BY <2>1, <2>3, <3>1
      <4>4. conn'[f] = k
        BY <1>2
      <4> HIDE DEF k, n, q
      <4>5. Plain(Append(q, Data(k, n + 1)))
        <5>1. Data(k, n + 1) \in Message /\ Data(k, n + 1).op = "data"
          BY <4>1, DataIsMessage
        <5> QED BY <4>1, <4>3, <5>1, PlainQueues
      <4>6. ASSUME Climbs(Heads(q), k, 0), Ids(Heads(q)) = 1 .. n
            PROVE  /\ Climbs(Heads(Append(q, Data(k, n + 1))), k, 0)
                   /\ Ids(Heads(Append(q, Data(k, n + 1)))) = 1 .. n + 1
        BY <4>1, <4>6, QueueGrows
      <4> QED BY <2>3, <4>2, <4>3, <4>4, <4>5, <4>6
    <3>4. CASE /\ status'[f] \notin Early
               /\ \/ outgoing'[f] = Append(outgoing[f], Health)
                  \/ outgoing[f] # <<>> /\ outgoing'[f] = Tail(outgoing[f])
      <4>1. Health \in Message /\ Health.op = "health"
        BY HandshakeFrames DEF Health
      <4>2. Plain(outgoing'[f])
        BY <2>1, <2>3, <3>1, <3>4, <4>1, PlainQueues
      <4> QED BY <2>3, <3>1, <3>4, <4>2
    <3> QED BY <3>2, <3>3, <3>4 DEF Acts
  <2> QED BY <2>2, <2>3
<1>6. NoProtocolError'
  <2> SUFFICES ASSUME NEW e \in End, conn'[e] \notin dropped'
               PROVE  err'[e] \notin Foreign
    BY DEF NoProtocolError, Foreign
  <2>1. conn[e] \notin dropped /\ conn[e] \notin dropped'
    BY <1>2
  <2>2. err[e] \notin Foreign
    BY <1>1, <2>1 DEF NoProtocolError, Foreign
  <2> QED BY <2>1, <2>2 DEF Acts
<1> QED BY <1>3, <1>4, <1>5, <1>6

LEMMA ConnectKeeps ==
  ASSUME Inv, Deliver, Connect
  PROVE  Idle' /\ Shut' /\ Queues' /\ NoProtocolError'
<1>1. /\ "client" \in End /\ "server" \in End /\ \A e \in End : e # "client" => e = "server"
      /\ TypeOK /\ Idle /\ Shut /\ Queues /\ NoProtocolError
  BY DEF End, Inv, Deliver
<1>2. opened + 1 \in Conns /\ opened \in Nat /\ accepted \in 0 .. opened
  <2>1. opened < MaxConns
    BY DEF Connect
  <2> QED BY <1>1, <2>1 DEF TypeOK, Conns
<1>3. /\ conn["client"] = 0
      /\ conn' = [conn EXCEPT !["client"] = opened + 1]
      /\ status' = [status EXCEPT !["client"] = "handshake_not_started"]
      /\ queued' = [queued EXCEPT !["client"] = 0]
      /\ taken' = [taken EXCEPT !["client"] = 0]
      /\ opened' = opened + 1
      /\ UNCHANGED <<step, err, accepted, closed, lost, dropped, queues>>
  BY DEF Connect, Begin
<1>4. /\ conn'["client"] = opened + 1 /\ conn'["server"] = conn["server"]
      /\ status'["client"] = "handshake_not_started" /\ status'["server"] = status["server"]
      /\ queued'["client"] = 0 /\ queued'["server"] = queued["server"]
      /\ taken'["client"] = 0 /\ taken'["server"] = taken["server"]
      /\ err' = err /\ step' = step /\ outgoing' = outgoing
  BY <1>1, <1>3 DEF TypeOK, queues
<1>5. err["client"] = "none" /\ outgoing["client"] = <<>>
  BY <1>1, <1>3 DEF Idle
<1>6. Idle'
  BY <1>1, <1>2, <1>4, <1>5 DEF Idle
<1>7. Shut'
  <2>1. \A k \in Conns : k > opened' => k > opened
    BY <1>2, <1>3 DEF Conns
  <2>2. opened + 1 > opened
    BY <1>2
  <2>3. closed[opened + 1] = {}
    BY <1>1, <1>2, <2>2 DEF Shut
  <2> QED BY <1>1, <1>3, <1>4, <2>1, <2>3 DEF Shut
<1>8. Queues'
  <2>1. /\ Heads(<<>>) = <<>> /\ Climbs(<<>>, opened + 1, 0) /\ Ids(<<>>) = {}
        /\ 1 .. 0 = {} /\ Len(<<>>) = 0
    BY NothingQueued
  <2>2. ASSUME NEW e \in End
        PROVE  /\ Plain(outgoing'[e])
               /\ status'[e] \notin {"ready", "error"} =>
                    /\ Climbs(Heads(outgoing'[e]), conn'[e], 0)
                    /\ Ids(Heads(outgoing'[e])) = 1 .. queued'[e]
    <3>1. CASE e = "server"
      BY <1>1, <1>4, <3>1 DEF Queues, Plain
    <3>2. CASE e = "client"
      BY <1>4, <1>5, <2>1, <3>2 DEF Plain
    <3> QED BY <1>1, <3>1, <3>2
  <2> QED BY <2>2 DEF Queues, Plain
<1>9. NoProtocolError'
  <2>1. err["client"] \notin Foreign
    BY <1>5 DEF Foreign
  <2>2. conn["server"] \notin dropped => err["server"] \notin Foreign
    BY <1>1 DEF NoProtocolError, Foreign
  <2>3. \A e \in End : conn'[e] \notin dropped' => err'[e] \notin Foreign
    BY <1>1, <1>3, <1>4, <2>1, <2>2
  <2> QED BY <2>3 DEF NoProtocolError, Foreign
<1> QED BY <1>6, <1>7, <1>8, <1>9

LEMMA ShutdownKeeps ==
  ASSUME Inv, Deliver, NEW f \in End, Shutdown(f)
  PROVE  Idle' /\ Shut' /\ Queues' /\ NoProtocolError'
<1>1. /\ TypeOK /\ Idle /\ Shut /\ Queues /\ NoProtocolError
  BY DEF Inv, Deliver
<1>2. /\ conn[f] # 0 /\ step[f] = "idle"
      /\ outgoing' = [outgoing EXCEPT ![f] = <<>>]
      /\ closed' = [closed EXCEPT ![conn[f]] = closed[conn[f]] \cup {f}]
      /\ status' = [status EXCEPT ![f] = "uninitialized"]
      /\ err' = [err EXCEPT ![f] = "none"]
      /\ conn' = [conn EXCEPT ![f] = 0]
      /\ queued' = [queued EXCEPT ![f] = 0]
      /\ taken' = [taken EXCEPT ![f] = 0]
      /\ UNCHANGED <<step, opened, accepted, dropped>>
  BY DEF Shutdown, ClearBuffers, CloseSocket
<1>3. /\ outgoing'[f] = <<>> /\ status'[f] = "uninitialized" /\ err'[f] = "none"
      /\ conn'[f] = 0 /\ queued'[f] = 0 /\ taken'[f] = 0
      /\ \A e \in End \ {f} :
           /\ outgoing'[e] = outgoing[e] /\ status'[e] = status[e] /\ err'[e] = err[e]
           /\ conn'[e] = conn[e] /\ queued'[e] = queued[e] /\ taken'[e] = taken[e]
  BY <1>1, <1>2 DEF TypeOK
<1>4. conn[f] \in Conns /\ conn[f] <= opened /\ (f = "server" => conn[f] <= accepted)
  <2>1. /\ conn["server"] <= accepted /\ conn["client"] <= opened /\ f \in {"client", "server"}
    BY DEF Inv, Links, End
  <2>2. conn[f] \in Conns
    BY <1>1, <1>2, ConnOfSocket
  <2>3. accepted \in 0 .. opened /\ opened \in Nat
    BY <1>1 DEF TypeOK
  <2> QED BY <2>1, <2>2, <2>3 DEF Conns
<1>5. \A k \in Conns : /\ k # conn[f] => closed'[k] = closed[k]
                       /\ closed'[k] \subseteq closed[k] \cup {f}
  BY <1>1, <1>2, <1>4 DEF TypeOK
<1>6. Idle'
  BY <1>1, <1>2, <1>3 DEF Idle
<1>7. Shut'
  <2>1. ASSUME NEW e \in End, conn'[e] # 0
        PROVE  e \notin closed'[conn'[e]]
    <3>1. e # f /\ conn'[e] = conn[e] /\ conn[e] \in Conns
      BY <1>1, <1>3, <2>1, ConnOfSocket
    <3> QED BY <1>1, <1>5, <2>1, <3>1 DEF Shut
  <2>2. ASSUME NEW k \in Conns, k > opened'
        PROVE  closed'[k] = {}
    <3>1. k # conn[f] /\ k > opened
      BY <1>1, <1>2, <1>4, <2>2 DEF TypeOK, Conns
    <3> QED BY <1>1, <1>5, <3>1 DEF Shut
  <2>3. ASSUME NEW k \in Conns, k > accepted'
        PROVE  "server" \notin closed'[k]
    <3>1. k > accepted /\ "server" \notin closed[k]
      BY <1>1, <1>2, <2>3 DEF Shut
    <3>2. f = "server" => k # conn[f]
      BY <1>1, <1>4, <3>1 DEF TypeOK, Conns
    <3> QED BY <1>5, <3>1, <3>2
  <2> QED BY <2>1, <2>2, <2>3 DEF Shut
<1>8. Queues'
  <2>1. /\ Heads(<<>>) = <<>> /\ Climbs(<<>>, 0, 0) /\ Ids(<<>>) = {}
        /\ 1 .. 0 = {} /\ Len(<<>>) = 0
    BY NothingQueued
  <2>2. ASSUME NEW e \in End
        PROVE  /\ Plain(outgoing'[e])
               /\ status'[e] \notin {"ready", "error"} =>
                    /\ Climbs(Heads(outgoing'[e]), conn'[e], 0)
                    /\ Ids(Heads(outgoing'[e])) = 1 .. queued'[e]
    <3>1. CASE e # f
      BY <1>1, <1>3, <3>1 DEF Queues, Plain
    <3>2. CASE e = f
      BY <1>3, <2>1, <3>2 DEF Plain
    <3> QED BY <3>1, <3>2
  <2> QED BY <2>2 DEF Queues, Plain
<1>9. NoProtocolError'
  <2>1. \A e \in End : conn[e] \notin dropped => err[e] \notin Foreign
    BY <1>1 DEF NoProtocolError, Foreign
  <2>2. "none" \notin Foreign
    BY DEF Foreign
  <2>3. \A e \in End : conn'[e] \notin dropped' => err'[e] \notin Foreign
    BY <1>2, <1>3, <2>1, <2>2
  <2> QED BY <2>3 DEF NoProtocolError, Foreign
<1> QED BY <1>6, <1>7, <1>8, <1>9

LEMMA LosePathKeeps ==
  ASSUME Deliver, NEW k \in Conns, LosePath(k)
  PROVE  Idle' /\ Shut' /\ Queues' /\ NoProtocolError'
<1>1. /\ Idle /\ Shut /\ Queues /\ NoProtocolError
      /\ UNCHANGED <<status, step, err, conn, opened, accepted, closed, dropped, outgoing,
                     queued, taken>>
  BY DEF LosePath, Deliver, queues, history
<1> QED BY <1>1 DEF Idle, Shut, Queues, NoProtocolError

LEMMA AcceptKeeps ==
  ASSUME Inv, Deliver, Accept
  PROVE  Idle' /\ Shut' /\ Queues' /\ NoProtocolError'
<1> DEFINE k == accepted + 1
<1>1. /\ "client" \in End /\ "server" \in End /\ \A e \in End : e # "server" => e = "client"
      /\ TypeOK /\ Idle /\ Shut /\ Queues /\ NoProtocolError
  BY DEF End, Inv, Deliver
<1>2. k \in Conns /\ k > accepted /\ accepted \in Nat /\ k <= opened /\ opened \in Nat
  <2>1. accepted < opened
    BY DEF Accept
  <2> QED BY <1>1, <2>1 DEF TypeOK, Conns
<1>3. /\ err["server"] = "none" /\ step["server"] = "idle"
      /\ conn' = [conn EXCEPT !["server"] = k]
      /\ status' = [status EXCEPT !["server"] = "handshake_hello_scheduled"]
      /\ queued' = [queued EXCEPT !["server"] = 0]
      /\ taken' = [taken EXCEPT !["server"] = 0]
      /\ accepted' = k
      /\ UNCHANGED <<step, err, opened, dropped>>
      /\ IF conn["server"] = 0
           THEN UNCHANGED <<closed, queues>>
           ELSE CloseSocket("server") /\ ClearBuffers("server")
  BY DEF Accept, Begin
<1>4. /\ conn'["server"] = k /\ conn'["client"] = conn["client"]
      /\ status'["server"] = "handshake_hello_scheduled" /\ status'["client"] = status["client"]
      /\ queued'["server"] = 0 /\ queued'["client"] = queued["client"]
      /\ taken'["server"] = 0 /\ taken'["client"] = taken["client"]
  BY <1>1, <1>3 DEF TypeOK
<1>5. outgoing'["server"] = <<>> /\ outgoing'["client"] = outgoing["client"]
  <2>1. CASE conn["server"] = 0
    BY <1>1, <1>3, <2>1 DEF Idle, queues
  <2>2. CASE conn["server"] # 0
    <3>1. outgoing' = [outgoing EXCEPT !["server"] = <<>>]
      BY <1>3, <2>2 DEF ClearBuffers
    <3> QED BY <1>1, <3>1 DEF TypeOK
  <2> QED BY <2>1, <2>2
<1>6. \A j \in Conns : /\ j > accepted => closed'[j] = closed[j]
                       /\ closed'[j] \subseteq closed[j] \cup {"server"}
  <2>1. CASE conn["server"] = 0
    BY <1>3, <2>1
  <2>2. CASE conn["server"] # 0
    <3>1. closed' = [closed EXCEPT ![conn["server"]] = closed[conn["server"]] \cup {"server"}]
      BY <1>3, <2>2 DEF CloseSocket
    <3>2. conn["server"] \in Conns /\ conn["server"] <= accepted
      BY <1>1, <2>2, ConnOfSocket DEF Inv, Links
    <3>3. \A j \in Conns : j > accepted => j # conn["server"]
      BY <1>2, <3>2 DEF Conns
    <3> QED BY <1>1, <3>1, <3>2, <3>3 DEF TypeOK
  <2> QED BY <2>1, <2>2
<1>7. Idle'
  <2>1. k # 0
    BY <1>2
  <2> HIDE DEF k
  <2> QED BY <1>1, <1>3, <1>4, <1>5, <2>1 DEF Idle
<1>8. Shut'
  <2>1. "server" \notin closed'[k]
    BY <1>1, <1>2, <1>6 DEF Shut
  <2>2. conn["client"] # 0 => "client" \notin closed'[conn["client"]]
    <3>1. conn["client"] # 0 => conn["client"] \in Conns
      BY <1>1, ConnOfSocket
    <3> QED BY <1>1, <1>6, <3>1 DEF Shut
  <2>3. \A j \in Conns : (j > opened => j > accepted) /\ (j > k => j > accepted)
    BY <1>2 DEF Conns
  <2> HIDE DEF k
  <2>4. \A e \in End : conn'[e] # 0 => e \notin closed'[conn'[e]]
    BY <1>1, <1>4, <2>1, <2>2
  <2>5. \A j \in Conns : /\ j > opened' => closed'[j] = {}
                         /\ j > accepted' => "server" \notin closed'[j]
    BY <1>1, <1>3, <1>6, <2>3 DEF Shut
  <2> QED BY <2>4, <2>5 DEF Shut
<1>9. Queues'
  <2>1. /\ Heads(<<>>) = <<>> /\ Climbs(<<>>, k, 0) /\ Ids(<<>>) = {}
        /\ 1 .. 0 = {} /\ Len(<<>>) = 0
    BY NothingQueued
  <2> HIDE DEF k
  <2>2. ASSUME NEW e \in End
        PROVE  /\ Plain(outgoing'[e])
               /\ status'[e] \notin {"ready", "error"} =>
                    /\ Climbs(Heads(outgoing'[e]), conn'[e], 0)
                    /\ Ids(Heads(outgoing'[e])) = 1 .. queued'[e]
    <3>1. CASE e = "client"
      BY <1>1, <1>4, <1>5, <3>1 DEF Queues, Plain
    <3>2. CASE e = "server"
      BY <1>4, <1>5, <2>1, <3>2 DEF Plain
    <3> QED BY <1>1, <3>1, <3>2
  <2> QED BY <2>2 DEF Queues, Plain
<1>10. NoProtocolError'
  <2>1. "none" \notin Foreign /\ (conn["client"] \notin dropped => err["client"] \notin Foreign)
    BY <1>1 DEF NoProtocolError, Foreign
  <2>2. \A e \in End : conn'[e] \notin dropped' => err'[e] \notin Foreign
    BY <1>1, <1>3, <1>4, <2>1
  <2> QED BY <2>2 DEF NoProtocolError, Foreign
<1> QED BY <1>7, <1>8, <1>9, <1>10

-----------------------------------------------------------------------------
(***************************************************************************)
(* The invariant, and what follows from it.                                *)
(***************************************************************************)
LEMMA InitDeliver ==
  ASSUME Init
  PROVE  Deliver
<1>1. /\ Heads(<<>>) = <<>> /\ Climbs(<<>>, 0, 0) /\ Ids(<<>>) = {}
      /\ 1 .. 0 = {} /\ Len(<<>>) = 0
  BY NothingQueued
<1>2. Idle
  BY DEF Init, Idle
<1>3. Shut
  BY DEF Init, Shut
<1>4. Queues
  BY <1>1 DEF Init, Queues
<1>5. \A e \in End : Direction(e)
  BY DEF Init, Direction
<1>6. NoProtocolError
  BY DEF Init, NoProtocolError
<1> QED BY <1>2, <1>3, <1>4, <1>5, <1>6 DEF Deliver

LEMMA StillDeliver ==
  ASSUME Deliver, UNCHANGED vars
  PROVE  Deliver'
<1>1. /\ UNCHANGED <<status, step, err, conn, opened, accepted, closed, lost, dropped>>
      /\ UNCHANGED <<inStream, outStream, net, incoming, outgoing, queued, taken>>
  BY DEF vars, session, sockets, streams, queues, history
<1>2. Idle' /\ Shut' /\ Queues' /\ NoProtocolError'
  BY <1>1 DEF Deliver, Idle, Shut, Queues, NoProtocolError
<1>3. ASSUME NEW e \in End
      PROVE  Direction(e)'
  <2>1. Served(e)' = Served(e)
    BY <1>1 DEF Served, Linked, Together, Healthy
  <2>2. UnitsTo(e)' = UnitsTo(e) /\ Queue(e)' = Queue(e) /\ Healthy(e)' = Healthy(e)
    BY <1>1, <2>1 DEF UnitsTo, Queue, Healthy
  <2>3. Direction(e)
    BY DEF Deliver
  <2> QED BY <1>1, <2>1, <2>2, <2>3 DEF Direction
<1> QED BY <1>2, <1>3 DEF Deliver

LEMMA StepDeliver ==
  ASSUME Inv, Inv', Agreed, Deliver, [Next]_vars
  PROVE  Deliver'
<1>1. CASE Connect
  <2>1. Direction("client")' /\ Direction("server")'
    BY <1>1, ConnectDirections
  <2> QED BY <1>1, <2>1, ConnectKeeps DEF Deliver, End
<1>2. CASE Accept
  <2>1. Direction("client")' /\ Direction("server")'
    BY <1>2, AcceptDirections
  <2> QED BY <1>2, <2>1, AcceptKeeps DEF Deliver, End
<1>3. ASSUME NEW k \in Conns, LosePath(k)
      PROVE  Deliver'
  <2>1. \A e \in End : Direction(e)'
    BY <1>3, LosePathDirections
  <2> QED BY <1>3, <2>1, LosePathKeeps DEF Deliver
<1>4. ASSUME NEW f \in End, Direction(f)', Direction(Other(f))',
             Idle' /\ Shut' /\ Queues' /\ NoProtocolError'
      PROVE  Deliver'
  <2>1. \A e \in End : e = f \/ e = Other(f)
    BY DEF End, Other
  <2> QED BY <1>4, <2>1 DEF Deliver
<1>5. ASSUME NEW f \in End, Shutdown(f)
      PROVE  Deliver'
  BY <1>4, <1>5, ShutdownDirections, ShutdownKeeps
<1>6. ASSUME NEW f \in End, Direction(f)', Direction(Other(f))', Acts(f)
      PROVE  Deliver'
  BY <1>4, <1>6, ActsKeep
<1>7. ASSUME NEW f \in End,
             HandshakeTimeout(f) \/ HealthTimeout(f) \/ HealthQueueFull(f) \/ SocketError(f)
      PROVE  Deliver'
  BY <1>6, <1>7, QuietFails, QuietFailsActs
<1>8. ASSUME NEW f \in End, SendLeftoverFails(f)
      PROVE  Deliver'
  BY <1>6, <1>8, QuietFails, SendLeftoverFailsActs
<1>9. Idle
  BY DEF Deliver
<1>10. ASSUME NEW f \in End, AddOutgoing(f) \/ RemoveIncoming(f)
       PROVE  Deliver'
  BY <1>6, <1>9, <1>10, AddOutgoingDirections, RemoveIncomingDirections, OwnerActs
<1>11. ASSUME NEW f \in End, SendHello(f) \/ ReceiveHello(f) \/ ReceiveHelloMessage(f)
       PROVE  Deliver'
  BY <1>6, <1>11, SendHelloDirections, ReceiveHelloDirections, ReceiveHelloMessageDirections,
     HandshakeActs
<1>12. ASSUME NEW f \in End, BeginUpdate(f)
       PROVE  Deliver'
  BY <1>6, <1>12, BeginUpdateDirections, BeginUpdateActs
<1>13. ASSUME NEW f \in End, SendNext(f)
       PROVE  Deliver'
  BY <1>6, <1>9, <1>13, SendNextDirections, SendNextActs
<1>14. ASSUME NEW f \in End, Receive(f, 0) \/ ReceiveSome(f)
       PROVE  Deliver'
  BY <1>6, <1>9, <1>14, ReceiveDirections, ReceiveActs
<1>15. ASSUME NEW f \in End, ReadMessage(f)
       PROVE  Deliver'
  BY <1>6, <1>15, ReadMessageDirections, ReadMessageActs
<1>16. CASE UNCHANGED vars
  BY <1>16, StillDeliver
<1> QED
  BY <1>1, <1>2, <1>3, <1>5, <1>7, <1>8, <1>10, <1>11, <1>12, <1>13, <1>14, <1>15, <1>16
  DEF Next

\* The three invariants together, for the steps above need each other's.
LEMMA DeliverInvariant == Spec => [](Inv /\ Agreed /\ Deliver)
<1>1. Init => Inv /\ Agreed /\ Deliver
  <2>1. Init => Agreed
    BY DEF Init, Agreed, Fresh, Greeting, Reading, Together, End
  <2> QED BY <2>1, InitInv, InitDeliver
<1>2. Inv /\ Agreed /\ Deliver /\ [Next]_vars => (Inv /\ Agreed /\ Deliver)'
  BY StepInv, StepAgreed, StepDeliver
<1> QED BY <1>1, <1>2, PTL DEF Spec

\* Ranks that rise without a gap are each preceded by all the lower ones.
LEMMA ClimbsInOrder ==
  ASSUME NEW s \in Seq(Unit), NEW k, NEW n \in Nat, Climbs(s, k, n), NoGap(Ids(s), n)
  PROVE  InOrder(s, k, n)
<1>1. /\ \A p \in Starts(s) : p \in Nat /\ s[p].m.id \in Ids(s) /\ s[p].m.id \in Nat
  BY RanksAreNumbers
<1>2. ASSUME NEW p \in Starts(s)
      PROVE  Before(s, p) = n + 1 .. s[p].m.id - 1
  <2> DEFINE r == s[p].m.id
  <2>1. r \in Nat /\ n + 1 .. r \subseteq Ids(s)
    BY <1>1 DEF NoGap
  <2>2. ASSUME NEW i \in Before(s, p)
        PROVE  i \in n + 1 .. r - 1
    <3>1. PICK q \in Starts(s) : q < p /\ i = s[q].m.id
      BY <2>2 DEF Before
    <3>2. i > n /\ i < r
      BY <3>1 DEF Climbs
    <3>3. i \in Nat
      BY <1>1, <3>1
    <3> HIDE DEF r
    <3> QED BY <2>1, <3>2, <3>3
  <2>3. ASSUME NEW i \in n + 1 .. r - 1
        PROVE  i \in Before(s, p)
    <3>1. i \in Ids(s) /\ i < r /\ i \in Nat
      <4> HIDE DEF r
      <4>1. i \in n + 1 .. r /\ i < r /\ i \in Nat
        BY <2>1, <2>3
      <4> QED BY <2>1, <4>1
    <3>2. PICK q \in Starts(s) : i = s[q].m.id
      BY <3>1 DEF Ids
    <3>3. q < p
      <4>1. q \in Nat /\ p \in Nat
        BY <1>1
      <4>2. q # p
        BY <3>1, <3>2, <2>1
      <4>3. ~(p < q)
        <5>1. p < q => r < i
          BY <3>2 DEF Climbs
        <5> HIDE DEF r
        <5> QED BY <2>1, <3>1, <5>1
      <4> QED BY <4>1, <4>2, <4>3
    <3> QED BY <3>2, <3>3 DEF Before
  <2> QED BY <2>2, <2>3
<1>3. \A p \in Starts(s) : s[p].m.conn = k /\ s[p].m.id > n
  BY DEF Climbs
<1> QED BY <1>2, <1>3 DEF InOrder

LEMMA DeliverMeans ==
  ASSUME Inv, Deliver
  PROVE  ExactlyOnceInOrder /\ NeverReordered /\ NoProtocolError
<1>1. ASSUME NEW e \in End, conn[e] # 0, Healthy(e)
      PROVE  /\ \A j \in 1 .. Len(incoming[e]) : IsData(incoming[e][j])
             /\ Climbs(LineTo(e), conn[e], taken[e])
             /\ conn[e] \notin dropped => Complete(e)
  <2> DEFINE s == LineTo(e)
  <2>1. Flow(incoming[e], UnitsTo(e), Queue(e), conn[e], taken[e], Served(e),
             queued[Other(e)], conn[e] \in dropped)
    BY <1>1 DEF Deliver, Direction
  <2>2. LineTo(e) = Heads(incoming[e]) \o UnitsTo(e) \o Queue(e)
    BY DEF LineTo, Queue
  <2>3. /\ \A j \in 1 .. Len(incoming[e]) : IsData(incoming[e][j])
        /\ Climbs(s, conn[e], taken[e])
        /\ conn[e] \notin dropped =>
             /\ InFrames(UnitsTo(e)) /\ NoGap(Ids(s), taken[e])
             /\ Served(e) => /\ EndsWhole(UnitsTo(e))
                             /\ Ids(s) = taken[e] + 1 .. queued[Other(e)]
    BY <2>1, <2>2 DEF Flow
  <2>4. s \in Seq(Unit) /\ taken[e] \in Nat
    <3>1. /\ incoming[e] \in Seq(Message) /\ UnitsTo(e) \in Seq(Unit)
          /\ Queue(e) \in Seq(Unit) /\ taken[e] \in Nat
      BY <1>1, LineTypes DEF Inv
    <3>2. Line(incoming[e], UnitsTo(e), Queue(e)) \in Seq(Unit)
      BY <3>1, LineIsUnits
    <3> QED BY <2>2, <3>1, <3>2 DEF Line
  <2> HIDE DEF s
  <2>5. conn[e] \notin dropped => InOrder(s, conn[e], taken[e])
    BY <2>3, <2>4, ClimbsInOrder
  <2> QED BY <2>3, <2>5 DEF Complete, s
<1>2. ExactlyOnceInOrder
  BY <1>1 DEF ExactlyOnceInOrder
<1>3. NeverReordered
  BY <1>1 DEF NeverReordered, Climbs
<1> QED BY <1>2, <1>3 DEF Deliver

(***************************************************************************)
(* Exactly once, in order, per connection, as long as no send of queued    *)
(* messages was cut: connection.cpp 305-614, for every size of packets,    *)
(* streams and queues and however the kernel cuts sends and receives.      *)
(***************************************************************************)
THEOREM DeliveredInOrder == Spec => []ExactlyOnceInOrder
<1>1. Inv /\ Deliver => ExactlyOnceInOrder
  BY DeliverMeans
<1> QED BY <1>1, DeliverInvariant, PTL

(***************************************************************************)
(* Two ends that follow connection.cpp never reject each other's bytes as  *)
(* long as no send of queued messages was cut: every hello and every frame *)
(* is read at its boundary (254, 359, 389, 436).                           *)
(***************************************************************************)
THEOREM NoErrorOfProtocol == Spec => []NoProtocolError
<1>1. Inv /\ Deliver => NoProtocolError
  BY DeliverMeans
<1> QED BY <1>1, DeliverInvariant, PTL

(***************************************************************************)
(* Even when a send was cut (connection.cpp 545), no message is repeated,  *)
(* overtaken or carried over from an earlier connection: the cut loses     *)
(* messages, and nothing else.                                             *)
(***************************************************************************)
THEOREM OrderKept == Spec => []NeverReordered
<1>1. Inv /\ Deliver => NeverReordered
  BY DeliverMeans
<1> QED BY <1>1, DeliverInvariant, PTL

-----------------------------------------------------------------------------
(* The two ends as a channel: the steps of Connection, as steps of Channel. *)

\* An end is on the last connection it began, or has closed it.
Left ==
  \A k \in Conns :
    /\ k <= accepted => conn["server"] = k \/ "server" \in closed[k]
    /\ k <= opened => conn["client"] = k \/ "client" \in closed[k]

LEMMA InitLeft ==
  ASSUME Init
  PROVE  Left
  BY DEF Init, Left, Conns

LEMMA StepLeft ==
  ASSUME Inv, Left, [Next]_vars
  PROVE  Left'
<1> USE DEF Left, Conns, End, Other
<1>1. conn \in [End -> 0 .. MaxConns] /\ closed \in [Conns -> SUBSET End]
      /\ accepted \in Nat /\ opened \in Nat /\ conn["server"] <= accepted
      /\ conn["client"] <= opened
  BY DEF Inv, TypeOK, Links
<1>2. CASE UNCHANGED <<conn, closed, accepted, opened>>
  BY <1>2
<1>3. CASE Connect
  BY <1>1, <1>3 DEF Connect, Begin
<1>4. CASE Accept
  <2>1. CASE conn["server"] = 0
    BY <1>1, <1>4, <2>1 DEF Accept, Begin
  <2>2. CASE conn["server"] # 0
    <3>1. /\ accepted' = accepted + 1 /\ opened' = opened
          /\ conn' = [conn EXCEPT !["server"] = accepted + 1]
          /\ closed' = [closed EXCEPT ![conn["server"]] = @ \cup {"server"}]
      BY <1>4, <2>2 DEF Accept, Begin, CloseSocket
    <3>2. conn["server"] \in Conns /\ conn'["server"] = accepted + 1
          /\ conn'["client"] = conn["client"] /\ "server" \in closed'[conn["server"]]
          /\ \A k \in Conns : closed[k] \subseteq closed'[k]
      BY <1>1, <2>2, <3>1
    <3> QED BY <1>1, <3>1, <3>2
  <2> QED BY <2>1, <2>2
<1>5. ASSUME NEW e \in End, Shutdown(e)
      PROVE  Left'
  BY <1>1, <1>5 DEF Shutdown, CloseSocket
<1>6. \/ UNCHANGED <<conn, closed, accepted, opened>>
      \/ Connect \/ Accept \/ \E e \in End : Shutdown(e)
  <2>1. CASE UNCHANGED vars
    BY <2>1 DEF vars, session, sockets
  <2>2. ASSUME NEW k \in Conns, LosePath(k)
        PROVE  UNCHANGED <<conn, closed, accepted, opened>>
    BY <2>2 DEF LosePath
  <2>3. ASSUME NEW e \in End,
               \/ AddOutgoing(e) \/ RemoveIncoming(e) \/ HandshakeTimeout(e)
               \/ SendHello(e) \/ ReceiveHello(e) \/ ReceiveHelloMessage(e)
               \/ HealthTimeout(e) \/ HealthQueueFull(e) \/ BeginUpdate(e) \/ SendNext(e)
               \/ Receive(e, 0) \/ ReceiveSome(e) \/ ReadMessage(e) \/ SocketError(e)
               \/ SendLeftoverFails(e)
        PROVE  UNCHANGED <<conn, closed, accepted, opened>>
    BY <2>3 DEF AddOutgoing, RemoveIncoming, HandshakeTimeout, SendHello, ReceiveHello,
         ReceiveHelloMessage, HealthTimeout, HealthQueueFull, BeginUpdate, SendNext,
         Receive, ReceiveSome, ReadMessage, SocketError, SendLeftoverFails, session, sockets
  <2> QED BY <2>1, <2>2, <2>3 DEF Next
<1> QED BY <1>2, <1>3, <1>4, <1>5, <1>6

-----------------------------------------------------------------------------
(* What there is to read, and which connections are lossy.                 *)

\* What has come to e, and what the other end can still hand over.
Here(e) == Ids(Heads(incoming[e])) \cup Ids(inStream[e]) \cup Ids(net[conn[e]][e])
There(e) == Ids(outStream[Other(e)]) \cup Ids(Heads(outgoing[Other(e)]))

LEMMA ReadIsHereAndThere ==
  ASSUME NEW e \in End
  PROVE  ToRead(e) = IF conn[e] # 0 /\ Healthy(e)
                       THEN Here(e) \cup (IF Served(e) THEN There(e) ELSE {}) ELSE {}
  BY DEF ToRead, Here, There

LEMMA ReadNext ==
  ASSUME NEW e \in End
  PROVE  ToRead(e)' = IF conn'[e] # 0 /\ Healthy(e)'
                        THEN Here(e)' \cup (IF Served(e)' THEN There(e)' ELSE {}) ELSE {}
  BY DEF ToRead, Here, There

LEMMA ReadIsLine ==
  ASSUME TypeOK, NEW e \in End, conn[e] # 0, Healthy(e)
  PROVE  ToRead(e) = Ids(LineTo(e))
<1>1. /\ incoming[e] \in Seq(Message) /\ inStream[e] \in Seq(Unit) /\ net[conn[e]][e] \in Seq(Unit)
      /\ Landed(e) \in Seq(Unit) /\ Unsent(e) \in Seq(Unit) /\ Queue(e) \in Seq(Unit)
      /\ UnitsTo(e) \in Seq(Unit) /\ UnitsTo(e) = Landed(e) \o Unsent(e)
  BY LineTypes
<1>2. Ids(UnitsTo(e)) = Ids(inStream[e]) \cup Ids(net[conn[e]][e]) \cup Ids(Unsent(e))
  <2>1. Ids(UnitsTo(e)) = Ids(Landed(e)) \cup Ids(Unsent(e))
    BY <1>1, IdsOfJoin
  <2>2. Ids(Landed(e)) = Ids(inStream[e]) \cup Ids(net[conn[e]][e])
    BY <1>1, IdsOfJoin DEF Landed
  <2> QED BY <2>1, <2>2
<1>3. LineTo(e) = Line(incoming[e], UnitsTo(e), Queue(e))
  BY DEF LineTo, Line, Queue
<1>4. Ids(LineTo(e)) = Ids(Heads(incoming[e])) \cup Ids(UnitsTo(e)) \cup Ids(Queue(e))
  <2>1. Heads(incoming[e]) \in Seq(Unit)
    BY <1>1, HeadsOfQueue
  <2>2. /\ Heads(incoming[e]) \o UnitsTo(e) \in Seq(Unit)
        /\ Ids(Heads(incoming[e]) \o UnitsTo(e)) = Ids(Heads(incoming[e])) \cup Ids(UnitsTo(e))
    BY <1>1, <2>1, Joining, IdsOfJoin
  <2> QED BY <1>1, <1>3, <2>2, IdsOfJoin DEF Line
<1>5. Ids(<<>>) = {}
  BY NothingQueued
<1>6. Ids(Unsent(e)) \cup Ids(Queue(e)) = IF Served(e) THEN There(e) ELSE {}
  BY <1>5 DEF Unsent, Queue, There
<1> QED BY <1>2, <1>4, <1>6, ReadIsHereAndThere DEF Here

LEMMA ReadIsNumbers ==
  ASSUME TypeOK, NEW e \in End
  PROVE  ToRead(e) \in SUBSET Nat
<1>1. CASE conn[e] # 0 /\ Healthy(e)
  <2>1. LineTo(e) \in Seq(Unit)
    <3>1. LineTo(e) = Line(incoming[e], UnitsTo(e), Queue(e))
      BY DEF LineTo, Line, Queue
    <3> QED BY <1>1, <3>1, LineTypes, LineIsUnits
  <2> QED BY <1>1, <2>1, ReadIsLine, RanksAreNumbers
<1>2. CASE ~(conn[e] # 0 /\ Healthy(e))
  BY <1>2, ReadIsHereAndThere
<1> QED BY <1>1, <1>2

LEMMA LossyAt ==
  ASSUME NEW k \in Conns, k \notin Lossy
  PROVE  /\ k \notin dropped /\ k \notin lost /\ closed[k] = {}
         /\ \A e \in End : conn[e] = k => Healthy(e)
  BY DEF Lossy

\* On a connection that is not lossy nothing is missing.
Intact(e) ==
  ToRead(e) = IF conn[Other(e)] = conn[e] THEN taken[e] + 1 .. queued[Other(e)] ELSE {}

LEMMA NotLossyIsIntact ==
  ASSUME Inv, Agreed, Deliver, Left, NEW e \in End, conn[e] # 0, conn[e] \notin Lossy
  PROVE  Intact(e)
<1> DEFINE k == conn[e]
<1>1. TypeOK /\ k \in Conns
  BY LineTypes DEF Inv
<1>2. k \notin dropped /\ k \notin lost /\ closed[k] = {} /\ Healthy(e)
      /\ (conn[Other(e)] = k => Healthy(Other(e)))
  BY <1>1, LossyAt, LineTypes
<1>3. CASE conn[Other(e)] = k
  <2>1. Served(e)
    BY <1>1, <1>2, <1>3 DEF Served, Linked, Together, End, Other
  <2>2. Complete(e)
    BY <1>2, DeliverMeans DEF ExactlyOnceInOrder
  <2>3. Ids(LineTo(e)) = taken[e] + 1 .. queued[Other(e)]
    BY <2>1, <2>2 DEF Complete
  <2> QED BY <1>1, <1>2, <1>3, <2>3, ReadIsLine DEF Intact
<1>4. CASE conn[Other(e)] # k
  <2>1. e = "client" /\ k > accepted
    <3>1. k <= opened /\ k \in Nat /\ accepted \in Nat
      <4>1. accepted <= opened /\ accepted \in Nat /\ opened \in Nat /\ k \in Nat
        BY <1>1 DEF TypeOK, Conns
      <4>2. conn["server"] <= accepted /\ conn["client"] <= opened
        BY DEF Inv, Links
      <4> QED BY <4>1, <4>2 DEF End
    <3>2. CASE e = "server"
      <4>1. k <= accepted
        BY <3>2 DEF Inv, Links
      <4> QED BY <1>1, <1>2, <1>4, <3>1, <3>2, <4>1 DEF Left, Other
    <3>3. CASE e = "client" /\ k <= accepted
      BY <1>1, <1>2, <1>4, <3>1, <3>3 DEF Left, Other
    <3> QED BY <3>1, <3>2, <3>3 DEF End
  <2>2. status[e] # "error"
    BY <1>2 DEF Deliver, Idle, Healthy
  <2>3. inStream[e] = <<>> /\ net[k][e] = <<>> /\ status[e] = "handshake_not_started"
    BY <1>1, <2>1, <2>2 DEF Agreed, Fresh
  <2>4. incoming[e] = <<>>
    BY <2>3 DEF Agreed, Reading
  <2>5. ~Served(e)
    BY <1>4 DEF Served, Linked, Together, End, Other
  <2>6. Here(e) = {}
    BY <2>3, <2>4, NothingQueued DEF Here
  <2> QED BY <1>4, <2>5, <2>6, ReadIsHereAndThere DEF Intact
<1> QED BY <1>3, <1>4

Ready == Inv /\ Agreed /\ Deliver /\ Left

Sound ==
  \A e \in End :
    /\ ToRead(e) \in SUBSET Nat
    /\ conn[e] # 0 /\ conn[e] \notin Lossy => Intact(e)

LEMMA ReadyIsSound ==
  ASSUME Ready
  PROVE  Sound
  BY ReadIsNumbers, NotLossyIsIntact DEF Ready, Sound, Inv
-----------------------------------------------------------------------------
(* Steps that no owner sees: nothing, or a loss.                           *)

\* On connection k messages vanish, which is lossy afterwards if any does.
Slips(k) ==
  /\ UNCHANGED <<conn, opened, accepted, queued, taken>>
  /\ Lossy \subseteq Lossy' /\ Lossy' \subseteq Lossy \cup {k}
  /\ \A e \in End :
       IF conn[e] = k THEN ToRead(e)' \subseteq ToRead(e) ELSE ToRead(e)' = ToRead(e)

LEMMA SlipIsLoss ==
  ASSUME Sound, Sound', NEW k \in Conns, Slips(k)
  PROVE  Chan!Lose(k) \/ UNCHANGED Chan!vars
<1>1. CASE k \in Lossy'
  <2>1. Lossy' = Lossy \cup {k}
    BY <1>1 DEF Slips
  <2>2. [e \in End |-> ToRead(e)]' \in [End -> SUBSET Nat]
    BY DEF Sound
  <2> QED BY <1>1, <2>1, <2>2 DEF Slips, Chan!Lose, Chan!Loses, Chan!End, End
<1>2. CASE k \notin Lossy'
  <2>1. Lossy' = Lossy /\ k \notin Lossy
    BY <1>2 DEF Slips
  <2>2. ASSUME NEW e \in End, conn[e] = k
        PROVE  ToRead(e)' = ToRead(e)
    <3>1. conn[e] # 0 /\ conn'[e] = k
      BY <2>2 DEF Slips, Conns
    <3>2. Intact(e)
      BY <2>1, <2>2, <3>1 DEF Sound
    <3>3. Intact(e)'
      BY <1>2, <2>2, <3>1 DEF Sound
    <3> QED BY <3>2, <3>3 DEF Intact, Slips
  <2>3. \A e \in End : ToRead(e)' = ToRead(e)
    BY <2>2 DEF Slips
  <2> QED BY <2>1, <2>3 DEF Slips, Chan!vars
<1> QED BY <1>1, <1>2

\* What a step of f may do to messages: hand I to the other end, at most.
LEMMA UpdateSlips ==
  ASSUME Inv, Shut, NEW f \in End, conn[f] # 0, UNCHANGED sockets,
         UNCHANGED <<queued, taken>>,
         dropped \subseteq dropped', dropped' \subseteq dropped \cup {conn[f]},
         Healthy(f), Healthy(f)', err'[Other(f)] = err[Other(f)],
         inStream'[Other(f)] = inStream[Other(f)], incoming'[Other(f)] = incoming[Other(f)],
         outStream'[Other(f)] = outStream[Other(f)], outgoing'[Other(f)] = outgoing[Other(f)],
         \A k \in Conns : k # conn[f] => net'[k] = net[k],
         Here(f)' \subseteq Here(f),
         NEW I,
         Ids(net'[conn[f]][Other(f)]) \subseteq
           Ids(net[conn[f]][Other(f)]) \cup (IF Vanishes(f) THEN {} ELSE I),
         I \cup Ids(outStream'[f]) \cup Ids(Heads(outgoing'[f]))
           \subseteq Ids(outStream[f]) \cup Ids(Heads(outgoing[f]))
  PROVE  Slips(conn[f])
<1> DEFINE o == Other(f)
<1>1. /\ o \in End /\ o # f /\ Other(o) = f /\ End = {f, o}
      /\ conn[f] \in Conns /\ (conn[o] # 0 => conn[o] \in Conns)
  BY LineTypes DEF Inv
<1>2. UNCHANGED <<conn, opened, accepted, closed, lost>>
  BY DEF sockets
<1>3. Healthy(o)' = Healthy(o)
  BY <1>1 DEF Healthy
<1>4. Served(f)' = Served(f) /\ Served(o)' = Served(o)
  BY <1>1, <1>2, <1>3 DEF Served, Linked, Together
<1>5. Lossy \subseteq Lossy' /\ Lossy' \subseteq Lossy \cup {conn[f]}
  BY <1>1, <1>2, <1>3 DEF Lossy
<1>6. There(f)' = There(f)
  BY <1>1 DEF There
<1>7. ToRead(f)' \subseteq ToRead(f)
  BY <1>2, <1>4, <1>6, ReadIsHereAndThere, ReadNext
<1>8. conn[o] # conn[f] => ToRead(o)' = ToRead(o)
  <2> SUFFICES ASSUME conn[o] # conn[f] PROVE ToRead(o)' = ToRead(o)
    OBVIOUS
  <2>1. ~Served(o)
    BY <1>1 DEF Served, Linked, Together, End, Other
  <2>2. conn[o] # 0 => Here(o)' = Here(o)
    BY <1>1, <1>2 DEF Here
  <2> QED BY <1>1, <1>2, <1>3, <1>4, <2>1, <2>2, ReadIsHereAndThere, ReadNext
<1>9. conn[o] = conn[f] => ToRead(o)' \subseteq ToRead(o)
  <2> SUFFICES ASSUME conn[o] = conn[f] PROVE ToRead(o)' \subseteq ToRead(o)
    OBVIOUS
  <2>1. There(o)' \subseteq There(o) /\ I \subseteq There(o)
    BY <1>1 DEF There
  <2>2. Here(o)' \subseteq Here(o) \cup (IF Vanishes(f) THEN {} ELSE I)
    BY <1>1, <1>2 DEF Here
  <2>3. ~Served(o) => Vanishes(f)
    BY <1>1, HeardSender
  <2> QED BY <1>1, <1>2, <1>3, <1>4, <2>1, <2>2, <2>3, ReadIsHereAndThere, ReadNext
<1> QED BY <1>1, <1>2, <1>5, <1>7, <1>8, <1>9 DEF Slips

\* An end that fails hands nothing over any more.
LEMMA FailureSlips ==
  ASSUME Inv, NEW f \in End, conn[f] # 0, UNCHANGED sockets,
         UNCHANGED <<queued, taken>>,
         dropped \subseteq dropped', dropped' \subseteq dropped \cup {conn[f]},
         err'[f] # "none", err'[Other(f)] = err[Other(f)],
         inStream'[Other(f)] = inStream[Other(f)], incoming'[Other(f)] = incoming[Other(f)],
         \A k \in Conns : net'[k][Other(f)] = net[k][Other(f)]
  PROVE  Slips(conn[f])
<1> DEFINE o == Other(f)
<1>1. /\ o \in End /\ o # f /\ Other(o) = f /\ End = {f, o}
      /\ conn[f] \in Conns /\ (conn[o] # 0 => conn[o] \in Conns)
  BY LineTypes DEF Inv
<1>2. UNCHANGED <<conn, opened, accepted, closed, lost>>
  BY DEF sockets
<1>3. Healthy(o)' = Healthy(o) /\ ~Healthy(f)'
  BY <1>1 DEF Healthy
<1>4. ~Served(o)'
  BY <1>1, <1>3 DEF Served
<1>5. Lossy \subseteq Lossy' /\ Lossy' \subseteq Lossy \cup {conn[f]}
  BY <1>1, <1>2, <1>3 DEF Lossy
<1>6. ToRead(f)' = {}
  BY <1>3, ReadIsHereAndThere, ReadNext
<1>7. conn[o] # 0 => Here(o)' = Here(o)
  BY <1>1, <1>2 DEF Here
<1>8. ToRead(o)' \subseteq ToRead(o)
  BY <1>1, <1>2, <1>3, <1>4, <1>7, ReadIsHereAndThere, ReadNext
<1>9. conn[o] # conn[f] => ToRead(o)' = ToRead(o)
  <2>1. conn[o] # conn[f] => ~Served(o)
    BY <1>1 DEF Served, Linked, Together, End, Other
  <2> QED BY <1>1, <1>2, <1>3, <1>4, <1>7, <2>1, ReadIsHereAndThere, ReadNext
<1> QED BY <1>1, <1>2, <1>5, <1>6, <1>8, <1>9 DEF Slips

\* The ranks in the network after a receive and a send.
LEMMA NetIds ==
  ASSUME TypeOK, NEW f \in End, NEW n, NEW data, NEW m, CanMove(f, n, data, m),
         net' = NetAfter(f, n, data, m)
  PROVE  /\ \A k \in Conns : k # conn[f] => net'[k] = net[k]
         /\ Ids(net'[conn[f]][f]) \cup Ids(Take(Arrived(f), n)) = Ids(net[conn[f]][f])
         /\ Ids(net'[conn[f]][Other(f)]) \subseteq
              Ids(net[conn[f]][Other(f)]) \cup (IF Vanishes(f) THEN {} ELSE Ids(data))
<1>1. /\ \A k \in Conns : k # conn[f] => net'[k] = net[k]
      /\ net'[conn[f]][f] = Drop(net[conn[f]][f], n)
      /\ net'[conn[f]][Other(f)] = IF Vanishes(f) THEN net[conn[f]][Other(f)]
                                   ELSE net[conn[f]][Other(f)] \o Take(data, m)
  BY NetParts
<1>2. /\ conn[f] \in Conns /\ n \in 0 .. Len(Arrived(f)) /\ data \in Seq(Unit)
      /\ m \in 0 .. Len(data) /\ Other(f) \in End
  BY DEF CanMove, End, Other
<1>3. net[conn[f]][f] \in Seq(Unit) /\ net[conn[f]][Other(f)] \in Seq(Unit)
  BY <1>2, NetTypes
<1>4. Ids(Drop(net[conn[f]][f], n)) \cup Ids(Take(Arrived(f), n)) = Ids(net[conn[f]][f])
  <2>1. /\ Take(net[conn[f]][f], n) \in Seq(Unit) /\ Drop(net[conn[f]][f], n) \in Seq(Unit)
        /\ net[conn[f]][f] = Take(net[conn[f]][f], n) \o Drop(net[conn[f]][f], n)
    BY <1>2, <1>3, SplitAt DEF Arrived
  <2>2. Ids(Take(net[conn[f]][f], n) \o Drop(net[conn[f]][f], n))
          = Ids(Take(net[conn[f]][f], n)) \cup Ids(Drop(net[conn[f]][f], n))
    BY <2>1, IdsOfJoin
  <2> QED BY <2>1, <2>2 DEF Arrived
<1>5. Ids(Take(data, m)) \subseteq Ids(data) /\ Take(data, m) \in Seq(Unit)
  <2>1. /\ Take(data, m) \in Seq(Unit) /\ Drop(data, m) \in Seq(Unit)
        /\ data = Take(data, m) \o Drop(data, m)
    BY <1>2, SplitAt
  <2>2. Ids(Take(data, m) \o Drop(data, m)) = Ids(Take(data, m)) \cup Ids(Drop(data, m))
    BY <2>1, IdsOfJoin
  <2> QED BY <2>1, <2>2
<1>6. Ids(net[conn[f]][Other(f)] \o Take(data, m))
        = Ids(net[conn[f]][Other(f)]) \cup Ids(Take(data, m))
  BY <1>3, <1>5, IdsOfJoin
<1> QED BY <1>1, <1>4, <1>5, <1>6

LEMMA IdsOfParts ==
  ASSUME NEW s \in Seq(Unit), NEW n \in 0 .. Len(s)
  PROVE  Ids(Take(s, n)) \subseteq Ids(s) /\ Ids(Drop(s, n)) \subseteq Ids(s)
<1>1. Take(s, n) \in Seq(Unit) /\ Drop(s, n) \in Seq(Unit) /\ s = Take(s, n) \o Drop(s, n)
  BY SplitAt
<1>2. Ids(Take(s, n) \o Drop(s, n)) = Ids(Take(s, n)) \cup Ids(Drop(s, n))
  BY <1>1, IdsOfJoin
<1> QED BY <1>1, <1>2

\* An update that moves units through the streams and the network only.
LEMMA MoveSlips ==
  ASSUME Inv, Shut, NEW f \in End, conn[f] # 0, err[f] = "none", err' = err,
         UNCHANGED <<session, queues, history>>,
         inStream'[Other(f)] = inStream[Other(f)], outStream'[Other(f)] = outStream[Other(f)],
         NEW n, NEW data, NEW m, CanMove(f, n, data, m), net' = NetAfter(f, n, data, m),
         Ids(inStream'[f]) \subseteq Ids(inStream[f]) \cup Ids(Take(Arrived(f), n)),
         Ids(data) \cup Ids(outStream'[f]) \subseteq Ids(outStream[f])
  PROVE  Slips(conn[f])
<1>1. /\ UNCHANGED <<sockets, dropped, incoming, outgoing, queued, taken>>
      /\ Healthy(f) /\ Healthy(f)' /\ conn' = conn
  BY DEF session, sockets, queues, history, Healthy
<1>2. /\ \A k \in Conns : k # conn[f] => net'[k] = net[k]
      /\ Ids(net'[conn[f]][f]) \cup Ids(Take(Arrived(f), n)) = Ids(net[conn[f]][f])
      /\ Ids(net'[conn[f]][Other(f)]) \subseteq
           Ids(net[conn[f]][Other(f)]) \cup (IF Vanishes(f) THEN {} ELSE Ids(data))
  BY NetIds DEF Inv
<1>3. Here(f)' \subseteq Here(f)
  BY <1>1, <1>2 DEF Here
<1>4. /\ Ids(data) \cup Ids(outStream'[f]) \cup Ids(Heads(outgoing'[f]))
           \subseteq Ids(outStream[f]) \cup Ids(Heads(outgoing[f]))
  BY <1>1
<1> QED BY <1>1, <1>2, <1>3, <1>4, UpdateSlips

LEMMA ToSayIds ==
  ASSUME TypeOK, NEW f \in End, conn[f] # 0, NEW p \in {Packet, HelloMsg}
  PROVE  /\ Ids(ToSay(f, p)) \subseteq Ids(outStream[f])
         /\ Ids(Drop(ToSay(f, p), Sent(f, ToSay(f, p)))) \subseteq Ids(outStream[f])
<1>1. /\ ToSay(f, p) \in Seq(Unit)
      /\ Sent(f, ToSay(f, p)) \in 0 .. Len(ToSay(f, p))
  BY ToSayFits
<1>2. p \in Wire /\ ~IsData(p)
  BY DEF Wire, Message, Packet, HelloMsg, IsData
<1>3. Ids(Frame(p)) = {}
  BY <1>2, OneMessage
<1>4. Ids(ToSay(f, p)) \subseteq Ids(outStream[f])
  BY <1>3 DEF ToSay
<1> QED BY <1>1, <1>4, IdsOfParts

LEMMA JoinedIds ==
  ASSUME TypeOK, NEW f \in End, conn[f] # 0, NEW n, CanMove(f, n, <<>>, 0)
  PROVE  Ids(Joined(f, n)) = Ids(inStream[f]) \cup Ids(Take(Arrived(f), n))
<1>1. inStream[f] \in Seq(Unit) /\ Arrived(f) \in Seq(Unit) /\ n \in 0 .. Len(Arrived(f))
  BY LineTypes DEF CanMove, Arrived
<1>2. Take(Arrived(f), n) \in Seq(Unit)
  BY <1>1, SplitAt
<1> QED BY <1>1, <1>2, IdsOfJoin DEF Joined

LEMMA SendHelloSlips ==
  ASSUME Inv, Inv', Agreed, Deliver, NEW f \in End, SendHello(f)
  PROVE  Slips(conn[f])
<1> DEFINE o == Other(f)
           out == ToSay(f, Packet)
           m == Sent(f, out)
<1>1. o \in End /\ o # f /\ TypeOK /\ Shut
  BY Actors
<1>2. /\ conn[f] # 0 /\ err[f] = "none" /\ UNCHANGED <<session, queues, history>>
      /\ err' = err
  BY SendHelloDirections DEF SendHello, CanHandshake, Usable
<1>3. /\ outStream' = [outStream EXCEPT ![f] = Drop(out, m)]
      /\ net' = NetAfter(f, 0, out, m)
      /\ inStream' = inStream
  <2>1. err'[f] # "RECEIVE_BEFORE_SEND"
    BY <1>2
  <2>2. ~Fail(f, "RECEIVE_BEFORE_SEND")
    BY <1>1, <2>1 DEF Fail, TypeOK
  <2> QED BY <2>2 DEF SendHello, ToSay
<1>4. outStream'[f] = Drop(out, m) /\ outStream'[o] = outStream[o]
  BY <1>1, <1>3 DEF TypeOK
<1>5. CanMove(f, 0, out, m) /\ Ids(out) \subseteq Ids(outStream[f])
      /\ Ids(Drop(out, m)) \subseteq Ids(outStream[f])
  BY <1>1, <1>2, ToSayFits, ToSayIds
<1> HIDE DEF out, m
<1> QED BY <1>1, <1>2, <1>3, <1>4, <1>5, MoveSlips

LEMMA ReceiveHelloSlips ==
  ASSUME Inv, Inv', Agreed, Deliver, NEW f \in End, ReceiveHello(f)
  PROVE  Slips(conn[f])
<1> DEFINE o == Other(f)
           out == ToSay(f, HelloMsg)
           m == Sent(f, out)
<1>1. o \in End /\ o # f /\ TypeOK /\ Shut
  BY Actors
<1>2. /\ conn[f] # 0 /\ err[f] = "none" /\ UNCHANGED <<session, queues, history>>
      /\ err' = err
  BY ReceiveHelloDirections DEF ReceiveHello, CanHandshake, Usable
<1>3. ~Fail(f, "HELLO_INVALID")
  BY <1>1, <1>2 DEF Fail, TypeOK
<1>4. PICK n \in Receivable(f, HelloUnits) \ {0} :
        \/ /\ inStream' = [inStream EXCEPT ![f] = Joined(f, n)]
           /\ net' = NetAfter(f, n, <<>>, 0)
           /\ outStream' = outStream
        \/ /\ Len(Joined(f, n)) >= HelloUnits
           /\ inStream' = [inStream EXCEPT ![f] = Drop(Joined(f, n), HelloUnits)]
           /\ outStream' = [outStream EXCEPT ![f] = Drop(out, m)]
           /\ net' = NetAfter(f, n, out, m)
  BY <1>3 DEF ReceiveHello, Joined, ToSay
<1>5. /\ Joined(f, n) \in Seq(Unit) /\ CanMove(f, n, <<>>, 0)
      /\ Ids(Joined(f, n)) = Ids(inStream[f]) \cup Ids(Take(Arrived(f), n))
  BY <1>1, <1>2, JoinedLength, JoinedIds
<1>6. CanMove(f, 0, out, m) /\ Ids(out) \subseteq Ids(outStream[f])
      /\ Ids(Drop(out, m)) \subseteq Ids(outStream[f])
  BY <1>1, <1>2, ToSayFits, ToSayIds
<1> HIDE DEF out, m
<1>7. CanMove(f, n, out, m)
  BY <1>5, <1>6 DEF CanMove
<1>8. CASE /\ inStream' = [inStream EXCEPT ![f] = Joined(f, n)]
           /\ net' = NetAfter(f, n, <<>>, 0)
           /\ outStream' = outStream
  <2>1. inStream'[f] = Joined(f, n) /\ inStream'[o] = inStream[o] /\ Ids(<<>>) = {}
    BY <1>1, <1>8, NothingQueued DEF TypeOK
  <2> QED BY <1>1, <1>2, <1>5, <1>8, <2>1, MoveSlips
<1>9. CASE /\ Len(Joined(f, n)) >= HelloUnits
           /\ inStream' = [inStream EXCEPT ![f] = Drop(Joined(f, n), HelloUnits)]
           /\ outStream' = [outStream EXCEPT ![f] = Drop(out, m)]
           /\ net' = NetAfter(f, n, out, m)
  <2>1. /\ inStream'[f] = Drop(Joined(f, n), HelloUnits) /\ inStream'[o] = inStream[o]
        /\ outStream'[f] = Drop(out, m) /\ outStream'[o] = outStream[o]
    BY <1>1, <1>9 DEF TypeOK
  <2>2. Ids(Drop(Joined(f, n), HelloUnits)) \subseteq Ids(Joined(f, n))
    BY <1>5, <1>9, IdsOfParts
  <2> QED BY <1>1, <1>2, <1>5, <1>6, <1>7, <1>9, <2>1, <2>2, MoveSlips
<1> QED BY <1>4, <1>8, <1>9

LEMMA ReceiveSlips ==
  ASSUME Inv, Inv', Deliver, NEW f \in End, Receive(f, 0) \/ ReceiveSome(f)
  PROVE  Slips(conn[f])
<1> DEFINE o == Other(f)
<1>1. o \in End /\ o # f /\ TypeOK /\ Shut
  BY Actors
<1>2. /\ step[f] = "receiving" /\ UNCHANGED <<session, queues, history, outStream>>
      /\ err' = err
  BY DEF Receive, ReceiveSome
<1>3. conn[f] # 0 /\ err[f] = "none"
  BY <1>2 DEF Inv, Links, Deliver, Idle
<1>4. Len(inStream[f]) \in 0 .. InCap /\ Len(Arrived(f)) \in Nat
  BY <1>1, <1>3, StreamTypes, Counts DEF Arrived
<1>5. InCap - Len(inStream[f]) \in Nat
  BY <1>4
<1>6. PICK n : /\ n \in Receivable(f, InCap - Len(inStream[f]))
               /\ inStream' = [inStream EXCEPT ![f] = Joined(f, n)]
               /\ net' = NetAfter(f, n, <<>>, 0)
  <2>1. 0 \in Receivable(f, InCap - Len(inStream[f]))
    BY <1>4, <1>5, MinOfTwo DEF Receivable
  <2> QED BY <2>1 DEF Receive, ReceiveSome, Joined
<1>7. /\ CanMove(f, n, <<>>, 0)
      /\ Ids(Joined(f, n)) = Ids(inStream[f]) \cup Ids(Take(Arrived(f), n))
  BY <1>1, <1>3, <1>5, <1>6, JoinedLength, JoinedIds
<1>8. inStream'[f] = Joined(f, n) /\ inStream'[o] = inStream[o] /\ Ids(<<>>) = {}
  BY <1>1, <1>6, NothingQueued DEF TypeOK
<1> QED BY <1>1, <1>2, <1>3, <1>6, <1>7, <1>8, MoveSlips

LEMMA ReceiveHelloMessageSlips ==
  ASSUME Inv, Inv', Agreed, Deliver, NEW f \in End, ReceiveHelloMessage(f)
  PROVE  Slips(conn[f])
<1> DEFINE o == Other(f)
<1>1. o \in End /\ o # f /\ TypeOK /\ Shut
  BY Actors
<1>2. /\ conn[f] # 0 /\ err[f] = "none"
      /\ UNCHANGED <<session, queues, history, outStream>>
  BY DEF ReceiveHelloMessage, CanHandshake, Usable
<1>3. Len(inStream[f]) \in 0 .. InCap /\ InCap - Len(inStream[f]) \in Nat
  BY <1>1, StreamTypes
<1>4. PICK n \in Receivable(f, InCap - Len(inStream[f])) :
        /\ net' = NetAfter(f, n, <<>>, 0)
        /\ \/ inStream' = [inStream EXCEPT ![f] = Joined(f, n)]
           \/ /\ Parse(Joined(f, n)) = "message"
              /\ inStream' = [inStream EXCEPT
                   ![f] = Drop(Joined(f, n), Size(Joined(f, n)[1].m))]
        /\ \/ err' = err
           \/ Fail(f, "BAD_FRAME")
           \/ Fail(f, "HELLO_MESSAGE_REPLY_INVALID")
  BY DEF ReceiveHelloMessage, Joined
<1>5. /\ Joined(f, n) \in Seq(Unit) /\ CanMove(f, n, <<>>, 0)
      /\ Ids(Joined(f, n)) = Ids(inStream[f]) \cup Ids(Take(Arrived(f), n))
  BY <1>1, <1>2, <1>3, <1>4, JoinedLength, JoinedIds
<1>6. inStream'[o] = inStream[o] /\ Ids(inStream'[f]) \subseteq Ids(Joined(f, n))
  <2>1. CASE inStream' = [inStream EXCEPT ![f] = Joined(f, n)]
    BY <1>1, <2>1 DEF TypeOK
  <2>2. CASE /\ Parse(Joined(f, n)) = "message"
             /\ inStream' = [inStream EXCEPT
                  ![f] = Drop(Joined(f, n), Size(Joined(f, n)[1].m))]
    <3>1. Size(Joined(f, n)[1].m) \in 0 .. Len(Joined(f, n))
      BY <1>5, <2>2, ParsedIsThere
    <3>2. Ids(Drop(Joined(f, n), Size(Joined(f, n)[1].m))) \subseteq Ids(Joined(f, n))
      BY <1>5, <3>1, IdsOfParts
    <3> QED BY <1>1, <2>2, <3>2 DEF TypeOK
  <2> QED BY <1>4, <2>1, <2>2
<1>7. CASE err' = err
  <2>1. Ids(<<>>) = {}
    BY NothingQueued
  <2> QED BY <1>1, <1>2, <1>4, <1>5, <1>6, <1>7, <2>1, MoveSlips
<1>8. CASE Fail(f, "BAD_FRAME") \/ Fail(f, "HELLO_MESSAGE_REPLY_INVALID")
  <2>1. err'[f] # "none" /\ err'[o] = err[o]
    BY <1>1, <1>8 DEF Fail, TypeOK
  <2>2. \A k \in Conns : net'[k][o] = net[k][o]
    BY <1>1, <1>4, <1>5, NetUnsent
  <2>3. UNCHANGED <<sockets, dropped, incoming, queued, taken>>
    BY <1>2 DEF session, queues, history
  <2> QED BY <1>2, <1>6, <2>1, <2>2, <2>3, FailureSlips
<1> QED BY <1>4, <1>7, <1>8

LEMMA QuietFailsSlip ==
  ASSUME Inv, NEW f \in End,
         HandshakeTimeout(f) \/ HealthTimeout(f) \/ HealthQueueFull(f) \/ SocketError(f)
           \/ SendLeftoverFails(f)
  PROVE  Slips(conn[f]) /\ conn[f] # 0
<1>1. /\ UNCHANGED <<session, streams, queues, history>>
      /\ \E x \in Errors \ {"none"} : err' = [err EXCEPT ![f] = x]
  BY DEF HandshakeTimeout, HealthTimeout, HealthQueueFull, SocketError, SendLeftoverFails,
     Fail, Errors
<1>2. conn[f] # 0
  <2>1. step[f] = "receiving" => status[f] = "ready"
    BY DEF Inv, Links
  <2>2. status[f] = "ready" => conn[f] # 0
    BY DEF Inv, Links
  <2> QED BY <2>1, <2>2 DEF HandshakeTimeout, HealthTimeout, HealthQueueFull, SocketError,
          SendLeftoverFails, CanHandshake, CanUpdate, Usable
<1>3. Other(f) \in End /\ Other(f) # f
  BY DEF End, Other
<1>4. err'[f] # "none" /\ err'[Other(f)] = err[Other(f)]
  BY <1>1, <1>3 DEF Inv, TypeOK
<1>5. UNCHANGED <<sockets, dropped, inStream, incoming, net, queued, taken>>
  BY <1>1 DEF session, streams, queues, history
<1> QED BY <1>2, <1>4, <1>5, FailureSlips

LEMMA QueuedIds ==
  ASSUME NEW q \in Seq(Message), NEW m \in Message
  PROVE  Ids(Heads(Append(q, m))) = Ids(Heads(q)) \cup (IF IsData(m) THEN {m.id} ELSE {})
<1>1. m \in Wire /\ Lead(m) \in {Frame(m), Lead(m)}
  BY DEF Wire
<1>2. Lead(m) \in Seq(Unit) /\ Ids(Lead(m)) = IF IsData(m) THEN {m.id} ELSE {}
  BY <1>1, OneMessage
<1>3. Heads(q) \in Seq(Unit) /\ Heads(Append(q, m)) = Heads(q) \o Lead(m)
  BY HeadsOfQueue, HeadsOfLonger
<1>4. Ids(Heads(q) \o Lead(m)) = Ids(Heads(q)) \cup Ids(Lead(m))
  BY <1>2, <1>3, IdsOfJoin
<1> QED BY <1>2, <1>3, <1>4

LEMMA FirstIds ==
  ASSUME NEW q \in Seq(Message), q # <<>>
  PROVE  /\ Ids(Heads(q)) = Ids(Frame(Head(q))) \cup Ids(Heads(Tail(q)))
         /\ Ids(Frame(Head(q))) = IF IsData(Head(q)) THEN {Head(q).id} ELSE {}
<1> DEFINE m == Head(q)
<1>1. /\ m \in Message /\ Tail(q) \in Seq(Message) /\ Heads(q) = Lead(m) \o Heads(Tail(q))
  BY HeadsOfRest
<1>2. m \in Wire /\ Lead(m) \in {Frame(m), Lead(m)} /\ Frame(m) \in {Frame(m), Lead(m)}
  BY <1>1 DEF Wire
<1> HIDE DEF m
<1>3. /\ Lead(m) \in Seq(Unit) /\ Ids(Lead(m)) = IF IsData(m) THEN {m.id} ELSE {}
      /\ Ids(Frame(m)) = IF IsData(m) THEN {m.id} ELSE {}
  BY <1>2, OneMessage
<1>4. Ids(Lead(m) \o Heads(Tail(q))) = Ids(Lead(m)) \cup Ids(Heads(Tail(q)))
  BY <1>1, <1>3, HeadsOfQueue, IdsOfJoin
<1> QED BY <1>1, <1>3, <1>4 DEF m

LEMMA ReadMessageSlips ==
  ASSUME Inv, Inv', Deliver, NEW f \in End, ReadMessage(f)
  PROVE  Slips(conn[f])
<1> DEFINE o == Other(f)
           s == inStream[f]
           m == s[1].m
<1>1. o \in End /\ o # f /\ TypeOK /\ Shut
  BY Actors
<1>2. /\ conn[f] # 0 /\ err[f] = "none"
      /\ UNCHANGED <<session, outStream, net, outgoing, history>>
      /\ \/ UNCHANGED <<inStream, incoming, err>>
         \/ Fail(f, "BAD_FRAME") /\ UNCHANGED <<inStream, incoming>>
         \/ /\ Parse(s) = "message"
            /\ inStream' = [inStream EXCEPT ![f] = Drop(s, Size(m))]
            /\ \/ UNCHANGED <<err, incoming>>
               \/ /\ incoming' = [incoming EXCEPT ![f] = Append(incoming[f], m)]
                  /\ err' = err
               \/ /\ err' = [err EXCEPT ![f] = "INCOMING_QUEUE_INSUFFICIENT_SPACE"]
                  /\ incoming' = incoming
  BY DEF ReadMessage, Inv, Links, Deliver, Idle
<1>3. /\ UNCHANGED <<sockets, dropped, queued, taken, net, outStream, outgoing>>
      /\ Healthy(f) /\ conn' = conn
  BY <1>2 DEF session, sockets, history, Healthy
<1>4. inStream'[o] = inStream[o] /\ incoming'[o] = incoming[o]
  BY <1>1, <1>2 DEF TypeOK
<1>5. CASE err' # err
  <2>1. err'[f] # "none" /\ err'[o] = err[o]
    BY <1>1, <1>2, <1>5 DEF TypeOK, Fail
  <2> QED BY <1>2, <1>3, <1>4, <2>1, FailureSlips
<1>6. CASE err' = err
  <2>1. s \in Seq(Unit) /\ incoming[f] \in Seq(Message)
    BY <1>1 DEF TypeOK
  <2>2. Ids(inStream'[f]) \cup Ids(Heads(incoming'[f]))
          \subseteq Ids(inStream[f]) \cup Ids(Heads(incoming[f]))
    <3>1. CASE UNCHANGED <<inStream, incoming>>
      BY <3>1
    <3>2. CASE /\ Parse(s) = "message"
               /\ inStream' = [inStream EXCEPT ![f] = Drop(s, Size(m))]
      <4>1. /\ m \in Message /\ m \in Wire
            /\ Drop(s, Size(m)) \in Seq(Unit) /\ s = Frame(m) \o Drop(s, Size(m))
        BY <2>1, <3>2, ParsedFrame
      <4>2. Frame(m) \in Seq(Unit) /\ Ids(Frame(m)) = IF IsData(m) THEN {m.id} ELSE {}
        BY <4>1, OneMessage
      <4>3. Ids(Frame(m) \o Drop(s, Size(m))) = Ids(Frame(m)) \cup Ids(Drop(s, Size(m)))
        BY <4>1, <4>2, IdsOfJoin
      <4>4. Ids(s) = Ids(Frame(m)) \cup Ids(inStream'[f])
        BY <1>1, <3>2, <4>1, <4>3 DEF TypeOK
      <4>5. Ids(Heads(Append(incoming[f], m))) = Ids(Heads(incoming[f])) \cup Ids(Frame(m))
        BY <2>1, <4>1, <4>2, QueuedIds
      <4>6. incoming'[f] = incoming[f] \/ incoming'[f] = Append(incoming[f], m)
        BY <1>1, <1>2 DEF TypeOK
      <4> QED BY <4>4, <4>5, <4>6
    <3> QED BY <1>1, <1>2, <1>6, <3>1, <3>2 DEF TypeOK, Fail
  <2>3. Here(f)' \subseteq Here(f)
    BY <1>3, <2>2 DEF Here
  <2>4. Healthy(f)' /\ err'[o] = err[o]
    BY <1>3, <1>6 DEF Healthy
  <2> DEFINE I == {}
  <2>5. /\ Ids(net'[conn[f]][o]) \subseteq
             Ids(net[conn[f]][o]) \cup (IF Vanishes(f) THEN {} ELSE I)
        /\ I \cup Ids(outStream'[f]) \cup Ids(Heads(outgoing'[f]))
             \subseteq Ids(outStream[f]) \cup Ids(Heads(outgoing[f]))
        /\ \A k \in Conns : k # conn[f] => net'[k] = net[k]
        /\ dropped \subseteq dropped' /\ dropped' \subseteq dropped \cup {conn[f]}
        /\ outStream'[o] = outStream[o] /\ outgoing'[o] = outgoing[o]
    BY <1>3
  <2> HIDE DEF I
  <2> QED BY <1>1, <1>2, <1>3, <1>4, <2>3, <2>4, <2>5, UpdateSlips
<1> QED BY <1>5, <1>6

\* What is sent, kept and cut by the sending of out.
LEMMA PendingIds ==
  ASSUME TypeOK, NEW f \in End, conn[f] # 0, NEW out \in Seq(Unit), SendPending(f, out)
  PROVE  /\ \A k \in Conns : k # conn[f] => net'[k] = net[k]
         /\ Ids(net'[conn[f]][f]) \subseteq Ids(net[conn[f]][f])
         /\ Ids(net'[conn[f]][Other(f)]) \subseteq
              Ids(net[conn[f]][Other(f)]) \cup (IF Vanishes(f) THEN {} ELSE Ids(out))
         /\ Ids(outStream'[f]) \subseteq Ids(out)
         /\ outStream'[Other(f)] = outStream[Other(f)]
         /\ dropped \subseteq dropped' /\ dropped' \subseteq dropped \cup {conn[f]}
<1>1. Other(f) \in End /\ Other(f) # f /\ conn[f] \in Conns
  BY LineTypes
<1>2. CASE Writable(f)
  <2>1. /\ net' = NetAfter(f, 0, out, Sent(f, out))
        /\ outStream' = [outStream EXCEPT ![f] = <<>>]
        /\ dropped' = IF Sent(f, out) = Len(out) THEN dropped ELSE dropped \cup {conn[f]}
    BY <1>2 DEF SendPending
  <2>2. CanMove(f, 0, out, Sent(f, out))
    BY <1>1, SendFits
  <2>3. outStream'[f] = <<>> /\ outStream'[Other(f)] = outStream[Other(f)]
    BY <1>1, <2>1 DEF TypeOK
  <2>4. Ids(<<>>) = {}
    BY NothingQueued
  <2> QED BY <2>1, <2>2, <2>3, <2>4, NetIds
<1>3. CASE ~Writable(f)
  <2>1. /\ outStream' = [outStream EXCEPT ![f] = out]
        /\ UNCHANGED <<net, dropped>>
    BY <1>3 DEF SendPending
  <2> QED BY <1>1, <2>1 DEF TypeOK
<1> QED BY <1>2, <1>3

LEMMA PendingSlips ==
  ASSUME Inv, Shut, NEW f \in End, conn[f] # 0, err[f] = "none", err' = err,
         UNCHANGED <<sockets, inStream, incoming, queued, taken>>,
         outgoing'[Other(f)] = outgoing[Other(f)],
         NEW out \in Seq(Unit), SendPending(f, out),
         Ids(out) \cup Ids(Heads(outgoing'[f]))
           \subseteq Ids(outStream[f]) \cup Ids(Heads(outgoing[f]))
  PROVE  Slips(conn[f])
<1>1. /\ \A k \in Conns : k # conn[f] => net'[k] = net[k]
      /\ Ids(net'[conn[f]][f]) \subseteq Ids(net[conn[f]][f])
      /\ Ids(net'[conn[f]][Other(f)]) \subseteq
           Ids(net[conn[f]][Other(f)]) \cup (IF Vanishes(f) THEN {} ELSE Ids(out))
      /\ Ids(outStream'[f]) \subseteq Ids(out)
      /\ outStream'[Other(f)] = outStream[Other(f)]
      /\ dropped \subseteq dropped' /\ dropped' \subseteq dropped \cup {conn[f]}
  BY PendingIds DEF Inv
<1>2. Healthy(f) /\ Healthy(f)' /\ conn' = conn
  BY DEF Healthy, sockets
<1>3. Here(f)' \subseteq Here(f)
  BY <1>1, <1>2 DEF Here
<1>4. Ids(out) \cup Ids(outStream'[f]) \cup Ids(Heads(outgoing'[f]))
        \subseteq Ids(outStream[f]) \cup Ids(Heads(outgoing[f]))
  BY <1>1
<1> QED BY <1>1, <1>2, <1>3, <1>4, UpdateSlips

LEMMA BeginUpdateSlips ==
  ASSUME Inv, Inv', Deliver, NEW f \in End, BeginUpdate(f)
  PROVE  Slips(conn[f])
<1>1. Other(f) \in End /\ Other(f) # f /\ TypeOK /\ Shut
  BY Actors
<1>2. /\ conn[f] # 0 /\ err[f] = "none"
      /\ UNCHANGED <<sockets, inStream, incoming, queued, taken, err>>
      /\ SendPending(f, outStream[f])
      /\ \E q \in {outgoing[f], Append(outgoing[f], Health)} :
           outgoing' = [outgoing EXCEPT ![f] = q]
  BY DEF BeginUpdate, CanUpdate, Usable
<1>3. outgoing[f] \in Seq(Message) /\ Health \in Message /\ ~IsData(Health)
      /\ outStream[f] \in Seq(Unit)
  BY <1>1, HandshakeFrames DEF TypeOK, IsData, Health
<1>4. Ids(Heads(Append(outgoing[f], Health))) = Ids(Heads(outgoing[f]))
  BY <1>3, QueuedIds
<1>5. outgoing'[Other(f)] = outgoing[Other(f)]
      /\ outgoing'[f] \in {outgoing[f], Append(outgoing[f], Health)}
  BY <1>1, <1>2 DEF TypeOK
<1>6. Ids(Heads(outgoing'[f])) = Ids(Heads(outgoing[f]))
  BY <1>4, <1>5
<1> QED BY <1>1, <1>2, <1>3, <1>5, <1>6, PendingSlips

LEMMA SendNextSlips ==
  ASSUME Inv, Inv', Deliver, NEW f \in End, SendNext(f)
  PROVE  Slips(conn[f])
<1> DEFINE out == outStream[f] \o Frame(Head(outgoing[f]))
<1>1. Other(f) \in End /\ Other(f) # f /\ TypeOK /\ Shut
  BY Actors
<1>2. /\ UNCHANGED <<sockets, inStream, incoming, queued, taken>>
      /\ outgoing' = [outgoing EXCEPT ![f] = Tail(outgoing[f])]
      /\ \/ SendPending(f, out) /\ err' = err
         \/ /\ \E x \in Errors \ {"none"} : Fail(f, x)
            /\ UNCHANGED <<net, dropped>>
  BY DEF SendNext, history, Errors
<1>3. conn[f] # 0 /\ err[f] = "none" /\ outgoing[f] # <<>>
  BY DEF SendNext, Inv, Links, Deliver, Idle
<1>4. outgoing[f] \in Seq(Message) /\ outStream[f] \in Seq(Unit)
  BY <1>1 DEF TypeOK
<1>5. outgoing'[f] = Tail(outgoing[f]) /\ outgoing'[Other(f)] = outgoing[Other(f)]
  BY <1>1, <1>2 DEF TypeOK
<1>6. Ids(Heads(outgoing[f])) = Ids(Frame(Head(outgoing[f]))) \cup Ids(Heads(outgoing'[f]))
  BY <1>3, <1>4, <1>5, FirstIds
<1>7. Head(outgoing[f]) \in Wire
  BY <1>3, <1>4, HeadsOfRest DEF Wire
<1>8. out \in Seq(Unit) /\ Ids(out) = Ids(outStream[f]) \cup Ids(Frame(Head(outgoing[f])))
  BY <1>4, <1>7, FrameIsUnits, Joining, IdsOfJoin
<1>9. CASE SendPending(f, out) /\ err' = err
  <2> HIDE DEF out
  <2> QED BY <1>1, <1>2, <1>3, <1>5, <1>6, <1>8, <1>9, PendingSlips
<1>10. CASE /\ \E x \in Errors \ {"none"} : Fail(f, x)
            /\ UNCHANGED <<net, dropped>>
  <2>1. err'[f] # "none" /\ err'[Other(f)] = err[Other(f)]
    BY <1>1, <1>10 DEF Fail, TypeOK
  <2> QED BY <1>1, <1>2, <1>3, <1>10, <2>1, FailureSlips
<1> QED BY <1>2, <1>9, <1>10

LEMMA LosePathSlips ==
  ASSUME Inv, NEW k \in Conns, LosePath(k)
  PROVE  Slips(k)
<1>1. /\ UNCHANGED <<err, conn, opened, accepted, closed, dropped, queued, taken, inStream,
                     outStream, incoming, outgoing>>
      /\ lost' = lost \cup {k}
      /\ net' = [net EXCEPT ![k] = [e \in End |-> <<>>]]
  BY DEF LosePath, queues, history
<1>2. Lossy' = Lossy \cup {k}
  BY <1>1 DEF Lossy, Healthy
<1>3. ASSUME NEW e \in End
      PROVE  IF conn[e] = k THEN ToRead(e)' \subseteq ToRead(e) ELSE ToRead(e)' = ToRead(e)
  <2>1. /\ Healthy(e)' = Healthy(e) /\ There(e)' = There(e) /\ conn' = conn
        /\ Served(e)' => Served(e)
        /\ conn[e] # k => Served(e)' = Served(e)
    BY <1>1 DEF Healthy, There, Served, Linked, Together, End, Other
  <2>2. ASSUME conn[e] # 0
        PROVE  IF conn[e] = k THEN Here(e)' \subseteq Here(e) ELSE Here(e)' = Here(e)
    <3>1. conn[e] \in Conns
      BY <2>2, LineTypes DEF Inv
    <3>2. net'[conn[e]][e] = IF conn[e] = k THEN <<>> ELSE net[conn[e]][e]
      BY <1>1, <3>1 DEF Inv, TypeOK
    <3> QED BY <1>1, <2>1, <3>2, NothingQueued DEF Here
  <2> QED BY <2>1, <2>2, ReadIsHereAndThere, ReadNext
<1> QED BY <1>1, <1>2, <1>3 DEF Slips

-----------------------------------------------------------------------------
(* Steps that an owner sees.                                               *)

LEMMA QueueStep ==
  ASSUME Inv, Deliver, NEW f \in End, AddOutgoing(f)
  PROVE  Chan!Queue(f)
<1> DEFINE o == Other(f)
           n == queued[f] + 1
           m == Data(conn[f], n)
<1>1. /\ o \in End /\ o # f /\ Other(o) = f /\ End = {f, o} /\ TypeOK /\ Shut
      /\ queued[f] \in Nat
  BY LineTypes DEF Inv, Deliver
<1>2. /\ conn[f] # 0 /\ err[f] = "none" /\ queued[f] < MaxData
      /\ queued' = [queued EXCEPT ![f] = n]
      /\ outgoing' = [outgoing EXCEPT ![f] = Append(outgoing[f], m)]
      /\ UNCHANGED <<err, session, streams, incoming, taken>>
  BY DEF AddOutgoing, Usable
<1>3. /\ UNCHANGED <<err, conn, opened, accepted, closed, lost, dropped, inStream, outStream,
                     net, incoming, taken>>
      /\ \A e \in End : Healthy(e)' = Healthy(e)
  BY <1>2 DEF session, sockets, streams, Healthy
<1>4. Lossy' = Lossy
  BY <1>3 DEF Lossy
<1>5. \A e \in End : Here(e)' = Here(e) /\ Served(e)' = Served(e)
  BY <1>1, <1>3 DEF Here, Served, Linked, Together
<1>6. There(f)' = There(f) /\ There(o)' = There(o) \cup {n}
  <2>1. outgoing'[o] = outgoing[o] /\ outgoing'[f] = Append(outgoing[f], m)
        /\ outgoing[f] \in Seq(Message)
    BY <1>1, <1>2 DEF TypeOK
  <2>2. n \in 1 .. MaxData /\ conn[f] \in Conns
    BY <1>1, <1>2, ConnOfSocket
  <2>3. m \in Message /\ IsData(m) /\ m.id = n
    BY <2>2, DataIsMessage
  <2>4. Ids(Heads(Append(outgoing[f], m))) = Ids(Heads(outgoing[f])) \cup {n}
    BY <2>1, <2>3, QueuedIds
  <2> QED BY <1>1, <1>3, <2>1, <2>4 DEF There
<1>7. ToRead(f)' = ToRead(f)
  BY <1>3, <1>5, <1>6, ReadIsHereAndThere, ReadNext
<1>8. CASE conn[o] = conn[f] /\ Served(o) /\ Healthy(o)
  <2>1. ToRead(o)' = ToRead(o) \cup {n}
    BY <1>1, <1>2, <1>3, <1>5, <1>6, <1>8, ReadIsHereAndThere, ReadNext
  <2> QED BY <1>1, <1>2, <1>3, <1>4, <1>7, <1>8, <2>1 DEF Chan!Queue, Chan!Other, Other
<1>9. CASE ~(conn[o] = conn[f] /\ Served(o) /\ Healthy(o))
  <2>1. Served(o) => conn[o] = conn[f]
    BY <1>1 DEF Served, Linked, Together, End, Other
  <2>2. ToRead(o)' = ToRead(o)
    BY <1>1, <1>3, <1>5, <1>9, <2>1, ReadIsHereAndThere, ReadNext
  <2>3. conn[o] # conn[f] \/ conn[f] \in Lossy
    <3>1. conn[f] \in Conns
      BY <1>1, <1>2, ConnOfSocket
    <3>2. Healthy(o) /\ ~Served(o) => conn[o] # conn[f] \/ Vanishes(f)
      BY <1>1, <1>2, HeardSender DEF Healthy
    <3>3. Vanishes(f) => conn[f] \in Lossy
      BY <3>1 DEF Vanishes, PeerClosed, Lossy
    <3>4. ~Healthy(o) /\ conn[o] = conn[f] => conn[f] \in Lossy
      BY <1>1 DEF Lossy
    <3> QED BY <1>9, <3>2, <3>3, <3>4
  <2> QED BY <1>1, <1>2, <1>3, <1>4, <1>7, <2>2, <2>3 DEF Chan!Queue, Chan!Other, Other
<1> QED BY <1>8, <1>9

\* The oldest message is the least on the line, and is there once.
LEMMA OldestFirst ==
  ASSUME Inv, Deliver, NEW f \in End, conn[f] # 0, err[f] = "none", incoming[f] # <<>>,
         NEW J, J = Ids(Heads(Tail(incoming[f]))) \cup Ids(inStream[f])
                      \cup Ids(net[conn[f]][f]) \cup (IF Served(f) THEN There(f) ELSE {})
  PROVE  /\ ToRead(f) = {Head(incoming[f]).id} \cup J
         /\ \A j \in J : Head(incoming[f]).id < j
         /\ Head(incoming[f]).id \in Nat
<1> DEFINE q == incoming[f]
           m == Head(q)
           rest == Heads(Tail(q)) \o UnitsTo(f) \o Queue(f)
<1>1. /\ TypeOK /\ q \in Seq(Message) /\ UnitsTo(f) \in Seq(Unit) /\ Queue(f) \in Seq(Unit)
      /\ Healthy(f)
  BY LineTypes DEF Inv, Healthy
<1>2. /\ m \in Message /\ Tail(q) \in Seq(Message) /\ Heads(q) = Lead(m) \o Heads(Tail(q))
      /\ m = q[1] /\ 1 \in 1 .. Len(q)
  BY <1>1, HeadsOfRest
<1>3. Flow(q, UnitsTo(f), Queue(f), conn[f], taken[f], Served(f), queued[Other(f)],
           conn[f] \in dropped)
  BY <1>1 DEF Deliver, Direction
<1>4. IsData(m) /\ Climbs(Heads(q) \o UnitsTo(f) \o Queue(f), conn[f], taken[f])
  BY <1>2, <1>3 DEF Flow
<1>5. /\ Lead(m) \in Seq(Unit) /\ Ids(Lead(m)) = {m.id} /\ m.id \in Nat
  <2>1. m \in Wire /\ Lead(m) \in {Frame(m), Lead(m)}
    BY <1>2 DEF Wire
  <2> HIDE DEF m
  <2> QED BY <1>4, <2>1, OneMessage, RankOfData
<1>6. /\ Heads(Tail(q)) \in Seq(Unit) /\ Heads(Tail(q)) \o UnitsTo(f) \in Seq(Unit)
      /\ rest \in Seq(Unit)
      /\ Ids(rest) = Ids(Heads(Tail(q))) \cup Ids(UnitsTo(f)) \cup Ids(Queue(f))
  <2>1. Heads(Tail(q)) \in Seq(Unit)
    BY <1>2, HeadsOfQueue
  <2>2. /\ Heads(Tail(q)) \o UnitsTo(f) \in Seq(Unit)
        /\ Ids(Heads(Tail(q)) \o UnitsTo(f)) = Ids(Heads(Tail(q))) \cup Ids(UnitsTo(f))
    BY <1>1, <2>1, Joining, IdsOfJoin
  <2> QED BY <1>1, <2>1, <2>2, Joining, IdsOfJoin
<1>7. LineTo(f) = Lead(m) \o rest
  <2> DEFINE head == Lead(m)
             tail == Heads(Tail(q))
             way == UnitsTo(f)
             last == Queue(f)
  <2>1. LineTo(f) = (head \o tail) \o way \o last
    BY <1>2 DEF LineTo, Queue
  <2>2. /\ head \in Seq(Unit) /\ tail \in Seq(Unit) /\ way \in Seq(Unit)
        /\ last \in Seq(Unit) /\ tail \o way \in Seq(Unit)
    BY <1>1, <1>5, <1>6
  <2>3. rest = (tail \o way) \o last
    OBVIOUS
  <2> HIDE DEF head, tail, way, last, rest
  <2>4. (head \o tail) \o way = head \o (tail \o way)
    BY <2>2, Associates
  <2>5. (head \o (tail \o way)) \o last = head \o ((tail \o way) \o last)
    BY <2>2, Associates
  <2>6. LineTo(f) = head \o rest
    BY <2>1, <2>3, <2>4, <2>5
  <2> QED BY <2>6 DEF head
<1>8. Ids(LineTo(f)) = {m.id} \cup Ids(rest)
  <2> HIDE DEF rest, m
  <2> QED BY <1>5, <1>6, <1>7, IdsOfJoin
<1>9. Below({m.id}, Ids(rest))
  <2>1. Climbs(Lead(m) \o rest, conn[f], taken[f])
    BY <1>4, <1>7 DEF LineTo, Queue
  <2> HIDE DEF rest, m
  <2> QED BY <1>5, <1>6, <2>1, ClimbsOfJoin
<1>10. Ids(rest) = J
  <2>1. /\ inStream[f] \in Seq(Unit) /\ net[conn[f]][f] \in Seq(Unit)
        /\ Landed(f) \in Seq(Unit) /\ Unsent(f) \in Seq(Unit)
        /\ UnitsTo(f) = Landed(f) \o Unsent(f)
    BY <1>1, LineTypes
  <2>2. Ids(UnitsTo(f)) = Ids(inStream[f]) \cup Ids(net[conn[f]][f]) \cup Ids(Unsent(f))
    <3>1. Ids(Landed(f)) = Ids(inStream[f]) \cup Ids(net[conn[f]][f])
      BY <2>1, IdsOfJoin DEF Landed
    <3>2. Ids(Landed(f) \o Unsent(f)) = Ids(Landed(f)) \cup Ids(Unsent(f))
      BY <2>1, IdsOfJoin
    <3> QED BY <2>1, <3>1, <3>2
  <2>3. Ids(Unsent(f)) \cup Ids(Queue(f)) = IF Served(f) THEN There(f) ELSE {}
    BY NothingQueued DEF Unsent, Queue, There
  <2> QED BY <1>6, <2>2, <2>3
<1>11. ToRead(f) = Ids(LineTo(f))
  BY <1>1, ReadIsLine
<1> QED BY <1>5, <1>8, <1>9, <1>10, <1>11 DEF Below

LEMMA ReadStep ==
  ASSUME Inv, Deliver, NEW f \in End, RemoveIncoming(f)
  PROVE  Chan!Read(f)
<1> DEFINE o == Other(f)
           n == Head(incoming[f]).id
           J == Ids(Heads(Tail(incoming[f]))) \cup Ids(inStream[f])
                  \cup Ids(net[conn[f]][f]) \cup (IF Served(f) THEN There(f) ELSE {})
<1>1. o \in End /\ o # f /\ Other(o) = f /\ End = {f, o} /\ TypeOK
  BY LineTypes DEF Inv
<1>2. /\ conn[f] # 0 /\ err[f] = "none" /\ incoming[f] # <<>>
      /\ incoming' = [incoming EXCEPT ![f] = Tail(incoming[f])]
      /\ taken' = [taken EXCEPT ![f] = taken[f] + 1]
      /\ UNCHANGED <<err, session, streams, outgoing, queued>>
  BY DEF RemoveIncoming, Usable
<1>3. /\ UNCHANGED <<err, conn, opened, accepted, closed, lost, dropped, inStream, outStream,
                     net, outgoing, queued>>
      /\ \A e \in End : Healthy(e)' = Healthy(e)
  BY <1>2 DEF session, sockets, streams, Healthy
<1>4. Lossy' = Lossy
  BY <1>3 DEF Lossy
<1>5. \A e \in End : There(e)' = There(e) /\ Served(e)' = Served(e)
  BY <1>1, <1>3 DEF There, Served, Linked, Together
<1>6. incoming'[f] = Tail(incoming[f]) /\ incoming'[o] = incoming[o]
  BY <1>1, <1>2 DEF TypeOK
<1>7. Here(o)' = Here(o)
  BY <1>3, <1>6 DEF Here
<1>8. ToRead(o)' = ToRead(o)
  BY <1>1, <1>3, <1>5, <1>7, ReadIsHereAndThere, ReadNext
<1>9. ToRead(f)' = J
  BY <1>2, <1>3, <1>5, <1>6, ReadNext DEF Here, Healthy
<1>10. ToRead(f) = {n} \cup J /\ (\A j \in J : n < j) /\ n \in Nat
  BY <1>2, OldestFirst
<1> HIDE DEF n, J
<1>11. /\ n \in ToRead(f) /\ (\A j \in ToRead(f) : n <= j)
       /\ ToRead(f)' = ToRead(f) \ {n}
  <2>1. ToRead(f) \in SUBSET Nat
    BY <1>1, ReadIsNumbers
  <2>2. n \notin J
    BY <1>10
  <2> QED BY <1>9, <1>10, <2>1, <2>2
<1> QED BY <1>1, <1>2, <1>3, <1>4, <1>8, <1>11 DEF Chan!Read

LEMMA LeavesStep ==
  ASSUME Sound', NEW e \in End, NEW k, conn' = [conn EXCEPT ![e] = k],
         queued' = [queued EXCEPT ![e] = 0], taken' = [taken EXCEPT ![e] = 0],
         Lossy' = Lossy \cup ({conn[e]} \ {0}),
         IF conn'[Other(e)] \in Lossy' THEN ToRead(Other(e))' \subseteq ToRead(Other(e))
                                      ELSE ToRead(Other(e))' = ToRead(Other(e)),
         conn'[Other(e)] = conn[Other(e)]
  PROVE  Chan!Leaves(e, k)
<1>1. [f \in End |-> ToRead(f)]' \in [End -> SUBSET Nat]
  BY DEF Sound
<1>2. Other(e) \in End
  BY DEF End, Other
<1> QED BY <1>1, <1>2 DEF Chan!Leaves, Chan!Loses, Chan!End, Chan!Other, End, Other

LEMMA ConnectStep ==
  ASSUME Ready, Sound', Connect
  PROVE  Chan!Open("client")
<1>1. /\ conn["client"] = 0 /\ opened < MaxConns /\ opened' = opened + 1
      /\ conn' = [conn EXCEPT !["client"] = opened + 1]
      /\ queued' = [queued EXCEPT !["client"] = 0]
      /\ taken' = [taken EXCEPT !["client"] = 0]
      /\ UNCHANGED <<err, accepted, closed, lost, dropped, inStream, outStream, net, incoming,
                     outgoing>>
  BY DEF Connect, Begin, streams, queues
<1>2. /\ TypeOK /\ accepted \in Nat /\ opened \in Nat /\ accepted <= opened
      /\ conn \in [End -> 0 .. MaxConns] /\ conn["server"] <= accepted
      /\ opened + 1 \in Conns /\ conn["server"] \in Nat
  <2>1. TypeOK /\ conn["server"] <= accepted
    BY DEF Ready, Inv, Links
  <2>2. /\ opened \in 0 .. MaxConns /\ accepted \in 0 .. opened
        /\ conn \in [End -> 0 .. MaxConns]
    BY <2>1 DEF TypeOK
  <2> QED BY <1>1, <2>1, <2>2 DEF Conns, End
<1>3. /\ conn'["client"] = opened + 1 /\ conn'["server"] = conn["server"]
      /\ conn["server"] # opened + 1
  BY <1>1, <1>2 DEF End
<1>4. err["client"] = "none" /\ inStream["client"] = <<>> /\ incoming["client"] = <<>>
      /\ net[opened + 1]["client"] = <<>>
  <2>1. err["client"] = "none"
    BY <1>1 DEF Ready, Deliver, Idle, End
  <2>2. inStream["client"] = <<>> /\ incoming["client"] = <<>>
    BY <1>1 DEF Ready, Inv, Clear, End
  <2>3. net[opened + 1]["client"] = <<>>
    BY <1>2 DEF Ready, Agreed, Fresh, End
  <2> QED BY <2>1, <2>2, <2>3
<1>5. \A e \in End : Healthy(e)' = Healthy(e)
  BY <1>1 DEF Healthy
<1>6. Lossy' = Lossy
  <2>1. Healthy("client") /\ End = {"server", "client"}
    BY <1>4 DEF Healthy, End
  <2>2. {conn[e] : e \in {f \in End : ~Healthy(f)}}
          = {conn'[e] : e \in {f \in End : ~Healthy(f)'}}
    BY <1>3, <1>5, <2>1
  <2> QED BY <1>1, <2>2 DEF Lossy
<1>7. \A e \in End : ~Served(e) /\ ~Served(e)'
  BY <1>1, <1>2, <1>3 DEF Served, Linked, Together
<1>8. ToRead("server")' = ToRead("server")
  <2>1. Here("server")' = Here("server")
    BY <1>1, <1>3 DEF Here
  <2> QED BY <1>3, <1>5, <1>7, <2>1, ReadIsHereAndThere, ReadNext DEF End
<1>9. ToRead("client")' = {}
  <2>1. Here("client")' = {}
    BY <1>1, <1>3, <1>4, NothingQueued DEF Here
  <2> QED BY <1>7, <2>1, ReadNext DEF End
<1>10. Chan!Leaves("client", opened + 1)
  <2>1. Other("client") = "server" /\ "client" \in End
    BY DEF Other, End
  <2> QED BY <1>1, <1>3, <1>6, <1>8, <2>1, LeavesStep
<1> QED BY <1>1, <1>3, <1>9, <1>10 DEF Chan!Open, Chan!Other, Chan!End, End

LEMMA AcceptStep ==
  ASSUME Ready, Sound', Accept
  PROVE  Chan!Open("server")
<1> DEFINE k == conn["server"]
<1>1. /\ err["server"] = "none" /\ accepted < opened /\ accepted' = accepted + 1
      /\ conn' = [conn EXCEPT !["server"] = accepted + 1]
      /\ queued' = [queued EXCEPT !["server"] = 0]
      /\ taken' = [taken EXCEPT !["server"] = 0]
      /\ UNCHANGED <<err, opened, lost, dropped>>
      /\ IF k = 0 THEN UNCHANGED <<closed, streams, queues>>
                  ELSE CloseSocket("server") /\ ClearBuffers("server")
  BY DEF Accept, Begin
<1>2. /\ TypeOK /\ accepted \in Nat /\ opened \in Nat /\ accepted < MaxConns
      /\ accepted + 1 \in Conns /\ k \in Nat /\ k <= accepted
      /\ (k # 0 => k \in Conns) /\ (conn["client"] # 0 => conn["client"] \in Conns)
  <2>1. TypeOK /\ conn["server"] <= accepted
    BY DEF Ready, Inv, Links
  <2>2. /\ opened \in 0 .. MaxConns /\ accepted \in 0 .. opened
        /\ conn \in [End -> 0 .. MaxConns]
    BY <2>1 DEF TypeOK
  <2> QED BY <1>1, <2>1, <2>2 DEF Conns, End
<1>3. /\ conn'["server"] = accepted + 1 /\ conn'["client"] = conn["client"]
      /\ k # accepted + 1
  BY <1>1, <1>2 DEF TypeOK, End
<1>4. /\ inStream'["server"] = <<>> /\ incoming'["server"] = <<>>
      /\ outStream'["server"] = <<>> /\ outgoing'["server"] = <<>>
      /\ inStream'["client"] = inStream["client"] /\ incoming'["client"] = incoming["client"]
      /\ outStream'["client"] = outStream["client"]
      /\ outgoing'["client"] = outgoing["client"]
  <2>1. CASE k = 0
    <3>1. UNCHANGED <<inStream, outStream, incoming, outgoing>>
      BY <1>1, <2>1 DEF streams, queues
    <3>2. /\ inStream["server"] = <<>> /\ outStream["server"] = <<>>
          /\ incoming["server"] = <<>> /\ outgoing["server"] = <<>>
      BY <2>1 DEF Ready, Inv, Clear, Deliver, Idle, End
    <3> QED BY <3>1, <3>2
  <2>2. CASE k # 0
    BY <1>1, <1>2, <2>2 DEF ClearBuffers, TypeOK, End
  <2> QED BY <2>1, <2>2
<1>5. /\ net'[accepted + 1]["server"] = <<>>
      /\ conn["client"] # 0 => net'[conn["client"]]["client"] = net[conn["client"]]["client"]
  <2>1. net[accepted + 1]["server"] = <<>>
    BY <1>2 DEF Ready, Agreed, Fresh, End
  <2>2. net' = net \/ (k # 0 /\ net' = [net EXCEPT ![k]["server"] = <<>>])
    BY <1>1 DEF streams, CloseSocket
  <2>3. CASE net' = net
    BY <1>3, <2>1, <2>3
  <2>4. CASE k # 0 /\ net' = [net EXCEPT ![k]["server"] = <<>>]
    <3>1. DOMAIN net = Conns /\ \A j \in Conns : DOMAIN net[j] = End
      BY <1>2 DEF TypeOK
    <3>2. \A j \in Conns :
            net'[j] = IF j = k THEN [net[k] EXCEPT !["server"] = <<>>] ELSE net[j]
      BY <2>4, <3>1
    <3>3. net'[accepted + 1] = net[accepted + 1]
      BY <1>2, <1>3, <3>2
    <3>4. \A j \in Conns : net'[j]["client"] = net[j]["client"]
      BY <3>1, <3>2 DEF End
    <3> QED BY <1>2, <1>3, <2>1, <3>3, <3>4
  <2> QED BY <2>2, <2>3, <2>4
<1>6. \A e \in End : Healthy(e)' = Healthy(e)
  BY <1>1 DEF Healthy
<1>7. Lossy' = Lossy \cup ({k} \ {0})
  <2>1. Healthy("server") /\ End = {"server", "client"}
    BY <1>1 DEF Healthy, End
  <2>2. {conn[e] : e \in {f \in End : ~Healthy(f)}}
          = {conn'[e] : e \in {f \in End : ~Healthy(f)'}}
    BY <1>3, <1>6, <2>1
  <2>3. {j \in Conns : closed'[j] # {}} = {j \in Conns : closed[j] # {}} \cup ({k} \ {0})
    <3>1. CASE k = 0
      BY <1>1, <3>1
    <3>2. CASE k # 0
      <4>1. closed' = [closed EXCEPT ![k] = @ \cup {"server"}]
        BY <1>1, <3>2 DEF CloseSocket
      <4>2. \A j \in Conns : closed'[j] = IF j = k THEN closed[j] \cup {"server"} ELSE closed[j]
        BY <1>2, <4>1 DEF TypeOK
      <4> QED BY <1>2, <3>2, <4>2
    <3> QED BY <3>1, <3>2
  <2> QED BY <1>1, <2>2, <2>3 DEF Lossy
<1>8. /\ conn'["client"] \in Lossy' => ToRead("client")' \subseteq ToRead("client")
      /\ conn'["client"] \notin Lossy' => ToRead("client")' = ToRead("client")
  <2>1. conn["client"] # 0 => Here("client")' = Here("client")
    BY <1>3, <1>4, <1>5 DEF Here
  <2>2. There("client")' = {}
    BY <1>4, NothingQueued DEF There, Other
  <2>3. Served("client") => conn["client"] = k /\ k # 0
    BY DEF Served, Linked, Together
  <2>4. Served("client") => conn'["client"] \in Lossy'
    BY <1>3, <1>7, <2>3
  <2> QED BY <1>3, <1>6, <2>1, <2>2, <2>4, ReadIsHereAndThere, ReadNext DEF End
<1>9. LET there == conn["client"] = accepted + 1 IN
      /\ ToRead("server")' \subseteq IF there THEN 1 .. queued["client"] ELSE {}
      /\ there /\ conn["client"] \notin Lossy => ToRead("server")' = 1 .. queued["client"]
  <2>1. Here("server")' = {}
    BY <1>3, <1>4, <1>5, NothingQueued DEF Here
  <2>2. Healthy("server")' /\ conn'["server"] # 0
    BY <1>1, <1>2, <1>3 DEF Healthy
  <2>3. ToRead("server")' = IF Served("server")' THEN There("server")' ELSE {}
    BY <2>1, <2>2, ReadNext DEF End
  <2>4. Served("server")' => conn["client"] = accepted + 1 /\ Healthy("client")
    BY <1>3, <1>6 DEF Served, Linked, Together, Other, End
  <2>5. ASSUME conn["client"] = accepted + 1, Healthy("client")
        PROVE  There("server")' = 1 .. queued["client"]
    <3>1. /\ outStream["client"] = <<>>
          /\ status["client"] \in {"handshake_not_started", "error"}
      BY <1>2, <2>5 DEF Ready, Agreed, Fresh
    <3>2. status["client"] = "handshake_not_started"
      BY <2>5, <3>1 DEF Ready, Deliver, Idle, Healthy, End
    <3>3. Ids(Heads(outgoing["client"])) = 1 .. queued["client"]
      BY <3>2 DEF Ready, Deliver, Queues, End
    <3> QED BY <1>4, <3>1, <3>3, NothingQueued DEF There, Other
  <2>6. conn["client"] = accepted + 1 /\ conn["client"] \notin Lossy
          => Served("server")' /\ Healthy("client")
    <3>1. conn["client"] = accepted + 1 /\ conn["client"] \notin Lossy
            => Healthy("client") /\ conn["client"] \notin lost
      BY <1>2, LossyAt DEF End
    <3> QED BY <1>1, <1>2, <1>3, <1>6, <3>1 DEF Served, Linked, Together, Other, End
  <2> QED BY <2>3, <2>4, <2>5, <2>6
<1>10. Chan!Leaves("server", accepted + 1)
  <2>1. Other("server") = "client" /\ "server" \in End
    BY DEF Other, End
  <2> QED BY <1>1, <1>3, <1>7, <1>8, <2>1, LeavesStep
<1> QED BY <1>1, <1>2, <1>3, <1>9, <1>10 DEF Chan!Open, Chan!Other, Chan!End, End

LEMMA CloseStep ==
  ASSUME Ready, Sound', NEW f \in End, Shutdown(f)
  PROVE  Chan!Close(f)
<1> DEFINE o == Other(f)
           k == conn[f]
<1>1. /\ o \in End /\ o # f /\ Other(o) = f /\ End = {f, o} /\ TypeOK /\ Shut
  BY LineTypes DEF Ready, Inv, Deliver
<1>2. /\ k # 0 /\ ClearBuffers(f) /\ CloseSocket(f)
      /\ err' = [err EXCEPT ![f] = "none"] /\ conn' = [conn EXCEPT ![f] = 0]
      /\ queued' = [queued EXCEPT ![f] = 0] /\ taken' = [taken EXCEPT ![f] = 0]
      /\ UNCHANGED <<opened, accepted, lost, dropped>>
  BY DEF Shutdown
<1>3. k \in Conns /\ (conn[o] # 0 => conn[o] \in Conns)
  BY <1>1, <1>2, ConnOfSocket
<1>4. /\ conn'[f] = 0 /\ conn'[o] = conn[o] /\ Healthy(f)' /\ Healthy(o)' = Healthy(o)
      /\ closed' = [closed EXCEPT ![k] = @ \cup {f}]
      /\ net' = [net EXCEPT ![k][f] = <<>>]
      /\ inStream'[o] = inStream[o] /\ incoming'[o] = incoming[o]
  BY <1>1, <1>2 DEF TypeOK, Healthy, CloseSocket, ClearBuffers
<1>5. Lossy' = Lossy \cup {k}
  <2>1. \A j \in Conns : closed'[j] = IF j = k THEN closed[j] \cup {f} ELSE closed[j]
    BY <1>1, <1>3, <1>4 DEF TypeOK
  <2>2. {j \in Conns : closed'[j] # {}} = {j \in Conns : closed[j] # {}} \cup {k}
    BY <1>3, <2>1
  <2>3. {conn'[e] : e \in {g \in End : ~Healthy(g)'}} \cup {k}
          = {conn[e] : e \in {g \in End : ~Healthy(g)}} \cup {k}
    BY <1>1, <1>4
  <2> QED BY <1>2, <2>2, <2>3 DEF Lossy
<1>6. ~Served(o)' /\ (Served(o) => conn[o] = k)
  BY <1>1, <1>2, <1>4 DEF Served, Linked, Together, End, Other
<1>7. conn[o] # 0 => Here(o)' = Here(o)
  <2>1. conn[o] # 0 => net'[conn[o]][o] = net[conn[o]][o]
    BY <1>1, <1>3, <1>4 DEF TypeOK
  <2> QED BY <1>4, <2>1 DEF Here
<1>8. /\ conn'[o] \in Lossy' => ToRead(o)' \subseteq ToRead(o)
      /\ conn'[o] \notin Lossy' => ToRead(o)' = ToRead(o)
  <2>1. ToRead(o)' = IF conn'[o] # 0 /\ Healthy(o)' THEN Here(o)' ELSE {}
    <3>1. (IF Served(o)' THEN There(o)' ELSE {}) = {}
      BY <1>6
    <3> QED BY <1>1, <3>1, ReadNext
  <2>2. ~Served(o) => ToRead(o) = IF conn[o] # 0 /\ Healthy(o) THEN Here(o) ELSE {}
    BY <1>1, ReadIsHereAndThere
  <2>3. conn[o] # 0 /\ Healthy(o) => Here(o) \subseteq ToRead(o)
    BY <1>1, ReadIsHereAndThere
  <2>4. Served(o) => conn'[o] \in Lossy'
    BY <1>4, <1>5, <1>6
  <2>5. CASE conn[o] = 0 \/ ~Healthy(o)
    <3>1. ToRead(o)' = {}
      BY <1>4, <2>1, <2>5
    <3>2. ToRead(o) = {}
      BY <1>1, <2>5, ReadIsHereAndThere
    <3> QED BY <3>1, <3>2
  <2>6. CASE conn[o] # 0 /\ Healthy(o)
    <3>1. ToRead(o)' = Here(o)
      BY <1>4, <1>7, <2>1, <2>6
    <3>2. Here(o) \subseteq ToRead(o) /\ (~Served(o) => ToRead(o) = Here(o))
      BY <2>2, <2>3, <2>6
    <3> QED BY <2>4, <3>1, <3>2
  <2> QED BY <2>5, <2>6
<1>9. ToRead(f)' = {}
  BY <1>4, ReadNext
<1>10. Chan!Leaves(f, 0)
  BY <1>1, <1>2, <1>4, <1>5, <1>8, LeavesStep
<1> QED BY <1>2, <1>9, <1>10 DEF Chan!Close, Chan!End, End

-----------------------------------------------------------------------------
LEMMA ChannelInit ==
  ASSUME Init
  PROVE  Chan!Init
<1>1. \A e \in End : conn[e] = 0 /\ Healthy(e)
  BY DEF Init, Healthy
<1>2. [e \in End |-> ToRead(e)] = [e \in End |-> {}]
  BY <1>1, ReadIsHereAndThere
<1>3. Lossy = {}
  BY <1>1 DEF Init, Lossy
<1> QED BY <1>2, <1>3 DEF Init, Chan!Init, Chan!End, End

LEMMA ChannelStutters ==
  ASSUME UNCHANGED vars
  PROVE  UNCHANGED Chan!vars
<1>1. UNCHANGED <<err, conn, opened, accepted, closed, lost, dropped, inStream, outStream, net,
                  incoming, outgoing, queued, taken>>
  BY DEF vars, session, sockets, streams, queues, history
<1>2. \A e \in End : ToRead(e)' = ToRead(e)
  BY <1>1 DEF ToRead, Healthy, Served, Linked, Together
<1>3. Lossy' = Lossy
  BY <1>1 DEF Lossy, Healthy
<1> QED BY <1>1, <1>2, <1>3 DEF Chan!vars

LEMMA ChannelStep ==
  ASSUME Ready, Ready', Sound, Sound', [Next]_vars
  PROVE  [Chan!Next]_(Chan!vars)
<1> USE DEF Ready
<1>1. ASSUME NEW k \in Conns, Slips(k)
      PROVE  Chan!Next \/ UNCHANGED Chan!vars
  <2>1. Chan!Lose(k) => Chan!Next
    BY DEF Chan!Next, Conns
  <2> QED BY <1>1, <2>1, SlipIsLoss
<1>2. ASSUME NEW f \in End, Chan!Open(f) \/ Chan!Close(f) \/ Chan!Queue(f) \/ Chan!Read(f)
      PROVE  Chan!Next
  BY <1>2 DEF Chan!Next, Chan!End, End
<1>3. ASSUME NEW f \in End,
             \/ HandshakeTimeout(f) \/ HealthTimeout(f) \/ HealthQueueFull(f)
             \/ SocketError(f) \/ SendLeftoverFails(f)
             \/ SendHello(f) \/ ReceiveHello(f) \/ ReceiveHelloMessage(f)
             \/ BeginUpdate(f) \/ SendNext(f) \/ Receive(f, 0) \/ ReceiveSome(f)
             \/ ReadMessage(f)
      PROVE  Chan!Next \/ UNCHANGED Chan!vars
  <2>1. Slips(conn[f])
    BY <1>3, QuietFailsSlip, SendHelloSlips, ReceiveHelloSlips, ReceiveHelloMessageSlips,
       BeginUpdateSlips, SendNextSlips, ReceiveSlips, ReadMessageSlips
  <2>2. conn[f] # 0
    <3>1. step[f] # "idle" => status[f] = "ready"
      BY DEF Inv, Links
    <3>2. status[f] = "ready" => conn[f] # 0
      BY DEF Inv, Links
    <3>3. step[f] # "idle" \/ conn[f] # 0
      BY <1>3 DEF HandshakeTimeout, HealthTimeout, HealthQueueFull, SocketError,
         SendLeftoverFails, SendHello, ReceiveHello, ReceiveHelloMessage, BeginUpdate,
         SendNext, Receive, ReceiveSome, ReadMessage, CanHandshake, CanUpdate, Usable
    <3> QED BY <3>1, <3>2, <3>3
  <2>3. conn[f] \in Conns
    BY <2>2, ConnOfSocket DEF Inv
  <2> QED BY <1>1, <2>1, <2>3
<1>4. CASE Connect
  BY <1>2, <1>4, ConnectStep DEF End
<1>5. CASE Accept
  BY <1>2, <1>5, AcceptStep DEF End
<1>6. CASE \E k \in Conns : LosePath(k)
  BY <1>1, <1>6, LosePathSlips
<1>7. ASSUME NEW f \in End, Shutdown(f)
      PROVE  Chan!Next
  BY <1>2, <1>7, CloseStep
<1>8. ASSUME NEW f \in End, AddOutgoing(f)
      PROVE  Chan!Next
  BY <1>2, <1>8, QueueStep
<1>9. ASSUME NEW f \in End, RemoveIncoming(f)
      PROVE  Chan!Next
  BY <1>2, <1>9, ReadStep
<1>10. CASE UNCHANGED vars
  BY <1>10, ChannelStutters
<1> QED BY <1>3, <1>4, <1>5, <1>6, <1>7, <1>8, <1>9, <1>10 DEF Next

(***************************************************************************)
(* Two ends of connection.cpp are a channel, for every size of packets,    *)
(* streams, kernel buffers and queues and however the network cuts, delays *)
(* or loses: what is read is the oldest message left, and before a send was*)
(* cut, the path went or an end failed or closed none is lost.             *)
(***************************************************************************)
THEOREM ConnectionImplementsChannel == Spec => ImplementsChannel
<1>1. Init => Left
  BY InitLeft
<1>2. Inv /\ Left /\ [Next]_vars => Left'
  BY StepLeft
<1>3. Spec => []Ready
  BY <1>1, <1>2, DeliverInvariant, PTL DEF Spec, Ready
<1>4. Ready => Sound
  BY ReadyIsSound
<1>5. Init => Chan!Init
  BY ChannelInit
<1>6. Ready /\ Ready' /\ Sound /\ Sound' /\ [Next]_vars => [Chan!Next]_(Chan!vars)
  BY ChannelStep
<1> QED BY <1>3, <1>4, <1>5, <1>6, PTL DEF Spec, ImplementsChannel, Chan!Spec
=============================================================================
