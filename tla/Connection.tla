----------------------------- MODULE Connection -----------------------------
(***************************************************************************)
(* Two Connection objects (one/arcus/internal/connection.cpp) at the two   *)
(* ends of TCP connections: the Arcus server's, which initiates the        *)
(* handshake, and the Arcus client's, which answers.  The owners (Server,  *)
(* Client) connect, accept, queue messages, update, read the incoming      *)
(* queue and shut the connection down.                                     *)
(*                                                                         *)
(* Bytes are abstracted to units: a hello packet is HelloUnits of them, a  *)
(* message is HeaderUnits and, if it carries a payload, PayloadUnits more, *)
(* so that partial sends and receives exist.  A frame with a missing or a  *)
(* foreign unit is one the codec rejects.  The message queues are the      *)
(* bounded FIFO that Ring is proved to implement.                          *)
(*                                                                         *)
(* update() of a ready connection is a loop over the socket and the        *)
(* streams; each turn of it is a step, because the other end and the       *)
(* network move meanwhile.  A timer that has expired when update() looks   *)
(* at it is a disjunct that may be taken in any update: any delay between  *)
(* two updates is possible.                                                *)
(***************************************************************************)
EXTENDS Naturals, Sequences, FiniteSets, SequencesExt

CONSTANTS
  HelloUnits,    (* units of the hello packet   (codec.h 29)             *)
  HeaderUnits,   (* units of a message header   (codec.h 52)             *)
  PayloadUnits,  (* units of a payload                                   *)
  NetCap,        (* what the kernel buffers of one direction can hold    *)
  InCap, OutCap, (* capacities of _in_stream and _out_stream             *)
  QueueIn,       (* capacity of _incoming_messages (connection.h 42: 48) *)
  QueueOut,      (* capacity of _outgoing_messages                       *)
  MaxConns,      (* bound: TCP connections the client opens              *)
  MaxData,       (* bound: messages an end queues on a connection        *)
  MaxHealth,     (* bound: health messages of each end on a connection   *)
  MaxLost        (* bound: connections whose network path goes away      *)

End == {"server", "client"}

ASSUME UnitsAssumption ==
  /\ HelloUnits \in Nat \ {0}
  /\ HeaderUnits \in Nat \ {0}
  /\ PayloadUnits \in Nat \ {0}
ASSUME CapsAssumption ==
  /\ NetCap \in Nat \ {0}
  /\ QueueIn \in Nat \ {0} /\ QueueOut \in Nat \ {0}
  /\ InCap \in Nat /\ InCap >= HeaderUnits + PayloadUnits  \* codec.h 62
  /\ InCap >= HelloUnits
  /\ OutCap \in Nat                     \* connection.h 28
  /\ OutCap >= HelloUnits /\ OutCap >= HeaderUnits
ASSUME BoundsAssumption ==
  /\ MaxConns \in Nat
  /\ MaxData \in Nat
  /\ MaxLost \in Nat
ASSUME HealthAssumption == MaxHealth \in [End -> Nat]

VARIABLES
  status,     (* _status of each end                                     *)
  inStream,   (* _in_stream of each end                                  *)
  outStream,  (* _out_stream of each end                                 *)
  incoming,   (* _incoming_messages of each end                          *)
  outgoing,   (* _outgoing_messages of each end                          *)
  step,       (* where each end is inside update(), "idle" outside       *)
  err,        (* the error its last update() returned, "none" if none    *)
  conn,       (* which TCP connection each end's socket is, 0 if none    *)
  opened,     (* connections the client has opened so far                *)
  accepted,   (* connections the server has accepted so far              *)
  closed,     (* the ends that closed each connection                    *)
  lost,       (* the connections whose network path is gone              *)
  net,        (* units in the kernel or in flight: net[k][e] goes to e   *)
  dropped,    (* history: connections that lost the rest of a cut send   *)
  queued,     (* history: messages each end queued on its connection     *)
  taken,      (* history: messages each end read on its connection       *)
  healths     (* health messages each end queued on its connection       *)

sockets == <<conn, opened, accepted, closed, lost>>
session == <<sockets, dropped>>
streams == <<inStream, outStream, net>>
queues  == <<incoming, outgoing>>
history == <<queued, taken, healths>>
vars == <<status, step, err, session, streams, queues, history>>

Other(e) == IF e = "server" THEN "client" ELSE "server"
Conns == 1 .. MaxConns

-----------------------------------------------------------------------------
(* What travels: the hello packet and messages.  Only queued messages are  *)
(* told apart, by their connection and their rank in it.                   *)

Packet   == [op |-> "packet", conn |-> 0, id |-> 0]
HelloMsg == [op |-> "hello",  conn |-> 0, id |-> 0]
Health   == [op |-> "health", conn |-> 0, id |-> 0]
Data(k, n) == [op |-> "data", conn |-> k, id |-> n]

Message == {HelloMsg, Health} \cup {Data(k, n) : k \in Conns, n \in 1 .. MaxData}
Wire == Message \cup {Packet}

Size(m) ==
  IF m = Packet THEN HelloUnits
  ELSE IF m.op = "data" THEN HeaderUnits + PayloadUnits ELSE HeaderUnits

\* message_to_data(), and valid_hello() for the packet.
Frame(m) == [i \in 1 .. Size(m) |-> [m |-> m, i |-> i]]

Take(s, n) == SubSeq(s, 1, n)
Drop(s, n) == SubSeq(s, n + 1, Len(s))

(***************************************************************************)
(* try_read_message_from_in_stream() over data_to_message(): "short" when  *)
(* the header, then the payload it announces, is not all there; "bad" when *)
(* validate_header() or the payload's parser rejects the bytes.            *)
(***************************************************************************)
Parse(s) ==
  IF Len(s) < HeaderUnits THEN "short"
  ELSE IF s[1].m = Packet \/ Take(s, HeaderUnits) # Take(Frame(s[1].m), HeaderUnits)
    THEN "bad"
  ELSE IF Len(s) < Size(s[1].m) THEN "short"
  ELSE IF Take(s, Size(s[1].m)) # Frame(s[1].m) THEN "bad"
  ELSE "message"

-----------------------------------------------------------------------------
(* The sockets.  A blocked send never happens: update() asks first.        *)

Arrived(e) == net[conn[e]][e]
PeerClosed(e) == Other(e) \in closed[conn[e]]
Vanishes(e) == PeerClosed(e) \/ conn[e] \in lost
Room(e) == NetCap - Len(net[conn[e]][Other(e)])

\* Socket::ready_for_send()
Writable(e) == PeerClosed(e) \/ Room(e) > 0

\* Socket::send(): as much as the kernel takes.
Sent(e, data) == IF PeerClosed(e) THEN Len(data) ELSE Min({Len(data), Room(e)})

\* The network after e received n units and sent the first m of data.
NetAfter(e, n, data, m) ==
  [net EXCEPT ![conn[e]][e] = Drop(@, n),
              ![conn[e]][Other(e)] = IF Vanishes(e) THEN @ ELSE @ \o Take(data, m)]

\* Socket::receive(): any number of the units sent and not yet received.
Receivable(e, limit) == 0 .. Min({limit, Len(Arrived(e))})

-----------------------------------------------------------------------------
Fail(e, x) ==
  /\ status' = [status EXCEPT ![e] = "error"]
  /\ err' = [err EXCEPT ![e] = x]
  /\ step' = [step EXCEPT ![e] = "idle"]

Init ==
  /\ status = [e \in End |-> "uninitialized"]
  /\ inStream = [e \in End |-> <<>>]
  /\ outStream = [e \in End |-> <<>>]
  /\ incoming = [e \in End |-> <<>>]
  /\ outgoing = [e \in End |-> <<>>]
  /\ step = [e \in End |-> "idle"]
  /\ err = [e \in End |-> "none"]
  /\ conn = [e \in End |-> 0]
  /\ opened = 0
  /\ accepted = 0
  /\ closed = [k \in Conns |-> {}]
  /\ lost = {}
  /\ net = [k \in Conns |-> [e \in End |-> <<>>]]
  /\ dropped = {}
  /\ queued = [e \in End |-> 0]
  /\ taken = [e \in End |-> 0]
  /\ healths = [e \in End |-> 0]

\* Connection::init() on the socket of connection k; s is the status that
\* init(), and on the server initiate_handshake() after it, leave.
Begin(e, k, s) ==
  /\ conn' = [conn EXCEPT ![e] = k]
  /\ status' = [status EXCEPT ![e] = s]
  /\ queued' = [queued EXCEPT ![e] = 0]
  /\ taken' = [taken EXCEPT ![e] = 0]
  /\ healths' = [healths EXCEPT ![e] = 0]

(* A shutdown() that forgets the outgoing stream and queue. *)
ClearIncomingOnly(e) ==
  /\ inStream' = [inStream EXCEPT ![e] = <<>>]
  /\ incoming' = [incoming EXCEPT ![e] = <<>>]
  /\ UNCHANGED <<outStream, outgoing>>

(* A shutdown() that forgets the incoming stream. *)
ClearAllButInStream(e) ==
  /\ outStream' = [outStream EXCEPT ![e] = <<>>]
  /\ incoming' = [incoming EXCEPT ![e] = <<>>]
  /\ outgoing' = [outgoing EXCEPT ![e] = <<>>]
  /\ UNCHANGED inStream

\* Connection::shutdown() clears both streams and both queues.
ClearBuffers(e) ==
  /\ inStream' = [inStream EXCEPT ![e] = <<>>]
  /\ outStream' = [outStream EXCEPT ![e] = <<>>]
  /\ incoming' = [incoming EXCEPT ![e] = <<>>]
  /\ outgoing' = [outgoing EXCEPT ![e] = <<>>]

\* Socket::close() reads what had arrived, then closes.
CloseSocket(e) ==
  /\ closed' = [closed EXCEPT ![conn[e]] = @ \cup {e}]
  /\ net' = [net EXCEPT ![conn[e]][e] = <<>>]

(***************************************************************************)
(* Client::connect(): a new TCP connection, which the server's kernel      *)
(* completes before the server accepts it.                                 *)
(***************************************************************************)
Connect ==
  /\ conn["client"] = 0
  /\ opened < MaxConns
  /\ opened' = opened + 1
  /\ Begin("client", opened + 1, "handshake_not_started")
  /\ UNCHANGED <<step, err, accepted, closed, lost, dropped, streams, queues>>

(***************************************************************************)
(* Server::update_listen_socket(): the oldest connection not yet accepted  *)
(* replaces the current one, if any, which is shut down first.             *)
(***************************************************************************)
Accept ==
  /\ step["server"] = "idle"
  /\ err["server"] = "none"
  /\ accepted < opened
  /\ accepted' = accepted + 1
  /\ IF conn["server"] = 0
       THEN UNCHANGED <<closed, streams, queues>>
       ELSE CloseSocket("server") /\ ClearBuffers("server")
  /\ Begin("server", accepted + 1, "handshake_hello_scheduled")
  /\ UNCHANGED <<step, err, opened, lost, dropped>>

(***************************************************************************)
(* The owner gives the connection up: after an error always (server.cpp    *)
(* 448, client.cpp 129), or because it is itself shut down.                *)
(***************************************************************************)
Shutdown(e) ==
  /\ conn[e] # 0
  /\ step[e] = "idle"
  /\ ClearBuffers(e)
  /\ CloseSocket(e)
  /\ status' = [status EXCEPT ![e] = "uninitialized"]
  /\ err' = [err EXCEPT ![e] = "none"]
  /\ conn' = [conn EXCEPT ![e] = 0]
  /\ queued' = [queued EXCEPT ![e] = 0]
  /\ taken' = [taken EXCEPT ![e] = 0]
  /\ healths' = [healths EXCEPT ![e] = 0]
  /\ UNCHANGED <<step, opened, accepted, lost, dropped>>

(***************************************************************************)
(* The other machine, or the path to it, goes away without a word: what is *)
(* in flight is lost, later sends are never acknowledged.                  *)
(***************************************************************************)
LosePath(k) ==
  /\ k <= opened
  /\ k \notin lost
  /\ Cardinality(lost) < MaxLost
  /\ lost' = lost \cup {k}
  /\ net' = [net EXCEPT ![k] = [e \in End |-> <<>>]]
  /\ UNCHANGED <<status, step, err, conn, opened, accepted, closed, dropped, inStream,
                 outStream, queues, history>>

-----------------------------------------------------------------------------
(* The calls of the owner between updates.                                 *)

Usable(e) == conn[e] # 0 /\ step[e] = "idle" /\ err[e] = "none"

\* add_outgoing(): on a full queue it returns an error and changes nothing.
AddOutgoing(e) ==
  /\ Usable(e)
  /\ Len(outgoing[e]) # QueueOut
  /\ queued[e] < MaxData
  /\ queued' = [queued EXCEPT ![e] = @ + 1]
  /\ outgoing' = [outgoing EXCEPT ![e] = Append(@, Data(conn[e], queued[e] + 1))]
  /\ UNCHANGED <<status, step, err, session, streams, incoming, taken, healths>>

\* remove_incoming(): pops and hands the message to the callback.
RemoveIncoming(e) ==
  /\ Usable(e)
  /\ incoming[e] # <<>>
  /\ incoming' = [incoming EXCEPT ![e] = Tail(@)]
  /\ taken' = [taken EXCEPT ![e] = @ + 1]
  /\ UNCHANGED <<status, step, err, session, streams, outgoing, queued, healths>>

-----------------------------------------------------------------------------
(* update() before the handshake is over: process_handshake().  The second *)
(* ready_for_send() of connection.cpp 419 finds what the first one found.  *)

Handshaking == {"handshake_not_started", "handshake_hello_scheduled",
                "handshake_hello_sent"}

CanHandshake(e, s) == Usable(e) /\ status[e] = s /\ Writable(e)

HandshakeTimeout(e) ==
  /\ \E s \in Handshaking : CanHandshake(e, s)
  /\ Fail(e, "HANDSHAKE_TIMEOUT")
  /\ UNCHANGED <<session, streams, queues, history>>

(* A server that does not wait for the answer to its hello. *)
SendHelloReady(e) ==
  /\ CanHandshake(e, "handshake_hello_scheduled")
  /\ net' = NetAfter(e, 0, Frame(Packet), Sent(e, Frame(Packet)))
  /\ status' = [status EXCEPT ![e] = "ready"]
  /\ UNCHANGED <<step, err, inStream, outStream, session, queues, history>>

\* ensure_nothing_received(), then try_send_hello().
SendHello(e) ==
  /\ CanHandshake(e, "handshake_hello_scheduled")
  /\ LET out == IF outStream[e] = <<>> THEN Frame(Packet) ELSE outStream[e]
         m == Sent(e, out)
     IN \/ /\ outStream' = [outStream EXCEPT ![e] = Drop(out, m)]
           /\ net' = NetAfter(e, 0, out, m)
           /\ status' = [status EXCEPT ![e] =
                           IF m = Len(out) THEN "handshake_hello_sent" ELSE @]
           /\ UNCHANGED <<step, err, inStream>>
        \/ /\ Arrived(e) # <<>>
           /\ Fail(e, "RECEIVE_BEFORE_SEND")
           /\ net' = NetAfter(e, 1, <<>>, 0)
           /\ UNCHANGED <<inStream, outStream>>
  /\ UNCHANGED <<session, queues, history>>

\* The hello that try_receive_hello() validates: Accumulator::get() returns
\* a pointer to the front of the buffer and then moves the rest of the
\* stream there, over the hello, if there is more than one in it.
HelloSeen(s) ==
  LET rest == Drop(s, HelloUnits)
  IN Take(rest \o Drop(s, Len(rest)), HelloUnits)

(***************************************************************************)
(* try_receive_hello() and, once the whole packet is there, in the same    *)
(* call, try_send_hello_message().  When the reply is sent in part the     *)
(* status stays handshake_not_started: no statement of the code assigns    *)
(* handshake_hello_received.                                               *)
(***************************************************************************)
ReceiveHello(e) ==
  /\ CanHandshake(e, "handshake_not_started")
  /\ \E n \in Receivable(e, HelloUnits) \ {0} :
       LET s == inStream[e] \o Take(Arrived(e), n)
           out == IF outStream[e] = <<>> THEN Frame(HelloMsg) ELSE outStream[e]
           m == Sent(e, out)
       IN \/ /\ Len(s) < HelloUnits
             /\ inStream' = [inStream EXCEPT ![e] = s]
             /\ net' = NetAfter(e, n, <<>>, 0)
             /\ UNCHANGED <<status, step, err, outStream>>
          \/ /\ Len(s) >= HelloUnits
             /\ HelloSeen(s) # Frame(Packet)
             /\ inStream' = [inStream EXCEPT ![e] = Drop(s, HelloUnits)]
             /\ net' = NetAfter(e, n, <<>>, 0)
             /\ Fail(e, "HELLO_INVALID")
             /\ UNCHANGED outStream
          \/ /\ Len(s) >= HelloUnits
             /\ HelloSeen(s) = Frame(Packet)
             /\ inStream' = [inStream EXCEPT ![e] = Drop(s, HelloUnits)]
             /\ outStream' = [outStream EXCEPT ![e] = Drop(out, m)]
             /\ net' = NetAfter(e, n, out, m)
             /\ status' = [status EXCEPT ![e] = IF m = Len(out) THEN "ready" ELSE @]
             /\ UNCHANGED <<step, err>>
  /\ UNCHANGED <<session, queues, history>>

(* A server that drops the part of the answer it has. *)
ReceiveHelloMessageAtOnce(e) ==
  /\ CanHandshake(e, "handshake_hello_sent")
  /\ \E n \in Receivable(e, InCap) \ {0} :
       LET s == Take(Arrived(e), n) IN
       /\ net' = NetAfter(e, n, <<>>, 0)
       /\ status' = [status EXCEPT ![e] = IF Parse(s) = "message" THEN "ready" ELSE @]
  /\ UNCHANGED <<step, err, inStream, outStream, session, queues, history>>

\* try_receive_hello_message(): reads what there is, takes one message of it.
ReceiveHelloMessage(e) ==
  /\ CanHandshake(e, "handshake_hello_sent")
  /\ \E n \in Receivable(e, InCap - Len(inStream[e])) \ {0} :
       LET s == inStream[e] \o Take(Arrived(e), n) IN
       /\ net' = NetAfter(e, n, <<>>, 0)
       /\ \/ /\ Parse(s) = "short"
             /\ inStream' = [inStream EXCEPT ![e] = s]
             /\ UNCHANGED <<status, step, err>>
          \/ /\ Parse(s) = "bad"
             /\ inStream' = [inStream EXCEPT ![e] = s]
             /\ Fail(e, "BAD_FRAME")
          \/ /\ Parse(s) = "message"
             /\ inStream' = [inStream EXCEPT ![e] = Drop(s, Size(s[1].m))]
             /\ IF s[1].m = HelloMsg
                  THEN /\ status' = [status EXCEPT ![e] = "ready"]
                       /\ UNCHANGED <<step, err>>
                  ELSE Fail(e, "HELLO_MESSAGE_REPLY_INVALID")
  /\ UNCHANGED <<session, outStream, queues, history>>

-----------------------------------------------------------------------------
(* update() of a ready connection.  The owners read the whole incoming     *)
(* queue after it (server.cpp 461, client.cpp 154), but a thread that      *)
(* updates the server while another is in a callback finds some left.      *)

CanUpdate(e) == Usable(e) /\ status[e] = "ready"

\* process_health(): nothing was received for 20 s.
HealthTimeout(e) ==
  /\ CanUpdate(e)
  /\ Fail(e, "HEALTH_TIMEOUT")
  /\ UNCHANGED <<session, streams, queues, history>>

\* process_health(): the 5 s send timer fires on a full outgoing queue.
HealthQueueFull(e) ==
  /\ CanUpdate(e)
  /\ healths[e] < MaxHealth[e]
  /\ Len(outgoing[e]) = QueueOut
  /\ Fail(e, "OUTGOING_QUEUE_INSUFFICIENT_SPACE")
  /\ UNCHANGED <<session, streams, queues, history>>

(***************************************************************************)
(* send_pending_data(): the stream is trimmed by its whole size, whatever  *)
(* part of it the socket took (connection.cpp 545).                        *)
(***************************************************************************)
SendPending(e, out) ==
  IF Writable(e)
    THEN /\ net' = NetAfter(e, 0, out, Sent(e, out))
         /\ outStream' = [outStream EXCEPT ![e] = <<>>]
         /\ dropped' = IF Sent(e, out) = Len(out) THEN dropped ELSE dropped \cup {conn[e]}
    ELSE /\ outStream' = [outStream EXCEPT ![e] = out]
         /\ UNCHANGED <<net, dropped>>

(* An update() that only receives. *)
AfterNothing(q) == "receiving"

\* Where update() goes on with the outgoing queue q: sends it, then receives.
After(q) == IF q = <<>> THEN "receiving" ELSE "sending"

(***************************************************************************)
(* update() up to the sending loop: process_health() with or without a     *)
(* health message due, ready_for_send(), and the data left from before.    *)
(***************************************************************************)
BeginUpdate(e) ==
  /\ CanUpdate(e)
  /\ \E due \in {FALSE, TRUE} :
       LET q == IF due THEN Append(outgoing[e], Health) ELSE outgoing[e] IN
       /\ due => healths[e] < MaxHealth[e] /\ Len(outgoing[e]) # QueueOut
       /\ healths' = [healths EXCEPT ![e] = IF due THEN @ + 1 ELSE @]
       /\ outgoing' = [outgoing EXCEPT ![e] = q]
       /\ step' = [step EXCEPT ![e] = IF Writable(e) THEN After(q) ELSE "idle"]
  /\ SendPending(e, outStream[e])
  /\ UNCHANGED <<status, err, sockets, inStream, incoming, queued, taken>>

\* One turn of the sending loop of process_outgoing_messages().
SendNext(e) ==
  /\ step[e] = "sending"
  /\ LET out == outStream[e] \o Frame(Head(outgoing[e])) IN
     \/ /\ Len(out) > OutCap
        /\ Fail(e, "OUT_MESSAGE_TOO_BIG_FOR_STREAM")
        /\ UNCHANGED <<outStream, net, dropped>>
     \/ /\ Len(out) <= OutCap
        /\ SendPending(e, out)
        /\ step' = [step EXCEPT ![e] = After(Tail(outgoing[e]))]
        /\ UNCHANGED <<status, err>>
     \/ /\ Len(out) <= OutCap
        /\ PeerClosed(e)
        /\ Fail(e, "SOCKET_SEND_FAILED")
        /\ outStream' = [outStream EXCEPT ![e] = out]
        /\ UNCHANGED <<net, dropped>>
  /\ outgoing' = [outgoing EXCEPT ![e] = Tail(@)]
  /\ UNCHANGED <<sockets, inStream, incoming, history>>

(* An update() that reads on however little it has received. *)
ReceiveGoesOn(e, n) ==
  /\ step[e] = "receiving"
  /\ inStream' = [inStream EXCEPT ![e] = @ \o Take(Arrived(e), n)]
  /\ step' = [step EXCEPT ![e] = "reading"]
  /\ net' = NetAfter(e, n, <<>>, 0)
  /\ UNCHANGED <<status, err, session, outStream, queues, history>>

(* A receive() that hands out what has arrived and does not consume it. *)
ReceivePeeks(e, n) ==
  /\ step[e] = "receiving"
  /\ inStream' = [inStream EXCEPT ![e] = @ \o Take(Arrived(e), n)]
  /\ step' = [step EXCEPT ![e] = IF Len(inStream'[e]) < HeaderUnits THEN "idle" ELSE "reading"]
  /\ UNCHANGED <<status, err, session, outStream, net, queues, history>>

(***************************************************************************)
(* One turn of the outer loop of process_incoming_messages():              *)
(* try_read_data_into_in_stream() receives n units, perhaps none, and the  *)
(* update ends when the stream holds less than a header.                   *)
(***************************************************************************)
Receive(e, n) ==
  /\ step[e] = "receiving"
  /\ LET s == inStream[e] \o Take(Arrived(e), n) IN
     /\ inStream' = [inStream EXCEPT ![e] = s]
     /\ step' = [step EXCEPT ![e] = IF Len(s) < HeaderUnits THEN "idle" ELSE "reading"]
  /\ net' = NetAfter(e, n, <<>>, 0)
  /\ UNCHANGED <<status, err, session, outStream, queues, history>>

(* A receive that does not look at the room in the stream. *)
ReceiveAll(e) ==
  /\ step[e] = "receiving"
  /\ \E n \in 1 .. Len(Arrived(e)) : Receive(e, n)

ReceiveSome(e) ==
  /\ step[e] = "receiving"
  /\ \E n \in Receivable(e, InCap - Len(inStream[e])) \ {0} : Receive(e, n)

\* One turn of the inner loop: a message, an error, or back to the socket.
ReadMessage(e) ==
  /\ step[e] = "reading"
  /\ LET s == inStream[e]
         m == s[1].m
     IN \/ /\ Parse(s) = "short"
           /\ step' = [step EXCEPT ![e] = "receiving"]
           /\ UNCHANGED <<status, err, inStream, incoming>>
        \/ /\ Parse(s) = "bad"
           /\ Fail(e, "BAD_FRAME")
           /\ UNCHANGED <<inStream, incoming>>
        \/ /\ Parse(s) = "message"
           /\ inStream' = [inStream EXCEPT ![e] = Drop(s, Size(m))]
           /\ \/ /\ m.op = "health"
                 /\ UNCHANGED <<status, step, err, incoming>>
              \/ /\ m.op # "health"
                 /\ Len(incoming[e]) # QueueIn
                 /\ incoming' = [incoming EXCEPT ![e] = Append(@, m)]
                 /\ UNCHANGED <<status, step, err>>
              \/ /\ m.op # "health"
                 /\ Len(incoming[e]) = QueueIn
                 /\ err' = [err EXCEPT ![e] = "INCOMING_QUEUE_INSUFFICIENT_SPACE"]
                 /\ step' = [step EXCEPT ![e] = "idle"]
                 /\ UNCHANGED <<status, incoming>>
  /\ UNCHANGED <<session, outStream, net, outgoing, history>>

(***************************************************************************)
(* The kernel reports that the other end is gone: a receive or a send of   *)
(* the handshake or a receive of the loop fails, and the status with it.   *)
(***************************************************************************)
SocketError(e) ==
  /\ \/ \E s \in Handshaking : CanHandshake(e, s)
     \/ step[e] = "receiving"
  /\ PeerClosed(e)
  /\ Fail(e, "SOCKET_FAILED")
  /\ UNCHANGED <<session, streams, queues, history>>

\* The send of data left from before fails: the status stays ready (558).
SendLeftoverFails(e) ==
  /\ CanUpdate(e)
  /\ outStream[e] # <<>>
  /\ PeerClosed(e)
  /\ err' = [err EXCEPT ![e] = "SOCKET_SEND_FAILED"]
  /\ UNCHANGED <<status, step, session, streams, queues, history>>

-----------------------------------------------------------------------------
Next ==
  \/ Connect
  \/ Accept
  \/ \E k \in Conns : LosePath(k)
  \/ \E e \in End :
       \/ Shutdown(e)
       \/ AddOutgoing(e)
       \/ RemoveIncoming(e)
       \/ HandshakeTimeout(e)
       \/ SendHello(e)
       \/ ReceiveHello(e)
       \/ ReceiveHelloMessage(e)
       \/ HealthTimeout(e)
       \/ HealthQueueFull(e)
       \/ BeginUpdate(e)
       \/ SendNext(e)
       \/ Receive(e, 0)
       \/ ReceiveSome(e)
       \/ ReadMessage(e)
       \/ SocketError(e)
       \/ SendLeftoverFails(e)

Spec == Init /\ [][Next]_vars

(***************************************************************************)
(* What the owners and the kernel guarantee: the server accepts, both ends *)
(* are updated again and again (c_api.h 164: "must be called frequently"), *)
(* read what is queued for them in between, and run an update they are in; *)
(* an end whose update failed shuts the connection down; and recv, called  *)
(* again and again, at last returns what has arrived.  Nothing makes a     *)
(* timer expire, the client connect, an owner queue a message or leave.    *)
(***************************************************************************)
Fairness ==
  /\ WF_vars(Accept)
  /\ \A e \in End :
       /\ WF_vars(SendHello(e))
       /\ WF_vars(ReceiveHello(e))
       /\ WF_vars(ReceiveHelloMessage(e))
       /\ WF_vars(BeginUpdate(e))
       /\ WF_vars(SendNext(e))
       /\ WF_vars(Receive(e, 0))
       /\ SF_vars(ReceiveSome(e))
       /\ WF_vars(ReadMessage(e))
       /\ SF_vars(RemoveIncoming(e))
       /\ WF_vars(err[e] # "none" /\ Shutdown(e))

FairSpec == Spec /\ Fairness

-----------------------------------------------------------------------------
Status == {"uninitialized", "ready", "error"} \cup Handshaking
Unit == [m : Wire, i : 1 .. HelloUnits + HeaderUnits + PayloadUnits]
Errors == {"none", "HANDSHAKE_TIMEOUT", "RECEIVE_BEFORE_SEND", "HELLO_INVALID",
           "BAD_FRAME", "HELLO_MESSAGE_REPLY_INVALID", "HEALTH_TIMEOUT",
           "OUTGOING_QUEUE_INSUFFICIENT_SPACE", "OUT_MESSAGE_TOO_BIG_FOR_STREAM",
           "INCOMING_QUEUE_INSUFFICIENT_SPACE", "SOCKET_FAILED", "SOCKET_SEND_FAILED"}

\* Everything stays within its capacity.
Bounded ==
  \A e \in End :
    /\ Len(incoming[e]) <= QueueIn
    /\ Len(outgoing[e]) <= QueueOut
    /\ Len(inStream[e]) <= InCap
    /\ Len(outStream[e]) <= OutCap
    /\ \A k \in Conns : Len(net[k][e]) <= NetCap

(***************************************************************************)
(* Type invariant.  Its bounds are the capacity checks of connection.cpp:  *)
(* the queues (83, 507) and the streams (310, 587) never overflow.         *)
(***************************************************************************)
TypeOK ==
  /\ status \in [End -> Status]
  /\ step \in [End -> {"idle", "sending", "receiving", "reading"}]
  /\ err \in [End -> Errors]
  /\ conn \in [End -> 0 .. MaxConns]
  /\ opened \in 0 .. MaxConns
  /\ accepted \in 0 .. opened
  /\ closed \in [Conns -> SUBSET End]
  /\ lost \in SUBSET Conns
  /\ dropped \in SUBSET Conns
  /\ inStream \in [End -> Seq(Unit)]
  /\ outStream \in [End -> Seq(Unit)]
  /\ net \in [Conns -> [End -> Seq(Unit)]]
  /\ incoming \in [End -> Seq(Message)]
  /\ outgoing \in [End -> Seq(Message)]
  /\ queued \in [End -> 0 .. MaxData]
  /\ taken \in [End -> Nat]
  /\ healths \in [End -> Nat] /\ \A e \in End : healths[e] <= MaxHealth[e]
  /\ Bounded

-----------------------------------------------------------------------------
(* What the protocol promises.                                             *)

Together == conn["server"] = conn["client"] /\ conn["server"] # 0
Linked == Together /\ conn["server"] \notin lost
Healthy(e) == err[e] = "none"

\* What the other end has still to send can reach e.
Served(e) == Linked /\ Healthy(Other(e))

\* Everything between the sender's queue and the receiver's, oldest first.
UnitsTo(e) ==
  inStream[e] \o net[conn[e]][e] \o (IF Served(e) THEN outStream[Other(e)] ELSE <<>>)

\* Whole frames, one after the other, and the beginning of one more.
InFrames(s) ==
  \A p \in 1 .. Len(s) :
    /\ s[p].i <= Size(s[p].m)
    /\ IF s[p].i = 1 THEN p = 1 \/ s[p - 1].i = Size(s[p - 1].m)
       ELSE p > 1 /\ s[p - 1] = [m |-> s[p].m, i |-> s[p].i - 1]

EndsWhole(s) == s # <<>> => s[Len(s)].i = Size(s[Len(s)].m)

IsData(m) == m.op = "data"

\* A message in a queue counts as the unit it begins with.
Heads(ms) == [j \in 1 .. Len(ms) |-> [m |-> ms[j], i |-> 1]]

\* What e has still to read of what the other end queued, oldest first.
LineTo(e) ==
  Heads(incoming[e]) \o UnitsTo(e)
    \o (IF Served(e) THEN Heads(outgoing[Other(e)]) ELSE <<>>)

\* Where the queued messages begin in s, and their ranks: all, and those of
\* the ones before position p.
Starts(s) == {p \in 1 .. Len(s) : s[p].i = 1 /\ IsData(s[p].m)}
Ids(s) == {s[p].m.id : p \in Starts(s)}
Before(s, p) == {s[q].m.id : q \in {q \in Starts(s) : q < p}}

\* The messages of s are those of connection k from the n-th on.
InOrder(s, k, n) ==
  \A p \in Starts(s) :
    /\ s[p].m.conn = k
    /\ s[p].m.id > n
    /\ Before(s, p) = n + 1 .. s[p].m.id - 1

\* What e has read, then what is on its way to it, is the beginning of what
\* the other end queued on this same connection, in units of whole frames;
\* while both ends are up on a live path nothing queued is missing.
Complete(e) ==
  /\ \A j \in 1 .. Len(incoming[e]) : IsData(incoming[e][j])
  /\ InFrames(UnitsTo(e))
  /\ InOrder(LineTo(e), conn[e], taken[e])
  /\ Served(e) =>
       /\ EndsWhole(UnitsTo(e))
       /\ Ids(LineTo(e)) = taken[e] + 1 .. queued[Other(e)]

(***************************************************************************)
(* connection.cpp 525 and 555: what a send does not take stays in the      *)
(* stream, "if any previous messages are not finished sending".  Messages  *)
(* arrive exactly once and in order, however the kernel cuts the sends.    *)
(***************************************************************************)
NothingDropped == \A e \in End : conn[e] # 0 /\ Healthy(e) => Complete(e)

(***************************************************************************)
(* Exactly once, in order, per connection (connection.cpp 305-614), without*)
(* a gap, a repetition or a message of an earlier connection, as long as   *)
(* no send of queued messages was cut.                                     *)
(***************************************************************************)
ExactlyOnceInOrder ==
  \A e \in End :
    conn[e] # 0 /\ Healthy(e) /\ conn[e] \notin dropped => Complete(e)

(***************************************************************************)
(* Two ends that follow connection.cpp never reject each other's bytes as  *)
(* long as no send of queued messages was cut: the server receives nothing *)
(* before its hello (436), the client's hello and the server's reply       *)
(* arrive whole and first (254, 389), and every frame is read at its       *)
(* boundary (359).                                                         *)
(***************************************************************************)
NoProtocolError ==
  \A e \in End :
    conn[e] \notin dropped =>
      err[e] \notin {"RECEIVE_BEFORE_SEND", "HELLO_INVALID", "BAD_FRAME",
                     "HELLO_MESSAGE_REPLY_INVALID"}

(***************************************************************************)
(* The two ends of one connection agree on the handshake (396-458): the    *)
(* server is ready only after the client is, and the client only after the *)
(* server has sent its whole hello; nothing is read before that.           *)
(***************************************************************************)
HandshakeAgreement ==
  /\ Together /\ status["server"] = "ready" =>
       status["client"] \in {"ready", "error"}
  /\ Together /\ status["client"] = "ready" =>
       status["server"] \in {"handshake_hello_sent", "ready", "error"}
  /\ \A e \in End : taken[e] > 0 \/ incoming[e] # <<>> =>
       status[e] \in {"ready", "error"}

(***************************************************************************)
(* However little the kernel takes of each send, a message is never        *)
(* repeated, overtaken by a later one or carried over from an earlier      *)
(* connection (connection.cpp 67-74, 305-376, 522-614).                    *)
(***************************************************************************)
NeverReordered ==
  \A e \in End :
    conn[e] # 0 /\ Healthy(e) =>
      LET s == LineTo(e) IN
      /\ \A j \in 1 .. Len(incoming[e]) : IsData(incoming[e][j])
      /\ \A p \in Starts(s) : s[p].m.conn = conn[e]
      /\ \A p, q \in Starts(s) : p < q => s[p].m.id < s[q].m.id

-----------------------------------------------------------------------------
(* The same as a channel: what an end may still read, and what is lost.    *)

\* The ranks along LineTo(e), part by part.
ToRead(e) ==
  IF conn[e] # 0 /\ Healthy(e)
    THEN Ids(Heads(incoming[e])) \cup Ids(inStream[e]) \cup Ids(net[conn[e]][e])
           \cup (IF Served(e) THEN Ids(outStream[Other(e)]) \cup Ids(Heads(outgoing[Other(e)]))
                            ELSE {})
    ELSE {}

\* Connections with a cut send, without a path, that an end closed or failed on.
Lossy ==
  dropped \cup lost \cup {k \in Conns : closed[k] # {}}
    \cup {conn[e] : e \in {f \in End : ~Healthy(f)}}

Chan == INSTANCE Channel WITH
  used <- [server |-> accepted, client |-> opened],
  way <- [e \in End |-> ToRead(e)],
  lossy <- Lossy

(***************************************************************************)
(* Step by step, two ends of connection.cpp are a channel (67-71 of        *)
(* connection.h): every message an owner reads is the oldest that is left, *)
(* a message once lost is lost for good, and none is lost before a send was*)
(* cut, the path went, or an end failed or closed the connection.          *)
(***************************************************************************)
ImplementsChannel == Chan!Spec

-----------------------------------------------------------------------------
(* Liveness, under FairSpec.                                               *)

Up(e, k) == conn[e] = k /\ err[e] = "none"

(***************************************************************************)
(* Every handshake ends (396-458): an end that has begun one becomes ready *)
(* unless the connection fails or is closed at either end.                 *)
(***************************************************************************)
HandshakeCompletes ==
  \A k \in Conns : \A e \in End :
    Up(e, k) ~> \/ conn[e] = k /\ status[e] = "ready"
                \/ ~Up(e, k)
                \/ closed[k] # {} \/ err[Other(e)] # "none"

(***************************************************************************)
(* Every queued message is delivered (69-71 of connection.h: update        *)
(* "attempts to send all queued outgoing messages" and "to read all        *)
(* incoming messages that are available") unless the connection fails or   *)
(* is closed at either end.                                                *)
(***************************************************************************)
Delivered ==
  \A k \in Conns : \A e \in End : \A n \in 1 .. MaxData :
    (conn[e] = k /\ queued[e] = n) ~>
      \/ conn[Other(e)] = k /\ taken[Other(e)] >= n
      \/ closed[k] # {}
      \/ \E f \in End : err[f] # "none"

(***************************************************************************)
(* Every update returns (c_api.h 164: it is called e.g. each frame).       *)
(***************************************************************************)
UpdateReturns == \A e \in End : step[e] # "idle" ~> step[e] = "idle"
=============================================================================
