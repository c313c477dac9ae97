------------------------------- MODULE Client -------------------------------
(***************************************************************************)
(* The Arcus client (one/arcus/client.cpp) and the agent that drives it    *)
(* (one/fake/arcus/agent/agent.cpp).  One thread of the agent calls        *)
(* Agent::update() for ever; others send messages.  The agent's mutex is   *)
(* held by every call but send_custom_command(), and the client's mutex    *)
(* during each call of the client, callbacks included.                     *)
(*                                                                         *)
(* The TCP connection and the `Connection' object, which have a module of  *)
(* their own, are seen as the client sees them: an update of the           *)
(* connection fails, or goes on with the handshake, or sends what is       *)
(* queued (or nothing, when the socket is not writable) and receives some. *)
(***************************************************************************)
EXTENDS Naturals, Sequences, FiniteSets

CONSTANTS
  LockedSend,       (* messages sent with the agent's mutex held            *)
  Command,          (* those sent without it (custom_command)               *)
  Incoming,         (* messages the game's server sends                     *)
  Malformed,        (* those whose payload fails the validation             *)
  OutCap,           (* capacity of the outgoing queue (connection.h 42)     *)
  MaxDrops,         (* bound: connections that end                          *)
  MaxSends,         (* bound: messages queued on one connection             *)
  MaxIncoming,      (* bound: messages that wait to be read                 *)
  MaxBroken,        (* bound: failures of the socket system                 *)
  MaxStarts         (* bound: calls of init()                               *)

Info == {"host_information", "application_instance_information"}

ASSUME ClientValues ==
  /\ Malformed \subseteq Incoming
  /\ LockedSend \cap Command = {}
  /\ Info \cap (LockedSend \cup Command) = {}
ASSUME ClientBounds ==
  /\ OutCap \in Nat \ {0}
  /\ MaxDrops \in Nat /\ MaxSends \in Nat /\ MaxIncoming \in Nat
  /\ MaxBroken \in Nat /\ MaxStarts \in Nat

VARIABLES
  life,      (* "off", "on" after init(), "blocked" inside a failed init()  *)
  socket,    (* the descriptor: "none", "fresh", "open", or "half": open,   *)
             (* though connect() returned an error                          *)
  connected, (* _is_connected                                               *)
  conn,      (* _connection->status()                                       *)
  outgoing, incoming,  (* the message queues of the connection              *)
  recent,    (* now - _last_connection_attempt_time is within the delay     *)
  at,        (* where Agent::update() is                                    *)
  wasReady,  (* its local was_ready                                         *)
  elapsed,   (* history: the delay has passed since the last attempt        *)
  refused,   (* history: the last attempt failed                            *)
  queued,    (* history: the messages queued on this connection             *)
  full,      (* history: information the full queue did not take            *)
  drops, broken, starts   (* how often, against the bounds                  *)

timer   == <<recent, elapsed, refused>>
history == <<queued, full>>
bounds  == <<drops, broken, starts>>
link    == <<socket, connected, conn>>
queues  == <<outgoing, incoming>>
vars == <<life, link, queues, timer, at, wasReady, history, bounds>>

Init ==
  /\ life = "off"
  /\ socket = "none"
  /\ connected = FALSE
  /\ conn = "uninitialized"
  /\ outgoing = <<>> /\ incoming = <<>>
  /\ recent = FALSE /\ elapsed = TRUE /\ refused = FALSE
  /\ at = "idle"
  /\ wasReady = FALSE
  /\ queued = <<>> /\ full = {}
  /\ drops = 0 /\ broken = 0 /\ starts = 0

-----------------------------------------------------------------------------
(* Life cycle.                                                             *)

(***************************************************************************)
(* Agent::init(): Client::init() creates the socket and the connection,    *)
(* then the three callbacks are set.                                       *)
(***************************************************************************)
Start ==
  /\ life = "off"
  /\ starts < MaxStarts
  /\ life' = "on"
  /\ socket' = "fresh"
  /\ starts' = starts + 1
  /\ UNCHANGED <<connected, conn, queues, timer, at, wasReady, history, drops, broken>>

\* socket() fails in init(), which calls shutdown() with the mutex it locks.
StartBlocks ==
  /\ life = "off"
  /\ starts < MaxStarts /\ broken < MaxBroken
  /\ life' = "blocked"
  /\ starts' = starts + 1
  /\ broken' = broken + 1
  /\ UNCHANGED <<link, queues, timer, at, wasReady, history, drops>>

\* What Connection::shutdown() clears.
ClearConnection ==
  /\ conn' = "uninitialized"
  /\ outgoing' = <<>>
  /\ incoming' = <<>>
  /\ queued' = <<>>
  /\ full' = {}

\* Nobody is inside Client::update(), which holds the client's mutex.
ClientFree == at \notin {"updating", "reading"}

(***************************************************************************)
(* Client::shutdown(), by another thread or before a new init(): the time  *)
(* of the last attempt is kept.                                            *)
(***************************************************************************)
Shutdown ==
  /\ life = "on"
  /\ ClientFree
  /\ life' = "off"
  /\ connected' = FALSE
  /\ socket' = "none"
  /\ ClearConnection
  /\ UNCHANGED <<timer, at, wasReady, bounds>>

-----------------------------------------------------------------------------
(* Agent::update() and, in it, Client::update().                           *)

Idle == at = "idle" /\ life = "on"

\* The next attempt to connect is due.
Due == ~recent

\* Mutant: the status is not compared with the one before the update.
BeginUnready ==
  /\ Idle
  /\ connected
  /\ wasReady' = FALSE
  /\ at' = "updating"
  /\ UNCHANGED <<life, link, queues, timer, history, bounds>>

\* Agent::update() of a client that has a connection.
Begin ==
  /\ Idle
  /\ connected
  /\ wasReady' = (conn = "ready")
  /\ at' = "updating"
  /\ UNCHANGED <<life, link, queues, timer, history, bounds>>

\* Mutant: the time of an attempt is noted only when it succeeds.
ConnectFailsUnnoted ==
  /\ Idle
  /\ ~connected /\ Due
  /\ elapsed' = FALSE /\ refused' = TRUE
  /\ wasReady' = FALSE
  /\ UNCHANGED <<life, link, queues, recent, at, history, bounds>>

(***************************************************************************)
(* The attempt fails and update() returns its error: the server refuses;   *)
(* or the socket could not be created again after the last connection; or  *)
(* it is already connected, since only the step after ::connect failed.    *)
(***************************************************************************)
ConnectFails ==
  /\ Idle
  /\ ~connected /\ Due
  /\ \/ UNCHANGED <<socket, broken>>
     \/ /\ socket = "fresh" /\ broken < MaxBroken
        /\ socket' = "half"
        /\ broken' = broken + 1
  /\ recent' = TRUE /\ elapsed' = FALSE /\ refused' = TRUE
  /\ wasReady' = FALSE
  /\ UNCHANGED <<life, connected, conn, queues, at, history, drops, starts>>

\* The attempt succeeds and update() goes on with the connection.
ConnectSucceeds ==
  /\ Idle
  /\ ~connected /\ Due
  /\ socket = "fresh"
  /\ socket' = "open"
  /\ connected' = TRUE
  /\ conn' = "handshake"
  /\ recent' = TRUE /\ elapsed' = FALSE /\ refused' = FALSE
  /\ wasReady' = FALSE
  /\ at' = "updating"
  /\ UNCHANGED <<life, queues, history, bounds>>

\* More than connection_retry_delay_seconds have passed.
DelayElapses ==
  /\ ~elapsed
  /\ elapsed' = TRUE
  /\ recent' = FALSE
  /\ UNCHANGED <<life, link, queues, refused, at, wasReady, history, bounds>>

\* Mutant: the connection is not reset with the socket.
CloseSocketOnly ==
  /\ drops < MaxDrops
  /\ connected' = FALSE
  /\ recent' = FALSE
  /\ socket' = "fresh"
  /\ drops' = drops + 1
  /\ at' = "idle"
  /\ UNCHANGED <<life, conn, queues, history, elapsed, refused, wasReady, broken, starts>>

\* Mutant: the socket is closed and not created again.
CloseForGood ==
  /\ drops < MaxDrops
  /\ ClearConnection
  /\ connected' = FALSE
  /\ recent' = FALSE
  /\ socket' = "none"
  /\ drops' = drops + 1
  /\ at' = "idle"
  /\ UNCHANGED <<life, elapsed, refused, wasReady, broken, starts>>

(***************************************************************************)
(* close_client: the connection is reset, the socket closed and created    *)
(* again, which may fail unnoticed, and the next attempt is due at once.   *)
(***************************************************************************)
CloseClient ==
  /\ drops < MaxDrops
  /\ ClearConnection
  /\ connected' = FALSE
  /\ recent' = FALSE
  /\ \/ socket' = "fresh" /\ UNCHANGED broken
     \/ broken < MaxBroken /\ socket' = "none" /\ broken' = broken + 1
  /\ drops' = drops + 1
  /\ at' = "idle"
  /\ UNCHANGED <<life, elapsed, refused, wasReady, starts>>

\* The update of the connection fails: protocol, timeout, or a closed peer.
ConnectionFails ==
  /\ at = "updating"
  /\ CloseClient

\* The handshake goes on, and may be over.
ConnectionHandshakes ==
  /\ at = "updating"
  /\ conn = "handshake"
  /\ conn' \in {"handshake", "ready"}
  /\ at' = "reading"
  /\ UNCHANGED <<life, socket, connected, queues, timer, wasReady, history, bounds>>

\* Messages are sent, if the socket is writable, and received.
ConnectionFlows ==
  /\ at = "updating"
  /\ conn = "ready"
  /\ outgoing' \in {outgoing, <<>>}
  /\ \/ UNCHANGED incoming
     \/ /\ Len(incoming) < MaxIncoming
        /\ \E m \in Incoming :
             /\ m \in Malformed => drops < MaxDrops
             /\ incoming' = Append(incoming, m)
  /\ at' = "reading"
  /\ UNCHANGED <<life, link, timer, wasReady, history, bounds>>

\* remove_incoming() with process_incoming_message(): the callback runs.
ReadMessage ==
  /\ at = "reading"
  /\ incoming # <<>>
  /\ Head(incoming) \notin Malformed
  /\ incoming' = Tail(incoming)
  /\ UNCHANGED <<life, link, outgoing, timer, at, wasReady, history, bounds>>

\* The same, when the validation of its payload fails.
ReadMalformed ==
  /\ at = "reading"
  /\ incoming # <<>>
  /\ Head(incoming) \in Malformed
  /\ CloseClient

\* Whether Agent::update() has to tell the server who it is.
BecameReady == conn = "ready" /\ ~wasReady

\* Client::update() returns.
EndUpdate ==
  /\ at = "reading"
  /\ incoming = <<>>
  /\ at' = IF BecameReady THEN "host_information" ELSE "idle"
  /\ UNCHANGED <<life, link, queues, timer, wasReady, history, bounds>>

-----------------------------------------------------------------------------
(* Sending.                                                                *)

\* Mutant: the capacity is checked after the push.
CanQueueLate == life = "on" /\ conn = "ready" /\ Len(outgoing) <= OutCap

\* process_outgoing_message(): only a ready connection takes messages.
CanQueue == life = "on" /\ conn = "ready" /\ Len(outgoing) < OutCap

Queue(m) ==
  /\ CanQueue
  /\ outgoing' = Append(outgoing, m)
  /\ queued' = Append(queued, m)

(***************************************************************************)
(* Agent::update() sends the two messages of Info after the first update   *)
(* of a ready connection; their errors are ignored.                        *)
(***************************************************************************)
SendInfo(m, then) ==
  /\ at = m
  /\ at' = then
  /\ \/ Queue(m) /\ UNCHANGED full
     \/ /\ ~CanQueue
        /\ full' = IF conn = "ready" THEN full \cup {m} ELSE full
        /\ UNCHANGED <<outgoing, queued>>
  /\ UNCHANGED <<life, link, incoming, timer, wasReady, bounds>>

Inform ==
  \/ SendInfo("host_information", "application_instance_information")
  \/ SendInfo("application_instance_information", "idle")

\* send_soft_stop(), send_allocated(), send_metadata().
SendLocked(m) ==
  /\ at = "idle"
  /\ Len(queued) < MaxSends
  /\ Queue(m)
  /\ UNCHANGED <<life, link, incoming, timer, at, wasReady, full, bounds>>

\* send_custom_command() does not take the agent's mutex.
SendCommand(m) ==
  /\ ClientFree
  /\ Len(queued) < MaxSends
  /\ Queue(m)
  /\ UNCHANGED <<life, link, incoming, timer, at, wasReady, full, bounds>>

\* Every step of the thread that updates.
Step ==
  \/ Begin \/ ConnectFails \/ ConnectSucceeds
  \/ ConnectionFails \/ ConnectionHandshakes \/ ConnectionFlows
  \/ ReadMessage \/ ReadMalformed \/ EndUpdate \/ Inform

Next ==
  \/ Start \/ StartBlocks \/ Shutdown
  \/ Step
  \/ DelayElapses
  \/ \E m \in LockedSend : SendLocked(m)
  \/ \E m \in Command : SendCommand(m)

Spec == Init /\ [][Next]_vars

(***************************************************************************)
(* The agent's main loop updates for ever, and time passes.  A server that *)
(* is tried again and again accepts at last, a handshake that goes on and  *)
(* on ends.                                                                *)
(***************************************************************************)
HandshakeEnds == ConnectionHandshakes /\ conn' = "ready"

FairSpec ==
  /\ Spec
  /\ WF_vars(Step)
  /\ WF_vars(DelayElapses)
  /\ SF_vars(ConnectSucceeds)
  /\ SF_vars(HandshakeEnds)

-----------------------------------------------------------------------------
(* Properties.                                                             *)

Messages == Info \cup LockedSend \cup Command

\* Every variable has its type and the outgoing queue its capacity, which
\* several threads fill and only an update empties.
TypeOK ==
  /\ life \in {"off", "on", "blocked"}
  /\ socket \in {"none", "fresh", "open", "half"}
  /\ connected \in BOOLEAN
  /\ conn \in {"uninitialized", "handshake", "ready"}
  /\ outgoing \in Seq(Messages) /\ Len(outgoing) <= OutCap
  /\ incoming \in Seq(Incoming) /\ Len(incoming) <= MaxIncoming
  /\ recent \in BOOLEAN /\ elapsed \in BOOLEAN /\ refused \in BOOLEAN
  /\ at \in {"idle", "updating", "reading"} \cup Info
  /\ wasReady \in BOOLEAN
  /\ queued \in Seq(Messages) /\ full \subseteq Info
  /\ drops \in 0 .. MaxDrops /\ broken \in 0 .. MaxBroken
  /\ starts \in 0 .. MaxStarts

(***************************************************************************)
(* A client that waits to connect has nothing left of its last connection: *)
(* what Connection::init() asserts of its streams and queues (connection.  *)
(* cpp 57) holds however the last one ended.                               *)
(***************************************************************************)
StartsClean ==
  ~connected =>
    /\ conn = "uninitialized"
    /\ outgoing = <<>> /\ incoming = <<>>
    /\ socket # "open"

Position(m) == {i \in DOMAIN queued : queued[i] = m}

(***************************************************************************)
(* On each connection the agent says who it is once, as soon as an update  *)
(* has made it ready (agent.cpp 150), and nothing that is sent with the    *)
(* agent's mutex held goes before it: only a custom command can.  What     *)
(* other threads had filled the queue with may keep the information out.   *)
(***************************************************************************)
AnnouncedOnce ==
  \A m \in Info :
    /\ Cardinality(Position(m)) <= 1
    /\ at = "idle" /\ conn = "ready" => m \in full \/ Position(m) # {}
    /\ \A i \in DOMAIN queued :
         queued[i] \in LockedSend =>
           m \in full \/ \E j \in Position(m) : j < i

(***************************************************************************)
(* "If not connected, attempt to connect at an interval" (client.cpp 111): *)
(* after an attempt that was refused none succeeds before the delay is     *)
(* over, even when the client was shut down and initialised again.         *)
(***************************************************************************)
AttemptWaits == [][refused /\ connected' => elapsed]_vars

(***************************************************************************)
(* However its connections end, a client in use is ready again, unless the *)
(* socket system failed and left it a socket that cannot connect.          *)
(***************************************************************************)
Unusable == broken > 0 /\ socket \in {"none", "half"}
Reconnects == ~connected ~> (conn = "ready" \/ life # "on" \/ Unusable)

=============================================================================
