------------------------------- MODULE Server -------------------------------
(***************************************************************************)
(* The Arcus server (one/arcus/server.cpp) behind the C API: threads of    *)
(* the game create it, update it and set its properties; agents connect    *)
(* to it one after the other.  Every operation but send_reverse_metadata() *)
(* holds the mutex _server; update() lets it go while it runs the callback *)
(* of an incoming message (ReverseLockGuard), so that two updates and the  *)
(* setters can interleave there.                                           *)
(*                                                                         *)
(* The client connection is the one `Connection' models, reduced to what   *)
(* the server sees of it: its status, how many messages wait to be sent,   *)
(* the ring of received ones.  An update of it fails, is not writable,     *)
(* or sends all and receives some.                                         *)
(*                                                                         *)
(* send_reverse_metadata() pushes into the outgoing queue without the      *)
(* mutex.  A call that overlaps another thread's use of the queue can tear *)
(* the ring's slots and indices: what waits to be sent is then unknown.    *)
(***************************************************************************)
EXTENDS Naturals

CONSTANTS
  Thread,          (* threads of the game                                *)
  ReverseCallers,  (* those that call send_reverse_metadata()            *)
  GameState,       (* values of the six fields of the live state         *)
  Default,         (* the one a server starts with: 0, 0 and ""          *)
  Extra,           (* values of additional_data                          *)
  EmptyObject,     (* the one it starts with                             *)
  Clashing,        (* those with a live state key of another type        *)
  NoObject,        (* its null pointer                                   *)
  AppStatus,       (* application instance statuses                      *)
  Untold,          (* stands for no message of a kind                    *)
  InCap, OutCap,   (* capacities of the message queues (connection.h 42) *)
  MaxClients,      (* bound: agents that connect                         *)
  MaxMessages,     (* bound: messages an agent sends                     *)
  MaxSets          (* bound: calls of the setters                        *)

ASSUME ThreadsAssumption == ReverseCallers \subseteq Thread
ASSUME ServerBounds ==
  /\ InCap \in Nat \ {0}
  /\ OutCap \in Nat \ {0}
  /\ MaxClients \in Nat
  /\ MaxMessages \in Nat
  /\ MaxSets \in Nat
ASSUME ServerValues ==
  /\ Default \in GameState
  /\ EmptyObject \in Extra
  /\ NoObject \notin Extra
  /\ Clashing \subseteq Extra \ {EmptyObject}
  /\ Untold \notin GameState \cup AppStatus
  /\ "starting" \in AppStatus

Clients == 1 .. MaxClients
Message == [client : Clients, id : 1 .. MaxMessages]
NoMessage == [client |-> 0, id |-> 0]       \* Message::reset()
NoThread == "none"
ASSUME NoThreadAssumption == NoThread \notin Thread

VARIABLES
  created,     (* what became of one_server_create()                     *)
  listening,   (* _is_listening                                          *)
  waiting,     (* _is_waiting_for_client                                 *)
  client,      (* whose socket _client_socket is, 0 if not initialized   *)
  status,      (* _client_connection->status()                           *)
  arrived,     (* agents that have connected to the listen socket        *)
  accepted,    (* agents accepted so far                                 *)
  game,        (* _game_state                                            *)
  additional,  (* _additional_data: the object's value, or NoObject      *)
  lastSent,    (* _last_sent_game_state                                  *)
  wasSet,      (* _game_state_was_set                                    *)
  app,         (* _status                                                *)
  shouldSend,  (* _should_send_status                                    *)
  outgoing,    (* number of messages in the outgoing queue               *)
  queued,      (* last live state and status queued for this client      *)
  agent,       (* last live state and status sent to this client         *)
  torn,        (* the outgoing queue was torn since it was last cleared  *)
  buffer, size, last, next, popped,  (* the incoming queue, as in Ring   *)
  received,    (* messages received from this client                     *)
  lock,        (* the thread that holds _server                          *)
  pc,          (* where a thread is in update()                          *)
  wasReady,    (* its local was_ready                                    *)
  slot, msg,   (* the slot and the message its remove_incoming() popped  *)
  failed,      (* its callback returned an error                         *)
  reversing,   (* threads that push in send_reverse_metadata()           *)
  racing,      (* those whose push overlaps another use of the queue     *)
  crashed,     (* a null pointer was dereferenced                        *)
  sets         (* calls of the setters                                   *)

listener == <<created, listening, arrived>>
link     == <<waiting, client, status, accepted>>
props    == <<game, additional, lastSent, wasSet, app, shouldSend>>
told     == <<outgoing, queued, agent, torn>>
inbox    == <<buffer, size, last, next, popped, received>>
locals   == <<wasReady, slot, msg, failed>>
mutex    == <<lock, racing>>
others   == <<reversing, crashed, sets>>
vars == <<listener, link, props, told, inbox, mutex, pc, locals, others>>

\* The incoming queue is the ring buffer of ring.h.
Inbox == INSTANCE Ring WITH Value <- Message, Capacity <- InCap, None <- NoMessage

Nothing == [live |-> Untold, app |-> Untold]
Told == [live : GameState \cup {Untold}, app : AppStatus \cup {Untold}]

Init ==
  /\ created = "no"
  /\ listening = FALSE
  /\ waiting = FALSE
  /\ client = 0
  /\ status = "uninitialized"
  /\ arrived = 0
  /\ accepted = 0
  /\ game = Default
  /\ additional = EmptyObject
  /\ lastSent = Default
  /\ wasSet = FALSE
  /\ app = "starting"
  /\ shouldSend = FALSE
  /\ outgoing = 0
  /\ queued = Nothing
  /\ agent = Nothing
  /\ torn = FALSE
  /\ Inbox!Init
  /\ received = 0
  /\ lock = NoThread
  /\ pc = [t \in Thread |-> "out"]
  /\ wasReady = [t \in Thread |-> FALSE]
  /\ slot = [t \in Thread |-> 0]
  /\ msg = [t \in Thread |-> NoMessage]
  /\ failed = [t \in Thread |-> FALSE]
  /\ reversing = {}
  /\ racing = {}
  /\ crashed = FALSE
  /\ sets = 0

-----------------------------------------------------------------------------
(* Creation.                                                               *)

(***************************************************************************)
(* one_server_create(): the server listens, or will retry when the port    *)
(* cannot be bound; any other failure of listen() destroys it again.       *)
(***************************************************************************)
Create(outcome) ==
  /\ created = "no"
  /\ created' = outcome
  /\ listening' = (outcome = "listening")
  /\ waiting' = (outcome = "listening")
  /\ UNCHANGED <<arrived, client, status, accepted, props, told, inbox, mutex, pc,
                 locals, others>>

\* A socket or an object of init() cannot be had: shutdown() is called with
\* the mutex held and locks it again.
CreateBlocks ==
  /\ created = "no"
  /\ created' = "blocked"
  /\ UNCHANGED <<listening, arrived, link, props, told, inbox, mutex, pc, locals, others>>

Exists == created \in {"listening", "unbound"}

\* one_server_destroy(): not thread safe, no other call is under way.
Destroy ==
  /\ Exists
  /\ \A t \in Thread : pc[t] = "out"
  /\ reversing = {}
  /\ created' = "destroyed"
  /\ client' = 0
  /\ status' = "uninitialized"
  /\ Inbox!Clear
  /\ outgoing' = 0
  /\ queued' = Nothing
  /\ torn' = FALSE
  /\ received' = 0
  /\ UNCHANGED <<listening, arrived, waiting, accepted, props, agent, mutex, pc, locals,
                 others>>

\* An agent's connection is completed by the kernel.
AgentConnects ==
  /\ Exists /\ listening
  /\ arrived < MaxClients
  /\ arrived' = arrived + 1
  /\ UNCHANGED <<created, listening, link, props, told, inbox, mutex, pc, locals, others>>

-----------------------------------------------------------------------------
(* The property setters.  A callback may call them: the mutex is free.     *)

CanLock(t) == Exists /\ ~crashed /\ lock = NoThread /\ t \notin reversing
CanCall(t) == CanLock(t) /\ pc[t] \in {"out", "callback"}
CanSet(t) == CanCall(t) /\ sets < MaxSets /\ sets' = sets + 1

SetLiveState(t, s, x) ==
  /\ CanSet(t)
  /\ IF x # NoObject /\ additional = NoObject
       THEN /\ crashed' = TRUE
            /\ UNCHANGED props
       ELSE /\ additional' = x
            /\ game' = s
            /\ wasSet' = TRUE
            /\ UNCHANGED <<lastSent, app, shouldSend, crashed>>
  /\ UNCHANGED <<listener, link, told, inbox, mutex, pc, locals, reversing>>

SetApplicationInstanceStatus(t, a) ==
  /\ CanSet(t)
  /\ a # app
  /\ app' = a
  /\ shouldSend' = TRUE
  /\ UNCHANGED <<listener, link, game, additional, lastSent, wasSet, told, inbox, mutex,
                 pc, locals, reversing, crashed>>

\* What a push without the mutex can leave: a size that counts too much or
\* too little, and messages that are kept, or overwritten, skipped or followed
\* by an older one, so that the client cannot be said to have been told them.
Tear ==
  /\ outgoing' \in 0 .. OutCap
  /\ queued' \in [live : {queued.live, Untold}, app : {queued.app, Untold}]
  /\ torn' = TRUE
  /\ UNCHANGED agent

\* send_reverse_metadata() up to its push, which takes no lock.  The checks of
\* process_outgoing_message() and add_outgoing() have been passed; a call
\* that fails them changes nothing.
ReverseEnter(t) ==
  /\ Exists /\ ~crashed
  /\ t \in ReverseCallers \ reversing
  /\ pc[t] \in {"out", "callback"}
  /\ status = "ready" /\ outgoing < OutCap
  /\ sets < MaxSets
  /\ sets' = sets + 1
  /\ reversing' = reversing \cup {t}
  /\ racing' = IF lock = NoThread /\ reversing = {} THEN {} ELSE reversing'
  /\ UNCHANGED <<listener, link, props, told, inbox, lock, pc, locals, crashed>>

\* Part of the push meets the other use of the queue.
ReverseTears(t) ==
  /\ t \in racing
  /\ Tear
  /\ UNCHANGED <<listener, link, props, inbox, mutex, pc, locals, others>>

\* The push is done, into whatever queue there is by now.
ReverseLeave(t) ==
  /\ t \in reversing
  /\ reversing' = reversing \ {t}
  /\ racing' = racing \ {t}
  /\ \/ /\ outgoing < OutCap
        /\ outgoing' = outgoing + 1
        /\ UNCHANGED <<queued, agent, torn>>
     \/ /\ t \in racing
        /\ Tear
  /\ UNCHANGED <<listener, link, props, inbox, lock, pc, locals, crashed, sets>>

-----------------------------------------------------------------------------
(* update().  Its parts under the mutex are steps of the thread that holds *)
(* it: send_reverse_metadata() can come between them.                      *)

Inside(t, p) == lock = t /\ pc[t] = p

\* Whoever has the mutex may use the queue that others push into.
Goto(t, p) ==
  /\ pc' = [pc EXCEPT ![t] = p]
  /\ lock' = t
  /\ racing' = reversing

Return(t) ==
  /\ pc' = [pc EXCEPT ![t] = "out"]
  /\ lock' = NoThread
  /\ UNCHANGED racing

\* Connection::shutdown(), then perhaps init() and initiate_handshake(), with
\* what the next client has been told and has sent so far: nothing.
ResetConnection ==
  /\ Inbox!Clear
  /\ outgoing' = 0
  /\ queued' = Nothing
  /\ agent' = Nothing
  /\ torn' = FALSE
  /\ received' = 0

(* A close that does not wait for the next client. *)
CloseAndForget ==
  /\ ResetConnection
  /\ status' = "uninitialized"
  /\ client' = 0
  /\ UNCHANGED <<waiting, accepted>>

CloseClientConnection ==
  /\ ResetConnection
  /\ status' = "uninitialized"
  /\ client' = 0
  /\ waiting' = TRUE
  /\ UNCHANGED accepted

CanUpdate(t) == CanLock(t) /\ pc[t] = "out"

\* update_listen_socket() binds at last; nobody has connected yet.
ListenRetry(t) ==
  /\ CanUpdate(t)
  /\ ~listening
  /\ listening' = TRUE
  /\ waiting' = TRUE
  /\ UNCHANGED <<created, arrived, client, status, accepted, props, told, inbox, mutex,
                 pc, locals, others>>

\* update_listen_socket() accepts an agent, which overrides the current one.
\* Where there is none the queues are as the last close, and a push since,
\* left them.
AcceptClient(t) ==
  /\ CanUpdate(t)
  /\ listening
  /\ accepted < arrived
  /\ accepted' = accepted + 1
  /\ client' = accepted + 1
  /\ status' = "handshake"
  /\ waiting' = FALSE
  /\ IF client # 0 THEN ResetConnection ELSE UNCHANGED <<told, inbox>>
  /\ wasReady' = [wasReady EXCEPT ![t] = FALSE]
  /\ Goto(t, "connection")
  /\ UNCHANGED <<listener, props, slot, msg, failed, others>>

(* An update that sends nothing by itself. *)
KeepClientSilently(t) ==
  /\ CanUpdate(t)
  /\ listening
  /\ client # 0
  /\ wasReady' = [wasReady EXCEPT ![t] = status = "ready"]
  /\ Goto(t, "connection")
  /\ UNCHANGED <<listener, link, props, told, inbox, slot, msg, failed, others>>

\* update_listen_socket() accepts nobody; the client there is goes on.
KeepClient(t) ==
  /\ CanUpdate(t)
  /\ listening
  /\ client # 0
  /\ wasReady' = [wasReady EXCEPT ![t] = status = "ready"]
  /\ Goto(t, IF status = "ready" THEN "live" ELSE "connection")
  /\ UNCHANGED <<listener, link, props, told, inbox, slot, msg, failed, others>>

(* An update that clears the flag before it knows that the state is queued. *)
SendLiveStateOnce(t) ==
  /\ Inside(t, "live")
  /\ wasSet' = FALSE
  /\ IF wasSet /\ game # lastSent /\ outgoing = OutCap
       THEN /\ CloseClientConnection
            /\ Return(t)
            /\ UNCHANGED lastSent
       ELSE /\ lastSent' = game
            /\ Goto(t, "status")
            /\ UNCHANGED <<told, inbox, link>>
  /\ UNCHANGED <<listener, game, additional, app, shouldSend, locals, others>>

\* send_live_state(), when a state was set that differs from the last one
\* sent in its six fields.  A full queue closes the connection, and so does
\* an additional_data in which a field is already there with another type.
SendLiveState(t) ==
  /\ Inside(t, "live")
  /\ \/ /\ ~(wasSet /\ game # lastSent)
        /\ wasSet' = FALSE
        /\ Goto(t, "status")
        /\ UNCHANGED <<lastSent, told, inbox, link>>
     \/ /\ wasSet /\ game # lastSent
        /\ outgoing < OutCap /\ additional \notin Clashing
        /\ outgoing' = outgoing + 1
        /\ queued' = [queued EXCEPT !.live = game]
        /\ wasSet' = FALSE
        /\ lastSent' = game
        /\ Goto(t, "status")
        /\ UNCHANGED <<agent, torn, inbox, link>>
     \/ /\ wasSet /\ game # lastSent
        /\ outgoing = OutCap \/ additional \in Clashing
        /\ CloseClientConnection
        /\ Return(t)
        /\ UNCHANGED <<wasSet, lastSent>>
  /\ UNCHANGED <<listener, game, additional, app, shouldSend, locals, others>>

(* A status queued without a look at the size of the queue. *)
SendStatusUnchecked(t) ==
  /\ Inside(t, "status")
  /\ outgoing' = IF shouldSend THEN outgoing + 1 ELSE outgoing
  /\ queued' = IF shouldSend THEN [queued EXCEPT !.app = app] ELSE queued
  /\ shouldSend' = FALSE
  /\ Goto(t, "connection")
  /\ UNCHANGED <<agent, torn, inbox, link, listener, game, additional, lastSent, wasSet, app,
                 locals, others>>

\* send_application_instance_status().
SendStatus(t) ==
  /\ Inside(t, "status")
  /\ \/ /\ ~shouldSend
        /\ Goto(t, "connection")
        /\ UNCHANGED <<shouldSend, told, inbox, link>>
     \/ /\ shouldSend
        /\ outgoing < OutCap
        /\ outgoing' = outgoing + 1
        /\ queued' = [queued EXCEPT !.app = app]
        /\ shouldSend' = FALSE
        /\ Goto(t, "connection")
        /\ UNCHANGED <<agent, torn, inbox, link>>
     \/ /\ shouldSend
        /\ outgoing = OutCap
        /\ CloseClientConnection
        /\ Return(t)
        /\ UNCHANGED shouldSend
  /\ UNCHANGED <<listener, game, additional, lastSent, wasSet, app, locals, others>>

\* _client_connection->update() fails: a timer, the socket, the codec, or a
\* full queue.
ConnectionFails(t) ==
  /\ pc[t] \in {"connection", "receiving"}
  /\ lock = t
  /\ CloseClientConnection
  /\ Return(t)
  /\ UNCHANGED <<listener, props, locals, others>>

\* ... goes on with the handshake, or ends it.
ConnectionHandshakes(t) ==
  /\ Inside(t, "connection")
  /\ status = "handshake"
  /\ status' \in {"handshake", "ready"}
  /\ Goto(t, "reading")
  /\ UNCHANGED <<listener, waiting, client, accepted, props, told, inbox, locals, others>>

\* ... finds a socket that takes nothing now; a health message may be due.
ConnectionWaits(t) ==
  /\ Inside(t, "connection")
  /\ status = "ready"
  /\ outgoing' \in {outgoing, outgoing + 1} \cap 0 .. OutCap
  /\ Goto(t, "reading")
  /\ UNCHANGED <<listener, link, props, queued, agent, torn, inbox, locals, others>>

\* ... sends the whole outgoing queue, then receives.
ConnectionSends(t) ==
  /\ Inside(t, "connection")
  /\ status = "ready"
  /\ outgoing' = 0
  /\ agent' = queued
  /\ Goto(t, "receiving")
  /\ UNCHANGED <<listener, link, props, queued, torn, inbox, locals, others>>

\* One message into the incoming queue; on a full one, ConnectionFails.
ConnectionReceives(t) ==
  /\ Inside(t, "receiving")
  /\ received < MaxMessages
  /\ size # InCap
  /\ Inbox!Push([client |-> client, id |-> received + 1])
  /\ received' = received + 1
  /\ UNCHANGED <<listener, link, props, told, mutex, pc, locals, others>>

ConnectionReceivedAll(t) ==
  /\ Inside(t, "receiving")
  /\ Goto(t, "reading")
  /\ UNCHANGED <<listener, link, props, told, inbox, locals, others>>

\* The reading loop fails: the callback's error, or the connection was shut
\* down while a callback ran.
ReadFails(t) ==
  /\ Inside(t, "reading")
  /\ failed[t] \/ status = "uninitialized"
  /\ CloseClientConnection
  /\ failed' = [failed EXCEPT ![t] = FALSE]
  /\ Return(t)
  /\ UNCHANGED <<listener, props, wasReady, slot, msg, others>>

CanRead(t) == Inside(t, "reading") /\ ~failed[t] /\ status # "uninitialized"

\* remove_incoming() pops a message, and process_incoming_message() unlocks
\* the mutex for its callback.
PopMessage(t) ==
  /\ CanRead(t)
  /\ Inbox!Pop
  /\ slot' = [slot EXCEPT ![t] = last]
  /\ msg' = [msg EXCEPT ![t] = buffer[last]]
  /\ pc' = [pc EXCEPT ![t] = "callback"]
  /\ lock' = NoThread
  /\ UNCHANGED <<listener, link, props, told, received, racing, wasReady, failed, others>>

\* The callback of the message that the reference now reads returns; a
\* message it cannot read is an error, a reset one has no callback.
CallbackReturns(t) ==
  /\ pc[t] = "callback"
  /\ ~crashed
  /\ t \notin reversing
  /\ \E f \in {FALSE, TRUE} :
       /\ f => buffer[slot[t]] # NoMessage
       /\ failed' = [failed EXCEPT ![t] = f]
  /\ pc' = [pc EXCEPT ![t] = "relock"]
  /\ UNCHANGED <<listener, link, props, told, inbox, mutex, wasReady, slot, msg, others>>

\* The mutex again, then message.reset() in the slot.
Relock(t) ==
  /\ CanLock(t)
  /\ pc[t] = "relock"
  /\ buffer' = [buffer EXCEPT ![slot[t]] = NoMessage]
  /\ Goto(t, "reading")
  /\ UNCHANGED <<listener, link, props, told, size, last, next, popped, received,
                 locals, others>>

(* An update that does not tell a new client what the last one was told. *)
UpdateEndsOnly(t) ==
  /\ CanRead(t)
  /\ size = 0
  /\ Return(t)
  /\ UNCHANGED <<listener, link, props, told, inbox, locals, others>>

\* Nothing is left to read.  A connection that has become ready is to be
\* told the state.
UpdateEnds(t) ==
  /\ CanRead(t)
  /\ size = 0
  /\ IF status = "ready" /\ ~wasReady[t]
       THEN wasSet' = TRUE /\ shouldSend' = TRUE
       ELSE UNCHANGED <<wasSet, shouldSend>>
  /\ Return(t)
  /\ UNCHANGED <<listener, link, game, additional, lastSent, app, told, inbox, locals,
                 others>>

-----------------------------------------------------------------------------
Update(t) ==
  \/ ListenRetry(t)
  \/ AcceptClient(t)
  \/ KeepClient(t)
  \/ SendLiveState(t)
  \/ SendStatus(t)
  \/ ConnectionFails(t)
  \/ ConnectionHandshakes(t)
  \/ ConnectionWaits(t)
  \/ ConnectionSends(t)
  \/ ConnectionReceives(t)
  \/ ConnectionReceivedAll(t)
  \/ ReadFails(t)
  \/ PopMessage(t)
  \/ CallbackReturns(t)
  \/ Relock(t)
  \/ UpdateEnds(t)

Next ==
  \/ \E outcome \in {"listening", "unbound", "failed"} : Create(outcome)
  \/ CreateBlocks
  \/ Destroy
  \/ AgentConnects
  \/ \E t \in Thread :
       \/ \E s \in GameState, x \in Extra \cup {NoObject} : SetLiveState(t, s, x)
       \/ \E a \in AppStatus : SetApplicationInstanceStatus(t, a)
       \/ ReverseEnter(t)
       \/ ReverseTears(t)
       \/ ReverseLeave(t)
       \/ Update(t)

Spec == Init /\ [][Next]_vars

(***************************************************************************)
(* The game updates the server again and again (c_api.h 164), callbacks    *)
(* return, a thread that waits for the mutex gets it, the agent's socket   *)
(* takes data again and again, and its handshake is not cut off for ever.  *)
(***************************************************************************)
Fairness ==
  \A t \in Thread :
    /\ WF_vars(KeepClient(t))
    /\ WF_vars(SendLiveState(t))
    /\ WF_vars(SendStatus(t))
    /\ WF_vars(ConnectionHandshakes(t))
    /\ SF_vars(ConnectionSends(t))
    /\ WF_vars(ConnectionReceivedAll(t))
    /\ WF_vars(ReadFails(t))
    /\ WF_vars(PopMessage(t))
    /\ WF_vars(CallbackReturns(t))
    /\ SF_vars(Relock(t))
    /\ WF_vars(UpdateEnds(t))
    /\ WF_vars(ReverseLeave(t))

FairSpec == Spec /\ Fairness

-----------------------------------------------------------------------------
TypeFlags ==
  /\ listening \in BOOLEAN
  /\ waiting \in BOOLEAN
  /\ wasSet \in BOOLEAN
  /\ shouldSend \in BOOLEAN
  /\ crashed \in BOOLEAN
  /\ torn \in BOOLEAN

TypeLink ==
  /\ created \in {"no", "listening", "unbound", "failed", "blocked", "destroyed"}
  /\ client \in 0 .. MaxClients
  /\ status \in {"uninitialized", "handshake", "ready"}
  /\ arrived \in 0 .. MaxClients
  /\ accepted \in 0 .. arrived

TypeProps ==
  /\ game \in GameState
  /\ additional \in Extra \cup {NoObject}
  /\ lastSent \in GameState
  /\ app \in AppStatus
  /\ outgoing \in 0 .. OutCap
  /\ queued \in Told
  /\ agent \in Told

TypeInbox ==
  /\ buffer \in [0 .. InCap - 1 -> Message \cup {NoMessage}]
  /\ size \in 0 .. InCap
  /\ last \in 0 .. InCap - 1
  /\ next \in 0 .. InCap - 1
  /\ popped \in Message \cup {NoMessage}
  /\ received \in 0 .. MaxMessages

TypeThreads ==
  /\ lock \in Thread \cup {NoThread}
  /\ pc \in [Thread -> {"out", "live", "status", "connection", "receiving", "reading",
                        "callback", "relock"}]
  /\ wasReady \in [Thread -> BOOLEAN]
  /\ slot \in [Thread -> 0 .. InCap - 1]
  /\ msg \in [Thread -> Message \cup {NoMessage}]
  /\ failed \in [Thread -> BOOLEAN]
  /\ reversing \in SUBSET Thread
  /\ racing \in SUBSET reversing
  /\ sets \in 0 .. MaxSets

\* Type invariant.  The queues never exceed their capacity (connection.cpp 83
\* and 507), and an agent is accepted once.
TypeOK == TypeFlags /\ TypeLink /\ TypeProps /\ TypeInbox /\ TypeThreads

\* Server::status().
ServerStatus ==
  IF ~Exists THEN "uninitialized"
  ELSE IF waiting THEN "waiting_for_client"
  ELSE IF client = 0 THEN "initialized"
  ELSE IF status \in {"handshake", "ready"} THEN status
  ELSE "error"

Free == Exists /\ lock = NoThread

(***************************************************************************)
(* status() (server.cpp 182-205) never contradicts the sockets, whatever   *)
(* closed the last client and from whichever thread: it is                 *)
(* waiting_for_client exactly when the server listens and has no client,   *)
(* initialized only until it listens, and never error.                     *)
(***************************************************************************)
StatusTruthful ==
  Free =>
    /\ ServerStatus = "waiting_for_client" <=> listening /\ client = 0
    /\ ServerStatus = "initialized" <=> ~listening
    /\ ServerStatus # "error"

(***************************************************************************)
(* The application status reaches every client (server.cpp 518-540): when  *)
(* the connection is ready, either the current status is the last one put  *)
(* in this client's queue, or an update is still to send it; no reconnect, *)
(* change inside a callback or update of another thread loses it.  What    *)
(* does lose it is a send_reverse_metadata() that overlaps an update: its  *)
(* unlocked push (610, ring.h 42-47) tears the queue, and the flag that    *)
(* scheduled the status is cleared all the same.                           *)
(***************************************************************************)
StatusScheduled ==
  Free /\ status = "ready" /\ ~torn => shouldSend \/ queued.app = app

(***************************************************************************)
(* A live state that differs from the last one update() took for sent      *)
(* (server.cpp 501-517) is never forgotten: an update is still to send it. *)
(***************************************************************************)
ChangesScheduled == Free => wasSet \/ game = lastSent

(***************************************************************************)
(* server.cpp 535-536: "Schedule a send when connection is established to  *)
(* ensure newly connected client has the correct state".  When the         *)
(* connection is ready and its queue was not torn, the current live state  *)
(* is the last one put in this client's queue, or an update is still to    *)
(* send it, or it is the state a server starts with and nothing else was   *)
(* sent: set or not, that one counts as sent (505).  Additional data is no *)
(* part of the comparison: a change of it alone is not sent.               *)
(***************************************************************************)
LiveStateScheduled ==
  Free /\ status = "ready" /\ ~torn =>
    \/ wasSet
    \/ queued.live = game
    \/ game = Default /\ queued.live = Untold

(***************************************************************************)
(* c_api.h 433-437 and 459-461: under FairSpec, as long as a client stays  *)
(* ready, its queue is not torn and neither is changed again, the current  *)
(* application status and the current live state are sent to it, but for a *)
(* live state like the one the server started with, before any other.      *)
(***************************************************************************)
StateReachesClient ==
  \A k \in Clients :
    /\ \A a \in AppStatus :
         (client = k /\ status = "ready" /\ app = a) ~>
           agent.app = a \/ app # a \/ client # k \/ crashed \/ torn
    /\ \A s \in GameState :
         (client = k /\ status = "ready" /\ game = s) ~>
           \/ agent.live = s
           \/ s = Default /\ queued.live = Untold
           \/ game # s \/ client # k \/ crashed \/ torn
=============================================================================
