# A verification project for the ONE Game Hosting SDK

The SDK has two libraries. *Arcus* (`src/one/arcus`) lets a game server be
managed by an agent of the ONE platform: the game embeds a `Server`, the agent
is a `Client`, and the two exchange JSON messages over a small TCP protocol.
*Ping* (`src/one/ping`) lets a game client measure its distance to the hosting
sites: it fetches the list of sites through the game's HTTP callback and pings
their addresses over UDP.

Line numbers below refer to the files under `src/one/arcus`, `src/one/ping` and
`src/one/fake`.

## 1. Inventory

### Components, their state and their operations

| Component | State | Operations | Who calls it |
|---|---|---|---|
| `Ring<T>` (`internal/ring.h`) | `_buffer`, `_size`, `_last`, `_next` | `push`, `pop`, `clear` | `Connection`: one ring of incoming, one of outgoing messages |
| `Accumulator`, `codec` | a byte buffer; none | append, peek, trim, get; frame and parse messages | `Connection` |
| `Connection` (`internal/connection.cpp`) | status, two streams, two rings, health timers | `init`, `shutdown`, `initiate_handshake`, `update`, `add_outgoing`, `remove_incoming` | `Server`, `Client` |
| `Socket` (`internal/socket.cpp`) | a descriptor | connect, accept, close, send, receive, readiness | `Connection`, `Server`, `Client` |
| `Server` (`server.cpp`) | listen and client socket, one connection, the live state and status to tell, flags of what is still to be sent, callbacks, a mutex | create, destroy, `update`, setters, `send_reverse_metadata`, `status` | threads of the game |
| `Client` (`client.cpp`) | one connection, a retry timer, callbacks, a mutex | `init`, `update`, `status`, `shutdown` | the agent |
| `Message`, `Object`, `Array`, `messages` | a JSON document | typed getters, setters, one `prepare_`/`validate_` pair per message | everybody |
| `UdpSocket`, `Pinger` | socket status, ping counter; six statistics | `update`, the statistics | `Pingers` |
| `Pingers` (`pingers.cpp`) | the pingers, a mutex | `update`, the statistics | threads of the game |
| `SitesGetter`, `SitesEndpoint` | status, list of sites, a recursive mutex | `init`, `shutdown`, `update`, HTTP answer, what is read of the sites | game thread, HTTP thread |
| `Game`, `OneServerWrapper` (`fake/arcus/game`) | matchmaking and match status, players, exit time, a mutex each | `init`, `shutdown`, `alter_game_state`, `update`, callbacks, `set_player_count` | the example's main loop, other threads |
| `Agent` (`fake/arcus/agent`) | a client, a mutex | `init`, `update`, send functions | the example's main loop, other threads |

Components interact by direct calls, except for the two ends of a TCP
connection or a UDP ping (messages), the callbacks out of `update` (which may
call back in), and the threads of the game (shared state under one mutex per
object, which `Server` lets go around callbacks).

### What is hard

* Sends and receives are partial; both streams and both queues are bounded;
  a `Connection` object is reused for one TCP connection after another.
* Either end may close, fail or time out at any point of the handshake, or the
  path between them may disappear without a word.
* `Server::update` releases its mutex for each callback, so that a second
  `update`, a setter or a close can come between two of its steps.
* What still has to be told to the agent is kept in flags that survive a
  reconnect, while the agent that was told does not.
* A ping or its reply may be lost, late, doubled; an error at one site ends the
  update of all.
* The agent has two mutexes, one of which `send_custom_command` does not take;
  its information must still be sent on each connection once, to a queue that
  others fill.
* The game's `set_player_count` takes no mutex at all; allocated messages arrive
  in every state of matchmaking and match, and a restart keeps both.
* The answer for the list of sites comes inside the request or from another
  thread, before or after the request returns, with a mutex or without.
* Documents are copied when they are nested, and a string that replaces another
  is not.

The hazards, each at the line where it bites, are listed in `PROJECT.json`.

### What makes each component correct

* Ring: it is a bounded FIFO as long as nobody pushes into a full one.
* Connection: messages arrive exactly once and in order, never from an earlier
  connection; the two ends agree on the handshake; neither rejects the other's
  bytes; every `update` returns; what is queued arrives.
* Server: the reported status agrees with the sockets; every change of the
  status and the live state is sent or still scheduled, to every client; what a
  callback reads is the message it was called for.
* Pingers: the statistics are those of the replies received; one ping is
  measured once and by its own reply; statistics read together fit together;
  no site keeps the others from being pinged.
* Client: a connection leaves nothing to the next; a refused attempt is not
  repeated within the delay; a lost connection comes back; the agent says who it
  is once per connection.
* Game: it is allocated exactly while it has a match; matches end; the server's
  live state catches up with the game's; a game told to stop stops.
* SitesGetter: one request at a time, waiting exactly while an answer is to come,
  retried after a failure; positions are those of the sites, whatever failed.
* Messages: what the other end's callback gets is what was prepared.

## 2. The modules

| Module | Models | State and actions |
|---|---|---|
| `BoundedFifo` | what a ring promises | one sequence; `Push`, `Pop`, `Clear` |
| `Ring` | `ring.h` | `_buffer`, `_size`, `_last`, `_next` under their names; `Push` behind the caller's capacity check (`GuardedPush`); refines `BoundedFifo` (`ImplementsFifo`) |
| `Connection` | `connection.cpp`, `health.cpp`, the framing of `codec.cpp`, the streams, the sockets as the connection uses them | both ends of successive TCP connections. One action per phase of `update` (`SendHello`, `ReceiveHello`, `ReceiveHelloMessage`, `BeginUpdate`, then per turn of the loops `SendNext`, `Receive`, `ReadMessage`), per call of the owner (`AddOutgoing`, `RemoveIncoming`, `Shutdown`, `Connect`, `Accept`), per timer and per failure; refines `Channel` (`ImplementsChannel`) |
| `Channel` | what two ends of the protocol promise their owners | per end: its connection, how many messages it queued and read there, the messages it can still read; the connections that may lose some. `Open`, `Close`, `Queue`, `Read`, `Lose` |
| `Server` | `server.cpp`, `mutex.h`, creation in `c_api.cpp` | `lock` is the mutex, `pc` the place of each thread in `update`; the incoming queue is an instance of `Ring`; the connection is reduced to what the server sees of it |
| `Pinger` | `udp_socket.cpp`, `pinger.cpp`, the network | per site: socket status, counter, the six statistics, the datagrams in flight and received; one action per outcome of `Pinger::update` |
| `Pingers` | `pingers.cpp`, the statistics call of `c_api.cpp` | extends `Pinger` with the loop of `update` (`at`) and a caller that reads the statistics one lock at a time (`Ask`, `ReadNext`) |
| `Client` | `client.cpp`, `agent.cpp` | `at` is the place of the thread in `Agent::update`; `Begin`, `ConnectFails`, `ConnectSucceeds`, the outcomes of the connection's update, `ReadMessage`, `EndUpdate`, `Inform`; `SendLocked` and `SendCommand` of other threads; `DelayElapses`; `Start`, `Shutdown`. The connection is reduced to what the client sees of it, as in `Server` |
| `Game` | `fake/arcus/game/game.cpp`, `one_server_wrapper.cpp` | two state machines, `matchmaking` and `match`; `at` is the place of the holder of `_game`; `alter_game_state` in four steps (`UpdateMatch`, `Build`, `SetLiveState`, `Report`), `set_player_count` in three of its own, one action per callback |
| `SitesGetter` | `sites_getter.cpp`, `sites_endpoint.cpp`, `ip_list.cpp`, the calls of `fake/ping/main.cpp` | `status`, `sites`, the hook; `Ask` and `Return` around the call of the hook, `AnswerFailed`, `AnswerParsed`, `AnswerTooLate`; the game's `ReadSites`, `FillList`, `CreatePingers` |
| `Documents` | `object.cpp`, `array.cpp`, `message.cpp`, `messages.cpp` | a document per handle, one message under way; one action per operation that changes an object or array, `Prepare`, `Send` (to JSON and back), `Receive` (validation, callback) |
| `MCRing`, `MCConnection`, `MCServer`, `MCPingers`, `MCClient`, `MCGame`, `MCSitesGetter`, `MCDocuments` | | constants for TLC |
| `RingProofs`, `ConnectionProofs`, `ServerProofs`, `PingersProofs`, `ClientProofs`, `GameProofs`, `SitesGetterProofs`, `DocumentsProofs` | | theorems and proofs |

`Server` composes `Ring` by `INSTANCE Ring WITH Value <- Message, Capacity <-
InCap, None <- NoMessage`: a slot of the server's incoming ring is the slot a
callback reads from. `Connection` uses sequences for its rings, which is what
`ImplementsFifo` allows.

### How the data are abstracted

* Bytes are *units*. The hello packet, a header and a payload are one or two
  units each; a unit knows its message and its place in it, so that a stream
  that lost or misplaced a unit is one the codec rejects.
* A queued message of the connection is the pair of its TCP connection and its
  rank; the control messages are `HelloMsg` and `Health`.
* The kernel's buffers of one direction and the network are one queue of
  `NetCap` units: a send takes what fits, a receive returns any part of what is
  there. `ready_for_send` is true when at least a unit fits, or the peer closed.
* A live state is a value of `GameState` for the six fields that are compared
  and a value of `Extra` for `additional_data`; `Clashing` holds the values of
  the latter that make the message unsendable. `Default` (0, 0, "") and
  `EmptyObject` are the ones a server starts with; the game can set them too.
* A push into the server's outgoing ring without the mutex is two steps
  (`ReverseEnter`, `ReverseLeave`). While another thread is in `update`, or in such a
  push too, it is `racing`, and what the data race leaves is chosen: any size
  within the capacity, and for the live state and the status that the queue was
  given, whether they are still in it (`Tear`). `torn` records it until the queue is
  cleared.
* A timer that may have expired is a disjunct that may be taken at each update.
* A round-trip time is a member of `Elapsed`, halved as the code does.
* Time as `Client` and `Game` compare it is a Boolean: the delay, the duration or
  the time to exit is over or not (`recent`, `waited`, `exit`).
* The game counts players from `PlayerFloor`, below 0, up to `PlayerCap`, past both
  ends of every match; a match can be allocated for a negative number of them, and a
  command can have a negative argument; `++_players` reads the count and writes it, and what
  `set_player_count` writes in between is lost or not.
* A payload of the site list is a sequence of sites and of one element `Bad` that
  fails the validation; a text that is no JSON is an answer that fails.
* A document is a function from keys or positions to typed values. A string that
  replaced another is *lent*: a pointer to the caller's text, whatever is there
  when it is read.

## 3. The runs

| Run | Question | Bounds | Result |
|---|---|---|---|
| `ring` | do the fields keep their ranges, and is it a FIFO? | see `MCRing.cfg` | holds |
| `conn_safety` | exactly once, in order; no protocol error; agreement on the handshake; capacities; is it a channel, step by step? | two TCP connections, two messages of each end and one health message of the server on each, a two-unit hello and two-unit messages over kernel buffers of two units, an incoming queue of one and an outgoing queue of two, one lost path | holds |
| `conn_live` | handshakes end, messages are delivered, updates return | one connection, one message and one health message of each end, queues of two, every send whole, no lost path | holds under fairness |
| `conn_partial_send` | does what a send did not take stay to be sent? | kernel buffer of one unit | **violated** |
| `server_threads` | does the status agree with the sockets; is every change sent or scheduled? | two threads, one of which sends reverse metadata beside the other's `update`, two live states (one the default), clashing and null additional data, two clients, two messages, two setter calls, rings of two | holds |
| `server_live` | does the first client get state and status? | one thread, one client, two live states (one the default) | holds under fairness |
| `server_reconnect` | does the second? | one thread, two clients | **violated** |
| `pingers` | statistics, measured once, no foreign reply, reads that fit, progress of all sites | one site with three pings and one that never gets a ping out, one datagram lost, one doubled, one failed wait for a reply, `select` failing before a send any number of times, one call for statistics, history of two, unsigned int up to 3 | holds, the progress under fairness |
| `client` | is the next connection clean, the delay kept, the agent introduced once, the connection restored? | three connections that end, two calls of `init`, one failure of the socket system, a queue of two, four messages per connection, one malformed message | holds, the last under fairness |
| `game` | do match and matchmaking agree; do matches end; does the live state catch up; does a told game stop? | two messages, one call of `set_player_count`, one agent that leaves, one restart, allocations of -1, 0 and 2 players, arguments -1 and 1, players counted up to 3 | holds, the last three under fairness |
| `sites` | does the getter wait exactly for its answer; does it get the sites; is each pinger at its site's place? | two sites, one without IPv6; payloads whole, empty, short, spoilt at the end; any number of requests | holds, the second under fairness |
| `documents` | does every message arrive as it was prepared? | two objects and an array, two keys, two texts, three values in all, two levels of nesting, all nine messages, three payloads of another program | holds |

Why the bounds are enough: the defects the properties are about need at most
one stale object (so two connections or clients), one message more than a queue
holds (two or three), a stream cut in the middle of a frame (frames of two
units), two threads in `update`, and sums that meet and pass the largest
unsigned int; a match of -1, of 0 and of 2 players against counts below, at and above
it; a restart; a bad element behind a good one; a document within one within
another, and three values, so that a key can be replaced beside one that stays. The kernel buffer of two units in `conn_safety` is what makes
sends partial and sockets not writable, its incoming queue of one is what makes a
receiver meet its own full queue (`connection.cpp` 507), and its outgoing queue of two
what leaves a message in the stream when the socket is full (555). `conn_live` has two of
each, and the theorems hold of all. The second site of `pingers` costs its
sibling nothing but the errors it has, which is all that sites do to each other: they
share the loop of `update`; the theorems hold of any number of pings and sites. The two
messages of `game` let one soft stop come after another, but not one after another for
ever, each of which draws a new time to exit: `StopsWhenTold` is about a game whose
agent at last leaves it alone. Symmetry is used in `documents`
alone, of its two objects and its two texts, which no definition tells apart;
the threads of `server_threads` differ in what they call.

Deadlock is checked in `documents`. All other systems may come to rest when their
bounds are used up, their owner stops calling, or (`client`, `game`, `sites`) the
process has exited or crashed.

### Properties that hold under a condition

`ExactlyOnceInOrder` and `NoProtocolError` except a connection on which a send
of queued messages was cut (the variable `dropped` records it);
`conn_partial_send` shows that the exception is needed. `NeverReordered` and
`HandshakeAgreement` have no such condition, and `ImplementsChannel` has it in the
channel: messages vanish only from a connection of `lossy`, which `Lossy` makes of
the connections with a cut send, without a path, that an end failed on or closed. `StatisticsMatch` is about sums
that fit into an unsigned int and a clock that was not set back, `ReadsFit`
also about statistics that were not reset while they were read.
`NoForeignReply` is about pings that were not doubled and that were not given up
when the wait for their reply failed (`abandoned`). `StatusScheduled`,
`LiveStateScheduled` and `StateReachesClient` are about queues that no push without
the mutex tore (`torn`), and the last two except the live state a server starts with
as long as the client was sent no other. `AnnouncedOnce` excepts
information a full queue refused (`full`), `Reconnects` a socket that could not be
created again or is connected though `connect()` failed (`Unusable`), `MatchEnds`
counts that `set_player_count` moved past the number that `update_match` compares
with and matches allocated for a negative number of players (`PastTheEnd`), `GetsReady` a getter whose hook was taken by `shutdown`, and
`ArrivesAsPrepared` the text, and nothing else, of strings that were replaced in
place. Each exception is a behaviour of the code listed in section 4.

### Fairness

* `Connection`: the owner calls `update` again and again (`c_api.h` 164: "This
  must be called frequently"), reads the incoming queue after each, and closes
  after an error, as `server.cpp` 448-467 and `client.cpp` 129-154 do; the
  server accepts; a running update goes on. Strong fairness is assumed of
  `ReceiveSome`: `recv`, called again and again on a socket that has data, at
  last returns some; and of `RemoveIncoming`: the owner reads between two updates,
  and may find itself in an update whenever one looks. No timer is assumed to expire, and nobody to connect,
  queue or close.
* `Server`: updates are called and callbacks return; a thread waiting for the
  mutex gets it (strong, `Relock`); the agent's socket is writable again and
  again (strong, `ConnectionSends`); a handshake goes on.
* `Client`: the agent's main loop updates for ever (`fake/arcus/agent/main.cpp`),
  time passes; a server that is tried again and again accepts at last (strong,
  `ConnectSucceeds`) and a handshake that goes on and on ends (strong). Nobody is
  assumed to send, shut down or start.
* `Game`: the main loop of `fake/arcus/game/main.cpp` 72 calls `alter_game_state`
  and `update` in turn (strong, since another thread may hold the mutex whenever
  one is looked at); calls under way go on; time passes; the agent is ready again
  and again (strong, `AgentReady`).
* `SitesGetter`: the game updates until the getter is ready (`c_api.h` 154), the
  hook answers each request, and after enough tries with a valid payload (strong,
  `GoodAnswer`).
* `Pingers`: `update` is called again and again and runs through; a datagram
  that is not lost arrives. Nothing is assumed of the caller of the statistics.

## 4. What the code does against its own words

Two runs end in a violation, with a finding each in `PROJECT.json`:

* `connection.cpp` 545 (`conn_partial_send`): after a partial send the whole
  outgoing stream is discarded, not what was sent.
* `server.cpp` 502 (`server_reconnect`): a client that reconnects is not told a
  live state that has not changed since the previous client was told.

These were met while modelling and are in the modules, or follow from them, but
are no run of their own (the first three were found by TLC when `UpdateReturns`
was checked with a path that vanishes, when the slot a callback reads was compared
with the message it was called for, and when every ping was required to end):

* `connection.cpp` 499: with a header and part of a payload received, `update`
  does not return until the rest arrives. `conn_live` checks `UpdateReturns` on a
  path that does not vanish.
* `connection.cpp` 106: a callback reads a slot that has already been popped;
  another thread's `update` can fill or reset it meanwhile.
* `udp_socket.cpp` 60: a lost ping is waited for without end.

* `ring.h` 42: a push into a full ring moves `_next` over `_last`; the next pop
  returns the newest value. All callers check the size first.
* `connection.cpp` 421: a hello reply that is sent in part is never finished,
  since `handshake_hello_received` is never assigned.
* `connection.cpp` 155: an end that cannot send does not read; two ends with
  full send buffers wait for each other until the health timer ends it.
* `server.cpp` 27: a change of `additional_data` alone is not sent.
* `message.cpp` 465: an `additional_data` with a key of the live state, but
  another type, closes this client and each one after it.
* `server.cpp` 475: the error of a message of the previous client closes the
  connection of the one that replaced it during the callback.
* `server.cpp` 610: `send_reverse_metadata` works on the outgoing ring without
  the mutex, though `c_api.h` 452 calls it thread-safe. Beside another thread's
  `update` it can overwrite, or lose, the status or the live state that thread is
  queueing (`ring.h` 42-47), whose flag is cleared all the same: neither is sent
  again until it changes or the client reconnects (`torn`).
* `server.cpp` 59 and 505: what was last sent starts as 0, 0 and "", as if the client
  had been told so. A first live state with these values is never sent.
* `server.cpp` 552: a null `additional_data` followed by one that is not
  dereferences the null pointer (`crashed`).
* `udp_socket.cpp` 246: one duplicated reply makes every later reply the wrong
  one, an error per ping.
* `udp_socket.cpp` 228 and 285: so does one failing `recvfrom` or `select` while a
  reply is waited for: the next ping is sent while the old reply is still to come.
* `pinger.cpp` 33: the total is reset only when it equals the largest unsigned
  int; a sum that steps over it wraps.
* `pinger.cpp` 181: the average is invalid when all times were 0.
* `client.cpp` 143: the error of creating the socket again is ignored; every
  attempt then fails until the owner shuts the client down.
* `client.cpp` 65 and `server.cpp` 97: a failing `init` calls `shutdown` with the
  mutex held (`StartBlocks`, `CreateBlocks`).
* `client.cpp` 154: callbacks run with the client's mutex held, so that one that
  calls the client never returns; the server lets its mutex go.
* `agent.cpp` 150: when another thread has filled the queue, the agent's
  information is not sent on this connection, and the error is ignored.
* `game.cpp` 163: the application status `starting` is never reported, since
  `update_startup` has already left `none` by then (`Started` in
  `GameProofs`), and a game that is `starting` is reported `online`.
* `game.cpp` 242 and 258: a count set past the limit by `set_player_count` is
  compared with `==`, and the match goes on for ever.
* `game.cpp` 401: so does, without any such call, a match that was allocated for a
  negative number of players, which `one_server_wrapper.cpp` 581 accepts.
* `game.cpp` 355: a soft stop with a timeout of 0 divides by zero; `one_server_wrapper.cpp`
  581: a number that `stoi` cannot read throws through the C callback.
* `sites_getter.cpp` 301: the status is written without the mutex; 290: the answer
  to a destroyed getter is written to freed memory (`AnswerTooLate`).
* `object.cpp` 298 and `array.cpp` 245: a string set where there is one already is
  kept as a pointer to the caller's text, and `c_api.cpp` 743 passes that of a
  temporary.
* `c_api.cpp` 332: the `String` a value is read into is made of the caller's
  buffer, which need not hold a text.
* `array.cpp` 73: `pop_back` of an empty array is an assertion of rapidjson; a
  payload whose JSON is not an object is one, too.

## 5. What is proved

The proofs are checked by TLAPS for every value of the constants that satisfies
the named assumptions of the module.

**`RingProofs`.** `RingInvariant`: `Spec => [](TypeOK /\ IndexInv)`. `IndexInv`
ties the fields together (`next` is the slot `size` places after `last`, modulo
the capacity, and each of the `size` slots from `last` on holds a value) and is inductive with the types. `RingImplementsFifo`: the ring
refines `BoundedFifo`, the abstract sequence being the `size` slots from `last`
on. The step lemmas show, per operation, that this sequence is appended to,
loses its head or becomes empty. The hypothesis is the guard of `GuardedPush`,
which is `add_outgoing`'s and `process_incoming_messages`'s check.

**`ServerProofs`.** For any number of threads, clients, messages, states and
any ring capacities:

* `TypeCorrect`: the types, and that no queue exceeds its capacity;
* `StatusIsTruthful`: whenever the mutex is free, the reported status agrees
  with the sockets (`StatusTruthful`);
* `StatusIsScheduled`: a ready client has the current application status in its
  queue, or an update is still to put it there (`StatusScheduled`);
* `ChangesAreScheduled`: a live state that differs from the last one sent is
  still to be sent (`ChangesScheduled`);
* `FirstClientIsTold`: the game's live state is the last one queued for its first
  client, or is still to be queued (`FirstClientTold`);
* `LiveStateIsScheduled`: with one client this is `LiveStateScheduled`, which
  `server_reconnect` refutes for two. The hypothesis is where the two part: a second
  client is not told.

The status and the last two are about a queue that was not `torn`; the last two except
the live state a server starts with, as long as the client was sent no other: the
code takes it for sent. Nothing is assumed of the values a game sets.

None of `StatusTruthful`, `StatusScheduled` and `ChangesScheduled` is inductive:
they speak of the states in which the mutex is free, and what they say of the next
such state depends on what the threads in `update` know. The inductive invariant `IInv` has the types and five parts:

* `LockInv`: the mutex is held by the thread that is at a place of `update`
  under the mutex, and nobody is in `update` of a server that does not listen;
* `LinkInv`: the sockets, the connection's status and the flags agree; this is
  `StatusTruthful` without the mutex;
* `ReadyInv`: a thread sends and receives only on a ready connection, nothing
  was received in a handshake, and a thread that is at the update of a
  connection in its handshake has `wasReady` false;
* `LiveInv`: `ChangesScheduled` without the mutex, and nothing was sent before
  something was set;
* `StatusInv`: `StatusScheduled`, or a thread is past the connection's update
  with `wasReady` false and is about to set the flag.

`TypeStep` and one lemma per other part prove that each action preserves it,
action by action; `Invariance` combines them. The last two theorems add `FirstInv`
to it: nothing was sent before a client was accepted, and while the first client is
there, the state last sent is the one in its queue (`FirstStep`).

**`ConnectionProofs`.** For packets, streams, kernel buffers and queues of any size
(`OutCap` holds a hello and a header, `InCap` a whole message), any number of TCP
connections, messages and lost paths:

* `TypeCorrect` (`TypeOK`), and in it that no stream, queue or kernel buffer
  overflows. It needs `Links` (a status says whether there is a socket, and an end
  is inside the loops of `update` only when it is ready) and `Clear` (an end
  without a socket holds nothing). `NetMoves` says what one receive and one send
  do to the network; there is a lemma per action.
* `HandshakeAgrees` (`HandshakeAgreement`), by counting units. `Unsaid(e, n)`: of
  the `n` units that `e` has to send first, those in its stream and those the other
  end has not used are `n` at most, and if its stream is empty none of them is on
  its way. So what is on its way to a client, before the server has sent its whole
  hello, is less than a hello, and what is on its way to a server, before the
  client is ready, is less than a header: neither can go on (`Greeting`). `Fresh`,
  that nothing travels on a connection before the server accepts it, makes this
  true at first, and `Reading`, that nothing is read before the status is ready,
  is the third part of the agreement.

Then what the protocol promises, from the same assumptions: `DeliveredInOrder` (`ExactlyOnceInOrder`), `NoErrorOfProtocol`
(`NoProtocolError`) and `OrderKept` (`NeverReordered`). The argument is about one
*direction* at a time, and about its *line* (`LineTo`): the queue of the receiver, the
units under way (its stream, the network, the sender's stream) and the queue of the
sender. A step moves units along the line, or adds to its end, takes from its front or
cuts off what the sender has not handed over. `Deliver` has five parts:

* `Idle`: an end without a socket has queued and read nothing, and one that failed
  says so;
* `Shut`: no end has closed the connection it is on;
* `Queues`: before the handshake is over an end's queue has all it was given;
* `Direction(e)`, for each end: `Flow` says that the ranks rise along the line and
  exceed what was read; without a cut send, that the units under way are in frames and
  that no rank is missing; and while the sender can still send, that the line ends with
  the last message queued. `Hears` says what may be under way to a receiver in each
  status: nothing, units of the hello packet, the hello message first, or frames of
  queued and health messages only;
* `NoProtocolError` itself: what `Hears` allows is what the code accepts.

It is inductive together with `Inv` (the types) and `Agreed` (the handshake); TLC checked `Deliver` as an invariant of `conn_safety`'s instance
before it was proved. `Climbs` and `Ids` of a line come from those of its parts
(`ClimbsOfJoin`, `IdsOfJoin`), and each `Flow...` lemma is one way in which a step
changes a line; one lemma per action then says what it does to both directions. That
a stream in frames begins with a whole frame or is shorter than one (`FirstFrame`)
is an induction over positions, done with the least position that begins a frame.

`ConnectionImplementsChannel` (`ImplementsChannel`): the two ends are a `Channel`, step
by step. Of the channel's state `conn`, `queued` and `taken` are the code's; `used` is
`opened` or `accepted`, `lossy` is `Lossy`, and `way` is `ToRead`: the ranks in the
reader's queue and stream and in the network, those in the sender's stream and queue as
long as they can still be sent (`Served`), and none once the reader failed.

* `Slips(k)` says what all the inner steps of `update` have in common: the owners' part
  of the state stays, no connection stops being lossy, no other than `k` becomes it,
  and on `k` alone messages may vanish. One lemma per action shows it; most move units
  along a line (`IdsOfParts`). `SlipIsLoss` makes of it `Lose(k)` or a stutter: if `k`
  is not lossy by then, nothing was missing before the step or after it.
* The owners' calls are exact: `Queue` adds one rank, or none if the other end is not
  on the connection or the path or that end has failed (`QueueStep`); `Read` takes the least
  rank left, since ranks rise along a line (`OldestFirst`, from `Flow`); `Open` finds on
  its way exactly what the other end queued before it came, unless the connection is
  lossy (`ConnectStep`, `AcceptStep`); `Close` leaves nothing (`CloseStep`).
* One fact is new: `Left`, that an end is on the last connection it began or has closed
  it, so that an end whose peer has left is on a lossy connection. With it
  `NotLossyIsIntact` draws from `Flow` that what can be read on a connection that is not
  lossy is all that was queued and not read.

**`PingersProofs`.** For any number of sites, any clock and any bound on losses
and duplicates:

* `PingsMeasuredOnce` (`MeasuredOnce`). Inductive is `Ranked`: the pings measured
  at a site rise and are below `NextPing`, the first that may still be measured,
  which is the last one sent while it is waited for or its time is still to be
  taken, and the one after it in every other state.
* `RepliesAreOwn` (`NoForeignReply`). Inductive is `Lone`: a site of which nothing
  was doubled has one datagram at most, in flight or received, it is that of the
  last ping, and there is none unless the socket is in `ping_sent`; "nothing was
  doubled" is also "no wait for a reply failed", since a failed one leaves a datagram
  to the next ping just as a doubled one does (`StrayAt`).
* `TypeCorrect` (`TypeOK`): the history never outgrows `HistorySize`, the sums stay
  within `MaxUint`, a call reads five statistics at most before it returns. The
  inductive `Types` adds that the time of a received ping was measured, and that
  outside a call nothing has been read.
* `StatisticsAreThoseOfTheTimes` (`StatisticsMatch`). Inductive is `Matched`: while the
  times since the last reset are sane (no clock set back, the sum fits), the six
  statistics are the ones `Tells` says they have. A new time (`RecordMatches`) either
  comes after a reset or leaves times that were sane before, since all are at least 0
  (`SaneBefore`); `OneMoreTold` then has one lemma per statistic: the sum (`SumOfMore`),
  the bounds (`BoundsOfMore`), the history, which drops its oldest time or not
  (`HistoryOfMore`). The median needs no invariant: `MedianIsMiddle` says, for every
  history, that the central value or values of the sorted times are the least time half
  of them do not exceed and the greatest half of them reach; it rests on a sorted order
  that exists (`SortExists`, each time at its rank) and on how many times lie on either
  side of a place in it (`CountsOfOrder`).
* `OneCallReadsWhatFits` (`ReadsFit`). Inductive is `ReadsAgree`: during a call, unless
  `torn`, what was read lies between the bounds the pinger has now, and between those
  read. An update in between leaves a longer sequence of times, so wider bounds
  (`BoundsWiden`, from `Matched` before and after the step, whichever step it is); a read
  of a bound turns "the bounds of now" into "the bound read". In another order it would
  be false, as the run's mutant with the bounds first shows.

`Sum` is a recursive function. That it exists, and that the sums of a prefix are the
prefix of the sums, is shown by the least length at which it would fail (`LeastNat`,
`SumsExist`, `SumsAgree`); `Sorted` is stated by what it is, a permutation in order, and
not by an algorithm, which could not be expanded in a proof.

An update of a site leaves the others alone (`Apart`), and a lemma reduces the
invariant to that site.

**`ClientProofs`.** For any messages, capacity and bounds:

* `TypeCorrect`, and in it that the outgoing queue never exceeds its capacity;
* `CleanStart` (`StartsClean`) and `DelayKept` (`AttemptWaits`), from two more
  conjuncts: an update under way has a connection (`UpdateConnected`), and a
  refusal on record has no connection and its time noted or over
  (`RefusalNoted`);
* `AnnouncedOncePerConnection` (`AnnouncedOnce`). Inductive is `Informs`, which
  says for each place of `Agent::update` which of the two messages are still to be
  said (`ToSay`): those are not queued yet and no message under the agent's mutex
  is, and the others are queued once or were refused by a full queue.

**`GameProofs`.** For any counts, allocations and numbers of messages:
`TypeCorrect`, which includes that the count of players stays in its range and that
`starting` is never reported (the messages still to send may be any integer, as the
arguments may), and `MatchMeansAllocated` (`MatchIsAllocated`). `Started` is added to make
it inductive: past `update_startup` the matchmaking status is never `none`.

**`SitesGetterProofs`.** For any sites and payloads: `TypeCorrect`, with at most
one request under way; `WaitsExactly` (`WaitsForAnswer`), with `Unborn` for the
time before creation; and `PlacesKept` (`PingerHasItsSite`), with `ListFits`: the
game's list is empty or has the sites' addresses of its family, place by place.
An answer comes only to a getter that waits, which has no sites, and one that has
sites asks no more: so the sites, once there, never change.

**`DocumentsProofs`.** For any handles, keys, texts, numbers and payloads of the agent
that are JSON (`AlienAssumption`):

* `TypeCorrect` (`TypeOK`): objects have keys and arrays positions whatever is set,
  removed or copied, and what has been JSON holds no pointer. Inductive is `Filed`,
  which has the same with sets of documents, so that what a step makes of them can be
  said with the operators of sets and sequences.
* `PreparedArrives` (`ArrivesAsPrepared`). Inductive is `Carries`, about a message
  under way: a prepared one is valid, and the parameters that validation reads of it are
  what it was made of, or agree with that once it has been JSON; of the other keys, those
  of the additional data, nothing is asked. A payload agrees with its reading at each of the three
  levels a message can have (a payload, an array in it, a document in that); that the
  payload passes the validation follows, since reading keeps keys and types.

Nesting is written out level by level, and not as a recursive operator, because of the
prover; a game's documents nest two levels (`Settable`), the bound named there.

**Only model-checked**: liveness (`HandshakeCompletes`, `Delivered`, `UpdateReturns`,
`StateReachesClient`, `AllUpdated`, `AnsweredUnlessLost`, `Reconnects`, `MatchEnds`,
`LiveStateFollows`, `StopsWhenTold`, `GetsReady`). Liveness under fairness and `ENABLED`
are out of this prover's reach and stay with TLC. Every other property of a passing run
is a theorem.

## 6. What is not modelled, and why

* JSON's syntax, the layout of the header, byte order: pure functions with unit
  tests of their own. `Documents` has what JSON carries, not how it is written.
* Getters of single values, and a change of a document while a message made of it
  is under way (the message holds copies, or pointers whose text is any already).
* Two HTTP answers to one request: the hook is assumed to answer once.
* What the race of `send_reverse_metadata` does to the memory of the messages being
  copied, beside which messages the client gets.
* The overflow of the game's `int` counters beyond the bounds.
* Errors of a TCP socket's `select` (those of a ping's are `SelectFails` and
  `ReceiveFails`), of socket options and of allocations, apart from the
  outcome `blocked` of `one_server_create` (`server.cpp` 97: `init` calls
  `shutdown` with the mutex held).
* A peer that does not speak the protocol: both ends follow `connection.cpp`.
* Two servers in one process: their connections share the packet counter and the two
  transfer buffers (function-local statics, `connection.cpp` 577), so that updates from
  two threads race on them.
* `init` of an object that is already initialized: the C API cannot reach it.
* An `update` from inside a callback of the same thread: it is the `update` of
  another thread as far as the state goes.
* The setters of callbacks, which write one `std::function` each.
* The 64-bit counters, which do not wrap in practice.
* Windows branches, the tests, and the examples' printing and HTTP library.
* rapidjson (two copies) and Catch2. About two thirds of the implementation lines of
  the repository are this vendored code, which no module models: the SDK's behaviour
  depends on it only as `Documents` and `SitesGetter` say. Of what is left, the
  error tables, the version, the allocator and logger hooks, the pointer checks of
  the two C APIs and the wrappers of the C API in `fake` keep no state. So the map
  covers the stateful code, a small share of all lines.

## 7. Plan

Done: the ring, the connection, the server, the pingers, in this order, since
everything rests on the message queue and the protocol is the core; then the client
with its agent, the game, the list of sites, and the messages' documents; the channel
as the abstract promise of the connection; and proofs of all their safety properties.

Left: two servers in one process, which share the static buffers of `connection.cpp`
577; and the composition of `Server` and `Client` over `Channel`, which `Channel` was
written for.

## 8. Running it

    tlc -config ConnSafety.cfg MCConnection     (and so on, see PROJECT.json)
    tlapm RingProofs.tla
    tlapm ServerProofs.tla                      (and the other modules *Proofs)
