------------------------------- MODULE Pinger -------------------------------
(***************************************************************************)
(* The pingers of the i3D ping client (one/ping/internal/pinger.cpp), each *)
(* with its UDP socket (udp_socket.cpp) and the network to the site it     *)
(* pings.  A socket sends one numbered ping at a time and waits for the    *)
(* reply, which mirrors it; the pinger turns the replies into statistics.  *)
(* An action is one Pinger::update(), or a step of the network, which may  *)
(* lose, delay, reorder and duplicate datagrams.                           *)
(***************************************************************************)
EXTENDS Integers, Sequences, FiniteSets, SequencesExt

CONSTANTS
  Sites,        (* number of addresses in the list                         *)
  Elapsed,      (* what the clock can say a round trip took; less than 0   *)
                (* when it was set back meanwhile: CLOCK_REALTIME          *)
  HistorySize,  (* I3D_PING_MEDIAN_HISTORY_SIZE (pinger.cpp 6: 10)         *)
  MaxUint,      (* largest unsigned int                                    *)
  MaxPings,     (* bound: the pings each socket sends                      *)
  MaxLost,      (* bound: datagrams the network loses                      *)
  MaxDoubled,   (* bound: datagrams it duplicates                          *)
  MaxAbandoned  (* bound: sockets that fail while they wait for a reply    *)

Site == 1 .. Sites

ASSUME PingerAssumption ==
  /\ Sites \in Nat
  /\ Elapsed \subseteq Int
  /\ HistorySize \in Nat \ {0}
  /\ MaxUint \in Nat \ {0}
  /\ MaxPings \in [Site -> Nat]
  /\ MaxLost \in Nat
  /\ MaxDoubled \in Nat
  /\ MaxAbandoned \in Nat

VARIABLES
  socket,    (* _status of each socket                                     *)
  counter,   (* its _counter: the number of its last ping                  *)
  time,      (* its _time_milliseconds                                     *)
  last, total, count, min, max, history,  (* the statistics of a pinger    *)
  err,       (* the error its last update returned, "none" if none         *)
  flying,    (* pings or their replies in the network                      *)
  replies,   (* replies in the socket's receive buffer, oldest first       *)
  lost,      (* pings that were lost, or their reply                       *)
  doubled,   (* pings that were duplicated, or their reply                 *)
  abandoned, (* history: pings whose socket failed while it waited         *)
  samples    (* history: what was measured since the statistics were reset *)

udp     == <<socket, counter, time>>
stats   == <<last, total, count, min, max, history>>
network == <<flying, replies, lost, doubled, abandoned>>
pingerVars == <<udp, stats, err, network, samples>>

PingerInit ==
  /\ socket = [i \in Site |-> "initialized"]
  /\ counter = [i \in Site |-> 0]
  /\ time = [i \in Site |-> 0]
  /\ last = [i \in Site |-> -1]
  /\ total = [i \in Site |-> 0]
  /\ count = [i \in Site |-> 0]
  /\ min = [i \in Site |-> -1]
  /\ max = [i \in Site |-> -1]
  /\ history = [i \in Site |-> <<>>]
  /\ err = [i \in Site |-> "none"]
  /\ flying = [i \in Site |-> {}]
  /\ replies = [i \in Site |-> <<>>]
  /\ lost = {}
  /\ doubled = {}
  /\ abandoned = {}
  /\ samples = [i \in Site |-> <<>>]

-----------------------------------------------------------------------------
(* The network and the site, which mirrors a ping with two bytes zeroed.   *)

Deliver(i, n) ==
  /\ n \in flying[i]
  /\ replies' = [replies EXCEPT ![i] = Append(@, n)]
  /\ flying' = [flying EXCEPT ![i] = @ \ {n}]
  /\ UNCHANGED <<udp, stats, err, lost, doubled, abandoned, samples>>

Double(i, n) ==
  /\ n \in flying[i]
  /\ Cardinality(doubled) < MaxDoubled
  /\ doubled' = doubled \cup {<<i, n>>}
  /\ replies' = [replies EXCEPT ![i] = Append(@, n)]
  /\ UNCHANGED <<udp, stats, err, flying, lost, abandoned, samples>>

Lose(i, n) ==
  /\ n \in flying[i]
  /\ Cardinality(lost) < MaxLost
  /\ lost' = lost \cup {<<i, n>>}
  /\ flying' = [flying EXCEPT ![i] = @ \ {n}]
  /\ UNCHANGED <<udp, stats, err, replies, doubled, abandoned, samples>>

-----------------------------------------------------------------------------
(* The statistics.                                                         *)

(* A reset() that leaves the smallest time as it is. *)
ResetKeepsMin(i) ==
  /\ last' = [last EXCEPT ![i] = -1]
  /\ total' = [total EXCEPT ![i] = 0]
  /\ count' = [count EXCEPT ![i] = 0]
  /\ max' = [max EXCEPT ![i] = -1]
  /\ history' = [history EXCEPT ![i] = <<>>]
  /\ samples' = [samples EXCEPT ![i] = <<>>]
  /\ UNCHANGED min

\* Pinger::reset().
Reset(i) ==
  /\ last' = [last EXCEPT ![i] = -1]
  /\ total' = [total EXCEPT ![i] = 0]
  /\ count' = [count EXCEPT ![i] = 0]
  /\ min' = [min EXCEPT ![i] = -1]
  /\ max' = [max EXCEPT ![i] = -1]
  /\ history' = [history EXCEPT ![i] = <<>>]
  /\ samples' = [samples EXCEPT ![i] = <<>>]

(* A history that keeps all times. *)
KeepAll(h) == h

\* A full history drops its oldest time.
Keep(h) == IF Len(h) = HistorySize THEN Tail(h) ELSE h

\* Too big for unsigned int, as pinger.cpp 33 tells it.
Full(i) == total[i] = MaxUint \/ count[i] = MaxUint

(***************************************************************************)
(* The first half of Pinger::update(), when the socket has a time: reset() *)
(* if the sums are full, then the new time t is taken into all statistics. *)
(***************************************************************************)
Record(i, t) ==
  LET Since(old, start) == IF Full(i) THEN start ELSE old
      low == Since(min[i], -1)
      h == Since(history[i], <<>>)
  IN /\ last' = [last EXCEPT ![i] = t]
     /\ total' = [total EXCEPT ![i] = (Since(@, 0) + t) % (MaxUint + 1)]
     /\ count' = [count EXCEPT ![i] = Since(@, 0) + 1]
     /\ max' = [max EXCEPT ![i] = Max({Since(@, -1), t})]
     /\ min' = [min EXCEPT ![i] = IF low = -1 \/ t < low THEN t ELSE low]
     /\ history' = [history EXCEPT ![i] = Append(Keep(h), t)]
     /\ samples' = [samples EXCEPT ![i] =
                      Append(Since(@, <<>>), [ping |-> counter[i], time |-> t])]

-----------------------------------------------------------------------------
(* Pinger::update(), by what UdpSocket::update() finds.                    *)

Succeeds(i) == err' = [err EXCEPT ![i] = "none"]

\* UdpSocket::update() returns an error, which resets the statistics.
Fails(i, x) ==
  /\ socket' = [socket EXCEPT ![i] = "error"]
  /\ err' = [err EXCEPT ![i] = x]
  /\ Reset(i)

(* A socket that keeps the time it has reported. *)
TakeTimeOnly(i) ==
  /\ socket[i] = "ping_received"
  /\ Record(i, time[i])
  /\ UNCHANGED <<udp, network>>
  /\ Succeeds(i)

\* A reply was received by the last update: its time is recorded, and the
\* socket reset().
TakeTime(i) ==
  /\ socket[i] = "ping_received"
  /\ Record(i, time[i])
  /\ socket' = [socket EXCEPT ![i] = "initialized"]
  /\ Succeeds(i)
  /\ UNCHANGED <<counter, time, network>>

(* A socket that stays in error. *)
RecoverFails(i) ==
  /\ socket[i] = "error"
  /\ Fails(i, "SOCKET_CANNOT_BE_RESET")
  /\ UNCHANGED <<counter, time, network>>

\* The last update failed: reset().
Recover(i) ==
  /\ socket[i] = "error"
  /\ socket' = [socket EXCEPT ![i] = "initialized"]
  /\ Succeeds(i)
  /\ UNCHANGED <<counter, time, stats, network, samples>>

CanSend(i) == socket[i] = "initialized" /\ counter[i] < MaxPings[i]

SendPing(i) ==
  /\ CanSend(i)
  /\ counter' = [counter EXCEPT ![i] = @ + 1]
  /\ flying' = [flying EXCEPT ![i] = @ \cup {counter[i] + 1}]
  /\ socket' = [socket EXCEPT ![i] = "ping_sent"]
  /\ Succeeds(i)
  /\ UNCHANGED <<time, stats, replies, lost, doubled, abandoned, samples>>

(* A status that is set before it is known whether the ping was sent. *)
SendFailsAfterStatus(i) ==
  /\ CanSend(i)
  /\ counter' = [counter EXCEPT ![i] = @ + 1]
  /\ socket' = [socket EXCEPT ![i] = "ping_sent"]
  /\ err' = [err EXCEPT ![i] = "SOCKET_SEND_FAIL"]
  /\ Reset(i)
  /\ UNCHANGED <<time, network>>

\* ::sendto fails, after the counter was incremented.
SendFails(i) ==
  /\ CanSend(i)
  /\ counter' = [counter EXCEPT ![i] = @ + 1]
  /\ Fails(i, "SOCKET_SEND_FAIL")
  /\ UNCHANGED <<time, network>>

\* ready_for_send(): select() fails, before the counter was incremented.
SelectFails(i) ==
  /\ socket[i] = "initialized"
  /\ Fails(i, "SOCKET_SELECT_FAILED")
  /\ UNCHANGED <<counter, time, network>>

\* The socket is not ready for sending.
SendLater(i) ==
  /\ socket[i] = "initialized"
  /\ Succeeds(i)
  /\ UNCHANGED <<udp, stats, network, samples>>

(* A wait that gives up and pings again. *)
WaitGivesUp(i) ==
  /\ socket[i] = "ping_sent"
  /\ replies[i] = <<>>
  /\ socket' = [socket EXCEPT ![i] = "initialized"]
  /\ Succeeds(i)
  /\ UNCHANGED <<counter, time, stats, network, samples>>

\* No datagram has arrived.
WaitForReply(i) ==
  /\ socket[i] = "ping_sent"
  /\ replies[i] = <<>>
  /\ Succeeds(i)
  /\ UNCHANGED <<udp, stats, network, samples>>

\* receive_ping(): the oldest datagram mirrors the ping; the round trip is
\* divided by two.
ReceiveReply(i) ==
  /\ socket[i] = "ping_sent"
  /\ replies[i] # <<>>
  /\ Head(replies[i]) = counter[i]
  /\ \E e \in Elapsed : time' = [time EXCEPT ![i] = e \div 2]
  /\ replies' = [replies EXCEPT ![i] = Tail(@)]
  /\ socket' = [socket EXCEPT ![i] = "ping_received"]
  /\ Succeeds(i)
  /\ UNCHANGED <<counter, stats, flying, lost, doubled, abandoned, samples>>

\* ... or does not.
ReceiveOther(i) ==
  /\ socket[i] = "ping_sent"
  /\ replies[i] # <<>>
  /\ Head(replies[i]) # counter[i]
  /\ replies' = [replies EXCEPT ![i] = Tail(@)]
  /\ Fails(i, "SOCKET_INVALID_REPLY")
  /\ UNCHANGED <<counter, time, flying, lost, doubled, abandoned>>

\* select() or recvfrom() fails: the ping is given up, its reply may still come.
ReceiveFails(i) ==
  /\ socket[i] = "ping_sent"
  /\ Cardinality(abandoned) < MaxAbandoned
  /\ Fails(i, "SOCKET_RECEIVE_ERROR")
  /\ abandoned' = abandoned \cup {<<i, counter[i]>>}
  /\ UNCHANGED <<counter, time, flying, replies, lost, doubled>>

-----------------------------------------------------------------------------
(* What a caller is told: <<>> when the statistic is invalid.              *)

Told(t) == IF t < 0 THEN <<>> ELSE <<t>>

\* compute_average(), as the fraction it computes.
Average(i) == IF total[i] = 0 THEN <<>> ELSE <<total[i], count[i]>>

\* The times of h in ascending order, as std::sort leaves a copy of them.
Sorts(p, h) == \A j, k \in DOMAIN h : j < k => h[p[j]] <= h[p[k]]

Sorted(h) ==
  LET p == CHOOSE p \in Bijection(DOMAIN h, DOMAIN h) : Sorts(p, h)
  IN [k \in DOMAIN h |-> h[p[k]]]

\* compute_median(), times two: the central value, or the two central ones.
Median2(h) ==
  LET sample == Sorted(h)
      n == Len(h)
  IN IF n % 2 = 0 THEN sample[n \div 2] + sample[n \div 2 + 1]
     ELSE 2 * sample[n \div 2 + 1]

Median(i) == IF history[i] = <<>> THEN <<>> ELSE <<Median2(history[i])>>
=============================================================================
