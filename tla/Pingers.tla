------------------------------- MODULE Pingers -------------------------------
(***************************************************************************)
(* Pingers (one/ping/pingers.cpp): one mutex over the pingers of all       *)
(* addresses.  update() updates them in their order, up to the first that  *)
(* fails.  Another thread asks for the statistics of one of them, which    *)
(* i3d_ping_pingers_statistics() (c_api.cpp) reads one by one, with the    *)
(* mutex taken for each.                                                   *)
(***************************************************************************)
EXTENDS Pinger

CONSTANT MaxAsks  (* bound: calls of i3d_ping_pingers_statistics() on each  *)
ASSUME AsksAssumption == MaxAsks \in [Site -> Nat]

VARIABLES
  at,     (* the pinger that update() is at, 0 outside of it               *)
  asked,  (* the pinger whose statistics are being read, 0 if none         *)
  got,    (* what has been read of them, each with its name                *)
  torn,   (* history: they were reset, or no longer Sane, meanwhile        *)
  asks    (* calls so far                                                  *)

reader == <<asked, got, torn, asks>>
vars == <<pingerVars, at, reader>>

Init ==
  /\ PingerInit
  /\ at = 0
  /\ asked = 0
  /\ got = <<>>
  /\ torn = FALSE
  /\ asks = [i \in Site |-> 0]

Times(i) == [k \in DOMAIN samples[i] |-> samples[i][k].time]
Sum(s) ==
  LET sum[n \in 0 .. Len(s)] == IF n = 0 THEN 0 ELSE sum[n - 1] + s[n]
  IN sum[Len(s)]

\* No clock was set back, and the sum of the times fits unsigned int.
Sane(i) ==
  /\ \A k \in DOMAIN samples[i] : samples[i][k].time >= 0
  /\ Sum(Times(i)) <= MaxUint

-----------------------------------------------------------------------------
BeginUpdate ==
  /\ at = 0
  /\ Sites > 0
  /\ at' = 1
  /\ UNCHANGED <<pingerVars, reader>>

\* The loop of update() goes on to the next pinger, or ends at an error.
Turn(i) ==
  /\ at = i
  /\ at' = IF err'[i] = "none" /\ i < Sites THEN i + 1 ELSE 0
  /\ torn' = (torn \/ (asked = i /\ ~(IsPrefix(samples[i], samples'[i]) /\ Sane(i)')))
  /\ UNCHANGED <<asked, got, asks>>

-----------------------------------------------------------------------------
(* i3d_ping_pingers_statistics(), which stops at one that is invalid.      *)

Statistic(i) ==
  [last |-> Told(last[i]), average |-> Average(i), min |-> Told(min[i]),
   max |-> Told(max[i]), median |-> Median(i), count |-> <<count[i]>>]

(* An order in which the bounds are read first. *)
BoundsFirst == <<"min", "max", "last", "average", "median", "count">>

Order == <<"last", "average", "min", "max", "median", "count">>

\* The call reads the next of them, and returns after the last.
Read(i, k) ==
  LET x == Statistic(i)[Order[k]] IN
  IF x = <<>> \/ k = Len(Order)
    THEN asked' = 0 /\ got' = <<>> /\ torn' = FALSE
    ELSE /\ asked' = i
         /\ got' = Append(got, <<Order[k], x>>)
         /\ torn' = IF k = 1 THEN ~Sane(i) ELSE torn

Ask(i) ==
  /\ asked = 0
  /\ at = 0
  /\ asks[i] < MaxAsks[i]
  /\ asks' = [asks EXCEPT ![i] = @ + 1]
  /\ Read(i, 1)
  /\ UNCHANGED <<pingerVars, at>>

ReadNext ==
  /\ asked # 0
  /\ at = 0
  /\ Read(asked, Len(got) + 1)
  /\ UNCHANGED <<pingerVars, at, asks>>

-----------------------------------------------------------------------------
Next ==
  \/ BeginUpdate
  \/ ReadNext
  \/ \E i \in Site :
       \/ Ask(i)
       \/ \E n \in flying[i] :
            \/ Deliver(i, n) /\ UNCHANGED <<at, reader>>
            \/ Double(i, n) /\ UNCHANGED <<at, reader>>
            \/ Lose(i, n) /\ UNCHANGED <<at, reader>>
       \/ TakeTime(i) /\ Turn(i)
       \/ Recover(i) /\ Turn(i)
       \/ SendPing(i) /\ Turn(i)
       \/ SendFails(i) /\ Turn(i)
       \/ SelectFails(i) /\ Turn(i)
       \/ SendLater(i) /\ Turn(i)
       \/ WaitForReply(i) /\ Turn(i)
       \/ ReceiveReply(i) /\ Turn(i)
       \/ ReceiveOther(i) /\ Turn(i)
       \/ ReceiveFails(i) /\ Turn(i)

Spec == Init /\ [][Next]_vars

(***************************************************************************)
(* The game calls update() again and again (c_api.h 313: "must be called   *)
(* frequently"), an update goes through its pingers, and a datagram that   *)
(* is not lost arrives.                                                    *)
(***************************************************************************)
Fairness ==
  /\ WF_vars(BeginUpdate)
  /\ \A i \in Site :
       /\ WF_vars((TakeTime(i) \/ Recover(i) \/ SendPing(i) \/ SendFails(i) \/ SelectFails(i)
                   \/ SendLater(i) \/ WaitForReply(i) \/ ReceiveReply(i) \/ ReceiveOther(i)
                   \/ ReceiveFails(i)) /\ Turn(i))
       /\ WF_vars(\E n \in flying[i] : Deliver(i, n) /\ UNCHANGED <<at, reader>>)

FairSpec == Spec /\ Fairness

-----------------------------------------------------------------------------
Errors ==
  {"none", "SOCKET_SEND_FAIL", "SOCKET_SELECT_FAILED", "SOCKET_RECEIVE_ERROR",
   "SOCKET_INVALID_REPLY"}
Time == {e \div 2 : e \in Elapsed}
Ping(i) == 1 .. MaxPings[i]

\* Type invariant.  The history never outgrows HistorySize (pinger.cpp 55).
TypeOK ==
  /\ socket \in [Site -> {"initialized", "ping_sent", "ping_received", "error"}]
  /\ \A i \in Site :
       /\ counter[i] \in 0 .. MaxPings[i]
       /\ time[i] \in Time \cup {0}
       /\ {last[i], min[i], max[i]} \subseteq Time \cup {-1}
       /\ total[i] \in 0 .. MaxUint
       /\ count[i] \in 0 .. MaxUint
       /\ history[i] \in Seq(Time) /\ Len(history[i]) <= HistorySize
       /\ flying[i] \subseteq Ping(i)
       /\ replies[i] \in Seq(Ping(i))
  /\ err \in [Site -> Errors]
  /\ at \in 0 .. Sites
  /\ asked \in 0 .. Sites
  /\ Len(got) <= 5
  /\ torn \in BOOLEAN
  /\ \A i \in Site : asks[i] \in 0 .. MaxAsks[i]

(***************************************************************************)
(* The six statistics, kept one by one by update() (pinger.cpp 29-60), are *)
(* those of the times measured since the last error or the last overflow,  *)
(* and compute_median() (193-213) returns the middle of the history as     *)
(* statistics define it: the mean of the least time that half of them do   *)
(* not exceed and the greatest that half of them reach.                    *)
(***************************************************************************)
StatisticsMatch ==
  \A i \in Site :
    LET s == Times(i)
        n == Len(s)
        values == {s[k] : k \in 1 .. n}
        h == history[i]
        below == {v \in Time : 2 * Cardinality({k \in DOMAIN h : h[k] <= v}) >= Len(h)}
        above == {v \in Time : 2 * Cardinality({k \in DOMAIN h : h[k] >= v}) >= Len(h)}
    IN /\ h # <<>> => Median(i) = <<Min(below) + Max(above)>>
       /\ Sane(i) =>
            /\ count[i] = n
            /\ total[i] = Sum(s)
            /\ last[i] = IF n = 0 THEN -1 ELSE s[n]
            /\ min[i] = IF n = 0 THEN -1 ELSE Min(values)
            /\ max[i] = IF n = 0 THEN -1 ELSE Max(values)
            /\ h = SubSeq(s, Max({1, n - HistorySize + 1}), n)

(***************************************************************************)
(* A ping is measured at most once (udp_socket.cpp 62-75, pinger.cpp 29),  *)
(* whatever was lost, doubled or late.                                     *)
(***************************************************************************)
MeasuredOnce ==
  \A i \in Site : \A j, k \in DOMAIN samples[i] :
    j < k => samples[i][j].ping < samples[i][k].ping

(***************************************************************************)
(* A reply is always that of the last ping (udp_socket.cpp 246), unless a  *)
(* datagram was doubled or the socket failed while it waited for a reply:  *)
(* nothing else, such as a ping that could not be sent, leaves a reply     *)
(* behind that is taken for the answer to a later ping.                    *)
(***************************************************************************)
NoForeignReply ==
  \A i \in Site :
    err[i] = "SOCKET_INVALID_REPLY" =>
      \E n \in Ping(i) : <<i, n>> \in doubled \cup abandoned

(***************************************************************************)
(* The statistics one call returns fit together (c_api.cpp 519-547), even  *)
(* when updates come between the reads: the last and the average time lie  *)
(* between the smallest and the largest.                                   *)
(***************************************************************************)
ReadsFit ==
  ~torn =>
    \A low, high, x \in ToSet(got) :
      low[1] = "min" /\ high[1] = "max" =>
        /\ x[1] = "last" => low[2][1] <= x[2][1] /\ x[2][1] <= high[2][1]
        /\ x[1] = "average" => /\ low[2][1] * x[2][2] <= x[2][1]
                              /\ x[2][1] <= high[2][1] * x[2][2]

(***************************************************************************)
(* An error of one pinger, which ends the update (pingers.cpp 66), does    *)
(* not keep those behind it from being updated.                            *)
(***************************************************************************)
AllUpdated == \A i \in Site : []<>(at = i)

(***************************************************************************)
(* A ping that was sent is answered, unless it was lost.                   *)
(***************************************************************************)
AnsweredUnlessLost ==
  \A i \in Site :
    socket[i] = "ping_sent" ~>
      socket[i] # "ping_sent" \/ \E n \in Ping(i) : <<i, n>> \in lost
=============================================================================
