----------------------------- MODULE PingersProofs -----------------------------
(***************************************************************************)
(* Pingers for every number of sites, every clock and every bound on what  *)
(* the network does: a ping is measured at most once, a reply that is not  *)
(* that of the last ping is one of a ping that was doubled or given up, the*)
(* statistics are those of the times measured, and those one call returns  *)
(* fit together.                                                           *)
(*                                                                         *)
(* `Ranked' is the argument of the first: what was measured is in the order*)
(* of the pings, and a ping whose time is still to come is later than all  *)
(* of it.  `Lone' is that of the second: of a site none of whose pings was *)
(* doubled or given up there is one datagram at most, while its socket     *)
(* waits for it.                                                           *)
(*                                                                         *)
(* `Matched' says which statistics sane times have; the sum, which is      *)
(* computed step by step, is reasoned about by the least length that would *)
(* not have it.  `ReadsAgree' keeps, during a call, what was read between  *)
(* the bounds as they are now: these only widen until the call is over.    *)
(***************************************************************************)
EXTENDS Pingers, SequenceTheorems, FiniteSetTheorems, FunctionTheorems,
        WellFoundedInduction, TLAPS

Sample == [ping : Nat, time : Int]

Shape ==
  /\ socket \in [Site -> {"initialized", "ping_sent", "ping_received", "error"}]
  /\ err \in [Site -> Errors]
  /\ counter \in [Site -> Nat]
  /\ time \in [Site -> Int]
  /\ flying \in [Site -> SUBSET Nat]
  /\ replies \in [Site -> Seq(Nat)]
  /\ samples \in [Site -> Seq(Sample)]
  /\ doubled \subseteq Site \X Nat
  /\ abandoned \subseteq Site \X Nat

\* The pings of a sequence of samples rise, up to less than n.
RisesTo(s, n) ==
  /\ \A j, k \in DOMAIN s : j < k => s[j].ping < s[k].ping
  /\ \A k \in DOMAIN s : s[k].ping < n

\* The first ping that may still be measured.
NextPing(i) ==
  IF socket[i] \in {"ping_sent", "ping_received"} THEN counter[i] ELSE counter[i] + 1

Ranked == \A i \in Site : RisesTo(samples[i], NextPing(i))

\* A reply of site i may be left over.
StrayAt(i) == \E n \in Ping(i) : <<i, n>> \in doubled \cup abandoned

Alone(i) ==
  /\ \/ flying[i] = {} /\ replies[i] = <<>>
     \/ flying[i] = {counter[i]} /\ replies[i] = <<>>
     \/ flying[i] = {} /\ replies[i] = <<counter[i]>>
  /\ socket[i] # "ping_sent" => flying[i] = {} /\ replies[i] = <<>>

\* A socket that waits has sent a ping.
InRange(i) ==
  /\ counter[i] <= MaxPings[i]
  /\ socket[i] = "ping_sent" => counter[i] > 0
  /\ \A n \in flying[i] : n \in Ping(i)

Lone ==
  \A i \in Site :
    /\ InRange(i)
    /\ StrayAt(i) \/ Alone(i)
    /\ err[i] = "SOCKET_INVALID_REPLY" => StrayAt(i)

Inv == Shape /\ Ranked /\ Lone

-----------------------------------------------------------------------------
\* What happens at one site leaves the others as they are.
Apart(i) ==
  \A j \in Site \ {i} :
    /\ socket'[j] = socket[j] /\ err'[j] = err[j] /\ counter'[j] = counter[j]
    /\ flying'[j] = flying[j] /\ replies'[j] = replies[j] /\ samples'[j] = samples[j]

\* ... and the invariant is to be shown of that site alone.
LEMMA OneSite ==
  ASSUME Inv, Shape', NEW i \in Site, Apart(i),
         doubled \subseteq doubled', abandoned \subseteq abandoned',
         RisesTo(samples'[i], NextPing(i)'), InRange(i)',
         StrayAt(i)' \/ Alone(i)',
         err'[i] = "SOCKET_INVALID_REPLY" => StrayAt(i)'
  PROVE  Inv'
<1>1. \A j \in Site : StrayAt(j) => StrayAt(j)'
  BY DEF StrayAt, Ping
<1>2. Ranked'
  <2> SUFFICES ASSUME NEW j \in Site PROVE RisesTo(samples'[j], NextPing(j)')
    BY DEF Ranked
  <2>1. CASE j # i
    <3>1. samples'[j] = samples[j] /\ NextPing(j)' = NextPing(j)
      BY <2>1 DEF Apart, NextPing
    <3> QED  BY <3>1 DEF Inv, Ranked
  <2> QED  BY <2>1
<1>3. Lone'
  <2> SUFFICES ASSUME NEW j \in Site
               PROVE  /\ InRange(j)'
                      /\ StrayAt(j)' \/ Alone(j)'
                      /\ err'[j] = "SOCKET_INVALID_REPLY" => StrayAt(j)'
    BY DEF Lone
  <2>1. CASE j # i
    BY <1>1, <2>1 DEF Inv, Lone, Apart, InRange, Alone, Ping
  <2> QED  BY <2>1
<1> QED  BY <1>2, <1>3 DEF Inv

LEMMA BoundsOfPings ==
  /\ \A i \in Site : MaxPings[i] \in Nat
  /\ \A e \in Elapsed : e \div 2 \in Int
<1>1. MaxPings \in [Site -> Nat] /\ Elapsed \subseteq Int
  BY PingerAssumption
<1>2. \A e \in Int : e \div 2 \in Int
  OBVIOUS
<1> QED  BY <1>1, <1>2

LEMMA InitInv == Init => Inv
<1> SUFFICES ASSUME Init PROVE Inv
  OBVIOUS
<1> USE PingerAssumption DEF Init, PingerInit
<1>1. Shape
  BY DEF Shape, Errors, Sample
<1>2. Ranked
  BY DEF Ranked, RisesTo
<1>3. Lone
  BY DEF Lone, InRange, Alone, Ping
<1> QED  BY <1>1, <1>2, <1>3 DEF Inv

-----------------------------------------------------------------------------
(* The network.                                                            *)

LEMMA DeliverPreserves ==
  ASSUME Inv, NEW i \in Site, NEW n \in flying[i], Deliver(i, n)
  PROVE  Inv'
<1> USE DEF Inv, Shape, Deliver, udp, stats
<1>1. Shape' /\ Apart(i)
  BY DEF Apart
<1>2. RisesTo(samples'[i], NextPing(i)') /\ InRange(i)'
  BY DEF Ranked, NextPing, Lone, InRange, Ping
<1>3. StrayAt(i)' \/ Alone(i)'
  <2>1. CASE StrayAt(i)
    BY <2>1 DEF StrayAt, Ping
  <2>2. CASE Alone(i)
    <3>1. flying[i] = {counter[i]} /\ replies[i] = <<>> /\ n = counter[i]
      BY <2>2 DEF Alone
    <3>2. socket[i] = "ping_sent" /\ flying'[i] = {} /\ replies'[i] = Append(<<>>, n)
      BY <2>2, <3>1 DEF Alone
    <3>3. Append(<<>>, n) = <<n>>
      OBVIOUS
    <3> QED  BY <3>1, <3>2, <3>3 DEF Alone
  <2> QED  BY <2>1, <2>2 DEF Lone
<1>4. err'[i] = "SOCKET_INVALID_REPLY" => StrayAt(i)'
  BY DEF Lone, StrayAt, Ping
<1> QED  BY <1>1, <1>2, <1>3, <1>4, OneSite

LEMMA DoublePreserves ==
  ASSUME Inv, NEW i \in Site, NEW n \in flying[i], Double(i, n)
  PROVE  Inv'
<1> USE DEF Inv, Shape, Double, udp, stats
<1>1. n \in Nat /\ n \in Ping(i)
  BY DEF Lone, InRange
<1>2. Shape' /\ Apart(i)
  BY <1>1 DEF Apart
<1>3. RisesTo(samples'[i], NextPing(i)') /\ InRange(i)'
  BY DEF Ranked, NextPing, Lone, InRange, Ping
<1>4. StrayAt(i)'
  BY <1>1 DEF StrayAt, Ping
<1> QED  BY <1>2, <1>3, <1>4, OneSite

LEMMA LosePreserves ==
  ASSUME Inv, NEW i \in Site, NEW n \in flying[i], Lose(i, n)
  PROVE  Inv'
<1> USE DEF Inv, Shape, Lose, udp, stats
<1>1. Shape' /\ Apart(i)
  BY DEF Apart
<1>2. RisesTo(samples'[i], NextPing(i)') /\ InRange(i)'
  BY DEF Ranked, NextPing, Lone, InRange, Ping
<1>3. StrayAt(i)' \/ Alone(i)'
  BY DEF Lone, Alone, StrayAt, Ping
<1>4. err'[i] = "SOCKET_INVALID_REPLY" => StrayAt(i)'
  BY DEF Lone, StrayAt, Ping
<1> QED  BY <1>1, <1>2, <1>3, <1>4, OneSite

-----------------------------------------------------------------------------
(* Pinger::update().                                                       *)

\* A reset leaves nothing measured.
LEMMA NothingRises ==
  ASSUME NEW n
  PROVE  RisesTo(<<>>, n)
BY DEF RisesTo

\* Another sample, of a ping that is later than those there are.
LEMMA OneMoreRises ==
  ASSUME NEW s \in Seq(Sample), NEW n \in Nat, NEW t \in Int, RisesTo(s, n)
  PROVE  /\ Append(s, [ping |-> n, time |-> t]) \in Seq(Sample)
         /\ RisesTo(Append(s, [ping |-> n, time |-> t]), n + 1)
<1> DEFINE x == [ping |-> n, time |-> t]
           r == Append(s, x)
<1>1. x \in Sample /\ x.ping = n
  BY DEF Sample
<1> HIDE DEF x
<1>2. /\ r \in Seq(Sample) /\ DOMAIN s = 1 .. Len(s) /\ DOMAIN r = 1 .. Len(s) + 1
      /\ Len(s) \in Nat /\ r[Len(s) + 1] = x /\ \A k \in 1 .. Len(s) : r[k] = s[k]
  BY <1>1
<1>3. \A k \in 1 .. Len(s) : s[k].ping \in Nat
  <2> TAKE k \in 1 .. Len(s)
  <2>1. s[k] \in Sample
    OBVIOUS
  <2> QED  BY <2>1 DEF Sample
<1> HIDE DEF r
<1>4. \A j, k \in DOMAIN r : j < k => r[j].ping < r[k].ping
  BY <1>1, <1>2, <1>3 DEF RisesTo
<1>5. \A k \in DOMAIN r : r[k].ping < n + 1
  BY <1>1, <1>2, <1>3 DEF RisesTo
<1>6. r \in Seq(Sample) /\ RisesTo(r, n + 1)
  BY <1>2, <1>4, <1>5 DEF RisesTo
<1> QED  BY <1>6 DEF r, x

LEMMA TakeTimePreserves ==
  ASSUME Inv, NEW i \in Site, TakeTime(i)
  PROVE  Inv'
<1> USE DEF Inv, Shape, TakeTime, Succeeds, network
<1> DEFINE old == IF Full(i) THEN <<>> ELSE samples[i]
           s == Append(old, [ping |-> counter[i], time |-> time[i]])
<1>1. samples' = [samples EXCEPT ![i] = s]
  BY DEF Record
<1>2. old \in Seq(Sample) /\ RisesTo(old, counter[i])
  BY NothingRises DEF Ranked, NextPing
<1>3. s \in Seq(Sample) /\ RisesTo(s, counter[i] + 1)
  BY <1>2, OneMoreRises
<1> HIDE DEF old, s
<1>4. Shape' /\ Apart(i)
  BY <1>1, <1>3 DEF Apart, Errors
<1>5. RisesTo(samples'[i], NextPing(i)') /\ InRange(i)'
  BY <1>1, <1>3 DEF NextPing, Lone, InRange, Ping
<1>6. StrayAt(i)' \/ Alone(i)'
  BY DEF Lone, Alone, StrayAt, Ping
<1>7. err'[i] # "SOCKET_INVALID_REPLY"
  OBVIOUS
<1> QED  BY <1>4, <1>5, <1>6, <1>7, OneSite

LEMMA RecoverPreserves ==
  ASSUME Inv, NEW i \in Site, Recover(i) \/ SendLater(i) \/ WaitForReply(i)
  PROVE  Inv'
<1> USE DEF Inv, Shape, Recover, SendLater, WaitForReply, Succeeds, network, udp
<1>1. /\ UNCHANGED <<counter, time, flying, replies, samples, doubled, abandoned>>
      /\ err' = [err EXCEPT ![i] = "none"]
      /\ \/ socket' = socket
         \/ socket[i] = "error" /\ socket' = [socket EXCEPT ![i] = "initialized"]
  OBVIOUS
<1>2. Shape' /\ Apart(i)
  BY <1>1 DEF Apart, Errors
<1>3. RisesTo(samples'[i], NextPing(i)') /\ InRange(i)'
  BY <1>1 DEF Ranked, NextPing, Lone, InRange, Ping
<1>4. StrayAt(i)' \/ Alone(i)'
  BY <1>1 DEF Lone, Alone, StrayAt, Ping
<1>5. err'[i] # "SOCKET_INVALID_REPLY"
  BY <1>1
<1> QED  BY <1>1, <1>2, <1>3, <1>4, <1>5, OneSite

LEMMA SendPreserves ==
  ASSUME Inv, NEW i \in Site, SendPing(i)
  PROVE  Inv'
<1> USE DEF Inv, Shape, SendPing, CanSend, Succeeds, stats
<1>1. Shape' /\ Apart(i)
  <2>1. counter[i] + 1 \in Nat
    OBVIOUS
  <2>2. counter' \in [Site -> Nat] /\ flying' \in [Site -> SUBSET Nat]
    BY <2>1
  <2>3. /\ socket' \in [Site -> {"initialized", "ping_sent", "ping_received", "error"}]
        /\ err' \in [Site -> Errors]
    BY DEF Errors
  <2>4. Shape'
    BY <2>2, <2>3
  <2> QED  BY <2>4 DEF Apart
<1>0. MaxPings[i] \in Nat
  BY BoundsOfPings
<1>7. counter[i] \in Nat /\ counter'[i] = counter[i] + 1 /\ counter'[i] <= MaxPings[i]
  BY <1>0
<1>2. MaxPings[i] \in Nat /\ counter'[i] = counter[i] + 1 /\ counter'[i] \in Ping(i)
  BY <1>0, <1>7 DEF Ping
<1>3. RisesTo(samples'[i], NextPing(i)')
  BY <1>2 DEF Ranked, NextPing
<1>4. InRange(i)'
  BY <1>2 DEF Lone, InRange, Ping
<1>5. StrayAt(i)' \/ Alone(i)'
  BY <1>2 DEF Lone, Alone, StrayAt, Ping
<1>6. err'[i] # "SOCKET_INVALID_REPLY"
  OBVIOUS
<1> QED  BY <1>1, <1>3, <1>4, <1>5, <1>6, OneSite

LEMMA SendFailsPreserves ==
  ASSUME Inv, NEW i \in Site, SendFails(i)
  PROVE  Inv'
<1> USE PingerAssumption DEF Inv, Shape, SendFails, Fails, Reset, CanSend, network
<1>1. Shape' /\ Apart(i)
  BY DEF Apart, Errors
<1>2. MaxPings[i] \in Nat /\ counter'[i] = counter[i] + 1 /\ samples'[i] = <<>>
  OBVIOUS
<1>3. RisesTo(samples'[i], NextPing(i)')
  BY <1>2, NothingRises
<1>4. InRange(i)'
  BY <1>2 DEF Lone, InRange, Ping
<1>5. StrayAt(i)' \/ Alone(i)'
  BY <1>2 DEF Lone, Alone, StrayAt, Ping
<1>6. err'[i] # "SOCKET_INVALID_REPLY"
  OBVIOUS
<1> QED  BY <1>1, <1>3, <1>4, <1>5, <1>6, OneSite

LEMMA SelectFailsPreserves ==
  ASSUME Inv, NEW i \in Site, SelectFails(i)
  PROVE  Inv'
<1> USE DEF Inv, Shape, SelectFails, Fails, Reset, network
<1>1. Shape' /\ Apart(i)
  BY DEF Apart, Errors
<1>2. counter'[i] = counter[i] /\ samples'[i] = <<>>
  OBVIOUS
<1>3. RisesTo(samples'[i], NextPing(i)')
  BY <1>2, NothingRises
<1>4. InRange(i)'
  BY <1>2 DEF Lone, InRange, Ping
<1>5. StrayAt(i)' \/ Alone(i)'
  BY <1>2 DEF Lone, Alone, StrayAt, Ping
<1>6. err'[i] # "SOCKET_INVALID_REPLY"
  OBVIOUS
<1> QED  BY <1>1, <1>3, <1>4, <1>5, <1>6, OneSite

LEMMA ReceivePreserves ==
  ASSUME Inv, NEW i \in Site, ReceiveReply(i)
  PROVE  Inv'
<1> USE DEF Inv, Shape, ReceiveReply, Succeeds, stats
<1>2. time' \in [Site -> Int]
  BY BoundsOfPings
<1>3. Shape' /\ Apart(i)
  BY <1>2 DEF Apart, Errors
<1>4. RisesTo(samples'[i], NextPing(i)') /\ InRange(i)'
  BY DEF Ranked, NextPing, Lone, InRange, Ping
<1>5. StrayAt(i)' \/ Alone(i)'
  <2>1. CASE StrayAt(i)
    BY <2>1 DEF StrayAt, Ping
  <2>2. CASE Alone(i)
    <3>1. flying[i] = {} /\ replies[i] = <<counter[i]>>
      BY <2>2 DEF Alone
    <3>2. replies'[i] = <<>>
      BY <3>1
    <3> QED  BY <3>1, <3>2 DEF Alone
  <2> QED  BY <2>1, <2>2 DEF Lone
<1>6. err'[i] # "SOCKET_INVALID_REPLY"
  OBVIOUS
<1> QED  BY <1>3, <1>4, <1>5, <1>6, OneSite

LEMMA ReceiveOtherPreserves ==
  ASSUME Inv, NEW i \in Site, ReceiveOther(i)
  PROVE  Inv'
<1> USE DEF Inv, Shape, ReceiveOther, Fails, Reset
<1>1. Shape' /\ Apart(i)
  BY DEF Apart, Errors
<1>2. samples'[i] = <<>>
  OBVIOUS
<1>3. RisesTo(samples'[i], NextPing(i)')
  BY <1>2, NothingRises
<1>4. InRange(i)'
  BY DEF Lone, InRange, Ping
<1>5. StrayAt(i)
  <2>1. ~Alone(i)
    <3> SUFFICES ASSUME Alone(i) PROVE FALSE
      OBVIOUS
    <3>1. replies[i] = <<counter[i]>>
      BY DEF Alone
    <3>2. Head(replies[i]) = counter[i]
      BY <3>1
    <3> QED  BY <3>2
  <2> QED  BY <2>1 DEF Lone
<1>6. StrayAt(i)'
  BY <1>5 DEF StrayAt, Ping
<1> QED  BY <1>1, <1>3, <1>4, <1>6, OneSite

\* The ping that was given up is on record.
LEMMA ReceiveFailsPreserves ==
  ASSUME Inv, NEW i \in Site, ReceiveFails(i)
  PROVE  Inv'
<1> USE DEF Inv, Shape, ReceiveFails, Fails, Reset
<1>1. Shape' /\ Apart(i)
  BY DEF Apart, Errors
<1>2. samples'[i] = <<>> /\ counter'[i] = counter[i]
  OBVIOUS
<1>3. RisesTo(samples'[i], NextPing(i)')
  BY <1>2, NothingRises
<1>4. InRange(i)'
  BY DEF Lone, InRange, Ping
<1>5. StrayAt(i)'
  <2>1. counter[i] \in Ping(i)
    BY DEF Lone, InRange, Ping
  <2> QED  BY <2>1 DEF StrayAt, Ping
<1> QED  BY <1>1, <1>3, <1>4, <1>5, OneSite

-----------------------------------------------------------------------------
LEMMA NextPreservesInv == Inv /\ [Next]_vars => Inv'
<1> SUFFICES ASSUME Inv, [Next]_vars PROVE Inv'
  OBVIOUS
<1>1. CASE UNCHANGED pingerVars
  BY <1>1 DEF pingerVars, udp, stats, network, Inv, Shape, Ranked, RisesTo, NextPing,
              Lone, InRange, StrayAt, Alone, Ping
<1>2. CASE BeginUpdate \/ ReadNext \/ UNCHANGED vars
  BY <1>1, <1>2 DEF BeginUpdate, ReadNext, vars
<1>3. ASSUME NEW i \in Site, Ask(i) PROVE Inv'
  BY <1>1, <1>3 DEF Ask
<1>4. ASSUME NEW i \in Site, NEW n \in flying[i], Deliver(i, n) \/ Double(i, n) \/ Lose(i, n)
      PROVE  Inv'
  BY <1>4, DeliverPreserves, DoublePreserves, LosePreserves
<1>5. ASSUME NEW i \in Site,
             \/ TakeTime(i) \/ Recover(i) \/ SendPing(i) \/ SendFails(i) \/ SendLater(i)
             \/ WaitForReply(i) \/ ReceiveReply(i) \/ ReceiveOther(i)
             \/ SelectFails(i) \/ ReceiveFails(i)
      PROVE  Inv'
  BY <1>5, TakeTimePreserves, RecoverPreserves, SendPreserves, SendFailsPreserves,
     SelectFailsPreserves, ReceivePreserves, ReceiveOtherPreserves, ReceiveFailsPreserves
<1> QED  BY <1>2, <1>3, <1>4, <1>5 DEF Next

LEMMA InvHolds == Spec => []Inv
BY InitInv, NextPreservesInv, PTL DEF Spec

(***************************************************************************)
(* Whatever the network loses, delays, reorders or doubles, no ping is     *)
(* measured twice: each time in the statistics is that of another ping.    *)
(***************************************************************************)
THEOREM PingsMeasuredOnce == Spec => []MeasuredOnce
<1>1. Inv => MeasuredOnce
  BY DEF Inv, Ranked, RisesTo, MeasuredOnce
<1> QED  BY <1>1, InvHolds, PTL

(***************************************************************************)
(* A socket answers "invalid reply" only when a datagram of its site was   *)
(* doubled or it failed while it waited: after any other error, or a lost  *)
(* ping, no old reply is left to come, because a socket that sent a ping   *)
(* waits for it (udp_socket.cpp 62).                                       *)
(***************************************************************************)
THEOREM RepliesAreOwn == Spec => []NoForeignReply
<1>1. Inv => NoForeignReply
  BY DEF Inv, Lone, StrayAt, NoForeignReply
<1> QED  BY <1>1, InvHolds, PTL

-----------------------------------------------------------------------------
(* The statistics keep their ranges: the sums wrap at MaxUint (pinger.cpp  *)
(* 33), the history drops its oldest time when it is full (55).            *)

StatusOf == {"initialized", "ping_sent", "ping_received", "error"}

Sockets ==
  /\ socket \in [Site -> StatusOf]
  /\ counter \in [Site -> Nat] /\ \A i \in Site : counter[i] <= MaxPings[i]
  /\ time \in [Site -> Time \cup {0}]
  /\ \A i \in Site : socket[i] = "ping_received" => time[i] \in Time
  /\ err \in [Site -> Errors]

Statistics ==
  /\ last \in [Site -> Time \cup {-1}]
  /\ min \in [Site -> Time \cup {-1}]
  /\ max \in [Site -> Time \cup {-1}]
  /\ total \in [Site -> 0 .. MaxUint]
  /\ count \in [Site -> 0 .. MaxUint]
  /\ history \in [Site -> Seq(Time)]
  /\ \A i \in Site : Len(history[i]) <= HistorySize

Datagrams ==
  /\ flying \in [Site -> SUBSET Nat] /\ \A i \in Site : flying[i] \subseteq Ping(i)
  /\ replies \in [Site -> Seq(Nat)] /\ \A i \in Site : replies[i] \in Seq(Ping(i))

Callers ==
  /\ at \in 0 .. Sites
  /\ asked \in 0 .. Sites
  /\ (\E S : got \in Seq(S)) /\ Len(got) <= 5
  /\ asked = 0 => got = <<>>
  /\ torn \in BOOLEAN
  /\ asks \in [Site -> Nat] /\ \A i \in Site : asks[i] <= MaxAsks[i]

Types == Sockets /\ Statistics /\ Datagrams /\ Callers

LEMMA TimesAreIntegers ==
  Time \subseteq Int /\ HistorySize \in Nat \ {0} /\ MaxUint \in Nat \ {0}
BY BoundsOfPings, PingerAssumption DEF Time

LEMMA TypesMeanTypeOK ==
  ASSUME Types
  PROVE  TypeOK
<1>1. PingerAssumption /\ AsksAssumption
  BY PingerAssumption, AsksAssumption
<1>2. ASSUME NEW i \in Site
      PROVE  /\ counter[i] \in 0 .. MaxPings[i]
             /\ asks[i] \in 0 .. MaxAsks[i]
  <2>1. MaxPings[i] \in Nat /\ MaxAsks[i] \in Nat
    BY PingerAssumption, AsksAssumption
  <2>2. counter[i] \in Nat /\ counter[i] <= MaxPings[i]
    BY DEF Types, Sockets
  <2>3. asks[i] \in Nat /\ asks[i] <= MaxAsks[i]
    BY DEF Types, Callers
  <2> QED  BY <2>1, <2>2, <2>3
<1>3. ASSUME NEW i \in Site
      PROVE  /\ time[i] \in Time \cup {0}
             /\ {last[i], min[i], max[i]} \subseteq Time \cup {-1}
             /\ total[i] \in 0 .. MaxUint
             /\ count[i] \in 0 .. MaxUint
             /\ history[i] \in Seq(Time) /\ Len(history[i]) <= HistorySize
             /\ flying[i] \subseteq Ping(i)
             /\ replies[i] \in Seq(Ping(i))
  BY DEF Types, Sockets, Statistics, Datagrams
<1> QED  BY <1>2, <1>3 DEF TypeOK, Types, Sockets, StatusOf, Callers

LEMMA InitTypes == Init => Types
<1> SUFFICES ASSUME Init PROVE Types
  OBVIOUS
<1> USE PingerAssumption DEF Init, PingerInit
<1>1. \A i \in Site : MaxPings[i] \in Nat
  OBVIOUS
<1>2. Sockets
  BY <1>1 DEF Sockets, StatusOf, Errors
<1>3. Statistics
  BY EmptySeq DEF Statistics
<1>4. Datagrams
  BY EmptySeq DEF Datagrams
<1>5. Callers
  <2>1. \A i \in Site : MaxAsks[i] \in Nat
    BY AsksAssumption
  <2>2. <<>> \in Seq({}) /\ Len(<<>>) = 0
    BY EmptySeq
  <2>3. (\E S : got \in Seq(S)) /\ Len(got) <= 5
    BY <2>2
  <2>4. asks \in [Site -> Nat] /\ \A i \in Site : asks[i] <= MaxAsks[i]
    BY <2>1
  <2>5. at \in 0 .. Sites /\ asked \in 0 .. Sites /\ got = <<>>
    OBVIOUS
  <2>6. torn \in BOOLEAN
    <3>1. torn = FALSE
      OBVIOUS
    <3> QED  BY <3>1
  <2> QED  BY <2>3, <2>4, <2>5, <2>6 DEF Callers
<1> QED  BY <1>2, <1>3, <1>4, <1>5 DEF Types

(***************************************************************************)
(* The first half of Pinger::update() (pinger.cpp 29-60), whether or not it*)
(* begins with a reset().                                                  *)
(***************************************************************************)
LEMMA RecordKeeps ==
  ASSUME Statistics, NEW i \in Site, NEW t \in Time, Record(i, t)
  PROVE  Statistics'
<1> DEFINE Since(old, start) == IF Full(i) THEN start ELSE old
<1>1. t \in Int /\ HistorySize \in Nat \ {0} /\ MaxUint \in Nat \ {0}
  BY TimesAreIntegers
<1>2. PICK a, b, c, h :
        /\ a = (Since(total[i], 0) + t) % (MaxUint + 1)
        /\ total' = [total EXCEPT ![i] = a]
        /\ b = Since(count[i], 0) + 1
        /\ count' = [count EXCEPT ![i] = b]
        /\ c = Max({Since(max[i], -1), t})
        /\ max' = [max EXCEPT ![i] = c]
        /\ h = Append(Keep(Since(history[i], <<>>)), t)
        /\ history' = [history EXCEPT ![i] = h]
  BY DEF Record
<1>3. a \in 0 .. MaxUint
  <2> DEFINE x == Since(total[i], 0)
  <2>1. x \in Int
    BY <1>1 DEF Statistics
  <2>2. a = (x + t) % (MaxUint + 1)
    BY <1>2
  <2> HIDE DEF x
  <2>3. x + t \in Int
    BY <1>1, <2>1
  <2>4. \A y \in Int : y % (MaxUint + 1) \in 0 .. MaxUint
    BY <1>1
  <2> QED  BY <2>2, <2>3, <2>4
<1>4. b \in 0 .. MaxUint
  <2>1. count[i] \in 0 .. MaxUint
    BY DEF Statistics
  <2>2. CASE Full(i)
    BY <1>1, <1>2, <2>2
  <2>3. CASE ~Full(i)
    BY <1>1, <1>2, <2>1, <2>3 DEF Full
  <2> QED  BY <2>2, <2>3
<1>5. c \in Time \cup {-1}
  <2> DEFINE m == Since(max[i], -1)
  <2>1. m \in Time \cup {-1}
    BY DEF Statistics
  <2>3. c = Max({m, t})
    BY <1>2
  <2> HIDE DEF m
  <2>2. m \in Int
    <3>1. CASE m = -1
      BY <3>1
    <3>2. CASE m \in Time
      BY <3>2, TimesAreIntegers
    <3> QED  BY <2>1, <3>1, <3>2
  <2>4. \E x \in {m, t} : \A y \in {m, t} : x >= y
    BY <1>1, <2>2
  <2>5. c \in {m, t}
    BY <2>3, <2>4 DEF Max
  <2> QED  BY <2>1, <2>5
<1>6. h \in Seq(Time) /\ Len(h) <= HistorySize
  <2> DEFINE g == Since(history[i], <<>>)
             k == Keep(g)
  <2>1. g \in Seq(Time) /\ Len(g) <= HistorySize
    <3>1. <<>> \in Seq(Time) /\ Len(<<>>) = 0
      BY EmptySeq
    <3>2. history[i] \in Seq(Time) /\ Len(history[i]) <= HistorySize
      BY DEF Statistics
    <3> QED  BY <1>1, <3>1, <3>2
  <2> HIDE DEF g
  <2>2. k \in Seq(Time) /\ Len(k) < HistorySize
    <3>1. CASE Len(g) = HistorySize
      <4>1. g # <<>>
        BY <1>1, <3>1, EmptySeq
      <4> QED  BY <1>1, <2>1, <3>1, <4>1, HeadTailProperties DEF Keep
    <3>2. CASE Len(g) # HistorySize
      BY <1>1, <2>1, <3>2 DEF Keep
    <3> QED  BY <3>1, <3>2
  <2> HIDE DEF k
  <2>3. h = Append(k, t)
    BY <1>2 DEF g, k
  <2> QED  BY <1>1, <2>2, <2>3
<1>7. \E x \in Time \cup {-1} : min' = [min EXCEPT ![i] = x]
  <2>1. min[i] \in Time \cup {-1}
    BY DEF Statistics
  <2> QED  BY <2>1 DEF Record
<1>8. last' = [last EXCEPT ![i] = t]
  BY DEF Record
<1> QED  BY <1>2, <1>3, <1>4, <1>5, <1>6, <1>7, <1>8 DEF Statistics

LEMMA ResetKeeps ==
  ASSUME Statistics, NEW i \in Site, Reset(i)
  PROVE  Statistics'
BY EmptySeq, TimesAreIntegers DEF Statistics, Reset

(***************************************************************************)
(* One update of a pinger (pinger.cpp 25-77).                              *)
(***************************************************************************)
LEMMA UpdateKeepsStatistics ==
  ASSUME Types, NEW i \in Site,
         \/ TakeTime(i) \/ Recover(i) \/ SendPing(i) \/ SendFails(i) \/ SendLater(i)
         \/ WaitForReply(i) \/ ReceiveReply(i) \/ ReceiveOther(i)
         \/ SelectFails(i) \/ ReceiveFails(i)
  PROVE  Statistics'
<1>1. CASE TakeTime(i)
  <2>1. time[i] \in Time
    BY <1>1 DEF TakeTime, Types, Sockets
  <2> QED  BY <1>1, <2>1, RecordKeeps DEF TakeTime, Types
<1>2. CASE SendFails(i) \/ SelectFails(i) \/ ReceiveOther(i) \/ ReceiveFails(i)
  BY <1>2, ResetKeeps DEF SendFails, SelectFails, ReceiveOther, ReceiveFails, Fails, Types
<1>3. CASE UNCHANGED stats
  BY <1>3 DEF stats, Types, Statistics
<1> QED
  BY <1>1, <1>2, <1>3 DEF Recover, SendPing, SendLater, WaitForReply, ReceiveReply

LEMMA UpdateKeepsSockets ==
  ASSUME Types, NEW i \in Site,
         \/ TakeTime(i) \/ Recover(i) \/ SendPing(i) \/ SendFails(i) \/ SendLater(i)
         \/ WaitForReply(i) \/ ReceiveReply(i) \/ ReceiveOther(i)
         \/ SelectFails(i) \/ ReceiveFails(i)
  PROVE  Sockets'
<1> USE DEF Types, Sockets
<1>1. \E x \in Errors : err' = [err EXCEPT ![i] = x]
  BY DEF TakeTime, Recover, SendPing, SendFails, SendLater, WaitForReply, ReceiveReply,
     ReceiveOther, SelectFails, ReceiveFails, Succeeds, Fails, Errors
<1>2. /\ counter' \in [Site -> Nat]
      /\ \A j \in Site : counter'[j] <= MaxPings[j]
  <2>1. \/ counter' = counter
        \/ counter[i] < MaxPings[i] /\ counter' = [counter EXCEPT ![i] = @ + 1]
    BY DEF TakeTime, Recover, SendPing, SendFails, SendLater, WaitForReply, ReceiveReply,
       ReceiveOther, SelectFails, ReceiveFails, CanSend, udp
  <2>2. MaxPings[i] \in Nat /\ counter[i] \in Nat
    BY PingerAssumption
  <2> QED  BY <2>1, <2>2
<1>3. \/ /\ time' = time
         /\ \/ socket' = socket
            \/ \E x \in StatusOf \ {"ping_received"} : socket' = [socket EXCEPT ![i] = x]
      \/ /\ \E t \in Time : time' = [time EXCEPT ![i] = t]
         /\ socket' = [socket EXCEPT ![i] = "ping_received"]
  BY DEF TakeTime, Recover, SendPing, SendFails, SendLater, WaitForReply, ReceiveReply,
     ReceiveOther, SelectFails, ReceiveFails, Fails, udp, StatusOf, Time
<1>4. /\ socket' \in [Site -> StatusOf]
      /\ time' \in [Site -> Time \cup {0}]
      /\ \A j \in Site : socket'[j] = "ping_received" => time'[j] \in Time
  BY <1>3 DEF StatusOf
<1> QED  BY <1>1, <1>2, <1>4

LEMMA UpdateKeepsDatagrams ==
  ASSUME Types, NEW i \in Site,
         \/ TakeTime(i) \/ Recover(i) \/ SendPing(i) \/ SendFails(i) \/ SendLater(i)
         \/ WaitForReply(i) \/ ReceiveReply(i) \/ ReceiveOther(i)
         \/ SelectFails(i) \/ ReceiveFails(i)
  PROVE  Datagrams'
<1> USE DEF Types, Datagrams
<1>1. CASE UNCHANGED <<flying, replies>>
  BY <1>1
<1>2. CASE SendPing(i)
  <2>1. counter[i] + 1 \in Ping(i) /\ counter[i] + 1 \in Nat
    <3>1. counter[i] \in Nat /\ MaxPings[i] \in Nat /\ counter[i] < MaxPings[i]
      BY <1>2, PingerAssumption DEF SendPing, CanSend, Sockets
    <3> QED  BY <3>1 DEF Ping
  <2> QED  BY <1>2, <2>1 DEF SendPing
<1>3. CASE replies[i] # <<>> /\ replies' = [replies EXCEPT ![i] = Tail(@)]
             /\ UNCHANGED flying
  <2>1. Tail(replies[i]) \in Seq(Ping(i)) /\ Tail(replies[i]) \in Seq(Nat)
    BY <1>3, HeadTailProperties
  <2> QED  BY <1>3, <2>1
<1> QED
  BY <1>1, <1>2, <1>3 DEF TakeTime, Recover, SendFails, SendLater, WaitForReply,
     ReceiveReply, ReceiveOther, SelectFails, ReceiveFails, network

LEMMA UpdateKeepsTypes ==
  ASSUME Types, NEW i \in Site, Turn(i),
         \/ TakeTime(i) \/ Recover(i) \/ SendPing(i) \/ SendFails(i) \/ SendLater(i)
         \/ WaitForReply(i) \/ ReceiveReply(i) \/ ReceiveOther(i)
         \/ SelectFails(i) \/ ReceiveFails(i)
  PROVE  Types'
<1>1. Callers'
  <2>1. at' \in 0 .. Sites
    BY PingerAssumption DEF Turn, Site
  <2>2. torn' \in BOOLEAN
    BY DEF Turn, Types, Callers
  <2> QED  BY <2>1, <2>2 DEF Turn, Types, Callers
<1> QED
  BY <1>1, UpdateKeepsStatistics, UpdateKeepsSockets, UpdateKeepsDatagrams DEF Types

(***************************************************************************)
(* The network, and the calls that read the statistics.                    *)
(***************************************************************************)
LEMMA NetworkKeepsTypes ==
  ASSUME Types, NEW i \in Site, NEW n \in flying[i],
         Deliver(i, n) \/ Double(i, n) \/ Lose(i, n), UNCHANGED <<at, reader>>
  PROVE  Types'
<1>1. Sockets' /\ Statistics' /\ Callers'
  BY DEF Types, Deliver, Double, Lose, udp, stats, reader, Sockets, Statistics, Callers
<1>2. Datagrams'
  <2>1. n \in Nat /\ n \in Ping(i)
    BY DEF Types, Datagrams
  <2>2. flying' \in {flying, [flying EXCEPT ![i] = @ \ {n}]}
    BY DEF Deliver, Double, Lose
  <2>3. flying' \in [Site -> SUBSET Nat] /\ \A j \in Site : flying'[j] \subseteq Ping(j)
    BY <2>2 DEF Types, Datagrams
  <2>4. replies' \in {replies, [replies EXCEPT ![i] = Append(@, n)]}
    BY DEF Deliver, Double, Lose
  <2>5. Append(replies[i], n) \in Seq(Ping(i)) /\ Append(replies[i], n) \in Seq(Nat)
    BY <2>1 DEF Types, Datagrams
  <2>6. replies' \in [Site -> Seq(Nat)] /\ \A j \in Site : replies'[j] \in Seq(Ping(j))
    BY <2>4, <2>5 DEF Types, Datagrams
  <2> QED  BY <2>3, <2>6 DEF Datagrams
<1> QED  BY <1>1, <1>2 DEF Types

LEMMA ReadKeepsTypes ==
  ASSUME Types, NEW i \in Site, NEW k \in 1 .. 6, k = Len(got) + 1 \/ (k = 1 /\ got = <<>>),
         Read(i, k)
  PROVE  /\ asked' \in 0 .. Sites /\ torn' \in BOOLEAN
         /\ (\E S : got' \in Seq(S)) /\ Len(got') <= 5
         /\ asked' = 0 => got' = <<>>
<1>1. Len(Order) = 6
  BY DEF Order
<1> DEFINE x == Statistic(i)[Order[k]]
<1>2. CASE asked' = 0 /\ got' = <<>> /\ torn' = FALSE
  <2>1. <<>> \in Seq({}) /\ Len(<<>>) = 0
    BY EmptySeq
  <2>2. (\E S : got' \in Seq(S)) /\ Len(got') <= 5
    BY <1>2, <2>1
  <2>3. 0 \in 0 .. Sites
    BY PingerAssumption
  <2> QED  BY <1>2, <2>2, <2>3
<1>3. CASE /\ k # 6
           /\ asked' = i
           /\ got' = Append(got, <<Order[k], x>>)
           /\ torn' = IF k = 1 THEN ~Sane(i) ELSE torn
  <2>1. asked' \in 0 .. Sites /\ asked' # 0
    BY <1>3, PingerAssumption DEF Site
  <2>6. torn' \in BOOLEAN
    <3>1. torn \in BOOLEAN
      BY DEF Types, Callers
    <3>2. (~Sane(i)) \in BOOLEAN
      BY DEF Sane
    <3>3. torn' \in {torn, ~Sane(i)}
      BY <1>3, Zenon
    <3> QED  BY <3>1, <3>2, <3>3
  <2>2. PICK S : got \in Seq(S)
    BY DEF Types, Callers
  <2> DEFINE y == <<Order[k], x>>
             T == S \cup {y}
  <2> HIDE DEF x, y
  <2>3. got \in Seq(T)
    BY <2>2, SeqMonotonic
  <2>4. Append(got, y) \in Seq(T) /\ Len(Append(got, y)) = Len(got) + 1
    BY <2>3
  <2>5. Len(got) + 1 = k
    BY <2>2, EmptySeq
  <2>7. got' = Append(got, y)
    BY <1>3 DEF x, y
  <2>8. \E R : got' \in Seq(R)
    BY <2>4, <2>7
  <2> QED  BY <1>3, <2>1, <2>4, <2>5, <2>6, <2>7, <2>8
<1> QED  BY <1>1, <1>2, <1>3 DEF Read

LEMMA CallKeepsTypes ==
  ASSUME Types, ReadNext \/ \E i \in Site : Ask(i)
  PROVE  Types'
<1>1. PICK i \in Site, k \in 1 .. 6 :
        /\ k = Len(got) + 1 \/ (k = 1 /\ got = <<>>)
        /\ Read(i, k)
        /\ asks' = asks \/ (asks[i] < MaxAsks[i] /\ asks' = [asks EXCEPT ![i] = @ + 1])
        /\ pingerVars' = pingerVars /\ at' = at
  <2>1. CASE ReadNext
    <3>1. asked \in Site
      BY <2>1, PingerAssumption DEF ReadNext, Types, Callers, Site
    <3>2. Len(got) + 1 \in 1 .. 6
      <4>1. PICK S : got \in Seq(S)
        BY DEF Types, Callers
      <4>2. Len(got) \in Nat /\ Len(got) <= 5
        BY <4>1 DEF Types, Callers
      <4> QED  BY <4>2
    <3>3. /\ Read(asked, Len(got) + 1) /\ asks' = asks
          /\ pingerVars' = pingerVars /\ at' = at
      BY <2>1, Zenon DEF ReadNext
    <3> QED  BY <3>1, <3>2, <3>3, Zenon
  <2>2. CASE \E i \in Site : Ask(i)
    <3>1. PICK i \in Site : Ask(i)
      BY <2>2
    <3>2. got = <<>>
      BY <3>1 DEF Ask, Types, Callers
    <3>3. /\ Read(i, 1) /\ asks[i] < MaxAsks[i] /\ asks' = [asks EXCEPT ![i] = @ + 1]
          /\ pingerVars' = pingerVars /\ at' = at
      BY <3>1, Zenon DEF Ask
    <3>4. 1 \in 1 .. 6
      OBVIOUS
    <3> QED  BY <3>2, <3>3, <3>4, Zenon
  <2> QED  BY <2>1, <2>2
<1>2. Sockets' /\ Statistics' /\ Datagrams'
  BY <1>1 DEF pingerVars, udp, stats, network, Types, Sockets, Statistics, Datagrams
<1>3. asks' \in [Site -> Nat] /\ \A j \in Site : asks'[j] <= MaxAsks[j]
  <2>1. asks[i] \in Nat /\ MaxAsks[i] \in Nat
    BY AsksAssumption DEF Types, Callers
  <2> QED  BY <1>1, <2>1 DEF Types, Callers
<1>4. Callers'
  BY <1>1, <1>3, ReadKeepsTypes DEF Callers, Types
<1> QED  BY <1>2, <1>4 DEF Types

LEMMA NextKeepsTypes == Types /\ [Next]_vars => Types'
<1> SUFFICES ASSUME Types, [Next]_vars PROVE Types'
  OBVIOUS
<1>1. CASE BeginUpdate
  <2>1. 1 \in 0 .. Sites
    BY <1>1, PingerAssumption DEF BeginUpdate
  <2> QED
    BY <1>1, <2>1 DEF BeginUpdate, pingerVars, udp, stats, network, reader, Types, Sockets,
       Statistics, Datagrams, Callers
<1>2. CASE UNCHANGED vars
  BY <1>2 DEF vars, pingerVars, udp, stats, network, reader, Types, Sockets, Statistics,
     Datagrams, Callers
<1>3. CASE ReadNext \/ \E i \in Site : Ask(i)
  BY <1>3, CallKeepsTypes
<1>4. ASSUME NEW i \in Site, NEW n \in flying[i],
             Deliver(i, n) \/ Double(i, n) \/ Lose(i, n), UNCHANGED <<at, reader>>
      PROVE  Types'
  BY <1>4, NetworkKeepsTypes
<1>5. ASSUME NEW i \in Site, Turn(i),
             \/ TakeTime(i) \/ Recover(i) \/ SendPing(i) \/ SendFails(i) \/ SendLater(i)
             \/ WaitForReply(i) \/ ReceiveReply(i) \/ ReceiveOther(i)
             \/ SelectFails(i) \/ ReceiveFails(i)
      PROVE  Types'
  BY <1>5, UpdateKeepsTypes
<1> QED  BY <1>1, <1>2, <1>3, <1>4, <1>5 DEF Next

(***************************************************************************)
(* For any sites, clock and losses: the history never outgrows its size    *)
(* (pinger.cpp 55), the sums stay in unsigned int (33), and a call reads   *)
(* five statistics at most before it returns.                              *)
(***************************************************************************)
THEOREM TypeCorrect == Spec => []TypeOK
BY InitTypes, NextKeepsTypes, TypesMeanTypeOK, PTL DEF Spec

-----------------------------------------------------------------------------
(* Sums, and least and greatest members.                                   *)

(***************************************************************************)
(* A nonempty set of natural numbers has a least one.                      *)
(***************************************************************************)
LEMMA LeastNat ==
  ASSUME NEW T \in SUBSET Nat, T # {}
  PROVE  \E n \in T : \A m \in T : n <= m
<1> DEFINE R == OpToRel(<, Nat)
<1>1. IsWellFoundedOn(R, Nat)
  BY NatLessThanWellFounded, Zenon
<1>2. \A x, y \in Nat : y < x => <<y, x>> \in R
  BY DEF OpToRel
<1> HIDE DEF R
<1>3. PICK x \in T : \A y \in T : ~(<<y, x>> \in R)
  BY <1>1, WFMin
<1>4. \A y \in T : ~(y < x) /\ x \in Nat /\ y \in Nat
  BY <1>2, <1>3
<1>5. \A y \in T : x <= y
  BY <1>4
<1> QED  BY <1>5

\* f has the sums of the first elements of s, up to k of them.
Adds(f, s, k) == f = [n \in 0 .. k |-> IF n = 0 THEN 0 ELSE f[n - 1] + s[n]]

\* Sum() is defined: by the least length that would have no sums.
LEMMA SumsExist ==
  ASSUME NEW s \in Seq(Int), NEW k \in 0 .. Len(s)
  PROVE  \E f \in [0 .. k -> Int] : Adds(f, s, k)
<1> DEFINE T == {m \in 0 .. Len(s) : ~ \E f \in [0 .. m -> Int] : Adds(f, s, m)}
<1>1. SUFFICES ASSUME T # {} PROVE FALSE
  OBVIOUS
<1>2. T \in SUBSET Nat
  OBVIOUS
<1>3. PICK m \in T : \A l \in T : m <= l
  <2> HIDE DEF T
  <2> QED  BY <1>1, <1>2, LeastNat
<1>4. m \in 0 .. Len(s) /\ Len(s) \in Nat
  OBVIOUS
<1>5. m # 0
  <2> DEFINE f == [n \in 0 .. 0 |-> 0]
  <2>1. f \in [0 .. 0 -> Int] /\ Adds(f, s, 0)
    BY DEF Adds
  <2> QED  BY <2>1
<1>6. PICK g \in [0 .. m - 1 -> Int] : Adds(g, s, m - 1)
  <2>1. m - 1 \in 0 .. Len(s) /\ ~(m <= m - 1)
    BY <1>4, <1>5
  <2> QED  BY <1>3, <2>1
<1> DEFINE f == [n \in 0 .. m |-> IF n = m THEN g[m - 1] + s[m] ELSE g[n]]
<1>7. s[m] \in Int /\ g[m - 1] \in Int
  BY <1>4, <1>5
<1>8. f \in [0 .. m -> Int]
  BY <1>4, <1>7
<1>9. ASSUME NEW n \in 0 .. m
      PROVE  f[n] = IF n = 0 THEN 0 ELSE f[n - 1] + s[n]
  <2>1. CASE n = m
    BY <1>4, <1>5, <2>1
  <2>2. CASE n # m
    <3>1. n \in 0 .. m - 1 /\ f[n] = g[n]
      BY <1>4, <2>2
    <3>2. g[n] = IF n = 0 THEN 0 ELSE g[n - 1] + s[n]
      BY <1>6, <3>1 DEF Adds
    <3>3. n # 0 => f[n - 1] = g[n - 1]
      BY <1>4, <3>1
    <3> QED  BY <3>1, <3>2, <3>3
  <2> QED  BY <2>1, <2>2
<1>10. Adds(f, s, m)
  BY <1>9 DEF Adds
<1> QED  BY <1>8, <1>10

\* The sums, step by step.
LEMMA AddsMeans ==
  ASSUME NEW f, NEW s, NEW k \in Nat, Adds(f, s, k)
  PROVE  f[0] = 0 /\ \A n \in 1 .. k : f[n] = f[n - 1] + s[n]
<1>1. \A n \in 0 .. k : f[n] = IF n = 0 THEN 0 ELSE f[n - 1] + s[n]
  BY DEF Adds
<1>2. 0 \in 0 .. k /\ \A n \in 1 .. k : n \in 0 .. k /\ n # 0
  OBVIOUS
<1> QED  BY <1>1, <1>2

\* The sums of the first times depend on these alone.
LEMMA SumsAgree ==
  ASSUME NEW s \in Seq(Int), NEW r \in Seq(Int), NEW k \in Nat, NEW m \in Nat, NEW f,
         NEW g, k <= m, \A n \in 1 .. k : s[n] = r[n], Adds(f, s, k), Adds(g, r, m)
  PROVE  \A n \in 0 .. k : f[n] = g[n]
<1> DEFINE T == {n \in 0 .. k : f[n] # g[n]}
<1>1. SUFFICES ASSUME T # {} PROVE FALSE
  OBVIOUS
<1>2. T \in SUBSET Nat
  OBVIOUS
<1>3. PICK n \in T : \A l \in T : n <= l
  <2> HIDE DEF T
  <2> QED  BY <1>1, <1>2, LeastNat
<1>4. n # 0
  BY AddsMeans
<1>5. f[n - 1] = g[n - 1]
  BY <1>3, <1>4
<1>6. f[n] = f[n - 1] + s[n] /\ g[n] = g[n - 1] + r[n]
  <2>1. n \in 1 .. k /\ n \in 1 .. m
    BY <1>4
  <2>2. f[n] = f[n - 1] + s[n]
    BY <2>1, AddsMeans
  <2>3. g[n] = g[n - 1] + r[n]
    BY <2>1, AddsMeans
  <2> QED  BY <2>2, <2>3
<1> QED  BY <1>3, <1>4, <1>5, <1>6

\* Sum() is the last of the sums.
LEMMA SumIs ==
  ASSUME NEW s \in Seq(Int)
  PROVE  \E f \in [0 .. Len(s) -> Int] : Adds(f, s, Len(s)) /\ Sum(s) = f[Len(s)]
<1>1. Len(s) \in Nat /\ Len(s) \in 0 .. Len(s)
  OBVIOUS
<1>2. PICK g \in [0 .. Len(s) -> Int] : Adds(g, s, Len(s))
  BY <1>1, SumsExist
<1> DEFINE c == CHOOSE f : f = [n \in 0 .. Len(s) |-> IF n = 0 THEN 0 ELSE f[n - 1] + s[n]]
<1>3. Adds(c, s, Len(s))
  BY <1>2 DEF Adds
<1>4. Sum(s) = c[Len(s)]
  BY DEF Sum
<1> HIDE DEF c
<1>5. c[Len(s)] = g[Len(s)]
  BY <1>1, <1>2, <1>3, SumsAgree
<1> QED  BY <1>2, <1>4, <1>5

LEMMA SumOfNone == Sum(<<>>) = 0
<1>1. <<>> \in Seq(Int) /\ Len(<<>>) = 0
  BY EmptySeq
<1>2. PICK f : Adds(f, <<>>, 0) /\ Sum(<<>>) = f[0]
  BY <1>1, SumIs
<1> QED  BY <1>2 DEF Adds

LEMMA SumOfLonger ==
  ASSUME NEW s \in Seq(Int), NEW r \in Seq(Int), NEW k \in Nat,
         Len(s) = k, Len(r) = k + 1, \A j \in 1 .. k : s[j] = r[j]
  PROVE  Sum(s) \in Int /\ Sum(r) = Sum(s) + r[k + 1]
<1>1. PICK f : Adds(f, s, k) /\ Sum(s) = f[k] /\ f[k] \in Int
  BY SumIs
<1>2. PICK g : Adds(g, r, k + 1) /\ Sum(r) = g[k + 1]
  BY SumIs
<1>3. \A j \in 0 .. k : f[j] = g[j]
  BY <1>1, <1>2, SumsAgree
<1>4. g[k + 1] = g[k] + r[k + 1]
  BY <1>2 DEF Adds
<1> QED  BY <1>1, <1>2, <1>3, <1>4

\* total is kept by one addition a time (pinger.cpp 38).
LEMMA SumOfMore ==
  ASSUME NEW s \in Seq(Int), NEW t \in Int
  PROVE  Sum(s) \in Int /\ Sum(Append(s, t)) = Sum(s) + t
<1> DEFINE r == Append(s, t)
           k == Len(s)
<1>1. /\ r \in Seq(Int) /\ k \in Nat /\ Len(r) = k + 1
      /\ r[k + 1] = t /\ \A j \in 1 .. k : s[j] = r[j]
  OBVIOUS
<1> HIDE DEF r
<1>2. Sum(s) \in Int /\ Sum(r) = Sum(s) + r[k + 1]
  BY <1>1, SumOfLonger
<1> QED  BY <1>1, <1>2 DEF r

\* Min and Max are told by a member that is least, or greatest.
LEMMA MinIs ==
  ASSUME NEW S \in SUBSET Int, NEW x \in S, \A y \in S : x <= y
  PROVE  Min(S) = x
<1>1. Min(S) \in S /\ \A y \in S : Min(S) <= y
  BY DEF Min
<1>2. Min(S) \in Int /\ x \in Int /\ Min(S) <= x /\ x <= Min(S)
  BY <1>1
<1> QED  BY <1>2

LEMMA MaxIs ==
  ASSUME NEW S \in SUBSET Int, NEW x \in S, \A y \in S : y <= x
  PROVE  Max(S) = x
<1>1. \A y \in S : x >= y
  OBVIOUS
<1>2. Max(S) \in S /\ \A y \in S : Max(S) >= y
  BY <1>1 DEF Max
<1>3. Max(S) \in Int /\ x \in Int /\ Max(S) <= x /\ x <= Max(S)
  BY <1>2
<1> QED  BY <1>3

-----------------------------------------------------------------------------
(* compute_median() (pinger.cpp 193-213).                                  *)

\* Any times can be put in order: each at its rank, equal ones as they came.
LEMMA SortExists ==
  ASSUME NEW h \in Seq(Int)
  PROVE  \E p \in Bijection(DOMAIN h, DOMAIN h) : Sorts(p, h)
<1> DEFINE D == DOMAIN h
           Precedes(j, k) == h[j] < h[k] \/ (h[j] = h[k] /\ j <= k)
           Below(k) == {j \in D : Precedes(j, k)}
           rank == [k \in D |-> Cardinality(Below(k))]
<1>1. /\ D = 1 .. Len(h) /\ Len(h) \in Nat /\ D \in SUBSET Int
      /\ \A k \in D : h[k] \in Int
  OBVIOUS
<1>2. IsFiniteSet(D) /\ Cardinality(D) = Len(h)
  BY <1>1, FS_Interval
<1> HIDE DEF D
<1>3. ASSUME NEW k \in D
      PROVE  /\ IsFiniteSet(Below(k)) /\ Cardinality(Below(k)) \in Nat
             /\ Cardinality(Below(k)) <= Len(h) /\ k \in Below(k)
             /\ Cardinality(Below(k)) # 0
  <2>1. k \in Below(k) /\ Below(k) \in SUBSET D
    BY <1>1
  <2> HIDE DEF Below
  <2>2. IsFiniteSet(Below(k)) /\ Cardinality(Below(k)) <= Len(h)
    BY <1>2, <2>1, FS_Subset
  <2>3. Cardinality(Below(k)) \in Nat /\ Cardinality(Below(k)) # 0
    BY <2>1, <2>2, FS_CardinalityType, FS_EmptySet
  <2> QED  BY <2>1, <2>2, <2>3
<1>4. ASSUME NEW j \in D, NEW k \in D, Precedes(j, k), j # k
      PROVE  rank[j] < rank[k]
  <2>1. Below(j) \in SUBSET Below(k) /\ k \notin Below(j)
    BY <1>1, <1>4
  <2>2. /\ IsFiniteSet(Below(k)) /\ k \in Below(k)
        /\ Cardinality(Below(k)) \in Nat /\ Cardinality(Below(j)) \in Nat
    BY <1>3
  <2> HIDE DEF Below
  <2>3. /\ Cardinality(Below(j)) <= Cardinality(Below(k))
        /\ Cardinality(Below(j)) # Cardinality(Below(k))
    BY <2>1, <2>2, FS_Subset
  <2> QED  BY <2>2, <2>3
<1>5. rank \in [D -> D]
  <2> SUFFICES ASSUME NEW k \in D PROVE Cardinality(Below(k)) \in D
    OBVIOUS
  <2> HIDE DEF Below
  <2> QED  BY <1>1, <1>3
<1>6. \A j, k \in D : Precedes(j, k) \/ Precedes(k, j)
  BY <1>1
<1>7. \A j, k \in D : Precedes(j, k) /\ j # k => rank[j] < rank[k]
  BY <1>4
<1>8. \A j, k \in D : rank[j] \in Int /\ (j # k => rank[j] # rank[k])
  <2> HIDE DEF rank, Precedes
  <2> QED  BY <1>1, <1>5, <1>6, <1>7
<1> HIDE DEF rank
<1>9. rank \in Injection(D, D)
  BY <1>5, <1>8, Fun_IsInj
<1>10. rank \in Surjection(D, D)
  BY <1>2, <1>9, FS_Injection
<1> DEFINE p == Inverse(rank, D, D)
<1>11. rank \in Bijection(D, D)
  BY <1>9, <1>10, Fun_IsBij
<1>12. p \in Bijection(D, D) /\ \A k \in D : p[rank[k]] = k
  BY <1>11, Fun_BijInverse
<1>13. ASSUME NEW k \in D
       PROVE  p[k] \in D /\ rank[p[k]] = k
  <2>1. PICK j \in D : rank[j] = k
    BY <1>10, Fun_SurjectionProperties
  <2> HIDE DEF p
  <2> QED  BY <1>12, <2>1
<1> HIDE DEF p
<1>14. ASSUME NEW j \in D, NEW k \in D, j < k
       PROVE  h[p[j]] <= h[p[k]]
  <2>1. p[j] \in D /\ p[k] \in D /\ rank[p[j]] < rank[p[k]]
    BY <1>13, <1>14
  <2>2. ~Precedes(p[k], p[j])
    <3> HIDE DEF Precedes
    <3>1. rank[p[j]] \in Int /\ rank[p[k]] \in Int
      BY <1>8, <2>1
    <3> QED  BY <1>7, <2>1, <3>1
  <2> QED  BY <1>1, <1>6, <2>1, <2>2
<1> QED  BY <1>12, <1>14 DEF Sorts, D

\* A permutation keeps the sizes of sets.
Image(p, S) == {p[j] : j \in S}

LEMMA ImageSize ==
  ASSUME NEW D, NEW p \in Bijection(D, D), NEW S \in SUBSET D, IsFiniteSet(D)
  PROVE  /\ IsFiniteSet(Image(p, S)) /\ Image(p, S) \in SUBSET D
         /\ Cardinality(Image(p, S)) = Cardinality(S)
<1> DEFINE R == Image(p, S)
           q == [j \in S |-> p[j]]
<1>1. p \in [D -> D] /\ \A a, b \in D : p[a] = p[b] => a = b
  BY Fun_BijectionProperties
<1>2. R \in SUBSET D
  BY <1>1 DEF Image
<1>3. q \in [S -> R] /\ \A a, b \in S : q[a] = q[b] => a = b
  BY <1>1 DEF Image
<1>4. \A r \in R : \E j \in S : q[j] = r
  BY DEF Image
<1> HIDE DEF q, R
<1>5. q \in Bijection(S, R)
  BY <1>3, <1>4, Fun_IsBij
<1>6. IsFiniteSet(S) /\ ExistsBijection(S, R)
  BY <1>5, FS_Subset DEF ExistsBijection
<1>7. IsFiniteSet(R) /\ Cardinality(R) = Cardinality(S)
  BY <1>6, FS_Bijection
<1> QED  BY <1>2, <1>7 DEF R

\* s has the first n times of h as p puts them in order.
Orders(p, h, s, n) ==
  /\ h \in [1 .. n -> Int] /\ s \in [1 .. n -> Int]
  /\ p \in [1 .. n -> 1 .. n]
  /\ \A k \in 1 .. n : \E j \in 1 .. n : p[j] = k
  /\ \A S \in SUBSET (1 .. n) : /\ IsFiniteSet(Image(p, S)) /\ Image(p, S) \in SUBSET (1 .. n)
                               /\ Cardinality(Image(p, S)) = Cardinality(S)
  /\ \A j \in 1 .. n : s[j] = h[p[j]]
  /\ \A j, k \in 1 .. n : j < k => s[j] <= s[k]

\* What the sort leaves is such an order.
LEMMA SortedIs ==
  ASSUME NEW h \in Seq(Int)
  PROVE  \E p : Orders(p, h, Sorted(h), Len(h))
<1> DEFINE D == DOMAIN h
<1>1. \E p \in Bijection(D, D) : Sorts(p, h)
  BY SortExists
<1>2. PICK p \in Bijection(D, D) : Sorts(p, h) /\ Sorted(h) = [k \in D |-> h[p[k]]]
  BY <1>1, Zenon DEF Sorted
<1>3. IsFiniteSet(D) /\ h \in [D -> Int] /\ D = 1 .. Len(h)
  <2>1. Len(h) \in Nat /\ D = 1 .. Len(h)
    OBVIOUS
  <2>2. h \in [D -> Int]
    OBVIOUS
  <2> HIDE DEF D
  <2>3. IsFiniteSet(1 .. Len(h))
    BY <2>1, FS_Interval
  <2> QED  BY <2>1, <2>2, <2>3
<1>4. \A j, k \in D : j < k => h[p[j]] <= h[p[k]]
  BY <1>2 DEF Sorts
<1> HIDE DEF D
<1>5. \A S \in SUBSET D : /\ IsFiniteSet(Image(p, S)) /\ Image(p, S) \in SUBSET D
                          /\ Cardinality(Image(p, S)) = Cardinality(S)
  <2>1. IsFiniteSet(D)
    BY <1>3
  <2> QED  BY <2>1, ImageSize
<1>6. p \in [D -> D] /\ \A k \in D : \E j \in D : p[j] = k
  BY <1>2, Fun_BijectionProperties
<1>7. \A j \in D : Sorted(h)[j] = h[p[j]]
  BY <1>2
<1>8. Sorted(h) \in [D -> Int]
  <2>1. \A k \in D : h[p[k]] \in Int
    BY <1>3, <1>6
  <2> QED  BY <1>2, <2>1
<1>9. \A j, k \in D : j < k => Sorted(h)[j] <= Sorted(h)[k]
  BY <1>4, <1>7
<1> QED  BY <1>3, <1>5, <1>6, <1>7, <1>8, <1>9 DEF Orders

\* The times of h that are at most, or at least, v.
AtMost(h, v) == {k \in DOMAIN h : h[k] <= v}
AtLeast(h, v) == {k \in DOMAIN h : h[k] >= v}

\* The a-th time in order: a times are at most it, and n - a + 1 at least it.
LEMMA CountsOfOrder ==
  ASSUME NEW n \in Nat, NEW h, NEW s, NEW p, NEW a \in 1 .. n, Orders(p, h, s, n)
  PROVE  /\ Cardinality(AtMost(h, s[a])) >= a
         /\ Cardinality(AtLeast(h, s[a])) >= n - a + 1
         /\ \A v \in Int :
              /\ Cardinality(AtMost(h, v)) \in Nat /\ Cardinality(AtLeast(h, v)) \in Nat
              /\ v < s[a] => Cardinality(AtMost(h, v)) <= a - 1
              /\ v > s[a] => Cardinality(AtLeast(h, v)) <= n - a
<1>1. /\ h \in [1 .. n -> Int] /\ s \in [1 .. n -> Int]
      /\ p \in [1 .. n -> 1 .. n] /\ \A k \in 1 .. n : \E j \in 1 .. n : p[j] = k
      /\ \A j \in 1 .. n : s[j] = h[p[j]]
      /\ \A j, k \in 1 .. n : j < k => s[j] <= s[k]
  BY DEF Orders
<1>2. IsFiniteSet(1 .. n)
  BY FS_Interval
<1>3. ASSUME NEW i \in Int, NEW j \in Int, i >= 1, j <= n, i <= j + 1
      PROVE  /\ IsFiniteSet(Image(p, i .. j)) /\ Cardinality(Image(p, i .. j)) = j - i + 1
             /\ Image(p, i .. j) \in SUBSET (1 .. n)
  <2>1. Cardinality(i .. j) = j - i + 1
    <3>1. Cardinality(i .. j) = IF i > j THEN 0 ELSE j - i + 1
      BY FS_Interval
    <3>2. i > j => j - i + 1 = 0
      BY <1>3
    <3> QED  BY <3>1, <3>2
  <2>2. i .. j \in SUBSET (1 .. n)
    BY <1>3
  <2>3. /\ IsFiniteSet(Image(p, i .. j)) /\ Image(p, i .. j) \in SUBSET (1 .. n)
        /\ Cardinality(Image(p, i .. j)) = Cardinality(i .. j)
    <3>1. PICK S \in SUBSET (1 .. n) : S = i .. j
      BY <2>2 DEF Image
    <3>2. /\ IsFiniteSet(Image(p, S)) /\ Image(p, S) \in SUBSET (1 .. n)
          /\ Cardinality(Image(p, S)) = Cardinality(S)
      BY DEF Orders
    <3> QED  BY <3>1, <3>2
  <2> QED  BY <2>1, <2>3
<1>4. ASSUME NEW v \in Int
      PROVE  /\ AtMost(h, v) \in SUBSET (1 .. n) /\ IsFiniteSet(AtMost(h, v))
             /\ Cardinality(AtMost(h, v)) \in Nat
             /\ AtLeast(h, v) \in SUBSET (1 .. n) /\ IsFiniteSet(AtLeast(h, v))
             /\ Cardinality(AtLeast(h, v)) \in Nat
  <2>1. AtMost(h, v) \in SUBSET (1 .. n) /\ AtLeast(h, v) \in SUBSET (1 .. n)
    BY <1>1 DEF AtMost, AtLeast
  <2> QED  BY <1>2, <2>1, FS_Subset, FS_CardinalityType
<1>5. s[a] \in Int /\ a \in Int /\ 1 <= a /\ a <= n /\ a - 1 \in Int /\ a + 1 \in Int
  BY <1>1
<1>0. ASSUME NEW j \in 1 .. n
      PROVE  s[j] \in Int /\ (j <= a => s[j] <= s[a]) /\ (j >= a => s[j] >= s[a])
  <2>1. s[j] \in Int /\ (j < a => s[j] <= s[a]) /\ (a < j => s[a] <= s[j])
    BY <1>1
  <2> QED  BY <1>5, <2>1
<1>6. Cardinality(AtMost(h, s[a])) >= a
  <2>1. \A j \in 1 .. a : s[j] <= s[a] /\ j \in 1 .. n
    BY <1>0, <1>5
  <2>2. \A j \in 1 .. a : p[j] \in AtMost(h, s[a])
    BY <1>1, <2>1 DEF AtMost
  <2>3. Image(p, 1 .. a) \in SUBSET AtMost(h, s[a])
    BY <2>2 DEF Image
  <2>4. Cardinality(Image(p, 1 .. a)) = a
    <3> QED  BY <1>3, <1>5
  <2> QED  BY <1>4, <1>5, <2>3, <2>4, FS_Subset
<1>7. Cardinality(AtLeast(h, s[a])) >= n - a + 1
  <2>1. \A j \in a .. n : s[j] >= s[a] /\ j \in 1 .. n
    BY <1>0, <1>5
  <2>2. \A j \in a .. n : p[j] \in AtLeast(h, s[a])
    BY <1>1, <2>1 DEF AtLeast
  <2>3. Image(p, a .. n) \in SUBSET AtLeast(h, s[a])
    BY <2>2 DEF Image
  <2>4. Cardinality(Image(p, a .. n)) = n - a + 1
    <3> QED  BY <1>3, <1>5
  <2> QED  BY <1>4, <1>5, <2>3, <2>4, FS_Subset
<1>8. ASSUME NEW v \in Int, v < s[a]
      PROVE  Cardinality(AtMost(h, v)) <= a - 1
  <2>1. AtMost(h, v) \in SUBSET Image(p, 1 .. a - 1)
    <3> SUFFICES ASSUME NEW k \in AtMost(h, v) PROVE k \in Image(p, 1 .. a - 1)
      OBVIOUS
    <3>1. k \in 1 .. n /\ h[k] <= v
      BY <1>1 DEF AtMost
    <3>2. PICK j \in 1 .. n : p[j] = k
      BY <1>1, <3>1
    <3>3. s[j] < s[a]
      <4>1. s[j] = h[k] /\ h[k] \in Int
        BY <1>1, <3>1, <3>2
      <4> QED  BY <1>5, <1>8, <3>1, <4>1
    <3>4. j \in 1 .. a - 1
      BY <1>0, <1>5, <3>3
    <3> QED  BY <3>2, <3>4 DEF Image
  <2>2. IsFiniteSet(Image(p, 1 .. a - 1)) /\ Cardinality(Image(p, 1 .. a - 1)) = a - 1
    <3> QED  BY <1>3, <1>5
  <2> QED  BY <1>5, <2>1, <2>2, FS_Subset
<1>9. ASSUME NEW v \in Int, v > s[a]
      PROVE  Cardinality(AtLeast(h, v)) <= n - a
  <2>1. AtLeast(h, v) \in SUBSET Image(p, a + 1 .. n)
    <3> SUFFICES ASSUME NEW k \in AtLeast(h, v) PROVE k \in Image(p, a + 1 .. n)
      OBVIOUS
    <3>1. k \in 1 .. n /\ h[k] >= v
      BY <1>1 DEF AtLeast
    <3>2. PICK j \in 1 .. n : p[j] = k
      BY <1>1, <3>1
    <3>3. s[j] > s[a]
      <4>1. s[j] = h[k] /\ h[k] \in Int
        BY <1>1, <3>1, <3>2
      <4> QED  BY <1>5, <1>9, <3>1, <4>1
    <3>4. j \in a + 1 .. n
      BY <1>0, <1>5, <3>3
    <3> QED  BY <3>2, <3>4 DEF Image
  <2>2. IsFiniteSet(Image(p, a + 1 .. n)) /\ Cardinality(Image(p, a + 1 .. n)) = n - a
    <3> QED  BY <1>3, <1>5
  <2> QED  BY <1>5, <2>1, <2>2, FS_Subset
<1> QED  BY <1>4, <1>6, <1>7, <1>8, <1>9

LEMMA CountsOfSorted ==
  ASSUME NEW h \in Seq(Int), NEW a \in 1 .. Len(h)
  PROVE  /\ \E k \in 1 .. Len(h) : Sorted(h)[a] = h[k]
         /\ Cardinality(AtMost(h, Sorted(h)[a])) >= a
         /\ Cardinality(AtLeast(h, Sorted(h)[a])) >= Len(h) - a + 1
         /\ \A v \in Int :
              /\ Cardinality(AtMost(h, v)) \in Nat /\ Cardinality(AtLeast(h, v)) \in Nat
              /\ v < Sorted(h)[a] => Cardinality(AtMost(h, v)) <= a - 1
              /\ v > Sorted(h)[a] => Cardinality(AtLeast(h, v)) <= Len(h) - a
<1>1. PICK p : Orders(p, h, Sorted(h), Len(h))
  BY SortedIs
<1>2. Len(h) \in Nat
  OBVIOUS
<1>3. \E k \in 1 .. Len(h) : Sorted(h)[a] = h[k]
  BY <1>1 DEF Orders
<1> QED  BY <1>1, <1>2, <1>3, CountsOfOrder

\* compute_median() returns the middle, of an even and of an odd history.
LEMMA MedianIsMiddle ==
  ASSUME NEW T \in SUBSET Int, NEW h \in Seq(T), h # <<>>
  PROVE  Median2(h) =
           Min({v \in T : 2 * Cardinality(AtMost(h, v)) >= Len(h)})
             + Max({v \in T : 2 * Cardinality(AtLeast(h, v)) >= Len(h)})
<1> DEFINE n == Len(h)
           s == Sorted(h)
           a == IF n % 2 = 0 THEN n \div 2 ELSE n \div 2 + 1
           b == n \div 2 + 1
           below == {v \in T : 2 * Cardinality(AtMost(h, v)) >= n}
           above == {v \in T : 2 * Cardinality(AtLeast(h, v)) >= n}
<1>1. h \in Seq(Int) /\ n \in Nat \ {0} /\ \A k \in 1 .. n : h[k] \in T
  <2>1. h \in Seq(Int)
    BY SeqMonotonic
  <2>2. n # 0
    BY EmptySeq
  <2> QED  BY <2>1, <2>2
<1> HIDE DEF n
<1>2. /\ a \in 1 .. n /\ b \in 1 .. n
      /\ 2 * a >= n /\ 2 * (a - 1) < n /\ 2 * (n - b + 1) >= n /\ 2 * (n - b) < n
  BY <1>1
<1>3. Median2(h) = s[a] + s[b]
  <2>1. s[b] \in Int
    BY <1>1, <1>2, CountsOfSorted DEF n
  <2> HIDE DEF s
  <2>2. Median2(h) = IF n % 2 = 0 THEN s[n \div 2] + s[n \div 2 + 1] ELSE 2 * s[n \div 2 + 1]
    BY DEF Median2, s, n
  <2> QED  BY <1>1, <2>1, <2>2
<1> HIDE DEF a, b
<1>4. Min(below) = s[a]
  <2>1. PICK x : x = s[a]
    OBVIOUS
  <2>2. /\ x \in T /\ x \in Int
        /\ Cardinality(AtMost(h, x)) >= a
        /\ \A v \in Int : /\ Cardinality(AtMost(h, v)) \in Nat
                          /\ v < x => Cardinality(AtMost(h, v)) <= a - 1
    BY <1>1, <1>2, <2>1, CountsOfSorted DEF n
  <2>3. 2 * Cardinality(AtMost(h, x)) >= n
    BY <1>1, <1>2, <2>2
  <2>4. ASSUME NEW v \in T, 2 * Cardinality(AtMost(h, v)) >= n PROVE x <= v
    BY <1>1, <1>2, <2>2, <2>4
  <2>5. below \in SUBSET Int /\ x \in below /\ \A v \in below : x <= v
    BY <2>2, <2>3, <2>4
  <2> HIDE DEF below
  <2> QED  BY <2>1, <2>5, MinIs
<1>5. Max(above) = s[b]
  <2>1. PICK x : x = s[b]
    OBVIOUS
  <2>2. /\ x \in T /\ x \in Int
        /\ Cardinality(AtLeast(h, x)) >= n - b + 1
        /\ \A v \in Int : /\ Cardinality(AtLeast(h, v)) \in Nat
                          /\ v > x => Cardinality(AtLeast(h, v)) <= n - b
    BY <1>1, <1>2, <2>1, CountsOfSorted DEF n
  <2>3. 2 * Cardinality(AtLeast(h, x)) >= n
    BY <1>1, <1>2, <2>2
  <2>4. ASSUME NEW v \in T, 2 * Cardinality(AtLeast(h, v)) >= n PROVE v <= x
    BY <1>1, <1>2, <2>2, <2>4
  <2>5. above \in SUBSET Int /\ x \in above /\ \A v \in above : v <= x
    BY <2>2, <2>3, <2>4
  <2> HIDE DEF above
  <2> QED  BY <2>1, <2>5, MaxIs
<1> QED  BY <1>3, <1>4, <1>5 DEF n

-----------------------------------------------------------------------------
(* The statistics are those of the times measured (pinger.cpp 29-60).      *)

\* S has a least and a greatest member, if any.
HasBounds(S) == S # {} => \E a, b \in S : \A v \in S : a <= v /\ v <= b

\* min and max are the bounds of the times S, or -1 when there is none.
BoundsAre(S, low, high) ==
  /\ S \in SUBSET Nat /\ HasBounds(S)
  /\ S = {} => low = -1 /\ high = -1
  /\ S # {} => low = Min(S) /\ high = Max(S)

\* The times that occur in s.
Values(s) == {s[k] : k \in 1 .. Len(s)}

\* The history that times s leave.
Latest(s, n) == SubSeq(s, Max({1, n - HistorySize + 1}), n)

\* The six statistics that times s have.
Tells(s, n, sum, recent, low, high, h) ==
  /\ n = Len(s)
  /\ sum = Sum(s)
  /\ recent = IF n = 0 THEN -1 ELSE s[n]
  /\ BoundsAre(Values(s), low, high)
  /\ h = Latest(s, n)
  /\ n # 0 => low * n <= sum /\ sum <= high * n

LEMMA MaxOfTwo ==
  ASSUME NEW a \in Int, NEW b \in Int
  PROVE  Max({a, b}) = IF a < b THEN b ELSE a
<1>1. CASE a < b
  BY <1>1, MaxIs
<1>2. CASE ~(a < b)
  BY <1>2, MaxIs
<1> QED  BY <1>1, <1>2

LEMMA NothingTold == Tells(<<>>, 0, 0, -1, -1, -1, <<>>)
<1>1. Max({1, 0 - HistorySize + 1}) = 1
  BY MaxOfTwo, TimesAreIntegers
<1>2. SubSeq(<<>>, 1, 0) = <<>> /\ Len(<<>>) = 0
  OBVIOUS
<1>3. Values(<<>>) = {}
  BY <1>2 DEF Values
<1>4. BoundsAre({}, -1, -1)
  BY DEF BoundsAre, HasBounds
<1> QED  BY <1>1, <1>2, <1>3, <1>4, SumOfNone DEF Tells, Latest

LEMMA Longer ==
  ASSUME NEW s \in Seq(Int), NEW t \in Int
  PROVE  /\ Append(s, t) \in Seq(Int) /\ Len(s) \in Nat /\ Len(Append(s, t)) = Len(s) + 1
         /\ Append(s, t)[Len(s) + 1] = t
         /\ \A k \in 1 .. Len(s) : Append(s, t)[k] = s[k] /\ s[k] \in Int
OBVIOUS

\* The last times, when there is one more.
LEMMA StretchOfMore ==
  ASSUME NEW s \in Seq(Int), NEW t \in Int, NEW n \in Nat, NEW m \in 1 .. n + 1, n = Len(s)
  PROVE  Append(SubSeq(s, m, n), t) = SubSeq(Append(s, t), m, n + 1)
<1> DEFINE r == Append(s, t)
           h == SubSeq(s, m, n)
           x == Append(h, t)
           y == SubSeq(r, m, n + 1)
<1>1. /\ r \in Seq(Int) /\ r[n + 1] = t
      /\ \A k \in 1 .. n : r[k] = s[k] /\ s[k] \in Int
  BY Longer
<1> HIDE DEF r
<1>2. \A i \in m .. n : s[i] \in Int
  BY <1>1
<1>3. /\ h \in Seq(Int) /\ Len(h) = n - m + 1
      /\ \A k \in 1 .. n - m + 1 : h[k] = s[m + k - 1]
  <2>1. /\ h \in Seq(Int) /\ Len(h) = (IF m <= n THEN n - m + 1 ELSE 0)
        /\ \A k \in 1 .. n - m + 1 : h[k] = s[m + k - 1]
    BY <1>2, SubSeqProperties
  <2> HIDE DEF h
  <2> QED  BY <2>1
<1> HIDE DEF h
<1>4. /\ x \in Seq(Int) /\ Len(x) = n - m + 2 /\ x[n - m + 2] = t
      /\ \A k \in 1 .. n - m + 1 : x[k] = s[m + k - 1]
  <2>1. /\ x \in Seq(Int) /\ Len(x) = Len(h) + 1 /\ x[Len(h) + 1] = t
        /\ \A k \in 1 .. Len(h) : x[k] = h[k]
    BY <1>3, Longer
  <2> HIDE DEF x
  <2> QED  BY <1>3, <2>1
<1> HIDE DEF x
<1>5. ASSUME NEW i \in m .. n + 1 PROVE r[i] \in Int
  <2>1. i \in 1 .. n \/ i = n + 1
    OBVIOUS
  <2> QED  BY <1>1, <2>1
<1>6. /\ y \in Seq(Int) /\ Len(y) = n - m + 2
      /\ \A k \in 1 .. n - m + 2 : y[k] = r[m + k - 1]
  <2>1. /\ y \in Seq(Int) /\ Len(y) = (IF m <= n + 1 THEN n + 1 - m + 1 ELSE 0)
        /\ \A k \in 1 .. n + 1 - m + 1 : y[k] = r[m + k - 1]
    BY <1>5, SubSeqProperties
  <2> HIDE DEF y
  <2>2. n + 1 - m + 1 = n - m + 2 /\ m <= n + 1
    OBVIOUS
  <2> QED  BY <2>1, <2>2
<1> HIDE DEF y
<1>7. \A k \in 1 .. n - m + 2 : x[k] = y[k]
  <2> SUFFICES ASSUME NEW k \in 1 .. n - m + 2 PROVE x[k] = y[k]
    OBVIOUS
  <2>1. y[k] = r[m + k - 1]
    BY <1>6
  <2>2. CASE k = n - m + 2
    BY <1>1, <1>4, <2>1, <2>2
  <2>3. CASE k # n - m + 2
    <3>1. k \in 1 .. n - m + 1 /\ m + k - 1 \in 1 .. n
      BY <2>3
    <3> QED  BY <1>1, <1>4, <2>1, <3>1
  <2> QED  BY <2>2, <2>3
<1>8. x = y
  BY <1>4, <1>6, <1>7, SeqEqual
<1> QED  BY <1>8 DEF r, h, x, y

LEMMA HistoryOfMore ==
  ASSUME NEW s \in Seq(Int), NEW t \in Int, NEW n \in Nat, n = Len(s)
  PROVE  Append(Keep(Latest(s, n)), t) = Latest(Append(s, t), n + 1)
<1>1. HistorySize \in Nat \ {0}
  BY TimesAreIntegers
<1>2. \A i \in 1 .. n : s[i] \in Int
  OBVIOUS
<1>3. ASSUME n < HistorySize
      PROVE  Append(Keep(SubSeq(s, Max({1, n - HistorySize + 1}), n)), t)
               = SubSeq(Append(s, t), Max({1, (n + 1) - HistorySize + 1}), n + 1)
  <2>1. Max({1, n - HistorySize + 1}) = 1 /\ Max({1, (n + 1) - HistorySize + 1}) = 1
    BY <1>1, <1>3, MaxOfTwo
  <2>2. SubSeq(s, 1, n) = s
    BY SubSeqFull
  <2>3. Keep(SubSeq(s, 1, n)) = SubSeq(s, 1, n)
    BY <1>1, <1>3, <2>2 DEF Keep
  <2>4. Append(SubSeq(s, 1, n), t) = SubSeq(Append(s, t), 1, n + 1)
    BY StretchOfMore
  <2> QED  BY <2>1, <2>3, <2>4
<1>4. ASSUME n >= HistorySize
      PROVE  Append(Keep(SubSeq(s, Max({1, n - HistorySize + 1}), n)), t)
               = SubSeq(Append(s, t), Max({1, (n + 1) - HistorySize + 1}), n + 1)
  <2>0. n - HistorySize + 1 \in 1 .. n
    BY <1>1, <1>4
  <2>1. PICK m \in 1 .. n : m = n - HistorySize + 1
    BY <2>0
  <2>2. Max({1, n - HistorySize + 1}) = m /\ Max({1, (n + 1) - HistorySize + 1}) = m + 1
    BY <1>1, <1>4, <2>1, MaxOfTwo
  <2>3. Len(SubSeq(s, m, n)) = HistorySize
    <3>1. Len(SubSeq(s, m, n)) = IF m <= n THEN n - m + 1 ELSE 0
      BY <1>2, SubSeqProperties
    <3> QED  BY <1>1, <2>1, <3>1
  <2>4. Keep(SubSeq(s, m, n)) = SubSeq(s, m + 1, n)
    <3>1. n \in m .. Len(s) /\ m \in 1 .. Len(s)
      OBVIOUS
    <3>2. Tail(SubSeq(s, m, n)) = SubSeq(s, m + 1, n)
      BY <3>1, HeadTailOfSubSeq
    <3> QED  BY <2>3, <3>2 DEF Keep
  <2>5. m + 1 \in 1 .. n + 1
    OBVIOUS
  <2>6. Append(SubSeq(s, m + 1, n), t) = SubSeq(Append(s, t), m + 1, n + 1)
    BY <2>5, StretchOfMore
  <2> QED  BY <2>2, <2>4, <2>6
<1>5. n < HistorySize \/ n >= HistorySize
  BY <1>1
<1>6. Append(Keep(SubSeq(s, Max({1, n - HistorySize + 1}), n)), t)
        = SubSeq(Append(s, t), Max({1, (n + 1) - HistorySize + 1}), n + 1)
  BY <1>3, <1>4, <1>5
<1> QED  BY <1>6, Zenon DEF Latest

(***************************************************************************)
(* One more time, as update() takes it into the statistics.                *)
(***************************************************************************)

LEMMA BoundsOfMore ==
  ASSUME NEW S, NEW low, NEW high, NEW t \in Nat, BoundsAre(S, low, high)
  PROVE  BoundsAre(S \cup {t}, IF low = -1 \/ t < low THEN t ELSE low, Max({high, t}))
<1>1. CASE S = {}
  <2>1. low = -1 /\ high = -1 /\ S \cup {t} = {t} /\ {t} \in SUBSET Int /\ t \in {t}
    BY <1>1 DEF BoundsAre
  <2>2. Min({t}) = t /\ Max({t}) = t
    BY <2>1, MinIs, MaxIs
  <2>3. Max({-1, t}) = t
    BY MaxOfTwo
  <2>4. HasBounds({t}) /\ {t} \in SUBSET Nat /\ {t} # {}
    BY DEF HasBounds
  <2>5. BoundsAre({t}, t, t)
    BY <2>2, <2>4 DEF BoundsAre
  <2>6. (IF low = -1 \/ t < low THEN t ELSE low) = t /\ Max({high, t}) = t
    BY <2>1, <2>3
  <2> QED  BY <2>1, <2>5, <2>6
<1>2. CASE S # {}
  <2>0. S \in SUBSET Nat /\ low = Min(S) /\ high = Max(S)
    BY <1>2 DEF BoundsAre
  <2>1. PICK a \in S, b \in S : \A v \in S : a <= v /\ v <= b
    BY <1>2 DEF BoundsAre, HasBounds
  <2>2. low = a /\ high = b
    BY <2>0, <2>1, MinIs, MaxIs
  <2>3. PICK c \in S \cup {t} : c = IF t < a THEN t ELSE a
    OBVIOUS
  <2>4. PICK d \in S \cup {t} : d = IF b < t THEN t ELSE b
    OBVIOUS
  <2>5. S \cup {t} \in SUBSET Nat /\ \A v \in S \cup {t} : c <= v /\ v <= d
    BY <2>0, <2>1, <2>3, <2>4
  <2>6. Min(S \cup {t}) = c /\ Max(S \cup {t}) = d
    <3>1. S \cup {t} \in SUBSET Int
      BY <2>5
    <3> QED  BY <2>5, <3>1, MinIs, MaxIs
  <2>7. Max({b, t}) = d
    BY <2>0, <2>4, MaxOfTwo
  <2>8. HasBounds(S \cup {t})
    BY <2>5 DEF HasBounds
  <2>9. BoundsAre(S \cup {t}, c, d)
    BY <2>5, <2>6, <2>8 DEF BoundsAre
  <2>10. (IF low = -1 \/ t < low THEN t ELSE low) = c /\ Max({high, t}) = d
    BY <2>0, <2>2, <2>3, <2>7
  <2> QED  BY <2>9, <2>10
<1> QED  BY <1>1, <1>2

LEMMA ValuesOfMore ==
  ASSUME NEW s \in Seq(Int), NEW t \in Int
  PROVE  Values(Append(s, t)) = Values(s) \cup {t}
<1> DEFINE r == Append(s, t)
           n == Len(s)
<1>1. /\ Len(r) = n + 1 /\ n \in Nat /\ r[n + 1] = t
      /\ \A k \in 1 .. n : r[k] = s[k]
  BY Longer
<1> HIDE DEF r, n
<1>2. 1 .. n + 1 = (1 .. n) \cup {n + 1}
  BY <1>1
<1>3. {r[k] : k \in 1 .. n + 1} = {s[k] : k \in 1 .. n} \cup {t}
  BY <1>1, <1>2
<1> QED  BY <1>1, <1>3 DEF Values, r, n

\* A count times a smaller number is smaller.
LEMMA Products ==
  ASSUME NEW a \in Int, NEW b \in Int, NEW n \in Nat, a <= b
  PROVE  a * n <= b * n /\ a * n \in Int /\ b * n \in Int /\ a * (n + 1) = a * n + a
OBVIOUS

\* The average stays between the bounds.
LEMMA AverageOfMore ==
  ASSUME NEW n \in Nat, NEW sum \in Int, NEW low \in Int, NEW high \in Int,
         NEW t \in Int, NEW l \in Int, NEW g \in Int,
         low * n <= sum, sum <= high * n, l <= low, l <= t, high <= g, t <= g
  PROVE  l * (n + 1) <= sum + t /\ sum + t <= g * (n + 1)
<1>1. l * n <= low * n /\ high * n <= g * n
  BY Products
<1>2. l * (n + 1) = l * n + l /\ g * (n + 1) = g * n + g
  BY Products
<1>3. /\ l * n \in Int /\ low * n \in Int /\ high * n \in Int /\ g * n \in Int
      /\ l * (n + 1) \in Int /\ g * (n + 1) \in Int
  OBVIOUS
<1> QED  BY <1>1, <1>2, <1>3

LEMMA Remainder == \A m \in Nat : \A x \in 0 .. m : x % (m + 1) = x
OBVIOUS

\* update() takes in one time: its statistics are those of one time more.
LEMMA OneMoreTold ==
  ASSUME NEW s \in Seq(Int), NEW t \in Nat, NEW n, NEW sum, NEW recent, NEW low, NEW high,
         NEW h, Tells(s, n, sum, recent, low, high, h),
         0 <= sum, Sum(Append(s, t)) <= MaxUint
  PROVE  Tells(Append(s, t), n + 1, (sum + t) % (MaxUint + 1), t,
               IF low = -1 \/ t < low THEN t ELSE low, Max({high, t}), Append(Keep(h), t))
<1> DEFINE r == Append(s, t)
           l == IF low = -1 \/ t < low THEN t ELSE low
           g == Max({high, t})
           f == Append(Keep(h), t)
           x == (sum + t) % (MaxUint + 1)
<1>1. n = Len(s) /\ n \in Nat /\ Len(r) = n + 1 /\ r[n + 1] = t
  BY Longer DEF Tells
<1>2. BoundsAre(Values(r), l, g)
  <2>1. BoundsAre(Values(s), low, high)
    BY DEF Tells
  <2>2. Values(r) = Values(s) \cup {t}
    BY ValuesOfMore
  <2> DEFINE S == Values(s)
  <2> HIDE DEF r, S
  <2>3. BoundsAre(S, low, high)
    BY <2>1 DEF S
  <2>4. BoundsAre(S \cup {t}, l, g)
    BY <2>3, BoundsOfMore, Zenon
  <2> HIDE DEF l, g
  <2> QED  BY <2>2, <2>4 DEF S
<1>3. x = Sum(r)
  <2>1. sum = Sum(s) /\ sum \in Int /\ Sum(r) = sum + t
    BY SumOfMore DEF Tells
  <2>2. MaxUint \in Nat
    BY TimesAreIntegers
  <2>4. sum + t \in 0 .. MaxUint
    BY <2>1, <2>2
  <2> QED  BY <2>1, <2>2, <2>4, Remainder
<1>4. f = Latest(r, n + 1)
  <2>1. h = Latest(s, n)
    BY DEF Tells
  <2>2. n \in Nat /\ n = Len(s) /\ t \in Int
    BY <1>1
  <2> QED  BY <2>1, <2>2, HistoryOfMore
<1>6. l * (n + 1) <= x /\ x <= g * (n + 1)
  <2>1. x = sum + t /\ sum \in Int
    BY <1>3, SumOfMore DEF Tells
  <2>2. CASE n = 0
    <3>1. Values(s) = {}
      BY <1>1, <2>2 DEF Values
    <3>2. low = -1 /\ high = -1
      BY <3>1 DEF Tells, BoundsAre
    <3>3. sum = 0
      <4>1. s = <<>>
        BY <1>1, <2>2, EmptySeq
      <4> QED  BY <4>1, SumOfNone DEF Tells
    <3>4. l = t /\ g = t
      BY <3>2, MaxOfTwo
    <3>5. l * (n + 1) = t /\ g * (n + 1) = t
      BY <2>2, <3>4
    <3> QED  BY <2>1, <3>3, <3>5
  <2>3. CASE n # 0
    <3>1. Values(s) # {} /\ Values(s) \in SUBSET Nat
      <4>1. 1 \in 1 .. Len(s)
        BY <1>1, <2>3
      <4> QED  BY <4>1 DEF Values, Tells, BoundsAre
    <3>2. PICK a \in Nat, b \in Nat : low = a /\ high = b
      <4>1. PICK a \in Values(s), b \in Values(s) :
              \A v \in Values(s) : a <= v /\ v <= b
        BY <3>1 DEF Tells, BoundsAre, HasBounds
      <4>2. Values(s) \in SUBSET Int
        BY <3>1
      <4>3. Min(Values(s)) = a /\ Max(Values(s)) = b
        BY <4>1, <4>2, MinIs, MaxIs
      <4>4. a \in Nat /\ b \in Nat /\ low = a /\ high = b
        BY <3>1, <4>3 DEF Tells, BoundsAre
      <4> QED  BY <4>4
    <3>3. low * n <= sum /\ sum <= high * n
      BY <2>3 DEF Tells
    <3>4. l \in Int /\ g \in Int /\ l <= low /\ l <= t /\ high <= g /\ t <= g
      BY <3>2, MaxOfTwo
    <3> HIDE DEF l, g, x
    <3>5. l * (n + 1) <= sum + t /\ sum + t <= g * (n + 1)
      <4>1. /\ n \in Nat /\ sum \in Int /\ low \in Int /\ high \in Int /\ t \in Int
            /\ l \in Int /\ g \in Int
        BY <1>1, <2>1, <3>2, <3>4
      <4> QED  BY <3>3, <3>4, <4>1, AverageOfMore, Zenon
    <3> QED  BY <2>1, <3>5
  <2> QED  BY <2>2, <2>3
<1> HIDE DEF r, l, g, f, x
<1>5. \A m : m = n + 1 => Tells(r, m, x, t, l, g, f)
  <2> SUFFICES ASSUME NEW m, m = n + 1 PROVE Tells(r, m, x, t, l, g, f)
    OBVIOUS
  <2>0. n + 1 = m
    OBVIOUS
  <2>1. m = Len(r) /\ m # 0 /\ t = r[m]
    BY <1>1
  <2>2. f = Latest(r, m)
    BY <1>4, <2>0
  <2>3. l * m <= x /\ x <= g * m
    BY <1>6
  <2> QED  BY <1>2, <1>3, <2>1, <2>2, <2>3 DEF Tells
<1> QED  BY <1>5 DEF r, l, g, f, x

\* The times of samples s.
TimesOf(s) == [k \in DOMAIN s |-> s[k].time]

LEMMA TimesOfMore ==
  ASSUME NEW s \in Seq(Sample), NEW e \in Sample
  PROVE  /\ TimesOf(s) \in Seq(Int) /\ e.time \in Int
         /\ TimesOf(Append(s, e)) = Append(TimesOf(s), e.time)
<1> DEFINE n == Len(s)
           r == Append(s, e)
           x == TimesOf(s)
           y == TimesOf(r)
           z == Append(x, e.time)
<1>1. /\ n \in Nat /\ DOMAIN s = 1 .. n /\ DOMAIN r = 1 .. n + 1 /\ r[n + 1] = e
      /\ \A k \in 1 .. n : r[k] = s[k] /\ s[k] \in Sample
  OBVIOUS
<1>2. e.time \in Int /\ \A k \in 1 .. n : s[k].time \in Int
  BY <1>1 DEF Sample
<1>3. x \in [1 .. n -> Int] /\ \A k \in 1 .. n : x[k] = s[k].time
  BY <1>1, <1>2 DEF TimesOf
<1>4. x \in Seq(Int) /\ Len(x) = n
  BY <1>1, <1>3
<1> HIDE DEF r, x
<1>5. y = [k \in 1 .. n + 1 |-> r[k].time]
  BY <1>1 DEF TimesOf
<1>6. /\ z \in Seq(Int) /\ Len(z) = n + 1 /\ z[n + 1] = e.time
      /\ \A k \in 1 .. n : z[k] = x[k]
  BY <1>2, <1>4, Longer
<1> HIDE DEF z, n
<1>7. ASSUME NEW k \in 1 .. n + 1 PROVE y[k] = z[k] /\ y[k] \in Int
  <2>1. y[k] = r[k].time
    BY <1>5
  <2>2. k \in 1 .. n \/ k = n + 1
    BY <1>1
  <2> QED  BY <1>1, <1>2, <1>3, <1>6, <2>1, <2>2
<1>8. y \in [1 .. n + 1 -> Int]
  BY <1>5, <1>7
<1> HIDE DEF y
<1>9. y \in Seq(Int) /\ Len(y) = n + 1
  BY <1>1, <1>8
<1>10. y = z
  BY <1>6, <1>7, <1>9, SeqEqual
<1> QED  BY <1>2, <1>4, <1>10 DEF r, x, y, z

LEMMA TimesOfNone == TimesOf(<<>>) = <<>>
BY DEF TimesOf

\* No clock was set back, and the sum of the times fits unsigned int.
AllSane(s) == (\A k \in DOMAIN s : s[k].time >= 0) /\ Sum(TimesOf(s)) <= MaxUint

LEMMA SaneIs == \A i \in Site : Sane(i) = AllSane(samples[i]) /\ Times(i) = TimesOf(samples[i])
BY DEF Sane, AllSane, Times, TimesOf

\* Times that are sane were so before the last of them.
LEMMA SaneBefore ==
  ASSUME NEW s \in Seq(Sample), NEW e \in Sample, AllSane(Append(s, e))
  PROVE  e.time \in Nat /\ AllSane(s) /\ Sum(Append(TimesOf(s), e.time)) <= MaxUint
<1> DEFINE r == Append(s, e)
<1>1. /\ Len(s) \in Nat /\ DOMAIN s = 1 .. Len(s) /\ DOMAIN r = 1 .. Len(s) + 1
      /\ r[Len(s) + 1] = e /\ \A k \in 1 .. Len(s) : r[k] = s[k]
  OBVIOUS
<1>2. Sum(Append(TimesOf(s), e.time)) <= MaxUint
  BY TimesOfMore DEF AllSane
<1>3. \A k \in DOMAIN r : r[k].time >= 0
  BY DEF AllSane
<1> HIDE DEF r
<1>4. e.time >= 0 /\ \A k \in DOMAIN s : s[k].time >= 0
  BY <1>1, <1>3
<1>5. e.time \in Int /\ Sum(TimesOf(s)) \in Int /\ MaxUint \in Int
      /\ Sum(Append(TimesOf(s), e.time)) = Sum(TimesOf(s)) + e.time
  BY TimesOfMore, SumOfMore, TimesAreIntegers
<1> QED  BY <1>2, <1>4, <1>5 DEF AllSane

(***************************************************************************)
(* The invariant: while the times are sane, the statistics are theirs.     *)
(***************************************************************************)
Matches(i) ==
  AllSane(samples[i]) =>
    Tells(TimesOf(samples[i]), count[i], total[i], last[i], min[i], max[i], history[i])

\* A new time, after a reset() of full sums or not.
LEMMA RecordMatches ==
  ASSUME Shape, Statistics, NEW i \in Site, NEW t \in Time, Matches(i), Record(i, t)
  PROVE  Matches(i)'
<1> SUFFICES ASSUME AllSane(samples'[i])
             PROVE  Tells(TimesOf(samples'[i]), count'[i], total'[i], last'[i], min'[i], max'[i],
                          history'[i])
  BY DEF Matches
<1> DEFINE Since(old, start) == IF Full(i) THEN start ELSE old
           s == Since(samples[i], <<>>)
           e == [ping |-> counter[i], time |-> t]
           n == Since(count[i], 0)
           sum == Since(total[i], 0)
           recent == Since(last[i], -1)
           low == Since(min[i], -1)
           high == Since(max[i], -1)
           h == Since(history[i], <<>>)
<1>1. /\ count'[i] = n + 1
      /\ total'[i] = (sum + t) % (MaxUint + 1)
      /\ last'[i] = t
      /\ max'[i] = Max({high, t})
      /\ min'[i] = IF low = -1 \/ t < low THEN t ELSE low
      /\ history'[i] = Append(Keep(h), t)
      /\ samples'[i] = Append(s, e)
  BY DEF Record, Statistics, Shape
<1>2. s \in Seq(Sample) /\ e \in Sample /\ e.time = t /\ 0 <= sum
  <2>1. samples[i] \in Seq(Sample) /\ <<>> \in Seq(Sample)
    BY DEF Shape
  <2>2. e \in Sample /\ e.time = t
    BY TimesAreIntegers DEF Sample, Shape
  <2>3. 0 <= sum
    BY DEF Statistics
  <2> QED  BY <2>1, <2>2, <2>3
<1>3. AllSane(s) => Tells(TimesOf(s), n, sum, recent, low, high, h)
  BY NothingTold, TimesOfNone DEF Matches
<1> HIDE DEF s, e, n, sum, recent, low, high, h
<1>4. t \in Nat /\ AllSane(s) /\ Sum(Append(TimesOf(s), t)) <= MaxUint
  BY <1>1, <1>2, SaneBefore
<1>5. TimesOf(s) \in Seq(Int) /\ TimesOf(Append(s, e)) = Append(TimesOf(s), t)
  BY <1>2, TimesOfMore
<1> DEFINE x == TimesOf(s)
<1> HIDE DEF x
<1>6. Tells(x, n, sum, recent, low, high, h) /\ x \in Seq(Int) /\ Sum(Append(x, t)) <= MaxUint
  BY <1>3, <1>4, <1>5 DEF x
<1>7. Tells(Append(x, t), n + 1, (sum + t) % (MaxUint + 1), t,
            IF low = -1 \/ t < low THEN t ELSE low, Max({high, t}), Append(Keep(h), t))
  BY <1>2, <1>4, <1>6, OneMoreTold
<1> QED  BY <1>1, <1>5, <1>7 DEF x

Matched == \A i \in Site : Matches(i)

\* Only the pinger of site i takes a step that changes statistics.
Elsewhere(i) ==
  \A j \in Site \ {i} :
    /\ samples'[j] = samples[j] /\ count'[j] = count[j] /\ total'[j] = total[j]
    /\ last'[j] = last[j] /\ min'[j] = min[j] /\ max'[j] = max[j]
    /\ history'[j] = history[j]

LEMMA InitMatched == Init => Matched
<1> SUFFICES ASSUME Init, NEW i \in Site PROVE Matches(i)
  BY DEF Matched
<1>1. /\ samples[i] = <<>> /\ count[i] = 0 /\ total[i] = 0 /\ last[i] = -1 /\ min[i] = -1
      /\ max[i] = -1 /\ history[i] = <<>>
  BY DEF Init, PingerInit
<1> QED  BY <1>1, NothingTold, TimesOfNone DEF Matches

LEMMA OthersMatch ==
  ASSUME Matched, NEW i \in Site, Elsewhere(i), Matches(i)'
  PROVE  Matched'
<1> SUFFICES ASSUME NEW j \in Site PROVE Matches(j)'
  BY DEF Matched
<1>1. CASE j # i
  <2>1. Matches(j)
    BY DEF Matched
  <2>2. /\ samples'[j] = samples[j] /\ count'[j] = count[j] /\ total'[j] = total[j]
        /\ last'[j] = last[j] /\ min'[j] = min[j] /\ max'[j] = max[j]
        /\ history'[j] = history[j]
    BY <1>1 DEF Elsewhere
  <2> QED  BY <2>1, <2>2 DEF Matches
<1> QED  BY <1>1

\* An error resets the statistics: those of no time.
LEMMA ResetMatches ==
  ASSUME Shape, Statistics, Matched, NEW i \in Site, Reset(i)
  PROVE  Matched'
<1>1. Elsewhere(i)
  BY DEF Reset, Elsewhere, Shape, Statistics
<1>2. /\ samples'[i] = <<>> /\ count'[i] = 0 /\ total'[i] = 0 /\ last'[i] = -1
      /\ min'[i] = -1 /\ max'[i] = -1 /\ history'[i] = <<>>
  BY DEF Reset, Shape, Statistics
<1>3. Matches(i)'
  BY <1>2, NothingTold, TimesOfNone DEF Matches
<1> QED  BY <1>1, <1>3, OthersMatch

LEMMA NextKeepsMatched ==
  ASSUME Shape, Types, Matched, [Next]_vars
  PROVE  Matched'
<1>1. CASE UNCHANGED <<stats, samples>>
  BY <1>1 DEF stats, Matched, Matches
<1>2. ASSUME NEW i \in Site, TakeTime(i) PROVE Matched'
  <2>1. time[i] \in Time /\ Record(i, time[i]) /\ Statistics
    BY <1>2 DEF TakeTime, Types, Sockets
  <2>2. Matches(i)'
    BY <2>1, RecordMatches DEF Matched
  <2>3. Elsewhere(i)
    BY <2>1 DEF Record, Elsewhere, Shape, Statistics
  <2> QED  BY <2>2, <2>3, OthersMatch
<1>3. ASSUME NEW i \in Site,
             SendFails(i) \/ SelectFails(i) \/ ReceiveOther(i) \/ ReceiveFails(i)
      PROVE  Matched'
  BY <1>3, ResetMatches DEF SendFails, SelectFails, ReceiveOther, ReceiveFails, Fails, Types
<1>4. CASE BeginUpdate \/ ReadNext \/ UNCHANGED vars
  BY <1>1, <1>4 DEF BeginUpdate, ReadNext, vars, pingerVars
<1>5. ASSUME NEW i \in Site, Ask(i) PROVE Matched'
  BY <1>1, <1>5 DEF Ask, pingerVars
<1>6. ASSUME NEW i \in Site, NEW n \in flying[i], Deliver(i, n) \/ Double(i, n) \/ Lose(i, n)
      PROVE  Matched'
  BY <1>1, <1>6 DEF Deliver, Double, Lose
<1>7. ASSUME NEW i \in Site,
             Recover(i) \/ SendPing(i) \/ SendLater(i) \/ WaitForReply(i) \/ ReceiveReply(i)
      PROVE  Matched'
  BY <1>1, <1>7 DEF Recover, SendPing, SendLater, WaitForReply, ReceiveReply
<1> QED  BY <1>2, <1>3, <1>4, <1>5, <1>6, <1>7 DEF Next

\* The invariant, and the median, are what StatisticsMatch says.
LEMMA MatchedMeansStatisticsMatch == Types /\ Shape /\ Matched => StatisticsMatch
<1> SUFFICES ASSUME Types, Shape, Matched PROVE StatisticsMatch
  OBVIOUS
<1>1. ASSUME NEW i \in Site, history[i] # <<>>
      PROVE  Median(i) =
               <<Min({v \in Time : 2 * Cardinality({k \in DOMAIN history[i] : history[i][k] <= v})
                                     >= Len(history[i])})
                 + Max({v \in Time : 2 * Cardinality({k \in DOMAIN history[i] : history[i][k] >= v})
                                       >= Len(history[i])})>>
  <2>1. history[i] \in Seq(Time) /\ Time \in SUBSET Int
    BY TimesAreIntegers DEF Types, Statistics
  <2> QED  BY <1>1, <2>1, MedianIsMiddle, Zenon DEF Median, AtMost, AtLeast
<1>2. ASSUME NEW i \in Site, NEW s, s = Times(i), Sane(i)
      PROVE  /\ count[i] = Len(s)
             /\ total[i] = Sum(s)
             /\ last[i] = IF Len(s) = 0 THEN -1 ELSE s[Len(s)]
             /\ min[i] = IF Len(s) = 0 THEN -1 ELSE Min({s[k] : k \in 1 .. Len(s)})
             /\ max[i] = IF Len(s) = 0 THEN -1 ELSE Max({s[k] : k \in 1 .. Len(s)})
             /\ history[i] = SubSeq(s, Max({1, Len(s) - HistorySize + 1}), Len(s))
  <2>1. s = TimesOf(samples[i]) /\ AllSane(samples[i])
    BY <1>2, SaneIs
  <2>2. Tells(s, count[i], total[i], last[i], min[i], max[i], history[i])
    BY <2>1 DEF Matched, Matches
  <2>3. samples[i] \in Seq(Sample)
    BY DEF Shape
  <2>4. s \in Seq(Int)
    <3>1. \A r \in Seq(Sample) : TimesOf(r) \in Seq(Int)
      <4> SUFFICES ASSUME NEW r \in Seq(Sample) PROVE TimesOf(r) \in Seq(Int)
        OBVIOUS
      <4>1. [ping |-> 0, time |-> 0] \in Sample
        BY DEF Sample
      <4> QED  BY <4>1, TimesOfMore
    <3> QED  BY <2>1, <2>3, <3>1
  <2>5. Len(s) \in Nat /\ (Len(s) = 0 => Values(s) = {}) /\ (Len(s) # 0 => Values(s) # {})
    <3>1. Len(s) \in Nat
      BY <2>4
    <3>2. Len(s) # 0 => 1 \in 1 .. Len(s)
      BY <3>1
    <3> QED  BY <3>1, <3>2 DEF Values
  <2>6. /\ min[i] = IF Len(s) = 0 THEN -1 ELSE Min(Values(s))
        /\ max[i] = IF Len(s) = 0 THEN -1 ELSE Max(Values(s))
    BY <2>2, <2>5 DEF Tells, BoundsAre
  <2>7. /\ count[i] = Len(s) /\ total[i] = Sum(s)
        /\ last[i] = IF Len(s) = 0 THEN -1 ELSE s[Len(s)]
        /\ history[i] = Latest(s, Len(s))
    BY <2>2 DEF Tells
  <2> QED  BY <2>6, <2>7, Zenon DEF Values, Latest
<1> QED  BY <1>1, <1>2, Zenon DEF StatisticsMatch

-----------------------------------------------------------------------------
(* The reads of one call fit together (c_api.cpp 519-547).                 *)

\* Bounds are times, and all times are between them.
LEMMA BoundsMean ==
  ASSUME NEW S, NEW low, NEW high, BoundsAre(S, low, high), S # {}
  PROVE  /\ low \in Nat /\ high \in Nat /\ low \in S /\ high \in S
         /\ \A v \in S : low <= v /\ v <= high
<1>1. S \in SUBSET Nat /\ low = Min(S) /\ high = Max(S)
  BY DEF BoundsAre
<1>2. PICK a \in S, b \in S : \A v \in S : a <= v /\ v <= b
  BY DEF BoundsAre, HasBounds
<1>3. S \in SUBSET Int
  BY <1>1
<1>4. Min(S) = a /\ Max(S) = b
  BY <1>2, <1>3, MinIs, MaxIs
<1> QED  BY <1>1, <1>2, <1>4

LEMMA ValuesOfSome ==
  ASSUME NEW s \in Seq(Int), Len(s) # 0
  PROVE  /\ Len(s) \in Nat /\ s[Len(s)] \in Int
         /\ s[Len(s)] \in Values(s) /\ Values(s) # {}
<1>1. Len(s) \in Nat /\ Len(s) \in 1 .. Len(s)
  OBVIOUS
<1>2. s[Len(s)] \in Int
  BY <1>1
<1> QED  BY <1>1, <1>2 DEF Values

\* The last and the average time lie between the bounds.
LEMMA TellsMean ==
  ASSUME NEW s \in Seq(Int), NEW n, NEW sum, NEW recent, NEW low, NEW high, NEW h,
         Tells(s, n, sum, recent, low, high, h), n # 0
  PROVE  /\ n \in Nat /\ sum \in Int /\ recent \in Int /\ low \in Nat /\ high \in Nat
         /\ low <= recent /\ recent <= high
         /\ low * n <= sum /\ sum <= high * n
<1>1. n = Len(s) /\ recent = s[n] /\ BoundsAre(Values(s), low, high)
  BY DEF Tells
<1>2. n \in Nat /\ recent \in Int /\ recent \in Values(s) /\ Values(s) # {}
  BY <1>1, ValuesOfSome
<1>3. low \in Nat /\ high \in Nat /\ low <= recent /\ recent <= high
  BY <1>1, <1>2, BoundsMean
<1>4. sum \in Int
  BY SumOfMore DEF Tells
<1>5. low * n <= sum /\ sum <= high * n
  BY DEF Tells
<1> QED  BY <1>2, <1>3, <1>4, <1>5

\* What a prefix has in common with the longer sequence.
LEMMA PrefixIs ==
  ASSUME NEW S, NEW s \in Seq(S), NEW r \in Seq(S), IsPrefix(s, r)
  PROVE  Len(s) <= Len(r) /\ \A k \in 1 .. Len(s) : s[k] = r[k]
<1>1. Len(s) <= Len(r) /\ SubSeq(s, 1, Len(s)) = SubSeq(r, 1, Len(s))
  BY DEF IsPrefix
<1> DEFINE x == SubSeq(s, 1, Len(s))
           y == SubSeq(r, 1, Len(s))
<1>2. Len(s) \in Nat /\ Len(r) \in Nat
  OBVIOUS
<1>3. \A k \in 1 .. Len(s) : x[k] = s[k]
  BY SubSeqFull
<1>4. \A k \in 1 .. Len(s) : r[k] \in S
  BY <1>1, <1>2
<1>5. \A k \in 1 .. Len(s) : y[k] = r[k]
  <2>1. \A k \in 1 .. Len(s) - 1 + 1 : y[k] = r[1 + k - 1]
    BY <1>4, SubSeqProperties
  <2> HIDE DEF y
  <2> QED  BY <1>2, <2>1
<1>6. x = y
  BY <1>1
<1> HIDE DEF x, y
<1> QED  BY <1>1, <1>3, <1>5, <1>6

\* More times, wider bounds.
LEMMA BoundsWiden ==
  ASSUME NEW s \in Seq(Sample), NEW r \in Seq(Sample), NEW low, NEW high, NEW l, NEW g,
         IsPrefix(s, r), s # <<>>,
         BoundsAre(Values(TimesOf(s)), low, high), BoundsAre(Values(TimesOf(r)), l, g)
  PROVE  /\ low \in Nat /\ high \in Nat /\ l \in Nat /\ g \in Nat
         /\ l <= low /\ high <= g
<1>1. Len(s) <= Len(r) /\ \A k \in 1 .. Len(s) : s[k] = r[k]
  BY PrefixIs
<1>2. Len(s) \in Nat /\ Len(r) \in Nat /\ Len(s) # 0 /\ DOMAIN s = 1 .. Len(s)
      /\ DOMAIN r = 1 .. Len(r)
  BY EmptySeq
<1>3. TimesOf(s) \in Seq(Int) /\ TimesOf(r) \in Seq(Int)
  <2>1. [ping |-> 0, time |-> 0] \in Sample
    BY DEF Sample
  <2> QED  BY <2>1, TimesOfMore
<1>4. DOMAIN TimesOf(s) = 1 .. Len(s) /\ DOMAIN TimesOf(r) = 1 .. Len(r)
  BY <1>2 DEF TimesOf
<1>5. Len(TimesOf(s)) = Len(s) /\ Len(TimesOf(r)) = Len(r)
  <2>1. \A x \in Seq(Int), n \in Nat : DOMAIN x = 1 .. n => Len(x) = n
    OBVIOUS
  <2> QED  BY <1>2, <1>3, <1>4, <2>1
<1>6. \A k \in 1 .. Len(s) : TimesOf(s)[k] = TimesOf(r)[k]
  BY <1>1, <1>2 DEF TimesOf
<1>7. Values(TimesOf(s)) \subseteq Values(TimesOf(r)) /\ Values(TimesOf(s)) # {}
  BY <1>1, <1>2, <1>5, <1>6 DEF Values
<1> DEFINE S == Values(TimesOf(s))
           R == Values(TimesOf(r))
<1> HIDE DEF S, R
<1>8. S \subseteq R /\ S # {} /\ BoundsAre(S, low, high) /\ BoundsAre(R, l, g)
  BY <1>7 DEF S, R
<1>9. low \in Nat /\ high \in Nat /\ low \in S /\ high \in S
  BY <1>8, BoundsMean
<1>10. l \in Nat /\ g \in Nat /\ \A v \in R : l <= v /\ v <= g
  BY <1>8, BoundsMean
<1> QED  BY <1>8, <1>9, <1>10

(***************************************************************************)
(* What has been read fits together, and fits the bounds as they are now:  *)
(* they only widen while the call goes on.                                 *)
(***************************************************************************)
ReadSoFar(g, low, high) ==
  /\ \A k \in 1 .. Len(g) : g[k][1] = Order[k]
  /\ Len(g) >= 1 =>
       /\ g[1][2][1] \in Int
       /\ low <= g[1][2][1] /\ g[1][2][1] <= high
  /\ Len(g) >= 2 =>
       /\ g[2][2][1] \in Int /\ g[2][2][2] \in Nat
       /\ low * g[2][2][2] <= g[2][2][1] /\ g[2][2][1] <= high * g[2][2][2]
  /\ Len(g) >= 3 =>
       /\ g[3][2][1] \in Int
       /\ g[3][2][1] <= g[1][2][1]
       /\ g[3][2][1] * g[2][2][2] <= g[2][2][1]
  /\ Len(g) >= 4 =>
       /\ g[4][2][1] \in Int
       /\ g[1][2][1] <= g[4][2][1]
       /\ g[2][2][1] <= g[4][2][1] * g[2][2][2]

\* The reads of pinger i, so far.
Reading(i) ==
  /\ AllSane(samples[i]) /\ samples[i] # <<>>
  /\ ReadSoFar(got, min[i], max[i])

ReadsAgree == asked # 0 /\ ~torn => Reading(asked)

\* Wider bounds still hold what was read.
LEMMA ReadsStayFit ==
  ASSUME NEW g, NEW low \in Int, NEW high \in Int, NEW l \in Int, NEW h \in Int,
         l <= low, high <= h, ReadSoFar(g, low, high)
  PROVE  ReadSoFar(g, l, h)
<1>1. ASSUME NEW v \in Int, low <= v, v <= high PROVE l <= v /\ v <= h
  BY <1>1
<1>2. ASSUME NEW s \in Int, NEW c \in Nat, low * c <= s, s <= high * c
      PROVE  l * c <= s /\ s <= h * c
  <2>1. l * c <= low * c /\ high * c <= h * c
    BY Products
  <2>2. l * c \in Int /\ low * c \in Int /\ high * c \in Int /\ h * c \in Int
    OBVIOUS
  <2> QED  BY <1>2, <2>1, <2>2
<1>3. Len(g) >= 1 => l <= g[1][2][1] /\ g[1][2][1] <= h
  BY <1>1 DEF ReadSoFar
<1>4. Len(g) >= 2 => l * g[2][2][2] <= g[2][2][1] /\ g[2][2][1] <= h * g[2][2][2]
  BY <1>2 DEF ReadSoFar
<1> QED  BY <1>3, <1>4, Zenon DEF ReadSoFar

\* The bounds that were read are third and fourth; they hold what came before.
LEMMA ReadsAgreeMeansReadsFit == Types /\ ReadsAgree => ReadsFit
<1> SUFFICES ASSUME Types, ReadsAgree, ~torn,
                    NEW low \in ToSet(got), NEW high \in ToSet(got), NEW x \in ToSet(got),
                    low[1] = "min", high[1] = "max"
             PROVE  /\ x[1] = "last" => low[2][1] <= x[2][1] /\ x[2][1] <= high[2][1]
                    /\ x[1] = "average" => /\ low[2][1] * x[2][2] <= x[2][1]
                                           /\ x[2][1] <= high[2][1] * x[2][2]
  BY Zenon DEF ReadsFit
<1>1. PICK S : got \in Seq(S)
  BY DEF Types, Callers
<1>2. Len(got) \in Nat /\ Len(got) <= 5 /\ DOMAIN got = 1 .. Len(got)
  BY <1>1 DEF Types, Callers
<1>3. PICK a \in 1 .. Len(got), b \in 1 .. Len(got), c \in 1 .. Len(got) :
        low = got[a] /\ high = got[b] /\ x = got[c]
  BY <1>2 DEF ToSet
<1>4. asked # 0
  <2>1. got # <<>>
    BY <1>2, <1>3, EmptySeq
  <2> QED  BY <2>1 DEF Types, Callers
<1>5. ReadSoFar(got, min[asked], max[asked])
  BY <1>4 DEF ReadsAgree, Reading
<1>6. \A k \in 1 .. Len(got) : got[k][1] = Order[k]
  BY <1>5 DEF ReadSoFar
<1>7. /\ a \in 1 .. 5 /\ b \in 1 .. 5 /\ c \in 1 .. 5
      /\ Order[a] = "min" /\ Order[b] = "max"
      /\ x[1] = Order[c]
  BY <1>2, <1>3, <1>6
<1>8. a = 3 /\ b = 4
  BY <1>7 DEF Order
<1>9. Len(got) >= 4
  BY <1>2, <1>3, <1>8
<1>10. (x[1] = "last" => c = 1) /\ (x[1] = "average" => c = 2)
  BY <1>7 DEF Order
<1>11. /\ got[3][2][1] <= got[1][2][1] /\ got[1][2][1] <= got[4][2][1]
       /\ got[3][2][1] * got[2][2][2] <= got[2][2][1]
       /\ got[2][2][1] <= got[4][2][1] * got[2][2][2]
  BY <1>2, <1>5, <1>9 DEF ReadSoFar
<1> QED  BY <1>3, <1>8, <1>10, <1>11

LEMMA InitReads == Init => ReadsAgree
BY DEF Init, ReadsAgree

\* The pinger whose statistics are being read may take in more times.
LEMMA GrowthKeepsReads ==
  ASSUME Shape, Shape', Matched, Matched', Types, ReadsAgree,
         asked' = asked, got' = got,
         asked # 0 /\ ~torn' =>
           ~torn /\ AllSane(samples'[asked]) /\ IsPrefix(samples[asked], samples'[asked])
  PROVE  ReadsAgree'
<1> SUFFICES ASSUME asked # 0, ~torn' PROVE Reading(asked)'
  BY DEF ReadsAgree
<1> DEFINE i == asked
           s == samples[i]
           r == samples'[i]
<1>1. i \in Site
  BY PingerAssumption DEF Types, Callers, Site
<1>2. AllSane(s) /\ s # <<>> /\ ReadSoFar(got, min[i], max[i])
  BY DEF ReadsAgree, Reading
<1>3. s \in Seq(Sample) /\ r \in Seq(Sample) /\ AllSane(r) /\ IsPrefix(s, r)
  BY <1>1 DEF Shape
<1>4. r # <<>>
  <2>1. Len(s) <= Len(r) /\ Len(s) \in Nat /\ Len(s) # 0
    BY <1>2, <1>3, PrefixIs, EmptySeq
  <2> QED  BY <2>1
<1>5. /\ BoundsAre(Values(TimesOf(s)), min[i], max[i])
      /\ BoundsAre(Values(TimesOf(r)), min'[i], max'[i])
  BY <1>1, <1>2, <1>3, Zenon DEF Matched, Matches, Tells
<1> HIDE DEF s, r, i
<1>6. /\ min[i] \in Nat /\ max[i] \in Nat /\ min'[i] \in Nat /\ max'[i] \in Nat
      /\ min'[i] <= min[i] /\ max[i] <= max'[i]
  BY <1>2, <1>3, <1>5, BoundsWiden
<1>7. ReadSoFar(got, min'[i], max'[i])
  BY <1>2, <1>6, ReadsStayFit
<1> QED  BY <1>3, <1>4, <1>7 DEF Reading, i, r

LEMMA PrefixOfItself == \A s : Len(s) \in Nat => IsPrefix(s, s)
BY DEF IsPrefix

LEMMA OneMore ==
  ASSUME NEW S, NEW g \in Seq(S), NEW y
  PROVE  /\ Len(g) \in Nat /\ Len(Append(g, y)) = Len(g) + 1
         /\ Append(g, y)[Len(g) + 1] = y
         /\ \A k \in 1 .. Len(g) : Append(g, y)[k] = g[k]
<1> DEFINE T == S \cup {y}
<1>1. g \in Seq(T)
  BY SeqMonotonic
<1>2. y \in T
  OBVIOUS
<1> HIDE DEF T
<1> QED  BY <1>1, <1>2

\* Statistics that are valid, of times that are sane.
LEMMA StatisticsMean ==
  ASSUME Shape, Matched, NEW i \in Site, AllSane(samples[i]), count[i] # 0
  PROVE  /\ count[i] \in Nat /\ total[i] \in Int /\ last[i] \in Int
         /\ min[i] \in Nat /\ max[i] \in Nat
         /\ min[i] <= last[i] /\ last[i] <= max[i]
         /\ min[i] * count[i] <= total[i] /\ total[i] <= max[i] * count[i]
<1> DEFINE s == TimesOf(samples[i])
<1>1. s \in Seq(Int)
  <2>1. [ping |-> 0, time |-> 0] \in Sample
    BY DEF Sample
  <2>2. samples[i] \in Seq(Sample)
    BY DEF Shape
  <2> QED  BY <2>1, <2>2, TimesOfMore
<1>2. Tells(s, count[i], total[i], last[i], min[i], max[i], history[i])
  BY DEF Matched, Matches
<1> HIDE DEF s
<1> QED  BY <1>1, <1>2, TellsMean

\* With no time counted, nothing is valid and a call stops at its first read.
LEMMA NotNone ==
  ASSUME Shape, Matched, NEW i \in Site, AllSane(samples[i])
  PROVE  count[i] = 0 => samples[i] = <<>> /\ last[i] = -1
<1> SUFFICES ASSUME count[i] = 0 PROVE samples[i] = <<>> /\ last[i] = -1
  OBVIOUS
<1>1. Tells(TimesOf(samples[i]), 0, total[i], last[i], min[i], max[i], history[i])
  BY DEF Matched, Matches
<1>2. 0 = Len(TimesOf(samples[i])) /\ last[i] = -1
  BY <1>1 DEF Tells
<1>3. samples[i] = <<>>
  <2>1. samples[i] \in Seq(Sample) /\ [ping |-> 0, time |-> 0] \in Sample
    BY DEF Shape, Sample
  <2>2. TimesOf(samples[i]) \in Seq(Int)
    BY <2>1, TimesOfMore
  <2>3. TimesOf(samples[i]) = <<>>
    BY <1>2, <2>2, EmptySeq
  <2>4. DOMAIN TimesOf(samples[i]) = DOMAIN samples[i]
    BY DEF TimesOf
  <2>5. DOMAIN samples[i] = 1 .. Len(samples[i]) /\ Len(samples[i]) \in Nat
    BY <2>1
  <2>6. DOMAIN TimesOf(samples[i]) = {}
    BY <2>3
  <2>7. Len(samples[i]) = 0
    BY <2>4, <2>5, <2>6
  <2> QED  BY <2>1, <2>7, EmptySeq
<1> QED  BY <1>2, <1>3

\* A read after which the call goes on.
LEMMA Continues ==
  ASSUME NEW i \in Site, NEW k \in 1 .. 6, Read(i, k), asked' # 0
  PROVE  /\ k # 6 /\ Statistic(i)[Order[k]] # <<>>
         /\ asked' = i
         /\ got' = Append(got, <<Order[k], Statistic(i)[Order[k]]>>)
         /\ torn' = IF k = 1 THEN ~Sane(i) ELSE torn
<1>1. Len(Order) = 6
  BY DEF Order
<1> QED  BY <1>1, Zenon DEF Read

\* The last time is read first: it lies between the bounds of that moment.
LEMMA FirstRead ==
  ASSUME Shape, Matched, NEW i \in Site, got = <<>>, Read(i, 1), UNCHANGED pingerVars
  PROVE  ReadsAgree'
<1> SUFFICES ASSUME asked' # 0, ~torn' PROVE Reading(asked)'
  BY DEF ReadsAgree
<1>1. /\ Statistic(i)[Order[1]] # <<>> /\ asked' = i
      /\ got' = Append(<<>>, <<Order[1], Statistic(i)[Order[1]]>>)
      /\ torn' = ~Sane(i)
  <2>1. 1 \in 1 .. 6
    OBVIOUS
  <2> QED  BY <2>1, Continues
<1>2. Order[1] = "last" /\ Statistic(i)["last"] = Told(last[i])
  BY DEF Order, Statistic
<1>3. got' = <<<<"last", Told(last[i])>>>> /\ Told(last[i]) # <<>>
  BY <1>1, <1>2
<1>4. AllSane(samples[i])
  BY <1>1, SaneIs
<1>5. count[i] # 0
  <2>1. Told(-1) = <<>>
    BY DEF Told
  <2> QED  BY <1>3, <1>4, <2>1, NotNone
<1>6. last[i] \in Int /\ min[i] <= last[i] /\ last[i] <= max[i]
  BY <1>4, <1>5, StatisticsMean
<1>7. got' = <<<<"last", <<last[i]>>>>>>
  BY <1>3 DEF Told
<1>8. ReadSoFar(got', min[i], max[i])
  <2>1. Len(got') = 1 /\ got'[1][1] = Order[1] /\ got'[1][2][1] = last[i]
    BY <1>2, <1>7
  <2> QED  BY <1>6, <2>1 DEF ReadSoFar
<1>9. samples[i] # <<>>
  <2>1. Len(TimesOf(samples[i])) = count[i]
    BY <1>4 DEF Matched, Matches, Tells
  <2> QED  BY <1>5, <2>1, TimesOfNone
<1>10. samples' = samples /\ min' = min /\ max' = max
  BY DEF pingerVars, stats
<1> QED  BY <1>1, <1>4, <1>8, <1>9, <1>10 DEF Reading

\* Each further read is of statistics that hold what was read before.
LEMMA FurtherRead ==
  ASSUME Shape, Types, Matched, ReadsAgree, NEW i \in Site, NEW k \in 2 .. 6,
         asked = i, k = Len(got) + 1, Read(i, k), UNCHANGED pingerVars
  PROVE  ReadsAgree'
<1> SUFFICES ASSUME asked' # 0, ~torn' PROVE Reading(asked)'
  BY DEF ReadsAgree
<1> DEFINE x == Statistic(i)[Order[k]]
           g == Append(got, <<Order[k], x>>)
<1>1. k # 6 /\ x # <<>> /\ asked' = i /\ got' = g /\ torn' = torn
  <2>1. k \in 1 .. 6 /\ k # 1
    OBVIOUS
  <2> QED  BY <2>1, Continues
<1>2. asked # 0
  BY PingerAssumption DEF Site
<1>3. AllSane(samples[i]) /\ samples[i] # <<>> /\ ReadSoFar(got, min[i], max[i])
  BY <1>1, <1>2 DEF ReadsAgree, Reading
<1>4. count[i] # 0
  BY <1>3, NotNone
<1>5. /\ count[i] \in Nat /\ total[i] \in Int
      /\ min[i] \in Nat /\ max[i] \in Nat
      /\ min[i] * count[i] <= total[i] /\ total[i] <= max[i] * count[i]
  BY <1>3, <1>4, StatisticsMean
<1>6. PICK S : got \in Seq(S)
  BY DEF Types, Callers
<1>7. /\ Len(got) = k - 1 /\ Len(g) = k /\ g[k] = <<Order[k], x>>
      /\ \A j \in 1 .. k - 1 : g[j] = got[j]
  <2>1. Len(got) \in Nat /\ k - 1 = Len(got)
    BY <1>6
  <2> HIDE DEF x, g
  <2> QED  BY <1>6, <2>1, OneMore DEF g
<1>8. /\ k = 2 => x = <<total[i], count[i]>>
      /\ k = 3 => x = <<min[i]>>
      /\ k = 4 => x = <<max[i]>>
  <2>1. /\ Order[2] = "average" /\ Order[3] = "min" /\ Order[4] = "max"
        /\ Statistic(i)["average"] = Average(i)
        /\ Statistic(i)["min"] = Told(min[i]) /\ Statistic(i)["max"] = Told(max[i])
    BY DEF Order, Statistic
  <2>2. Told(min[i]) = <<min[i]>> /\ Told(max[i]) = <<max[i]>>
    BY <1>5 DEF Told
  <2>3. Average(i) # <<>> => Average(i) = <<total[i], count[i]>>
    BY DEF Average
  <2> QED  BY <1>1, <2>1, <2>2, <2>3
<1> HIDE DEF x, g
<1>9. \A j \in 1 .. k : g[j][1] = Order[j]
  <2>1. \A j \in 1 .. k - 1 : got[j][1] = Order[j]
    BY <1>3, <1>7 DEF ReadSoFar
  <2>2. g[k][1] = Order[k]
    BY <1>7
  <2> QED  BY <1>7, <2>1, <2>2
<1>10. ReadSoFar(g, min[i], max[i])
  <2>1. CASE k = 2
    <3>1. g[1] = got[1] /\ g[2][2] = <<total[i], count[i]>> /\ Len(got) = 1 /\ Len(g) = 2
      BY <1>7, <1>8, <2>1
    <3>2. g[2][2][1] = total[i] /\ g[2][2][2] = count[i]
      BY <3>1
    <3> QED  BY <1>3, <1>5, <1>9, <2>1, <3>1, <3>2 DEF ReadSoFar
  <2>2. CASE k = 3
    <3>1. g[1] = got[1] /\ g[2] = got[2] /\ g[3][2] = <<min[i]>> /\ Len(got) = 2 /\ Len(g) = 3
      BY <1>7, <1>8, <2>2
    <3>2. g[3][2][1] = min[i]
      BY <3>1
    <3> QED  BY <1>3, <1>5, <1>9, <2>2, <3>1, <3>2 DEF ReadSoFar
  <2>3. CASE k = 4
    <3>1. /\ g[1] = got[1] /\ g[2] = got[2] /\ g[3] = got[3] /\ g[4][2] = <<max[i]>>
          /\ Len(got) = 3 /\ Len(g) = 4
      BY <1>7, <1>8, <2>3
    <3>2. g[4][2][1] = max[i]
      BY <3>1
    <3> QED  BY <1>3, <1>5, <1>9, <2>3, <3>1, <3>2 DEF ReadSoFar
  <2>4. CASE k = 5
    <3>1. /\ g[1] = got[1] /\ g[2] = got[2] /\ g[3] = got[3] /\ g[4] = got[4]
          /\ Len(got) = 4 /\ Len(g) = 5
      BY <1>7, <2>4
    <3> QED  BY <1>3, <1>9, <2>4, <3>1 DEF ReadSoFar
  <2> QED  BY <1>1, <2>1, <2>2, <2>3, <2>4
<1>11. samples' = samples /\ min' = min /\ max' = max
  BY DEF pingerVars, stats
<1> QED  BY <1>1, <1>3, <1>10, <1>11 DEF Reading

\* One update of pinger i.
UpdateOf(i) ==
  \/ TakeTime(i) \/ Recover(i) \/ SendPing(i) \/ SendFails(i) \/ SendLater(i)
  \/ WaitForReply(i) \/ ReceiveReply(i) \/ ReceiveOther(i)
  \/ SelectFails(i) \/ ReceiveFails(i)

LEMMA UpdateElsewhere ==
  ASSUME Shape, NEW i \in Site, UpdateOf(i)
  PROVE  \A j \in Site \ {i} : samples'[j] = samples[j]
<1>1. samples' = samples \/ \E x : samples' = [samples EXCEPT ![i] = x]
  BY DEF UpdateOf, TakeTime, Recover, SendPing, SendFails, SendLater, WaitForReply,
     ReceiveReply, ReceiveOther, SelectFails, ReceiveFails, Fails, Reset, Record
<1> QED  BY <1>1 DEF Shape

\* Updates may come between the reads; a reset in between is told by torn.
LEMMA NextKeepsReads ==
  ASSUME Shape, Shape', Types, Matched, Matched', ReadsAgree, [Next]_vars
  PROVE  ReadsAgree'
<1>0. ASSUME asked # 0
      PROVE  /\ asked \in Site /\ samples[asked] \in Seq(Sample)
             /\ IsPrefix(samples[asked], samples[asked])
  <2>1. asked \in Site
    BY <1>0, PingerAssumption DEF Types, Callers, Site
  <2>2. samples[asked] \in Seq(Sample)
    BY <2>1 DEF Shape
  <2> QED  BY <2>1, <2>2, PrefixOfItself
<1>1. CASE asked' = asked /\ got' = got /\ torn' = torn /\ samples' = samples
  BY <1>0, <1>1, GrowthKeepsReads DEF ReadsAgree, Reading
<1>2. ASSUME NEW i \in Site, UpdateOf(i), Turn(i) PROVE ReadsAgree'
  <2>1. /\ asked' = asked /\ got' = got
        /\ torn' = (torn \/ (asked = i /\ ~(IsPrefix(samples[i], samples'[i]) /\ Sane(i)')))
    BY <1>2 DEF Turn
  <2>2. Sane(i)' = AllSane(samples'[i])
    BY DEF Sane, AllSane, Times, TimesOf
  <2>3. ASSUME asked # 0, ~torn'
        PROVE  ~torn /\ AllSane(samples'[asked]) /\ IsPrefix(samples[asked], samples'[asked])
    <3>1. ~torn
      BY <2>1, <2>3
    <3>2. AllSane(samples[asked])
      BY <2>3, <3>1 DEF ReadsAgree, Reading
    <3>3. CASE asked = i
      BY <2>1, <2>2, <2>3, <3>1, <3>3
    <3>4. CASE asked # i
      <4>1. samples'[asked] = samples[asked]
        BY <1>0, <1>2, <2>3, <3>4, UpdateElsewhere
      <4> QED  BY <1>0, <2>3, <3>1, <3>2, <4>1
    <3> QED  BY <3>3, <3>4
  <2> QED  BY <2>1, <2>3, GrowthKeepsReads
<1>3. ASSUME NEW i \in Site, Ask(i) PROVE ReadsAgree'
  <2>1. got = <<>> /\ Read(i, 1) /\ UNCHANGED pingerVars
    BY <1>3 DEF Ask, Types, Callers
  <2> QED  BY <2>1, FirstRead
<1>4. CASE ReadNext
  <2>1. asked # 0 /\ Read(asked, Len(got) + 1) /\ UNCHANGED pingerVars
    BY <1>4 DEF ReadNext
  <2>3. CASE got = <<>>
    <3>1. Len(got) + 1 = 1
      BY <2>3
    <3> QED  BY <1>0, <2>1, <2>3, <3>1, FirstRead
  <2>4. CASE got # <<>>
    <3>1. PICK S : got \in Seq(S)
      BY DEF Types, Callers
    <3>2. Len(got) \in Nat /\ Len(got) # 0 /\ Len(got) <= 5
      BY <2>4, <3>1, EmptySeq DEF Types, Callers
    <3>3. Len(got) + 1 \in 2 .. 6
      BY <3>2
    <3> QED  BY <1>0, <2>1, <3>3, FurtherRead
  <2> QED  BY <2>3, <2>4
<1>5. CASE BeginUpdate \/ UNCHANGED vars
  BY <1>1, <1>5 DEF BeginUpdate, vars, pingerVars, reader
<1>6. ASSUME NEW i \in Site, NEW n \in flying[i], Deliver(i, n) \/ Double(i, n) \/ Lose(i, n),
             UNCHANGED <<at, reader>>
      PROVE  ReadsAgree'
  BY <1>1, <1>6 DEF Deliver, Double, Lose, reader
<1> QED  BY <1>2, <1>3, <1>4, <1>5, <1>6 DEF Next, UpdateOf

LEMMA ReadsHold == Spec => [](Inv /\ Types /\ Matched /\ ReadsAgree)
<1>1. Init => Inv /\ Types /\ Matched /\ ReadsAgree
  BY InitInv, InitTypes, InitMatched, InitReads
<1>2. Inv /\ Types /\ Matched /\ ReadsAgree /\ [Next]_vars
        => (Inv /\ Types /\ Matched /\ ReadsAgree)'
  <2> SUFFICES ASSUME Inv, Types, Matched, ReadsAgree, [Next]_vars
               PROVE  (Inv /\ Types /\ Matched /\ ReadsAgree)'
    OBVIOUS
  <2>1. Inv' /\ Types'
    BY NextPreservesInv, NextKeepsTypes
  <2>2. Shape /\ Shape'
    BY <2>1 DEF Inv
  <2>3. Matched'
    BY <2>2, NextKeepsMatched
  <2>4. ReadsAgree'
    BY <2>2, <2>3, NextKeepsReads
  <2> QED  BY <2>1, <2>3, <2>4
<1> QED  BY <1>1, <1>2, PTL DEF Spec

(***************************************************************************)
(* For any number of sites, any clock, history size and unsigned int, and  *)
(* however datagrams are lost, late or doubled: as long as no clock was set*)
(* back and the sum fits, the statistics a pinger keeps one by one         *)
(* (pinger.cpp 29-60) are those of the times measured since the last error *)
(* or overflow, and the median (193-213) is the middle of the history.     *)
(***************************************************************************)
THEOREM StatisticsAreThoseOfTheTimes == Spec => []StatisticsMatch
<1>1. Inv /\ Types /\ Matched /\ ReadsAgree => StatisticsMatch
  BY MatchedMeansStatisticsMatch DEF Inv
<1> QED  BY <1>1, ReadsHold, PTL

(***************************************************************************)
(* Though the mutex is taken for each statistic (c_api.cpp 519-547) and    *)
(* updates may come in between, the last and the average time that a call  *)
(* returns lie between its smallest and largest, unless the statistics were*)
(* reset meanwhile: last and average are read before the bounds, and bounds*)
(* only widen.                                                             *)
(***************************************************************************)
THEOREM OneCallReadsWhatFits == Spec => []ReadsFit
<1>1. Inv /\ Types /\ Matched /\ ReadsAgree => ReadsFit
  BY ReadsAgreeMeansReadsFit
<1> QED  BY <1>1, ReadsHold, PTL
=============================================================================
