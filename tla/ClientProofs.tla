----------------------------- MODULE ClientProofs -----------------------------
(***************************************************************************)
(* Client for every capacity, every set of messages and every bound: its   *)
(* types, that a client which waits to connect is clean, that a refused    *)
(* attempt is followed by none before the delay is over, and that on each  *)
(* connection the agent introduces itself once and in time.                *)
(*                                                                         *)
(* `Inv' ties where Agent::update() is to the connection; `Informs' says   *)
(* what of the introduction is still to be said at each of those places.   *)
(***************************************************************************)
EXTENDS Client, FiniteSetTheorems, SequenceTheorems, TLAPS

\* Client::update() works on a connection, and no other call comes between.
UpdateConnected == at \in {"updating", "reading"} => connected

\* A refused attempt leaves its time, until the delay is over, and no
\* connection.
RefusalNoted == refused => ~connected /\ (recent \/ elapsed)

Inv == TypeOK /\ StartsClean /\ UpdateConnected /\ RefusalNoted

-----------------------------------------------------------------------------
(* Types, and the attempts to connect.                                     *)

LEMMA InitInv == Init => Inv
<1> SUFFICES ASSUME Init PROVE Inv
  OBVIOUS
<1>1. /\ outgoing \in Seq(Messages) /\ Len(outgoing) <= OutCap
      /\ incoming \in Seq(Incoming) /\ Len(incoming) <= MaxIncoming
      /\ queued \in Seq(Messages)
  BY ClientBounds DEF Init
<1>2. /\ connected \in BOOLEAN /\ wasReady \in BOOLEAN
      /\ recent \in BOOLEAN /\ elapsed \in BOOLEAN /\ refused \in BOOLEAN
  BY Zenon DEF Init
<1>3. /\ life \in {"off", "on", "blocked"}
      /\ socket \in {"none", "fresh", "open", "half"}
      /\ conn \in {"uninitialized", "handshake", "ready"}
      /\ at \in {"idle", "updating", "reading"} \cup Info
      /\ full \subseteq Info
  BY DEF Init
<1>4. drops \in 0 .. MaxDrops /\ broken \in 0 .. MaxBroken /\ starts \in 0 .. MaxStarts
  BY ClientBounds DEF Init
<1>5. TypeOK
  BY <1>1, <1>2, <1>3, <1>4 DEF TypeOK
<1> QED
  BY <1>5 DEF Init, Inv, StartsClean, UpdateConnected, RefusalNoted

\* A client closes only a connection, so that no refusal is on record.
LEMMA ClosePreservesInv ==
  ASSUME Inv, connected, CloseClient
  PROVE  Inv'
<1> USE ClientBounds DEF Inv, TypeOK, CloseClient, ClearConnection
<1>1. /\ outgoing' = <<>> /\ incoming' = <<>> /\ queued' = <<>> /\ full' = {}
      /\ Len(outgoing') = 0 /\ Len(incoming') = 0
  OBVIOUS
<1>2. /\ outgoing' \in Seq(Messages) /\ incoming' \in Seq(Incoming)
      /\ queued' \in Seq(Messages)
  BY <1>1
<1>3. connected' = FALSE /\ recent' = FALSE
  OBVIOUS
<1>6. connected' \in BOOLEAN /\ recent' \in BOOLEAN
  BY <1>3, Zenon
<1>7. drops' \in 0 .. MaxDrops /\ broken' \in 0 .. MaxBroken
  OBVIOUS
<1>8. socket' \in {"none", "fresh", "open", "half"} /\ at' \in {"idle"}
  OBVIOUS
<1>9. TypeOK'
  BY <1>1, <1>2, <1>6, <1>7, <1>8
<1>4. RefusalNoted'
  BY DEF RefusalNoted
<1>5. StartsClean' /\ UpdateConnected'
  BY <1>1 DEF StartsClean, UpdateConnected
<1> QED  BY <1>9, <1>4, <1>5

\* What a thread that sends changes.
LEMMA QueuePreservesInv ==
  ASSUME Inv, NEW m \in Messages, Queue(m),
         UNCHANGED <<life, link, incoming, timer, wasReady, bounds>>,
         at' \in {"idle", "updating", "reading"} \cup Info,
         at' \in {"updating", "reading"} => at \in {"updating", "reading"},
         full' \subseteq Info
  PROVE  Inv'
<1> USE DEF Inv, TypeOK, Queue, CanQueue, link, timer, bounds
<1>1. /\ outgoing' \in Seq(Messages) /\ queued' \in Seq(Messages)
      /\ Len(outgoing') <= OutCap
  BY ClientBounds
<1> QED
  BY <1>1 DEF StartsClean, UpdateConnected, RefusalNoted

LEMMA NextPreservesInv == Inv /\ [Next]_vars => Inv'
<1> SUFFICES ASSUME Inv, [Next]_vars PROVE Inv'
  OBVIOUS
<1> USE ClientBounds
    DEF Inv, link, queues, timer, history, bounds
<1>1. CASE Start
  BY <1>1 DEF Start, TypeOK, StartsClean, UpdateConnected, RefusalNoted
<1>2. CASE StartBlocks
  BY <1>2 DEF StartBlocks, TypeOK, StartsClean, UpdateConnected, RefusalNoted
<1>3. CASE Shutdown
  <2>1. /\ outgoing' = <<>> /\ incoming' = <<>> /\ queued' = <<>> /\ full' = {}
        /\ Len(outgoing') = 0 /\ Len(incoming') = 0
    BY <1>3 DEF Shutdown, ClearConnection
  <2>4. connected' \in BOOLEAN
    BY <1>3, Zenon DEF Shutdown
  <2>5. /\ outgoing' \in Seq(Messages) /\ incoming' \in Seq(Incoming)
        /\ queued' \in Seq(Messages) /\ full' \subseteq Info
    BY <2>1
  <2>2. TypeOK'
    BY <1>3, <2>1, <2>4, <2>5 DEF Shutdown, ClearConnection, TypeOK
  <2>3. StartsClean' /\ UpdateConnected' /\ RefusalNoted'
    BY <1>3, <2>1 DEF Shutdown, ClearConnection, ClientFree, TypeOK, StartsClean,
                      UpdateConnected, RefusalNoted
  <2> QED  BY <2>2, <2>3
<1>4. CASE Begin
  <2>1. wasReady' \in BOOLEAN
    BY <1>4, Zenon DEF Begin
  <2> QED
    BY <1>4, <2>1 DEF Begin, Idle, TypeOK, StartsClean, UpdateConnected, RefusalNoted
<1>5. CASE ConnectFails
  <2>1. recent' = TRUE /\ elapsed' = FALSE /\ refused' = TRUE /\ wasReady' = FALSE
    BY <1>5, Zenon DEF ConnectFails
  <2>2. /\ recent' \in BOOLEAN /\ elapsed' \in BOOLEAN /\ refused' \in BOOLEAN
        /\ wasReady' \in BOOLEAN
    BY <2>1, Zenon
  <2>3. /\ socket' \in {"none", "fresh", "open", "half"}
        /\ socket' = socket \/ socket' = "half"
        /\ broken' \in 0 .. MaxBroken
    BY <1>5 DEF ConnectFails, TypeOK
  <2>4. TypeOK'
    BY <1>5, <2>2, <2>3 DEF ConnectFails, TypeOK
  <2>5. StartsClean' /\ UpdateConnected' /\ RefusalNoted'
    BY <1>5, <2>1, <2>3 DEF ConnectFails, Idle, StartsClean, UpdateConnected, RefusalNoted
  <2> QED  BY <2>4, <2>5
<1>6. CASE ConnectSucceeds
  BY <1>6 DEF ConnectSucceeds, Idle, TypeOK, StartsClean, UpdateConnected, RefusalNoted
<1>7. CASE ConnectionFails
  BY <1>7, ClosePreservesInv DEF ConnectionFails, UpdateConnected
<1>8. CASE ConnectionHandshakes
  BY <1>8 DEF ConnectionHandshakes, TypeOK, StartsClean, UpdateConnected, RefusalNoted
<1>9. CASE ConnectionFlows
  <2>1. incoming' \in Seq(Incoming) /\ Len(incoming') <= MaxIncoming
    BY <1>9 DEF ConnectionFlows, TypeOK
  <2>3. Len(<<>>) = 0 /\ <<>> \in Seq(Messages)
    OBVIOUS
  <2>4. outgoing' = outgoing \/ outgoing' = <<>>
    BY <1>9 DEF ConnectionFlows
  <2>2. outgoing' \in Seq(Messages) /\ Len(outgoing') <= OutCap
    <3>1. CASE outgoing' = outgoing  BY <3>1 DEF TypeOK
    <3>2. CASE outgoing' = <<>>  BY <3>2, <2>3
    <3> QED  BY <2>4, <3>1, <3>2
  <2> QED
    BY <1>9, <2>1, <2>2
    DEF ConnectionFlows, TypeOK, StartsClean, UpdateConnected, RefusalNoted
<1>10. CASE ReadMessage
  <2>1. incoming' \in Seq(Incoming) /\ Len(incoming') <= MaxIncoming
    BY <1>10 DEF ReadMessage, TypeOK
  <2> QED
    BY <1>10, <2>1 DEF ReadMessage, TypeOK, StartsClean, UpdateConnected, RefusalNoted
<1>11. CASE ReadMalformed
  BY <1>11, ClosePreservesInv DEF ReadMalformed, UpdateConnected
<1>12. CASE EndUpdate
  BY <1>12 DEF EndUpdate, TypeOK, Info, StartsClean, UpdateConnected, RefusalNoted
<1>13. ASSUME NEW m \in Info, NEW then \in {"idle"} \cup Info, SendInfo(m, then)
       PROVE  Inv'
  <2>1. CASE Queue(m)
    <3>1. at' = then /\ at' \notin {"updating", "reading"}
      BY <1>13 DEF SendInfo, Info
    <3>2. full' \subseteq Info
      BY <1>13 DEF SendInfo, TypeOK
    <3>3. m \in Messages
      BY DEF Messages
    <3> QED
      BY <1>13, <2>1, <3>1, <3>2, <3>3, QueuePreservesInv DEF SendInfo
  <2>2. CASE UNCHANGED <<outgoing, queued>>
    <3>1. full' \subseteq Info
      BY <1>13 DEF SendInfo, TypeOK
    <3>2. at' = then /\ then \in {"idle", "host_information", "application_instance_information"}
      BY <1>13 DEF SendInfo, Info
    <3>3. UNCHANGED <<life, link, incoming, timer, wasReady, bounds>>
      BY <1>13 DEF SendInfo
    <3>4. TypeOK'
      BY <2>2, <3>1, <3>2, <3>3 DEF TypeOK, Info
    <3>5. StartsClean' /\ UpdateConnected' /\ RefusalNoted'
      BY <2>2, <3>2, <3>3 DEF StartsClean, UpdateConnected, RefusalNoted
    <3> QED  BY <3>4, <3>5
  <2>3. Queue(m) \/ UNCHANGED <<outgoing, queued>>
    BY <1>13 DEF SendInfo
  <2> QED  BY <2>1, <2>2, <2>3
<1>14. CASE Inform
  BY <1>13, <1>14 DEF Inform, Info
<1>15. CASE DelayElapses
  BY <1>15 DEF DelayElapses, TypeOK, StartsClean, UpdateConnected, RefusalNoted
<1>16. ASSUME NEW m \in LockedSend, SendLocked(m) PROVE Inv'
  BY <1>16, QueuePreservesInv DEF SendLocked, Messages, TypeOK
<1>17. ASSUME NEW m \in Command, SendCommand(m) PROVE Inv'
  BY <1>17, QueuePreservesInv DEF SendCommand, Messages, TypeOK
<1>18. CASE UNCHANGED vars
  BY <1>18 DEF vars, TypeOK, StartsClean, UpdateConnected, RefusalNoted
<1> QED
  BY <1>1, <1>2, <1>3, <1>4, <1>5, <1>6, <1>7, <1>8, <1>9, <1>10, <1>11, <1>12, <1>14,
     <1>15, <1>16, <1>17, <1>18 DEF Next, Step

LEMMA InvHolds == Spec => []Inv
BY InitInv, NextPreservesInv, PTL DEF Spec

(***************************************************************************)
(* Every field keeps its type, and no thread queues past the capacity.     *)
(***************************************************************************)
THEOREM TypeCorrect == Spec => []TypeOK
<1>1. Inv => TypeOK
  BY DEF Inv
<1> QED  BY <1>1, InvHolds, PTL

(***************************************************************************)
(* Whatever ended its last connection, a client that is to connect has     *)
(* empty queues and a connection that was not begun (connection.cpp 57).   *)
(***************************************************************************)
THEOREM CleanStart == Spec => []StartsClean
<1>1. Inv => StartsClean
  BY DEF Inv
<1> QED  BY <1>1, InvHolds, PTL

(***************************************************************************)
(* No attempt follows a refused one before the delay (client.cpp 111-127). *)
(***************************************************************************)
THEOREM DelayKept == Spec => AttemptWaits
<1>1. Inv /\ [Next]_vars => [refused /\ connected' => elapsed]_vars
  <2> SUFFICES ASSUME Inv, Next, refused, connected' PROVE elapsed
    BY DEF vars
  <2>1. ~connected /\ (recent \/ elapsed)
    BY DEF Inv, RefusalNoted
  <2>2. ConnectSucceeds
    BY <2>1 DEF Next, Step, Start, StartBlocks, Shutdown, Begin, ConnectFails,
       ConnectionFails, ReadMalformed, CloseClient, ConnectionHandshakes, ConnectionFlows,
       ReadMessage, EndUpdate, Inform, SendInfo, DelayElapses, SendLocked, SendCommand,
       link
  <2> QED  BY <2>1, <2>2 DEF ConnectSucceeds, Due
<1> QED  BY <1>1, InvHolds, PTL DEF Spec, AttemptWaits

-----------------------------------------------------------------------------
(* The introduction.                                                       *)

\* What Agent::update() has still to say of Info, when the client is ready.
ToSay ==
  CASE at = "reading" -> IF wasReady THEN {} ELSE Info
    [] at = "host_information" -> Info
    [] at = "application_instance_information" -> {"application_instance_information"}
    [] OTHER -> {}

(***************************************************************************)
(* Of a queue q that did not take f, with T still to be said: the rest of  *)
(* Info is in q, nothing of T is, nor what has to come after it.           *)
(***************************************************************************)
Introduced(q, f, T) ==
  /\ \A m \in T : \A i \in DOMAIN q : q[i] # m
  /\ \A m \in Info \ T : m \in f \/ \E i \in DOMAIN q : q[i] = m
  /\ T # {} => \A i \in DOMAIN q : q[i] \notin LockedSend

\* Nothing is said twice, or after what has to come later.
Orderly(q, f) ==
  \A m \in Info :
    /\ \A i, j \in DOMAIN q : q[i] = m /\ q[j] = m => i = j
    /\ \A i \in DOMAIN q :
         q[i] \in LockedSend => m \in f \/ \E j \in DOMAIN q : q[j] = m /\ j < i

Informs ==
  /\ conn # "ready" => queued = <<>> /\ full = {}
  /\ at = "updating" => wasReady = (conn = "ready")
  /\ conn = "ready" => Introduced(queued, full, ToSay)
  /\ Orderly(queued, full)

\* The next message of the introduction is queued.
LEMMA SayOne ==
  ASSUME NEW q \in Seq(Messages), NEW f, NEW T \in SUBSET Info, NEW m \in T,
         Introduced(q, f, T), Orderly(q, f)
  PROVE  Introduced(Append(q, m), f, T \ {m}) /\ Orderly(Append(q, m), f)
<1> DEFINE r == Append(q, m)
<1>1. /\ DOMAIN q = 1 .. Len(q) /\ DOMAIN r = 1 .. Len(q) + 1 /\ Len(q) \in Nat
      /\ \A i \in 1 .. Len(q) : r[i] = q[i]
      /\ r[Len(q) + 1] = m
  BY DEF Messages
<1>2. m \notin LockedSend
  BY ClientValues
<1> HIDE DEF r
<1>3. Introduced(r, f, T \ {m})
  <2>1. \A k \in T \ {m} : \A i \in DOMAIN r : r[i] # k
    BY <1>1 DEF Introduced
  <2>2. \A k \in Info \ (T \ {m}) : k \in f \/ \E i \in DOMAIN r : r[i] = k
    <3> TAKE k \in Info \ (T \ {m})
    <3>1. CASE k = m  BY <3>1, <1>1
    <3>2. CASE k # m  BY <3>2, <1>1 DEF Introduced
    <3> QED  BY <3>1, <3>2
  <2>3. \A i \in DOMAIN r : r[i] \notin LockedSend
    BY <1>1, <1>2 DEF Introduced
  <2> QED  BY <2>1, <2>2, <2>3 DEF Introduced
<1>4. Orderly(r, f)
  <2> SUFFICES ASSUME NEW k \in Info
               PROVE  /\ \A i, j \in DOMAIN r : r[i] = k /\ r[j] = k => i = j
                      /\ \A i \in DOMAIN r :
                           r[i] \in LockedSend =>
                             k \in f \/ \E j \in DOMAIN r : r[j] = k /\ j < i
    BY DEF Orderly
  <2>1. \A i, j \in DOMAIN r : r[i] = k /\ r[j] = k => i = j
    BY <1>1 DEF Orderly, Introduced
  <2>2. \A i \in DOMAIN r :
          r[i] \in LockedSend => k \in f \/ \E j \in DOMAIN r : r[j] = k /\ j < i
    BY <1>1, <1>2 DEF Orderly, Introduced
  <2> QED  BY <2>1, <2>2
<1> QED  BY <1>3, <1>4 DEF r

\* The queue was full and did not take it.
LEMMA SayInVain ==
  ASSUME NEW q, NEW f, NEW T \in SUBSET Info, NEW m \in T,
         Introduced(q, f, T), Orderly(q, f)
  PROVE  Introduced(q, f \cup {m}, T \ {m}) /\ Orderly(q, f \cup {m})
BY DEF Introduced, Orderly

\* Something else is queued: unless it is a command, nothing is to be said.
LEMMA SendOther ==
  ASSUME NEW q \in Seq(Messages), NEW f, NEW T \in SUBSET Info,
         NEW m \in LockedSend \cup Command, m \in LockedSend => T = {},
         Introduced(q, f, T), Orderly(q, f)
  PROVE  Introduced(Append(q, m), f, T) /\ Orderly(Append(q, m), f)
<1> DEFINE r == Append(q, m)
<1>1. /\ DOMAIN q = 1 .. Len(q) /\ DOMAIN r = 1 .. Len(q) + 1 /\ Len(q) \in Nat
      /\ \A i \in 1 .. Len(q) : r[i] = q[i]
      /\ r[Len(q) + 1] = m
  BY DEF Messages
<1>2. m \notin Info
  BY ClientValues
<1> HIDE DEF r
<1>3. Introduced(r, f, T)
  BY <1>1, <1>2 DEF Introduced
<1>4. Orderly(r, f)
  <2> SUFFICES ASSUME NEW k \in Info
               PROVE  /\ \A i, j \in DOMAIN r : r[i] = k /\ r[j] = k => i = j
                      /\ \A i \in DOMAIN r :
                           r[i] \in LockedSend =>
                             k \in f \/ \E j \in DOMAIN r : r[j] = k /\ j < i
    BY DEF Orderly
  <2>1. \A i, j \in DOMAIN r : r[i] = k /\ r[j] = k => i = j
    BY <1>1, <1>2 DEF Orderly
  <2>2. ASSUME NEW i \in DOMAIN r, r[i] \in LockedSend
        PROVE  k \in f \/ \E j \in DOMAIN r : r[j] = k /\ j < i
    <3>1. CASE i \in 1 .. Len(q)  BY <2>2, <3>1, <1>1 DEF Orderly
    <3>2. CASE i = Len(q) + 1
      BY <2>2, <3>2, <1>1 DEF Introduced
    <3> QED  BY <2>2, <3>1, <3>2, <1>1
  <2> QED  BY <2>1, <2>2
<1> QED  BY <1>3, <1>4 DEF r

LEMMA InitInforms == Init => Informs
BY DEF Init, Informs, Orderly

\* A step that leaves what is queued and what is to be said alone.
LEMMA NothingSaid ==
  ASSUME Informs, UNCHANGED <<conn, queued, full>>, conn = "ready" => ToSay' = ToSay,
         at' = "updating" => wasReady' = (conn = "ready")
  PROVE  Informs'
BY DEF Informs, Introduced, Orderly

LEMMA NothingQueued ==
  ASSUME queued' = <<>>, full' = {}, conn' # "ready", at' # "updating"
  PROVE  Informs'
BY DEF Informs, Orderly

LEMMA NextPreservesInforms == Inv /\ Informs /\ [Next]_vars => Informs'
<1> SUFFICES ASSUME Inv, Informs, [Next]_vars PROVE Informs'
  OBVIOUS
<1> USE DEF link, queues, timer, history, bounds
<1>0. TypeOK /\ UpdateConnected /\ StartsClean
  BY DEF Inv
<1>1. CASE Start  BY <1>1, NothingSaid DEF Start, ToSay, Informs
<1>2. CASE StartBlocks  BY <1>2, NothingSaid DEF StartBlocks, ToSay, Informs
<1>3. CASE Shutdown
  BY <1>3, NothingQueued DEF Shutdown, ClearConnection, ClientFree
<1>4. CASE Begin  BY <1>4, NothingSaid DEF Begin, Idle, ToSay
<1>5. CASE ConnectFails
  BY <1>5, NothingSaid DEF ConnectFails, Idle, ToSay
<1>6. CASE ConnectSucceeds
  <2>1. conn = "uninitialized" /\ queued = <<>> /\ full = {}
    BY <1>0, <1>6 DEF ConnectSucceeds, StartsClean, Informs
  <2>2. /\ conn' = "handshake" /\ queued' = <<>> /\ full' = {}
        /\ at' = "updating" /\ wasReady' = FALSE
    BY <1>6, <2>1 DEF ConnectSucceeds
  <2>3. conn' # "ready"
    BY <2>2
  <2>4. wasReady' = (conn' = "ready")
    BY <2>2, <2>3, Zenon
  <2> QED  BY <2>2, <2>3, <2>4 DEF Informs, Orderly
<1>7. CASE ConnectionFails \/ ReadMalformed
  BY <1>7, NothingQueued DEF ConnectionFails, ReadMalformed, CloseClient, ClearConnection
<1>8. CASE ConnectionHandshakes
  <2>1. wasReady = FALSE /\ queued = <<>> /\ full = {}
    BY <1>8 DEF ConnectionHandshakes, Informs
  <2>2. /\ queued' = <<>> /\ full' = {} /\ at' = "reading" /\ wasReady' = FALSE
    BY <1>8, <2>1 DEF ConnectionHandshakes
  <2>3. ToSay' = Info
    BY <2>2 DEF ToSay
  <2> QED  BY <2>2, <2>3 DEF Informs, Orderly, Introduced
<1>9. CASE ConnectionFlows
  <2>1. wasReady
    BY <1>9 DEF ConnectionFlows, Informs
  <2> QED  BY <1>9, <2>1, NothingSaid DEF ConnectionFlows, ToSay
<1>10. CASE ReadMessage  BY <1>10, NothingSaid DEF ReadMessage, ToSay
<1>11. CASE EndUpdate
  BY <1>11, NothingSaid DEF EndUpdate, BecameReady, ToSay
<1>12. ASSUME NEW m \in Info, NEW then, SendInfo(m, then),
              \/ m = "host_information" /\ then = "application_instance_information"
              \/ m = "application_instance_information" /\ then = "idle"
       PROVE  Informs'
  <2>1. m \in ToSay /\ ToSay' = ToSay \ {m} /\ ToSay \subseteq Info
    BY <1>12 DEF SendInfo, ToSay, Info
  <2>2. at' # "updating" /\ conn' = conn /\ queued \in Seq(Messages)
    BY <1>0, <1>12 DEF SendInfo, TypeOK
  <2>3. CASE Queue(m) /\ UNCHANGED full
    <3>1. conn = "ready" /\ queued' = Append(queued, m)
      BY <2>3 DEF Queue, CanQueue
    <3> QED  BY <2>1, <2>2, <2>3, <3>1, SayOne DEF Informs
  <2>4. CASE ~CanQueue /\ UNCHANGED <<outgoing, queued>> /\ conn = "ready"
    <3>1. full' = full \cup {m}
      BY <1>12, <2>4 DEF SendInfo, Queue
    <3> QED  BY <2>1, <2>2, <2>4, <3>1, SayInVain DEF Informs
  <2>5. CASE conn # "ready"
    <3>1. full' = full /\ queued' = queued
      BY <1>12, <2>5 DEF SendInfo, Queue, CanQueue
    <3> QED  BY <2>2, <2>5, <3>1 DEF Informs
  <2> QED  BY <1>12, <2>3, <2>4, <2>5 DEF SendInfo
<1>13. CASE Inform
  BY <1>12, <1>13 DEF Inform, Info
<1>14. CASE DelayElapses  BY <1>14, NothingSaid DEF DelayElapses, ToSay, Informs
<1>15. ASSUME NEW m \in LockedSend \cup Command, Queue(m), m \in LockedSend => at = "idle",
              at # "updating", UNCHANGED <<conn, at, wasReady, full>>
       PROVE  Informs'
  <2>1. conn = "ready" /\ queued' = Append(queued, m)
    BY <1>15 DEF Queue, CanQueue
  <2>2. ToSay' = ToSay /\ ToSay \subseteq Info /\ (m \in LockedSend => ToSay = {})
    BY <1>15 DEF ToSay, Info
  <2>3. queued \in Seq(Messages)
    BY <1>0 DEF TypeOK
  <2> QED  BY <1>15, <2>1, <2>2, <2>3, SendOther DEF Informs
<1>16. ASSUME NEW m \in LockedSend, SendLocked(m) PROVE Informs'
  BY <1>15, <1>16 DEF SendLocked
<1>17. ASSUME NEW m \in Command, SendCommand(m) PROVE Informs'
  BY <1>15, <1>17, ClientValues DEF SendCommand, ClientFree
<1>18. CASE UNCHANGED vars
  BY <1>18, NothingSaid DEF vars, ToSay, Informs
<1> QED
  BY <1>1, <1>2, <1>3, <1>4, <1>5, <1>6, <1>7, <1>8, <1>9, <1>10, <1>11, <1>13, <1>14,
     <1>16, <1>17, <1>18 DEF Next, Step

(***************************************************************************)
(* On each connection of any agent the two messages of the introduction    *)
(* are queued once, with the update that made it ready, and before all that*)
(* is sent with the agent's mutex held, unless the queue was full.         *)
(***************************************************************************)
THEOREM AnnouncedOncePerConnection == Spec => []AnnouncedOnce
<1>1. Informs => AnnouncedOnce
  <2> SUFFICES ASSUME Informs, NEW m \in Info
               PROVE  /\ Cardinality(Position(m)) <= 1
                      /\ at = "idle" /\ conn = "ready" => m \in full \/ Position(m) # {}
                      /\ \A i \in DOMAIN queued :
                           queued[i] \in LockedSend =>
                             m \in full \/ \E j \in Position(m) : j < i
    BY DEF AnnouncedOnce
  <2>1. Cardinality(Position(m)) <= 1
    <3>1. CASE Position(m) = {}
      BY <3>1, FS_EmptySet
    <3>2. CASE Position(m) # {}
      <4>1. PICK i \in Position(m) : TRUE
        BY <3>2
      <4>2. Position(m) = {i}
        BY <4>1 DEF Informs, Orderly, Position
      <4>3. Cardinality({i}) = 1
        BY FS_Singleton
      <4> QED  BY <4>2, <4>3
    <3> QED  BY <3>1, <3>2
  <2>2. at = "idle" /\ conn = "ready" => m \in full \/ Position(m) # {}
    BY DEF Informs, Introduced, ToSay, Position
  <2>3. \A i \in DOMAIN queued :
          queued[i] \in LockedSend => m \in full \/ \E j \in Position(m) : j < i
    BY DEF Informs, Orderly, Position
  <2> QED  BY <2>1, <2>2, <2>3
<1> QED  BY <1>1, InvHolds, InitInforms, NextPreservesInforms, PTL DEF Spec

=============================================================================
