------------------------------ MODULE Channel ------------------------------
(***************************************************************************)
(* What two ends of the Arcus protocol promise their owners, whatever is   *)
(* between them.  On each TCP connection an end queues messages, numbered  *)
(* from 1, and the other end reads them in this order.  A connection may   *)
(* become lossy, and from then on messages may vanish from it; but none    *)
(* comes back, overtakes another or reaches another connection.            *)
(* `Connection' is shown to implement it.                                  *)
(***************************************************************************)
EXTENDS Naturals

CONSTANT MaxConns   (* bound: connections an end is on, one after the other *)

VARIABLES
  conn,      (* the connection each end is on, 0 if none                 *)
  used,      (* how many connections it has been on                      *)
  queued,    (* how many messages it has queued on its connection        *)
  taken,     (* how many messages it has read from its connection        *)
  way,       (* the ranks of the messages it can still read              *)
  lossy      (* the connections that messages may vanish from            *)

vars == <<conn, used, queued, taken, way, lossy>>

End == {"server", "client"}
Other(e) == IF e = "server" THEN "client" ELSE "server"

Init ==
  /\ conn = [e \in End |-> 0]
  /\ used = [e \in End |-> 0]
  /\ queued = [e \in End |-> 0]
  /\ taken = [e \in End |-> 0]
  /\ way = [e \in End |-> {}]
  /\ lossy = {}

\* Messages vanish from the way to e, if its connection is lossy by now.
Loses(e) ==
  IF conn[e] \in lossy' THEN way'[e] \subseteq way[e] ELSE way'[e] = way[e]

\* e leaves its connection, if it is on one, which is lossy from then on.
Leaves(e, k) ==
  /\ conn' = [conn EXCEPT ![e] = k]
  /\ queued' = [queued EXCEPT ![e] = 0]
  /\ taken' = [taken EXCEPT ![e] = 0]
  /\ lossy' = lossy \cup ({conn[e]} \ {0})
  /\ way' \in [End -> SUBSET Nat]
  /\ Loses(Other(e))

\* e begins a connection, which the other end may have queued messages on.
Open(e) ==
  /\ used[e] < MaxConns
  /\ used' = [used EXCEPT ![e] = used[e] + 1]
  /\ Leaves(e, used[e] + 1)
  /\ LET there == conn[Other(e)] = used[e] + 1 IN
     /\ way'[e] \subseteq IF there THEN 1 .. queued[Other(e)] ELSE {}
     /\ there /\ conn[Other(e)] \notin lossy => way'[e] = 1 .. queued[Other(e)]

Close(e) ==
  /\ conn[e] # 0
  /\ Leaves(e, 0)
  /\ way'[e] = {}
  /\ UNCHANGED used

\* On a lossy connection the message may be lost at once.
Queue(e) ==
  /\ conn[e] # 0
  /\ queued' = [queued EXCEPT ![e] = queued[e] + 1]
  /\ \/ /\ conn[Other(e)] = conn[e]
        /\ way' = [way EXCEPT ![Other(e)] = way[Other(e)] \cup {queued[e] + 1}]
     \/ /\ conn[Other(e)] # conn[e] \/ conn[e] \in lossy
        /\ UNCHANGED way
  /\ UNCHANGED <<conn, used, taken, lossy>>

\* The oldest of the messages that are left is read.
Read(e) ==
  /\ taken' = [taken EXCEPT ![e] = taken[e] + 1]
  /\ \E n \in way[e] :
       /\ \A m \in way[e] : n <= m
       /\ way' = [way EXCEPT ![e] = way[e] \ {n}]
  /\ UNCHANGED <<conn, used, queued, lossy>>

Lose(k) ==
  /\ UNCHANGED <<conn, used, queued, taken>>
  /\ lossy' = lossy \cup {k}
  /\ way' \in [End -> SUBSET Nat]
  /\ \A e \in End : IF conn[e] = k THEN Loses(e) ELSE way'[e] = way[e]

Next ==
  \/ \E e \in End : Open(e) \/ Close(e) \/ Queue(e) \/ Read(e)
  \/ \E k \in 1 .. MaxConns : Lose(k)

Spec == Init /\ [][Next]_vars
=============================================================================
