---------------------------- MODULE ServerProofs ----------------------------
(***************************************************************************)
(* Proofs about Server for any number of threads, agents, messages and     *)
(* values: the type invariant, and the invariants that say that status() is*)
(* truthful, that no property change is forgotten, and that the first      *)
(* client is told the live state.                                          *)
(***************************************************************************)
EXTENDS Server, TLAPS

\* The places of update() in which a thread holds the mutex.
Holding == {"live", "status", "connection", "receiving", "reading"}

(* The mutex is held by exactly the thread that is at one of these places,   *)
(* and there is nobody in update() before the server listens or after it is  *)
(* destroyed.                                                                *)
LockInv ==
  /\ \A t \in Thread : pc[t] \in Holding <=> lock = t
  /\ ~Exists \/ ~listening => \A t \in Thread : pc[t] = "out"

(* The sockets, the connection's status and the flags agree.                 *)
LinkInv ==
  /\ Exists => (waiting <=> listening /\ client = 0)
  /\ client = 0 <=> status = "uninitialized"
  /\ ~listening => client = 0
  /\ created = "no" => ~listening

(* Only a ready connection is sent to and received from, and only there has  *)
(* anything been received; an update that began on a ready one knows it.     *)
ReadyInv ==
  /\ status # "ready" => size = 0
  /\ \A t \in Thread :
       /\ pc[t] \in {"live", "status", "receiving"} => status = "ready"
       /\ pc[t] = "connection" /\ status = "handshake" => ~wasReady[t]

(* The live state: taken for sent, or to be sent.                            *)
LiveInv == wasSet \/ game = lastSent

\* An update that is about to schedule the sends of a new connection.
Scheduling ==
  \E t \in Thread : pc[t] = "reading" /\ ~wasReady[t] /\ size = 0

(* The status: queued for this client, or still to be sent.                  *)
StatusInv ==
  status = "ready" => torn \/ shouldSend \/ queued.app = app \/ Scheduling

IInv == TypeOK /\ LockInv /\ LinkInv /\ ReadyInv /\ LiveInv /\ StatusInv

(* Every step keeps the types; the values sent are values that were set.    *)
LEMMA TypeStep ==
  ASSUME TypeOK, LinkInv, ReadyInv, LiveInv, [Next]_vars
  PROVE  TypeOK'
<1>1. ASSUME NEW o \in {"listening", "unbound", "failed"}, Create(o) PROVE TypeOK'
  BY <1>1, ServerBounds DEF TypeOK, TypeFlags, TypeLink, TypeProps, TypeInbox,
        TypeThreads, Create, props, told, inbox, locals, others, mutex
<1>2. ASSUME CreateBlocks PROVE TypeOK'
  BY <1>2, ServerBounds DEF TypeOK, TypeFlags, TypeLink, TypeProps, TypeInbox,
        TypeThreads, CreateBlocks, link, props, told, inbox, locals, others, mutex
<1>3. ASSUME Destroy PROVE TypeOK'
  <2>1. TypeFlags'
    BY <1>3, Zenon DEF TypeOK, TypeFlags, Destroy, Exists, Inbox!Clear, Nothing, props,
          locals, others, mutex
  <2>2. TypeLink'
    BY <1>3, ServerBounds DEF TypeOK, TypeLink, Destroy, Exists, Inbox!Clear, Nothing,
          props, locals, others, mutex
  <2>3. TypeProps'
    BY <1>3, ServerBounds DEF TypeOK, TypeProps, Told, Destroy, Exists, Inbox!Clear,
          Nothing, props, locals, others, mutex
  <2>4. TypeInbox'
    BY <1>3, ServerBounds DEF TypeOK, TypeInbox, Destroy, Exists, Inbox!Clear, Nothing,
          props, locals, others, mutex
  <2>5. TypeThreads'
    BY <1>3, ServerBounds DEF TypeOK, TypeThreads, NoThread, Destroy, Exists,
          Inbox!Clear, Nothing, props, locals, others, mutex
  <2>. QED  BY <2>1, <2>2, <2>3, <2>4, <2>5 DEF TypeOK
<1>4. ASSUME AgentConnects PROVE TypeOK'
  BY <1>4, ServerBounds DEF TypeOK, TypeFlags, TypeLink, TypeProps, TypeInbox,
        TypeThreads, AgentConnects, Exists, link, props, told, inbox, locals, others,
        mutex
<1>5. ASSUME NEW t \in Thread, NEW s \in GameState, NEW x \in Extra \cup {NoObject},
             SetLiveState(t, s, x)
      PROVE  TypeOK'
  <2>1. TypeFlags'
    BY <1>5, Zenon DEF TypeFlags, TypeOK, SetLiveState, CanSet, CanCall, CanLock,
          Exists, listener, link, props, told, inbox, locals, mutex
  <2>2. TypeLink'
    BY <1>5, ServerBounds DEF TypeOK, TypeLink, SetLiveState, CanSet, CanCall, CanLock,
          Exists, listener, link, props, told, inbox, locals, mutex
  <2>3. TypeProps'
    BY <1>5, ServerBounds, ServerValues DEF TypeOK, TypeProps, Told,
          SetLiveState, CanSet, CanCall, CanLock, Exists, listener, link, props, told,
          inbox, locals, mutex
  <2>4. TypeInbox'
    BY <1>5, ServerBounds DEF TypeOK, TypeInbox, SetLiveState, CanSet, CanCall, CanLock,
          Exists, listener, link, props, told, inbox, locals, mutex
  <2>5. TypeThreads'
    BY <1>5, ServerBounds DEF TypeOK, TypeThreads, NoThread, SetLiveState, CanSet,
          CanCall, CanLock, Exists, listener, link, props, told, inbox, locals, mutex
  <2>. QED  BY <2>1, <2>2, <2>3, <2>4, <2>5 DEF TypeOK
<1>6. ASSUME NEW t \in Thread, NEW a \in AppStatus,
             SetApplicationInstanceStatus(t, a)
      PROVE  TypeOK'
  BY <1>6, ServerBounds DEF TypeOK, TypeFlags, TypeLink, TypeProps, TypeInbox,
        TypeThreads, SetApplicationInstanceStatus, CanSet, CanCall, CanLock, Exists,
        listener, link, told, inbox, locals, mutex
<1>7. ASSUME NEW t \in Thread, ReverseEnter(t) PROVE TypeOK'
  BY <1>7, ServerBounds DEF TypeOK, TypeFlags, TypeLink, TypeProps, TypeInbox,
        TypeThreads, ReverseEnter, Exists, listener, link, props, told, inbox, locals
<1>8. ASSUME NEW t \in Thread, ReverseLeave(t) PROVE TypeOK'
  <2>1. TypeFlags'
    BY <1>8, Zenon DEF TypeOK, TypeFlags, ReverseLeave, Tear, listener, link, props,
          inbox, locals
  <2>2. TypeLink'
    BY <1>8, ServerBounds DEF TypeOK, TypeLink, ReverseLeave, Tear, listener, link,
          props, inbox, locals
  <2>3. TypeProps'
    BY <1>8, ServerBounds DEF TypeOK, TypeProps, Told, ReverseLeave, Tear, listener,
          link, props, inbox, locals
  <2>4. TypeInbox'
    BY <1>8, ServerBounds DEF TypeOK, TypeInbox, ReverseLeave, Tear, listener, link,
          props, inbox, locals
  <2>5. TypeThreads'
    BY <1>8, ServerBounds DEF TypeOK, TypeThreads, NoThread, ReverseLeave, Tear,
          listener, link, props, inbox, locals
  <2>. QED  BY <2>1, <2>2, <2>3, <2>4, <2>5 DEF TypeOK
<1>27. ASSUME NEW t \in Thread, ReverseTears(t) PROVE TypeOK'
  BY <1>27, ServerBounds DEF TypeOK, TypeFlags, TypeLink, TypeProps, TypeInbox,
        TypeThreads, ReverseTears, listener, link, props, inbox, locals, others, mutex,
        Tear, Told
<1>9. ASSUME NEW t \in Thread, ListenRetry(t) PROVE TypeOK'
  BY <1>9, ServerBounds DEF TypeOK, TypeFlags, TypeLink, TypeProps, TypeInbox,
        TypeThreads, ListenRetry, CanUpdate, CanLock, Exists, props, told, inbox,
        locals, others, mutex
<1>10. ASSUME NEW t \in Thread, AcceptClient(t) PROVE TypeOK'
  <2>1. TypeFlags'
    <3>1. torn' \in {torn, FALSE}
      BY <1>10 DEF AcceptClient, ResetConnection, told
    <3> QED
      BY <1>10, <3>1, Zenon DEF TypeFlags, TypeOK, AcceptClient, CanUpdate, Goto,
          ResetConnection, CanLock, Exists, Inbox!Clear, Nothing, listener, props, told,
          inbox, others
  <2>2. TypeLink'
    BY <1>10, ServerBounds DEF TypeOK, TypeLink, AcceptClient, CanUpdate, Goto,
          ResetConnection, CanLock, Exists, Inbox!Clear, Nothing, listener, props, told,
          inbox, others
  <2>3. TypeProps'
    BY <1>10, ServerBounds, ServerValues DEF TypeOK, TypeProps, Told,
          AcceptClient, CanUpdate, Goto, ResetConnection, CanLock, Exists, Inbox!Clear,
          Nothing, listener, props, told, inbox, others
  <2>4. TypeInbox'
    BY <1>10, ServerBounds DEF TypeOK, TypeInbox, AcceptClient, CanUpdate, Goto,
          ResetConnection, CanLock, Exists, Inbox!Clear, Nothing, listener, props, told,
          inbox, others
  <2>5. TypeThreads'
    BY <1>10, ServerBounds DEF TypeOK, TypeThreads, NoThread, AcceptClient, CanUpdate,
          Goto, ResetConnection, CanLock, Exists, Inbox!Clear, Nothing, listener, props, told,
          inbox, others
  <2>. QED  BY <2>1, <2>2, <2>3, <2>4, <2>5 DEF TypeOK
<1>11. ASSUME NEW t \in Thread, KeepClient(t) PROVE TypeOK'
  BY <1>11, ServerBounds DEF TypeOK, TypeFlags, TypeLink, TypeProps, TypeInbox,
        TypeThreads, KeepClient, CanUpdate, Goto, CanLock, Exists, listener, link,
        props, told, inbox, others
<1>12. ASSUME NEW t \in Thread, SendLiveState(t) PROVE TypeOK'
  <2>1. TypeFlags'
    BY <1>12, Zenon DEF TypeFlags, TypeOK, SendLiveState, Inside, Goto, Return,
          CloseClientConnection, ResetConnection, Inbox!Clear, Nothing, listener, link,
          told, inbox, locals, others
  <2>2. TypeLink'
    BY <1>12, ServerBounds DEF TypeOK, TypeLink, SendLiveState, Inside, Goto, Return,
          CloseClientConnection, ResetConnection, Inbox!Clear, Nothing, listener, link,
          told, inbox, locals, others
  <2>3. TypeProps'
    BY <1>12, ServerBounds, ServerValues DEF TypeOK, TypeProps, Told,
          SendLiveState, Inside, Goto, Return, CloseClientConnection, ResetConnection,
          Inbox!Clear, Nothing, listener, link, told, inbox, locals, others
  <2>4. TypeInbox'
    BY <1>12, ServerBounds DEF TypeOK, TypeInbox, SendLiveState, Inside, Goto, Return,
          CloseClientConnection, ResetConnection, Inbox!Clear, Nothing, listener, link,
          told, inbox, locals, others
  <2>5. TypeThreads'
    BY <1>12, ServerBounds DEF TypeOK, TypeThreads, NoThread, SendLiveState, Inside,
          Goto, Return, CloseClientConnection, ResetConnection, Inbox!Clear, Nothing,
          listener, link, told, inbox, locals, others
  <2>. QED  BY <2>1, <2>2, <2>3, <2>4, <2>5 DEF TypeOK
<1>13. ASSUME NEW t \in Thread, SendStatus(t) PROVE TypeOK'
  <2>1. TypeFlags'
    BY <1>13, Zenon DEF TypeFlags, TypeOK, SendStatus, Inside, Goto, Return,
          CloseClientConnection, ResetConnection, Inbox!Clear, Nothing, listener, link,
          told, inbox, locals, others
  <2>2. TypeLink'
    BY <1>13, ServerBounds DEF TypeOK, TypeLink, SendStatus, Inside, Goto, Return,
          CloseClientConnection, ResetConnection, Inbox!Clear, Nothing, listener, link,
          told, inbox, locals, others
  <2>3. TypeProps'
    BY <1>13, ServerBounds, ServerValues DEF TypeOK, TypeProps, Told,
          SendStatus, Inside, Goto, Return, CloseClientConnection, ResetConnection,
          Inbox!Clear, Nothing, listener, link, told, inbox, locals, others
  <2>4. TypeInbox'
    BY <1>13, ServerBounds DEF TypeOK, TypeInbox, SendStatus, Inside, Goto, Return,
          CloseClientConnection, ResetConnection, Inbox!Clear, Nothing, listener, link,
          told, inbox, locals, others
  <2>5. TypeThreads'
    BY <1>13, ServerBounds DEF TypeOK, TypeThreads, NoThread, SendStatus, Inside, Goto,
          Return, CloseClientConnection, ResetConnection, Inbox!Clear, Nothing,
          listener, link, told, inbox, locals, others
  <2>. QED  BY <2>1, <2>2, <2>3, <2>4, <2>5 DEF TypeOK
<1>14. ASSUME NEW t \in Thread, ConnectionFails(t) PROVE TypeOK'
  <2>1. TypeFlags'
    BY <1>14, Zenon DEF TypeOK, TypeFlags, ConnectionFails, Inside, Return,
          CloseClientConnection, ResetConnection, Inbox!Clear, Nothing, listener, props,
          locals, others
  <2>2. TypeLink'
    BY <1>14, ServerBounds DEF TypeOK, TypeLink, ConnectionFails, Inside, Return,
          CloseClientConnection, ResetConnection, Inbox!Clear, Nothing, listener, props,
          locals, others
  <2>3. TypeProps'
    BY <1>14, ServerBounds DEF TypeOK, TypeProps, Told, ConnectionFails, Inside, Return,
          CloseClientConnection, ResetConnection, Inbox!Clear, Nothing, listener, props,
          locals, others
  <2>4. TypeInbox'
    BY <1>14, ServerBounds DEF TypeOK, TypeInbox, ConnectionFails, Inside, Return,
          CloseClientConnection, ResetConnection, Inbox!Clear, Nothing, listener, props,
          locals, others
  <2>5. TypeThreads'
    BY <1>14, ServerBounds DEF TypeOK, TypeThreads, NoThread, ConnectionFails, Inside,
          Return, CloseClientConnection, ResetConnection, Inbox!Clear, Nothing,
          listener, props, locals, others
  <2>. QED  BY <2>1, <2>2, <2>3, <2>4, <2>5 DEF TypeOK
<1>15. ASSUME NEW t \in Thread, ConnectionHandshakes(t) PROVE TypeOK'
  BY <1>15, ServerBounds DEF TypeOK, TypeFlags, TypeLink, TypeProps, TypeInbox,
        TypeThreads, ConnectionHandshakes, Inside, Goto, listener, props, told, inbox,
        locals, others
<1>16. ASSUME NEW t \in Thread, ConnectionWaits(t) PROVE TypeOK'
  BY <1>16, ServerBounds DEF TypeOK, TypeFlags, TypeLink, TypeProps, TypeInbox,
        TypeThreads, ConnectionWaits, Inside, Goto, listener, link, props, inbox,
        locals, others
<1>17. ASSUME NEW t \in Thread, ConnectionSends(t) PROVE TypeOK'
  BY <1>17, ServerBounds DEF TypeOK, TypeFlags, TypeLink, TypeProps, TypeInbox,
        TypeThreads, ConnectionSends, Inside, Goto, listener, link, props, inbox,
        locals, others
<1>18. ASSUME NEW t \in Thread, ConnectionReceives(t) PROVE TypeOK'
  BY <1>18, ServerBounds DEF TypeOK, TypeFlags, TypeLink, TypeProps, TypeInbox,
        TypeThreads, LinkInv, ReadyInv, Message, Clients, ConnectionReceives, Inside,
        Inbox!Push, Inbox!Succ, listener, link, props, told, locals, others, mutex
<1>19. ASSUME NEW t \in Thread, ConnectionReceivedAll(t) PROVE TypeOK'
  BY <1>19, ServerBounds DEF TypeOK, TypeFlags, TypeLink, TypeProps, TypeInbox,
        TypeThreads, ConnectionReceivedAll, Inside, Goto, listener, link, props, told,
        inbox, locals, others
<1>20. ASSUME NEW t \in Thread, ReadFails(t) PROVE TypeOK'
  <2>1. TypeFlags'
    BY <1>20, Zenon DEF TypeOK, TypeFlags, ReadFails, Inside, Return,
          CloseClientConnection, ResetConnection, Inbox!Clear, Nothing, listener, props,
          locals, others
  <2>2. TypeLink'
    BY <1>20, ServerBounds DEF TypeOK, TypeLink, ReadFails, Inside, Return,
          CloseClientConnection, ResetConnection, Inbox!Clear, Nothing, listener, props,
          locals, others
  <2>3. TypeProps'
    BY <1>20, ServerBounds DEF TypeOK, TypeProps, Told, ReadFails, Inside, Return,
          CloseClientConnection, ResetConnection, Inbox!Clear, Nothing, listener, props,
          locals, others
  <2>4. TypeInbox'
    BY <1>20, ServerBounds DEF TypeOK, TypeInbox, ReadFails, Inside, Return,
          CloseClientConnection, ResetConnection, Inbox!Clear, Nothing, listener, props,
          locals, others
  <2>5. TypeThreads'
    BY <1>20, ServerBounds DEF TypeOK, TypeThreads, NoThread, ReadFails, Inside, Return,
          CloseClientConnection, ResetConnection, Inbox!Clear, Nothing, listener, props,
          locals, others
  <2>. QED  BY <2>1, <2>2, <2>3, <2>4, <2>5 DEF TypeOK
<1>21. ASSUME NEW t \in Thread, PopMessage(t) PROVE TypeOK'
  BY <1>21, ServerBounds DEF TypeOK, TypeFlags, TypeLink, TypeProps, TypeInbox,
        TypeThreads, PopMessage, CanRead, Inbox!Pop, Inside, Inbox!Succ, listener, link,
        props, told, others
<1>22. ASSUME NEW t \in Thread, CallbackReturns(t) PROVE TypeOK'
  <2>1. TypeFlags'
    BY <1>22, Zenon DEF TypeFlags, TypeOK, CallbackReturns, listener, link, props, told,
          inbox, others, mutex
  <2>2. TypeLink'
    BY <1>22, ServerBounds DEF TypeOK, TypeLink, CallbackReturns, listener, link, props,
          told, inbox, others, mutex
  <2>3. TypeProps'
    BY <1>22, ServerBounds, ServerValues DEF TypeOK, TypeProps, Told,
          CallbackReturns, listener, link, props, told, inbox, others, mutex
  <2>4. TypeInbox'
    BY <1>22, ServerBounds DEF TypeOK, TypeInbox, CallbackReturns, listener, link,
          props, told, inbox, others, mutex
  <2>5. TypeThreads'
    <3>1. PICK f \in {FALSE, TRUE} : failed' = [failed EXCEPT ![t] = f]
      BY <1>22 DEF CallbackReturns, mutex
    <3>2. failed' \in [Thread -> BOOLEAN]
      BY <3>1, Zenon DEF TypeOK, TypeThreads
    <3>3. pc' \in [Thread -> {"out", "live", "status", "connection", "receiving", "reading",
                              "callback", "relock"}]
      BY <1>22 DEF CallbackReturns, TypeOK, TypeThreads, mutex
    <3>4. UNCHANGED <<lock, wasReady, slot, msg, reversing, racing, sets>>
      BY <1>22 DEF CallbackReturns, others, mutex
    <3>5. QED  BY <3>2, <3>3, <3>4 DEF TypeOK, TypeThreads
  <2>. QED  BY <2>1, <2>2, <2>3, <2>4, <2>5 DEF TypeOK
<1>23. ASSUME NEW t \in Thread, Relock(t) PROVE TypeOK'
  BY <1>23, ServerBounds DEF TypeOK, TypeFlags, TypeLink, TypeProps, TypeInbox,
        TypeThreads, Relock, CanLock, Goto, Exists, listener, link, props, told, locals,
        others
<1>24. ASSUME NEW t \in Thread, UpdateEnds(t) PROVE TypeOK'
  <2>1. TypeFlags'
    BY <1>24, Zenon DEF TypeFlags, TypeOK, UpdateEnds, CanRead, Return, Inside,
          listener, link, told, inbox, locals, others
  <2>2. TypeLink'
    BY <1>24, ServerBounds DEF TypeOK, TypeLink, UpdateEnds, CanRead, Return, Inside,
          listener, link, told, inbox, locals, others
  <2>3. TypeProps'
    BY <1>24, ServerBounds, ServerValues DEF TypeOK, TypeProps, Told,
          UpdateEnds, CanRead, Return, Inside, listener, link, told, inbox, locals,
          others
  <2>4. TypeInbox'
    BY <1>24, ServerBounds DEF TypeOK, TypeInbox, UpdateEnds, CanRead, Return, Inside,
          listener, link, told, inbox, locals, others
  <2>5. TypeThreads'
    BY <1>24, ServerBounds DEF TypeOK, TypeThreads, NoThread, UpdateEnds, CanRead,
          Return, Inside, listener, link, told, inbox, locals, others
  <2>. QED  BY <2>1, <2>2, <2>3, <2>4, <2>5 DEF TypeOK
<1>25. ASSUME UNCHANGED vars PROVE TypeOK'
  BY <1>25, ServerBounds DEF TypeOK, TypeFlags, TypeLink, TypeProps, TypeInbox,
        TypeThreads, vars, listener, link, props, told, inbox, locals, others, mutex
<1>26. QED
  BY <1>1, <1>2, <1>3, <1>4, <1>5, <1>6, <1>7, <1>8, <1>9, <1>10, <1>11, <1>12, <1>13,
     <1>14, <1>15, <1>16, <1>17, <1>18, <1>19, <1>20, <1>21, <1>22, <1>23, <1>24, <1>25,
     <1>27 DEF Next, Update

(* The initial state.                                                       *)
LEMMA InitIInv == Init => IInv
<1>. SUFFICES ASSUME Init PROVE IInv
  OBVIOUS
<1>1. TypeFlags
  BY Zenon DEF Init, TypeFlags
<1>2. TypeLink
  BY ServerBounds DEF Init, TypeLink
<1>3. TypeProps
  BY ServerBounds, ServerValues DEF Init, TypeProps, Told, Nothing
<1>4. TypeInbox
  BY ServerBounds DEF Init, TypeInbox, NoMessage, Inbox!Init, Inbox!Slots
<1>5. TypeThreads
  BY ServerBounds DEF Init, TypeThreads, NoThread, NoMessage
<1>6. LockInv
  BY NoThreadAssumption DEF Init, LockInv, Holding, NoThread
<1>7. LinkInv /\ ReadyInv /\ LiveInv /\ StatusInv
  BY DEF Init, LinkInv, ReadyInv, LiveInv, StatusInv, Exists, Inbox!Init
<1>8. QED  BY <1>1, <1>2, <1>3, <1>4, <1>5, <1>6, <1>7 DEF IInv, TypeOK

(* The mutex: taken where it is free, left by the thread that holds it.     *)
LEMMA LockStep ==
  ASSUME TypeOK, LockInv, [Next]_vars
  PROVE  LockInv'
<1>1. ASSUME NEW o \in {"listening", "unbound", "failed"}, Create(o) PROVE LockInv'
  BY <1>1, NoThreadAssumption DEF TypeOK, TypeThreads, LockInv, Exists, Holding,
        NoThread, Create, props, told, inbox, locals, others, mutex
<1>2. ASSUME CreateBlocks PROVE LockInv'
  BY <1>2, NoThreadAssumption DEF TypeOK, TypeThreads, LockInv, Exists, Holding,
        NoThread, CreateBlocks, link, props, told, inbox, locals, others, mutex
<1>3. ASSUME Destroy PROVE LockInv'
  BY <1>3, NoThreadAssumption DEF TypeOK, TypeThreads, LockInv, Exists, Holding,
        NoThread, Destroy, Inbox!Clear, Nothing, props, locals, others, mutex
<1>4. ASSUME AgentConnects PROVE LockInv'
  BY <1>4, NoThreadAssumption DEF TypeOK, TypeThreads, LockInv, Exists, Holding,
        NoThread, AgentConnects, link, props, told, inbox, locals, others, mutex
<1>5. ASSUME NEW t \in Thread, NEW s \in GameState, NEW x \in Extra \cup {NoObject},
             SetLiveState(t, s, x)
      PROVE  LockInv'
  BY <1>5, NoThreadAssumption DEF TypeOK, TypeThreads, LockInv, Exists, Holding,
        NoThread, SetLiveState, CanSet, CanCall, CanLock, listener, link, props, told,
        inbox, locals, mutex
<1>6. ASSUME NEW t \in Thread, NEW a \in AppStatus,
             SetApplicationInstanceStatus(t, a)
      PROVE  LockInv'
  BY <1>6, NoThreadAssumption DEF TypeOK, TypeThreads, LockInv, Exists, Holding,
        NoThread, SetApplicationInstanceStatus, CanSet, CanCall, CanLock, listener,
        link, told, inbox, locals, mutex
<1>7. ASSUME NEW t \in Thread, ReverseEnter(t) PROVE LockInv'
  BY <1>7, NoThreadAssumption DEF TypeOK, TypeThreads, LockInv, Exists, Holding,
        NoThread, ReverseEnter, listener, link, props, told, inbox, locals
<1>8. ASSUME NEW t \in Thread, ReverseLeave(t) PROVE LockInv'
  BY <1>8, NoThreadAssumption DEF TypeOK, TypeThreads, LockInv, Exists, Holding,
        NoThread, ReverseLeave, listener, link, props, inbox, locals, Tear, Told
<1>27. ASSUME NEW t \in Thread, ReverseTears(t) PROVE LockInv'
  BY <1>27, NoThreadAssumption DEF TypeOK, TypeThreads, LockInv, Exists, Holding,
        NoThread, ReverseTears, listener, link, props, inbox, locals, others, mutex,
        Tear, Told
<1>9. ASSUME NEW t \in Thread, ListenRetry(t) PROVE LockInv'
  BY <1>9, NoThreadAssumption DEF TypeOK, TypeThreads, LockInv, Exists, Holding,
        NoThread, ListenRetry, CanUpdate, CanLock, props, told, inbox, locals, others,
        mutex
<1>10. ASSUME NEW t \in Thread, AcceptClient(t) PROVE LockInv'
  BY <1>10, NoThreadAssumption DEF TypeOK, TypeThreads, LockInv, Exists, Holding,
        NoThread, AcceptClient, CanUpdate, Goto, ResetConnection, CanLock, Inbox!Clear,
        Nothing, listener, props, others
<1>11. ASSUME NEW t \in Thread, KeepClient(t) PROVE LockInv'
  BY <1>11, NoThreadAssumption DEF TypeOK, TypeThreads, LockInv, Exists, Holding,
        NoThread, KeepClient, CanUpdate, Goto, CanLock, listener, link, props, told,
        inbox, others
<1>12. ASSUME NEW t \in Thread, SendLiveState(t) PROVE LockInv'
  BY <1>12, NoThreadAssumption DEF TypeOK, TypeThreads, LockInv, Exists, Holding,
        NoThread, SendLiveState, Inside, Goto, Return, CloseClientConnection,
        ResetConnection, Inbox!Clear, Nothing, listener, link, told, inbox, locals,
        others
<1>13. ASSUME NEW t \in Thread, SendStatus(t) PROVE LockInv'
  BY <1>13, NoThreadAssumption DEF TypeOK, TypeThreads, LockInv, Exists, Holding,
        NoThread, SendStatus, Inside, Goto, Return, CloseClientConnection,
        ResetConnection, Inbox!Clear, Nothing, listener, link, told, inbox, locals,
        others
<1>14. ASSUME NEW t \in Thread, ConnectionFails(t) PROVE LockInv'
  BY <1>14, NoThreadAssumption DEF TypeOK, TypeThreads, LockInv, Exists, Holding,
        NoThread, ConnectionFails, Return, CloseClientConnection, ResetConnection,
        Inbox!Clear, Nothing, listener, props, locals, others
<1>15. ASSUME NEW t \in Thread, ConnectionHandshakes(t) PROVE LockInv'
  BY <1>15, NoThreadAssumption DEF TypeOK, TypeThreads, LockInv, Exists, Holding,
        NoThread, ConnectionHandshakes, Inside, Goto, listener, props, told, inbox,
        locals, others
<1>16. ASSUME NEW t \in Thread, ConnectionWaits(t) PROVE LockInv'
  BY <1>16, NoThreadAssumption DEF TypeOK, TypeThreads, LockInv, Exists, Holding,
        NoThread, ConnectionWaits, Inside, Goto, listener, link, props, inbox, locals,
        others
<1>17. ASSUME NEW t \in Thread, ConnectionSends(t) PROVE LockInv'
  BY <1>17, NoThreadAssumption DEF TypeOK, TypeThreads, LockInv, Exists, Holding,
        NoThread, ConnectionSends, Inside, Goto, listener, link, props, inbox, locals,
        others
<1>18. ASSUME NEW t \in Thread, ConnectionReceives(t) PROVE LockInv'
  BY <1>18, NoThreadAssumption DEF TypeOK, TypeThreads, LockInv, Exists, Holding,
        NoThread, ConnectionReceives, Inside, Inbox!Push, Inbox!Succ, listener, link,
        props, told, locals, others, mutex
<1>19. ASSUME NEW t \in Thread, ConnectionReceivedAll(t) PROVE LockInv'
  BY <1>19, NoThreadAssumption DEF TypeOK, TypeThreads, LockInv, Exists, Holding,
        NoThread, ConnectionReceivedAll, Inside, Goto, listener, link, props, told,
        inbox, locals, others
<1>20. ASSUME NEW t \in Thread, ReadFails(t) PROVE LockInv'
  BY <1>20, NoThreadAssumption DEF TypeOK, TypeThreads, LockInv, Exists, Holding,
        NoThread, ReadFails, Inside, Return, CloseClientConnection, ResetConnection,
        Inbox!Clear, Nothing, listener, props, others
<1>21. ASSUME NEW t \in Thread, PopMessage(t) PROVE LockInv'
  BY <1>21, NoThreadAssumption DEF TypeOK, TypeThreads, LockInv, Exists, Holding,
        NoThread, PopMessage, CanRead, Inbox!Pop, Inside, Inbox!Succ, listener, link,
        props, told, others
<1>22. ASSUME NEW t \in Thread, CallbackReturns(t) PROVE LockInv'
  BY <1>22, NoThreadAssumption DEF TypeOK, TypeThreads, LockInv, Exists, Holding,
        NoThread, CallbackReturns, listener, link, props, told, inbox, others, mutex
<1>23. ASSUME NEW t \in Thread, Relock(t) PROVE LockInv'
  BY <1>23, NoThreadAssumption DEF TypeOK, TypeThreads, LockInv, Exists, Holding,
        NoThread, Relock, CanLock, Goto, listener, link, props, told, locals, others
<1>24. ASSUME NEW t \in Thread, UpdateEnds(t) PROVE LockInv'
  BY <1>24, NoThreadAssumption DEF TypeOK, TypeThreads, LockInv, Exists, Holding,
        NoThread, UpdateEnds, CanRead, Return, Inside, listener, link, told, inbox,
        locals, others
<1>25. ASSUME UNCHANGED vars PROVE LockInv'
  BY <1>25, NoThreadAssumption DEF TypeOK, TypeThreads, LockInv, Exists, Holding,
        NoThread, vars, listener, link, props, told, inbox, locals, others, mutex
<1>26. QED
  BY <1>1, <1>2, <1>3, <1>4, <1>5, <1>6, <1>7, <1>8, <1>9, <1>10, <1>11, <1>12, <1>13,
     <1>14, <1>15, <1>16, <1>17, <1>18, <1>19, <1>20, <1>21, <1>22, <1>23, <1>24, <1>25,
     <1>27 DEF Next, Update

(* Every close waits for the next client, every accept stops waiting.       *)
LEMMA LinkStep ==
  ASSUME TypeOK, LockInv, LinkInv, [Next]_vars
  PROVE  LinkInv'
<1>1. ASSUME NEW o \in {"listening", "unbound", "failed"}, Create(o) PROVE LinkInv'
  BY <1>1 DEF TypeOK, TypeLink, TypeThreads, LockInv, LinkInv, Exists, Holding, Create,
        props, told, inbox, locals, others, mutex
<1>2. ASSUME CreateBlocks PROVE LinkInv'
  BY <1>2 DEF TypeOK, TypeLink, TypeThreads, LockInv, LinkInv, Exists, Holding,
        CreateBlocks, link, props, told, inbox, locals, others, mutex
<1>3. ASSUME Destroy PROVE LinkInv'
  BY <1>3 DEF TypeOK, TypeLink, TypeThreads, LockInv, LinkInv, Exists, Holding, Destroy,
        Inbox!Clear, Nothing, props, locals, others, mutex
<1>4. ASSUME AgentConnects PROVE LinkInv'
  BY <1>4 DEF TypeOK, TypeLink, TypeThreads, LockInv, LinkInv, Exists, Holding,
        AgentConnects, link, props, told, inbox, locals, others, mutex
<1>5. ASSUME NEW t \in Thread, NEW s \in GameState, NEW x \in Extra \cup {NoObject},
             SetLiveState(t, s, x)
      PROVE  LinkInv'
  BY <1>5 DEF TypeOK, TypeLink, TypeThreads, LockInv, LinkInv, Exists, Holding,
        SetLiveState, CanSet, CanCall, CanLock, listener, link, props, told, inbox,
        locals, mutex
<1>6. ASSUME NEW t \in Thread, NEW a \in AppStatus,
             SetApplicationInstanceStatus(t, a)
      PROVE  LinkInv'
  BY <1>6 DEF TypeOK, TypeLink, TypeThreads, LockInv, LinkInv, Exists, Holding,
        SetApplicationInstanceStatus, CanSet, CanCall, CanLock, listener, link, told,
        inbox, locals, mutex
<1>7. ASSUME NEW t \in Thread, ReverseEnter(t) PROVE LinkInv'
  BY <1>7 DEF TypeOK, TypeLink, TypeThreads, LockInv, LinkInv, Exists, Holding,
        ReverseEnter, listener, link, props, told, inbox, locals
<1>8. ASSUME NEW t \in Thread, ReverseLeave(t) PROVE LinkInv'
  BY <1>8 DEF TypeOK, TypeLink, TypeThreads, LockInv, LinkInv, Exists, Holding,
        ReverseLeave, listener, link, props, inbox, locals, Tear, Told
<1>27. ASSUME NEW t \in Thread, ReverseTears(t) PROVE LinkInv'
  BY <1>27 DEF TypeOK, TypeLink, TypeThreads, LockInv, LinkInv, Exists, Holding,
        ReverseTears, listener, link, props, inbox, locals, others, mutex, Tear, Told
<1>9. ASSUME NEW t \in Thread, ListenRetry(t) PROVE LinkInv'
  BY <1>9 DEF TypeOK, TypeLink, TypeThreads, LockInv, LinkInv, Exists, Holding,
        ListenRetry, CanUpdate, CanLock, props, told, inbox, locals, others, mutex
<1>10. ASSUME NEW t \in Thread, AcceptClient(t) PROVE LinkInv'
  BY <1>10 DEF TypeOK, TypeLink, TypeThreads, LockInv, LinkInv, Exists, Holding,
        AcceptClient, CanUpdate, Goto, ResetConnection, CanLock, Inbox!Clear, Nothing,
        listener, props, others
<1>11. ASSUME NEW t \in Thread, KeepClient(t) PROVE LinkInv'
  BY <1>11 DEF TypeOK, TypeLink, TypeThreads, LockInv, LinkInv, Exists, Holding,
        KeepClient, CanUpdate, Goto, CanLock, listener, link, props, told, inbox, others
<1>12. ASSUME NEW t \in Thread, SendLiveState(t) PROVE LinkInv'
  BY <1>12 DEF TypeOK, TypeLink, TypeThreads, LockInv, LinkInv, Exists, Holding,
        SendLiveState, Inside, Goto, Return, CloseClientConnection, ResetConnection,
        Inbox!Clear, Nothing, listener, link, told, inbox, locals, others
<1>13. ASSUME NEW t \in Thread, SendStatus(t) PROVE LinkInv'
  BY <1>13 DEF TypeOK, TypeLink, TypeThreads, LockInv, LinkInv, Exists, Holding,
        SendStatus, Inside, Goto, Return, CloseClientConnection, ResetConnection,
        Inbox!Clear, Nothing, listener, link, told, inbox, locals, others
<1>14. ASSUME NEW t \in Thread, ConnectionFails(t) PROVE LinkInv'
  BY <1>14 DEF TypeOK, TypeLink, TypeThreads, LockInv, LinkInv, Exists, Holding,
        ConnectionFails, Return, CloseClientConnection, ResetConnection, Inbox!Clear,
        Nothing, listener, props, locals, others
<1>15. ASSUME NEW t \in Thread, ConnectionHandshakes(t) PROVE LinkInv'
  BY <1>15 DEF TypeOK, TypeLink, TypeThreads, LockInv, LinkInv, Exists, Holding,
        ConnectionHandshakes, Inside, Goto, listener, props, told, inbox, locals, others
<1>16. ASSUME NEW t \in Thread, ConnectionWaits(t) PROVE LinkInv'
  BY <1>16 DEF TypeOK, TypeLink, TypeThreads, LockInv, LinkInv, Exists, Holding,
        ConnectionWaits, Inside, Goto, listener, link, props, inbox, locals, others
<1>17. ASSUME NEW t \in Thread, ConnectionSends(t) PROVE LinkInv'
  BY <1>17 DEF TypeOK, TypeLink, TypeThreads, LockInv, LinkInv, Exists, Holding,
        ConnectionSends, Inside, Goto, listener, link, props, inbox, locals, others
<1>18. ASSUME NEW t \in Thread, ConnectionReceives(t) PROVE LinkInv'
  BY <1>18 DEF TypeOK, TypeLink, TypeThreads, LockInv, LinkInv, Exists, Holding,
        ConnectionReceives, Inside, Inbox!Push, Inbox!Succ, listener, link, props, told,
        locals, others, mutex
<1>19. ASSUME NEW t \in Thread, ConnectionReceivedAll(t) PROVE LinkInv'
  BY <1>19 DEF TypeOK, TypeLink, TypeThreads, LockInv, LinkInv, Exists, Holding,
        ConnectionReceivedAll, Inside, Goto, listener, link, props, told, inbox, locals,
        others
<1>20. ASSUME NEW t \in Thread, ReadFails(t) PROVE LinkInv'
  BY <1>20 DEF TypeOK, TypeLink, TypeThreads, LockInv, LinkInv, Exists, Holding,
        ReadFails, Inside, Return, CloseClientConnection, ResetConnection, Inbox!Clear,
        Nothing, listener, props, others
<1>21. ASSUME NEW t \in Thread, PopMessage(t) PROVE LinkInv'
  BY <1>21 DEF TypeOK, TypeLink, TypeThreads, LockInv, LinkInv, Exists, Holding,
        PopMessage, CanRead, Inbox!Pop, Inside, Inbox!Succ, listener, link, props, told,
        others
<1>22. ASSUME NEW t \in Thread, CallbackReturns(t) PROVE LinkInv'
  BY <1>22 DEF TypeOK, TypeLink, TypeThreads, LockInv, LinkInv, Exists, Holding,
        CallbackReturns, listener, link, props, told, inbox, others, mutex
<1>23. ASSUME NEW t \in Thread, Relock(t) PROVE LinkInv'
  BY <1>23 DEF TypeOK, TypeLink, TypeThreads, LockInv, LinkInv, Exists, Holding, Relock,
        CanLock, Goto, listener, link, props, told, locals, others
<1>24. ASSUME NEW t \in Thread, UpdateEnds(t) PROVE LinkInv'
  BY <1>24 DEF TypeOK, TypeLink, TypeThreads, LockInv, LinkInv, Exists, Holding,
        UpdateEnds, CanRead, Return, Inside, listener, link, told, inbox, locals, others
<1>25. ASSUME UNCHANGED vars PROVE LinkInv'
  BY <1>25 DEF TypeOK, TypeLink, TypeThreads, LockInv, LinkInv, Exists, Holding, vars,
        listener, link, props, told, inbox, locals, others, mutex
<1>26. QED
  BY <1>1, <1>2, <1>3, <1>4, <1>5, <1>6, <1>7, <1>8, <1>9, <1>10, <1>11, <1>12, <1>13,
     <1>14, <1>15, <1>16, <1>17, <1>18, <1>19, <1>20, <1>21, <1>22, <1>23, <1>24, <1>25,
     <1>27 DEF Next, Update

(* Nothing is received in a handshake; a reset connection is empty.         *)
LEMMA ReadyStep ==
  ASSUME TypeOK, LockInv, LinkInv, ReadyInv, [Next]_vars
  PROVE  ReadyInv'
<1>1. ASSUME NEW o \in {"listening", "unbound", "failed"}, Create(o) PROVE ReadyInv'
  BY <1>1, ServerBounds, NoThreadAssumption DEF NoThread, TypeOK, TypeLink, TypeInbox,
        TypeThreads, LockInv, LinkInv, ReadyInv, Holding, Create, props, told, inbox,
        locals, others, mutex
<1>2. ASSUME CreateBlocks PROVE ReadyInv'
  BY <1>2, ServerBounds, NoThreadAssumption DEF NoThread, TypeOK, TypeLink, TypeInbox,
        TypeThreads, LockInv, LinkInv, ReadyInv, Holding, CreateBlocks, link, props,
        told, inbox, locals, others, mutex
<1>3. ASSUME Destroy PROVE ReadyInv'
  BY <1>3, ServerBounds, NoThreadAssumption DEF NoThread, TypeOK, TypeLink, TypeInbox,
        TypeThreads, LockInv, LinkInv, ReadyInv, Holding, Destroy, Exists, Inbox!Clear,
        Nothing, props, locals, others, mutex
<1>4. ASSUME AgentConnects PROVE ReadyInv'
  BY <1>4, ServerBounds, NoThreadAssumption DEF NoThread, TypeOK, TypeLink, TypeInbox,
        TypeThreads, LockInv, LinkInv, ReadyInv, Holding, AgentConnects, Exists, link,
        props, told, inbox, locals, others, mutex
<1>5. ASSUME NEW t \in Thread, NEW s \in GameState, NEW x \in Extra \cup {NoObject},
             SetLiveState(t, s, x)
      PROVE  ReadyInv'
  BY <1>5, ServerBounds, NoThreadAssumption DEF NoThread, TypeOK, TypeLink, TypeInbox,
        TypeThreads, LockInv, LinkInv, ReadyInv, Holding, SetLiveState, CanSet, CanCall,
        CanLock, Exists, listener, link, props, told, inbox, locals, mutex
<1>6. ASSUME NEW t \in Thread, NEW a \in AppStatus,
             SetApplicationInstanceStatus(t, a)
      PROVE  ReadyInv'
  BY <1>6, ServerBounds, NoThreadAssumption DEF NoThread, TypeOK, TypeLink, TypeInbox,
        TypeThreads, LockInv, LinkInv, ReadyInv, Holding, SetApplicationInstanceStatus,
        CanSet, CanCall, CanLock, Exists, listener, link, told, inbox, locals, mutex
<1>7. ASSUME NEW t \in Thread, ReverseEnter(t) PROVE ReadyInv'
  BY <1>7, ServerBounds, NoThreadAssumption DEF NoThread, TypeOK, TypeLink, TypeInbox,
        TypeThreads, LockInv, LinkInv, ReadyInv, Holding, ReverseEnter, Exists,
        listener, link, props, told, inbox, locals
<1>8. ASSUME NEW t \in Thread, ReverseLeave(t) PROVE ReadyInv'
  BY <1>8, ServerBounds, NoThreadAssumption DEF NoThread, TypeOK, TypeLink, TypeInbox,
        TypeThreads, LockInv, LinkInv, ReadyInv, Holding, ReverseLeave, listener, link,
        props, inbox, locals, Tear, Told
<1>27. ASSUME NEW t \in Thread, ReverseTears(t) PROVE ReadyInv'
  BY <1>27, ServerBounds, NoThreadAssumption DEF NoThread, TypeOK, TypeLink, TypeInbox,
        TypeThreads, LockInv, LinkInv, ReadyInv, Holding, ReverseTears, listener, link,
        props, inbox, locals, others, mutex, Tear, Told
<1>9. ASSUME NEW t \in Thread, ListenRetry(t) PROVE ReadyInv'
  BY <1>9, ServerBounds, NoThreadAssumption DEF NoThread, TypeOK, TypeLink, TypeInbox,
        TypeThreads, LockInv, LinkInv, ReadyInv, Holding, ListenRetry, CanUpdate,
        CanLock, Exists, props, told, inbox, locals, others, mutex
<1>10. ASSUME NEW t \in Thread, AcceptClient(t) PROVE ReadyInv'
  BY <1>10, ServerBounds, NoThreadAssumption DEF NoThread, TypeOK, TypeLink, TypeInbox,
        TypeThreads, LockInv, LinkInv, ReadyInv, Holding, AcceptClient, CanUpdate, Goto,
        ResetConnection, CanLock, Exists, Inbox!Clear, Nothing, listener, props, told,
        inbox, others
<1>11. ASSUME NEW t \in Thread, KeepClient(t) PROVE ReadyInv'
  BY <1>11, ServerBounds, NoThreadAssumption DEF NoThread, TypeOK, TypeLink, TypeInbox,
        TypeThreads, LockInv, LinkInv, ReadyInv, Holding, KeepClient, CanUpdate, Goto,
        CanLock, Exists, listener, link, props, told, inbox, others
<1>12. ASSUME NEW t \in Thread, SendLiveState(t) PROVE ReadyInv'
  BY <1>12, ServerBounds, NoThreadAssumption DEF NoThread, TypeOK, TypeLink, TypeInbox,
        TypeThreads, LockInv, LinkInv, ReadyInv, Holding, SendLiveState, Inside, Goto,
        Return, CloseClientConnection, ResetConnection, Inbox!Clear, Nothing, listener,
        link, told, inbox, locals, others
<1>13. ASSUME NEW t \in Thread, SendStatus(t) PROVE ReadyInv'
  BY <1>13, ServerBounds, NoThreadAssumption DEF NoThread, TypeOK, TypeLink, TypeInbox,
        TypeThreads, LockInv, LinkInv, ReadyInv, Holding, SendStatus, Inside, Goto,
        Return, CloseClientConnection, ResetConnection, Inbox!Clear, Nothing, listener,
        link, told, inbox, locals, others
<1>14. ASSUME NEW t \in Thread, ConnectionFails(t) PROVE ReadyInv'
  BY <1>14, ServerBounds, NoThreadAssumption DEF NoThread, TypeOK, TypeLink, TypeInbox,
        TypeThreads, LockInv, LinkInv, ReadyInv, Holding, ConnectionFails, Return,
        CloseClientConnection, ResetConnection, Inbox!Clear, Nothing, listener, props,
        locals, others
<1>15. ASSUME NEW t \in Thread, ConnectionHandshakes(t) PROVE ReadyInv'
  BY <1>15, ServerBounds, NoThreadAssumption DEF NoThread, TypeOK, TypeLink, TypeInbox,
        TypeThreads, LockInv, LinkInv, ReadyInv, Holding, ConnectionHandshakes, Inside,
        Goto, listener, props, told, inbox, locals, others
<1>16. ASSUME NEW t \in Thread, ConnectionWaits(t) PROVE ReadyInv'
  BY <1>16, ServerBounds, NoThreadAssumption DEF NoThread, TypeOK, TypeLink, TypeInbox,
        TypeThreads, LockInv, LinkInv, ReadyInv, Holding, ConnectionWaits, Inside, Goto,
        listener, link, props, inbox, locals, others
<1>17. ASSUME NEW t \in Thread, ConnectionSends(t) PROVE ReadyInv'
  BY <1>17, ServerBounds, NoThreadAssumption DEF NoThread, TypeOK, TypeLink, TypeInbox,
        TypeThreads, LockInv, LinkInv, ReadyInv, Holding, ConnectionSends, Inside, Goto,
        listener, link, props, inbox, locals, others
<1>18. ASSUME NEW t \in Thread, ConnectionReceives(t) PROVE ReadyInv'
  BY <1>18, ServerBounds, NoThreadAssumption DEF NoThread, TypeOK, TypeLink, TypeInbox,
        TypeThreads, LockInv, LinkInv, ReadyInv, Holding, ConnectionReceives, Inside,
        Inbox!Push, Inbox!Succ, listener, link, props, told, locals, others, mutex
<1>19. ASSUME NEW t \in Thread, ConnectionReceivedAll(t) PROVE ReadyInv'
  BY <1>19, ServerBounds, NoThreadAssumption DEF NoThread, TypeOK, TypeLink, TypeInbox,
        TypeThreads, LockInv, LinkInv, ReadyInv, Holding, ConnectionReceivedAll, Inside,
        Goto, listener, link, props, told, inbox, locals, others
<1>20. ASSUME NEW t \in Thread, ReadFails(t) PROVE ReadyInv'
  BY <1>20, ServerBounds, NoThreadAssumption DEF NoThread, TypeOK, TypeLink, TypeInbox,
        TypeThreads, LockInv, LinkInv, ReadyInv, Holding, ReadFails, Inside, Return,
        CloseClientConnection, ResetConnection, Inbox!Clear, Nothing, listener, props,
        others
<1>21. ASSUME NEW t \in Thread, PopMessage(t) PROVE ReadyInv'
  BY <1>21, ServerBounds, NoThreadAssumption DEF NoThread, TypeOK, TypeLink, TypeInbox,
        TypeThreads, LockInv, LinkInv, ReadyInv, Holding, PopMessage, CanRead,
        Inbox!Pop, Inside, Inbox!Succ, listener, link, props, told, others
<1>22. ASSUME NEW t \in Thread, CallbackReturns(t) PROVE ReadyInv'
  BY <1>22, ServerBounds, NoThreadAssumption DEF NoThread, TypeOK, TypeLink, TypeInbox,
        TypeThreads, LockInv, LinkInv, ReadyInv, Holding, CallbackReturns, listener,
        link, props, told, inbox, others, mutex
<1>23. ASSUME NEW t \in Thread, Relock(t) PROVE ReadyInv'
  BY <1>23, ServerBounds, NoThreadAssumption DEF NoThread, TypeOK, TypeLink, TypeInbox,
        TypeThreads, LockInv, LinkInv, ReadyInv, Holding, Relock, CanLock, Goto, Exists,
        listener, link, props, told, locals, others
<1>24. ASSUME NEW t \in Thread, UpdateEnds(t) PROVE ReadyInv'
  BY <1>24, ServerBounds, NoThreadAssumption DEF NoThread, TypeOK, TypeLink, TypeInbox,
        TypeThreads, LockInv, LinkInv, ReadyInv, Holding, UpdateEnds, CanRead, Return,
        Inside, listener, link, told, inbox, locals, others
<1>25. ASSUME UNCHANGED vars PROVE ReadyInv'
  BY <1>25, ServerBounds, NoThreadAssumption DEF NoThread, TypeOK, TypeLink, TypeInbox,
        TypeThreads, LockInv, LinkInv, ReadyInv, Holding, vars, listener, link, props,
        told, inbox, locals, others, mutex
<1>26. QED
  BY <1>1, <1>2, <1>3, <1>4, <1>5, <1>6, <1>7, <1>8, <1>9, <1>10, <1>11, <1>12, <1>13,
     <1>14, <1>15, <1>16, <1>17, <1>18, <1>19, <1>20, <1>21, <1>22, <1>23, <1>24, <1>25,
     <1>27 DEF Next, Update

(* The flag is cleared only when the state is what was sent last.           *)
LEMMA LiveStep ==
  ASSUME TypeOK, LiveInv, [Next]_vars
  PROVE  LiveInv'
<1>1. ASSUME NEW o \in {"listening", "unbound", "failed"}, Create(o) PROVE LiveInv'
  BY <1>1, ServerValues DEF TypeOK, TypeProps, LiveInv, Create, props, told, inbox,
        locals, others, mutex
<1>2. ASSUME CreateBlocks PROVE LiveInv'
  BY <1>2, ServerValues DEF TypeOK, TypeProps, LiveInv, CreateBlocks, link, props, told,
        inbox, locals, others, mutex
<1>3. ASSUME Destroy PROVE LiveInv'
  BY <1>3, ServerValues DEF TypeOK, TypeProps, LiveInv, Destroy, Exists, Inbox!Clear,
        Nothing, props, locals, others, mutex
<1>4. ASSUME AgentConnects PROVE LiveInv'
  BY <1>4, ServerValues DEF TypeOK, TypeProps, LiveInv, AgentConnects, Exists, link,
        props, told, inbox, locals, others, mutex
<1>5. ASSUME NEW t \in Thread, NEW s \in GameState, NEW x \in Extra \cup {NoObject},
             SetLiveState(t, s, x)
      PROVE  LiveInv'
  BY <1>5, ServerValues DEF TypeOK, TypeProps, LiveInv, SetLiveState, CanSet, CanCall,
        CanLock, Exists, listener, link, props, told, inbox, locals, mutex
<1>6. ASSUME NEW t \in Thread, NEW a \in AppStatus,
             SetApplicationInstanceStatus(t, a)
      PROVE  LiveInv'
  BY <1>6, ServerValues DEF TypeOK, TypeProps, LiveInv, SetApplicationInstanceStatus,
        CanSet, CanCall, CanLock, Exists, listener, link, told, inbox, locals, mutex
<1>7. ASSUME NEW t \in Thread, ReverseEnter(t) PROVE LiveInv'
  BY <1>7, ServerValues DEF TypeOK, TypeProps, LiveInv, ReverseEnter, Exists, listener,
        link, props, told, inbox, locals
<1>8. ASSUME NEW t \in Thread, ReverseLeave(t) PROVE LiveInv'
  BY <1>8, ServerValues DEF TypeOK, TypeProps, LiveInv, ReverseLeave, listener, link,
        props, inbox, locals, Tear, Told
<1>27. ASSUME NEW t \in Thread, ReverseTears(t) PROVE LiveInv'
  BY <1>27, ServerValues DEF TypeOK, TypeProps, LiveInv, ReverseTears, listener, link,
        props, inbox, locals, others, mutex, Tear, Told
<1>9. ASSUME NEW t \in Thread, ListenRetry(t) PROVE LiveInv'
  BY <1>9, ServerValues DEF TypeOK, TypeProps, LiveInv, ListenRetry, CanUpdate, CanLock,
        Exists, props, told, inbox, locals, others, mutex
<1>10. ASSUME NEW t \in Thread, AcceptClient(t) PROVE LiveInv'
  BY <1>10, ServerValues DEF TypeOK, TypeProps, LiveInv, AcceptClient, CanUpdate, Goto,
        ResetConnection, CanLock, Exists, Inbox!Clear, Nothing, listener, props, others
<1>11. ASSUME NEW t \in Thread, KeepClient(t) PROVE LiveInv'
  BY <1>11, ServerValues DEF TypeOK, TypeProps, LiveInv, KeepClient, CanUpdate, Goto,
        CanLock, Exists, listener, link, props, told, inbox, others
<1>12. ASSUME NEW t \in Thread, SendLiveState(t) PROVE LiveInv'
  BY <1>12, ServerValues DEF TypeOK, TypeProps, LiveInv, SendLiveState, Inside, Goto,
        Return, CloseClientConnection, ResetConnection, Inbox!Clear, Nothing, listener,
        link, told, inbox, locals, others
<1>13. ASSUME NEW t \in Thread, SendStatus(t) PROVE LiveInv'
  BY <1>13, ServerValues DEF TypeOK, TypeProps, LiveInv, SendStatus, Inside, Goto,
        Return, CloseClientConnection, ResetConnection, Inbox!Clear, Nothing, listener,
        link, told, inbox, locals, others
<1>14. ASSUME NEW t \in Thread, ConnectionFails(t) PROVE LiveInv'
  BY <1>14, ServerValues DEF TypeOK, TypeProps, LiveInv, ConnectionFails, Return,
        CloseClientConnection, ResetConnection, Inbox!Clear, Nothing, listener, props,
        locals, others
<1>15. ASSUME NEW t \in Thread, ConnectionHandshakes(t) PROVE LiveInv'
  BY <1>15, ServerValues DEF TypeOK, TypeProps, LiveInv, ConnectionHandshakes, Inside,
        Goto, listener, props, told, inbox, locals, others
<1>16. ASSUME NEW t \in Thread, ConnectionWaits(t) PROVE LiveInv'
  BY <1>16, ServerValues DEF TypeOK, TypeProps, LiveInv, ConnectionWaits, Inside, Goto,
        listener, link, props, inbox, locals, others
<1>17. ASSUME NEW t \in Thread, ConnectionSends(t) PROVE LiveInv'
  BY <1>17, ServerValues DEF TypeOK, TypeProps, LiveInv, ConnectionSends, Inside, Goto,
        listener, link, props, inbox, locals, others
<1>18. ASSUME NEW t \in Thread, ConnectionReceives(t) PROVE LiveInv'
  BY <1>18, ServerValues DEF TypeOK, TypeProps, LiveInv, ConnectionReceives, Inside,
        Inbox!Push, Inbox!Succ, listener, link, props, told, locals, others, mutex
<1>19. ASSUME NEW t \in Thread, ConnectionReceivedAll(t) PROVE LiveInv'
  BY <1>19, ServerValues DEF TypeOK, TypeProps, LiveInv, ConnectionReceivedAll, Inside,
        Goto, listener, link, props, told, inbox, locals, others
<1>20. ASSUME NEW t \in Thread, ReadFails(t) PROVE LiveInv'
  BY <1>20, ServerValues DEF TypeOK, TypeProps, LiveInv, ReadFails, Inside, Return,
        CloseClientConnection, ResetConnection, Inbox!Clear, Nothing, listener, props,
        others
<1>21. ASSUME NEW t \in Thread, PopMessage(t) PROVE LiveInv'
  BY <1>21, ServerValues DEF TypeOK, TypeProps, LiveInv, PopMessage, CanRead, Inbox!Pop,
        Inside, Inbox!Succ, listener, link, props, told, others
<1>22. ASSUME NEW t \in Thread, CallbackReturns(t) PROVE LiveInv'
  BY <1>22, ServerValues DEF TypeOK, TypeProps, LiveInv, CallbackReturns, listener,
        link, props, told, inbox, others, mutex
<1>23. ASSUME NEW t \in Thread, Relock(t) PROVE LiveInv'
  BY <1>23, ServerValues DEF TypeOK, TypeProps, LiveInv, Relock, CanLock, Goto, Exists,
        listener, link, props, told, locals, others
<1>24. ASSUME NEW t \in Thread, UpdateEnds(t) PROVE LiveInv'
  BY <1>24, ServerValues DEF TypeOK, TypeProps, LiveInv, UpdateEnds, CanRead, Return,
        Inside, listener, link, told, inbox, locals, others
<1>25. ASSUME UNCHANGED vars PROVE LiveInv'
  BY <1>25, ServerValues DEF TypeOK, TypeProps, LiveInv, vars, listener, link, props,
        told, inbox, locals, others, mutex
<1>26. QED
  BY <1>1, <1>2, <1>3, <1>4, <1>5, <1>6, <1>7, <1>8, <1>9, <1>10, <1>11, <1>12, <1>13,
     <1>14, <1>15, <1>16, <1>17, <1>18, <1>19, <1>20, <1>21, <1>22, <1>23, <1>24, <1>25,
     <1>27 DEF Next, Update

(* The flag is cleared only when the status is queued; a connection that    *)
(* becomes ready is empty, so that its update ends in the same hold of the  *)
(* mutex and sets the flag.                                                 *)
LEMMA StatusStep ==
  ASSUME TypeOK, LockInv, LinkInv, ReadyInv, StatusInv, [Next]_vars
  PROVE  StatusInv'
<1>1. ASSUME NEW o \in {"listening", "unbound", "failed"}, Create(o) PROVE StatusInv'
  BY <1>1, ServerBounds DEF TypeOK, TypeProps, TypeInbox, TypeThreads, LockInv,
        ReadyInv, StatusInv, Scheduling, Holding, Told, Create, props, told, inbox,
        locals, others, mutex
<1>2. ASSUME CreateBlocks PROVE StatusInv'
  BY <1>2, ServerBounds DEF TypeOK, TypeProps, TypeInbox, TypeThreads, LockInv,
        ReadyInv, StatusInv, Scheduling, Holding, Told, CreateBlocks, link, props, told,
        inbox, locals, others, mutex
<1>3. ASSUME Destroy PROVE StatusInv'
  BY <1>3, ServerBounds DEF TypeOK, TypeProps, TypeInbox, TypeThreads, LockInv,
        ReadyInv, StatusInv, Scheduling, Holding, Told, Destroy, Exists, Inbox!Clear,
        Nothing, props, locals, others, mutex
<1>4. ASSUME AgentConnects PROVE StatusInv'
  BY <1>4, ServerBounds DEF TypeOK, TypeProps, TypeInbox, TypeThreads, LockInv,
        ReadyInv, StatusInv, Scheduling, Holding, Told, AgentConnects, Exists, link,
        props, told, inbox, locals, others, mutex
<1>5. ASSUME NEW t \in Thread, NEW s \in GameState, NEW x \in Extra \cup {NoObject},
             SetLiveState(t, s, x)
      PROVE  StatusInv'
  BY <1>5, ServerBounds DEF TypeOK, TypeProps, TypeInbox, TypeThreads, LockInv,
        ReadyInv, StatusInv, Scheduling, Holding, Told, SetLiveState, CanSet, CanCall,
        CanLock, Exists, listener, link, props, told, inbox, locals, mutex
<1>6. ASSUME NEW t \in Thread, NEW a \in AppStatus,
             SetApplicationInstanceStatus(t, a)
      PROVE  StatusInv'
  BY <1>6, ServerBounds DEF TypeOK, TypeProps, TypeInbox, TypeThreads, LockInv,
        ReadyInv, StatusInv, Scheduling, Holding, Told, SetApplicationInstanceStatus,
        CanSet, CanCall, CanLock, Exists, listener, link, told, inbox, locals, mutex
<1>7. ASSUME NEW t \in Thread, ReverseEnter(t) PROVE StatusInv'
  BY <1>7, ServerBounds DEF TypeOK, TypeProps, TypeInbox, TypeThreads, LockInv,
        ReadyInv, StatusInv, Scheduling, Holding, Told, ReverseEnter, Exists, listener,
        link, props, told, inbox, locals
<1>8. ASSUME NEW t \in Thread, ReverseLeave(t) PROVE StatusInv'
  BY <1>8, ServerBounds DEF TypeOK, TypeProps, TypeInbox, TypeThreads, LockInv,
        ReadyInv, StatusInv, Scheduling, Holding, Told, ReverseLeave, listener, link,
        props, inbox, locals, Tear
<1>27. ASSUME NEW t \in Thread, ReverseTears(t) PROVE StatusInv'
  BY <1>27, ServerBounds DEF TypeOK, TypeProps, TypeInbox, TypeThreads, LockInv,
        ReadyInv, StatusInv, Scheduling, Holding, Told, ReverseTears, listener, link,
        props, inbox, locals, others, mutex, Tear
<1>9. ASSUME NEW t \in Thread, ListenRetry(t) PROVE StatusInv'
  BY <1>9, ServerBounds DEF TypeOK, TypeProps, TypeInbox, TypeThreads, LockInv,
        ReadyInv, StatusInv, Scheduling, Holding, Told, ListenRetry, CanUpdate, CanLock,
        Exists, props, told, inbox, locals, others, mutex
<1>10. ASSUME NEW t \in Thread, AcceptClient(t) PROVE StatusInv'
  BY <1>10, ServerBounds DEF TypeOK, TypeProps, TypeInbox, TypeThreads, LockInv,
        ReadyInv, StatusInv, Scheduling, Holding, Told, AcceptClient, CanUpdate, Goto,
        ResetConnection, CanLock, Exists, Inbox!Clear, Nothing, listener, props, others
<1>11. ASSUME NEW t \in Thread, KeepClient(t) PROVE StatusInv'
  BY <1>11, ServerBounds DEF TypeOK, TypeProps, TypeInbox, TypeThreads, LockInv,
        ReadyInv, StatusInv, Scheduling, Holding, Told, KeepClient, CanUpdate, Goto,
        CanLock, Exists, listener, link, props, told, inbox, others
<1>12. ASSUME NEW t \in Thread, SendLiveState(t) PROVE StatusInv'
  BY <1>12, ServerBounds DEF TypeOK, TypeProps, TypeInbox, TypeThreads, LockInv,
        ReadyInv, StatusInv, Scheduling, Holding, Told, SendLiveState, Inside, Goto,
        Return, CloseClientConnection, ResetConnection, Inbox!Clear, Nothing, listener,
        link, told, inbox, locals, others
<1>13. ASSUME NEW t \in Thread, SendStatus(t) PROVE StatusInv'
  BY <1>13, ServerBounds DEF TypeOK, TypeProps, TypeInbox, TypeThreads, LockInv,
        ReadyInv, StatusInv, Scheduling, Holding, Told, SendStatus, Inside, Goto,
        Return, CloseClientConnection, ResetConnection, Inbox!Clear, Nothing, listener,
        link, told, inbox, locals, others
<1>14. ASSUME NEW t \in Thread, ConnectionFails(t) PROVE StatusInv'
  BY <1>14, ServerBounds DEF TypeOK, TypeProps, TypeInbox, TypeThreads, LockInv,
        ReadyInv, StatusInv, Scheduling, Holding, Told, ConnectionFails, Return,
        CloseClientConnection, ResetConnection, Inbox!Clear, Nothing, listener, props,
        locals, others
<1>15. ASSUME NEW t \in Thread, ConnectionHandshakes(t) PROVE StatusInv'
  BY <1>15, ServerBounds DEF TypeOK, TypeProps, TypeInbox, TypeThreads, LockInv,
        ReadyInv, StatusInv, Scheduling, Holding, Told, ConnectionHandshakes, Inside,
        Goto, listener, props, told, inbox, locals, others
<1>16. ASSUME NEW t \in Thread, ConnectionWaits(t) PROVE StatusInv'
  BY <1>16, ServerBounds DEF TypeOK, TypeProps, TypeInbox, TypeThreads, LockInv,
        ReadyInv, StatusInv, Scheduling, Holding, Told, ConnectionWaits, Inside, Goto,
        listener, link, props, inbox, locals, others
<1>17. ASSUME NEW t \in Thread, ConnectionSends(t) PROVE StatusInv'
  BY <1>17, ServerBounds DEF TypeOK, TypeProps, TypeInbox, TypeThreads, LockInv,
        ReadyInv, StatusInv, Scheduling, Holding, Told, ConnectionSends, Inside, Goto,
        listener, link, props, inbox, locals, others
<1>18. ASSUME NEW t \in Thread, ConnectionReceives(t) PROVE StatusInv'
  BY <1>18, ServerBounds DEF TypeOK, TypeProps, TypeInbox, TypeThreads, LockInv,
        ReadyInv, StatusInv, Scheduling, Holding, Told, ConnectionReceives, Inside,
        Inbox!Push, Inbox!Succ, listener, link, props, told, locals, others, mutex
<1>19. ASSUME NEW t \in Thread, ConnectionReceivedAll(t) PROVE StatusInv'
  BY <1>19, ServerBounds DEF TypeOK, TypeProps, TypeInbox, TypeThreads, LockInv,
        ReadyInv, StatusInv, Scheduling, Holding, Told, ConnectionReceivedAll, Inside,
        Goto, listener, link, props, told, inbox, locals, others
<1>20. ASSUME NEW t \in Thread, ReadFails(t) PROVE StatusInv'
  BY <1>20, ServerBounds DEF TypeOK, TypeProps, TypeInbox, TypeThreads, LockInv,
        ReadyInv, StatusInv, Scheduling, Holding, Told, ReadFails, Inside, Return,
        CloseClientConnection, ResetConnection, Inbox!Clear, Nothing, listener, props,
        others
<1>21. ASSUME NEW t \in Thread, PopMessage(t) PROVE StatusInv'
  BY <1>21, ServerBounds DEF TypeOK, TypeProps, TypeInbox, TypeThreads, LockInv,
        ReadyInv, StatusInv, Scheduling, Holding, Told, PopMessage, CanRead, Inbox!Pop,
        Inside, Inbox!Succ, listener, link, props, told, others
<1>22. ASSUME NEW t \in Thread, CallbackReturns(t) PROVE StatusInv'
  BY <1>22, ServerBounds DEF TypeOK, TypeProps, TypeInbox, TypeThreads, LockInv,
        ReadyInv, StatusInv, Scheduling, Holding, Told, CallbackReturns, listener, link,
        props, told, inbox, others, mutex
<1>23. ASSUME NEW t \in Thread, Relock(t) PROVE StatusInv'
  BY <1>23, ServerBounds DEF TypeOK, TypeProps, TypeInbox, TypeThreads, LockInv,
        ReadyInv, StatusInv, Scheduling, Holding, Told, Relock, CanLock, Goto, Exists,
        listener, link, props, told, locals, others
<1>24. ASSUME NEW t \in Thread, UpdateEnds(t) PROVE StatusInv'
  BY <1>24, ServerBounds DEF TypeOK, TypeProps, TypeInbox, TypeThreads, LockInv,
        ReadyInv, StatusInv, Scheduling, Holding, Told, UpdateEnds, CanRead, Return,
        Inside, listener, link, told, inbox, locals, others
<1>25. ASSUME UNCHANGED vars PROVE StatusInv'
  BY <1>25, ServerBounds DEF TypeOK, TypeProps, TypeInbox, TypeThreads, LockInv,
        ReadyInv, StatusInv, Scheduling, Holding, Told, vars, listener, link, props,
        told, inbox, locals, others, mutex
<1>26. QED
  BY <1>1, <1>2, <1>3, <1>4, <1>5, <1>6, <1>7, <1>8, <1>9, <1>10, <1>11, <1>12, <1>13,
     <1>14, <1>15, <1>16, <1>17, <1>18, <1>19, <1>20, <1>21, <1>22, <1>23, <1>24, <1>25,
     <1>27 DEF Next, Update

(***************************************************************************)
(* The invariant is inductive.                                             *)
(***************************************************************************)
THEOREM Invariance == Spec => []IInv
<1>1. IInv /\ [Next]_vars => IInv'
  BY TypeStep, LockStep, LinkStep, ReadyStep, LiveStep, StatusStep DEF IInv
<1>2. QED  BY InitIInv, <1>1, PTL DEF Spec

(***************************************************************************)
(* Every variable of server.cpp keeps its type and every queue and counter *)
(* its capacity.                                                           *)
(***************************************************************************)
THEOREM TypeCorrect == Spec => []TypeOK
<1>1. IInv => TypeOK
  BY DEF IInv
<1>2. QED  BY Invariance, <1>1, PTL

(***************************************************************************)
(* status() (server.cpp 182-205) is truthful whatever number of threads    *)
(* update the server and of agents come and go.                            *)
(***************************************************************************)
THEOREM StatusIsTruthful == Spec => []StatusTruthful
<1>1. IInv => StatusTruthful
  <2>. SUFFICES ASSUME IInv, Free PROVE StatusTruthful
    BY DEF StatusTruthful
  <2>1. waiting <=> listening /\ client = 0
    BY DEF IInv, LinkInv, Free
  <2>2. ~listening => client = 0
    BY DEF IInv, LinkInv
  <2>3. client # 0 => status \in {"handshake", "ready"}
    BY DEF IInv, LinkInv, TypeOK, TypeLink
  <2>4. QED
    BY <2>1, <2>2, <2>3 DEF StatusTruthful, ServerStatus, Free
<1>2. QED  BY Invariance, <1>1, PTL

(***************************************************************************)
(* The current application status is in the queue of the ready client or   *)
(* an update is still to put it there (server.cpp 518-540), unless an      *)
(* unlocked push of another thread tore the queue (610).                   *)
(***************************************************************************)
THEOREM StatusIsScheduled == Spec => []StatusScheduled
<1>1. IInv => StatusScheduled
  <2>. SUFFICES ASSUME IInv, Free, status = "ready", ~torn
             PROVE  shouldSend \/ queued.app = app
    BY DEF StatusScheduled
  <2>1. ~Scheduling
    BY NoThreadAssumption DEF IInv, LockInv, Free, Scheduling, Holding, NoThread
  <2>2. QED  BY <2>1 DEF IInv, StatusInv
<1>2. QED  BY Invariance, <1>1, PTL

(***************************************************************************)
(* A live state that differs from the last one sent is still to be sent    *)
(* (server.cpp 501-517).                                                   *)
(***************************************************************************)
THEOREM ChangesAreScheduled == Spec => []ChangesScheduled
<1>1. IInv => ChangesScheduled
  BY DEF IInv, LiveInv, ChangesScheduled
<1>2. QED  BY Invariance, <1>1, PTL

-----------------------------------------------------------------------------
(* The first client is told the live state.                                *)

\* What was last sent was sent to the first client, as long as it is there
\* and its queue was not torn.
FirstInv ==
  /\ accepted = 0 => client = 0 /\ lastSent = Default /\ queued.live = Untold
  /\ client = 1 /\ ~torn =>
       queued.live = lastSent \/ (lastSent = Default /\ queued.live = Untold)

LEMMA FirstStep ==
  ASSUME IInv, FirstInv, [Next]_vars
  PROVE  FirstInv'
<1>0. accepted \in Nat /\ queued \in Told
  BY DEF IInv, TypeOK, TypeLink, TypeProps
<1>1. CASE UNCHANGED <<accepted, client, lastSent, queued, torn>>
  BY <1>1 DEF FirstInv
<1>2. CASE /\ accepted' = accepted /\ lastSent' = lastSent /\ client' = 0
           /\ queued' = Nothing
  BY <1>2 DEF FirstInv, Nothing
<1>3. ASSUME NEW t \in Thread, AcceptClient(t) PROVE FirstInv'
  <2>1. accepted' = accepted + 1 /\ client' = accepted + 1 /\ lastSent' = lastSent
    BY <1>3 DEF AcceptClient, props
  <2>2. accepted' # 0 /\ (client' = 1 => accepted = 0)
    BY <1>0, <2>1
  <2>3. accepted = 0 => queued' = queued
    BY <1>3 DEF AcceptClient, FirstInv, told
  <2> QED  BY <2>1, <2>2, <2>3 DEF FirstInv
<1>4. ASSUME NEW t \in Thread, SendLiveState(t) PROVE FirstInv'
  <2>1. status = "ready" /\ client # 0 /\ accepted # 0
    BY <1>4 DEF SendLiveState, Inside, IInv, ReadyInv, LinkInv, FirstInv
  <2>2. CASE /\ wasSet /\ game # lastSent
             /\ queued' = [queued EXCEPT !.live = game]
             /\ lastSent' = game /\ UNCHANGED link
    <3>1. queued'.live = game
      BY <1>0, <2>2 DEF Told
    <3>2. accepted' # 0
      BY <2>1, <2>2 DEF link
    <3> QED  BY <2>2, <3>1, <3>2 DEF FirstInv
  <2>3. CASE UNCHANGED <<lastSent, told, link>>
    BY <1>1, <2>3 DEF told, link
  <2>4. CASE CloseClientConnection /\ UNCHANGED lastSent
    BY <1>2, <2>4 DEF CloseClientConnection, ResetConnection
  <2> QED  BY <1>4, <2>2, <2>3, <2>4 DEF SendLiveState
<1>5. ASSUME NEW t \in Thread, SendStatus(t) PROVE FirstInv'
  <2>1. CASE CloseClientConnection
    BY <1>2, <1>5, <2>1 DEF SendStatus, CloseClientConnection, ResetConnection
  <2>2. CASE UNCHANGED <<link, torn>> /\ queued' \in {queued, [queued EXCEPT !.app = app]}
    <3>1. queued'.live = queued.live
      BY <1>0, <2>2 DEF Told
    <3>2. UNCHANGED <<accepted, client, lastSent, torn>>
      BY <1>5, <2>2 DEF link, SendStatus
    <3> QED  BY <3>1, <3>2 DEF FirstInv
  <2> QED  BY <1>5, <2>1, <2>2 DEF SendStatus, told
<1>6. ASSUME NEW t \in Thread, ConnectionFails(t) \/ ReadFails(t) PROVE FirstInv'
  BY <1>2, <1>6 DEF ConnectionFails, ReadFails, CloseClientConnection, ResetConnection,
     props
<1>7. CASE Destroy
  BY <1>2, <1>7 DEF Destroy, props
<1>8. CASE \/ \E o \in {"listening", "unbound", "failed"} : Create(o)
           \/ CreateBlocks \/ AgentConnects \/ UNCHANGED vars
  BY <1>1, <1>8 DEF Create, CreateBlocks, AgentConnects, vars, link, props, told
<1>9. ASSUME NEW t \in Thread,
             \/ \E s \in GameState, x \in Extra \cup {NoObject} : SetLiveState(t, s, x)
             \/ \E a \in AppStatus : SetApplicationInstanceStatus(t, a)
             \/ ReverseEnter(t)
      PROVE  FirstInv'
  BY <1>1, <1>9 DEF SetLiveState, SetApplicationInstanceStatus, ReverseEnter, link, props,
     told
<1>11. ASSUME NEW t \in Thread, ReverseTears(t) \/ ReverseLeave(t) PROVE FirstInv'
  <2>1. UNCHANGED <<accepted, client, lastSent>>
    BY <1>11 DEF ReverseTears, ReverseLeave, link, props
  <2>2. CASE UNCHANGED <<queued, torn>>
    BY <1>1, <2>1, <2>2
  <2>3. CASE Tear
    <3>1. torn' /\ queued'.live \in {queued.live, Untold}
      BY <2>3 DEF Tear
    <3> QED  BY <2>1, <3>1 DEF FirstInv
  <2> QED  BY <1>11, <2>2, <2>3 DEF ReverseTears, ReverseLeave
<1>10. ASSUME NEW t \in Thread,
              \/ ListenRetry(t) \/ KeepClient(t) \/ ConnectionHandshakes(t)
              \/ ConnectionWaits(t) \/ ConnectionSends(t) \/ ConnectionReceives(t)
              \/ ConnectionReceivedAll(t) \/ PopMessage(t) \/ CallbackReturns(t)
              \/ Relock(t) \/ UpdateEnds(t)
       PROVE  FirstInv'
  BY <1>1, <1>10 DEF ListenRetry, KeepClient, ConnectionHandshakes, ConnectionWaits,
     ConnectionSends, ConnectionReceives, ConnectionReceivedAll, PopMessage,
     CallbackReturns, Relock, UpdateEnds, link, props, told
<1> QED
  BY <1>3, <1>4, <1>5, <1>6, <1>7, <1>8, <1>9, <1>10, <1>11 DEF Next, Update

LEMMA FirstHolds == Spec => [](IInv /\ FirstInv)
<1>1. Init => FirstInv
  BY DEF Init, FirstInv, Nothing
<1>2. IInv /\ FirstInv /\ [Next]_vars => FirstInv'
  BY FirstStep
<1> QED  BY Invariance, <1>1, <1>2, PTL DEF Spec

\* The live state is the last one in the first client's queue, or is to get
\* there, or is the one the server started with and nothing else was sent.
FirstClientTold ==
  Free /\ status = "ready" /\ client = 1 /\ ~torn =>
    wasSet \/ queued.live = game \/ (game = Default /\ queued.live = Untold)

(***************************************************************************)
(* Whatever the threads do, unless an unlocked push tore its queue (610),  *)
(* the first client to connect gets the live state as it is (server.cpp    *)
(* 501-517, 535-536), the one the server started with excepted (59, 505).  *)
(* A later one does not, if the state is the one the first was sent: run   *)
(* server_reconnect.                                                       *)
(***************************************************************************)
THEOREM FirstClientIsTold == Spec => []FirstClientTold
<1>1. IInv /\ FirstInv => FirstClientTold
  BY DEF IInv, LiveInv, FirstInv, FirstClientTold
<1> QED  BY <1>1, FirstHolds, PTL

(***************************************************************************)
(* So with one client the comment of server.cpp 535 is right, but for a    *)
(* torn queue and the state the server started with.                       *)
(***************************************************************************)
THEOREM LiveStateIsScheduled ==
  ASSUME MaxClients = 1
  PROVE  Spec => []LiveStateScheduled
<1>1. IInv /\ FirstInv => LiveStateScheduled
  <2> SUFFICES ASSUME IInv, FirstInv, Free, status = "ready", ~torn
               PROVE  \/ wasSet
                      \/ queued.live = game
                      \/ game = Default /\ queued.live = Untold
    BY DEF LiveStateScheduled
  <2>1. client = 1
    BY DEF IInv, LinkInv, TypeOK, TypeLink
  <2>2. wasSet \/ game = lastSent
    BY DEF IInv, LiveInv
  <2> QED  BY <2>1, <2>2 DEF FirstInv
<1> QED  BY <1>1, FirstHolds, PTL
=============================================================================
