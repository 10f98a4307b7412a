---------------------------- MODULE BrokerProofs ----------------------------
(***************************************************************************)
(* Theorems about Broker, for every set of connections, client ids,        *)
(* filters and transports; the last one is that it implements WillContract.*)
(***************************************************************************)
EXTENDS Broker, FiniteSetTheorems, TLAPS

USE DEF Starting, Serving, Closing, Live, Ended, ConnOrNone, Goto, Cl

-----------------------------------------------------------------------------
(* Types *)

\* The initial state has the types that TypeOK says.
LEMMA InitTypeOK == Init => TypeOK
<1> SUFFICES ASSUME Init PROVE TypeOK
  OBVIOUS
<1>1. IsFiniteSet(subs)
  BY FS_EmptySet DEF Init
<1>. QED
  BY <1>1, ConstantsAssumption DEF Init, TypeOK

\* Every step of a task, of a peer, of the router and of the web API keeps
\* the types; the tree stays finite because it grows by one entry at a time.
LEMMA StepTypeOK == TypeOK /\ [Next]_vars => TypeOK'
<1> SUFFICES ASSUME TypeOK, [Next]_vars PROVE TypeOK'
  OBVIOUS
<1> USE DEF TypeOK, connVars, stateVars, metricVars, savedVars, routerVars, histVars
<1>1. ASSUME NEW t \in Conn, TaskStep(t) PROVE TypeOK'
  <2>1. CASE StoreWill(t)  BY <2>1 DEF StoreWill, Request
  <2>2. CASE SaveWill(t)  BY <2>2 DEF SaveWill, Request
  <2>3. CASE SaveSession(t)  BY <2>3 DEF SaveSession, Request
  <2>4. CASE FinishSubscribe(t)
    <3>1. <<Cl(t), arg[t]>> \in Client \X Filter
      BY <2>4 DEF FinishSubscribe, Request
    <3>2. Cardinality(subs) \in Nat
      BY FS_CardinalityType
    <3>. QED
      BY <2>4, <3>1, <3>2 DEF FinishSubscribe
  <2>5. CASE FinishUnsubscribe(t)
    BY <2>5, FS_CardinalityType DEF FinishUnsubscribe, Request
  <2>6. CASE FinishDisconnect(t)  BY <2>6 DEF FinishDisconnect, Request
  <2>7. CASE DeafBreak(t)  BY <2>7 DEF DeafBreak, Deregister, Request
  <2>8. CASE GoOffline(t)
    <3>1. clientsConnected' \in Nat
      BY <2>8 DEF GoOffline
    <3>2. online' \in [Client -> BOOLEAN]
      BY <2>8 DEF GoOffline
    <3>. QED
      BY <2>8, <3>1, <3>2 DEF GoOffline
  <2>9. CASE Notify(t)
    <3>1. t \in {u \in Conn : req[u] \in Request}
      BY <2>9 DEF Notify
    <3>2. queue' \in Seq({u \in Conn : req'[u] \in Request}) /\ queue' # <<>>
      BY <2>9, <3>1 DEF Notify
    <3>. QED
      BY <2>9, <3>2 DEF Notify
  <2>. QED  BY <1>1, <2>1, <2>2, <2>3, <2>4, <2>5, <2>6, <2>7, <2>8, <2>9 DEF TaskStep
<1>2. ASSUME NEW t \in Conn, PeerStep(t) PROVE TypeOK'
  <2>1. CASE Refuse(t)  BY <2>1 DEF Refuse
  <2>2. ASSUME NEW r \in Request, Connect(t, r) PROVE TypeOK'
    BY <2>2 DEF Connect, Request
  <2>3. CASE Register(t)  BY <2>3 DEF Register, Request
  <2>4. ASSUME NEW f \in Filter, Subscribe(t, f) PROVE TypeOK'
    <3>1. <<Cl(t), f>> \in Client \X Filter
      BY <2>4 DEF Subscribe, Request
    <3>2. IsFiniteSet(subs')
      BY <2>4, FS_AddElement DEF Subscribe
    <3>. QED
      BY <2>4, <3>1, <3>2 DEF Subscribe
  <2>5. ASSUME NEW f \in Filter, Unsubscribe(t, f) PROVE TypeOK'
    <3>1. IsFiniteSet(subs')
      BY <2>5, FS_RemoveElement DEF Unsubscribe
    <3>. QED
      BY <2>5, <3>1 DEF Unsubscribe
  <2>6. CASE Disconnect(t)  BY <2>6 DEF Disconnect, Request
  <2>7. CASE DisconnectKeepWill(t)  BY <2>7 DEF DisconnectKeepWill, Request
  <2>8. CASE Forward(t)  BY <2>8 DEF Forward
  <2>9. CASE Break(t)  BY <2>9 DEF Break, Deregister, Request
  <2>10. CASE StreamEnds(t)  BY <2>10 DEF StreamEnds
  <2>11. CASE ReturnError(t)  BY <2>11 DEF ReturnError
  <2>. QED
    BY <1>2, <2>1, <2>2, <2>3, <2>4, <2>5, <2>6, <2>7, <2>8, <2>9, <2>10, <2>11
    DEF PeerStep, Packet
<1>3. ASSUME RouterStep PROVE TypeOK'
  <2> DEFINE h == Head(queue)
  <2>1. queue # <<>> => h \in Conn /\ req[h] \in Request /\ Cl(h) \in Client
    BY DEF Request
  <2>2. queue # <<>> => Tail(queue) \in Seq({t \in Conn : req[t] \in Request})
    OBVIOUS
  <2> HIDE DEF h
  <2>3. CASE RouterTakeWill  BY <2>1, <2>3 DEF RouterTakeWill, Leaving, h
  <2>4. CASE RouterNoWill  BY <2>4 DEF RouterNoWill
  <2>5. CASE RouterFireWill  BY <2>1, <2>5 DEF RouterFireWill, Leaving, h
  <2>6. CASE RouterUnsubscribeAll
    <3>1. subs' \subseteq subs
      BY <2>6 DEF RouterUnsubscribeAll
    <3>2. IsFiniteSet(subs')
      BY <3>1, FS_Subset
    <3>. QED
      BY <2>6, <3>1, <3>2 DEF RouterUnsubscribeAll
  <2>7. CASE RouterRemoveSession  BY <2>1, <2>7 DEF RouterRemoveSession, Leaving, h
  <2>8. CASE RouterFinishClean
    BY <2>1, <2>2, <2>8, FS_CardinalityType DEF RouterFinishClean, Leaving, h
  <2>9. CASE RouterKeepSession  BY <2>1, <2>2, <2>9 DEF RouterKeepSession, Leaving, h
  <2>. QED  BY <1>3, <2>3, <2>4, <2>5, <2>6, <2>7, <2>8, <2>9 DEF RouterStep
<1>4. ASSUME NEW c \in Client, DisconnectClient(c) PROVE TypeOK'
  BY <1>4 DEF DisconnectClient
<1>5. CASE UNCHANGED vars
  BY <1>5 DEF vars
<1>. QED
  BY <1>1, <1>2, <1>3, <1>4, <1>5 DEF Next

\* In every reachable state every variable has its type.
THEOREM TypeCorrect == Spec => []TypeOK
<1>. QED
  BY InitTypeOK, StepTypeOK, PTL DEF Spec

-----------------------------------------------------------------------------
(* The clients_connected metric *)

\* What the metric counts is finite, and is what the metric says.
CountInv == IsFiniteSet(Counted) /\ CountMatches

\* Steps other than accepting a CONNECT and decrementing the metric leave the
\* metric and the set it counts alone.
LEMMA CountUnchanged ==
  ASSUME TypeOK,
         \/ \E t \in Conn : TaskStep(t) /\ ~GoOffline(t)
         \/ \E t \in Conn : PeerStep(t) /\ ~\E r \in Request : Connect(t, r)
         \/ RouterStep
         \/ \E c \in Client : DisconnectClient(c)
         \/ UNCHANGED vars
  PROVE  Counted' = Counted /\ clientsConnected' = clientsConnected
<1> USE DEF TypeOK, Counted, connVars, stateVars, metricVars, savedVars, routerVars, histVars
<1>1. ASSUME NEW t \in Conn, TaskStep(t), ~GoOffline(t)
      PROVE  Counted' = Counted /\ clientsConnected' = clientsConnected
  BY <1>1 DEF TaskStep, StoreWill, SaveWill, SaveSession, FinishSubscribe, FinishUnsubscribe,
              FinishDisconnect, DeafBreak, Deregister, Notify
<1>2. ASSUME NEW t \in Conn, PeerStep(t), ~\E r \in Request : Connect(t, r)
      PROVE  Counted' = Counted /\ clientsConnected' = clientsConnected
  BY <1>2 DEF PeerStep, Packet, Refuse, Register, Subscribe, Unsubscribe, Disconnect,
              DisconnectKeepWill, Forward, Break, Deregister, StreamEnds, ReturnError
<1>3. ASSUME RouterStep
      PROVE  Counted' = Counted /\ clientsConnected' = clientsConnected
  BY <1>3 DEF RouterStep, RouterTakeWill, RouterNoWill, RouterFireWill, RouterUnsubscribeAll,
              RouterRemoveSession, RouterFinishClean, RouterKeepSession
<1>4. ASSUME NEW c \in Client, DisconnectClient(c)
      PROVE  Counted' = Counted /\ clientsConnected' = clientsConnected
  BY <1>4 DEF DisconnectClient
<1>5. CASE UNCHANGED vars
  BY <1>5 DEF vars
<1>. QED
  BY <1>1, <1>2, <1>3, <1>4, <1>5

\* The metric follows the set: a CONNECT adds one element, a cleanup takes
\* one away, and the decrement finds the metric positive.
LEMMA StepCount == TypeOK /\ CountInv /\ [Next]_vars => CountInv'
<1> SUFFICES ASSUME TypeOK, CountInv, [Next]_vars PROVE CountInv'
  OBVIOUS
<1>1. ASSUME NEW t \in Conn, NEW r \in Request, Connect(t, r) PROVE CountInv'
  <2>1. t \notin Counted /\ Counted' = Counted \union {t}
    BY <1>1 DEF Connect, Counted, TypeOK
  <2>2. clientsConnected' = clientsConnected + 1
    BY <1>1 DEF Connect
  <2>. QED
    BY <2>1, <2>2, FS_AddElement DEF CountInv, CountMatches
<1>2. ASSUME NEW t \in Conn, GoOffline(t) PROVE CountInv'
  <2>1. t \in Counted /\ Counted' = Counted \ {t}
    BY <1>2 DEF GoOffline, Counted, TypeOK
  <2>2. Cardinality(Counted) \in Nat /\ Cardinality(Counted) # 0
    BY <2>1, FS_CardinalityType, FS_EmptySet DEF CountInv
  <2>3. clientsConnected' = clientsConnected - 1
    BY <1>2, <2>2 DEF GoOffline, CountInv, CountMatches
  <2>. QED
    BY <2>1, <2>3, FS_RemoveElement DEF CountInv, CountMatches
<1>3. ASSUME ~\E t \in Conn : GoOffline(t) \/ \E r \in Request : Connect(t, r) PROVE CountInv'
  <2>1. Counted' = Counted /\ clientsConnected' = clientsConnected
    BY <1>3, CountUnchanged DEF Next
  <2>. QED
    BY <2>1 DEF CountInv, CountMatches
<1>. QED
  BY <1>1, <1>2, <1>3

\* In every reachable state clients_connected counts the connections that
\* have not deregistered, however ids are taken over and tasks fail.
THEOREM CountCorrect == Spec => []CountMatches
<1>1. Init => CountInv
  <2> SUFFICES ASSUME Init PROVE CountInv
    OBVIOUS
  <2>1. Counted = {}
    BY DEF Init, Counted
  <2>. QED
    BY <2>1, FS_EmptySet DEF Init, CountInv, CountMatches
<1>2. CountInv => CountMatches
  BY DEF CountInv
<1>. QED
  BY <1>1, <1>2, StepCount, TypeCorrect, PTL DEF Spec

-----------------------------------------------------------------------------
(* A will is published at most once *)

\* A will in the map is stored under the client id of the connection that set
\* it, which is past storing it, and has not been taken out before.
Untouched == {"new", "refused", "will"}

WillInv ==
    /\ \A c \in Client : wills[c] # NoConn =>
         /\ Cl(wills[c]) = c /\ pc[wills[c]] \notin Untouched
         /\ published[wills[c]] = 0 /\ firing # wills[c]
    /\ \A t \in Conn : pc[t] \in Untouched => published[t] = 0 /\ firing # t
    /\ \A t \in Conn : published[t] <= 1
    /\ firing # NoConn => published[firing] = 0

\* Steps of tasks and peers keep WillInv: only storing a will touches the map,
\* at a point where that will has never been in it.
LEMMA TaskWill == ASSUME TypeOK, WillInv, NEW t \in Conn, TaskStep(t) \/ PeerStep(t) PROVE WillInv'
<1> USE DEF TypeOK, WillInv, Untouched, connVars, stateVars, metricVars, savedVars, routerVars,
            histVars
<1>1. CASE StoreWill(t)
  BY <1>1 DEF StoreWill, Request
<1>2. ASSUME NEW r \in Request, Connect(t, r) PROVE WillInv'
  BY <1>2 DEF Connect
<1>3. CASE TaskStep(t) /\ ~StoreWill(t)
  BY <1>3 DEF TaskStep, SaveWill, SaveSession, FinishSubscribe, FinishUnsubscribe,
              FinishDisconnect, DeafBreak, Deregister, GoOffline, Notify
<1>4. CASE Disconnect(t)
  BY <1>4 DEF Disconnect
<1>5. CASE PeerStep(t) /\ ~Disconnect(t) /\ ~\E r \in Request : Connect(t, r)
  BY <1>5 DEF PeerStep, Packet, Refuse, Register, Subscribe, Unsubscribe, DisconnectKeepWill,
              Forward, Break, Deregister, StreamEnds, ReturnError
<1>. QED
  BY <1>1, <1>2, <1>3, <1>4, <1>5

\* The router takes a will out of the map before it publishes it.
LEMMA RouterWill == ASSUME TypeOK, WillInv, RouterStep PROVE WillInv'
<1> USE DEF TypeOK, WillInv, Untouched, connVars, stateVars, metricVars, savedVars, routerVars,
            histVars
<1>1. CASE RouterTakeWill
  <2>1. queue[1] \in Conn /\ Head(queue) = queue[1] /\ Leaving \in Client
    BY <1>1 DEF RouterTakeWill, Leaving, Request
  <2>. QED
    BY <1>1, <2>1, ConstantsAssumption DEF RouterTakeWill
<1>2. CASE RouterFireWill
  BY <1>2, ConstantsAssumption DEF RouterFireWill
<1>3. CASE RouterStep /\ ~RouterTakeWill /\ ~RouterFireWill
  BY <1>3 DEF RouterStep, RouterNoWill, RouterUnsubscribeAll, RouterRemoveSession,
              RouterFinishClean, RouterKeepSession
<1>. QED
  BY <1>1, <1>2, <1>3

\* No will is published twice, even if client ids are taken over.
THEOREM WillOnce == Spec => []WillAtMostOnce
<1>1. Init => WillInv
  BY ConstantsAssumption DEF Init, WillInv
<1>2. TypeOK /\ WillInv /\ [Next]_vars => WillInv'
  <2> SUFFICES ASSUME TypeOK, WillInv, [Next]_vars PROVE WillInv'
    OBVIOUS
  <2>1. ASSUME NEW c \in Client, DisconnectClient(c) PROVE WillInv'
    BY <2>1 DEF DisconnectClient, WillInv, connVars, routerVars, histVars
  <2>2. CASE UNCHANGED vars
    BY <2>2 DEF vars, WillInv, connVars, stateVars, routerVars, histVars
  <2>. QED
    BY <2>1, <2>2, TaskWill, RouterWill DEF Next
<1>3. TypeOK /\ WillInv => WillAtMostOnce
  BY ConstantsAssumption DEF TypeOK, WillInv, WillAtMostOnce
<1>. QED
  BY <1>1, <1>2, <1>3, TypeCorrect, PTL DEF Spec

-----------------------------------------------------------------------------
(* The subscriptions_active metric *)

\* A step that changes the tree leaves somebody who is going to update the
\* metric, and who stops being that one has just updated it.
LEMMA StepFresh == TypeOK /\ SubsActiveFresh /\ [Next]_vars => SubsActiveFresh'
<1> SUFFICES ASSUME TypeOK, SubsActiveFresh, [Next]_vars PROVE SubsActiveFresh'
  OBVIOUS
<1> USE DEF TypeOK, SubsActiveFresh, CountPending, connVars, stateVars, metricVars, savedVars,
            routerVars, histVars
<1>1. ASSUME NEW t \in Conn, FinishSubscribe(t) \/ FinishUnsubscribe(t) PROVE SubsActiveFresh'
  BY <1>1 DEF FinishSubscribe, FinishUnsubscribe
<1>2. ASSUME NEW t \in Conn, NEW f \in Filter, Subscribe(t, f) \/ Unsubscribe(t, f)
      PROVE  SubsActiveFresh'
  BY <1>2 DEF Subscribe, Unsubscribe
<1>3. ASSUME NEW t \in Conn, NEW r \in Request, Connect(t, r) PROVE SubsActiveFresh'
  BY <1>3 DEF Connect
<1>4. ASSUME NEW t \in Conn, TaskStep(t), ~FinishSubscribe(t), ~FinishUnsubscribe(t)
      PROVE  SubsActiveFresh'
  BY <1>4 DEF TaskStep, StoreWill, SaveWill, SaveSession, FinishDisconnect, DeafBreak,
              Deregister, GoOffline, Notify
<1>5. ASSUME NEW t \in Conn, PeerStep(t), ~\E r \in Request : Connect(t, r),
             ~\E f \in Filter : Subscribe(t, f) \/ Unsubscribe(t, f)
      PROVE  SubsActiveFresh'
  BY <1>5 DEF PeerStep, Packet, Refuse, Register, Disconnect, DisconnectKeepWill, Forward,
              Break, Deregister, StreamEnds, ReturnError
<1>6. CASE RouterStep
  BY <1>6 DEF RouterStep, RouterTakeWill, RouterNoWill, RouterFireWill, RouterUnsubscribeAll,
              RouterRemoveSession, RouterFinishClean, RouterKeepSession
<1>7. ASSUME NEW c \in Client, DisconnectClient(c) PROVE SubsActiveFresh'
  BY <1>7 DEF DisconnectClient
<1>8. CASE UNCHANGED vars
  BY <1>8 DEF vars
<1>. QED
  BY <1>1, <1>2, <1>3, <1>4, <1>5, <1>6, <1>7, <1>8 DEF Next

\* Whenever nobody is between a change of the tree and the update of
\* subscriptions_active, the metric is the size of the tree.
THEOREM SubsActiveCorrect == Spec => []SubsActiveFresh
<1>1. Init => SubsActiveFresh
  BY FS_EmptySet DEF Init, SubsActiveFresh
<1>. QED
  BY <1>1, StepFresh, TypeCorrect, PTL DEF Spec

-----------------------------------------------------------------------------
(* How a task moves *)

\* A step of a task or of its peer, other than accepting the CONNECT, moves
\* that task only and never brings one back to life; only registering makes a
\* task serve; no such step touches a session entry, and the map of
\* connections changes only by registering and by the cleanup.
LEMMA TaskMoves ==
  ASSUME TypeOK, NEW t \in Conn,
         TaskStep(t) \/ (PeerStep(t) /\ ~\E r \in Request : Connect(t, r))
  PROVE  /\ req' = req /\ session' = session
         /\ \A u \in Conn : u # t => pc'[u] = pc[u]
         /\ pc[t] \notin Ended /\ pc'[t] # "new"
         /\ pc'[t] \in Live => pc[t] \in Live
         /\ pc'[t] \in {"done", "leaked"} => pc[t] \in Live
         /\ ~Register(t) => (pc'[t] \in Serving => pc[t] \in Serving)
         /\ ~Register(t) /\ ~Break(t) /\ ~DeafBreak(t) => connections' = connections
<1> USE DEF TypeOK, connVars, stateVars
<1>1. CASE TaskStep(t)
  BY <1>1 DEF TaskStep, StoreWill, SaveWill, SaveSession, FinishSubscribe, FinishUnsubscribe,
              FinishDisconnect, DeafBreak, Deregister, GoOffline, Notify
<1>2. CASE PeerStep(t) /\ ~\E r \in Request : Connect(t, r)
  BY <1>2 DEF PeerStep, Packet, Refuse, Register, Subscribe, Unsubscribe, Disconnect,
              DisconnectKeepWill, Forward, Break, Deregister, StreamEnds, ReturnError
<1>. QED
  BY <1>1, <1>2

-----------------------------------------------------------------------------
(* Without takeovers a served connection is reachable *)

\* One task per client id, and while it serves, the connections map leads to it.
SeqInv == OneTaskPerClient /\ Reachable

\* The connections map changes only under the client id of the task that
\* changes it, and a task starts only where no other task runs.
LEMMA StepSeq == ASSUME Reconnect # "any", TypeOK, SeqInv, [Next]_vars PROVE SeqInv'
<1> USE DEF TypeOK, SeqInv, OneTaskPerClient, Reachable, connVars, stateVars, metricVars,
            savedVars, routerVars, histVars
<1>1. ASSUME NEW t \in Conn, NEW r \in Request, Connect(t, r) PROVE SeqInv'
  <2>1. \A u \in Conn : pc[u] \in Live => Cl(u) # r.client
    BY <1>1 DEF Connect, MayConnect, LiveOf
  <2>. QED
    BY <1>1, <2>1 DEF Connect
<1>2. ASSUME NEW t \in Conn, TaskStep(t) \/ (PeerStep(t) /\ ~\E r \in Request : Connect(t, r))
      PROVE  SeqInv'
  <2>1. CASE Register(t)
    <3>1. /\ pc[t] = "connack" /\ req' = req
          /\ connections' = [connections EXCEPT ![Cl(t)] = t]
          /\ \/ pc' = [pc EXCEPT ![t] = "leaked"]
             \/ pc' = [pc EXCEPT ![t] = "loop"]
      BY <2>1 DEF Register
    <3>2. Cl(t) \in Client
      BY <3>1 DEF Request
    <3>3. OneTaskPerClient'
      <4>1. \A u \in Conn : pc'[u] \in Live => pc[u] \in Live
        BY <3>1
      <4>2. OneTaskPerClient
        OBVIOUS
      <4> HIDE DEF TypeOK, SeqInv, Live
      <4>. QED
        BY <3>1, <4>1, <4>2
    <3>4. ASSUME NEW u \in Conn, pc'[u] \in Serving PROVE connections'[Cl(u)] = u
      <4>1. CASE u = t
        BY <3>1, <3>2, <4>1
      <4>2. CASE u # t
        <5>1. pc[u] \in Serving /\ pc'[u] = pc[u]
          BY <3>1, <3>4, <4>2
        <5>2. Cl(u) # Cl(t) /\ connections[Cl(u)] = u
          BY <3>1, <4>2, <5>1
        <5>. QED
          BY <3>1, <5>2
      <4>. QED
        BY <4>1, <4>2
    <3>. QED
      BY <3>1, <3>3, <3>4
  <2>2. CASE Break(t) \/ DeafBreak(t)
    <3>1. pc[t] \in Serving /\ Cl(t) \in Client /\ Deregister(t)
      BY <2>2 DEF Break, DeafBreak, Request
    <3>2. \A u \in Conn : u # t /\ pc[u] \in Live => Cl(u) # Cl(t)
      BY <3>1
    <3>. QED
      BY <3>1, <3>2 DEF Deregister
  <2>3. CASE ~Register(t) /\ ~Break(t) /\ ~DeafBreak(t)
    <3> HIDE DEF TypeOK
    <3>. QED
      BY <1>2, <2>3, TaskMoves
  <2>. QED
    BY <2>1, <2>2, <2>3
<1>4. CASE RouterStep
  BY <1>4 DEF RouterStep, RouterTakeWill, RouterNoWill, RouterFireWill, RouterUnsubscribeAll,
              RouterRemoveSession, RouterFinishClean, RouterKeepSession
<1>5. ASSUME NEW c \in Client, DisconnectClient(c) PROVE SeqInv'
  BY <1>5 DEF DisconnectClient
<1>6. CASE UNCHANGED vars
  BY <1>6 DEF vars
<1>. QED
  BY <1>1, <1>2, <1>4, <1>5, <1>6 DEF Next

\* As long as no client id is presented while a task serves it, a connection
\* in its packet loop is the one the connections map leads to.
THEOREM ReachableWithoutTakeover == Reconnect # "any" => (Spec => []Reachable)
<1> SUFFICES ASSUME Reconnect # "any" PROVE Spec => []Reachable
  OBVIOUS
<1>1. Init => SeqInv
  BY DEF Init, SeqInv, OneTaskPerClient, Reachable
<1>2. TypeOK /\ SeqInv /\ [Next]_vars => SeqInv'
  BY StepSeq
<1>3. SeqInv => Reachable
  BY DEF SeqInv
<1>. QED
  BY <1>1, <1>2, <1>3, TypeCorrect, PTL DEF Spec

-----------------------------------------------------------------------------
(* A client id is presented again only when nothing of it is left *)

\* The router works for connections that are done, and a client id that it
\* works for has no running task; the session of a running task is its own;
\* a will leaves the map only when its connection has ended.
DrainedInv ==
    /\ OneTaskPerClient
    /\ SessionOwned
    /\ \A i \in DOMAIN queue : pc[queue[i]] = "done"
    /\ \A i \in DOMAIN queue : \A t \in Conn : pc[t] \in Live => Cl(t) # Cl(queue[i])
    /\ \A c \in Client : wills[c] # NoConn =>
         Cl(wills[c]) = c /\ pc[wills[c]] \in Live \union {"done", "leaked"}
    /\ WillOnlyAfterEnd

\* The message the router works on is the first of the queue.
LEMMA HeadOfQueue ==
  ASSUME TypeOK, queue # <<>>
  PROVE  /\ 1 \in DOMAIN queue /\ Head(queue) = queue[1]
         /\ Head(queue) \in Conn /\ Leaving = Cl(queue[1]) /\ Leaving \in Client
         /\ \A i \in DOMAIN Tail(queue) : i + 1 \in DOMAIN queue /\ Tail(queue)[i] = queue[i + 1]
BY DEF TypeOK, Leaving, Request

\* Steps of tasks and peers keep DrainedInv: a task starts only for a client
\* id that neither a task nor the router is busy with.
LEMMA TaskDrained ==
  ASSUME Reconnect = "drained", TypeOK, DrainedInv, NEW t \in Conn, TaskStep(t) \/ PeerStep(t)
  PROVE  DrainedInv'
<1> USE DEF TypeOK, DrainedInv, OneTaskPerClient, SessionOwned, WillOnlyAfterEnd, connVars,
            stateVars, metricVars, savedVars, routerVars, histVars
<1>1. ASSUME NEW r \in Request, Connect(t, r) PROVE DrainedInv'
  <2>1. /\ \A u \in Conn : pc[u] \in Live => Cl(u) # r.client
        /\ \A i \in DOMAIN queue : Cl(queue[i]) # r.client /\ queue[i] # t
    BY <1>1 DEF Connect, MayConnect, LiveOf, Pending
  <2>. QED
    BY <1>1, <2>1 DEF Connect, Request
<1>2. CASE Notify(t)
  <2>1. \A i \in DOMAIN queue' : queue'[i] = t \/ (i \in DOMAIN queue /\ queue'[i] = queue[i])
    BY <1>2 DEF Notify
  <2>2. \A u \in Conn : pc'[u] \in Live => pc[u] \in Live /\ Cl(u) # Cl(t)
    BY <1>2 DEF Notify
  <2>. QED
    BY <1>2, <2>1, <2>2 DEF Notify
<1>3. CASE StoreWill(t)
  BY <1>3 DEF StoreWill, Request
<1>4. CASE Disconnect(t)
  BY <1>4 DEF Disconnect
<1>5. CASE /\ TaskStep(t) \/ (PeerStep(t) /\ ~\E r \in Request : Connect(t, r))
           /\ ~Notify(t) /\ ~StoreWill(t) /\ ~Disconnect(t)
  <2>1. wills' = wills /\ queue' = queue /\ firing' = firing /\ published' = published
    BY <1>5 DEF TaskStep, SaveWill, SaveSession, FinishSubscribe, FinishUnsubscribe,
                FinishDisconnect, DeafBreak, Deregister, GoOffline, PeerStep, Packet, Refuse,
                Register, Subscribe, Unsubscribe, DisconnectKeepWill, Forward, Break,
                StreamEnds, ReturnError
  <2>2. pc[t] \notin Ended /\ pc'[t] # "new" /\ (pc'[t] \in Live => pc[t] \in Live)
    BY <1>5, TaskMoves
  <2>3. req' = req /\ session' = session /\ \A u \in Conn : u # t => pc'[u] = pc[u]
    BY <1>5, TaskMoves
  <2>4. pc[t] \in Live => pc'[t] \in Live \union {"done", "leaked"}
    <3>1. CASE TaskStep(t)
      BY <1>5, <3>1 DEF TaskStep, SaveWill, SaveSession, FinishSubscribe, FinishUnsubscribe,
                        FinishDisconnect, DeafBreak, Deregister, GoOffline
    <3>2. CASE PeerStep(t) /\ ~\E r \in Request : Connect(t, r)
      BY <1>5, <3>2 DEF PeerStep, Packet, Refuse, Register, Subscribe, Unsubscribe,
                        DisconnectKeepWill, Forward, Break, Deregister, StreamEnds, ReturnError
    <3>. QED
      BY <1>5, <3>1, <3>2
  <2>5. \A u \in Conn : pc'[u] \in Live => pc[u] \in Live
    BY <2>2, <2>3
  <2>6. \A i \in DOMAIN queue : queue[i] \in Conn /\ queue[i] # t
    BY <2>2
  <2>7. \A c \in Client : wills[c] # NoConn =>
          wills[c] \in Conn /\ pc'[wills[c]] \in Live \union {"done", "leaked"}
    <3>1. \A u \in Conn : pc[u] \in Live \union {"done", "leaked"} =>
            pc'[u] \in Live \union {"done", "leaked"}
      BY <2>2, <2>3, <2>4
    <3>2. \A c \in Client : wills[c] # NoConn =>
            wills[c] \in Conn /\ pc[wills[c]] \in Live \union {"done", "leaked"}
      OBVIOUS
    <3>. QED
      BY <3>1, <3>2
  <2>8. OneTaskPerClient' /\ SessionOwned'
    <3> HIDE DEF TypeOK
    <3>. QED
      BY <2>3, <2>5
  <2>9. WillOnlyAfterEnd'
    BY <2>1, <2>2, <2>3
  <2>. QED
    BY <2>1, <2>3, <2>5, <2>6, <2>7, <2>8, <2>9
<1>. QED
  BY <1>1, <1>2, <1>3, <1>4, <1>5

\* The router keeps DrainedInv: no task runs for the client it works on.
LEMMA RouterDrained ==
  ASSUME TypeOK, DrainedInv, RouterStep
  PROVE  DrainedInv'
<1> USE DEF TypeOK, DrainedInv, OneTaskPerClient, SessionOwned, WillOnlyAfterEnd, connVars,
            stateVars, metricVars, savedVars, routerVars, histVars
<1>1. queue # <<>>
  BY DEF RouterStep, RouterTakeWill, RouterNoWill, RouterFireWill, RouterUnsubscribeAll,
         RouterRemoveSession, RouterFinishClean, RouterKeepSession
<1>2. \A t \in Conn : pc[t] \in Live => Cl(t) # Leaving
  BY <1>1, HeadOfQueue
<1>3. CASE RouterTakeWill
  <2> DEFINE w == wills[Leaving]
  <2>1. Leaving \in Client /\ w \in Conn
    BY <1>1, <1>3, HeadOfQueue DEF RouterTakeWill
  <2>2. Cl(w) = Leaving /\ w \in Conn /\ pc[w] \in Ended
    BY <1>2, <1>3, <2>1 DEF RouterTakeWill
  <2>. QED
    BY <1>3, <2>1, <2>2, ConstantsAssumption DEF RouterTakeWill
<1>4. CASE RouterFireWill
  BY <1>4, ConstantsAssumption DEF RouterFireWill
<1>5. CASE RouterRemoveSession
  BY <1>2, <1>5 DEF RouterRemoveSession
<1>6. CASE RouterFinishClean \/ RouterKeepSession
  <2>1. /\ queue' = Tail(queue)
        /\ UNCHANGED <<pc, req, session, wills, firing, published>>
    BY <1>6 DEF RouterFinishClean, RouterKeepSession
  <2>2. \A i \in DOMAIN queue' : i + 1 \in DOMAIN queue /\ queue'[i] = queue[i + 1]
    BY <1>1, <2>1, HeadOfQueue
  <2>. QED
    BY <2>1, <2>2
<1>8. CASE RouterNoWill \/ RouterUnsubscribeAll
  BY <1>8 DEF RouterNoWill, RouterUnsubscribeAll
<1>. QED
  BY <1>3, <1>4, <1>5, <1>6, <1>8 DEF RouterStep

\* DrainedInv holds throughout.
LEMMA AlwaysDrained == Reconnect = "drained" => (Spec => []DrainedInv)
<1> SUFFICES ASSUME Reconnect = "drained" PROVE Spec => []DrainedInv
  OBVIOUS
<1>1. Init => DrainedInv
  BY ConstantsAssumption DEF Init, DrainedInv, OneTaskPerClient, SessionOwned, WillOnlyAfterEnd
<1>2. TypeOK /\ DrainedInv /\ [Next]_vars => DrainedInv'
  <2> SUFFICES ASSUME TypeOK, DrainedInv, [Next]_vars PROVE DrainedInv'
    OBVIOUS
  <2> USE DEF DrainedInv, OneTaskPerClient, SessionOwned, WillOnlyAfterEnd, connVars, stateVars,
              routerVars, histVars
  <2>1. ASSUME NEW c \in Client, DisconnectClient(c) PROVE DrainedInv'
    BY <2>1 DEF DisconnectClient
  <2>2. CASE UNCHANGED vars
    BY <2>2 DEF vars
  <2>. QED
    BY <2>1, <2>2, TaskDrained, RouterDrained DEF Next
<1>. QED
  BY <1>1, <1>2, TypeCorrect, PTL DEF Spec

\* The session of a running task is the one its own CONNECT made.
THEOREM SessionOwnedWhenDrained == Reconnect = "drained" => (Spec => []SessionOwned)
<1>1. DrainedInv => SessionOwned
  BY DEF DrainedInv
<1>. QED
  BY <1>1, AlwaysDrained, PTL

\* A will is taken out of the map and published only after the connection
\* that set it has ended.
THEOREM WillAfterEndWhenDrained == Reconnect = "drained" => (Spec => []WillOnlyAfterEnd)
<1>1. DrainedInv => WillOnlyAfterEnd
  BY DEF DrainedInv
<1>. QED
  BY <1>1, AlwaysDrained, PTL

\* No step of the router touches the session, the flag, the will or the
\* subscriptions of a client with a running task.
THEOREM RouterSparesWhenDrained == Reconnect = "drained" => (Spec => RouterSparesLive)
<1>1. ASSUME TypeOK, DrainedInv, RouterStep, NEW c \in Client, LiveOf(c) # {}
      PROVE  /\ session'[c] = session[c] /\ online'[c] = online[c] /\ wills'[c] = wills[c]
             /\ SubsOf(c)' = SubsOf(c)
  <2> USE DEF TypeOK, stateVars
  <2>1. queue # <<>>
    BY <1>1 DEF RouterStep, RouterTakeWill, RouterNoWill, RouterFireWill, RouterUnsubscribeAll,
                RouterRemoveSession, RouterFinishClean, RouterKeepSession
  <2>2. c # Leaving
    BY <1>1, <2>1, HeadOfQueue DEF DrainedInv, LiveOf
  <2>3. CASE RouterUnsubscribeAll
    BY <2>2, <2>3 DEF RouterUnsubscribeAll, SubsOf
  <2>4. CASE ~RouterUnsubscribeAll
    BY <1>1, <2>2, <2>4
    DEF SubsOf, RouterStep, RouterTakeWill, RouterNoWill, RouterFireWill, RouterRemoveSession,
        RouterFinishClean, RouterKeepSession
  <2>. QED
    BY <2>3, <2>4
<1>2. TypeOK /\ DrainedInv =>
        [RouterStep => \A c \in Client : LiveOf(c) # {} =>
          /\ session'[c] = session[c] /\ online'[c] = online[c] /\ wills'[c] = wills[c]
          /\ SubsOf(c)' = SubsOf(c)]_vars
  BY <1>1
<1>. QED
  BY <1>2, TypeCorrect, AlwaysDrained, PTL DEF RouterSparesLive

-----------------------------------------------------------------------------
(* No will after DISCONNECT *)

\* The will of a connection that sent DISCONNECT is neither in the map nor
\* with the router, and the connection is past the point of storing it.
GracefulInv == \A t \in graceful :
    /\ pc[t] \notin {"new", "refused", "will"}
    /\ published[t] = 0 /\ firing # t
    /\ \A c \in Client : wills[c] # t

\* Only DISCONNECT makes a connection graceful, and it empties the one entry
\* that may hold the will of that connection.
LEMMA StepGraceful ==
  ASSUME TypeOK, DrainedInv, GracefulInv, [Next]_vars
  PROVE  GracefulInv'
<1> USE DEF TypeOK, GracefulInv, connVars, stateVars, metricVars, savedVars, routerVars, histVars
<1>1. ASSUME NEW t \in Conn, Disconnect(t) PROVE GracefulInv'
  <2>1. published[t] = 0 /\ firing # t
    <3>1. WillOnlyAfterEnd /\ pc[t] = "loop" /\ published \in [Conn -> Nat]
      BY <1>1 DEF Disconnect, DrainedInv
    <3>. HIDE DEF TypeOK
    <3>. QED
      BY <3>1 DEF WillOnlyAfterEnd
  <2>2. \A c \in Client : wills[c] = t => c = Cl(t)
    BY ConstantsAssumption DEF DrainedInv
  <2>3. Cl(t) \in Client /\ wills' = [wills EXCEPT ![Cl(t)] = NoConn] /\ t # NoConn
    BY <1>1, ConstantsAssumption DEF Disconnect, Request
  <2>4. \A c \in Client : wills'[c] \in {wills[c], NoConn} /\ wills'[c] # t
    BY <2>2, <2>3
  <2>. QED
    BY <1>1, <2>1, <2>4, ConstantsAssumption DEF Disconnect
<1>2. ASSUME NEW t \in Conn, StoreWill(t) PROVE GracefulInv'
  BY <1>2 DEF StoreWill
<1>3. ASSUME NEW t \in Conn, NEW r \in Request, Connect(t, r) PROVE GracefulInv'
  BY <1>3 DEF Connect
<1>4. ASSUME NEW t \in Conn, TaskStep(t), ~StoreWill(t) PROVE GracefulInv'
  BY <1>4 DEF TaskStep, SaveWill, SaveSession, FinishSubscribe, FinishUnsubscribe,
              FinishDisconnect, DeafBreak, Deregister, GoOffline, Notify
<1>5. ASSUME NEW t \in Conn, PeerStep(t), ~Disconnect(t), ~\E r \in Request : Connect(t, r)
      PROVE  GracefulInv'
  BY <1>5 DEF PeerStep, Packet, Refuse, Register, Subscribe, Unsubscribe, DisconnectKeepWill,
              Forward, Break, Deregister, StreamEnds, ReturnError
<1>6. CASE RouterTakeWill
  BY <1>6, HeadOfQueue, ConstantsAssumption DEF RouterTakeWill
<1>7. CASE RouterFireWill
  BY <1>7, ConstantsAssumption DEF RouterFireWill
<1>8. CASE RouterStep /\ ~RouterTakeWill /\ ~RouterFireWill
  BY <1>8 DEF RouterStep, RouterNoWill, RouterUnsubscribeAll, RouterRemoveSession,
              RouterFinishClean, RouterKeepSession
<1>9. ASSUME NEW c \in Client, DisconnectClient(c) PROVE GracefulInv'
  BY <1>9 DEF DisconnectClient
<1>10. CASE UNCHANGED vars
  BY <1>10 DEF vars
<1>. QED
  BY <1>1, <1>2, <1>3, <1>4, <1>5, <1>6, <1>7, <1>8, <1>9, <1>10 DEF Next

\* The will of a connection that sent DISCONNECT is never published.
THEOREM NoWillWhenDrained == Reconnect = "drained" => (Spec => []NoWillAfterDisconnect)
<1> SUFFICES ASSUME Reconnect = "drained" PROVE Spec => []NoWillAfterDisconnect
  OBVIOUS
<1>1. Init => GracefulInv
  BY DEF Init, GracefulInv
<1>2. TypeOK /\ DrainedInv /\ GracefulInv /\ [Next]_vars => GracefulInv'
  BY StepGraceful
<1>3. GracefulInv => NoWillAfterDisconnect
  BY DEF GracefulInv, NoWillAfterDisconnect
<1>. QED
  BY <1>1, <1>2, <1>3, TypeCorrect, AlwaysDrained, PTL DEF Spec

-----------------------------------------------------------------------------
(* What is on disk *)

\* Nobody is about to save the session of c, and then it is saved.
SessionSaved ==
    /\ \A c \in Client :
         /\ \A t \in Conn : pc[t] \in {"will", "saveWill", "save"} => Cl(t) # c
         /\ rpc = "removed" => Leaving # c
         => savedSession[c] = session[c]
    /\ rpc = "removed" => session[Leaving] = NoConn

\* The same of its will; who is about to save or to remove one finds the map
\* as it has left it.
WillSaved ==
    /\ \A c \in Client :
         /\ \A t \in Conn : pc[t] \in {"saveWill", "saveNoWill"} => Cl(t) # c
         /\ rpc = "fire" => Leaving # c
         => savedWill[c] = wills[c]
    /\ \A t \in Conn : /\ pc[t] = "saveWill" => wills[Cl(t)] = t
                       /\ pc[t] = "saveNoWill" => wills[Cl(t)] = NoConn
    /\ rpc = "fire" => wills[Leaving] = NoConn

\* The same of each of its subscriptions.
SubsSaved ==
    /\ \A c \in Client, f \in Filter :
         /\ \A t \in Conn : pc[t] \in {"subscribed", "unsubscribed"} => Cl(t) # c \/ arg[t] # f
         /\ rpc = "unsubscribed" => Leaving # c
         => (<<c, f>> \in savedSubs <=> <<c, f>> \in subs)
    /\ \A t \in Conn : /\ pc[t] = "subscribed" => <<Cl(t), arg[t]>> \in subs
                       /\ pc[t] = "unsubscribed" => <<Cl(t), arg[t]>> \notin subs
    /\ rpc = "unsubscribed" => \A f \in Filter : <<Leaving, f>> \notin subs

\* The message the router works on keeps its place while it does, and the
\* steps of a task of another client leave the router's client alone.
LEMMA KeepsLeaving ==
  ASSUME Reconnect = "drained", TypeOK, DrainedInv, rpc # "idle",
         NEW t \in Conn, TaskStep(t) \/ PeerStep(t)
  PROVE  /\ rpc' = rpc /\ Leaving' = Leaving /\ Leaving \in Client
         /\ pc[t] \in Live => Cl(t) # Leaving
         /\ \A r \in Request : Connect(t, r) => r.client # Leaving
<1> USE DEF connVars, routerVars
<1>1. queue # <<>> /\ Head(queue) = queue[1] /\ 1 \in DOMAIN queue /\ Leaving \in Client
  BY HeadOfQueue DEF TypeOK
<1>2. pc[queue[1]] = "done" /\ (pc[t] \in Live => Cl(t) # Leaving)
  BY <1>1 DEF DrainedInv, Leaving
<1>3. ASSUME NEW r \in Request, Connect(t, r)
      PROVE  rpc' = rpc /\ Leaving' = Leaving /\ r.client # Leaving
  <2>1. pc[t] = "new" /\ queue' = queue /\ rpc' = rpc /\ req' = [req EXCEPT ![t] = r]
    BY <1>3 DEF Connect
  <2>2. r.client # Leaving
    BY <1>1, <1>3 DEF Connect, MayConnect, Pending, Leaving
  <2>. QED
    BY <1>1, <1>2, <2>1, <2>2 DEF Leaving, TypeOK
<1>4. ASSUME Notify(t) PROVE rpc' = rpc /\ Leaving' = Leaving
  <2>1. queue' = Append(queue, t) /\ rpc' = rpc /\ req' = req
    BY <1>4 DEF Notify
  <2>2. Head(queue') = Head(queue)
    BY <1>1, <2>1 DEF TypeOK
  <2>. QED
    BY <2>1, <2>2 DEF Leaving
<1>5. CASE /\ TaskStep(t) \/ (PeerStep(t) /\ ~\E r \in Request : Connect(t, r))
           /\ ~Notify(t)
  <2>1. rpc' = rpc /\ queue' = queue /\ req' = req
    BY <1>5 DEF TaskStep, StoreWill, SaveWill, SaveSession, FinishSubscribe, FinishUnsubscribe,
                FinishDisconnect, DeafBreak, Deregister, GoOffline, PeerStep, Packet, Refuse,
                Register, Subscribe, Unsubscribe, Disconnect, DisconnectKeepWill, Forward,
                Break, StreamEnds, ReturnError
  <2>2. Leaving' = Leaving
    BY <2>1 DEF Leaving
  <2>3. ~\E r \in Request : Connect(t, r)
    <3>1. ASSUME NEW r \in Request, Connect(t, r), TaskStep(t) PROVE FALSE
      BY <3>1 DEF TypeOK, Connect, TaskStep, StoreWill, SaveWill, SaveSession, FinishSubscribe,
                  FinishUnsubscribe, FinishDisconnect, DeafBreak, Deregister, GoOffline, Notify
    <3>. QED
      BY <1>5, <3>1
  <2>. QED
    BY <1>1, <1>2, <2>1, <2>2, <2>3
<1>. QED
  BY <1>1, <1>2, <1>3, <1>4, <1>5

\* The router works on a message, and moves no task.
LEMMA RouterFrame ==
  ASSUME TypeOK, RouterStep
  PROVE  queue # <<>> /\ Leaving \in Client /\ pc' = pc /\ req' = req /\ arg' = arg
<1>1. queue # <<>>
  BY DEF TypeOK, RouterStep, RouterTakeWill, RouterNoWill, RouterFireWill,
         RouterUnsubscribeAll, RouterRemoveSession, RouterFinishClean, RouterKeepSession
<1>2. pc' = pc /\ req' = req /\ arg' = arg
  BY DEF connVars, RouterStep, RouterTakeWill, RouterNoWill, RouterFireWill,
         RouterUnsubscribeAll, RouterRemoveSession, RouterFinishClean, RouterKeepSession
<1>. QED
  BY <1>1, <1>2, HeadOfQueue

\* Sessions are saved.
LEMMA StepSessionSaved ==
  ASSUME Reconnect = "drained", TypeOK, DrainedInv, SessionSaved, [Next]_vars
  PROVE  SessionSaved'
<1> DEFINE Setup == {"will", "saveWill", "save"}
<1> USE DEF SessionSaved, connVars, stateVars, metricVars, savedVars, routerVars, histVars
<1>1. ASSUME NEW t \in Conn, TaskStep(t) \/ PeerStep(t)
      PROVE  SessionSaved'
  <2>1. rpc' = "removed" =>
          /\ rpc = "removed" /\ Leaving' = Leaving
          /\ pc[t] \in Live => Cl(t) # Leaving
          /\ \A r \in Request : Connect(t, r) => r.client # Leaving
    <3>1. rpc' = rpc
      BY <1>1 DEF TaskStep, StoreWill, SaveWill, SaveSession, FinishSubscribe, FinishUnsubscribe,
                FinishDisconnect, DeafBreak, Deregister, GoOffline, Notify, PeerStep, Packet,
                Refuse, Connect, Register, Subscribe, Unsubscribe, Disconnect,
                DisconnectKeepWill, Forward, Break, StreamEnds, ReturnError
    <3>. QED
      BY <1>1, <3>1, KeepsLeaving
  <2>2. ASSUME NEW r \in Request, Connect(t, r) PROVE SessionSaved'
    <3>1. /\ session' = [session EXCEPT ![r.client] = t] /\ savedSession' = savedSession
          /\ req' = [req EXCEPT ![t] = r] /\ rpc' = rpc
          /\ pc[t] = "new" /\ \E l \in Setup : pc' = [pc EXCEPT ![t] = l]
      BY <2>2 DEF Connect
    <3>2. ASSUME NEW c \in Client, \A u \in Conn : pc'[u] \in Setup => Cl(u)' # c,
                 rpc' = "removed" => Leaving' # c
          PROVE  savedSession'[c] = session'[c]
      <4>1. c # r.client
        BY <3>1, <3>2 DEF TypeOK
      <4>2. \A u \in Conn : pc[u] \in Setup => Cl(u) # c
        BY <3>1, <3>2 DEF TypeOK
      <4>3. rpc = "removed" => Leaving # c
        BY <2>1, <3>1, <3>2
      <4>. QED
        BY <3>1, <4>1, <4>2, <4>3 DEF TypeOK
    <3>3. rpc' = "removed" => session'[Leaving'] = NoConn
      BY <2>1, <2>2, <3>1 DEF TypeOK
    <3>. QED
      BY <3>2, <3>3
  <2>3. CASE SaveSession(t)
    <3>1. /\ session' = session /\ savedSession' = [savedSession EXCEPT ![Cl(t)] = t]
          /\ req' = req /\ rpc' = rpc
          /\ pc[t] = "save" /\ pc' = [pc EXCEPT ![t] = "connack"]
      BY <2>3 DEF SaveSession
    <3>2. session[Cl(t)] = t
      BY <3>1 DEF DrainedInv, SessionOwned
    <3>3. \A u \in Conn : pc[u] \in Setup /\ pc'[u] \notin Setup => u = t
      BY <3>1 DEF TypeOK
    <3>4. ASSUME NEW c \in Client, \A u \in Conn : pc'[u] \in Setup => Cl(u)' # c,
                 rpc' = "removed" => Leaving' # c
          PROVE  savedSession'[c] = session'[c]
      <4>1. CASE c = Cl(t)
        BY <3>1, <3>2, <4>1 DEF TypeOK
      <4>2. CASE c # Cl(t)
        BY <2>1, <3>1, <3>3, <3>4, <4>2 DEF TypeOK
      <4>. QED
        BY <4>1, <4>2
    <3>. QED
      BY <2>1, <3>1, <3>4
  <2>4. CASE (TaskStep(t) \/ PeerStep(t)) /\ ~SaveSession(t) /\ ~\E r \in Request : Connect(t, r)
    <3>1. req' = req /\ session' = session /\ savedSession' = savedSession /\ rpc' = rpc
      BY <2>4 DEF TaskStep, StoreWill, SaveWill, FinishSubscribe, FinishUnsubscribe,
                FinishDisconnect, DeafBreak, Deregister, GoOffline, Notify, PeerStep, Packet,
                Refuse, Register, Subscribe, Unsubscribe, Disconnect, DisconnectKeepWill,
                Forward, Break, StreamEnds, ReturnError
    <3>2. \A u \in Conn : pc[u] \in Setup => pc'[u] \in Setup
      BY <2>4 DEF TypeOK, TaskStep, StoreWill, SaveWill, FinishSubscribe, FinishUnsubscribe,
                FinishDisconnect, DeafBreak, Deregister, GoOffline, Notify, PeerStep, Packet,
                Refuse, Register, Subscribe, Unsubscribe, Disconnect, DisconnectKeepWill,
                Forward, Break, StreamEnds, ReturnError
    <3>. QED
      BY <2>1, <3>1, <3>2
  <2>. QED
    BY <1>1, <2>2, <2>3, <2>4
<1>2. CASE RouterStep
  <2>1. queue # <<>> /\ Leaving \in Client
    BY <1>2, RouterFrame
  <2>2. pc' = pc /\ req' = req
    BY <1>2, RouterFrame
  <2>3. CASE RouterRemoveSession
    <3>1. /\ rpc = "unsubscribed" /\ rpc' = "removed" /\ queue' = queue
          /\ session' = [session EXCEPT ![Leaving] = NoConn] /\ savedSession' = savedSession
      BY <2>3 DEF RouterRemoveSession
    <3>2. Leaving' = Leaving
      BY <2>2, <3>1 DEF Leaving
    <3>. QED
      BY <2>1, <2>2, <3>1, <3>2 DEF TypeOK
  <2>4. CASE RouterFinishClean
    <3>1. /\ rpc = "removed" /\ rpc' = "idle" /\ session' = session
          /\ savedSession' = [savedSession EXCEPT ![Leaving] = NoConn]
      BY <2>4 DEF RouterFinishClean
    <3>. QED
      BY <2>1, <2>2, <3>1 DEF TypeOK
  <2>5. CASE RouterStep /\ ~RouterRemoveSession /\ ~RouterFinishClean
    <3>1. /\ session' = session /\ savedSession' = savedSession
          /\ rpc # "removed" /\ rpc' # "removed"
      BY <2>5 DEF RouterStep, RouterTakeWill, RouterNoWill, RouterFireWill,
                  RouterUnsubscribeAll, RouterKeepSession
    <3>. QED
      BY <2>2, <3>1
  <2>. QED
    BY <1>2, <2>3, <2>4, <2>5
<1>3. ASSUME NEW c \in Client, DisconnectClient(c) PROVE SessionSaved'
  BY <1>3 DEF DisconnectClient, Leaving
<1>4. CASE UNCHANGED vars
  BY <1>4 DEF vars, Leaving
<1>. QED
  BY <1>1, <1>2, <1>3, <1>4 DEF Next

\* Wills are saved.
LEMMA StepWillSaved ==
  ASSUME Reconnect = "drained", TypeOK, DrainedInv, WillSaved, [Next]_vars
  PROVE  WillSaved'
<1> DEFINE Busy == {"saveWill", "saveNoWill"}
<1> USE DEF WillSaved, connVars, stateVars, metricVars, savedVars, routerVars, histVars
<1>1. ASSUME NEW t \in Conn, TaskStep(t) \/ PeerStep(t)
      PROVE  WillSaved'
  <2>1. rpc' = "fire" =>
          /\ rpc = "fire" /\ Leaving' = Leaving
          /\ pc[t] \in Live => Cl(t) # Leaving
          /\ \A r \in Request : Connect(t, r) => r.client # Leaving
    <3>1. rpc' = rpc
      BY <1>1 DEF TaskStep, StoreWill, SaveWill, SaveSession, FinishSubscribe, FinishUnsubscribe,
                FinishDisconnect, DeafBreak, Deregister, GoOffline, Notify, PeerStep, Packet,
                Refuse, Connect, Register, Subscribe, Unsubscribe, Disconnect,
                DisconnectKeepWill, Forward, Break, StreamEnds, ReturnError
    <3>. QED
      BY <1>1, <3>1, KeepsLeaving
  <2>2. ASSUME NEW r \in Request, Connect(t, r) PROVE WillSaved'
    <3>1. /\ wills' = wills /\ savedWill' = savedWill
          /\ req' = [req EXCEPT ![t] = r] /\ rpc' = rpc
          /\ pc[t] = "new" /\ \E l \in {"will", "save"} : pc' = [pc EXCEPT ![t] = l]
      BY <2>2 DEF Connect
    <3>2. \A u \in Conn : pc[u] \in Busy \/ pc'[u] \in Busy =>
                             u # t /\ pc'[u] = pc[u] /\ Cl(u)' = Cl(u)
      BY <3>1 DEF TypeOK
    <3>. QED
      BY <2>1, <3>1, <3>2
  <2>3. CASE StoreWill(t) \/ Disconnect(t)
    <3>1. PICK v \in {t, NoConn}, l \in Busy :
            /\ wills' = [wills EXCEPT ![Cl(t)] = v] /\ savedWill' = savedWill
            /\ req' = req /\ rpc' = rpc /\ pc' = [pc EXCEPT ![t] = l]
            /\ v = t <=> l = "saveWill"
            /\ pc[t] \in {"will", "loop"}
      BY <2>3, ConstantsAssumption DEF StoreWill, Disconnect
    <3>2. Cl(t) \in Client /\ \A u \in Conn : u # t /\ pc[u] \in Busy => Cl(u) # Cl(t)
      <4>1. OneTaskPerClient
        BY DEF DrainedInv
      <4>2. pc[t] \in Live /\ \A u \in Conn : pc[u] \in Busy => pc[u] \in Live
        BY <3>1
      <4>3. Cl(t) \in Client
        BY <3>1 DEF TypeOK, Request
      <4>. QED
        BY <4>1, <4>2, <4>3 DEF OneTaskPerClient
    <3>3. rpc' = "fire" => wills'[Leaving'] = NoConn
      BY <2>1, <3>1 DEF TypeOK
    <3>4. \A u \in Conn : u # t => pc'[u] = pc[u]
      BY <3>1 DEF TypeOK
    <3>5. pc'[t] = l /\ wills'[Cl(t)] = v /\ \A c \in Client : c # Cl(t) => wills'[c] = wills[c]
      BY <3>1, <3>2 DEF TypeOK
    <3>6. \A u \in Conn : /\ pc'[u] = "saveWill" => wills'[Cl(u)'] = u
                          /\ pc'[u] = "saveNoWill" => wills'[Cl(u)'] = NoConn
      <4>1. ASSUME NEW u \in Conn, u # t, pc[u] \in Busy PROVE wills'[Cl(u)] = wills[Cl(u)]
        BY <3>2, <3>5, <4>1 DEF TypeOK, Request
      <4>. QED
        BY <3>1, <3>4, <3>5, <4>1
    <3>7. ASSUME NEW c \in Client, \A u \in Conn : pc'[u] \in Busy => Cl(u)' # c,
                 rpc' = "fire" => Leaving' # c
          PROVE  savedWill'[c] = wills'[c]
      <4>1. c # Cl(t)
        BY <3>1, <3>5, <3>7
      <4>. QED
        BY <2>1, <3>1, <3>4, <3>5, <3>7, <4>1
    <3>. QED
      BY <3>3, <3>6, <3>7
  <2>4. CASE SaveWill(t) \/ FinishDisconnect(t)
    <3>1. PICK v \in {t, NoConn}, l \in {"save", "loop"} :
            /\ wills' = wills /\ savedWill' = [savedWill EXCEPT ![Cl(t)] = v]
            /\ req' = req /\ rpc' = rpc /\ pc' = [pc EXCEPT ![t] = l]
            /\ wills[Cl(t)] = v /\ pc[t] \in Busy
      BY <2>4 DEF SaveWill, FinishDisconnect
    <3>2. \A u \in Conn : pc[u] \in Busy /\ pc'[u] \notin Busy => u = t
      BY <3>1 DEF TypeOK
    <3>3. \A u \in Conn : pc'[u] \in Busy => u # t /\ pc'[u] = pc[u]
      BY <3>1 DEF TypeOK
    <3>4. ASSUME NEW c \in Client, \A u \in Conn : pc'[u] \in Busy => Cl(u)' # c,
                 rpc' = "fire" => Leaving' # c
          PROVE  savedWill'[c] = wills'[c]
      <4>1. CASE c = Cl(t)
        BY <3>1, <4>1 DEF TypeOK
      <4>2. CASE c # Cl(t)
        <5>1. \A u \in Conn : pc[u] \in Busy => Cl(u) # c
          BY <3>1, <3>2, <3>4, <4>2
        <5>. QED
          BY <2>1, <3>1, <3>4, <4>2, <5>1 DEF TypeOK
      <4>. QED
        BY <4>1, <4>2
    <3>. QED
      BY <2>1, <3>1, <3>3, <3>4
  <2>5. CASE /\ TaskStep(t) \/ PeerStep(t)
             /\ ~StoreWill(t) /\ ~SaveWill(t) /\ ~Disconnect(t) /\ ~FinishDisconnect(t)
             /\ ~\E r \in Request : Connect(t, r)
    <3>1. req' = req /\ wills' = wills /\ savedWill' = savedWill /\ rpc' = rpc
      BY <2>5 DEF TaskStep, SaveSession, FinishSubscribe, FinishUnsubscribe,
                DeafBreak, Deregister, GoOffline, Notify, PeerStep, Packet,
                Refuse, Register, Subscribe, Unsubscribe, DisconnectKeepWill,
                Forward, Break, StreamEnds, ReturnError
    <3>2. \A u \in Conn : pc[u] \in Busy \/ pc'[u] \in Busy => pc'[u] = pc[u]
      BY <2>5 DEF TypeOK, TaskStep, SaveSession, FinishSubscribe, FinishUnsubscribe,
                DeafBreak, Deregister, GoOffline, Notify, PeerStep, Packet,
                Refuse, Register, Subscribe, Unsubscribe, DisconnectKeepWill,
                Forward, Break, StreamEnds, ReturnError
    <3>. QED
      BY <2>1, <3>1, <3>2
  <2>. QED
    BY <1>1, <2>2, <2>3, <2>4, <2>5
<1>2. CASE RouterStep
  <2>1. queue # <<>> /\ Leaving \in Client
    BY <1>2, RouterFrame
  <2>2. pc' = pc /\ req' = req
    BY <1>2, RouterFrame
  <2>3. CASE RouterTakeWill
    <3>1. /\ rpc' = "fire" /\ queue' = queue
          /\ wills' = [wills EXCEPT ![Leaving] = NoConn] /\ savedWill' = savedWill
      BY <2>3 DEF RouterTakeWill
    <3>2. Leaving' = Leaving
      BY <2>2, <3>1 DEF Leaving
    <3>3. \A u \in Conn : pc[u] \in Busy => Cl(u) # Leaving
      BY <2>1, HeadOfQueue DEF DrainedInv
    <3>4. rpc # "fire"
      BY <2>3 DEF RouterTakeWill
    <3>5. \A u \in Conn : pc[u] \in Busy => wills'[Cl(u)] = wills[Cl(u)]
      BY <3>1, <3>3 DEF TypeOK, Request
    <3>6. \A c \in Client : c # Leaving => wills'[c] = wills[c]
      BY <3>1 DEF TypeOK
    <3>7. wills'[Leaving] = NoConn
      BY <2>1, <3>1 DEF TypeOK
    <3>. QED
      BY <2>2, <3>1, <3>2, <3>4, <3>5, <3>6, <3>7
  <2>4. CASE RouterFireWill
    <3>1. /\ rpc = "fire" /\ rpc' = "settle" /\ wills' = wills
          /\ savedWill' = [savedWill EXCEPT ![Leaving] = NoConn]
      BY <2>4 DEF RouterFireWill
    <3>. QED
      BY <2>1, <2>2, <3>1 DEF TypeOK
  <2>5. CASE RouterStep /\ ~RouterTakeWill /\ ~RouterFireWill
    <3>1. /\ wills' = wills /\ savedWill' = savedWill
          /\ rpc # "fire" /\ rpc' # "fire"
      BY <2>5 DEF RouterStep, RouterNoWill, RouterUnsubscribeAll, RouterRemoveSession,
                  RouterFinishClean, RouterKeepSession
    <3>. QED
      BY <2>2, <3>1
  <2>. QED
    BY <1>2, <2>3, <2>4, <2>5
<1>3. ASSUME NEW c \in Client, DisconnectClient(c) PROVE WillSaved'
  BY <1>3 DEF DisconnectClient, Leaving
<1>4. CASE UNCHANGED vars
  BY <1>4 DEF vars, Leaving
<1>. QED
  BY <1>1, <1>2, <1>3, <1>4 DEF Next

\* Subscriptions are saved.
LEMMA StepSubsSaved ==
  ASSUME Reconnect = "drained", TypeOK, DrainedInv, SubsSaved, [Next]_vars
  PROVE  SubsSaved'
<1> DEFINE Busy == {"subscribed", "unsubscribed"}
           Settled(c, f) ==
             /\ \A t \in Conn : pc[t] \in Busy => Cl(t) # c \/ arg[t] # f
             /\ rpc = "unsubscribed" => Leaving # c
           Agree(c, f) == <<c, f>> \in savedSubs <=> <<c, f>> \in subs
           Tree(t) == /\ pc[t] = "subscribed" => <<Cl(t), arg[t]>> \in subs
                      /\ pc[t] = "unsubscribed" => <<Cl(t), arg[t]>> \notin subs
           Emptied == rpc = "unsubscribed" => \A f \in Filter : <<Leaving, f>> \notin subs
<1> USE DEF connVars, stateVars, metricVars, savedVars, routerVars, histVars
<1>0. /\ \A c \in Client, f \in Filter : Settled(c, f) => Agree(c, f)
      /\ \A t \in Conn : Tree(t)
      /\ Emptied
  BY DEF SubsSaved
<1>a. ASSUME \A c \in Client, f \in Filter : Settled(c, f)' => Agree(c, f)',
             \A t \in Conn : Tree(t)',
             Emptied'
      PROVE  SubsSaved'
  BY <1>a DEF SubsSaved
<1>1. ASSUME NEW t \in Conn, TaskStep(t) \/ PeerStep(t)
      PROVE  SubsSaved'
  <2>1. rpc' = "unsubscribed" =>
          /\ rpc = "unsubscribed" /\ Leaving' = Leaving
          /\ pc[t] \in Live => Cl(t) # Leaving
          /\ \A r \in Request : Connect(t, r) => r.client # Leaving
    <3>1. rpc' = rpc
      BY <1>1 DEF TaskStep, StoreWill, SaveWill, SaveSession, FinishSubscribe, FinishUnsubscribe,
                FinishDisconnect, DeafBreak, Deregister, GoOffline, Notify, PeerStep, Packet,
                Refuse, Connect, Register, Subscribe, Unsubscribe, Disconnect,
                DisconnectKeepWill, Forward, Break, StreamEnds, ReturnError
    <3>. QED
      BY <1>1, <3>1, KeepsLeaving
  <2>2. CASE /\ \A f \in Filter : ~Subscribe(t, f) /\ ~Unsubscribe(t, f)
             /\ ~FinishSubscribe(t) /\ ~FinishUnsubscribe(t)
    <3>1. subs' = subs /\ savedSubs' = savedSubs /\ rpc' = rpc /\ arg' = arg
      BY <1>1, <2>2 DEF TaskStep, StoreWill, SaveWill, SaveSession, FinishDisconnect, DeafBreak,
                Deregister, GoOffline, Notify, PeerStep, Packet, Refuse, Connect, Register,
                Disconnect, DisconnectKeepWill, Forward, Break, StreamEnds, ReturnError
    <3>2. \A u \in Conn : pc[u] \in Busy \/ pc'[u] \in Busy =>
                             pc'[u] = pc[u] /\ req'[u] = req[u]
      BY <1>1, <2>2 DEF TypeOK, TaskStep, StoreWill, SaveWill, SaveSession, FinishDisconnect,
                DeafBreak, Deregister, GoOffline, Notify, PeerStep, Packet, Refuse, Connect,
                Register, Disconnect, DisconnectKeepWill, Forward, Break, StreamEnds, ReturnError
    <3>3. \A c \in Client, f \in Filter : Settled(c, f)' => Settled(c, f)
      BY <2>1, <3>1, <3>2
    <3>4. \A c \in Client, f \in Filter : Settled(c, f)' => Agree(c, f)'
      BY <1>0, <3>1, <3>3
    <3>5. \A u \in Conn : Tree(u)'
      BY <1>0, <3>1, <3>2
    <3>. QED
      BY <1>0, <1>a, <2>1, <3>1, <3>4, <3>5
  <2>3. ASSUME NEW g \in Filter, Subscribe(t, g) \/ Unsubscribe(t, g) PROVE SubsSaved'
    <3>1. /\ pc[t] = "loop" /\ arg' = [arg EXCEPT ![t] = g] /\ req' = req /\ rpc' = rpc
          /\ savedSubs' = savedSubs
          /\ \E l \in Busy : /\ pc' = [pc EXCEPT ![t] = l]
                             /\ l = "subscribed" => <<Cl(t), g>> \in subs'
                             /\ l = "unsubscribed" => <<Cl(t), g>> \notin subs'
          /\ \A s : s # <<Cl(t), g>> => (s \in subs' <=> s \in subs)
      BY <2>3 DEF Subscribe, Unsubscribe
    <3>2. pc'[t] \in Busy /\ arg'[t] = g /\ Tree(t)'
      BY <3>1 DEF TypeOK
    <3>3. \A u \in Conn : u # t => pc'[u] = pc[u] /\ arg'[u] = arg[u]
      BY <3>1 DEF TypeOK
    <3>4. \A u \in Conn : u # t /\ pc[u] \in Busy => Cl(u) # Cl(t)
      <4>1. OneTaskPerClient
        BY DEF DrainedInv
      <4>2. pc[t] \in Live /\ \A u \in Conn : pc[u] \in Busy => pc[u] \in Live
        BY <3>1
      <4>. QED
        BY <4>1, <4>2 DEF OneTaskPerClient
    <3>5. ASSUME NEW u \in Conn PROVE Tree(u)'
      <4>1. CASE u = t
        BY <3>2, <4>1
      <4>2. CASE u # t /\ pc[u] \in Busy
        <5>1. <<Cl(u), arg[u]>> # <<Cl(t), g>>
          BY <3>4, <4>2
        <5>2. <<Cl(u), arg[u]>> \in subs' <=> <<Cl(u), arg[u]>> \in subs
          BY <3>1, <5>1
        <5>. QED
          BY <1>0, <3>1, <3>3, <4>2, <5>2
      <4>3. CASE u # t /\ pc[u] \notin Busy
        BY <3>3, <4>3
      <4>. QED
        BY <4>1, <4>2, <4>3
    <3>6. ASSUME NEW c \in Client, NEW f \in Filter, Settled(c, f)' PROVE Agree(c, f)'
      <4>1. c # Cl(t) \/ f # g
        BY <3>1, <3>2, <3>6
      <4>2. Settled(c, f)
        BY <2>1, <3>1, <3>3, <3>6
      <4>3. <<c, f>> # <<Cl(t), g>>
        BY <4>1
      <4>. QED
        BY <1>0, <3>1, <4>2, <4>3
    <3>7. Emptied'
      BY <1>0, <2>1, <3>1
    <3>. QED
      BY <1>a, <3>5, <3>6, <3>7
  <2>4. CASE FinishSubscribe(t) \/ FinishUnsubscribe(t)
    <3> DEFINE s == <<Cl(t), arg[t]>>
    <3>1. /\ pc[t] \in Busy /\ pc' = [pc EXCEPT ![t] = "loop"]
          /\ arg' = [arg EXCEPT ![t] = NoFilter] /\ req' = req /\ rpc' = rpc /\ subs' = subs
          /\ \A x : x # s => (x \in savedSubs' <=> x \in savedSubs)
          /\ s \in savedSubs' <=> s \in subs
      BY <1>0, <2>4 DEF FinishSubscribe, FinishUnsubscribe
    <3>2. \A u \in Conn : u # t => pc'[u] = pc[u] /\ arg'[u] = arg[u]
      BY <3>1 DEF TypeOK
    <3>3. pc'[t] = "loop"
      BY <3>1 DEF TypeOK
    <3>4. \A u \in Conn : Tree(u)'
      BY <1>0, <3>1, <3>2, <3>3
    <3>5. ASSUME NEW c \in Client, NEW f \in Filter, Settled(c, f)' PROVE Agree(c, f)'
      <4>1. CASE <<c, f>> = s
        BY <3>1, <4>1
      <4>2. CASE <<c, f>> # s
        <5>1. c # Cl(t) \/ f # arg[t]
          BY <4>2
        <5>2. Settled(c, f)
          BY <2>1, <3>1, <3>2, <3>5, <5>1
        <5>. QED
          BY <1>0, <3>1, <4>2, <5>2
      <4>. QED
        BY <4>1, <4>2
    <3>6. Emptied'
      BY <1>0, <2>1, <3>1
    <3>. QED
      BY <1>a, <3>4, <3>5, <3>6
  <2>. QED
    BY <2>2, <2>3, <2>4
<1>2. CASE RouterStep
  <2>1. queue # <<>> /\ Leaving \in Client
    BY <1>2, RouterFrame
  <2>2. pc' = pc /\ req' = req /\ arg' = arg
    BY <1>2, RouterFrame
  <2>3. CASE RouterUnsubscribeAll
    <3>1. /\ rpc = "settle" /\ rpc' = "unsubscribed" /\ queue' = queue
          /\ subs' = {s \in subs : s[1] # Leaving} /\ savedSubs' = savedSubs
      BY <2>3 DEF RouterUnsubscribeAll, SubsOf
    <3>2. Leaving' = Leaving
      BY <2>2, <3>1 DEF Leaving
    <3>3. \A u \in Conn : pc[u] \in Busy => Cl(u) # Leaving
      BY <2>1, HeadOfQueue DEF DrainedInv
    <3>4. \A c, f : c # Leaving => (<<c, f>> \in subs' <=> <<c, f>> \in subs)
      BY <3>1
    <3>5. \A u \in Conn : Tree(u)'
      BY <1>0, <2>2, <3>3, <3>4
    <3>6. \A c \in Client, f \in Filter : Settled(c, f)' => Settled(c, f) /\ c # Leaving
      BY <2>2, <3>1, <3>2
    <3>7. \A c \in Client, f \in Filter : Settled(c, f)' => Agree(c, f)'
      BY <1>0, <3>1, <3>4, <3>6
    <3>8. Emptied'
      BY <3>1, <3>2
    <3>. QED
      BY <1>a, <3>5, <3>7, <3>8
  <2>4. CASE RouterRemoveSession
    <3>1. /\ rpc = "unsubscribed" /\ rpc' = "removed" /\ subs' = subs
          /\ savedSubs' = {s \in savedSubs : s[1] # Leaving}
      BY <2>4 DEF RouterRemoveSession
    <3>2. ASSUME NEW c \in Client, NEW f \in Filter, Settled(c, f)' PROVE Agree(c, f)'
      <4>1. CASE c = Leaving
        BY <1>0, <3>1, <4>1
      <4>2. CASE c # Leaving
        <5>1. Settled(c, f)
          BY <2>2, <3>2, <4>2
        <5>2. <<c, f>> \in savedSubs' <=> <<c, f>> \in savedSubs
          BY <3>1, <4>2
        <5>. QED
          BY <1>0, <3>1, <5>1, <5>2
      <4>. QED
        BY <4>1, <4>2
    <3>3. \A u \in Conn : Tree(u)'
      BY <1>0, <2>2, <3>1
    <3>4. Emptied'
      BY <3>1
    <3>. QED
      BY <1>a, <3>2, <3>3, <3>4
  <2>5. CASE RouterStep /\ ~RouterUnsubscribeAll /\ ~RouterRemoveSession
    <3>1. /\ subs' = subs /\ savedSubs' = savedSubs
          /\ rpc # "unsubscribed" /\ rpc' # "unsubscribed"
      BY <2>5 DEF RouterStep, RouterTakeWill, RouterNoWill, RouterFireWill,
                  RouterFinishClean, RouterKeepSession
    <3>. QED
      BY <1>0, <1>a, <2>2, <3>1
  <2>. QED
    BY <1>2, <2>3, <2>4, <2>5
<1>3. CASE \/ \E c \in Client : DisconnectClient(c)
           \/ UNCHANGED vars
  <2>1. UNCHANGED <<pc, req, arg, subs, savedSubs, rpc, queue>>
    BY <1>3 DEF DisconnectClient, vars
  <2>. QED
    BY <2>1 DEF SubsSaved, Leaving
<1>. QED
  BY <1>1, <1>2, <1>3 DEF Next

\* What the events sent so far leave on disk is what is in memory, for every
\* client that no handler is working on.
THEOREM SavedWhenDrained == Reconnect = "drained" => (Spec => []SavedMatches)
<1> SUFFICES ASSUME Reconnect = "drained" PROVE Spec => []SavedMatches
  OBVIOUS
<1>1. Init => SessionSaved /\ WillSaved /\ SubsSaved
  BY DEF Init, SessionSaved, WillSaved, SubsSaved
<1>2. TypeOK /\ DrainedInv /\ SessionSaved /\ [Next]_vars => SessionSaved'
  BY StepSessionSaved
<1>3. TypeOK /\ DrainedInv /\ WillSaved /\ [Next]_vars => WillSaved'
  BY StepWillSaved
<1>4. TypeOK /\ DrainedInv /\ SubsSaved /\ [Next]_vars => SubsSaved'
  BY StepSubsSaved
<1>5. TypeOK /\ SessionSaved /\ WillSaved /\ SubsSaved => SavedMatches
  <2> SUFFICES ASSUME TypeOK, SessionSaved, WillSaved, SubsSaved, NEW c \in Client, Quiet(c)
               PROVE  /\ savedSession[c] = session[c] /\ savedWill[c] = wills[c]
                      /\ {s \in savedSubs : s[1] = c} = SubsOf(c)
    BY DEF SavedMatches
  <2>1. \A t \in Conn : pc[t] \in {"will", "saveWill", "save", "subscribed", "unsubscribed",
                                   "saveNoWill"} => Cl(t) # c
    BY DEF Quiet, LiveOf
  <2>2. rpc # "idle" => Leaving # c
    BY DEF Quiet
  <2>3. savedSession[c] = session[c] /\ savedWill[c] = wills[c]
    BY <2>1, <2>2 DEF SessionSaved, WillSaved
  <2>4. \A f \in Filter : <<c, f>> \in savedSubs <=> <<c, f>> \in subs
    BY <2>1, <2>2 DEF SubsSaved
  <2>5. savedSubs \subseteq Client \X Filter /\ subs \subseteq Client \X Filter
    BY DEF TypeOK
  <2>. QED
    BY <2>3, <2>4, <2>5 DEF SubsOf
<1>. QED
  BY <1>1, <1>2, <1>3, <1>4, <1>5, TypeCorrect, AlwaysDrained, PTL DEF Spec

-----------------------------------------------------------------------------
(* Broker implements WillContract if client ids are presented again only   *)
(* when nothing of them is left.                                           *)

\* A connection with a will over TCP, whose CONNECT has been accepted.
HasWill(t) == req[t] \in Request /\ req[t].will /\ req[t].via \notin WebSocket

\* Where an unpublished will can be, in terms of its connection: only one that
\* has a will and is past storing it has it in the map or with the router, and
\* the router works for the client of the will that it holds.
ContractInv ==
    /\ \A t \in Conn : pc[t] \in {"new", "refused"} => req[t] = NoRequest
    /\ \A t \in Conn : pc[t] = "will" => HasWill(t)
    /\ \A c \in Client : wills[c] # NoConn => HasWill(wills[c])
    /\ firing # NoConn => HasWill(firing) /\ Cl(firing) = Leaving
    /\ \A t \in Conn : published[t] > 0 => HasWill(t)

\* Every step keeps ContractInv.
LEMMA StepContractInv ==
  ASSUME Reconnect = "drained", TypeOK, DrainedInv, ContractInv, [Next]_vars
  PROVE  ContractInv'
<1> USE DEF connVars, stateVars, metricVars, savedVars, routerVars, histVars
<1>1. ASSUME NEW t \in Conn, TaskStep(t) \/ PeerStep(t) PROVE ContractInv'
  <2>1. firing' = firing /\ published' = published /\ rpc' = rpc
    BY <1>1 DEF TaskStep, StoreWill, SaveWill, SaveSession, FinishSubscribe, FinishUnsubscribe,
                FinishDisconnect, DeafBreak, Deregister, GoOffline, Notify, PeerStep, Packet,
                Refuse, Connect, Register, Subscribe, Unsubscribe, Disconnect,
                DisconnectKeepWill, Forward, Break, StreamEnds, ReturnError
  <2>2. firing # NoConn => firing \in Conn /\ rpc = "fire" /\ Leaving' = Leaving
    BY <1>1, KeepsLeaving DEF TypeOK
  <2>3. ASSUME NEW r \in Request, Connect(t, r) PROVE ContractInv'
    <3>1. /\ req' = [req EXCEPT ![t] = r] /\ pc[t] = "new" /\ wills' = wills
          /\ pc' = [pc EXCEPT ![t] = IF r.will /\ r.via \notin WebSocket THEN "will" ELSE "save"]
      BY <2>3 DEF Connect
    <3>2. req[t] = NoRequest /\ ~HasWill(t)
      BY <3>1, NoRequestAssumption DEF ContractInv, HasWill
    <3>3. req'[t] = r /\ \A u \in Conn : u # t => req'[u] = req[u] /\ pc'[u] = pc[u]
      BY <3>1 DEF TypeOK
    <3>4. \A u \in Conn : HasWill(u) => HasWill(u)' /\ Cl(u)' = Cl(u)
      BY <3>2, <3>3 DEF HasWill
    <3>5. pc'[t] \in {"will", "save"} /\ (pc'[t] = "will" => HasWill(t)')
      BY <3>1, <3>3 DEF HasWill, TypeOK
    <3>6. \A u \in Conn : /\ pc'[u] \in {"new", "refused"} => req'[u] = NoRequest
                          /\ pc'[u] = "will" => HasWill(u)'
      BY <3>3, <3>4, <3>5 DEF ContractInv
    <3>7. \A c \in Client : wills[c] # NoConn => wills[c] \in Conn
      BY DEF TypeOK
    <3>. QED
      BY <2>1, <2>2, <3>1, <3>4, <3>6, <3>7 DEF ContractInv
  <2>4. CASE (TaskStep(t) \/ PeerStep(t)) /\ ~\E r \in Request : Connect(t, r)
    <3>1. req' = req
      BY <2>4, TaskMoves
    <3>2. /\ \A u \in Conn : u # t => pc'[u] = pc[u]
          /\ pc'[t] \in {"new", "refused"} => pc[t] = "new"
          /\ pc'[t] # "will"
      <4>1. CASE TaskStep(t)
        BY <4>1 DEF TypeOK, TaskStep, StoreWill, SaveWill, SaveSession, FinishSubscribe,
                FinishUnsubscribe, FinishDisconnect, DeafBreak, Deregister, GoOffline, Notify
      <4>2. CASE Forward(t) \/ DisconnectKeepWill(t)
        BY <4>2 DEF TypeOK, Forward, DisconnectKeepWill
      <4>3. CASE /\ PeerStep(t) /\ ~\E r \in Request : Connect(t, r)
                 /\ ~Forward(t) /\ ~DisconnectKeepWill(t)
        BY <4>3 DEF TypeOK, PeerStep, Packet, Refuse, Register, Subscribe, Unsubscribe,
                Disconnect, Break, Deregister, StreamEnds, ReturnError
      <4>. QED
        BY <2>4, <4>1, <4>2, <4>3
    <3>3. \A c \in Client : wills'[c] \in {wills[c], NoConn} \/ (wills'[c] = t /\ pc[t] = "will")
      BY <2>4 DEF TypeOK, TaskStep, StoreWill, SaveWill, SaveSession, FinishSubscribe,
                FinishUnsubscribe,
                FinishDisconnect, DeafBreak, Deregister, GoOffline, Notify, PeerStep, Packet,
                Refuse, Register, Subscribe, Unsubscribe, Disconnect,
                DisconnectKeepWill, Forward, Break, StreamEnds, ReturnError
    <3>4. \A u : HasWill(u)' <=> HasWill(u)
      BY <3>1 DEF HasWill
    <3>. QED
      BY <2>1, <2>2, <3>1, <3>2, <3>3, <3>4 DEF ContractInv
  <2>. QED
    BY <1>1, <2>3, <2>4
<1>2. CASE RouterStep
  <2>1. queue # <<>> /\ Leaving \in Client /\ pc' = pc /\ req' = req
    BY <1>2, RouterFrame
  <2>2. \A u : HasWill(u)' <=> HasWill(u)
    BY <2>1 DEF HasWill
  <2>3. CASE RouterTakeWill
    <3>1. /\ firing' = wills[Leaving] /\ wills' = [wills EXCEPT ![Leaving] = NoConn]
          /\ queue' = queue /\ published' = published /\ firing' # NoConn
      BY <2>3 DEF RouterTakeWill
    <3>2. Leaving' = Leaving /\ HasWill(firing') /\ Cl(firing') = Leaving
      BY <2>1, <3>1 DEF Leaving, ContractInv, DrainedInv
    <3>3. \A c \in Client : wills'[c] \in {wills[c], NoConn}
      BY <2>1, <3>1 DEF TypeOK
    <3>. QED
      BY <2>1, <2>2, <3>1, <3>2, <3>3 DEF ContractInv
  <2>4. CASE RouterFireWill
    <3>1. firing' = NoConn /\ wills' = wills /\ published' = [published EXCEPT ![firing] = @ + 1]
      BY <2>4 DEF RouterFireWill
    <3>2. HasWill(firing)
      BY <2>4 DEF ContractInv, RouterFireWill, TypeOK
    <3>3. \A u \in Conn : published'[u] > 0 => published[u] > 0 \/ u = firing
      BY <3>1 DEF TypeOK
    <3>. QED
      BY <2>1, <2>2, <3>1, <3>2, <3>3 DEF ContractInv
  <2>5. CASE RouterStep /\ ~RouterTakeWill /\ ~RouterFireWill
    <3>1. firing' = firing /\ wills' = wills /\ published' = published
      BY <2>5 DEF RouterStep, RouterNoWill, RouterUnsubscribeAll, RouterRemoveSession,
                  RouterFinishClean, RouterKeepSession
    <3>2. firing = NoConn
      BY <2>5 DEF TypeOK, RouterStep, RouterNoWill, RouterUnsubscribeAll, RouterRemoveSession,
                  RouterFinishClean, RouterKeepSession
    <3>. QED
      BY <2>1, <2>2, <3>1, <3>2 DEF ContractInv
  <2>. QED
    BY <1>2, <2>3, <2>4, <2>5
<1>3. CASE \/ \E c \in Client : DisconnectClient(c)
           \/ UNCHANGED vars
  <2>1. UNCHANGED <<pc, req, wills, firing, published, queue>>
    BY <1>3 DEF DisconnectClient, vars
  <2>. QED
    BY <2>1 DEF ContractInv, HasWill, Leaving
<1>. QED
  BY <1>1, <1>2, <1>3 DEF Next

-----------------------------------------------------------------------------
(* The steps of the contract *)

\* The will of connection t has not been published, and is in the map or with
\* the router.
Armed(t) == published[t] = 0 /\ (firing = t \/ \E c \in Client : wills[c] = t)

\* What the mapping makes of a connection's will, from the places it can be in.
LEMMA WillOfValue ==
  ASSUME TypeOK, ContractInv, NEW t \in Conn
  PROVE  /\ published[t] > 0 => WillOf(t) = "published"
         /\ Armed(t) => WillOf(t) = "armed"
         /\ published[t] = 0 /\ ~Armed(t) =>
              WillOf(t) = IF HasWill(t) /\ pc[t] # "will" THEN "dropped" ELSE "none"
         /\ WillOf(t) = "armed" <=> Armed(t)
<1>1. published[t] \in Nat
  BY DEF TypeOK
<1>2. HasWill(t) <=> req[t] # NoRequest /\ req[t].will /\ req[t].via \notin WebSocket
  BY NoRequestAssumption DEF HasWill, TypeOK
<1>. QED
  BY <1>1, <1>2 DEF WillOf, Armed

\* Steps that change neither the maps of wills nor which connection has its
\* will still to be stored leave the will of the contract alone.
LEMMA WillUnchanged ==
  ASSUME published' = published, firing' = firing, wills' = wills,
         NEW t \in Conn, req'[t] = req[t], pc'[t] = "will" <=> pc[t] = "will"
  PROVE  WillOf(t)' = WillOf(t)
BY DEF WillOf

\* What a step of the contract looks like from the broker.
LEMMA StutterStep ==
  ASSUME \A u \in Conn : /\ ClientOf(u)' = ClientOf(u) /\ PhaseOf(u)' = PhaseOf(u)
                         /\ WillOf(u)' = WillOf(u)
  PROVE  [Contract!Next]_Contract!cvars
BY DEF Contract!cvars

\* Broker steps after which a connection is up are openings of the contract.
LEMMA OpenStep ==
  ASSUME NEW t \in Conn, NEW c \in Client,
         PhaseOf(t) = "before", \A u \in Conn : PhaseOf(u) = "up" => ClientOf(u) # c,
         PhaseOf(t)' = "up", ClientOf(t)' = c,
         \A u \in Conn : u # t => ClientOf(u)' = ClientOf(u) /\ PhaseOf(u)' = PhaseOf(u),
         \A u \in Conn : WillOf(u)' = WillOf(u)
  PROVE  Contract!Next
<1>. Contract!Open(t, c)
  BY DEF Contract!Open
<1>. QED
  BY DEF Contract!Next

\* Those after which a connection that was never up is down are rejections.
LEMMA RejectStep ==
  ASSUME NEW t \in Conn, PhaseOf(t) = "before", PhaseOf(t)' = "down",
         \A u \in Conn : u # t => PhaseOf(u)' = PhaseOf(u),
         \A u \in Conn : ClientOf(u)' = ClientOf(u) /\ WillOf(u)' = WillOf(u)
  PROVE  Contract!Next
<1>. Contract!Reject(t)
  BY DEF Contract!Reject
<1>. QED
  BY DEF Contract!Next

\* Those after which a connection that was up is down are closings.
LEMMA CloseStep ==
  ASSUME NEW t \in Conn, PhaseOf(t) = "up", PhaseOf(t)' = "down",
         \A u \in Conn : u # t => PhaseOf(u)' = PhaseOf(u),
         \A u \in Conn : ClientOf(u)' = ClientOf(u) /\ WillOf(u)' = WillOf(u)
  PROVE  Contract!Next
<1>. Contract!Close(t)
  BY DEF Contract!Close
<1>. QED
  BY DEF Contract!Next

\* Those after which an armed will of a closed connection is published are
\* publications.
LEMMA PublishStep ==
  ASSUME NEW t \in Conn, PhaseOf(t) = "down", WillOf(t) = "armed", WillOf(t)' = "published",
         \A u \in Conn : u # t => WillOf(u)' = WillOf(u),
         \A u \in Conn : ClientOf(u)' = ClientOf(u) /\ PhaseOf(u)' = PhaseOf(u)
  PROVE  Contract!Next
<1>. Contract!Publish(t)
  BY DEF Contract!Publish
<1>. QED
  BY DEF Contract!Next

\* The will of u after the armed will of client c is given up.
Dropped(u, c) == IF ClientOf(u) = c /\ WillOf(u) = "armed" THEN "dropped" ELSE WillOf(u)

\* Those after which the armed wills of a client are given up are withdrawals.
LEMMA WithdrawStep ==
  ASSUME NEW t \in Conn, PhaseOf(t) = "up",
         \A u \in Conn : ClientOf(u)' = ClientOf(u) /\ PhaseOf(u)' = PhaseOf(u),
         \A u \in Conn : WillOf(u)' = Dropped(u, ClientOf(t))
  PROVE  Contract!Next
<1>. Contract!Withdraw(t)
  BY DEF Contract!Withdraw, Contract!DropOf, Dropped
<1>. QED
  BY DEF Contract!Next

\* Those after which a connection's will takes their place arm it.
LEMMA ArmStep ==
  ASSUME NEW t \in Conn, PhaseOf(t) = "up", WillOf(t) = "none", WillOf(t)' = "armed",
         \A u \in Conn : ClientOf(u)' = ClientOf(u) /\ PhaseOf(u)' = PhaseOf(u),
         \A u \in Conn : u # t => WillOf(u)' = Dropped(u, ClientOf(t))
  PROVE  Contract!Next
<1>. Contract!Arm(t)
  BY DEF Contract!Arm, Contract!DropOf, Dropped
<1>. QED
  BY DEF Contract!Next

\* A will of client c, which is not the one the router works for, is armed if
\* and only if it is in the map under c.
LEMMA ArmedInMap ==
  ASSUME TypeOK, WillInv, ContractInv, NEW c \in Client, firing # NoConn => Cl(firing) # c,
         NEW u \in Conn
  PROVE  /\ Armed(u) /\ ClientOf(u) = c <=> wills[c] = u
         /\ wills[c] = u => /\ HasWill(u) /\ pc[u] # "will" /\ firing # u /\ published[u] = 0
                            /\ \A d \in Client : d # c => wills[d] # u
<1>1. u # NoConn
  BY ConstantsAssumption
<1>2. ASSUME NEW d \in Client, wills[d] = u
      PROVE  /\ ClientOf(u) = d /\ published[u] = 0 /\ firing # u
             /\ HasWill(u) /\ pc[u] # "will"
  <2>1. HasWill(u) /\ Cl(u) = d /\ published[u] = 0 /\ firing # u /\ pc[u] # "will"
    BY <1>1, <1>2 DEF ContractInv, WillInv, Untouched
  <2>. QED
    BY <2>1, NoRequestAssumption DEF ClientOf, HasWill
<1>3. firing = u => ClientOf(u) # c
  BY <1>1, NoRequestAssumption DEF ContractInv, HasWill, ClientOf
<1>. QED
  BY <1>2, <1>3 DEF Armed

\* Whatever replaces the entry of c in the map, the will that was there is
\* dropped, and no other will but the new one is touched.
LEMMA EntryReplaced ==
  ASSUME TypeOK, WillInv, ContractInv, NEW c \in Client, firing # NoConn => Cl(firing) # c,
         NEW v, wills' = [wills EXCEPT ![c] = v], published' = published, firing' = firing,
         NEW u \in Conn, u # v, req'[u] = req[u], pc'[u] = "will" <=> pc[u] = "will"
  PROVE  WillOf(u)' = Dropped(u, c)
<1>1. wills'[c] = v /\ \A d \in Client : d # c => wills'[d] = wills[d]
  BY DEF TypeOK
<1>2. CASE wills[c] = u
  <2>1. /\ HasWill(u) /\ pc[u] # "will" /\ firing # u /\ published[u] = 0
        /\ Armed(u) /\ ClientOf(u) = c /\ \A d \in Client : d # c => wills[d] # u
    BY <1>2, ArmedInMap
  <2>2. published'[u] = 0 /\ ~(firing' = u \/ \E d \in Client : wills'[d] = u)
    BY <1>1, <2>1
  <2>3. req'[u] # NoRequest /\ req'[u].will /\ req'[u].via \notin WebSocket /\ pc'[u] # "will"
    BY <2>1, NoRequestAssumption DEF HasWill
  <2>4. WillOf(u)' = "dropped"
    BY <2>2, <2>3 DEF WillOf
  <2>5. WillOf(u) = "armed"
    BY <2>1, WillOfValue
  <2>. QED
    BY <2>1, <2>4, <2>5 DEF Dropped
<1>3. CASE wills[c] # u
  <2>1. \A d \in Client : wills'[d] = u <=> wills[d] = u
    BY <1>1, <1>3
  <2>2. WillOf(u)' = WillOf(u)
    BY <2>1 DEF WillOf
  <2>3. ~(ClientOf(u) = c /\ WillOf(u) = "armed")
    BY <1>3, ArmedInMap, WillOfValue
  <2>. QED
    BY <2>2, <2>3 DEF Dropped
<1>. QED
  BY <1>2, <1>3

-----------------------------------------------------------------------------
(* Every step of the broker is one of them, or a stutter *)

\* Steps of tasks and peers.
LEMMA TaskStepMaps ==
  ASSUME Reconnect = "drained", TypeOK, DrainedInv, WillInv, ContractInv,
         NEW t \in Conn, TaskStep(t) \/ PeerStep(t)
  PROVE  [Contract!Next]_Contract!cvars
<1> USE DEF connVars, stateVars, metricVars, savedVars, routerVars, histVars
<1>1. CASE Refuse(t)
  <2>1. /\ pc[t] = "new" /\ pc'[t] = "refused" /\ req' = req
        /\ \A u \in Conn : u # t => pc'[u] = pc[u]
        /\ published' = published /\ firing' = firing /\ wills' = wills
    BY <1>1 DEF Refuse, TypeOK
  <2>2. \A u \in Conn : WillOf(u)' = WillOf(u)
    BY <2>1, WillUnchanged
  <2>3. PhaseOf(t) = "before" /\ PhaseOf(t)' = "down"
    BY <2>1 DEF PhaseOf
  <2>4. \A u \in Conn : u # t => PhaseOf(u)' = PhaseOf(u)
    BY <2>1 DEF PhaseOf
  <2>5. \A u \in Conn : ClientOf(u)' = ClientOf(u)
    BY <2>1 DEF ClientOf
  <2>. QED
    BY <2>2, <2>3, <2>4, <2>5, RejectStep
<1>2. ASSUME NEW r \in Request, Connect(t, r) PROVE Contract!Next
  <2>1. /\ pc[t] = "new" /\ pc'[t] \in {"will", "save"} /\ req'[t] = r
        /\ pc'[t] = "will" <=> (r.will /\ r.via \notin WebSocket)
        /\ \A u \in Conn : u # t => pc'[u] = pc[u] /\ req'[u] = req[u]
        /\ published' = published /\ firing' = firing /\ wills' = wills
    BY <1>2 DEF Connect, TypeOK
  <2>2. \A u \in Conn : u # t => WillOf(u)' = WillOf(u)
    BY <2>1, WillUnchanged
  <2>3. published[t] = 0 /\ ~Armed(t)
    BY <2>1, ConstantsAssumption DEF WillInv, Untouched, Armed
  <2>6. WillOf(t) = "none"
    <3>1. ~HasWill(t)
      BY <2>1, NoRequestAssumption DEF HasWill, ContractInv
    <3>. QED
      BY <2>3, <3>1, WillOfValue
  <2>7. WillOf(t)' = "none"
    <3>1. published'[t] = 0 /\ ~(firing' = t \/ \E c \in Client : wills'[c] = t)
      BY <2>1, <2>3 DEF Armed
    <3>. QED
      BY <2>1, <3>1, NoRequestAssumption DEF WillOf
  <2>8. PhaseOf(t) = "before" /\ PhaseOf(t)' = "up"
    BY <2>1 DEF PhaseOf
  <2>9. \A u \in Conn : u # t => ClientOf(u)' = ClientOf(u) /\ PhaseOf(u)' = PhaseOf(u)
    BY <2>1 DEF ClientOf, PhaseOf
  <2>10. ClientOf(t)' = r.client /\ r.client \in Client
    BY <2>1, NoRequestAssumption DEF ClientOf, Request
  <2>11. \A u \in Conn : PhaseOf(u) = "up" => ClientOf(u) # r.client
    <3>1. \A u \in Conn : pc[u] \in Live => Cl(u) # r.client /\ req[u] \in Request
      BY <1>2 DEF Connect, MayConnect, LiveOf, TypeOK
    <3>2. \A u \in Conn : PhaseOf(u) = "up" => pc[u] \in Live
      BY DEF PhaseOf, TypeOK
    <3>. QED
      BY <3>1, <3>2, NoRequestAssumption DEF ClientOf
  <2>. QED
    BY <2>2, <2>6, <2>7, <2>8, <2>9, <2>10, <2>11, OpenStep
<1>3. CASE (TaskStep(t) \/ PeerStep(t)) /\ ~Refuse(t) /\ ~\E r \in Request : Connect(t, r)
  <2>1. /\ req' = req /\ pc[t] \in Live
        /\ \A u \in Conn : u # t => pc'[u] = pc[u]
    <3>1. TaskStep(t) => pc[t] \in Live
      BY DEF TaskStep, StoreWill, SaveWill, SaveSession, FinishSubscribe, FinishUnsubscribe,
             FinishDisconnect, DeafBreak, Deregister, GoOffline, Notify
    <3>2. ASSUME PeerStep(t) PROVE pc[t] \in Live
      BY <1>3, <3>2 DEF PeerStep, Packet, Register, Subscribe, Unsubscribe, Disconnect,
                        DisconnectKeepWill, Forward, Break, Deregister, StreamEnds, ReturnError
    <3>. QED
      BY <1>3, <3>1, <3>2, TaskMoves
  <2>2. pc'[t] \in Live \union {"done", "leaked"}
    BY <1>3 DEF TypeOK, TaskStep, StoreWill, SaveWill, SaveSession, FinishSubscribe,
                FinishUnsubscribe,
                FinishDisconnect, DeafBreak, Deregister, GoOffline, Notify, PeerStep, Packet,
                Register, Subscribe, Unsubscribe, Disconnect,
                DisconnectKeepWill, Forward, Break, StreamEnds, ReturnError
  <2>3. \A u \in Conn : ClientOf(u)' = ClientOf(u)
    BY <2>1 DEF ClientOf
  <2>4. \A u \in Conn : u # t => PhaseOf(u)' = PhaseOf(u)
    BY <2>1 DEF PhaseOf
  <2>5. PhaseOf(t) = "up" /\ PhaseOf(t)' = IF pc'[t] \in Live THEN "up" ELSE "down"
    BY <2>1, <2>2 DEF PhaseOf
  <2>6. published' = published /\ firing' = firing
    BY <1>3 DEF TaskStep, StoreWill, SaveWill, SaveSession, FinishSubscribe, FinishUnsubscribe,
                FinishDisconnect, DeafBreak, Deregister, GoOffline, Notify, PeerStep, Packet,
                Register, Subscribe, Unsubscribe, Disconnect,
                DisconnectKeepWill, Forward, Break, StreamEnds, ReturnError
  <2>7. Cl(t) \in Client /\ ClientOf(t) = Cl(t) /\ published[t] = 0 /\ firing # t
    <3>1. req[t] \in Request
      BY <2>1 DEF TypeOK
    <3>2. published[t] \in Nat /\ (published[t] > 0 \/ firing = t => pc[t] \in Ended)
      BY DEF TypeOK, DrainedInv, WillOnlyAfterEnd
    <3>. QED
      BY <2>1, <3>1, <3>2, NoRequestAssumption DEF ClientOf, Request
  <2>9. firing # NoConn => Cl(firing) # Cl(t)
    <3>1. firing # NoConn => queue # <<>> /\ Cl(firing) = Leaving
      BY DEF TypeOK, ContractInv
    <3>2. queue # <<>> => Leaving # Cl(t)
      BY <2>1, HeadOfQueue DEF DrainedInv
    <3>. QED
      BY <3>1, <3>2
  <2>11. CASE StoreWill(t)
    <3>1. pc[t] = "will" /\ pc'[t] = "saveWill" /\ wills' = [wills EXCEPT ![Cl(t)] = t]
      BY <1>3, <2>11 DEF StoreWill, TypeOK
    <3>2. \A c \in Client : wills[c] # t
      BY <3>1, ConstantsAssumption DEF WillInv, Untouched
    <3>3. WillOf(t) = "none"
      BY <2>7, <3>1, <3>2, WillOfValue DEF Armed
    <3>4. WillOf(t)' = "armed"
      BY <2>6, <2>7, <3>1 DEF WillOf, TypeOK
    <3>5. \A u \in Conn : u # t => WillOf(u)' = Dropped(u, ClientOf(t))
      BY <2>1, <2>6, <2>7, <2>9, <3>1, EntryReplaced
    <3>. QED
      BY <2>3, <2>4, <2>5, <3>1, <3>3, <3>4, <3>5, ArmStep
  <2>12. CASE Disconnect(t)
    <3>1. pc'[t] = "saveNoWill" /\ pc[t] = "loop" /\ wills' = [wills EXCEPT ![Cl(t)] = NoConn]
      BY <1>3, <2>12 DEF Disconnect, TypeOK
    <3>2. ASSUME NEW u \in Conn PROVE WillOf(u)' = Dropped(u, ClientOf(t))
      <4>1. u # NoConn
        BY ConstantsAssumption
      <4>2. req'[u] = req[u] /\ (pc'[u] = "will" <=> pc[u] = "will")
        BY <2>1, <2>6, <3>1
      <4>. QED
        BY <2>6, <2>7, <2>9, <3>1, <4>1, <4>2, EntryReplaced
    <3>. QED
      BY <2>3, <2>4, <2>5, <3>1, <3>2, WithdrawStep
  <2>13. CASE ~StoreWill(t) /\ ~Disconnect(t)
    <3>1. wills' = wills /\ (pc'[t] = "will" <=> pc[t] = "will")
      <4>1. CASE TaskStep(t)
        BY <2>13, <4>1 DEF TypeOK, TaskStep, SaveWill, SaveSession, FinishSubscribe,
                FinishUnsubscribe, FinishDisconnect, DeafBreak, Deregister, GoOffline, Notify
      <4>2. CASE PeerStep(t)
        BY <1>3, <2>13, <4>2 DEF TypeOK, PeerStep, Packet,
                Register, Subscribe, Unsubscribe,
                DisconnectKeepWill, Forward, Break, Deregister, StreamEnds, ReturnError
      <4>. QED
        BY <1>3, <4>1, <4>2
    <3>2. \A u \in Conn : WillOf(u)' = WillOf(u)
      BY <2>1, <2>6, <3>1, WillUnchanged
    <3>3. CASE pc'[t] \in Live
      BY <2>3, <2>4, <2>5, <3>2, <3>3, StutterStep
    <3>4. CASE pc'[t] \notin Live
      BY <2>3, <2>4, <2>5, <3>2, <3>4, CloseStep
    <3>. QED
      BY <3>3, <3>4
  <2>. QED
    BY <2>11, <2>12, <2>13
<1>. QED
  BY <1>1, <1>2, <1>3

\* Steps of the router: only publishing a will is a step of the contract.
LEMMA RouterStepMaps ==
  ASSUME TypeOK, DrainedInv, WillInv, ContractInv, RouterStep
  PROVE  [Contract!Next]_Contract!cvars
<1> USE DEF connVars, stateVars, metricVars, savedVars, routerVars, histVars
<1>1. pc' = pc /\ req' = req /\ queue # <<>> /\ Leaving \in Client
  BY RouterFrame
<1>2. \A u \in Conn : ClientOf(u)' = ClientOf(u) /\ PhaseOf(u)' = PhaseOf(u)
  BY <1>1 DEF ClientOf, PhaseOf
<1>3. CASE RouterTakeWill
  <2>1. /\ firing' = wills[Leaving] /\ wills' = [wills EXCEPT ![Leaving] = NoConn]
        /\ published' = published /\ firing = NoConn
    BY <1>3 DEF RouterTakeWill, TypeOK
  <2>2. wills'[Leaving] = NoConn /\ \A c \in Client : c # Leaving => wills'[c] = wills[c]
    BY <1>1, <2>1 DEF TypeOK
  <2>3. ASSUME NEW u \in Conn PROVE WillOf(u)' = WillOf(u)
    <3>1. u # NoConn
      BY ConstantsAssumption
    <3>2. (firing' = u \/ \E c \in Client : wills'[c] = u)
            <=> (firing = u \/ \E c \in Client : wills[c] = u)
      BY <1>1, <2>1, <2>2, <3>1
    <3>. QED
      BY <1>1, <2>1, <3>2 DEF WillOf
  <2>. QED
    BY <1>2, <2>3, StutterStep
<1>4. CASE RouterFireWill
  <2>1. PICK w \in Conn : w = firing
    BY <1>4 DEF RouterFireWill, TypeOK
  <2>2. firing' = NoConn /\ wills' = wills /\ published' = [published EXCEPT ![w] = @ + 1]
    BY <1>4, <2>1 DEF RouterFireWill
  <2>3. published[w] = 0 /\ published'[w] > 0
    BY <2>1, <2>2, ConstantsAssumption DEF WillInv, TypeOK
  <2>4. WillOf(w) = "armed"
    BY <2>1, <2>3, WillOfValue DEF Armed
  <2>5. WillOf(w)' = "published"
    BY <2>3 DEF WillOf
  <2>6. PhaseOf(w) = "down"
    BY <2>1 DEF DrainedInv, WillOnlyAfterEnd, PhaseOf
  <2>7. ASSUME NEW u \in Conn, u # w PROVE WillOf(u)' = WillOf(u)
    <3>1. u # NoConn /\ published'[u] = published[u]
      BY <2>2, <2>7, ConstantsAssumption DEF TypeOK
    <3>. QED
      BY <1>1, <2>1, <2>2, <2>7, <3>1 DEF WillOf
  <2>. QED
    BY <1>2, <2>4, <2>5, <2>6, <2>7, PublishStep
<1>5. CASE RouterStep /\ ~RouterTakeWill /\ ~RouterFireWill
  <2>1. firing' = firing /\ wills' = wills /\ published' = published
    BY <1>5 DEF RouterStep, RouterNoWill, RouterUnsubscribeAll, RouterRemoveSession,
                RouterFinishClean, RouterKeepSession
  <2>2. \A u \in Conn : WillOf(u)' = WillOf(u)
    BY <1>1, <2>1, WillUnchanged
  <2>. QED
    BY <1>2, <2>2, StutterStep
<1>. QED
  BY <1>3, <1>4, <1>5

\* The broker implements the contract of wills: every step of a task, of a peer
\* and of the router is a step of the contract or none.
THEOREM BrokerImplementsContract == Reconnect = "drained" => (Spec => ImplementsContract)
<1> SUFFICES ASSUME Reconnect = "drained" PROVE Spec => Contract!Spec
  BY DEF ImplementsContract
<1>1. Init => Contract!Init
  <2> SUFFICES ASSUME Init PROVE Contract!Init
    OBVIOUS
  <2>1. ASSUME NEW t \in Conn
        PROVE  ClientOf(t) = NoRequest /\ PhaseOf(t) = "before" /\ WillOf(t) = "none"
    BY ConstantsAssumption DEF Init, ClientOf, PhaseOf, WillOf
  <2>. QED
    BY <2>1 DEF Contract!Init
<1>2. Init => ContractInv /\ WillInv
  BY ConstantsAssumption DEF Init, ContractInv, WillInv
<1>3. TypeOK /\ DrainedInv /\ ContractInv /\ [Next]_vars => ContractInv'
  BY StepContractInv
<1>4. TypeOK /\ WillInv /\ [Next]_vars => WillInv'
  <2> SUFFICES ASSUME TypeOK, WillInv, [Next]_vars PROVE WillInv'
    OBVIOUS
  <2>1. ASSUME NEW c \in Client, DisconnectClient(c) PROVE WillInv'
    BY <2>1 DEF DisconnectClient, WillInv, connVars, routerVars, histVars
  <2>2. CASE UNCHANGED vars
    BY <2>2 DEF vars, WillInv, connVars, stateVars, routerVars, histVars
  <2>. QED
    BY <2>1, <2>2, TaskWill, RouterWill DEF Next
<1>5. TypeOK /\ DrainedInv /\ WillInv /\ ContractInv /\ [Next]_vars
        => [Contract!Next]_Contract!cvars
  <2> SUFFICES ASSUME TypeOK, DrainedInv, WillInv, ContractInv, [Next]_vars
               PROVE  [Contract!Next]_Contract!cvars
    OBVIOUS
  <2>1. CASE \/ \E c \in Client : DisconnectClient(c)
             \/ UNCHANGED vars
    <3>1. UNCHANGED <<pc, req, wills, firing, published>>
      BY <2>1 DEF DisconnectClient, vars, connVars, stateVars, routerVars, histVars
    <3>2. \A u \in Conn : ClientOf(u)' = ClientOf(u) /\ PhaseOf(u)' = PhaseOf(u)
      BY <3>1 DEF ClientOf, PhaseOf
    <3>3. \A u \in Conn : WillOf(u)' = WillOf(u)
      BY <3>1, WillUnchanged
    <3>. QED
      BY <3>2, <3>3, StutterStep
  <2>. QED
    BY <2>1, TaskStepMaps, RouterStepMaps DEF Next
<1>. QED
  BY <1>1, <1>2, <1>3, <1>4, <1>5, TypeCorrect, AlwaysDrained, PTL DEF Spec, Contract!Spec
=============================================================================
