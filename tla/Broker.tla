------------------------------- MODULE Broker -------------------------------
(***************************************************************************)
(* The connection life cycle of the broker: the tasks that serve MQTT      *)
(* connections (handle_connection in mqtt-broker/src/server.rs for TCP,    *)
(* handle_connect_after_decode in mqtt-web/src/api.rs for WebSocket) and   *)
(* the background router, which share BrokerState (sessions, connections,  *)
(* wills, subscriptions, metrics) and a persistence channel.               *)
(*                                                                         *)
(* A connection stands for one accepted stream and the task that serves    *)
(* it.  An action is a stretch of a task between two operations on shared  *)
(* state that another task can see: every DashMap operation, every lock    *)
(* and every channel send of the code is in exactly one action, and two of *)
(* them share an action only when they touch unrelated state.              *)
(*                                                                         *)
(* Payloads, topics and packet ids do not matter here: the router's        *)
(* Publish message and the retained store are the subject of other         *)
(* modules.  What is on disk is kept as the value that the events sent so  *)
(* far add up to.                                                          *)
(***************************************************************************)
EXTENDS Naturals, Sequences, FiniteSets

CONSTANTS
    Conn,          \* connections: accepted streams, each with its own task
    Client,        \* client ids
    Filter,        \* topic filters
    WillFilter,    \* the filters that match the topic wills are published to
    Via,           \* the transports and protocol versions in use
    Reconnect,     \* when a client id may be presented again, see MayConnect
    NoConn,        \* no connection
    NoFilter,      \* no filter
    NoRequest      \* no CONNECT received yet

(***************************************************************************)
(* "tcp3" and "tcp5" are MQTT 3.1.1 and 5.0 over TCP, "ws3" and "ws5" over *)
(* a WebSocket.                                                            *)
(***************************************************************************)
Transports == {"tcp3", "tcp5", "ws3", "ws5"}
WebSocket == {"ws3", "ws5"}

ReconnectModes == {"drained", "sequential", "any"}

ASSUME ConstantsAssumption ==
    /\ WillFilter \subseteq Filter
    /\ Via \subseteq Transports
    /\ Reconnect \in ReconnectModes
    /\ NoConn \notin Conn
    /\ NoFilter \notin Filter

\* What the fields of a CONNECT packet decide.  The will is taken from a TCP
\* CONNECT only; the WebSocket handler does not look at it.
Request == [client : Client, clean : BOOLEAN, via : Via, will : BOOLEAN]
ASSUME NoRequestAssumption == NoRequest \notin Request

VARIABLES
    pc,            \* where the task of a connection is
    req,           \* the CONNECT packet of a connection
    arg,           \* the filter of the SUBSCRIBE or UNSUBSCRIBE in progress
    session,       \* sessions: the connection whose CONNECT made the entry
    online,        \* sessions: the `connected` field of the entry
    connections,   \* connections: the task that holds the receiving end
    wills,         \* wills: the connection whose CONNECT set the will
    subs,          \* the subscription tree, as a set of (client, filter)
    clientsConnected, subsActive,               \* metrics
    savedSession, savedWill, savedSubs,         \* what the sent events add up to
    channel,       \* wills forwarded to a connection and not yet written to it
    queue,         \* ClientDisconnected messages, each named by its sender
    rpc,           \* where the router is in the message at the head of queue
    firing,        \* the will the router has taken out of the map
    targets,       \* the subscribers it found for that will
    published,     \* history: how often the will of a connection was published
    graceful       \* history: connections whose DISCONNECT dropped the will

connVars == <<pc, req, arg>>
stateVars == <<session, online, connections, wills, subs>>
metricVars == <<clientsConnected, subsActive>>
savedVars == <<savedSession, savedWill, savedSubs>>
routerVars == <<queue, rpc, firing, targets>>
histVars == <<published, graceful>>
vars == <<connVars, stateVars, metricVars, savedVars, channel, routerVars, histVars>>

-----------------------------------------------------------------------------
ConnOrNone == Conn \union {NoConn}

\* Steps of a connection task, in the order they are taken.
Starting == {"will", "saveWill", "save", "connack"}
Serving == {"loop", "deaf", "subscribed", "unsubscribed", "saveNoWill"}
Closing == {"offline", "notify"}
Live == Starting \union Serving \union Closing
Ended == {"refused", "done", "leaked"}

TypeOK ==
    /\ pc \in [Conn -> {"new"} \union Live \union Ended]
    /\ req \in [Conn -> Request \union {NoRequest}]
    /\ \A t \in Conn : pc[t] \notin {"new", "refused"} => req[t] \in Request
    /\ arg \in [Conn -> Filter \union {NoFilter}]
    /\ \A t \in Conn : pc[t] \in {"subscribed", "unsubscribed"} => arg[t] \in Filter
    /\ session \in [Client -> ConnOrNone]
    /\ online \in [Client -> BOOLEAN]
    /\ connections \in [Client -> ConnOrNone]
    /\ wills \in [Client -> ConnOrNone]
    /\ subs \subseteq Client \X Filter /\ IsFiniteSet(subs)
    /\ clientsConnected \in Nat
    /\ subsActive \in Nat
    /\ savedSession \in [Client -> ConnOrNone]
    /\ savedWill \in [Client -> ConnOrNone]
    /\ savedSubs \subseteq Client \X Filter
    /\ channel \in [Conn -> SUBSET Conn]
    /\ queue \in Seq({t \in Conn : req[t] \in Request})
    /\ rpc \in {"idle", "fire", "settle", "unsubscribed", "removed"}
    /\ rpc # "idle" => queue # <<>>
    /\ firing \in ConnOrNone
    /\ rpc = "fire" <=> firing # NoConn
    /\ targets \subseteq Client
    /\ published \in [Conn -> Nat]
    /\ graceful \subseteq Conn

Init ==
    /\ pc = [t \in Conn |-> "new"]
    /\ req = [t \in Conn |-> NoRequest]
    /\ arg = [t \in Conn |-> NoFilter]
    /\ session = [c \in Client |-> NoConn]
    /\ online = [c \in Client |-> FALSE]
    /\ connections = [c \in Client |-> NoConn]
    /\ wills = [c \in Client |-> NoConn]
    /\ subs = {}
    /\ clientsConnected = 0
    /\ subsActive = 0
    /\ savedSession = [c \in Client |-> NoConn]
    /\ savedWill = [c \in Client |-> NoConn]
    /\ savedSubs = {}
    /\ channel = [t \in Conn |-> {}]
    /\ queue = <<>>
    /\ rpc = "idle"
    /\ firing = NoConn
    /\ targets = {}
    /\ published = [t \in Conn |-> 0]
    /\ graceful = {}

-----------------------------------------------------------------------------
(* Helpers *)

Cl(t) == req[t].client
SubsOf(c) == {s \in subs : s[1] = c}
Goto(t, l) == pc' = [pc EXCEPT ![t] = l]

\* Connections that presented client id c and whose tasks still run.
LiveOf(c) == {t \in Conn : pc[t] \in Live /\ Cl(t) = c}

\* A ClientDisconnected of c is queued, or the router is handling one.
Pending(c) == \E i \in DOMAIN queue : Cl(queue[i]) = c

(***************************************************************************)
(* The environment: when may client id c be presented in a CONNECT?        *)
(*   "drained"     when no task serves it and the router has handled every *)
(*                 ClientDisconnected that the tasks before it sent,       *)
(*   "sequential"  when no task serves it,                                 *)
(*   "any"         at any time.                                            *)
(***************************************************************************)
MayConnect(c) ==
    \/ Reconnect = "any"
    \/ Reconnect = "sequential" /\ LiveOf(c) = {}
    \/ Reconnect = "drained" /\ LiveOf(c) = {} /\ ~Pending(c)

-----------------------------------------------------------------------------
(* Accepting a CONNECT *)

\* Closed before any state exists: end of stream, not a CONNECT, malformed
\* or too short in the single first read, or credentials denied.
Refuse(t) ==
    /\ pc[t] = "new"
    /\ Goto(t, "refused")
    /\ UNCHANGED <<req, arg, stateVars, metricVars, savedVars, channel, routerVars, histVars>>

\* Mutant of Connect: the entry of an existing session is kept.
ConnectResumes(t, r) ==
    /\ pc[t] = "new"
    /\ MayConnect(r.client)
    /\ req' = [req EXCEPT ![t] = r]
    /\ session' = [session EXCEPT ![r.client] = IF @ = NoConn THEN t ELSE @]
    /\ online' = [online EXCEPT ![r.client] = TRUE]
    /\ clientsConnected' = clientsConnected + 1
    /\ Goto(t, IF r.will /\ r.via \notin WebSocket THEN "will" ELSE "save")
    /\ UNCHANGED <<arg, connections, wills, subs, subsActive, savedVars, channel,
                   routerVars, histVars>>

\* The CONNECT is accepted.  `connected` of an entry already there is cleared
\* and the entry then overwritten; the older connection itself is left alone.
Connect(t, r) ==
    /\ pc[t] = "new"
    /\ MayConnect(r.client)
    /\ req' = [req EXCEPT ![t] = r]
    /\ session' = [session EXCEPT ![r.client] = t]
    /\ online' = [online EXCEPT ![r.client] = TRUE]
    /\ clientsConnected' = clientsConnected + 1
    /\ Goto(t, IF r.will /\ r.via \notin WebSocket THEN "will" ELSE "save")
    /\ UNCHANGED <<arg, connections, wills, subs, subsActive, savedVars, channel,
                   routerVars, histVars>>

StoreWill(t) ==
    /\ pc[t] = "will"
    /\ wills' = [wills EXCEPT ![Cl(t)] = t]
    /\ Goto(t, "saveWill")
    /\ UNCHANGED <<req, arg, session, online, connections, subs, metricVars, savedVars,
                   channel, routerVars, histVars>>

SaveWill(t) ==
    /\ pc[t] = "saveWill"
    /\ savedWill' = [savedWill EXCEPT ![Cl(t)] = t]
    /\ Goto(t, "save")
    /\ UNCHANGED <<req, arg, stateVars, metricVars, savedSession, savedSubs, channel,
                   routerVars, histVars>>

SaveSession(t) ==
    /\ pc[t] = "save"
    /\ savedSession' = [savedSession EXCEPT ![Cl(t)] = t]
    /\ Goto(t, "connack")
    /\ UNCHANGED <<req, arg, stateVars, metricVars, savedWill, savedSubs, channel,
                   routerVars, histVars>>

\* The CONNACK is written and the channel registered; the sender of an older
\* connection of the same client, if there is one, is dropped with its entry.
\* The TCP handler then decodes the CONNECT again, with the 3.1.1 decoder
\* whatever the version: for MQTT 5.0 that is an error, returned by `?`.
Register(t) ==
    /\ pc[t] = "connack"
    /\ connections' = [connections EXCEPT ![Cl(t)] = t]
    /\ Goto(t, IF req[t].via = "tcp5" THEN "leaked" ELSE "loop")
    /\ UNCHANGED <<req, arg, session, online, wills, subs, metricVars, savedVars, channel,
                   routerVars, histVars>>

-----------------------------------------------------------------------------
(* Packets: the handlers of process_packet that change shared state *)

Subscribe(t, f) ==
    /\ pc[t] = "loop"
    /\ subs' = subs \union {<<Cl(t), f>>}
    /\ arg' = [arg EXCEPT ![t] = f]
    /\ Goto(t, "subscribed")
    /\ UNCHANGED <<req, session, online, connections, wills, metricVars, savedVars, channel,
                   routerVars, histVars>>

\* The metric is computed and stored with the tree locked.
FinishSubscribe(t) ==
    /\ pc[t] = "subscribed"
    /\ savedSubs' = savedSubs \union {<<Cl(t), arg[t]>>}
    /\ subsActive' = Cardinality(subs)
    /\ arg' = [arg EXCEPT ![t] = NoFilter]
    /\ Goto(t, "loop")
    /\ UNCHANGED <<req, stateVars, clientsConnected, savedSession, savedWill, channel,
                   routerVars, histVars>>

Unsubscribe(t, f) ==
    /\ pc[t] = "loop"
    /\ subs' = subs \ {<<Cl(t), f>>}
    /\ arg' = [arg EXCEPT ![t] = f]
    /\ Goto(t, "unsubscribed")
    /\ UNCHANGED <<req, session, online, connections, wills, metricVars, savedVars, channel,
                   routerVars, histVars>>

\* Mutant of FinishUnsubscribe: the metric is not updated.
FinishUnsubscribeNoCount(t) ==
    /\ pc[t] = "unsubscribed"
    /\ savedSubs' = savedSubs \ {<<Cl(t), arg[t]>>}
    /\ arg' = [arg EXCEPT ![t] = NoFilter]
    /\ Goto(t, "loop")
    /\ UNCHANGED <<req, stateVars, metricVars, savedSession, savedWill, channel,
                   routerVars, histVars>>

FinishUnsubscribe(t) ==
    /\ pc[t] = "unsubscribed"
    /\ savedSubs' = savedSubs \ {<<Cl(t), arg[t]>>}
    /\ subsActive' = Cardinality(subs)
    /\ arg' = [arg EXCEPT ![t] = NoFilter]
    /\ Goto(t, "loop")
    /\ UNCHANGED <<req, stateVars, clientsConnected, savedSession, savedWill, channel,
                   routerVars, histVars>>

\* Mutants of Disconnect: the handler also removes the connection; it also
\* decrements the metric; it leaves the will where it is.
DisconnectDeregisters(t) ==
    /\ pc[t] = "loop"
    /\ online' = [online EXCEPT ![Cl(t)] = FALSE]
    /\ wills' = [wills EXCEPT ![Cl(t)] = NoConn]
    /\ connections' = [connections EXCEPT ![Cl(t)] = NoConn]
    /\ graceful' = graceful \union {t}
    /\ Goto(t, "saveNoWill")
    /\ UNCHANGED <<req, arg, session, subs, metricVars, savedVars, channel, routerVars,
                   published>>

DisconnectCounts(t) ==
    /\ pc[t] = "loop"
    /\ online' = [online EXCEPT ![Cl(t)] = FALSE]
    /\ wills' = [wills EXCEPT ![Cl(t)] = NoConn]
    /\ clientsConnected' = IF clientsConnected > 0 THEN clientsConnected - 1 ELSE 0
    /\ graceful' = graceful \union {t}
    /\ Goto(t, "saveNoWill")
    /\ UNCHANGED <<req, arg, session, connections, subs, subsActive, savedVars, channel,
                   routerVars, published>>

DisconnectLeavesWill(t) ==
    /\ pc[t] = "loop"
    /\ online' = [online EXCEPT ![Cl(t)] = FALSE]
    /\ graceful' = graceful \union {t}
    /\ Goto(t, "saveNoWill")
    /\ UNCHANGED <<req, arg, session, connections, wills, subs, metricVars, savedVars, channel,
                   routerVars, published>>

\* DISCONNECT drops the will stored under the client id, whoever stored it.
\* The task stays in its loop until the peer closes the stream.
Disconnect(t) ==
    /\ pc[t] = "loop"
    /\ online' = [online EXCEPT ![Cl(t)] = FALSE]
    /\ wills' = [wills EXCEPT ![Cl(t)] = NoConn]
    /\ graceful' = graceful \union {t}
    /\ Goto(t, "saveNoWill")
    /\ UNCHANGED <<req, arg, session, connections, subs, metricVars, savedVars, channel,
                   routerVars, published>>

FinishDisconnect(t) ==
    /\ pc[t] = "saveNoWill"
    /\ savedWill' = [savedWill EXCEPT ![Cl(t)] = NoConn]
    /\ Goto(t, "loop")
    /\ UNCHANGED <<req, arg, stateVars, metricVars, savedSession, savedSubs, channel,
                   routerVars, histVars>>

\* MQTT 5.0, reason "disconnect with will message": the will is kept.
DisconnectKeepWill(t) ==
    /\ pc[t] = "loop"
    /\ req[t].via = "ws5"
    /\ online' = [online EXCEPT ![Cl(t)] = FALSE]
    /\ UNCHANGED <<connVars, session, connections, wills, subs, metricVars, savedVars,
                   channel, routerVars, histVars>>

\* The select! of the loop takes a forwarded message and writes it out.
Forward(t) ==
    /\ pc[t] \in {"loop", "deaf"}
    /\ \E w \in channel[t] : channel' = [channel EXCEPT ![t] = @ \ {w}]
    /\ UNCHANGED <<connVars, stateVars, metricVars, savedVars, routerVars, histVars>>

-----------------------------------------------------------------------------
(* The end of a connection *)

\* Mutant of Deregister: the router is told before the cleanup, not after it.
DeregisterLate(t) ==
    /\ queue' = Append(queue, t)
    /\ channel' = [channel EXCEPT ![t] = {}]
    /\ Goto(t, "offline")
    /\ UNCHANGED <<req, arg, stateVars, metricVars, savedVars, rpc, firing, targets, histVars>>

\* What Step 8 of the handlers does first, after `break`.
Deregister(t) ==
    /\ connections' = [connections EXCEPT ![Cl(t)] = NoConn]
    /\ channel' = [channel EXCEPT ![t] = {}]
    /\ Goto(t, "offline")
    /\ UNCHANGED <<req, arg, session, online, wills, subs, metricVars, savedVars, routerVars,
                   histVars>>

\* End of stream, a malformed packet or a failed write of a forwarded message.
Break(t) == pc[t] = "loop" /\ Deregister(t)

\* The stream of a WebSocket ends without a Close frame: the pattern of the
\* select! branch no longer matches and the branch is disabled.
StreamEnds(t) ==
    /\ pc[t] = "loop"
    /\ req[t].via \in WebSocket
    /\ Goto(t, "deaf")
    /\ UNCHANGED <<req, arg, stateVars, metricVars, savedVars, channel, routerVars, histVars>>

\* Such a task ends when a forwarded message cannot be written, or through
\* `else => break` when its sender is gone from the connections map as well.
DeafBreak(t) ==
    /\ pc[t] = "deaf"
    /\ channel[t] # {} \/ connections[Cl(t)] # t
    /\ Deregister(t)

GoOffline(t) ==
    /\ pc[t] = "offline"
    /\ clientsConnected' = IF clientsConnected > 0 THEN clientsConnected - 1 ELSE 0
    /\ online' = [online EXCEPT ![Cl(t)] = FALSE]
    /\ Goto(t, "notify")
    /\ UNCHANGED <<req, arg, session, connections, wills, subs, subsActive, savedVars, channel,
                   routerVars, histVars>>

\* Mutant of Notify: no message is sent.
NotifyNobody(t) ==
    /\ pc[t] = "notify"
    /\ Goto(t, "done")
    /\ UNCHANGED <<req, arg, stateVars, metricVars, savedVars, channel, routerVars, histVars>>

Notify(t) ==
    /\ pc[t] = "notify"
    /\ queue' = Append(queue, t)
    /\ Goto(t, "done")
    /\ UNCHANGED <<req, arg, stateVars, metricVars, savedVars, channel, rpc, firing, targets,
                   histVars>>

\* An error returned by `?`: the CONNACK or a response cannot be written, or
\* a TCP read fails.  Nothing after the loop runs; the receiving end of the
\* channel is dropped.
ReturnError(t) ==
    /\ pc[t] \in {"connack", "loop"}
    /\ channel' = [channel EXCEPT ![t] = {}]
    /\ Goto(t, "leaked")
    /\ UNCHANGED <<req, arg, stateVars, metricVars, savedVars, routerVars, histVars>>

-----------------------------------------------------------------------------
(* The router: one message at a time; the message stays at the head of the *)
(* queue until its handling is complete                                    *)

Leaving == Cl(Head(queue))

\* Mutant of RouterTakeWill: the will is read and not removed.
RouterReadWill ==
    /\ rpc = "idle" /\ queue # <<>>
    /\ wills[Leaving] # NoConn
    /\ firing' = wills[Leaving]
    /\ targets' = {s[1] : s \in {x \in subs : x[2] \in WillFilter}}
    /\ rpc' = "fire"
    /\ UNCHANGED <<connVars, stateVars, metricVars, savedVars, channel, queue, histVars>>

RouterTakeWill ==
    /\ rpc = "idle" /\ queue # <<>>
    /\ wills[Leaving] # NoConn
    /\ firing' = wills[Leaving]
    /\ wills' = [wills EXCEPT ![Leaving] = NoConn]
    /\ targets' = {s[1] : s \in {x \in subs : x[2] \in WillFilter}}
    /\ rpc' = "fire"
    /\ UNCHANGED <<connVars, session, online, connections, subs, metricVars, savedVars, channel,
                   queue, histVars>>

RouterNoWill ==
    /\ rpc = "idle" /\ queue # <<>>
    /\ wills[Leaving] = NoConn
    /\ rpc' = "settle"
    /\ UNCHANGED <<connVars, stateVars, metricVars, savedVars, channel, queue, firing, targets,
                   histVars>>

\* Mutants of RouterFireWill: the will is not removed from the database; the
\* router keeps hold of the will.
RouterFireWillUnsaved ==
    /\ rpc = "fire"
    /\ published' = [published EXCEPT ![firing] = @ + 1]
    /\ firing' = NoConn
    /\ targets' = {}
    /\ rpc' = "settle"
    /\ UNCHANGED <<connVars, stateVars, metricVars, savedVars, channel, queue, graceful>>

RouterFireWillKept ==
    /\ rpc = "fire"
    /\ published' = [published EXCEPT ![firing] = @ + 1]
    /\ savedWill' = [savedWill EXCEPT ![Leaving] = NoConn]
    /\ rpc' = "settle"
    /\ UNCHANGED <<connVars, stateVars, metricVars, savedSession, savedSubs, channel, queue,
                   firing, targets, graceful>>

\* A send to a channel whose receiver is gone fails and is ignored.
RouterFireWill ==
    /\ rpc = "fire"
    /\ channel' = [t \in Conn |->
         IF pc[t] # "leaked" /\ \E c \in targets : connections[c] = t
         THEN channel[t] \union {firing} ELSE channel[t]]
    /\ published' = [published EXCEPT ![firing] = @ + 1]
    /\ savedWill' = [savedWill EXCEPT ![Leaving] = NoConn]
    /\ firing' = NoConn
    /\ targets' = {}
    /\ rpc' = "settle"
    /\ UNCHANGED <<connVars, stateVars, metricVars, savedSession, savedSubs, queue, graceful>>

\* Mutant of RouterUnsubscribeAll: the filters of the client are pruned from
\* the tree, whoever subscribed to them.
RouterPruneFilters ==
    /\ rpc = "settle"
    /\ req[Head(queue)].clean
    /\ subs' = {s \in subs : <<Leaving, s[2]>> \notin subs}
    /\ rpc' = "unsubscribed"
    /\ UNCHANGED <<connVars, session, online, connections, wills, metricVars, savedVars, channel,
                   queue, firing, targets, histVars>>

RouterUnsubscribeAll ==
    /\ rpc = "settle"
    /\ req[Head(queue)].clean
    /\ subs' = subs \ SubsOf(Leaving)
    /\ rpc' = "unsubscribed"
    /\ UNCHANGED <<connVars, session, online, connections, wills, metricVars, savedVars, channel,
                   queue, firing, targets, histVars>>

\* Mutant of RouterRemoveSession: the database keeps the subscriptions.
RouterRemoveSessionUnsaved ==
    /\ rpc = "unsubscribed"
    /\ session' = [session EXCEPT ![Leaving] = NoConn]
    /\ online' = [online EXCEPT ![Leaving] = FALSE]
    /\ rpc' = "removed"
    /\ UNCHANGED <<connVars, connections, wills, subs, metricVars, savedVars, channel, queue,
                   firing, targets, histVars>>

RouterRemoveSession ==
    /\ rpc = "unsubscribed"
    /\ savedSubs' = {s \in savedSubs : s[1] # Leaving}
    /\ session' = [session EXCEPT ![Leaving] = NoConn]
    /\ online' = [online EXCEPT ![Leaving] = FALSE]
    /\ rpc' = "removed"
    /\ UNCHANGED <<connVars, connections, wills, subs, metricVars, savedSession, savedWill,
                   channel, queue, firing, targets, histVars>>

RouterFinishClean ==
    /\ rpc = "removed"
    /\ savedSession' = [savedSession EXCEPT ![Leaving] = NoConn]
    /\ subsActive' = Cardinality(subs)
    /\ queue' = Tail(queue)
    /\ rpc' = "idle"
    /\ UNCHANGED <<connVars, stateVars, clientsConnected, savedWill, savedSubs, channel, firing,
                   targets, histVars>>

RouterKeepSession ==
    /\ rpc = "settle"
    /\ ~req[Head(queue)].clean
    /\ online' = [online EXCEPT ![Leaving] = FALSE]
    /\ queue' = Tail(queue)
    /\ rpc' = "idle"
    /\ UNCHANGED <<connVars, session, connections, wills, subs, metricVars, savedVars, channel,
                   firing, targets, histVars>>

-----------------------------------------------------------------------------
\* POST /api/clients/{id}/disconnect: clears the flag of the session, no more.
DisconnectClient(c) ==
    /\ session[c] # NoConn
    /\ online' = [online EXCEPT ![c] = FALSE]
    /\ UNCHANGED <<connVars, session, connections, wills, subs, metricVars, savedVars, channel,
                   routerVars, histVars>>

-----------------------------------------------------------------------------
\* Steps a task takes by itself once it runs.
TaskStep(t) ==
    \/ StoreWill(t) \/ SaveWill(t) \/ SaveSession(t)
    \/ FinishSubscribe(t) \/ FinishUnsubscribe(t) \/ FinishDisconnect(t)
    \/ DeafBreak(t) \/ GoOffline(t) \/ Notify(t)

Packet(t) ==
    \/ \E f \in Filter : Subscribe(t, f) \/ Unsubscribe(t, f)
    \/ Disconnect(t) \/ DisconnectKeepWill(t)

PeerStep(t) ==
    \/ Refuse(t)
    \/ \E r \in Request : Connect(t, r)
    \/ Register(t) \/ Packet(t) \/ Forward(t)
    \/ Break(t) \/ StreamEnds(t) \/ ReturnError(t)

RouterStep ==
    \/ RouterTakeWill \/ RouterNoWill \/ RouterFireWill
    \/ RouterUnsubscribeAll \/ RouterRemoveSession \/ RouterFinishClean \/ RouterKeepSession

Next ==
    \/ \E t \in Conn : TaskStep(t) \/ PeerStep(t)
    \/ RouterStep
    \/ \E c \in Client : DisconnectClient(c)

Spec == Init /\ [][Next]_vars

\* tokio runs every task that can run; nothing is assumed of the peers.
Fairness == WF_vars(RouterStep) /\ \A t \in Conn : WF_vars(TaskStep(t))

FairSpec == Spec /\ Fairness

-----------------------------------------------------------------------------
(***************************************************************************)
(* Properties that hold whenever client ids are presented (Reconnect =     *)
(* "any"): a second connection may take a client id over at any step.      *)
(***************************************************************************)

\* Connections that are counted in the metric: those that have not run
\* decrement_clients_connected, the ones an error took out included.
Counted == {t \in Conn : pc[t] \in (Live \ {"notify"}) \union {"leaked"}}

\* The clients_connected metric is the number of connections that have not
\* deregistered, whatever the order of takeovers, errors and cleanups: the
\* saturating decrement never saturates.
CountMatches == clientsConnected = Cardinality(Counted)

\* Tasks that have changed the tree and not yet updated the metric.
CountPending == (\E t \in Conn : pc[t] \in {"subscribed", "unsubscribed"})
                \/ rpc \in {"unsubscribed", "removed"}

\* The subscriptions_active metric equals the size of the tree as soon as
\* nobody is between changing the tree and updating the metric: an update
\* computed from an older tree never overwrites a newer one.
SubsActiveFresh == ~CountPending => subsActive = Cardinality(subs)

\* A will is published at most once, whichever ClientDisconnected of its
\* client id gets to it first.
WillAtMostOnce == \A t \in Conn :
    published[t] + (IF firing = t THEN 1 ELSE 0) <= 1

(***************************************************************************)
(* Properties that rest on Reconnect = "drained".                          *)
(***************************************************************************)

\* A connection in its packet loop is the one the connections map leads to:
\* no cleanup left over from an earlier connection takes its entry away.
\* (This one needs no more than Reconnect = "sequential".)
Reachable == \A t \in Conn : pc[t] \in Serving => connections[Cl(t)] = t

\* As long as a task runs, the session of its client id is the one that its
\* own CONNECT made.
SessionOwned == \A t \in Conn : pc[t] \in Live => session[Cl(t)] = t

\* A client id is served by one task at a time.
OneTaskPerClient == \A t, u \in Conn :
    pc[t] \in Live /\ pc[u] \in Live /\ Cl(t) = Cl(u) => t = u

\* A will is taken out of the map and published only after the connection
\* that set it has ended.
WillOnlyAfterEnd == \A t \in Conn :
    published[t] > 0 \/ firing = t => pc[t] \in Ended

\* The will of a connection that sent DISCONNECT is never published.
NoWillAfterDisconnect == \A t \in graceful : published[t] = 0 /\ firing # t

\* Nobody is between a change of c's state in memory and the persistence
\* event that records it.
Quiet(c) ==
    /\ \A t \in LiveOf(c) : pc[t] \notin {"will", "saveWill", "save", "subscribed", "unsubscribed",
                                          "saveNoWill"}
    /\ rpc # "idle" => Leaving # c

\* What the persistence events sent so far leave on disk is what is in
\* memory: the session, the will and the subscriptions of every client that
\* no handler is working on.
SavedMatches == \A c \in Client : Quiet(c) =>
    /\ savedSession[c] = session[c]
    /\ savedWill[c] = wills[c]
    /\ {s \in savedSubs : s[1] = c} = SubsOf(c)

\* The router, when it cleans up after one connection, leaves everything of
\* a client with a running task alone: session, will, subscriptions, flag.
RouterSparesLive == [][RouterStep => \A c \in Client : LiveOf(c) # {} =>
    /\ session'[c] = session[c] /\ online'[c] = online[c] /\ wills'[c] = wills[c]
    /\ SubsOf(c)' = SubsOf(c)]_vars

\* Connection t is closing and its will, or its clean session, is still there.
ClosesWithWill(t) == pc[t] = "offline" /\ wills[Cl(t)] = t
ClosesClean(t) == pc[t] = "offline" /\ req[t].clean

\* Neither memory nor disk has the session of t or a subscription of its client.
Forgotten(t) == pc[t] = "done" /\ Cl(t) \notin
    {s[1] : s \in subs \union savedSubs} \union {c \in Client : t \in {session[c], savedSession[c]}}

\* An abrupt end (the loop is left by `break`) with a will stored has the
\* will published by the router in the end.
AbruptEndPublishesWill == \A t \in Conn : ClosesWithWill(t) ~> published[t] = 1

\* After a clean-session connection ends, a moment comes when neither memory
\* nor disk knows its session or any subscription of its client.
CleanEndForgets == \A t \in Conn : ClosesClean(t) ~> Forgotten(t)

(***************************************************************************)
(* The contract of wills, see WillContract, which the broker implements    *)
(* when Reconnect = "drained".                                             *)
(***************************************************************************)
ClientOf(t) == IF req[t] = NoRequest THEN NoRequest ELSE Cl(t)

PhaseOf(t) == CASE pc[t] = "new" -> "before"
                [] pc[t] \in Live -> "up"
                [] pc[t] \in Ended -> "down"

WillOf(t) ==
    CASE published[t] > 0 -> "published"
      [] published[t] = 0 /\ (firing = t \/ \E c \in Client : wills[c] = t) -> "armed"
      [] OTHER -> IF req[t] # NoRequest /\ req[t].will /\ req[t].via \notin WebSocket
                     /\ pc[t] # "will"
                  THEN "dropped" ELSE "none"

Contract == INSTANCE WillContract WITH
    NoClient <- NoRequest,
    of <- [t \in Conn |-> ClientOf(t)],
    phase <- [t \in Conn |-> PhaseOf(t)],
    will <- [t \in Conn |-> WillOf(t)]

\* The broker implements the contract.
ImplementsContract == Contract!Spec
=============================================================================
