------------------------------ MODULE Retained ------------------------------
(***************************************************************************)
(* Publishing and the retained store.  A PUBLISH is first sent to the      *)
(* router and then, when it is to be retained, stored by the task that     *)
(* received it: a connection of the broker (process_packet in              *)
(* mqtt-broker/src/server.rs), which also sends a persistence event, or a  *)
(* call of POST /api/publish (mqtt-web/src/api.rs), which does not.  The   *)
(* router, a task of its own, forwards every message to the subscribers it *)
(* looks up and stores the retained ones again.  Wills take the router's   *)
(* half of that path.  DELETE /api/retained removes a stored message.      *)
(*                                                                         *)
(* A filter stands for the set of topics it matches (SubscriptionTree is   *)
(* about matching), a message for its position in the log of everything    *)
(* that was ever put into the router's channel.  Subscribers stay          *)
(* connected.  A PUBLISH or SUBSCRIBE that the ACL denies changes nothing. *)
(***************************************************************************)
EXTENDS Naturals, Sequences, FiniteSets

CONSTANTS
    Publisher,     \* connections that publish
    Api,           \* HTTP requests being served
    Subscriber,    \* connections that subscribe
    Topic,
    Filter,        \* sets of topics
    Broker,        \* in whose name wills are published
    WillTopic,     \* the topics they are published to
    MaxLog         \* bound: messages ever published

ASSUME FilterAssumption == Filter \subseteq SUBSET Topic /\ WillTopic \subseteq Topic
ASSUME SourceAssumption == Publisher \intersect Api = {} /\ Broker \notin Publisher \union Api

VARIABLES
    log,           \* everything sent to the router
    routed,        \* how much of it the router has finished
    rpc,           \* where the router is in the message after that
    todo,          \* subscriptions it still has to forward that message to
    pc,            \* where a publisher or an HTTP request is
    cur,           \* what it works on: its last message, or a topic
    retained,      \* retained: the message stored for a topic, or 0
    saved,         \* retained_messages on disk, as the sent events add up
    subs,          \* the subscription tree: pairs of subscriber and filter
    scan,          \* topics whose retained message a SUBSCRIBE has yet to look at
    inbox,         \* what was ever put into the channel of a subscriber
    owed,          \* history: (message, subscription) due since the message was sent
    promised,      \* history: (message, subscriber) due since it subscribed
    doomed,        \* history: messages that a DELETE in progress is to remove
    gone,          \* history: messages that were removed by a finished DELETE
    deleted        \* history: topics that a DELETE was made for

taskVars == <<pc, cur>>
storeVars == <<retained, saved>>
routerVars == <<log, routed, rpc, todo>>
subVars == <<subs, scan, inbox>>
histVars == <<owed, promised, doomed, gone, deleted>>
vars == <<taskVars, storeVars, routerVars, subVars, histVars>>

Task == Publisher \union Api
Message == [topic : Topic, by : Task \union {Broker}, retain : BOOLEAN, empty : BOOLEAN]
NoMessage == 0

TypeOK ==
    /\ log \in Seq(Message)
    /\ routed \in 0 .. Len(log)
    /\ rpc \in {"idle", "forward"}
    /\ rpc = "forward" => routed < Len(log)
    /\ todo \subseteq Subscriber \X Filter
    /\ pc \in [Task -> {"idle", "store", "save", "remove", "forget"}]
    /\ cur \in [Task -> Nat \union Topic]
    /\ \A k \in Task : pc[k] \in {"store", "save"} => cur[k] \in 1 .. Len(log)
    /\ retained \in [Topic -> 0 .. Len(log)]
    /\ saved \in [Topic -> 0 .. Len(log)]
    /\ subs \subseteq Subscriber \X Filter
    /\ scan \in [Subscriber -> SUBSET Topic]
    /\ inbox \in [Subscriber -> SUBSET [id : 1 .. Len(log), retain : BOOLEAN]]
    /\ owed \subseteq (1 .. Len(log)) \X Subscriber \X Filter
    /\ promised \subseteq (1 .. Len(log)) \X Subscriber
    /\ doomed \in [Api -> SUBSET (1 .. Len(log))]
    /\ gone \subseteq 1 .. Len(log)
    /\ deleted \subseteq Topic

Init ==
    /\ log = <<>> /\ routed = 0 /\ rpc = "idle" /\ todo = {}
    /\ pc = [k \in Task |-> "idle"] /\ cur = [k \in Task |-> NoMessage]
    /\ retained = [t \in Topic |-> NoMessage]
    /\ saved = [t \in Topic |-> NoMessage]
    /\ subs = {} /\ scan = [s \in Subscriber |-> {}] /\ inbox = [s \in Subscriber |-> {}]
    /\ owed = {} /\ promised = {} /\ doomed = [a \in Api |-> {}] /\ gone = {} /\ deleted = {}

-----------------------------------------------------------------------------
(* Helpers *)

Goto(k, l) == pc' = [pc EXCEPT ![k] = l]

\* The subscriptions that match topic t.
Matching(t) == {x \in subs : t \in x[2]}

\* What a subscriber is sent for topic t: an empty payload is a delete marker.
Effective(t) ==
    IF retained[t] # NoMessage /\ ~log[retained[t]].empty THEN retained[t] ELSE NoMessage

\* Tasks that are in the middle of storing or removing a message of topic t.
WorkingOn(t) == {k \in Task :
    \/ pc[k] \in {"store", "save"} /\ log[cur[k]].topic = t
    \/ pc[k] \in {"remove", "forget"} /\ cur[k] = t}

\* Nothing is on its way that could change what is retained for t.
Settled(t) ==
    /\ WorkingOn(t) = {}
    /\ \A i \in DOMAIN log : log[i].topic = t => i <= routed

\* The channel to the router takes message m.
Send(m) ==
    /\ Len(log) < MaxLog
    /\ log' = Append(log, m)
    /\ owed' = owed \union {<<Len(log) + 1, x[1], x[2]>> : x \in Matching(m.topic)}
    /\ UNCHANGED <<routed, rpc, todo, storeVars, subVars, promised, doomed, gone, deleted>>

-----------------------------------------------------------------------------
(* A connection handles PUBLISH *)

\* Mutant of Publish: the task goes on with the message before its own.
PublishBefore(p, t, retain, empty) ==
    /\ pc[p] = "idle"
    /\ Send([topic |-> t, by |-> p, retain |-> retain, empty |-> empty])
    /\ cur' = [cur EXCEPT ![p] = Len(log)]
    /\ Goto(p, IF retain THEN "store" ELSE "idle")

Publish(p, t, retain, empty) ==
    /\ pc[p] = "idle"
    /\ Send([topic |-> t, by |-> p, retain |-> retain, empty |-> empty])
    /\ cur' = [cur EXCEPT ![p] = Len(log) + 1]
    /\ Goto(p, IF retain THEN "store" ELSE "idle")

\* An empty payload removes what is stored.
Store(p) ==
    /\ pc[p] = "store"
    /\ LET m == log[cur[p]]
       IN  retained' = [retained EXCEPT ![m.topic] = IF m.empty THEN NoMessage ELSE cur[p]]
    /\ Goto(p, "save")
    /\ UNCHANGED <<cur, saved, routerVars, subVars, histVars>>

\* Mutant of Save: no event is sent for a removal.
SaveOnlyMessages(p) ==
    /\ pc[p] = "save"
    /\ LET m == log[cur[p]]
       IN  saved' = [saved EXCEPT ![m.topic] = IF m.empty THEN @ ELSE cur[p]]
    /\ Goto(p, "idle")
    /\ UNCHANGED <<cur, retained, routerVars, subVars, histVars>>

\* SaveRetained or RemoveRetained is sent, and PUBACK or PUBREC returned.
Save(p) ==
    /\ pc[p] = "save"
    /\ LET m == log[cur[p]]
       IN  saved' = [saved EXCEPT ![m.topic] = IF m.empty THEN NoMessage ELSE cur[p]]
    /\ Goto(p, "idle")
    /\ UNCHANGED <<cur, retained, routerVars, subVars, histVars>>

-----------------------------------------------------------------------------
(* The HTTP interface *)

\* POST /api/publish: a message without payload is left to the router.
ApiPublish(a, t, retain, empty) ==
    /\ pc[a] = "idle"
    /\ Send([topic |-> t, by |-> a, retain |-> retain, empty |-> empty])
    /\ cur' = [cur EXCEPT ![a] = Len(log) + 1]
    /\ Goto(a, IF retain /\ ~empty THEN "store" ELSE "idle")

\* Stored, and no persistence event sent.
ApiStore(a) ==
    /\ pc[a] = "store"
    /\ retained' = [retained EXCEPT ![log[cur[a]].topic] = cur[a]]
    /\ Goto(a, "idle")
    /\ UNCHANGED <<cur, saved, routerVars, subVars, histVars>>

\* DELETE /api/retained/{topic}: nothing is done for a topic without a message.
DeleteRetained(a, t) ==
    /\ pc[a] = "idle"
    /\ retained[t] # NoMessage
    /\ cur' = [cur EXCEPT ![a] = t]
    /\ doomed' = [doomed EXCEPT ![a] =
           {i \in DOMAIN log : log[i].topic = t
               /\ \A k \in Task : pc[k] \in {"store", "save"} => cur[k] # i}]
    /\ deleted' = deleted \union {t}
    /\ Goto(a, "remove")
    /\ UNCHANGED <<storeVars, routerVars, subVars, owed, promised, gone>>

RemoveRetained(a) ==
    /\ pc[a] = "remove"
    /\ retained' = [retained EXCEPT ![cur[a]] = NoMessage]
    /\ promised' = {p \in promised : log[p[1]].topic # cur[a]}
    /\ Goto(a, "forget")
    /\ UNCHANGED <<cur, saved, routerVars, subVars, owed, doomed, gone, deleted>>

ForgetRetained(a) ==
    /\ pc[a] = "forget"
    /\ saved' = [saved EXCEPT ![cur[a]] = NoMessage]
    /\ gone' = gone \union doomed[a]
    /\ doomed' = [doomed EXCEPT ![a] = {}]
    /\ Goto(a, "idle")
    /\ UNCHANGED <<cur, retained, routerVars, subVars, owed, promised, deleted>>

-----------------------------------------------------------------------------
(* The router *)

\* A connection has ended and left a will.
FireWill(t, retain, empty) ==
    /\ Send([topic |-> t, by |-> Broker, retain |-> retain, empty |-> empty])
    /\ UNCHANGED taskVars

Current == log[routed + 1]

RouterLookup ==
    /\ rpc = "idle" /\ routed < Len(log)
    /\ todo' = Matching(Current.topic)
    /\ rpc' = "forward"
    /\ UNCHANGED <<log, routed, taskVars, storeVars, subVars, histVars>>

\* Into the channel of one subscriber, once for each of its subscriptions.
RouterForward == \E x \in todo :
    /\ rpc = "forward"
    /\ inbox' = [inbox EXCEPT ![x[1]] = @ \union {[id |-> routed + 1, retain |-> FALSE]}]
    /\ todo' = todo \ {x}
    /\ owed' = owed \ {<<routed + 1, x[1], x[2]>>}
    /\ UNCHANGED <<log, routed, rpc, taskVars, storeVars, subs, scan, promised, doomed, gone, deleted>>

\* Mutant of RouterRetain: a message without payload is not stored.
RouterRetainPayload ==
    /\ rpc = "forward" /\ todo = {}
    /\ retained' = IF Current.retain /\ ~Current.empty
                   THEN [retained EXCEPT ![Current.topic] = routed + 1] ELSE retained
    /\ routed' = routed + 1
    /\ rpc' = "idle"
    /\ UNCHANGED <<log, todo, taskVars, saved, subVars, histVars>>

\* The message is stored (again), whatever its payload, and is done with.
RouterRetain ==
    /\ rpc = "forward" /\ todo = {}
    /\ retained' = IF Current.retain
                   THEN [retained EXCEPT ![Current.topic] = routed + 1] ELSE retained
    /\ routed' = routed + 1
    /\ rpc' = "idle"
    /\ UNCHANGED <<log, todo, taskVars, saved, subVars, histVars>>

-----------------------------------------------------------------------------
(* Subscribers *)

\* Into the tree first, then a look at every retained message.
Subscribe(s, f) ==
    /\ scan[s] = {}
    /\ subs' = subs \union {<<s, f>>}
    /\ scan' = [scan EXCEPT ![s] = f]
    /\ promised' = promised \union
           {<<Effective(t), s>> : t \in {u \in f : Settled(u) /\ Effective(u) # NoMessage}}
    /\ UNCHANGED <<taskVars, storeVars, routerVars, inbox, owed, doomed, gone, deleted>>

\* Mutant of SendRetained: the scan ends at a delete marker.
SendRetainedStops(s, t) ==
    /\ t \in scan[s]
    /\ scan' = [scan EXCEPT ![s] =
           IF retained[t] # NoMessage /\ Effective(t) = NoMessage THEN {} ELSE @ \ {t}]
    /\ inbox' = IF Effective(t) = NoMessage THEN inbox
                ELSE [inbox EXCEPT ![s] = @ \union {[id |-> Effective(t), retain |-> TRUE]}]
    /\ UNCHANGED <<taskVars, storeVars, routerVars, subs, histVars>>

\* The entry is locked while its message is sent.
SendRetained(s, t) ==
    /\ t \in scan[s]
    /\ scan' = [scan EXCEPT ![s] = @ \ {t}]
    /\ inbox' = IF Effective(t) = NoMessage THEN inbox
                ELSE [inbox EXCEPT ![s] = @ \union {[id |-> Effective(t), retain |-> TRUE]}]
    /\ UNCHANGED <<taskVars, storeVars, routerVars, subs, histVars>>

\* Mutant of Unsubscribe: every subscription of the client is removed.
UnsubscribeAll(s, f) ==
    /\ scan[s] = {}
    /\ subs' = {x \in subs : x[1] # s}
    /\ owed' = {o \in owed : ~(o[2] = s /\ o[3] = f)}
    /\ promised' = {p \in promised : ~(p[2] = s /\ log[p[1]].topic \in f)}
    /\ UNCHANGED <<taskVars, storeVars, routerVars, scan, inbox, doomed, gone, deleted>>

Unsubscribe(s, f) ==
    /\ scan[s] = {}
    /\ subs' = subs \ {<<s, f>>}
    /\ owed' = {o \in owed : ~(o[2] = s /\ o[3] = f)}
    /\ promised' = {p \in promised : ~(p[2] = s /\ log[p[1]].topic \in f)}
    /\ UNCHANGED <<taskVars, storeVars, routerVars, scan, inbox, doomed, gone, deleted>>

-----------------------------------------------------------------------------
PublisherStep(p) ==
    \/ \E t \in Topic, retain, empty \in BOOLEAN : Publish(p, t, retain, empty)
    \/ Store(p) \/ Save(p)

ApiStep(a) ==
    \/ \E t \in Topic, retain, empty \in BOOLEAN : ApiPublish(a, t, retain, empty)
    \/ ApiStore(a)
    \/ \E t \in Topic : DeleteRetained(a, t)
    \/ RemoveRetained(a) \/ ForgetRetained(a)

RouterStep == RouterLookup \/ RouterForward \/ RouterRetain

SubscriberStep(s) ==
    \/ \E f \in Filter : Subscribe(s, f) \/ Unsubscribe(s, f)
    \/ \E t \in Topic : SendRetained(s, t)

Next ==
    \/ \E p \in Publisher : PublisherStep(p)
    \/ \E a \in Api : ApiStep(a)
    \/ \E t \in WillTopic, retain, empty \in BOOLEAN : FireWill(t, retain, empty)
    \/ RouterStep
    \/ \E s \in Subscriber : SubscriberStep(s)

Spec == Init /\ [][Next]_vars

-----------------------------------------------------------------------------
\* The retained publications of topic t, and who made them.
RetainedOn(t) == {i \in DOMAIN log : log[i].topic = t /\ log[i].retain}
SourcesOf(t) == {log[i].by : i \in RetainedOn(t)}

\* The last of them, or none when it removes the message.
LastOn(t) ==
    IF RetainedOn(t) = {} THEN NoMessage
    ELSE LET i == CHOOSE j \in RetainedOn(t) : \A k \in RetainedOn(t) : k <= j
         IN  IF log[i].empty THEN NoMessage ELSE i

\* All of them were made by one connection, and none was deleted.
OneSource(t) ==
    /\ Cardinality(SourcesOf(t)) <= 1 /\ SourcesOf(t) \subseteq Publisher
    /\ t \notin deleted

\* Two tasks store every retained message, in no particular order.  Once
\* both are done with a topic that one connection publishes to, the message
\* a new subscriber gets is the last one published, and none if that was a
\* removal.
RetainedSettles == \A t \in Topic : OneSource(t) /\ Settled(t) => Effective(t) = LastOn(t)

\* So is the one on disk, without waiting for the router.
SavedSettles == \A t \in Topic : OneSource(t) /\ WorkingOn(t) = {} => saved[t] = LastOn(t)

\* A message sent to the router when a subscription was in the tree has been
\* forwarded to it when the router is done, unless it was cancelled.
SubscribedGetsAll == \A o \in owed : o[1] > routed

\* A subscriber that comes when a topic is settled gets the message retained
\* for it, or one published to the topic since, unless the message is deleted
\* or the subscription cancelled in between.
SettledReaches == \A p \in promised : LET t == log[p[1]].topic IN
    t \notin scan[p[2]] /\ Settled(t) =>
        \E m \in inbox[p[2]] : m.id >= p[1] /\ log[m.id].topic = t

\* Doc/web-api.md, 1.9: after a message has been deleted, new subscribers do
\* not get it any more.
DeletedNotDelivered == [][\A s \in Subscriber, t \in Topic :
    SendRetained(s, t) => Effective(t) \notin gone]_vars
=============================================================================
