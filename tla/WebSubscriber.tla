---------------------------- MODULE WebSubscriber ----------------------------
(***************************************************************************)
(* Dashboard subscribers over GET /ws/subscribe (mqtt-web/src/api.rs).     *)
(* The task of each one (handle_ws_session) waits in a select! for a       *)
(* command of its browser or for a message that the router has put in its  *)
(* channel, and leaves the loop on a Close frame or when it cannot write.  *)
(* The router (mqtt-broker/src/server.rs) looks the subscriptions of a     *)
(* message up in the tree and then finds the channel of each subscriber in *)
(* the map web_subscribers.                                                *)
(*                                                                         *)
(* A filter is the set of the topics it matches; what a client that speaks *)
(* MQTT is sent is the subject of Retained.  The ids of the tasks, made of *)
(* eight digits of a UUID, are taken to be distinct.  Commands that only   *)
(* have an answer (ping, an unknown one, invalid JSON) are one, "other".   *)
(***************************************************************************)
EXTENDS Integers, Sequences, SequencesExt, FiniteSets

CONSTANTS
    Dashboard,     \* the subscribers
    Topic,
    Filter,        \* sets of topics
    MaxLog,        \* bound: messages published
    MaxCommands    \* bound: frames the browsers send, all together

ASSUME FilterAssumption == Filter \subseteq SUBSET Topic
ASSUME BoundAssumption == MaxLog \in Nat /\ MaxCommands \in Nat

Command ==
    [type : {"subscribe", "unsubscribe"}, filter : Filter]
    \union [type : {"other", "close"}, filter : {{}}]

VARIABLES
    pc,            \* where the task of each dashboard is
    cur,           \* the command it works on
    active,        \* active_subscriptions
    input,         \* frames on their way to it
    sentCommands,  \* how many frames the browsers have sent
    eof,           \* its stream has ended, after these frames
    reads,         \* its browser reads what is written
    tree,          \* the subscription tree
    registered,    \* keys of web_subscribers
    channel,       \* fwd_tx to fwd_rx, messages by their number
    shown,         \* messages written to the browser
    log,           \* topics of the messages published, oldest first
    looked,        \* how many of them the router has looked up
    todo,          \* subscriptions it has still to serve
    told,          \* history: filters a browser knows to be in force
    due            \* history: <<message, filter>>: published while the filter was in
                   \* told, which it has been ever since

taskVars == <<pc, cur, active>>
browserVars == <<input, sentCommands, eof, reads>>
routerVars == <<log, looked, todo>>
vars == <<taskVars, browserVars, tree, registered, channel, shown, routerVars, told, due>>

NoCommand == [type |-> "none", filter |-> {}]
Subscription == Dashboard \X Filter
Msg == 1 .. Len(log)

Init ==
    /\ pc = [d \in Dashboard |-> "select"]
    /\ cur = [d \in Dashboard |-> NoCommand]
    /\ active = [d \in Dashboard |-> {}]
    /\ input = [d \in Dashboard |-> <<>>]
    /\ sentCommands = 0
    /\ eof = [d \in Dashboard |-> FALSE]
    /\ reads = [d \in Dashboard |-> TRUE]
    /\ tree = {} /\ registered = {}
    /\ channel = [d \in Dashboard |-> <<>>]
    /\ shown = [d \in Dashboard |-> <<>>]
    /\ log = <<>> /\ looked = 0 /\ todo = {}
    /\ told = [d \in Dashboard |-> {}]
    /\ due = [d \in Dashboard |-> {}]

-----------------------------------------------------------------------------
(* Browsers *)

Cancels(c, f) == c.type = "close" \/ (c.type = "unsubscribe" /\ c.filter = f)

\* What a browser expects no more.
Give(d, filters) ==
    /\ told' = [told EXCEPT ![d] = @ \ filters]
    /\ due' = [due EXCEPT ![d] = {m \in @ : m[2] \notin filters}]

\* A browser sends a frame; Close is its last one.
SendCommand(d) ==
    /\ ~eof[d] /\ sentCommands < MaxCommands
    /\ \E c \in Command :
         /\ input' = [input EXCEPT ![d] = Append(@, c)]
         /\ eof' = [eof EXCEPT ![d] = c.type = "close"]
         /\ Give(d, {f \in Filter : Cancels(c, f)})
    /\ sentCommands' = sentCommands + 1
    /\ UNCHANGED <<taskVars, reads, tree, registered, channel, shown, routerVars>>

\* The stream ends without a Close frame.
HangUp(d) ==
    /\ ~eof[d]
    /\ eof' = [eof EXCEPT ![d] = TRUE]
    /\ Give(d, Filter)
    /\ UNCHANGED <<taskVars, input, sentCommands, reads, tree, registered, channel, shown,
                   routerVars>>

\* From then on, at some time, writing to the browser fails.
StopReading(d) ==
    /\ eof[d] /\ reads[d]
    /\ reads' = [reads EXCEPT ![d] = FALSE]
    /\ UNCHANGED <<taskVars, input, sentCommands, eof, tree, registered, channel, shown,
                   routerVars, told, due>>

-----------------------------------------------------------------------------
(* The task of a dashboard: the select! and its two branches *)

Goto(d, from, to) == pc[d] = from /\ pc' = [pc EXCEPT ![d] = to]

NextIs(d, type) == input[d] # <<>> /\ Head(input[d]).type = type
Take(d) ==
    /\ input' = [input EXCEPT ![d] = Tail(@)]
    /\ UNCHANGED <<sentCommands, eof, reads>>

\* Mutant of Subscribe: the answer is written before the channel is registered.
SubscribeAnswersFirst(d) ==
    /\ NextIs(d, "subscribe") /\ Take(d)
    /\ Goto(d, "select", "register")
    /\ cur' = [cur EXCEPT ![d] = Head(input[d])]
    /\ tree' = tree \union {<<d, Head(input[d]).filter>>}
    /\ told' = [told EXCEPT ![d] =
                  @ \union IF eof[d] \/ \E i \in 2 .. Len(input[d]) : input[d][i].type = "unsubscribe"
                           THEN {} ELSE {Head(input[d]).filter}]
    /\ UNCHANGED <<active, registered, channel, shown, routerVars, due>>

\* "subscribe": the tree first, then the map and the list, then the answer.
Subscribe(d) ==
    /\ NextIs(d, "subscribe") /\ Take(d)
    /\ Goto(d, "select", "register")
    /\ cur' = [cur EXCEPT ![d] = Head(input[d])]
    /\ tree' = tree \union {<<d, Head(input[d]).filter>>}
    /\ UNCHANGED <<active, registered, channel, shown, routerVars, told, due>>

Register(d) ==
    /\ Goto(d, "register", "reply")
    /\ registered' = registered \union {d}
    /\ active' = [active EXCEPT ![d] = @ \union {cur[d].filter}]
    /\ UNCHANGED <<cur, browserVars, tree, channel, shown, routerVars, told, due>>

\* The answer tells the browser that the filter is in force, unless it has
\* cancelled it meanwhile.  An error in writing it is ignored.
Reply(d) ==
    /\ Goto(d, "reply", "select")
    /\ LET f == cur[d].filter
           cancelled == eof[d] \/ \E i \in DOMAIN input[d] : Cancels(input[d][i], f)
       IN  told' = [told EXCEPT ![d] =
                      IF cur[d].type = "subscribe" /\ ~cancelled THEN @ \union {f} ELSE @]
    /\ cur' = [cur EXCEPT ![d] = NoCommand]
    /\ UNCHANGED <<active, browserVars, tree, registered, channel, shown, routerVars, due>>

Unsubscribe(d) ==
    /\ NextIs(d, "unsubscribe") /\ Take(d)
    /\ Goto(d, "select", "reply")
    /\ cur' = [cur EXCEPT ![d] = Head(input[d])]
    /\ tree' = tree \ {<<d, Head(input[d]).filter>>}
    /\ active' = [active EXCEPT ![d] = @ \ {Head(input[d]).filter}]
    /\ UNCHANGED <<registered, channel, shown, routerVars, told, due>>

\* A frame that is only answered.
Other(d) ==
    /\ NextIs(d, "other") /\ Take(d)
    /\ Goto(d, "select", "select")
    /\ UNCHANGED <<cur, active, tree, registered, channel, shown, routerVars, told, due>>

Close(d) ==
    /\ NextIs(d, "close") /\ Take(d)
    /\ Goto(d, "select", "cleanup")
    /\ UNCHANGED <<cur, active, tree, registered, channel, shown, routerVars, told, due>>

\* Mutant of Forward: an error in writing is ignored, as it is for answers.
ForwardIgnoresErrors(d) ==
    /\ channel[d] # <<>>
    /\ channel' = [channel EXCEPT ![d] = Tail(@)]
    /\ Goto(d, "select", "select")
    /\ shown' = [shown EXCEPT ![d] = IF reads[d] THEN Append(@, Head(channel[d])) ELSE @]
    /\ UNCHANGED <<cur, active, browserVars, tree, registered, routerVars, told, due>>

\* The other branch: a message is written, or cannot be and ends the loop.  When
\* the stream has ended this is the only branch left: the task keeps a sender of
\* its own channel, so that the `else` of the select! is never taken.
Forward(d) ==
    /\ channel[d] # <<>>
    /\ channel' = [channel EXCEPT ![d] = Tail(@)]
    /\ IF reads[d]
       THEN /\ Goto(d, "select", "select")
            /\ shown' = [shown EXCEPT ![d] = Append(@, Head(channel[d]))]
       ELSE Goto(d, "select", "cleanup") /\ UNCHANGED shown
    /\ UNCHANGED <<cur, active, browserVars, tree, registered, routerVars, told, due>>

\* The clean-up takes the tree's lock once for each filter; here `active` is
\* what is left of the list.
CleanUp(d) ==
    /\ Goto(d, "cleanup", "cleanup")
    /\ \E f \in active[d] :
         /\ tree' = tree \ {<<d, f>>}
         /\ active' = [active EXCEPT ![d] = @ \ {f}]
    /\ UNCHANGED <<cur, browserVars, registered, channel, shown, routerVars, told, due>>

\* Mutant of Deregister: one filter is cleaned up, and then the map.
DeregisterEarly(d) ==
    /\ Goto(d, "cleanup", "gone")
    /\ registered' = registered \ {d}
    /\ channel' = [channel EXCEPT ![d] = <<>>]
    /\ UNCHANGED <<cur, active, browserVars, tree, shown, routerVars, told, due>>

\* The receiving end goes with the task.
Deregister(d) ==
    /\ active[d] = {}
    /\ Goto(d, "cleanup", "gone")
    /\ registered' = registered \ {d}
    /\ channel' = [channel EXCEPT ![d] = <<>>]
    /\ UNCHANGED <<cur, active, browserVars, tree, shown, routerVars, told, due>>

TaskStep(d) ==
    \/ Subscribe(d) \/ Register(d) \/ Reply(d) \/ Unsubscribe(d)
    \/ Other(d) \/ Close(d) \/ Forward(d) \/ CleanUp(d) \/ Deregister(d)

-----------------------------------------------------------------------------
(* The router *)

\* Someone publishes.
Publish(t) ==
    /\ Len(log) < MaxLog
    /\ log' = Append(log, t)
    /\ due' = [d \in Dashboard |->
                 due[d] \union {<<Len(log) + 1, f>> : f \in {g \in told[d] : t \in g}}]
    /\ UNCHANGED <<taskVars, browserVars, tree, registered, channel, shown, looked, todo, told>>

\* One subscription of each subscriber.
Dedup(subs) == {CHOOSE e \in subs : e[1] = d : d \in {e[1] : e \in subs}}
Matching(t) == {e \in tree : t \in e[2]}

RouterLookup ==
    /\ todo = {} /\ looked < Len(log)
    /\ looked' = looked + 1
    /\ todo' = Dedup(Matching(log[looked + 1]))
    /\ UNCHANGED <<taskVars, browserVars, tree, registered, channel, shown, log, told, due>>

\* The channel of a subscriber that has left, or has not come that far, is not
\* in the map.
RouterForward(e) ==
    /\ e \in todo
    /\ todo' = todo \ {e}
    /\ channel' = [channel EXCEPT ![e[1]] =
                     IF e[1] \in registered THEN Append(@, looked) ELSE @]
    /\ UNCHANGED <<taskVars, browserVars, tree, registered, shown, log, looked, told, due>>

RouterStep == RouterLookup \/ \E e \in todo : RouterForward(e)

Next ==
    \/ \E d \in Dashboard : SendCommand(d) \/ HangUp(d) \/ StopReading(d) \/ TaskStep(d)
    \/ \E t \in Topic : Publish(t)
    \/ RouterStep

Spec == Init /\ [][Next]_vars

\* Each task is scheduled whenever it can run.
FairSpec ==
    /\ Spec
    /\ \A d \in Dashboard : WF_vars(TaskStep(d))
    /\ WF_vars(RouterStep)

-----------------------------------------------------------------------------
TypeOK ==
    /\ pc \in [Dashboard -> {"select", "register", "reply", "cleanup", "gone"}]
    /\ cur \in [Dashboard -> Command \union {NoCommand}]
    /\ \A d \in Dashboard : pc[d] = "register" => cur[d].type = "subscribe"
    /\ active \in [Dashboard -> SUBSET Filter]
    /\ input \in [Dashboard -> Seq(Command)]
    /\ sentCommands \in Nat
    /\ eof \in [Dashboard -> BOOLEAN] /\ reads \in [Dashboard -> BOOLEAN]
    /\ tree \subseteq Subscription /\ registered \subseteq Dashboard
    /\ channel \in [Dashboard -> Seq(Nat)] /\ shown \in [Dashboard -> Seq(Nat)]
    /\ log \in Seq(Topic) /\ looked \in Nat /\ looked <= Len(log)
    /\ todo \subseteq Subscription
    /\ told \in [Dashboard -> SUBSET Filter]
    /\ due \in [Dashboard -> SUBSET (Nat \X Filter)]

\* The tree has exactly the filters that the task of a dashboard will remove
\* when it leaves, the map has its channel as long as it has any, and nothing
\* is left behind in either when it is gone.
NothingLeft == \A d \in Dashboard :
    /\ {e[2] : e \in {x \in tree : x[1] = d}} =
         active[d] \union IF pc[d] = "register" THEN {cur[d].filter} ELSE {}
    /\ active[d] # {} => d \in registered
    /\ pc[d] = "gone" => active[d] = {} /\ d \notin registered

\* Every variable is of its type, and the tree, the map and the tasks agree.
Consistent == TypeOK /\ NothingLeft

Served(d, m) == m < looked \/ (m = looked /\ d \notin {e[1] : e \in todo})

\* What was written and what is to be written are in the order of publication,
\* each message once.
InOrder(d) ==
    /\ \A i, j \in DOMAIN shown[d] : i < j => shown[d][i] < shown[d][j]
    /\ \A i, j \in DOMAIN channel[d] : i < j => channel[d][i] < channel[d][j]
    /\ \A i \in DOMAIN shown[d], j \in DOMAIN channel[d] : shown[d][i] < channel[d][j]

\* A message published after a browser was told that a filter is in force, and
\* before it gave that filter up, reaches the browser's channel, exactly once
\* and in order, however many of its filters match and whatever else it
\* commands meanwhile.
ToldGetsAll == \A d \in Dashboard :
    /\ \A m \in due[d] : Served(d, m[1]) => m[1] \in Range(shown[d]) \union Range(channel[d])
    /\ InOrder(d)

\* A dashboard that sends Close is cleaned up in the end, and so is one that
\* has silently gone, once the router has a message for it.
LeaverIsCleaned == \A d \in Dashboard :
    (\E i \in DOMAIN input[d] : input[d][i].type = "close") \/ (~reads[d] /\ channel[d] # <<>>)
        ~> pc[d] = "gone"
=============================================================================
