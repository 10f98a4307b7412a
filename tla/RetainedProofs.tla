---------------------------- MODULE RetainedProofs ----------------------------
(***************************************************************************)
(* Theorems about Retained, for every set of publishers, requests,         *)
(* subscribers, topics and filters, and for any number of messages.        *)
(***************************************************************************)
EXTENDS Retained, FiniteSetTheorems, TLAPS

USE DEF taskVars, storeVars, routerVars, subVars, histVars, Goto, Task, NoMessage

-----------------------------------------------------------------------------
(* Types *)

\* A message that is sent keeps the types of what follows from the log.
LEMMA SendTypes ==
  ASSUME TypeOK, NEW m \in Message, Send(m)
  PROVE  /\ log' \in Seq(Message) /\ Len(log') = Len(log) + 1 /\ Len(log) \in Nat
         /\ \A i \in 1 .. Len(log) : log'[i] = log[i]
         /\ log'[Len(log) + 1] = m
         /\ owed' \subseteq (1 .. Len(log')) \X Subscriber \X Filter
         /\ UNCHANGED <<routed, rpc, todo, storeVars, subVars, promised, doomed, gone, deleted>>
<1>1. log' = Append(log, m) /\ log \in Seq(Message)
  BY DEF Send, TypeOK
<1>2. /\ log' \in Seq(Message) /\ Len(log') = Len(log) + 1 /\ Len(log) \in Nat
      /\ \A i \in 1 .. Len(log) : log'[i] = log[i]
      /\ log'[Len(log) + 1] = m
  BY <1>1
<1>3. owed \subseteq (1 .. Len(log')) \X Subscriber \X Filter
  BY <1>2 DEF TypeOK
<1>4. {<<Len(log) + 1, x[1], x[2]>> : x \in Matching(m.topic)}
        \subseteq (1 .. Len(log')) \X Subscriber \X Filter
  BY <1>2 DEF TypeOK, Matching
<1>. QED
  BY <1>2, <1>3, <1>4 DEF Send

\* After a send, the parts of TypeOK that are not the task's own.
LEMMA SentTypeOK ==
  ASSUME TypeOK, NEW m \in Message, Send(m),
         pc' \in [Task -> {"idle", "store", "save", "remove", "forget"}],
         cur' \in [Task -> Nat \union Topic],
         \A k \in Task : pc'[k] \in {"store", "save"} => cur'[k] \in 1 .. Len(log) + 1
  PROVE  TypeOK'
<1>1. Len(log') = Len(log) + 1 /\ Len(log) \in Nat /\ log' \in Seq(Message)
  BY SendTypes
<1>2. owed' \subseteq (1 .. Len(log')) \X Subscriber \X Filter
  BY SendTypes
<1>3. UNCHANGED <<routed, rpc, todo, storeVars, subVars, promised, doomed, gone, deleted>>
  BY SendTypes
<1>4. routed' \in 0 .. Len(log') /\ (rpc' = "forward" => routed' < Len(log'))
  BY <1>1, <1>3 DEF TypeOK
<1>5. retained' \in [Topic -> 0 .. Len(log')] /\ saved' \in [Topic -> 0 .. Len(log')]
  BY <1>1, <1>3 DEF TypeOK
<1>6. inbox' \in [Subscriber -> SUBSET [id : 1 .. Len(log'), retain : BOOLEAN]]
  BY <1>1, <1>3 DEF TypeOK
<1>7. /\ promised' \subseteq (1 .. Len(log')) \X Subscriber
      /\ doomed' \in [Api -> SUBSET (1 .. Len(log'))]
      /\ gone' \subseteq 1 .. Len(log')
  BY <1>1, <1>3 DEF TypeOK
<1>. QED
  BY <1>1, <1>2, <1>3, <1>4, <1>5, <1>6, <1>7 DEF TypeOK

\* The initial state is of the types of TypeOK.
LEMMA InitTypeOK == Init => TypeOK
<1> SUFFICES ASSUME Init PROVE TypeOK
  OBVIOUS
<1>1. log = <<>> /\ log \in Seq(Message) /\ Len(log) = 0
  BY DEF Init
<1>. QED
  BY <1>1 DEF Init, TypeOK

\* A step of a connection that publishes keeps the types.
LEMMA PublisherTypeOK ==
  ASSUME TypeOK, NEW p \in Publisher, PublisherStep(p)
  PROVE  TypeOK'
<1>0. p \in Task /\ Len(log) \in Nat /\ log \in Seq(Message)
  BY DEF TypeOK
<1>1. ASSUME NEW t \in Topic, NEW retain \in BOOLEAN, NEW empty \in BOOLEAN,
             Publish(p, t, retain, empty)
      PROVE  TypeOK'
  <2> DEFINE m == [topic |-> t, by |-> p, retain |-> retain, empty |-> empty]
  <2>1. m \in Message /\ Send(m)
    BY <1>1 DEF Message, Publish
  <2>2. cur' = [cur EXCEPT ![p] = Len(log) + 1]
        /\ pc' = [pc EXCEPT ![p] = IF retain THEN "store" ELSE "idle"]
    BY <1>1 DEF Publish
  <2> HIDE DEF m
  <2>3. pc' \in [Task -> {"idle", "store", "save", "remove", "forget"}]
        /\ cur' \in [Task -> Nat \union Topic]
        /\ \A k \in Task : pc'[k] \in {"store", "save"} => cur'[k] \in 1 .. Len(log) + 1
    BY <1>0, <2>2 DEF TypeOK
  <2>. QED
    BY <2>1, <2>3, SentTypeOK
<1>2. ASSUME Store(p) \/ Save(p) PROVE TypeOK'
  <2>1. cur[p] \in 1 .. Len(log) /\ log[cur[p]] \in Message
    BY <1>0, <1>2 DEF TypeOK, Store, Save
  <2>0. log[cur[p]].topic \in Topic /\ cur[p] \in 0 .. Len(log) /\ NoMessage \in 0 .. Len(log)
    BY <1>0, <2>1 DEF Message
  <2>2. CASE Store(p)
    <3> DEFINE new == IF log[cur[p]].empty THEN NoMessage ELSE cur[p]
    <3>1. new \in 0 .. Len(log)
      BY <2>0
    <3>2. /\ retained' = [retained EXCEPT ![log[cur[p]].topic] = new]
          /\ pc' = [pc EXCEPT ![p] = "save"]
          /\ UNCHANGED <<cur, saved, routerVars, subVars, histVars>>
      BY <2>2 DEF Store
    <3> HIDE DEF new
    <3>3. retained' \in [Topic -> 0 .. Len(log)]
      BY <2>0, <3>1, <3>2 DEF TypeOK
    <3>4. pc' \in [Task -> {"idle", "store", "save", "remove", "forget"}]
          /\ \A k \in Task : pc'[k] \in {"store", "save"} => cur[k] \in 1 .. Len(log)
      BY <1>0, <2>1, <3>2 DEF TypeOK
    <3>. QED
      BY <3>2, <3>3, <3>4 DEF TypeOK
  <2>3. CASE Save(p)
    <3> DEFINE new == IF log[cur[p]].empty THEN NoMessage ELSE cur[p]
    <3>1. new \in 0 .. Len(log)
      BY <2>0
    <3>2. /\ saved' = [saved EXCEPT ![log[cur[p]].topic] = new]
          /\ pc' = [pc EXCEPT ![p] = "idle"]
          /\ UNCHANGED <<cur, retained, routerVars, subVars, histVars>>
      BY <2>3 DEF Save
    <3> HIDE DEF new
    <3>3. saved' \in [Topic -> 0 .. Len(log)]
      BY <2>0, <3>1, <3>2 DEF TypeOK
    <3>4. pc' \in [Task -> {"idle", "store", "save", "remove", "forget"}]
          /\ \A k \in Task : pc'[k] \in {"store", "save"} => cur[k] \in 1 .. Len(log)
      BY <1>0, <2>1, <3>2 DEF TypeOK
    <3>. QED
      BY <3>2, <3>3, <3>4 DEF TypeOK
  <2>. QED
    BY <1>2, <2>2, <2>3
<1>. QED
  BY <1>1, <1>2 DEF PublisherStep

\* A step of an HTTP request keeps the types.
LEMMA ApiTypeOK ==
  ASSUME TypeOK, NEW a \in Api, ApiStep(a)
  PROVE  TypeOK'
<1>0. a \in Task /\ Len(log) \in Nat /\ log \in Seq(Message)
  BY DEF TypeOK
<1>1. ASSUME NEW t \in Topic, NEW retain \in BOOLEAN, NEW empty \in BOOLEAN,
             ApiPublish(a, t, retain, empty)
      PROVE  TypeOK'
  <2> DEFINE m == [topic |-> t, by |-> a, retain |-> retain, empty |-> empty]
  <2>1. m \in Message /\ Send(m)
    BY <1>1 DEF Message, ApiPublish
  <2>2. cur' = [cur EXCEPT ![a] = Len(log) + 1]
        /\ pc' = [pc EXCEPT ![a] = IF retain /\ ~empty THEN "store" ELSE "idle"]
    BY <1>1 DEF ApiPublish
  <2> HIDE DEF m
  <2>3. pc' \in [Task -> {"idle", "store", "save", "remove", "forget"}]
        /\ cur' \in [Task -> Nat \union Topic]
        /\ \A k \in Task : pc'[k] \in {"store", "save"} => cur'[k] \in 1 .. Len(log) + 1
    BY <1>0, <2>2 DEF TypeOK
  <2>. QED
    BY <2>1, <2>3, SentTypeOK
<1>2. CASE ApiStore(a)
  <2>1. cur[a] \in 1 .. Len(log) /\ log[cur[a]] \in Message
    BY <1>0, <1>2 DEF TypeOK, ApiStore
  <2>2. /\ retained' = [retained EXCEPT ![log[cur[a]].topic] = cur[a]]
        /\ pc' = [pc EXCEPT ![a] = "idle"]
        /\ UNCHANGED <<cur, saved, routerVars, subVars, histVars>>
    BY <1>2 DEF ApiStore
  <2>3. retained' \in [Topic -> 0 .. Len(log)]
    BY <1>0, <2>1, <2>2 DEF TypeOK, Message
  <2>4. pc' \in [Task -> {"idle", "store", "save", "remove", "forget"}]
        /\ \A k \in Task : pc'[k] \in {"store", "save"} => cur[k] \in 1 .. Len(log)
    BY <1>0, <2>2 DEF TypeOK
  <2>. QED
    BY <2>2, <2>3, <2>4 DEF TypeOK
<1>3. ASSUME NEW t \in Topic, DeleteRetained(a, t) PROVE TypeOK'
  <2> DEFINE D == {i \in DOMAIN log : log[i].topic = t
               /\ \A k \in Task : pc[k] \in {"store", "save"} => cur[k] # i}
  <2>1. D \subseteq 1 .. Len(log)
    BY <1>0
  <2>2. doomed' = [doomed EXCEPT ![a] = D]
    BY <1>3 DEF DeleteRetained
  <2> HIDE DEF D
  <2>3. doomed' \in [Api -> SUBSET (1 .. Len(log))]
    BY <2>1, <2>2 DEF TypeOK
  <2>4. /\ cur' = [cur EXCEPT ![a] = t] /\ pc' = [pc EXCEPT ![a] = "remove"]
        /\ deleted' = deleted \union {t}
        /\ UNCHANGED <<storeVars, routerVars, subVars, owed, promised, gone>>
    BY <1>3 DEF DeleteRetained
  <2>5. /\ pc' \in [Task -> {"idle", "store", "save", "remove", "forget"}]
        /\ cur' \in [Task -> Nat \union Topic]
        /\ \A k \in Task : pc'[k] \in {"store", "save"} => cur'[k] \in 1 .. Len(log)
    BY <1>0, <2>4 DEF TypeOK
  <2>. QED
    BY <2>3, <2>4, <2>5 DEF TypeOK
<1>4. CASE RemoveRetained(a)
  <2>1. /\ retained' = [retained EXCEPT ![cur[a]] = NoMessage]
        /\ promised' \subseteq promised
        /\ pc' = [pc EXCEPT ![a] = "forget"]
        /\ UNCHANGED <<cur, saved, routerVars, subVars, owed, doomed, gone, deleted>>
    BY <1>4 DEF RemoveRetained
  <2> DEFINE t == cur[a]
  <2>t. retained' = [retained EXCEPT ![t] = 0] /\ 0 \in 0 .. Len(log)
    BY <1>0, <2>1
  <2> HIDE DEF t
  <2>2. retained' \in [Topic -> 0 .. Len(log)]
    BY <2>t DEF TypeOK
  <2>3. pc' \in [Task -> {"idle", "store", "save", "remove", "forget"}]
        /\ \A k \in Task : pc'[k] \in {"store", "save"} => cur[k] \in 1 .. Len(log)
    BY <1>0, <2>1 DEF TypeOK
  <2>. QED
    BY <2>1, <2>2, <2>3 DEF TypeOK
<1>5. CASE ForgetRetained(a)
  <2>1. /\ saved' = [saved EXCEPT ![cur[a]] = NoMessage]
        /\ gone' = gone \union doomed[a] /\ doomed' = [doomed EXCEPT ![a] = {}]
        /\ pc' = [pc EXCEPT ![a] = "idle"]
        /\ UNCHANGED <<cur, retained, routerVars, subVars, owed, promised, deleted>>
    BY <1>5 DEF ForgetRetained
  <2> DEFINE t == cur[a]
  <2>t. saved' = [saved EXCEPT ![t] = 0] /\ 0 \in 0 .. Len(log)
    BY <1>0, <2>1
  <2> HIDE DEF t
  <2>2. saved' \in [Topic -> 0 .. Len(log)]
    BY <2>t DEF TypeOK
  <2>3. pc' \in [Task -> {"idle", "store", "save", "remove", "forget"}]
        /\ \A k \in Task : pc'[k] \in {"store", "save"} => cur[k] \in 1 .. Len(log)
    BY <1>0, <2>1 DEF TypeOK
  <2>4. gone' \subseteq 1 .. Len(log) /\ doomed' \in [Api -> SUBSET (1 .. Len(log))]
    BY <2>1 DEF TypeOK
  <2>. QED
    BY <2>1, <2>2, <2>3, <2>4 DEF TypeOK
<1>. QED
  BY <1>1, <1>2, <1>3, <1>4, <1>5 DEF ApiStep

\* A step of the router keeps the types.
LEMMA RouterTypeOK == TypeOK /\ RouterStep => TypeOK'
<1> SUFFICES ASSUME TypeOK, RouterStep PROVE TypeOK'
  OBVIOUS
<1>0. Len(log) \in Nat /\ log \in Seq(Message) /\ routed \in Nat
  BY DEF TypeOK
<1>1. CASE RouterLookup
  BY <1>0, <1>1 DEF TypeOK, RouterLookup, Matching
<1>2. CASE RouterForward
  <2>1. PICK x \in todo :
          /\ inbox' = [inbox EXCEPT ![x[1]] = @ \union {[id |-> routed + 1, retain |-> FALSE]}]
          /\ todo' = todo \ {x}
          /\ owed' = owed \ {<<routed + 1, x[1], x[2]>>}
    BY <1>2 DEF RouterForward
  <2>2. routed + 1 \in 1 .. Len(log)
    BY <1>0, <1>2 DEF TypeOK, RouterForward
  <2>3. [id |-> routed + 1, retain |-> FALSE] \in [id : 1 .. Len(log), retain : BOOLEAN]
    BY <2>2
  <2>4. inbox' \in [Subscriber -> SUBSET [id : 1 .. Len(log), retain : BOOLEAN]]
    BY <2>1, <2>3 DEF TypeOK
  <2>. QED
    BY <1>2, <2>1, <2>4 DEF TypeOK, RouterForward
<1>3. CASE RouterRetain
  <2>1. routed + 1 \in 1 .. Len(log)
    BY <1>0, <1>3 DEF TypeOK, RouterRetain
  <2>2. Current \in Message
    BY <1>0, <2>1 DEF Current
  <2>3. /\ retained' = IF Current.retain
                      THEN [retained EXCEPT ![Current.topic] = routed + 1] ELSE retained
        /\ routed' = routed + 1 /\ rpc' = "idle"
        /\ UNCHANGED <<log, todo, taskVars, saved, subVars, histVars>>
    BY <1>3 DEF RouterRetain
  <2>4. retained' \in [Topic -> 0 .. Len(log)]
    <3>1. CASE Current.retain
      BY <1>0, <2>1, <2>2, <2>3, <3>1 DEF TypeOK, Message
    <3>2. CASE ~Current.retain
      BY <2>3, <3>2 DEF TypeOK
    <3>. QED
      BY <3>1, <3>2
  <2>. QED
    BY <1>0, <2>1, <2>3, <2>4 DEF TypeOK
<1>. QED
  BY <1>1, <1>2, <1>3 DEF RouterStep

\* A step of a subscriber keeps the types.
LEMMA SubscriberTypeOK ==
  ASSUME TypeOK, NEW s \in Subscriber, SubscriberStep(s)
  PROVE  TypeOK'
<1>0. Len(log) \in Nat /\ log \in Seq(Message)
  BY DEF TypeOK
<1>e. ASSUME NEW t \in Topic PROVE Effective(t) \in 0 .. Len(log)
  BY <1>0 DEF Effective, TypeOK
<1>1. ASSUME NEW f \in Filter, Subscribe(s, f) PROVE TypeOK'
  <2>1. f \subseteq Topic
    BY FilterAssumption
  <2>2. promised' \subseteq (1 .. Len(log)) \X Subscriber
    <3>1. promised' = promised \union
            {<<Effective(t), s>> : t \in {u \in f : Settled(u) /\ Effective(u) # NoMessage}}
      BY <1>1 DEF Subscribe
    <3>2. \A t \in {u \in f : Settled(u) /\ Effective(u) # NoMessage} :
            Effective(t) \in 1 .. Len(log)
      BY <1>0, <1>e, <2>1
    <3>. QED
      BY <3>1, <3>2 DEF TypeOK
  <2>. QED
    BY <1>1, <2>1, <2>2 DEF TypeOK, Subscribe
<1>2. ASSUME NEW f \in Filter, Unsubscribe(s, f) PROVE TypeOK'
  BY <1>2 DEF TypeOK, Unsubscribe
<1>3. ASSUME NEW t \in Topic, SendRetained(s, t) PROVE TypeOK'
  <2>1. inbox' \in [Subscriber -> SUBSET [id : 1 .. Len(log), retain : BOOLEAN]]
    <3>1. CASE Effective(t) = NoMessage
      BY <1>3, <3>1 DEF SendRetained, TypeOK
    <3>2. CASE Effective(t) # NoMessage
      <4>1. [id |-> Effective(t), retain |-> TRUE] \in [id : 1 .. Len(log), retain : BOOLEAN]
        BY <1>0, <1>e, <3>2
      <4>. QED
        BY <1>3, <3>2, <4>1 DEF SendRetained, TypeOK
    <3>. QED
      BY <3>1, <3>2
  <2>. QED
    BY <1>3, <2>1 DEF TypeOK, SendRetained
<1>. QED
  BY <1>1, <1>2, <1>3 DEF SubscriberStep

\* A will keeps the types.
LEMMA WillTypeOK ==
  ASSUME TypeOK, NEW t \in WillTopic, NEW retain \in BOOLEAN, NEW empty \in BOOLEAN,
         FireWill(t, retain, empty)
  PROVE  TypeOK'
<1> DEFINE m == [topic |-> t, by |-> Broker, retain |-> retain, empty |-> empty]
<1>1. m \in Message /\ Send(m) /\ pc' = pc /\ cur' = cur
  BY FilterAssumption DEF Message, FireWill
<1> HIDE DEF m
<1>2. pc' \in [Task -> {"idle", "store", "save", "remove", "forget"}]
      /\ cur' \in [Task -> Nat \union Topic]
      /\ \A k \in Task : pc'[k] \in {"store", "save"} => cur'[k] \in 1 .. Len(log) + 1
  BY <1>1 DEF TypeOK
<1>. QED
  BY <1>1, <1>2, SentTypeOK

\* Every step keeps the types.
LEMMA StepTypeOK == TypeOK /\ [Next]_vars => TypeOK'
<1> SUFFICES ASSUME TypeOK, [Next]_vars PROVE TypeOK'
  OBVIOUS
<1>1. CASE UNCHANGED vars
  BY <1>1 DEF vars, TypeOK
<1>. QED
  BY <1>1, PublisherTypeOK, ApiTypeOK, WillTypeOK, RouterTypeOK, SubscriberTypeOK DEF Next

\* The store, the disk, the log and the inboxes keep their types: what is stored
\* or on its way is always a message of the log.
THEOREM TypeCorrect == Spec => []TypeOK
  BY InitTypeOK, StepTypeOK, PTL DEF Spec

-----------------------------------------------------------------------------
(* What the router owes *)

\* A message that is due to a subscription is still ahead of the router, or is
\* the one it forwards with that subscription still to come.
OwedInv == \A o \in owed :
    /\ o[1] > routed
    /\ <<o[2], o[3]>> \in subs
    /\ log[o[1]].topic \in o[3]
    /\ rpc = "forward" /\ o[1] = routed + 1 => <<o[2], o[3]>> \in todo

\* What is sent is due to the subscriptions that match it.
LEMMA SendOwed ==
  ASSUME TypeOK, OwedInv, NEW m \in Message, Send(m)
  PROVE  OwedInv'
<1>1. SUFFICES ASSUME NEW o \in owed'
               PROVE  /\ o[1] > routed
                      /\ <<o[2], o[3]>> \in subs
                      /\ log'[o[1]].topic \in o[3]
                      /\ rpc = "forward" /\ o[1] = routed + 1 => <<o[2], o[3]>> \in todo
  BY SendTypes DEF OwedInv
<1>2. CASE o \in owed
  <2>1. o[1] \in 1 .. Len(log)
    BY <1>2 DEF TypeOK
  <2>. QED
    BY <1>2, <2>1, SendTypes DEF OwedInv
<1>3. CASE o \notin owed
  <2>1. PICK x \in Matching(m.topic) : o = <<Len(log) + 1, x[1], x[2]>>
    BY <1>3 DEF Send
  <2>2. x \in subs /\ m.topic \in x[2] /\ x = <<x[1], x[2]>>
    BY DEF Matching, TypeOK
  <2>3. routed < Len(log) + 1 /\ (rpc = "forward" => Len(log) + 1 # routed + 1)
    BY SendTypes DEF TypeOK
  <2>4. o[1] = Len(log) + 1 /\ o[2] = x[1] /\ o[3] = x[2]
    BY <2>1
  <2>. QED
    BY <2>2, <2>3, <2>4, SendTypes
<1>. QED
  BY <1>2, <1>3

\* A step of the router pays what it owes.
LEMMA RouterOwed == TypeOK /\ OwedInv /\ RouterStep => OwedInv'
<1> SUFFICES ASSUME TypeOK, OwedInv, RouterStep, NEW o \in owed'
             PROVE  /\ o[1] > routed'
                    /\ <<o[2], o[3]>> \in subs'
                    /\ log'[o[1]].topic \in o[3]
                    /\ rpc' = "forward" /\ o[1] = routed' + 1 => <<o[2], o[3]>> \in todo'
  BY DEF OwedInv
<1>1. /\ o \in owed /\ log' = log /\ subs' = subs
      /\ routed \in Nat /\ o[1] \in Nat /\ o = <<o[1], o[2], o[3]>>
  <2>1. o \in owed /\ log' = log /\ subs' = subs
    BY DEF RouterStep, RouterLookup, RouterForward, RouterRetain
  <2>. QED
    BY <2>1 DEF TypeOK
<1>2. CASE RouterLookup
  <2>1. o[1] = routed + 1 => <<o[2], o[3]>> \in Matching(Current.topic)
    BY <1>1 DEF OwedInv, Matching, Current
  <2>. QED
    BY <1>1, <1>2, <2>1 DEF RouterLookup, OwedInv
<1>3. CASE RouterForward
  <2>1. PICK x \in todo : /\ todo' = todo \ {x}
                          /\ owed' = owed \ {<<routed + 1, x[1], x[2]>>}
    BY <1>3 DEF RouterForward
  <2>2. rpc' = rpc /\ rpc = "forward" /\ routed' = routed
    BY <1>3 DEF RouterForward
  <2>3. o[1] = routed + 1 => <<o[2], o[3]>> # x
    BY <1>1, <2>1
  <2>. QED
    BY <1>1, <2>1, <2>2, <2>3 DEF OwedInv
<1>4. CASE RouterRetain
  <2>1. rpc = "forward" /\ todo = {} /\ routed' = routed + 1 /\ rpc' = "idle"
    BY <1>4 DEF RouterRetain
  <2>. QED
    BY <1>1, <2>1 DEF OwedInv
<1>. QED
  BY <1>2, <1>3, <1>4 DEF RouterStep

\* A step of a subscriber cancels what is due to the subscription it ends.
LEMMA SubscriberOwed ==
  ASSUME TypeOK, OwedInv, NEW s \in Subscriber, SubscriberStep(s)
  PROVE  OwedInv'
<1>1. UNCHANGED <<log, routed, rpc, todo>> /\ owed' \subseteq owed
  BY DEF SubscriberStep, Subscribe, Unsubscribe, SendRetained
<1>2. ASSUME NEW o \in owed' PROVE <<o[2], o[3]>> \in subs'
  BY <1>1 DEF OwedInv, SubscriberStep, Subscribe, Unsubscribe, SendRetained
<1>. QED
  BY <1>1, <1>2 DEF OwedInv

\* Every step keeps OwedInv.
LEMMA StepOwed == TypeOK /\ OwedInv /\ [Next]_vars => OwedInv'
<1> SUFFICES ASSUME TypeOK, OwedInv, [Next]_vars PROVE OwedInv'
  OBVIOUS
<1>1. CASE UNCHANGED vars
  BY <1>1 DEF vars, OwedInv
<1>2. ASSUME NEW p \in Publisher, PublisherStep(p) PROVE OwedInv'
  <2>1. ASSUME NEW t \in Topic, NEW retain \in BOOLEAN, NEW empty \in BOOLEAN,
               Publish(p, t, retain, empty)
        PROVE  OwedInv'
    BY <2>1, SendOwed DEF Publish, Message
  <2>2. CASE Store(p) \/ Save(p)
    BY <2>2 DEF Store, Save, OwedInv
  <2>. QED
    BY <1>2, <2>1, <2>2 DEF PublisherStep
<1>3. ASSUME NEW a \in Api, ApiStep(a) PROVE OwedInv'
  <2>1. ASSUME NEW t \in Topic, NEW retain \in BOOLEAN, NEW empty \in BOOLEAN,
               ApiPublish(a, t, retain, empty)
        PROVE  OwedInv'
    BY <2>1, SendOwed DEF ApiPublish, Message
  <2>2. CASE \/ ApiStore(a) \/ RemoveRetained(a) \/ ForgetRetained(a)
             \/ \E t \in Topic : DeleteRetained(a, t)
    <3>1. UNCHANGED <<owed, todo, subs, log, routed, rpc>>
      BY <2>2 DEF ApiStore, RemoveRetained, ForgetRetained, DeleteRetained
    <3>. QED
      BY <3>1 DEF OwedInv
  <2>. QED
    BY <1>3, <2>1, <2>2 DEF ApiStep
<1>4. ASSUME NEW t \in WillTopic, NEW retain \in BOOLEAN, NEW empty \in BOOLEAN,
             FireWill(t, retain, empty)
      PROVE  OwedInv'
  BY <1>4, SendOwed, FilterAssumption DEF FireWill, Message
<1>. QED
  BY <1>1, <1>2, <1>3, <1>4, RouterOwed, SubscriberOwed DEF Next

\* Whatever the publishers, requests and subscribers do in between, the router
\* has forwarded a message to a subscription that was in the tree when it was
\* sent once it is done with the message, unless it was cancelled.
THEOREM SubscribedGetsAllAlways == Spec => []SubscribedGetsAll
<1>1. Init => OwedInv
  BY DEF Init, OwedInv
<1>2. OwedInv => SubscribedGetsAll
  BY DEF OwedInv, SubscribedGetsAll
<1>. QED
  BY <1>1, <1>2, StepOwed, TypeCorrect, PTL DEF Spec

-----------------------------------------------------------------------------
(* What is retained *)

\* All retained publications of topic t were made by one connection, and none
\* was deleted: what OneSource says, without counting.
Sole(t) ==
    /\ \A i, j \in RetainedOn(t) : log[i].by = log[j].by
    /\ \A i \in RetainedOn(t) : log[i].by \in Publisher
    /\ t \notin deleted

\* A task stores the last message it has published; a request removes a topic
\* that is among the deleted ones.
TaskInv == \A k \in Task :
    /\ pc[k] \in {"store", "save"} =>
          /\ log[cur[k]].retain /\ log[cur[k]].by = k
          /\ \A n \in DOMAIN log : n > cur[k] => log[n].by # k
    /\ pc[k] \in {"remove", "forget"} => cur[k] \in deleted

\* What is stored for a topic, in memory and on disk, was retained for it.
StoredInv == \A t \in Topic :
    /\ retained[t] # NoMessage => retained[t] \in RetainedOn(t)
    /\ saved[t] # NoMessage => saved[t] \in RetainedOn(t)

\* The last retained publication of topic t.
IsLast(i, t) == i \in RetainedOn(t) /\ \A j \in RetainedOn(t) : j <= i
LastInv == \A t \in Topic : RetainedOn(t) = {} \/ \E i \in RetainedOn(t) : IsLast(i, t)

\* When both the router and the task that published it have stored the last
\* message, it is stored; when the task has saved it, it is saved.
SettleInv == \A t \in Topic : \A i \in RetainedOn(t) : Sole(t) /\ IsLast(i, t) =>
    /\ i <= routed /\ (\A k \in Task : pc[k] = "store" => cur[k] # i) =>
          retained[t] = i \/ (log[i].empty /\ retained[t] = NoMessage)
    /\ (\A k \in Task : pc[k] \in {"store", "save"} => cur[k] # i) =>
          saved[t] = IF log[i].empty THEN NoMessage ELSE i

IInv == TypeOK /\ TaskInv /\ StoredInv /\ LastInv /\ SettleInv

\* The publications of a topic are positions of the log.
LEMMA RetainedOnType ==
  ASSUME TypeOK, NEW t \in Topic
  PROVE  /\ RetainedOn(t) \subseteq 1 .. Len(log) /\ Len(log) \in Nat
         /\ RetainedOn(t) \subseteq Nat \ {0}
BY DEF RetainedOn, TypeOK

\* One source, counted, is one source.
LEMMA OneSourceSole ==
  ASSUME TypeOK, NEW t \in Topic, OneSource(t)
  PROVE  Sole(t)
<1>1. IsFiniteSet(RetainedOn(t))
  <2>1. IsFiniteSet(1 .. Len(log))
    BY RetainedOnType, FS_Interval
  <2>. QED
    BY <2>1, RetainedOnType, FS_Subset
<1>2. IsFiniteSet(SourcesOf(t))
  <2> DEFINE by == [i \in RetainedOn(t) |-> log[i].by]
  <2>1. by \in Surjection(RetainedOn(t), SourcesOf(t))
    BY DEF SourcesOf, Surjection
  <2> HIDE DEF by
  <2>. QED
    BY <1>1, <2>1, FS_Surjection
<1>3. Cardinality(SourcesOf(t)) = 0 \/ Cardinality(SourcesOf(t)) = 1
  BY <1>2, FS_CardinalityType DEF OneSource
<1>4. SourcesOf(t) = {} \/ \E x : SourcesOf(t) = {x}
  BY <1>2, <1>3, FS_EmptySet, FS_Singleton
<1>5. \A i \in RetainedOn(t) : log[i].by \in SourcesOf(t)
  BY DEF SourcesOf
<1>. QED
  BY <1>4, <1>5 DEF Sole, OneSource

\* Then the last one is unique, and what LastOn says.
LEMMA LastIsLast ==
  ASSUME TypeOK, NEW t \in Topic, NEW i \in RetainedOn(t), IsLast(i, t)
  PROVE  LastOn(t) = IF log[i].empty THEN NoMessage ELSE i
<1> DEFINE c == CHOOSE j \in RetainedOn(t) : \A k \in RetainedOn(t) : k <= j
<1>1. c \in RetainedOn(t) /\ \A k \in RetainedOn(t) : k <= c
  BY DEF IsLast
<1>2. c = i
  BY <1>1, RetainedOnType DEF IsLast
<1>3. LastOn(t) = IF log[c].empty THEN NoMessage ELSE c
  BY DEF LastOn
<1>. QED
  BY <1>2, <1>3

\* IInv is strong enough.
LEMMA IInvSettles == IInv => RetainedSettles /\ SavedSettles
<1> SUFFICES ASSUME IInv, NEW t \in Topic, OneSource(t), WorkingOn(t) = {}
             PROVE  /\ Settled(t) => Effective(t) = LastOn(t)
                    /\ saved[t] = LastOn(t)
  BY DEF RetainedSettles, SavedSettles, Settled
<1>0. TypeOK /\ Sole(t)
  BY OneSourceSole DEF IInv
<1>1. CASE RetainedOn(t) = {}
  <2>1. retained[t] = NoMessage /\ saved[t] = NoMessage
    BY <1>1 DEF IInv, StoredInv
  <2>. QED
    BY <1>1, <2>1 DEF Effective, LastOn
<1>2. CASE RetainedOn(t) # {}
  <2>1. PICK i \in RetainedOn(t) : IsLast(i, t)
    BY <1>2 DEF IInv, LastInv
  <2>2. /\ i \in DOMAIN log /\ log[i].topic = t
        /\ i # NoMessage
    BY <1>0, RetainedOnType DEF RetainedOn
  <2>3. \A k \in Task : pc[k] \in {"store", "save"} => cur[k] # i
    BY <2>2 DEF WorkingOn
  <2>4. LastOn(t) = IF log[i].empty THEN NoMessage ELSE i
    BY <1>0, <2>1, LastIsLast
  <2>5. saved[t] = LastOn(t)
    BY <1>0, <2>1, <2>3, <2>4 DEF IInv, SettleInv
  <2>6. ASSUME Settled(t) PROVE Effective(t) = LastOn(t)
    <3>1. i <= routed
      BY <2>2, <2>6 DEF Settled
    <3>2. retained[t] = i \/ (log[i].empty /\ retained[t] = NoMessage)
      BY <1>0, <2>1, <2>3, <3>1 DEF IInv, SettleInv
    <3>. QED
      BY <2>2, <2>4, <3>2 DEF Effective
  <2>. QED
    BY <2>5, <2>6
<1>. QED
  BY <1>1, <1>2

\* The initial state.
LEMMA InitIInv == Init => IInv
<1> SUFFICES ASSUME Init PROVE IInv
  OBVIOUS
<1>1. TypeOK /\ Len(log) = 0
  BY InitTypeOK DEF Init
<1>2. \A t \in Topic : RetainedOn(t) = {}
  BY <1>1, RetainedOnType
<1>. QED
  <2>1. TaskInv
    BY DEF Init, TaskInv
  <2>2. StoredInv
    BY DEF Init, StoredInv
  <2>3. LastInv /\ SettleInv
    BY <1>2 DEF LastInv, SettleInv
  <2>. QED
    BY <1>1, <2>1, <2>2, <2>3 DEF IInv

\* A message that is sent comes last.
LEMMA SendDomain ==
  ASSUME TypeOK, NEW m \in Message, Send(m)
  PROVE  /\ DOMAIN log = 1 .. Len(log)
         /\ DOMAIN log' = (1 .. Len(log)) \union {Len(log) + 1}
<1>1. log \in Seq(Message) /\ DOMAIN log = 1 .. Len(log)
  BY DEF TypeOK
<1>2. Len(log) \in Nat /\ Len(log') = Len(log) + 1 /\ DOMAIN log' = 1 .. Len(log')
  BY SendTypes
<1>3. 1 .. (Len(log) + 1) = (1 .. Len(log)) \union {Len(log) + 1}
  BY <1>2
<1>. QED
  BY <1>1, <1>2, <1>3

\* A message that is sent is a publication of its topic, if it is to be retained.
LEMMA Appended ==
  ASSUME TypeOK, NEW m \in Message, Send(m), NEW t \in Topic
  PROVE  RetainedOn(t)' = RetainedOn(t) \union
             (IF m.topic = t /\ m.retain THEN {Len(log) + 1} ELSE {})
<1>1. DOMAIN log = 1 .. Len(log) /\ DOMAIN log' = (1 .. Len(log)) \union {Len(log) + 1}
  BY SendDomain
<1>. QED
  BY <1>1, SendTypes DEF RetainedOn

\* A task that sends a message goes on to store it, if it has to; the other tasks
\* stay where they are.
LEMMA SendIInv ==
  ASSUME IInv, TypeOK', NEW m \in Message, Send(m),
         \A k \in Task : pc[k] \in {"store", "save"} =>
             pc'[k] = pc[k] /\ cur'[k] = cur[k] /\ m.by # k,
         \A k \in Task : pc'[k] \in {"store", "save"} /\ pc[k] \notin {"store", "save"} =>
             pc'[k] = "store" /\ cur'[k] = Len(log) + 1 /\ m.by = k /\ m.retain,
         m.retain /\ m.by \in Publisher => pc'[m.by] = "store" /\ cur'[m.by] = Len(log) + 1,
         \A k \in Task : pc'[k] \in {"remove", "forget"} => pc'[k] = pc[k] /\ cur'[k] = cur[k]
  PROVE  IInv'
<1>0. TypeOK /\ deleted' = deleted /\ routed' = routed /\ UNCHANGED <<retained, saved>>
  BY SendTypes DEF IInv
<1>1. \A t \in Topic : RetainedOn(t) \subseteq RetainedOn(t)'
  BY <1>0, Appended
<1>d. /\ Len(log) \in Nat /\ DOMAIN log = 1 .. Len(log)
      /\ DOMAIN log' = (1 .. Len(log)) \union {Len(log) + 1}
      /\ log'[Len(log) + 1] = m /\ \A i \in 1 .. Len(log) : log'[i] = log[i]
  BY <1>0, SendTypes, SendDomain
<1>2. TaskInv'
  <2>1. ASSUME NEW k \in Task, pc'[k] \in {"store", "save"}
        PROVE  /\ log'[cur'[k]].retain /\ log'[cur'[k]].by = k
               /\ \A n \in DOMAIN log' : n > cur'[k] => log'[n].by # k
    <3>1. CASE pc[k] \in {"store", "save"}
      <4>1. cur'[k] = cur[k] /\ cur[k] \in 1 .. Len(log) /\ m.by # k
        BY <1>0, <3>1 DEF TypeOK
      <4>. QED
        BY <1>d, <3>1, <4>1 DEF IInv, TaskInv
    <3>2. CASE pc[k] \notin {"store", "save"}
      BY <1>d, <2>1, <3>2
    <3>. QED
      BY <3>1, <3>2
  <2>2. ASSUME NEW k \in Task, pc'[k] \in {"remove", "forget"} PROVE cur'[k] \in deleted'
    BY <1>0, <2>2 DEF IInv, TaskInv
  <2>. QED
    BY <2>1, <2>2 DEF TaskInv
<1>3. StoredInv'
  BY <1>0, <1>1 DEF IInv, StoredInv
<1>4. LastInv'
  <2>1. SUFFICES ASSUME NEW t \in Topic
                 PROVE  RetainedOn(t)' = {} \/ \E i \in RetainedOn(t)' : IsLast(i, t)'
    BY DEF LastInv
  <2>2. CASE m.topic = t /\ m.retain
    <3>1. RetainedOn(t)' = RetainedOn(t) \union {Len(log) + 1}
      BY <1>0, <2>2, Appended
    <3>. QED
      BY <1>0, <1>d, <3>1, RetainedOnType DEF IsLast
  <2>3. CASE ~(m.topic = t /\ m.retain)
    <3>1. RetainedOn(t)' = RetainedOn(t)
      BY <1>0, <2>3, Appended
    <3>. QED
      BY <3>1 DEF IInv, LastInv, IsLast
  <2>. QED
    BY <2>2, <2>3
<1>5. SettleInv'
  <2>1. SUFFICES ASSUME NEW t \in Topic, NEW i \in RetainedOn(t)', Sole(t)', IsLast(i, t)'
                 PROVE  /\ i <= routed /\ (\A k \in Task : pc'[k] = "store" => cur'[k] # i) =>
                             retained[t] = i \/ (log'[i].empty /\ retained[t] = NoMessage)
                        /\ (\A k \in Task : pc'[k] \in {"store", "save"} => cur'[k] # i) =>
                             saved[t] = IF log'[i].empty THEN NoMessage ELSE i
    BY <1>0 DEF SettleInv
  <2>2. CASE m.topic = t /\ m.retain
    <3>1. RetainedOn(t)' = RetainedOn(t) \union {Len(log) + 1}
      BY <1>0, <2>2, Appended
    <3>2. i = Len(log) + 1
      BY <1>0, <1>d, <2>1, <3>1, RetainedOnType DEF IsLast
    <3>3. m.by \in Publisher
      BY <1>d, <2>1, <3>2 DEF Sole
    <3>4. pc'[m.by] = "store" /\ cur'[m.by] = i /\ m.by \in Task
      BY <2>2, <3>2, <3>3
    <3>. QED
      BY <3>4
  <2>3. CASE ~(m.topic = t /\ m.retain)
    <3>1. RetainedOn(t)' = RetainedOn(t)
      BY <1>0, <2>3, Appended
    <3>2. \A j \in RetainedOn(t) : log'[j] = log[j]
      BY <1>0, <1>d, RetainedOnType
    <3>3. i \in RetainedOn(t) /\ IsLast(i, t) /\ Sole(t)
      BY <1>0, <2>1, <3>1, <3>2 DEF IsLast, Sole
    <3>. QED
      BY <3>2, <3>3 DEF IInv, SettleInv
  <2>. QED
    BY <2>2, <2>3
<1>. QED
  BY <1>2, <1>3, <1>4, <1>5 DEF IInv

\* A task that stores or saves a message of a topic that has one source is a
\* connection, and the message is the last one of the topic.
LEMMA StoresLast ==
  ASSUME IInv, NEW k \in Task, pc[k] \in {"store", "save"},
         NEW t \in Topic, NEW i \in RetainedOn(t), Sole(t), IsLast(i, t)
  PROVE  IF log[cur[k]].topic = t THEN cur[k] = i /\ k \in Publisher ELSE cur[k] # i
<1>1. cur[k] \in DOMAIN log /\ i \in DOMAIN log /\ log[i].topic = t /\ i \in Nat /\ cur[k] \in Nat
  <2>1. cur[k] \in DOMAIN log /\ log \in Seq(Message)
    BY DEF IInv, TypeOK
  <2>2. DOMAIN log \subseteq Nat
    BY <2>1
  <2>3. i \in DOMAIN log /\ log[i].topic = t
    BY DEF RetainedOn
  <2>. QED
    BY <2>1, <2>2, <2>3
<1>2. CASE log[cur[k]].topic = t
  <2>1. cur[k] \in RetainedOn(t) /\ log[cur[k]].by = k
    BY <1>1, <1>2 DEF IInv, TaskInv, RetainedOn
  <2>2. cur[k] <= i /\ log[i].by = k /\ k \in Publisher
    BY <2>1 DEF Sole, IsLast
  <2>. QED
    BY <1>1, <1>2, <2>2 DEF IInv, TaskInv
<1>. QED
  BY <1>1, <1>2

\* While nothing is sent, the publications of a topic stay the same.
LEMMA SameLog ==
  ASSUME log' = log, deleted \subseteq deleted', NEW t \in Topic
  PROVE  /\ RetainedOn(t)' = RetainedOn(t)
         /\ \A i : IsLast(i, t)' <=> IsLast(i, t)
         /\ Sole(t)' => Sole(t)
<1>1. RetainedOn(t)' = RetainedOn(t)
  BY DEF RetainedOn
<1>. QED
  BY <1>1 DEF IsLast, Sole

\* What is left to show for a step that sends nothing.
LEMMA QuietStep ==
  ASSUME IInv, TypeOK', log' = log, deleted \subseteq deleted', routed \in Nat,
         \A k \in Task : pc'[k] \in {"store", "save"} =>
             pc[k] \in {"store", "save"} /\ cur'[k] = cur[k],
         \A k \in Task : pc'[k] \in {"remove", "forget"} => cur'[k] \in deleted',
         \A t \in Topic : retained'[t] # NoMessage => retained'[t] \in RetainedOn(t),
         \A t \in Topic : saved'[t] # NoMessage => saved'[t] \in RetainedOn(t),
         \A t \in Topic : \A i \in RetainedOn(t) : Sole(t) /\ Sole(t)' /\ IsLast(i, t) =>
             /\ i <= routed' /\ (\A k \in Task : pc'[k] = "store" => cur'[k] # i) =>
                   retained'[t] = i \/ (log[i].empty /\ retained'[t] = NoMessage)
             /\ (\A k \in Task : pc'[k] \in {"store", "save"} => cur'[k] # i) =>
                   saved'[t] = IF log[i].empty THEN NoMessage ELSE i
  PROVE  IInv'
<1>1. TaskInv'
  BY DEF IInv, TaskInv
<1>2. StoredInv'
  BY SameLog DEF StoredInv
<1>3. LastInv'
  BY SameLog DEF IInv, LastInv
<1>4. SettleInv'
  BY SameLog DEF SettleInv
<1>. QED
  BY <1>1, <1>2, <1>3, <1>4 DEF IInv

\* A connection stores what it has published, or saves it.
LEMMA StoreIInv ==
  ASSUME IInv, TypeOK', NEW p \in Publisher, Store(p) \/ Save(p)
  PROVE  IInv'
<1> DEFINE j == cur[p]
           new == IF log[j].empty THEN NoMessage ELSE j
<1>0. /\ TypeOK /\ p \in Task /\ pc[p] \in {"store", "save"}
      /\ cur' = cur /\ log' = log /\ routed' = routed /\ deleted' = deleted /\ routed \in Nat
  BY DEF IInv, TypeOK, Store, Save
<1>1. j \in RetainedOn(log[j].topic) /\ log[j].topic \in Topic
  <2>1. j \in DOMAIN log /\ log[j] \in Message
    BY <1>0 DEF TypeOK
  <2>. QED
    BY <1>0, <2>1 DEF IInv, TaskInv, RetainedOn, Message
<1>2. ASSUME NEW t \in Topic, NEW i \in RetainedOn(t), Sole(t), IsLast(i, t)
      PROVE  IF log[j].topic = t THEN j = i ELSE j # i
  BY <1>0, <1>2, StoresLast
<1>3. CASE Store(p)
  <2>1. /\ pc[p] = "store" /\ pc' = [pc EXCEPT ![p] = "save"]
        /\ retained' = [retained EXCEPT ![log[j].topic] = new] /\ saved' = saved
    BY <1>3 DEF Store
  <2>2. /\ pc'[p] = "save" /\ \A k \in Task : k # p => pc'[k] = pc[k]
        /\ \A t \in Topic : retained'[t] = IF t = log[j].topic THEN new ELSE retained[t]
    BY <1>0, <2>1 DEF TypeOK
  <2>3. ASSUME NEW t \in Topic, NEW i \in RetainedOn(t), Sole(t), IsLast(i, t)
        PROVE  /\ i <= routed /\ (\A k \in Task : pc'[k] = "store" => cur[k] # i) =>
                   retained'[t] = i \/ (log[i].empty /\ retained'[t] = NoMessage)
               /\ (\A k \in Task : pc'[k] \in {"store", "save"} => cur[k] # i) =>
                   saved[t] = IF log[i].empty THEN NoMessage ELSE i
    <3>1. CASE log[j].topic = t
      BY <1>0, <1>2, <2>2, <2>3, <3>1
    <3>2. CASE log[j].topic # t
      BY <1>0, <1>2, <2>2, <2>3, <3>2 DEF IInv, SettleInv
    <3>. QED
      BY <3>1, <3>2
  <2>4. \A t \in Topic : retained'[t] # NoMessage => retained'[t] \in RetainedOn(t)
    BY <1>1, <2>2 DEF IInv, StoredInv
  <2>5. \A t \in Topic : saved'[t] # NoMessage => saved'[t] \in RetainedOn(t)
    BY <2>1 DEF IInv, StoredInv
  <2>6. \A k \in Task : /\ pc'[k] \in {"store", "save"} => pc[k] \in {"store", "save"}
                        /\ pc'[k] \in {"remove", "forget"} => cur[k] \in deleted
    BY <2>1, <2>2 DEF IInv, TaskInv
  <2> HIDE DEF j, new
  <2>. QED
    BY <1>0, <2>1, <2>3, <2>4, <2>5, <2>6, QuietStep
<1>4. CASE Save(p)
  <2>1. /\ pc[p] = "save" /\ pc' = [pc EXCEPT ![p] = "idle"]
        /\ saved' = [saved EXCEPT ![log[j].topic] = new] /\ retained' = retained
    BY <1>4 DEF Save
  <2>2. /\ pc'[p] = "idle" /\ \A k \in Task : k # p => pc'[k] = pc[k]
        /\ \A t \in Topic : saved'[t] = IF t = log[j].topic THEN new ELSE saved[t]
    BY <1>0, <2>1 DEF TypeOK
  <2>3. ASSUME NEW t \in Topic, NEW i \in RetainedOn(t), Sole(t), IsLast(i, t)
        PROVE  /\ i <= routed /\ (\A k \in Task : pc'[k] = "store" => cur[k] # i) =>
                   retained[t] = i \/ (log[i].empty /\ retained[t] = NoMessage)
               /\ (\A k \in Task : pc'[k] \in {"store", "save"} => cur[k] # i) =>
                   saved'[t] = IF log[i].empty THEN NoMessage ELSE i
    <3>1. \A k \in Task : pc[k] = "store" => pc'[k] = "store"
      BY <2>1, <2>2
    <3>2. i <= routed /\ (\A k \in Task : pc'[k] = "store" => cur[k] # i) =>
                   retained[t] = i \/ (log[i].empty /\ retained[t] = NoMessage)
      BY <2>3, <3>1 DEF IInv, SettleInv
    <3>3. CASE log[j].topic = t
      BY <1>2, <2>2, <2>3, <3>2, <3>3
    <3>4. CASE log[j].topic # t
      BY <1>0, <1>2, <2>2, <2>3, <3>2, <3>4 DEF IInv, SettleInv
    <3>. QED
      BY <3>3, <3>4
  <2>4. \A t \in Topic : retained'[t] # NoMessage => retained'[t] \in RetainedOn(t)
    BY <2>1 DEF IInv, StoredInv
  <2>5. \A t \in Topic : saved'[t] # NoMessage => saved'[t] \in RetainedOn(t)
    BY <1>1, <2>2 DEF IInv, StoredInv
  <2>6. \A k \in Task : /\ pc'[k] \in {"store", "save"} => pc[k] \in {"store", "save"}
                        /\ pc'[k] \in {"remove", "forget"} => cur[k] \in deleted
    BY <2>1, <2>2 DEF IInv, TaskInv
  <2> HIDE DEF j, new
  <2>. QED
    BY <1>0, <2>1, <2>3, <2>4, <2>5, <2>6, QuietStep
<1>. QED
  BY <1>3, <1>4

\* A request stores what it has published: the topic has no connection as its
\* only source then.
LEMMA ApiStoreIInv ==
  ASSUME IInv, TypeOK', NEW a \in Api, ApiStore(a)
  PROVE  IInv'
<1> DEFINE j == cur[a]
<1>0. /\ TypeOK /\ a \in Task /\ a \notin Publisher /\ pc[a] = "store" /\ routed \in Nat
      /\ pc' = [pc EXCEPT ![a] = "idle"]
      /\ retained' = [retained EXCEPT ![log[j].topic] = j] /\ saved' = saved
      /\ cur' = cur /\ log' = log /\ routed' = routed /\ deleted' = deleted
  BY SourceAssumption DEF IInv, TypeOK, ApiStore
<1>1. j \in RetainedOn(log[j].topic) /\ log[j].topic \in Topic
  <2>1. j \in DOMAIN log /\ log[j] \in Message
    BY <1>0 DEF TypeOK
  <2>. QED
    BY <1>0, <2>1 DEF IInv, TaskInv, RetainedOn, Message
<1>2. /\ pc'[a] = "idle" /\ \A k \in Task : k # a => pc'[k] = pc[k]
      /\ \A t \in Topic : retained'[t] = IF t = log[j].topic THEN j ELSE retained[t]
  BY <1>0 DEF TypeOK
<1>3. ASSUME NEW t \in Topic, NEW i \in RetainedOn(t), Sole(t), IsLast(i, t)
      PROVE  /\ i <= routed /\ (\A k \in Task : pc'[k] = "store" => cur[k] # i) =>
                 retained'[t] = i \/ (log[i].empty /\ retained'[t] = NoMessage)
             /\ (\A k \in Task : pc'[k] \in {"store", "save"} => cur[k] # i) =>
                 saved[t] = IF log[i].empty THEN NoMessage ELSE i
  <2>1. log[j].topic # t /\ j # i
    BY <1>0, <1>3, StoresLast
  <2>. QED
    BY <1>2, <1>3, <2>1 DEF IInv, SettleInv
<1>4. \A t \in Topic : /\ retained'[t] # NoMessage => retained'[t] \in RetainedOn(t)
                       /\ saved[t] # NoMessage => saved[t] \in RetainedOn(t)
  BY <1>1, <1>2 DEF IInv, StoredInv
<1>5. \A k \in Task : /\ pc'[k] \in {"store", "save"} => pc[k] \in {"store", "save"}
                      /\ pc'[k] \in {"remove", "forget"} => cur[k] \in deleted
  BY <1>0, <1>2 DEF IInv, TaskInv
<1> HIDE DEF j
<1>. QED
  BY <1>0, <1>3, <1>4, <1>5, QuietStep

\* A request removes a topic that is among the deleted ones.
LEMMA DeleteIInv ==
  ASSUME IInv, TypeOK', NEW a \in Api,
         \/ RemoveRetained(a) \/ ForgetRetained(a)
         \/ \E t \in Topic : DeleteRetained(a, t)
  PROVE  IInv'
<1>0. /\ TypeOK /\ a \in Task /\ pc[a] \notin {"store", "save"} /\ routed \in Nat
      /\ log' = log /\ routed' = routed /\ deleted \subseteq deleted'
  BY DEF IInv, TypeOK, RemoveRetained, ForgetRetained, DeleteRetained
<1>1. \E l \in {"remove", "forget", "idle"} : pc' = [pc EXCEPT ![a] = l]
  BY DEF RemoveRetained, ForgetRetained, DeleteRetained
<1>2. pc'[a] \notin {"store", "save"} /\ \A k \in Task : k # a => pc'[k] = pc[k]
  BY <1>0, <1>1 DEF TypeOK
<1>3. \A k \in Task : k # a => cur'[k] = cur[k]
  BY <1>0 DEF TypeOK, RemoveRetained, ForgetRetained, DeleteRetained
<1>4. pc'[a] \in {"remove", "forget"} => cur'[a] \in deleted'
  <2>1. CASE RemoveRetained(a)
    BY <1>0, <2>1 DEF RemoveRetained, IInv, TaskInv
  <2>2. CASE ForgetRetained(a)
    BY <1>0, <2>2 DEF ForgetRetained, TypeOK
  <2>3. ASSUME NEW t \in Topic, DeleteRetained(a, t) PROVE cur'[a] \in deleted'
    BY <1>0, <2>3 DEF DeleteRetained, TypeOK
  <2>. QED
    BY <2>1, <2>2, <2>3
<1>5. ASSUME NEW t \in Topic
      PROVE  /\ retained'[t] \in {retained[t], NoMessage} /\ saved'[t] \in {saved[t], NoMessage}
             /\ t \notin deleted' => retained'[t] = retained[t] /\ saved'[t] = saved[t]
  <2>1. CASE RemoveRetained(a)
    <3>1. retained' = [retained EXCEPT ![cur[a]] = NoMessage] /\ saved' = saved
          /\ cur[a] \in deleted'
      BY <1>0, <2>1 DEF RemoveRetained, IInv, TaskInv
    <3>. QED
      BY <1>0, <3>1 DEF TypeOK
  <2>2. CASE ForgetRetained(a)
    <3>1. saved' = [saved EXCEPT ![cur[a]] = NoMessage] /\ retained' = retained
          /\ cur[a] \in deleted'
      BY <1>0, <2>2 DEF ForgetRetained, IInv, TaskInv
    <3>. QED
      BY <1>0, <3>1 DEF TypeOK
  <2>3. CASE \E u \in Topic : DeleteRetained(a, u)
    BY <2>3 DEF DeleteRetained
  <2>. QED
    BY <2>1, <2>2, <2>3
<1>6. ASSUME NEW t \in Topic, NEW i \in RetainedOn(t), Sole(t), Sole(t)', IsLast(i, t)
      PROVE  /\ i <= routed /\ (\A k \in Task : pc'[k] = "store" => cur'[k] # i) =>
                 retained'[t] = i \/ (log[i].empty /\ retained'[t] = NoMessage)
             /\ (\A k \in Task : pc'[k] \in {"store", "save"} => cur'[k] # i) =>
                 saved'[t] = IF log[i].empty THEN NoMessage ELSE i
  <2>1. t \notin deleted'
    BY <1>6 DEF Sole
  <2>2. \A k \in Task : pc[k] \in {"store", "save"} => pc'[k] = pc[k] /\ cur'[k] = cur[k]
    BY <1>0, <1>2, <1>3
  <2>. QED
    BY <1>5, <1>6, <2>1, <2>2 DEF IInv, SettleInv
<1>7. \A t \in Topic : /\ retained'[t] # NoMessage => retained'[t] \in RetainedOn(t)
                       /\ saved'[t] # NoMessage => saved'[t] \in RetainedOn(t)
  BY <1>5 DEF IInv, StoredInv
<1>8. \A k \in Task :
        /\ pc'[k] \in {"store", "save"} => pc[k] \in {"store", "save"} /\ cur'[k] = cur[k]
        /\ pc'[k] \in {"remove", "forget"} => cur'[k] \in deleted'
  BY <1>0, <1>2, <1>3, <1>4 DEF IInv, TaskInv
<1>. QED
  BY <1>0, <1>6, <1>7, <1>8, QuietStep

\* The router stores a message that is to be retained when it is done with it.
LEMMA RouterIInv == IInv /\ TypeOK' /\ RouterStep => IInv'
<1> SUFFICES ASSUME IInv, TypeOK', RouterStep PROVE IInv'
  OBVIOUS
<1>0. /\ TypeOK /\ UNCHANGED <<log, taskVars, saved, deleted>> /\ routed \in Nat
      /\ Len(log) \in Nat
  BY DEF IInv, TypeOK, RouterStep, RouterLookup, RouterForward, RouterRetain
<1>1. CASE RouterLookup \/ RouterForward
  <2>1. routed' = routed /\ retained' = retained
    BY <1>1 DEF RouterLookup, RouterForward
  <2>2. TaskInv' /\ StoredInv' /\ LastInv'
    BY <1>0, <2>1, SameLog DEF IInv, TaskInv, StoredInv, LastInv
  <2>3. SettleInv'
    BY <1>0, <2>1, SameLog DEF IInv, SettleInv
  <2>. QED
    BY <2>2, <2>3 DEF IInv
<1>2. CASE RouterRetain
  <2>1. /\ routed + 1 \in DOMAIN log /\ Current \in Message /\ routed' = routed + 1
        /\ retained' = IF Current.retain
                       THEN [retained EXCEPT ![Current.topic] = routed + 1] ELSE retained
    <3>1. routed + 1 \in DOMAIN log
      BY <1>0, <1>2 DEF TypeOK, RouterRetain
    <3>. QED
      BY <1>0, <1>2, <3>1 DEF TypeOK, Current, RouterRetain
  <2>2. ASSUME NEW t \in Topic
        PROVE  IF routed + 1 \in RetainedOn(t) THEN retained'[t] = routed + 1
               ELSE retained'[t] = retained[t]
    BY <1>0, <2>1, <2>2 DEF RetainedOn, Current, TypeOK, Message
  <2>3. ASSUME NEW t \in Topic, NEW i \in RetainedOn(t), Sole(t), IsLast(i, t),
               i <= routed', \A k \in Task : pc[k] = "store" => cur[k] # i
        PROVE  retained'[t] = i \/ (log[i].empty /\ retained'[t] = NoMessage)
    <3>0. i \in Nat
      BY <1>0, RetainedOnType
    <3>1. CASE routed + 1 \in RetainedOn(t)
      <4>1. i = routed + 1
        BY <1>0, <2>1, <2>3, <3>0, <3>1 DEF IsLast
      <4>. QED
        BY <2>2, <3>1, <4>1
    <3>2. CASE routed + 1 \notin RetainedOn(t)
      <4>1. i <= routed
        BY <1>0, <2>1, <2>3, <3>0, <3>2
      <4>. QED
        BY <2>2, <2>3, <3>2, <4>1 DEF IInv, SettleInv
    <3>. QED
      BY <3>1, <3>2
  <2>4. \A t \in Topic : retained'[t] # NoMessage => retained'[t] \in RetainedOn(t)
    BY <2>2 DEF IInv, StoredInv
  <2>5. \A t \in Topic : saved'[t] # NoMessage => saved'[t] \in RetainedOn(t)
    BY <1>0 DEF IInv, StoredInv
  <2>6. \A t \in Topic : \A i \in RetainedOn(t) : Sole(t) /\ Sole(t)' /\ IsLast(i, t) =>
            ((\A k \in Task : pc'[k] \in {"store", "save"} => cur'[k] # i) =>
                 saved'[t] = IF log[i].empty THEN NoMessage ELSE i)
    BY <1>0 DEF IInv, SettleInv
  <2>7. \A k \in Task : pc'[k] \in {"remove", "forget"} => cur'[k] \in deleted'
    BY <1>0 DEF IInv, TaskInv
  <2>. QED
    BY <1>0, <2>3, <2>4, <2>5, <2>6, <2>7, QuietStep
<1>. QED
  BY <1>1, <1>2 DEF RouterStep

\* A task that publishes goes on to store the message, if it is to be retained.
LEMMA PublishIInv ==
  ASSUME IInv, TypeOK', NEW k \in Task, pc[k] = "idle", NEW m \in Message, Send(m),
         m.by = k,
         cur' = [cur EXCEPT ![k] = Len(log) + 1],
         \/ pc' = [pc EXCEPT ![k] = "store"] /\ m.retain
         \/ pc' = [pc EXCEPT ![k] = "idle"] /\ ~(m.retain /\ k \in Publisher)
  PROVE  IInv'
<1>1. /\ cur'[k] = Len(log) + 1 /\ pc'[k] \in {"store", "idle"}
      /\ pc'[k] = "store" => m.retain
      /\ m.retain /\ k \in Publisher => pc'[k] = "store"
      /\ \A l \in Task : l # k => pc'[l] = pc[l] /\ cur'[l] = cur[l]
  BY DEF IInv, TypeOK
<1>2. \A l \in Task : pc[l] \in {"store", "save"} =>
          pc'[l] = pc[l] /\ cur'[l] = cur[l] /\ m.by # l
  BY <1>1
<1>3. \A l \in Task : pc'[l] \in {"store", "save"} /\ pc[l] \notin {"store", "save"} =>
          pc'[l] = "store" /\ cur'[l] = Len(log) + 1 /\ m.by = l /\ m.retain
  BY <1>1
<1>4. \A l \in Task : pc'[l] \in {"remove", "forget"} => pc'[l] = pc[l] /\ cur'[l] = cur[l]
  BY <1>1
<1>. QED
  BY <1>1, <1>2, <1>3, <1>4, SendIInv

\* Every step keeps IInv.
LEMMA StepIInv == IInv /\ [Next]_vars => IInv'
<1> SUFFICES ASSUME IInv, [Next]_vars PROVE IInv'
  OBVIOUS
<1>0. TypeOK'
  BY StepTypeOK DEF IInv
<1>1. CASE UNCHANGED vars
  <2>1. TaskInv' /\ StoredInv' /\ LastInv'
    BY <1>1, SameLog DEF vars, IInv, TaskInv, StoredInv, LastInv
  <2>2. SettleInv'
    BY <1>1, SameLog DEF vars, IInv, SettleInv
  <2>. QED
    BY <1>0, <2>1, <2>2 DEF IInv
<1>2. ASSUME NEW p \in Publisher, PublisherStep(p) PROVE IInv'
  <2>1. ASSUME NEW t \in Topic, NEW retain \in BOOLEAN, NEW empty \in BOOLEAN,
               Publish(p, t, retain, empty)
        PROVE  IInv'
    <3> DEFINE m == [topic |-> t, by |-> p, retain |-> retain, empty |-> empty]
    <3>1. m \in Message /\ Send(m) /\ m.by = p /\ m.retain = retain /\ p \in Task
          /\ pc[p] = "idle" /\ cur' = [cur EXCEPT ![p] = Len(log) + 1]
          /\ pc' = [pc EXCEPT ![p] = IF retain THEN "store" ELSE "idle"]
      BY <2>1 DEF Publish, Message
    <3> HIDE DEF m
    <3>. QED
      BY <1>0, <3>1, PublishIInv
  <2>. QED
    BY <1>0, <1>2, <2>1, StoreIInv DEF PublisherStep
<1>3. ASSUME NEW a \in Api, ApiStep(a) PROVE IInv'
  <2>1. ASSUME NEW t \in Topic, NEW retain \in BOOLEAN, NEW empty \in BOOLEAN,
               ApiPublish(a, t, retain, empty)
        PROVE  IInv'
    <3> DEFINE m == [topic |-> t, by |-> a, retain |-> retain, empty |-> empty]
    <3>1. m \in Message /\ Send(m) /\ m.by = a /\ m.retain = retain /\ a \in Task
          /\ a \notin Publisher /\ pc[a] = "idle" /\ cur' = [cur EXCEPT ![a] = Len(log) + 1]
          /\ pc' = [pc EXCEPT ![a] = IF retain /\ ~empty THEN "store" ELSE "idle"]
      BY <2>1, SourceAssumption DEF ApiPublish, Message
    <3> HIDE DEF m
    <3>. QED
      BY <1>0, <3>1, PublishIInv
  <2>. QED
    BY <1>0, <1>3, <2>1, ApiStoreIInv, DeleteIInv DEF ApiStep
<1>4. ASSUME NEW t \in WillTopic, NEW retain \in BOOLEAN, NEW empty \in BOOLEAN,
             FireWill(t, retain, empty)
      PROVE  IInv'
  <2> DEFINE m == [topic |-> t, by |-> Broker, retain |-> retain, empty |-> empty]
  <2>1. m \in Message /\ Send(m) /\ m.by = Broker /\ pc' = pc /\ cur' = cur
    BY <1>4, FilterAssumption DEF FireWill, Message
  <2>2. m.by \notin Task
    BY <2>1, SourceAssumption
  <2> HIDE DEF m
  <2>. QED
    BY <1>0, <2>1, <2>2, SendIInv
<1>5. ASSUME NEW s \in Subscriber, SubscriberStep(s) PROVE IInv'
  <2>1. UNCHANGED <<log, routed, taskVars, storeVars, deleted>>
    BY <1>5 DEF SubscriberStep, Subscribe, Unsubscribe, SendRetained
  <2>2. TaskInv' /\ StoredInv' /\ LastInv'
    BY <2>1, SameLog DEF IInv, TaskInv, StoredInv, LastInv
  <2>3. SettleInv'
    BY <2>1, SameLog DEF IInv, SettleInv
  <2>. QED
    BY <1>0, <2>2, <2>3 DEF IInv
<1>. QED
  BY <1>0, <1>1, <1>2, <1>3, <1>4, <1>5, RouterIInv DEF Next

\* IInv holds in every reachable state.
LEMMA Inductive == Spec => []IInv
  BY InitIInv, StepIInv, PTL DEF Spec

\* However the connection that publishes and the router take turns in storing,
\* and whatever goes on for other topics: when both are done with a topic that
\* one connection publishes to, a new subscriber gets the last message.
THEOREM RetainedSettlesAlways == Spec => []RetainedSettles
  BY Inductive, IInvSettles, PTL

\* And the last message is the one on disk.
THEOREM SavedSettlesAlways == Spec => []SavedSettles
  BY Inductive, IInvSettles, PTL

-----------------------------------------------------------------------------
(* What a subscriber was promised *)

\* A message for topic t, from position n of the log on, was put into the
\* channel of subscriber s.
Received(s, t, n) == \E m \in inbox[s] : m.id >= n /\ log[m.id].topic = t

\* A task that is storing a message has it for topic t.
Storing(t) == \E k \in Task : pc[k] \in {"store", "save"} /\ log[cur[k]].topic = t

\* Nothing has been published to topic t since message n was promised, so that
\* it is still stored, and the scan has still to come to it unless it was there.
Undisturbed(s, t, n) ==
    /\ retained[t] = n /\ ~log[n].empty
    /\ ~Storing(t)
    /\ \A i \in DOMAIN log : log[i].topic = t => i <= routed
    /\ t \in scan[s] \/ Received(s, t, n)

\* A later message for topic t is ahead of the router, or is the one it forwards
\* with a subscription of s still to come.
Coming(s, t, n) == \E i \in DOMAIN log :
    /\ i > n /\ i > routed /\ log[i].topic = t
    /\ rpc = "forward" /\ i = routed + 1 => \E f \in Filter : <<s, f>> \in todo

Matched(s, t) == \E f \in Filter : t \in f /\ <<s, f>> \in subs

\* As long as message n is promised to s, s has a subscription that matches its
\* topic and gets it from the scan or a later one from the router.
PromiseInv == \A p \in promised : \A t \in Topic : log[p[1]].topic = t =>
    /\ Matched(p[2], t)
    /\ Undisturbed(p[2], t, p[1]) \/ Received(p[2], t, p[1]) \/ Coming(p[2], t, p[1])

\* A message that is sent to the topic comes later than the promised one.
LEMMA SendPromise ==
  ASSUME TypeOK, PromiseInv, NEW m \in Message, Send(m),
         \A k \in Task : pc'[k] \in {"store", "save"} =>
            \/ pc[k] \in {"store", "save"} /\ cur'[k] = cur[k]
            \/ cur'[k] = Len(log) + 1
  PROVE  PromiseInv'
<1>1. SUFFICES ASSUME NEW p \in promised', NEW t \in Topic, log'[p[1]].topic = t
               PROVE  /\ Matched(p[2], t)'
                      /\ \/ Undisturbed(p[2], t, p[1])' \/ Received(p[2], t, p[1])'
                         \/ Coming(p[2], t, p[1])'
  BY DEF PromiseInv
<1> DEFINE n == p[1]
           s == p[2]
<1>2. /\ log' \in Seq(Message) /\ Len(log') = Len(log) + 1 /\ Len(log) \in Nat
      /\ DOMAIN log = 1 .. Len(log) /\ DOMAIN log' = 1 .. Len(log')
      /\ \A i \in 1 .. Len(log) : log'[i] = log[i]
      /\ log'[Len(log) + 1] = m
      /\ UNCHANGED <<routed, rpc, todo, retained, subs, scan, inbox, promised>>
  BY SendTypes DEF TypeOK
<1>3. p \in promised /\ n \in 1 .. Len(log) /\ s \in Subscriber /\ log[n].topic = t
  BY <1>1, <1>2 DEF TypeOK
<1>4. /\ Matched(s, t)
      /\ Undisturbed(s, t, n) \/ Received(s, t, n) \/ Coming(s, t, n)
  BY <1>3 DEF PromiseInv
<1>5. Matched(s, t)'
  BY <1>2, <1>4 DEF Matched
<1>6. \A x \in inbox[s] : x.id \in 1 .. Len(log)
  BY <1>3 DEF TypeOK
<1>7. Received(s, t, n) => Received(s, t, n)'
  BY <1>2, <1>6 DEF Received
<1>8. Coming(s, t, n) => Coming(s, t, n)'
  <2> SUFFICES ASSUME NEW i \in DOMAIN log,
                      /\ i > n /\ i > routed /\ log[i].topic = t
                      /\ rpc = "forward" /\ i = routed + 1 => \E f \in Filter : <<s, f>> \in todo
               PROVE  Coming(s, t, n)'
    BY DEF Coming
  <2>1. i \in DOMAIN log' /\ log'[i] = log[i]
    BY <1>2
  <2>. QED
    BY <1>2, <2>1 DEF Coming
<1>9. ASSUME Undisturbed(s, t, n) PROVE Undisturbed(s, t, n)' \/ Coming(s, t, n)'
  <2>1. CASE m.topic = t
    <3> DEFINE i == Len(log) + 1
    <3>1. i \in DOMAIN log' /\ log'[i].topic = t /\ i > n /\ i > routed
          /\ (rpc = "forward" => i # routed + 1)
      BY <1>2, <1>3, <2>1 DEF TypeOK
    <3>. QED
      BY <1>2, <3>1 DEF Coming
  <2>2. CASE m.topic # t
    <3>1. ~Storing(t)'
      <4> SUFFICES ASSUME NEW k \in Task, pc'[k] \in {"store", "save"}, log'[cur'[k]].topic = t
                   PROVE  FALSE
        BY DEF Storing
      <4>1. CASE cur'[k] = Len(log) + 1
        BY <1>2, <2>2, <4>1
      <4>2. CASE pc[k] \in {"store", "save"} /\ cur'[k] = cur[k]
        <5>1. cur[k] \in 1 .. Len(log)
          BY <4>2 DEF TypeOK
        <5>. QED
          BY <1>2, <1>9, <4>2, <5>1 DEF Undisturbed, Storing
      <4>. QED
        BY <4>1, <4>2
    <3>2. \A i \in DOMAIN log' : log'[i].topic = t => i <= routed'
      <4> SUFFICES ASSUME NEW i \in DOMAIN log', log'[i].topic = t PROVE i <= routed
        BY <1>2
      <4>1. i # Len(log) + 1
        BY <1>2, <2>2
      <4>2. i \in DOMAIN log /\ log[i].topic = t
        BY <1>2, <4>1
      <4>. QED
        BY <1>9, <4>2 DEF Undisturbed
    <3>3. ~log'[n].empty /\ retained'[t] = n /\ (t \in scan'[s] \/ Received(s, t, n)')
      BY <1>2, <1>3, <1>7, <1>9 DEF Undisturbed
    <3>. QED
      BY <3>1, <3>2, <3>3 DEF Undisturbed
  <2>. QED
    BY <2>1, <2>2
<1>. QED
  BY <1>4, <1>5, <1>7, <1>8, <1>9

\* A task that is not storing a message for the topic does not touch what is
\* stored for it.
LEMMA TaskPromise ==
  ASSUME TypeOK, PromiseInv,
         UNCHANGED <<log, routed, rpc, todo, subs, scan, inbox>>, promised' \subseteq promised,
         \A p \in promised' : \A t \in Topic : log[p[1]].topic = t /\ ~Storing(t) =>
            ~Storing(t)' /\ retained'[t] = retained[t]
  PROVE  PromiseInv'
<1>1. SUFFICES ASSUME NEW p \in promised', NEW t \in Topic, log[p[1]].topic = t
               PROVE  /\ Matched(p[2], t)'
                      /\ \/ Undisturbed(p[2], t, p[1])' \/ Received(p[2], t, p[1])'
                         \/ Coming(p[2], t, p[1])'
  BY DEF PromiseInv
<1> DEFINE n == p[1]
           s == p[2]
<1>2. /\ Matched(s, t)
      /\ Undisturbed(s, t, n) \/ Received(s, t, n) \/ Coming(s, t, n)
  BY <1>1 DEF PromiseInv
<1>3. Matched(s, t)'
  BY <1>2 DEF Matched
<1>4. Received(s, t, n) => Received(s, t, n)'
  BY DEF Received
<1>5. Coming(s, t, n) => Coming(s, t, n)'
  BY DEF Coming
<1>6. Undisturbed(s, t, n) => Undisturbed(s, t, n)'
  <2> SUFFICES ASSUME Undisturbed(s, t, n) PROVE Undisturbed(s, t, n)'
    OBVIOUS
  <2>1. ~Storing(t)' /\ retained'[t] = n
    BY <1>1 DEF Undisturbed
  <2>. QED
    BY <1>4, <2>1 DEF Undisturbed
<1>. QED
  BY <1>2, <1>3, <1>4, <1>5, <1>6

\* The router forwards a message to every subscription that matches it, and
\* stores it only when it has been forwarded.
LEMMA RouterPromise == TypeOK /\ PromiseInv /\ RouterStep => PromiseInv'
<1> SUFFICES ASSUME TypeOK, PromiseInv, RouterStep PROVE PromiseInv'
  OBVIOUS
<1>1. /\ UNCHANGED <<log, taskVars, subs, scan, promised>>
      /\ routed \in Nat /\ Len(log) \in Nat /\ DOMAIN log = 1 .. Len(log)
  BY DEF TypeOK, RouterStep, RouterLookup, RouterForward, RouterRetain
<1>2. SUFFICES ASSUME NEW p \in promised, NEW t \in Topic, log[p[1]].topic = t
               PROVE  /\ Matched(p[2], t)'
                      /\ \/ Undisturbed(p[2], t, p[1])' \/ Received(p[2], t, p[1])'
                         \/ Coming(p[2], t, p[1])'
  BY <1>1 DEF PromiseInv
<1> DEFINE n == p[1]
           s == p[2]
<1>3. /\ Matched(s, t)
      /\ Undisturbed(s, t, n) \/ Received(s, t, n) \/ Coming(s, t, n)
  BY <1>2 DEF PromiseInv
<1>4. n \in 1 .. Len(log) /\ s \in Subscriber
  BY DEF TypeOK
<1>5. Matched(s, t)'
  BY <1>1, <1>3 DEF Matched
<1>6. inbox[s] \subseteq inbox'[s]
  <2>1. CASE RouterLookup \/ RouterRetain
    BY <2>1 DEF RouterLookup, RouterRetain
  <2>2. CASE RouterForward
    BY <1>4, <2>2 DEF RouterForward, TypeOK
  <2>. QED
    BY <2>1, <2>2 DEF RouterStep
<1>7. Received(s, t, n) => Received(s, t, n)'
  BY <1>1, <1>6 DEF Received
<1>8. ASSUME Undisturbed(s, t, n) PROVE Undisturbed(s, t, n)'
  <2>1. ~Storing(t)'
    BY <1>1, <1>8 DEF Undisturbed, Storing
  <2>2. \A i \in DOMAIN log' : log'[i].topic = t => i <= routed'
    <3>1. routed' \in {routed, routed + 1}
      BY DEF RouterStep, RouterLookup, RouterForward, RouterRetain
    <3>. QED
      BY <1>1, <1>8, <3>1 DEF Undisturbed
  <2>3. retained'[t] = retained[t]
    <3>1. CASE RouterLookup \/ RouterForward
      BY <3>1 DEF RouterLookup, RouterForward
    <3>2. CASE RouterRetain
      <4>1. routed + 1 \in DOMAIN log
        BY <1>1, <3>2 DEF TypeOK, RouterRetain
      <4>2. Current.topic # t
        BY <1>1, <1>8, <4>1 DEF Undisturbed, Current
      <4>. QED
        BY <3>2, <4>2 DEF RouterRetain, TypeOK
    <3>. QED
      BY <3>1, <3>2 DEF RouterStep
  <2>. QED
    BY <1>1, <1>7, <1>8, <2>1, <2>2, <2>3 DEF Undisturbed
<1>9. ASSUME Coming(s, t, n) PROVE Coming(s, t, n)' \/ Received(s, t, n)'
  <2>1. PICK i \in DOMAIN log :
          /\ i > n /\ i > routed /\ log[i].topic = t
          /\ rpc = "forward" /\ i = routed + 1 => \E f \in Filter : <<s, f>> \in todo
    BY <1>9 DEF Coming
  <2>2. CASE RouterLookup
    <3>1. PICK f \in Filter : t \in f /\ <<s, f>> \in subs
      BY <1>3 DEF Matched
    <3>2. i = routed + 1 => <<s, f>> \in todo'
      BY <2>1, <2>2, <3>1 DEF RouterLookup, Matching, Current
    <3>. QED
      BY <1>1, <2>1, <2>2, <3>2 DEF RouterLookup, Coming
  <2>3. CASE RouterForward
    <3>1. PICK x \in todo :
            /\ inbox' = [inbox EXCEPT ![x[1]] = @ \union {[id |-> routed + 1, retain |-> FALSE]}]
            /\ todo' = todo \ {x} /\ UNCHANGED <<routed, rpc>> /\ rpc = "forward"
      BY <2>3 DEF RouterForward
    <3>2. CASE i = routed + 1
      <4>1. PICK f \in Filter : <<s, f>> \in todo
        BY <2>1, <3>1, <3>2
      <4>2. CASE x = <<s, f>>
        <5> DEFINE e == [id |-> routed + 1, retain |-> FALSE]
        <5>1. e \in inbox'[s] /\ e.id = i
          BY <1>4, <3>1, <3>2, <4>2 DEF TypeOK
        <5> HIDE DEF e
        <5>2. e.id >= n /\ log'[e.id].topic = t
          BY <1>1, <1>4, <2>1, <5>1
        <5>. QED
          BY <5>1, <5>2 DEF Received
      <4>3. CASE x # <<s, f>>
        <5>1. <<s, f>> \in todo'
          BY <3>1, <4>1, <4>3
        <5>. QED
          BY <1>1, <2>1, <3>1, <5>1 DEF Coming
      <4>. QED
        BY <4>2, <4>3
    <3>3. CASE i # routed + 1
      BY <1>1, <2>1, <3>1, <3>3 DEF Coming
    <3>. QED
      BY <3>2, <3>3
  <2>4. CASE RouterRetain
    <3>1. rpc = "forward" /\ todo = {} /\ routed' = routed + 1 /\ rpc' = "idle"
      BY <2>4 DEF RouterRetain
    <3>2. i > routed'
      BY <1>1, <2>1, <3>1
    <3>. QED
      BY <1>1, <2>1, <3>1, <3>2 DEF Coming
  <2>. QED
    BY <2>2, <2>3, <2>4 DEF RouterStep
<1>. QED
  BY <1>3, <1>5, <1>7, <1>8, <1>9

\* A subscriber makes itself promises, gets what the scan comes to, and takes
\* back what it was promised when it unsubscribes.
LEMMA SubscriberPromise ==
  ASSUME IInv, PromiseInv, NEW s \in Subscriber, SubscriberStep(s)
  PROVE  PromiseInv'
<1>1. /\ UNCHANGED <<log, routed, rpc, todo, taskVars, storeVars>> /\ TypeOK
      /\ DOMAIN log = 1 .. Len(log) /\ Len(log) \in Nat
  BY DEF IInv, TypeOK, SubscriberStep, Subscribe, Unsubscribe, SendRetained
<1>2. SUFFICES ASSUME NEW p \in promised', NEW t \in Topic, log[p[1]].topic = t
               PROVE  /\ Matched(p[2], t)'
                      /\ \/ Undisturbed(p[2], t, p[1])' \/ Received(p[2], t, p[1])'
                         \/ Coming(p[2], t, p[1])'
  BY <1>1 DEF PromiseInv
<1> DEFINE n == p[1]
           r == p[2]
<1>s. \A u \in Topic : ~Storing(u) => ~Storing(u)'
  BY <1>1 DEF Storing
<1>3. ASSUME p \in promised PROVE
        /\ Matched(r, t)
        /\ Undisturbed(r, t, n) \/ Received(r, t, n) \/ Coming(r, t, n)
        /\ r \in Subscriber /\ n \in 1 .. Len(log)
        /\ Coming(r, t, n) => Coming(r, t, n)'
  BY <1>1, <1>2, <1>3 DEF PromiseInv, Coming, TypeOK
<1>4. ASSUME NEW f \in Filter, Subscribe(s, f)
      PROVE  /\ Matched(r, t)'
             /\ Undisturbed(r, t, n)' \/ Received(r, t, n)' \/ Coming(r, t, n)'
  <2>1. /\ scan[s] = {} /\ subs' = subs \union {<<s, f>>} /\ scan' = [scan EXCEPT ![s] = f]
        /\ inbox' = inbox
    BY <1>4 DEF Subscribe
  <2>2. CASE p \in promised
    <3>1. Matched(r, t)' /\ (Received(r, t, n) => Received(r, t, n)')
      BY <1>1, <1>3, <2>1, <2>2 DEF Matched, Received
    <3>2. ASSUME Undisturbed(r, t, n) PROVE Undisturbed(r, t, n)'
      <4>1. t \in scan'[r] \/ Received(r, t, n)'
        <5>1. CASE r = s
          BY <2>1, <3>1, <3>2, <5>1 DEF Undisturbed
        <5>2. CASE r # s
          BY <1>1, <1>3, <2>1, <2>2, <3>1, <3>2, <5>2 DEF Undisturbed, TypeOK
        <5>. QED
          BY <5>1, <5>2
      <4>. QED
        BY <1>1, <1>s, <3>2, <4>1 DEF Undisturbed
    <3>. QED
      BY <1>3, <2>2, <3>1, <3>2
  <2>3. CASE p \notin promised
    <3>1. PICK u \in f : Settled(u) /\ Effective(u) # NoMessage /\ p = <<Effective(u), s>>
      BY <1>4, <2>3 DEF Subscribe
    <3>2. u \in Topic /\ retained[u] = n /\ r = s /\ ~log[n].empty /\ retained[u] # NoMessage
      BY <3>1, FilterAssumption DEF Effective
    <3>3. log[n].topic = u /\ u = t
      BY <1>2, <3>2 DEF IInv, StoredInv, RetainedOn
    <3>4. ~Storing(t) /\ \A i \in DOMAIN log : log[i].topic = t => i <= routed
      BY <3>1, <3>3 DEF Settled, WorkingOn, Storing
    <3>5. t \in scan'[r]
      BY <1>1, <2>1, <3>2, <3>3 DEF TypeOK
    <3>6. Undisturbed(r, t, n)'
      BY <1>1, <1>s, <3>2, <3>3, <3>4, <3>5 DEF Undisturbed
    <3>7. Matched(r, t)'
      BY <2>1, <3>2, <3>3 DEF Matched
    <3>. QED
      BY <3>6, <3>7
  <2>. QED
    BY <2>2, <2>3
<1>5. ASSUME NEW f \in Filter, Unsubscribe(s, f)
      PROVE  /\ Matched(r, t)'
             /\ Undisturbed(r, t, n)' \/ Received(r, t, n)' \/ Coming(r, t, n)'
  <2>1. /\ subs' = subs \ {<<s, f>>} /\ UNCHANGED <<scan, inbox>>
        /\ p \in promised /\ ~(r = s /\ t \in f)
    BY <1>2, <1>5 DEF Unsubscribe
  <2>2. Matched(r, t)'
    <3>1. PICK g \in Filter : t \in g /\ <<r, g>> \in subs
      BY <1>3, <2>1 DEF Matched
    <3>2. <<r, g>> # <<s, f>>
      BY <2>1, <3>1
    <3>. QED
      BY <2>1, <3>1, <3>2 DEF Matched
  <2>3. Received(r, t, n) => Received(r, t, n)'
    BY <1>1, <2>1 DEF Received
  <2>4. Undisturbed(r, t, n) => Undisturbed(r, t, n)'
    BY <1>1, <1>s, <2>1, <2>3 DEF Undisturbed
  <2>. QED
    BY <1>3, <2>1, <2>2, <2>3, <2>4
<1>6. ASSUME NEW u \in Topic, SendRetained(s, u)
      PROVE  /\ Matched(r, t)'
             /\ Undisturbed(r, t, n)' \/ Received(r, t, n)' \/ Coming(r, t, n)'
  <2>1. /\ scan' = [scan EXCEPT ![s] = @ \ {u}] /\ UNCHANGED <<subs, promised>>
        /\ inbox' = IF Effective(u) = NoMessage THEN inbox
                    ELSE [inbox EXCEPT ![s] = @ \union {[id |-> Effective(u), retain |-> TRUE]}]
    BY <1>6 DEF SendRetained
  <2>2. p \in promised /\ Matched(r, t)'
    BY <1>2, <1>3, <2>1 DEF Matched
  <2>3. inbox[r] \subseteq inbox'[r]
    BY <1>1, <1>3, <2>1, <2>2 DEF TypeOK
  <2>4. Received(r, t, n) => Received(r, t, n)'
    BY <1>1, <2>3 DEF Received
  <2>5. ASSUME Undisturbed(r, t, n) PROVE Undisturbed(r, t, n)'
    <3>1. t \in scan'[r] \/ Received(r, t, n)'
      <4>1. CASE r = s /\ u = t
        <5>1. retained[t] = n /\ ~log[n].empty /\ n # NoMessage
          BY <1>3, <2>2, <2>5 DEF Undisturbed
        <5>2. Effective(t) = n
          BY <5>1 DEF Effective
        <5> DEFINE e == [id |-> n, retain |-> TRUE]
        <5>3. e \in inbox'[r] /\ e.id = n
          BY <1>1, <1>3, <2>1, <2>2, <4>1, <5>1, <5>2 DEF TypeOK
        <5> HIDE DEF e
        <5>4. e.id >= n /\ log'[e.id].topic = t
          BY <1>1, <1>2, <1>3, <2>2, <5>3
        <5>. QED
          BY <5>3, <5>4 DEF Received
      <4>2. CASE ~(r = s /\ u = t)
        <5>1. t \in scan[r] => t \in scan'[r]
          BY <1>1, <1>3, <2>1, <2>2, <4>2 DEF TypeOK
        <5>. QED
          BY <2>4, <2>5, <5>1 DEF Undisturbed
      <4>. QED
        BY <4>1, <4>2
    <3>. QED
      BY <1>1, <1>s, <2>5, <3>1 DEF Undisturbed
  <2>. QED
    BY <1>3, <2>2, <2>4, <2>5
<1>. QED
  BY <1>4, <1>5, <1>6 DEF SubscriberStep

\* Every step keeps PromiseInv.
LEMMA StepPromise == IInv /\ PromiseInv /\ [Next]_vars => PromiseInv'
<1> SUFFICES ASSUME IInv, PromiseInv, [Next]_vars PROVE PromiseInv'
  OBVIOUS
<1>0. TypeOK
  BY DEF IInv
<1>1. CASE UNCHANGED vars
  <2>1. \A t \in Topic : ~Storing(t) => ~Storing(t)'
    BY <1>1 DEF vars, Storing
  <2>. QED
    BY <1>0, <1>1, <2>1, TaskPromise DEF vars
<1>2. ASSUME NEW k \in Task, NEW m \in Message, Send(m),
             cur' = [cur EXCEPT ![k] = Len(log) + 1],
             \E l \in {"store", "idle"} : pc' = [pc EXCEPT ![k] = l]
      PROVE  PromiseInv'
  <2>1. \A l \in Task : pc'[l] \in {"store", "save"} =>
            \/ pc[l] \in {"store", "save"} /\ cur'[l] = cur[l]
            \/ cur'[l] = Len(log) + 1
    BY <1>0, <1>2 DEF TypeOK
  <2>. QED
    BY <1>0, <1>2, <2>1, SendPromise
<1>3. ASSUME NEW k \in Task, pc[k] \in {"store", "save"}, cur' = cur,
             UNCHANGED <<log, routed, rpc, todo, subs, scan, inbox, promised>>,
             \E l \in {"save", "idle"} : pc' = [pc EXCEPT ![k] = l],
             \/ retained' = retained
             \/ \E new : retained' = [retained EXCEPT ![log[cur[k]].topic] = new]
      PROVE  PromiseInv'
  <2>1. ASSUME NEW t \in Topic, ~Storing(t) PROVE ~Storing(t)' /\ retained'[t] = retained[t]
    <3>1. ~Storing(t)'
      <4>1. \A l \in Task : pc'[l] \in {"store", "save"} => pc[l] \in {"store", "save"}
        BY <1>0, <1>3 DEF TypeOK
      <4>. QED
        BY <1>3, <2>1, <4>1 DEF Storing
    <3>2. log[cur[k]].topic # t
      BY <1>3, <2>1 DEF Storing
    <3>. QED
      BY <1>0, <1>3, <3>1, <3>2 DEF TypeOK
  <2>. QED
    BY <1>0, <1>3, <2>1, TaskPromise
<1>4. ASSUME NEW p \in Publisher, PublisherStep(p) PROVE PromiseInv'
  <2>0. p \in Task
    OBVIOUS
  <2>1. ASSUME NEW t \in Topic, NEW retain \in BOOLEAN, NEW empty \in BOOLEAN,
               Publish(p, t, retain, empty)
        PROVE  PromiseInv'
    <3> DEFINE m == [topic |-> t, by |-> p, retain |-> retain, empty |-> empty]
    <3>1. m \in Message /\ Send(m) /\ cur' = [cur EXCEPT ![p] = Len(log) + 1]
          /\ pc' = [pc EXCEPT ![p] = IF retain THEN "store" ELSE "idle"]
      BY <2>1 DEF Publish, Message
    <3> HIDE DEF m
    <3>. QED
      BY <1>2, <2>0, <3>1
  <2>2. CASE Store(p) \/ Save(p)
    BY <1>3, <2>0, <2>2 DEF Store, Save
  <2>. QED
    BY <1>4, <2>1, <2>2 DEF PublisherStep
<1>5. ASSUME NEW a \in Api, ApiStep(a) PROVE PromiseInv'
  <2>0. a \in Task
    OBVIOUS
  <2>1. ASSUME NEW t \in Topic, NEW retain \in BOOLEAN, NEW empty \in BOOLEAN,
               ApiPublish(a, t, retain, empty)
        PROVE  PromiseInv'
    <3> DEFINE m == [topic |-> t, by |-> a, retain |-> retain, empty |-> empty]
    <3>1. m \in Message /\ Send(m) /\ cur' = [cur EXCEPT ![a] = Len(log) + 1]
          /\ pc' = [pc EXCEPT ![a] = IF retain /\ ~empty THEN "store" ELSE "idle"]
      BY <2>1 DEF ApiPublish, Message
    <3> HIDE DEF m
    <3>. QED
      BY <1>2, <2>0, <3>1
  <2>2. CASE ApiStore(a)
    BY <1>3, <2>0, <2>2 DEF ApiStore
  <2>3. CASE \/ RemoveRetained(a) \/ ForgetRetained(a)
             \/ \E t \in Topic : DeleteRetained(a, t)
    <3>1. /\ pc[a] \notin {"store", "save"} /\ promised' \subseteq promised
          /\ UNCHANGED <<log, routed, rpc, todo, subs, scan, inbox>>
          /\ \E l \in {"remove", "forget", "idle"} : pc' = [pc EXCEPT ![a] = l]
          /\ cur' = cur \/ \E t \in Topic : cur' = [cur EXCEPT ![a] = t]
      BY <2>3 DEF RemoveRetained, ForgetRetained, DeleteRetained
    <3>2. \A k \in Task : pc'[k] \in {"store", "save"} =>
              pc[k] \in {"store", "save"} /\ cur'[k] = cur[k]
      BY <1>0, <2>0, <3>1 DEF TypeOK
    <3>3. \A t \in Topic : ~Storing(t) => ~Storing(t)'
      BY <3>1, <3>2 DEF Storing
    <3>4. ASSUME NEW p \in promised', NEW t \in Topic, log[p[1]].topic = t
          PROVE  retained'[t] = retained[t]
      <4>1. CASE RemoveRetained(a)
        BY <1>0, <3>4, <4>1 DEF RemoveRetained, TypeOK
      <4>2. CASE ~RemoveRetained(a)
        BY <2>3, <4>2 DEF ForgetRetained, DeleteRetained
      <4>. QED
        BY <4>1, <4>2
    <3>. QED
      BY <1>0, <3>1, <3>3, <3>4, TaskPromise
  <2>. QED
    BY <1>5, <2>1, <2>2, <2>3 DEF ApiStep
<1>6. ASSUME NEW t \in WillTopic, NEW retain \in BOOLEAN, NEW empty \in BOOLEAN,
             FireWill(t, retain, empty)
      PROVE  PromiseInv'
  <2> DEFINE m == [topic |-> t, by |-> Broker, retain |-> retain, empty |-> empty]
  <2>1. m \in Message /\ Send(m) /\ pc' = pc /\ cur' = cur
    BY <1>6, FilterAssumption DEF FireWill, Message
  <2> HIDE DEF m
  <2>. QED
    BY <1>0, <2>1, SendPromise
<1>. QED
  BY <1>0, <1>1, <1>4, <1>5, <1>6, RouterPromise, SubscriberPromise DEF Next

\* Whatever is published, stored and removed while it subscribes, a subscriber
\* that comes when a topic is settled gets the message retained for it or a
\* later one, unless the message is deleted or the subscription cancelled.
THEOREM SettledReachesAlways == Spec => []SettledReaches
<1>1. Init => PromiseInv
  BY DEF Init, PromiseInv
<1>2. TypeOK /\ PromiseInv => SettledReaches
  <2> SUFFICES ASSUME TypeOK, PromiseInv, NEW p \in promised,
                      log[p[1]].topic \notin scan[p[2]], Settled(log[p[1]].topic)
               PROVE  \E m \in inbox[p[2]] : m.id >= p[1] /\ log[m.id].topic = log[p[1]].topic
    BY DEF SettledReaches
  <2>1. log[p[1]].topic \in Topic
    <3>1. p[1] \in 1 .. Len(log) /\ log \in Seq(Message)
      BY DEF TypeOK
    <3>2. log[p[1]] \in Message
      BY <3>1
    <3>. QED
      BY <3>2 DEF Message
  <2>2. PICK t \in Topic : t = log[p[1]].topic
    BY <2>1
  <2>3. Undisturbed(p[2], t, p[1]) \/ Received(p[2], t, p[1]) \/ Coming(p[2], t, p[1])
    BY <2>2 DEF PromiseInv
  <2>4. ~Coming(p[2], t, p[1])
    <3> SUFFICES ASSUME NEW i \in DOMAIN log, i > routed, log[i].topic = t PROVE FALSE
      BY DEF Coming
    <3>1. i <= routed /\ i \in Nat /\ routed \in Nat
      BY <2>2 DEF Settled, TypeOK
    <3>. QED
      BY <3>1
  <2>5. Received(p[2], t, p[1])
    BY <2>2, <2>3, <2>4 DEF Undisturbed
  <2>. QED
    BY <2>2, <2>5 DEF Received
<1>. QED
  BY <1>1, <1>2, StepPromise, Inductive, TypeCorrect, PTL DEF Spec
=============================================================================
