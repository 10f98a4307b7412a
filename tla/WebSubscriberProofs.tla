------------------------- MODULE WebSubscriberProofs -------------------------
(***************************************************************************)
(* Theorems about WebSubscriber, for every set of dashboards, topics and   *)
(* filters and for any number of messages and commands.                    *)
(***************************************************************************)
EXTENDS WebSubscriber, TLAPS

USE DEF taskVars, browserVars, routerVars, Goto, Take, NextIs, Give

-----------------------------------------------------------------------------
(* The inductive invariant *)

\* What a browser has been told is in the list of its task, and nothing that
\* is on the way to the task cancels it.
ToldIsActive == \A d \in Dashboard :
    /\ ~reads[d] => eof[d]
    /\ pc[d] = "reply" /\ cur[d].type = "subscribe" => cur[d].filter \in active[d]
    /\ pc[d] \in {"cleanup", "gone"} => told[d] = {}
    /\ \A f \in told[d] :
         /\ f \in active[d]
         /\ ~eof[d]
         /\ \A i \in DOMAIN input[d] : ~Cancels(input[d][i], f)

\* What is due was published, on a topic of a filter that is still in force.
DueIsTold == \A d \in Dashboard : \A m \in due[d] :
    m[1] \in 1 .. Len(log) /\ m[2] \in told[d] /\ log[m[1]] \in m[2]

\* The router has one message in work, for each dashboard at most once, and
\* hands on nothing newer.
NothingNewer ==
    /\ \A e, g \in todo : e[1] = g[1] => e = g
    /\ \A d \in Dashboard :
         /\ \A i \in DOMAIN shown[d] : shown[d][i] <= looked
         /\ \A i \in DOMAIN channel[d] : channel[d][i] <= looked
         /\ \A e \in todo : e[1] = d =>
              /\ \A i \in DOMAIN shown[d] : shown[d][i] < looked
              /\ \A i \in DOMAIN channel[d] : channel[d][i] < looked

IInv == Consistent /\ ToldIsActive /\ DueIsTold /\ NothingNewer /\ ToldGetsAll

-----------------------------------------------------------------------------
(* Types *)

\* The initial state is of the types of TypeOK.
LEMMA InitTypeOK == Init => TypeOK
  BY BoundAssumption DEF Init, TypeOK, Subscription, Command, NoCommand

\* The subscriptions of a message, one of each dashboard.
LEMMA DedupProperties ==
  ASSUME NEW S \in SUBSET Subscription
  PROVE  /\ Dedup(S) \subseteq S
         /\ \A e \in S : \E g \in Dedup(S) : g[1] = e[1]
         /\ \A e, g \in Dedup(S) : e[1] = g[1] => e = g
<1> DEFINE pick(d) == CHOOSE e \in S : e[1] = d
<1>1. ASSUME NEW e \in S PROVE pick(e[1]) \in S /\ pick(e[1])[1] = e[1]
  <2>1. \E x \in S : x[1] = e[1]
    OBVIOUS
  <2>. QED
    BY <2>1
<1>2. Dedup(S) = {pick(d) : d \in {e[1] : e \in S}}
  BY DEF Dedup
<1> HIDE DEF pick
<1>. QED
  BY <1>1, <1>2

\* The commands about subscriptions have a filter.
LEMMA CommandFilter ==
  ASSUME NEW c \in Command \union {NoCommand}, c.type \in {"subscribe", "unsubscribe"}
  PROVE  c.filter \in Filter
  BY DEF Command, NoCommand

\* Every step keeps the types.
LEMMA StepTypeOK == TypeOK /\ [Next]_vars => TypeOK'
<1> SUFFICES ASSUME TypeOK, [Next]_vars PROVE TypeOK'
  OBVIOUS
<1> USE DEF TypeOK
<1>1. ASSUME NEW d \in Dashboard, SendCommand(d) PROVE TypeOK'
  <2>1. PICK c \in Command :
          /\ input' = [input EXCEPT ![d] = Append(@, c)]
          /\ eof' = [eof EXCEPT ![d] = c.type = "close"]
          /\ Give(d, {f \in Filter : Cancels(c, f)})
    BY <1>1 DEF SendCommand
  <2>2. input' \in [Dashboard -> Seq(Command)]
    BY <2>1
  <2>3. eof' \in [Dashboard -> BOOLEAN]
    <3>1. (c.type = "close") \in BOOLEAN
      OBVIOUS
    <3>. QED
      BY <2>1, <3>1
  <2>4. told' \in [Dashboard -> SUBSET Filter] /\ due' \in [Dashboard -> SUBSET (Nat \X Filter)]
    BY <2>1
  <2>. QED
    BY <1>1, <2>2, <2>3, <2>4 DEF SendCommand
<1>2. ASSUME NEW d \in Dashboard, HangUp(d) PROVE TypeOK'
  BY <1>2 DEF HangUp
<1>3. ASSUME NEW d \in Dashboard, StopReading(d) PROVE TypeOK'
  BY <1>3 DEF StopReading
<1>4. ASSUME NEW d \in Dashboard, TaskStep(d) PROVE TypeOK'
  <2>1. CASE Subscribe(d)
    <3>1. Head(input[d]) \in Command /\ Head(input[d]).filter \in Filter
      BY <2>1 DEF Subscribe, Command
    <3>2. tree' \subseteq Subscription
      BY <2>1, <3>1 DEF Subscribe, Subscription
    <3>. QED
      BY <2>1, <3>1, <3>2 DEF Subscribe
  <2>2. CASE Register(d)
    <3>1. pc[d] = "register" /\ cur[d] \in Command \union {NoCommand}
      BY <2>2 DEF Register
    <3>2. cur[d].filter \in Filter
      BY <3>1, CommandFilter
    <3>. QED
      BY <2>2, <3>2 DEF Register
  <2>3. CASE Reply(d)
    <3>1. cur[d].type = "subscribe" => cur[d].filter \in Filter
      BY CommandFilter
    <3>2. told' \in [Dashboard -> SUBSET Filter]
      BY <2>3, <3>1 DEF Reply
    <3>3. cur' \in [Dashboard -> Command \union {NoCommand}]
      BY <2>3 DEF Reply
    <3>. QED
      BY <2>3, <3>2, <3>3 DEF Reply
  <2>4. CASE Unsubscribe(d)
    <3>1. Head(input[d]) \in Command
      BY <2>4 DEF Unsubscribe
    <3>2. tree' \subseteq Subscription
      BY <2>4 DEF Unsubscribe
    <3>. QED
      BY <2>4, <3>1, <3>2 DEF Unsubscribe
  <2>5. CASE Other(d)  BY <2>5 DEF Other
  <2>6. CASE Close(d)  BY <2>6 DEF Close
  <2>7. CASE Forward(d)
    <3>1. Head(channel[d]) \in Nat /\ Tail(channel[d]) \in Seq(Nat)
      BY <2>7 DEF Forward
    <3>2. channel' \in [Dashboard -> Seq(Nat)]
      BY <2>7, <3>1 DEF Forward
    <3>3. shown' \in [Dashboard -> Seq(Nat)]
      <4>1. shown' = shown \/ shown' = [shown EXCEPT ![d] = Append(@, Head(channel[d]))]
        BY <2>7 DEF Forward
      <4>2. Append(shown[d], Head(channel[d])) \in Seq(Nat)
        BY <3>1
      <4>. QED
        BY <4>1, <4>2
    <3>. QED
      BY <2>7, <3>2, <3>3 DEF Forward
  <2>8. CASE CleanUp(d)  BY <2>8 DEF CleanUp
  <2>9. CASE Deregister(d)  BY <2>9 DEF Deregister
  <2>. QED
    BY <1>4, <2>1, <2>2, <2>3, <2>4, <2>5, <2>6, <2>7, <2>8, <2>9 DEF TaskStep
<1>5. ASSUME NEW t \in Topic, Publish(t) PROVE TypeOK'
  <2>1. log' \in Seq(Topic) /\ Len(log') = Len(log) + 1
    BY <1>5 DEF Publish
  <2>2. due' \in [Dashboard -> SUBSET (Nat \X Filter)]
    BY <1>5 DEF Publish
  <2>. QED
    BY <1>5, <2>1, <2>2 DEF Publish
<1>6. CASE RouterLookup
  <2>1. Matching(log[looked + 1]) \in SUBSET Subscription
    BY DEF Matching
  <2>2. todo' \in SUBSET Subscription
    BY <1>6, <2>1, DedupProperties DEF RouterLookup
  <2>3. looked' \in Nat /\ looked' <= Len(log)
    BY <1>6 DEF RouterLookup
  <2>. QED
    BY <1>6, <2>2, <2>3 DEF RouterLookup
<1>7. ASSUME NEW e \in todo, RouterForward(e) PROVE TypeOK'
  <2>1. channel' \in [Dashboard -> Seq(Nat)]
    <3>1. e[1] \in Dashboard => Append(channel[e[1]], looked) \in Seq(Nat)
      OBVIOUS
    <3>2. \/ channel' = channel
          \/ channel' = [channel EXCEPT ![e[1]] = Append(@, looked)]
      BY <1>7 DEF RouterForward
    <3>. QED
      BY <3>1, <3>2
  <2>. QED
    BY <1>7, <2>1 DEF RouterForward
<1>8. CASE UNCHANGED vars
  BY <1>8 DEF vars
<1>. QED
  BY <1>1, <1>2, <1>3, <1>4, <1>5, <1>6, <1>7, <1>8 DEF Next, RouterStep

-----------------------------------------------------------------------------
(* The tree, the map and the tasks *)

\* The filters of a dashboard in the tree are those its task will remove, and
\* the map knows its channel meanwhile: every step of a task changes both.
LEMMA StepNothingLeft == TypeOK /\ NothingLeft /\ [Next]_vars => NothingLeft'
<1> SUFFICES ASSUME TypeOK, NothingLeft, [Next]_vars PROVE NothingLeft'
  OBVIOUS
<1> DEFINE Of(T, d) == {e[2] : e \in {x \in T : x[1] = d}}
           Reg(d) == IF pc[d] = "register" THEN {cur[d].filter} ELSE {}
<1>0. \A d \in Dashboard : /\ Of(tree, d) = active[d] \union Reg(d)
                           /\ active[d] # {} => d \in registered
                           /\ pc[d] = "gone" => active[d] = {} /\ d \notin registered
  BY DEF NothingLeft
<1>1. SUFFICES ASSUME NEW d \in Dashboard
               PROVE  /\ Of(tree', d) = active'[d] \union Reg(d)'
                      /\ active'[d] # {} => d \in registered'
                      /\ pc'[d] = "gone" => active'[d] = {} /\ d \notin registered'
  BY DEF NothingLeft
<1>2. ASSUME UNCHANGED <<pc, cur, active, tree, registered>>
      PROVE  /\ Of(tree', d) = active'[d] \union Reg(d)'
             /\ active'[d] # {} => d \in registered'
             /\ pc'[d] = "gone" => active'[d] = {} /\ d \notin registered'
  BY <1>0, <1>2
<1>3. ASSUME NEW u \in Dashboard, u # d, TaskStep(u)
      PROVE  /\ Of(tree', d) = Of(tree, d) /\ active'[d] = active[d] /\ Reg(d)' = Reg(d)
             /\ pc'[d] = pc[d] /\ (d \in registered' <=> d \in registered)
  <2>1. /\ active'[d] = active[d] /\ pc'[d] = pc[d] /\ cur'[d] = cur[d]
        /\ d \in registered' <=> d \in registered
    BY <1>3 DEF TypeOK, TaskStep, Subscribe, Register, Reply, Unsubscribe, Other, Close,
                Forward, CleanUp, Deregister
  <2>2. \/ tree' = tree
        \/ \E f : tree' = tree \union {<<u, f>>}
        \/ \E f : tree' = tree \ {<<u, f>>}
    BY <1>3 DEF TaskStep, Subscribe, Register, Reply, Unsubscribe, Other, Close,
                Forward, CleanUp, Deregister
  <2>3. {x \in tree' : x[1] = d} = {x \in tree : x[1] = d}
    BY <1>3, <2>2
  <2>. QED
    BY <2>1, <2>3
<1>4. ASSUME TaskStep(d)
      PROVE  /\ Of(tree', d) = active'[d] \union Reg(d)'
             /\ active'[d] # {} => d \in registered'
             /\ pc'[d] = "gone" => active'[d] = {} /\ d \notin registered'
  <2> DEFINE h == Head(input[d]).filter
  <2>1. \A f : Of(tree \union {<<d, f>>}, d) = Of(tree, d) \union {f}
    <3>1. ASSUME NEW f, NEW g
          PROVE  g \in Of(tree \union {<<d, f>>}, d) <=> g \in Of(tree, d) \/ g = f
      <4>1. <<d, f>>[1] = d /\ <<d, f>>[2] = f
        OBVIOUS
      <4>. QED
        BY <4>1
    <3>. HIDE DEF Of
    <3>2. ASSUME NEW f PROVE Of(tree \union {<<d, f>>}, d) = Of(tree, d) \union {f}
      <4> DEFINE before == Of(tree, d)
                 after == Of(tree \union {<<d, f>>}, d)
      <4>1. \A g : g \in after <=> g \in before \/ g = f
        BY <3>1
      <4> HIDE DEF before, after
      <4>2. after = before \union {f}
        BY <4>1
      <4>. QED
        BY <4>2 DEF before, after
    <3>. QED
      BY <3>2, Zenon
  <2>2. \A f : Of(tree \ {<<d, f>>}, d) = Of(tree, d) \ {f}
    <3>1. \A x \in tree : x = <<x[1], x[2]>>
      BY DEF TypeOK, Subscription
    <3>2. ASSUME NEW f, NEW g
          PROVE  g \in Of(tree \ {<<d, f>>}, d) <=> g \in Of(tree, d) /\ g # f
      <4>1. \A x \in tree : x[1] = d /\ x[2] = g => x = <<d, g>>
        BY <3>1
      <4>. QED
        BY <4>1
    <3>. HIDE DEF Of
    <3>. QED
      BY <3>2
  <2> USE DEF TypeOK
  <2> HIDE DEF Of
  <2>3. CASE Subscribe(d)
    <3>1. tree' = tree \union {<<d, h>>} /\ active' = active /\ registered' = registered
      BY <2>3 DEF Subscribe
    <3>2. pc[d] = "select" /\ pc'[d] = "register" /\ cur'[d].filter = h
      BY <2>3 DEF Subscribe
    <3>. QED
      BY <1>0, <2>1, <3>1, <3>2
  <2>4. CASE Register(d)
    <3>1. tree' = tree /\ active'[d] = active[d] \union {cur[d].filter} /\ d \in registered'
      BY <2>4 DEF Register
    <3>2. pc[d] = "register" /\ pc'[d] = "reply"
      BY <2>4 DEF Register
    <3>. QED
      BY <1>0, <3>1, <3>2
  <2>5. CASE Reply(d)
    <3>1. UNCHANGED <<tree, active, registered>> /\ pc[d] = "reply" /\ pc'[d] = "select"
      BY <2>5 DEF Reply
    <3>. QED
      BY <1>0, <3>1
  <2>6. CASE Unsubscribe(d)
    <3>1. tree' = tree \ {<<d, h>>} /\ active'[d] = active[d] \ {h} /\ registered' = registered
      BY <2>6 DEF Unsubscribe
    <3>2. pc[d] = "select" /\ pc'[d] = "reply"
      BY <2>6 DEF Unsubscribe
    <3>. QED
      BY <1>0, <2>2, <3>1, <3>2
  <2>7. CASE Other(d) \/ Close(d) \/ Forward(d)
    <3>1. UNCHANGED <<tree, active, registered>>
      BY <2>7 DEF Other, Close, Forward
    <3>2. pc[d] = "select" /\ pc'[d] \in {"select", "cleanup"}
      BY <2>7 DEF Other, Close, Forward
    <3>. QED
      BY <1>0, <3>1, <3>2
  <2>8. CASE CleanUp(d)
    <3>1. PICK f \in active[d] : tree' = tree \ {<<d, f>>} /\ active'[d] = active[d] \ {f}
      BY <2>8 DEF CleanUp
    <3>2. registered' = registered /\ pc[d] = "cleanup" /\ pc'[d] = "cleanup"
      BY <2>8 DEF CleanUp
    <3>. QED
      BY <1>0, <2>2, <3>1, <3>2
  <2>9. CASE Deregister(d)
    <3>1. tree' = tree /\ active' = active /\ active[d] = {} /\ registered' = registered \ {d}
      BY <2>9 DEF Deregister
    <3>2. pc[d] = "cleanup" /\ pc'[d] = "gone"
      BY <2>9 DEF Deregister
    <3>. QED
      BY <1>0, <3>1, <3>2
  <2>. QED
    BY <1>4, <2>3, <2>4, <2>5, <2>6, <2>7, <2>8, <2>9 DEF TaskStep
<1>5. ASSUME NEW u \in Dashboard, SendCommand(u) \/ HangUp(u) \/ StopReading(u)
      PROVE  UNCHANGED <<pc, cur, active, tree, registered>>
  BY <1>5 DEF SendCommand, HangUp, StopReading
<1>6. ASSUME RouterStep \/ (\E t \in Topic : Publish(t)) \/ UNCHANGED vars
      PROVE  UNCHANGED <<pc, cur, active, tree, registered>>
  BY <1>6 DEF RouterStep, RouterLookup, RouterForward, Publish, vars
<1> HIDE DEF Of, Reg
<1>. QED
  BY <1>0, <1>2, <1>3, <1>4, <1>5, <1>6 DEF Next

\* Whatever the browsers send and whenever they leave, what a task will remove
\* is what it has in the tree, and a task that has ended left nothing there.
THEOREM ConsistentAlways == Spec => []Consistent
<1>1. Init => Consistent
  <2>1. Init => NothingLeft
    BY DEF Init, NothingLeft
  <2>. QED
    BY <2>1, InitTypeOK DEF Consistent
<1>2. Consistent /\ [Next]_vars => Consistent'
  BY StepTypeOK, StepNothingLeft DEF Consistent
<1>. QED
  BY <1>1, <1>2, PTL DEF Spec

-----------------------------------------------------------------------------
(* What a browser has been told *)

\* One dashboard's part of ToldIsActive.
ToldOf(d) ==
    /\ ~reads[d] => eof[d]
    /\ pc[d] = "reply" /\ cur[d].type = "subscribe" => cur[d].filter \in active[d]
    /\ pc[d] \in {"cleanup", "gone"} => told[d] = {}
    /\ \A f \in told[d] :
         /\ f \in active[d]
         /\ ~eof[d]
         /\ \A i \in DOMAIN input[d] : ~Cancels(input[d][i], f)

\* A frame less on the way cancels nothing new.
LEMMA TailCancels ==
  ASSUME NEW s \in Seq(Command), s # <<>>, NEW f,
         \A i \in DOMAIN s : ~Cancels(s[i], f)
  PROVE  ~Cancels(Head(s), f) /\ \A i \in DOMAIN Tail(s) : ~Cancels(Tail(s)[i], f)
<1>1. Head(s) = s[1] /\ 1 \in DOMAIN s
  OBVIOUS
<1>2. \A i \in DOMAIN Tail(s) : i + 1 \in DOMAIN s /\ Tail(s)[i] = s[i + 1]
  OBVIOUS
<1>. QED
  BY <1>1, <1>2

\* A step of its own task keeps what a dashboard was told in force: the answer
\* comes after the filter is in the list, and what ends the task or removes a
\* filter was announced by the browser, which then gave the filter up.
LEMMA TaskTold ==
  ASSUME TypeOK, NEW d \in Dashboard, ToldOf(d), TaskStep(d)
  PROVE  ToldOf(d)'
<1> USE DEF TypeOK, ToldOf
<1>1. CASE Subscribe(d)
  <2>1. input[d] \in Seq(Command) /\ input[d] # <<>> /\ input'[d] = Tail(input[d])
    BY <1>1 DEF Subscribe
  <2>2. UNCHANGED <<active, eof, reads, told>> /\ pc'[d] = "register"
    BY <1>1 DEF Subscribe
  <2>. QED
    BY <2>1, <2>2, TailCancels
<1>2. CASE Register(d)
  <2>1. UNCHANGED <<cur, input, eof, reads, told>> /\ pc'[d] = "reply"
    BY <1>2 DEF Register
  <2>2. active'[d] = active[d] \union {cur[d].filter}
    BY <1>2 DEF Register
  <2>. QED
    BY <2>1, <2>2 DEF Cancels
<1>3. CASE Reply(d)
  <2>1. UNCHANGED <<active, input, eof, reads>> /\ pc[d] = "reply" /\ pc'[d] = "select"
    BY <1>3 DEF Reply
  <2>2. \A f \in told'[d] :
          \/ f \in told[d]
          \/ /\ f = cur[d].filter /\ cur[d].type = "subscribe"
             /\ ~eof[d] /\ \A i \in DOMAIN input[d] : ~Cancels(input[d][i], f)
    BY <1>3 DEF Reply
  <2>. QED
    BY <2>1, <2>2
<1>4. CASE Unsubscribe(d)
  <2> DEFINE h == Head(input[d])
  <2>1. input[d] \in Seq(Command) /\ input[d] # <<>> /\ input'[d] = Tail(input[d])
    BY <1>4 DEF Unsubscribe
  <2>2. UNCHANGED <<eof, reads, told>> /\ pc'[d] = "reply" /\ cur'[d] = h /\ h.type = "unsubscribe"
    BY <1>4 DEF Unsubscribe
  <2>3. active'[d] = active[d] \ {h.filter}
    BY <1>4 DEF Unsubscribe
  <2>4. \A f \in told[d] : ~Cancels(h, f)
    BY <2>1, TailCancels
  <2>5. h.filter \notin told[d]
    BY <2>2, <2>4 DEF Cancels
  <2> HIDE DEF h
  <2>6. \A f \in told[d] : f \in active'[d]
    BY <2>3, <2>5
  <2>7. \A f \in told[d] : \A i \in DOMAIN input'[d] : ~Cancels(input'[d][i], f)
    BY <2>1, TailCancels
  <2>. QED
    BY <2>2, <2>6, <2>7 DEF Cancels
<1>5. CASE Other(d)
  <2>1. input[d] \in Seq(Command) /\ input[d] # <<>> /\ input'[d] = Tail(input[d])
    BY <1>5 DEF Other
  <2>2. UNCHANGED <<active, eof, reads, told>> /\ pc'[d] = "select"
    BY <1>5 DEF Other
  <2>. QED
    BY <2>1, <2>2, TailCancels
<1>6. CASE Close(d)
  <2>1. input[d] \in Seq(Command) /\ input[d] # <<>> /\ Head(input[d]).type = "close"
    BY <1>6 DEF Close
  <2>2. told[d] = {}
    BY <2>1, TailCancels DEF Cancels
  <2>3. UNCHANGED <<active, eof, reads, told>> /\ pc'[d] = "cleanup"
    BY <1>6 DEF Close
  <2>. QED
    BY <2>2, <2>3
<1>7. CASE Forward(d)
  <2>1. UNCHANGED <<cur, active, input, eof, reads, told>>
    BY <1>7 DEF Forward
  <2>2. pc'[d] = "select" \/ (pc'[d] = "cleanup" /\ ~reads[d])
    BY <1>7 DEF Forward
  <2>3. ~reads[d] => told[d] = {}
    OBVIOUS
  <2>. QED
    BY <2>1, <2>2, <2>3 DEF Cancels
<1>8. CASE CleanUp(d)
  <2>1. told[d] = {} /\ UNCHANGED <<eof, reads, told>> /\ pc'[d] = "cleanup"
    BY <1>8 DEF CleanUp
  <2>. QED
    BY <2>1
<1>9. CASE Deregister(d)
  <2>1. told[d] = {} /\ UNCHANGED <<eof, reads, told>> /\ pc'[d] = "gone"
    BY <1>9 DEF Deregister
  <2>. QED
    BY <2>1
<1>. QED
  BY <1>1, <1>2, <1>3, <1>4, <1>5, <1>6, <1>7, <1>8, <1>9 DEF TaskStep

\* What a browser sends takes effect on what it was told at once.
LEMMA BrowserTold ==
  ASSUME TypeOK, NEW d \in Dashboard, ToldOf(d),
         SendCommand(d) \/ HangUp(d) \/ StopReading(d)
  PROVE  ToldOf(d)'
<1> USE DEF TypeOK, ToldOf
<1>1. CASE SendCommand(d)
  <2>1. PICK c \in Command :
          /\ input' = [input EXCEPT ![d] = Append(@, c)]
          /\ eof' = [eof EXCEPT ![d] = c.type = "close"]
          /\ told' = [told EXCEPT ![d] = @ \ {f \in Filter : Cancels(c, f)}]
    BY <1>1 DEF SendCommand
  <2>2. UNCHANGED <<pc, cur, active, reads>> /\ ~eof[d]
    BY <1>1 DEF SendCommand
  <2>3. \A f \in told'[d] : f \in told[d] /\ ~Cancels(c, f)
    BY <2>1
  <2>4. eof'[d] <=> c.type = "close"
    BY <2>1
  <2>5. input[d] \in Seq(Command) /\ input'[d] = Append(input[d], c)
    BY <2>1
  <2>6. \A i \in DOMAIN input'[d] : (i \in DOMAIN input[d] /\ input'[d][i] = input[d][i])
                                    \/ input'[d][i] = c
    BY <2>5
  <2>7. \A f \in told'[d] : \A i \in DOMAIN input'[d] : ~Cancels(input'[d][i], f)
    BY <2>3, <2>6
  <2>8. \A f \in told'[d] : ~eof'[d]
    BY <2>3, <2>4 DEF Cancels
  <2>9. reads[d]
    BY <2>2
  <2>. QED
    BY <2>2, <2>3, <2>7, <2>8, <2>9
<1>2. CASE HangUp(d)
  <2>1. told'[d] = {} /\ eof'[d] /\ UNCHANGED <<pc, cur, active>>
    BY <1>2 DEF HangUp
  <2>. QED
    BY <2>1
<1>3. CASE StopReading(d)
  <2>1. eof[d] /\ UNCHANGED <<pc, cur, active, input, eof, told>>
    BY <1>3 DEF StopReading
  <2>. QED
    BY <2>1 DEF Cancels
<1>. QED
  BY <1>1, <1>2, <1>3

\* Everybody else leaves all of that alone.
LEMMA OthersTold ==
  ASSUME TypeOK, NEW d \in Dashboard, [Next]_vars,
         ~(SendCommand(d) \/ HangUp(d) \/ StopReading(d) \/ TaskStep(d))
  PROVE  /\ pc'[d] = pc[d] /\ cur'[d] = cur[d] /\ active'[d] = active[d]
         /\ input'[d] = input[d] /\ eof'[d] = eof[d] /\ reads'[d] = reads[d]
         /\ told'[d] = told[d] /\ shown'[d] = shown[d]
<1> USE DEF TypeOK
<1>1. ASSUME NEW u \in Dashboard, u # d, SendCommand(u) \/ HangUp(u) \/ StopReading(u)
      PROVE  /\ UNCHANGED <<pc, cur, active, shown>>
             /\ input'[d] = input[d] /\ eof'[d] = eof[d] /\ reads'[d] = reads[d]
             /\ told'[d] = told[d]
  BY <1>1 DEF SendCommand, HangUp, StopReading
<1>2. ASSUME NEW u \in Dashboard, u # d, TaskStep(u)
      PROVE  /\ pc'[d] = pc[d] /\ cur'[d] = cur[d] /\ active'[d] = active[d]
             /\ input'[d] = input[d] /\ eof' = eof /\ reads' = reads
             /\ told'[d] = told[d] /\ shown'[d] = shown[d]
  BY <1>2 DEF TaskStep, Subscribe, Register, Reply, Unsubscribe, Other, Close, Forward,
              CleanUp, Deregister
<1>3. ASSUME RouterStep \/ (\E t \in Topic : Publish(t)) \/ UNCHANGED vars
      PROVE  UNCHANGED <<pc, cur, active, input, eof, reads, told, shown>>
  BY <1>3 DEF RouterStep, RouterLookup, RouterForward, Publish, vars
<1>. QED
  BY <1>1, <1>2, <1>3 DEF Next

\* Every step keeps ToldIsActive, whoever takes it.
LEMMA StepTold == TypeOK /\ ToldIsActive /\ [Next]_vars => ToldIsActive'
<1> SUFFICES ASSUME TypeOK, ToldIsActive, [Next]_vars, NEW d \in Dashboard PROVE ToldOf(d)'
  BY DEF ToldIsActive, ToldOf
<1>1. ToldOf(d)
  BY DEF ToldIsActive, ToldOf
<1>2. CASE ~(SendCommand(d) \/ HangUp(d) \/ StopReading(d) \/ TaskStep(d))
  BY <1>1, <1>2, OthersTold DEF ToldOf, Cancels
<1>. QED
  BY <1>1, <1>2, TaskTold, BrowserTold

-----------------------------------------------------------------------------
(* What is due *)

\* Every step keeps DueIsTold: what is due was published to a topic that the
\* dashboard had been told of.
LEMMA StepDue == TypeOK /\ DueIsTold /\ [Next]_vars => DueIsTold'
<1> SUFFICES ASSUME TypeOK, DueIsTold, [Next]_vars, NEW d \in Dashboard, NEW m \in due'[d]
             PROVE  m[1] \in 1 .. Len(log') /\ m[2] \in told'[d] /\ log'[m[1]] \in m[2]
  BY DEF DueIsTold
<1> USE DEF TypeOK
<1>1. m \in due[d] => m[1] \in 1 .. Len(log) /\ m[2] \in told[d] /\ log[m[1]] \in m[2]
  BY DEF DueIsTold
<1>2. ASSUME NEW u \in Dashboard, SendCommand(u) \/ HangUp(u)
      PROVE  log' = log /\ m \in due[d] /\ m[2] \in told'[d]
  <2>1. log' = log
    BY <1>2 DEF SendCommand, HangUp
  <2>2. PICK F \in SUBSET Filter : Give(u, F)
    <3>1. CASE SendCommand(u)
      <4>1. PICK c \in Command : Give(u, {f \in Filter : Cancels(c, f)})
        BY <3>1 DEF SendCommand
      <4>2. {f \in Filter : Cancels(c, f)} \in SUBSET Filter
        OBVIOUS
      <4>. QED
        BY <4>1, <4>2
    <3>2. CASE HangUp(u)
      BY <3>2 DEF HangUp
    <3>. QED
      BY <1>2, <3>1, <3>2
  <2>3. /\ m \in due[d] /\ (u = d => m[2] \notin F)
        /\ told'[d] = IF u = d THEN told[d] \ F ELSE told[d]
    BY <2>2
  <2>. QED
    BY <1>1, <2>1, <2>3
<1>3. ASSUME NEW u \in Dashboard, TaskStep(u)
      PROVE  log' = log /\ due' = due /\ told[d] \subseteq told'[d]
  <2>1. log' = log /\ due' = due
    BY <1>3 DEF TaskStep, Subscribe, Register, Reply, Unsubscribe, Other, Close, Forward,
                CleanUp, Deregister
  <2>2. CASE Reply(u)
    BY <2>1, <2>2 DEF Reply
  <2>3. CASE ~Reply(u)
    BY <1>3, <2>1, <2>3 DEF TaskStep, Subscribe, Register, Unsubscribe, Other, Close, Forward,
                CleanUp, Deregister
  <2>. QED
    BY <2>2, <2>3, <2>1
<1>4. ASSUME NEW t \in Topic, Publish(t)
      PROVE  m[1] \in 1 .. Len(log') /\ m[2] \in told'[d] /\ log'[m[1]] \in m[2]
  <2>1. told' = told /\ Len(log') = Len(log) + 1 /\ log'[Len(log) + 1] = t
        /\ \A i \in 1 .. Len(log) : log'[i] = log[i]
    BY <1>4 DEF Publish
  <2>2. CASE m \in due[d]
    BY <1>1, <2>1, <2>2
  <2>3. CASE m \notin due[d]
    <3>1. PICK f \in told[d] : m = <<Len(log) + 1, f>> /\ t \in f
      BY <1>4, <2>3 DEF Publish
    <3>2. m[1] = Len(log) + 1 /\ m[2] = f
      BY <3>1
    <3>. QED
      BY <2>1, <3>1, <3>2
  <2>. QED
    BY <2>2, <2>3
<1>5. ASSUME RouterStep \/ (\E u \in Dashboard : StopReading(u)) \/ UNCHANGED vars
      PROVE  log' = log /\ due' = due /\ told' = told
  BY <1>5 DEF RouterStep, RouterLookup, RouterForward, StopReading, vars
<1>. QED
  BY <1>1, <1>2, <1>3, <1>4, <1>5 DEF Next

-----------------------------------------------------------------------------
(* What is handed over *)

\* The part of NothingNewer about one dashboard.
NewestOf(d) ==
    /\ \A i \in DOMAIN shown[d] : shown[d][i] <= looked
    /\ \A i \in DOMAIN channel[d] : channel[d][i] <= looked
    /\ \A e \in todo : e[1] = d =>
         /\ \A i \in DOMAIN shown[d] : shown[d][i] < looked
         /\ \A i \in DOMAIN channel[d] : channel[d][i] < looked

\* The part of ToldGetsAll about one dashboard that is not InOrder.
Got(d) == \A m \in due[d] : Served(d, m[1]) => m[1] \in Range(shown[d]) \union Range(channel[d])

\* Writing the first message of the channel moves it, and nothing else.
LEMMA ForwardKeeps ==
  ASSUME TypeOK, NEW d \in Dashboard, NewestOf(d), InOrder(d), Got(d), ToldOf(d), DueIsTold,
         Forward(d)
  PROVE  NewestOf(d)' /\ InOrder(d)' /\ Got(d)'
<1> DEFINE c == channel[d]
           s == shown[d]
<1>1. c \in Seq(Nat) /\ c # <<>> /\ s \in Seq(Nat) /\ looked \in Nat
  BY DEF TypeOK, Forward
<1>2. channel'[d] = Tail(c) /\ UNCHANGED <<looked, todo, due>>
  BY DEF TypeOK, Forward
<1>3. /\ Head(c) = c[1] /\ 1 \in DOMAIN c
      /\ \A i \in DOMAIN Tail(c) : i + 1 \in DOMAIN c /\ Tail(c)[i] = c[i + 1] /\ 1 < i + 1
      /\ \A i \in DOMAIN c : i # 1 => i - 1 \in DOMAIN Tail(c) /\ Tail(c)[i - 1] = c[i]
  BY <1>1
<1>4. CASE reads[d]
  <2>1. shown'[d] = Append(s, c[1])
    BY <1>3, <1>4 DEF TypeOK, Forward
  <2>2. /\ Len(s) + 1 \in DOMAIN Append(s, c[1]) /\ Append(s, c[1])[Len(s) + 1] = c[1]
        /\ \A i \in DOMAIN s : i \in DOMAIN Append(s, c[1]) /\ Append(s, c[1])[i] = s[i]
        /\ \A i \in DOMAIN Append(s, c[1]) : i \in DOMAIN s \/ i = Len(s) + 1
    BY <1>1, <1>3
  <2>3. DOMAIN s = 1 .. Len(s) /\ DOMAIN c = 1 .. Len(c) /\ DOMAIN Tail(c) = 1 .. Len(c) - 1
    BY <1>1
  <2> HIDE DEF c, s
  <2>4. InOrder(d)'
    <3>1. InOrder(d) <=> /\ \A i, j \in DOMAIN s : i < j => s[i] < s[j]
                         /\ \A i, j \in DOMAIN c : i < j => c[i] < c[j]
                         /\ \A i \in DOMAIN s, j \in DOMAIN c : s[i] < c[j]
      BY DEF InOrder, c, s
    <3>2. \A i, j \in DOMAIN Tail(c) : i < j => Tail(c)[i] < Tail(c)[j]
      BY <1>3, <2>3, <3>1
    <3>3. \A i, j \in DOMAIN Append(s, c[1]) : i < j => Append(s, c[1])[i] < Append(s, c[1])[j]
      BY <1>3, <2>2, <2>3, <3>1, <1>1
    <3>4. \A i \in DOMAIN Append(s, c[1]), j \in DOMAIN Tail(c) : Append(s, c[1])[i] < Tail(c)[j]
      BY <1>3, <2>2, <2>3, <3>1
    <3>. QED
      BY <1>2, <2>1, <3>2, <3>3, <3>4 DEF InOrder
  <2>5. NewestOf(d)'
    <3>1. NewestOf(d) <=> /\ \A i \in DOMAIN s : s[i] <= looked
                          /\ \A i \in DOMAIN c : c[i] <= looked
                          /\ \A e \in todo : e[1] = d =>
                               (\A i \in DOMAIN s : s[i] < looked)
                               /\ (\A i \in DOMAIN c : c[i] < looked)
      BY DEF NewestOf, c, s
    <3>. QED
      BY <1>2, <1>3, <2>1, <2>2, <3>1 DEF NewestOf
  <2>6. Got(d)'
    <3>1. ASSUME NEW n \in Range(s) \union Range(c)
          PROVE  n \in Range(Append(s, c[1])) \union Range(Tail(c))
      <4>1. CASE n \in Range(s)
        BY <4>1, <2>2 DEF Range
      <4>2. CASE n \in Range(c)
        <5>1. PICK i \in DOMAIN c : n = c[i]
          BY <4>2 DEF Range
        <5>2. CASE i = 1
          BY <5>1, <5>2, <2>2 DEF Range
        <5>3. CASE i # 1
          BY <5>1, <5>3, <1>3 DEF Range
        <5>. QED
          BY <5>2, <5>3
      <4>. QED
        BY <4>1, <4>2
    <3>2. \A m \in due[d] : Served(d, m[1]) => m[1] \in Range(s) \union Range(c)
      BY DEF Got, c, s
    <3>3. \A m \in due[d] : Served(d, m[1])' => Served(d, m[1])
      BY <1>2 DEF Served
    <3>. QED
      BY <1>2, <2>1, <3>1, <3>2, <3>3 DEF Got
  <2>. QED
    BY <2>4, <2>5, <2>6
<1>5. CASE ~reads[d]
  <2>1. shown'[d] = s
    BY <1>5 DEF Forward
  <2>2. due[d] = {}
    <3>1. told[d] = {}
      BY <1>5 DEF ToldOf
    <3>. QED
      BY <3>1 DEF DueIsTold
  <2>3. DOMAIN c = 1 .. Len(c) /\ DOMAIN Tail(c) = 1 .. Len(c) - 1
    BY <1>1
  <2>4. InOrder(d)'
    BY <1>2, <1>3, <2>1, <2>3 DEF InOrder
  <2>5. NewestOf(d)'
    BY <1>2, <1>3, <2>1 DEF NewestOf
  <2>. QED
    BY <1>2, <2>2, <2>4, <2>5 DEF Got
<1>. QED
  BY <1>4, <1>5

\* The channel that goes with its task was promised nothing.
LEMMA DeregisterKeeps ==
  ASSUME TypeOK, NEW d \in Dashboard, NewestOf(d), InOrder(d), ToldOf(d), DueIsTold,
         Deregister(d)
  PROVE  NewestOf(d)' /\ InOrder(d)' /\ Got(d)'
<1>1. channel'[d] = <<>> /\ UNCHANGED <<shown, looked, todo, due>>
  BY DEF TypeOK, Deregister
<1>2. due[d] = {}
  <2>1. told[d] = {}
    BY DEF Deregister, ToldOf
  <2>. QED
    BY <2>1 DEF DueIsTold
<1>3. DOMAIN <<>> = {}
  OBVIOUS
<1>. QED
  BY <1>1, <1>2, <1>3 DEF NewestOf, InOrder, Got

\* The subscriptions that the router finds for a message include one of every
\* dashboard to which it is due.
LEMMA LookupKeeps ==
  ASSUME TypeOK, NothingLeft, NEW d \in Dashboard, ToldOf(d), DueIsTold, NewestOf(d),
         InOrder(d), Got(d), RouterLookup
  PROVE  NewestOf(d)' /\ InOrder(d)' /\ Got(d)'
<1>1. UNCHANGED <<shown, channel, log, due>> /\ looked' = looked + 1 /\ looked \in Nat /\ todo = {}
  BY DEF RouterLookup, TypeOK
<1>2. NewestOf(d)'
  <2>1. shown[d] \in Seq(Nat) /\ channel[d] \in Seq(Nat)
    BY DEF TypeOK
  <2>2. \A i \in DOMAIN shown[d] : shown[d][i] \in Nat
    BY <2>1
  <2>3. \A i \in DOMAIN channel[d] : channel[d][i] \in Nat
    BY <2>1
  <2>. QED
    BY <1>1, <2>2, <2>3 DEF NewestOf
<1>3. ASSUME NEW m \in due[d], Served(d, m[1])'
      PROVE  Served(d, m[1])
  <2>1. m[1] \in Nat /\ m[2] \in told[d] /\ log[m[1]] \in m[2] /\ m[1] \in 1 .. Len(log)
    BY DEF DueIsTold, TypeOK
  <2>2. CASE m[1] < looked'
    BY <1>1, <2>1, <2>2 DEF Served
  <2>3. CASE m[1] = looked' /\ d \notin {e[1] : e \in todo'}
    <3>1. <<d, m[2]>> \in tree
      <4>1. m[2] \in active[d]
        BY <2>1 DEF ToldOf
      <4>2. m[2] \in {e[2] : e \in {x \in tree : x[1] = d}}
        BY <4>1 DEF NothingLeft
      <4>3. \A x \in tree : x = <<x[1], x[2]>>
        BY DEF TypeOK, Subscription
      <4>. QED
        BY <4>2, <4>3
    <3>2. <<d, m[2]>> \in Matching(log[looked + 1])
      BY <1>1, <2>1, <2>3, <3>1 DEF Matching
    <3>3. Matching(log[looked + 1]) \in SUBSET Subscription
      BY DEF Matching, TypeOK
    <3>4. \E g \in Dedup(Matching(log[looked + 1])) : g[1] = d
      BY <3>2, <3>3, DedupProperties
    <3>. QED
      BY <2>3, <3>4 DEF RouterLookup
  <2>. QED
    BY <1>3, <2>2, <2>3 DEF Served
<1>. QED
  BY <1>1, <1>2, <1>3 DEF InOrder, Got

\* Handing a message over puts it behind everything older.
LEMMA RouterForwardKeeps ==
  ASSUME TypeOK, NothingLeft, NEW d \in Dashboard, ToldOf(d), DueIsTold, NewestOf(d),
         InOrder(d), Got(d), NEW e \in todo, RouterForward(e),
         \A f, g \in todo : f[1] = g[1] => f = g
  PROVE  NewestOf(d)' /\ InOrder(d)' /\ Got(d)'
<1>1. UNCHANGED <<shown, looked, due>> /\ todo' = todo \ {e} /\ looked \in Nat
  BY DEF RouterForward, TypeOK
<1>2. CASE e[1] = d /\ d \in registered
  <2> DEFINE c == channel[d]
             a == Append(c, looked)
  <2>1. channel'[d] = a /\ c \in Seq(Nat)
    BY <1>2 DEF RouterForward, TypeOK
  <2>2. /\ Len(c) + 1 \in DOMAIN a /\ a[Len(c) + 1] = looked
        /\ \A i \in DOMAIN c : i \in DOMAIN a /\ a[i] = c[i] /\ i < Len(c) + 1
        /\ \A i \in DOMAIN a : (i \in DOMAIN c /\ a[i] = c[i]) \/ (i = Len(c) + 1 /\ a[i] = looked)
        /\ \A i, j \in DOMAIN a : i < j => i \in DOMAIN c
    BY <1>1, <2>1
  <2>3. \A g \in todo' : g[1] # d
    BY <1>1, <1>2
  <2>4. /\ \A i \in DOMAIN shown[d] : shown[d][i] < looked
        /\ \A i \in DOMAIN c : c[i] < looked
    BY <1>2 DEF NewestOf
  <2>5. \A i \in DOMAIN shown[d] : shown[d][i] \in Nat
    BY DEF TypeOK
  <2> HIDE DEF a
  <2>6. NewestOf(d)'
    BY <1>1, <2>1, <2>2, <2>3, <2>4, <2>5 DEF NewestOf
  <2>7. InOrder(d)'
    <3>1. \A i, j \in DOMAIN a : i < j => a[i] < a[j]
      BY <2>2, <2>4 DEF InOrder
    <3>2. \A i \in DOMAIN shown[d], j \in DOMAIN a : shown[d][i] < a[j]
      BY <2>2, <2>4 DEF InOrder
    <3>. QED
      BY <1>1, <2>1, <3>1, <3>2 DEF InOrder
  <2>8. Got(d)'
    <3>1. \A n \in Range(c) \union {looked} : n \in Range(a)
      BY <2>2 DEF Range
    <3>2. ASSUME NEW m \in due[d], Served(d, m[1])' PROVE m[1] = looked \/ Served(d, m[1])
      BY <1>1, <3>2 DEF Served
    <3>. QED
      BY <1>1, <2>1, <3>1, <3>2 DEF Got
  <2>. QED
    BY <2>6, <2>7, <2>8
<1>3. CASE ~(e[1] = d /\ d \in registered)
  <2>1. channel'[d] = channel[d]
    BY <1>3 DEF RouterForward, TypeOK
  <2>2. ASSUME NEW m \in due[d], Served(d, m[1])' PROVE Served(d, m[1])
    <3>1. m[2] \in active[d]
      BY DEF DueIsTold, ToldOf
    <3>2. d \in registered
      BY <3>1 DEF NothingLeft
    <3>3. e[1] # d
      BY <1>3, <3>2
    <3>4. \A g \in todo : g[1] = d => g \in todo'
      BY <1>1, <3>3
    <3>. QED
      BY <1>1, <2>2, <3>4 DEF Served
  <2>. QED
    BY <1>1, <2>1, <2>2 DEF NewestOf, InOrder, Got
<1>. QED
  BY <1>2, <1>3

\* Nothing is handed over, and what becomes due is newer than what the router
\* has looked up.
LEMMA SameKeeps ==
  ASSUME TypeOK, NEW d \in Dashboard, NewestOf(d), InOrder(d), Got(d),
         UNCHANGED <<looked, todo>>, channel'[d] = channel[d], shown'[d] = shown[d],
         \A m \in due'[d] : m \in due[d] \/ (m[1] = Len(log) + 1 /\ looked <= Len(log))
  PROVE  NewestOf(d)' /\ InOrder(d)' /\ Got(d)'
<1>1. ASSUME NEW m \in due'[d], Served(d, m[1])' PROVE m \in due[d] /\ Served(d, m[1])
  <2>1. looked \in Nat /\ Len(log) \in Nat
    BY DEF TypeOK
  <2>. QED
    BY <1>1, <2>1 DEF Served
<1>. QED
  BY <1>1 DEF NewestOf, InOrder, Got

\* The inductive invariant is kept, dashboard by dashboard.
LEMMA StepHanded ==
  ASSUME TypeOK, NothingLeft, ToldIsActive, DueIsTold, NothingNewer, ToldGetsAll, [Next]_vars
  PROVE  NothingNewer' /\ ToldGetsAll'
<1>1. \A f, g \in todo' : f[1] = g[1] => f = g
  <2>1. CASE RouterLookup
    <3>1. Matching(log[looked + 1]) \in SUBSET Subscription
      BY DEF Matching, TypeOK
    <3>. QED
      BY <2>1, <3>1, DedupProperties DEF RouterLookup
  <2>2. CASE ~RouterLookup
    <3>1. todo' \subseteq todo
      BY <2>2
      DEF Next, RouterStep, RouterForward, Publish, SendCommand, HangUp, StopReading, TaskStep,
          Subscribe, Register, Reply, Unsubscribe, Other, Close, Forward, CleanUp, Deregister, vars
    <3>. QED
      BY <3>1 DEF NothingNewer
  <2>. QED
    BY <2>1, <2>2
<1>2. SUFFICES ASSUME NEW d \in Dashboard PROVE NewestOf(d)' /\ InOrder(d)' /\ Got(d)'
  BY <1>1 DEF NothingNewer, NewestOf, ToldGetsAll, Got
<1>3. ToldOf(d) /\ NewestOf(d) /\ InOrder(d) /\ Got(d)
  BY DEF ToldIsActive, ToldOf, NothingNewer, NewestOf, ToldGetsAll, Got
<1>4. looked <= Len(log)
  BY DEF TypeOK
<1>5. ASSUME NEW u \in Dashboard, SendCommand(u) \/ HangUp(u) \/ StopReading(u)
      PROVE  NewestOf(d)' /\ InOrder(d)' /\ Got(d)'
  <2>1. UNCHANGED <<looked, todo, channel, shown>>
    BY <1>5 DEF SendCommand, HangUp, StopReading
  <2>2. due' = due \/ \E F : due' = [due EXCEPT ![u] = {m \in @ : m[2] \notin F}]
    BY <1>5 DEF SendCommand, HangUp, StopReading
  <2>3. due'[d] \subseteq due[d]
    BY <2>2 DEF TypeOK
  <2>. QED
    BY <1>3, <2>1, <2>3, SameKeeps
<1>6. ASSUME NEW u \in Dashboard, TaskStep(u)
      PROVE  NewestOf(d)' /\ InOrder(d)' /\ Got(d)'
  <2>1. UNCHANGED <<looked, todo, due>>
    BY <1>6 DEF TaskStep, Subscribe, Register, Reply, Unsubscribe, Other, Close, Forward,
                CleanUp, Deregister
  <2>2. CASE u = d /\ Forward(d)
    BY <1>3, <2>2, ForwardKeeps
  <2>3. CASE u = d /\ Deregister(d)
    BY <1>3, <2>3, DeregisterKeeps
  <2>4. CASE ~(u = d /\ (Forward(d) \/ Deregister(d)))
    <3>1. channel'[d] = channel[d] /\ shown'[d] = shown[d]
      BY <1>6, <2>4 DEF TypeOK, TaskStep, Subscribe, Register, Reply, Unsubscribe, Other, Close,
                        Forward, CleanUp, Deregister
    <3>. QED
      BY <1>3, <2>1, <3>1, SameKeeps
  <2>. QED
    BY <2>2, <2>3, <2>4
<1>7. ASSUME NEW t \in Topic, Publish(t)
      PROVE  NewestOf(d)' /\ InOrder(d)' /\ Got(d)'
  <2>1. UNCHANGED <<looked, todo, channel, shown>>
    BY <1>7 DEF Publish
  <2>2. \A m \in due'[d] : m \in due[d] \/ m[1] = Len(log) + 1
    BY <1>7 DEF Publish, TypeOK
  <2>. QED
    BY <1>3, <1>4, <2>1, <2>2, SameKeeps
<1>8. CASE RouterLookup
  BY <1>3, <1>8, LookupKeeps
<1>9. ASSUME NEW e \in todo, RouterForward(e)
      PROVE  NewestOf(d)' /\ InOrder(d)' /\ Got(d)'
  BY <1>3, <1>9, RouterForwardKeeps DEF NothingNewer
<1>10. CASE UNCHANGED vars
  BY <1>3, <1>10, SameKeeps DEF vars
<1>. QED
  BY <1>5, <1>6, <1>7, <1>8, <1>9, <1>10 DEF Next, RouterStep

\* However a browser's commands, the messages and the router interleave, what
\* was published while a browser knew a filter to be in force reaches its
\* channel once the router has served it, once and in order.
THEOREM ToldGetsAllAlways == Spec => []ToldGetsAll
<1>1. Init => IInv
  <2>1. Init => NothingLeft /\ ToldIsActive /\ DueIsTold
    BY DEF Init, NothingLeft, ToldIsActive, DueIsTold
  <2>2. Init => NothingNewer /\ ToldGetsAll
    <3>1. DOMAIN <<>> = {}
      OBVIOUS
    <3>2. ASSUME Init, NEW d \in Dashboard PROVE shown[d] = <<>> /\ channel[d] = <<>> /\ due[d] = {}
      BY <3>2 DEF Init
    <3>3. Init => todo = {}
      BY DEF Init
    <3>. QED
      BY <3>1, <3>2, <3>3 DEF NothingNewer, ToldGetsAll, InOrder
  <2>. QED
    BY <2>1, <2>2, InitTypeOK DEF IInv, Consistent
<1>2. IInv /\ [Next]_vars => IInv'
  BY StepTypeOK, StepNothingLeft, StepTold, StepDue, StepHanded DEF IInv, Consistent
<1>3. IInv => ToldGetsAll
  BY DEF IInv
<1>. QED
  BY <1>1, <1>2, <1>3, PTL DEF Spec
=============================================================================
