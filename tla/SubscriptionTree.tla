-------------------------- MODULE SubscriptionTree --------------------------
(***************************************************************************)
(* The topic tree of mqtt-broker/src/subscription.rs: a trie whose nodes   *)
(* hold the subscriptions of the filter that leads to them.  It is driven  *)
(* by any sequence of subscribe, unsubscribe and unsubscribe_all, and      *)
(* compared with the set of subscriptions these leave and with the two     *)
(* other matchers of the program: TopicFilter::matches (common.rs of       *)
(* mqtt-core, selects the retained messages for a new subscription) and    *)
(* topic_matches_filter (auth.rs, selects ACL rules).                      *)
(*                                                                         *)
(* Topics and filters are the sequences of their segments (split at "/").  *)
(* A node is named by the path that leads to it.                           *)
(***************************************************************************)
EXTENDS Naturals, Sequences, FiniteSets, FiniteSetsExt, SequencesExt

CONSTANTS
    Client,
    Segment,       \* what stands between two slashes
    Filter,        \* filters in use, as sequences of segments
    Topic,         \* topics published to, as sequences of segments
    QoS,
    MaxSubs        \* bound: subscriptions in force at a time

Plus == "+"
Hash == "#"

ASSUME SegmentAssumption == {Plus, Hash} \subseteq Segment
ASSUME FilterAssumption == Filter \subseteq Seq(Segment) /\ <<>> \notin Filter
ASSUME TopicAssumption == Topic \subseteq Seq(Segment) /\ <<>> \notin Topic

VARIABLES
    node,          \* the subscriptions at every path of the tree
    subs           \* history: the subscriptions in force

vars == <<node, subs>>

Subscription == [client : Client, filter : Filter, qos : QoS]

Root == <<>>
Nodes == DOMAIN node

Init ==
    /\ node = [p \in {Root} |-> <<>>]
    /\ subs = {}

-----------------------------------------------------------------------------
(* Changes *)

\* The vector of a node after s is inserted: one entry for each client.
PutIn(vector, s) ==
    LET same == {i \in DOMAIN vector :
                     vector[i].client = s.client /\ vector[i].filter = s.filter}
    IN  IF same = {} THEN Append(vector, s)
        ELSE [vector EXCEPT ![Min(same)].qos = s.qos]

\* Mutant of Insert: an entry is added whether there is one or not.
InsertAgain(s) ==
    LET paths == Nodes \union {SubSeq(s.filter, 1, n) : n \in 0 .. Len(s.filter)}
        before == [p \in paths |-> IF p \in Nodes THEN node[p] ELSE <<>>]
    IN  [before EXCEPT ![s.filter] = Append(@, s)]

\* Missing nodes are created on the way down to the filter.
Insert(s) ==
    LET paths == Nodes \union {SubSeq(s.filter, 1, n) : n \in 0 .. Len(s.filter)}
        before == [p \in paths |-> IF p \in Nodes THEN node[p] ELSE <<>>]
    IN  [before EXCEPT ![s.filter] = PutIn(@, s)]

WithoutClient(vector, c) ==
    FoldLeft(LAMBDA kept, s : IF s.client = c THEN kept ELSE Append(kept, s), <<>>, vector)

Subscribe(c, f, q) ==
    LET s == [client |-> c, filter |-> f, qos |-> q]
    IN  /\ node' = Insert(s)
        /\ subs' = {x \in subs : ~(x.client = c /\ x.filter = f)} \union {s}

\* A filter that leads nowhere changes nothing; nodes are never removed.
Unsubscribe(c, f) ==
    /\ node' = IF f \in Nodes THEN [node EXCEPT ![f] = WithoutClient(@, c)] ELSE node
    /\ subs' = {x \in subs : ~(x.client = c /\ x.filter = f)}

\* Mutant of UnsubscribeAll: the nodes below the first level are not reached.
UnsubscribeTop(c) ==
    /\ node' = [p \in Nodes |-> IF Len(p) < 2 THEN WithoutClient(node[p], c) ELSE node[p]]
    /\ subs' = {x \in subs : x.client # c}

UnsubscribeAll(c) ==
    /\ node' = [p \in Nodes |-> WithoutClient(node[p], c)]
    /\ subs' = {x \in subs : x.client # c}

Next == \E c \in Client :
    \/ \E f \in Filter, q \in QoS : Cardinality(subs) < MaxSubs /\ Subscribe(c, f, q)
    \/ \E f \in Filter : Unsubscribe(c, f)
    \/ UnsubscribeAll(c)

Spec == Init /\ [][Next]_vars

-----------------------------------------------------------------------------
(* Queries *)

At(p) == IF p \in Nodes THEN node[p] ELSE <<>>

\* What collect_matching adds below path p for topic t; the segments of the
\* topic still to be matched are those after the length of p.
Collect(t) ==
    LET below[p \in {q \in Seq(Segment) : Len(q) <= Len(t)}] ==
          At(Append(p, Hash)) \o
          (IF Len(p) = Len(t) THEN At(p)
           ELSE LET go(segment) == IF Append(p, segment) \in Nodes
                                   THEN below[Append(p, segment)] ELSE <<>>
                IN  go(t[Len(p) + 1]) \o go(Plus))
    IN  below[Root]

\* One subscription for each client and filter, the first that was found.
Dedup(found) ==
    FoldLeft(LAMBDA seen, s :
                 IF \E i \in DOMAIN seen : seen[i].client = s.client /\ seen[i].filter = s.filter
                 THEN seen ELSE Append(seen, s),
             <<>>, found)

\* Mutant of Lookup: what is found twice is returned twice.
LookupAll(t) == Collect(t)

Lookup(t) == Dedup(Collect(t))

Count == MapThenSumSet(LAMBDA p : Len(node[p]), Nodes)

AllSubscriptions == UNION {Range(node[p]) : p \in Nodes}

\* TopicFilter::matches: the segments of filter f from i on match those of t.
TopicFilterMatches(f, t) ==
    LET from[i \in 1 .. Len(f) + 1] ==
          IF i > Len(f) THEN Len(t) = Len(f)
          ELSE \/ f[i] = Hash
               \/ i <= Len(t) /\ f[i] \in {Plus, t[i]} /\ from[i + 1]
    IN  from[1]

\* Mutant of AclMatches: a filter that is longer than the topic is not
\* looked at beyond it.
AclMatchesNoParent(t, f) ==
    \/ f = <<Hash>>
    \/ LET from[i \in 1 .. Len(f) + 1] ==
             IF i > Len(f) THEN Len(t) = Len(f)
             ELSE i <= Len(t) /\ (f[i] = Hash \/ (f[i] \in {Plus, t[i]} /\ from[i + 1]))
       IN  from[1]

\* topic_matches_filter of the ACL.
AclMatches(t, f) ==
    \/ f = <<Hash>>
    \/ LET from[i \in 1 .. Len(f) + 1] ==
             IF i > Len(f) THEN Len(t) = Len(f)
             ELSE \/ f[i] = Hash
                  \/ i <= Len(t) /\ (f[i] = Plus \/ f[i] = t[i]) /\ from[i + 1]
       IN  from[1]

-----------------------------------------------------------------------------
\* What a filter means: equal segments, where + stands for any one of them
\* and a last # for any number of them, none included.
Matches(f, t) ==
    LET open == Last(f) = Hash
        n == IF open THEN Len(f) - 1 ELSE Len(f)
    IN  /\ IF open THEN n <= Len(t) ELSE n = Len(t)
        /\ \A i \in 1 .. n : f[i] \in {Plus, t[i]}

\* Nodes and entries are of their types; a subscription is in the node of its own
\* filter, at most one for each client, and that node can be reached from the root.
TypeOK ==
    /\ \A p \in Nodes : node[p] \in Seq(Subscription) /\ p \in Seq(Segment)
    /\ subs \subseteq Subscription
    /\ \A p \in Nodes :
         /\ \A n \in 0 .. Len(p) : SubSeq(p, 1, n) \in Nodes
         /\ \A i, j \in DOMAIN node[p] :
              /\ node[p][i].filter = p
              /\ node[p][i].client = node[p][j].client => i = j

\* After any sequence of changes, a lookup returns every subscription whose
\* filter matches the topic, each one once, with the quality of service of
\* the last SUBSCRIBE, and no others.
LookupExact == \A t \in Topic :
    /\ Range(Lookup(t)) = {s \in subs : Matches(s.filter, t)}
    /\ IsInjective(Lookup(t))

\* The metric and the subscription list of the web interface count and show
\* the subscriptions in force, whatever nodes are left over in the tree.
CountExact ==
    /\ Count = Cardinality(subs)
    /\ AllSubscriptions = subs

\* A subscription is sent live messages of exactly the topics whose retained
\* messages it was sent when it was made, and the ACL matches like them.
MatchersAgree == \A s \in subs, t \in Topic :
    LET live == s \in Range(Lookup(t))
    IN  /\ live <=> TopicFilterMatches(s.filter, t)
        /\ live <=> AclMatches(t, s.filter)
=============================================================================
