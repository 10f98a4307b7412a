# AtomMQTT, in TLA+

TLA+ models of the MQTT broker of this repository, TLC configurations that check
them on small instances, and proofs, checked by TLAPS, that some of their
properties hold for any number of connections, clients, messages and crashes. Paths are relative to
the repository; `server.rs`, `persistence.rs`, `subscription.rs`, `lib.rs` and
`auth.rs` are those of `mqtt-broker/src`, `api.rs` and `main.rs` those of
`mqtt-web/src`.

    tlc -workers 2 -config BrokerAny.cfg BrokerMC     # any run of PROJECT.json
    tlapm BrokerProofs.tla

`PROJECT.json` lists the components, the runs, the lines every definition stands
for, the mutants that show that a property can fail, the findings, the hazards
and the theorems.

## 1. The system

One process runs the broker (TCP) and an HTTP server (REST, dashboard, MQTT over
WebSocket) on a multi-threaded Tokio runtime. Everything is shared through one
`Arc<BrokerState>`; with one exception (the subscription count is stored in the metrics
while the tree is locked) nothing is done under more than one map entry or lock, so
the tasks interleave between any two operations.

| part | state | operations | talks to |
|---|---|---|---|
| connection task, TCP (`handle_connection`, server.rs:180) and WebSocket (`handle_connect_after_decode`, api.rs:453) | a buffer, the client id, the clean flag | CONNECT, PUBLISH, SUBSCRIBE, UNSUBSCRIBE, PINGREQ, DISCONNECT; end by `break`, by `?`, by a stream that stops | all maps; sends `Publish` and `ClientDisconnected` to the router; persistence events |
| router (server.rs:29) | none of its own | `Publish`: look up, forward, retain; `ClientDisconnected`: will, clean session | subscriptions, connections, retained, wills, sessions |
| `BrokerState` (lib.rs) | `sessions`, `connections`, `wills`, `retained` (DashMap), `subscriptions`, `metrics` (Mutex) | by key | everybody |
| subscription tree (subscription.rs) | a trie of segments, `+` and `#` children apart | subscribe, unsubscribe, unsubscribe_all, lookup, count | handlers, router, ACL's own matcher (auth.rs) |
| persistence (persistence.rs) | SQLite tables, an event channel, a batch | send_event, the writer, shutdown; load and clean-up at startup (main.rs) | everybody who changes durable state |
| framing (`mqtt-core`) | the bytes not decoded yet | decode the first packet, decode the next one | the connection's socket |
| HTTP interface (api.rs) | none | publish, delete a retained message, disconnect a client, queries | maps, router |
| packet bodies (`mqtt-core`, `v3/codec.rs`, `v5/codec.rs`, `v5/properties.rs`) | the version of the connection | encode and decode every packet of 3.1.1 and 5.0 | handlers, client, router |
| dashboard subscriber (api.rs:192) | its filters, its channel, its entry in `web_subscribers` | subscribe, unsubscribe, Close, write what the router forwards | tree, router |
| QoS handshakes | none in the broker: packet ids are not remembered | PUBACK, PUBREC, PUBREL, PUBCOMP | client |
| authentication, ACL, configuration | read at startup | allow or deny | handlers |
| command-line client (`mqtt-client`) | packet id counter | publish, subscribe, benchmark | broker |

### What is hard

* **Takeover.** A client id may be presented while an older connection with it is
  still served. The code replaces the session and the map entries and leaves the
  older task running; that task and the router later clean up *by client id*.
* **The router is behind.** `ClientDisconnected` and `Publish` wait in a channel.
  By the time they are handled the client may be back, the message deleted, the
  subscription cancelled.
* **Ends of a connection.** A `break` leads to the clean-up, a `?` does not, and a
  WebSocket stream that stops without a Close frame leads nowhere.
* **Two stores.** A retained message is stored by its handler and by the router,
  and memory and disk are updated apart.
* **Crash and restart.** Disk follows memory in batches; startup repairs what a
  crash leaves.
* **Streams.** Packets arrive in pieces cut anywhere.
* **Two versions.** One connection speaks 3.1.1 and another 5.0, with other fields in
  another order; what one publishes the other gets.
* **Dashboards.** A dashboard is in the tree, in a map and in its own list, which three
  steps change; it may leave with or without a word.

### What makes each part correct

Connections: a served client can be reached, its session and will are its own, a
will is published at most once, only after an abrupt end and then certainly; the
metrics agree with the tasks and the tree. Router: it cleans up after the
connection that ended and nothing else. Retained store: it settles on the last
message, on disk too. Subscribers: who was subscribed when a message was sent gets
it, who subscribes gets what is retained. Tree: lookup finds exactly the matching
subscriptions. Persistence: what is on disk is a prefix of what was done; all of
it gets there; a restart repairs the rest. Framing: the packets decoded are the
packets sent, however they were cut. Packet bodies: what one side encodes the other
decodes, field by field. Dashboards: who was told that a filter is in force gets what
is published, once and in order; who has left leaves nothing behind.

## 2. Modules

| module | about | composed with |
|---|---|---|
| `Broker` | life cycle of connections, the router's `ClientDisconnected`, sessions, wills, connection map, subscriptions by filter, the two state-dependent metrics, what the persistence events add up to | implements `WillContract` |
| `WillContract` | what a broker promises about wills, without tasks, maps or queue | abstract specification |
| `BrokerMC` | symmetry for TLC | extends `Broker` |
| `BrokerProofs` | inductive invariants and theorems, and that `Broker` implements `WillContract` | extends `Broker` |
| `Retained` | PUBLISH, the HTTP publish and delete, the router's `Publish`, SUBSCRIBE's look at the retained store | |
| `RetainedProofs` | inductive invariants and theorems | extends `Retained` |
| `Persistence` | channel, writer, transactions, crash, shutdown, restart | |
| `PersistenceProofs` | the laws of applying events, inductive invariants and theorems | extends `Persistence`, `Induction` |
| `Induction` | induction over numbers and finite sets, solutions of recursive equations, folds | used by `PersistenceProofs`, `QosProofs`, `SubscriptionTreeProofs` and `WireProofs` |
| `SubscriptionTree`, `SubscriptionTreeMC` | the trie and the three topic matchers; filters and topics for TLC | |
| `SubscriptionTreeProofs` | what the folds and recursions compute, inductive invariant and theorems | extends `SubscriptionTree`, `Induction` |
| `RemainingLength` | the length bytes of a packet, in any base | used by `Framing` and `Codec` |
| `Framing` | decode loops, the peer's stream | extends `RemainingLength` |
| `Codec`, `CodecMC` | the bodies of all packets of both versions, the detection of the version, the way of a message from one client to another; bytes for TLC | extends `RemainingLength` |
| `WireProofs` | what the bytes of a length and the concatenation of frames are, what reads back what is encoded, inductive invariants and theorems of both | extends `Framing`, `Codec`, `Induction` |
| `WebSubscriber`, `WebSubscriberMC` | dashboards over `/ws/subscribe` and the router's forwarding to them; filters for TLC | |
| `WebSubscriberProofs` | inductive invariants and theorems | extends `WebSubscriber` |
| `Qos` | the handshakes of QoS 1 and 2 between a publisher that may lose its connection, the tasks of its connections and the router | |
| `QosProofs` | inductive invariants and theorems | extends `Qos`, `Induction` |

`Broker`, `Retained` and `Persistence` meet at the persistence events: the first two keep
the value that the events sent so far add up to (`savedSession`, `savedWill`,
`savedSubs`, `saved`), the third shows that disk becomes that value. `Retained`
and `Broker` abstract the tree to the set of its subscriptions, which
`SubscriptionTree` justifies (`LookupExact`); so does `WebSubscriber`. `Framing` gives the
others their packets, whole, and `Codec` says that the fields of a packet are those its
sender meant.

### Broker

`pc[t]` says where the task of connection `t` is: `new`, then the steps of setting up
(`will`, `saveWill`, `save`, `connack`), `loop`, the second half of a handler
(`subscribed`, `unsubscribed`, `saveNoWill`), the steps of the clean-up (`close`,
`offline`, `notify`) and the ends `done`, `refused`, `leaked` (left by `?`) and
`deaf` (a WebSocket task whose stream has stopped). An action is the stretch between
two operations on shared state that another task can see. A stored session or will is
named by the connection that stored it, which makes "its own" expressible. `rpc` and
`firing` are the router's position inside `ClientDisconnected` and the will it has
taken. Histories: `published`, `graceful`.

The constant `Reconnect` says when a client id may be presented again: `"any"` at any
time, `"sequential"` when no task of it is running, `"drained"` when the router has
also handled its last `ClientDisconnected`. The code enforces none of them. Run
BrokerAny checks what holds under the first, BrokerDrained what needs one of the others
(`Reachable` needs only `"sequential"`, as its theorem says), and the list of other places
in section 3 says what happens without. That is the main result
about this component: most of what the documents say of sessions and wills is true
when clients come back late, and only then.

### Retained

A message is its position in the log of all that was sent to the router, a filter the
set of topics it matches. `pc` is where a publisher or HTTP request is (`store`, `save`,
`remove`, `forget`), `routed` and `rpc` where the router is. `owed` and `promised` are
histories of what subscribers are due, `doomed`, `gone` and `deleted` of deletions.

### Persistence

`mem` is what the events have made of memory, `db` what is committed, `queue`, `stopAt`
and `batch` what is on the way. Six ways lead through the writer: first event,
more events, a full batch, an empty channel, `Shutdown` as first event (the channel is
drained) and `Shutdown` later (what is behind it is dropped). `Crash` may come at any
step. `failed` counts the transactions and statements that have failed, at most
`MaxFaults`; the properties about the order of events are about runs in which none has,
`StartupClean` about all of them. What the clean-up at startup sends goes through the
same channel as what handlers send.

### SubscriptionTree

The trie is a function from node paths to the vector of subscriptions at that node;
a path is the sequence of segments, `+` and `#` being children of their own. Every
operation translates the recursion of the code into a statement about paths.
`Matches` is the reference definition of MQTT matching, against which lookup,
`TopicFilter::matches` and `acl_match` are compared. The last two are recursive
functions over suffixes. The MQTT standard lets nothing follow a `#`; the server refuses
no filter for it (`server.rs:618`), so `Filter` is any set of sequences of segments. What
`MatchersAgree` says is true of filters that obey the standard, which those of the run
do: where more follows, the two matchers say yes at the `#`, the trie only to a topic that
has a `#` there itself.
`TopicFilter::new` also trims spaces around a filter, which the tree does not; segments
have no letters here, and so no spaces.

### Qos

A message is its number in the order of sending; `qos` and `allowed` say how it is
sent and whether the ACL lets it pass. `phase[m]` is what its publisher knows: sent,
received (PUBREC), done, refused. `up[c]` holds the packets that connection `c` has
received and its task has not processed; losing a connection cuts its tail off and
throws the answers (`down`) away, the task goes on with the rest. `Process` is
`process_packet`, `Write` the write of its answer, which fails or not when the peer has
gone. The publisher is the command-line client, which neither sends again nor answers
PUBREC, or a client that keeps its session and sends again; the latter is not part of
the repository and marked external.

### Framing

Bytes are numbers below `2 * Base` (`Base` is 128 in the code); the decoder, its
errors and its waits are translated for any `Base`. `phase` is where the connection
is: reading for its CONNECT, having read, in its loop, ended.

### Codec

A packet is a record of the fields that the code's type has. Encoders are operators,
one for each packet and version. Decoders are layouts: sequences of field names and
kinds in the order in which the code reads them, interpreted by `ReadAll`; a bug in
either shows as a packet that does not survive. Only the decoder of CONNECT, whose
fields depend on its flags, is written out. Bytes are numbers, `Base` is the 128 of the
code (`Width`), properties and lists are read item by item until their end (`ReadItems`). What clients
and the broker send is every packet that the types can express with fields from small
sets. `known` is the version the broker has read from the first packet. Details kept: a
PUBLISH of 5.0 has its properties before its packet id, on both sides (the standard has
them the other way round); 3.1.1 marks each PUBLISH with an id as a duplicate; reason
codes that nobody knows are taken for success where the code does so. Left out: the
will delay interval, which is stored and not used, and strings longer than 65 535
bytes, whose length `as u16` would truncate. `MqttCodec` and `MqttFramedCodec`, which
neither broker nor client decodes with, are not modelled.

### WebSubscriber

`pc[d]` is where `handle_ws_session` of dashboard `d` is: in its `select!`, between
tree and map (`register`), about to answer (`reply`), in its clean-up, or gone. `input`
holds the frames of its browser, `channel` what the router has put into its channel,
`shown` what was written to the browser. `eof` says that no more frames come; without a
Close frame the task then waits for its channel alone, and only finds out when it writes
(`reads`). The router looks a message up in the tree and serves the subscriptions it
has found later (`todo`), finding each channel by the map. `told` is what the browser
knows to be in force, `due` what was published meanwhile: the two histories that
`ToldGetsAll` compares with the channel.

## 3. Runs

| run | checks | shows |
|---|---|---|
| BrokerAny | TypeOK, CountMatches, SubsActiveFresh, WillAtMostOnce | what holds under every rule for reconnecting |
| BrokerDrained | Reachable, SessionOwned, WillOnlyAfterEnd, NoWillAfterDisconnect, SavedMatches, RouterSparesLive, ImplementsContract, AbruptEndPublishesWill, CleanEndForgets | connections, sessions and wills behave as promised, the router's clean-up touches no served client, and with fair scheduling wills are published and clean sessions forgotten in the end, if clients come back late |
| Retained | TypeOK, RetainedSettles, SavedSettles, SubscribedGetsAll, SettledReaches | the double store settles where one connection publishes; subscribers get what they are due |
| Persistence | TypeOK, InStep, CommittedPrefix, StopComplete, EverythingCommitted, StartupClean | disk is a prefix of memory's history, and catches up; startup repairs whatever failures leave |
| Tree | TypeOK, LookupExact, CountExact, MatchersAgree | the trie under overlapping filters of two clients and every kind of wildcard |
| Qos | TypeOK, AcknowledgedIsAccepted, FirstInOrder, NoMoreThanSent, CompletedInTheEnd | what a lost connection, an older task still at work and sending again leave of order and delivery |
| Framing | StreamIntact, PacketsDecoded | no misframing, and no packet is left in the buffer |
| Codec | PacketsSurvive, DeliveredIntact | what is encoded is what is decoded, and what a subscriber of 3.1.1 gets is what was published |
| WebSubscriber | Consistent, ToldGetsAll, LeaverIsCleaned | dashboards get what they were promised and leave nothing behind |

The runs below are expected to be violated: each states what a document or comment of
the repository says, and TLC finds the behaviour of the code that contradicts it.

| run | the code |
|---|---|
| DocOwnVersion | a subscriber of 5.0 is sent packets of 3.1.1 and takes the front of a payload for properties |
| DocDelete | a deleted retained message comes back |
| DocSplitPackets | a packet cut inside its length bytes ends the connection |

Other places where the models do what the code does and a document or comment says
something else, without a run of their own:

* an error returned by a handler skips the clean-up: the will is never published
  (`Doc/protocol-support.md:202-203` has it sent) and the entry in `connections` stays
  (`Doc/message-routing.md:262` has it removed): the state `leaked`;
* the `ClientDisconnected` of an older connection publishes the will of a newer one that is
  being served (`will.rs:5` says that a will is for an unexpected disconnect), the reason
  why `WillOnlyAfterEnd` needs `Reconnect = "drained"`;
* CONNACK says that no session is present, always (`server.rs:333`;
  `Doc/protocol-support.md:191` has both answers), and messages are forwarded with
  QoS 0 (`server.rs:42`), also when SUBACK has granted more;
* a QoS 2 message whose PUBREC is lost is sent again and routed twice, since packet ids are
  not remembered (`Doc/protocol-support.md:88` has it exactly once): `Qos` lets it happen,
  and `NoMoreThanSent` says that the broker adds no routing of its own;
* a dashboard that hangs up without a Close frame stays registered until a message is
  forwarded to it (`Doc/architecture.md:99`), the reason why `LeaverIsCleaned` asks for
  one;
* a connection that ends removes the entry of a newer one with its id (`lib.rs:47` calls the
  map the active connections), the reason why `Reachable` needs `Reconnect # "any"`;
* takeover (`server.rs:285`, `api.rs:528`: "force disconnect") and the REST disconnect
  (`api.rs:326`: "will be disconnected") clear a flag that no task reads;
* a clean CONNECT keeps the old subscriptions (`Doc/protocol-support.md:195`), and the late
  `ClientDisconnected` of a clean connection removes a persistent session set up since
  (`Doc/protocol-support.md:205`);
* a WebSocket stream that ends without a Close frame never reaches "Step 8: Cleanup"
  (`api.rs:666`): the state `deaf`;
* shutdown sleeps for 200 ms and does not wait for the writer (`persistence.rs:325`): `Exit`
  has no guard on the writer, and `StopComplete` says what holds when it did end;
* retained messages from HTTP and from wills are never saved (`Doc/architecture.md:299`),
  the reason why `SavedSettles` is about topics that connections publish to.

### Bounds

* Broker: two connections that serve one of two clients, or one client twice, one filter
  that also matches the will topic, two or three of the four transports. Takeover and
  coming back are about an older and a newer connection; handlers and the router use
  one client id at a time, so two clients are enough to see one disturb the other. TCP
  and WebSocket differ in wills and ends, 3.1.1 and 5.0 in DISCONNECT and in the TCP
  decode of a CONNECT; `ws3` adds no step that `tcp3` and `ws5` do not have. Each
  connection serves any number of packets.
* Retained: `MaxLog = 2` messages on two topics, from a publisher, a request and wills. The
  two stores of two messages come in every order; with three messages and without
  wills or requests nothing else was seen.
* Persistence: `Limit = 2` (50 in the code) and three events of any kind in each run of the
  process, its clean-up's included: a full batch and one that is not, a value
  overwritten or removed; two starts of the process, the second one over what the first
  left; one transaction or statement that fails, in either run.
* SubscriptionTree: `MaxSubs = 3` subscriptions at a time of two clients at two QoS levels;
  nodes stay when they are cancelled, so trees grow beyond. Eight filters with
  wildcards at every place, topics of up to three segments with empty ones. The proofs are
  about filters and topics of any length, and any number of both.
* Qos: three messages, each of any QoS, one of them perhaps denied, over two connections:
  an older task and a newer one, sending again once. Identifiers are below
  `IdLimit = 3`, so they wrap and are used again within three messages.
* Framing: `Base = 2`, at most three length bytes, packets of one, two and three of them,
  and one that is too large; three packets, cut everywhere. The decoder is uniform in
  `Base`; the proofs are about any base, any lengths and any number of packets.
* Codec: strings and payloads that are empty or not, two packet ids whose bytes differ, one
  property of each of the seven types and one list of more than 127 bytes, so that the
  length of the properties takes two bytes; all combinations of flags, every reason code.
  One packet at a time: decoding keeps no state but the version.
* WebSubscriber: two dashboards, two filters that overlap, one message, three frames of the
  browsers altogether: enough for subscribe, cancel and leave around one look-up, by one
  dashboard or two. The proofs are about any number of each.

Most models end when their bounds are reached or all connections are gone, so their runs
say `CHECK_DEADLOCK FALSE`; the tree and the codec never end.

### Fairness

`Broker!Fairness`: weak fairness of the router and of every task's own steps. Each is a
Tokio task that is polled while it has something to do; nothing is assumed of peers
(`PeerStep`) or of REST calls. A `deaf` task may be woken by a forwarded message but need
not be, since nobody may publish. `Persistence!FairSpec`: weak fairness of the writer, a
task with a timeout on its receive. `WebSubscriber!FairSpec`: weak fairness of every
dashboard's task and of the router, nothing of browsers. `Framing!FairStreamSpec`: weak fairness of the connection,
whose socket is polled while there are bytes. `Qos!FairSpec`: weak fairness of the tasks and
the router, and of the external publisher's reading and reconnecting, which is what
makes it one that sends again; its last connection is not lost. Nothing is assumed of the
command-line client, nor that a task ever notices the end of a lost connection.

## 4. Proofs

Liveness and `ENABLED` are beyond TLAPS. So is what a `RECURSIVE` definition computes, and
the library's induction theorems take an operator, which no prover here can instantiate.
`Induction` states induction over *sets* (the numbers or the sets for which a statement
holds), derived from the theorems on well-founded orders; with it what a fold or a recursive
function computes and how large a set is can be proved from their definitions.
`BoundedRecursion` says that a recursive equation has a solution when every value depends
on values of lower rank, without which nothing is known of a function defined by one.
Eight modules hold what is proved; the bounds of the runs are constants without an assumption in them, so the
theorems are about any number of messages, events and crashes.

`BrokerProofs` proves eleven theorems of `Broker!Spec` for any sets of connections,
clients and filters, from the assumptions the module states about its constants
(`WillFilter` is a set of filters, the null values are not members of the sets they
extend).

* **TypeCorrect**: `[]TypeOK`, inductive as it stands, one step per action.
* **CountCorrect**: `[]CountMatches`. `Counted` may be any subset of `Conn`, and
  `clientsConnected` is its cardinality, which is only defined for finite sets, hence
  `CountInv` adds `IsFiniteSet(Counted)`. Two actions change the set, each by one
  element; the lemma `CountUnchanged` disposes of all others. The decrement in the code
  saturates at 0; that it never has to is part of the argument.
* **WillOnce**: `[]WillAtMostOnce`, for every rule for reconnecting. `WillInv` says where
  an unpublished will can be: in the map under its own client, or with the router, never
  in both, and not anywhere before its connection has stored it. Taking it out of
  the map is one atomic operation, which is the reason why it is true.
* **ReachableWithoutTakeover**: `[]Reachable` unless `Reconnect = "any"`. `SeqInv` adds
  `OneTaskPerClient`: entries are removed by client id, which is the same as by
  connection when there is one.
* **SessionOwnedWhenDrained**, **WillAfterEndWhenDrained**, **RouterSparesWhenDrained**:
  under `Reconnect = "drained"`. `DrainedInv` says that every connection whose message
  is in the router's queue has ended and that no client in the queue has a task; the
  message the router works on stays at the head, so what it removes belongs to nobody
  who is served. The third is an action property, proved from the invariant step by step
  of the router.
* **NoWillWhenDrained**: `GracefulInv` adds that the will of a connection that has sent
  DISCONNECT is not in the map either and that the connection is past storing it. It rests
  on `WillOnlyAfterEnd`: before DISCONNECT comes, the router cannot have taken the will.
* **SubsActiveCorrect**: `[]SubsActiveFresh`, under every rule for reconnecting. The property
  is inductive: whoever changes the tree counts it afresh before he is done, so while
  nobody has a count to come, the last count is of the tree as it is.
* **SavedWhenDrained**: `[]SavedMatches`. For each of session, will and subscriptions the
  invariant (`SessionSaved`, `WillSaved`, `SubsSaved`) says at which points of which handler,
  or of the router, memory is ahead of the disk, and that memory is there still as that
  handler has left it, so that the event it sends is the right one: a client has one task,
  and the router is done with it.

The last is **BrokerImplementsContract**, under `Reconnect = "drained"`: every
step of a task, a peer or the router is, through the mapping `ClientOf`, `PhaseOf`, `WillOf`,
one step of `WillContract` or none. A will is armed when its connection stores it and
published when the router has fired it, which is possible because its connection is then
over. `ContractInv` says that only connections with a will have one anywhere, and that the
router works for the client of the will it holds; `DrainedInv` and `WillInv` do the rest.


`RetainedProofs`, of `Retained!Spec`, from `FilterAssumption` and `SourceAssumption`
(publishers, requests and the broker are different sources):

* **TypeCorrect**: `[]TypeOK`.
* **SubscribedGetsAllAlways**: `OwedInv` adds that what is owed is owed to a subscription
  still in the tree that matches, and that what is owed of the message the router is
  forwarding is still among those it has looked up. Cancelling takes the debt away with
  the subscription.
* **RetainedSettlesAlways**, **SavedSettlesAlways**: `SettleInv` is about the *last*
  publication of a topic that one connection publishes to. When the router has passed it
  and its connection does not stand before its store, it is stored: whoever of the two
  came second wrote it, and nothing older is written afterwards, since a connection
  works on its last message (`TaskInv`) and the router goes forward. On disk, the same
  without the router. That there is a last publication is an invariant of its own
  (`LastInv`). `OneSource` counts, `Sole` says the same without counting (lemma
  `OneSourceSole`).
* **SettledReachesAlways**: `PromiseInv` follows a promised message in one of three
  cases: nothing has been published to the topic since, and the message is still stored
  for the scan to find; the subscriber has it, or a later one; or a later one is ahead of
  the router and the subscription still in the tree to be found. A step leads from the
  first to the third (a publication), from the first or third to the second (the scan,
  the router) and never back.

`PersistenceProofs`, of `Persistence!Spec`, from the assumptions that `Client` is finite
and a batch has room for two. `ApplyAll` is a fold; the lemmas `ApplyAllIsChain` and
`ChainsAgree`, by induction, make it one table after another, from which it follows that
applying two sequences in a row is applying their concatenation (`ApplyConcat`):

* **TypeCorrect**: `[]TypeOK`. `BatchBound` is what makes a batch stay within `Limit`: the
  writer goes on collecting only while there is room, and begins with nothing.
* **InStepAlways**: `[]InStep`. A handler's event changes memory as it will change the disk,
  committing moves a prefix of the difference to the disk; the step that needs work
  is `Start`, whose clean-up removes sessions and subscriptions in memory and *sends*
  events that should remove the same (`CleanupApplied`: first the two events of each stale
  client, then one of each orphan, in whatever order the sets are enumerated).
* **StartupCleanAlways**: the action property `StartupClean`, for all tables that failures can
  leave, not only those that the other properties are about.
* **CommittedPrefixAlways**: `InFlight` says that, while no write has failed, what was
  sent is what was committed, then the batch, then the queue; after Ctrl-C, the part of
  the queue that the writer drops is the end of it.
* **StopCompleteAlways**: `StopDistance` says how far `Shutdown` is behind what was
  committed; both of the writer's loops come to it only when that is nothing.

`WebSubscriberProofs`, of `WebSubscriber!Spec`:

* **ConsistentAlways**: `[]Consistent`, the types and `NothingLeft`: tree, map and the
  lists of the tasks agree after every step of subscribing, cancelling and leaving.
* **ToldGetsAllAlways**: `ToldIsActive` says that what a browser knows to be in force is
  in its task's list and not about to be cancelled, `DueIsTold` that what is due was
  published under a filter that still is, `NothingNewer` that channels hold nothing the
  router has not come to. A filter in force is registered in both tree and map from
  before the look-up to after the forwarding, so the look-up finds it and the forwarding
  finds its channel.

`QosProofs`, of `Qos!Spec`, from the assumptions on its bounds and that the publisher is one
of the three that are modelled (`ClientAssumption`):

* **TypeCorrect**: `[]TypeOK`, with `Unmade`: a connection not yet made holds nothing.
* **AcknowledgedAlways**: `HandshakeInv` says, of the connection in use, that every packet and
  answer on it belongs to exactly one message, in the phase that waits for it
  (`Matched`), and that a message has one of them at most (`Single`); `DistinctIds` that no
  two messages wait under one identifier. Lost connections are left out: nobody reads
  their answers. For the shell, which drops every answer unread and may use an identifier
  again that is still waiting, none of this holds, nor is it needed: to it no message is
  ever more than sent.
  `AcceptInv` then ties the phases to what the router has.
* **NoMoreThanSentAlways**: `CountInv` counts what the router has of a message together with
  what connections, old and new, still hold of it.
* **FirstInOrderAlways**: `OrderInv` has three parts, for what is accepted, what is in flight
  and what is yet to be sent: each message finds all earlier ones ahead of it. Sending
  again keeps it because everything unanswered is sent again, in order, before anything new.

`SubscriptionTreeProofs`, of `SubscriptionTree!Spec`, from the assumptions that filters and
topics are sequences of segments and not empty. `TreeInv` says that each entry is in the
node of its own filter, once for each client, that the nodes on the way to a node exist,
that there are finitely many, and that the entries are the subscriptions in force:

* **TypeCorrect**: `[]TypeOK`. Inserting replaces the entry of the same client or adds one
  (`PutInCorrect`); removing is a fold (`WithoutClientCorrect`).
* **CountExactAlways**: `[]CountExact`. A node has as many entries as there are subscriptions
  to its filter (`NodeCounts`), and these sets are disjoint; that the sum adds them up is an
  induction over how many nodes have been added.
* **LookupExactAlways**: `[]LookupExact`. `FitsBelow` is what the recursion finds below a path,
  said without recursion; by induction from the last level of the topic up to the root
  (`TakenCorrect`), with one lemma for the end of the topic and one for a segment before it.
  A missing node ends the search, and nothing is missed, since with a filter's node come
  all those above it. `DedupCorrect` does the rest.
* **MatchersAgreeAlways**: `HashOnlyLast => (Spec => []MatchersAgree)`. Both matchers say
  `RestMatches`, by induction from the end of the filter. `HashOnlyLast` is a hypothesis of
  this theorem and of no other: see section 2.

`WireProofs` is about the bytes on a connection. Its theorems of `RemainingLength` and
`Framing!StreamSpec` are from the assumptions that `Base` is at least 2, that kinds are
bytes, that the limit is a number and that only lengths are sent whose encoding is not too
long; they use nothing of `Codec`, which the module extends for the theorems after them:

* **LengthReadBack**: a length is read back from any bytes that begin with its encoding, and
  from no proper part of it. What `encode_remaining_length` has left after each byte
  (`Shrinks`) comes to 0, since dividing makes it smaller; reading keeps the sum of the
  value so far and what was left, times the multiplier (`Accumulates`).
* **StreamIntactAlways**: `[]StreamIntact`. The property is inductive, once with the types:
  `FrontOfStream` says that the buffer begins with the frame of the next packet or with a
  part of it, whose kind and length, when all of its bytes are there, are the packet's. So
  what is taken out is that frame (`ConsumeKeepsIntact`), a read moves bytes from the wire to
  the buffer (`ReadKeepsIntact`), and what is sent is put behind (`SendKeepsIntact`).
  `FlattenLaws` says what the concatenation of frames is at both of its ends.
* **FailsOnlyAtLongAlways**, **ClosedHasAllAlways**: the safety half of `PacketsDecoded`. A
  decoder fails at the next packet only, and only if it is too large or its length takes
  more than one byte; when the stream has ended, everything has been decoded.

Its theorems of `Codec!Spec` are for any strings, payloads, packet ids, keep-alive times and
lists of properties, from the assumptions that strings are bytes without the high bit,
strings and payloads are of at most 65,535 bytes, numbers fit their width, a property has a
value of its type, and a list of properties takes at most 64 MiB (`LongestProperties`), so
that the length of any packet has an encoding: a limit stated for the proof, with which a
CONNECT with two such lists stays below the 256 MiB that decoders accept. Lists of filters,
topics and codes are of one or two items, as in the run. That `Base` is 128 and a length takes four bytes at most (`Width`) is a hypothesis
of the theorems, so that those of `Framing` remain about any base; `CodecMC` assumes it.

* **PacketsSurviveAlways**: `[]PacketsSurvive`. The invariant is `WayInv`: a CONNECT that is
  under way is one that can be sent, with its bytes; any other packet under way is decoded to
  itself in the version that both sides know (`Goes`); what has been read is what was
  sent. `PacketsSurvive` alone says nothing of a packet under way, hence is not inductive. That
  a packet goes is proved bottom up: a number, a string, a property, a list of
  properties, a filter are read back from the front of any bytes that begin with their
  encoding (`BinaryBack`, `ValueReads`, `PropertiesBack`, `FilterV5Back`); a layout is read
  back if its fields are (`LayoutReads`), to which `ReadsMore` adds a field and `EndsMore` one
  that takes the rest; the frame gives the decoder the body and its type (`FrameBack`). Then
  there is one lemma for each packet and version. The flags of a CONNECT select the layout of
  its tail, and each of their bits says what it was set for (`FlagsOfConnect`, `TailReads`).
* **DeliveredIntactAlways**: `[]DeliveredIntact` if `SubscriberVersion` is a subset of `{4}`. For a
  subscriber of version 5.0 it is false, as the run `DocOwnVersion` shows.

Only model-checked: liveness, in all runs with a fair specification.

## 5. Not modelled, and why

Configuration, how a credential is compared, traffic
counters, REST queries, the dashboard's pages: sequential code without shared state, or
views. The ids that the broker assigns to clients that bring none (`lib.rs:85`). The size
of a connection's channel, which is unbounded (`server.rs:355`), and the command-line
client writing to its socket in pieces (`mqtt-client/src/main.rs:240`): both are about
amounts of memory and bytes that the models leave out. Bundled binaries and test scripts. Keep-alive: the broker stores the interval and
has no timer, so there is nothing to model. The will delay interval is stored and not
used. DashMap, Mutex, channels and SQLite are taken to do what they promise: an operation
by key is atomic, a channel is first-in-first-out, a transaction is all or nothing.
Locks are never held across an await, and the one statement that takes two of them
(metrics while subscriptions is held, server.rs:646) takes them in the same order
wherever it occurs.

## 6. Plan

1. `Restart`: `Broker` over `Persistence`: loaded sessions, wills and subscriptions met by
   clients that come back, and the ids the broker assigns.
2. `Acl`: the rules in file order, as operators, against what the comments promise of
   their order and of the default.
3. Liveness of routing: what is sent is forwarded, under fairness of the router.
