---------------------------- MODULE Persistence ----------------------------
(***************************************************************************)
(* The persistence layer (mqtt-broker/src/persistence.rs): handlers send   *)
(* events to a channel, a background writer collects them into batches and *)
(* writes each batch in one SQLite transaction.  At startup (main.rs of    *)
(* mqtt-web) the tables are loaded into memory and cleaned up; on Ctrl-C   *)
(* the writer is told to stop and the process exits after a pause.  The    *)
(* process may also crash at any step.                                     *)
(*                                                                         *)
(* `mem` is what the events sent so far have made of the broker's memory;  *)
(* that every handler sends the event for what it does in memory is the    *)
(* subject of Broker.  Filters, topics and payloads are opaque.            *)
(***************************************************************************)
EXTENDS Integers, Sequences, SequencesExt, FiniteSets

CONSTANTS
    Client, Filter, Topic, Payload,
    NoPayload,     \* no retained message
    Limit,         \* events in a full batch (50 in the code)
    MaxSent,       \* bound: events that handlers send in one run of the process
    MaxRuns,       \* bound: times the process is started
    MaxFaults      \* bound: transactions and statements that fail

ASSUME ClientAssumption == IsFiniteSet(Client)
ASSUME LimitAssumption == Limit \in Nat /\ Limit > 1
ASSUME NoPayloadAssumption == NoPayload \notin Payload

VARIABLES
    db,            \* the committed tables
    mem,           \* the broker's memory
    queue,         \* the channel to the writer, its Shutdown left out
    stopAt,        \* how many events are in the channel ahead of Shutdown
    batch,         \* what the writer has collected
    wpc,           \* where the writer is
    phase,         \* "open", "closing" (after Ctrl-C) or "down"
    sent,          \* history: events sent in this run
    log,           \* history: events of this run that were committed
    closedAt,      \* history: how many events were sent before Shutdown
    runs,          \* how often the process has been started
    failed         \* how many SQLite transactions and statements have failed

vars == <<db, mem, queue, stopAt, batch, wpc, phase, sent, log, closedAt, runs, failed>>
writerVars == <<batch, wpc>>
channelVars == <<queue, stopAt>>
histVars == <<sent, log, closedAt>>
processVars == <<runs, failed>>

-----------------------------------------------------------------------------
NoStop == -1                  \* no Shutdown in the channel

Session == {"none", "clean", "kept"}
Tables == [sessions : [Client -> Session], subs : SUBSET (Client \X Filter),
           wills : SUBSET Client, retained : [Topic -> Payload \union {NoPayload}]]

Empty == [sessions |-> [c \in Client |-> "none"], subs |-> {}, wills |-> {},
          retained |-> [t \in Topic |-> NoPayload]]

Event ==
    [op : {"SaveSession"}, client : Client, clean : BOOLEAN]
    \union [op : {"RemoveSession", "RemoveClientSubscriptions", "SaveWill", "RemoveWill"},
            client : Client]
    \union [op : {"SaveSubscription", "RemoveSubscription"}, client : Client, filter : Filter]
    \union [op : {"SaveRetained"}, topic : Topic, payload : Payload]
    \union [op : {"RemoveRetained"}, topic : Topic]

\* One statement of flush_all; saving is an upsert.
Apply(tables, e) ==
    CASE e.op = "SaveSession" ->
           [tables EXCEPT !.sessions[e.client] = IF e.clean THEN "clean" ELSE "kept"]
      [] e.op = "RemoveSession" -> [tables EXCEPT !.sessions[e.client] = "none"]
      [] e.op = "SaveSubscription" -> [tables EXCEPT !.subs = @ \union {<<e.client, e.filter>>}]
      [] e.op = "RemoveSubscription" -> [tables EXCEPT !.subs = @ \ {<<e.client, e.filter>>}]
      [] e.op = "RemoveClientSubscriptions" ->
           [tables EXCEPT !.subs = {s \in @ : s[1] # e.client}]
      [] e.op = "SaveWill" -> [tables EXCEPT !.wills = @ \union {e.client}]
      [] e.op = "RemoveWill" -> [tables EXCEPT !.wills = @ \ {e.client}]
      [] e.op = "SaveRetained" -> [tables EXCEPT !.retained[e.topic] = e.payload]
      [] e.op = "RemoveRetained" -> [tables EXCEPT !.retained[e.topic] = NoPayload]

ApplyAll(tables, events) == FoldLeft(Apply, tables, events)

-----------------------------------------------------------------------------
(* Startup *)

StaleClients(tables) == {c \in Client : tables.sessions[c] = "clean"}
RemoveStale(tables) ==
    [tables EXCEPT !.sessions = [c \in Client |-> IF @[c] = "clean" THEN "none" ELSE @[c]],
                   !.subs = {s \in @ : s[1] \notin StaleClients(tables)}]
OrphanClients(tables) ==
    {c \in Client : tables.sessions[c] = "none" /\ \E s \in tables.subs : s[1] = c}

\* Mutant of RemoveOrphans: only clients whose session is stale are removed.
RemoveStaleOnly(tables) ==
    [tables EXCEPT !.subs = {s \in @ : s[1] \notin StaleClients(tables)}]

RemoveOrphans(tables) ==
    [tables EXCEPT !.subs = {s \in @ : s[1] \notin OrphanClients(tables)}]

\* Mutant of CleanupEvents: nothing is sent for the orphans.
CleanupStaleOnly(tables) ==
    LET stale == SetToSeq(StaleClients(tables))
    IN  FlattenSeq([i \in DOMAIN stale |->
            <<[op |-> "RemoveClientSubscriptions", client |-> stale[i]],
              [op |-> "RemoveSession", client |-> stale[i]]>>])

\* The events sent for the stale clients, in the order of some iteration,
\* and then those for the orphans.
CleanupEvents(tables) ==
    LET subsOf(c) == [op |-> "RemoveClientSubscriptions", client |-> c]
        session(c) == [op |-> "RemoveSession", client |-> c]
        stale == SetToSeq(StaleClients(tables))
        orphans == SetToSeq(OrphanClients(RemoveStale(tables)))
    IN  [i \in 1 .. 2 * Len(stale) |->
            IF i % 2 = 1 THEN subsOf(stale[(i + 1) \div 2]) ELSE session(stale[i \div 2])]
        \o [i \in 1 .. Len(orphans) |-> subsOf(orphans[i])]

\* The process starts on the tables that are on disk.
Started(tables) ==
    /\ mem' = RemoveOrphans(RemoveStale(tables))
    /\ queue' = CleanupEvents(tables)
    /\ sent' = CleanupEvents(tables)
    /\ log' = <<>>
    /\ stopAt' = NoStop
    /\ closedAt' = NoStop
    /\ batch' = <<>>
    /\ wpc' = "wait"
    /\ phase' = "open"

Init ==
    /\ db = Empty
    /\ mem = Empty
    /\ queue = <<>> /\ stopAt = NoStop
    /\ batch = <<>> /\ wpc = "wait"
    /\ phase = "open"
    /\ sent = <<>> /\ log = <<>> /\ closedAt = NoStop
    /\ runs = 1 /\ failed = 0

Start ==
    /\ phase = "down"
    /\ runs < MaxRuns
    /\ runs' = runs + 1
    /\ Started(db)
    /\ UNCHANGED <<db, failed>>

\* The process dies: what is not committed is gone.
Die ==
    /\ phase' = "down"
    /\ mem' = Empty
    /\ queue' = <<>> /\ batch' = <<>>
    /\ wpc' = "stopped"
    /\ stopAt' = NoStop
    /\ sent' = <<>> /\ log' = <<>> /\ closedAt' = NoStop
    /\ UNCHANGED <<db, processVars>>

Crash == phase # "down" /\ Die

-----------------------------------------------------------------------------
(* Senders *)

\* A handler changes memory and sends the event; after the writer has
\* returned, the receiving end is gone and the send fails.
SendEvent(e) ==
    /\ phase # "down"
    /\ Len(sent) < MaxSent
    /\ mem' = Apply(mem, e)
    /\ IF wpc = "stopped" THEN UNCHANGED <<queue, sent>>
       ELSE queue' = Append(queue, e) /\ sent' = Append(sent, e)
    /\ UNCHANGED <<db, stopAt, writerVars, phase, log, closedAt, processVars>>

\* Ctrl-C: Shutdown is sent through the same channel.
Shutdown ==
    /\ phase = "open"
    /\ phase' = "closing"
    /\ stopAt' = Len(queue)
    /\ closedAt' = Len(sent)
    /\ UNCHANGED <<db, mem, queue, writerVars, sent, log, processVars>>

\* 200 ms later the process exits, whatever the writer has done.
Exit == phase = "closing" /\ Die

-----------------------------------------------------------------------------
(* The writer *)

More == queue # <<>> /\ stopAt # 0
AtStop == stopAt = 0

Take ==
    /\ batch' = Append(batch, Head(queue))
    /\ queue' = Tail(queue)
    /\ stopAt' = IF stopAt > 0 THEN stopAt - 1 ELSE NoStop

Move(from, to) == wpc = from /\ wpc' = to

\* The first event of a batch; the timeout with nothing received changes nothing.
Receive ==
    /\ More
    /\ Move("wait", "collect")
    /\ Take
    /\ UNCHANGED <<db, mem, phase, histVars, processVars>>

\* Shutdown with nothing collected.
ReceiveStop ==
    /\ AtStop
    /\ Move("wait", "drain")
    /\ stopAt' = NoStop
    /\ UNCHANGED <<db, mem, queue, batch, phase, histVars, processVars>>

\* Mutant of Collect: a full batch is flushed one event too late.
CollectOneMore ==
    /\ More
    /\ Move("collect", IF Len(batch) >= Limit THEN "full" ELSE "collect")
    /\ Take
    /\ UNCHANGED <<db, mem, phase, histVars, processVars>>

\* Without waiting, as long as there is something in the channel.
Collect ==
    /\ More
    /\ Move("collect", IF Len(batch) + 1 >= Limit THEN "full" ELSE "collect")
    /\ Take
    /\ UNCHANGED <<db, mem, phase, histVars, processVars>>

\* Mutant of CollectNothing: a batch that is not full is left unflushed.
CollectKeeps ==
    /\ queue = <<>> /\ ~AtStop
    /\ Move("collect", "wait")
    /\ UNCHANGED <<db, mem, channelVars, batch, phase, histVars, processVars>>

CollectNothing ==
    /\ queue = <<>> /\ ~AtStop
    /\ Move("collect", IF batch = <<>> THEN "wait" ELSE "flush")
    /\ UNCHANGED <<db, mem, channelVars, batch, phase, histVars, processVars>>

\* Mutant of CollectStop: the writer ends without the last flush.
CollectStopUnflushed ==
    /\ AtStop
    /\ Move("collect", "stopped")
    /\ stopAt' = NoStop
    /\ queue' = <<>>
    /\ UNCHANGED <<db, mem, batch, phase, histVars, processVars>>

\* What is behind Shutdown in the channel is dropped with the receiver.
CollectStop ==
    /\ AtStop
    /\ Move("collect", "last")
    /\ stopAt' = NoStop
    /\ queue' = <<>>
    /\ UNCHANGED <<db, mem, batch, phase, histVars, processVars>>

\* Shutdown met as the first event: the rest of the channel is still taken.
Drain ==
    /\ wpc = "drain" /\ queue # <<>>
    /\ Take
    /\ UNCHANGED <<db, mem, wpc, phase, histVars, processVars>>

DrainEnd ==
    /\ queue = <<>>
    /\ Move("drain", "last")
    /\ UNCHANGED <<db, mem, channelVars, batch, phase, histVars, processVars>>

\* After a flush: collecting goes on, the loop starts over, or the writer ends.
AfterFlush ==
    \/ Move("full", "collect")
    \/ Move("flush", "wait")
    \/ Move("last", "stopped")

\* Mutant of FlushAll: the events are written newest first.
FlushReversed ==
    /\ AfterFlush
    /\ db' = ApplyAll(db, Reverse(batch))
    /\ log' = log \o Reverse(batch)
    /\ batch' = <<>>
    /\ UNCHANGED <<mem, channelVars, phase, sent, closedAt, processVars>>

\* One transaction for the whole batch.
FlushAll ==
    /\ AfterFlush
    /\ db' = ApplyAll(db, batch)
    /\ log' = log \o batch
    /\ batch' = <<>>
    /\ UNCHANGED <<mem, channelVars, phase, sent, closedAt, processVars>>

\* Faults are bounded; in the last run nothing comes after them.
Fault == failed < MaxFaults /\ runs < MaxRuns /\ failed' = failed + 1

\* BEGIN or COMMIT fails: the batch is cleared all the same.
FlushFails ==
    /\ Fault
    /\ batch # <<>>
    /\ AfterFlush
    /\ batch' = <<>>
    /\ UNCHANGED <<db, mem, channelVars, phase, histVars, runs>>

\* A statement fails: the error is logged and the others are committed.
StatementFails ==
    /\ Fault
    /\ AfterFlush
    /\ \E i \in DOMAIN batch :
         /\ db' = ApplyAll(db, RemoveAt(batch, i))
         /\ log' = log \o RemoveAt(batch, i)
    /\ batch' = <<>>
    /\ UNCHANGED <<mem, channelVars, phase, sent, closedAt, runs>>

WriterStep ==
    /\ phase # "down"
    /\ \/ Receive \/ ReceiveStop
       \/ Collect \/ CollectNothing \/ CollectStop
       \/ Drain \/ DrainEnd
       \/ FlushAll \/ FlushFails \/ StatementFails

Next ==
    \/ \E e \in Event : SendEvent(e)
    \/ Shutdown \/ Exit \/ Crash \/ Start
    \/ WriterStep

Spec == Init /\ [][Next]_vars

\* The writer is a task of its own and is scheduled whenever it can run.
FairSpec == Spec /\ WF_vars(WriterStep)

-----------------------------------------------------------------------------
\* Every variable is of its type, and a batch has at most Limit events, except
\* while the channel is drained.
TypeOK ==
    /\ db \in Tables /\ mem \in Tables
    /\ queue \in Seq(Event) /\ batch \in Seq(Event)
    /\ sent \in Seq(Event) /\ log \in Seq(Event)
    /\ stopAt \in Nat \union {NoStop} /\ closedAt \in Nat \union {NoStop}
    /\ wpc \in {"wait", "collect", "full", "flush", "drain", "last", "stopped"}
    /\ phase \in {"open", "closing", "down"}
    /\ runs \in Nat /\ failed \in Nat
    /\ wpc \notin {"drain", "last"} => Len(batch) <= Limit

(* Properties of a writer whose statements do not fail (failed = 0) *)

\* Memory is what the disk becomes once the events on their way are written:
\* after any number of crashes and restarts, startup cleanup included, what
\* is in flight is exactly the difference.
InStep == failed = 0 /\ phase = "open" => mem = ApplyAll(db, batch \o queue)

\* No event is on disk without every event sent before it: a crash leaves the
\* effect of a prefix of what the handlers did.
CommittedPrefix == failed = 0 => IsPrefix(log, sent)

\* When the writer has stopped, everything sent before Shutdown is on disk,
\* whichever of its two receive loops met Shutdown.
StopComplete == failed = 0 /\ phase = "closing" /\ wpc = "stopped" => Len(log) >= closedAt

\* Every event sent is committed in the end, unless the process goes down.
EverythingCommitted == \A n \in 1 .. MaxSent :
    Len(sent) = n ~> Len(log) >= n \/ phase # "open" \/ failed > 0

(* Whatever fails *)

\* From any tables that faults and crashes have left, startup makes a memory
\* without clean sessions and without subscriptions of unknown clients, and
\* everything of the persistent sessions is in it.
StartupClean == [][Start => \A c \in Client :
    /\ mem'.sessions[c] = IF db.sessions[c] = "kept" THEN "kept" ELSE "none"
    /\ {s \in mem'.subs : s[1] = c} =
         {s \in db.subs : s[1] = c /\ db.sessions[c] = "kept"}]_vars
=============================================================================
