----------------------------- MODULE WSConnmgr -----------------------------
(***************************************************************************)
(* WebSocket connections: core/ws_connmgr.go, core/ws.go (handleRequest),  *)
(* core/read_loop.go and core/write_loop.go, over the broker of            *)
(* memorybroker.                                                           *)
(*                                                                         *)
(* Each connection has a goroutine that reads (handleRequest/readLoop),    *)
(* one that writes (writeLoop) and one that sends pings (pingLoop); one    *)
(* more looks for dead connections.  They share the maps of the manager,   *)
(* under mu, the broker, and the write lock of each connection.  A         *)
(* critical section of mu is one step, except the one in which the scan    *)
(* closes a connection: it waits for the write lock with mu held.  One     *)
(* call of the broker or of TrySend is one step.                           *)
(*                                                                         *)
(* Every write to the socket holds the write lock of websocket.Conn:       *)
(* JSON.Send, and Close, which sends a close frame before it closes the    *)
(* socket.  A peer that does not read can keep a write waiting for as long *)
(* as it likes; only the deadline that pingLoop sets ends it.              *)
(*                                                                         *)
(* Abstractions.  The broker is seen through its interface: how many live  *)
(* subscriptions a connection has for a topic (the handler of each is      *)
(* TrySend on that connection).  The send channel is the number of         *)
(* payloads in it.  Which event patterns are registered                    *)
(* (eventMatcher.Match), and the outcome of middlewares, guards and        *)
(* handlers (runWSMiddlewares, dispatchWSEvent), is a free choice, made    *)
(* each time.  Time is counted in ticks; the age of a connection is the    *)
(* time since its LastSeen.                                                *)
(***************************************************************************)
EXTENDS Naturals, Sequences, FiniteSets, SequencesExt

P == INSTANCE Pattern

CONSTANTS
    Conns,          \* connection IDs; each is used by one connection
    Topics,         \* topics of requests
    Requests,       \* the topic lists of requests, sequences of Topics
    SendBufferSize, \* 32 in the code
    Interval,       \* period of the scan for dead connections, 15s in the code
    Timeout         \* silence after which a connection is dead, 60s in the code

ASSUME WSAssumption ==
    /\ Requests \subseteq Seq(Topics)
    /\ SendBufferSize \in Nat \ {0}
    /\ Interval \in Nat \ {0}
    /\ Timeout \in Nat

VARIABLES
    conns,          \* connmgr.conns
    subscriptions,  \* connmgr.subscriptions: per connection, topics in order
    broker,         \* live subscriptions of the broker per connection and topic
    brokerClosed,   \* Broker.Close has been committed
    brokerCleared,  \* and has emptied the maps of the broker
    reader,         \* per connection: where handleRequest is
    todo,           \* per connection: topics of the request still to handle
    fanout,         \* per connection: handlers its Publish has still to call
    send,           \* per connection: payloads in the send channel
    done,           \* per connection: how often the done channel was closed
    writer,         \* per connection: state of writeLoop
    pinger,         \* per connection: state of pingLoop
    writeLock,      \* per connection: who holds the write lock of websocket.Conn
    deadline,       \* per connection: a write deadline is set
    socket,         \* per connection: "open" or "closed"
    age,            \* per connection: ticks since LastSeen
    sinceScan,      \* ticks since the last scan
    deadConnIDs,    \* connections the current scan has still to remove
    reaping         \* the one it is removing, with mu held

mgr == <<conns, subscriptions>>
bus == <<broker, brokerClosed, brokerCleared>>
reading == <<reader, todo, fanout>>
writing == <<send, writer>>
wire == <<pinger, writeLock, deadline, socket>>
time == <<age, sinceScan, deadConnIDs>>
vars == <<mgr, bus, reading, writing, done, wire, time, reaping>>

\* The goroutines that write to a socket.
Senders == {"writer", "pinger", "reader", "scan"}

TypeOK ==
    /\ conns \subseteq Conns
    /\ subscriptions \in [Conns -> Seq(Topics)]
    /\ broker \in [Conns -> [Topics -> Nat]]
    /\ brokerClosed \in BOOLEAN /\ brokerCleared \in BOOLEAN
    /\ reader \in [Conns -> {"new", "read", "subscribe", "record", "unsubscribe",
                             "publish", "dispatch", "emit", "fanout", "leave",
                             "close", "ended"}]
    /\ todo \in [Conns -> Seq(Topics)]
    /\ fanout \in [Conns -> SUBSET (Conns \X Topics)]
    /\ send \in [Conns -> 0 .. SendBufferSize]
    /\ done \in [Conns -> Nat]
    /\ writer \in [Conns -> {"new", "run", "send", "exit"}]
    /\ pinger \in [Conns -> {"new", "run", "ping", "clear", "exit"}]
    /\ writeLock \in [Conns -> Senders \cup {"free"}]
    /\ deadline \in [Conns -> BOOLEAN]
    /\ socket \in [Conns -> {"open", "closed"}]
    /\ age \in [Conns -> Nat]
    /\ sinceScan \in 0 .. Interval
    /\ deadConnIDs \subseteq Conns
    /\ reaping \subseteq Conns

Init ==
    /\ conns = {}
    /\ subscriptions = [c \in Conns |-> <<>>]
    /\ broker = [c \in Conns |-> [t \in Topics |-> 0]]
    /\ brokerClosed = FALSE
    /\ brokerCleared = FALSE
    /\ reader = [c \in Conns |-> "new"]
    /\ todo = [c \in Conns |-> <<>>]
    /\ fanout = [c \in Conns |-> {}]
    /\ send = [c \in Conns |-> 0]
    /\ done = [c \in Conns |-> 0]
    /\ writer = [c \in Conns |-> "new"]
    /\ pinger = [c \in Conns |-> "new"]
    /\ writeLock = [c \in Conns |-> "free"]
    /\ deadline = [c \in Conns |-> FALSE]
    /\ socket = [c \in Conns |-> "open"]
    /\ age = [c \in Conns |-> 0]
    /\ sinceScan = 0
    /\ deadConnIDs = {}
    /\ reaping = {}

----------------------------------------------------------------------------
Count(t, s) == Cardinality({i \in DOMAIN s : s[i] = t})

\* mu is free: whoever needs it waits while the scan closes a connection.  A
\* step that has looked into the list and goes on without mu does not need it.
Unlocked == reaping = {}

IsSubscribed(c, t) == t \in Range(subscriptions[c])

\* TrySend: the payload is dropped when the channel is full.
TrySend(c) ==
    send' = [send EXCEPT ![c] = IF @ < SendBufferSize THEN @ + 1 ELSE @]

Goto(c, where) == reader' = [reader EXCEPT ![c] = where]

\* The handler is left: back to readLoop.
Return(c) == Goto(c, "read") /\ todo' = [todo EXCEPT ![c] = <<>>]

\* The next topic of the list.
NextTopic(c, where) == Goto(c, where) /\ todo' = [todo EXCEPT ![c] = Tail(@)]

\* Broker.Unsubscribe of every subscription in the list of c; a closed broker
\* answers ErrClosed, which is ignored.
UnsubscribeAll(c) ==
    broker' = IF brokerClosed THEN broker
              ELSE [broker EXCEPT ![c] =
                      [t \in Topics |-> @[t] - Count(t, subscriptions[c])]]

\* Mutant: the subscriptions of a connection that is no longer in conns are not
\* looked for.
Forget_OnlyKnown(c) ==
    /\ IF c \in conns
       THEN UnsubscribeAll(c) /\ subscriptions' = [subscriptions EXCEPT ![c] = <<>>]
       ELSE UNCHANGED <<broker, subscriptions>>
    /\ done' = [done EXCEPT ![c] = IF c \in conns THEN @ + 1 ELSE @]
    /\ conns' = conns \ {c}

\* Mutant: the done channel is closed without looking the connection up.
Forget_AlwaysCloses(c) ==
    /\ UnsubscribeAll(c)
    /\ done' = [done EXCEPT ![c] = @ + 1]
    /\ subscriptions' = [subscriptions EXCEPT ![c] = <<>>]
    /\ conns' = conns \ {c}

\* Common to Unregister and the scan: what is left of c in the manager.
Forget(c) ==
    /\ UnsubscribeAll(c)
    /\ done' = [done EXCEPT ![c] = IF c \in conns THEN @ + 1 ELSE @]
    /\ subscriptions' = [subscriptions EXCEPT ![c] = <<>>]
    /\ conns' = conns \ {c}

----------------------------------------------------------------------------
\* handleRequest: Register, and the start of writeLoop and pingLoop.
Register(c) ==
    /\ reader[c] = "new" /\ Unlocked
    /\ conns' = conns \cup {c}
    /\ age' = [age EXCEPT ![c] = 0]
    /\ writer' = [writer EXCEPT ![c] = "run"]
    /\ pinger' = [pinger EXCEPT ![c] = "run"]
    /\ Goto(c, "read")
    /\ UNCHANGED <<subscriptions, bus, todo, fanout, send, done, writeLock, deadline,
                   socket, sinceScan, deadConnIDs, reaping>>

\* touch
Touch(c) == age' = [age EXCEPT ![c] = IF c \in conns THEN 0 ELSE @]

\* readLoop gets a subscribe, unsubscribe or publish request.  A closed
\* socket may still have frames in its read buffer.
Receive(c, handler, topics) ==
    /\ reader[c] = "read" /\ Unlocked
    /\ Touch(c)
    /\ Goto(c, handler)
    /\ todo' = [todo EXCEPT ![c] = topics]
    /\ UNCHANGED <<mgr, bus, fanout, writing, done, wire, sinceScan,
                   deadConnIDs, reaping>>

\* readLoop gets a ping, a pong or an unsupported type: the first and the
\* last are answered.
ReceiveOther(c, answered) ==
    /\ reader[c] = "read" /\ Unlocked
    /\ Touch(c)
    /\ IF answered THEN TrySend(c) ELSE UNCHANGED send
    /\ UNCHANGED <<mgr, bus, reading, writer, done, wire, sinceScan,
                   deadConnIDs, reaping>>

\* Receive fails: readLoop returns, and with close(done) pingLoop may too.
ReadEnd(c) ==
    /\ reader[c] = "read"
    /\ Goto(c, "leave")
    /\ UNCHANGED <<mgr, bus, todo, fanout, writing, done, wire, time, reaping>>

\* The deferred Unregister.
Unregister(c) ==
    /\ reader[c] = "leave" /\ Unlocked
    /\ Forget(c)
    /\ Goto(c, "close")
    /\ UNCHANGED <<brokerClosed, brokerCleared, todo, fanout, writing, wire, time,
                   reaping>>

\* The deferred wsConn.Close, with the write lock held: handleRequest returns.
Close(c) ==
    /\ reader[c] = "close" /\ writeLock[c] = "reader"
    /\ writeLock' = [writeLock EXCEPT ![c] = "free"]
    /\ socket' = [socket EXCEPT ![c] = "closed"]
    /\ Goto(c, "ended")
    /\ UNCHANGED <<mgr, bus, todo, fanout, writing, done, pinger, deadline, time,
                   reaping>>

----------------------------------------------------------------------------
\* handleSubscribe, a topic that is already subscribed.
SkipSubscribed(c) ==
    /\ reader[c] = "subscribe" /\ todo[c] # <<>> /\ Unlocked
    /\ IsSubscribed(c, Head(todo[c]))
    /\ NextTopic(c, "subscribe")
    /\ UNCHANGED <<mgr, bus, fanout, writing, done, wire, time, reaping>>

\* handleSubscribe, no pattern matches, a middleware stops it, or the broker
\* refuses: the handler returns, and answers unless a middleware did not.
RefuseSubscribe(c, answered) ==
    /\ reader[c] = "subscribe" /\ todo[c] # <<>>
    /\ ~IsSubscribed(c, Head(todo[c]))
    /\ Return(c)
    /\ IF answered THEN TrySend(c) ELSE UNCHANGED send
    /\ UNCHANGED <<mgr, bus, fanout, writer, done, wire, time, reaping>>

\* Mutant: a topic is subscribed again.
BrokerSubscribe_Again(c) ==
    /\ reader[c] = "subscribe" /\ todo[c] # <<>>
    /\ ~brokerClosed
    /\ broker' = [broker EXCEPT ![c][Head(todo[c])] = @ + 1]
    /\ Goto(c, "record")
    /\ UNCHANGED <<mgr, brokerClosed, brokerCleared, todo, fanout, writing, done,
                   wire, time, reaping>>

\* WSConnmgr.Subscribe, the call of the broker.
BrokerSubscribe(c) ==
    /\ reader[c] = "subscribe" /\ todo[c] # <<>>
    /\ ~IsSubscribed(c, Head(todo[c]))
    /\ ~brokerClosed
    /\ broker' = [broker EXCEPT ![c][Head(todo[c])] = @ + 1]
    /\ Goto(c, "record")
    /\ UNCHANGED <<mgr, brokerClosed, brokerCleared, todo, fanout, writing, done,
                   wire, time, reaping>>

\* WSConnmgr.Subscribe, the list of the connection, under mu.
RecordSubscription(c) ==
    /\ reader[c] = "record" /\ Unlocked
    /\ subscriptions' = [subscriptions EXCEPT ![c] = Append(@, Head(todo[c]))]
    /\ NextTopic(c, "subscribe")
    /\ UNCHANGED <<conns, bus, fanout, writing, done, wire, time, reaping>>

\* The end of handleSubscribe and of handlePublish: the request is acknowledged.
Ack(c) ==
    /\ reader[c] \in {"subscribe", "publish"} /\ todo[c] = <<>>
    /\ TrySend(c)
    /\ Goto(c, "read")
    /\ UNCHANGED <<mgr, bus, todo, fanout, writer, done, wire, time, reaping>>

\* handleUnsubscribe, one topic: WSConnmgr.Unsubscribe under mu removes the
\* first subscription of the list with that topic, unless the broker fails.
UnsubscribeTopic(c) ==
    /\ reader[c] = "unsubscribe" /\ todo[c] # <<>> /\ Unlocked
    /\ LET t == Head(todo[c]) IN
       IF ~IsSubscribed(c, t)
       THEN NextTopic(c, "unsubscribe") /\ UNCHANGED <<subscriptions, broker, send>>
       ELSE IF brokerClosed
       THEN Return(c) /\ TrySend(c) /\ UNCHANGED <<subscriptions, broker>>
       ELSE /\ broker' = [broker EXCEPT ![c][t] = @ - 1]
            /\ subscriptions' = [subscriptions EXCEPT ![c] = RemoveFirst(@, t)]
            /\ NextTopic(c, "unsubscribe")
            /\ UNCHANGED send
    /\ UNCHANGED <<conns, brokerClosed, brokerCleared, fanout, writer, done, wire,
                   time, reaping>>

\* The end of handleUnsubscribe, which sends no acknowledgement.
UnsubscribeEnd(c) ==
    /\ reader[c] = "unsubscribe" /\ todo[c] = <<>>
    /\ Goto(c, "read")
    /\ UNCHANGED <<mgr, bus, todo, fanout, writing, done, wire, time, reaping>>

----------------------------------------------------------------------------
\* handlePublish, the connection is subscribed to the topic.
CheckPublish(c) ==
    /\ reader[c] = "publish" /\ todo[c] # <<>> /\ Unlocked
    /\ IsSubscribed(c, Head(todo[c]))
    /\ Goto(c, "dispatch")
    /\ UNCHANGED <<mgr, bus, todo, fanout, writing, done, wire, time, reaping>>

\* handlePublish, no pattern matches or the connection is not subscribed.
RefusePublish(c) ==
    /\ reader[c] = "publish" /\ todo[c] # <<>>
    /\ Return(c)
    /\ TrySend(c)
    /\ UNCHANGED <<mgr, bus, fanout, writer, done, wire, time, reaping>>

\* dispatchWSEvent: middlewares, guards and the handler run; the result or
\* the error is answered, or nothing is.
Dispatch(c, ok, answered) ==
    /\ reader[c] = "dispatch"
    /\ IF ok THEN Goto(c, "emit") /\ UNCHANGED todo ELSE Return(c)
    /\ IF answered THEN TrySend(c) ELSE UNCHANGED send
    /\ UNCHANGED <<mgr, bus, fanout, writer, done, wire, time, reaping>>

\* The subscriptions a publish to t reaches.
Reached(t) == {e \in Conns \X Topics : broker[e[1]][e[2]] > 0 /\ P!Match(e[2], t)}

\* Broker.Publish takes its snapshot, or refuses.
BrokerPublish(c) ==
    /\ reader[c] = "emit"
    /\ IF brokerClosed
       THEN Return(c) /\ TrySend(c) /\ UNCHANGED fanout
       ELSE /\ fanout' = [fanout EXCEPT ![c] = Reached(Head(todo[c]))]
            /\ Goto(c, "fanout")
            /\ UNCHANGED <<todo, send>>
    /\ UNCHANGED <<mgr, bus, writer, done, wire, time, reaping>>

\* Broker.Publish calls the next handler: TrySend on its connection.
CallHandler(c, e) ==
    /\ reader[c] = "fanout"
    /\ e \in fanout[c]
    /\ fanout' = [fanout EXCEPT ![c] = @ \ {e}]
    /\ TrySend(e[1])
    /\ UNCHANGED <<mgr, bus, reader, todo, writer, done, wire, time, reaping>>

\* Broker.Publish returns.
PublishEnd(c) ==
    /\ reader[c] = "fanout" /\ fanout[c] = {}
    /\ NextTopic(c, "publish")
    /\ UNCHANGED <<mgr, bus, fanout, writing, done, wire, time, reaping>>

----------------------------------------------------------------------------
\* Who has something to write to the socket of c.
Wants(c) ==
    {who \in Senders :
        \/ who = "writer" /\ writer[c] = "send"
        \/ who = "pinger" /\ pinger[c] = "ping"
        \/ who = "reader" /\ reader[c] = "close"
        \/ who = "scan" /\ c \in reaping \cap conns}

\* One of them gets the write lock.
LockWrite(c, who) ==
    /\ who \in Wants(c)
    /\ writeLock[c] = "free"
    /\ writeLock' = [writeLock EXCEPT ![c] = who]
    /\ UNCHANGED <<mgr, bus, reading, writing, done, pinger, deadline, socket,
                   time, reaping>>

\* A write ends by itself when the deadline passes or the socket is closed.
\* Otherwise it ends when the peer reads, or when the connection breaks.
Cut(c) == deadline[c] \/ socket[c] = "closed"

\* writeLoop takes a payload.
WriteStart(c) ==
    /\ writer[c] = "run" /\ send[c] > 0
    /\ send' = [send EXCEPT ![c] = @ - 1]
    /\ writer' = [writer EXCEPT ![c] = "send"]
    /\ UNCHANGED <<mgr, bus, reading, done, wire, time, reaping>>

\* writeLoop: JSON.Send returns; a failure ends the loop.
WriteEnd(c, ok) ==
    /\ writeLock[c] = "writer"
    /\ ok => socket[c] = "open"
    /\ writeLock' = [writeLock EXCEPT ![c] = "free"]
    /\ writer' = [writer EXCEPT ![c] = IF ok THEN "run" ELSE "exit"]
    /\ UNCHANGED <<mgr, bus, reading, send, done, pinger, deadline, socket, time,
                   reaping>>

\* writeLoop sees the closed done channel.
WriterDone(c) ==
    /\ writer[c] = "run"
    /\ done[c] > 0
    /\ writer' = [writer EXCEPT ![c] = "exit"]
    /\ UNCHANGED <<mgr, bus, reading, send, done, wire, time, reaping>>

\* Mutant: a ping is sent without a deadline.
PingStart_NoDeadline(c) ==
    /\ pinger[c] = "run"
    /\ pinger' = [pinger EXCEPT ![c] = IF socket[c] = "open" THEN "ping" ELSE "exit"]
    /\ UNCHANGED <<mgr, bus, reading, writing, done, writeLock, deadline, socket,
                   time, reaping>>

\* pingLoop, the ticker: the deadline is set, which fails on a closed socket.
PingStart(c) ==
    /\ pinger[c] = "run"
    /\ pinger' = [pinger EXCEPT ![c] = IF socket[c] = "open" THEN "ping" ELSE "exit"]
    /\ deadline' = [deadline EXCEPT ![c] = @ \/ socket[c] = "open"]
    /\ UNCHANGED <<mgr, bus, reading, writing, done, writeLock, socket, time,
                   reaping>>

\* pingLoop: JSON.Send returns; a failure ends the loop and leaves the deadline.
PingEnd(c, ok) ==
    /\ writeLock[c] = "pinger"
    /\ ok => socket[c] = "open"
    /\ writeLock' = [writeLock EXCEPT ![c] = "free"]
    /\ pinger' = [pinger EXCEPT ![c] = IF ok THEN "clear" ELSE "exit"]
    /\ UNCHANGED <<mgr, bus, reading, writing, done, deadline, socket, time, reaping>>

\* pingLoop takes the deadline away again.
PingClear(c) ==
    /\ pinger[c] = "clear"
    /\ pinger' = [pinger EXCEPT ![c] = IF socket[c] = "open" THEN "run" ELSE "exit"]
    /\ deadline' = [deadline EXCEPT ![c] = @ /\ socket[c] # "open"]
    /\ UNCHANGED <<mgr, bus, reading, writing, done, writeLock, socket, time,
                   reaping>>

\* pingLoop sees that readLoop has returned.
PingerDone(c) ==
    /\ pinger[c] = "run"
    /\ reader[c] \in {"leave", "close", "ended"}
    /\ pinger' = [pinger EXCEPT ![c] = "exit"]
    /\ UNCHANGED <<mgr, bus, reading, writing, done, writeLock, deadline, socket,
                   time, reaping>>

----------------------------------------------------------------------------
\* One unit of time.  Time does not pass while a scan is due or under way:
\* it is counted from the end of a scan, however long it was held up.
Tick ==
    /\ sinceScan < Interval
    /\ deadConnIDs = {}
    /\ sinceScan' = sinceScan + 1
    /\ age' = [c \in Conns |-> IF c \in conns THEN age[c] + 1 ELSE age[c]]
    /\ UNCHANGED <<mgr, bus, reading, writing, done, wire, deadConnIDs, reaping>>

\* Mutant: a connection has to be silent for one period more.
Scan_Late ==
    /\ sinceScan = Interval
    /\ sinceScan' = 0
    /\ deadConnIDs' = {c \in conns : age[c] > Timeout + Interval}
    /\ UNCHANGED <<mgr, bus, reading, writing, done, wire, age, reaping>>

\* startDeadConnDetection, under the read lock.
Scan ==
    /\ sinceScan = Interval
    /\ sinceScan' = 0
    /\ deadConnIDs' = {c \in conns : age[c] > Timeout}
    /\ UNCHANGED <<mgr, bus, reading, writing, done, wire, age, reaping>>

\* startDeadConnDetection, one dead connection: mu is taken.
ReapLock(c) ==
    /\ c \in deadConnIDs /\ Unlocked
    /\ reaping' = {c}
    /\ UNCHANGED <<mgr, bus, reading, writing, done, wire, time>>

\* startDeadConnDetection, the rest of it: a connection still known is closed,
\* for which the write lock is held, and forgotten; LastSeen is not looked at
\* again.
Reap(c) ==
    /\ c \in reaping
    /\ c \in conns => writeLock[c] = "scan"
    /\ reaping' = {}
    /\ deadConnIDs' = deadConnIDs \ {c}
    /\ writeLock' = [writeLock EXCEPT ![c] = IF c \in conns THEN "free" ELSE @]
    /\ socket' = [socket EXCEPT ![c] = IF c \in conns THEN "closed" ELSE @]
    /\ Forget(c)
    /\ UNCHANGED <<brokerClosed, brokerCleared, reading, writing, pinger, deadline,
                   age, sinceScan>>

\* The application closes the broker it gave to the manager: from now on the
\* broker refuses every call.
CloseBroker ==
    /\ ~brokerClosed
    /\ brokerClosed' = TRUE
    /\ UNCHANGED <<mgr, broker, brokerCleared, reading, writing, done, wire, time,
                   reaping>>

\* Broker.Close, after its wait: the subscriptions are forgotten.
ClearBroker ==
    /\ brokerClosed /\ ~brokerCleared
    /\ brokerCleared' = TRUE
    /\ broker' = [c \in Conns |-> [t \in Topics |-> 0]]
    /\ UNCHANGED <<mgr, brokerClosed, reading, writing, done, wire, time, reaping>>

----------------------------------------------------------------------------
Handle(c) ==
    \/ SkipSubscribed(c) \/ BrokerSubscribe(c) \/ RecordSubscription(c)
    \/ \E answered \in BOOLEAN : RefuseSubscribe(c, answered)
    \/ UnsubscribeTopic(c) \/ UnsubscribeEnd(c)
    \/ CheckPublish(c) \/ RefusePublish(c)
    \/ \E ok, answered \in BOOLEAN : Dispatch(c, ok, answered)
    \/ BrokerPublish(c) \/ PublishEnd(c)
    \/ \E e \in fanout[c] : CallHandler(c, e)
    \/ Ack(c)

WriteLoop(c) == WriteStart(c) \/ WriterDone(c) \/ \E ok \in BOOLEAN : WriteEnd(c, ok)

PingLoop(c) ==
    PingStart(c) \/ PingClear(c) \/ PingerDone(c) \/ \E ok \in BOOLEAN : PingEnd(c, ok)

ReadLoop(c) ==
    \/ \E handler \in {"subscribe", "unsubscribe", "publish"}, topics \in Requests :
          Receive(c, handler, topics)
    \/ \E answered \in BOOLEAN : ReceiveOther(c, answered)

Next ==
    \/ \E c \in Conns :
          \/ Register(c) \/ ReadLoop(c) \/ ReadEnd(c) \/ Handle(c)
          \/ Unregister(c) \/ Close(c)
          \/ WriteLoop(c) \/ PingLoop(c) \/ \E who \in Senders : LockWrite(c, who)
          \/ ReapLock(c) \/ Reap(c)
    \/ Tick \/ Scan \/ CloseBroker \/ ClearBroker

Spec == Init /\ [][Next]_vars

\* The goroutines run, the ticker of pingLoop fires, requests end, time passes,
\* a read from a closed socket fails once the finitely many frames buffered
\* before are used up, and a Close that waits for the write lock, a sync.Mutex,
\* gets it when it is free again and again.  A write is only assumed to end when its
\* deadline passes or its socket is closed: whether the peer reads is its own
\* choice.
Fairness ==
    /\ WF_vars(Tick) /\ WF_vars(Scan)
    /\ \A c \in Conns :
          /\ WF_vars(Handle(c)) /\ WF_vars(Unregister(c))
          /\ WF_vars(WriteStart(c) \/ WriterDone(c))
          /\ WF_vars(PingStart(c) \/ PingClear(c) \/ PingerDone(c))
          /\ WF_vars(ReapLock(c)) /\ WF_vars((c \notin conns \/ Cut(c)) /\ Reap(c))
          /\ WF_vars(LockWrite(c, "writer")) /\ WF_vars(LockWrite(c, "pinger"))
          /\ SF_vars(LockWrite(c, "reader") \/ LockWrite(c, "scan"))
          /\ WF_vars(Cut(c) /\ (WriteEnd(c, FALSE) \/ PingEnd(c, FALSE) \/ Close(c)))
          /\ SF_vars(socket[c] = "closed" /\ ReadEnd(c))

FairSpec == Spec /\ Fairness

----------------------------------------------------------------------------
\* websocket-system.md, 1.1: when a connection is gone, "All subscriptions
\* cleaned up".  Whatever the order of a subscribe request, the scan that finds
\* the connection dead and the end of the read loop, the broker keeps no
\* subscription of a connection that Unregister has removed.  Not claimed while
\* the application is closing the broker: between its commit and its clear it
\* refuses Unsubscribe, which is ignored, and forgets all of them by itself.
NoOrphans ==
    \A c \in Conns : reader[c] \in {"close", "ended"} =>
        /\ c \notin conns
        /\ subscriptions[c] = <<>>
        /\ (brokerClosed => brokerCleared) => \A t \in Topics : broker[c][t] = 0

\* The done channel of a connection is closed once: Unregister and the scan both
\* close it, and a second close panics.
DoneClosedOnce ==
    \A c \in Conns : done[c] = IF reader[c] = "new" \/ c \in conns THEN 0 ELSE 1

\* While the broker is open it has exactly the subscriptions in the lists of
\* the manager, plus the one whose Subscribe has not reached the list, and
\* never two for one topic: an event is never delivered twice.
ListsMatchBroker ==
    ~brokerClosed =>
        \A c \in Conns, t \in Topics :
            /\ broker[c][t] <= 1
            /\ broker[c][t] = Count(t, subscriptions[c]) +
                 (IF reader[c] = "record" /\ Head(todo[c]) = t THEN 1 ELSE 0)

\* A connection silent for longer than the timeout is found by the next scan.
DeadFoundByNextScan == \A c \in conns : age[c] <= Timeout + Interval

\* A write that nothing in the program ends: no deadline is set and pingLoop,
\* which would set one, has returned.  The peer neither reads nor goes away.
HeldUp(c) ==
    /\ writeLock[c] # "free"
    /\ ~Cut(c)
    /\ pinger[c] = "exit"

\* websocket-system.md, 1.1: once the connection is closed or found dead,
\* "writeLoop exits" and handleRequest returns, unless a peer holds up a write
\* for ever after pingLoop has gone; as long as pingLoop runs, its deadline
\* frees the write lock, and with it the scan, which waits for it with mu held.
LoopsExit ==
    (\A d \in Conns : []<>~HeldUp(d)) =>
        \A c \in Conns :
            (reader[c] = "leave" \/ done[c] > 0) ~>
                (reader[c] = "ended" /\ writer[c] = "exit" /\ pinger[c] = "exit")

\* A connection is torn down once and completely, whichever of the read loop
\* and the scan is first: nothing outlives it and nothing is closed twice.
TornDownOnce == NoOrphans /\ DoneClosedOnce
=============================================================================
