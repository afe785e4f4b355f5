---------------------------- MODULE MemoryBroker ----------------------------
(***************************************************************************)
(* The in-memory broker, memorybroker/memory_broker.go.                    *)
(*                                                                         *)
(* Every critical section of rwMu is one step; everything the code does    *)
(* outside the lock (the early test of closed, the calls of handlers, the  *)
(* wait for the asynchronous publishes) is a step of its own, so calls     *)
(* interleave wherever the code lets them.  A call that returns ErrClosed, *)
(* ErrEmptyTopic, ErrNilHandler or ErrForeignSubscription changes nothing  *)
(* and is not a step.  A handler runs outside the lock and may call the    *)
(* broker again: its Subscribe, Unsubscribe and PublishAsync are the       *)
(* actions below (they may happen at any moment), its Close is             *)
(* CallClosingHandler.  A panic of a handler is recovered by callHandler   *)
(* and ends it like a return.                                              *)
(***************************************************************************)
EXTENDS Pattern, FiniteSets

CONSTANTS
    Threads,   \* goroutines that call Publish or Close
    Tasks,     \* goroutines started by PublishAsync that may run at a time
    Subs,      \* subscriptions, each identified by its UUID
    SubTopic,  \* the topic each subscription is made with
    Topics     \* topics that are published to

ASSUME BrokerAssumption ==
    /\ Threads \cap Tasks = {}
    /\ IsFiniteSet(Tasks)
    /\ SubTopic \in [Subs -> Seq(STRING) \ {<<>>}]
    /\ Topics \subseteq Seq(STRING) \ {<<>>}

VARIABLES
    exactByTopic,    \* set of <<topic, subscription>>
    prefixByPrefix,  \* set of <<prefix, subscription>>
    globalByID,      \* set of subscriptions
    complexByTopic,  \* set of <<topic, subscription>>
    closed,
    wg,              \* counter of the WaitGroup
    joining,         \* Subscribe calls between the test of closed and the lock
    topic,           \* per goroutine: topic of a publish that has not taken its snapshot
    handlers,        \* per goroutine: handlers of the snapshot not called yet
    running,         \* goroutines of PublishAsync that have not called wg.Done
    closing,         \* per thread: how far its call of Close has come
    \* what the callers have been told
    registered,      \* Subscribe returned it
    removed,         \* Unsubscribe of it returned nil
    gone,            \* per goroutine: removed when its publish was called
    shut             \* the Close that closed the broker has returned

index == <<exactByTopic, prefixByPrefix, globalByID, complexByTopic>>
publishing == <<topic, handlers, gone>>
vars == <<index, closed, wg, joining, publishing, running, closing,
          registered, removed, shut>>

Goroutines == Threads \cup Tasks
NoTopic == <<>>

\* The subscriptions found in the four maps.
Indexed ==
    globalByID \cup {e[2] : e \in exactByTopic \cup prefixByPrefix \cup complexByTopic}

TypeOK ==
    /\ exactByTopic \subseteq Seq(STRING) \X Subs
    /\ prefixByPrefix \subseteq Seq(STRING) \X Subs
    /\ complexByTopic \subseteq Seq(STRING) \X Subs
    /\ globalByID \subseteq Subs
    /\ closed \in BOOLEAN /\ shut \in BOOLEAN
    /\ wg \in Nat
    /\ joining \subseteq Subs
    /\ registered \subseteq Subs /\ removed \subseteq Subs
    /\ topic \in [Goroutines -> Topics \cup {NoTopic}]
    /\ handlers \in [Goroutines -> SUBSET Subs]
    /\ gone \in [Goroutines -> SUBSET Subs]
    /\ running \subseteq Tasks
    /\ closing \in [Threads -> {"no", "lock", "wait", "clear"}]

Init ==
    /\ exactByTopic = {} /\ prefixByPrefix = {}
    /\ globalByID = {} /\ complexByTopic = {}
    /\ closed = FALSE /\ wg = 0
    /\ joining = {} /\ registered = {} /\ removed = {}
    /\ topic = [g \in Goroutines |-> NoTopic]
    /\ handlers = [g \in Goroutines |-> {}]
    /\ gone = [g \in Goroutines |-> {}]
    /\ running = {}
    /\ closing = [g \in Threads |-> "no"]
    /\ shut = FALSE

----------------------------------------------------------------------------
\* Subscribe, up to the lock: the first test of closed.
Subscribe(s) ==
    /\ s \notin joining \cup registered
    /\ ~closed
    /\ joining' = joining \cup {s}
    /\ UNCHANGED <<index, closed, wg, publishing, running, closing,
                   registered, removed, shut>>

\* Mutant: a suffix wildcard is filed under its whole topic.
Insert_WholeTopic(s) ==
    LET k == KindOf(SubTopic[s]) IN
    /\ globalByID' = globalByID \cup {x \in {s} : k = "Global"}
    /\ prefixByPrefix' = prefixByPrefix \cup
          {x \in {<<SubTopic[s], s>>} : k = "SuffixWildcard"}
    /\ exactByTopic' = exactByTopic \cup {x \in {<<SubTopic[s], s>>} : k = "Exact"}
    /\ complexByTopic' = complexByTopic \cup
          {x \in {<<SubTopic[s], s>>} : k = "Complex"}

\* The entry in the map that the kind of the pattern selects.
Insert(s) ==
    LET k == KindOf(SubTopic[s]) IN
    /\ globalByID' = globalByID \cup {x \in {s} : k = "Global"}
    /\ prefixByPrefix' = prefixByPrefix \cup
          {x \in {<<SimplePrefix(SubTopic[s]), s>>} : k = "SuffixWildcard"}
    /\ exactByTopic' = exactByTopic \cup {x \in {<<SubTopic[s], s>>} : k = "Exact"}
    /\ complexByTopic' = complexByTopic \cup
          {x \in {<<SubTopic[s], s>>} : k = "Complex"}

\* Mutant: closed is not tested again under the lock.
SubscribeLocked_NoSecondTest(s) ==
    /\ s \in joining
    /\ joining' = joining \ {s}
    /\ Insert(s)
    /\ registered' = registered \cup {s}
    /\ UNCHANGED <<closed, wg, publishing, running, closing, removed, shut>>

\* Subscribe, under the lock: closed is tested again.
SubscribeLocked(s) ==
    /\ s \in joining
    /\ joining' = joining \ {s}
    /\ IF closed
       THEN UNCHANGED <<index, registered>>
       ELSE /\ Insert(s)
            /\ registered' = registered \cup {s}
    /\ UNCHANGED <<closed, wg, publishing, running, closing, removed, shut>>

\* Mutant: the bucket of a suffix wildcard is not looked for.
RemoveFromBucket_KeepsPrefix(s) ==
    /\ globalByID' = globalByID \ {s}
    /\ exactByTopic' = {e \in exactByTopic : e[2] # s}
    /\ complexByTopic' = {e \in complexByTopic : e[2] # s}
    /\ UNCHANGED prefixByPrefix

\* removeFromBucket: an empty bucket is deleted, which a set of pairs has by
\* construction; removing what is not there changes nothing.
RemoveFromBucket(s) ==
    LET k == KindOf(SubTopic[s]) IN
    /\ globalByID' = globalByID \ {x \in {s} : k = "Global"}
    /\ prefixByPrefix' = prefixByPrefix \
          {x \in {<<SimplePrefix(SubTopic[s]), s>>} : k = "SuffixWildcard"}
    /\ exactByTopic' = exactByTopic \ {x \in {<<SubTopic[s], s>>} : k = "Exact"}
    /\ complexByTopic' = complexByTopic \
          {x \in {<<SubTopic[s], s>>} : k = "Complex"}

\* Unsubscribe of a subscription of this broker, possibly again.
Unsubscribe(s) ==
    /\ s \in registered
    /\ ~closed
    /\ RemoveFromBucket(s)
    /\ removed' = removed \cup {s}
    /\ UNCHANGED <<closed, wg, joining, publishing, running, closing,
                   registered, shut>>

----------------------------------------------------------------------------
Idle(g) == topic[g] = NoTopic /\ handlers[g] = {} /\ closing[g] = "no"

\* Publish: closed is tested without the lock.
Publish(g, t) ==
    /\ Idle(g)
    /\ ~closed
    /\ topic' = [topic EXCEPT ![g] = t]
    /\ gone' = [gone EXCEPT ![g] = removed]
    /\ UNCHANGED <<index, closed, wg, joining, handlers, running, closing,
                   registered, removed, shut>>

\* Mutant: the goroutine is not counted.
PublishAsync_NoAdd(g, t) ==
    /\ g \notin running
    /\ ~closed
    /\ running' = running \cup {g}
    /\ topic' = [topic EXCEPT ![g] = t]
    /\ gone' = [gone EXCEPT ![g] = removed]
    /\ UNCHANGED <<index, closed, wg, joining, handlers, closing,
                   registered, removed, shut>>

\* Mutant: closed is not tested under the read lock.
PublishAsync_NoTest(g, t) ==
    /\ g \notin running
    /\ wg' = wg + 1
    /\ running' = running \cup {g}
    /\ topic' = [topic EXCEPT ![g] = t]
    /\ gone' = [gone EXCEPT ![g] = removed]
    /\ UNCHANGED <<index, closed, joining, handlers, closing,
                   registered, removed, shut>>

\* PublishAsync: the goroutine is counted under the read lock, then started.
PublishAsync(g, t) ==
    /\ g \notin running
    /\ ~closed
    /\ wg' = wg + 1
    /\ running' = running \cup {g}
    /\ topic' = [topic EXCEPT ![g] = t]
    /\ gone' = [gone EXCEPT ![g] = removed]
    /\ UNCHANGED <<index, closed, joining, handlers, closing,
                   registered, removed, shut>>

\* Mutant: only the longest prefix of the topic is looked up.
Collect_LongestPrefix(t) ==
    {s \in Subs :
        \/ <<t, s>> \in exactByTopic
        \/ <<AllButLast(t), s>> \in prefixByPrefix
        \/ s \in globalByID
        \/ \E e \in complexByTopic : e[2] = s /\ Match(e[1], t)}

\* The handlers publishInternal collects from the four maps for a topic.
Collect(t) ==
    {s \in Subs :
        \/ <<t, s>> \in exactByTopic
        \/ \E p \in PrefixesOf(t) : <<p, s>> \in prefixByPrefix
        \/ s \in globalByID
        \/ \E e \in complexByTopic : e[2] = s /\ Match(e[1], t)}

\* publishInternal, under the read lock.
Snapshot(g) ==
    /\ topic[g] # NoTopic
    /\ handlers' = [handlers EXCEPT ![g] = Collect(topic[g])]
    /\ topic' = [topic EXCEPT ![g] = NoTopic]
    /\ UNCHANGED <<index, closed, wg, joining, gone, running, closing,
                   registered, removed, shut>>

\* Mutant: the handlers left are not called once the broker is closed.
CallHandler_WhileOpen(g, s) ==
    /\ ~closed
    /\ s \in handlers[g]
    /\ g \in Threads => closing[g] = "no"
    /\ handlers' = [handlers EXCEPT ![g] = @ \ {s}]
    /\ UNCHANGED <<index, closed, wg, joining, topic, gone, running, closing,
                   registered, removed, shut>>

\* publishInternal, after the read lock: the next handler is called.  Maps
\* are iterated in no particular order.
CallHandler(g, s) ==
    /\ s \in handlers[g]
    /\ g \in Threads => closing[g] = "no"
    /\ handlers' = [handlers EXCEPT ![g] = @ \ {s}]
    /\ UNCHANGED <<index, closed, wg, joining, topic, gone, running, closing,
                   registered, removed, shut>>

\* A handler that calls Close.  The README forbids it to a handler that
\* PublishAsync dispatched: it would wait for itself.
CallClosingHandler(g, s) ==
    /\ s \in handlers[g]
    /\ closing[g] = "no"
    /\ handlers' = [handlers EXCEPT ![g] = @ \ {s}]
    /\ closing' = [closing EXCEPT ![g] = "lock"]
    /\ UNCHANGED <<index, closed, wg, joining, topic, gone, running,
                   registered, removed, shut>>

\* Mutant: a goroutine that ends after Close has begun does not call wg.Done.
AsyncDone_NoDone(g) ==
    /\ g \in running
    /\ topic[g] = NoTopic /\ handlers[g] = {}
    /\ running' = running \ {g}
    /\ wg' = IF closed THEN wg ELSE wg - 1
    /\ UNCHANGED <<index, closed, joining, publishing, closing,
                   registered, removed, shut>>

\* The end of the goroutine of PublishAsync: wg.Done.
AsyncDone(g) ==
    /\ g \in running
    /\ topic[g] = NoTopic /\ handlers[g] = {}
    /\ running' = running \ {g}
    /\ wg' = wg - 1
    /\ UNCHANGED <<index, closed, joining, publishing, closing,
                   registered, removed, shut>>

----------------------------------------------------------------------------
\* Close is called; it is about to take the lock.
Close(g) ==
    /\ Idle(g)
    /\ closing' = [closing EXCEPT ![g] = "lock"]
    /\ UNCHANGED <<index, closed, wg, joining, publishing, running,
                   registered, removed, shut>>

\* closed.CompareAndSwap(false, true); the loser returns at once.
CloseCommit(g) ==
    /\ closing[g] = "lock"
    /\ closed' = TRUE
    /\ closing' = [closing EXCEPT ![g] = IF closed THEN "no" ELSE "wait"]
    /\ UNCHANGED <<index, wg, joining, publishing, running,
                   registered, removed, shut>>

\* wg.Wait
CloseWait(g) ==
    /\ closing[g] = "wait"
    /\ wg = 0
    /\ closing' = [closing EXCEPT ![g] = "clear"]
    /\ UNCHANGED <<index, closed, wg, joining, publishing, running,
                   registered, removed, shut>>

\* The maps are replaced by empty ones and Close returns.
CloseClear(g) ==
    /\ closing[g] = "clear"
    /\ exactByTopic' = {} /\ prefixByPrefix' = {}
    /\ globalByID' = {} /\ complexByTopic' = {}
    /\ closing' = [closing EXCEPT ![g] = "no"]
    /\ shut' = TRUE
    /\ UNCHANGED <<closed, wg, joining, publishing, running,
                   registered, removed>>

----------------------------------------------------------------------------
Deliver(g) == Snapshot(g) \/ \E s \in Subs : CallHandler(g, s)
CloseStep(g) == CloseCommit(g) \/ CloseWait(g) \/ CloseClear(g)

Next ==
    \/ \E s \in Subs : Subscribe(s) \/ SubscribeLocked(s) \/ Unsubscribe(s)
    \/ \E g \in Threads, t \in Topics : Publish(g, t)
    \/ \E g \in Tasks, t \in Topics : PublishAsync(g, t)
    \/ \E g \in Goroutines : Deliver(g)
    \/ \E g \in Threads, s \in Subs : CallClosingHandler(g, s)
    \/ \E g \in Tasks : AsyncDone(g)
    \/ \E g \in Threads : Close(g) \/ CloseStep(g)

Spec == Init /\ [][Next]_vars

\* A goroutine that can run is eventually scheduled, and handlers return.
Fairness ==
    /\ \A g \in Goroutines : WF_vars(Deliver(g))
    /\ \A g \in Tasks : WF_vars(AsyncDone(g))
    /\ \A g \in Threads : WF_vars(CloseStep(g))

FairSpec == Spec /\ Fairness

----------------------------------------------------------------------------
\* Until Close clears them, the maps hold exactly the subscriptions that
\* Subscribe returned and Unsubscribe did not remove, each where
\* publishInternal and removeFromBucket look for it.
IndexExact ==
    ~shut =>
        /\ Indexed = registered \ removed
        /\ \A e \in exactByTopic : e[1] = SubTopic[e[2]]
        /\ \A e \in complexByTopic : e[1] = SubTopic[e[2]]
        /\ \A e \in prefixByPrefix : SubTopic[e[2]] = Append(e[1], Star)

\* README, Subscription: once Unsubscribe has returned, "subsequent publishes
\* do not invoke its handler", whatever publishes were already under way.
NoCallAfterUnsubscribe == \A g \in Goroutines : handlers[g] \cap gone[g] = {}

\* README, Close: when the Close that closed the broker has returned, no
\* goroutine of PublishAsync is left and no map holds a subscription, however
\* a Subscribe or a PublishAsync that raced with it came out.
DrainedWhenShut == shut => running = {} /\ Indexed = {}

\* README, Concurrency Model: once Close has committed, no subscription is
\* inserted and no asynchronous publish starts.
CommitIsFinal ==
    [][closed => /\ closed'
                 /\ Indexed' \subseteq Indexed
                 /\ running' \subseteq running]_vars

\* Every call of Close returns, and so does every Publish, even when a handler
\* of the Publish calls Close while asynchronous publishes are in flight.
CallsReturn ==
    /\ \A g \in Threads : closing[g] = "lock" ~> closing[g] = "no"
    /\ \A g \in Goroutines : topic[g] # NoTopic ~> topic[g] = NoTopic /\ handlers[g] = {}

----------------------------------------------------------------------------
\* What Implements is claimed under: no topic that is published to ends in a dot.  For
\* one that does, the lookup of prefixes is wider than Pattern.Match
\* (memory_broker.go:165).
NoTrailingDot == \A t \in Topics : t[Len(t)] # Empty

\* The four maps implement one set of subscriptions, from which a publish
\* takes those whose pattern matches.
B == INSTANCE Broker WITH
        active <- Indexed, admitting <- ~closed, shut <- shut, calls <- handlers

Implements == B!Spec
=============================================================================
