------------------------- MODULE MemoryBrokerProofs -------------------------
(***************************************************************************)
(* Proofs about MemoryBroker, for any number of threads, asynchronous      *)
(* publishes, subscriptions and topics.                                    *)
(***************************************************************************)
EXTENDS MemoryBroker, FiniteSetTheorems, SequenceTheorems, TLAPS

----------------------------------------------------------------------------
(* The parts of the inductive invariant.                                   *)

\* The WaitGroup counts the goroutines of PublishAsync.
Counted == IsFiniteSet(running) /\ wg = Cardinality(running)

\* A goroutine that is not running has nothing to deliver.
IdleTasks == \A g \in Tasks \ running : topic[g] = NoTopic /\ handlers[g] = {}

\* Past its commit a Close leaves the broker closed; past its wait, drained.
ClosePhases ==
    /\ \A g \in Threads : closing[g] \in {"wait", "clear"} => closed
    /\ \A g \in Threads : closing[g] = "clear" => running = {}
    /\ shut => closed

\* What callers were told is consistent, and gone is an earlier removed.
History ==
    /\ removed \subseteq registered
    /\ joining \cap registered = {}
    /\ \A g \in Goroutines : gone[g] \subseteq removed

\* A subscription that was removed is in no map.
RemovedNotIndexed == Indexed \cap removed = {}

\* An entry is in the map of the kind of its subscription, under the key that
\* removeFromBucket computes; one that Subscribe has not returned is in none.
Keyed ==
    /\ \A s \in globalByID : s \in registered /\ KindOf(SubTopic[s]) = "Global"
    /\ \A e \in prefixByPrefix :
          /\ e = <<SimplePrefix(SubTopic[e[2]]), e[2]>>
          /\ e[2] \in registered /\ KindOf(SubTopic[e[2]]) = "SuffixWildcard"
    /\ \A e \in exactByTopic :
          /\ e = <<SubTopic[e[2]], e[2]>>
          /\ e[2] \in registered /\ KindOf(SubTopic[e[2]]) = "Exact"
    /\ \A e \in complexByTopic :
          /\ e = <<SubTopic[e[2]], e[2]>>
          /\ e[2] \in registered /\ KindOf(SubTopic[e[2]]) = "Complex"

Inv ==
    /\ TypeOK
    /\ Counted
    /\ IdleTasks
    /\ ClosePhases
    /\ History
    /\ Keyed
    /\ RemovedNotIndexed
    /\ NoCallAfterUnsubscribe
    /\ DrainedWhenShut

----------------------------------------------------------------------------
\* SimplePrefix of the topic of a subscription is a sequence of segments.
LEMMA SimplePrefixType ==
    ASSUME NEW s \in Subs
    PROVE  SimplePrefix(SubTopic[s]) \in Seq(STRING)
BY BrokerAssumption DEF SimplePrefix, AllButLast

\* The invariant holds of a new broker (NewMemoryBroker).
LEMMA InitInv == Init => Inv
<1> SUFFICES ASSUME Init PROVE Inv
    OBVIOUS
<1>1. TypeOK
    BY DEF Init, TypeOK, Goroutines
<1>2. Counted
    BY FS_EmptySet DEF Init, Counted
<1> QED BY <1>1, <1>2 DEF Init, Inv, IdleTasks, ClosePhases, History, Keyed,
        RemovedNotIndexed, NoCallAfterUnsubscribe, DrainedWhenShut, Indexed, Goroutines

\* Every step preserves the invariant.  Under each action, one step for each
\* conjunct it can disturb; the others only mention what it leaves alone.
LEMMA NextInv == Inv /\ [Next]_vars => Inv'
<1> SUFFICES ASSUME Inv, [Next]_vars PROVE Inv'
    OBVIOUS
<1> USE DEF Inv
<1>1. ASSUME NEW s \in Subs, Subscribe(s) PROVE Inv'
    <2>1. TypeOK'
        BY <1>1 DEF TypeOK, Goroutines, Subscribe, index, publishing
    <2>2. History'
        BY <1>1 DEF History, TypeOK, Goroutines, Subscribe, index, publishing
    <2>3. /\ Counted' /\ IdleTasks' /\ ClosePhases' /\ Keyed' /\ RemovedNotIndexed'
          /\ NoCallAfterUnsubscribe' /\ DrainedWhenShut'
        BY <1>1
           DEF Counted, IdleTasks, Goroutines, ClosePhases, Keyed, RemovedNotIndexed,
               Indexed, NoCallAfterUnsubscribe, DrainedWhenShut, Subscribe, index,
               publishing
    <2> QED BY <2>1, <2>2, <2>3
<1>2. ASSUME NEW s \in Subs, SubscribeLocked(s) PROVE Inv'
    <2>0. SimplePrefix(SubTopic[s]) \in Seq(STRING) /\ SubTopic[s] \in Seq(STRING)
        BY SimplePrefixType, BrokerAssumption
    <2>m. /\ exactByTopic' \subseteq Seq(STRING) \X Subs
          /\ prefixByPrefix' \subseteq Seq(STRING) \X Subs
          /\ complexByTopic' \subseteq Seq(STRING) \X Subs
          /\ globalByID' \subseteq Subs
        <3>1. CASE closed
            BY <3>1, <1>2 DEF TypeOK, SubscribeLocked, index
        <3>2. CASE ~closed
            <4> DEFINE P == SimplePrefix(SubTopic[s])
                       T == SubTopic[s]
            <4>0. P \in Seq(STRING) /\ T \in Seq(STRING)
                BY <2>0
            <4>1. /\ exactByTopic' \subseteq exactByTopic \cup {<<T, s>>}
                  /\ prefixByPrefix' \subseteq prefixByPrefix \cup {<<P, s>>}
                  /\ complexByTopic' \subseteq complexByTopic \cup {<<T, s>>}
                  /\ globalByID' \subseteq globalByID \cup {s}
                BY <3>2, <1>2 DEF SubscribeLocked, Insert
            <4>2. /\ <<T, s>> \in Seq(STRING) \X Subs
                  /\ <<P, s>> \in Seq(STRING) \X Subs
                BY <4>0
            <4> HIDE DEF P, T
            <4> QED BY <4>1, <4>2 DEF TypeOK
        <3> QED BY <3>1, <3>2
    <2>1. TypeOK'
        BY <1>2, <2>m DEF TypeOK, Goroutines, SubscribeLocked, publishing
    <2>2. History'
        BY <1>2 DEF History, TypeOK, Goroutines, SubscribeLocked, index, publishing
    <2>3. Keyed'
        BY <1>2 DEF Keyed, SubscribeLocked, index, publishing, Insert, TypeOK
    <2>4. RemovedNotIndexed'
        BY <1>2
           DEF RemovedNotIndexed, Indexed, SubscribeLocked, index, publishing, Insert,
               History, TypeOK
    <2>5. DrainedWhenShut'
        BY <1>2
           DEF DrainedWhenShut, Indexed, SubscribeLocked, index, publishing,
               ClosePhases, Insert
    <2>6. Counted' /\ IdleTasks' /\ ClosePhases' /\ NoCallAfterUnsubscribe'
        BY <1>2
           DEF Counted, IdleTasks, Goroutines, ClosePhases, NoCallAfterUnsubscribe,
               SubscribeLocked, index, publishing
    <2> QED BY <2>1, <2>2, <2>3, <2>4, <2>5, <2>6
<1>3. ASSUME NEW s \in Subs, Unsubscribe(s) PROVE Inv'
    <2>1. TypeOK'
        BY <1>3 DEF TypeOK, Goroutines, Unsubscribe, index, publishing, RemoveFromBucket
    <2>2. History'
        BY <1>3 DEF History, TypeOK, Goroutines, Unsubscribe, index, publishing
    <2>3. Keyed'
        BY <1>3 DEF Keyed, Unsubscribe, index, publishing, RemoveFromBucket, TypeOK
    <2>4. RemovedNotIndexed'
        BY <1>3
           DEF RemovedNotIndexed, Indexed, Unsubscribe, index, publishing,
               RemoveFromBucket, Keyed, TypeOK
    <2>5. DrainedWhenShut'
        BY <1>3 DEF DrainedWhenShut, Indexed, Unsubscribe, index, publishing, ClosePhases
    <2>6. Counted' /\ IdleTasks' /\ ClosePhases' /\ NoCallAfterUnsubscribe'
        BY <1>3
           DEF Counted, IdleTasks, Goroutines, ClosePhases, NoCallAfterUnsubscribe,
               Unsubscribe, index, publishing
    <2> QED BY <2>1, <2>2, <2>3, <2>4, <2>5, <2>6
<1>4. ASSUME NEW g \in Threads, NEW t \in Topics, Publish(g, t) PROVE Inv'
    <2>1. TypeOK'
        BY <1>4 DEF TypeOK, Goroutines, Publish, index, publishing
    <2>2. IdleTasks'
        BY <1>4, BrokerAssumption
           DEF IdleTasks, TypeOK, Goroutines, Publish, index, publishing
    <2>3. History'
        BY <1>4 DEF History, TypeOK, Goroutines, Publish, index, publishing
    <2>4. NoCallAfterUnsubscribe'
        BY <1>4
           DEF NoCallAfterUnsubscribe, TypeOK, Goroutines, Publish, index, publishing,
               Idle
    <2>5. Counted' /\ ClosePhases' /\ Keyed' /\ RemovedNotIndexed' /\ DrainedWhenShut'
        BY <1>4
           DEF Counted, ClosePhases, Keyed, RemovedNotIndexed, Indexed, DrainedWhenShut,
               Publish, index, publishing
    <2> QED BY <2>1, <2>2, <2>3, <2>4, <2>5
<1>5. ASSUME NEW g \in Tasks, NEW t \in Topics, PublishAsync(g, t) PROVE Inv'
    <2>1. TypeOK'
        BY <1>5 DEF TypeOK, Goroutines, PublishAsync, index, publishing
    <2>2. Counted'
        BY <1>5, FS_AddElement, FS_CardinalityType
           DEF Counted, PublishAsync, index, publishing, TypeOK
    <2>3. IdleTasks'
        BY <1>5 DEF IdleTasks, TypeOK, Goroutines, PublishAsync, index, publishing
    <2>4. ClosePhases'
        BY <1>5 DEF ClosePhases, TypeOK, PublishAsync, index, publishing, DrainedWhenShut
    <2>5. History'
        BY <1>5 DEF History, TypeOK, Goroutines, PublishAsync, index, publishing
    <2>6. NoCallAfterUnsubscribe'
        BY <1>5
           DEF NoCallAfterUnsubscribe, TypeOK, Goroutines, PublishAsync, index,
               publishing, IdleTasks
    <2>7. DrainedWhenShut'
        BY <1>5 DEF DrainedWhenShut, Indexed, PublishAsync, index, publishing, ClosePhases
    <2>8. Keyed' /\ RemovedNotIndexed'
        BY <1>5 DEF Keyed, RemovedNotIndexed, Indexed, PublishAsync, index, publishing
    <2> QED BY <2>1, <2>2, <2>3, <2>4, <2>5, <2>6, <2>7, <2>8
<1>6. ASSUME NEW g \in Goroutines, Snapshot(g) PROVE Inv'
    <2>s. Collect(topic[g]) \subseteq Indexed
        <3> SUFFICES ASSUME NEW s \in Collect(topic[g]) PROVE s \in Indexed
            OBVIOUS
        <3>1. CASE s \in globalByID
            BY <3>1 DEF Indexed
        <3>2. CASE \E e \in exactByTopic \cup prefixByPrefix \cup complexByTopic : e[2] = s
            BY <3>2 DEF Indexed
        <3>3. ASSUME NEW p, <<p, s>> \in exactByTopic \cup prefixByPrefix
              PROVE  \E e \in exactByTopic \cup prefixByPrefix \cup complexByTopic : e[2] = s
            BY <3>3
        <3> QED BY <3>1, <3>2, <3>3 DEF Collect
    <2>1. TypeOK'
        BY <1>6 DEF TypeOK, Goroutines, Snapshot, index, publishing, Collect
    <2>2. IdleTasks'
        BY <1>6 DEF IdleTasks, TypeOK, Goroutines, Snapshot, index, publishing
    <2>3. NoCallAfterUnsubscribe'
        <3>1. Collect(topic[g]) \cap gone[g] = {}
            BY <2>s DEF RemovedNotIndexed, History
        <3> QED BY <1>6, <3>1 DEF NoCallAfterUnsubscribe, TypeOK, Goroutines, Snapshot
    <2>4. /\ Counted' /\ ClosePhases' /\ History' /\ Keyed' /\ RemovedNotIndexed'
          /\ DrainedWhenShut'
        BY <1>6
           DEF Counted, ClosePhases, History, Goroutines, Keyed, RemovedNotIndexed,
               Indexed, DrainedWhenShut, Snapshot, index, publishing
    <2> QED BY <2>1, <2>2, <2>3, <2>4
<1>7. ASSUME NEW g \in Goroutines, NEW s \in Subs, CallHandler(g, s) PROVE Inv'
    <2>1. TypeOK'
        BY <1>7 DEF TypeOK, Goroutines, CallHandler, index, publishing
    <2>2. IdleTasks'
        BY <1>7 DEF IdleTasks, TypeOK, Goroutines, CallHandler, index, publishing
    <2>3. NoCallAfterUnsubscribe'
        BY <1>7
           DEF NoCallAfterUnsubscribe, TypeOK, Goroutines, CallHandler, index,
               publishing
    <2>4. /\ Counted' /\ ClosePhases' /\ History' /\ Keyed' /\ RemovedNotIndexed'
          /\ DrainedWhenShut'
        BY <1>7
           DEF Counted, ClosePhases, History, Goroutines, Keyed, RemovedNotIndexed,
               Indexed, DrainedWhenShut, CallHandler, index, publishing
    <2> QED BY <2>1, <2>2, <2>3, <2>4
<1>8. ASSUME NEW g \in Threads, NEW s \in Subs, CallClosingHandler(g, s) PROVE Inv'
    <2>1. TypeOK'
        BY <1>8 DEF TypeOK, Goroutines, CallClosingHandler, index, publishing
    <2>2. IdleTasks'
        BY <1>8, BrokerAssumption
           DEF IdleTasks, TypeOK, Goroutines, CallClosingHandler, index, publishing
    <2>3. ClosePhases'
        BY <1>8 DEF ClosePhases, TypeOK, CallClosingHandler, index, publishing
    <2>4. NoCallAfterUnsubscribe'
        BY <1>8
           DEF NoCallAfterUnsubscribe, TypeOK, Goroutines, CallClosingHandler, index,
               publishing
    <2>5. Counted' /\ History' /\ Keyed' /\ RemovedNotIndexed' /\ DrainedWhenShut'
        BY <1>8
           DEF Counted, History, Goroutines, Keyed, RemovedNotIndexed, Indexed,
               DrainedWhenShut, CallClosingHandler, index, publishing
    <2> QED BY <2>1, <2>2, <2>3, <2>4, <2>5
<1>9. ASSUME NEW g \in Tasks, AsyncDone(g) PROVE Inv'
    <2>n. /\ IsFiniteSet(running \ {g})
           /\ Cardinality(running \ {g}) = wg - 1
           /\ wg - 1 \in Nat
        <3>1. g \in running
            BY <1>9 DEF AsyncDone
        <3>2. IsFiniteSet(running) /\ wg = Cardinality(running) /\ wg \in Nat
            BY DEF Counted, TypeOK
        <3>3. wg # 0
            BY <3>1, <3>2, FS_EmptySet
        <3>4. IsFiniteSet(running \ {g}) /\ Cardinality(running \ {g}) = Cardinality(running) - 1
            BY <3>1, <3>2, FS_RemoveElement
        <3> QED BY <3>2, <3>3, <3>4
    <2>1. TypeOK'
        BY <1>9, <2>n DEF TypeOK, Goroutines, AsyncDone, index, publishing
    <2>2. Counted'
        BY <1>9, <2>n DEF Counted, AsyncDone, index, publishing
    <2>3. IdleTasks'
        BY <1>9 DEF IdleTasks, TypeOK, Goroutines, AsyncDone, index, publishing
    <2>4. ClosePhases'
        BY <1>9 DEF ClosePhases, TypeOK, AsyncDone, index, publishing
    <2>5. DrainedWhenShut'
        BY <1>9 DEF DrainedWhenShut, Indexed, AsyncDone, index, publishing
    <2>6. History' /\ Keyed' /\ RemovedNotIndexed' /\ NoCallAfterUnsubscribe'
        BY <1>9
           DEF History, Goroutines, Keyed, RemovedNotIndexed, Indexed,
               NoCallAfterUnsubscribe, AsyncDone, index, publishing
    <2> QED BY <2>1, <2>2, <2>3, <2>4, <2>5, <2>6
<1>10. ASSUME NEW g \in Threads, Close(g) PROVE Inv'
    <2>1. TypeOK'
        BY <1>10 DEF TypeOK, Goroutines, Close, index, publishing
    <2>2. ClosePhases'
        BY <1>10 DEF ClosePhases, TypeOK, Close, index, publishing
    <2>3. /\ Counted' /\ IdleTasks' /\ History' /\ Keyed' /\ RemovedNotIndexed'
          /\ NoCallAfterUnsubscribe' /\ DrainedWhenShut'
        BY <1>10
           DEF Counted, IdleTasks, Goroutines, History, Keyed, RemovedNotIndexed,
               Indexed, NoCallAfterUnsubscribe, DrainedWhenShut, Close, index, publishing
    <2> QED BY <2>1, <2>2, <2>3
<1>11. ASSUME NEW g \in Threads, CloseCommit(g) PROVE Inv'
    <2>1. TypeOK'
        BY <1>11 DEF TypeOK, Goroutines, CloseCommit, index, publishing
    <2>2. ClosePhases'
        BY <1>11 DEF ClosePhases, TypeOK, CloseCommit, index, publishing
    <2>3. /\ Counted' /\ IdleTasks' /\ History' /\ Keyed' /\ RemovedNotIndexed'
          /\ NoCallAfterUnsubscribe' /\ DrainedWhenShut'
        BY <1>11
           DEF Counted, IdleTasks, Goroutines, History, Keyed, RemovedNotIndexed,
               Indexed, NoCallAfterUnsubscribe, DrainedWhenShut, CloseCommit, index,
               publishing
    <2> QED BY <2>1, <2>2, <2>3
<1>12. ASSUME NEW g \in Threads, CloseWait(g) PROVE Inv'
    <2>1. TypeOK'
        BY <1>12 DEF TypeOK, Goroutines, CloseWait, index, publishing
    <2>2. ClosePhases'
        BY <1>12, FS_EmptySet
           DEF ClosePhases, TypeOK, CloseWait, index, publishing, Counted
    <2>3. /\ Counted' /\ IdleTasks' /\ History' /\ Keyed' /\ RemovedNotIndexed'
          /\ NoCallAfterUnsubscribe' /\ DrainedWhenShut'
        BY <1>12
           DEF Counted, IdleTasks, Goroutines, History, Keyed, RemovedNotIndexed,
               Indexed, NoCallAfterUnsubscribe, DrainedWhenShut, CloseWait, index,
               publishing
    <2> QED BY <2>1, <2>2, <2>3
<1>13. ASSUME NEW g \in Threads, CloseClear(g) PROVE Inv'
    <2>1. TypeOK'
        BY <1>13 DEF TypeOK, Goroutines, CloseClear, index, publishing
    <2>2. ClosePhases'
        BY <1>13 DEF ClosePhases, TypeOK, CloseClear, index, publishing
    <2>3. Keyed'
        BY <1>13 DEF Keyed, CloseClear, index, publishing
    <2>4. RemovedNotIndexed'
        BY <1>13 DEF RemovedNotIndexed, Indexed, CloseClear, index, publishing
    <2>5. DrainedWhenShut'
        BY <1>13 DEF DrainedWhenShut, Indexed, CloseClear, index, publishing, ClosePhases
    <2>6. Counted' /\ IdleTasks' /\ History' /\ NoCallAfterUnsubscribe'
        BY <1>13
           DEF Counted, IdleTasks, Goroutines, History, NoCallAfterUnsubscribe,
               CloseClear, index, publishing
    <2> QED BY <2>1, <2>2, <2>3, <2>4, <2>5, <2>6
<1>14. CASE UNCHANGED vars
    BY <1>14
       DEF vars, index, publishing, TypeOK, Counted, IdleTasks, ClosePhases, History,
           Keyed, RemovedNotIndexed, NoCallAfterUnsubscribe, DrainedWhenShut, Indexed,
           Goroutines
<1> QED BY <1>1, <1>2, <1>3, <1>4, <1>5, <1>6, <1>7, <1>8, <1>9, <1>10, <1>11, <1>12,
        <1>13, <1>14 DEF Next, Deliver, CloseStep

----------------------------------------------------------------------------
\* The invariant of the broker, for every number of goroutines, subscriptions
\* and topics: what the lock of memory_broker.go protects stays consistent.
THEOREM Invariance == Spec => []Inv
BY InitInv, NextInv, PTL DEF Spec

\* Type correctness; in particular the WaitGroup of PublishAsync never goes
\* below zero, where wg.Done panics.
THEOREM Typing == Spec => []TypeOK
BY Invariance, PTL DEF Inv

\* A publish called after Unsubscribe has returned never calls the handler it
\* removed (memory_broker.go, Unsubscribe and publishInternal).
THEOREM UnsubscribeIsEffective == Spec => []NoCallAfterUnsubscribe
BY Invariance, PTL DEF Inv

\* When the Close that closed the broker has returned, every goroutine of
\* PublishAsync has ended and the maps are empty (memory_broker.go, Close).
THEOREM CloseDrains == Spec => []DrainedWhenShut
BY Invariance, PTL DEF Inv

\* Nothing is admitted after Close has set closed, although Subscribe tests it
\* outside the lock first.
THEOREM CloseIsFinal == Spec => CommitIsFinal
<1>1. Inv /\ [Next]_vars => [closed => /\ closed'
                                      /\ Indexed' \subseteq Indexed
                                      /\ running' \subseteq running]_vars
    <2> SUFFICES ASSUME Inv, [Next]_vars, closed
                 PROVE  /\ closed'
                        /\ Indexed' \subseteq Indexed
                        /\ running' \subseteq running
        OBVIOUS
    <2>1. ASSUME NEW s \in Subs, Subscribe(s) \/ SubscribeLocked(s) \/ Unsubscribe(s)
          PROVE  closed' /\ index' = index /\ running' = running
        BY <2>1 DEF Subscribe, SubscribeLocked, Unsubscribe, index
    <2>2. ASSUME NEW g \in Goroutines, Deliver(g)
          PROVE  closed' /\ index' = index /\ running' = running
        BY <2>2 DEF Deliver, Snapshot, CallHandler, index
    <2>3. ASSUME NEW g \in Threads, NEW t \in Topics, Publish(g, t)
          PROVE  FALSE
        BY <2>3 DEF Publish
    <2>4. ASSUME NEW g \in Tasks, NEW t \in Topics, PublishAsync(g, t)
          PROVE  FALSE
        BY <2>4 DEF PublishAsync
    <2>5. ASSUME NEW g \in Threads, NEW s \in Subs, CallClosingHandler(g, s)
          PROVE  closed' /\ index' = index /\ running' = running
        BY <2>5 DEF CallClosingHandler, index
    <2>6. ASSUME NEW g \in Tasks, AsyncDone(g)
          PROVE  closed' /\ index' = index /\ running' \subseteq running
        BY <2>6 DEF AsyncDone, index
    <2>7. ASSUME NEW g \in Threads, Close(g) \/ CloseCommit(g) \/ CloseWait(g)
          PROVE  closed' /\ index' = index /\ running' = running
        BY <2>7 DEF Close, CloseCommit, CloseWait, index
    <2>8. ASSUME NEW g \in Threads, CloseClear(g)
          PROVE  closed' /\ Indexed' = {} /\ running' = running
        BY <2>8 DEF CloseClear, Indexed
    <2>9. CASE UNCHANGED vars
        BY <2>9 DEF vars, index, Indexed
    <2>10. index' = index => Indexed' = Indexed
        BY DEF index, Indexed
    <2> QED BY <2>1, <2>2, <2>3, <2>4, <2>5, <2>6, <2>7, <2>8, <2>9, <2>10
            DEF Next, CloseStep
<1> QED BY <1>1, Invariance, PTL DEF Spec, CommitIsFinal

----------------------------------------------------------------------------
(* The four maps as one set of subscriptions.                              *)

\* NewPattern gives every pattern one of the four kinds, and the suffix wildcard
\* to those that are a prefix of at least one segment followed by a star.
LEMMA KindFacts ==
    ASSUME NEW raw \in Seq(STRING)
    PROVE  /\ KindOf(raw) \in Kinds
           /\ KindOf(raw) = "SuffixWildcard" =>
                /\ Len(raw) >= 2
                /\ raw = Append(SimplePrefix(raw), Star)
<1>1. KindOf(raw) \in Kinds
    BY DEF KindOf, Kinds
<1>2. ASSUME KindOf(raw) = "SuffixWildcard"
      PROVE  Len(raw) >= 2 /\ raw[Len(raw)] = Star
    BY <1>2 DEF KindOf
<1>3. ASSUME Len(raw) >= 2, raw[Len(raw)] = Star
      PROVE  raw = Append(SimplePrefix(raw), Star)
    <2>1. SimplePrefix(raw) \in Seq(STRING) /\ Len(SimplePrefix(raw)) = Len(raw) - 1
        BY <1>3 DEF SimplePrefix, AllButLast
    <2>2. \A i \in 1 .. Len(raw) - 1 : SimplePrefix(raw)[i] = raw[i]
        BY <1>3 DEF SimplePrefix, AllButLast
    <2>3. Star \in STRING
        BY <1>3
    <2>4. /\ Append(SimplePrefix(raw), Star) \in Seq(STRING)
          /\ Len(Append(SimplePrefix(raw), Star)) = Len(raw)
          /\ \A i \in 1 .. Len(raw) - 1 : Append(SimplePrefix(raw), Star)[i] = raw[i]
          /\ Append(SimplePrefix(raw), Star)[Len(raw)] = raw[Len(raw)]
        <3> DEFINE P == SimplePrefix(raw)
        <3>1. /\ Append(P, Star) \in Seq(STRING)
              /\ Len(Append(P, Star)) = Len(P) + 1
              /\ \A i \in 1 .. Len(P) : Append(P, Star)[i] = P[i]
              /\ Append(P, Star)[Len(P) + 1] = Star
            BY <2>1, <2>3, AppendProperties, ZenonT(60)
        <3> HIDE DEF P
        <3>2. Len(P) = Len(raw) - 1 /\ \A i \in 1 .. Len(raw) - 1 : P[i] = raw[i]
            BY <2>1, <2>2 DEF P
        <3>3. Len(P) + 1 = Len(raw)
            BY <3>2
        <3> QED BY <1>3, <3>1, <3>2, <3>3 DEF P
    <2> QED BY <2>4
<1> QED BY <1>1, <1>2, <1>3

\* The prefixes that forEachPrefixOf enumerates are the ones Match accepts.
LEMMA PrefixFacts ==
    ASSUME NEW p \in Seq(STRING), NEW t \in Seq(STRING), Len(p) >= 1
    PROVE  p \in PrefixesOf(t) <=> HasDottedPrefix(p, t)
<1>1. ASSUME p \in PrefixesOf(t) PROVE HasDottedPrefix(p, t)
    <2>1. PICK n \in 1 .. Len(t) - 1 : p = [i \in 1 .. n |-> t[i]]
        BY <1>1 DEF PrefixesOf
    <2>2. Len(p) = n
        BY <2>1
    <2> QED BY <2>1, <2>2 DEF HasDottedPrefix
<1>2. ASSUME HasDottedPrefix(p, t) PROVE p \in PrefixesOf(t)
    <2>1. Len(p) \in 1 .. Len(t) - 1
        BY <1>2 DEF HasDottedPrefix
    <2>2. p = [i \in 1 .. Len(p) |-> t[i]]
        BY <1>2 DEF HasDottedPrefix
    <2> QED BY <2>1, <2>2 DEF PrefixesOf
<1> QED BY <1>1, <1>2

\* The abstract broker matches patterns as Pattern.Match does.
LEMMA SameMatch == \A r, t : B!Match(r, t) = Match(r, t)
<1>1. \A r, t : B!MatchSegments(r, t) = MatchSegments(r, t)
    BY DEF B!MatchSegments, MatchSegments, B!Star, Star
<1>2. \A r : B!KindOf(r) = KindOf(r) /\ B!SimplePrefix(r) = SimplePrefix(r)
    BY DEF B!KindOf, KindOf, B!Star, Star, B!Segments, Segments, B!AllButLast, AllButLast,
        B!SimplePrefix, SimplePrefix
<1>3. \A r, t : B!HasDottedPrefix(r, t) = HasDottedPrefix(r, t)
    BY DEF B!HasDottedPrefix, HasDottedPrefix
<1> QED BY <1>1, <1>2, <1>3 DEF B!Match, Match, B!Empty, Empty

\* publishInternal finds in the four maps exactly the subscriptions whose pattern
\* matches the topic, when no dot ends the topic.
LEMMA CollectMatches ==
    ASSUME TypeOK, Keyed, NEW t \in Topics, t[Len(t)] # Empty
    PROVE  Collect(t) = {s \in Indexed : Match(SubTopic[s], t)}
<1> DEFINE M(s) == Match(SubTopic[s], t)
<1>t. t \in Seq(STRING)
    BY BrokerAssumption
<1>0. ASSUME NEW s \in Subs
      PROVE  SubTopic[s] \in Seq(STRING) /\ SimplePrefix(SubTopic[s]) \in Seq(STRING)
    BY BrokerAssumption, SimplePrefixType
<1>i. ASSUME NEW s
      PROVE  s \in Indexed <=> \/ s \in globalByID
                               \/ \E e \in exactByTopic : e[2] = s
                               \/ \E e \in prefixByPrefix : e[2] = s
                               \/ \E e \in complexByTopic : e[2] = s
    BY DEF Indexed
<1>1. ASSUME NEW s \in globalByID PROVE s \in Subs /\ M(s)
    BY <1>1 DEF TypeOK, Keyed, Match
<1>2. ASSUME NEW e \in exactByTopic
      PROVE  e[2] \in Subs /\ (M(e[2]) <=> e = <<t, e[2]>>)
    BY <1>2 DEF TypeOK, Keyed, Match
<1>3. ASSUME NEW e \in complexByTopic
      PROVE  e[2] \in Subs /\ (M(e[2]) <=> Match(e[1], t))
    BY <1>3 DEF TypeOK, Keyed
<1>4. ASSUME NEW e \in prefixByPrefix
      PROVE  e[2] \in Subs /\ (M(e[2]) <=> \E p \in PrefixesOf(t) : e = <<p, e[2]>>)
    <2> DEFINE s == e[2]
               p == SimplePrefix(SubTopic[s])
    <2>1. s \in Subs /\ e = <<p, s>> /\ KindOf(SubTopic[s]) = "SuffixWildcard"
        BY <1>4 DEF TypeOK, Keyed
    <2>2. p \in Seq(STRING) /\ Len(p) >= 1
        BY <2>1, <1>0, KindFacts DEF SimplePrefix, AllButLast
    <2>3. M(s) <=> HasDottedPrefix(p, t) /\ t # Append(p, Empty)
        BY <2>1 DEF Match
    <2>4. t # Append(p, Empty)
        <3>1. SUFFICES ASSUME t = Append(p, Empty) PROVE FALSE
            OBVIOUS
        <3>2. p \in Seq(STRING \cup {Empty})
            <4> HIDE DEF p, s
            <4> QED BY <2>2
        <3>3. Len(t) = Len(p) + 1 /\ t[Len(p) + 1] = Empty
            BY <3>1, <3>2, AppendProperties
        <3> QED BY <3>3
    <2>5. M(s) <=> p \in PrefixesOf(t)
        BY <2>2, <2>3, <2>4, <1>t, PrefixFacts
    <2> QED BY <2>1, <2>5
<1>5. ASSUME NEW s \in Collect(t) PROVE s \in Indexed /\ M(s)
    <2>1. CASE <<t, s>> \in exactByTopic
        BY <2>1, <1>2, <1>i
    <2>2. CASE \E p \in PrefixesOf(t) : <<p, s>> \in prefixByPrefix
        BY <2>2, <1>4, <1>i
    <2>3. CASE s \in globalByID
        BY <2>3, <1>1, <1>i
    <2>4. CASE \E e \in complexByTopic : e[2] = s /\ Match(e[1], t)
        BY <2>4, <1>3, <1>i
    <2> QED BY <1>5, <2>1, <2>2, <2>3, <2>4 DEF Collect
<1>6. ASSUME NEW s \in Indexed, M(s) PROVE s \in Collect(t)
    <2> HIDE DEF M
    <2>1. CASE s \in globalByID
        BY <2>1, <1>1 DEF Collect
    <2>2. CASE \E e \in exactByTopic : e[2] = s
        BY <2>2, <1>2, <1>6 DEF Collect
    <2>3. CASE \E e \in prefixByPrefix : e[2] = s
        BY <2>3, <1>4, <1>6 DEF Collect
    <2>4. CASE \E e \in complexByTopic : e[2] = s
        BY <2>4, <1>3, <1>6 DEF Collect
    <2> QED BY <1>i, <1>6, <2>1, <2>2, <2>3, <2>4
<1> QED BY <1>5, <1>6

\* Every subscription that callers hold is in a map until Close clears them.
AllIndexed == ~shut => registered \ removed \subseteq Indexed

\* One call of Close won the compare-and-swap, and it has not returned.
OneCloser ==
    /\ \A g, h \in Threads :
          closing[g] \in {"wait", "clear"} /\ closing[h] \in {"wait", "clear"} => g = h
    /\ \A g \in Threads : closing[g] \in {"wait", "clear"} => ~shut

\* A publish that has not taken its snapshot has no handler left of another.
SnapshotFirst == \A g \in Goroutines : topic[g] # NoTopic => handlers[g] = {}

IndexInv == AllIndexed /\ OneCloser /\ SnapshotFirst

\* What Subscribe and Unsubscribe do to the set of subscriptions the maps hold.
LEMMA InsertAdds ==
    ASSUME NEW s \in Subs, Insert(s) PROVE Indexed' = Indexed \cup {s}
<1>1. KindOf(SubTopic[s]) \in Kinds
    BY BrokerAssumption, KindFacts
<1> DEFINE entries == exactByTopic \cup prefixByPrefix \cup complexByTopic
<1>2. CASE KindOf(SubTopic[s]) = "Global"
    BY <1>2 DEF Insert, Indexed
<1>3. ASSUME NEW k, globalByID' = globalByID, entries' = entries \cup {<<k, s>>}
      PROVE  Indexed' = Indexed \cup {s}
    <2>1. <<k, s>>[2] = s
        OBVIOUS
    <2>2. {e[2] : e \in entries'} = {e[2] : e \in entries} \cup {s}
        <3> HIDE DEF entries
        <3> QED BY <1>3, <2>1
    <2> QED BY <1>3, <2>2 DEF Indexed
<1>4. CASE KindOf(SubTopic[s]) = "SuffixWildcard"
    <2>1. globalByID' = globalByID /\ entries' = entries \cup {<<SimplePrefix(SubTopic[s]), s>>}
        BY <1>4 DEF Insert
    <2> QED BY <2>1, <1>3
<1>5. CASE KindOf(SubTopic[s]) \in {"Exact", "Complex"}
    <2>1. globalByID' = globalByID /\ entries' = entries \cup {<<SubTopic[s], s>>}
        BY <1>5 DEF Insert
    <2> QED BY <2>1, <1>3
<1> QED BY <1>1, <1>2, <1>4, <1>5 DEF Kinds

\* removeFromBucket finds every entry of the subscription.
LEMMA RemoveDeletes ==
    ASSUME Keyed, NEW s \in Subs, RemoveFromBucket(s) PROVE Indexed' = Indexed \ {s}
<1> DEFINE P == SimplePrefix(SubTopic[s])
           T == SubTopic[s]
<1>1. globalByID' = globalByID \ {s}
    BY DEF RemoveFromBucket, Keyed
<1>2. exactByTopic' = {e \in exactByTopic : e[2] # s}
    BY DEF RemoveFromBucket, Keyed
<1>3. prefixByPrefix' = {e \in prefixByPrefix : e[2] # s}
    BY DEF RemoveFromBucket, Keyed
<1>4. complexByTopic' = {e \in complexByTopic : e[2] # s}
    BY DEF RemoveFromBucket, Keyed
<1> QED BY <1>1, <1>2, <1>3, <1>4 DEF Indexed

\* Every step preserves the parts about the set of subscriptions.
LEMMA NextIndexInv == Inv /\ IndexInv /\ [Next]_vars => IndexInv'
<1> SUFFICES ASSUME Inv, IndexInv, [Next]_vars PROVE IndexInv'
    OBVIOUS
<1> USE DEF IndexInv
<1>1. ASSUME NEW s \in Subs, Subscribe(s) PROVE IndexInv'
    BY <1>1 DEF Subscribe, AllIndexed, OneCloser, SnapshotFirst, Indexed, index, publishing
<1>2. ASSUME NEW s \in Subs, SubscribeLocked(s) PROVE IndexInv'
    <2>1. AllIndexed'
        <3>1. CASE closed
            BY <1>2, <3>1 DEF SubscribeLocked, AllIndexed, Indexed, index
        <3>2. CASE ~closed
            BY <1>2, <3>2, InsertAdds DEF SubscribeLocked, AllIndexed
        <3> QED BY <3>1, <3>2
    <2> QED BY <1>2, <2>1 DEF SubscribeLocked, OneCloser, SnapshotFirst, publishing
<1>3. ASSUME NEW s \in Subs, Unsubscribe(s) PROVE IndexInv'
    <2>1. AllIndexed'
        BY <1>3, RemoveDeletes DEF Unsubscribe, AllIndexed, Inv
    <2> QED BY <1>3, <2>1 DEF Unsubscribe, OneCloser, SnapshotFirst, publishing
<1>4. ASSUME NEW g \in Threads, NEW t \in Topics, Publish(g, t) PROVE IndexInv'
    <2>1. SnapshotFirst'
        BY <1>4 DEF Publish, SnapshotFirst, Idle, Inv, TypeOK, Goroutines
    <2> QED BY <1>4, <2>1 DEF Publish, AllIndexed, OneCloser, Indexed, index
<1>5. ASSUME NEW g \in Tasks, NEW t \in Topics, PublishAsync(g, t) PROVE IndexInv'
    <2>1. SnapshotFirst'
        BY <1>5 DEF PublishAsync, SnapshotFirst, IdleTasks, Inv, TypeOK, Goroutines
    <2> QED BY <1>5, <2>1 DEF PublishAsync, AllIndexed, OneCloser, Indexed, index
<1>6. ASSUME NEW g \in Goroutines, Snapshot(g) PROVE IndexInv'
    <2>1. SnapshotFirst'
        BY <1>6 DEF Snapshot, SnapshotFirst, Inv, TypeOK
    <2> QED BY <1>6, <2>1 DEF Snapshot, AllIndexed, OneCloser, Indexed, index
<1>7. ASSUME NEW g \in Goroutines, NEW s \in Subs, CallHandler(g, s) PROVE IndexInv'
    <2>1. SnapshotFirst'
        BY <1>7 DEF CallHandler, SnapshotFirst, Inv, TypeOK
    <2> QED BY <1>7, <2>1 DEF CallHandler, AllIndexed, OneCloser, Indexed, index
<1>8. ASSUME NEW g \in Threads, NEW s \in Subs, CallClosingHandler(g, s) PROVE IndexInv'
    <2>1. SnapshotFirst'
        BY <1>8 DEF CallClosingHandler, SnapshotFirst, Inv, TypeOK, Goroutines
    <2>2. OneCloser'
        BY <1>8 DEF CallClosingHandler, OneCloser, Inv, TypeOK
    <2> QED BY <1>8, <2>1, <2>2 DEF CallClosingHandler, AllIndexed, Indexed, index
<1>9. ASSUME NEW g \in Tasks, AsyncDone(g) PROVE IndexInv'
    BY <1>9 DEF AsyncDone, AllIndexed, OneCloser, SnapshotFirst, Indexed, index, publishing
<1>10. ASSUME NEW g \in Threads, Close(g) PROVE IndexInv'
    <2>1. OneCloser'
        BY <1>10 DEF Close, OneCloser, Inv, TypeOK
    <2> QED BY <1>10, <2>1 DEF Close, AllIndexed, SnapshotFirst, Indexed, index, publishing
<1>11. ASSUME NEW g \in Threads, CloseCommit(g) PROVE IndexInv'
    <2>1. OneCloser'
        BY <1>11 DEF CloseCommit, OneCloser, Inv, TypeOK, ClosePhases
    <2> QED BY <1>11, <2>1
            DEF CloseCommit, AllIndexed, SnapshotFirst, Indexed, index, publishing
<1>12. ASSUME NEW g \in Threads, CloseWait(g) PROVE IndexInv'
    <2>1. OneCloser'
        BY <1>12 DEF CloseWait, OneCloser, Inv, TypeOK
    <2> QED BY <1>12, <2>1
            DEF CloseWait, AllIndexed, SnapshotFirst, Indexed, index, publishing
<1>13. ASSUME NEW g \in Threads, CloseClear(g) PROVE IndexInv'
    <2>1. OneCloser'
        BY <1>13 DEF CloseClear, OneCloser, Inv, TypeOK
    <2> QED BY <1>13, <2>1 DEF CloseClear, AllIndexed, SnapshotFirst, publishing
<1>14. CASE UNCHANGED vars
    BY <1>14 DEF vars, index, publishing, AllIndexed, OneCloser, SnapshotFirst, Indexed
<1> QED BY <1>1, <1>2, <1>3, <1>4, <1>5, <1>6, <1>7, <1>8, <1>9, <1>10, <1>11, <1>12,
        <1>13, <1>14 DEF Next, Deliver, CloseStep

\* Both invariants together.
LEMMA IndexInvariance == Spec => [](Inv /\ IndexInv)
<1>1. Init => IndexInv
    BY DEF Init, IndexInv, AllIndexed, OneCloser, SnapshotFirst, Indexed, Goroutines
<1> QED BY <1>1, Invariance, NextIndexInv, PTL DEF Spec

\* Until Close clears them, the maps hold exactly the subscriptions that callers
\* hold, each where publishInternal and removeFromBucket look for it.
THEOREM IndexIsExact == Spec => []IndexExact
<1>1. Inv /\ IndexInv => IndexExact
    <2> SUFFICES ASSUME Inv, IndexInv, ~shut PROVE IndexExact
        BY DEF IndexExact
    <2>1. Indexed = registered \ removed
        BY DEF Inv, IndexInv, AllIndexed, RemovedNotIndexed, Keyed, Indexed
    <2>2. \A e \in exactByTopic \cup complexByTopic : e[1] = SubTopic[e[2]]
        BY DEF Inv, Keyed
    <2>3. ASSUME NEW e \in prefixByPrefix PROVE SubTopic[e[2]] = Append(e[1], Star)
        <3>1. /\ e[2] \in Subs
              /\ e[1] = SimplePrefix(SubTopic[e[2]])
              /\ KindOf(SubTopic[e[2]]) = "SuffixWildcard"
            BY <2>3 DEF Inv, Keyed, TypeOK
        <3> QED BY <3>1, KindFacts, BrokerAssumption
    <2> QED BY <2>1, <2>2, <2>3 DEF IndexExact
<1> QED BY <1>1, IndexInvariance, PTL

----------------------------------------------------------------------------
(* The refinement.                                                         *)

\* Each critical section of the lock, and each call of a handler, is one step of
\* the abstract broker or none.
LEMMA StepRefines ==
    ASSUME NoTrailingDot, Inv, IndexInv, [Next]_vars
    PROVE  [B!Next]_(B!vars)
<1> DEFINE same == Indexed' = Indexed /\ closed' = closed /\ shut' = shut /\ handlers' = handlers
<1>0. same => UNCHANGED B!vars
    BY DEF B!vars
<1>b. closed \in BOOLEAN /\ shut \in BOOLEAN
    BY DEF Inv, TypeOK
<1>1. ASSUME NEW s \in Subs, Subscribe(s) PROVE same
    BY <1>1 DEF Subscribe, index, publishing, Indexed
<1>2. ASSUME NEW s \in Subs, SubscribeLocked(s) PROVE same \/ B!Subscribe(s)
    <2>1. CASE closed
        BY <1>2, <2>1 DEF SubscribeLocked, index, publishing, Indexed
    <2>2. CASE ~closed
        <3>1. Indexed' = Indexed \cup {s}
            BY <1>2, <2>2, InsertAdds DEF SubscribeLocked
        <3>2. s \notin Indexed
            BY <1>2 DEF SubscribeLocked, Inv, History, Keyed, Indexed
        <3> QED BY <1>2, <2>2, <3>1, <3>2 DEF SubscribeLocked, B!Subscribe, publishing
    <2> QED BY <2>1, <2>2
<1>3. ASSUME NEW s \in Subs, Unsubscribe(s) PROVE B!Unsubscribe(s)
    BY <1>3, RemoveDeletes DEF Unsubscribe, B!Unsubscribe, publishing, Inv
<1>4. ASSUME NEW g \in Threads, NEW t \in Topics, Publish(g, t) PROVE same
    BY <1>4 DEF Publish, index, publishing, Indexed
<1>5. ASSUME NEW g \in Tasks, NEW t \in Topics, PublishAsync(g, t) PROVE same
    BY <1>5 DEF PublishAsync, index, publishing, Indexed
<1>6. ASSUME NEW g \in Goroutines, Snapshot(g)
      PROVE  \E t \in Topics : B!Publish(g, t)
    <2>1. topic[g] \in Topics /\ handlers[g] = {}
        BY <1>6 DEF Snapshot, Inv, TypeOK, IndexInv, SnapshotFirst
    <2>2. Collect(topic[g]) = {s \in Indexed : B!Match(SubTopic[s], topic[g])}
        BY <2>1, CollectMatches, SameMatch DEF NoTrailingDot, Inv
    <2>3. Indexed' = Indexed /\ closed' = closed /\ shut' = shut
        BY <1>6 DEF Snapshot, index, Indexed
    <2>4. g \in Tasks => ~shut
        BY <1>6 DEF Snapshot, Inv, IdleTasks, DrainedWhenShut
    <2>5. handlers' =
            [handlers EXCEPT ![g] = {s \in Indexed : B!Match(SubTopic[s], topic[g])}]
        BY <1>6, <2>2 DEF Snapshot
    <2>6. B!Publish(g, topic[g])
        BY <2>1, <2>3, <2>4, <2>5 DEF B!Publish
    <2> QED BY <2>1, <2>6
<1>7. ASSUME NEW g \in Goroutines, NEW s \in Subs, CallHandler(g, s) PROVE B!Call(g, s)
    <2>1. g \in Tasks => ~shut
        BY <1>7 DEF CallHandler, Inv, IdleTasks, DrainedWhenShut
    <2> QED BY <1>7, <2>1 DEF CallHandler, B!Call, index, Indexed
<1>8. ASSUME NEW g \in Threads, NEW s \in Subs, CallClosingHandler(g, s)
      PROVE  B!Call(g, s)
    BY <1>8, BrokerAssumption DEF CallClosingHandler, B!Call, index, Indexed
<1>9. ASSUME NEW g \in Tasks, AsyncDone(g) PROVE same
    BY <1>9 DEF AsyncDone, index, publishing, Indexed
<1>10. ASSUME NEW g \in Threads, Close(g) \/ CloseWait(g) PROVE same
    BY <1>10 DEF Close, CloseWait, index, publishing, Indexed
<1>11. ASSUME NEW g \in Threads, CloseCommit(g) PROVE same \/ B!StopAdmitting
    <2>1. Indexed' = Indexed /\ shut' = shut /\ handlers' = handlers
        BY <1>11 DEF CloseCommit, index, publishing, Indexed
    <2> QED BY <1>11, <2>1, <1>b DEF CloseCommit, B!StopAdmitting
<1>12. ASSUME NEW g \in Threads, CloseClear(g) PROVE B!Shut
    <2>1. closed /\ ~shut /\ running = {}
        BY <1>12 DEF CloseClear, Inv, ClosePhases, IndexInv, OneCloser
    <2>2. \A t \in Tasks : handlers[t] = {}
        BY <2>1 DEF Inv, IdleTasks
    <2> QED BY <1>12, <2>1, <2>2 DEF CloseClear, B!Shut, Indexed, publishing
<1>13. ASSUME UNCHANGED vars PROVE same
    BY <1>13 DEF vars, index, publishing, Indexed
<1> HIDE DEF same
<1> QED BY <1>0, <1>1, <1>2, <1>3, <1>4, <1>5, <1>6, <1>7, <1>8, <1>9, <1>10, <1>11, <1>12,
        <1>13 DEF Next, Deliver, CloseStep, B!Next, Goroutines

\* The broker with its four maps, its lock and its WaitGroup implements the Broker
\* interface: a publish reaches exactly the subscriptions whose pattern matches,
\* and Close stops admissions, waits, then forgets everybody.
THEOREM ImplementsBroker ==
    ASSUME NoTrailingDot PROVE Spec => Implements
<1>1. Init => B!Init
    BY DEF Init, B!Init, Indexed, Goroutines
<1>2. Inv /\ IndexInv /\ [Next]_vars => [B!Next]_(B!vars)
    BY StepRefines
<1> QED BY <1>1, <1>2, IndexInvariance, PTL DEF Spec, Implements, B!Spec
============================================================================
