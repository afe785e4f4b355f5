-------------------------- MODULE WSConnmgrProofs --------------------------
(***************************************************************************)
(* Proofs about WSConnmgr, for any number of connections, topics and       *)
(* requests, and any size of the send buffers and of the delays.           *)
(***************************************************************************)
EXTENDS WSConnmgr, FiniteSetTheorems, SequenceTheorems, TLAPS

----------------------------------------------------------------------------
(* The lists of subscriptions.                                             *)

\* No topic is twice in the list.
Distinct(s) == \A i, j \in 1 .. Len(s) : s[i] = s[j] => i = j

\* In a list without repetition a topic counts once or not at all.
LEMMA CountDistinct ==
    ASSUME NEW T, NEW s \in Seq(T), Distinct(s), NEW t
    PROVE  Count(t, s) = IF t \in Range(s) THEN 1 ELSE 0
<1> DEFINE D == {i \in DOMAIN s : s[i] = t}
<1>1. CASE t \notin Range(s)
    <2>1. D = {}
        BY <1>1 DEF Range
    <2> QED BY <1>1, <2>1, FS_EmptySet DEF Count
<1>2. CASE t \in Range(s)
    <2>1. PICK i \in DOMAIN s : s[i] = t
        BY <1>2 DEF Range
    <2>2. D = {i}
        BY <2>1 DEF Distinct
    <2> QED BY <1>2, <2>2, FS_Singleton DEF Count
<1> QED BY <1>1, <1>2

\* WSConnmgr.Unsubscribe takes the topic out of the list and leaves the others.
LEMMA RemoveDistinct ==
    ASSUME NEW T, NEW s \in Seq(T), Distinct(s), NEW t, t \in Range(s)
    PROVE  /\ RemoveFirst(s, t) \in Seq(T)
           /\ Distinct(RemoveFirst(s, t))
           /\ Range(RemoveFirst(s, t)) = Range(s) \ {t}
<1>1. PICK k \in 1 .. Len(s) : s[k] = t
    BY DEF Range
<1>2. {i \in 1 .. Len(s) : s[i] = t} = {k}
    BY <1>1 DEF Distinct
<1>3. Min({k}) = k
    BY <1>1 DEF Min
<1>4. SelectInSeq(s, LAMBDA v : v = t) = k
    BY <1>2, <1>3 DEF SelectInSeq
<1>5. RemoveFirst(s, t) = RemoveAt(s, k)
    BY <1>1, <1>4 DEF RemoveFirst
<1> DEFINE a == SubSeq(s, 1, k - 1)
           b == SubSeq(s, k + 1, Len(s))
           r == a \o b
<1>6. /\ a \in Seq(T) /\ Len(a) = k - 1
      /\ \A i \in 1 .. k - 1 : a[i] = s[i]
    <2>1. \A i \in 1 .. k - 1 : s[i] \in T
        BY <1>1
    <2>2. /\ a \in Seq(T) /\ Len(a) = IF 1 <= k - 1 THEN k - 1 - 1 + 1 ELSE 0
          /\ \A i \in 1 .. k - 1 - 1 + 1 : a[i] = s[1 + i - 1]
        BY <2>1, <1>1, SubSeqProperties
    <2> HIDE DEF a
    <2> QED BY <2>2, <1>1
<1>7. /\ b \in Seq(T) /\ Len(b) = Len(s) - k
      /\ \A i \in 1 .. Len(s) - k : b[i] = s[k + i]
    <2>1. \A i \in k + 1 .. Len(s) : s[i] \in T
        BY <1>1
    <2>2. /\ b \in Seq(T) /\ Len(b) = IF k + 1 <= Len(s) THEN Len(s) - (k + 1) + 1 ELSE 0
          /\ \A i \in 1 .. Len(s) - (k + 1) + 1 : b[i] = s[k + 1 + i - 1]
        BY <2>1, <1>1, SubSeqProperties
    <2> HIDE DEF b
    <2> QED BY <2>2, <1>1
<1>8. /\ r \in Seq(T) /\ Len(r) = Len(s) - 1
      /\ \A i \in 1 .. Len(s) - 1 : r[i] = IF i < k THEN s[i] ELSE s[i + 1]
    <2>1. /\ r \in Seq(T) /\ Len(r) = Len(a) + Len(b)
          /\ \A i \in 1 .. Len(a) + Len(b) : r[i] = IF i <= Len(a) THEN a[i] ELSE b[i - Len(a)]
        BY <1>6, <1>7, ConcatProperties
    <2> HIDE DEF a, b, r
    <2>2. Len(r) = Len(s) - 1 /\ Len(a) + Len(b) = Len(s) - 1
        BY <2>1, <1>6, <1>7, <1>1
    <2>3. ASSUME NEW i \in 1 .. Len(s) - 1
          PROVE  r[i] = IF i < k THEN s[i] ELSE s[i + 1]
        <3>1. CASE i < k
            BY <3>1, <2>1, <2>2, <1>6, <1>1
        <3>2. CASE ~(i < k)
            <4>1. r[i] = b[i - (k - 1)]
                BY <3>2, <2>1, <2>2, <1>6, <1>1, SMTT(30)
            <4>2. i - (k - 1) \in 1 .. Len(s) - k /\ k + (i - (k - 1)) = i + 1
                BY <3>2, <1>1
            <4> QED BY <4>1, <4>2, <1>7, <3>2
        <3> QED BY <3>1, <3>2
    <2> QED BY <2>1, <2>2, <2>3
<1>9. RemoveFirst(s, t) = r
    BY <1>5 DEF RemoveAt
<1> HIDE DEF r
<1>10. Distinct(r)
    BY <1>8, <1>1 DEF Distinct
<1>11. Range(r) = Range(s) \ {t}
    <2>1. ASSUME NEW x \in Range(r) PROVE x \in Range(s) \ {t}
        <3>1. PICK i \in 1 .. Len(r) : r[i] = x
            BY <1>8 DEF Range
        <3> QED BY <3>1, <1>8, <1>1, SMTT(30) DEF Range, Distinct
    <2>2. ASSUME NEW x \in Range(s) \ {t} PROVE x \in Range(r)
        <3>1. PICK i \in 1 .. Len(s) : s[i] = x /\ i # k
            BY <1>1 DEF Range
        <3>2. CASE i < k
            <4>1. i \in 1 .. Len(s) - 1 /\ r[i] = x
                BY <3>1, <3>2, <1>1, <1>8
            <4> QED BY <4>1, <1>8 DEF Range
        <3>3. CASE i > k
            <4>1. i - 1 \in 1 .. Len(s) - 1 /\ ~(i - 1 < k) /\ (i - 1) + 1 = i
                BY <3>1, <3>3, <1>1
            <4>2. r[i - 1] = x
                BY <4>1, <3>1, <1>8
            <4> QED BY <4>1, <4>2, <1>8 DEF Range
        <3> QED BY <3>1, <3>2, <3>3, <1>1
    <2> QED BY <2>1, <2>2
<1> QED BY <1>8, <1>9, <1>10, <1>11

\* WSConnmgr.Subscribe appends a topic that is not in the list.
LEMMA AppendDistinct ==
    ASSUME NEW T, NEW s \in Seq(T), Distinct(s), NEW t \in T, t \notin Range(s)
    PROVE  /\ Append(s, t) \in Seq(T)
           /\ Distinct(Append(s, t))
           /\ Range(Append(s, t)) = Range(s) \cup {t}
<1> DEFINE r == Append(s, t)
<1>1. /\ r \in Seq(T) /\ Len(r) = Len(s) + 1
      /\ \A i \in 1 .. Len(s) : r[i] = s[i]
      /\ r[Len(s) + 1] = t
    BY AppendProperties
<1>2. \A i \in 1 .. Len(s) : s[i] # t
    BY DEF Range
<1> HIDE DEF r
<1>3. Distinct(r)
    BY <1>1, <1>2 DEF Distinct
<1>4. Range(r) = Range(s) \cup {t}
    <2>1. DOMAIN r = 1 .. Len(s) + 1 /\ DOMAIN s = 1 .. Len(s)
        BY <1>1
    <2> QED BY <1>1, <2>1 DEF Range
<1> QED BY <1>1, <1>3, <1>4 DEF r

----------------------------------------------------------------------------
(* The parts of the inductive invariant.                                   *)

\* Where a request is handled topic by topic, a topic is there.
Handling ==
    \A c \in Conns : reader[c] \in {"record", "dispatch", "emit", "fanout"} => todo[c] # <<>>

\* The lists hold no topic twice: the topic that Subscribe has given to the broker
\* and not yet recorded is not in the list either, since only the reader of the
\* connection appends to it.
Unrepeated ==
    \A c \in Conns :
        /\ Distinct(subscriptions[c])
        /\ reader[c] = "record" => Head(todo[c]) \notin Range(subscriptions[c])

\* The topics for which the broker should have a subscription of c.
Held(c) ==
    Range(subscriptions[c]) \cup {t \in Topics : reader[c] = "record" /\ t = Head(todo[c])}

\* The broker has one subscription for each while it is open, and none once
\* it is cleared; in between it keeps what it had.
BrokerHolds ==
    /\ brokerCleared => brokerClosed
    /\ \A c \in Conns, t \in Topics :
          /\ broker[c][t] \in {0, 1}
          /\ ~brokerClosed => broker[c][t] = IF t \in Held(c) THEN 1 ELSE 0
          /\ brokerCleared => broker[c][t] = 0

\* The manager keeps nothing of a connection that Unregister has removed.
Gone ==
    \A c \in Conns : reader[c] \in {"close", "ended"} =>
        c \notin conns /\ subscriptions[c] = <<>>

\* A connection that handleRequest has not registered is unknown.
NewUnknown == \A c \in Conns : reader[c] = "new" => c \notin conns

\* A connection that the last scan did not find dead was then silent for no longer
\* than the timeout, and time stands still until those it found are removed.
Ages ==
    /\ \A c \in conns \ deadConnIDs : age[c] <= Timeout + sinceScan
    /\ \A c \in conns : age[c] <= Timeout + Interval
    /\ deadConnIDs # {} => sinceScan = 0

Inv ==
    /\ TypeOK
    /\ Handling
    /\ Unrepeated
    /\ BrokerHolds
    /\ NewUnknown
    /\ Gone
    /\ DoneClosedOnce
    /\ Ages

----------------------------------------------------------------------------
\* The invariant holds of a new manager.
LEMMA InitInv == Init => Inv
<1> SUFFICES ASSUME Init PROVE Inv
    OBVIOUS
<1>1. TypeOK
    <2>1. 0 \in 0 .. SendBufferSize /\ 0 \in 0 .. Interval
        BY WSAssumption
    <2>2. <<>> \in Seq(Topics)
        OBVIOUS
    <2> QED BY <2>1, <2>2 DEF Init, TypeOK
<1>2. \A c \in Conns : subscriptions[c] = <<>> /\ Range(<<>>) = {} /\ Distinct(<<>>)
    BY DEF Init, Range, Distinct
<1>3. Unrepeated /\ BrokerHolds
    BY <1>2 DEF Init, Unrepeated, BrokerHolds, Held
<1> QED BY <1>1, <1>3
        DEF Init, Inv, Handling, NewUnknown, Gone, DoneClosedOnce, Ages

\* The silence of a connection is bounded through every step: only Tick lets time
\* pass, and it waits for the scan (startDeadConnDetection).
LEMMA NextAges == Inv /\ [Next]_vars => Ages'
<1> SUFFICES ASSUME Inv, [Next]_vars PROVE Ages'
    OBVIOUS
<1>0. /\ Interval \in Nat /\ Interval > 0 /\ Timeout \in Nat
      /\ age \in [Conns -> Nat] /\ sinceScan \in 0 .. Interval
      /\ conns \subseteq Conns /\ deadConnIDs \subseteq Conns
    BY WSAssumption DEF Inv, TypeOK
<1> USE DEF Inv
<1>1. ASSUME NEW c \in Conns, Register(c) PROVE Ages'
    BY <1>0, <1>1 DEF Register, Ages
<1>2. ASSUME NEW c \in Conns, Touch(c), UNCHANGED <<conns, sinceScan, deadConnIDs>>
      PROVE  Ages'
    BY <1>0, <1>2 DEF Touch, Ages
<1>3. ASSUME NEW c \in Conns, ReadLoop(c) PROVE Ages'
    BY <1>2, <1>3 DEF ReadLoop, Receive, ReceiveOther, mgr
<1>4. ASSUME NEW c \in Conns, Unregister(c) PROVE Ages'
    BY <1>4 DEF Unregister, Forget, time, Ages
<1>w. ASSUME NEW c \in Conns,
             \/ ReadEnd(c) \/ Close(c) \/ PingLoop(c) \/ ReapLock(c)
             \/ \E who \in Senders : LockWrite(c, who)
      PROVE  UNCHANGED <<conns, age, sinceScan, deadConnIDs>>
    BY <1>w DEF ReadEnd, Close, PingLoop, PingStart, PingEnd, PingClear, PingerDone,
        ReapLock, LockWrite, mgr, time
<1>5. ASSUME NEW c \in Conns, Handle(c) \/ WriteLoop(c)
      PROVE  UNCHANGED <<conns, age, sinceScan, deadConnIDs>>
    BY <1>5 DEF Handle, WriteLoop, SkipSubscribed, RefuseSubscribe, BrokerSubscribe,
        RecordSubscription, UnsubscribeTopic, UnsubscribeEnd, CheckPublish, RefusePublish,
        Dispatch, BrokerPublish, PublishEnd, CallHandler, Ack, WriteStart, WriteEnd,
        WriterDone, mgr, time
<1>6. ASSUME NEW c \in Conns, Reap(c) PROVE Ages'
    BY <1>0, <1>6 DEF Reap, Forget, Ages
<1>7. CASE Tick
    BY <1>0, <1>7 DEF Tick, mgr, Ages
<1>8. CASE Scan
    BY <1>0, <1>8 DEF Scan, mgr, Ages
<1>9. ASSUME CloseBroker \/ ClearBroker \/ UNCHANGED vars
      PROVE  UNCHANGED <<conns, age, sinceScan, deadConnIDs>>
    BY <1>9 DEF CloseBroker, ClearBroker, mgr, time, vars
<1>10. UNCHANGED <<conns, age, sinceScan, deadConnIDs>> => Ages'
    BY DEF Ages
<1> QED BY <1>1, <1>3, <1>4, <1>w, <1>5, <1>6, <1>7, <1>8, <1>9, <1>10 DEF Next

\* A Register comes first, and what closes the done channel of a connection also
\* takes it out of conns.
LEMMA NextDone == Inv /\ [Next]_vars => NewUnknown' /\ DoneClosedOnce'
<1> SUFFICES ASSUME Inv, [Next]_vars PROVE NewUnknown' /\ DoneClosedOnce'
    OBVIOUS
<1>0. /\ done \in [Conns -> Nat] /\ conns \subseteq Conns
      /\ DOMAIN reader = Conns
    BY DEF Inv, TypeOK
<1> USE DEF Inv, NewUnknown, DoneClosedOnce
<1>1. ASSUME NEW c \in Conns, Register(c) PROVE NewUnknown' /\ DoneClosedOnce'
    BY <1>0, <1>1 DEF Register, Goto
<1>2. ASSUME NEW c \in Conns, Unregister(c) PROVE NewUnknown' /\ DoneClosedOnce'
    BY <1>0, <1>2 DEF Unregister, Forget, Goto
<1>3. ASSUME NEW c \in Conns, Reap(c) PROVE NewUnknown' /\ DoneClosedOnce'
    BY <1>0, <1>3 DEF Reap, Forget, reading
<1> DEFINE quiet ==
        /\ UNCHANGED <<conns, done>>
        /\ \A d \in Conns : reader'[d] = "new" <=> reader[d] = "new"
<1>4. ASSUME NEW c \in Conns, ReadLoop(c) PROVE quiet
    BY <1>0, <1>4 DEF ReadLoop, Receive, ReceiveOther, Goto, mgr, reading
<1>5. ASSUME NEW c \in Conns,
             \/ SkipSubscribed(c) \/ BrokerSubscribe(c) \/ RecordSubscription(c)
             \/ \E answered \in BOOLEAN : RefuseSubscribe(c, answered)
             \/ UnsubscribeTopic(c) \/ UnsubscribeEnd(c)
      PROVE  quiet
    BY <1>0, <1>5 DEF SkipSubscribed, RefuseSubscribe, BrokerSubscribe, RecordSubscription,
        UnsubscribeTopic, UnsubscribeEnd, NextTopic, Return, Goto, mgr
<1>6. ASSUME NEW c \in Conns,
             \/ CheckPublish(c) \/ RefusePublish(c)
             \/ \E ok, answered \in BOOLEAN : Dispatch(c, ok, answered)
             \/ BrokerPublish(c) \/ PublishEnd(c)
             \/ \E e \in fanout[c] : CallHandler(c, e)
             \/ Ack(c)
      PROVE  quiet
    BY <1>0, <1>6 DEF CheckPublish, RefusePublish, Dispatch, BrokerPublish, PublishEnd,
        CallHandler, Ack, NextTopic, Return, Goto, mgr
<1>7. ASSUME NEW c \in Conns, WriteLoop(c) \/ PingLoop(c) PROVE quiet
    BY <1>7 DEF WriteLoop, WriteStart, WriteEnd, WriterDone, PingLoop, PingStart, PingEnd,
        PingClear, PingerDone, mgr, reading
<1>w. ASSUME NEW c \in Conns, ReadEnd(c) \/ Close(c) PROVE quiet
    BY <1>0, <1>w DEF ReadEnd, Close, Goto, mgr
<1>l. ASSUME NEW c \in Conns, ReapLock(c) \/ \E who \in Senders : LockWrite(c, who)
      PROVE  quiet
    BY <1>l DEF ReapLock, LockWrite, mgr, reading
<1>8. ASSUME Tick \/ Scan \/ CloseBroker \/ ClearBroker \/ UNCHANGED vars PROVE quiet
    BY <1>8 DEF Tick, Scan, CloseBroker, ClearBroker, vars, mgr, reading
<1>9. quiet => NewUnknown' /\ DoneClosedOnce'
    OBVIOUS
<1> HIDE DEF quiet
<1> QED BY <1>1, <1>2, <1>3, <1>4, <1>5, <1>6, <1>7, <1>w, <1>l, <1>8, <1>9 DEF Next, Handle

\* Unregister and the scan leave the broker the one subscription that a Subscribe
\* under way has made and not recorded.
LEMMA ForgetLeaves ==
    ASSUME TypeOK, Unrepeated, BrokerHolds, NEW c \in Conns, Forget(c)
    PROVE  /\ subscriptions' = [subscriptions EXCEPT ![c] = <<>>]
           /\ \A d \in Conns \ {c} : broker'[d] = broker[d]
           /\ brokerClosed => broker' = broker
           /\ ~brokerClosed => \A t \in Topics :
                broker'[c][t] = IF reader[c] = "record" /\ t = Head(todo[c]) THEN 1 ELSE 0
<1>0. /\ subscriptions \in [Conns -> Seq(Topics)]
      /\ broker \in [Conns -> [Topics -> Nat]]
    BY DEF TypeOK
<1>1. subscriptions' = [subscriptions EXCEPT ![c] = <<>>]
    BY DEF Forget
<1>2. CASE brokerClosed
    <2>1. broker' = broker
        BY <1>2 DEF Forget, UnsubscribeAll
    <2> QED BY <1>1, <1>2, <2>1
<1>3. CASE ~brokerClosed
    <2>1. broker' = [broker EXCEPT ![c] =
                        [t \in Topics |-> broker[c][t] - Count(t, subscriptions[c])]]
        BY <1>3 DEF Forget, UnsubscribeAll
    <2>2. ASSUME NEW t \in Topics
          PROVE  broker'[c][t] = IF reader[c] = "record" /\ t = Head(todo[c]) THEN 1 ELSE 0
        <3>1. broker'[c][t] = broker[c][t] - Count(t, subscriptions[c])
            BY <1>0, <2>1
        <3>2. Count(t, subscriptions[c]) = IF t \in Range(subscriptions[c]) THEN 1 ELSE 0
            BY <1>0, CountDistinct DEF Unrepeated
        <3>3. broker[c][t] = IF t \in Held(c) THEN 1 ELSE 0
            BY <1>3 DEF BrokerHolds
        <3>4. t \in Held(c) <=> \/ t \in Range(subscriptions[c])
                                \/ reader[c] = "record" /\ t = Head(todo[c])
            BY DEF Held
        <3>5. ~(t \in Range(subscriptions[c]) /\ reader[c] = "record" /\ t = Head(todo[c]))
            BY DEF Unrepeated
        <3> QED BY <3>1, <3>2, <3>3, <3>4, <3>5
    <2>3. \A d \in Conns \ {c} : broker'[d] = broker[d]
        BY <1>0, <2>1
    <2> QED BY <1>1, <1>3, <2>2, <2>3
<1> QED BY <1>2, <1>3

\* An empty list has no topic.
LEMMA EmptyList == Range(<<>>) = {} /\ Distinct(<<>>)
BY DEF Range, Distinct

\* The lists and the broker agree through every step, in particular through a scan
\* that removes a connection in the middle of its Subscribe.
LEMMA NextLists == Inv /\ [Next]_vars => Unrepeated' /\ BrokerHolds' /\ Gone'
<1> SUFFICES ASSUME Inv, [Next]_vars PROVE Unrepeated' /\ BrokerHolds' /\ Gone'
    OBVIOUS
<1>0. /\ subscriptions \in [Conns -> Seq(Topics)]
      /\ broker \in [Conns -> [Topics -> Nat]]
      /\ todo \in [Conns -> Seq(Topics)]
      /\ DOMAIN reader = Conns
    BY DEF Inv, TypeOK
<1>i. Unrepeated /\ BrokerHolds /\ Gone /\ TypeOK
    BY DEF Inv
<1>1. ASSUME NEW c \in Conns, BrokerSubscribe(c)
      PROVE  Unrepeated' /\ BrokerHolds' /\ Gone'
    <2> DEFINE h == Head(todo[c])
    <2>1. /\ h \in Topics /\ h \notin Range(subscriptions[c])
          /\ reader[c] = "subscribe" /\ ~brokerClosed
          /\ UNCHANGED <<subscriptions, conns, todo, brokerClosed, brokerCleared>>
          /\ reader' = [reader EXCEPT ![c] = "record"]
          /\ broker' = [broker EXCEPT ![c][h] = @ + 1]
        BY <1>0, <1>1 DEF BrokerSubscribe, IsSubscribed, Goto, mgr
    <2> HIDE DEF h
    <2>2. Unrepeated'
        BY <1>0, <1>i, <2>1 DEF Unrepeated, h
    <2>3. /\ \A d \in Conns \ {c} : Held(d)' = Held(d)
          /\ Held(c)' = Held(c) \cup {h}
          /\ h \notin Held(c)
        BY <1>0, <2>1 DEF Held, h
    <2>4. /\ \A d \in Conns \ {c} : broker'[d] = broker[d]
          /\ \A t \in Topics \ {h} : broker'[c][t] = broker[c][t]
          /\ broker'[c][h] = broker[c][h] + 1
        BY <1>0, <2>1
    <2>5. BrokerHolds'
        BY <1>i, <2>1, <2>3, <2>4 DEF BrokerHolds
    <2>6. Gone'
        BY <1>0, <1>i, <2>1, <2>4 DEF Gone
    <2> QED BY <2>2, <2>5, <2>6
<1>2. ASSUME NEW c \in Conns, RecordSubscription(c)
      PROVE  Unrepeated' /\ BrokerHolds' /\ Gone'
    <2> DEFINE h == Head(todo[c])
    <2>1. /\ reader[c] = "record"
          /\ subscriptions' = [subscriptions EXCEPT ![c] = Append(@, h)]
          /\ UNCHANGED <<conns, broker, brokerClosed, brokerCleared>>
          /\ reader' = [reader EXCEPT ![c] = "subscribe"]
          /\ todo' = [todo EXCEPT ![c] = Tail(@)]
        BY <1>2 DEF RecordSubscription, NextTopic, Goto, bus
    <2>2. h \in Topics /\ h \notin Range(subscriptions[c])
        BY <1>0, <1>i, <2>1 DEF Inv, Handling, Unrepeated
    <2> HIDE DEF h
    <2>3. /\ Distinct(Append(subscriptions[c], h))
          /\ Range(Append(subscriptions[c], h)) = Range(subscriptions[c]) \cup {h}
        BY <1>0, <1>i, <2>2, AppendDistinct DEF Unrepeated
    <2>4. Unrepeated'
        BY <1>0, <1>i, <2>1, <2>3 DEF Unrepeated
    <2>5. Held(c)' = Held(c) /\ \A d \in Conns \ {c} : Held(d)' = Held(d)
        BY <1>0, <2>1, <2>2, <2>3 DEF Held, h
    <2>6. BrokerHolds'
        BY <1>i, <2>1, <2>5 DEF BrokerHolds
    <2>7. Gone'
        BY <1>0, <1>i, <2>1 DEF Gone
    <2> QED BY <2>4, <2>6, <2>7
<1> DEFINE quiet ==
        /\ UNCHANGED <<subscriptions, broker, brokerClosed, brokerCleared>>
        /\ \A d \in Conns :
              /\ reader'[d] = "record" <=> reader[d] = "record"
              /\ reader[d] = "record" => todo'[d] = todo[d]
              /\ reader'[d] \in {"close", "ended"} =>
                    reader[d] \in {"close", "ended"} /\ (d \in conns' => d \in conns)
<1>3. quiet => Unrepeated' /\ BrokerHolds' /\ Gone'
    <2> SUFFICES ASSUME quiet PROVE Unrepeated' /\ BrokerHolds' /\ Gone'
        OBVIOUS
    <2>1. Unrepeated'
        BY <1>i DEF Unrepeated
    <2>2. \A d \in Conns : Held(d)' = Held(d)
        BY DEF Held
    <2>3. BrokerHolds'
        BY <1>i, <2>2 DEF BrokerHolds
    <2>4. Gone'
        BY <1>i DEF Gone
    <2> QED BY <2>1, <2>3, <2>4
<1>4. ASSUME NEW c \in Conns, UnsubscribeTopic(c)
      PROVE  Unrepeated' /\ BrokerHolds' /\ Gone'
    <2> DEFINE h == Head(todo[c])
    <2>0. /\ reader[c] = "unsubscribe" /\ h \in Topics
          /\ UNCHANGED <<conns, brokerClosed, brokerCleared>>
        BY <1>0, <1>4 DEF UnsubscribeTopic
    <2>1. CASE ~IsSubscribed(c, h) \/ brokerClosed
        <3>1. quiet
            BY <1>0, <1>4, <2>0, <2>1 DEF UnsubscribeTopic, NextTopic, Return, Goto
        <3> QED BY <3>1, <1>3
    <2>2. CASE IsSubscribed(c, h) /\ ~brokerClosed
        <3>1. /\ broker' = [broker EXCEPT ![c][h] = @ - 1]
              /\ subscriptions' = [subscriptions EXCEPT ![c] = RemoveFirst(@, h)]
              /\ reader' = [reader EXCEPT ![c] = "unsubscribe"]
              /\ todo' = [todo EXCEPT ![c] = Tail(@)]
            BY <1>4, <2>2 DEF UnsubscribeTopic, NextTopic, Goto
        <3>2. h \in Range(subscriptions[c])
            BY <2>2 DEF IsSubscribed
        <3> HIDE DEF h
        <3>3. /\ Distinct(RemoveFirst(subscriptions[c], h))
              /\ Range(RemoveFirst(subscriptions[c], h)) = Range(subscriptions[c]) \ {h}
            BY <1>0, <1>i, <3>2, RemoveDistinct DEF Unrepeated
        <3>4. Unrepeated'
            BY <1>0, <1>i, <2>0, <3>1, <3>3 DEF Unrepeated
        <3>5. /\ Held(c)' = Held(c) \ {h} /\ h \in Held(c)
              /\ \A d \in Conns \ {c} : Held(d)' = Held(d)
            BY <1>0, <2>0, <3>1, <3>2, <3>3 DEF Held
        <3>6. /\ \A d \in Conns \ {c} : broker'[d] = broker[d]
              /\ \A t \in Topics \ {h} : broker'[c][t] = broker[c][t]
              /\ broker'[c][h] = broker[c][h] - 1
            BY <1>0, <2>0, <3>1
        <3>7. BrokerHolds'
            BY <1>i, <2>0, <2>2, <3>5, <3>6 DEF BrokerHolds
        <3>8. Gone'
            BY <1>0, <1>i, <2>0, <3>1, <3>6 DEF Gone
        <3> QED BY <3>4, <3>7, <3>8
    <2> QED BY <2>1, <2>2
<1>5. ASSUME NEW c \in Conns, Forget(c), UNCHANGED <<brokerClosed, brokerCleared, todo>>,
             \/ reader' = reader
             \/ reader[c] = "leave" /\ reader' = [reader EXCEPT ![c] = "close"]
      PROVE  Unrepeated' /\ BrokerHolds' /\ Gone'
    <2>1. /\ subscriptions' = [subscriptions EXCEPT ![c] = <<>>]
          /\ \A d \in Conns \ {c} : broker'[d] = broker[d]
          /\ brokerClosed => broker' = broker
          /\ ~brokerClosed => \A t \in Topics :
                broker'[c][t] = IF reader[c] = "record" /\ t = Head(todo[c]) THEN 1 ELSE 0
        BY <1>5, <1>i, ForgetLeaves
    <2>2. conns' = conns \ {c}
        BY <1>5 DEF Forget
    <2>3. \A d \in Conns : reader'[d] = "record" <=> reader[d] = "record"
        BY <1>0, <1>5
    <2>4. Unrepeated'
        BY <1>0, <1>i, <1>5, <2>1, <2>3, EmptyList DEF Unrepeated
    <2>5. /\ Held(c)' = {t \in Topics : reader[c] = "record" /\ t = Head(todo[c])}
          /\ \A d \in Conns \ {c} : Held(d)' = Held(d)
        BY <1>0, <1>5, <2>1, <2>3, EmptyList DEF Held
    <2>6. BrokerHolds'
        <3>1. CASE brokerClosed
            BY <1>i, <1>5, <2>1, <3>1 DEF BrokerHolds
        <3>2. CASE ~brokerClosed
            BY <1>i, <1>5, <2>1, <2>5, <3>2 DEF BrokerHolds
        <3> QED BY <3>1, <3>2
    <2>7. Gone'
        <3>1. c \notin conns' /\ subscriptions'[c] = <<>>
            BY <1>0, <2>1, <2>2
        <3>2. \A d \in Conns \ {c} : /\ reader'[d] = reader[d]
                                    /\ subscriptions'[d] = subscriptions[d]
            BY <1>0, <1>5, <2>1
        <3> QED BY <1>i, <2>2, <3>1, <3>2 DEF Gone
    <2> QED BY <2>4, <2>6, <2>7
<1>6. ASSUME NEW c \in Conns, Unregister(c) \/ Reap(c)
      PROVE  Unrepeated' /\ BrokerHolds' /\ Gone'
    BY <1>5, <1>6 DEF Unregister, Reap, Goto, reading
<1>7. CASE CloseBroker \/ ClearBroker
    <2>1. /\ UNCHANGED <<subscriptions, conns, reader, todo>> /\ brokerClosed'
          /\ \/ UNCHANGED <<broker, brokerCleared>>
             \/ brokerCleared' /\ \A d \in Conns, t \in Topics : broker'[d][t] = 0
        BY <1>7 DEF CloseBroker, ClearBroker, mgr, reading
    <2> QED BY <1>i, <2>1 DEF Unrepeated, BrokerHolds, Gone
<1>8. ASSUME NEW c \in Conns, Register(c) \/ ReadLoop(c) PROVE quiet
    BY <1>0, <1>8 DEF Register, ReadLoop, Receive, ReceiveOther, Goto, mgr, bus, reading
<1>9. ASSUME NEW c \in Conns,
             \/ SkipSubscribed(c) \/ UnsubscribeEnd(c)
             \/ \E answered \in BOOLEAN : RefuseSubscribe(c, answered)
             \/ CheckPublish(c) \/ RefusePublish(c)
             \/ \E ok, answered \in BOOLEAN : Dispatch(c, ok, answered)
             \/ BrokerPublish(c) \/ PublishEnd(c)
             \/ \E e \in fanout[c] : CallHandler(c, e)
             \/ Ack(c)
      PROVE  quiet
    BY <1>0, <1>9 DEF SkipSubscribed, RefuseSubscribe, UnsubscribeEnd, CheckPublish,
        RefusePublish, Dispatch, BrokerPublish, PublishEnd, CallHandler, Ack, NextTopic,
        Return, Goto, mgr, bus
<1>10. ASSUME NEW c \in Conns, WriteLoop(c) \/ PingLoop(c) PROVE quiet
    BY <1>10 DEF WriteLoop, WriteStart, WriteEnd, WriterDone, PingLoop, PingStart, PingEnd,
        PingClear, PingerDone, mgr, bus, reading
<1>w. ASSUME NEW c \in Conns, ReadEnd(c) PROVE quiet
    BY <1>0, <1>w DEF ReadEnd, Goto, mgr, bus
<1>v. ASSUME NEW c \in Conns, Close(c) PROVE quiet
    BY <1>0, <1>v DEF Close, Goto, mgr, bus
<1>l. ASSUME NEW c \in Conns, ReapLock(c) \/ \E who \in Senders : LockWrite(c, who)
      PROVE  quiet
    BY <1>l DEF ReapLock, LockWrite, mgr, bus, reading
<1>11. ASSUME Tick \/ Scan \/ UNCHANGED vars PROVE quiet
    BY <1>11 DEF Tick, Scan, vars, mgr, bus, reading
<1> HIDE DEF quiet
<1> QED BY <1>1, <1>2, <1>3, <1>4, <1>6, <1>7, <1>8, <1>9, <1>10, <1>w, <1>v, <1>l,
        <1>11 DEF Next, Handle

\* Types through every step.  What the actions do to the numbers of the broker is
\* integer arithmetic; BrokerHolds says that the result is never negative.
LEMMA NextTypes == Inv /\ [Next]_vars => TypeOK' /\ Handling'
<1> SUFFICES ASSUME Inv, [Next]_vars PROVE TypeOK' /\ Handling'
    OBVIOUS
<1> DEFINE Steps == {"new", "read", "subscribe", "record", "unsubscribe",
                     "publish", "dispatch", "emit", "fanout", "leave", "close", "ended"}
           Buffer == 0 .. SendBufferSize
           Handlers == SUBSET (Conns \X Topics)
           Counts == [Topics -> Int]
           Queue == Seq(Topics)
           Readers(r, q) ==
               /\ r \in [Conns -> Steps] /\ q \in [Conns -> Queue]
               /\ \A c \in Conns :
                     r[c] \in {"record", "dispatch", "emit", "fanout"} => q[c] # <<>>
           Manager(m, s) == m \subseteq Conns /\ s \in [Conns -> Queue]
           Bus(b) == b \in [Conns -> Counts]
           Fan(f) == f \in [Conns -> Handlers]
           Writers(s, w) == s \in [Conns -> Buffer] /\ w \in [Conns -> {"new", "run", "send", "exit"}]
           Wire(p, l, d, s) ==
               /\ p \in [Conns -> {"new", "run", "ping", "clear", "exit"}]
               /\ l \in [Conns -> Senders \cup {"free"}] /\ d \in [Conns -> BOOLEAN]
               /\ s \in [Conns -> {"open", "closed"}]
           Ends(d) == d \in [Conns -> Nat]
           Closes(x, y) == x \in BOOLEAN /\ y \in BOOLEAN
           Times(a, s, d) ==
               /\ a \in [Conns -> Nat] /\ s \in 0 .. Interval /\ d \subseteq Conns
           Good ==
               /\ Readers(reader', todo') /\ Manager(conns', subscriptions')
               /\ Bus(broker') /\ Closes(brokerClosed', brokerCleared') /\ Fan(fanout')
               /\ Writers(send', writer') /\ Ends(done')
               /\ Wire(pinger', writeLock', deadline', socket')
               /\ Times(age', sinceScan', deadConnIDs') /\ reaping' \subseteq Conns
<1>c. /\ SendBufferSize \in Nat /\ Interval \in Nat /\ Requests \subseteq Queue
    BY WSAssumption
<1>0. /\ Readers(reader, todo) /\ Manager(conns, subscriptions)
      /\ Bus(broker) /\ Closes(brokerClosed, brokerCleared) /\ Fan(fanout)
      /\ Writers(send, writer) /\ Ends(done)
      /\ Wire(pinger, writeLock, deadline, socket)
      /\ Times(age, sinceScan, deadConnIDs) /\ reaping \subseteq Conns
    BY DEF Inv, TypeOK, Handling
<1>n. ASSUME NEW c \in Conns, NEW t \in Topics PROVE broker'[c][t] \in Nat
    <2>1. BrokerHolds'
        BY NextLists
    <2>2. broker'[c][t] = 0 \/ broker'[c][t] = 1
        BY <2>1 DEF BrokerHolds
    <2> QED BY <2>2
<1>g. Good => TypeOK' /\ Handling'
    <2> SUFFICES ASSUME Good PROVE TypeOK' /\ Handling'
        OBVIOUS
    <2>1. broker' \in [Conns -> [Topics -> Nat]]
        BY <1>n
    <2> QED BY <2>1 DEF TypeOK, Handling
<1>s. ASSUME NEW c \in Conns, TrySend(c) PROVE send' \in [Conns -> Buffer]
    BY <1>0, <1>c, <1>s DEF TrySend
<1>q. \A q \in Queue : q # <<>> => Head(q) \in Topics /\ Tail(q) \in Queue
    OBVIOUS
<1>e. <<>> \in Queue
    OBVIOUS
<1> HIDE DEF Queue, Buffer, Handlers, Counts
<1>r. ASSUME NEW c \in Conns, Return(c) PROVE Readers(reader', todo')
    BY <1>0, <1>e, <1>r DEF Return, Goto
<1>h. ASSUME NEW c \in Conns, NEW where \in Steps, Goto(c, where), UNCHANGED todo,
             where \in {"record", "dispatch", "emit", "fanout"} => todo[c] # <<>>
      PROVE  Readers(reader', todo')
    BY <1>0, <1>h DEF Goto
<1>1. ASSUME NEW c \in Conns, Register(c) PROVE Good
    BY <1>0, <1>1 DEF Register, Goto, bus
<1>2. ASSUME NEW c \in Conns, NEW h \in {"subscribe", "unsubscribe", "publish"},
             NEW topics \in Requests, Receive(c, h, topics)
      PROVE  Good
    BY <1>0, <1>c, <1>2 DEF Receive, Touch, Goto, mgr, bus, writing, wire
<1>3. ASSUME NEW c \in Conns, NEW answered \in BOOLEAN, ReceiveOther(c, answered) PROVE Good
    BY <1>0, <1>s, <1>3 DEF ReceiveOther, Touch, mgr, bus, reading, wire
<1>4. ASSUME NEW c \in Conns, Forget(c)
      PROVE  /\ Manager(conns', subscriptions') /\ Bus(broker')
             /\ done' \in [Conns -> Nat]
    <2>1. \A t \in Topics : Count(t, subscriptions[c]) \in Int
        BY CountDistinct DEF Inv, TypeOK, Unrepeated
    <2>2. Bus(broker')
        BY <1>0, <1>4, <2>1 DEF Forget, UnsubscribeAll, Counts
    <2>3. subscriptions' \in [Conns -> Queue]
        BY <1>0, <1>e, <1>4 DEF Forget
    <2>4. done' \in [Conns -> Nat] /\ conns' \subseteq Conns
        BY <1>0, <1>4 DEF Forget
    <2> QED BY <2>2, <2>3, <2>4
<1>5. ASSUME NEW c \in Conns, Unregister(c) PROVE Good
    BY <1>0, <1>4, <1>5 DEF Unregister, Goto, writing, wire, time
<1>6. ASSUME NEW c \in Conns, Reap(c) PROVE Good
    <2>1. Wire(pinger', writeLock', deadline', socket')
        BY <1>0, <1>6 DEF Reap, Senders
    <2> QED BY <1>0, <1>4, <1>6, <2>1 DEF Reap, reading, writing
<1>7. ASSUME NEW c \in Conns, SkipSubscribed(c) PROVE Good
    BY <1>0, <1>q, <1>7 DEF SkipSubscribed, NextTopic, Goto, mgr, bus, writing, wire, time
<1>8. ASSUME NEW c \in Conns, NEW answered \in BOOLEAN, RefuseSubscribe(c, answered) PROVE Good
    BY <1>0, <1>s, <1>e, <1>8 DEF RefuseSubscribe, Return, Goto, mgr, bus, wire, time
<1>9. ASSUME NEW c \in Conns, BrokerSubscribe(c) PROVE Good
    <2>1. Bus(broker')
        BY <1>0, <1>q, <1>9 DEF BrokerSubscribe, Counts
    <2> QED BY <1>0, <1>9, <2>1 DEF BrokerSubscribe, Goto, mgr, writing, wire, time
<1>10. ASSUME NEW c \in Conns, RecordSubscription(c) PROVE Good
    <2>1. Head(todo[c]) \in Topics /\ Tail(todo[c]) \in Queue
        BY <1>0, <1>q, <1>10 DEF RecordSubscription
    <2>2. Append(subscriptions[c], Head(todo[c])) \in Queue
        BY <1>0, <2>1, AppendProperties DEF Queue
    <2> QED BY <1>0, <1>10, <2>1, <2>2 DEF RecordSubscription, NextTopic, Goto, bus, writing, wire, time
<1>11. ASSUME NEW c \in Conns, UnsubscribeTopic(c) PROVE Good
    <2> DEFINE h == Head(todo[c])
    <2>1. h \in Topics /\ Tail(todo[c]) \in Queue
        BY <1>0, <1>q, <1>11 DEF UnsubscribeTopic
    <2>2. IsSubscribed(c, h) => RemoveFirst(subscriptions[c], h) \in Queue
        BY RemoveDistinct DEF IsSubscribed, Inv, TypeOK, Unrepeated, Queue
    <2>3. UNCHANGED broker \/ broker' = [broker EXCEPT ![c][h] = @ - 1]
        BY <1>11 DEF UnsubscribeTopic
    <2>4. \/ UNCHANGED subscriptions
          \/ /\ IsSubscribed(c, h)
             /\ subscriptions' = [subscriptions EXCEPT ![c] = RemoveFirst(@, h)]
        BY <1>11 DEF UnsubscribeTopic
    <2>5. /\ \/ reader' = [reader EXCEPT ![c] = "unsubscribe"]
             \/ reader' = [reader EXCEPT ![c] = "read"]
          /\ \/ todo' = [todo EXCEPT ![c] = Tail(@)]
             \/ todo' = [todo EXCEPT ![c] = <<>>]
        BY <1>11 DEF UnsubscribeTopic, NextTopic, Return, Goto
    <2>6. /\ UNCHANGED send \/ TrySend(c)
          /\ UNCHANGED <<conns, brokerClosed, brokerCleared, fanout, writer, done, wire, time, reaping>>
        BY <1>11 DEF UnsubscribeTopic
    <2> HIDE DEF h
    <2>7. Bus(broker')
        <3>1. CASE UNCHANGED broker
            BY <1>0, <3>1
        <3>2. CASE broker' = [broker EXCEPT ![c][h] = @ - 1]
            BY <1>0, <2>1, <3>2 DEF Counts
        <3> QED BY <2>3, <3>1, <3>2
    <2>8. subscriptions' \in [Conns -> Queue]
        BY <1>0, <2>2, <2>4
    <2>9. Readers(reader', todo')
        <3>1. \/ todo' = [todo EXCEPT ![c] = Tail(todo[c])]
              \/ todo' = [todo EXCEPT ![c] = <<>>]
            BY <2>5
        <3>2. todo' \in [Conns -> Queue] /\ \A d \in Conns \ {c} : todo'[d] = todo[d]
            BY <1>0, <1>e, <2>1, <3>1, ZenonT(60)
        <3>3. /\ reader' \in [Conns -> Steps]
              /\ reader'[c] \in {"unsubscribe", "read"}
              /\ \A d \in Conns \ {c} : reader'[d] = reader[d]
            BY <1>0, <2>5
        <3> QED BY <1>0, <3>2, <3>3
    <2> QED BY <1>0, <1>s, <2>6, <2>7, <2>8, <2>9 DEF wire, time
<1>12. ASSUME NEW c \in Conns, UnsubscribeEnd(c) \/ CheckPublish(c) PROVE Good
    BY <1>0, <1>12 DEF UnsubscribeEnd, CheckPublish, Goto, mgr, bus, writing, wire, time
<1>13. ASSUME NEW c \in Conns, RefusePublish(c) PROVE Good
    BY <1>0, <1>s, <1>e, <1>13 DEF RefusePublish, Return, Goto, mgr, bus, wire, time
<1>14. ASSUME NEW c \in Conns, NEW ok \in BOOLEAN, NEW answered \in BOOLEAN,
              Dispatch(c, ok, answered)
       PROVE  Good
    <2>1. CASE ok
        BY <1>0, <1>s, <1>14, <2>1 DEF Dispatch, Goto, mgr, bus, wire, time
    <2>2. CASE ~ok
        BY <1>0, <1>s, <1>r, <1>14, <2>2 DEF Dispatch, mgr, bus, wire, time
    <2> QED BY <2>1, <2>2
<1>15. ASSUME NEW c \in Conns, BrokerPublish(c) PROVE Good
    <2>1. \A t : Reached(t) \in Handlers
        BY DEF Reached, Handlers
    <2>2. CASE brokerClosed
        BY <1>0, <1>s, <1>r, <1>15, <2>2 DEF BrokerPublish, mgr, bus, wire, time
    <2>3. CASE ~brokerClosed
        <3>1. /\ reader[c] = "emit" /\ todo[c] # <<>>
              /\ Goto(c, "fanout") /\ UNCHANGED <<todo, send>>
            BY <1>0, <1>15, <2>3 DEF BrokerPublish
        <3>2. Readers(reader', todo')
            BY <1>h, <3>1
        <3>3. Fan(fanout')
            <4>1. fanout' = [fanout EXCEPT ![c] = Reached(Head(todo[c]))]
                BY <1>15, <2>3 DEF BrokerPublish
            <4> QED BY <1>0, <2>1, <4>1, Zenon
        <3> QED BY <1>0, <1>15, <2>3, <3>1, <3>2, <3>3 DEF BrokerPublish, mgr, bus, wire, time
    <2> QED BY <2>2, <2>3
<1>16. ASSUME NEW c \in Conns, NEW e \in fanout[c], CallHandler(c, e) PROVE Good
    <2>1. e[1] \in Conns /\ fanout[c] \ {e} \in Handlers
        BY <1>0, <1>16 DEF Handlers
    <2> QED BY <1>0, <1>s, <1>16, <2>1 DEF CallHandler, mgr, bus, wire, time
<1>17. ASSUME NEW c \in Conns, PublishEnd(c) PROVE Good
    BY <1>0, <1>q, <1>17 DEF PublishEnd, NextTopic, Goto, mgr, bus, writing, wire, time
<1>18. ASSUME NEW c \in Conns, Ack(c) PROVE Good
    BY <1>0, <1>s, <1>18 DEF Ack, Goto, mgr, bus, wire, time
<1>19. ASSUME NEW c \in Conns, WriteStart(c) \/ WriterDone(c) PROVE Good
    <2>1. send' \in [Conns -> Buffer]
        <3>1. CASE WriteStart(c)
            BY <1>0, <1>c, <3>1 DEF WriteStart, Buffer
        <3>2. CASE WriterDone(c)
            BY <1>0, <3>2 DEF WriterDone
        <3> QED BY <1>19, <3>1, <3>2
    <2> QED BY <1>0, <1>19, <2>1 DEF WriteStart, WriterDone, mgr, bus, reading, wire, time
<1>20. ASSUME NEW c \in Conns, NEW ok \in BOOLEAN, WriteEnd(c, ok) PROVE Good
    BY <1>0, <1>20 DEF WriteEnd, mgr, bus, reading, time
<1>p. ASSUME NEW c \in Conns, PingStart(c) \/ PingClear(c) \/ PingerDone(c) PROVE Good
    <2>1. pinger' \in [Conns -> {"new", "run", "ping", "clear", "exit"}]
        <3>1. PICK v \in {"ping", "run", "exit"} : pinger' = [pinger EXCEPT ![c] = v]
            BY <1>p DEF PingStart, PingClear, PingerDone
        <3> QED BY <1>0, <3>1
    <2>2. deadline' \in [Conns -> BOOLEAN]
        BY <1>0, <1>p, Zenon DEF PingStart, PingClear, PingerDone
    <2> QED BY <1>0, <1>p, <2>1, <2>2
            DEF PingStart, PingClear, PingerDone, mgr, bus, reading, writing, time
<1>pe. ASSUME NEW c \in Conns, NEW ok \in BOOLEAN, PingEnd(c, ok) PROVE Good
    BY <1>0, <1>pe DEF PingEnd, mgr, bus, reading, writing, time
<1>l. ASSUME NEW c \in Conns, NEW who \in Senders, LockWrite(c, who) PROVE Good
    BY <1>0, <1>l DEF LockWrite, mgr, bus, reading, writing, time
<1>rl. ASSUME NEW c \in Conns, ReapLock(c) PROVE Good
    BY <1>0, <1>rl DEF ReapLock, mgr, bus, reading, writing, wire, time
<1>re. ASSUME NEW c \in Conns, ReadEnd(c) PROVE Good
    BY <1>0, <1>re DEF ReadEnd, Goto, mgr, bus, writing, wire, time
<1>cl. ASSUME NEW c \in Conns, Close(c) PROVE Good
    BY <1>0, <1>cl DEF Close, Goto, mgr, bus, writing, time
<1>21. ASSUME Tick PROVE Good
    BY <1>0, <1>c, <1>21 DEF Tick, mgr, bus, reading, writing, wire
<1>22. ASSUME Scan PROVE Good
    BY <1>0, <1>c, <1>22 DEF Scan, mgr, bus, reading, writing, wire
<1>23. ASSUME CloseBroker \/ ClearBroker PROVE Good
    <2>1. Bus(broker')
        <3>1. CASE CloseBroker
            BY <1>0, <3>1 DEF CloseBroker
        <3>2. CASE ClearBroker
            BY <3>2 DEF ClearBroker, Counts
        <3> QED BY <1>23, <3>1, <3>2
    <2>2. Closes(brokerClosed', brokerCleared')
        BY <1>0, <1>23, Zenon DEF CloseBroker, ClearBroker
    <2> QED BY <1>0, <1>23, <2>1, <2>2
            DEF CloseBroker, ClearBroker, mgr, reading, writing, wire, time
<1>24. ASSUME UNCHANGED vars PROVE Good
    BY <1>0, <1>24 DEF vars, mgr, bus, reading, writing, wire, time
<1> HIDE DEF Good
<1> QED BY <1>g, <1>1, <1>2, <1>3, <1>5, <1>6, <1>7, <1>8, <1>9, <1>10, <1>11, <1>12, <1>13,
        <1>14, <1>15, <1>16, <1>17, <1>18, <1>19, <1>20, <1>p, <1>pe, <1>l, <1>rl, <1>re, <1>cl,
        <1>21, <1>22, <1>23, <1>24
        DEF Next, ReadLoop, Handle, WriteLoop, PingLoop

----------------------------------------------------------------------------
\* The invariant of the manager, for every number of connections: whatever the
\* order of requests, scans and ends of read loops.
THEOREM Invariance == Spec => []Inv
<1>1. Inv /\ [Next]_vars => Inv'
    BY NextAges, NextDone, NextLists, NextTypes DEF Inv
<1> QED BY <1>1, InitInv, PTL DEF Spec

\* Type correctness; in particular no send buffer holds more than its size.
THEOREM Typing == Spec => []TypeOK
BY Invariance, PTL DEF Inv

\* A connection is torn down once and completely (ws_connmgr.go, Unregister and
\* startDeadConnDetection): the done channel is never closed twice, which would
\* panic, and a broker that is open or completely closed keeps no subscription
\* of a connection that has been removed.
THEOREM TearsDownOnce == Spec => []TornDownOnce
<1>1. Inv => NoOrphans
    <2> SUFFICES ASSUME Inv, NEW c \in Conns, reader[c] \in {"close", "ended"}
                 PROVE  /\ c \notin conns /\ subscriptions[c] = <<>>
                        /\ (brokerClosed => brokerCleared) => \A t \in Topics : broker[c][t] = 0
        BY DEF NoOrphans
    <2>1. c \notin conns /\ subscriptions[c] = <<>>
        BY DEF Inv, Gone
    <2>2. Held(c) = {}
        BY <2>1, EmptyList DEF Held
    <2> QED BY <2>1, <2>2 DEF Inv, BrokerHolds
<1>2. Inv => TornDownOnce
    BY <1>1 DEF Inv, TornDownOnce
<1> QED BY <1>2, Invariance, PTL

\* A connection silent for longer than the timeout is found by the next scan
\* (ws_connmgr.go, startDeadConnDetection).
THEOREM FindsDead == Spec => []DeadFoundByNextScan
<1>1. Inv => DeadFoundByNextScan
    BY DEF Inv, Ages, DeadFoundByNextScan
<1> QED BY <1>1, Invariance, PTL

\* While the broker is open it has exactly the subscriptions in the lists of the
\* manager and the one being recorded, one for each topic (ws_connmgr.go, Subscribe
\* and Unsubscribe).
THEOREM BrokerMatchesLists == Spec => []ListsMatchBroker
<1>1. Inv => ListsMatchBroker
    <2> SUFFICES ASSUME Inv, ~brokerClosed, NEW c \in Conns, NEW t \in Topics
                 PROVE  /\ broker[c][t] <= 1
                        /\ broker[c][t] = Count(t, subscriptions[c]) +
                             (IF reader[c] = "record" /\ Head(todo[c]) = t THEN 1 ELSE 0)
        BY DEF ListsMatchBroker
    <2>1. Count(t, subscriptions[c]) = IF t \in Range(subscriptions[c]) THEN 1 ELSE 0
        BY CountDistinct DEF Inv, TypeOK, Unrepeated
    <2> QED BY <2>1 DEF Inv, BrokerHolds, Held, Unrepeated
<1> QED BY <1>1, Invariance, PTL
============================================================================
