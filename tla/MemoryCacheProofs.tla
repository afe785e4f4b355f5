------------------------- MODULE MemoryCacheProofs -------------------------
(***************************************************************************)
(* Proofs about MemoryCache, for any number of clients, keys, shards and   *)
(* durations: the sharded cache implements the map of Cache.               *)
(***************************************************************************)
EXTENDS MemoryCache, TLAPS

----------------------------------------------------------------------------
(* The parts of the inductive invariant.                                   *)

InKeys(c) == call[c] # None /\ call[c].kind = "keys"

\* The times that calls and the sweeper act with have passed.
TimesPast ==
    /\ \A c \in Clients :
          call[c] # None /\ call[c].kind \in {"set", "setnx", "keys"} => call[c].at <= now
    /\ sweepAt <= now

\* While Keys runs it has met the keys that are live now.
Observed ==
    \A c \in Clients :
        /\ lives[c] # {} => InKeys(c)
        /\ InKeys(c) => LiveKeys \in lives[c]

Inv == TypeOK /\ TimesPast /\ Observed /\ KeysComplete

----------------------------------------------------------------------------
\* What a call holds, by its kind.
LEMMA CallFields ==
    ASSUME NEW o \in CallType
    PROVE  /\ o.kind \in {"set", "setnx", "delete", "keys"}
           /\ o.kind \in {"set", "setnx"} =>
                o.key \in Keys /\ o.ttl \in Nat /\ o.at \in 1 .. MaxNow
           /\ o.kind = "delete" => o.key \in Keys
           /\ o.kind = "keys" =>
                o.shard \in Shards /\ o.found \subseteq Keys /\ o.at \in 1 .. MaxNow
BY CacheAssumption DEF CallType

\* What has expired at a time read before has expired now.
LEMMA ExpiredStays ==
    ASSUME NEW e \in Entry, NEW a \in Nat, NEW b \in Nat, a <= b, Expired(e, a)
    PROVE  Expired(e, b)
BY DEF Entry, Expired

\* A map, with the entries that have expired left out.
Seen(m, at) == [k \in Keys |-> IF m[k] # None /\ ~Expired(m[k], at) THEN m[k] ELSE None]

\* Dropping entries that have expired changes nothing that is seen.
LEMMA DropExpired ==
    ASSUME NEW m, NEW d, NEW at,
           \A k \in Keys : d[k] = m[k] \/ (d[k] = None /\ (m[k] # None => Expired(m[k], at)))
    PROVE  Seen(d, at) = Seen(m, at) /\ Live(d, at) = Live(m, at)
BY DEF Seen, Live

\* evictLocked drops entries that have expired, and no others.
LEMMA EvictDrops ==
    ASSUME NEW m \in [Keys -> {None} \cup Entry], NEW s, NEW a \in Nat, NEW b \in Nat, a <= b,
           NEW d \in EvictLocked(m, s, a)
    PROVE  /\ d \in [Keys -> {None} \cup Entry]
           /\ \A k \in Keys : d[k] = m[k] \/ (d[k] = None /\ (m[k] # None => Expired(m[k], b)))
<1>1. PICK v \in SUBSET Keys :
        /\ \A k \in v : m[k] # None
        /\ d = [k \in Keys |-> IF k \in v /\ Expired(m[k], a) THEN None ELSE m[k]]
    BY DEF EvictLocked, KeysOf
<1>2. \A k \in v : m[k] \in Entry
    BY <1>1
<1>3. \A k \in v : Expired(m[k], a) => Expired(m[k], b)
    BY <1>2, ExpiredStays
<1> QED BY <1>1, <1>3

----------------------------------------------------------------------------
\* What Set and SetNX do to the map, whether or not the write cleans the shard:
\* the new entry is seen from now on, if it has not expired since the clock was read.
LEMMA StoreSeen ==
    ASSUME TypeOK, TimesPast, NEW c \in Clients, call[c] # None,
           call[c].kind \in {"set", "setnx"}, Store(c)
    PROVE  /\ entriesByKey' \in [Keys -> {None} \cup Entry]
           /\ writes' \in [Shards -> 0 .. CleanupEvery - 1]
           /\ Seen(entriesByKey', now) =
                Seen([entriesByKey EXCEPT ![call[c].key] =
                        [val |-> c, exp |-> Deadline(call[c].at, call[c].ttl)]], now)
<1> DEFINE o == call[c]
           s == ShardOf[o.key]
           e == [val |-> c, exp |-> Deadline(o.at, o.ttl)]
           m == [entriesByKey EXCEPT ![o.key] = e]
<1>0. o \in CallType /\ now \in 1 .. MaxNow
    BY DEF TypeOK
<1>1. /\ o.key \in Keys /\ o.ttl \in Nat /\ o.at \in Nat /\ o.at <= now /\ now \in Nat
      /\ s \in Shards
    BY <1>0, CallFields, CacheAssumption DEF TimesPast
<1>2. Deadline(o.at, o.ttl) \in Nat
    BY <1>1 DEF Deadline
<1>3. e \in Entry
    BY <1>2 DEF Entry
<1>4. m \in [Keys -> {None} \cup Entry]
    BY <1>1, <1>3 DEF TypeOK
<1>5. \/ /\ writes[s] + 1 >= CleanupEvery
         /\ writes' = [writes EXCEPT ![s] = 0] /\ entriesByKey' \in EvictLocked(m, s, o.at)
      \/ /\ ~(writes[s] + 1 >= CleanupEvery)
         /\ writes' = [writes EXCEPT ![s] = @ + 1] /\ entriesByKey' = m
    BY DEF Store
<1> HIDE DEF o, s, e, m
<1>6. writes' \in [Shards -> 0 .. CleanupEvery - 1]
    BY <1>1, <1>5, CacheAssumption DEF TypeOK
<1>7. entriesByKey' \in [Keys -> {None} \cup Entry] /\ Seen(entriesByKey', now) = Seen(m, now)
    <2>1. CASE entriesByKey' = m
        BY <1>4, <2>1
    <2>2. CASE entriesByKey' \in EvictLocked(m, s, o.at)
        <3>1. /\ entriesByKey' \in [Keys -> {None} \cup Entry]
              /\ \A k \in Keys : \/ entriesByKey'[k] = m[k]
                                 \/ entriesByKey'[k] = None /\ (m[k] # None => Expired(m[k], now))
            BY <1>1, <1>4, <2>2, EvictDrops
        <3> QED BY <3>1, DropExpired
    <2> QED BY <1>5, <2>1, <2>2
<1> QED BY <1>6, <1>7 DEF o, s, e, m

\* Keys goes on to the next shard: the call stays what it was otherwise.
LEMMA NextShardCall ==
    ASSUME NEW o \in CallType, o.kind = "keys", o.shard + 1 < NumShards,
           NEW f \in SUBSET Keys
    PROVE  /\ [o EXCEPT !.shard = o.shard + 1, !.found = f] \in CallType
           /\ [o EXCEPT !.shard = o.shard + 1, !.found = f].kind = "keys"
           /\ [o EXCEPT !.shard = o.shard + 1, !.found = f].at = o.at
           /\ [o EXCEPT !.shard = o.shard + 1, !.found = f].shard = o.shard + 1
           /\ [o EXCEPT !.shard = o.shard + 1, !.found = f].found = f
<1>1. o \in [kind : {"keys"}, shard : Shards, found : SUBSET Keys, at : 1 .. MaxNow]
    BY DEF CallType
<1>2. o.shard + 1 \in Shards
    BY <1>1, CacheAssumption DEF Shards
<1>3. [o EXCEPT !.shard = o.shard + 1, !.found = f]
        \in [kind : {"keys"}, shard : Shards, found : SUBSET Keys, at : 1 .. MaxNow]
    BY <1>1, <1>2
<1> QED BY <1>1, <1>3 DEF CallType

\* The effect of VisitShard on the calls.
LEMMA VisitCalls ==
    ASSUME TypeOK, NEW c \in Clients, VisitShard(c)
    PROVE  /\ call[c] \in CallType /\ call[c].kind = "keys"
           /\ \A d \in Clients \ {c} : call'[d] = call[d]
           /\ \/ call'[c] = None
              \/ /\ call'[c] \in CallType /\ call'[c].kind = "keys" /\ call'[c].at = call[c].at
                 /\ call'[c].shard = call[c].shard + 1
                 /\ call'[c].found = call[c].found \cup Unexpired(call[c].shard, call[c].at)
           /\ DOMAIN call' = Clients
<1> DEFINE o == call[c]
           f == o.found \cup Unexpired(o.shard, o.at)
<1>1. o \in CallType /\ o.kind = "keys" /\ call \in [Clients -> {None} \cup CallType]
    BY DEF TypeOK, VisitShard
<1>2. f \in SUBSET Keys
    BY <1>1, CallFields DEF Unexpired, KeysOf
<1>3. CASE o.shard + 1 < NumShards
    <2>1. call' = [call EXCEPT ![c] = [o EXCEPT !.shard = o.shard + 1, !.found = f]]
        BY <1>1, <1>3 DEF VisitShard
    <2> HIDE DEF f
    <2>2. call'[c] = [o EXCEPT !.shard = o.shard + 1, !.found = f]
        BY <1>1, <2>1
    <2> QED BY <1>1, <1>2, <1>3, <2>1, <2>2, NextShardCall DEF f
<1>4. CASE ~(o.shard + 1 < NumShards)
    BY <1>1, <1>4 DEF VisitShard, Return
<1> QED BY <1>3, <1>4

\* The invariant holds of a new cache (NewMemoryCache).
LEMMA InitInv == Init => Inv
<1> SUFFICES ASSUME Init PROVE Inv
    OBVIOUS
<1>1. TypeOK
    BY CacheAssumption DEF Init, TypeOK, Shards
<1>2. TimesPast /\ Observed /\ KeysComplete
    BY DEF Init, TimesPast, Observed, InKeys, KeysComplete
<1> QED BY <1>1, <1>2 DEF Inv

\* Types, and times that have passed, through every step.
LEMMA NextTypes == Inv /\ [Next]_vars => TypeOK' /\ TimesPast'
<1> SUFFICES ASSUME Inv, [Next]_vars PROVE TypeOK' /\ TimesPast'
    OBVIOUS
<1>0. TypeOK /\ TimesPast
    BY DEF Inv
<1>t. /\ entriesByKey \in [Keys -> {None} \cup Entry]
      /\ writes \in [Shards -> 0 .. CleanupEvery - 1]
      /\ now \in 1 .. MaxNow /\ MaxNow \in Nat
      /\ call \in [Clients -> {None} \cup CallType]
      /\ idx \in Shards /\ sweepAt \in 0 .. MaxNow
      /\ sweeper \in {"run", "stop", "exit"}
      /\ lives \in [Clients -> SUBSET SUBSET Keys]
      /\ None \notin CallType
    BY <1>0, CacheAssumption DEF TypeOK
<1> DEFINE Past(o) ==
        o # None /\ o.kind \in {"set", "setnx", "keys"} => o.at <= now
           Rest == /\ entriesByKey' \in [Keys -> {None} \cup Entry]
                   /\ writes' \in [Shards -> 0 .. CleanupEvery - 1]
                   /\ UNCHANGED <<now, idx, sweepAt, sweeper>>
<1>l. Observe => lives' \in [Clients -> SUBSET SUBSET Keys]
    BY <1>t DEF Observe, Live
<1>r. ASSUME Rest, lives' \in [Clients -> SUBSET SUBSET Keys], NEW c \in Clients,
             NEW o \in {None} \cup CallType, Past(o), call' = [call EXCEPT ![c] = o]
      PROVE  TypeOK' /\ TimesPast'
    <2>1. TypeOK'
        BY <1>t, <1>r DEF TypeOK
    <2>2. \A d \in Clients : Past(call'[d])
        BY <1>0, <1>t, <1>r DEF TimesPast
    <2> QED BY <1>0, <1>r, <2>1, <2>2 DEF TimesPast
<1>1. ASSUME NEW c \in Clients, NEW kind \in {"set", "setnx"}, NEW k \in Keys,
             NEW ttl \in TTLs, Begin(c, kind, k, ttl)
      PROVE  TypeOK' /\ TimesPast'
    <2> DEFINE o == [kind |-> kind, key |-> k, ttl |-> ttl, at |-> now]
    <2>1. o \in CallType /\ Past(o)
        BY <1>t DEF CallType
    <2>2. call' = [call EXCEPT ![c] = o] /\ Rest /\ lives' = lives
        BY <1>1, <1>t DEF Begin
    <2> HIDE DEF o, Rest
    <2> QED BY <1>t, <1>r, <2>1, <2>2
<1>2. ASSUME NEW c \in Clients, NEW k \in Keys, BeginDelete(c, k)
      PROVE  TypeOK' /\ TimesPast'
    <2> DEFINE o == [kind |-> "delete", key |-> k]
    <2>1. o \in CallType /\ Past(o)
        BY <1>t DEF CallType
    <2>2. call' = [call EXCEPT ![c] = o] /\ Rest /\ lives' = lives
        BY <1>2, <1>t DEF BeginDelete
    <2> HIDE DEF o, Rest
    <2> QED BY <1>t, <1>r, <2>1, <2>2
<1>3. ASSUME NEW c \in Clients, BeginKeys(c) PROVE TypeOK' /\ TimesPast'
    <2> DEFINE o == [kind |-> "keys", shard |-> 0, found |-> {}, at |-> now]
    <2>1. o \in CallType /\ Past(o)
        BY <1>t, CacheAssumption DEF CallType, Shards
    <2>2. call' = [call EXCEPT ![c] = o] /\ Rest /\ Observe
        BY <1>3, <1>t DEF BeginKeys
    <2> HIDE DEF o, Rest
    <2> QED BY <1>l, <1>r, <2>1, <2>2
<1>4. ASSUME NEW c \in Clients, Set(c) \/ SetNX(c) \/ Delete(c) PROVE TypeOK' /\ TimesPast'
    <2>1. Store(c) \/ UNCHANGED <<entriesByKey, writes>> \/ Delete(c)
        BY <1>4 DEF Set, SetNX
    <2>2. call[c] # None /\ call[c] \in CallType
        BY <1>4, <1>t DEF Set, SetNX, Delete
    <2>3. /\ entriesByKey' \in [Keys -> {None} \cup Entry]
          /\ writes' \in [Shards -> 0 .. CleanupEvery - 1]
        <3>1. CASE Delete(c)
            BY <1>t, <3>1 DEF Delete
        <3>2. CASE ~Delete(c)
            <4>1. call[c].kind \in {"set", "setnx"}
                BY <1>4, <3>2 DEF Set, SetNX
            <4> QED BY <1>0, <1>t, <2>1, <2>2, <3>2, <4>1, StoreSeen
        <3> QED BY <3>1, <3>2
    <2>4. /\ UNCHANGED <<now, idx, sweepAt, sweeper>> /\ Observe
          /\ call' = [call EXCEPT ![c] = None]
        BY <1>4 DEF Set, SetNX, Delete, Return
    <2>5. Rest
        BY <2>3, <2>4
    <2>6. Past(None) /\ lives' \in [Clients -> SUBSET SUBSET Keys] /\ None \in {None} \cup CallType
        BY <1>l, <2>4
    <2> QED BY <1>r, <2>4, <2>5, <2>6
<1>5. ASSUME NEW c \in Clients, VisitShard(c) PROVE TypeOK' /\ TimesPast'
    <2>1. /\ \A d \in Clients \ {c} : call'[d] = call[d]
          /\ call'[c] \in {None} \cup CallType
          /\ Past(call[c]) => Past(call'[c])
        BY <1>0, <1>t, <1>5, VisitCalls
    <2>2. Past(call[c])
        BY <1>0 DEF TimesPast
    <2>3. Rest /\ Observe
        BY <1>t, <1>5 DEF VisitShard
    <2>4. call' = [call EXCEPT ![c] = call'[c]]
        <3>1. \E o : call' = [call EXCEPT ![c] = o]
            BY <1>5, <1>t DEF VisitShard, Return
        <3> QED BY <1>t, <3>1
    <2> HIDE DEF Rest
    <2> QED BY <1>l, <1>r, <2>1, <2>2, <2>3, <2>4
<1>6. CASE SweepTick
    BY <1>0, <1>t, <1>6 DEF SweepTick, TypeOK, TimesPast
<1>7. CASE SweepShard
    <2>1. idx' \in Shards
        BY <1>t, <1>7, CacheAssumption DEF SweepShard, NextShard, Shards
    <2>2. entriesByKey' \in [Keys -> {None} \cup Entry]
        BY <1>t, <1>7 DEF SweepShard
    <2>3. sweepAt' = 0 /\ UNCHANGED <<writes, now, call, sweeper>> /\ Observe
        BY <1>7 DEF SweepShard
    <2>4. TypeOK'
        BY <1>t, <1>l, <2>1, <2>2, <2>3 DEF TypeOK
    <2> QED BY <1>0, <1>t, <2>3, <2>4 DEF TimesPast
<1>8. CASE Stop \/ SweepExit
    BY <1>0, <1>t, <1>8 DEF Stop, SweepExit, TypeOK, TimesPast
<1>9. CASE Tick
    <2>1. /\ now' = now + 1 /\ now' \in 1 .. MaxNow
          /\ UNCHANGED <<entriesByKey, writes, call, idx, sweepAt, sweeper>> /\ Observe
        BY <1>t, <1>9 DEF Tick
    <2>2. TypeOK'
        BY <1>t, <1>l, <2>1 DEF TypeOK
    <2>3. ASSUME NEW c \in Clients, call[c] # None, call[c].kind \in {"set", "setnx", "keys"}
          PROVE  call[c].at <= now'
        <3>1. call[c].at \in 1 .. MaxNow /\ call[c].at <= now
            BY <1>0, <1>t, <2>3, CallFields DEF TimesPast
        <3> QED BY <1>t, <2>1, <3>1
    <2>4. sweepAt <= now'
        BY <1>0, <1>t, <2>1 DEF TimesPast
    <2> QED BY <2>1, <2>2, <2>3, <2>4 DEF TimesPast
<1>10. CASE UNCHANGED vars
    BY <1>0, <1>10 DEF vars, TypeOK, TimesPast
<1> QED BY <1>1, <1>2, <1>3, <1>4, <1>5, <1>6, <1>7, <1>8, <1>9, <1>10 DEF Next, Act

\* A call of Keys that is under way has met what is live, through every step.
LEMMA NextObserved == Inv /\ [Next]_vars => Observed'
<1> SUFFICES ASSUME Inv, [Next]_vars PROVE Observed'
    OBVIOUS
<1>0. call \in [Clients -> {None} \cup CallType] /\ lives \in [Clients -> SUBSET SUBSET Keys]
    BY DEF Inv, TypeOK
<1>1. Observe => Observed'
    BY DEF Observe, Observed, InKeys, LiveKeys
<1> DEFINE quiet == /\ UNCHANGED <<entriesByKey, now, lives>>
                    /\ \A c \in Clients : InKeys(c)' <=> InKeys(c)
<1>2. quiet => Observed'
    BY DEF Inv, Observed, LiveKeys
<1>3. ASSUME NEW c \in Clients, NEW kind \in {"set", "setnx"}, NEW k \in Keys,
             NEW ttl \in TTLs, Begin(c, kind, k, ttl)
      PROVE  quiet
    BY <1>0, <1>3 DEF Begin, InKeys
<1>4. ASSUME NEW c \in Clients, NEW k \in Keys, BeginDelete(c, k) PROVE quiet
    BY <1>0, <1>4 DEF BeginDelete, InKeys
<1>5. ASSUME SweepTick \/ Stop \/ SweepExit \/ UNCHANGED vars PROVE quiet
    BY <1>5 DEF SweepTick, Stop, SweepExit, vars, InKeys
<1>6. ASSUME NEW c \in Clients, BeginKeys(c) \/ Act(c) PROVE Observe
    BY <1>6 DEF BeginKeys, Act, Set, SetNX, Delete, VisitShard
<1>7. ASSUME SweepShard \/ Tick PROVE Observe
    BY <1>7 DEF SweepShard, Tick
<1> HIDE DEF quiet
<1> QED BY <1>1, <1>2, <1>3, <1>4, <1>5, <1>6, <1>7 DEF Next

\* Keys finds what is live throughout, through every step: what it skips in a shard
\* had expired at its time, hence now.
LEMMA NextComplete == Inv /\ [Next]_vars => KeysComplete'
<1> SUFFICES ASSUME Inv, [Next]_vars PROVE KeysComplete'
    OBVIOUS
<1>0. /\ call \in [Clients -> {None} \cup CallType] /\ lives \in [Clients -> SUBSET SUBSET Keys]
      /\ entriesByKey \in [Keys -> {None} \cup Entry] /\ now \in 1 .. MaxNow
      /\ None \notin CallType /\ MaxNow \in Nat /\ ShardOf \in [Keys -> Shards]
      /\ \A s \in Shards : s \in Nat
    BY CacheAssumption DEF Inv, TypeOK, Shards
<1>o. Observed'
    BY NextObserved
\* A call of Keys that goes on unchanged has only met more.
<1>1. ASSUME NEW c \in Clients, NEW k \in Keys, InKeys(c), call'[c] = call[c],
             lives[c] \subseteq lives'[c],
             ShardOf[k] < call'[c].shard, \A l \in lives'[c] : k \in l
      PROVE  k \in call'[c].found
    BY <1>1 DEF Inv, KeysComplete, Observed
<1>2. ASSUME NEW c \in Clients, VisitShard(c), call'[c] # None, NEW k \in Keys,
             ShardOf[k] < call'[c].shard, \A l \in lives'[c] : k \in l
      PROVE  k \in call'[c].found
    <2>1. /\ call[c] \in CallType /\ call[c].kind = "keys"
          /\ call'[c].kind = "keys" /\ call'[c].shard = call[c].shard + 1
          /\ call'[c].found = call[c].found \cup Unexpired(call[c].shard, call[c].at)
        BY <1>2, VisitCalls DEF Inv
    <2>2. lives[c] \subseteq lives'[c]
        BY <1>2, <2>1 DEF VisitShard, Observe
    <2>3. \A l \in lives[c] : k \in l
        BY <1>2, <2>2
    <2>4. InKeys(c) /\ lives[c] # {} /\ k \in LiveKeys
        BY <1>0, <2>1, <2>3 DEF Inv, Observed, InKeys
    <2>5. call[c].shard \in Nat /\ call[c].at \in Nat /\ call[c].at <= now
        BY <1>0, <2>1, CallFields DEF Inv, TimesPast
    <2>6. CASE ShardOf[k] < call[c].shard
        BY <2>1, <2>3, <2>4, <2>6 DEF Inv, KeysComplete
    <2>7. CASE ShardOf[k] = call[c].shard
        <3>1. entriesByKey[k] # None /\ entriesByKey[k] \in Entry /\ ~Expired(entriesByKey[k], now)
            BY <1>0, <2>4 DEF LiveKeys, Live
        <3>2. ~Expired(entriesByKey[k], call[c].at)
            BY <1>0, <2>5, <3>1, ExpiredStays
        <3>3. k \in Unexpired(call[c].shard, call[c].at)
            BY <2>7, <3>1, <3>2 DEF Unexpired, KeysOf
        <3> QED BY <2>1, <3>3
    <2>8. ShardOf[k] < call[c].shard \/ ShardOf[k] = call[c].shard
        BY <1>0, <1>2, <2>1, <2>5
    <2> QED BY <2>6, <2>7, <2>8
\* A call of Keys that begins has visited no shard.
<1>3. ASSUME NEW c \in Clients, BeginKeys(c), NEW k \in Keys, ShardOf[k] < call'[c].shard
      PROVE  FALSE
    BY <1>0, <1>3 DEF BeginKeys
<1>4. ASSUME NEW c \in Clients, InKeys(c)'
      PROVE  \/ InKeys(c) /\ call'[c] = call[c] /\ lives[c] \subseteq lives'[c]
             \/ VisitShard(c) /\ call'[c] # None
             \/ BeginKeys(c)
    <2>1. Observe => lives[c] \subseteq lives'[c]
        BY <1>4 DEF Observe, InKeys
    <2> DEFINE same == call'[c] = call[c] /\ lives[c] \subseteq lives'[c]
    <2>2. ASSUME NEW d \in Clients, NEW kind \in {"set", "setnx"}, NEW k \in Keys,
                 NEW ttl \in TTLs, Begin(d, kind, k, ttl)
          PROVE  same
        BY <1>0, <1>4, <2>2 DEF Begin, InKeys
    <2>3. ASSUME NEW d \in Clients, NEW k \in Keys, BeginDelete(d, k) PROVE same
        BY <1>0, <1>4, <2>3 DEF BeginDelete, InKeys
    <2>4. ASSUME NEW d \in Clients, BeginKeys(d) PROVE same \/ BeginKeys(c)
        BY <1>0, <2>1, <2>4 DEF BeginKeys
    <2>5. ASSUME NEW d \in Clients, Set(d) \/ SetNX(d) \/ Delete(d) PROVE same
        BY <1>0, <1>4, <2>1, <2>5 DEF Set, SetNX, Delete, Return, InKeys
    <2>6. ASSUME NEW d \in Clients, VisitShard(d) PROVE same \/ VisitShard(c)
        <3>1. CASE d = c
            BY <2>6, <3>1
        <3>2. CASE d # c
            BY <2>1, <2>6, <3>2, VisitCalls DEF VisitShard, Inv
        <3> QED BY <3>1, <3>2
    <2>7. ASSUME SweepTick \/ Stop \/ SweepExit \/ UNCHANGED vars PROVE same
        BY <2>7 DEF SweepTick, Stop, SweepExit, vars
    <2>8. ASSUME SweepShard \/ Tick PROVE same
        BY <2>1, <2>8 DEF SweepShard, Tick
    <2>9. same => InKeys(c)
        BY <1>4 DEF InKeys
    <2>10. call'[c] # None
        BY <1>4 DEF InKeys
    <2> QED BY <2>2, <2>3, <2>4, <2>5, <2>6, <2>7, <2>8, <2>9, <2>10 DEF Next, Act
<1>5. ASSUME NEW c \in Clients, NEW k \in Keys, lives'[c] # {},
             ShardOf[k] < call'[c].shard, \A l \in lives'[c] : k \in l
      PROVE  k \in call'[c].found
    <2>1. InKeys(c)'
        BY <1>5, <1>o DEF Observed
    <2> QED BY <1>1, <1>2, <1>3, <1>4, <1>5, <2>1
<1> QED BY <1>5 DEF KeysComplete

----------------------------------------------------------------------------
\* The invariant of the cache.
THEOREM Invariance == Spec => []Inv
<1>1. Inv /\ [Next]_vars => Inv'
    BY NextTypes, NextObserved, NextComplete DEF Inv
<1> QED BY <1>1, InitInv, PTL DEF Spec

\* Type correctness; in particular the counter of writes of a shard stays below
\* cleanupEvery.
THEOREM Typing == Spec => []TypeOK
BY Invariance, PTL DEF Inv

\* Keys misses no key that was live during the whole call (memory_cache.go, Keys),
\* although it locks one shard after the other.
THEOREM KeysMissesNone == Spec => []KeysComplete
BY Invariance, PTL DEF Inv

----------------------------------------------------------------------------
(* The refinement.                                                         *)

\* The variables of the abstract cache: Get and TTL see an entry until it expires,
\* and a call of Keys changes nothing.
stored == [k \in Keys |-> IF k \in LiveKeys THEN entriesByKey[k] ELSE None]
calling == [c \in Clients |->
              IF call[c] # None /\ call[c].kind = "keys" THEN None ELSE call[c]]

\* The entries that are stored are the ones seen.
LEMMA StoredSeen == stored = Seen(entriesByKey, now) /\ stored' = Seen(entriesByKey', now')
BY DEF stored, Seen, LiveKeys, Live

\* Every step is a step of the abstract cache or none: reading the clock before the
\* lock, cleaning, sweeping and the visits of Keys do not show.
LEMMA StepRefines ==
    ASSUME Inv, [Next]_vars
    PROVE  [C!Next]_(C!vars)
<1>0. /\ call \in [Clients -> {None} \cup CallType]
      /\ entriesByKey \in [Keys -> {None} \cup Entry] /\ now \in Nat
      /\ None \notin CallType /\ None \notin Entry
      /\ TypeOK /\ TimesPast
    BY CacheAssumption DEF Inv, TypeOK
<1> DEFINE same == stored' = stored /\ calling' = calling /\ now' = now
<1>s. same => UNCHANGED C!vars
    BY DEF C!vars, stored, calling
<1>1. ASSUME NEW c \in Clients, NEW kind \in {"set", "setnx"}, NEW k \in Keys,
             NEW ttl \in TTLs, Begin(c, kind, k, ttl)
      PROVE  C!CallSet(c, kind, k, ttl)
    <2>1. UNCHANGED <<entriesByKey, now>> /\ stored' = stored
        BY <1>1 DEF Begin, stored, LiveKeys, Live
    <2>2. calling[c] = None
        BY <1>0, <1>1 DEF Begin, calling
    <2>3. calling' = [calling EXCEPT ![c] = [kind |-> kind, key |-> k, ttl |-> ttl, at |-> now]]
        BY <1>0, <1>1 DEF Begin, calling
    <2> QED BY <2>1, <2>2, <2>3 DEF C!CallSet, stored, calling
<1>2. ASSUME NEW c \in Clients, NEW k \in Keys, BeginDelete(c, k)
      PROVE  C!CallDelete(c, k)
    <2>1. UNCHANGED <<entriesByKey, now>> /\ stored' = stored
        BY <1>2 DEF BeginDelete, stored, LiveKeys, Live
    <2>2. calling[c] = None
        BY <1>0, <1>2 DEF BeginDelete, calling
    <2>3. calling' = [calling EXCEPT ![c] = [kind |-> "delete", key |-> k]]
        BY <1>0, <1>2 DEF BeginDelete, calling
    <2> QED BY <2>1, <2>2, <2>3 DEF C!CallDelete, stored, calling
<1>3. ASSUME NEW c \in Clients, BeginKeys(c) PROVE same
    <2>1. UNCHANGED <<entriesByKey, now>> /\ stored' = stored
        BY <1>3 DEF BeginKeys, stored, LiveKeys, Live
    <2>2. calling' = calling
        BY <1>0, <1>3 DEF BeginKeys, calling
    <2> QED BY <2>1, <2>2
<1>4. ASSUME NEW c \in Clients, VisitShard(c) PROVE same
    <2>1. UNCHANGED <<entriesByKey, now>> /\ stored' = stored
        BY <1>4 DEF VisitShard, stored, LiveKeys, Live
    <2>2. \A d \in Clients : calling'[d] = calling[d]
        BY <1>0, <1>4, VisitCalls DEF calling
    <2>3. calling' = calling
        BY <2>2 DEF calling
    <2> QED BY <2>1, <2>3
<1>5. ASSUME NEW c \in Clients, call[c] # None, call[c].kind \in {"set", "setnx", "delete"},
             Return(c)
      PROVE  calling[c] = call[c] /\ calling' = [calling EXCEPT ![c] = None]
    BY <1>0, <1>5 DEF Return, calling
<1>6. ASSUME NEW c \in Clients, call[c] # None, call[c].kind \in {"set", "setnx"},
             call[c].kind = "setnx" => stored[call[c].key] = None,
             Store(c), Return(c), UNCHANGED now
      PROVE  C!Put(c)
    <2> DEFINE o == call[c]
               e == [val |-> c, exp |-> Deadline(o.at, o.ttl)]
               m == [entriesByKey EXCEPT ![o.key] = e]
    <2>1. o \in CallType /\ o.key \in Keys /\ o.ttl \in Nat /\ o.at \in Nat
        BY <1>0, <1>6, CallFields
    <2>2. e \in Entry
        BY <2>1 DEF Entry, Deadline
    <2>3. stored' = Seen(m, now)
        BY <1>0, <1>6, StoreSeen, StoredSeen
    <2>4. C!Visible(e) = IF ~Expired(e, now) THEN e ELSE None
        BY <1>0, <2>2 DEF C!Visible, Expired, Entry
    <2>5. Seen(m, now) = [stored EXCEPT ![o.key] = C!Visible(e)]
        <3> HIDE DEF e
        <3> QED BY <1>0, <2>1, <2>2, <2>4 DEF Seen, stored, LiveKeys, Live
    <2>6. calling[c] = o /\ calling' = [calling EXCEPT ![c] = None]
        BY <1>5, <1>6
    <2>7. stored' = [stored EXCEPT ![calling[c].key] =
            C!Visible([val |-> c,
                       exp |-> IF calling[c].ttl = 0 THEN 0 ELSE calling[c].at + calling[c].ttl])]
        BY <2>3, <2>5, <2>6 DEF Deadline
    <2> QED BY <1>6, <2>6, <2>7 DEF C!Put, C!Return, stored, calling
<1>7. ASSUME NEW c \in Clients, Set(c) PROVE C!Put(c)
    BY <1>6, <1>7 DEF Set
<1>8. ASSUME NEW c \in Clients, SetNX(c) PROVE C!Put(c) \/ C!Refuse(c)
    <2> DEFINE e == entriesByKey[call[c].key]
    <2>1. /\ call[c] # None /\ call[c].kind = "setnx" /\ Return(c) /\ UNCHANGED now
          /\ call[c] \in CallType
        BY <1>0, <1>8 DEF SetNX
    <2>2. CASE e # None /\ ~Expired(e, call[c].at)
        <3>1. UNCHANGED entriesByKey
            BY <1>8, <2>2 DEF SetNX
        <3>2. stored' = stored
            BY <2>1, <3>1, StoredSeen
        <3>3. calling[c] = call[c] /\ calling' = [calling EXCEPT ![c] = None]
            BY <1>5, <2>1
        <3> QED BY <2>1, <3>2, <3>3 DEF C!Refuse, C!Return, stored, calling
    <2>3. CASE ~(e # None /\ ~Expired(e, call[c].at))
        <3>1. Store(c)
            BY <1>8, <2>3 DEF SetNX
        <3>2. call[c].key \in Keys /\ call[c].at \in Nat /\ call[c].at <= now
            BY <1>0, <2>1, CallFields DEF TimesPast
        <3>3. e # None => e \in Entry /\ Expired(e, now)
            BY <1>0, <2>3, <3>2, ExpiredStays
        <3>4. stored[call[c].key] = None
            BY <3>2, <3>3 DEF stored, LiveKeys, Live
        <3> QED BY <1>6, <2>1, <3>1, <3>4
    <2> QED BY <2>2, <2>3
<1>9. ASSUME NEW c \in Clients, Delete(c) PROVE C!Delete(c)
    <2>1. /\ call[c] # None /\ call[c].kind = "delete" /\ Return(c) /\ UNCHANGED now
          /\ call[c] \in CallType
        BY <1>0, <1>9 DEF Delete
    <2>2. call[c].key \in Keys
        BY <2>1, CallFields
    <2>3. stored' = [stored EXCEPT ![call[c].key] = None]
        BY <1>0, <1>9, <2>1, <2>2 DEF Delete, stored, LiveKeys, Live
    <2>4. calling[c] = call[c] /\ calling' = [calling EXCEPT ![c] = None]
        BY <1>5, <2>1
    <2> QED BY <2>1, <2>3, <2>4 DEF C!Delete, C!Return, stored, calling
<1>10. ASSUME SweepTick \/ Stop \/ SweepExit \/ UNCHANGED vars PROVE same
    BY <1>10 DEF SweepTick, Stop, SweepExit, vars, stored, calling, LiveKeys, Live
<1>11. ASSUME SweepShard PROVE same
    <2>1. UNCHANGED <<now, call>>
        BY <1>11 DEF SweepShard
    <2>2. sweepAt \in Nat /\ sweepAt <= now
        BY <1>0 DEF TypeOK, TimesPast
    <2>3. \A k \in Keys :
            \/ entriesByKey'[k] = entriesByKey[k]
            \/ entriesByKey'[k] = None /\ (entriesByKey[k] # None => Expired(entriesByKey[k], now))
        BY <1>0, <1>11, <2>2, ExpiredStays DEF SweepShard
    <2>4. stored' = stored
        BY <2>1, <2>3, DropExpired, StoredSeen
    <2> QED BY <2>1, <2>4 DEF calling
<1>12. ASSUME Tick PROVE C!Tick
    <2>1. now' = now + 1 /\ UNCHANGED <<entriesByKey, call>>
        BY <1>12 DEF Tick
    <2>2. ASSUME NEW k \in Keys
          PROVE  stored'[k] = IF stored[k] # None /\ stored[k].exp = now' THEN None ELSE stored[k]
        <3>1. CASE entriesByKey[k] = None
            BY <2>1, <3>1 DEF stored, LiveKeys, Live
        <3>2. CASE entriesByKey[k] # None
            <4>1. entriesByKey[k] \in Entry /\ entriesByKey[k].exp \in Nat
                BY <1>0, <3>2 DEF Entry
            <4>2. Expired(entriesByKey[k], now') <=>
                    Expired(entriesByKey[k], now) \/ entriesByKey[k].exp = now'
                BY <1>0, <2>1, <4>1 DEF Expired
            <4>3. entriesByKey[k].exp = now' => ~Expired(entriesByKey[k], now)
                BY <1>0, <2>1, <4>1 DEF Expired
            <4> QED BY <2>1, <3>2, <4>2, <4>3 DEF stored, LiveKeys, Live
        <3> QED BY <3>1, <3>2
    <2>3. stored' = [k \in Keys |->
                        IF stored[k] # None /\ stored[k].exp = now' THEN None ELSE stored[k]]
        BY <2>2 DEF stored
    <2>4. calling' = calling
        BY <2>1 DEF calling
    <2> QED BY <2>1, <2>3, <2>4 DEF C!Tick, stored, calling
<1>13. ASSUME NEW c \in Clients, Act(c)
       PROVE  same \/ (calling[c] # None /\ (C!Put(c) \/ C!Refuse(c) \/ C!Delete(c)))
    <2>1. CASE VisitShard(c)
        BY <1>4, <2>1
    <2>2. CASE Set(c) \/ SetNX(c) \/ Delete(c)
        <3>1. calling[c] # None
            BY <2>2 DEF Set, SetNX, Delete, calling
        <3> QED BY <1>7, <1>8, <1>9, <2>2, <3>1
    <2> QED BY <1>13, <2>1, <2>2 DEF Act
<1> HIDE DEF same
<1>14. ASSUME NEW c \in Clients,
              \/ \E kind \in {"set", "setnx"}, k \in Keys, ttl \in TTLs : C!CallSet(c, kind, k, ttl)
              \/ \E k \in Keys : C!CallDelete(c, k)
              \/ calling[c] # None /\ (C!Put(c) \/ C!Refuse(c) \/ C!Delete(c))
       PROVE  C!Next
    BY <1>14 DEF C!Next, calling
<1>15. C!Tick => C!Next
    BY DEF C!Next
<1> QED BY <1>s, <1>1, <1>2, <1>3, <1>10, <1>11, <1>12, <1>13, <1>14, <1>15 DEF Next

\* The sharded cache implements the map of the Cache interface: an entry is seen from
\* the call that wrote it until its deadline or a later call, SetNX never replaces
\* one that is seen, and nothing else ever removes one.
THEOREM ImplementsCache == Spec => Implements
<1>1. Init => C!Init
    BY DEF Init, C!Init, LiveKeys, Live
<1>2. Inv /\ [Next]_vars => [C!Next]_(C!vars)
    BY StepRefines
<1> QED BY <1>1, <1>2, Invariance, PTL DEF Spec, Implements, C!Spec
============================================================================
