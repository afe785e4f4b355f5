---------------------------- MODULE MemoryCache ----------------------------
(***************************************************************************)
(* The sharded in-memory cache, memorycache/memory_cache.go.               *)
(*                                                                         *)
(* Every operation reads the clock first and takes the lock of a shard     *)
(* later: a call is two steps, and the time it acts with may be old when   *)
(* it acts.  Keys takes the locks of the shards one after the other.       *)
(* Expired entries stay in the maps until a write of the shard or the      *)
(* sweeper happens to remove them.  Get and TTL change nothing and are not *)
(* modelled; a value is represented by the client that wrote it.           *)
(***************************************************************************)
EXTENDS Integers, FiniteSets

CONSTANTS
    Clients,       \* goroutines that call the cache
    Keys,
    NumShards,     \* numShards
    ShardOf,       \* shardOf: the hash of each key
    TTLs,          \* durations given by callers; 0 stands for ttl <= 0
    CleanupEvery,  \* cleanupEvery
    CleanupBatch,  \* cleanupBatch
    Calls,         \* the operations that are called
    MaxNow,        \* bound: the clock
    None           \* no entry, no call

Shards == 0 .. NumShards - 1

Entry == [val : Clients, exp : Nat]

CallType ==
    [kind : {"set", "setnx"}, key : Keys, ttl : TTLs, at : 1 .. MaxNow]
        \cup [kind : {"delete"}, key : Keys]
        \cup [kind : {"keys"}, shard : Shards, found : SUBSET Keys, at : 1 .. MaxNow]

ASSUME CacheAssumption ==
    /\ NumShards \in Nat \ {0}
    /\ ShardOf \in [Keys -> Shards]
    /\ TTLs \subseteq Nat
    /\ CleanupEvery \in Nat \ {0} /\ CleanupBatch \in Nat \ {0}
    /\ Calls \subseteq {"set", "setnx", "delete", "keys"}
    /\ MaxNow \in Nat \ {0}
    /\ None \notin Entry \cup CallType

VARIABLES
    entriesByKey,  \* the maps of all the shards
    writes,        \* per shard
    now,           \* time.Now()
    call,          \* per client: the call in progress
    idx,           \* sweep: the next shard
    sweepAt,       \* sweep: the time it acts with, 0 when it waits for its ticker
    sweeper,       \* "run", "stop" once done is closed, "exit"
    lives          \* per client in Keys: the sets of keys that were live since the call

vars == <<entriesByKey, writes, now, call, idx, sweepAt, sweeper, lives>>

Expired(e, at) == e.exp # 0 /\ at >= e.exp

Deadline(at, ttl) == IF ttl = 0 THEN 0 ELSE at + ttl

KeysOf(s) == {k \in Keys : ShardOf[k] = s}

\* The keys whose entries have not expired.
Live(m, at) == {k \in Keys : m[k] # None /\ ~Expired(m[k], at)}
LiveKeys == Live(entriesByKey, now)

TypeOK ==
    /\ entriesByKey \in [Keys -> {None} \cup Entry]
    /\ writes \in [Shards -> 0 .. CleanupEvery - 1]
    /\ now \in 1 .. MaxNow
    /\ call \in [Clients -> {None} \cup CallType]
    /\ idx \in Shards
    /\ sweepAt \in 0 .. MaxNow
    /\ sweeper \in {"run", "stop", "exit"}
    /\ lives \in [Clients -> SUBSET SUBSET Keys]

Init ==
    /\ entriesByKey = [k \in Keys |-> None]
    /\ writes = [s \in Shards |-> 0]
    /\ now = 1
    /\ call = [c \in Clients |-> None]
    /\ idx = 0 /\ sweepAt = 0 /\ sweeper = "run"
    /\ lives = [c \in Clients |-> {}]

----------------------------------------------------------------------------
\* Set, SetNX: the clock is read.
Begin(c, kind, k, ttl) ==
    /\ call[c] = None
    /\ kind \in Calls
    /\ call' = [call EXCEPT ![c] = [kind |-> kind, key |-> k, ttl |-> ttl, at |-> now]]
    /\ UNCHANGED <<entriesByKey, writes, now, idx, sweepAt, sweeper, lives>>

BeginDelete(c, k) ==
    /\ call[c] = None
    /\ "delete" \in Calls
    /\ call' = [call EXCEPT ![c] = [kind |-> "delete", key |-> k]]
    /\ UNCHANGED <<entriesByKey, writes, now, idx, sweepAt, sweeper, lives>>

\* The keys live after a step are added to what each call of Keys has met.
Observe ==
    lives' = [c \in Clients |->
                IF call'[c] # None /\ call'[c].kind = "keys"
                THEN lives[c] \cup {Live(entriesByKey', now')} ELSE {}]

\* Mutant: whatever is visited is evicted.
EvictLocked_All(m, s, at) ==
    LET present == {k \in KeysOf(s) : m[k] # None}
        visits == {v \in SUBSET present : Cardinality(v) <= CleanupBatch}
    IN  {[k \in Keys |-> IF k \in v THEN None ELSE m[k]] : v \in visits}

\* evictLocked: of the first CleanupBatch entries that the iteration of the
\* map visits, the expired ones are deleted.  The possible outcomes.
EvictLocked(m, s, at) ==
    LET present == {k \in KeysOf(s) : m[k] # None}
        n == IF Cardinality(present) < CleanupBatch THEN Cardinality(present) ELSE CleanupBatch
        visits == {v \in SUBSET present : Cardinality(v) = n}
    IN  {[k \in Keys |-> IF k \in v /\ Expired(m[k], at) THEN None ELSE m[k]] : v \in visits}

\* The end of Set and of SetNX: the entry is written, and every CleanupEvery
\* writes the shard is cleaned.
Store(c) ==
    LET o == call[c]
        s == ShardOf[o.key]
        m == [entriesByKey EXCEPT ![o.key] = [val |-> c, exp |-> Deadline(o.at, o.ttl)]]
    IN  IF writes[s] + 1 >= CleanupEvery
        THEN writes' = [writes EXCEPT ![s] = 0] /\ entriesByKey' \in EvictLocked(m, s, o.at)
        ELSE writes' = [writes EXCEPT ![s] = @ + 1] /\ entriesByKey' = m

Return(c) == call' = [call EXCEPT ![c] = None]

Set(c) ==
    /\ call[c] # None /\ call[c].kind = "set"
    /\ Store(c)
    /\ Return(c)
    /\ UNCHANGED <<now, idx, sweepAt, sweeper>>
    /\ Observe

\* SetNX: nothing is written over an entry that had not expired at the time
\* that was read.
SetNX(c) ==
    /\ call[c] # None /\ call[c].kind = "setnx"
    /\ LET e == entriesByKey[call[c].key] IN
       IF e # None /\ ~Expired(e, call[c].at) THEN UNCHANGED <<entriesByKey, writes>>
       ELSE Store(c)
    /\ Return(c)
    /\ UNCHANGED <<now, idx, sweepAt, sweeper>>
    /\ Observe

Delete(c) ==
    /\ call[c] # None /\ call[c].kind = "delete"
    /\ entriesByKey' = [entriesByKey EXCEPT ![call[c].key] = None]
    /\ Return(c)
    /\ UNCHANGED <<writes, now, idx, sweepAt, sweeper>>
    /\ Observe

\* Keys: the clock is read.
BeginKeys(c) ==
    /\ call[c] = None
    /\ "keys" \in Calls
    /\ call' = [call EXCEPT ![c] =
                  [kind |-> "keys", shard |-> 0, found |-> {}, at |-> now]]
    /\ UNCHANGED <<entriesByKey, writes, now, idx, sweepAt, sweeper>>
    /\ Observe

\* Mutant: an entry without a deadline counts as expired.
Unexpired_NoZero(s, at) ==
    {k \in KeysOf(s) : entriesByKey[k] # None /\ at < entriesByKey[k].exp}

\* What Keys appends for a shard.
Unexpired(s, at) ==
    {k \in KeysOf(s) : entriesByKey[k] # None /\ ~Expired(entriesByKey[k], at)}

\* Keys, one shard; after the last one it returns.
VisitShard(c) ==
    /\ call[c] # None /\ call[c].kind = "keys"
    /\ LET o == call[c]
           found == o.found \cup Unexpired(o.shard, o.at)
       IN  IF o.shard + 1 < NumShards
           THEN call' = [call EXCEPT ![c].shard = @ + 1, ![c].found = found]
           ELSE Return(c)
    /\ UNCHANGED <<entriesByKey, writes, now, idx, sweepAt, sweeper>>
    /\ Observe

----------------------------------------------------------------------------
\* sweep: the ticker fires and sweepShard reads the clock.
SweepTick ==
    /\ sweeper # "exit" /\ sweepAt = 0
    /\ sweepAt' = now
    /\ UNCHANGED <<entriesByKey, writes, now, call, idx, sweeper, lives>>

\* Mutant: the index stops at the last shard but one.
NextShard_Stuck == IF idx + 2 < NumShards THEN idx + 1 ELSE idx

\* (idx + 1) & shardMask
NextShard == (idx + 1) % NumShards

\* sweepShard, under the lock.
SweepShard ==
    /\ sweepAt # 0
    /\ entriesByKey' = [k \in Keys |->
           IF /\ ShardOf[k] = idx /\ entriesByKey[k] # None
              /\ Expired(entriesByKey[k], sweepAt)
           THEN None ELSE entriesByKey[k]]
    /\ idx' = NextShard
    /\ sweepAt' = 0
    /\ UNCHANGED <<writes, now, call, sweeper>>
    /\ Observe

\* Stop: done is closed; it waits for the sweeper.
Stop ==
    /\ sweeper = "run"
    /\ sweeper' = "stop"
    /\ UNCHANGED <<entriesByKey, writes, now, call, idx, sweepAt, lives>>

SweepExit ==
    /\ sweeper = "stop" /\ sweepAt = 0
    /\ sweeper' = "exit"
    /\ UNCHANGED <<entriesByKey, writes, now, call, idx, sweepAt, lives>>

Tick ==
    /\ now < MaxNow
    /\ now' = now + 1
    /\ UNCHANGED <<entriesByKey, writes, call, idx, sweepAt, sweeper>>
    /\ Observe

----------------------------------------------------------------------------
Act(c) == Set(c) \/ SetNX(c) \/ Delete(c) \/ VisitShard(c)

Next ==
    \/ \E c \in Clients :
          \/ \E kind \in {"set", "setnx"}, k \in Keys, ttl \in TTLs : Begin(c, kind, k, ttl)
          \/ \E k \in Keys : BeginDelete(c, k)
          \/ BeginKeys(c)
          \/ Act(c)
    \/ SweepTick \/ SweepShard \/ Stop \/ SweepExit
    \/ Tick

Spec == Init /\ [][Next]_vars

\* The ticker of the sweeper fires again and again, and the sweeper gets the lock.
FairSpec == Spec /\ WF_vars(SweepTick) /\ WF_vars(SweepShard)

----------------------------------------------------------------------------
\* The cache is the map of its README: an entry is visible from the call that
\* wrote it until its deadline, a later call that replaces or deletes it, and
\* SetNX never replaces a visible one, although every call acts with a time
\* that it read before it had the lock, and cleaning and sweeping with theirs.
C == INSTANCE Cache WITH
        store <- [k \in Keys |-> IF k \in LiveKeys THEN entriesByKey[k] ELSE None],
        called <- [c \in Clients |->
                     IF call[c] # None /\ call[c].kind = "keys" THEN None ELSE call[c]]

Implements == C!Spec

\* Keys misses no key that was live during the whole call, whatever is written,
\* evicted or swept while it goes from shard to shard.
KeysComplete ==
    \A c \in Clients : lives[c] # {} =>
        \A k \in Keys :
            (ShardOf[k] < call[c].shard /\ \A l \in lives[c] : k \in l) => k \in call[c].found

\* The memory of an expired entry is reclaimed, also in a shard that nobody
\* writes to, unless the cache is stopped.
Reclaimed ==
    \A k \in Keys :
        (entriesByKey[k] # None /\ k \notin LiveKeys)
            ~> (entriesByKey[k] = None \/ k \in LiveKeys \/ sweeper # "run")
=============================================================================
