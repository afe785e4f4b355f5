----------------------------- MODULE Throttler -----------------------------
(***************************************************************************)
(* The rate limiter, guards/throttler/throttler.go: the three strategies   *)
(* on a cache.Cache backend.                                               *)
(*                                                                         *)
(* A request reads the clock, Gets what the backend has, and Sets what it  *)
(* makes of it: three steps, without a lock, between which other requests  *)
(* run and time passes.  Nothing is done about a Get or a Set that fails.  *)
(* Requests of one key (KeyFunc) are modelled; other keys have entries of  *)
(* their own.                                                              *)
(*                                                                         *)
(* What requests do not see of each other is counted: missed and unseen    *)
(* say by how much the limit can be exceeded.                              *)
(*                                                                         *)
(* Time is counted in seconds.  The tokens of a bucket are counted in      *)
(* units of 1/Window token, in which the code's floating-point refill of   *)
(* Limit tokens per Window is Limit units per second, exactly.             *)
(***************************************************************************)
EXTENDS Integers, FiniteSetsExt

CONSTANTS
    Requests,  \* goroutines that serve requests, one request at a time
    Strategies,\* those of "FixedWindow", "SlidingWindow" and "TokenBucket" to look at
    Limit,
    Window,    \* TTL in seconds
    MaxNow,    \* bound: the clock
    MaxServed, \* bound: the requests
    None       \* no entry, no denial

Times == 0 .. MaxNow
Entry == [val : Int, last : Times, exp : Nat]  \* what Set stores, and until when
Found == [val : Int, last : Times, prev : Int] \* what the Gets of a request found

ASSUME ThrottlerAssumption ==
    /\ Strategies \subseteq {"FixedWindow", "SlidingWindow", "TokenBucket"}
    /\ Limit \in Nat \ {0} /\ Window \in Nat \ {0} /\ {MaxNow, MaxServed} \subseteq Nat
    /\ None \notin Nat \cup Entry \cup Found

VARIABLES
    strategy,  \* the Strategy of the guard
    backend,   \* the entries of the cache: [val, exp], by key
    now,       \* the clock
    pc,        \* per request: "idle", "get" or "set"
    at,        \* per request: the time it read
    got,       \* per request: what it got
    served,    \* requests so far
    granted,   \* history: how many requests were allowed that read a time >= t, by t
    missed,    \* history: per request, the requests allowed on its entry that the
               \* value it got does not count
    unseen,    \* history: per entry, the requests allowed that its value does not count
    crowd,     \* history: whether another request was decided since one read the clock
    retryAt    \* history: per goroutine, resetAt of its last request if that was denied
               \* and no other request was decided meanwhile or since

vars == <<strategy, backend, now, pc, at, got, served,
          granted, missed, unseen, crowd, retryAt>>

WindowID(t) == t \div Window

\* cacheKey, currKey and prevKey.  A bucket has one entry.
CurrKey(t) ==
    CASE strategy = "FixedWindow"   -> <<"fw", WindowID(t)>>
      [] strategy = "SlidingWindow" -> <<"sw:c", WindowID(t)>>
      [] strategy = "TokenBucket"   -> <<"tb", 0>>
PrevKey(t) == <<"sw:p", WindowID(t) - 1>>
AllKeys == {CurrKey(t) : t \in Times} \cup {PrevKey(t) : t \in Times}

TypeOK ==
    /\ strategy \in Strategies
    /\ backend \in [AllKeys -> {None} \cup Entry]
    /\ now \in Times
    /\ pc \in [Requests -> {"idle", "get", "set"}]
    /\ at \in [Requests -> Times]
    /\ got \in [Requests -> {None} \cup Found]
    /\ served \in 0 .. MaxServed
    /\ granted \in [0 .. MaxNow + Window -> Nat]
    /\ missed \in [Requests -> Nat]
    /\ unseen \in [AllKeys -> Nat]
    /\ crowd \in [Requests -> BOOLEAN]
    /\ retryAt \in [Requests -> {None} \cup Nat]

Init ==
    /\ strategy \in Strategies
    /\ backend = [k \in AllKeys |-> None]
    /\ now = 0
    /\ pc = [r \in Requests |-> "idle"]
    /\ at = [r \in Requests |-> 0]
    /\ got = [r \in Requests |-> None]
    /\ served = 0
    /\ granted = [t \in 0 .. MaxNow + Window |-> 0]
    /\ missed = [r \in Requests |-> 0]
    /\ unseen = [k \in AllKeys |-> 0]
    /\ crowd = [r \in Requests |-> FALSE]
    /\ retryAt = [r \in Requests |-> None]

----------------------------------------------------------------------------
\* The end of the window of t.
WindowEnd(t) == (WindowID(t) + 1) * Window

\* The requests allowed from time a until before time b, and those of t's entry.
GrantedIn(a, b) == granted[a] - granted[b]
GrantedWith(t) ==
    IF strategy = "TokenBucket" THEN granted[0]
    ELSE GrantedIn(WindowID(t) * Window, WindowEnd(t))

\* Backend.Get
Get(k) == IF backend[k] # None /\ now < backend[k].exp THEN backend[k] ELSE None

\* check: the clock is read.
Arrive(r) ==
    /\ pc[r] = "idle"
    /\ served < MaxServed
    /\ served' = served + 1
    /\ at' = [at EXCEPT ![r] = now]
    /\ pc' = [pc EXCEPT ![r] = "get"]
    /\ UNCHANGED <<strategy, backend, now, got, granted, missed, unseen, crowd, retryAt>>

\* A request that calls the backend this long after it read the clock finds that its
\* entry may have expired: the window is over, or for the other strategies, whose
\* entries live longer, a whole window more has gone by.
Late(r) ==
    CASE strategy = "FixedWindow"   -> now >= WindowEnd(at[r])
      [] strategy = "SlidingWindow" -> now >= WindowEnd(at[r]) + Window
      [] strategy = "TokenBucket"   -> now > at[r] + Window

\* The entry, or none, also if the backend fails (~hit); slidingWindow also gets the
\* count of the last window.
GetEntry(r, hit) ==
    /\ pc[r] = "get"
    /\ LET e == IF hit THEN Get(CurrKey(at[r])) ELSE None
           p == IF hit THEN Get(PrevKey(at[r])) ELSE None
       IN  /\ got' = [got EXCEPT ![r] =
                         IF e = None /\ p = None THEN None
                         ELSE [val |-> IF e = None THEN 0 ELSE e.val,
                               last |-> IF e = None THEN 0 ELSE e.last,
                               prev |-> IF p = None THEN 0 ELSE p.val]]
           /\ missed' = [missed EXCEPT ![r] =
                            IF e = None /\ (Late(r) \/ ~hit) THEN GrantedWith(at[r]) ELSE 0]
    /\ pc' = [pc EXCEPT ![r] = "set"]
    /\ UNCHANGED <<strategy, backend, now, at, served, granted, unseen, crowd, retryAt>>

\* Backend.Set of CurrKey, whose error is ignored (~stored), and the outcome:
\* CanActivate returns, or panics with 429 and the time from which the caller may try
\* again.  A Set undoes what the request missed; the requests that have their Get
\* behind them miss this one.
Finish(r, val, ttl, isAllowed, resetAt, stored) ==
    LET k == CurrKey(at[r]) IN
    /\ backend' = IF stored
                  THEN [backend EXCEPT ![k] = [val |-> val, last |-> at[r], exp |-> now + ttl]]
                  ELSE backend
    /\ granted' = IF isAllowed
                  THEN [t \in DOMAIN granted |->
                          IF t <= at[r] THEN granted[t] + 1 ELSE granted[t]]
                  ELSE granted
    /\ unseen' = [unseen EXCEPT ![k] =
                    IF stored THEN @ + missed[r] ELSE IF isAllowed THEN @ + 1 ELSE @]
    /\ missed' = [s \in Requests |->
                    IF s = r THEN 0
                    ELSE IF /\ isAllowed /\ stored
                            /\ pc[s] = "set" /\ CurrKey(at[s]) = k
                         THEN missed[s] + 1 ELSE missed[s]]
    /\ crowd' = [s \in Requests |-> s # r /\ pc[s] # "idle"]
    /\ retryAt' = [s \in Requests |->
                     IF s = r /\ ~isAllowed /\ ~crowd[r] THEN resetAt ELSE None]
    /\ got' = [got EXCEPT ![r] = None]
    /\ pc' = [pc EXCEPT ![r] = "idle"]
    /\ UNCHANGED <<strategy, now, at, served>>

\* The count with this request.
CountOf(r) == IF got[r] = None THEN 1 ELSE got[r].val + 1

\* Mutant: the entry expires a second before the window ends.
FixedWindow_ShortTTL(r, stored) ==
    LET left == WindowEnd(at[r]) - at[r] - 1 IN
    Finish(r, CountOf(r), left, CountOf(r) <= Limit, WindowEnd(at[r]), stored)

\* Mutant: the reset is the end of the window before.
FixedWindow_EarlyReset(r, stored) ==
    Finish(r, CountOf(r), WindowEnd(at[r]) - at[r], CountOf(r) <= Limit,
           WindowID(at[r]) * Window, stored)

\* fixedWindow
FixedWindow(r, stored) ==
    Finish(r, CountOf(r), WindowEnd(at[r]) - at[r], CountOf(r) <= Limit, WindowEnd(at[r]), stored)

\* math.Round of a / b, for naturals.
Round(a, b) == (2 * a + b) \div (2 * b)

\* slidingWindow: nothing is ever Set under PrevKey.
SlidingWindow(r, stored) ==
    LET prev == IF got[r] = None THEN 0 ELSE got[r].prev
        elapsed == at[r] - WindowID(at[r]) * Window
        weighted == Round(prev * (Window - elapsed), Window) + CountOf(r)
    IN  Finish(r, CountOf(r), 2 * Window, weighted <= Limit, WindowEnd(at[r]), stored)

\* The tokens of the bucket, refilled.
Tokens(r) ==
    IF got[r] = None THEN Limit * Window
    ELSE Min({Limit * Window, got[r].val + (at[r] - got[r].last) * Limit})

\* Mutant: a bucket is forgotten before it would be full again.
TokenBucket_ShortTTL(r, stored) ==
    LET isAllowed == Tokens(r) >= Window IN
    Finish(r, IF isAllowed THEN Tokens(r) - Window ELSE Tokens(r), Window - 1,
           isAllowed, at[r], stored)

\* tokenBucket: resetAt is rounded down to a second.
TokenBucket(r, stored) ==
    LET isAllowed == Tokens(r) >= Window IN
    Finish(r, IF isAllowed THEN Tokens(r) - Window ELSE Tokens(r), 2 * Window,
           isAllowed, at[r] + (Window - Tokens(r)) \div Limit, stored)

Decide(r) ==
    /\ pc[r] = "set"
    /\ \E stored \in BOOLEAN :
          \/ strategy = "FixedWindow" /\ FixedWindow(r, stored)
          \/ strategy = "SlidingWindow" /\ SlidingWindow(r, stored)
          \/ strategy = "TokenBucket" /\ TokenBucket(r, stored)

Tick ==
    /\ now < MaxNow
    /\ now' = now + 1
    /\ UNCHANGED <<strategy, backend, pc, at, got, served,
                   granted, missed, unseen, crowd, retryAt>>

Next ==
    \/ \E r \in Requests : Arrive(r) \/ (\E hit \in BOOLEAN : GetEntry(r, hit)) \/ Decide(r)
    \/ Tick

Spec == Init /\ [][Next]_vars

----------------------------------------------------------------------------
\* README, Limit: "Maximum number of requests allowed within each TTL window."  The
\* code exceeds it, by no more than the requests that were allowed and that the count
\* of the window has lost: to another request's Get and Set around them
\* (throttler.go:93 and :100), to a failing backend, or to a request so late that the
\* count may have expired.  No expiry and no boundary of a window lets one more through.
LimitPerWindow ==
    strategy # "TokenBucket" =>
    \A t \in Times : GrantedWith(t) <= Limit + unseen[CurrKey(t)]

\* README, TokenBucket: a burst of at most Limit, and then the refill, in every
\* interval of time, also when the bucket has been forgotten by the backend.  Exceeded
\* by no more than the requests that were allowed and that the bucket has lost.
TokenRate ==
    strategy = "TokenBucket" =>
    \A t1 \in Times : \A t2 \in t1 .. MaxNow :
        GrantedIn(t1, t2 + 1) * Window
            <= Limit * Window + (t2 - t1) * Limit + unseen[CurrKey(t1)] * Window

\* README, Response headers: Retry-After is the "Seconds to wait before retrying":
\* who was denied and has waited that long is let through, if no other request of the
\* key was decided since it came.  A token bucket rounds the time down, to a moment
\* when there is no token yet (throttler.go:178): there it takes one second more.
\* Nothing is claimed of a sliding window, where resetAt only begins to discount.
RetryHonoured ==
    [][strategy # "SlidingWindow" => \A r \in Requests :
          LET rounded == IF strategy = "TokenBucket" THEN 1 ELSE 0 IN
          (retryAt[r] # None /\ pc[r] = "set" /\ pc'[r] = "idle" /\ at[r] >= retryAt[r] + rounded)
              => granted'[at[r]] = granted[at[r]] + 1]_vars
=============================================================================
