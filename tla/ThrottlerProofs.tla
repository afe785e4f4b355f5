-------------------------- MODULE ThrottlerProofs --------------------------
(***************************************************************************)
(* Proofs about Throttler, for every limit, window and strategy and any    *)
(* number of requests at a time: what the guard promises, up to what       *)
(* requests have not seen of each other.                                   *)
(***************************************************************************)
EXTENDS Throttler, TLAPS

----------------------------------------------------------------------------
(* The parts of the inductive invariant.                                   *)

\* A request has read the clock, and entries are of requests that have.
Past ==
    /\ \A r \in Requests : at[r] <= now
    /\ \A t \in Times : backend[CurrKey(t)] # None => backend[CurrKey(t)].last <= now

\* Of later times there are no more grants than of earlier ones.
Falling == \A t, u \in DOMAIN granted : t <= u => granted[u] <= granted[t]

\* The count of the window before is never found.
NoPrev == \A t \in Times : backend[PrevKey(t)] = None

\* How long an entry outlives its window.
Spare == IF strategy = "FixedWindow" THEN 0 ELSE Window

\* The entry of a window counts its grants but for those unseen, and lives until a
\* request of the window is late.
Counts(e, t, n, u) ==
    /\ n <= Limit + u
    /\ e = None => n <= u
    /\ e # None => /\ e.val >= 0 /\ n <= e.val + u
                   /\ WindowID(e.last) = WindowID(t)
                   /\ WindowEnd(t) + Spare <= e.exp

Counted ==
    strategy # "TokenBucket" =>
    \A t \in Times : Counts(backend[CurrKey(t)], t, GrantedWith(t), unseen[CurrKey(t)])

\* What a request got counts the grants but for those unseen and those it missed.
CountGot ==
    strategy # "TokenBucket" =>
    \A r \in Requests : pc[r] = "set" =>
        /\ got[r] # None => got[r].val >= 0 /\ got[r].prev = 0
        /\ GrantedWith(at[r]) + 1 <= CountOf(r) + unseen[CurrKey(at[r])] + missed[r]

Capacity == Limit * Window

\* What a bucket that had v tokens at time l has, or had, at time t.
Fill(v, l, t) == IF v + (t - l) * Limit <= Capacity THEN v + (t - l) * Limit ELSE Capacity

\* What was granted since a time, and what there was at the time, is a full bucket
\* at most, but for u tokens.
Covers(v, l, u) ==
    \A t \in Times : granted[t] * Window + Fill(v, l, t) <= Capacity + u * Window

Filled ==
    strategy = "TokenBucket" =>
    \A t \in Times : LET e == backend[CurrKey(t)] IN
        /\ e = None => granted[0] <= unseen[CurrKey(t)]
        /\ e # None => /\ e.val <= Capacity /\ e.exp <= now + 2 * Window
                       /\ 0 <= e.val + (e.exp - 2 * Window - e.last) * Limit
                       /\ Covers(e.val, e.last, unseen[CurrKey(t)])

FillGot ==
    strategy = "TokenBucket" =>
    \A r \in Requests : pc[r] = "set" =>
        /\ 0 <= Tokens(r) + (now - at[r]) * Limit
        /\ Covers(Tokens(r), at[r], unseen[CurrKey(at[r])] + missed[r])

\* While no other request is decided, the backend is as it was when a request came.
Alone ==
    \A r \in Requests : pc[r] # "idle" /\ ~crowd[r] =>
        \A t \in Times : backend[CurrKey(t)] # None =>
            /\ backend[CurrKey(t)].last <= at[r]
            /\ pc[r] = "set" /\ got[r] # None /\ CurrKey(t) = CurrKey(at[r]) =>
                  got[r].val = backend[CurrKey(t)].val /\ got[r].last = backend[CurrKey(t)].last

\* Nothing has been counted in the windows a denied request is told to wait for.
WaitsWindow ==
    strategy = "FixedWindow" =>
    \A r \in Requests : retryAt[r] # None =>
        /\ \A t \in Times : retryAt[r] <= t => backend[CurrKey(t)] = None
        /\ pc[r] = "set" /\ retryAt[r] <= at[r] => got[r] = None

\* There is a token one second after the time a denied request is told to wait for.
WaitsToken ==
    strategy = "TokenBucket" =>
    \A r \in Requests : retryAt[r] # None =>
        /\ \A t \in Times : retryAt[r] < t /\ backend[CurrKey(t)] # None =>
              backend[CurrKey(t)].val + (t - backend[CurrKey(t)].last) * Limit >= Window
        /\ pc[r] = "set" /\ retryAt[r] < at[r] => Tokens(r) >= Window

Inv ==
    /\ TypeOK /\ Past /\ Falling /\ NoPrev
    /\ Counted /\ CountGot
    /\ Filled /\ FillGot /\ TokenRate
    /\ Alone /\ WaitsWindow /\ WaitsToken

----------------------------------------------------------------------------
(* Arithmetic of windows and rates.                                        *)

\* Integer division: a time is in its window, and later windows begin after it.
LEMMA WindowFacts ==
    ASSUME NEW t \in Nat, NEW u \in Nat
    PROVE  /\ WindowID(t) \in Nat /\ WindowEnd(t) \in Nat
           /\ WindowID(t) * Window <= t /\ t < WindowEnd(t) /\ WindowEnd(t) <= t + Window
           /\ t <= u => WindowID(t) <= WindowID(u)
           /\ WindowEnd(t) <= u => WindowID(t) < WindowID(u)
<1>1. \A v \in Nat : /\ v \div Window \in Nat /\ (v \div Window) * Window <= v
                     /\ v < (v \div Window + 1) * Window
  BY ThrottlerAssumption
<1>2. \A v \in Nat : (v \div Window + 1) * Window = (v \div Window) * Window + Window
  BY <1>1, ThrottlerAssumption
<1>3. \A a, b \in Nat : a <= b => a * Window <= b * Window
  BY ThrottlerAssumption
<1> DEFINE x == t \div Window
           y == u \div Window
<1>4. x \in Nat /\ y \in Nat /\ Window \in Nat
  BY <1>1, ThrottlerAssumption
<1>5. t <= u => x <= y
  <2> SUFFICES ASSUME t <= u, y < x PROVE FALSE
    BY <1>4
  <2>1. (y + 1) * Window <= x * Window
    BY <1>3, <1>4
  <2> QED BY <2>1, <1>1, <1>4
<1>6. (x + 1) * Window <= u => x < y
  <2> SUFFICES ASSUME (x + 1) * Window <= u, y <= x PROVE FALSE
    BY <1>4
  <2>1. (y + 1) * Window <= (x + 1) * Window
    BY <1>3, <1>4
  <2> QED BY <2>1, <1>1, <1>4
<1>7. (x + 1) * Window \in Nat /\ x * Window \in Nat
  BY <1>4
<1> QED BY <1>1, <1>2, <1>5, <1>6, <1>7, <1>4 DEF WindowID, WindowEnd

\* math.Round of nothing.
LEMMA RoundZero == ASSUME NEW x \in Nat PROVE Round(0 * x, Window) = 0
<1>1. Window \div (2 * Window) = 0
  BY ThrottlerAssumption
<1>2. 0 * x = 0 /\ 2 * 0 + Window = Window
  BY ThrottlerAssumption
<1> QED BY <1>1, <1>2 DEF Round

\* Times a rate, or a cost, keeps the order.
LEMMA TimesKeeps ==
    ASSUME NEW a \in Int, NEW b \in Int, a <= b, NEW c \in Nat PROVE a * c <= b * c
OBVIOUS

\* math.Min of tokenBucket is the smaller of the two.
LEMMA MinFacts ==
    ASSUME NEW a \in Int, NEW b \in Int
    PROVE  Min({a, b}) = IF a <= b THEN a ELSE b
<1> DEFINE m == IF a <= b THEN a ELSE b
<1>1. m \in {a, b} /\ \A y \in {a, b} : m <= y
  OBVIOUS
<1>2. ASSUME NEW z \in {a, b}, \A y \in {a, b} : z <= y PROVE z = m
  BY <1>2
<1> HIDE DEF m
<1>3. (CHOOSE z \in {a, b} : \A y \in {a, b} : z <= y) = m
  BY <1>1, <1>2
<1> QED BY <1>3 DEF Min, m

----------------------------------------------------------------------------
\* The keys of the backend: one per window, or one for the bucket.
LEMMA KeyFacts ==
    ASSUME strategy \in Strategies, NEW t \in Times, NEW u \in Times
    PROVE  /\ CurrKey(t) \in AllKeys /\ PrevKey(t) \in AllKeys /\ CurrKey(t) # PrevKey(u)
           /\ strategy = "TokenBucket" => CurrKey(t) = CurrKey(u)
           /\ strategy # "TokenBucket" => (CurrKey(t) = CurrKey(u) <=> WindowID(t) = WindowID(u))
<1>1. CurrKey(t) \in AllKeys /\ PrevKey(t) \in AllKeys
  BY DEF AllKeys
<1>2. strategy = "FixedWindow" \/ strategy = "SlidingWindow" \/ strategy = "TokenBucket"
  BY ThrottlerAssumption
<1>3. CASE strategy = "FixedWindow"
  <2>1. CurrKey(t) = <<"fw", WindowID(t)>> /\ CurrKey(u) = <<"fw", WindowID(u)>>
    BY <1>3 DEF CurrKey
  <2> QED BY <1>1, <1>3, <2>1 DEF PrevKey
<1>4. CASE strategy = "SlidingWindow"
  <2>1. CurrKey(t) = <<"sw:c", WindowID(t)>> /\ CurrKey(u) = <<"sw:c", WindowID(u)>>
    BY <1>4 DEF CurrKey
  <2> QED BY <1>1, <1>4, <2>1 DEF PrevKey
<1>5. CASE strategy = "TokenBucket"
  <2>1. CurrKey(t) = <<"tb", 0>> /\ CurrKey(u) = <<"tb", 0>>
    BY <1>5 DEF CurrKey
  <2> QED BY <1>1, <1>5, <2>1 DEF PrevKey
<1> QED BY <1>2, <1>3, <1>4, <1>5

\* The strategy does not change, and so the keys do not.
LEMMA SameKeys ==
    ASSUME UNCHANGED strategy
    PROVE  /\ AllKeys' = AllKeys
           /\ \A t \in Times : CurrKey(t)' = CurrKey(t) /\ PrevKey(t)' = PrevKey(t)
<1>1. \A t \in Times : CurrKey(t)' = CurrKey(t) /\ PrevKey(t)' = PrevKey(t)
  BY DEF CurrKey, PrevKey, WindowID
<1> QED BY <1>1 DEF AllKeys

\* The grants of an entry are a natural number of them.
LEMMA GrantFacts ==
    ASSUME TypeOK, Falling, NEW t \in Times
    PROVE  /\ WindowID(t) * Window \in DOMAIN granted /\ WindowEnd(t) \in DOMAIN granted
           /\ 0 \in DOMAIN granted /\ t \in DOMAIN granted /\ t + 1 \in DOMAIN granted
           /\ GrantedWith(t) \in Nat
           /\ granted[t] \in Nat /\ granted[t] <= granted[0]
<1>1. t \in Nat /\ t <= MaxNow /\ MaxNow \in Nat /\ Window \in Nat \ {0}
  BY ThrottlerAssumption DEF Times
<1>2. DOMAIN granted = 0 .. MaxNow + Window /\ \A u \in DOMAIN granted : granted[u] \in Nat
  BY DEF TypeOK
<1>3. /\ WindowID(t) \in Nat /\ WindowEnd(t) \in Nat /\ WindowID(t) * Window <= t
      /\ t < WindowEnd(t) /\ WindowEnd(t) <= t + Window
  BY <1>1, WindowFacts
<1> DEFINE a == WindowID(t) * Window
           b == WindowEnd(t)
<1>4. a \in Nat
  BY <1>1, <1>3
<1> HIDE DEF a, b
<1>5. a \in DOMAIN granted /\ b \in DOMAIN granted /\ a <= b
  <2>1. a <= t /\ b \in Nat /\ t < b /\ b <= t + Window
    BY <1>3 DEF a, b
  <2> QED BY <2>1, <1>1, <1>2, <1>4
<1>6. 0 \in DOMAIN granted /\ t \in DOMAIN granted /\ t + 1 \in DOMAIN granted
  BY <1>1, <1>2
<1>7. granted[b] <= granted[a] /\ granted[a] \in Nat /\ granted[b] \in Nat
  BY <1>2, <1>5 DEF Falling
<1>8. GrantedWith(t) \in Nat
  BY <1>2, <1>6, <1>7 DEF GrantedWith, GrantedIn, a, b
<1>9. granted[t] \in Nat /\ granted[t] <= granted[0]
  BY <1>1, <1>2, <1>6 DEF Falling
<1> QED BY <1>5, <1>6, <1>8, <1>9 DEF a, b

\* math.Min of tokenBucket fills the bucket up to its capacity.
LEMMA FillIs ==
    ASSUME NEW v \in Int, NEW l \in Int, NEW a \in Int
    PROVE  /\ Min({Limit * Window, v + (a - l) * Limit}) = Fill(v, l, a)
           /\ Fill(v, l, a) \in Int /\ Fill(v, l, a) <= Capacity
           /\ Capacity \in Nat /\ Window <= Capacity
<1> DEFINE x == v + (a - l) * Limit
<1>1. Limit \in Nat \ {0} /\ Window \in Nat \ {0}
  BY ThrottlerAssumption
<1>2. x \in Int
  BY <1>1
<1>3. Capacity \in Nat /\ Window <= Capacity
  <2>1. 1 * Window <= Limit * Window
    BY <1>1
  <2> QED BY <1>1, <2>1 DEF Capacity
<1>4. Fill(v, l, a) = IF x <= Capacity THEN x ELSE Capacity
  BY DEF Fill
<1> HIDE DEF x
<1>5. Min({Capacity, x}) = IF Capacity <= x THEN Capacity ELSE x
  BY <1>2, <1>3, MinFacts
<1>6. Min({Capacity, x}) = Fill(v, l, a) /\ Fill(v, l, a) \in Int /\ Fill(v, l, a) <= Capacity
  BY <1>2, <1>3, <1>4, <1>5
<1> QED BY <1>3, <1>6 DEF x, Capacity

\* The tokens a request finds: a full bucket, or what the entry has filled up to.
LEMMA TokensFound ==
    ASSUME TypeOK, NEW r \in Requests
    PROVE  /\ Tokens(r) = IF got[r] = None THEN Capacity ELSE Fill(got[r].val, got[r].last, at[r])
           /\ Tokens(r) \in Int /\ Tokens(r) <= Capacity /\ Capacity \in Nat /\ Window <= Capacity
<1>1. at[r] \in Int /\ 0 \in Int
  BY DEF TypeOK, Times
<1>2. Capacity \in Nat /\ Window <= Capacity
  BY <1>1, FillIs
<1>3. CASE got[r] = None
  BY <1>2, <1>3 DEF Tokens, Capacity
<1>4. CASE got[r] # None
  <2>1. got[r].val \in Int /\ got[r].last \in Int
    BY <1>4 DEF TypeOK, Found, Times
  <2> DEFINE x == Fill(got[r].val, got[r].last, at[r])
  <2>2. /\ Min({Limit * Window, got[r].val + (at[r] - got[r].last) * Limit}) = x
        /\ x \in Int /\ x <= Capacity
    BY <1>1, <2>1, FillIs, Zenon
  <2> HIDE DEF x
  <2>3. Tokens(r) = x
    BY <1>4, <2>2 DEF Tokens
  <2> QED BY <1>2, <1>4, <2>2, <2>3 DEF x
<1> QED BY <1>3, <1>4

\* At first nothing has been counted.
LEMMA InitInv == Init => Inv
<1> SUFFICES ASSUME Init PROVE Inv
  OBVIOUS
<1> USE DEF Init
<1>1. 0 \in Times /\ MaxNow \in Nat /\ Window \in Nat /\ Limit \in Nat
  BY ThrottlerAssumption DEF Times
<1>2. TypeOK
  BY <1>1, ThrottlerAssumption DEF TypeOK
<1>3. Falling
  BY DEF Falling
<1>4. \A t \in Times : GrantedWith(t) = 0 /\ granted[t] = 0 /\ granted[t + 1] = 0 /\ granted[0] = 0
  <2> TAKE t \in Times
  <2>1. /\ WindowID(t) * Window \in DOMAIN granted /\ WindowEnd(t) \in DOMAIN granted
        /\ 0 \in DOMAIN granted /\ t \in DOMAIN granted /\ t + 1 \in DOMAIN granted
    BY <1>2, <1>3, GrantFacts
  <2> QED BY <2>1 DEF GrantedWith, GrantedIn
<1>5. \A t \in Times : /\ CurrKey(t) \in AllKeys /\ PrevKey(t) \in AllKeys
                       /\ backend[CurrKey(t)] = None /\ backend[PrevKey(t)] = None
                       /\ unseen[CurrKey(t)] = 0
  BY DEF AllKeys
<1>6. Past /\ NoPrev /\ CountGot /\ FillGot /\ Alone /\ WaitsWindow /\ WaitsToken
  BY <1>1, <1>5 DEF Past, NoPrev, CountGot, FillGot, Alone, WaitsWindow, WaitsToken
<1>7. Counted
  BY <1>1, <1>4, <1>5 DEF Counted, Counts
<1>8. Filled
  BY <1>1, <1>4, <1>5 DEF Filled
<1>9. TokenRate
  <2> SUFFICES ASSUME NEW t1 \in Times, NEW t2 \in t1 .. MaxNow
               PROVE  GrantedIn(t1, t2 + 1) * Window
                        <= Limit * Window + (t2 - t1) * Limit + unseen[CurrKey(t1)] * Window
    BY DEF TokenRate
  <2>1. t2 \in Times /\ t2 - t1 \in Nat
    BY <1>1 DEF Times
  <2>2. GrantedIn(t1, t2 + 1) = 0 /\ unseen[CurrKey(t1)] = 0
    <3>1. granted[t1] = 0 /\ granted[t2 + 1] = 0 /\ unseen[CurrKey(t1)] = 0
      BY <1>4, <1>5, <2>1
    <3>2. 0 - 0 = 0
      OBVIOUS
    <3> QED BY <3>1, <3>2 DEF GrantedIn
  <2>3. 0 * Window <= Limit * Window + (t2 - t1) * Limit + 0 * Window
    BY <1>1, <2>1
  <2> QED BY <2>2, <2>3
<1> QED BY <1>2, <1>3, <1>6, <1>7, <1>8, <1>9 DEF Inv

\* Nothing of the counts changes while the clock moves, or a request reads it.
LEMMA ClockInv ==
    ASSUME Inv, Tick \/ (\E r \in Requests : Arrive(r)) \/ UNCHANGED vars
    PROVE  Inv'
<1> USE DEF Inv
<1>1. /\ strategy' = strategy /\ backend' = backend /\ got' = got /\ granted' = granted
      /\ missed' = missed /\ unseen' = unseen /\ crowd' = crowd /\ retryAt' = retryAt
  BY DEF Tick, Arrive, vars
<1>2. /\ AllKeys' = AllKeys
      /\ \A t \in Times : CurrKey(t)' = CurrKey(t) /\ PrevKey(t)' = PrevKey(t)
  BY <1>1, SameKeys
<1>3. \A t \in Times : GrantedWith(t)' = GrantedWith(t)
  BY <1>1 DEF GrantedWith, GrantedIn, WindowID, WindowEnd
<1>4. /\ MaxNow \in Nat /\ Limit \in Nat /\ Window \in Nat /\ now \in Nat
      /\ now' \in Nat /\ now <= now' /\ now' \in Times
  BY ThrottlerAssumption DEF Tick, Arrive, vars, TypeOK, Times
<1>5. ASSUME NEW s \in Requests
      PROVE  \/ at'[s] = at[s] /\ pc'[s] = pc[s]
             \/ at'[s] = now' /\ pc'[s] = "get" /\ pc[s] = "idle" /\ now' = now
  BY DEF Tick, Arrive, vars, TypeOK
<1>6. ASSUME NEW s \in Requests PROVE at[s] \in Times /\ at'[s] \in Times
  BY <1>4, <1>5 DEF TypeOK
<1>7. TypeOK'
  <2>1. served' \in 0 .. MaxServed
    BY ThrottlerAssumption DEF Tick, Arrive, vars, TypeOK
  <2>2. at' \in [Requests -> Times] /\ pc' \in [Requests -> {"idle", "get", "set"}]
    <3>1. CASE Tick \/ UNCHANGED vars
      BY <3>1 DEF Tick, vars, TypeOK
    <3>2. ASSUME NEW r \in Requests, Arrive(r)
          PROVE  at' \in [Requests -> Times] /\ pc' \in [Requests -> {"idle", "get", "set"}]
      BY <3>2 DEF Arrive, TypeOK
    <3> QED BY <3>1, <3>2
  <2> QED BY <1>1, <1>2, <1>4, <2>1, <2>2 DEF TypeOK
<1>8. Past'
  <2>1. \A s \in Requests : at'[s] <= now'
    BY <1>4, <1>5, <1>6, ThrottlerAssumption DEF Past, Times
  <2>2. ASSUME NEW t \in Times, backend[CurrKey(t)] # None
        PROVE  backend[CurrKey(t)].last <= now'
    <3>1. backend[CurrKey(t)].last \in Nat /\ backend[CurrKey(t)].last <= now
      BY <2>2, KeyFacts DEF Past, TypeOK, Entry, Times
    <3> QED BY <3>1, <1>4
  <2> QED BY <2>1, <2>2, <1>1, <1>2 DEF Past
<1>9. Falling' /\ NoPrev' /\ Counted' /\ TokenRate'
  <2>1. Falling' /\ NoPrev'
    BY <1>1, <1>2 DEF Falling, NoPrev
  <2>2. Counted'
    BY <1>1, <1>2, <1>3 DEF Counted, Counts, WindowID, WindowEnd, Spare
  <2>3. TokenRate'
    BY <1>1, <1>2 DEF TokenRate, GrantedIn
  <2> QED BY <2>1, <2>2, <2>3
<1>10. \A v, l, u : Covers(v, l, u)' = Covers(v, l, u)
  BY <1>1 DEF Covers
<1>11. Filled'
  <2> SUFFICES ASSUME strategy = "TokenBucket", NEW t \in Times
               PROVE  LET e == backend[CurrKey(t)] IN
                      /\ e = None => granted[0] <= unseen[CurrKey(t)]
                      /\ e # None =>
                           /\ e.val <= Capacity /\ e.exp <= now' + 2 * Window
                           /\ 0 <= e.val + (e.exp - 2 * Window - e.last) * Limit
                           /\ Covers(e.val, e.last, unseen[CurrKey(t)])
    BY <1>1, <1>2, <1>10 DEF Filled, Covers
  <2> DEFINE e == backend[CurrKey(t)]
  <2>1. e # None => e.exp \in Nat /\ e.exp <= now + 2 * Window
    BY KeyFacts DEF Filled, TypeOK, Entry
  <2>2. e # None => e.exp <= now' + 2 * Window
    BY <2>1, <1>4
  <2> QED BY <2>2 DEF Filled
<1>12. ASSUME NEW s \in Requests, pc'[s] = "set"
       PROVE  at'[s] = at[s] /\ pc[s] = "set" /\ CountOf(s)' = CountOf(s) /\ Tokens(s)' = Tokens(s)
              /\ CurrKey(at[s])' = CurrKey(at[s]) /\ GrantedWith(at[s])' = GrantedWith(at[s])
  <2>1. at'[s] = at[s] /\ pc[s] = "set"
    BY <1>5, <1>12
  <2>2. CountOf(s)' = CountOf(s) /\ Tokens(s)' = Tokens(s)
    BY <1>1, <2>1 DEF CountOf, Tokens
  <2>3. CurrKey(at[s])' = CurrKey(at[s])
    BY <1>1, <2>1 DEF CurrKey, WindowID
  <2>4. GrantedWith(at[s])' = GrantedWith(at[s])
    BY <1>1, <2>1 DEF GrantedWith, GrantedIn, WindowID, WindowEnd
  <2> QED BY <2>1, <2>2, <2>3, <2>4
<1>13. CountGot'
  BY <1>1, <1>12 DEF CountGot
<1>14. FillGot'
  <2> SUFFICES ASSUME strategy = "TokenBucket", NEW s \in Requests, pc'[s] = "set"
               PROVE  /\ 0 <= Tokens(s) + (now' - at[s]) * Limit
                      /\ Covers(Tokens(s), at[s], unseen[CurrKey(at[s])] + missed[s])
    BY <1>1, <1>10, <1>12 DEF FillGot, Covers
  <2>1. /\ 0 <= Tokens(s) + (now - at[s]) * Limit
        /\ Covers(Tokens(s), at[s], unseen[CurrKey(at[s])] + missed[s])
    BY <1>12 DEF FillGot
  <2>2. Tokens(s) \in Int /\ at[s] \in Int
    BY <1>4, <1>6, TokensFound DEF Times
  <2>3. (now - at[s]) * Limit <= (now' - at[s]) * Limit
    BY <1>4, <2>2
  <2>4. (now - at[s]) * Limit \in Int /\ (now' - at[s]) * Limit \in Int
    BY <1>4, <2>2
  <2> QED BY <2>1, <2>2, <2>3, <2>4
<1>15. Alone'
  <2> SUFFICES ASSUME NEW s \in Requests, pc'[s] # "idle", ~crowd[s],
                      NEW t \in Times, backend[CurrKey(t)] # None
               PROVE  /\ backend[CurrKey(t)].last <= at'[s]
                      /\ pc'[s] = "set" /\ got[s] # None /\ CurrKey(t) = CurrKey(at[s])' =>
                            /\ got[s].val = backend[CurrKey(t)].val
                            /\ got[s].last = backend[CurrKey(t)].last
    BY <1>1, <1>2 DEF Alone
  <2>1. CASE at'[s] = at[s] /\ pc'[s] = pc[s]
    <3>1. CurrKey(at[s])' = CurrKey(at[s])
      BY <1>1, <2>1 DEF CurrKey, WindowID
    <3> QED BY <2>1, <3>1 DEF Alone
  <2>2. CASE at'[s] = now' /\ pc'[s] = "get" /\ now' = now
    BY <2>2 DEF Past
  <2> QED BY <2>1, <2>2, <1>5
<1>16. WaitsWindow' /\ WaitsToken'
  <2>1. \A s \in Requests : pc'[s] = "set" => at'[s] = at[s] /\ pc[s] = "set" /\ Tokens(s)' = Tokens(s)
    BY <1>12
  <2>2. WaitsWindow'
    BY <1>1, <1>2, <2>1 DEF WaitsWindow
  <2>3. WaitsToken'
    BY <1>1, <1>2, <2>1 DEF WaitsToken
  <2> QED BY <2>2, <2>3
<1> QED BY <1>7, <1>8, <1>9, <1>11, <1>13, <1>14, <1>15, <1>16

\* The refill of two intervals is that of both.
LEMMA Refill ==
    ASSUME NEW a \in Int, NEW b \in Int, NEW c \in Int, NEW m \in Nat
    PROVE  /\ (a - b) * m \in Int /\ (b - c) * m \in Int /\ (a - c) * m \in Int
           /\ (a - b) * m + (b - c) * m = (a - c) * m
           /\ b <= a => 0 <= (a - b) * m
<1> DEFINE x == a * m
           y == b * m
           z == c * m
<1>1. x \in Int /\ y \in Int /\ z \in Int
  OBVIOUS
<1>2. (a - b) * m = x - y /\ (b - c) * m = y - z /\ (a - c) * m = x - z
  OBVIOUS
<1>3. b <= a => y <= x
  BY TimesKeeps
<1> HIDE DEF x, y, z
<1> QED BY <1>1, <1>2, <1>3

\* A bucket that is read at time a, and filled up from there, has no more at any time
\* than it had before.
LEMMA FillFrom ==
    ASSUME NEW v \in Int, NEW l \in Int, NEW a \in Int, NEW t \in Int,
           Capacity \in Nat, Limit \in Nat
    PROVE  /\ Fill(v, l, t) \in Int /\ Fill(v, l, t) <= Capacity
           /\ Fill(v, l, a) \in Int
           /\ Fill(Fill(v, l, a), a, t) <= Fill(v, l, t)
<1> DEFINE x == (a - l) * Limit
           y == (t - a) * Limit
           z == (t - l) * Limit
<1>1. x \in Int /\ y \in Int /\ z \in Int /\ y + x = z
  BY Refill
<1> HIDE DEF x, y, z
<1>2. Fill(v, l, t) = IF v + z <= Capacity THEN v + z ELSE Capacity
  BY DEF Fill, z
<1>3. Fill(v, l, a) = IF v + x <= Capacity THEN v + x ELSE Capacity
  BY DEF Fill, x
<1>4. \A f : Fill(f, a, t) = IF f + y <= Capacity THEN f + y ELSE Capacity
  BY DEF Fill, y
<1>5. Fill(v, l, a) \in Int /\ Fill(v, l, t) \in Int /\ Fill(v, l, t) <= Capacity
  BY <1>1, <1>2, <1>3
<1>6. Fill(v, l, a) <= v + x
  BY <1>1, <1>3
<1>7. Fill(Fill(v, l, a), a, t) <= Fill(v, l, t)
  BY <1>1, <1>2, <1>4, <1>5, <1>6
<1> QED BY <1>5, <1>7

\* When a request of a window finds that its entry may have expired.
LEMMA LateIs ==
    ASSUME strategy \in Strategies, NEW r \in Requests, at[r] \in Nat
    PROVE  /\ Spare \in Nat
           /\ strategy # "TokenBucket" => (Late(r) <=> now >= WindowEnd(at[r]) + Spare)
           /\ strategy = "TokenBucket" => (Late(r) <=> now > at[r] + Window)
<1>1. strategy = "FixedWindow" \/ strategy = "SlidingWindow" \/ strategy = "TokenBucket"
  BY ThrottlerAssumption
<1>2. WindowEnd(at[r]) \in Nat /\ Window \in Nat
  BY WindowFacts, ThrottlerAssumption
<1>3. CASE strategy = "FixedWindow"
  <2>1. (Late(r) <=> now >= WindowEnd(at[r])) /\ Spare = 0
    BY <1>3 DEF Late, Spare
  <2>2. WindowEnd(at[r]) + 0 = WindowEnd(at[r])
    BY <1>2
  <2> QED BY <1>3, <2>1, <2>2
<1>4. CASE strategy = "SlidingWindow"
  <2>1. (Late(r) <=> now >= WindowEnd(at[r]) + Window) /\ Spare = Window
    BY <1>4 DEF Late, Spare
  <2> QED BY <1>2, <1>4, <2>1
<1>5. CASE strategy = "TokenBucket"
  <2>1. (Late(r) <=> now > at[r] + Window) /\ Spare = Window
    BY <1>5 DEF Late, Spare
  <2> QED BY <1>2, <1>5, <2>1
<1> QED BY <1>1, <1>3, <1>4, <1>5

\* The Gets of a request: an entry of a window has not expired while the request is
\* not late, and a bucket that has would be full.
LEMMA GetInv ==
    ASSUME Inv, NEW r \in Requests, NEW hit \in BOOLEAN, GetEntry(r, hit)
    PROVE  Inv'
<1> USE DEF Inv
<1> DEFINE k == CurrKey(at[r])
           b == backend[k]
           e == IF hit THEN Get(k) ELSE None
           p == IF hit THEN Get(PrevKey(at[r])) ELSE None
           f == [val |-> e.val, last |-> e.last, prev |-> 0]
           n == GrantedWith(at[r])
           gone == e = None /\ (Late(r) \/ ~hit)
<1>1. /\ strategy' = strategy /\ backend' = backend /\ at' = at /\ granted' = granted
      /\ retryAt' = retryAt /\ now' = now /\ served' = served /\ unseen' = unseen
      /\ crowd' = crowd /\ pc[r] = "get" /\ pc' = [pc EXCEPT ![r] = "set"]
  BY DEF GetEntry
<1>2. /\ AllKeys' = AllKeys
      /\ \A t \in Times : CurrKey(t)' = CurrKey(t) /\ PrevKey(t)' = PrevKey(t)
  BY <1>1, SameKeys
<1>3. /\ at[r] \in Times /\ at[r] \in Nat /\ now \in Nat /\ at[r] <= now
      /\ MaxNow \in Nat /\ Limit \in Nat \ {0} /\ Window \in Nat \ {0}
      /\ b \in {None} \cup Entry /\ unseen[k] \in Nat /\ n \in Nat
      /\ strategy \in Strategies /\ Limit \in Nat /\ at[r] \in Int
  <2>1. at[r] \in Times /\ strategy \in Strategies /\ at[r] <= now
    BY DEF TypeOK, Past
  <2>2. /\ at[r] \in Nat /\ now \in Nat /\ MaxNow \in Nat /\ Limit \in Nat \ {0}
        /\ Window \in Nat \ {0}
    BY <2>1, ThrottlerAssumption DEF TypeOK, Times
  <2>3. k \in AllKeys
    BY <2>1, KeyFacts
  <2>4. n \in Nat
    BY <2>1, GrantFacts
  <2> QED BY <2>1, <2>2, <2>3, <2>4 DEF TypeOK
<1>4. p = None
  BY <1>3 DEF NoPrev, Get
<1>5. e # None => /\ e = b /\ e \in Entry
                  /\ e.val \in Int /\ e.last \in Times /\ e.last \in Int /\ e.exp \in Nat
  BY <1>3 DEF Get, Entry, Times
<1>6. e = None /\ ~gone => b = None \/ (b # None /\ b.exp <= now /\ ~Late(r) /\ b.exp \in Nat)
  BY <1>3 DEF Get, Entry
<1>7. got' = [got EXCEPT ![r] = IF e = None THEN None ELSE f]
  BY <1>4 DEF GetEntry
<1>8. missed' = [missed EXCEPT ![r] = IF gone THEN n ELSE 0]
  BY DEF GetEntry
<1>9. e # None => f \in Found /\ f # None /\ f.val = e.val /\ f.last = e.last /\ f.prev = 0
  BY <1>5, ThrottlerAssumption DEF Found
<1> HIDE DEF k, b, e, p, f, n, gone
<1>10. /\ got'[r] = (IF e = None THEN None ELSE f) /\ pc'[r] = "set"
       /\ missed'[r] = (IF gone THEN n ELSE 0)
       /\ \A s \in Requests \ {r} : got'[s] = got[s] /\ pc'[s] = pc[s] /\ missed'[s] = missed[s]
  BY <1>1, <1>7, <1>8 DEF TypeOK
<1>11. TypeOK'
  <2>1. got' \in [Requests -> {None} \cup Found]
    BY <1>7, <1>9 DEF TypeOK
  <2>2. missed' \in [Requests -> Nat]
    BY <1>3, <1>8 DEF TypeOK
  <2>3. pc' \in [Requests -> {"idle", "get", "set"}]
    BY <1>1 DEF TypeOK
  <2> QED BY <1>1, <1>2, <2>1, <2>2, <2>3 DEF TypeOK
<1>12. \A t \in Times : GrantedWith(t)' = GrantedWith(t)
  BY <1>1 DEF GrantedWith, GrantedIn, WindowID, WindowEnd
<1>13. Past' /\ Falling' /\ NoPrev' /\ Counted' /\ TokenRate' /\ Filled'
  <2>1. Past' /\ Falling' /\ NoPrev'
    BY <1>1, <1>2 DEF Past, Falling, NoPrev
  <2>2. Counted'
    BY <1>1, <1>2, <1>12 DEF Counted, Counts, WindowID, WindowEnd, Spare
  <2>3. TokenRate'
    BY <1>1, <1>2 DEF TokenRate, GrantedIn
  <2>4. Filled'
    BY <1>1, <1>2 DEF Filled, Covers
  <2> QED BY <2>1, <2>2, <2>3, <2>4
<1>14. \A s \in Requests : /\ at[s] \in Times /\ at'[s] = at[s]
                           /\ CurrKey(at[s])' = CurrKey(at[s])
                           /\ GrantedWith(at[s])' = GrantedWith(at[s])
  <2> TAKE s \in Requests
  <2>1. at[s] \in Times /\ at'[s] = at[s]
    BY <1>1 DEF TypeOK
  <2>2. CurrKey(at[s])' = CurrKey(at[s]) /\ GrantedWith(at[s])' = GrantedWith(at[s])
    BY <1>1 DEF CurrKey, GrantedWith, GrantedIn, WindowID, WindowEnd
  <2> QED BY <2>1, <2>2
<1>15. \A s \in Requests \ {r} : CountOf(s)' = CountOf(s) /\ Tokens(s)' = Tokens(s)
  BY <1>1, <1>10 DEF CountOf, Tokens
<1>16. CountOf(r)' = IF e = None THEN 1 ELSE e.val + 1
  BY <1>9, <1>10 DEF CountOf
<1>17. Tokens(r)' = IF e = None THEN Capacity ELSE Fill(e.val, e.last, at[r])
  <2>1. Tokens(r)' = IF got'[r] = None THEN Capacity
                     ELSE Fill(got'[r].val, got'[r].last, at'[r])
    <3>1. got'[r] # None => got'[r].val \in Int /\ got'[r].last \in Int
      BY <1>11 DEF TypeOK, Found, Times
    <3>2. Tokens(r)' = IF got'[r] = None THEN Limit * Window
                       ELSE Min({Limit * Window, got'[r].val + (at'[r] - got'[r].last) * Limit})
      BY DEF Tokens
    <3> QED BY <3>1, <3>2, <1>1, <1>3, FillIs DEF Capacity
  <2> QED BY <2>1, <1>9, <1>10, <1>14
<1>18. CountGot'
  <2> SUFFICES ASSUME strategy # "TokenBucket", NEW s \in Requests, pc'[s] = "set"
               PROVE  /\ got'[s] # None => got'[s].val >= 0 /\ got'[s].prev = 0
                      /\ GrantedWith(at[s]) + 1 <= CountOf(s)' + unseen[CurrKey(at[s])] + missed'[s]
    BY <1>1, <1>14 DEF CountGot
  <2>1. CASE s # r
    BY <2>1, <1>10, <1>15 DEF CountGot
  <2>2. CASE s = r
    <3>1. Counts(b, at[r], n, unseen[k])
      BY <1>3 DEF Counted, b, k, n
    <3>2. e # None => e.val >= 0 /\ n <= e.val + unseen[k]
      BY <1>5, <3>1 DEF Counts
    <3>3. e = None /\ ~gone => n <= unseen[k]
      <4>1. b # None => WindowEnd(at[r]) + Spare <= b.exp
        BY <3>1 DEF Counts
      <4>2. (Late(r) <=> now >= WindowEnd(at[r]) + Spare) /\ Spare \in Nat
        BY <1>3, LateIs
      <4>3. WindowEnd(at[r]) \in Nat
        BY <1>3, WindowFacts
      <4>4. e = None /\ ~gone => b = None
        BY <4>1, <4>2, <4>3, <1>3, <1>6
      <4> QED BY <4>4, <3>1 DEF Counts
    <3>4. n + 1 <= CountOf(r)' + unseen[k] + missed'[r]
      <4>1. CASE e # None
        <5>1. ~gone
          BY <4>1 DEF gone
        <5> QED BY <4>1, <5>1, <3>2, <1>3, <1>5, <1>10, <1>16
      <4>2. CASE e = None /\ gone
        BY <4>2, <1>3, <1>10, <1>16
      <4>3. CASE e = None /\ ~gone
        BY <4>3, <3>3, <1>3, <1>10, <1>16
      <4> QED BY <4>1, <4>2, <4>3
    <3> QED BY <2>2, <3>2, <3>4, <1>9, <1>10 DEF n, k
  <2> QED BY <2>1, <2>2
<1>19. \A v, l, u : Covers(v, l, u)' = Covers(v, l, u)
  BY <1>1 DEF Covers
<1>20. Capacity \in Nat /\ Window <= Capacity
  BY TokensFound
<1>21. ASSUME strategy = "TokenBucket"
       PROVE  /\ 0 <= Tokens(r)' + (now - at[r]) * Limit
              /\ Covers(Tokens(r)', at[r], unseen[k] + missed'[r])
  <2>1. b # None => /\ b.val <= Capacity /\ b.exp <= now + 2 * Window
                    /\ 0 <= b.val + (b.exp - 2 * Window - b.last) * Limit
                    /\ Covers(b.val, b.last, unseen[k])
    BY <1>3, <1>21 DEF Filled, b, k
  <2>2. b = None => granted[0] <= unseen[k]
    BY <1>3, <1>21 DEF Filled, b, k
  <2>3. b # None => b.val \in Int /\ b.last \in Int /\ b.exp \in Nat
    BY <1>3 DEF Entry, Times
  <2>4. b # None => Covers(Fill(b.val, b.last, at[r]), at[r], unseen[k])
    <3> SUFFICES ASSUME b # None, NEW t \in Times
                 PROVE  granted[t] * Window + Fill(Fill(b.val, b.last, at[r]), at[r], t)
                            <= Capacity + unseen[k] * Window
      BY DEF Covers
    <3> DEFINE g == granted[t] * Window
               x == Fill(b.val, b.last, t)
               y == Fill(Fill(b.val, b.last, at[r]), at[r], t)
               c == Capacity + unseen[k] * Window
    <3>1. t \in Int
      BY DEF Times
    <3>2. x \in Int /\ y <= x /\ Fill(b.val, b.last, at[r]) \in Int
      BY <3>1, <2>3, <1>3, <1>20, FillFrom, Zenon
    <3>3. y \in Int
      BY <3>1, <3>2, <1>3, <1>20, FillFrom, Zenon
    <3>4. g + x <= c
      BY <2>1 DEF Covers
    <3>5. g \in Int /\ c \in Int
      BY <1>3, <1>20, GrantFacts
    <3> HIDE DEF g, x, y, c
    <3>6. g + y <= c
      BY <3>2, <3>3, <3>4, <3>5
    <3> QED BY <3>6 DEF g, y, c
  <2>5. CASE e # None
    <3>1. e = b /\ b # None /\ ~gone
      BY <2>5, <1>5 DEF gone
    <3> DEFINE x == (at[r] - b.last) * Limit
               y == (now - at[r]) * Limit
               z == (b.exp - 2 * Window - b.last) * Limit
    <3>2. x \in Int /\ y \in Int /\ z \in Int /\ 0 <= y /\ z <= y + x
      <4>1. b.exp - 2 * Window \in Int /\ b.exp - 2 * Window <= now
        BY <2>1, <2>3, <3>1, <1>3
      <4> DEFINE q == b.exp - 2 * Window
      <4> HIDE DEF q
      <4>2. (q - b.last) * Limit <= (now - b.last) * Limit
        <5>1. q - b.last \in Int /\ now - b.last \in Int /\ q - b.last <= now - b.last
          BY <4>1, <2>3, <3>1, <1>3 DEF q
        <5> QED BY <5>1, <1>3, TimesKeeps
      <4>3. y + x = (now - b.last) * Limit /\ 0 <= y /\ x \in Int /\ y \in Int
        BY <2>3, <3>1, <1>3, Refill
      <4>4. (q - b.last) * Limit \in Int
        BY <4>1, <2>3, <3>1, <1>3 DEF q
      <4> QED BY <4>2, <4>3, <4>4 DEF q
    <3>3. 0 <= b.val + z
      BY <2>1, <3>1
    <3>4. Fill(b.val, b.last, at[r]) = IF b.val + x <= Capacity THEN b.val + x ELSE Capacity
      BY DEF Fill
    <3> HIDE DEF x, y, z
    <3>5. 0 <= Fill(b.val, b.last, at[r]) + y
      BY <2>3, <3>1, <3>2, <3>3, <3>4, <1>20
    <3>6. missed'[r] = 0 /\ unseen[k] + 0 = unseen[k]
      BY <3>1, <1>3, <1>10
    <3> QED BY <2>4, <2>5, <3>1, <3>5, <3>6, <1>17 DEF y
  <2>6. 0 <= Capacity + (now - at[r]) * Limit
    <3>1. 0 <= (now - at[r]) * Limit /\ (now - at[r]) * Limit \in Int
      BY <1>3, Refill
    <3> QED BY <3>1, <1>20
  <2>7. ASSUME NEW u \in Nat, granted[0] <= u PROVE Covers(Capacity, at[r], u)
    <3> SUFFICES ASSUME NEW t \in Times
                 PROVE  granted[t] * Window + Fill(Capacity, at[r], t) <= Capacity + u * Window
      BY DEF Covers
    <3>1. granted[t] \in Nat /\ granted[t] <= granted[0] /\ granted[0] \in Nat
      BY GrantFacts DEF TypeOK
    <3>2. granted[t] * Window <= u * Window
      BY <2>7, <3>1, <1>3, TimesKeeps
    <3>3. Fill(Capacity, at[r], t) \in Int /\ Fill(Capacity, at[r], t) <= Capacity
      <4>1. t \in Int /\ Capacity \in Int
        BY <1>20 DEF Times
      <4> QED BY <4>1, <1>3, <1>20, FillFrom, Zenon
    <3>4. granted[t] * Window \in Int /\ u * Window \in Int
      BY <3>1, <1>3
    <3> QED BY <3>2, <3>3, <3>4, <1>20
  <2>8. granted[0] \in Nat
    BY <1>3, GrantFacts DEF TypeOK
  <2>9. CASE e = None /\ gone
    <3>1. n = granted[0]
      BY <1>21 DEF n, GrantedWith
    <3>2. unseen[k] + missed'[r] \in Nat /\ granted[0] <= unseen[k] + missed'[r]
      BY <3>1, <2>8, <2>9, <1>3, <1>10
    <3> QED BY <2>6, <2>7, <2>9, <3>2, <1>17
  <2>10. CASE e = None /\ ~gone
    <3>1. missed'[r] = 0 /\ unseen[k] + 0 = unseen[k]
      BY <2>10, <1>3, <1>10
    <3>2. CASE b = None
      BY <3>1, <3>2, <2>2, <2>6, <2>7, <2>10, <1>3, <1>17
    <3>3. CASE b # None
      <4>1. b.exp <= now /\ ~Late(r)
        BY <2>10, <3>3, <1>6
      <4>2. now <= at[r] + Window
        BY <4>1, <1>3, <1>21, LateIs
      <4> DEFINE q == b.exp - 2 * Window
                 x == (at[r] - q) * Limit
                 z == (q - b.last) * Limit
      <4>3. q \in Int /\ q + Window <= at[r]
        BY <4>1, <4>2, <2>3, <3>3, <1>3
      <4>4. 0 <= b.val + z
        BY <2>1, <3>3
      <4> HIDE DEF q
      <4>5. x \in Int /\ z \in Int /\ x + z = (at[r] - b.last) * Limit
        BY <4>3, <2>3, <3>3, <1>3, Refill
      <4>6. Capacity <= x
        <5>1. Window \in Int /\ at[r] - q \in Int /\ Window <= at[r] - q
          BY <4>3, <1>3
        <5>2. Window * Limit <= (at[r] - q) * Limit
          BY <5>1, <1>3, TimesKeeps
        <5>3. Window * Limit = Limit * Window
          BY <1>3
        <5> QED BY <5>2, <5>3 DEF Capacity
      <4> HIDE DEF x, z
      <4>7. Fill(b.val, b.last, at[r]) = Capacity
        <5>1. Capacity <= b.val + (x + z)
          BY <4>4, <4>5, <4>6, <2>3, <3>3, <1>20
        <5>2. b.val + (x + z) <= Capacity => b.val + (x + z) = Capacity
          BY <5>1, <4>5, <2>3, <3>3, <1>20
        <5> QED BY <5>2, <4>5 DEF Fill
      <4> QED BY <4>7, <3>1, <3>3, <2>4, <2>6, <2>10, <1>17
    <3> QED BY <3>2, <3>3
  <2> QED BY <2>5, <2>9, <2>10
<1>22. FillGot'
  <2> SUFFICES ASSUME strategy = "TokenBucket", NEW s \in Requests, pc'[s] = "set"
               PROVE  /\ 0 <= Tokens(s)' + (now - at[s]) * Limit
                      /\ Covers(Tokens(s)', at[s], unseen[CurrKey(at[s])] + missed'[s])
    BY <1>1, <1>14, <1>19 DEF FillGot, Covers
  <2>1. CASE s # r
    BY <2>1, <1>10, <1>15 DEF FillGot
  <2>2. CASE s = r
    BY <2>2, <1>21 DEF k
  <2> QED BY <2>1, <2>2
<1>23. Alone'
  <2> SUFFICES ASSUME NEW s \in Requests, pc'[s] # "idle", ~crowd[s],
                      NEW t \in Times, backend[CurrKey(t)] # None
               PROVE  /\ backend[CurrKey(t)].last <= at[s]
                      /\ pc'[s] = "set" /\ got'[s] # None /\ CurrKey(t) = CurrKey(at[s]) =>
                            /\ got'[s].val = backend[CurrKey(t)].val
                            /\ got'[s].last = backend[CurrKey(t)].last
    BY <1>1, <1>2, <1>14 DEF Alone
  <2>1. CASE s # r
    BY <2>1, <1>10 DEF Alone
  <2>2. CASE s = r
    <3>1. backend[CurrKey(t)].last <= at[r]
      BY <2>2, <1>1 DEF Alone
    <3>2. got'[r] # None => got'[r].val = b.val /\ got'[r].last = b.last
      BY <1>5, <1>9, <1>10
    <3> QED BY <2>2, <3>1, <3>2 DEF b, k
  <2> QED BY <2>1, <2>2
<1>24. WaitsWindow'
  <2> SUFFICES ASSUME strategy = "FixedWindow", NEW s \in Requests, retryAt[s] # None
               PROVE  /\ \A t \in Times : retryAt[s] <= t => backend[CurrKey(t)] = None
                      /\ pc'[s] = "set" /\ retryAt[s] <= at[s] => got'[s] = None
    BY <1>1, <1>2, <1>14 DEF WaitsWindow
  <2>1. \A t \in Times : retryAt[s] <= t => backend[CurrKey(t)] = None
    BY DEF WaitsWindow
  <2>2. CASE s # r
    BY <2>1, <2>2, <1>10 DEF WaitsWindow
  <2>3. CASE s = r
    <3>1. retryAt[r] <= at[r] => b = None
      BY <2>1, <2>3, <1>3 DEF b, k
    <3> QED BY <2>1, <2>3, <3>1, <1>5, <1>10
  <2> QED BY <2>2, <2>3
<1>25. WaitsToken'
  <2> SUFFICES ASSUME strategy = "TokenBucket", NEW s \in Requests, retryAt[s] # None
               PROVE  /\ \A t \in Times : retryAt[s] < t /\ backend[CurrKey(t)] # None =>
                            backend[CurrKey(t)].val + (t - backend[CurrKey(t)].last) * Limit
                                >= Window
                      /\ pc'[s] = "set" /\ retryAt[s] < at[s] => Tokens(s)' >= Window
    BY <1>1, <1>2, <1>14 DEF WaitsToken
  <2>1. \A t \in Times : retryAt[s] < t /\ backend[CurrKey(t)] # None =>
            backend[CurrKey(t)].val + (t - backend[CurrKey(t)].last) * Limit >= Window
    BY DEF WaitsToken
  <2>2. CASE s # r
    BY <2>1, <2>2, <1>10, <1>15 DEF WaitsToken
  <2>3. CASE s = r
    <3> SUFFICES ASSUME retryAt[r] < at[r] PROVE Tokens(r)' >= Window
      BY <2>1, <2>3
    <3>1. CASE e = None
      BY <3>1, <1>3, <1>17, <1>20
    <3>2. CASE e # None
      <4>1. b # None /\ e = b
        BY <3>2, <1>5
      <4>2. b.val + (at[r] - b.last) * Limit >= Window
        BY <2>1, <2>3, <4>1, <1>3 DEF b, k
      <4>3. Tokens(r)' = Fill(b.val, b.last, at[r])
        BY <3>2, <4>1, <1>17
      <4> QED BY <4>2, <4>3, <1>3, <1>20 DEF Fill
    <3> QED BY <3>1, <3>2
  <2> QED BY <2>2, <2>3
<1> QED BY <1>11, <1>13, <1>18, <1>22, <1>23, <1>24, <1>25

----------------------------------------------------------------------------
\* What a Set and the outcome of a request do, for every strategy.
LEMMA FinishInv ==
    ASSUME Inv, NEW r \in Requests, pc[r] = "set", NEW stored \in BOOLEAN,
           NEW val \in Int, NEW ttl \in Nat, NEW ok \in BOOLEAN, NEW resetAt,
           ~ok => resetAt \in Nat,
           Finish(r, val, ttl, ok, resetAt, stored)
    PROVE  /\ TypeOK' /\ Past' /\ Falling' /\ NoPrev' /\ Alone'
           /\ strategy' = strategy /\ now' = now /\ at' = at
           /\ \A t \in Times : CurrKey(t)' = CurrKey(t)
           /\ \A t \in Times :
                 IF CurrKey(t) = CurrKey(at[r]) /\ stored
                 THEN /\ backend'[CurrKey(t)] # None
                      /\ backend'[CurrKey(t)].val = val
                      /\ backend'[CurrKey(t)].last = at[r]
                      /\ backend'[CurrKey(t)].exp = now + ttl
                 ELSE backend'[CurrKey(t)] = backend[CurrKey(t)]
           /\ \A t \in DOMAIN granted :
                 granted'[t] = IF ok /\ t <= at[r] THEN granted[t] + 1 ELSE granted[t]
           /\ \A t \in Times :
                 GrantedWith(t)' = IF ok /\ CurrKey(t) = CurrKey(at[r])
                                   THEN GrantedWith(t) + 1 ELSE GrantedWith(t)
           /\ \A t \in Times :
                 unseen'[CurrKey(t)] =
                    IF CurrKey(t) = CurrKey(at[r])
                    THEN unseen[CurrKey(t)] + (IF stored THEN missed[r] ELSE IF ok THEN 1 ELSE 0)
                    ELSE unseen[CurrKey(t)]
           /\ \A s \in Requests : pc'[s] = "set" =>
                 /\ s # r /\ pc[s] = "set" /\ got'[s] = got[s]
                 /\ CurrKey(at[s])' = CurrKey(at[s])
                 /\ CountOf(s)' = CountOf(s) /\ Tokens(s)' = Tokens(s)
                 /\ missed'[s] = IF ok /\ stored /\ CurrKey(at[s]) = CurrKey(at[r])
                                 THEN missed[s] + 1 ELSE missed[s]
           /\ \A s \in Requests : retryAt'[s] # None =>
                 s = r /\ ~ok /\ ~crowd[r] /\ retryAt'[s] = resetAt /\ pc'[s] = "idle"
<1> USE DEF Inv
<1> DEFINE a == at[r]
           k == CurrKey(a)
           e == [val |-> val, last |-> a, exp |-> now + ttl]
<1>1. /\ strategy' = strategy /\ now' = now /\ at' = at /\ served' = served
      /\ got' = [got EXCEPT ![r] = None] /\ pc' = [pc EXCEPT ![r] = "idle"]
      /\ backend' = IF stored THEN [backend EXCEPT ![k] = e] ELSE backend
  BY DEF Finish
<1>2. /\ AllKeys' = AllKeys
      /\ \A t \in Times : CurrKey(t)' = CurrKey(t) /\ PrevKey(t)' = PrevKey(t)
  BY <1>1, SameKeys
<1>3. /\ a \in Times /\ a \in Nat /\ now \in Nat /\ a <= now /\ k \in AllKeys
      /\ strategy \in Strategies /\ Window \in Nat \ {0} /\ MaxNow \in Nat
  BY KeyFacts, ThrottlerAssumption DEF TypeOK, Times, Past
<1>4. e \in Entry /\ e # None /\ e.val = val /\ e.last = a /\ e.exp = now + ttl
  <2>1. e \in Entry
    BY <1>3 DEF Entry
  <2> QED BY <2>1, ThrottlerAssumption
<1> HIDE DEF e, k
<1>5. \A q \in AllKeys : backend'[q] = IF q = k /\ stored THEN e ELSE backend[q]
  BY <1>1, <1>3 DEF TypeOK
<1>6. backend' \in [AllKeys -> {None} \cup Entry]
  BY <1>1, <1>3, <1>4 DEF TypeOK
<1>7. granted' = IF ok THEN [t \in DOMAIN granted |-> IF t <= a THEN granted[t] + 1 ELSE granted[t]]
                 ELSE granted
  BY DEF Finish
<1>8. /\ DOMAIN granted = 0 .. MaxNow + Window /\ granted' \in [0 .. MaxNow + Window -> Nat]
      /\ \A t \in DOMAIN granted :
            /\ granted[t] \in Nat /\ t \in Nat
            /\ granted'[t] = IF ok /\ t <= a THEN granted[t] + 1 ELSE granted[t]
  <2>1. granted \in [0 .. MaxNow + Window -> Nat] /\ DOMAIN granted = 0 .. MaxNow + Window
    BY DEF TypeOK
  <2>2. \A t \in DOMAIN granted : granted[t] \in Nat /\ t \in Nat
    BY <2>1, <1>3
  <2> HIDE DEF a
  <2>3. \A t \in DOMAIN granted : granted'[t] = IF ok /\ t <= a THEN granted[t] + 1 ELSE granted[t]
    BY <1>7
  <2>4. granted' \in [0 .. MaxNow + Window -> Nat]
    BY <2>1, <1>7
  <2> QED BY <2>1, <2>2, <2>3, <2>4
<1>9. unseen' = [unseen EXCEPT ![k] = IF stored THEN @ + missed[r] ELSE IF ok THEN @ + 1 ELSE @]
  BY DEF Finish, k
<1>10. /\ unseen' \in [AllKeys -> Nat]
       /\ \A q \in AllKeys : unseen'[q] =
             IF q = k THEN unseen[q] + (IF stored THEN missed[r] ELSE IF ok THEN 1 ELSE 0)
             ELSE unseen[q]
  BY <1>3, <1>9 DEF TypeOK
<1>11. missed' = [s \in Requests |->
                    IF s = r THEN 0
                    ELSE IF ok /\ stored /\ pc[s] = "set" /\ CurrKey(at[s]) = k
                         THEN missed[s] + 1 ELSE missed[s]]
  BY DEF Finish, k
<1>12. missed' \in [Requests -> Nat]
  BY <1>11 DEF TypeOK
<1>13. /\ crowd' = [s \in Requests |-> s # r /\ pc[s] # "idle"]
       /\ retryAt' = [s \in Requests |-> IF s = r /\ ~ok /\ ~crowd[r] THEN resetAt ELSE None]
  BY DEF Finish
<1>14. TypeOK'
  <2>1. retryAt' \in [Requests -> {None} \cup Nat] /\ crowd' \in [Requests -> BOOLEAN]
    BY <1>13
  <2>2. got' \in [Requests -> {None} \cup Found] /\ pc' \in [Requests -> {"idle", "get", "set"}]
    BY <1>1 DEF TypeOK
  <2> QED BY <1>1, <1>2, <1>6, <1>8, <1>10, <1>12, <2>1, <2>2 DEF TypeOK
<1>15. ASSUME NEW t \in Times
       PROVE  IF CurrKey(t) = k /\ stored
              THEN /\ backend'[CurrKey(t)] # None
                   /\ backend'[CurrKey(t)].val = val
                   /\ backend'[CurrKey(t)].last = a
                   /\ backend'[CurrKey(t)].exp = now + ttl
              ELSE backend'[CurrKey(t)] = backend[CurrKey(t)]
  <2>1. CurrKey(t) \in AllKeys
    BY <1>3, KeyFacts
  <2> QED BY <2>1, <1>4, <1>5
<1>16. Past'
  <2>1. ASSUME NEW t \in Times, backend'[CurrKey(t)] # None
        PROVE  backend'[CurrKey(t)].last <= now
    BY <2>1, <1>3, <1>15 DEF Past
  <2> QED BY <2>1, <1>1, <1>2 DEF Past
<1>17. NoPrev'
  <2>1. ASSUME NEW t \in Times PROVE backend'[PrevKey(t)] = None
    <3>1. PrevKey(t) \in AllKeys /\ PrevKey(t) # k
      BY <1>3, KeyFacts DEF k
    <3> QED BY <3>1, <1>5 DEF NoPrev
  <2> QED BY <2>1, <1>2 DEF NoPrev
<1>18. Falling'
  <2> SUFFICES ASSUME NEW t \in DOMAIN granted, NEW u \in DOMAIN granted, t <= u
               PROVE  granted'[u] <= granted'[t]
    BY <1>8 DEF Falling
  <2>1. granted[u] <= granted[t] /\ t \in Nat /\ u \in Nat /\ granted[t] \in Nat /\ granted[u] \in Nat
    BY <1>8 DEF Falling
  <2>2. /\ granted'[t] = IF ok /\ t <= a THEN granted[t] + 1 ELSE granted[t]
        /\ granted'[u] = IF ok /\ u <= a THEN granted[u] + 1 ELSE granted[u]
    BY <1>8
  <2> QED BY <2>1, <2>2, <1>3
<1>19. Alone'
  <2>1. ASSUME NEW s \in Requests, pc'[s] # "idle" PROVE crowd'[s] = TRUE
    <3>1. s # r /\ pc'[s] = pc[s]
      BY <2>1, <1>1 DEF TypeOK
    <3>2. crowd'[s] = (s # r /\ pc[s] # "idle")
      BY <1>13
    <3> QED BY <2>1, <3>1, <3>2
  <2> QED BY <2>1 DEF Alone
<1>20. ASSUME NEW t \in Times
       PROVE  GrantedWith(t)' = IF ok /\ CurrKey(t) = k THEN GrantedWith(t) + 1 ELSE GrantedWith(t)
  <2> DEFINE w == WindowID(t) * Window
             z == WindowEnd(t)
  <2>1. w \in DOMAIN granted /\ z \in DOMAIN granted /\ 0 \in DOMAIN granted
    BY GrantFacts
  <2>2. CASE strategy = "TokenBucket"
    <3>1. CurrKey(t) = k
      BY <2>2, <1>3, KeyFacts DEF k
    <3>2. GrantedWith(t) = granted[0] /\ GrantedWith(t)' = granted'[0]
      BY <2>2, <1>1 DEF GrantedWith
    <3>3. granted'[0] = IF ok THEN granted[0] + 1 ELSE granted[0]
      <4>1. 0 <= a
        BY <1>3
      <4> HIDE DEF a
      <4> QED BY <4>1, <2>1, <1>8
    <3> QED BY <3>1, <3>2, <3>3
  <2>3. CASE strategy # "TokenBucket"
    <3>1. GrantedWith(t) = granted[w] - granted[z] /\ GrantedWith(t)' = granted'[w] - granted'[z]
      BY <2>3, <1>1 DEF GrantedWith, GrantedIn, WindowID, WindowEnd
    <3>2. CurrKey(t) = k <=> WindowID(t) = WindowID(a)
      BY <2>3, <1>3, KeyFacts DEF k
    <3>3. WindowID(t) = WindowID(a) <=> w <= a /\ a < z
      <4> DEFINE i == WindowID(t)
                 j == WindowID(a)
      <4>1. /\ i \in Nat /\ j \in Nat /\ j * Window <= a /\ a < (j + 1) * Window
            /\ z = (i + 1) * Window /\ w = i * Window
        BY <1>3, WindowFacts DEF WindowEnd, Times
      <4> HIDE DEF i, j, w, z
      <4>2. i = j => w <= a /\ a < z
        BY <4>1
      <4>3. ASSUME i < j PROVE ~(a < z)
        <5>1. (i + 1) * Window <= j * Window
          BY <4>1, <4>3, <1>3, TimesKeeps
        <5>2. (i + 1) * Window \in Int /\ j * Window \in Int
          BY <4>1, <1>3
        <5> QED BY <5>1, <5>2, <4>1, <1>3
      <4>4. ASSUME j < i PROVE ~(w <= a)
        <5>1. (j + 1) * Window <= i * Window
          BY <4>1, <4>4, <1>3, TimesKeeps
        <5>2. (j + 1) * Window \in Int /\ i * Window \in Int
          BY <4>1, <1>3
        <5> QED BY <5>1, <5>2, <4>1, <1>3
      <4>5. i = j <=> w <= a /\ a < z
        BY <4>1, <4>2, <4>3, <4>4
      <4> QED BY <4>5 DEF i, j
    <3>4. w <= z /\ w \in Nat /\ z \in Nat
      <4>1. w <= t /\ t < z /\ w \in Nat /\ z \in Nat /\ t \in Nat
        BY <2>1, <1>3, <1>8, WindowFacts DEF Times
      <4> HIDE DEF w, z
      <4> QED BY <4>1
    <3> HIDE DEF w, z
    <3>5. /\ granted'[w] = (IF ok /\ w <= a THEN granted[w] + 1 ELSE granted[w])
          /\ granted'[z] = (IF ok /\ z <= a THEN granted[z] + 1 ELSE granted[z])
          /\ granted[w] \in Nat /\ granted[z] \in Nat
      BY <2>1, <1>8
    <3> QED BY <3>1, <3>2, <3>3, <3>4, <3>5, <1>3
  <2> QED BY <2>2, <2>3
<1>21. ASSUME NEW t \in Times
       PROVE  unseen'[CurrKey(t)] =
                IF CurrKey(t) = k
                THEN unseen[CurrKey(t)] + (IF stored THEN missed[r] ELSE IF ok THEN 1 ELSE 0)
                ELSE unseen[CurrKey(t)]
  <2>1. CurrKey(t) \in AllKeys
    BY <1>3, KeyFacts
  <2> QED BY <2>1, <1>10
<1>22. ASSUME NEW s \in Requests, pc'[s] = "set"
       PROVE  /\ s # r /\ pc[s] = "set" /\ got'[s] = got[s]
              /\ CurrKey(at[s])' = CurrKey(at[s])
              /\ CountOf(s)' = CountOf(s) /\ Tokens(s)' = Tokens(s)
              /\ missed'[s] = IF ok /\ stored /\ CurrKey(at[s]) = k THEN missed[s] + 1 ELSE missed[s]
  <2>1. s # r /\ pc[s] = "set" /\ got'[s] = got[s]
    BY <1>1, <1>22 DEF TypeOK
  <2>2. CurrKey(at[s])' = CurrKey(at[s])
    BY <1>1 DEF CurrKey, WindowID
  <2>3. CountOf(s)' = CountOf(s) /\ Tokens(s)' = Tokens(s)
    BY <2>1, <1>1 DEF CountOf, Tokens
  <2>4. missed'[s] = IF ok /\ stored /\ CurrKey(at[s]) = k THEN missed[s] + 1 ELSE missed[s]
    BY <2>1, <1>11
  <2> QED BY <2>1, <2>2, <2>3, <2>4
<1>23. ASSUME NEW s \in Requests, retryAt'[s] # None
       PROVE  s = r /\ ~ok /\ ~crowd[r] /\ retryAt'[s] = resetAt /\ pc'[s] = "idle"
  <2>1. retryAt'[s] = IF s = r /\ ~ok /\ ~crowd[r] THEN resetAt ELSE None
    BY <1>13
  <2>2. pc'[r] = "idle"
    BY <1>1 DEF TypeOK
  <2> QED BY <2>1, <2>2, <1>23
<1> QED BY <1>1, <1>2, <1>8, <1>14, <1>15, <1>16, <1>17, <1>18, <1>19, <1>20, <1>21, <1>22, <1>23
         DEF k

----------------------------------------------------------------------------
\* A request is counted in its window, and what it missed is unseen from then on.
LEMMA WindowInv ==
    ASSUME Inv, NEW r \in Requests, pc[r] = "set", strategy # "TokenBucket",
           NEW stored \in BOOLEAN, NEW ttl \in Nat, NEW ok \in BOOLEAN,
           ok <=> CountOf(r) <= Limit,
           WindowEnd(at[r]) + Spare <= now + ttl,
           Finish(r, CountOf(r), ttl, ok, WindowEnd(at[r]), stored)
    PROVE  /\ Inv'
           /\ strategy = "FixedWindow" /\ retryAt[r] # None /\ retryAt[r] <= at[r] => ok
<1> USE DEF Inv
<1> DEFINE a == at[r]
           k == CurrKey(a)
           c == CountOf(r)
           u == unseen[k]
           m == missed[r]
           n == GrantedWith(a)
<1>1. /\ a \in Times /\ a \in Nat /\ now \in Nat /\ strategy \in Strategies
      /\ Limit \in Nat \ {0} /\ Window \in Nat \ {0} /\ MaxNow \in Nat
  BY ThrottlerAssumption DEF TypeOK, Times
<1>2. c \in Int /\ 0 <= c /\ n + 1 <= c + u + m
  <2>1. got[r] # None => got[r].val \in Int /\ got[r].val >= 0
    BY DEF TypeOK, Found, CountGot
  <2> QED BY <2>1 DEF CountOf, CountGot
<1>3. k \in AllKeys /\ u \in Nat /\ m \in Nat /\ n \in Nat
  <2>1. k \in AllKeys
    BY <1>1, KeyFacts
  <2>2. n \in Nat
    BY <1>1, GrantFacts
  <2> QED BY <2>1, <2>2 DEF TypeOK
<1>4. WindowEnd(a) \in Nat
  BY <1>1, WindowFacts
<1> DEFINE d == IF stored THEN m ELSE IF ok THEN 1 ELSE 0
<1>5. /\ TypeOK' /\ Past' /\ Falling' /\ NoPrev' /\ Alone'
      /\ strategy' = strategy /\ now' = now /\ at' = at
      /\ \A t \in Times : CurrKey(t)' = CurrKey(t)
      /\ \A t \in Times :
            IF CurrKey(t) = k /\ stored
            THEN /\ backend'[CurrKey(t)] # None
                 /\ backend'[CurrKey(t)].val = c
                 /\ backend'[CurrKey(t)].last = a
                 /\ backend'[CurrKey(t)].exp = now + ttl
            ELSE backend'[CurrKey(t)] = backend[CurrKey(t)]
      /\ \A t \in Times :
            GrantedWith(t)' = IF ok /\ CurrKey(t) = k THEN GrantedWith(t) + 1 ELSE GrantedWith(t)
      /\ \A t \in Times :
            unseen'[CurrKey(t)] =
               IF CurrKey(t) = k THEN unseen[CurrKey(t)] + d ELSE unseen[CurrKey(t)]
      /\ \A s \in Requests : pc'[s] = "set" =>
            /\ s # r /\ pc[s] = "set" /\ got'[s] = got[s]
            /\ CurrKey(at[s])' = CurrKey(at[s]) /\ CountOf(s)' = CountOf(s)
            /\ missed'[s] = IF ok /\ stored /\ CurrKey(at[s]) = k THEN missed[s] + 1 ELSE missed[s]
      /\ \A s \in Requests : retryAt'[s] # None =>
            s = r /\ ~ok /\ ~crowd[r] /\ retryAt'[s] = WindowEnd(a) /\ pc'[s] = "idle"
  <2> HIDE DEF Inv
  <2> QED BY <1>2, <1>4, FinishInv
<1> HIDE DEF k, c, u, m, n, d
<1>6. d \in Nat /\ (stored => d = m) /\ (~stored /\ ok => d = 1) /\ (~stored /\ ~ok => d = 0)
  BY <1>3 DEF d
<1>7. Spare' = Spare /\ Spare \in Nat
  BY <1>1, <1>5 DEF Spare
<1>8. ASSUME NEW t \in Times
      PROVE  Counts(backend'[CurrKey(t)], t, GrantedWith(t)', unseen'[CurrKey(t)])
  <2>1. Counts(backend[CurrKey(t)], t, GrantedWith(t), unseen[CurrKey(t)])
    BY DEF Counted
  <2>2. GrantedWith(t) \in Nat /\ unseen[CurrKey(t)] \in Nat /\ CurrKey(t) \in AllKeys
    BY <1>1, GrantFacts, KeyFacts DEF TypeOK
  <2>3. CASE CurrKey(t) # k
    BY <2>1, <2>3, <1>5
  <2>4. CASE CurrKey(t) = k
    <3>1. WindowID(t) = WindowID(a) /\ WindowEnd(t) = WindowEnd(a)
      BY <2>4, <1>1, KeyFacts DEF k, WindowEnd
    <3>2. GrantedWith(t) = n /\ unseen[CurrKey(t)] = u
      BY <2>4, <3>1 DEF n, u, GrantedWith
    <3>3. /\ GrantedWith(t)' = (IF ok THEN n + 1 ELSE n)
          /\ unseen'[CurrKey(t)] = u + d
      BY <2>4, <3>2, <1>5
    <3>4. n <= Limit + u
      BY <2>1, <3>2 DEF Counts
    <3>5. GrantedWith(t)' <= Limit + unseen'[CurrKey(t)]
      BY <3>3, <3>4, <1>1, <1>2, <1>3, <1>6 DEF c
    <3>6. CASE stored
      <4>1. /\ backend'[CurrKey(t)] # None
            /\ backend'[CurrKey(t)].val = c
            /\ backend'[CurrKey(t)].last = a
            /\ backend'[CurrKey(t)].exp = now + ttl
        BY <2>4, <3>6, <1>5
      <4>2. GrantedWith(t)' <= c + unseen'[CurrKey(t)]
        BY <3>3, <3>6, <1>2, <1>3, <1>6
      <4> QED BY <3>1, <3>5, <4>1, <4>2, <1>2 DEF Counts
    <3>7. CASE ~stored
      <4>1. backend'[CurrKey(t)] = backend[CurrKey(t)]
        BY <2>4, <3>7, <1>5
      <4> DEFINE e == backend[CurrKey(t)]
      <4>2. e # None => e.val \in Int
        BY <2>2 DEF TypeOK, Entry
      <4>3. e = None => GrantedWith(t)' <= unseen'[CurrKey(t)]
        BY <2>1, <3>2, <3>3, <3>7, <1>3, <1>6 DEF Counts
      <4>4. e # None => GrantedWith(t)' <= e.val + unseen'[CurrKey(t)]
        <5>1. e # None => n <= e.val + u
          BY <2>1, <3>2 DEF Counts
        <5> HIDE DEF e
        <5> QED BY <5>1, <4>2, <3>3, <3>7, <1>3, <1>6
      <4> QED BY <2>1, <3>5, <4>1, <4>3, <4>4 DEF Counts
    <3> QED BY <3>6, <3>7
  <2> QED BY <2>3, <2>4
<1>9. Counted'
  BY <1>5, <1>7, <1>8 DEF Counted, Counts, WindowID, WindowEnd
<1>10. CountGot'
  <2> SUFFICES ASSUME NEW s \in Requests, pc'[s] = "set"
               PROVE  /\ got[s] # None => got[s].val >= 0 /\ got[s].prev = 0
                      /\ GrantedWith(at[s])' + 1
                            <= CountOf(s) + unseen'[CurrKey(at[s])] + missed'[s]
    BY <1>5 DEF CountGot
  <2> DEFINE q == CurrKey(at[s])
             g == GrantedWith(at[s])
  <2>1. at[s] \in Times /\ pc[s] = "set" /\ q \in AllKeys
    BY <1>1, <1>5, KeyFacts DEF TypeOK
  <2>2. /\ got[s] # None => got[s].val >= 0 /\ got[s].prev = 0
        /\ g + 1 <= CountOf(s) + unseen[q] + missed[s]
    BY <2>1 DEF CountGot
  <2>3. g \in Nat /\ unseen[q] \in Nat /\ missed[s] \in Nat
    BY <2>1, GrantFacts DEF TypeOK
  <2>4. CountOf(s) \in Int
    BY DEF CountOf, TypeOK, Found
  <2>5. /\ GrantedWith(at[s])' = (IF ok /\ q = k THEN g + 1 ELSE g)
        /\ unseen'[q] = (IF q = k THEN unseen[q] + d ELSE unseen[q])
        /\ missed'[s] = (IF ok /\ stored /\ q = k THEN missed[s] + 1 ELSE missed[s])
    <3>1. GrantedWith(at[s])' = IF ok /\ q = k THEN g + 1 ELSE g
      <4>1. \A t \in Times : GrantedWith(t)' = IF ok /\ CurrKey(t) = k THEN GrantedWith(t) + 1
                                               ELSE GrantedWith(t)
        BY <1>5
      <4>2. GrantedWith(at[s])' = (IF strategy' = "TokenBucket" THEN granted'[0]
                ELSE granted'[WindowID(at[s]) * Window] - granted'[WindowEnd(at[s])])
        BY <1>5 DEF GrantedWith, GrantedIn, WindowID, WindowEnd
      <4>3. \A t \in Times : GrantedWith(t)' = (IF strategy' = "TokenBucket" THEN granted'[0]
                ELSE granted'[WindowID(t) * Window] - granted'[WindowEnd(t)])
        BY DEF GrantedWith, GrantedIn, WindowID, WindowEnd
      <4> QED BY <4>1, <4>2, <4>3, <2>1
    <3> QED BY <2>1, <3>1, <1>5
  <2> HIDE DEF q, g
  <2>6. GrantedWith(at[s])' + 1 <= CountOf(s) + unseen'[q] + missed'[s]
    BY <2>2, <2>3, <2>4, <2>5, <1>3, <1>6
  <2> QED BY <2>2, <2>6 DEF q
<1>11. Filled' /\ FillGot' /\ TokenRate' /\ WaitsToken'
  BY <1>5 DEF Filled, FillGot, TokenRate, WaitsToken
<1>12. WaitsWindow'
  <2> SUFFICES ASSUME strategy = "FixedWindow", NEW s \in Requests, retryAt'[s] # None,
                      NEW t \in Times, retryAt'[s] <= t
               PROVE  backend'[CurrKey(t)] = None
    BY <1>5 DEF WaitsWindow
  <2>1. ~crowd[r] /\ WindowEnd(a) <= t
    BY <1>5
  <2>2. t \in Nat
    BY DEF Times
  <2>3. WindowID(a) < WindowID(t) /\ WindowID(a) \in Nat /\ WindowID(t) \in Nat
    BY <2>1, <2>2, <1>1, WindowFacts
  <2>4. CurrKey(t) # k
    <3>1. WindowID(a) # WindowID(t)
      BY <2>3
    <3> QED BY <3>1, <1>1, KeyFacts DEF k
  <2>5. backend'[CurrKey(t)] = backend[CurrKey(t)]
    BY <2>4, <1>5
  <2>6. ASSUME backend[CurrKey(t)] # None PROVE FALSE
    <3> DEFINE l == backend[CurrKey(t)].last
    <3>1. CurrKey(t) \in AllKeys
      BY <1>1, KeyFacts
    <3>2. l \in Nat
      BY <2>6, <3>1 DEF TypeOK, Entry, Times
    <3>3. l <= a
      BY <2>1, <2>6 DEF Alone
    <3>4. WindowID(l) = WindowID(t)
      BY <2>6 DEF Counted, Counts
    <3> HIDE DEF l
    <3>5. WindowID(l) <= WindowID(a)
      BY <3>2, <3>3, <1>1, WindowFacts
    <3> QED BY <3>4, <3>5, <2>3
  <2> QED BY <2>5, <2>6
<1>13. ASSUME strategy = "FixedWindow", retryAt[r] # None, retryAt[r] <= at[r] PROVE ok
  <2>1. got[r] = None
    BY <1>13 DEF WaitsWindow
  <2>2. CountOf(r) = 1
    BY <2>1 DEF CountOf
  <2> QED BY <2>2, <1>1
<1> QED BY <1>5, <1>9, <1>10, <1>11, <1>12, <1>13

\* fixedWindow: the entry is Set for what is left of the window.
LEMMA FixedInv ==
    ASSUME Inv, NEW r \in Requests, pc[r] = "set", strategy = "FixedWindow",
           NEW stored \in BOOLEAN, FixedWindow(r, stored)
    PROVE  /\ Inv'
           /\ retryAt[r] # None /\ retryAt[r] <= at[r] => CountOf(r) <= Limit
<1> USE DEF Inv
<1> DEFINE ttl == WindowEnd(at[r]) - at[r]
           ok == CountOf(r) <= Limit
<1>1. at[r] \in Nat /\ now \in Nat /\ at[r] <= now
  BY ThrottlerAssumption DEF TypeOK, Times, Past
<1>2. ttl \in Nat /\ WindowEnd(at[r]) \in Nat
  BY <1>1, WindowFacts
<1>3. Spare = 0
  BY DEF Spare
<1>4. WindowEnd(at[r]) + Spare <= now + ttl
  BY <1>1, <1>2, <1>3
<1>5. Finish(r, CountOf(r), ttl, ok, WindowEnd(at[r]), stored) /\ ok \in BOOLEAN
  BY DEF FixedWindow
<1>6. (ok <=> CountOf(r) <= Limit) /\ strategy # "TokenBucket"
  OBVIOUS
<1> HIDE DEF ttl, ok
<1> QED BY <1>2, <1>4, <1>5, <1>6, WindowInv

\* slidingWindow: nothing was counted for the window before, so that the weighted
\* count is the count of this window, whose entry is Set for two.
LEMMA SlidingInv ==
    ASSUME Inv, NEW r \in Requests, pc[r] = "set", strategy = "SlidingWindow",
           NEW stored \in BOOLEAN, SlidingWindow(r, stored)
    PROVE  Inv'
<1> USE DEF Inv
<1> DEFINE prev == IF got[r] = None THEN 0 ELSE got[r].prev
           elapsed == at[r] - WindowID(at[r]) * Window
           weighted == Round(prev * (Window - elapsed), Window) + CountOf(r)
           ok == weighted <= Limit
           ttl == 2 * Window
<1>1. at[r] \in Times /\ at[r] \in Nat /\ now \in Nat /\ at[r] <= now /\ Window \in Nat \ {0}
  BY ThrottlerAssumption DEF TypeOK, Times, Past
<1>2. /\ ttl \in Nat /\ WindowEnd(at[r]) \in Nat /\ WindowEnd(at[r]) <= at[r] + Window
      /\ WindowID(at[r]) \in Nat /\ WindowID(at[r]) * Window <= at[r] /\ at[r] < WindowEnd(at[r])
  BY <1>1, WindowFacts
<1>3. Spare = Window
  BY DEF Spare
<1>4. WindowEnd(at[r]) + Spare <= now + ttl
  BY <1>1, <1>2, <1>3
<1>5. CountOf(r) \in Int /\ prev = 0
  <2>1. prev = 0
    BY DEF CountGot
  <2>2. got[r] # None => got[r].val \in Int
    BY DEF TypeOK, Found
  <2> QED BY <2>1, <2>2 DEF CountOf
<1>6. weighted = CountOf(r)
  <2>1. Window - elapsed \in Nat
    <3> DEFINE w == WindowID(at[r]) * Window
    <3>1. w \in Nat /\ at[r] < w + Window /\ w <= at[r]
      <4>1. WindowEnd(at[r]) = w + Window
        BY <1>1, <1>2 DEF WindowEnd
      <4> QED BY <4>1, <1>1, <1>2
    <3> HIDE DEF w
    <3>2. Window - (at[r] - w) \in Nat
      BY <3>1, <1>1
    <3> QED BY <3>2 DEF w
  <2> DEFINE x == Window - elapsed
  <2> HIDE DEF x
  <2>2. Round(0 * x, Window) = 0
    BY <2>1, RoundZero DEF x
  <2>3. weighted = Round(0 * x, Window) + CountOf(r)
    BY <1>5 DEF x
  <2> QED BY <1>5, <2>2, <2>3
<1>7. Finish(r, CountOf(r), ttl, ok, WindowEnd(at[r]), stored) /\ ok \in BOOLEAN
  BY DEF SlidingWindow
<1>8. (ok <=> CountOf(r) <= Limit) /\ strategy # "TokenBucket"
  BY <1>6
<1> HIDE DEF ttl, ok, weighted
<1> QED BY <1>2, <1>4, <1>7, <1>8, WindowInv

----------------------------------------------------------------------------
\* What a bucket covers, it covers with one more grant and one more token unseen.
LEMMA CoversMore ==
    ASSUME NEW v \in Int, NEW l \in Int, NEW u \in Nat, NEW w \in Nat, NEW ok \in BOOLEAN,
           TypeOK, Falling, TypeOK',
           Covers(v, l, u), u + (IF ok THEN 1 ELSE 0) <= w,
           \A t \in Times : granted'[t] <= granted[t] + (IF ok THEN 1 ELSE 0)
    PROVE  \A t \in Times : granted'[t] * Window + Fill(v, l, t) <= Capacity + w * Window
<1> SUFFICES ASSUME NEW t \in Times
             PROVE  granted'[t] * Window + Fill(v, l, t) <= Capacity + w * Window
  OBVIOUS
<1> DEFINE d == IF ok THEN 1 ELSE 0
           g == granted[t]
           h == granted'[t]
           x == Fill(v, l, t)
<1>1. Limit \in Nat /\ Window \in Nat /\ Window \in Int /\ t \in Int /\ d \in Nat
  BY ThrottlerAssumption DEF Times
<1>2. Capacity \in Nat /\ x \in Int
  BY <1>1, FillIs
<1>3. g \in Nat /\ h \in Nat /\ h <= g + d
  <2>1. t \in DOMAIN granted
    BY GrantFacts
  <2> QED BY <2>1 DEF TypeOK
<1>4. g * Window + x <= Capacity + u * Window
  BY DEF Covers
<1> HIDE DEF d, g, h, x
<1>5. h * Window <= g * Window + d * Window
  <2>1. h * Window <= (g + d) * Window
    BY <1>1, <1>3, TimesKeeps
  <2> QED BY <2>1, <1>1, <1>3
<1>6. u * Window + d * Window <= w * Window
  <2>1. (u + d) * Window <= w * Window
    BY <1>1, TimesKeeps DEF d
  <2> QED BY <2>1, <1>1
<1>7. /\ g * Window \in Int /\ h * Window \in Int /\ d * Window \in Int
      /\ u * Window \in Int /\ w * Window \in Int
  BY <1>1, <1>3
<1>8. h * Window + x <= Capacity + w * Window
  BY <1>2, <1>4, <1>5, <1>6, <1>7
<1> QED BY <1>8 DEF h, x

\* A request takes a token if there is one: what is granted and what is left stay
\* covered, in every interval of time.
LEMMA BucketInv ==
    ASSUME Inv, NEW r \in Requests, pc[r] = "set", strategy = "TokenBucket",
           NEW stored \in BOOLEAN, TokenBucket(r, stored)
    PROVE  /\ Inv'
           /\ retryAt[r] # None /\ retryAt[r] < at[r] => Tokens(r) >= Window
<1> USE DEF Inv
<1> DEFINE a == at[r]
           k == CurrKey(a)
           u == unseen[k]
           m == missed[r]
           x == Tokens(r)
           ok == x >= Window
           v == IF ok THEN x - Window ELSE x
           resetAt == a + (Window - x) \div Limit
           d == IF stored THEN m ELSE IF ok THEN 1 ELSE 0
<1>1. /\ a \in Times /\ a \in Nat /\ a \in Int /\ now \in Nat /\ a <= now /\ MaxNow \in Nat
      /\ Limit \in Nat \ {0} /\ Limit \in Nat /\ Window \in Nat \ {0} /\ strategy \in Strategies
  BY ThrottlerAssumption DEF TypeOK, Times, Past
<1>2. x \in Int /\ x <= Capacity /\ Capacity \in Nat /\ Window <= Capacity
  BY TokensFound
<1>3. /\ k \in AllKeys /\ u \in Nat /\ m \in Nat
      /\ \A t \in Times : CurrKey(t) = k
  BY <1>1, KeyFacts DEF TypeOK
<1>4. 0 <= x + (now - a) * Limit /\ Covers(x, a, u + m)
  BY DEF FillGot
<1> HIDE DEF x
<1>5. v \in Int /\ v <= Capacity /\ ok \in BOOLEAN /\ (ok => v = x - Window) /\ (~ok => v = x)
  BY <1>1, <1>2
<1>6. ~ok => resetAt \in Nat
  <2> SUFFICES ASSUME ~ok PROVE resetAt \in Nat
    OBVIOUS
  <2>1. Window - x \in Nat
    BY <1>1, <1>2
  <2> DEFINE y == Window - x
  <2> HIDE DEF y
  <2>2. y \div Limit \in Nat
    BY <1>1, <2>1 DEF y
  <2> QED BY <2>2, <1>1 DEF y
<1>7. Finish(r, v, 2 * Window, ok, resetAt, stored)
  BY DEF TokenBucket, x
<1>8. 2 * Window \in Nat
  BY <1>1
<1>9. d \in Nat /\ (stored => d = m) /\ (~stored /\ ok => d = 1) /\ (~stored /\ ~ok => d = 0)
  BY <1>3
<1> HIDE DEF v, ok, resetAt, k, u, m, d
<1>10. /\ TypeOK' /\ Past' /\ Falling' /\ NoPrev' /\ Alone'
       /\ strategy' = strategy /\ now' = now /\ at' = at
       /\ \A t \in Times : CurrKey(t)' = CurrKey(t)
       /\ \A t \in Times :
             IF CurrKey(t) = k /\ stored
             THEN /\ backend'[CurrKey(t)] # None
                  /\ backend'[CurrKey(t)].val = v
                  /\ backend'[CurrKey(t)].last = a
                  /\ backend'[CurrKey(t)].exp = now + 2 * Window
             ELSE backend'[CurrKey(t)] = backend[CurrKey(t)]
       /\ \A t \in DOMAIN granted :
             granted'[t] = IF ok /\ t <= a THEN granted[t] + 1 ELSE granted[t]
       /\ \A t \in Times :
             unseen'[CurrKey(t)] =
                IF CurrKey(t) = k THEN unseen[CurrKey(t)] + d ELSE unseen[CurrKey(t)]
       /\ \A s \in Requests : pc'[s] = "set" =>
             /\ s # r /\ pc[s] = "set" /\ got'[s] = got[s]
             /\ CurrKey(at[s])' = CurrKey(at[s]) /\ Tokens(s)' = Tokens(s)
             /\ missed'[s] = IF ok /\ stored /\ CurrKey(at[s]) = k THEN missed[s] + 1 ELSE missed[s]
       /\ \A s \in Requests : retryAt'[s] # None =>
             s = r /\ ~ok /\ ~crowd[r] /\ retryAt'[s] = resetAt /\ pc'[s] = "idle"
  BY <1>5, <1>6, <1>7, <1>8, FinishInv DEF k, m, d
<1>11. unseen'[k] = u + d /\ \A t \in Times : unseen'[CurrKey(t)] = u + d
  BY <1>1, <1>3, <1>10 DEF u
<1>12. \A t \in Times : /\ t \in Nat /\ t \in DOMAIN granted /\ t + 1 \in DOMAIN granted
                        /\ granted[t] \in Nat /\ granted'[t] \in Nat
                        /\ granted'[t] = IF ok /\ t <= a THEN granted[t] + 1 ELSE granted[t]
  <2>1. \A t \in Times : t \in Nat /\ t \in DOMAIN granted /\ t + 1 \in DOMAIN granted /\ granted[t] \in Nat
    BY GrantFacts DEF Times
  <2> QED BY <2>1, <1>10
<1>13. \A t \in Times : granted'[t] <= granted[t] + (IF ok THEN 1 ELSE 0)
  BY <1>1, <1>12
<1>14. ASSUME NEW t \in Times
       PROVE  granted'[t] * Window + Fill(v, a, t) <= Capacity + (u + m) * Window
  <2> DEFINE y == (t - a) * Limit
             g == granted[t] * Window
             c == Capacity + (u + m) * Window
  <2>1. g + Fill(x, a, t) <= c
    BY <1>4 DEF Covers
  <2>2. g \in Int /\ c \in Int /\ y \in Int /\ t \in Int
    BY <1>1, <1>2, <1>3, <1>12
  <2>3. /\ Fill(x, a, t) = (IF x + y <= Capacity THEN x + y ELSE Capacity)
        /\ Fill(v, a, t) = (IF v + y <= Capacity THEN v + y ELSE Capacity)
    BY DEF Fill
  <2>4. t <= a => y <= 0
    <3>2. t <= a => (t - a) * Limit <= 0 * Limit
      <4>1. t <= a => t - a \in Int /\ t - a <= 0
        BY <1>1, <2>2
      <4> QED BY <4>1, <1>1, TimesKeeps
    <3>3. 0 * Limit = 0
      BY <1>1
    <3> QED BY <3>2, <3>3
  <2>5. (granted[t] + 1) * Window = g + Window
    BY <1>1, <1>12
  <2>6. CASE ok /\ t <= a
    <3>1. granted'[t] * Window = g + Window
      BY <2>5, <2>6, <1>12
    <3> HIDE DEF y, g, c
    <3>2. Fill(v, a, t) + Window <= Fill(x, a, t)
      BY <2>2, <2>3, <2>4, <2>6, <1>1, <1>2, <1>5
    <3>3. Fill(v, a, t) \in Int /\ Fill(x, a, t) \in Int
      BY <2>2, <2>3, <1>2, <1>5
    <3> QED BY <2>1, <2>2, <3>1, <3>2, <3>3, <1>1 DEF c
  <2>7. CASE ~(ok /\ t <= a)
    <3>1. granted'[t] * Window = g
      BY <2>7, <1>12
    <3> HIDE DEF y, g, c
    <3>2. Fill(v, a, t) <= Fill(x, a, t)
      BY <2>2, <2>3, <1>1, <1>2, <1>5
    <3>3. Fill(v, a, t) \in Int /\ Fill(x, a, t) \in Int
      BY <2>2, <2>3, <1>2, <1>5
    <3> QED BY <2>1, <2>2, <3>1, <3>2, <3>3 DEF c
  <2> QED BY <2>6, <2>7
<1>15. 0 <= v + (now - a) * Limit
  <2>1. (now - a) * Limit \in Int /\ 0 <= (now - a) * Limit
    BY <1>1, Refill
  <2> DEFINE y == (now - a) * Limit
  <2>2. 0 <= x + y
    BY <1>4
  <2>3. ok => 0 <= x - Window
    BY <1>1, <1>2 DEF ok
  <2> HIDE DEF y
  <2>4. y \in Int /\ 0 <= y
    BY <2>1 DEF y
  <2>5. 0 <= v + y
    BY <2>2, <2>3, <2>4, <1>1, <1>2, <1>5
  <2> QED BY <2>5 DEF y
<1>16. Filled'
  <2>1. ASSUME NEW t \in Times
        PROVE  LET e == backend'[CurrKey(t)] IN
               /\ e = None => granted'[0] <= u + d
               /\ e # None =>
                    /\ e.val <= Capacity /\ e.exp <= now + 2 * Window
                    /\ 0 <= e.val + (e.exp - 2 * Window - e.last) * Limit
                    /\ \A q \in Times :
                          granted'[q] * Window + Fill(e.val, e.last, q) <= Capacity + (u + d) * Window
    <3>1. CurrKey(t) = k
      BY <1>3
    <3>2. CASE stored
      <4>1. /\ backend'[CurrKey(t)] # None
            /\ backend'[CurrKey(t)].val = v
            /\ backend'[CurrKey(t)].last = a
            /\ backend'[CurrKey(t)].exp = now + 2 * Window
        BY <3>1, <3>2, <1>10
      <4>2. (now + 2 * Window) - 2 * Window - a = now - a /\ now + 2 * Window <= now + 2 * Window
        BY <1>1
      <4>3. d = m
        BY <3>2, <1>9
      <4> QED BY <4>1, <4>2, <4>3, <1>5, <1>14, <1>15
    <3>3. CASE ~stored
      <4> DEFINE e == backend[CurrKey(t)]
      <4>1. backend'[CurrKey(t)] = e
        BY <3>1, <3>3, <1>10
      <4>2. /\ e = None => granted[0] <= u
            /\ e # None => /\ e.val <= Capacity /\ e.exp <= now + 2 * Window
                           /\ 0 <= e.val + (e.exp - 2 * Window - e.last) * Limit
                           /\ Covers(e.val, e.last, u)
        BY <3>1 DEF Filled, u
      <4>3. e # None => e.val \in Int /\ e.last \in Int
        BY <3>1, <1>3 DEF TypeOK, Entry, Times
      <4>4. u + (IF ok THEN 1 ELSE 0) <= u + d /\ u + d \in Nat
        BY <3>3, <1>3, <1>9
      <4>5. 0 \in Times
        BY <1>1 DEF Times
      <4>6. e = None => granted'[0] <= u + d
        BY <4>2, <4>4, <4>5, <1>3, <1>9, <1>12, <1>13
      <4> HIDE DEF e
      <4>7. e # None => \A q \in Times :
                granted'[q] * Window + Fill(e.val, e.last, q) <= Capacity + (u + d) * Window
        <5> SUFFICES ASSUME e # None
                     PROVE  \A q \in Times : granted'[q] * Window + Fill(e.val, e.last, q)
                                                 <= Capacity + (u + d) * Window
          OBVIOUS
        <5>1. TypeOK /\ Falling /\ TypeOK' /\ e.val \in Int /\ e.last \in Int /\ Covers(e.val, e.last, u)
          BY <4>2, <4>3, <1>10
        <5> HIDE DEF Inv
        <5> QED BY <5>1, <4>4, <1>3, <1>5, <1>13, CoversMore, Zenon
      <4> QED BY <4>1, <4>2, <4>6, <4>7
    <3> QED BY <3>2, <3>3
  <2> QED BY <2>1, <1>10, <1>11 DEF Filled, Covers
<1>17. FillGot'
  <2>1. ASSUME NEW s \in Requests, pc'[s] = "set"
        PROVE  /\ 0 <= Tokens(s) + (now - at[s]) * Limit
               /\ \A q \in Times :
                     granted'[q] * Window + Fill(Tokens(s), at[s], q)
                        <= Capacity + (unseen'[CurrKey(at[s])] + missed'[s]) * Window
    <3>1. pc[s] = "set" /\ at[s] \in Times /\ CurrKey(at[s]) = k /\ at[s] \in Int
      BY <2>1, <1>3, <1>10 DEF TypeOK, Times
    <3>2. /\ 0 <= Tokens(s) + (now - at[s]) * Limit
          /\ Covers(Tokens(s), at[s], u + missed[s])
      BY <3>1 DEF FillGot, u
    <3>3. missed[s] \in Nat /\ Tokens(s) \in Int
      BY TokensFound DEF TypeOK
    <3>4. missed'[s] = IF ok /\ stored THEN missed[s] + 1 ELSE missed[s]
      BY <2>1, <3>1, <1>10
    <3> DEFINE w == u + d + missed'[s]
               z == u + missed[s]
               x2 == Tokens(s)
    <3>5. w \in Nat /\ z \in Nat /\ z + (IF ok THEN 1 ELSE 0) <= w
      BY <3>3, <3>4, <1>3, <1>9
    <3>6. TypeOK /\ Falling /\ TypeOK' /\ x2 \in Int /\ Covers(x2, at[s], z)
      BY <3>2, <3>3, <1>10
    <3> HIDE DEF w, z, x2, Inv
    <3>7. \A q \in Times : granted'[q] * Window + Fill(x2, at[s], q) <= Capacity + w * Window
      BY <3>1, <3>5, <3>6, <1>5, <1>13, CoversMore, Zenon
    <3>8. unseen'[CurrKey(at[s])] + missed'[s] = w
      BY <3>1, <1>11 DEF w
    <3> QED BY <3>2, <3>7, <3>8 DEF x2
  <2>2. ASSUME NEW s \in Requests, pc'[s] = "set"
        PROVE  /\ Tokens(s)' = Tokens(s) /\ at'[s] = at[s] /\ now' = now
               /\ unseen'[CurrKey(at[s])'] = unseen'[CurrKey(at[s])]
    BY <2>2, <1>10
  <2> QED BY <2>1, <2>2 DEF FillGot, Covers
<1>18. TokenRate'
  <2> SUFFICES ASSUME NEW t1 \in Times, NEW t2 \in t1 .. MaxNow
               PROVE  (granted'[t1] - granted'[t2 + 1]) * Window
                         <= Limit * Window + (t2 - t1) * Limit + (u + d) * Window
    BY <1>10, <1>11 DEF TokenRate, GrantedIn
  <2> DEFINE g1 == granted[t1]
             g2 == granted[t2 + 1]
             h1 == granted'[t1]
             h2 == granted'[t2 + 1]
             y == (t2 - t1) * Limit
             one == IF ok THEN 1 ELSE 0
  <2>1. t1 \in Nat /\ t2 \in Nat /\ t1 <= t2 /\ t2 \in Times
    BY <1>1 DEF Times
  <2>2. t2 + 1 \in DOMAIN granted /\ t1 \in DOMAIN granted
    BY <2>1, <1>12
  <2>3. /\ g1 \in Nat /\ g2 \in Nat /\ h1 \in Nat /\ h2 \in Nat
        /\ h1 = (IF ok /\ t1 <= a THEN g1 + 1 ELSE g1)
        /\ h2 = (IF ok /\ t2 + 1 <= a THEN g2 + 1 ELSE g2)
    BY <2>2, <1>10 DEF TypeOK
  <2>4. y \in Int /\ 0 <= y
    BY <2>1, <1>1, Refill
  <2>5. (g1 - g2) * Window <= Capacity + y + u * Window
    <3>1. CurrKey(t1) = k
      BY <1>3
    <3> QED BY <3>1 DEF TokenRate, GrantedIn, Capacity, u
  <2> HIDE DEF g1, g2, h1, h2, y
  <2>6. CASE ~(stored /\ ok /\ t1 <= a /\ a <= t2)
    <3> DEFINE o == IF ~stored /\ ok THEN 1 ELSE 0
    <3>1. h1 - h2 <= g1 - g2 + o /\ o <= d /\ o \in Nat
      BY <2>1, <2>3, <2>6, <1>1, <1>9
    <3> HIDE DEF o
    <3>2. (h1 - h2) * Window <= (g1 - g2) * Window + o * Window
      <4>1. (h1 - h2) * Window <= (g1 - g2 + o) * Window
        BY <2>3, <3>1, <1>1, TimesKeeps
      <4>2. (g1 - g2 + o) * Window = (g1 - g2) * Window + o * Window
        BY <2>3, <3>1, <1>1
      <4> QED BY <4>1, <4>2
    <3>3. u * Window + o * Window <= (u + d) * Window
      <4>1. (u + o) * Window <= (u + d) * Window
        BY <3>1, <1>1, <1>3, <1>9, TimesKeeps
      <4> QED BY <4>1, <3>1, <1>1, <1>3
    <3>4. /\ (h1 - h2) * Window \in Int /\ (g1 - g2) * Window \in Int /\ o * Window \in Int
          /\ u * Window \in Int /\ (u + d) * Window \in Int
      BY <2>3, <3>1, <1>1, <1>3, <1>9
    <3>5. (h1 - h2) * Window <= Capacity + y + (u + d) * Window
      BY <2>4, <2>5, <3>2, <3>3, <3>4, <1>2
    <3> QED BY <3>5 DEF h1, h2, y, Capacity
  <2>7. CASE stored /\ ok /\ t1 <= a /\ a <= t2
    <3>1. g1 * Window + Fill(x, a, t1) <= Capacity + (u + d) * Window
      BY <2>7, <1>4, <1>9 DEF Covers, g1
    <3> DEFINE z == (a - t1) * Limit
               f == Fill(x, a, t1)
               c == (u + d) * Window
    <3>2. z \in Int /\ z <= y
      <4>1. a - t1 \in Int /\ t2 - t1 \in Int /\ a - t1 <= t2 - t1
        BY <2>1, <2>7, <1>1
      <4>2. (a - t1) * Limit <= (t2 - t1) * Limit
        BY <4>1, <1>1, TimesKeeps
      <4> QED BY <4>1, <4>2, <1>1 DEF y
    <3>3. f = IF x - z <= Capacity THEN x - z ELSE Capacity
      <4>1. (t1 - a) * Limit = 0 - z
        BY <2>1, <1>1
      <4>2. x + (0 - z) = x - z
        BY <3>2, <1>2
      <4> QED BY <4>1, <4>2 DEF Fill
    <3>4. (h1 - h2) * Window <= g1 * Window + Window
      <4>1. h1 - h2 <= g1 + 1
        BY <2>3, <1>1
      <4>2. (h1 - h2) * Window <= (g1 + 1) * Window
        BY <4>1, <2>3, <1>1, TimesKeeps
      <4> QED BY <4>2, <2>3, <1>1
    <3>5. g1 * Window \in Int /\ c \in Int /\ (h1 - h2) * Window \in Int
      BY <2>3, <1>1, <1>3, <1>9
    <3>6. x >= Window
      BY <2>7 DEF ok
    <3>7. g1 * Window + f <= Capacity + c
      BY <3>1
    <3> HIDE DEF z, f, c
    <3>8. (h1 - h2) * Window <= Capacity + y + c
      <4>1. Window <= f + y /\ f \in Int
        BY <2>4, <3>2, <3>3, <3>6, <1>1, <1>2
      <4> QED BY <4>1, <2>4, <3>4, <3>5, <3>7, <1>1, <1>2
    <3> QED BY <3>8 DEF h1, h2, y, c, Capacity
  <2> QED BY <2>6, <2>7
<1>19. WaitsToken'
  <2> SUFFICES ASSUME ~ok, ~crowd[r], NEW t \in Times, resetAt < t, backend'[CurrKey(t)] # None
               PROVE  backend'[CurrKey(t)].val + (t - backend'[CurrKey(t)].last) * Limit >= Window
    BY <1>10 DEF WaitsToken
  <2>1. t \in Nat /\ CurrKey(t) = k /\ x < Window
    BY <1>1, <1>2, <1>3 DEF ok, Times
  <2>2. x + (t - a) * Limit >= Window
    <3> DEFINE z == Window - x
               y == z \div Limit
    <3>1. z \in Nat
      BY <2>1, <1>1, <1>2
    <3> HIDE DEF z
    <3>2. y \in Nat /\ z < (y + 1) * Limit
      BY <3>1, <1>1
    <3>3. resetAt = a + y
      BY DEF resetAt, z, y
    <3> HIDE DEF y
    <3>4. (y + 1) * Limit <= (t - a) * Limit
      <4>1. y + 1 \in Int /\ t - a \in Int /\ y + 1 <= t - a
        BY <2>1, <3>2, <3>3, <1>1
      <4> QED BY <4>1, <1>1, TimesKeeps
    <3>5. (y + 1) * Limit \in Int /\ (t - a) * Limit \in Int
      BY <2>1, <3>2, <1>1
    <3> DEFINE f == (t - a) * Limit
    <3>6. z <= f /\ f \in Int
      BY <3>1, <3>2, <3>4, <3>5
    <3> HIDE DEF f
    <3>7. x + f >= Window
      BY <3>6, <1>1, <1>2 DEF z
    <3> QED BY <3>7 DEF f
  <2>3. CASE stored
    <3>1. backend'[CurrKey(t)].val = v /\ backend'[CurrKey(t)].last = a /\ v = x
      BY <2>1, <2>3, <1>5, <1>10
    <3> QED BY <2>2, <3>1
  <2>4. CASE ~stored
    <3> DEFINE e == backend[k]
    <3>1. backend'[CurrKey(t)] = e /\ e # None
      BY <2>1, <2>4, <1>10
    <3>2. got[r] # None
      <4>1. got[r] = None => x = Capacity
        BY TokensFound DEF x
      <4> QED BY <4>1, <2>1, <1>1, <1>2
    <3>3. got[r].val = e.val /\ got[r].last = e.last
      BY <3>1, <3>2, <1>1 DEF Alone, k
    <3>4. x = Fill(e.val, e.last, a)
      BY <3>2, <3>3, TokensFound DEF x
    <3>5. e.val \in Int /\ e.last \in Int
      BY <3>1, <1>3 DEF TypeOK, Entry, Times
    <3> HIDE DEF e
    <3> DEFINE p == (a - e.last) * Limit
               q == (t - a) * Limit
    <3>6. p \in Int /\ q \in Int /\ q + p = (t - e.last) * Limit
      BY <2>1, <3>5, <1>1, Refill
    <3>7. x = IF e.val + p <= Capacity THEN e.val + p ELSE Capacity
      BY <3>4 DEF Fill
    <3>8. x + q >= Window
      BY <2>2
    <3> HIDE DEF p, q
    <3>9. x = e.val + p
      BY <3>5, <3>6, <3>7, <2>1, <1>1, <1>2
    <3>10. e.val + (q + p) >= Window
      BY <3>5, <3>6, <3>8, <3>9, <1>1
    <3> QED BY <3>1, <3>6, <3>10
  <2> QED BY <2>3, <2>4
<1>20. Counted' /\ CountGot' /\ WaitsWindow'
  BY <1>10 DEF Counted, CountGot, WaitsWindow
<1>21. retryAt[r] # None /\ retryAt[r] < at[r] => Tokens(r) >= Window
  BY DEF WaitsToken
<1> QED BY <1>10, <1>16, <1>17, <1>18, <1>19, <1>20, <1>21

----------------------------------------------------------------------------
\* A request is decided under one of the strategies, and let through when it comes
\* after the time it was told to wait for.
LEMMA DecideInv ==
    ASSUME Inv, NEW r \in Requests, Decide(r)
    PROVE  /\ Inv'
           /\ strategy = "FixedWindow" /\ retryAt[r] # None /\ retryAt[r] <= at[r]
                 => granted'[at[r]] = granted[at[r]] + 1
           /\ strategy = "TokenBucket" /\ retryAt[r] # None /\ retryAt[r] < at[r]
                 => granted'[at[r]] = granted[at[r]] + 1
<1>1. PICK stored \in BOOLEAN :
          \/ strategy = "FixedWindow" /\ FixedWindow(r, stored)
          \/ strategy = "SlidingWindow" /\ SlidingWindow(r, stored)
          \/ strategy = "TokenBucket" /\ TokenBucket(r, stored)
  BY DEF Decide
<1>2. pc[r] = "set"
  BY DEF Decide
<1>3. at[r] \in DOMAIN granted /\ at[r] \in Nat
  <2>1. TypeOK /\ Falling /\ at[r] \in Times
    BY DEF Inv, TypeOK
  <2> QED BY <2>1, GrantFacts DEF Times
<1>4. CASE strategy = "FixedWindow" /\ FixedWindow(r, stored)
  <2>1. Inv' /\ (retryAt[r] # None /\ retryAt[r] <= at[r] => CountOf(r) <= Limit)
    BY <1>2, <1>4, FixedInv
  <2>2. CountOf(r) <= Limit => granted'[at[r]] = granted[at[r]] + 1
    BY <1>3, <1>4 DEF FixedWindow, Finish
  <2> QED BY <2>1, <2>2, <1>4
<1>5. CASE strategy = "SlidingWindow" /\ SlidingWindow(r, stored)
  BY <1>2, <1>5, SlidingInv
<1>6. CASE strategy = "TokenBucket" /\ TokenBucket(r, stored)
  <2>1. Inv' /\ (retryAt[r] # None /\ retryAt[r] < at[r] => Tokens(r) >= Window)
    BY <1>2, <1>6, BucketInv
  <2>2. Tokens(r) >= Window => granted'[at[r]] = granted[at[r]] + 1
    BY <1>3, <1>6 DEF TokenBucket, Finish
  <2> QED BY <2>1, <2>2, <1>6
<1> QED BY <1>1, <1>4, <1>5, <1>6

\* Every step keeps the invariant.
LEMMA NextInv == Inv /\ [Next]_vars => Inv'
<1> SUFFICES ASSUME Inv, [Next]_vars PROVE Inv'
  OBVIOUS
<1>1. CASE Tick \/ UNCHANGED vars
  BY <1>1, ClockInv
<1>2. ASSUME NEW r \in Requests, Arrive(r) PROVE Inv'
  BY <1>2, ClockInv
<1>3. ASSUME NEW r \in Requests, NEW hit \in BOOLEAN, GetEntry(r, hit) PROVE Inv'
  BY <1>3, GetInv
<1>4. ASSUME NEW r \in Requests, Decide(r) PROVE Inv'
  BY <1>4, DecideInv
<1> QED BY <1>1, <1>2, <1>3, <1>4 DEF Next

\* The inductive invariant holds of requests that interleave in any way.
THEOREM Invariance == Spec => []Inv
<1> QED BY NextInv, InitInv, PTL DEF Spec

\* The counts, tokens and times of the throttler keep their types; the tokens of a
\* bucket may be negative, when a request reads what one that came later has Set.
THEOREM Typing == Spec => []TypeOK
<1>1. Inv => TypeOK
  BY DEF Inv
<1> QED BY <1>1, Invariance, PTL

\* fixedWindow and slidingWindow let no more requests of a window through than Limit
\* and those that requests of the window have not seen of each other.
THEOREM WindowsKeepLimit == Spec => []LimitPerWindow
<1>1. Inv => LimitPerWindow
  BY DEF Inv, Counted, Counts, LimitPerWindow
<1> QED BY <1>1, Invariance, PTL

\* tokenBucket lets no more requests through, in any interval of time, than a full
\* bucket, the refill of the interval, and those that requests have not seen of each
\* other.
THEOREM BucketKeepsRate == Spec => []TokenRate
<1>1. Inv => TokenRate
  BY DEF Inv
<1> QED BY <1>1, Invariance, PTL

\* Who was denied, comes again no earlier than resetAt (fixedWindow) or after it
\* (tokenBucket), and was alone meanwhile, is let through.
THEOREM HonoursRetry == Spec => RetryHonoured
<1> DEFINE Honoured ==
        strategy # "SlidingWindow" => \A r \in Requests :
            LET rounded == IF strategy = "TokenBucket" THEN 1 ELSE 0 IN
            (retryAt[r] # None /\ pc[r] = "set" /\ pc'[r] = "idle" /\ at[r] >= retryAt[r] + rounded)
                => granted'[at[r]] = granted[at[r]] + 1
<1>1. Inv /\ [Next]_vars => [Honoured]_vars
  <2> SUFFICES ASSUME Inv, Next, strategy # "SlidingWindow", NEW r \in Requests,
                      retryAt[r] # None, pc[r] = "set", pc'[r] = "idle",
                      at[r] >= retryAt[r] + (IF strategy = "TokenBucket" THEN 1 ELSE 0)
               PROVE  granted'[at[r]] = granted[at[r]] + 1
    OBVIOUS
  <2>1. Decide(r)
    <3>1. ~Tick
      BY DEF Tick
    <3>2. ASSUME NEW s \in Requests, Arrive(s) PROVE FALSE
      BY <3>2 DEF Arrive, Inv, TypeOK
    <3>3. ASSUME NEW s \in Requests, NEW hit \in BOOLEAN, GetEntry(s, hit) PROVE FALSE
      BY <3>3 DEF GetEntry, Inv, TypeOK
    <3>4. ASSUME NEW s \in Requests, Decide(s), s # r PROVE FALSE
      <4>1. pc' = [pc EXCEPT ![s] = "idle"]
        BY <3>4 DEF Decide, FixedWindow, SlidingWindow, TokenBucket, Finish
      <4> QED BY <3>4, <4>1 DEF Inv, TypeOK
    <3> QED BY <3>1, <3>2, <3>3, <3>4 DEF Next
  <2>2. at[r] \in Nat /\ retryAt[r] \in Nat
    BY ThrottlerAssumption DEF Inv, TypeOK, Times
  <2>3. strategy = "FixedWindow" \/ strategy = "TokenBucket"
    BY ThrottlerAssumption DEF Inv, TypeOK
  <2>4. CASE strategy = "FixedWindow"
    <3>1. retryAt[r] <= at[r]
      BY <2>2, <2>4
    <3> QED BY <2>1, <2>4, <3>1, DecideInv
  <2>5. CASE strategy = "TokenBucket"
    <3>1. retryAt[r] < at[r]
      BY <2>2, <2>5
    <3> QED BY <2>1, <2>5, <3>1, DecideInv
  <2> QED BY <2>3, <2>4, <2>5
<1>2. Spec => [][Honoured]_vars
  BY <1>1, Invariance, PTL DEF Spec
<1> QED BY <1>2 DEF RetryHonoured
=============================================================================
