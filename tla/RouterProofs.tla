---------------------------- MODULE RouterProofs ----------------------------
(***************************************************************************)
(* What the router answers with covers the request, and what is registered *)
(* is found, for every set of routes that does not hold the route "".      *)
(* The invariant Inv says what Insert, For, Add and Use keep of the trie   *)
(* and of the items; the search is followed segment by segment.            *)
(***************************************************************************)
EXTENDS Router, SequenceTheorems, FiniteSetTheorems, WellFoundedInduction, TLAPS

Segments == STRING \cup {"$", "*"}
Nodes == Seq(Segments)
Names == {"use", "for", Main}

\* A trie holds the prefixes of its nodes.
Shape ==
    /\ DOMAIN trie \subseteq Nodes /\ <<>> \in DOMAIN trie
    /\ \A n \in DOMAIN trie : \A i \in 0 .. Len(n) : SubSeq(n, 1, i) \in DOMAIN trie

\* Raw is a route of the items that leads to its node.
Raws ==
    \A n \in DOMAIN trie : trie[n] # NoRaw =>
        /\ trie[n] \in Routes /\ Parse(trie[n]) = n
        /\ \E op \in Operations : <<trie[n], op>> \in DOMAIN items

\* The routes of the items end at a node of the trie.
Registered ==
    /\ DOMAIN items \subseteq Routes \X Operations
    /\ \A k \in DOMAIN items :
          Parse(k[1]) \in DOMAIN trie /\ trie[Parse(k[1])] # NoRaw

GlobLists == globChildren \in [DOMAIN trie -> Seq(Globs)]

\* An item has its main handler at HandlerIndex and nowhere else.
ItemRight(item) ==
    /\ item \in [handlers : Seq(Names), handlerIndex : Int]
    /\ item.handlerIndex \in -1 .. Len(item.handlers) - 1
    /\ \A i \in 1 .. Len(item.handlers) :
          item.handlers[i] = Main <=> i = item.handlerIndex + 1

Handlers ==
    /\ GlobalMiddlewares \in Seq({"use"})
    /\ \A k \in DOMAIN items : ItemRight(items[k])

Inv == Shape /\ Raws /\ Registered /\ GlobLists /\ Handlers

----------------------------------------------------------------------------
\* The elements of a prefix.
LEMMA PrefixFacts ==
    ASSUME NEW S, NEW a \in Seq(S), NEW i \in 0 .. Len(a)
    PROVE  /\ SubSeq(a, 1, i) \in Seq(S) /\ Len(SubSeq(a, 1, i)) = i
           /\ \A k \in 1 .. i : SubSeq(a, 1, i)[k] = a[k]
OBVIOUS

\* A prefix of a prefix is a prefix.
LEMMA PrefixOfPrefix ==
    ASSUME NEW S, NEW a \in Seq(S), NEW i \in 0 .. Len(a), NEW j \in 0 .. i
    PROVE  SubSeq(SubSeq(a, 1, i), 1, j) = SubSeq(a, 1, j)
<1> DEFINE p == SubSeq(a, 1, i)
           q == SubSeq(p, 1, j)
           r == SubSeq(a, 1, j)
<1>1. p \in Seq(S) /\ Len(p) = i /\ \A k \in 1 .. i : p[k] = a[k]
    BY PrefixFacts
<1>2. r \in Seq(S) /\ Len(r) = j /\ \A k \in 1 .. j : r[k] = a[k]
    BY PrefixFacts
<1> HIDE DEF p
<1>3. q \in Seq(S) /\ Len(q) = j /\ \A k \in 1 .. j : q[k] = p[k]
    BY <1>1, PrefixFacts
<1> HIDE DEF q, r
<1>4. \A k \in 1 .. j : q[k] = r[k]
    BY <1>1, <1>2, <1>3
<1>5. q = r
    BY <1>2, <1>3, <1>4, SeqEqual
<1> QED BY <1>5 DEF p, q, r

\* A prefix and the next element are a prefix.
LEMMA PrefixAppend ==
    ASSUME NEW S, NEW a \in Seq(S), NEW i \in 0 .. Len(a) - 1
    PROVE  Append(SubSeq(a, 1, i), a[i + 1]) = SubSeq(a, 1, i + 1)
<1> DEFINE p == SubSeq(a, 1, i)
           q == Append(p, a[i + 1])
           r == SubSeq(a, 1, i + 1)
<1>1. p \in Seq(S) /\ Len(p) = i /\ \A k \in 1 .. i : p[k] = a[k]
    BY PrefixFacts
<1>2. r \in Seq(S) /\ Len(r) = i + 1 /\ \A k \in 1 .. i + 1 : r[k] = a[k]
    BY PrefixFacts
<1> HIDE DEF p
<1>3. q \in Seq(S) /\ Len(q) = i + 1 /\ \A k \in 1 .. i + 1 : q[k] = a[k]
    <2>1. a[i + 1] \in S
        OBVIOUS
    <2> QED BY <1>1, <2>1, AppendProperties
<1> HIDE DEF q, r
<1>5. q = r
    BY <1>2, <1>3, SeqEqual
<1> QED BY <1>5 DEF p, q, r

\* ParseToParamKey keeps the segments that are not parameters.
LEMMA ParseFacts ==
    ASSUME NEW route \in Routes
    PROVE  /\ route \in Seq(STRING) /\ Parse(route) \in Nodes /\ Len(Parse(route)) = Len(route)
           /\ \A i \in 1 .. Len(route) :
                 /\ route[i] \in Params => Parse(route)[i] = "$"
                 /\ route[i] \notin Params => Parse(route)[i] = route[i]
                 /\ route[i] # "$"
<1>1. route \in Seq(STRING) /\ "$" \notin Range(route)
    BY RouterAssumption
<1>2. DOMAIN route = 1 .. Len(route) /\ Len(route) \in Nat
    BY <1>1
<1>3. \A i \in 1 .. Len(route) : route[i] # "$"
    BY <1>1, <1>2 DEF Range
<1>4. \A i \in 1 .. Len(route) : route[i] \in Segments /\ "$" \in Segments
    BY <1>1 DEF Segments
<1> DEFINE p == [i \in 1 .. Len(route) |-> IF route[i] \in Params THEN "$" ELSE route[i]]
<1>5. p = Parse(route)
    BY <1>2 DEF Parse
<1>6. p \in [1 .. Len(route) -> Segments]
    BY <1>4
<1>7. p \in Seq(Segments) /\ Len(p) = Len(route)
    <2> HIDE DEF p
    <2> QED BY <1>2, <1>6
<1> QED BY <1>1, <1>3, <1>5, <1>7 DEF Nodes

----------------------------------------------------------------------------
\* The handlers to which push appends: the main handler is where it was.
LEMMA BaseFacts ==
    ASSUME NEW g \in Seq({"use"}), NEW item, ItemRight(item)
    PROVE  /\ Base(g, item) \in Seq(Names)
           /\ item.handlerIndex \in -1 .. Len(Base(g, item)) - 1
           /\ \A i \in 1 .. Len(Base(g, item)) :
                 Base(g, item)[i] = Main <=> i = item.handlerIndex + 1
<1>1. CASE item.handlers = <<>>
    <2>1. Base(g, item) = g
        BY <1>1 DEF Base
    <2>2. item.handlerIndex = -1
        BY <1>1 DEF ItemRight
    <2>3. g \in Seq(Names)
        BY DEF Names
    <2>4. \A i \in 1 .. Len(g) : g[i] # Main
        BY DEF Main
    <2> QED BY <2>1, <2>2, <2>3, <2>4
<1>2. CASE item.handlers # <<>>
    <2>1. Base(g, item) = item.handlers
        BY <1>2 DEF Base
    <2>2. item.handlers \in Seq(Names)
        BY DEF ItemRight
    <2> QED BY <2>1, <2>2 DEF ItemRight
<1> QED BY <1>1, <1>2

\* A handler other than the main one behind those of an item.
LEMMA BehindRight ==
    ASSUME NEW b \in Seq(Names), NEW x \in Int, x \in -1 .. Len(b) - 1,
           \A i \in 1 .. Len(b) : b[i] = Main <=> i = x + 1,
           NEW h \in Names, h # Main, NEW t \in Seq(Names), Len(t) = Len(b) + 1,
           \A i \in 1 .. Len(b) : t[i] = b[i], t[Len(b) + 1] = h
    PROVE  ItemRight([handlers |-> t, handlerIndex |-> x])
<1> DEFINE item == [handlers |-> t, handlerIndex |-> x]
<1>1. item.handlers = t /\ item.handlerIndex = x
    OBVIOUS
<1>2. item \in [handlers : Seq(Names), handlerIndex : Int]
    OBVIOUS
<1> HIDE DEF item
<1>3. x \in -1 .. Len(t) - 1
    OBVIOUS
<1>4. ASSUME NEW i \in 1 .. Len(t) PROVE t[i] = Main <=> i = x + 1
    <2>1. CASE i \in 1 .. Len(b)
        BY <2>1
    <2>2. CASE i = Len(b) + 1
        BY <2>2
    <2> QED BY <2>1, <2>2
<1> QED BY <1>1, <1>2, <1>3, <1>4 DEF ItemRight, item

\* For and Use leave HandlerIndex where the main handler is.
LEMMA PushForRight ==
    ASSUME NEW g \in Seq({"use"}), NEW item, ItemRight(item)
    PROVE  ItemRight(PushFor(g, item, <<"for">>))
<1> DEFINE b == Base(g, item)
           t == b \o <<"for">>
           x == item.handlerIndex
<1>1. /\ b \in Seq(Names) /\ x \in -1 .. Len(b) - 1
      /\ \A i \in 1 .. Len(b) : b[i] = Main <=> i = x + 1
    BY BaseFacts
<1>2. "for" \in Names /\ "for" # Main
    BY DEF Names, Main
<1>3. PushFor(g, item, <<"for">>) = [handlers |-> t, handlerIndex |-> x]
    <2>1. PushFor(g, item, <<"for">>) = [item EXCEPT !.handlers = t]
        BY DEF PushFor
    <2>2. item \in [handlers : Seq(Names), handlerIndex : Int]
        BY DEF ItemRight
    <2> HIDE DEF t
    <2> QED BY <2>1, <2>2
<1> HIDE DEF b, x
<1>4. /\ t \in Seq(Names) /\ Len(t) = Len(b) + 1
      /\ \A i \in 1 .. Len(b) : t[i] = b[i]
      /\ t[Len(b) + 1] = "for"
    BY <1>1, <1>2
<1> HIDE DEF t
<1> QED BY <1>1, <1>2, <1>3, <1>4, BehindRight

\* As PushForRight, for Use.
LEMMA PushUseRight ==
    ASSUME NEW item, ItemRight(item)
    PROVE  ItemRight(PushUse(item, "use"))
<1> DEFINE b == item.handlers
           t == Append(b, "use")
           x == item.handlerIndex
<1>1. /\ b \in Seq(Names) /\ x \in -1 .. Len(b) - 1
      /\ \A i \in 1 .. Len(b) : b[i] = Main <=> i = x + 1
    BY DEF ItemRight
<1>2. "use" \in Names /\ "use" # Main
    BY DEF Names, Main
<1>3. PushUse(item, "use") = [handlers |-> t, handlerIndex |-> x]
    <2>1. PushUse(item, "use") = [item EXCEPT !.handlers = t]
        BY DEF PushUse
    <2>2. item \in [handlers : Seq(Names), handlerIndex : Int]
        BY DEF ItemRight
    <2> HIDE DEF t
    <2> QED BY <2>1, <2>2
<1> HIDE DEF b, x
<1>4. /\ t \in Seq(Names) /\ Len(t) = Len(b) + 1
      /\ \A i \in 1 .. Len(b) : t[i] = b[i]
      /\ t[Len(b) + 1] = "use"
    BY <1>1, <1>2
<1> HIDE DEF t
<1> QED BY <1>1, <1>2, <1>3, <1>4, BehindRight

\* What RemoveAt leaves.
LEMMA RemoveFacts ==
    ASSUME NEW S, NEW s \in Seq(S), NEW k \in 1 .. Len(s)
    PROVE  /\ RemoveAt(s, k) \in Seq(S) /\ Len(RemoveAt(s, k)) = Len(s) - 1
           /\ \A i \in 1 .. Len(s) - 1 :
                 RemoveAt(s, k)[i] = IF i < k THEN s[i] ELSE s[i + 1]
<1> DEFINE a == SubSeq(s, 1, k - 1)
           b == SubSeq(s, k + 1, Len(s))
           r == a \o b
<1>1. a \in Seq(S) /\ Len(a) = k - 1 /\ \A i \in 1 .. k - 1 : a[i] = s[i]
    BY PrefixFacts
<1>2. b \in Seq(S) /\ Len(b) = Len(s) - k /\ \A i \in 1 .. Len(s) - k : b[i] = s[k + i]
    OBVIOUS
<1>3. /\ r \in Seq(S) /\ Len(r) = Len(a) + Len(b)
      /\ \A i \in 1 .. Len(a) + Len(b) : r[i] = IF i <= Len(a) THEN a[i] ELSE b[i - Len(a)]
    BY <1>1, <1>2, ConcatProperties
<1>4. RemoveAt(s, k) = r
    BY DEF RemoveAt
<1> HIDE DEF a, b, r
<1>5. Len(r) = Len(s) - 1 /\ Len(a) + Len(b) = Len(s) - 1
    BY <1>1, <1>2, <1>3
<1>6. ASSUME NEW i \in 1 .. Len(s) - 1 PROVE r[i] = IF i < k THEN s[i] ELSE s[i + 1]
    <2>1. CASE i < k
        BY <2>1, <1>1, <1>3, <1>5
    <2>2. CASE ~(i < k)
        <3>1. r[i] = b[i - (k - 1)]
            BY <2>2, <1>1, <1>3, <1>5
        <3>2. i - (k - 1) \in 1 .. Len(s) - k /\ k + (i - (k - 1)) = i + 1
            BY <2>2
        <3> QED BY <3>1, <3>2, <1>2, <2>2
    <2> QED BY <2>1, <2>2
<1> QED BY <1>3, <1>4, <1>5, <1>6

\* Add replaces the main handler and sets HandlerIndex to the new one.
LEMMA PushAddRight ==
    ASSUME NEW g \in Seq({"use"}), NEW item, ItemRight(item)
    PROVE  ItemRight(PushAdd(g, item, Main))
<1> DEFINE x == item.handlerIndex
           b == IF x > -1 THEN RemoveAt(item.handlers, x + 1) ELSE Base(g, item)
           t == Append(b, Main)
           new == [handlers |-> t, handlerIndex |-> Len(b)]
<1>1. PushAdd(g, item, Main) = new
    BY DEF PushAdd
<1>2. b \in Seq(Names) /\ \A i \in 1 .. Len(b) : b[i] # Main
    <2>1. CASE x > -1
        <3> DEFINE h == item.handlers
                   k == x + 1
        <3>1. /\ h \in Seq(Names) /\ x \in -1 .. Len(h) - 1
              /\ \A i \in 1 .. Len(h) : h[i] = Main <=> i = k
            BY DEF ItemRight
        <3>2. b = RemoveAt(h, k)
            BY <2>1
        <3>3. k \in 1 .. Len(h)
            BY <3>1, <2>1
        <3> HIDE DEF h, k, b
        <3>4. /\ b \in Seq(Names) /\ Len(b) = Len(h) - 1
              /\ \A i \in 1 .. Len(h) - 1 : b[i] = IF i < k THEN h[i] ELSE h[i + 1]
            BY <3>1, <3>2, <3>3, RemoveFacts
        <3>5. ASSUME NEW i \in 1 .. Len(b) PROVE b[i] # Main
            <4>1. CASE i < k
                BY <4>1, <3>1, <3>3, <3>4
            <4>2. CASE ~(i < k)
                BY <4>2, <3>1, <3>3, <3>4
            <4> QED BY <4>1, <4>2
        <3> QED BY <3>4, <3>5
    <2>2. CASE ~(x > -1)
        <3>1. x = -1 /\ b = Base(g, item)
            BY <2>2 DEF ItemRight
        <3> HIDE DEF b, x
        <3> QED BY <3>1, BaseFacts DEF x
    <2> QED BY <2>1, <2>2
<1>3. Main \in Names
    BY DEF Names
<1> HIDE DEF b
<1>4. /\ t \in Seq(Names) /\ Len(t) = Len(b) + 1
      /\ \A i \in 1 .. Len(b) : t[i] = b[i]
      /\ t[Len(b) + 1] = Main
    BY <1>2, <1>3
<1> HIDE DEF t
<1>5. new.handlers = t /\ new.handlerIndex = Len(b)
      /\ new \in [handlers : Seq(Names), handlerIndex : Int]
    BY <1>2, <1>4
<1>6. Len(b) \in -1 .. Len(t) - 1 /\ \A i \in 1 .. Len(t) : i = Len(b) + 1 \/ i \in 1 .. Len(b)
    BY <1>2, <1>4
<1> HIDE DEF new
<1>7. \A i \in 1 .. Len(t) : t[i] = Main <=> i = Len(b) + 1
    BY <1>2, <1>4, <1>6
<1> QED BY <1>1, <1>5, <1>6, <1>7 DEF ItemRight

----------------------------------------------------------------------------
\* The nodes that Insert walks over.
Walk(route) == {SubSeq(Parse(route), 1, n) : n \in 0 .. Len(Parse(route))}

\* Insert adds the prefixes of the parsed route, and sets Raw at the last of them.
LEMMA InsertFacts ==
    ASSUME NEW route \in Routes, Shape, GlobLists, Insert(route)
    PROVE  /\ DOMAIN trie' = DOMAIN trie \cup Walk(route)
           /\ Parse(route) \in Walk(route)
           /\ \A n \in DOMAIN trie' :
                 trie'[n] = IF n = Parse(route) THEN route
                            ELSE IF n \in DOMAIN trie THEN trie[n] ELSE NoRaw
           /\ Shape' /\ GlobLists'
<1> DEFINE end == Parse(route)
<1>0. end \in Seq(Segments) /\ Len(end) \in Nat
    BY ParseFacts DEF Nodes
<1>1. /\ DOMAIN trie' = DOMAIN trie \cup Walk(route)
      /\ \A n \in DOMAIN trie' :
            trie'[n] = IF n = end THEN route ELSE IF n \in DOMAIN trie THEN trie[n] ELSE NoRaw
    BY DEF Insert, Walk
<1>2. globChildren' \in [DOMAIN trie' -> Seq(Globs)]
    <2> DEFINE newGlob(n) == /\ Len(n) < Len(end) /\ IsPrefix(n, end)
                             /\ end[Len(n) + 1] \in Globs
                             /\ Append(n, end[Len(n) + 1]) \notin DOMAIN trie
               old(n) == IF n \in DOMAIN trie THEN globChildren[n] ELSE <<>>
               new(n) == IF newGlob(n) THEN Append(old(n), end[Len(n) + 1]) ELSE old(n)
    <2>1. globChildren' = [n \in DOMAIN trie' |-> new(n)]
        BY <1>1 DEF Insert, Walk
    <2>2. ASSUME NEW n \in DOMAIN trie' PROVE new(n) \in Seq(Globs)
        <3>1. old(n) \in Seq(Globs)
            BY DEF GlobLists
        <3>2. newGlob(n) => end[Len(n) + 1] \in Globs
            OBVIOUS
        <3> HIDE DEF old, newGlob
        <3> QED BY <3>1, <3>2
    <2> HIDE DEF new
    <2> QED BY <2>1, <2>2
<1> HIDE DEF end
<1>3. end = SubSeq(end, 1, Len(end))
    BY <1>0, SubSeqFull
<1>4. end \in Walk(route)
    <2>1. Walk(route) = {SubSeq(end, 1, n) : n \in 0 .. Len(end)}
        BY DEF Walk, end
    <2>2. Len(end) \in 0 .. Len(end)
        BY <1>0
    <2> QED BY <1>3, <2>1, <2>2
<1>5. DOMAIN trie' \subseteq Nodes
    <2>1. \A n \in 0 .. Len(end) : SubSeq(end, 1, n) \in Seq(Segments)
        BY <1>0, PrefixFacts
    <2> QED BY <1>1, <2>1 DEF Walk, Nodes, Shape, end
<1>6. ASSUME NEW n \in DOMAIN trie', NEW i \in 0 .. Len(n) PROVE SubSeq(n, 1, i) \in DOMAIN trie'
    <2>1. CASE n \in DOMAIN trie
        BY <1>1, <2>1 DEF Shape
    <2>2. CASE n \in Walk(route)
        <3>1. PICK j \in 0 .. Len(end) : n = SubSeq(end, 1, j)
            BY <2>2 DEF Walk, end
        <3>2. Len(n) = j
            BY <3>1, <1>0, PrefixFacts
        <3>3. SubSeq(SubSeq(end, 1, j), 1, i) = SubSeq(end, 1, i)
            BY <3>2, <1>0, PrefixOfPrefix
        <3>4. i \in 0 .. Len(end)
            BY <3>2, <1>0
        <3>5. SubSeq(n, 1, i) \in Walk(route)
            BY <3>1, <3>3, <3>4 DEF Walk, end
        <3> QED BY <3>5, <1>1
    <2> QED BY <2>1, <2>2, <1>1
<1>7. Shape'
    BY <1>1, <1>5, <1>6 DEF Shape
<1> QED BY <1>1, <1>2, <1>4, <1>7 DEF GlobLists, end

\* A pushed item and its route in the trie keep the invariant.
LEMMA PushInv ==
    ASSUME <<>> \notin Routes, Inv, NEW route \in Routes, NEW op \in Operations, NEW item,
           ItemRight(item), Put(<<route, op>>, item), Insert(route),
           UNCHANGED GlobalMiddlewares
    PROVE  Inv'
<1> DEFINE k == <<route, op>>
<1>0. Shape /\ Raws /\ Registered /\ GlobLists /\ Handlers
    BY DEF Inv
<1>1. /\ DOMAIN trie' = DOMAIN trie \cup Walk(route)
      /\ Parse(route) \in Walk(route)
      /\ \A n \in DOMAIN trie' :
            trie'[n] = IF n = Parse(route) THEN route
                       ELSE IF n \in DOMAIN trie THEN trie[n] ELSE NoRaw
      /\ Shape' /\ GlobLists'
    BY <1>0, InsertFacts
<1>2. /\ DOMAIN items' = DOMAIN items \cup {k}
      /\ \A j \in DOMAIN items' : items'[j] = IF j = k THEN item ELSE items[j]
    BY DEF Put
<1>3. k \in DOMAIN items' /\ k \in Routes \X Operations /\ k[1] = route /\ route # NoRaw
    BY <1>2 DEF NoRaw
<1> HIDE DEF k
<1>4. Raws'
    <2> SUFFICES ASSUME NEW n \in DOMAIN trie', trie'[n] # NoRaw
                 PROVE  /\ trie'[n] \in Routes /\ Parse(trie'[n]) = n
                        /\ \E o \in Operations : <<trie'[n], o>> \in DOMAIN items'
        BY DEF Raws, Parse, NoRaw
    <2>1. CASE n = Parse(route)
        BY <2>1, <1>1, <1>3 DEF k
    <2>2. CASE n # Parse(route)
        <3>1. n \in DOMAIN trie /\ trie'[n] = trie[n]
            BY <2>2, <1>1
        <3> QED BY <3>1, <1>0, <1>2 DEF Raws
    <2> QED BY <2>1, <2>2
<1>5. Registered'
    <2>1. DOMAIN items' \subseteq Routes \X Operations
        BY <1>0, <1>2, <1>3 DEF Registered
    <2>2. ASSUME NEW j \in DOMAIN items'
          PROVE  Parse(j[1]) \in DOMAIN trie' /\ trie'[Parse(j[1])] # NoRaw
        <3>1. CASE Parse(j[1]) = Parse(route)
            BY <3>1, <1>1, <1>3
        <3>2. CASE Parse(j[1]) # Parse(route)
            <4>1. j \in DOMAIN items
                BY <3>2, <1>2, <1>3
            <4> QED BY <3>2, <4>1, <1>0, <1>1 DEF Registered
        <3> QED BY <3>1, <3>2
    <2> QED BY <2>1, <2>2 DEF Registered, Parse, NoRaw
<1>6. Handlers'
    BY <1>0, <1>2 DEF Handlers, ItemRight, Main, Names
<1> QED BY <1>1, <1>4, <1>5, <1>6 DEF Inv

\* The item to which push appends.
LEMMA ItemOfRight ==
    ASSUME Handlers, NEW k
    PROVE  ItemRight(ItemOf(k))
<1>1. ItemRight(NewItem)
    BY DEF ItemRight, NewItem
<1> QED BY <1>1 DEF ItemOf, Handlers

\* Use keeps the invariant, whatever the order of the map.
LEMMA UseInv ==
    ASSUME <<>> \notin Routes, Inv, Use
    PROVE  Inv'
<1> DEFINE ends == {n \in DOMAIN trie : trie[n] # NoRaw}
           routes == {k[1] : k \in DOMAIN items}
<1>0. Shape /\ Raws /\ Registered /\ GlobLists /\ Handlers
    BY DEF Inv
<1>1. /\ GlobalMiddlewares' = Append(GlobalMiddlewares, "use")
      /\ items' = [k \in DOMAIN items |-> PushUse(items[k], "use")]
      /\ globChildren' = globChildren
    BY DEF Use
<1>2. PICK last \in [ends -> routes] :
          /\ \A n \in DOMAIN last : Parse(last[n]) = n
          /\ trie' = [n \in DOMAIN trie |-> IF n \in DOMAIN last THEN last[n] ELSE NoRaw]
    BY DEF Use
<1>3. DOMAIN items' = DOMAIN items /\ \A k \in DOMAIN items : items'[k] = PushUse(items[k], "use")
    BY <1>1
<1>4. /\ DOMAIN trie' = DOMAIN trie
      /\ \A n \in ends : trie'[n] \in routes /\ Parse(trie'[n]) = n
      /\ \A n \in DOMAIN trie \ ends : trie'[n] = NoRaw
    BY <1>2
<1>5. \A r \in routes : /\ r \in Routes /\ r # NoRaw
                        /\ \E op \in Operations : <<r, op>> \in DOMAIN items
    <2> SUFFICES ASSUME NEW k \in DOMAIN items
                 PROVE  /\ k[1] \in Routes /\ k[1] # NoRaw
                        /\ \E op \in Operations : <<k[1], op>> \in DOMAIN items
        OBVIOUS
    <2>1. k \in Routes \X Operations
        BY <1>0 DEF Registered
    <2>2. k[1] \in Routes /\ k[2] \in Operations /\ k = <<k[1], k[2]>>
        BY <2>1
    <2> QED BY <2>2 DEF NoRaw
<1>6. Shape'
    BY <1>0, <1>4 DEF Shape
<1>7. Raws'
    <2> SUFFICES ASSUME NEW n \in DOMAIN trie', trie'[n] # NoRaw
                 PROVE  /\ trie'[n] \in Routes /\ Parse(trie'[n]) = n
                        /\ \E o \in Operations : <<trie'[n], o>> \in DOMAIN items'
        BY DEF Raws, Parse, NoRaw
    <2>1. n \in ends
        BY <1>4
    <2> HIDE DEF ends, routes
    <2> QED BY <2>1, <1>3, <1>4, <1>5
<1>8. Registered'
    <2> SUFFICES ASSUME NEW k \in DOMAIN items
                 PROVE  Parse(k[1]) \in DOMAIN trie' /\ trie'[Parse(k[1])] # NoRaw
        BY <1>0, <1>3 DEF Registered, Parse, NoRaw
    <2>1. Parse(k[1]) \in ends
        BY <1>0 DEF Registered
    <2> HIDE DEF routes
    <2> QED BY <2>1, <1>4, <1>5
<1>9. GlobLists'
    BY <1>0, <1>1, <1>4 DEF GlobLists
<1>10. Handlers'
    <2>1. GlobalMiddlewares' \in Seq({"use"})
        BY <1>0, <1>1 DEF Handlers
    <2>2. \A k \in DOMAIN items : ItemRight(items'[k])
        BY <1>0, <1>3, PushUseRight DEF Handlers
    <2> QED BY <2>1, <2>2, <1>3 DEF Handlers, ItemRight, Main, Names
<1> QED BY <1>6, <1>7, <1>8, <1>9, <1>10 DEF Inv

\* Inv is an invariant: registration keeps the trie, the items and HandlerIndex
\* together, in any order of Add, For and Use.
THEOREM Invariance == ASSUME <<>> \notin Routes PROVE Spec => []Inv
<1>1. Init => Inv
    <2> SUFFICES ASSUME Init PROVE Inv
        OBVIOUS
    <2>1. /\ DOMAIN trie = {<<>>} /\ trie[<<>>] = NoRaw
          /\ globChildren = [n \in {<<>>} |-> <<>>] /\ DOMAIN items = {}
          /\ GlobalMiddlewares = <<>>
        BY DEF Init
    <2>2. Shape
        <3>1. <<>> \in Seq(Segments) /\ Len(<<>>) = 0 /\ SubSeq(<<>>, 1, 0) = <<>>
            OBVIOUS
        <3> QED BY <2>1, <3>1 DEF Shape, Nodes
    <2>3. GlobLists
        BY <2>1 DEF GlobLists
    <2>4. Raws /\ Registered /\ Handlers
        BY <2>1 DEF Raws, Registered, Handlers
    <2> QED BY <2>2, <2>3, <2>4 DEF Inv
<1>2. Inv /\ [Next]_vars => Inv'
    <2> SUFFICES ASSUME Inv, [Next]_vars PROVE Inv'
        OBVIOUS
    <2>1. ASSUME NEW route \in Routes, NEW op \in Operations, For(route, op) PROVE Inv'
        <3>1. GlobalMiddlewares \in Seq({"use"}) /\ ItemRight(ItemOf(<<route, op>>))
            BY ItemOfRight DEF Inv, Handlers
        <3>2. ItemRight(PushFor(GlobalMiddlewares, ItemOf(<<route, op>>), <<"for">>))
            BY <3>1, PushForRight
        <3> QED BY <2>1, <3>2, PushInv DEF For
    <2>2. ASSUME NEW route \in Routes, NEW op \in Operations, Add(route, op) PROVE Inv'
        <3>1. GlobalMiddlewares \in Seq({"use"}) /\ ItemRight(ItemOf(<<route, op>>))
            BY ItemOfRight DEF Inv, Handlers
        <3>2. ItemRight(PushAdd(GlobalMiddlewares, ItemOf(<<route, op>>), Main))
            BY <3>1, PushAddRight
        <3> QED BY <2>2, <3>2, PushInv DEF Add
    <2>3. ASSUME Use PROVE Inv'
        BY <2>3, UseInv
    <2>4. CASE UNCHANGED vars
        BY <2>4 DEF vars, Inv, Shape, Raws, Registered, GlobLists, Handlers, ItemRight,
           Parse, NoRaw, Main, Names
    <2> QED BY <2>1, <2>2, <2>3, <2>4 DEF Next
<1> QED BY <1>1, <1>2, PTL DEF Spec

\* TypeOK holds of every state: every Raw leads to its node, a node is below another, and
\* HandlerIndex is within the handlers.
THEOREM Typing == ASSUME <<>> \notin Routes PROVE Spec => []TypeOK
<1>1. Inv => TypeOK
    <2> SUFFICES ASSUME Inv PROVE TypeOK
        OBVIOUS
    <2>1. \A n \in DOMAIN trie : trie[n] = NoRaw \/ (trie[n] \in Routes /\ Parse(trie[n]) = n)
        BY DEF Inv, Raws
    <2>2. ASSUME NEW n \in DOMAIN trie, n # <<>> PROVE Front(n) \in DOMAIN trie
        <3>1. n \in Seq(Segments)
            BY DEF Inv, Shape, Nodes
        <3>2. Len(n) \in Nat /\ Len(n) # 0
            BY <2>2, <3>1
        <3>3. Len(n) - 1 \in 0 .. Len(n)
            BY <3>2
        <3> QED BY <3>3 DEF Front, Inv, Shape
    <2>3. DOMAIN globChildren = DOMAIN trie
        BY DEF Inv, GlobLists
    <2>4. \A k \in DOMAIN items : items[k].handlerIndex \in -1 .. Len(items[k].handlers) - 1
        BY DEF Inv, Handlers, ItemRight
    <2> QED BY <2>1, <2>2, <2>3, <2>4 DEF TypeOK
<1> QED BY <1>1, Invariance, PTL

----------------------------------------------------------------------------
\* A set of naturals has a least element: what is true of 0 and goes from n to n + 1
\* is shown below by looking at the least n of which it is not true.
LEMMA LeastNat ==
    ASSUME NEW T \in SUBSET Nat, T # {}
    PROVE  \E n \in T : \A m \in T : n <= m
<1> DEFINE less == OpToRel(<, Nat)
<1>1. IsWellFoundedOn(less, Nat)
    BY NatLessThanWellFounded
<1>2. \A n, m \in Nat : m < n => <<m, n>> \in less
    BY DEF OpToRel
<1> HIDE DEF less
<1>3. PICK n \in T : \A m \in T : ~(<<m, n>> \in less)
    BY <1>1, WFMin, Zenon
<1>4. ASSUME NEW m \in T PROVE n <= m
    <2>1. ~(m < n)
        BY <1>2, <1>3, Zenon
    <2> QED BY <2>1
<1> QED BY <1>4

\* f is the search of the first n segments of a path.
IsRun(f, n, path) ==
    f = [i \in 0 .. n |-> IF i = 0 THEN Start ELSE Step(f[i - 1], path[i])]

\* A search goes one segment further.
LEMMA RunFurther ==
    ASSUME NEW path, NEW n \in Nat, n # 0, NEW f, IsRun(f, n - 1, path)
    PROVE  \E g : IsRun(g, n, path)
<1> DEFINE g == [i \in 0 .. n |-> IF i = n THEN Step(f[n - 1], path[n]) ELSE f[i]]
           h == [i \in 0 .. n |-> IF i = 0 THEN Start ELSE Step(g[i - 1], path[i])]
<1>1. \A i \in 0 .. n - 1 : f[i] = IF i = 0 THEN Start ELSE Step(f[i - 1], path[i])
    BY DEF IsRun
<1>2. \A i \in 0 .. n - 1 : g[i] = f[i]
    OBVIOUS
<1>3. g[n] = Step(f[n - 1], path[n])
    OBVIOUS
<1>4. \A i \in 1 .. n : g[i - 1] = f[i - 1]
    BY <1>2
<1>5. ASSUME NEW i \in 0 .. n PROVE g[i] = h[i]
    <2>1. CASE i = 0
        BY <2>1, <1>1, <1>2
    <2>2. CASE i \in 1 .. n - 1
        <3>1. g[i] = Step(f[i - 1], path[i]) /\ g[i - 1] = f[i - 1]
            BY <2>2, <1>1, <1>2, <1>4
        <3>2. h[i] = Step(g[i - 1], path[i])
            BY <2>2
        <3> QED BY <3>1, <3>2, Zenon
    <2>3. CASE i = n
        <3>1. g[i - 1] = f[i - 1] /\ i # 0
            BY <2>3, <1>4
        <3>2. h[i] = Step(g[i - 1], path[i])
            BY <3>1
        <3> QED BY <2>3, <3>1, <3>2, <1>3, Zenon
    <2> QED BY <2>1, <2>2, <2>3
<1>6. g = h
    BY <1>5
<1>7. IsRun(g, n, path)
    <2> HIDE DEF g
    <2> QED BY <1>6 DEF IsRun
<1> QED BY <1>7

\* The search of a path is what Step makes of its segments, one after the other.
LEMMA SearchSteps ==
    ASSUME NEW path \in Seq(Segments)
    PROVE  /\ Searches(path)[0] = Start
           /\ \A n \in 1 .. Len(path) : Searches(path)[n] = Step(Searches(path)[n - 1], path[n])
<1> DEFINE R(f) == IsRun(f, Len(path), path)
           bad == {n \in 0 .. Len(path) : ~\E f : IsRun(f, n, path)}
<1>0. Len(path) \in Nat
    OBVIOUS
<1>1. bad = {}
    <2> SUFFICES ASSUME bad # {} PROVE FALSE
        OBVIOUS
    <2>1. bad \in SUBSET Nat
        OBVIOUS
    <2> HIDE DEF bad
    <2>2. PICK n \in bad : \A m \in bad : n <= m
        BY <2>1, LeastNat
    <2>3. n \in 0 .. Len(path) /\ ~\E f : IsRun(f, n, path)
        BY <2>2 DEF bad
    <2>4. CASE n = 0
        <3> DEFINE f == [i \in 0 .. 0 |-> Start]
        <3>1. f = [i \in 0 .. 0 |-> IF i = 0 THEN Start ELSE Step(f[i - 1], path[i])]
            OBVIOUS
        <3>2. IsRun(f, 0, path)
            BY <3>1 DEF IsRun
        <3> QED BY <3>2, <2>3, <2>4
    <2>5. CASE n # 0
        <3>1. n \in Nat /\ n - 1 \in 0 .. Len(path) /\ ~(n <= n - 1)
            BY <2>3, <2>5
        <3>2. n - 1 \notin bad
            BY <2>2, <3>1
        <3>3. PICK f : IsRun(f, n - 1, path)
            BY <3>1, <3>2 DEF bad
        <3> QED BY <3>1, <3>3, <2>3, <2>5, RunFurther
    <2> QED BY <2>4, <2>5
<1>2. \E f : R(f)
    BY <1>0, <1>1
<1>3. Searches(path) = CHOOSE f : R(f)
    BY DEF Searches, IsRun
<1> HIDE DEF R
<1>4. R(CHOOSE f : R(f))
    BY <1>2
<1>5. R(Searches(path))
    BY <1>3, <1>4
<1> DEFINE at == Searches(path)
<1>6. at = [i \in 0 .. Len(path) |-> IF i = 0 THEN Start ELSE Step(at[i - 1], path[i])]
    BY <1>5 DEF R, IsRun
<1> HIDE DEF at
<1>7. at[0] = Start
    BY <1>0, <1>6
<1>8. ASSUME NEW n \in 1 .. Len(path) PROVE at[n] = Step(at[n - 1], path[n])
    <2>1. n \in 0 .. Len(path) /\ n # 0
        BY <1>0
    <2> QED BY <2>1, <1>6
<1> QED BY <1>7, <1>8 DEF at

----------------------------------------------------------------------------
\* A segment of a node under which a segment of a request is found.
Accepts(x, seg) == x = seg \/ x = "$" \/ x = "*" \/ (x \in Globs /\ seg \in GlobWords[x])

\* The child to which Find goes accepts the segment; an exact child is taken if there
\* is one, and where there is a * there is always a child to go to.
LEMMA NextFacts ==
    ASSUME Inv, NEW node \in DOMAIN trie, NEW seg \in Segments
    PROVE  /\ NextSegment(node, seg) \in Segments /\ Accepts(NextSegment(node, seg), seg)
           /\ Has(node, seg) => NextSegment(node, seg) = seg
           /\ Has(node, "*") => Has(node, NextSegment(node, seg))
<1> DEFINE globs == globChildren[node]
           I == {i \in DOMAIN globs : seg \in GlobWords[globs[i]]}
<1>1. globs \in Seq(Globs) /\ \A g \in Globs : g \in Segments
    BY RouterAssumption DEF Inv, GlobLists, Segments
<1>2. DOMAIN globs = 1 .. Len(globs)
    BY <1>1
<1>3. ASSUME I # {}
      PROVE  globs[Min(I)] \in Globs /\ seg \in GlobWords[globs[Min(I)]]
    <2>1. I \in SUBSET Nat
        BY <1>2
    <2> HIDE DEF I
    <2>2. \E n \in I : \A m \in I : n <= m
        BY <1>3, <2>1, LeastNat
    <2>3. Min(I) \in I
        BY <2>2 DEF Min
    <2>4. Min(I) \in 1 .. Len(globs) /\ seg \in GlobWords[globs[Min(I)]]
        BY <2>3, <1>2 DEF I
    <2> HIDE DEF globs
    <2> QED BY <2>4, <1>1
<1>4. NextSegment(node, seg) = IF Has(node, seg) THEN seg
                               ELSE IF Has(node, "$") THEN "$"
                               ELSE IF Has(node, "*") \/ I = {} THEN "*"
                               ELSE globs[Min(I)]
    BY DEF NextSegment
<1>5. "$" \in Segments /\ "*" \in Segments
    BY DEF Segments
<1> HIDE DEF globs, I
<1> QED BY <1>1, <1>3, <1>4, <1>5 DEF Accepts

Searching == [found : BOOLEAN, node : Nodes, wildcard : Nodes, paramVals : Seq(Segments)]

\* What one segment does to the search, field by field.
LEMMA StepFacts ==
    ASSUME Inv, NEW s \in Searching, s.node \in DOMAIN trie, NEW seg \in Segments
    PROVE  LET t == Step(s, seg)
               next == NextSegment(s.node, seg)
           IN  /\ t \in Searching
               /\ ~s.found => t = s
               /\ s.found /\ ~Has(s.node, next) =>
                     /\ ~t.found /\ t.node = s.node /\ t.wildcard = s.wildcard
                     /\ t.paramVals = s.paramVals
               /\ s.found /\ Has(s.node, next) =>
                     /\ t.found /\ t.node = Append(s.node, next)
                     /\ t.wildcard = Wildcard(s.node, s.wildcard)
                     /\ t.paramVals = IF next = "$" /\ seg # "$" THEN Append(s.paramVals, seg)
                                      ELSE s.paramVals
<1> DEFINE t == Step(s, seg)
           next == NextSegment(s.node, seg)
           a == Append(s.node, next)
           w == Wildcard(s.node, s.wildcard)
           v == IF next = "$" /\ seg # "$" THEN Append(s.paramVals, seg) ELSE s.paramVals
<1>1. next \in Segments
    BY NextFacts
<1>2. t = IF ~s.found THEN s
          ELSE IF ~Has(s.node, next) THEN [s EXCEPT !.found = FALSE]
          ELSE [s EXCEPT !.node = a, !.wildcard = w, !.paramVals = v]
    BY DEF Step, Searching
<1>3. s.node \in Seq(Segments) /\ s.wildcard \in Nodes /\ s.paramVals \in Seq(Segments)
    BY DEF Searching, Nodes
<1> HIDE DEF next
<1>4. a \in Nodes
    BY <1>1, <1>3 DEF Nodes
<1>5. w \in Nodes
    <2>1. "*" \in Segments
        BY DEF Segments
    <2>2. Append(s.node, "*") \in Nodes
        BY <1>3, <2>1 DEF Nodes
    <2> QED BY <1>3, <2>2 DEF Wildcard
<1>6. v \in Seq(Segments)
    BY <1>3
<1> HIDE DEF a, w, v, t
<1>7. t \in Searching
    BY <1>2, <1>4, <1>5, <1>6 DEF Searching
<1>8. s.found /\ ~Has(s.node, next) =>
          /\ ~t.found /\ t.node = s.node /\ t.wildcard = s.wildcard
          /\ t.paramVals = s.paramVals
    BY <1>2 DEF Searching
<1>9. s.found /\ Has(s.node, next) => t.found /\ t.node = a /\ t.wildcard = w /\ t.paramVals = v
    BY <1>2 DEF Searching
<1> QED BY <1>2, <1>7, <1>8, <1>9 DEF t, next, a, w, v

----------------------------------------------------------------------------
\* w ends a route with a * that stands beside the search at a node, or below it.
Beside(w, node) ==
    /\ w \in DOMAIN trie /\ trie[w] # NoRaw
    /\ Len(w) \in 1 .. Len(node) + 1 /\ w[Len(w)] = "*"
    /\ \A i \in 1 .. Len(w) - 1 : w[i] = node[i]

\* What is true of the search of the first n segments of a path.
Follows(s, n, path) ==
    /\ s \in Searching /\ s.node \in DOMAIN trie
    /\ Len(s.node) <= n /\ (s.found => Len(s.node) = n)
    /\ \A i \in 1 .. Len(s.node) : Accepts(s.node[i], path[i])
    /\ s.wildcard = <<>> \/ Beside(s.wildcard, s.node)

\* Wildcard gives a route beside the search, if it had one before.
LEMMA WildcardBeside ==
    ASSUME Inv, NEW node \in DOMAIN trie, NEW w, w = <<>> \/ Beside(w, node)
    PROVE  /\ Wildcard(node, w) = <<>> \/ Beside(Wildcard(node, w), node)
           /\ w # <<>> => Wildcard(node, w) # <<>>
           /\ Append(node, "*") \in DOMAIN trie /\ trie[Append(node, "*")] # NoRaw
                 => Wildcard(node, w) = Append(node, "*") /\ Wildcard(node, w) # <<>>
<1> DEFINE a == Append(node, "*")
<1>0. node \in Seq(Segments) /\ "*" \in Segments
    BY DEF Inv, Shape, Nodes, Segments
<1>1. /\ a \in Seq(Segments) /\ Len(a) = Len(node) + 1 /\ a[Len(node) + 1] = "*"
      /\ \A i \in 1 .. Len(node) : a[i] = node[i]
    BY <1>0, AppendProperties
<1>2. a # <<>> /\ Len(node) \in Nat
    BY <1>0
<1>3. Wildcard(node, w) = IF a \in DOMAIN trie /\ trie[a] # NoRaw THEN a ELSE w
    BY DEF Wildcard, Has
<1> HIDE DEF a
<1>4. a \in DOMAIN trie /\ trie[a] # NoRaw => Beside(a, node)
    BY <1>1, <1>2 DEF Beside
<1> QED BY <1>2, <1>3, <1>4 DEF a

\* What is beside a node is beside the nodes below it.
LEMMA BesideBelow ==
    ASSUME NEW node \in Nodes, NEW x \in Segments, NEW w, Beside(w, node)
    PROVE  Beside(w, Append(node, x))
<1> DEFINE a == Append(node, x)
<1>1. /\ a \in Seq(Segments) /\ Len(a) = Len(node) + 1 /\ Len(node) \in Nat
      /\ \A i \in 1 .. Len(node) : a[i] = node[i]
    BY AppendProperties DEF Nodes
<1> HIDE DEF a
<1>2. Len(w) \in 1 .. Len(a) + 1
    BY <1>1 DEF Beside
<1>3. \A i \in 1 .. Len(w) - 1 : w[i] = a[i]
    BY <1>1 DEF Beside
<1>4. Beside(w, a)
    BY <1>2, <1>3 DEF Beside
<1> QED BY <1>4 DEF a

\* One segment of Find keeps Follows.
LEMMA StepFollows ==
    ASSUME Inv, NEW path \in Seq(Segments), NEW n \in 1 .. Len(path), NEW s,
           Follows(s, n - 1, path)
    PROVE  Follows(Step(s, path[n]), n, path)
<1> DEFINE seg == path[n]
           t == Step(s, seg)
           next == NextSegment(s.node, seg)
<1>0. /\ s \in Searching /\ s.node \in DOMAIN trie /\ seg \in Segments
      /\ s.node \in Nodes /\ Len(s.node) \in Nat
    BY DEF Follows, Searching, Nodes
<1>1. /\ t \in Searching
      /\ ~s.found => t = s
      /\ s.found /\ ~Has(s.node, next) =>
            /\ ~t.found /\ t.node = s.node /\ t.wildcard = s.wildcard
            /\ t.paramVals = s.paramVals
      /\ s.found /\ Has(s.node, next) =>
            /\ t.found /\ t.node = Append(s.node, next)
            /\ t.wildcard = Wildcard(s.node, s.wildcard)
    BY <1>0, StepFacts
<1>2. next \in Segments /\ Accepts(next, seg)
    BY <1>0, NextFacts
<1> HIDE DEF t, next
<1> SUFFICES Follows(t, n, path)
    BY DEF t
<1>3. CASE ~s.found
    <2>1. Len(s.node) <= n
        BY <1>0 DEF Follows
    <2>2. Follows(s, n, path)
        BY <1>3, <2>1 DEF Follows
    <2> QED BY <1>1, <1>3, <2>2
<1>4. CASE s.found /\ ~Has(s.node, next)
    BY <1>1, <1>4, <1>0 DEF Follows
<1>5. CASE s.found /\ Has(s.node, next)
    <2> DEFINE a == Append(s.node, next)
               w == Wildcard(s.node, s.wildcard)
    <2>1. /\ a \in Seq(Segments) /\ Len(a) = Len(s.node) + 1 /\ a[Len(s.node) + 1] = next
          /\ \A i \in 1 .. Len(s.node) : a[i] = s.node[i]
        BY <1>0, <1>2, AppendProperties DEF Nodes
    <2>2. a \in DOMAIN trie
        BY <1>5 DEF Has
    <2>3. w = <<>> \/ Beside(w, s.node)
        BY <1>0, WildcardBeside DEF Follows
    <2>4. w = <<>> \/ Beside(w, a)
        BY <2>3, <1>0, <1>2, BesideBelow
    <2> HIDE DEF a, w
    <2>5. Len(s.node) = n - 1 /\ Len(a) = n
        BY <1>5, <2>1 DEF Follows
    <2>6. ASSUME NEW i \in 1 .. Len(a) PROVE Accepts(a[i], path[i])
        <3>1. CASE i \in 1 .. Len(s.node)
            BY <3>1, <2>1 DEF Follows
        <3>2. CASE i = n
            BY <3>2, <2>1, <2>5, <1>2
        <3> QED BY <3>1, <3>2, <2>5
    <2>7. t.node = a /\ t.wildcard = w /\ t.found
        BY <1>1, <1>5 DEF a, w
    <2> QED BY <2>2, <2>4, <2>5, <2>6, <2>7, <1>1 DEF Follows
<1> QED BY <1>3, <1>4, <1>5

\* Every search follows the path.
LEMMA SearchFollows ==
    ASSUME Inv, NEW path \in Seq(Segments), NEW n \in 0 .. Len(path)
    PROVE  Follows(Searches(path)[n], n, path)
<1> DEFINE at == Searches(path)
           bad == {k \in 0 .. Len(path) : ~Follows(at[k], k, path)}
<1>0. Len(path) \in Nat
    OBVIOUS
<1>1. at[0] = Start /\ \A k \in 1 .. Len(path) : at[k] = Step(at[k - 1], path[k])
    BY SearchSteps
<1> HIDE DEF at
<1>2. bad = {}
    <2> SUFFICES ASSUME bad # {} PROVE FALSE
        OBVIOUS
    <2>1. bad \in SUBSET Nat
        OBVIOUS
    <2> HIDE DEF bad
    <2>2. PICK k \in bad : \A m \in bad : k <= m
        BY <2>1, LeastNat
    <2>3. k \in 0 .. Len(path) /\ ~Follows(at[k], k, path)
        BY <2>2 DEF bad
    <2>4. CASE k = 0
        <3>1. <<>> \in Nodes /\ <<>> \in Seq(Segments) /\ Len(<<>>) = 0
            BY DEF Nodes
        <3>2. Start \in Searching /\ Start.node = <<>> /\ Start.wildcard = <<>>
            BY <3>1 DEF Start, Searching
        <3>3. <<>> \in DOMAIN trie
            BY DEF Inv, Shape
        <3>4. Follows(Start, 0, path)
            BY <3>1, <3>2, <3>3 DEF Follows
        <3> QED BY <3>4, <2>3, <2>4, <1>1
    <2>5. CASE k # 0
        <3>1. k \in 1 .. Len(path) /\ k - 1 \in 0 .. Len(path) /\ ~(k <= k - 1)
            BY <2>3, <2>5
        <3>2. Follows(at[k - 1], k - 1, path)
            BY <2>2, <3>1 DEF bad
        <3> QED BY <3>1, <3>2, <2>3, <1>1, StepFollows
    <2> QED BY <2>4, <2>5
<1> QED BY <1>2 DEF at

----------------------------------------------------------------------------
\* The root of the trie ends no route.
LEMMA RootEndsNone ==
    ASSUME <<>> \notin Routes, Inv
    PROVE  trie[<<>>] = NoRaw
<1> SUFFICES ASSUME trie[<<>>] # NoRaw PROVE FALSE
    OBVIOUS
<1> DEFINE r == trie[<<>>]
<1>1. r \in Routes /\ Parse(r) = <<>>
    BY DEF Inv, Shape, Raws
<1> HIDE DEF r
<1>2. r \in Seq(STRING) /\ Len(Parse(r)) = Len(r)
    BY <1>1, ParseFacts
<1>3. Len(r) = 0
    BY <1>1, <1>2
<1>4. r = <<>>
    BY <1>2, <1>3
<1> QED BY <1>1, <1>4

\* The wildcard that the search of a path leaves.
Left(path) ==
    LET s == Searches(path)[Len(path)]
    IN IF s.found /\ path # <<>> THEN Wildcard(s.node, s.wildcard) ELSE s.wildcard

\* It is a route beside the search, or none was met.
LEMMA LeftBeside ==
    ASSUME Inv, NEW path \in Seq(Segments)
    PROVE  LET s == Searches(path)[Len(path)]
           IN /\ Follows(s, Len(path), path)
              /\ Left(path) = <<>> \/ Beside(Left(path), s.node)
              /\ s.wildcard # <<>> => Left(path) # <<>>
<1> DEFINE s == Searches(path)[Len(path)]
<1>1. Len(path) \in 0 .. Len(path)
    OBVIOUS
<1>2. Follows(s, Len(path), path)
    BY <1>1, SearchFollows
<1>3. Left(path) = IF s.found /\ path # <<>> THEN Wildcard(s.node, s.wildcard) ELSE s.wildcard
    BY DEF Left
<1> HIDE DEF s
<1>4. s.node \in DOMAIN trie /\ (s.wildcard = <<>> \/ Beside(s.wildcard, s.node))
    BY <1>2 DEF Follows
<1>5. /\ Wildcard(s.node, s.wildcard) = <<>> \/ Beside(Wildcard(s.node, s.wildcard), s.node)
      /\ s.wildcard # <<>> => Wildcard(s.node, s.wildcard) # <<>>
    BY <1>4, WildcardBeside
<1> QED BY <1>2, <1>3, <1>4, <1>5 DEF s

\* Router.Match in terms of the search.
LEMMA MatchIs ==
    ASSUME NEW op, NEW path
    PROVE  LET s == Searches(path)[Len(path)]
               matched == IF s.found /\ path # <<>> THEN trie[s.node] ELSE NoRaw
               wild == trie[Left(path)]
               hit(route) == [ok |-> TRUE, route |-> route, paramVals |-> s.paramVals]
           IN Match(op, path) = IF <<matched, op>> \in DOMAIN items THEN hit(matched)
                                ELSE IF <<wild, op>> \in DOMAIN items THEN hit(wild)
                                ELSE [ok |-> FALSE]
BY DEF Match, Find, Left

\* Where the route of an answer is: at the node to which the whole path led, or at a
\* wildcard beside the search.
Led(path, s, route) ==
    \/ Parse(route) = s.node /\ Len(s.node) = Len(path)
    \/ Beside(Parse(route), s.node)

\* An answer of Match has a route to which the search led, and the values of the search.
LEMMA MatchLed ==
    ASSUME <<>> \notin Routes, Inv, NEW op, NEW path \in Seq(Segments), Match(op, path).ok
    PROVE  LET s == Searches(path)[Len(path)]
               m == Match(op, path)
           IN /\ Follows(s, Len(path), path)
              /\ m.route \in Routes /\ m.paramVals = s.paramVals /\ Led(path, s, m.route)
<1> DEFINE s == Searches(path)[Len(path)]
           m == Match(op, path)
           matched == IF s.found /\ path # <<>> THEN trie[s.node] ELSE NoRaw
           wild == trie[Left(path)]
           hit(route) == [ok |-> TRUE, route |-> route, paramVals |-> s.paramVals]
<1>1. m = IF <<matched, op>> \in DOMAIN items THEN hit(matched)
          ELSE IF <<wild, op>> \in DOMAIN items THEN hit(wild)
          ELSE [ok |-> FALSE]
    BY MatchIs
<1>2. /\ Follows(s, Len(path), path)
      /\ Left(path) = <<>> \/ Beside(Left(path), s.node)
    BY LeftBeside
<1>3. \A r : <<r, op>> \in DOMAIN items => r \in Routes /\ r # NoRaw
    BY DEF Inv, Registered, NoRaw
<1>4. /\ s.node \in DOMAIN trie /\ (s.found => Len(s.node) = Len(path))
    BY <1>2 DEF Follows
<1>5. \A n \in DOMAIN trie : trie[n] # NoRaw => Parse(trie[n]) = n
    BY DEF Inv, Raws
<1>6. trie[<<>>] = NoRaw
    BY RootEndsNone
<1>7. CASE <<matched, op>> \in DOMAIN items
    <2>1. matched \in Routes /\ matched # NoRaw
        BY <1>3, <1>7
    <2>2. matched = trie[s.node] /\ s.found
        BY <2>1
    <2> HIDE DEF s
    <2>3. m.route = matched /\ m.paramVals = s.paramVals
        BY <1>1, <1>7
    <2>4. Parse(matched) = s.node /\ Len(s.node) = Len(path)
        BY <2>1, <2>2, <1>4, <1>5
    <2> HIDE DEF m, matched
    <2> QED BY <2>1, <2>3, <2>4, <1>2 DEF Led, m, s
<1>8. CASE <<matched, op>> \notin DOMAIN items
    <2>1. <<wild, op>> \in DOMAIN items
        BY <1>1, <1>8
    <2>2. wild \in Routes /\ wild # NoRaw
        BY <1>3, <2>1
    <2>3. m.route = wild /\ m.paramVals = s.paramVals
        BY <1>1, <1>8, <2>1
    <2>4. Beside(Left(path), s.node)
        BY <1>2, <1>6, <2>2
    <2>5. Parse(wild) = Left(path)
        BY <1>5, <2>2, <2>4 DEF Beside
    <2> HIDE DEF m, wild, s
    <2> QED BY <2>2, <2>3, <2>4, <2>5, <1>2 DEF Led, m, s
<1> QED BY <1>7, <1>8

----------------------------------------------------------------------------
\* A segment of a route covers what the segment of its node accepts.
LEMMA AcceptedCovered ==
    ASSUME NEW route \in Routes, NEW i \in 1 .. Len(route), NEW seg,
           Accepts(Parse(route)[i], seg)
    PROVE  \/ route[i] = seg \/ route[i] \in Params \/ route[i] = "*"
           \/ route[i] \in Globs /\ seg \in GlobWords[route[i]]
<1>1. /\ route[i] \in Params => Parse(route)[i] = "$"
      /\ route[i] \notin Params => Parse(route)[i] = route[i]
      /\ route[i] # "$"
    BY ParseFacts
<1> QED BY <1>1 DEF Accepts

\* A route to which the search led covers the path.
LEMMA LedCovers ==
    ASSUME NEW path \in Seq(Segments), NEW s, Follows(s, Len(path), path),
           NEW route \in Routes, Led(path, s, route)
    PROVE  Covers(route, path)
<1> DEFINE p == Parse(route)
           covers(i) == \/ route[i] = path[i] \/ route[i] \in Params \/ route[i] = "*"
                        \/ route[i] \in Globs /\ path[i] \in GlobWords[route[i]]
<1>0. /\ route \in Seq(STRING) /\ p \in Nodes /\ Len(p) = Len(route) /\ Len(route) \in Nat
      /\ DOMAIN route = 1 .. Len(route)
      /\ \A i \in 1 .. Len(route) :
            /\ route[i] \in Params => p[i] = "$"
            /\ route[i] \notin Params => p[i] = route[i]
    BY ParseFacts
<1>1. Covers(route, path) <=>
          \/ Len(route) = Len(path) /\ \A i \in DOMAIN route : covers(i)
          \/ /\ route # <<>> /\ Last(route) = "*" /\ Len(path) >= Len(route) - 1
             /\ \A i \in 1 .. Len(route) - 1 : covers(i)
    BY DEF Covers
<1>2. ASSUME NEW i \in 1 .. Len(route), Accepts(p[i], path[i]) PROVE covers(i)
    BY <1>2, AcceptedCovered
<1>3. /\ Len(s.node) <= Len(path) /\ Len(s.node) \in Nat
      /\ \A i \in 1 .. Len(s.node) : Accepts(s.node[i], path[i])
    BY DEF Follows, Searching, Nodes
<1> HIDE DEF p, covers
<1>4. CASE p = s.node /\ Len(s.node) = Len(path)
    <2>1. \A i \in DOMAIN route : covers(i)
        BY <1>0, <1>2, <1>3, <1>4
    <2> QED BY <2>1, <1>0, <1>1, <1>4
<1>5. CASE Beside(p, s.node)
    <2>1. /\ Len(p) \in 1 .. Len(s.node) + 1 /\ p[Len(p)] = "*"
          /\ \A i \in 1 .. Len(p) - 1 : p[i] = s.node[i]
        BY <1>5 DEF Beside
    <2>2. route # <<>> /\ Len(path) >= Len(route) - 1
        BY <2>1, <1>0, <1>3
    <2>3. Last(route) = "*"
        <3>1. Len(route) \in 1 .. Len(route)
            BY <2>1, <1>0
        <3> QED BY <3>1, <2>1, <1>0 DEF Last
    <2>4. ASSUME NEW i \in 1 .. Len(route) - 1 PROVE covers(i)
        <3>1. i \in 1 .. Len(route) /\ i \in 1 .. Len(s.node) /\ p[i] = s.node[i]
            BY <2>1, <1>0, <1>3
        <3> QED BY <3>1, <1>2, <1>3
    <2> QED BY <2>2, <2>3, <2>4, <1>1
<1> QED BY <1>4, <1>5 DEF Led, p

\* Requests are sequences of segments.
LEMMA PathsTyped ==
    ASSUME NEW path \in Paths
    PROVE  path \in Seq(Segments)
<1>1. PICK n \in 0 .. MaxPath : path \in [1 .. n -> Words]
    BY DEF Paths
<1>2. n \in Nat
    OBVIOUS
<1>3. path \in [1 .. n -> Segments]
    BY <1>1, RouterAssumption DEF Segments
<1> QED BY <1>2, <1>3

\* Match answers only with routes that cover the path.
LEMMA MatchesCover ==
    ASSUME <<>> \notin Routes, Inv
    PROVE  OnlyMatchingRoutes
<1> SUFFICES ASSUME NEW op \in Operations, NEW path \in Paths, Match(op, path).ok
             PROVE  Covers(Match(op, path).route, path)
    BY DEF OnlyMatchingRoutes
<1>1. path \in Seq(Segments)
    BY PathsTyped
<1> QED BY <1>1, MatchLed, LedCovers

----------------------------------------------------------------------------
\* The number of parameters among the first i segments of a node.
Count(node, i) == Cardinality({j \in 1 .. i : node[j] = "$"})

\* Counting goes segment by segment.
LEMMA CountFacts ==
    ASSUME NEW node, NEW i \in Nat
    PROVE  /\ Count(node, i) \in Nat
           /\ Count(node, 0) = 0
           /\ Count(node, i + 1) = IF node[i + 1] = "$" THEN Count(node, i) + 1 ELSE Count(node, i)
<1> DEFINE P(n) == {j \in 1 .. n : node[j] = "$"}
<1>1. IsFiniteSet(P(i))
    <2>1. IsFiniteSet(1 .. i) /\ P(i) \in SUBSET (1 .. i)
        BY FS_Interval
    <2> QED BY <2>1, FS_Subset
<1>2. Count(node, i) = Cardinality(P(i)) /\ Count(node, i + 1) = Cardinality(P(i + 1))
    BY DEF Count
<1>3. Count(node, 0) = 0
    <2>1. {j \in 1 .. 0 : node[j] = "$"} = {}
        OBVIOUS
    <2> QED BY <2>1, FS_EmptySet DEF Count
<1>4. node[i + 1] = "$" => P(i + 1) = P(i) \cup {i + 1} /\ i + 1 \notin P(i)
    OBVIOUS
<1>5. node[i + 1] # "$" => P(i + 1) = P(i)
    OBVIOUS
<1> HIDE DEF P
<1>6. Cardinality(P(i)) \in Nat
    BY <1>1, FS_CardinalityType
<1>7. i + 1 \notin P(i) => Cardinality(P(i) \cup {i + 1}) = Cardinality(P(i)) + 1
    BY <1>1, FS_AddElement
<1> QED BY <1>2, <1>3, <1>4, <1>5, <1>6, <1>7

\* Nodes that agree on the first segments have the same count there.
LEMMA CountAgrees ==
    ASSUME NEW a, NEW b, NEW i \in Nat, \A j \in 1 .. i : a[j] = "$" <=> b[j] = "$"
    PROVE  Count(a, i) = Count(b, i)
<1>1. {j \in 1 .. i : a[j] = "$"} = {j \in 1 .. i : b[j] = "$"}
    OBVIOUS
<1> QED BY <1>1 DEF Count

\* The values of the search are the segments under its parameters, in their order.
Values(node, vals, path) ==
    /\ Len(vals) = Count(node, Len(node))
    /\ \A i \in 1 .. Len(node) : node[i] = "$" =>
          Count(node, i) \in 1 .. Len(vals) /\ vals[Count(node, i)] = path[i]

\* A parameter below a node takes the next segment.
LEMMA AppendValues ==
    ASSUME NEW path \in Seq(Segments), NEW node \in Nodes, NEW vals \in Seq(Segments),
           Values(node, vals, path), Len(node) < Len(path), NEW x \in Segments,
           NEW new, new = IF x = "$" THEN Append(vals, path[Len(node) + 1]) ELSE vals
    PROVE  Values(Append(node, x), new, path)
<1> DEFINE a == Append(node, x)
           l == Len(node)
<1>1. /\ Len(a) = l + 1 /\ a[l + 1] = x /\ l \in Nat
      /\ \A i \in 1 .. l : a[i] = node[i]
    BY AppendProperties DEF Nodes
<1> HIDE DEF a
<1>2. \A i \in 0 .. l : Count(a, i) = Count(node, i)
    BY <1>1, CountAgrees
<1>3. Count(a, l) = Len(vals) /\ Len(vals) \in Nat
    BY <1>1, <1>2 DEF Values
<1>4. Count(a, l + 1) = IF x = "$" THEN Len(vals) + 1 ELSE Len(vals)
    BY <1>1, <1>3, CountFacts
<1>5. /\ Len(new) = IF x = "$" THEN Len(vals) + 1 ELSE Len(vals)
      /\ \A i \in 1 .. Len(vals) : new[i] = vals[i]
      /\ x = "$" => new[Len(vals) + 1] = path[l + 1]
    <2>1. path[l + 1] \in Segments
        BY <1>1
    <2>2. CASE x = "$"
        BY <2>1, <2>2, AppendProperties
    <2>3. CASE x # "$"
        BY <2>3, <1>3
    <2> QED BY <2>2, <2>3
<1>6. ASSUME NEW i \in 1 .. Len(a), a[i] = "$"
      PROVE  Count(a, i) \in 1 .. Len(new) /\ new[Count(a, i)] = path[i]
    <2>1. CASE i \in 1 .. l
        <3>1. Count(node, i) \in 1 .. Len(vals) /\ vals[Count(node, i)] = path[i]
            BY <2>1, <1>1, <1>6 DEF Values
        <3>2. Count(a, i) = Count(node, i)
            BY <2>1, <1>1, <1>2
        <3> QED BY <3>1, <3>2, <1>3, <1>5
    <2>2. CASE i = l + 1
        <3>1. x = "$"
            BY <2>2, <1>1, <1>6
        <3> QED BY <2>2, <3>1, <1>3, <1>4, <1>5
    <2> QED BY <2>1, <2>2, <1>1
<1>7. Values(a, new, path)
    BY <1>1, <1>4, <1>5, <1>6 DEF Values
<1> QED BY <1>7 DEF a

\* One segment of Find keeps Values.
LEMMA StepValues ==
    ASSUME Inv, NEW path \in Seq(Segments), NEW n \in 1 .. Len(path), NEW s,
           Follows(s, n - 1, path), path[n] # "$", Values(s.node, s.paramVals, path)
    PROVE  Values(Step(s, path[n]).node, Step(s, path[n]).paramVals, path)
<1> DEFINE seg == path[n]
           t == Step(s, seg)
           next == NextSegment(s.node, seg)
           v == IF next = "$" THEN Append(s.paramVals, seg) ELSE s.paramVals
<1>0. /\ s \in Searching /\ s.node \in DOMAIN trie /\ seg \in Segments
      /\ s.node \in Nodes /\ s.paramVals \in Seq(Segments)
      /\ s.found => Len(s.node) = n - 1
    BY DEF Follows, Searching
<1>1. /\ ~s.found => t = s
      /\ s.found /\ ~Has(s.node, next) => t.node = s.node /\ t.paramVals = s.paramVals
      /\ s.found /\ Has(s.node, next) =>
            /\ t.node = Append(s.node, next)
            /\ t.paramVals = IF next = "$" /\ seg # "$" THEN Append(s.paramVals, seg)
                             ELSE s.paramVals
    BY <1>0, StepFacts
<1>2. next \in Segments
    BY <1>0, NextFacts
<1> HIDE DEF t, next
<1> SUFFICES Values(t.node, t.paramVals, path)
    BY DEF t
<1>3. CASE ~s.found
    BY <1>1, <1>3
<1>4. CASE s.found /\ ~Has(s.node, next)
    BY <1>1, <1>4
<1>5. CASE s.found /\ Has(s.node, next)
    <2>1. t.node = Append(s.node, next) /\ t.paramVals = v
        BY <1>1, <1>5
    <2>2. n = Len(s.node) + 1 /\ Len(s.node) < Len(path)
        BY <1>0, <1>5
    <2>3. v = IF next = "$" THEN Append(s.paramVals, path[Len(s.node) + 1]) ELSE s.paramVals
        BY <2>2
    <2> HIDE DEF v
    <2>4. Values(Append(s.node, next), v, path)
        BY <2>2, <2>3, <1>0, <1>2, AppendValues
    <2> QED BY <2>1, <2>4
<1> QED BY <1>3, <1>4, <1>5

\* Every search of a path without "$" has the values of its parameters.
LEMMA SearchValues ==
    ASSUME Inv, NEW path \in Seq(Segments), \A i \in 1 .. Len(path) : path[i] # "$",
           NEW n \in 0 .. Len(path)
    PROVE  Values(Searches(path)[n].node, Searches(path)[n].paramVals, path)
<1> DEFINE at == Searches(path)
           bad == {k \in 0 .. Len(path) : ~Values(at[k].node, at[k].paramVals, path)}
<1>1. /\ at[0] = Start /\ \A k \in 1 .. Len(path) : at[k] = Step(at[k - 1], path[k])
      /\ \A k \in 0 .. Len(path) : Follows(at[k], k, path)
    BY SearchSteps, SearchFollows
<1> HIDE DEF at
<1>2. bad = {}
    <2> SUFFICES ASSUME bad # {} PROVE FALSE
        OBVIOUS
    <2>1. bad \in SUBSET Nat
        OBVIOUS
    <2> HIDE DEF bad
    <2>2. PICK k \in bad : \A m \in bad : k <= m
        BY <2>1, LeastNat
    <2>3. k \in 0 .. Len(path) /\ ~Values(at[k].node, at[k].paramVals, path)
        BY <2>2 DEF bad
    <2>4. CASE k = 0
        <3>1. Start.node = <<>> /\ Start.paramVals = <<>> /\ Len(<<>>) = 0
            BY DEF Start
        <3>2. Values(Start.node, Start.paramVals, path)
            BY <3>1, CountFacts DEF Values
        <3> QED BY <3>2, <2>3, <2>4, <1>1
    <2>5. CASE k # 0
        <3>1. k \in 1 .. Len(path) /\ k - 1 \in 0 .. Len(path) /\ ~(k <= k - 1)
            BY <2>3, <2>5
        <3>2. Values(at[k - 1].node, at[k - 1].paramVals, path) /\ Follows(at[k - 1], k - 1, path)
            BY <2>2, <3>1, <1>1 DEF bad
        <3> QED BY <3>1, <3>2, <2>3, <1>1, StepValues
    <2> QED BY <2>4, <2>5
<1> QED BY <1>2 DEF at

\* A route to which the search led finds the values of its parameters.
LEMMA LedValues ==
    ASSUME NEW path \in Seq(Segments), NEW s, Follows(s, Len(path), path),
           Values(s.node, s.paramVals, path), NEW route \in Routes, Led(path, s, route),
           NEW i \in 1 .. Len(route), route[i] \in Params
    PROVE  LET c == Cardinality({j \in 1 .. i : route[j] \in Params})
           IN c \in 1 .. Len(s.paramVals) /\ s.paramVals[c] = path[i]
<1> DEFINE p == Parse(route)
           c == Cardinality({j \in 1 .. i : route[j] \in Params})
<1>0. /\ p \in Nodes /\ Len(p) = Len(route) /\ Len(route) \in Nat
      /\ \A j \in 1 .. Len(route) : p[j] = "$" <=> route[j] \in Params
    BY ParseFacts
<1>1. c = Count(p, i)
    <2>1. {j \in 1 .. i : route[j] \in Params} = {j \in 1 .. i : p[j] = "$"}
        BY <1>0
    <2> QED BY <2>1 DEF Count
<1> HIDE DEF p, c
<1>2. i \in 1 .. Len(s.node) /\ \A j \in 1 .. i : p[j] = s.node[j]
    <2>1. CASE p = s.node
        BY <2>1, <1>0
    <2>2. CASE Beside(p, s.node)
        <3>1. /\ Len(p) \in 1 .. Len(s.node) + 1 /\ p[Len(p)] = "*"
              /\ \A j \in 1 .. Len(p) - 1 : p[j] = s.node[j]
            BY <2>2 DEF Beside
        <3>2. p[i] = "$"
            BY <1>0
        <3>3. i # Len(p)
            BY <3>1, <3>2
        <3>4. Len(s.node) \in Nat
            BY DEF Follows, Searching, Nodes
        <3>5. i \in 1 .. Len(p) - 1
            BY <3>3, <1>0
        <3> HIDE DEF Nodes
        <3> QED BY <3>1, <3>4, <3>5
    <2> QED BY <2>1, <2>2 DEF Led, p
<1>3. Count(p, i) = Count(s.node, i)
    BY <1>2, CountAgrees
<1>4. s.node[i] = "$"
    BY <1>0, <1>2
<1> QED BY <1>1, <1>2, <1>3, <1>4 DEF Values, c

\* The parameters of an answer are right.
LEMMA ValuesRight ==
    ASSUME <<>> \notin Routes, Inv
    PROVE  ParamsRight
<1> DEFINE c(r, i) == Cardinality({j \in 1 .. i : r[j] \in Params})
<1> SUFFICES ASSUME NEW op \in Operations, NEW path \in Paths, Match(op, path).ok,
                    "$" \notin Range(path), NEW i \in DOMAIN Match(op, path).route,
                    Match(op, path).route[i] \in Params
             PROVE  LET m == Match(op, path)
                    IN c(m.route, i) \in DOMAIN m.paramVals /\ m.paramVals[c(m.route, i)] = path[i]
    BY DEF ParamsRight
<1> DEFINE m == Match(op, path)
           s == Searches(path)[Len(path)]
<1>1. path \in Seq(Segments)
    BY PathsTyped
<1>2. \A j \in 1 .. Len(path) : path[j] # "$"
    BY <1>1 DEF Range
<1>3. /\ Follows(s, Len(path), path)
      /\ m.route \in Routes /\ m.paramVals = s.paramVals /\ Led(path, s, m.route)
    BY <1>1, MatchLed
<1>4. Values(s.node, s.paramVals, path)
    <2>1. Len(path) \in 0 .. Len(path)
        BY <1>1
    <2> QED BY <1>1, <1>2, <2>1, SearchValues
<1>5. i \in 1 .. Len(m.route) /\ m.route[i] \in Params
    BY <1>3, ParseFacts
<1>6. s.paramVals \in Seq(Segments)
    BY <1>3 DEF Follows, Searching
<1> HIDE DEF m, s
<1>7. c(m.route, i) \in 1 .. Len(s.paramVals) /\ s.paramVals[c(m.route, i)] = path[i]
    BY <1>1, <1>3, <1>4, <1>5, LedValues
<1>8. DOMAIN s.paramVals = 1 .. Len(s.paramVals)
    BY <1>6
<1> HIDE DEF c
<1> QED BY <1>3, <1>7, <1>8 DEF m

\* HandlerIndex is where the main handler is.
LEMMA IndexRight ==
    ASSUME Inv
    PROVE  MainHandlerAtIndex
<1> SUFFICES ASSUME NEW k \in DOMAIN items
             PROVE  {i \in DOMAIN items[k].handlers : items[k].handlers[i] = Main}
                    = IF items[k].handlerIndex > -1 THEN {items[k].handlerIndex + 1} ELSE {}
    BY DEF MainHandlerAtIndex
<1> DEFINE h == items[k].handlers
           x == items[k].handlerIndex
<1>1. /\ h \in Seq(Names) /\ x \in -1 .. Len(h) - 1
      /\ \A i \in 1 .. Len(h) : h[i] = Main <=> i = x + 1
    BY DEF Inv, Handlers, ItemRight
<1>2. DOMAIN h = 1 .. Len(h)
    BY <1>1
<1> HIDE DEF h, x
<1>3. {i \in DOMAIN h : h[i] = Main} = IF x > -1 THEN {x + 1} ELSE {}
    BY <1>1, <1>2
<1> QED BY <1>3 DEF h, x

\* MatchSound holds of every state: Router.Match answers with routes that cover the path
\* and with the segments under their parameters, and an item's HandlerIndex is where its
\* main handler is, whatever was registered in whatever order.
THEOREM MatchesAreSound == ASSUME <<>> \notin Routes PROVE Spec => []MatchSound
<1>1. Inv => MatchSound
    BY MatchesCover, ValuesRight, IndexRight DEF MatchSound
<1> QED BY <1>1, Invariance, PTL

----------------------------------------------------------------------------
\* Where a path goes along a node, the search goes there too: an exact child comes first.
LEMMA SearchExact ==
    ASSUME Inv, NEW path \in Seq(Segments), NEW w \in DOMAIN trie, Len(w) <= Len(path),
           \A i \in 1 .. Len(w) : w[i] = path[i], NEW n \in 0 .. Len(w)
    PROVE  Searches(path)[n].found /\ Searches(path)[n].node = SubSeq(w, 1, n)
<1> DEFINE at == Searches(path)
           bad == {k \in 0 .. Len(w) : ~(at[k].found /\ at[k].node = SubSeq(w, 1, k))}
<1>0. w \in Seq(Segments) /\ Len(w) \in Nat /\ Len(path) \in Nat
    BY DEF Inv, Shape, Nodes
<1>1. /\ at[0] = Start /\ \A k \in 1 .. Len(path) : at[k] = Step(at[k - 1], path[k])
      /\ \A k \in 0 .. Len(path) : Follows(at[k], k, path)
    BY SearchSteps, SearchFollows
<1> HIDE DEF at
<1>2. bad = {}
    <2> SUFFICES ASSUME bad # {} PROVE FALSE
        OBVIOUS
    <2>1. bad \in SUBSET Nat
        OBVIOUS
    <2> HIDE DEF bad
    <2>2. PICK k \in bad : \A m \in bad : k <= m
        BY <2>1, LeastNat
    <2>3. k \in 0 .. Len(w) /\ ~(at[k].found /\ at[k].node = SubSeq(w, 1, k))
        BY <2>2 DEF bad
    <2>4. CASE k = 0
        <3>1. Start.found /\ Start.node = <<>>
            BY DEF Start
        <3>2. SubSeq(w, 1, 0) = <<>>
            BY SubSeqEmpty
        <3> QED BY <3>1, <3>2, <2>3, <2>4, <1>1
    <2>5. CASE k # 0
        <3> DEFINE s == at[k - 1]
                   seg == path[k]
                   t == Step(s, seg)
                   next == NextSegment(s.node, seg)
        <3>1. /\ k \in 1 .. Len(path) /\ k \in 1 .. Len(w) /\ ~(k <= k - 1)
              /\ k - 1 \in 0 .. Len(path) /\ k - 1 \in 0 .. Len(w)
            BY <2>3, <2>5, <1>0
        <3>2. s.found /\ s.node = SubSeq(w, 1, k - 1)
            BY <2>2, <3>1 DEF bad
        <3>3. s \in Searching /\ s.node \in DOMAIN trie
            BY <3>1, <1>1 DEF Follows
        <3>4. seg \in Segments /\ seg = w[k]
            BY <3>1
        <3>5. Append(SubSeq(w, 1, k - 1), w[k]) = SubSeq(w, 1, k)
            <4>1. k - 1 \in 0 .. Len(w) - 1 /\ (k - 1) + 1 = k
                BY <3>1, <1>0
            <4> QED BY <4>1, <1>0, PrefixAppend
        <3>6. Append(s.node, seg) = SubSeq(w, 1, k)
            BY <3>2, <3>4, <3>5
        <3>7. Has(s.node, seg)
            BY <3>1, <3>6 DEF Has, Inv, Shape
        <3>8. at[k] = t
            BY <3>1, <1>1
        <3> HIDE DEF s, seg
        <3>9. next = seg
            BY <3>3, <3>4, <3>7, NextFacts
        <3>10. s.found /\ Has(s.node, next) => t.found /\ t.node = Append(s.node, next)
            BY <3>3, <3>4, StepFacts
        <3> HIDE DEF next, t
        <3> QED BY <3>2, <3>6, <3>7, <3>8, <3>9, <3>10, <2>3
    <2> QED BY <2>4, <2>5
<1> QED BY <1>2 DEF at

\* A wildcard that was met is only replaced by another.
LEMMA WildcardKept ==
    ASSUME Inv, NEW path \in Seq(Segments), NEW m \in 0 .. Len(path),
           Searches(path)[m].wildcard # <<>>, NEW n \in m .. Len(path)
    PROVE  Searches(path)[n].wildcard # <<>>
<1> DEFINE at == Searches(path)
           bad == {k \in m .. Len(path) : at[k].wildcard = <<>>}
<1>1. /\ \A k \in 1 .. Len(path) : at[k] = Step(at[k - 1], path[k])
      /\ \A k \in 0 .. Len(path) : Follows(at[k], k, path)
    BY SearchSteps, SearchFollows
<1>2. at[m].wildcard # <<>>
    OBVIOUS
<1> HIDE DEF at
<1>3. bad = {}
    <2> SUFFICES ASSUME bad # {} PROVE FALSE
        OBVIOUS
    <2>1. bad \in SUBSET Nat
        OBVIOUS
    <2> HIDE DEF bad
    <2>2. PICK k \in bad : \A j \in bad : k <= j
        BY <2>1, LeastNat
    <2>3. k \in m .. Len(path) /\ at[k].wildcard = <<>>
        BY <2>2 DEF bad
    <2>4. k # m
        BY <2>3, <1>2
    <2> DEFINE s == at[k - 1]
               seg == path[k]
               t == Step(s, seg)
               next == NextSegment(s.node, seg)
    <2>5. /\ k \in 1 .. Len(path) /\ k - 1 \in 0 .. Len(path)
          /\ k - 1 \in m .. Len(path) /\ ~(k <= k - 1)
        BY <2>3, <2>4
    <2>6. s.wildcard # <<>>
        BY <2>2, <2>5 DEF bad
    <2>7. /\ s \in Searching /\ s.node \in DOMAIN trie
          /\ s.wildcard = <<>> \/ Beside(s.wildcard, s.node)
        BY <2>5, <1>1 DEF Follows
    <2>8. seg \in Segments /\ at[k] = t
        BY <2>5, <1>1
    <2> HIDE DEF s, seg
    <2>9. /\ ~s.found => t = s
          /\ s.found /\ ~Has(s.node, next) => t.wildcard = s.wildcard
          /\ s.found /\ Has(s.node, next) => t.wildcard = Wildcard(s.node, s.wildcard)
        BY <2>7, <2>8, StepFacts
    <2>10. Wildcard(s.node, s.wildcard) # <<>>
        BY <2>6, <2>7, WildcardBeside
    <2> HIDE DEF t, next
    <2> QED BY <2>3, <2>6, <2>8, <2>9, <2>10
<1> QED BY <1>2, <1>3 DEF at

\* A route without parameters is its own node.
LEMMA ParseStatic ==
    ASSUME NEW route \in Routes, \A i \in 1 .. Len(route) : route[i] \notin Params
    PROVE  Parse(route) = route /\ route \in Seq(Segments)
<1> DEFINE p == Parse(route)
<1>1. /\ route \in Seq(STRING) /\ p \in Seq(Segments) /\ Len(p) = Len(route)
      /\ \A i \in 1 .. Len(route) : p[i] = route[i]
    BY ParseFacts DEF Nodes
<1> HIDE DEF p
<1>2. route \in Seq(Segments)
    BY <1>1 DEF Segments
<1>3. p = route
    BY <1>1, <1>2, SeqEqual
<1> QED BY <1>2, <1>3 DEF p

\* A static route is found by its own path.
LEMMA StaticFound ==
    ASSUME <<>> \notin Routes, Inv
    PROVE  StaticRoutesFound
<1> SUFFICES ASSUME NEW k \in DOMAIN items, k[1] # <<>>, Range(k[1]) \subseteq Words \ {"$", "*"}
             PROVE  Match(k[2], k[1]).ok /\ Match(k[2], k[1]).route = k[1]
    BY DEF StaticRoutesFound
<1> DEFINE r == k[1]
           s == Searches(r)[Len(r)]
           matched == IF s.found /\ r # <<>> THEN trie[s.node] ELSE NoRaw
           wild == trie[Left(r)]
           hit(route) == [ok |-> TRUE, route |-> route, paramVals |-> s.paramVals]
<1>1. k \in Routes \X Operations /\ Parse(r) \in DOMAIN trie /\ trie[Parse(r)] # NoRaw
    BY DEF Inv, Registered
<1>2. r \in Routes /\ k = <<r, k[2]>>
    BY <1>1
<1>3. \A i \in 1 .. Len(r) : r[i] \in Words /\ r[i] # "$"
    <2>1. DOMAIN r = 1 .. Len(r)
        BY <1>2, ParseFacts
    <2> QED BY <2>1 DEF Range
<1>4. \A i \in 1 .. Len(r) : r[i] \notin Params
    BY <1>3, RouterAssumption
<1> HIDE DEF r
<1>5. Parse(r) = r /\ r \in Seq(Segments)
    BY <1>2, <1>4, ParseStatic
<1>6. s.found /\ s.node = r
    <2>1. Len(r) \in 0 .. Len(r) /\ Len(r) <= Len(r)
        BY <1>5
    <2>2. s.found /\ s.node = SubSeq(r, 1, Len(r))
        BY <1>1, <1>5, <2>1, SearchExact
    <2> QED BY <2>2, <1>5, SubSeqFull
<1>7. trie[r] = r
    <2> DEFINE q == trie[r]
    <2>1. q \in Routes /\ Parse(q) = r
        BY <1>1, <1>5 DEF Inv, Raws
    <2> HIDE DEF q
    <2>2. /\ q \in Seq(STRING) /\ Len(q) = Len(r)
          /\ \A i \in 1 .. Len(q) : /\ q[i] \in Params => r[i] = "$"
                                    /\ q[i] \notin Params => r[i] = q[i]
        BY <2>1, ParseFacts
    <2>3. \A i \in 1 .. Len(q) : q[i] \notin Params
        BY <2>2, <1>3
    <2>4. Parse(q) = q
        BY <2>1, <2>3, ParseStatic
    <2> QED BY <2>1, <2>4 DEF q
<1>8. Match(k[2], r) = IF <<matched, k[2]>> \in DOMAIN items THEN hit(matched)
                       ELSE IF <<wild, k[2]>> \in DOMAIN items THEN hit(wild)
                       ELSE [ok |-> FALSE]
    BY MatchIs
<1>9. matched = r
    BY <1>6, <1>7 DEF r
<1>10. <<matched, k[2]>> \in DOMAIN items
    BY <1>2, <1>9
<1> HIDE DEF s, matched, wild
<1> QED BY <1>8, <1>9, <1>10 DEF r

\* A wildcard catches what goes astray below it.
LEMMA WildcardCatches ==
    ASSUME <<>> \notin Routes, Inv
    PROVE  WildcardFallback
<1> SUFFICES ASSUME NEW op \in Operations, NEW path \in Paths, path # <<>>,
                    \A k \in DOMAIN items : <<k[1], op>> \in DOMAIN items,
                    NEW k \in DOMAIN items, k[1] # <<>>, Last(k[1]) = "*",
                    Range(Front(k[1])) \subseteq Words, Covers(k[1], path)
             PROVE  Match(op, path).ok
    BY DEF WildcardFallback
<1> DEFINE r == k[1]
           l == Len(r) - 1
           w == SubSeq(r, 1, l)
           at == Searches(path)
           s == at[Len(path)]
<1>1. k \in Routes \X Operations /\ Parse(r) \in DOMAIN trie /\ trie[Parse(r)] # NoRaw
    BY DEF Inv, Registered
<1>2. r \in Routes
    BY <1>1
<1>3. /\ r \in Seq(STRING) /\ Len(r) \in Nat /\ Len(r) # 0 /\ l \in 0 .. Len(r)
      /\ DOMAIN r = 1 .. Len(r)
    <2>1. r \in Seq(STRING) /\ r # <<>>
        BY <1>2, ParseFacts
    <2> HIDE DEF r
    <2>2. Len(r) # 0
        BY <2>1
    <2> QED BY <2>1, <2>2
<1>4. path \in Seq(Segments) /\ Len(path) \in Nat /\ Len(path) # 0
    <2>1. path \in Seq(Segments)
        BY PathsTyped
    <2> QED BY <2>1
<1>5. w \in Seq(STRING) /\ Len(w) = l /\ \A i \in 1 .. l : w[i] = r[i]
    BY <1>3, PrefixFacts
<1>6. w = Front(r) /\ r[Len(r)] = "*"
    BY DEF Front, Last
<1>7. ASSUME NEW i \in 1 .. l PROVE r[i] \in Words /\ r[i] \notin Params /\ r[i] = path[i]
    <2>1. i \in DOMAIN w /\ i \in DOMAIN r
        BY <1>3, <1>5
    <2>2. r[i] \in Words
        BY <2>1, <1>5, <1>6 DEF Range
    <2>3. r[i] \notin Params /\ r[i] \notin Globs /\ r[i] # "*"
        BY <2>2, RouterAssumption
    <2>4. \/ r[i] = path[i] \/ r[i] \in Params \/ r[i] = "*"
          \/ r[i] \in Globs /\ path[i] \in GlobWords[r[i]]
        BY <2>1 DEF Covers
    <2> QED BY <2>2, <2>3, <2>4
<1>8. l <= Len(path)
    BY <1>3, <1>4 DEF Covers
<1> HIDE DEF r, w
<1>9. Parse(r) = r /\ r \in Seq(Segments)
    <2>1. "*" \notin Params
        BY RouterAssumption
    <2>2. ASSUME NEW i \in 1 .. Len(r) PROVE r[i] \notin Params
        <3>1. CASE i = Len(r)
            BY <3>1, <2>1, <1>6
        <3>2. CASE i # Len(r)
            <4>1. Len(r) \in Nat
                BY <1>3
            <4>2. i \in 1 .. l
                BY <3>2, <4>1
            <4> QED BY <4>2, <1>7
        <3> QED BY <3>1, <3>2
    <2> QED BY <2>2, <1>2, ParseStatic
<1>10. w \in DOMAIN trie /\ Append(w, "*") = r
    <2>1. w \in DOMAIN trie
        BY <1>1, <1>3, <1>9 DEF Inv, Shape, w
    <2>2. Append(SubSeq(r, 1, l), r[l + 1]) = SubSeq(r, 1, l + 1)
        <3>1. l \in 0 .. Len(r) - 1
            BY <1>3
        <3> HIDE DEF l
        <3> QED BY <3>1, <1>9, PrefixAppend
    <2>3. l + 1 = Len(r)
        BY <1>3
    <2>4. SubSeq(r, 1, Len(r)) = r
        BY <1>9, SubSeqFull
    <2> QED BY <2>1, <2>2, <2>3, <2>4, <1>6 DEF w
<1>11. at[l].found /\ at[l].node = w
    <2>1. l \in 0 .. Len(w) /\ Len(w) <= Len(path) /\ \A i \in 1 .. Len(w) : w[i] = path[i]
        BY <1>3, <1>5, <1>7, <1>8
    <2>2. at[l].found /\ at[l].node = SubSeq(w, 1, l)
        BY <2>1, <1>4, <1>10, SearchExact
    <2>3. w \in Seq(Segments)
        BY <1>10 DEF Inv, Shape, Nodes
    <2>4. SubSeq(w, 1, Len(w)) = w
        BY <2>3, SubSeqFull
    <2> QED BY <2>2, <2>4, <1>5
<1>12. Follows(at[l], l, path)
    <2>1. l \in 0 .. Len(path)
        BY <1>3, <1>4, <1>8
    <2> QED BY <2>1, <1>4, SearchFollows
<1>13. Wildcard(w, at[l].wildcard) # <<>>
    <2>1. at[l].wildcard = <<>> \/ Beside(at[l].wildcard, w)
        BY <1>11, <1>12 DEF Follows
    <2>2. Append(w, "*") \in DOMAIN trie /\ trie[Append(w, "*")] # NoRaw
        BY <1>1, <1>9, <1>10
    <2> QED BY <2>1, <2>2, <1>10, WildcardBeside
<1>14. Left(path) # <<>>
    <2>1. CASE l = Len(path)
        <3>1. Left(path) = Wildcard(w, at[l].wildcard)
            BY <2>1, <1>11 DEF Left
        <3> QED BY <3>1, <1>13
    <2>2. CASE l < Len(path)
        <3> DEFINE seg == path[l + 1]
                   next == NextSegment(w, seg)
                   t == Step(at[l], seg)
        <3>1. l + 1 \in 1 .. Len(path) /\ l + 1 \in 0 .. Len(path) /\ (l + 1) - 1 = l
              /\ Len(path) \in l + 1 .. Len(path)
            BY <2>2, <1>3, <1>4
        <3>2. seg \in Segments
            BY <3>1, <1>4
        <3>3. at[l + 1] = t
            BY <3>1, <1>4, SearchSteps
        <3>4. Has(w, next)
            <4>1. Has(w, "*")
                BY <1>1, <1>9, <1>10 DEF Has
            <4> QED BY <4>1, <3>2, <1>10, NextFacts
        <3>5. at[l] \in Searching /\ at[l].node \in DOMAIN trie
            BY <1>12 DEF Follows
        <3>6. t.wildcard = Wildcard(w, at[l].wildcard)
            BY <3>2, <3>4, <3>5, <1>11, StepFacts
        <3>7. at[l + 1].wildcard # <<>>
            BY <3>3, <3>6, <1>13
        <3>8. s.wildcard # <<>>
            BY <3>1, <3>7, <1>4, WildcardKept
        <3> QED BY <3>8, <1>4, LeftBeside
    <2>3. l \in Int /\ Len(path) \in Int
        BY <1>3, <1>4
    <2>4. l = Len(path) \/ l < Len(path)
        <3> HIDE DEF l
        <3> QED BY <2>3, <1>8
    <2> QED BY <2>1, <2>2, <2>4
<1>15. <<trie[Left(path)], op>> \in DOMAIN items
    <2> DEFINE n == Left(path)
    <2>1. n \in DOMAIN trie /\ trie[n] # NoRaw
        BY <1>4, <1>14, LeftBeside DEF Beside
    <2> HIDE DEF n
    <2>2. PICK o \in Operations : <<trie[n], o>> \in DOMAIN items
        BY <2>1 DEF Inv, Raws
    <2>3. <<trie[n], o>>[1] = trie[n]
        OBVIOUS
    <2> QED BY <2>2, <2>3 DEF n
<1> DEFINE matched == IF s.found /\ path # <<>> THEN trie[s.node] ELSE NoRaw
           wild == trie[Left(path)]
           hit(route) == [ok |-> TRUE, route |-> route, paramVals |-> s.paramVals]
<1>16. Match(op, path) = IF <<matched, op>> \in DOMAIN items THEN hit(matched)
                         ELSE IF <<wild, op>> \in DOMAIN items THEN hit(wild)
                         ELSE [ok |-> FALSE]
    BY MatchIs
<1> HIDE DEF s, matched
<1> QED BY <1>15, <1>16

\* MatchComplete holds of every state: a static route is found by its own path for each
\* of its operations, and a wildcard catches what goes astray below it, whatever other
\* routes were registered before or after.
THEOREM MatchesAreComplete == ASSUME <<>> \notin Routes PROVE Spec => []MatchComplete
<1>1. Inv => MatchComplete
    BY StaticFound, WildcardCatches DEF MatchComplete
<1> QED BY <1>1, Invariance, PTL
=============================================================================
