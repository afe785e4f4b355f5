--------------------------- MODULE PipelineProofs ---------------------------
(***************************************************************************)
(* What is proved of Pipeline, for all layers, routes and requests.        *)
(***************************************************************************)
EXTENDS Pipeline, SequenceTheorems, TLAPS

\* The names of the layers and, besides, the elements of data.
Names == STRING \cup {"main", DefaultFilter}
Datum == Names \cup {"nil", "filtered", "own"}
Layer == [kind : {"middleware", "guard", "interceptor", "main"}, name : Names]

Interceptors(r) == Global["interceptor"] \o Local["interceptor"][r]
Filters(r) == Reverse(Local["filter"][r]) \o Reverse(<<DefaultFilter>> \o Global["filter"])

Globals == Layers("middleware", Global["middleware"])
Middlewares(r) == Layers("middleware", Local["middleware"][r])
Guards(r) == Layers("guard", Global["guard"] \o Local["guard"][r])

\* The layers of route r that Router.For has got before phase p, and all that it has
\* in the end.
Before(p, r) ==
    CASE p = "initMiddlewares" -> <<>>
      [] p \in {"initExceptionFilters", "initGuards"} -> Middlewares(r)
      [] p = "initInterceptors" -> Middlewares(r) \o Guards(r)
      [] OTHER -> (Middlewares(r) \o Guards(r)) \o Layers("interceptor", Interceptors(r))
Joined(a, b, c, d, e) == Append(a \o ((b \o c) \o d), e)
Chain(r) == Joined(Globals, Middlewares(r), Guards(r), Layers("interceptor", Interceptors(r)),
                   MainHandler)

\* How many layers are before the interceptors.
Outer(r) == Len(Chain(r)) - 1 - Len(Interceptors(r))

----------------------------------------------------------------------------
\* A sequence of names becomes one of layers.
LEMMA LayersType ==
    ASSUME NEW k \in {"middleware", "guard", "interceptor", "main"}, NEW names \in Seq(STRING)
    PROVE  /\ Layers(k, names) \in Seq(Layer)
           /\ Len(Layers(k, names)) = Len(names)
           /\ \A i \in 1 .. Len(names) : /\ Layers(k, names)[i].kind = k
                                        /\ Layers(k, names)[i].name = names[i]
<1> DEFINE t == Layers(k, names)
<1>1. DOMAIN names = 1 .. Len(names) /\ Len(names) \in Nat
  OBVIOUS
<1>2. \A i \in 1 .. Len(names) : names[i] \in Names
  BY DEF Names
<1>3. t = [i \in 1 .. Len(names) |-> [kind |-> k, name |-> names[i]]]
  BY <1>1 DEF Layers
<1>4. \A i \in 1 .. Len(names) : [kind |-> k, name |-> names[i]] \in Layer
  BY <1>2 DEF Layer
<1> HIDE DEF t
<1>5. t \in [1 .. Len(names) -> Layer]
  BY <1>3, <1>4
<1> QED BY <1>1, <1>3, <1>5 DEF t

\* The names that the application is given are sequences of names.
LEMMA NamesType ==
    ASSUME NEW r \in Routes
    PROVE  /\ \A kind \in Kinds : Global[kind] \in Seq(STRING) /\ Local[kind][r] \in Seq(STRING)
           /\ Kinds = {"middleware", "guard", "interceptor", "filter"}
           /\ Interceptors(r) \in Seq(STRING)
           /\ Global["guard"] \o Local["guard"][r] \in Seq(STRING)
<1>1. Global \in [Kinds -> Seq(STRING)] /\ Local \in [Kinds -> [Routes -> Seq(STRING)]]
  BY PipelineAssumption
<1>2. \A kind \in Kinds : Global[kind] \in Seq(STRING) /\ Local[kind][r] \in Seq(STRING)
  BY <1>1
<1>3. Kinds = {"middleware", "guard", "interceptor", "filter"}
  BY DEF Kinds
<1>4. \A kind \in Kinds : Global[kind] \o Local[kind][r] \in Seq(STRING)
  BY <1>2, ConcatProperties
<1> QED BY <1>2, <1>3, <1>4 DEF Interceptors

\* The parts of a chain are sequences of layers.
LEMMA PartsType ==
    ASSUME NEW r \in Routes
    PROVE  /\ Globals \in Seq(Layer)
           /\ Middlewares(r) \in Seq(Layer)
           /\ Guards(r) \in Seq(Layer)
           /\ Layers("interceptor", Interceptors(r)) \in Seq(Layer)
           /\ \A p : Before(p, r) \in Seq(Layer)
           /\ MainHandler \in Layer
<1>1. Globals \in Seq(Layer)
  BY NamesType, LayersType DEF Globals
<1>2. Middlewares(r) \in Seq(Layer)
  BY NamesType, LayersType DEF Middlewares
<1>3. Guards(r) \in Seq(Layer)
  BY NamesType, LayersType DEF Guards
<1>4. Layers("interceptor", Interceptors(r)) \in Seq(Layer)
  BY NamesType, LayersType
<1>5. Middlewares(r) \o Guards(r) \in Seq(Layer)
  BY <1>2, <1>3, ConcatProperties
<1>6. (Middlewares(r) \o Guards(r)) \o Layers("interceptor", Interceptors(r)) \in Seq(Layer)
  BY <1>4, <1>5, ConcatProperties
<1>7. \A p : Before(p, r) \in Seq(Layer)
  <2>1. <<>> \in Seq(Layer)
    BY EmptySeq
  <2> QED BY <2>1, <1>2, <1>5, <1>6 DEF Before
<1>8. MainHandler \in Layer
  BY DEF MainHandler, Layer, Names
<1> QED BY <1>1, <1>2, <1>3, <1>4, <1>7, <1>8

Places(t, a, b, c, d, e) ==
    /\ Len(t) = Len(a) + Len(b) + Len(c) + Len(d) + 1
    /\ \A i \in 1 .. Len(a) : t[i] = a[i]
    /\ \A i \in 1 .. Len(b) : t[Len(a) + i] = b[i]
    /\ \A i \in 1 .. Len(c) : t[Len(a) + Len(b) + i] = c[i]
    /\ \A i \in 1 .. Len(d) : t[Len(a) + Len(b) + Len(c) + i] = d[i]
    /\ t[Len(t)] = e

\* Where the elements of four sequences are in the one that push makes of them.
LEMMA FourThenOne ==
    ASSUME NEW S, NEW a \in Seq(S), NEW b \in Seq(S), NEW c \in Seq(S), NEW d \in Seq(S),
           NEW e \in S
    PROVE  /\ Joined(a, b, c, d, e) \in Seq(S)
           /\ Places(Joined(a, b, c, d, e), a, b, c, d, e)
<1> DEFINE t == Joined(a, b, c, d, e)
           bc == b \o c
           bcd == bc \o d
           abcd == a \o bcd
<1>0. Len(a) \in Nat /\ Len(b) \in Nat /\ Len(c) \in Nat /\ Len(d) \in Nat
  OBVIOUS
<1>1. bc \in Seq(S) /\ Len(bc) = Len(b) + Len(c)
  BY ConcatProperties
<1>2. \A i \in 1 .. Len(b) + Len(c) : bc[i] = IF i <= Len(b) THEN b[i] ELSE c[i - Len(b)]
  BY ConcatProperties
<1> HIDE DEF bc
<1>3. bcd \in Seq(S) /\ Len(bcd) = Len(bc) + Len(d)
  BY <1>1, ConcatProperties
<1>4. \A i \in 1 .. Len(bc) + Len(d) : bcd[i] = IF i <= Len(bc) THEN bc[i] ELSE d[i - Len(bc)]
  BY <1>1, ConcatProperties
<1> HIDE DEF bcd
<1>5. abcd \in Seq(S) /\ Len(abcd) = Len(a) + Len(bcd)
  BY <1>3, ConcatProperties
<1>6. \A i \in 1 .. Len(a) + Len(bcd) : abcd[i] = IF i <= Len(a) THEN a[i] ELSE bcd[i - Len(a)]
  BY <1>3, ConcatProperties
<1>7. t = Append(abcd, e)
  BY DEF Joined, abcd, bcd, bc
<1> HIDE DEF abcd, t
<1>8. /\ t \in Seq(S)
      /\ Len(t) = Len(abcd) + 1
      /\ \A i \in 1 .. Len(abcd) : t[i] = abcd[i]
      /\ t[Len(abcd) + 1] = e
  BY <1>5, <1>7, AppendProperties
<1>9. ASSUME NEW i \in 1 .. Len(bcd) PROVE t[Len(a) + i] = bcd[i]
  <2> DEFINE j == Len(a) + i
  <2>1. Len(bc) \in Nat /\ Len(bcd) \in Nat
    BY <1>1, <1>3
  <2>2. j \in 1 .. Len(abcd) /\ ~(j <= Len(a)) /\ j - Len(a) = i
    BY <2>1, <1>0, <1>5
  <2> HIDE DEF j
  <2>3. t[j] = abcd[j]
    BY <2>2, <1>8
  <2>4. abcd[j] = bcd[i]
    BY <2>2, <1>5, <1>6
  <2> QED BY <2>3, <2>4 DEF j
<1>10. ASSUME NEW i \in 1 .. Len(bc) PROVE t[Len(a) + i] = bc[i]
  <2>1. i \in 1 .. Len(bcd) /\ i <= Len(bc)
    BY <1>0, <1>1, <1>3
  <2>2. bcd[i] = bc[i]
    BY <2>1, <1>3, <1>4
  <2>3. t[Len(a) + i] = bcd[i]
    BY <2>1, <1>9, Zenon
  <2> QED BY <2>2, <2>3
<1>11. ASSUME NEW i \in 1 .. Len(a) PROVE t[i] = a[i]
  <2>1. Len(bcd) \in Nat
    BY <1>3
  <2>2. i \in 1 .. Len(abcd) /\ i <= Len(a)
    BY <2>1, <1>0, <1>5
  <2> QED BY <2>2, <1>5, <1>6, <1>8
<1>12. ASSUME NEW i \in 1 .. Len(b) PROVE t[Len(a) + i] = b[i]
  BY <1>0, <1>1, <1>2, <1>10
<1>13. ASSUME NEW i \in 1 .. Len(c) PROVE t[Len(a) + Len(b) + i] = c[i]
  <2> DEFINE j == Len(b) + i
  <2>1. j \in 1 .. Len(b) + Len(c) /\ ~(j <= Len(b)) /\ j - Len(b) = i
        /\ Len(a) + Len(b) + i = Len(a) + j
    BY <1>0
  <2> HIDE DEF j
  <2>2. t[Len(a) + j] = bc[j]
    BY <2>1, <1>1, <1>10
  <2> QED BY <2>1, <2>2, <1>2
<1>14. ASSUME NEW i \in 1 .. Len(d) PROVE t[Len(a) + Len(b) + Len(c) + i] = d[i]
  <2> DEFINE j == Len(b) + Len(c) + i
  <2>1. j \in 1 .. Len(bc) + Len(d) /\ ~(j <= Len(bc)) /\ j - Len(bc) = i
        /\ Len(a) + Len(b) + Len(c) + i = Len(a) + j
    BY <1>0, <1>1
  <2> HIDE DEF j
  <2>2. t[Len(a) + j] = bcd[j]
    BY <2>1, <1>3, <1>9
  <2> QED BY <2>1, <2>2, <1>4
<1>15. Len(t) = Len(a) + Len(b) + Len(c) + Len(d) + 1 /\ t[Len(t)] = e
  BY <1>0, <1>1, <1>3, <1>5, <1>8
<1> QED BY <1>8, <1>11, <1>12, <1>13, <1>14, <1>15 DEF t, Places

\* The chain of a route: middlewares and guards, the interceptors, the main handler.
LEMMA ChainParts ==
    ASSUME NEW r \in Routes
    PROVE  /\ Chain(r) \in Seq(Layer)
           /\ Outer(r) \in Nat
           /\ Len(Interceptors(r)) \in Nat
           /\ Len(Chain(r)) = Outer(r) + Len(Interceptors(r)) + 1
           /\ \A i \in 1 .. Outer(r) : Chain(r)[i].kind \in {"middleware", "guard"}
           /\ \A i \in 1 .. Len(Interceptors(r)) :
                 /\ Chain(r)[Outer(r) + i].kind = "interceptor"
                 /\ Chain(r)[Outer(r) + i].name = Interceptors(r)[i]
           /\ Chain(r)[Len(Chain(r))] = MainHandler
<1> DEFINE m == Middlewares(r)
           g == Guards(r)
           n == Layers("interceptor", Interceptors(r))
           t == Chain(r)
<1>1. /\ Globals \in Seq(Layer) /\ m \in Seq(Layer) /\ g \in Seq(Layer) /\ n \in Seq(Layer)
      /\ MainHandler \in Layer
  BY PartsType
<1>2. /\ \A i \in 1 .. Len(Globals) : Globals[i].kind = "middleware"
      /\ \A i \in 1 .. Len(m) : m[i].kind = "middleware"
      /\ \A i \in 1 .. Len(g) : g[i].kind = "guard"
  <2>1. \A i \in 1 .. Len(Globals) : Globals[i].kind = "middleware"
    <3>1. Global["middleware"] \in Seq(STRING)
      BY NamesType
    <3> QED BY <3>1, LayersType DEF Globals
  <2>2. \A i \in 1 .. Len(m) : m[i].kind = "middleware"
    <3>1. Local["middleware"][r] \in Seq(STRING)
      BY NamesType
    <3> QED BY <3>1, LayersType DEF Middlewares
  <2>3. \A i \in 1 .. Len(g) : g[i].kind = "guard"
    <3>1. Global["guard"] \o Local["guard"][r] \in Seq(STRING)
      BY NamesType
    <3> HIDE DEF g
    <3>2. \A names \in Seq(STRING) : g = Layers("guard", names) =>
             \A i \in 1 .. Len(g) : g[i].kind = "guard"
      BY LayersType
    <3> QED BY <3>1, <3>2 DEF g, Guards
  <2> QED BY <2>1, <2>2, <2>3
<1>3. /\ Len(n) = Len(Interceptors(r))
      /\ Len(Interceptors(r)) \in Nat
      /\ \A i \in 1 .. Len(n) : n[i].kind = "interceptor" /\ n[i].name = Interceptors(r)[i]
  <2>1. Interceptors(r) \in Seq(STRING)
    BY NamesType
  <2> QED BY <2>1, LayersType
<1>4. t = Joined(Globals, m, g, n, MainHandler)
  BY DEF Chain
<1> HIDE DEF m, g, n, t
<1>5. /\ t \in Seq(Layer)
      /\ Len(t) = Len(Globals) + Len(m) + Len(g) + Len(n) + 1
      /\ \A i \in 1 .. Len(Globals) : t[i] = Globals[i]
      /\ \A i \in 1 .. Len(m) : t[Len(Globals) + i] = m[i]
      /\ \A i \in 1 .. Len(g) : t[Len(Globals) + Len(m) + i] = g[i]
      /\ \A i \in 1 .. Len(n) : t[Len(Globals) + Len(m) + Len(g) + i] = n[i]
      /\ t[Len(t)] = MainHandler
  <2>1. t \in Seq(Layer) /\ Places(t, Globals, m, g, n, MainHandler)
    BY <1>1, <1>4, FourThenOne, Zenon
  <2> QED BY <2>1 DEF Places
<1>6. Len(Globals) \in Nat /\ Len(m) \in Nat /\ Len(g) \in Nat /\ Len(n) \in Nat
  BY <1>1
<1>7. Outer(r) = Len(Globals) + Len(m) + Len(g)
  BY <1>3, <1>5, <1>6 DEF Outer, t
<1>8. ASSUME NEW i \in 1 .. Outer(r) PROVE t[i].kind \in {"middleware", "guard"}
  <2>1. CASE i <= Len(Globals)
    BY <2>1, <1>2, <1>5, <1>6, <1>7
  <2>2. CASE i > Len(Globals) /\ i <= Len(Globals) + Len(m)
    <3> DEFINE j == i - Len(Globals)
    <3>1. j \in 1 .. Len(m) /\ i = Len(Globals) + j
      BY <2>2, <1>6
    <3> HIDE DEF j
    <3> QED BY <3>1, <1>2, <1>5
  <2>3. CASE i > Len(Globals) + Len(m)
    <3> DEFINE j == i - Len(Globals) - Len(m)
    <3>1. j \in 1 .. Len(g) /\ i = Len(Globals) + Len(m) + j
      BY <2>3, <1>6, <1>7
    <3> HIDE DEF j
    <3> QED BY <3>1, <1>2, <1>5
  <2> QED BY <2>1, <2>2, <2>3, <1>6, <1>7
<1>9. ASSUME NEW i \in 1 .. Len(n) PROVE t[Outer(r) + i] = n[i]
  BY <1>5, <1>7
<1> QED BY <1>3, <1>5, <1>6, <1>7, <1>8, <1>9 DEF t

\* Names of layers are names.
LEMMA NamesWiden ==
    ASSUME NEW s \in Seq(STRING)
    PROVE  s \in Seq(Names)
<1>1. s \in [1 .. Len(s) -> STRING] /\ Len(s) \in Nat
  OBVIOUS
<1>2. s \in [1 .. Len(s) -> Names]
  BY <1>1 DEF Names
<1> QED BY <1>1, <1>2

\* The chain that the init functions register is the one the README documents.
LEMMA ChainNames ==
    ASSUME NEW r \in Routes
    PROVE  /\ Documented(r) \in Seq(Names)
           /\ Len(Documented(r)) = Len(Chain(r))
           /\ \A i \in 1 .. Len(Chain(r)) : Chain(r)[i].name = Documented(r)[i]
<1> DEFINE gm == Global["middleware"]
           lm == Local["middleware"][r]
           gg == Global["guard"]
           lg == Local["guard"][r]
           gi == Global["interceptor"]
           li == Local["interceptor"][r]
           g == gg \o lg
           n == gi \o li
           t == Joined(gm, lm, g, n, "main")
<1>1. /\ gm \in Seq(STRING) /\ lm \in Seq(STRING) /\ gg \in Seq(STRING) /\ lg \in Seq(STRING)
      /\ gi \in Seq(STRING) /\ li \in Seq(STRING)
  BY NamesType
<1>2. /\ gm \in Seq(Names) /\ lm \in Seq(Names) /\ gg \in Seq(Names) /\ lg \in Seq(Names)
      /\ gi \in Seq(Names) /\ li \in Seq(Names) /\ "main" \in Names
  <2>1. "main" \in Names
    BY DEF Names
  <2> QED BY <1>1, <2>1, NamesWiden
<1>3. /\ Globals = Layers("middleware", gm) /\ Middlewares(r) = Layers("middleware", lm)
      /\ Guards(r) = Layers("guard", g) /\ Interceptors(r) = n
  BY DEF Globals, Middlewares, Guards, Interceptors
<1>4. Documented(r) = (((((gm \o lm) \o gg) \o lg) \o gi) \o li) \o <<"main">>
  BY DEF Documented
<1> HIDE DEF gm, lm, gg, lg, gi, li
<1>5. g \in Seq(STRING) /\ n \in Seq(STRING) /\ g \in Seq(Names) /\ n \in Seq(Names)
  BY <1>1, <1>2, ConcatProperties
<1>6. Documented(r) = t
  <2> DEFINE ml == gm \o lm
             a == ml \o g
             w == lm \o g
  <2>0. \A u, v, x \in Seq(Names) : (u \o v) \o x = u \o (v \o x)
    BY ConcatAssociative
  <2>1. ml \in Seq(Names) /\ w \in Seq(Names)
    BY <1>2, <1>5, ConcatProperties
  <2>2. (ml \o gg) \o lg = ml \o g
    BY <2>1, <1>2, <2>0, ZenonT(60)
  <2>3. a \in Seq(Names)
    BY <2>1, <1>5, ConcatProperties
  <2>4. (a \o gi) \o li = a \o n
    BY <2>3, <1>2, <2>0, ZenonT(60)
  <2>5. a = gm \o w
    <3>1. gm \in Seq(Names) /\ lm \in Seq(Names) /\ g \in Seq(Names)
      BY <1>2, <1>5
    <3> HIDE DEF g
    <3>2. (gm \o lm) \o g = gm \o (lm \o g)
      BY <3>1, <2>0
    <3> QED BY <3>2
  <2>6. (gm \o w) \o n = gm \o (w \o n)
    <3>1. gm \in Seq(Names) /\ w \in Seq(Names) /\ n \in Seq(Names)
      BY <1>2, <1>5, <2>1
    <3> HIDE DEF n, w
    <3> QED BY <3>1, <2>0
  <2> DEFINE d == gm \o (w \o n)
  <2>7. d \in Seq(Names)
    <3>1. w \o n \in Seq(Names)
      BY <2>1, <1>5, ConcatProperties
    <3> QED BY <3>1, <1>2, ConcatProperties
  <2>8. d \o <<"main">> = Append(d, "main")
    <3> HIDE DEF d
    <3> QED BY <2>7, <1>2, AppendIsConcat
  <2>9. (((((gm \o lm) \o gg) \o lg) \o gi) \o li) = d
    BY <2>2, <2>4, <2>5, <2>6, Zenon
  <2> QED BY <1>4, <2>8, <2>9, Zenon DEF Joined
<1>7. t \in Seq(Names) /\ Places(t, gm, lm, g, n, "main")
  BY <1>2, <1>5, FourThenOne, Zenon
<1>8. Places(Chain(r), Globals, Middlewares(r), Guards(r), Layers("interceptor", n), MainHandler)
  BY <1>3, PartsType, FourThenOne, Zenon DEF Chain
<1> HIDE DEF g, n, t
<1>9. /\ Len(Globals) = Len(gm)
      /\ \A i \in 1 .. Len(gm) : Globals[i].name = gm[i]
      /\ Len(Middlewares(r)) = Len(lm)
      /\ \A i \in 1 .. Len(lm) : Middlewares(r)[i].name = lm[i]
      /\ Len(Guards(r)) = Len(g)
      /\ \A i \in 1 .. Len(g) : Guards(r)[i].name = g[i]
      /\ Len(Layers("interceptor", n)) = Len(n)
      /\ \A i \in 1 .. Len(n) : Layers("interceptor", n)[i].name = n[i]
  BY <1>1, <1>3, <1>5, LayersType
<1>10. MainHandler.name = "main"
  BY DEF MainHandler
<1>11. Len(t) = Len(Chain(r))
  BY <1>7, <1>8, <1>9 DEF Places
<1>12. ASSUME NEW i \in 1 .. Len(t) PROVE Chain(r)[i].name = t[i]
  <2>0. Len(gm) \in Nat /\ Len(lm) \in Nat /\ Len(g) \in Nat /\ Len(n) \in Nat
    BY <1>1, <1>5
  <2>1. Len(t) = Len(gm) + Len(lm) + Len(g) + Len(n) + 1
    BY <1>7 DEF Places
  <2>2. CASE i \in 1 .. Len(gm)
    BY <2>2, <1>7, <1>8, <1>9 DEF Places
  <2>3. ASSUME NEW j \in 1 .. Len(lm), i = Len(gm) + j PROVE Chain(r)[i].name = t[i]
    BY <2>3, <1>7, <1>8, <1>9 DEF Places
  <2>4. ASSUME NEW j \in 1 .. Len(g), i = Len(gm) + Len(lm) + j PROVE Chain(r)[i].name = t[i]
    BY <2>4, <1>7, <1>8, <1>9 DEF Places
  <2>5. ASSUME NEW j \in 1 .. Len(n), i = Len(gm) + Len(lm) + Len(g) + j
        PROVE  Chain(r)[i].name = t[i]
    BY <2>5, <1>7, <1>8, <1>9 DEF Places
  <2>6. CASE i = Len(t)
    BY <2>6, <1>7, <1>8, <1>10, <1>11 DEF Places
  <2>7. \/ i \in 1 .. Len(gm)
        \/ i - Len(gm) \in 1 .. Len(lm)
        \/ i - (Len(gm) + Len(lm)) \in 1 .. Len(g)
        \/ i - (Len(gm) + Len(lm) + Len(g)) \in 1 .. Len(n)
        \/ i = Len(t)
    BY <2>0, <2>1
  <2>8. /\ i = Len(gm) + (i - Len(gm))
        /\ i = Len(gm) + Len(lm) + (i - (Len(gm) + Len(lm)))
        /\ i = Len(gm) + Len(lm) + Len(g) + (i - (Len(gm) + Len(lm) + Len(g)))
    BY <2>0
  <2> QED BY <2>2, <2>3, <2>4, <2>5, <2>6, <2>7, <2>8, Zenon
<1> QED BY <1>6, <1>7, <1>11, <1>12, Zenon

\* The catch chain of a route: all its filters, the default one at the end.
LEMMA FiltersFacts ==
    ASSUME NEW r \in Routes
    PROVE  /\ Filters(r) \in Seq(Names)
           /\ Len(Filters(r)) >= 1
           /\ Filters(r)[Len(Filters(r))] = DefaultFilter
           /\ \A i \in 1 .. Len(Filters(r)) : Filters(r)[i] # "main"
           /\ Filters(r) = Reverse((<<DefaultFilter>> \o Global["filter"]) \o Local["filter"][r])
<1> DEFINE g == Global["filter"]
           l == Local["filter"][r]
           dg == <<DefaultFilter>> \o g
           dgl == dg \o l
           rl == Reverse(l)
           rdg == Reverse(dg)
           f == rl \o rdg
<1>1. g \in Seq(STRING) /\ l \in Seq(STRING)
  BY NamesType
<1>2. "main" \notin Range(g \o l)
  BY PipelineAssumption
<1>3. f = Filters(r)
  BY DEF Filters
<1> HIDE DEF g, l
<1>4. g \in Seq(Names) /\ l \in Seq(Names) /\ DefaultFilter \in Names
  <2>1. DefaultFilter \in Names
    BY DEF Names
  <2> QED BY <2>1, <1>1, NamesWiden
<1>5. Len(g) \in Nat /\ Len(l) \in Nat /\ DOMAIN g = 1 .. Len(g) /\ DOMAIN l = 1 .. Len(l)
  BY <1>1
<1>6. /\ \A i \in 1 .. Len(g) : g[i] # "main"
      /\ \A i \in 1 .. Len(l) : l[i] # "main"
  <2> DEFINE gl == g \o l
  <2>1. gl \in Seq(Names) /\ Len(gl) = Len(g) + Len(l)
    BY <1>4, ConcatProperties
  <2>2. \A i \in 1 .. Len(g) + Len(l) : gl[i] = IF i <= Len(g) THEN g[i] ELSE l[i - Len(g)]
    BY <1>4, ConcatProperties
  <2> HIDE DEF gl
  <2>3. \A i \in 1 .. Len(g) + Len(l) : gl[i] # "main"
    <3>1. DOMAIN gl = 1 .. Len(g) + Len(l)
      BY <2>1
    <3> QED BY <3>1, <1>2 DEF Range, gl
  <2>4. ASSUME NEW i \in 1 .. Len(g) PROVE g[i] # "main"
    BY <2>2, <2>3, <1>5
  <2>5. ASSUME NEW i \in 1 .. Len(l) PROVE l[i] # "main"
    <3> DEFINE j == Len(g) + i
    <3>1. j \in 1 .. Len(g) + Len(l) /\ ~(j <= Len(g)) /\ j - Len(g) = i
      BY <1>5
    <3> HIDE DEF j
    <3> QED BY <3>1, <2>2, <2>3
  <2> QED BY <2>4, <2>5
<1>7. <<DefaultFilter>> \in Seq(Names) /\ Len(<<DefaultFilter>>) = 1
      /\ <<DefaultFilter>>[1] = DefaultFilter
  <2> HIDE DEF DefaultFilter, Names
  <2> QED BY <1>4
<1>8. dg \in Seq(Names) /\ Len(dg) = 1 + Len(g)
  BY <1>4, <1>7, ConcatProperties
<1>9. \A i \in 1 .. 1 + Len(g) : dg[i] = IF i <= 1 THEN DefaultFilter ELSE g[i - 1]
  BY <1>4, <1>7, ConcatProperties
<1>10. DefaultFilter # "main"
  BY DEF DefaultFilter
<1> HIDE DEF dg
<1>11. dgl \in Seq(Names) /\ Len(dgl) = 1 + Len(g) + Len(l)
  BY <1>4, <1>8, ConcatProperties
<1>12. \A i \in 1 .. Len(dg) + Len(l) : dgl[i] = IF i <= Len(dg) THEN dg[i] ELSE l[i - Len(dg)]
  BY <1>4, <1>8, ConcatProperties
<1> HIDE DEF dgl
<1>13. /\ rl \in Seq(Names) /\ Len(rl) = Len(l)
       /\ \A i \in 1 .. Len(l) : rl[i] = l[(Len(l) - i) + 1]
  <2>1. rl = [i \in 1 .. Len(l) |-> l[(Len(l) - i) + 1]]
    BY DEF Reverse
  <2>2. \A i \in 1 .. Len(l) : l[(Len(l) - i) + 1] \in Names
    BY <1>4, <1>5
  <2> HIDE DEF rl
  <2>3. rl \in [1 .. Len(l) -> Names]
    BY <2>1, <2>2
  <2>4. rl \in Seq(Names) /\ Len(rl) = Len(l)
    BY <2>3, <1>5
  <2> QED BY <2>1, <2>4
<1>14. /\ rdg \in Seq(Names) /\ Len(rdg) = Len(dg)
       /\ \A i \in 1 .. Len(dg) : rdg[i] = dg[(Len(dg) - i) + 1]
  <2>1. rdg = [i \in 1 .. Len(dg) |-> dg[(Len(dg) - i) + 1]]
    BY DEF Reverse
  <2>2. \A i \in 1 .. Len(dg) : dg[(Len(dg) - i) + 1] \in Names
    BY <1>5, <1>8
  <2> HIDE DEF rdg
  <2>3. rdg \in [1 .. Len(dg) -> Names]
    BY <2>1, <2>2
  <2>4. rdg \in Seq(Names) /\ Len(rdg) = Len(dg)
    BY <2>3, <1>5, <1>8
  <2> QED BY <2>1, <2>4
<1> HIDE DEF rl, rdg
<1>15. f \in Seq(Names) /\ Len(f) = Len(l) + Len(dg)
  <2>1. rl \in Seq(Names) /\ rdg \in Seq(Names) /\ Len(rl) = Len(l) /\ Len(rdg) = Len(dg)
    BY <1>13, <1>14
  <2>2. rl \o rdg \in Seq(Names) /\ Len(rl \o rdg) = Len(rl) + Len(rdg)
    BY <2>1, ConcatProperties, Zenon
  <2> QED BY <2>1, <2>2
<1>16. \A i \in 1 .. Len(l) + Len(dg) : f[i] = IF i <= Len(l) THEN rl[i] ELSE rdg[i - Len(l)]
  <2>1. rl \in Seq(Names) /\ rdg \in Seq(Names) /\ Len(rl) = Len(l) /\ Len(rdg) = Len(dg)
    BY <1>13, <1>14
  <2> QED BY <2>1, ConcatProperties
<1> HIDE DEF f
<1>17. f[Len(f)] = DefaultFilter
  <2>1. Len(f) \in 1 .. Len(l) + Len(dg) /\ ~(Len(f) <= Len(l)) /\ Len(f) - Len(l) = Len(dg)
    BY <1>5, <1>8, <1>15
  <2>2. f[Len(f)] = rdg[Len(dg)]
    BY <2>1, <1>16
  <2>3. Len(dg) \in 1 .. Len(dg) /\ (Len(dg) - Len(dg)) + 1 = 1
    BY <1>5, <1>8
  <2>4. rdg[Len(dg)] = dg[1]
    BY <2>3, <1>14
  <2> QED BY <2>2, <2>4, <1>5, <1>9
<1>18. ASSUME NEW i \in 1 .. Len(f) PROVE f[i] # "main" /\ f[i] = dgl[(Len(dgl) - i) + 1]
  <2>1. CASE i <= Len(l)
    <3>1. i \in 1 .. Len(l) /\ i \in 1 .. Len(l) + Len(dg)
      BY <2>1, <1>5, <1>8
    <3> DEFINE j == (Len(l) - i) + 1
               k == (Len(dgl) - i) + 1
    <3>2. j \in 1 .. Len(l)
      BY <3>1, <1>5
    <3>3. k \in 1 .. Len(dg) + Len(l) /\ ~(k <= Len(dg)) /\ k - Len(dg) = j
      BY <3>1, <1>5, <1>8, <1>11
    <3> HIDE DEF k
    <3>4. f[i] = l[j]
      BY <3>1, <2>1, <1>13, <1>16
    <3> HIDE DEF j
    <3>5. dgl[k] = l[j]
      BY <3>3, <1>12
    <3> QED BY <3>2, <3>4, <3>5, <1>6 DEF k
  <2>2. CASE i > Len(l)
    <3> DEFINE h == i - Len(l)
               j == (Len(dg) - h) + 1
               k == (Len(dgl) - i) + 1
    <3>1. h \in 1 .. Len(dg) /\ i \in 1 .. Len(l) + Len(dg) /\ ~(i <= Len(l))
      BY <2>2, <1>5, <1>8, <1>15
    <3>2. j \in 1 .. Len(dg) /\ j = k /\ k <= Len(dg) /\ k \in 1 .. Len(dg) + Len(l)
      BY <3>1, <1>5, <1>8, <1>11
    <3>3. f[i] = rdg[h]
      BY <3>1, <1>16
    <3> HIDE DEF h
    <3>4. rdg[h] = dg[j]
      BY <3>1, <1>14
    <3> HIDE DEF j, k
    <3>5. dgl[k] = dg[j]
      BY <3>2, <1>12
    <3>6. dg[j] # "main"
      <4>1. CASE j = 1
        BY <4>1, <1>5, <1>9, <1>10
      <4>2. CASE j # 1
        <5>1. j - 1 \in 1 .. Len(g) /\ j \in 1 .. 1 + Len(g) /\ ~(j <= 1)
          BY <4>2, <3>2, <1>5, <1>8
        <5> QED BY <5>1, <1>6, <1>9
      <4> QED BY <4>1, <4>2
    <3> QED BY <3>3, <3>4, <3>5, <3>6 DEF k
  <2> QED BY <2>1, <2>2, <1>5, <1>15
<1>19. f = Reverse(dgl)
  <2>1. Len(f) = Len(dgl)
    BY <1>5, <1>8, <1>11, <1>15
  <2>2. Reverse(dgl) = [i \in 1 .. Len(dgl) |-> dgl[(Len(dgl) - i) + 1]]
    BY DEF Reverse
  <2>3. f = [i \in 1 .. Len(f) |-> f[i]]
    BY <1>15
  <2> QED BY <2>1, <2>2, <2>3, <1>18
<1>20. Len(f) >= 1
  BY <1>5, <1>8, <1>15
<1> QED BY <1>3, <1>15, <1>17, <1>18, <1>19, <1>20, Zenon DEF g, l, dg, dgl

----------------------------------------------------------------------------
\* What the init functions have registered when they are called in Create's order.
Registered ==
    /\ phase \in {"initMiddlewares", "initExceptionFilters", "initGuards",
                  "initInterceptors", "initMainHandlers", "serving"}
    /\ phase # "initMiddlewares" => GlobalMiddlewares = Globals
    /\ phase # "serving" =>
          items = [r \in Routes |->
                      [handlers |-> IF Before(phase, r) = <<>> THEN <<>>
                                    ELSE Globals \o Before(phase, r),
                       handlerIndex |-> -1]]
    /\ phase = "serving" =>
          items = [r \in Routes |-> [handlers |-> Chain(r), handlerIndex |-> Len(Chain(r)) - 1]]
    /\ phase \notin {"initMiddlewares", "initExceptionFilters"} =>
          catchFnsByRoute = [r \in Routes |-> Filters(r)]

\* Router.For puts layers behind those that a route has, and the first of them
\* behind the global middlewares.
LEMMA ForAppends ==
    ASSUME NEW r \in Routes, NEW b \in Seq(Layer), NEW hs \in Seq(Layer),
           NEW item, item = [handlers |-> IF b = <<>> THEN <<>> ELSE Globals \o b,
                             handlerIndex |-> -1]
    PROVE  (IF hs = <<>> THEN item ELSE PushFor(Globals, item, hs))
               = [handlers |-> IF b \o hs = <<>> THEN <<>> ELSE Globals \o (b \o hs),
                  handlerIndex |-> -1]
<1>1. Globals \in Seq(Layer)
  BY PartsType
<1>2. b \o hs = <<>> <=> b = <<>> /\ hs = <<>>
  BY ConcatEqualIffEmpty
<1>3. CASE hs = <<>>
  <2>1. b \o hs = b
    BY <1>3, ConcatEmptySeq
  <2> QED BY <1>3, <2>1
<1>4. CASE hs # <<>> /\ b = <<>>
  <2>1. b \o hs = hs
    BY <1>4, ConcatEmptySeq
  <2>2. item = [handlers |-> <<>>, handlerIndex |-> -1]
    BY <1>4
  <2>3. PushFor(Globals, item, hs) = [handlers |-> Globals \o hs, handlerIndex |-> -1]
    <3>1. Base(Globals, item) = Globals
      BY <2>2 DEF Base
    <3>2. PushFor(Globals, item, hs) = [item EXCEPT !.handlers = Globals \o hs]
      BY <3>1 DEF PushFor
    <3> DEFINE g == Globals \o hs
    <3> HIDE DEF g
    <3>3. [item EXCEPT !.handlers = g] = [handlers |-> g, handlerIndex |-> -1]
      BY <2>2
    <3> QED BY <3>2, <3>3 DEF g
  <2> QED BY <1>4, <2>1, <2>3
<1>5. CASE hs # <<>> /\ b # <<>>
  <2>1. item = [handlers |-> Globals \o b, handlerIndex |-> -1]
    BY <1>5
  <2>2. Globals \o b # <<>>
    BY <1>1, <1>5, ConcatEqualIffEmpty
  <2>3. PushFor(Globals, item, hs) = [handlers |-> (Globals \o b) \o hs, handlerIndex |-> -1]
    <3>1. Base(Globals, item) = Globals \o b
      BY <2>1, <2>2 DEF Base
    <3>2. PushFor(Globals, item, hs) = [item EXCEPT !.handlers = (Globals \o b) \o hs]
      BY <3>1 DEF PushFor
    <3> DEFINE g == (Globals \o b) \o hs
    <3> HIDE DEF g
    <3>3. [item EXCEPT !.handlers = g] = [handlers |-> g, handlerIndex |-> -1]
      BY <2>1
    <3> QED BY <3>2, <3>3 DEF g
  <2>4. (Globals \o b) \o hs = Globals \o (b \o hs)
    BY <1>1, ConcatAssociative
  <2> QED BY <1>2, <1>5, <2>3, <2>4
<1> QED BY <1>3, <1>4, <1>5

\* Create registers what the README documents.
LEMMA NextRegistered ==
    ASSUME Registered, [Next]_vars
    PROVE  Registered'
<1> DEFINE Item(b) == [handlers |-> IF b = <<>> THEN <<>> ELSE Globals \o b, handlerIndex |-> -1]
<1> USE DEF Registered
<1>1. ASSUME UNCHANGED router PROVE Registered'
  BY <1>1 DEF router
<1>0. \A kind \in {"middleware", "guard", "interceptor", "main"} : \A names \in Seq(STRING) :
         /\ Layers(kind, names) \in Seq(Layer)
         /\ names = <<>> <=> Layers(kind, names) = <<>>
  <2>1. ASSUME NEW kind \in {"middleware", "guard", "interceptor", "main"}, NEW names \in Seq(STRING)
        PROVE  names = <<>> <=> Layers(kind, names) = <<>>
    <3>1. Len(Layers(kind, names)) = Len(names) /\ Layers(kind, names) \in Seq(Layer)
      BY LayersType
    <3> QED BY <3>1, EmptySeq
  <2> QED BY <2>1, LayersType
<1>2. ASSUME NEW kind \in {"middleware", "guard", "interceptor", "main"},
             NEW names, NEW r \in Routes, names[r] \in Seq(STRING),
             NEW b \in Seq(Layer), items[r] = Item(b)
      PROVE  ForAll(Globals, kind, names)[r] = Item(b \o Layers(kind, names[r]))
  <2> DEFINE hs == Layers(kind, names[r])
  <2>1. hs \in Seq(Layer) /\ (names[r] = <<>> <=> hs = <<>>)
    BY <1>0, <1>2
  <2>2. ForAll(Globals, kind, names)[r]
            = IF names[r] = <<>> THEN items[r] ELSE PushFor(Globals, items[r], hs)
    BY DEF ForAll
  <2> HIDE DEF hs
  <2>3. (IF hs = <<>> THEN items[r] ELSE PushFor(Globals, items[r], hs)) = Item(b \o hs)
    BY <2>1, <1>2, ForAppends
  <2> HIDE DEF Item
  <2> QED BY <2>1, <2>2, <2>3 DEF hs
<1>a. \A kind, names : ForAll(Globals, kind, names)
                          = [r \in Routes |-> ForAll(Globals, kind, names)[r]]
  BY DEF ForAll
<1>3. ASSUME InitMiddlewares PROVE Registered'
  <2> DEFINE b == [r \in Routes |-> <<>>]
             c == [r \in Routes |-> Middlewares(r)]
  <2>1. items = [r \in Routes |-> Item(b[r])] /\ phase' = "initExceptionFilters"
    BY <1>3 DEF InitMiddlewares, Before
  <2>2. \A r \in Routes : b[r] \in Seq(Layer) /\ Middlewares(r) \in Seq(Layer)
                          /\ c[r] = b[r] \o Layers("middleware", Local["middleware"][r])
    <3>1. \A r \in Routes : Middlewares(r) \in Seq(Layer)
      BY PartsType
    <3>2. <<>> \in Seq(Layer)
      BY EmptySeq
    <3> QED BY <3>1, <3>2, ConcatEmptySeq DEF Middlewares
  <2>3. \A r \in Routes : Local["middleware"][r] \in Seq(STRING)
    BY NamesType
  <2>4. GlobalMiddlewares' = Globals
        /\ items' = ForAll(Globals, "middleware", Local["middleware"])
    BY <1>3 DEF InitMiddlewares, Globals
  <2> HIDE DEF Item, b, c
  <2>5. items' = [r \in Routes |-> Item(c[r])]
    <3>1. ASSUME NEW r \in Routes
          PROVE  ForAll(Globals, "middleware", Local["middleware"])[r] = Item(c[r])
      <4>1. Local["middleware"][r] \in Seq(STRING) /\ b[r] \in Seq(Layer) /\ items[r] = Item(b[r])
        BY <2>1, <2>2, <2>3
      <4>2. ForAll(Globals, "middleware", Local["middleware"])[r] = Item(b[r] \o Layers("middleware", Local["middleware"][r]))
        BY <4>1, <1>2
      <4> QED BY <4>2, <2>2
    <3> QED BY <2>4, <3>1, <1>a
  <2>6. \A r \in Routes : Before("initExceptionFilters", r) = c[r]
    BY DEF Before, c
  <2> QED BY <2>1, <2>4, <2>5, <2>6, ZenonT(60) DEF Item
<1>4. ASSUME InitExceptionFilters PROVE Registered'
  <2>1. \A r \in Routes : Before("initExceptionFilters", r) = Before("initGuards", r)
    BY DEF Before
  <2> QED BY <1>4, <2>1, ZenonT(60) DEF InitExceptionFilters, Filters
<1>5. ASSUME InitGuards PROVE Registered'
  <2> DEFINE b == [r \in Routes |-> Middlewares(r)]
             c == [r \in Routes |-> Middlewares(r) \o Guards(r)]
             names == [r \in Routes |-> Global["guard"] \o Local["guard"][r]]
  <2>1. items = [r \in Routes |-> Item(b[r])] /\ phase' = "initInterceptors"
        /\ GlobalMiddlewares = Globals
    BY <1>5 DEF InitGuards, Before
  <2>2. \A r \in Routes : b[r] \in Seq(Layer) /\ c[r] = b[r] \o Layers("guard", names[r])
    BY PartsType DEF Guards
  <2>3. \A r \in Routes : names[r] \in Seq(STRING)
    BY NamesType
  <2>4. items' = ForAll(Globals, "guard", names)
    BY <1>5, <2>1 DEF InitGuards
  <2> HIDE DEF Item, b, c, names
  <2>5. items' = [r \in Routes |-> Item(c[r])]
    <3>1. ASSUME NEW r \in Routes
          PROVE  ForAll(Globals, "guard", names)[r] = Item(c[r])
      <4>1. names[r] \in Seq(STRING) /\ b[r] \in Seq(Layer) /\ items[r] = Item(b[r])
        BY <2>1, <2>2, <2>3
      <4>2. ForAll(Globals, "guard", names)[r] = Item(b[r] \o Layers("guard", names[r]))
        BY <4>1, <1>2
      <4> QED BY <4>2, <2>2
    <3> QED BY <2>4, <3>1, <1>a
  <2>6. \A r \in Routes : Before("initInterceptors", r) = c[r]
    BY DEF Before, c
  <2>7. UNCHANGED <<catchFnsByRoute, GlobalMiddlewares>> /\ phase = "initGuards"
    BY <1>5 DEF InitGuards
  <2> QED BY <2>1, <2>5, <2>6, <2>7 DEF Item
<1>6. ASSUME InitInterceptors PROVE Registered'
  <2> DEFINE b == [r \in Routes |-> Middlewares(r) \o Guards(r)]
             c == [r \in Routes |-> (Middlewares(r) \o Guards(r))
                                     \o Layers("interceptor", Interceptors(r))]
             names == [r \in Routes |-> Global["interceptor"] \o Local["interceptor"][r]]
  <2>1. items = [r \in Routes |-> Item(b[r])] /\ phase' = "initMainHandlers"
        /\ GlobalMiddlewares = Globals
    BY <1>6 DEF InitInterceptors, Before
  <2>2. \A r \in Routes : b[r] \in Seq(Layer) /\ c[r] = b[r] \o Layers("interceptor", names[r])
    <3>1. \A r \in Routes : Middlewares(r) \o Guards(r) \in Seq(Layer)
      BY PartsType, ConcatProperties
    <3> QED BY <3>1 DEF Interceptors
  <2>3. \A r \in Routes : names[r] \in Seq(STRING)
    BY NamesType DEF Interceptors
  <2>4. items' = ForAll(Globals, "interceptor", names)
    BY <1>6, <2>1 DEF InitInterceptors
  <2> HIDE DEF Item, b, c, names
  <2>5. items' = [r \in Routes |-> Item(c[r])]
    <3>1. ASSUME NEW r \in Routes
          PROVE  ForAll(Globals, "interceptor", names)[r] = Item(c[r])
      <4>1. names[r] \in Seq(STRING) /\ b[r] \in Seq(Layer) /\ items[r] = Item(b[r])
        BY <2>1, <2>2, <2>3
      <4>2. ForAll(Globals, "interceptor", names)[r] = Item(b[r] \o Layers("interceptor", names[r]))
        BY <4>1, <1>2
      <4> QED BY <4>2, <2>2
    <3> QED BY <2>4, <3>1, <1>a
  <2>6. \A r \in Routes : Before("initMainHandlers", r) = c[r]
    BY DEF Before, c
  <2>7. UNCHANGED <<catchFnsByRoute, GlobalMiddlewares>> /\ phase = "initInterceptors"
    BY <1>6 DEF InitInterceptors
  <2> QED BY <2>1, <2>5, <2>6, <2>7 DEF Item
<1>7. ASSUME InitMainHandlers PROVE Registered'
  <2>1. ASSUME NEW r \in Routes
        PROVE  PushAdd(Globals, items[r], MainHandler)
                   = [handlers |-> Chain(r), handlerIndex |-> Len(Chain(r)) - 1]
    <3> DEFINE b == Before("initMainHandlers", r)
               gb == Globals \o b
    <3>1. items[r] = Item(b)
      BY <1>7 DEF InitMainHandlers
    <3>2. b \in Seq(Layer) /\ Globals \in Seq(Layer) /\ MainHandler \in Layer
      BY PartsType
    <3>3. Chain(r) = Append(gb, MainHandler)
      BY DEF Chain, Joined, Before
    <3> HIDE DEF b, MainHandler
    <3>4. Base(Globals, items[r]) = gb
      <4>1. CASE b = <<>>
        BY <4>1, <3>1, <3>2, ConcatEmptySeq DEF Base
      <4>2. CASE b # <<>>
        <5>1. gb # <<>>
          BY <4>2, <3>2, ConcatEqualIffEmpty
        <5> QED BY <4>2, <5>1, <3>1 DEF Base
      <4> QED BY <4>1, <4>2
    <3>5. gb \in Seq(Layer)
      BY <3>2, ConcatProperties
    <3>6. items[r].handlerIndex = -1
      BY <3>1
    <3> HIDE DEF gb, Item
    <3>7. Len(Chain(r)) = Len(gb) + 1 /\ Len(gb) \in Nat
      BY <3>2, <3>3, <3>5, AppendProperties
    <3> QED BY <3>3, <3>4, <3>6, <3>7 DEF PushAdd
  <2>2. GlobalMiddlewares = Globals /\ phase = "initMainHandlers" /\ phase' = "serving"
        /\ UNCHANGED <<GlobalMiddlewares, catchFnsByRoute>>
        /\ items' = [r \in Routes |-> PushAdd(GlobalMiddlewares, items[r], MainHandler)]
    BY <1>7 DEF InitMainHandlers
  <2> QED BY <2>1, <2>2
<1>8. CASE Create
  BY <1>3, <1>4, <1>5, <1>6, <1>7, <1>8 DEF Create
<1>9. ASSUME NEW q \in Requests, Step(q) PROVE UNCHANGED router
  BY <1>9 DEF Step, UpgradeFails, Handshake, HandshakeEnd, Match, ExtractorPanics, Middleware,
     Guard, Interceptor, Main, Aggregate, ShortCircuit, ReturnData, Catch, ChainEnd, End, Release
<1>10. ASSUME NEW q \in Requests, NEW c \in Contexts, NEW path \in PathsOf[q], Accept(q, c, path)
       PROVE  UNCHANGED router
  BY <1>10 DEF Accept
<1> HIDE DEF Registered
<1> QED BY <1>1, <1>8, <1>9, <1>10 DEF Next, vars

----------------------------------------------------------------------------
\* The requests.
Outs == {"next", "stop", "panic", "nextThenPanic", "allow", "deny", "pipe", "skip",
         "none", "value", "status", "badStatus", "answer"}
Mark == Names \X Outs
Agg == [name : Names, isMainHandlerCalled : BOOLEAN]
Reply == [by : Names \cup {"middleware", "http", "serve"}, code : Codes, value : Seq(Datum)]
Request ==
    [pc : {"idle", "upgrade", "handshake", "match", "gone", "notFound", "route", "post",
           "catch", "end"},
     ctx : Contexts \cup {None}, path : Paths \cup {None}, route : Routes \cup {None},
     todo : Seq(Layer), isNext : BOOLEAN, aggs : Seq(Agg), data : Seq(Datum),
     catchFns : Seq(Names), rec : Codes,
     ran : Seq(Mark), caught : Seq(Mark), answers : Seq(Reply)]

Chaining == {"handshake", "gone", "notFound", "route"}
Starting == {"idle", "upgrade", "match"}

\* A route is known from when it is matched, and until then only middlewares run.
Routed(s) ==
    /\ s.pc \in Starting \cup {"handshake", "gone", "notFound"} => s.route = None
    /\ s.pc \in {"route", "post", "catch"} => s.route \in Routes
    /\ s.pc \in {"handshake", "gone", "notFound"} =>
          \A i \in 1 .. Len(s.todo) : s.todo[i].kind = "middleware"
    /\ s.pc \in Starting => s.ran = <<>> /\ s.answers = <<>> /\ s.aggs = <<>> /\ s.isNext

\* What has run of the chain, and what is to come.
Follows(s) ==
    s.route # None =>
        /\ Len(s.ran) + Len(s.todo) = Len(Chain(s.route))
        /\ \A i \in 1 .. Len(s.todo) : s.todo[i] = Chain(s.route)[Len(s.ran) + i]
        /\ \A i \in 1 .. Len(s.ran) : s.ran[i][1] = Chain(s.route)[i].name

\* Each layer that ran, but the last, let the request through.
GoneOn(s) ==
    /\ \A i \in 1 .. Len(s.ran) - 1 : s.ran[i][2] \in GoesOn
    /\ s.pc \in Chaining /\ s.isNext => \A i \in 1 .. Len(s.ran) : s.ran[i][2] \in GoesOn

\* The filters called are the first of the chain, those to call the others.
Catching(s) ==
    /\ s.pc \notin {"catch", "end"} => s.caught = <<>> /\ s.rec = OK
    /\ s.pc = "catch" =>
          /\ s.catchFns # <<>>
          /\ Len(s.caught) + Len(s.catchFns) = Len(Filters(s.route))
          /\ \A i \in 1 .. Len(s.caught) : s.caught[i][1] = Filters(s.route)[i]
          /\ \A i \in 1 .. Len(s.catchFns) :
                s.catchFns[i] = Filters(s.route)[Len(s.caught) + i]
    /\ s.pc = "end" /\ s.rec # OK =>
          /\ s.route \in Routes
          /\ s.caught # <<>> /\ Last(s.caught)[2] = "answer"
          /\ Last(s.answers).by = Last(s.caught)[1]
          /\ Len(s.caught) <= Len(Filters(s.route))
          /\ \A i \in 1 .. Len(s.caught) : s.caught[i][1] = Filters(s.route)[i]

\* A middleware of this request panicked after next().
Twice(s) == \E i \in 1 .. Len(s.ran) : s.ran[i][2] = "nextThenPanic"

\* A request that goes on has not been answered.
Answering(s) ==
    Twice(s) \/ /\ Len(s.answers) <= 1
                /\ s.pc \in {"post", "catch"} => s.answers = <<>>
                /\ s.pc \in Chaining /\ s.isNext => s.answers = <<>>

\* The handler's data are the last to be answered.
NoDataYet(s) == s.pc # "end" => \A i \in 1 .. Len(s.answers) : s.answers[i].by # "main"

\* Code k of the context is the one of this request.
StatusOf(r) == IF r \in Posts THEN Created ELSE OK
Own(s, k) ==
    \/ k = StatusOf(s.route)
    \/ k = 202 /\ \E i \in 1 .. Len(s.ran) : s.ran[i] = <<"main", "status">>
Coded(s, k) ==
    /\ s.pc \in {"upgrade", "match"} => k = OK
    /\ s.pc = "route" /\ s.isNext /\ ~Twice(s) => k = StatusOf(s.route)
    /\ s.pc = "post" /\ ~Twice(s) => Own(s, k)
    /\ ~Twice(s) => \A i \in 1 .. Len(s.answers) :
                       s.answers[i].by = "main" => Own(s, s.answers[i].code)

Good(s, k) ==
    /\ s \in Request /\ k \in Codes
    /\ Routed(s) /\ Follows(s) /\ GoneOn(s) /\ Catching(s) /\ Answering(s) /\ NoDataYet(s)
    /\ Coded(s, k)

\* What the end of a layer (Ran) changes of a request.
LEMMA RanFields ==
    ASSUME NEW s \in Request, s.todo # <<>>, NEW o \in Outs, NEW n \in BOOLEAN,
           NEW t, t = Ran(s, o, n)
    PROVE  /\ t \in Request
           /\ t.pc = s.pc /\ t.ctx = s.ctx /\ t.path = s.path /\ t.route = s.route
           /\ t.aggs = s.aggs /\ t.data = s.data /\ t.catchFns = s.catchFns /\ t.rec = s.rec
           /\ t.caught = s.caught /\ t.answers = s.answers
           /\ t.todo = Tail(s.todo) /\ t.isNext = n
           /\ t.ran = Append(s.ran, <<Head(s.todo).name, o>>)
<1>1. s.todo \in Seq(Layer) /\ s.ran \in Seq(Mark)
  BY DEF Request
<1>2. Tail(s.todo) \in Seq(Layer) /\ Head(s.todo) \in Layer
  BY <1>1
<1>3. <<Head(s.todo).name, o>> \in Mark
  BY <1>2 DEF Layer, Mark
<1>4. Append(s.ran, <<Head(s.todo).name, o>>) \in Seq(Mark)
  BY <1>1, <1>3, AppendProperties
<1> DEFINE r == Append(s.ran, <<Head(s.todo).name, o>>)
           d == Tail(s.todo)
<1>5. t = [s EXCEPT !.todo = d, !.isNext = n, !.ran = r]
  BY DEF Ran
<1> HIDE DEF r, d, Layer, Mark
<1> QED BY <1>2, <1>4, <1>5, ZenonT(60) DEF Request, r, d


\* What a panic changes of a request.
LEMMA PanicFields ==
    ASSUME Registered, phase = "serving", NEW s \in Request, NEW rec \in Codes,
           NEW t, t = Panic(s, rec)
    PROVE  /\ t \in Request
           /\ t.ctx = s.ctx /\ t.path = s.path /\ t.route = s.route
           /\ t.todo = s.todo /\ t.isNext = s.isNext /\ t.aggs = s.aggs /\ t.data = s.data
           /\ t.ran = s.ran /\ t.caught = s.caught /\ t.answers = s.answers
           /\ s.route = None => t.pc = "end" /\ t.rec = s.rec /\ t.catchFns = s.catchFns
           /\ s.route # None => /\ t.pc = "catch" /\ t.rec = rec
                                /\ t.catchFns = Filters(s.route) /\ s.route \in Routes
<1> HIDE DEF Layer, Mark, Agg, Reply, Names, Datum, Codes
<1>1. CASE s.route = None
  <2>1. t = [s EXCEPT !.pc = "end"]
    BY <1>1 DEF Panic
  <2> QED BY <1>1, <2>1 DEF Request
<1>2. CASE s.route # None
  <2>1. s.route \in Routes
    BY <1>2 DEF Request
  <2>2. catchFnsByRoute[s.route] = Filters(s.route)
    BY <2>1 DEF Registered
  <2>3. Filters(s.route) \in Seq(Names)
    BY <2>1, FiltersFacts
  <2>4. t = [s EXCEPT !.pc = "catch", !.rec = rec, !.catchFns = Filters(s.route)]
    BY <1>2, <2>2 DEF Panic
  <2> QED BY <1>2, <2>1, <2>3, <2>4, ZenonT(60) DEF Request
<1> QED BY <1>1, <1>2

Replied(s, t, by, status, value) ==
    /\ t \in Request
    /\ t.pc = s.pc /\ t.ctx = s.ctx /\ t.path = s.path /\ t.route = s.route
    /\ t.todo = s.todo /\ t.isNext = s.isNext /\ t.aggs = s.aggs /\ t.data = s.data
    /\ t.catchFns = s.catchFns /\ t.rec = s.rec /\ t.ran = s.ran /\ t.caught = s.caught
    /\ Len(t.answers) = Len(s.answers) + 1
    /\ \A i \in 1 .. Len(s.answers) : t.answers[i] = s.answers[i]
    /\ t.answers[Len(t.answers)].by = by
    /\ t.answers[Len(t.answers)].code = status
    /\ t.answers[Len(t.answers)].value = value

\* What an answer changes of a request.
LEMMA AnswerFields ==
    ASSUME NEW s \in Request, NEW by \in Names \cup {"middleware", "http", "serve"},
           NEW status \in Codes, NEW value \in Seq(Datum),
           NEW t, t = Answer(s, by, status, value)
    PROVE  Replied(s, t, by, status, value)
<1> DEFINE a == [by |-> by, code |-> status, value |-> value]
           as == Append(s.answers, a)
<1>1. s.answers \in Seq(Reply)
  BY DEF Request
<1>2. a \in Reply
  BY DEF Reply
<1>3. a.by = by /\ a.code = status /\ a.value = value
  OBVIOUS
<1>4. t = [s EXCEPT !.answers = as]
  BY DEF Answer
<1> HIDE DEF a
<1>5. /\ as \in Seq(Reply) /\ Len(as) = Len(s.answers) + 1
      /\ \A i \in 1 .. Len(s.answers) : as[i] = s.answers[i]
      /\ as[Len(as)] = a
  BY <1>1, <1>2, AppendProperties
<1> HIDE DEF as, Layer, Mark, Agg, Reply, Names, Datum, Codes
<1>6. /\ t \in Request
      /\ t.pc = s.pc /\ t.ctx = s.ctx /\ t.path = s.path /\ t.route = s.route
      /\ t.todo = s.todo /\ t.isNext = s.isNext /\ t.aggs = s.aggs /\ t.data = s.data
      /\ t.catchFns = s.catchFns /\ t.rec = s.rec /\ t.ran = s.ran /\ t.caught = s.caught
      /\ t.answers = as
  <2>1. as \in Seq(Reply)
    BY <1>5
  <2> QED BY <2>1, <1>4 DEF Request
<1> QED BY <1>3, <1>5, <1>6 DEF Replied

\* What the end of its handling changes of a request.
LEMMA EndFields ==
    ASSUME NEW s \in Request, NEW t, t = [s EXCEPT !.pc = "end"]
    PROVE  /\ t \in Request /\ t.pc = "end"
           /\ t.ctx = s.ctx /\ t.path = s.path /\ t.route = s.route
           /\ t.todo = s.todo /\ t.isNext = s.isNext /\ t.aggs = s.aggs /\ t.data = s.data
           /\ t.catchFns = s.catchFns /\ t.rec = s.rec /\ t.ran = s.ran /\ t.caught = s.caught
           /\ t.answers = s.answers
<1> HIDE DEF Layer, Mark, Agg, Reply, Names, Datum, Codes
<1> QED BY DEF Request

\* The types of the sequences of a request.
LEMMA SeqFields ==
    ASSUME NEW s \in Request
    PROVE  /\ s.todo \in Seq(Layer) /\ Len(s.todo) \in Nat
           /\ s.ran \in Seq(Mark) /\ Len(s.ran) \in Nat
           /\ s.caught \in Seq(Mark) /\ Len(s.caught) \in Nat
           /\ s.answers \in Seq(Reply) /\ Len(s.answers) \in Nat
           /\ s.aggs \in Seq(Agg) /\ Len(s.aggs) \in Nat
           /\ s.catchFns \in Seq(Names) /\ Len(s.catchFns) \in Nat
           /\ s.data \in Seq(Datum)
           /\ s.isNext \in BOOLEAN /\ s.rec \in Codes /\ s.route \in Routes \cup {None}
           /\ s.ctx \in Contexts \cup {None}
<1> HIDE DEF Layer, Mark, Agg, Reply, Names, Datum, Codes
<1>1. /\ s.todo \in Seq(Layer) /\ s.ran \in Seq(Mark) /\ s.caught \in Seq(Mark)
      /\ s.answers \in Seq(Reply) /\ s.aggs \in Seq(Agg) /\ s.catchFns \in Seq(Names)
      /\ s.data \in Seq(Datum) /\ s.isNext \in BOOLEAN /\ s.rec \in Codes
      /\ s.route \in Routes \cup {None} /\ s.ctx \in Contexts \cup {None}
  BY DEF Request
<1> QED BY <1>1, LenProperties

\* The next layer of the chain runs: the chain is followed.
LEMMA LayerRuns ==
    ASSUME NEW s \in Request, Routed(s), Follows(s), GoneOn(s),
           s.pc \in Chaining, s.isNext, s.todo # <<>>,
           NEW o \in Outs, NEW n \in BOOLEAN, n => o \in GoesOn, NEW u, u = Ran(s, o, n)
    PROVE  /\ Follows(u)
           /\ GoneOn(u)
           /\ Twice(u) <=> Twice(s) \/ o = "nextThenPanic"
           /\ s.pc # "route" => /\ Head(s.todo).kind = "middleware"
                                /\ \A i \in 1 .. Len(u.todo) : u.todo[i].kind = "middleware"
           /\ s.pc = "route" =>
                 Head(s.todo) = Chain(s.route)[Len(u.ran)] /\ Len(u.ran) <= Len(Chain(s.route))
           /\ Len(u.ran) = Len(s.ran) + 1
           /\ u.ran[Len(u.ran)] = <<Head(s.todo).name, o>>
           /\ \A i \in 1 .. Len(s.ran) : u.ran[i] = s.ran[i]
<1>1. u.todo = Tail(s.todo) /\ u.isNext = n /\ u.ran = Append(s.ran, <<Head(s.todo).name, o>>)
      /\ u.route = s.route /\ u.pc = s.pc
  BY RanFields
<1>2. s.todo \in Seq(Layer) /\ s.ran \in Seq(Mark) /\ Len(s.todo) \in Nat /\ Len(s.ran) \in Nat
  BY SeqFields
<1> DEFINE m == <<Head(s.todo).name, o>>
<1>3. m[1] = Head(s.todo).name /\ m[2] = o
  OBVIOUS
<1>4. m \in Mark
  <2>1. Head(s.todo) \in Layer
    BY <1>2
  <2> QED BY <2>1 DEF Layer, Mark
<1> HIDE DEF m, Layer, Mark
<1>5. /\ Len(u.ran) = Len(s.ran) + 1
      /\ \A i \in 1 .. Len(s.ran) : u.ran[i] = s.ran[i]
      /\ u.ran[Len(s.ran) + 1] = m
  BY <1>1, <1>2, <1>4, AppendProperties DEF m
<1>6. /\ Len(s.todo) >= 1
      /\ Head(s.todo) = s.todo[1]
      /\ Len(u.todo) = Len(s.todo) - 1
      /\ \A i \in 1 .. Len(s.todo) - 1 : u.todo[i] = s.todo[i + 1]
  BY <1>1, <1>2
<1> DEFINE lr == Len(s.ran)
           lt == Len(s.todo)
<1>a. Len(u.ran) = lr + 1 /\ Len(u.todo) = lt - 1 /\ lt >= 1 /\ lt \in Nat /\ lr \in Nat
  BY <1>2, <1>5, <1>6
<1>b. Len(u.ran) + Len(u.todo) = lr + lt /\ Len(u.ran) <= lr + lt
      /\ \A i \in Int : lr + (i + 1) = Len(u.ran) + i
  <2> HIDE DEF lr, lt
  <2> QED BY <1>a
<1>7. Follows(u)
  <2> SUFFICES ASSUME s.route # None
               PROVE  /\ Len(u.ran) + Len(u.todo) = Len(Chain(s.route))
                      /\ \A i \in 1 .. Len(u.todo) : u.todo[i] = Chain(s.route)[Len(u.ran) + i]
                      /\ \A i \in 1 .. Len(u.ran) : u.ran[i][1] = Chain(s.route)[i].name
    BY <1>1, ZenonT(60) DEF Follows
  <2> DEFINE c == Chain(s.route)
  <2>1. /\ Len(s.ran) + Len(s.todo) = Len(c)
        /\ \A i \in 1 .. Len(s.todo) : s.todo[i] = c[Len(s.ran) + i]
        /\ \A i \in 1 .. Len(s.ran) : s.ran[i][1] = c[i].name
    BY DEF Follows
  <2> HIDE DEF c
  <2>2. Len(u.ran) + Len(u.todo) = Len(c)
    <3>1. Len(s.ran) + Len(s.todo) = Len(c)
      BY <2>1
    <3> QED BY <3>1, <1>b, Zenon
  <2>3. ASSUME NEW i \in 1 .. Len(u.todo) PROVE u.todo[i] = c[Len(u.ran) + i]
    <3>1. u.todo[i] = s.todo[i + 1] /\ i + 1 \in 1 .. Len(s.todo)
      BY <1>2, <1>6
    <3>2. Len(s.ran) + (i + 1) = Len(u.ran) + i
      <4>1. i \in Int
        OBVIOUS
      <4> QED BY <4>1, <1>b, Zenon
    <3> QED BY <3>1, <3>2, <2>1
  <2>4. ASSUME NEW i \in 1 .. Len(u.ran) PROVE u.ran[i][1] = c[i].name
    <3>1. CASE i \in 1 .. Len(s.ran)
      BY <3>1, <2>1, <1>5
    <3>2. CASE i = Len(s.ran) + 1
      <4>1. 1 \in 1 .. Len(s.todo)
        BY <1>2, <1>6
      <4> QED BY <3>2, <4>1, <2>1, <1>3, <1>5, <1>6
    <3> QED BY <3>1, <3>2, <1>2, <1>5
  <2> QED BY <2>2, <2>3, <2>4 DEF c
<1>8. GoneOn(u)
  <2>1. \A i \in 1 .. Len(s.ran) : s.ran[i][2] \in GoesOn
    BY DEF GoneOn
  <2>2. \A i \in 1 .. Len(s.ran) : u.ran[i][2] \in GoesOn
    BY <2>1, <1>5
  <2>3. Len(u.ran) - 1 = Len(s.ran)
    BY <1>2, <1>5
  <2>4. ASSUME n, NEW i \in 1 .. Len(u.ran) PROVE u.ran[i][2] \in GoesOn
    <3>1. i \in 1 .. Len(s.ran) \/ i = Len(s.ran) + 1
      BY <1>a
    <3>2. u.ran[Len(s.ran) + 1][2] \in GoesOn
      BY <2>4, <1>3, <1>5
    <3> QED BY <3>1, <3>2, <2>2
  <2> QED BY <2>2, <2>3, <2>4, <1>1 DEF GoneOn
<1>9. Twice(u) <=> Twice(s) \/ o = "nextThenPanic"
  BY <1>2, <1>3, <1>5, SMTT(30) DEF Twice
<1>10. ASSUME s.pc # "route"
       PROVE  /\ Head(s.todo).kind = "middleware"
              /\ \A i \in 1 .. Len(u.todo) : u.todo[i].kind = "middleware"
  <2>1. \A i \in 1 .. Len(s.todo) : s.todo[i].kind = "middleware"
    BY <1>10 DEF Routed, Chaining
  <2> QED BY <2>1, <1>2, <1>6
<1>11. ASSUME s.pc = "route"
       PROVE  Head(s.todo) = Chain(s.route)[Len(u.ran)] /\ Len(u.ran) <= Len(Chain(s.route))
  <2>1. s.route # None
    BY <1>11, PipelineAssumption DEF Routed
  <2>2. /\ Len(s.ran) + Len(s.todo) = Len(Chain(s.route))
        /\ \A i \in 1 .. Len(s.todo) : s.todo[i] = Chain(s.route)[Len(s.ran) + i]
    BY <2>1 DEF Follows
  <2>3. 1 \in 1 .. Len(s.todo)
    BY <1>2, <1>6
  <2>4. s.todo[1] = Chain(s.route)[Len(u.ran)]
    BY <2>2, <2>3, <1>a
  <2>5. Len(u.ran) <= Len(Chain(s.route))
    <3>1. Len(s.ran) + Len(s.todo) = Len(Chain(s.route))
      BY <2>2
    <3> QED BY <3>1, <1>b, Zenon
  <2> QED BY <2>4, <2>5, <1>6
<1> QED BY <1>5, <1>7, <1>8, <1>9, <1>10, <1>11 DEF m


\* What depends on the chain and on the layers that ran only.
LEMMA SameChain ==
    ASSUME NEW s, NEW t, t.route = s.route, t.todo = s.todo, t.ran = s.ran
    PROVE  /\ Follows(t) <=> Follows(s)
           /\ Twice(t) <=> Twice(s)
           /\ \A k : Own(t, k) <=> Own(s, k)
<1>1. Follows(t) <=> Follows(s)
  BY Zenon DEF Follows
<1>2. Twice(t) <=> Twice(s)
  BY Zenon DEF Twice
<1>3. \A k : Own(t, k) <=> Own(s, k)
  BY DEF Own
<1> QED BY <1>1, <1>2, <1>3

\* A middleware runs: it lets the request through, stops it, or panics.
LEMMA MiddlewareGood ==
    ASSUME NEW s, NEW k, Good(s, k), s.pc \in Chaining, s.isNext, s.todo # <<>>,
           NEW o \in {"next", "stop", "panic", "nextThenPanic"},
           NEW t, NEW k2,
           LET u == Ran(s, o, o \in {"next", "nextThenPanic"})
               panics == o \in {"panic", "nextThenPanic"}
           IN  /\ t = IF panics THEN Answer(u, DefaultFilter, 500, <<>>)
                      ELSE IF o = "stop" THEN Answer(u, "middleware", OK, <<>>)
                      ELSE u
               /\ k2 = IF panics THEN 500 ELSE k
    PROVE  Good(t, k2) /\ t.pc = s.pc /\ t.ctx = s.ctx
<1> DEFINE n == o \in {"next", "nextThenPanic"}
           u == Ran(s, o, n)
<1>1. /\ s \in Request /\ k \in Codes /\ Routed(s) /\ Follows(s) /\ GoneOn(s) /\ Catching(s)
      /\ Answering(s) /\ NoDataYet(s) /\ Coded(s, k)
  BY DEF Good
<1>2. o \in Outs /\ n \in BOOLEAN /\ (n => o \in GoesOn)
  BY DEF Outs, GoesOn
<1>9. /\ t = IF o \in {"panic", "nextThenPanic"} THEN Answer(u, DefaultFilter, 500, <<>>)
             ELSE IF o = "stop" THEN Answer(u, "middleware", OK, <<>>) ELSE u
      /\ k2 = IF o \in {"panic", "nextThenPanic"} THEN 500 ELSE k
  OBVIOUS
<1>10. (n <=> o = "next" \/ o = "nextThenPanic") /\ u = Ran(s, o, n)
  OBVIOUS
<1> HIDE DEF u, n
<1>3. /\ u \in Request
      /\ u.pc = s.pc /\ u.ctx = s.ctx /\ u.route = s.route /\ u.rec = s.rec
      /\ u.caught = s.caught /\ u.answers = s.answers /\ u.isNext = n
  BY <1>1, <1>2, <1>10, RanFields
<1>4. /\ Follows(u) /\ GoneOn(u)
      /\ Twice(u) <=> Twice(s) \/ o = "nextThenPanic"
      /\ s.pc # "route" => \A i \in 1 .. Len(u.todo) : u.todo[i].kind = "middleware"
  BY <1>1, <1>2, <1>10, LayerRuns
<1>5. s.answers = <<>> \/ Twice(s)
  BY <1>1 DEF Answering
<1>6. \A i \in 1 .. Len(s.answers) : s.answers[i].by # "main"
  BY <1>1 DEF NoDataYet, Chaining
<1>7. s.caught = <<>> /\ s.rec = OK
  BY <1>1 DEF Catching, Chaining
<1>8. <<>> \in Seq(Datum) /\ DefaultFilter \in Names \cup {"middleware", "http", "serve"} /\ 500 \in Codes /\ OK \in Codes
      /\ DefaultFilter # "main" /\ "middleware" \in Names \cup {"middleware", "http", "serve"}
  BY EmptySeq DEF Names, Codes, DefaultFilter
<1>11. /\ t \in Request
       /\ t.pc = s.pc /\ t.ctx = s.ctx /\ t.route = s.route /\ t.rec = OK /\ t.caught = <<>>
       /\ t.isNext = n /\ t.todo = u.todo /\ t.ran = u.ran
       /\ o = "next" => t.answers = s.answers
       /\ o # "next" => /\ Len(t.answers) = Len(s.answers) + 1
                        /\ \A i \in 1 .. Len(s.answers) : t.answers[i] = s.answers[i]
                        /\ t.answers[Len(s.answers) + 1].by # "main"
  <2>1. CASE o \in {"panic", "nextThenPanic"}
    <3>1. t = Answer(u, DefaultFilter, 500, <<>>)
      BY <2>1, <1>9
    <3>2. Replied(u, t, DefaultFilter, 500, <<>>)
      BY <3>1, <1>3, <1>8, AnswerFields, Zenon
    <3> QED BY <2>1, <3>2, <1>3, <1>7, <1>8 DEF Replied
  <2>2. CASE o = "stop"
    <3>1. t = Answer(u, "middleware", OK, <<>>)
      BY <2>2, <1>9
    <3>2. Replied(u, t, "middleware", OK, <<>>)
      BY <3>1, <1>3, <1>8, AnswerFields, Zenon
    <3> QED BY <2>2, <3>2, <1>3, <1>7, <1>8 DEF Replied
  <2>3. CASE o = "next"
    BY <2>3, <1>3, <1>7, <1>9
  <2> QED BY <2>1, <2>2, <2>3
<1>12. Routed(t)
  BY <1>1, <1>4, <1>11 DEF Routed, Chaining, Starting
<1>13. Follows(t) /\ (Twice(t) <=> Twice(u))
  <2>1. t.route = u.route /\ t.todo = u.todo /\ t.ran = u.ran
    BY <1>3, <1>11
  <2> QED BY <2>1, <1>4, SameChain
<1>14. GoneOn(t)
  BY <1>3, <1>4, <1>11 DEF GoneOn
<1>15. Catching(t)
  BY <1>11 DEF Catching, Chaining
<1>16. Len(s.answers) \in Nat /\ (s.answers = <<>> => Len(s.answers) = 0)
  BY <1>1, SeqFields
<1>17. Answering(t)
  <2>1. CASE n
    <3>1. o = "nextThenPanic" => Twice(t)
      BY <1>4, <1>13
    <3>2. o = "next" => Twice(t) \/ t.answers = <<>>
      BY <1>4, <1>5, <1>11, <1>13
    <3>3. t.answers = <<>> => Len(t.answers) <= 1
      OBVIOUS
    <3> QED BY <2>1, <3>1, <3>2, <3>3, <1>10 DEF Answering
  <2>2. CASE ~n
    BY <2>2, <1>4, <1>5, <1>10, <1>11, <1>13, <1>16 DEF Answering, Chaining
  <2> QED BY <2>1, <2>2
<1>18. \A i \in 1 .. Len(t.answers) : t.answers[i].by # "main"
  <2>1. CASE o = "next"
    BY <2>1, <1>6, <1>11
  <2>2. CASE o # "next"
    <3>1. \A i \in 1 .. Len(t.answers) : i \in 1 .. Len(s.answers) \/ i = Len(s.answers) + 1
      BY <2>2, <1>11, <1>16
    <3> QED BY <2>2, <3>1, <1>6, <1>11
  <2> QED BY <2>1, <2>2
<1>19. Coded(t, k2)
  <2>1. ASSUME t.pc = "route", n, ~Twice(t) PROVE k2 = StatusOf(t.route)
    BY <2>1, <1>1, <1>4, <1>9, <1>10, <1>11, <1>13 DEF Coded
  <2> QED BY <2>1, <1>11, <1>18 DEF Coded, Chaining
<1>20. k2 \in Codes
  BY <1>1, <1>8, <1>9
<1> QED BY <1>11, <1>12, <1>13, <1>4, <1>14, <1>15, <1>17, <1>18, <1>19, <1>20 DEF Good, NoDataYet

Unanswered(u) ==
    /\ u \in Request /\ u.route \in Routes /\ u.caught = <<>> /\ Follows(u)
    /\ \A i \in 1 .. Len(u.ran) - 1 : u.ran[i][2] \in GoesOn
    /\ u.answers = <<>> \/ Twice(u)
    /\ \A i \in 1 .. Len(u.answers) : u.answers[i].by # "main"

\* A request whose handling panics is given to the filters of its route.
LEMMA PanicGood ==
    ASSUME Registered, phase = "serving", NEW u, Unanswered(u),
           NEW rec \in Codes, NEW k \in Codes
    PROVE  /\ Good(Panic(u, rec), k)
           /\ Panic(u, rec).pc = "catch"
           /\ Panic(u, rec).ctx = u.ctx
<1> DEFINE t == Panic(u, rec)
<1> HIDE DEF t
<1> SUFFICES Good(t, k) /\ t.pc = "catch" /\ t.ctx = u.ctx
  BY DEF t
<1> USE DEF Unanswered
<1>1. u.route # None
  BY PipelineAssumption
<1>2. /\ t \in Request /\ t.ctx = u.ctx /\ t.route = u.route /\ t.pc = "catch"
      /\ t.todo = u.todo /\ t.ran = u.ran /\ t.caught = <<>> /\ t.answers = u.answers
      /\ t.catchFns = Filters(u.route)
  BY <1>1, PanicFields DEF t
<1>3. Filters(u.route) \in Seq(Names) /\ Len(Filters(u.route)) >= 1
  BY FiltersFacts
<1>4. Len(t.caught) = 0 /\ Filters(u.route) # <<>> /\ Len(Filters(u.route)) \in Nat
  BY <1>2, <1>3
<1>5. Catching(t)
  <2> DEFINE f == Filters(u.route)
  <2>1. t.catchFns = f /\ t.route = u.route /\ f # <<>> /\ Len(f) \in Nat /\ Len(t.caught) = 0
    BY <1>2, <1>4
  <2> HIDE DEF f
  <2>2. Len(t.caught) + Len(t.catchFns) = Len(f)
    BY <2>1
  <2>3. \A i \in 1 .. Len(t.catchFns) : t.catchFns[i] = f[Len(t.caught) + i]
    BY <2>1
  <2>4. \A i \in 1 .. Len(t.caught) : t.caught[i][1] = f[i]
    BY <2>1
  <2> QED BY <2>1, <2>2, <2>3, <2>4, <1>2 DEF Catching, f
<1>6. Follows(t) /\ (Twice(t) <=> Twice(u)) /\ GoneOn(t)
  BY <1>2 DEF Follows, Twice, GoneOn, Chaining
<1>7. Routed(t) /\ NoDataYet(t)
  BY <1>2 DEF Routed, NoDataYet, Starting
<1>8. Answering(t)
  <2>1. CASE Twice(u)
    BY <2>1, <1>6 DEF Answering
  <2>2. CASE u.answers = <<>>
    BY <2>2, <1>2 DEF Answering, Chaining
  <2> QED BY <2>1, <2>2
<1>9. Coded(t, k)
  BY <1>2 DEF Coded
<1> QED BY <1>2, <1>5, <1>6, <1>7, <1>8, <1>9 DEF Good

Guarded(s, o) ==
    IF o = "allow" THEN Ran(s, o, TRUE)
    ELSE Panic(Ran(s, o, FALSE), IF o = "deny" THEN 403 ELSE 500)

\* A guard lets the request through, denies it or panics.
LEMMA GuardGood ==
    ASSUME Registered, phase = "serving",
           NEW s, NEW k, Good(s, k), s.pc \in Chaining, s.isNext, s.todo # <<>>,
           Head(s.todo).kind = "guard", NEW o \in {"allow", "deny", "panic"}
    PROVE  /\ Good(Guarded(s, o), k)
           /\ Guarded(s, o).pc # "idle" /\ Guarded(s, o).ctx = s.ctx
<1> DEFINE t == Guarded(s, o)
<1> SUFFICES Good(t, k) /\ t.pc # "idle" /\ t.ctx = s.ctx
  OBVIOUS
<1>1. /\ s \in Request /\ k \in Codes /\ Routed(s) /\ Follows(s) /\ GoneOn(s) /\ Catching(s)
      /\ Answering(s) /\ NoDataYet(s) /\ Coded(s, k)
  BY DEF Good
<1>2. o \in Outs /\ (o = "allow" => o \in GoesOn) /\ o # "nextThenPanic"
  BY DEF Outs, GoesOn
<1>3. s.answers = <<>> \/ Twice(s)
  BY <1>1 DEF Answering
<1>4. \A i \in 1 .. Len(s.answers) : s.answers[i].by # "main"
  BY <1>1 DEF NoDataYet, Chaining
<1>5. s.caught = <<>> /\ s.rec = OK
  BY <1>1 DEF Catching, Chaining
<1> DEFINE n == o = "allow"
           u == Ran(s, o, n)
<1>9. /\ t = IF n THEN u ELSE Panic(u, IF o = "deny" THEN 403 ELSE 500)
      /\ u = Ran(s, o, n) /\ n \in BOOLEAN /\ (n <=> o = "allow")
  BY ZenonT(60) DEF Guarded
<1> HIDE DEF u, n, t
<1>6. /\ u \in Request
      /\ u.pc = s.pc /\ u.ctx = s.ctx /\ u.route = s.route /\ u.rec = s.rec
      /\ u.caught = s.caught /\ u.answers = s.answers /\ u.isNext = n
  BY <1>1, <1>2, <1>9, RanFields
<1>7. /\ Follows(u) /\ GoneOn(u)
      /\ Twice(u) <=> Twice(s)
      /\ s.pc # "route" => Head(s.todo).kind = "middleware"
  BY <1>1, <1>2, <1>9, LayerRuns
<1>8. s.pc = "route" /\ s.route \in Routes
  BY <1>1, <1>7 DEF Routed
<1>10. CASE n
  <2>1. t = u /\ u.isNext
    BY <1>6, <1>9, <1>10
  <2>2. Routed(u) /\ Catching(u) /\ NoDataYet(u)
    BY <1>4, <1>5, <1>6, <1>8 DEF Routed, Catching, NoDataYet, Starting
  <2>3. Answering(u) /\ Coded(u, k)
    <3>1. Len(s.answers) \in Nat /\ (s.answers = <<>> => Len(s.answers) = 0)
      BY <1>1, SeqFields
    <3>2. Answering(u)
      BY <3>1, <1>3, <1>6, <1>7, <1>8 DEF Answering
    <3>3. ~Twice(s) => k = StatusOf(s.route)
      BY <1>1, <1>8 DEF Coded
    <3> QED BY <3>2, <3>3, <1>4, <1>6, <1>7, <1>8 DEF Coded
  <2> QED BY <2>1, <2>2, <2>3, <1>1, <1>6, <1>7, <1>8 DEF Good
<1>11. CASE ~n
  <2> DEFINE rec == IF o = "deny" THEN 403 ELSE 500
  <2>1. rec \in Codes
    BY DEF Codes
  <2>2. t = Panic(u, rec)
    BY <1>9, <1>11
  <2> HIDE DEF rec
  <2>3. \A i \in 1 .. Len(u.ran) - 1 : u.ran[i][2] \in GoesOn
    BY <1>7 DEF GoneOn
  <2>4. Unanswered(u)
    BY <2>3, <1>1, <1>3, <1>4, <1>5, <1>6, <1>7, <1>8 DEF Unanswered
  <2>5. Good(Panic(u, rec), k) /\ Panic(u, rec).pc = "catch" /\ Panic(u, rec).ctx = u.ctx
    BY <2>1, <2>4, <1>1, PanicGood
  <2> QED BY <2>2, <2>5, <1>6
<1> QED BY <1>10, <1>11


Alike(t, u) ==
    /\ t \in Request /\ t.ctx = u.ctx /\ t.route = u.route /\ t.rec = u.rec
    /\ t.caught = u.caught /\ t.answers = u.answers /\ t.todo = u.todo /\ t.ran = u.ran

\* A guard, an interceptor or the main handler has run: it may panic, and it may go on.
LEMMA LayerGood ==
    ASSUME NEW s, NEW k, Good(s, k), s.pc \in Chaining, s.isNext, s.todo # <<>>,
           Head(s.todo).kind # "middleware", NEW o \in Outs, o # "nextThenPanic",
           NEW n \in BOOLEAN, n => o \in GoesOn, NEW t, Alike(t, Ran(s, o, n))
    PROVE  /\ s.pc = "route" /\ s.route \in Routes /\ t.route = s.route /\ t.ctx = s.ctx
           /\ Unanswered(t)
           /\ Twice(t) <=> Twice(s)
           /\ ~Twice(t) => k = StatusOf(t.route)
           /\ t.rec = OK
           /\ t.pc = "route" /\ n /\ t.isNext => Good(t, k)
<1> DEFINE u == Ran(s, o, n)
<1>0. u = Ran(s, o, n)
  OBVIOUS
<1> HIDE DEF u
<1>a. /\ t \in Request /\ t.ctx = u.ctx /\ t.route = u.route /\ t.rec = u.rec
      /\ t.caught = u.caught /\ t.answers = u.answers /\ t.todo = u.todo /\ t.ran = u.ran
  BY <1>0 DEF Alike
<1>1. /\ s \in Request /\ k \in Codes /\ Routed(s) /\ Follows(s) /\ GoneOn(s) /\ Catching(s)
      /\ Answering(s) /\ NoDataYet(s) /\ Coded(s, k)
  BY DEF Good
<1>2. s.answers = <<>> \/ Twice(s)
  BY <1>1 DEF Answering
<1>3. \A i \in 1 .. Len(s.answers) : s.answers[i].by # "main"
  BY <1>1 DEF NoDataYet, Chaining
<1>4. s.caught = <<>> /\ s.rec = OK
  BY <1>1 DEF Catching, Chaining
<1>5. /\ u.ctx = s.ctx /\ u.route = s.route /\ u.rec = s.rec /\ u.pc = s.pc
      /\ u.caught = s.caught /\ u.answers = s.answers /\ u.isNext = n
  BY <1>0, <1>1, RanFields
<1>6. /\ Follows(u) /\ GoneOn(u)
      /\ Twice(u) <=> Twice(s)
      /\ s.pc # "route" => Head(s.todo).kind = "middleware"
  BY <1>0, <1>1, LayerRuns
<1>7. s.pc = "route" /\ s.route \in Routes
  BY <1>1, <1>6 DEF Routed
<1>8. Follows(t) /\ (Twice(t) <=> Twice(s))
  BY <1>a, <1>6, SameChain
<1>9. ~Twice(t) => k = StatusOf(t.route)
  BY <1>a, <1>1, <1>5, <1>7, <1>8 DEF Coded
<1>10. \A i \in 1 .. Len(u.ran) - 1 : u.ran[i][2] \in GoesOn
  BY <1>6 DEF GoneOn
<1>11. Unanswered(t)
  BY <1>a, <1>2, <1>3, <1>4, <1>5, <1>7, <1>8, <1>10 DEF Unanswered
<1>12. ASSUME t.pc = "route", n, t.isNext PROVE Good(t, k)
  <2>1. Routed(t) /\ Catching(t) /\ NoDataYet(t)
    BY <1>a, <1>3, <1>4, <1>5, <1>7, <1>12 DEF Routed, Catching, NoDataYet, Starting
  <2>2. GoneOn(t)
    BY <1>a, <1>5, <1>6, <1>7, <1>12 DEF GoneOn
  <2>3. Answering(t)
    <3>1. t.answers = <<>> => Len(t.answers) <= 1
      OBVIOUS
    <3> QED BY <1>a, <3>1, <1>2, <1>5, <1>8, <1>12 DEF Answering
  <2>4. Coded(t, k)
    BY <1>a, <1>3, <1>5, <1>9, <1>12 DEF Coded
  <2> QED BY <1>a, <2>1, <2>2, <2>3, <2>4, <1>1, <1>8 DEF Good
<1> QED BY <1>a, <1>4, <1>5, <1>7, <1>8, <1>9, <1>11, <1>12

Intercepted(s, o) ==
    [Ran(s, o, o # "panic") EXCEPT !.aggs =
        Append(@, [name |-> Head(s.todo).name, isMainHandlerCalled |-> o = "pipe"])]

\* An interceptor goes on, or panics.
LEMMA InterceptorGood ==
    ASSUME Registered, phase = "serving",
           NEW s, NEW k, Good(s, k), s.pc \in Chaining, s.isNext, s.todo # <<>>,
           Head(s.todo).kind = "interceptor", NEW o \in {"pipe", "skip", "panic"}
    PROVE  LET v == Intercepted(s, o) IN
           /\ v \in Request
           /\ v.pc = s.pc /\ v.isNext = (o # "panic") /\ v.data = s.data
           /\ v.ran = Ran(s, o, o # "panic").ran /\ v.route = s.route /\ v.answers = s.answers
           /\ v.aggs = Append(s.aggs, [name |-> Head(s.todo).name,
                                       isMainHandlerCalled |-> o = "pipe"])
           /\ s.pc = "route" /\ s.route \in Routes /\ v.ctx = s.ctx
           /\ o # "panic" => Good(v, k)
           /\ o = "panic" => Unanswered(v)
<1> DEFINE v == Intercepted(s, o)
           n == o # "panic"
           u == Ran(s, o, n)
           a == [name |-> Head(s.todo).name, isMainHandlerCalled |-> o = "pipe"]
<1>1. s \in Request /\ k \in Codes
  BY DEF Good
<1>2. o \in Outs /\ (n => o \in GoesOn) /\ o # "nextThenPanic" /\ n \in BOOLEAN
  BY DEF Outs, GoesOn
<1>3. v = [u EXCEPT !.aggs = Append(@, a)]
  BY DEF Intercepted
<1>4. a \in Agg
  <2>1. Head(s.todo) \in Layer
    BY <1>1, SeqFields
  <2>2. Head(s.todo).name \in Names
    BY <2>1 DEF Layer
  <2> QED BY <2>2 DEF Agg
<1>5. u = Ran(s, o, n)
  OBVIOUS
<1>6. n <=> o # "panic"
  OBVIOUS
<1> HIDE DEF n, u, a, v
<1>7. /\ u \in Request /\ u.pc = s.pc /\ u.aggs = s.aggs /\ u.data = s.data /\ u.isNext = n
      /\ u.ctx = s.ctx /\ u.route = s.route /\ u.answers = s.answers
  BY <1>1, <1>2, <1>5, RanFields
<1>8. Append(u.aggs, a) \in Seq(Agg)
  <2>1. u.aggs \in Seq(Agg)
    BY <1>7, SeqFields
  <2> QED BY <2>1, <1>4, AppendProperties
<1> DEFINE as == Append(u.aggs, a)
<1>9. v = [u EXCEPT !.aggs = as] /\ as = Append(s.aggs, a)
  BY <1>3, <1>7
<1> HIDE DEF as
<1>10. /\ v \in Request /\ v.pc = u.pc /\ v.isNext = u.isNext /\ v.data = u.data
       /\ v.ctx = u.ctx /\ v.route = u.route /\ v.rec = u.rec /\ v.caught = u.caught
       /\ v.answers = u.answers /\ v.todo = u.todo /\ v.ran = u.ran /\ v.aggs = as
  <2> HIDE DEF Layer, Mark, Agg, Reply, Names, Datum, Codes
  <2>1. as \in Seq(Agg)
    BY <1>8 DEF as
  <2> QED BY <2>1, <1>7, <1>9 DEF Request
<1>11. Head(s.todo).kind # "middleware"
  OBVIOUS
<1>12. /\ s.pc = "route" /\ s.route \in Routes /\ Unanswered(v)
       /\ v.pc = "route" /\ n /\ v.isNext => Good(v, k)
  <2>1. Alike(v, Ran(s, o, n))
    BY <1>5, <1>10 DEF Alike
  <2> QED BY <2>1, <1>2, <1>11, LayerGood
<1> QED BY <1>6, <1>7, <1>9, <1>10, <1>12 DEF n, u, a, v


\* The handling of a request that no one has answered ends, without an answer or with one.
LEMMA EndsGood ==
    ASSUME NEW u, Unanswered(u), u.pc = "end", u.rec = OK, NEW k \in Codes
    PROVE  /\ Good(u, k)
           /\ \A by, status, value :
                 /\ by \in Names \cup {"middleware", "http", "serve"} /\ status \in Codes
                 /\ value \in Seq(Datum)
                 /\ by = "main" => Twice(u) \/ Own(u, status)
                 => Good(Answer(u, by, status, value), k)
<1>1. /\ u \in Request /\ u.route \in Routes /\ u.caught = <<>> /\ Follows(u)
      /\ \A i \in 1 .. Len(u.ran) - 1 : u.ran[i][2] \in GoesOn
      /\ u.answers = <<>> \/ Twice(u)
      /\ \A i \in 1 .. Len(u.answers) : u.answers[i].by # "main"
  BY DEF Unanswered
<1>2. Len(u.answers) \in Nat /\ (u.answers = <<>> => Len(u.answers) = 0)
  BY <1>1, SeqFields
<1>3. ASSUME NEW t \in Request, t.pc = "end", t.rec = OK, t.route = u.route, t.todo = u.todo,
             t.ran = u.ran, Twice(u) \/ Len(t.answers) <= 1,
             \A i \in 1 .. Len(t.answers) :
                t.answers[i].by = "main" => Twice(u) \/ Own(u, t.answers[i].code)
      PROVE  Good(t, k)
  <2>1. Follows(t) /\ (Twice(t) <=> Twice(u)) /\ \A c : Own(t, c) <=> Own(u, c)
    BY <1>1, <1>3, SameChain
  <2>2. Routed(t) /\ GoneOn(t) /\ Catching(t) /\ NoDataYet(t)
    BY <1>1, <1>3 DEF Routed, GoneOn, Catching, NoDataYet, Starting, Chaining
  <2>3. Answering(t)
    BY <1>3, <2>1 DEF Answering, Chaining
  <2>4. Coded(t, k)
    BY <1>3, <2>1 DEF Coded
  <2> QED BY <1>3, <2>1, <2>2, <2>3, <2>4 DEF Good
<1>4. Good(u, k)
  BY <1>1, <1>2, <1>3
<1>5. ASSUME NEW by, NEW status, NEW value,
             by \in Names \cup {"middleware", "http", "serve"}, status \in Codes,
             value \in Seq(Datum), by = "main" => Twice(u) \/ Own(u, status)
      PROVE  Good(Answer(u, by, status, value), k)
  <2> DEFINE t == Answer(u, by, status, value)
  <2>1. Replied(u, t, by, status, value)
    BY <1>1, <1>5, AnswerFields
  <2> HIDE DEF t
  <2>2. /\ t \in Request /\ t.pc = "end" /\ t.rec = OK /\ t.route = u.route /\ t.todo = u.todo
        /\ t.ran = u.ran
        /\ Len(t.answers) = Len(u.answers) + 1
        /\ \A i \in 1 .. Len(u.answers) : t.answers[i] = u.answers[i]
        /\ t.answers[Len(u.answers) + 1].by = by
        /\ t.answers[Len(u.answers) + 1].code = status
    BY <2>1 DEF Replied
  <2>3. Twice(u) \/ Len(t.answers) <= 1
    BY <2>2, <1>1, <1>2
  <2>4. ASSUME NEW i \in 1 .. Len(t.answers), t.answers[i].by = "main"
        PROVE  Twice(u) \/ Own(u, t.answers[i].code)
    <3>1. i \in 1 .. Len(u.answers) \/ i = Len(u.answers) + 1
      BY <2>2, <1>2
    <3>2. i = Len(u.answers) + 1
      BY <3>1, <2>2, <2>4, <1>1
    <3> QED BY <3>2, <2>2, <2>4, <1>5
  <2>5. Good(t, k)
    BY <2>2, <2>3, <2>4, <1>3
  <2> QED BY <2>5 DEF t
<1> QED BY <1>4, <1>5

\* The request after its main handler: nobody has answered it.
LEMMA PostGood ==
    ASSUME NEW s
    PROVE  /\ \A k : Good(s, k) /\ s.pc = "post" =>
                 Unanswered(s) /\ s.rec = OK /\ (Twice(s) \/ Own(s, k)) /\ k \in Codes
           /\ \A k \in Codes : Unanswered(s) /\ s.pc = "post" /\ s.rec = OK
                               /\ (Twice(s) \/ Own(s, k)) => Good(s, k)
           /\ \A t : Unanswered(s) /\ Alike(t, s) =>
                 /\ Unanswered(t) /\ t.rec = s.rec
                 /\ Twice(t) <=> Twice(s)
                 /\ \A k : Own(t, k) <=> Own(s, k)
<1>1. ASSUME NEW k, Good(s, k), s.pc = "post"
      PROVE  Unanswered(s) /\ s.rec = OK /\ (Twice(s) \/ Own(s, k)) /\ k \in Codes
  <2>1. /\ s \in Request /\ k \in Codes /\ Routed(s) /\ Follows(s) /\ GoneOn(s) /\ Catching(s)
        /\ Answering(s) /\ NoDataYet(s) /\ Coded(s, k)
    BY <1>1 DEF Good
  <2>2. s.caught = <<>> /\ s.rec = OK /\ s.route \in Routes
    BY <1>1, <2>1 DEF Catching, Routed
  <2>3. s.answers = <<>> \/ Twice(s)
    BY <1>1, <2>1 DEF Answering
  <2>4. /\ \A i \in 1 .. Len(s.answers) : s.answers[i].by # "main"
        /\ \A i \in 1 .. Len(s.ran) - 1 : s.ran[i][2] \in GoesOn
    BY <1>1, <2>1 DEF NoDataYet, GoneOn
  <2>5. Twice(s) \/ Own(s, k)
    BY <1>1, <2>1 DEF Coded
  <2> QED BY <2>1, <2>2, <2>3, <2>4, <2>5 DEF Unanswered
<1>2. ASSUME NEW k \in Codes, Unanswered(s), s.pc = "post", s.rec = OK, Twice(s) \/ Own(s, k)
      PROVE  Good(s, k)
  <2>1. /\ s \in Request /\ s.route \in Routes /\ s.caught = <<>> /\ Follows(s)
        /\ \A i \in 1 .. Len(s.ran) - 1 : s.ran[i][2] \in GoesOn
        /\ s.answers = <<>> \/ Twice(s)
        /\ \A i \in 1 .. Len(s.answers) : s.answers[i].by # "main"
    BY <1>2 DEF Unanswered
  <2>2. Routed(s) /\ GoneOn(s) /\ Catching(s) /\ NoDataYet(s)
    BY <1>2, <2>1 DEF Routed, GoneOn, Catching, NoDataYet, Starting, Chaining
  <2>3. Answering(s)
    <3>1. s.answers = <<>> => Len(s.answers) <= 1
      OBVIOUS
    <3> QED BY <3>1, <1>2, <2>1 DEF Answering, Chaining
  <2>4. Coded(s, k)
    BY <1>2, <2>1 DEF Coded
  <2> QED BY <1>2, <2>1, <2>2, <2>3, <2>4 DEF Good
<1>3. ASSUME NEW t, Unanswered(s), Alike(t, s)
      PROVE  /\ Unanswered(t) /\ t.rec = s.rec
             /\ Twice(t) <=> Twice(s)
             /\ \A k : Own(t, k) <=> Own(s, k)
  <2>1. /\ t \in Request /\ t.route = s.route /\ t.rec = s.rec
        /\ t.caught = s.caught /\ t.answers = s.answers /\ t.todo = s.todo /\ t.ran = s.ran
    BY <1>3 DEF Alike
  <2>2. (Follows(t) <=> Follows(s)) /\ (Twice(t) <=> Twice(s)) /\ \A k : Own(t, k) <=> Own(s, k)
    BY <2>1, SameChain
  <2> QED BY <1>3, <2>1, <2>2 DEF Unanswered
<1> QED BY <1>1, <1>2, <1>3

Handled(s, o) ==
    [Ran(s, o, FALSE) EXCEPT
        !.pc = IF o = "none" /\ s.aggs = <<>> THEN "end" ELSE "post",
        !.data = IF o = "none" THEN <<"nil">> ELSE <<"main">>]

AfterMain(s, o, k, v) ==
    /\ Unanswered(v) /\ v.rec = OK
    /\ v.pc = IF o = "none" /\ s.aggs = <<>> THEN "end" ELSE "post"
    /\ v.data = IF o = "none" THEN <<"nil">> ELSE <<"main">>
    /\ v.aggs = s.aggs /\ v.route = s.route /\ v.ran = Ran(s, o, FALSE).ran
    /\ v.answers = s.answers
    /\ s.pc = "route" /\ s.route \in Routes /\ v.ctx = s.ctx
    /\ Head(s.todo).name = "main" /\ Len(v.ran) = Len(Chain(s.route))
    /\ \A k2 \in Codes : (k2 = k \/ (o = "status" /\ k2 = 202)) => Good(v, k2)

\* The main handler has run: its status counts unless an interceptor skipped it.
LEMMA MainGood ==
    ASSUME Registered, phase = "serving",
           NEW s, NEW k, Good(s, k), s.pc \in Chaining, s.isNext, s.todo # <<>>,
           Head(s.todo).kind = "main",
           NEW o \in {"none", "value", "status", "badStatus", "panic"}
    PROVE  AfterMain(s, o, k, Handled(s, o))
<1> DEFINE v == Handled(s, o)
           n == FALSE
           u == Ran(s, o, n)
           p == IF o = "none" /\ s.aggs = <<>> THEN "end" ELSE "post"
           d == IF o = "none" THEN <<"nil">> ELSE <<"main">>
<1>1. /\ s \in Request /\ k \in Codes /\ Routed(s) /\ Follows(s) /\ GoneOn(s)
  BY DEF Good
<1>2. o \in Outs /\ o # "nextThenPanic" /\ n \in BOOLEAN /\ ~n
  BY DEF Outs
<1>3. v = [u EXCEPT !.pc = p, !.data = d]
  BY DEF Handled
<1>4. p \in {"end", "post"}
  OBVIOUS
<1>5. d \in Seq(Datum)
  <2>1. "nil" \in Datum /\ "main" \in Datum
    BY DEF Datum, Names
  <2> QED BY <2>1
<1>6. u = Ran(s, o, n)
  OBVIOUS
<1> HIDE DEF u, p, d, v, n
<1>7. /\ u \in Request /\ u.pc = s.pc /\ u.aggs = s.aggs /\ u.isNext = n
      /\ u.ctx = s.ctx /\ u.route = s.route /\ u.answers = s.answers
  BY <1>1, <1>2, <1>6, RanFields
<1>8. /\ v \in Request /\ v.pc = p /\ v.data = d /\ v.aggs = u.aggs
      /\ v.ctx = u.ctx /\ v.route = u.route /\ v.rec = u.rec /\ v.caught = u.caught
      /\ v.answers = u.answers /\ v.todo = u.todo /\ v.ran = u.ran
  <2> HIDE DEF Layer, Mark, Agg, Reply, Names, Datum, Codes
  <2> QED BY <1>3, <1>4, <1>5, <1>7 DEF Request
<1>9. /\ s.pc = "route" /\ s.route \in Routes /\ Unanswered(v) /\ v.rec = OK
      /\ ~Twice(v) => k = StatusOf(v.route)
  <2>1. Alike(v, Ran(s, o, n))
    BY <1>6, <1>8 DEF Alike
  <2>2. Head(s.todo).kind # "middleware"
    OBVIOUS
  <2> QED BY <2>1, <2>2, <1>2, LayerGood
<1>10. /\ Head(s.todo) = Chain(s.route)[Len(u.ran)] /\ Len(u.ran) <= Len(Chain(s.route))
       /\ Len(u.ran) = Len(s.ran) + 1
       /\ u.ran[Len(u.ran)] = <<Head(s.todo).name, o>>
  BY <1>1, <1>2, <1>6, <1>9, LayerRuns
<1>11. Len(u.ran) = Len(Chain(s.route)) /\ Head(s.todo) = MainHandler
  <2> DEFINE c == Chain(s.route)
             b == Outer(s.route)
             l == Len(Interceptors(s.route))
             j == Len(u.ran)
  <2>1. /\ b \in Nat /\ l \in Nat /\ Len(c) = b + l + 1
        /\ \A i \in 1 .. b : c[i].kind \in {"middleware", "guard"}
        /\ \A i \in 1 .. l : c[b + i].kind = "interceptor"
        /\ c[Len(c)] = MainHandler
    BY <1>9, ChainParts
  <2>2. Len(s.ran) \in Nat
    BY <1>1, SeqFields
  <2>3. j \in 1 .. Len(c) /\ c[j].kind = "main"
    BY <2>1, <2>2, <1>10
  <2> HIDE DEF c, b, l, j
  <2>4. j \notin 1 .. b
    BY <2>1, <2>3
  <2>5. ASSUME j > b, j <= b + l PROVE FALSE
    <3>1. j - b \in 1 .. l /\ b + (j - b) = j
      BY <2>1, <2>3, <2>5
    <3> QED BY <3>1, <2>1, <2>3
  <2>6. j = Len(c)
    BY <2>1, <2>3, <2>4, <2>5
  <2> QED BY <2>1, <2>6, <1>10 DEF c, j
<1>12. Head(s.todo).name = "main"
  BY <1>11 DEF MainHandler
<1>13. ASSUME NEW k2 \in Codes, k2 = k \/ (o = "status" /\ k2 = 202) PROVE Good(v, k2)
  <2>1. CASE p = "end"
    BY <2>1, <1>8, <1>9, EndsGood
  <2>2. CASE p = "post"
    <3>1. Twice(v) \/ Own(v, k2)
      <4>1. CASE k2 = k
        BY <4>1, <1>9 DEF Own
      <4>2. CASE o = "status" /\ k2 = 202
        <5>1. Len(s.ran) \in Nat
          BY <1>1, SeqFields
        <5>2. Len(u.ran) \in 1 .. Len(v.ran) /\ v.ran[Len(u.ran)] = <<"main", "status">>
          BY <4>2, <5>1, <1>8, <1>10, <1>12
        <5> QED BY <4>2, <5>2 DEF Own
      <4> QED BY <4>1, <4>2, <1>13
    <3> QED BY <2>2, <3>1, <1>8, <1>9, PostGood
  <2> QED BY <2>1, <2>2, <1>4
<1>14. v.ran = Ran(s, o, FALSE).ran
  BY <1>8 DEF u, n
<1> QED BY <1>7, <1>8, <1>9, <1>11, <1>12, <1>13, <1>14 DEF AfterMain, p, d, v

Folded(s, d) == [s EXCEPT !.aggs = Front(s.aggs), !.data = d]

\* What one aggregation changes of a request.
LEMMA FoldedFields ==
    ASSUME NEW s \in Request, s.aggs # <<>>, NEW d \in Seq(Datum)
    PROVE  /\ Alike(Folded(s, d), s) /\ Folded(s, d).pc = s.pc /\ Folded(s, d).data = d
           /\ Folded(s, d).aggs = Front(s.aggs) /\ Folded(s, d).isNext = s.isNext
<1> DEFINE t == Folded(s, d)
           as == Front(s.aggs)
<1>1. s.aggs \in Seq(Agg)
  BY SeqFields
<1>2. as \in Seq(Agg)
  BY <1>1 DEF Front
<1>3. t = [s EXCEPT !.aggs = as, !.data = d]
  BY DEF Folded
<1> HIDE DEF as, t, Layer, Mark, Agg, Reply, Names, Datum, Codes
<1>4. /\ t \in Request /\ t.ctx = s.ctx /\ t.route = s.route /\ t.rec = s.rec
      /\ t.caught = s.caught /\ t.answers = s.answers /\ t.todo = s.todo /\ t.ran = s.ran
      /\ t.pc = s.pc /\ t.data = d /\ t.aggs = as /\ t.isNext = s.isNext
  BY <1>2, <1>3 DEF Request
<1> QED BY <1>4 DEF Alike, t, as

\* An aggregation changes the data, or panics.
LEMMA AggregateGood ==
    ASSUME Registered, phase = "serving",
           NEW s, NEW k, Good(s, k), s.pc = "post", s.aggs # <<>>
    PROVE  /\ \A d \in Seq(Datum) : /\ Good(Folded(s, d), k)
                                    /\ Folded(s, d).pc # "idle" /\ Folded(s, d).ctx = s.ctx
           /\ Good(Panic(s, 500), k) /\ Panic(s, 500).pc # "idle" /\ Panic(s, 500).ctx = s.ctx
<1>1. s \in Request /\ k \in Codes
  BY DEF Good
<1>2. Unanswered(s) /\ s.rec = OK /\ (Twice(s) \/ Own(s, k))
  BY PostGood
<1>3. 500 \in Codes
  BY DEF Codes
<1>4. /\ Good(Panic(s, 500), k) /\ Panic(s, 500).pc = "catch" /\ Panic(s, 500).ctx = s.ctx
  BY <1>1, <1>2, <1>3, PanicGood
<1>5. ASSUME NEW d \in Seq(Datum)
      PROVE  Good(Folded(s, d), k) /\ Folded(s, d).pc # "idle" /\ Folded(s, d).ctx = s.ctx
  <2> DEFINE t == Folded(s, d)
  <2>1. Alike(t, s) /\ t.pc = "post"
    BY <1>1, FoldedFields
  <2> HIDE DEF t
  <2>2. Unanswered(t) /\ t.rec = OK /\ (Twice(t) \/ Own(t, k))
    BY <2>1, <1>2, PostGood
  <2>3. Good(t, k)
    BY <2>1, <2>2, <1>1, PostGood
  <2>4. t.ctx = s.ctx
    BY <2>1 DEF Alike
  <2> QED BY <2>1, <2>3, <2>4 DEF t
<1> QED BY <1>4, <1>5

Ended(s) == [s EXCEPT !.pc = "end"]

\* The data are not written, written, or their writing panics.
LEMMA ReturnGood ==
    ASSUME Registered, phase = "serving",
           NEW s, NEW k, Good(s, k), s.pc = "post"
    PROVE  /\ \A k2 \in Codes : \A status \in Codes :
                 Good(Answer(Ended(s), "serve", status, <<>>), k2)
           /\ Good(Ended(s), k)
           /\ \A value \in Seq(Datum) : Good(Answer(Ended(s), "main", k, value), k)
           /\ Good(Panic(Ended(s), 500), k)
<1> DEFINE t == Ended(s)
<1>1. s \in Request /\ k \in Codes
  BY DEF Good
<1>2. Unanswered(s) /\ s.rec = OK /\ (Twice(s) \/ Own(s, k))
  BY PostGood
<1>3. /\ t \in Request /\ t.pc = "end"
      /\ t.ctx = s.ctx /\ t.route = s.route /\ t.rec = s.rec
      /\ t.caught = s.caught /\ t.answers = s.answers /\ t.todo = s.todo /\ t.ran = s.ran
  BY <1>1, EndFields DEF Ended
<1> HIDE DEF t
<1>4. Alike(t, s)
  BY <1>3 DEF Alike
<1>5. Unanswered(t) /\ t.rec = OK /\ (Twice(t) \/ Own(t, k))
  BY <1>2, <1>4, PostGood
<1>6. 500 \in Codes /\ <<>> \in Seq(Datum) /\ "main" \in Names
  BY DEF Codes, Names
<1>7. Good(t, k)
  BY <1>1, <1>3, <1>5, EndsGood
<1>8. Good(Panic(t, 500), k)
  BY <1>1, <1>5, <1>6, PanicGood
<1>9. ASSUME NEW value \in Seq(Datum) PROVE Good(Answer(t, "main", k, value), k)
  <2> DEFINE by == "main"
  <2>1. by \in Names \cup {"middleware", "http", "serve"}
    BY <1>6
  <2> HIDE DEF by
  <2>2. Good(Answer(t, by, k, value), k)
    BY <2>1, <1>1, <1>3, <1>5, EndsGood
  <2> QED BY <2>2 DEF by
<1>10. ASSUME NEW k2 \in Codes, NEW status \in Codes
       PROVE  Good(Answer(t, "serve", status, <<>>), k2)
  <2> DEFINE by == "serve"
             value == <<>>
  <2>1. by \in Names \cup {"middleware", "http", "serve"} /\ by # "main" /\ value \in Seq(Datum)
    BY <1>6
  <2> HIDE DEF by, value
  <2>2. Good(Answer(t, by, status, value), k2)
    BY <2>1, <1>3, <1>5, EndsGood
  <2> QED BY <2>2 DEF by, value
<1> QED BY <1>7, <1>8, <1>9, <1>10 DEF t

\* An answer and a panic leave the request's context as it is, and the request served.
LEMMA ContextKept ==
    ASSUME NEW s \in Request, s.pc # "idle"
    PROVE  /\ \A by, status, value : /\ Answer(s, by, status, value).ctx = s.ctx
                                     /\ Answer(s, by, status, value).pc = s.pc
           /\ \A rec : Panic(s, rec).ctx = s.ctx /\ Panic(s, rec).pc # "idle"
           /\ Ended(s).ctx = s.ctx /\ Ended(s).pc = "end" /\ Ended(s) \in Request
<1> HIDE DEF Layer, Mark, Agg, Reply, Names, Datum, Codes
<1>1. ASSUME NEW by, NEW status, NEW value
      PROVE  Answer(s, by, status, value).ctx = s.ctx /\ Answer(s, by, status, value).pc = s.pc
  <2> DEFINE a == Append(s.answers, [by |-> by, code |-> status, value |-> value])
  <2>1. Answer(s, by, status, value) = [s EXCEPT !.answers = a]
    BY DEF Answer
  <2> HIDE DEF a
  <2> QED BY <2>1 DEF Request
<1>2. ASSUME NEW rec PROVE Panic(s, rec).ctx = s.ctx /\ Panic(s, rec).pc # "idle"
  BY DEF Request, Panic
<1>3. Ended(s).ctx = s.ctx /\ Ended(s).pc = "end" /\ Ended(s) \in Request
  BY EndFields DEF Ended
<1> QED BY <1>1, <1>2, <1>3

Caught(s, o) == [s EXCEPT !.caught = Append(@, <<Head(s.catchFns), o>>)]
Passed(s, o) ==
    [Caught(s, o) EXCEPT !.catchFns = Tail(@), !.rec = 500,
                         !.pc = IF Len(Caught(s, o).catchFns) = 1 THEN "end" ELSE "catch"]

\* A filter is called: it is the next of the chain, and the last only when it is the
\* default one.
LEMMA CaughtFields ==
    ASSUME NEW s \in Request, s.route \in Routes, Catching(s), s.pc = "catch",
           NEW o \in {"answer", "panic"}, o \in Outcomes[Head(s.catchFns)]
    PROVE  LET v == Caught(s, o)
               f == Filters(s.route) IN
           /\ v \in Request
           /\ v.pc = s.pc /\ v.ctx = s.ctx /\ v.route = s.route /\ v.todo = s.todo
           /\ v.isNext = s.isNext /\ v.ran = s.ran /\ v.answers = s.answers
           /\ v.catchFns = s.catchFns /\ v.rec = s.rec
           /\ Head(s.catchFns) \in Names /\ Head(s.catchFns) # "main"
           /\ Len(v.caught) = Len(s.caught) + 1
           /\ Len(v.caught) <= Len(f)
           /\ v.caught # <<>>
           /\ Last(v.caught)[1] = Head(s.catchFns) /\ Last(v.caught)[2] = o
           /\ \A i \in 1 .. Len(v.caught) : v.caught[i][1] = f[i]
           /\ o = "panic" => /\ Len(s.catchFns) > 1
                             /\ Tail(s.catchFns) \in Seq(Names) /\ Tail(s.catchFns) # <<>>
                             /\ Len(v.caught) + Len(Tail(s.catchFns)) = Len(f)
                             /\ \A i \in 1 .. Len(Tail(s.catchFns)) :
                                   Tail(s.catchFns)[i] = f[Len(v.caught) + i]
<1> DEFINE v == Caught(s, o)
           f == Filters(s.route)
           h == s.catchFns
           m == <<Head(h), o>>
           cs == Append(s.caught, m)
<1>1. h \in Seq(Names) /\ Len(h) \in Nat /\ s.caught \in Seq(Mark) /\ Len(s.caught) \in Nat
  BY SeqFields
<1>2. /\ h # <<>>
      /\ Len(s.caught) + Len(h) = Len(f)
      /\ \A i \in 1 .. Len(s.caught) : s.caught[i][1] = f[i]
      /\ \A i \in 1 .. Len(h) : h[i] = f[Len(s.caught) + i]
  BY DEF Catching
<1>3. /\ f \in Seq(Names) /\ Len(f) \in Nat
      /\ f[Len(f)] = DefaultFilter
      /\ \A i \in 1 .. Len(f) : f[i] # "main"
  BY FiltersFacts
<1>4. Head(h) \in Names /\ Len(h) >= 1 /\ Head(h) = h[1]
  BY <1>1, <1>2
<1>5. m \in Mark /\ m[1] = Head(h) /\ m[2] = o
  BY <1>4 DEF Mark, Outs
<1>6. /\ cs \in Seq(Mark) /\ Len(cs) = Len(s.caught) + 1
      /\ \A i \in 1 .. Len(s.caught) : cs[i] = s.caught[i]
      /\ cs[Len(cs)] = m
  <2> HIDE DEF m
  <2> QED BY <1>1, <1>5, AppendProperties
<1>7. v = [s EXCEPT !.caught = cs]
  BY DEF Caught
<1>8. cs # <<>> /\ Last(cs) = m
  <2> HIDE DEF cs, m
  <2>1. Len(cs) # 0
    BY <1>1, <1>6
  <2> QED BY <2>1, <1>6 DEF Last
<1> HIDE DEF v, f, h, m, cs
<1>9. /\ v \in Request
      /\ v.pc = s.pc /\ v.ctx = s.ctx /\ v.route = s.route /\ v.todo = s.todo
      /\ v.isNext = s.isNext /\ v.ran = s.ran /\ v.answers = s.answers
      /\ v.catchFns = s.catchFns /\ v.rec = s.rec /\ v.caught = cs
  <2> HIDE DEF Layer, Mark, Agg, Reply, Names, Datum, Codes
  <2>1. cs \in Seq(Mark)
    BY <1>6
  <2> QED BY <2>1, <1>7 DEF Request
<1>10. Head(h) = f[Len(cs)] /\ Len(cs) <= Len(f) /\ Len(cs) >= 1
  <2>1. 1 \in 1 .. Len(h)
    BY <1>1, <1>4
  <2>2. h[1] = f[Len(s.caught) + 1]
    BY <2>1, <1>2
  <2>3. Len(cs) <= Len(f) /\ Len(cs) >= 1
    BY <1>1, <1>2, <1>4, <1>6
  <2> QED BY <2>2, <2>3, <1>4, <1>6
<1>11. Head(h) # "main"
  <2>1. Len(cs) \in 1 .. Len(f)
    BY <1>1, <1>3, <1>6, <1>10
  <2> QED BY <2>1, <1>3, <1>10
<1>12. ASSUME NEW i \in 1 .. Len(cs) PROVE cs[i][1] = f[i]
  <2>1. i \in 1 .. Len(s.caught) \/ i = Len(cs)
    BY <1>1, <1>6
  <2>2. CASE i \in 1 .. Len(s.caught)
    BY <2>2, <1>2, <1>6
  <2>3. CASE i = Len(cs)
    BY <2>3, <1>5, <1>6, <1>10
  <2> QED BY <2>1, <2>2, <2>3
<1>13. ASSUME o = "panic"
       PROVE  /\ Len(h) > 1
              /\ Tail(h) \in Seq(Names) /\ Tail(h) # <<>>
              /\ Len(cs) + Len(Tail(h)) = Len(f)
              /\ \A i \in 1 .. Len(Tail(h)) : Tail(h)[i] = f[Len(cs) + i]
  <2>1. Len(h) # 1
    <3> SUFFICES ASSUME Len(h) = 1 PROVE FALSE
      OBVIOUS
    <3>1. Len(cs) = Len(f)
      BY <1>1, <1>2, <1>6
    <3>2. Head(h) = DefaultFilter
      BY <3>1, <1>3, <1>10
    <3>3. Outcomes[Head(h)] = {"answer"}
      BY <3>2, PipelineAssumption
    <3> QED BY <3>3, <1>13 DEF h
  <2>2. Len(h) > 1
    <3>1. Len(h) \in Nat /\ Len(h) >= 1
      BY <1>1, <1>4
    <3> DEFINE n == Len(h)
    <3> HIDE DEF n
    <3>2. n \in Nat /\ n >= 1 /\ n # 1 => n > 1
      OBVIOUS
    <3> QED BY <3>1, <3>2, <2>1 DEF n
  <2>3. /\ Tail(h) \in Seq(Names) /\ Len(Tail(h)) = Len(h) - 1
        /\ \A i \in 1 .. Len(h) - 1 : Tail(h)[i] = h[i + 1]
    BY <1>1, <1>2
  <2>4. Tail(h) # <<>>
    <3>1. Len(Tail(h)) # 0
      BY <2>2, <2>3, <1>1, SMTT(30)
    <3>2. \A e : e = <<>> => Len(e) = 0
      OBVIOUS
    <3> QED BY <3>1, <3>2, Zenon
  <2>5. Len(cs) + Len(Tail(h)) = Len(f)
    BY <2>3, <1>1, <1>2, <1>6
  <2>6. ASSUME NEW i \in 1 .. Len(Tail(h)) PROVE Tail(h)[i] = f[Len(cs) + i]
    <3>1. Tail(h)[i] = h[i + 1] /\ i + 1 \in 1 .. Len(h)
      BY <2>3, <1>1
    <3>2. Len(s.caught) + (i + 1) = Len(cs) + i
      <4>1. i \in Int /\ Len(s.caught) \in Nat /\ Len(cs) = Len(s.caught) + 1
        BY <1>1, <1>6
      <4> DEFINE n == Len(s.caught)
      <4> HIDE DEF n
      <4>2. i \in Int /\ n \in Nat => n + (i + 1) = (n + 1) + i
        OBVIOUS
      <4> QED BY <4>1, <4>2 DEF n
    <3> QED BY <3>1, <3>2, <1>2
  <2> QED BY <2>2, <2>3, <2>4, <2>5, <2>6
<1> QED BY <1>4, <1>5, <1>6, <1>8, <1>9, <1>10, <1>11, <1>12, <1>13 DEF v, f, h

\* RunHTTPCatchChain: a filter answers, or leaves its panic to the next one.
LEMMA CatchGood ==
    ASSUME NEW s, NEW k, Good(s, k), s.pc = "catch",
           NEW o \in {"answer", "panic"}, o \in Outcomes[Head(s.catchFns)]
    PROVE  /\ o = "panic" => Good(Passed(s, o), k) /\ Passed(s, o).pc = "catch"
                             /\ Passed(s, o).ctx = s.ctx
           /\ o # "panic" => Good(Answer(Ended(Caught(s, o)), Head(s.catchFns), s.rec, <<>>), s.rec)
           /\ Caught(s, o) \in Request /\ Caught(s, o).ctx = s.ctx /\ Caught(s, o).pc = s.pc
           /\ Caught(s, o).rec = s.rec /\ s.rec \in Codes
<1> DEFINE v == Caught(s, o)
           f == Filters(s.route)
<1>1. /\ s \in Request /\ k \in Codes /\ Routed(s) /\ Follows(s) /\ GoneOn(s) /\ Catching(s)
      /\ Answering(s) /\ NoDataYet(s) /\ Coded(s, k)
  BY DEF Good
<1>2. s.route \in Routes /\ s.rec \in Codes /\ s.catchFns \in Seq(Names)
  BY <1>1, SeqFields DEF Routed
<1>3. /\ v \in Request
      /\ v.pc = s.pc /\ v.ctx = s.ctx /\ v.route = s.route /\ v.todo = s.todo
      /\ v.isNext = s.isNext /\ v.ran = s.ran /\ v.answers = s.answers
      /\ v.catchFns = s.catchFns /\ v.rec = s.rec
      /\ Head(s.catchFns) \in Names /\ Head(s.catchFns) # "main"
      /\ Len(v.caught) <= Len(f)
      /\ v.caught # <<>>
      /\ Last(v.caught)[1] = Head(s.catchFns) /\ Last(v.caught)[2] = o
      /\ \A i \in 1 .. Len(v.caught) : v.caught[i][1] = f[i]
      /\ o = "panic" => /\ Len(s.catchFns) > 1
                        /\ Tail(s.catchFns) \in Seq(Names) /\ Tail(s.catchFns) # <<>>
                        /\ Len(v.caught) + Len(Tail(s.catchFns)) = Len(f)
                        /\ \A i \in 1 .. Len(Tail(s.catchFns)) :
                              Tail(s.catchFns)[i] = f[Len(v.caught) + i]
  BY <1>1, <1>2, CaughtFields
<1>4. /\ s.answers = <<>> \/ Twice(s)
      /\ \A i \in 1 .. Len(s.answers) : s.answers[i].by # "main"
      /\ \A i \in 1 .. Len(s.ran) - 1 : s.ran[i][2] \in GoesOn
  BY <1>1 DEF Answering, NoDataYet, GoneOn
<1> HIDE DEF v
<1>5. ASSUME o = "panic"
      PROVE  Good(Passed(s, o), k) /\ Passed(s, o).pc = "catch" /\ Passed(s, o).ctx = s.ctx
  <2> DEFINE t == Passed(s, o)
             d == Tail(s.catchFns)
             p == IF Len(v.catchFns) = 1 THEN "end" ELSE "catch"
             e == 500
  <2>0. p = "catch"
    BY <1>3, <1>5, SMTT(30)
  <2>1. t = [v EXCEPT !.catchFns = d, !.rec = e, !.pc = p]
    BY <1>3 DEF Passed, v
  <2>2. /\ d \in Seq(Names) /\ d # <<>> /\ Len(v.caught) + Len(d) = Len(f)
        /\ \A i \in 1 .. Len(d) : d[i] = f[Len(v.caught) + i]
    BY <1>3, <1>5
  <2>3. e \in Codes
    BY DEF Codes
  <2> HIDE DEF t, d, p, f, e
  <2>4. /\ t \in Request /\ t.pc = "catch" /\ t.catchFns = d
        /\ t.ctx = v.ctx /\ t.route = v.route /\ t.todo = v.todo /\ t.ran = v.ran
        /\ t.answers = v.answers /\ t.caught = v.caught
    <3> HIDE DEF Layer, Mark, Agg, Reply, Names, Datum, Codes
    <3>1. d \in Seq(Names)
      BY <2>2
    <3>2. v \in Request
      BY <1>3
    <3> QED BY <3>1, <3>2, <2>0, <2>1, <2>3 DEF Request
  <2>5. Follows(t) /\ (Twice(t) <=> Twice(s)) /\ GoneOn(t)
    BY <2>4, <1>1, <1>3, <1>4, SameChain DEF GoneOn, Chaining
  <2>6. Routed(t) /\ NoDataYet(t)
    BY <2>4, <1>2, <1>3, <1>4 DEF Routed, NoDataYet, Starting
  <2>7. Answering(t)
    <3>1. CASE Twice(s)
      BY <3>1, <2>5 DEF Answering
    <3>2. CASE s.answers = <<>>
      BY <3>2, <2>4, <1>3 DEF Answering, Chaining
    <3> QED BY <3>1, <3>2, <1>4
  <2>8. Coded(t, k)
    BY <2>4, <1>3, <1>4 DEF Coded
  <2>9. Catching(t)
    BY <2>2, <2>4, <1>3 DEF Catching, f
  <2> QED BY <2>4, <2>5, <2>6, <2>7, <2>8, <2>9, <1>1, <1>3 DEF Good, t
<1>6. ASSUME o # "panic"
      PROVE  Good(Answer(Ended(Caught(s, o)), Head(s.catchFns), s.rec, <<>>), s.rec)
  <2> DEFINE u == Ended(v)
             by == Head(s.catchFns)
             value == <<>>
             t == Answer(u, by, s.rec, value)
  <2>0. o = "answer"
    BY <1>6
  <2>1. /\ u \in Request /\ u.pc = "end"
        /\ u.ctx = v.ctx /\ u.route = v.route /\ u.todo = v.todo /\ u.ran = v.ran
        /\ u.answers = v.answers /\ u.caught = v.caught
    BY <1>3, EndFields DEF Ended
  <2>2. by \in Names \cup {"middleware", "http", "serve"} /\ by # "main" /\ value \in Seq(Datum)
    BY <1>3
  <2> HIDE DEF u, by, value
  <2>3. Replied(u, t, by, s.rec, value)
    BY <2>1, <2>2, <1>2, AnswerFields
  <2> HIDE DEF t
  <2>4. /\ t \in Request /\ t.pc = "end" /\ t.route = s.route /\ t.todo = s.todo
        /\ t.ran = s.ran /\ t.caught = v.caught
        /\ Len(t.answers) = Len(s.answers) + 1
        /\ \A i \in 1 .. Len(s.answers) : t.answers[i] = s.answers[i]
        /\ t.answers[Len(s.answers) + 1].by = by
    BY <2>1, <2>3, <1>3 DEF Replied
  <2>5. Len(s.answers) \in Nat /\ (s.answers = <<>> => Len(s.answers) = 0)
    BY <1>1, SeqFields
  <2>6. Follows(t) /\ (Twice(t) <=> Twice(s)) /\ GoneOn(t)
    BY <2>4, <1>1, <1>4, SameChain DEF GoneOn, Chaining
  <2>7. Routed(t) /\ NoDataYet(t)
    BY <2>4 DEF Routed, NoDataYet, Starting
  <2>8. Answering(t)
    BY <2>4, <2>5, <2>6, <1>4 DEF Answering, Chaining
  <2>9. \A i \in 1 .. Len(t.answers) : t.answers[i].by # "main"
    <3> TAKE i \in 1 .. Len(t.answers)
    <3>1. i \in 1 .. Len(s.answers) \/ i = Len(s.answers) + 1
      BY <2>4, <2>5
    <3> QED BY <3>1, <2>2, <2>4, <1>4
  <2>10. Coded(t, s.rec)
    BY <2>4, <2>9 DEF Coded
  <2>11. Catching(t)
    <3>1. Last(t.answers) = t.answers[Len(s.answers) + 1]
      BY <2>4 DEF Last
    <3>2. Last(t.answers).by = Last(t.caught)[1]
      BY <3>1, <2>4, <1>3 DEF by
    <3> HIDE DEF f
    <3>3. Last(t.caught)[2] = "answer" /\ t.caught # <<>> /\ Len(t.caught) <= Len(f)
          /\ \A i \in 1 .. Len(t.caught) : t.caught[i][1] = f[i]
      BY <2>0, <2>4, <1>3
    <3> QED BY <3>2, <3>3, <2>4, <1>2 DEF Catching, f
  <2>12. Good(t, s.rec)
    BY <2>4, <2>6, <2>7, <2>8, <2>10, <2>11, <1>2 DEF Good
  <2> QED BY <2>12 DEF t, u, v, by, value
<1> QED BY <1>2, <1>3, <1>5, <1>6 DEF v

\* The loop over the handlers ends, or the version's extractor panics: 404 and 410 are
\* answered when no middleware stopped.
LEMMA ChainEndGood ==
    ASSUME NEW s, NEW k, Good(s, k), s.pc \in {"match", "gone", "notFound", "route"},
           NEW k2 \in Codes
    PROVE  /\ Good(Ended(s), k2)
           /\ s.isNext => \A status \in Codes : Good(Answer(Ended(s), "http", status, <<>>), k2)
<1> DEFINE u == Ended(s)
<1>1. /\ s \in Request /\ k \in Codes /\ Routed(s) /\ Follows(s) /\ GoneOn(s) /\ Catching(s)
      /\ Answering(s) /\ NoDataYet(s) /\ Coded(s, k)
  BY DEF Good
<1>2. /\ u \in Request /\ u.pc = "end" /\ u.route = s.route /\ u.todo = s.todo
      /\ u.ran = s.ran /\ u.answers = s.answers /\ u.rec = s.rec
  BY <1>1, EndFields DEF Ended
<1>3. s.rec = OK
  BY <1>1 DEF Catching
<1>4. /\ \A i \in 1 .. Len(s.answers) : s.answers[i].by # "main"
      /\ \A i \in 1 .. Len(s.ran) - 1 : s.ran[i][2] \in GoesOn
  BY <1>1 DEF NoDataYet, GoneOn
<1>5. Len(s.answers) \in Nat /\ (s.answers = <<>> => Len(s.answers) = 0)
  BY <1>1, SeqFields
<1>6. /\ Twice(s) \/ Len(s.answers) <= 1
      /\ s.isNext => Twice(s) \/ s.answers = <<>>
  <2>1. CASE s.pc = "match"
    BY <2>1, <1>1, <1>5 DEF Routed, Starting
  <2>2. CASE s.pc # "match"
    BY <2>2, <1>1 DEF Answering, Chaining
  <2> QED BY <2>1, <2>2
<1> HIDE DEF u
<1>7. ASSUME NEW t \in Request, t.pc = "end", t.rec = OK, t.route = s.route, t.todo = s.todo,
             t.ran = s.ran, Twice(s) \/ Len(t.answers) <= 1,
             \A i \in 1 .. Len(t.answers) : t.answers[i].by # "main"
      PROVE  Good(t, k2)
  <2>1. Follows(t) /\ (Twice(t) <=> Twice(s))
    BY <1>1, <1>7, SameChain
  <2>2. Routed(t) /\ GoneOn(t) /\ Catching(t) /\ NoDataYet(t)
    BY <1>4, <1>7 DEF Routed, GoneOn, Catching, NoDataYet, Starting, Chaining
  <2>3. Answering(t)
    BY <1>7, <2>1 DEF Answering, Chaining
  <2>4. Coded(t, k2)
    BY <1>7 DEF Coded
  <2> QED BY <1>7, <2>1, <2>2, <2>3, <2>4 DEF Good
<1>8. Good(u, k2)
  BY <1>2, <1>3, <1>4, <1>6, <1>7
<1>9. ASSUME s.isNext, NEW status \in Codes PROVE Good(Answer(u, "http", status, <<>>), k2)
  <2> DEFINE by == "http"
             value == <<>>
             t == Answer(u, by, status, value)
  <2>1. by \in Names \cup {"middleware", "http", "serve"} /\ by # "main" /\ value \in Seq(Datum)
    OBVIOUS
  <2> HIDE DEF by, value
  <2>2. Replied(u, t, by, status, value)
    BY <2>1, <1>2, AnswerFields
  <2> HIDE DEF t
  <2>3. /\ t \in Request /\ t.pc = "end" /\ t.rec = OK /\ t.route = s.route /\ t.todo = s.todo
        /\ t.ran = s.ran
        /\ Len(t.answers) = Len(s.answers) + 1
        /\ \A i \in 1 .. Len(s.answers) : t.answers[i] = s.answers[i]
        /\ t.answers[Len(s.answers) + 1].by = by
    BY <2>2, <1>2, <1>3 DEF Replied
  <2>4. Twice(s) \/ Len(t.answers) <= 1
    BY <2>3, <1>5, <1>6, <1>9
  <2>5. \A i \in 1 .. Len(t.answers) : t.answers[i].by # "main"
    <3> TAKE i \in 1 .. Len(t.answers)
    <3>1. i \in 1 .. Len(s.answers) \/ i = Len(s.answers) + 1
      BY <2>3, <1>5
    <3> QED BY <3>1, <2>1, <2>3, <1>4
  <2>6. Good(t, k2)
    BY <2>3, <2>4, <2>5, <1>7
  <2> QED BY <2>6 DEF t, by, value
<1> QED BY <1>8, <1>9 DEF u

Started(s, p, r, m) == [s EXCEPT !.pc = p, !.route = r, !.todo = m]

\* What the start of a loop over handlers changes of a request.
LEMMA StartedFields ==
    ASSUME NEW s \in Request, NEW p \in {"handshake", "gone", "notFound", "route"},
           NEW r \in Routes \cup {None}, NEW m \in Seq(Layer)
    PROVE  LET t == Started(s, p, r, m) IN
           /\ t \in Request /\ t.pc = p /\ t.route = r /\ t.todo = m
           /\ t.ctx = s.ctx /\ t.isNext = s.isNext /\ t.aggs = s.aggs /\ t.rec = s.rec
           /\ t.ran = s.ran /\ t.caught = s.caught /\ t.answers = s.answers
<1> HIDE DEF Layer, Mark, Agg, Reply, Names, Datum, Codes
<1> DEFINE t == Started(s, p, r, m)
<1>2. t = [s EXCEPT !.pc = p, !.route = r, !.todo = m]
  BY DEF Started
<1> HIDE DEF t
<1>3. /\ t \in Request /\ t.pc = p /\ t.route = r /\ t.todo = m
      /\ t.ctx = s.ctx /\ t.isNext = s.isNext /\ t.aggs = s.aggs /\ t.rec = s.rec
      /\ t.ran = s.ran /\ t.caught = s.caught /\ t.answers = s.answers
  BY <1>2 DEF Request
<1> QED BY <1>3 DEF t

\* handleRequest and Handshake start the loop over the handlers: those of the matched
\* route, or middlewares only.
LEMMA StartGood ==
    ASSUME NEW s, NEW k, Good(s, k), s.pc \in {"upgrade", "match"}
    PROVE  /\ \A p \in {"handshake", "gone", "notFound"} : \A m \in Seq(Layer) : \A k2 \in Codes :
                 (\A i \in 1 .. Len(m) : m[i].kind = "middleware") =>
                     Good(Started(s, p, None, m), k2)
           /\ \A r \in Routes : Good(Started(s, "route", r, Chain(r)), StatusOf(r))
           /\ k = OK /\ s.route = None
<1>1. /\ s \in Request /\ k \in Codes /\ Routed(s) /\ Catching(s) /\ Coded(s, k)
  BY DEF Good
<1>2. /\ s.route = None /\ s.ran = <<>> /\ s.answers = <<>> /\ s.isNext
      /\ s.caught = <<>> /\ s.rec = OK /\ k = OK
  BY <1>1 DEF Routed, Catching, Coded, Starting
<1>3. ASSUME NEW t \in Request, t.pc \in {"handshake", "gone", "notFound", "route"},
             t.ran = <<>>, t.answers = <<>>, t.caught = <<>>, t.rec = OK
      PROVE  GoneOn(t) /\ Catching(t) /\ Answering(t) /\ NoDataYet(t) /\ ~Twice(t)
             /\ Len(t.ran) = 0 /\ Len(t.answers) = 0
  <2>1. Len(t.ran) = 0 /\ Len(t.answers) = 0
    BY <1>3
  <2>2. GoneOn(t) /\ NoDataYet(t) /\ ~Twice(t)
    BY <2>1 DEF GoneOn, NoDataYet, Twice
  <2>3. Catching(t) /\ Answering(t)
    BY <2>1, <1>3 DEF Catching, Answering
  <2> QED BY <2>1, <2>2, <2>3
<1>4. ASSUME NEW p \in {"handshake", "gone", "notFound"}, NEW m \in Seq(Layer), NEW k2 \in Codes,
             \A i \in 1 .. Len(m) : m[i].kind = "middleware"
      PROVE  Good(Started(s, p, None, m), k2)
  <2> DEFINE t == Started(s, p, None, m)
  <2>1. /\ t \in Request /\ t.pc = p /\ t.route = None /\ t.todo = m
        /\ t.rec = OK /\ t.ran = <<>> /\ t.caught = <<>> /\ t.answers = <<>>
    <3> DEFINE none == None
    <3>1. p \in {"handshake", "gone", "notFound", "route"} /\ none \in Routes \cup {None}
      OBVIOUS
    <3> HIDE DEF none, t
    <3>2. LET u == Started(s, p, none, m) IN
          /\ u \in Request /\ u.pc = p /\ u.route = none /\ u.todo = m
          /\ u.ctx = s.ctx /\ u.isNext = s.isNext /\ u.aggs = s.aggs /\ u.rec = s.rec
          /\ u.ran = s.ran /\ u.caught = s.caught /\ u.answers = s.answers
      BY ONLY <3>1, <1>1, StartedFields, m \in Seq(Layer)
    <3>3. t = Started(s, p, none, m) /\ none = None
      BY DEF t, none
    <3> QED BY <3>2, <3>3, <1>2
  <2> HIDE DEF t
  <2>2. /\ GoneOn(t) /\ Catching(t) /\ Answering(t) /\ NoDataYet(t) /\ ~Twice(t)
        /\ Len(t.answers) = 0
    BY <2>1, <1>3
  <2>3. Routed(t)
    BY <2>1, <1>4 DEF Routed, Starting
  <2>4. Follows(t) /\ Coded(t, k2)
    BY <2>1, <2>2 DEF Follows, Coded
  <2> QED BY <2>1, <2>2, <2>3, <2>4 DEF Good, t
<1>5. ASSUME NEW r \in Routes PROVE Good(Started(s, "route", r, Chain(r)), StatusOf(r))
  <2> DEFINE p == "route"
             c == Chain(r)
             t == Started(s, p, r, c)
  <2>0. r # None
    BY PipelineAssumption
  <2>1. c \in Seq(Layer) /\ Len(c) \in Nat /\ p \in {"handshake", "gone", "notFound", "route"}
    BY ChainParts
  <2>2. p = "route"
    OBVIOUS
  <2> HIDE DEF c, p
  <2>3. /\ t \in Request /\ t.pc = p /\ t.route = r /\ t.todo = c
        /\ t.rec = OK /\ t.ran = <<>> /\ t.caught = <<>> /\ t.answers = <<>>
    BY <2>1, <1>1, <1>2, StartedFields
  <2> HIDE DEF t
  <2>4. /\ GoneOn(t) /\ Catching(t) /\ Answering(t) /\ NoDataYet(t) /\ ~Twice(t)
        /\ Len(t.ran) = 0 /\ Len(t.answers) = 0
    BY <2>2, <2>3, <1>3
  <2>5. Routed(t)
    BY <2>2, <2>3 DEF Routed, Starting
  <2>6. Follows(t)
    <3>1. Len(t.ran) + Len(t.todo) = Len(c)
      BY <2>1, <2>3, <2>4
    <3>2. \A i \in 1 .. Len(t.todo) : t.todo[i] = c[Len(t.ran) + i]
      BY <2>1, <2>3, <2>4
    <3>3. \A i \in 1 .. Len(t.ran) : t.ran[i][1] = c[i].name
      BY <2>4
    <3> QED BY <3>1, <3>2, <3>3, <2>3 DEF Follows, c
  <2>7. Coded(t, StatusOf(r)) /\ StatusOf(r) \in Codes
    BY <2>2, <2>3, <2>4 DEF Coded, StatusOf, Codes
  <2> QED BY <2>3, <2>4, <2>5, <2>6, <2>7 DEF Good, t, p, c
<1> QED BY <1>2, <1>4, <1>5

\* A goroutine that serves nothing.
LEMMA IdleFields ==
    /\ Idle \in Request /\ Idle.pc = "idle" /\ Idle.ctx = None /\ Idle.route = None
    /\ Idle.aggs = <<>> /\ Idle.rec = OK /\ Idle.ran = <<>> /\ Idle.caught = <<>>
    /\ Idle.answers = <<>> /\ Idle.isNext
<1>1. OK \in Codes
  BY DEF Codes
<1> HIDE DEF Layer, Mark, Agg, Reply, Names, Datum, Codes, OK
<1> QED BY <1>1 DEF Request, Idle

Begun(c, path, p) == [Idle EXCEPT !.pc = p, !.ctx = c, !.path = path]

\* ServeHTTP begins with a request that nothing has happened to.
LEMMA AcceptGood ==
    ASSUME NEW c \in Contexts, NEW path \in Paths, NEW p \in {"upgrade", "match"}
    PROVE  /\ Good(Begun(c, path, p), OK)
           /\ Begun(c, path, p).pc = p /\ Begun(c, path, p).ctx = c
           /\ Begun(c, path, p).aggs = <<>> /\ Begun(c, path, p).answers = <<>>
<1> DEFINE t == Begun(c, path, p)
<1>2. OK \in Codes
  BY DEF Codes
<1>3. /\ t \in Request /\ t.pc = p /\ t.ctx = c /\ t.route = None /\ t.aggs = <<>>
      /\ t.rec = OK /\ t.ran = <<>> /\ t.caught = <<>> /\ t.answers = <<>> /\ t.isNext
  <2> HIDE DEF Layer, Mark, Agg, Reply, Names, Datum, Codes, Idle, OK
  <2> QED BY IdleFields DEF Request, Begun
<1> HIDE DEF t
<1>4. Len(t.ran) = 0 /\ Len(t.answers) = 0
  BY <1>3
<1>5. Routed(t) /\ Follows(t) /\ Catching(t)
  BY <1>3 DEF Routed, Follows, Catching
<1>6. GoneOn(t) /\ Answering(t) /\ NoDataYet(t) /\ Coded(t, OK)
  BY <1>3, <1>4 DEF GoneOn, Answering, NoDataYet, Coded, Chaining
<1> QED BY <1>2, <1>3, <1>5, <1>6 DEF Good, t

----------------------------------------------------------------------------
\* The fold of the interceptors.  Only an interceptor skips Pipe.
Marked(s) ==
    s.route # None => \A j \in 1 .. Len(s.ran) :
        s.ran[j][2] = "skip" => Chain(s.route)[j].kind = "interceptor"

\* The aggregations left are those of the first interceptors.
Kept(s) ==
    /\ Len(s.aggs) <= Len(Interceptors(s.route))
    /\ \A i \in 1 .. Len(s.aggs) :
          /\ s.aggs[i].name = Interceptors(s.route)[i]
          /\ Outer(s.route) + i <= Len(s.ran)
          /\ s.ran[Outer(s.route) + i][2] =
                IF s.aggs[i].isMainHandlerCalled THEN "pipe" ELSE "skip"

\* In the loop over the handlers each interceptor that ran has its aggregation.
Counted(s) ==
    s.isNext => /\ Len(s.ran) <= Outer(s.route) => Len(s.aggs) = 0
                /\ Len(s.ran) > Outer(s.route) => Len(s.aggs) = Len(s.ran) - Outer(s.route)

\* d is x followed by the names number m to n + 1.
Tells(d, x, names, n, m) ==
    /\ Len(d) = 1 + (m - n) /\ d[1] = x
    /\ \A j \in 1 .. m - n : d[1 + j] = names[m + 1 - j]

\* The interceptors whose aggregation is used up have called Pipe, and their names are
\* in the data, but for those before one that filtered the data out.
Told(s) ==
    LET names == Interceptors(s.route) n == Len(s.aggs) IN
    /\ Len(s.ran) = Len(Chain(s.route))
    /\ \A i \in n + 1 .. Len(names) : s.ran[Outer(s.route) + i][2] = "pipe"
    /\ \/ Tells(s.data, "main", names, n, Len(names))
       \/ Tells(s.data, "nil", names, n, Len(names)) /\ s.ran[Len(s.ran)] = <<"main", "none">>
       \/ \E m \in n .. Len(names) - 1 : Tells(s.data, "filtered", names, n, m)

\* value is the fold of the handler's data by the interceptors.
FoldOf(s, value) ==
    LET names == Interceptors(s.route)
        skipped == {i \in DOMAIN names : <<names[i], "skip">> \in Range(s.ran)}
    IN IF skipped # {}
       THEN \E i \in skipped : /\ \A j \in skipped : j <= i
                               /\ value = <<"own", names[i]>>
       ELSE \/ value = <<"main">> \o Reverse(names)
            \/ /\ value = <<"nil">> \o Reverse(names)
               /\ <<"main", "none">> \in Range(s.ran)
            \/ \E m \in 0 .. Len(names) - 1 :
                  value = <<"filtered">> \o Reverse(SubSeq(names, 1, m))

Folds(s) ==
    /\ Marked(s)
    /\ s.pc = "route" => Kept(s) /\ Counted(s)
    /\ s.pc = "post" => Kept(s) /\ Told(s)
    /\ \A i \in 1 .. Len(s.answers) :
          s.answers[i].by = "main" => s.route \in Routes /\ FoldOf(s, s.answers[i].value)

\* Requests without a route and without layers that ran.
LEMMA FoldsAtStart ==
    ASSUME NEW t \in Request, t.ran = <<>>, t.answers = <<>>, t.aggs = <<>>, t.pc # "post",
           t.pc = "route" => t.route \in Routes
    PROVE  Folds(t)
<1>1. Len(t.ran) = 0 /\ Len(t.answers) = 0 /\ Len(t.aggs) = 0
  OBVIOUS
<1>2. ASSUME t.pc = "route" PROVE Kept(t) /\ Counted(t)
  <2>1. Outer(t.route) \in Nat /\ Len(Interceptors(t.route)) \in Nat
    BY <1>2, ChainParts
  <2> QED BY <2>1, <1>1 DEF Kept, Counted
<1> QED BY <1>1, <1>2 DEF Folds, Marked

\* A request whose layers ran as those of s.
LEMMA FoldsLater ==
    ASSUME NEW s, Folds(s), NEW t, t.route = s.route, t.ran = s.ran, t.pc \notin {"route", "post"},
           \A i \in 1 .. Len(t.answers) : t.answers[i].by = "main" =>
               \/ t.route \in Routes /\ FoldOf(s, t.answers[i].value)
               \/ i \in 1 .. Len(s.answers) /\ t.answers[i] = s.answers[i]
    PROVE  Folds(t)
<1>1. Marked(t)
  BY DEF Folds, Marked
<1>2. \A v : FoldOf(t, v) <=> FoldOf(s, v)
  BY Zenon DEF FoldOf
<1>3. \A i \in 1 .. Len(t.answers) :
          t.answers[i].by = "main" => t.route \in Routes /\ FoldOf(t, t.answers[i].value)
  BY <1>2 DEF Folds
<1> QED BY <1>1, <1>3 DEF Folds

\* A layer runs.
LEMMA LayerFolds ==
    ASSUME NEW s, NEW k, Good(s, k), Folds(s), s.pc \in Chaining, s.isNext, s.todo # <<>>,
           NEW o \in Outs, o = "skip" => Head(s.todo).kind = "interceptor",
           NEW n \in BOOLEAN, n => o \in GoesOn,
           NEW t \in Request, t.route = s.route, t.ran = Ran(s, o, n).ran,
           \A i \in 1 .. Len(t.answers) : t.answers[i].by # "main"
    PROVE  /\ Marked(t)
           /\ t.pc \notin {"route", "post"} => Folds(t)
           /\ t.pc = s.pc /\ t.aggs = s.aggs /\ Head(s.todo).kind \in {"middleware", "guard"} =>
                 Folds(t)
<1> DEFINE u == Ran(s, o, n)
<1>1. /\ s \in Request /\ k \in Codes /\ Routed(s) /\ Follows(s) /\ GoneOn(s)
  BY DEF Good
<1>2. u = Ran(s, o, n)
  OBVIOUS
<1> HIDE DEF u
<1>3. /\ s.pc = "route" =>
            Head(s.todo) = Chain(s.route)[Len(u.ran)] /\ Len(u.ran) <= Len(Chain(s.route))
      /\ Len(u.ran) = Len(s.ran) + 1
      /\ u.ran[Len(u.ran)] = <<Head(s.todo).name, o>>
      /\ \A i \in 1 .. Len(s.ran) : u.ran[i] = s.ran[i]
  BY <1>1, <1>2, LayerRuns
<1>4. Len(s.ran) \in Nat /\ Len(s.aggs) \in Nat /\ t.ran = u.ran
  BY <1>1, <1>2, SeqFields
<1>5. s.pc # "route" => s.route = None
  BY <1>1 DEF Routed, Chaining, Starting
<1>6. s.pc = "route" => s.route \in Routes /\ s.route # None
  BY <1>1, PipelineAssumption DEF Routed
<1>7. Marked(t)
  <2> SUFFICES ASSUME t.route # None, NEW j \in 1 .. Len(t.ran), t.ran[j][2] = "skip"
               PROVE  Chain(t.route)[j].kind = "interceptor"
    BY DEF Marked
  <2>1. s.pc = "route"
    BY <1>5
  <2>2. j \in 1 .. Len(s.ran) \/ j = Len(u.ran)
    BY <1>3, <1>4
  <2>3. CASE j \in 1 .. Len(s.ran)
    BY <2>3, <1>3, <1>4 DEF Folds, Marked
  <2>4. CASE j = Len(u.ran)
    <3>1. o = "skip"
      BY <2>4, <1>3, <1>4
    <3> QED BY <3>1, <2>1, <2>4, <1>3
  <2> QED BY <2>2, <2>3, <2>4
<1>8. ASSUME t.pc \notin {"route", "post"} PROVE Folds(t)
  BY <1>7, <1>8 DEF Folds
<1>9. ASSUME t.pc = s.pc, t.aggs = s.aggs, Head(s.todo).kind \in {"middleware", "guard"}
      PROVE  Folds(t)
  <2>1. CASE s.pc # "route"
    BY <2>1, <1>8, <1>9 DEF Chaining
  <2>2. CASE s.pc = "route"
    <3> DEFINE c == Chain(s.route)
               b == Outer(s.route)
               l == Len(Interceptors(s.route))
    <3>1. /\ b \in Nat /\ l \in Nat /\ Len(c) = b + l + 1
          /\ \A i \in 1 .. l : c[b + i].kind = "interceptor"
          /\ c[Len(c)].kind = "main"
      BY <2>2, <1>6, ChainParts DEF MainHandler
    <3>2. c[Len(u.ran)].kind \in {"middleware", "guard"} /\ Len(u.ran) <= Len(c)
      BY <2>2, <1>3, <1>9
    <3>3. Len(u.ran) <= b
      <4> DEFINE j == Len(u.ran)
      <4>1. j \in Nat /\ j <= Len(c) /\ c[j].kind \in {"middleware", "guard"}
        BY <3>2, <1>3, <1>4
      <4> HIDE DEF c, b, l, j
      <4>2. ASSUME j > b, j <= b + l PROVE FALSE
        <5>1. j - b \in 1 .. l /\ b + (j - b) = j
          BY <4>1, <4>2, <3>1
        <5> QED BY <5>1, <4>1, <3>1
      <4>3. j # Len(c)
        BY <4>1, <3>1
      <4>4. j <= b
        BY <4>1, <4>2, <4>3, <3>1
      <4> QED BY <4>4 DEF j
    <3>4. Kept(s) /\ Counted(s)
      BY <2>2 DEF Folds
    <3>5. Len(s.aggs) = 0
      BY <3>3, <3>4, <3>1, <1>3, <1>4 DEF Counted
    <3>6. Kept(t) /\ Counted(t)
      BY <3>1, <3>3, <3>5, <1>3, <1>4, <1>9 DEF Kept, Counted
    <3> QED BY <3>6, <2>2, <1>7, <1>9 DEF Folds
  <2> QED BY <2>1, <2>2
<1> QED BY <1>7, <1>8, <1>9

\* Where the next layer of a route stands among the layers of its chain.
LEMMA LayerPlace ==
    ASSUME NEW s, NEW k, Good(s, k), s.pc = "route", s.isNext, s.todo # <<>>
    PROVE  LET j == Len(s.ran) + 1
               b == Outer(s.route)
               names == Interceptors(s.route) IN
           /\ s.route \in Routes /\ s.route # None
           /\ Len(s.ran) \in Nat /\ b \in Nat /\ Len(names) \in Nat
           /\ Len(Chain(s.route)) = b + Len(names) + 1
           /\ Head(s.todo).kind = "interceptor" =>
                 /\ j > b /\ j <= b + Len(names) /\ Head(s.todo).name = names[j - b]
           /\ Head(s.todo).kind = "main" => j = b + Len(names) + 1
<1> DEFINE j == Len(s.ran) + 1
           c == Chain(s.route)
           b == Outer(s.route)
           names == Interceptors(s.route)
           h == Head(s.todo)
           l == Len(names)
<1>1. /\ s \in Request /\ Routed(s) /\ Follows(s)
  BY DEF Good
<1>2. s.route \in Routes /\ s.route # None
  BY <1>1, PipelineAssumption DEF Routed
<1>3. /\ b \in Nat /\ l \in Nat /\ Len(c) = b + l + 1
      /\ \A i \in 1 .. b : c[i].kind \in {"middleware", "guard"}
      /\ \A i \in 1 .. l : c[b + i].kind = "interceptor" /\ c[b + i].name = names[i]
      /\ c[Len(c)].kind = "main"
  BY <1>2, ChainParts DEF MainHandler
<1>4. /\ Len(s.ran) + Len(s.todo) = Len(c)
      /\ \A i \in 1 .. Len(s.todo) : s.todo[i] = c[Len(s.ran) + i]
  BY <1>1, <1>2 DEF Follows
<1>5. Len(s.ran) \in Nat /\ s.todo \in Seq(Layer) /\ Len(s.todo) \in Nat
  BY <1>1, SeqFields
<1>6. Len(s.todo) >= 1 /\ h = s.todo[1]
  BY <1>5
<1>7. j \in 1 .. Len(c) /\ h = c[j]
  <2>1. 1 \in 1 .. Len(s.todo)
    BY <1>5, <1>6
  <2>2. j \in 1 .. Len(c)
    <3> DEFINE x == Len(s.ran)
               y == Len(s.todo)
               z == Len(c)
    <3>1. x + y = z /\ x \in Nat /\ y \in Nat /\ y >= 1
      BY <1>4, <1>5, <1>6
    <3> HIDE DEF x, y, z
    <3>2. x + 1 \in 1 .. z
      BY <3>1
    <3> QED BY <3>2 DEF x, z
  <2> QED BY <2>1, <2>2, <1>4, <1>6
<1> HIDE DEF j, c, b, l, h
<1>8. j \in 1 .. b \/ j - b \in 1 .. l \/ j = Len(c)
  BY <1>3, <1>7
<1>9. CASE j \in 1 .. b
  BY <1>9, <1>2, <1>3, <1>5, <1>7 DEF j, c, b, l, h
<1>10. CASE j - b \in 1 .. l
  <2>1. b + (j - b) = j /\ j > b /\ j <= b + l
    BY <1>10, <1>3, <1>7
  <2>2. c[j].kind = "interceptor" /\ c[j].name = names[j - b]
    BY <2>1, <1>10, <1>3
  <2> QED BY <2>1, <2>2, <1>2, <1>3, <1>5, <1>7 DEF j, c, b, l, h
<1>11. CASE j = Len(c)
  <2>1. c[j].kind = "main" /\ j = b + l + 1
    BY <1>3, <1>11
  <2> QED BY <2>1, <1>2, <1>3, <1>5, <1>7 DEF j, c, b, l, h
<1> QED BY <1>8, <1>9, <1>10, <1>11

\* An interceptor runs: its aggregation is kept, with whether it called Pipe.
LEMMA InterceptorFolds ==
    ASSUME Registered, phase = "serving",
           NEW s, NEW k, Good(s, k), Folds(s), s.pc \in Chaining, s.isNext, s.todo # <<>>,
           Head(s.todo).kind = "interceptor", NEW o \in {"pipe", "skip", "panic"}
    PROVE  /\ o # "panic" => Folds(Intercepted(s, o))
           /\ o = "panic" => Folds(Panic(Intercepted(s, o), 500))
<1> DEFINE v == Intercepted(s, o)
           n == o # "panic"
           a == [name |-> Head(s.todo).name, isMainHandlerCalled |-> o = "pipe"]
           w == Panic(v, 500)
<1>1. /\ v \in Request
      /\ v.pc = s.pc /\ v.isNext = n
      /\ v.ran = Ran(s, o, n).ran /\ v.route = s.route /\ v.answers = s.answers
      /\ v.aggs = Append(s.aggs, a)
      /\ s.pc = "route" /\ s.route \in Routes
  BY InterceptorGood
<1>2. /\ s \in Request /\ k \in Codes /\ Routed(s) /\ Follows(s) /\ GoneOn(s) /\ NoDataYet(s)
  BY DEF Good
<1>3. \A i \in 1 .. Len(v.answers) : v.answers[i].by # "main"
  BY <1>1, <1>2 DEF NoDataYet, Chaining
<1>4. /\ o \in Outs /\ n \in BOOLEAN /\ (n => o \in GoesOn)
  BY DEF Outs, GoesOn
<1>5. a.name = Head(s.todo).name /\ a.isMainHandlerCalled = (o = "pipe")
  OBVIOUS
<1>n. n <=> o # "panic"
  OBVIOUS
<1>6. 500 \in Codes
  BY DEF Codes
<1>7. w \in Request /\ w.route = v.route /\ w.ran = v.ran /\ w.answers = v.answers
  BY <1>1, <1>6, PanicFields
<1>8. w.pc = "catch"
  <2>1. s.route # None
    BY <1>1, PipelineAssumption
  <2> QED BY <2>1, <1>1, <1>6, PanicFields
<1> HIDE DEF v, n, a, w
<1>9. Folds(w)
  BY <1>1, <1>3, <1>4, <1>7, <1>8, LayerFolds
<1>10. Marked(v)
  BY <1>1, <1>3, <1>4, LayerFolds
<1>11. ASSUME o # "panic" PROVE Folds(v)
  <2> DEFINE u == Ran(s, o, n)
             b == Outer(s.route)
             names == Interceptors(s.route)
             j == Len(s.ran) + 1
             l == Len(s.aggs)
  <2>1. Kept(s) /\ Counted(s)
    BY <1>1 DEF Folds
  <2>2. /\ Len(s.ran) \in Nat /\ b \in Nat /\ Len(names) \in Nat
        /\ j > b /\ j <= b + Len(names) /\ Head(s.todo).name = names[j - b]
    BY <1>1, LayerPlace
  <2>3. u = Ran(s, o, n)
    OBVIOUS
  <2>4. s.aggs \in Seq(Agg) /\ l \in Nat
    BY <1>2, SeqFields
  <2>5. /\ Len(v.aggs) = l + 1
        /\ \A i \in 1 .. l : v.aggs[i] = s.aggs[i]
        /\ v.aggs[l + 1] = a
    BY <2>4, <1>1
  <2> HIDE DEF u
  <2>6. /\ Len(u.ran) = Len(s.ran) + 1
        /\ u.ran[Len(u.ran)] = <<Head(s.todo).name, o>>
        /\ \A i \in 1 .. Len(s.ran) : u.ran[i] = s.ran[i]
    BY <2>3, <1>2, <1>4, LayerRuns
  <2>7. l = j - 1 - b
    <3>1. CASE Len(s.ran) <= b
      <4>1. l = 0
        BY <3>1, <2>1 DEF Counted
      <4> HIDE DEF l, b
      <4> QED BY <4>1, <3>1, <2>2
    <3>2. CASE Len(s.ran) > b
      <4>1. l = Len(s.ran) - b
        BY <3>2, <2>1 DEF Counted
      <4> HIDE DEF l, b
      <4> QED BY <4>1, <2>2
    <3> QED BY <3>1, <3>2, <2>2
  <2>8. b + (l + 1) = j /\ l + 1 = j - b /\ l + 1 <= Len(names) /\ Len(v.ran) = j
    <3>1. v.ran = u.ran
      BY <2>3, <1>1
    <3>2. Len(v.ran) = j
      BY <3>1, <2>6
    <3> HIDE DEF l, b, names
    <3> QED BY <3>2, <2>2, <2>4, <2>7
  <2>9. Kept(v)
    <3>1. Len(v.aggs) <= Len(Interceptors(v.route))
      BY <2>5, <2>8, <1>1
    <3>2. ASSUME NEW i \in 1 .. Len(v.aggs)
          PROVE  /\ v.aggs[i].name = names[i]
                 /\ b + i <= Len(v.ran)
                 /\ v.ran[b + i][2] = IF v.aggs[i].isMainHandlerCalled THEN "pipe" ELSE "skip"
      <4>1. i \in 1 .. l \/ i = l + 1
        BY <2>4, <2>5
      <4>2. CASE i \in 1 .. l
        <5>1. /\ s.aggs[i].name = names[i]
              /\ b + i <= Len(s.ran)
              /\ s.ran[b + i][2] = IF s.aggs[i].isMainHandlerCalled THEN "pipe" ELSE "skip"
          BY <4>2, <2>1 DEF Kept
        <5>2. b + i \in 1 .. Len(s.ran) /\ b + i <= Len(v.ran)
          <6> HIDE DEF b
          <6> QED BY <5>1, <4>2, <2>2, <2>8
        <5> QED BY <5>1, <5>2, <4>2, <2>3, <2>5, <2>6, <1>1
      <4>3. CASE i = l + 1
        <5>1. b + i = j /\ i = j - b
          BY <4>3, <2>8
        <5>2. v.aggs[i] = a
          BY <4>3, <2>5
        <5>3. v.ran[b + i][2] = o
          BY <5>1, <2>3, <2>6, <1>1
        <5>4. v.ran[b + i][2] = IF v.aggs[i].isMainHandlerCalled THEN "pipe" ELSE "skip"
          BY <5>2, <5>3, <1>5, <1>11
        <5>5. b + i <= Len(v.ran)
          <6>1. j \in Nat
            BY <2>2
          <6> QED BY <6>1, <5>1, <2>8
        <5> QED BY <5>1, <5>2, <5>4, <5>5, <2>2, <1>5
      <4> QED BY <4>1, <4>2, <4>3
    <3> QED BY <3>1, <3>2, <1>1 DEF Kept
  <2>10. Counted(v)
    <3>1. Len(v.aggs) = Len(v.ran) - Outer(v.route) /\ Len(v.ran) > Outer(v.route)
      BY <2>2, <2>5, <2>8, <1>1
    <3>2. Len(v.ran) \in Nat /\ b \in Nat
      BY <2>2, <2>8
    <3> DEFINE x == Len(v.ran)
               y == Outer(v.route)
    <3>3. x \in Nat /\ y \in Nat /\ x > y
      BY <3>1, <3>2, <1>1
    <3> HIDE DEF x, y
    <3>4. ~(x <= y)
      BY <3>3
    <3> QED BY <3>1, <3>4 DEF Counted, x, y
  <2> QED BY <2>9, <2>10, <1>1, <1>3, <1>10 DEF Folds
<1> QED BY <1>9, <1>11 DEF v, w

\* The main handler runs after all interceptors: no name is in the data yet.
LEMMA MainFolds ==
    ASSUME Registered, phase = "serving",
           NEW s, NEW k, Good(s, k), Folds(s), s.pc \in Chaining, s.isNext, s.todo # <<>>,
           Head(s.todo).kind = "main",
           NEW o \in {"none", "value", "status", "badStatus", "panic"}
    PROVE  Folds(Handled(s, o)) /\ Folds(Panic(Handled(s, o), 500))
<1> DEFINE v == Handled(s, o)
           n == FALSE
           w == Panic(v, 500)
           p == IF o = "none" /\ s.aggs = <<>> THEN "end" ELSE "post"
           d == IF o = "none" THEN <<"nil">> ELSE <<"main">>
<1>1. /\ v.pc = p /\ v.data = d
      /\ v.aggs = s.aggs /\ v.route = s.route /\ v.ran = Ran(s, o, n).ran
      /\ v.answers = s.answers
      /\ s.pc = "route" /\ s.route \in Routes
      /\ Head(s.todo).name = "main" /\ Len(v.ran) = Len(Chain(s.route))
      /\ Unanswered(v)
  <2>1. AfterMain(s, o, k, v)
    BY MainGood
  <2> HIDE DEF v
  <2> QED BY <2>1 DEF AfterMain
<1>0. v \in Request
  <2> HIDE DEF v
  <2> QED BY <1>1 DEF Unanswered
<1>2. /\ s \in Request /\ k \in Codes /\ Routed(s) /\ Follows(s) /\ GoneOn(s) /\ NoDataYet(s)
  BY DEF Good
<1>3. \A i \in 1 .. Len(v.answers) : v.answers[i].by # "main"
  BY <1>1, <1>2 DEF NoDataYet, Chaining
<1>4. o \in Outs /\ n \in BOOLEAN /\ (n => o \in GoesOn) /\ o # "skip"
  BY DEF Outs
<1>5. 500 \in Codes
  BY DEF Codes
<1>6. w \in Request /\ w.route = v.route /\ w.ran = v.ran /\ w.answers = v.answers
      /\ w.pc = "catch"
  <2>1. v.route # None
    BY <1>1, PipelineAssumption
  <2> DEFINE rec == 500
  <2>2. w = Panic(v, rec) /\ rec \in Codes
    BY <1>5
  <2> HIDE DEF v, w, rec
  <2>3. w \in Request /\ w.route = v.route /\ w.ran = v.ran /\ w.answers = v.answers
    BY <2>2, <1>0, PanicFields
  <2>4. w.pc = "catch"
    BY <2>1, <2>2, <1>0, PanicFields
  <2> QED BY <2>3, <2>4
<1>8. /\ p \in {"end", "post"}
      /\ Len(d) = 1 /\ d[1] = IF o = "none" THEN "nil" ELSE "main"
  OBVIOUS
<1> HIDE DEF v, n, w, p, d
<1>9. Folds(w)
  BY <1>1, <1>3, <1>4, <1>6, LayerFolds
<1>10. Marked(v) /\ (p = "end" => Folds(v))
  BY <1>0, <1>1, <1>3, <1>4, LayerFolds
<1>11. ASSUME p = "post" PROVE Folds(v)
  <2> DEFINE u == Ran(s, o, n)
             b == Outer(s.route)
             names == Interceptors(s.route)
             l == Len(names)
  <2>1. Kept(s) /\ Counted(s)
    BY <1>1 DEF Folds
  <2>2. Len(s.ran) \in Nat /\ b \in Nat /\ l \in Nat /\ Len(s.ran) + 1 = b + l + 1
    BY <1>1, LayerPlace
  <2>3. u = Ran(s, o, n)
    OBVIOUS
  <2> HIDE DEF u
  <2>4. /\ Len(u.ran) = Len(s.ran) + 1
        /\ u.ran[Len(u.ran)] = <<Head(s.todo).name, o>>
        /\ \A i \in 1 .. Len(s.ran) : u.ran[i] = s.ran[i]
    BY <2>3, <1>2, <1>4, LayerRuns
  <2>5. Len(s.aggs) = l
    <3> DEFINE x == Len(s.ran)
               y == Len(s.aggs)
    <3>1. (x <= b => y = 0) /\ (x > b => y = x - b)
      BY <2>1 DEF Counted
    <3> HIDE DEF x, b, l, y
    <3>2. x \in Nat /\ b \in Nat /\ l \in Nat /\ x + 1 = b + l + 1
      BY <2>2 DEF x
    <3>3. y = l
      BY <3>1, <3>2
    <3> QED BY <3>3 DEF y
  <2>6. Kept(v)
    <3>1. Len(v.aggs) <= Len(Interceptors(v.route))
      BY <2>1, <1>1 DEF Kept
    <3>2. ASSUME NEW i \in 1 .. Len(v.aggs)
          PROVE  /\ v.aggs[i].name = names[i]
                 /\ b + i <= Len(v.ran)
                 /\ v.ran[b + i][2] = IF v.aggs[i].isMainHandlerCalled THEN "pipe" ELSE "skip"
      <4>1. /\ s.aggs[i].name = names[i]
            /\ b + i <= Len(s.ran)
            /\ s.ran[b + i][2] = IF s.aggs[i].isMainHandlerCalled THEN "pipe" ELSE "skip"
        BY <2>1, <1>1 DEF Kept
      <4>2. i \in Nat /\ i >= 1
        BY <2>2, <2>5, <1>1
      <4>3. b + i \in 1 .. Len(s.ran) /\ b + i <= Len(v.ran)
        <5>1. Len(v.ran) = Len(s.ran) + 1
          BY <2>3, <2>4, <1>1
        <5> HIDE DEF b
        <5> QED BY <4>1, <4>2, <5>1, <2>2
      <4> QED BY <4>1, <4>3, <2>3, <2>4, <1>1
    <3> QED BY <3>1, <3>2, <1>1 DEF Kept
  <2>7. Told(v)
    <3>1. \A x : (Len(v.data) = 1 /\ v.data[1] = x) => Tells(v.data, x, names, l, l)
      <4>1. l - l = 0 /\ 1 + (l - l) = 1
        BY <2>2
      <4> QED BY <4>1 DEF Tells
    <3>2. Len(v.data) = 1 /\ v.data[1] = IF o = "none" THEN "nil" ELSE "main"
      BY <1>1, <1>8
    <3>3. o = "none" => v.ran[Len(v.ran)] = <<"main", "none">>
      BY <2>3, <2>4, <1>1
    <3>4. \A i \in l + 1 .. l : v.ran[b + i][2] = "pipe"
      BY <2>2
    <3>5. \/ Tells(v.data, "main", names, l, l)
          \/ Tells(v.data, "nil", names, l, l) /\ v.ran[Len(v.ran)] = <<"main", "none">>
      BY <3>1, <3>2, <3>3
    <3>6. Len(v.aggs) = l /\ v.route = s.route /\ Len(v.ran) = Len(Chain(v.route))
      BY <2>5, <1>1
    <3> QED BY <3>4, <3>5, <3>6 DEF Told
  <2> QED BY <2>6, <2>7, <1>1, <1>3, <1>10, <1>11 DEF Folds
<1> QED BY <1>8, <1>9, <1>10, <1>11 DEF v, w

\* An aggregation adds its name to the data, or begins them anew.
LEMMA FoldedFolds ==
    ASSUME NEW s, NEW k, Good(s, k), Folds(s), s.pc = "post", s.aggs # <<>>,
           Last(s.aggs).isMainHandlerCalled,
           NEW d \in Seq(Datum), d = <<"filtered">> \/ d = Append(s.data, Last(s.aggs).name)
    PROVE  Folds(Folded(s, d))
<1> DEFINE t == Folded(s, d)
           names == Interceptors(s.route)
           b == Outer(s.route)
           l == Len(names)
           n == Len(s.aggs)
           m == n - 1
<1>1. /\ s \in Request /\ k \in Codes /\ NoDataYet(s) /\ Routed(s)
  BY DEF Good
<1>2. /\ t \in Request /\ t.pc = "post" /\ t.data = d /\ t.aggs = Front(s.aggs)
      /\ t.route = s.route /\ t.ran = s.ran /\ t.answers = s.answers
  BY <1>1, FoldedFields DEF Alike
<1>3. s.route \in Routes
  BY <1>1 DEF Routed
<1>4. /\ Marked(s) /\ Kept(s) /\ Told(s)
  BY DEF Folds
<1>5. b \in Nat /\ l \in Nat
  BY <1>3, ChainParts
<1>6. s.aggs \in Seq(Agg) /\ n \in Nat /\ s.data \in Seq(Datum) /\ Len(s.data) \in Nat
  BY <1>1, SeqFields
<1>7. n >= 1 /\ Last(s.aggs) = s.aggs[n]
  BY <1>6 DEF Last
<1>8. /\ Len(t.aggs) = m /\ m \in Nat
      /\ \A i \in 1 .. m : t.aggs[i] = s.aggs[i]
  BY <1>2, <1>6, <1>7 DEF Front
<1>9. /\ n <= l
      /\ \A i \in 1 .. n : /\ s.aggs[i].name = names[i]
                           /\ b + i <= Len(s.ran)
                           /\ s.ran[b + i][2] = IF s.aggs[i].isMainHandlerCalled THEN "pipe" ELSE "skip"
  BY <1>4 DEF Kept
<1> HIDE DEF t
<1>10. Kept(t)
  <2>1. \A i \in 1 .. m : i \in 1 .. n
    BY <1>6, <1>7
  <2>2. m <= l
    <3> HIDE DEF l, n
    <3> QED BY <1>5, <1>6, <1>9
  <2>3. \A i \in 1 .. m : /\ t.aggs[i].name = names[i]
                          /\ b + i <= Len(s.ran)
                          /\ s.ran[b + i][2] = IF t.aggs[i].isMainHandlerCalled THEN "pipe" ELSE "skip"
    BY <2>1, <1>8, <1>9
  <2> HIDE DEF m
  <2> QED BY <2>2, <2>3, <1>2, <1>8 DEF Kept
<1>11. s.aggs[n].name = names[n] /\ s.ran[b + n][2] = "pipe"
  <2>1. n \in 1 .. n
    BY <1>6, <1>7
  <2> QED BY <2>1, <1>7, <1>9
<1>12. /\ Len(s.ran) = Len(Chain(s.route))
       /\ \A i \in n + 1 .. l : s.ran[b + i][2] = "pipe"
       /\ \/ Tells(s.data, "main", names, n, l)
          \/ Tells(s.data, "nil", names, n, l) /\ s.ran[Len(s.ran)] = <<"main", "none">>
          \/ \E e \in n .. l - 1 : Tells(s.data, "filtered", names, n, e)
  BY <1>4 DEF Told
<1>13. \A i \in m + 1 .. l : s.ran[b + i][2] = "pipe"
  <2> TAKE i \in m + 1 .. l
  <2>1. i = n \/ i \in n + 1 .. l
    <3> HIDE DEF l, n
    <3> QED BY <1>5, <1>6
  <2> QED BY <2>1, <1>11, <1>12
<1> HIDE DEF b, l, names
<1>14. ASSUME NEW x, NEW e \in Nat, e >= n, Tells(s.data, x, names, n, e),
              d = Append(s.data, names[n])
       PROVE  Tells(d, x, names, m, e)
  <2>1. /\ Len(s.data) = 1 + (e - n) /\ s.data[1] = x
        /\ \A j \in 1 .. e - n : s.data[1 + j] = names[e + 1 - j]
    BY <1>14 DEF Tells
  <2> DEFINE q == Len(s.data)
  <2>2. /\ Len(d) = q + 1 /\ d[q + 1] = names[n]
        /\ \A j \in 1 .. q : d[j] = s.data[j]
    BY <1>6, <1>14
  <2>3. q = 1 + (e - n) /\ q \in Nat /\ q >= 1 /\ n \in Nat /\ e \in Nat
    BY <2>1, <1>6, <1>14
  <2> HIDE DEF q, n
  <2>4. Len(d) = 1 + (e - m) /\ d[1] = x
    <3>1. 1 \in 1 .. q
      BY <2>3
    <3>2. q + 1 = 1 + (e - m)
      BY <2>3
    <3> QED BY <3>1, <3>2, <2>1, <2>2
  <2>5. ASSUME NEW j \in 1 .. e - m PROVE d[1 + j] = names[e + 1 - j]
    <3>1. j \in 1 .. e - n \/ j = q
      BY <2>3
    <3>2. CASE j \in 1 .. e - n
      <4>1. 1 + j \in 1 .. q
        BY <3>2, <2>3
      <4> QED BY <4>1, <3>2, <2>1, <2>2
    <3>3. CASE j = q
      <4>1. 1 + j = q + 1 /\ e + 1 - j = n
        BY <3>3, <2>3
      <4> QED BY <4>1, <2>2
    <3> QED BY <3>1, <3>2, <3>3
  <2> QED BY <2>4, <2>5 DEF Tells
<1>15. \/ Tells(d, "main", names, m, l)
       \/ Tells(d, "nil", names, m, l) /\ s.ran[Len(s.ran)] = <<"main", "none">>
       \/ \E e \in m .. l - 1 : Tells(d, "filtered", names, m, e)
  <2>1. CASE d = <<"filtered">>
    <3>1. Len(d) = 1 /\ d[1] = "filtered"
      BY <2>1
    <3>2. m - m = 0 /\ 1 + (m - m) = 1 /\ m \in m .. l - 1
      <4> HIDE DEF n
      <4> QED BY <1>5, <1>6, <1>7, <1>9
    <3> HIDE DEF m
    <3>3. Tells(d, "filtered", names, m, m)
      BY <3>1, <3>2 DEF Tells
    <3> QED BY <3>2, <3>3
  <2>2. CASE d = Append(s.data, names[n])
    <3>1. l >= n /\ l \in Nat
      <4> HIDE DEF n
      <4> QED BY <1>5, <1>6, <1>9
    <3>2. CASE Tells(s.data, "main", names, n, l)
      <4>1. Tells(d, "main", names, m, l)
        BY <3>1, <3>2, <2>2, <1>14
      <4> QED BY <4>1
    <3>3. CASE Tells(s.data, "nil", names, n, l) /\ s.ran[Len(s.ran)] = <<"main", "none">>
      <4>1. Tells(d, "nil", names, m, l)
        BY <3>1, <3>3, <2>2, <1>14
      <4> QED BY <4>1, <3>3
    <3>4. CASE \E e \in n .. l - 1 : Tells(s.data, "filtered", names, n, e)
      <4>1. PICK e \in n .. l - 1 : Tells(s.data, "filtered", names, n, e)
        BY <3>4
      <4>2. e \in Nat /\ e >= n /\ e \in m .. l - 1
        <5> HIDE DEF n
        <5> QED BY <1>5, <1>6
      <4>3. Tells(d, "filtered", names, m, e)
        BY <4>1, <4>2, <2>2, <1>14
      <4> QED BY <4>2, <4>3
    <3> QED BY <3>2, <3>3, <3>4, <1>12
  <2> QED BY <2>1, <2>2, <1>7, <1>11
<1>16. Told(t)
  <2> HIDE DEF m
  <2> QED BY <1>2, <1>8, <1>12, <1>13, <1>15 DEF Told, names, b, l
<1>17. Marked(t)
  BY <1>2, <1>4 DEF Marked
<1>18. \A i \in 1 .. Len(t.answers) : t.answers[i].by # "main"
  BY <1>1, <1>2 DEF NoDataYet
<1> QED BY <1>2, <1>10, <1>16, <1>17, <1>18 DEF Folds, t

\* Data that tell of the first m interceptors are a sequence in the order of the fold.
LEMMA TellsAll ==
    ASSUME NEW names \in Seq(STRING), NEW m \in 0 .. Len(names), NEW d \in Seq(Datum),
           NEW x \in Datum, Tells(d, x, names, 0, m)
    PROVE  /\ d = <<x>> \o Reverse(SubSeq(names, 1, m))
           /\ m = Len(names) => SubSeq(names, 1, m) = names
<1> DEFINE f == SubSeq(names, 1, m)
           g == Reverse(f)
           e == <<x>> \o g
<1>1. names \in Seq(Names) /\ Len(names) \in Nat /\ m \in Nat
  BY NamesWiden
<1>2. f \in Seq(Names) /\ Len(f) = m /\ \A i \in 1 .. m : f[i] = names[i]
  BY <1>1
<1> HIDE DEF f
<1>3. /\ g \in Seq(Datum) /\ Len(g) = m
      /\ \A i \in 1 .. m : g[i] = names[(m - i) + 1]
  <2>1. g = [i \in 1 .. m |-> f[(m - i) + 1]]
    BY <1>2 DEF Reverse
  <2>2. \A i \in 1 .. m : (m - i) + 1 \in 1 .. m
    BY <1>1
  <2>3. \A i \in 1 .. m : f[(m - i) + 1] \in Datum
    <3>1. \A i \in 1 .. m : f[i] \in Names
      BY <1>1, <1>2
    <3> QED BY <3>1, <2>2 DEF Datum
  <2> HIDE DEF g
  <2>4. g \in [1 .. m -> Datum]
    BY <2>1, <2>3
  <2>5. g \in Seq(Datum) /\ Len(g) = m
    BY <2>4, <1>1
  <2>6. \A i \in 1 .. m : g[i] = names[(m - i) + 1]
    BY <2>1, <2>2, <1>2
  <2> QED BY <2>5, <2>6
<1> HIDE DEF g
<1>4. <<x>> \in Seq(Datum) /\ Len(<<x>>) = 1 /\ <<x>>[1] = x
  <2> HIDE DEF Datum
  <2> QED OBVIOUS
<1>5. e \in Seq(Datum) /\ Len(e) = 1 + m
  BY <1>3, <1>4, ConcatProperties
<1>6. \A i \in 1 .. 1 + m : e[i] = IF i <= 1 THEN x ELSE g[i - 1]
  BY <1>3, <1>4, ConcatProperties
<1> HIDE DEF e
<1>7. /\ Len(d) = 1 + m /\ d[1] = x
      /\ \A j \in 1 .. m : d[1 + j] = names[m + 1 - j]
  <2>1. m - 0 = m /\ 1 + (m - 0) = 1 + m
    BY <1>1
  <2> QED BY <2>1 DEF Tells
<1>8. ASSUME NEW i \in 1 .. 1 + m PROVE d[i] = e[i]
  <2>1. CASE i <= 1
    <3>1. i = 1
      BY <2>1, <1>1
    <3> QED BY <3>1, <2>1, <1>6, <1>7
  <2>2. CASE ~(i <= 1)
    <3> DEFINE j == i - 1
    <3>1. j \in 1 .. m /\ 1 + j = i /\ m + 1 - j = (m - j) + 1
      BY <2>2, <1>1
    <3>2. e[i] = g[j]
      BY <2>2, <1>6
    <3> HIDE DEF j
    <3> QED BY <3>1, <3>2, <1>3, <1>7
  <2> QED BY <2>1, <2>2
<1>9. d = e
  BY <1>5, <1>7, <1>8, SeqEqual
<1>10. ASSUME m = Len(names) PROVE f = names
  BY <1>1, <1>2, <1>10, SeqEqual
<1> QED BY <1>9, <1>10 DEF e, f, g

\* Which interceptors skipped Pipe is told by the place of their marks.
LEMMA SkippedPlaces ==
    ASSUME NEW s, NEW k, Good(s, k), Folds(s), s.pc = "post",
           NEW i \in 1 .. Len(Interceptors(s.route))
    PROVE  <<Interceptors(s.route)[i], "skip">> \in Range(s.ran)
               <=> s.ran[Outer(s.route) + i][2] = "skip"
<1> DEFINE names == Interceptors(s.route)
           c == Chain(s.route)
           b == Outer(s.route)
           l == Len(names)
<1>1. s \in Request /\ Routed(s) /\ Follows(s)
  BY DEF Good
<1>2. s.route \in Routes /\ s.route # None
  BY <1>1, PipelineAssumption DEF Routed
<1>3. /\ b \in Nat /\ l \in Nat /\ Len(c) = b + l + 1
      /\ \A j \in 1 .. b : c[j].kind \in {"middleware", "guard"}
      /\ \A j \in 1 .. l : c[b + j].kind = "interceptor" /\ c[b + j].name = names[j]
      /\ c[Len(c)].kind = "main"
  BY <1>2, ChainParts DEF MainHandler
<1>4. Len(s.ran) = Len(c) /\ Marked(s)
  BY DEF Folds, Told
<1>5. /\ \A j \in 1 .. Len(s.ran) : s.ran[j][1] = c[j].name
      /\ \A j \in 1 .. Len(s.ran) : s.ran[j][2] = "skip" => c[j].kind = "interceptor"
  BY <1>1, <1>2, <1>4 DEF Follows, Marked
<1>6. s.ran \in Seq(Mark) /\ DOMAIN s.ran = 1 .. Len(s.ran)
  BY <1>1, SeqFields
<1>7. names \in Seq(STRING) /\ DOMAIN names = 1 .. l /\ IsInjective(names)
  BY <1>2, NamesType, PipelineAssumption DEF Interceptors
<1> HIDE DEF c, b, l, names
<1>8. b + i \in 1 .. Len(s.ran)
  <2>1. i \in 1 .. l
    BY DEF l, names
  <2> QED BY <2>1, <1>3, <1>4
<1>9. \A j \in 1 .. Len(s.ran) : s.ran[j] = <<s.ran[j][1], s.ran[j][2]>>
  <2>1. \A j \in 1 .. Len(s.ran) : s.ran[j] \in Mark
    BY <1>6
  <2>2. \A z \in Mark : z = <<z[1], z[2]>>
    BY DEF Mark
  <2> QED BY <2>1, <2>2
<1>10. ASSUME s.ran[b + i][2] = "skip" PROVE <<names[i], "skip">> \in Range(s.ran)
  <2>1. i \in 1 .. l
    BY DEF l, names
  <2>2. s.ran[b + i] = <<names[i], "skip">>
    BY <2>1, <1>3, <1>5, <1>8, <1>9, <1>10
  <2> QED BY <2>2, <1>6, <1>8 DEF Range
<1>11. ASSUME <<names[i], "skip">> \in Range(s.ran) PROVE s.ran[b + i][2] = "skip"
  <2>1. PICK j \in 1 .. Len(s.ran) : s.ran[j] = <<names[i], "skip">>
    BY <1>6, <1>11 DEF Range
  <2>2. s.ran[j][1] = names[i] /\ s.ran[j][2] = "skip"
    BY <2>1
  <2>3. c[j].kind = "interceptor" /\ c[j].name = names[i]
    BY <2>2, <1>5
  <2>4. j - b \in 1 .. l /\ b + (j - b) = j
    <3>1. j \in 1 .. b \/ j - b \in 1 .. l \/ j = Len(c)
      BY <1>3, <1>4
    <3>2. j \notin 1 .. b /\ j # Len(c)
      BY <2>3, <1>3
    <3> QED BY <3>1, <3>2, <1>3
  <2>5. names[j - b] = names[i]
    BY <2>3, <2>4, <1>3
  <2>6. i \in 1 .. l
    BY DEF l, names
  <2>7. j - b = i
    <3> DEFINE h == j - b
    <3>1. h \in DOMAIN names /\ i \in DOMAIN names /\ names[h] = names[i]
      BY <2>4, <2>5, <2>6, <1>7
    <3> HIDE DEF h
    <3>2. h = i
      BY <3>1, <1>7 DEF IsInjective
    <3> QED BY <3>2 DEF h
  <2> QED BY <2>2, <2>4, <2>7
<1> QED BY <1>10, <1>11 DEF names, b

\* returnHTTP gets the fold: the data after all aggregations, or the own data of the
\* innermost interceptor that did not call Pipe.
LEMMA ReturnFolds ==
    ASSUME NEW s, NEW k, Good(s, k), Folds(s), s.pc = "post"
    PROVE  /\ s.aggs = <<>> => FoldOf(s, s.data)
           /\ s.aggs # <<>> /\ ~Last(s.aggs).isMainHandlerCalled =>
                 FoldOf(s, <<"own", Last(s.aggs).name>>)
<1> DEFINE names == Interceptors(s.route)
           b == Outer(s.route)
           l == Len(names)
           n == Len(s.aggs)
           skipped == {i \in DOMAIN names : <<names[i], "skip">> \in Range(s.ran)}
<1>1. s \in Request /\ Routed(s) /\ Kept(s) /\ Told(s)
  BY DEF Good, Folds
<1>2. s.route \in Routes
  BY <1>1 DEF Routed
<1>3. b \in Nat /\ l \in Nat /\ names \in Seq(STRING) /\ DOMAIN names = 1 .. l
  BY <1>2, ChainParts, NamesType
<1>4. s.aggs \in Seq(Agg) /\ n \in Nat /\ s.data \in Seq(Datum)
  BY <1>1, SeqFields
<1>5. skipped = {i \in 1 .. l : s.ran[b + i][2] = "skip"}
  BY <1>3, SkippedPlaces
<1>6. /\ Len(s.ran) = Len(Chain(s.route))
      /\ \A i \in n + 1 .. l : s.ran[b + i][2] = "pipe"
      /\ \/ Tells(s.data, "main", names, n, l)
         \/ Tells(s.data, "nil", names, n, l) /\ s.ran[Len(s.ran)] = <<"main", "none">>
         \/ \E m \in n .. l - 1 : Tells(s.data, "filtered", names, n, m)
  BY <1>1 DEF Told
<1>7. ASSUME s.aggs = <<>> PROVE FoldOf(s, s.data)
  <2>1. n = 0
    BY <1>7
  <2>2. skipped = {}
    <3>1. \A i \in 1 .. l : s.ran[b + i][2] # "skip"
      BY <2>1, <1>3, <1>6
    <3> QED BY <3>1, <1>5
  <2>3. "main" \in Datum /\ "nil" \in Datum /\ "filtered" \in Datum
    BY DEF Datum, Names
  <2>4. /\ l \in 0 .. Len(names)
        /\ \A m \in 0 .. l - 1 : m \in 0 .. Len(names)
    BY <1>3
  <2> HIDE DEF names, n, skipped
  <2>5. CASE Tells(s.data, "main", names, n, l)
    <3>1. s.data = <<"main">> \o Reverse(names)
      BY <2>1, <2>3, <2>4, <2>5, <1>3, <1>4, TellsAll
    <3> QED BY <3>1, <2>2 DEF FoldOf, names, skipped
  <2>6. CASE Tells(s.data, "nil", names, n, l) /\ s.ran[Len(s.ran)] = <<"main", "none">>
    <3>1. s.data = <<"nil">> \o Reverse(names)
      BY <2>1, <2>3, <2>4, <2>6, <1>3, <1>4, TellsAll
    <3>2. <<"main", "none">> \in Range(s.ran)
      <4>1. DOMAIN s.ran = 1 .. Len(s.ran) /\ Len(s.ran) \in Nat
        BY <1>1, SeqFields
      <4>2. Len(s.ran) >= 1
        BY <1>2, <1>6, ChainParts
      <4> QED BY <4>1, <4>2, <2>6 DEF Range
    <3> QED BY <3>1, <3>2, <2>2 DEF FoldOf, names, skipped
  <2>7. CASE \E m \in n .. l - 1 : Tells(s.data, "filtered", names, n, m)
    <3>1. PICK m \in 0 .. l - 1 : Tells(s.data, "filtered", names, 0, m)
      BY <2>1, <2>7
    <3>2. s.data = <<"filtered">> \o Reverse(SubSeq(names, 1, m))
      BY <3>1, <2>3, <2>4, <1>3, <1>4, TellsAll
    <3> QED BY <3>1, <3>2, <2>2 DEF FoldOf, names, skipped
  <2> QED BY <2>5, <2>6, <2>7, <1>6
<1>8. ASSUME s.aggs # <<>>, ~Last(s.aggs).isMainHandlerCalled
      PROVE  FoldOf(s, <<"own", Last(s.aggs).name>>)
  <2>1. n >= 1 /\ Last(s.aggs) = s.aggs[n]
    BY <1>4, <1>8 DEF Last
  <2>2. /\ n <= l
        /\ s.aggs[n].name = names[n]
        /\ s.ran[b + n][2] = "skip"
    <3>1. n \in 1 .. n
      BY <2>1, <1>4
    <3> QED BY <3>1, <2>1, <1>1, <1>8 DEF Kept
  <2>3. n \in skipped
    <3>1. n \in 1 .. l
      BY <2>1, <2>2, <1>3, <1>4
    <3> HIDE DEF skipped, n, l
    <3> QED BY <3>1, <2>2, <1>5
  <2>4. \A j \in skipped : j <= n
    <3> SUFFICES ASSUME NEW j \in 1 .. l, s.ran[b + j][2] = "skip" PROVE j <= n
      BY <1>5
    <3>1. j \notin n + 1 .. l
      BY <1>6
    <3> HIDE DEF n, l
    <3> QED BY <3>1, <1>3, <1>4
  <2>5. <<"own", Last(s.aggs).name>> = <<"own", names[n]>>
    BY <2>1, <2>2
  <2> HIDE DEF n, skipped
  <2> QED BY <2>3, <2>4, <2>5 DEF FoldOf, names, skipped
<1> QED BY <1>7, <1>8

----------------------------------------------------------------------------
\* The inductive invariant: a context is in the pool at most once and with the status
\* it was made with, no two requests share one, and each request served is good with
\* the status of its own context.
Served(q) ==
    /\ rq[q].pc = "idle" => rq[q] = Idle
    /\ rq[q].pc # "idle" => /\ phase = "serving" /\ rq[q].ctx \in Contexts
                            /\ Good(rq[q], code[rq[q].ctx]) /\ Folds(rq[q])

IInv ==
    /\ Registered /\ isVersioningEnabled \in BOOLEAN
    /\ pool \in [Contexts -> 0 .. 1] /\ code \in [Contexts -> Codes]
    /\ rq \in [Requests -> Request]
    /\ \A c \in Contexts : pool[c] = 1 => code[c] = OK
    /\ \A q \in Requests : Served(q)
    /\ ContextsNotShared

\* A step of request q makes it t, and the status of its context k.
Goes(q, t, k) ==
    /\ rq' = [rq EXCEPT ![q] = t] /\ code' = [code EXCEPT ![rq[q].ctx] = k]
    /\ UNCHANGED <<router, pool>>
    /\ Good(t, k) /\ Folds(t) /\ t.pc # "idle" /\ t.ctx = rq[q].ctx

\* Such a step leaves the other requests and their contexts alone.
LEMMA GoesKeeps ==
    ASSUME IInv, NEW q \in Requests, rq[q].pc # "idle", NEW t, NEW k, Goes(q, t, k)
    PROVE  pool' \in [Contexts -> 0 .. 1] /\ code' \in [Contexts -> Codes]
           /\ rq' \in [Requests -> Request]
           /\ (\A c \in Contexts : pool'[c] = 1 => code'[c] = OK)
           /\ (\A p \in Requests : Served(p)')
           /\ ContextsNotShared'
<1> DEFINE d == rq[q].ctx
<1>1. /\ rq' = [rq EXCEPT ![q] = t] /\ code' = [code EXCEPT ![d] = k]
      /\ pool' = pool /\ phase' = phase
      /\ Good(t, k) /\ Folds(t) /\ t.pc # "idle" /\ t.ctx = d
  BY DEF Goes, router
<1>2. /\ pool \in [Contexts -> 0 .. 1] /\ code \in [Contexts -> Codes]
      /\ rq \in [Requests -> Request]
      /\ \A c \in Contexts : pool[c] = 1 => code[c] = OK
      /\ \A p \in Requests : Served(p)
      /\ ContextsNotShared
  BY DEF IInv
<1>3. t \in Request /\ k \in Codes
  BY <1>1 DEF Good
<1>4. phase = "serving" /\ d \in Contexts
  BY <1>2 DEF Served
<1>5. d # None
  BY <1>4, PipelineAssumption
<1>6. pool[d] = 0 /\ \A p \in Requests \ {q} : rq[p].ctx # d
  BY <1>2, <1>5 DEF ContextsNotShared
<1> HIDE DEF d, Request, Codes
<1>7. rq'[q] = t /\ rq'[q].ctx = d /\ code'[d] = k
      /\ \A p \in Requests \ {q} : rq'[p] = rq[p]
      /\ \A c \in Contexts \ {d} : code'[c] = code[c]
  BY <1>1, <1>2, <1>4
<1>8. rq' \in [Requests -> Request] /\ code' \in [Contexts -> Codes]
  BY <1>1, <1>2, <1>3
<1>9. \A c \in Contexts : pool'[c] = 1 => code'[c] = OK
  BY <1>1, <1>2, <1>6, <1>7
<1>10. ASSUME NEW p \in Requests PROVE Served(p)'
  <2>1. CASE p = q
    BY <2>1, <1>1, <1>4, <1>7 DEF Served
  <2>2. CASE p # q
    <3>1. rq'[p] = rq[p] /\ rq[p].ctx # d /\ Served(p)
      BY <2>2, <1>2, <1>6, <1>7
    <3>2. rq[p].ctx \in Contexts => code'[rq[p].ctx] = code[rq[p].ctx]
      BY <3>1, <1>7
    <3> QED BY <3>1, <3>2, <1>1 DEF Served
  <2> QED BY <2>1, <2>2
<1>11. ContextsNotShared'
  <2> SUFFICES ASSUME NEW p \in Requests, rq'[p].ctx # None
               PROVE  /\ pool'[rq'[p].ctx] = 0
                      /\ \A o \in Requests \ {p} : rq'[o].ctx # rq'[p].ctx
    BY DEF ContextsNotShared
  <2>1. CASE p = q
    BY <2>1, <1>1, <1>6, <1>7
  <2>2. CASE p # q
    <3>1. rq'[p] = rq[p] /\ rq[p].ctx # d
      BY <2>2, <1>6, <1>7
    <3>2. pool[rq[p].ctx] = 0 /\ \A o \in Requests \ {p} : rq[o].ctx # rq[p].ctx
      BY <3>1, <1>2 DEF ContextsNotShared
    <3>3. ASSUME NEW o \in Requests \ {p} PROVE rq'[o].ctx # rq'[p].ctx
      <4>1. CASE o = q
        BY <4>1, <3>1, <1>7
      <4>2. CASE o # q
        BY <4>2, <3>1, <3>2, <1>7
      <4> QED BY <4>1, <4>2
    <3> QED BY <3>1, <3>2, <3>3, <1>1
  <2> QED BY <2>1, <2>2
<1> QED BY <1>1, <1>2, <1>8, <1>9, <1>10, <1>11

\* releaseCtx, the garbage collector and ctxPool.Get: a context is taken or given back.
LEMMA PoolKeeps ==
    ASSUME IInv, NEW q \in Requests,
           \/ rq[q].pc # "idle" /\ Release(q)
           \/ UpgradeFails(q)
           \/ \E c \in Contexts : \E path \in PathsOf[q] : Accept(q, c, path)
    PROVE  pool' \in [Contexts -> 0 .. 1] /\ code' \in [Contexts -> Codes]
           /\ rq' \in [Requests -> Request]
           /\ (\A c \in Contexts : pool'[c] = 1 => code'[c] = OK)
           /\ (\A p \in Requests : Served(p)')
           /\ ContextsNotShared'
<1>1. /\ pool \in [Contexts -> 0 .. 1] /\ code \in [Contexts -> Codes]
      /\ rq \in [Requests -> Request]
      /\ \A c \in Contexts : pool[c] = 1 => code[c] = OK
      /\ \A p \in Requests : Served(p)
      /\ ContextsNotShared
  BY DEF IInv
<1>2. /\ Idle \in Request /\ Idle.pc = "idle" /\ Idle.ctx = None /\ OK \in Codes
  BY IdleFields DEF Codes
<1>3. None \notin Contexts
  BY PipelineAssumption
<1> HIDE DEF Request, Idle, Codes, OK
<1>4. ASSUME rq[q].pc # "idle", rq' = [rq EXCEPT ![q] = Idle], phase' = phase,
             \/ code' = [code EXCEPT ![rq[q].ctx] = OK]
                /\ pool' = [pool EXCEPT ![rq[q].ctx] = @ + 1]
             \/ UNCHANGED <<pool, code>>
      PROVE  pool' \in [Contexts -> 0 .. 1] /\ code' \in [Contexts -> Codes]
             /\ rq' \in [Requests -> Request]
             /\ (\A c \in Contexts : pool'[c] = 1 => code'[c] = OK)
             /\ (\A p \in Requests : Served(p)')
             /\ ContextsNotShared'
  <2> DEFINE d == rq[q].ctx
  <2>1. d \in Contexts /\ d # None
    BY <1>1, <1>3, <1>4 DEF Served
  <2>2. pool[d] = 0 /\ \A p \in Requests \ {q} : rq[p].ctx # d
    BY <2>1, <1>1 DEF ContextsNotShared
  <2> HIDE DEF d
  <2>3. /\ rq'[q] = Idle /\ \A p \in Requests \ {q} : rq'[p] = rq[p]
        /\ rq' \in [Requests -> Request]
    BY <1>1, <1>2, <1>4
  <2>4. /\ pool' \in [Contexts -> 0 .. 1] /\ code' \in [Contexts -> Codes]
        /\ \A c \in Contexts \ {d} : pool'[c] = pool[c] /\ code'[c] = code[c]
        /\ pool'[d] = 1 => code'[d] = OK
    BY <2>1, <2>2, <1>1, <1>2, <1>4 DEF d
  <2>5. \A c \in Contexts : pool'[c] = 1 => code'[c] = OK
    BY <2>4, <1>1
  <2>6. ASSUME NEW p \in Requests PROVE Served(p)'
    <3>1. CASE p = q
      BY <3>1, <2>3, <1>2 DEF Served
    <3>2. CASE p # q
      <4>1. rq'[p] = rq[p] /\ rq[p].ctx # d /\ Served(p)
        BY <3>2, <2>2, <2>3, <1>1
      <4>2. rq[p].ctx \in Contexts => code'[rq[p].ctx] = code[rq[p].ctx]
        BY <4>1, <2>4
      <4> QED BY <4>1, <4>2, <1>4 DEF Served
    <3> QED BY <3>1, <3>2
  <2>7. ContextsNotShared'
    <3> SUFFICES ASSUME NEW p \in Requests, rq'[p].ctx # None
                 PROVE  /\ pool'[rq'[p].ctx] = 0
                        /\ \A o \in Requests \ {p} : rq'[o].ctx # rq'[p].ctx
      BY DEF ContextsNotShared
    <3>1. p # q /\ rq'[p] = rq[p] /\ rq[p].ctx # d
      BY <2>2, <2>3, <1>2
    <3>2. pool[rq[p].ctx] = 0 /\ \A o \in Requests \ {p} : rq[o].ctx # rq[p].ctx
      BY <3>1, <1>1 DEF ContextsNotShared
    <3>3. rq[p].ctx \in Contexts
      <4>1. rq[p].pc # "idle"
        BY <3>1, <1>1, <1>2 DEF Served
      <4> QED BY <4>1, <1>1 DEF Served
    <3>4. ASSUME NEW o \in Requests \ {p} PROVE rq'[o].ctx # rq'[p].ctx
      BY <3>1, <3>2, <2>3, <1>2
    <3> QED BY <3>1, <3>2, <3>3, <3>4, <2>4
  <2> QED BY <2>3, <2>4, <2>5, <2>6, <2>7
<1>5. CASE rq[q].pc # "idle" /\ Release(q)
  BY <1>4, <1>5 DEF Release, Reset, router
<1>6. CASE UpgradeFails(q)
  BY <1>4, <1>6 DEF UpgradeFails, router
<1>7. ASSUME NEW c \in Contexts, NEW path \in PathsOf[q], Accept(q, c, path)
      PROVE  pool' \in [Contexts -> 0 .. 1] /\ code' \in [Contexts -> Codes]
             /\ rq' \in [Requests -> Request]
             /\ (\A e \in Contexts : pool'[e] = 1 => code'[e] = OK)
             /\ (\A p \in Requests : Served(p)')
             /\ ContextsNotShared'
  <2> DEFINE w == IF path = WSPath THEN "upgrade" ELSE "match"
             t == Begun(c, path, w)
  <2>1. path \in Paths /\ w \in {"upgrade", "match"}
    BY PipelineAssumption
  <2>2. /\ phase = "serving" /\ rq[q].pc = "idle" /\ phase' = phase
        /\ \/ pool[c] > 0 /\ pool' = [pool EXCEPT ![c] = @ - 1] /\ code' = code
           \/ /\ pool[c] = 0 /\ \A p \in Requests : rq[p].ctx # c
              /\ code' = [code EXCEPT ![c] = OK] /\ pool' = pool
        /\ rq' = [rq EXCEPT ![q] = t]
    BY <1>7 DEF Accept, router, Begun
  <2>3. Good(t, OK) /\ t.pc = w /\ t.ctx = c
    <3> HIDE DEF w
    <3> QED BY <2>1, AcceptGood
  <2>4. Folds(t) /\ t \in Request
    <3> HIDE DEF w
    <3>1. t.aggs = <<>> /\ t.answers = <<>>
      BY <2>1, AcceptGood
    <3> HIDE DEF t
    <3>2. t \in Request /\ t.ran = <<>> /\ t.pc # "post" /\ t.pc # "route"
      BY <2>1, <2>3 DEF Good, Routed, Starting
    <3> QED BY <3>1, <3>2, FoldsAtStart
  <2>5. w # "idle"
    OBVIOUS
  <2> HIDE DEF w, t
  <2>6. /\ rq'[q] = t /\ \A p \in Requests \ {q} : rq'[p] = rq[p]
        /\ rq' \in [Requests -> Request]
    BY <2>2, <2>4, <1>1
  <2>7. \A p \in Requests : rq[p].ctx # c
    <3>1. CASE pool[c] > 0
      <4> SUFFICES ASSUME NEW p \in Requests, rq[p].ctx = c PROVE FALSE
        OBVIOUS
      <4>1. pool[c] = 0
        BY <1>1, <1>3 DEF ContextsNotShared
      <4> QED BY <3>1, <4>1
    <3> QED BY <3>1, <2>2
  <2>8. /\ pool' \in [Contexts -> 0 .. 1] /\ code' \in [Contexts -> Codes]
        /\ pool'[c] = 0 /\ code'[c] = OK
        /\ \A e \in Contexts \ {c} : pool'[e] = pool[e] /\ code'[e] = code[e]
    <3>1. CASE pool[c] > 0
      <4>1. pool[c] = 1 /\ pool' = [pool EXCEPT ![c] = 0] /\ code' = code /\ code[c] = OK
        BY <3>1, <2>2, <1>1
      <4> QED BY <4>1, <1>1
    <3>2. CASE ~(pool[c] > 0)
      BY <3>2, <2>2, <1>1, <1>2
    <3> QED BY <3>1, <3>2
  <2>9. \A e \in Contexts : pool'[e] = 1 => code'[e] = OK
    BY <2>8, <1>1
  <2>10. ASSUME NEW p \in Requests PROVE Served(p)'
    <3>1. CASE p = q
      BY <3>1, <2>2, <2>3, <2>4, <2>5, <2>6, <2>8 DEF Served
    <3>2. CASE p # q
      <4>1. rq'[p] = rq[p] /\ rq[p].ctx # c /\ Served(p)
        BY <3>2, <2>6, <2>7, <1>1
      <4>2. rq[p].ctx \in Contexts => code'[rq[p].ctx] = code[rq[p].ctx]
        BY <4>1, <2>8
      <4> QED BY <4>1, <4>2, <2>2 DEF Served
    <3> QED BY <3>1, <3>2
  <2>11. ContextsNotShared'
    <3> SUFFICES ASSUME NEW p \in Requests, rq'[p].ctx # None
                 PROVE  /\ pool'[rq'[p].ctx] = 0
                        /\ \A o \in Requests \ {p} : rq'[o].ctx # rq'[p].ctx
      BY DEF ContextsNotShared
    <3>1. CASE p = q
      BY <3>1, <2>3, <2>6, <2>7, <2>8
    <3>2. CASE p # q
      <4>1. rq'[p] = rq[p] /\ rq[p].ctx # c
        BY <3>2, <2>6, <2>7
      <4>2. pool[rq[p].ctx] = 0 /\ \A o \in Requests \ {p} : rq[o].ctx # rq[p].ctx
        BY <4>1, <1>1 DEF ContextsNotShared
      <4>3. rq[p].ctx \in Contexts
        <5>1. rq[p].pc # "idle"
          BY <4>1, <1>1, <1>2 DEF Served
        <5> QED BY <5>1, <1>1 DEF Served
      <4>4. ASSUME NEW o \in Requests \ {p} PROVE rq'[o].ctx # rq'[p].ctx
        BY <4>1, <4>2, <2>3, <2>6
      <4> QED BY <4>1, <4>2, <4>3, <4>4, <2>8
    <3> QED BY <3>1, <3>2
  <2> QED BY <2>6, <2>8, <2>9, <2>10, <2>11
<1> QED BY <1>5, <1>6, <1>7

\* A request that is served: what the invariant says of it.
LEMMA ServedFacts ==
    ASSUME IInv, NEW q \in Requests, rq[q].pc # "idle"
    PROVE  /\ Registered /\ phase = "serving" /\ rq[q] \in Request
           /\ rq[q].ctx \in Contexts /\ code[rq[q].ctx] \in Codes
           /\ Good(rq[q], code[rq[q].ctx]) /\ Folds(rq[q])
           /\ rq \in [Requests -> Request] /\ code \in [Contexts -> Codes]
           /\ code = [code EXCEPT ![rq[q].ctx] = code[rq[q].ctx]]
<1>1. /\ Registered /\ code \in [Contexts -> Codes] /\ rq \in [Requests -> Request] /\ Served(q)
  BY DEF IInv
<1>2. /\ phase = "serving" /\ rq[q].ctx \in Contexts
      /\ Good(rq[q], code[rq[q].ctx]) /\ Folds(rq[q])
  BY <1>1 DEF Served
<1> HIDE DEF Request, Codes
<1> QED BY <1>1, <1>2

\* A step that leaves the status as it is.
LEMMA GoesSame ==
    ASSUME IInv, NEW q \in Requests, rq[q].pc # "idle", NEW t,
           rq' = [rq EXCEPT ![q] = t], UNCHANGED <<router, pool, code>>,
           Good(t, code[rq[q].ctx]), Folds(t), t.pc # "idle", t.ctx = rq[q].ctx
    PROVE  \E u, k : Goes(q, u, k)
<1>1. code' = [code EXCEPT ![rq[q].ctx] = code[rq[q].ctx]]
  BY ServedFacts
<1>2. Goes(q, t, code[rq[q].ctx])
  BY <1>1 DEF Goes
<1> QED BY <1>2

\* A middleware, a guard, an interceptor, the main handler.
LEMMA LayersGo ==
    ASSUME IInv, NEW q \in Requests,
           \/ \E o \in {"next", "stop", "panic", "nextThenPanic"} : Middleware(q, o)
           \/ \E o \in {"allow", "deny", "panic"} : Guard(q, o)
           \/ \E o \in {"pipe", "skip", "panic"} : Interceptor(q, o)
           \/ \E o \in {"none", "value", "status", "badStatus", "panic"} : Main(q, o)
    PROVE  rq[q].pc # "idle" /\ \E t, k : Goes(q, t, k)
<1> DEFINE s == rq[q]
           c == code[s.ctx]
<1>1. /\ s.pc \in Chaining /\ s.todo # <<>> /\ s.isNext /\ s.pc # "idle"
  BY DEF Middleware, Guard, Interceptor, Main, CanRun, Stopped, Chaining
<1>2. /\ Registered /\ phase = "serving" /\ s \in Request
      /\ s.ctx \in Contexts /\ c \in Codes /\ Good(s, c) /\ Folds(s)
      /\ rq \in [Requests -> Request] /\ code \in [Contexts -> Codes]
  BY <1>1, ServedFacts
<1>3. s.pc # "end" /\ \A i \in 1 .. Len(s.answers) : s.answers[i].by # "main"
  BY <1>1, <1>2 DEF Good, NoDataYet, Chaining
<1> HIDE DEF Request, Codes
<1>4. ASSUME NEW o \in {"next", "stop", "panic", "nextThenPanic"}, Middleware(q, o)
      PROVE  \E t, k : Goes(q, t, k)
  <2> DEFINE n == o \in {"next", "nextThenPanic"}
             u == Ran(s, o, n)
             panics == o \in {"panic", "nextThenPanic"}
             t == IF panics THEN Answer(u, DefaultFilter, 500, <<>>)
                  ELSE IF o = "stop" THEN Answer(u, "middleware", OK, <<>>)
                  ELSE u
             k == IF panics THEN 500 ELSE c
  <2>1. /\ Head(s.todo).kind = "middleware"
        /\ rq' = [rq EXCEPT ![q] = t]
        /\ code' = [code EXCEPT ![u.ctx] = IF panics THEN 500 ELSE @]
        /\ UNCHANGED <<router, pool>>
    BY <1>4 DEF Middleware, CanRun
  <2>2. Good(t, k) /\ t.pc = s.pc /\ t.ctx = s.ctx
    BY <1>1, <1>2, MiddlewareGood
  <2>3. o \in Outs /\ n \in BOOLEAN /\ (n => o \in GoesOn) /\ o # "skip"
    BY DEF Outs, GoesOn
  <2>4. u.ctx = s.ctx /\ u \in Request /\ u.route = s.route /\ u.aggs = s.aggs
        /\ u.answers = s.answers /\ u.pc = s.pc
    <3>1. u = Ran(s, o, n)
      OBVIOUS
    <3> HIDE DEF u, n, s
    <3> QED BY <3>1, <2>3, <1>1, <1>2, RanFields
  <2>5. code' = [code EXCEPT ![s.ctx] = k]
    <3> HIDE DEF u, panics
    <3> QED BY <2>1, <2>4, <1>2
  <2>6. /\ t \in Request /\ t.route = s.route /\ t.ran = u.ran /\ t.aggs = s.aggs
        /\ \A i \in 1 .. Len(t.answers) : t.answers[i].by # "main"
    <3>1. Len(s.answers) \in Nat /\ OK \in Codes /\ 500 \in Codes
      BY <1>2, SeqFields DEF Codes
    <3>2. ASSUME NEW by \in Names \cup {"middleware", "http", "serve"}, by # "main",
                 NEW status \in Codes, NEW v, v = Answer(u, by, status, <<>>)
          PROVE  /\ v \in Request /\ v.route = s.route /\ v.ran = u.ran /\ v.aggs = s.aggs
                 /\ \A i \in 1 .. Len(v.answers) : v.answers[i].by # "main"
      <4> DEFINE value == <<>>
      <4>0. value \in Seq(Datum) /\ v = Answer(u, by, status, value)
        BY <3>2
      <4> HIDE DEF u, value
      <4>1. Replied(u, v, by, status, value)
        BY <4>0, <2>4, AnswerFields
      <4>2. /\ v \in Request /\ v.route = u.route /\ v.ran = u.ran /\ v.aggs = u.aggs
            /\ Len(v.answers) = Len(u.answers) + 1
            /\ \A i \in 1 .. Len(u.answers) : v.answers[i] = u.answers[i]
            /\ v.answers[Len(v.answers)].by = by
        BY <4>1 DEF Replied
      <4>3. ASSUME NEW i \in 1 .. Len(v.answers) PROVE v.answers[i].by # "main"
        <5>1. i \in 1 .. Len(s.answers) \/ i = Len(v.answers)
          BY <4>2, <3>1, <2>4
        <5> QED BY <5>1, <4>2, <3>2, <2>4, <1>3
      <4> QED BY <4>2, <4>3, <2>4
    <3>3. DefaultFilter \in Names /\ DefaultFilter # "main"
      BY DEF DefaultFilter, Names
    <3>4. CASE panics
      <4>1. t = Answer(u, DefaultFilter, 500, <<>>)
        BY <3>4
      <4> HIDE DEF t, u, DefaultFilter
      <4> QED BY <4>1, <3>1, <3>2, <3>3
    <3>5. CASE ~panics /\ o = "stop"
      <4>1. t = Answer(u, "middleware", OK, <<>>)
        BY <3>5
      <4> HIDE DEF t, u, OK
      <4> QED BY <4>1, <3>1, <3>2
    <3>6. CASE ~panics /\ o # "stop"
      <4>1. t = u
        BY <3>6
      <4> HIDE DEF t, u
      <4> QED BY <4>1, <2>4, <1>3
    <3> QED BY <3>4, <3>5, <3>6
  <2>7. Folds(t)
    <3>1. t.ran = Ran(s, o, n).ran
      BY <2>6
    <3> HIDE DEF t, u, n
    <3> QED BY <3>1, <2>1, <2>2, <2>3, <2>6, <1>1, <1>2, LayerFolds
  <2>8. Goes(q, t, k)
    <3> HIDE DEF t, k
    <3> QED BY <2>1, <2>2, <2>5, <2>7, <1>1 DEF Goes
  <2> QED BY <2>8
<1>5. ASSUME NEW o \in {"allow", "deny", "panic"}, Guard(q, o)
      PROVE  \E t, k : Goes(q, t, k)
  <2> DEFINE n == o = "allow"
             u == Ran(s, o, n)
             rec == IF o = "deny" THEN 403 ELSE 500
             t == Guarded(s, o)
  <2>1. /\ Head(s.todo).kind = "guard"
        /\ rq' = [rq EXCEPT ![q] = t] /\ UNCHANGED <<router, pool, code>>
    BY <1>5 DEF Guard, CanRun, Guarded
  <2>2. Good(t, c) /\ t.pc # "idle" /\ t.ctx = s.ctx
    BY <2>1, <1>1, <1>2, GuardGood
  <2>3. o \in Outs /\ n \in BOOLEAN /\ (n => o \in GoesOn) /\ o # "skip"
        /\ rec \in Codes /\ u = Ran(s, o, n)
    BY DEF Outs, GoesOn, Codes
  <2>4. t = IF n THEN u ELSE Panic(u, rec)
    BY ZenonT(60) DEF Guarded
  <2> HIDE DEF u, n, rec, t
  <2>5. /\ u \in Request /\ u.route = s.route /\ u.aggs = s.aggs
        /\ u.answers = s.answers /\ u.pc = s.pc
    BY <2>3, <1>1, <1>2, RanFields
  <2>6. Folds(t)
    <3>1. CASE n
      <4>1. t = u
        BY <3>1, <2>4
      <4> QED BY <4>1, <2>1, <2>3, <2>5, <1>1, <1>2, <1>3, LayerFolds
    <3>2. CASE ~n
      <4>1. t = Panic(u, rec)
        BY <3>2, <2>4
      <4>2. t \in Request /\ t.route = u.route /\ t.ran = u.ran /\ t.answers = u.answers
            /\ t.pc \in {"end", "catch"}
        BY <4>1, <2>3, <2>5, <1>2, PanicFields
      <4> QED BY <4>2, <2>3, <2>5, <1>1, <1>2, <1>3, LayerFolds
    <3> QED BY <3>1, <3>2
  <2> QED BY <2>1, <2>2, <2>6, <1>1, GoesSame
<1>6. ASSUME NEW o \in {"pipe", "skip", "panic"}, Interceptor(q, o)
      PROVE  \E t, k : Goes(q, t, k)
  <2> DEFINE v == Intercepted(s, o)
             t == IF o = "panic" THEN Panic(v, 500) ELSE v
  <2>1. /\ Head(s.todo).kind = "interceptor"
        /\ rq' = [rq EXCEPT ![q] = t] /\ UNCHANGED <<router, pool, code>>
    BY <1>6 DEF Interceptor, CanRun, Intercepted
  <2>2. /\ v \in Request /\ v.pc = s.pc /\ v.ctx = s.ctx
        /\ o # "panic" => Good(v, c)
        /\ o = "panic" => Unanswered(v)
    BY <2>1, <1>1, <1>2, InterceptorGood
  <2>3. Folds(t)
    BY <2>1, <1>1, <1>2, InterceptorFolds
  <2>4. 500 \in Codes
    BY DEF Codes
  <2> HIDE DEF v
  <2>5. Good(t, c) /\ t.pc # "idle" /\ t.ctx = s.ctx
    <3>1. CASE o = "panic"
      <4>1. Good(Panic(v, 500), c) /\ Panic(v, 500).pc = "catch" /\ Panic(v, 500).ctx = v.ctx
        BY <3>1, <2>2, <2>4, <1>2, PanicGood
      <4> QED BY <3>1, <4>1, <2>2
    <3>2. CASE o # "panic"
      BY <3>2, <2>2, <1>1
    <3> QED BY <3>1, <3>2
  <2> HIDE DEF t
  <2> QED BY <2>1, <2>3, <2>5, <1>1, GoesSame
<1>7. ASSUME NEW o \in {"none", "value", "status", "badStatus", "panic"}, Main(q, o)
      PROVE  \E t, k : Goes(q, t, k)
  <2> DEFINE v == Handled(s, o)
             counts == v.aggs = <<>> \/ v.route \in Serves \/ Last(v.aggs).isMainHandlerCalled
             w == Panic(v, 500)
             k == IF counts /\ o = "status" THEN 202 ELSE c
  <2>1. /\ Head(s.todo).kind = "main" /\ UNCHANGED <<router, pool>>
        /\ o = "panic" => rq' = [rq EXCEPT ![q] = w] /\ code' = code
        /\ o # "panic" => /\ rq' = [rq EXCEPT ![q] = v]
                          /\ IF counts THEN SetStatusCode(v.ctx, o) ELSE code' = code
    BY <1>7 DEF Main, CanRun, Handled
  <2>2. AfterMain(s, o, c, v)
    BY <2>1, <1>1, <1>2, MainGood
  <2>3. Folds(v) /\ Folds(w)
    BY <2>1, <1>1, <1>2, MainFolds
  <2>4. 500 \in Codes /\ 202 \in Codes
    BY DEF Codes
  <2> HIDE DEF v
  <2>5. /\ Unanswered(v) /\ v.ctx = s.ctx /\ v.pc # "idle"
        /\ \A k2 \in Codes : (k2 = c \/ (o = "status" /\ k2 = 202)) => Good(v, k2)
    BY <2>2 DEF AfterMain
  <2> HIDE DEF counts
  <2>6. CASE o = "panic"
    <3>1. Good(w, c) /\ w.pc = "catch" /\ w.ctx = v.ctx
      BY <2>4, <2>5, <1>2, PanicGood
    <3> HIDE DEF w
    <3> QED BY <3>1, <2>1, <2>3, <2>5, <2>6, <1>1, GoesSame
  <2>7. CASE o # "panic"
    <3>1. code' = [code EXCEPT ![s.ctx] = k]
      <4>1. code = [code EXCEPT ![s.ctx] = c]
        BY <1>2
      <4> QED BY <4>1, <2>1, <2>5, <2>7, <1>2 DEF SetStatusCode
    <3>2. Good(v, k)
      BY <2>4, <2>5, <1>2
    <3>3. Goes(q, v, k)
      <4> HIDE DEF k
      <4> QED BY <3>1, <3>2, <2>1, <2>3, <2>5, <2>7 DEF Goes
    <3> QED BY <3>3
  <2> QED BY <2>6, <2>7
<1> QED BY <1>1, <1>4, <1>5, <1>6, <1>7

\* Handshake, the route's match, and an extractor that panics.
LEMMA StartsGo ==
    ASSUME IInv, NEW q \in Requests,
           \/ Handshake(q) \/ (\E version : Match(q, version)) \/ ExtractorPanics(q)
    PROVE  rq[q].pc # "idle" /\ \E t, k : Goes(q, t, k)
<1> DEFINE s == rq[q]
           c == code[s.ctx]
<1>1. s.pc \in {"upgrade", "match"} /\ s.pc # "idle"
  BY DEF Handshake, Match, ExtractorPanics
<1>2. /\ Registered /\ phase = "serving" /\ s \in Request
      /\ s.ctx \in Contexts /\ c \in Codes /\ Good(s, c) /\ Folds(s)
      /\ rq \in [Requests -> Request] /\ code \in [Contexts -> Codes]
  BY <1>1, ServedFacts
<1>3. /\ \A p \in {"handshake", "gone", "notFound"} : \A m \in Seq(Layer) : \A k2 \in Codes :
            (\A i \in 1 .. Len(m) : m[i].kind = "middleware") => Good(Started(s, p, None, m), k2)
      /\ \A r \in Routes : Good(Started(s, "route", r, Chain(r)), StatusOf(r))
      /\ c = OK /\ s.route = None
  BY <1>1, <1>2, StartGood
<1>4. s.ran = <<>> /\ s.answers = <<>> /\ s.aggs = <<>> /\ s.isNext
  BY <1>1, <1>2 DEF Good, Routed, Starting
<1>5. ASSUME NEW p \in {"handshake", "gone", "notFound", "route"}, NEW r \in Routes \cup {None},
             NEW m \in Seq(Layer), p = "route" => r \in Routes
      PROVE  /\ Folds(Started(s, p, r, m)) /\ Started(s, p, r, m).pc # "idle"
             /\ Started(s, p, r, m).ctx = s.ctx
  <2> DEFINE t == Started(s, p, r, m)
  <2>1. /\ t \in Request /\ t.pc = p /\ t.route = r /\ t.ctx = s.ctx /\ t.aggs = s.aggs
        /\ t.ran = s.ran /\ t.answers = s.answers
    BY <1>2, StartedFields
  <2> HIDE DEF t
  <2>2. Folds(t)
    BY <2>1, <1>4, <1>5, FoldsAtStart
  <2> QED BY <2>1, <2>2 DEF t
<1>6. ASSUME NEW p, NEW m PROVE [s EXCEPT !.pc = p, !.todo = m] = Started(s, p, None, m)
  <2> HIDE DEF Layer, Mark, Agg, Reply, Names, Datum, Codes, s
  <2> QED BY <1>2, <1>3 DEF Request, Started
<1> HIDE DEF Request, Codes
<1>7. ASSUME Handshake(q) PROVE \E t, k : Goes(q, t, k)
  <2> DEFINE m == Layers("middleware", WSMiddlewares)
             p == "handshake"
             t == Started(s, p, None, m)
             k == 101
  <2>0. m \in Seq(Layer) /\ \A i \in 1 .. Len(m) : m[i].kind = "middleware"
    BY LayersType, PipelineAssumption
  <2>1. k \in Codes /\ p \in {"handshake", "gone", "notFound"}
    BY DEF Codes
  <2>2. /\ rq' = [rq EXCEPT ![q] = [s EXCEPT !.pc = p, !.todo = m]]
        /\ code' = [code EXCEPT ![s.ctx] = k] /\ UNCHANGED <<router, pool>>
    BY <1>2, <1>7 DEF Handshake
  <2> HIDE DEF m, p, k
  <2>3. rq' = [rq EXCEPT ![q] = t]
    BY <2>2, <1>6
  <2>4. Good(t, k)
    BY <2>0, <2>1, <1>3
  <2>5. Folds(t) /\ t.pc # "idle" /\ t.ctx = s.ctx
    BY <2>0, <2>1, <1>5
  <2>6. Goes(q, t, k)
    <3> HIDE DEF t
    <3> QED BY <2>2, <2>3, <2>4, <2>5 DEF Goes
  <2> QED BY <2>6
<1>8. ASSUME NEW version, Match(q, version) PROVE \E t, k : Goes(q, t, k)
  <2> DEFINE hits == IF Found(s.path, version) # {} THEN Found(s.path, version)
                     ELSE Found(s.path, Neutral)
  <2>0. hits \subseteq Routes
    BY DEF Found
  <2>1. CASE hits = {} \/ (isVersioningEnabled /\ version = "")
    <3> DEFINE p == IF hits = {} THEN "notFound" ELSE "gone"
               t == Started(s, p, None, Globals)
    <3>1. GlobalMiddlewares = Globals
      BY <1>2 DEF Registered
    <3>2. /\ rq' = [rq EXCEPT ![q] = [s EXCEPT !.pc = p, !.todo = Globals]]
          /\ UNCHANGED <<router, pool, code>>
      BY <2>1, <3>1, <1>2, <1>8 DEF Match
    <3>3. p \in {"handshake", "gone", "notFound"}
      OBVIOUS
    <3>4. Globals \in Seq(Layer) /\ \A i \in 1 .. Len(Globals) : Globals[i].kind = "middleware"
      <4>1. Global["middleware"] \in Seq(STRING)
        BY PipelineAssumption DEF Kinds
      <4> QED BY <4>1, LayersType DEF Globals
    <3> HIDE DEF p
    <3>5. rq' = [rq EXCEPT ![q] = t]
      BY <3>2, <1>6
    <3>6. Good(t, c)
      BY <3>3, <3>4, <1>2, <1>3
    <3>7. Folds(t) /\ t.pc # "idle" /\ t.ctx = s.ctx
      BY <3>3, <3>4, <1>5
    <3> HIDE DEF t
    <3> QED BY <3>2, <3>5, <3>6, <3>7, <1>1, GoesSame
  <2>2. CASE ~(hits = {} \/ (isVersioningEnabled /\ version = ""))
    <3>1. PICK r \in hits :
             /\ rq' = [rq EXCEPT ![q].pc = "route", ![q].route = r, ![q].todo = items[r].handlers]
             /\ code' = [code EXCEPT ![s.ctx] = IF r \in Posts THEN Created ELSE @]
             /\ UNCHANGED <<router, pool>>
      BY <2>2, <1>8 DEF Match
    <3>2. r \in Routes
      BY <2>0
    <3> DEFINE p == "route"
               k == StatusOf(r)
               m == Chain(r)
               t == Started(s, p, r, m)
    <3>3. items[r].handlers = m
      BY <3>2, <1>2 DEF Registered
    <3>4. rq' = [rq EXCEPT ![q] = t]
      BY <3>1, <3>3, <1>2 DEF Started
    <3>5. code' = [code EXCEPT ![s.ctx] = k]
      BY <3>1, <1>2, <1>3 DEF StatusOf
    <3>6. Good(t, k)
      BY <3>2, <1>3
    <3>7. Folds(t) /\ t.pc # "idle" /\ t.ctx = s.ctx
      <4>1. m \in Seq(Layer) /\ p \in {"handshake", "gone", "notFound", "route"}
        BY <3>2, ChainParts
      <4> HIDE DEF m, p
      <4> QED BY <4>1, <3>2, <1>5
    <3>8. Goes(q, t, k)
      <4> HIDE DEF t, k
      <4> QED BY <3>1, <3>4, <3>5, <3>6, <3>7 DEF Goes
    <3> QED BY <3>8
  <2> QED BY <2>1, <2>2
<1>9. ASSUME ExtractorPanics(q) PROVE \E t, k : Goes(q, t, k)
  <2> DEFINE t == Ended(s)
  <2>1. /\ rq' = [rq EXCEPT ![q] = t] /\ UNCHANGED <<router, pool, code>> /\ s.pc = "match"
    BY <1>2, <1>3, <1>9 DEF ExtractorPanics, Panic, Ended
  <2>2. Good(t, c)
    BY <2>1, <1>2, ChainEndGood
  <2>3. /\ t \in Request /\ t.pc = "end" /\ t.ctx = s.ctx /\ t.aggs = s.aggs
        /\ t.ran = s.ran /\ t.answers = s.answers
    BY <1>2, EndFields DEF Ended
  <2> HIDE DEF t
  <2>4. Folds(t)
    BY <2>3, <1>4, FoldsAtStart
  <2> QED BY <2>1, <2>2, <2>3, <2>4, <1>1, GoesSame
<1> QED BY <1>1, <1>7, <1>8, <1>9

\* The fold and the return of its data.
LEMMA PostGoes ==
    ASSUME IInv, NEW q \in Requests,
           \/ \E o \in {"transform", "filter", "fail"} : Aggregate(q, o)
           \/ ShortCircuit(q) \/ ReturnData(q)
    PROVE  rq[q].pc # "idle" /\ \E t, k : Goes(q, t, k)
<1> DEFINE s == rq[q]
           c == code[s.ctx]
<1>1. s.pc = "post" /\ s.pc # "idle"
  BY DEF Aggregate, ShortCircuit, ReturnData
<1>2. /\ Registered /\ phase = "serving" /\ s \in Request
      /\ s.ctx \in Contexts /\ c \in Codes /\ Good(s, c) /\ Folds(s)
      /\ rq \in [Requests -> Request] /\ code \in [Contexts -> Codes]
  BY <1>1, ServedFacts
<1>3. /\ \A i \in 1 .. Len(s.answers) : s.answers[i].by # "main"
      /\ s.route \in Routes
  BY <1>1, <1>2 DEF Good, NoDataYet, Routed
<1>4. 500 \in Codes
  BY DEF Codes
<1>5. Len(s.answers) \in Nat /\ s.data \in Seq(Datum) /\ s.aggs \in Seq(Agg)
  BY <1>2, SeqFields
<1> HIDE DEF Request, Codes
<1>6. ASSUME NEW o \in {"transform", "filter", "fail"}, Aggregate(q, o)
      PROVE  \E t, k : Goes(q, t, k)
  <2> DEFINE agg == Last(s.aggs)
             d == IF o = "filter" THEN <<"filtered">> ELSE Append(s.data, agg.name)
  <2>1. /\ s.aggs # <<>> /\ agg.isMainHandlerCalled
        /\ UNCHANGED <<router, pool, code>>
    BY <1>6 DEF Aggregate
  <2>2. CASE o \in {"transform", "filter"}
    <3> DEFINE t == Folded(s, d)
    <3>1. rq' = [rq EXCEPT ![q] = [s EXCEPT !.aggs = Front(s.aggs), !.data = d]]
      BY <2>2, <1>2, <1>6 DEF Aggregate
    <3>2. d \in Seq(Datum)
      <4>1. agg \in Agg
        BY <2>1, <1>5 DEF Last
      <4>2. agg.name \in Datum /\ "filtered" \in Datum
        BY <4>1 DEF Agg, Datum
      <4> HIDE DEF agg, Datum
      <4> QED BY <4>2, <1>5
    <3>3. d = <<"filtered">> \/ d = Append(s.data, Last(s.aggs).name)
      OBVIOUS
    <3> HIDE DEF d
    <3>4. rq' = [rq EXCEPT ![q] = t]
      BY <3>1 DEF Folded
    <3>5. Good(t, c) /\ t.pc # "idle" /\ t.ctx = s.ctx
      <4>1. \A e \in Seq(Datum) : /\ Good(Folded(s, e), c)
                                  /\ Folded(s, e).pc # "idle" /\ Folded(s, e).ctx = s.ctx
        BY <2>1, <1>1, <1>2, AggregateGood, ZenonT(60)
      <4> QED BY <4>1, <3>2, Zenon
    <3>6. Folds(t)
      BY <3>2, <3>3, <2>1, <1>1, <1>2, FoldedFolds
    <3> HIDE DEF t
    <3> QED BY <3>4, <3>5, <3>6, <2>1, <1>1, GoesSame
  <2>3. CASE o = "fail"
    <3> DEFINE t == Panic(s, 500)
    <3>1. rq' = [rq EXCEPT ![q] = t]
      BY <2>3, <1>6 DEF Aggregate
    <3>2. Good(t, c) /\ t.pc # "idle" /\ t.ctx = s.ctx
      BY <2>1, <1>1, <1>2, AggregateGood
    <3>3. t.route = s.route /\ t.ran = s.ran /\ t.answers = s.answers
          /\ t.pc \in {"end", "catch"}
      BY <1>2, <1>4, PanicFields
    <3> HIDE DEF t
    <3>4. Folds(t)
      BY <3>3, <1>2, <1>3, FoldsLater
    <3> QED BY <3>1, <3>2, <3>4, <2>1, <1>1, GoesSame
  <2> QED BY <2>2, <2>3
<1>7. /\ \A k2 \in Codes : \A status \in Codes :
            Good(Answer(Ended(s), "serve", status, <<>>), k2)
      /\ Good(Ended(s), c)
      /\ \A value \in Seq(Datum) : Good(Answer(Ended(s), "main", c, value), c)
      /\ Good(Panic(Ended(s), 500), c)
  BY <1>1, <1>2, ReturnGood
<1>8. /\ Ended(s) \in Request /\ Ended(s).pc = "end" /\ Ended(s).ctx = s.ctx
      /\ Ended(s).route = s.route /\ Ended(s).ran = s.ran /\ Ended(s).answers = s.answers
  <2> DEFINE t == Ended(s)
  <2>1. t = [s EXCEPT !.pc = "end"]
    BY DEF Ended
  <2> HIDE DEF t
  <2>2. /\ t \in Request /\ t.pc = "end" /\ t.ctx = s.ctx
        /\ t.route = s.route /\ t.ran = s.ran /\ t.answers = s.answers
    BY <2>1, <1>2, EndFields
  <2> QED BY <2>2 DEF t
<1>9. ASSUME NEW by \in Names \cup {"middleware", "http", "serve"}, NEW status \in Codes,
             NEW value \in Seq(Datum), by = "main" => FoldOf(s, value)
      PROVE  /\ Folds(Answer(Ended(s), by, status, value))
             /\ Answer(Ended(s), by, status, value).pc # "idle"
             /\ Answer(Ended(s), by, status, value).ctx = s.ctx
  <2> DEFINE u == Ended(s)
             t == Answer(u, by, status, value)
  <2> HIDE DEF u
  <2>1. Replied(u, t, by, status, value)
    BY <1>8, AnswerFields DEF u
  <2> HIDE DEF t
  <2>2. /\ t.pc = "end" /\ t.ctx = s.ctx /\ t.route = s.route /\ t.ran = s.ran
        /\ Len(t.answers) = Len(s.answers) + 1
        /\ \A i \in 1 .. Len(s.answers) : t.answers[i] = s.answers[i]
        /\ t.answers[Len(t.answers)].by = by
        /\ t.answers[Len(t.answers)].value = value
    BY <2>1, <1>8 DEF Replied, u
  <2>3. ASSUME NEW i \in 1 .. Len(t.answers), t.answers[i].by = "main"
        PROVE  t.route \in Routes /\ FoldOf(s, t.answers[i].value)
    <3>1. i \in 1 .. Len(s.answers) \/ i = Len(t.answers)
      BY <2>2, <1>5
    <3>2. i = Len(t.answers)
      BY <3>1, <2>2, <2>3, <1>3
    <3> QED BY <3>2, <2>2, <2>3, <1>3, <1>9
  <2>4. Folds(t)
    BY <2>2, <2>3, <1>2, FoldsLater
  <2> QED BY <2>2, <2>4 DEF t, u
<1>10. ASSUME NEW value \in Seq(Datum), FoldOf(s, value), Return(q, value), UNCHANGED <<router, pool>>
       PROVE  \E t, k : Goes(q, t, k)
  <2>1. ASSUME NEW o \in {"file", "missing", "outside"}, ServeContent(q, o)
        PROVE  \E t, k : Goes(q, t, k)
    <3> DEFINE status == CASE o = "file" -> OK [] o = "missing" -> 404 [] o = "outside" -> 400
               by == "serve"
               none == <<>>
               t == Answer(Ended(s), by, status, none)
               k == IF o = "file" THEN c ELSE status
    <3>1. status \in Codes
      BY DEF Codes
    <3>2. rq' = [rq EXCEPT ![q] = t] /\ code' = [code EXCEPT ![s.ctx] = k]
      <4>1. rq' = [rq EXCEPT ![q] = t]
        BY <2>1 DEF ServeContent, Ended
      <4>2. code' = [code EXCEPT ![Ended(s).ctx] = IF o = "file" THEN @ ELSE status]
        BY <2>1 DEF ServeContent, Ended
      <4> HIDE DEF status
      <4> QED BY <4>1, <4>2, <1>2, <1>8
    <3> HIDE DEF status
    <3>3. k \in Codes
      BY <3>1, <1>2
    <3>4. Good(t, k)
      BY <3>1, <3>3, <1>7
    <3>5. by # "main" /\ by \in Names \cup {"middleware", "http", "serve"} /\ none \in Seq(Datum)
      OBVIOUS
    <3> HIDE DEF by, none
    <3>6. Folds(t) /\ t.pc # "idle" /\ t.ctx = s.ctx
      BY <3>1, <3>5, <1>9
    <3>7. Goes(q, t, k)
      <4> HIDE DEF t, k
      <4> QED BY <3>2, <3>4, <3>6, <1>10 DEF Goes
    <3> QED BY <3>7
  <2>2. ASSUME NEW o \in {"written", "panic"}, ReturnHTTP(q, value, o)
        PROVE  \E t, k : Goes(q, t, k)
    <3> DEFINE u == Ended(s)
               t == IF value \in {<<"nil">>, <<"filtered">>} THEN u
                    ELSE IF o = "written" THEN Answer(u, "main", c, value)
                    ELSE Panic(u, 500)
    <3>1. rq' = [rq EXCEPT ![q] = t] /\ UNCHANGED code
      <4>1. rq' = [rq EXCEPT ![q] = IF value \in {<<"nil">>, <<"filtered">>} THEN u
                                 ELSE IF o = "written"
                                 THEN Answer(u, "main", code[u.ctx], value)
                                 ELSE Panic(u, 500)] /\ UNCHANGED code
        BY <2>2 DEF ReturnHTTP, Ended
      <4>2. u.ctx = s.ctx
        BY <1>8
      <4> HIDE DEF u, s
      <4> QED BY <4>1, <4>2
    <3>2. CASE t = u
      <4>1. Folds(u)
        BY <1>2, <1>3, <1>8, FoldsLater
      <4>2. Good(u, c) /\ u.pc # "idle" /\ u.ctx = s.ctx
        BY <1>7, <1>8
      <4> HIDE DEF t, u
      <4> QED BY <3>1, <3>2, <4>1, <4>2, <1>1, <1>10, GoesSame
    <3>3. CASE t = Answer(u, "main", c, value)
      <4> DEFINE by == "main"
                 w == Answer(u, by, c, value)
      <4>1. by \in Names \cup {"middleware", "http", "serve"}
        BY DEF Names
      <4>2. Good(w, c)
        BY <1>7
      <4>4. t = w
        BY <3>3
      <4> HIDE DEF by
      <4>3. Folds(w) /\ w.pc # "idle" /\ w.ctx = s.ctx
        BY <4>1, <1>2, <1>9, <1>10
      <4> HIDE DEF t, w
      <4> QED BY <3>1, <4>2, <4>3, <4>4, <1>1, <1>10, GoesSame
    <3>4. CASE t = Panic(u, 500)
      <4> DEFINE w == Panic(u, 500)
      <4>1. w.route = u.route /\ w.ran = u.ran /\ w.answers = u.answers
        <5> DEFINE rec == 500
        <5>1. w = Panic(u, rec) /\ rec \in Codes /\ u \in Request
          BY <1>4, <1>8
        <5> HIDE DEF w, u, rec
        <5> QED BY <5>1, <1>2, PanicFields
      <4>2. w.pc \in {"end", "catch"} /\ w.ctx = u.ctx
        <5> DEFINE rec == 500
        <5>1. w = Panic(u, rec) /\ rec \in Codes /\ u \in Request
          BY <1>4, <1>8
        <5> HIDE DEF w, u, rec
        <5> QED BY <5>1, <1>2, PanicFields
      <4>3. Good(w, c)
        BY <1>7
      <4> HIDE DEF w
      <4>4. Folds(w)
        BY <4>1, <4>2, <1>2, <1>3, <1>8, FoldsLater
      <4>5. t = w
        BY <3>4 DEF w
      <4>6. w.pc # "idle" /\ w.ctx = s.ctx
        BY <4>2, <1>8
      <4> HIDE DEF t
      <4> QED BY <3>1, <4>3, <4>4, <4>5, <4>6, <1>1, <1>10, GoesSame
    <3> HIDE DEF u
    <3> QED BY <3>2, <3>3, <3>4
  <2> QED BY <2>1, <2>2, <1>10 DEF Return
<1>11. ASSUME ShortCircuit(q) PROVE \E t, k : Goes(q, t, k)
  <2> DEFINE value == <<"own", Last(s.aggs).name>>
  <2>1. /\ s.aggs # <<>> /\ ~Last(s.aggs).isMainHandlerCalled
        /\ Return(q, value) /\ UNCHANGED <<router, pool>>
    BY <1>11 DEF ShortCircuit
  <2>2. FoldOf(s, value)
    BY <2>1, <1>1, <1>2, ReturnFolds
  <2>3. value \in Seq(Datum)
    <3>1. Last(s.aggs) \in Agg
      BY <2>1, <1>5 DEF Last
    <3>2. Last(s.aggs).name \in Datum /\ "own" \in Datum
      BY <3>1 DEF Agg, Datum
    <3> DEFINE x == Last(s.aggs).name
               y == "own"
    <3> HIDE DEF x, y, Datum
    <3>3. <<y, x>> \in Seq(Datum)
      BY <3>2 DEF x, y
    <3> QED BY <3>3 DEF x, y
  <2> HIDE DEF value
  <2> QED BY <2>1, <2>2, <2>3, <1>10
<1>12. ASSUME ReturnData(q) PROVE \E t, k : Goes(q, t, k)
  <2>1. s.aggs = <<>> /\ Return(q, s.data) /\ UNCHANGED <<router, pool>>
    BY <1>12 DEF ReturnData
  <2>2. FoldOf(s, s.data)
    BY <2>1, <1>1, <1>2, ReturnFolds
  <2> QED BY <2>1, <2>2, <1>5, <1>10
<1> QED BY <1>1, <1>6, <1>11, <1>12

\* The catch chain and the end of the loop over the handlers.
LEMMA EndsGo ==
    ASSUME IInv, NEW q \in Requests,
           (\E o \in {"answer", "panic"} : Catch(q, o)) \/ ChainEnd(q)
    PROVE  rq[q].pc # "idle" /\ \E t, k : Goes(q, t, k)
<1> DEFINE s == rq[q]
           c == code[s.ctx]
<1>1. s.pc \in {"catch", "gone", "notFound", "route"} /\ s.pc # "idle"
  BY DEF Catch, ChainEnd
<1>2. /\ Registered /\ phase = "serving" /\ s \in Request
      /\ s.ctx \in Contexts /\ c \in Codes /\ Good(s, c) /\ Folds(s)
      /\ rq \in [Requests -> Request] /\ code \in [Contexts -> Codes]
  BY <1>1, ServedFacts
<1>3. \A i \in 1 .. Len(s.answers) : s.answers[i].by # "main"
  BY <1>1, <1>2 DEF Good, NoDataYet
<1>5. Len(s.answers) \in Nat
  BY <1>2, SeqFields
<1> HIDE DEF Request, Codes
<1>6. ASSUME NEW u \in Request, u.pc = "end", u.ctx = s.ctx, u.route = s.route, u.ran = s.ran,
             u.answers = s.answers,
             NEW by \in Names \cup {"middleware", "http", "serve"}, by # "main",
             NEW status \in Codes
      PROVE  LET t == Answer(u, by, status, <<>>) IN Folds(t) /\ t.pc # "idle" /\ t.ctx = s.ctx
  <2> DEFINE value == <<>>
             t == Answer(u, by, status, value)
  <2>0. value \in Seq(Datum)
    OBVIOUS
  <2> HIDE DEF value
  <2>1. Replied(u, t, by, status, value)
    BY <2>0, <1>6, AnswerFields
  <2> HIDE DEF t
  <2>2. /\ t.pc = "end" /\ t.ctx = s.ctx /\ t.route = s.route /\ t.ran = s.ran
        /\ Len(t.answers) = Len(s.answers) + 1
        /\ \A i \in 1 .. Len(s.answers) : t.answers[i] = s.answers[i]
        /\ t.answers[Len(t.answers)].by = by
    BY <2>1, <1>6 DEF Replied
  <2>3. ASSUME NEW i \in 1 .. Len(t.answers) PROVE t.answers[i].by # "main"
    <3>1. i \in 1 .. Len(s.answers) \/ i = Len(t.answers)
      BY <2>2, <1>5
    <3> QED BY <3>1, <2>2, <1>3, <1>6
  <2>4. Folds(t)
    BY <2>2, <2>3, <1>2, FoldsLater
  <2> QED BY <2>2, <2>4 DEF t, value
<1>7. ASSUME NEW o \in {"answer", "panic"}, Catch(q, o) PROVE \E t, k : Goes(q, t, k)
  <2> DEFINE f == Head(s.catchFns)
             v == Caught(s, o)
  <2>1. /\ s.pc = "catch" /\ o \in Outcomes[f]
        /\ UNCHANGED <<router, pool>>
        /\ o = "panic" => rq' = [rq EXCEPT ![q] = Passed(s, o)] /\ UNCHANGED code
        /\ o # "panic" => /\ rq' = [rq EXCEPT ![q] = Answer(Ended(v), f, v.rec, <<>>)]
                          /\ code' = [code EXCEPT ![v.ctx] = v.rec]
    BY <1>7 DEF Catch, Passed, Caught, Ended
  <2>2. /\ o = "panic" => Good(Passed(s, o), c) /\ Passed(s, o).pc = "catch"
                          /\ Passed(s, o).ctx = s.ctx
        /\ o # "panic" => Good(Answer(Ended(v), f, s.rec, <<>>), s.rec)
        /\ v \in Request /\ v.ctx = s.ctx /\ v.pc = s.pc
        /\ v.rec = s.rec /\ s.rec \in Codes
    BY <2>1, <1>2, CatchGood
  <2>3. s.route \in Routes /\ Catching(s)
    BY <2>1, <1>2 DEF Good, Routed
  <2>4. /\ v.route = s.route /\ v.ran = s.ran /\ v.answers = s.answers
        /\ f \in Names /\ f # "main"
    BY <2>1, <2>3, <1>2, CaughtFields
  <2> HIDE DEF v, f
  <2>5. CASE o = "panic"
    <3> DEFINE t == Passed(s, o)
    <3>1. t.route = v.route /\ t.ran = v.ran /\ t.answers = v.answers
      <4> DEFINE d == Tail(v.catchFns)
                 p == IF Len(v.catchFns) = 1 THEN "end" ELSE "catch"
                 e == 500
      <4>1. t = [v EXCEPT !.catchFns = d, !.rec = e, !.pc = p]
        BY DEF Passed, v
      <4> HIDE DEF t, d, p, e, Layer, Mark, Agg, Reply, Names, Datum, Codes
      <4> QED BY <4>1, <2>2 DEF Request
    <3> HIDE DEF t
    <3>2. Good(t, c) /\ t.pc = "catch" /\ t.ctx = s.ctx
      BY <2>2, <2>5 DEF t
    <3>3. Folds(t)
      BY <3>1, <3>2, <2>4, <1>2, <1>3, FoldsLater
    <3>4. rq' = [rq EXCEPT ![q] = t] /\ UNCHANGED <<router, pool, code>>
      BY <2>1, <2>5 DEF t
    <3> QED BY <3>2, <3>3, <3>4, <1>1, GoesSame
  <2>6. CASE o # "panic"
    <3> DEFINE u == Ended(v)
               t == Answer(u, f, s.rec, <<>>)
    <3>1. /\ u \in Request /\ u.pc = "end" /\ u.ctx = v.ctx /\ u.route = v.route /\ u.ran = v.ran
          /\ u.answers = v.answers
      <4>1. u = [v EXCEPT !.pc = "end"]
        BY DEF Ended
      <4> HIDE DEF u
      <4> QED BY <4>1, <2>2, EndFields
    <3> HIDE DEF u
    <3>2. Folds(t) /\ t.pc # "idle" /\ t.ctx = s.ctx
      BY <3>1, <2>2, <2>4, <1>6
    <3>3. Good(t, s.rec) /\ rq' = [rq EXCEPT ![q] = t] /\ code' = [code EXCEPT ![s.ctx] = s.rec]
      BY <2>1, <2>2, <2>6 DEF u
    <3>4. Goes(q, t, s.rec)
      <4> HIDE DEF t
      <4> QED BY <3>2, <3>3, <2>1 DEF Goes
    <3> QED BY <3>4
  <2> QED BY <2>5, <2>6
<1>8. ASSUME ChainEnd(q) PROVE \E t, k : Goes(q, t, k)
  <2> DEFINE u == Ended(s)
             status == IF s.pc = "gone" THEN 410 ELSE 404
             t == Answer(u, "http", status, <<>>)
  <2>1. /\ s.pc \in {"gone", "notFound", "route"} /\ UNCHANGED <<router, pool>>
        /\ s.pc # "route" /\ u.isNext => /\ rq' = [rq EXCEPT ![q] = t]
                                         /\ code' = [code EXCEPT ![u.ctx] = status]
        /\ ~(s.pc # "route" /\ u.isNext) => rq' = [rq EXCEPT ![q] = u] /\ UNCHANGED code
    BY <1>8 DEF ChainEnd, Ended
  <2>2. status \in Codes
    BY DEF Codes
  <2> HIDE DEF status
  <2>3. /\ u \in Request /\ u.pc = "end" /\ u.ctx = s.ctx /\ u.route = s.route /\ u.ran = s.ran
        /\ u.answers = s.answers /\ u.isNext = s.isNext
    <3>1. u = [s EXCEPT !.pc = "end"]
      BY DEF Ended
    <3> HIDE DEF u
    <3> QED BY <3>1, <1>2, EndFields
  <2>4. /\ \A k2 \in Codes : Good(u, k2)
        /\ s.isNext => \A k2 \in Codes : Good(t, k2)
    BY <2>1, <2>2, <1>2, ChainEndGood
  <2> HIDE DEF u
  <2>5. CASE s.pc # "route" /\ u.isNext
    <3> DEFINE by == "http"
               w == Answer(u, by, status, <<>>)
    <3>1. by # "main" /\ by \in Names \cup {"middleware", "http", "serve"} /\ w = t
      OBVIOUS
    <3> HIDE DEF by
    <3>2. Folds(w) /\ w.pc # "idle" /\ w.ctx = s.ctx
      BY <3>1, <2>2, <2>3, <1>6
    <3>3. Good(w, status)
      BY <3>1, <2>2, <2>3, <2>4, <2>5
    <3>4. Goes(q, w, status)
      <4> HIDE DEF w, t
      <4> QED BY <3>1, <3>2, <3>3, <2>1, <2>3, <2>5 DEF Goes
    <3> QED BY <3>4
  <2>6. CASE ~(s.pc # "route" /\ u.isNext)
    <3>1. Folds(u)
      BY <2>3, <1>2, <1>3, FoldsLater
    <3>2. Good(u, c)
      BY <2>4, <1>2
    <3> QED BY <3>1, <3>2, <2>1, <2>3, <2>6, <1>1, GoesSame
  <2> QED BY <2>5, <2>6
<1> QED BY <1>1, <1>7, <1>8

----------------------------------------------------------------------------
\* The invariant holds before Create and is kept by every step.
THEOREM Invariance == Spec => []IInv
<1>1. Init => IInv
  <2> SUFFICES ASSUME Init PROVE IInv
    OBVIOUS
  <2>1. /\ Idle \in Request /\ Idle.pc = "idle" /\ Idle.ctx = None /\ OK \in Codes
    BY IdleFields DEF Codes
  <2>2. Registered
    BY DEF Init, Registered, Before, NewItem
  <2> HIDE DEF Request, Idle, Codes, OK
  <2>3. /\ isVersioningEnabled \in BOOLEAN
        /\ pool \in [Contexts -> 0 .. 1] /\ code \in [Contexts -> Codes]
        /\ rq \in [Requests -> Request]
        /\ \A c \in Contexts : pool[c] # 1
        /\ \A q \in Requests : rq[q] = Idle
    BY <2>1 DEF Init
  <2>4. (\A q \in Requests : Served(q)) /\ ContextsNotShared
    BY <2>1, <2>3 DEF Served, ContextsNotShared
  <2> QED BY <2>2, <2>3, <2>4 DEF IInv
<1>2. IInv /\ [Next]_vars => IInv'
  <2> SUFFICES ASSUME IInv, [Next]_vars PROVE IInv'
    OBVIOUS
  <2> DEFINE Rest == /\ pool' \in [Contexts -> 0 .. 1] /\ code' \in [Contexts -> Codes]
                     /\ rq' \in [Requests -> Request]
                     /\ \A c \in Contexts : pool'[c] = 1 => code'[c] = OK
                     /\ \A p \in Requests : Served(p)'
                     /\ ContextsNotShared'
  <2>1. Registered /\ isVersioningEnabled \in BOOLEAN
    BY DEF IInv
  <2>2. Registered'
    BY <2>1, NextRegistered
  <2> HIDE DEF Registered
  <2>3. ASSUME UNCHANGED <<isVersioningEnabled, pool, code, rq>>, phase = "serving" => phase' = phase
        PROVE  isVersioningEnabled' = isVersioningEnabled /\ Rest
    <3>1. \A p \in Requests : Served(p)'
      BY <2>3 DEF IInv, Served
    <3>2. ContextsNotShared'
      BY <2>3 DEF IInv, ContextsNotShared
    <3> QED BY <2>3, <3>1, <3>2 DEF IInv
  <2>4. ASSUME UNCHANGED vars PROVE isVersioningEnabled' = isVersioningEnabled /\ Rest
    BY <2>3, <2>4 DEF vars, router
  <2>5. ASSUME Create PROVE isVersioningEnabled' = isVersioningEnabled /\ Rest
    BY <2>3, <2>5 DEF Create, InitMiddlewares, InitExceptionFilters, InitGuards, InitInterceptors,
       InitMainHandlers
  <2>6. ASSUME NEW q \in Requests, NEW c \in Contexts, NEW path \in PathsOf[q], Accept(q, c, path)
        PROVE  isVersioningEnabled' = isVersioningEnabled /\ Rest
    <3>1. Rest
      BY <2>6, PoolKeeps
    <3> QED BY <3>1, <2>6 DEF Accept, router
  <2>7. ASSUME NEW q \in Requests, (rq[q].pc # "idle" /\ Release(q)) \/ UpgradeFails(q)
        PROVE  isVersioningEnabled' = isVersioningEnabled /\ Rest
    <3>1. Rest
      BY <2>7, PoolKeeps
    <3> QED BY <3>1, <2>7 DEF Release, UpgradeFails, router
  <2>8. ASSUME NEW q \in Requests, rq[q].pc # "idle", \E t, k : Goes(q, t, k)
        PROVE  isVersioningEnabled' = isVersioningEnabled /\ Rest
    <3>1. PICK t, k : Goes(q, t, k)
      BY <2>8
    <3>2. Rest
      BY <3>1, <2>8, GoesKeeps
    <3> QED BY <3>1, <3>2 DEF Goes, router
  <2>9. ASSUME NEW q \in Requests, Step(q)
        PROVE  isVersioningEnabled' = isVersioningEnabled /\ Rest
    <3> HIDE DEF Rest
    <3>1. CASE UpgradeFails(q) \/ HandshakeEnd(q) \/ End(q)
      BY <3>1, <2>7 DEF HandshakeEnd, End
    <3>2. CASE \/ Handshake(q) \/ ExtractorPanics(q)
               \/ \E version \in IF isVersioningEnabled THEN Versions ELSE {""} : Match(q, version)
      BY <3>2, <2>8, StartsGo
    <3>3. CASE \/ \E o \in {"next", "stop", "panic", "nextThenPanic"} : Middleware(q, o)
               \/ \E o \in {"allow", "deny", "panic"} : Guard(q, o)
               \/ \E o \in {"pipe", "skip", "panic"} : Interceptor(q, o)
               \/ \E o \in {"none", "value", "status", "badStatus", "panic"} : Main(q, o)
      BY <3>3, <2>8, LayersGo
    <3>4. CASE \/ \E o \in {"transform", "filter", "fail"} : Aggregate(q, o)
               \/ ShortCircuit(q) \/ ReturnData(q)
      BY <3>4, <2>8, PostGoes
    <3>5. CASE (\E o \in {"answer", "panic"} : Catch(q, o)) \/ ChainEnd(q)
      BY <3>5, <2>8, EndsGo
    <3> QED BY <3>1, <3>2, <3>3, <3>4, <3>5, <2>9 DEF Step
  <2>10. isVersioningEnabled' = isVersioningEnabled /\ Rest
    <3> HIDE DEF Rest
    <3> QED BY <2>4, <2>5, <2>6, <2>9 DEF Next
  <2> QED BY <2>1, <2>2, <2>10 DEF IInv
<1> QED BY <1>1, <1>2, PTL DEF Spec

\* The variables keep their types.
THEOREM Typing == Spec => []TypeOK
<1>1. IInv => TypeOK
  <2> SUFFICES ASSUME IInv PROVE TypeOK
    OBVIOUS
  <2>1. Registered /\ isVersioningEnabled \in BOOLEAN
        /\ pool \in [Contexts -> 0 .. 1] /\ code \in [Contexts -> Codes]
        /\ rq \in [Requests -> Request]
    BY DEF IInv
  <2>2. phase \in {"initMiddlewares", "initExceptionFilters", "initGuards",
                   "initInterceptors", "initMainHandlers", "serving"}
    BY <2>1 DEF Registered
  <2>3. ASSUME NEW r \in Routes
        PROVE  items[r].handlerIndex \in -1 .. Len(items[r].handlers) - 1
    <3>1. CASE phase = "serving"
      <4>1. items[r].handlers = Chain(r) /\ items[r].handlerIndex = Len(Chain(r)) - 1
        BY <3>1, <2>1 DEF Registered
      <4>2. Len(Chain(r)) \in Nat
        BY ChainParts
      <4> QED BY <4>1, <4>2
    <3>2. CASE phase # "serving"
      <4> DEFINE b == Before(phase, r)
                 hs == IF b = <<>> THEN <<>> ELSE Globals \o b
      <4>0. items[r] = [handlers |-> hs, handlerIndex |-> -1]
        BY <3>2, <2>1 DEF Registered
      <4>1. items[r].handlers = hs /\ items[r].handlerIndex = -1
        <5> HIDE DEF hs
        <5> QED BY <4>0
      <4>2. Globals \in Seq(Layer) /\ b \in Seq(Layer)
        <5>1. /\ Globals \in Seq(Layer) /\ Middlewares(r) \in Seq(Layer) /\ Guards(r) \in Seq(Layer)
              /\ Layers("interceptor", Interceptors(r)) \in Seq(Layer)
          BY PartsType
        <5> QED BY <5>1 DEF Before
      <4> HIDE DEF b
      <4>3. Len(hs) \in Nat
        BY <4>2
      <4> HIDE DEF hs
      <4> QED BY <4>1, <4>3
    <3> QED BY <3>1, <3>2
  <2>4. ASSUME NEW q \in Requests
        PROVE  /\ rq[q].pc \in {"idle", "upgrade", "handshake", "match", "gone", "notFound",
                                "route", "post", "catch", "end"}
               /\ rq[q].ctx \in Contexts \cup {None}
               /\ rq[q].route \in Routes \cup {None}
    <3> HIDE DEF Layer, Mark, Agg, Reply, Names, Datum, Codes
    <3>1. rq[q] \in Request
      BY <2>1
    <3> QED BY <3>1 DEF Request
  <2> HIDE DEF Request, Codes
  <2> QED BY <2>1, <2>2, <2>3, <2>4 DEF TypeOK
<1> QED BY <1>1, Invariance, PTL

\* ctxPool: no context is used by two requests, or pooled while one uses it.
THEOREM PoolIsExclusive == Spec => []ContextsNotShared
<1>1. IInv => ContextsNotShared
  BY DEF IInv
<1> QED BY <1>1, Invariance, PTL

\* A sequence is a prefix of a longer one when they agree on its elements.
LEMMA PrefixByElements ==
    ASSUME NEW S, NEW a \in Seq(S), NEW b \in Seq(S), Len(a) <= Len(b),
           \A i \in 1 .. Len(a) : a[i] = b[i]
    PROVE  IsPrefix(a, b)
<1> DEFINE n == Len(a)
           e == SubSeq(a, 1, n)
           f == SubSeq(b, 1, n)
<1>1. n \in Nat /\ Len(b) \in Nat
  OBVIOUS
<1>2. e \in Seq(S) /\ Len(e) = n /\ \A i \in 1 .. n : e[i] = a[i]
  BY <1>1
<1>3. f \in Seq(S) /\ Len(f) = n /\ \A i \in 1 .. n : f[i] = b[i]
  BY <1>1
<1> HIDE DEF e, f
<1>4. e = f
  BY <1>2, <1>3, SeqEqual
<1> QED BY <1>4 DEF IsPrefix, e, f

\* The first parts of marks.
LEMMA MarkNames ==
    ASSUME NEW m \in Seq(Mark)
    PROVE  /\ [i \in DOMAIN m |-> m[i][1]] \in Seq(Names)
           /\ Len([i \in DOMAIN m |-> m[i][1]]) = Len(m) /\ Len(m) \in Nat
           /\ \A i \in 1 .. Len(m) : [j \in DOMAIN m |-> m[j][1]][i] = m[i][1]
<1>1. DOMAIN m = 1 .. Len(m) /\ Len(m) \in Nat
  OBVIOUS
<1>2. \A i \in 1 .. Len(m) : m[i][1] \in Names
  <2>1. \A i \in 1 .. Len(m) : m[i] \in Mark
    OBVIOUS
  <2>2. \A x \in Mark : x[1] \in Names
    BY DEF Mark
  <2> QED BY <2>1, <2>2
<1> DEFINE t == [i \in DOMAIN m |-> m[i][1]]
<1>3. t = [i \in 1 .. Len(m) |-> m[i][1]]
  BY <1>1
<1> HIDE DEF t
<1>4. t \in [1 .. Len(m) -> Names]
  BY <1>2, <1>3
<1>5. t \in Seq(Names) /\ Len(t) = Len(m)
  BY <1>1, <1>4
<1> QED BY <1>1, <1>3, <1>5 DEF t

\* The layers run in the order that the README documents, each only when all before
\* it let the request through.
THEOREM RunsInOrder == Spec => []PipelineOrder
<1>1. IInv => PipelineOrder
  <2> SUFFICES ASSUME IInv, NEW q \in Requests, rq[q].route # None
               PROVE  /\ IsPrefix([i \in DOMAIN rq[q].ran |-> rq[q].ran[i][1]],
                                  Documented(rq[q].route))
                      /\ \A i \in 1 .. Len(rq[q].ran) - 1 : rq[q].ran[i][2] \in GoesOn
    BY DEF PipelineOrder
  <2> DEFINE s == rq[q]
             d == Documented(s.route)
             c == Chain(s.route)
             t == [i \in DOMAIN s.ran |-> s.ran[i][1]]
  <2>1. rq[q].pc # "idle"
    BY IdleFields DEF IInv, Served
  <2>2. s \in Request /\ Good(s, code[s.ctx])
    BY <2>1, ServedFacts
  <2>3. s.route \in Routes /\ s.ran \in Seq(Mark) /\ Len(s.todo) \in Nat
    BY <2>2, SeqFields
  <2>4. d \in Seq(Names) /\ Len(d) = Len(c) /\ \A i \in 1 .. Len(c) : c[i].name = d[i]
    BY <2>3, ChainNames
  <2>5. Follows(s) /\ GoneOn(s)
    BY <2>2 DEF Good
  <2>6. /\ Len(s.ran) + Len(s.todo) = Len(c)
        /\ \A i \in 1 .. Len(s.ran) : s.ran[i][1] = c[i].name
    BY <2>5 DEF Follows
  <2>7. /\ t \in Seq(Names) /\ Len(t) = Len(s.ran) /\ Len(s.ran) \in Nat
        /\ \A i \in 1 .. Len(s.ran) : t[i] = s.ran[i][1]
    BY <2>3, MarkNames
  <2> HIDE DEF s, d, c, t
  <2>8. Len(t) <= Len(d)
    <3>1. Len(s.ran) + Len(s.todo) = Len(d) /\ Len(t) = Len(s.ran)
      BY <2>4, <2>6, <2>7
    <3>2. Len(s.ran) \in Nat /\ Len(s.todo) \in Nat
      BY <2>3, <2>7
    <3> DEFINE x == Len(s.ran)
               y == Len(s.todo)
               z == Len(d)
    <3> HIDE DEF x, y, z
    <3>3. x \in Nat /\ y \in Nat /\ x + y = z => x <= z
      OBVIOUS
    <3> QED BY <3>1, <3>2, <3>3 DEF x, y, z
  <2>9. \A i \in 1 .. Len(t) : t[i] = d[i]
    <3> TAKE i \in 1 .. Len(t)
    <3>1. i \in 1 .. Len(s.ran) /\ i \in 1 .. Len(c)
      BY <2>4, <2>7, <2>8
    <3> QED BY <3>1, <2>4, <2>6, <2>7
  <2>10. IsPrefix(t, d)
    BY <2>4, <2>7, <2>8, <2>9, PrefixByElements
  <2>11. \A i \in 1 .. Len(s.ran) - 1 : s.ran[i][2] \in GoesOn
    BY <2>5 DEF GoneOn
  <2> QED BY <2>10, <2>11 DEF s, d, t
<1> QED BY <1>1, Invariance, PTL

\* A panic after the match is answered by a filter, the filters being called in the
\* order of the catch chain.
THEOREM FiltersAnswer == Spec => []PanicsAnswered
<1>1. IInv => PanicsAnswered
  <2> SUFFICES ASSUME IInv, NEW q \in Requests, rq[q].pc = "end", rq[q].rec # OK
               PROVE  LET s == rq[q] tried == [i \in DOMAIN s.caught |-> s.caught[i][1]] IN
                      /\ s.caught # <<>> /\ Last(s.caught)[2] = "answer"
                      /\ Last(s.answers).by = Last(tried)
                      /\ IsPrefix(tried, Reverse(<<DefaultFilter>> \o Global["filter"]
                                                 \o Local["filter"][s.route]))
    BY DEF PanicsAnswered
  <2> DEFINE s == rq[q]
             f == Filters(s.route)
             t == [i \in DOMAIN s.caught |-> s.caught[i][1]]
  <2>1. s \in Request /\ Good(s, code[s.ctx])
    BY ServedFacts
  <2>2. /\ s.route \in Routes
        /\ s.caught # <<>> /\ Last(s.caught)[2] = "answer"
        /\ Last(s.answers).by = Last(s.caught)[1]
        /\ Len(s.caught) <= Len(f)
        /\ \A i \in 1 .. Len(s.caught) : s.caught[i][1] = f[i]
    BY <2>1 DEF Good, Catching
  <2>3. s.caught \in Seq(Mark)
    BY <2>1, SeqFields
  <2>4. /\ f \in Seq(Names)
        /\ f = Reverse((<<DefaultFilter>> \o Global["filter"]) \o Local["filter"][s.route])
    BY <2>2, FiltersFacts
  <2>5. /\ t \in Seq(Names) /\ Len(t) = Len(s.caught) /\ Len(s.caught) \in Nat
        /\ \A i \in 1 .. Len(s.caught) : t[i] = s.caught[i][1]
    BY <2>3, MarkNames
  <2> HIDE DEF t, f
  <2>6. IsPrefix(t, f)
    BY <2>2, <2>4, <2>5, PrefixByElements
  <2>7. Last(t) = Last(s.caught)[1]
    <3>1. Len(s.caught) >= 1
      BY <2>2, <2>3
    <3>2. Len(s.caught) \in 1 .. Len(s.caught)
      BY <3>1, <2>5
    <3> QED BY <3>2, <2>5 DEF Last
  <2> QED BY <2>2, <2>4, <2>6, <2>7 DEF t
<1> QED BY <1>1, Invariance, PTL

\* The client is answered once, with the fold of the handler's data by the interceptors
\* and with the status of its own request, unless a middleware panicked after next().
THEOREM AnswersOnceRight == Spec => []AnswersRight
<1>1. IInv => AnswersRight
  <2> SUFFICES ASSUME IInv PROVE AnswersRight
    OBVIOUS
  <2>1. ASSUME NEW q \in Requests
        PROVE  /\ NextThenPanic(q) \/ Len(rq[q].answers) <= 1
               /\ \A a \in Range(rq[q].answers) : a.by = "main" =>
                     /\ FoldOf(rq[q], a.value)
                     /\ NextThenPanic(q) \/ Own(rq[q], a.code)
               /\ DOMAIN rq[q].ran = 1 .. Len(rq[q].ran)
    <3> DEFINE s == rq[q]
    <3>1. s \in Request
      BY DEF IInv
    <3>2. s.ran \in Seq(Mark) /\ s.answers \in Seq(Reply)
      BY <3>1, SeqFields
    <3>3. DOMAIN s.ran = 1 .. Len(s.ran) /\ DOMAIN s.answers = 1 .. Len(s.answers)
      BY <3>2
    <3>4. NextThenPanic(q) <=> Twice(s)
      BY <3>3 DEF NextThenPanic, Twice
    <3>5. CASE rq[q].pc = "idle"
      <4>1. s.answers = <<>>
        BY <3>5, IdleFields DEF IInv, Served
      <4>2. Len(s.answers) = 0 /\ Range(s.answers) = {}
        BY <4>1 DEF Range
      <4> QED BY <4>2, <3>3
    <3>6. CASE rq[q].pc # "idle"
      <4>1. Good(s, code[s.ctx]) /\ Folds(s)
        BY <3>6, ServedFacts
      <4> HIDE DEF s
      <4>2. Answering(s) /\ Coded(s, code[s.ctx])
        BY <4>1 DEF Good
      <4>3. Twice(s) \/ Len(s.answers) <= 1
        BY <4>2 DEF Answering
      <4>4. ASSUME NEW a \in Range(s.answers), a.by = "main"
            PROVE  FoldOf(s, a.value) /\ (Twice(s) \/ Own(s, a.code))
        <5>1. PICK i \in 1 .. Len(s.answers) : a = s.answers[i]
          BY <3>3, <4>4 DEF Range
        <5> QED BY <5>1, <4>1, <4>2, <4>4 DEF Folds, Coded
      <4> QED BY <3>3, <3>4, <4>3, <4>4 DEF s
    <3> QED BY <3>5, <3>6
  <2>2. OneAnswer
    BY <2>1 DEF OneAnswer
  <2>3. AnswerIsFold
    BY <2>1 DEF AnswerIsFold, FoldOf, Interceptors
  <2>4. StatusIsOwn
    <3> SUFFICES ASSUME NEW q \in Requests, NEW a \in Range(rq[q].answers), a.by = "main",
                        ~NextThenPanic(q)
                 PROVE  \/ a.code = IF rq[q].route \in Posts THEN Created ELSE OK
                        \/ a.code = 202 /\ <<"main", "status">> \in Range(rq[q].ran)
      BY DEF StatusIsOwn
    <3>1. Own(rq[q], a.code) /\ DOMAIN rq[q].ran = 1 .. Len(rq[q].ran)
      BY <2>1
    <3> QED BY <3>1 DEF Own, StatusOf, Range
  <2> QED BY <2>2, <2>3, <2>4 DEF AnswersRight
<1> QED BY <1>1, Invariance, PTL
=============================================================================
