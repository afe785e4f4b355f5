------------------------------- MODULE Router -------------------------------
(***************************************************************************)
(* The router (routing/router.go) over the trie of internal/ds/trie.go.    *)
(* A route is a sequence of segments, <<>> for the route "".  A node of    *)
(* the trie is the sequence of segments that leads to it, a parameter      *)
(* being "$".  An operation is a method together with a version, the two   *)
(* being compared together everywhere.                                     *)
(***************************************************************************)
EXTENDS RouterItem

CONSTANTS
    Routes,           \* routes that are registered
    Operations,       \* pairs of a method and a version
    Params,           \* segments such as {id}
    Globs,            \* segments with a * among other characters
    GlobWords,        \* per glob: the words that matchWildcard accepts
    Words,            \* segments of requests
    MaxPath,          \* bound: segments of a request
    MaxHandlers,      \* bound: handlers of all items
    MaxItems,         \* bound: items
    MaxGlobals        \* bound: global middlewares

\* The words are segments of requests without a * or a parameter; "$" may be one of
\* them, but no route has it, for a route with a segment "$" would have a parameter
\* without a name.
ASSUME RouterAssumption ==
    /\ Routes \subseteq Seq(STRING) /\ \A route \in Routes : "$" \notin Range(route)
    /\ Words \subseteq STRING /\ Words \cap (Params \cup Globs \cup {"*"}) = {}
    /\ Globs \subseteq STRING /\ GlobWords \in [Globs -> SUBSET Words]
    /\ "$" \notin Globs \cup Params /\ "*" \notin Globs \cup Params

VARIABLES
    trie,              \* node -> Raw, which is <<>> ("" in the code) unless IsEnd
    globChildren,      \* node -> its children that are globs, oldest first
    items,             \* route and operation -> item
    GlobalMiddlewares

vars == <<trie, globChildren, items, GlobalMiddlewares>>

Main == "main"
NoRaw == <<>>

Init ==
    /\ trie = [n \in {<<>>} |-> NoRaw]
    /\ globChildren = [n \in {<<>>} |-> <<>>]
    /\ items = [k \in {} |-> NewItem]
    /\ GlobalMiddlewares = <<>>

\* ParseToParamKey
Parse(route) == [i \in DOMAIN route |-> IF route[i] \in Params THEN "$" ELSE route[i]]

\* Trie.Insert.  A route "" has no segment and leaves the trie as it is.
Insert(route) ==
    LET end == Parse(route)
        nodes == DOMAIN trie \cup {SubSeq(end, 1, n) : n \in 0 .. Len(end)}
        newGlob(n) == /\ Len(n) < Len(end) /\ IsPrefix(n, end)
                      /\ end[Len(n) + 1] \in Globs
                      /\ Append(n, end[Len(n) + 1]) \notin DOMAIN trie
        old(n) == IF n \in DOMAIN trie THEN globChildren[n] ELSE <<>>
    IN /\ trie' = [n \in nodes |-> IF n = end THEN route
                                   ELSE IF n \in DOMAIN trie THEN trie[n] ELSE NoRaw]
       /\ globChildren' = [n \in nodes |-> IF newGlob(n) THEN Append(old(n), end[Len(n) + 1])
                                           ELSE old(n)]

ItemOf(k) == IF k \in DOMAIN items THEN items[k] ELSE NewItem

Bounded(is) ==
    /\ Cardinality(DOMAIN is) <= MaxItems
    /\ MapThenSumSet(LAMBDA k : Len(is[k].handlers), DOMAIN is) <= MaxHandlers

Put(k, item) ==
    /\ items' = [j \in DOMAIN items \cup {k} |-> IF j = k THEN item ELSE items[j]]
    /\ Bounded(items')

For(route, op) ==
    /\ Put(<<route, op>>, PushFor(GlobalMiddlewares, ItemOf(<<route, op>>), <<"for">>))
    /\ Insert(route)
    /\ UNCHANGED GlobalMiddlewares

Add(route, op) ==
    /\ Put(<<route, op>>, PushAdd(GlobalMiddlewares, ItemOf(<<route, op>>), Main))
    /\ Insert(route)
    /\ UNCHANGED GlobalMiddlewares

\* Use: the middleware is appended to every item, and every route inserted again, in
\* the order in which the map gives them.
Use ==
    /\ Len(GlobalMiddlewares) < MaxGlobals
    /\ GlobalMiddlewares' = Append(GlobalMiddlewares, "use")
    /\ items' = [k \in DOMAIN items |-> PushUse(items[k], "use")]
    /\ Bounded(items')
    /\ \E last \in [{n \in DOMAIN trie : trie[n] # NoRaw} -> {k[1] : k \in DOMAIN items}] :
          /\ \A n \in DOMAIN last : Parse(last[n]) = n
          /\ trie' = [n \in DOMAIN trie |-> IF n \in DOMAIN last THEN last[n] ELSE NoRaw]
    /\ UNCHANGED globChildren

Next ==
    \/ \E route \in Routes, op \in Operations : For(route, op) \/ Add(route, op)
    \/ Use

Spec == Init /\ [][Next]_vars

----------------------------------------------------------------------------
Has(node, seg) == Append(node, seg) \in DOMAIN trie

\* Children["*"] if it ends a route, else the wildcard found before.
Wildcard(node, before) ==
    IF Has(node, "*") /\ trie[Append(node, "*")] # NoRaw THEN Append(node, "*") ELSE before

\* Mutant: a parameter is preferred to an exact child.
NextSegment_ParamFirst(node, seg) ==
    IF Has(node, "$") THEN "$" ELSE IF Has(node, seg) THEN seg ELSE "*"

\* The child to which Find goes: the exact one, else the parameter, else *, else the
\* oldest glob that accepts the segment.  There is no way back from a choice.
NextSegment(node, seg) ==
    LET globs == {i \in DOMAIN globChildren[node] : seg \in GlobWords[globChildren[node][i]]}
    IN IF Has(node, seg) THEN seg
       ELSE IF Has(node, "$") THEN "$"
       ELSE IF Has(node, "*") \/ globs = {} THEN "*"
       ELSE globChildren[node][Min(globs)]

\* Mutant: a wildcard is remembered only where there is no exact child.
Step_NoSibling(s, seg) ==
    LET next == NextSegment(s.node, seg)
    IN IF ~s.found THEN s
       ELSE IF ~Has(s.node, next) THEN [s EXCEPT !.found = FALSE]
       ELSE [s EXCEPT !.node = Append(@, next),
                      !.wildcard = IF next = seg THEN @ ELSE Wildcard(s.node, @),
                      !.paramVals = IF next = "$" /\ seg # "$" THEN Append(@, seg) ELSE @]

\* Mutant: the last parameter replaces the others.
Step_LastParam(s, seg) ==
    LET next == NextSegment(s.node, seg)
    IN IF ~s.found THEN s
       ELSE IF ~Has(s.node, next) THEN [s EXCEPT !.found = FALSE]
       ELSE [s EXCEPT !.node = Append(@, next), !.wildcard = Wildcard(s.node, @),
                      !.paramVals = IF next = "$" /\ seg # "$" THEN <<seg>> ELSE @]

\* One segment of Find.  A segment "$" of a request is an exact child and no value.
Step(s, seg) ==
    LET next == NextSegment(s.node, seg)
    IN IF ~s.found THEN s
       ELSE IF ~Has(s.node, next) THEN [s EXCEPT !.found = FALSE]
       ELSE [s EXCEPT !.node = Append(@, next), !.wildcard = Wildcard(s.node, @),
                      !.paramVals = IF next = "$" /\ seg # "$" THEN Append(@, seg) ELSE @]

Start == [found |-> TRUE, node |-> <<>>, wildcard |-> <<>>, paramVals |-> <<>>]

\* The search after each number of segments: the loop of Find.
Searches(path) ==
    LET at[n \in 0 .. Len(path)] == IF n = 0 THEN Start ELSE Step(at[n - 1], path[n])
    IN at

\* Mutant: the node where the search stopped is taken for the matched one.
Find_Prefix(path) ==
    LET s == Searches(path)[Len(path)]
    IN [matchedRaw |-> trie[s.node], wildcardRaw |-> trie[Wildcard(s.node, s.wildcard)],
        paramVals |-> s.paramVals]

\* Trie.Find.  Raw is <<>>, the route "", where nothing was matched.
Find(path) ==
    LET s == Searches(path)[Len(path)]
        atEnd == s.found /\ path # <<>>
        wildcard == IF atEnd THEN Wildcard(s.node, s.wildcard) ELSE s.wildcard
    IN [matchedRaw |-> IF atEnd THEN trie[s.node] ELSE NoRaw,
        wildcardRaw |-> trie[wildcard],
        paramVals |-> s.paramVals]

\* Router.Match: the matched route if it has the operation, else the wildcard.
Match(op, path) ==
    LET f == Find(path)
        has(route) == <<route, op>> \in DOMAIN items
        hit(route) == [ok |-> TRUE, route |-> route, paramVals |-> f.paramVals]
    IN IF has(f.matchedRaw) THEN hit(f.matchedRaw)
       ELSE IF has(f.wildcardRaw) THEN hit(f.wildcardRaw)
       ELSE [ok |-> FALSE]

----------------------------------------------------------------------------
TypeOK ==
    /\ \A n \in DOMAIN trie : trie[n] = NoRaw \/ (trie[n] \in Routes /\ Parse(trie[n]) = n)
    /\ \A n \in DOMAIN trie : n # <<>> => Front(n) \in DOMAIN trie
    /\ DOMAIN globChildren = DOMAIN trie
    /\ \A k \in DOMAIN items : items[k].handlerIndex \in -1 .. Len(items[k].handlers) - 1

Paths == UNION {[1 .. n -> Words] : n \in 0 .. MaxPath}

Covers(route, path) ==
    LET covers(i) == \/ route[i] = path[i] \/ route[i] \in Params \/ route[i] = "*"
                     \/ route[i] \in Globs /\ path[i] \in GlobWords[route[i]]
    IN \/ Len(route) = Len(path) /\ \A i \in DOMAIN route : covers(i)
       \/ /\ route # <<>> /\ Last(route) = "*" /\ Len(path) >= Len(route) - 1
          /\ \A i \in 1 .. Len(route) - 1 : covers(i)

\* "unmatched route should return 404" (core/app_test.go): a route that Router.Match
\* answers with covers the path, segment by segment, * at the end covering any rest.
OnlyMatchingRoutes ==
    \A op \in Operations, path \in Paths :
        LET m == Match(op, path) IN m.ok => Covers(m.route, path)

\* A route without parameters and wildcards is found by its own path, for each of its
\* operations, whatever other routes were registered before or after it.
StaticRoutesFound ==
    \A k \in DOMAIN items :
        (k[1] # <<>> /\ Range(k[1]) \subseteq Words \ {"$", "*"}) =>
            LET m == Match(k[2], k[1]) IN m.ok /\ m.route = k[1]

\* Match gives HTTPContext.Param the segment of the path that stands where
\* the matched route has the parameter, also if the search went on below another
\* route and came back to a wildcard.
ParamsRight ==
    \A op \in Operations, path \in Paths :
        LET m == Match(op, path)
            params(i) == {j \in 1 .. i : m.route[j] \in Params}
        IN (m.ok /\ "$" \notin Range(path)) =>
              \A i \in DOMAIN m.route : m.route[i] \in Params =>
                  /\ Cardinality(params(i)) \in DOMAIN m.paramVals
                  /\ m.paramVals[Cardinality(params(i))] = path[i]

\* internal/ds/trie_test.go: "should fall back to /lv1/* despite unrelated deeper
\* sibling".  Where all routes have an operation, a path below a wildcard whose
\* other segments are words is never unmatched.  The path "/" has no segment, and Find
\* then looks for no wildcard: the route "*" does not catch it.
WildcardFallback ==
    \A op \in Operations, path \in Paths :
        (/\ path # <<>>
         /\ \A k \in DOMAIN items : <<k[1], op>> \in DOMAIN items
         /\ \E k \in DOMAIN items : /\ k[1] # <<>> /\ Last(k[1]) = "*"
                                    /\ Range(Front(k[1])) \subseteq Words
                                    /\ Covers(k[1], path))
        => Match(op, path).ok

\* HandlerIndex points at the main handler, of which an item has at most one, through
\* any sequence of Use, For and Add.
MainHandlerAtIndex ==
    \A k \in DOMAIN items :
        {i \in DOMAIN items[k].handlers : items[k].handlers[i] = Main}
        = IF items[k].handlerIndex > -1 THEN {items[k].handlerIndex + 1} ELSE {}

\* A match is sound: the route covers the path, its parameters have the
\* segments they stand for, and HandlerIndex is where its main handler is.
MatchSound == OnlyMatchingRoutes /\ ParamsRight /\ MainHandlerAtIndex

\* A match is complete: static routes are found by their own path, and a
\* wildcard catches what goes astray below it.
MatchComplete == StaticRoutesFound /\ WildcardFallback
=============================================================================
