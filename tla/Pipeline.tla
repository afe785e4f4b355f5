------------------------------ MODULE Pipeline ------------------------------
(***************************************************************************)
(* The HTTP pipeline: App.Create registers layers (core/app.go), ServeHTTP *)
(* and HTTP.handleRequest run them (core/http.go), a panic goes through    *)
(* the exception filters (common/http_exception_filter.go), and contexts   *)
(* are taken from a pool.  What user code does in a layer is a choice from *)
(* Outcomes.  Routes are found by path and version; how a path is matched  *)
(* with a route is the router's matter.  Tracing is left out.              *)
(***************************************************************************)
EXTENDS RouterItem

CONSTANTS
    Requests,     \* goroutines that serve requests, one at a time each
    Contexts,     \* contexts that ctxPool may hold or create
    Routes,       \* the main handlers
    PathOf,       \* the path of each route
    VersionOf,    \* the version of each route
    Posts,        \* the routes of method POST
    Serves,       \* the routes of method SERVE
    Paths,        \* paths that are asked for
    PathsOf,      \* per goroutine: the paths of the requests it gets
    WSPath,       \* the path of the WebSocket endpoint
    Versions,     \* versions that are asked for, "" for none
    Global,       \* by kind: names of the layers bound to the application
    Local,        \* by kind and route: names of the layers bound to controllers
    WSMiddlewares,\* names of the middlewares given to EnableWS
    Outcomes,     \* by name of a layer: what it may do
    None

Kinds == {"middleware", "guard", "interceptor", "filter"}
DefaultFilter == "globalHTTPExceptionFilter"
Neutral == "NEUTRAL"

\* Status codes in use.  0 is one that a handler may return by mistake.
OK == 200
Created == 201
Codes == {101, OK, Created, 202, 400, 403, 404, 410, 500}

ASSUME PipelineAssumption ==
    /\ PathOf \in [Routes -> Paths \ {WSPath}]
    /\ PathsOf \in [Requests -> SUBSET Paths]
    /\ Global \in [Kinds -> Seq(STRING)]
    /\ Local \in [Kinds -> [Routes -> Seq(STRING)]]
    /\ WSMiddlewares \in Seq(STRING)
    /\ Cardinality(Contexts) >= Cardinality(Requests)
    /\ None \notin Contexts \cup Routes
    /\ Outcomes[DefaultFilter] = {"answer"}
    \* Names tell the interceptors of a route apart, and a filter from the handler.
    /\ \A r \in Routes :
          /\ IsInjective(Global["interceptor"] \o Local["interceptor"][r])
          /\ "main" \notin Range(Global["filter"] \o Local["filter"][r])

VARIABLES
    phase,              \* the init function App.Create calls next, or "serving"
    GlobalMiddlewares,  \* of the router
    items,              \* per route: the router's handlers and HandlerIndex
    catchFnsByRoute,
    pool,               \* how many times a context is in ctxPool
    code,               \* Code of each context
    isVersioningEnabled,
    rq                  \* per goroutine: the request it serves

router == <<phase, GlobalMiddlewares, items, catchFnsByRoute, isVersioningEnabled>>
vars == <<router, pool, code, rq>>

Layers(kind, names) == [i \in DOMAIN names |-> [kind |-> kind, name |-> names[i]]]
MainHandler == [kind |-> "main", name |-> "main"]

\* A goroutine that serves nothing.
Idle ==
    [pc |-> "idle", ctx |-> None, path |-> None, route |-> None,
     todo |-> <<>>, isNext |-> TRUE, aggs |-> <<>>, data |-> <<>>,
     catchFns |-> <<>>, rec |-> OK,
     \* what happened: layers that ran, with their outcome; filters that were called;
     \* what was written to the client
     ran |-> <<>>, caught |-> <<>>, answers |-> <<>>]

Init ==
    /\ phase = "initMiddlewares"
    /\ GlobalMiddlewares = <<>>
    /\ items = [r \in Routes |-> NewItem]
    /\ catchFnsByRoute = [r \in Routes |-> <<>>]
    /\ pool = [c \in Contexts |-> 0]
    /\ code = [c \in Contexts |-> OK]
    /\ isVersioningEnabled \in BOOLEAN
    /\ rq = [q \in Requests |-> Idle]

----------------------------------------------------------------------------
\* Router.For for the layers of a kind: the global ones of every route, then
\* those of the route's controller.  A route without any is not pushed.
ForAll(globals, kind, names) ==
    [r \in Routes |->
        IF names[r] = <<>> THEN items[r]
        ELSE PushFor(globals, items[r], Layers(kind, names[r]))]

\* No route is known yet when the global middlewares are given to Router.Use.
InitMiddlewares ==
    /\ phase = "initMiddlewares"
    /\ phase' = "initExceptionFilters"
    /\ GlobalMiddlewares' = Layers("middleware", Global["middleware"])
    /\ items' = ForAll(GlobalMiddlewares', "middleware",
                       Local["middleware"])
    /\ UNCHANGED <<isVersioningEnabled, catchFnsByRoute, pool, code, rq>>

\* Mutant: the loop over the global filters stops before the first.
InitExceptionFilters_OffByOne ==
    /\ phase = "initExceptionFilters"
    /\ phase' = "initGuards"
    /\ catchFnsByRoute' =
          [r \in Routes |-> Reverse(Local["filter"][r]) \o Reverse(Global["filter"])]
    /\ UNCHANGED <<isVersioningEnabled, GlobalMiddlewares, items, pool, code, rq>>

\* The last bound filter is the first to be called, a controller's before
\* the global ones, of which New has bound the default one first.
InitExceptionFilters ==
    /\ phase = "initExceptionFilters"
    /\ phase' = "initGuards"
    /\ catchFnsByRoute' =
          [r \in Routes |-> Reverse(Local["filter"][r])
                            \o Reverse(<<DefaultFilter>> \o Global["filter"])]
    /\ UNCHANGED <<isVersioningEnabled, GlobalMiddlewares, items, pool, code, rq>>

InitGuards ==
    /\ phase = "initGuards"
    /\ phase' = "initInterceptors"
    /\ items' = ForAll(GlobalMiddlewares, "guard",
                       [r \in Routes |-> Global["guard"] \o Local["guard"][r]])
    /\ UNCHANGED <<isVersioningEnabled, GlobalMiddlewares, catchFnsByRoute, pool, code, rq>>

InitInterceptors ==
    /\ phase = "initInterceptors"
    /\ phase' = "initMainHandlers"
    /\ items' = ForAll(GlobalMiddlewares, "interceptor",
                       [r \in Routes |-> Global["interceptor"] \o Local["interceptor"][r]])
    /\ UNCHANGED <<isVersioningEnabled, GlobalMiddlewares, catchFnsByRoute, pool, code, rq>>

InitMainHandlers ==
    /\ phase = "initMainHandlers"
    /\ phase' = "serving"
    /\ items' = [r \in Routes |-> PushAdd(GlobalMiddlewares, items[r], MainHandler)]
    /\ UNCHANGED <<isVersioningEnabled, GlobalMiddlewares, catchFnsByRoute, pool, code, rq>>

Create ==
    InitMiddlewares \/ InitExceptionFilters \/ InitGuards \/ InitInterceptors
    \/ InitMainHandlers

----------------------------------------------------------------------------
\* ServeHTTP: ctxPool.Get gives a context of the pool or a new one.
Accept(q, c, path) ==
    /\ phase = "serving"
    /\ rq[q].pc = "idle"
    /\ \/ pool[c] > 0 /\ pool' = [pool EXCEPT ![c] = @ - 1] /\ UNCHANGED code
       \/ /\ pool[c] = 0 /\ \A p \in Requests : rq[p].ctx # c
          /\ code' = [code EXCEPT ![c] = OK]
          /\ UNCHANGED pool
    /\ rq' = [rq EXCEPT ![q] =
                 [Idle EXCEPT !.pc = IF path = WSPath THEN "upgrade" ELSE "match",
                              !.ctx = c, !.path = path]]
    /\ UNCHANGED router

\* Mutant: Code survives in the pool.
Reset_KeepsCode(c) == UNCHANGED code

\* HTTPContext.Reset
Reset(c) == code' = [code EXCEPT ![c] = OK]

\* releaseCtx
Release(q) ==
    /\ Reset(rq[q].ctx)
    /\ pool' = [pool EXCEPT ![rq[q].ctx] = @ + 1]
    /\ rq' = [rq EXCEPT ![q] = Idle]
    /\ UNCHANGED router

\* The WebSocket server refuses the upgrade before it calls Handshake: the
\* context is left to the garbage collector.
UpgradeFails(q) ==
    /\ rq[q].pc = "upgrade"
    /\ rq' = [rq EXCEPT ![q] = Idle]
    /\ UNCHANGED <<router, pool, code>>

Handshake(q) ==
    /\ rq[q].pc = "upgrade"
    /\ code' = [code EXCEPT ![rq[q].ctx] = 101]
    /\ rq' = [rq EXCEPT ![q].pc = "handshake",
                        ![q].todo = Layers("middleware", WSMiddlewares)]
    /\ UNCHANGED <<router, pool>>

Stopped(q) == rq[q].todo = <<>> \/ ~rq[q].isNext

\* Mutant: ServeHTTP releases the context too, as it does of an HTTP request.
HandshakeEnd_ReleasesTwice(q) ==
    /\ rq[q].pc = "handshake" /\ Stopped(q)
    /\ Reset(rq[q].ctx)
    /\ pool' = [pool EXCEPT ![rq[q].ctx] = @ + 2]
    /\ rq' = [rq EXCEPT ![q] = Idle]
    /\ UNCHANGED router

\* The handshake is over; the connection, if accepted, needs the context no more.
HandshakeEnd(q) ==
    /\ rq[q].pc = "handshake" /\ Stopped(q)
    /\ Release(q)

----------------------------------------------------------------------------
\* A request s whose handling panics with an exception of status rec:
\* handleRequest recovers and starts the catch chain of the matched route.
Panic(s, rec) ==
    IF s.route = None
    THEN [s EXCEPT !.pc = "end"]
    ELSE [s EXCEPT !.pc = "catch", !.rec = rec, !.catchFns = catchFnsByRoute[s.route]]

Answer(s, by, status, value) ==
    [s EXCEPT !.answers = Append(@, [by |-> by, code |-> status, value |-> value])]

Found(path, version) == {r \in Routes : PathOf[r] = path /\ VersionOf[r] = version}

\* handleRequest up to the loops: the version, the route, the status of a POST.
Match(q, version) ==
    /\ rq[q].pc = "match"
    /\ LET hits == IF Found(rq[q].path, version) # {} THEN Found(rq[q].path, version)
                   ELSE Found(rq[q].path, Neutral)
       IN IF hits = {} \/ (isVersioningEnabled /\ version = "")
          THEN /\ rq' = [rq EXCEPT ![q].pc = IF hits = {} THEN "notFound" ELSE "gone",
                                   ![q].todo = GlobalMiddlewares]
               /\ UNCHANGED code
          ELSE \E r \in hits :
               /\ rq' = [rq EXCEPT ![q].pc = "route", ![q].route = r,
                                   ![q].todo = items[r].handlers]
               /\ code' = [code EXCEPT ![rq[q].ctx] = IF r \in Posts THEN Created ELSE @]
    /\ UNCHANGED <<router, pool>>

\* A custom extractor of the version panics before a route is known.
ExtractorPanics(q) ==
    /\ isVersioningEnabled
    /\ rq[q].pc = "match"
    /\ rq' = [rq EXCEPT ![q] = Panic(@, 500)]
    /\ UNCHANGED <<router, pool, code>>

----------------------------------------------------------------------------
\* The next layer of request q has run with outcome o.
CanRun(q, kind, o) ==
    /\ rq[q].pc \in {"handshake", "gone", "notFound", "route"} /\ ~Stopped(q)
    /\ Head(rq[q].todo).kind = kind
    /\ o \in Outcomes[Head(rq[q].todo).name]

Ran(s, o, isNext) ==
    [s EXCEPT !.todo = Tail(@), !.isNext = isNext,
              !.ran = Append(@, <<Head(s.todo).name, o>>)]

\* buildUseMiddleware: a panic is answered by the default filter at once, and
\* does not take back a next() called before it.
Middleware(q, o) ==
    /\ CanRun(q, "middleware", o)
    /\ LET s == Ran(rq[q], o, o \in {"next", "nextThenPanic"})
           panics == o \in {"panic", "nextThenPanic"}
       IN /\ rq' = [rq EXCEPT ![q] =
                       IF panics THEN Answer(s, DefaultFilter, 500, <<>>)
                       ELSE IF o = "stop" THEN Answer(s, "middleware", OK, <<>>)
                       ELSE s]
          /\ code' = [code EXCEPT ![s.ctx] = IF panics THEN 500 ELSE @]
    /\ UNCHANGED <<router, pool>>

\* Mutant: the answer of the guard is not looked at.
Guard_IgnoresAnswer(q, o) ==
    /\ CanRun(q, "guard", o)
    /\ rq' = [rq EXCEPT ![q] = IF o = "panic" THEN Panic(Ran(@, o, FALSE), 500)
                               ELSE Ran(@, o, TRUE)]
    /\ UNCHANGED <<router, pool, code>>

\* handleHTTPGuard: a guard that denies is a panic of ForbiddenException.
Guard(q, o) ==
    /\ CanRun(q, "guard", o)
    /\ rq' = [rq EXCEPT ![q] =
                 IF o = "allow" THEN Ran(@, o, TRUE)
                 ELSE Panic(Ran(@, o, FALSE), IF o = "deny" THEN 403 ELSE 500)]
    /\ UNCHANGED <<router, pool, code>>

\* BuildHTTPInterceptMiddleware: the aggregation is kept in the request's context;
\* an interceptor that does not call Pipe goes on all the same.
Interceptor(q, o) ==
    /\ CanRun(q, "interceptor", o)
    /\ LET agg == [name |-> Head(rq[q].todo).name, isMainHandlerCalled |-> o = "pipe"]
           s == [Ran(rq[q], o, o # "panic") EXCEPT !.aggs = Append(@, agg)]
       IN rq' = [rq EXCEPT ![q] = IF o = "panic" THEN Panic(s, 500) ELSE s]
    /\ UNCHANGED <<router, pool, code>>

\* setStatusCode: a number that is no status is ignored.
SetStatusCode(c, o) == code' = [code EXCEPT ![c] = IF o = "status" THEN 202 ELSE @]

\* The main handler: it returns nothing, a value, or a status and a value.  The
\* status counts unless the innermost interceptor did not call Pipe.
Main(q, o) ==
    /\ CanRun(q, "main", o)
    /\ LET s == [Ran(rq[q], o, FALSE) EXCEPT
                    !.pc = IF o = "none" /\ rq[q].aggs = <<>> THEN "end" ELSE "post",
                    !.data = IF o = "none" THEN <<"nil">> ELSE <<"main">>]
           counts == \/ s.aggs = <<>> \/ s.route \in Serves
                     \/ Last(s.aggs).isMainHandlerCalled
       IN IF o = "panic"
          THEN rq' = [rq EXCEPT ![q] = Panic(s, 500)] /\ UNCHANGED code
          ELSE /\ rq' = [rq EXCEPT ![q] = s]
               /\ IF counts THEN SetStatusCode(s.ctx, o) ELSE UNCHANGED code
    /\ UNCHANGED <<router, pool>>

----------------------------------------------------------------------------
\* serveContent: the file, with the status that ServeFile gives it, or an answer that
\* there is none or that the path leaves the directory.
ServeContent(q, o) ==
    LET s == [rq[q] EXCEPT !.pc = "end"]
        status == CASE o = "file" -> OK [] o = "missing" -> 404 [] o = "outside" -> 400
    IN /\ Last(s.ran)[2] = "none" => o = "missing"
       /\ code' = [code EXCEPT ![s.ctx] = IF o = "file" THEN @ ELSE status]
       /\ rq' = [rq EXCEPT ![q] = Answer(s, "serve", status, <<>>)]

\* returnHTTP: nil is not written, and a value that cannot be encoded panics.
ReturnHTTP(q, value, o) ==
    LET s == [rq[q] EXCEPT !.pc = "end"]
    IN /\ rq' = [rq EXCEPT ![q] = IF value \in {<<"nil">>, <<"filtered">>} THEN s
                                 ELSE IF o = "written"
                                 THEN Answer(s, "main", code[s.ctx], value)
                                 ELSE Panic(s, 500)]
       /\ UNCHANGED code

Return(q, value) ==
    IF rq[q].route \in Serves
    THEN \E o \in {"file", "missing", "outside"} : ServeContent(q, o)
    ELSE \E o \in {"written", "panic"} : ReturnHTTP(q, value, o)

\* Mutant: the first interceptor is folded first.
Aggregate_Forward(q, o) ==
    /\ rq[q].pc = "post" /\ rq[q].aggs # <<>>
    /\ LET agg == Last(rq[q].aggs) IN
       /\ agg.isMainHandlerCalled /\ o \in Outcomes[agg.name]
       /\ \/ /\ o \in {"transform", "filter"}
             /\ rq' = [rq EXCEPT ![q].aggs = Tail(@),
                                 ![q].data = IF o = "filter" THEN <<"filtered">>
                                             ELSE Append(@, Head(rq[q].aggs).name)]
          \/ o = "fail" /\ rq' = [rq EXCEPT ![q] = Panic(@, 500)]
    /\ UNCHANGED <<router, pool, code>>

\* Aggregation.Aggregate of the innermost interceptor left: it changes the data,
\* filters them out, or panics.
Aggregate(q, o) ==
    /\ rq[q].pc = "post" /\ rq[q].aggs # <<>>
    /\ LET agg == Last(rq[q].aggs) IN
       /\ agg.isMainHandlerCalled /\ o \in Outcomes[agg.name]
       /\ \/ /\ o \in {"transform", "filter"}
             /\ rq' = [rq EXCEPT ![q].aggs = Front(@),
                                 ![q].data = IF o = "filter" THEN <<"filtered">>
                                             ELSE Append(@, agg.name)]
          \/ o = "fail" /\ rq' = [rq EXCEPT ![q] = Panic(@, 500)]
    /\ UNCHANGED <<router, pool, code>>

\* Mutant: the loop goes on after the answer.
ShortCircuit_FallsThrough(q) ==
    /\ rq[q].pc = "post" /\ rq[q].aggs # <<>>
    /\ ~Last(rq[q].aggs).isMainHandlerCalled
    /\ rq' = [rq EXCEPT ![q] = [Answer(@, "main", code[@.ctx], <<"own", Last(@.aggs).name>>)
                                  EXCEPT !.aggs = Front(@)]]
    /\ UNCHANGED <<router, pool, code>>

\* An interceptor that did not call Pipe: its own data are the answer, those of the
\* handler are dropped.
ShortCircuit(q) ==
    /\ rq[q].pc = "post" /\ rq[q].aggs # <<>>
    /\ ~Last(rq[q].aggs).isMainHandlerCalled
    /\ Return(q, <<"own", Last(rq[q].aggs).name>>)
    /\ UNCHANGED <<router, pool>>

\* What is left after all interceptors.
ReturnData(q) ==
    /\ rq[q].pc = "post" /\ rq[q].aggs = <<>>
    /\ Return(q, rq[q].data)
    /\ UNCHANGED <<router, pool>>

\* Mutant: a filter that panics is not dropped but called again after the next one.
Catch_Again(q, o) ==
    /\ rq[q].pc = "catch" /\ o \in Outcomes[Head(rq[q].catchFns)]
    /\ rq' = [rq EXCEPT ![q] =
                 IF o = "panic"
                 THEN [@ EXCEPT !.catchFns = <<@[2], @[1]>> \o SubSeq(@, 3, Len(@)), !.rec = 500]
                 ELSE Answer([@ EXCEPT !.pc = "end"], Head(@.catchFns), @.rec, <<>>)]
    /\ UNCHANGED <<router, pool, code>>

\* RunHTTPCatchChain: a filter answers, or panics and leaves its panic to the
\* next; after the last one it is dropped.
Catch(q, o) ==
    /\ rq[q].pc = "catch" /\ rq[q].catchFns # <<>>
    /\ LET f == Head(rq[q].catchFns)
           s == [rq[q] EXCEPT !.caught = Append(@, <<f, o>>)]
       IN /\ o \in Outcomes[f]
          /\ IF o = "panic"
             THEN /\ rq' = [rq EXCEPT ![q] = 
                         [s EXCEPT !.catchFns = Tail(@), !.rec = 500,
                                   !.pc = IF Len(s.catchFns) = 1 THEN "end" ELSE "catch"]]
                  /\ UNCHANGED code
             ELSE /\ rq' = [rq EXCEPT ![q] = Answer([s EXCEPT !.pc = "end"], f, s.rec, <<>>)]
                  /\ code' = [code EXCEPT ![s.ctx] = s.rec]
    /\ UNCHANGED <<router, pool>>

\* The loop over the handlers is over: 410 and 404 are answered unless a
\* middleware stopped.
ChainEnd(q) ==
    /\ rq[q].pc \in {"gone", "notFound", "route"} /\ Stopped(q)
    /\ LET s == [rq[q] EXCEPT !.pc = "end"]
           status == IF rq[q].pc = "gone" THEN 410 ELSE 404
       IN IF rq[q].pc # "route" /\ s.isNext
          THEN /\ rq' = [rq EXCEPT ![q] = Answer(s, "http", status, <<>>)]
               /\ code' = [code EXCEPT ![s.ctx] = status]
          ELSE rq' = [rq EXCEPT ![q] = s] /\ UNCHANGED code
    /\ UNCHANGED <<router, pool>>

\* ServeHTTP returns.
End(q) == rq[q].pc = "end" /\ Release(q)

----------------------------------------------------------------------------
Step(q) ==
    \/ UpgradeFails(q) \/ Handshake(q) \/ HandshakeEnd(q)
    \/ \E version \in IF isVersioningEnabled THEN Versions ELSE {""} : Match(q, version)
    \/ ExtractorPanics(q)
    \/ \E o \in {"next", "stop", "panic", "nextThenPanic"} : Middleware(q, o)
    \/ \E o \in {"allow", "deny", "panic"} : Guard(q, o)
    \/ \E o \in {"pipe", "skip", "panic"} : Interceptor(q, o)
    \/ \E o \in {"none", "value", "status", "badStatus", "panic"} : Main(q, o)
    \/ \E o \in {"transform", "filter", "fail"} : Aggregate(q, o)
    \/ ShortCircuit(q) \/ ReturnData(q)
    \/ \E o \in {"answer", "panic"} : Catch(q, o)
    \/ ChainEnd(q) \/ End(q)

Next ==
    \/ Create
    \/ \E q \in Requests : Step(q)
    \/ \E q \in Requests, c \in Contexts : \E path \in PathsOf[q] : Accept(q, c, path)

Spec == Init /\ [][Next]_vars

\* User code returns, and the goroutine of a request is scheduled.
FairSpec == Spec /\ \A q \in Requests : WF_vars(Step(q))

----------------------------------------------------------------------------
TypeOK ==
    /\ phase \in {"initMiddlewares", "initExceptionFilters", "initGuards",
                  "initInterceptors", "initMainHandlers", "serving"}
    /\ \A r \in Routes : items[r].handlerIndex \in -1 .. Len(items[r].handlers) - 1
    /\ pool \in [Contexts -> 0 .. 1]
    /\ code \in [Contexts -> Codes]
    /\ isVersioningEnabled \in BOOLEAN
    /\ \A q \in Requests :
          /\ rq[q].pc \in {"idle", "upgrade", "handshake", "match", "gone", "notFound",
                           "route", "post", "catch", "end"}
          /\ rq[q].ctx \in Contexts \cup {None}
          /\ rq[q].route \in Routes \cup {None}

\* sync.Pool hands a context to one request at a time: none is used by two, and none
\* is in the pool while a request uses it, also when a WebSocket upgrade fails
\* or its handshake releases it.
ContextsNotShared ==
    \A q \in Requests : rq[q].ctx # None =>
        /\ pool[rq[q].ctx] = 0
        /\ \A p \in Requests \ {q} : rq[p].ctx # rq[q].ctx

NextThenPanic(q) == \E i \in DOMAIN rq[q].ran : rq[q].ran[i][2] = "nextThenPanic"
GoesOn == {"next", "nextThenPanic", "allow", "pipe", "skip"}

Documented(r) ==
    Global["middleware"] \o Local["middleware"][r] \o Global["guard"] \o Local["guard"][r]
    \o Global["interceptor"] \o Local["interceptor"][r] \o <<"main">>

\* README, Request Pipeline: GlobalMiddlewares, ModuleMiddlewares, Guards,
\* Interceptors, MainHandler, in this order, and a layer only after all before it
\* let the request through: no main handler runs unguarded.
PipelineOrder ==
    \A q \in Requests : rq[q].route # None =>
        LET ran == rq[q].ran IN
        /\ IsPrefix([i \in DOMAIN ran |-> ran[i][1]], Documented(rq[q].route))
        /\ \A i \in 1 .. Len(ran) - 1 : ran[i][2] \in GoesOn

\* Whatever filters panic, a panic of a guard, an interceptor, the handler or of the
\* writing of its data is answered by a filter: the controller's last bound one
\* first, the default one last.  This is README.md:282, "Exception filters catch
\* panics from any layer"; request-pipeline.md:167-169 and :420-424 of .ginject say
\* that panics of guards, interceptors and filters are "NOT recovered", which
\* the deferred recover of handleRequest and dispatchWSEvent refutes.
PanicsAnswered ==
    \A q \in Requests :
        LET s == rq[q] tried == [i \in DOMAIN s.caught |-> s.caught[i][1]] IN
        (s.pc = "end" /\ s.rec # OK) =>
            /\ s.caught # <<>> /\ Last(s.caught)[2] = "answer"
            /\ Last(s.answers).by = Last(tried)
            /\ IsPrefix(tried, Reverse(<<DefaultFilter>> \o Global["filter"]
                                       \o Local["filter"][s.route]))

\* The client is answered once, unless a middleware panicked after it had called
\* next: then both the default filter and the rest of the chain answer.
OneAnswer == \A q \in Requests : NextThenPanic(q) \/ Len(rq[q].answers) <= 1

\* Data are the handler's or nil, followed by the interceptors that changed them.
\* The interceptors fold the handler's data from the innermost to the outermost; the
\* innermost one that did not call Pipe replaces them by its own.
AnswerIsFold ==
    \A q \in Requests : \A a \in Range(rq[q].answers) : a.by = "main" =>
        LET names == Global["interceptor"] \o Local["interceptor"][rq[q].route]
            skipped == {i \in DOMAIN names : <<names[i], "skip">> \in Range(rq[q].ran)}
        IN IF skipped # {}
           THEN \E i \in skipped : /\ \A j \in skipped : j <= i
                                   /\ a.value = <<"own", names[i]>>
           ELSE \/ a.value = <<"main">> \o Reverse(names)
                \/ /\ a.value = <<"nil">> \o Reverse(names)
                   /\ <<"main", "none">> \in Range(rq[q].ran)
                \/ \E k \in 0 .. Len(names) - 1 :
                      a.value = <<"filtered">> \o Reverse(SubSeq(names, 1, k))

\* The status of an answer is the request's own: the method's, or the one its handler
\* returned, never one that the pooled context kept of an earlier request.
StatusIsOwn ==
    \A q \in Requests : \A a \in Range(rq[q].answers) :
        (a.by = "main" /\ ~NextThenPanic(q)) =>
            \/ a.code = IF rq[q].route \in Posts THEN Created ELSE OK
            \/ a.code = 202 /\ <<"main", "status">> \in Range(rq[q].ran)

\* Every request is served to its end and its context is released.
RequestsReturn == \A q \in Requests : rq[q].pc # "idle" ~> rq[q].pc = "idle"

\* The client gets one answer, which is the handler's data folded by the
\* interceptors, with the status of this request.
AnswersRight == OneAnswer /\ AnswerIsFold /\ StatusIsOwn
=============================================================================
