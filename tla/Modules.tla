------------------------------ MODULE Modules ------------------------------
(***************************************************************************)
(* The start of an application: NewModule walks the imports of the main    *)
(* module, builds the providers of every module, then injects and binds    *)
(* the controllers (core/module.go, core/module_builder.go, core/fn.go and *)
(* the InjectProvidersInto... functions of common/).                       *)
(*                                                                         *)
(* A provider, a controller, a layer and a handler stand for their Go      *)
(* types: the code keys all its tables by them.  A provider value is raw   *)
(* (as passed to Providers) or built (returned by NewProvider); raw values *)
(* are what a wrong order injects.  The walk is a stack of calls of        *)
(* NewModule in one goroutine, so the two mutexes matter only when a call  *)
(* meets itself.  An unresolved dependency, a conflict and the other       *)
(* errors of the code are panics that nothing recovers.                    *)
(***************************************************************************)
EXTENDS Integers, Sequences, FiniteSets, SequencesExt, FiniteSetsExt

CONSTANTS
    Modules,      \* *Module values and the functions that make dynamic ones
    Main,         \* the module given to App.Create
    Keys,         \* types of providers and of injectable interfaces
    Controllers,
    Apps          \* what ModuleBuilder was told (see AppOK)

ASSUME MainAssumption == Main \in Modules

VARIABLES
    app,          \* one of Apps
    stack,        \* calls of NewModule, the innermost last
    locked,       \* modules whose mutex is held
    single,       \* modules whose singleInstance is set
    inited,       \* modules in the order of their OnInit
    mainModule,   \* mainModulePtr: {} or the first module built
    dynamic,      \* staticModuleByDynamicPtr: functions already called
    globals,      \* keys of globalProviderByKey
    provs,        \* m.providers
    ctls,         \* m.controllers
    prefixes,     \* globalPrefixesByController
    built,        \* providerSingletonByKey in order of construction
    routes,       \* HTTPMainHandlers and InsertedRoutes
    events,       \* WSMainHandlers and InsertedEvents
    layers,       \* the lists of layers of the main module
    hooks,        \* modules in the order of OnReady, and of OnShutdown
    result        \* running, ready, down, or why it panicked

vars == <<app, stack, locked, single, inited, mainModule, dynamic, globals, provs,
          ctls, prefixes, built, routes, events, layers, hooks, result>>

tables == <<globals, provs, ctls, prefixes, built, routes, events, layers>>

\* Shape of what is built: for every module its imports, whether a function
\* makes it and from which arguments, whether it is global, its prefixes,
\* providers and controllers; for every provider its fields; for every
\* controller its fields, prefixes, handlers and bindings of layers.
AppOK(a) ==
    /\ a.imports \in [Modules -> Seq(Modules)] /\ a.dyn \subseteq Modules \ {Main}
    /\ a.args \in [Modules -> Seq(Keys)] /\ a.global \subseteq Modules
    /\ a.providers \in [Modules -> Seq(Keys)] /\ a.controllers \in [Modules -> Seq(Controllers)]
    /\ a.fields \in [Keys -> Seq(Keys)] /\ a.interfaces \subseteq Keys
    /\ DOMAIN a.ctl = Controllers

ASSUME AppsAssumption == \A a \in Apps : AppOK(a)

Top == Last(stack)
Pushed(m) == [mod |-> m, at |-> "enter", i |-> 1, injected |-> <<>>]
AtStep(s) == result.is = "running" /\ stack # <<>> /\ Top.at = s
GoTo(s) == stack' = Front(stack) \o <<[Top EXCEPT !.at = s, !.i = 1]>>
Advance == stack' = Front(stack) \o <<[Top EXCEPT !.i = @ + 1]>>

Running == [is |-> "running", what |-> "", mod |-> Main, who |-> ""]
Panic(what, who) ==
    /\ result' = [is |-> "panic", what |-> what, mod |-> Top.mod, who |-> who]
    /\ UNCHANGED <<app, stack, locked, single, inited, mainModule, dynamic, hooks>>
    /\ UNCHANGED tables

Raw(k) == [key |-> k, value |-> "raw"]
RawSeq(ks) == [n \in DOMAIN ks |-> Raw(ks[n])]

\* moduleBuilder.getModuleType: *Module values first, then functions.
StaticImports(m) == LET Test(x) == x \notin app.dyn IN SelectSeq(app.imports[m], Test)
DynamicImports(m) == LET Test(x) == x \in app.dyn IN SelectSeq(app.imports[m], Test)

WSLayers == {"wsGuards", "wsInterceptors", "wsFilters"}
Layers == {"httpFilters", "httpMiddlewares", "httpGuards", "httpInterceptors"} \cup WSLayers

\* ModuleBuilder().Build() of every module; the registers of module.go are empty.
Init ==
    /\ app \in Apps
    /\ stack = <<Pushed(Main)>> /\ locked = {} /\ single = {} /\ inited = <<>>
    /\ mainModule = {} /\ dynamic = {} /\ globals = {}
    /\ provs = [m \in Modules |-> RawSeq(app.providers[m])]
    /\ ctls = [m \in Modules |-> app.controllers[m]]
    /\ prefixes = [c \in Controllers |-> <<>>]
    /\ built = <<>> /\ routes = <<>> /\ events = <<>>
    /\ layers = [k \in Layers |-> <<>>]
    /\ hooks = [ready |-> <<>>, shutdown |-> <<>>] /\ result = Running

----------------------------------------------------------------------------
(* The walk.                                                                *)

\* Mutant: an early return that forgets the mutex.
NewModule_NoUnlock ==
    /\ AtStep("enter") /\ Top.mod \notin locked
    /\ locked' = locked \cup {Top.mod} /\ single' = single \cup {Top.mod}
    /\ IF Top.mod \in single THEN stack' = Front(stack) /\ UNCHANGED inited
       ELSE GoTo("bootstrap") /\ inited' = Append(inited, Top.mod)
    /\ UNCHANGED <<app, mainModule, dynamic, hooks, result, tables>>

\* m.Lock, the test of singleInstance and OnInit.  The mutex is not
\* reentrant: a module that is under construction blocks its own importer.
NewModule ==
    /\ AtStep("enter") /\ Top.mod \notin locked
    /\ \/ /\ Top.mod \in single
          /\ stack' = Front(stack) /\ UNCHANGED <<locked, single, inited>>
       \/ /\ Top.mod \notin single
          /\ GoTo("bootstrap")
          /\ locked' = locked \cup {Top.mod} /\ single' = single \cup {Top.mod}
          /\ inited' = Append(inited, Top.mod)
    /\ UNCHANGED <<app, mainModule, dynamic, hooks, result, tables>>

\* createStaticModuleFromDynamicModule: every argument of the function is a
\* global provider or a global interface.
CanCreate(m, known) == Range(app.args[m]) \subseteq known \cup app.interfaces

KeysOf(m) == Range(app.providers[m])

\* injectGlobalProviders of the global ones among ms.
Promoted(ms) == UNION {KeysOf(m) : m \in Range(ms) \cap app.global}

\* bootstrapMainModule: the first module built registers its own providers
\* and those of the global modules it imports, and appends the raw lists of
\* its imports to its own.  Functions are called in order, each with the
\* global providers known by then.
BootstrapMainModule ==
    /\ AtStep("bootstrap")
    /\ LET m == Top.mod
           imports == StaticImports(m) \o DynamicImports(m)
           first == KeysOf(m) \cup Promoted(StaticImports(m))
           known(n) == first \cup Promoted(SubSeq(DynamicImports(m), 1, n - 1))
           failing == {n \in DOMAIN DynamicImports(m) : ~CanCreate(DynamicImports(m)[n], known(n))}
       IN \/ /\ mainModule # {}
             /\ GoTo("static") /\ UNCHANGED <<mainModule, dynamic, hooks, result, tables>>
             /\ UNCHANGED <<app, locked, single, inited>>
          \/ mainModule = {} /\ failing # {} /\ Panic("factory", DynamicImports(m)[Min(failing)])
          \/ /\ mainModule = {} /\ failing = {}
             /\ GoTo("static")
             /\ mainModule' = {m}
             /\ dynamic' = Range(DynamicImports(m))
             /\ globals' = known(Len(DynamicImports(m)) + 1)
             /\ provs' = [provs EXCEPT ![m] = @ \o FlattenSeq([n \in DOMAIN imports |-> provs[imports[n]]])]
             /\ ctls' = [ctls EXCEPT ![m] = @ \o FlattenSeq([n \in DOMAIN imports |-> ctls[imports[n]]])]
             /\ UNCHANGED <<app, locked, single, inited, prefixes, built, routes, events,
                            layers, hooks, result>>

\* toUniqueControllers: the first occurrence stays.
ToUniqueControllers(s) ==
    LET first(n) == \A k \in 1..(n - 1) : s[k] # s[n]
        Keep(acc, n) == IF first(n) THEN Append(acc, s[n]) ELSE acc
    IN FoldLeft(Keep, <<>>, [n \in DOMAIN s |-> n])

\* prependInjectedModules: the lists of the imports go before the module's
\* own, the last import first.
PrependInjectedModules(m, imports) ==
    LET rev == Reverse(imports) IN
    /\ provs' = [provs EXCEPT ![m] = FlattenSeq([n \in DOMAIN rev |-> provs[rev[n]]]) \o @]
    /\ ctls' = IF imports = <<>> THEN ctls
               ELSE [ctls EXCEPT ![m] = ToUniqueControllers(
                        FlattenSeq([n \in DOMAIN rev |-> ctls[rev[n]]]) \o @)]

Push(m) == stack' = Front(stack) \o <<[Top EXCEPT !.i = @ + 1], Pushed(m)>>

\* injectStaticModules.
InjectStaticModule ==
    LET imports == StaticImports(Top.mod) IN
    /\ AtStep("static")
    /\ \/ /\ Top.i <= Len(imports)
          /\ Push(imports[Top.i]) /\ UNCHANGED tables
       \/ /\ Top.i > Len(imports)
          /\ GoTo("dynamic") /\ PrependInjectedModules(Top.mod, imports)
          /\ UNCHANGED <<globals, prefixes, built, routes, events, layers>>
    /\ UNCHANGED <<app, locked, single, inited, mainModule, dynamic, hooks, result>>

\* injectDynamicModules: a function is called once for the whole application.
InjectDynamicModule ==
    LET imports == DynamicImports(Top.mod) IN
    /\ AtStep("dynamic")
    /\ \/ /\ Top.i <= Len(imports)
          /\ imports[Top.i] \in dynamic \/ CanCreate(imports[Top.i], globals)
          /\ dynamic' = dynamic \cup {imports[Top.i]}
          /\ Push(imports[Top.i])
          /\ UNCHANGED <<app, locked, single, inited, mainModule, hooks, result, tables>>
       \/ /\ Top.i <= Len(imports)
          /\ imports[Top.i] \notin dynamic /\ ~CanCreate(imports[Top.i], globals)
          /\ Panic("factory", imports[Top.i])
       \/ /\ Top.i > Len(imports)
          /\ GoTo("prefixes") /\ PrependInjectedModules(Top.mod, imports)
          /\ UNCHANGED <<globals, prefixes, built, routes, events, layers>>
          /\ UNCHANGED <<app, locked, single, inited, mainModule, dynamic, hooks, result>>

\* Mutant: the prefixes of a module go before those of the modules it imports.
RegisterControllerPrefixes_Front ==
    /\ AtStep("prefixes") /\ GoTo("hoist")
    /\ prefixes' = [c \in Controllers |->
           IF c \in Range(ctls[Top.mod]) THEN app.prefixes[Top.mod] \o prefixes[c] ELSE prefixes[c]]
    /\ UNCHANGED <<app, locked, single, inited, mainModule, dynamic, hooks, result,
                   globals, provs, ctls, built, routes, events, layers>>

\* registerControllerPrefixes: once for every occurrence in the list.
RegisterControllerPrefixes ==
    LET m == Top.mod
        times(c) == Cardinality({n \in DOMAIN ctls[m] : ctls[m][n] = c})
    IN
    /\ AtStep("prefixes") /\ GoTo("hoist")
    /\ prefixes' = [c \in Controllers |->
           prefixes[c] \o FlattenSeq([n \in 1..times(c) |-> app.prefixes[m]])]
    /\ UNCHANGED <<app, locked, single, inited, mainModule, dynamic, hooks, result,
                   globals, provs, ctls, built, routes, events, layers>>

----------------------------------------------------------------------------
(* Providers.                                                               *)

\* The map injectedProviders: the last provider of a key in the list.
InjectedProviders(list) ==
    [k \in {list[n].key : n \in DOMAIN list} |->
        list[Max({n \in DOMAIN list : list[n].key = k})].value]

\* Mutant: the hoisted dependencies keep their order.
Hoisted_Forward(list, injected) ==
    LET of(n) == LET Own(d) == d \in DOMAIN injected IN SelectSeq(app.fields[list[n].key], Own)
        deps == FlattenSeq([n \in DOMAIN list |-> of(n)])
    IN [n \in DOMAIN deps |-> [key |-> deps[n], value |-> injected[deps[n]]]]

\* The dependencies the module itself provides, one level deep, reversed.
Hoisted(list, injected) ==
    LET of(n) == LET Own(d) == d \in DOMAIN injected IN SelectSeq(app.fields[list[n].key], Own)
        deps == FlattenSeq([n \in DOMAIN list |-> of(n)])
    IN Reverse([n \in DOMAIN deps |-> [key |-> deps[n], value |-> injected[deps[n]]]])

\* The first half of injectProviders.
HoistProviders ==
    /\ AtStep("hoist")
    /\ LET list == provs[Top.mod]
           injected == InjectedProviders(list)
       IN /\ provs' = [provs EXCEPT ![Top.mod] = Hoisted(list, injected) \o list]
          /\ stack' = Front(stack) \o <<[Top EXCEPT !.at = "providers", !.i = 1, !.injected = injected]>>
    /\ UNCHANGED <<app, locked, single, inited, mainModule, dynamic, hooks, result,
                   globals, ctls, prefixes, built, routes, events, layers>>

\* Mutant: what the module does not provide itself is not resolved.
Resolve_NoGlobals(d) ==
    IF d \in DOMAIN Top.injected THEN Top.injected[d]
    ELSE IF d \in app.interfaces THEN "interface" ELSE "missing"

\* The field of a provider type: the module's own provider, else the raw
\* global one, else a global interface.  (A field of another type keeps the
\* value it was declared with and is not listed; an unexported field, which
\* panics, is one of a key that nobody provides.)
Resolve(d) ==
    IF d \in DOMAIN Top.injected THEN Top.injected[d]
    ELSE IF d \in globals THEN "raw"
    ELSE IF d \in app.interfaces THEN "interface" ELSE "missing"

\* injectDependencies and buildFieldInjectionCallback return no error.
Injectable(fields) == \A n \in DOMAIN fields : Resolve(fields[n]) # "missing"

IsBuilt(k) == \E n \in DOMAIN built : built[n].key = k

\* One turn of the loop of injectProviders: NewProvider runs for the first
\* provider of its key in the whole application.
InjectProvider ==
    LET m == Top.mod
        k == provs[m][Top.i].key
    IN
    /\ AtStep("providers")
    /\ \/ /\ Top.i <= Len(provs[m])
          /\ ~Injectable(app.fields[k])
          /\ Panic("provider", k)
       \/ /\ Top.i <= Len(provs[m])
          /\ Injectable(app.fields[k])
          /\ built' = IF IsBuilt(k) THEN built
                      ELSE Append(built, [key |-> k, mod |-> m,
                               got |-> [d \in Range(app.fields[k]) |-> Resolve(d)]])
          /\ provs' = [provs EXCEPT ![m][Top.i].value = "built"]
          /\ stack' = Front(stack) \o <<[Top EXCEPT !.i = @ + 1,
                          !.injected = (k :> "built") @@ @]>>
          /\ UNCHANGED <<app, locked, single, inited, mainModule, dynamic, hooks, result,
                         globals, ctls, prefixes, routes, events, layers>>
       \/ /\ Top.i > Len(provs[m])
          /\ IF m \in mainModule THEN GoTo("controllers") ELSE GoTo("return")
          /\ UNCHANGED <<app, locked, single, inited, mainModule, dynamic, hooks, result, tables>>

----------------------------------------------------------------------------
(* Controllers of the main module, which has gathered all the others.       *)

\* addPrefixesToRoute: the controller's prefixes that are for this handler,
\* each put in front of the last.
OwnPrefixes(c, h) ==
    LET For(p) == p.handlers = {} \/ h.name \in p.handlers
        own == SelectSeq(app.ctl[c].prefixes, For)
    IN Reverse([n \in DOMAIN own |-> own[n].value])

\* AddHandlerToRouterMap: every registered prefix of the controller's
\* modules is put in front of the last.
PatternOf(c, h) ==
    [path |-> Reverse(prefixes[c]) \o OwnPrefixes(c, h) \o <<h.route>>, method |-> h.method]

HandlersOf(c, t) == LET Is(h) == h.transport = t IN SelectSeq(app.ctl[c].handlers, Is)

NamesOf(c, t) == {HandlersOf(c, t)[n].name : n \in DOMAIN HandlersOf(c, t)}

WSNames == UNION {NamesOf(c, "ws") : c \in Controllers}

\* The handlers a binding reaches: the ones it names, or all of them when it
\* names none that counts.  For HTTP a name counts when this controller has
\* the handler, for WebSocket when it is the name of an event handler.
Targets(c, t, b) ==
    LET known == IF t = "http" THEN NamesOf(c, t) ELSE WSNames
        targeted == b.handlers \cap known
    IN IF targeted = {} THEN NamesOf(c, t) ELSE NamesOf(c, t) \cap targeted

\* One InjectProvidersInto... function: the items a list of bindings adds.
\* Within one binding the order over the handlers is that of a Go map, hence
\* a set.  A layer of the other transport is passed over.
Items(c, t, bindings) ==
    LET Speaks(b) == b.speaks = t
        mine == SelectSeq(bindings, Speaks)
    IN [n \in DOMAIN mine |-> [ctl |-> c, layer |-> mine[n].layer, on |-> Targets(c, t, mine[n])]]

\* A binding whose fields cannot be injected, or that has no method of
\* either signature, panics.
BindingsOK(bindings) ==
    \A n \in DOMAIN bindings : /\ bindings[n].speaks \in {"http", "ws"}
                               /\ Injectable(bindings[n].fields)

HTTPBindings(c) == LET x == app.ctl[c] IN x.filters \o x.middlewares \o x.guards \o x.interceptors
WSBindings(c) == LET x == app.ctl[c] IN x.guards \o x.interceptors \o x.filters

HandlesHTTP(c) == app.ctl[c].http
HandlesWS(c) == app.ctl[c].ws

\* The handlers bound so far and this controller's have distinct patterns.
NoRouteConflict(c) ==
    LET hs == HandlersOf(c, "http")
        ps == [n \in DOMAIN hs |-> PatternOf(c, hs[n])]
    IN /\ IsInjective(ps)
       /\ \A n \in DOMAIN ps, r \in DOMAIN routes : routes[r].pattern # ps[n]

\* Mutant: the events of other controllers are not looked at.
NoEventConflict_Own(c) ==
    LET hs == HandlersOf(c, "ws") IN \A n, k \in DOMAIN hs : hs[n].route = hs[k].route => n = k

NoEventConflict(c) ==
    LET hs == HandlersOf(c, "ws") IN
    /\ \A n, k \in DOMAIN hs : hs[n].route = hs[k].route => n = k
    /\ \A n \in DOMAIN hs, r \in DOMAIN events : events[r].event # hs[n].route

\* isInjectableHandler: every argument is one the framework knows, and the
\* fields of a pipe can be injected.
HandlersOK(c, t) ==
    \A n \in DOMAIN HandlersOf(c, t) : HandlersOf(c, t)[n].ok

\* What bindHTTPController and bindWSController refuse, in their order.
Refused(c) ==
    CASE ~Injectable(app.ctl[c].fields) -> "controller"
      [] HandlesHTTP(c) /\ ~NoRouteConflict(c) -> "conflict"
      [] HandlesHTTP(c) /\ ~BindingsOK(HTTPBindings(c)) -> "layer"
      [] HandlesHTTP(c) /\ ~HandlersOK(c, "http") -> "handler"
      [] HandlesWS(c) /\ ~NoEventConflict(c) -> "event conflict"
      [] HandlesWS(c) /\ ~BindingsOK(WSBindings(c)) -> "layer"
      [] HandlesWS(c) /\ ~HandlersOK(c, "ws") -> "handler"
      [] OTHER -> ""

If(cond, s) == IF cond THEN s ELSE <<>>

InjectProvidersIntoHTTPExceptionFilters(c) == Items(c, "http", app.ctl[c].filters)
InjectProvidersIntoHTTPMiddlewares(c) == Items(c, "http", app.ctl[c].middlewares)
InjectProvidersIntoHTTPGuards(c) == Items(c, "http", app.ctl[c].guards)
InjectProvidersIntoHTTPInterceptors(c) == Items(c, "http", app.ctl[c].interceptors)
InjectProvidersIntoWSGuards(c) == Items(c, "ws", app.ctl[c].guards)
InjectProvidersIntoWSInterceptors(c) == Items(c, "ws", app.ctl[c].interceptors)
InjectProvidersIntoWSExceptionFilters(c) == Items(c, "ws", app.ctl[c].filters)

\* bindHTTPExceptionFilters, bindHTTPMiddlewares, bindHTTPGuards and
\* bindHTTPInterceptors, if the controller has the field HTTP.
BindHTTPLayers(c) ==
    [httpFilters |-> If(HandlesHTTP(c), InjectProvidersIntoHTTPExceptionFilters(c)),
     httpMiddlewares |-> If(HandlesHTTP(c), InjectProvidersIntoHTTPMiddlewares(c)),
     httpGuards |-> If(HandlesHTTP(c), InjectProvidersIntoHTTPGuards(c)),
     httpInterceptors |-> If(HandlesHTTP(c), InjectProvidersIntoHTTPInterceptors(c))]

\* bindWSGuards, bindWSInterceptors and bindWSExceptionFilters.
BindWSLayers(c) ==
    [wsGuards |-> If(HandlesWS(c), InjectProvidersIntoWSGuards(c)),
     wsInterceptors |-> If(HandlesWS(c), InjectProvidersIntoWSInterceptors(c)),
     wsFilters |-> If(HandlesWS(c), InjectProvidersIntoWSExceptionFilters(c))]

\* The entries bindHTTPController adds to HTTPMainHandlers.
BindHTTPHandlers(c) ==
    LET hs == HandlersOf(c, "http") IN
    If(HandlesHTTP(c),
       [n \in DOMAIN hs |-> [ctl |-> c, name |-> hs[n].name, pattern |-> PatternOf(c, hs[n])]])

\* The entries bindWSController adds to WSMainHandlers.
BindWSHandlers(c) ==
    LET hs == HandlersOf(c, "ws") IN
    If(HandlesWS(c), [n \in DOMAIN hs |-> [ctl |-> c, name |-> hs[n].name, event |-> hs[n].route]])

\* One turn of the loop of injectControllers.
InjectController ==
    LET m == Top.mod
        c == ctls[m][Top.i]
    IN
    /\ AtStep("controllers")
    /\ \/ /\ Top.i <= Len(ctls[m]) /\ Refused(c) # "" /\ Panic(Refused(c), c)
       \/ /\ Top.i <= Len(ctls[m]) /\ Refused(c) = ""
          /\ routes' = routes \o BindHTTPHandlers(c)
          /\ events' = events \o BindWSHandlers(c)
          /\ layers' = [k \in Layers |-> layers[k] \o (BindHTTPLayers(c) @@ BindWSLayers(c))[k]]
          /\ Advance
          /\ UNCHANGED <<app, locked, single, inited, mainModule, dynamic, hooks, result,
                         globals, provs, ctls, prefixes, built>>
       \/ /\ Top.i > Len(ctls[m]) /\ GoTo("return")
          /\ UNCHANGED <<app, locked, single, inited, mainModule, dynamic, hooks, result, tables>>

\* NewModule returns and its deferred Unlock runs.
ReturnModule ==
    /\ AtStep("return")
    /\ stack' = Front(stack) /\ locked' = locked \ {Top.mod}
    /\ UNCHANGED <<app, single, inited, mainModule, dynamic, hooks, result, tables>>

----------------------------------------------------------------------------
(* Lifecycle hooks of the application.                                      *)

\* collectModules: a preorder walk that visits no module twice.
CollectModules ==
    LET visits[m \in Modules, fuel \in 0..Cardinality(Modules)] ==
            IF fuel = 0 THEN <<m>>
            ELSE LET next == StaticImports(m) \o DynamicImports(m)
                 IN <<m>> \o FlattenSeq([n \in DOMAIN next |-> visits[next[n], fuel - 1]])
        all == visits[Main, Cardinality(Modules)]
        first(n) == \A k \in 1..(n - 1) : all[k] # all[n]
        Keep(acc, n) == IF first(n) THEN Append(acc, all[n]) ELSE acc
    IN FoldLeft(Keep, <<>>, [n \in DOMAIN all |-> n])

\* callOnReady, the last call of App.Create.
CallOnReady ==
    /\ result.is = "running" /\ stack = <<>>
    /\ hooks' = [hooks EXCEPT !.ready = CollectModules]
    /\ result' = [Running EXCEPT !.is = "ready"]
    /\ UNCHANGED <<app, stack, locked, single, inited, mainModule, dynamic, tables>>

\* Stop, or the signal handler of Listen: shutdownOnce keeps the second out.
CallOnShutdown ==
    /\ result.is = "ready"
    /\ hooks' = [hooks EXCEPT !.shutdown = CollectModules]
    /\ result' = [Running EXCEPT !.is = "down"]
    /\ UNCHANGED <<app, stack, locked, single, inited, mainModule, dynamic, tables>>

Next ==
    \/ NewModule \/ BootstrapMainModule \/ InjectStaticModule \/ InjectDynamicModule
    \/ RegisterControllerPrefixes \/ HoistProviders \/ InjectProvider
    \/ InjectController \/ ReturnModule \/ CallOnReady \/ CallOnShutdown

\* The goroutine that calls Create is scheduled; nobody has to call Stop.
Fairness == WF_vars(Next /\ result.is = "running")

Spec == Init /\ [][Next]_vars /\ Fairness
----------------------------------------------------------------------------
(* What the start promises.                                                 *)

Imports(m) == Range(app.imports[m])

\* The modules m imports, directly or not, and m itself.
Reach(m) ==
    LET upTo[n \in 0..Cardinality(Modules)] ==
            IF n = 0 THEN {m} ELSE upTo[n - 1] \cup UNION {Imports(x) : x \in upTo[n - 1]}
    IN upTo[Cardinality(Modules)]

\* What the providers of a module may depend on, by the declarations alone.
Scope(m) == UNION {KeysOf(x) : x \in Reach(m)}
GlobalScope ==
    KeysOf(Main) \cup UNION {KeysOf(x) : x \in Imports(Main) \cap app.global} \cup app.interfaces

Started == result.is \in {"ready", "down"}
FieldsOf(k) == Range(app.fields[k])

\* Dependencies are resolved by scope: the start fails on a provider exactly
\* when one of its fields is provided neither by the module or its imports
\* nor globally, whatever the order of declaration and of the walk; it fails
\* on a function only when an argument is not provided by the main module, a
\* global static import of it, or as an interface (injectProviders,
\* injectDependencies, createStaticModuleFromDynamicModule).
ResolvedByScope ==
    /\ result.what = "provider" =>
          ~(FieldsOf(result.who) \subseteq Scope(result.mod) \cup GlobalScope)
    /\ result.what = "factory" =>
          ~(Range(app.args[result.who]) \subseteq
               KeysOf(Main) \cup Promoted(StaticImports(Main)) \cup app.interfaces)
    /\ Started =>
          \A m \in Reach(Main) : \A k \in KeysOf(m) : FieldsOf(k) \subseteq Scope(m) \cup GlobalScope

\* The providers a module lists by the declarations alone: those of its
\* imports, the last import first, before its own; the main module lists those
\* of its own imports once more at the end.
Listed(m) ==
    LET imports(x) == Reverse(DynamicImports(x)) \o Reverse(StaticImports(x))
        upTo[x \in Modules, n \in 0..Cardinality(Modules)] ==
            IF n = 0 THEN <<>>
            ELSE FlattenSeq([i \in DOMAIN imports(x) |-> upTo[imports(x)[i], n - 1]]) \o app.providers[x]
        direct == StaticImports(m) \o DynamicImports(m)
    IN upTo[m, Cardinality(Modules)]
           \o IF m = Main THEN FlattenSeq([i \in DOMAIN direct |-> app.providers[direct[i]]]) ELSE <<>>

\* The place of a key among the fields of the listed providers, in order:
\* where it is asked for last, 0 when nothing asks for it.
AskedAt(m, k) ==
    LET list == Listed(m)
        asked == FlattenSeq([n \in DOMAIN list |-> app.fields[list[n]]])
    IN Max({0} \cup {n \in DOMAIN asked : asked[n] = k})

\* Which providers are constructed over raw dependencies follows from the
\* declarations.  NewProvider runs once for a key.  It gets a dependency that
\* an import has built already, and one that is asked for after it: so all of
\* them when no provider asks for it, or when it is listed after those that do.
\* It gets the raw value of one that was asked for before it: C, B, A of a
\* chain A -> B -> C constructs B over a raw C, although module_test.go:55 says
\* "a provider's dependency must construct before the dependent, regardless of
\* declaration order" of two providers (injectProviders).
ConstructionOrder ==
    /\ \A n, k \in DOMAIN built : built[n].key = built[k].key => n = k
    /\ \A n \in DOMAIN built :
          LET e == built[n]
              unbuilt == KeysOf(e.mod)
                  \cup IF e.mod = Main THEN UNION {KeysOf(x) : x \in Imports(Main)} ELSE {}
          IN \A d \in FieldsOf(e.key) \cap Scope(e.mod) :
                e.got[d] = IF d \in unbuilt /\ AskedAt(e.mod, e.key) > AskedAt(e.mod, d)
                           THEN "raw" ELSE "built"

Owners(c) == {m \in Reach(Main) : c \in UNION {Range(app.controllers[x]) : x \in Reach(m)}}
Served == UNION {Range(app.controllers[m]) : m \in Reach(Main)}
DeclaredPrefixes(c) == UNION {Range(app.prefixes[m]) : m \in Owners(c)}

\* What identifies a route by the declarations alone.
Declared(c, h) ==
    [prefixes |-> DeclaredPrefixes(c) \cup Range(OwnPrefixes(c, h)), route |-> h.route, method |-> h.method]

\* Once started, every HTTP handler of every module in the application is
\* bound exactly once, although modules are imported along several paths;
\* its route carries the prefix of each module that contains the controller
\* once, an importer's left of what it imports.  A conflict is reported only
\* for two handlers declared for the same route.
RoutesServed ==
    /\ Started =>
          \A c \in Served : HandlesHTTP(c) =>
              \A n \in DOMAIN HandlersOf(c, "http") :
                  LET h == HandlersOf(c, "http")[n]
                      mine == {r \in DOMAIN routes : routes[r].ctl = c /\ routes[r].name = h.name}
                      path == routes[CHOOSE r \in mine : TRUE].pattern.path
                      outer == SubSeq(path, 1, Len(path) - 1)
                      at(p) == CHOOSE i \in DOMAIN outer : outer[i] = p
                  IN /\ Cardinality(mine) = 1
                     /\ IsInjective(outer)
                     /\ Range(outer) = Declared(c, h).prefixes
                     /\ \A m \in Owners(c) : \A x \in Imports(m) \cap Owners(c) :
                           \A p \in Range(app.prefixes[m]), q \in Range(app.prefixes[x]) : at(p) < at(q)
    /\ result.what = "conflict" =>
          \E c, d \in Served :
              \E n \in DOMAIN HandlersOf(c, "http"), k \in DOMAIN HandlersOf(d, "http") :
                  /\ <<c, n>> # <<d, k>>
                  /\ Declared(c, HandlersOf(c, "http")[n]) = Declared(d, HandlersOf(d, "http")[k])

\* Once started, every WebSocket handler of every module in the application
\* answers its event and nobody else does, although its controller is gathered
\* along several paths; and the start is refused for a conflict of events only
\* when two handlers are declared for one event, since no prefix tells them
\* apart (AddHandlerToEventMap, toUniqueControllers).
EventsServed ==
    /\ Started =>
          \A c \in Served : HandlesWS(c) =>
              \A n \in DOMAIN HandlersOf(c, "ws") :
                  LET h == HandlersOf(c, "ws")[n]
                      mine == {r \in DOMAIN events : events[r].event = h.route}
                  IN /\ Cardinality(mine) = 1
                     /\ \A r \in mine : events[r].ctl = c /\ events[r].name = h.name
    /\ result.what = "event conflict" =>
          \E c, d \in {x \in Served : HandlesWS(x)} :
              \E n \in DOMAIN HandlersOf(c, "ws"), k \in DOMAIN HandlersOf(d, "ws") :
                  <<c, n>> # <<d, k>> /\ HandlersOf(c, "ws")[n].route = HandlersOf(d, "ws")[k].route

\* Every module of the application sees each of its hooks once, although it
\* is imported along several paths: OnInit in the walk of NewModule, OnReady
\* and OnShutdown in the walk of collectModules, these two in one order.
LifecycleOnce ==
    Started =>
        /\ IsInjective(inited) /\ Range(inited) = Reach(Main)
        /\ IsInjective(hooks.ready) /\ Range(hooks.ready) = Reach(Main)
        /\ result.is = "down" => hooks.shutdown = hooks.ready

Cyclic == \E m \in Modules : \E x \in Imports(m) : m \in Reach(x)

\* The start ends, with an application or with a panic, unless functions
\* import each other in a circle; then NewModule waits for its own mutex.
\* Then every module of the application has seen each of its hooks once.
StartEnds == (Cyclic \/ <>(result.is # "running")) /\ []LifecycleOnce
============================================================================
