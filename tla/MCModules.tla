----------------------------- MODULE MCModules -----------------------------
(***************************************************************************)
(* Applications of three modules.  The first family varies the imports,    *)
(* which modules are made by functions or are global, where three          *)
(* providers are declared and in which order, and what depends on what.    *)
(* The second varies where two controllers are declared, the prefixes and  *)
(* the bindings of layers.                                                 *)
(***************************************************************************)
EXTENDS Modules

MCModuleSet == {"main", "m2", "m3"}
MCKeys == {"A", "B", "C", "Log"}
MCControllers == {"X", "Y"}

Fn(a, b, c) == "main" :> a @@ "m2" :> b @@ "m3" :> c

Handler(name, t, route, ok) ==
    [name |-> name, transport |-> t, route |-> route, method |-> "GET", ok |-> ok]

NoBindings == [filters |-> <<>>, middlewares |-> <<>>, guards |-> <<>>, interceptors |-> <<>>]

Binding(layer, speaks, fields, handlers) ==
    [layer |-> layer, speaks |-> speaks, fields |-> fields, handlers |-> handlers]

Ctl(http, ws, fields, pre, handlers, b) ==
    [http |-> http, ws |-> ws, fields |-> fields, prefixes |-> pre, handlers |-> handlers,
     filters |-> b.filters, middlewares |-> b.middlewares, guards |-> b.guards,
     interceptors |-> b.interceptors]

PlainCtls == [c \in MCControllers |-> Ctl(FALSE, FALSE, <<>>, <<>>, <<>>, NoBindings)]

\* A Go variable cannot depend on itself, so only functions form a circle.
ImportGraphs ==
    {[imports |-> Fn(a, b, c), dyn |-> d] :
        a \in {<<"m2">>, <<"m3", "m2">>}, b \in {<<>>, <<"m3">>},
        c \in {<<>>}, d \in {{}, {"m3"}, {"m2", "m3"}}}
    \cup {[imports |-> Fn(<<"m2">>, <<"m3">>, <<"m2">>), dyn |-> {"m2", "m3"}],
          [imports |-> Fn(<<>>, <<>>, <<>>), dyn |-> {}],
          [imports |-> Fn(<<"m3", "m2">>, <<"m3", "m3">>, <<>>), dyn |-> {}]}

App(g, global, args, ps, fields, cs, pre, ctl) ==
    [imports |-> g.imports, dyn |-> g.dyn, args |-> args, global |-> global, providers |-> ps,
     fields |-> fields, interfaces |-> {"Log"}, controllers |-> cs, prefixes |-> pre, ctl |-> ctl]

ProviderSeqs == {s \in UNION {[1..n -> {"A", "B", "C"}] : n \in 0..3} : IsInjective(s)}

\* Three providers in every order, cut into the lists of the three modules;
\* and some declared by two modules.
Placements ==
    {Fn(SubSeq(s, 1, i), SubSeq(s, i + 1, j), SubSeq(s, j + 1, 3)) :
        s \in {x \in ProviderSeqs : Len(x) = 3}, i \in {0, 1, 3}, j \in {1, 2, 3}}
    \cup {Fn(<<"A">>, <<"B", "C">>, <<"C", "B">>), Fn(<<"A">>, <<"A">>, <<"B">>)}

Fields(a, b, c) == "A" :> a @@ "B" :> b @@ "C" :> c @@ "Log" :> <<>>

DependencyGraphs ==
    {Fields(<<"B">>, <<"C">>, <<>>), Fields(<<"B", "C">>, <<"C">>, <<"Log">>),
     Fields(<<>>, <<"A", "C">>, <<>>), Fields(<<"C", "B">>, <<"C">>, <<>>)}

NoArgs == Fn(<<>>, <<>>, <<>>)

ProviderApps ==
    {App(g, global, NoArgs, ps, f, Fn(<<>>, <<>>, <<>>), Fn(<<>>, <<>>, <<>>), PlainCtls) :
        g \in ImportGraphs, global \in {{}, {"m3"}}, ps \in Placements, f \in DependencyGraphs}
    \cup
    {App(g, global, Fn(<<>>, a, b), Fn(<<"A">>, <<"B">>, <<"C">>), Fields(<<>>, <<>>, <<>>),
         Fn(<<>>, <<>>, <<>>), Fn(<<>>, <<>>, <<>>), PlainCtls) :
        g \in ImportGraphs, global \in SUBSET {"m2", "m3"},
        a \in {<<>>, <<"A">>, <<"C">>}, b \in {<<>>, <<"B", "Log">>}}

XHandlers == <<Handler("READ_a", "http", "a", TRUE), Handler("READ_b", "http", "b", TRUE),
               Handler("SUB_a", "ws", "ev.a", TRUE), Handler("SUB_b", "ws", "ev.b", TRUE)>>

BindingChoices ==
    {NoBindings,
     [filters |-> <<Binding("f1", "ws", <<>>, {"SUB_a"}), Binding("f2", "http", <<>>, {})>>,
      middlewares |-> <<Binding("mw", "http", <<"A">>, {"SUB_a"})>>,
      guards |-> <<Binding("g1", "http", <<>>, {"READ_a"}), Binding("g2", "ws", <<>>, {"READ_a"}),
                   Binding("g3", "http", <<>>, {"READ_b", "SUB_b"})>>,
      interceptors |-> <<Binding("i1", "http", <<>>, {"READ_y"}), Binding("i2", "ws", <<>>, {"SUB_y"}),
                         Binding("i3", "ws", <<>>, {"SUB_b"})>>],
     [NoBindings EXCEPT !.guards = <<Binding("g", "neither", <<>>, {})>>],
     [NoBindings EXCEPT !.guards = <<Binding("g", "ws", <<"C">>, {})>>]}

XPrefixes == {<<>>, <<[value |-> "in", handlers |-> {"READ_a"}], [value |-> "out", handlers |-> {}]>>}

YHandlers ==
    {<<Handler("READ_y", "http", "y", TRUE), Handler("SUB_y", "ws", "ev.y", TRUE)>>,
     <<Handler("READ_y", "http", "b", TRUE)>>, <<Handler("SUB_y", "ws", "ev.b", TRUE)>>,
     <<Handler("READ_y", "http", "y", FALSE)>>, <<Handler("SUB_y", "ws", "ev.y", FALSE)>>}

CtlPlaces ==
    {Fn(<<"X">>, <<>>, <<"X">>), Fn(<<>>, <<"X">>, <<"Y">>), Fn(<<"Y">>, <<"X">>, <<"X", "Y">>),
     Fn(<<"X", "Y">>, <<>>, <<>>), Fn(<<>>, <<>>, <<"Y", "X">>)}

ControllerApps ==
    {App(g, {}, NoArgs, Fn(<<"A">>, <<>>, <<>>), Fields(<<>>, <<>>, <<>>), cs, pre,
         "X" :> Ctl(TRUE, TRUE, <<"A">>, <<>>, XHandlers, NoBindings)
         @@ "Y" :> Ctl(TRUE, TRUE, <<>>, <<>>, yh, NoBindings)) :
        g \in ImportGraphs, cs \in CtlPlaces,
        pre \in {Fn(<<>>, <<"p2">>, <<"p3">>), Fn(<<"p1">>, <<"p2", "q2">>, <<>>)},
        yh \in YHandlers}
    \cup
    {App(g, {}, NoArgs, Fn(<<"A">>, <<>>, <<>>), Fields(<<>>, <<>>, <<>>),
         Fn(<<>>, <<"X">>, <<"X", "Y">>), Fn(<<"p1">>, <<"p2">>, <<"p3">>),
         "X" :> Ctl(TRUE, TRUE, <<"A">>, xp, XHandlers, b)
         @@ "Y" :> Ctl(http, ~http, yf, <<>>, yh, NoBindings)) :
        g \in ImportGraphs, xp \in XPrefixes, b \in BindingChoices, yh \in YHandlers,
        yf \in {<<>>, <<"B">>}, http \in BOOLEAN}

\* Controllers of events alone, one of them shared.
EventApps ==
    {App(g, {}, NoArgs, NoArgs, Fields(<<>>, <<>>, <<>>), Fn(<<"X">>, <<>>, <<"Y">>),
         Fn(<<"p1">>, <<"p2">>, <<"p3">>),
         "X" :> Ctl(FALSE, TRUE, <<>>, <<>>, XHandlers, NoBindings)
         @@ "Y" :> Ctl(FALSE, TRUE, <<>>, <<>>, yh, NoBindings)) :
        g \in ImportGraphs, yh \in YHandlers}

MCApps == ProviderApps \cup ControllerApps \cup EventApps
============================================================================
