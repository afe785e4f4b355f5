----------------------------- MODULE MCPipeline -----------------------------
(* Instances of Pipeline for TLC: a POST route of version 1 with layers of  *)
(* its own, a GET and a SERVE route of any version with the global layers   *)
(* only, and the WebSocket endpoint.                                        *)
EXTENDS Pipeline

CONSTANTS q1, q2

MCRoutes == {"create", "list", "files"}
MCPathOf == [create |-> "/users", list |-> "/list", files |-> "/files"]
MCVersionOf == [create |-> "1", list |-> Neutral, files |-> Neutral]
MCGlobal == [middleware |-> <<"gm">>, guard |-> <<"gg">>, interceptor |-> <<"gi">>,
             filter |-> <<"gf">>]
MCLocal == [middleware |-> [create |-> <<"mm">>, list |-> <<>>, files |-> <<>>],
            guard |-> [create |-> <<"mg">>, list |-> <<>>, files |-> <<>>],
            interceptor |-> [create |-> <<"mi">>, list |-> <<>>, files |-> <<>>],
            filter |-> [create |-> <<"mf">>, list |-> <<>>, files |-> <<>>]]

MCOutcomes ==
    LET middleware == {"next", "stop", "panic", "nextThenPanic"}
        guard == {"allow", "deny", "panic"}
        interceptor == {"pipe", "skip", "panic", "transform", "filter", "fail"}
    IN [gm |-> middleware, mm |-> middleware, wm |-> middleware, gg |-> guard, mg |-> guard,
        gi |-> interceptor, mi |-> interceptor,
        main |-> {"none", "value", "status", "badStatus", "panic"},
        gf |-> {"answer", "panic"}, mf |-> {"answer", "panic"},
        globalHTTPExceptionFilter |-> {"answer"}]

\* A second goroutine shares no more with the first than the pool of contexts; it gets
\* requests that reach no route, so that it takes and releases contexts at any time.
MCPathsOf == [q \in Requests |-> IF q = q1 THEN Paths ELSE {"/ws", "/none"}]
MCWSMiddlewares == <<"wm">>
=============================================================================
