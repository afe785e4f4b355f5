------------------------------ MODULE MCRouter ------------------------------
(* Instances of Router for TLC: at every segment an exact child may compete *)
(* with a parameter, a wildcard or a glob.                                  *)
EXTENDS Router

MCRoutes ==
    {<<"a", "b">>, <<"a", "{x}">>, <<"a", "{y}">>, <<"a", "*">>, <<"a", "b", "*">>,
     <<"{x}", "{y}", "b">>, <<"a", "f*">>, <<"{x}", "*">>, <<"*">>}
MCRoutesRoot == {<<>>, <<"a", "b">>, <<"a", "{x}">>, <<"a", "*">>}
MCGlobWords == [g \in {"f*"} |-> {"fa"}]
=============================================================================
