--------------------------- MODULE MCMemoryBroker ---------------------------
(***************************************************************************)
(* Instances of MemoryBroker for TLC.  Subscriptions carry one pattern of  *)
(* each kind, and the topics hit several maps at once.                     *)
(***************************************************************************)
EXTENDS MemoryBroker

\* One subscription of each kind, all of which match "a.b".
FourSubs == {"s1", "s2", "s3", "s4"}
FourTopics == [s1 |-> <<"a", "*">>, s2 |-> <<"*", "b">>,
               s3 |-> <<"a", "b">>, s4 |-> <<"*">>]

PublishedTopics == {<<"a", "b">>, <<"a", "c", "b">>}

ASSUME MCNoTrailingDot == NoTrailingDot
=============================================================================
