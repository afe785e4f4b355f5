---------------------------- MODULE MCWSConnmgr ----------------------------
(* Instances of WSConnmgr for TLC: an exact topic and a wildcard over it,   *)
(* asked for together, apart and twice.                                     *)
EXTENDS WSConnmgr

ab == <<"a", "b">>
aStar == <<"a", "*">>
MCTopics == {ab, aStar}
MCRequests == {<<ab>>, <<aStar, ab>>, <<ab, ab>>}
=============================================================================
