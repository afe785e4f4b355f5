--------------------------- MODULE MCMemoryCache ---------------------------
(* Instances of MemoryCache for TLC.                                        *)
EXTENDS MemoryCache, TLC

CONSTANTS k1, k2

\* Each key in a shard of its own.
Apart == (k1 :> 0) @@ (k2 :> 1)
=============================================================================
