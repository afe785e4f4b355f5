---------------------------- MODULE MCThrottler ----------------------------
(* Instances of Throttler for TLC.                                          *)
EXTENDS Throttler, TLC

\* The goroutines are interchangeable.
Symmetry == Permutations(Requests)
=============================================================================
