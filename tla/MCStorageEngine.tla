-------------------------- MODULE MCStorageEngine --------------------------
(* Instances of StorageEngine for TLC.                                      *)
EXTENDS StorageEngine

CONSTANTS d1, d2, d3, v1, v2

\* Transactions that write and delete: one of two documents, one of the same
\* document twice, and a short one, whose records fit where those of a
\* transaction with the same number were left by an earlier process.
MCTxOps == {<<<<d1, v1>>, <<d2, NoDoc>>>>, <<<<d1, NoDoc>>, <<d1, v1>>>>, <<<<d2, v2>>>>}

\* What happens after damage is not explored: nothing is claimed of it.
Undamaged == ~damaged
=============================================================================
