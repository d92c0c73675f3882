--------------------------- MODULE MCLpacExecution ---------------------------
(* Instances of LpacExecution for TLC.                                      *)
EXTENDS LpacExecution, TLC

Interchangeable == Permutations(Executions)
==============================================================================
