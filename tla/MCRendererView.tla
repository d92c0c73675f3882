---------------------------- MODULE MCRendererView -----------------------------
(* Small instances of RendererView for TLC.                                 *)
EXTENDS ViewInv

CONSTANTS r1, r2, c1

InOneThread == [r \in Runs |-> c1]
==============================================================================
