------------------------------ MODULE MCRunCore ------------------------------
(* Small instances of RunCore for TLC.                                     *)
EXTENDS RunEndInv, TLC

CONSTANTS r1, r2, c1, c2

\* Two runs in turn in one conversation, and two conversations side by side.
OneConversation  == (r1 :> c1) @@ (r2 :> c1)
OneRun           == (r1 :> c1)
TwoConversations == (r1 :> c1) @@ (r2 :> c2)
==============================================================================
