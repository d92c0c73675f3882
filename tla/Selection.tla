------------------------------- MODULE Selection -------------------------------
(***************************************************************************)
(* What Array.filter leaves of a list.  It is a function, not SelectSeq,   *)
(* whose second argument is an operator, so that a proof can follow it     *)
(* element by element.                                                     *)
(***************************************************************************)
EXTENDS Naturals, Sequences

\* The elements of s that are in S, in their order.
Keep(s, S) ==
    LET kept[n \in 0 .. Len(s)] ==
          IF n = 0 THEN <<>>
          ELSE IF s[n] \in S THEN Append(kept[n - 1], s[n]) ELSE kept[n - 1]
    IN kept[Len(s)]
==============================================================================
