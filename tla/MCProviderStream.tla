--------------------------- MODULE MCProviderStream ----------------------------
(* Turns with interleaved calls, comments, errors, equal ids, text and     *)
(* arguments beyond the limit, too much text and something behind the end. *)
EXTENDS ProviderStream

MCTurns == {
    <<Text(1), Comment, Text(2), End, Text(3)>>,
    <<Start(2, "a"), Start(1, "b"), Arguments(2, 1), Arguments(1, 3), Arguments(2, 2), End>>,
    <<Text(1), Start(1, "a"), Failure, End>>,
    <<Start(1, "a"), Start(2, "a"), End>>,
    <<Start(1, "a"), Arguments(1, 4), Arguments(1, 1), Text(5), End>>,
    <<Text(4), Text(3), End>>
}
==============================================================================
