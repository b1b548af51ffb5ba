------------------------------ MODULE MCPrograms ------------------------------
(* The small programs.  0 and 10 stand for every number that is no field of a    *)
(* board.                                                                        *)
EXTENDS Programs

MCAnswers == 0 .. 10
MCProducers == {1, 2}
MCRowOf == <<3, 1>>
MCLeftovers == {NoFile, <<>>, <<<<"newline">>, <<"newline">>, <<"newline">>>>,
                <<<<"old">>, <<"newline">>, <<"old">>, <<"old">>, <<"newline">>, <<"old">>>>}
MCPicture == [j \in 0 .. 5 |-> IF j = 4 THEN 200 ELSE (2 * j + 1) % 8]
MCClients == {1, 2}
MCNameOf == <<"a", "b">>
==============================================================================
