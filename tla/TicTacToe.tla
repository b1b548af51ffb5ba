------------------------------ MODULE TicTacToe ------------------------------
(***************************************************************************)
(* lab10 over TCP: one game between two connected players -- the server's  *)
(* game_connection and what the two clients print at its end.              *)
(*                                                                         *)
(* One server thread plays the game.  What it reads from the player on     *)
(* turn may be any number: the user's, or the eight bytes with which the   *)
(* client answers a ping, or what the message held before when the player  *)
(* is gone.                                                                *)
(***************************************************************************)
EXTENDS Integers, FiniteSets

CONSTANT Answers      \* numbers a player may answer with

ASSUME TicTacToeAssumption == 1 .. 9 \subseteq Answers /\ Answers \subseteq Int

VARIABLES board,      \* the characters on the board
          round,
          winner,     \* what the game loop last got from check_board
          report      \* what each player's client has printed last

vars == <<board, round, winner, report>>

Players == {0, 1}                       \* players[0] moves first
Fields == 0 .. 8
Blank == 32
TICK1 == 79                             \* 'O'
TICK2 == 88                             \* 'X'
Draw == 100                             \* 'd'
Tick(player) == IF player = 1 THEN TICK2 ELSE TICK1

\* A value stored in a (signed) char.
Char(n) == ((n + 128) % 256) - 128

Columns == <<<<0, 3, 6>>, <<1, 4, 7>>, <<2, 5, 8>>>>
Rows    == <<<<0, 1, 2>>, <<3, 4, 5>>, <<6, 7, 8>>>>
Diagonals == <<<<0, 4, 8>>, <<2, 4, 6>>>>

\* Faulty variant: three blank fields count as a line.
check_line_blank(b, line) ==
    IF b[line[1]] = b[line[2]] /\ b[line[2]] = b[line[3]] THEN b[line[1]] ELSE 0

check_line(b, line) ==
    IF b[line[1]] # Blank /\ b[line[1]] = b[line[2]] /\ b[line[2]] = b[line[3]]
      THEN b[line[1]] ELSE 0

Full(b) == \A f \in Fields : b[f] # Blank

LinesSum(b, lines) ==
    check_line(b, lines[1]) + check_line(b, lines[2]) + check_line(b, lines[3])

\* Faulty variant: rows are looked at first.
check_board_rows(b) ==
    LET rows == LinesSum(b, Rows)
    IN IF rows = 0 THEN 0 ELSE Char(rows + LinesSum(b, Columns))

\* Characters of complete lines are added up, and a direction is looked at only
\* if the ones before it gave something.
check_board(b) ==
    LET columns == Char(LinesSum(b, Columns))
        rows    == Char(columns + LinesSum(b, Rows))
        first   == Char(rows + check_line(b, Diagonals[1]))
        both    == Char(first + check_line(b, Diagonals[2]))
    IN IF columns = 0 \/ rows = 0 \/ first = 0 THEN 0
       ELSE IF Full(b) THEN Draw ELSE both

\* MSG_END as a client understands it.
handle_end(w, player) ==
    IF w = Draw THEN "draw" ELSE IF w = Tick(player) THEN "won" ELSE "lost"

Init ==
    /\ board = [f \in Fields |-> Blank]
    /\ round = 0 /\ winner = 0
    /\ report = [p \in Players |-> "playing"]

Playing == winner = 0 /\ \A p \in Players : report[p] = "playing"

\* Faulty variant: a refused answer costs the turn.
AnswerOnce(move) ==
    /\ Playing
    /\ round' = round + 1
    /\ LET b == [board EXCEPT ![move - 1] = Tick(round % 2)]
           placed == move \in 1 .. 9 /\ board[move - 1] = Blank
       IN /\ board' = IF placed THEN b ELSE board
          /\ winner' = check_board(board')
          /\ report' = IF winner' = 0 THEN report
                       ELSE [p \in Players |-> handle_end(winner', p)]

\* The player on turn answers a number.  One that is no free field is asked
\* again; otherwise the board is updated and looked at.
Answer(move) ==
    /\ Playing
    /\ IF move < 1 \/ move > 9 \/ board[move - 1] # Blank
         THEN UNCHANGED vars
         ELSE LET b == [board EXCEPT ![move - 1] = Tick(round % 2)]
              IN /\ board' = b
                 /\ round' = round + 1
                 /\ winner' = check_board(b)
                 /\ report' = IF check_board(b) = 0 THEN report
                              ELSE [p \in Players |-> handle_end(check_board(b), p)]

\* The player on turn has exited: its MSG_DISCONNECT is read instead of a move,
\* and the opponent is told.
Disconnect ==
    /\ Playing
    /\ report' = [p \in Players |-> IF p = round % 2 THEN "exited"
                                                     ELSE "opponent left"]
    /\ UNCHANGED <<board, round, winner>>

Next == Disconnect \/ \E move \in Answers : Answer(move)

Spec == Init /\ [][Next]_vars
------------------------------------------------------------------------------
Ticks(c) == Cardinality({f \in Fields : board[f] = c})
Has(player, lines) == \E i \in 1 .. 3 : check_line(board, lines[i]) = Tick(player)
HasLine(player) ==
    \/ Has(player, Columns) \/ Has(player, Rows)
    \/ \E i \in 1 .. 2 : check_line(board, Diagonals[i]) = Tick(player)

\* Answers that are refused cost no turn and give none away: the players have
\* placed their ticks in turn, whatever was read from them.
TurnsAlternate ==
    /\ round = Ticks(TICK1) + Ticks(TICK2)
    /\ Ticks(TICK1) - Ticks(TICK2) = round % 2

\* Who is told YOU WON has a complete line, made by the last move, and a game ends
\* with one winner and one loser, or with two draws and a full board: the sums of
\* characters in check_board are nobody else's tick and no 'd' by chance
\* (server.c:258-265, 316-359, client.c:137-147).
WinnersHaveLine ==
    /\ winner \in {0, TICK1, TICK2, Draw}
    /\ \A p \in Players :
         /\ report[p] = "won" =>
              HasLine(p) /\ (round - 1) % 2 = p /\ report[1 - p] = "lost"
         /\ report[p] = "lost" => report[1 - p] = "won"
         /\ report[p] = "draw" => Full(board) /\ report[1 - p] = "draw"

\* The game does not go on over a complete column: nothing that is added to the
\* column's character wraps the sum around to 0.
ColumnEndsGame ==
    Playing => ~Has(0, Columns) /\ ~Has(1, Columns)
==============================================================================
