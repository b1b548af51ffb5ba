--------------------------- MODULE TicTacToeProofs ---------------------------
(***************************************************************************)
(* Proofs about one game of TicTacToe, whatever numbers the players answer *)
(* with.                                                                   *)
(*                                                                         *)
(* The arithmetic of check_board is the point: it adds characters in a     *)
(* signed char.  While the game goes on nobody has a column; a move fills  *)
(* one field, so it completes at most the column of that field, with the   *)
(* tick of the player on turn.  Any other line complete with it crosses    *)
(* it, so has the same tick, and takes five fields: the board is then      *)
(* full and the game a draw.  Multiples of 79 or 88 up to the sixth are    *)
(* never 0 modulo 256, so the game does end.                               *)
(***************************************************************************)
EXTENDS TicTacToe, FiniteSetTheorems, TLAPS

\* check_line on three characters.
Line(x, y, z) == IF x # Blank /\ x = y /\ y = z THEN x ELSE 0

\* The fields of b before field k that hold c.
Holding(b, c, k) == {f \in 0 .. k - 1 : b[f] = c}
One(b, c, f) == IF b[f] = c THEN 1 ELSE 0

TypeInv ==
    /\ board \in [Fields -> {Blank, TICK1, TICK2}]
    /\ round \in 0 .. 9
    /\ report \in [Players -> {"playing", "draw", "won", "lost", "exited", "opponent left"}]

\* Of the lines only a column makes a winner, since the others are looked at only
\* behind a column.
WinnersHaveColumn ==
    /\ winner \in {0, TICK1, TICK2, Draw}
    /\ \A p \in Players :
         report[p] = "won" =>
           /\ Has(p, Columns) /\ ~Has(1 - p, Columns)
           /\ (round - 1) % 2 = p
           /\ report[1 - p] = "lost"

\* A loser has a winner beside him, a draw is one for both and the board is full.
ReportsAgree ==
    \A p \in Players :
        /\ report[p] = "lost" => report[1 - p] = "won"
        /\ report[p] = "draw" => Full(board) /\ report[1 - p] = "draw"

GameInv == TypeInv /\ TurnsAlternate /\ WinnersHaveColumn /\ ReportsAgree /\ ColumnEndsGame
------------------------------------------------------------------------------
(* Counting ticks.                                                         *)

LEMMA Count ==
    \A b, c : Cardinality({f \in Fields : b[f] = c}) =
        One(b, c, 0) + One(b, c, 1) + One(b, c, 2) + One(b, c, 3) + One(b, c, 4)
        + One(b, c, 5) + One(b, c, 6) + One(b, c, 7) + One(b, c, 8)
<1> TAKE b, c
<1> DEFINE n == [k \in 0 .. 9 |-> Cardinality(Holding(b, c, k))]
<1>1. \A k \in 0 .. 9 : IsFiniteSet(Holding(b, c, k))
  <2> TAKE k \in 0 .. 9
  <2>1. IsFiniteSet(0 .. k - 1) /\ Holding(b, c, k) \in SUBSET (0 .. k - 1)
    BY FS_Interval DEF Holding
  <2> QED
    BY <2>1, FS_Subset
<1>2. n[0] = 0
  <2>1. Holding(b, c, 0) = {}
    BY DEF Holding
  <2> QED
    BY <2>1, FS_EmptySet
<1>3. \A k \in 0 .. 8 : n[k + 1] = n[k] + One(b, c, k) /\ n[k] \in Nat
  <2> TAKE k \in 0 .. 8
  <2>1. IsFiniteSet(Holding(b, c, k)) /\ Cardinality(Holding(b, c, k)) \in Nat
    <3>1. k \in 0 .. 9
      OBVIOUS
    <3> QED
      BY <1>1, <3>1, FS_CardinalityType
  <2>2. CASE b[k] = c
    <3>1. Holding(b, c, k + 1) = Holding(b, c, k) \cup {k} /\ k \notin Holding(b, c, k)
      BY <2>2 DEF Holding
    <3> QED
      BY <2>1, <2>2, <3>1, FS_AddElement DEF One
  <2>3. CASE b[k] # c
    <3>1. Holding(b, c, k + 1) = Holding(b, c, k)
      BY <2>3 DEF Holding
    <3> QED
      BY <2>1, <2>3, <3>1 DEF One
  <2> QED
    BY <2>2, <2>3
<1>4. {f \in Fields : b[f] = c} = Holding(b, c, 9)
  BY DEF Holding, Fields
<1>5. \A k \in 0 .. 8 : One(b, c, k) \in {0, 1}
  BY DEF One
<1> HIDE DEF n
<1>6. n[9] = One(b, c, 0) + One(b, c, 1) + One(b, c, 2) + One(b, c, 3) + One(b, c, 4)
             + One(b, c, 5) + One(b, c, 6) + One(b, c, 7) + One(b, c, 8)
  <2>1. /\ n[0 + 1] = n[0] + One(b, c, 0) /\ n[1 + 1] = n[1] + One(b, c, 1)
        /\ n[2 + 1] = n[2] + One(b, c, 2) /\ n[3 + 1] = n[3] + One(b, c, 3)
        /\ n[4 + 1] = n[4] + One(b, c, 4) /\ n[5 + 1] = n[5] + One(b, c, 5)
        /\ n[6 + 1] = n[6] + One(b, c, 6) /\ n[7 + 1] = n[7] + One(b, c, 7)
        /\ n[8 + 1] = n[8] + One(b, c, 8)
    BY <1>3
  <2> QED
    BY <1>2, <1>5, <2>1
<1> QED
  BY <1>4, <1>6 DEF n
------------------------------------------------------------------------------
(* check_board.                                                            *)

LEMMA Unfold ==
    \A b : LET columns == Char(Line(b[0], b[3], b[6]) + Line(b[1], b[4], b[7])
                              + Line(b[2], b[5], b[8]))
              rows    == Char(columns + (Line(b[0], b[1], b[2]) + Line(b[3], b[4], b[5])
                              + Line(b[6], b[7], b[8])))
              first   == Char(rows + Line(b[0], b[4], b[8]))
              both    == Char(first + Line(b[2], b[4], b[6]))
          IN check_board(b) = IF columns = 0 \/ rows = 0 \/ first = 0 THEN 0
                              ELSE IF Full(b) THEN Draw ELSE both
<1>1. \A b, i, j, k : check_line(b, <<i, j, k>>) = Line(b[i], b[j], b[k])
  BY DEF check_line, Line
<1>2. \A b : /\ LinesSum(b, Columns) = Line(b[0], b[3], b[6]) + Line(b[1], b[4], b[7])
                                      + Line(b[2], b[5], b[8])
             /\ LinesSum(b, Rows) = Line(b[0], b[1], b[2]) + Line(b[3], b[4], b[5])
                                   + Line(b[6], b[7], b[8])
  BY <1>1 DEF LinesSum, Columns, Rows
<1> QED
  BY <1>1, <1>2 DEF check_board, Diagonals

\* Six equal ticks at most are added up, and the sum never wraps around to 0.
LEMMA NoWrap ==
    ASSUME NEW t \in {TICK1, TICK2}, NEW r \in {0, t, 2 * t, 3 * t},
           NEW d1 \in {0, t}, NEW d2 \in {0, t}
    PROVE  /\ Char(t) # 0 /\ Char(Char(t) + r) # 0
           /\ Char(Char(Char(t) + r) + d1) # 0
           /\ Char(Char(Char(Char(t) + r) + d1) + d2) # 0
           /\ r = 0 /\ d1 = 0 /\ d2 = 0 =>
                Char(Char(Char(Char(t) + r) + d1) + d2) = t
  BY DEF Char, TICK1, TICK2

\* A board on which at most one column is complete, with tick t, and that is full
\* if t has been placed more than four times.
LEMMA Judged ==
    ASSUME NEW b \in [Fields -> {Blank, TICK1, TICK2}], NEW t \in {TICK1, TICK2},
           NEW i \in 1 .. 3,
           \A j \in 1 .. 3 : j # i => check_line(b, Columns[j]) = 0,
           check_line(b, Columns[i]) \in {0, t},
           Cardinality({f \in Fields : b[f] = t}) > 4 => Full(b)
    PROVE  IF check_line(b, Columns[i]) = 0 THEN check_board(b) = 0
                                            ELSE \/ check_board(b) = t
                                                 \/ check_board(b) = Draw /\ Full(b)
<1> DEFINE c1 == Line(b[0], b[3], b[6])  r1 == Line(b[0], b[1], b[2])
           c2 == Line(b[1], b[4], b[7])  r2 == Line(b[3], b[4], b[5])
           c3 == Line(b[2], b[5], b[8])  r3 == Line(b[6], b[7], b[8])
           d1 == Line(b[0], b[4], b[8])  d2 == Line(b[2], b[4], b[6])
           only == <<c1, c2, c3>>
<1>1. /\ check_line(b, Columns[1]) = c1 /\ check_line(b, Columns[2]) = c2
      /\ check_line(b, Columns[3]) = c3
  BY DEF check_line, Line, Columns
<1>2. c1 + c2 + c3 = check_line(b, Columns[i])
  <2>1. check_line(b, Columns[i]) \in Int
    BY DEF TICK1, TICK2
  <2>2. i = 1 \/ i = 2 \/ i = 3
    OBVIOUS
  <2> QED
    BY <1>1, <2>1, <2>2
<1>3. CASE check_line(b, Columns[i]) = 0
  <2>1. Char(c1 + c2 + c3) = 0
    BY <1>2, <1>3 DEF Char
  <2> QED
    BY <1>3, <2>1, Unfold
<1>4. CASE check_line(b, Columns[i]) = t
  <2>1. \/ b[0] = t /\ b[3] = t /\ b[6] = t
        \/ b[1] = t /\ b[4] = t /\ b[7] = t
        \/ b[2] = t /\ b[5] = t /\ b[8] = t
    BY <1>1, <1>4 DEF Line, TICK1, TICK2
  <2>2. r1 \in {0, t} /\ r2 \in {0, t} /\ r3 \in {0, t}
    BY <2>1 DEF Line
  <2>3. d1 \in {0, t} /\ d2 \in {0, t}
    BY <2>1 DEF Line
  <2>4. r1 + r2 + r3 \in {0, t, 2 * t, 3 * t}
    BY <2>2 DEF TICK1, TICK2
  <2>5. CASE Full(b)
    BY <1>2, <1>4, <2>3, <2>4, <2>5, NoWrap, Unfold
  <2>6. CASE ~Full(b)
    <3>1. One(b, t, 0) + One(b, t, 1) + One(b, t, 2) + One(b, t, 3) + One(b, t, 4)
          + One(b, t, 5) + One(b, t, 6) + One(b, t, 7) + One(b, t, 8) <= 4
      <4>1. Cardinality({f \in Fields : b[f] = t}) =
              One(b, t, 0) + One(b, t, 1) + One(b, t, 2) + One(b, t, 3) + One(b, t, 4)
              + One(b, t, 5) + One(b, t, 6) + One(b, t, 7) + One(b, t, 8)
        BY Count
      <4>2. \A f \in Fields : One(b, t, f) \in {0, 1}
        BY DEF One
      <4> QED
        BY <2>6, <4>1, <4>2 DEF Fields
    <3>2. r1 = 0 /\ r2 = 0 /\ r3 = 0
      BY <2>1, <2>2, <3>1 DEF One, Line, TICK1, TICK2
    <3>3. d1 = 0 /\ d2 = 0
      BY <2>1, <2>3, <3>1 DEF One, Line, TICK1, TICK2
    <3> QED
      BY <1>2, <1>4, <3>2, <3>3, NoWrap, Unfold
  <2> QED
    BY <2>5, <2>6
<1> QED
  BY <1>3, <1>4, Zenon
------------------------------------------------------------------------------
(* The game.                                                               *)

LEMMA Tallied ==
    /\ \A c : Cardinality({f \in Fields : board[f] = c}) \in 0 .. 9
    /\ \A b \in [Fields -> {Blank, TICK1, TICK2}] :
          LET N(c) == Cardinality({f \in Fields : b[f] = c})
          IN N(TICK1) + N(TICK2) <= 9 /\ (N(TICK1) + N(TICK2) = 9 => Full(b))
<1>1. \A b, c : \A f \in Fields : One(b, c, f) \in {0, 1}
  BY DEF One
<1>2. \A c : Cardinality({f \in Fields : board[f] = c}) \in 0 .. 9
  <2> TAKE c
  <2>1. \A f \in Fields : One(board, c, f) \in {0, 1}
    BY <1>1
  <2> QED
    BY <2>1, Count DEF Fields
<1>3. ASSUME NEW b \in [Fields -> {Blank, TICK1, TICK2}]
      PROVE  LET N(c) == Cardinality({f \in Fields : b[f] = c})
             IN N(TICK1) + N(TICK2) <= 9 /\ (N(TICK1) + N(TICK2) = 9 => Full(b))
  <2>1. \A f \in Fields : /\ One(b, TICK1, f) \in {0, 1} /\ One(b, TICK2, f) \in {0, 1}
                          /\ One(b, TICK1, f) + One(b, TICK2, f) <= 1
                          /\ One(b, TICK1, f) + One(b, TICK2, f) = 1 => b[f] # Blank
    BY DEF One, TICK1, TICK2, Blank
  <2> QED
    BY <2>1, Count DEF Fields, Full
<1> QED
  BY <1>2, <1>3

\* A move adds one tick to its player's and none to the other's.
LEMMA Placed ==
    ASSUME NEW f \in Fields, NEW t \in {TICK1, TICK2}, board[f] = Blank, TypeInv
    PROVE  LET b == [board EXCEPT ![f] = t]
               N(c) == Cardinality({g \in Fields : b[g] = c})
           IN N(t) = Ticks(t) + 1 /\ \A c \in {TICK1, TICK2} \ {t} : N(c) = Ticks(c)
<1> DEFINE b == [board EXCEPT ![f] = t]
<1>0. t # Blank
  BY DEF Blank, TICK1, TICK2
<1>1. \A g \in Fields : b[g] = IF g = f THEN t ELSE board[g]
  BY DEF TypeInv
<1>2. IsFiniteSet({g \in Fields : board[g] = t})
  <2>1. IsFiniteSet(Fields)
    BY 0 \in Int, 8 \in Int, FS_Interval, Zenon DEF Fields
  <2>2. {g \in Fields : board[g] = t} \in SUBSET Fields
    OBVIOUS
  <2> QED
    BY <2>1, <2>2, FS_Subset
<1> HIDE DEF b
<1>3. {g \in Fields : b[g] = t} = {g \in Fields : board[g] = t} \cup {f}
      /\ f \notin {g \in Fields : board[g] = t}
  BY <1>0, <1>1
<1>4. \A c \in {TICK1, TICK2} \ {t} :
        {g \in Fields : b[g] = c} = {g \in Fields : board[g] = c}
  BY <1>0, <1>1 DEF Blank, TICK1, TICK2
<1> QED
  BY <1>2, <1>3, <1>4, FS_AddElement DEF Ticks, b

LEMMA Initially == Init => GameInv
<1> SUFFICES ASSUME Init PROVE GameInv
  OBVIOUS
<1>1. TypeInv
  BY DEF Init, TypeInv
<1>2. Ticks(TICK1) = 0 /\ Ticks(TICK2) = 0
  <2>1. {f \in Fields : board[f] = TICK1} = {} /\ {f \in Fields : board[f] = TICK2} = {}
    BY DEF Init, Blank, TICK1, TICK2
  <2> QED
    BY <2>1, FS_EmptySet DEF Ticks
<1>3. TurnsAlternate
  BY <1>2 DEF Init, TurnsAlternate
<1>4. WinnersHaveColumn /\ ReportsAgree
  BY DEF Init, WinnersHaveColumn, ReportsAgree
<1>5. ColumnEndsGame
  <2>1. \A i \in 1 .. 3 : check_line(board, Columns[i]) = 0
    BY DEF Init, check_line, Columns, Fields
  <2> QED
    BY <2>1 DEF ColumnEndsGame, Has, Tick, TICK1, TICK2
<1> QED
  BY <1>1, <1>3, <1>4, <1>5 DEF GameInv

LEMMA AnswerPreserves ==
    ASSUME GameInv, NEW move \in Answers, Answer(move)
    PROVE  GameInv'
<1> USE DEF GameInv
<1> DEFINE f == move - 1
           t == Tick(round % 2)
           b == [board EXCEPT ![f] = t]
           N(c) == Cardinality({g \in Fields : b[g] = c})
<1>1. CASE UNCHANGED vars
  BY <1>1 DEF vars, TypeInv, TurnsAlternate, Ticks, WinnersHaveColumn, ReportsAgree,
     ColumnEndsGame, Has, Playing
<1>2. CASE ~(move < 1 \/ move > 9 \/ board[move - 1] # Blank)
  <2>1. move \in Int
    BY TicTacToeAssumption
  <2>2. /\ f \in Fields /\ board[f] = Blank /\ Playing
        /\ board' = b /\ round' = round + 1 /\ winner' = check_board(b)
        /\ report' = IF check_board(b) = 0 THEN report
                     ELSE [p \in Players |-> handle_end(check_board(b), p)]
    <3>1. f \in Fields /\ board[f] = Blank
      BY <1>2, <2>1 DEF Fields
    <3> QED
      BY <1>2, <3>1, Zenon DEF Answer
  <2>3. t \in {TICK1, TICK2} /\ t # Blank /\ t # 0
    BY DEF Tick, TICK1, TICK2, Blank
  <2>4. /\ b \in [Fields -> {Blank, TICK1, TICK2}]
        /\ \A g \in Fields : b[g] = IF g = f THEN t ELSE board[g]
    BY <2>3 DEF TypeInv
  <2> HIDE DEF b, f, t
  <2>5. /\ N(t) = Ticks(t) + 1 /\ \A c \in {TICK1, TICK2} \ {t} : N(c) = Ticks(c)
    BY <2>2, <2>3, Placed DEF b
  <2>6. /\ Ticks(TICK1) \in 0 .. 9 /\ Ticks(TICK2) \in 0 .. 9
        /\ N(TICK1) + N(TICK2) <= 9 /\ (N(TICK1) + N(TICK2) = 9 => Full(b))
    BY <2>4, Tallied DEF Ticks
  <2> HIDE DEF N
  <2>7. round \in 0 .. 9 /\ round = Ticks(TICK1) + Ticks(TICK2)
        /\ Ticks(TICK1) - Ticks(TICK2) = round % 2
    BY DEF TypeInv, TurnsAlternate
  <2>8. /\ round + 1 = N(TICK1) + N(TICK2) /\ N(TICK1) - N(TICK2) = (round + 1) % 2
        /\ N(t) > 4 => Full(b)
    <3>1. CASE round % 2 = 0
      <4>1. t = TICK1 /\ TICK2 \in {TICK1, TICK2} \ {t}
        BY <3>1 DEF t, Tick, TICK1, TICK2
      <4>2. N(TICK1) = Ticks(TICK1) + 1 /\ N(TICK2) = Ticks(TICK2)
        BY <2>5, <4>1
      <4>3. Ticks(TICK1) = Ticks(TICK2) /\ (round + 1) % 2 = 1
        BY <2>6, <2>7, <3>1
      <4>4. round + 1 = N(TICK1) + N(TICK2) /\ N(TICK1) - N(TICK2) = (round + 1) % 2
        BY <2>6, <2>7, <4>2, <4>3
      <4>5. N(TICK1) > 4 => N(TICK1) + N(TICK2) = 9
        BY <2>6, <4>2, <4>3
      <4> QED
        BY <2>6, <4>1, <4>4, <4>5
    <3>2. CASE round % 2 = 1
      <4>1. t = TICK2 /\ TICK1 \in {TICK1, TICK2} \ {t}
        BY <3>2 DEF t, Tick, TICK1, TICK2
      <4>2. N(TICK2) = Ticks(TICK2) + 1 /\ N(TICK1) = Ticks(TICK1)
        BY <2>5, <4>1
      <4> QED
        BY <2>6, <2>7, <3>2, <4>1, <4>2
    <3> QED
      BY <2>7, <3>1, <3>2
  <2>9. TurnsAlternate'
    <3>1. Ticks(TICK1)' = N(TICK1) /\ Ticks(TICK2)' = N(TICK2)
      BY <2>2 DEF Ticks, N
    <3> QED
      BY <2>2, <2>8, <3>1 DEF TurnsAlternate
  <2>10. TypeInv'
    <3>1. round' \in 0 .. 9
      BY <2>2, <2>6, <2>7, <2>8
    <3>2. \A w, p : handle_end(w, p) \in {"draw", "won", "lost"}
      BY DEF handle_end
    <3> QED
      BY <2>2, <2>4, <3>1, <3>2 DEF TypeInv
  <2>11. PICK i \in 1 .. 3 :
           /\ \A j \in 1 .. 3 : j # i => check_line(b, Columns[j]) = 0
           /\ check_line(b, Columns[i]) \in {0, t}
    <3>1. \A j \in 1 .. 3 : check_line(board, Columns[j]) \notin {TICK1, TICK2}
      BY <2>2 DEF ColumnEndsGame, Has, Tick, TICK1, TICK2
    <3>2. \A x \in [Fields -> {Blank, TICK1, TICK2}] :
            /\ check_line(x, Columns[1]) = Line(x[0], x[3], x[6])
            /\ check_line(x, Columns[2]) = Line(x[1], x[4], x[7])
            /\ check_line(x, Columns[3]) = Line(x[2], x[5], x[8])
      BY DEF check_line, Line, Columns
    <3>3. \A g \in Fields : board[g] \in {Blank, TICK1, TICK2}
      BY DEF TypeInv
    <3>4. /\ Line(board[0], board[3], board[6]) = 0
          /\ Line(board[1], board[4], board[7]) = 0
          /\ Line(board[2], board[5], board[8]) = 0
      <4> HIDE DEF f
      <4>1. /\ Line(board[0], board[3], board[6]) \notin {TICK1, TICK2}
            /\ Line(board[1], board[4], board[7]) \notin {TICK1, TICK2}
            /\ Line(board[2], board[5], board[8]) \notin {TICK1, TICK2}
        <5>1. 1 \in 1 .. 3 /\ 2 \in 1 .. 3 /\ 3 \in 1 .. 3
          OBVIOUS
        <5> QED
          BY <3>1, <3>2, <5>1 DEF TypeInv
      <4> QED
        BY <3>3, <4>1 DEF Line, Fields
    <3>5. f \in Fields
      BY <2>2
    <3>6. CASE f \in {0, 3, 6}
      <4>1. /\ Line(b[0], b[3], b[6]) \in {0, t}
            /\ Line(b[1], b[4], b[7]) = 0 /\ Line(b[2], b[5], b[8]) = 0
        BY <2>4, <3>4, <3>6 DEF Line, Fields
      <4> WITNESS 1 \in 1 .. 3
      <4> QED
        BY <2>4, <3>2, <4>1
    <3>7. CASE f \in {1, 4, 7}
      <4>1. /\ Line(b[1], b[4], b[7]) \in {0, t}
            /\ Line(b[0], b[3], b[6]) = 0 /\ Line(b[2], b[5], b[8]) = 0
        BY <2>4, <3>4, <3>7 DEF Line, Fields
      <4> WITNESS 2 \in 1 .. 3
      <4> QED
        BY <2>4, <3>2, <4>1
    <3>8. CASE f \in {2, 5, 8}
      <4>1. /\ Line(b[2], b[5], b[8]) \in {0, t}
            /\ Line(b[0], b[3], b[6]) = 0 /\ Line(b[1], b[4], b[7]) = 0
        BY <2>4, <3>4, <3>8 DEF Line, Fields
      <4> WITNESS 3 \in 1 .. 3
      <4> QED
        BY <2>4, <3>2, <4>1
    <3> QED
      BY <3>5, <3>6, <3>7, <3>8 DEF Fields
  <2>12. IF check_line(b, Columns[i]) = 0 THEN check_board(b) = 0
                                          ELSE \/ check_board(b) = t
                                               \/ check_board(b) = Draw /\ Full(b)
    BY <2>3, <2>4, <2>8, <2>11, Judged DEF N
  <2>13. \A p \in Players, j \in 1 .. 3 :
           check_line(b, Columns[j]) = Tick(p) <=>
             j = i /\ Tick(p) = t /\ check_line(b, Columns[i]) # 0
    BY <2>3, <2>11 DEF Tick, TICK1, TICK2
  <2>14. ColumnEndsGame'
    <3> SUFFICES ASSUME check_board(b) = 0
                 PROVE  \A p \in Players, j \in 1 .. 3 : check_line(b, Columns[j]) # Tick(p)
      BY <2>2 DEF ColumnEndsGame, Has, Playing, Players
    <3>1. check_line(b, Columns[i]) = 0
      BY <2>3, <2>12 DEF Draw
    <3> QED
      BY <2>13, <3>1
  <2>15. WinnersHaveColumn'
    <3> DEFINE w == check_board(b)
    <3>1. w \in {0, TICK1, TICK2, Draw}
      BY <2>3, <2>12
    <3>2. ASSUME NEW p \in Players, report'[p] = "won"
          PROVE  w = Tick(p) /\ report'[1 - p] = "lost"
      <4>1. w # 0
        BY <2>2, <3>2 DEF Playing
      <4>2. report' = [q \in Players |-> handle_end(w, q)]
        BY <2>2, <4>1
      <4>3. handle_end(w, p) = "won"
        BY <3>2, <4>2
      <4>4. w = Tick(p) /\ w # Draw
        BY <4>3 DEF handle_end
      <4>5. 1 - p \in Players /\ Tick(1 - p) # Tick(p)
        BY DEF Players, Tick, TICK1, TICK2
      <4> QED
        BY <4>2, <4>4, <4>5 DEF handle_end
    <3>3. ASSUME NEW p \in Players, w = Tick(p)
          PROVE  t = Tick(p) /\ check_line(b, Columns[i]) # 0 /\ round % 2 = p
      <4>1. t = Tick(p) /\ check_line(b, Columns[i]) # 0
        BY <2>12, <3>3 DEF Tick, TICK1, TICK2, Draw
      <4>2. round % 2 = p
        BY <2>7, <4>1 DEF t, Players, Tick, TICK1, TICK2
      <4> QED
        BY <4>1, <4>2
    <3>4. \A p \in Players : 1 - p \in Players /\ Tick(1 - p) # Tick(p)
      BY DEF Players, Tick, TICK1, TICK2
    <3>5. \A p \in Players :
            /\ Has(p, Columns)' <=> Tick(p) = t /\ check_line(b, Columns[i]) # 0
            /\ Has(1 - p, Columns)' <=> Tick(1 - p) = t /\ check_line(b, Columns[i]) # 0
      BY <2>2, <2>13, <3>4 DEF Has
    <3>6. round' - 1 = round
      BY <2>2, <2>7
    <3> HIDE DEF w
    <3> QED
      BY <2>2, <3>1, <3>2, <3>3, <3>4, <3>5, <3>6 DEF WinnersHaveColumn, w
  <2>16. ReportsAgree'
    <3> DEFINE w == check_board(b)
    <3> SUFFICES ASSUME NEW p \in Players, report'[p] \in {"lost", "draw"}
                 PROVE  /\ report'[p] = "lost" => report'[1 - p] = "won"
                        /\ report'[p] = "draw" => Full(b) /\ report'[1 - p] = "draw"
      BY <2>2 DEF ReportsAgree, Full
    <3>1. w # 0 /\ report' = [q \in Players |-> handle_end(w, q)]
      BY <2>2 DEF Playing
    <3>2. 1 - p \in Players /\ {TICK1, TICK2} = {Tick(p), Tick(1 - p)}
      BY DEF Players, Tick, TICK1, TICK2
    <3>3. w \in {Tick(p), Tick(1 - p)} \/ (w = Draw /\ Full(b))
      BY <2>3, <2>12, <3>1, <3>2
    <3>4. Tick(p) # Draw /\ Tick(1 - p) # Draw
      BY DEF Tick, TICK1, TICK2, Draw
    <3> HIDE DEF w
    <3> QED
      BY <3>1, <3>2, <3>3, <3>4 DEF handle_end
  <2> QED
    BY <2>9, <2>10, <2>14, <2>15, <2>16
<1> QED
  BY <1>1, <1>2 DEF Answer

LEMMA GameInvariant == Spec => []GameInv
<1>1. GameInv /\ [Next]_vars => GameInv'
  <2> SUFFICES ASSUME GameInv, [Next]_vars PROVE GameInv'
    OBVIOUS
  <2>1. ASSUME NEW move \in Answers, Answer(move) PROVE GameInv'
    BY <2>1, AnswerPreserves
  <2>2. CASE Disconnect
    <3>1. \A p \in Players : report'[p] \in {"exited", "opponent left"}
      BY <2>2 DEF Disconnect
    <3>2. TypeInv' /\ TurnsAlternate'
      BY <2>2 DEF Disconnect, GameInv, TypeInv, TurnsAlternate, Ticks
    <3>3. WinnersHaveColumn' /\ ReportsAgree' /\ ColumnEndsGame'
      BY <2>2, <3>1 DEF Disconnect, GameInv, WinnersHaveColumn, ReportsAgree, ColumnEndsGame, Has,
         Playing, Players
    <3> QED
      BY <3>2, <3>3 DEF GameInv
  <2>3. CASE UNCHANGED vars
    BY <2>3 DEF vars, GameInv, TypeInv, TurnsAlternate, Ticks, WinnersHaveColumn,
       ReportsAgree, ColumnEndsGame, Has, Playing
  <2> QED
    BY <2>1, <2>2, <2>3 DEF Next
<1> QED
  BY <1>1, Initially, PTL DEF Spec
------------------------------------------------------------------------------
\* An answer that is refused, whatever number it is, costs no turn and gives none
\* away (server.c:268-273).
THEOREM TurnsAlternateTheorem == Spec => []TurnsAlternate
  BY GameInvariant, PTL DEF GameInv

\* The player whose client prints YOU WON has a line and has made the last move; a
\* loser has a winner for opponent, and a draw is one for both on a full board
\* (server.c:258-265, 316-359, client.c:137-147).
THEOREM WinnersHaveLineTheorem == Spec => []WinnersHaveLine
<1>1. GameInv => WinnersHaveLine
  BY DEF GameInv, WinnersHaveColumn, ReportsAgree, WinnersHaveLine, HasLine
<1> QED
  BY <1>1, GameInvariant, PTL

\* Nothing that check_board adds to a complete column's character makes the sum 0
\* in its eight bits: the loop does not go on (server.c:258, 326-359).
THEOREM ColumnEndsGameTheorem == Spec => []ColumnEndsGame
  BY GameInvariant, PTL DEF GameInv
==============================================================================
