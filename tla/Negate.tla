------------------------------- MODULE Negate -------------------------------
(***************************************************************************)
(* lab08: threads negate the cells of an image, each the cells it is       *)
(* responsible for: by the cell's value ("numbers") or by its column       *)
(* ("block").  Nothing is locked.                                          *)
(***************************************************************************)
EXTENDS Integers

CONSTANTS width, height, pixel_max,
          Picture,         \* the cells that were loaded: unsigned chars, which may
                           \* be greater than pixel_max
          MaxThreads

Size == width * height

NegateParameters ==
    /\ width \in Nat \ {0} /\ height \in Nat /\ pixel_max \in Nat /\ MaxThreads \in Nat
    /\ Picture \in [0 .. Size - 1 -> 0 .. 255]

VARIABLES method, threads_no,
          cells,
          negater          \* of each thread: the cell it is at, its step, what it has read

negateVars == <<method, threads_no, cells, negater>>

Threads == 0 .. threads_no - 1

\* Rounded up.
Ceil(a, b) == (a + b - 1) \div b

\* C's remainder has the sign of the dividend.
Remainder(a, n) == IF a >= 0 THEN a % n ELSE -((-a) % n)

\* Faulty variant: rounded down.
coeffFloor == width \div threads_no
coeff == Ceil(width, threads_no)

\* The columns of a block, each from top to bottom.
FirstCell(t) == IF method = "numbers" THEN 0
                ELSE IF t * coeff < width THEN t * coeff ELSE Size
NextCell(t, j) ==
    IF method = "numbers" THEN j + 1
    ELSE IF j + width < Size THEN j + width
    ELSE LET i == (j % width) + 1
         IN IF i < (t + 1) * coeff /\ i < width THEN i ELSE Size

Init ==
    /\ method \in {"numbers", "block"}
    /\ threads_no \in 1 .. MaxThreads
    /\ cells = Picture
    /\ negater = [t \in Threads |-> [cell |-> FirstCell(t), at |-> "start", val |-> 0]]

Step(t, place) == negater[t].cell < Size /\ negater[t].at = place
Cell(t) == cells[negater[t].cell]
Moves(t, place, val) == negater' = [negater EXCEPT ![t].at = place, ![t].val = val]
Advances(t) ==
    negater' = [negater EXCEPT ![t] =
                  [cell |-> NextCell(t, @.cell), at |-> "start", val |-> 0]]

\* numbers: the cell is read to see whether it is a high value, read again to
\* fold it onto a low one, and read a third time to be negated.
Look(t) ==
    /\ method = "numbers" /\ Step(t, "start")
    /\ Moves(t, IF Cell(t) > pixel_max \div 2 THEN "high" ELSE "low", 0)
    /\ UNCHANGED cells
Fold(t) ==
    /\ Step(t, "high") \/ Step(t, "low")
    /\ LET val == IF negater[t].at = "high" THEN pixel_max - Cell(t) ELSE Cell(t)
       IN IF Remainder(val, threads_no) = t THEN Moves(t, "mine", 0) ELSE Advances(t)
    /\ UNCHANGED cells

\* block: every cell of the block.
Take(t) ==
    /\ method = "block" /\ Step(t, "start")
    /\ Moves(t, "mine", 0)
    /\ UNCHANGED cells

Load(t) ==
    /\ Step(t, "mine")
    /\ Moves(t, "store", pixel_max - Cell(t))
    /\ UNCHANGED cells
Store(t) ==
    /\ Step(t, "store")
    /\ cells' = [cells EXCEPT ![negater[t].cell] = negater[t].val % 256]
    /\ Advances(t)

ThreadStep(t) == Look(t) \/ Fold(t) \/ Take(t) \/ Load(t) \/ Store(t)

Next == (\E t \in Threads : ThreadStep(t)) /\ UNCHANGED <<method, threads_no>>

\* negate joins all threads.
Finished == \A t \in Threads : negater[t].cell >= Size

AllNegated == cells = [j \in 0 .. Size - 1 |-> (pixel_max - Picture[j]) % 256]

\* However many threads there are, and however wide the last block is, blocks
\* negate every cell exactly once; numbers do if there is but one thread.  A
\* cell above pixel_max wraps around.
NegatedOnce ==
    Finished /\ (method = "block" \/ threads_no = 1) => AllNegated
==============================================================================
