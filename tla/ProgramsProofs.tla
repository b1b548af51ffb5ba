--------------------------- MODULE ProgramsProofs ----------------------------
(***************************************************************************)
(* Proofs about the small programs, for every value of their constants:    *)
(* that threads which negate an image leave each cell negated once         *)
(* (Negate), that the table of the UDP server stays sound (TicTacToeUdp),  *)
(* and that signals are counted no more often than sent (Signals).         *)
(***************************************************************************)
EXTENDS Programs, FiniteSetTheorems, SequenceTheorems, WellFoundedInduction, TLAPS

------------------------------------------------------------------------------
(* Products and remainders.                                                *)

LEMMA ModType ==
    ASSUME NEW a \in Int, NEW w \in Nat \ {0}
    PROVE  /\ a \div w \in Int /\ a % w \in 0 .. w - 1
           /\ a = w * (a \div w) + (a % w)
  OBVIOUS

LEMMA Monotone ==
    ASSUME NEW a \in Int, NEW b \in Int, NEW c \in Nat, a <= b
    PROVE  a * c <= b * c
<1>1. (b - a) * c >= 0
  OBVIOUS
<1> QED
  BY <1>1

LEMMA SmallMultiple ==
    ASSUME NEW w \in Nat \ {0}, NEW d \in Int, w * d < w
    PROVE  d <= 0
<1> SUFFICES ASSUME d >= 1 PROVE FALSE
  OBVIOUS
<1>1. 1 * w <= d * w
  BY Monotone
<1> QED
  BY <1>1

LEMMA ModUnique ==
    ASSUME NEW w \in Nat \ {0}, NEW a \in Int, NEW q \in Int, NEW r \in 0 .. w - 1,
           a = w * q + r
    PROVE  a % w = r
<1> DEFINE p == a \div w
           s == a % w
<1>1. p \in Int /\ s \in 0 .. w - 1 /\ a = w * p + s
  BY ModType
<1> HIDE DEF p, s
<1>2. w * (p - q) = r - s /\ w * (q - p) = s - r
  BY <1>1
<1>3. p - q <= 0 /\ q - p <= 0
  BY <1>1, <1>2, SmallMultiple
<1>4. p = q
  BY <1>1, <1>3
<1> QED
  BY <1>1, <1>4 DEF s
------------------------------------------------------------------------------
(* Negate.                                                                 *)

Places == {"start", "high", "low", "mine", "store"}

\* Blocks, or a single thread.
Regular == method = "block" \/ threads_no = 1

Owns(t, j) ==
    method = "block" => t * N!coeff <= j % width /\ j % width < (t + 1) * N!coeff

\* A thread that is at cell k has passed cell j.
Before(k, j) ==
    \/ k >= N!Size
    \/ method = "numbers" /\ j < k
    \/ method = "block" /\ (j % width < k % width \/ (j % width = k % width /\ j < k))

Passed(t, j) == Owns(t, j) /\ Before(negater[t].cell, j)

NegateTypes ==
    /\ method \in {"numbers", "block"}
    /\ threads_no \in Nat \ {0}
    /\ cells \in [0 .. N!Size - 1 -> Int]
    /\ negater \in [N!Threads -> [cell : Nat, at : Places, val : Int]]

ThreadsInPlace ==
    \A t \in N!Threads :
      LET k == negater[t].cell
      IN /\ method = "block" => negater[t].at \notin {"high", "low"}
         /\ k < N!Size => Owns(t, k)
         /\ k < N!Size /\ negater[t].at = "store" => negater[t].val = pixel_max - Picture[k]

PassedNegated ==
    \A j \in 0 .. N!Size - 1 :
      cells[j] = IF \E t \in N!Threads : Passed(t, j)
                   THEN (pixel_max - Picture[j]) % 256 ELSE Picture[j]

NegateInv == NegateTypes /\ (Regular => ThreadsInPlace /\ PassedNegated)

LEMMA CoeffType ==
    ASSUME N!NegateParameters, NegateTypes
    PROVE  N!coeff \in Nat /\ threads_no * N!coeff >= width
<1> DEFINE n == threads_no
           q == (width + n - 1) \div n
<1>1. n \in Nat \ {0} /\ width \in Nat \ {0}
  BY DEF N!NegateParameters, NegateTypes
<1>2. q \in Int /\ (width + n - 1) % n \in 0 .. n - 1
      /\ width + n - 1 = n * q + ((width + n - 1) % n)
  <2>1. width + n - 1 \in Int
    BY <1>1
  <2> QED
    BY <1>1, <2>1, ModType
<1>3. N!coeff = q
  BY DEF N!coeff, N!Ceil
<1> HIDE DEF q
<1>4. n * q >= width
  BY <1>1, <1>2
<1>5. q >= 0
  <2> SUFFICES ASSUME q <= 0 - 1 PROVE FALSE
    BY <1>2
  <2>1. q * n <= (0 - 1) * n
    BY <1>1, <1>2, Monotone
  <2> QED
    BY <1>1, <1>2, <1>4, <2>1
<1> QED
  BY <1>2, <1>3, <1>4, <1>5

LEMMA SizeType ==
    ASSUME N!NegateParameters
    PROVE  /\ width \in Nat \ {0} /\ height \in Nat /\ N!Size \in Nat
           /\ N!Size > 0 => width <= N!Size
<1>1. width \in Nat \ {0} /\ height \in Nat
  BY DEF N!NegateParameters
<1>2. height >= 1 => 1 * width <= height * width
  BY <1>1, Monotone
<1>3. height = 0 => width * height = 0
  BY <1>1
<1> QED
  BY <1>1, <1>2, <1>3 DEF N!Size

\* Rows apart, same column.
LEMMA SameColumn ==
    ASSUME NEW w \in Nat \ {0}, NEW j \in Nat, NEW k \in Nat, j % w = k % w, j < k + w
    PROVE  j <= k
<1> DEFINE p == j \div w
           q == k \div w
<1>1. p \in Int /\ q \in Int /\ j = w * p + (j % w) /\ k = w * q + (k % w)
      /\ j % w \in Int /\ k % w \in Int
  BY ModType
<1> HIDE DEF p, q
<1>2. w * (p - q) = j - k
  BY <1>1
<1>3. p - q <= 0
  BY <1>1, <1>2, SmallMultiple
<1>4. (p - q) * w <= 0 * w
  BY <1>1, <1>3, Monotone
<1> QED
  BY <1>1, <1>2, <1>4

LEMMA NextColumn ==
    ASSUME NEW w \in Nat \ {0}, NEW j \in Nat
    PROVE  (j + w) % w = j % w
<1>1. j \div w \in Int /\ j % w \in 0 .. w - 1 /\ j = w * (j \div w) + (j % w)
  BY ModType
<1>2. (j \div w) + 1 \in Int /\ j + w \in Int
      /\ j + w = w * ((j \div w) + 1) + (j % w)
  BY <1>1
<1> QED
  BY <1>1, <1>2, ModUnique

LEMMA ColumnOfFirstRow ==
    ASSUME NEW w \in Nat \ {0}, NEW i \in 0 .. w - 1
    PROVE  i % w = i
<1>1. i = w * 0 + i
  OBVIOUS
<1> QED
  BY <1>1, ModUnique

LEMMA NextPasses ==
    ASSUME N!NegateParameters, NegateTypes, NEW t \in N!Threads,
           NEW k \in 0 .. N!Size - 1, Owns(t, k)
    PROVE  LET n == N!NextCell(t, k)
           IN /\ n \in Nat
              /\ n < N!Size => Owns(t, n)
              /\ \A j \in 0 .. N!Size - 1 : Owns(t, j) => (Before(n, j) <=> Before(k, j) \/ j = k)
<1>1. N!coeff \in Nat /\ width \in Nat \ {0} /\ N!Size \in Nat /\ width <= N!Size
  BY CoeffType, SizeType
<1>2. \A j \in 0 .. N!Size - 1 : j \in Nat /\ j % width \in 0 .. width - 1
  BY <1>1, ModType
<1>3. CASE method = "numbers"
  BY <1>1, <1>3 DEF N!NextCell, Owns, Before
<1>4. CASE method = "block"
  <2> DEFINE c == k % width
             n == N!NextCell(t, k)
  <2>1. k \in Nat /\ c \in 0 .. width - 1 /\ t * N!coeff <= c /\ c < (t + 1) * N!coeff
    BY <1>2, <1>4 DEF Owns
  <2>0. t \in Nat /\ (t + 1) * N!coeff \in Int /\ t * N!coeff \in Int
    BY <1>1 DEF N!Threads, NegateTypes
  <2>2. CASE k + width < N!Size
    <3>1. n = k + width /\ n \in Nat
      BY <1>1, <1>4, <2>1, <2>2 DEF N!NextCell
    <3>2. n % width = c
      BY <1>1, <2>1, <3>1, NextColumn
    <3> HIDE DEF n, c
    <3>3. \A j \in 0 .. N!Size - 1 : j % width = c /\ j < n => j <= k
      BY <1>1, <1>2, <2>1, <3>1, SameColumn DEF c
    <3>4. Owns(t, n)
      BY <1>4, <2>1, <3>2 DEF Owns
    <3>5. \A j \in 0 .. N!Size - 1 : Before(n, j) <=> Before(k, j) \/ j = k
      <4> SUFFICES ASSUME NEW j \in 0 .. N!Size - 1
                   PROVE  Before(n, j) <=> Before(k, j) \/ j = k
        OBVIOUS
      <4>1. Before(n, j) <=> j % width < c \/ (j % width = c /\ j < n)
        BY <1>1, <1>4, <2>1, <2>2, <3>1, <3>2 DEF Before
      <4>2. Before(k, j) <=> j % width < c \/ (j % width = c /\ j < k)
        BY <1>1, <1>4, <2>1 DEF Before, c
      <4>3. k % width = c /\ k < n
        BY <1>1, <2>1, <3>1 DEF c
      <4>4. j % width = c /\ j < n => j < k \/ j = k
        BY <2>1, <3>3
      <4>5. j < k => j < n
        BY <1>1, <2>1, <3>1
      <4> QED
        BY <4>1, <4>2, <4>3, <4>4, <4>5
    <3> QED
      BY <3>1, <3>4, <3>5 DEF n
  <2>3. CASE ~(k + width < N!Size)
    <3>1. c + 1 \in Nat /\ n = (IF c + 1 < (t + 1) * N!coeff /\ c + 1 < width
                                  THEN c + 1 ELSE N!Size)
      BY <1>4, <2>1, <2>3 DEF N!NextCell
    <3> HIDE DEF n, c
    <3>2. \A j \in 0 .. N!Size - 1 : j % width = c => j <= k
      <4> TAKE j \in 0 .. N!Size - 1
      <4>1. j < k + width
        BY <1>1, <2>1, <2>3
      <4> QED
        BY <1>1, <1>2, <2>1, <4>1, SameColumn DEF c
    <3>3. \A j \in 0 .. N!Size - 1 : Before(k, j) \/ j = k <=> j % width <= c
      <4> TAKE j \in 0 .. N!Size - 1
      <4>1. Before(k, j) <=> j % width < c \/ (j % width = c /\ j < k)
        BY <1>1, <1>4, <2>1 DEF Before, c
      <4>2. j % width = c => j < k \/ j = k
        BY <2>1, <3>2
      <4>3. j % width \in Int /\ k % width = c /\ c \in Int
        BY <1>2, <2>1 DEF c
      <4> QED
        BY <4>1, <4>2, <4>3
    <3>4. CASE c + 1 < (t + 1) * N!coeff /\ c + 1 < width
      <4>1. n = c + 1 /\ n \in 0 .. width - 1 /\ n % width = n /\ n < N!Size
        BY <1>1, <2>1, <3>1, <3>4, ColumnOfFirstRow
      <4>2. Owns(t, n)
        BY <1>4, <2>0, <2>1, <3>4, <4>1 DEF Owns
      <4>3. \A j \in 0 .. N!Size - 1 : j % width = n => ~(j < n)
        <5> TAKE j \in 0 .. N!Size - 1
        <5> SUFFICES ASSUME j < n, j % width = n PROVE FALSE
          OBVIOUS
        <5>1. j \in 0 .. width - 1
          BY <1>1, <4>1
        <5> QED
          BY <1>1, <4>1, <5>1, ColumnOfFirstRow
      <4>4. \A j \in 0 .. N!Size - 1 : Before(n, j) <=> j % width <= c
        <5> TAKE j \in 0 .. N!Size - 1
        <5>1. Before(n, j) <=> j % width < n
          BY <1>1, <1>4, <4>1, <4>3 DEF Before
        <5> QED
          BY <1>2, <2>1, <4>1, <5>1
      <4> QED
        BY <3>3, <4>1, <4>2, <4>4 DEF n
    <3>5. CASE ~(c + 1 < (t + 1) * N!coeff /\ c + 1 < width)
      <4>1. n = N!Size /\ n \in Nat /\ ~(n < N!Size)
        BY <1>1, <3>1, <3>5
      <4>2. \A j \in 0 .. N!Size - 1 : Before(n, j)
        BY <1>1, <4>1 DEF Before
      <4>3. \A j \in 0 .. N!Size - 1 : Owns(t, j) => j % width <= c
        <5> SUFFICES ASSUME NEW j \in 0 .. N!Size - 1, Owns(t, j) PROVE j % width <= c
          OBVIOUS
        <5> DEFINE e == (t + 1) * N!coeff
        <5>1. e \in Int /\ j % width < e /\ ~(c + 1 < e /\ c + 1 < width)
          BY <1>4, <2>0, <3>5 DEF Owns
        <5>2. j % width \in 0 .. width - 1
          BY <1>2
        <5> HIDE DEF e
        <5> QED
          BY <1>1, <2>1, <5>1, <5>2
      <4> QED
        BY <3>3, <4>1, <4>2, <4>3 DEF n
    <3> QED
      BY <3>4, <3>5
  <2> QED
    BY <2>2, <2>3
<1> QED
  BY <1>3, <1>4 DEF NegateTypes

LEMMA FirstPasses ==
    ASSUME N!NegateParameters, NegateTypes, NEW t \in N!Threads
    PROVE  /\ N!FirstCell(t) \in Nat
           /\ N!FirstCell(t) < N!Size => Owns(t, N!FirstCell(t))
           /\ \A j \in 0 .. N!Size - 1 : ~(Owns(t, j) /\ Before(N!FirstCell(t), j))
<1>1. N!coeff \in Nat /\ width \in Nat \ {0} /\ N!Size \in Nat
      /\ (N!Size > 0 => width <= N!Size)
  BY CoeffType, SizeType
<1>2. \A j \in 0 .. N!Size - 1 : j \in Nat /\ j % width \in 0 .. width - 1
  BY <1>1, ModType
<1>3. CASE method = "numbers"
  BY <1>1, <1>3 DEF N!FirstCell, Owns, Before
<1>4. CASE method = "block"
  <2> DEFINE c == t * N!coeff
  <2>1. t \in Nat /\ c \in Nat
    BY <1>1 DEF N!Threads, NegateTypes
  <2>2. CASE ~(c < width)
    <3>1. N!FirstCell(t) = N!Size
      BY <1>4, <2>2 DEF N!FirstCell
    <3>2. \A j \in 0 .. N!Size - 1 : ~Owns(t, j)
      <4> HIDE DEF c
      <4> QED
        BY <1>1, <1>2, <1>4, <2>1, <2>2 DEF Owns, c
    <3> QED
      BY <1>1, <3>1, <3>2
  <2>3. CASE c < width
    <3>1. N!FirstCell(t) = c /\ c % width = c
      BY <1>1, <1>4, <2>1, <2>3, ColumnOfFirstRow DEF N!FirstCell
    <3>2. (t + 1) * N!coeff = c + N!coeff /\ N!coeff > 0
      <4>1. N!coeff # 0
        <5>1. threads_no * N!coeff >= width
          BY CoeffType
        <5> QED
          BY <1>1, <5>1 DEF NegateTypes
      <4> QED
        BY <1>1, <2>1, <4>1
    <3>3. Owns(t, c)
      BY <1>1, <2>1, <3>1, <3>2 DEF Owns
    <3> HIDE DEF c
    <3>4. ASSUME NEW j \in 0 .. N!Size - 1, Owns(t, j), Before(c, j) PROVE FALSE
      <4>1. c <= j % width /\ width <= N!Size
        BY <1>1, <1>4, <3>4 DEF Owns, c
      <4>2. j % width = c /\ j < c
        BY <1>1, <1>2, <1>4, <2>1, <2>3, <3>1, <3>4, <4>1 DEF Before
      <4>3. j \in 0 .. width - 1
        BY <1>1, <2>1, <2>3, <4>2
      <4> QED
        BY <1>1, <4>2, <4>3, ColumnOfFirstRow
    <3> QED
      BY <2>1, <3>1, <3>3, <3>4
  <2> QED
    BY <2>2, <2>3
<1> QED
  BY <1>3, <1>4 DEF NegateTypes
LEMMA OwnersDiffer ==
    ASSUME N!NegateParameters, NegateTypes, Regular,
           NEW t \in N!Threads, NEW u \in N!Threads, NEW j \in 0 .. N!Size - 1,
           Owns(t, j), Owns(u, j)
    PROVE  t = u
<1>1. N!coeff \in Nat /\ j % width \in Int
  <2>1. j \in Int /\ width \in Nat \ {0}
    BY SizeType
  <2> QED
    BY <2>1, CoeffType, ModType
<1>2. CASE method = "block"
  <2>1. ASSUME NEW a \in N!Threads, NEW b \in N!Threads, Owns(a, j), Owns(b, j), a < b
        PROVE  FALSE
    <3>1. a + 1 \in Int /\ b \in Int /\ a + 1 <= b
      BY <2>1 DEF N!Threads, NegateTypes
    <3>2. (a + 1) * N!coeff <= b * N!coeff
      BY <1>1, <3>1, Monotone
    <3>3. j % width < (a + 1) * N!coeff /\ b * N!coeff <= j % width
      BY <1>2, <2>1 DEF Owns
    <3>4. (a + 1) * N!coeff \in Int /\ b * N!coeff \in Int
      BY <1>1, <3>1
    <3> QED
      BY <1>1, <3>2, <3>3, <3>4
  <2> QED
    BY <2>1 DEF N!Threads, NegateTypes
<1>3. CASE threads_no = 1
  BY <1>3 DEF N!Threads
<1> QED
  BY <1>2, <1>3 DEF Regular

\* In a regular run every cell has an owner.
LEMMA EveryCellOwned ==
    ASSUME N!NegateParameters, NegateTypes, Regular, NEW j \in 0 .. N!Size - 1
    PROVE  \E t \in N!Threads : Owns(t, j)
<1>1. N!coeff \in Nat /\ threads_no * N!coeff >= width /\ width \in Nat \ {0}
  BY CoeffType, SizeType
<1>2. j % width \in 0 .. width - 1
  BY <1>1, ModType
<1>3. CASE method = "numbers"
  BY <1>3 DEF Owns, Regular, N!Threads
<1>4. CASE method = "block"
  <2> DEFINE c == N!coeff
             m == j % width
             t == m \div c
  <2>1. c \in Nat \ {0}
    BY <1>1 DEF NegateTypes
  <2>2. m \in Nat /\ m < width
    BY <1>1, <1>2
  <2>3. t \in Int /\ m % c \in 0 .. c - 1 /\ m = c * t + (m % c)
    <3> HIDE DEF c, m
    <3> QED
      BY <2>1, <2>2, ModType
  <2> HIDE DEF c, m, t
  <2>4. t >= 0
    <3> SUFFICES ASSUME t + 1 <= 0 PROVE FALSE
      BY <2>3
    <3>1. (t + 1) * c <= 0 * c
      BY <2>1, <2>3, Monotone
    <3> QED
      BY <2>1, <2>2, <2>3, <3>1
  <2>5. t < threads_no
    <3> SUFFICES ASSUME threads_no <= t PROVE FALSE
      BY <2>3 DEF NegateTypes
    <3>1. threads_no * c <= t * c
      BY <2>1, <2>3, Monotone DEF NegateTypes
    <3>2. threads_no * c >= width /\ threads_no \in Int /\ threads_no * c \in Int
      BY <1>1, <2>1 DEF c, NegateTypes
    <3> QED
      BY <1>1, <2>1, <2>2, <2>3, <3>1, <3>2
  <2>6. t * c <= m /\ m < (t + 1) * c
    BY <2>1, <2>2, <2>3
  <2>7. t \in N!Threads
    BY <2>3, <2>4, <2>5 DEF N!Threads, NegateTypes
  <2> QED
    BY <2>6, <2>7 DEF Owns, c, m
<1> QED
  BY <1>3, <1>4 DEF NegateTypes

LEMMA NegateInitInv ==
    ASSUME N!NegateParameters, N!Init
    PROVE  NegateInv
<1>1. \A t \in N!Threads : N!FirstCell(t) \in Nat /\ 0 \in Int
  <2>1. threads_no \in Nat \ {0} /\ method \in {"numbers", "block"}
    BY DEF N!Init, N!NegateParameters
  <2>2. N!coeff \in Nat
    <3> DEFINE b == width + threads_no - 1
    <3>1. b \in Nat
      BY <2>1 DEF N!NegateParameters
    <3>2. N!coeff = b \div threads_no
      BY DEF N!coeff, N!Ceil
    <3> HIDE DEF b
    <3> QED
      BY <2>1, <3>1, <3>2
  <2>3. N!Size \in Nat
    BY SizeType
  <2> QED
    BY <2>1, <2>2, <2>3 DEF N!FirstCell, N!Threads
<1>2. NegateTypes
  <2>1. threads_no \in Nat \ {0} /\ method \in {"numbers", "block"}
    BY DEF N!Init, N!NegateParameters
  <2>2. cells \in [0 .. N!Size - 1 -> Int]
    <3> DEFINE D == 0 .. N!Size - 1
    <3>1. Picture \in [D -> 0 .. 255] /\ cells = Picture
      BY DEF N!Init, N!NegateParameters
    <3> HIDE DEF D
    <3>2. Picture \in [D -> Int]
      BY <3>1
    <3> QED
      BY <3>1, <3>2 DEF D
  <2>3. negater \in [N!Threads -> [cell : Nat, at : Places, val : Int]]
    BY <1>1 DEF N!Init, Places
  <2> QED
    BY <2>1, <2>2, <2>3 DEF NegateTypes
<1>3. \A t \in N!Threads : negater[t].cell = N!FirstCell(t) /\ negater[t].at = "start"
  BY DEF N!Init
<1>4. ThreadsInPlace
  BY <1>2, <1>3, FirstPasses DEF ThreadsInPlace
<1>5. \A j \in 0 .. N!Size - 1 : \A t \in N!Threads : ~Passed(t, j)
  BY <1>2, <1>3, FirstPasses DEF Passed
<1>6. PassedNegated
  BY <1>5 DEF PassedNegated, N!Init
<1> QED
  BY <1>2, <1>4, <1>6 DEF NegateInv

\* A thread that stays at its cell and stores nothing.
LEMMA NegateQuietStep ==
    ASSUME N!NegateParameters, NegateInv, NEW t \in N!Threads, NEW place \in Places, NEW v \in Int,
           UNCHANGED <<method, threads_no, cells>>, N!Moves(t, place, v),
           method = "block" => place \notin {"high", "low"},
           place = "store" /\ Regular => v = pixel_max - Picture[negater[t].cell]
    PROVE  NegateInv'
<1>1. NegateTypes /\ NegateTypes'
  BY DEF NegateInv, NegateTypes, N!Moves, N!Threads, N!Size
<1>2. N!Threads' = N!Threads /\ (Regular' <=> Regular)
  BY DEF N!Threads, Regular
<1>3. \A u \in N!Threads :
        /\ negater'[u].cell = negater[u].cell
        /\ u # t => negater'[u] = negater[u]
        /\ negater'[t].at = place /\ negater'[t].val = v
  BY <1>1 DEF NegateTypes, N!Moves
<1>4. \A u \in N!Threads : \A j : (Owns(u, j))' = Owns(u, j) /\ (Passed(u, j))' = Passed(u, j)
  BY <1>3 DEF Owns, Passed, Before, N!coeff, N!Ceil, N!Size
<1>5. ASSUME Regular PROVE ThreadsInPlace'
  BY <1>2, <1>3, <1>4, <1>5 DEF NegateInv, ThreadsInPlace, N!Size
<1>6. ASSUME Regular PROVE PassedNegated'
  BY <1>2, <1>4, <1>6 DEF NegateInv, PassedNegated, N!Size
<1> QED
  BY <1>1, <1>2, <1>5, <1>6 DEF NegateInv
\* The next cell is a number whichever cells the thread is responsible for.
LEMMA NextCellType ==
    ASSUME N!NegateParameters, NegateTypes, NEW t \in N!Threads, NEW k \in 0 .. N!Size - 1
    PROVE  N!NextCell(t, k) \in Nat
<1>1. width \in Nat \ {0} /\ N!Size \in Nat
  BY SizeType
<1>2. k \in Nat /\ k % width \in 0 .. width - 1
  BY <1>1, ModType
<1> DEFINE e == (t + 1) * N!coeff
           c == k % width
<1>3. N!NextCell(t, k) = IF method = "numbers" THEN k + 1
                         ELSE IF k + width < N!Size THEN k + width
                         ELSE IF c + 1 < e /\ c + 1 < width THEN c + 1 ELSE N!Size
  BY DEF N!NextCell
<1> HIDE DEF c, e
<1>4. c \in Nat
  BY <1>2 DEF c
<1> QED
  BY <1>1, <1>2, <1>3, <1>4

LEMMA NegateAdvanceTypes ==
    ASSUME N!NegateParameters, NegateTypes, NEW t \in N!Threads,
           negater[t].cell < N!Size, N!Advances(t), UNCHANGED <<method, threads_no>>,
           cells' \in [0 .. N!Size - 1 -> Int]
    PROVE  /\ NegateTypes'
           /\ \A u \in N!Threads : u # t => negater'[u] = negater[u]
           /\ negater'[t] = [cell |-> N!NextCell(t, negater[t].cell), at |-> "start", val |-> 0]
<1>1. negater[t].cell \in 0 .. N!Size - 1
  BY SizeType DEF NegateTypes
<1>2. N!NextCell(t, negater[t].cell) \in Nat
  BY <1>1, NextCellType
<1>3. N!Threads' = N!Threads /\ N!Size' = N!Size
  BY DEF N!Threads, N!Size
<1>4. negater' \in [N!Threads -> [cell : Nat, at : Places, val : Int]]
  BY <1>2 DEF NegateTypes, N!Advances, Places
<1> QED
  BY <1>3, <1>4 DEF NegateTypes, N!Advances

\* A thread stores what it has read of a cell only it writes.
LEMMA NegateStoreStep ==
    ASSUME N!NegateParameters, NegateInv, NEW t \in N!Threads, N!Store(t),
           UNCHANGED <<method, threads_no>>
    PROVE  NegateInv'
<1> DEFINE k == negater[t].cell
<1>1. NegateTypes /\ k \in 0 .. N!Size - 1 /\ negater[t].at = "store" /\ negater[t].val \in Int
  BY SizeType DEF NegateInv, NegateTypes, N!Store, N!Step
<1>2. cells' = [cells EXCEPT ![k] = negater[t].val % 256] /\ N!Advances(t) /\ k < N!Size
  BY DEF N!Store, N!Step
<1>3. cells' \in [0 .. N!Size - 1 -> Int]
  <2>1. \A v \in Int : v % 256 \in Int
    BY ModType
  <2> HIDE DEF k
  <2> QED
    BY <1>1, <1>2, <2>1 DEF NegateTypes
<1>4. /\ NegateTypes'
      /\ \A u \in N!Threads : u # t => negater'[u] = negater[u]
      /\ negater'[t] = [cell |-> N!NextCell(t, k), at |-> "start", val |-> 0]
  BY <1>1, <1>2, <1>3, NegateAdvanceTypes
<1>5. N!Threads' = N!Threads /\ N!Size' = N!Size /\ (Regular' <=> Regular)
  BY DEF N!Threads, N!Size, Regular
<1>6. \A u, j : (Owns(u, j))' = Owns(u, j)
  BY DEF Owns, N!coeff, N!Ceil
<1>7. ASSUME Regular PROVE ThreadsInPlace' /\ PassedNegated'
  <2> DEFINE n == N!NextCell(t, k)
  <2>1. Owns(t, k) /\ negater[t].val = pixel_max - Picture[k]
    BY <1>1, <1>2, <1>7 DEF NegateInv, ThreadsInPlace
  <2>2. /\ n < N!Size => Owns(t, n)
        /\ \A j \in 0 .. N!Size - 1 : Owns(t, j) => (Before(n, j) <=> Before(k, j) \/ j = k)
    BY <1>1, <2>1, NextPasses
  <2> HIDE DEF n, k
  <2>3. ThreadsInPlace'
    <3> SUFFICES ASSUME NEW u \in N!Threads
                 PROVE  LET i == negater'[u].cell
                        IN /\ method = "block" => negater'[u].at \notin {"high", "low"}
                           /\ i < N!Size => Owns(u, i)
                           /\ i < N!Size /\ negater'[u].at = "store" =>
                                negater'[u].val = pixel_max - Picture[i]
      BY <1>5, <1>6 DEF ThreadsInPlace
    <3>1. CASE u = t
      BY <1>4, <2>2, <3>1 DEF n
    <3>2. CASE u # t
      BY <1>4, <1>7, <3>2 DEF NegateInv, ThreadsInPlace
    <3> QED
      BY <3>1, <3>2
  <2>4. \A j \in 0 .. N!Size - 1 :
          (\E u \in N!Threads : (Passed(u, j))') <=> (j = k \/ \E u \in N!Threads : Passed(u, j))
    <3> TAKE j \in 0 .. N!Size - 1
    <3>1. \A u \in N!Threads : u # t => ((Passed(u, j))' <=> Passed(u, j))
      BY <1>4, <1>5, <1>6 DEF Passed, Before
    <3>2. (Before(negater[t].cell, j))' <=> Before(n, j)
      BY <1>4, <1>5 DEF Before, n
    <3>3. (Passed(t, j))' <=> Passed(t, j) \/ (j = k /\ Owns(t, k))
      BY <1>6, <2>2, <3>2 DEF Passed, k
    <3> QED
      BY <2>1, <3>1, <3>3
  <2>5. PassedNegated'
    <3> SUFFICES ASSUME NEW j \in 0 .. N!Size - 1
                 PROVE  cells'[j] = IF \E u \in N!Threads : (Passed(u, j))'
                                      THEN (pixel_max - Picture[j]) % 256 ELSE Picture[j]
      BY <1>5 DEF PassedNegated
    <3>1. cells[j] = IF \E u \in N!Threads : Passed(u, j)
                       THEN (pixel_max - Picture[j]) % 256 ELSE Picture[j]
      BY <1>7 DEF NegateInv, PassedNegated
    <3>2. cells'[j] = IF j = k THEN (pixel_max - Picture[k]) % 256 ELSE cells[j]
      BY <1>1, <1>2, <2>1 DEF NegateTypes
    <3> QED
      BY <2>4, <3>1, <3>2
  <2> QED
    BY <2>3, <2>5
<1> QED
  BY <1>4, <1>5, <1>7 DEF NegateInv

LEMMA NegateStep ==
    ASSUME N!NegateParameters, NegateInv, [N!Next]_(N!negateVars)
    PROVE  NegateInv'
<1>1. CASE N!Next
  <2>0. UNCHANGED <<method, threads_no>> /\ NegateTypes
    BY <1>1 DEF N!Next, NegateInv
  <2>1. PICK t \in N!Threads : N!ThreadStep(t)
    BY <1>1 DEF N!Next
  <2>2. negater[t].cell < N!Size /\ negater[t].cell \in 0 .. N!Size - 1
    BY <2>0, <2>1, SizeType
       DEF NegateTypes, N!ThreadStep, N!Look, N!Fold, N!Take, N!Load, N!Store, N!Step
  <2>3. N!Cell(t) \in Int /\ pixel_max \in Int /\ threads_no \in Nat \ {0}
    BY <2>0, <2>2 DEF NegateTypes, N!Cell, N!NegateParameters
  <2>4. CASE N!Look(t)
    <3> DEFINE place == IF N!Cell(t) > pixel_max \div 2 THEN "high" ELSE "low"
    <3>1. place \in Places /\ N!Moves(t, place, 0) /\ UNCHANGED cells /\ method = "numbers"
          /\ place # "store" /\ 0 \in Int
      BY <2>4 DEF Places, N!Look
    <3> HIDE DEF place
    <3> QED
      BY <2>0, <3>1, NegateQuietStep
  <2>5. CASE N!Fold(t)
    <3> DEFINE val == IF negater[t].at = "high" THEN pixel_max - N!Cell(t) ELSE N!Cell(t)
    <3>1. val \in Int
      BY <2>3
    <3>2. negater[t].at \in {"high", "low"} /\ UNCHANGED cells
          /\ IF N!Remainder(val, threads_no) = t THEN N!Moves(t, "mine", 0) ELSE N!Advances(t)
      BY <2>5 DEF N!Fold, N!Step
    <3> HIDE DEF val
    <3>3. CASE N!Remainder(val, threads_no) = t
      <4>1. "mine" \in Places /\ 0 \in Int /\ N!Moves(t, "mine", 0)
        BY <3>2, <3>3 DEF Places
      <4> QED
        BY <2>0, <3>2, <4>1, NegateQuietStep
    <3>4. CASE N!Remainder(val, threads_no) # t
      <4>1. ~Regular
        <5> SUFFICES ASSUME Regular PROVE FALSE
          OBVIOUS
        <5>1. threads_no = 1
          BY <3>2 DEF NegateInv, ThreadsInPlace, Regular
        <5>2. val % 1 \in 0 .. 0 /\ (-val) % 1 \in 0 .. 0 /\ t = 0
          <6>1. -val \in Int
            BY <3>1
          <6> QED
            BY <3>1, <5>1, <6>1, ModType DEF N!Threads
        <5> QED
          BY <3>4, <5>1, <5>2 DEF N!Remainder
      <4>2. NegateTypes'
        <5>1. cells' \in [0 .. N!Size - 1 -> Int]
          BY <2>0, <3>2 DEF NegateTypes
        <5> QED
          BY <2>0, <2>2, <3>2, <3>4, <5>1, NegateAdvanceTypes
      <4> QED
        BY <2>0, <4>1, <4>2 DEF NegateInv, Regular
    <3> QED
      BY <3>3, <3>4
  <2>6. CASE N!Take(t)
    <3>1. "mine" \in Places /\ 0 \in Int /\ N!Moves(t, "mine", 0) /\ UNCHANGED cells
      BY <2>6 DEF Places, N!Take
    <3> QED
      BY <2>0, <3>1, NegateQuietStep
  <2>7. CASE N!Load(t)
    <3> DEFINE v == pixel_max - N!Cell(t)
    <3>1. "store" \in Places /\ v \in Int /\ N!Moves(t, "store", v) /\ UNCHANGED cells
      BY <2>3, <2>7 DEF Places, N!Load
    <3>2. ASSUME Regular PROVE v = pixel_max - Picture[negater[t].cell]
      <4> DEFINE k == negater[t].cell
      <4>1. Owns(t, k)
        BY <2>2, <3>2 DEF NegateInv, ThreadsInPlace
      <4>2. width \in Nat \ {0} /\ k \in Int /\ ~Before(k, k)
        <5>1. k % width \in Int /\ k \in Int /\ N!Size \in Int /\ width \in Nat \ {0}
          <6>1. k \in Int /\ N!Size \in Int /\ width \in Nat \ {0}
            BY <2>2, SizeType
          <6> QED
            BY <6>1, ModType
        <5> QED
          BY <2>2, <5>1 DEF Before
      <4>3. ASSUME NEW u \in N!Threads, Passed(u, k) PROVE FALSE
        BY <2>0, <2>2, <3>2, <4>1, <4>2, <4>3, OwnersDiffer DEF Passed
      <4>4. cells[k] = Picture[k]
        BY <2>2, <3>2, <4>3 DEF NegateInv, PassedNegated
      <4> QED
        BY <4>4 DEF N!Cell
    <3>3. method = "block" => "store" \notin {"high", "low"}
      OBVIOUS
    <3> HIDE DEF v
    <3> QED
      BY <2>0, <3>1, <3>2, <3>3, NegateQuietStep
  <2>8. CASE N!Store(t)
    BY <2>0, <2>8, NegateStoreStep
  <2> QED
    BY <2>1, <2>4, <2>5, <2>6, <2>7, <2>8 DEF N!ThreadStep
<1>2. CASE UNCHANGED N!negateVars
  BY <1>2 DEF N!negateVars, NegateInv, NegateTypes, ThreadsInPlace, PassedNegated, Passed, Owns,
              Before, Regular, N!coeff, N!Ceil, N!Threads, N!Size
<1> QED
  BY <1>1, <1>2

LEMMA NegateFinished ==
    ASSUME N!NegateParameters, NegateInv
    PROVE  N!NegatedOnce
<1> SUFFICES ASSUME N!Finished, Regular
             PROVE  cells = [j \in 0 .. N!Size - 1 |-> (pixel_max - Picture[j]) % 256]
  BY DEF N!NegatedOnce, N!AllNegated, Regular
<1>1. ASSUME NEW j \in 0 .. N!Size - 1 PROVE cells[j] = (pixel_max - Picture[j]) % 256
  <2>1. PICK t \in N!Threads : Owns(t, j)
    BY <1>1, EveryCellOwned DEF NegateInv
  <2>2. Passed(t, j)
    BY <2>1 DEF N!Finished, Passed, Before
  <2> QED
    BY <1>1, <2>2 DEF NegateInv, PassedNegated
<1>2. cells \in [0 .. N!Size - 1 -> Int]
  BY DEF NegateInv, NegateTypes
<1> QED
  BY <1>1, <1>2

\* Threads that negate an image without a lock, each the columns of its block,
\* leave every cell negated once, for every width, height and number of threads;
\* so does a single thread that goes by the values of cells.
THEOREM NegatedOnceTheorem == ProgramsSpec => []NegatedOnce
<1> DEFINE Inv == program = "negate" => NegateInv
<1>1. ProgramsInit => Inv
  BY NegateAssumption, NegateInitInv DEF ProgramsInit
<1>2. Inv /\ [ProgramsNext]_allVars => Inv'
  <2> SUFFICES ASSUME Inv, [ProgramsNext]_allVars, program' = "negate" PROVE NegateInv'
    OBVIOUS
  <2>1. program = "negate" /\ [N!Next]_(N!negateVars)
    BY DEF ProgramsNext, allVars, negate, N!negateVars, Game, Signal, Pipe, FifoStep, Negates,
           Counting, Udp
  <2> QED
    BY <2>1, NegateAssumption, NegateStep
<1>3. Inv => NegatedOnce
  BY NegateAssumption, NegateFinished DEF NegatedOnce
<1> QED
  BY <1>1, <1>2, <1>3, PTL DEF ProgramsSpec
------------------------------------------------------------------------------
(* TicTacToeUdp.                                                           *)

UdpPlaces == {"none", "copy", "lock", "create", "pair", "game", "done"}
UdpStrings == {"", "?", "CONNECT", "DISCONNECT"} \cup {NameOf[c] : c \in Clients}
UdpMessages == UNION {[parts -> UdpStrings] : parts \in SUBSET {1, 2}}

UdpTypes ==
    /\ server \in {"up", "down"}
    /\ clients \in [U!Slots -> [taken : BOOLEAN, playing : BOOLEAN, name : UdpStrings]]
    /\ clients_mutex \in SUBSET U!Datagrams
    /\ args \in UdpStrings \X UdpStrings
    /\ acceptor \in [U!Datagrams -> [at : UdpPlaces, msg : UdpMessages, slots : SUBSET U!Slots]]
    /\ client \in [Clients -> {"off", "on", "gone"}]
    /\ datagrams \in SUBSET U!Datagrams
    /\ \A d \in U!Datagrams :
         acceptor[d].at \in {"lock", "create"} => DOMAIN acceptor[d].msg = {1, 2}

\* A datagram is sent once and starts one thread.
SentOnce ==
    /\ \A c \in Clients :
         /\ client[c] = "off" =>
              <<c, "CONNECT">> \notin datagrams /\ U!At(<<c, "CONNECT">>, "none")
         /\ client[c] # "gone" =>
              <<c, "DISCONNECT">> \notin datagrams /\ U!At(<<c, "DISCONNECT">>, "none")
    /\ \A d \in datagrams : U!At(d, "none")

LeaverReceived ==
    \E c \in Clients : client[c] = "gone" /\ ~U!At(<<c, "DISCONNECT">>, "none")

\* What is no MSG_CONNECT comes from a client that has left.
LeaversToBlame ==
    /\ (\E d \in U!Datagrams : ~U!At(d, "none")) => args[2] = "CONNECT" \/ LeaverReceived
    /\ \A d \in U!Datagrams :
         2 \in DOMAIN acceptor[d].msg => acceptor[d].msg[2] = "CONNECT" \/ LeaverReceived
    /\ server = "down" => LeaverReceived \/ \A i \in U!Slots : clients[i].taken

\* The mutex is held from the check of a name to the pairing.
MutexHeld ==
    /\ \A d \in U!Datagrams : acceptor[d].at \in {"create", "pair"} <=> clients_mutex = {d}
    /\ \A d, e \in clients_mutex : d = e

EntriesDiffer ==
    /\ \A i, j \in U!Slots :
         clients[i].taken /\ clients[j].taken /\ clients[i].name = clients[j].name => i = j
    /\ \A d \in U!Datagrams : \A i \in U!Slots :
         U!At(d, "create") /\ clients[i].taken => clients[i].name # U!Name(acceptor[d].msg)

SlotsPlaced ==
    \A d \in U!Datagrams :
      /\ U!At(d, "pair") => \E i \in U!Slots : acceptor[d].slots = {i}
      /\ U!At(d, "game") => \E i, j \in U!Slots : i # j /\ acceptor[d].slots = {i, j}
      /\ acceptor[d].at \notin {"pair", "game"} => acceptor[d].slots = {}

Waits(i) == clients[i].taken /\ ~clients[i].playing

PlayersHeld ==
    /\ \A i, j \in U!Slots : Waits(i) /\ Waits(j) => i = j
    /\ \A i \in U!Slots : clients[i].taken /\ clients[i].playing <=>
         \E d \in U!Datagrams : i \in acceptor[d].slots
    /\ \A d, e \in U!Datagrams :
         acceptor[d].slots \cap acceptor[e].slots # {} => d = e

UdpInv ==
    /\ UdpTypes /\ SentOnce /\ LeaversToBlame
    /\ MutexHeld /\ EntriesDiffer /\ SlotsPlaced /\ PlayersHeld

LEMMA UdpMinIn ==
    ASSUME NEW M \in SUBSET Nat, M # {}
    PROVE  U!Min(M) \in M
<1>1. PICK m \in M : \A n \in M : ~(<<n, m>> \in OpToRel(<, Nat))
  BY WFMin, NatLessThanWellFounded, Zenon
<1>2. \A n \in M : ~(n < m)
  <2> TAKE n \in M
  <2>1. n \in Nat /\ m \in Nat
    OBVIOUS
  <2>2. SUFFICES ASSUME n < m PROVE <<n, m>> \in OpToRel(<, Nat)
    BY <1>1, Zenon
  <2> QED
    BY <2>1, <2>2, Zenon DEF OpToRel
<1>3. \A n \in M : m <= n
  BY <1>2
<1> QED
  BY <1>3 DEF U!Min

LEMMA UdpCardinality ==
    ASSUME NEW M
    PROVE  U!Cardinality(M) = Cardinality(M)
  BY DEF U!Cardinality, Cardinality, U!IsFiniteSet, IsFiniteSet

LEMMA UdpInitInv ==
    ASSUME U!UdpParameters, U!Init
    PROVE  UdpInv
<1>1. U!Nothing \in UdpMessages /\ DOMAIN U!Nothing = {}
  <2>1. U!Nothing \in [{} -> UdpStrings] /\ {} \in SUBSET {1, 2}
    BY DEF U!Nothing
  <2> QED
    BY <2>1 DEF UdpMessages
<1>2. UdpTypes
  <2>0. "" \in UdpStrings
    BY DEF UdpStrings
  <2>1. acceptor \in [U!Datagrams -> [at : UdpPlaces, msg : UdpMessages, slots : SUBSET U!Slots]]
    BY <1>1 DEF U!Init, UdpPlaces
  <2>2. args \in UdpStrings \X UdpStrings
    BY <2>0 DEF U!Init
  <2>3. clients \in [U!Slots -> [taken : BOOLEAN, playing : BOOLEAN, name : UdpStrings]]
    BY <2>0 DEF U!Init
  <2> QED
    BY <2>1, <2>2, <2>3 DEF U!Init, UdpTypes
<1>3. \A d \in U!Datagrams : U!At(d, "none") /\ acceptor[d].msg = U!Nothing /\ acceptor[d].slots = {}
  BY DEF U!Init, U!At
<1>4. SentOnce
  BY <1>3 DEF SentOnce, U!Init, U!Datagrams
<1>5. LeaversToBlame
  BY <1>1, <1>3 DEF LeaversToBlame, U!Init
<1>6. MutexHeld /\ SlotsPlaced
  BY <1>3 DEF MutexHeld, SlotsPlaced, U!Init, U!At
<1>7. EntriesDiffer /\ PlayersHeld
  BY <1>3 DEF EntriesDiffer, PlayersHeld, Waits, U!Init, U!At
<1> QED
  BY <1>2, <1>4, <1>5, <1>6, <1>7 DEF UdpInv

\* A step that neither writes the table nor moves a thread that holds the mutex or
\* has slots.
LEMMA UdpQuietStep ==
    ASSUME UdpInv, UNCHANGED <<clients, clients_mutex>>,
           \A d \in U!Datagrams :
             /\ acceptor'[d].slots = acceptor[d].slots
             /\ \/ acceptor'[d].at = acceptor[d].at
                \/ {acceptor[d].at, acceptor'[d].at} \cap {"create", "pair", "game"} = {}
             /\ U!At(d, "create") => acceptor'[d].msg = acceptor[d].msg
    PROVE  MutexHeld' /\ EntriesDiffer' /\ SlotsPlaced' /\ PlayersHeld'
<1>1. \A d \in U!Datagrams : acceptor'[d].at \in {"create", "pair", "game"} \/
                             acceptor[d].at \in {"create", "pair", "game"} =>
                               acceptor'[d].at = acceptor[d].at
  OBVIOUS
<1>2. U!Datagrams' = U!Datagrams /\ U!Slots' = U!Slots
  BY DEF U!Datagrams, U!Slots
<1>3. MutexHeld'
  BY <1>1, <1>2 DEF UdpInv, MutexHeld
<1>4. EntriesDiffer'
  BY <1>1, <1>2 DEF UdpInv, EntriesDiffer, U!At, U!Name
<1>5. SlotsPlaced'
  BY <1>1, <1>2 DEF UdpInv, SlotsPlaced, U!At
<1>6. PlayersHeld'
  BY <1>2 DEF UdpInv, PlayersHeld, Waits
<1> QED
  BY <1>3, <1>4, <1>5, <1>6

\* A step of a thread that runs.
LEMMA UdpThreadStep ==
    ASSUME UdpInv, UNCHANGED <<args, client, datagrams>>,
           \A d \in U!Datagrams :
             /\ (acceptor'[d].at = "none") <=> (acceptor[d].at = "none")
             /\ 2 \in DOMAIN acceptor'[d].msg =>
                  acceptor'[d].msg[2] = "CONNECT" \/ LeaverReceived,
           server' = "down" => LeaverReceived \/ \A i \in U!Slots : clients'[i].taken
    PROVE  SentOnce' /\ LeaversToBlame'
<1>1. U!Datagrams' = U!Datagrams /\ U!Slots' = U!Slots
  BY DEF U!Datagrams, U!Slots
<1>2. \A c \in Clients : <<c, "CONNECT">> \in U!Datagrams /\ <<c, "DISCONNECT">> \in U!Datagrams
  BY DEF U!Datagrams
<1>3. SentOnce'
  BY <1>2 DEF UdpInv, UdpTypes, SentOnce, U!At
<1>4. LeaverReceived' <=> LeaverReceived
  BY <1>2 DEF LeaverReceived, U!At
<1>5. LeaversToBlame'
  BY <1>1, <1>4 DEF UdpInv, LeaversToBlame, U!At
<1> QED
  BY <1>3, <1>5

\* A client sends.
LEMMA UdpClientStep ==
    ASSUME U!UdpParameters, UdpInv, NEW c \in Clients, U!Connect(c) \/ U!Exits(c)
    PROVE  UdpInv'
<1>1. UNCHANGED <<server, clients, clients_mutex, args, acceptor>>
  BY DEF U!Connect, U!Exits
<1>2. U!Datagrams' = U!Datagrams /\ U!Slots' = U!Slots
  BY DEF U!Datagrams, U!Slots
<1>3. <<c, "CONNECT">> \in U!Datagrams /\ <<c, "DISCONNECT">> \in U!Datagrams
  BY DEF U!Datagrams
<1>4. UdpTypes'
  BY <1>1, <1>2, <1>3 DEF UdpInv, UdpTypes, U!Connect, U!Exits
<1>5. MutexHeld' /\ EntriesDiffer' /\ SlotsPlaced' /\ PlayersHeld'
  BY <1>1, UdpQuietStep
<1>6. SentOnce'
  <2>1. CASE U!Connect(c)
    BY <1>1, <2>1 DEF UdpInv, UdpTypes, SentOnce, U!Connect, U!At
  <2>2. CASE U!Exits(c)
    BY <1>1, <2>2 DEF UdpInv, UdpTypes, SentOnce, U!Exits, U!At
  <2> QED
    BY <2>1, <2>2
<1>7. LeaverReceived => LeaverReceived'
  BY <1>1 DEF UdpInv, UdpTypes, LeaverReceived, U!Connect, U!Exits, U!At
<1>8. LeaversToBlame'
  BY <1>1, <1>2, <1>7 DEF UdpInv, LeaversToBlame, U!At
<1> QED
  BY <1>4, <1>5, <1>6, <1>8 DEF UdpInv

LEMMA UdpReceiveStep ==
    ASSUME U!UdpParameters, UdpInv, NEW d \in U!Datagrams, U!Receive(d)
    PROVE  UdpInv'
<1>1. d \in datagrams /\ U!At(d, "none") /\ UNCHANGED <<server, clients, clients_mutex, client>>
  BY DEF U!Receive, UdpInv, SentOnce
<1>2. acceptor' = [acceptor EXCEPT ![d].at = "copy"] /\ datagrams' = datagrams \ {d}
      /\ args' = <<IF d[2] = "CONNECT" THEN NameOf[d[1]] ELSE "?", d[2]>>
  BY DEF U!Receive, U!Goes
<1>3. U!Datagrams' = U!Datagrams /\ U!Slots' = U!Slots
  BY DEF U!Datagrams, U!Slots
<1>4. d[1] \in Clients /\ d[2] \in {"CONNECT", "DISCONNECT"} /\ d = <<d[1], d[2]>>
  BY DEF U!Datagrams
<1>5. /\ acceptor'[d].at = "copy" /\ acceptor'[d].msg = acceptor[d].msg
      /\ acceptor'[d].slots = acceptor[d].slots
      /\ \A e \in U!Datagrams : e # d => acceptor'[e] = acceptor[e]
  BY <1>2 DEF UdpInv, UdpTypes
<1>6. UdpTypes'
  <2>1. args' \in UdpStrings \X UdpStrings
    <3> DEFINE a == IF d[2] = "CONNECT" THEN NameOf[d[1]] ELSE "?"
    <3>1. a \in UdpStrings /\ d[2] \in UdpStrings
      BY <1>4 DEF UdpStrings
    <3> HIDE DEF a
    <3>2. args' = <<a, d[2]>>
      BY <1>2 DEF a
    <3> QED
      BY <3>1, <3>2
  <2>2. acceptor' \in [U!Datagrams -> [at : UdpPlaces, msg : UdpMessages, slots : SUBSET U!Slots]]
    BY <1>2 DEF UdpInv, UdpTypes, UdpPlaces
  <2> QED
    BY <1>1, <1>2, <1>3, <2>1, <2>2 DEF UdpInv, UdpTypes
<1>7. MutexHeld' /\ EntriesDiffer' /\ SlotsPlaced' /\ PlayersHeld'
  <2>1. \A e \in U!Datagrams :
          /\ acceptor'[e].slots = acceptor[e].slots
          /\ \/ acceptor'[e].at = acceptor[e].at
             \/ {acceptor[e].at, acceptor'[e].at} \cap {"create", "pair", "game"} = {}
          /\ U!At(e, "create") => acceptor'[e].msg = acceptor[e].msg
    BY <1>1, <1>5 DEF U!At
  <2> QED
    BY <1>1, <2>1, UdpQuietStep
<1>8. SentOnce'
  BY <1>1, <1>2, <1>4, <1>5 DEF UdpInv, UdpTypes, SentOnce, U!At, U!Datagrams
<1>9. LeaverReceived => LeaverReceived'
  BY <1>1, <1>5 DEF LeaverReceived, U!At, U!Datagrams
<1>10. args'[2] = "CONNECT" \/ LeaverReceived'
  <2> SUFFICES ASSUME d[2] = "DISCONNECT" PROVE LeaverReceived'
    BY <1>2, <1>4
  <2>1. client[d[1]] = "gone"
    BY <1>1, <1>4 DEF UdpInv, SentOnce
  <2> QED
    BY <1>1, <1>4, <1>5, <2>1 DEF LeaverReceived, U!At
<1>11. LeaversToBlame'
  BY <1>1, <1>3, <1>5, <1>9, <1>10 DEF UdpInv, LeaversToBlame
<1> QED
  BY <1>6, <1>7, <1>8, <1>11 DEF UdpInv

LEMMA UdpCopyStep ==
    ASSUME U!UdpParameters, UdpInv, NEW d \in U!Datagrams, U!Copy(d)
    PROVE  UdpInv'
<1>1. U!At(d, "copy") /\ UNCHANGED <<clients, clients_mutex, args, client, datagrams>>
  BY DEF U!Copy
<1>2. U!Datagrams' = U!Datagrams /\ U!Slots' = U!Slots
  BY DEF U!Datagrams, U!Slots
<1>3. PICK k \in {1, 2} \ DOMAIN acceptor[d].msg :
        \E msg, place :
          /\ msg = [j \in DOMAIN acceptor[d].msg \cup {k} |->
                      IF j = k THEN args[k] ELSE acceptor[d].msg[j]]
          /\ place = (IF DOMAIN msg = {1, 2} THEN "lock" ELSE "copy")
          /\ IF place = "lock" /\ U!Type(msg) # "CONNECT" THEN U!ServerExits
             ELSE /\ acceptor' = [acceptor EXCEPT ![d].msg = msg, ![d].at = place]
                  /\ UNCHANGED server
  BY DEF U!Copy
<1>4. PICK msg, place :
          /\ msg = [j \in DOMAIN acceptor[d].msg \cup {k} |->
                      IF j = k THEN args[k] ELSE acceptor[d].msg[j]]
          /\ place = (IF DOMAIN msg = {1, 2} THEN "lock" ELSE "copy")
          /\ IF place = "lock" /\ U!Type(msg) # "CONNECT" THEN U!ServerExits
             ELSE /\ acceptor' = [acceptor EXCEPT ![d].msg = msg, ![d].at = place]
                  /\ UNCHANGED server
  BY <1>3
<1>5. PICK parts \in SUBSET {1, 2} : acceptor[d].msg \in [parts -> UdpStrings]
  <2>1. acceptor[d].msg \in UdpMessages
    BY DEF UdpInv, UdpTypes
  <2> QED
    BY <2>1 DEF UdpMessages
<1>6. msg \in [parts \cup {k} -> UdpStrings] /\ parts \cup {k} \in SUBSET {1, 2}
  BY <1>4, <1>5 DEF UdpInv, UdpTypes
<1>7. msg \in UdpMessages
  BY <1>6 DEF UdpMessages
<1>8. 2 \in DOMAIN msg => msg[2] = "CONNECT" \/ LeaverReceived
  <2>1. args[2] = "CONNECT" \/ LeaverReceived
    BY <1>1 DEF UdpInv, LeaversToBlame, U!At
  <2>2. 2 \in DOMAIN acceptor[d].msg => acceptor[d].msg[2] = "CONNECT" \/ LeaverReceived
    BY DEF UdpInv, LeaversToBlame
  <2> QED
    BY <1>4, <2>1, <2>2
<1>9. CASE place = "lock" /\ U!Type(msg) # "CONNECT"
  <2>1. server' = "down" /\ UNCHANGED acceptor
    BY <1>4, <1>9 DEF U!ServerExits
  <2>2. LeaverReceived
    BY <1>4, <1>8, <1>9 DEF U!Type
  <2>3. UdpTypes'
    BY <1>1, <1>2, <2>1 DEF UdpInv, UdpTypes
  <2>4. MutexHeld' /\ EntriesDiffer' /\ SlotsPlaced' /\ PlayersHeld'
    BY <1>1, <2>1, UdpQuietStep
  <2>5. SentOnce' /\ LeaversToBlame'
    <3>1. \A e \in U!Datagrams : 2 \in DOMAIN acceptor'[e].msg =>
            acceptor'[e].msg[2] = "CONNECT" \/ LeaverReceived
      BY <2>2
    <3> QED
      BY <1>1, <2>1, <2>2, <3>1, UdpThreadStep
  <2> QED
    BY <2>3, <2>4, <2>5 DEF UdpInv
<1>10. CASE ~(place = "lock" /\ U!Type(msg) # "CONNECT")
  <2>1. acceptor' = [acceptor EXCEPT ![d].msg = msg, ![d].at = place] /\ UNCHANGED server
    BY <1>4, <1>10
  <2>2. place \in {"copy", "lock"}
    BY <1>4
  <2>3. /\ acceptor'[d].at = place /\ acceptor'[d].msg = msg
        /\ acceptor'[d].slots = acceptor[d].slots
        /\ \A e \in U!Datagrams : e # d => acceptor'[e] = acceptor[e]
    BY <2>1 DEF UdpInv, UdpTypes
  <2>4. UdpTypes'
    <3>1. acceptor' \in [U!Datagrams -> [at : UdpPlaces, msg : UdpMessages, slots : SUBSET U!Slots]]
      <4> DEFINE r == [acceptor[d] EXCEPT !.msg = msg, !.at = place]
      <4>1. acceptor[d] \in [at : UdpPlaces, msg : UdpMessages, slots : SUBSET U!Slots]
        BY DEF UdpInv, UdpTypes
      <4>2. place \in UdpPlaces
        BY <2>2 DEF UdpPlaces
      <4>3. r \in [at : UdpPlaces, msg : UdpMessages, slots : SUBSET U!Slots]
        BY <1>7, <4>1, <4>2
      <4>4. acceptor' = [acceptor EXCEPT ![d] = r]
        BY <2>1
      <4> HIDE DEF r
      <4> QED
        BY <4>3, <4>4 DEF UdpInv, UdpTypes
    <3> QED
      BY <1>1, <1>2, <2>1, <3>1 DEF UdpInv, UdpTypes
  <2>5. MutexHeld' /\ EntriesDiffer' /\ SlotsPlaced' /\ PlayersHeld'
    <3>1. \A e \in U!Datagrams :
            /\ acceptor'[e].slots = acceptor[e].slots
            /\ \/ acceptor'[e].at = acceptor[e].at
               \/ {acceptor[e].at, acceptor'[e].at} \cap {"create", "pair", "game"} = {}
            /\ U!At(e, "create") => acceptor'[e].msg = acceptor[e].msg
      BY <1>1, <2>2, <2>3 DEF U!At
    <3> QED
      BY <1>1, <3>1, UdpQuietStep
  <2>6. SentOnce' /\ LeaversToBlame'
    <3>1. \A e \in U!Datagrams :
            /\ (acceptor'[e].at = "none") <=> (acceptor[e].at = "none")
            /\ 2 \in DOMAIN acceptor'[e].msg =>
                 acceptor'[e].msg[2] = "CONNECT" \/ LeaverReceived
      BY <1>1, <1>8, <2>2, <2>3 DEF UdpInv, LeaversToBlame, U!At
    <3>2. server' = "down" => LeaverReceived \/ \A i \in U!Slots : clients'[i].taken
      BY <1>1, <2>1 DEF UdpInv, LeaversToBlame
    <3> QED
      BY <1>1, <3>1, <3>2, UdpThreadStep
  <2> QED
    BY <2>4, <2>5, <2>6 DEF UdpInv
<1> QED
  BY <1>9, <1>10
\* What a thread does with the mutex or its slots leaves no message behind.
LEMMA UdpPlays ==
    ASSUME UdpInv, NEW d \in U!Datagrams, NEW place \in UdpPlaces \ {"none"},
           NEW slots \in SUBSET U!Slots, U!Plays(d, place, slots), ~U!At(d, "none")
    PROVE  /\ acceptor' \in [U!Datagrams -> [at : UdpPlaces, msg : UdpMessages, slots : SUBSET U!Slots]]
           /\ acceptor'[d].at = place /\ acceptor'[d].slots = slots
           /\ \A e \in U!Datagrams : e # d => acceptor'[e] = acceptor[e]
           /\ \A e \in U!Datagrams :
                /\ (acceptor'[e].at = "none") <=> (acceptor[e].at = "none")
                /\ 2 \in DOMAIN acceptor'[e].msg =>
                     acceptor'[e].msg[2] = "CONNECT" \/ LeaverReceived
<1> DEFINE r == [at |-> place, msg |-> U!Nothing, slots |-> slots]
<1>1. U!Nothing \in UdpMessages /\ DOMAIN U!Nothing = {}
  <2>1. U!Nothing \in [{} -> UdpStrings] /\ {} \in SUBSET {1, 2}
    BY DEF U!Nothing
  <2> QED
    BY <2>1 DEF UdpMessages
<1>2. r \in [at : UdpPlaces, msg : UdpMessages, slots : SUBSET U!Slots]
  BY <1>1
<1>3. acceptor' = [acceptor EXCEPT ![d] = r]
  BY DEF U!Plays
<1>4. acceptor'[d] = r /\ \A e \in U!Datagrams : e # d => acceptor'[e] = acceptor[e]
  BY <1>3 DEF UdpInv, UdpTypes
<1>5. acceptor' \in [U!Datagrams -> [at : UdpPlaces, msg : UdpMessages, slots : SUBSET U!Slots]]
  BY <1>2, <1>3 DEF UdpInv, UdpTypes
<1>6. \A e \in U!Datagrams :
        2 \in DOMAIN acceptor[e].msg => acceptor[e].msg[2] = "CONNECT" \/ LeaverReceived
  BY DEF UdpInv, LeaversToBlame
<1> QED
  BY <1>1, <1>4, <1>5, <1>6 DEF U!At

LEMMA UdpCheckStep ==
    ASSUME UdpInv, NEW d \in U!Datagrams, U!check_username(d)
    PROVE  UdpInv'
<1>1. U!At(d, "lock") /\ clients_mutex = {} /\ acceptor[d].slots = {}
      /\ UNCHANGED <<server, clients, args, client, datagrams>>
  BY DEF U!check_username, UdpInv, SlotsPlaced, U!At
<1>2. U!Datagrams' = U!Datagrams /\ U!Slots' = U!Slots
  BY DEF U!Datagrams, U!Slots
<1>3. server' = "down" => LeaverReceived \/ \A i \in U!Slots : clients'[i].taken
  BY <1>1 DEF UdpInv, LeaversToBlame
<1>4. CASE U!Duplicate(d)
  <2>1. U!Plays(d, "done", {}) /\ UNCHANGED clients_mutex
    BY <1>4 DEF U!check_username
  <2>2. /\ acceptor' \in [U!Datagrams -> [at : UdpPlaces, msg : UdpMessages, slots : SUBSET U!Slots]]
        /\ acceptor'[d].at = "done" /\ acceptor'[d].slots = {}
        /\ \A e \in U!Datagrams : e # d => acceptor'[e] = acceptor[e]
        /\ \A e \in U!Datagrams :
             /\ (acceptor'[e].at = "none") <=> (acceptor[e].at = "none")
             /\ 2 \in DOMAIN acceptor'[e].msg =>
                  acceptor'[e].msg[2] = "CONNECT" \/ LeaverReceived
    <3>1. "done" \in UdpPlaces \ {"none"} /\ {} \in SUBSET U!Slots /\ ~U!At(d, "none")
      BY <1>1 DEF UdpPlaces, U!At
    <3> QED
      BY <2>1, <3>1, UdpPlays
  <2>3. UdpTypes'
    BY <1>1, <1>2, <2>1, <2>2 DEF UdpInv, UdpTypes
  <2>4. SentOnce' /\ LeaversToBlame'
    BY <1>1, <1>3, <2>2, UdpThreadStep
  <2>5. MutexHeld' /\ EntriesDiffer' /\ SlotsPlaced' /\ PlayersHeld'
    <3>1. \A e \in U!Datagrams :
            /\ acceptor'[e].slots = acceptor[e].slots
            /\ \/ acceptor'[e].at = acceptor[e].at
               \/ {acceptor[e].at, acceptor'[e].at} \cap {"create", "pair", "game"} = {}
            /\ U!At(e, "create") => acceptor'[e].msg = acceptor[e].msg
      BY <1>1, <2>2 DEF U!At
    <3> QED
      BY <1>1, <2>1, <3>1, UdpQuietStep
  <2> QED
    BY <2>3, <2>4, <2>5 DEF UdpInv
<1>5. CASE ~U!Duplicate(d)
  <2>1. acceptor' = [acceptor EXCEPT ![d].at = "create"] /\ clients_mutex' = {d}
    BY <1>5 DEF U!check_username, U!Goes
  <2>2. /\ acceptor'[d].at = "create" /\ acceptor'[d].slots = {}
        /\ acceptor'[d].msg = acceptor[d].msg
        /\ \A e \in U!Datagrams : e # d => acceptor'[e] = acceptor[e]
    BY <1>1, <2>1 DEF UdpInv, UdpTypes
  <2>3. UdpTypes'
    <3>1. acceptor' \in [U!Datagrams -> [at : UdpPlaces, msg : UdpMessages, slots : SUBSET U!Slots]]
      BY <2>1 DEF UdpInv, UdpTypes, UdpPlaces
    <3>2. \A e \in U!Datagrams :
            acceptor'[e].at \in {"lock", "create"} => DOMAIN acceptor'[e].msg = {1, 2}
      BY <1>1, <2>2 DEF UdpInv, UdpTypes, U!At
    <3> QED
      BY <1>1, <1>2, <2>1, <3>1, <3>2 DEF UdpInv, UdpTypes
  <2>4. SentOnce' /\ LeaversToBlame'
    <3>1. \A e \in U!Datagrams :
            /\ (acceptor'[e].at = "none") <=> (acceptor[e].at = "none")
            /\ 2 \in DOMAIN acceptor'[e].msg =>
                 acceptor'[e].msg[2] = "CONNECT" \/ LeaverReceived
      BY <1>1, <2>2 DEF UdpInv, LeaversToBlame, U!At
    <3> QED
      BY <1>1, <1>3, <3>1, UdpThreadStep
  <2>5. \A e \in U!Datagrams : acceptor[e].at \notin {"create", "pair"}
    BY <1>1 DEF UdpInv, MutexHeld
  <2>6. MutexHeld'
    BY <1>2, <2>1, <2>2, <2>5 DEF MutexHeld
  <2>7. EntriesDiffer'
    <3>1. \A i \in U!Slots : clients[i].taken => clients[i].name # U!Name(acceptor[d].msg)
      BY <1>5 DEF U!Duplicate
    <3> QED
      BY <1>1, <1>2, <2>2, <2>5, <3>1 DEF UdpInv, EntriesDiffer, U!At, U!Name
  <2>8. SlotsPlaced'
    BY <1>2, <2>2 DEF UdpInv, SlotsPlaced, U!At
  <2>9. PlayersHeld'
    <3>1. \A e \in U!Datagrams : acceptor'[e].slots = acceptor[e].slots
      BY <1>1, <2>2
    <3> QED
      BY <1>1, <1>2, <3>1 DEF UdpInv, PlayersHeld, Waits
  <2> QED
    BY <2>3, <2>4, <2>6, <2>7, <2>8, <2>9 DEF UdpInv
<1> QED
  BY <1>4, <1>5

LEMMA UdpCreateStep ==
    ASSUME U!UdpParameters, UdpInv, NEW d \in U!Datagrams, U!create_client(d)
    PROVE  UdpInv'
<1> DEFINE free == {i \in U!Slots : ~clients[i].taken}
           id == U!Min(free)
<1>1. U!At(d, "create") /\ acceptor[d].slots = {} /\ clients_mutex = {d}
      /\ UNCHANGED <<clients_mutex, args, client, datagrams>>
  BY DEF U!create_client, UdpInv, SlotsPlaced, MutexHeld, U!At
<1>2. U!Datagrams' = U!Datagrams /\ U!Slots' = U!Slots
  BY DEF U!Datagrams, U!Slots
<1>3. CASE free = {}
  <2>1. server' = "down" /\ UNCHANGED acceptor /\ UNCHANGED clients
    BY <1>3 DEF U!create_client, U!ServerExits
  <2>2. \A i \in U!Slots : clients'[i].taken
    BY <1>3, <2>1
  <2>3. UdpTypes'
    BY <1>1, <1>2, <2>1 DEF UdpInv, UdpTypes
  <2>4. MutexHeld' /\ EntriesDiffer' /\ SlotsPlaced' /\ PlayersHeld'
    BY <1>1, <2>1, UdpQuietStep
  <2>5. SentOnce' /\ LeaversToBlame'
    <3>1. \A e \in U!Datagrams : 2 \in DOMAIN acceptor'[e].msg =>
            acceptor'[e].msg[2] = "CONNECT" \/ LeaverReceived
      BY <2>1 DEF UdpInv, LeaversToBlame
    <3> QED
      BY <1>1, <2>1, <2>2, <3>1, UdpThreadStep
  <2> QED
    BY <2>3, <2>4, <2>5 DEF UdpInv
<1>4. CASE free # {}
  <2>1. id \in U!Slots /\ ~clients[id].taken
    <3>1. free \in SUBSET Nat
      BY DEF U!Slots, U!UdpParameters
    <3>2. id \in free
      BY <1>4, <3>1, UdpMinIn
    <3> QED
      BY <3>2
  <2> DEFINE name == U!Name(acceptor[d].msg)
             entry == [taken |-> TRUE, playing |-> TRUE, name |-> name]
  <2>2. /\ clients' = [clients EXCEPT ![id] = entry]
        /\ U!Plays(d, "pair", {id}) /\ UNCHANGED server
    BY <1>4 DEF U!create_client
  <2> HIDE DEF free, id
  <2>3. /\ acceptor' \in [U!Datagrams -> [at : UdpPlaces, msg : UdpMessages, slots : SUBSET U!Slots]]
        /\ acceptor'[d].at = "pair" /\ acceptor'[d].slots = {id}
        /\ \A e \in U!Datagrams : e # d => acceptor'[e] = acceptor[e]
        /\ \A e \in U!Datagrams :
             /\ (acceptor'[e].at = "none") <=> (acceptor[e].at = "none")
             /\ 2 \in DOMAIN acceptor'[e].msg =>
                  acceptor'[e].msg[2] = "CONNECT" \/ LeaverReceived
    <3>1. "pair" \in UdpPlaces \ {"none"} /\ {id} \in SUBSET U!Slots /\ ~U!At(d, "none")
      BY <1>1, <2>1 DEF UdpPlaces, U!At
    <3> QED
      BY <2>2, <3>1, UdpPlays
  <2>4. /\ clients'[id].taken /\ clients'[id].playing /\ clients'[id].name = name
        /\ \A i \in U!Slots : i # id => clients'[i] = clients[i]
    BY <2>1, <2>2 DEF UdpInv, UdpTypes
  <2> HIDE DEF name
  <2>5. UdpTypes'
    <3>1. name \in UdpStrings
      <4>1. acceptor[d].msg \in UdpMessages /\ DOMAIN acceptor[d].msg = {1, 2}
        BY <1>1 DEF UdpInv, UdpTypes, U!At
      <4>2. PICK parts \in SUBSET {1, 2} : acceptor[d].msg \in [parts -> UdpStrings]
        BY <4>1 DEF UdpMessages
      <4>3. parts = {1, 2} /\ 1 \in parts
        BY <4>1, <4>2
      <4> QED
        BY <4>2, <4>3 DEF name, U!Name
    <3>2. clients' \in [U!Slots -> [taken : BOOLEAN, playing : BOOLEAN, name : UdpStrings]]
      <4>1. entry \in [taken : BOOLEAN, playing : BOOLEAN, name : UdpStrings]
        BY <3>1
      <4> HIDE DEF entry
      <4> QED
        BY <2>1, <2>2, <4>1 DEF UdpInv, UdpTypes
    <3> QED
      BY <1>1, <1>2, <2>2, <2>3, <3>2 DEF UdpInv, UdpTypes
  <2>6. SentOnce' /\ LeaversToBlame'
    <3>1. server' = "down" => LeaverReceived \/ \A i \in U!Slots : clients'[i].taken
      BY <2>2, <2>4 DEF UdpInv, LeaversToBlame
    <3> QED
      BY <1>1, <2>3, <3>1, UdpThreadStep
  <2>7. \A e \in U!Datagrams : e # d => acceptor[e].at \notin {"create", "pair"}
    BY <1>1 DEF UdpInv, MutexHeld
  <2>8. MutexHeld'
    BY <1>1, <1>2, <2>3, <2>7 DEF MutexHeld
  <2>9. EntriesDiffer'
    <3>1. \A i \in U!Slots : clients[i].taken => clients[i].name # name
      BY <1>1 DEF UdpInv, EntriesDiffer, name
    <3>2. \A e \in U!Datagrams : acceptor'[e].at # "create"
      BY <2>3, <2>7
    <3> QED
      BY <1>2, <2>4, <3>1, <3>2 DEF UdpInv, EntriesDiffer, U!At
  <2>10. SlotsPlaced'
    BY <1>2, <2>1, <2>3 DEF UdpInv, SlotsPlaced, U!At
  <2>11. PlayersHeld'
    <3>1. \A i \in U!Slots : (Waits(i))' <=> Waits(i)
      BY <2>1, <2>4 DEF Waits
    <3>2. \A e \in U!Datagrams : id \notin acceptor[e].slots
      BY <2>1 DEF UdpInv, PlayersHeld
    <3>3. \A e \in U!Datagrams : e # d => acceptor'[e].slots = acceptor[e].slots
      BY <2>3
    <3>4. \A i, j \in U!Slots : (Waits(i))' /\ (Waits(j))' => i = j
      BY <3>1 DEF UdpInv, PlayersHeld
    <3>5. \A i \in U!Slots : clients'[i].taken /\ clients'[i].playing <=>
            \E e \in U!Datagrams : i \in acceptor'[e].slots
      <4> TAKE i \in U!Slots
      <4>1. clients[i].taken /\ clients[i].playing <=> \E e \in U!Datagrams : i \in acceptor[e].slots
        BY DEF UdpInv, PlayersHeld
      <4>2. CASE i = id
        BY <2>3, <2>4, <4>2
      <4>3. CASE i # id
        <5>1. \A e \in U!Datagrams : i \in acceptor'[e].slots <=> i \in acceptor[e].slots
          BY <1>1, <2>3, <3>3, <4>3
        <5> QED
          BY <2>4, <4>1, <4>3, <5>1
      <4> QED
        BY <4>2, <4>3
    <3>6. \A e, f \in U!Datagrams : acceptor'[e].slots \cap acceptor'[f].slots # {} => e = f
      BY <2>3, <3>2, <3>3 DEF UdpInv, PlayersHeld
    <3> QED
      BY <1>2, <3>4, <3>5, <3>6 DEF PlayersHeld
  <2> QED
    BY <2>5, <2>6, <2>8, <2>9, <2>10, <2>11 DEF UdpInv
<1> QED
  BY <1>3, <1>4
LEMMA UdpPairStep ==
    ASSUME U!UdpParameters, UdpInv, NEW d \in U!Datagrams, U!connect_pending(d)
    PROVE  UdpInv'
<1>1. U!At(d, "pair") /\ clients_mutex = {d} /\ clients_mutex' = {}
      /\ UNCHANGED <<server, args, client, datagrams>>
  BY DEF U!connect_pending, UdpInv, MutexHeld, U!At
<1>2. U!Datagrams' = U!Datagrams /\ U!Slots' = U!Slots /\ U!Slots \in SUBSET Nat
  BY DEF U!Datagrams, U!Slots, U!UdpParameters
<1>3. PICK id \in U!Slots : acceptor[d].slots = {id}
  BY <1>1 DEF UdpInv, SlotsPlaced
<1>4. U!Min(acceptor[d].slots) = id
  BY <1>2, <1>3, UdpMinIn
<1>5. clients[id].taken /\ clients[id].playing
  BY <1>3 DEF UdpInv, PlayersHeld
<1>6. \A e \in U!Datagrams : e # d => acceptor[e].at \notin {"create", "pair"}
  BY <1>1 DEF UdpInv, MutexHeld
<1>7. \A e \in U!Datagrams : e # d => id \notin acceptor[e].slots
  BY <1>3 DEF UdpInv, PlayersHeld
<1> DEFINE waiting == {i \in U!Slots : clients[i].taken /\ ~clients[i].playing}
           opponent == U!Min(waiting)
\* What the two outcomes have in common.
<1>8. ASSUME NEW place \in {"game", "done"}, NEW slots \in SUBSET U!Slots,
             U!Plays(d, place, slots),
             NEW i \in U!Slots, NEW plays \in BOOLEAN,
             clients' = [clients EXCEPT ![i].playing = plays]
      PROVE  /\ UdpTypes' /\ SentOnce' /\ LeaversToBlame' /\ MutexHeld' /\ EntriesDiffer'
             /\ acceptor'[d].at = place /\ acceptor'[d].slots = slots
             /\ \A e \in U!Datagrams : e # d => acceptor'[e] = acceptor[e]
             /\ clients'[i].taken = clients[i].taken /\ clients'[i].playing = plays
             /\ \A j \in U!Slots : j # i => clients'[j] = clients[j]
  <2>1. /\ acceptor' \in [U!Datagrams -> [at : UdpPlaces, msg : UdpMessages, slots : SUBSET U!Slots]]
        /\ acceptor'[d].at = place /\ acceptor'[d].slots = slots
        /\ \A e \in U!Datagrams : e # d => acceptor'[e] = acceptor[e]
        /\ \A e \in U!Datagrams :
             /\ (acceptor'[e].at = "none") <=> (acceptor[e].at = "none")
             /\ 2 \in DOMAIN acceptor'[e].msg =>
                  acceptor'[e].msg[2] = "CONNECT" \/ LeaverReceived
    <3>1. place \in UdpPlaces \ {"none"} /\ ~U!At(d, "none")
      BY <1>1 DEF UdpPlaces, U!At
    <3> QED
      BY <1>8, <3>1, UdpPlays
  <2>2. /\ clients'[i].playing = plays
        /\ \A j \in U!Slots : clients'[j].taken = clients[j].taken /\ clients'[j].name = clients[j].name
        /\ \A j \in U!Slots : j # i => clients'[j] = clients[j]
    BY <1>8 DEF UdpInv, UdpTypes
  <2>3. UdpTypes'
    <3>1. clients' \in [U!Slots -> [taken : BOOLEAN, playing : BOOLEAN, name : UdpStrings]]
      BY <1>8 DEF UdpInv, UdpTypes
    <3>2. \A e \in U!Datagrams :
            acceptor'[e].at \in {"lock", "create"} => DOMAIN acceptor'[e].msg = {1, 2}
      BY <2>1 DEF UdpInv, UdpTypes
    <3> QED
      BY <1>1, <1>2, <2>1, <3>1, <3>2 DEF UdpInv, UdpTypes
  <2>4. SentOnce' /\ LeaversToBlame'
    <3>1. server' = "down" => LeaverReceived \/ \A j \in U!Slots : clients'[j].taken
      BY <1>1, <2>2 DEF UdpInv, LeaversToBlame
    <3> QED
      BY <1>1, <2>1, <3>1, UdpThreadStep
  <2>5. \A e \in U!Datagrams : acceptor'[e].at \notin {"create", "pair"}
    BY <1>6, <2>1
  <2>6. MutexHeld'
    BY <1>1, <1>2, <2>5 DEF MutexHeld
  <2>7. EntriesDiffer'
    BY <1>2, <2>2, <2>5 DEF UdpInv, EntriesDiffer, U!At
  <2> QED
    BY <2>1, <2>2, <2>3, <2>4, <2>6, <2>7
<1>9. CASE waiting # {}
  <2>1. clients' = [clients EXCEPT ![opponent].playing = TRUE] /\ U!Plays(d, "game", {opponent, id})
    BY <1>4, <1>9 DEF U!connect_pending
  <2>2. opponent \in waiting
    BY <1>2, <1>9, UdpMinIn
  <2>3. opponent \in U!Slots /\ Waits(opponent) /\ opponent # id
    BY <1>5, <2>2 DEF Waits
  <2> HIDE DEF waiting, opponent
  <2>4. /\ UdpTypes' /\ SentOnce' /\ LeaversToBlame' /\ MutexHeld' /\ EntriesDiffer'
        /\ acceptor'[d].at = "game" /\ acceptor'[d].slots = {opponent, id}
        /\ \A e \in U!Datagrams : e # d => acceptor'[e] = acceptor[e]
        /\ clients'[opponent].taken = clients[opponent].taken /\ clients'[opponent].playing = TRUE
        /\ \A j \in U!Slots : j # opponent => clients'[j] = clients[j]
    <3>1. "game" \in {"game", "done"} /\ {opponent, id} \in SUBSET U!Slots /\ TRUE \in BOOLEAN
      BY <2>3
    <3> QED
      BY <1>8, <2>1, <2>3, <3>1
  <2>5. SlotsPlaced'
    BY <1>2, <1>3, <2>3, <2>4 DEF UdpInv, SlotsPlaced, U!At
  <2>6. PlayersHeld'
    <3>1. \A i \in U!Slots : ~(Waits(i))'
      BY <2>3, <2>4 DEF UdpInv, PlayersHeld, Waits
    <3>2. \A e \in U!Datagrams : opponent \notin acceptor[e].slots
      BY <2>3 DEF UdpInv, PlayersHeld, Waits
    <3>3. \A i \in U!Slots : clients'[i].taken /\ clients'[i].playing <=>
            \E e \in U!Datagrams : i \in acceptor'[e].slots
      <4> TAKE i \in U!Slots
      <4>1. clients[i].taken /\ clients[i].playing <=> \E e \in U!Datagrams : i \in acceptor[e].slots
        BY DEF UdpInv, PlayersHeld
      <4>2. CASE i = opponent
        BY <2>3, <2>4, <4>2 DEF Waits
      <4>3. CASE i # opponent
        <5>1. \A e \in U!Datagrams : i \in acceptor'[e].slots <=> i \in acceptor[e].slots
          BY <1>3, <2>4, <4>3
        <5> QED
          BY <2>4, <4>1, <4>3, <5>1
      <4> QED
        BY <4>2, <4>3
    <3>4. \A e, f \in U!Datagrams : acceptor'[e].slots \cap acceptor'[f].slots # {} => e = f
      BY <1>7, <2>4, <3>2 DEF UdpInv, PlayersHeld
    <3> QED
      BY <1>2, <3>1, <3>3, <3>4 DEF PlayersHeld
  <2> QED
    BY <2>4, <2>5, <2>6 DEF UdpInv
<1>10. CASE waiting = {}
  <2>1. clients' = [clients EXCEPT ![id].playing = FALSE] /\ U!Plays(d, "done", {})
    BY <1>4, <1>10 DEF U!connect_pending
  <2>2. \A i \in U!Slots : ~Waits(i)
    BY <1>10 DEF Waits
  <2> HIDE DEF waiting
  <2>3. /\ UdpTypes' /\ SentOnce' /\ LeaversToBlame' /\ MutexHeld' /\ EntriesDiffer'
        /\ acceptor'[d].at = "done" /\ acceptor'[d].slots = {}
        /\ \A e \in U!Datagrams : e # d => acceptor'[e] = acceptor[e]
        /\ clients'[id].taken = clients[id].taken /\ clients'[id].playing = FALSE
        /\ \A j \in U!Slots : j # id => clients'[j] = clients[j]
    <3>1. "done" \in {"game", "done"} /\ {} \in SUBSET U!Slots /\ FALSE \in BOOLEAN
      OBVIOUS
    <3> QED
      BY <1>8, <2>1, <3>1
  <2>4. SlotsPlaced'
    BY <1>2, <2>3 DEF UdpInv, SlotsPlaced, U!At
  <2>5. PlayersHeld'
    <3>1. \A i \in U!Slots : (Waits(i))' => i = id
      BY <2>2, <2>3 DEF Waits
    <3>2. \A i \in U!Slots : clients'[i].taken /\ clients'[i].playing <=>
            \E e \in U!Datagrams : i \in acceptor'[e].slots
      <4> TAKE i \in U!Slots
      <4>1. clients[i].taken /\ clients[i].playing <=> \E e \in U!Datagrams : i \in acceptor[e].slots
        BY DEF UdpInv, PlayersHeld
      <4>2. CASE i = id
        BY <1>7, <2>3, <4>2
      <4>3. CASE i # id
        <5>1. \A e \in U!Datagrams : i \in acceptor'[e].slots <=> i \in acceptor[e].slots
          BY <1>3, <2>3, <4>3
        <5> QED
          BY <2>3, <4>1, <4>3, <5>1
      <4> QED
        BY <4>2, <4>3
    <3>3. \A e, f \in U!Datagrams : acceptor'[e].slots \cap acceptor'[f].slots # {} => e = f
      BY <2>3 DEF UdpInv, PlayersHeld
    <3> QED
      BY <1>2, <3>1, <3>2, <3>3 DEF PlayersHeld
  <2> QED
    BY <2>3, <2>4, <2>5 DEF UdpInv
<1> QED
  BY <1>9, <1>10

LEMMA UdpStep ==
    ASSUME U!UdpParameters, UdpInv, [U!Next]_(U!udpVars)
    PROVE  UdpInv'
<1>1. CASE U!Next
  <2>1. CASE \E c \in Clients : U!Connect(c) \/ U!Exits(c)
    BY <2>1, UdpClientStep
  <2>2. CASE \E d \in U!Datagrams : U!Acceptor(d)
    BY <2>2, UdpReceiveStep, UdpCopyStep, UdpCheckStep, UdpCreateStep, UdpPairStep
       DEF U!Acceptor
  <2> QED
    BY <1>1, <2>1, <2>2 DEF U!Next
<1>2. CASE UNCHANGED U!udpVars
  <2>1. UNCHANGED <<server, clients, clients_mutex, args, acceptor, client, datagrams>>
    BY <1>2 DEF U!udpVars
  <2>2. U!Datagrams' = U!Datagrams /\ U!Slots' = U!Slots
    BY DEF U!Datagrams, U!Slots
  <2>3. UdpTypes'
    BY <2>1, <2>2 DEF UdpInv, UdpTypes
  <2>4. MutexHeld' /\ EntriesDiffer' /\ SlotsPlaced' /\ PlayersHeld'
    BY <2>1, UdpQuietStep
  <2>5. SentOnce' /\ LeaversToBlame'
    BY <2>1, <2>2, UdpThreadStep DEF UdpInv, LeaversToBlame
  <2> QED
    BY <2>3, <2>4, <2>5 DEF UdpInv
<1> QED
  BY <1>1, <1>2

LEMMA UdpSound ==
    ASSUME U!UdpParameters, UdpInv
    PROVE  U!TableIsSound
<1> DEFINE taken == {i \in U!Slots : clients[i].taken}
           threads == {d \in U!Datagrams : acceptor[d].slots # {}}
           waiting == {i \in taken : ~clients[i].playing}
<1>1. \A i, j \in taken : clients[i].name = clients[j].name => i = j
  BY DEF UdpInv, EntriesDiffer
<1>2. U!Cardinality(waiting) <= 1
  <2>1. \A i, j \in waiting : i = j
    BY DEF UdpInv, PlayersHeld, Waits
  <2> HIDE DEF waiting
  <2>2. CASE waiting = {}
    BY <2>2, FS_EmptySet, UdpCardinality
  <2>3. CASE waiting # {}
    <3>1. PICK i : waiting = {i}
      BY <2>1, <2>3
    <3> QED
      <4>1. Cardinality({i}) = 1
        BY FS_Singleton
      <4>2. U!Cardinality(waiting) = Cardinality({i})
        BY <3>1, UdpCardinality
      <4> QED
        BY <4>1, <4>2
  <2> QED
    BY <2>2, <2>3
<1>3. ASSUME NEW d \in threads
      PROVE  /\ \A i \in acceptor[d].slots : clients[i].taken /\ clients[i].playing
             /\ U!At(d, "game") => U!Cardinality(acceptor[d].slots) = 2
             /\ \A e \in threads \ {d} : acceptor[d].slots \cap acceptor[e].slots = {}
  <2>1. \A i \in acceptor[d].slots : clients[i].taken /\ clients[i].playing
    BY DEF UdpInv, UdpTypes, PlayersHeld
  <2>2. ASSUME U!At(d, "game") PROVE U!Cardinality(acceptor[d].slots) = 2
    <3>1. PICK i, j \in U!Slots : i # j /\ acceptor[d].slots = {i, j}
      BY <2>2 DEF UdpInv, SlotsPlaced
    <3>2. Cardinality({i}) = 1 /\ IsFiniteSet({i})
      BY FS_Singleton
    <3>3. Cardinality({i} \cup {j}) = 2
      <4>1. j \notin {i}
        BY <3>1
      <4>2. Cardinality({i} \cup {j}) = Cardinality({i}) + 1
        BY <3>2, <4>1, FS_AddElement
      <4> QED
        BY <3>2, <4>2
    <3>4. acceptor[d].slots = {i} \cup {j}
      BY <3>1
    <3> QED
      BY <3>3, <3>4, UdpCardinality
  <2>3. \A e \in threads \ {d} : acceptor[d].slots \cap acceptor[e].slots = {}
    BY DEF UdpInv, PlayersHeld
  <2> QED
    BY <2>1, <2>2, <2>3
<1>4. \A i \in taken : clients[i].playing => \E d \in threads : i \in acceptor[d].slots
  BY DEF UdpInv, PlayersHeld
<1>5. server = "down" => taken = U!Slots \/ LeaverReceived
  BY DEF UdpInv, LeaversToBlame
<1> QED
  BY <1>1, <1>2, <1>3, <1>4, <1>5 DEF U!TableIsSound, LeaverReceived

\* The UDP server gives threads messages that are mixed of two and that are
\* overwritten meanwhile; whatever they make of them, the table stays sound, for
\* any number of clients and slots.
THEOREM TableIsSoundTheorem == ProgramsSpec => []TableIsSound
<1> DEFINE Inv == program = "udp" => UdpInv
<1>1. ProgramsInit => Inv
  BY UdpAssumption, UdpInitInv DEF ProgramsInit
<1>2. Inv /\ [ProgramsNext]_allVars => Inv'
  <2> SUFFICES ASSUME Inv, [ProgramsNext]_allVars, program' = "udp" PROVE UdpInv'
    OBVIOUS
  <2>1. program = "udp" /\ [U!Next]_(U!udpVars)
    BY DEF ProgramsNext, allVars, udp, U!udpVars, Game, Signal, Pipe, FifoStep, Negates,
           Counting, Udp
  <2> QED
    BY <2>1, UdpAssumption, UdpStep
<1>3. Inv => TableIsSound
  BY UdpAssumption, UdpSound DEF TableIsSound
<1> QED
  BY <1>1, <1>2, <1>3, PTL DEF ProgramsSpec
------------------------------------------------------------------------------
(* Signals.                                                                *)

Frames == [sig : {"main", "s1", "s2"}, mask : SUBSET {"s1", "s2"}, i : Nat, asleep : BOOLEAN]

FramesTyped ==
    /\ frames \in [S!Processes -> Seq(Frames)]
    /\ \A p \in S!Processes : \A k \in 1 .. Len(frames[p]) : frames[p][k].sig = "main" <=> k = 1

SigTypes ==
    /\ variant \in {"a", "b"} /\ rt \in BOOLEAN
    /\ pending \in [S!Processes -> [s1 : Nat, s2 : Nat]]
    /\ received \in [S!Processes -> Nat]
    /\ FramesTyped

\* A handler of s1 that has not counted yet.
Fresh(p, k) == frames[p][k].sig = "s1" /\ frames[p][k].i = 0

FreshTop(p) == ~S!Ended(p) /\ Fresh(p, Len(frames[p]))
FreshBelow(p) ==
    Len(frames[p]) > 1 /\ frames[p][Len(frames[p])].sig = "s2" /\ Fresh(p, Len(frames[p]) - 1)

Uncounted(p) == IF FreshTop(p) \/ FreshBelow(p) THEN 1 ELSE 0
HasS2(p) == \E k \in 1 .. Len(frames[p]) : frames[p][k].sig = "s2"

\* Program a.  A handler that has not counted blocks s1, and so does a handler of s2
\* that has interrupted it.
BlockedIn(p) ==
    \A k \in 2 .. Len(frames[p]) :
      LET f == frames[p][k]
      IN /\ f.sig = "s1" => "s1" \in f.mask /\ (f.asleep => f.i > 0)
         /\ f.sig = "s2" => ~f.asleep /\ (Fresh(p, k - 1) => "s1" \in f.mask)
Blocked == \A p \in S!Processes : BlockedIn(p)

\* The sender has not sent s2, and the number of s1 it has sent.
StillSends == ~S!Ended("sender") /\ frames["sender"][1].i <= to_send
SentS1 == IF StillSends THEN frames["sender"][1].i ELSE to_send

SentCounted == pending["catcher"].s1 + received["catcher"] + Uncounted("catcher") <= SentS1

\* s2 reaches the catcher once.
OneS2 ==
    /\ pending["catcher"].s2 <= 1
    /\ pending["catcher"].s2 = 1 => ~HasS2("catcher")
    /\ \A k, l \in 1 .. Len(frames["catcher"]) :
         frames["catcher"][k].sig = "s2" /\ frames["catcher"][l].sig = "s2" => k = l
    /\ StillSends => pending["catcher"].s2 = 0 /\ ~HasS2("catcher")

BackSum == pending["sender"].s1 + received["sender"] + Uncounted("sender")

BackCounted ==
    /\ S!Ended("catcher") => BackSum <= received["catcher"]
    /\ ~S!Ended("catcher") /\ ~HasS2("catcher") => BackSum = 0
    /\ \A k \in 1 .. Len(frames["catcher"]) : frames["catcher"][k].sig = "s2" =>
         BackSum <= frames["catcher"][k].i /\ frames["catcher"][k].i <= received["catcher"]

SignalsAInv == Blocked /\ SentCounted /\ OneS2 /\ BackCounted

\* Program b.  While the sender sends s1, one s1 at most is under way: to the catcher,
\* or back to the sender.
Sending == ~S!Ended("sender") /\ frames["sender"][1].i <= 2 * to_send
Acked == (frames["sender"][1].i + 1) \div 2
There == pending["catcher"].s1 + (IF FreshTop("catcher") THEN 1 ELSE 0)
Back == pending["sender"].s1 + (Len(frames["sender"]) - 1)

OneUnderWay ==
    Sending =>
      /\ There + Back <= 1
      /\ received["catcher"] + There = Acked
      /\ received["sender"] + (There + Back) = Acked
      /\ frames["sender"][1].i % 2 = 0 /\ ~frames["sender"][1].asleep => There + Back = 0

NoS2Yet ==
    Sending =>
      /\ ~S!Ended("catcher")
      /\ \A p \in S!Processes : pending[p].s2 = 0 /\ ~HasS2(p)
      /\ \A k \in 1 .. Len(frames["catcher"]) :
           frames["catcher"][k].i > (IF k = 1 THEN 0 ELSE 1) => frames["catcher"][k].asleep

AllCounted ==
    ~Sending =>
      /\ \A p \in S!Processes : received[p] = to_send /\ pending[p].s1 = 0
      /\ \A k \in 1 .. Len(frames["sender"]) : frames["sender"][k].sig # "s1"
      /\ ~FreshTop("catcher")

OnlyTopFresh == \A k \in 1 .. Len(frames["catcher"]) - 1 : ~Fresh("catcher", k)

SignalsBInv == OneUnderWay /\ NoS2Yet /\ AllCounted /\ OnlyTopFresh

SignalsInv == SigTypes /\ (variant = "a" => SignalsAInv) /\ (variant = "b" => SignalsBInv)

LEMMA SeqEmpty ==
    ASSUME NEW T, NEW s \in Seq(T)
    PROVE  Len(s) \in Nat /\ (s = <<>> <=> Len(s) = 0)
  OBVIOUS

LEMMA SeqElement ==
    ASSUME NEW T, NEW s \in Seq(T), NEW k \in 1 .. Len(s)
    PROVE  s[k] \in T
  OBVIOUS

LEMMA SeqReplace ==
    ASSUME NEW T, NEW s \in Seq(T), NEW n \in 1 .. Len(s), NEW e \in T
    PROVE  /\ [s EXCEPT ![n] = e] \in Seq(T)
           /\ Len([s EXCEPT ![n] = e]) = Len(s)
           /\ [s EXCEPT ![n] = e][n] = e
           /\ \A k \in 1 .. Len(s) : k # n => [s EXCEPT ![n] = e][k] = s[k]
  OBVIOUS

LEMMA SeqFront ==
    ASSUME NEW T, NEW s \in Seq(T), Len(s) > 0
    PROVE  /\ S!Front(s) \in Seq(T) /\ Len(S!Front(s)) = Len(s) - 1
           /\ \A k \in 1 .. Len(s) - 1 : S!Front(s)[k] = s[k]
<1> DEFINE m == Len(s) - 1
<1>1. m \in Nat /\ m \in Int /\ 1 \in Int
  OBVIOUS
<1>2. \A k \in 1 .. m : s[k] \in T
  OBVIOUS
<1>3. S!Front(s) = SubSeq(s, 1, m)
  BY DEF S!Front
<1> HIDE DEF m
<1>4. /\ SubSeq(s, 1, m) \in Seq(T)
      /\ Len(SubSeq(s, 1, m)) = IF 1 <= m THEN m - 1 + 1 ELSE 0
      /\ \A k \in 1 .. m - 1 + 1 : SubSeq(s, 1, m)[k] = s[1 + k - 1]
  BY <1>1, <1>2, SubSeqProperties
<1>5. Len(SubSeq(s, 1, m)) = m /\ m - 1 + 1 = m
  BY <1>1, <1>4
<1>6. \A k \in 1 .. m : SubSeq(s, 1, m)[k] = s[k]
  <2> TAKE k \in 1 .. m
  <2>1. k \in 1 .. m - 1 + 1 /\ 1 + k - 1 = k
    BY <1>1
  <2> QED
    BY <1>4, <2>1
<1> QED
  BY <1>3, <1>4, <1>5, <1>6 DEF m

LEMMA SignalsTop ==
    ASSUME SigTypes, NEW p \in S!Processes, ~S!Ended(p)
    PROVE  /\ Len(frames[p]) \in Nat \ {0} /\ frames[p] \in Seq(Frames)
           /\ S!Top(p) = frames[p][Len(frames[p])] /\ S!Top(p) \in Frames
           /\ S!Top(p).sig = "main" <=> Len(frames[p]) = 1
           /\ frames[p][1] \in Frames
<1>1. frames[p] \in Seq(Frames) /\ frames[p] # <<>>
  BY DEF SigTypes, FramesTyped, S!Ended
<1>2. Len(frames[p]) \in Nat \ {0}
  BY <1>1, SeqEmpty
<1>3. S!Top(p) = frames[p][Len(frames[p])]
  BY DEF S!Top, S!Last
<1>4. frames[p][1] \in Frames /\ frames[p][Len(frames[p])] \in Frames
  BY <1>1, <1>2, SeqElement
<1>5. Len(frames[p]) \in 1 .. Len(frames[p])
  BY <1>2
<1>6. frames[p][Len(frames[p])].sig = "main" <=> Len(frames[p]) = 1
  BY <1>5 DEF SigTypes, FramesTyped
<1> QED
  BY <1>1, <1>2, <1>3, <1>4, <1>6

\* The top frame goes on.
LEMMA SignalsAlters ==
    ASSUME SigTypes, NEW p \in S!Processes, ~S!Ended(p),
           NEW f \in Frames, f.sig = S!Top(p).sig,
           frames' = [frames EXCEPT ![p] = [frames[p] EXCEPT ![Len(frames[p])] = f]]
    PROVE  /\ FramesTyped'
           /\ \A q \in S!Processes \ {p} : frames'[q] = frames[q]
           /\ Len(frames'[p]) = Len(frames[p]) /\ Len(frames[p]) \in Nat \ {0}
           /\ frames'[p][Len(frames[p])] = f
           /\ \A k \in 1 .. Len(frames[p]) - 1 : frames'[p][k] = frames[p][k]
           /\ frames'[p] # <<>>
<1> DEFINE n == Len(frames[p])
           s == [frames[p] EXCEPT ![n] = f]
<1>1. n \in Nat \ {0} /\ frames[p] \in Seq(Frames) /\ S!Top(p) = frames[p][n]
  BY SignalsTop
<1>2. s \in Seq(Frames) /\ Len(s) = n /\ s[n] = f /\ \A k \in 1 .. n - 1 : s[k] = frames[p][k]
  BY <1>1
<1>3. frames'[p] = s /\ \A q \in S!Processes \ {p} : frames'[q] = frames[q]
  BY DEF SigTypes, FramesTyped
<1> HIDE DEF n, s
<1>4. frames' \in [S!Processes -> Seq(Frames)]
  BY <1>2, <1>3 DEF SigTypes, FramesTyped, s, n
<1>5. s # <<>>
  BY <1>1, <1>2
<1>6. \A k \in 1 .. n : s[k].sig = frames[p][k].sig
  BY <1>1, <1>2
<1>7. \A q \in S!Processes : \A k \in 1 .. Len(frames'[q]) :
        frames'[q][k].sig = "main" <=> k = 1
  BY <1>2, <1>3, <1>6 DEF SigTypes, FramesTyped, n
<1> QED
  BY <1>1, <1>2, <1>3, <1>4, <1>5, <1>7 DEF n, FramesTyped

LEMMA SignalsPushes ==
    ASSUME SigTypes, NEW p \in S!Processes, ~S!Ended(p),
           NEW f \in Frames, f.sig # "main", frames' = [frames EXCEPT ![p] = Append(@, f)]
    PROVE  /\ FramesTyped'
           /\ \A q \in S!Processes \ {p} : frames'[q] = frames[q]
           /\ Len(frames'[p]) = Len(frames[p]) + 1 /\ Len(frames[p]) \in Nat \ {0}
           /\ frames'[p][Len(frames[p]) + 1] = f
           /\ \A k \in 1 .. Len(frames[p]) : frames'[p][k] = frames[p][k]
           /\ frames'[p] # <<>>
<1> DEFINE n == Len(frames[p])
           s == Append(frames[p], f)
<1>1. n \in Nat \ {0} /\ frames[p] \in Seq(Frames)
  BY SignalsTop
<1>2. s \in Seq(Frames) /\ Len(s) = n + 1 /\ s[n + 1] = f /\ \A k \in 1 .. n : s[k] = frames[p][k]
  BY <1>1
<1>3. frames'[p] = s /\ \A q \in S!Processes \ {p} : frames'[q] = frames[q]
  BY DEF SigTypes, FramesTyped
<1> HIDE DEF n, s
<1>4. frames' \in [S!Processes -> Seq(Frames)]
  BY <1>2, <1>3 DEF SigTypes, FramesTyped, s, n
<1>5. s # <<>>
  BY <1>1, <1>2
<1>6. \A k \in 1 .. n : s[k].sig = "main" <=> k = 1
  BY <1>1, <1>2 DEF SigTypes, FramesTyped, n
<1>7. \A k \in 1 .. n + 1 : s[k].sig = "main" <=> k = 1
  BY <1>1, <1>2, <1>6
<1>8. \A q \in S!Processes : \A k \in 1 .. Len(frames'[q]) :
        frames'[q][k].sig = "main" <=> k = 1
  BY <1>2, <1>3, <1>7 DEF SigTypes, FramesTyped
<1> QED
  BY <1>1, <1>2, <1>3, <1>4, <1>5, <1>8 DEF n, FramesTyped

\* A handler returns to the frame below.
LEMMA SignalsPops ==
    ASSUME SigTypes, NEW p \in S!Processes, ~S!Ended(p), S!Top(p).sig # "main", S!Returns(p)
    PROVE  /\ FramesTyped'
           /\ \A q \in S!Processes \ {p} : frames'[q] = frames[q]
           /\ Len(frames'[p]) = Len(frames[p]) - 1 /\ Len(frames[p]) \in Nat \ {0, 1}
           /\ frames'[p][Len(frames[p]) - 1] = [frames[p][Len(frames[p]) - 1] EXCEPT !.asleep = FALSE]
           /\ \A k \in 1 .. Len(frames[p]) - 2 : frames'[p][k] = frames[p][k]
           /\ frames'[p] # <<>>
<1> DEFINE n == Len(frames[p])
           below == S!Front(frames[p])
           g == [frames[p][n - 1] EXCEPT !.asleep = FALSE]
           s == [below EXCEPT ![n - 1] = g]
<1>1. n \in Nat \ {0, 1} /\ frames[p] \in Seq(Frames) /\ n - 1 \in 1 .. n - 1 /\ n - 1 \in 1 .. n
  <2>1. n \in Nat \ {0} /\ n # 1 /\ frames[p] \in Seq(Frames)
    <3>1. S!Top(p).sig = "main" <=> n = 1
      BY SignalsTop
    <3> QED
      BY <3>1, SignalsTop
  <2> HIDE DEF n
  <2> QED
    BY <2>1
<1>2. below \in Seq(Frames) /\ Len(below) = n - 1 /\ \A k \in 1 .. n - 1 : below[k] = frames[p][k]
  BY <1>1, SeqFront
<1>3. g \in Frames /\ g.sig = frames[p][n - 1].sig
  <2>1. frames[p][n - 1] \in Frames
    BY <1>1, SeqElement
  <2> QED
    BY <2>1 DEF Frames
<1>4. frames' = [frames EXCEPT ![p] = [below EXCEPT ![n - 1].asleep = FALSE]]
  <2>1. below # <<>> /\ Len(below) = n - 1
    <3> HIDE DEF below, n
    <3> QED
      BY <1>1, <1>2, SeqEmpty
  <2> QED
    BY <2>1 DEF S!Returns
<1>5. [below EXCEPT ![n - 1].asleep = FALSE] = s
  <2>1. below[n - 1] = frames[p][n - 1]
    BY <1>1, <1>2
  <2> HIDE DEF below, n
  <2> QED
    BY <2>1
<1> HIDE DEF s
<1>6. frames'[p] = s /\ \A q \in S!Processes \ {p} : frames'[q] = frames[q]
  BY <1>4, <1>5 DEF SigTypes, FramesTyped
<1>7. s \in Seq(Frames) /\ Len(s) = n - 1 /\ s[n - 1] = g
      /\ \A k \in 1 .. n - 2 : s[k] = frames[p][k]
  <2> HIDE DEF below, g, n
  <2>1. /\ s \in Seq(Frames) /\ Len(s) = n - 1 /\ s[n - 1] = g
        /\ \A k \in 1 .. n - 1 : k # n - 1 => s[k] = below[k]
    BY <1>1, <1>2, <1>3, SeqReplace DEF s
  <2>2. \A k \in 1 .. n - 2 : k \in 1 .. n - 1 /\ k # n - 1
    BY <1>1
  <2> QED
    BY <1>2, <2>1, <2>2
<1> HIDE DEF below, g, n
<1>8. frames' \in [S!Processes -> Seq(Frames)]
  BY <1>4, <1>5, <1>7 DEF SigTypes, FramesTyped
<1>9. s # <<>>
  BY <1>1, <1>7, SeqEmpty
<1>10. \A k \in 1 .. n - 1 : s[k].sig = "main" <=> k = 1
  <2> TAKE k \in 1 .. n - 1
  <2>1. k \in 1 .. n /\ (k = n - 1 \/ k \in 1 .. n - 2)
    BY <1>1
  <2>2. frames[p][k].sig = "main" <=> k = 1
    BY <2>1 DEF SigTypes, FramesTyped, n
  <2>3. s[k].sig = frames[p][k].sig
    BY <1>3, <1>7, <2>1
  <2> QED
    BY <2>2, <2>3
<1>11. \A q \in S!Processes : \A k \in 1 .. Len(frames'[q]) :
        frames'[q][k].sig = "main" <=> k = 1
  <2> TAKE q \in S!Processes
  <2>1. CASE q = p
    BY <1>6, <1>7, <1>10, <2>1
  <2>2. CASE q # p
    <3>1. frames'[q] = frames[q]
      BY <1>6, <2>2
    <3> QED
      BY <3>1 DEF SigTypes, FramesTyped
  <2> QED
    BY <2>1, <2>2
<1> QED
  BY <1>1, <1>6, <1>7, <1>8, <1>9, <1>11 DEF g, n, FramesTyped

LEMMA SignalsExits ==
    ASSUME SigTypes, NEW p \in S!Processes, S!Exits(p)
    PROVE  /\ FramesTyped'
           /\ \A q \in S!Processes \ {p} : frames'[q] = frames[q]
           /\ frames'[p] = <<>>
<1>1. frames' = [frames EXCEPT ![p] = <<>>]
  BY DEF S!Exits
<1>2. frames'[p] = <<>> /\ \A q \in S!Processes \ {p} : frames'[q] = frames[q]
  BY <1>1 DEF SigTypes, FramesTyped
<1>3. frames' \in [S!Processes -> Seq(Frames)]
  BY <1>1 DEF SigTypes, FramesTyped
<1>4. \A q \in S!Processes : \A k \in 1 .. Len(frames'[q]) :
        frames'[q][k].sig = "main" <=> k = 1
  <2> TAKE q \in S!Processes
  <2>1. CASE q = p
    <3>1. Len(frames'[q]) = 0
      BY <1>2, <2>1
    <3> QED
      BY <3>1
  <2>2. CASE q # p
    BY <1>2, <2>2 DEF SigTypes, FramesTyped
  <2> QED
    BY <2>1, <2>2
<1> QED
  BY <1>2, <1>3, <1>4 DEF FramesTyped

\* A step of the top frame, which may fall asleep.
LEMMA SignalsGoes ==
    ASSUME SigTypes, NEW p \in S!Processes, ~S!Ended(p), S!Goes(p) \/ S!Suspends(p)
    PROVE  \E f \in Frames :
             /\ f.sig = S!Top(p).sig /\ f.mask = S!Top(p).mask /\ f.i = S!Top(p).i + 1
             /\ S!Suspends(p) => f.asleep
             /\ S!Goes(p) => (f.asleep <=> S!Top(p).asleep)
             /\ frames' = [frames EXCEPT ![p] = [frames[p] EXCEPT ![Len(frames[p])] = f]]
<1> DEFINE n == Len(frames[p])
           top == frames[p][n]
           g == [top EXCEPT !.i = top.i + 1]
           f == [g EXCEPT !.asleep = TRUE]
<1>1. n \in Nat \ {0} /\ n \in 1 .. n /\ S!Top(p) = top /\ top \in Frames /\ frames[p] \in Seq(Frames)
  BY SignalsTop
<1>2. g \in Frames /\ g.sig = top.sig /\ g.mask = top.mask /\ g.i = top.i + 1
      /\ (g.asleep <=> top.asleep)
  <2> HIDE DEF top
  <2> QED
    BY <1>1 DEF Frames
<1>3. f \in Frames /\ f.sig = g.sig /\ f.mask = g.mask /\ f.i = g.i /\ f.asleep
  <2> HIDE DEF g
  <2> QED
    BY <1>2 DEF Frames
<1>4. ASSUME S!Goes(p)
      PROVE  frames' = [frames EXCEPT ![p] = [frames[p] EXCEPT ![n] = g]]
  BY <1>1, <1>4 DEF S!Goes, SigTypes, FramesTyped
<1>5. CASE S!Suspends(p)
  <2> DEFINE h == [frames EXCEPT ![p] = [frames[p] EXCEPT ![n] = g]]
  <2> HIDE DEF g
  <2>1. frames' = [h EXCEPT ![p][n].asleep = TRUE]
    BY <1>1, <1>5 DEF S!Suspends, g
  <2>2. h[p] = [frames[p] EXCEPT ![n] = g]
    BY DEF SigTypes, FramesTyped
  <2>3. h[p][n] = g
    BY <1>1, <2>2
  <2>4. frames' = [h EXCEPT ![p] = [h[p] EXCEPT ![n] = f]]
    BY <2>1, <2>3
  <2>5. [h[p] EXCEPT ![n] = f] = [frames[p] EXCEPT ![n] = f]
    <3> HIDE DEF f, h
    <3> QED
      BY <1>1, <2>2
  <2> HIDE DEF f
  <2>6. frames' = [frames EXCEPT ![p] = [frames[p] EXCEPT ![n] = f]]
    BY <2>4, <2>5 DEF SigTypes, FramesTyped
  <2>7. S!Goes(p) => (f.asleep <=> g.asleep)
    <3> SUFFICES ASSUME S!Goes(p) PROVE f.asleep <=> g.asleep
      OBVIOUS
    <3>1. frames'[p] = [frames[p] EXCEPT ![n] = f] /\ frames'[p] = [frames[p] EXCEPT ![n] = g]
      BY <1>4, <2>6 DEF SigTypes, FramesTyped
    <3>2. frames'[p][n] = f /\ frames'[p][n] = g
      <4> HIDE DEF f, g
      <4> QED
        BY <1>1, <3>1
    <3> QED
      BY <3>2
  <2> HIDE DEF top
  <2> QED
    BY <1>1, <1>2, <1>3, <2>6, <2>7
<1>6. CASE ~S!Suspends(p)
  <2>1. S!Goes(p)
    BY <1>6
  <2>2. frames' = [frames EXCEPT ![p] = [frames[p] EXCEPT ![n] = g]]
    BY <1>4, <2>1
  <2> HIDE DEF g, top
  <2> QED
    BY <1>1, <1>2, <1>6, <2>2
<1> QED
  BY <1>5, <1>6

LEMMA SignalsSends ==
    ASSUME SigTypes, NEW p \in S!Processes, NEW sig \in {"s1", "s2"}, S!Sends(p, sig)
    PROVE  /\ pending' \in [S!Processes -> [s1 : Nat, s2 : Nat]]
           /\ \A q \in S!Processes \ {p} : pending'[q] = pending[q]
           /\ S!Ended(p) => pending' = pending
           /\ ~S!Ended(p) =>
                /\ sig = "s1" => /\ pending'[p].s2 = pending[p].s2
                                 /\ pending'[p].s1 \in {1, pending[p].s1 + 1}
                /\ sig = "s2" => /\ pending'[p].s1 = pending[p].s1
                                 /\ pending'[p].s2 \in {1, pending[p].s2 + 1}
<1>1. CASE S!Ended(p)
  BY <1>1 DEF S!Sends, SigTypes
<1>2. CASE ~S!Ended(p)
  <2> DEFINE v == IF rt THEN pending[p][sig] + 1 ELSE 1
  <2>1. pending[p] \in [s1 : Nat, s2 : Nat] /\ pending[p].s1 \in Nat /\ pending[p].s2 \in Nat
    BY DEF SigTypes
  <2>2. pending' = [pending EXCEPT ![p] = [pending[p] EXCEPT ![sig] = v]]
    BY <1>2 DEF S!Sends
  <2>3. v \in {1, pending[p][sig] + 1} /\ v \in Nat
    BY <2>1
  <2> HIDE DEF v
  <2>4. CASE sig = "s1"
    BY <1>2, <2>1, <2>2, <2>3, <2>4 DEF SigTypes
  <2>5. CASE sig = "s2"
    BY <1>2, <2>1, <2>2, <2>3, <2>5 DEF SigTypes
  <2> QED
    BY <2>4, <2>5
<1> QED
  BY <1>1, <1>2

LEMMA SignalsDelivers ==
    ASSUME SigTypes, NEW p \in S!Processes, S!Deliver(p)
    PROVE  /\ ~S!Ended(p) /\ received' = received
           /\ pending' \in [S!Processes -> [s1 : Nat, s2 : Nat]]
           /\ \A q \in S!Processes \ {p} : pending'[q] = pending[q]
           /\ \E f \in Frames :
                /\ f.i = 0 /\ ~f.asleep /\ f.sig \in {"s1", "s2"}
                /\ S!Mask(p) \subseteq f.mask /\ f.sig \notin S!Mask(p)
                /\ variant = "a" => f.sig \in f.mask
                /\ frames' = [frames EXCEPT ![p] = Append(@, f)]
                /\ f.sig = "s1" => /\ pending[p].s1 > 0 /\ pending'[p].s1 = pending[p].s1 - 1
                                   /\ pending'[p].s2 = pending[p].s2
                /\ f.sig = "s2" => /\ pending[p].s2 > 0 /\ pending'[p].s2 = pending[p].s2 - 1
                                   /\ pending'[p].s1 = pending[p].s1
<1>1. ~S!Ended(p) /\ received' = received
  BY DEF S!Deliver
<1>2. PICK s \in {"s1", "s2"} :
        /\ pending[p][s] > 0 /\ s \notin S!Mask(p)
        /\ pending' = [pending EXCEPT ![p][s] = @ - 1]
        /\ frames' = [frames EXCEPT ![p] = Append(@, S!Frame(s,
             S!Mask(p) \cup (IF variant = "b" /\ p = "catcher" THEN {} ELSE {s})))]
  BY DEF S!Deliver
<1> DEFINE mask == S!Mask(p) \cup (IF variant = "b" /\ p = "catcher" THEN {} ELSE {s})
           f == S!Frame(s, mask)
<1>3. S!Mask(p) \in SUBSET {"s1", "s2"}
  <2>1. S!Top(p) \in Frames
    BY <1>1, SignalsTop
  <2>2. S!Top(p).mask \in SUBSET {"s1", "s2"}
    BY <2>1 DEF Frames
  <2> QED
    BY <2>2 DEF S!Mask
<1>4. mask \in SUBSET {"s1", "s2"} /\ S!Mask(p) \subseteq mask /\ (variant = "a" => s \in mask)
  BY <1>3
<1>5. frames' = [frames EXCEPT ![p] = Append(@, f)]
  BY <1>2
<1> HIDE DEF mask
<1>6. f \in Frames /\ f.i = 0 /\ ~f.asleep /\ f.sig = s /\ f.mask = mask
  BY <1>4 DEF S!Frame, Frames
<1> HIDE DEF f
<1>7. pending[p] \in [s1 : Nat, s2 : Nat] /\ pending[p].s1 \in Nat /\ pending[p].s2 \in Nat
  BY DEF SigTypes
<1>8. pending' = [pending EXCEPT ![p] = [pending[p] EXCEPT ![s] = pending[p][s] - 1]]
  BY <1>2
<1>9. /\ pending' \in [S!Processes -> [s1 : Nat, s2 : Nat]]
      /\ \A q \in S!Processes \ {p} : pending'[q] = pending[q]
      /\ s = "s1" => /\ pending[p].s1 > 0 /\ pending'[p].s1 = pending[p].s1 - 1
                     /\ pending'[p].s2 = pending[p].s2
      /\ s = "s2" => /\ pending[p].s2 > 0 /\ pending'[p].s2 = pending[p].s2 - 1
                     /\ pending'[p].s1 = pending[p].s1
  <2>1. /\ pending'[p] = [pending[p] EXCEPT ![s] = pending[p][s] - 1]
        /\ \A q \in S!Processes \ {p} : pending'[q] = pending[q]
    BY <1>8 DEF SigTypes
  <2>2. CASE s = "s1"
    <3>1. pending[p][s] = pending[p].s1
      BY <2>2
    <3>2. pending[p].s1 - 1 \in Nat /\ pending[p].s1 > 0
      BY <1>2, <1>7, <3>1
    <3>3. pending'[p] = [pending[p] EXCEPT !.s1 = pending[p].s1 - 1]
      BY <2>1, <2>2, <3>1
    <3>4. pending'[p] \in [s1 : Nat, s2 : Nat] /\ pending'[p].s1 = pending[p].s1 - 1
          /\ pending'[p].s2 = pending[p].s2
      BY <1>7, <3>2, <3>3
    <3>5. pending' \in [S!Processes -> [s1 : Nat, s2 : Nat]]
      BY <1>8, <2>1, <3>4 DEF SigTypes
    <3> QED
      BY <2>1, <2>2, <3>2, <3>4, <3>5
  <2>3. CASE s = "s2"
    <3>1. pending[p][s] = pending[p].s2
      BY <2>3
    <3>2. pending[p].s2 - 1 \in Nat /\ pending[p].s2 > 0
      BY <1>2, <1>7, <3>1
    <3>3. pending'[p] = [pending[p] EXCEPT !.s2 = pending[p].s2 - 1]
      BY <2>1, <2>3, <3>1
    <3>4. pending'[p] \in [s1 : Nat, s2 : Nat] /\ pending'[p].s2 = pending[p].s2 - 1
          /\ pending'[p].s1 = pending[p].s1
      BY <1>7, <3>2, <3>3
    <3>5. pending' \in [S!Processes -> [s1 : Nat, s2 : Nat]]
      BY <1>8, <2>1, <3>4 DEF SigTypes
    <3> QED
      BY <2>1, <2>3, <3>2, <3>4, <3>5
  <2> QED
    BY <2>2, <2>3
<1> QED
  BY <1>1, <1>2, <1>4, <1>5, <1>6, <1>9

\* The top frame of program a goes on: a fresh one has counted then.
LEMMA SignalsGoesA ==
    ASSUME SigTypes, NEW p \in S!Processes, S!Runs(p, S!Top(p).sig), BlockedIn(p),
           S!Goes(p) \/ S!Suspends(p), S!Top(p).sig = "s2" => S!Goes(p)
    PROVE  /\ FramesTyped' /\ BlockedIn(p)' /\ ~S!Ended(p)'
           /\ \A q \in S!Processes \ {p} : frames'[q] = frames[q]
           /\ Len(frames'[p]) = Len(frames[p])
           /\ \A k \in 1 .. Len(frames[p]) - 1 : frames'[p][k] = frames[p][k]
           /\ frames'[p][Len(frames[p])].sig = S!Top(p).sig
           /\ frames'[p][Len(frames[p])].i = S!Top(p).i + 1
           /\ Uncounted(p)' = IF S!Top(p).sig = "s1" /\ S!Top(p).i = 0 THEN 0 ELSE Uncounted(p)
           /\ S!Top(p).sig = "s1" /\ S!Top(p).i = 0 => Uncounted(p) = 1
<1> DEFINE top == S!Top(p)
<1>1. ~S!Ended(p) /\ ~top.asleep
  BY DEF S!Runs
<1>0. PICK n \in Nat : n = Len(frames[p])
  BY <1>1, SignalsTop
<1>2. /\ n \in Nat \ {0} /\ top = frames[p][n] /\ top \in Frames
      /\ top.sig = "main" <=> n = 1
      /\ frames[p] # <<>>
  BY <1>1, <1>0, SignalsTop DEF S!Ended
<1>3. PICK f \in Frames :
        /\ f.sig = top.sig /\ f.mask = top.mask /\ f.i = top.i + 1
        /\ S!Goes(p) => (f.asleep <=> top.asleep)
        /\ frames' = [frames EXCEPT ![p] = [frames[p] EXCEPT ![n] = f]]
  BY <1>0, <1>1, SignalsGoes
<1>4. /\ FramesTyped' /\ frames'[p] # <<>>
      /\ \A q \in S!Processes \ {p} : frames'[q] = frames[q]
      /\ Len(frames'[p]) = n /\ frames'[p][n] = f
      /\ \A k \in 1 .. n - 1 : frames'[p][k] = frames[p][k]
  <2>1. /\ f.sig = S!Top(p).sig
        /\ frames' = [frames EXCEPT ![p] = [frames[p] EXCEPT ![Len(frames[p])] = f]]
    BY <1>0, <1>3
  <2>2. /\ FramesTyped' /\ frames'[p] # <<>>
        /\ \A q \in S!Processes \ {p} : frames'[q] = frames[q]
        /\ Len(frames'[p]) = Len(frames[p]) /\ frames'[p][Len(frames[p])] = f
        /\ \A k \in 1 .. Len(frames[p]) - 1 : frames'[p][k] = frames[p][k]
    BY <1>1, <2>1, SignalsAlters
  <2> QED
    BY <1>0, <2>2
<1> HIDE DEF top
<1>5. top.i \in Nat /\ f.i \in Nat \ {0} /\ f.i = top.i + 1
  BY <1>2, <1>3 DEF Frames
<1>6. \A k \in 2 .. n : Fresh(p, k - 1)' => Fresh(p, k - 1)
  BY <1>2, <1>4 DEF Fresh
<1>7. BlockedIn(p)'
  <2> SUFFICES ASSUME NEW k \in 2 .. n
               PROVE  LET f1 == frames'[p][k]
                      IN /\ f1.sig = "s1" => "s1" \in f1.mask /\ (f1.asleep => f1.i > 0)
                         /\ f1.sig = "s2" => ~f1.asleep /\ (Fresh(p, k - 1)' => "s1" \in f1.mask)
    BY <1>4 DEF BlockedIn
  <2>1. /\ frames[p][k].sig = "s1" => "s1" \in frames[p][k].mask /\ (frames[p][k].asleep => frames[p][k].i > 0)
        /\ frames[p][k].sig = "s2" => ~frames[p][k].asleep /\ (Fresh(p, k - 1) => "s1" \in frames[p][k].mask)
    BY <1>0 DEF BlockedIn
  <2>2. CASE k = n
    BY <1>1, <1>2, <1>3, <1>4, <1>5, <1>6, <2>1, <2>2 DEF top
  <2>3. CASE k # n
    <3>1. k \in 1 .. n - 1
      BY <1>2, <2>3
    <3> QED
      BY <1>4, <1>6, <2>1, <3>1
  <2> QED
    BY <2>2, <2>3
<1>8. FreshTop(p) <=> top.sig = "s1" /\ top.i = 0
  BY <1>1, <1>2, <1>0 DEF FreshTop, Fresh
<1>9. ~FreshTop(p)'
  BY <1>4, <1>5 DEF FreshTop, Fresh
<1>10. FreshBelow(p) <=> n > 1 /\ top.sig = "s2" /\ Fresh(p, n - 1)
  BY <1>2, <1>0 DEF FreshBelow
<1>11. FreshBelow(p)' <=> n > 1 /\ top.sig = "s2" /\ Fresh(p, n - 1)'
  BY <1>3, <1>4 DEF FreshBelow
<1>12. n > 1 => (Fresh(p, n - 1)' <=> Fresh(p, n - 1))
  <2> SUFFICES ASSUME n > 1 PROVE Fresh(p, n - 1)' <=> Fresh(p, n - 1)
    OBVIOUS
  <2>1. n - 1 \in 1 .. n - 1
    BY <1>2
  <2> QED
    BY <1>4, <2>1 DEF Fresh
<1>13. /\ Uncounted(p)' = IF top.sig = "s1" /\ top.i = 0 THEN 0 ELSE Uncounted(p)
       /\ top.sig = "s1" /\ top.i = 0 => Uncounted(p) = 1
  BY <1>8, <1>9, <1>10, <1>11, <1>12 DEF Uncounted
<1> QED
  BY <1>3, <1>4, <1>5, <1>7, <1>13, <1>0 DEF top, S!Ended

\* A handler interrupts the top frame of program a.
LEMMA SignalsDeliversA ==
    ASSUME SigTypes, variant = "a", NEW p \in S!Processes, BlockedIn(p), S!Deliver(p)
    PROVE  /\ FramesTyped' /\ BlockedIn(p)' /\ ~S!Ended(p) /\ ~S!Ended(p)'
           /\ \A q \in S!Processes \ {p} : frames'[q] = frames[q] /\ pending'[q] = pending[q]
           /\ Len(frames'[p]) = Len(frames[p]) + 1 /\ Len(frames[p]) \in Nat \ {0}
           /\ \A k \in 1 .. Len(frames[p]) : frames'[p][k] = frames[p][k]
           /\ frames'[p][Len(frames[p]) + 1].i = 0
           /\ frames'[p][Len(frames[p]) + 1].sig \in {"s1", "s2"}
           /\ pending' \in [S!Processes -> [s1 : Nat, s2 : Nat]] /\ received' = received
           /\ frames'[p][Len(frames[p]) + 1].sig = "s1" =>
                /\ pending'[p].s1 + 1 = pending[p].s1 /\ pending'[p].s2 = pending[p].s2
                /\ Uncounted(p) = 0 /\ Uncounted(p)' = 1
           /\ frames'[p][Len(frames[p]) + 1].sig = "s2" =>
                /\ pending'[p].s1 = pending[p].s1 /\ pending'[p].s2 + 1 = pending[p].s2
                /\ Uncounted(p)' <= Uncounted(p)
<1> DEFINE top == S!Top(p)
<1>1. /\ ~S!Ended(p) /\ received' = received
      /\ pending' \in [S!Processes -> [s1 : Nat, s2 : Nat]]
      /\ \A q \in S!Processes \ {p} : pending'[q] = pending[q]
  BY SignalsDelivers
<1>0. PICK n \in Nat : n = Len(frames[p])
  BY <1>1, SignalsTop
<1>2. PICK f \in Frames :
        /\ f.i = 0 /\ ~f.asleep /\ f.sig \in {"s1", "s2"}
        /\ S!Mask(p) \subseteq f.mask /\ f.sig \notin S!Mask(p)
        /\ f.sig \in f.mask
        /\ frames' = [frames EXCEPT ![p] = Append(@, f)]
        /\ f.sig = "s1" => /\ pending[p].s1 > 0 /\ pending'[p].s1 = pending[p].s1 - 1
                           /\ pending'[p].s2 = pending[p].s2
        /\ f.sig = "s2" => /\ pending[p].s2 > 0 /\ pending'[p].s2 = pending[p].s2 - 1
                           /\ pending'[p].s1 = pending[p].s1
  BY SignalsDelivers
<1>3. /\ n \in Nat \ {0} /\ top = frames[p][n] /\ top \in Frames
      /\ top.sig = "main" <=> n = 1
      /\ frames[p] # <<>>
  BY <1>1, <1>0, SignalsTop DEF S!Ended
<1>4. /\ FramesTyped' /\ frames'[p] # <<>>
      /\ \A q \in S!Processes \ {p} : frames'[q] = frames[q]
      /\ Len(frames'[p]) = n + 1 /\ frames'[p][n + 1] = f
      /\ \A k \in 1 .. n : frames'[p][k] = frames[p][k]
  <2>1. f.sig # "main" /\ frames' = [frames EXCEPT ![p] = Append(@, f)]
    BY <1>2
  <2>2. /\ FramesTyped' /\ frames'[p] # <<>>
        /\ \A q \in S!Processes \ {p} : frames'[q] = frames[q]
        /\ Len(frames'[p]) = Len(frames[p]) + 1 /\ frames'[p][Len(frames[p]) + 1] = f
        /\ \A k \in 1 .. Len(frames[p]) : frames'[p][k] = frames[p][k]
    BY <1>1, <2>1, SignalsPushes
  <2> QED
    BY <1>0, <2>2
<1> HIDE DEF top
<1>5. S!Mask(p) = IF top.asleep THEN {} ELSE top.mask
  BY DEF S!Mask, top
<1>6. n # 1 => /\ top.sig = "s1" => "s1" \in top.mask /\ (top.asleep => top.i > 0)
               /\ top.sig = "s2" => ~top.asleep /\ (Fresh(p, n - 1) => "s1" \in top.mask)
  <2> SUFFICES ASSUME n # 1
               PROVE  /\ top.sig = "s1" => "s1" \in top.mask /\ (top.asleep => top.i > 0)
                      /\ top.sig = "s2" => ~top.asleep /\ (Fresh(p, n - 1) => "s1" \in top.mask)
    OBVIOUS
  <2>1. n \in 2 .. n
    BY <1>3
  <2> QED
    BY <1>3, <2>1, <1>0 DEF BlockedIn
<1>7. Fresh(p, n) => n # 1 /\ top.sig = "s1" /\ top.i = 0
  BY <1>3 DEF Fresh
<1>8. Fresh(p, n) => "s1" \in S!Mask(p)
  BY <1>5, <1>6, <1>7
<1>9. FreshBelow(p) => "s1" \in S!Mask(p)
  BY <1>3, <1>5, <1>6, <1>0 DEF FreshBelow
<1>10. \A k \in 1 .. n : Fresh(p, k)' <=> Fresh(p, k)
  BY <1>4 DEF Fresh
<1>11. FreshTop(p) <=> Fresh(p, n)
  BY <1>1, <1>0 DEF FreshTop
<1>12. FreshTop(p)' <=> f.sig = "s1"
  BY <1>2, <1>4 DEF FreshTop, Fresh, S!Ended
<1>13. n \in 1 .. n /\ n + 1 > 1 /\ n + 1 - 1 = n
  BY <1>3
<1>14. FreshBelow(p)' <=> f.sig = "s2" /\ Fresh(p, n)
  BY <1>4, <1>10, <1>13 DEF FreshBelow
<1>15. /\ f.sig = "s1" => Uncounted(p) = 0 /\ Uncounted(p)' = 1
       /\ f.sig = "s2" => Uncounted(p)' <= Uncounted(p)
  BY <1>2, <1>8, <1>9, <1>11, <1>12, <1>14 DEF Uncounted
<1>16. BlockedIn(p)'
  <2> SUFFICES ASSUME NEW k \in 2 .. n + 1
               PROVE  LET f1 == frames'[p][k]
                      IN /\ f1.sig = "s1" => "s1" \in f1.mask /\ (f1.asleep => f1.i > 0)
                         /\ f1.sig = "s2" => ~f1.asleep /\ (Fresh(p, k - 1)' => "s1" \in f1.mask)
    BY <1>4 DEF BlockedIn
  <2>1. CASE k = n + 1
    <3>1. k - 1 = n
      BY <1>3, <2>1
    <3>2. Fresh(p, n)' => "s1" \in f.mask
      BY <1>2, <1>8, <1>10, <1>13
    <3> QED
      BY <1>2, <1>4, <2>1, <3>1, <3>2
  <2>2. CASE k # n + 1
    <3>1. k \in 2 .. n /\ k \in 1 .. n /\ k - 1 \in 1 .. n
      BY <1>3, <2>2
    <3>2. frames'[p][k] = frames[p][k] /\ (Fresh(p, k - 1)' <=> Fresh(p, k - 1))
      BY <1>4, <1>10, <3>1
    <3> QED
      BY <3>1, <3>2, <1>0 DEF BlockedIn
  <2> QED
    BY <2>1, <2>2
<1>17. /\ pending[p].s1 \in Nat /\ pending[p].s2 \in Nat
       /\ pending'[p].s1 \in Nat /\ pending'[p].s2 \in Nat
  BY <1>1 DEF SigTypes
<1>18. /\ f.sig = "s1" => pending'[p].s1 + 1 = pending[p].s1
       /\ f.sig = "s2" => pending'[p].s2 + 1 = pending[p].s2
  BY <1>2, <1>17
<1> QED
  BY <1>1, <1>2, <1>3, <1>4, <1>15, <1>16, <1>18, <1>0 DEF S!Ended

LEMMA SignalsExitsA ==
    ASSUME SigTypes, NEW p \in S!Processes, S!Exits(p)
    PROVE  /\ FramesTyped' /\ BlockedIn(p)' /\ S!Ended(p)' /\ ~HasS2(p)'
           /\ \A q \in S!Processes \ {p} : frames'[q] = frames[q]
           /\ Uncounted(p)' = 0 /\ Len(frames'[p]) = 0
<1>1. FramesTyped' /\ frames'[p] = <<>> /\ \A q \in S!Processes \ {p} : frames'[q] = frames[q]
  BY SignalsExits
<1>2. S!Ended(p)' /\ Len(frames'[p]) = 0
  BY <1>1 DEF S!Ended
<1>3. 2 .. 0 = {} /\ 1 .. 0 = {}
  OBVIOUS
<1>4. BlockedIn(p)' /\ ~HasS2(p)'
  BY <1>2, <1>3 DEF BlockedIn, HasS2
<1>5. Uncounted(p)' = 0
  BY <1>2 DEF Uncounted, FreshTop, FreshBelow
<1> QED
  BY <1>1, <1>2, <1>4, <1>5

\* What a process has kept, where nothing of it changes.
LEMMA SignalsKept ==
    ASSUME NEW p \in S!Processes, frames'[p] = frames[p]
    PROVE  /\ BlockedIn(p)' <=> BlockedIn(p)
           /\ HasS2(p)' <=> HasS2(p)
           /\ Uncounted(p)' = Uncounted(p)
           /\ S!Ended(p)' <=> S!Ended(p)
           /\ FreshTop(p)' <=> FreshTop(p)
  BY DEF BlockedIn, HasS2, Uncounted, FreshTop, FreshBelow, Fresh, S!Ended

LEMMA SignalsNumbers ==
    ASSUME SigTypes
    PROVE  /\ SentS1 \in Nat /\ SentS1 <= to_send /\ BackSum \in Nat
           /\ \A p \in S!Processes : /\ received[p] \in Nat /\ Uncounted(p) \in {0, 1}
                                     /\ pending[p].s1 \in Nat /\ pending[p].s2 \in Nat
<1>1. to_send \in Nat
  BY SignalsAssumption DEF S!SignalsParameters
<1>2. \A p \in S!Processes : /\ received[p] \in Nat /\ Uncounted(p) \in {0, 1}
                             /\ pending[p].s1 \in Nat /\ pending[p].s2 \in Nat
  BY DEF SigTypes, Uncounted
<1>3. "sender" \in S!Processes
  BY DEF S!Processes
<1>4. BackSum \in Nat
  BY <1>2, <1>3 DEF BackSum
<1>5. StillSends => frames["sender"][1].i \in Nat /\ frames["sender"][1].i <= to_send
  <2>1. ~S!Ended("sender") => frames["sender"][1] \in Frames
    BY <1>3, SignalsTop
  <2> QED
    BY <2>1 DEF StillSends, Frames
<1> QED
  BY <1>1, <1>2, <1>4, <1>5 DEF SentS1

LEMMA SignalsNumbersNext ==
    ASSUME SigTypes'
    PROVE  SentS1' \in Nat /\ BackSum' \in Nat
<1>1. to_send \in Nat
  BY SignalsAssumption DEF S!SignalsParameters
<1>2. "sender" \in S!Processes
  BY DEF S!Processes
<1>3. frames'["sender"] \in Seq(Frames) /\ received'["sender"] \in Nat /\ pending'["sender"].s1 \in Nat
  BY <1>2 DEF SigTypes, FramesTyped
<1>4. StillSends' => frames'["sender"][1].i \in Nat
  <2> SUFFICES ASSUME ~S!Ended("sender")'
               PROVE  frames'["sender"][1].i \in Nat
    BY DEF StillSends
  <2>1. Len(frames'["sender"]) \in Nat \ {0}
    BY <1>3, SeqEmpty DEF S!Ended
  <2>2. frames'["sender"][1] \in Frames
    BY <1>3, <2>1, SeqElement
  <2> QED
    BY <2>2 DEF Frames
<1>5. Uncounted("sender")' \in {0, 1}
  BY DEF Uncounted
<1> QED
  BY <1>1, <1>3, <1>4, <1>5 DEF SentS1, BackSum

\* What a step of the sender may do in program a.
LEMMA SignalsSenderEffect ==
    ASSUME SigTypes, SignalsAInv, variant' = variant, rt' = rt,
           FramesTyped', BlockedIn("sender")', frames'["catcher"] = frames["catcher"],
           pending' \in [S!Processes -> [s1 : Nat, s2 : Nat]],
           received' \in [S!Processes -> Nat], received'["catcher"] = received["catcher"],
           BackSum' <= BackSum,
           pending'["catcher"].s1 + SentS1 <= pending["catcher"].s1 + SentS1',
           \/ pending'["catcher"].s2 = pending["catcher"].s2 /\ (StillSends' => StillSends)
           \/ pending'["catcher"].s2 <= 1 /\ StillSends /\ ~StillSends'
    PROVE  SigTypes' /\ SignalsAInv'
<1>1. SigTypes'
  BY DEF SigTypes
<1>2. /\ S!Processes = {"sender", "catcher"}
      /\ "catcher" \in S!Processes /\ "sender" \in S!Processes
  BY DEF S!Processes
<1>3. /\ BlockedIn("catcher")' <=> BlockedIn("catcher")
      /\ HasS2("catcher")' <=> HasS2("catcher")
      /\ Uncounted("catcher")' = Uncounted("catcher")
      /\ S!Ended("catcher")' <=> S!Ended("catcher")
  BY <1>2, SignalsKept
<1>4. Blocked'
  BY <1>2, <1>3 DEF SignalsAInv, Blocked
<1>5. SentS1 \in Nat /\ SentS1' \in Nat /\ BackSum \in Nat /\ BackSum' \in Nat
  BY <1>1, SignalsNumbers, SignalsNumbersNext
<1>6. /\ pending["catcher"].s1 \in Nat /\ pending'["catcher"].s1 \in Nat
      /\ received["catcher"] \in Nat /\ Uncounted("catcher") \in {0, 1}
  BY <1>1, <1>2, SignalsNumbers DEF SigTypes
<1>7. SentCounted'
  BY <1>3, <1>5, <1>6 DEF SignalsAInv, SentCounted
<1>8. OneS2'
  BY <1>3 DEF SignalsAInv, OneS2
<1>9. BackCounted'
  <2>1. \A k \in 1 .. Len(frames["catcher"]) : frames["catcher"][k].sig = "s2" =>
          frames["catcher"][k].i \in Nat
    <3> TAKE k \in 1 .. Len(frames["catcher"])
    <3>1. frames["catcher"] \in Seq(Frames)
      BY <1>2 DEF SigTypes, FramesTyped
    <3>2. frames["catcher"][k] \in Frames
      BY <3>1, SeqElement
    <3> QED
      BY <3>2 DEF Frames
  <2> QED
    BY <1>3, <1>5, <1>6, <2>1 DEF SignalsAInv, BackCounted
<1> QED
  BY <1>1, <1>4, <1>7, <1>8, <1>9 DEF SignalsAInv

LEMMA SignalsSenderA ==
    ASSUME SigTypes, SignalsAInv, variant = "a", variant' = variant, rt' = rt, S!SenderStep
    PROVE  SigTypes' /\ SignalsAInv'
<1> DEFINE p == "sender"
           n == Len(frames[p])
<1>1. /\ p \in S!Processes /\ "catcher" \in S!Processes \ {p} /\ p \in S!Processes \ {"catcher"}
  BY DEF S!Processes
<1>2. /\ BlockedIn(p) /\ OneS2
  BY <1>1 DEF SignalsAInv, Blocked
<1>3. /\ received[p] \in Nat /\ Uncounted(p) \in {0, 1} /\ SentS1 \in Nat /\ SentS1 <= to_send
      /\ pending[p].s1 \in Nat /\ pending[p].s2 \in Nat
      /\ pending["catcher"].s1 \in Nat /\ pending["catcher"].s2 \in Nat
      /\ received \in [S!Processes -> Nat] /\ pending \in [S!Processes -> [s1 : Nat, s2 : Nat]]
      /\ to_send \in Nat
  BY <1>1, SignalsNumbers, SignalsAssumption DEF SigTypes, S!SignalsParameters
<1>4. ~S!Ended(p) => /\ n \in Nat \ {0} /\ S!Top(p) = frames[p][n]
                     /\ S!Top(p).sig = "main" <=> n = 1
                     /\ S!Top(p).i \in Nat /\ frames[p][1].i \in Nat
  BY <1>1, SignalsTop DEF Frames
<1>5. CASE S!Deliver(p)
  <2>1. /\ FramesTyped' /\ BlockedIn(p)' /\ ~S!Ended(p) /\ ~S!Ended(p)'
        /\ frames'["catcher"] = frames["catcher"] /\ pending'["catcher"] = pending["catcher"]
        /\ pending' \in [S!Processes -> [s1 : Nat, s2 : Nat]] /\ received' = received
        /\ n \in Nat \ {0} /\ \A k \in 1 .. n : frames'[p][k] = frames[p][k]
    BY <1>1, <1>2, <1>5, SignalsDeliversA
  <2>2. \/ /\ pending'[p].s1 + 1 = pending[p].s1
           /\ Uncounted(p) = 0 /\ Uncounted(p)' = 1
        \/ pending'[p].s1 = pending[p].s1 /\ Uncounted(p)' <= Uncounted(p)
    BY <1>1, <1>2, <1>5, SignalsDeliversA
  <2>3. Uncounted(p)' \in {0, 1} /\ pending'[p].s1 \in Nat
    BY <1>1, <2>1 DEF Uncounted
  <2>4. BackSum' <= BackSum
    BY <1>3, <2>1, <2>2, <2>3 DEF BackSum
  <2>5. frames'[p][1] = frames[p][1]
    <3> HIDE DEF n
    <3>1. 1 \in 1 .. n
      BY <2>1
    <3> QED
      BY <2>1, <3>1
  <2>6. (StillSends' <=> StillSends) /\ SentS1' = SentS1
    BY <2>1, <2>5 DEF StillSends, SentS1
  <2> QED
    BY <1>3, <2>1, <2>4, <2>6, SignalsSenderEffect
<1>6. CASE S!SenderMain
  <2>1. /\ S!Runs(p, "main") /\ received' = received
        /\ S!Top(p).sig = "main" /\ S!Runs(p, S!Top(p).sig) /\ ~S!Ended(p)
    BY <1>6 DEF S!SenderMain, S!Runs
  <2>2. S!Goes(p) \/ S!Suspends(p)
    BY <1>6 DEF S!SenderMain
  <2>3. /\ FramesTyped' /\ BlockedIn(p)' /\ ~S!Ended(p)'
        /\ frames'["catcher"] = frames["catcher"]
        /\ frames'[p][n].i = S!Top(p).i + 1 /\ Uncounted(p)' = Uncounted(p)
    BY <1>1, <1>2, <2>1, <2>2, SignalsGoesA
  <2>4. n = 1 /\ frames'[p][1].i = frames[p][1].i + 1 /\ frames[p][1].i \in Nat
        /\ S!Top(p) = frames[p][1]
    BY <1>4, <2>1, <2>3
  <2>5. CASE S!Suspends(p) /\ frames[p][1].i = to_send + 1
    <3>1. pending' = pending /\ ~StillSends /\ ~StillSends'
      BY <1>3, <2>4, <2>5 DEF S!Suspends, StillSends
    <3>2. SentS1' = SentS1 /\ BackSum' = BackSum
      BY <2>1, <2>3, <3>1 DEF SentS1, BackSum
    <3>3. BackSum' <= BackSum
      BY <1>3, <3>2 DEF BackSum
    <3> QED
      BY <1>3, <2>1, <2>3, <3>1, <3>2, <3>3, SignalsSenderEffect
  <2>6. CASE /\ frames[p][1].i <= to_send
             /\ S!Sends("catcher", IF frames[p][1].i < to_send THEN "s1" ELSE "s2")
    <3> DEFINE sig == IF frames[p][1].i < to_send THEN "s1" ELSE "s2"
    <3>1. StillSends /\ SentS1 = frames[p][1].i
      BY <2>1, <2>6 DEF StillSends, SentS1
    <3>2. /\ pending' \in [S!Processes -> [s1 : Nat, s2 : Nat]]
          /\ pending'[p] = pending[p]
          /\ S!Ended("catcher") => pending' = pending
          /\ ~S!Ended("catcher") =>
               /\ sig = "s1" => /\ pending'["catcher"].s2 = pending["catcher"].s2
                                /\ pending'["catcher"].s1 \in {1, pending["catcher"].s1 + 1}
               /\ sig = "s2" => /\ pending'["catcher"].s1 = pending["catcher"].s1
                                /\ pending'["catcher"].s2 \in {1, pending["catcher"].s2 + 1}
      <4>1. sig \in {"s1", "s2"} /\ S!Sends("catcher", sig)
        BY <2>6
      <4> HIDE DEF sig
      <4> QED
        BY <1>1, <4>1, SignalsSends
    <3>3. BackSum' <= BackSum
      <4>1. pending'[p] = pending[p] /\ received'[p] = received[p] /\ Uncounted(p)' = Uncounted(p)
        BY <2>1, <2>3, <3>2
      <4>2. BackSum' = BackSum
        BY <4>1 DEF BackSum
      <4> QED
        BY <1>3, <4>2 DEF BackSum
    <3>4. pending["catcher"].s2 = 0
      BY <1>2, <3>1 DEF OneS2
    <3>5. CASE frames[p][1].i < to_send
      <4>1. StillSends' /\ SentS1' = SentS1 + 1
        BY <1>3, <2>3, <2>4, <3>1, <3>5 DEF StillSends, SentS1
      <4>2. /\ pending'["catcher"].s2 = pending["catcher"].s2
            /\ pending'["catcher"].s1 <= pending["catcher"].s1 + 1
        BY <1>3, <3>2, <3>5
      <4>3. pending'["catcher"].s1 + SentS1 <= pending["catcher"].s1 + SentS1'
        BY <1>1, <1>3, <3>2, <4>1, <4>2
      <4> QED
        BY <1>3, <2>1, <2>3, <3>1, <3>2, <3>3, <4>1, <4>2, <4>3, SignalsSenderEffect
    <3>6. CASE ~(frames[p][1].i < to_send)
      <4>1. ~StillSends' /\ SentS1' = SentS1
        <5>1. frames[p][1].i = to_send
          BY <1>3, <2>4, <2>6, <3>6
        <5>2. ~(to_send + 1 <= to_send)
          BY <1>3
        <5>3. ~StillSends'
          BY <2>4, <5>1, <5>2 DEF StillSends
        <5> QED
          BY <3>1, <5>1, <5>3 DEF SentS1
      <4>2. /\ pending'["catcher"].s2 <= 1
            /\ pending'["catcher"].s1 = pending["catcher"].s1
        BY <1>3, <3>2, <3>4, <3>6
      <4>3. pending'["catcher"].s1 + SentS1 <= pending["catcher"].s1 + SentS1'
        BY <1>3, <4>1, <4>2
      <4> QED
        BY <1>3, <2>1, <2>3, <3>1, <3>2, <3>3, <4>1, <4>2, <4>3, SignalsSenderEffect
    <3> QED
      BY <3>5, <3>6
  <2> QED
    BY <1>6, <2>4, <2>5, <2>6 DEF S!SenderMain
<1>7. CASE S!Runs(p, "s1") /\ S!Counts(p)
  <2>1. S!Top(p).sig = "s1" /\ S!Runs(p, S!Top(p).sig) /\ ~S!Ended(p)
    BY <1>7 DEF S!Runs
  <2>2. S!Goes(p) \/ S!Suspends(p)
    BY <1>7 DEF S!Counts
  <2>3. /\ FramesTyped' /\ BlockedIn(p)' /\ ~S!Ended(p)'
        /\ frames'["catcher"] = frames["catcher"]
        /\ \A k \in 1 .. n - 1 : frames'[p][k] = frames[p][k]
        /\ Uncounted(p)' = IF S!Top(p).i = 0 THEN 0 ELSE Uncounted(p)
        /\ S!Top(p).i = 0 => Uncounted(p) = 1
    BY <1>1, <1>2, <2>1, <2>2, SignalsGoesA
  <2>4. frames'[p][1] = frames[p][1]
    <3>1. n \in Nat /\ n > 1
      <4>1. n \in Nat \ {0} /\ n # 1
        BY <1>4, <2>1
      <4> HIDE DEF n
      <4> QED
        BY <4>1
    <3>2. 1 \in 1 .. n - 1
      <4> HIDE DEF n
      <4> QED
        BY <3>1
    <3> QED
      BY <2>3, <3>2
  <2>5. (StillSends' <=> StillSends) /\ SentS1' = SentS1
    BY <2>1, <2>3, <2>4 DEF StillSends, SentS1
  <2>6. pending' = pending /\ received' \in [S!Processes -> Nat]
        /\ received'["catcher"] = received["catcher"]
        /\ received'[p] = IF S!Top(p).i = 0 THEN received[p] + 1 ELSE received[p]
    <3>1. CASE S!Top(p).i = 0 /\ pending' = pending /\ received' = [received EXCEPT ![p] = @ + 1]
      BY <1>1, <1>3, <3>1
    <3>2. CASE S!Top(p).i = 1 /\ pending' = pending /\ received' = received
      BY <1>1, <1>3, <3>2
    <3> QED
      BY <1>7, <3>1, <3>2 DEF S!Counts, S!Suspends
  <2>7. BackSum' <= BackSum
    BY <1>3, <2>3, <2>6 DEF BackSum
  <2> QED
    BY <1>3, <2>3, <2>5, <2>6, <2>7, SignalsSenderEffect
<1>8. CASE S!Runs(p, "s2") /\ S!Exits(p) /\ UNCHANGED <<pending, received>>
  <2>1. /\ FramesTyped' /\ BlockedIn(p)' /\ S!Ended(p)' /\ Uncounted(p)' = 0
        /\ frames'["catcher"] = frames["catcher"]
    BY <1>1, <1>8, SignalsExitsA
  <2>2. ~StillSends' /\ SentS1' = to_send
    BY <2>1 DEF StillSends, SentS1
  <2>3. BackSum' <= BackSum
    BY <1>3, <1>8, <2>1 DEF BackSum
  <2>4. pending'["catcher"].s1 + SentS1 <= pending["catcher"].s1 + SentS1'
    BY <1>3, <1>8, <2>2
  <2> QED
    BY <1>3, <1>8, <2>1, <2>2, <2>3, <2>4, SignalsSenderEffect
<1> QED
  BY <1>5, <1>6, <1>7, <1>8 DEF S!SenderStep, S!SenderHandler

\* What a step of the catcher may do in program a.
LEMMA SignalsCatcherEffect ==
    ASSUME SigTypes, SignalsAInv, variant' = variant, rt' = rt,
           FramesTyped', BlockedIn("catcher")', frames'["sender"] = frames["sender"],
           pending' \in [S!Processes -> [s1 : Nat, s2 : Nat]],
           received' \in [S!Processes -> Nat],
           pending'["catcher"].s1 + received'["catcher"] + Uncounted("catcher")' <=
             pending["catcher"].s1 + received["catcher"] + Uncounted("catcher"),
           OneS2', BackCounted'
    PROVE  SigTypes' /\ SignalsAInv'
<1>1. SigTypes'
  BY DEF SigTypes
<1>2. /\ S!Processes = {"sender", "catcher"}
      /\ "catcher" \in S!Processes /\ "sender" \in S!Processes
  BY DEF S!Processes
<1>3. /\ BlockedIn("sender")' <=> BlockedIn("sender")
      /\ S!Ended("sender")' <=> S!Ended("sender")
  BY <1>2, SignalsKept
<1>4. Blocked'
  BY <1>2, <1>3 DEF SignalsAInv, Blocked
<1>5. SentS1' = SentS1 /\ SentS1 \in Nat
  BY <1>3, SignalsNumbers DEF SentS1, StillSends
<1>6. /\ pending["catcher"].s1 \in Nat /\ received["catcher"] \in Nat /\ Uncounted("catcher") \in {0, 1}
      /\ pending'["catcher"].s1 \in Nat /\ received'["catcher"] \in Nat
      /\ Uncounted("catcher")' \in {0, 1}
  BY <1>1, <1>2, SignalsNumbers DEF SigTypes, Uncounted
<1>7. SentCounted'
  BY <1>5, <1>6 DEF SignalsAInv, SentCounted
<1> QED
  BY <1>1, <1>4, <1>7 DEF SignalsAInv

LEMMA SignalsCatcherA ==
    ASSUME SigTypes, SignalsAInv, variant = "a", variant' = variant, rt' = rt, S!CatcherStep
    PROVE  SigTypes' /\ SignalsAInv'
<1> DEFINE p == "catcher"
<1>1. p \in S!Processes /\ "sender" \in S!Processes \ {p} /\ "sender" \in S!Processes
  BY DEF S!Processes
<1>2. /\ BlockedIn(p) /\ OneS2 /\ BackCounted
  BY <1>1 DEF SignalsAInv, Blocked
<1>3. /\ received[p] \in Nat /\ Uncounted(p) \in {0, 1} /\ BackSum \in Nat
      /\ pending[p].s1 \in Nat /\ pending[p].s2 \in Nat
      /\ received["sender"] \in Nat /\ Uncounted("sender") \in {0, 1}
      /\ pending["sender"].s1 \in Nat
      /\ received \in [S!Processes -> Nat] /\ pending \in [S!Processes -> [s1 : Nat, s2 : Nat]]
  BY <1>1, SignalsNumbers DEF SigTypes
<1>4. ~S!Ended(p)
  BY DEF S!CatcherStep, S!Deliver, S!CatcherMain, S!CatcherHandler, S!Runs
<1>5. PICK n \in Nat \ {0} : n = Len(frames[p])
  BY <1>1, <1>4, SignalsTop
<1>6. /\ S!Top(p) = frames[p][n] /\ (S!Top(p).sig = "main" <=> n = 1) /\ S!Top(p).i \in Nat
  BY <1>1, <1>4, <1>5, SignalsTop DEF Frames
<1>7. \A k \in 1 .. n : frames[p][k].i \in Nat
  <2> TAKE k \in 1 .. n
  <2>1. frames[p] \in Seq(Frames)
    BY <1>1 DEF SigTypes, FramesTyped
  <2>2. frames[p][k] \in Frames
    BY <1>5, <2>1, SeqElement
  <2> QED
    BY <2>2 DEF Frames
<1>8. /\ HasS2(p) <=> \E k \in 1 .. n : frames[p][k].sig = "s2"
      /\ pending[p].s2 <= 1
      /\ pending[p].s2 = 1 => ~HasS2(p)
      /\ \A k, l \in 1 .. n : frames[p][k].sig = "s2" /\ frames[p][l].sig = "s2" => k = l
      /\ StillSends => pending[p].s2 = 0 /\ ~HasS2(p)
  BY <1>2, <1>5 DEF OneS2, HasS2
<1>9. /\ ~HasS2(p) => BackSum = 0
      /\ \A k \in 1 .. n : frames[p][k].sig = "s2" =>
           BackSum <= frames[p][k].i /\ frames[p][k].i <= received[p]
  BY <1>2, <1>4, <1>5 DEF BackCounted
<1>10. ASSUME frames'["sender"] = frames["sender"]
       PROVE  /\ StillSends' <=> StillSends
              /\ Uncounted("sender")' = Uncounted("sender")
  BY <1>1, <1>10, SignalsKept DEF StillSends
<1>11. CASE S!Deliver(p)
  <2>1. /\ FramesTyped' /\ BlockedIn(p)' /\ ~S!Ended(p)'
        /\ frames'["sender"] = frames["sender"] /\ pending'["sender"] = pending["sender"]
        /\ Len(frames'[p]) = n + 1
        /\ \A k \in 1 .. n : frames'[p][k] = frames[p][k]
        /\ frames'[p][n + 1].i = 0
        /\ pending' \in [S!Processes -> [s1 : Nat, s2 : Nat]] /\ received' = received
    BY <1>1, <1>2, <1>5, <1>11, SignalsDeliversA
  <2>2. \/ /\ frames'[p][n + 1].sig = "s1"
           /\ pending'[p].s1 + 1 = pending[p].s1 /\ pending'[p].s2 = pending[p].s2
           /\ Uncounted(p) = 0 /\ Uncounted(p)' = 1
        \/ /\ frames'[p][n + 1].sig = "s2"
           /\ pending'[p].s1 = pending[p].s1 /\ pending'[p].s2 + 1 = pending[p].s2
           /\ Uncounted(p)' <= Uncounted(p)
    BY <1>1, <1>2, <1>5, <1>11, SignalsDeliversA
  <2>3. /\ pending'[p].s1 \in Nat /\ pending'[p].s2 \in Nat /\ Uncounted(p)' \in {0, 1}
    BY <1>1, <2>1 DEF Uncounted
  <2>4. pending'[p].s1 + received'[p] + Uncounted(p)' <= pending[p].s1 + received[p] + Uncounted(p)
    BY <1>3, <2>1, <2>2, <2>3
  <2>5. BackSum' = BackSum /\ (StillSends' <=> StillSends)
    BY <1>10, <2>1 DEF BackSum
  <2>6. \A k \in 1 .. n + 1 : k = n + 1 \/ k \in 1 .. n
    OBVIOUS
  <2>7. n + 1 \in 1 .. n + 1
    OBVIOUS
  <2>8. HasS2(p)' <=> \E k \in 1 .. n + 1 : frames'[p][k].sig = "s2"
    BY <2>1 DEF HasS2
  <2>9. \A k \in 1 .. n : k \in 1 .. n + 1
    OBVIOUS
  <2>10. HasS2(p)' <=> HasS2(p) \/ frames'[p][n + 1].sig = "s2"
    BY <1>8, <2>1, <2>6, <2>7, <2>8, <2>9
  <2>11. frames'[p][n + 1].sig = "s2" => ~HasS2(p) /\ pending[p].s2 = 1 /\ pending'[p].s2 = 0
    BY <1>3, <1>8, <2>2, <2>3
  <2>12. \A k, l \in 1 .. n + 1 :
           frames'[p][k].sig = "s2" /\ frames'[p][l].sig = "s2" => k = l
    <3> TAKE k, l \in 1 .. n + 1
    <3>1. CASE frames'[p][n + 1].sig = "s2"
      BY <1>8, <2>1, <2>6, <2>11, <3>1
    <3>2. CASE frames'[p][n + 1].sig # "s2"
      BY <1>8, <2>1, <2>6, <3>2
    <3> QED
      BY <3>1, <3>2
  <2>13. OneS2'
    <3>1. /\ pending'[p].s2 <= 1 /\ (pending'[p].s2 = 1 => ~HasS2(p)')
          /\ StillSends' => pending'[p].s2 = 0 /\ ~HasS2(p)'
      BY <1>3, <1>8, <2>2, <2>3, <2>5, <2>10, <2>11
    <3> QED
      BY <2>1, <2>12, <3>1 DEF OneS2
  <2>14. BackCounted'
    <3>1. ~HasS2(p)' => BackSum' = 0
      BY <1>9, <2>5, <2>10
    <3>2. \A k \in 1 .. n + 1 : frames'[p][k].sig = "s2" =>
            BackSum' <= frames'[p][k].i /\ frames'[p][k].i <= received'[p]
      <4> TAKE k \in 1 .. n + 1
      <4>1. CASE k = n + 1
        BY <1>3, <1>9, <2>1, <2>5, <2>11, <4>1
      <4>2. CASE k \in 1 .. n
        BY <1>9, <2>1, <2>5, <4>2
      <4> QED
        BY <2>6, <4>1, <4>2
    <3> QED
      BY <2>1, <3>1, <3>2 DEF BackCounted
  <2> QED
    BY <1>3, <2>1, <2>4, <2>13, <2>14, SignalsCatcherEffect
<1>12. ASSUME S!Runs(p, S!Top(p).sig), S!Goes(p) \/ S!Suspends(p),
              S!Top(p).sig = "s2" => S!Goes(p),
              pending' \in [S!Processes -> [s1 : Nat, s2 : Nat]], pending'[p] = pending[p],
              received' \in [S!Processes -> Nat], received'["sender"] = received["sender"],
              received'[p] = (IF S!Top(p).sig = "s1" /\ S!Top(p).i = 0 THEN received[p] + 1
                                                                     ELSE received[p]),
              pending'["sender"].s1 <= pending["sender"].s1 + (IF S!Top(p).sig = "s2" THEN 1 ELSE 0),
              S!Top(p).sig = "s2" => S!Top(p).i < received[p]
       PROVE  SigTypes' /\ SignalsAInv'
  <2>1. /\ FramesTyped' /\ BlockedIn(p)' /\ ~S!Ended(p)'
        /\ frames'["sender"] = frames["sender"]
        /\ Len(frames'[p]) = n
        /\ \A k \in 1 .. n - 1 : frames'[p][k] = frames[p][k]
        /\ frames'[p][n].sig = S!Top(p).sig /\ frames'[p][n].i = S!Top(p).i + 1
        /\ Uncounted(p)' = IF S!Top(p).sig = "s1" /\ S!Top(p).i = 0 THEN 0 ELSE Uncounted(p)
        /\ S!Top(p).sig = "s1" /\ S!Top(p).i = 0 => Uncounted(p) = 1
    BY <1>1, <1>2, <1>5, <1>12, SignalsGoesA
  <2>2. pending'[p].s1 + received'[p] + Uncounted(p)' <= pending[p].s1 + received[p] + Uncounted(p)
    BY <1>3, <1>12, <2>1
  <2>3. pending'["sender"].s1 \in Nat /\ received'[p] \in Nat /\ received[p] <= received'[p]
    BY <1>1, <1>3, <1>12
  <2>4. /\ (StillSends' <=> StillSends)
        /\ BackSum' <= BackSum + (IF S!Top(p).sig = "s2" THEN 1 ELSE 0) /\ BackSum' \in Nat
    <3>1. (StillSends' <=> StillSends) /\ Uncounted("sender")' = Uncounted("sender")
      BY <1>10, <2>1
    <3>2. BackSum' = pending'["sender"].s1 + received["sender"] + Uncounted("sender")
      BY <1>12, <3>1 DEF BackSum
    <3>3. BackSum = pending["sender"].s1 + received["sender"] + Uncounted("sender")
      BY DEF BackSum
    <3>4. CASE S!Top(p).sig = "s2"
      BY <1>3, <1>12, <2>3, <3>1, <3>2, <3>3, <3>4
    <3>5. CASE S!Top(p).sig # "s2"
      BY <1>3, <1>12, <2>3, <3>1, <3>2, <3>3, <3>5
    <3> QED
      BY <3>4, <3>5
  <2>5. \A k \in 1 .. n : k = n \/ k \in 1 .. n - 1
    OBVIOUS
  <2>6. \A k \in 1 .. n : frames'[p][k].sig = frames[p][k].sig
    BY <1>6, <2>1, <2>5
  <2>7. HasS2(p)' <=> HasS2(p)
    BY <1>8, <2>1, <2>6 DEF HasS2
  <2>8. OneS2'
    BY <1>8, <1>12, <2>1, <2>4, <2>6, <2>7 DEF OneS2
  <2>9. n \in 1 .. n
    OBVIOUS
  <2>10. S!Top(p).sig = "s2" => HasS2(p) /\ BackSum <= S!Top(p).i
    BY <1>6, <1>8, <1>9, <2>9
  <2>11. BackCounted'
    <3>1. ~HasS2(p)' => BackSum' = 0
      BY <1>3, <1>9, <2>4, <2>7, <2>10
    <3>2. \A k \in 1 .. n : frames'[p][k].sig = "s2" =>
            BackSum' <= frames'[p][k].i /\ frames'[p][k].i <= received'[p]
      <4> SUFFICES ASSUME NEW k \in 1 .. n, frames[p][k].sig = "s2"
                   PROVE  BackSum' <= frames'[p][k].i /\ frames'[p][k].i <= received'[p]
        BY <2>6
      <4>1. CASE k = n
        <5>1. S!Top(p).sig = "s2" /\ S!Top(p).i < received[p] /\ BackSum <= S!Top(p).i
          BY <1>6, <1>12, <2>10, <4>1
        <5>2. received'[p] = received[p] /\ BackSum' <= BackSum + 1 /\ frames'[p][k].i = S!Top(p).i + 1
          BY <1>12, <2>1, <2>4, <4>1, <5>1
        <5> QED
          BY <1>3, <1>6, <2>4, <5>1, <5>2
      <4>2. CASE k # n
        <5>1. S!Top(p).sig # "s2"
          BY <1>6, <1>8, <2>9, <4>2
        <5>2. frames'[p][k] = frames[p][k]
          BY <2>1, <2>5, <4>2
        <5>3. BackSum' <= BackSum
          BY <1>3, <2>4, <5>1
        <5> QED
          BY <1>3, <1>7, <1>9, <2>3, <2>4, <5>2, <5>3
      <4> QED
        BY <4>1, <4>2
    <3> QED
      BY <2>1, <3>1, <3>2 DEF BackCounted
  <2> QED
    BY <1>12, <2>1, <2>2, <2>8, <2>11, SignalsCatcherEffect
<1>13. CASE S!CatcherMain
  <2>1. S!Top(p).sig = "main" /\ S!Runs(p, S!Top(p).sig) /\ S!Suspends(p)
    BY <1>13 DEF S!CatcherMain, S!Runs
  <2>2. pending' = pending /\ received' = received
    BY <2>1 DEF S!Suspends
  <2> QED
    BY <1>3, <1>12, <2>1, <2>2
<1>14. CASE S!Runs(p, "s1") /\ S!Counts(p)
  <2>1. S!Top(p).sig = "s1" /\ S!Runs(p, S!Top(p).sig)
    BY <1>14 DEF S!Runs
  <2>2. /\ S!Goes(p) \/ S!Suspends(p)
        /\ received' = IF S!Top(p).i = 0 THEN [received EXCEPT ![p] = @ + 1] ELSE received
    BY <1>14 DEF S!Counts, S!Suspends
  <2>3. pending' = pending
    BY <1>14 DEF S!Counts, S!Suspends
  <2>4. /\ received' \in [S!Processes -> Nat] /\ received'["sender"] = received["sender"]
        /\ received'[p] = IF S!Top(p).i = 0 THEN received[p] + 1 ELSE received[p]
    BY <1>1, <1>3, <2>2
  <2> QED
    BY <1>3, <1>12, <2>1, <2>2, <2>3, <2>4
<1>15. CASE S!Runs(p, "s2") /\ S!SendBack
  <2>1. S!Top(p).sig = "s2" /\ S!Runs(p, S!Top(p).sig) /\ received' = received
    BY <1>15 DEF S!Runs, S!SendBack
  <2>2. CASE S!Top(p).i < received[p] /\ S!Sends("sender", "s1") /\ S!Goes(p)
    <3>1. /\ pending' \in [S!Processes -> [s1 : Nat, s2 : Nat]] /\ pending'[p] = pending[p]
          /\ S!Ended("sender") => pending' = pending
          /\ ~S!Ended("sender") => pending'["sender"].s1 \in {1, pending["sender"].s1 + 1}
      BY <1>1, <2>2, SignalsSends
    <3>2. pending'["sender"].s1 <= pending["sender"].s1 + 1
      BY <1>3, <3>1
    <3> QED
      BY <1>3, <1>12, <2>1, <2>2, <3>1, <3>2
  <2>3. CASE S!Sends("sender", "s2") /\ S!Exits(p)
    <3>1. /\ pending' \in [S!Processes -> [s1 : Nat, s2 : Nat]] /\ pending'[p] = pending[p]
          /\ S!Ended("sender") => pending' = pending
          /\ ~S!Ended("sender") => pending'["sender"].s1 = pending["sender"].s1
      BY <1>1, <2>3, SignalsSends
    <3>2. /\ FramesTyped' /\ BlockedIn(p)' /\ S!Ended(p)' /\ ~HasS2(p)'
          /\ frames'["sender"] = frames["sender"] /\ Uncounted(p)' = 0 /\ Len(frames'[p]) = 0
      BY <1>1, <2>3, SignalsExitsA
    <3>3. BackSum' = BackSum /\ (StillSends' <=> StillSends)
      BY <1>10, <2>1, <3>1, <3>2 DEF BackSum
    <3>4. BackSum <= received[p]
      <4>1. n \in 1 .. n
        OBVIOUS
      <4>2. BackSum <= S!Top(p).i /\ S!Top(p).i <= received[p]
        BY <1>6, <1>9, <2>1, <4>1
      <4> QED
        BY <1>3, <1>6, <4>2
    <3>5. 1 .. 0 = {}
      OBVIOUS
    <3>6. OneS2'
      BY <1>8, <3>1, <3>2, <3>3, <3>5 DEF OneS2
    <3>7. BackCounted'
      BY <2>1, <3>2, <3>3, <3>4, <3>5 DEF BackCounted
    <3>8. pending'[p].s1 + received'[p] + Uncounted(p)' <=
            pending[p].s1 + received[p] + Uncounted(p)
      <4>1. pending'[p].s1 = pending[p].s1 /\ received'[p] = received[p] /\ Uncounted(p)' = 0
        BY <2>1, <3>1, <3>2
      <4> HIDE DEF p
      <4> QED
        BY <1>3, <4>1
    <3> QED
      BY <1>3, <2>1, <3>1, <3>2, <3>6, <3>7, <3>8, SignalsCatcherEffect
  <2> QED
    BY <1>15, <2>2, <2>3 DEF S!SendBack
<1> QED
  BY <1>11, <1>13, <1>14, <1>15 DEF S!CatcherStep, S!CatcherHandler

LEMMA SignalsParity ==
    ASSUME NEW i \in Nat, NEW t \in Nat
    PROVE  /\ (i + 1) \div 2 \in Nat
           /\ i % 2 = 1 => (i + 1 + 1) \div 2 = (i + 1) \div 2 /\ (i <= 2 * t => i + 1 <= 2 * t)
           /\ i % 2 # 1 => i % 2 = 0 /\ (i + 1 + 1) \div 2 = ((i + 1) \div 2) + 1 /\ (i + 1) % 2 # 0
           /\ (2 * t + 1) \div 2 = t /\ 2 * t \in Nat
<1>1. /\ (i + 1) \div 2 \in Nat /\ 2 * t \in Nat
  OBVIOUS
<1>2. i % 2 = 1 => (i + 1 + 1) \div 2 = (i + 1) \div 2 /\ (i <= 2 * t => i + 1 <= 2 * t)
  OBVIOUS
<1>3. i % 2 # 1 => i % 2 = 0 /\ (i + 1 + 1) \div 2 = ((i + 1) \div 2) + 1 /\ (i + 1) % 2 # 0
  OBVIOUS
<1>4. (2 * t + 1) \div 2 = t
  OBVIOUS
<1> QED
  BY <1>1, <1>2, <1>3, <1>4

LEMMA SignalsNumbersB ==
    ASSUME SigTypes
    PROVE  /\ There \in Nat /\ (FreshTop("catcher") => There > 0) /\ pending["catcher"].s1 <= There
           /\ ~S!Ended("sender") => /\ frames["sender"][1].i \in Nat /\ Back \in Nat
                                    /\ Len(frames["sender"]) \in Nat \ {0}
           /\ Sending => Acked \in Nat
           /\ to_send \in Nat
           /\ \A p \in S!Processes : /\ received[p] \in Nat
                                     /\ pending[p].s1 \in Nat /\ pending[p].s2 \in Nat
<1>1. /\ "sender" \in S!Processes /\ "catcher" \in S!Processes
  BY DEF S!Processes
<1>2. \A p \in S!Processes : received[p] \in Nat /\ pending[p].s1 \in Nat /\ pending[p].s2 \in Nat
  BY DEF SigTypes
<1>3. There \in Nat /\ (FreshTop("catcher") => There > 0) /\ pending["catcher"].s1 <= There
  BY <1>1, <1>2 DEF There
<1>4. to_send \in Nat
  BY SignalsAssumption DEF S!SignalsParameters
<1>5. ~S!Ended("sender") => frames["sender"][1].i \in Nat /\ Len(frames["sender"]) \in Nat \ {0}
  <2>1. ~S!Ended("sender") => frames["sender"][1] \in Frames
    BY <1>1, SignalsTop
  <2> QED
    BY <1>1, <2>1, SignalsTop DEF Frames
<1>6. ~S!Ended("sender") => Back \in Nat
  BY <1>1, <1>2, <1>5 DEF Back
<1>7. Sending => Acked \in Nat
  BY <1>5, SignalsParity DEF Sending, Acked
<1> QED
  BY <1>2, <1>3, <1>4, <1>5, <1>6, <1>7

LEMMA SignalsSenderB ==
    ASSUME SigTypes, SignalsBInv, variant = "b", variant' = variant, rt' = rt, S!SenderStep
    PROVE  SigTypes' /\ SignalsBInv'
<1> DEFINE p == "sender"
<1>1. /\ p \in S!Processes /\ "catcher" \in S!Processes \ {p} /\ "catcher" \in S!Processes
      /\ S!Processes = {p, "catcher"}
  BY DEF S!Processes
<1>2. ~S!Ended(p)
  BY DEF S!SenderStep, S!Deliver, S!SenderMainAck, S!SenderHandlerAck, S!Runs
<1>3. PICK n \in Nat \ {0} : n = Len(frames[p])
  BY <1>1, <1>2, SignalsTop
<1>4. PICK i \in Nat : i = frames[p][1].i
  BY <1>2, SignalsNumbersB
<1>5. /\ S!Top(p) = frames[p][n] /\ (S!Top(p).sig = "main" <=> n = 1)
      /\ frames[p] \in Seq(Frames) /\ S!Top(p) \in Frames
  BY <1>1, <1>2, <1>3, SignalsTop
<1>6. /\ There \in Nat /\ pending["catcher"].s1 <= There /\ to_send \in Nat
      /\ received["catcher"] \in Nat /\ received[p] \in Nat
      /\ pending["catcher"].s1 \in Nat /\ pending[p].s1 \in Nat
      /\ pending["catcher"].s2 \in Nat /\ pending[p].s2 \in Nat
      /\ received \in [S!Processes -> Nat] /\ pending \in [S!Processes -> [s1 : Nat, s2 : Nat]]
  BY <1>1, SignalsNumbersB DEF SigTypes
<1>7. (Sending <=> i <= 2 * to_send) /\ Acked = (i + 1) \div 2 /\ Back = pending[p].s1 + (n - 1)
  BY <1>2, <1>3, <1>4 DEF Sending, Acked, Back
<1>8. Sending => /\ There + Back <= 1
                 /\ received["catcher"] + There = Acked
                 /\ received[p] + (There + Back) = Acked
                 /\ i % 2 = 0 /\ ~frames[p][1].asleep => There + Back = 0
                 /\ ~S!Ended("catcher")
                 /\ pending[p].s2 = 0 /\ ~HasS2(p) /\ pending["catcher"].s2 = 0 /\ ~HasS2("catcher")
  BY <1>1, <1>4 DEF SignalsBInv, OneUnderWay, NoS2Yet
<1>9. ~Sending => /\ received[p] = to_send /\ received["catcher"] = to_send
                  /\ pending[p].s1 = 0 /\ pending["catcher"].s1 = 0
                  /\ \A k \in 1 .. n : frames[p][k].sig # "s1"
                  /\ ~FreshTop("catcher")
  BY <1>1, <1>3 DEF SignalsBInv, AllCounted
\* What follows from the frames of the catcher, which no step of the sender changes.
<1>10. ASSUME FramesTyped', frames'["catcher"] = frames["catcher"],
              pending' \in [S!Processes -> [s1 : Nat, s2 : Nat]], received' \in [S!Processes -> Nat]
       PROVE  /\ SigTypes' /\ OnlyTopFresh'
              /\ There' = pending'["catcher"].s1 + (There - pending["catcher"].s1)
              /\ (HasS2("catcher")' <=> HasS2("catcher"))
              /\ (S!Ended("catcher")' <=> S!Ended("catcher"))
              /\ (FreshTop("catcher")' <=> FreshTop("catcher"))
              /\ (~S!Ended("catcher") /\ ~HasS2("catcher") /\ Sending => 
                    \A k \in 1 .. Len(frames'["catcher"]) :
                      frames'["catcher"][k].i > (IF k = 1 THEN 0 ELSE 1) => frames'["catcher"][k].asleep)
  <2>1. SigTypes'
    BY <1>10 DEF SigTypes
  <2>2. OnlyTopFresh'
    BY <1>10 DEF SignalsBInv, OnlyTopFresh, Fresh
  <2>3. /\ (HasS2("catcher")' <=> HasS2("catcher"))
        /\ (S!Ended("catcher")' <=> S!Ended("catcher"))
        /\ (FreshTop("catcher")' <=> FreshTop("catcher"))
    BY <1>1, <1>10, SignalsKept
  <2>4. There' = pending'["catcher"].s1 + (There - pending["catcher"].s1)
    <3>1. pending'["catcher"].s1 \in Nat
      BY <1>1, <1>10
    <3> QED
      BY <1>6, <2>3, <3>1 DEF There
  <2>5. Sending => \A k \in 1 .. Len(frames'["catcher"]) :
                      frames'["catcher"][k].i > (IF k = 1 THEN 0 ELSE 1) => frames'["catcher"][k].asleep
    BY <1>10 DEF SignalsBInv, NoS2Yet
  <2> QED
    BY <2>1, <2>2, <2>3, <2>4, <2>5
\* The sender still sends.
<1>11. ASSUME Sending, frames'["catcher"] = frames["catcher"], SigTypes', OnlyTopFresh',
              There' + Back' <= 1,
              received'["catcher"] + There' = Acked',
              received'[p] + (There' + Back') = Acked',
              frames'[p][1].i % 2 = 0 /\ ~frames'[p][1].asleep => There' + Back' = 0,
              pending'[p].s2 = 0, ~HasS2(p)', pending'["catcher"].s2 = 0,
              Sending'
       PROVE  SigTypes' /\ SignalsBInv'
  <2>1. OneUnderWay'
    BY <1>11 DEF OneUnderWay
  <2>2. NoS2Yet'
    <3>1. ~S!Ended("catcher")' /\ ~HasS2("catcher")'
      BY <1>1, <1>8, <1>11, SignalsKept
    <3>2. \A k \in 1 .. Len(frames'["catcher"]) :
            frames'["catcher"][k].i > (IF k = 1 THEN 0 ELSE 1) => frames'["catcher"][k].asleep
      BY <1>11 DEF SignalsBInv, NoS2Yet
    <3> QED
      BY <1>1, <1>11, <3>1, <3>2 DEF NoS2Yet
  <2>3. AllCounted'
    BY <1>11 DEF AllCounted
  <2> QED
    BY <1>11, <2>1, <2>2, <2>3 DEF SignalsBInv
\* The sender has sent all s1.
<1>12. ASSUME ~Sending', frames'["catcher"] = frames["catcher"], SigTypes', OnlyTopFresh',
              received'[p] = to_send, received'["catcher"] = to_send,
              pending'[p].s1 = 0, pending'["catcher"].s1 = 0,
              \A k \in 1 .. Len(frames'[p]) : frames'[p][k].sig # "s1",
              ~FreshTop("catcher")
       PROVE  SigTypes' /\ SignalsBInv'
  <2>1. ~FreshTop("catcher")'
    BY <1>1, <1>12, SignalsKept
  <2>2. AllCounted'
    BY <1>1, <1>12, <2>1 DEF AllCounted
  <2>3. OneUnderWay' /\ NoS2Yet'
    BY <1>12 DEF OneUnderWay, NoS2Yet
  <2> QED
    BY <1>12, <2>2, <2>3 DEF SignalsBInv
<1>13. CASE S!Deliver(p)
  <2>1. /\ received' = received
        /\ pending' \in [S!Processes -> [s1 : Nat, s2 : Nat]]
        /\ pending'["catcher"] = pending["catcher"]
    BY <1>1, <1>13, SignalsDelivers
  <2>2. PICK f \in Frames :
          /\ f.sig \in {"s1", "s2"}
          /\ frames' = [frames EXCEPT ![p] = Append(@, f)]
          /\ f.sig = "s1" => /\ pending[p].s1 > 0 /\ pending'[p].s1 = pending[p].s1 - 1
                             /\ pending'[p].s2 = pending[p].s2
          /\ f.sig = "s2" => /\ pending[p].s2 > 0 /\ pending'[p].s2 = pending[p].s2 - 1
                             /\ pending'[p].s1 = pending[p].s1
    BY <1>1, <1>13, SignalsDelivers
  <2>3. /\ FramesTyped' /\ frames'["catcher"] = frames["catcher"]
        /\ Len(frames'[p]) = n + 1 /\ frames'[p][n + 1] = f
        /\ \A k \in 1 .. n : frames'[p][k] = frames[p][k]
        /\ frames'[p] # <<>>
    <3>1. f.sig # "main"
      BY <2>2
    <3> QED
      <4>1. /\ FramesTyped' /\ frames'["catcher"] = frames["catcher"]
            /\ Len(frames'[p]) = Len(frames[p]) + 1 /\ frames'[p][Len(frames[p]) + 1] = f
            /\ \A k \in 1 .. Len(frames[p]) : frames'[p][k] = frames[p][k]
            /\ frames'[p] # <<>>
        BY <1>1, <1>2, <2>2, <3>1, SignalsPushes
      <4> QED
        BY <1>3, <4>1
  <2>4. /\ SigTypes' /\ OnlyTopFresh' /\ There' = There
    BY <1>6, <1>10, <2>1, <2>3
  <2>5. frames'[p][1] = frames[p][1] /\ ~S!Ended(p)'
    <3>1. 1 \in 1 .. n
      OBVIOUS
    <3> QED
      BY <2>3, <3>1 DEF S!Ended
  <2>6. (Sending' <=> Sending) /\ Acked' = Acked
    BY <1>2, <2>5 DEF Sending, Acked
  <2>7. \A k \in 1 .. n + 1 : k = n + 1 \/ k \in 1 .. n
    OBVIOUS
  <2>8. CASE Sending
    <3>1. f.sig = "s1"
      BY <1>8, <2>2, <2>8
    <3>2. Back' = Back
      <4>1. Back' = pending'[p].s1 + (n + 1 - 1)
        BY <2>3 DEF Back
      <4>2. pending'[p].s1 = pending[p].s1 - 1
        BY <2>2, <3>1
      <4> HIDE DEF p
      <4> QED
        BY <1>6, <1>7, <4>1, <4>2
    <3>3. ~HasS2(p)'
      <4>1. \A k \in 1 .. n : frames[p][k].sig # "s2"
        BY <1>3, <1>8, <2>8 DEF HasS2
      <4> QED
        BY <2>3, <2>7, <3>1, <4>1 DEF HasS2
    <3> QED
      BY <1>4, <1>8, <1>11, <2>1, <2>2, <2>3, <2>4, <2>5, <2>6, <2>8, <3>1, <3>2, <3>3
  <2>9. CASE ~Sending
    <3>1. f.sig = "s2"
      BY <1>6, <1>9, <2>2, <2>9
    <3>2. \A k \in 1 .. Len(frames'[p]) : frames'[p][k].sig # "s1"
      BY <1>9, <2>3, <2>7, <2>9, <3>1
    <3> QED
      BY <1>9, <1>12, <2>1, <2>2, <2>3, <2>4, <2>6, <2>9, <3>1, <3>2
  <2> QED
    BY <2>8, <2>9
<1>14. CASE S!SenderMainAck
  <2>1. /\ S!Runs(p, "main") /\ received' = received /\ S!Top(p).sig = "main" /\ ~S!Top(p).asleep
    BY <1>14 DEF S!SenderMainAck, S!Runs
  <2>2. n = 1 /\ S!Top(p) = frames[p][1] /\ S!Top(p).i = i
    BY <1>4, <1>5, <2>1
  <2>3. S!Goes(p) \/ S!Suspends(p)
    BY <1>14 DEF S!SenderMainAck
  <2>4. PICK f \in Frames :
          /\ f.sig = S!Top(p).sig /\ f.i = S!Top(p).i + 1
          /\ S!Suspends(p) => f.asleep
          /\ frames' = [frames EXCEPT ![p] = [frames[p] EXCEPT ![Len(frames[p])] = f]]
    BY <1>1, <1>2, <2>3, SignalsGoes
  <2>5. /\ FramesTyped' /\ frames'["catcher"] = frames["catcher"]
        /\ Len(frames'[p]) = 1 /\ frames'[p][1] = f /\ frames'[p] # <<>>
    <3>1. /\ FramesTyped' /\ frames'["catcher"] = frames["catcher"] /\ frames'[p] # <<>>
          /\ Len(frames'[p]) = Len(frames[p]) /\ frames'[p][Len(frames[p])] = f
      BY <1>1, <1>2, <2>4, SignalsAlters
    <3> QED
      BY <1>3, <2>2, <3>1
  <2>6. ~S!Ended(p)' /\ (Sending' <=> i + 1 <= 2 * to_send) /\ Acked' = (i + 1 + 1) \div 2
        /\ Back' = pending'[p].s1 + (1 - 1)
    BY <2>2, <2>4, <2>5 DEF Sending, Acked, Back, S!Ended
  <2>7. \A k \in 1 .. 1 : k = 1
    OBVIOUS
  <2>8. frames'[p][1].sig = "main" /\ ~HasS2(p)'
        /\ \A k \in 1 .. Len(frames'[p]) : frames'[p][k].sig # "s1"
    BY <2>1, <2>4, <2>5, <2>7 DEF HasS2
  <2>9. CASE i % 2 = 1 /\ S!Suspends(p)
    <3>1. pending' = pending
      BY <2>9 DEF S!Suspends
    <3>2. SigTypes' /\ OnlyTopFresh' /\ There' = There
      BY <1>6, <1>10, <2>1, <2>5, <3>1
    <3>3. Back' = Back
      BY <1>7, <2>2, <2>6, <3>1
    <3>4. Acked' = Acked /\ (i <= 2 * to_send => i + 1 <= 2 * to_send)
      BY <1>6, <1>7, <2>6, <2>9, SignalsParity
    <3>5. CASE Sending
      <4>1. Sending'
        BY <1>7, <2>6, <3>4, <3>5
      <4>2. f.asleep
        BY <2>4, <2>9
      <4> QED
        BY <1>8, <1>11, <2>1, <2>5, <2>8, <3>1, <3>2, <3>3, <3>4, <3>5, <4>1, <4>2
    <3>6. CASE ~Sending
      <4>1. ~Sending'
        BY <1>6, <1>7, <2>6, <3>6
      <4> QED
        BY <1>9, <1>12, <2>1, <2>5, <2>8, <3>1, <3>2, <3>6, <4>1
    <3> QED
      BY <3>5, <3>6
  <2>10. CASE /\ i % 2 # 1 /\ i <= 2 * to_send /\ S!Goes(p)
              /\ S!Sends("catcher", IF i < 2 * to_send THEN "s1" ELSE "s2")
    <3> DEFINE sig == IF i < 2 * to_send THEN "s1" ELSE "s2"
    <3>1. /\ Sending /\ i % 2 = 0 /\ Acked' = Acked + 1 /\ (i + 1) % 2 # 0
          /\ (2 * to_send + 1) \div 2 = to_send /\ 2 * to_send \in Nat /\ Acked \in Nat
      BY <1>6, <1>7, <2>6, <2>10, SignalsParity
    <3>2. There + Back = 0 /\ ~S!Ended("catcher")
      BY <1>8, <2>1, <2>2, <3>1
    <3>3. There = 0 /\ Back = 0 /\ pending["catcher"].s1 = 0 /\ pending[p].s1 = 0
      <4>1. Back = pending[p].s1
        BY <1>6, <1>7, <2>2
      <4>2. /\ There \in Nat /\ pending["catcher"].s1 \in Nat /\ pending[p].s1 \in Nat
            /\ pending["catcher"].s1 <= There /\ There + Back = 0
        BY <1>6, <3>2
      <4>3. \A a, b, c \in Nat : a + b = 0 /\ c <= a => a = 0 /\ b = 0 /\ c = 0
        OBVIOUS
      <4> QED
        BY <4>1, <4>2, <4>3
    <3>4. ~FreshTop("catcher")
      BY <3>3, SignalsNumbersB
    <3>5. /\ pending' \in [S!Processes -> [s1 : Nat, s2 : Nat]] /\ pending'[p] = pending[p]
          /\ sig = "s1" => /\ pending'["catcher"].s2 = pending["catcher"].s2
                           /\ pending'["catcher"].s1 \in {1, pending["catcher"].s1 + 1}
          /\ sig = "s2" => /\ pending'["catcher"].s1 = pending["catcher"].s1
      <4>1. sig \in {"s1", "s2"} /\ S!Sends("catcher", sig)
        BY <2>10
      <4> HIDE DEF sig
      <4> QED
        BY <1>1, <3>2, <4>1, SignalsSends
    <3>6. SigTypes' /\ OnlyTopFresh' /\ There' = pending'["catcher"].s1
      BY <1>6, <1>10, <2>1, <2>5, <3>3, <3>5
    <3>7. Back' = 0
      BY <2>6, <3>3, <3>5
    <3>8. CASE i < 2 * to_send
      <4>1. pending'["catcher"].s1 = 1 /\ pending'["catcher"].s2 = 0 /\ pending'[p].s2 = 0
        BY <1>8, <3>1, <3>3, <3>5, <3>8
      <4>2. Sending'
        BY <1>6, <2>6, <3>1, <3>8
      <4>3. received'["catcher"] + There' = Acked' /\ received'[p] + (There' + Back') = Acked'
            /\ There' + Back' <= 1
        BY <1>6, <1>8, <2>1, <3>1, <3>3, <3>6, <3>7, <4>1
      <4>4. frames'[p][1].i % 2 # 0
        BY <2>2, <2>4, <2>5, <3>1
      <4> QED
        BY <1>11, <2>5, <2>8, <3>1, <3>6, <4>1, <4>2, <4>3, <4>4
    <3>9. CASE ~(i < 2 * to_send)
      <4>1. i = 2 * to_send
        BY <2>10, <3>1, <3>9
      <4>2. ~Sending'
        BY <2>6, <3>1, <4>1
      <4>3. Acked = to_send
        BY <1>7, <3>1, <4>1
      <4>4. received'[p] = to_send /\ received'["catcher"] = to_send
        BY <1>6, <1>8, <2>1, <3>1, <3>3, <4>3
      <4> QED
        BY <1>12, <2>5, <2>8, <3>3, <3>4, <3>5, <3>6, <3>9, <4>2, <4>4
    <3> QED
      BY <3>8, <3>9
  <2> QED
    BY <1>14, <2>2, <2>9, <2>10 DEF S!SenderMainAck
<1>15. CASE /\ S!Runs(p, "s1") /\ S!Returns(p) /\ pending' = pending
            /\ received' = [received EXCEPT ![p] = @ + 1]
  <2>1. S!Top(p).sig = "s1" /\ S!Top(p).sig # "main"
    BY <1>15 DEF S!Runs
  <2>2. Sending
    <3>1. n \in 1 .. n
      OBVIOUS
    <3> QED
      BY <1>5, <1>9, <2>1, <3>1
  <2>3. n # 1
    BY <1>5, <2>1
  <2>4. There = 0 /\ Back = 1 /\ n = 2 /\ pending[p].s1 = 0
    BY <1>6, <1>7, <1>8, <2>2, <2>3
  <2>5. /\ FramesTyped' /\ frames'["catcher"] = frames["catcher"]
        /\ Len(frames'[p]) = 1 /\ frames'[p] # <<>>
        /\ frames'[p][1] = [frames[p][1] EXCEPT !.asleep = FALSE]
    <3>1. /\ FramesTyped' /\ frames'["catcher"] = frames["catcher"]
          /\ Len(frames'[p]) = n - 1 /\ frames'[p] # <<>>
          /\ frames'[p][n - 1] = [frames[p][n - 1] EXCEPT !.asleep = FALSE]
      BY <1>1, <1>2, <1>3, <1>15, <2>1, SignalsPops
    <3>2. n - 1 = 1
      BY <2>4
    <3> QED
      BY <3>1, <3>2
  <2>6. frames'[p][1].i = i /\ frames'[p][1].sig = frames[p][1].sig
    <3>1. frames[p][1] \in Frames
      BY <1>1, <1>2, SignalsTop
    <3> QED
      BY <1>4, <2>5, <3>1 DEF Frames
  <2>7. ~S!Ended(p)' /\ (Sending' <=> Sending) /\ Acked' = Acked
    BY <1>2, <1>4, <2>5, <2>6 DEF Sending, Acked, S!Ended
  <2>8. /\ received' \in [S!Processes -> Nat] /\ received'[p] = received[p] + 1
        /\ received'["catcher"] = received["catcher"]
    BY <1>1, <1>6, <1>15
  <2>9. SigTypes' /\ OnlyTopFresh' /\ There' = There
    BY <1>6, <1>10, <1>15, <2>5, <2>8
  <2>10. Back' = 0
    <3>1. Back' = pending[p].s1 + (1 - 1)
      BY <1>15, <2>5 DEF Back
    <3> QED
      BY <2>4, <3>1
  <2>11. ~HasS2(p)'
    <3>1. \A k \in 1 .. 1 : k = 1
      OBVIOUS
    <3>2. frames[p][1].sig = "main"
      BY <1>1, <1>3 DEF SigTypes, FramesTyped
    <3> QED
      BY <2>5, <2>6, <3>1, <3>2 DEF HasS2
  <2>12. /\ There' + Back' = 0 /\ received'["catcher"] + There' = Acked'
         /\ received'[p] + (There' + Back') = Acked'
    BY <1>6, <1>8, <2>2, <2>4, <2>7, <2>8, <2>9, <2>10
  <2>13. There' + Back' <= 1
    BY <2>12
  <2> QED
    BY <1>8, <1>11, <1>15, <2>2, <2>5, <2>7, <2>9, <2>11, <2>12, <2>13
<1>16. CASE S!Runs(p, "s2") /\ S!Exits(p) /\ UNCHANGED <<pending, received>>
  <2>1. FramesTyped' /\ frames'["catcher"] = frames["catcher"] /\ S!Ended(p)' /\ Len(frames'[p]) = 0
    BY <1>1, <1>16, SignalsExitsA
  <2>2. ~Sending
    <3>1. n \in 1 .. Len(frames[p])
      BY <1>3
    <3> QED
      BY <1>5, <1>8, <1>16, <3>1 DEF HasS2, S!Runs
  <2>3. ~Sending'
    BY <2>1 DEF Sending
  <2>4. SigTypes' /\ OnlyTopFresh'
    BY <1>6, <1>10, <1>16, <2>1
  <2>5. 1 .. 0 = {}
    OBVIOUS
  <2> QED
    BY <1>9, <1>12, <1>16, <2>1, <2>2, <2>3, <2>4, <2>5
<1> QED
  BY <1>13, <1>14, <1>15, <1>16 DEF S!SenderStep, S!SenderHandlerAck

LEMMA SignalsCatcherB ==
    ASSUME SigTypes, SignalsBInv, variant = "b", variant' = variant, rt' = rt, S!CatcherStep
    PROVE  SigTypes' /\ SignalsBInv'
<1> DEFINE p == "catcher"
<1>1. /\ p \in S!Processes /\ "sender" \in S!Processes \ {p} /\ "sender" \in S!Processes
      /\ S!Processes = {"sender", p}
  BY DEF S!Processes
<1>2. ~S!Ended(p)
  BY DEF S!CatcherStep, S!Deliver, S!CatcherMainAck, S!CatcherHandlerAck, S!Runs
<1>3. PICK n \in Nat \ {0} : n = Len(frames[p])
  BY <1>1, <1>2, SignalsTop
<1>4. /\ S!Top(p) = frames[p][n] /\ (S!Top(p).sig = "main" <=> n = 1)
      /\ frames[p] \in Seq(Frames) /\ S!Top(p) \in Frames /\ S!Top(p).i \in Nat
  BY <1>1, <1>2, <1>3, SignalsTop DEF Frames
<1>5. /\ There \in Nat /\ pending[p].s1 <= There
      /\ received["sender"] \in Nat /\ received[p] \in Nat
      /\ pending["sender"].s1 \in Nat /\ pending[p].s1 \in Nat
      /\ pending["sender"].s2 \in Nat /\ pending[p].s2 \in Nat
      /\ received \in [S!Processes -> Nat] /\ pending \in [S!Processes -> [s1 : Nat, s2 : Nat]]
  BY <1>1, SignalsNumbersB DEF SigTypes
<1>6. Sending => /\ There + Back <= 1 /\ Back \in Nat
                 /\ ~S!Ended("sender") /\ pending["sender"].s1 <= Back
                 /\ pending["sender"].s2 = 0 /\ ~HasS2("sender") /\ pending[p].s2 = 0 /\ ~HasS2(p)
                 /\ \A k \in 1 .. n :
                      frames[p][k].i > (IF k = 1 THEN 0 ELSE 1) => frames[p][k].asleep
  <2> SUFFICES ASSUME Sending
               PROVE  /\ There + Back <= 1 /\ Back \in Nat
                      /\ ~S!Ended("sender") /\ pending["sender"].s1 <= Back
                      /\ pending["sender"].s2 = 0 /\ ~HasS2("sender")
                      /\ pending[p].s2 = 0 /\ ~HasS2(p)
                      /\ \A k \in 1 .. n :
                           frames[p][k].i > (IF k = 1 THEN 0 ELSE 1) => frames[p][k].asleep
    OBVIOUS
  <2>1. ~S!Ended("sender")
    BY DEF Sending
  <2>2. Back \in Nat /\ Len(frames["sender"]) \in Nat \ {0}
    BY <2>1, SignalsNumbersB
  <2>3. pending["sender"].s1 <= Back
    BY <1>5, <2>2 DEF Back
  <2>4. There + Back <= 1
    BY DEF SignalsBInv, OneUnderWay
  <2> QED
    BY <1>1, <1>3, <2>1, <2>2, <2>3, <2>4 DEF SignalsBInv, NoS2Yet
<1>7. ~Sending => /\ received["sender"] = to_send /\ received[p] = to_send
                  /\ pending["sender"].s1 = 0 /\ pending[p].s1 = 0
                  /\ \A k \in 1 .. Len(frames["sender"]) : frames["sender"][k].sig # "s1"
                  /\ ~FreshTop(p)
  BY <1>1 DEF SignalsBInv, AllCounted
<1>8. FreshTop(p) <=> S!Top(p).sig = "s1" /\ S!Top(p).i = 0
  BY <1>2, <1>3, <1>4 DEF FreshTop, Fresh
<1>9. \A k \in 1 .. n - 1 : ~Fresh(p, k)
  BY <1>3 DEF SignalsBInv, OnlyTopFresh
\* What follows from the frames of the sender, which no step of the catcher changes.
<1>10. ASSUME FramesTyped', frames'["sender"] = frames["sender"],
              pending' \in [S!Processes -> [s1 : Nat, s2 : Nat]], received' \in [S!Processes -> Nat]
       PROVE  SigTypes' /\ (Sending' <=> Sending) /\ Acked' = Acked /\ (HasS2("sender")' <=> HasS2("sender"))
  <2>1. (S!Ended("sender")' <=> S!Ended("sender")) /\ (HasS2("sender")' <=> HasS2("sender"))
    BY <1>1, <1>10, SignalsKept
  <2> QED
    BY <1>10, <2>1 DEF SigTypes, Sending, Acked
<1>11. ASSUME frames'["sender"] = frames["sender"],
              pending'["sender"].s1 = pending["sender"].s1
       PROVE  Back' = Back
  BY <1>11 DEF Back
\* The sender still sends.
<1>12. ASSUME Sending, FramesTyped', frames'["sender"] = frames["sender"],
              pending' \in [S!Processes -> [s1 : Nat, s2 : Nat]], received' \in [S!Processes -> Nat],
              There' \in Nat, Back' \in Nat, There' + Back' = There + Back,
              received'["sender"] = received["sender"],
              received'[p] + There' = received[p] + There,
              pending'["sender"].s2 = 0, pending'[p].s2 = 0, ~S!Ended(p)', ~HasS2(p)', OnlyTopFresh',
              \A k \in 1 .. Len(frames'[p]) :
                frames'[p][k].i > (IF k = 1 THEN 0 ELSE 1) => frames'[p][k].asleep
       PROVE  SigTypes' /\ SignalsBInv'
  <2>1. SigTypes' /\ Sending' /\ Acked' = Acked /\ ~HasS2("sender")'
    BY <1>6, <1>10, <1>12
  <2>2. /\ received[p] + There = Acked /\ received["sender"] + (There + Back) = Acked
        /\ frames["sender"][1].i % 2 = 0 /\ ~frames["sender"][1].asleep => There + Back = 0
        /\ There + Back <= 1
    BY <1>12 DEF SignalsBInv, OneUnderWay
  <2>3. received'["sender"] + (There' + Back') = received["sender"] + (There + Back)
    BY <1>12
  <2>4. OneUnderWay'
    BY <1>12, <2>1, <2>2, <2>3 DEF OneUnderWay
  <2>5. NoS2Yet'
    BY <1>1, <1>12, <2>1 DEF NoS2Yet
  <2>6. AllCounted'
    BY <2>1 DEF AllCounted
  <2> QED
    BY <1>12, <2>1, <2>4, <2>5, <2>6 DEF SignalsBInv
\* The sender has sent all s1.
<1>13. ASSUME ~Sending, FramesTyped', frames'["sender"] = frames["sender"],
              pending' \in [S!Processes -> [s1 : Nat, s2 : Nat]], received' = received,
              pending'["sender"].s1 = 0, pending'[p].s1 = 0, ~FreshTop(p)', OnlyTopFresh'
       PROVE  SigTypes' /\ SignalsBInv'
  <2>1. SigTypes' /\ ~Sending'
    BY <1>5, <1>10, <1>13
  <2>2. AllCounted'
    BY <1>1, <1>7, <1>13 DEF AllCounted
  <2>3. OneUnderWay' /\ NoS2Yet'
    BY <2>1 DEF OneUnderWay, NoS2Yet
  <2> QED
    BY <1>13, <2>1, <2>2, <2>3 DEF SignalsBInv
<1>14. CASE S!Deliver(p)
  <2>1. /\ received' = received
        /\ pending' \in [S!Processes -> [s1 : Nat, s2 : Nat]]
        /\ pending'["sender"] = pending["sender"]
    BY <1>1, <1>14, SignalsDelivers
  <2>2. PICK f \in Frames :
          /\ f.sig \in {"s1", "s2"} /\ f.i = 0
          /\ frames' = [frames EXCEPT ![p] = Append(@, f)]
          /\ f.sig = "s1" => /\ pending[p].s1 > 0 /\ pending'[p].s1 = pending[p].s1 - 1
                             /\ pending'[p].s2 = pending[p].s2
          /\ f.sig = "s2" => /\ pending[p].s2 > 0 /\ pending'[p].s2 = pending[p].s2 - 1
                             /\ pending'[p].s1 = pending[p].s1
    BY <1>1, <1>14, SignalsDelivers
  <2>3. /\ FramesTyped' /\ frames'["sender"] = frames["sender"]
        /\ Len(frames'[p]) = n + 1 /\ frames'[p][n + 1] = f
        /\ \A k \in 1 .. n : frames'[p][k] = frames[p][k]
        /\ ~S!Ended(p)'
    <3>1. f.sig # "main"
      BY <2>2
    <3>2. /\ FramesTyped' /\ frames'["sender"] = frames["sender"]
          /\ Len(frames'[p]) = Len(frames[p]) + 1 /\ frames'[p][Len(frames[p]) + 1] = f
          /\ \A k \in 1 .. Len(frames[p]) : frames'[p][k] = frames[p][k]
          /\ frames'[p] # <<>>
      BY <1>1, <1>2, <2>2, <3>1, SignalsPushes
    <3> QED
      BY <1>3, <3>2 DEF S!Ended
  <2>4. \A k \in 1 .. n + 1 : k = n + 1 \/ k \in 1 .. n
    OBVIOUS
  <2>5. FreshTop(p)' <=> f.sig = "s1"
    BY <2>2, <2>3 DEF FreshTop, Fresh
  <2>6. ~FreshTop(p) => OnlyTopFresh'
    <3> SUFFICES ASSUME ~FreshTop(p), NEW k \in 1 .. n PROVE ~Fresh(p, k)'
      <4>1. n + 1 - 1 = n
        OBVIOUS
      <4> QED
        BY <2>3, <4>1 DEF OnlyTopFresh
    <3>1. Fresh(p, k)' <=> Fresh(p, k)
      BY <2>3 DEF Fresh
    <3>2. CASE k = n
      BY <1>2, <1>3, <3>1, <3>2 DEF FreshTop
    <3>3. CASE k # n
      BY <1>9, <3>1, <3>3
    <3> QED
      BY <3>2, <3>3
  <2>7. CASE Sending
    <3>1. f.sig = "s1"
      BY <1>6, <2>2, <2>7
    <3>2. pending[p].s1 = 1 /\ There = 1 /\ pending'[p].s1 = 0
      BY <1>5, <1>6, <2>2, <2>7, <3>1
    <3>3. ~FreshTop(p)
      BY <3>2 DEF There
    <3>4. There' = 1
      BY <2>5, <3>1, <3>2 DEF There
    <3>5. Back' = Back
      BY <1>11, <2>1, <2>3
    <3>6. ~HasS2(p)'
      <4>1. \A k \in 1 .. n : frames[p][k].sig # "s2"
        BY <1>3, <1>6, <2>7 DEF HasS2
      <4> QED
        BY <2>3, <2>4, <3>1, <4>1 DEF HasS2
    <3>7. \A k \in 1 .. n + 1 :
            frames'[p][k].i > (IF k = 1 THEN 0 ELSE 1) => frames'[p][k].asleep
      BY <1>6, <2>2, <2>3, <2>4, <2>7
    <3> QED
      BY <1>5, <1>6, <1>12, <2>1, <2>2, <2>3, <2>6, <2>7, <3>1, <3>2, <3>3, <3>4, <3>5, <3>6, <3>7
  <2>8. CASE ~Sending
    <3>1. f.sig = "s2"
      BY <1>5, <1>7, <2>2, <2>8
    <3> QED
      BY <1>7, <1>13, <2>1, <2>2, <2>3, <2>5, <2>6, <2>8, <3>1
  <2> QED
    BY <2>7, <2>8
\* The top frame goes on, or falls asleep.
<1>15. ASSUME S!Goes(p) \/ S!Suspends(p)
       PROVE  /\ FramesTyped' /\ frames'["sender"] = frames["sender"] /\ ~S!Ended(p)'
              /\ ~FreshTop(p)' /\ OnlyTopFresh' /\ (HasS2(p)' <=> HasS2(p))
              /\ pending'[p].s1 \in Nat => There' = pending'[p].s1
              /\ Len(frames'[p]) = n /\ frames'[p][n].i = S!Top(p).i + 1
              /\ S!Suspends(p) => frames'[p][n].asleep
              /\ \A k \in 1 .. n - 1 : frames'[p][k] = frames[p][k]
  <2>1. PICK f \in Frames :
          /\ f.sig = S!Top(p).sig /\ f.i = S!Top(p).i + 1 /\ (S!Suspends(p) => f.asleep)
          /\ frames' = [frames EXCEPT ![p] = [frames[p] EXCEPT ![Len(frames[p])] = f]]
    BY <1>1, <1>2, <1>15, SignalsGoes
  <2>2. /\ FramesTyped' /\ frames'["sender"] = frames["sender"] /\ ~S!Ended(p)'
        /\ Len(frames'[p]) = n /\ frames'[p][n] = f
        /\ \A k \in 1 .. n - 1 : frames'[p][k] = frames[p][k]
    <3>1. /\ FramesTyped' /\ frames'["sender"] = frames["sender"] /\ frames'[p] # <<>>
          /\ Len(frames'[p]) = Len(frames[p]) /\ frames'[p][Len(frames[p])] = f
          /\ \A k \in 1 .. Len(frames[p]) - 1 : frames'[p][k] = frames[p][k]
      BY <1>1, <1>2, <2>1, SignalsAlters
    <3> QED
      BY <1>3, <3>1 DEF S!Ended
  <2>3. \A k \in 1 .. n : k = n \/ k \in 1 .. n - 1
    OBVIOUS
  <2>4. ~FreshTop(p)'
    BY <1>4, <2>1, <2>2 DEF FreshTop, Fresh
  <2>5. OnlyTopFresh'
    BY <1>9, <2>2 DEF OnlyTopFresh, Fresh
  <2>6. HasS2(p)' <=> HasS2(p)
    <3>1. \A k \in 1 .. n : frames'[p][k].sig = frames[p][k].sig
      BY <1>4, <2>1, <2>2, <2>3
    <3> QED
      BY <1>3, <2>2, <3>1 DEF HasS2
  <2>7. pending'[p].s1 \in Nat => There' = pending'[p].s1
    BY <2>4 DEF There
  <2> QED
    BY <2>1, <2>2, <2>4, <2>5, <2>6, <2>7
\* A handler of the catcher returns.
<1>16. ASSUME S!Returns(p), S!Top(p).sig # "main"
       PROVE  FramesTyped' /\ frames'["sender"] = frames["sender"] /\ ~FreshTop(p)' /\ OnlyTopFresh'
  <2>1. /\ FramesTyped' /\ frames'["sender"] = frames["sender"] /\ n # 1
        /\ Len(frames'[p]) = n - 1
        /\ frames'[p][n - 1] = [frames[p][n - 1] EXCEPT !.asleep = FALSE]
        /\ \A k \in 1 .. n - 2 : frames'[p][k] = frames[p][k]
    BY <1>1, <1>2, <1>3, <1>16, SignalsPops
  <2>2. frames[p][n - 1] \in Frames /\ n - 1 \in 1 .. n - 1 /\ n - 1 - 1 = n - 2
    <3>1. n - 1 \in 1 .. n
      BY <2>1
    <3> QED
      BY <1>3, <1>4, <3>1, SeqElement
  <2>3. frames'[p][n - 1].sig = frames[p][n - 1].sig /\ frames'[p][n - 1].i = frames[p][n - 1].i
    BY <2>1, <2>2 DEF Frames
  <2>4. ~FreshTop(p)'
    <3>1. ~Fresh(p, n - 1)
      BY <1>9, <2>2
    <3> QED
      BY <2>1, <2>3, <3>1 DEF FreshTop, Fresh
  <2>5. OnlyTopFresh'
    <3>1. \A k \in 1 .. n - 2 : k \in 1 .. n - 1
      OBVIOUS
    <3> QED
      BY <1>9, <2>1, <2>2, <3>1 DEF OnlyTopFresh, Fresh
  <2> QED
    BY <2>1, <2>4, <2>5
\* The top frame of the catcher falls asleep: nothing else happens.
<1>17. ASSUME S!Suspends(p), ~FreshTop(p)
       PROVE  SigTypes' /\ SignalsBInv'
  <2>1. pending' = pending /\ received' = received
    BY <1>17 DEF S!Suspends
  <2>2. There = pending[p].s1
    BY <1>5, <1>17 DEF There
  <2>3. CASE Sending
    <3>1. There' = There /\ Back' = Back
      <4>1. frames'["sender"] = frames["sender"] /\ (pending'[p].s1 \in Nat => There' = pending'[p].s1)
        BY <1>15, <1>17
      <4>2. Back' = Back
        BY <1>11, <2>1, <4>1
      <4> QED
        BY <1>5, <2>1, <2>2, <4>1, <4>2
    <3>2. There' \in Nat /\ Back' \in Nat /\ There' + Back' = There + Back
      BY <1>5, <1>6, <2>3, <3>1
    <3>3. received'[p] + There' = received[p] + There
      BY <2>1, <3>1
    <3> QED
      <4>1. /\ FramesTyped' /\ frames'["sender"] = frames["sender"] /\ ~S!Ended(p)'
            /\ OnlyTopFresh' /\ (HasS2(p)' <=> HasS2(p))
        BY <1>15, <1>17
      <4>2. \A k \in 1 .. Len(frames'[p]) :
              frames'[p][k].i > (IF k = 1 THEN 0 ELSE 1) => frames'[p][k].asleep
        <5>1. \A k \in 1 .. n : k = n \/ k \in 1 .. n - 1
          OBVIOUS
        <5>2. /\ Len(frames'[p]) = n /\ frames'[p][n].asleep
              /\ \A k \in 1 .. n - 1 : frames'[p][k] = frames[p][k]
          BY <1>15, <1>17
        <5> QED
          BY <1>6, <2>3, <5>1, <5>2
      <4>3. ~HasS2(p)' /\ pending'["sender"].s2 = 0 /\ pending'[p].s2 = 0
        BY <1>6, <2>1, <2>3, <4>1
      <4>4. /\ pending' \in [S!Processes -> [s1 : Nat, s2 : Nat]] /\ received' \in [S!Processes -> Nat]
            /\ received'["sender"] = received["sender"]
        BY <1>5, <2>1
      <4> QED
        BY <1>12, <2>3, <3>2, <3>3, <4>1, <4>2, <4>3, <4>4
  <2>4. CASE ~Sending
    BY <1>5, <1>7, <1>13, <1>15, <1>17, <2>1, <2>4
  <2> QED
    BY <2>3, <2>4
<1>18. CASE S!CatcherMainAck
  <2>1. S!Top(p).sig = "main" /\ ~S!Top(p).asleep /\ n = 1
    BY <1>4, <1>18 DEF S!CatcherMainAck, S!Runs
  <2>2. CASE S!Suspends(p)
    BY <1>8, <1>17, <2>1, <2>2
  <2>3. CASE S!Top(p).i = 1 /\ S!Exits(p) /\ UNCHANGED <<pending, received>>
    <3>1. ~Sending
      <4>1. n \in 1 .. n
        OBVIOUS
      <4> QED
        BY <1>4, <1>6, <2>1, <2>3, <4>1
    <3>2. FramesTyped' /\ S!Ended(p)' /\ frames'["sender"] = frames["sender"] /\ Len(frames'[p]) = 0
      BY <1>1, <2>3, SignalsExitsA
    <3>3. ~FreshTop(p)' /\ OnlyTopFresh'
      <4>1. 1 .. 0 - 1 = {}
        OBVIOUS
      <4> QED
        BY <3>2, <4>1 DEF FreshTop, OnlyTopFresh
    <3> QED
      BY <1>5, <1>7, <1>13, <2>3, <3>1, <3>2, <3>3
  <2> QED
    BY <1>18, <2>2, <2>3 DEF S!CatcherMainAck
<1>19. CASE /\ S!Runs(p, "s1") /\ S!Top(p).i = 0 /\ S!Goes(p) /\ S!Sends("sender", "s1")
            /\ received' = [received EXCEPT ![p] = @ + 1]
  <2>1. FreshTop(p) /\ n # 1
    BY <1>4, <1>8, <1>19 DEF S!Runs
  <2>2. Sending
    BY <1>7, <2>1
  <2>3. There = 1 /\ Back = 0 /\ pending[p].s1 = 0 /\ pending["sender"].s1 = 0
    <3>1. There = pending[p].s1 + 1
      BY <2>1 DEF There
    <3> QED
      BY <1>5, <1>6, <2>2, <3>1
  <2>4. /\ pending' \in [S!Processes -> [s1 : Nat, s2 : Nat]] /\ pending'[p] = pending[p]
        /\ pending'["sender"].s2 = pending["sender"].s2
        /\ pending'["sender"].s1 \in {1, pending["sender"].s1 + 1}
    BY <1>1, <1>6, <1>19, <2>2, SignalsSends
  <2>5. There' = 0
    BY <1>15, <1>19, <2>3, <2>4
  <2>6. Back' = 1
    <3>1. Len(frames'["sender"]) = Len(frames["sender"]) /\ Len(frames["sender"]) \in Nat
      BY <1>1, <1>6, <1>15, <1>19, <2>2, SignalsNumbersB
    <3>2. Len(frames["sender"]) - 1 = 0
      <4>1. pending["sender"].s1 + (Len(frames["sender"]) - 1) = 0
        BY <2>3 DEF Back
      <4> QED
        BY <2>3, <3>1, <4>1
    <3>3. pending'["sender"].s1 = 1
      BY <2>3, <2>4
    <3> QED
      BY <3>1, <3>2, <3>3 DEF Back
  <2>7. /\ received' \in [S!Processes -> Nat] /\ received'[p] = received[p] + 1
        /\ received'["sender"] = received["sender"]
    BY <1>1, <1>5, <1>19
  <2>8. /\ There' \in Nat /\ Back' \in Nat /\ There' + Back' = There + Back
        /\ received'[p] + There' = received[p] + There
    BY <1>5, <2>3, <2>5, <2>6, <2>7
  <2>9. \A k \in 1 .. Len(frames'[p]) :
          frames'[p][k].i > (IF k = 1 THEN 0 ELSE 1) => frames'[p][k].asleep
    <3>1. \A k \in 1 .. n : k = n \/ k \in 1 .. n - 1
      OBVIOUS
    <3>2. /\ Len(frames'[p]) = n /\ frames'[p][n].i = 1
          /\ \A k \in 1 .. n - 1 : frames'[p][k] = frames[p][k]
      BY <1>15, <1>19
    <3> QED
      BY <1>6, <2>1, <2>2, <3>1, <3>2
  <2> QED
    BY <1>6, <1>12, <1>15, <1>19, <2>1, <2>2, <2>4, <2>7, <2>8, <2>9
<1>20. CASE S!Runs(p, "s1") /\ S!Top(p).i = 1 /\ S!Suspends(p)
  BY <1>8, <1>17, <1>20
<1>21. CASE S!Runs(p, "s1") /\ S!Top(p).i = 2 /\ S!Returns(p) /\ UNCHANGED <<pending, received>>
  <2>1. S!Top(p).sig # "main" /\ n # 1
    BY <1>4, <1>21 DEF S!Runs
  <2>2. ~Sending
    <3>1. n \in 1 .. n
      OBVIOUS
    <3>2. frames[p][n].i > 1 /\ ~frames[p][n].asleep
      BY <1>4, <1>21 DEF S!Runs
    <3> QED
      BY <1>6, <2>1, <3>1, <3>2
  <2> QED
    BY <1>5, <1>7, <1>13, <1>16, <1>21, <2>1, <2>2
<1>22. CASE S!Runs(p, "s2") /\ S!Sends("sender", "s2") /\ S!Returns(p) /\ UNCHANGED received
  <2>1. S!Top(p).sig = "s2" /\ S!Top(p).sig # "main"
    BY <1>22 DEF S!Runs
  <2>2. ~Sending
    <3>1. n \in 1 .. Len(frames[p])
      BY <1>3
    <3> QED
      BY <1>4, <1>6, <2>1, <3>1 DEF HasS2
  <2>3. /\ pending' \in [S!Processes -> [s1 : Nat, s2 : Nat]] /\ pending'[p] = pending[p]
        /\ pending'["sender"].s1 = pending["sender"].s1
    BY <1>1, <1>22, SignalsSends
  <2> QED
    BY <1>7, <1>13, <1>16, <1>22, <2>1, <2>2, <2>3
<1> QED
  BY <1>14, <1>18, <1>19, <1>20, <1>21, <1>22 DEF S!CatcherStep, S!CatcherHandlerAck

LEMMA SignalsInit ==
    ASSUME S!Init
    PROVE  SignalsInv
<1>1. /\ variant \in {"a", "b"} /\ rt \in BOOLEAN
      /\ pending = [p \in S!Processes |-> [s1 |-> 0, s2 |-> 0]]
      /\ frames = [p \in S!Processes |-> <<S!Frame("main", {})>>]
      /\ received = [p \in S!Processes |-> 0]
  BY DEF S!Init
<1>2. /\ "sender" \in S!Processes /\ "catcher" \in S!Processes
      /\ to_send \in Nat /\ 2 * to_send \in Nat
  BY SignalsAssumption DEF S!Processes, S!SignalsParameters
<1> DEFINE f == S!Frame("main", {})
<1>3. f \in Frames /\ f.sig = "main" /\ f.i = 0
  BY DEF S!Frame, Frames
<1>4. \A p \in S!Processes : frames[p] = <<f>> /\ frames[p][1] = f /\ Len(frames[p]) = 1 /\ frames[p] # <<>>
  BY <1>1
<1>5. <<f>> \in Seq(Frames)
  BY <1>3
<1> HIDE DEF f
<1>6. \A k \in 1 .. 1 : k = 1
  OBVIOUS
<1>7. frames \in [S!Processes -> Seq(Frames)]
  BY <1>1, <1>5 DEF f
<1>8. SigTypes
  <2>1. FramesTyped
    BY <1>3, <1>4, <1>6, <1>7 DEF FramesTyped
  <2> QED
    BY <1>1, <2>1 DEF SigTypes
<1>9. \A p \in S!Processes : ~S!Ended(p) /\ ~FreshTop(p) /\ ~HasS2(p) /\ Uncounted(p) = 0
  BY <1>3, <1>4, <1>6 DEF S!Ended, FreshTop, FreshBelow, Fresh, HasS2, Uncounted
<1>10. \A p \in S!Processes : received[p] = 0 /\ pending[p].s1 = 0 /\ pending[p].s2 = 0
  BY <1>1
<1>11. SignalsAInv
  <2>1. Blocked
    <3>1. 2 .. 1 = {}
      OBVIOUS
    <3> QED
      BY <1>4, <3>1 DEF Blocked, BlockedIn
  <2>2. StillSends /\ SentS1 = 0 /\ BackSum = 0
    BY <1>2, <1>3, <1>4, <1>9, <1>10 DEF StillSends, SentS1, BackSum
  <2>3. SentCounted
    BY <1>2, <1>9, <1>10, <2>2 DEF SentCounted
  <2>4. \A k \in 1 .. Len(frames["catcher"]) : frames["catcher"][k].sig # "s2"
    BY <1>2, <1>9 DEF HasS2
  <2>5. OneS2
    BY <1>2, <1>9, <1>10, <2>4 DEF OneS2
  <2>6. BackCounted
    BY <1>2, <1>9, <2>2, <2>4 DEF BackCounted
  <2> QED
    BY <2>1, <2>3, <2>5, <2>6 DEF SignalsAInv
<1>12. SignalsBInv
  <2>1. Sending /\ There = 0 /\ Back = 0 /\ Acked = 0
    <3>1. (0 + 1) \div 2 = 0
      OBVIOUS
    <3> QED
      <4>1. frames["sender"][1].i = 0 /\ Len(frames["sender"]) - 1 = 0
        BY <1>2, <1>3, <1>4
      <4>2. Sending /\ Acked = 0
        BY <1>2, <1>9, <3>1, <4>1 DEF Sending, Acked
      <4>3. There = 0
        BY <1>2, <1>9, <1>10 DEF There
      <4>4. Back = 0
        <5>1. Back = 0 + 0
          BY <1>2, <1>10, <4>1 DEF Back
        <5> QED
          BY <5>1
      <4> QED
        BY <4>2, <4>3, <4>4
  <2>2. OneUnderWay
    BY <1>2, <1>10, <2>1 DEF OneUnderWay
  <2>3. NoS2Yet
    BY <1>2, <1>3, <1>4, <1>6, <1>9, <1>10 DEF NoS2Yet
  <2>4. AllCounted
    BY <2>1 DEF AllCounted
  <2>5. OnlyTopFresh
    <3>1. 1 .. 1 - 1 = {}
      OBVIOUS
    <3> QED
      BY <1>2, <1>4, <3>1 DEF OnlyTopFresh
  <2> QED
    BY <2>2, <2>3, <2>4, <2>5 DEF SignalsBInv
<1> QED
  BY <1>8, <1>11, <1>12 DEF SignalsInv

LEMMA SignalsStep ==
    ASSUME SignalsInv, S!Next
    PROVE  SignalsInv'
<1>1. SigTypes /\ variant \in {"a", "b"} /\ variant' = variant /\ rt' = rt
  BY DEF SignalsInv, SigTypes, S!Next
<1>2. S!SenderStep \/ S!CatcherStep
  BY DEF S!Next
<1>3. CASE variant = "a"
  <2>1. SigTypes' /\ SignalsAInv'
    BY <1>1, <1>2, <1>3, SignalsSenderA, SignalsCatcherA DEF SignalsInv
  <2> QED
    BY <1>1, <1>3, <2>1 DEF SignalsInv
<1>4. CASE variant = "b"
  <2>1. SigTypes' /\ SignalsBInv'
    BY <1>1, <1>2, <1>4, SignalsSenderB, SignalsCatcherB DEF SignalsInv
  <2> QED
    BY <1>1, <1>4, <2>1 DEF SignalsInv
<1> QED
  BY <1>1, <1>3, <1>4

LEMMA SignalsKeepsInv ==
    ASSUME SignalsInv, UNCHANGED S!sigVars
    PROVE  SignalsInv'
<1> USE DEF S!sigVars
<1>1. SigTypes'
  BY DEF SignalsInv, SigTypes, FramesTyped
<1>2. SignalsAInv => SignalsAInv'
  BY DEF SignalsAInv, Blocked, BlockedIn, Fresh, SentCounted, SentS1, StillSends, OneS2, HasS2,
         BackCounted, BackSum, Uncounted, FreshTop, FreshBelow, S!Ended
<1>3. SignalsBInv => SignalsBInv'
  <2>1. OneUnderWay => OneUnderWay'
    BY DEF OneUnderWay, Sending, There, Back, Acked, FreshTop, Fresh, S!Ended
  <2>2. NoS2Yet => NoS2Yet'
    BY DEF NoS2Yet, Sending, HasS2, S!Ended
  <2>3. AllCounted => AllCounted'
    BY DEF AllCounted, Sending, FreshTop, Fresh, S!Ended
  <2>4. OnlyTopFresh => OnlyTopFresh'
    BY DEF OnlyTopFresh, Fresh
  <2> QED
    BY <2>1, <2>2, <2>3, <2>4 DEF SignalsBInv
<1> QED
  BY <1>1, <1>2, <1>3 DEF SignalsInv

LEMMA SignalsCounts ==
    ASSUME SignalsInv
    PROVE  S!CountsAreSound
<1>1. /\ S!Processes = {"sender", "catcher"}
      /\ SigTypes /\ variant \in {"a", "b"} /\ received \in [S!Processes -> Nat]
      /\ received["sender"] \in Nat /\ received["catcher"] \in Nat
      /\ to_send \in Nat
  BY SignalsAssumption DEF S!Processes, SignalsInv, SigTypes, S!SignalsParameters
<1>2. CASE variant = "a"
  <2>1. SignalsAInv
    BY <1>2 DEF SignalsInv
  <2>2. /\ SentS1 \in Nat /\ SentS1 <= to_send /\ BackSum \in Nat
        /\ Uncounted("catcher") \in {0, 1} /\ pending["catcher"].s1 \in Nat
        /\ Uncounted("sender") \in {0, 1} /\ pending["sender"].s1 \in Nat
    BY <1>1, SignalsNumbers
  <2>3. received["catcher"] <= to_send
    BY <1>1, <2>1, <2>2 DEF SignalsAInv, SentCounted
  <2>4. BackSum <= received["catcher"]
    <3>1. CASE S!Ended("catcher")
      BY <2>1, <3>1 DEF SignalsAInv, BackCounted
    <3>2. CASE ~S!Ended("catcher") /\ ~HasS2("catcher")
      BY <1>1, <2>1, <3>2 DEF SignalsAInv, BackCounted
    <3>3. CASE HasS2("catcher")
      <4>1. PICK k \in 1 .. Len(frames["catcher"]) : frames["catcher"][k].sig = "s2"
        BY <3>3 DEF HasS2
      <4>2. BackSum <= frames["catcher"][k].i /\ frames["catcher"][k].i <= received["catcher"]
        BY <2>1, <4>1 DEF SignalsAInv, BackCounted
      <4>3. frames["catcher"] \in Seq(Frames)
        BY <1>1 DEF SigTypes, FramesTyped
      <4>4. frames["catcher"][k].i \in Nat
        <5>1. frames["catcher"][k] \in Frames
          BY <4>3, SeqElement
        <5> QED
          BY <5>1 DEF Frames
      <4> QED
        BY <1>1, <2>2, <4>2, <4>4
    <3> QED
      BY <3>1, <3>2, <3>3
  <2>5. received["sender"] <= BackSum
    BY <1>1, <2>2 DEF BackSum
  <2> QED
    BY <1>1, <1>2, <2>2, <2>3, <2>4, <2>5 DEF S!CountsAreSound
<1>3. CASE variant = "b"
  <2>1. OneUnderWay /\ AllCounted
    BY <1>3 DEF SignalsInv, SignalsBInv
  <2>2. CASE Sending
    <3>1. There \in Nat /\ Back \in Nat /\ frames["sender"][1].i \in Nat /\ ~S!Ended("sender")
      BY <1>1, <2>2, SignalsNumbersB DEF Sending
    <3>2. Acked <= to_send
      BY <1>1, <2>2, <3>1 DEF Acked, Sending
    <3>3. received["catcher"] + There = Acked /\ received["sender"] + (There + Back) = Acked
      BY <2>1, <2>2 DEF OneUnderWay
    <3>4. received["sender"] <= received["catcher"] /\ received["catcher"] <= to_send
      <4>1. Acked \in Nat
        BY <1>1, <2>2, SignalsNumbersB
      <4> QED
        BY <1>1, <3>1, <3>2, <3>3, <4>1
    <3> QED
      BY <3>1, <3>4 DEF S!CountsAreSound
  <2>3. CASE ~Sending
    <3>1. \A p \in S!Processes : received[p] = to_send
      BY <2>1, <2>3 DEF AllCounted
    <3>2. received = [p \in S!Processes |-> to_send]
      BY <1>1, <3>1
    <3> QED
      BY <1>1, <3>1, <3>2 DEF S!CountsAreSound
  <2> QED
    BY <2>2, <2>3
<1> QED
  BY <1>1, <1>2, <1>3

\* Whatever the order in which signals are delivered and however handlers interrupt
\* each other: the sender counts no more signals than the catcher has counted, the
\* catcher no more than were sent, and in program b a sender that has ended, and the
\* catcher with it, has counted all.
THEOREM CountsAreSoundTheorem == ProgramsSpec => []CountsAreSound
<1> DEFINE Inv == program = "signals" => SignalsInv
<1>1. ProgramsInit => Inv
  BY SignalsInit DEF ProgramsInit
<1>2. Inv /\ [ProgramsNext]_allVars => Inv'
  <2> SUFFICES ASSUME Inv, [ProgramsNext]_allVars, program' = "signals"
               PROVE  SignalsInv'
    OBVIOUS
  <2>1. program' = program
    BY DEF ProgramsNext, allVars, Game, Signal, Pipe, FifoStep, Negates, Counting, Udp
  <2>2. S!Next \/ UNCHANGED S!sigVars
    BY <2>1 DEF ProgramsNext, allVars, signals, S!sigVars,
                Game, Signal, Pipe, FifoStep, Negates, Counting, Udp
  <2> QED
    BY <2>1, <2>2, SignalsStep, SignalsKeepsInv
<1>3. Inv => CountsAreSound
  BY SignalsCounts DEF CountsAreSound
<1> QED
  BY <1>1, <1>2, <1>3, PTL DEF ProgramsSpec
==============================================================================
