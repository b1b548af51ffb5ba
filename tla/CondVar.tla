------------------------------- MODULE CondVar -------------------------------
(***************************************************************************)
(* kol2 CondVar: a thread waits until the main thread has counted to a     *)
(* threshold, and adds to the counter once; main goes on to reps and       *)
(* checks the sum.                                                         *)
(***************************************************************************)
EXTENDS Integers

CONSTANTS reps, Threshold, Added     \* 100000, 1000 and 10 in the program

VARIABLES count,
          mutex,    \* "free", or who has it
          waiter,   \* "enter", "asleep", "woken" or "done"
          main      \* increments made; then "joined"; then the verdict

condVars == <<count, mutex, waiter, main>>

Init == count = 0 /\ mutex = "free" /\ waiter = "enter" /\ main = 0

\* Faulty variant: the counter is looked at only after the wait.
WaiterTestsLate ==
    /\ waiter \in {"enter", "woken"} /\ mutex = "free"
    /\ IF waiter = "enter" \/ count < Threshold
         THEN waiter' = "asleep" /\ UNCHANGED count
         ELSE waiter' = "done" /\ count' = count + Added
    /\ UNCHANGED <<mutex, main>>

\* With the mutex, at first and after each wake-up: the test of the counter, and
\* pthread_cond_wait or the change.
WaiterTests ==
    /\ waiter \in {"enter", "woken"} /\ mutex = "free"
    /\ IF count < Threshold
         THEN waiter' = "asleep" /\ UNCHANGED count
         ELSE waiter' = "done" /\ count' = count + Added
    /\ UNCHANGED <<mutex, main>>

\* pthread_cond_wait may return without a signal.
WakesSpuriously ==
    /\ waiter = "asleep"
    /\ waiter' = "woken"
    /\ UNCHANGED <<count, mutex, main>>

\* ++count and the signal, in main's critical section.
Count ==
    /\ main \in 0 .. reps - 1
    /\ \/ /\ mutex = "free"
          /\ mutex' = "main" /\ count' = count + 1
          /\ waiter' = IF waiter = "asleep" THEN "woken" ELSE waiter
          /\ UNCHANGED main
       \/ /\ mutex = "main"
          /\ mutex' = "free" /\ main' = main + 1
          /\ UNCHANGED <<count, waiter>>

\* pthread_join, and the test of the sum.
Join ==
    /\ main = reps /\ waiter = "done" /\ mutex = "free"
    /\ main' = IF count = reps + Added THEN reps + 1 ELSE reps + 2
    /\ UNCHANGED <<count, mutex, waiter>>

WaiterStep == WaiterTests
MainStep == Count \/ Join
Next == WaiterStep \/ MainStep \/ WakesSpuriously

\* "OK" is printed.
Finished == main = reps + 1
==============================================================================
