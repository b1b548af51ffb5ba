-------------------------------- MODULE Santa --------------------------------
(***************************************************************************)
(* lab09: Santa, his reindeers and the elves, threads around one mutex and *)
(* three condition variables.                                              *)
(*                                                                         *)
(* All shared data is read and written with the mutex held, so a stretch   *)
(* of code between obtaining the mutex and giving it up (unlock, cond_wait *)
(* or an asynchronized block) is one action.  A thread that leaves such a  *)
(* stretch without giving the mutex up leaves it abandoned: nobody gets it *)
(* again.  A cond_wait may also return without a signal.                   *)
(***************************************************************************)
EXTENDS Integers, FiniteSets

CONSTANTS ELVES_NO, REINDEERS_NO,     \* threads (10 and 9 in the code)
          ELVES_REQ, REINDEERS_REQ,   \* a group of each (3 and 9)
          MAX_JOBS                    \* deliveries before Santa stops (3)

ASSUME SantaAssumption ==
    /\ ELVES_REQ \in Nat \ {0} /\ ELVES_NO \in Nat /\ ELVES_REQ <= ELVES_NO
    /\ REINDEERS_REQ \in Nat \ {0} /\ REINDEERS_NO = REINDEERS_REQ
    /\ MAX_JOBS \in Nat \ {0}

VARIABLES abandoned,          \* a finished thread still holds the mutex
          santa, jobs,        \* where Santa is; deliveries made
          waiting_reindeers, waiting_elves, workshop,
          reindeer, elf,      \* where each reindeer and each elf is
          helped,             \* elves Santa has helped who do not know it yet
          unbidden,           \* history: elves of the group whose wait has ended
                              \* without a signal
          main                \* the main thread

vars == <<abandoned, santa, jobs, waiting_reindeers, waiting_elves, workshop,
          reindeer, elf, helped, unbidden, main>>

Reindeers == 0 .. REINDEERS_NO - 1
Elves     == 0 .. ELVES_NO - 1
Places    == 0 .. ELVES_REQ - 1
Nobody    == -1

Init ==
    /\ abandoned = FALSE
    /\ santa = "check" /\ jobs = 0
    /\ waiting_reindeers = 0 /\ waiting_elves = 0
    /\ workshop = [i \in Places |-> Nobody]
    /\ reindeer = [r \in Reindeers |-> "away"]
    /\ elf = [e \in Elves |-> "away"]
    /\ helped = {} /\ unbidden = {}
    /\ main = "join_santa"

\* Faulty variants: a broadcast that is left out, or that only those hear who
\* wait for the group to return; a signal on the wrong condition.
BroadcastReindeersNever == reindeer
BroadcastElvesQueue == [e \in Elves |-> IF elf[e] = "queue" THEN "queue_woken" ELSE elf[e]]
SignalSantaNever == santa

\* pthread_cond_broadcast: every waiter must obtain the mutex again.
BroadcastReindeers ==
    [r \in Reindeers |-> IF reindeer[r] = "waiting" THEN "woken" ELSE reindeer[r]]
BroadcastElves ==
    [e \in Elves |-> IF elf[e] = "queue" THEN "queue_woken"
                     ELSE IF elf[e] = "shop" THEN "shop_woken" ELSE elf[e]]
\* pthread_cond_signal(&cond_santa): lost unless Santa waits on it.
SignalSanta == IF santa = "asleep" THEN "check" ELSE santa
------------------------------------------------------------------------------
(* Santa.                                                                  *)

\* Faulty variants: the loop over the workshop runs one place too far; it names
\* the elves and does not strike them off.
TurnToElvesTooFar ==
    /\ workshop' = [i \in 0 .. ELVES_REQ |-> Nobody]
    /\ unbidden' = {}
    /\ helped' = helped \cup {workshop[i] : i \in Places}
    /\ santa' = "help"
TurnToElvesKeeping ==
    /\ helped' = helped \cup {workshop[i] : i \in Places}
    /\ santa' = "help"
    /\ UNCHANGED <<workshop, unbidden>>

\* Elves in the workshop are named and struck off before Santa sleeps on
\* their problem.
TurnToElves ==
    /\ workshop' = [i \in Places |-> Nobody]
    /\ unbidden' = {}
    /\ helped' = helped \cup {workshop[i] : i \in Places}
    /\ santa' = "help"

\* The loop around cond_wait(&cond_santa), first time and after each wake-up.
\* Complete reindeers go first.
SantaChecks ==
    /\ santa = "check" /\ ~abandoned
    /\ \/ /\ waiting_reindeers < REINDEERS_REQ /\ waiting_elves < ELVES_REQ
          /\ santa' = "asleep"
          /\ UNCHANGED <<workshop, helped, unbidden>>
       \/ /\ waiting_reindeers = REINDEERS_REQ
          /\ santa' = "drive"
          /\ UNCHANGED <<workshop, helped, unbidden>>
       \/ /\ waiting_reindeers # REINDEERS_REQ /\ waiting_elves = ELVES_REQ
          /\ TurnToElves
    /\ UNCHANGED <<abandoned, jobs, waiting_reindeers, waiting_elves, reindeer,
                   elf, main>>

\* Back from the delivery.  The last one breaks out of the loop with the mutex
\* held; otherwise a complete group of elves is turned to at once.
SantaReturns ==
    /\ santa = "drive" /\ ~abandoned
    /\ waiting_reindeers' = 0
    /\ jobs' = jobs + 1
    /\ reindeer' = BroadcastReindeers
    /\ \/ /\ jobs + 1 = MAX_JOBS
          /\ santa' = "finished" /\ abandoned' = TRUE
          /\ UNCHANGED <<workshop, helped, unbidden>>
       \/ /\ jobs + 1 # MAX_JOBS /\ waiting_elves = ELVES_REQ
          /\ TurnToElves
          /\ UNCHANGED abandoned
       \/ /\ jobs + 1 # MAX_JOBS /\ waiting_elves # ELVES_REQ
          /\ santa' = "check"
          /\ UNCHANGED <<abandoned, workshop, helped, unbidden>>
    /\ UNCHANGED <<waiting_elves, elf, main>>

SantaHasHelped ==
    /\ santa = "help" /\ ~abandoned
    /\ waiting_elves' = 0
    /\ elf' = BroadcastElves
    /\ santa' = "check"
    /\ UNCHANGED <<abandoned, jobs, waiting_reindeers, workshop, reindeer, helped,
                   unbidden, main>>
------------------------------------------------------------------------------
(* A reindeer.                                                             *)

\* It counts itself in, and waits until the count is reset.  The one that
\* completes the team wakes Santa, and also the others, who find the count
\* positive and wait again.
ReindeerArrives(r) ==
    LET count == waiting_reindeers + 1
    IN /\ reindeer[r] = "away" /\ ~abandoned
       /\ waiting_reindeers' = count
       /\ IF count = REINDEERS_REQ
            THEN /\ santa' = SignalSanta
                 /\ reindeer' = [BroadcastReindeers EXCEPT ![r] = "waiting"]
            ELSE /\ reindeer' = [reindeer EXCEPT ![r] = "waiting"]
                 /\ UNCHANGED santa
       /\ UNCHANGED <<abandoned, jobs, waiting_elves, workshop, elf, helped,
                      unbidden, main>>

\* Faulty variant: an if in place of the while around cond_wait.
ReindeerRechecksOnce(r) ==
    /\ reindeer[r] = "woken" /\ ~abandoned
    /\ reindeer' = [reindeer EXCEPT ![r] = "away"]
    /\ UNCHANGED <<abandoned, santa, jobs, waiting_reindeers, waiting_elves,
                   workshop, elf, helped, unbidden, main>>

ReindeerRechecks(r) ==
    /\ reindeer[r] = "woken" /\ ~abandoned
    /\ reindeer' = [reindeer EXCEPT
                      ![r] = IF waiting_reindeers > 0 THEN "waiting" ELSE "away"]
    /\ UNCHANGED <<abandoned, santa, jobs, waiting_reindeers, waiting_elves,
                   workshop, elf, helped, unbidden, main>>
------------------------------------------------------------------------------
(* An elf.                                                                 *)

\* A complete group is in the workshop: the elf queues.
ElfQueues(e) ==
    /\ elf[e] \in {"away", "queue_woken"} /\ ~abandoned
    /\ waiting_elves = ELVES_REQ
    /\ elf' = [elf EXCEPT ![e] = "queue"]
    /\ UNCHANGED <<abandoned, santa, jobs, waiting_reindeers, waiting_elves,
                   workshop, reindeer, helped, unbidden, main>>

\* The elf takes the next place and waits on cond_elves; the one that
\* completes the group broadcasts on cond_elves first and wakes Santa.
ElfEnters(e) ==
    LET count == waiting_elves + 1
    IN /\ elf[e] \in {"away", "queue_woken"} /\ ~abandoned
       /\ waiting_elves < ELVES_REQ
       /\ waiting_elves' = count
       /\ workshop' = [workshop EXCEPT ![waiting_elves] = e]
       /\ IF count = ELVES_REQ
            THEN /\ santa' = SignalSanta
                 /\ elf' = [BroadcastElves EXCEPT ![e] = "shop"]
            ELSE /\ elf' = [elf EXCEPT ![e] = "shop"]
                 /\ UNCHANGED santa
       /\ UNCHANGED <<abandoned, jobs, waiting_reindeers, reindeer, helped,
                      unbidden, main>>

\* One return of cond_wait is enough: the elf reports that Santa solves its problem and
\* leaves.
ElfLeaves(e) ==
    /\ elf[e] = "shop_woken" /\ ~abandoned
    /\ elf' = [elf EXCEPT ![e] = "away"]
    /\ helped' = helped \ {e}
    /\ UNCHANGED <<abandoned, santa, jobs, waiting_reindeers, waiting_elves,
                   workshop, reindeer, unbidden, main>>
------------------------------------------------------------------------------
(* The main thread.                                                        *)

\* Santa joined, main cancels the first reindeer and joins it.  A cancelled
\* thread ends in usleep or, the mutex obtained again, in cond_wait: in this
\* model, once it is "away" or "waiting".
JoinSanta ==
    /\ main = "join_santa" /\ santa = "finished"
    /\ main' = "close_threads"
    /\ UNCHANGED <<abandoned, santa, jobs, waiting_reindeers, waiting_elves,
                   workshop, reindeer, elf, helped, unbidden>>
------------------------------------------------------------------------------
(* pthread_cond_wait may return without a signal.                          *)

WakesUnbidden ==
    /\ \/ /\ santa = "asleep" /\ santa' = "check"
          /\ UNCHANGED <<reindeer, elf, unbidden>>
       \/ \E r \in Reindeers :
             /\ reindeer[r] = "waiting" /\ reindeer' = [reindeer EXCEPT ![r] = "woken"]
             /\ UNCHANGED <<santa, elf, unbidden>>
       \/ \E e \in Elves :
             /\ elf[e] = "queue" /\ elf' = [elf EXCEPT ![e] = "queue_woken"]
             /\ UNCHANGED <<santa, reindeer, unbidden>>
       \/ \E e \in Elves :
             /\ elf[e] = "shop" /\ elf' = [elf EXCEPT ![e] = "shop_woken"]
             /\ unbidden' = unbidden \cup ({e} \cap {workshop[i] : i \in Places})
             /\ UNCHANGED <<santa, reindeer>>
    /\ UNCHANGED <<abandoned, jobs, waiting_reindeers, waiting_elves, workshop,
                   helped, main>>
------------------------------------------------------------------------------
SantaStep   == SantaChecks \/ SantaReturns \/ SantaHasHelped
ReindeerStep(r) == ReindeerArrives(r) \/ ReindeerRechecks(r)
ElfStep(e)  == ElfQueues(e) \/ ElfEnters(e) \/ ElfLeaves(e)

Next ==
    \/ SantaStep
    \/ \E r \in Reindeers : ReindeerStep(r)
    \/ \E e \in Elves : ElfStep(e)
    \/ JoinSanta \/ WakesUnbidden

Spec == Init /\ [][Next]_vars

\* Sleeps end and the scheduler runs every thread that can run.  No wait has to
\* end without a signal.
Fairness ==
    /\ WF_vars(SantaStep) /\ WF_vars(JoinSanta)
    /\ \A r \in Reindeers : WF_vars(ReindeerStep(r))
    /\ \A e \in Elves : WF_vars(ElfStep(e))

FairSpec == Spec /\ Fairness
------------------------------------------------------------------------------
TypeOK ==
    /\ abandoned \in BOOLEAN
    /\ santa \in {"check", "asleep", "drive", "help", "finished"}
    /\ jobs \in 0 .. MAX_JOBS
    /\ waiting_reindeers \in 0 .. REINDEERS_REQ
    /\ waiting_elves \in 0 .. ELVES_REQ
    /\ workshop \in [Places -> Elves \cup {Nobody}]
    /\ reindeer \in [Reindeers -> {"away", "waiting", "woken"}]
    /\ elf \in [Elves -> {"away", "queue", "queue_woken", "shop", "shop_woken"}]
    /\ helped \subseteq Elves /\ unbidden \subseteq Elves
    /\ main \in {"join_santa", "close_threads"}

\* No wake-up of Santa is lost: he is not left asleep while a complete team or
\* a complete group waits for him (main.c:79-83, 119-123, 149-153).
NoLostWakeUp ==
    santa = "asleep" =>
        waiting_reindeers < REINDEERS_REQ /\ waiting_elves < ELVES_REQ

\* The count and the workshop agree whenever Santa reads them, and no early
\* broadcast lets an elf come back into a group it is in already: one that fills
\* two places has left a wait that nobody ended (main.c:98-101, 144-151).
GroupIsSound ==
    santa # "help" =>
        /\ \A i \in Places : workshop[i] = Nobody <=> i >= waiting_elves
        /\ \A i, j \in Places :
              workshop[i] = workshop[j] /\ workshop[i] # Nobody /\ i # j
                => workshop[i] \in unbidden

\* Nobody waits for a broadcast that has already passed: an elf that waits in
\* the workshop is in the group Santa will help or is helping (main.c:154-157).
NoElfForgotten ==
    \A e \in Elves : elf[e] = "shop" =>
        /\ waiting_elves > 0
        /\ (\E i \in Places : workshop[i] = e) \/ (santa = "help" /\ e \in helped)

\* Santa never drives with a team that is not complete (main.c:85-91).
WholeTeamDrives == santa = "drive" =>
    \A r \in Reindeers : reindeer[r] \in {"waiting", "woken"}

\* A reindeer that waits although the count no longer includes it.
LeftOut == waiting_reindeers > 0 /\
    waiting_reindeers < Cardinality({r \in Reindeers : reindeer[r] # "away"})

\* Unless a reindeer is too slow to see the count reset and is left out of
\* the next team (main.c:124), Santa makes all his deliveries, whatever the
\* elves ask of him in between.
AllJobsDone == <>LeftOut \/ <>(jobs = MAX_JOBS)

\* Santa done ("Koncze prace na dzisiaj!", main.c:93), main closes all threads,
\* returns, and stophandler reports the end (main.c:48-54): the reindeer that
\* main joins first reaches a point where its cancellation takes effect.
CancelledReindeerEnds ==
    main = "close_threads" ~> reindeer[0] \in {"away", "waiting"}
==============================================================================
