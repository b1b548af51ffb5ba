------------------------------ MODULE Signals ------------------------------
(***************************************************************************)
(* lab04 ex3: a sender sends to_send signals s1 and then s2; the catcher   *)
(* sends them back.  In program "a" the catcher answers at s2, in program  *)
(* "b" it acknowledges each s1.  s1, s2 are SIGUSR1, SIGUSR2 (KILL and     *)
(* SIGQUEUE, which differ in nothing here) or SIGRTMAX, SIGRTMIN (SIGRT).  *)
(*                                                                         *)
(* A process is a stack of frames, main and the handlers that interrupted  *)
(* it and each other; only the top one runs.  A frame is asleep while it   *)
(* is in sigsuspend, where no signal of the two is blocked.                *)
(***************************************************************************)
EXTENDS Integers, SequencesExt

CONSTANT to_send

SignalsParameters == to_send \in Nat

VARIABLES variant,   \* "a" or "b"
          rt,        \* mode SIGRT
          pending,   \* signals sent to each process and not delivered
          frames,    \* the stack of each process, empty when it has ended
          received   \* the counter of each process

sigVars == <<variant, rt, pending, frames, received>>

Processes == {"sender", "catcher"}
Frame(sig, mask) == [sig |-> sig, mask |-> mask, i |-> 0, asleep |-> FALSE]

\* Handlers are installed before anything is sent.
Init ==
    /\ variant \in {"a", "b"} /\ rt \in BOOLEAN
    /\ pending = [p \in Processes |-> [s1 |-> 0, s2 |-> 0]]
    /\ frames = [p \in Processes |-> <<Frame("main", {})>>]
    /\ received = [p \in Processes |-> 0]

Ended(p) == frames[p] = <<>>
Top(p) == Last(frames[p])
Runs(p, sig) == ~Ended(p) /\ Top(p).sig = sig /\ ~Top(p).asleep

Goes(p) == frames' = [frames EXCEPT ![p][Len(frames[p])].i = @ + 1]
Exits(p) == frames' = [frames EXCEPT ![p] = <<>>]
Suspends(p) ==
    /\ frames' = [frames EXCEPT ![p][Len(frames[p])].i = @ + 1,
                                ![p][Len(frames[p])].asleep = TRUE]
    /\ UNCHANGED <<pending, received>>

\* The interrupted frame goes on, its sigsuspend returns.
Returns(p) ==
    LET below == Front(frames[p])
    IN frames' = [frames EXCEPT ![p] =
                    IF below = <<>> THEN below
                    ELSE [below EXCEPT ![Len(below)].asleep = FALSE]]

\* A standard signal that is pending already is not kept a second time.
Sends(to, sig) ==
    pending' = IF Ended(to) THEN pending
               ELSE [pending EXCEPT ![to][sig] = IF rt THEN @ + 1 ELSE 1]

Mask(p) == IF Top(p).asleep THEN {} ELSE Top(p).mask

\* The lowest number first: SIGUSR1, but SIGRTMIN.  Its handler runs on top of
\* whatever runs, with itself blocked unless SA_NODEFER is set.
Deliver(p) ==
    /\ ~Ended(p)
    /\ LET ready == {s \in {"s1", "s2"} : pending[p][s] > 0 /\ s \notin Mask(p)}
           first == IF rt THEN "s2" ELSE "s1"
       IN \E s \in ready :
            /\ first \in ready => s = first
            /\ pending' = [pending EXCEPT ![p][s] = @ - 1]
            /\ frames' = [frames EXCEPT ![p] = Append(@, Frame(s,
                 Mask(p) \cup (IF variant = "b" /\ p = "catcher" THEN {} ELSE {s})))]
    /\ UNCHANGED received
------------------------------------------------------------------------------
(* Program a.  A handler of s1 never returns: it waits in sigsuspend.      *)

\* Faulty variant: s2 is sent first.
SenderMainS2First ==
    /\ Runs("sender", "main") /\ UNCHANGED received
    /\ \/ /\ Top("sender").i <= to_send /\ Goes("sender")
          /\ Sends("catcher", IF Top("sender").i > 0 THEN "s1" ELSE "s2")
       \/ Top("sender").i = to_send + 1 /\ Suspends("sender")

SenderMain ==
    /\ Runs("sender", "main") /\ UNCHANGED received
    /\ \/ /\ Top("sender").i <= to_send /\ Goes("sender")
          /\ Sends("catcher", IF Top("sender").i < to_send THEN "s1" ELSE "s2")
       \/ Top("sender").i = to_send + 1 /\ Suspends("sender")

Counts(p) ==
    \/ /\ Top(p).i = 0 /\ Goes(p) /\ UNCHANGED pending
       /\ received' = [received EXCEPT ![p] = @ + 1]
    \/ Top(p).i = 1 /\ Suspends(p)

SenderHandler ==
    \/ Runs("sender", "s1") /\ Counts("sender")
    \/ Runs("sender", "s2") /\ Exits("sender") /\ UNCHANGED <<pending, received>>

CatcherMain == Runs("catcher", "main") /\ Suspends("catcher")

\* Faulty variant: one signal too many is sent back.
SendBackOneMore ==
    /\ IF Top("catcher").i <= received["catcher"]
         THEN Sends("sender", "s1") /\ Goes("catcher")
         ELSE Sends("sender", "s2") /\ Exits("catcher")
    /\ UNCHANGED received

\* sendback.
SendBack ==
    /\ IF Top("catcher").i < received["catcher"]
         THEN Sends("sender", "s1") /\ Goes("catcher")
         ELSE Sends("sender", "s2") /\ Exits("catcher")
    /\ UNCHANGED received

CatcherHandler ==
    \/ Runs("catcher", "s1") /\ Counts("catcher")
    \/ Runs("catcher", "s2") /\ SendBack
------------------------------------------------------------------------------
(* Program b.                                                              *)

\* Faulty variant: the acknowledgement is not waited for.
SenderMainAckNoWait ==
    /\ Runs("sender", "main") /\ UNCHANGED received
    /\ \/ /\ Top("sender").i <= to_send /\ Goes("sender")
          /\ Sends("catcher", IF Top("sender").i < to_send THEN "s1" ELSE "s2")
       \/ Top("sender").i = to_send + 1 /\ Suspends("sender")

\* Each signal is followed by a sigsuspend, which the acknowledgement ends unless
\* it has come already.
SenderMainAck ==
    /\ Runs("sender", "main") /\ UNCHANGED received
    /\ LET i == Top("sender").i
       IN IF i % 2 = 1 THEN Suspends("sender")
          ELSE /\ i <= 2 * to_send /\ Goes("sender")
               /\ Sends("catcher", IF i < 2 * to_send THEN "s1" ELSE "s2")

SenderHandlerAck ==
    \/ /\ Runs("sender", "s1") /\ Returns("sender") /\ UNCHANGED pending
       /\ received' = [received EXCEPT !["sender"] = @ + 1]
    \/ Runs("sender", "s2") /\ Exits("sender") /\ UNCHANGED <<pending, received>>

CatcherMainAck ==
    /\ Runs("catcher", "main")
    /\ \/ Top("catcher").i = 0 /\ Suspends("catcher")
       \/ Top("catcher").i = 1 /\ Exits("catcher") /\ UNCHANGED <<pending, received>>

CatcherHandlerAck ==
    \/ /\ Runs("catcher", "s1")
       /\ \/ /\ Top("catcher").i = 0 /\ Goes("catcher") /\ Sends("sender", "s1")
             /\ received' = [received EXCEPT !["catcher"] = @ + 1]
          \/ Top("catcher").i = 1 /\ Suspends("catcher")
          \/ Top("catcher").i = 2 /\ Returns("catcher") /\ UNCHANGED <<pending, received>>
    \/ /\ Runs("catcher", "s2")
       /\ Sends("sender", "s2") /\ Returns("catcher") /\ UNCHANGED received
------------------------------------------------------------------------------
SenderStep ==
    \/ Deliver("sender")
    \/ variant = "a" /\ (SenderMain \/ SenderHandler)
    \/ variant = "b" /\ (SenderMainAck \/ SenderHandlerAck)

CatcherStep ==
    \/ Deliver("catcher")
    \/ variant = "a" /\ (CatcherMain \/ CatcherHandler)
    \/ variant = "b" /\ (CatcherMainAck \/ CatcherHandlerAck)

Next == (SenderStep \/ CatcherStep) /\ UNCHANGED <<variant, rt>>
------------------------------------------------------------------------------
\* Signals coalesce, overtake each other and interrupt the counting.  What is
\* counted only shrinks on the way in program a; program b, where each signal is
\* acknowledged, either hangs or has counted all of them on both sides.
CountsAreSound ==
    /\ received["sender"] <= received["catcher"] /\ received["catcher"] <= to_send
    /\ variant = "b" /\ Ended("sender") => received = [p \in Processes |-> to_send]

\* Program a ends with standard signals: s2 interrupts whatever the handlers of
\* s1 wait in.  (With SIGRT it may hang: SIGRTMIN overtakes, and the answer to it
\* is interrupted by a handler that never returns.)
Finished == \A p \in Processes : Ended(p)
==============================================================================
