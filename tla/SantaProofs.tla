----------------------------- MODULE SantaProofs -----------------------------
(***************************************************************************)
(* Proofs about Santa, for any number of reindeers and of elves, any size  *)
(* of a group and any number of deliveries.                                *)
(***************************************************************************)
EXTENDS Santa, FiniteSetTheorems, TLAPS

Team == {r \in Reindeers : reindeer[r] # "away"}

\* Santa ends with the mutex and only then; he drives and helps with the count
\* that made him do so, which nobody changes meanwhile.
SantaInv ==
    /\ abandoned <=> santa = "finished"
    /\ santa # "finished" => jobs < MAX_JOBS
    /\ santa = "drive" => waiting_reindeers = REINDEERS_REQ
    /\ santa = "help" => waiting_elves = ELVES_REQ /\ \A i \in Places : workshop[i] = Nobody

\* A reindeer that is counted has not left: who leaves has seen the count 0.
TeamInv == waiting_reindeers <= Cardinality(Team)

\* While a group is not complete, no elf of it has been woken by another thread.
\* (The broadcast of the elf that completes it may wake the others, who come back
\* and queue.)
GroupInv ==
    santa # "help" /\ waiting_elves < ELVES_REQ =>
        \A i \in Places : workshop[i] # Nobody =>
            elf[workshop[i]] = "shop" \/ workshop[i] \in unbidden

SantaIInv ==
    /\ TypeOK /\ SantaInv /\ TeamInv /\ NoLostWakeUp
    /\ GroupInv /\ GroupIsSound /\ NoElfForgotten
------------------------------------------------------------------------------
\* Teams are finite, and one reindeer more or less changes the size by one.
LEMMA Teams ==
    ASSUME NEW S \in SUBSET Reindeers
    PROVE  /\ IsFiniteSet(S) /\ Cardinality(S) \in 0 .. REINDEERS_REQ
           /\ \A r \in Reindeers \ S : Cardinality(S \cup {r}) = Cardinality(S) + 1
           /\ Cardinality(S) = REINDEERS_REQ => S = Reindeers
<1>1. IsFiniteSet(Reindeers) /\ Cardinality(Reindeers) = REINDEERS_REQ
  BY FS_Interval, SantaAssumption DEF Reindeers
<1>2. IsFiniteSet(S) /\ Cardinality(S) <= REINDEERS_REQ
  BY <1>1, FS_Subset
<1>3. Cardinality(S) = REINDEERS_REQ => S = Reindeers
  BY <1>1, FS_Subset
<1> QED
  BY <1>2, <1>3, FS_CardinalityType, FS_AddElement, SantaAssumption

LEMMA Initially == Init => SantaIInv
<1> SUFFICES ASSUME Init PROVE SantaIInv
  OBVIOUS
<1> USE SantaAssumption DEF Init
<1>1. TypeOK
  <2>1. jobs \in 0 .. MAX_JOBS /\ waiting_reindeers \in 0 .. REINDEERS_REQ
        /\ waiting_elves \in 0 .. ELVES_REQ
    OBVIOUS
  <2>2. /\ workshop \in [Places -> Elves \cup {Nobody}]
        /\ reindeer \in [Reindeers -> {"away", "waiting", "woken"}]
        /\ elf \in [Elves -> {"away", "queue", "queue_woken", "shop", "shop_woken"}]
    OBVIOUS
  <2> QED
    BY <2>1, <2>2 DEF TypeOK
<1>2. TeamInv
  <2>1. Team \in SUBSET Reindeers
    BY DEF Team
  <2> QED
    BY <2>1, Teams DEF TeamInv
<1>3. SantaInv /\ NoLostWakeUp /\ NoElfForgotten
  BY DEF SantaInv, NoLostWakeUp, NoElfForgotten
<1>4. GroupInv /\ GroupIsSound
  BY DEF GroupInv, GroupIsSound, Places, Nobody
<1> QED
  BY <1>1, <1>2, <1>3, <1>4 DEF SantaIInv

\* Santa turns to a group only when it is complete; then every place is an elf's.
LEMMA TurnsToGroup ==
    ASSUME SantaIInv, TurnToElves, waiting_elves = ELVES_REQ, santa # "help",
           UNCHANGED <<waiting_elves, elf>>
    PROVE  /\ helped' \subseteq Elves /\ workshop' \in [Places -> Elves \cup {Nobody}]
           /\ NoLostWakeUp' /\ GroupInv' /\ GroupIsSound' /\ NoElfForgotten'
           /\ \A i \in Places : workshop'[i] = Nobody
<1> USE SantaAssumption DEF SantaIInv, TypeOK, TurnToElves
<1>1. \A i \in Places : workshop[i] \in Elves
  BY DEF GroupIsSound, Places, Nobody
<1>2. helped' \subseteq Elves /\ workshop' \in [Places -> Elves \cup {Nobody}]
  BY <1>1
<1>3. NoElfForgotten'
  BY <1>1 DEF NoElfForgotten
<1> QED
  BY <1>2, <1>3 DEF NoLostWakeUp, GroupInv, GroupIsSound

LEMMA SantaStepPreserves ==
    ASSUME SantaIInv, SantaStep
    PROVE  SantaIInv'
<1> USE SantaAssumption DEF SantaIInv
<1>1. CASE SantaChecks
  <2> USE <1>1 DEF SantaChecks
  <2>1. UNCHANGED <<abandoned, jobs, waiting_reindeers, waiting_elves, reindeer, elf, main>>
    OBVIOUS
  <2>2. TeamInv'
    BY <2>1 DEF TeamInv, Team
  <2>3. CASE /\ santa' \in {"asleep", "drive"} /\ UNCHANGED <<workshop, helped, unbidden>>
             /\ santa' = "asleep" => waiting_reindeers < REINDEERS_REQ /\ waiting_elves < ELVES_REQ
             /\ santa' = "drive" => waiting_reindeers = REINDEERS_REQ
    <3>1. TypeOK' /\ SantaInv'
      BY <2>1, <2>3 DEF TypeOK, SantaInv
    <3>2. NoLostWakeUp' /\ GroupInv' /\ GroupIsSound' /\ NoElfForgotten'
      BY <2>1, <2>3 DEF NoLostWakeUp, GroupInv, GroupIsSound, NoElfForgotten
    <3> QED
      BY <2>2, <3>1, <3>2
  <2>4. CASE waiting_elves = ELVES_REQ /\ TurnToElves
    <3>1. /\ helped' \subseteq Elves /\ workshop' \in [Places -> Elves \cup {Nobody}]
          /\ NoLostWakeUp' /\ GroupInv' /\ GroupIsSound' /\ NoElfForgotten'
          /\ \A i \in Places : workshop'[i] = Nobody
      BY <2>1, <2>4, TurnsToGroup
    <3>2. TypeOK' /\ SantaInv'
      BY <2>1, <2>4, <3>1 DEF TypeOK, SantaInv, TurnToElves
    <3> QED
      BY <2>2, <3>1, <3>2
  <2> QED
    BY <2>3, <2>4
<1>2. CASE SantaReturns
  <2> USE <1>2 DEF SantaReturns
  <2>1. /\ waiting_reindeers' = 0 /\ jobs' = jobs + 1 /\ jobs < MAX_JOBS
        /\ UNCHANGED <<waiting_elves, elf, main>>
        /\ reindeer' \in [Reindeers -> {"away", "waiting", "woken"}]
    BY DEF TypeOK, SantaInv, BroadcastReindeers
  <2>2. TeamInv'
    <3>1. Cardinality(Team') \in 0 .. REINDEERS_REQ
      BY Teams DEF Team
    <3> QED
      BY <2>1, <3>1 DEF TeamInv
  <2>3. CASE /\ UNCHANGED <<workshop, helped, unbidden>>
             /\ \/ jobs + 1 = MAX_JOBS /\ santa' = "finished" /\ abandoned' = TRUE
                \/ jobs + 1 # MAX_JOBS /\ santa' = "check" /\ UNCHANGED abandoned
    <3>1. TypeOK'
      <4>1. abandoned \in BOOLEAN /\ jobs \in 0 .. MAX_JOBS
        BY DEF TypeOK
      <4>2. jobs' \in 0 .. MAX_JOBS
        BY <2>1, <4>1
      <4>3. abandoned' \in BOOLEAN /\ santa' \in {"check", "finished"}
        <5> HIDE <1>2
        <5> QED
          BY <2>3, <4>1, Zenon
      <4> QED
        BY <2>1, <2>3, <4>2, <4>3 DEF TypeOK
    <3>2. SantaInv'
      BY <2>1, <2>3 DEF TypeOK, SantaInv
    <3>3. NoLostWakeUp' /\ GroupInv' /\ GroupIsSound' /\ NoElfForgotten'
      BY <2>1, <2>3 DEF NoLostWakeUp, GroupInv, GroupIsSound, NoElfForgotten
    <3> QED
      BY <2>2, <3>1, <3>2, <3>3
  <2>4. CASE /\ jobs + 1 # MAX_JOBS /\ waiting_elves = ELVES_REQ
             /\ TurnToElves /\ UNCHANGED abandoned
    <3>1. /\ helped' \subseteq Elves /\ workshop' \in [Places -> Elves \cup {Nobody}]
          /\ NoLostWakeUp' /\ GroupInv' /\ GroupIsSound' /\ NoElfForgotten'
          /\ \A i \in Places : workshop'[i] = Nobody
      BY <2>1, <2>4, TurnsToGroup
    <3>2. TypeOK' /\ SantaInv'
      BY <2>1, <2>4, <3>1 DEF TypeOK, SantaInv, TurnToElves
    <3> QED
      BY <2>2, <3>1, <3>2
  <2> QED
    BY <2>3, <2>4
<1>3. CASE SantaHasHelped
  <2> USE <1>3 DEF SantaHasHelped
  <2>1. \A e \in Elves : elf'[e] \in {"away", "queue", "queue_woken", "shop_woken"} \ {"queue"}
    BY DEF TypeOK, BroadcastElves
  <2>2. TypeOK' /\ SantaInv'
    BY DEF TypeOK, SantaInv, BroadcastElves
  <2>3. TeamInv'
    BY DEF TeamInv, Team
  <2>4. NoLostWakeUp' /\ NoElfForgotten'
    BY <2>1 DEF NoLostWakeUp, NoElfForgotten
  <2>5. GroupInv' /\ GroupIsSound'
    BY DEF SantaInv, GroupInv, GroupIsSound, Places
  <2> QED
    BY <2>2, <2>3, <2>4, <2>5
<1> QED
  BY <1>1, <1>2, <1>3 DEF SantaStep

LEMMA ReindeerStepPreserves ==
    ASSUME SantaIInv, NEW r \in Reindeers, ReindeerStep(r)
    PROVE  SantaIInv'
<1> USE SantaAssumption DEF SantaIInv
<1>1. CASE ReindeerArrives(r)
  <2> USE <1>1 DEF ReindeerArrives
  <2>1. /\ reindeer[r] = "away" /\ ~abandoned
        /\ waiting_reindeers' = waiting_reindeers + 1
        /\ UNCHANGED <<abandoned, jobs, waiting_elves, workshop, elf, helped, unbidden, main>>
    OBVIOUS
  <2>2. /\ reindeer' \in [Reindeers -> {"away", "waiting", "woken"}]
        /\ Team' = Team \cup {r} /\ r \notin Team
    BY DEF TypeOK, BroadcastReindeers, Team
  <2>3. Cardinality(Team') = Cardinality(Team) + 1 /\ Cardinality(Team') <= REINDEERS_REQ
        /\ Cardinality(Team) \in Nat
    BY <2>2, Teams DEF Team
  <2>4. TeamInv' /\ waiting_reindeers' \in 0 .. REINDEERS_REQ
    BY <2>1, <2>3 DEF TypeOK, TeamInv
  <2>5. \/ UNCHANGED santa /\ waiting_reindeers' < REINDEERS_REQ
        \/ santa' = "check" /\ santa = "asleep"
        \/ UNCHANGED santa /\ santa # "asleep"
    BY <2>4 DEF SignalSanta
  <2>6. TypeOK' /\ SantaInv'
    BY <2>1, <2>2, <2>4, <2>5 DEF TypeOK, SantaInv
  <2>7. NoLostWakeUp' /\ GroupInv' /\ GroupIsSound' /\ NoElfForgotten'
    BY <2>1, <2>5 DEF NoLostWakeUp, GroupInv, GroupIsSound, NoElfForgotten
  <2> QED
    BY <2>4, <2>6, <2>7
<1>2. CASE ReindeerRechecks(r)
  <2> USE <1>2 DEF ReindeerRechecks
  <2>1. TeamInv'
    <3>1. CASE waiting_reindeers > 0
      <4>1. Team' = Team
        BY <3>1 DEF TypeOK, Team
      <4> QED
        BY <4>1 DEF TeamInv
    <3>2. CASE waiting_reindeers = 0
      <4>1. Team' \in SUBSET Reindeers
        BY DEF Team
      <4>2. Cardinality(Team') \in Nat
        BY <4>1, Teams
      <4> QED
        BY <3>2, <4>2 DEF TeamInv
    <3> QED
      BY <3>1, <3>2 DEF TypeOK
  <2>2. TypeOK' /\ SantaInv'
    BY DEF TypeOK, SantaInv
  <2>3. NoLostWakeUp' /\ GroupInv' /\ GroupIsSound' /\ NoElfForgotten'
    BY DEF NoLostWakeUp, GroupInv, GroupIsSound, NoElfForgotten
  <2> QED
    BY <2>1, <2>2, <2>3
<1> QED
  BY <1>1, <1>2 DEF ReindeerStep

LEMMA ElfStepPreserves ==
    ASSUME SantaIInv, NEW e \in Elves, ElfStep(e)
    PROVE  SantaIInv'
<1> USE SantaAssumption DEF SantaIInv
<1>1. CASE ElfQueues(e)
  <2> USE <1>1 DEF ElfQueues
  <2>1. TypeOK' /\ SantaInv' /\ NoLostWakeUp'
    BY DEF TypeOK, SantaInv, NoLostWakeUp
  <2>2. TeamInv'
    BY DEF TeamInv, Team
  <2>3. GroupInv' /\ GroupIsSound'
    BY DEF GroupInv, GroupIsSound
  <2>4. NoElfForgotten'
    BY DEF TypeOK, NoElfForgotten
  <2> QED
    BY <2>1, <2>2, <2>3, <2>4
<1>2. CASE ElfEnters(e)
  <2> USE <1>2 DEF ElfEnters
  <2>1. /\ elf[e] \in {"away", "queue_woken"} /\ ~abandoned
        /\ waiting_elves < ELVES_REQ /\ waiting_elves' = waiting_elves + 1
        /\ workshop' = [workshop EXCEPT ![waiting_elves] = e]
        /\ UNCHANGED <<abandoned, jobs, waiting_reindeers, reindeer, helped, unbidden, main>>
    OBVIOUS
  <2>2. santa # "help" /\ waiting_elves \in Places /\ e # Nobody
    BY DEF TypeOK, SantaInv, Places, Elves, Nobody
  <2>3. \/ UNCHANGED santa /\ waiting_elves' < ELVES_REQ
        \/ santa' = "check" /\ santa = "asleep"
        \/ UNCHANGED santa /\ santa # "asleep"
    BY DEF TypeOK, SignalSanta
  <2>4. /\ elf' \in [Elves -> {"away", "queue", "queue_woken", "shop", "shop_woken"}]
        /\ elf'[e] = "shop"
        /\ \A d \in Elves \ {e} : elf'[d] = "shop" => elf[d] = "shop"
        /\ waiting_elves + 1 < ELVES_REQ => \A d \in Elves \ {e} : elf'[d] = elf[d]
    <3>1. CASE waiting_elves + 1 = ELVES_REQ
      <4>1. elf' = [BroadcastElves EXCEPT ![e] = "shop"]
        BY <3>1
      <4>2. BroadcastElves \in [Elves -> {"away", "queue_woken", "shop_woken"}]
        BY DEF TypeOK, BroadcastElves
      <4> HIDE <1>2
      <4> QED
        BY <3>1, <4>1, <4>2
    <3>2. CASE waiting_elves + 1 # ELVES_REQ
      <4>1. elf' = [elf EXCEPT ![e] = "shop"]
        BY <3>2
      <4> HIDE <1>2
      <4> QED
        BY <3>2, <4>1 DEF TypeOK
    <3> QED
      BY <3>1, <3>2
  <2>5. TypeOK'
    BY <2>1, <2>2, <2>3, <2>4 DEF TypeOK
  <2>6. SantaInv' /\ NoLostWakeUp'
    BY <2>1, <2>2, <2>3 DEF SantaInv, NoLostWakeUp
  <2>7. TeamInv'
    BY <2>1 DEF TeamInv, Team
  <2>8. GroupInv'
    BY <2>1, <2>2, <2>3, <2>4 DEF TypeOK, GroupInv, Places
  <2>9. GroupIsSound'
    <3>1. \A i \in Places : workshop[i] = e => e \in unbidden
      BY <2>1, <2>2 DEF TypeOK, GroupInv
    <3> QED
      BY <2>1, <2>2, <2>3, <3>1 DEF TypeOK, GroupIsSound, Places
  <2>10. NoElfForgotten'
    <3>1. \A i \in Places : workshop[i] # Nobody => workshop'[i] = workshop[i]
      BY <2>1, <2>2 DEF TypeOK, GroupIsSound, Places
    <3> QED
      BY <2>1, <2>2, <2>3, <2>4, <3>1 DEF TypeOK, NoElfForgotten, Elves, Nobody
  <2> QED
    BY <2>5, <2>6, <2>7, <2>8, <2>9, <2>10
<1>3. CASE ElfLeaves(e)
  <2> USE <1>3 DEF ElfLeaves
  <2>1. TypeOK' /\ SantaInv' /\ NoLostWakeUp'
    BY DEF TypeOK, SantaInv, NoLostWakeUp
  <2>2. TeamInv'
    BY DEF TeamInv, Team
  <2>3. GroupInv' /\ GroupIsSound'
    BY DEF TypeOK, GroupInv, GroupIsSound
  <2>4. NoElfForgotten'
    BY DEF TypeOK, NoElfForgotten
  <2> QED
    BY <2>1, <2>2, <2>3, <2>4
<1> QED
  BY <1>1, <1>2, <1>3 DEF ElfStep

\* A wait that ends unbidden takes its thread to the test it would make anyway,
\* and takes an elf out of the shop only into unbidden.
LEMMA WakesUnbiddenPreserves ==
    ASSUME SantaIInv, WakesUnbidden
    PROVE  SantaIInv'
<1> USE SantaAssumption DEF SantaIInv, WakesUnbidden
<1>1. /\ UNCHANGED <<abandoned, jobs, waiting_reindeers, waiting_elves, workshop, helped, main>>
      /\ santa' = santa \/ (santa = "asleep" /\ santa' = "check")
  OBVIOUS
<1>2. /\ reindeer' \in [Reindeers -> {"away", "waiting", "woken"}]
      /\ \A r \in Reindeers : reindeer'[r] = "away" <=> reindeer[r] = "away"
  BY DEF TypeOK
<1>3. /\ elf' \in [Elves -> {"away", "queue", "queue_woken", "shop", "shop_woken"}]
      /\ unbidden \subseteq unbidden' /\ unbidden' \subseteq Elves
      /\ \A e \in Elves : elf'[e] = "shop" => elf[e] = "shop"
      /\ \A i \in Places : workshop[i] \in Elves /\ elf[workshop[i]] = "shop" =>
            elf'[workshop[i]] = "shop" \/ workshop[i] \in unbidden'
  BY DEF TypeOK
<1> HIDE DEF WakesUnbidden
<1>4. TypeOK' /\ SantaInv'
  BY <1>1, <1>2, <1>3 DEF TypeOK, SantaInv
<1>5. TeamInv'
  <2>1. Team' = Team
    BY <1>2 DEF Team
  <2> QED
    BY <1>1, <2>1 DEF TeamInv
<1>6. NoLostWakeUp' /\ NoElfForgotten'
  BY <1>1, <1>3 DEF NoLostWakeUp, NoElfForgotten
<1>7. GroupInv' /\ GroupIsSound'
  BY <1>1, <1>3 DEF TypeOK, GroupInv, GroupIsSound
<1> QED
  BY <1>4, <1>5, <1>6, <1>7

LEMMA SantaInvariant == Spec => []SantaIInv
<1>1. SantaIInv /\ [Next]_vars => SantaIInv'
  <2> SUFFICES ASSUME SantaIInv, [Next]_vars PROVE SantaIInv'
    OBVIOUS
  <2>1. CASE SantaStep
    BY <2>1, SantaStepPreserves
  <2>2. ASSUME NEW r \in Reindeers, ReindeerStep(r) PROVE SantaIInv'
    BY <2>2, ReindeerStepPreserves
  <2>3. ASSUME NEW e \in Elves, ElfStep(e) PROVE SantaIInv'
    BY <2>3, ElfStepPreserves
  <2>4. CASE JoinSanta \/ UNCHANGED vars
    BY <2>4 DEF JoinSanta, vars, SantaIInv, TypeOK, SantaInv, TeamInv, Team,
       NoLostWakeUp, GroupInv, GroupIsSound, NoElfForgotten
  <2>5. CASE WakesUnbidden
    BY <2>5, WakesUnbiddenPreserves
  <2> QED
    BY <2>1, <2>2, <2>3, <2>4, <2>5 DEF Next
<1> QED
  BY <1>1, Initially, PTL DEF Spec
------------------------------------------------------------------------------
\* The counts, the places of the workshop and the threads' states stay in their
\* ranges: no reindeer is counted twice, no elf takes a place beyond the array
\* (main.c:117, 143).
THEOREM TypeCorrect == Spec => []TypeOK
  BY SantaInvariant, PTL DEF SantaIInv

\* Santa is not asleep while a team or a group waits (main.c:79-83, 119-123,
\* 149-153).
THEOREM NoLostWakeUpTheorem == Spec => []NoLostWakeUp
  BY SantaInvariant, PTL DEF SantaIInv

\* Count and workshop agree, and though the elf that completes a group wakes the
\* others early, only one whose own wait ended without a signal can have two
\* places of it (main.c:98-101, 144-155).
THEOREM GroupIsSoundTheorem == Spec => []GroupIsSound
  BY SantaInvariant, PTL DEF SantaIInv

\* Each elf that waits in the workshop is in the group that Santa will help or is
\* helping (main.c:154-157).
THEOREM NoElfForgottenTheorem == Spec => []NoElfForgotten
  BY SantaInvariant, PTL DEF SantaIInv

\* Santa drives with the whole team (main.c:85-91): the count does not exceed the
\* reindeers that have not left, and there are no more reindeers than a team.
THEOREM WholeTeamTheorem == Spec => []WholeTeamDrives
<1>1. SantaIInv => WholeTeamDrives
  <2> SUFFICES ASSUME SantaIInv, santa = "drive"
               PROVE  \A r \in Reindeers : reindeer[r] \in {"waiting", "woken"}
    BY DEF WholeTeamDrives
  <2>1. Cardinality(Team) \in 0 .. REINDEERS_REQ
        /\ (Cardinality(Team) = REINDEERS_REQ => Team = Reindeers)
    BY Teams DEF Team
  <2>2. Team = Reindeers
    BY <2>1, SantaAssumption DEF SantaIInv, SantaInv, TeamInv
  <2> QED
    BY <2>2 DEF Team, SantaIInv, TypeOK
<1> QED
  BY <1>1, SantaInvariant, PTL
==============================================================================
