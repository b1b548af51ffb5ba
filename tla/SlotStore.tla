------------------------------ MODULE SlotStore ------------------------------
(***************************************************************************)
(* What the pizzeria's oven promises its cooks, whatever synchronises it:  *)
(* a store of numbered slots in which a user holds at most one slot and no *)
(* slot has two holders.  Only its holder gives a slot back.               *)
(***************************************************************************)
CONSTANTS Users, Slots, None

VARIABLE held      \* the slot each user holds, or None

Init == held = [u \in Users |-> None]

\* A user without a slot obtains one that nobody holds.
Acquire(u, s) ==
    /\ held[u] = None
    /\ \A v \in Users : held[v] # s
    /\ held' = [held EXCEPT ![u] = s]

\* The holder of a slot gives it back.
Release(u) ==
    /\ held[u] # None
    /\ held' = [held EXCEPT ![u] = None]

Next == \E u \in Users : Release(u) \/ \E s \in Slots : Acquire(u, s)

Spec == Init /\ [][Next]_held
==============================================================================
