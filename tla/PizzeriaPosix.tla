---------------------------- MODULE PizzeriaPosix ----------------------------
(***************************************************************************)
(* lab07/src/POSIX: the pizzeria with named POSIX semaphores.  sem_wait    *)
(* and sem_post work on one semaphore at a time.                           *)
(***************************************************************************)
EXTENDS Pizzeria

SemStep(p, from, to, s, delta) ==
    /\ Goto(p, from, to)
    /\ sem[s] + delta >= 0
    /\ sem' = [sem EXCEPT ![s] = @ + delta]
    /\ UNCHANGED <<ovenVars, tableVars, locals, history>>

SemWait(p, from, to, s) == SemStep(p, from, to, s, -1)
SemPost(p, from, to, s) == SemStep(p, from, to, s, 1)

Init ==
    /\ MemoryInit
    /\ sem = [oven_place |-> 1, oven_in |-> OVEN_CAP, table_place |-> 1,
              table_on |-> TABLE_CAP, table_ready |-> 0]
    /\ pc = [p \in Procs |-> IF p \in Cooks THEN "prepare" ELSE "wait_ready"]

\* make_pizza around the oven.  The call before the pizza is pulled out is a
\* sem_post where the matching code of System V takes OVEN_PLACE.
ReenterOven(c) == SemPost(c, "bake", "load_out", "oven_place")

\* Faulty variant: a post where the wait belongs.
TakeOvenUnitPosting(c) == SemPost(c, "wait_in", "wait_place", "oven_in")

TakeOvenUnit(c) == SemWait(c, "wait_in", "wait_place", "oven_in")

BakePizza(c) ==
    \/ Prepare(c, "wait_in")
    \/ TakeOvenUnit(c)
    \/ SemWait(c, "wait_place", "load_in", "oven_place")
    \/ LoadOvens(c, "load_in", "store_in") \/ StoreOvens(c, "store_in", "look_oven", 1)
    \/ LookOven(c) \/ ClaimOven(c)
    \/ SemPost(c, "leave_oven", "bake", "oven_place")
    \/ ReenterOven(c)
    \/ LoadOvens(c, "load_out", "store_out") \/ StoreOvens(c, "store_out", "free_oven", -1)
    \/ FreeOven(c)
    \/ SemPost(c, "exit_oven", "post_in", "oven_place")
    \/ SemPost(c, "post_in", "wait_on", "oven_in")

\* Faulty variant: a post where the wait belongs.
TakeTablePlacePosting(c) == SemPost(c, "wait_table", "look_table", "table_place")

\* make_pizza around the table: the pizza is announced before table_place is
\* given back.
TakeTablePlace(c) == SemWait(c, "wait_table", "look_table", "table_place")

PlacePizza(c) ==
    \/ SemWait(c, "wait_on", "wait_table", "table_on")
    \/ TakeTablePlace(c)
    \/ LookTable(c) \/ ClaimTable(c)
    \/ LoadTables(c, "load_table", "store_table") \/ StoreTables(c, "store_table", "exit_table", 1)
    \/ SemPost(c, "exit_table", "post_table", "table_ready")
    \/ SemPost(c, "post_table", "prepare", "table_place")

\* Faulty variant: the wrong semaphore is posted.
ReturnPlaceWrong(s) == SemPost(s, "post_on", "look_pizza", "table_place")

\* deliver.
ReturnPlace(s) == SemPost(s, "post_on", "look_pizza", "table_on")

SupplyPizza(s) ==
    \/ SemWait(s, "wait_ready", "post_on", "table_ready")
    \/ ReturnPlace(s)
    \/ LookForPizza(s) \/ ShiftQueue(s) \/ ReadPizza(s)
    \/ LoadTables(s, "load_taken", "store_taken") \/ StoreTables(s, "store_taken", "free_table", -1)
    \/ FreeTable(s)
    \/ Deliver(s, "wait_ready")

Next ==
    \/ \E c \in Cooks : BakePizza(c) \/ PlacePizza(c)
    \/ \E s \in Suppliers : SupplyPizza(s)

Spec == Init /\ [][Next]_vars
------------------------------------------------------------------------------
InOven(c) == pc[c] \in {"wait_place", "load_in", "store_in", "look_oven",
    "claim_oven", "leave_oven", "bake", "load_out", "store_out", "free_oven",
    "exit_oven", "post_in"}
WithTablePlace(c) == pc[c] \in {"wait_table", "look_table", "claim_table",
    "load_table", "store_table", "exit_table"}

TypeOK ==
    /\ oven \in [OvenSlots -> {FREE, TAKEN}]
    /\ ovens_taken \in Int
    /\ table \in [TableSlots -> Nat]
    /\ tables_taken \in Int
    /\ table_queue_start \in Nat
    /\ sem \in [{"oven_place", "oven_in", "table_place", "table_on",
                 "table_ready"} -> Nat]
    /\ \A c \in Cooks : InOven(c) \/ WithTablePlace(c)
          \/ pc[c] \in {"prepare", "wait_in", "wait_on", "post_table"}
    /\ \A s \in Suppliers : pc[s] \in {"wait_ready", "post_on", "look_pizza",
          "shift_queue", "read_pizza", "load_taken", "store_taken", "free_table",
          "deliver"}
    /\ scan \in [Procs -> Nat]
    /\ index \in [Procs -> Nat]
    /\ loaded \in [Procs -> Int]
    /\ pizza \in [Procs -> Nat]
    /\ made \in Nat
    /\ delivered \in Nat

\* Even without mutual exclusion at the oven, oven_in keeps the scan at
\* cook.c:77 inside the array: it meets a free slot before the end.
OvenScanInBounds ==
    \A c \in Cooks : pc[c] \in {"look_oven", "claim_oven"} => scan[c] < OVEN_CAP

\* No unit of the table is lost: it is free, announces a pizza, is with a cook
\* who has waited for it, or with a supplier about to give it back.
TableUnits ==
    sem["table_on"] + sem["table_ready"]
        + Cardinality({c \in Cooks : WithTablePlace(c)})
        + Cardinality({s \in Suppliers : pc[s] = "post_on"}) = TABLE_CAP

\* table_place does exclude: no cook puts a pizza on a pizza (cook.c:108-115).
NoOverwrite ==
    [][\A s \in TableSlots : table[s] # FREE => table'[s] \in {table[s], FREE}]_vars

\* wnioski.txt:2 of the oven: the number printed does not exceed its slots.
OvenCountBounded == ovens_taken <= OVEN_CAP
==============================================================================
