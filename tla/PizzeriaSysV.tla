---------------------------- MODULE PizzeriaSysV -----------------------------
(***************************************************************************)
(* lab07/src/SystemV: N cooks and M suppliers around one shared memory     *)
(* segment and one set of five System V semaphores.  A semop call applies  *)
(* all its operations at once or blocks.                                   *)
(***************************************************************************)
EXTENDS Pizzeria

\* Whether semop(ops) can proceed, and the semaphores it leaves.  ops maps the
\* semaphores it names to -1 or +1.
CanSemop(ops) == \A s \in DOMAIN ops : sem[s] + ops[s] >= 0
AfterSemop(ops) ==
    [s \in DOMAIN sem |-> IF s \in DOMAIN ops THEN sem[s] + ops[s] ELSE sem[s]]

Semop(p, from, to, ops) ==
    /\ Goto(p, from, to)
    /\ CanSemop(ops)
    /\ sem' = AfterSemop(ops)
    /\ UNCHANGED <<ovenVars, tableVars, locals, history>>

Init ==
    /\ MemoryInit
    /\ sem = [OVEN_PLACE |-> 1, OVEN_IN |-> OVEN_CAP, TABLE_PLACE |-> 1,
              TABLE_ON |-> TABLE_CAP, TABLE_READY |-> 0]
    /\ pc = [p \in Procs |-> IF p \in Cooks THEN "prepare" ELSE "wait_ready"]

\* Faulty variants of calls of make_pizza: one semaphore of two left out, or the
\* wrong one named.
EnterOvenUnlocked(c)   == Semop(c, "enter_oven", "load_in", [OVEN_IN |-> -1])
EnterOvenUncounted(c)  == Semop(c, "enter_oven", "load_in", [OVEN_PLACE |-> -1])
LeaveOvenWrong(c)      == Semop(c, "leave_oven", "bake", [OVEN_IN |-> 1])
ReenterOvenPosting(c)  == Semop(c, "bake", "load_out", [OVEN_PLACE |-> 1])
EnterTableUnlocked(c)  == Semop(c, "enter_table", "look_table", [TABLE_ON |-> -1])
ExitTableSilent(c)     == Semop(c, "exit_table", "prepare", [TABLE_PLACE |-> 1])

\* The semop calls of make_pizza, in program order.
EnterOven(c)   == Semop(c, "enter_oven", "load_in", [OVEN_PLACE |-> -1, OVEN_IN |-> -1])
LeaveOven(c)   == Semop(c, "leave_oven", "bake", [OVEN_PLACE |-> 1])
ReenterOven(c) == Semop(c, "bake", "load_out", [OVEN_PLACE |-> -1])
ExitOven(c)    == Semop(c, "exit_oven", "enter_table", [OVEN_PLACE |-> 1, OVEN_IN |-> 1])
EnterTable(c)  == Semop(c, "enter_table", "look_table", [TABLE_PLACE |-> -1, TABLE_ON |-> -1])
ExitTable(c)   == Semop(c, "exit_table", "prepare", [TABLE_PLACE |-> 1, TABLE_READY |-> 1])

\* make_pizza around the oven, and around the table.
BakePizza(c) ==
    \/ Prepare(c, "enter_oven")
    \/ EnterOven(c)
    \/ LoadOvens(c, "load_in", "store_in") \/ StoreOvens(c, "store_in", "look_oven", 1)
    \/ LookOven(c) \/ ClaimOven(c)
    \/ LeaveOven(c)
    \/ ReenterOven(c)
    \/ LoadOvens(c, "load_out", "store_out") \/ StoreOvens(c, "store_out", "free_oven", -1)
    \/ FreeOven(c)
    \/ ExitOven(c)

PlacePizza(c) ==
    \/ EnterTable(c)
    \/ LookTable(c) \/ ClaimTable(c)
    \/ LoadTables(c, "load_table", "store_table") \/ StoreTables(c, "store_table", "exit_table", 1)
    \/ ExitTable(c)

\* Faulty variant: the place on the table is not given back.
TakeReadyOnly(s) == Semop(s, "wait_ready", "look_pizza", [TABLE_READY |-> -1])

\* deliver: the place on the table is given back with the same semop that
\* takes the pizza's unit, before the slot is freed.
TakeReady(s) == Semop(s, "wait_ready", "look_pizza", [TABLE_ON |-> 1, TABLE_READY |-> -1])

SupplyPizza(s) ==
    \/ TakeReady(s)
    \/ LookForPizza(s) \/ ShiftQueue(s) \/ ReadPizza(s)
    \/ LoadTables(s, "load_taken", "store_taken") \/ StoreTables(s, "store_taken", "free_table", -1)
    \/ FreeTable(s)
    \/ Deliver(s, "wait_ready")

Next ==
    \/ \E c \in Cooks : BakePizza(c) \/ PlacePizza(c)
    \/ \E s \in Suppliers : SupplyPizza(s)

Spec == Init /\ [][Next]_vars

\* Every process runs.  The kernel serves a semaphore's waiters in turn, so a
\* semop that is possible again and again is done at last.
Fairness ==
    /\ \A c \in Cooks : SF_vars(BakePizza(c)) /\ SF_vars(PlacePizza(c))
    /\ \A s \in Suppliers : SF_vars(SupplyPizza(s))

FairSpec == Spec /\ Fairness
------------------------------------------------------------------------------
(* Where a cook is.                                                        *)
AtDoor(c) == pc[c] \in {"load_in", "store_in", "look_oven", "claim_oven",
    "leave_oven", "load_out", "store_out", "free_oven", "exit_oven"}
InOven(c)  == AtDoor(c) \/ pc[c] = "bake"
Counted(c) == pc[c] \in {"look_oven", "claim_oven", "leave_oven", "bake",
    "load_out", "store_out"}
Holding(c) == pc[c] \in {"leave_oven", "bake", "load_out", "store_out",
    "free_oven"}
AtTable(c) == pc[c] \in {"look_table", "claim_table", "load_table",
    "store_table", "exit_table"}

CooksInOven  == {c \in Cooks : InOven(c)}
CountedCooks == {c \in Cooks : Counted(c)}
CooksAtTable == {c \in Cooks : AtTable(c)}

CookPcs == {"prepare", "enter_oven", "load_in", "store_in", "look_oven",
    "claim_oven", "leave_oven", "bake", "load_out", "store_out", "free_oven",
    "exit_oven", "enter_table", "look_table", "claim_table", "load_table",
    "store_table", "exit_table"}
SupplierPcs == {"wait_ready", "look_pizza", "shift_queue", "read_pizza",
    "load_taken", "store_taken", "free_table", "deliver"}
------------------------------------------------------------------------------
(* Types.  tables_taken is any integer: its updates can be lost.           *)
TypeOK ==
    /\ oven \in [OvenSlots -> {FREE, TAKEN}]
    /\ ovens_taken \in Int
    /\ table \in [TableSlots -> Nat]
    /\ tables_taken \in Int
    /\ table_queue_start \in Nat
    /\ sem \in [{"OVEN_PLACE", "OVEN_IN", "TABLE_PLACE", "TABLE_ON",
                 "TABLE_READY"} -> Nat]
    /\ pc \in [Procs -> CookPcs \cup SupplierPcs]
    /\ \A c \in Cooks : pc[c] \in CookPcs
    /\ \A s \in Suppliers : pc[s] \in SupplierPcs
    /\ scan \in [Procs -> Nat]
    /\ index \in [Procs -> Nat]
    /\ \A s \in Suppliers : index[s] \in TableSlots
    /\ loaded \in [Procs -> Int]
    /\ pizza \in [Procs -> Nat]
    /\ made \in Nat
    /\ delivered \in Nat

\* The number printed as "Liczba pizz w piecu" is the number of pizzas in the
\* oven at every moment, and fits the oven: no update of ovens_taken is lost
\* (cook.c:90 and 112 race in the absence of OVEN_PLACE).
OvenCountExact ==
    /\ ovens_taken = Cardinality(CountedCooks)
    /\ ovens_taken <= OVEN_CAP

\* A slot is TAKEN exactly while one cook's pizza is in it, so no cook puts a
\* pizza on another or frees another's slot (cook.c:91-97 and 113).
OvenSlotsOwned ==
    \A s \in OvenSlots :
        /\ oven[s] = TAKEN <=> \E c \in Cooks : Holding(c) /\ index[c] = s
        /\ \A c, d \in Cooks :
              Holding(c) /\ Holding(d) /\ index[c] = s /\ index[d] = s => c = d

\* The unbounded loop at cook.c:91 finds a free slot inside the array.
OvenScanInBounds ==
    \A c \in Cooks : pc[c] \in {"look_oven", "claim_oven"} => scan[c] < OVEN_CAP

\* No unit of the table is lost or invented: a unit is free (TABLE_ON), stands
\* for a placed pizza (TABLE_READY), or is with the one cook at the table.
TableUnits ==
    sem["TABLE_ON"] + sem["TABLE_READY"] + Cardinality(CooksAtTable) = TABLE_CAP

\* Every pizza prepared is with a cook, announced by TABLE_READY, with a
\* supplier, or delivered: suppliers make as many deliveries as cooks make
\* pizzas, although they may take the same pizza twice.
PizzasAccounted ==
    made = Cardinality({c \in Cooks : pc[c] # "prepare"})
           + sem["TABLE_READY"]
           + Cardinality({s \in Suppliers : pc[s] # "wait_ready"})
           + delivered

\* With a single supplier nobody empties a slot under its hands: it never
\* carries off the word FREE, pizza number -1 (supplier.c:70-75).
SoleSupplierCarriesPizza ==
    Cardinality(Suppliers) = 1 =>
        \A s \in Suppliers :
            pc[s] \in {"load_taken", "store_taken", "free_table", "deliver"}
                => pizza[s] # FREE

\* Cooks never put a pizza on a pizza: a slot that holds one keeps it until it
\* is freed (the scan and the store at cook.c:125-132 are two steps).
NoOverwrite ==
    [][\A s \in TableSlots : table[s] # FREE => table'[s] \in {table[s], FREE}]_vars

\* What wnioski.txt:2 reports of both programs: the number of pizzas on the
\* table, as printed, does not exceed the table.
TableCountBounded == tables_taken <= TABLE_CAP

\* A pizza put in the oven is taken out, and a cook who comes to the table
\* places its pizza: nobody waits for ever for a unit or for OVEN_PLACE.
PizzaLeavesOven  == \A c \in Cooks : InOven(c) ~> ~InOven(c)
PizzaIsPlaced == \A c \in Cooks : pc[c] = "enter_table" ~> pc[c] = "prepare"

\* The oven is the abstract slot store: its scan, claim and free steps under
\* OVEN_PLACE act as one acquisition and one release each.
Store == INSTANCE SlotStore WITH
    Users <- Cooks, Slots <- OvenSlots, None <- OVEN_CAP,
    held  <- [c \in Cooks |-> IF Holding(c) THEN index[c] ELSE OVEN_CAP]
OvenIsSlotStore == Store!Spec
==============================================================================
