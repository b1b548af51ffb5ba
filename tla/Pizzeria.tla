------------------------------ MODULE Pizzeria -------------------------------
(***************************************************************************)
(* The shared memory of lab07's pizzeria (struct pizzeria) and the steps   *)
(* that cooks and suppliers take on it.  The System V and the POSIX        *)
(* programs run the same code on the memory and differ in the semaphore    *)
(* operations around it: PizzeriaSysV and PizzeriaPosix extend this module *)
(* and add those.                                                          *)
(*                                                                         *)
(* The memory is not protected by the language: a counter update is a load *)
(* and a store, a scan looks at one word per step, and a value may be read *)
(* again after it was tested.                                              *)
(***************************************************************************)
EXTENDS Integers, FiniteSets

CONSTANTS Cooks,       \* the N cook processes
          Suppliers,   \* the M supplier processes
          OVEN_CAP,    \* slots of the oven (5 in the code)
          TABLE_CAP,   \* slots of the table (5 in the code)
          PizzaNos,    \* the numbers a pizza can have (0..9 in the code)
          MaxPizzas    \* bound: pizzas prepared in a behaviour

ASSUME PizzeriaAssumption ==
    /\ IsFiniteSet(Cooks) /\ IsFiniteSet(Suppliers)
    /\ Cooks \cap Suppliers = {}
    /\ OVEN_CAP \in Nat \ {0}
    /\ TABLE_CAP \in Nat \ {0}
    /\ PizzaNos \subseteq Nat
    /\ MaxPizzas \in Nat

VARIABLES oven, ovens_taken,                      \* struct pizzeria
          table, tables_taken, table_queue_start,
          sem,                                    \* the five semaphores
          pc, scan, index, loaded, pizza,         \* locals of the processes
          made, delivered                         \* pizzas prepared, delivered

vars == <<oven, ovens_taken, table, tables_taken, table_queue_start, sem, pc,
          scan, index, loaded, pizza, made, delivered>>

ovenVars  == <<oven, ovens_taken>>
tableVars == <<table, tables_taken, table_queue_start>>
locals    == <<scan, index, loaded, pizza>>
history   == <<made, delivered>>

FREE  == 0
TAKEN == 1

Procs      == Cooks \cup Suppliers
OvenSlots  == 0 .. OVEN_CAP - 1
TableSlots == 0 .. TABLE_CAP - 1

\* The semaphores' initial values are the programs' own: see their Init.
MemoryInit ==
    /\ oven = [s \in OvenSlots |-> FREE]
    /\ ovens_taken = 0
    /\ table = [s \in TableSlots |-> FREE]
    /\ tables_taken = 0
    /\ table_queue_start = 0
    /\ scan = [p \in Procs |-> 0]
    /\ index = [p \in Procs |-> 0]
    /\ loaded = [p \in Procs |-> 0]
    /\ pizza = [p \in Procs |-> 0]
    /\ made = 0
    /\ delivered = 0

Goto(p, from, to) ==
    /\ pc[p] = from
    /\ pc' = [pc EXCEPT ![p] = to]
------------------------------------------------------------------------------
(* The cook.                                                               *)

\* A pizza number is drawn before any semaphore is touched.
Prepare(c, to) ==
    /\ Goto(c, "prepare", to)
    /\ made < MaxPizzas
    /\ \E n \in PizzaNos : pizza' = [pizza EXCEPT ![c] = n]
    /\ made' = made + 1
    /\ UNCHANGED <<ovenVars, tableVars, sem, scan, index, loaded, delivered>>

\* ovens_taken++ and ovens_taken-- : a load, then a store of the loaded value
\* plus or minus one.
LoadOvens(c, from, to) ==
    /\ Goto(c, from, to)
    /\ loaded' = [loaded EXCEPT ![c] = ovens_taken]
    /\ UNCHANGED <<ovenVars, tableVars, sem, scan, index, pizza, history>>

StoreOvens(c, from, to, delta) ==
    /\ Goto(c, from, to)
    /\ ovens_taken' = loaded[c] + delta
    /\ UNCHANGED <<oven, tableVars, sem, locals, history>>

\* One look of the scan for a free oven slot.  The loop has no bound of its
\* own: OvenScanInBounds, checked for both programs, says that no look falls
\* outside the array, so what lies there need not be modelled.
LookOven(c) ==
    /\ pc[c] = "look_oven"
    /\ scan[c] \in OvenSlots
    /\ \/ /\ oven[scan[c]] = FREE
          /\ pc' = [pc EXCEPT ![c] = "claim_oven"]
          /\ UNCHANGED scan
       \/ /\ oven[scan[c]] # FREE
          /\ scan' = [scan EXCEPT ![c] = @ + 1]
          /\ UNCHANGED pc
    /\ UNCHANGED <<ovenVars, tableVars, sem, index, loaded, pizza, history>>

ClaimOven(c) ==
    /\ Goto(c, "claim_oven", "leave_oven")
    /\ oven' = [oven EXCEPT ![scan[c]] = TAKEN]
    /\ index' = [index EXCEPT ![c] = scan[c]]
    /\ scan' = [scan EXCEPT ![c] = 0]
    /\ UNCHANGED <<ovens_taken, tableVars, sem, loaded, pizza, history>>

\* Faulty variant: the slot is counted down instead of set FREE.
FreeOvenDecrement(c) ==
    /\ Goto(c, "free_oven", "exit_oven")
    /\ oven' = [oven EXCEPT ![index[c]] = @ - 1]
    /\ UNCHANGED <<ovens_taken, tableVars, sem, locals, history>>

FreeOven(c) ==
    /\ Goto(c, "free_oven", "exit_oven")
    /\ oven' = [oven EXCEPT ![index[c]] = FREE]
    /\ UNCHANGED <<ovens_taken, tableVars, sem, locals, history>>

\* The words the scan of the table meets: the array, then the two counters
\* that follow it in the struct, then the zeroes of the rest of the page.
Word(w) ==
    CASE w \in TableSlots    -> table[w]
      [] w = TABLE_CAP       -> tables_taken
      [] w = TABLE_CAP + 1   -> table_queue_start
      [] w = TABLE_CAP + 2   -> FREE

LookTable(c) ==
    /\ pc[c] = "look_table"
    /\ \/ /\ Word(scan[c]) = FREE
          /\ pc' = [pc EXCEPT ![c] = "claim_table"]
          /\ UNCHANGED scan
       \/ /\ Word(scan[c]) # FREE
          /\ scan' = [scan EXCEPT ![c] = @ + 1]
          /\ UNCHANGED pc
    /\ UNCHANGED <<ovenVars, tableVars, sem, index, loaded, pizza, history>>

\* The pizza goes into the word found free.  Beyond the array it overwrites a
\* counter, or lies in the page's tail.  That word is not kept: only scans for a
\* free word read it, and those would end a word later and change nothing else.
ClaimTable(c) ==
    LET value == pizza[c] + 1
        word  == scan[c]
    IN /\ Goto(c, "claim_table", "load_table")
       /\ table' = IF word \in TableSlots THEN [table EXCEPT ![word] = value]
                                          ELSE table
       /\ tables_taken' = IF word = TABLE_CAP THEN value ELSE tables_taken
       /\ table_queue_start' =
             IF word = TABLE_CAP + 1 THEN value ELSE table_queue_start
       /\ scan' = [scan EXCEPT ![c] = 0]
       /\ index' = [index EXCEPT ![c] = word]
       /\ UNCHANGED <<ovenVars, sem, loaded, pizza, history>>

\* tables_taken++ of a cook and tables_taken-- of a supplier.
LoadTables(p, from, to) ==
    /\ Goto(p, from, to)
    /\ loaded' = [loaded EXCEPT ![p] = tables_taken]
    /\ UNCHANGED <<ovenVars, tableVars, sem, scan, index, pizza, history>>

StoreTables(p, from, to, delta) ==
    /\ Goto(p, from, to)
    /\ tables_taken' = loaded[p] + delta
    /\ UNCHANGED <<ovenVars, table, table_queue_start, sem, locals, history>>
------------------------------------------------------------------------------
(* The supplier.  No semaphore guards what it does to the table.           *)

\* Faulty variant: the modulo is applied to the look but not to the index kept.
LookForPizzaNoWrap(s) ==
    LET slot == (scan[s] + table_queue_start) % TABLE_CAP
    IN /\ pc[s] = "look_pizza"
       /\ IF table[slot] # FREE
            THEN /\ pc' = [pc EXCEPT ![s] = "shift_queue"]
                 /\ index' = [index EXCEPT ![s] = scan[s] + table_queue_start]
                 /\ scan' = [scan EXCEPT ![s] = 0]
            ELSE /\ scan' = [scan EXCEPT ![s] = @ + 1]
                 /\ UNCHANGED <<pc, index>>
       /\ loaded' = [loaded EXCEPT ![s] = table_queue_start]
       /\ pizza' = [pizza EXCEPT ![s] = table[slot]]
       /\ UNCHANGED <<ovenVars, tableVars, sem, history>>

\* One look of the scan, from the current queue start; the loop goes round
\* until it meets a pizza, so only i modulo TABLE_CAP matters.
LookForPizza(s) ==
    LET slot == (scan[s] + table_queue_start) % TABLE_CAP
    IN /\ pc[s] = "look_pizza"
       /\ \/ /\ table[slot] # FREE
             /\ pc' = [pc EXCEPT ![s] = "shift_queue"]
             /\ index' = [index EXCEPT ![s] = slot]
             /\ loaded' = [loaded EXCEPT ![s] = table_queue_start]
             /\ pizza' = [pizza EXCEPT ![s] = table[slot]]
             /\ scan' = [scan EXCEPT ![s] = 0]
          \/ /\ table[slot] = FREE
             /\ scan' = [scan EXCEPT ![s] = (@ + 1) % TABLE_CAP]
             /\ UNCHANGED <<pc, index, loaded, pizza>>
       /\ UNCHANGED <<ovenVars, tableVars, sem, history>>

\* Faulty variant: the slot is freed before the pizza is read from it.
ShiftQueueFreeing(s) ==
    /\ Goto(s, "shift_queue", "read_pizza")
    /\ table_queue_start' = (loaded[s] + 1) % TABLE_CAP
    /\ table' = [table EXCEPT ![index[s]] = FREE]
    /\ UNCHANGED <<ovenVars, tables_taken, sem, locals, history>>

\* table_queue_start++ and the reduction modulo TABLE_CAP, from the value
\* the scan loaded.
ShiftQueue(s) ==
    /\ Goto(s, "shift_queue", "read_pizza")
    /\ table_queue_start' = (loaded[s] + 1) % TABLE_CAP
    /\ UNCHANGED <<ovenVars, table, tables_taken, sem, locals, history>>

\* The pizza's number: the build may keep the word it tested or read the slot
\* again.  pizza[s] is the word, one more than the number.
ReadPizza(s) ==
    /\ Goto(s, "read_pizza", "load_taken")
    /\ pizza' \in { pizza, [pizza EXCEPT ![s] = table[index[s]]] }
    /\ UNCHANGED <<ovenVars, tableVars, sem, scan, index, loaded, history>>

FreeTable(s) ==
    /\ Goto(s, "free_table", "deliver")
    /\ table' = [table EXCEPT ![index[s]] = FREE]
    /\ UNCHANGED <<ovenVars, tables_taken, table_queue_start, sem, locals,
                   history>>

\* The supplier drives off with the pizza and starts over.
Deliver(s, to) ==
    /\ Goto(s, "deliver", to)
    /\ delivered' = delivered + 1
    /\ UNCHANGED <<ovenVars, tableVars, sem, locals, made>>
==============================================================================
