------------------------- MODULE PizzeriaPosixProofs -------------------------
(***************************************************************************)
(* Proofs about PizzeriaPosix, for every number of cooks, suppliers, slots *)
(* and pizzas.                                                             *)
(*                                                                         *)
(* oven_place does not exclude, so two cooks may claim one slot and one    *)
(* may free what another still uses.  That the scan of the oven stops in   *)
(* the array rests on oven_in alone: a cook passes slot i only when some   *)
(* cook who has claimed it still holds it, so the cooks that are beyond a  *)
(* slot get fewer with each slot (BeyondInv).                              *)
(***************************************************************************)
EXTENDS PizzeriaPosix, FiniteSetTheorems, TLAPS

Sems == {"oven_place", "oven_in", "table_place", "table_on", "table_ready"}

CookPcs == {"prepare", "wait_in", "wait_place", "load_in", "store_in", "look_oven",
    "claim_oven", "leave_oven", "bake", "load_out", "store_out", "free_oven",
    "exit_oven", "post_in", "wait_on", "wait_table", "look_table", "claim_table",
    "load_table", "store_table", "exit_table", "post_table"}
SupplierPcs == {"wait_ready", "post_on", "look_pizza", "shift_queue", "read_pizza",
    "load_taken", "store_taken", "free_table", "deliver"}

PcInv ==
    /\ pc \in [Procs -> CookPcs \cup SupplierPcs]
    /\ \A c \in Cooks : pc[c] \in CookPcs
    /\ \A s \in Suppliers : pc[s] \in SupplierPcs

DataInv ==
    /\ oven \in [OvenSlots -> {FREE, TAKEN}] /\ ovens_taken \in Int
    /\ table \in [TableSlots -> Nat] /\ tables_taken \in Int /\ table_queue_start \in Nat
    /\ sem \in [Sems -> Nat]
    /\ scan \in [Procs -> Nat] /\ index \in [Procs -> Nat]
    /\ \A s \in Suppliers : index[s] \in TableSlots
    /\ loaded \in [Procs -> Int] /\ pizza \in [Procs -> Nat]
    /\ made \in Nat /\ delivered \in Nat

Types == PcInv /\ DataInv

\* Scanning cooks and cooks with a slot, from slot i on.
Scanning(c) == pc[c] \in {"look_oven", "claim_oven"}
Holding(c)  == pc[c] \in {"leave_oven", "bake", "load_out", "store_out", "free_oven"}
Beyond(i) == {c \in Cooks : \/ Scanning(c) /\ scan[c] >= i
                            \/ Holding(c) /\ index[c] >= i}

CooksInOven == {c \in Cooks : InOven(c)}

UnitsInv == sem["oven_in"] + Cardinality(CooksInOven) = OVEN_CAP

\* Who has claimed a slot last has not freed it yet.
TakenInv ==
    \A s \in OvenSlots : oven[s] = TAKEN => \E c \in Cooks : Holding(c) /\ index[c] = s

BeyondInv == \A i \in 0 .. OVEN_CAP : Cardinality(Beyond(i)) <= OVEN_CAP - i

ScanInv ==
    \A c \in Cooks : scan[c] # 0 =>
        Scanning(c) \/ pc[c] \in {"look_table", "claim_table"}

OvenInv == UnitsInv /\ TakenInv /\ BeyondInv /\ ScanInv

\* table_place admits one cook, and what it has found free stays free.
AtTable(c) == pc[c] \in {"look_table", "claim_table", "load_table", "store_table",
    "exit_table", "post_table"}

TableDoorInv ==
    /\ sem["table_place"] \in {0, 1}
    /\ sem["table_place"] = 1 => \A c \in Cooks : ~AtTable(c)
    /\ \A c, d \in Cooks : AtTable(c) /\ AtTable(d) => c = d

ClaimInv ==
    \A c \in Cooks :
        pc[c] = "claim_table" /\ scan[c] \in TableSlots => table[scan[c]] = FREE

TableInv == TableDoorInv /\ TableUnits /\ ClaimInv

PosixInv == Types /\ OvenInv /\ TableInv
------------------------------------------------------------------------------
(* Types.                                                                  *)

LEMMA ModuloInSlots ==
    ASSUME NEW k \in Nat, NEW n \in Nat \ {0}
    PROVE  k % n \in 0 .. n - 1
  OBVIOUS

LEMMA TypesImply == Types => TypeOK
  BY DEF Types, PcInv, DataInv, TypeOK, Sems, CookPcs, SupplierPcs, InOven, WithTablePlace

LEMMA SemTypes ==
    ASSUME Types, NEW p \in Procs, NEW from, NEW to, NEW s \in Sems, NEW delta \in {1, -1},
           SemStep(p, from, to, s, delta),
           p \in Cooks => to \in CookPcs, p \in Suppliers => to \in SupplierPcs
    PROVE  /\ Types'
           /\ pc[p] = from /\ pc' = [pc EXCEPT ![p] = to]
           /\ sem'[s] = sem[s] + delta /\ \A t \in Sems \ {s} : sem'[t] = sem[t]
           /\ UNCHANGED <<ovenVars, tableVars, locals, history>>
<1> USE DEF ovenVars, tableVars, locals, history, Goto, Types
<1>1. PcInv'
  BY PizzeriaAssumption DEF SemStep, PcInv, Procs
<1>2. sem' \in [Sems -> Nat]
  BY DEF SemStep, DataInv
<1>3. DataInv'
  BY <1>2 DEF SemStep, DataInv
<1>4. sem'[s] = sem[s] + delta /\ \A t \in Sems \ {s} : sem'[t] = sem[t]
  BY DEF SemStep, DataInv
<1> QED
  BY <1>1, <1>3, <1>4 DEF SemStep

LEMMA TypesInit == Init => Types
<1> SUFFICES ASSUME Init PROVE Types
  OBVIOUS
<1>1. PcInv
  BY PizzeriaAssumption DEF Init, PcInv, Procs, CookPcs, SupplierPcs
<1>2. DataInv
  BY PizzeriaAssumption DEF Init, MemoryInit, DataInv, Procs, FREE, TAKEN, TableSlots, Sems
<1> QED
  BY <1>1, <1>2 DEF Types

LEMMA TypesBake ==
    ASSUME Types, NEW c \in Cooks, BakePizza(c) PROVE Types'
<1> USE PizzeriaAssumption DEF ovenVars, tableVars, locals, history, Goto, Types, Procs
<1>0. c \in Procs /\ c \notin Suppliers /\ 1 \in {1, -1} /\ -1 \in {1, -1}
  OBVIOUS
<1>1. CASE \/ TakeOvenUnit(c) \/ SemWait(c, "wait_place", "load_in", "oven_place")
           \/ SemPost(c, "leave_oven", "bake", "oven_place") \/ ReenterOven(c)
           \/ SemPost(c, "exit_oven", "post_in", "oven_place")
           \/ SemPost(c, "post_in", "wait_on", "oven_in")
  <2>1. "oven_place" \in Sems /\ "oven_in" \in Sems
        /\ {"wait_place", "load_in", "bake", "load_out", "post_in", "wait_on"} \subseteq CookPcs
    BY DEF Sems, CookPcs
  <2> QED
    BY <1>0, <1>1, <2>1, SemTypes DEF TakeOvenUnit, ReenterOven, SemWait, SemPost
<1>2. CASE Prepare(c, "wait_in")
  BY <1>2 DEF Prepare, PcInv, DataInv, CookPcs
<1>3. CASE LoadOvens(c, "load_in", "store_in") \/ LoadOvens(c, "load_out", "store_out")
  BY <1>3 DEF LoadOvens, PcInv, DataInv, CookPcs
<1>4. CASE StoreOvens(c, "store_in", "look_oven", 1)
           \/ StoreOvens(c, "store_out", "free_oven", -1)
  BY <1>4 DEF StoreOvens, PcInv, DataInv, CookPcs
<1>5. CASE LookOven(c)
  BY <1>5 DEF LookOven, PcInv, DataInv, CookPcs
<1>6. CASE ClaimOven(c)
  BY <1>6 DEF ClaimOven, PcInv, DataInv, CookPcs, TAKEN
<1>7. CASE FreeOven(c)
  BY <1>7 DEF FreeOven, PcInv, DataInv, CookPcs, FREE
<1> QED
  BY <1>1, <1>2, <1>3, <1>4, <1>5, <1>6, <1>7 DEF BakePizza

LEMMA TypesPlace ==
    ASSUME Types, NEW c \in Cooks, PlacePizza(c) PROVE Types'
<1> USE PizzeriaAssumption DEF ovenVars, tableVars, locals, history, Goto, Types, Procs
<1>0. c \in Procs /\ c \notin Suppliers /\ 1 \in {1, -1} /\ -1 \in {1, -1}
  OBVIOUS
<1>1. CASE \/ SemWait(c, "wait_on", "wait_table", "table_on") \/ TakeTablePlace(c)
           \/ SemPost(c, "exit_table", "post_table", "table_ready")
           \/ SemPost(c, "post_table", "prepare", "table_place")
  <2>1. "table_place" \in Sems /\ "table_on" \in Sems /\ "table_ready" \in Sems
        /\ {"wait_table", "look_table", "post_table", "prepare"} \subseteq CookPcs
    BY DEF Sems, CookPcs
  <2> QED
    BY <1>0, <1>1, <2>1, SemTypes DEF TakeTablePlace, SemWait, SemPost
<1>2. CASE LookTable(c)
  BY <1>2 DEF LookTable, PcInv, DataInv, CookPcs
<1>3. CASE ClaimTable(c)
  BY <1>3 DEF ClaimTable, PcInv, DataInv, CookPcs
<1>4. CASE LoadTables(c, "load_table", "store_table")
  BY <1>4 DEF LoadTables, PcInv, DataInv, CookPcs
<1>5. CASE StoreTables(c, "store_table", "exit_table", 1)
  BY <1>5 DEF StoreTables, PcInv, DataInv, CookPcs
<1> QED
  BY <1>1, <1>2, <1>3, <1>4, <1>5 DEF PlacePizza

LEMMA TypesSupply ==
    ASSUME Types, NEW s \in Suppliers, SupplyPizza(s) PROVE Types'
<1> USE PizzeriaAssumption DEF ovenVars, tableVars, locals, history, Goto, Types, Procs
<1>0. s \in Procs /\ s \notin Cooks /\ 1 \in {1, -1} /\ -1 \in {1, -1}
  OBVIOUS
<1>1. CASE SemWait(s, "wait_ready", "post_on", "table_ready") \/ ReturnPlace(s)
  <2>1. "table_on" \in Sems /\ "table_ready" \in Sems
        /\ {"post_on", "look_pizza"} \subseteq SupplierPcs
    BY DEF Sems, SupplierPcs
  <2> QED
    BY <1>0, <1>1, <2>1, SemTypes DEF ReturnPlace, SemWait, SemPost
<1>2. CASE LookForPizza(s)
  <2> DEFINE slot == (scan[s] + table_queue_start) % TABLE_CAP
  <2>1. slot \in TableSlots /\ (scan[s] + 1) % TABLE_CAP \in Nat
    <3>1. scan[s] + table_queue_start \in Nat /\ scan[s] + 1 \in Nat
      BY DEF DataInv
    <3>2. \A k \in Nat : k % TABLE_CAP \in 0 .. TABLE_CAP - 1
      BY ModuloInSlots
    <3> QED
      BY <3>1, <3>2 DEF TableSlots
  <2>2. slot \in Nat /\ table[slot] \in Nat
    BY <2>1 DEF DataInv, TableSlots
  <2> HIDE DEF slot
  <2>3. \/ /\ pc' = [pc EXCEPT ![s] = "shift_queue"]
           /\ index' = [index EXCEPT ![s] = slot]
           /\ loaded' = [loaded EXCEPT ![s] = table_queue_start]
           /\ pizza' = [pizza EXCEPT ![s] = table[slot]]
           /\ scan' = [scan EXCEPT ![s] = 0]
        \/ /\ scan' = [scan EXCEPT ![s] = (@ + 1) % TABLE_CAP]
           /\ UNCHANGED <<pc, index, loaded, pizza>>
    BY <1>2 DEF LookForPizza, slot
  <2>4. UNCHANGED <<oven, ovens_taken, table, tables_taken,
                    table_queue_start, sem, made, delivered>>
    BY <1>2 DEF LookForPizza
  <2> QED
    BY <2>1, <2>2, <2>3, <2>4 DEF PcInv, DataInv, SupplierPcs
<1>3. CASE ShiftQueue(s)
  BY <1>3 DEF ShiftQueue, PcInv, DataInv, SupplierPcs
<1>4. CASE ReadPizza(s)
  BY <1>4 DEF ReadPizza, PcInv, DataInv, SupplierPcs
<1>5. CASE LoadTables(s, "load_taken", "store_taken")
  BY <1>5 DEF LoadTables, PcInv, DataInv, SupplierPcs
<1>6. CASE StoreTables(s, "store_taken", "free_table", -1)
  BY <1>6 DEF StoreTables, PcInv, DataInv, SupplierPcs
<1>7. CASE FreeTable(s)
  BY <1>7 DEF FreeTable, PcInv, DataInv, SupplierPcs, FREE
<1>8. CASE Deliver(s, "wait_ready")
  BY <1>8 DEF Deliver, PcInv, DataInv, SupplierPcs
<1> QED
  BY <1>1, <1>2, <1>3, <1>4, <1>5, <1>6, <1>7, <1>8 DEF SupplyPizza
------------------------------------------------------------------------------
(* The oven.                                                               *)

LEMMA CookSets ==
    ASSUME NEW S \in SUBSET Cooks, NEW c
    PROVE  /\ IsFiniteSet(S)
           /\ Cardinality(S) \in Nat
           /\ c \notin S => Cardinality(S \cup {c}) = Cardinality(S) + 1
           /\ c \in S => Cardinality(S \ {c}) = Cardinality(S) - 1
           /\ \A T \in SUBSET S : Cardinality(T) <= Cardinality(S)
<1>1. IsFiniteSet(S)
  BY FS_Subset, PizzeriaAssumption
<1>2. \A T \in SUBSET S : Cardinality(T) <= Cardinality(S)
  BY <1>1, FS_Subset
<1> QED
  BY <1>1, <1>2, FS_CardinalityType, FS_AddElement, FS_RemoveElement

\* Whoever scans or holds a slot has a unit of oven_in, so the bound at slot 0
\* is that of the semaphore; at the others nobody has come.
LEMMA BeyondStep ==
    ASSUME Types', BeyondInv, UnitsInv',
           \A i \in 1 .. OVEN_CAP : Beyond(i)' \subseteq Beyond(i)
    PROVE  BeyondInv'
<1> SUFFICES ASSUME NEW i \in 0 .. OVEN_CAP
             PROVE  Cardinality(Beyond(i)') <= OVEN_CAP - i
  BY DEF BeyondInv
<1>0. \A j \in 0 .. OVEN_CAP : Beyond(j) \in SUBSET Cooks /\ Beyond(j)' \in SUBSET Cooks
  BY DEF Beyond
<1>1. CASE i = 0
  <2>1. Beyond(i)' \subseteq CooksInOven' /\ CooksInOven' \in SUBSET Cooks
    BY DEF Beyond, Scanning, Holding, CooksInOven, InOven
  <2>2. /\ Cardinality(Beyond(i)') \in Nat /\ Cardinality(CooksInOven') \in Nat
        /\ Cardinality(Beyond(i)') <= Cardinality(CooksInOven')
    BY <1>0, <2>1, CookSets
  <2>3. sem'["oven_in"] \in Nat
    BY DEF Types, DataInv, Sems
  <2> QED
    BY <1>1, <2>2, <2>3, PizzeriaAssumption DEF UnitsInv
<1>2. CASE i # 0
  <2>1. i \in 1 .. OVEN_CAP
    BY <1>2, PizzeriaAssumption
  <2>2. /\ Cardinality(Beyond(i)') \in Nat /\ Cardinality(Beyond(i)) \in Nat
        /\ Cardinality(Beyond(i)') <= Cardinality(Beyond(i))
    BY <1>0, <2>1, CookSets
  <2>3. Cardinality(Beyond(i)) <= OVEN_CAP - i
    BY DEF BeyondInv
  <2> QED
    BY <2>2, <2>3, PizzeriaAssumption
<1> QED
  BY <1>1, <1>2

\* A cook passes a TAKEN slot: its holder, another cook, stays behind.
LEMMA BeyondPass ==
    ASSUME Types, TakenInv, BeyondInv, NEW c \in Cooks, pc[c] = "look_oven",
           scan[c] \in OvenSlots, oven[scan[c]] # FREE,
           scan' = [scan EXCEPT ![c] = @ + 1], UNCHANGED <<pc, index>>
    PROVE  BeyondInv'
<1>1. oven[scan[c]] = TAKEN
  BY DEF Types, DataInv
<1>2. PICK h \in Cooks : Holding(h) /\ index[h] = scan[c]
  BY <1>1 DEF TakenInv
<1>3. h # c
  BY <1>2 DEF Holding
<1>4. /\ scan[c] \in Nat /\ scan'[c] = scan[c] + 1
      /\ \A d \in Cooks \ {c} : scan'[d] = scan[d]
  BY DEF Types, DataInv, Procs
<1> SUFFICES ASSUME NEW i \in 0 .. OVEN_CAP
             PROVE  Cardinality(Beyond(i)') <= OVEN_CAP - i
  BY DEF BeyondInv
<1>5. i \in Nat /\ OVEN_CAP \in Nat /\ scan[c] + 1 \in 0 .. OVEN_CAP
  BY <1>4, PizzeriaAssumption DEF OvenSlots
<1>6. CASE i # scan[c] + 1
  <2>1. Beyond(i)' = Beyond(i)
    BY <1>4, <1>5, <1>6 DEF Beyond, Scanning, Holding
  <2> QED
    BY <2>1 DEF BeyondInv
<1>7. CASE i = scan[c] + 1
  <2> DEFINE B == Beyond(scan[c])
  <2>1. B \in SUBSET Cooks /\ h \in B
    BY <1>2, <1>4 DEF Beyond, Holding
  <2>2. Beyond(i)' \subseteq B \ {h}
    <3>1. ASSUME NEW d \in Beyond(i)' PROVE d \in B /\ d # h
      <4>1. /\ d \in Cooks
            /\ \/ Scanning(d) /\ scan'[d] >= scan[c] + 1
               \/ Holding(d) /\ index[d] >= scan[c] + 1
        BY <1>7, <3>1 DEF Beyond, Scanning, Holding
      <4>2. d # h
        BY <1>2, <1>4, <4>1 DEF Scanning, Holding
      <4>3. index[d] \in Nat /\ scan[d] \in Nat
        BY <4>1 DEF Types, DataInv, Procs
      <4>4. d \in B
        BY <1>4, <4>1, <4>3 DEF Beyond, Scanning
      <4> QED
        BY <4>2, <4>4
    <3> QED
      BY <3>1
  <2>3. Cardinality(B) <= OVEN_CAP - scan[c]
    BY <1>4, <1>5 DEF BeyondInv
  <2> HIDE DEF B
  <2>4. /\ Cardinality(B) \in Nat /\ Cardinality(B \ {h}) = Cardinality(B) - 1
        /\ B \ {h} \in SUBSET Cooks
    BY <2>1, CookSets
  <2>5. Cardinality(Beyond(i)') <= Cardinality(B \ {h}) /\ Cardinality(Beyond(i)') \in Nat
    BY <2>2, <2>4, CookSets
  <2> QED
    BY <1>4, <1>5, <1>7, <2>3, <2>4, <2>5
<1> QED
  BY <1>6, <1>7

\* Nobody can stand behind the last slot.
LEMMA ScanStopsInOven == Types /\ OvenInv => OvenScanInBounds
<1> SUFFICES ASSUME Types, BeyondInv, NEW c \in Cooks, Scanning(c)
             PROVE  scan[c] < OVEN_CAP
  BY DEF OvenInv, OvenScanInBounds, Scanning
<1>1. OVEN_CAP \in 0 .. OVEN_CAP /\ OVEN_CAP \in Nat /\ scan[c] \in Nat
  BY PizzeriaAssumption DEF Types, DataInv, Procs
<1>2. Beyond(OVEN_CAP) \in SUBSET Cooks
  BY DEF Beyond
<1>3. Cardinality(Beyond(OVEN_CAP)) \in Nat
  BY <1>2, CookSets
<1>4. Cardinality(Beyond(OVEN_CAP)) <= 0
  BY <1>1, <1>3 DEF BeyondInv
<1>5. c \notin Beyond(OVEN_CAP)
  <2> SUFFICES ASSUME c \in Beyond(OVEN_CAP) PROVE FALSE
    OBVIOUS
  <2>1. Cardinality(Beyond(OVEN_CAP) \ {c}) = Cardinality(Beyond(OVEN_CAP)) - 1
    BY <1>2, CookSets
  <2>2. Cardinality(Beyond(OVEN_CAP) \ {c}) \in Nat
    BY <1>2, CookSets
  <2> QED
    BY <1>3, <1>4, <2>1, <2>2
<1> QED
  BY <1>1, <1>5 DEF Beyond

\* A step after which every cook stands at the oven as before.
LEMMA OvenQuietStep ==
    ASSUME Types', OvenInv, ScanInv', UNCHANGED oven, sem'["oven_in"] = sem["oven_in"],
           \A d \in Cooks : /\ (InOven(d))' <=> InOven(d)
                            /\ (Scanning(d))' => Scanning(d) /\ scan'[d] = scan[d]
                            /\ (Holding(d))' <=> Holding(d)
                            /\ Holding(d) => index'[d] = index[d]
    PROVE  OvenInv'
<1>1. UnitsInv'
  <2>1. CooksInOven' = CooksInOven
    BY DEF CooksInOven
  <2> QED
    BY <2>1 DEF OvenInv, UnitsInv
<1>2. TakenInv'
  BY DEF OvenInv, TakenInv
<1>3. \A i \in 1 .. OVEN_CAP : Beyond(i)' \subseteq Beyond(i)
  BY DEF Beyond
<1>4. BeyondInv'
  BY <1>1, <1>3, BeyondStep DEF OvenInv
<1> QED
  BY <1>1, <1>2, <1>4 DEF OvenInv

LEMMA OvenBake ==
    ASSUME Types, Types', OvenInv, NEW c \in Cooks, BakePizza(c)
    PROVE  OvenInv'
<1> USE DEF Goto, ovenVars, tableVars, locals, history, Procs
<1>0. /\ \A d \in Cooks : d \in Procs /\ scan[d] \in Nat /\ index[d] \in Nat
      /\ c \in Procs /\ 1 \in {1, -1} /\ -1 \in {1, -1}
      /\ \A s \in Sems : sem[s] \in Nat
  BY DEF Types, DataInv
<1>1. PcInv
  BY DEF Types
<1>2. CASE TakeOvenUnit(c) \/ SemPost(c, "post_in", "wait_on", "oven_in")
  <2>1. /\ UNCHANGED <<oven, scan, index>>
        /\ \/ /\ pc[c] = "wait_in" /\ pc' = [pc EXCEPT ![c] = "wait_place"]
              /\ sem'["oven_in"] = sem["oven_in"] - 1
           \/ /\ pc[c] = "post_in" /\ pc' = [pc EXCEPT ![c] = "wait_on"]
              /\ sem'["oven_in"] = sem["oven_in"] + 1
    <3>1. "oven_in" \in Sems /\ "wait_place" \in CookPcs /\ "wait_on" \in CookPcs
          /\ c \notin Suppliers
      BY PizzeriaAssumption DEF Sems, CookPcs
    <3>2. CASE TakeOvenUnit(c)
      <4>1. SemStep(c, "wait_in", "wait_place", "oven_in", -1)
        BY <3>2 DEF TakeOvenUnit, SemWait
      <4> QED
        BY <1>0, <3>1, <4>1, SemTypes
    <3>3. CASE SemPost(c, "post_in", "wait_on", "oven_in")
      <4>1. SemStep(c, "post_in", "wait_on", "oven_in", 1)
        BY <3>3 DEF SemPost
      <4> QED
        BY <1>0, <3>1, <4>1, SemTypes
    <3> QED
      BY <1>2, <3>2, <3>3
  <2>2. \A d \in Cooks : /\ (Scanning(d))' <=> Scanning(d)
                         /\ (Holding(d))' <=> Holding(d)
    BY <1>1, <2>1 DEF Scanning, Holding, PcInv
  <2>3. UnitsInv'
    <3>1. \/ /\ CooksInOven' = CooksInOven \cup {c} /\ c \notin CooksInOven
             /\ sem'["oven_in"] = sem["oven_in"] - 1
          \/ /\ CooksInOven' = CooksInOven \ {c} /\ c \in CooksInOven
             /\ sem'["oven_in"] = sem["oven_in"] + 1
      BY <1>1, <2>1 DEF CooksInOven, InOven, PcInv
    <3>2. CooksInOven \in SUBSET Cooks
      BY DEF CooksInOven
    <3>3. /\ Cardinality(CooksInOven) \in Nat
          /\ \/ /\ Cardinality(CooksInOven') = Cardinality(CooksInOven) + 1
                /\ sem'["oven_in"] = sem["oven_in"] - 1
             \/ /\ Cardinality(CooksInOven') = Cardinality(CooksInOven) - 1
                /\ sem'["oven_in"] = sem["oven_in"] + 1
      BY <3>1, <3>2, CookSets
    <3>4. sem["oven_in"] \in Nat
      BY <1>0 DEF Sems
    <3> QED
      BY <3>3, <3>4, PizzeriaAssumption DEF OvenInv, UnitsInv
  <2>4. TakenInv'
    BY <2>1, <2>2 DEF OvenInv, TakenInv
  <2>5. ScanInv'
    BY <1>1, <2>1 DEF OvenInv, ScanInv, PcInv, Scanning
  <2>6. \A i \in 1 .. OVEN_CAP : Beyond(i)' \subseteq Beyond(i)
    BY <2>1, <2>2 DEF Beyond
  <2>7. BeyondInv'
    BY <2>3, <2>6, BeyondStep DEF OvenInv
  <2> QED
    BY <2>3, <2>4, <2>5, <2>7 DEF OvenInv
<1>3. CASE \/ SemWait(c, "wait_place", "load_in", "oven_place")
           \/ SemPost(c, "leave_oven", "bake", "oven_place") \/ ReenterOven(c)
           \/ SemPost(c, "exit_oven", "post_in", "oven_place")
  <2>1. /\ UNCHANGED <<oven, scan, index>>
        /\ \/ pc[c] = "wait_place" /\ pc' = [pc EXCEPT ![c] = "load_in"]
           \/ pc[c] = "leave_oven" /\ pc' = [pc EXCEPT ![c] = "bake"]
           \/ pc[c] = "bake" /\ pc' = [pc EXCEPT ![c] = "load_out"]
           \/ pc[c] = "exit_oven" /\ pc' = [pc EXCEPT ![c] = "post_in"]
    BY <1>3 DEF SemWait, SemPost, ReenterOven, SemStep
  <2>2. sem'["oven_in"] = sem["oven_in"]
    BY <1>3 DEF SemWait, SemPost, ReenterOven, SemStep, Types, DataInv, Sems
  <2>3. \A d \in Cooks : /\ (InOven(d))' <=> InOven(d)
                         /\ (Scanning(d))' <=> Scanning(d)
                         /\ (Holding(d))' <=> Holding(d)
    BY <1>1, <2>1 DEF InOven, Scanning, Holding, PcInv
  <2>4. ScanInv'
    BY <1>1, <2>1 DEF OvenInv, ScanInv, PcInv, Scanning
  <2> QED
    BY <2>1, <2>2, <2>3, <2>4, OvenQuietStep
<1>4. CASE \/ Prepare(c, "wait_in")
           \/ LoadOvens(c, "load_in", "store_in") \/ LoadOvens(c, "load_out", "store_out")
           \/ StoreOvens(c, "store_out", "free_oven", -1)
  <2>1. /\ UNCHANGED <<oven, sem, scan, index>>
        /\ \/ pc[c] = "prepare" /\ pc' = [pc EXCEPT ![c] = "wait_in"]
           \/ pc[c] = "load_in" /\ pc' = [pc EXCEPT ![c] = "store_in"]
           \/ pc[c] = "load_out" /\ pc' = [pc EXCEPT ![c] = "store_out"]
           \/ pc[c] = "store_out" /\ pc' = [pc EXCEPT ![c] = "free_oven"]
    BY <1>4 DEF Prepare, LoadOvens, StoreOvens
  <2>2. \A d \in Cooks : /\ (InOven(d))' <=> InOven(d)
                         /\ (Scanning(d))' <=> Scanning(d)
                         /\ (Holding(d))' <=> Holding(d)
    BY <1>1, <2>1 DEF InOven, Scanning, Holding, PcInv
  <2>3. ScanInv'
    BY <1>1, <2>1 DEF OvenInv, ScanInv, PcInv, Scanning
  <2> QED
    BY <2>1, <2>2, <2>3, OvenQuietStep
<1>5. CASE StoreOvens(c, "store_in", "look_oven", 1)
  <2>1. /\ UNCHANGED <<oven, sem, scan, index>>
        /\ pc[c] = "store_in" /\ pc' = [pc EXCEPT ![c] = "look_oven"]
    BY <1>5 DEF StoreOvens
  <2>2. \A d \in Cooks : /\ (InOven(d))' <=> InOven(d)
                         /\ d # c => ((Scanning(d))' <=> Scanning(d))
                         /\ (Holding(d))' <=> Holding(d)
    BY <1>1, <2>1 DEF InOven, Scanning, Holding, PcInv
  <2>3. scan[c] = 0 /\ ~Holding(c)
    BY <2>1 DEF OvenInv, ScanInv, Scanning, Holding
  <2>4. UnitsInv'
    <3>1. CooksInOven' = CooksInOven
      BY <2>2 DEF CooksInOven
    <3> QED
      BY <2>1, <3>1 DEF OvenInv, UnitsInv
  <2>5. TakenInv'
    BY <2>1, <2>2 DEF OvenInv, TakenInv
  <2>6. ScanInv'
    BY <1>1, <2>1 DEF OvenInv, ScanInv, PcInv, Scanning
  <2>7. \A i \in 1 .. OVEN_CAP : Beyond(i)' \subseteq Beyond(i)
    BY <1>0, <2>1, <2>2, <2>3 DEF Beyond
  <2>8. BeyondInv'
    BY <2>4, <2>7, BeyondStep DEF OvenInv
  <2> QED
    BY <2>4, <2>5, <2>6, <2>8 DEF OvenInv
<1>6. CASE LookOven(c)
  <2>1. /\ pc[c] = "look_oven" /\ scan[c] \in OvenSlots /\ UNCHANGED <<oven, sem, index>>
        /\ \/ UNCHANGED scan /\ pc' = [pc EXCEPT ![c] = "claim_oven"]
           \/ /\ oven[scan[c]] # FREE /\ UNCHANGED pc
              /\ scan' = [scan EXCEPT ![c] = @ + 1]
    BY <1>6 DEF LookOven
  <2>2. \A d \in Cooks : /\ (InOven(d))' <=> InOven(d)
                         /\ (Scanning(d))' <=> Scanning(d)
                         /\ (Holding(d))' <=> Holding(d)
    BY <1>1, <2>1 DEF InOven, Scanning, Holding, PcInv
  <2>3. ScanInv'
    BY <1>0, <1>1, <2>1 DEF OvenInv, ScanInv, PcInv, Scanning, Types, DataInv
  <2>4. CASE UNCHANGED scan
    BY <2>1, <2>2, <2>3, <2>4, OvenQuietStep
  <2>5. CASE ~UNCHANGED scan
    <3>1. BeyondInv'
      BY <2>1, <2>5, BeyondPass DEF OvenInv
    <3>2. UnitsInv'
      <4>1. CooksInOven' = CooksInOven
        BY <2>2 DEF CooksInOven
      <4> QED
        BY <2>1, <4>1 DEF OvenInv, UnitsInv
    <3>3. TakenInv'
      BY <2>1, <2>2 DEF OvenInv, TakenInv
    <3> QED
      BY <2>3, <3>1, <3>2, <3>3 DEF OvenInv
  <2> QED
    BY <2>4, <2>5
<1>7. CASE ClaimOven(c)
  <2>1. /\ pc[c] = "claim_oven" /\ pc' = [pc EXCEPT ![c] = "leave_oven"]
        /\ oven' = [oven EXCEPT ![scan[c]] = TAKEN]
        /\ index' = [index EXCEPT ![c] = scan[c]]
        /\ scan' = [scan EXCEPT ![c] = 0] /\ UNCHANGED sem
    BY <1>7 DEF ClaimOven
  <2>2. \A d \in Cooks : /\ (InOven(d))' <=> InOven(d)
                         /\ d # c => /\ (Scanning(d))' <=> Scanning(d)
                                     /\ (Holding(d))' <=> Holding(d)
                                     /\ index'[d] = index[d] /\ scan'[d] = scan[d]
    BY <1>1, <2>1 DEF InOven, Scanning, Holding, PcInv, Types, DataInv
  <2>3. /\ Scanning(c) /\ ~Holding(c) /\ ~(Scanning(c))' /\ (Holding(c))'
        /\ index'[c] = scan[c] /\ scan'[c] = 0
    BY <1>0, <1>1, <2>1 DEF Scanning, Holding, PcInv, Types, DataInv
  <2>4. UnitsInv'
    <3>1. CooksInOven' = CooksInOven
      BY <2>2 DEF CooksInOven
    <3> QED
      BY <2>1, <3>1 DEF OvenInv, UnitsInv
  <2>5. TakenInv'
    <3> SUFFICES ASSUME NEW s \in OvenSlots, oven'[s] = TAKEN
                 PROVE  \E d \in Cooks : (Holding(d))' /\ index'[d] = s
      BY DEF TakenInv
    <3>1. CASE s = scan[c]
      BY <2>3, <3>1
    <3>2. CASE s # scan[c]
      <4>1. oven[s] = TAKEN
        BY <2>1, <3>2 DEF Types, DataInv
      <4>2. PICK d \in Cooks : Holding(d) /\ index[d] = s
        BY <4>1 DEF OvenInv, TakenInv
      <4> QED
        BY <2>2, <2>3, <4>2
    <3> QED
      BY <3>1, <3>2
  <2>6. ScanInv'
    <3>1. \A d \in Cooks \ {c} : pc'[d] = pc[d]
      BY <1>1, <2>1 DEF PcInv
    <3> QED
      BY <2>2, <2>3, <3>1 DEF OvenInv, ScanInv, Scanning
  <2>7. \A i \in 1 .. OVEN_CAP : Beyond(i)' \subseteq Beyond(i)
    BY <2>2, <2>3 DEF Beyond
  <2>8. BeyondInv'
    BY <2>4, <2>7, BeyondStep DEF OvenInv
  <2> QED
    BY <2>4, <2>5, <2>6, <2>8 DEF OvenInv
<1>8. CASE FreeOven(c)
  <2>1. /\ pc[c] = "free_oven" /\ pc' = [pc EXCEPT ![c] = "exit_oven"]
        /\ oven' = [oven EXCEPT ![index[c]] = FREE] /\ UNCHANGED <<sem, scan, index>>
    BY <1>8 DEF FreeOven
  <2>2. \A d \in Cooks : /\ (InOven(d))' <=> InOven(d)
                         /\ (Scanning(d))' <=> Scanning(d)
                         /\ (Holding(d))' => Holding(d)
                         /\ d # c => ((Holding(d))' <=> Holding(d))
    BY <1>1, <2>1 DEF InOven, Scanning, Holding, PcInv
  <2>3. UnitsInv'
    <3>1. CooksInOven' = CooksInOven
      BY <2>2 DEF CooksInOven
    <3> QED
      BY <2>1, <3>1 DEF OvenInv, UnitsInv
  <2>4. TakenInv'
    <3> SUFFICES ASSUME NEW s \in OvenSlots, oven'[s] = TAKEN
                 PROVE  \E d \in Cooks : (Holding(d))' /\ index'[d] = s
      BY DEF TakenInv
    <3>1. s # index[c] /\ oven[s] = TAKEN
      BY <2>1 DEF Types, DataInv, FREE, TAKEN
    <3>2. PICK d \in Cooks : Holding(d) /\ index[d] = s
      BY <3>1 DEF OvenInv, TakenInv
    <3> QED
      BY <2>1, <2>2, <3>1, <3>2
  <2>5. ScanInv'
    BY <1>1, <2>1 DEF OvenInv, ScanInv, PcInv, Scanning
  <2>6. \A i \in 1 .. OVEN_CAP : Beyond(i)' \subseteq Beyond(i)
    BY <2>1, <2>2 DEF Beyond
  <2>7. BeyondInv'
    BY <2>3, <2>6, BeyondStep DEF OvenInv
  <2> QED
    BY <2>3, <2>4, <2>5, <2>7 DEF OvenInv
<1> QED
  BY <1>2, <1>3, <1>4, <1>5, <1>6, <1>7, <1>8 DEF BakePizza

\* Away from the oven.
LEMMA OvenPlace ==
    ASSUME Types, Types', OvenInv, NEW c \in Cooks, PlacePizza(c)
    PROVE  OvenInv'
<1> USE DEF Goto, ovenVars, tableVars, locals, history, Procs
<1>0. PcInv /\ scan \in [Procs -> Nat] /\ index \in [Procs -> Nat]
  BY DEF Types, DataInv
<1>1. UNCHANGED oven /\ sem'["oven_in"] = sem["oven_in"]
  BY DEF PlacePizza, SemWait, SemPost, TakeTablePlace, SemStep, LookTable, ClaimTable,
     LoadTables, StoreTables, Types, DataInv, Sems
<1>2. /\ \A d \in Cooks \ {c} : pc'[d] = pc[d] /\ scan'[d] = scan[d] /\ index'[d] = index[d]
      /\ \/ /\ pc[c] \in {"wait_on", "wait_table", "load_table", "store_table", "exit_table",
                          "post_table"}
            /\ pc'[c] \in {"wait_table", "look_table", "store_table", "exit_table",
                           "post_table", "prepare"}
            /\ scan'[c] = scan[c]
         \/ /\ pc[c] \in {"look_table", "claim_table"}
            /\ \/ pc'[c] \in {"look_table", "claim_table"}
               \/ pc'[c] = "load_table" /\ scan'[c] = 0
  <2> USE <1>0 DEF PcInv
  <2>1. CASE \/ SemWait(c, "wait_on", "wait_table", "table_on") \/ TakeTablePlace(c)
             \/ SemPost(c, "exit_table", "post_table", "table_ready")
             \/ SemPost(c, "post_table", "prepare", "table_place")
    BY <2>1 DEF SemWait, SemPost, TakeTablePlace, SemStep
  <2>2. CASE LoadTables(c, "load_table", "store_table")
             \/ StoreTables(c, "store_table", "exit_table", 1)
    BY <2>2 DEF LoadTables, StoreTables
  <2>3. CASE LookTable(c)
    BY <2>3 DEF LookTable
  <2>4. CASE ClaimTable(c)
    BY <2>4 DEF ClaimTable
  <2> QED
    BY <2>1, <2>2, <2>3, <2>4 DEF PlacePizza
<1>3. \A d \in Cooks : /\ (InOven(d))' <=> InOven(d)
                       /\ ~(Scanning(c))' /\ ~Holding(c)
                       /\ (Scanning(d))' => Scanning(d) /\ scan'[d] = scan[d]
                       /\ (Holding(d))' <=> Holding(d)
                       /\ Holding(d) => index'[d] = index[d]
  BY <1>2 DEF InOven, Scanning, Holding
<1>4. ScanInv'
  BY <1>2 DEF OvenInv, ScanInv, Scanning
<1> QED
  BY <1>1, <1>3, <1>4, OvenQuietStep

LEMMA OvenSupply ==
    ASSUME Types, Types', OvenInv, NEW s \in Suppliers, SupplyPizza(s)
    PROVE  OvenInv'
<1> USE DEF Goto, ovenVars, tableVars, locals, history, Procs
<1>0. PcInv /\ scan \in [Procs -> Nat] /\ index \in [Procs -> Nat] /\ s \notin Cooks
  BY PizzeriaAssumption DEF Types, DataInv
<1>1. UNCHANGED oven /\ sem'["oven_in"] = sem["oven_in"]
  BY DEF SupplyPizza, SemWait, SemPost, ReturnPlace, SemStep, LookForPizza, ShiftQueue,
     ReadPizza, LoadTables, StoreTables, FreeTable, Deliver, Types, DataInv, Sems
<1>2. \A d \in Cooks : pc'[d] = pc[d] /\ scan'[d] = scan[d] /\ index'[d] = index[d]
  BY <1>0 DEF SupplyPizza, SemWait, SemPost, ReturnPlace, SemStep, LookForPizza, ShiftQueue,
     ReadPizza, LoadTables, StoreTables, FreeTable, Deliver, PcInv
<1>3. \A d \in Cooks : /\ (InOven(d))' <=> InOven(d)
                       /\ (Scanning(d))' => Scanning(d) /\ scan'[d] = scan[d]
                       /\ (Holding(d))' <=> Holding(d)
                       /\ Holding(d) => index'[d] = index[d]
  BY <1>2 DEF InOven, Scanning, Holding
<1>4. ScanInv'
  BY <1>2 DEF OvenInv, ScanInv, Scanning
<1> QED
  BY <1>1, <1>3, <1>4, OvenQuietStep

LEMMA OvenInit == Init => OvenInv
<1> SUFFICES ASSUME Init PROVE OvenInv
  OBVIOUS
<1> USE PizzeriaAssumption DEF Init, MemoryInit, Procs
<1>1. \A c \in Cooks : pc[c] = "prepare" /\ scan[c] = 0
  OBVIOUS
<1>2. CooksInOven = {} /\ \A i \in 0 .. OVEN_CAP : Beyond(i) = {}
  BY <1>1 DEF CooksInOven, InOven, Beyond, Scanning, Holding
<1>3. UnitsInv /\ BeyondInv
  <2>1. Cardinality({}) = 0
    BY FS_EmptySet
  <2>2. sem["oven_in"] = OVEN_CAP /\ OVEN_CAP \in Nat
    OBVIOUS
  <2>3. UnitsInv
    BY <1>2, <2>1, <2>2 DEF UnitsInv
  <2>4. BeyondInv
    BY <1>2, <2>1, <2>2 DEF BeyondInv
  <2> QED
    BY <2>3, <2>4
<1>4. TakenInv /\ ScanInv
  BY <1>1 DEF TakenInv, ScanInv, FREE, TAKEN
<1> QED
  BY <1>3, <1>4 DEF OvenInv
------------------------------------------------------------------------------
(* The table.                                                              *)

\* Cooks and suppliers that have a unit of the table.
PlaceCooks == {c \in Cooks : WithTablePlace(c)}
Returning == {s \in Suppliers : pc[s] = "post_on"}

LEMMA SupplierSets ==
    ASSUME NEW S \in SUBSET Suppliers, NEW s
    PROVE  /\ Cardinality(S) \in Nat
           /\ s \notin S => Cardinality(S \cup {s}) = Cardinality(S) + 1
           /\ s \in S => Cardinality(S \ {s}) = Cardinality(S) - 1
<1>1. IsFiniteSet(S)
  BY FS_Subset, PizzeriaAssumption
<1> QED
  BY <1>1, FS_CardinalityType, FS_AddElement, FS_RemoveElement

\* The units add up as long as each step moves one between two of the terms.
LEMMA UnitMoves ==
    ASSUME Types, Types', TableUnits, NEW d, NEW e,
           \/ /\ sem'["table_on"] = sem["table_on"] /\ sem'["table_ready"] = sem["table_ready"]
              /\ PlaceCooks' = PlaceCooks /\ Returning' = Returning
           \/ /\ sem'["table_on"] = sem["table_on"] - 1 /\ sem'["table_ready"] = sem["table_ready"]
              /\ PlaceCooks' = PlaceCooks \cup {d} /\ d \notin PlaceCooks /\ Returning' = Returning
           \/ /\ sem'["table_on"] = sem["table_on"] /\ sem'["table_ready"] = sem["table_ready"] + 1
              /\ PlaceCooks' = PlaceCooks \ {d} /\ d \in PlaceCooks /\ Returning' = Returning
           \/ /\ sem'["table_on"] = sem["table_on"] /\ sem'["table_ready"] = sem["table_ready"] - 1
              /\ PlaceCooks' = PlaceCooks /\ Returning' = Returning \cup {e} /\ e \notin Returning
           \/ /\ sem'["table_on"] = sem["table_on"] + 1 /\ sem'["table_ready"] = sem["table_ready"]
              /\ PlaceCooks' = PlaceCooks /\ Returning' = Returning \ {e} /\ e \in Returning
    PROVE  TableUnits'
<1>1. PlaceCooks \in SUBSET Cooks /\ Returning \in SUBSET Suppliers
  BY DEF PlaceCooks, Returning
<1>2. sem["table_on"] \in Nat /\ sem["table_ready"] \in Nat
  BY DEF Types, DataInv, Sems
<1>3. /\ Cardinality(PlaceCooks) \in Nat /\ Cardinality(Returning) \in Nat
      /\ d \notin PlaceCooks => Cardinality(PlaceCooks \cup {d}) = Cardinality(PlaceCooks) + 1
      /\ d \in PlaceCooks => Cardinality(PlaceCooks \ {d}) = Cardinality(PlaceCooks) - 1
      /\ e \notin Returning => Cardinality(Returning \cup {e}) = Cardinality(Returning) + 1
      /\ e \in Returning => Cardinality(Returning \ {e}) = Cardinality(Returning) - 1
  BY <1>1, CookSets, SupplierSets
<1>4. sem["table_on"] + sem["table_ready"] + Cardinality(PlaceCooks) + Cardinality(Returning)
      = TABLE_CAP
  BY DEF TableUnits, PlaceCooks, Returning
<1>5. \/ /\ sem'["table_on"] = sem["table_on"] /\ sem'["table_ready"] = sem["table_ready"]
         /\ Cardinality(PlaceCooks') = Cardinality(PlaceCooks)
         /\ Cardinality(Returning') = Cardinality(Returning)
      \/ /\ sem'["table_on"] = sem["table_on"] - 1 /\ sem'["table_ready"] = sem["table_ready"]
         /\ Cardinality(PlaceCooks') = Cardinality(PlaceCooks) + 1
         /\ Cardinality(Returning') = Cardinality(Returning)
      \/ /\ sem'["table_on"] = sem["table_on"] /\ sem'["table_ready"] = sem["table_ready"] + 1
         /\ Cardinality(PlaceCooks') = Cardinality(PlaceCooks) - 1
         /\ Cardinality(Returning') = Cardinality(Returning)
      \/ /\ sem'["table_on"] = sem["table_on"] /\ sem'["table_ready"] = sem["table_ready"] - 1
         /\ Cardinality(PlaceCooks') = Cardinality(PlaceCooks)
         /\ Cardinality(Returning') = Cardinality(Returning) + 1
      \/ /\ sem'["table_on"] = sem["table_on"] + 1 /\ sem'["table_ready"] = sem["table_ready"]
         /\ Cardinality(PlaceCooks') = Cardinality(PlaceCooks)
         /\ Cardinality(Returning') = Cardinality(Returning) - 1
  BY <1>3, Zenon
<1>6. sem'["table_on"] + sem'["table_ready"] + Cardinality(PlaceCooks') + Cardinality(Returning')
      = TABLE_CAP
  BY <1>2, <1>3, <1>4, <1>5, PizzeriaAssumption
<1> QED
  BY <1>6 DEF TableUnits, PlaceCooks, Returning

\* A step that moves nobody in or out of the table section.
LEMMA TableQuietStep ==
    ASSUME Types, Types', TableInv,
           \A d \in Cooks : /\ (AtTable(d))' <=> AtTable(d)
                            /\ (WithTablePlace(d))' <=> WithTablePlace(d)
                            /\ pc'[d] = "claim_table" => pc[d] = "claim_table" /\ scan'[d] = scan[d],
           Returning' = Returning,
           \A s \in {"table_place", "table_on", "table_ready"} : sem'[s] = sem[s],
           \A s \in TableSlots : table'[s] \in {table[s], FREE}
    PROVE  TableInv'
<1>1. PlaceCooks' = PlaceCooks
  BY DEF PlaceCooks
<1>2. TableUnits'
  BY <1>1, UnitMoves DEF TableInv
<1>3. TableDoorInv'
  BY DEF TableInv, TableDoorInv
<1>4. ClaimInv'
  BY DEF TableInv, ClaimInv
<1> QED
  BY <1>2, <1>3, <1>4 DEF TableInv

LEMMA TableInit == Init => TableInv
<1> SUFFICES ASSUME Init PROVE TableInv
  OBVIOUS
<1> USE PizzeriaAssumption DEF Init, MemoryInit, Procs
<1>1. /\ \A c \in Cooks : pc[c] = "prepare"
      /\ \A s \in Suppliers : pc[s] = "wait_ready"
  OBVIOUS
<1>2. PlaceCooks = {} /\ Returning = {}
  BY <1>1 DEF PlaceCooks, Returning, WithTablePlace
<1>3. TableDoorInv /\ ClaimInv
  BY <1>1 DEF TableDoorInv, ClaimInv, AtTable
<1>4. TableUnits
  <2>1. Cardinality({}) = 0
    BY FS_EmptySet
  <2>2. sem["table_on"] = TABLE_CAP /\ sem["table_ready"] = 0 /\ TABLE_CAP \in Nat
    OBVIOUS
  <2> QED
    BY <1>2, <2>1, <2>2 DEF TableUnits, PlaceCooks, Returning
<1> QED
  BY <1>3, <1>4 DEF TableInv

LEMMA TableBake ==
    ASSUME Types, Types', TableInv, NEW c \in Cooks, BakePizza(c)
    PROVE  TableInv'
<1> USE DEF Goto, ovenVars, tableVars, locals, history, Procs
<1>0. PcInv /\ scan \in [Procs -> Nat] /\ c \notin Suppliers
  BY PizzeriaAssumption DEF Types, DataInv
<1>1. /\ UNCHANGED table
      /\ \A s \in {"table_place", "table_on", "table_ready"} : sem'[s] = sem[s]
  BY DEF BakePizza, SemWait, SemPost, TakeOvenUnit, ReenterOven, SemStep, Prepare,
     LoadOvens, StoreOvens, LookOven, ClaimOven, FreeOven, Types, DataInv, Sems
<1>2. /\ \A p \in Procs \ {c} : pc'[p] = pc[p] /\ scan'[p] = scan[p]
      /\ pc[c] \in {"prepare", "wait_in", "wait_place", "load_in", "store_in", "look_oven",
                    "claim_oven", "leave_oven", "bake", "load_out", "store_out",
                    "free_oven", "exit_oven", "post_in"}
      /\ pc'[c] \in {"wait_in", "wait_place", "load_in", "store_in", "look_oven",
                     "claim_oven", "leave_oven", "bake", "load_out", "store_out",
                     "free_oven", "exit_oven", "post_in", "wait_on"}
  <2> USE <1>0 DEF PcInv
  <2>1. CASE \/ TakeOvenUnit(c) \/ SemWait(c, "wait_place", "load_in", "oven_place")
             \/ SemPost(c, "leave_oven", "bake", "oven_place") \/ ReenterOven(c)
             \/ SemPost(c, "exit_oven", "post_in", "oven_place")
             \/ SemPost(c, "post_in", "wait_on", "oven_in")
    BY <2>1 DEF SemWait, SemPost, TakeOvenUnit, ReenterOven, SemStep
  <2>2. CASE \/ Prepare(c, "wait_in")
             \/ LoadOvens(c, "load_in", "store_in") \/ LoadOvens(c, "load_out", "store_out")
             \/ StoreOvens(c, "store_in", "look_oven", 1)
             \/ StoreOvens(c, "store_out", "free_oven", -1)
    BY <2>2 DEF Prepare, LoadOvens, StoreOvens
  <2>3. CASE LookOven(c)
    BY <2>3 DEF LookOven
  <2>4. CASE ClaimOven(c) \/ FreeOven(c)
    BY <2>4 DEF ClaimOven, FreeOven
  <2> QED
    BY <2>1, <2>2, <2>3, <2>4 DEF BakePizza
<1>3. \A d \in Cooks : /\ (AtTable(d))' <=> AtTable(d)
                       /\ (WithTablePlace(d))' <=> WithTablePlace(d)
                       /\ pc'[d] = "claim_table" => pc[d] = "claim_table" /\ scan'[d] = scan[d]
  BY <1>2 DEF AtTable, WithTablePlace
<1>4. Returning' = Returning
  BY <1>0, <1>2 DEF Returning
<1> QED
  BY <1>1, <1>3, <1>4, TableQuietStep

LEMMA TablePlace ==
    ASSUME Types, Types', TableInv, NEW c \in Cooks, PlacePizza(c)
    PROVE  TableInv'
<1> USE DEF Goto, ovenVars, tableVars, locals, history, Procs
<1>0. /\ PcInv /\ scan \in [Procs -> Nat] /\ c \in Procs /\ c \notin Suppliers
      /\ 1 \in {1, -1} /\ -1 \in {1, -1}
      /\ \A s \in Sems : sem[s] \in Nat /\ sem'[s] \in Nat
  BY PizzeriaAssumption DEF Types, DataInv
<1>s. {"table_place", "table_on", "table_ready"} \subseteq Sems
      /\ {"wait_table", "look_table", "post_table", "prepare"} \subseteq CookPcs
  BY DEF Sems, CookPcs
<1>1. CASE SemWait(c, "wait_on", "wait_table", "table_on")
  <2>1. /\ pc[c] = "wait_on" /\ pc' = [pc EXCEPT ![c] = "wait_table"]
        /\ sem'["table_on"] = sem["table_on"] - 1 /\ UNCHANGED <<table, scan>>
        /\ sem'["table_place"] = sem["table_place"] /\ sem'["table_ready"] = sem["table_ready"]
    <3>1. SemStep(c, "wait_on", "wait_table", "table_on", -1)
      BY <1>1 DEF SemWait
    <3> QED
      BY <1>0, <1>s, <3>1, SemTypes
  <2>2. PlaceCooks' = PlaceCooks \cup {c} /\ c \notin PlaceCooks /\ Returning' = Returning
    BY <1>0, <2>1 DEF PlaceCooks, Returning, WithTablePlace, PcInv
  <2>3. \A d \in Cooks : (AtTable(d))' <=> AtTable(d)
    BY <1>0, <2>1 DEF AtTable, PcInv
  <2>4. TableUnits'
    BY <2>1, <2>2, UnitMoves DEF TableInv
  <2>5. TableDoorInv'
    BY <2>1, <2>3 DEF TableInv, TableDoorInv
  <2>6. ClaimInv'
    BY <1>0, <2>1 DEF TableInv, ClaimInv, PcInv
  <2> QED
    BY <2>4, <2>5, <2>6 DEF TableInv
<1>2. CASE TakeTablePlace(c)
  <2>1. /\ pc[c] = "wait_table" /\ pc' = [pc EXCEPT ![c] = "look_table"]
        /\ sem'["table_place"] = sem["table_place"] - 1 /\ UNCHANGED <<table, scan>>
        /\ sem'["table_on"] = sem["table_on"] /\ sem'["table_ready"] = sem["table_ready"]
    <3>1. SemStep(c, "wait_table", "look_table", "table_place", -1)
      BY <1>2 DEF TakeTablePlace, SemWait
    <3> QED
      BY <1>0, <1>s, <3>1, SemTypes
  <2>2. PlaceCooks' = PlaceCooks /\ Returning' = Returning
    BY <1>0, <2>1 DEF PlaceCooks, Returning, WithTablePlace, PcInv
  <2>3. sem["table_place"] = 1 /\ sem'["table_place"] = 0
    BY <1>0, <1>s, <2>1 DEF TableInv, TableDoorInv
  <2>4. TableUnits'
    BY <2>1, <2>2, UnitMoves DEF TableInv
  <2>5. \A d \in Cooks : ~AtTable(d) /\ ((AtTable(d))' <=> d = c)
    BY <1>0, <2>1, <2>3 DEF AtTable, PcInv, TableInv, TableDoorInv
  <2>6. TableDoorInv'
    BY <2>3, <2>5 DEF TableDoorInv
  <2>7. ClaimInv'
    BY <1>0, <2>1 DEF TableInv, ClaimInv, PcInv
  <2> QED
    BY <2>4, <2>6, <2>7 DEF TableInv
<1>3. CASE SemPost(c, "exit_table", "post_table", "table_ready")
  <2>1. /\ pc[c] = "exit_table" /\ pc' = [pc EXCEPT ![c] = "post_table"]
        /\ sem'["table_ready"] = sem["table_ready"] + 1 /\ UNCHANGED <<table, scan>>
        /\ sem'["table_place"] = sem["table_place"] /\ sem'["table_on"] = sem["table_on"]
    <3>1. SemStep(c, "exit_table", "post_table", "table_ready", 1)
      BY <1>3 DEF SemPost
    <3> QED
      BY <1>0, <1>s, <3>1, SemTypes
  <2>2. PlaceCooks' = PlaceCooks \ {c} /\ c \in PlaceCooks /\ Returning' = Returning
    BY <1>0, <2>1 DEF PlaceCooks, Returning, WithTablePlace, PcInv
  <2>3. \A d \in Cooks : (AtTable(d))' <=> AtTable(d)
    BY <1>0, <2>1 DEF AtTable, PcInv
  <2>4. TableUnits'
    BY <2>1, <2>2, UnitMoves DEF TableInv
  <2>5. TableDoorInv'
    BY <2>1, <2>3 DEF TableInv, TableDoorInv
  <2>6. ClaimInv'
    BY <1>0, <2>1 DEF TableInv, ClaimInv, PcInv
  <2> QED
    BY <2>4, <2>5, <2>6 DEF TableInv
<1>4. CASE SemPost(c, "post_table", "prepare", "table_place")
  <2>1. /\ pc[c] = "post_table" /\ pc' = [pc EXCEPT ![c] = "prepare"]
        /\ sem'["table_place"] = sem["table_place"] + 1 /\ UNCHANGED <<table, scan>>
        /\ sem'["table_on"] = sem["table_on"] /\ sem'["table_ready"] = sem["table_ready"]
    <3>1. SemStep(c, "post_table", "prepare", "table_place", 1)
      BY <1>4 DEF SemPost
    <3> QED
      BY <1>0, <1>s, <3>1, SemTypes
  <2>2. PlaceCooks' = PlaceCooks /\ Returning' = Returning
    BY <1>0, <2>1 DEF PlaceCooks, Returning, WithTablePlace, PcInv
  <2>3. sem["table_place"] = 0 /\ AtTable(c)
    BY <2>1 DEF TableInv, TableDoorInv, AtTable
  <2>4. TableUnits'
    BY <2>1, <2>2, UnitMoves DEF TableInv
  <2>5. \A d \in Cooks : ~(AtTable(d))'
    BY <1>0, <2>1, <2>3 DEF AtTable, PcInv, TableInv, TableDoorInv
  <2>6. TableDoorInv'
    BY <2>1, <2>3, <2>5 DEF TableDoorInv
  <2>7. ClaimInv'
    BY <1>0, <2>1 DEF TableInv, ClaimInv, PcInv
  <2> QED
    BY <2>4, <2>6, <2>7 DEF TableInv
<1>5. CASE LookTable(c)
  <2>1. /\ pc[c] = "look_table" /\ UNCHANGED <<table, sem>>
        /\ \/ /\ Word(scan[c]) = FREE /\ UNCHANGED scan
              /\ pc' = [pc EXCEPT ![c] = "claim_table"]
           \/ scan' = [scan EXCEPT ![c] = @ + 1] /\ UNCHANGED pc
    BY <1>5 DEF LookTable
  <2>2. PlaceCooks' = PlaceCooks /\ Returning' = Returning
    BY <1>0, <2>1 DEF PlaceCooks, Returning, WithTablePlace, PcInv
  <2>3. \A d \in Cooks : (AtTable(d))' <=> AtTable(d)
    BY <1>0, <2>1 DEF AtTable, PcInv
  <2>4. TableUnits'
    BY <2>1, <2>2, UnitMoves DEF TableInv
  <2>5. TableDoorInv'
    BY <2>1, <2>3 DEF TableInv, TableDoorInv
  <2>6. ClaimInv'
    <3>1. scan[c] \in TableSlots => Word(scan[c]) = table[scan[c]]
      BY PizzeriaAssumption DEF Word, TableSlots
    <3> QED
      BY <1>0, <2>1, <3>1 DEF TableInv, ClaimInv, PcInv
  <2> QED
    BY <2>4, <2>5, <2>6 DEF TableInv
<1>6. CASE ClaimTable(c)
  <2>1. /\ pc[c] = "claim_table" /\ pc' = [pc EXCEPT ![c] = "load_table"]
        /\ UNCHANGED sem
    BY <1>6 DEF ClaimTable
  <2>2. PlaceCooks' = PlaceCooks /\ Returning' = Returning
    BY <1>0, <2>1 DEF PlaceCooks, Returning, WithTablePlace, PcInv
  <2>3. \A d \in Cooks : (AtTable(d))' <=> AtTable(d)
    BY <1>0, <2>1 DEF AtTable, PcInv
  <2>4. TableUnits'
    BY <2>1, <2>2, UnitMoves DEF TableInv
  <2>5. TableDoorInv'
    BY <2>1, <2>3 DEF TableInv, TableDoorInv
  <2>6. \A d \in Cooks : pc'[d] # "claim_table"
    BY <1>0, <2>1 DEF PcInv, TableInv, TableDoorInv, AtTable
  <2>7. ClaimInv'
    BY <2>6 DEF ClaimInv
  <2> QED
    BY <2>4, <2>5, <2>7 DEF TableInv
<1>7. CASE LoadTables(c, "load_table", "store_table")
           \/ StoreTables(c, "store_table", "exit_table", 1)
  <2>1. /\ \/ pc[c] = "load_table" /\ pc' = [pc EXCEPT ![c] = "store_table"]
           \/ pc[c] = "store_table" /\ pc' = [pc EXCEPT ![c] = "exit_table"]
        /\ UNCHANGED <<table, scan, sem>>
    BY <1>7 DEF LoadTables, StoreTables
  <2>2. \A d \in Cooks : /\ (AtTable(d))' <=> AtTable(d)
                         /\ (WithTablePlace(d))' <=> WithTablePlace(d)
                         /\ pc'[d] = "claim_table" => pc[d] = "claim_table" /\ scan'[d] = scan[d]
    BY <1>0, <2>1 DEF AtTable, WithTablePlace, PcInv
  <2>3. Returning' = Returning
    BY <1>0, <2>1 DEF Returning, PcInv
  <2>4. /\ \A s \in {"table_place", "table_on", "table_ready"} : sem'[s] = sem[s]
        /\ \A s \in TableSlots : table'[s] \in {table[s], FREE}
    BY <2>1
  <2> QED
    BY <2>2, <2>3, <2>4, TableQuietStep
<1> QED
  BY <1>1, <1>2, <1>3, <1>4, <1>5, <1>6, <1>7 DEF PlacePizza

LEMMA TableSupply ==
    ASSUME Types, Types', TableInv, NEW s \in Suppliers, SupplyPizza(s)
    PROVE  TableInv'
<1> USE DEF Goto, ovenVars, tableVars, locals, history, Procs
<1>0. /\ PcInv /\ scan \in [Procs -> Nat] /\ s \in Procs /\ s \notin Cooks
      /\ 1 \in {1, -1} /\ -1 \in {1, -1} /\ \A t \in Sems : sem[t] \in Nat
  BY PizzeriaAssumption DEF Types, DataInv
<1>1. \A d \in Cooks : pc'[d] = pc[d] /\ scan'[d] = scan[d]
  BY <1>0 DEF SupplyPizza, SemWait, SemPost, ReturnPlace, SemStep, LookForPizza, ShiftQueue,
     ReadPizza, LoadTables, StoreTables, FreeTable, Deliver, PcInv
<1>2. \A d \in Cooks : /\ (AtTable(d))' <=> AtTable(d)
                       /\ (WithTablePlace(d))' <=> WithTablePlace(d)
                       /\ pc'[d] = "claim_table" => pc[d] = "claim_table" /\ scan'[d] = scan[d]
  BY <1>1 DEF AtTable, WithTablePlace
<1>3. CASE SemWait(s, "wait_ready", "post_on", "table_ready") \/ ReturnPlace(s)
  <2>1. /\ UNCHANGED table /\ sem'["table_place"] = sem["table_place"]
        /\ \/ /\ pc[s] = "wait_ready" /\ pc' = [pc EXCEPT ![s] = "post_on"]
              /\ sem'["table_ready"] = sem["table_ready"] - 1
              /\ sem'["table_on"] = sem["table_on"]
           \/ /\ pc[s] = "post_on" /\ pc' = [pc EXCEPT ![s] = "look_pizza"]
              /\ sem'["table_on"] = sem["table_on"] + 1
              /\ sem'["table_ready"] = sem["table_ready"]
    <3>1. {"table_place", "table_on", "table_ready"} \subseteq Sems
          /\ {"post_on", "look_pizza"} \subseteq SupplierPcs
      BY DEF Sems, SupplierPcs
    <3>2. CASE SemWait(s, "wait_ready", "post_on", "table_ready")
      <4>1. SemStep(s, "wait_ready", "post_on", "table_ready", -1)
        BY <3>2 DEF SemWait
      <4> QED
        BY <1>0, <3>1, <4>1, SemTypes
    <3>3. CASE ReturnPlace(s)
      <4>1. SemStep(s, "post_on", "look_pizza", "table_on", 1)
        BY <3>3 DEF ReturnPlace, SemPost
      <4> QED
        BY <1>0, <3>1, <4>1, SemTypes
    <3> QED
      BY <1>3, <3>2, <3>3
  <2>2. PlaceCooks' = PlaceCooks
    BY <1>2 DEF PlaceCooks
  <2>3. \/ pc[s] = "wait_ready" /\ Returning' = Returning \cup {s} /\ s \notin Returning
        \/ pc[s] = "post_on" /\ Returning' = Returning \ {s} /\ s \in Returning
    BY <1>0, <2>1 DEF Returning, PcInv
  <2>4. TableUnits'
    BY <2>1, <2>2, <2>3, UnitMoves DEF TableInv
  <2>5. TableDoorInv'
    BY <1>2, <2>1 DEF TableInv, TableDoorInv
  <2>6. ClaimInv'
    BY <1>2, <2>1 DEF TableInv, ClaimInv
  <2> QED
    BY <2>4, <2>5, <2>6 DEF TableInv
<1>4. CASE ~(SemWait(s, "wait_ready", "post_on", "table_ready") \/ ReturnPlace(s))
  <2>1. CASE FreeTable(s) \/ ShiftQueue(s) \/ ReadPizza(s) \/ Deliver(s, "wait_ready")
             \/ LoadTables(s, "load_taken", "store_taken")
             \/ StoreTables(s, "store_taken", "free_table", -1) \/ LookForPizza(s)
    <3>1. UNCHANGED sem /\ \A t \in TableSlots : table'[t] \in {table[t], FREE}
      BY <2>1 DEF FreeTable, ShiftQueue, ReadPizza, Deliver, LoadTables, StoreTables,
         LookForPizza, Types, DataInv
    <3>2. /\ pc[s] # "post_on" /\ pc'[s] # "post_on"
          /\ \A r \in Suppliers \ {s} : pc'[r] = pc[r]
      BY <1>0, <2>1 DEF FreeTable, ShiftQueue, ReadPizza, Deliver, LoadTables, StoreTables,
         LookForPizza, PcInv
    <3>3. Returning' = Returning
      BY <3>2 DEF Returning
    <3> QED
      BY <1>2, <3>1, <3>3, TableQuietStep
  <2> QED
    BY <1>4, <2>1 DEF SupplyPizza
<1> QED
  BY <1>3, <1>4
------------------------------------------------------------------------------
LEMMA PosixInvariant == Spec => []PosixInv
<1>1. Init => PosixInv
  BY TypesInit, OvenInit, TableInit DEF PosixInv
<1>2. PosixInv /\ [Next]_vars => PosixInv'
  <2> SUFFICES ASSUME PosixInv, [Next]_vars PROVE PosixInv'
    OBVIOUS
  <2> USE DEF PosixInv
  <2>1. ASSUME NEW c \in Cooks, BakePizza(c) PROVE PosixInv'
    <3>1. Types'
      BY <2>1, TypesBake
    <3> QED
      BY <2>1, <3>1, OvenBake, TableBake
  <2>2. ASSUME NEW c \in Cooks, PlacePizza(c) PROVE PosixInv'
    <3>1. Types'
      BY <2>2, TypesPlace
    <3> QED
      BY <2>2, <3>1, OvenPlace, TablePlace
  <2>3. ASSUME NEW s \in Suppliers, SupplyPizza(s) PROVE PosixInv'
    <3>1. Types'
      BY <2>3, TypesSupply
    <3> QED
      BY <2>3, <3>1, OvenSupply, TableSupply
  <2>4. CASE UNCHANGED vars
    <3>1. UNCHANGED <<oven, ovens_taken, table, tables_taken, table_queue_start, sem, pc,
                      scan, index, loaded, pizza, made, delivered>>
      BY <2>4 DEF vars
    <3>2. Types'
      BY <3>1 DEF Types, PcInv, DataInv
    <3>3. OvenInv'
      BY <3>1 DEF OvenInv, UnitsInv, TakenInv, BeyondInv, ScanInv, CooksInOven, Beyond,
         InOven, Scanning, Holding
    <3>4. TableInv'
      BY <3>1 DEF TableInv, TableDoorInv, TableUnits, ClaimInv, AtTable, WithTablePlace
    <3> QED
      BY <3>2, <3>3, <3>4
  <2> QED
    BY <2>1, <2>2, <2>3, <2>4 DEF Next
<1> QED
  BY <1>1, <1>2, PTL DEF Spec

\* Counters, semaphores and locals stay in their domains though oven_place
\* lets any number of cooks at the counters (cook.c:72-121).
THEOREM TypeCorrect == Spec => []TypeOK
<1>1. PosixInv => TypeOK
  BY TypesImply DEF PosixInv
<1> QED
  BY <1>1, PosixInvariant, PTL

\* The scan of the oven stops inside the array, for every number of cooks and
\* slots, though oven_place does not exclude (cook.c:77-83).
THEOREM OvenScanTheorem == Spec => []OvenScanInBounds
<1>1. PosixInv => OvenScanInBounds
  BY ScanStopsInOven DEF PosixInv
<1> QED
  BY <1>1, PosixInvariant, PTL

\* The units of the table are conserved, through the order of four single
\* semaphore calls (cook.c:104-121, supplier.c:48-49).
THEOREM TableUnitsTheorem == Spec => []TableUnits
<1>1. PosixInv => TableUnits
  BY DEF PosixInv, TableInv
<1> QED
  BY <1>1, PosixInvariant, PTL

\* No cook puts a pizza where another lies (cook.c:108-115).
THEOREM NoOverwriteTheorem == Spec => NoOverwrite
<1> DEFINE Kept == \A s \in TableSlots : table[s] # FREE => table'[s] \in {table[s], FREE}
<1>1. PosixInv /\ [Next]_vars => [Kept]_vars
  <2> SUFFICES ASSUME PosixInv, Next PROVE Kept
    OBVIOUS
  <2>0. table \in [TableSlots -> Nat] /\ ClaimInv
    BY DEF PosixInv, Types, DataInv, TableInv
  <2> USE DEF Goto, ovenVars, tableVars, locals, history, Procs, SemWait, SemPost, SemStep
  <2>1. ASSUME NEW c \in Cooks, BakePizza(c) PROVE Kept
    BY <2>1 DEF BakePizza, Prepare, TakeOvenUnit, ReenterOven, LoadOvens, StoreOvens,
       LookOven, ClaimOven, FreeOven
  <2>2. ASSUME NEW c \in Cooks, PlacePizza(c) PROVE Kept
    <3>1. CASE ClaimTable(c)
      BY <2>0, <3>1 DEF ClaimTable, ClaimInv
    <3>2. CASE UNCHANGED table
      BY <3>2
    <3> QED
      BY <2>2, <3>1, <3>2 DEF PlacePizza, TakeTablePlace, LookTable, LoadTables, StoreTables
  <2>3. ASSUME NEW s \in Suppliers, SupplyPizza(s) PROVE Kept
    <3>1. CASE FreeTable(s)
      BY <2>0, <3>1 DEF FreeTable
    <3>2. CASE UNCHANGED table
      BY <3>2
    <3> QED
      BY <2>3, <3>1, <3>2 DEF SupplyPizza, ReturnPlace, LookForPizza, ShiftQueue,
         ReadPizza, LoadTables, StoreTables, Deliver
  <2> QED
    BY <2>1, <2>2, <2>3 DEF Next
<1> QED
  BY <1>1, PosixInvariant, PTL DEF Spec, NoOverwrite
==============================================================================
