------------------------- MODULE PizzeriaSysVProofs --------------------------
(***************************************************************************)
(* Proofs about PizzeriaSysV, for every number of cooks, suppliers, slots  *)
(* and pizzas.                                                             *)
(***************************************************************************)
EXTENDS PizzeriaSysV, FiniteSetTheorems, TLAPS

Sems == {"OVEN_PLACE", "OVEN_IN", "TABLE_PLACE", "TABLE_ON", "TABLE_READY"}

\* A semop adjusts the semaphores it names, keeps them natural numbers and
\* changes nothing but them and its process's pc.
LEMMA SemopTypes ==
    ASSUME TypeOK, NEW p \in Procs, NEW from, NEW to, NEW ops,
           Semop(p, from, to, ops), \A s \in DOMAIN ops : ops[s] \in Int,
           DOMAIN ops \subseteq Sems
    PROVE  /\ sem' \in [Sems -> Nat]
           /\ \A s \in DOMAIN ops : sem'[s] = sem[s] + ops[s]
           /\ \A s \in Sems \ DOMAIN ops : sem'[s] = sem[s]
  BY DEF TypeOK, Semop, CanSemop, AfterSemop, Sems

LEMMA ModuloInSlots ==
    ASSUME NEW k \in Nat, NEW n \in Nat \ {0}
    PROVE  k % n \in 0 .. n - 1
  OBVIOUS

THEOREM TypeCorrect == Spec => []TypeOK
<1>1. Init => TypeOK
  BY PizzeriaAssumption DEF Init, MemoryInit, TypeOK, Procs, CookPcs,
     SupplierPcs, FREE, TAKEN, TableSlots
<1>2. TypeOK /\ [Next]_vars => TypeOK'
  <2> SUFFICES ASSUME TypeOK, [Next]_vars PROVE TypeOK'
    OBVIOUS
  <2> USE PizzeriaAssumption DEF Procs, CookPcs, SupplierPcs, FREE, TAKEN,
      Goto, ovenVars, tableVars, locals, history
  <2>1. ASSUME NEW p \in Procs, NEW from, NEW to, NEW ops,
               Semop(p, from, to, ops), \A s \in DOMAIN ops : ops[s] \in Int,
               DOMAIN ops \subseteq Sems,
               p \in Cooks => to \in CookPcs, p \in Suppliers => to \in SupplierPcs
        PROVE  TypeOK'
    BY <2>1, SemopTypes DEF TypeOK, Semop, Sems
  <2>2. ASSUME NEW c \in Cooks, BakePizza(c) PROVE TypeOK'
    <3>1. CASE Prepare(c, "enter_oven")
      BY <3>1 DEF TypeOK, Prepare
    <3>2. CASE EnterOven(c) \/ LeaveOven(c) \/ ReenterOven(c) \/ ExitOven(c)
      BY <3>2, <2>1 DEF EnterOven, LeaveOven, ReenterOven, ExitOven, Sems
    <3>3. CASE LoadOvens(c, "load_in", "store_in")
               \/ LoadOvens(c, "load_out", "store_out")
      BY <3>3 DEF TypeOK, LoadOvens
    <3>4. CASE StoreOvens(c, "store_in", "look_oven", 1)
               \/ StoreOvens(c, "store_out", "free_oven", -1)
      BY <3>4 DEF TypeOK, StoreOvens
    <3>5. CASE LookOven(c)
      BY <3>5 DEF TypeOK, LookOven
    <3>6. CASE ClaimOven(c)
      BY <3>6 DEF TypeOK, ClaimOven
    <3>7. CASE FreeOven(c)
      BY <3>7 DEF TypeOK, FreeOven
    <3> QED
      BY <2>2, <3>1, <3>2, <3>3, <3>4, <3>5, <3>6, <3>7 DEF BakePizza
  <2>3. ASSUME NEW c \in Cooks, PlacePizza(c) PROVE TypeOK'
    <3>1. CASE EnterTable(c) \/ ExitTable(c)
      BY <3>1, <2>1 DEF EnterTable, ExitTable, Sems
    <3>2. CASE LookTable(c)
      BY <3>2 DEF TypeOK, LookTable
    <3>3. CASE ClaimTable(c)
      BY <3>3 DEF TypeOK, ClaimTable
    <3>4. CASE LoadTables(c, "load_table", "store_table")
      BY <3>4 DEF TypeOK, LoadTables
    <3>5. CASE StoreTables(c, "store_table", "exit_table", 1)
      BY <3>5 DEF TypeOK, StoreTables
    <3> QED
      BY <2>3, <3>1, <3>2, <3>3, <3>4, <3>5 DEF PlacePizza
  <2>4. ASSUME NEW s \in Suppliers, SupplyPizza(s) PROVE TypeOK'
    <3>1. CASE TakeReady(s)
      BY <3>1, <2>1 DEF TakeReady, Sems
    <3>2. CASE LookForPizza(s)
      <4> DEFINE slot == (scan[s] + table_queue_start) % TABLE_CAP
      <4>1. slot \in TableSlots /\ (scan[s] + 1) % TABLE_CAP \in Nat
        <5>1. scan[s] + table_queue_start \in Nat /\ scan[s] + 1 \in Nat
          BY DEF TypeOK
        <5>2. \A k \in Nat : k % TABLE_CAP \in 0 .. TABLE_CAP - 1
          BY ModuloInSlots
        <5> QED
          BY <5>1, <5>2 DEF TableSlots
      <4>2. table[slot] \in Nat
        BY <4>1 DEF TypeOK
      <4> HIDE DEF slot
      <4>3. \/ /\ pc' = [pc EXCEPT ![s] = "shift_queue"]
               /\ index' = [index EXCEPT ![s] = slot]
               /\ loaded' = [loaded EXCEPT ![s] = table_queue_start]
               /\ pizza' = [pizza EXCEPT ![s] = table[slot]]
               /\ scan' = [scan EXCEPT ![s] = 0]
            \/ /\ scan' = [scan EXCEPT ![s] = (@ + 1) % TABLE_CAP]
               /\ UNCHANGED <<pc, index, loaded, pizza>>
        BY <3>2 DEF LookForPizza, slot
      <4>4. UNCHANGED <<oven, ovens_taken, table, tables_taken,
                        table_queue_start, sem, made, delivered>>
        BY <3>2 DEF LookForPizza
      <4>5. slot \in Nat
        BY <4>1 DEF TableSlots
      <4> QED
        BY <4>1, <4>2, <4>3, <4>4, <4>5 DEF TypeOK
    <3>3. CASE ShiftQueue(s)
      BY <3>3 DEF TypeOK, ShiftQueue
    <3>4. CASE ReadPizza(s)
      BY <3>4 DEF TypeOK, ReadPizza
    <3>5. CASE LoadTables(s, "load_taken", "store_taken")
      BY <3>5 DEF TypeOK, LoadTables
    <3>6. CASE StoreTables(s, "store_taken", "free_table", -1)
      BY <3>6 DEF TypeOK, StoreTables
    <3>7. CASE FreeTable(s)
      BY <3>7 DEF TypeOK, FreeTable
    <3>8. CASE Deliver(s, "wait_ready")
      BY <3>8 DEF TypeOK, Deliver
    <3> QED
      BY <2>4, <3>1, <3>2, <3>3, <3>4, <3>5, <3>6, <3>7, <3>8 DEF SupplyPizza
  <2>5. CASE UNCHANGED vars
    BY <2>5 DEF vars, TypeOK
  <2> QED
    BY <2>2, <2>3, <2>4, <2>5 DEF Next
<1> QED
  BY <1>1, <1>2, PTL DEF Spec
------------------------------------------------------------------------------
(* The oven.  The invariant is inductive: OVEN_PLACE admits one cook to the  *)
(* door, OVEN_IN counts the cooks in the oven section, and the memory agrees *)
(* with where the cooks are.                                                 *)

DoorInv ==
    /\ sem["OVEN_PLACE"] \in {0, 1}
    /\ sem["OVEN_PLACE"] = 1 => \A c \in Cooks : ~AtDoor(c)
    /\ \A c, d \in Cooks : AtDoor(c) /\ AtDoor(d) => c = d

UnitsInv == sem["OVEN_IN"] + Cardinality(CooksInOven) = OVEN_CAP

CountInv ==
    /\ ovens_taken = Cardinality(CountedCooks)
    /\ \A c \in Cooks :
          pc[c] \in {"store_in", "store_out"} => loaded[c] = ovens_taken

SlotInv ==
    /\ \A c \in Cooks : Holding(c) => index[c] \in OvenSlots /\ oven[index[c]] = TAKEN
    /\ \A s \in OvenSlots :
          oven[s] = TAKEN => \E c \in Cooks : Holding(c) /\ index[c] = s
    /\ \A c, d \in Cooks :
          Holding(c) /\ Holding(d) /\ index[c] = index[d] => c = d

ScanInv ==
    \A c \in Cooks :
        /\ pc[c] \in {"load_table", "store_table", "exit_table", "prepare",
                      "enter_oven", "load_in", "store_in"} => scan[c] = 0
        /\ pc[c] \in {"look_oven", "claim_oven"} => scan[c] \in OvenSlots
        /\ pc[c] = "look_oven" =>
              \A s \in OvenSlots : s < scan[c] => oven[s] = TAKEN
        /\ pc[c] = "claim_oven" => oven[scan[c]] = FREE

OvenInv == DoorInv /\ UnitsInv /\ CountInv /\ SlotInv /\ ScanInv

\* Sets of cooks are finite; one cook more or less changes the size by one.
LEMMA CookSets ==
    ASSUME NEW S \in SUBSET Cooks, NEW c
    PROVE  /\ IsFiniteSet(S)
           /\ Cardinality(S) \in Nat
           /\ c \notin S => Cardinality(S \cup {c}) = Cardinality(S) + 1
           /\ c \in S => Cardinality(S \ {c}) = Cardinality(S) - 1
<1>1. IsFiniteSet(S)
  BY FS_Subset, PizzeriaAssumption
<1> QED
  BY <1>1, FS_CardinalityType, FS_AddElement, FS_RemoveElement

\* The scan never fails: were every slot TAKEN, their holders and the cook that
\* scans would be more cooks in the oven section than OVEN_IN has units.
LEMMA FreeSlotExists ==
    ASSUME TypeOK, UnitsInv, SlotInv, NEW c \in Cooks,
           InOven(c), ~Holding(c)
    PROVE  \E s \in OvenSlots : oven[s] = FREE
<1> DEFINE Holders == {d \in Cooks : Holding(d)}
           slotOf  == [d \in Holders |-> index[d]]
<1> SUFFICES ASSUME \A s \in OvenSlots : oven[s] = TAKEN PROVE FALSE
  BY DEF TypeOK
<1>1. slotOf \in Surjection(Holders, OvenSlots)
  BY DEF SlotInv, Surjection
<1>2. IsFiniteSet(Holders) /\ Cardinality(Holders) \in Nat
  BY CookSets
<1>3. Cardinality(OvenSlots) <= Cardinality(Holders)
  BY <1>1, <1>2, FS_Surjection
<1>4. Cardinality(OvenSlots) = OVEN_CAP
  BY FS_Interval, PizzeriaAssumption DEF OvenSlots
<1>5. Holders \cup {c} \subseteq CooksInOven
  BY DEF CooksInOven, InOven, AtDoor, Holding
<1>6. Cardinality(Holders \cup {c}) = Cardinality(Holders) + 1
  BY CookSets
<1>7. Cardinality(Holders \cup {c}) <= Cardinality(CooksInOven)
  BY <1>5, CookSets, FS_Subset DEF CooksInOven
<1>8. Cardinality(CooksInOven) \in Nat /\ sem["OVEN_IN"] \in Nat
  BY CookSets DEF CooksInOven, TypeOK
<1> QED
  BY <1>2, <1>3, <1>4, <1>6, <1>7, <1>8, PizzeriaAssumption DEF UnitsInv

\* Away from the oven a step disturbs nothing the invariant speaks of.
AwayPcs == {"prepare", "enter_oven", "enter_table", "look_table", "claim_table",
            "load_table", "store_table", "exit_table"}

LEMMA QuietStep ==
    ASSUME TypeOK, OvenInv, NEW p \in Procs,
           UNCHANGED ovenVars,
           sem'["OVEN_PLACE"] = sem["OVEN_PLACE"], sem'["OVEN_IN"] = sem["OVEN_IN"],
           \A c \in Cooks \ {p} :
               /\ pc'[c] = pc[c] /\ scan'[c] = scan[c]
               /\ index'[c] = index[c] /\ loaded'[c] = loaded[c],
           p \in Cooks =>
              /\ pc[p] \in AwayPcs /\ pc'[p] \in AwayPcs
              /\ pc'[p] \in {"load_table", "store_table", "exit_table",
                             "prepare", "enter_oven"} => scan'[p] = 0
    PROVE  OvenInv'
<1> USE DEF ovenVars, AwayPcs
<1>1. \A c \in Cooks : (AtDoor(c))' = AtDoor(c) /\ (InOven(c))' = InOven(c)
                       /\ (Counted(c))' = Counted(c) /\ (Holding(c))' = Holding(c)
  <2> SUFFICES ASSUME NEW c \in Cooks
               PROVE  /\ (AtDoor(c))' = AtDoor(c) /\ (InOven(c))' = InOven(c)
                      /\ (Counted(c))' = Counted(c) /\ (Holding(c))' = Holding(c)
    OBVIOUS
  <2>1. CASE c = p
    BY <2>1 DEF AtDoor, InOven, Counted, Holding
  <2>2. CASE c # p
    BY <2>2 DEF AtDoor, InOven, Counted, Holding
  <2> QED
    BY <2>1, <2>2
<1>2. CooksInOven' = CooksInOven /\ CountedCooks' = CountedCooks
  BY <1>1 DEF CooksInOven, CountedCooks
<1>3. DoorInv'
  BY <1>1 DEF OvenInv, DoorInv
<1>4. UnitsInv'
  BY <1>2 DEF OvenInv, UnitsInv
<1>5. CountInv'
  <2>1. \A c \in Cooks : pc'[c] \in {"store_in", "store_out"} => c # p
    OBVIOUS
  <2> QED
    BY <1>2, <2>1 DEF OvenInv, CountInv
<1>6. SlotInv'
  <2>1. \A c \in Cooks : Holding(c) => c # p
    BY DEF Holding
  <2> QED
    BY <1>1, <2>1 DEF OvenInv, SlotInv
<1>7. ScanInv'
  <2>1. \A c \in Cooks : c # p => pc'[c] = pc[c] /\ scan'[c] = scan[c]
    OBVIOUS
  <2> QED
    BY <2>1 DEF OvenInv, ScanInv
<1> QED
  BY <1>3, <1>4, <1>5, <1>6, <1>7 DEF OvenInv

LEMMA OvenInvInit == Init => OvenInv
<1> SUFFICES ASSUME Init PROVE OvenInv
  OBVIOUS
<1> USE PizzeriaAssumption DEF Init, MemoryInit, Procs
<1>1. \A c \in Cooks : pc[c] = "prepare" /\ scan[c] = 0
  OBVIOUS
<1>2. CooksInOven = {} /\ CountedCooks = {}
  BY <1>1 DEF CooksInOven, CountedCooks, InOven, AtDoor, Counted
<1>3. DoorInv /\ ScanInv
  BY <1>1 DEF DoorInv, ScanInv, AtDoor
<1>4. UnitsInv /\ CountInv
  BY <1>1, <1>2, FS_EmptySet DEF UnitsInv, CountInv
<1>5. SlotInv
  BY <1>1 DEF SlotInv, Holding, FREE, TAKEN
<1> QED
  BY <1>3, <1>4, <1>5 DEF OvenInv

\* A cook's own steps at the oven, one by one.
LEMMA OvenInvBake ==
    ASSUME TypeOK, TypeOK', OvenInv, NEW c \in Cooks, BakePizza(c)
    PROVE  OvenInv'
<1> USE DEF Goto, ovenVars, tableVars, locals, history, Procs
<1> USE DEF OvenInv
<1>0. c \in Procs /\ CooksInOven \in SUBSET Cooks /\ CountedCooks \in SUBSET Cooks
  BY DEF CooksInOven, CountedCooks
<1>1. CASE Prepare(c, "enter_oven")
  BY <1>1, QuietStep DEF Prepare, AwayPcs, TypeOK, ScanInv
<1>2. CASE EnterOven(c)
  <2>1. /\ pc[c] = "enter_oven" /\ pc' = [pc EXCEPT ![c] = "load_in"]
        /\ UNCHANGED <<oven, ovens_taken, scan, index, loaded>>
    BY <1>2 DEF EnterOven, Semop
  <2>2. /\ sem["OVEN_PLACE"] = 1 /\ sem'["OVEN_PLACE"] = 0
        /\ sem'["OVEN_IN"] = sem["OVEN_IN"] - 1
    <3> DEFINE ops == [OVEN_PLACE |-> -1, OVEN_IN |-> -1]
    <3>1. \A s \in DOMAIN ops : sem'[s] = sem[s] + ops[s]
      BY <1>0, <1>2, SemopTypes DEF EnterOven, Sems
    <3>2. sem["OVEN_PLACE"] \in {0, 1} /\ sem \in [Sems -> Nat] /\ sem' \in [Sems -> Nat]
      BY DEF DoorInv, TypeOK, Sems
    <3>3. /\ DOMAIN ops = {"OVEN_PLACE", "OVEN_IN"}
          /\ ops["OVEN_PLACE"] = -1 /\ ops["OVEN_IN"] = -1
      OBVIOUS
    <3> HIDE DEF ops
    <3> QED
      BY <3>1, <3>2, <3>3 DEF Sems
  <2>3. CooksInOven' = CooksInOven \cup {c} /\ c \notin CooksInOven
    BY <2>1 DEF TypeOK, CooksInOven, InOven, AtDoor
  <2>4. CountedCooks' = CountedCooks
    BY <2>1 DEF TypeOK, CountedCooks, Counted
  <2>5. DoorInv'
    BY <2>1, <2>2 DEF TypeOK, DoorInv, AtDoor
  <2>6. UnitsInv'
    <3>1. /\ Cardinality(CooksInOven') = Cardinality(CooksInOven) + 1
          /\ Cardinality(CooksInOven) \in Nat
      BY <2>3, CookSets, <1>0
    <3> QED
      BY <2>2, <3>1, PizzeriaAssumption DEF TypeOK, UnitsInv
  <2>7. CountInv'
    BY <2>1, <2>4 DEF TypeOK, CountInv
  <2>8. SlotInv'
    BY <2>1 DEF TypeOK, SlotInv, Holding
  <2>9. ScanInv'
    BY <2>1 DEF TypeOK, ScanInv
  <2> QED
    BY <2>5, <2>6, <2>7, <2>8, <2>9
<1>3. CASE LoadOvens(c, "load_in", "store_in") \/ LoadOvens(c, "load_out", "store_out")
  <2>1. /\ UNCHANGED <<oven, ovens_taken, sem, scan, index>>
        /\ loaded' = [loaded EXCEPT ![c] = ovens_taken]
        /\ \/ pc[c] = "load_in" /\ pc' = [pc EXCEPT ![c] = "store_in"]
           \/ pc[c] = "load_out" /\ pc' = [pc EXCEPT ![c] = "store_out"]
    BY <1>3 DEF LoadOvens
  <2>2. CooksInOven' = CooksInOven /\ CountedCooks' = CountedCooks
    BY <2>1 DEF TypeOK, CooksInOven, CountedCooks, InOven, AtDoor, Counted
  <2>3. DoorInv' /\ UnitsInv'
    BY <2>1, <2>2 DEF TypeOK, DoorInv, UnitsInv, AtDoor
  <2>4. CountInv'
    BY <2>1, <2>2 DEF TypeOK, CountInv
  <2>5. SlotInv'
    BY <2>1 DEF TypeOK, SlotInv, Holding
  <2>6. ScanInv'
    BY <2>1 DEF TypeOK, ScanInv
  <2> QED
    BY <2>3, <2>4, <2>5, <2>6
<1>4. CASE StoreOvens(c, "store_in", "look_oven", 1)
  <2>1. /\ pc[c] = "store_in" /\ pc' = [pc EXCEPT ![c] = "look_oven"]
        /\ ovens_taken' = ovens_taken + 1
        /\ UNCHANGED <<oven, sem, scan, index, loaded>>
    BY <1>4 DEF StoreOvens, CountInv
  <2>2. CooksInOven' = CooksInOven
    BY <2>1 DEF TypeOK, CooksInOven, InOven, AtDoor
  <2>3. CountedCooks' = CountedCooks \cup {c} /\ c \notin CountedCooks
    BY <2>1 DEF TypeOK, CountedCooks, Counted
  <2>4. DoorInv' /\ UnitsInv'
    BY <2>1, <2>2 DEF TypeOK, DoorInv, UnitsInv, AtDoor
  <2>5. CountInv'
    <3>1. Cardinality(CountedCooks') = Cardinality(CountedCooks) + 1
      BY <2>3, CookSets, <1>0
    <3>2. \A d \in Cooks : d # c => pc[d] \notin {"store_in", "store_out"}
      BY <2>1 DEF DoorInv, AtDoor
    <3> QED
      BY <2>1, <3>1, <3>2 DEF TypeOK, CountInv
  <2>6. SlotInv'
    BY <2>1 DEF TypeOK, SlotInv, Holding
  <2>7. ScanInv'
    <3>1. scan[c] = 0 /\ 0 \in OvenSlots
      BY <2>1, PizzeriaAssumption DEF ScanInv, OvenSlots
    <3>2. \A s \in OvenSlots : ~(s < 0)
      BY DEF OvenSlots
    <3> QED
      BY <2>1, <3>1, <3>2 DEF TypeOK, ScanInv
  <2> QED
    BY <2>4, <2>5, <2>6, <2>7
<1>5. CASE LookOven(c)
  <2>1. /\ pc[c] = "look_oven"
        /\ UNCHANGED <<oven, ovens_taken, sem, index, loaded>>
        /\ \/ /\ oven[scan[c]] = FREE /\ UNCHANGED scan
              /\ pc' = [pc EXCEPT ![c] = "claim_oven"]
           \/ /\ oven[scan[c]] # FREE /\ UNCHANGED pc
              /\ scan' = [scan EXCEPT ![c] = @ + 1]
    BY <1>5 DEF LookOven
  <2>2. CooksInOven' = CooksInOven /\ CountedCooks' = CountedCooks
    BY <2>1 DEF TypeOK, CooksInOven, CountedCooks, InOven, AtDoor, Counted
  <2>3. DoorInv' /\ UnitsInv'
    BY <2>1, <2>2 DEF TypeOK, DoorInv, UnitsInv, AtDoor
  <2>4. CountInv'
    BY <2>1, <2>2 DEF TypeOK, CountInv
  <2>5. SlotInv'
    BY <2>1 DEF TypeOK, SlotInv, Holding
  <2>6. ScanInv'
    <3>1. CASE oven[scan[c]] = FREE
      BY <2>1, <3>1 DEF TypeOK, ScanInv
    <3>2. CASE oven[scan[c]] # FREE
      <4>1. scan' = [scan EXCEPT ![c] = @ + 1] /\ UNCHANGED pc
        BY <2>1, <3>2
      <4>2. scan[c] \in OvenSlots /\ oven[scan[c]] = TAKEN
        BY <2>1, <3>2 DEF TypeOK, ScanInv
      <4>3. \A s \in OvenSlots : s < scan[c] + 1 => oven[s] = TAKEN
        BY <2>1, <4>2 DEF ScanInv, OvenSlots
      <4>4. PICK f \in OvenSlots : oven[f] = FREE
        BY <2>1, FreeSlotExists DEF InOven, AtDoor, Holding
      <4>5. scan[c] + 1 \in OvenSlots
        BY <4>2, <4>3, <4>4, PizzeriaAssumption DEF OvenSlots, FREE, TAKEN
      <4> QED
        BY <2>1, <4>1, <4>3, <4>5 DEF TypeOK, ScanInv
    <3> QED
      BY <3>1, <3>2
  <2> QED
    BY <2>3, <2>4, <2>5, <2>6
<1>6. CASE ClaimOven(c)
  <2>1. /\ pc[c] = "claim_oven" /\ pc' = [pc EXCEPT ![c] = "leave_oven"]
        /\ oven' = [oven EXCEPT ![scan[c]] = TAKEN]
        /\ index' = [index EXCEPT ![c] = scan[c]]
        /\ scan' = [scan EXCEPT ![c] = 0]
        /\ UNCHANGED <<ovens_taken, sem, loaded>>
    BY <1>6 DEF ClaimOven
  <2>2. CooksInOven' = CooksInOven /\ CountedCooks' = CountedCooks
    BY <2>1 DEF TypeOK, CooksInOven, CountedCooks, InOven, AtDoor, Counted
  <2>3. DoorInv' /\ UnitsInv'
    BY <2>1, <2>2 DEF TypeOK, DoorInv, UnitsInv, AtDoor
  <2>4. CountInv'
    BY <2>1, <2>2 DEF TypeOK, CountInv
  <2>5. scan[c] \in OvenSlots /\ oven[scan[c]] = FREE
    BY <2>1 DEF ScanInv
  <2>6. \A d \in Cooks : Holding(d) => d # c /\ index[d] # scan[c]
    BY <2>1, <2>5 DEF SlotInv, Holding, FREE, TAKEN
  <2>7. \A d \in Cooks : (Holding(d))' <=> Holding(d) \/ d = c
    BY <2>1 DEF TypeOK, Holding
  <2>8. \A d \in Cooks : index'[d] = IF d = c THEN scan[c] ELSE index[d]
    BY <2>1 DEF TypeOK
  <2>9. \A s \in OvenSlots : oven'[s] = IF s = scan[c] THEN TAKEN ELSE oven[s]
    BY <2>1 DEF TypeOK
  <2>10. SlotInv'
    BY <2>5, <2>6, <2>7, <2>8, <2>9 DEF SlotInv
  <2>11. ScanInv'
    <3>1. \A d \in Cooks : d # c => pc[d] \notin {"look_oven", "claim_oven"}
      BY <2>1 DEF DoorInv, AtDoor
    <3> QED
      BY <2>1, <3>1 DEF TypeOK, ScanInv
  <2> QED
    BY <2>3, <2>4, <2>10, <2>11
<1>7. CASE LeaveOven(c) \/ ReenterOven(c)
  <2>1. /\ \/ pc[c] = "leave_oven" /\ pc' = [pc EXCEPT ![c] = "bake"]
           \/ pc[c] = "bake" /\ pc' = [pc EXCEPT ![c] = "load_out"]
        /\ UNCHANGED <<oven, ovens_taken, scan, index, loaded>>
    BY <1>7 DEF LeaveOven, ReenterOven, Semop
  <2>2. sem'["OVEN_IN"] = sem["OVEN_IN"]
    BY <1>0, <1>7, SemopTypes DEF LeaveOven, ReenterOven, Sems
  <2>3. CooksInOven' = CooksInOven /\ CountedCooks' = CountedCooks
    BY <2>1 DEF TypeOK, CooksInOven, CountedCooks, InOven, AtDoor, Counted
  <2>4. DoorInv'
    <3>1. sem \in [Sems -> Nat] /\ sem' \in [Sems -> Nat] /\ sem["OVEN_PLACE"] \in {0, 1}
      BY DEF TypeOK, Sems, DoorInv
    <3>2. CASE LeaveOven(c)
      <4>1. sem'["OVEN_PLACE"] = sem["OVEN_PLACE"] + 1
        BY <1>0, <3>2, SemopTypes DEF LeaveOven, Sems
      <4>2. pc[c] = "leave_oven" /\ pc' = [pc EXCEPT ![c] = "bake"]
        BY <3>2 DEF LeaveOven, Semop
      <4>3. sem["OVEN_PLACE"] = 0 /\ sem'["OVEN_PLACE"] = 1
        BY <3>1, <4>1, <4>2 DEF DoorInv, AtDoor
      <4> QED
        BY <4>2, <4>3 DEF TypeOK, DoorInv, AtDoor
    <3>3. CASE ReenterOven(c)
      <4>1. sem'["OVEN_PLACE"] = sem["OVEN_PLACE"] - 1
        BY <1>0, <3>1, <3>3, SemopTypes DEF ReenterOven, Sems
      <4>2. pc[c] = "bake" /\ pc' = [pc EXCEPT ![c] = "load_out"]
        BY <3>3 DEF ReenterOven, Semop
      <4>3. sem["OVEN_PLACE"] = 1 /\ sem'["OVEN_PLACE"] = 0
        BY <3>1, <4>1 DEF Sems
      <4> QED
        BY <4>2, <4>3 DEF TypeOK, DoorInv, AtDoor
    <3> QED
      BY <1>7, <3>2, <3>3
  <2>5. UnitsInv' /\ CountInv'
    BY <2>1, <2>2, <2>3 DEF TypeOK, UnitsInv, CountInv
  <2>6. SlotInv'
    BY <2>1 DEF TypeOK, SlotInv, Holding
  <2>7. ScanInv'
    BY <2>1 DEF TypeOK, ScanInv
  <2> QED
    BY <2>4, <2>5, <2>6, <2>7
<1>8. CASE StoreOvens(c, "store_out", "free_oven", -1)
  <2>1. /\ pc[c] = "store_out" /\ pc' = [pc EXCEPT ![c] = "free_oven"]
        /\ ovens_taken' = ovens_taken - 1
        /\ UNCHANGED <<oven, sem, scan, index, loaded>>
    BY <1>8 DEF StoreOvens, CountInv, TypeOK
  <2>2. CooksInOven' = CooksInOven
    BY <2>1 DEF TypeOK, CooksInOven, InOven, AtDoor
  <2>3. CountedCooks' = CountedCooks \ {c} /\ c \in CountedCooks
    BY <2>1 DEF TypeOK, CountedCooks, Counted
  <2>4. DoorInv' /\ UnitsInv'
    BY <2>1, <2>2 DEF TypeOK, DoorInv, UnitsInv, AtDoor
  <2>5. CountInv'
    <3>1. Cardinality(CountedCooks') = Cardinality(CountedCooks) - 1
      BY <2>3, CookSets, <1>0
    <3>2. \A d \in Cooks : d # c => pc[d] \notin {"store_in", "store_out"}
      BY <2>1 DEF DoorInv, AtDoor
    <3> QED
      BY <2>1, <3>1, <3>2 DEF TypeOK, CountInv
  <2>6. SlotInv'
    BY <2>1 DEF TypeOK, SlotInv, Holding
  <2>7. ScanInv'
    BY <2>1 DEF TypeOK, ScanInv
  <2> QED
    BY <2>4, <2>5, <2>6, <2>7
<1>9. CASE FreeOven(c)
  <2>1. /\ pc[c] = "free_oven" /\ pc' = [pc EXCEPT ![c] = "exit_oven"]
        /\ oven' = [oven EXCEPT ![index[c]] = FREE]
        /\ UNCHANGED <<ovens_taken, sem, scan, index, loaded>>
    BY <1>9 DEF FreeOven
  <2>2. CooksInOven' = CooksInOven /\ CountedCooks' = CountedCooks
    BY <2>1 DEF TypeOK, CooksInOven, CountedCooks, InOven, AtDoor, Counted
  <2>3. DoorInv' /\ UnitsInv' /\ CountInv'
    BY <2>1, <2>2 DEF TypeOK, DoorInv, UnitsInv, CountInv, AtDoor
  <2>4. Holding(c) /\ index[c] \in OvenSlots
    BY <2>1 DEF SlotInv, Holding
  <2>5. \A d \in Cooks : (Holding(d))' <=> Holding(d) /\ d # c
    BY <2>1 DEF TypeOK, Holding
  <2>6. \A s \in OvenSlots : oven'[s] = IF s = index[c] THEN FREE ELSE oven[s]
    BY <2>1, <2>4 DEF TypeOK
  <2>7. SlotInv'
    BY <2>1, <2>4, <2>5, <2>6 DEF SlotInv, FREE, TAKEN
  <2>8. ScanInv'
    <3>1. \A d \in Cooks : d # c => pc[d] \notin {"look_oven", "claim_oven"}
      BY <2>1 DEF DoorInv, AtDoor
    <3> QED
      BY <2>1, <3>1 DEF TypeOK, ScanInv
  <2> QED
    BY <2>3, <2>7, <2>8
<1>10. CASE ExitOven(c)
  <2>1. /\ pc[c] = "exit_oven" /\ pc' = [pc EXCEPT ![c] = "enter_table"]
        /\ UNCHANGED <<oven, ovens_taken, scan, index, loaded>>
    BY <1>10 DEF ExitOven, Semop
  <2>2. /\ sem["OVEN_PLACE"] = 0 /\ sem'["OVEN_PLACE"] = 1
        /\ sem'["OVEN_IN"] = sem["OVEN_IN"] + 1
    <3> DEFINE ops == [OVEN_PLACE |-> 1, OVEN_IN |-> 1]
    <3>1. \A s \in DOMAIN ops : sem'[s] = sem[s] + ops[s]
      BY <1>0, <1>10, SemopTypes DEF ExitOven, Sems
    <3>2. sem["OVEN_PLACE"] = 0
      BY <2>1 DEF DoorInv, AtDoor
    <3>3. /\ DOMAIN ops = {"OVEN_PLACE", "OVEN_IN"}
          /\ ops["OVEN_PLACE"] = 1 /\ ops["OVEN_IN"] = 1
      OBVIOUS
    <3> HIDE DEF ops
    <3> QED
      BY <3>1, <3>2, <3>3
  <2>3. CooksInOven' = CooksInOven \ {c} /\ c \in CooksInOven
    BY <2>1 DEF TypeOK, CooksInOven, InOven, AtDoor
  <2>4. CountedCooks' = CountedCooks
    BY <2>1 DEF TypeOK, CountedCooks, Counted
  <2>5. DoorInv'
    BY <2>1, <2>2 DEF TypeOK, DoorInv, AtDoor
  <2>6. UnitsInv'
    <3>1. /\ Cardinality(CooksInOven') = Cardinality(CooksInOven) - 1
          /\ Cardinality(CooksInOven) \in Nat
      BY <2>3, CookSets, <1>0
    <3> QED
      BY <2>2, <3>1, PizzeriaAssumption DEF TypeOK, UnitsInv
  <2>7. CountInv'
    BY <2>1, <2>4 DEF TypeOK, CountInv
  <2>8. SlotInv'
    BY <2>1 DEF TypeOK, SlotInv, Holding
  <2>9. ScanInv'
    BY <2>1 DEF TypeOK, ScanInv
  <2> QED
    BY <2>5, <2>6, <2>7, <2>8, <2>9
<1> QED
  BY <1>1, <1>2, <1>3, <1>4, <1>5, <1>6, <1>7, <1>8, <1>9, <1>10 DEF BakePizza

\* The steps of a cook at the table and of a supplier are quiet.
LEMMA OvenInvElsewhere ==
    ASSUME TypeOK, OvenInv, NEW p \in Procs,
           (p \in Cooks /\ PlacePizza(p)) \/ (p \in Suppliers /\ SupplyPizza(p))
    PROVE  OvenInv'
<1> USE DEF Goto, ovenVars, tableVars, locals, history
<1>1. UNCHANGED ovenVars
  BY DEF PlacePizza, SupplyPizza, EnterTable, ExitTable, TakeReady, Semop,
     LookTable, ClaimTable, LoadTables, StoreTables, LookForPizza, ShiftQueue,
     ReadPizza, FreeTable, Deliver
<1>2. sem'["OVEN_PLACE"] = sem["OVEN_PLACE"] /\ sem'["OVEN_IN"] = sem["OVEN_IN"]
  <2>1. ASSUME NEW from, NEW to, NEW ops, Semop(p, from, to, ops),
               DOMAIN ops \subseteq {"TABLE_PLACE", "TABLE_ON", "TABLE_READY"}
        PROVE  sem'["OVEN_PLACE"] = sem["OVEN_PLACE"] /\ sem'["OVEN_IN"] = sem["OVEN_IN"]
    BY <2>1 DEF Semop, AfterSemop, TypeOK
  <2>2. CASE EnterTable(p) \/ ExitTable(p) \/ TakeReady(p)
    BY <2>1, <2>2 DEF EnterTable, ExitTable, TakeReady
  <2>3. CASE UNCHANGED sem
    BY <2>3
  <2> QED
    BY <2>2, <2>3 DEF PlacePizza, SupplyPizza, LookTable, ClaimTable, LoadTables,
       StoreTables, LookForPizza, ShiftQueue, ReadPizza, FreeTable, Deliver
<1>3. \A c \in Cooks \ {p} :
         /\ pc'[c] = pc[c] /\ scan'[c] = scan[c]
         /\ index'[c] = index[c] /\ loaded'[c] = loaded[c]
  <2> SUFFICES ASSUME NEW c \in Cooks \ {p}
               PROVE  /\ pc'[c] = pc[c] /\ scan'[c] = scan[c]
                      /\ index'[c] = index[c] /\ loaded'[c] = loaded[c]
    OBVIOUS
  <2> USE DEF TypeOK, Procs
  <2>1. CASE EnterTable(p) \/ ExitTable(p) \/ TakeReady(p)
    BY <2>1 DEF EnterTable, ExitTable, TakeReady, Semop
  <2>2. CASE LookTable(p) \/ ClaimTable(p) \/ FreeTable(p) \/ Deliver(p, "wait_ready")
    BY <2>2 DEF LookTable, ClaimTable, FreeTable, Deliver
  <2>3. ASSUME NEW from, NEW to, NEW delta,
               LoadTables(p, from, to) \/ StoreTables(p, from, to, delta)
        PROVE  /\ pc'[c] = pc[c] /\ scan'[c] = scan[c]
               /\ index'[c] = index[c] /\ loaded'[c] = loaded[c]
    BY <2>3 DEF LoadTables, StoreTables
  <2>4. CASE LookForPizza(p)
    BY <2>4 DEF LookForPizza
  <2>5. CASE ShiftQueue(p) \/ ReadPizza(p)
    BY <2>5 DEF ShiftQueue, ReadPizza
  <2> QED
    BY <2>1, <2>2, <2>3, <2>4, <2>5 DEF PlacePizza, SupplyPizza
<1>4. ASSUME p \in Cooks
      PROVE  /\ pc[p] \in AwayPcs /\ pc'[p] \in AwayPcs
             /\ pc'[p] \in {"load_table", "store_table", "exit_table",
                            "prepare", "enter_oven"} => scan'[p] = 0
  BY <1>4, PizzeriaAssumption DEF TypeOK, ScanInv, OvenInv, AwayPcs, PlacePizza,
     EnterTable, ExitTable, Semop, LookTable, ClaimTable, LoadTables, StoreTables
<1> QED
  BY <1>1, <1>2, <1>3, <1>4, QuietStep

LEMMA OvenInvariant == Spec => []OvenInv
<1>1. TypeOK /\ TypeOK' /\ OvenInv /\ [Next]_vars => OvenInv'
  <2> SUFFICES ASSUME TypeOK, TypeOK', OvenInv, [Next]_vars PROVE OvenInv'
    OBVIOUS
  <2>1. ASSUME NEW c \in Cooks, BakePizza(c) \/ PlacePizza(c) PROVE OvenInv'
    <3>1. CASE BakePizza(c)
      BY <3>1, OvenInvBake
    <3>2. CASE PlacePizza(c)
      BY <3>2, OvenInvElsewhere DEF Procs
    <3> QED
      BY <2>1, <3>1, <3>2
  <2>2. ASSUME NEW s \in Suppliers, SupplyPizza(s) PROVE OvenInv'
    BY <2>2, OvenInvElsewhere DEF Procs
  <2>3. CASE UNCHANGED vars
    BY <2>3 DEF vars, OvenInv, DoorInv, UnitsInv, CountInv, SlotInv, ScanInv,
       CooksInOven, CountedCooks, InOven, AtDoor, Counted, Holding
  <2> QED
    BY <2>1, <2>2, <2>3 DEF Next
<1> QED
  BY <1>1, OvenInvInit, TypeCorrect, PTL DEF Spec

\* The count printed is the number of pizzas in the oven and fits the oven
\* (cook.c:90 and 112): the second half is half of what wnioski.txt:2 reports.
THEOREM OvenCountTheorem == Spec => []OvenCountExact
<1>1. TypeOK /\ OvenInv => OvenCountExact
  <2> SUFFICES ASSUME TypeOK, OvenInv PROVE OvenCountExact
    OBVIOUS
  <2>1. CountedCooks \subseteq CooksInOven /\ CooksInOven \subseteq Cooks
    BY DEF CountedCooks, CooksInOven, Counted, InOven, AtDoor
  <2>2. /\ Cardinality(CountedCooks) <= Cardinality(CooksInOven)
        /\ Cardinality(CountedCooks) \in Nat /\ Cardinality(CooksInOven) \in Nat
    BY <2>1, CookSets, FS_Subset
  <2>3. sem["OVEN_IN"] \in Nat
    BY DEF TypeOK
  <2> QED
    BY <2>2, <2>3, PizzeriaAssumption DEF OvenInv, CountInv, UnitsInv, OvenCountExact
<1> QED
  BY <1>1, TypeCorrect, OvenInvariant, PTL

\* Slots and the cooks that fill them correspond one to one.
THEOREM OvenSlotsTheorem == Spec => []OvenSlotsOwned
<1>1. OvenInv => OvenSlotsOwned
  BY DEF OvenInv, SlotInv, OvenSlotsOwned
<1> QED
  BY <1>1, OvenInvariant, PTL

\* The scan of the oven stays inside the array.
THEOREM OvenScanTheorem == Spec => []OvenScanInBounds
<1>1. OvenInv => OvenScanInBounds
  BY PizzeriaAssumption DEF OvenInv, ScanInv, OvenScanInBounds, OvenSlots
<1> QED
  BY <1>1, OvenInvariant, PTL

------------------------------------------------------------------------------
(* Refinement: the oven implements the abstract slot store.                  *)

Held == [c \in Cooks |-> IF Holding(c) THEN index[c] ELSE OVEN_CAP]

\* Every step of the program acquires a free slot for one cook, releases the
\* slot of one cook, or leaves the store alone.
LEMMA StoreStep ==
    ASSUME TypeOK, OvenInv, [Next]_vars
    PROVE  [Store!Next]_Held
<1> USE DEF Goto, ovenVars, tableVars, locals, history, Procs, TypeOK
<1>1. ASSUME NEW c \in Cooks, ClaimOven(c) PROVE Store!Acquire(c, scan[c])
  <2>1. /\ pc[c] = "claim_oven" /\ pc' = [pc EXCEPT ![c] = "leave_oven"]
        /\ index' = [index EXCEPT ![c] = scan[c]]
    BY <1>1 DEF ClaimOven
  <2>2. scan[c] \in OvenSlots /\ oven[scan[c]] = FREE
    BY <2>1 DEF OvenInv, ScanInv
  <2>3. Held[c] = OVEN_CAP
    BY <2>1 DEF Held, Holding
  <2>4. \A d \in Cooks : Held[d] # scan[c]
    BY <2>2, PizzeriaAssumption DEF Held, OvenInv, SlotInv, OvenSlots, FREE, TAKEN
  <2>5. Held' = [Held EXCEPT ![c] = scan[c]]
    <3>1. \A d \in Cooks : Held'[d] = IF d = c THEN scan[c] ELSE Held[d]
      BY <2>1 DEF Held, Holding
    <3> QED
      BY <3>1 DEF Held
  <2> QED
    BY <2>3, <2>4, <2>5 DEF Store!Acquire, Held
<1>2. ASSUME NEW c \in Cooks, FreeOven(c) PROVE Store!Release(c)
  <2>1. /\ pc[c] = "free_oven" /\ pc' = [pc EXCEPT ![c] = "exit_oven"]
        /\ UNCHANGED index
    BY <1>2 DEF FreeOven
  <2>2. Held[c] # OVEN_CAP
    BY <2>1, PizzeriaAssumption DEF Held, Holding, OvenInv, SlotInv, OvenSlots
  <2>3. Held' = [Held EXCEPT ![c] = OVEN_CAP]
    <3>1. \A d \in Cooks : Held'[d] = IF d = c THEN OVEN_CAP ELSE Held[d]
      BY <2>1 DEF Held, Holding
    <3> QED
      BY <3>1 DEF Held
  <2> QED
    BY <2>2, <2>3 DEF Store!Release, Held
<1>3. ASSUME \A c \in Cooks :
                /\ (Holding(c))' <=> Holding(c)
                /\ Holding(c) => index'[c] = index[c]
      PROVE  UNCHANGED Held
  BY <1>3 DEF Held
<1>4. ASSUME NEW c \in Cooks, BakePizza(c), ~ClaimOven(c), ~FreeOven(c)
      PROVE  UNCHANGED Held
  <2>1. CASE EnterOven(c) \/ LeaveOven(c) \/ ReenterOven(c) \/ ExitOven(c)
    BY <2>1, <1>3 DEF EnterOven, LeaveOven, ReenterOven, ExitOven, Semop, Holding
  <2>2. CASE Prepare(c, "enter_oven") \/ LookOven(c)
    BY <2>2, <1>3 DEF Prepare, LookOven, Holding
  <2>3. CASE LoadOvens(c, "load_in", "store_in") \/ LoadOvens(c, "load_out", "store_out")
    BY <2>3, <1>3 DEF LoadOvens, Holding
  <2>4. CASE StoreOvens(c, "store_in", "look_oven", 1)
    BY <2>4, <1>3 DEF StoreOvens, Holding
  <2>5. CASE StoreOvens(c, "store_out", "free_oven", -1)
    BY <2>5, <1>3 DEF StoreOvens, Holding
  <2> QED
    BY <1>4, <2>1, <2>2, <2>3, <2>4, <2>5 DEF BakePizza
<1>5. ASSUME NEW c \in Cooks, PlacePizza(c) PROVE UNCHANGED Held
  <2>1. CASE EnterTable(c) \/ ExitTable(c)
    BY <2>1, <1>3 DEF EnterTable, ExitTable, Semop, Holding
  <2>2. CASE LookTable(c)
    BY <2>2, <1>3 DEF LookTable, Holding
  <2>3. CASE ClaimTable(c)
    BY <2>3, <1>3 DEF ClaimTable, Holding
  <2>4. CASE LoadTables(c, "load_table", "store_table")
             \/ StoreTables(c, "store_table", "exit_table", 1)
    BY <2>4, <1>3 DEF LoadTables, StoreTables, Holding
  <2> QED
    BY <1>5, <2>1, <2>2, <2>3, <2>4 DEF PlacePizza
<1>6. ASSUME NEW s \in Suppliers, SupplyPizza(s) PROVE UNCHANGED Held
  <2>1. s \notin Cooks
    BY PizzeriaAssumption
  <2>2. CASE TakeReady(s) \/ Deliver(s, "wait_ready") \/ FreeTable(s)
    BY <2>1, <2>2, <1>3 DEF TakeReady, Semop, Deliver, FreeTable, Holding
  <2>3. CASE LookForPizza(s)
    BY <2>1, <2>3, <1>3 DEF LookForPizza, Holding
  <2>4. CASE ShiftQueue(s) \/ ReadPizza(s)
    BY <2>1, <2>4, <1>3 DEF ShiftQueue, ReadPizza, Holding
  <2>5. CASE LoadTables(s, "load_taken", "store_taken")
             \/ StoreTables(s, "store_taken", "free_table", -1)
    BY <2>1, <2>5, <1>3 DEF LoadTables, StoreTables, Holding
  <2> QED
    BY <1>6, <2>2, <2>3, <2>4, <2>5 DEF SupplyPizza
<1>7. CASE UNCHANGED vars
  BY <1>7 DEF vars, Held, Holding
<1>8. \A c \in Cooks : ClaimOven(c) => Store!Next
  <2> SUFFICES ASSUME NEW c \in Cooks, ClaimOven(c) PROVE Store!Next
    OBVIOUS
  <2>1. scan[c] \in OvenSlots
    BY DEF ClaimOven, OvenInv, ScanInv
  <2>2. Store!Acquire(c, scan[c])
    BY <1>1
  <2>3. \E s \in OvenSlots : Store!Acquire(c, s)
    BY <2>1, <2>2 DEF Store!Acquire
  <2> QED
    BY <2>3 DEF Store!Next
<1>9. \A c \in Cooks : FreeOven(c) => Store!Next
  BY <1>2 DEF Store!Next
<1> QED
  BY <1>4, <1>5, <1>6, <1>7, <1>8, <1>9 DEF Next

\* The oven of the System V program implements SlotStore: its cooks see
\* exclusive slots, though the code scans and claims in separate steps.
THEOREM OvenImplementsStore == Spec => OvenIsSlotStore
<1>1. Init => Store!Init
  BY DEF Init, MemoryInit, Store!Init, Holding, Procs
<1>2. TypeOK /\ OvenInv /\ [Next]_vars => [Store!Next]_Held
  BY StoreStep
<1> QED
  BY <1>1, <1>2, TypeCorrect, OvenInvariant, PTL
     DEF Spec, OvenIsSlotStore, Store!Spec, Held
------------------------------------------------------------------------------
(* The table: what TABLE_PLACE, TABLE_ON and TABLE_READY do guarantee for  *)
(* every value of the constants.  Units are conserved and no cook writes   *)
(* over a pizza.                                                           *)

\* TABLE_PLACE admits one cook, the units add up, and a slot a cook has found
\* free is still free when it puts its pizza there: only suppliers, who write
\* FREE, act on the table meanwhile.
TableDoorInv ==
    /\ sem["TABLE_PLACE"] \in {0, 1}
    /\ sem["TABLE_PLACE"] = 1 => \A c \in Cooks : ~AtTable(c)
    /\ \A c, d \in Cooks : AtTable(c) /\ AtTable(d) => c = d

ClaimInv ==
    \A c \in Cooks :
        pc[c] = "claim_table" /\ scan[c] \in TableSlots => table[scan[c]] = FREE

TableInv == TableDoorInv /\ TableUnits /\ ClaimInv

\* A step that moves nobody in or out of the table section.
LEMMA TableQuietStep ==
    ASSUME TypeOK, TableInv, NEW p \in Procs,
           \A c \in Cooks \ {p} : pc'[c] = pc[c] /\ scan'[c] = scan[c],
           p \in Cooks => /\ (AtTable(p))' <=> AtTable(p)
                          /\ pc'[p] # "claim_table",
           \A s \in {"TABLE_PLACE", "TABLE_ON", "TABLE_READY"} : sem'[s] = sem[s],
           \A s \in TableSlots : table'[s] \in {table[s], FREE}
    PROVE  TableInv'
<1>1. \A c \in Cooks : (AtTable(c))' <=> AtTable(c)
  BY DEF AtTable
<1>2. CooksAtTable' = CooksAtTable
  BY <1>1 DEF CooksAtTable
<1>3. TableDoorInv'
  BY <1>1 DEF TableInv, TableDoorInv
<1>4. TableUnits'
  BY <1>2 DEF TableInv, TableUnits
<1>5. ClaimInv'
  <2>1. \A c \in Cooks : pc'[c] = "claim_table" => c # p
    OBVIOUS
  <2> QED
    BY <2>1 DEF TableInv, ClaimInv
<1> QED
  BY <1>3, <1>4, <1>5 DEF TableInv

LEMMA TableInvInit == Init => TableInv
<1> SUFFICES ASSUME Init PROVE TableInv
  OBVIOUS
<1> USE PizzeriaAssumption DEF Init, MemoryInit, Procs
<1>1. \A c \in Cooks : pc[c] = "prepare"
  OBVIOUS
<1>2. CooksAtTable = {}
  BY <1>1 DEF CooksAtTable, AtTable
<1>3. TableDoorInv /\ ClaimInv
  BY <1>1 DEF TableDoorInv, ClaimInv, AtTable
<1>4. TableUnits
  BY <1>2, FS_EmptySet DEF TableUnits
<1> QED
  BY <1>3, <1>4 DEF TableInv

\* A cook's steps at the table.
LEMMA TableInvPlace ==
    ASSUME TypeOK, TypeOK', TableInv, NEW c \in Cooks, PlacePizza(c)
    PROVE  TableInv'
<1> USE DEF Goto, ovenVars, tableVars, locals, history, Procs, TableInv
<1>0. c \in Procs /\ CooksAtTable \in SUBSET Cooks
  BY DEF CooksAtTable
<1>1. sem \in [Sems -> Nat] /\ sem' \in [Sems -> Nat]
  BY DEF TypeOK, Sems
<1>2. CASE EnterTable(c)
  <2>1. /\ pc[c] = "enter_table" /\ pc' = [pc EXCEPT ![c] = "look_table"]
        /\ UNCHANGED <<table, scan>>
    BY <1>2 DEF EnterTable, Semop
  <2>2. /\ sem["TABLE_PLACE"] = 1 /\ sem'["TABLE_PLACE"] = 0
        /\ sem'["TABLE_ON"] = sem["TABLE_ON"] - 1
        /\ sem'["TABLE_READY"] = sem["TABLE_READY"]
    <3> DEFINE ops == [TABLE_PLACE |-> -1, TABLE_ON |-> -1]
    <3>1. /\ \A s \in DOMAIN ops : sem'[s] = sem[s] + ops[s]
          /\ \A s \in Sems \ DOMAIN ops : sem'[s] = sem[s]
      BY <1>0, <1>2, SemopTypes DEF EnterTable, Sems
    <3>2. /\ DOMAIN ops = {"TABLE_PLACE", "TABLE_ON"}
          /\ ops["TABLE_PLACE"] = -1 /\ ops["TABLE_ON"] = -1
      OBVIOUS
    <3>3. sem["TABLE_PLACE"] \in {0, 1}
      BY DEF TableDoorInv
    <3> HIDE DEF ops
    <3> QED
      BY <1>1, <3>1, <3>2, <3>3 DEF Sems
  <2>3. CooksAtTable' = CooksAtTable \cup {c} /\ c \notin CooksAtTable
    BY <2>1 DEF TypeOK, CooksAtTable, AtTable
  <2>4. TableDoorInv'
    BY <2>1, <2>2 DEF TypeOK, TableDoorInv, AtTable
  <2>5. TableUnits'
    <3>1. /\ Cardinality(CooksAtTable') = Cardinality(CooksAtTable) + 1
          /\ Cardinality(CooksAtTable) \in Nat
      BY <2>3, CookSets, <1>0
    <3> QED
      BY <1>1, <2>2, <3>1, PizzeriaAssumption DEF TableUnits, Sems
  <2>6. ClaimInv'
    BY <2>1 DEF TypeOK, ClaimInv
  <2> QED
    BY <2>4, <2>5, <2>6
<1>3. CASE LookTable(c)
  <2>1. /\ pc[c] = "look_table" /\ UNCHANGED <<table, sem>>
        /\ \/ /\ Word(scan[c]) = FREE /\ UNCHANGED scan
              /\ pc' = [pc EXCEPT ![c] = "claim_table"]
           \/ scan' = [scan EXCEPT ![c] = @ + 1] /\ UNCHANGED pc
    BY <1>3 DEF LookTable
  <2>2. CooksAtTable' = CooksAtTable
    BY <2>1 DEF TypeOK, CooksAtTable, AtTable
  <2>3. TableDoorInv' /\ TableUnits'
    BY <2>1, <2>2 DEF TypeOK, TableDoorInv, TableUnits, AtTable
  <2>4. ClaimInv'
    <3>1. scan[c] \in TableSlots => Word(scan[c]) = table[scan[c]]
      BY PizzeriaAssumption DEF Word, TableSlots
    <3> QED
      BY <2>1, <3>1 DEF TypeOK, ClaimInv
  <2> QED
    BY <2>3, <2>4
<1>4. CASE ClaimTable(c)
  <2>1. /\ pc[c] = "claim_table" /\ pc' = [pc EXCEPT ![c] = "load_table"]
        /\ UNCHANGED sem
        /\ \A d \in Cooks : d # c => scan'[d] = scan[d]
    BY <1>4 DEF ClaimTable, TypeOK
  <2>2. CooksAtTable' = CooksAtTable
    BY <2>1 DEF TypeOK, CooksAtTable, AtTable
  <2>3. TableDoorInv' /\ TableUnits'
    BY <2>1, <2>2 DEF TypeOK, TableDoorInv, TableUnits, AtTable
  <2>4. ClaimInv'
    <3>1. \A d \in Cooks : pc'[d] # "claim_table"
      BY <2>1 DEF TypeOK, TableDoorInv, AtTable
    <3> QED
      BY <3>1 DEF ClaimInv
  <2> QED
    BY <2>3, <2>4
<1>5. CASE LoadTables(c, "load_table", "store_table")
           \/ StoreTables(c, "store_table", "exit_table", 1)
  <2>1. /\ \/ pc[c] = "load_table" /\ pc' = [pc EXCEPT ![c] = "store_table"]
           \/ pc[c] = "store_table" /\ pc' = [pc EXCEPT ![c] = "exit_table"]
        /\ UNCHANGED <<table, scan, sem>>
    BY <1>5 DEF LoadTables, StoreTables
  <2> QED
    BY <1>0, <2>1, TableQuietStep DEF TypeOK, AtTable
<1>6. CASE ExitTable(c)
  <2>1. /\ pc[c] = "exit_table" /\ pc' = [pc EXCEPT ![c] = "prepare"]
        /\ UNCHANGED <<table, scan>>
    BY <1>6 DEF ExitTable, Semop
  <2>2. /\ sem["TABLE_PLACE"] = 0 /\ sem'["TABLE_PLACE"] = 1
        /\ sem'["TABLE_ON"] = sem["TABLE_ON"]
        /\ sem'["TABLE_READY"] = sem["TABLE_READY"] + 1
    <3> DEFINE ops == [TABLE_PLACE |-> 1, TABLE_READY |-> 1]
    <3>1. /\ \A s \in DOMAIN ops : sem'[s] = sem[s] + ops[s]
          /\ \A s \in Sems \ DOMAIN ops : sem'[s] = sem[s]
      BY <1>0, <1>6, SemopTypes DEF ExitTable, Sems
    <3>2. /\ DOMAIN ops = {"TABLE_PLACE", "TABLE_READY"}
          /\ ops["TABLE_PLACE"] = 1 /\ ops["TABLE_READY"] = 1
      OBVIOUS
    <3>3. sem["TABLE_PLACE"] = 0
      BY <2>1 DEF TableDoorInv, AtTable
    <3> HIDE DEF ops
    <3> QED
      BY <3>1, <3>2, <3>3 DEF Sems
  <2>3. CooksAtTable' = CooksAtTable \ {c} /\ c \in CooksAtTable
    BY <2>1 DEF TypeOK, CooksAtTable, AtTable
  <2>4. TableDoorInv'
    BY <2>1, <2>2 DEF TypeOK, TableDoorInv, AtTable
  <2>5. TableUnits'
    <3>1. /\ Cardinality(CooksAtTable') = Cardinality(CooksAtTable) - 1
          /\ Cardinality(CooksAtTable) \in Nat
      BY <2>3, CookSets, <1>0
    <3> QED
      BY <1>1, <2>2, <3>1, PizzeriaAssumption DEF TableUnits, Sems
  <2>6. ClaimInv'
    BY <2>1 DEF TypeOK, ClaimInv
  <2> QED
    BY <2>4, <2>5, <2>6
<1> QED
  BY <1>2, <1>3, <1>4, <1>5, <1>6 DEF PlacePizza

\* A cook's steps at the oven leave the table alone.
LEMMA TableInvBake ==
    ASSUME TypeOK, TableInv, NEW c \in Cooks, BakePizza(c)
    PROVE  TableInv'
<1> USE DEF Goto, ovenVars, tableVars, locals, history, Procs
<1>1. /\ \A d \in Cooks \ {c} : pc'[d] = pc[d] /\ scan'[d] = scan[d]
      /\ ~AtTable(c) /\ (~AtTable(c))' /\ UNCHANGED table
  <2> USE DEF TypeOK, AtTable
  <2>1. CASE Prepare(c, "enter_oven")
    BY <2>1 DEF Prepare
  <2>2. CASE EnterOven(c) \/ LeaveOven(c) \/ ReenterOven(c) \/ ExitOven(c)
    BY <2>2 DEF EnterOven, LeaveOven, ReenterOven, ExitOven, Semop
  <2>3. CASE LoadOvens(c, "load_in", "store_in") \/ LoadOvens(c, "load_out", "store_out")
    BY <2>3 DEF LoadOvens
  <2>4. CASE StoreOvens(c, "store_in", "look_oven", 1)
             \/ StoreOvens(c, "store_out", "free_oven", -1)
    BY <2>4 DEF StoreOvens
  <2>5. CASE LookOven(c)
    BY <2>5 DEF LookOven
  <2>6. CASE ClaimOven(c) \/ FreeOven(c)
    BY <2>6 DEF ClaimOven, FreeOven
  <2> QED
    BY <2>1, <2>2, <2>3, <2>4, <2>5, <2>6 DEF BakePizza
<1>2. \A s \in {"TABLE_PLACE", "TABLE_ON", "TABLE_READY"} : sem'[s] = sem[s]
  <2>1. ASSUME NEW from, NEW to, NEW ops, Semop(c, from, to, ops),
               DOMAIN ops \subseteq {"OVEN_PLACE", "OVEN_IN"}
        PROVE  \A s \in {"TABLE_PLACE", "TABLE_ON", "TABLE_READY"} : sem'[s] = sem[s]
    BY <2>1 DEF Semop, AfterSemop, TypeOK
  <2>2. CASE EnterOven(c) \/ LeaveOven(c) \/ ReenterOven(c) \/ ExitOven(c)
    BY <2>1, <2>2 DEF EnterOven, LeaveOven, ReenterOven, ExitOven
  <2>3. CASE UNCHANGED sem
    BY <2>3
  <2> QED
    BY <2>2, <2>3 DEF BakePizza, Prepare, LoadOvens, StoreOvens, LookOven,
       ClaimOven, FreeOven
<1> QED
  BY <1>1, <1>2, TableQuietStep DEF AtTable

\* A supplier's steps: one semop on the table's counting semaphores, then
\* writes that can only free slots.
LEMMA TableInvSupply ==
    ASSUME TypeOK, TypeOK', TableInv, NEW s \in Suppliers, SupplyPizza(s)
    PROVE  TableInv'
<1> USE PizzeriaAssumption DEF Goto, ovenVars, tableVars, locals, history, Procs
<1>1. /\ \A c \in Cooks : pc'[c] = pc[c] /\ scan'[c] = scan[c]
      /\ \A t \in TableSlots : table'[t] \in {table[t], FREE}
  <2> USE DEF TypeOK
  <2>1. CASE TakeReady(s) \/ Deliver(s, "wait_ready")
    BY <2>1 DEF TakeReady, Semop, Deliver
  <2>2. CASE LookForPizza(s)
    BY <2>2 DEF LookForPizza
  <2>3. CASE ShiftQueue(s) \/ ReadPizza(s)
    BY <2>3 DEF ShiftQueue, ReadPizza
  <2>4. CASE LoadTables(s, "load_taken", "store_taken")
             \/ StoreTables(s, "store_taken", "free_table", -1)
    BY <2>4 DEF LoadTables, StoreTables
  <2>5. CASE FreeTable(s)
    BY <2>5 DEF FreeTable
  <2> QED
    BY <2>1, <2>2, <2>3, <2>4, <2>5 DEF SupplyPizza
<1>2. CASE TakeReady(s)
  <2>1. /\ sem'["TABLE_PLACE"] = sem["TABLE_PLACE"]
        /\ sem'["TABLE_ON"] = sem["TABLE_ON"] + 1
        /\ sem'["TABLE_READY"] = sem["TABLE_READY"] - 1
    <3> DEFINE ops == [TABLE_ON |-> 1, TABLE_READY |-> -1]
    <3>1. /\ \A t \in DOMAIN ops : sem'[t] = sem[t] + ops[t]
          /\ \A t \in Sems \ DOMAIN ops : sem'[t] = sem[t]
      BY <1>2, SemopTypes DEF TakeReady, Sems
    <3>2. /\ DOMAIN ops = {"TABLE_ON", "TABLE_READY"}
          /\ ops["TABLE_ON"] = 1 /\ ops["TABLE_READY"] = -1
      OBVIOUS
    <3>3. sem \in [Sems -> Nat]
      BY DEF TypeOK, Sems
    <3> HIDE DEF ops
    <3> QED
      BY <3>1, <3>2, <3>3 DEF Sems
  <2>2. CooksAtTable' = CooksAtTable /\ \A c \in Cooks : (AtTable(c))' <=> AtTable(c)
    BY <1>1 DEF CooksAtTable, AtTable
  <2>3. TableDoorInv'
    BY <2>1, <2>2 DEF TableInv, TableDoorInv
  <2>4. TableUnits'
    <3>1. Cardinality(CooksAtTable) \in Nat
      BY CookSets DEF CooksAtTable
    <3>2. sem \in [Sems -> Nat]
      BY DEF TypeOK, Sems
    <3> QED
      BY <2>1, <2>2, <3>1, <3>2 DEF TableInv, TableUnits, Sems
  <2>5. ClaimInv'
    BY <1>1, <1>2 DEF TableInv, ClaimInv, TakeReady, Semop
  <2> QED
    BY <2>3, <2>4, <2>5 DEF TableInv
<1>3. CASE ~TakeReady(s)
  <2>1. UNCHANGED sem
    BY <1>3 DEF SupplyPizza, LookForPizza, ShiftQueue, ReadPizza, LoadTables,
       StoreTables, FreeTable, Deliver
  <2> QED
    BY <1>1, <2>1, TableQuietStep
<1> QED
  BY <1>2, <1>3

LEMMA TableInvariant == Spec => []TableInv
<1>1. TypeOK /\ TypeOK' /\ TableInv /\ [Next]_vars => TableInv'
  <2> SUFFICES ASSUME TypeOK, TypeOK', TableInv, [Next]_vars PROVE TableInv'
    OBVIOUS
  <2>1. ASSUME NEW c \in Cooks, BakePizza(c) PROVE TableInv'
    BY <2>1, TableInvBake
  <2>2. ASSUME NEW c \in Cooks, PlacePizza(c) PROVE TableInv'
    BY <2>2, TableInvPlace
  <2>3. ASSUME NEW s \in Suppliers, SupplyPizza(s) PROVE TableInv'
    BY <2>3, TableInvSupply
  <2>4. CASE UNCHANGED vars
    BY <2>4 DEF vars, TableInv, TableDoorInv, TableUnits, ClaimInv, CooksAtTable, AtTable
  <2> QED
    BY <2>1, <2>2, <2>3, <2>4 DEF Next
<1> QED
  BY <1>1, TableInvInit, TypeCorrect, PTL DEF Spec

\* The units of the table are conserved, whatever the unsynchronised suppliers
\* do to its memory (cook.c:121-139, supplier.c:62-64).
THEOREM TableUnitsTheorem == Spec => []TableUnits
  BY TableInvariant, PTL DEF TableInv

\* No cook puts a pizza where another lies (cook.c:125-132).
THEOREM NoOverwriteTheorem == Spec => NoOverwrite
<1> DEFINE Kept == \A s \in TableSlots : table[s] # FREE => table'[s] \in {table[s], FREE}
<1>1. TypeOK /\ TableInv /\ [Next]_vars => [Kept]_vars
  <2> SUFFICES ASSUME TypeOK, TableInv, Next PROVE Kept
    OBVIOUS
  <2> USE DEF Goto, ovenVars, tableVars, locals, history, Procs
  <2>1. ASSUME NEW c \in Cooks, BakePizza(c) PROVE Kept
    BY <2>1 DEF BakePizza, Prepare, EnterOven, LeaveOven, ReenterOven, ExitOven,
       Semop, LoadOvens, StoreOvens, LookOven, ClaimOven, FreeOven
  <2>2. ASSUME NEW c \in Cooks, PlacePizza(c) PROVE Kept
    <3>1. CASE ClaimTable(c)
      BY <3>1 DEF ClaimTable, TypeOK, TableInv, ClaimInv
    <3>2. CASE UNCHANGED table
      BY <3>2
    <3> QED
      BY <2>2, <3>1, <3>2 DEF PlacePizza, EnterTable, ExitTable, Semop, LookTable,
         LoadTables, StoreTables
  <2>3. ASSUME NEW s \in Suppliers, SupplyPizza(s) PROVE Kept
    <3>1. CASE FreeTable(s)
      BY <3>1 DEF FreeTable, TypeOK
    <3>2. CASE UNCHANGED table
      BY <3>2
    <3> QED
      BY <2>3, <3>1, <3>2 DEF SupplyPizza, TakeReady, Semop, LookForPizza,
         ShiftQueue, ReadPizza, LoadTables, StoreTables, Deliver
  <2> QED
    BY <2>1, <2>2, <2>3 DEF Next
<1> QED
  BY <1>1, TypeCorrect, TableInvariant, PTL DEF Spec, NoOverwrite
------------------------------------------------------------------------------
(* The pizzas, from the table's side: which supplier carries what, and how  *)
(* many there are.                                                         *)

Working == {c \in Cooks : pc[c] # "prepare"}
Driving == {s \in Suppliers : pc[s] # "wait_ready"}

LEMMA SupplierSets ==
    ASSUME NEW S \in SUBSET Suppliers, NEW s
    PROVE  /\ Cardinality(S) \in Nat
           /\ s \notin S => Cardinality(S \cup {s}) = Cardinality(S) + 1
           /\ s \in S => Cardinality(S \ {s}) = Cardinality(S) - 1
<1>1. IsFiniteSet(S)
  BY FS_Subset, PizzeriaAssumption
<1> QED
  BY <1>1, FS_CardinalityType, FS_AddElement, FS_RemoveElement

\* A cook's step between the preparation and the table's door adds no pizza.
LEMMA PizzasBake ==
    ASSUME TypeOK, PizzasAccounted, NEW c \in Cooks, BakePizza(c)
    PROVE  PizzasAccounted'
<1> USE DEF Goto, ovenVars, tableVars, locals, history, Procs
<1>a. /\ made = Cardinality(Working) + sem["TABLE_READY"] + Cardinality(Driving) + delivered
      /\ made' = Cardinality(Working') + sem'["TABLE_READY"] + Cardinality(Driving') + delivered'
            => PizzasAccounted'
  BY DEF PizzasAccounted, Working, Driving
<1>0. Working \in SUBSET Cooks /\ Driving' = Driving
  <2>1. \A s \in Suppliers : s # c
    BY PizzeriaAssumption
  <2>2. \A s \in Suppliers : pc'[s] = pc[s]
    BY <2>1 DEF BakePizza, Prepare, EnterOven, LeaveOven, ReenterOven, ExitOven, Semop,
       LoadOvens, StoreOvens, LookOven, ClaimOven, FreeOven, TypeOK
  <2> QED
    BY <2>2 DEF Working, Driving
<1>r. sem'["TABLE_READY"] = sem["TABLE_READY"]
  <2>1. ASSUME NEW from, NEW to, NEW ops, Semop(c, from, to, ops),
               DOMAIN ops \subseteq {"OVEN_PLACE", "OVEN_IN"}
        PROVE  sem'["TABLE_READY"] = sem["TABLE_READY"]
    BY <2>1 DEF Semop, AfterSemop, TypeOK
  <2>2. CASE EnterOven(c) \/ LeaveOven(c) \/ ReenterOven(c) \/ ExitOven(c)
    BY <2>1, <2>2 DEF EnterOven, LeaveOven, ReenterOven, ExitOven
  <2>3. CASE UNCHANGED sem
    BY <2>3
  <2> QED
    BY <2>2, <2>3 DEF BakePizza, Prepare, LoadOvens, StoreOvens, LookOven, ClaimOven, FreeOven
<1>1. CASE Prepare(c, "enter_oven")
  <2>1. Working' = Working \cup {c} /\ c \notin Working
    BY <1>1 DEF Prepare, Working, TypeOK
  <2>2. made' = made + 1 /\ delivered' = delivered
    BY <1>1 DEF Prepare
  <2>3. Cardinality(Working') = Cardinality(Working) + 1 /\ Cardinality(Working) \in Nat
    BY <1>0, <2>1, CookSets
  <2>4. Cardinality(Driving) \in Nat
    BY SupplierSets DEF Driving
  <2>5. sem["TABLE_READY"] \in Nat /\ made \in Nat /\ delivered \in Nat
    BY DEF TypeOK
  <2> QED
    BY <1>a, <1>0, <1>r, <2>2, <2>3, <2>4, <2>5
<1>2. CASE ~Prepare(c, "enter_oven")
  <2>1. /\ pc[c] # "prepare" /\ pc'[c] # "prepare" /\ \A d \in Cooks \ {c} : pc'[d] = pc[d]
        /\ UNCHANGED history
    <3> USE DEF TypeOK
    <3>1. CASE EnterOven(c) \/ LeaveOven(c) \/ ReenterOven(c) \/ ExitOven(c)
      BY <3>1 DEF EnterOven, LeaveOven, ReenterOven, ExitOven, Semop
    <3>2. CASE \/ LoadOvens(c, "load_in", "store_in") \/ StoreOvens(c, "store_in", "look_oven", 1)
               \/ LoadOvens(c, "load_out", "store_out") \/ StoreOvens(c, "store_out", "free_oven", -1)
      BY <3>2 DEF LoadOvens, StoreOvens
    <3>3. CASE LookOven(c)
      BY <3>3 DEF LookOven
    <3>4. CASE ClaimOven(c) \/ FreeOven(c)
      BY <3>4 DEF ClaimOven, FreeOven
    <3> QED
      BY <1>2, <3>1, <3>2, <3>3, <3>4 DEF BakePizza
  <2>2. Working' = Working
    BY <2>1 DEF Working
  <2> QED
    BY <1>0, <1>r, <2>1, <2>2 DEF PizzasAccounted, Working, Driving
<1> QED
  BY <1>1, <1>2

\* A cook hands its pizza over with the semop that ends its round.
LEMMA PizzasPlace ==
    ASSUME TypeOK, PizzasAccounted, NEW c \in Cooks, PlacePizza(c)
    PROVE  PizzasAccounted'
<1> USE DEF Goto, ovenVars, tableVars, locals, history, Procs
<1>a. /\ made = Cardinality(Working) + sem["TABLE_READY"] + Cardinality(Driving) + delivered
      /\ made' = Cardinality(Working') + sem'["TABLE_READY"] + Cardinality(Driving') + delivered'
            => PizzasAccounted'
  BY DEF PizzasAccounted, Working, Driving
<1>0. Working \in SUBSET Cooks /\ Driving' = Driving /\ UNCHANGED history
  <2>1. \A s \in Suppliers : s # c
    BY PizzeriaAssumption
  <2>2. UNCHANGED history /\ \A s \in Suppliers : pc'[s] = pc[s]
    BY <2>1 DEF PlacePizza, EnterTable, ExitTable, Semop, LookTable, ClaimTable,
       LoadTables, StoreTables, TypeOK
  <2> QED
    BY <2>2 DEF Working, Driving
<1>1. CASE ExitTable(c)
  <2>1. Working' = Working \ {c} /\ c \in Working
    BY <1>1 DEF ExitTable, Semop, Working, TypeOK
  <2>2. sem'["TABLE_READY"] = sem["TABLE_READY"] + 1
    <3> DEFINE ops == [TABLE_PLACE |-> 1, TABLE_READY |-> 1]
    <3>1. \A s \in DOMAIN ops : sem'[s] = sem[s] + ops[s]
      BY <1>1, SemopTypes DEF ExitTable, Sems
    <3>2. "TABLE_READY" \in DOMAIN ops /\ ops["TABLE_READY"] = 1
      OBVIOUS
    <3> HIDE DEF ops
    <3> QED
      BY <3>1, <3>2
  <2>3. Cardinality(Working') = Cardinality(Working) - 1 /\ Cardinality(Working) \in Nat
    BY <1>0, <2>1, CookSets
  <2>4. Cardinality(Driving) \in Nat
    BY SupplierSets DEF Driving
  <2>5. sem["TABLE_READY"] \in Nat /\ made \in Nat /\ delivered \in Nat
    BY DEF TypeOK
  <2> QED
    BY <1>a, <1>0, <2>2, <2>3, <2>4, <2>5
<1>2. CASE ~ExitTable(c)
  <2>1. /\ pc[c] # "prepare" /\ pc'[c] # "prepare" /\ \A d \in Cooks \ {c} : pc'[d] = pc[d]
    <3> USE DEF TypeOK
    <3>1. CASE EnterTable(c)
      BY <3>1 DEF EnterTable, Semop
    <3>2. CASE LoadTables(c, "load_table", "store_table") \/ StoreTables(c, "store_table", "exit_table", 1)
      BY <3>2 DEF LoadTables, StoreTables
    <3>3. CASE LookTable(c)
      BY <3>3 DEF LookTable
    <3>4. CASE ClaimTable(c)
      BY <3>4 DEF ClaimTable
    <3> QED
      BY <1>2, <3>1, <3>2, <3>3, <3>4 DEF PlacePizza
  <2>2. sem'["TABLE_READY"] = sem["TABLE_READY"]
    <3>1. CASE EnterTable(c)
      BY <3>1 DEF EnterTable, Semop, AfterSemop, TypeOK
    <3>2. CASE UNCHANGED sem
      BY <3>2
    <3> QED
      BY <1>2, <3>1, <3>2 DEF PlacePizza, LoadTables, StoreTables, LookTable, ClaimTable
  <2>3. Working' = Working
    BY <2>1 DEF Working
  <2> QED
    BY <1>0, <2>2, <2>3 DEF PizzasAccounted, Working, Driving
<1> QED
  BY <1>1, <1>2

\* A supplier takes over a pizza with TABLE_READY and ends with it.
LEMMA PizzasSupply ==
    ASSUME TypeOK, PizzasAccounted, NEW s \in Suppliers, SupplyPizza(s)
    PROVE  PizzasAccounted'
<1> USE DEF Goto, ovenVars, tableVars, locals, history, Procs
<1>a. /\ made = Cardinality(Working) + sem["TABLE_READY"] + Cardinality(Driving) + delivered
      /\ made' = Cardinality(Working') + sem'["TABLE_READY"] + Cardinality(Driving') + delivered'
            => PizzasAccounted'
  BY DEF PizzasAccounted, Working, Driving
<1>0. Driving \in SUBSET Suppliers /\ Working' = Working /\ UNCHANGED made
  <2>1. \A c \in Cooks : s # c
    BY PizzeriaAssumption
  <2>2. UNCHANGED made /\ \A c \in Cooks : pc'[c] = pc[c]
    BY <2>1 DEF SupplyPizza, TakeReady, Semop, LookForPizza, ShiftQueue, ReadPizza,
       LoadTables, StoreTables, FreeTable, Deliver, TypeOK
  <2> QED
    BY <2>2 DEF Working, Driving
<1>c. Cardinality(Working) \in Nat
  BY CookSets DEF Working
<1>n. sem["TABLE_READY"] \in Nat /\ made \in Nat /\ delivered \in Nat
  BY DEF TypeOK
<1>1. CASE TakeReady(s)
  <2>1. Driving' = Driving \cup {s} /\ s \notin Driving /\ UNCHANGED delivered
    BY <1>1 DEF TakeReady, Semop, Driving, TypeOK
  <2>2. sem'["TABLE_READY"] = sem["TABLE_READY"] - 1
    <3> DEFINE ops == [TABLE_ON |-> 1, TABLE_READY |-> -1]
    <3>1. \A t \in DOMAIN ops : sem'[t] = sem[t] + ops[t]
      BY <1>1, SemopTypes DEF TakeReady, Sems
    <3>2. "TABLE_READY" \in DOMAIN ops /\ ops["TABLE_READY"] = -1
      OBVIOUS
    <3> HIDE DEF ops
    <3> QED
      BY <1>n, <3>1, <3>2
  <2>3. Cardinality(Driving') = Cardinality(Driving) + 1 /\ Cardinality(Driving) \in Nat
    BY <1>0, <2>1, SupplierSets
  <2> QED
    BY <1>a, <1>0, <1>c, <1>n, <2>1, <2>2, <2>3
<1>2. CASE Deliver(s, "wait_ready")
  <2>1. /\ Driving' = Driving \ {s} /\ s \in Driving /\ delivered' = delivered + 1
        /\ UNCHANGED sem
    BY <1>2 DEF Deliver, Driving, TypeOK
  <2>2. Cardinality(Driving') = Cardinality(Driving) - 1 /\ Cardinality(Driving) \in Nat
    BY <1>0, <2>1, SupplierSets
  <2> QED
    BY <1>a, <1>0, <1>c, <1>n, <2>1, <2>2
<1>3. CASE ~TakeReady(s) /\ ~Deliver(s, "wait_ready")
  <2>1. /\ pc[s] # "wait_ready" /\ pc'[s] # "wait_ready" /\ \A t \in Suppliers \ {s} : pc'[t] = pc[t]
        /\ UNCHANGED <<sem, delivered>>
    <3> USE DEF TypeOK
    <3>1. CASE LookForPizza(s)
      BY <3>1 DEF LookForPizza
    <3>2. CASE ShiftQueue(s) \/ ReadPizza(s) \/ FreeTable(s)
      BY <3>2 DEF ShiftQueue, ReadPizza, FreeTable
    <3>3. CASE LoadTables(s, "load_taken", "store_taken") \/ StoreTables(s, "store_taken", "free_table", -1)
      BY <3>3 DEF LoadTables, StoreTables
    <3> QED
      BY <1>3, <3>1, <3>2, <3>3 DEF SupplyPizza
  <2>2. Driving' = Driving
    BY <2>1 DEF Driving
  <2> QED
    BY <1>0, <2>1, <2>2 DEF PizzasAccounted, Working, Driving
<1> QED
  BY <1>1, <1>2, <1>3

\* As many deliveries are made as pizzas are prepared, whatever the suppliers do
\* to each other on the table (supplier.c:62-80).
THEOREM PizzasAccountedTheorem == Spec => []PizzasAccounted
<1>1. Init => PizzasAccounted
  <2> SUFFICES ASSUME Init PROVE PizzasAccounted
    OBVIOUS
  <2>1. Working = {} /\ Driving = {}
    BY PizzeriaAssumption DEF Init, Working, Driving, Procs
  <2>2. sem["TABLE_READY"] = 0 /\ made = 0 /\ delivered = 0
    BY DEF Init, MemoryInit
  <2> QED
    BY <2>1, <2>2, FS_EmptySet DEF PizzasAccounted, Working, Driving
<1>2. TypeOK /\ PizzasAccounted /\ [Next]_vars => PizzasAccounted'
  BY PizzasBake, PizzasPlace, PizzasSupply DEF Next, vars, PizzasAccounted
<1> QED
  BY <1>1, <1>2, TypeCorrect, PTL DEF Spec

\* From the look that finds a pizza to the read of its number nothing empties
\* the slot, and from then on the supplier has it.
SoleInv ==
    Cardinality(Suppliers) = 1 =>
        \A s \in Suppliers :
            /\ pc[s] \in {"shift_queue", "read_pizza"} => pizza[s] # FREE /\ table[index[s]] # FREE
            /\ pc[s] \in {"load_taken", "store_taken", "free_table", "deliver"} => pizza[s] # FREE

\* Cooks put pizzas into slots and take none out.
LEMMA SoleCook ==
    ASSUME TypeOK, SoleInv, NEW c \in Cooks, BakePizza(c) \/ PlacePizza(c)
    PROVE  SoleInv'
<1> USE DEF Goto, ovenVars, tableVars, locals, history, Procs
<1>1. \A s \in Suppliers : s # c
  BY PizzeriaAssumption
<1>2. \A s \in Suppliers : pc'[s] = pc[s] /\ pizza'[s] = pizza[s] /\ index'[s] = index[s]
  <2>1. CASE BakePizza(c)
    BY <1>1, <2>1 DEF BakePizza, Prepare, EnterOven, LeaveOven, ReenterOven, ExitOven, Semop,
       LoadOvens, StoreOvens, LookOven, ClaimOven, FreeOven, TypeOK
  <2>2. CASE PlacePizza(c)
    BY <1>1, <2>2 DEF PlacePizza, EnterTable, ExitTable, Semop, LookTable, ClaimTable,
       LoadTables, StoreTables, TypeOK
  <2> QED
    BY <2>1, <2>2
<1>3. \A t \in TableSlots : table[t] # FREE => table'[t] # FREE
  <2>1. CASE ClaimTable(c)
    <3>1. /\ pizza[c] + 1 # FREE
          /\ table' = table \/ table' = [table EXCEPT ![scan[c]] = pizza[c] + 1]
      BY <2>1 DEF ClaimTable, TypeOK, FREE
    <3> QED
      BY <3>1 DEF TypeOK
  <2>2. CASE UNCHANGED table
    BY <2>2
  <2> QED
    BY <2>1, <2>2 DEF BakePizza, Prepare, EnterOven, LeaveOven, ReenterOven, ExitOven, Semop,
       LoadOvens, StoreOvens, LookOven, ClaimOven, FreeOven, PlacePizza, EnterTable, ExitTable,
       LookTable, LoadTables, StoreTables
<1>4. \A s \in Suppliers : index[s] \in TableSlots
  BY DEF TypeOK
<1> QED
  BY <1>2, <1>3, <1>4 DEF SoleInv

LEMMA SoleSupplier ==
    ASSUME TypeOK, SoleInv, NEW s \in Suppliers, SupplyPizza(s), Cardinality(Suppliers) = 1
    PROVE  SoleInv'
<1> USE DEF Goto, ovenVars, tableVars, locals, history, Procs
<1>1. \A t \in Suppliers : t = s
  <2>1. PICK x : Suppliers = {x}
    BY FS_Singleton, PizzeriaAssumption
  <2> QED
    BY <2>1
<1> SUFFICES /\ pc'[s] \in {"shift_queue", "read_pizza"} => pizza'[s] # FREE /\ table'[index'[s]] # FREE
             /\ pc'[s] \in {"load_taken", "store_taken", "free_table", "deliver"} => pizza'[s] # FREE
  BY <1>1 DEF SoleInv
<1>2. /\ pc[s] \in {"shift_queue", "read_pizza"} => pizza[s] # FREE /\ table[index[s]] # FREE
      /\ pc[s] \in {"load_taken", "store_taken", "free_table", "deliver"} => pizza[s] # FREE
  BY DEF SoleInv
<1>3. CASE TakeReady(s) \/ Deliver(s, "wait_ready")
  BY <1>3 DEF TakeReady, Semop, Deliver, TypeOK
<1>4. CASE LookForPizza(s)
  <2> DEFINE slot == (scan[s] + table_queue_start) % TABLE_CAP
  <2>1. /\ pc[s] = "look_pizza" /\ table' = table
        /\ \/ /\ table[slot] # FREE /\ pc' = [pc EXCEPT ![s] = "shift_queue"]
              /\ index' = [index EXCEPT ![s] = slot]
              /\ pizza' = [pizza EXCEPT ![s] = table[slot]]
           \/ UNCHANGED pc
    BY <1>4 DEF LookForPizza
  <2> HIDE DEF slot
  <2> QED
    BY <2>1 DEF TypeOK
<1>5. CASE ShiftQueue(s) \/ ReadPizza(s)
  BY <1>2, <1>5 DEF ShiftQueue, ReadPizza, TypeOK
<1>6. CASE \/ LoadTables(s, "load_taken", "store_taken")
           \/ StoreTables(s, "store_taken", "free_table", -1)
           \/ FreeTable(s)
  BY <1>2, <1>6 DEF LoadTables, StoreTables, FreeTable, TypeOK
<1> QED
  BY <1>3, <1>4, <1>5, <1>6 DEF SupplyPizza

\* A supplier that works alone delivers pizzas only, in every setting with one
\* supplier (supplier.c:70-75).
THEOREM SoleSupplierTheorem == Spec => []SoleSupplierCarriesPizza
<1>1. Init => SoleInv
  <2>1. Init => \A s \in Suppliers : pc[s] = "wait_ready"
    BY PizzeriaAssumption DEF Init, Procs
  <2> QED
    BY <2>1 DEF SoleInv
<1>2. TypeOK /\ SoleInv /\ [Next]_vars => SoleInv'
  <2> SUFFICES ASSUME TypeOK, SoleInv, [Next]_vars, Cardinality(Suppliers) = 1 PROVE SoleInv'
    BY DEF SoleInv
  <2> QED
    BY SoleCook, SoleSupplier DEF Next, vars, SoleInv
<1>3. SoleInv => SoleSupplierCarriesPizza
  BY DEF SoleInv, SoleSupplierCarriesPizza
<1> QED
  BY <1>1, <1>2, <1>3, TypeCorrect, PTL DEF Spec
==============================================================================
