SPECIFICATION Spec
CONSTANTS
    Cooks = {c1, c2, c3}
    Suppliers = {s1, s2}
    OVEN_CAP = 2
    TABLE_CAP = 2
    PizzaNos = {0, 1}
    MaxPizzas = 3
SYMMETRY Symmetry
INVARIANTS TypeOK OvenCountExact OvenSlotsOwned OvenScanInBounds TableUnits PizzasAccounted
PROPERTIES NoOverwrite OvenIsSlotStore
CHECK_DEADLOCK FALSE
