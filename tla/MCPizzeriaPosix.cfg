SPECIFICATION Spec
CONSTANTS
    Cooks = {c1, c2, c3}
    Suppliers = {s1}
    OVEN_CAP = 2
    TABLE_CAP = 2
    PizzaNos = {0, 1}
    MaxPizzas = 3
SYMMETRY Symmetry
INVARIANTS TypeOK OvenScanInBounds TableUnits
PROPERTIES NoOverwrite
CHECK_DEADLOCK FALSE
