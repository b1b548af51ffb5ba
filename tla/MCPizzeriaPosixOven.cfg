SPECIFICATION Spec
CONSTANTS
    Cooks = {c1, c2}
    Suppliers = {s1}
    OVEN_CAP = 2
    TABLE_CAP = 2
    PizzaNos = {0}
    MaxPizzas = 4
INVARIANTS OvenCountBounded
CHECK_DEADLOCK FALSE
