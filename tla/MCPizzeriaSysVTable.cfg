SPECIFICATION Spec
CONSTANTS
    Cooks = {c1}
    Suppliers = {s1}
    OVEN_CAP = 5
    TABLE_CAP = 5
    PizzaNos = {0}
    MaxPizzas = 6
INVARIANTS TableCountBounded
CHECK_DEADLOCK FALSE
