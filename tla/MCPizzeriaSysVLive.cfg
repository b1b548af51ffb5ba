SPECIFICATION FairSpec
CONSTANTS
    Cooks = {c1, c2}
    Suppliers = {s1}
    OVEN_CAP = 1
    TABLE_CAP = 1
    PizzaNos = {0}
    MaxPizzas = 4
INVARIANTS SoleSupplierCarriesPizza
PROPERTIES PizzaLeavesOven PizzaIsPlaced
CHECK_DEADLOCK FALSE
