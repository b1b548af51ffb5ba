SPECIFICATION Spec
CONSTANTS
    Conns = {c1, c2, c3}
    Names = {n1, n2}
    MAX_CLIENT_COUNT = 2
    NoConn = NoConn
SYMMETRY Symmetry
INVARIANTS OpponentHasLeft
CHECK_DEADLOCK FALSE
