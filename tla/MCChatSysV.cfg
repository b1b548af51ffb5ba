SPECIFICATION Spec
CONSTANTS
    Clients = {c1, c2}
    MaxCommands = 4
SYMMETRY Symmetry
INVARIANTS SendersAreListed BusyHasReason AnswerIsComing
CHECK_DEADLOCK FALSE
