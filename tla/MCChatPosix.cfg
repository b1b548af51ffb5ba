SPECIFICATION Spec
CONSTANTS
    Clients = {c1, c2}
    MAX_QUEUE_SIZE = 2
    MaxCommands = 3
SYMMETRY Symmetry
INVARIANTS TypeOK SendersAreListed AnswerIsComing BusyHasReason
CHECK_DEADLOCK FALSE
