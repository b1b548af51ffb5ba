SPECIFICATION FairSpec
CONSTANTS
    ELVES_NO = 3
    REINDEERS_NO = 2
    ELVES_REQ = 2
    REINDEERS_REQ = 2
    MAX_JOBS = 2

PROPERTIES CancelledReindeerEnds
CHECK_DEADLOCK FALSE
