\* A visit that was moved is moved or skipped again.
CONSTANTS
    LastDate = 3
    Rules <- TheRules
    MaxExceptions = 2
    Overlaps = FALSE
    MovesAgain = TRUE
SPECIFICATION RecurringSpec
CHECK_DEADLOCK FALSE
INVARIANTS
    TakenOffStaysOff
