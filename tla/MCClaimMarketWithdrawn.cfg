\* A withdrawal races the approval.
CONSTANTS
    Cleaners = {c1}
    Staff = {s1}
    Ticker = Ticker
    NoOne = NoOne
    Instant = FALSE
    Recurring = FALSE
    HalfEdits = FALSE
    MaxBusy = 2
SPECIFICATION Spec
PROPERTIES
    CommitmentStands
