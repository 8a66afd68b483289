\* Two instant claims at once.
CONSTANTS
    Cleaners = {c1, c2}
    Staff = {s1}
    Ticker = Ticker
    NoOne = NoOne
    Instant = TRUE
    Recurring = FALSE
    HalfEdits = FALSE
    MaxBusy = 2
SPECIFICATION Spec
SYMMETRY Symmetry
INVARIANTS
    OneWinner
