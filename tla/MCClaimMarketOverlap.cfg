\* Office users overlap, edits die halfway, the visit is recurring.
CONSTANTS
    Cleaners = {c1}
    Staff = {s1, s2}
    Ticker = Ticker
    NoOne = NoOne
    Instant = FALSE
    Recurring = TRUE
    HalfEdits = TRUE
    MaxBusy = 3
SPECIFICATION Spec
SYMMETRY Symmetry
PROPERTIES
    AwardNeedsPending
