\* The bench, the ticks and one office user overlap freely; the office approves.
CONSTANTS
    Cleaners = {c1, c2}
    Staff = {s1}
    Ticker = Ticker
    NoOne = NoOne
    Instant = FALSE
    Recurring = FALSE
    HalfEdits = FALSE
    MaxBusy = 4
SPECIFICATION Spec
SYMMETRY Symmetry
INVARIANTS
    OneWinner
    WinnerIsOnTheJob
    AgreementFollowsCrew
