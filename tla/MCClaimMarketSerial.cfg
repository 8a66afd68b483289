\* One handler at a time, instant claims on: long sequences of legal calls.
CONSTANTS
    Cleaners = {c1, c2, c3}
    Staff = {s1}
    Ticker = Ticker
    NoOne = NoOne
    Instant = TRUE
    Recurring = FALSE
    HalfEdits = FALSE
    MaxBusy = 1
SPECIFICATION FairSpec
INVARIANTS
    TypeOK
    AwardedIsOffTheBoard
    OfferAndRequestsTogether
PROPERTIES
    StrandedIsAnswered
