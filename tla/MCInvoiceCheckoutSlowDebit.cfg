\* A bank debit outlasts the expires_at of its session.
CONSTANTS
    Taps = {t1}
    Staff = {e1}
    Hook = Hook
    Ticker = Ticker
    Sessions = {s1, s2}
    Prices = {1}
    NoSession = NoSession
    NoOne = NoOne
    Debits = TRUE
    Punctual = FALSE
    MaxBusy = 1
SPECIFICATION Spec
INVARIANTS
    ClearingIsAHold
