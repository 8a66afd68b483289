\* A payment is booked while the overdue email goes out.
CONSTANTS
    Taps = {t1}
    Staff = {e1}
    Hook = Hook
    Ticker = Ticker
    Sessions = {s1, s2}
    Prices = {1}
    NoSession = NoSession
    NoOne = NoOne
    Debits = FALSE
    Punctual = TRUE
    MaxBusy = 2
SPECIFICATION Spec
PROPERTIES
    PaidStaysPaid
