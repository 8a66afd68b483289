\* One handler at a time; Stripe is late and repeats itself, bank debits included.
CONSTANTS
    Taps = {t1}
    Staff = {e1}
    Hook = Hook
    Ticker = Ticker
    Sessions = {s1}
    Prices = {0, 1, 2}
    NoSession = NoSession
    NoOne = NoOne
    Debits = TRUE
    Punctual = FALSE
    MaxBusy = 1
SPECIFICATION FairSpec
INVARIANTS
    TypeOK
    LinkIsForTheTotal
PROPERTIES
    BooksOnlySettledMoney
    PaidStaysPaid
    PaymentIsRecorded
    FailedDebitReleases
