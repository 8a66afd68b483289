\* Turnovers, quotes, recurring visits, Google events, cadence, routes, overlapping
\* checkouts, requests, mail and follow-ups, one part at a time.  The parts never meet, so they share
\* the ids x1 and x2.
CONSTANTS
    b1 = b1
    b2 = b2
    fa = fa
    fb = fb
    \* TurnoverSync
    Bookings = {b1, b2}
    Feeds = {fa, fb}
    FeedOf <- Owner
    LastDay = 2
    Turnovers = {x1, x2}
    NoTurnover = NoTurnover
    SharedDays = TRUE
    Nothing = Nothing
    \* QuoteToJob
    QuoteRequests = {x1, x2}
    Races = FALSE
    TornBookings = FALSE
    MaxYes = 2
    \* RecurringVisits
    LastDate = 2
    Rules <- TheRules
    MaxExceptions = 2
    Overlaps = FALSE
    MovesAgain = FALSE
    \* GoogleMirror
    Jobs = {1, 2}
    CalendarEvents = {e1, e2, e3}
    Pushers = {x1, x2}
    NoEvent = NoEvent
    NoJob = NoJob
    Crowded = FALSE
    \* Cadence
    Week = 4
    Months <- TheMonths
    Frequencies = {"daily", "weekly", "monthly"}
    DaySets <- TheDays
    Intervals = {2, 3}
    MonthDays = {2, 5}
    Counts = {0, 3}
    Ahead = 2
    LastToday = 10
    CalendarEnd = 54
    OddDays = FALSE
    \* Routes
    Houses = {h1, h2}
    Subs = {x1, x2}
    NoSub = NoSub
    Rates = {0, 3}
    Lengths = {0, 1, 2}
    Editors = {o1}
    RouteRaces = FALSE
    \* InvoiceCheckout: two taps, an office request, the tick and a webhook overlap
    Taps = {x1, x2}
    Staff = {e1}
    Hook = Hook
    Ticker = Ticker
    Sessions = {x1, x2}
    Prices = {1}
    NoSession = NoSession
    NoOne = NoOne
    Debits = TRUE
    Punctual = TRUE
    MaxBusy = 2
    \* RequestInbox
    Forms <- TheForms
    Posts = {x1, x2}
    Requests = {b1, b2}
    NoKey = NoKey
    NoHome = NoHome
    NoRequest = NoRequest
    MaxKey = 2
    SharedRow = FALSE
    \* MailThreads
    c1 = c1
    s1 = s1
    m1 = m1
    m2 = m2
    t1 = t1
    Clients = {c1}
    Strangers = {s1}
    Mails = {m1, m2}
    Texts = {t1}
    Sender <- TheSender
    Workers = {x1, x2}
    NoCursor = NoCursor
    NoMail = NoMail
    NoOneYet = NoOneYet
    MaxThreads = 2
    Losses = FALSE
    \* FollowUps
    Sources = {c1, s1}
    Proposals = {b1, b2}
    Drafters = {fa, fb}
    Deciders = {x1, x2}
    NoSource = NoSource
    NoProposal = NoProposal
    TwoRuns = FALSE
SPECIFICATION BackOfficeSpec
SYMMETRY BackOfficeSymmetry
CHECK_DEADLOCK FALSE
INVARIANTS
    BackOfficeTypeOK
    
    
    TakenOffStaysOff
    
    CadenceKept
    EndsAfterN
    
    SharesAddUp
    OneLiveSession
    OneRequestPerVisit
    
    NoLockCycle
    
    
    TextedOnce
PROPERTIES
    SweptOnlyWhenGone
    OfficeDecisionStands
    MovedVisitStands
