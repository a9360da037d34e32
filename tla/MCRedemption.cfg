CONSTANTS
    NONE = NONE
    DIGITS = 1000
    INFINITY = 1000000
    RESERVE = 1
    MINIMUM_BORROWING_RATE = 5
    MAXIMUM_BORROWING_RATE = 50
    MINIMUM_REDEMPTION_RATE = 5
    minuteDecayFactor = 900
    beta = 2000
    MINUTE = 60
    BorrowingTolerance = 5
    RedemptionTolerance = 1
    HCHF_MINIMUM_NET_DEBT = 4
    RedeemMaxIterations = 2
    MaxTrialsAtOnce = 2
    InitialTroves <- MCInitialTroves
    NewTrove <- MCNewTrove
    Amount = {0, 5, 13}
    MaxRate = {200}
    Reading = {q1, q2}
    MaxChain = 3
    PageSize = 2
    Window = 2
    Debt = {1, 2}
    Load = {l1}
    MaxTime = 5
SPECIFICATION PagesSpec
INVARIANTS
    DetailsOfShownAmount
    RedeemsWhatIsShown
    PaysAtMost
    CallsAgree
    PagesAdjoin
    RedeemedIsTold
CHECK_DEADLOCK FALSE
SYMMETRY Symmetry
