CONSTANTS
    MaxEdits = 2
    DIGITS = 10
    INFINITY = 1000000
    RESERVE = 7
    Amount = {0, 6, 13, 45}
    OpenTrove <- MCOpenTrove
    Price = {6, 10}
    Rate = {0, 3}
    MINIMUM_NET_DEBT = 11
    MCR = 11
    CCR = 15
    Others <- MCOthers
    Balance = {0, 20}
    Redistribution <- MCRedistribution
    OtherTroves <- MCOtherTroves
    HchfBalance = {14}
SPECIFICATION FormsSpec
INVARIANTS
    OffersWhatWasWanted
    ResultIsShown
    OpeningOffersWhatIsShown
    ClosureOffered
    ValidIsAccepted
CHECK_DEADLOCK FALSE
