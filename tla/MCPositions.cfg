CONSTANTS
    Balance = 2
    MaxReward = 1
    MaxGain = 1
SPECIFICATION PagesSpec
INVARIANTS
    DepositOfferedOnce
    DepositOffersWhatWasWanted
    DepositViewFits
    StakeOfferedOnce
    StakeChangeEnds
\* The overlay of a change that stays pending covers every button.
CHECK_DEADLOCK FALSE
