SPECIFICATION FairSpec
CONSTANTS
    Scenarios <- SendAndPay
    Faults = FALSE
    MaxCalls = 6
PROPERTY EveryCallReturns
CHECK_DEADLOCK FALSE
