SPECIFICATION Spec
CONSTANTS
    Offered = "BTC"
    Timelock <- MCTimelock
    Hour <- MCHour
    Amount <- MCAmount
    Values <- MCValues
    Exactness = {TRUE}
    Fee <- MCFee
    MAX_ATTEMPTS_VERF_FUNDS = 1
    Faults = FALSE
    MaxSessions = 2
    MaxBtcHeight = 3
    MaxGrinHeight = 3
INVARIANT LockedBtcRefundable
CHECK_DEADLOCK FALSE
