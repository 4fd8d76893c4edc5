SPECIFICATION CancelSpec
CONSTANTS
    Offered = "BTC"
    Timelock <- MCTimelock
    Hour <- MCHour
    Amount <- MCAmount
    Values <- MCValues
    Exactness = {TRUE}
    Fee <- MCFee
    MAX_ATTEMPTS_VERF_FUNDS = 1
    Faults = FALSE
    MaxSessions = 1
    MaxBtcHeight = 3
    MaxGrinHeight = 3
PROPERTY CancelUnlocks
CHECK_DEADLOCK FALSE
