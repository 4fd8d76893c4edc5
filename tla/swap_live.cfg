SPECIFICATION LiveSpec
CONSTANTS
    Offered = "GRIN"
    Timelock <- MCTimelock
    Hour <- MCHour
    Amount <- MCAmount
    Values <- MCAllValues
    Exactness = {TRUE, FALSE}
    Fee <- MCFee
    MAX_ATTEMPTS_VERF_FUNDS = 1
    Faults = TRUE
    MaxSessions = 2
    MaxBtcHeight = 3
    MaxGrinHeight = 3
PROPERTIES  UnharmedGetPaid CancelUnlocksInTheEnd
CHECK_DEADLOCK FALSE
