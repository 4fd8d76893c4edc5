SPECIFICATION Spec
CONSTANTS
    Offered = "BTC"
    Timelock <- MCTimelock
    Hour <- MCHour
    Amount <- MCAmount
    Values <- MCValues
    Exactness = {TRUE}
    Fee <- MCFee
    MAX_ATTEMPTS_VERF_FUNDS = 1
    Faults = TRUE
    MaxSessions = 2
    MaxBtcHeight = 3
    MaxGrinHeight = 3
INVARIANTS TypeOK  SlatesAgree FundedAfterLock 
    ContractRevealsX RefundsMatureTogether
PROPERTIES RefundTxFirst  ImplementsAtomicSwap
