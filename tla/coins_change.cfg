SPECIFICATION Spec
CONSTANTS
    Word = 64
    FeeInput = 1
    FeeOutput = 2
    FeeKernel = 1
    CoinValues = {1, 3, 4, 7}
    MaxCoins = 4
    Amounts = {0, 1, 2, 3, 5, 8, 13}
    MaxOutputs = {1, 2, 4}
    ChangeOutputs = {0, 1, 2, 3}
INVARIANT ChangeAddsUp
CHECK_DEADLOCK FALSE
