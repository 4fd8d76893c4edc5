SPECIFICATION Spec
INVARIANTS
    TypeOK DeliveredInOrder PreparedAsAsked PublicFilesAgree LockOpensRight ClientTellsTrue
    FailsOnlyIfShort ExchangeIsFair
CHECK_DEADLOCK FALSE
