SPECIFICATION Spec
PROPERTIES  WalletCatchesUp CallsEnd
CHECK_DEADLOCK FALSE
