SPECIFICATION Spec
INVARIANTS
    TypeOK SelectionSound   
      
PROPERTY ScanRestores
CHECK_DEADLOCK FALSE
