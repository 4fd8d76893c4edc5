SPECIFICATION Spec
CONSTANTS
    w1 = w1
    w2 = w2
    slate = slate
    c1 = c1
    c2 = c2
    c3 = c3
    tx = tx
INVARIANTS
    TypeOK   SeedSurvives RepliesUsable 
 
CHECK_DEADLOCK FALSE
