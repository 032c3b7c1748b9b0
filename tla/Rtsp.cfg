SPECIFICATION Spec
CONSTANT MaxMessages = 9
INVARIANTS TypeOK NothingLost WholeMessages Agreement NoStandoff EveryRequestAnswered
PROPERTIES SessionOver
CHECK_DEADLOCK FALSE
