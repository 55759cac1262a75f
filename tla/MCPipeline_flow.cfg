SPECIFICATION Spec
CONSTANTS
  RingCap = 2
  ChanCap = 2
  MaxEvents = 6
INVARIANTS TypeOK Conservation InOrder
PROPERTIES ImplementsDispatch EveryEventMovesOn
CHECK_DEADLOCK FALSE
