SPECIFICATION Spec
CONSTANTS
  RingCap = 2
  ChanCap = 2
  MaxEvents = 6
INVARIANT ReportComplete

CHECK_DEADLOCK FALSE
