SPECIFICATION Spec
CONSTANT ChanCap = 2
PROPERTY CtrlCStops
CHECK_DEADLOCK FALSE
