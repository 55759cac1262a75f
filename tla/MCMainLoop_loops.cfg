SPECIFICATION Spec
CONSTANT ChanCap = 2
INVARIANT TypeOK
PROPERTIES DiagnoseEnds ReportsKeepComing
CHECK_DEADLOCK FALSE
