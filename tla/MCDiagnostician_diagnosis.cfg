SPECIFICATION Spec
CONSTANTS
  SpikeMs = 100
  SlowMs = 10
  FailurePct = 50
  SpikePct = 50
  TopRows = 3
  PodRows = 2
  KernelRows = 1
  KernelPids = {3, 4}
  Second = 20
  BurstMin = 3
  Inputs <- MCInputs
  Boots = {0, 1000}
  Start = 20
  Times = {31, 62, 100}
  MaxEvents = 5
INVARIANTS TypeOK SectionsAddUp PercentilesRanked TopIsTop TablesAgree IssuesAgree BurstsAreFew PeakNotMissed BurstyIfPeaked TimelineWithOneClock
CHECK_DEADLOCK FALSE
