SPECIFICATION Spec
CONSTANTS
  Word = 4
  MaxEntries = 2
  RingCap = 1
  CPUs = {c1, c2}
  Threads = {1, 2}
  Tgid <- MCTgid
  SlowNs = 1
  MaxTime = 4
INVARIANT BlockedLatency
CHECK_DEADLOCK FALSE
