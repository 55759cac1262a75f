SPECIFICATION Spec
CONSTANTS
  Word = 4
  MaxEntries = 2
  RingCap = 1
  CPUs = {c1, c2}
  Threads = {1, 2}
  Tgid <- MCTgid
  SlowNs = 1
  MaxTime = 4
INVARIANTS TypeOK SliceLatency EntriesOfRunning
CHECK_DEADLOCK FALSE
