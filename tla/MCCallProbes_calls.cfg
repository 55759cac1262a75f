SPECIFICATION Spec
CONSTANTS
  Word = 4
  MaxEntries = 1
  RingCap = 1
  Threads = {1, 2}
  Tgid <- MCTgid
  Funcs = {"getaddrinfo", "vfs_read"}
  Nests <- MCNests
  Names = {a, b}
  NULL = NULL
  MaxActive = 1
  SlowNs = 1
  MaxTime = 1
INVARIANTS TypeOK OwnLatency InnermostOnly NoStrandedStart NamedLookupTarget
SYMMETRY NameSymmetry
CONSTRAINT OneMatched
CHECK_DEADLOCK FALSE
