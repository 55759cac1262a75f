SPECIFICATION Spec
CONSTANTS
  Pids = {1}
  Commands = {"sh", "app"}
  Groups <- MCGroups
  Ids = {1, 2}
  Scope <- MCScope
  Rank <- MCRank
  MentionedIn <- MCMentionedIn
  MaxProcs = 2
  MaxEvents = 3
INVARIANTS TypeOK ForeignDropped OneNamePerPid
PROPERTIES OwnKept ReportNameStable
CHECK_DEADLOCK FALSE
