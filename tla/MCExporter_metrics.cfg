SPECIFICATION Spec
CONSTANTS
  Inputs <- MCInputs
  MaxEvents = 3
  MaxScrapes = 1
INVARIANTS TypeOK Settled ScrapeFresh ScrapeComplete
CHECK_DEADLOCK FALSE
