\* One slot, as shipped, a queue of one and room for two jobs.
\* No deadlock check: the exports come to their end.
SPECIFICATION FairSpec
CONSTANTS
  MaxConcurrent = 1
  MaxQueue = 1
  MaxJobs = 2
  MaxExports = 3
  Reader = {r1, r2}
  None = None
INVARIANTS TypeOK SlotsAreHeld ArchivesAreOwned
PROPERTY EveryExportEnds
CHECK_DEADLOCK FALSE
