SPECIFICATION FairSpec
CONSTANTS
  Last = 3
  Budget = 2
  MaxFaults = 2
INVARIANTS
  TypeOK
  VerdictIsHonest
  SummaryOfWholeRun
  TornDown
PROPERTY
  EveryExecutionEnds
