\* A target of two queue threads and one of one; two passes asked for, three at
\* most.
SPECIFICATION FairSpec
CONSTANTS
  Depths <- DepthsTwoOne
  Passes = 2
  MaxPasses = 3
\* The run ends, and may hang when a thread fails to start.
CHECK_DEADLOCK FALSE
INVARIANTS
  ResultsQuiet
  PassesInStep
  IoOnOpenTarget
PROPERTIES
  RunEnds
  FailureStopsRun
