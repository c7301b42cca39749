\* Every choice of options with up to three operations per target and pass,
\* intervals and tasks of one or two, and two passes.
SPECIFICATION FairSpec
CONSTANTS
  MaxOps = 3
  MaxValue = 2
  Passes = 2
\* The run ends, and a master may be left in a meeting.
CHECK_DEADLOCK FALSE
INVARIANTS
  MasterNeverBlocks
  TasksKept
PROPERTIES
  RunEnds
