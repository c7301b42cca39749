\* Three threads meet five times: each barrier is used again and again.
SPECIFICATION FairSpec
CONSTANTS
  Thread = {t1, t2, t3}
  MaxRound = 5
\* After the last round the threads end.
CHECK_DEADLOCK FALSE
INVARIANTS
  Together
PROPERTIES
  EveryoneLeaves
