\* Both threads sleep: every request ends unless the race happens.
SPECIFICATION FairSpec
CONSTANTS
  RingSize = 1
  IdxSpan = 2
  Request = {r1}
  NonFs = {}
  NoReq = NoReq
  FrontSleeps = TRUE
  MaxGrantFaults = 0
  FrontSmp = FALSE
  Pending = {p1}
  NoPending = NoPending
  MaxBios = 1
  MaxFinishing = 1
  BackSleeps = TRUE
  BackFaults = {}
  MaxBioFaults = 0
  BackSmp = FALSE
\* The system can stop for good: the lost wakeups and lost requests the README lists.
CHECK_DEADLOCK FALSE
PROPERTIES
  EveryRequestEndsUnlessRace
