\* The response thread sleeps, the queue stops and restarts: the lock is
\* let go again and again, and every request ends.
SPECIFICATION FairSpec
CONSTANTS
  RingSize = 1
  IdxSpan = 2
  Request = {r1, r2}
  NonFs = {}
  NoReq = NoReq
  FrontSleeps = TRUE
  MaxGrantFaults = 0
  FrontSmp = FALSE
  Pending = {p1}
  NoPending = NoPending
  MaxBios = 1
  MaxFinishing = 1
  BackSleeps = FALSE
  BackFaults = {}
  MaxBioFaults = 0
  BackSmp = FALSE
INVARIANTS
  ResponseThreadNotStranded
PROPERTIES
  LockIsReleased
  EveryRequestEnds
