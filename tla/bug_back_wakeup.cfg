\* The interrupt falls between the two steps of the request thread going to sleep.
SPECIFICATION Spec
CONSTANTS
  RingSize = 1
  IdxSpan = 2
  Request = {r1, r2}
  NonFs = {}
  NoReq = NoReq
  FrontSleeps = FALSE
  MaxGrantFaults = 0
  FrontSmp = FALSE
  Pending = {p1}
  NoPending = NoPending
  MaxBios = 1
  MaxFinishing = 1
  BackSleeps = TRUE
  BackFaults = {}
  MaxBioFaults = 0
  BackSmp = FALSE
\* The system can stop for good: the lost wakeups and lost requests the README lists.
CHECK_DEADLOCK FALSE
INVARIANTS
  RequestThreadNotStranded
