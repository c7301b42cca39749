\* Two bios a request, and every failure of both drivers.
SPECIFICATION Spec
CONSTANTS
  RingSize = 1
  IdxSpan = 2
  Request = {r1, r2}
  NonFs = {}
  NoReq = NoReq
  FrontSleeps = FALSE
  MaxGrantFaults = 1
  FrontSmp = FALSE
  Pending = {p1, p2, p3}
  NoPending = NoPending
  MaxBios = 2
  MaxFinishing = 2
  BackSleeps = FALSE
  BackFaults = {"io", "reject", "nobio"}
  MaxBioFaults = 1
  BackSmp = TRUE
SYMMETRY Symmetry
\* The system can stop for good: the lost wakeups and lost requests the README lists.
CHECK_DEADLOCK FALSE
INVARIANTS
  PoolSuffices
PROPERTIES
  ImplementsBlockService
