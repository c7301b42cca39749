\* Three requests, one refused, on a ring of two slots; both threads keep polling.
SPECIFICATION Spec
CONSTANTS
  RingSize = 2
  IdxSpan = 4
  Request = {r1, r2, r3}
  NonFs = {r3}
  NoReq = NoReq
  FrontSleeps = FALSE
  MaxGrantFaults = 0
  FrontSmp = TRUE
  Pending = {p1, p2, p3}
  NoPending = NoPending
  MaxBios = 1
  MaxFinishing = 1
  BackSleeps = FALSE
  BackFaults = {}
  MaxBioFaults = 0
  BackSmp = TRUE
SYMMETRY Symmetry
INVARIANTS
  TypeOK
  RingOrder
  OneHolder
  IdsSuffice
PROPERTIES
  PublishedMessagesStable
  ImplementsBlockService
