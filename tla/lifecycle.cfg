\* Two loads of each driver in any order, every failure of the two inits; one CPU.
SPECIFICATION FairSpec
CONSTANTS
  MaxLoads = 2
  MaxRequests = 2
  Faults = {"device", "page", "evtchn", "bind", "register", "memory", "handles", "disk", "thread"}
  FrontSmp = FALSE
\* The administrator may stop, and a crashed domain does.
CHECK_DEADLOCK FALSE
INVARIANTS
  FrontInStep
  ServicePageLives
  OrderlyUseSafe
PROPERTIES
  UnloadEnds
