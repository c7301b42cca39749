\* Every input of small size to the algorithms of xdd, of sar and of ring.h.
SPECIFICATION Spec
CONSTANTS
  MaxTargets = 3
  Cpus = 2
INVARIANTS
  PlanAsAsked
  RingRoundsDown
  ClockNotEarly
  RawFollows
  ReportComplete
  OptionsAsAsked
  FormatsInStep
  SamplesFaithful
  DevicesFollowed
