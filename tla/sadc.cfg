\* Processes of every kind in the files of two days, and sar on its pipe.
SPECIFICATION FairSpec
CONSTANTS
  Writer = {1, 2, 3}
  Crews <- ThreeCrews
  MaxDay = 2
  Samples = 2
  Lines = 2
  MaxDeaths = 1
\* All processes end.
CHECK_DEADLOCK FALSE
INVARIANTS
  RecordsWhole
PROPERTIES
  SarServed
