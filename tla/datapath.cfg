\* Two requests of twenty-one shapes, on devices with blocks of one and two sectors.
SPECIFICATION Spec
CONSTANTS
  Request = {r1, r2}
  Geometry <- Geometries
  Pending = {p1, p2}
  PageSectors = 2
  MaxSegs = 3
  BlockSizes = {1, 2}
  Faults = {"map", "bio"}
SYMMETRY Symmetry
\* All requests end and nothing more is submitted.
CHECK_DEADLOCK FALSE
INVARIANTS
  DataLands
  PagesMappedDuringIo
  NoStaleMapping
