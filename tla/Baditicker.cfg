SPECIFICATION Spec
CHECK_DEADLOCK FALSE
CONSTANTS
  t1 = t1
  t2 = t2
  east = east
  west = west
  Blank = Blank
  Down = Down
  Threads <- MCThreads
  Poiids <- MCPoiids
  Bodies <- MCBodies
  Ttl = 2
  Patience = 1
SYMMETRY Symmetric
INVARIANTS
  TemperatureTold
PROPERTIES
  ServedWithinTtl
