SPECIFICATION Spec
CONSTANTS
  NPages = 1
  MaxAttempts = 2
  Ttl = 1
  CacheTtl = 2
  MaxStale = 2
  Modes = {"use", "refresh"}
  DiskFaults = FALSE
  CityAnswers = {"ok", "server_error", "garbled"}
  AgeCap = 4
  MaxCrashes = 0
PROPERTIES
  HealsWhenBack
