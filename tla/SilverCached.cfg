SPECIFICATION FairSpec
CONSTANTS
  NPages = 2
  MaxAttempts = 2
  Ttl = 1
  CacheTtl = 2
  MaxStale = 2
  Modes = {"use", "refresh", "off"}
  DiskFaults = TRUE
  CityAnswers = {"ok", "rate_limited", "garbled"}
  AgeCap = 4
  MaxCrashes = 1
INVARIANTS
  ServedBytesBounded
  HeaderWithinCacheTtl
PROPERTIES
  PayloadNeverGoesBack
  FailureKeepsPayload
  HealsUncached
  HealsEventually
  LedgerKept
