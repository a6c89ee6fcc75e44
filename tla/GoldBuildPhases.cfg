SPECIFICATION Spec
CONSTANTS
  Ttl <- MCTtl
  MaxStale <- MCMaxStale
  ForcedSets <- MCForcedSets
  SourceFaults = {"roster", "prices", "schedules", "lane_plans"}
  Origin <- MCOrigin
  AgeCap = 2
  EnvTypos = TRUE
INVARIANTS
  ExitZeroIsFresh
  BuiltWithinMaxStale
  ForcedTariffsMatch
PROPERTIES
  GoldAllOrNothing
  LedgerKept
