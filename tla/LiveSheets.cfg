SPECIFICATION FairSpec
CONSTANTS
  Sheets = {"limmat", "oerlikon"}
  Ttl = 2
  Patience = 1
INVARIANTS
  ShownNeverOld
PROPERTIES
  FailureHeals
