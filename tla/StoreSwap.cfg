SPECIFICATION FairSpec
CONSTANTS
  MaxBuild = 2
  MaxRelaunches = 1
  DiskAtStart <- MCDiskAtStart
  UploadKinds = {"good", "foreign", "junk"}
INVARIANTS
  TypeOK
  QuietIsCurrent
PROPERTIES
  InstallsMoveForward
  ScreenNeverGoesBack
  EventuallyCurrent
