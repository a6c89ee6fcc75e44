SPECIFICATION Spec
CONSTANTS
  MaxBuild = 2
  MaxRelaunches = 0
  DiskAtStart <- MCDiskAtStart
  UploadKinds = {"good"}
PROPERTIES
  EveryConnectionClosed
