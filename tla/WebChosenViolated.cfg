SPECIFICATION Spec
CHECK_DEADLOCK FALSE
CONSTANTS
  Pools = {1, 2}
  Programme <- MCProgramme
  Acts = 4
  HastyActs = 2
PROPERTY ChosenPoolKept
