SPECIFICATION Spec
CONSTANTS
  Named = {"hb", "bellevue"}
  MaxFixes = 3
INVARIANTS
  ControlsAgree
