CONSTANTS
  east = east
  west = west
  Regions <- TwoRegions
  MaxFaults = 2
SPECIFICATION Spec
INVARIANTS DrainedBeforeClosed DialsAreAccepted
PROPERTY ServicesComeUp
CHECK_DEADLOCK FALSE
