SPECIFICATION Spec
CONSTANTS
  Strings = {0, 1}
  NumFrets = 3
  OpenObservations = 2
  StableObservations = 2
  MinimumPerDirection = 2
  MinimumMeasured = 2
  MaxLoads = 2
  MaxCommands = 2
INVARIANTS
  SavesTheLastLoad
  PublishedIsCurrent
PROPERTIES
  SweepEndsWhole
