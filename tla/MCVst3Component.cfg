SPECIFICATION FairSpec
CONSTANTS
  Parameters <- OneOfEach
  Structural <- OneStructural
  Values = {0, 1}
  NoChange = NoChange
  Notes = {40}
  HostDoes <- HostActs
  NumSlots = 2
  MaxEdits = 2
INVARIANTS
  DetectorInStep
  ClaimFits
PROPERTIES
  FollowsService
  ReadyMeansOpen
  SilentSwap
  MatchedBoundaryEnds
  HoldEnds
