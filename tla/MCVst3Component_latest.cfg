SPECIFICATION FairSpec
CONSTANTS
  Parameters <- TwoStructural
  Structural <- TwoStructural
  Values = {0, 1}
  NoChange = NoChange
  Notes = {}
  HostDoes = {"edit"}
  NumSlots = 3
  MaxEdits = 2
PROPERTIES
  LatestRequestWins
