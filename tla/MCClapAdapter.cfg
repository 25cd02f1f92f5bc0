SPECIFICATION FairSpec
CONSTANTS
  Parameters <- TwoParameters
  Structural <- OneStructural
  Values <- TwoValues
  Default <- AllZero
  Requests <- OneChange
  Hosts <- SomeHosts
  MaxEdits = 2
  MaxGeneration = 4
INVARIANTS SameGenerationSameConfig NotesFollowConfig ReadyMeansOpen
PROPERTY RequestIsAdopted
