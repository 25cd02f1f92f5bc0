SPECIFICATION FairSpec
CONSTANTS
  NumSlots = 3
  MaxGeneration = 5
INVARIANTS
  NeverTorn
  ClaimIsGood
  NewestSurvives
PROPERTIES
  CallsNeverWait
  NewestIsAdopted
  ImplementsService
