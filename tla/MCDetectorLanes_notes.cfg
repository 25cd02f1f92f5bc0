SPECIFICATION Spec
CONSTANTS
  NumCandidates = 2
  NumStrings = 3
  Playable <- MCPairPlayable
  Fits <- MCNoFits
  MaxPolyphony = 3
  MaxTransitions = 6
  AttackDecisions = 1
  ReleaseDecisions = 2
  UnisonEvidence = 1
  UnisonDropout = 1
  ShortestBeatHold = 3
  LongestBeatHold = 3
  Projected <- MCProjected
  OutputConsensus = 2
PROPERTY
  ReplacedNotesStay
