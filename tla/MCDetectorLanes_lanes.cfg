SPECIFICATION Spec
CONSTANTS
  NumCandidates = 2
  NumStrings = 4
  Playable <- MCPlayable
  Fits <- MCFits
  MaxPolyphony = 3
  MaxTransitions = 8
  AttackDecisions = 1
  ReleaseDecisions = 2
  UnisonEvidence = 1
  UnisonDropout = 1
  ShortestBeatHold = 3
  LongestBeatHold = 3
  Projected <- MCNotProjected
  OutputConsensus = 2
PROPERTY
  CoastingKeepsItsLanes
