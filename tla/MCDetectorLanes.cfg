SPECIFICATION Spec
CONSTANTS
  NumCandidates = 2
  NumStrings = 4
  Playable <- MCPlayable
  Fits <- MCFits
  MaxPolyphony = 3
  MaxTransitions = 4
  AttackDecisions = 1
  ReleaseDecisions = 1
  UnisonEvidence = 1
  UnisonDropout = 1
  ShortestBeatHold = 2
  LongestBeatHold = 2
  Projected <- MCNotProjected
  OutputConsensus = 2
INVARIANTS
  SoundsItsLanes
  SilenceEndsVoices
  InferredLanesAreFree
PROPERTY
  UnisonKeepsBudget
