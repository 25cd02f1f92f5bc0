SPECIFICATION Spec
CONSTANTS
  Content = {0, 1}
  Zero = 0
  ReadAttempts = 2
  RequestAttempts = 1
  BankWords = 2
  BankGenerations = {0, 1}
  MaxBanks = 2
  Voices = 1
  WordsPerVoice = 2
  FrameStates = {"tracking"}
  Peaks = {0, 1}
  MaxFrames = 3
  Writers = {"main", "audio"}
  NumFields = 2
  Initial <- MCInitial
  FirstGeneration = 2
  GenerationRange = 4
  MaxRequests = 3
  MaxConfigs = 3
INVARIANTS
  ReaderNeverWaits
PROPERTIES
  BankReadsAreWhole
  FrameReadsAreWhole
  RequestReadsAreWhole
  GenerationNamesContent
  GenerationsAdvance
CHECK_DEADLOCK FALSE
