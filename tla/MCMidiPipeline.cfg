SPECIFICATION PSpec
CONSTANTS
  MaxVoices = 2
  NumChannels = 2
  Notes <- OneNote
  MaxFrames = 2
  Capacity = 2
  Routes <- MCRoutes
  InputLists <- MCInputs
INVARIANTS
  OpenMeansClean
PROPERTIES
  EventsInOrder
  EmittedInOrder
  InputsPassOnce
