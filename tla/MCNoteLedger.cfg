SPECIFICATION FairSpec
CONSTANTS
  MaxVoices = 2
  NumChannels = 2
  Notes <- OneNote
  MaxFrames = 1
  Capacity = 1
  Routes <- BothRoutes
INVARIANTS
  TypeOK
  HostAgrees
  BlockedOwesAll
  CleanupIsCurrent
PROPERTIES
  DeliversNotes
  OwedIsReleased
