SPECIFICATION Spec
CONSTANTS
  Parameters <- OneOfEach
  Structural <- OneStructural
  Values = {0, 1}
  NoChange = NoChange
  Notes = {40}
  HostDoes = {"edit"}
  NumSlots = 3
  MaxEdits = 2
INVARIANTS
  RuntimeEditsStay
