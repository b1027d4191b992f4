CONSTANTS
  MaxCollections = 13
  MaxIndex = 5
  NumParticles = 2
SPECIFICATION MCSpec
INVARIANTS
  FoldersLeadToCollections
  HistoryIsOfTheEvent
PROPERTIES
  RegisteredStays
