CONSTANTS
  MaxCollections = 13
  MaxIndex = 5
  NumParticles = 2
  NumEvents = 2
  Views = {"xy", "yz"}
SPECIFICATION MCSpec
INVARIANTS
  EachObjectHasAnOrigin
  OnlySimulationThrows
  EachDepositInOneBlock
  NumberIsOfTheEvent
  NothingHalfDoneComesOut
  PictureOutlivesTheEvent
PROPERTIES
  ProgramEnds
CHECK_DEADLOCK FALSE
