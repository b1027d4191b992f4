CONSTANTS
  MaxCollections = 7
  MaxIndex = 1
  NumParticles = 2
  Energy = 10
  Shares <- MCShares
  SmearedEnergies <- MCSmearedEnergies
  Events <- MCEvents
SPECIFICATION SimSpec
INVARIANTS
  PointsAreOnTheirCylinders
  StoredEnergyIsPositive
PROPERTIES
  ImplementsManager
  DiscardIsExplained
