CONSTANTS
  Indices = 4
  Magnitudes = 4
  Subtypes = 4
  Types = 8
  Upper <- MCUpper
  CaseShift = 2
  ElementIds <- MCElementIds
  Distances <- MCDistances
  Turn = 6
  SmearedClusters <- MCClusters
  Tracks <- MCTracks
SPECIFICATION MCSpec
INVARIANTS
  SortsByFields
  KeyNamesBothEnds
  BlockShowsItsLinks
  MergedDoNotOverlap
  MergingKeepsEnergyAndLinks
CHECK_DEADLOCK FALSE
