CONSTANTS
  Track = {t1, t2}
  Ecal = {e1}
  Hcal = {h1, h2, h3}
  Distance = {0, 1}
  Energy = {1, 4}
  KaonMass = 2
SPECIFICATION MCSpec
INVARIANTS
  EachElementInOneBlock
  TrackKeepsItsClosestHcals
  EachTrackMakesOneParticle
  NeutralEnergyIsOfClusters
  UnusedIsExplained
CHECK_DEADLOCK FALSE
