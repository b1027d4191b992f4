CONSTANTS
  Track = {t1}
  Ecal = {}
  Hcal = {h1, h2}
  Distance = {0, 1}
SPECIFICATION Spec
INVARIANTS
  AtMostOneHcalPerTrack
CHECK_DEADLOCK FALSE
