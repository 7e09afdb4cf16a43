SPECIFICATION Spec
CONSTANTS
  TicksPerMs = 2
  MaxTime = 7
  w1 = w1
  w2 = w2
  d1 = d1
  d2 = d2
  o1 = o1
  o2 = o2
  p1 = p1
  p2 = p2
  Snapshots = {1, 2}
  Observations = {o1, o2}
  Publishers = {p1, p2}
  Readers = {d1}
  MarketPageSize = 1
  Writers = {}
  Rows = {}
  Snaps = {}
  MaxImage = 1
  PageSize = 1
SYMMETRY Symmetry
INVARIANTS
  CompleteIsPublished
  CutComplete
  NoMissedRate
PROPERTIES
  NoLatePublication
