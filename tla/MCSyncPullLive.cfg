SPECIFICATION LiveSpec
CONSTANTS
  TicksPerMs = 2
  MaxTime = 4
  w1 = w1
  w2 = w2
  d1 = d1
  d2 = d2
  o1 = o1
  o2 = o2
  p1 = p1
  p2 = p2
  Snapshots = {}
  Observations = {o1}
  Publishers = {}
  Readers = {d1}
  MarketPageSize = 1
  Writers = {w1}
  Rows = {1, 2}
  Snaps = {}
  MaxImage = 2
  PageSize = 1
INVARIANTS
  NoMissedRow
PROPERTIES
  SealedPullEnds
  PullEndsWhenWritersPause
