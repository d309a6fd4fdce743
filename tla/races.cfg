SPECIFICATION Spec
CONSTANTS
  Metrics = {a}
  NaN = NaN
  Zero = 0
  Values <- MCValues
  Samples = {}
  Interval = 1
  Writers = {w1, w2}
  Readers = {r1}
  Times = {0, 1, 2}
  LastLayer = 1
  Decimation <- MCDecimation2
  Agg <- MCAggOne
  Faults = {"crash"}
INVARIANTS NoLayerLags NoShortRead
SYMMETRY MCWriters
