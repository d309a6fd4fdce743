SPECIFICATION Spec
CONSTANTS
  Metrics = {a}
  NaN = NaN
  Zero = 0
  Values <- MCValues
  Samples = {1}
  Interval = 2
  Writers = {w1}
  Readers = {r1}
  Times = {1, 2, 5}
  LastLayer = 1
  Decimation <- MCDecimation2
  Agg <- MCAggOne
  Faults = {"crash", "io"}
PROPERTIES ImplementsTimeSeries LatestReachable
