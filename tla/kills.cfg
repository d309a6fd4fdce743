SPECIFICATION Spec
CONSTANTS
  Metrics = {a}
  NaN = NaN
  Zero = 0
  Values <- MCValues
  Samples = {1}
  Interval = 1
  Writers = {w1}
  Readers = {}
  Times = {0, 1, 2, 3, 4}
  LastLayer = 2
  Decimation <- MCDecimation22
  Agg <- MCAgg
  Faults = {"crash"}
INVARIANT PathRepaired
PROPERTY GridFixed
