SPECIFICATION Spec
CONSTANTS
  Metrics = {a}
  NaN = NaN
  Zero = 0
  Values <- MCValues
  Samples = {1}
  Interval = 1
  Writers = {w1, w2}
  Readers = {}
  Times = {0, 1}
  LastLayer = 0
  Decimation <- MCDecimation0
  Agg <- MCAgg
  Faults = {}
PROPERTY KnownStaysKnown
