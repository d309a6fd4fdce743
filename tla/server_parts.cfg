SPECIFICATION PartsSpec
CONSTANTS
  Numbers <- MCNumbers
  NaN = NaN
  Infinity = Infinity
  Blocks <- MCBlocks
  MaxRows = 4
  Instances = {p1}
  Absent = Absent
  Short = Short
  NoKey = NoKey
  LastTime = 5
  Faults = {"crash", "io"}
  MaxLayers = 3
  MaxMetrics = 2
  Now = 10
  Null = Null
  NotNumber = NotNumber
  a = a
INVARIANTS BlockIsRight SumAndMean KeyFileIsRight PayloadsKept NodesAreClean
PROPERTIES KeyKept
CHECK_DEADLOCK FALSE
