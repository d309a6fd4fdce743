SPECIFICATION Spec
CONSTANTS
  Interval = 2
  LastLayer = 1
  Decimation <- MCDecimation
  StartTime = 2
  NoTime = NoTime
  Unknown = Unknown
  Junk = Junk
  MaxRows = 5
  Starts <- MCStarts
  Ends <- MCEnds
  Counts = {0, 1, 2, 3, 4}
INVARIANTS PointsInOrder AlignedCovers
PROPERTY Answers
CHECK_DEADLOCK FALSE
