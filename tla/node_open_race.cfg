SPECIFICATION Spec
CONSTANTS
  a = a
  b = b
  Threads <- Two
  MaxLayers = 1
  LayerCounts = {1}
  MaxCreated = 1
  Faults = {}
INVARIANT OpenAnswers
