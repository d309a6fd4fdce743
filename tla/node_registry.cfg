SPECIFICATION Spec
CONSTANTS
  a = a
  b = b
  Threads <- Two
  MaxLayers = 2
  LayerCounts = {2}
  MaxCreated = 2
  Faults = {"crash", "io"}
INVARIANT TypeOK
PROPERTIES ImplementsRegistry ParametersStay
