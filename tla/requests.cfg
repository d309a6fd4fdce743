SPECIFICATION Spec
CONSTANTS
  a = a
  b = b
  k1 = k1
  Connections = {a, b}
  Admins = {a}
  Requests <- MCRequests
  Admin = Admin
  Unsigned = Unsigned
  Keys = {k1}
  Erased = Erased
  NoTime = NoTime
  MaxCreated = 1
  Faults = {"memory", "io", "crash"}
INVARIANTS AnswerTellsAll NothingHeld KeyIsWhole
PROPERTY Answers
