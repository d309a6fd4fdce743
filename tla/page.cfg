SPECIFICATION PageSpec
CONSTANTS
  d1 = d1
  d2 = d2
  all = all
  plain1 = plain1
  c1 = c1
  c2 = c2
  val1 = val1
  val2 = val2
  fn1 = fn1
  fn2 = fn2
  handler1 = handler1
  holder1 = holder1
  r1 = r1
  r2 = r2
  Manual = Manual
  None = None
  Null = Null
  Named = Named
  NotNumber = NotNumber
  Infinite = Infinite
  MinusInfinite = MinusInfinite
INVARIANTS PromisesKept ReadyInTurn RequestsEnd TypesAreRight HandlersAreRight EffectsInTurn
INVARIANTS HighlightsAreRight DrawnWithinRange DataIsRight TicksAreRight AxesAreRight ItemIsRight
INVARIANTS AsFreshAsAsked
PROPERTIES ImplementsPromise PageGoesOn
CHECK_DEADLOCK FALSE
