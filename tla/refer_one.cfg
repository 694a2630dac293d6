SPECIFICATION Spec
CONSTANTS
  w1 = w1
  w2 = w2
  w3 = w3
  g1 = g1
  g2 = g2
  item = item
  hero = hero
  ghost = ghost
  torn = torn
  x = x
  y = y
  Bad = Bad
  None = None
  NotLoaded = NotLoaded
  Parsers = {w1, w2, w3}
  Refers = {item, hero, ghost, torn}
  Values = {x, y}
  Run <- OneRun
  Questions <- Checks
  Unresolved <- Unknown
  Sources <- Contents
  MaxAsks = 1
INVARIANTS
  LoadedOnce
PROPERTIES
  AnswersAsIfRead
  EveryCheckAnswered
