SPECIFICATION MCSpec
CONSTANTS
  r1 = r1
  r2 = r2
  x1 = x1
  long = long
  short = short
  NoOne = NoOne
  Runs = {r1, r2}
  Exits = {x1}
  Sides = {long, short}
  Windows = {}
  Casts = {{r1, r2}, {r1, x1}}
  FirstRun = r1
  FirstSide = long
INVARIANTS
  ProtectedOrFrozen
  StopsHaveOrder
  PositionHasOrder
  UnknownMeansFrozen
  SlipAtMostOne
PROPERTY
  LockReleased
