SPECIFICATION Spec
CONSTANTS
  r1 = r1
  r2 = r2
  long = long
  short = short
  NoOne = NoOne
  Runs = {r1, r2}
  Exits = {}
  Sides = {long, short}
  Windows = {}
INVARIANT ResidueMeansFrozen
