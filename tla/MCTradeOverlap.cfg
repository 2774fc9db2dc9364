SPECIFICATION Spec
CONSTANTS
  r1 = r1
  x1 = x1
  long = long
  short = short
  NoOne = NoOne
  Runs = {r1}
  Exits = {x1}
  Sides = {long, short}
  Windows = {"overlap"}
INVARIANT ProtectedOrFrozen
