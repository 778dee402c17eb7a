SPECIFICATION Spec
CONSTANTS
  Trees = {t1, t2}
  Accessors = {a1, a2}
  ConstAccessors = {a2}
  Keys = {k1, k2}
  Slots = {s1, s2}
  K1 = k1
  K2 = k2
  S1 = s1
  S2 = s2
  Coords <- MCCoords
  None = none
  Freed = freed
  Away = away
  Unborn = unborn
  Careful = FALSE
SYMMETRY Symmetry
CHECK_DEADLOCK FALSE
INVARIANT
  CachedOnPath
