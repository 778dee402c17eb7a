SPECIFICATION Spec
CONSTANTS
  Trees = {t1, t2}
  Accessors = {a1, a2}
  ConstAccessors = {}
  Keys = {k1, k2}
  Slots = {s1, s2}
  K1 = k1
  K2 = k2
  S1 = s1
  S2 = s2
  Coords <- MCCoords
  None = none
  Freed = freed
  Away = away
  Unborn = unborn
  Careful = TRUE
SYMMETRY Symmetry
CHECK_DEADLOCK FALSE
INVARIANTS
  TypeOK
  RegistryExact
  CachedOnPath
PROPERTY AddTileReplacesLeaf
