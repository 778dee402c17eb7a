SPECIFICATION Spec
CONSTANTS
  Keys = {k1}
  Slots = {s1, s2}
  Offs = {o1, o2}
  K = k1
  S1 = s1
  S2 = s2
  O1 = o1
  O2 = o2
  Values <- MCValues
  Neg <- MCNeg
  Parts <- MCParts
  NewLeaves <- MCNewLeaves
  NewNodes <- MCNewNodes
  Others <- MCOthers
  ValueOps <- MCValueOps
  StateOps <- MCStateOps
  Ops <- MCOps
VIEW TreeOnly
PROPERTY ModifyIsApplied
