--------------------------- MODULE MCTreeAccessor ---------------------------
(***************************************************************************)
(* TreeAccessor with three leaves, two of them under one internal node.    *)
(***************************************************************************)
EXTENDS TreeAccessor, TLC

CONSTANTS K1, K2, S1, S2

MCCoords == {<<K1, S1>>, <<K1, S2>>, <<K2, S1>>}

Symmetry == Permutations(Trees) \cup Permutations(Accessors \ ConstAccessors)
=============================================================================
