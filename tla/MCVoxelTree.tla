---------------------------- MODULE MCVoxelTree ----------------------------
(***************************************************************************)
(* VoxelTree with one root key, two slots and leaves of two voxels, so     *)
(* that a box may cover a leaf, half of it or a whole internal node.       *)
(***************************************************************************)
EXTENDS VoxelTree

CONSTANT K, S1, S2, O1, O2

MCValues == {-1, 0, 1}
MCNeg == [v \in Values |-> -v]

\* The boxes of four voxels in a row.
MCParts ==
  LET row == <<<<K, S1, O1>>, <<K, S1, O2>>, <<K, S2, O1>>, <<K, S2, O2>>>>
  IN {{row[i]: i \in a..b}: a, b \in 1..4}

Mixed == [o \in Offs |-> IF o = O1 THEN Vox(0, TRUE) ELSE Vox(1, FALSE)]
MCNewLeaves == {Mixed, FullLeaf(Vox(1, TRUE))}
MCNewNodes == {[s \in Slots |-> IF s = S1 THEN Child(Mixed) ELSE Tile(Vox(1, TRUE))]}

\* Trees with every kind of entry on every level.
MCOthers ==
  LET node(e, f) == Child([s \in Slots |-> IF s = S1 THEN e ELSE f])
      half == [o \in Offs |-> IF o = O1 THEN Vox(1, FALSE) ELSE Vox(1, TRUE)]
      entries == {Absent, Tile(Vox(1, TRUE)), Tile(Off(0)),
                  node(Child(Mixed), Tile(Vox(1, TRUE))), node(Tile(Off(1)), Child(half))}
  IN {[background |-> 0, table |-> [k \in Keys |-> e]]: e \in entries}
     \cup {[background |-> 1, table |-> [k \in Keys |-> node(Child(Mixed), Child(half))]]}

MCValueOps == {[v \in Values |-> v], [v \in Values |-> 0]}
MCStateOps == {[b \in BOOLEAN |-> b], [b \in BOOLEAN |-> ~b], [b \in BOOLEAN |-> FALSE]}

\* csgUnion-like minimum with the default state, and Tree.h's example for
\* combineExtended(): the larger value, with its own state.
MCOps ==
  {[p \in Voxel \X Voxel |-> Vox(IF p[1].value < p[2].value THEN p[1].value ELSE p[2].value,
                                 p[1].on \/ p[2].on)],
   [p \in Voxel \X Voxel |-> IF p[2].value > p[1].value THEN p[2] ELSE p[1]]}

TreeOnly == tree
=============================================================================
