--------------------------- MODULE VoxelTreeProofs ---------------------------
(***************************************************************************)
(* The tree implements the map, for every set of keys, slots, offsets,     *)
(* values, regions, functors and other trees.  Three levels of lemmas,     *)
(* the same for each operation: what it does to a slot, to an internal     *)
(* node and to the root, always as the voxel read afterwards against the   *)
(* voxels read before.  The calls of Tree then follow from the lemma       *)
(* about the root, and the theorems from the calls.                        *)
(***************************************************************************)
EXTENDS VoxelTree, TLAPS

\* The fields of a voxel, and the inactive voxel of a value.
LEMMA VoxelFacts ==
  /\ \A v \in Values, on \in BOOLEAN: Vox(v, on) \in Voxel
  /\ \A v, on: Vox(v, on).value = v /\ Vox(v, on).on = on
  /\ \A x \in Voxel: x.value \in Values /\ x.on \in BOOLEAN /\ x = Vox(x.value, x.on)
  /\ \A v \in Values: Off(v) \in Voxel
  /\ \A v: Off(v).value = v /\ Off(v).on = FALSE
  /\ \A x \in Voxel: ~x.on => x = Off(x.value)
BY DEF Voxel, Vox, Off

\* A tile is no node and neither is an empty entry; what they hold.
LEMMA EntryFacts ==
  /\ \A x: /\ Tile(x).voxel = x /\ IsTile(Tile(x)) /\ ~IsChild(Tile(x)) /\ Tile(x) # Absent
           /\ OnTile(Tile(x)) <=> x.on
           /\ OffTile(Tile(x)) <=> ~x.on
  /\ \A n: /\ Child(n).node = n /\ IsChild(Child(n)) /\ ~IsTile(Child(n)) /\ Child(n) # Absent
           /\ ~OnTile(Child(n)) /\ ~OffTile(Child(n))
  /\ ~IsChild(Absent) /\ ~IsTile(Absent) /\ ~OnTile(Absent) /\ ~OffTile(Absent)
  /\ \A e: OnTile(e) <=> (IsTile(e) /\ e.voxel.on)
  /\ \A e: OffTile(e) <=> (IsTile(e) /\ ~e.voxel.on)
BY DEF Tile, Child, Absent, IsTile, IsChild, OnTile, OffTile

\* A slot of an internal node is a tile or a leaf.
LEMMA SlotFacts ==
  /\ \A x \in Voxel: Tile(x) \in SlotEntry
  /\ \A l \in Leaf: Child(l) \in SlotEntry
  /\ \A e \in SlotEntry: \/ IsTile(e) /\ ~IsChild(e) /\ e.voxel \in Voxel /\ e = Tile(e.voxel)
                         \/ IsChild(e) /\ ~IsTile(e) /\ e.node \in Leaf /\ e = Child(e.node)
BY DEF SlotEntry, Tile, Child, IsTile, IsChild

\* An entry of the root is empty, a tile or an internal node.
LEMMA RootFacts ==
  /\ Absent \in RootEntry
  /\ \A x \in Voxel: Tile(x) \in RootEntry
  /\ \A n \in Internal: Child(n) \in RootEntry
  /\ \A e \in RootEntry:
       \/ IsTile(e) /\ ~IsChild(e) /\ e # Absent /\ e.voxel \in Voxel /\ e = Tile(e.voxel)
       \/ IsChild(e) /\ ~IsTile(e) /\ e # Absent /\ e.node \in Internal /\ e = Child(e.node)
       \/ e = Absent /\ ~IsChild(e) /\ ~IsTile(e)
BY DEF RootEntry, Tile, Child, Absent, IsTile, IsChild

-----------------------------------------------------------------------------
SlotVoxel(e, o) == IF IsChild(e) THEN e.node[o] ELSE e.voxel
EntryVoxel(e, bg, s, o) ==
  IF IsChild(e) THEN InternalProbe(e.node, s, o)
  ELSE IF IsTile(e) THEN e.voxel ELSE Off(bg)

\* Reading a slot is reading its leaf, or the tile's voxel.
LEMMA ProbeFacts ==
  /\ \A n, s, o: InternalProbe(n, s, o) = SlotVoxel(n[s], o)
  /\ \A e \in SlotEntry, o \in Offs: SlotVoxel(e, o) \in Voxel
  /\ \A x, o: SlotVoxel(Tile(x), o) = x
  /\ \A l, o: SlotVoxel(Child(l), o) = l[o]
<1>1. \A n, s, o: InternalProbe(n, s, o) = SlotVoxel(n[s], o)
  BY DEF InternalProbe, SlotVoxel
<1>2. \A e \in SlotEntry, o \in Offs: SlotVoxel(e, o) \in Voxel
  BY SlotFacts DEF SlotVoxel, Leaf
<1>3. \A x, o: SlotVoxel(Tile(x), o) = x
  BY EntryFacts DEF SlotVoxel
<1>4. \A l, o: SlotVoxel(Child(l), o) = l[o]
  BY EntryFacts DEF SlotVoxel
<1> QED BY <1>1, <1>2, <1>3, <1>4

\* The node put in place of a tile has the tile's voxel everywhere.
LEMMA OpenSlotFacts ==
  ASSUME NEW e \in SlotEntry
  PROVE  OpenSlot(e) \in Leaf /\ \A o \in Offs: OpenSlot(e)[o] = SlotVoxel(e, o)
BY SlotFacts DEF OpenSlot, SlotVoxel, FullLeaf, Leaf

-----------------------------------------------------------------------------
\* resetBackground() leaves active voxels and all states alone.
LEMMA ResetFacts ==
  ASSUME NEW x \in Voxel, NEW old \in Values, NEW new \in Values
  PROVE  Reset(x, old, new) \in Voxel /\ (x.on => Reset(x, old, new) = x)
         /\ Reset(x, old, new).on = x.on
BY ValuesAssumption, VoxelFacts DEF Reset

\* A leaf holds voxels.
LEMMA LeafRange == \A l \in Leaf, o \in Offs: l[o] \in Voxel
BY DEF Leaf

\* A leaf filled with one voxel.
LEMMA FullLeafFacts ==
  \A x \in Voxel: FullLeaf(x) \in Leaf /\ \A o \in Offs: FullLeaf(x)[o] = x
BY LeafRange DEF FullLeaf, Leaf

\* A write changes one voxel of a leaf.
LEMMA LeafWriteFacts ==
  \A l \in Leaf, o \in Offs, w \in [Voxel -> Voxel]:
    /\ LeafWrite(l, o, w) \in Leaf
    /\ \A p \in Offs: LeafWrite(l, o, w)[p] = IF p = o THEN w[l[o]] ELSE l[p]
BY LeafRange DEF LeafWrite, Leaf

\* LeafNode::fill(bbox): the voxels of the box, and no other.
LEMMA LeafFillFacts ==
  ASSUME NEW l \in Leaf, NEW os, NEW x \in Voxel
  PROVE  /\ LeafFill(l, os, x) \in Leaf
         /\ \A o \in Offs: LeafFill(l, os, x)[o] = IF o \in os THEN x ELSE l[o]
BY LeafRange DEF LeafFill, Leaf

\* LeafNode::clip(): the voxels outside the box become background.
LEMMA LeafClipFacts ==
  ASSUME NEW l \in Leaf, NEW os, NEW v \in Values
  PROVE  /\ LeafClip(l, os, v) \in Leaf
         /\ \A o \in Offs: LeafClip(l, os, v)[o] = IF o \in os THEN l[o] ELSE Off(v)
BY LeafRange, VoxelFacts DEF LeafClip, Leaf

\* LeafNode::resetBackground(), voxel by voxel.
LEMMA LeafResetFacts ==
  \A l \in Leaf, v, w \in Values:
    /\ LeafReset(l, v, w) \in Leaf
    /\ \A o \in Offs: LeafReset(l, v, w)[o] = Reset(l[o], v, w)
BY LeafRange, ResetFacts DEF LeafReset, Leaf

\* What the topology operations make of a voxel.
TopologyVoxel(v, y) == Vox(v, y.on)
AllOnVoxel(x) == Vox(x.value, TRUE)
UnionVoxel(x, y) == Vox(x.value, x.on \/ y.on)
IntersectionVoxel(x, y) == Vox(x.value, x.on /\ y.on)
DifferenceVoxel(x, y) == Vox(x.value, x.on /\ ~y.on)

\* A topology copy has the other's state and one value.
LEMMA TopologyVoxelFacts ==
  ASSUME NEW v \in Values, NEW y \in Voxel
  PROVE  /\ TopologyVoxel(v, y) \in Voxel
         /\ y.on => TopologyVoxel(v, y) = Vox(v, TRUE)
         /\ ~y.on => TopologyVoxel(v, y) = Off(v)
BY DEF Voxel, Vox, Off, TopologyVoxel

\* setValuesOn() keeps values.
LEMMA AllOnVoxelFacts ==
  ASSUME NEW x \in Voxel
  PROVE  /\ AllOnVoxel(x) \in Voxel
         /\ x.on => AllOnVoxel(x) = x
BY DEF Voxel, Vox, AllOnVoxel

\* The union of a voxel with another: what it is when either is active.
LEMMA UnionVoxelFacts ==
  ASSUME NEW x \in Voxel, NEW y \in Voxel
  PROVE  /\ UnionVoxel(x, y) \in Voxel
         /\ y.on => UnionVoxel(x, y) = AllOnVoxel(x)
         /\ ~y.on => UnionVoxel(x, y) = x
         /\ x.on => UnionVoxel(x, y) = x
         /\ x.on => AllOnVoxel(TopologyVoxel(x.value, y)) = x
         /\ ~x.on => TopologyVoxel(x.value, y) = UnionVoxel(x, y)
BY DEF Voxel, Vox, Off, TopologyVoxel, AllOnVoxel, UnionVoxel

\* The intersection of a voxel with another.
LEMMA IntersectionVoxelFacts ==
  ASSUME NEW x \in Voxel, NEW y \in Voxel
  PROVE  /\ IntersectionVoxel(x, y) \in Voxel
         /\ y.on => IntersectionVoxel(x, y) = x
         /\ ~y.on => IntersectionVoxel(x, y) = Off(x.value)
         /\ ~x.on => IntersectionVoxel(x, y) = x
         /\ x.on => IntersectionVoxel(x, y) = TopologyVoxel(x.value, y)
BY DEF Voxel, Vox, Off, TopologyVoxel, IntersectionVoxel

\* The difference of a voxel and another.
LEMMA DifferenceVoxelFacts ==
  ASSUME NEW x \in Voxel, NEW y \in Voxel
  PROVE  /\ DifferenceVoxel(x, y) \in Voxel
         /\ y.on => DifferenceVoxel(x, y) = Off(x.value)
         /\ ~y.on => DifferenceVoxel(x, y) = x
         /\ ~x.on => DifferenceVoxel(x, y) = x
BY DEF Voxel, Vox, Off, DifferenceVoxel

\* The topology copy of a leaf.
LEMMA LeafTopologyFacts ==
  ASSUME NEW m \in Leaf, NEW v \in Values
  PROVE  /\ LeafTopology(m, v) \in Leaf
         /\ \A o \in Offs: LeafTopology(m, v)[o] = TopologyVoxel(v, m[o])
<1>1. LeafTopology(m, v) = [o \in Offs |-> TopologyVoxel(v, m[o])]
  BY Zenon DEF LeafTopology, TopologyVoxel
<1> QED BY <1>1, LeafRange, TopologyVoxelFacts DEF Leaf

\* A leaf with all voxels active.
LEMMA LeafAllOnFacts ==
  ASSUME NEW l \in Leaf
  PROVE  /\ LeafAllOn(l) \in Leaf
         /\ \A o \in Offs: LeafAllOn(l)[o] = AllOnVoxel(l[o])
<1>1. LeafAllOn(l) = [o \in Offs |-> AllOnVoxel(l[o])]
  BY Zenon DEF LeafAllOn, AllOnVoxel
<1> QED BY <1>1, LeafRange, AllOnVoxelFacts DEF Leaf

\* The union of two leaves, voxel by voxel.
LEMMA LeafUnionFacts ==
  ASSUME NEW l \in Leaf, NEW m \in Leaf
  PROVE  /\ LeafUnion(l, m) \in Leaf
         /\ \A o \in Offs: LeafUnion(l, m)[o] = UnionVoxel(l[o], m[o])
<1>1. LeafUnion(l, m) = [o \in Offs |-> UnionVoxel(l[o], m[o])]
  BY Zenon DEF LeafUnion, UnionVoxel
<1> QED BY <1>1, LeafRange, UnionVoxelFacts DEF Leaf

\* The intersection of two leaves, voxel by voxel.
LEMMA LeafIntersectionFacts ==
  ASSUME NEW l \in Leaf, NEW m \in Leaf
  PROVE  /\ LeafIntersection(l, m) \in Leaf
         /\ \A o \in Offs: LeafIntersection(l, m)[o] = IntersectionVoxel(l[o], m[o])
<1>1. LeafIntersection(l, m) = [o \in Offs |-> IntersectionVoxel(l[o], m[o])]
  BY Zenon DEF LeafIntersection, IntersectionVoxel
<1> QED BY <1>1, LeafRange, IntersectionVoxelFacts DEF Leaf

\* The difference of two leaves, voxel by voxel.
LEMMA LeafDifferenceFacts ==
  ASSUME NEW l \in Leaf, NEW m \in Leaf
  PROVE  /\ LeafDifference(l, m) \in Leaf
         /\ \A o \in Offs: LeafDifference(l, m)[o] = DifferenceVoxel(l[o], m[o])
<1>1. LeafDifference(l, m) = [o \in Offs |-> DifferenceVoxel(l[o], m[o])]
  BY Zenon DEF LeafDifference, DifferenceVoxel
<1> QED BY <1>1, LeafRange, DifferenceVoxelFacts DEF Leaf

\* Merging leaves: only active voxels come over inactive ones.
LEMMA LeafMergeFacts ==
  ASSUME NEW l \in Leaf, NEW m \in Leaf, NEW policy
  PROVE  /\ LeafMerge(l, m, policy) \in Leaf
         /\ \A o \in Offs: LeafMerge(l, m, policy)[o] =
              IF policy # "nodes" /\ ~l[o].on /\ m[o].on THEN m[o] ELSE l[o]
BY LeafRange DEF LeafMerge, Leaf

\* Merging a tile into a leaf: the tile takes the inactive voxels.
LEMMA LeafMergeTileFacts ==
  \A l \in Leaf, x \in Voxel:
    /\ LeafMergeTile(l, x) \in Leaf
    /\ \A o \in Offs: LeafMergeTile(l, x)[o] = IF l[o].on THEN l[o] ELSE x
BY LeafRange DEF LeafMergeTile, Leaf

-----------------------------------------------------------------------------

\* An entry of an internal node is a leaf or a voxel, and so is an entry of the root
\* table, or nothing.
LEMMA SlotShapes ==
  \A e \in SlotEntry: (\E l \in Leaf: e = Child(l)) \/ (\E x \in Voxel: e = Tile(x))
BY SlotFacts

\* What a tile and a leaf give at an offset.
LEMMA SlotVoxelFacts ==
  /\ \A x, o: SlotVoxel(Tile(x), o) = x
  /\ \A l, o: SlotVoxel(Child(l), o) = l[o]
BY ProbeFacts

\* InternalNode::topologyUnion() in one slot is the union of the voxels under it.
LEMMA SlotUnionFacts ==
  ASSUME NEW e \in SlotEntry, NEW f \in SlotEntry
  PROVE  /\ SlotUnion(e, f) \in SlotEntry
         /\ \A o \in Offs: SlotVoxel(SlotUnion(e, f), o)
                             = UnionVoxel(SlotVoxel(e, o), SlotVoxel(f, o))
<1>1. CASE \E l \in Leaf, m \in Leaf: e = Child(l) /\ f = Child(m)
  <2> PICK l \in Leaf, m \in Leaf: e = Child(l) /\ f = Child(m)  BY <1>1
  <2>1. SlotUnion(e, f) = Child(LeafUnion(l, m))  BY EntryFacts DEF SlotUnion, Masked
  <2> QED BY <2>1, SlotFacts, SlotVoxelFacts, LeafUnionFacts
<1>2. CASE \E l \in Leaf, y \in Voxel: e = Child(l) /\ f = Tile(y)
  <2> PICK l \in Leaf, y \in Voxel: e = Child(l) /\ f = Tile(y)  BY <1>2
  <2>1. CASE y.on
    <3>1. SlotUnion(e, f) = Child(LeafAllOn(l))  BY <2>1, EntryFacts DEF SlotUnion, Masked
    <3> QED BY <2>1, <3>1, SlotFacts, SlotVoxelFacts, LeafAllOnFacts, LeafRange, UnionVoxelFacts
  <2>2. CASE ~y.on
    <3>1. SlotUnion(e, f) = Child(l)  BY <2>2, EntryFacts DEF SlotUnion, Masked
    <3> QED BY <2>2, <3>1, SlotVoxelFacts, LeafRange, UnionVoxelFacts
  <2> QED BY <2>1, <2>2
<1>3. CASE \E x \in Voxel, m \in Leaf: e = Tile(x) /\ f = Child(m)
  <2> PICK x \in Voxel, m \in Leaf: e = Tile(x) /\ f = Child(m)  BY <1>3
  <2>1. /\ x.value \in Values
        /\ LeafTopology(m, x.value) \in Leaf
        /\ \A o \in Offs: LeafTopology(m, x.value)[o] = TopologyVoxel(x.value, m[o])
    BY VoxelFacts, LeafTopologyFacts
  <2>2. CASE x.on
    <3>1. SlotUnion(e, f) = Child(LeafAllOn(LeafTopology(m, x.value)))
      BY <2>2, EntryFacts DEF SlotUnion, Masked
    <3> QED BY <2>1, <2>2, <3>1, SlotFacts, SlotVoxelFacts, LeafAllOnFacts, LeafRange, UnionVoxelFacts
  <2>3. CASE ~x.on
    <3>1. SlotUnion(e, f) = Child(LeafTopology(m, x.value))
      BY <2>3, EntryFacts DEF SlotUnion, Masked
    <3> QED BY <2>1, <2>3, <3>1, SlotFacts, SlotVoxelFacts, LeafRange, UnionVoxelFacts
  <2> QED BY <2>2, <2>3
<1>4. CASE \E x \in Voxel, y \in Voxel: e = Tile(x) /\ f = Tile(y)
  <2> PICK x \in Voxel, y \in Voxel: e = Tile(x) /\ f = Tile(y)  BY <1>4
  <2>1. SlotUnion(e, f) = Tile(UnionVoxel(x, y))
    BY EntryFacts DEF SlotUnion, Masked, UnionVoxel
  <2> QED BY <2>1, SlotFacts, SlotVoxelFacts, UnionVoxelFacts
<1> QED BY <1>1, <1>2, <1>3, <1>4, SlotShapes

-----------------------------------------------------------------------------
(* Nodes and trees: their types and their voxels.                          *)

\* Reading an internal node.
LEMMA NodeFacts ==
  ASSUME NEW n \in Internal, NEW s \in Slots
  PROVE  /\ n[s] \in SlotEntry
         /\ \A o \in Offs: /\ InternalProbe(n, s, o) = SlotVoxel(n[s], o)
                           /\ InternalProbe(n, s, o) \in Voxel
BY ProbeFacts DEF Internal

\* The parts of a tree.
LEMMA TableFacts ==
  ASSUME NEW t \in Tree
  PROVE  /\ t.background \in Values
         /\ \A k \in Keys: t.table[k] \in RootEntry
         /\ t = [background |-> t.background, table |-> t.table]
BY DEF Tree

\* The three forms of a root entry, with witnesses.
LEMMA RootShapes ==
  \A e \in RootEntry:
    \/ e = Absent
    \/ \E n \in Internal: e = Child(n)
    \/ \E x \in Voxel: e = Tile(x)
BY RootFacts

\* What each form of root entry gives.
LEMMA EntryVoxelFacts ==
  /\ \A n, bg, s, o: EntryVoxel(Child(n), bg, s, o) = InternalProbe(n, s, o)
  /\ \A x, bg, s, o: EntryVoxel(Tile(x), bg, s, o) = x
  /\ \A bg, s, o: EntryVoxel(Absent, bg, s, o) = Off(bg)
BY EntryFacts DEF EntryVoxel

\* Every root entry gives a voxel at every coordinate under it.
LEMMA EntryVoxelType ==
  ASSUME NEW e \in RootEntry, NEW bg \in Values, NEW s \in Slots, NEW o \in Offs
  PROVE  EntryVoxel(e, bg, s, o) \in Voxel
BY RootShapes, EntryVoxelFacts, NodeFacts, VoxelFacts

\* A coordinate is a path of key, slot and offset.
LEMMA CoordFacts ==
  \A c \in Coords: c[1] \in Keys /\ c[2] \in Slots /\ c[3] \in Offs /\ c = <<c[1], c[2], c[3]>>
BY DEF Coords

\* Reading a tree is reading the entry of the coordinate's key.
LEMMA ProbeEntry ==
  ASSUME NEW t \in Tree, NEW c \in Coords
  PROVE  /\ Probe(t, c) = EntryVoxel(t.table[c[1]], t.background, c[2], c[3])
         /\ Probe(t, c) \in Voxel
<1>1. t.table[c[1]] \in RootEntry /\ t.background \in Values  BY TableFacts, CoordFacts
<1>2. Probe(t, c) = EntryVoxel(t.table[c[1]], t.background, c[2], c[3])
  BY <1>1, RootFacts, EntryFacts DEF Probe, EntryVoxel, Solid
<1> QED BY <1>1, <1>2, EntryVoxelType, CoordFacts

\* A tree with another table.
LEMMA WithTableFacts ==
  ASSUME NEW t \in Tree, NEW table \in [Keys -> RootEntry]
  PROVE  /\ WithTable(t, table) \in Tree
         /\ WithTable(t, table).background = t.background
         /\ WithTable(t, table).table = table
         /\ \A c \in Coords:
              Probe(WithTable(t, table), c)
                = EntryVoxel(table[c[1]], t.background, c[2], c[3])
<1>1. /\ WithTable(t, table) \in Tree
      /\ WithTable(t, table).background = t.background
      /\ WithTable(t, table).table = table
  BY TableFacts DEF WithTable, Tree
<1> QED BY <1>1, ProbeEntry

\* A tree with one entry replaced: no other key's voxels change.
LEMMA WithKeyFacts ==
  ASSUME NEW t \in Tree, NEW k \in Keys, NEW e \in RootEntry
  PROVE  /\ WithKey(t, k, e) \in Tree
         /\ WithKey(t, k, e).background = t.background
         /\ \A j \in Keys: WithKey(t, k, e).table[j] = IF j = k THEN e ELSE t.table[j]
         /\ \A c \in Coords:
              Probe(WithKey(t, k, e), c)
                = IF c[1] = k THEN EntryVoxel(e, t.background, c[2], c[3]) ELSE Probe(t, c)
<1> DEFINE table == [t.table EXCEPT ![k] = e]
<1>1. table \in [Keys -> RootEntry] /\ \A j \in Keys: table[j] = IF j = k THEN e ELSE t.table[j]
  BY TableFacts DEF Tree
<1>2. WithKey(t, k, e) = WithTable(t, table)  BY DEF WithKey
<1> HIDE DEF table
<1> QED BY <1>1, <1>2, WithTableFacts, ProbeEntry, CoordFacts

\* An internal node with one slot replaced: no other slot's voxels change.
LEMMA SlotExceptFacts ==
  \A n \in Internal, s \in Slots, e \in SlotEntry: \A m:
    m = [n EXCEPT ![s] = e] =>
      /\ m \in Internal
      /\ \A r \in Slots, o \in Offs:
           InternalProbe(m, r, o) = IF r = s THEN SlotVoxel(e, o) ELSE InternalProbe(n, r, o)
<1> SUFFICES ASSUME NEW n \in Internal, NEW s \in Slots, NEW e \in SlotEntry, NEW m
             PROVE  m = [n EXCEPT ![s] = e] =>
      /\ m \in Internal
      /\ \A r \in Slots, o \in Offs:
           InternalProbe(m, r, o) = IF r = s THEN SlotVoxel(e, o) ELSE InternalProbe(n, r, o)
  OBVIOUS
<1>1. m = [n EXCEPT ![s] = e] => m \in Internal /\ \A r \in Slots: m[r] = IF r = s THEN e ELSE n[r]
  BY DEF Internal
<1>2. m \in Internal /\ (\A r \in Slots: m[r] = IF r = s THEN e ELSE n[r]) =>
        \A r \in Slots, o \in Offs:
           InternalProbe(m, r, o) = IF r = s THEN SlotVoxel(e, o) ELSE InternalProbe(n, r, o)
  BY NodeFacts
<1> QED BY <1>1, <1>2

\* An internal node whose slots all hold one tile.
LEMMA FullInternalFacts ==
  ASSUME NEW x \in Voxel
  PROVE  /\ FullInternal(x) \in Internal
         /\ \A s \in Slots: FullInternal(x)[s] = Tile(x)
         /\ \A s \in Slots, o \in Offs: InternalProbe(FullInternal(x), s, o) = x
<1>1. FullInternal(x) \in Internal /\ \A s \in Slots: FullInternal(x)[s] = Tile(x)
  BY SlotFacts DEF FullInternal, Internal
<1> QED BY <1>1, NodeFacts, SlotVoxelFacts

\* The entry of the table under which a branch is opened.
LEMMA SolidFacts ==
  ASSUME NEW t \in Tree, NEW k \in Keys
  PROVE  /\ Solid(t, k) \in RootEntry
         /\ IsTile(Solid(t, k)) <=> ~IsChild(t.table[k])
         /\ IsChild(Solid(t, k)) => Solid(t, k) = t.table[k]
         /\ \A bg: \A s \in Slots, o \in Offs:
              EntryVoxel(Solid(t, k), bg, s, o) = EntryVoxel(t.table[k], t.background, s, o)
<1>1. t.table[k] \in RootEntry /\ t.background \in Values  BY TableFacts
<1>2. CASE t.table[k] = Absent
  <2>1. Solid(t, k) = Tile(Off(t.background)) /\ Off(t.background) \in Voxel
    BY <1>1, <1>2, VoxelFacts DEF Solid
  <2>2. \A s, o, bg: EntryVoxel(Solid(t, k), bg, s, o) = Off(t.background)
    BY <2>1, EntryFacts DEF EntryVoxel
  <2>3. \A s, o: EntryVoxel(t.table[k], t.background, s, o) = Off(t.background)
    BY <1>2, EntryVoxelFacts
  <2>4. IsTile(Solid(t, k)) /\ ~IsChild(Solid(t, k)) /\ ~IsChild(t.table[k])
    BY <1>2, <2>1, EntryFacts
  <2>5. Solid(t, k) \in RootEntry  BY <2>1, RootFacts
  <2> QED BY <2>2, <2>3, <2>4, <2>5
<1>3. CASE t.table[k] # Absent
  <2>1. Solid(t, k) = t.table[k]  BY <1>3 DEF Solid
  <2>2. IsTile(t.table[k]) <=> ~IsChild(t.table[k])  BY <1>1, <1>3, RootFacts
  <2>3. \A s, o, bg: EntryVoxel(t.table[k], bg, s, o)
                       = EntryVoxel(t.table[k], t.background, s, o)
    BY <2>2 DEF EntryVoxel
  <2> QED BY <1>1, <2>1, <2>2, <2>3
<1> QED BY <1>2, <1>3

\* The node put in place of a root tile, or of no entry, reads as they did.
LEMMA OpenKeyFacts ==
  ASSUME NEW t \in Tree, NEW k \in Keys
  PROVE  /\ OpenKey(t, k) \in Internal
         /\ \A s \in Slots, o \in Offs:
              InternalProbe(OpenKey(t, k), s, o) = EntryVoxel(t.table[k], t.background, s, o)
<1>1. t.table[k] \in RootEntry /\ t.background \in Values  BY TableFacts
<1>2. CASE IsChild(t.table[k])
  <2>1. PICK n \in Internal: t.table[k] = Child(n)  BY <1>1, <1>2, RootFacts
  <2>2. OpenKey(t, k) = n  BY <1>2, <2>1, EntryFacts DEF OpenKey
  <2>3. \A s, o: EntryVoxel(t.table[k], t.background, s, o) = InternalProbe(n, s, o)
    BY <2>1, EntryFacts DEF EntryVoxel
  <2> QED BY <2>2, <2>3
<1>3. CASE ~IsChild(t.table[k])
  <2>1. PICK x \in Voxel: Solid(t, k) = Tile(x)  BY <1>3, SolidFacts, RootFacts
  <2>2. OpenKey(t, k) = FullInternal(x)  BY <1>3, <2>1, EntryFacts DEF OpenKey
  <2> QED BY <2>1, <2>2, FullInternalFacts, SolidFacts, EntryVoxelFacts
<1> QED BY <1>2, <1>3

-----------------------------------------------------------------------------
(* Writes.                                                                 *)

\* A write in an internal node changes one voxel, wherever the tiles are.
LEMMA InternalWriteFacts ==
  ASSUME NEW n \in Internal, NEW s \in Slots, NEW o \in Offs, NEW w \in [Voxel -> Voxel]
  PROVE  /\ InternalWrite(n, s, o, w) \in Internal
         /\ \A r \in Slots, p \in Offs:
              InternalProbe(InternalWrite(n, s, o, w), r, p)
                = IF r = s /\ p = o THEN w[InternalProbe(n, s, o)] ELSE InternalProbe(n, r, p)
<1> DEFINE e == Child(LeafWrite(OpenSlot(n[s]), o, w))
<1>1. n[s] \in SlotEntry  BY NodeFacts
<1>2. OpenSlot(n[s]) \in Leaf /\ \A p \in Offs: OpenSlot(n[s])[p] = InternalProbe(n, s, p)
  BY <1>1, OpenSlotFacts, NodeFacts
<1>3. /\ e \in SlotEntry
      /\ \A p \in Offs: SlotVoxel(e, p)
           = IF p = o THEN w[InternalProbe(n, s, o)] ELSE InternalProbe(n, s, p)
  BY <1>2, LeafWriteFacts, SlotFacts, SlotVoxelFacts
<1>4. CASE IsTile(n[s]) /\ w[n[s].voxel] = n[s].voxel
  <2>1. InternalWrite(n, s, o, w) = n  BY <1>4 DEF InternalWrite
  <2>2. InternalProbe(n, s, o) = n[s].voxel  BY <1>1, <1>4, SlotFacts DEF InternalProbe
  <2> QED BY <1>4, <2>1, <2>2
<1>5. CASE ~(IsTile(n[s]) /\ w[n[s].voxel] = n[s].voxel)
  <2>1. InternalWrite(n, s, o, w) = [n EXCEPT ![s] = e]  BY <1>5 DEF InternalWrite
  <2> HIDE DEF e
  <2>3. \A m: m = [n EXCEPT ![s] = e] =>
          /\ m \in Internal
          /\ \A r \in Slots, p \in Offs:
               InternalProbe(m, r, p)
                 = IF r = s THEN SlotVoxel(e, p) ELSE InternalProbe(n, r, p)
    BY <1>3, SlotExceptFacts
  <2>2. /\ InternalWrite(n, s, o, w) \in Internal
        /\ \A r \in Slots, p \in Offs:
             InternalProbe(InternalWrite(n, s, o, w), r, p)
               = IF r = s THEN SlotVoxel(e, p) ELSE InternalProbe(n, r, p)
    BY <2>1, <2>3
  <2> QED BY <1>3, <2>2
<1> QED BY <1>4, <1>5

\* A write that opens the entry of its key changes one voxel.
LEMMA WriteKeyFacts ==
  ASSUME NEW t \in Tree, NEW c \in Coords, NEW w \in [Voxel -> Voxel]
  PROVE  LET u == WithKey(t, c[1], Child(InternalWrite(OpenKey(t, c[1]), c[2], c[3], w)))
         IN /\ u \in Tree
            /\ u.background = t.background
            /\ \A d \in Coords: Probe(u, d) = IF d = c THEN w[Probe(t, c)] ELSE Probe(t, d)
<1> DEFINE n == InternalWrite(OpenKey(t, c[1]), c[2], c[3], w)
           u == WithKey(t, c[1], Child(n))
<1>1. c[1] \in Keys /\ c[2] \in Slots /\ c[3] \in Offs  BY CoordFacts
<1>2. /\ OpenKey(t, c[1]) \in Internal
      /\ \A s \in Slots, o \in Offs:
           InternalProbe(OpenKey(t, c[1]), s, o) = EntryVoxel(t.table[c[1]], t.background, s, o)
  BY <1>1, OpenKeyFacts
<1>3. /\ n \in Internal
      /\ \A s \in Slots, o \in Offs:
           InternalProbe(n, s, o)
             = IF s = c[2] /\ o = c[3] THEN w[EntryVoxel(t.table[c[1]], t.background, s, o)]
               ELSE EntryVoxel(t.table[c[1]], t.background, s, o)
  BY <1>1, <1>2, InternalWriteFacts
<1> HIDE DEF n
<1>4. Child(n) \in RootEntry  BY <1>3, RootFacts
<1>5. u \in Tree /\ u.background = t.background  BY <1>1, <1>4, WithKeyFacts
<1>6. ASSUME NEW d \in Coords
      PROVE  Probe(u, d) = IF d = c THEN w[Probe(t, c)] ELSE Probe(t, d)
  <2>1. d[1] \in Keys /\ d[2] \in Slots /\ d[3] \in Offs /\ d = <<d[1], d[2], d[3]>>
        /\ c = <<c[1], c[2], c[3]>>
    BY CoordFacts
  <2>2. CASE d[1] = c[1]
    <3>1. Probe(u, d) = InternalProbe(n, d[2], d[3])
      <4>1. Probe(u, d) = EntryVoxel(Child(n), t.background, d[2], d[3])
        BY <1>1, <1>4, <2>2, WithKeyFacts
      <4> QED BY <4>1, EntryVoxelFacts
    <3>2. Probe(t, d) = EntryVoxel(t.table[c[1]], t.background, d[2], d[3])
      BY <2>2, ProbeEntry
    <3>3. d = c <=> d[2] = c[2] /\ d[3] = c[3]  BY <2>1, <2>2
    <3> QED BY <1>3, <2>1, <3>1, <3>2, <3>3
  <2>3. CASE d[1] # c[1]
    BY <1>1, <1>4, <2>3, WithKeyFacts
  <2> QED BY <2>2, <2>3
<1> QED BY <1>5, <1>6 DEF n

\* What a write that finds its voxel unchanged leaves.
LEMMA TileKept ==
  ASSUME NEW t \in Tree, NEW c \in Coords, NEW w \in [Voxel -> Voxel],
         ~IsChild(t.table[c[1]]), w[Solid(t, c[1]).voxel] = Solid(t, c[1]).voxel
  PROVE  w[Probe(t, c)] = Probe(t, c)
<1>1. Probe(t, c) = Solid(t, c[1]).voxel  BY DEF Probe
<1> QED BY <1>1

\* setValue(), setValueOff(), setActiveState(), ...: one voxel changes.
LEMMA RootWriteFacts ==
  ASSUME NEW t \in Tree, NEW c \in Coords, NEW w \in [Voxel -> Voxel],
         NEW u \in {RootWriteOff(t, c, w), RootWriteOn(t, c, w)}
  PROVE  /\ u \in Tree
         /\ u.background = t.background
         /\ \A d \in Coords: Probe(u, d) = IF d = c THEN w[Probe(t, c)] ELSE Probe(t, d)
<1>1. CASE u = WithKey(t, c[1], Child(InternalWrite(OpenKey(t, c[1]), c[2], c[3], w)))
  BY <1>1, WriteKeyFacts
<1>2. CASE u = t /\ ~IsChild(t.table[c[1]]) /\ w[Solid(t, c[1]).voxel] = Solid(t, c[1]).voxel
  BY <1>2, TileKept
<1>3. IsTile(t.table[c[1]]) => Solid(t, c[1]) = t.table[c[1]] /\ ~IsChild(t.table[c[1]])
  BY TableFacts, CoordFacts, RootFacts DEF Solid
<1> QED BY <1>1, <1>2, <1>3 DEF RootWriteOff, RootWriteOn

-----------------------------------------------------------------------------
(* Filling.                                                                *)

\* The part of a region under a key, and under a slot.
LEMMA RegionFacts ==
  /\ \A s \in Slots: \A q: /\ InSlot(q, s) \subseteq Offs
                        /\ \A o \in Offs: o \in InSlot(q, s) <=> <<s, o>> \in q
  /\ \A part: \A k: /\ InKey(part, k) \subseteq Slots \X Offs
                 /\ \A s \in Slots, o \in Offs: <<s, o>> \in InKey(part, k) <=> <<k, s, o>> \in part
<1>1. \A s \in Slots: \A q: /\ InSlot(q, s) \subseteq Offs
                         /\ \A o \in Offs: o \in InSlot(q, s) <=> <<s, o>> \in q
  BY DEF InSlot
<1>2. \A part: \A k:
        /\ InKey(part, k) \subseteq Slots \X Offs
        /\ \A s \in Slots, o \in Offs: <<s, o>> \in InKey(part, k) <=> <<k, s, o>> \in part
  BY DEF InKey
<1> QED BY <1>1, <1>2

\* InternalNode::fill(): the region and nothing else.
LEMMA InternalFillFacts ==
  ASSUME NEW n \in Internal, NEW q, NEW x \in Voxel
  PROVE  /\ InternalFill(n, q, x) \in Internal
         /\ \A s \in Slots, o \in Offs:
              InternalProbe(InternalFill(n, q, x), s, o)
                = IF <<s, o>> \in q THEN x ELSE InternalProbe(n, s, o)
<1> DEFINE g == InternalFill(n, q, x)
<1>1. ASSUME NEW s \in Slots
      PROVE  /\ g[s] \in SlotEntry
             /\ \A o \in Offs: SlotVoxel(g[s], o)
                                 = IF <<s, o>> \in q THEN x ELSE InternalProbe(n, s, o)
  <2>0. /\ InSlot(q, s) \subseteq Offs /\ (\A o \in Offs: o \in InSlot(q, s) <=> <<s, o>> \in q)
    BY RegionFacts
  <2>9. n[s] \in SlotEntry /\ (\A o \in Offs: InternalProbe(n, s, o) = SlotVoxel(n[s], o))
    BY NodeFacts
  <2>1. CASE InSlot(q, s) = {}
    <3>1. g[s] = n[s]  BY <2>1 DEF InternalFill
    <3> QED BY <2>0, <2>9, <2>1, <3>1
  <2>2. CASE InSlot(q, s) # {} /\ InSlot(q, s) = Offs
    <3>1. g[s] = Tile(x)  BY <2>2 DEF InternalFill
    <3> QED BY <2>0, <2>9, <2>2, <3>1, SlotFacts, SlotVoxelFacts
  <2>3. CASE InSlot(q, s) # {} /\ InSlot(q, s) # Offs
    <3>1. g[s] = Child(LeafFill(OpenSlot(n[s]), InSlot(q, s), x))  BY <2>3 DEF InternalFill
    <3>2. OpenSlot(n[s]) \in Leaf /\ \A o \in Offs: OpenSlot(n[s])[o] = SlotVoxel(n[s], o)
      BY <2>0, <2>9, OpenSlotFacts
    <3>3. /\ LeafFill(OpenSlot(n[s]), InSlot(q, s), x) \in Leaf
          /\ \A o \in Offs: LeafFill(OpenSlot(n[s]), InSlot(q, s), x)[o]
               = IF o \in InSlot(q, s) THEN x ELSE SlotVoxel(n[s], o)
      BY <3>2, LeafFillFacts
    <3> QED BY <2>0, <2>9, <3>1, <3>3, SlotFacts, SlotVoxelFacts
  <2> QED BY <2>1, <2>2, <2>3
<1>2. g = [s \in Slots |-> g[s]]  BY DEF InternalFill
<1> HIDE DEF g
<1>3. g \in Internal  BY <1>1, <1>2 DEF Internal
<1>4. \A s \in Slots, o \in Offs:
        InternalProbe(g, s, o) = IF <<s, o>> \in q THEN x ELSE InternalProbe(n, s, o)
  BY <1>1, <1>3, NodeFacts
<1> QED BY <1>3, <1>4 DEF g

\* InternalNode::denseFill(): the region and nothing else.
LEMMA InternalDenseFillFacts ==
  ASSUME NEW n \in Internal, NEW q, NEW x \in Voxel
  PROVE  /\ InternalDenseFill(n, q, x) \in Internal
         /\ \A s \in Slots, o \in Offs:
              InternalProbe(InternalDenseFill(n, q, x), s, o)
                = IF <<s, o>> \in q THEN x ELSE InternalProbe(n, s, o)
<1> DEFINE g == InternalDenseFill(n, q, x)
<1>1. ASSUME NEW s \in Slots
      PROVE  /\ g[s] \in SlotEntry
             /\ \A o \in Offs: SlotVoxel(g[s], o)
                                 = IF <<s, o>> \in q THEN x ELSE InternalProbe(n, s, o)
  <2>0. /\ InSlot(q, s) \subseteq Offs /\ (\A o \in Offs: o \in InSlot(q, s) <=> <<s, o>> \in q)
    BY RegionFacts
  <2>9. n[s] \in SlotEntry /\ (\A o \in Offs: InternalProbe(n, s, o) = SlotVoxel(n[s], o))
    BY NodeFacts
  <2>1. CASE InSlot(q, s) = {}
    <3>1. g[s] = n[s]  BY <2>1 DEF InternalDenseFill
    <3> QED BY <2>0, <2>9, <2>1, <3>1
  <2>2. CASE InSlot(q, s) # {}
    <3>1. g[s] = Child(LeafFill(OpenSlot(n[s]), InSlot(q, s), x))  BY <2>2 DEF InternalDenseFill
    <3>2. OpenSlot(n[s]) \in Leaf /\ \A o \in Offs: OpenSlot(n[s])[o] = SlotVoxel(n[s], o)
      BY <2>0, <2>9, OpenSlotFacts
    <3>3. /\ LeafFill(OpenSlot(n[s]), InSlot(q, s), x) \in Leaf
          /\ \A o \in Offs: LeafFill(OpenSlot(n[s]), InSlot(q, s), x)[o]
               = IF o \in InSlot(q, s) THEN x ELSE SlotVoxel(n[s], o)
      BY <3>2, LeafFillFacts
    <3> QED BY <2>0, <2>9, <3>1, <3>3, SlotFacts, SlotVoxelFacts
  <2> QED BY <2>1, <2>2
<1>2. g = [s \in Slots |-> g[s]]  BY DEF InternalDenseFill
<1> HIDE DEF g
<1>3. g \in Internal  BY <1>1, <1>2 DEF Internal
<1>4. \A s \in Slots, o \in Offs:
        InternalProbe(g, s, o) = IF <<s, o>> \in q THEN x ELSE InternalProbe(n, s, o)
  BY <1>1, <1>3, NodeFacts
<1> QED BY <1>3, <1>4 DEF g

\* A tree is given by the entries of its table.
LEMMA TableBuilt ==
  ASSUME NEW t \in Tree, NEW table, table = [k \in Keys |-> table[k]],
         \A k \in Keys: table[k] \in RootEntry
  PROVE  /\ WithTable(t, table) \in Tree
         /\ WithTable(t, table).background = t.background
         /\ \A c \in Coords:
              Probe(WithTable(t, table), c)
                = EntryVoxel(table[c[1]], t.background, c[2], c[3])
<1>1. table \in [Keys -> RootEntry]  OBVIOUS
<1> QED BY <1>1, WithTableFacts

\* Tree::fill() rewrites the region and nothing else.
LEMMA RootFillFacts ==
  ASSUME NEW t \in Tree, NEW part \in SUBSET Coords, NEW x \in Voxel
  PROVE  /\ RootFill(t, part, x) \in Tree
         /\ RootFill(t, part, x).background = t.background
         /\ \A c \in Coords: Probe(RootFill(t, part, x), c) = IF c \in part THEN x ELSE Probe(t, c)
<1> DEFINE g == [k \in Keys |->
    CASE InKey(part, k) = {} -> t.table[k]
      [] InKey(part, k) # {} /\ InKey(part, k) = Slots \X Offs -> Tile(x)
      [] OTHER -> Child(InternalFill(OpenKey(t, k), InKey(part, k), x))]
<1>0. RootFill(t, part, x) = WithTable(t, g) /\ g = [k \in Keys |-> g[k]]  BY DEF RootFill
<1>1. ASSUME NEW k \in Keys
      PROVE  /\ g[k] \in RootEntry
             /\ \A s \in Slots, o \in Offs:
                  EntryVoxel(g[k], t.background, s, o)
                    = IF <<k, s, o>> \in part THEN x
                      ELSE EntryVoxel(t.table[k], t.background, s, o)
  <2>0. /\ InKey(part, k) \subseteq Slots \X Offs
        /\ \A s \in Slots, o \in Offs: <<s, o>> \in InKey(part, k) <=> <<k, s, o>> \in part
    BY RegionFacts
  <2>1. CASE InKey(part, k) = {}
    <3>1. g[k] = t.table[k]  BY <2>1
    <3> HIDE DEF g
    <3> QED BY <2>0, <2>1, <3>1, TableFacts
  <2>2. CASE InKey(part, k) # {} /\ InKey(part, k) = Slots \X Offs
    <3>1. g[k] = Tile(x)  BY <2>2
    <3> HIDE DEF g
    <3>2. \A s \in Slots, o \in Offs: EntryVoxel(g[k], t.background, s, o) = x
      BY <3>1, EntryVoxelFacts
    <3> QED BY <2>0, <2>2, <3>1, <3>2, RootFacts
  <2>3. CASE InKey(part, k) # {} /\ InKey(part, k) # Slots \X Offs
    <3> DEFINE n == InternalFill(OpenKey(t, k), InKey(part, k), x)
    <3>1. g[k] = Child(n)  BY <2>3
    <3> HIDE DEF g
    <3>2. /\ n \in Internal
          /\ \A s \in Slots, o \in Offs:
               InternalProbe(n, s, o) = IF <<s, o>> \in InKey(part, k) THEN x
                                        ELSE InternalProbe(OpenKey(t, k), s, o)
      BY OpenKeyFacts, InternalFillFacts
    <3>3. \A s \in Slots, o \in Offs: EntryVoxel(g[k], t.background, s, o) = InternalProbe(n, s, o)
      BY <3>1, EntryVoxelFacts
    <3>4. g[k] \in RootEntry  BY <3>1, <3>2, RootFacts
    <3>5. \A s \in Slots, o \in Offs:
            InternalProbe(OpenKey(t, k), s, o) = EntryVoxel(t.table[k], t.background, s, o)
      BY OpenKeyFacts
    <3> HIDE DEF n
    <3>6. ASSUME NEW s \in Slots, NEW o \in Offs
          PROVE  EntryVoxel(g[k], t.background, s, o)
                    = IF <<k, s, o>> \in part THEN x
                      ELSE EntryVoxel(t.table[k], t.background, s, o)
      <4>1. EntryVoxel(g[k], t.background, s, o)
              = IF <<s, o>> \in InKey(part, k) THEN x ELSE InternalProbe(OpenKey(t, k), s, o)
        BY <3>2, <3>3
      <4>2. InternalProbe(OpenKey(t, k), s, o) = EntryVoxel(t.table[k], t.background, s, o)
        BY <3>5
      <4>3. <<s, o>> \in InKey(part, k) <=> <<k, s, o>> \in part  BY <2>0
      <4> QED BY <4>1, <4>2, <4>3
    <3> QED BY <3>4, <3>6
  <2> QED BY <2>1, <2>2, <2>3
<1> HIDE DEF g
<1>2. WithTable(t, g) \in Tree /\ WithTable(t, g).background = t.background
      /\ \A c \in Coords: Probe(WithTable(t, g), c)
                            = EntryVoxel(g[c[1]], t.background, c[2], c[3])
  BY <1>0, <1>1, TableBuilt
<1> QED BY <1>0, <1>1, <1>2, ProbeEntry, CoordFacts

\* Voxelizing an internal node changes no voxel.
LEMMA InternalVoxelizeFacts ==
  ASSUME NEW n \in Internal
  PROVE  /\ InternalVoxelize(n) \in Internal
         /\ \A s \in Slots, o \in Offs:
              InternalProbe(InternalVoxelize(n), s, o) = InternalProbe(n, s, o)
<1> DEFINE g == InternalVoxelize(n)
<1>1. ASSUME NEW s \in Slots
      PROVE  /\ g[s] \in SlotEntry
             /\ \A o \in Offs: SlotVoxel(g[s], o) = InternalProbe(n, s, o)
  <2>1. n[s] \in SlotEntry /\ \A o \in Offs: InternalProbe(n, s, o) = SlotVoxel(n[s], o)
    BY NodeFacts
  <2>2. CASE OnTile(n[s])
    <3>1. PICK x \in Voxel: n[s] = Tile(x)  BY <2>1, <2>2, SlotShapes, EntryFacts
    <3>2. g[s] = Child(FullLeaf(x))  BY <2>2, <3>1, EntryFacts DEF InternalVoxelize
    <3> QED BY <2>1, <3>1, <3>2, FullLeafFacts, SlotFacts, SlotVoxelFacts
  <2>3. CASE ~OnTile(n[s])
    <3>1. g[s] = n[s]  BY <2>3 DEF InternalVoxelize
    <3> QED BY <2>1, <3>1
  <2> QED BY <2>2, <2>3
<1>2. g = [s \in Slots |-> g[s]]  BY DEF InternalVoxelize
<1> HIDE DEF g
<1>3. g \in Internal  BY <1>1, <1>2 DEF Internal
<1>4. \A s \in Slots, o \in Offs: InternalProbe(g, s, o) = InternalProbe(n, s, o)
  BY <1>1, <1>3, NodeFacts
<1> QED BY <1>3, <1>4 DEF g

\* A node in place of a table entry.
LEMMA EntryNode ==
  ASSUME NEW n \in Internal, NEW e, e = Child(n), NEW bg
  PROVE  /\ e \in RootEntry
         /\ \A s \in Slots, o \in Offs: EntryVoxel(e, bg, s, o) = InternalProbe(n, s, o)
<1>1. e \in RootEntry  BY RootFacts
<1>2. \A s, o: EntryVoxel(e, bg, s, o) = InternalProbe(n, s, o)  BY EntryVoxelFacts
<1> QED BY <1>1, <1>2

\* voxelizeActiveTiles() changes no voxel.
LEMMA RootVoxelizeFacts ==
  ASSUME NEW t \in Tree
  PROVE  /\ RootVoxelize(t) \in Tree
         /\ RootVoxelize(t).background = t.background
         /\ \A c \in Coords: Probe(RootVoxelize(t), c) = Probe(t, c)
<1> DEFINE g == [k \in Keys |->
    IF IsChild(t.table[k]) \/ OnTile(t.table[k])
    THEN Child(InternalVoxelize(OpenKey(t, k))) ELSE t.table[k]]
<1>0. RootVoxelize(t) = WithTable(t, g) /\ g = [k \in Keys |-> g[k]]  BY DEF RootVoxelize
<1>1. ASSUME NEW k \in Keys
      PROVE  /\ g[k] \in RootEntry
             /\ \A s \in Slots, o \in Offs:
                  EntryVoxel(g[k], t.background, s, o)
                    = EntryVoxel(t.table[k], t.background, s, o)
  <2>1. CASE IsChild(t.table[k]) \/ OnTile(t.table[k])
    <3> DEFINE n == InternalVoxelize(OpenKey(t, k))
    <3>1. g[k] = Child(n)  BY <2>1
    <3> HIDE DEF g
    <3>2. /\ n \in Internal
          /\ \A s \in Slots, o \in Offs: InternalProbe(n, s, o) = InternalProbe(OpenKey(t, k), s, o)
      BY OpenKeyFacts, InternalVoxelizeFacts
    <3> HIDE DEF n
    <3>3. /\ g[k] \in RootEntry
          /\ \A s \in Slots, o \in Offs: EntryVoxel(g[k], t.background, s, o) = InternalProbe(n, s, o)
      BY <3>1, <3>2, EntryNode
    <3> QED BY <3>2, <3>3, OpenKeyFacts
  <2>2. CASE ~(IsChild(t.table[k]) \/ OnTile(t.table[k]))
    <3>1. g[k] = t.table[k]  BY <2>2
    <3> HIDE DEF g
    <3> QED BY <3>1, TableFacts
  <2> QED BY <2>1, <2>2
<1> HIDE DEF g
<1>2. WithTable(t, g) \in Tree /\ WithTable(t, g).background = t.background
      /\ \A c \in Coords: Probe(WithTable(t, g), c)
                            = EntryVoxel(g[c[1]], t.background, c[2], c[3])
  BY <1>0, <1>1, TableBuilt
<1> QED BY <1>0, <1>1, <1>2, ProbeEntry, CoordFacts

\* Tree::denseFill() rewrites the region and nothing else, also by its short cut.
LEMMA RootDenseFillFacts ==
  ASSUME NEW t \in Tree, NEW part \in SUBSET Coords, NEW x \in Voxel
  PROVE  /\ RootDenseFill(t, part, x) \in Tree
         /\ RootDenseFill(t, part, x).background = t.background
         /\ \A c \in Coords: Probe(RootDenseFill(t, part, x), c)
                               = IF c \in part THEN x ELSE Probe(t, c)
<1> DEFINE g == [k \in Keys |->
         IF InKey(part, k) = {} THEN t.table[k]
         ELSE Child(InternalDenseFill(OpenKey(t, k), InKey(part, k), x))]
<1>0. g = [k \in Keys |-> g[k]]  OBVIOUS
<1>1. ASSUME NEW k \in Keys
      PROVE  /\ g[k] \in RootEntry
             /\ \A s \in Slots, o \in Offs:
                  EntryVoxel(g[k], t.background, s, o)
                    = IF <<k, s, o>> \in part THEN x
                      ELSE EntryVoxel(t.table[k], t.background, s, o)
  <2>0. \A s \in Slots, o \in Offs: <<s, o>> \in InKey(part, k) <=> <<k, s, o>> \in part
    BY RegionFacts
  <2>1. CASE InKey(part, k) = {}
    <3>1. g[k] = t.table[k]  BY <2>1
    <3> HIDE DEF g
    <3> QED BY <2>0, <2>1, <3>1, TableFacts
  <2>3. CASE InKey(part, k) # {}
    <3> DEFINE n == InternalDenseFill(OpenKey(t, k), InKey(part, k), x)
    <3>1. g[k] = Child(n)  BY <2>3
    <3> HIDE DEF g
    <3>2. /\ n \in Internal
          /\ \A s \in Slots, o \in Offs:
               InternalProbe(n, s, o) = IF <<s, o>> \in InKey(part, k) THEN x
                                        ELSE InternalProbe(OpenKey(t, k), s, o)
      BY OpenKeyFacts, InternalDenseFillFacts
    <3> HIDE DEF n
    <3>3. /\ g[k] \in RootEntry
          /\ \A s \in Slots, o \in Offs: EntryVoxel(g[k], t.background, s, o) = InternalProbe(n, s, o)
      BY <3>1, <3>2, EntryNode
    <3>5. \A s \in Slots, o \in Offs:
            InternalProbe(OpenKey(t, k), s, o) = EntryVoxel(t.table[k], t.background, s, o)
      BY OpenKeyFacts
    <3>6. ASSUME NEW s \in Slots, NEW o \in Offs
          PROVE  EntryVoxel(g[k], t.background, s, o)
                    = IF <<k, s, o>> \in part THEN x
                      ELSE EntryVoxel(t.table[k], t.background, s, o)
      <4>1. EntryVoxel(g[k], t.background, s, o)
              = IF <<s, o>> \in InKey(part, k) THEN x ELSE InternalProbe(OpenKey(t, k), s, o)
        BY <3>2, <3>3
      <4>2. InternalProbe(OpenKey(t, k), s, o) = EntryVoxel(t.table[k], t.background, s, o)
        BY <3>5
      <4>3. <<s, o>> \in InKey(part, k) <=> <<k, s, o>> \in part  BY <2>0
      <4> QED BY <4>1, <4>2, <4>3
    <3> QED BY <3>3, <3>6
  <2> QED BY <2>1, <2>3
<1> HIDE DEF g
<1>2. WithTable(t, g) \in Tree /\ WithTable(t, g).background = t.background
      /\ \A c \in Coords: Probe(WithTable(t, g), c)
                            = EntryVoxel(g[c[1]], t.background, c[2], c[3])
  BY <1>0, <1>1, TableBuilt
<1>3. CASE x.on /\ \A k \in Keys: t.table[k] = Absent
  <2>1. RootDenseFill(t, part, x) = RootVoxelize(RootFill(t, part, x))
    BY <1>3 DEF RootDenseFill
  <2> DEFINE u == RootFill(t, part, x)
  <2>2. /\ u \in Tree /\ u.background = t.background
        /\ \A c \in Coords: Probe(u, c) = IF c \in part THEN x ELSE Probe(t, c)
    BY RootFillFacts
  <2> HIDE DEF u
  <2>3. /\ RootVoxelize(u) \in Tree /\ RootVoxelize(u).background = u.background
        /\ \A c \in Coords: Probe(RootVoxelize(u), c) = Probe(u, c)
    BY <2>2, RootVoxelizeFacts
  <2> QED BY <2>1, <2>2, <2>3 DEF u
<1>4. CASE ~(x.on /\ \A k \in Keys: t.table[k] = Absent)
  <2>1. RootDenseFill(t, part, x) = WithTable(t, g)
    BY <1>4 DEF RootDenseFill, g
  <2> QED BY <1>1, <1>2, <2>1, ProbeEntry, CoordFacts
<1> QED BY <1>3, <1>4

-----------------------------------------------------------------------------
(* Pruning and clipping.                                                   *)

\* A node is given by its slots.
LEMMA NodeBuilt ==
  ASSUME NEW g, g = [s \in Slots |-> g[s]], \A s \in Slots: g[s] \in SlotEntry
  PROVE  /\ g \in Internal
         /\ \A s \in Slots, o \in Offs: InternalProbe(g, s, o) = SlotVoxel(g[s], o)
<1>1. g \in Internal  BY DEF Internal
<1> QED BY <1>1, NodeFacts

\* The voxel a constant node is pruned to is the voxel it holds.
LEMMA ConstantFacts ==
  /\ \A l: ConstantLeaf(l) =>
       /\ (CHOOSE x \in Voxel: l = FullLeaf(x)) \in Voxel
       /\ l = FullLeaf(CHOOSE x \in Voxel: l = FullLeaf(x))
  /\ \A n: ConstantInternal(n) =>
       /\ (CHOOSE x \in Voxel: n = FullInternal(x)) \in Voxel
       /\ n = FullInternal(CHOOSE x \in Voxel: n = FullInternal(x))
BY Zenon DEF ConstantLeaf, ConstantInternal

\* Pruning an internal node changes no voxel and leaves no constant leaf.
LEMMA InternalPruneFacts ==
  ASSUME NEW n \in Internal
  PROVE  /\ InternalPrune(n) \in Internal
         /\ \A s \in Slots, o \in Offs:
              InternalProbe(InternalPrune(n), s, o) = InternalProbe(n, s, o)
         /\ \A s \in Slots:
              IsChild(InternalPrune(n)[s]) => ~ConstantLeaf(InternalPrune(n)[s].node)
<1> DEFINE g == InternalPrune(n)
<1>1. ASSUME NEW s \in Slots
      PROVE  /\ g[s] \in SlotEntry
             /\ \A o \in Offs: SlotVoxel(g[s], o) = InternalProbe(n, s, o)
             /\ IsChild(g[s]) => ~ConstantLeaf(g[s].node)
  <2>1. n[s] \in SlotEntry /\ \A o \in Offs: InternalProbe(n, s, o) = SlotVoxel(n[s], o)
    BY NodeFacts
  <2>2. CASE IsChild(n[s]) /\ ConstantLeaf(n[s].node)
    <3>1. PICK x \in Voxel: n[s].node = FullLeaf(x) /\ g[s] = Tile(x)
      <4> DEFINE x == CHOOSE x \in Voxel: n[s].node = FullLeaf(x)
      <4>1. x \in Voxel /\ n[s].node = FullLeaf(x)  BY <2>2, ConstantFacts
      <4>2. g[s] = Tile(x)  BY <2>2 DEF InternalPrune
      <4> HIDE DEF x
      <4> QED BY <4>1, <4>2
    <3>2. n[s] = Child(FullLeaf(x))  BY <2>1, <2>2, <3>1, SlotFacts
    <3> QED BY <2>1, <3>1, <3>2, FullLeafFacts, SlotFacts, SlotVoxelFacts, EntryFacts
  <2>3. CASE ~(IsChild(n[s]) /\ ConstantLeaf(n[s].node))
    <3>1. g[s] = n[s]  BY <2>3 DEF InternalPrune
    <3> QED BY <2>1, <2>3, <3>1
  <2> QED BY <2>2, <2>3
<1>2. g = [s \in Slots |-> g[s]]  BY DEF InternalPrune
<1> HIDE DEF g
<1>3. /\ g \in Internal
      /\ \A s \in Slots, o \in Offs: InternalProbe(g, s, o) = SlotVoxel(g[s], o)
  BY <1>1, <1>2, NodeBuilt
<1> QED BY <1>1, <1>3 DEF g

\* Pruning a root entry changes no voxel and leaves no constant node.
LEMMA PruneEntryFacts ==
  ASSUME NEW e \in RootEntry
  PROVE  /\ PruneEntry(e) \in RootEntry
         /\ \A bg: \A s \in Slots, o \in Offs:
              EntryVoxel(PruneEntry(e), bg, s, o) = EntryVoxel(e, bg, s, o)
         /\ IsChild(PruneEntry(e)) =>
              /\ ~ConstantInternal(PruneEntry(e).node)
              /\ \A s \in Slots: IsChild(PruneEntry(e).node[s])
                                   => ~ConstantLeaf(PruneEntry(e).node[s].node)
<1>1. CASE IsChild(e)
  <2>1. PICK n \in Internal: e = Child(n)  BY <1>1, RootFacts
  <2> DEFINE p == InternalPrune(n)
  <2>2. /\ p \in Internal
        /\ \A s \in Slots, o \in Offs: InternalProbe(p, s, o) = InternalProbe(n, s, o)
        /\ \A s \in Slots: IsChild(p[s]) => ~ConstantLeaf(p[s].node)
    BY InternalPruneFacts
  <2>3. e.node = n  BY <2>1, EntryFacts
  <2>4. \A bg, s, o: EntryVoxel(e, bg, s, o) = InternalProbe(n, s, o)
    BY <2>1, EntryVoxelFacts
  <2>5. CASE ConstantInternal(p)
    <3> DEFINE x == CHOOSE x \in Voxel: p = FullInternal(x)
    <3>1. x \in Voxel /\ p = FullInternal(x)  BY <2>5, ConstantFacts
    <3>2. PruneEntry(e) = Tile(x)  BY <1>1, <2>3, <2>5 DEF PruneEntry
    <3> HIDE DEF x, p
    <3>3. \A s \in Slots, o \in Offs: InternalProbe(n, s, o) = x
      BY <2>2, <3>1, FullInternalFacts
    <3>4. \A bg, s, o: EntryVoxel(PruneEntry(e), bg, s, o) = x
      BY <3>2, EntryVoxelFacts
    <3> QED BY <2>4, <3>1, <3>2, <3>3, <3>4, RootFacts, EntryFacts
  <2>6. CASE ~ConstantInternal(p)
    <3>1. PruneEntry(e) = Child(p)  BY <1>1, <2>3, <2>6 DEF PruneEntry
    <3> HIDE DEF p
    <3>2. \A bg, s, o: EntryVoxel(PruneEntry(e), bg, s, o) = InternalProbe(p, s, o)
      BY <3>1, EntryVoxelFacts
    <3>3. PruneEntry(e) \in RootEntry /\ PruneEntry(e).node = p
      BY <2>2, <3>1, RootFacts, EntryFacts
    <3> QED BY <2>2, <2>4, <2>6, <3>2, <3>3
  <2> QED BY <2>5, <2>6
<1>2. CASE ~IsChild(e)
  <2>1. PruneEntry(e) = e  BY <1>2 DEF PruneEntry
  <2> QED BY <1>2, <2>1
<1> QED BY <1>1, <1>2

\* prune() changes no voxel, leaves no constant node and no background tile.
LEMMA RootPruneFacts ==
  ASSUME NEW t \in Tree
  PROVE  /\ RootPrune(t) \in Tree
         /\ RootPrune(t).background = t.background
         /\ \A c \in Coords: Probe(RootPrune(t), c) = Probe(t, c)
         /\ \A k \in Keys:
              /\ RootPrune(t).table[k] # Tile(Off(t.background))
              /\ IsChild(RootPrune(t).table[k]) =>
                   /\ ~ConstantInternal(RootPrune(t).table[k].node)
                   /\ \A s \in Slots: IsChild(RootPrune(t).table[k].node[s])
                                   => ~ConstantLeaf(RootPrune(t).table[k].node[s].node)
<1> DEFINE g == [k \in Keys |->
    IF PruneEntry(t.table[k]) = Tile(Off(t.background))
    THEN Absent ELSE PruneEntry(t.table[k])]
<1>0. RootPrune(t) = WithTable(t, g) /\ g = [k \in Keys |-> g[k]]  BY DEF RootPrune
<1>1. ASSUME NEW k \in Keys
      PROVE  /\ g[k] \in RootEntry
             /\ \A s \in Slots, o \in Offs:
                  EntryVoxel(g[k], t.background, s, o)
                    = EntryVoxel(t.table[k], t.background, s, o)
             /\ g[k] # Tile(Off(t.background))
             /\ IsChild(g[k]) =>
                   /\ ~ConstantInternal(g[k].node)
                   /\ \A s \in Slots: IsChild(g[k].node[s]) => ~ConstantLeaf(g[k].node[s].node)
  <2>0. t.table[k] \in RootEntry  BY TableFacts
  <2>1. CASE PruneEntry(t.table[k]) = Tile(Off(t.background))
    <3>1. g[k] = Absent  BY <2>1
    <3> HIDE DEF g
    <3>2. \A s, o: EntryVoxel(g[k], t.background, s, o) = Off(t.background)
      BY <3>1, EntryVoxelFacts
    <3>3. \A s, o: EntryVoxel(PruneEntry(t.table[k]), t.background, s, o) = Off(t.background)
      BY <2>1, EntryVoxelFacts
    <3>4. \A s \in Slots, o \in Offs: EntryVoxel(PruneEntry(t.table[k]), t.background, s, o)
                                        = EntryVoxel(t.table[k], t.background, s, o)
      BY <2>0, PruneEntryFacts
    <3>5. g[k] \in RootEntry /\ ~IsChild(g[k]) /\ g[k] # Tile(Off(t.background))
      BY <3>1, RootFacts, EntryFacts
    <3> QED BY <3>2, <3>3, <3>4, <3>5
  <2>2. CASE PruneEntry(t.table[k]) # Tile(Off(t.background))
    <3>1. g[k] = PruneEntry(t.table[k])  BY <2>2
    <3> HIDE DEF g
    <3> QED BY <2>0, <2>2, <3>1, PruneEntryFacts
  <2> QED BY <2>1, <2>2
<1> HIDE DEF g
<1>2. WithTable(t, g) \in Tree /\ WithTable(t, g).background = t.background
      /\ \A c \in Coords: Probe(WithTable(t, g), c)
                            = EntryVoxel(g[c[1]], t.background, c[2], c[3])
  BY <1>0, <1>1, TableBuilt
<1>3. WithTable(t, g).table = g  BY DEF WithTable
<1>4. \A c \in Coords: Probe(RootPrune(t), c) = Probe(t, c)
  BY <1>0, <1>1, <1>2, ProbeEntry, CoordFacts
<1> QED BY <1>0, <1>1, <1>2, <1>3, <1>4

\* Clipping a slot.
LEMMA SlotClipFacts ==
  ASSUME NEW e \in SlotEntry, NEW os \in SUBSET Offs, NEW bg \in Values
  PROVE  /\ SlotClip(e, os, bg) \in SlotEntry
         /\ \A o \in Offs: SlotVoxel(SlotClip(e, os, bg), o)
                             = IF o \in os THEN SlotVoxel(e, o) ELSE Off(bg)
<1>0. Off(bg) \in Voxel  BY VoxelFacts
<1>1. CASE os = {}
  <2>1. SlotClip(e, os, bg) = Tile(Off(bg))  BY <1>1 DEF SlotClip
  <2> QED BY <1>0, <1>1, <2>1, SlotFacts, SlotVoxelFacts
<1>2. CASE os # {} /\ os = Offs
  <2>1. SlotClip(e, os, bg) = e  BY <1>2 DEF SlotClip
  <2> QED BY <1>2, <2>1
<1>3. CASE os # {} /\ os # Offs
  <2>1. CASE \E l \in Leaf: e = Child(l)
    <3>1. PICK l \in Leaf: e = Child(l)  BY <2>1
    <3>2. SlotClip(e, os, bg) = Child(LeafClip(l, os, bg))
      BY <1>3, <3>1, EntryFacts DEF SlotClip
    <3> QED BY <3>1, <3>2, LeafClipFacts, SlotFacts, SlotVoxelFacts
  <2>2. CASE \E x \in Voxel: e = Tile(x)
    <3>1. PICK x \in Voxel: e = Tile(x)  BY <2>2
    <3>2. SlotClip(e, os, bg) = Child(LeafFill(FullLeaf(Off(bg)), os, x))
      BY <1>3, <3>1, EntryFacts DEF SlotClip
    <3>3. FullLeaf(Off(bg)) \in Leaf /\ \A o \in Offs: FullLeaf(Off(bg))[o] = Off(bg)
      BY <1>0, FullLeafFacts
    <3>4. /\ LeafFill(FullLeaf(Off(bg)), os, x) \in Leaf
          /\ \A o \in Offs: LeafFill(FullLeaf(Off(bg)), os, x)[o]
               = IF o \in os THEN x ELSE Off(bg)
      BY <3>3, LeafFillFacts
    <3> QED BY <3>1, <3>2, <3>4, SlotFacts, SlotVoxelFacts
  <2> QED BY <2>1, <2>2, SlotShapes
<1> QED BY <1>1, <1>2, <1>3

\* Clipping an internal node.
LEMMA InternalClipFacts ==
  ASSUME NEW n \in Internal, NEW q, NEW bg \in Values
  PROVE  /\ InternalClip(n, q, bg) \in Internal
         /\ \A s \in Slots, o \in Offs:
              InternalProbe(InternalClip(n, q, bg), s, o)
                = IF <<s, o>> \in q THEN InternalProbe(n, s, o) ELSE Off(bg)
<1> DEFINE g == InternalClip(n, q, bg)
<1>1. ASSUME NEW s \in Slots
      PROVE  /\ g[s] \in SlotEntry
             /\ \A o \in Offs: SlotVoxel(g[s], o)
                  = IF <<s, o>> \in q THEN InternalProbe(n, s, o) ELSE Off(bg)
  <2>1. /\ InSlot(q, s) \in SUBSET Offs
        /\ \A o \in Offs: o \in InSlot(q, s) <=> <<s, o>> \in q
    BY RegionFacts
  <2>2. n[s] \in SlotEntry /\ \A o \in Offs: InternalProbe(n, s, o) = SlotVoxel(n[s], o)
    BY NodeFacts
  <2>3. g[s] = SlotClip(n[s], InSlot(q, s), bg)  BY DEF InternalClip
  <2> HIDE DEF g
  <2>4. /\ g[s] \in SlotEntry
        /\ \A o \in Offs: SlotVoxel(g[s], o)
             = IF o \in InSlot(q, s) THEN SlotVoxel(n[s], o) ELSE Off(bg)
    BY <2>1, <2>2, <2>3, SlotClipFacts
  <2> QED BY <2>1, <2>2, <2>4
<1>2. g = [s \in Slots |-> g[s]]  BY DEF InternalClip
<1> HIDE DEF g
<1>3. /\ g \in Internal
      /\ \A s \in Slots, o \in Offs: InternalProbe(g, s, o) = SlotVoxel(g[s], o)
  BY <1>1, <1>2, NodeBuilt
<1> QED BY <1>1, <1>3 DEF g

\* Clipping a root entry.
LEMMA EntryClipFacts ==
  ASSUME NEW e \in RootEntry, NEW q \in SUBSET (Slots \X Offs), NEW bg \in Values
  PROVE  /\ EntryClip(e, q, bg) \in RootEntry
         /\ \A s \in Slots, o \in Offs:
              EntryVoxel(EntryClip(e, q, bg), bg, s, o)
                = IF <<s, o>> \in q THEN EntryVoxel(e, bg, s, o) ELSE Off(bg)
<1>0. Off(bg) \in Voxel  BY VoxelFacts
<1>1. CASE q = {}
  <2>1. EntryClip(e, q, bg) = Absent  BY <1>1 DEF EntryClip
  <2> QED BY <1>1, <2>1, RootFacts, EntryVoxelFacts
<1>2. CASE q # {} /\ (q = Slots \X Offs \/ e = Absent)
  <2>1. EntryClip(e, q, bg) = e  BY <1>2 DEF EntryClip
  <2>2. e = Absent => \A s, o: EntryVoxel(e, bg, s, o) = Off(bg)  BY EntryVoxelFacts
  <2> QED BY <1>2, <2>1, <2>2
<1>3. CASE q # {} /\ q # Slots \X Offs /\ e # Absent
  <2>1. CASE \E n \in Internal: e = Child(n)
    <3>1. PICK n \in Internal: e = Child(n)  BY <2>1
    <3> DEFINE m == InternalClip(n, q, bg)
    <3>2. EntryClip(e, q, bg) = Child(m)
      BY <1>3, <3>1, EntryFacts DEF EntryClip
    <3>3. /\ m \in Internal
          /\ \A s \in Slots, o \in Offs:
               InternalProbe(m, s, o) = IF <<s, o>> \in q THEN InternalProbe(n, s, o) ELSE Off(bg)
      BY InternalClipFacts
    <3> HIDE DEF m
    <3>4. \A s, o: /\ EntryVoxel(EntryClip(e, q, bg), bg, s, o) = InternalProbe(m, s, o)
                   /\ EntryVoxel(e, bg, s, o) = InternalProbe(n, s, o)
      BY <3>1, <3>2, EntryVoxelFacts
    <3> QED BY <3>2, <3>3, <3>4, RootFacts
  <2>2. CASE \E x \in Voxel: e = Tile(x)
    <3>1. PICK x \in Voxel: e = Tile(x)  BY <2>2
    <3> DEFINE m == InternalFill(FullInternal(Off(bg)), q, x)
    <3>2. EntryClip(e, q, bg) = Child(m)
      BY <1>3, <3>1, EntryFacts DEF EntryClip
    <3>3. /\ FullInternal(Off(bg)) \in Internal
          /\ \A s \in Slots, o \in Offs: InternalProbe(FullInternal(Off(bg)), s, o) = Off(bg)
      BY <1>0, FullInternalFacts
    <3>5. /\ m \in Internal
          /\ \A s \in Slots, o \in Offs:
               InternalProbe(m, s, o) = IF <<s, o>> \in q THEN x ELSE Off(bg)
      BY <3>3, InternalFillFacts
    <3> HIDE DEF m
    <3>4. \A s, o: /\ EntryVoxel(EntryClip(e, q, bg), bg, s, o) = InternalProbe(m, s, o)
                   /\ EntryVoxel(e, bg, s, o) = x
      BY <3>1, <3>2, EntryVoxelFacts
    <3> QED BY <3>2, <3>5, <3>4, RootFacts
  <2> QED BY <1>3, <2>1, <2>2, RootShapes
<1> QED BY <1>1, <1>2, <1>3

\* clip() makes background of all that lies outside the region.
LEMMA RootClipFacts ==
  ASSUME NEW t \in Tree, NEW part \in SUBSET Coords
  PROVE  /\ RootClip(t, part) \in Tree
         /\ RootClip(t, part).background = t.background
         /\ \A c \in Coords: Probe(RootClip(t, part), c)
                               = IF c \in part THEN Probe(t, c) ELSE Off(t.background)
<1> DEFINE g == [k \in Keys |-> EntryClip(t.table[k], InKey(part, k), t.background)]
           u == WithTable(t, g)
<1>0. RootClip(t, part) = RootPrune(u) /\ g = [k \in Keys |-> g[k]]  BY DEF RootClip
<1>1. ASSUME NEW k \in Keys
      PROVE  /\ g[k] \in RootEntry
             /\ \A s \in Slots, o \in Offs:
                  EntryVoxel(g[k], t.background, s, o)
                    = IF <<k, s, o>> \in part THEN EntryVoxel(t.table[k], t.background, s, o)
                      ELSE Off(t.background)
  <2>1. /\ InKey(part, k) \in SUBSET (Slots \X Offs)
        /\ \A s \in Slots, o \in Offs: <<s, o>> \in InKey(part, k) <=> <<k, s, o>> \in part
    BY RegionFacts
  <2>2. g[k] = EntryClip(t.table[k], InKey(part, k), t.background)  OBVIOUS
  <2> HIDE DEF g
  <2>3. /\ g[k] \in RootEntry
        /\ \A s \in Slots, o \in Offs:
                  EntryVoxel(g[k], t.background, s, o)
                    = IF <<s, o>> \in InKey(part, k)
                      THEN EntryVoxel(t.table[k], t.background, s, o)
                      ELSE Off(t.background)
    BY <2>1, <2>2, TableFacts, EntryClipFacts
  <2> QED BY <2>1, <2>3
<1> HIDE DEF g
<1>2. u \in Tree /\ u.background = t.background
      /\ \A c \in Coords: Probe(u, c) = EntryVoxel(g[c[1]], t.background, c[2], c[3])
  BY <1>0, <1>1, TableBuilt
<1> HIDE DEF u
<1>3. /\ RootPrune(u) \in Tree /\ RootPrune(u).background = u.background
      /\ \A c \in Coords: Probe(RootPrune(u), c) = Probe(u, c)
  BY <1>2, RootPruneFacts
<1> QED BY <1>0, <1>1, <1>2, <1>3, ProbeEntry, CoordFacts

-----------------------------------------------------------------------------
(* Adding and taking nodes and tiles; the background.                      *)

\* touchLeaf() changes no voxel.
LEMMA TouchLeafFacts ==
  ASSUME NEW t \in Tree, NEW c \in Coords
  PROVE  /\ RootTouchLeaf(t, c) \in Tree
         /\ RootTouchLeaf(t, c).background = t.background
         /\ \A d \in Coords: Probe(RootTouchLeaf(t, c), d) = Probe(t, d)
<1> DEFINE n == OpenKey(t, c[1])
           e == Child(OpenSlot(n[c[2]]))
           m == InternalTouchLeaf(n, c[2])
<1>0. c[1] \in Keys /\ c[2] \in Slots /\ c[3] \in Offs  BY CoordFacts
<1>1. /\ n \in Internal
      /\ \A s \in Slots, o \in Offs:
           InternalProbe(n, s, o) = EntryVoxel(t.table[c[1]], t.background, s, o)
  BY <1>0, OpenKeyFacts
<1>2. m = [n EXCEPT ![c[2]] = e]  BY DEF InternalTouchLeaf
<1>3. RootTouchLeaf(t, c) = WithKey(t, c[1], Child(m))  BY DEF RootTouchLeaf
<1> HIDE DEF n
<1>4. e \in SlotEntry /\ \A o \in Offs: SlotVoxel(e, o) = InternalProbe(n, c[2], o)
  BY <1>0, <1>1, NodeFacts, OpenSlotFacts, SlotFacts, SlotVoxelFacts
<1> HIDE DEF e, m
<1>5. /\ m \in Internal
      /\ \A s \in Slots, o \in Offs:
           InternalProbe(m, s, o) = IF s = c[2] THEN SlotVoxel(e, o) ELSE InternalProbe(n, s, o)
  <2>1. \A w: w = [n EXCEPT ![c[2]] = e] =>
          /\ w \in Internal
          /\ \A s \in Slots, o \in Offs:
               InternalProbe(w, s, o) = IF s = c[2] THEN SlotVoxel(e, o) ELSE InternalProbe(n, s, o)
    BY <1>0, <1>1, <1>4, SlotExceptFacts
  <2> QED BY <1>2, <2>1
<1>6. \A s \in Slots, o \in Offs:
        InternalProbe(m, s, o) = EntryVoxel(t.table[c[1]], t.background, s, o)
  BY <1>1, <1>4, <1>5
<1>7. Child(m) \in RootEntry /\ \A bg, s, o: EntryVoxel(Child(m), bg, s, o) = InternalProbe(m, s, o)
  BY <1>5, RootFacts, EntryVoxelFacts
<1>8. /\ WithKey(t, c[1], Child(m)) \in Tree
      /\ WithKey(t, c[1], Child(m)).background = t.background
      /\ \A d \in Coords: Probe(WithKey(t, c[1], Child(m)), d)
           = IF d[1] = c[1] THEN EntryVoxel(Child(m), t.background, d[2], d[3]) ELSE Probe(t, d)
  BY <1>0, <1>7, WithKeyFacts
<1>9. ASSUME NEW d \in Coords PROVE Probe(WithKey(t, c[1], Child(m)), d) = Probe(t, d)
  BY <1>6, <1>7, <1>8, ProbeEntry, CoordFacts
<1> QED BY <1>3, <1>8, <1>9

\* A tree with an internal node put at a key.
LEMMA WithNodeFacts ==
  ASSUME NEW t \in Tree, NEW k \in Keys, NEW m \in Internal
  PROVE  /\ WithKey(t, k, Child(m)) \in Tree
         /\ WithKey(t, k, Child(m)).background = t.background
         /\ \A d \in Coords: Probe(WithKey(t, k, Child(m)), d)
              = IF d[1] = k THEN InternalProbe(m, d[2], d[3]) ELSE Probe(t, d)
<1>1. Child(m) \in RootEntry /\ \A bg, s, o: EntryVoxel(Child(m), bg, s, o) = InternalProbe(m, s, o)
  BY RootFacts, EntryVoxelFacts
<1>2. /\ WithKey(t, k, Child(m)) \in Tree
      /\ WithKey(t, k, Child(m)).background = t.background
      /\ \A d \in Coords: Probe(WithKey(t, k, Child(m)), d)
           = IF d[1] = k THEN EntryVoxel(Child(m), t.background, d[2], d[3]) ELSE Probe(t, d)
  BY <1>1, WithKeyFacts
<1> QED BY <1>1, <1>2

\* A tree with a tile put at a key.
LEMMA WithTileFacts ==
  ASSUME NEW t \in Tree, NEW k \in Keys, NEW x \in Voxel
  PROVE  /\ WithKey(t, k, Tile(x)) \in Tree
         /\ WithKey(t, k, Tile(x)).background = t.background
         /\ \A d \in Coords: Probe(WithKey(t, k, Tile(x)), d) = IF d[1] = k THEN x ELSE Probe(t, d)
<1>1. Tile(x) \in RootEntry /\ \A bg, s, o: EntryVoxel(Tile(x), bg, s, o) = x
  BY RootFacts, EntryVoxelFacts
<1>2. /\ WithKey(t, k, Tile(x)) \in Tree
      /\ WithKey(t, k, Tile(x)).background = t.background
      /\ \A d \in Coords: Probe(WithKey(t, k, Tile(x)), d)
           = IF d[1] = k THEN EntryVoxel(Tile(x), t.background, d[2], d[3]) ELSE Probe(t, d)
  BY <1>1, WithKeyFacts
<1> QED BY <1>1, <1>2

\* One slot of a branch, which is opened if need be, is replaced.
LEMMA WithSlotFacts ==
  ASSUME NEW t \in Tree, NEW c \in Coords, NEW e \in SlotEntry, NEW u,
         u = WithKey(t, c[1], Child([OpenKey(t, c[1]) EXCEPT ![c[2]] = e]))
  PROVE  /\ u \in Tree
         /\ u.background = t.background
         /\ \A d \in Coords: Probe(u, d)
              = IF d[1] = c[1] /\ d[2] = c[2] THEN SlotVoxel(e, d[3]) ELSE Probe(t, d)
<1> DEFINE n == OpenKey(t, c[1])
           m == [n EXCEPT ![c[2]] = e]
<1>0. c[1] \in Keys /\ c[2] \in Slots /\ c[3] \in Offs  BY CoordFacts
<1>1. /\ n \in Internal
      /\ \A s \in Slots, o \in Offs:
           InternalProbe(n, s, o) = EntryVoxel(t.table[c[1]], t.background, s, o)
  BY <1>0, OpenKeyFacts
<1>3. u = WithKey(t, c[1], Child(m))  OBVIOUS
<1> HIDE DEF n
<1>5. /\ m \in Internal
      /\ \A s \in Slots, o \in Offs:
           InternalProbe(m, s, o) = IF s = c[2] THEN SlotVoxel(e, o) ELSE InternalProbe(n, s, o)
  <2>1. \A w: w = [n EXCEPT ![c[2]] = e] =>
          /\ w \in Internal
          /\ \A s \in Slots, o \in Offs:
               InternalProbe(w, s, o) = IF s = c[2] THEN SlotVoxel(e, o) ELSE InternalProbe(n, s, o)
    BY <1>0, <1>1, SlotExceptFacts
  <2> QED BY <2>1
<1> HIDE DEF m
<1>6. /\ u \in Tree /\ u.background = t.background
      /\ \A d \in Coords: Probe(u, d)
           = IF d[1] = c[1] THEN InternalProbe(m, d[2], d[3]) ELSE Probe(t, d)
  BY <1>0, <1>3, <1>5, WithNodeFacts
<1>7. ASSUME NEW d \in Coords
      PROVE  Probe(u, d) = IF d[1] = c[1] /\ d[2] = c[2] THEN SlotVoxel(e, d[3]) ELSE Probe(t, d)
  BY <1>1, <1>5, <1>6, ProbeEntry, CoordFacts
<1> QED BY <1>6, <1>7

\* addLeaf() replaces the voxels of its leaf's box.
LEMMA AddLeafFacts ==
  ASSUME NEW t \in Tree, NEW c \in Coords, NEW l \in Leaf
  PROVE  /\ RootAddLeaf(t, c, l) \in Tree
         /\ RootAddLeaf(t, c, l).background = t.background
         /\ \A d \in Coords: Probe(RootAddLeaf(t, c, l), d)
              = IF d \in Extent(1, c) THEN l[d[3]] ELSE Probe(t, d)
<1>1. RootAddLeaf(t, c, l) = WithKey(t, c[1], Child([OpenKey(t, c[1]) EXCEPT ![c[2]] = Child(l)]))
  BY DEF RootAddLeaf, InternalAddLeaf
<1>2. Child(l) \in SlotEntry /\ \A o: SlotVoxel(Child(l), o) = l[o]
  BY SlotFacts, SlotVoxelFacts
<1>3. /\ RootAddLeaf(t, c, l) \in Tree
      /\ RootAddLeaf(t, c, l).background = t.background
      /\ \A d \in Coords: Probe(RootAddLeaf(t, c, l), d)
           = IF d[1] = c[1] /\ d[2] = c[2] THEN SlotVoxel(Child(l), d[3]) ELSE Probe(t, d)
  BY <1>1, <1>2, WithSlotFacts
<1>4. \A d \in Coords: d \in Extent(1, c) <=> d[1] = c[1] /\ d[2] = c[2]
  BY DEF Extent
<1> QED BY <1>2, <1>3, <1>4

\* RootNode::addChild() replaces the voxels under its key.
LEMMA AddChildFacts ==
  ASSUME NEW t \in Tree, NEW c \in Coords, NEW n \in Internal
  PROVE  /\ RootAddChild(t, c[1], n) \in Tree
         /\ RootAddChild(t, c[1], n).background = t.background
         /\ \A d \in Coords: Probe(RootAddChild(t, c[1], n), d)
              = IF d \in Extent(2, c) THEN InternalProbe(n, d[2], d[3]) ELSE Probe(t, d)
<1>1. \A d \in Coords: d \in Extent(2, c) <=> d[1] = c[1]
  BY DEF Extent
<1> QED BY <1>1, WithNodeFacts, CoordFacts DEF RootAddChild

\* addTile() fills the box of its level.
LEMMA AddTileFacts ==
  ASSUME NEW t \in Tree, NEW level \in 0..2, NEW c \in Coords, NEW x \in Voxel
  PROVE  /\ RootAddTile(t, level, c, x) \in Tree
         /\ RootAddTile(t, level, c, x).background = t.background
         /\ \A d \in Coords: Probe(RootAddTile(t, level, c, x), d)
              = IF d \in Extent(level, c) THEN x ELSE Probe(t, d)
<1> DEFINE u == RootAddTile(t, level, c, x)
<1>0. c[1] \in Keys /\ c[2] \in Slots /\ c[3] \in Offs  BY CoordFacts
<1>1. CASE level = 2
  <2>1. u = WithKey(t, c[1], Tile(x))  BY <1>1 DEF RootAddTile
  <2>2. \A d \in Coords: d \in Extent(level, c) <=> d[1] = c[1]  BY <1>1 DEF Extent
  <2> QED BY <1>0, <2>1, <2>2, WithTileFacts
<1>2. CASE level = 1
  <2>1. u = WithKey(t, c[1], Child([OpenKey(t, c[1]) EXCEPT ![c[2]] = Tile(x)]))
    BY <1>2 DEF RootAddTile, InternalAddTile
  <2> HIDE DEF u
  <2>2. \A d \in Coords: d \in Extent(level, c) <=> d[1] = c[1] /\ d[2] = c[2]
    BY <1>2 DEF Extent
  <2>3. Tile(x) \in SlotEntry /\ \A o: SlotVoxel(Tile(x), o) = x
    BY SlotFacts, SlotVoxelFacts
  <2>4. /\ u \in Tree
        /\ u.background = t.background
        /\ \A d \in Coords: Probe(u, d)
             = IF d[1] = c[1] /\ d[2] = c[2] THEN SlotVoxel(Tile(x), d[3]) ELSE Probe(t, d)
    BY <2>1, <2>3, WithSlotFacts
  <2> QED BY <2>2, <2>3, <2>4 DEF u
<1>3. CASE level = 0
  <2> DEFINE n == OpenKey(t, c[1])
             l == [OpenSlot(n[c[2]]) EXCEPT ![c[3]] = x]
  <2>1. u = WithKey(t, c[1], Child([n EXCEPT ![c[2]] = Child(l)]))
    BY <1>3 DEF RootAddTile, InternalAddTile
  <2>2. \A d \in Coords: d \in Extent(level, c) <=> d = c
    BY <1>3, CoordFacts DEF Extent
  <2>3. /\ n \in Internal
        /\ \A s \in Slots, o \in Offs:
             InternalProbe(n, s, o) = EntryVoxel(t.table[c[1]], t.background, s, o)
    BY <1>0, OpenKeyFacts
  <2> HIDE DEF n, u
  <2>4. /\ OpenSlot(n[c[2]]) \in Leaf
        /\ \A o \in Offs: OpenSlot(n[c[2]])[o] = EntryVoxel(t.table[c[1]], t.background, c[2], o)
    BY <1>0, <2>3, NodeFacts, OpenSlotFacts
  <2>5. /\ l \in Leaf
        /\ \A o \in Offs: l[o] = IF o = c[3] THEN x
                                 ELSE EntryVoxel(t.table[c[1]], t.background, c[2], o)
    BY <2>4 DEF Leaf
  <2> HIDE DEF l
  <2>6. Child(l) \in SlotEntry /\ \A o: SlotVoxel(Child(l), o) = l[o]
    BY <2>5, SlotFacts, SlotVoxelFacts
  <2>7. /\ u \in Tree
        /\ u.background = t.background
        /\ \A d \in Coords: Probe(u, d)
             = IF d[1] = c[1] /\ d[2] = c[2] THEN SlotVoxel(Child(l), d[3]) ELSE Probe(t, d)
    BY <2>1, <2>6, WithSlotFacts DEF n
  <2>8. ASSUME NEW d \in Coords
        PROVE  Probe(u, d) = IF d = c THEN x ELSE Probe(t, d)
    <3>1. d[3] \in Offs /\ (d = c <=> d[1] = c[1] /\ d[2] = c[2] /\ d[3] = c[3])
      BY CoordFacts
    <3>2. Probe(t, d) = EntryVoxel(t.table[d[1]], t.background, d[2], d[3])  BY ProbeEntry
    <3> QED BY <2>5, <2>6, <2>7, <3>1, <3>2
  <2> QED BY <2>2, <2>7, <2>8 DEF u
<1> QED BY <1>1, <1>2, <1>3

\* stealNode() fills the box of the node taken, or finds none.
LEMMA StealNodeFacts ==
  ASSUME NEW t \in Tree, NEW level \in 0..1, NEW c \in Coords, NEW x \in Voxel,
         NEW u, u = RootStealNode(t, level, c, x),
         NEW part, part = Extent(level + 1, c)
  PROVE  /\ u \in Tree
         /\ u.background = t.background
         /\ \/ \A d \in Coords: Probe(u, d) = Probe(t, d)
            \/ \A d \in Coords: Probe(u, d) = IF d \in part THEN x ELSE Probe(t, d)
<1>0. c[1] \in Keys /\ c[2] \in Slots /\ c[3] \in Offs  BY CoordFacts
<1>1. CASE ~IsChild(t.table[c[1]])
  BY <1>1 DEF RootStealNode
<1>2. CASE IsChild(t.table[c[1]]) /\ level = 1
  <2>1. u = WithKey(t, c[1], Tile(x))  BY <1>2 DEF RootStealNode
  <2>2. \A d \in Coords: d \in part <=> d[1] = c[1]  BY <1>2 DEF Extent
  <2> QED BY <1>0, <2>1, <2>2, WithTileFacts
<1>3. CASE IsChild(t.table[c[1]]) /\ level = 0
  <2>0. PICK n \in Internal: t.table[c[1]] = Child(n)
    BY <1>0, <1>3, TableFacts, RootFacts
  <2>1. u = WithKey(t, c[1], Child(InternalStealLeaf(n, c[2], x))) /\ OpenKey(t, c[1]) = n
    BY <1>3, <2>0, EntryFacts DEF RootStealNode, OpenKey
  <2>2. \A d \in Coords: d \in part <=> d[1] = c[1] /\ d[2] = c[2]
    BY <1>3 DEF Extent
  <2>3. CASE IsChild(n[c[2]])
    <3>1. u = WithKey(t, c[1], Child([OpenKey(t, c[1]) EXCEPT ![c[2]] = Tile(x)]))
      BY <2>1, <2>3 DEF InternalStealLeaf
    <3>2. Tile(x) \in SlotEntry /\ \A o: SlotVoxel(Tile(x), o) = x
      BY SlotFacts, SlotVoxelFacts
    <3>3. /\ u \in Tree
          /\ u.background = t.background
          /\ \A d \in Coords: Probe(u, d)
               = IF d[1] = c[1] /\ d[2] = c[2] THEN SlotVoxel(Tile(x), d[3]) ELSE Probe(t, d)
      BY <3>1, <3>2, WithSlotFacts
    <3> QED BY <2>2, <3>2, <3>3
  <2>4. CASE ~IsChild(n[c[2]])
    <3>1. u = WithKey(t, c[1], Child(n))  BY <2>1, <2>4 DEF InternalStealLeaf
    <3>2. /\ u \in Tree
          /\ u.background = t.background
          /\ \A d \in Coords: Probe(u, d)
               = IF d[1] = c[1] THEN InternalProbe(n, d[2], d[3]) ELSE Probe(t, d)
      BY <1>0, <3>1, WithNodeFacts
    <3>3. \A s, o: EntryVoxel(t.table[c[1]], t.background, s, o) = InternalProbe(n, s, o)
      BY <2>0, EntryVoxelFacts
    <3>4. \A d \in Coords: Probe(u, d) = Probe(t, d)
      BY <3>2, <3>3, ProbeEntry
    <3> QED BY <3>2, <3>4
  <2> QED BY <2>3, <2>4
<1> QED BY <1>1, <1>2, <1>3

\* stealNodes() gives each voxel the value handed over, or leaves it.
LEMMA StealNodesFacts ==
  ASSUME NEW t \in Tree, NEW level \in 0..1, NEW x \in Voxel
  PROVE  /\ RootStealNodes(t, level, x) \in Tree
         /\ RootStealNodes(t, level, x).background = t.background
         /\ \A c \in Coords: Probe(RootStealNodes(t, level, x), c) \in {Probe(t, c), x}
<1> DEFINE g == [k \in Keys |->
    CASE ~IsChild(t.table[k]) -> t.table[k]
      [] IsChild(t.table[k]) /\ level = 1 -> Tile(x)
      [] OTHER -> Child(InternalStealLeaves(t.table[k].node, x))]
<1>0. RootStealNodes(t, level, x) = WithTable(t, g) /\ g = [k \in Keys |-> g[k]]
  BY DEF RootStealNodes
<1>1. ASSUME NEW k \in Keys
      PROVE  /\ g[k] \in RootEntry
             /\ \A s \in Slots, o \in Offs:
                  EntryVoxel(g[k], t.background, s, o)
                    \in {EntryVoxel(t.table[k], t.background, s, o), x}
  <2>1. CASE ~IsChild(t.table[k])
    <3>1. g[k] = t.table[k]  BY <2>1
    <3> HIDE DEF g
    <3> QED BY <3>1, TableFacts
  <2>2. CASE IsChild(t.table[k]) /\ level = 1
    <3>1. g[k] = Tile(x)  BY <2>2
    <3> HIDE DEF g
    <3> QED BY <3>1, RootFacts, EntryVoxelFacts
  <2>3. CASE IsChild(t.table[k]) /\ level = 0
    <3>1. PICK n \in Internal: t.table[k] = Child(n)  BY <2>3, TableFacts, RootFacts
    <3> DEFINE m == InternalStealLeaves(n, x)
    <3>2. g[k] = Child(m)  BY <2>3, <3>1, EntryFacts
    <3> HIDE DEF g
    <3>3. ASSUME NEW s \in Slots
          PROVE  /\ m[s] \in SlotEntry
                 /\ \A o \in Offs: SlotVoxel(m[s], o) \in {InternalProbe(n, s, o), x}
      <4>1. n[s] \in SlotEntry /\ \A o \in Offs: InternalProbe(n, s, o) = SlotVoxel(n[s], o)
        BY NodeFacts
      <4>2. m[s] = IF IsChild(n[s]) THEN Tile(x) ELSE n[s]  BY DEF InternalStealLeaves
      <4> QED BY <4>1, <4>2, SlotFacts, SlotVoxelFacts
    <3>4. m = [s \in Slots |-> m[s]]  BY DEF InternalStealLeaves
    <3> HIDE DEF m
    <3>5. /\ m \in Internal
          /\ \A s \in Slots, o \in Offs: InternalProbe(m, s, o) = SlotVoxel(m[s], o)
      BY <3>3, <3>4, NodeBuilt
    <3>6. /\ g[k] \in RootEntry
          /\ \A s \in Slots, o \in Offs: EntryVoxel(g[k], t.background, s, o) = InternalProbe(m, s, o)
      BY <3>2, <3>5, EntryNode
    <3>7. \A s, o: EntryVoxel(t.table[k], t.background, s, o) = InternalProbe(n, s, o)
      BY <3>1, EntryVoxelFacts
    <3> QED BY <3>3, <3>5, <3>6, <3>7
  <2> QED BY <2>1, <2>2, <2>3
<1> HIDE DEF g
<1>2. WithTable(t, g) \in Tree /\ WithTable(t, g).background = t.background
      /\ \A c \in Coords: Probe(WithTable(t, g), c)
                            = EntryVoxel(g[c[1]], t.background, c[2], c[3])
  BY <1>0, <1>1, TableBuilt
<1> QED BY <1>0, <1>1, <1>2, ProbeEntry, CoordFacts

\* A tree is given by its background and the entries of its table.
LEMMA TreeBuilt ==
  ASSUME NEW bg \in Values, NEW table, table = [k \in Keys |-> table[k]],
         \A k \in Keys: table[k] \in RootEntry,
         NEW u, u = [background |-> bg, table |-> table]
  PROVE  /\ u \in Tree /\ u.background = bg /\ u.table = table
         /\ \A c \in Coords: Probe(u, c) = EntryVoxel(table[c[1]], bg, c[2], c[3])
<1>1. table \in [Keys -> RootEntry]  OBVIOUS
<1>2. u \in Tree /\ u.background = bg /\ u.table = table  BY <1>1 DEF Tree
<1> QED BY <1>2, ProbeEntry

\* InternalNode::resetBackground(), voxel by voxel.
LEMMA InternalResetFacts ==
  ASSUME NEW n \in Internal, NEW old \in Values, NEW new \in Values
  PROVE  /\ InternalReset(n, old, new) \in Internal
         /\ \A s \in Slots, o \in Offs:
              InternalProbe(InternalReset(n, old, new), s, o) = Reset(InternalProbe(n, s, o), old, new)
<1> DEFINE g == InternalReset(n, old, new)
<1>1. ASSUME NEW s \in Slots
      PROVE  /\ g[s] \in SlotEntry
             /\ \A o \in Offs: SlotVoxel(g[s], o) = Reset(InternalProbe(n, s, o), old, new)
  <2>1. n[s] \in SlotEntry /\ \A o \in Offs: InternalProbe(n, s, o) = SlotVoxel(n[s], o)
    BY NodeFacts
  <2>2. CASE \E l \in Leaf: n[s] = Child(l)
    <3>1. PICK l \in Leaf: n[s] = Child(l)  BY <2>2
    <3>2. g[s] = Child(LeafReset(l, old, new))  BY <3>1, EntryFacts DEF InternalReset
    <3> QED BY <2>1, <3>1, <3>2, LeafResetFacts, SlotFacts, SlotVoxelFacts
  <2>3. CASE \E x \in Voxel: n[s] = Tile(x)
    <3>1. PICK x \in Voxel: n[s] = Tile(x)  BY <2>3
    <3>2. g[s] = Tile(Reset(x, old, new))  BY <3>1, EntryFacts DEF InternalReset
    <3>3. Reset(x, old, new) \in Voxel  BY ResetFacts
    <3> QED BY <2>1, <3>1, <3>2, <3>3, SlotFacts, SlotVoxelFacts
  <2> QED BY <2>1, <2>2, <2>3, SlotShapes
<1>2. g = [s \in Slots |-> g[s]]  BY DEF InternalReset
<1> HIDE DEF g
<1>3. /\ g \in Internal
      /\ \A s \in Slots, o \in Offs: InternalProbe(g, s, o) = SlotVoxel(g[s], o)
  BY <1>1, <1>2, NodeBuilt
<1> QED BY <1>1, <1>3 DEF g

\* setBackground() converts every voxel under tiles and nodes alike.
LEMMA SetBackgroundFacts ==
  ASSUME NEW t \in Tree, NEW new \in Values
  PROVE  /\ RootSetBackground(t, new) \in Tree
         /\ RootSetBackground(t, new).background = new
         /\ \A c \in Coords: Probe(RootSetBackground(t, new), c)
                               = Reset(Probe(t, c), t.background, new)
<1> DEFINE g == [k \in Keys |->
     CASE IsChild(t.table[k]) -> Child(InternalReset(t.table[k].node, t.background, new))
       [] IsTile(t.table[k]) -> Tile(Reset(t.table[k].voxel, t.background, new))
       [] OTHER -> Absent]
<1>0. /\ RootSetBackground(t, new) = [background |-> new, table |-> g]
      /\ g = [k \in Keys |-> g[k]]
  BY DEF RootSetBackground
<1>1. ASSUME NEW k \in Keys
      PROVE  /\ g[k] \in RootEntry
             /\ \A s \in Slots, o \in Offs:
                  EntryVoxel(g[k], new, s, o)
                    = Reset(EntryVoxel(t.table[k], t.background, s, o), t.background, new)
  <2>0. t.background \in Values /\ t.table[k] \in RootEntry  BY TableFacts
  <2>1. CASE \E n \in Internal: t.table[k] = Child(n)
    <3>1. PICK n \in Internal: t.table[k] = Child(n)  BY <2>1
    <3> DEFINE m == InternalReset(n, t.background, new)
    <3>2. g[k] = Child(m)  BY <3>1, EntryFacts
    <3> HIDE DEF g
    <3>3. /\ m \in Internal
          /\ \A s \in Slots, o \in Offs:
               InternalProbe(m, s, o) = Reset(InternalProbe(n, s, o), t.background, new)
      BY <2>0, InternalResetFacts
    <3> HIDE DEF m
    <3>4. /\ g[k] \in RootEntry
          /\ \A s \in Slots, o \in Offs: EntryVoxel(g[k], new, s, o) = InternalProbe(m, s, o)
      BY <3>2, <3>3, EntryNode
    <3>5. \A s, o: EntryVoxel(t.table[k], t.background, s, o) = InternalProbe(n, s, o)
      BY <3>1, EntryVoxelFacts
    <3> QED BY <3>3, <3>4, <3>5
  <2>2. CASE \E x \in Voxel: t.table[k] = Tile(x)
    <3>1. PICK x \in Voxel: t.table[k] = Tile(x)  BY <2>2
    <3>2. g[k] = Tile(Reset(x, t.background, new))  BY <3>1, EntryFacts
    <3> HIDE DEF g
    <3>3. Reset(x, t.background, new) \in Voxel  BY <2>0, ResetFacts
    <3> QED BY <3>1, <3>2, <3>3, RootFacts, EntryVoxelFacts
  <2>3. CASE t.table[k] = Absent
    <3>1. g[k] = Absent  BY <2>3, EntryFacts
    <3> HIDE DEF g
    <3>2. Reset(Off(t.background), t.background, new) = Off(new)
      BY <2>0, VoxelFacts DEF Reset
    <3> QED BY <2>3, <3>1, <3>2, RootFacts, EntryVoxelFacts
  <2> QED BY <2>0, <2>1, <2>2, <2>3, RootShapes
<1> HIDE DEF g
<1>2. /\ RootSetBackground(t, new) \in Tree
      /\ RootSetBackground(t, new).background = new
      /\ \A c \in Coords: Probe(RootSetBackground(t, new), c)
                            = EntryVoxel(g[c[1]], new, c[2], c[3])
  BY <1>0, <1>1, TreeBuilt
<1> QED BY <1>0, <1>1, <1>2, ProbeEntry, CoordFacts

\* Without the update of the nodes, only unwritten voxels change.
LEMMA SetBackgroundOnlyFacts ==
  ASSUME NEW t \in Tree, NEW new \in Values, NEW u, u = [t EXCEPT !.background = new]
  PROVE  /\ u \in Tree
         /\ u.background = new
         /\ \A c \in Coords: \/ Probe(u, c) = Probe(t, c)
                             \/ Probe(t, c) = Off(t.background) /\ Probe(u, c) = Off(new)
<1>1. u \in Tree /\ u.background = new /\ u.table = t.table  BY DEF Tree
<1>2. ASSUME NEW c \in Coords
      PROVE  \/ Probe(u, c) = Probe(t, c)
             \/ Probe(t, c) = Off(t.background) /\ Probe(u, c) = Off(new)
  <2>1. /\ Probe(t, c) = EntryVoxel(t.table[c[1]], t.background, c[2], c[3])
        /\ Probe(u, c) = EntryVoxel(t.table[c[1]], new, c[2], c[3])
    BY <1>1, ProbeEntry
  <2> QED BY <2>1 DEF EntryVoxel
<1> QED BY <1>1, <1>2

\* clear() leaves background only.
LEMMA ClearFacts ==
  ASSUME NEW t \in Tree, NEW u, u = [t EXCEPT !.table = [k \in Keys |-> Absent]]
  PROVE  /\ u \in Tree
         /\ u.background = t.background
         /\ \A c \in Coords: Probe(u, c) = Off(t.background)
<1>1. /\ u \in Tree /\ u.background = t.background
      /\ \A k \in Keys: u.table[k] = Absent
  BY RootFacts DEF Tree
<1>2. ASSUME NEW c \in Coords PROVE Probe(u, c) = Off(t.background)
  <2>1. Probe(u, c) = EntryVoxel(Absent, t.background, c[2], c[3])
    BY <1>1, ProbeEntry, CoordFacts
  <2> QED BY <2>1, EntryVoxelFacts
<1> QED BY <1>1, <1>2

-----------------------------------------------------------------------------
(* The active states of another tree.                                      *)

Intersected(x, y, bg) == IF x.on /\ y.on THEN {x} ELSE {Off(x.value), Off(bg)}
Subtracted(x, y, bg) == IF x.on /\ ~y.on THEN {x} ELSE {Off(x.value), Off(bg)}

\* The outcomes intersection and difference allow.
LEMMA NarrowedFacts ==
  ASSUME NEW x \in Voxel, NEW y \in Voxel, NEW bg
  PROVE  /\ IntersectionVoxel(x, y) \in Intersected(x, y, bg)
         /\ y.on => x \in Intersected(x, y, bg)
         /\ ~y.on => Off(bg) \in Intersected(x, y, bg) /\ Off(x.value) \in Intersected(x, y, bg)
         /\ ~x.on => Off(bg) \in Intersected(x, y, bg) /\ Off(x.value) \in Intersected(x, y, bg)
                     /\ x \in Intersected(x, y, bg)
         /\ DifferenceVoxel(x, y) \in Subtracted(x, y, bg)
         /\ ~y.on => x \in Subtracted(x, y, bg)
         /\ y.on => Off(bg) \in Subtracted(x, y, bg) /\ Off(x.value) \in Subtracted(x, y, bg)
         /\ ~x.on => Off(bg) \in Subtracted(x, y, bg) /\ Off(x.value) \in Subtracted(x, y, bg)
                     /\ x \in Subtracted(x, y, bg)
<1>1. ~x.on => x = Off(x.value)  BY VoxelFacts
<1>2. /\ y.on => IntersectionVoxel(x, y) = x /\ DifferenceVoxel(x, y) = Off(x.value)
      /\ ~y.on => IntersectionVoxel(x, y) = Off(x.value) /\ DifferenceVoxel(x, y) = x
  BY IntersectionVoxelFacts, DifferenceVoxelFacts
<1> QED BY <1>1, <1>2 DEF Intersected, Subtracted

\* One slot of InternalNode::topologyIntersection(), masks included.
LEMMA SlotIntersectionFacts ==
  ASSUME NEW e \in SlotEntry, NEW f \in SlotEntry, NEW bg \in Values
  PROVE  /\ SlotIntersection(e, f, bg) \in SlotEntry
         /\ \A o \in Offs: SlotVoxel(SlotIntersection(e, f, bg), o)
                             \in Intersected(SlotVoxel(e, o), SlotVoxel(f, o), bg)
<1> DEFINE r == SlotIntersection(e, f, bg)
<1>1. CASE \E l \in Leaf, m \in Leaf: e = Child(l) /\ f = Child(m)
  <2> PICK l \in Leaf, m \in Leaf: e = Child(l) /\ f = Child(m)  BY <1>1
  <2>1. r = Child(LeafIntersection(l, m))  BY EntryFacts DEF SlotIntersection, Masked
  <2>2. /\ LeafIntersection(l, m) \in Leaf
        /\ \A o \in Offs: LeafIntersection(l, m)[o] = IntersectionVoxel(l[o], m[o])
    BY LeafIntersectionFacts
  <2> QED BY <2>1, <2>2, SlotFacts, SlotVoxelFacts, LeafRange, NarrowedFacts
<1>2. CASE \E l \in Leaf, y \in Voxel: e = Child(l) /\ f = Tile(y)
  <2> PICK l \in Leaf, y \in Voxel: e = Child(l) /\ f = Tile(y)  BY <1>2
  <2>1. CASE y.on
    <3>1. r = Child(l)  BY <2>1, EntryFacts DEF SlotIntersection, Masked
    <3> QED BY <2>1, <3>1, SlotFacts, SlotVoxelFacts, LeafRange, NarrowedFacts
  <2>2. CASE ~y.on
    <3>1. r = Tile(Off(bg))
      <4>1. r = Tile(Vox(Tile(Off(bg)).voxel.value, FALSE))
        BY <2>2, EntryFacts DEF SlotIntersection, Masked
      <4>2. Tile(Off(bg)).voxel.value = bg  BY EntryFacts, VoxelFacts
      <4> QED BY <4>1, <4>2 DEF Off
    <3>2. Off(bg) \in Voxel  BY VoxelFacts
    <3> QED BY <2>2, <3>1, <3>2, SlotFacts, SlotVoxelFacts, LeafRange, NarrowedFacts
  <2> QED BY <2>1, <2>2
<1>3. CASE \E x \in Voxel, m \in Leaf: e = Tile(x) /\ f = Child(m)
  <2> PICK x \in Voxel, m \in Leaf: e = Tile(x) /\ f = Child(m)  BY <1>3
  <2>0. x.value \in Values  BY VoxelFacts
  <2>1. CASE x.on
    <3>1. r = Child(LeafTopology(m, x.value))  BY <2>1, EntryFacts DEF SlotIntersection, Masked
    <3>2. /\ LeafTopology(m, x.value) \in Leaf
          /\ \A o \in Offs: LeafTopology(m, x.value)[o] = TopologyVoxel(x.value, m[o])
      BY <2>0, LeafTopologyFacts
    <3>3. \A o \in Offs: TopologyVoxel(x.value, m[o]) = IntersectionVoxel(x, m[o])
      BY <2>1, LeafRange, IntersectionVoxelFacts
    <3> QED BY <3>1, <3>2, <3>3, SlotFacts, SlotVoxelFacts, LeafRange, NarrowedFacts
  <2>2. CASE ~x.on
    <3>1. r = Tile(Off(x.value))  BY <2>2, EntryFacts DEF SlotIntersection, Masked, Off
    <3>2. Off(x.value) \in Voxel  BY <2>0, VoxelFacts
    <3> QED BY <2>2, <3>1, <3>2, SlotFacts, SlotVoxelFacts, LeafRange, NarrowedFacts
  <2> QED BY <2>1, <2>2
<1>4. CASE \E x \in Voxel, y \in Voxel: e = Tile(x) /\ f = Tile(y)
  <2> PICK x \in Voxel, y \in Voxel: e = Tile(x) /\ f = Tile(y)  BY <1>4
  <2>1. r = Tile(IntersectionVoxel(x, y))
    BY EntryFacts DEF SlotIntersection, Masked, IntersectionVoxel
  <2> QED BY <2>1, SlotFacts, SlotVoxelFacts, IntersectionVoxelFacts, NarrowedFacts
<1> QED BY <1>1, <1>2, <1>3, <1>4, SlotShapes

\* One slot of InternalNode::topologyDifference(), masks included.
LEMMA SlotDifferenceFacts ==
  ASSUME NEW e \in SlotEntry, NEW f \in SlotEntry, NEW bg \in Values
  PROVE  /\ SlotDifference(e, f, bg) \in SlotEntry
         /\ \A o \in Offs: SlotVoxel(SlotDifference(e, f, bg), o)
                             \in Subtracted(SlotVoxel(e, o), SlotVoxel(f, o), bg)
<1> DEFINE r == SlotDifference(e, f, bg)
<1>1. CASE \E l \in Leaf, m \in Leaf: e = Child(l) /\ f = Child(m)
  <2> PICK l \in Leaf, m \in Leaf: e = Child(l) /\ f = Child(m)  BY <1>1
  <2>1. r = Child(LeafDifference(l, m))  BY EntryFacts DEF SlotDifference, Masked
  <2>2. /\ LeafDifference(l, m) \in Leaf
        /\ \A o \in Offs: LeafDifference(l, m)[o] = DifferenceVoxel(l[o], m[o])
    BY LeafDifferenceFacts
  <2> QED BY <2>1, <2>2, SlotFacts, SlotVoxelFacts, LeafRange, NarrowedFacts
<1>2. CASE \E l \in Leaf, y \in Voxel: e = Child(l) /\ f = Tile(y)
  <2> PICK l \in Leaf, y \in Voxel: e = Child(l) /\ f = Tile(y)  BY <1>2
  <2>1. CASE ~y.on
    <3>1. r = Child(l)  BY <2>1, EntryFacts DEF SlotDifference, Masked
    <3> QED BY <2>1, <3>1, SlotFacts, SlotVoxelFacts, LeafRange, NarrowedFacts
  <2>2. CASE y.on
    <3>1. r = Tile(Off(bg))
      <4>1. r = Tile(Vox(Tile(Off(bg)).voxel.value, FALSE))
        BY <2>2, EntryFacts DEF SlotDifference, Masked
      <4>2. Tile(Off(bg)).voxel.value = bg  BY EntryFacts, VoxelFacts
      <4> QED BY <4>1, <4>2 DEF Off
    <3>2. Off(bg) \in Voxel  BY VoxelFacts
    <3> QED BY <2>2, <3>1, <3>2, SlotFacts, SlotVoxelFacts, LeafRange, NarrowedFacts
  <2> QED BY <2>1, <2>2
<1>3. CASE \E x \in Voxel, m \in Leaf: e = Tile(x) /\ f = Child(m)
  <2> PICK x \in Voxel, m \in Leaf: e = Tile(x) /\ f = Child(m)  BY <1>3
  <2>0. x.value \in Values  BY VoxelFacts
  <2>1. CASE x.on
    <3>1. r = Child(LeafDifference(FullLeaf(x), m))
      BY <2>1, EntryFacts DEF SlotDifference, Masked
    <3>2. FullLeaf(x) \in Leaf /\ \A o \in Offs: FullLeaf(x)[o] = x  BY FullLeafFacts
    <3>3. /\ LeafDifference(FullLeaf(x), m) \in Leaf
          /\ \A o \in Offs: LeafDifference(FullLeaf(x), m)[o] = DifferenceVoxel(x, m[o])
      BY <3>2, LeafDifferenceFacts
    <3> QED BY <3>1, <3>3, SlotFacts, SlotVoxelFacts, LeafRange, NarrowedFacts
  <2>2. CASE ~x.on
    <3>1. r = Tile(Off(x.value))  BY <2>2, EntryFacts DEF SlotDifference, Masked, Off
    <3>2. Off(x.value) \in Voxel  BY <2>0, VoxelFacts
    <3> QED BY <2>2, <3>1, <3>2, SlotFacts, SlotVoxelFacts, LeafRange, NarrowedFacts
  <2> QED BY <2>1, <2>2
<1>4. CASE \E x \in Voxel, y \in Voxel: e = Tile(x) /\ f = Tile(y)
  <2> PICK x \in Voxel, y \in Voxel: e = Tile(x) /\ f = Tile(y)  BY <1>4
  <2>1. r = Tile(DifferenceVoxel(x, y))
    BY EntryFacts DEF SlotDifference, Masked, DifferenceVoxel
  <2> QED BY <2>1, SlotFacts, SlotVoxelFacts, DifferenceVoxelFacts, NarrowedFacts
<1> QED BY <1>1, <1>2, <1>3, <1>4, SlotShapes

\* The topology copy of an internal node.
LEMMA InternalTopologyFacts ==
  ASSUME NEW m \in Internal, NEW v \in Values
  PROVE  /\ InternalTopology(m, v) \in Internal
         /\ \A s \in Slots, o \in Offs:
              InternalProbe(InternalTopology(m, v), s, o) = TopologyVoxel(v, InternalProbe(m, s, o))
<1> DEFINE g == InternalTopology(m, v)
<1>1. ASSUME NEW s \in Slots
      PROVE  /\ g[s] \in SlotEntry
             /\ \A o \in Offs: SlotVoxel(g[s], o) = TopologyVoxel(v, InternalProbe(m, s, o))
  <2>1. m[s] \in SlotEntry /\ \A o \in Offs: InternalProbe(m, s, o) = SlotVoxel(m[s], o)
    BY NodeFacts
  <2>2. CASE \E l \in Leaf: m[s] = Child(l)
    <3>1. PICK l \in Leaf: m[s] = Child(l)  BY <2>2
    <3>2. g[s] = Child(LeafTopology(l, v))  BY <3>1, EntryFacts DEF InternalTopology
    <3> QED BY <2>1, <3>1, <3>2, LeafTopologyFacts, SlotFacts, SlotVoxelFacts
  <2>3. CASE \E x \in Voxel: m[s] = Tile(x)
    <3>1. PICK x \in Voxel: m[s] = Tile(x)  BY <2>3
    <3>2. g[s] = Tile(TopologyVoxel(v, x))
      BY <3>1, EntryFacts DEF InternalTopology, TopologyVoxel
    <3>3. TopologyVoxel(v, x) \in Voxel  BY TopologyVoxelFacts
    <3> QED BY <2>1, <3>1, <3>2, <3>3, SlotFacts, SlotVoxelFacts
  <2> QED BY <2>1, <2>2, <2>3, SlotShapes
<1>2. g = [s \in Slots |-> g[s]]  BY DEF InternalTopology
<1> HIDE DEF g
<1>3. /\ g \in Internal
      /\ \A s \in Slots, o \in Offs: InternalProbe(g, s, o) = SlotVoxel(g[s], o)
  BY <1>1, <1>2, NodeBuilt
<1> QED BY <1>1, <1>3 DEF g

\* An internal node with everything active.
LEMMA InternalAllOnFacts ==
  ASSUME NEW n \in Internal
  PROVE  /\ InternalAllOn(n) \in Internal
         /\ \A s \in Slots, o \in Offs:
              InternalProbe(InternalAllOn(n), s, o) = AllOnVoxel(InternalProbe(n, s, o))
<1> DEFINE g == InternalAllOn(n)
<1>1. ASSUME NEW s \in Slots
      PROVE  /\ g[s] \in SlotEntry
             /\ \A o \in Offs: SlotVoxel(g[s], o) = AllOnVoxel(InternalProbe(n, s, o))
  <2>1. n[s] \in SlotEntry /\ \A o \in Offs: InternalProbe(n, s, o) = SlotVoxel(n[s], o)
    BY NodeFacts
  <2>9. g[s] = IF IsChild(n[s]) THEN Child(LeafAllOn(n[s].node))
               ELSE Tile(AllOnVoxel(n[s].voxel))
    BY Zenon DEF InternalAllOn, AllOnVoxel
  <2> HIDE DEF g
  <2>2. CASE \E l \in Leaf: n[s] = Child(l)
    <3>1. PICK l \in Leaf: n[s] = Child(l)  BY <2>2
    <3>2. g[s] = Child(LeafAllOn(l))  BY <2>9, <3>1, EntryFacts
    <3> QED BY <2>1, <3>1, <3>2, LeafAllOnFacts, SlotFacts, SlotVoxelFacts
  <2>3. CASE \E x \in Voxel: n[s] = Tile(x)
    <3>1. PICK x \in Voxel: n[s] = Tile(x)  BY <2>3
    <3>2. g[s] = Tile(AllOnVoxel(x))  BY <2>9, <3>1, EntryFacts
    <3>3. AllOnVoxel(x) \in Voxel  BY AllOnVoxelFacts
    <3> QED BY <2>1, <3>1, <3>2, <3>3, SlotFacts, SlotVoxelFacts
  <2> QED BY <2>1, <2>2, <2>3, SlotShapes
<1>2. g = [s \in Slots |-> g[s]]  BY DEF InternalAllOn
<1> HIDE DEF g
<1>3. /\ g \in Internal
      /\ \A s \in Slots, o \in Offs: InternalProbe(g, s, o) = SlotVoxel(g[s], o)
  BY <1>1, <1>2, NodeBuilt
<1> QED BY <1>1, <1>3 DEF g

\* The union of two internal nodes.
LEMMA InternalUnionFacts ==
  ASSUME NEW n \in Internal, NEW m \in Internal
  PROVE  /\ InternalUnion(n, m) \in Internal
         /\ \A s \in Slots, o \in Offs:
              InternalProbe(InternalUnion(n, m), s, o)
                = UnionVoxel(InternalProbe(n, s, o), InternalProbe(m, s, o))
<1> DEFINE g == InternalUnion(n, m)
<1>1. ASSUME NEW s \in Slots
      PROVE  /\ g[s] \in SlotEntry
             /\ \A o \in Offs: SlotVoxel(g[s], o)
                  = UnionVoxel(InternalProbe(n, s, o), InternalProbe(m, s, o))
  <2>1. /\ n[s] \in SlotEntry /\ m[s] \in SlotEntry
        /\ \A o \in Offs: /\ InternalProbe(n, s, o) = SlotVoxel(n[s], o)
                          /\ InternalProbe(m, s, o) = SlotVoxel(m[s], o)
    BY NodeFacts
  <2>2. g[s] = SlotUnion(n[s], m[s])  BY DEF InternalUnion
  <2> HIDE DEF g
  <2> QED BY <2>1, <2>2, SlotUnionFacts
<1>2. g = [s \in Slots |-> g[s]]  BY DEF InternalUnion
<1> HIDE DEF g
<1>3. /\ g \in Internal
      /\ \A s \in Slots, o \in Offs: InternalProbe(g, s, o) = SlotVoxel(g[s], o)
  BY <1>1, <1>2, NodeBuilt
<1> QED BY <1>1, <1>3 DEF g

\* The intersection of two internal nodes.
LEMMA InternalIntersectionFacts ==
  ASSUME NEW n \in Internal, NEW m \in Internal, NEW bg \in Values
  PROVE  /\ InternalIntersection(n, m, bg) \in Internal
         /\ \A s \in Slots, o \in Offs:
              InternalProbe(InternalIntersection(n, m, bg), s, o)
                \in Intersected(InternalProbe(n, s, o), InternalProbe(m, s, o), bg)
<1> DEFINE g == InternalIntersection(n, m, bg)
<1>1. ASSUME NEW s \in Slots
      PROVE  /\ g[s] \in SlotEntry
             /\ \A o \in Offs: SlotVoxel(g[s], o)
                  \in Intersected(InternalProbe(n, s, o), InternalProbe(m, s, o), bg)
  <2>1. /\ n[s] \in SlotEntry /\ m[s] \in SlotEntry
        /\ \A o \in Offs: /\ InternalProbe(n, s, o) = SlotVoxel(n[s], o)
                          /\ InternalProbe(m, s, o) = SlotVoxel(m[s], o)
    BY NodeFacts
  <2>2. g[s] = SlotIntersection(n[s], m[s], bg)  BY DEF InternalIntersection
  <2> HIDE DEF g
  <2> QED BY <2>1, <2>2, SlotIntersectionFacts
<1>2. g = [s \in Slots |-> g[s]]  BY DEF InternalIntersection
<1> HIDE DEF g
<1>3. /\ g \in Internal
      /\ \A s \in Slots, o \in Offs: InternalProbe(g, s, o) = SlotVoxel(g[s], o)
  BY <1>1, <1>2, NodeBuilt
<1> QED BY <1>1, <1>3 DEF g

\* The difference of two internal nodes.
LEMMA InternalDifferenceFacts ==
  ASSUME NEW n \in Internal, NEW m \in Internal, NEW bg \in Values
  PROVE  /\ InternalDifference(n, m, bg) \in Internal
         /\ \A s \in Slots, o \in Offs:
              InternalProbe(InternalDifference(n, m, bg), s, o)
                \in Subtracted(InternalProbe(n, s, o), InternalProbe(m, s, o), bg)
<1> DEFINE g == InternalDifference(n, m, bg)
<1>1. ASSUME NEW s \in Slots
      PROVE  /\ g[s] \in SlotEntry
             /\ \A o \in Offs: SlotVoxel(g[s], o)
                  \in Subtracted(InternalProbe(n, s, o), InternalProbe(m, s, o), bg)
  <2>1. /\ n[s] \in SlotEntry /\ m[s] \in SlotEntry
        /\ \A o \in Offs: /\ InternalProbe(n, s, o) = SlotVoxel(n[s], o)
                          /\ InternalProbe(m, s, o) = SlotVoxel(m[s], o)
    BY NodeFacts
  <2>2. g[s] = SlotDifference(n[s], m[s], bg)  BY DEF InternalDifference
  <2> HIDE DEF g
  <2> QED BY <2>1, <2>2, SlotDifferenceFacts
<1>2. g = [s \in Slots |-> g[s]]  BY DEF InternalDifference
<1> HIDE DEF g
<1>3. /\ g \in Internal
      /\ \A s \in Slots, o \in Offs: InternalProbe(g, s, o) = SlotVoxel(g[s], o)
  BY <1>1, <1>2, NodeBuilt
<1> QED BY <1>1, <1>3 DEF g

\* The voxel that a table entry stands for where it holds no node.
Plain(e, bg) == IF IsTile(e) THEN e.voxel ELSE Off(bg)

\* The voxel a root entry without a node stands for.
LEMMA PlainFacts ==
  ASSUME NEW e \in RootEntry, NEW bg \in Values, ~IsChild(e)
  PROVE  /\ Plain(e, bg) \in Voxel
         /\ OnTile(e) <=> Plain(e, bg).on
         /\ e = Absent \/ OffTile(e) <=> ~Plain(e, bg).on
         /\ IsTile(e) => e = Tile(Plain(e, bg))
         /\ e # Absent <=> IsTile(e)
         /\ e = Absent => Plain(e, bg) = Off(bg)
         /\ \A s, o: EntryVoxel(e, bg, s, o) = Plain(e, bg)
<1>1. CASE e = Absent
  BY <1>1, EntryFacts, VoxelFacts DEF Plain, EntryVoxel
<1>2. CASE \E x \in Voxel: e = Tile(x)
  BY <1>2, EntryFacts DEF Plain, EntryVoxel
<1> QED BY <1>1, <1>2, RootShapes, EntryFacts

\* One key of RootNode::topologyUnion().
LEMMA EntryUnionFacts ==
  ASSUME NEW e \in RootEntry, NEW f \in RootEntry, NEW bg \in Values, NEW obg \in Values
  PROVE  /\ EntryUnion(e, f, bg) \in RootEntry
         /\ \A s \in Slots, o \in Offs:
              EntryVoxel(EntryUnion(e, f, bg), bg, s, o)
                = UnionVoxel(EntryVoxel(e, bg, s, o), EntryVoxel(f, obg, s, o))
<1> DEFINE r == EntryUnion(e, f, bg)
<1>0. \A s \in Slots, o \in Offs: /\ EntryVoxel(e, bg, s, o) \in Voxel
                                  /\ EntryVoxel(f, obg, s, o) \in Voxel
  BY EntryVoxelType
<1>1. CASE IsChild(f)
  <2> PICK m \in Internal: f = Child(m)  BY <1>1, RootFacts
  <2>0. /\ f.node = m
        /\ \A s, o: EntryVoxel(f, obg, s, o) = InternalProbe(m, s, o)
    BY EntryFacts, EntryVoxelFacts
  <2>1. CASE IsChild(e)
    <3> PICK n \in Internal: e = Child(n)  BY <2>1, RootFacts
    <3> DEFINE p == InternalUnion(n, m)
    <3>1. r = Child(p)  BY EntryFacts DEF EntryUnion
    <3>2. /\ p \in Internal
          /\ \A s \in Slots, o \in Offs:
               InternalProbe(p, s, o) = UnionVoxel(InternalProbe(n, s, o), InternalProbe(m, s, o))
      BY InternalUnionFacts
    <3> HIDE DEF p, r
    <3>3. r \in RootEntry /\ \A s \in Slots, o \in Offs: EntryVoxel(r, bg, s, o) = InternalProbe(p, s, o)
      BY <3>1, <3>2, EntryNode
    <3>4. \A s, o: EntryVoxel(e, bg, s, o) = InternalProbe(n, s, o)  BY EntryVoxelFacts
    <3> QED BY <2>0, <3>2, <3>3, <3>4 DEF r
  <2>2. CASE ~IsChild(e)
    <3> DEFINE x == Plain(e, bg)
               q == InternalTopology(m, x.value)
    <3>0. /\ x \in Voxel /\ x.value \in Values
          /\ \A s, o: EntryVoxel(e, bg, s, o) = x
          /\ OnTile(e) <=> x.on
          /\ e = Absent => x.value = bg
          /\ e # Absent => e.voxel = x
      BY <2>2, PlainFacts, VoxelFacts, EntryFacts
    <3>1. /\ q \in Internal
          /\ \A s \in Slots, o \in Offs:
               InternalProbe(q, s, o) = TopologyVoxel(x.value, InternalProbe(m, s, o))
      BY <3>0, InternalTopologyFacts
    <3>2. CASE x.on
      <4> DEFINE p == InternalAllOn(q)
      <4>1. r = Child(p)
        BY <2>0, <2>2, <3>0, <3>2, EntryFacts DEF EntryUnion
      <4> HIDE DEF q
      <4>2. /\ p \in Internal
            /\ \A s \in Slots, o \in Offs:
                 InternalProbe(p, s, o) = AllOnVoxel(InternalProbe(q, s, o))
        BY <3>1, InternalAllOnFacts
      <4> HIDE DEF p, r, x
      <4>3. r \in RootEntry /\ \A s \in Slots, o \in Offs: EntryVoxel(r, bg, s, o) = InternalProbe(p, s, o)
        BY <4>1, <4>2, EntryNode
      <4>4. \A s \in Slots, o \in Offs:
              AllOnVoxel(TopologyVoxel(x.value, InternalProbe(m, s, o))) = UnionVoxel(x, InternalProbe(m, s, o))
        BY <3>0, <3>2, NodeFacts, UnionVoxelFacts
      <4> QED BY <2>0, <3>0, <3>1, <4>2, <4>3, <4>4 DEF r
    <3>3. CASE ~x.on
      <4>1. r = Child(q)
        BY <2>0, <2>2, <3>0, <3>3, PlainFacts, EntryFacts DEF EntryUnion
      <4> HIDE DEF q, r, x
      <4>3. r \in RootEntry /\ \A s \in Slots, o \in Offs: EntryVoxel(r, bg, s, o) = InternalProbe(q, s, o)
        BY <3>1, <4>1, EntryNode
      <4>4. \A s \in Slots, o \in Offs:
              TopologyVoxel(x.value, InternalProbe(m, s, o)) = UnionVoxel(x, InternalProbe(m, s, o))
        BY <3>0, <3>3, NodeFacts, UnionVoxelFacts
      <4> QED BY <2>0, <3>0, <3>1, <4>3, <4>4 DEF r
    <3> QED BY <3>2, <3>3
  <2> QED BY <2>1, <2>2
<1>2. CASE ~IsChild(f)
  <2> DEFINE y == Plain(f, obg)
  <2>0. /\ y \in Voxel /\ (\A s, o: EntryVoxel(f, obg, s, o) = y) /\ (OnTile(f) <=> y.on)
    BY <1>2, PlainFacts
  <2> HIDE DEF y
  <2>1. CASE ~y.on
    <3>1. r = e  BY <1>2, <2>0, <2>1 DEF EntryUnion
    <3> QED BY <1>0, <2>0, <2>1, <3>1, UnionVoxelFacts
  <2>2. CASE y.on /\ IsChild(e)
    <3> PICK n \in Internal: e = Child(n)  BY <2>2, RootFacts
    <3> DEFINE p == InternalAllOn(n)
    <3>1. r = Child(p)  BY <1>2, <2>0, <2>2, EntryFacts DEF EntryUnion
    <3>2. /\ p \in Internal
          /\ \A s \in Slots, o \in Offs: InternalProbe(p, s, o) = AllOnVoxel(InternalProbe(n, s, o))
      BY InternalAllOnFacts
    <3> HIDE DEF p, r
    <3>3. r \in RootEntry /\ \A s \in Slots, o \in Offs: EntryVoxel(r, bg, s, o) = InternalProbe(p, s, o)
      BY <3>1, <3>2, EntryNode
    <3>4. \A s, o: EntryVoxel(e, bg, s, o) = InternalProbe(n, s, o)  BY EntryVoxelFacts
    <3>5. \A s \in Slots, o \in Offs: AllOnVoxel(InternalProbe(n, s, o)) = UnionVoxel(InternalProbe(n, s, o), y)
      BY <2>0, <2>2, NodeFacts, UnionVoxelFacts
    <3> QED BY <2>0, <3>2, <3>3, <3>4, <3>5 DEF r
  <2>3. CASE y.on /\ ~IsChild(e)
    <3> DEFINE x == Plain(e, bg)
    <3>0. /\ x \in Voxel /\ (\A s, o: EntryVoxel(e, bg, s, o) = x)
          /\ e = Absent => x.value = bg
          /\ e # Absent => IsTile(e) /\ e.voxel = x
      BY <2>3, PlainFacts, VoxelFacts, EntryFacts
    <3>1. r = Tile(AllOnVoxel(x))
      <4>1. AllOnVoxel(x) = Vox(x.value, TRUE)  BY Zenon DEF AllOnVoxel
      <4>2. OnTile(f) /\ ~IsChild(f) /\ ~IsChild(e) /\ ~(IsTile(e) /\ e = Absent)
        BY <1>2, <2>0, <2>3, EntryFacts
      <4> HIDE DEF x
      <4>3. CASE IsTile(e)
        <5>1. r = Tile(Vox(e.voxel.value, TRUE))  BY <4>2, <4>3, Zenon DEF EntryUnion
        <5> QED BY <3>0, <4>1, <4>2, <4>3, <5>1
      <4>4. CASE e = Absent
        <5>1. r = Tile(Vox(bg, TRUE))  BY <4>2, <4>4 DEF EntryUnion
        <5> QED BY <3>0, <4>1, <4>4, <5>1
      <4> QED BY <3>0, <4>3, <4>4
    <3> HIDE DEF x, r
    <3>2. AllOnVoxel(x) \in Voxel /\ AllOnVoxel(x) = UnionVoxel(x, y)
      BY <2>0, <2>3, <3>0, AllOnVoxelFacts, UnionVoxelFacts
    <3> QED BY <2>0, <3>0, <3>1, <3>2, RootFacts, EntryVoxelFacts DEF r
  <2> QED BY <2>1, <2>2, <2>3
<1> QED BY <1>1, <1>2

\* One key of RootNode::topologyIntersection().
LEMMA EntryIntersectionFacts ==
  ASSUME NEW e \in RootEntry, NEW f \in RootEntry, NEW bg \in Values, NEW obg \in Values
  PROVE  /\ EntryIntersection(e, f, bg) \in RootEntry
         /\ \A s \in Slots, o \in Offs:
              EntryVoxel(EntryIntersection(e, f, bg), bg, s, o)
                \in Intersected(EntryVoxel(e, bg, s, o), EntryVoxel(f, obg, s, o), bg)
<1> DEFINE r == EntryIntersection(e, f, bg)
<1>0. \A s \in Slots, o \in Offs: /\ EntryVoxel(e, bg, s, o) \in Voxel
                                  /\ EntryVoxel(f, obg, s, o) \in Voxel
  BY EntryVoxelType
<1>1. CASE IsChild(e) /\ IsChild(f)
  <2> PICK n \in Internal, m \in Internal: e = Child(n) /\ f = Child(m)  BY <1>1, RootFacts
  <2> DEFINE p == InternalIntersection(n, m, bg)
  <2>1. r = Child(p)  BY EntryFacts DEF EntryIntersection
  <2>2. /\ p \in Internal
        /\ \A s \in Slots, o \in Offs:
             InternalProbe(p, s, o) \in Intersected(InternalProbe(n, s, o), InternalProbe(m, s, o), bg)
    BY InternalIntersectionFacts
  <2> HIDE DEF p, r
  <2>3. r \in RootEntry /\ \A s \in Slots, o \in Offs: EntryVoxel(r, bg, s, o) = InternalProbe(p, s, o)
    BY <2>1, <2>2, EntryNode
  <2>4. \A s, o: /\ EntryVoxel(e, bg, s, o) = InternalProbe(n, s, o)
                 /\ EntryVoxel(f, obg, s, o) = InternalProbe(m, s, o)
    BY EntryVoxelFacts
  <2> QED BY <2>2, <2>3, <2>4 DEF r
<1>2. CASE ~IsChild(e) /\ IsChild(f)
  <2> PICK m \in Internal: f = Child(m)  BY <1>2, RootFacts
  <2> DEFINE x == Plain(e, bg)
             p == InternalTopology(m, x.value)
  <2>0. /\ x \in Voxel /\ x.value \in Values
        /\ \A s, o: EntryVoxel(e, bg, s, o) = x
        /\ OnTile(e) <=> x.on
        /\ OnTile(e) => e.voxel = x /\ IsTile(e)
    BY <1>2, PlainFacts, VoxelFacts, EntryFacts
  <2>1. CASE x.on
    <3>1. r = Child(p)
      BY <1>2, <2>0, <2>1, EntryFacts DEF EntryIntersection
    <3>2. /\ p \in Internal
          /\ \A s \in Slots, o \in Offs:
               InternalProbe(p, s, o) = TopologyVoxel(x.value, InternalProbe(m, s, o))
      BY <2>0, InternalTopologyFacts
    <3> HIDE DEF p, r, x
    <3>3. r \in RootEntry /\ \A s \in Slots, o \in Offs: EntryVoxel(r, bg, s, o) = InternalProbe(p, s, o)
      BY <3>1, <3>2, EntryNode
    <3>4. \A s, o: EntryVoxel(f, obg, s, o) = InternalProbe(m, s, o)  BY EntryVoxelFacts
    <3>5. \A s \in Slots, o \in Offs:
            /\ TopologyVoxel(x.value, InternalProbe(m, s, o)) = IntersectionVoxel(x, InternalProbe(m, s, o))
            /\ IntersectionVoxel(x, InternalProbe(m, s, o)) \in Intersected(x, InternalProbe(m, s, o), bg)
      BY <2>0, <2>1, NodeFacts, IntersectionVoxelFacts, NarrowedFacts
    <3> QED BY <2>0, <3>2, <3>3, <3>4, <3>5 DEF r
  <2>2. CASE ~x.on
    <3>1. r = e
      BY <1>2, <2>0, <2>2, EntryFacts DEF EntryIntersection
    <3> HIDE DEF r, x
    <3> QED BY <1>0, <2>0, <2>2, <3>1, NarrowedFacts DEF r
  <2> QED BY <2>1, <2>2
<1>3. CASE ~IsChild(f)
  <2> DEFINE y == Plain(f, obg)
  <2>0. /\ y \in Voxel /\ (\A s, o: EntryVoxel(f, obg, s, o) = y)
        /\ OnTile(f) <=> y.on
        /\ f = Absent \/ OffTile(f) <=> ~y.on
    BY <1>3, PlainFacts
  <2> HIDE DEF y
  <2>1. CASE y.on
    <3>1. r = e  BY <1>3, <2>0, <2>1 DEF EntryIntersection
    <3> HIDE DEF r
    <3> QED BY <1>0, <2>0, <2>1, <3>1, NarrowedFacts DEF r
  <2>2. CASE ~y.on /\ IsChild(e)
    <3>1. r = Absent  BY <1>3, <2>0, <2>2, RootFacts, EntryFacts DEF EntryIntersection
    <3> HIDE DEF r
    <3>2. \A s, o: EntryVoxel(r, bg, s, o) = Off(bg)  BY <3>1, EntryVoxelFacts
    <3>3. r \in RootEntry  BY <3>1, RootFacts
    <3> QED BY <1>0, <2>0, <2>2, <3>2, <3>3, NarrowedFacts DEF r
  <2>3. CASE ~y.on /\ OnTile(e)
    <3>1. PICK x \in Voxel: e = Tile(x) /\ r = Tile(Off(x.value))
      BY <1>3, <2>0, <2>3, RootShapes, EntryFacts DEF EntryIntersection
    <3> HIDE DEF r
    <3>2. \A s, o: EntryVoxel(r, bg, s, o) = Off(x.value) /\ EntryVoxel(e, bg, s, o) = x
      BY <3>1, EntryVoxelFacts
    <3>3. r \in RootEntry  BY <3>1, RootFacts, VoxelFacts
    <3> QED BY <2>0, <2>3, <3>1, <3>2, <3>3, NarrowedFacts DEF r
  <2>4. CASE ~y.on /\ ~IsChild(e) /\ ~OnTile(e)
    <3>1. r = e  BY <1>3, <2>4 DEF EntryIntersection
    <3>2. \A s, o: EntryVoxel(e, bg, s, o) = Plain(e, bg) /\ ~Plain(e, bg).on
      BY <2>4, PlainFacts
    <3> HIDE DEF r
    <3> QED BY <1>0, <2>0, <3>1, <3>2, NarrowedFacts DEF r
  <2> QED BY <2>1, <2>2, <2>3, <2>4
<1> QED BY <1>1, <1>2, <1>3

\* One key of RootNode::topologyDifference().
LEMMA EntryDifferenceFacts ==
  ASSUME NEW e \in RootEntry, NEW f \in RootEntry, NEW bg \in Values, NEW obg \in Values
  PROVE  /\ EntryDifference(e, f, bg) \in RootEntry
         /\ \A s \in Slots, o \in Offs:
              EntryVoxel(EntryDifference(e, f, bg), bg, s, o)
                \in Subtracted(EntryVoxel(e, bg, s, o), EntryVoxel(f, obg, s, o), bg)
<1> DEFINE r == EntryDifference(e, f, bg)
<1>0. \A s \in Slots, o \in Offs: /\ EntryVoxel(e, bg, s, o) \in Voxel
                                  /\ EntryVoxel(f, obg, s, o) \in Voxel
  BY EntryVoxelType
<1>1. CASE (IsChild(e) \/ OnTile(e)) /\ IsChild(f)
  <2> PICK m \in Internal: f = Child(m)  BY <1>1, RootFacts
  <2> DEFINE n == IF IsChild(e) THEN e.node ELSE FullInternal(e.voxel)
             p == InternalDifference(n, m, bg)
  <2>1. r = Child(p)
    <3>1. CASE IsChild(e)
      <4>1. p = InternalDifference(e.node, f.node, bg)  BY <3>1, EntryFacts
      <4> QED BY <3>1, <4>1, RootFacts, EntryFacts DEF EntryDifference
    <3>2. CASE OnTile(e) /\ ~IsChild(e)
      <4>1. p = InternalDifference(FullInternal(e.voxel), f.node, bg)  BY <3>2, EntryFacts
      <4> QED BY <3>2, <4>1, RootFacts, EntryFacts DEF EntryDifference
    <3> QED BY <1>1, <3>1, <3>2
  <2>2. n \in Internal /\ \A s \in Slots, o \in Offs: EntryVoxel(e, bg, s, o) = InternalProbe(n, s, o)
    <3>1. CASE IsChild(e)
      BY <3>1, RootFacts DEF EntryVoxel
    <3>2. CASE OnTile(e)
      BY <3>2, RootFacts, EntryFacts, FullInternalFacts DEF EntryVoxel
    <3> QED BY <1>1, <3>1, <3>2
  <2> HIDE DEF n
  <2>3. /\ p \in Internal
        /\ \A s \in Slots, o \in Offs:
             InternalProbe(p, s, o) \in Subtracted(InternalProbe(n, s, o), InternalProbe(m, s, o), bg)
    BY <2>2, InternalDifferenceFacts
  <2> HIDE DEF p, r
  <2>4. r \in RootEntry /\ \A s \in Slots, o \in Offs: EntryVoxel(r, bg, s, o) = InternalProbe(p, s, o)
    BY <2>1, <2>3, EntryNode
  <2>5. \A s, o: EntryVoxel(f, obg, s, o) = InternalProbe(m, s, o)
    BY EntryVoxelFacts
  <2> QED BY <2>2, <2>3, <2>4, <2>5 DEF r
<1>2. CASE ~IsChild(e) /\ ~OnTile(e)
  <2>1. r = e  BY <1>2 DEF EntryDifference
  <2>2. \A s, o: EntryVoxel(e, bg, s, o) = Plain(e, bg) /\ ~Plain(e, bg).on
    BY <1>2, PlainFacts
  <2> HIDE DEF r
  <2> QED BY <1>0, <2>1, <2>2, NarrowedFacts DEF r
<1>3. CASE (IsChild(e) \/ OnTile(e)) /\ ~IsChild(f)
  <2> DEFINE y == Plain(f, obg)
  <2>0. y \in Voxel /\ (\A s, o: EntryVoxel(f, obg, s, o) = y) /\ (OnTile(f) <=> y.on)
    BY <1>3, PlainFacts
  <2> HIDE DEF y
  <2>1. CASE ~y.on
    <3>1. r = e  BY <1>3, <2>0, <2>1 DEF EntryDifference
    <3> HIDE DEF r
    <3> QED BY <1>0, <2>0, <2>1, <3>1, NarrowedFacts DEF r
  <2>2. CASE y.on /\ IsChild(e)
    <3>1. r = Absent  BY <1>3, <2>0, <2>2, RootFacts, EntryFacts DEF EntryDifference
    <3> HIDE DEF r
    <3>2. \A s, o: EntryVoxel(r, bg, s, o) = Off(bg)  BY <3>1, EntryVoxelFacts
    <3>3. r \in RootEntry  BY <3>1, RootFacts
    <3> QED BY <1>0, <2>0, <2>2, <3>2, <3>3, NarrowedFacts DEF r
  <2>3. CASE y.on /\ OnTile(e)
    <3>1. PICK x \in Voxel: e = Tile(x) /\ r = Tile(Off(x.value))
      BY <1>3, <2>0, <2>3, RootShapes, EntryFacts DEF EntryDifference
    <3> HIDE DEF r
    <3>2. \A s, o: EntryVoxel(r, bg, s, o) = Off(x.value) /\ EntryVoxel(e, bg, s, o) = x
      BY <3>1, EntryVoxelFacts
    <3>3. r \in RootEntry  BY <3>1, RootFacts, VoxelFacts
    <3> QED BY <2>0, <2>3, <3>1, <3>2, <3>3, NarrowedFacts DEF r
  <2> QED BY <1>3, <2>1, <2>2, <2>3
<1> QED BY <1>1, <1>2, <1>3

\* topologyUnion() unites the states, wherever the nodes of the two trees are.
LEMMA RootUnionFacts ==
  ASSUME NEW t \in Tree, NEW o \in Tree
  PROVE  /\ RootUnion(t, o) \in Tree
         /\ RootUnion(t, o).background = t.background
         /\ \A c \in Coords:
              Probe(RootUnion(t, o), c) = UnionVoxel(Probe(t, c), Probe(o, c))
<1> DEFINE g == [k \in Keys |-> EntryUnion(t.table[k], o.table[k], t.background)]
<1>0. RootUnion(t, o) = WithTable(t, g) /\ g = [k \in Keys |-> g[k]]  BY DEF RootUnion
<1>1. ASSUME NEW k \in Keys
      PROVE  /\ g[k] \in RootEntry
             /\ \A s \in Slots, p \in Offs:
                  EntryVoxel(g[k], t.background, s, p)
                    = UnionVoxel(EntryVoxel(t.table[k], t.background, s, p), EntryVoxel(o.table[k], o.background, s, p))
  <2>1. /\ t.table[k] \in RootEntry /\ o.table[k] \in RootEntry
        /\ t.background \in Values /\ o.background \in Values
    BY TableFacts
  <2>2. g[k] = EntryUnion(t.table[k], o.table[k], t.background)  OBVIOUS
  <2> HIDE DEF g
  <2>3. /\ EntryUnion(t.table[k], o.table[k], t.background) \in RootEntry
        /\ \A s \in Slots, p \in Offs:
             EntryVoxel(EntryUnion(t.table[k], o.table[k], t.background), t.background, s, p)
               = UnionVoxel(EntryVoxel(t.table[k], t.background, s, p), EntryVoxel(o.table[k], o.background, s, p))
    BY <2>1, EntryUnionFacts
  <2> QED BY <2>2, <2>3
<1> HIDE DEF g
<1>2. WithTable(t, g) \in Tree /\ WithTable(t, g).background = t.background
      /\ \A c \in Coords: Probe(WithTable(t, g), c)
                            = EntryVoxel(g[c[1]], t.background, c[2], c[3])
  BY <1>0, <1>1, TableBuilt
<1> QED BY <1>0, <1>1, <1>2, ProbeEntry, CoordFacts

\* topologyIntersection() keeps what is active in both.
LEMMA RootIntersectionFacts ==
  ASSUME NEW t \in Tree, NEW o \in Tree
  PROVE  /\ RootIntersection(t, o) \in Tree
         /\ RootIntersection(t, o).background = t.background
         /\ \A c \in Coords:
              Probe(RootIntersection(t, o), c) \in Intersected(Probe(t, c), Probe(o, c), t.background)
<1> DEFINE g == [k \in Keys |-> EntryIntersection(t.table[k], o.table[k], t.background)]
<1>0. RootIntersection(t, o) = WithTable(t, g) /\ g = [k \in Keys |-> g[k]]  BY DEF RootIntersection
<1>1. ASSUME NEW k \in Keys
      PROVE  /\ g[k] \in RootEntry
             /\ \A s \in Slots, p \in Offs:
                  EntryVoxel(g[k], t.background, s, p)
                    \in Intersected(EntryVoxel(t.table[k], t.background, s, p), EntryVoxel(o.table[k], o.background, s, p), t.background)
  <2>1. /\ t.table[k] \in RootEntry /\ o.table[k] \in RootEntry
        /\ t.background \in Values /\ o.background \in Values
    BY TableFacts
  <2>2. g[k] = EntryIntersection(t.table[k], o.table[k], t.background)  OBVIOUS
  <2> HIDE DEF g
  <2>3. /\ EntryIntersection(t.table[k], o.table[k], t.background) \in RootEntry
        /\ \A s \in Slots, p \in Offs:
             EntryVoxel(EntryIntersection(t.table[k], o.table[k], t.background), t.background, s, p)
               \in Intersected(EntryVoxel(t.table[k], t.background, s, p), EntryVoxel(o.table[k], o.background, s, p), t.background)
    BY <2>1, EntryIntersectionFacts
  <2> QED BY <2>2, <2>3
<1> HIDE DEF g
<1>2. WithTable(t, g) \in Tree /\ WithTable(t, g).background = t.background
      /\ \A c \in Coords: Probe(WithTable(t, g), c)
                            = EntryVoxel(g[c[1]], t.background, c[2], c[3])
  BY <1>0, <1>1, TableBuilt
<1> QED BY <1>0, <1>1, <1>2, ProbeEntry, CoordFacts

\* topologyDifference() keeps what is active in this tree only.
LEMMA RootDifferenceFacts ==
  ASSUME NEW t \in Tree, NEW o \in Tree
  PROVE  /\ RootDifference(t, o) \in Tree
         /\ RootDifference(t, o).background = t.background
         /\ \A c \in Coords:
              Probe(RootDifference(t, o), c) \in Subtracted(Probe(t, c), Probe(o, c), t.background)
<1> DEFINE g == [k \in Keys |-> EntryDifference(t.table[k], o.table[k], t.background)]
<1>0. RootDifference(t, o) = WithTable(t, g) /\ g = [k \in Keys |-> g[k]]  BY DEF RootDifference
<1>1. ASSUME NEW k \in Keys
      PROVE  /\ g[k] \in RootEntry
             /\ \A s \in Slots, p \in Offs:
                  EntryVoxel(g[k], t.background, s, p)
                    \in Subtracted(EntryVoxel(t.table[k], t.background, s, p), EntryVoxel(o.table[k], o.background, s, p), t.background)
  <2>1. /\ t.table[k] \in RootEntry /\ o.table[k] \in RootEntry
        /\ t.background \in Values /\ o.background \in Values
    BY TableFacts
  <2>2. g[k] = EntryDifference(t.table[k], o.table[k], t.background)  OBVIOUS
  <2> HIDE DEF g
  <2>3. /\ EntryDifference(t.table[k], o.table[k], t.background) \in RootEntry
        /\ \A s \in Slots, p \in Offs:
             EntryVoxel(EntryDifference(t.table[k], o.table[k], t.background), t.background, s, p)
               \in Subtracted(EntryVoxel(t.table[k], t.background, s, p), EntryVoxel(o.table[k], o.background, s, p), t.background)
    BY <2>1, EntryDifferenceFacts
  <2> QED BY <2>2, <2>3
<1> HIDE DEF g
<1>2. WithTable(t, g) \in Tree /\ WithTable(t, g).background = t.background
      /\ \A c \in Coords: Probe(WithTable(t, g), c)
                            = EntryVoxel(g[c[1]], t.background, c[2], c[3])
  BY <1>0, <1>1, TableBuilt
<1> QED BY <1>0, <1>1, <1>2, ProbeEntry, CoordFacts

-----------------------------------------------------------------------------
(* Merging.                                                                *)

Merged(x, y, a, b, policy) ==
  {z \in {x, y, Reset(y, a, b)}:
     policy # "nodes" => IF x.on \/ y.on THEN z \in {x, y} /\ z.on ELSE ~z.on}

\* The outcomes merge() allows.
LEMMA MergedFacts ==
  ASSUME NEW x \in Voxel, NEW y \in Voxel, NEW a \in Values, NEW b \in Values, NEW policy
  PROVE  /\ x.on \/ ~y.on \/ policy = "nodes" => x \in Merged(x, y, a, b, policy)
         /\ y.on => y \in Merged(x, y, a, b, policy)
         /\ ~x.on \/ policy = "nodes" =>
              /\ y \in Merged(x, y, a, b, policy)
              /\ Reset(y, a, b) \in Merged(x, y, a, b, policy)
         /\ Reset(y, a, b).on <=> y.on
         /\ y.on => Reset(y, a, b) = y
<1>1. /\ y.on => Reset(y, a, b) = y
      /\ Reset(y, a, b).on <=> y.on
  BY ResetFacts
<1>3. x.on \/ ~y.on \/ policy = "nodes" => x \in Merged(x, y, a, b, policy)
  BY DEF Merged
<1>4. y.on => y \in Merged(x, y, a, b, policy)
  BY DEF Merged
<1>5. ~x.on \/ policy = "nodes" => y \in Merged(x, y, a, b, policy)
  BY DEF Merged
<1>6. ~x.on \/ policy = "nodes" => Reset(y, a, b) \in Merged(x, y, a, b, policy)
  BY <1>1 DEF Merged
<1> QED BY <1>1, <1>3, <1>4, <1>5, <1>6

\* One slot of InternalNode::merge().
LEMMA SlotMergeFacts ==
  ASSUME NEW e \in SlotEntry, NEW f \in SlotEntry, NEW a \in Values, NEW b \in Values,
         NEW policy \in Policies
  PROVE  /\ SlotMerge(e, f, a, b, policy) \in SlotEntry
         /\ \A o \in Offs: SlotVoxel(SlotMerge(e, f, a, b, policy), o)
                             \in Merged(SlotVoxel(e, o), SlotVoxel(f, o), b, a, policy)
<1> DEFINE r == SlotMerge(e, f, a, b, policy)
<1>0. policy \in {"states", "nodes", "both"}  BY DEF Policies
<1>1. CASE \E l \in Leaf, m \in Leaf: e = Child(l) /\ f = Child(m)
  <2> PICK l \in Leaf, m \in Leaf: e = Child(l) /\ f = Child(m)  BY <1>1
  <2>1. r = Child(LeafMerge(l, m, policy))  BY EntryFacts DEF SlotMerge
  <2>2. /\ LeafMerge(l, m, policy) \in Leaf
        /\ \A o \in Offs: LeafMerge(l, m, policy)[o] =
             IF policy # "nodes" /\ ~l[o].on /\ m[o].on THEN m[o] ELSE l[o]
    BY LeafMergeFacts
  <2>3. \A o \in Offs: LeafMerge(l, m, policy)[o] \in Merged(l[o], m[o], b, a, policy)
    BY <2>2, LeafRange, MergedFacts
  <2> HIDE DEF r
  <2> QED BY <2>1, <2>2, <2>3, SlotFacts, SlotVoxelFacts DEF r
<1>2. CASE \E x \in Voxel, m \in Leaf: e = Tile(x) /\ f = Child(m)
  <2> PICK x \in Voxel, m \in Leaf: e = Tile(x) /\ f = Child(m)  BY <1>2
  <2> DEFINE z == LeafReset(m, b, a)
  <2>0. z \in Leaf /\ \A o \in Offs: z[o] = Reset(m[o], b, a)  BY LeafResetFacts
  <2>1. CASE ~x.on \/ policy = "nodes"
    <3>1. r = Child(z)  BY <2>1, EntryFacts DEF SlotMerge
    <3> HIDE DEF r, z
    <3>2. \A o \in Offs: z[o] \in Merged(x, m[o], b, a, policy)
      BY <2>0, <2>1, LeafRange, MergedFacts
    <3> QED BY <2>0, <3>1, <3>2, SlotFacts, SlotVoxelFacts DEF r
  <2>2. CASE x.on /\ policy = "both"
    <3>1. r = Child(LeafMergeTile(z, x))  BY <2>2, EntryFacts DEF SlotMerge
    <3> HIDE DEF r, z
    <3>2. /\ LeafMergeTile(z, x) \in Leaf
          /\ \A o \in Offs: LeafMergeTile(z, x)[o] = IF z[o].on THEN z[o] ELSE x
      BY <2>0, LeafMergeTileFacts
    <3>3. \A o \in Offs: LeafMergeTile(z, x)[o] \in Merged(x, m[o], b, a, policy)
      BY <2>0, <2>2, <3>2, LeafRange, MergedFacts
    <3> QED BY <3>1, <3>2, <3>3, SlotFacts, SlotVoxelFacts DEF r
  <2>3. CASE x.on /\ policy = "states"
    <3>1. r = Tile(x)  BY <2>3, EntryFacts DEF SlotMerge
    <3> HIDE DEF r
    <3> QED BY <2>3, <3>1, SlotFacts, SlotVoxelFacts, LeafRange, MergedFacts DEF r
  <2> QED BY <1>0, <2>1, <2>2, <2>3
<1>3. CASE \E l \in Leaf, y \in Voxel: e = Child(l) /\ f = Tile(y)
  <2> PICK l \in Leaf, y \in Voxel: e = Child(l) /\ f = Tile(y)  BY <1>3
  <2>1. CASE ~y.on \/ policy = "nodes"
    <3>1. r = Child(l)  BY <2>1, EntryFacts DEF SlotMerge
    <3> HIDE DEF r
    <3>2. \A o \in Offs: l[o] \in Merged(l[o], y, b, a, policy)
      BY <2>1, LeafRange, MergedFacts
    <3> QED BY <3>1, <3>2, SlotFacts, SlotVoxelFacts DEF r
  <2>2. CASE y.on /\ policy = "states"
    <3>1. r = Tile(y)  BY <2>2, EntryFacts DEF SlotMerge
    <3> HIDE DEF r
    <3> QED BY <2>2, <3>1, SlotFacts, SlotVoxelFacts, LeafRange, MergedFacts DEF r
  <2>3. CASE y.on /\ policy = "both"
    <3>1. r = Child(LeafMergeTile(l, y))  BY <2>3, EntryFacts DEF SlotMerge
    <3> HIDE DEF r
    <3>2. /\ LeafMergeTile(l, y) \in Leaf
          /\ \A o \in Offs: LeafMergeTile(l, y)[o] = IF l[o].on THEN l[o] ELSE y
      BY LeafMergeTileFacts
    <3>3. \A o \in Offs: LeafMergeTile(l, y)[o] \in Merged(l[o], y, b, a, policy)
      BY <2>3, <3>2, LeafRange, MergedFacts
    <3> QED BY <3>1, <3>2, <3>3, SlotFacts, SlotVoxelFacts DEF r
  <2> QED BY <1>0, <2>1, <2>2, <2>3
<1>4. CASE \E x \in Voxel, y \in Voxel: e = Tile(x) /\ f = Tile(y)
  <2> PICK x \in Voxel, y \in Voxel: e = Tile(x) /\ f = Tile(y)  BY <1>4
  <2>1. CASE y.on /\ ~x.on /\ policy # "nodes"
    <3>1. r = Tile(y)  BY <2>1, EntryFacts DEF SlotMerge
    <3> HIDE DEF r
    <3> QED BY <2>1, <3>1, SlotFacts, SlotVoxelFacts, MergedFacts DEF r
  <2>2. CASE ~(y.on /\ ~x.on /\ policy # "nodes")
    <3>1. r = Tile(x)  BY <2>2, EntryFacts DEF SlotMerge
    <3> HIDE DEF r
    <3> QED BY <2>2, <3>1, SlotFacts, SlotVoxelFacts, MergedFacts DEF r
  <2> QED BY <2>1, <2>2
<1> QED BY <1>1, <1>2, <1>3, <1>4, SlotShapes

\* InternalNode::merge() of two nodes.
LEMMA InternalMergeFacts ==
  ASSUME NEW n \in Internal, NEW m \in Internal, NEW a \in Values, NEW b \in Values,
         NEW policy \in Policies
  PROVE  /\ InternalMerge(n, m, a, b, policy) \in Internal
         /\ \A s \in Slots, o \in Offs:
              InternalProbe(InternalMerge(n, m, a, b, policy), s, o)
                \in Merged(InternalProbe(n, s, o), InternalProbe(m, s, o), b, a, policy)
<1> DEFINE g == InternalMerge(n, m, a, b, policy)
<1>1. ASSUME NEW s \in Slots
      PROVE  /\ g[s] \in SlotEntry
             /\ \A o \in Offs: SlotVoxel(g[s], o)
                  \in Merged(InternalProbe(n, s, o), InternalProbe(m, s, o), b, a, policy)
  <2>1. /\ n[s] \in SlotEntry /\ m[s] \in SlotEntry
        /\ \A o \in Offs: /\ InternalProbe(n, s, o) = SlotVoxel(n[s], o)
                          /\ InternalProbe(m, s, o) = SlotVoxel(m[s], o)
    BY NodeFacts
  <2>2. g[s] = SlotMerge(n[s], m[s], a, b, policy)  BY DEF InternalMerge
  <2> HIDE DEF g
  <2> QED BY <2>1, <2>2, SlotMergeFacts
<1>2. g = [s \in Slots |-> g[s]]  BY DEF InternalMerge
<1> HIDE DEF g
<1>3. /\ g \in Internal
      /\ \A s \in Slots, o \in Offs: InternalProbe(g, s, o) = SlotVoxel(g[s], o)
  BY <1>1, <1>2, NodeBuilt
<1> QED BY <1>1, <1>3 DEF g

\* InternalNode::merge() of a tile.
LEMMA InternalMergeTileFacts ==
  ASSUME NEW n \in Internal, NEW x \in Voxel
  PROVE  /\ InternalMergeTile(n, x) \in Internal
         /\ \A s \in Slots, o \in Offs:
              InternalProbe(InternalMergeTile(n, x), s, o)
                = IF InternalProbe(n, s, o).on THEN InternalProbe(n, s, o) ELSE x
<1> DEFINE g == InternalMergeTile(n, x)
<1>1. ASSUME NEW s \in Slots
      PROVE  /\ g[s] \in SlotEntry
             /\ \A o \in Offs: SlotVoxel(g[s], o)
                  = IF InternalProbe(n, s, o).on THEN InternalProbe(n, s, o) ELSE x
  <2>1. /\ n[s] \in SlotEntry
        /\ \A o \in Offs: InternalProbe(n, s, o) = SlotVoxel(n[s], o)
    BY NodeFacts
  <2>2. CASE \E l \in Leaf: n[s] = Child(l)
    <3>1. PICK l \in Leaf: n[s] = Child(l)  BY <2>2
    <3>2. g[s] = Child(LeafMergeTile(l, x))  BY <3>1, EntryFacts DEF InternalMergeTile
    <3> QED BY <2>1, <3>1, <3>2, LeafMergeTileFacts, SlotFacts, SlotVoxelFacts
  <2>3. CASE \E y \in Voxel: n[s] = Tile(y) /\ y.on
    <3>1. g[s] = n[s]  BY <2>3, EntryFacts DEF InternalMergeTile
    <3> QED BY <2>1, <2>3, <3>1, SlotVoxelFacts
  <2>4. CASE \E y \in Voxel: n[s] = Tile(y) /\ ~y.on
    <3>1. g[s] = Tile(x)  BY <2>4, EntryFacts DEF InternalMergeTile
    <3> QED BY <2>1, <2>4, <3>1, SlotFacts, SlotVoxelFacts
  <2> QED BY <2>1, <2>2, <2>3, <2>4, SlotShapes
<1>2. g = [s \in Slots |-> g[s]]  BY DEF InternalMergeTile
<1> HIDE DEF g
<1>3. /\ g \in Internal
      /\ \A s \in Slots, o \in Offs: InternalProbe(g, s, o) = SlotVoxel(g[s], o)
  BY <1>1, <1>2, NodeBuilt
<1> QED BY <1>1, <1>3 DEF g

\* One key of RootNode::merge().
LEMMA EntryMergeFacts ==
  ASSUME NEW e \in RootEntry, NEW f \in RootEntry, NEW bg \in Values, NEW obg \in Values,
         NEW policy \in Policies
  PROVE  /\ EntryMerge(e, f, bg, obg, policy) \in RootEntry
         /\ \A s \in Slots, o \in Offs:
              EntryVoxel(EntryMerge(e, f, bg, obg, policy), bg, s, o)
                \in IF IsChild(e) /\ IsChild(f)
                    THEN Merged(EntryVoxel(e, bg, s, o), EntryVoxel(f, obg, s, o), bg, obg, policy)
                    ELSE Merged(EntryVoxel(e, bg, s, o), EntryVoxel(f, obg, s, o), obg, bg, policy)
<1> DEFINE r == EntryMerge(e, f, bg, obg, policy)
<1>0. policy \in {"states", "nodes", "both"}  BY DEF Policies
<1>9. \A s \in Slots, o \in Offs: /\ EntryVoxel(e, bg, s, o) \in Voxel
                                  /\ EntryVoxel(f, obg, s, o) \in Voxel
  BY EntryVoxelType
<1>1. CASE IsChild(e) /\ IsChild(f)
  <2> PICK n \in Internal, m \in Internal: e = Child(n) /\ f = Child(m)  BY <1>1, RootFacts
  <2> DEFINE p == InternalMerge(n, m, obg, bg, policy)
  <2>1. r = Child(p)  BY EntryFacts DEF EntryMerge
  <2>2. /\ p \in Internal
        /\ \A s \in Slots, o \in Offs:
             InternalProbe(p, s, o)
               \in Merged(InternalProbe(n, s, o), InternalProbe(m, s, o), bg, obg, policy)
    BY InternalMergeFacts
  <2> HIDE DEF p, r
  <2>3. r \in RootEntry /\ \A s \in Slots, o \in Offs: EntryVoxel(r, bg, s, o) = InternalProbe(p, s, o)
    BY <2>1, <2>2, EntryNode
  <2>4. \A s, o: /\ EntryVoxel(e, bg, s, o) = InternalProbe(n, s, o)
                 /\ EntryVoxel(f, obg, s, o) = InternalProbe(m, s, o)
    BY EntryVoxelFacts
  <2> QED BY <1>1, <2>2, <2>3, <2>4 DEF r
<1>2. CASE ~IsChild(e) /\ IsChild(f)
  <2> PICK m \in Internal: f = Child(m)  BY <1>2, RootFacts
  <2> DEFINE z == InternalReset(m, obg, bg)
             x == Plain(e, bg)
  <2>0. /\ z \in Internal
        /\ \A s \in Slots, o \in Offs: InternalProbe(z, s, o) = Reset(InternalProbe(m, s, o), obg, bg)
    BY InternalResetFacts
  <2>9. /\ x \in Voxel
        /\ \A s, o: EntryVoxel(e, bg, s, o) = x
        /\ \A s, o: EntryVoxel(f, obg, s, o) = InternalProbe(m, s, o)
        /\ OnTile(e) <=> x.on
        /\ e = Absent \/ OffTile(e) <=> ~x.on
        /\ OnTile(e) => e.voxel = x
        /\ f.node = m
    BY <1>2, PlainFacts, EntryFacts, EntryVoxelFacts
  <2>8. \A s \in Slots, o \in Offs: InternalProbe(m, s, o) \in Voxel  BY NodeFacts
  <2>1. CASE ~x.on \/ policy = "nodes"
    <3>1. r = Child(z)  BY <1>2, <2>1, <2>9, EntryFacts DEF EntryMerge
    <3> HIDE DEF r, z, x
    <3>2. r \in RootEntry /\ \A s \in Slots, o \in Offs: EntryVoxel(r, bg, s, o) = InternalProbe(z, s, o)
      BY <2>0, <3>1, EntryNode
    <3>3. \A s \in Slots, o \in Offs:
            Reset(InternalProbe(m, s, o), obg, bg) \in Merged(x, InternalProbe(m, s, o), obg, bg, policy)
      BY <2>1, <2>8, <2>9, MergedFacts
    <3> QED BY <1>2, <2>0, <2>9, <3>2, <3>3 DEF r
  <2>2. CASE x.on /\ policy = "both"
    <3> DEFINE p == InternalMergeTile(z, x)
    <3>1. r = Child(p)  BY <1>2, <2>2, <2>9, EntryFacts DEF EntryMerge
    <3> HIDE DEF r, z, x
    <3>2. /\ p \in Internal
          /\ \A s \in Slots, o \in Offs: InternalProbe(p, s, o)
               = IF InternalProbe(z, s, o).on THEN InternalProbe(z, s, o) ELSE x
      BY <2>0, <2>9, InternalMergeTileFacts
    <3> HIDE DEF p
    <3>3. r \in RootEntry /\ \A s \in Slots, o \in Offs: EntryVoxel(r, bg, s, o) = InternalProbe(p, s, o)
      BY <3>1, <3>2, EntryNode
    <3>4. \A s \in Slots, o \in Offs:
            InternalProbe(p, s, o) \in Merged(x, InternalProbe(m, s, o), obg, bg, policy)
      BY <2>0, <2>2, <2>8, <2>9, <3>2, MergedFacts
    <3> QED BY <1>2, <2>9, <3>3, <3>4 DEF r
  <2>3. CASE x.on /\ policy = "states"
    <3>1. r = e  BY <1>2, <2>3, <2>9, EntryFacts DEF EntryMerge
    <3> HIDE DEF r, x
    <3> QED BY <1>2, <2>3, <2>8, <2>9, <3>1, MergedFacts DEF r
  <2> QED BY <1>0, <2>1, <2>2, <2>3
<1>3. CASE ~IsChild(f) /\ IsChild(e)
  <2> PICK n \in Internal: e = Child(n)  BY <1>3, RootFacts
  <2> DEFINE y == Plain(f, obg)
  <2>9. /\ y \in Voxel
        /\ \A s, o: EntryVoxel(f, obg, s, o) = y
        /\ \A s, o: EntryVoxel(e, bg, s, o) = InternalProbe(n, s, o)
        /\ OnTile(f) <=> y.on
        /\ OnTile(f) => f.voxel = y
        /\ e.node = n /\ ~OnTile(e) /\ ~OffTile(e) /\ e # Absent
    BY <1>3, PlainFacts, EntryFacts, EntryVoxelFacts
  <2>8. \A s \in Slots, o \in Offs: InternalProbe(n, s, o) \in Voxel  BY NodeFacts
  <2>1. CASE ~y.on \/ policy = "nodes"
    <3>1. r = e  BY <1>3, <2>1, <2>9 DEF EntryMerge
    <3> HIDE DEF r, y
    <3> QED BY <1>3, <2>1, <2>8, <2>9, <3>1, MergedFacts DEF r
  <2>2. CASE y.on /\ policy = "states"
    <3>1. r = f  BY <1>3, <2>2, <2>9 DEF EntryMerge
    <3>2. \A s, o: EntryVoxel(f, bg, s, o) = y
      BY <2>2, <2>9, EntryFacts, <1>3 DEF EntryVoxel
    <3> HIDE DEF r, y
    <3> QED BY <1>3, <2>2, <2>8, <2>9, <3>1, <3>2, MergedFacts DEF r
  <2>3. CASE y.on /\ policy = "both"
    <3> DEFINE p == InternalMergeTile(n, y)
    <3>1. r = Child(p)  BY <1>3, <2>3, <2>9 DEF EntryMerge
    <3> HIDE DEF r, y
    <3>2. /\ p \in Internal
          /\ \A s \in Slots, o \in Offs: InternalProbe(p, s, o)
               = IF InternalProbe(n, s, o).on THEN InternalProbe(n, s, o) ELSE y
      BY <2>9, InternalMergeTileFacts
    <3> HIDE DEF p
    <3>3. r \in RootEntry /\ \A s \in Slots, o \in Offs: EntryVoxel(r, bg, s, o) = InternalProbe(p, s, o)
      BY <3>1, <3>2, EntryNode
    <3>4. \A s \in Slots, o \in Offs:
            InternalProbe(p, s, o) \in Merged(InternalProbe(n, s, o), y, obg, bg, policy)
      BY <2>3, <2>8, <2>9, <3>2, MergedFacts
    <3> QED BY <1>3, <2>9, <3>3, <3>4 DEF r
  <2> QED BY <1>0, <2>1, <2>2, <2>3
<1>4. CASE ~IsChild(f) /\ ~IsChild(e)
  <2> DEFINE x == Plain(e, bg)
             y == Plain(f, obg)
  <2>8. /\ y \in Voxel
        /\ \A s, o: EntryVoxel(f, obg, s, o) = y
        /\ OnTile(f) <=> y.on
        /\ OnTile(f) => f.voxel = y
    BY <1>4, PlainFacts, EntryFacts
  <2>9. /\ x \in Voxel
        /\ \A s, o: EntryVoxel(e, bg, s, o) = x
        /\ OnTile(e) <=> x.on
        /\ e = Absent \/ OffTile(e) <=> ~x.on
    BY <1>4, PlainFacts, EntryFacts
  <2>1. CASE y.on /\ ~x.on /\ policy # "nodes"
    <3>1. r = f  BY <1>4, <2>1, <2>8, <2>9 DEF EntryMerge
    <3>2. \A s, o: EntryVoxel(f, bg, s, o) = y
      BY <1>4, <2>1, <2>8, EntryFacts DEF EntryVoxel
    <3> HIDE DEF r, x, y
    <3> QED BY <1>4, <2>1, <2>8, <2>9, <3>1, <3>2, MergedFacts DEF r
  <2>2. CASE ~(y.on /\ ~x.on /\ policy # "nodes")
    <3>1. r = e  BY <1>4, <2>2, <2>8, <2>9 DEF EntryMerge
    <3> HIDE DEF r, x, y
    <3> QED BY <1>4, <2>2, <2>8, <2>9, <3>1, MergedFacts DEF r
  <2> QED BY <2>1, <2>2
<1> QED BY <1>1, <1>2, <1>3, <1>4

\* merge() keeps active voxels of either tree, for every policy.
LEMMA RootMergeFacts ==
  ASSUME NEW t \in Tree, NEW o \in Tree, NEW policy \in Policies
  PROVE  /\ RootMerge(t, o, policy) \in Tree
         /\ RootMerge(t, o, policy).background = t.background
         /\ \A c \in Coords:
              Probe(RootMerge(t, o, policy), c)
                \in IF c \in Turned(t, o)
                    THEN Merged(Probe(t, c), Probe(o, c), t.background, o.background, policy)
                    ELSE Merged(Probe(t, c), Probe(o, c), o.background, t.background, policy)
<1> DEFINE g == [k \in Keys |->
              EntryMerge(t.table[k], o.table[k], t.background, o.background, policy)]
<1>0. RootMerge(t, o, policy) = WithTable(t, g) /\ g = [k \in Keys |-> g[k]]  BY DEF RootMerge
<1>1. ASSUME NEW k \in Keys
      PROVE  /\ g[k] \in RootEntry
             /\ \A s \in Slots, p \in Offs:
                  EntryVoxel(g[k], t.background, s, p)
                    \in IF IsChild(t.table[k]) /\ IsChild(o.table[k])
                        THEN Merged(EntryVoxel(t.table[k], t.background, s, p),
                                    EntryVoxel(o.table[k], o.background, s, p),
                                    t.background, o.background, policy)
                        ELSE Merged(EntryVoxel(t.table[k], t.background, s, p),
                                    EntryVoxel(o.table[k], o.background, s, p),
                                    o.background, t.background, policy)
  <2>1. /\ t.table[k] \in RootEntry /\ o.table[k] \in RootEntry
        /\ t.background \in Values /\ o.background \in Values
    BY TableFacts
  <2>2. g[k] = EntryMerge(t.table[k], o.table[k], t.background, o.background, policy)  OBVIOUS
  <2> HIDE DEF g
  <2> QED BY <2>1, <2>2, EntryMergeFacts
<1> HIDE DEF g
<1>2. WithTable(t, g) \in Tree /\ WithTable(t, g).background = t.background
      /\ \A c \in Coords: Probe(WithTable(t, g), c)
                            = EntryVoxel(g[c[1]], t.background, c[2], c[3])
  BY <1>0, <1>1, TableBuilt
<1>3. ASSUME NEW c \in Coords
      PROVE  Probe(WithTable(t, g), c)
                \in IF c \in Turned(t, o)
                    THEN Merged(Probe(t, c), Probe(o, c), t.background, o.background, policy)
                    ELSE Merged(Probe(t, c), Probe(o, c), o.background, t.background, policy)
  <2>1. c \in Turned(t, o) <=> IsChild(t.table[c[1]]) /\ IsChild(o.table[c[1]])
    BY DEF Turned
  <2>2. /\ Probe(t, c) = EntryVoxel(t.table[c[1]], t.background, c[2], c[3])
        /\ Probe(o, c) = EntryVoxel(o.table[c[1]], o.background, c[2], c[3])
        /\ c[1] \in Keys /\ c[2] \in Slots /\ c[3] \in Offs
    BY ProbeEntry, CoordFacts
  <2> QED BY <1>1, <1>2, <2>1, <2>2
<1> QED BY <1>0, <1>2, <1>3

-----------------------------------------------------------------------------
(* modifyValueAndActiveState().                                            *)

\* Either the slot's node holds the rewritten voxel, or nothing has changed and
\* some voxel is what the functor makes of its opposite.
LEMMA InternalModifyFacts ==
  ASSUME NEW n \in Internal, NEW s \in Slots, NEW o \in Offs, NEW w \in [Voxel -> Voxel]
  PROVE  /\ InternalModify(n, s, o, w) \in Internal
         /\ \/ \A r \in Slots, p \in Offs:
                 InternalProbe(InternalModify(n, s, o, w), r, p)
                   = IF r = s /\ p = o THEN w[InternalProbe(n, s, o)] ELSE InternalProbe(n, r, p)
            \/ /\ InternalModify(n, s, o, w) = n
               /\ \E x \in Voxel: w[Vox(x.value, ~x.on)] = x
<1> DEFINE e == Child(LeafWrite(OpenSlot(n[s]), o, w))
<1>1. n[s] \in SlotEntry  BY NodeFacts
<1>2. OpenSlot(n[s]) \in Leaf /\ \A p \in Offs: OpenSlot(n[s])[p] = InternalProbe(n, s, p)
  BY <1>1, OpenSlotFacts, NodeFacts
<1>3. /\ e \in SlotEntry
      /\ \A p \in Offs: SlotVoxel(e, p)
           = IF p = o THEN w[InternalProbe(n, s, o)] ELSE InternalProbe(n, s, p)
  BY <1>2, LeafWriteFacts, SlotFacts, SlotVoxelFacts
<1>4. CASE IsTile(n[s]) /\ w[Vox(n[s].voxel.value, ~n[s].voxel.on)] = n[s].voxel
  <2>1. InternalModify(n, s, o, w) = n  BY <1>4 DEF InternalModify
  <2>2. n[s].voxel \in Voxel  BY <1>1, <1>4, SlotFacts
  <2> QED BY <1>4, <2>1, <2>2
<1>5. CASE ~(IsTile(n[s]) /\ w[Vox(n[s].voxel.value, ~n[s].voxel.on)] = n[s].voxel)
  <2>1. InternalModify(n, s, o, w) = [n EXCEPT ![s] = e]  BY <1>5 DEF InternalModify
  <2> HIDE DEF e
  <2>3. \A m: m = [n EXCEPT ![s] = e] =>
          /\ m \in Internal
          /\ \A r \in Slots, p \in Offs:
               InternalProbe(m, r, p)
                 = IF r = s THEN SlotVoxel(e, p) ELSE InternalProbe(n, r, p)
    BY <1>3, SlotExceptFacts
  <2>2. /\ InternalModify(n, s, o, w) \in Internal
        /\ \A r \in Slots, p \in Offs:
             InternalProbe(InternalModify(n, s, o, w), r, p)
               = IF r = s THEN SlotVoxel(e, p) ELSE InternalProbe(n, r, p)
    BY <2>1, <2>3
  <2> QED BY <1>3, <2>2
<1> QED BY <1>4, <1>5

\* modifyValueAndActiveState() writes its voxel, or nothing at all.
LEMMA RootModifyFacts ==
  ASSUME NEW t \in Tree, NEW c \in Coords, NEW w \in [Voxel -> Voxel]
  PROVE  /\ RootModify(t, c, w) \in Tree
         /\ RootModify(t, c, w).background = t.background
         /\ \/ \A d \in Coords: Probe(RootModify(t, c, w), d)
                                  = IF d = c THEN w[Probe(t, c)] ELSE Probe(t, d)
            \/ /\ \A d \in Coords: Probe(RootModify(t, c, w), d) = Probe(t, d)
               /\ \E x \in Voxel: w[Vox(x.value, ~x.on)] = x
<1> DEFINE n == OpenKey(t, c[1])
           m == InternalModify(n, c[2], c[3], w)
           u == WithKey(t, c[1], Child(m))
<1>0. c[1] \in Keys /\ c[2] \in Slots /\ c[3] \in Offs  BY CoordFacts
<1>1. CASE IsTile(t.table[c[1]]) /\ w[t.table[c[1]].voxel] = t.table[c[1]].voxel
  <2>1. RootModify(t, c, w) = t  BY <1>1 DEF RootModify
  <2>2. Probe(t, c) = t.table[c[1]].voxel
    BY <1>0, <1>1, TableFacts, RootFacts, ProbeEntry DEF EntryVoxel
  <2> QED BY <1>1, <2>1, <2>2
<1>2. CASE ~(IsTile(t.table[c[1]]) /\ w[t.table[c[1]].voxel] = t.table[c[1]].voxel)
  <2>1. RootModify(t, c, w) = u  BY <1>2 DEF RootModify
  <2>2. /\ n \in Internal
        /\ \A s \in Slots, o \in Offs:
             InternalProbe(n, s, o) = EntryVoxel(t.table[c[1]], t.background, s, o)
    BY <1>0, OpenKeyFacts
  <2> HIDE DEF n
  <2>3. /\ m \in Internal
        /\ \/ \A s \in Slots, o \in Offs:
                InternalProbe(m, s, o)
                  = IF s = c[2] /\ o = c[3] THEN w[InternalProbe(n, c[2], c[3])]
                    ELSE InternalProbe(n, s, o)
           \/ m = n /\ \E x \in Voxel: w[Vox(x.value, ~x.on)] = x
    BY <1>0, <2>2, InternalModifyFacts
  <2> HIDE DEF m
  <2>4. /\ u \in Tree /\ u.background = t.background
        /\ \A d \in Coords: Probe(u, d)
             = IF d[1] = c[1] THEN InternalProbe(m, d[2], d[3]) ELSE Probe(t, d)
    BY <1>0, <2>3, WithNodeFacts
  <2> HIDE DEF u
  <2>5. \A d \in Coords: d[1] = c[1] => Probe(t, d) = InternalProbe(n, d[2], d[3])
    BY <2>2, ProbeEntry, CoordFacts
  <2>6. CASE m = n /\ \E x \in Voxel: w[Vox(x.value, ~x.on)] = x
    BY <2>1, <2>4, <2>5, <2>6
  <2>7. CASE \A s \in Slots, o \in Offs:
               InternalProbe(m, s, o)
                 = IF s = c[2] /\ o = c[3] THEN w[InternalProbe(n, c[2], c[3])]
                   ELSE InternalProbe(n, s, o)
    <3>1. ASSUME NEW d \in Coords
          PROVE  Probe(u, d) = IF d = c THEN w[Probe(t, c)] ELSE Probe(t, d)
      <4>1. d[1] \in Keys /\ d[2] \in Slots /\ d[3] \in Offs
            /\ (d = c <=> d[1] = c[1] /\ d[2] = c[2] /\ d[3] = c[3])
        BY CoordFacts
      <4>2. Probe(t, c) = InternalProbe(n, c[2], c[3])  BY <2>5
      <4> QED BY <2>4, <2>5, <2>7, <4>1, <4>2
    <3> QED BY <2>1, <2>4, <3>1
  <2> QED BY <2>3, <2>6, <2>7
<1> QED BY <1>1, <1>2

-----------------------------------------------------------------------------
(* combine() and combine2().                                               *)

Functor == [Voxel \X Voxel -> Voxel]

\* A functor gives voxels, and so does its default-state version.
LEMMA FunctorFacts ==
  ASSUME NEW op \in Functor
  PROVE  /\ \A x \in Voxel, y \in Voxel: op[<<x, y>>] \in Voxel
         /\ Default(op) \in Functor
<1>1. \A p \in Voxel \X Voxel: op[p] \in Voxel  BY DEF Functor
<1>2. ASSUME NEW p \in Voxel \X Voxel
      PROVE  Vox(op[p].value, p[1].on \/ p[2].on) \in Voxel
  BY <1>1 DEF Voxel, Vox
<1>3. Default(op) \in Functor  BY <1>2 DEF Default, Functor
<1> QED BY <1>1, <1>3

\* What a slot is worth once two are combined, by one functor or the other.
LEMMA SlotCombineFacts ==
  ASSUME NEW e \in SlotEntry, NEW f \in SlotEntry, NEW op \in Functor, NEW rev \in Functor
  PROVE  /\ SlotCombine(e, f, op, rev) \in SlotEntry
         /\ \A o \in Offs: SlotVoxel(SlotCombine(e, f, op, rev), o)
              = IF IsTile(e) /\ IsChild(f) THEN rev[<<SlotVoxel(e, o), SlotVoxel(f, o)>>]
                ELSE op[<<SlotVoxel(e, o), SlotVoxel(f, o)>>]
<1> DEFINE r == SlotCombine(e, f, op, rev)
<1>0. \A x \in Voxel, y \in Voxel: op[<<x, y>>] \in Voxel /\ rev[<<x, y>>] \in Voxel  BY FunctorFacts
<1>1. CASE \E x \in Voxel, y \in Voxel: e = Tile(x) /\ f = Tile(y)
  <2>1. PICK x \in Voxel, y \in Voxel: e = Tile(x) /\ f = Tile(y)  BY <1>1
  <2>2. r = Tile(op[<<x, y>>])  BY <2>1, EntryFacts DEF SlotCombine
  <2>3. ~IsChild(f)  BY <2>1, EntryFacts
  <2> HIDE DEF r
  <2>4. r \in SlotEntry /\ \A o \in Offs: SlotVoxel(r, o) = op[<<SlotVoxel(e, o), SlotVoxel(f, o)>>]
    BY <1>0, <2>1, <2>2, SlotFacts, SlotVoxelFacts
  <2> QED BY <2>3, <2>4 DEF r
<1>2. CASE \E l \in Leaf, y \in Voxel: e = Child(l) /\ f = Tile(y)
  <2>1. PICK l \in Leaf, y \in Voxel: e = Child(l) /\ f = Tile(y)  BY <1>2
  <2> DEFINE m == [o \in Offs |-> op[<<e.node[o], f.voxel>>]]
  <2>2. IsChild(e) /\ ~IsTile(e) /\ e.node = l /\ IsTile(f) /\ ~IsChild(f) /\ f.voxel = y
    BY <2>1, EntryFacts
  <2>3. r = Child(m)  BY <2>2 DEF SlotCombine
  <2>4. m \in Leaf  BY <1>0, <2>2, LeafRange DEF Leaf
  <2>5. \A o \in Offs: m[o] = op[<<l[o], y>>]  BY <2>2
  <2> HIDE DEF m
  <2> QED BY <2>1, <2>2, <2>3, <2>4, <2>5, SlotFacts, SlotVoxelFacts
<1>3. CASE \E x \in Voxel, l \in Leaf: e = Tile(x) /\ f = Child(l)
  <2>1. PICK x \in Voxel, l \in Leaf: e = Tile(x) /\ f = Child(l)  BY <1>3
  <2> DEFINE m == [o \in Offs |-> rev[<<e.voxel, f.node[o]>>]]
  <2>2. IsTile(e) /\ ~IsChild(e) /\ e.voxel = x /\ IsChild(f) /\ ~IsTile(f) /\ f.node = l
    BY <2>1, EntryFacts
  <2>3. r = Child(m)  BY <2>2 DEF SlotCombine
  <2>4. m \in Leaf  BY <1>0, <2>2, LeafRange DEF Leaf
  <2>5. \A o \in Offs: m[o] = rev[<<x, l[o]>>]  BY <2>2
  <2> HIDE DEF m
  <2> QED BY <2>1, <2>2, <2>3, <2>4, <2>5, SlotFacts, SlotVoxelFacts
<1>4. CASE \E l \in Leaf, k \in Leaf: e = Child(l) /\ f = Child(k)
  <2>1. PICK l \in Leaf, k \in Leaf: e = Child(l) /\ f = Child(k)  BY <1>4
  <2> DEFINE m == [o \in Offs |-> op[<<e.node[o], f.node[o]>>]]
  <2>2. IsChild(e) /\ ~IsTile(e) /\ e.node = l /\ IsChild(f) /\ ~IsTile(f) /\ f.node = k
    BY <2>1, EntryFacts
  <2>3. r = Child(m)  BY <2>2 DEF SlotCombine
  <2>4. m \in Leaf  BY <1>0, <2>2, LeafRange DEF Leaf
  <2>5. \A o \in Offs: m[o] = op[<<l[o], k[o]>>]  BY <2>2
  <2> HIDE DEF m
  <2> QED BY <2>1, <2>2, <2>3, <2>4, <2>5, SlotFacts, SlotVoxelFacts
<1> QED BY <1>1, <1>2, <1>3, <1>4, SlotShapes

\* Combining two internal nodes.
LEMMA InternalCombineFacts ==
  ASSUME NEW n \in Internal, NEW m \in Internal, NEW op \in Functor, NEW rev \in Functor
  PROVE  /\ InternalCombine(n, m, op, rev) \in Internal
         /\ \A s \in Slots, o \in Offs:
              InternalProbe(InternalCombine(n, m, op, rev), s, o)
                = IF IsTile(n[s]) /\ IsChild(m[s])
                  THEN rev[<<InternalProbe(n, s, o), InternalProbe(m, s, o)>>]
                  ELSE op[<<InternalProbe(n, s, o), InternalProbe(m, s, o)>>]
<1> DEFINE g == InternalCombine(n, m, op, rev)
<1>1. ASSUME NEW s \in Slots
      PROVE  /\ g[s] \in SlotEntry
             /\ \A o \in Offs: SlotVoxel(g[s], o)
                  = IF IsTile(n[s]) /\ IsChild(m[s])
                    THEN rev[<<InternalProbe(n, s, o), InternalProbe(m, s, o)>>]
                    ELSE op[<<InternalProbe(n, s, o), InternalProbe(m, s, o)>>]
  <2>1. /\ n[s] \in SlotEntry /\ m[s] \in SlotEntry
        /\ \A o \in Offs: /\ InternalProbe(n, s, o) = SlotVoxel(n[s], o)
                          /\ InternalProbe(m, s, o) = SlotVoxel(m[s], o)
    BY NodeFacts
  <2>2. g[s] = SlotCombine(n[s], m[s], op, rev)  BY DEF InternalCombine
  <2> HIDE DEF g
  <2>3. ASSUME NEW e \in SlotEntry, NEW f \in SlotEntry
        PROVE  /\ SlotCombine(e, f, op, rev) \in SlotEntry
               /\ \A o \in Offs: SlotVoxel(SlotCombine(e, f, op, rev), o)
                    = IF IsTile(e) /\ IsChild(f) THEN rev[<<SlotVoxel(e, o), SlotVoxel(f, o)>>]
                      ELSE op[<<SlotVoxel(e, o), SlotVoxel(f, o)>>]
    BY SlotCombineFacts
  <2>4. /\ g[s] \in SlotEntry
        /\ \A o \in Offs: SlotVoxel(g[s], o)
             = IF IsTile(n[s]) /\ IsChild(m[s])
               THEN rev[<<SlotVoxel(n[s], o), SlotVoxel(m[s], o)>>]
               ELSE op[<<SlotVoxel(n[s], o), SlotVoxel(m[s], o)>>]
    BY <2>1, <2>2, <2>3
  <2> QED BY <2>1, <2>4
<1>2. g = [s \in Slots |-> g[s]]  BY DEF InternalCombine
<1> HIDE DEF g
<1>3. /\ g \in Internal
      /\ \A s \in Slots, o \in Offs: InternalProbe(g, s, o) = SlotVoxel(g[s], o)
  BY <1>1, <1>2, NodeBuilt
<1> QED BY <1>1, <1>3 DEF g

\* Combining two root entries.
LEMMA EntryCombineFacts ==
  ASSUME NEW e \in RootEntry, NEW f \in RootEntry, e # Absent, f # Absent,
         NEW op \in Functor, NEW rev \in Functor
  PROVE  /\ EntryCombine(e, f, op, rev) \in RootEntry
         /\ \A bg, a, b: \A s \in Slots, o \in Offs:
              EntryVoxel(EntryCombine(e, f, op, rev), bg, s, o)
                = IF Swaps(e, f, s) THEN rev[<<EntryVoxel(e, a, s, o), EntryVoxel(f, b, s, o)>>]
                  ELSE op[<<EntryVoxel(e, a, s, o), EntryVoxel(f, b, s, o)>>]
<1> DEFINE r == EntryCombine(e, f, op, rev)
<1>0. \A x \in Voxel, y \in Voxel: op[<<x, y>>] \in Voxel /\ rev[<<x, y>>] \in Voxel  BY FunctorFacts
<1>1. CASE \E x \in Voxel, y \in Voxel: e = Tile(x) /\ f = Tile(y)
  <2>1. PICK x \in Voxel, y \in Voxel: e = Tile(x) /\ f = Tile(y)  BY <1>1
  <2>2. r = Tile(op[<<x, y>>])  BY <2>1, EntryFacts DEF EntryCombine
  <2>3. \A s: ~Swaps(e, f, s)  BY <2>1, EntryFacts DEF Swaps
  <2> QED BY <1>0, <2>1, <2>2, <2>3, RootFacts, EntryVoxelFacts
<1>2. CASE \E n \in Internal, y \in Voxel: e = Child(n) /\ f = Tile(y)
  <2>1. PICK n \in Internal, y \in Voxel: e = Child(n) /\ f = Tile(y)  BY <1>2
  <2> DEFINE m == FullInternal(y)
             p == InternalCombine(n, m, op, rev)
  <2>2. r = Child(p)  BY <2>1, EntryFacts DEF EntryCombine
  <2>3. m \in Internal /\ \A s \in Slots, o \in Offs: InternalProbe(m, s, o) = y
    BY FullInternalFacts
  <2>6. \A s: ~Swaps(e, f, s)  BY <2>1, EntryFacts DEF Swaps
  <2> HIDE DEF m, r
  <2>4. /\ p \in Internal
        /\ \A s \in Slots, o \in Offs: InternalProbe(p, s, o)
             = op[<<InternalProbe(n, s, o), y>>]
    <3>1. \A s \in Slots: ~IsChild(m[s])  BY EntryFacts DEF m, FullInternal
    <3> QED BY <2>3, <3>1, InternalCombineFacts
  <2> HIDE DEF p
  <2>5. \A bg, s, o: /\ EntryVoxel(r, bg, s, o) = InternalProbe(p, s, o)
                     /\ EntryVoxel(e, bg, s, o) = InternalProbe(n, s, o)
                     /\ EntryVoxel(f, bg, s, o) = y
    BY <2>1, <2>2, EntryVoxelFacts
  <2> QED BY <2>2, <2>4, <2>5, <2>6, RootFacts DEF r
<1>3. CASE \E x \in Voxel, n \in Internal: e = Tile(x) /\ f = Child(n)
  <2>1. PICK x \in Voxel, n \in Internal: e = Tile(x) /\ f = Child(n)  BY <1>3
  <2> DEFINE m == FullInternal(x)
             p == InternalCombine(m, n, rev, rev)
  <2>2. r = Child(p)  BY <2>1, EntryFacts DEF EntryCombine
  <2>3. m \in Internal /\ \A s \in Slots, o \in Offs: InternalProbe(m, s, o) = x
    BY FullInternalFacts
  <2>6. \A s: Swaps(e, f, s)  BY <2>1, EntryFacts DEF Swaps
  <2> HIDE DEF m, r
  <2>4. /\ p \in Internal
        /\ \A s \in Slots, o \in Offs: InternalProbe(p, s, o) = rev[<<x, InternalProbe(n, s, o)>>]
    BY <2>3, InternalCombineFacts
  <2> HIDE DEF p
  <2>5. \A bg, s, o: /\ EntryVoxel(r, bg, s, o) = InternalProbe(p, s, o)
                     /\ EntryVoxel(e, bg, s, o) = x
                     /\ EntryVoxel(f, bg, s, o) = InternalProbe(n, s, o)
    BY <2>1, <2>2, EntryVoxelFacts
  <2> QED BY <2>2, <2>4, <2>5, <2>6, RootFacts DEF r
<1>4. CASE \E n \in Internal, m \in Internal: e = Child(n) /\ f = Child(m)
  <2>1. PICK n \in Internal, m \in Internal: e = Child(n) /\ f = Child(m)  BY <1>4
  <2> DEFINE p == InternalCombine(n, m, op, rev)
  <2>2. r = Child(p)  BY <2>1, EntryFacts DEF EntryCombine
  <2>6. \A s: Swaps(e, f, s) <=> IsTile(n[s]) /\ IsChild(m[s])  BY <2>1, EntryFacts DEF Swaps
  <2> HIDE DEF r
  <2>4. /\ p \in Internal
        /\ \A s \in Slots, o \in Offs: InternalProbe(p, s, o)
             = IF IsTile(n[s]) /\ IsChild(m[s])
               THEN rev[<<InternalProbe(n, s, o), InternalProbe(m, s, o)>>]
               ELSE op[<<InternalProbe(n, s, o), InternalProbe(m, s, o)>>]
    BY InternalCombineFacts
  <2> HIDE DEF p
  <2>5. \A bg, s, o: /\ EntryVoxel(r, bg, s, o) = InternalProbe(p, s, o)
                     /\ EntryVoxel(e, bg, s, o) = InternalProbe(n, s, o)
                     /\ EntryVoxel(f, bg, s, o) = InternalProbe(m, s, o)
    BY <2>1, <2>2, EntryVoxelFacts
  <2> QED BY <2>2, <2>4, <2>5, <2>6, RootFacts DEF r
<1> QED BY <1>1, <1>2, <1>3, <1>4, RootShapes

\* The pruning at the end of combine() changes no voxel.
LEMMA PruneChildFacts ==
  ASSUME NEW e \in RootEntry, NEW prune
  PROVE  /\ PruneChild(e, prune) \in RootEntry
         /\ \A bg: \A s \in Slots, o \in Offs:
              EntryVoxel(PruneChild(e, prune), bg, s, o) = EntryVoxel(e, bg, s, o)
<1>1. CASE prune /\ IsChild(e)
  <2>1. PICK n \in Internal: e = Child(n)  BY <1>1, RootFacts
  <2>2. PruneChild(e, prune) = Child(InternalPrune(n))
    BY <1>1, <2>1, EntryFacts DEF PruneChild
  <2>3. /\ InternalPrune(n) \in Internal
        /\ \A s \in Slots, o \in Offs:
              InternalProbe(InternalPrune(n), s, o) = InternalProbe(n, s, o)
    BY InternalPruneFacts
  <2>5. \A bg, s, o: /\ EntryVoxel(PruneChild(e, prune), bg, s, o) = InternalProbe(InternalPrune(n), s, o)
                     /\ EntryVoxel(e, bg, s, o) = InternalProbe(n, s, o)
    BY <2>1, <2>2, EntryVoxelFacts
  <2>6. PruneChild(e, prune) \in RootEntry  BY <2>2, <2>3, RootFacts
  <2> QED BY <2>3, <2>5, <2>6
<1>2. CASE ~(prune /\ IsChild(e))
  BY <1>2 DEF PruneChild
<1> QED BY <1>1, <1>2

\* Whatever states are left, the new background is some result of the functor.
LEMMA BackgroundsFacts ==
  ASSUME NEW t \in Tree, NEW o \in Tree, NEW op \in Functor, NEW left \in StatesLeft(t, o)
  PROVE  /\ Backgrounds(t, o, op, left) \in Values
         /\ \E a, b \in BOOLEAN:
              Backgrounds(t, o, op, left) = op[<<Vox(t.background, a), Vox(o.background, b)>>].value
<1>1. left[1] \in BOOLEAN /\ left[2] \in BOOLEAN
  <2> DEFINE pairs == {k \in Written(t, o): IsTile(Solid(t, k)) /\ IsTile(Solid(o, k))}
  <2>1. CASE pairs = {}
    <3>1. left = <<FALSE, FALSE>>  BY <2>1 DEF StatesLeft
    <3> QED BY <3>1
  <2>2. CASE pairs # {}
    <3>1. PICK k \in pairs: left = <<Solid(t, k).voxel.on, Solid(o, k).voxel.on>>
      BY <2>2 DEF StatesLeft
    <3>2. k \in Keys  BY <3>1 DEF Written
    <3>3. Solid(t, k).voxel \in Voxel /\ Solid(o, k).voxel \in Voxel
      BY <3>1, <3>2, SolidFacts, RootFacts
    <3>4. Solid(t, k).voxel.on \in BOOLEAN /\ Solid(o, k).voxel.on \in BOOLEAN
      BY <3>3, VoxelFacts
    <3> QED BY <3>1, <3>4
  <2> QED BY <2>1, <2>2
<1>2. Vox(t.background, left[1]) \in Voxel /\ Vox(o.background, left[2]) \in Voxel
  BY <1>1, TableFacts, VoxelFacts
<1>3. op[<<Vox(t.background, left[1]), Vox(o.background, left[2])>>] \in Voxel
  BY <1>2, FunctorFacts
<1> QED BY <1>1, <1>3, VoxelFacts DEF Backgrounds

\* The entry combine() makes where there is none reads as the background.
LEMMA SolidPair ==
  ASSUME NEW t \in Tree, NEW k \in Keys
  PROVE  /\ Solid(t, k) \in RootEntry /\ Solid(t, k) # Absent
         /\ \A bg: \A s \in Slots, o \in Offs:
              EntryVoxel(Solid(t, k), bg, s, o) = EntryVoxel(t.table[k], t.background, s, o)
<1>1. IsTile(Solid(t, k)) \/ IsChild(Solid(t, k))  BY TableFacts, RootFacts, EntryFacts DEF Solid
<1> QED BY <1>1, SolidFacts, EntryFacts

\* combine() applies the functor to every pair of voxels.
LEMMA RootCombineFacts ==
  ASSUME NEW t \in Tree, NEW o \in Tree, NEW op \in Functor, NEW prune,
         NEW left \in StatesLeft(t, o)
  PROVE  LET u == RootCombine(t, o, op, prune, left)
         IN /\ u \in Tree
            /\ u.background = Backgrounds(t, o, op, left)
            /\ \A c \in Coords:
                 Probe(u, c) =
                   IF c \in Bare(t, o) THEN Off(u.background)
                   ELSE IF c \in Swapped(t, o) THEN Default(op)[<<Probe(t, c), Probe(o, c)>>]
                   ELSE op[<<Probe(t, c), Probe(o, c)>>]
<1> DEFINE rev == Default(op)
           bg == Backgrounds(t, o, op, left)
           g == [k \in Keys |->
                   IF k \in Written(t, o)
                   THEN PruneChild(EntryCombine(Solid(t, k), Solid(o, k), op, rev), prune)
                   ELSE Absent]
           u == RootCombine(t, o, op, prune, left)
<1>0. rev \in Functor /\ bg \in Values  BY FunctorFacts, BackgroundsFacts
<1>1. u = [background |-> bg, table |-> g] /\ g = [k \in Keys |-> g[k]]  BY DEF RootCombine
<1>2. ASSUME NEW k \in Keys, k \in Written(t, o)
      PROVE  /\ g[k] \in RootEntry
             /\ \A s \in Slots, p \in Offs:
                  EntryVoxel(g[k], bg, s, p)
                    = IF Swaps(Solid(t, k), Solid(o, k), s)
                      THEN rev[<<EntryVoxel(t.table[k], t.background, s, p),
                                 EntryVoxel(o.table[k], o.background, s, p)>>]
                      ELSE op[<<EntryVoxel(t.table[k], t.background, s, p),
                                EntryVoxel(o.table[k], o.background, s, p)>>]
  <2> DEFINE e == Solid(t, k)
             f == Solid(o, k)
             r == EntryCombine(e, f, op, rev)
  <2>1. g[k] = PruneChild(r, prune)  BY <1>2
  <2>2. /\ e \in RootEntry /\ e # Absent /\ f \in RootEntry /\ f # Absent
        /\ \A s \in Slots, p \in Offs:
             /\ EntryVoxel(e, bg, s, p) = EntryVoxel(t.table[k], t.background, s, p)
             /\ EntryVoxel(f, bg, s, p) = EntryVoxel(o.table[k], o.background, s, p)
    BY SolidPair
  <2> HIDE DEF rev, bg, g, u, e, f
  <2>3. /\ r \in RootEntry
        /\ \A s \in Slots, p \in Offs:
              EntryVoxel(r, bg, s, p)
                = IF Swaps(e, f, s) THEN rev[<<EntryVoxel(e, bg, s, p), EntryVoxel(f, bg, s, p)>>]
                  ELSE op[<<EntryVoxel(e, bg, s, p), EntryVoxel(f, bg, s, p)>>]
    BY <1>0, <2>2, EntryCombineFacts
  <2> HIDE DEF r
  <2>4. /\ g[k] \in RootEntry
        /\ \A s \in Slots, p \in Offs: EntryVoxel(g[k], bg, s, p) = EntryVoxel(r, bg, s, p)
    BY <2>1, <2>3, PruneChildFacts
  <2> QED BY <2>2, <2>3, <2>4 DEF e, f
<1>3. ASSUME NEW k \in Keys, k \notin Written(t, o)
      PROVE  /\ g[k] \in RootEntry
             /\ g[k] = Absent
  BY <1>3, RootFacts
<1> HIDE DEF rev, bg, g, u
<1>4. /\ u \in Tree /\ u.background = bg
      /\ \A c \in Coords: Probe(u, c) = EntryVoxel(g[c[1]], bg, c[2], c[3])
  <2>1. \A k \in Keys: g[k] \in RootEntry  BY <1>2, <1>3
  <2> QED BY <1>0, <1>1, <2>1, TreeBuilt
<1>5. ASSUME NEW c \in Coords
      PROVE  Probe(u, c) =
               IF c \in Bare(t, o) THEN Off(bg)
               ELSE IF c \in Swapped(t, o) THEN rev[<<Probe(t, c), Probe(o, c)>>]
               ELSE op[<<Probe(t, c), Probe(o, c)>>]
  <2>1. /\ Probe(t, c) = EntryVoxel(t.table[c[1]], t.background, c[2], c[3])
        /\ Probe(o, c) = EntryVoxel(o.table[c[1]], o.background, c[2], c[3])
        /\ c[1] \in Keys /\ c[2] \in Slots /\ c[3] \in Offs
    BY ProbeEntry, CoordFacts
  <2>4. /\ c \in Bare(t, o) <=> c[1] \notin Written(t, o)
        /\ c \in Swapped(t, o) <=> /\ c[1] \in Written(t, o)
                                  /\ Swaps(Solid(t, c[1]), Solid(o, c[1]), c[2])
    BY DEF Bare, Swapped
  <2>2. CASE c[1] \in Written(t, o)
    <3>1. Probe(u, c) = EntryVoxel(g[c[1]], bg, c[2], c[3])  BY <1>4
    <3>2. EntryVoxel(g[c[1]], bg, c[2], c[3])
            = IF Swaps(Solid(t, c[1]), Solid(o, c[1]), c[2])
              THEN rev[<<Probe(t, c), Probe(o, c)>>] ELSE op[<<Probe(t, c), Probe(o, c)>>]
      BY <1>2, <2>1, <2>2
    <3> QED BY <2>2, <2>4, <3>1, <3>2
  <2>3. CASE c[1] \notin Written(t, o)  BY <1>3, <1>4, <2>1, <2>3, <2>4, EntryVoxelFacts
  <2> QED BY <2>2, <2>3
<1> QED BY <1>4, <1>5 DEF u, rev, bg

\* combine2() does so with two other trees.
LEMMA RootCombine2Facts ==
  ASSUME NEW t \in Tree, NEW one \in Tree, NEW two \in Tree, NEW op \in Functor, NEW prune,
         NEW left \in StatesLeft(one, two)
  PROVE  LET u == RootCombine2(t, one, two, op, prune, left)
         IN /\ u \in Tree
            /\ u.background = Backgrounds(one, two, op, left)
            /\ \A c \in Coords:
                 IF c \in Bare(one, two) THEN Probe(u, c) \in {Probe(t, c), Off(u.background)}
                 ELSE Probe(u, c) = op[<<Probe(one, c), Probe(two, c)>>]
<1> DEFINE bg == Backgrounds(one, two, op, left)
           g == [k \in Keys |->
                   IF k \in Written(one, two)
                   THEN PruneChild(EntryCombine(Solid(one, k), Solid(two, k), op, op), prune)
                   ELSE PruneChild(t.table[k], FALSE)]
           u == RootCombine2(t, one, two, op, prune, left)
<1>0. bg \in Values  BY BackgroundsFacts
<1>1. u = [background |-> bg, table |-> g] /\ g = [k \in Keys |-> g[k]]  BY DEF RootCombine2
<1>2. ASSUME NEW k \in Keys, k \in Written(one, two)
      PROVE  /\ g[k] \in RootEntry
             /\ \A s \in Slots, p \in Offs:
                  EntryVoxel(g[k], bg, s, p)
                    = op[<<EntryVoxel(one.table[k], one.background, s, p),
                           EntryVoxel(two.table[k], two.background, s, p)>>]
  <2> DEFINE e == Solid(one, k)
             f == Solid(two, k)
             r == EntryCombine(e, f, op, op)
  <2>1. g[k] = PruneChild(r, prune)  BY <1>2
  <2>2. /\ e \in RootEntry /\ e # Absent /\ f \in RootEntry /\ f # Absent
        /\ \A s \in Slots, p \in Offs:
             /\ EntryVoxel(e, bg, s, p) = EntryVoxel(one.table[k], one.background, s, p)
             /\ EntryVoxel(f, bg, s, p) = EntryVoxel(two.table[k], two.background, s, p)
    BY SolidPair
  <2> HIDE DEF bg, g, u, e, f
  <2>3. /\ r \in RootEntry
        /\ \A s \in Slots, p \in Offs:
              EntryVoxel(r, bg, s, p) = op[<<EntryVoxel(e, bg, s, p), EntryVoxel(f, bg, s, p)>>]
    BY <1>0, <2>2, EntryCombineFacts
  <2> HIDE DEF r
  <2>4. /\ g[k] \in RootEntry
        /\ \A s \in Slots, p \in Offs: EntryVoxel(g[k], bg, s, p) = EntryVoxel(r, bg, s, p)
    BY <2>1, <2>3, PruneChildFacts
  <2> QED BY <2>2, <2>3, <2>4
<1>3. ASSUME NEW k \in Keys, k \notin Written(one, two)
      PROVE  /\ g[k] \in RootEntry
             /\ g[k] = t.table[k]
  BY <1>3, TableFacts DEF PruneChild
<1> HIDE DEF bg, g, u
<1>4. /\ u \in Tree /\ u.background = bg
      /\ \A c \in Coords: Probe(u, c) = EntryVoxel(g[c[1]], bg, c[2], c[3])
  <2>1. \A k \in Keys: g[k] \in RootEntry  BY <1>2, <1>3
  <2> QED BY <1>0, <1>1, <2>1, TreeBuilt
<1>5. ASSUME NEW c \in Coords
      PROVE  IF c \in Bare(one, two) THEN Probe(u, c) \in {Probe(t, c), Off(bg)}
             ELSE Probe(u, c) = op[<<Probe(one, c), Probe(two, c)>>]
  <2>1. /\ Probe(t, c) = EntryVoxel(t.table[c[1]], t.background, c[2], c[3])
        /\ Probe(one, c) = EntryVoxel(one.table[c[1]], one.background, c[2], c[3])
        /\ Probe(two, c) = EntryVoxel(two.table[c[1]], two.background, c[2], c[3])
        /\ c[1] \in Keys /\ c[2] \in Slots /\ c[3] \in Offs
    BY ProbeEntry, CoordFacts
  <2>4. c \in Bare(one, two) <=> c[1] \notin Written(one, two)  BY DEF Bare
  <2>2. CASE c[1] \in Written(one, two)  BY <1>2, <1>4, <2>1, <2>2, <2>4
  <2>3. CASE c[1] \notin Written(one, two)
    <3>1. EntryVoxel(t.table[c[1]], bg, c[2], c[3])
            \in {EntryVoxel(t.table[c[1]], t.background, c[2], c[3]), Off(bg)}
      BY DEF EntryVoxel
    <3> QED BY <1>3, <1>4, <2>1, <2>3, <2>4, <3>1
  <2> QED BY <2>2, <2>3
<1> QED BY <1>4, <1>5 DEF u, bg

-----------------------------------------------------------------------------
(* The calls, as the abstract map sees them.                               *)

\* The map of a tree.
LEMMA MapFacts ==
  ASSUME NEW t \in Tree
  PROVE  /\ VoxelsOf(t) \in [Coords -> Voxel]
         /\ VoxelsOf(t) = [c \in Coords |-> Probe(t, c)]
         /\ \A c \in Coords: VoxelsOf(t)[c] = Probe(t, c)
BY ProbeEntry DEF VoxelsOf

\* VoxelMap's voxels are the voxels of the tree.
LEMMA SameVoxels ==
  /\ VM!Voxel = Voxel
  /\ \A v, on: VM!Vox(v, on) = Vox(v, on)
  /\ \A v: VM!Off(v) = Off(v)
  /\ \A x, v, w: VM!Reset(x, v, w) = Reset(x, v, w)
  /\ \A op: VM!Default(op) = Default(op)
BY DEF VM!Voxel, VM!Vox, VM!Off, VM!Reset, VM!Default, Voxel, Vox, Off, Reset, Default

\* Voxels rewritten in a region are a Write of the map.
LEMMA WriteAnswered ==
  ASSUME TypeOK, TypeOK', NEW part, NEW w,
         tree'.background = tree.background,
         \A c \in Coords: Probe(tree', c) = IF c \in part THEN w[Probe(tree, c)] ELSE Probe(tree, c),
         call'.op \in {"write", "fill"}, call'.part = part, call'.by = w
  PROVE  VM!Answer(call')
<1>1. VM!Write(part, w)
  BY MapFacts DEF VM!Write, VM!Apply, TypeOK
<1> QED BY <1>1 DEF VM!Answer

\* So is a modification, unless the functor was judged idle.
LEMMA ModifyAnswered ==
  ASSUME TypeOK, TypeOK', NEW part, NEW w,
         tree'.background = tree.background,
         \/ \A c \in Coords: Probe(tree', c) = IF c \in part THEN w[Probe(tree, c)] ELSE Probe(tree, c)
         \/ /\ \A c \in Coords: Probe(tree', c) = Probe(tree, c)
            /\ \E x \in Voxel: w[Vox(x.value, ~x.on)] = x,
         call'.op = "modify", call'.part = part, call'.by = w
  PROVE  VM!Answer(call')
<1>1. CASE \A c \in Coords: Probe(tree', c) = IF c \in part THEN w[Probe(tree, c)] ELSE Probe(tree, c)
  <2>1. VM!Write(part, w)  BY <1>1, MapFacts DEF VM!Write, VM!Apply, TypeOK
  <2> QED BY <2>1 DEF VM!Answer, VM!ModifyBoth
<1>2. CASE /\ \A c \in Coords: Probe(tree', c) = Probe(tree, c)
           /\ \E x \in Voxel: w[Vox(x.value, ~x.on)] = x
  <2>1. VoxelsOf(tree') = VoxelsOf(tree)  BY <1>2, MapFacts DEF TypeOK
  <2>2. \E x \in VM!Voxel: w[VM!Vox(x.value, ~x.on)] = x
    BY <1>2 DEF VM!Voxel, VM!Vox, Voxel, Vox
  <2>3. VM!ModifyBoth(part, w)  BY <2>1, <2>2 DEF VM!ModifyBoth
  <2> QED BY <2>3 DEF VM!Answer
<1> QED BY <1>1, <1>2

\* Unchanged voxels.
LEMMA KeepAnswered ==
  ASSUME TypeOK, TypeOK', tree'.background = tree.background,
         \A c \in Coords: Probe(tree', c) = Probe(tree, c),
         call'.op = "keep"
  PROVE  VM!Answer(call')
<1>1. VM!Keep
  BY MapFacts DEF VM!Keep, TypeOK
<1> QED BY <1>1 DEF VM!Answer

\* A region replaced voxel by voxel.
LEMMA PasteAnswered ==
  ASSUME TypeOK, TypeOK', NEW part, NEW patch,
         tree'.background = tree.background,
         \A c \in Coords: Probe(tree', c) = IF c \in part THEN patch[c] ELSE Probe(tree, c),
         call'.op = "paste", call'.part = part, call'.patch = patch
  PROVE  VM!Answer(call')
<1>1. VM!Paste(part, patch)
  BY MapFacts DEF VM!Paste, TypeOK
<1> QED BY <1>1 DEF VM!Answer

\* A region filled, or nothing changed.
LEMMA StealAnswered ==
  ASSUME TypeOK, TypeOK', NEW part, NEW x,
         tree'.background = tree.background,
         \/ \A c \in Coords: Probe(tree', c) = Probe(tree, c)
         \/ \A c \in Coords: Probe(tree', c) = IF c \in part THEN x ELSE Probe(tree, c),
         call'.op = "steal", call'.part = part, call'.with = x
  PROVE  VM!Answer(call')
<1>1. VM!Steal(part, x)
  BY MapFacts DEF VM!Steal, TypeOK
<1> QED BY <1>1 DEF VM!Answer

\* Some voxels replaced by one.
LEMMA StealAllAnswered ==
  ASSUME TypeOK, TypeOK', NEW x,
         tree'.background = tree.background,
         \A c \in Coords: Probe(tree', c) \in {Probe(tree, c), x},
         call'.op = "stealNodes", call'.with = x
  PROVE  VM!Answer(call')
<1>1. VM!StealAll(x)
  BY MapFacts, SameVoxels DEF VM!StealAll, TypeOK
<1> QED BY <1>1 DEF VM!Answer

\* All but a region made background.
LEMMA ClipAnswered ==
  ASSUME TypeOK, TypeOK', NEW part,
         tree'.background = tree.background,
         \A c \in Coords: Probe(tree', c) = IF c \in part THEN Probe(tree, c) ELSE Off(tree.background),
         call'.op = "clip", call'.part = part
  PROVE  VM!Answer(call')
<1>1. VM!Clip(part)
  BY MapFacts, SameVoxels DEF VM!Clip, TypeOK
<1> QED BY <1>1 DEF VM!Answer

\* All voxels converted to the new background.
LEMMA SetBackgroundAnswered ==
  ASSUME TypeOK, TypeOK', NEW new,
         tree'.background = new,
         \A c \in Coords: Probe(tree', c) = Reset(Probe(tree, c), tree.background, new),
         call'.op = "setBackground", call'.new = new
  PROVE  VM!Answer(call')
<1>1. VM!SetBackground(new)
  BY MapFacts, SameVoxels DEF VM!SetBackground, TypeOK
<1> QED BY <1>1 DEF VM!Answer

\* Background voxels alone converted.
LEMMA SetBackgroundOnlyAnswered ==
  ASSUME TypeOK, TypeOK', NEW new,
         tree'.background = new,
         \A c \in Coords: \/ Probe(tree', c) = Probe(tree, c)
                          \/ Probe(tree, c) = Off(tree.background) /\ Probe(tree', c) = Off(new),
         call'.op = "setBackgroundOnly", call'.new = new
  PROVE  VM!Answer(call')
<1>1. VM!SetBackgroundOnly(new)
  BY MapFacts, SameVoxels DEF VM!SetBackgroundOnly, TypeOK
<1> QED BY <1>1 DEF VM!Answer

\* The view of another tree that a call records.
LEMMA ViewFacts ==
  ASSUME NEW o \in Tree
  PROVE  /\ View(o).background = o.background
         /\ \A c \in Coords: View(o).map[c] = Probe(o, c)
BY MapFacts DEF View

\* States united.
LEMMA UnionAnswered ==
  ASSUME TypeOK, TypeOK', NEW o \in Tree,
         tree'.background = tree.background,
         \A c \in Coords: Probe(tree', c) = UnionVoxel(Probe(tree, c), Probe(o, c)),
         call'.op = "union", call'.other = View(o)
  PROVE  VM!Answer(call')
<1>1. VM!TopologyUnion(View(o))
  <2>1. ASSUME NEW c \in Coords
        PROVE  Probe(tree', c)
                 = VM!Vox(VoxelsOf(tree)[c].value, VoxelsOf(tree)[c].on \/ View(o).map[c].on)
    BY MapFacts, ViewFacts DEF UnionVoxel, VM!Vox, Vox, TypeOK
  <2>2. VoxelsOf(tree') = [c \in Coords |-> Probe(tree', c)]  BY DEF VoxelsOf
  <2> QED BY <2>1, <2>2 DEF VM!TopologyUnion
<1> QED BY <1>1 DEF VM!Answer

\* States narrowed to a set.
LEMMA NarrowAnswered ==
  ASSUME TypeOK, TypeOK', NEW active,
         tree'.background = tree.background,
         \A c \in Coords:
           Probe(tree', c) \in IF Probe(tree, c).on /\ c \in active THEN {Probe(tree, c)}
                               ELSE {Off(Probe(tree, c).value), Off(tree.background)}
  PROVE  VM!Narrow(active)
BY MapFacts, SameVoxels DEF VM!Narrow, TypeOK

\* States narrowed to the other tree's active voxels.
LEMMA IntersectionAnswered ==
  ASSUME TypeOK, TypeOK', NEW o \in Tree,
         tree'.background = tree.background,
         \A c \in Coords:
           Probe(tree', c) \in Intersected(Probe(tree, c), Probe(o, c), tree.background),
         call'.op = "intersection", call'.other = View(o)
  PROVE  VM!Answer(call')
<1> DEFINE active == {c \in Coords: View(o).map[c].on}
<1>1. \A c \in Coords: c \in active <=> Probe(o, c).on  BY ViewFacts
<1> HIDE DEF active
<1>2. VM!Narrow(active)  BY <1>1, NarrowAnswered DEF Intersected
<1>3. VM!TopologyIntersection(View(o))  BY <1>2 DEF VM!TopologyIntersection, active
<1> QED BY <1>3 DEF VM!Answer

\* States narrowed to the other tree's inactive voxels.
LEMMA DifferenceAnswered ==
  ASSUME TypeOK, TypeOK', NEW o \in Tree,
         tree'.background = tree.background,
         \A c \in Coords:
           Probe(tree', c) \in Subtracted(Probe(tree, c), Probe(o, c), tree.background),
         call'.op = "difference", call'.other = View(o)
  PROVE  VM!Answer(call')
<1> DEFINE active == {c \in Coords: ~View(o).map[c].on}
<1>1. \A c \in Coords: c \in active <=> ~Probe(o, c).on  BY ViewFacts
<1> HIDE DEF active
<1>2. VM!Narrow(active)  BY <1>1, NarrowAnswered DEF Subtracted
<1>3. VM!TopologyDifference(View(o))  BY <1>2 DEF VM!TopologyDifference, active
<1> QED BY <1>3 DEF VM!Answer

\* Voxels merged.
LEMMA MergeAnswered ==
  ASSUME TypeOK, TypeOK', NEW o \in Tree, NEW policy, NEW turned,
         tree'.background = tree.background,
         \A c \in Coords:
           Probe(tree', c)
             \in IF c \in turned
                 THEN Merged(Probe(tree, c), Probe(o, c), tree.background, o.background, policy)
                 ELSE Merged(Probe(tree, c), Probe(o, c), o.background, tree.background, policy),
         call'.op = "merge", call'.other = View(o), call'.policy = policy, call'.turned = turned
  PROVE  VM!Answer(call')
<1>1. ASSUME NEW c \in Coords
      PROVE  /\ VoxelsOf(tree')[c] \in {VoxelsOf(tree)[c]} \cup VM!Taken(c, View(o), turned)
             /\ policy # "nodes" =>
                  IF VoxelsOf(tree)[c].on \/ View(o).map[c].on
                  THEN VoxelsOf(tree')[c] \in {x \in {VoxelsOf(tree)[c], View(o).map[c]}: x.on}
                  ELSE ~VoxelsOf(tree')[c].on
  <2>1. /\ VoxelsOf(tree')[c] = Probe(tree', c) /\ VoxelsOf(tree)[c] = Probe(tree, c)
        /\ View(o).map[c] = Probe(o, c) /\ View(o).background = o.background
    BY MapFacts, ViewFacts DEF TypeOK
  <2>2. Probe(tree', c)
          \in IF c \in turned
              THEN Merged(Probe(tree, c), Probe(o, c), tree.background, o.background, policy)
              ELSE Merged(Probe(tree, c), Probe(o, c), o.background, tree.background, policy)
    OBVIOUS
  <2> QED BY <2>1, <2>2, SameVoxels DEF Merged, VM!Taken
<1>2. VoxelsOf(tree') \in [Coords -> VM!Voxel]  BY MapFacts, SameVoxels DEF TypeOK
<1>3. VM!Merge(View(o), policy, turned)  BY <1>1, <1>2 DEF VM!Merge
<1> QED BY <1>3 DEF VM!Answer

\* Voxels combined.
LEMMA CombineAnswered ==
  ASSUME TypeOK, TypeOK', NEW o \in Tree, NEW op \in Functor, NEW lost, NEW bare,
         \E a, b \in BOOLEAN:
           tree'.background = op[<<Vox(tree.background, a), Vox(o.background, b)>>].value,
         \A c \in Coords:
           Probe(tree', c) =
             IF c \in bare THEN Off(tree'.background)
             ELSE IF c \in lost THEN Default(op)[<<Probe(tree, c), Probe(o, c)>>]
             ELSE op[<<Probe(tree, c), Probe(o, c)>>],
         call'.op = "combine", call'.other = View(o), call'.by = op,
         call'.lost = lost, call'.bare = bare
  PROVE  VM!Answer(call')
<1>0. View(o).background = o.background  BY ViewFacts
<1>1. ASSUME NEW c \in Coords
      PROVE  VoxelsOf(tree')[c] =
               LET by == IF c \in lost THEN VM!Default(op) ELSE op
               IN IF c \in bare THEN VM!Off(tree'.background)
                  ELSE by[<<VoxelsOf(tree)[c], View(o).map[c]>>]
  <2>1. /\ VoxelsOf(tree')[c] = Probe(tree', c) /\ VoxelsOf(tree)[c] = Probe(tree, c)
        /\ View(o).map[c] = Probe(o, c)
    BY MapFacts, ViewFacts DEF TypeOK
  <2>2. Probe(tree', c) =
          IF c \in bare THEN Off(tree'.background)
          ELSE IF c \in lost THEN Default(op)[<<Probe(tree, c), Probe(o, c)>>]
          ELSE op[<<Probe(tree, c), Probe(o, c)>>]
    OBVIOUS
  <2>3. VM!Off(tree'.background) = Off(tree'.background) /\ VM!Default(op) = Default(op)
    BY SameVoxels
  <2> QED BY <2>1, <2>2, <2>3
<1>2. VoxelsOf(tree') = [c \in Coords |-> VoxelsOf(tree')[c]]  BY MapFacts DEF TypeOK
<1>3. tree'.background
        \in {op[<<VM!Vox(tree.background, a), VM!Vox(View(o).background, b)>>].value: a, b \in BOOLEAN}
  BY <1>0, SameVoxels
<1>4. VM!Combine(View(o), op, lost, bare)  BY <1>1, <1>2, <1>3 DEF VM!Combine
<1> QED BY <1>4 DEF VM!Answer

\* Voxels of two other trees combined.
LEMMA Combine2Answered ==
  ASSUME TypeOK, TypeOK', NEW one \in Tree, NEW two \in Tree, NEW op \in Functor, NEW bare,
         \E a, b \in BOOLEAN:
           tree'.background = op[<<Vox(one.background, a), Vox(two.background, b)>>].value,
         \A c \in Coords:
           IF c \in bare THEN Probe(tree', c) \in {Probe(tree, c), Off(tree'.background)}
           ELSE Probe(tree', c) = op[<<Probe(one, c), Probe(two, c)>>],
         call'.op = "combine2", call'.one = View(one), call'.two = View(two), call'.by = op,
         call'.bare = bare
  PROVE  VM!Answer(call')
<1>0. /\ View(one).background = one.background /\ View(two).background = two.background
  BY ViewFacts
<1>1. ASSUME NEW c \in Coords
      PROVE  IF c \in bare
             THEN VoxelsOf(tree')[c] \in {VoxelsOf(tree)[c], VM!Off(tree'.background)}
             ELSE VoxelsOf(tree')[c] = op[<<View(one).map[c], View(two).map[c]>>]
  <2>1. /\ VoxelsOf(tree')[c] = Probe(tree', c) /\ VoxelsOf(tree)[c] = Probe(tree, c)
        /\ View(one).map[c] = Probe(one, c) /\ View(two).map[c] = Probe(two, c)
    BY MapFacts, ViewFacts DEF TypeOK
  <2>2. VM!Off(tree'.background) = Off(tree'.background)  BY SameVoxels
  <2> QED BY <2>1, <2>2
<1>2. VoxelsOf(tree') \in [Coords -> VM!Voxel]  BY MapFacts, SameVoxels DEF TypeOK
<1>3. tree'.background
        \in {op[<<VM!Vox(View(one).background, a), VM!Vox(View(two).background, b)>>].value:
               a, b \in BOOLEAN}
  BY <1>0, SameVoxels
<1>4. VM!Combine2(View(one), View(two), op, bare)  BY <1>1, <1>2, <1>3, SMTT(60) DEF VM!Combine2
<1> QED BY <1>4 DEF VM!Answer

-----------------------------------------------------------------------------
(* Each call keeps the tree well formed and gives the map's answer.        *)

Answered == TypeOK' /\ VM!Answer(call')

\* The single-voxel writes are functions on voxels.
LEMMA WriteFunctions ==
  /\ TurnOff \in [Voxel -> Voxel]
  /\ \A on \in BOOLEAN: SetState(on) \in [Voxel -> Voxel]
  /\ \A v \in Values: /\ SetOff(v) \in [Voxel -> Voxel]
                      /\ SetOn(v) \in [Voxel -> Voxel]
                      /\ SetOnly(v) \in [Voxel -> Voxel]
  /\ \A f \in ValueOps: Modify(f) \in [Voxel -> Voxel]
  /\ \A f \in ValueOps, g \in StateOps: Both(f, g) \in [Voxel -> Voxel]
<1>1. \A x \in Voxel, v \in Values, on \in BOOLEAN:
        Vox(v, on) \in Voxel /\ x.value \in Values /\ x.on \in BOOLEAN /\ Off(v) \in Voxel
  BY VoxelFacts
<1>2. \A f \in ValueOps, v \in Values: f[v] \in Values  BY TreeAssumption
<1>3. \A g \in StateOps, on \in BOOLEAN: g[on] \in BOOLEAN  BY TreeAssumption
<1>4. TurnOff \in [Voxel -> Voxel]  BY VoxelFacts DEF TurnOff
<1>5. ASSUME NEW on \in BOOLEAN PROVE SetState(on) \in [Voxel -> Voxel]
  <2>1. \A x \in Voxel: Vox(x.value, on) \in Voxel  BY VoxelFacts
  <2> QED BY <2>1 DEF SetState
<1>6. ASSUME NEW v \in Values
      PROVE  /\ SetOff(v) \in [Voxel -> Voxel]
             /\ SetOn(v) \in [Voxel -> Voxel]
             /\ SetOnly(v) \in [Voxel -> Voxel]
  <2>1. SetOff(v) \in [Voxel -> Voxel]  BY <1>1 DEF SetOff
  <2>2. SetOn(v) \in [Voxel -> Voxel]  BY <1>1 DEF SetOn, Vox, Voxel
  <2>3. SetOnly(v) \in [Voxel -> Voxel]  BY <1>1 DEF SetOnly
  <2> QED BY <2>1, <2>2, <2>3
<1>7. ASSUME NEW f \in ValueOps PROVE Modify(f) \in [Voxel -> Voxel]
  BY <1>1, <1>2 DEF Modify, Vox, Voxel
<1>8. ASSUME NEW f \in ValueOps, NEW g \in StateOps PROVE Both(f, g) \in [Voxel -> Voxel]
  <2>1. \A x \in Voxel: Vox(f[x.value], g[x.on]) \in Voxel
    <3>1. TAKE x \in Voxel
    <3>2. x.value \in Values /\ x.on \in BOOLEAN  BY VoxelFacts
    <3>3. f[x.value] \in Values /\ g[x.on] \in BOOLEAN  BY <1>2, <1>3, <3>2
    <3> QED BY <1>1, <3>3
  <2> QED BY <2>1 DEF Both
<1> QED BY <1>4, <1>5, <1>6, <1>7, <1>8

\* A call that is one write of one voxel.
LEMMA WrittenAnswered ==
  ASSUME TypeOK, NEW c \in Coords, NEW w \in [Voxel -> Voxel],
         tree' = RootWriteOff(tree, c, w) \/ tree' = RootWriteOn(tree, c, w),
         call' = Written1(c, w)
  PROVE  Answered
<1>1. /\ tree' \in Tree /\ tree'.background = tree.background
      /\ \A d \in Coords: Probe(tree', d) = IF d = c THEN w[Probe(tree, c)] ELSE Probe(tree, d)
  BY RootWriteFacts DEF TypeOK
<1>2. \A d \in Coords: Probe(tree', d) = IF d \in {c} THEN w[Probe(tree, d)] ELSE Probe(tree, d)
  BY <1>1
<1>3. TypeOK'  BY <1>1 DEF TypeOK
<1>4. call'.op \in {"write", "fill"} /\ call'.part = {c} /\ call'.by = w  BY DEF Written1
<1> QED BY <1>1, <1>2, <1>3, <1>4, WriteAnswered DEF Answered

\* The calls that write one voxel.
LEMMA WriteSteps ==
  ASSUME TypeOK, NEW c \in Coords, NEW v \in Values, NEW on \in BOOLEAN,
         NEW f \in ValueOps, NEW g \in StateOps,
         \/ SetValueOff(c) \/ SetActiveState(c, on)
         \/ SetValueOffTo(c, v) \/ SetValueOn(c, v) \/ SetValueOnly(c, v)
         \/ ModifyValue(c, f) \/ ModifyValueAndActiveState(c, f, g)
  PROVE  Answered
<1>1. CASE SetValueOff(c)
  BY <1>1, WriteFunctions, WrittenAnswered DEF SetValueOff, Do
<1>2. CASE SetActiveState(c, on)
  BY <1>2, WriteFunctions, WrittenAnswered DEF SetActiveState, Do
<1>3. CASE SetValueOffTo(c, v)
  BY <1>3, WriteFunctions, WrittenAnswered DEF SetValueOffTo, Do
<1>4. CASE SetValueOn(c, v)
  BY <1>4, WriteFunctions, WrittenAnswered DEF SetValueOn, Do
<1>5. CASE SetValueOnly(c, v)
  BY <1>5, WriteFunctions, WrittenAnswered DEF SetValueOnly, Do
<1>6. CASE ModifyValue(c, f)
  BY <1>6, WriteFunctions, WrittenAnswered DEF ModifyValue, Do
<1>7. CASE ModifyValueAndActiveState(c, f, g)
  <2> DEFINE w == Both(f, g)
  <2>1. w \in [Voxel -> Voxel]  BY WriteFunctions
  <2>2. tree' = RootModify(tree, c, w) /\ call'.op = "modify" /\ call'.part = {c} /\ call'.by = w
    BY <1>7 DEF ModifyValueAndActiveState, Do
  <2> HIDE DEF w
  <2>3. /\ tree' \in Tree /\ tree'.background = tree.background
        /\ \/ \A d \in Coords: Probe(tree', d) = IF d = c THEN w[Probe(tree, c)] ELSE Probe(tree, d)
           \/ /\ \A d \in Coords: Probe(tree', d) = Probe(tree, d)
              /\ \E x \in Voxel: w[Vox(x.value, ~x.on)] = x
    BY <2>1, <2>2, RootModifyFacts DEF TypeOK
  <2>4. TypeOK'  BY <2>3 DEF TypeOK
  <2>5. CASE \A d \in Coords: Probe(tree', d) = IF d = c THEN w[Probe(tree, c)] ELSE Probe(tree, d)
    <3>1. \A d \in Coords: Probe(tree', d) = IF d \in {c} THEN w[Probe(tree, d)] ELSE Probe(tree, d)
      BY <2>5
    <3> QED BY <2>2, <2>3, <2>4, <3>1, ModifyAnswered DEF Answered
  <2>6. CASE /\ \A d \in Coords: Probe(tree', d) = Probe(tree, d)
             /\ \E x \in Voxel: w[Vox(x.value, ~x.on)] = x
    BY <2>2, <2>3, <2>4, <2>6, ModifyAnswered DEF Answered
  <2> QED BY <2>3, <2>5, <2>6
<1> QED BY <1>1, <1>2, <1>3, <1>4, <1>5, <1>6, <1>7

\* A call that fills a region.
LEMMA FilledAnswered ==
  ASSUME TypeOK, NEW part \in SUBSET Coords, NEW x \in Voxel,
         tree' \in Tree, tree'.background = tree.background,
         \A c \in Coords: Probe(tree', c) = IF c \in part THEN x ELSE Probe(tree, c),
         call' = [op |-> "fill", part |-> part, by |-> Constant(x)]
  PROVE  Answered
<1>1. \A c \in Coords: Constant(x)[Probe(tree, c)] = x  BY ProbeEntry DEF Constant, TypeOK
<1>2. TypeOK'  BY DEF TypeOK
<1>3. \A c \in Coords:
        Probe(tree', c) = IF c \in part THEN Constant(x)[Probe(tree, c)] ELSE Probe(tree, c)
  BY <1>1
<1>4. call'.op \in {"write", "fill"} /\ call'.part = part /\ call'.by = Constant(x)  OBVIOUS
<1> QED BY <1>2, <1>3, <1>4, WriteAnswered DEF Answered

\* A call that keeps a region only.
LEMMA ClippedAnswered ==
  ASSUME TypeOK, NEW part \in SUBSET Coords,
         tree' \in Tree, tree'.background = tree.background,
         \A c \in Coords:
           Probe(tree', c) = IF c \in part THEN Probe(tree, c) ELSE Off(tree.background),
         call' = [op |-> "clip", part |-> part]
  PROVE  Answered
<1>1. TypeOK'  BY DEF TypeOK
<1>2. call'.op = "clip" /\ call'.part = part  OBVIOUS
<1> QED BY <1>1, <1>2, ClipAnswered DEF Answered

\* A call that changes no voxel.
LEMMA KeptAnswered ==
  ASSUME TypeOK, tree' \in Tree, tree'.background = tree.background,
         \A c \in Coords: Probe(tree', c) = Probe(tree, c),
         call'.op = "keep"
  PROVE  Answered
BY KeepAnswered DEF Answered, TypeOK

\* The calls on a region.
LEMMA RegionSteps ==
  ASSUME TypeOK, NEW part \in Parts,
         \/ Clip(part)
         \/ \E x \in Voxel: SparseFill(part, x) \/ DenseFill(part, x)
  PROVE  Answered
<1>0. part \in SUBSET Coords  BY TreeAssumption
<1>1. CASE Clip(part)
  BY <1>0, <1>1, RootClipFacts, ClippedAnswered DEF Clip, Do, TypeOK
<1>2. ASSUME NEW x \in Voxel, SparseFill(part, x) PROVE Answered
  BY <1>0, <1>2, RootFillFacts, FilledAnswered DEF SparseFill, Do, TypeOK
<1>3. ASSUME NEW x \in Voxel, DenseFill(part, x) PROVE Answered
  BY <1>0, <1>3, RootDenseFillFacts, FilledAnswered DEF DenseFill, Do, TypeOK
<1> QED BY <1>1, <1>2, <1>3

\* The calls on the whole tree.
LEMMA WholeSteps ==
  ASSUME TypeOK, Prune \/ VoxelizeActiveTiles \/ Clear
  PROVE  Answered
<1>1. CASE Prune
  BY <1>1, RootPruneFacts, KeptAnswered DEF Prune, Do, TypeOK
<1>2. CASE VoxelizeActiveTiles
  BY <1>2, RootVoxelizeFacts, KeptAnswered DEF VoxelizeActiveTiles, Do, TypeOK
<1>3. CASE Clear
  <2>1. /\ tree' = [tree EXCEPT !.table = [k \in Keys |-> Absent]]
        /\ call' = [op |-> "clip", part |-> {}]
    BY <1>3 DEF Clear, Do
  <2>2. /\ tree' \in Tree /\ tree'.background = tree.background
        /\ \A c \in Coords: Probe(tree', c) = Off(tree.background)
    BY <2>1, ClearFacts DEF TypeOK
  <2>3. \A c \in Coords:
          Probe(tree', c) = IF c \in {} THEN Probe(tree, c) ELSE Off(tree.background)
    BY <2>2
  <2> QED BY <2>1, <2>2, <2>3, ClippedAnswered
<1> QED BY <1>1, <1>2, <1>3

\* A call that hands a node over.
LEMMA PastedAnswered ==
  ASSUME TypeOK, NEW part, NEW patch,
         tree' \in Tree, tree'.background = tree.background,
         \A d \in Coords: Probe(tree', d) = IF d \in part THEN patch[d] ELSE Probe(tree, d),
         call' = [op |-> "paste", part |-> part, patch |-> patch]
  PROVE  Answered
<1>1. call'.op = "paste" /\ call'.part = part /\ call'.patch = patch  OBVIOUS
<1>2. TypeOK'  BY DEF TypeOK
<1> QED BY <1>1, <1>2, PasteAnswered DEF Answered

\* The calls that make or take over a node.
LEMMA NodeSteps ==
  ASSUME TypeOK, NEW c \in Coords,
         \/ TouchLeaf(c)
         \/ \E l \in NewLeaves: AddLeaf(c, l)
         \/ \E n \in NewNodes: AddChild(c, n)
  PROVE  Answered
<1>1. CASE TouchLeaf(c)
  BY <1>1, TouchLeafFacts, KeptAnswered DEF TouchLeaf, Do, TypeOK
<1>2. ASSUME NEW l \in NewLeaves, AddLeaf(c, l) PROVE Answered
  <2> DEFINE patch == [d \in Coords |-> l[d[3]]]
             part == Extent(1, c)
  <2>1. /\ tree' = RootAddLeaf(tree, c, l)
        /\ call' = [op |-> "paste", part |-> part, patch |-> patch]
    BY <1>2 DEF AddLeaf, Do
  <2>2. /\ tree' \in Tree /\ tree'.background = tree.background
        /\ \A d \in Coords: Probe(tree', d) = IF d \in part THEN l[d[3]] ELSE Probe(tree, d)
    BY <2>1, TreeAssumption, AddLeafFacts DEF TypeOK
  <2>3. \A d \in Coords: patch[d] = l[d[3]]  OBVIOUS
  <2> HIDE DEF patch, part
  <2> QED BY <2>1, <2>2, <2>3, PastedAnswered
<1>3. ASSUME NEW n \in NewNodes, AddChild(c, n) PROVE Answered
  <2> DEFINE patch == [d \in Coords |-> InternalProbe(n, d[2], d[3])]
             part == Extent(2, c)
  <2>1. /\ tree' = RootAddChild(tree, c[1], n)
        /\ call' = [op |-> "paste", part |-> part, patch |-> patch]
    BY <1>3 DEF AddChild, Do
  <2>2. /\ tree' \in Tree /\ tree'.background = tree.background
        /\ \A d \in Coords: Probe(tree', d)
             = IF d \in part THEN InternalProbe(n, d[2], d[3]) ELSE Probe(tree, d)
    BY <2>1, TreeAssumption, AddChildFacts DEF TypeOK
  <2>3. \A d \in Coords: patch[d] = InternalProbe(n, d[2], d[3])  OBVIOUS
  <2> HIDE DEF patch, part
  <2> QED BY <2>1, <2>2, <2>3, PastedAnswered
<1> QED BY <1>1, <1>2, <1>3

\* The calls that add a tile or take a node out.
LEMMA TileSteps ==
  ASSUME TypeOK, NEW c \in Coords, NEW x \in Voxel,
         \/ \E level \in 0..2: AddTile(level, c, x)
         \/ \E level \in 0..1: StealNode(level, c, x)
  PROVE  Answered
<1>1. ASSUME NEW level \in 0..2, AddTile(level, c, x) PROVE Answered
  <2>1. Extent(level, c) \in SUBSET Coords  BY DEF Extent
  <2>2. /\ tree' = RootAddTile(tree, level, c, x)
        /\ call' = [op |-> "fill", part |-> Extent(level, c), by |-> Constant(x)]
    BY <1>1 DEF AddTile, Do
  <2>3. /\ tree' \in Tree /\ tree'.background = tree.background
        /\ \A d \in Coords: Probe(tree', d) = IF d \in Extent(level, c) THEN x ELSE Probe(tree, d)
    <3>1. tree \in Tree  BY DEF TypeOK
    <3>2. /\ RootAddTile(tree, level, c, x) \in Tree
          /\ RootAddTile(tree, level, c, x).background = tree.background
          /\ \A d \in Coords: Probe(RootAddTile(tree, level, c, x), d)
               = IF d \in Extent(level, c) THEN x ELSE Probe(tree, d)
      BY <1>1, <3>1, AddTileFacts
    <3> QED BY <2>2, <3>2
  <2> QED BY <2>1, <2>2, <2>3, FilledAnswered
<1>2. ASSUME NEW level \in 0..1, StealNode(level, c, x) PROVE Answered
  <2> DEFINE part == Extent(level + 1, c)
  <2>1. /\ tree' = RootStealNode(tree, level, c, x)
        /\ call'.op = "steal" /\ call'.part = part /\ call'.with = x
    BY <1>2 DEF StealNode, Do
  <2>2. /\ tree' \in Tree
        /\ tree'.background = tree.background
        /\ \/ \A d \in Coords: Probe(tree', d) = Probe(tree, d)
           \/ \A d \in Coords: Probe(tree', d) = IF d \in part THEN x ELSE Probe(tree, d)
    <3>1. tree \in Tree  BY DEF TypeOK
    <3>2. part = Extent(level + 1, c)  OBVIOUS
    <3> HIDE DEF part
    <3> QED BY <2>1, <3>1, <3>2, StealNodeFacts, SMTT(40)
  <2>3. TypeOK'  BY <2>2 DEF TypeOK
  <2> HIDE DEF part
  <2> QED BY <2>1, <2>2, <2>3, StealAnswered DEF Answered
<1> QED BY <1>1, <1>2

\* stealNodes().
LEMMA StealNodesSteps ==
  ASSUME TypeOK, NEW x \in Voxel, NEW level \in 0..1, StealNodes(level, x)
  PROVE  Answered
<1>1. /\ tree' = RootStealNodes(tree, level, x)
      /\ call'.op = "stealNodes" /\ call'.with = x
  BY DEF StealNodes, Do
<1>2. /\ tree' \in Tree /\ tree'.background = tree.background
      /\ \A c \in Coords: Probe(tree', c) \in {Probe(tree, c), x}
  BY <1>1, StealNodesFacts DEF TypeOK
<1>3. TypeOK'  BY <1>2 DEF TypeOK
<1> QED BY <1>1, <1>2, <1>3, StealAllAnswered DEF Answered

\* setBackground().
LEMMA BackgroundSteps ==
  ASSUME TypeOK, NEW v \in Values, SetBackground(v) \/ SetBackgroundOnly(v)
  PROVE  Answered
<1>1. CASE SetBackground(v)
  <2>1. /\ tree' = RootSetBackground(tree, v)
        /\ call'.op = "setBackground" /\ call'.new = v
    BY <1>1 DEF SetBackground, Do
  <2>2. /\ tree' \in Tree /\ tree'.background = v
        /\ \A c \in Coords: Probe(tree', c) = Reset(Probe(tree, c), tree.background, v)
    BY <2>1, SetBackgroundFacts DEF TypeOK
  <2>3. TypeOK'  BY <2>2 DEF TypeOK
  <2> QED BY <2>1, <2>2, <2>3, SetBackgroundAnswered DEF Answered
<1>2. CASE SetBackgroundOnly(v)
  <2>1. /\ tree' = [tree EXCEPT !.background = v]
        /\ call'.op = "setBackgroundOnly" /\ call'.new = v
    BY <1>2 DEF SetBackgroundOnly, Do
  <2>2. /\ tree' \in Tree /\ tree'.background = v
        /\ \A c \in Coords: \/ Probe(tree', c) = Probe(tree, c)
                            \/ Probe(tree, c) = Off(tree.background) /\ Probe(tree', c) = Off(v)
    BY <2>1, SetBackgroundOnlyFacts DEF TypeOK
  <2>3. TypeOK'  BY <2>2 DEF TypeOK
  <2> QED BY <2>1, <2>2, <2>3, SetBackgroundOnlyAnswered DEF Answered
<1> QED BY <1>1, <1>2

\* The three operations on states.
LEMMA TopologySteps ==
  ASSUME TypeOK, NEW o \in Others,
         TopologyUnion(o) \/ TopologyIntersection(o) \/ TopologyDifference(o)
  PROVE  Answered
<1>0. o \in Tree  BY TreeAssumption
<1>1. CASE TopologyUnion(o)
  <2>1. tree' = RootUnion(tree, o) /\ call'.op = "union" /\ call'.other = View(o)
    BY <1>1 DEF TopologyUnion, Do
  <2>2. /\ tree' \in Tree /\ tree'.background = tree.background
        /\ \A c \in Coords: Probe(tree', c) = UnionVoxel(Probe(tree, c), Probe(o, c))
    BY <1>0, <2>1, RootUnionFacts DEF TypeOK
  <2>3. TypeOK'  BY <2>2 DEF TypeOK
  <2> QED BY <1>0, <2>1, <2>2, <2>3, UnionAnswered DEF Answered
<1>2. CASE TopologyIntersection(o)
  <2>1. tree' = RootIntersection(tree, o) /\ call'.op = "intersection" /\ call'.other = View(o)
    BY <1>2 DEF TopologyIntersection, Do
  <2>2. /\ tree' \in Tree /\ tree'.background = tree.background
        /\ \A c \in Coords:
             Probe(tree', c) \in Intersected(Probe(tree, c), Probe(o, c), tree.background)
    BY <1>0, <2>1, RootIntersectionFacts DEF TypeOK
  <2>3. TypeOK'  BY <2>2 DEF TypeOK
  <2> QED BY <1>0, <2>1, <2>2, <2>3, IntersectionAnswered DEF Answered
<1>3. CASE TopologyDifference(o)
  <2>1. tree' = RootDifference(tree, o) /\ call'.op = "difference" /\ call'.other = View(o)
    BY <1>3 DEF TopologyDifference, Do
  <2>2. /\ tree' \in Tree /\ tree'.background = tree.background
        /\ \A c \in Coords:
             Probe(tree', c) \in Subtracted(Probe(tree, c), Probe(o, c), tree.background)
    BY <1>0, <2>1, RootDifferenceFacts DEF TypeOK
  <2>3. TypeOK'  BY <2>2 DEF TypeOK
  <2> QED BY <1>0, <2>1, <2>2, <2>3, DifferenceAnswered DEF Answered
<1> QED BY <1>1, <1>2, <1>3

\* merge().
LEMMA MergeSteps ==
  ASSUME TypeOK, NEW o \in Others, NEW policy \in Policies, Merge(o, policy)
  PROVE  Answered
<1>0. o \in Tree  BY TreeAssumption
<1>1. /\ tree' = RootMerge(tree, o, policy)
      /\ call'.op = "merge" /\ call'.other = View(o) /\ call'.policy = policy
      /\ call'.turned = Turned(tree, o)
  BY DEF Merge, Do
<1>2. /\ tree' \in Tree /\ tree'.background = tree.background
      /\ \A c \in Coords:
           Probe(tree', c)
             \in IF c \in Turned(tree, o)
                 THEN Merged(Probe(tree, c), Probe(o, c), tree.background, o.background, policy)
                 ELSE Merged(Probe(tree, c), Probe(o, c), o.background, tree.background, policy)
  BY <1>0, <1>1, RootMergeFacts DEF TypeOK
<1>3. TypeOK'  BY <1>2 DEF TypeOK
<1> QED BY <1>0, <1>1, <1>2, <1>3, MergeAnswered DEF Answered

\* combine().
LEMMA CombineSteps ==
  ASSUME TypeOK, NEW o \in Others, NEW op \in Ops, NEW prune \in BOOLEAN,
         Combine(o, op, prune)
  PROVE  Answered
<1>0. o \in Tree /\ op \in Functor  BY TreeAssumption DEF Functor
<1>1. PICK left \in StatesLeft(tree, o):
        /\ tree' = RootCombine(tree, o, op, prune, left)
        /\ call' = [op |-> "combine", other |-> View(o), by |-> op,
                    lost |-> Swapped(tree, o), bare |-> Bare(tree, o)]
  BY DEF Combine, Do
<1>2. /\ tree' \in Tree
      /\ tree'.background = Backgrounds(tree, o, op, left)
      /\ \A c \in Coords:
           Probe(tree', c) =
             IF c \in Bare(tree, o) THEN Off(tree'.background)
             ELSE IF c \in Swapped(tree, o) THEN Default(op)[<<Probe(tree, c), Probe(o, c)>>]
             ELSE op[<<Probe(tree, c), Probe(o, c)>>]
  BY <1>0, <1>1, RootCombineFacts DEF TypeOK
<1>3. \E a, b \in BOOLEAN:
        tree'.background = op[<<Vox(tree.background, a), Vox(o.background, b)>>].value
  BY <1>0, <1>2, BackgroundsFacts DEF TypeOK
<1>4. /\ TypeOK' /\ call'.op = "combine" /\ call'.other = View(o) /\ call'.by = op
      /\ call'.lost = Swapped(tree, o) /\ call'.bare = Bare(tree, o)
  BY <1>1, <1>2 DEF TypeOK
<1> QED BY <1>0, <1>2, <1>3, <1>4, CombineAnswered DEF Answered

\* combine2().
LEMMA Combine2Steps ==
  ASSUME TypeOK, NEW one \in Others, NEW two \in Others, NEW op \in Ops, NEW prune \in BOOLEAN,
         Combine2(one, two, op, prune)
  PROVE  Answered
<1>0. one \in Tree /\ two \in Tree /\ op \in Functor  BY TreeAssumption DEF Functor
<1>1. PICK left \in StatesLeft(one, two):
        /\ tree' = RootCombine2(tree, one, two, op, prune, left)
        /\ call' = [op |-> "combine2", one |-> View(one), two |-> View(two), by |-> op,
                    bare |-> Bare(one, two)]
  BY DEF Combine2, Do
<1>2. /\ tree' \in Tree
      /\ tree'.background = Backgrounds(one, two, op, left)
      /\ \A c \in Coords:
           IF c \in Bare(one, two) THEN Probe(tree', c) \in {Probe(tree, c), Off(tree'.background)}
           ELSE Probe(tree', c) = op[<<Probe(one, c), Probe(two, c)>>]
  BY <1>0, <1>1, RootCombine2Facts DEF TypeOK
<1>3. \E a, b \in BOOLEAN:
        tree'.background = op[<<Vox(one.background, a), Vox(two.background, b)>>].value
  BY <1>0, <1>2, BackgroundsFacts
<1>4. TypeOK' /\ call'.op = "combine2" /\ call'.one = View(one) /\ call'.two = View(two)
      /\ call'.by = op /\ call'.bare = Bare(one, two)
  BY <1>1, <1>2 DEF TypeOK
<1> QED BY <1>0, <1>2, <1>3, <1>4, Combine2Answered DEF Answered

-----------------------------------------------------------------------------
(* The theorems.                                                           *)

\* A new tree is a new map.
LEMMA InitAnswered == Init => TypeOK /\ VM!Init
<1> SUFFICES ASSUME Init PROVE TypeOK /\ VM!Init  OBVIOUS
<1>1. PICK v \in Values: tree = [background |-> v, table |-> [k \in Keys |-> Absent]]
  BY DEF Init
<1> DEFINE g == [k \in Keys |-> Absent]
<1>2. /\ tree \in Tree /\ tree.background = v
      /\ \A c \in Coords: Probe(tree, c) = EntryVoxel(g[c[1]], v, c[2], c[3])
  <2>1. tree = [background |-> v, table |-> g] /\ g = [k \in Keys |-> g[k]]
        /\ \A k \in Keys: g[k] \in RootEntry
    BY <1>1, RootFacts
  <2> HIDE DEF g
  <2> QED BY <2>1, TreeBuilt
<1>3. \A c \in Coords: Probe(tree, c) = Off(v)
  BY <1>2, CoordFacts, EntryVoxelFacts
<1>4. VoxelsOf(tree) = [c \in Coords |-> VM!Off(tree.background)]
  BY <1>2, <1>3, SameVoxels DEF VoxelsOf
<1>5. call = [op |-> "construct"]  BY DEF Init
<1> QED BY <1>2, <1>4, <1>5 DEF VM!Init, TypeOK

\* Every call keeps the tree well formed and gives the map's answer.
LEMMA NextAnswered == TypeOK /\ Next => Answered
<1> SUFFICES ASSUME TypeOK, Next PROVE Answered  OBVIOUS
<1>1. CASE \E c \in Coords, v \in Values, on \in BOOLEAN, f \in ValueOps, g \in StateOps:
             \/ SetValueOff(c) \/ SetActiveState(c, on)
             \/ SetValueOffTo(c, v) \/ SetValueOn(c, v) \/ SetValueOnly(c, v)
             \/ ModifyValue(c, f) \/ ModifyValueAndActiveState(c, f, g)
  <2> PICK c \in Coords, v \in Values, on \in BOOLEAN, f \in ValueOps, g \in StateOps:
             \/ SetValueOff(c) \/ SetActiveState(c, on)
             \/ SetValueOffTo(c, v) \/ SetValueOn(c, v) \/ SetValueOnly(c, v)
             \/ ModifyValue(c, f) \/ ModifyValueAndActiveState(c, f, g)
    BY <1>1
  <2> QED BY WriteSteps
<1>2. CASE \E part \in Parts:
             \/ Clip(part)
             \/ \E x \in Voxel: SparseFill(part, x) \/ DenseFill(part, x)
  BY <1>2, RegionSteps
<1>3. CASE Prune \/ VoxelizeActiveTiles \/ Clear
  BY <1>3, WholeSteps
<1>4. ASSUME NEW c \in Coords,
             \/ TouchLeaf(c)
             \/ \E l \in NewLeaves: AddLeaf(c, l)
             \/ \E n \in NewNodes: AddChild(c, n)
      PROVE  Answered
  BY <1>4, NodeSteps
<1>5. ASSUME NEW c \in Coords, NEW x \in Voxel,
             \/ \E level \in 0..2: AddTile(level, c, x)
             \/ \E level \in 0..1: StealNode(level, c, x)
      PROVE  Answered
  BY <1>5, TileSteps
<1>6. CASE \E x \in Voxel, level \in 0..1: StealNodes(level, x)
  BY <1>6, StealNodesSteps
<1>7. CASE \E v \in Values: SetBackground(v) \/ SetBackgroundOnly(v)
  BY <1>7, BackgroundSteps
<1>8. ASSUME NEW o \in Others,
             TopologyUnion(o) \/ TopologyIntersection(o) \/ TopologyDifference(o)
      PROVE  Answered
  BY <1>8, TopologySteps
<1>9. ASSUME NEW o \in Others, NEW policy \in Policies, Merge(o, policy) PROVE Answered
  BY <1>9, MergeSteps
<1>10. ASSUME NEW o \in Others, NEW op \in Ops, NEW prune \in BOOLEAN, Combine(o, op, prune)
       PROVE  Answered
  BY <1>10, CombineSteps
<1>11. ASSUME NEW o \in Others, NEW p \in Others, NEW op \in Ops, NEW prune \in BOOLEAN,
              Combine2(o, p, op, prune)
       PROVE  Answered
  BY <1>11, Combine2Steps
<1> QED
  BY <1>1, <1>2, <1>3, <1>4, <1>5, <1>6, <1>7, <1>8, <1>9, <1>10, <1>11 DEF Next

\* Whatever the sequence of calls and whatever the trees handed in, the table holds
\* tiles and nodes only, down to the voxels.
THEOREM TypeCorrect == Spec => []TypeOK
<1>1. Init => TypeOK  BY InitAnswered
<1>2. TypeOK /\ [Next]_vars => TypeOK'
  <2>1. TypeOK /\ Next => TypeOK'  BY NextAnswered DEF Answered
  <2>2. TypeOK /\ UNCHANGED vars => TypeOK'  BY DEF TypeOK, vars
  <2> QED BY <2>1, <2>2
<1> QED BY <1>1, <1>2, PTL DEF Spec

\* The tree implements the map: every call of Tree, on every tree a sequence of calls
\* can build, changes the voxels VoxelMap says it changes and no other, whatever nodes
\* and tiles stand for them.
THEOREM TreeImplementsMap == Spec => VoxelMapSpec
<1>1. Init => VM!Init  BY InitAnswered
<1>2. TypeOK /\ [Next]_vars => [VM!Answer(call')]_(VM!mvars)
  <2>1. TypeOK /\ Next => VM!Answer(call')  BY NextAnswered DEF Answered
  <2>2. UNCHANGED vars => UNCHANGED VM!mvars
    BY DEF vars, VM!mvars, VoxelsOf, Probe, Solid
  <2> QED BY <2>1, <2>2
<1> QED BY <1>1, <1>2, TypeCorrect, PTL DEF Spec, VoxelMapSpec, VM!Spec

\* A write that does not change its voxel gives the tree back as it was.
LEMMA QuietInternal ==
  ASSUME NEW n \in Internal, NEW s \in Slots, NEW o \in Offs, NEW w,
         w[InternalProbe(n, s, o)] = InternalProbe(n, s, o)
  PROVE  InternalWrite(n, s, o, w) = n
<1>1. n[s] \in SlotEntry  BY NodeFacts
<1>2. CASE IsTile(n[s])
  <2>1. InternalProbe(n, s, o) = n[s].voxel  BY <1>1, <1>2, SlotFacts DEF InternalProbe
  <2> QED BY <1>2, <2>1 DEF InternalWrite
<1>3. CASE IsChild(n[s]) /\ ~IsTile(n[s])
  <2>1. PICK l \in Leaf: n[s] = Child(l)  BY <1>1, <1>3, SlotFacts
  <2>2. InternalProbe(n, s, o) = l[o] /\ OpenSlot(n[s]) = l
    BY <2>1, EntryFacts DEF InternalProbe, OpenSlot
  <2>3. LeafWrite(l, o, w) = l  BY <2>2 DEF LeafWrite, Leaf
  <2>4. InternalWrite(n, s, o, w) = [n EXCEPT ![s] = n[s]]
    BY <1>3, <2>1, <2>2, <2>3 DEF InternalWrite
  <2> QED BY <2>4 DEF Internal
<1> QED BY <1>1, <1>2, <1>3, SlotFacts

\* So does a tree's, unless the root has no entry.
LEMMA QuietWrite ==
  ASSUME NEW t \in Tree, NEW c \in Coords, NEW w, w[Probe(t, c)] = Probe(t, c),
         t.table[c[1]] # Absent,
         NEW u \in {RootWriteOff(t, c, w), RootWriteOn(t, c, w)}
  PROVE  u = t
<1>0. c[1] \in Keys /\ c[2] \in Slots /\ c[3] \in Offs /\ t.table[c[1]] \in RootEntry
  BY CoordFacts, TableFacts
<1>1. CASE \E x \in Voxel: t.table[c[1]] = Tile(x)
  <2>1. PICK x \in Voxel: t.table[c[1]] = Tile(x)  BY <1>1
  <2>2. Solid(t, c[1]) = Tile(x)  BY <2>1, EntryFacts DEF Solid
  <2>3. Probe(t, c) = x  BY <2>1, <2>2, EntryFacts DEF Probe
  <2> QED BY <2>1, <2>2, <2>3, EntryFacts DEF RootWriteOff, RootWriteOn
<1>2. CASE \E n \in Internal: t.table[c[1]] = Child(n)
  <2>1. PICK n \in Internal: t.table[c[1]] = Child(n)  BY <1>2
  <2>2. OpenKey(t, c[1]) = n /\ Probe(t, c) = InternalProbe(n, c[2], c[3])
        /\ ~IsTile(t.table[c[1]]) /\ IsChild(t.table[c[1]])
    BY <2>1, EntryFacts DEF OpenKey, Probe
  <2>3. InternalWrite(OpenKey(t, c[1]), c[2], c[3], w) = n
    BY <1>0, <2>2, QuietInternal
  <2>4. u = WithKey(t, c[1], t.table[c[1]])
    BY <2>1, <2>2, <2>3 DEF RootWriteOff, RootWriteOn
  <2>5. t.table \in [Keys -> RootEntry] /\ t = [background |-> t.background, table |-> t.table]
    BY TableFacts DEF Tree
  <2>6. [t.table EXCEPT ![c[1]] = t.table[c[1]]] = t.table  BY <2>5
  <2> QED BY <2>4, <2>5, <2>6 DEF WithKey, WithTable
<1> QED BY <1>0, <1>1, <1>2, RootShapes

\* Only the single-voxel writes are recorded as such, and only prune() as prune().
LEMMA WriteCalls ==
  ASSUME Next, call'.op = "write"
  PROVE  \E c \in Coords: \E w:
           /\ call' = Written1(c, w)
           /\ tree' \in {RootWriteOff(tree, c, w), RootWriteOn(tree, c, w)}
<1>1. ASSUME NEW c \in Coords, NEW v \in Values, NEW on \in BOOLEAN,
             NEW f \in ValueOps, NEW g \in StateOps,
             \/ SetValueOff(c) \/ SetActiveState(c, on)
             \/ SetValueOffTo(c, v) \/ SetValueOn(c, v) \/ SetValueOnly(c, v)
             \/ ModifyValue(c, f) \/ ModifyValueAndActiveState(c, f, g)
      PROVE  \E w: /\ call' = Written1(c, w)
                   /\ tree' \in {RootWriteOff(tree, c, w), RootWriteOn(tree, c, w)}
  <2>1. ASSUME NEW w, Do(RootWriteOff(tree, c, w), Written1(c, w))
                      \/ Do(RootWriteOn(tree, c, w), Written1(c, w))
        PROVE  /\ call' = Written1(c, w)
               /\ tree' \in {RootWriteOff(tree, c, w), RootWriteOn(tree, c, w)}
    BY <2>1 DEF Do
  <2>2. CASE SetValueOff(c)  BY <2>1, <2>2 DEF SetValueOff
  <2>3. CASE SetActiveState(c, on)
    <3>1. Do(RootWriteOff(tree, c, SetState(on)), Written1(c, SetState(on)))
      BY <2>3, Zenon DEF SetActiveState
    <3> QED BY <2>1, <3>1, Zenon
  <2>4. CASE SetValueOffTo(c, v)  BY <2>1, <2>4 DEF SetValueOffTo
  <2>5. CASE SetValueOn(c, v)  BY <2>1, <2>5 DEF SetValueOn
  <2>6. CASE SetValueOnly(c, v)  BY <2>1, <2>6 DEF SetValueOnly
  <2>7. CASE ModifyValue(c, f)  BY <2>1, <2>7 DEF ModifyValue
  <2>8. CASE ModifyValueAndActiveState(c, f, g)  BY <2>8 DEF ModifyValueAndActiveState, Do
  <2> QED BY <1>1, <2>2, <2>3, <2>4, <2>5, <2>6, <2>7, <2>8
<1>2. CASE \E c \in Coords, v \in Values, on \in BOOLEAN, f \in ValueOps, g \in StateOps:
             \/ SetValueOff(c) \/ SetActiveState(c, on)
             \/ SetValueOffTo(c, v) \/ SetValueOn(c, v) \/ SetValueOnly(c, v)
             \/ ModifyValue(c, f) \/ ModifyValueAndActiveState(c, f, g)
  BY <1>1, <1>2
<1>3. ASSUME NEW part \in Parts,
             \/ Clip(part)
             \/ \E x \in Voxel: SparseFill(part, x) \/ DenseFill(part, x)
      PROVE  FALSE
  BY <1>3 DEF Clip, SparseFill, DenseFill, Do
<1>4. CASE Prune \/ VoxelizeActiveTiles \/ Clear
  BY <1>4 DEF Prune, VoxelizeActiveTiles, Clear, Do
<1>5. ASSUME NEW c \in Coords,
             \/ TouchLeaf(c)
             \/ \E l \in NewLeaves: AddLeaf(c, l)
             \/ \E n \in NewNodes: AddChild(c, n)
             \/ \E x \in Voxel: \/ \E level \in 0..2: AddTile(level, c, x)
                                \/ \E level \in 0..1: StealNode(level, c, x)
      PROVE  FALSE
  BY <1>5 DEF TouchLeaf, AddLeaf, AddChild, AddTile, StealNode, Do
<1>6. CASE \E x \in Voxel, level \in 0..1: StealNodes(level, x)
  BY <1>6 DEF StealNodes, Do
<1>7. CASE \E v \in Values: SetBackground(v) \/ SetBackgroundOnly(v)
  BY <1>7 DEF SetBackground, SetBackgroundOnly, Do
<1>8. ASSUME NEW o \in Others,
             \/ TopologyUnion(o) \/ TopologyIntersection(o) \/ TopologyDifference(o)
             \/ \E policy \in Policies: Merge(o, policy)
      PROVE  FALSE
  BY <1>8 DEF TopologyUnion, TopologyIntersection, TopologyDifference, Merge, Do
<1>9. ASSUME NEW o \in Others, NEW op \in Ops, NEW prune \in BOOLEAN,
             \/ Combine(o, op, prune)
             \/ \E p \in Others: Combine2(o, p, op, prune)
      PROVE  FALSE
  BY <1>9 DEF Combine, Combine2, Do
<1> QED
  BY <1>2, <1>3, <1>4, <1>5, <1>6, <1>7, <1>8, <1>9 DEF Next

\* A call recorded as prune() is prune().
LEMMA PruneCalls ==
  ASSUME Next, call' = [op |-> "keep", by |-> "prune"]
  PROVE  Prune
<1>0. call'.op = "keep" /\ call'.by = "prune"  OBVIOUS
<1>1. ASSUME NEW c \in Coords, NEW v \in Values, NEW on \in BOOLEAN,
             NEW f \in ValueOps, NEW g \in StateOps,
             \/ SetValueOff(c) \/ SetActiveState(c, on)
             \/ SetValueOffTo(c, v) \/ SetValueOn(c, v) \/ SetValueOnly(c, v)
             \/ ModifyValue(c, f) \/ ModifyValueAndActiveState(c, f, g)
      PROVE  FALSE
  <2>1. \A w: Written1(c, w).op = "write"  BY DEF Written1
  <2>2. CASE SetValueOff(c)  BY <1>0, <2>1, <2>2 DEF SetValueOff, Do
  <2>3. CASE SetActiveState(c, on)
    <3>1. call' = Written1(c, SetState(on))  BY <2>3, Zenon DEF SetActiveState, Do
    <3>2. call'.op = "write"  BY <2>1, <3>1, Zenon
    <3> QED BY <1>0, <3>2
  <2>4. CASE SetValueOffTo(c, v)  BY <1>0, <2>1, <2>4 DEF SetValueOffTo, Do
  <2>5. CASE SetValueOn(c, v)  BY <1>0, <2>1, <2>5 DEF SetValueOn, Do
  <2>6. CASE SetValueOnly(c, v)  BY <1>0, <2>1, <2>6 DEF SetValueOnly, Do
  <2>7. CASE ModifyValue(c, f)  BY <1>0, <2>1, <2>7 DEF ModifyValue, Do
  <2>8. CASE ModifyValueAndActiveState(c, f, g)
    BY <1>0, <2>8 DEF ModifyValueAndActiveState, Do
  <2> QED BY <1>1, <2>2, <2>3, <2>4, <2>5, <2>6, <2>7, <2>8
<1>3. ASSUME NEW part \in Parts,
             \/ Clip(part)
             \/ \E x \in Voxel: SparseFill(part, x) \/ DenseFill(part, x)
      PROVE  FALSE
  BY <1>0, <1>3 DEF Clip, SparseFill, DenseFill, Do
<1>4. ~VoxelizeActiveTiles /\ ~Clear  BY <1>0 DEF VoxelizeActiveTiles, Clear, Do
<1>5. ASSUME NEW c \in Coords,
             \/ TouchLeaf(c)
             \/ \E l \in NewLeaves: AddLeaf(c, l)
             \/ \E n \in NewNodes: AddChild(c, n)
             \/ \E x \in Voxel: \/ \E level \in 0..2: AddTile(level, c, x)
                                \/ \E level \in 0..1: StealNode(level, c, x)
      PROVE  FALSE
  BY <1>0, <1>5 DEF TouchLeaf, AddLeaf, AddChild, AddTile, StealNode, Do
<1>6. ~\E x \in Voxel, level \in 0..1: StealNodes(level, x)  BY <1>0 DEF StealNodes, Do
<1>7. ~\E v \in Values: SetBackground(v) \/ SetBackgroundOnly(v)
  BY <1>0 DEF SetBackground, SetBackgroundOnly, Do
<1>8. ASSUME NEW o \in Others,
             \/ TopologyUnion(o) \/ TopologyIntersection(o) \/ TopologyDifference(o)
             \/ \E policy \in Policies: Merge(o, policy)
      PROVE  FALSE
  BY <1>0, <1>8 DEF TopologyUnion, TopologyIntersection, TopologyDifference, Merge, Do
<1>9. ASSUME NEW o \in Others, NEW op \in Ops, NEW prune \in BOOLEAN,
             \/ Combine(o, op, prune)
             \/ \E p \in Others: Combine2(o, p, op, prune)
      PROVE  FALSE
  BY <1>0, <1>9 DEF Combine, Combine2, Do
<1> QED
  BY <1>1, <1>3, <1>4, <1>5, <1>6, <1>7, <1>8, <1>9 DEF Next

\* A write or a change of state that alters no voxel leaves the nodes alone too,
\* except where the root has no entry at all.
THEOREM QuietWrites == Spec => QuietWriteAllocatesNothing
<1> DEFINE Quiet == call'.op = "write" /\ VoxelsOf(tree') = VoxelsOf(tree)
                      => \A c \in call'.part: tree.table[c[1]] # Absent => tree' = tree
<1>1. TypeOK /\ Next => Quiet
  <2> SUFFICES ASSUME TypeOK, Next, call'.op = "write", VoxelsOf(tree') = VoxelsOf(tree),
                      NEW c \in call'.part, tree.table[c[1]] # Absent
               PROVE  tree' = tree
    OBVIOUS
  <2>1. PICK d \in Coords: \E w:
          /\ call' = Written1(d, w)
          /\ tree' \in {RootWriteOff(tree, d, w), RootWriteOn(tree, d, w)}
    BY WriteCalls
  <2>2. PICK w: /\ call' = Written1(d, w)
                /\ tree' \in {RootWriteOff(tree, d, w), RootWriteOn(tree, d, w)}
    BY <2>1
  <2>3. c = d /\ call'.by = w /\ call'.part = {d}  BY <2>2 DEF Written1
  <2>4. Answered  BY NextAnswered
  <2>5. VM!Write({d}, w)
    BY <2>2, <2>3, <2>4 DEF Answered, VM!Answer, Written1
  <2>6. Probe(tree', d) = w[Probe(tree, d)]
    <3>1. VoxelsOf(tree') = [e \in Coords |-> IF e \in {d} THEN w[VoxelsOf(tree)[e]] ELSE VoxelsOf(tree)[e]]
      BY <2>5 DEF VM!Write, VM!Apply
    <3>2. VoxelsOf(tree')[d] = w[VoxelsOf(tree)[d]]  BY <3>1
    <3> QED BY <3>2 DEF VoxelsOf
  <2>7. Probe(tree', d) = Probe(tree, d)
    <3>1. VoxelsOf(tree')[d] = VoxelsOf(tree)[d]  OBVIOUS
    <3> QED BY <3>1 DEF VoxelsOf
  <2>8. /\ tree \in Tree /\ d \in Coords /\ tree.table[d[1]] # Absent
        /\ w[Probe(tree, d)] = Probe(tree, d)
        /\ tree' \in {RootWriteOff(tree, d, w), RootWriteOn(tree, d, w)}
    BY <2>2, <2>3, <2>6, <2>7 DEF TypeOK
  <2> QED BY <2>8, QuietWrite
<1>2. TypeOK /\ [Next]_vars => [Quiet]_vars  BY <1>1
<1> QED BY <1>2, TypeCorrect, PTL DEF Spec, QuietWriteAllocatesNothing

\* After prune() no node is left that a tile could stand for, and no background tile.
THEOREM PruneIsComplete == Spec => PruneLeavesNothing
<1> DEFINE Pruned == call' = [op |-> "keep", by |-> "prune"]
             => \A k \in Keys:
                  /\ tree'.table[k] # Tile(Off(tree'.background))
                  /\ IsChild(tree'.table[k]) =>
                       /\ ~ConstantInternal(tree'.table[k].node)
                       /\ \A s \in Slots: LET e == tree'.table[k].node[s]
                                          IN IsChild(e) => ~ConstantLeaf(e.node)
<1>1. TypeOK /\ Next => Pruned
  <2> SUFFICES ASSUME TypeOK, Next, call' = [op |-> "keep", by |-> "prune"]
               PROVE  \A k \in Keys:
                  /\ tree'.table[k] # Tile(Off(tree'.background))
                  /\ IsChild(tree'.table[k]) =>
                       /\ ~ConstantInternal(tree'.table[k].node)
                       /\ \A s \in Slots: LET e == tree'.table[k].node[s]
                                          IN IsChild(e) => ~ConstantLeaf(e.node)
    OBVIOUS
  <2>1. tree' = RootPrune(tree)  BY PruneCalls DEF Prune, Do
  <2> QED BY <2>1, RootPruneFacts DEF TypeOK
<1>2. TypeOK /\ [Next]_vars => [Pruned]_vars  BY <1>1
<1> QED BY <1>2, TypeCorrect, PTL DEF Spec, PruneLeavesNothing
=============================================================================
