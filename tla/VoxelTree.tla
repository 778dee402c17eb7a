------------------------------ MODULE VoxelTree ------------------------------
(***************************************************************************)
(* The sparse tree of openvdb/tree: a RootNode (table of tiles and         *)
(* children), one level of InternalNode and the LeafNodes.  InternalNode   *)
(* is one template for all its levels, so one level of it shows what a     *)
(* tile, a child and the descent do.  A coordinate is a path               *)
(* <<root key, slot of the internal node, offset in the leaf>>, a bounding *)
(* box the set of its coordinates.  One call of Tree is one step.          *)
(***************************************************************************)
EXTENDS Voxels, Integers

CONSTANTS
  Keys, Slots, Offs,   \* root table keys, internal node slots, leaf offsets
  Parts,               \* the regions fill() and clip() are called with
  NewLeaves, NewNodes, \* nodes handed to addLeaf() and addChild()
  Others,              \* the other trees of the binary operations
  ValueOps, StateOps,  \* functors on values and on active states
  Ops                  \* functors of combine(), on pairs of voxels

Coords == Keys \X Slots \X Offs

Absent == [kind |-> "absent"]
Tile(x) == [kind |-> "tile", voxel |-> x]
Child(n) == [kind |-> "child", node |-> n]
IsTile(e) == e.kind = "tile"
IsChild(e) == e.kind = "child"
OnTile(e) == e.kind = "tile" /\ e.voxel.on
OffTile(e) == e.kind = "tile" /\ ~e.voxel.on

Leaf == [Offs -> Voxel]
SlotEntry == [kind: {"tile"}, voxel: Voxel] \cup [kind: {"child"}, node: Leaf]
Internal == [Slots -> SlotEntry]
RootEntry ==
  {Absent} \cup [kind: {"tile"}, voxel: Voxel] \cup [kind: {"child"}, node: Internal]
Tree == [background: Values, table: [Keys -> RootEntry]]

ASSUME TreeAssumption ==
  /\ Parts \subseteq SUBSET Coords
  /\ NewLeaves \subseteq Leaf /\ NewNodes \subseteq Internal
  /\ Others \subseteq Tree
  /\ ValueOps \subseteq [Values -> Values] /\ StateOps \subseteq [BOOLEAN -> BOOLEAN]
  /\ Ops \subseteq [Voxel \X Voxel -> Voxel]

VARIABLES
  tree,   \* mRoot: its background and its table
  call    \* the last call, for VoxelMap

vars == <<tree, call>>

-----------------------------------------------------------------------------
(* Nodes filled with one voxel; the node under a tile is such a node.      *)

FullLeaf(x) == [o \in Offs |-> x]
FullInternal(x) == [s \in Slots |-> Tile(x)]

OpenSlot(e) == IF IsChild(e) THEN e.node ELSE FullLeaf(e.voxel)

\* The table entry that findOrAddCoord() leaves.
Solid(t, k) == IF t.table[k] = Absent THEN Tile(Off(t.background)) ELSE t.table[k]

OpenKey(t, k) ==
  IF IsChild(t.table[k]) THEN t.table[k].node ELSE FullInternal(Solid(t, k).voxel)

WithTable(t, table) == [background |-> t.background, table |-> table]
WithKey(t, k, e) == WithTable(t, [t.table EXCEPT ![k] = e])

InKey(part, k) == {p \in Slots \X Offs: <<k, p[1], p[2]>> \in part}
InSlot(q, s) == {o \in Offs: <<s, o>> \in q}

-----------------------------------------------------------------------------
(* Reading.                                                                *)

InternalProbe(n, s, o) == IF IsChild(n[s]) THEN n[s].node[o] ELSE n[s].voxel

Probe(t, c) ==
  IF IsChild(t.table[c[1]]) THEN InternalProbe(t.table[c[1]].node, c[2], c[3])
                            ELSE Solid(t, c[1]).voxel

VoxelsOf(t) == [c \in Coords |-> Probe(t, c)]

-----------------------------------------------------------------------------
(* Writing one voxel: a tile that the write would leave alone is kept, any *)
(* other is replaced by a node full of its voxel.                          *)

LeafWrite(l, o, w) == [l EXCEPT ![o] = w[l[o]]]

\* (for a run) a tile is replaced whatever the write does to it.
InternalWriteAlways(n, s, o, w) == [n EXCEPT ![s] = Child(LeafWrite(OpenSlot(n[s]), o, w))]

InternalWrite(n, s, o, w) ==
  IF IsTile(n[s]) /\ w[n[s].voxel] = n[s].voxel
  THEN n
  ELSE [n EXCEPT ![s] = Child(LeafWrite(OpenSlot(n[s]), o, w))]

\* modifyValueAndActiveState() judges by the functor's result on the opposite state.
InternalModify(n, s, o, w) ==
  IF IsTile(n[s]) /\ w[Vox(n[s].voxel.value, ~n[s].voxel.on)] = n[s].voxel
  THEN n
  ELSE [n EXCEPT ![s] = Child(LeafWrite(OpenSlot(n[s]), o, w))]

\* setValueOff(), setActiveState(): no entry is a background tile.
RootWriteOff(t, c, w) ==
  IF IsChild(t.table[c[1]]) \/ w[Solid(t, c[1]).voxel] # Solid(t, c[1]).voxel
  THEN WithKey(t, c[1], Child(InternalWrite(OpenKey(t, c[1]), c[2], c[3], w)))
  ELSE t

\* setValue(), setValueOnly(), modifyValue(): where there is no entry, one is made.
RootWriteOn(t, c, w) ==
  IF IsTile(t.table[c[1]]) /\ w[t.table[c[1]].voxel] = t.table[c[1]].voxel
  THEN t
  ELSE WithKey(t, c[1], Child(InternalWrite(OpenKey(t, c[1]), c[2], c[3], w)))

RootModify(t, c, w) ==
  IF IsTile(t.table[c[1]]) /\ w[t.table[c[1]].voxel] = t.table[c[1]].voxel
  THEN t
  ELSE WithKey(t, c[1], Child(InternalModify(OpenKey(t, c[1]), c[2], c[3], w)))

-----------------------------------------------------------------------------
(* Filling a region: tiles where it covers them, nodes where it does not.  *)

LeafFill(l, os, x) == [o \in Offs |-> IF o \in os THEN x ELSE l[o]]

InternalFill(n, q, x) ==
  [s \in Slots |-> CASE InSlot(q, s) = {} -> n[s]
                     [] InSlot(q, s) # {} /\ InSlot(q, s) = Offs -> Tile(x)
                     [] OTHER -> Child(LeafFill(OpenSlot(n[s]), InSlot(q, s), x))]

RootFill(t, part, x) ==
  WithTable(t, [k \in Keys |->
    CASE InKey(part, k) = {} -> t.table[k]
      [] InKey(part, k) # {} /\ InKey(part, k) = Slots \X Offs -> Tile(x)
      [] OTHER -> Child(InternalFill(OpenKey(t, k), InKey(part, k), x))])

InternalDenseFill(n, q, x) ==
  [s \in Slots |-> IF InSlot(q, s) = {} THEN n[s]
                   ELSE Child(LeafFill(OpenSlot(n[s]), InSlot(q, s), x))]

InternalVoxelize(n) ==
  [s \in Slots |-> IF OnTile(n[s]) THEN Child(FullLeaf(n[s].voxel)) ELSE n[s]]

RootVoxelize(t) ==
  WithTable(t, [k \in Keys |->
    IF IsChild(t.table[k]) \/ OnTile(t.table[k])
    THEN Child(InternalVoxelize(OpenKey(t, k))) ELSE t.table[k]])

RootDenseFill(t, part, x) ==
  IF x.on /\ \A k \in Keys: t.table[k] = Absent
  THEN RootVoxelize(RootFill(t, part, x))
  ELSE WithTable(t, [k \in Keys |->
         IF InKey(part, k) = {} THEN t.table[k]
         ELSE Child(InternalDenseFill(OpenKey(t, k), InKey(part, k), x))])

-----------------------------------------------------------------------------
(* Pruning and clipping.                                                   *)

ConstantLeaf(l) == \E x \in Voxel: l = FullLeaf(x)
ConstantInternal(n) == \E x \in Voxel: n = FullInternal(x)

InternalPrune(n) ==
  [s \in Slots |-> IF IsChild(n[s]) /\ ConstantLeaf(n[s].node)
                   THEN Tile(CHOOSE x \in Voxel: n[s].node = FullLeaf(x)) ELSE n[s]]

PruneEntry(e) ==
  CASE IsChild(e) /\ ConstantInternal(InternalPrune(e.node)) ->
         Tile(CHOOSE x \in Voxel: InternalPrune(e.node) = FullInternal(x))
    [] IsChild(e) /\ ~ConstantInternal(InternalPrune(e.node)) -> Child(InternalPrune(e.node))
    [] OTHER -> e

\* (for a run) without eraseBackgroundTiles().
RootPruneKeepsTiles(t) == WithTable(t, [k \in Keys |-> PruneEntry(t.table[k])])

RootPrune(t) ==
  WithTable(t, [k \in Keys |->
    IF PruneEntry(t.table[k]) = Tile(Off(t.background))
    THEN Absent ELSE PruneEntry(t.table[k])])

LeafClip(l, os, bg) == [o \in Offs |-> IF o \in os THEN l[o] ELSE Off(bg)]

SlotClip(e, os, bg) ==
  CASE os = {} -> Tile(Off(bg))
    [] os # {} /\ os = Offs -> e
    [] OTHER -> Child(IF IsChild(e) THEN LeafClip(e.node, os, bg)
                      ELSE LeafFill(FullLeaf(Off(bg)), os, e.voxel))

InternalClip(n, q, bg) == [s \in Slots |-> SlotClip(n[s], InSlot(q, s), bg)]

EntryClip(e, q, bg) ==
  CASE q = {} -> Absent
    [] q # {} /\ (q = Slots \X Offs \/ e = Absent) -> e
    [] OTHER -> Child(IF IsChild(e) THEN InternalClip(e.node, q, bg)
                      ELSE InternalFill(FullInternal(Off(bg)), q, e.voxel))

RootClip(t, part) ==
  RootPrune(WithTable(t, [k \in Keys |-> EntryClip(t.table[k], InKey(part, k), t.background)]))

-----------------------------------------------------------------------------
(* Adding and taking nodes and tiles.                                      *)

InternalTouchLeaf(n, s) == [n EXCEPT ![s] = Child(OpenSlot(n[s]))]
RootTouchLeaf(t, c) ==
  WithKey(t, c[1], Child(InternalTouchLeaf(OpenKey(t, c[1]), c[2])))

InternalAddLeaf(n, s, l) == [n EXCEPT ![s] = Child(l)]
RootAddLeaf(t, c, l) == WithKey(t, c[1], Child(InternalAddLeaf(OpenKey(t, c[1]), c[2], l)))

RootAddChild(t, k, n) == WithKey(t, k, Child(n))

InternalAddTile(n, level, s, o, x) ==
  [n EXCEPT ![s] = IF level = 1 THEN Tile(x)
                   ELSE Child([OpenSlot(n[s]) EXCEPT ![o] = x])]

RootAddTile(t, level, c, x) ==
  WithKey(t, c[1], IF level = 2 THEN Tile(x)
                   ELSE Child(InternalAddTile(OpenKey(t, c[1]), level, c[2], c[3], x)))

\* (for a run) mChildMask.setOff() without a value for the slot.
InternalStealLeafOnly(n, s, x) == IF IsChild(n[s]) THEN [n EXCEPT ![s] = Absent] ELSE n

InternalStealLeaf(n, s, x) == IF IsChild(n[s]) THEN [n EXCEPT ![s] = Tile(x)] ELSE n

RootStealNode(t, level, c, x) ==
  CASE ~IsChild(t.table[c[1]]) -> t
    [] IsChild(t.table[c[1]]) /\ level = 1 -> WithKey(t, c[1], Tile(x))
    [] OTHER -> WithKey(t, c[1], Child(InternalStealLeaf(t.table[c[1]].node, c[2], x)))

InternalStealLeaves(n, x) == [s \in Slots |-> IF IsChild(n[s]) THEN Tile(x) ELSE n[s]]

RootStealNodes(t, level, x) ==
  WithTable(t, [k \in Keys |->
    CASE ~IsChild(t.table[k]) -> t.table[k]
      [] IsChild(t.table[k]) /\ level = 1 -> Tile(x)
      [] OTHER -> Child(InternalStealLeaves(t.table[k].node, x))])

-----------------------------------------------------------------------------
(* The background.                                                         *)

LeafReset(l, old, new) == [o \in Offs |-> Reset(l[o], old, new)]

InternalReset(n, old, new) ==
  [s \in Slots |-> IF IsChild(n[s]) THEN Child(LeafReset(n[s].node, old, new))
                                    ELSE Tile(Reset(n[s].voxel, old, new))]

RootSetBackground(t, new) ==
  [background |-> new,
   table |-> [k \in Keys |->
     CASE IsChild(t.table[k]) -> Child(InternalReset(t.table[k].node, t.background, new))
       [] IsTile(t.table[k]) -> Tile(Reset(t.table[k].voxel, t.background, new))
       [] OTHER -> Absent]]

-----------------------------------------------------------------------------
(* The active states of another tree.  In an internal node the loop over   *)
(* the slots leaves a node or a value in each; the masks are computed      *)
(* afterwards, bit by bit, from the old masks of both nodes.               *)

\* What slot holds once its bits in mChildMask and mValueMask are set.
Masked(slot, child, on) ==
  IF child THEN Child(slot.node) ELSE Tile(Vox(slot.voxel.value, on))

LeafTopology(m, v) == [o \in Offs |-> Vox(v, m[o].on)]
LeafAllOn(l) == [o \in Offs |-> Vox(l[o].value, TRUE)]
LeafUnion(l, m) == [o \in Offs |-> Vox(l[o].value, l[o].on \/ m[o].on)]
LeafIntersection(l, m) == [o \in Offs |-> Vox(l[o].value, l[o].on /\ m[o].on)]
LeafDifference(l, m) == [o \in Offs |-> Vox(l[o].value, l[o].on /\ ~m[o].on)]

InternalTopology(m, v) ==
  [s \in Slots |-> IF IsChild(m[s]) THEN Child(LeafTopology(m[s].node, v))
                                    ELSE Tile(Vox(v, m[s].voxel.on))]
InternalAllOn(n) ==
  [s \in Slots |-> IF IsChild(n[s]) THEN Child(LeafAllOn(n[s].node))
                                    ELSE Tile(Vox(n[s].voxel.value, TRUE))]

SlotUnion(e, f) ==
  LET tC == IsChild(e) \/ IsChild(f)
      slot == CASE IsChild(f) /\ IsChild(e) -> Child(LeafUnion(e.node, f.node))
                [] IsChild(f) /\ OnTile(e) ->
                     Child(LeafAllOn(LeafTopology(f.node, e.voxel.value)))
                [] IsChild(f) /\ OffTile(e) -> Child(LeafTopology(f.node, e.voxel.value))
                [] OnTile(f) /\ IsChild(e) -> Child(LeafAllOn(e.node))
                [] OTHER -> e
  IN Masked(slot, tC, (OnTile(e) \/ OnTile(f)) /\ ~tC)

SlotIntersection(e, f, bg) ==
  LET tC == (IsChild(e) /\ (IsChild(f) \/ OnTile(f))) \/ (OnTile(e) /\ IsChild(f))
      slot == CASE IsChild(e) /\ IsChild(f) -> Child(LeafIntersection(e.node, f.node))
                [] IsChild(e) /\ OffTile(f) -> Tile(Off(bg))
                [] OnTile(e) /\ IsChild(f) -> Child(LeafTopology(f.node, e.voxel.value))
                [] OTHER -> e
  IN Masked(slot, tC, OnTile(e) /\ OnTile(f))

\* (for a run) an active tile takes the other node's states, as in the intersection.
SlotDifferenceTopology(e, f, bg) ==
  CASE IsChild(e) /\ IsChild(f) -> Child(LeafDifference(e.node, f.node))
    [] IsChild(e) /\ OnTile(f) -> Tile(Off(bg))
    [] OnTile(e) /\ IsChild(f) -> Child(LeafTopology(f.node, e.voxel.value))
    [] OnTile(e) /\ OnTile(f) -> Tile(Off(e.voxel.value))
    [] OTHER -> e

SlotDifference(e, f, bg) ==
  LET tC == (IsChild(e) /\ (IsChild(f) \/ ~OnTile(f))) \/ (OnTile(e) /\ IsChild(f))
      slot == CASE IsChild(e) /\ IsChild(f) -> Child(LeafDifference(e.node, f.node))
                [] IsChild(e) /\ OnTile(f) -> Tile(Off(bg))
                [] OnTile(e) /\ IsChild(f) ->
                     Child(LeafDifference(FullLeaf(e.voxel), f.node))
                [] OTHER -> e
  IN Masked(slot, tC, OnTile(e) /\ ~((IsChild(e) /\ OnTile(f)) \/ (tC \/ OnTile(f))))

InternalUnion(n, m) == [s \in Slots |-> SlotUnion(n[s], m[s])]
InternalIntersection(n, m, bg) == [s \in Slots |-> SlotIntersection(n[s], m[s], bg)]
InternalDifference(n, m, bg) == [s \in Slots |-> SlotDifference(n[s], m[s], bg)]

EntryUnion(e, f, bg) ==
  CASE IsChild(f) /\ IsChild(e) -> Child(InternalUnion(e.node, f.node))
    [] IsChild(f) /\ OnTile(e) -> Child(InternalAllOn(InternalTopology(f.node, e.voxel.value)))
    [] IsChild(f) /\ OffTile(e) -> Child(InternalTopology(f.node, e.voxel.value))
    [] IsChild(f) /\ e = Absent -> Child(InternalTopology(f.node, bg))
    [] OnTile(f) /\ IsChild(e) -> Child(InternalAllOn(e.node))
    [] OnTile(f) /\ IsTile(e) -> Tile(Vox(e.voxel.value, TRUE))
    [] OnTile(f) /\ e = Absent -> Tile(Vox(bg, TRUE))
    [] OTHER -> e

EntryIntersection(e, f, bg) ==
  CASE IsChild(e) /\ IsChild(f) -> Child(InternalIntersection(e.node, f.node, bg))
    [] IsChild(e) /\ (f = Absent \/ OffTile(f)) -> Absent
    [] OnTile(e) /\ (f = Absent \/ OffTile(f)) -> Tile(Off(e.voxel.value))
    [] OnTile(e) /\ IsChild(f) -> Child(InternalTopology(f.node, e.voxel.value))
    [] OTHER -> e

EntryDifference(e, f, bg) ==
  CASE IsChild(e) /\ IsChild(f) -> Child(InternalDifference(e.node, f.node, bg))
    [] OnTile(e) /\ IsChild(f) ->
         Child(InternalDifference(FullInternal(e.voxel), f.node, bg))
    [] IsChild(e) /\ OnTile(f) -> Absent
    [] OnTile(e) /\ OnTile(f) -> Tile(Off(e.voxel.value))
    [] OTHER -> e

RootUnion(t, o) ==
  WithTable(t, [k \in Keys |-> EntryUnion(t.table[k], o.table[k], t.background)])
RootIntersection(t, o) ==
  WithTable(t, [k \in Keys |-> EntryIntersection(t.table[k], o.table[k], t.background)])
RootDifference(t, o) ==
  WithTable(t, [k \in Keys |-> EntryDifference(t.table[k], o.table[k], t.background)])

-----------------------------------------------------------------------------
(* Merging: the other tree's nodes move into this one.                     *)

Policies == {"states", "nodes", "both"}   \* MERGE_ACTIVE_STATES, _NODES, _STATES_AND_NODES

LeafMerge(l, m, policy) ==
  IF policy = "nodes" THEN l ELSE [o \in Offs |-> IF ~l[o].on /\ m[o].on THEN m[o] ELSE l[o]]

\* merge(tileValue, tileActive), which only the policy "both" calls.
LeafMergeTile(l, x) == [o \in Offs |-> IF l[o].on THEN l[o] ELSE x]
InternalMergeTile(n, x) ==
  [s \in Slots |-> CASE IsChild(n[s]) -> Child(LeafMergeTile(n[s].node, x))
                     [] OffTile(n[s]) -> Tile(x)
                     [] OTHER -> n[s]]

SlotMerge(e, f, background, otherBackground, policy) ==
  LET stolen == LeafReset(f.node, otherBackground, background) IN
  CASE IsChild(f) /\ IsChild(e) -> Child(LeafMerge(e.node, f.node, policy))
    [] IsChild(f) /\ (OffTile(e) \/ policy = "nodes") /\ ~IsChild(e) -> Child(stolen)
    [] IsChild(f) /\ OnTile(e) /\ policy = "both" -> Child(LeafMergeTile(stolen, e.voxel))
    [] OnTile(f) /\ OffTile(e) /\ policy # "nodes" -> f
    [] OnTile(f) /\ IsChild(e) /\ policy = "states" -> f
    [] OnTile(f) /\ IsChild(e) /\ policy = "both" -> Child(LeafMergeTile(e.node, f.voxel))
    [] OTHER -> e

InternalMerge(n, m, background, otherBackground, policy) ==
  [s \in Slots |-> SlotMerge(n[s], m[s], background, otherBackground, policy)]

\* The call below hands over the backgrounds in the opposite order.
EntryMerge(e, f, bg, other, policy) ==
  LET stolen == InternalReset(f.node, other, bg) IN
  CASE IsChild(f) /\ IsChild(e) -> Child(InternalMerge(e.node, f.node, other, bg, policy))
    [] IsChild(f) /\ (e = Absent \/ OffTile(e) \/ (OnTile(e) /\ policy = "nodes")) ->
         Child(stolen)
    [] IsChild(f) /\ OnTile(e) /\ policy = "both" -> Child(InternalMergeTile(stolen, e.voxel))
    [] OnTile(f) /\ (e = Absent \/ OffTile(e)) /\ policy # "nodes" -> f
    [] OnTile(f) /\ IsChild(e) /\ policy = "states" -> f
    [] OnTile(f) /\ IsChild(e) /\ policy = "both" -> Child(InternalMergeTile(e.node, f.voxel))
    [] OTHER -> e

\* Where two nodes meet below the root.
Turned(t, o) == {c \in Coords: IsChild(t.table[c[1]]) /\ IsChild(o.table[c[1]])}

RootMerge(t, o, policy) ==
  WithTable(t, [k \in Keys |->
    EntryMerge(t.table[k], o.table[k], t.background, o.background, policy)])

-----------------------------------------------------------------------------
(* Combining: a functor over all pairs of voxels of two trees.             *)

\* The result state the CombineArgs start with, and what SwappedCombineOp leaves
\* of a functor: its value, and that state.
Default(op) == [p \in Voxel \X Voxel |-> Vox(op[p].value, p[1].on \/ p[2].on)]

\* `rev' is the functor applied where a tile of the first meets a child of the second.
SlotCombine(e, f, op, rev) ==
  CASE IsTile(e) /\ IsTile(f) -> Tile(op[<<e.voxel, f.voxel>>])
    [] IsChild(e) /\ IsTile(f) -> Child([o \in Offs |-> op[<<e.node[o], f.voxel>>]])
    [] IsTile(e) /\ IsChild(f) -> Child([o \in Offs |-> rev[<<e.voxel, f.node[o]>>]])
    [] OTHER -> Child([o \in Offs |-> op[<<e.node[o], f.node[o]>>]])

InternalCombine(n, m, op, rev) == [s \in Slots |-> SlotCombine(n[s], m[s], op, rev)]

EntryCombine(e, f, op, rev) ==
  CASE IsTile(e) /\ IsTile(f) -> Tile(op[<<e.voxel, f.voxel>>])
    [] IsChild(e) /\ IsTile(f) -> Child(InternalCombine(e.node, FullInternal(f.voxel), op, rev))
    [] IsTile(e) /\ IsChild(f) -> Child(InternalCombine(FullInternal(e.voxel), f.node, rev, rev))
    [] OTHER -> Child(InternalCombine(e.node, f.node, op, rev))

PruneChild(e, prune) == IF prune /\ IsChild(e) THEN Child(InternalPrune(e.node)) ELSE e

Written(t, o) == {k \in Keys: t.table[k] # Absent \/ o.table[k] # Absent}

\* The voxels that a tile of the first and a node of the second are combined into,
\* and those that neither tree has an entry for.
Swaps(e, f, s) == IsChild(f) /\ (IsTile(e) \/ (IsTile(e.node[s]) /\ IsChild(f.node[s])))
Swapped(t, o) ==
  {c \in Coords: c[1] \in Written(t, o) /\ Swaps(Solid(t, c[1]), Solid(o, c[1]), c[2])}
Bare(t, o) == {c \in Coords: c[1] \notin Written(t, o)}

\* One CombineArgs serves all keys: the states set for the last pair of tiles are
\* still set when the backgrounds are combined.
StatesLeft(t, o) ==
  LET pairs == {k \in Written(t, o): IsTile(Solid(t, k)) /\ IsTile(Solid(o, k))}
  IN IF pairs = {} THEN {<<FALSE, FALSE>>}
     ELSE {<<Solid(t, k).voxel.on, Solid(o, k).voxel.on>>: k \in pairs}

Backgrounds(t, o, op, left) ==
  op[<<Vox(t.background, left[1]), Vox(o.background, left[2])>>].value

RootCombine(t, o, op, prune, left) ==
  [background |-> Backgrounds(t, o, op, left),
   table |-> [k \in Keys |->
     IF k \in Written(t, o)
     THEN PruneChild(EntryCombine(Solid(t, k), Solid(o, k), op, Default(op)), prune)
     ELSE Absent]]

RootCombine2(t, one, two, op, prune, left) ==
  [background |-> Backgrounds(one, two, op, left),
   table |-> [k \in Keys |->
     IF k \in Written(one, two)
     THEN PruneChild(EntryCombine(Solid(one, k), Solid(two, k), op, op), prune)
     ELSE PruneChild(t.table[k], FALSE)]]

-----------------------------------------------------------------------------
(* The calls of Tree.                                                      *)

Do(t, c) == tree' = t /\ call' = c

View(t) == [map |-> VoxelsOf(t), background |-> t.background]

\* What node of that level covers the coordinate.
Extent(level, c) ==
  {d \in Coords: d[1] = c[1] /\ (level < 2 => d[2] = c[2]) /\ (level < 1 => d[3] = c[3])}

Written1(c, w) == [op |-> "write", part |-> {c}, by |-> w]
Constant(x) == [y \in Voxel |-> x]

SetValueOff(c) == Do(RootWriteOff(tree, c, TurnOff), Written1(c, TurnOff))
SetActiveState(c, on) == Do(RootWriteOff(tree, c, SetState(on)), Written1(c, SetState(on)))
SetValueOffTo(c, v) == Do(RootWriteOff(tree, c, SetOff(v)), Written1(c, SetOff(v)))
SetValueOn(c, v) == Do(RootWriteOn(tree, c, SetOn(v)), Written1(c, SetOn(v)))
SetValueOnly(c, v) == Do(RootWriteOn(tree, c, SetOnly(v)), Written1(c, SetOnly(v)))
ModifyValue(c, f) == Do(RootWriteOn(tree, c, Modify(f)), Written1(c, Modify(f)))
ModifyValueAndActiveState(c, f, g) ==
  Do(RootModify(tree, c, Both(f, g)), [op |-> "modify", part |-> {c}, by |-> Both(f, g)])

SparseFill(part, x) ==
  Do(RootFill(tree, part, x), [op |-> "fill", part |-> part, by |-> Constant(x)])
DenseFill(part, x) ==
  Do(RootDenseFill(tree, part, x), [op |-> "fill", part |-> part, by |-> Constant(x)])

VoxelizeActiveTiles == Do(RootVoxelize(tree), [op |-> "keep", by |-> "voxelize"])
Prune == Do(RootPrune(tree), [op |-> "keep", by |-> "prune"])
TouchLeaf(c) == Do(RootTouchLeaf(tree, c), [op |-> "keep", by |-> "touch"])
Clip(part) == Do(RootClip(tree, part), [op |-> "clip", part |-> part])
Clear == Do([tree EXCEPT !.table = [k \in Keys |-> Absent]], [op |-> "clip", part |-> {}])

AddLeaf(c, l) ==
  Do(RootAddLeaf(tree, c, l),
     [op |-> "paste", part |-> Extent(1, c), patch |-> [d \in Coords |-> l[d[3]]]])
AddChild(c, n) ==
  Do(RootAddChild(tree, c[1], n),
     [op |-> "paste", part |-> Extent(2, c),
      patch |-> [d \in Coords |-> InternalProbe(n, d[2], d[3])]])
AddTile(level, c, x) ==
  Do(RootAddTile(tree, level, c, x),
     [op |-> "fill", part |-> Extent(level, c), by |-> Constant(x)])
StealNode(level, c, x) ==
  Do(RootStealNode(tree, level, c, x),
     [op |-> "steal", part |-> Extent(level + 1, c), with |-> x])
StealNodes(level, x) ==
  Do(RootStealNodes(tree, level, x), [op |-> "stealNodes", with |-> x])

SetBackground(new) ==
  Do(RootSetBackground(tree, new), [op |-> "setBackground", new |-> new])
SetBackgroundOnly(new) ==
  Do([tree EXCEPT !.background = new], [op |-> "setBackgroundOnly", new |-> new])

TopologyUnion(o) == Do(RootUnion(tree, o), [op |-> "union", other |-> View(o)])
TopologyIntersection(o) ==
  Do(RootIntersection(tree, o), [op |-> "intersection", other |-> View(o)])
TopologyDifference(o) ==
  Do(RootDifference(tree, o), [op |-> "difference", other |-> View(o)])
Merge(o, policy) ==
  Do(RootMerge(tree, o, policy),
     [op |-> "merge", other |-> View(o), policy |-> policy, turned |-> Turned(tree, o)])
Combine(o, op, prune) ==
  \E left \in StatesLeft(tree, o):
    Do(RootCombine(tree, o, op, prune, left),
       [op |-> "combine", other |-> View(o), by |-> op,
        lost |-> Swapped(tree, o), bare |-> Bare(tree, o)])
Combine2(one, two, op, prune) ==
  \E left \in StatesLeft(one, two):
    Do(RootCombine2(tree, one, two, op, prune, left),
       [op |-> "combine2", one |-> View(one), two |-> View(two), by |-> op,
        bare |-> Bare(one, two)])

Init ==
  /\ \E v \in Values: tree = [background |-> v, table |-> [k \in Keys |-> Absent]]
  /\ call = [op |-> "construct"]

Next ==
  \/ \E c \in Coords, v \in Values, on \in BOOLEAN, f \in ValueOps, g \in StateOps:
       \/ SetValueOff(c) \/ SetActiveState(c, on)
       \/ SetValueOffTo(c, v) \/ SetValueOn(c, v) \/ SetValueOnly(c, v)
       \/ ModifyValue(c, f) \/ ModifyValueAndActiveState(c, f, g)
  \/ \E part \in Parts:
       \/ Clip(part)
       \/ \E x \in Voxel: SparseFill(part, x) \/ DenseFill(part, x)
  \/ Prune \/ VoxelizeActiveTiles \/ Clear
  \/ \E c \in Coords:
       \/ TouchLeaf(c)
       \/ \E l \in NewLeaves: AddLeaf(c, l)
       \/ \E n \in NewNodes: AddChild(c, n)
       \/ \E x \in Voxel: \/ \E level \in 0..2: AddTile(level, c, x)
                          \/ \E level \in 0..1: StealNode(level, c, x)
  \/ \E x \in Voxel, level \in 0..1: StealNodes(level, x)
  \/ \E v \in Values: SetBackground(v) \/ SetBackgroundOnly(v)
  \/ \E o \in Others:
       \/ TopologyUnion(o) \/ TopologyIntersection(o) \/ TopologyDifference(o)
       \/ \E policy \in Policies: Merge(o, policy)
       \/ \E op \in Ops, prune \in BOOLEAN:
            \/ Combine(o, op, prune)
            \/ \E p \in Others: Combine2(o, p, op, prune)

Spec == Init /\ [][Next]_vars

-----------------------------------------------------------------------------
(* Properties.                                                             *)

\* Every table entry is a tile or a node, down to the voxels.
TypeOK == tree \in Tree

\* The tree is a map from coordinates to voxels: whatever its nodes and tiles,
\* every call changes the voxels it names as VoxelMap says, and no other.
VM == INSTANCE VoxelMap WITH map <- VoxelsOf(tree), background <- tree.background

VoxelMapSpec == VM!Spec

\* A write, or a change of state, that alters no voxel allocates no node, except
\* where the root has no entry at all (RootNode.h, set*() and modify*()).
QuietWriteAllocatesNothing ==
  [][call'.op = "write" /\ VoxelsOf(tree') = VoxelsOf(tree)
       => \A c \in call'.part: tree.table[c[1]] # Absent => tree' = tree]_vars

\* prune() leaves no node that a tile could stand for and no background tile.
PruneLeavesNothing ==
  [][call' = [op |-> "keep", by |-> "prune"]
       => \A k \in Keys:
            /\ tree'.table[k] # Tile(Off(tree'.background))
            /\ IsChild(tree'.table[k]) =>
                 /\ ~ConstantInternal(tree'.table[k].node)
                 /\ \A s \in Slots: LET e == tree'.table[k].node[s]
                                    IN IsChild(e) => ~ConstantLeaf(e.node)]_vars

(* Stricter promises, made by comments of the source, that the code        *)
(* breaks.                                                                 *)

\* modifyValueAndActiveState() applies the functor to the voxel (Tree.h:423).
ModifyIsApplied ==
  [][call'.op = "modify" => VM!Write(call'.part, call'.by)]_vars

\* combineExtended() gives each voxel the value and the active state that the
\* functor has computed for it (Tree.h:783-786), wherever the nodes are.
CombineIsApplied ==
  [][call'.op = "combine"
       => \A c \in Coords \ call'.bare:
            VoxelsOf(tree')[c] = call'.by[<<VoxelsOf(tree)[c], call'.other.map[c]>>]]_vars
=============================================================================
