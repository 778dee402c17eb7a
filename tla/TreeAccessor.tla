---------------------------- MODULE TreeAccessor ----------------------------
(***************************************************************************)
(* The node caches of tree/ValueAccessor.h and the registry by which a     *)
(* tree of tree/Tree.h clears them.  An accessor of a tree of three levels *)
(* (ValueAccessor2) caches one leaf and one internal node, each with the   *)
(* key of the region it covers.  A pointer to a node is the place where    *)
(* the node is: of a tree, of a root key and, for a leaf, of a slot.       *)
(* Values are left out, so whether a write leaves a tile alone is open.    *)
(***************************************************************************)
EXTENDS Integers

CONSTANTS
  Trees, Accessors,
  ConstAccessors,      \* accessors of const trees, which do not write
  Keys, Slots,
  Coords,              \* the leaf-sized regions that are accessed
  None,                \* a null pointer, and the key that no coordinate has
  Freed,               \* a pointer to a deleted node
  Away,                \* a pointer to a node handed to the caller
  Unborn,              \* what an accessor is before construction, after destruction
  Careful              \* callers do not delete nodes that an accessor caches

Internals == Trees \X Keys
Leaves == {<<t, c[1], c[2]>>: t \in Trees, c \in Coords}
Places == Internals \cup Leaves
Pointers == {None, Freed, Away}

Accessor == [tree: Trees \cup {None},
             key0: Coords \cup {None}, node0: Leaves \cup Pointers,
             key1: Keys \cup {None}, node1: Internals \cup Pointers]

ASSUME AccessorAssumption ==
  /\ ConstAccessors \subseteq Accessors /\ Coords \subseteq Keys \X Slots
  /\ Careful \in BOOLEAN
  /\ None \notin Trees \cup Keys \cup Coords \cup Places
  /\ Freed \notin Places \cup {None, Away} /\ Away \notin Places \cup {None}
  /\ Unborn \notin Accessor

VARIABLES
  nodes,      \* the places where there are nodes
  alive,      \* the trees that exist
  registry,   \* mAccessorRegistry and mConstAccessorRegistry of each tree
  acc,        \* the accessors
  tile        \* where the last call was to put a tile, None after any other call

vars == <<nodes, alive, registry, acc, tile>>

-----------------------------------------------------------------------------
(* Nodes.                                                                  *)

Internal(t, c) == <<t, c[1]>>
Leaf(t, c) == <<t, c[1], c[2]>>

InTree(t) == {p \in nodes: p[1] = t}

\* A node and what lies under it.
Branch(p) ==
  IF p \in Leaves THEN {p} ELSE {p} \cup {q \in Leaves: q[1] = p[1] /\ q[2] = p[2]}

\* A leaf hangs in an internal node.
Closed(ns) == \A p \in ns: p \in Leaves => <<p[1], p[2]>> \in ns

\* What a tree may be made of.
Shapes(t) == {ns \in SUBSET {p \in Places: p[1] = t}: Closed(ns)}

Replaced(t, ns) == (nodes \ InTree(t)) \cup ns

-----------------------------------------------------------------------------
(* Caches.                                                                 *)

Fresh(t) == [tree |-> t, key0 |-> None, node0 |-> None, key1 |-> None, node1 |-> None]
Cleared(r) == Fresh(r.tree)

\* insert(); (for a run) one that does not mask the key.
InsertUnmasked(r, c, p) == [r EXCEPT !.key1 = c, !.node1 = p]
Insert0(r, c, p) == [r EXCEPT !.key0 = c, !.node0 = p]
Insert1(r, c, p) == [r EXCEPT !.key1 = c[1], !.node1 = p]

IsHashed0(r, c) == r.key0 = c
IsHashed1(r, c) == r.key1 = c[1]

\* The leaf under an internal node that is reached by a pointer.
Under(p, c) == <<p[1], p[2], c[2]>>

Descended0(r, c, p, ns) == IF p \in ns THEN Insert0(r, c, p) ELSE r
Descended1(r, c, p, ns) ==
  IF p \in ns THEN Descended0(Insert1(r, c, p), c, Under(p, c), ns) ELSE r

\* What the ...AndCache() functions cache: the nodes they descend through, from
\* the lowest cached node that covers the coordinate, or from the root.
Accessed(r, c, ns) ==
  CASE IsHashed0(r, c) -> r
    [] ~IsHashed0(r, c) /\ IsHashed1(r, c) -> Descended0(r, c, Under(r.node1, c), ns)
    [] OTHER -> Descended1(r, c, Internal(r.tree, c), ns)

\* Accesses through a dangling pointer are undefined and not followed further.
Defined(r, c) == (IsHashed0(r, c) => r.node0 \in nodes) /\ (IsHashed1(r, c) => r.node1 \in nodes)

Born(a) == acc[a] # Unborn
Usable(a, c) == Born(a) /\ acc[a].tree # None /\ Defined(acc[a], c)
Writable(a, c) == a \notin ConstAccessors /\ Usable(a, c)

Caches(a, ns) == Born(a) /\ (acc[a].node0 \in ns \/ acc[a].node1 \in ns)
MayDelete(ns) == Careful => \A a \in Accessors: ~Caches(a, ns)

\* clearAllAccessors() of a tree; (for a run) of its const accessors only.
ClearedConst(t) ==
  [a \in Accessors |-> IF a \in registry[t] \cap ConstAccessors THEN Cleared(acc[a]) ELSE acc[a]]
ClearedAll(t) == [a \in Accessors |-> IF a \in registry[t] THEN Cleared(acc[a]) ELSE acc[a]]

\* The pointers to deleted nodes and to nodes that are now elsewhere.
Retargeted(accessors, fate) ==
  [a \in Accessors |->
     IF accessors[a] = Unborn THEN Unborn
     ELSE [accessors[a] EXCEPT !.node0 = IF @ \in DOMAIN fate THEN fate[@] ELSE @,
                               !.node1 = IF @ \in DOMAIN fate THEN fate[@] ELSE @]]
Deleted(ns) == [p \in ns |-> Freed]

-----------------------------------------------------------------------------
(* Accessors come and go.                                                  *)

Attached(a, t) == IF t = None THEN registry ELSE [registry EXCEPT ![t] = @ \cup {a}]

Construct(a, t) ==
  /\ ~Born(a) /\ t \in alive
  /\ acc' = [acc EXCEPT ![a] = Fresh(t)]
  /\ registry' = Attached(a, t)
  /\ tile' = None /\ UNCHANGED <<nodes, alive>>

SameType(a, b) == a \in ConstAccessors <=> b \in ConstAccessors

CopyConstruct(a, b) ==
  /\ ~Born(a) /\ Born(b) /\ SameType(a, b)
  /\ acc' = [acc EXCEPT ![a] = acc[b]]
  /\ registry' = Attached(a, acc[b].tree)
  /\ tile' = None /\ UNCHANGED <<nodes, alive>>

\* (for a run) the assignment without the base class's.
AssignOnly(a, b) ==
  /\ Born(a) /\ Born(b) /\ SameType(a, b) /\ a # b
  /\ acc' = [acc EXCEPT ![a] = acc[b]]
  /\ tile' = None /\ UNCHANGED <<nodes, alive, registry>>

Assign(a, b) ==
  /\ Born(a) /\ Born(b) /\ SameType(a, b) /\ a # b
  /\ acc' = [acc EXCEPT ![a] = acc[b]]
  /\ registry' = [t \in Trees |->
       (registry[t] \ {x \in {a}: acc[a].tree = t}) \cup {x \in {a}: acc[b].tree = t}]
  /\ tile' = None /\ UNCHANGED <<nodes, alive>>

Destroy(a) ==
  /\ Born(a)
  /\ registry' = [t \in Trees |-> registry[t] \ {x \in {a}: acc[a].tree = t}]
  /\ acc' = [acc EXCEPT ![a] = Unborn]
  /\ tile' = None /\ UNCHANGED <<nodes, alive>>

ClearAccessor(a) ==
  /\ Born(a)
  /\ acc' = [acc EXCEPT ![a] = Cleared(acc[a])]
  /\ tile' = None /\ UNCHANGED <<nodes, alive, registry>>

EraseNode(a, level) ==
  /\ Born(a)
  /\ acc' = [acc EXCEPT ![a] = IF level = 0 THEN [@ EXCEPT !.key0 = None, !.node0 = None]
                                           ELSE [@ EXCEPT !.key1 = None, !.node1 = None]]
  /\ tile' = None /\ UNCHANGED <<nodes, alive, registry>>

-----------------------------------------------------------------------------
(* Calls through an accessor.                                              *)

\* getValue(), isValueOn(), probeValue(), getValueDepth(), isVoxel(), probeLeaf().
Read(a, c) ==
  /\ Usable(a, c)
  /\ acc' = [acc EXCEPT ![a] = Accessed(acc[a], c, nodes)]
  /\ tile' = None /\ UNCHANGED <<nodes, alive, registry>>

\* probeNode() of an internal node.
ProbeNode(a, c) ==
  LET r == acc[a] IN
  /\ Usable(a, c)
  /\ acc' = [acc EXCEPT ![a] = IF ~IsHashed1(r, c) /\ Internal(r.tree, c) \in nodes
                               THEN Insert1(r, c, Internal(r.tree, c)) ELSE r]
  /\ tile' = None /\ UNCHANGED <<nodes, alive, registry>>

\* The nodes a write at c may create, below the node it starts from.
Path(r, c) ==
  CASE IsHashed0(r, c) -> {}
    [] ~IsHashed0(r, c) /\ IsHashed1(r, c) -> {Under(r.node1, c)}
    [] OTHER -> {Internal(r.tree, c), Leaf(r.tree, c)}

\* setValue(), setValueOnly(), setValueOff(), setActiveState(), modifyValue(),
\* modifyValueAndActiveState(): none, the first or all of these nodes.
Write(a, c) ==
  /\ Writable(a, c)
  /\ \E new \in SUBSET Path(acc[a], c): Closed(nodes \cup new) /\ nodes' = nodes \cup new
  /\ acc' = [acc EXCEPT ![a] = Accessed(acc[a], c, nodes')]
  /\ tile' = None /\ UNCHANGED <<alive, registry>>

TouchLeaf(a, c) ==
  /\ Writable(a, c)
  /\ nodes' = nodes \cup Path(acc[a], c)
  /\ acc' = [acc EXCEPT ![a] = Accessed(acc[a], c, nodes')]
  /\ tile' = None /\ UNCHANGED <<alive, registry>>

\* addLeaf() starts from the cached internal node or the root; the leaf itself is
\* not cached.
AddLeaf(a, c) ==
  LET r == acc[a]
      top == IF IsHashed1(r, c) THEN r.node1 ELSE Internal(r.tree, c)
      gone == {Under(top, c)} \cap nodes
  IN /\ Writable(a, c) /\ MayDelete(gone)
     /\ nodes' = nodes \cup {top, Under(top, c)}
     /\ acc' = Retargeted([acc EXCEPT ![a] = Insert1(r, c, top)], Deleted(gone))
     /\ tile' = None /\ UNCHANGED <<alive, registry>>

\* The nodes that a tile of that level takes the place of; (for a run) one level off.
CoveredAbove(level, place) == IF level <= 1 THEN {} ELSE Branch(place) \cap nodes
Covered(level, place) == IF level = 0 THEN {} ELSE Branch(place) \cap nodes

\* addTile() likewise.  A level above that of the node it starts from changes nothing.
AddTile(a, level, c) ==
  LET r == acc[a]
      top == IF IsHashed1(r, c) THEN r.node1 ELSE Internal(r.tree, c)
      place == IF level = 2 THEN top ELSE Under(top, c)
      gone == IF level = 2 /\ IsHashed1(r, c) THEN {} ELSE Covered(level, place)
      new == IF level = 0 THEN {top, place} ELSE IF level = 1 THEN {top} ELSE {}
      cached == IF level = 0 THEN Insert0(Insert1(r, c, top), c, place)
                ELSE IF level = 1 THEN Insert1(r, c, top) ELSE r
  IN /\ Writable(a, c) /\ MayDelete(gone)
     /\ nodes' = (nodes \ gone) \cup new
     /\ acc' = Retargeted([acc EXCEPT ![a] = cached], Deleted(gone))
     /\ tile' = IF level = 0 THEN None ELSE place
     /\ UNCHANGED <<alive, registry>>

-----------------------------------------------------------------------------
(* Calls of a tree.                                                        *)

TreeWrite(t, c) ==
  /\ t \in alive
  /\ \E new \in SUBSET {Internal(t, c), Leaf(t, c)}:
       Closed(nodes \cup new) /\ nodes' = nodes \cup new
  /\ tile' = None /\ UNCHANGED <<alive, registry, acc>>

TreeTouchLeaf(t, c) ==
  /\ t \in alive
  /\ nodes' = nodes \cup {Internal(t, c), Leaf(t, c)}
  /\ tile' = None /\ UNCHANGED <<alive, registry, acc>>

TreeAddLeaf(t, c) ==
  LET gone == {Leaf(t, c)} \cap nodes
  IN /\ t \in alive /\ MayDelete(gone)
     /\ nodes' = nodes \cup {Internal(t, c), Leaf(t, c)}
     /\ acc' = Retargeted(acc, Deleted(gone))
     /\ tile' = None /\ UNCHANGED <<alive, registry>>

TreeAddTile(t, level, c) ==
  LET place == IF level = 2 THEN Internal(t, c) ELSE Leaf(t, c)
      gone == Covered(level, place)
      new == IF level = 0 THEN {Internal(t, c), place}
             ELSE IF level = 1 THEN {Internal(t, c)} ELSE {}
  IN /\ t \in alive /\ MayDelete(gone)
     /\ nodes' = (nodes \ gone) \cup new
     /\ acc' = Retargeted(acc, Deleted(gone))
     /\ tile' = IF level = 0 THEN None ELSE place
     /\ UNCHANGED <<alive, registry>>

\* stealNode(): the node at that place, if there is one, goes to the caller.
StealNode(t, p) ==
  /\ t \in alive /\ p[1] = t
  /\ nodes' = nodes \ (IF p \in nodes THEN Branch(p) ELSE {})
  /\ acc' = Retargeted(ClearedAll(t), [q \in Branch(p) \cap nodes |-> Away])
  /\ tile' = None /\ UNCHANGED <<alive, registry>>

\* stealNodes() of the leaves or of the internal nodes.
StealNodes(t, level) ==
  LET taken == IF level = 0 THEN InTree(t) \cap Leaves ELSE InTree(t)
  IN /\ t \in alive
     /\ nodes' = nodes \ taken
     /\ acc' = Retargeted(ClearedAll(t), [q \in taken |-> Away])
     /\ tile' = None /\ UNCHANGED <<alive, registry>>

\* The calls that clear all accessors first and then rework the tree.
Rebuild(t, ns) ==
  /\ t \in alive
  /\ nodes' = Replaced(t, ns)
  /\ acc' = Retargeted(ClearedAll(t), Deleted(InTree(t) \ ns))
  /\ tile' = None /\ UNCHANGED <<alive, registry>>

Prune(t) == \E ns \in Shapes(t): ns \subseteq InTree(t) /\ Rebuild(t, ns)
VoxelizeActiveTiles(t) == \E ns \in Shapes(t): InTree(t) \subseteq ns /\ Rebuild(t, ns)
Clear(t) == Rebuild(t, {})

\* clip(), fill(), denseFill(), readTopology(), the topology operations and
\* combine2(), which only read other trees.
Rework(t) == \E ns \in Shapes(t): Rebuild(t, ns)

At(t, p) == [p EXCEPT ![1] = t]

\* merge() clears the accessors of both trees; the other one is left empty.
Merge(t, o) ==
  /\ {t, o} \subseteq alive /\ t # o
  /\ \E ns \in Shapes(t):
       /\ ns \subseteq InTree(t) \cup {At(t, p): p \in InTree(o)}
       /\ nodes' = Replaced(t, ns) \ InTree(o)
  /\ acc' = [a \in Accessors |-> IF a \in registry[o] THEN Cleared(acc[a]) ELSE ClearedAll(t)[a]]
  /\ tile' = None /\ UNCHANGED <<alive, registry>>

\* combine(): only this tree's accessors are cleared.  The other tree's nodes move
\* to where this one has none; the rest is deleted with the other's table.
Combine(t, o, prune) ==
  LET fate == [p \in InTree(o) |-> IF At(t, p) \in nodes THEN Freed ELSE At(t, p)]
      both == InTree(t) \cup {At(t, p): p \in InTree(o)}
  IN /\ {t, o} \subseteq alive /\ t # o /\ MayDelete(InTree(o))
     /\ \E ns \in Shapes(t):
          /\ ns \subseteq both /\ (~prune => ns = both)
          /\ nodes' = Replaced(t, ns) \ InTree(o)
          /\ acc' = Retargeted(Retargeted(ClearedAll(t), fate), Deleted(both \ ns))
     /\ tile' = None /\ UNCHANGED <<alive, registry>>

\* ~Tree(): clear() and releaseAllAccessors().
DestroyTree(t) ==
  /\ t \in alive
  /\ alive' = alive \ {t}
  /\ nodes' = nodes \ InTree(t)
  /\ acc' = [a \in Accessors |-> IF a \in registry[t] THEN Fresh(None) ELSE acc[a]]
  /\ registry' = [registry EXCEPT ![t] = {}]
  /\ tile' = None

-----------------------------------------------------------------------------
Init ==
  /\ nodes = {} /\ alive = Trees /\ tile = None
  /\ registry = [t \in Trees |-> {}]
  /\ acc = [a \in Accessors |-> Unborn]

AccessorStep(a) ==
  \/ \E t \in Trees: Construct(a, t)
  \/ \E b \in Accessors: CopyConstruct(a, b) \/ Assign(a, b)
  \/ Destroy(a) \/ ClearAccessor(a)
  \/ \E level \in 0..1: EraseNode(a, level)
  \/ \E c \in Coords: \/ Read(a, c) \/ ProbeNode(a, c) \/ Write(a, c) \/ TouchLeaf(a, c) \/ AddLeaf(a, c)
                      \/ \E level \in 0..2: AddTile(a, level, c)

TreeStep(t) ==
  \/ \E c \in Coords: \/ TreeWrite(t, c) \/ TreeTouchLeaf(t, c) \/ TreeAddLeaf(t, c)
                      \/ \E level \in 0..2: TreeAddTile(t, level, c)
  \/ \E p \in Places: StealNode(t, p)
  \/ \E level \in 0..1: StealNodes(t, level)
  \/ Prune(t) \/ VoxelizeActiveTiles(t) \/ Clear(t) \/ Rework(t)
  \/ \E o \in Trees: \/ Merge(t, o)
                     \/ \E prune \in BOOLEAN: Combine(t, o, prune)
  \/ DestroyTree(t)

Next == (\E a \in Accessors: AccessorStep(a)) \/ (\E t \in Trees: TreeStep(t))

Spec == Init /\ [][Next]_vars

-----------------------------------------------------------------------------
(* Properties.                                                             *)

\* Leaves hang in internal nodes of trees that exist; accessors and registries
\* hold what their types say.
TypeOK ==
  /\ nodes \subseteq Places /\ Closed(nodes)
  /\ alive \subseteq Trees /\ \A p \in nodes: p[1] \in alive
  /\ registry \in [Trees -> SUBSET Accessors]
  /\ acc \in [Accessors -> Accessor \cup {Unborn}]
  /\ tile \in Places \cup {None}

\* Each accessor is in the registry of its tree and in no other, whatever was
\* constructed, copied, assigned and destroyed in whatever order; one that has
\* outlived its tree refers to none (attach, release and operator=).
RegistryExact ==
  /\ \A t \in Trees: registry[t] = {a \in Accessors: Born(a) /\ acc[a].tree = t}
  /\ \A a \in Accessors: Born(a) => acc[a].tree \in alive \cup {None}

\* A cached node exists and is the one a descent from the root would reach, so an
\* access through the cache finds what the tree holds (Tree.h:631: accessors are
\* cleared whenever a node is deleted).
CachedOnPath ==
  \A a \in Accessors: Born(a) =>
    LET r == acc[a]
    IN /\ (r.node0 = None) = (r.key0 = None)
       /\ (r.node1 = None) = (r.key1 = None)
       /\ r.node0 # None => r.node0 = Leaf(r.tree, r.key0) /\ r.node0 \in nodes
       /\ r.node1 # None => r.node1 = <<r.tree, r.key1>> /\ r.node1 \in nodes

\* addTile(), of a tree or of an accessor, leaves a tile and not a node where its
\* parent is a node that the accessor can cache (ValueAccessor.h: "Add a tile at
\* the specified tree level").
AddTileReplacesLeaf == [][tile' \in Leaves => tile' \notin nodes' /\ <<tile'[1], tile'[2]>> \in nodes']_vars
=============================================================================
