------------------------------ MODULE VoxelMap ------------------------------
(***************************************************************************)
(* What a tree promises to those who do not look at its nodes: every       *)
(* coordinate has a voxel, and each call of tree/Tree.h changes exactly    *)
(* the voxels it names.  `call' is the last call with its arguments.       *)
(* Where the result of a call depends on where the nodes are, the call     *)
(* names the voxels, or the choice is left open here; where a comment of   *)
(* the source promises more, VoxelTree states that promise too.            *)
(***************************************************************************)
EXTENDS Voxels

CONSTANT Coords

VARIABLES map, background, call

mvars == <<map, background, call>>

Apply(part, w) == [c \in Coords |-> IF c \in part THEN w[map[c]] ELSE map[c]]

\* setValue(), setValueOff(), setActiveState(), modifyValue() and fill():
\* the voxels of the region are rewritten, no other.
Write(part, w) ==
  /\ map' = Apply(part, w)
  /\ UNCHANGED background

\* modifyValueAndActiveState(): a functor that the code has judged idle on the
\* opposite state may not be applied at all.
ModifyBoth(part, w) ==
  \/ Write(part, w)
  \/ /\ \E x \in Voxel: w[Vox(x.value, ~x.on)] = x
     /\ UNCHANGED <<map, background>>

\* prune(), touchLeaf(), voxelizeActiveTiles(): no voxel changes.
Keep == UNCHANGED <<map, background>>

\* addLeaf(), addChild(): the region takes the voxels of the node handed over.
Paste(part, patch) ==
  /\ map' = [c \in Coords |-> IF c \in part THEN patch[c] ELSE map[c]]
  /\ UNCHANGED background

\* stealNode(): the region becomes constant, if there was a node to take.
Steal(part, x) ==
  /\ map' = map \/ map' = [c \in Coords |-> IF c \in part THEN x ELSE map[c]]
  /\ UNCHANGED background

\* stealNodes(): what lay in the stolen nodes becomes constant.
StealAll(x) ==
  /\ map' \in [Coords -> Voxel]
  /\ \A c \in Coords: map'[c] \in {map[c], x}
  /\ UNCHANGED background

Clip(part) ==
  /\ map' = [c \in Coords |-> IF c \in part THEN map[c] ELSE Off(background)]
  /\ UNCHANGED background

\* setBackground(): with the nodes updated; or, without, for unwritten voxels only.
SetBackground(new) ==
  /\ map' = [c \in Coords |-> Reset(map[c], background, new)]
  /\ background' = new

SetBackgroundOnly(new) ==
  /\ map' \in [Coords -> Voxel]
  /\ \A c \in Coords: \/ map'[c] = map[c]
                      \/ map[c] = Off(background) /\ map'[c] = Off(new)
  /\ background' = new

TopologyUnion(other) ==
  /\ map' = [c \in Coords |-> Vox(map[c].value, map[c].on \/ other.map[c].on)]
  /\ UNCHANGED background

\* Intersection and difference: a voxel that is left inactive keeps its value or,
\* where a branch was deleted, takes the background.
Narrow(active) ==
  /\ map' \in [Coords -> Voxel]
  /\ \A c \in Coords:
       IF map[c].on /\ c \in active
       THEN map'[c] = map[c]
       ELSE map'[c] \in {Off(map[c].value), Off(background)}
  /\ UNCHANGED background

TopologyIntersection(other) == Narrow({c \in Coords: other.map[c].on})
TopologyDifference(other) == Narrow({c \in Coords: ~other.map[c].on})

\* merge(): each voxel is this tree's own or the other's, with the background
\* value converted, which goes backwards in the region `turned': there
\* InternalNode::merge() has the two backgrounds in the opposite order.
Taken(c, other, turned) ==
  LET x == other.map[c]
  IN {x, IF c \in turned THEN Reset(x, background, other.background)
         ELSE Reset(x, other.background, background)}

Merge(other, policy, turned) ==
  /\ map' \in [Coords -> Voxel]
  /\ \A c \in Coords:
       /\ map'[c] \in {map[c]} \cup Taken(c, other, turned)
       /\ policy # "nodes" =>
            IF map[c].on \/ other.map[c].on
            THEN map'[c] \in {x \in {map[c], other.map[c]}: x.on}
            ELSE ~map'[c].on
  /\ UNCHANGED background

\* combine(), combineExtended(): op over all pairs, but where neither tree has an
\* entry (`bare') the voxel is the new background, and in the region `lost'
\* SwappedCombineOp has dropped the state that the functor computed: the default
\* takes its place.  The states that go with the two backgrounds are left open.
Default(op) == [p \in Voxel \X Voxel |-> Vox(op[p].value, p[1].on \/ p[2].on)]

Combine(other, op, lost, bare) ==
  /\ background' \in {op[<<Vox(background, a), Vox(other.background, b)>>].value: a, b \in BOOLEAN}
  /\ map' = [c \in Coords |->
               LET by == IF c \in lost THEN Default(op) ELSE op
               IN IF c \in bare THEN Off(background') ELSE by[<<map[c], other.map[c]>>]]

\* combine2(): op over two other trees, written into this one; no functor is swapped.
Combine2(one, two, op, bare) ==
  /\ background' \in {op[<<Vox(one.background, a), Vox(two.background, b)>>].value: a, b \in BOOLEAN}
  /\ map' \in [Coords -> Voxel]
  /\ \A c \in Coords:
       IF c \in bare THEN map'[c] \in {map[c], Off(background')}
       ELSE map'[c] = op[<<one.map[c], two.map[c]>>]

Init ==
  /\ background \in Values
  /\ map = [c \in Coords |-> Off(background)]
  /\ call = [op |-> "construct"]

Answer(c) ==
  \/ c.op \in {"write", "fill"} /\ Write(c.part, c.by)
  \/ c.op = "modify" /\ ModifyBoth(c.part, c.by)
  \/ c.op = "keep" /\ Keep
  \/ c.op = "paste" /\ Paste(c.part, c.patch)
  \/ c.op = "steal" /\ Steal(c.part, c.with)
  \/ c.op = "stealNodes" /\ StealAll(c.with)
  \/ c.op = "clip" /\ Clip(c.part)
  \/ c.op = "setBackground" /\ SetBackground(c.new)
  \/ c.op = "setBackgroundOnly" /\ SetBackgroundOnly(c.new)
  \/ c.op = "union" /\ TopologyUnion(c.other)
  \/ c.op = "intersection" /\ TopologyIntersection(c.other)
  \/ c.op = "difference" /\ TopologyDifference(c.other)
  \/ c.op = "merge" /\ Merge(c.other, c.policy, c.turned)
  \/ c.op = "combine" /\ Combine(c.other, c.by, c.lost, c.bare)
  \/ c.op = "combine2" /\ Combine2(c.one, c.two, c.by, c.bare)

Spec == Init /\ [][Answer(call')]_mvars

=============================================================================
