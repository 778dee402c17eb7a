------------------------------- MODULE Voxels -------------------------------
(***************************************************************************)
(* What OpenVDB stores for a coordinate: a value and an active state.      *)
(* Shared by the map a tree stands for (VoxelMap) and the tree itself      *)
(* (VoxelTree).                                                            *)
(***************************************************************************)
CONSTANTS
  Values,   \* the ValueType of a tree
  Neg       \* math::negative(), a function on Values

ASSUME ValuesAssumption == Values # {} /\ Neg \in [Values -> Values]

Voxel == [value: Values, on: BOOLEAN]

Vox(v, on) == [value |-> v, on |-> on]
Off(v) == Vox(v, FALSE)

\* resetBackground(): an inactive value equal to the old background becomes the
\* new one, the negative of the old becomes the negative of the new.
Reset(x, old, new) ==
  CASE x.on -> x
    [] ~x.on /\ x.value = old -> Off(new)
    [] ~x.on /\ x.value # old /\ x.value = Neg[old] -> Off(Neg[new])
    [] OTHER -> x

\* The single-voxel writes, as functions from the old voxel to the new one.
TurnOff == [x \in Voxel |-> Off(x.value)]
SetState(on) == [x \in Voxel |-> Vox(x.value, on)]
SetOff(v) == [x \in Voxel |-> Off(v)]
SetOn(v) == [x \in Voxel |-> Vox(v, TRUE)]
SetOnly(v) == [x \in Voxel |-> Vox(v, x.on)]
Modify(f) == [x \in Voxel |-> Vox(f[x.value], TRUE)]
Both(f, g) == [x \in Voxel |-> Vox(f[x.value], g[x.on])]
=============================================================================
