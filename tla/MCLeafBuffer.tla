---------------------------- MODULE MCLeafBuffer ----------------------------
(***************************************************************************)
(* LeafBuffer without what no later step depends on: the arguments of      *)
(* calls that are over, and the contents of arrays, files and buffers that *)
(* are gone.  No property tells apart two states that differ in these.     *)
(***************************************************************************)
EXTENDS LeafBuffer

StateInUse ==
    <<alive, mPtr, mOutOfCore, mMutex, heap, pc, wild,
      [b \in Buffers |-> IF mPtr[b] = "array" THEN cells[b] ELSE None],
      [b \in Buffers |-> IF mOutOfCore[b] THEN stored[b] ELSE None],
      [b \in Buffers |-> IF alive[b] THEN logical[b] ELSE None],
      [th \in Threads |-> CallOf(th)]>>
=============================================================================
