--------------------------- MODULE LeafHeapProofs ---------------------------
(***************************************************************************)
(* Leaf buffers account for the heap: every array and every FileInfo is    *)
(* held by one buffer or by the thread that loads it.  On top of the       *)
(* invariant of LeafBufferProofs, the counts go up and down with the sets  *)
(* of buffers whose union is an array or an info.                          *)
(***************************************************************************)
EXTENDS LeafBufferProofs

Kinds == {"null", "array", "info"}

HoldersOf(f, p) == {b \in Buffers : f[b] = p}

\* Those that hold an info in doLoad()'s unique_ptr, of whatever buffer.
AllLoaders ==
    {th \in Threads : buf[th] \in Buffers /\ pc[th] \in {"allocate", "read", "clear", "unlock"}}

\* A buffer that is not alive holds nothing.
DeadOK == \A b \in Buffers : ~alive[b] => mPtr[b] = "null" /\ ~mOutOfCore[b]

HeapOK ==
    /\ arrays = Cardinality(HoldersOf(mPtr, "array"))
    /\ infos = Cardinality(HoldersOf(mPtr, "info")) + Cardinality(AllLoaders)

Finite == IsFiniteSet(Threads) /\ IsFiniteSet(Buffers)

Is(k, p) == IF k = p THEN 1 ELSE 0

-----------------------------------------------------------------------------
(* Counting.                                                               *)

\* When b changes from f[b] to q, the holders of p change accordingly.
Counted(f, g, b, q, p) ==
    /\ Cardinality(HoldersOf(f, p)) \in Nat
    /\ Cardinality(HoldersOf(g, p)) = Cardinality(HoldersOf(f, p)) + Is(q, p) - Is(f[b], p)

LEMMA HolderCount ==
    ASSUME Finite, NEW f \in [Buffers -> Kinds], NEW b \in Buffers, NEW q \in Kinds, NEW p \in Kinds,
           NEW g, g = [f EXCEPT ![b] = q]
    PROVE  Counted(f, g, b, q, p)
<1>. DEFINE S == HoldersOf(f, p)
<1>1. S \in SUBSET Buffers
  BY DEF HoldersOf
<1>2. IsFiniteSet(S) /\ Cardinality(S) \in Nat
  BY <1>1, FS_Subset, FS_CardinalityType DEF Finite
<1>3. b \in S <=> f[b] = p
  BY DEF HoldersOf
<1>4. HoldersOf(g, p) = IF q = p THEN S \cup {b} ELSE S \ {b}
  BY DEF HoldersOf
<1>5. /\ Cardinality(S \cup {b}) = IF b \in S THEN Cardinality(S) ELSE Cardinality(S) + 1
      /\ Cardinality(S \ {b}) = IF b \in S THEN Cardinality(S) - 1 ELSE Cardinality(S)
  BY <1>2, FS_AddElement, FS_RemoveElement
<1>. HIDE DEF S
<1>7. Cardinality(HoldersOf(g, p)) = Cardinality(S) + Is(q, p) - Is(f[b], p)
  BY <1>2, <1>3, <1>4, <1>5 DEF Is
<1>. QED
  BY <1>2, <1>7 DEF S, Counted

\* A thread begins or ends loading.
LEMMA LoaderCount ==
    ASSUME Finite, NEW th \in Threads
    PROVE  /\ IsFiniteSet(AllLoaders) /\ Cardinality(AllLoaders) \in Nat
           /\ th \notin AllLoaders => Cardinality(AllLoaders \cup {th}) = Cardinality(AllLoaders) + 1
           /\ th \in AllLoaders => Cardinality(AllLoaders \ {th}) = Cardinality(AllLoaders) - 1
<1>1. AllLoaders \in SUBSET Threads
  BY DEF AllLoaders
<1>2. IsFiniteSet(AllLoaders) /\ Cardinality(AllLoaders) \in Nat
  BY <1>1, FS_Subset, FS_CardinalityType DEF Finite
<1>. QED
  BY <1>2, FS_AddElement, FS_RemoveElement

\* The heap of a step that changes what one buffer holds.
LEMMA OneHolder ==
    ASSUME Finite, TypeOK, HeapOK, NEW b \in Buffers, NEW q \in Kinds,
           mPtr' = [mPtr EXCEPT ![b] = q],
           arrays' = arrays + Is(q, "array") - Is(mPtr[b], "array"),
           Cardinality(AllLoaders') \in Nat,
           infos' = infos + Is(q, "info") - Is(mPtr[b], "info")
                        + Cardinality(AllLoaders') - Cardinality(AllLoaders)
    PROVE  HeapOK'
<1>1. mPtr \in [Buffers -> Kinds]
  BY DEF TypeOK, Kinds
<1>2. Counted(mPtr, mPtr', b, q, "array") /\ Counted(mPtr, mPtr', b, q, "info")
  BY <1>1, HolderCount DEF Kinds
<1>4. Is(q, "array") \in Int /\ Is(mPtr[b], "array") \in Int
      /\ Is(q, "info") \in Int /\ Is(mPtr[b], "info") \in Int
  BY DEF Is
<1>5. Cardinality(AllLoaders) \in Int
  <2>1. AllLoaders \in SUBSET Threads
    BY DEF AllLoaders
  <2>. QED
    BY <2>1, FS_Subset, FS_CardinalityType DEF Finite
<1>6. HoldersOf(mPtr, "array")' = HoldersOf(mPtr', "array")
      /\ HoldersOf(mPtr, "info")' = HoldersOf(mPtr', "info")
  BY DEF HoldersOf
<1>. QED
  BY <1>2, <1>4, <1>5, <1>6 DEF HeapOK, Counted

\* When nobody begins or ends loading.
LEMMA Rehung ==
    ASSUME Finite, TypeOK, HeapOK, NEW b \in Buffers, NEW q \in Kinds,
           mPtr' = [mPtr EXCEPT ![b] = q],
           arrays' = arrays + Is(q, "array") - Is(mPtr[b], "array"),
           infos' = infos + Is(q, "info") - Is(mPtr[b], "info"),
           AllLoaders' = AllLoaders
    PROVE  HeapOK'
<1>1. Cardinality(AllLoaders) \in Nat
  <2>1. AllLoaders \in SUBSET Threads
    BY DEF AllLoaders
  <2>. QED
    BY <2>1, FS_Subset, FS_CardinalityType DEF Finite
<1>2. infos \in Int /\ Is(q, "info") \in Int /\ Is(mPtr[b], "info") \in Int
  BY DEF Is, TypeOK
<1>3. infos' = infos + Is(q, "info") - Is(mPtr[b], "info")
                   + Cardinality(AllLoaders') - Cardinality(AllLoaders)
  BY <1>1, <1>2
<1>. QED
  BY <1>1, <1>3, OneHolder

\* Of a step that changes nothing of this.
LEMMA NoHolder ==
    ASSUME HeapOK, mPtr' = mPtr, arrays' = arrays, infos' = infos, AllLoaders' = AllLoaders
    PROVE  HeapOK'
BY DEF HeapOK, HoldersOf

\* Two buffers exchange what they hold.
LEMMA Exchanged ==
    ASSUME Finite, TypeOK, HeapOK, NEW b \in Buffers, NEW c \in Buffers, b # c,
           mPtr' = [mPtr EXCEPT ![b] = mPtr[c], ![c] = mPtr[b]],
           arrays' = arrays, infos' = infos, AllLoaders' = AllLoaders
    PROVE  HeapOK'
<1>. DEFINE f == [mPtr EXCEPT ![b] = mPtr[c]]
<1>1. mPtr \in [Buffers -> Kinds] /\ mPtr[b] \in Kinds /\ mPtr[c] \in Kinds
  BY DEF TypeOK, Kinds
<1>2. f \in [Buffers -> Kinds] /\ f[c] = mPtr[c] /\ mPtr' = [f EXCEPT ![c] = mPtr[b]]
  BY <1>1
<1>3. ASSUME NEW p \in {"array", "info"}
      PROVE  Cardinality(HoldersOf(mPtr', p)) = Cardinality(HoldersOf(mPtr, p))
  <2>. HIDE DEF f
  <2>1. p \in Kinds
    BY DEF Kinds
  <2>2. Counted(mPtr, f, b, mPtr[c], p)
    BY <1>1, <2>1, HolderCount DEF f
  <2>3. Counted(f, mPtr', c, mPtr[b], p)
    BY <1>1, <1>2, <2>1, HolderCount
  <2>4. Is(mPtr[c], p) \in Int /\ Is(mPtr[b], p) \in Int
    BY DEF Is
  <2>. QED
    BY <1>2, <2>2, <2>3, <2>4 DEF Counted
<1>4. HoldersOf(mPtr, "array")' = HoldersOf(mPtr', "array")
      /\ HoldersOf(mPtr, "info")' = HoldersOf(mPtr', "info")
  BY DEF HoldersOf
<1>. QED
  BY <1>3, <1>4 DEF HeapOK

-----------------------------------------------------------------------------
(* The steps.                                                              *)

\* Loading moves an info from the union to the thread and away, and an array
\* into the union.
LEMMA LoadStepHeap ==
    ASSUME Finite, Inv, Inv', HeapOK, ~wild', NEW th \in Threads, LoadStep(th)
    PROVE  HeapOK'
<1>. USE DEF Inv, Core, Shape
<1>a. pc[th] # "idle" => buf[th] \in Buffers
  BY DEF CallOK, Busy
<1>1. CASE CheckInCore(th)
  <2>1. AllLoaders' = AllLoaders
    BY <1>1 DEF CheckInCore, Goto, AllLoaders, TypeOK, call
  <2>. QED
    BY <1>1, <2>1, NoHolder DEF CheckInCore, data, heap
<1>2. CASE Lock(th)
  <2>1. AllLoaders' = AllLoaders
    BY <1>2 DEF Lock, Goto, AllLoaders, TypeOK, call
  <2>. QED
    BY <1>2, <2>1, NoHolder DEF Lock, data, heap
<1>3. CASE Recheck(th)
  <2>1. AllLoaders' = AllLoaders
    BY <1>3 DEF Recheck, Goto, AllLoaders, TypeOK, call
  <2>. QED
    BY <1>3, <2>1, NoHolder DEF Recheck, data, heap
<1>4. CASE ReadValues(th)
  <2>1. AllLoaders' = AllLoaders
    BY <1>4 DEF ReadValues, Goto, AllLoaders, TypeOK, call
  <2>. QED
    BY <1>4, <2>1, NoHolder DEF ReadValues, data, heap
<1>5. CASE ClearFlag(th)
  <2>1. AllLoaders' = AllLoaders
    BY <1>5 DEF ClearFlag, Goto, AllLoaders, TypeOK, call
  <2>. QED
    BY <1>5, <2>1, NoHolder DEF ClearFlag, data, heap
<1>6. CASE TakeInfo(th)
  <2>1. AllLoaders' = AllLoaders \cup {th} /\ th \notin AllLoaders
    BY <1>6 DEF TakeInfo, Goto, AllLoaders, TypeOK, CallOK, Busy, call
  <2>2. Cardinality(AllLoaders') = Cardinality(AllLoaders) + 1 /\ Cardinality(AllLoaders) \in Nat
    BY <2>1, LoaderCount
  <2>3. mPtr[buf[th]] = "info" /\ mPtr' = [mPtr EXCEPT ![buf[th]] = "null"] /\ UNCHANGED heap
    BY <1>6 DEF TakeInfo, TypeOK
  <2>4. arrays' = arrays + Is("null", "array") - Is(mPtr[buf[th]], "array")
    BY <2>3 DEF Is, heap, TypeOK
  <2>5. infos' = infos + Is("null", "info") - Is(mPtr[buf[th]], "info")
                     + Cardinality(AllLoaders') - Cardinality(AllLoaders)
    <3>1. Is("null", "info") = 0 /\ Is(mPtr[buf[th]], "info") = 1
      BY <2>3 DEF Is
    <3>2. infos' = infos /\ infos \in Int
      BY <2>3 DEF heap, TypeOK
    <3>. QED
      BY <2>2, <3>1, <3>2
  <2>6. buf[th] \in Buffers /\ "null" \in Kinds
    BY <1>6, <1>a DEF TakeInfo, Kinds
  <2>7. Cardinality(AllLoaders') \in Nat
    BY <2>2
  <2>. QED
    BY <2>3, <2>4, <2>5, <2>6, <2>7, OneHolder
<1>7. CASE AllocateForLoad(th)
  <2>1. buf[th] \in Buffers /\ "array" \in Kinds
    BY <1>7, <1>a DEF AllocateForLoad, Kinds
  <2>2. AllLoaders' = AllLoaders
    BY <1>7 DEF AllocateForLoad, Goto, AllLoaders, TypeOK, call
  <2>3. mPtr[buf[th]] = "null"
    BY <1>7 DEF AllocateForLoad, LoadOK
  <2>4. /\ mPtr' = [mPtr EXCEPT ![buf[th]] = "array"]
        /\ arrays' = arrays + Is("array", "array") - Is(mPtr[buf[th]], "array")
        /\ infos' = infos + Is("array", "info") - Is(mPtr[buf[th]], "info")
    BY <1>7, <2>3 DEF AllocateForLoad, Is, TypeOK
  <2>. QED
    BY <2>1, <2>2, <2>4, Rehung
<1>8. CASE Unlock(th) \/ LoadThrows(th)
  <2>1. AllLoaders' = AllLoaders \ {th} /\ th \in AllLoaders
    BY <1>8, <1>a DEF Unlock, LoadThrows, Goto, AllLoaders, TypeOK, call
  <2>2. Cardinality(AllLoaders') = Cardinality(AllLoaders) - 1 /\ Cardinality(AllLoaders) \in Nat
        /\ Cardinality(AllLoaders') \in Nat
    BY <2>1, LoaderCount, FS_RemoveElement, FS_CardinalityType
  <2>3. mPtr' = mPtr /\ arrays' = arrays /\ infos' = infos - 1
    BY <1>8 DEF Unlock, LoadThrows, data
  <2>4. infos' = Cardinality(HoldersOf(mPtr, "info")) + Cardinality(AllLoaders')
    <3>1. Cardinality(HoldersOf(mPtr, "info")) \in Nat
      <4>1. HoldersOf(mPtr, "info") \in SUBSET Buffers
        BY DEF HoldersOf
      <4>. QED
        BY <4>1, FS_Subset, FS_CardinalityType DEF Finite
    <3>. QED
      BY <2>2, <2>3, <3>1 DEF HeapOK
  <2>. QED
    BY <2>3, <2>4 DEF HeapOK, HoldersOf
<1>. QED
  BY <1>1, <1>2, <1>3, <1>4, <1>5, <1>6, <1>7, <1>8 DEF LoadStep

\* The access changes nothing, except that data() may allocate.
LEMMA AccessStepHeap ==
    ASSUME Finite, Inv, HeapOK, NEW th \in Threads, AccessStep(th)
    PROVE  HeapOK'
<1>. USE DEF Inv, Core, Shape
<1>1. CASE Access(th)
  <2>1. AllLoaders' = AllLoaders
    BY <1>1 DEF Access, Goto, AllLoaders, TypeOK, call
  <2>. QED
    BY <1>1, <2>1, NoHolder DEF Access, data, heap
<1>2. CASE Store(th)
  <2>1. AllLoaders' = AllLoaders
    BY <1>2 DEF Store, Goto, AllLoaders, TypeOK, call
  <2>. QED
    BY <1>2, <2>1, NoHolder DEF Store, data, heap
<1>3. CASE LockNew(th)
  <2>1. AllLoaders' = AllLoaders
    BY <1>3 DEF LockNew, Goto, AllLoaders, TypeOK, call
  <2>. QED
    BY <1>3, <2>1, NoHolder DEF LockNew, data, heap
<1>4. CASE NewArray(th)
  <2>1. buf[th] \in Buffers /\ "array" \in Kinds
    BY <1>4 DEF NewArray, CallOK, Busy, Kinds
  <2>2. AllLoaders' = AllLoaders
    BY <1>4 DEF NewArray, Goto, AllLoaders, TypeOK, call
  <2>3. mPtr[buf[th]] \in {"null", "array"}
    BY <1>4, <2>1 DEF NewArray, LoadOK, FlagOK, TypeOK
  <2>4. /\ mPtr' = [mPtr EXCEPT ![buf[th]] = "array"]
        /\ arrays' = arrays + Is("array", "array") - Is(mPtr[buf[th]], "array")
        /\ infos' = infos + Is("array", "info") - Is(mPtr[buf[th]], "info")
    BY <1>4, <2>3 DEF NewArray, Is, TypeOK
  <2>. QED
    BY <2>1, <2>2, <2>4, Rehung
<1>. QED
  BY <1>1, <1>2, <1>3, <1>4 DEF AccessStep

\* A copy deletes what the target held, and allocates what it needs.
LEMMA CopyStepHeap ==
    ASSUME Finite, Inv, HeapOK, ~wild', NEW th \in Threads, CopyStep(th)
    PROVE  HeapOK'
<1>. USE DEF Inv, Core, Shape
<1>a. pc[th] \in Copying => dst[th] \in Buffers /\ buf[th] \in Buffers /\ dst[th] # buf[th]
  BY DEF CallOK, Busy, Copying, Reading, Loading, TypeOK, Ops
<1>1. CASE Decide(th)
  <2>1. AllLoaders' = AllLoaders
    BY <1>1 DEF Decide, Goto, AllLoaders, TypeOK, call
  <2>. QED
    BY <1>1, <2>1, NoHolder DEF Decide, data, heap
<1>2. CASE CopyFlag(th)
  <2>1. AllLoaders' = AllLoaders
    BY <1>2 DEF CopyFlag, Goto, AllLoaders, TypeOK, call
  <2>. QED
    BY <1>2, <2>1, NoHolder DEF CopyFlag, data, heap
<1>3. CASE DropOwn(th)
  <2>. DEFINE d == dst[th]
              q == mPtr'[d]
  <2>1. d \in Buffers /\ buf[th] \in Buffers
    BY <1>3, <1>a DEF DropOwn, Copying
  <2>2. AllLoaders' = AllLoaders
    BY <1>3 DEF DropOwn, Goto, AllLoaders, TypeOK, call
  <2>3. mPtr[d] \in Kinds /\ (mOutOfCore[d] <=> mPtr[d] = "info")
    BY <1>3, <2>1 DEF DropOwn, FlagOK, TypeOK, Kinds
  <2>4. /\ mPtr' = [mPtr EXCEPT ![d] = q] /\ q \in Kinds
        /\ arrays' = arrays + Is(q, "array") - Is(mPtr[d], "array")
        /\ infos' = infos + Is(q, "info") - Is(mPtr[d], "info")
    BY <1>3, <2>1, <2>3 DEF DropOwn, Is, TypeOK, Kinds
  <2>. HIDE DEF q
  <2>. QED
    BY <2>1, <2>2, <2>4, Rehung
<1>4. CASE CopyInfo(th)
  <2>1. dst[th] \in Buffers /\ "info" \in Kinds
    BY <1>4, <1>a DEF CopyInfo, Copying, Kinds
  <2>2. AllLoaders' = AllLoaders
    BY <1>4 DEF CopyInfo, Goto, AllLoaders, TypeOK, call
  <2>3. mPtr[dst[th]] = "null"
    BY <1>4 DEF CopyInfo, CopyOK
  <2>4. /\ mPtr' = [mPtr EXCEPT ![dst[th]] = "info"]
        /\ arrays' = arrays + Is("info", "array") - Is(mPtr[dst[th]], "array")
        /\ infos' = infos + Is("info", "info") - Is(mPtr[dst[th]], "info")
    BY <1>4, <2>3 DEF CopyInfo, Is, TypeOK
  <2>. QED
    BY <2>1, <2>2, <2>4, Rehung
<1>5. CASE CopyCells(th)
  <2>. DEFINE d == dst[th]
              q == mPtr'[d]
  <2>1. d \in Buffers
    BY <1>5, <1>a DEF CopyCells, Copying
  <2>2. AllLoaders' = AllLoaders
    BY <1>5 DEF CopyCells, Goto, AllLoaders, TypeOK, call
  <2>3. /\ mPtr' = [mPtr EXCEPT ![d] = q] /\ q \in Kinds
        /\ arrays' = arrays + Is(q, "array") - Is(mPtr[d], "array")
        /\ infos' = infos + Is(q, "info") - Is(mPtr[d], "info")
    BY <1>5, <2>1 DEF CopyCells, Is, TypeOK, Kinds
  <2>. HIDE DEF q
  <2>. QED
    BY <2>1, <2>2, <2>3, Rehung
<1>. QED
  BY <1>1, <1>2, <1>3, <1>4, <1>5 DEF CopyStep

\* To begin a call takes and gives nothing; a copy is constructed where
\* nothing is.
LEMMA BeginStepHeap ==
    ASSUME Finite, Inv, DeadOK, HeapOK, NEW th \in Threads, BeginStep(th)
    PROVE  HeapOK'
<1>. USE DEF Inv, Core, Shape
<1>1. ASSUME NEW b \in Buffers, BeginAt(th, b) PROVE HeapOK'
  <2>1. AllLoaders' = AllLoaders
    BY <1>1 DEF BeginAt, Enter, Busy, AllLoaders, TypeOK
  <2>. QED
    BY <1>1, <2>1, NoHolder DEF BeginAt, data, heap
<1>2. ASSUME NEW b \in Buffers, BeginData(th, b) PROVE HeapOK'
  <2>1. AllLoaders' = AllLoaders
    BY <1>2 DEF BeginData, Enter, Busy, AllLoaders, TypeOK
  <2>. QED
    BY <1>2, <2>1, NoHolder DEF BeginData, data, heap
<1>3. ASSUME NEW b \in Buffers, NEW v \in Values, BeginSet(th, b, v) PROVE HeapOK'
  <2>1. AllLoaders' = AllLoaders
    BY <1>3 DEF BeginSet, Enter, Busy, AllLoaders, TypeOK
  <2>. QED
    BY <1>3, <2>1, NoHolder DEF BeginSet, data, heap
<1>4. ASSUME NEW d \in Buffers, NEW b \in Buffers, BeginAssign(th, d, b) PROVE HeapOK'
  <2>1. AllLoaders' = AllLoaders
    BY <1>4 DEF BeginAssign, Enter, Busy, AllLoaders, TypeOK
  <2>. QED
    BY <1>4, <2>1, NoHolder DEF BeginAssign, data, heap
<1>5. ASSUME NEW d \in Buffers, NEW b \in Buffers, BeginConstruct(th, d, b) PROVE HeapOK'
  <2>1. AllLoaders' = AllLoaders
    BY <1>5 DEF BeginConstruct, Enter, Busy, AllLoaders, TypeOK
  <2>2. mPtr' = mPtr
    BY <1>5 DEF BeginConstruct, DeadOK, TypeOK
  <2>. QED
    BY <1>5, <2>1, <2>2, NoHolder DEF BeginConstruct, heap
<1>. QED
  BY <1>1, <1>2, <1>3, <1>4, <1>5 DEF BeginStep

\* Of the operations of owners each deletes what it drops.
LEMMA OwnerStepHeap ==
    ASSUME Finite, Inv, DeadOK, HeapOK, ~wild', OwnerStep
    PROVE  HeapOK'
<1>. USE DEF Inv, Core, Shape
<1>1. ASSUME NEW b \in Buffers, NEW v \in Values, ConstructValue(b, v) PROVE HeapOK'
  <2>1. AllLoaders' = AllLoaders
    BY <1>1 DEF ConstructValue, Construct, AllLoaders, call
  <2>2. mPtr[b] = "null"
    BY <1>1 DEF ConstructValue, Construct, DeadOK
  <2>3. /\ mPtr' = [mPtr EXCEPT ![b] = "array"] /\ "array" \in Kinds
        /\ arrays' = arrays + Is("array", "array") - Is(mPtr[b], "array")
        /\ infos' = infos + Is("array", "info") - Is(mPtr[b], "info")
    BY <1>1, <2>2 DEF ConstructValue, Construct, Is, TypeOK, Kinds
  <2>. QED
    BY <2>1, <2>3, Rehung
<1>2. ASSUME NEW b \in Buffers, ConstructDefault(b) PROVE HeapOK'
  <2>1. AllLoaders' = AllLoaders
    BY <1>2 DEF ConstructDefault, Construct, AllLoaders, call
  <2>2. mPtr[b] = "null"
    BY <1>2 DEF ConstructDefault, Construct, DeadOK
  <2>3. /\ mPtr' = [mPtr EXCEPT ![b] = "array"] /\ "array" \in Kinds
        /\ arrays' = arrays + Is("array", "array") - Is(mPtr[b], "array")
        /\ infos' = infos + Is("array", "info") - Is(mPtr[b], "info")
    BY <1>2, <2>2 DEF ConstructDefault, Construct, Is, TypeOK, Kinds
  <2>. QED
    BY <2>1, <2>3, Rehung
<1>3. ASSUME NEW b \in Buffers, ConstructPartial(b) PROVE HeapOK'
  <2>1. AllLoaders' = AllLoaders
    BY <1>3 DEF ConstructPartial, Construct, AllLoaders, call
  <2>2. mPtr[b] = "null"
    BY <1>3 DEF ConstructPartial, Construct, DeadOK
  <2>3. /\ mPtr' = [mPtr EXCEPT ![b] = "null"] /\ "null" \in Kinds
        /\ arrays' = arrays + Is("null", "array") - Is(mPtr[b], "array")
        /\ infos' = infos + Is("null", "info") - Is(mPtr[b], "info")
    BY <1>3, <2>2 DEF ConstructPartial, Construct, Is, TypeOK, Kinds
  <2>. QED
    BY <2>1, <2>3, Rehung
<1>4. ASSUME NEW b \in Buffers, NEW v \in Values, AttachToFile(b, v) PROVE HeapOK'
  <2>1. AllLoaders' = AllLoaders
    BY <1>4 DEF AttachToFile, AllLoaders, call
  <2>2. mPtr[b] = "null"
    BY <1>4 DEF AttachToFile
  <2>3. /\ mPtr' = [mPtr EXCEPT ![b] = "info"] /\ "info" \in Kinds
        /\ arrays' = arrays + Is("info", "array") - Is(mPtr[b], "array")
        /\ infos' = infos + Is("info", "info") - Is(mPtr[b], "info")
    BY <1>4, <2>2 DEF AttachToFile, Is, TypeOK, Kinds
  <2>. QED
    BY <2>1, <2>3, Rehung
<1>5. ASSUME NEW b \in Buffers, Allocate(b) PROVE HeapOK'
  <2>1. AllLoaders' = AllLoaders
    BY <1>5 DEF Allocate, AllLoaders, call
  <2>2. mPtr[b] = "null"
    BY <1>5 DEF Allocate
  <2>3. /\ mPtr' = [mPtr EXCEPT ![b] = "array"] /\ "array" \in Kinds
        /\ arrays' = arrays + Is("array", "array") - Is(mPtr[b], "array")
        /\ infos' = infos + Is("array", "info") - Is(mPtr[b], "info")
    BY <1>5, <2>2 DEF Allocate, Is, TypeOK, Kinds
  <2>. QED
    BY <2>1, <2>3, Rehung
<1>6. ASSUME NEW b \in Buffers, NEW v \in Values, Fill(b, v) PROVE HeapOK'
  <2>. DEFINE q == mPtr'[b]
  <2>1. AllLoaders' = AllLoaders
    BY <1>6 DEF Fill, AllLoaders, call
  <2>2. mPtr[b] \in Kinds /\ (mOutOfCore[b] <=> mPtr[b] = "info")
    BY <1>6 DEF Fill, FlagOK, TypeOK, Kinds
  <2>3. /\ mPtr' = [mPtr EXCEPT ![b] = q] /\ q \in Kinds
        /\ arrays' = arrays + Is(q, "array") - Is(mPtr[b], "array")
        /\ infos' = infos + Is(q, "info") - Is(mPtr[b], "info")
    BY <1>6, <2>2 DEF Fill, Is, TypeOK, Kinds
  <2>. HIDE DEF q
  <2>. QED
    BY <2>1, <2>3, Rehung
<1>7. ASSUME NEW b \in Buffers, NEW c \in Buffers, Swap(b, c) PROVE HeapOK'
  <2>1. AllLoaders' = AllLoaders
    BY <1>7 DEF Swap, AllLoaders, call
  <2>2. b # c /\ mPtr' = [mPtr EXCEPT ![b] = mPtr[c], ![c] = mPtr[b]] /\ UNCHANGED heap
    BY <1>7 DEF Swap
  <2>. QED
    BY <2>1, <2>2, Exchanged DEF heap
<1>8. ASSUME NEW b \in Buffers, Destroy(b) PROVE HeapOK'
  <2>1. AllLoaders' = AllLoaders
    BY <1>8 DEF Destroy, AllLoaders, call
  <2>2. mPtr[b] \in Kinds /\ (mOutOfCore[b] <=> mPtr[b] = "info")
    BY <1>8 DEF Destroy, FlagOK, TypeOK, Kinds
  <2>3. /\ mPtr' = [mPtr EXCEPT ![b] = "null"] /\ "null" \in Kinds
        /\ arrays' = arrays + Is("null", "array") - Is(mPtr[b], "array")
        /\ infos' = infos + Is("null", "info") - Is(mPtr[b], "info")
    BY <1>8, <2>2 DEF Destroy, Empty, Is, TypeOK, Kinds
  <2>. QED
    BY <2>1, <2>3, Rehung
<1>. QED
  BY <1>1, <1>2, <1>3, <1>4, <1>5, <1>6, <1>7, <1>8 DEF OwnerStep

\* Buffers that are not alive are left alone, and left with nothing.
LEMMA NextDead ==
    ASSUME Inv, DeadOK, [Next]_vars
    PROVE  DeadOK'
<1>. USE DEF Inv, Core, Shape, DeadOK
<1>1. CASE UNCHANGED vars
  BY <1>1 DEF vars, data
<1>2. CASE OwnerStep
  BY <1>2 DEF OwnerStep, ConstructValue, ConstructDefault, ConstructPartial, Construct,
      AttachToFile, Fill, Allocate, Swap, Destroy, MayWrite, TypeOK
<1>3. ASSUME NEW th \in Threads, BeginStep(th) PROVE DeadOK'
  BY <1>3 DEF BeginStep, BeginAt, BeginData, BeginSet, BeginAssign, BeginConstruct, data, TypeOK
<1>4. ASSUME NEW th \in Threads, Step(th) PROVE DeadOK'
  <2>1. CASE LoadStep(th)
    BY <1>4, <2>1 DEF LoadStep, CheckInCore, Lock, Recheck, TakeInfo, AllocateForLoad, ReadValues,
        LoadThrows, ClearFlag, Unlock, data, TypeOK, AliveOK, Busy
  <2>2. CASE AccessStep(th)
    BY <1>4, <2>2 DEF AccessStep, Access, Store, LockNew, NewArray, data, TypeOK, AliveOK, Busy
  <2>3. CASE CopyStep(th)
    BY <1>4, <2>3 DEF CopyStep, DropOwn, Decide, CopyFlag, CopyInfo, CopyCells, data, TypeOK,
        AliveOK, CallOK, Busy, Copying, Reading, Loading
  <2>. QED
    BY <1>4, <2>1, <2>2, <2>3 DEF Step
<1>. QED
  BY <1>1, <1>2, <1>3, <1>4 DEF Next

\* Until a wrong pointer is followed every step keeps the accounts.
LEMMA NextHeap ==
    ASSUME Finite, Inv, Inv', DeadOK, HeapOK, ~wild', [Next]_vars
    PROVE  HeapOK'
<1>1. CASE UNCHANGED vars
  <2>1. AllLoaders' = AllLoaders
    BY <1>1 DEF vars, call, AllLoaders
  <2>. QED
    BY <1>1, <2>1, NoHolder DEF vars, data, heap
<1>2. CASE OwnerStep
  BY <1>2, OwnerStepHeap
<1>3. ASSUME NEW th \in Threads, BeginStep(th) PROVE HeapOK'
  BY <1>3, BeginStepHeap
<1>4. ASSUME NEW th \in Threads, Step(th) PROVE HeapOK'
  BY <1>4, LoadStepHeap, AccessStepHeap, CopyStepHeap DEF Step
<1>. QED
  BY <1>1, <1>2, <1>3, <1>4 DEF Next

\* Once it has been followed, no step is taken.
LEMMA NextWild ==
    ASSUME wild, [Next]_vars
    PROVE  wild'
<1>1. CASE UNCHANGED vars
  BY <1>1 DEF vars
<1>2. ASSUME OwnerStep PROVE FALSE
  BY <1>2 DEF OwnerStep, ConstructValue, ConstructDefault, ConstructPartial, Construct,
      AttachToFile, Fill, Allocate, Swap, Destroy
<1>3. ASSUME NEW th \in Threads, BeginStep(th) PROVE FALSE
  BY <1>3 DEF BeginStep, BeginAt, BeginData, BeginSet, BeginAssign, BeginConstruct, Enter
<1>4. ASSUME NEW th \in Threads, Step(th) PROVE FALSE
  BY <1>4 DEF Step, LoadStep, CheckInCore, Lock, Recheck, TakeInfo, AllocateForLoad, ReadValues,
      LoadThrows, ClearFlag, Unlock, AccessStep, Access, Store, LockNew, NewArray, CopyStep, DropOwn,
      Decide, CopyFlag, CopyInfo, CopyCells, Goto
<1>. QED
  BY <1>1, <1>2, <1>3, <1>4 DEF Next

-----------------------------------------------------------------------------

\* allocate(), deallocate(), detachFromFile(), copying, swapping and loading
\* by whichever thread lose no array and no FileInfo and delete none twice,
\* for any finite number of threads and buffers; not even when reading a file
\* throws, as long as the buffer that could not be read is left alone.
THEOREM NothingLeaks == ASSUME Finite, Unshared PROVE Spec => []NoLeak
<1>1. Init => Inv /\ DeadOK /\ (wild \/ HeapOK)
  <2>. SUFFICES ASSUME Init PROVE Inv /\ DeadOK /\ HeapOK
    OBVIOUS
  <2>1. HoldersOf(mPtr, "array") = {} /\ HoldersOf(mPtr, "info") = {} /\ AllLoaders = {}
    BY DEF Init, HoldersOf, AllLoaders
  <2>. QED
    BY <2>1, InitInv, FS_EmptySet DEF Init, DeadOK, HeapOK
<1>2. ASSUME Inv, DeadOK, wild \/ HeapOK, [Next]_vars
      PROVE  (Inv /\ DeadOK /\ (wild \/ HeapOK))'
  BY <1>2, NextInv, NextDead, NextHeap, NextWild
<1>3. Inv /\ DeadOK /\ (wild \/ HeapOK) /\ [Next]_vars => (Inv /\ DeadOK /\ (wild \/ HeapOK))'
  BY <1>2
<1>4. (wild \/ HeapOK) => NoLeak
  <2>1. UNION {Loaders(b) : b \in Buffers} = AllLoaders
    BY DEF Loaders, AllLoaders
  <2>. QED
    BY <2>1 DEF HeapOK, NoLeak, HoldersOf
<1>. QED
  BY <1>1, <1>3, <1>4, PTL DEF Spec
=============================================================================
