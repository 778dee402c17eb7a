-------------------------- MODULE LeafBufferProofs --------------------------
(***************************************************************************)
(* Delayed loading is sound for any number of threads and buffers: the     *)
(* flag tells what the union holds, and who finds the buffer in core reads *)
(* its content.                                                            *)
(***************************************************************************)
EXTENDS LeafBuffer, FiniteSetTheorems, TLAPS

Loading == {"allocate", "read", "clear"}
Reading == {"check", "lock", "recheck", "take", "unlock", "access", "lockNew", "new"} \cup Loading
Copying == {"drop", "decide", "flag", "info", "cells"}

\* The arguments of a call in progress fit its kind.
CallOK ==
    \A th \in Threads : Busy(th) =>
        /\ buf[th] \in Buffers
        /\ op[th] \in {"at", "data"} => pc[th] \in Reading /\ dst[th] = None
        /\ op[th] = "set" => pc[th] \in Reading /\ dst[th] = buf[th]
        /\ op[th] \in {"assign", "construct"} =>
               pc[th] \in Copying /\ dst[th] \in Buffers /\ dst[th] # buf[th]
        /\ pc[th] \in {"drop", "flag"} => op[th] = "assign"
        /\ pc[th] \in {"lockNew", "new"} => op[th] = "data"

\* A non-const argument is shared with no other call, nor is the source of a
\* copy.
ExclusionOK ==
    \A th, u \in Threads : th # u /\ Busy(th) /\ Busy(u) =>
        /\ dst[th] \in Buffers => dst[th] # buf[u] /\ dst[th] # dst[u]
        /\ op[th] \in {"assign", "construct"} => buf[th] # buf[u] /\ buf[th] # dst[u]

\* The buffers that calls use exist.
AliveOK ==
    \A th \in Threads : Busy(th) =>
        alive[buf[th]] /\ (dst[th] \in Buffers => alive[dst[th]])

MutexOK == \A th \in Threads : pc[th] \in Inside => mMutex[buf[th]] = th

\* b is being loaded, or is the unfinished target of a copy.
InTransit(b) ==
    \E th \in Threads :
        \/ buf[th] = b /\ pc[th] \in Loading
        \/ dst[th] = b /\ pc[th] \in {"decide", "flag", "info", "cells"}

FlagOK ==
    \A b \in Buffers :
        /\ ~mOutOfCore[b] => mPtr[b] # "info"
        /\ mOutOfCore[b] /\ ~InTransit(b) /\ ~wild => mPtr[b] # "null"

\* Unless a file could not be read, what is out of core is an info.
UnionOK ==
    /\ NotWild
    /\ \A b \in Buffers : mOutOfCore[b] /\ ~InTransit(b) => mPtr[b] = "info"

LoadOK ==
    \A th \in Threads :
        /\ pc[th] = "take" => mOutOfCore[buf[th]]
        /\ pc[th] = "allocate" => mOutOfCore[buf[th]] /\ mPtr[buf[th]] = "null"
        /\ pc[th] \in {"read", "clear"} => mOutOfCore[buf[th]] /\ mPtr[buf[th]] = "array"
        /\ pc[th] \in {"unlock", "access", "lockNew", "new"} => ~mOutOfCore[buf[th]]

CopyOK ==
    \A th \in Threads :
        /\ pc[th] = "decide" /\ op[th] = "assign" =>
               /\ ~mOutOfCore[dst[th]]
               /\ mOutOfCore[buf[th]] => mPtr[dst[th]] = "null"
        /\ pc[th] = "decide" /\ op[th] = "construct" =>
               /\ mOutOfCore[dst[th]] <=> mOutOfCore[buf[th]]
               /\ mPtr[dst[th]] = "null"
        /\ pc[th] = "flag" =>
               mOutOfCore[buf[th]] /\ ~mOutOfCore[dst[th]] /\ mPtr[dst[th]] = "null"
        /\ pc[th] = "info" =>
               mOutOfCore[buf[th]] /\ mOutOfCore[dst[th]] /\ mPtr[dst[th]] = "null"
        /\ pc[th] = "cells" =>
               /\ ~mOutOfCore[buf[th]] /\ ~mOutOfCore[dst[th]]
               /\ op[th] = "construct" => mPtr[dst[th]] = "null"

\* Whatever the client does and whatever fails.
Core == TypeOK /\ CallOK /\ MutexOK /\ MutexHeldInside

Shape == ExclusionOK /\ AliveOK /\ FlagOK /\ LoadOK /\ CopyOK

Inv == Core /\ Shape

\* The content of a buffer is where its flag says.
HeldOK == \A b \in Buffers : alive[b] /\ Settled(b) => Held(b) = logical[b]

\* A call in progress has something to publish or to copy.
SourceOK ==
    \A th \in Threads :
        /\ pc[th] = "clear" => cells[buf[th]] = stored[buf[th]]
        /\ op[th] = "assign" /\ Busy(th) => mPtr[buf[th]] # "null"

\* The client does not copy a buffer others are reading.
Unshared == "copyShared" \notin Uses

\* Nor does reading the file fail.
Regular == Unshared /\ "loadFails" \notin Uses

\* The client does not fill a buffer that is out of core, or assign an empty one.
Sensible == "fillLazy" \notin Uses /\ "copyEmpty" \notin Uses

-----------------------------------------------------------------------------
(* Whatever the client does and whatever fails, the spin mutexes are held  *)
(* inside loadValues() and data() only.                                    *)

\* That holds in the initial states.
LEMMA InitCore == Init => Core
<1>. SUFFICES ASSUME Init PROVE Core
  OBVIOUS
<1>. USE BufferAssumption DEF Init, Busy, Ops
<1>1. alive \in [Buffers -> BOOLEAN] /\ mOutOfCore \in [Buffers -> BOOLEAN] /\ wild \in BOOLEAN
  BY Zenon
<1>2. arrays \in Int /\ infos \in Int
  OBVIOUS
<1>3. /\ cells \in [Buffers -> Contents] /\ stored \in [Buffers -> Contents]
      /\ logical \in [Buffers -> Contents \cup {Unallocated}]
  BY DEF Contents
<1>4. TypeOK
  BY <1>1, <1>2, <1>3 DEF TypeOK
<1>5. CallOK /\ MutexOK /\ MutexHeldInside
  BY DEF CallOK, MutexOK, MutexHeldInside, Inside
<1>. QED
  BY <1>4, <1>5 DEF Core

\* Loading preserves types and the mutexes.
LEMMA LoadStepCore ==
    ASSUME Core, NEW th \in Threads, LoadStep(th)
    PROVE  Core'
<1>. USE BufferAssumption DEF Ops, Core, Goto, Busy, call, data, heap
<1>1. CASE CheckInCore(th)
  <2>1. TypeOK'
    BY <1>1 DEF CheckInCore, TypeOK, CallOK, Contents, Loading, Reading, Copying
  <2>2. CallOK' /\ MutexOK' /\ MutexHeldInside'
    BY <1>1 DEF CheckInCore, TypeOK, CallOK, MutexOK, MutexHeldInside, Loading, Reading, Copying,
        Inside
  <2>. QED
    BY <2>1, <2>2 DEF Core
<1>2. CASE Lock(th)
  <2>1. TypeOK'
    BY <1>2 DEF Lock, TypeOK, CallOK, Contents, Loading, Reading, Copying
  <2>2. CallOK' /\ MutexOK' /\ MutexHeldInside'
    BY <1>2 DEF Lock, TypeOK, CallOK, MutexOK, MutexHeldInside, Loading, Reading, Copying, Inside
  <2>. QED
    BY <2>1, <2>2 DEF Core
<1>3. CASE Recheck(th)
  <2>1. TypeOK'
    BY <1>3 DEF Recheck, TypeOK, CallOK, Contents, Loading, Reading, Copying
  <2>2. CallOK' /\ MutexOK' /\ MutexHeldInside'
    BY <1>3 DEF Recheck, TypeOK, CallOK, MutexOK, MutexHeldInside, Loading, Reading, Copying, Inside
  <2>. QED
    BY <2>1, <2>2 DEF Core
<1>4. CASE TakeInfo(th)
  <2>1. TypeOK'
    BY <1>4 DEF TakeInfo, TypeOK, CallOK, Contents, Loading, Reading, Copying
  <2>2. CallOK' /\ MutexOK' /\ MutexHeldInside'
    BY <1>4 DEF TakeInfo, TypeOK, CallOK, MutexOK, MutexHeldInside, Loading, Reading, Copying,
        Inside
  <2>. QED
    BY <2>1, <2>2 DEF Core
<1>5. CASE AllocateForLoad(th)
  <2>1. TypeOK'
    BY <1>5 DEF AllocateForLoad, TypeOK, CallOK, Contents, Loading, Reading, Copying
  <2>2. CallOK' /\ MutexOK' /\ MutexHeldInside'
    BY <1>5 DEF AllocateForLoad, TypeOK, CallOK, MutexOK, MutexHeldInside, Loading, Reading,
        Copying, Inside
  <2>. QED
    BY <2>1, <2>2 DEF Core
<1>6. CASE ReadValues(th)
  <2>1. TypeOK'
    BY <1>6 DEF ReadValues, TypeOK, CallOK, Contents, Loading, Reading, Copying
  <2>2. CallOK' /\ MutexOK' /\ MutexHeldInside'
    BY <1>6 DEF ReadValues, TypeOK, CallOK, MutexOK, MutexHeldInside, Loading, Reading, Copying,
        Inside
  <2>. QED
    BY <2>1, <2>2 DEF Core
<1>7. CASE LoadThrows(th)
  <2>1. TypeOK'
    BY <1>7 DEF LoadThrows, TypeOK, CallOK, Contents, Loading, Reading, Copying
  <2>2. CallOK' /\ MutexOK' /\ MutexHeldInside'
    BY <1>7 DEF LoadThrows, TypeOK, CallOK, MutexOK, MutexHeldInside, Loading, Reading, Copying,
        Inside
  <2>. QED
    BY <2>1, <2>2 DEF Core
<1>8. CASE ClearFlag(th)
  <2>1. TypeOK'
    BY <1>8 DEF ClearFlag, TypeOK, CallOK, Contents, Loading, Reading, Copying
  <2>2. CallOK' /\ MutexOK' /\ MutexHeldInside'
    BY <1>8 DEF ClearFlag, TypeOK, CallOK, MutexOK, MutexHeldInside, Loading, Reading, Copying,
        Inside
  <2>. QED
    BY <2>1, <2>2 DEF Core
<1>9. CASE Unlock(th)
  <2>1. TypeOK'
    BY <1>9 DEF Unlock, TypeOK, CallOK, Contents, Loading, Reading, Copying
  <2>2. CallOK' /\ MutexOK' /\ MutexHeldInside'
    BY <1>9 DEF Unlock, TypeOK, CallOK, MutexOK, MutexHeldInside, Loading, Reading, Copying, Inside
  <2>. QED
    BY <2>1, <2>2 DEF Core
<1>. QED
  BY <1>1, <1>2, <1>3, <1>4, <1>5, <1>6, <1>7, <1>8, <1>9 DEF LoadStep

\* The access that follows preserves types and the mutexes.
LEMMA AccessStepCore ==
    ASSUME Core, NEW th \in Threads, AccessStep(th)
    PROVE  Core'
<1>. USE BufferAssumption DEF Ops, Core, Goto, Busy, call, data, heap
<1>1. CASE Access(th)
  <2>1. TypeOK'
    BY <1>1 DEF Access, TypeOK, CallOK, Contents, Loading, Reading, Copying
  <2>2. CallOK' /\ MutexOK' /\ MutexHeldInside'
    BY <1>1 DEF Access, TypeOK, CallOK, MutexOK, MutexHeldInside, Loading, Reading, Copying, Inside
  <2>. QED
    BY <2>1, <2>2 DEF Core
<1>2. CASE Store(th)
  <2>1. TypeOK'
    BY <1>2 DEF Store, Overwritten, TypeOK, CallOK, Contents, Loading, Reading, Copying
  <2>2. CallOK' /\ MutexOK' /\ MutexHeldInside'
    BY <1>2 DEF Store, Overwritten, TypeOK, CallOK, MutexOK, MutexHeldInside, Loading, Reading, Copying, Inside
  <2>. QED
    BY <2>1, <2>2 DEF Core
<1>3. CASE LockNew(th)
  <2>1. TypeOK'
    BY <1>3 DEF LockNew, TypeOK, CallOK, Contents, Loading, Reading, Copying
  <2>2. CallOK' /\ MutexOK' /\ MutexHeldInside'
    BY <1>3 DEF LockNew, TypeOK, CallOK, MutexOK, MutexHeldInside, Loading, Reading, Copying, Inside
  <2>. QED
    BY <2>1, <2>2 DEF Core
<1>4. CASE NewArray(th)
  <2>1. TypeOK'
    BY <1>4 DEF NewArray, TypeOK, CallOK, Contents, Loading, Reading, Copying
  <2>2. CallOK' /\ MutexOK' /\ MutexHeldInside'
    BY <1>4 DEF NewArray, TypeOK, CallOK, MutexOK, MutexHeldInside, Loading, Reading, Copying,
        Inside
  <2>. QED
    BY <2>1, <2>2 DEF Core
<1>. QED
  BY <1>1, <1>2, <1>3, <1>4 DEF AccessStep

\* Copying preserves types and the mutexes.
LEMMA CopyStepCore ==
    ASSUME Core, NEW th \in Threads, CopyStep(th)
    PROVE  Core'
<1>. USE BufferAssumption DEF Ops, Core, Goto, Busy, call, data, heap
<1>1. CASE DropOwn(th)
  <2>1. TypeOK'
    BY <1>1 DEF DropOwn, TypeOK, CallOK, Contents, Loading, Reading, Copying
  <2>2. CallOK' /\ MutexOK' /\ MutexHeldInside'
    BY <1>1 DEF DropOwn, TypeOK, CallOK, MutexOK, MutexHeldInside, Loading, Reading, Copying, Inside
  <2>. QED
    BY <2>1, <2>2 DEF Core
<1>2. CASE Decide(th)
  <2>1. TypeOK'
    BY <1>2 DEF Decide, TypeOK, CallOK, Contents, Loading, Reading, Copying
  <2>2. CallOK' /\ MutexOK' /\ MutexHeldInside'
    BY <1>2 DEF Decide, TypeOK, CallOK, MutexOK, MutexHeldInside, Loading, Reading, Copying, Inside
  <2>. QED
    BY <2>1, <2>2 DEF Core
<1>3. CASE CopyFlag(th)
  <2>1. TypeOK'
    BY <1>3 DEF CopyFlag, TypeOK, CallOK, Contents, Loading, Reading, Copying
  <2>2. CallOK' /\ MutexOK' /\ MutexHeldInside'
    BY <1>3 DEF CopyFlag, TypeOK, CallOK, MutexOK, MutexHeldInside, Loading, Reading, Copying,
        Inside
  <2>. QED
    BY <2>1, <2>2 DEF Core
<1>4. CASE CopyInfo(th)
  <2>1. TypeOK'
    BY <1>4 DEF CopyInfo, TypeOK, CallOK, Contents, Loading, Reading, Copying
  <2>2. CallOK' /\ MutexOK' /\ MutexHeldInside'
    BY <1>4 DEF CopyInfo, TypeOK, CallOK, MutexOK, MutexHeldInside, Loading, Reading, Copying,
        Inside
  <2>. QED
    BY <2>1, <2>2 DEF Core
<1>5. CASE CopyCells(th)
  <2>1. TypeOK'
    BY <1>5 DEF CopyCells, TypeOK, CallOK, Contents, Loading, Reading, Copying
  <2>2. CallOK' /\ MutexOK' /\ MutexHeldInside'
    BY <1>5 DEF CopyCells, TypeOK, CallOK, MutexOK, MutexHeldInside, Loading, Reading, Copying,
        Inside
  <2>. QED
    BY <2>1, <2>2 DEF Core
<1>. QED
  BY <1>1, <1>2, <1>3, <1>4, <1>5 DEF CopyStep

\* Entering a call preserves types and the mutexes.
LEMMA BeginStepCore ==
    ASSUME Core, NEW th \in Threads, BeginStep(th)
    PROVE  Core'
<1>. USE BufferAssumption DEF Ops, Core, Enter, MayRead, MayWrite, MayCopy, Owners, Users, Unshared,
    Busy, call, data, heap
<1>1. ASSUME NEW b \in Buffers, BeginAt(th, b)
      PROVE  Core'
  <2>1. TypeOK'
    BY <1>1 DEF BeginAt, TypeOK, CallOK, Contents, Loading, Reading, Copying
  <2>2. CallOK' /\ MutexOK' /\ MutexHeldInside'
    BY <1>1 DEF BeginAt, TypeOK, CallOK, MutexOK, MutexHeldInside, Loading, Reading, Copying, Inside
  <2>. QED
    BY <2>1, <2>2 DEF Core
<1>2. ASSUME NEW b \in Buffers, BeginData(th, b)
      PROVE  Core'
  <2>1. TypeOK'
    BY <1>2 DEF BeginData, TypeOK, CallOK, Contents, Loading, Reading, Copying
  <2>2. CallOK' /\ MutexOK' /\ MutexHeldInside'
    BY <1>2 DEF BeginData, TypeOK, CallOK, MutexOK, MutexHeldInside, Loading, Reading, Copying,
        Inside
  <2>. QED
    BY <2>1, <2>2 DEF Core
<1>3. ASSUME NEW b \in Buffers, NEW v \in Values, BeginSet(th, b, v)
      PROVE  Core'
  <2>1. TypeOK'
    BY <1>3 DEF BeginSet, TypeOK, CallOK, Contents, Loading, Reading, Copying
  <2>2. CallOK' /\ MutexOK' /\ MutexHeldInside'
    BY <1>3 DEF BeginSet, TypeOK, CallOK, MutexOK, MutexHeldInside, Loading, Reading, Copying,
        Inside
  <2>. QED
    BY <2>1, <2>2 DEF Core
<1>4. ASSUME NEW d \in Buffers, NEW b \in Buffers, BeginAssign(th, d, b)
      PROVE  Core'
  <2>1. TypeOK'
    BY <1>4 DEF BeginAssign, TypeOK, CallOK, Contents, Loading, Reading, Copying
  <2>2. CallOK' /\ MutexOK' /\ MutexHeldInside'
    BY <1>4 DEF BeginAssign, TypeOK, CallOK, MutexOK, MutexHeldInside, Loading, Reading, Copying,
        Inside
  <2>. QED
    BY <2>1, <2>2 DEF Core
<1>5. ASSUME NEW d \in Buffers, NEW b \in Buffers, BeginConstruct(th, d, b)
      PROVE  Core'
  <2>1. TypeOK'
    BY <1>5 DEF BeginConstruct, TypeOK, CallOK, Contents, Loading, Reading, Copying
  <2>2. CallOK' /\ MutexOK' /\ MutexHeldInside'
    BY <1>5 DEF BeginConstruct, TypeOK, CallOK, MutexOK, MutexHeldInside, Loading, Reading, Copying,
        Inside
  <2>. QED
    BY <2>1, <2>2 DEF Core
<1>. QED
  BY <1>1, <1>2, <1>3, <1>4, <1>5 DEF BeginStep

\* An operation of an owner preserves types and the mutexes.
LEMMA OwnerStepCore ==
    ASSUME Core, OwnerStep
    PROVE  Core'
<1>. USE BufferAssumption DEF Ops, Core, MayWrite, Empty, Busy, call, data, heap
<1>1. ASSUME NEW b \in Buffers, NEW v \in Values, ConstructValue(b, v)
      PROVE  Core'
  <2>a. \A u \in Threads : Busy(u) => buf[u] # b /\ dst[u] # b
    BY <1>1 DEF ConstructValue, Construct, Users
  <2>1. TypeOK'
    BY <1>1, <2>a DEF ConstructValue, Construct, TypeOK, CallOK, Contents, Loading, Reading, Copying
  <2>2. CallOK' /\ MutexOK' /\ MutexHeldInside'
    BY <1>1, <2>a DEF ConstructValue, Construct, TypeOK, CallOK, MutexOK, MutexHeldInside, Loading,
        Reading, Copying, Inside
  <2>. QED
    BY <2>1, <2>2 DEF Core
<1>2. ASSUME NEW b \in Buffers, ConstructDefault(b)
      PROVE  Core'
  <2>a. \A u \in Threads : Busy(u) => buf[u] # b /\ dst[u] # b
    BY <1>2 DEF ConstructDefault, Construct, Users
  <2>1. TypeOK'
    BY <1>2, <2>a DEF ConstructDefault, Construct, TypeOK, CallOK, Contents, Loading, Reading,
        Copying
  <2>2. CallOK' /\ MutexOK' /\ MutexHeldInside'
    BY <1>2, <2>a DEF ConstructDefault, Construct, TypeOK, CallOK, MutexOK, MutexHeldInside,
        Loading, Reading, Copying, Inside
  <2>. QED
    BY <2>1, <2>2 DEF Core
<1>3. ASSUME NEW b \in Buffers, ConstructPartial(b)
      PROVE  Core'
  <2>a. \A u \in Threads : Busy(u) => buf[u] # b /\ dst[u] # b
    BY <1>3 DEF ConstructPartial, Construct, Users
  <2>1. TypeOK'
    BY <1>3, <2>a DEF ConstructPartial, Construct, TypeOK, CallOK, Contents, Loading, Reading,
        Copying
  <2>2. CallOK' /\ MutexOK' /\ MutexHeldInside'
    BY <1>3, <2>a DEF ConstructPartial, Construct, TypeOK, CallOK, MutexOK, MutexHeldInside,
        Loading, Reading, Copying, Inside
  <2>. QED
    BY <2>1, <2>2 DEF Core
<1>4. ASSUME NEW b \in Buffers, NEW v \in Values, AttachToFile(b, v)
      PROVE  Core'
  <2>a. \A u \in Threads : Busy(u) => buf[u] # b /\ dst[u] # b
    BY <1>4 DEF AttachToFile, Users
  <2>1. TypeOK'
    BY <1>4, <2>a DEF AttachToFile, TypeOK, CallOK, Contents, Loading, Reading, Copying
  <2>2. CallOK' /\ MutexOK' /\ MutexHeldInside'
    BY <1>4, <2>a DEF AttachToFile, TypeOK, CallOK, MutexOK, MutexHeldInside, Loading, Reading,
        Copying, Inside
  <2>. QED
    BY <2>1, <2>2 DEF Core
<1>5. ASSUME NEW b \in Buffers, Allocate(b)
      PROVE  Core'
  <2>a. \A u \in Threads : Busy(u) => buf[u] # b /\ dst[u] # b
    BY <1>5 DEF Allocate, Users
  <2>1. TypeOK'
    BY <1>5, <2>a DEF Allocate, TypeOK, CallOK, Contents, Loading, Reading, Copying
  <2>2. CallOK' /\ MutexOK' /\ MutexHeldInside'
    BY <1>5, <2>a DEF Allocate, TypeOK, CallOK, MutexOK, MutexHeldInside, Loading, Reading, Copying,
        Inside
  <2>. QED
    BY <2>1, <2>2 DEF Core
<1>6. ASSUME NEW b \in Buffers, NEW v \in Values, Fill(b, v)
      PROVE  Core'
  <2>a. \A u \in Threads : Busy(u) => buf[u] # b /\ dst[u] # b
    BY <1>6 DEF Fill, Users
  <2>1. TypeOK'
    BY <1>6, <2>a DEF Fill, Overwritten, TypeOK, CallOK, Contents, Loading, Reading, Copying
  <2>2. CallOK' /\ MutexOK' /\ MutexHeldInside'
    BY <1>6, <2>a DEF Fill, Overwritten, TypeOK, CallOK, MutexOK, MutexHeldInside, Loading, Reading, Copying,
        Inside
  <2>. QED
    BY <2>1, <2>2 DEF Core
<1>7. ASSUME NEW b \in Buffers, NEW c \in Buffers, Swap(b, c)
      PROVE  Core'
  <2>a. \A u \in Threads : Busy(u) => buf[u] # b /\ dst[u] # b
    BY <1>7 DEF Swap, Users
  <2>b. \A u \in Threads : Busy(u) => buf[u] # c /\ dst[u] # c
    BY <1>7 DEF Swap, Users
  <2>1. TypeOK'
    BY <1>7, <2>a, <2>b DEF Swap, TypeOK, CallOK, Contents, Loading, Reading, Copying
  <2>2. CallOK' /\ MutexOK' /\ MutexHeldInside'
    BY <1>7, <2>a, <2>b DEF Swap, TypeOK, CallOK, MutexOK, MutexHeldInside, Loading, Reading,
        Copying, Inside
  <2>. QED
    BY <2>1, <2>2 DEF Core
<1>8. ASSUME NEW b \in Buffers, Destroy(b)
      PROVE  Core'
  <2>a. \A u \in Threads : Busy(u) => buf[u] # b /\ dst[u] # b
    BY <1>8 DEF Destroy, Users
  <2>1. TypeOK'
    BY <1>8, <2>a DEF Destroy, TypeOK, CallOK, Contents, Loading, Reading, Copying
  <2>2. CallOK' /\ MutexOK' /\ MutexHeldInside'
    BY <1>8, <2>a DEF Destroy, TypeOK, CallOK, MutexOK, MutexHeldInside, Loading, Reading, Copying,
        Inside
  <2>. QED
    BY <2>1, <2>2 DEF Core
<1>. QED
  BY <1>1, <1>2, <1>3, <1>4, <1>5, <1>6, <1>7, <1>8 DEF OwnerStep

\* So does every step of the specification.
LEMMA NextCore ==
    ASSUME Core, [Next]_vars
    PROVE  Core'
<1>1. CASE UNCHANGED vars
  BY <1>1 DEF Core, TypeOK, CallOK, MutexOK, MutexHeldInside, Busy, Contents, vars, data, heap, call
<1>2. CASE OwnerStep
  BY <1>2, OwnerStepCore
<1>3. ASSUME NEW th \in Threads, BeginStep(th) PROVE Core'
  BY <1>3, BeginStepCore
<1>4. ASSUME NEW th \in Threads, Step(th) PROVE Core'
  BY <1>4, LoadStepCore, AccessStepCore, CopyStepCore DEF Step
<1>. QED
  BY <1>1, <1>2, <1>3, <1>4 DEF Next

-----------------------------------------------------------------------------
(* If nobody copies what others read, flag and union keep in step, also    *)
(* when a file cannot be read.                                             *)

\* Nothing is going on in the initial states.
LEMMA InitInv == Init => Inv
<1>1. Init => Shape
  BY BufferAssumption DEF Init, Shape, ExclusionOK, AliveOK, FlagOK, LoadOK, CopyOK, Busy
<1>. QED
  BY <1>1, InitCore DEF Inv

\* Loading preserves the shape of buffers and calls.
LEMMA LoadStepShape ==
    ASSUME Inv, Core', Unshared, NEW th \in Threads, LoadStep(th)
    PROVE  Shape'
<1>. USE BufferAssumption DEF Ops, Inv, Core, Shape, Goto, Busy, call, data, heap
<1>1. CASE CheckInCore(th)
  <2>1. ExclusionOK' /\ AliveOK'
    BY <1>1 DEF CheckInCore, TypeOK, CallOK, ExclusionOK, AliveOK, Loading, Reading, Copying, Inside
  <2>2. FlagOK'
    BY <1>1 DEF CheckInCore, TypeOK, CallOK, ExclusionOK, AliveOK, MutexOK, FlagOK, InTransit,
        LoadOK, CopyOK, Loading, Reading, Copying, Inside
  <2>3. LoadOK' /\ CopyOK'
    BY <1>1 DEF CheckInCore, TypeOK, CallOK, ExclusionOK, AliveOK, MutexOK, FlagOK, InTransit,
        LoadOK, CopyOK, Loading, Reading, Copying, Inside
  <2>. QED
    BY <2>1, <2>2, <2>3 DEF Shape
<1>2. CASE Lock(th)
  <2>1. ExclusionOK' /\ AliveOK'
    BY <1>2 DEF Lock, TypeOK, CallOK, ExclusionOK, AliveOK, Loading, Reading, Copying, Inside
  <2>2. FlagOK'
    BY <1>2 DEF Lock, TypeOK, CallOK, ExclusionOK, AliveOK, MutexOK, FlagOK, InTransit, LoadOK,
        CopyOK, Loading, Reading, Copying, Inside
  <2>3. LoadOK' /\ CopyOK'
    BY <1>2 DEF Lock, TypeOK, CallOK, ExclusionOK, AliveOK, MutexOK, FlagOK, InTransit, LoadOK,
        CopyOK, Loading, Reading, Copying, Inside
  <2>. QED
    BY <2>1, <2>2, <2>3 DEF Shape
<1>3. CASE Recheck(th)
  <2>1. ExclusionOK' /\ AliveOK'
    BY <1>3 DEF Recheck, TypeOK, CallOK, ExclusionOK, AliveOK, Loading, Reading, Copying, Inside
  <2>2. FlagOK'
    BY <1>3 DEF Recheck, TypeOK, CallOK, ExclusionOK, AliveOK, MutexOK, FlagOK, InTransit, LoadOK,
        CopyOK, Loading, Reading, Copying, Inside
  <2>3. LoadOK' /\ CopyOK'
    BY <1>3 DEF Recheck, TypeOK, CallOK, ExclusionOK, AliveOK, MutexOK, FlagOK, InTransit, LoadOK,
        CopyOK, Loading, Reading, Copying, Inside
  <2>. QED
    BY <2>1, <2>2, <2>3 DEF Shape
<1>4. CASE TakeInfo(th)
  <2>1. ExclusionOK' /\ AliveOK'
    BY <1>4 DEF TakeInfo, TypeOK, CallOK, ExclusionOK, AliveOK, Loading, Reading, Copying, Inside
  <2>2. FlagOK'
    BY <1>4 DEF TakeInfo, TypeOK, CallOK, ExclusionOK, AliveOK, MutexOK, FlagOK, InTransit, LoadOK,
        CopyOK, Loading, Reading, Copying, Inside
  <2>3. LoadOK' /\ CopyOK'
    BY <1>4 DEF TakeInfo, TypeOK, CallOK, ExclusionOK, AliveOK, MutexOK, FlagOK, InTransit, LoadOK,
        CopyOK, Loading, Reading, Copying, Inside
  <2>. QED
    BY <2>1, <2>2, <2>3 DEF Shape
<1>5. CASE AllocateForLoad(th)
  <2>1. ExclusionOK' /\ AliveOK'
    BY <1>5 DEF AllocateForLoad, TypeOK, CallOK, ExclusionOK, AliveOK, Loading, Reading, Copying,
        Inside
  <2>2. FlagOK'
    BY <1>5 DEF AllocateForLoad, TypeOK, CallOK, ExclusionOK, AliveOK, MutexOK, FlagOK, InTransit,
        LoadOK, CopyOK, Loading, Reading, Copying, Inside
  <2>3. LoadOK' /\ CopyOK'
    BY <1>5 DEF AllocateForLoad, TypeOK, CallOK, ExclusionOK, AliveOK, MutexOK, FlagOK, InTransit,
        LoadOK, CopyOK, Loading, Reading, Copying, Inside
  <2>. QED
    BY <2>1, <2>2, <2>3 DEF Shape
<1>6. CASE ReadValues(th)
  <2>1. ExclusionOK' /\ AliveOK'
    BY <1>6 DEF ReadValues, TypeOK, CallOK, ExclusionOK, AliveOK, Loading, Reading, Copying, Inside
  <2>2. FlagOK'
    BY <1>6 DEF ReadValues, TypeOK, CallOK, ExclusionOK, AliveOK, MutexOK, FlagOK, InTransit,
        LoadOK, CopyOK, Loading, Reading, Copying, Inside
  <2>3. LoadOK' /\ CopyOK'
    BY <1>6 DEF ReadValues, TypeOK, CallOK, ExclusionOK, AliveOK, MutexOK, FlagOK, InTransit,
        LoadOK, CopyOK, Loading, Reading, Copying, Inside
  <2>. QED
    BY <2>1, <2>2, <2>3 DEF Shape
<1>7. CASE LoadThrows(th)
  <2>1. ExclusionOK' /\ AliveOK'
    BY <1>7 DEF LoadThrows, TypeOK, CallOK, ExclusionOK, AliveOK, Loading, Reading, Copying, Inside
  <2>2. FlagOK'
    BY <1>7 DEF LoadThrows, TypeOK, CallOK, ExclusionOK, AliveOK, MutexOK, FlagOK, InTransit,
        LoadOK, CopyOK, Loading, Reading, Copying, Inside
  <2>3. LoadOK' /\ CopyOK'
    BY <1>7 DEF LoadThrows, TypeOK, CallOK, ExclusionOK, AliveOK, MutexOK, FlagOK, InTransit,
        LoadOK, CopyOK, Loading, Reading, Copying, Inside
  <2>. QED
    BY <2>1, <2>2, <2>3 DEF Shape
<1>8. CASE ClearFlag(th)
  <2>1. ExclusionOK' /\ AliveOK'
    BY <1>8 DEF ClearFlag, TypeOK, CallOK, ExclusionOK, AliveOK, Loading, Reading, Copying, Inside
  <2>2. FlagOK'
    BY <1>8 DEF ClearFlag, TypeOK, CallOK, ExclusionOK, AliveOK, MutexOK, FlagOK, InTransit, LoadOK,
        CopyOK, Loading, Reading, Copying, Inside
  <2>3. LoadOK' /\ CopyOK'
    BY <1>8 DEF ClearFlag, TypeOK, CallOK, ExclusionOK, AliveOK, MutexOK, FlagOK, InTransit, LoadOK,
        CopyOK, Loading, Reading, Copying, Inside
  <2>. QED
    BY <2>1, <2>2, <2>3 DEF Shape
<1>9. CASE Unlock(th)
  <2>1. ExclusionOK' /\ AliveOK'
    BY <1>9 DEF Unlock, TypeOK, CallOK, ExclusionOK, AliveOK, Loading, Reading, Copying, Inside
  <2>2. FlagOK'
    BY <1>9 DEF Unlock, TypeOK, CallOK, ExclusionOK, AliveOK, MutexOK, FlagOK, InTransit, LoadOK,
        CopyOK, Loading, Reading, Copying, Inside
  <2>3. LoadOK' /\ CopyOK'
    BY <1>9 DEF Unlock, TypeOK, CallOK, ExclusionOK, AliveOK, MutexOK, FlagOK, InTransit, LoadOK,
        CopyOK, Loading, Reading, Copying, Inside
  <2>. QED
    BY <2>1, <2>2, <2>3 DEF Shape
<1>. QED
  BY <1>1, <1>2, <1>3, <1>4, <1>5, <1>6, <1>7, <1>8, <1>9 DEF LoadStep

\* The access that follows preserves the shape of buffers and calls.
LEMMA AccessStepShape ==
    ASSUME Inv, Core', Unshared, NEW th \in Threads, AccessStep(th)
    PROVE  Shape'
<1>. USE BufferAssumption DEF Ops, Inv, Core, Shape, Goto, Busy, call, data, heap
<1>1. CASE Access(th)
  <2>1. ExclusionOK' /\ AliveOK'
    BY <1>1 DEF Access, TypeOK, CallOK, ExclusionOK, AliveOK, Loading, Reading, Copying, Inside
  <2>2. FlagOK'
    BY <1>1 DEF Access, TypeOK, CallOK, ExclusionOK, AliveOK, MutexOK, FlagOK, InTransit, LoadOK,
        CopyOK, Loading, Reading, Copying, Inside
  <2>3. LoadOK' /\ CopyOK'
    BY <1>1 DEF Access, TypeOK, CallOK, ExclusionOK, AliveOK, MutexOK, FlagOK, InTransit, LoadOK,
        CopyOK, Loading, Reading, Copying, Inside
  <2>. QED
    BY <2>1, <2>2, <2>3 DEF Shape
<1>2. CASE Store(th)
  <2>1. ExclusionOK' /\ AliveOK'
    BY <1>2 DEF Store, Overwritten, TypeOK, CallOK, ExclusionOK, AliveOK, Loading, Reading, Copying, Inside
  <2>2. FlagOK'
    BY <1>2 DEF Store, Overwritten, TypeOK, CallOK, ExclusionOK, AliveOK, MutexOK, FlagOK, InTransit, LoadOK,
        CopyOK, Loading, Reading, Copying, Inside
  <2>3. LoadOK' /\ CopyOK'
    BY <1>2 DEF Store, Overwritten, TypeOK, CallOK, ExclusionOK, AliveOK, MutexOK, FlagOK, InTransit, LoadOK,
        CopyOK, Loading, Reading, Copying, Inside
  <2>. QED
    BY <2>1, <2>2, <2>3 DEF Shape
<1>3. CASE LockNew(th)
  <2>1. ExclusionOK' /\ AliveOK'
    BY <1>3 DEF LockNew, TypeOK, CallOK, ExclusionOK, AliveOK, Loading, Reading, Copying, Inside
  <2>2. FlagOK'
    BY <1>3 DEF LockNew, TypeOK, CallOK, ExclusionOK, AliveOK, MutexOK, FlagOK, InTransit, LoadOK,
        CopyOK, Loading, Reading, Copying, Inside
  <2>3. LoadOK' /\ CopyOK'
    BY <1>3 DEF LockNew, TypeOK, CallOK, ExclusionOK, AliveOK, MutexOK, FlagOK, InTransit, LoadOK,
        CopyOK, Loading, Reading, Copying, Inside
  <2>. QED
    BY <2>1, <2>2, <2>3 DEF Shape
<1>4. CASE NewArray(th)
  <2>1. ExclusionOK' /\ AliveOK'
    BY <1>4 DEF NewArray, TypeOK, CallOK, ExclusionOK, AliveOK, Loading, Reading, Copying, Inside
  <2>2. FlagOK'
    BY <1>4 DEF NewArray, TypeOK, CallOK, ExclusionOK, AliveOK, MutexOK, FlagOK, InTransit, LoadOK,
        CopyOK, Loading, Reading, Copying, Inside
  <2>3. LoadOK' /\ CopyOK'
    BY <1>4 DEF NewArray, TypeOK, CallOK, ExclusionOK, AliveOK, MutexOK, FlagOK, InTransit, LoadOK,
        CopyOK, Loading, Reading, Copying, Inside
  <2>. QED
    BY <2>1, <2>2, <2>3 DEF Shape
<1>. QED
  BY <1>1, <1>2, <1>3, <1>4 DEF AccessStep

\* Copying preserves the shape of buffers and calls.
LEMMA CopyStepShape ==
    ASSUME Inv, Core', Unshared, NEW th \in Threads, CopyStep(th)
    PROVE  Shape'
<1>. USE BufferAssumption DEF Ops, Inv, Core, Shape, Goto, Busy, call, data, heap
<1>1. CASE DropOwn(th)
  <2>1. ExclusionOK' /\ AliveOK'
    BY <1>1 DEF DropOwn, TypeOK, CallOK, ExclusionOK, AliveOK, Loading, Reading, Copying, Inside
  <2>2. FlagOK'
    BY <1>1 DEF DropOwn, TypeOK, CallOK, ExclusionOK, AliveOK, MutexOK, FlagOK, InTransit, LoadOK,
        CopyOK, Loading, Reading, Copying, Inside
  <2>3. LoadOK' /\ CopyOK'
    BY <1>1 DEF DropOwn, TypeOK, CallOK, ExclusionOK, AliveOK, MutexOK, FlagOK, InTransit, LoadOK,
        CopyOK, Loading, Reading, Copying, Inside
  <2>. QED
    BY <2>1, <2>2, <2>3 DEF Shape
<1>2. CASE Decide(th)
  <2>1. ExclusionOK' /\ AliveOK'
    BY <1>2 DEF Decide, TypeOK, CallOK, ExclusionOK, AliveOK, Loading, Reading, Copying, Inside
  <2>2. FlagOK'
    BY <1>2 DEF Decide, TypeOK, CallOK, ExclusionOK, AliveOK, MutexOK, FlagOK, InTransit, LoadOK,
        CopyOK, Loading, Reading, Copying, Inside
  <2>3. LoadOK' /\ CopyOK'
    BY <1>2 DEF Decide, TypeOK, CallOK, ExclusionOK, AliveOK, MutexOK, FlagOK, InTransit, LoadOK,
        CopyOK, Loading, Reading, Copying, Inside
  <2>. QED
    BY <2>1, <2>2, <2>3 DEF Shape
<1>3. CASE CopyFlag(th)
  <2>1. ExclusionOK' /\ AliveOK'
    BY <1>3 DEF CopyFlag, TypeOK, CallOK, ExclusionOK, AliveOK, Loading, Reading, Copying, Inside
  <2>2. FlagOK'
    BY <1>3 DEF CopyFlag, TypeOK, CallOK, ExclusionOK, AliveOK, MutexOK, FlagOK, InTransit, LoadOK,
        CopyOK, Loading, Reading, Copying, Inside
  <2>3. LoadOK' /\ CopyOK'
    BY <1>3 DEF CopyFlag, TypeOK, CallOK, ExclusionOK, AliveOK, MutexOK, FlagOK, InTransit, LoadOK,
        CopyOK, Loading, Reading, Copying, Inside
  <2>. QED
    BY <2>1, <2>2, <2>3 DEF Shape
<1>4. CASE CopyInfo(th)
  <2>1. ExclusionOK' /\ AliveOK'
    BY <1>4 DEF CopyInfo, TypeOK, CallOK, ExclusionOK, AliveOK, Loading, Reading, Copying, Inside
  <2>2. FlagOK'
    BY <1>4 DEF CopyInfo, TypeOK, CallOK, ExclusionOK, AliveOK, MutexOK, FlagOK, InTransit, LoadOK,
        CopyOK, Loading, Reading, Copying, Inside
  <2>3. LoadOK' /\ CopyOK'
    BY <1>4 DEF CopyInfo, TypeOK, CallOK, ExclusionOK, AliveOK, MutexOK, FlagOK, InTransit, LoadOK,
        CopyOK, Loading, Reading, Copying, Inside
  <2>. QED
    BY <2>1, <2>2, <2>3 DEF Shape
<1>5. CASE CopyCells(th)
  <2>1. ExclusionOK' /\ AliveOK'
    BY <1>5 DEF CopyCells, TypeOK, CallOK, ExclusionOK, AliveOK, Loading, Reading, Copying, Inside
  <2>2. FlagOK'
    BY <1>5 DEF CopyCells, TypeOK, CallOK, ExclusionOK, AliveOK, MutexOK, FlagOK, InTransit, LoadOK,
        CopyOK, Loading, Reading, Copying, Inside
  <2>3. LoadOK' /\ CopyOK'
    BY <1>5 DEF CopyCells, TypeOK, CallOK, ExclusionOK, AliveOK, MutexOK, FlagOK, InTransit, LoadOK,
        CopyOK, Loading, Reading, Copying, Inside
  <2>. QED
    BY <2>1, <2>2, <2>3 DEF Shape
<1>. QED
  BY <1>1, <1>2, <1>3, <1>4, <1>5 DEF CopyStep

\* Entering a call preserves the shape of buffers and calls.
LEMMA BeginStepShape ==
    ASSUME Inv, Core', Unshared, NEW th \in Threads, BeginStep(th)
    PROVE  Shape'
<1>. USE BufferAssumption DEF Ops, Inv, Core, Shape, Enter, MayRead, MayWrite, MayCopy, Owners,
    Users, Unshared, Busy, call, data, heap
<1>1. ASSUME NEW b \in Buffers, BeginAt(th, b)
      PROVE  Shape'
  <2>1. ExclusionOK' /\ AliveOK'
    BY <1>1 DEF BeginAt, TypeOK, CallOK, ExclusionOK, AliveOK, Loading, Reading, Copying, Inside
  <2>2. FlagOK'
    BY <1>1 DEF BeginAt, TypeOK, CallOK, ExclusionOK, AliveOK, MutexOK, FlagOK, InTransit, LoadOK,
        CopyOK, Loading, Reading, Copying, Inside
  <2>3. LoadOK' /\ CopyOK'
    BY <1>1 DEF BeginAt, TypeOK, CallOK, ExclusionOK, AliveOK, MutexOK, FlagOK, InTransit, LoadOK,
        CopyOK, Loading, Reading, Copying, Inside
  <2>. QED
    BY <2>1, <2>2, <2>3 DEF Shape
<1>2. ASSUME NEW b \in Buffers, BeginData(th, b)
      PROVE  Shape'
  <2>1. ExclusionOK' /\ AliveOK'
    BY <1>2 DEF BeginData, TypeOK, CallOK, ExclusionOK, AliveOK, Loading, Reading, Copying, Inside
  <2>2. FlagOK'
    BY <1>2 DEF BeginData, TypeOK, CallOK, ExclusionOK, AliveOK, MutexOK, FlagOK, InTransit, LoadOK,
        CopyOK, Loading, Reading, Copying, Inside
  <2>3. LoadOK' /\ CopyOK'
    BY <1>2 DEF BeginData, TypeOK, CallOK, ExclusionOK, AliveOK, MutexOK, FlagOK, InTransit, LoadOK,
        CopyOK, Loading, Reading, Copying, Inside
  <2>. QED
    BY <2>1, <2>2, <2>3 DEF Shape
<1>3. ASSUME NEW b \in Buffers, NEW v \in Values, BeginSet(th, b, v)
      PROVE  Shape'
  <2>1. ExclusionOK' /\ AliveOK'
    BY <1>3 DEF BeginSet, TypeOK, CallOK, ExclusionOK, AliveOK, Loading, Reading, Copying, Inside
  <2>2. FlagOK'
    BY <1>3 DEF BeginSet, TypeOK, CallOK, ExclusionOK, AliveOK, MutexOK, FlagOK, InTransit, LoadOK,
        CopyOK, Loading, Reading, Copying, Inside
  <2>3. LoadOK' /\ CopyOK'
    BY <1>3 DEF BeginSet, TypeOK, CallOK, ExclusionOK, AliveOK, MutexOK, FlagOK, InTransit, LoadOK,
        CopyOK, Loading, Reading, Copying, Inside
  <2>. QED
    BY <2>1, <2>2, <2>3 DEF Shape
<1>4. ASSUME NEW d \in Buffers, NEW b \in Buffers, BeginAssign(th, d, b)
      PROVE  Shape'
  <2>1. ExclusionOK' /\ AliveOK'
    BY <1>4 DEF BeginAssign, TypeOK, CallOK, ExclusionOK, AliveOK, Loading, Reading, Copying, Inside
  <2>2. FlagOK'
    BY <1>4 DEF BeginAssign, TypeOK, CallOK, ExclusionOK, AliveOK, MutexOK, FlagOK, InTransit,
        LoadOK, CopyOK, Loading, Reading, Copying, Inside
  <2>3. LoadOK' /\ CopyOK'
    BY <1>4 DEF BeginAssign, TypeOK, CallOK, ExclusionOK, AliveOK, MutexOK, FlagOK, InTransit,
        LoadOK, CopyOK, Loading, Reading, Copying, Inside
  <2>. QED
    BY <2>1, <2>2, <2>3 DEF Shape
<1>5. ASSUME NEW d \in Buffers, NEW b \in Buffers, BeginConstruct(th, d, b)
      PROVE  Shape'
  <2>1. ExclusionOK' /\ AliveOK'
    BY <1>5 DEF BeginConstruct, TypeOK, CallOK, ExclusionOK, AliveOK, Loading, Reading, Copying,
        Inside
  <2>2. FlagOK'
    BY <1>5 DEF BeginConstruct, TypeOK, CallOK, ExclusionOK, AliveOK, MutexOK, FlagOK, InTransit,
        LoadOK, CopyOK, Loading, Reading, Copying, Inside
  <2>3. LoadOK' /\ CopyOK'
    BY <1>5 DEF BeginConstruct, TypeOK, CallOK, ExclusionOK, AliveOK, MutexOK, FlagOK, InTransit,
        LoadOK, CopyOK, Loading, Reading, Copying, Inside
  <2>. QED
    BY <2>1, <2>2, <2>3 DEF Shape
<1>. QED
  BY <1>1, <1>2, <1>3, <1>4, <1>5 DEF BeginStep

\* An operation of an owner preserves the shape of buffers and calls.
LEMMA OwnerStepShape ==
    ASSUME Inv, Core', Unshared, OwnerStep
    PROVE  Shape'
<1>. USE BufferAssumption DEF Ops, Inv, Core, Shape, MayWrite, Empty, Busy, call, data, heap
<1>1. ASSUME NEW b \in Buffers, NEW v \in Values, ConstructValue(b, v)
      PROVE  Shape'
  <2>a. \A u \in Threads : Busy(u) => buf[u] # b /\ dst[u] # b
    BY <1>1 DEF ConstructValue, Construct, Users
  <2>1. ExclusionOK' /\ AliveOK'
    BY <1>1, <2>a DEF ConstructValue, Construct, TypeOK, CallOK, ExclusionOK, AliveOK, Loading,
        Reading, Copying, Inside
  <2>2. FlagOK'
    BY <1>1, <2>a DEF ConstructValue, Construct, TypeOK, CallOK, ExclusionOK, AliveOK, MutexOK,
        FlagOK, InTransit, LoadOK, CopyOK, Loading, Reading, Copying, Inside
  <2>3. LoadOK' /\ CopyOK'
    BY <1>1, <2>a DEF ConstructValue, Construct, TypeOK, CallOK, ExclusionOK, AliveOK, MutexOK,
        FlagOK, InTransit, LoadOK, CopyOK, Loading, Reading, Copying, Inside
  <2>. QED
    BY <2>1, <2>2, <2>3 DEF Shape
<1>2. ASSUME NEW b \in Buffers, ConstructDefault(b)
      PROVE  Shape'
  <2>a. \A u \in Threads : Busy(u) => buf[u] # b /\ dst[u] # b
    BY <1>2 DEF ConstructDefault, Construct, Users
  <2>1. ExclusionOK' /\ AliveOK'
    BY <1>2, <2>a DEF ConstructDefault, Construct, TypeOK, CallOK, ExclusionOK, AliveOK, Loading,
        Reading, Copying, Inside
  <2>2. FlagOK'
    BY <1>2, <2>a DEF ConstructDefault, Construct, TypeOK, CallOK, ExclusionOK, AliveOK, MutexOK,
        FlagOK, InTransit, LoadOK, CopyOK, Loading, Reading, Copying, Inside
  <2>3. LoadOK' /\ CopyOK'
    BY <1>2, <2>a DEF ConstructDefault, Construct, TypeOK, CallOK, ExclusionOK, AliveOK, MutexOK,
        FlagOK, InTransit, LoadOK, CopyOK, Loading, Reading, Copying, Inside
  <2>. QED
    BY <2>1, <2>2, <2>3 DEF Shape
<1>3. ASSUME NEW b \in Buffers, ConstructPartial(b)
      PROVE  Shape'
  <2>a. \A u \in Threads : Busy(u) => buf[u] # b /\ dst[u] # b
    BY <1>3 DEF ConstructPartial, Construct, Users
  <2>1. ExclusionOK' /\ AliveOK'
    BY <1>3, <2>a DEF ConstructPartial, Construct, TypeOK, CallOK, ExclusionOK, AliveOK, Loading,
        Reading, Copying, Inside
  <2>2. FlagOK'
    BY <1>3, <2>a DEF ConstructPartial, Construct, TypeOK, CallOK, ExclusionOK, AliveOK, MutexOK,
        FlagOK, InTransit, LoadOK, CopyOK, Loading, Reading, Copying, Inside
  <2>3. LoadOK' /\ CopyOK'
    BY <1>3, <2>a DEF ConstructPartial, Construct, TypeOK, CallOK, ExclusionOK, AliveOK, MutexOK,
        FlagOK, InTransit, LoadOK, CopyOK, Loading, Reading, Copying, Inside
  <2>. QED
    BY <2>1, <2>2, <2>3 DEF Shape
<1>4. ASSUME NEW b \in Buffers, NEW v \in Values, AttachToFile(b, v)
      PROVE  Shape'
  <2>a. \A u \in Threads : Busy(u) => buf[u] # b /\ dst[u] # b
    BY <1>4 DEF AttachToFile, Users
  <2>1. ExclusionOK' /\ AliveOK'
    BY <1>4, <2>a DEF AttachToFile, TypeOK, CallOK, ExclusionOK, AliveOK, Loading, Reading, Copying,
        Inside
  <2>2. FlagOK'
    BY <1>4, <2>a DEF AttachToFile, TypeOK, CallOK, ExclusionOK, AliveOK, MutexOK, FlagOK,
        InTransit, LoadOK, CopyOK, Loading, Reading, Copying, Inside
  <2>3. LoadOK' /\ CopyOK'
    BY <1>4, <2>a DEF AttachToFile, TypeOK, CallOK, ExclusionOK, AliveOK, MutexOK, FlagOK,
        InTransit, LoadOK, CopyOK, Loading, Reading, Copying, Inside
  <2>. QED
    BY <2>1, <2>2, <2>3 DEF Shape
<1>5. ASSUME NEW b \in Buffers, Allocate(b)
      PROVE  Shape'
  <2>a. \A u \in Threads : Busy(u) => buf[u] # b /\ dst[u] # b
    BY <1>5 DEF Allocate, Users
  <2>1. ExclusionOK' /\ AliveOK'
    BY <1>5, <2>a DEF Allocate, TypeOK, CallOK, ExclusionOK, AliveOK, Loading, Reading, Copying,
        Inside
  <2>2. FlagOK'
    BY <1>5, <2>a DEF Allocate, TypeOK, CallOK, ExclusionOK, AliveOK, MutexOK, FlagOK, InTransit,
        LoadOK, CopyOK, Loading, Reading, Copying, Inside
  <2>3. LoadOK' /\ CopyOK'
    BY <1>5, <2>a DEF Allocate, TypeOK, CallOK, ExclusionOK, AliveOK, MutexOK, FlagOK, InTransit,
        LoadOK, CopyOK, Loading, Reading, Copying, Inside
  <2>. QED
    BY <2>1, <2>2, <2>3 DEF Shape
<1>6. ASSUME NEW b \in Buffers, NEW v \in Values, Fill(b, v)
      PROVE  Shape'
  <2>a. \A u \in Threads : Busy(u) => buf[u] # b /\ dst[u] # b
    BY <1>6 DEF Fill, Users
  <2>1. ExclusionOK' /\ AliveOK'
    BY <1>6, <2>a DEF Fill, Overwritten, TypeOK, CallOK, ExclusionOK, AliveOK, Loading, Reading, Copying, Inside
  <2>2. FlagOK'
    BY <1>6, <2>a DEF Fill, Overwritten, TypeOK, CallOK, ExclusionOK, AliveOK, MutexOK, FlagOK, InTransit,
        LoadOK, CopyOK, Loading, Reading, Copying, Inside
  <2>3. LoadOK' /\ CopyOK'
    BY <1>6, <2>a DEF Fill, Overwritten, TypeOK, CallOK, ExclusionOK, AliveOK, MutexOK, FlagOK, InTransit,
        LoadOK, CopyOK, Loading, Reading, Copying, Inside
  <2>. QED
    BY <2>1, <2>2, <2>3 DEF Shape
<1>7. ASSUME NEW b \in Buffers, NEW c \in Buffers, Swap(b, c)
      PROVE  Shape'
  <2>a. \A u \in Threads : Busy(u) => buf[u] # b /\ dst[u] # b
    BY <1>7 DEF Swap, Users
  <2>b. \A u \in Threads : Busy(u) => buf[u] # c /\ dst[u] # c
    BY <1>7 DEF Swap, Users
  <2>1. ExclusionOK' /\ AliveOK'
    BY <1>7, <2>a, <2>b DEF Swap, TypeOK, CallOK, ExclusionOK, AliveOK, Loading, Reading, Copying,
        Inside
  <2>2. FlagOK'
    BY <1>7, <2>a, <2>b DEF Swap, TypeOK, CallOK, ExclusionOK, AliveOK, MutexOK, FlagOK, InTransit,
        LoadOK, CopyOK, Loading, Reading, Copying, Inside
  <2>3. LoadOK' /\ CopyOK'
    BY <1>7, <2>a, <2>b DEF Swap, LoadOK, CopyOK, TypeOK, CallOK, Reading, Copying, Loading
  <2>. QED
    BY <2>1, <2>2, <2>3 DEF Shape
<1>8. ASSUME NEW b \in Buffers, Destroy(b)
      PROVE  Shape'
  <2>a. \A u \in Threads : Busy(u) => buf[u] # b /\ dst[u] # b
    BY <1>8 DEF Destroy, Users
  <2>1. ExclusionOK' /\ AliveOK'
    BY <1>8, <2>a DEF Destroy, TypeOK, CallOK, ExclusionOK, AliveOK, Loading, Reading, Copying,
        Inside
  <2>2. FlagOK'
    BY <1>8, <2>a DEF Destroy, TypeOK, CallOK, ExclusionOK, AliveOK, MutexOK, FlagOK, InTransit,
        LoadOK, CopyOK, Loading, Reading, Copying, Inside
  <2>3. LoadOK' /\ CopyOK'
    BY <1>8, <2>a DEF Destroy, TypeOK, CallOK, ExclusionOK, AliveOK, MutexOK, FlagOK, InTransit,
        LoadOK, CopyOK, Loading, Reading, Copying, Inside
  <2>. QED
    BY <2>1, <2>2, <2>3 DEF Shape
<1>. QED
  BY <1>1, <1>2, <1>3, <1>4, <1>5, <1>6, <1>7, <1>8 DEF OwnerStep

\* So does every step of the specification.
LEMMA NextInv ==
    ASSUME Inv, Unshared, [Next]_vars
    PROVE  Inv'
<1>1. Core'
  BY NextCore DEF Inv
<1>2. CASE UNCHANGED vars
  BY <1>1, <1>2 DEF Inv, Shape, ExclusionOK, AliveOK, FlagOK, LoadOK, CopyOK, Busy, InTransit, vars,
      data, heap, call
<1>3. CASE OwnerStep
  BY <1>1, <1>3, OwnerStepShape DEF Inv
<1>4. ASSUME NEW th \in Threads, BeginStep(th) PROVE Inv'
  BY <1>1, <1>4, BeginStepShape DEF Inv
<1>5. ASSUME NEW th \in Threads, Step(th) PROVE Inv'
  BY <1>1, <1>5, LoadStepShape, AccessStepShape, CopyStepShape DEF Inv, Step
<1>. QED
  BY <1>2, <1>3, <1>4, <1>5 DEF Next

-----------------------------------------------------------------------------
(* A step follows a wrong pointer only into what a failed load has left.    *)

\* The steps that follow a pointer are TakeInfo(), DropOwn(), CopyInfo(),
\* Fill() and Destroy().
LEMMA OnlyBrokenIsWild ==
    ASSUME Inv, Unshared, [Next]_vars
    PROVE  [wild' => \E b \in Buffers : Broken(b)]_vars
<1>. USE BufferAssumption DEF Inv, Core, Shape, Busy
<1>. SUFFICES ASSUME Next, wild' PROVE \E b \in Buffers : Broken(b)
  BY DEF vars
<1>. DEFINE Untouched(b) ==
         \A u \in Threads :
             /\ buf[u] = b => pc[u] \notin Loading \cup {"unlock"}
             /\ dst[u] = b => pc[u] \notin {"decide", "flag", "info", "cells"}
<1>1. ASSUME NEW b \in Buffers, ~wild, mOutOfCore[b], mPtr[b] # "info", Untouched(b)
      PROVE  Broken(b)
  <2>1. ~InTransit(b) /\ Loaders(b) = {}
    BY <1>1 DEF InTransit, Loaders, Loading
  <2>2. mPtr[b] = "array"
    BY <1>1, <2>1 DEF FlagOK, TypeOK
  <2>. QED
    BY <1>1, <2>1, <2>2 DEF Broken
<1>2. ASSUME NEW b \in Buffers, Users(b) = {} PROVE Untouched(b)
  BY <1>2 DEF Users, Loading, TypeOK
<1>3. ASSUME OwnerStep PROVE \E b \in Buffers : Broken(b)
  <2>. USE DEF MayWrite
  <2>1. ASSUME NEW b \in Buffers, NEW v \in Values, Fill(b, v) PROVE Broken(b)
    BY <2>1, <1>1, <1>2 DEF Fill
  <2>2. ASSUME NEW b \in Buffers, Destroy(b) PROVE Broken(b)
    BY <2>2, <1>1, <1>2 DEF Destroy
  <2>. QED
    BY <1>3, <2>1, <2>2
    DEF OwnerStep, ConstructValue, ConstructDefault, ConstructPartial, Construct, AttachToFile,
        Allocate, Swap
<1>4. ASSUME NEW th \in Threads, BeginStep(th) PROVE FALSE
  BY <1>4 DEF BeginStep, BeginAt, BeginData, BeginSet, BeginAssign, BeginConstruct, Enter
<1>5. ASSUME NEW th \in Threads, LoadStep(th) PROVE \E b \in Buffers : Broken(b)
  <2>1. CASE TakeInfo(th)
    <3>1. /\ ~wild /\ buf[th] \in Buffers /\ mOutOfCore[buf[th]] /\ mPtr[buf[th]] # "info"
          /\ mMutex[buf[th]] = th
      BY <2>1 DEF TakeInfo, Goto, TypeOK, CallOK, LoadOK, MutexOK, Inside
    <3>2. Untouched(buf[th])
      BY <2>1, <3>1 DEF TakeInfo, MutexOK, Inside, CallOK, ExclusionOK, Reading, Copying, Loading,
          TypeOK, Ops
    <3>. QED
      BY <3>1, <3>2, <1>1
  <2>. QED
    BY <1>5, <2>1
    DEF LoadStep, CheckInCore, Lock, Recheck, AllocateForLoad, ReadValues, LoadThrows, ClearFlag,
        Unlock, Goto
<1>6. ASSUME NEW th \in Threads, AccessStep(th) PROVE FALSE
  BY <1>6 DEF AccessStep, Access, Store, LockNew, NewArray, Goto
<1>7. ASSUME NEW th \in Threads, CopyStep(th) PROVE \E b \in Buffers : Broken(b)
  <2>1. CASE DropOwn(th)
    <3>1. /\ ~wild /\ dst[th] \in Buffers /\ mOutOfCore[dst[th]] /\ mPtr[dst[th]] # "info"
      BY <2>1 DEF DropOwn, Goto, TypeOK, CallOK, Ops
    <3>2. Untouched(dst[th])
      BY <2>1, <3>1 DEF DropOwn, CallOK, ExclusionOK, Loading, TypeOK, Ops
    <3>. QED
      BY <3>1, <3>2, <1>1
  <2>2. CASE CopyInfo(th)
    <3>1. /\ ~wild /\ buf[th] \in Buffers /\ mOutOfCore[buf[th]] /\ mPtr[buf[th]] # "info"
      BY <2>2 DEF CopyInfo, Goto, TypeOK, CallOK, CopyOK
    <3>2. Untouched(buf[th])
      BY <2>2, <3>1 DEF CopyInfo, CallOK, ExclusionOK, Loading, Reading, Copying, TypeOK, Ops
    <3>. QED
      BY <3>1, <3>2, <1>1
  <2>. QED
    BY <1>7, <2>1, <2>2 DEF CopyStep, Decide, CopyFlag, CopyCells, Goto
<1>. QED
  BY <1>3, <1>4, <1>5, <1>6, <1>7 DEF Next, Step

-----------------------------------------------------------------------------
(* If, besides, every file can be read, what is out of core is an info.     *)

\* In the initial states nothing is out of core.
LEMMA InitUnion == Init => UnionOK
BY DEF Init, UnionOK, NotWild

\* Loading keeps the union in step.
LEMMA LoadStepUnion ==
    ASSUME Inv, Inv', UnionOK, Regular, NEW th \in Threads, LoadStep(th)
    PROVE  UnionOK'
<1>. USE BufferAssumption DEF Ops, Inv, Core, Shape, Goto, Busy, call, data, heap
<1>1. CASE CheckInCore(th)
  BY <1>1 DEF CheckInCore, UnionOK, NotWild, TypeOK, CallOK, ExclusionOK, AliveOK, MutexOK, FlagOK,
      InTransit, LoadOK, CopyOK, Loading, Reading, Copying, Inside
<1>2. CASE Lock(th)
  BY <1>2 DEF Lock, UnionOK, NotWild, TypeOK, CallOK, ExclusionOK, AliveOK, MutexOK, FlagOK,
      InTransit, LoadOK, CopyOK, Loading, Reading, Copying, Inside
<1>3. CASE Recheck(th)
  BY <1>3 DEF Recheck, UnionOK, NotWild, TypeOK, CallOK, ExclusionOK, AliveOK, MutexOK, FlagOK,
      InTransit, LoadOK, CopyOK, Loading, Reading, Copying, Inside
<1>4. CASE TakeInfo(th)
  BY <1>4 DEF TakeInfo, UnionOK, NotWild, TypeOK, CallOK, ExclusionOK, AliveOK, MutexOK, FlagOK,
      InTransit, LoadOK, CopyOK, Loading, Reading, Copying, Inside
<1>5. CASE AllocateForLoad(th)
  BY <1>5 DEF AllocateForLoad, UnionOK, NotWild, TypeOK, CallOK, ExclusionOK, AliveOK, MutexOK,
      FlagOK, InTransit, LoadOK, CopyOK, Loading, Reading, Copying, Inside
<1>6. CASE ReadValues(th)
  BY <1>6 DEF ReadValues, UnionOK, NotWild, TypeOK, CallOK, ExclusionOK, AliveOK, MutexOK, FlagOK,
      InTransit, LoadOK, CopyOK, Loading, Reading, Copying, Inside
<1>7. CASE ClearFlag(th)
  BY <1>7 DEF ClearFlag, UnionOK, NotWild, TypeOK, CallOK, ExclusionOK, AliveOK, MutexOK, FlagOK,
      InTransit, LoadOK, CopyOK, Loading, Reading, Copying, Inside
<1>8. CASE Unlock(th)
  BY <1>8 DEF Unlock, UnionOK, NotWild, TypeOK, CallOK, ExclusionOK, AliveOK, MutexOK, FlagOK,
      InTransit, LoadOK, CopyOK, Loading, Reading, Copying, Inside
<1>. QED
  BY <1>1, <1>2, <1>3, <1>4, <1>5, <1>6, <1>7, <1>8 DEF LoadStep, LoadThrows, Regular

\* The access that follows keeps the union in step.
LEMMA AccessStepUnion ==
    ASSUME Inv, Inv', UnionOK, Regular, NEW th \in Threads, AccessStep(th)
    PROVE  UnionOK'
<1>. USE BufferAssumption DEF Ops, Inv, Core, Shape, Goto, Busy, call, data, heap
<1>1. CASE Access(th)
  BY <1>1 DEF Access, UnionOK, NotWild, TypeOK, CallOK, ExclusionOK, AliveOK, MutexOK, FlagOK,
      InTransit, LoadOK, CopyOK, Loading, Reading, Copying, Inside
<1>2. CASE Store(th)
  BY <1>2 DEF Store, Overwritten, UnionOK, NotWild, TypeOK, CallOK, ExclusionOK, AliveOK, MutexOK, FlagOK,
      InTransit, LoadOK, CopyOK, Loading, Reading, Copying, Inside
<1>3. CASE LockNew(th)
  BY <1>3 DEF LockNew, UnionOK, NotWild, TypeOK, CallOK, ExclusionOK, AliveOK, MutexOK, FlagOK,
      InTransit, LoadOK, CopyOK, Loading, Reading, Copying, Inside
<1>4. CASE NewArray(th)
  BY <1>4 DEF NewArray, UnionOK, NotWild, TypeOK, CallOK, ExclusionOK, AliveOK, MutexOK, FlagOK,
      InTransit, LoadOK, CopyOK, Loading, Reading, Copying, Inside
<1>. QED
  BY <1>1, <1>2, <1>3, <1>4 DEF AccessStep

\* Copying keeps the union in step.
LEMMA CopyStepUnion ==
    ASSUME Inv, Inv', UnionOK, Regular, NEW th \in Threads, CopyStep(th)
    PROVE  UnionOK'
<1>. USE BufferAssumption DEF Ops, Inv, Core, Shape, Goto, Busy, call, data, heap
<1>1. CASE DropOwn(th)
  BY <1>1 DEF DropOwn, UnionOK, NotWild, TypeOK, CallOK, ExclusionOK, AliveOK, MutexOK, FlagOK,
      InTransit, LoadOK, CopyOK, Loading, Reading, Copying, Inside
<1>2. CASE Decide(th)
  BY <1>2 DEF Decide, UnionOK, NotWild, TypeOK, CallOK, ExclusionOK, AliveOK, MutexOK, FlagOK,
      InTransit, LoadOK, CopyOK, Loading, Reading, Copying, Inside
<1>3. CASE CopyFlag(th)
  BY <1>3 DEF CopyFlag, UnionOK, NotWild, TypeOK, CallOK, ExclusionOK, AliveOK, MutexOK, FlagOK,
      InTransit, LoadOK, CopyOK, Loading, Reading, Copying, Inside
<1>4. CASE CopyInfo(th)
  BY <1>4 DEF CopyInfo, UnionOK, NotWild, TypeOK, CallOK, ExclusionOK, AliveOK, MutexOK, FlagOK,
      InTransit, LoadOK, CopyOK, Loading, Reading, Copying, Inside
<1>5. CASE CopyCells(th)
  BY <1>5 DEF CopyCells, UnionOK, NotWild, TypeOK, CallOK, ExclusionOK, AliveOK, MutexOK, FlagOK,
      InTransit, LoadOK, CopyOK, Loading, Reading, Copying, Inside
<1>. QED
  BY <1>1, <1>2, <1>3, <1>4, <1>5 DEF CopyStep

\* Entering a call keeps the union in step.
LEMMA BeginStepUnion ==
    ASSUME Inv, Inv', UnionOK, Regular, NEW th \in Threads, BeginStep(th)
    PROVE  UnionOK'
<1>. USE BufferAssumption DEF Ops, Inv, Core, Shape, Enter, MayRead, MayWrite, MayCopy, Owners,
    Users, Unshared, Busy, call, data, heap
<1>1. ASSUME NEW b \in Buffers, BeginAt(th, b)
      PROVE  UnionOK'
  BY <1>1 DEF BeginAt, UnionOK, NotWild, TypeOK, CallOK, ExclusionOK, AliveOK, MutexOK, FlagOK,
      InTransit, LoadOK, CopyOK, Loading, Reading, Copying, Inside
<1>2. ASSUME NEW b \in Buffers, BeginData(th, b)
      PROVE  UnionOK'
  BY <1>2 DEF BeginData, UnionOK, NotWild, TypeOK, CallOK, ExclusionOK, AliveOK, MutexOK, FlagOK,
      InTransit, LoadOK, CopyOK, Loading, Reading, Copying, Inside
<1>3. ASSUME NEW b \in Buffers, NEW v \in Values, BeginSet(th, b, v)
      PROVE  UnionOK'
  BY <1>3 DEF BeginSet, UnionOK, NotWild, TypeOK, CallOK, ExclusionOK, AliveOK, MutexOK, FlagOK,
      InTransit, LoadOK, CopyOK, Loading, Reading, Copying, Inside
<1>4. ASSUME NEW d \in Buffers, NEW b \in Buffers, BeginAssign(th, d, b)
      PROVE  UnionOK'
  BY <1>4 DEF BeginAssign, UnionOK, NotWild, TypeOK, CallOK, ExclusionOK, AliveOK, MutexOK, FlagOK,
      InTransit, LoadOK, CopyOK, Loading, Reading, Copying, Inside
<1>5. ASSUME NEW d \in Buffers, NEW b \in Buffers, BeginConstruct(th, d, b)
      PROVE  UnionOK'
  BY <1>5 DEF BeginConstruct, UnionOK, NotWild, TypeOK, CallOK, ExclusionOK, AliveOK, MutexOK,
      FlagOK, InTransit, LoadOK, CopyOK, Loading, Reading, Copying, Inside
<1>. QED
  BY <1>1, <1>2, <1>3, <1>4, <1>5 DEF BeginStep

\* An operation of an owner keeps the union in step.
LEMMA OwnerStepUnion ==
    ASSUME Inv, Inv', UnionOK, Regular, OwnerStep
    PROVE  UnionOK'
<1>. USE BufferAssumption DEF Ops, Inv, Core, Shape, MayWrite, Empty, Busy, call, data, heap
<1>1. ASSUME NEW b \in Buffers, NEW v \in Values, ConstructValue(b, v)
      PROVE  UnionOK'
  <2>a. \A u \in Threads : Busy(u) => buf[u] # b /\ dst[u] # b
    BY <1>1 DEF ConstructValue, Construct, Users
  <2>1. UnionOK'
    BY <1>1, <2>a DEF ConstructValue, Construct, UnionOK, NotWild, TypeOK, CallOK, ExclusionOK,
        AliveOK, MutexOK, FlagOK, InTransit, LoadOK, CopyOK, Loading, Reading, Copying, Inside
  <2>. QED
    BY <2>1
<1>2. ASSUME NEW b \in Buffers, ConstructDefault(b)
      PROVE  UnionOK'
  <2>a. \A u \in Threads : Busy(u) => buf[u] # b /\ dst[u] # b
    BY <1>2 DEF ConstructDefault, Construct, Users
  <2>1. UnionOK'
    BY <1>2, <2>a DEF ConstructDefault, Construct, UnionOK, NotWild, TypeOK, CallOK, ExclusionOK,
        AliveOK, MutexOK, FlagOK, InTransit, LoadOK, CopyOK, Loading, Reading, Copying, Inside
  <2>. QED
    BY <2>1
<1>3. ASSUME NEW b \in Buffers, ConstructPartial(b)
      PROVE  UnionOK'
  <2>a. \A u \in Threads : Busy(u) => buf[u] # b /\ dst[u] # b
    BY <1>3 DEF ConstructPartial, Construct, Users
  <2>1. UnionOK'
    BY <1>3, <2>a DEF ConstructPartial, Construct, UnionOK, NotWild, TypeOK, CallOK, ExclusionOK,
        AliveOK, MutexOK, FlagOK, InTransit, LoadOK, CopyOK, Loading, Reading, Copying, Inside
  <2>. QED
    BY <2>1
<1>4. ASSUME NEW b \in Buffers, NEW v \in Values, AttachToFile(b, v)
      PROVE  UnionOK'
  <2>a. \A u \in Threads : Busy(u) => buf[u] # b /\ dst[u] # b
    BY <1>4 DEF AttachToFile, Users
  <2>1. UnionOK'
    BY <1>4, <2>a DEF AttachToFile, UnionOK, NotWild, TypeOK, CallOK, ExclusionOK, AliveOK, MutexOK,
        FlagOK, InTransit, LoadOK, CopyOK, Loading, Reading, Copying, Inside
  <2>. QED
    BY <2>1
<1>5. ASSUME NEW b \in Buffers, Allocate(b)
      PROVE  UnionOK'
  <2>a. \A u \in Threads : Busy(u) => buf[u] # b /\ dst[u] # b
    BY <1>5 DEF Allocate, Users
  <2>1. UnionOK'
    BY <1>5, <2>a DEF Allocate, UnionOK, NotWild, TypeOK, CallOK, ExclusionOK, AliveOK, MutexOK,
        FlagOK, InTransit, LoadOK, CopyOK, Loading, Reading, Copying, Inside
  <2>. QED
    BY <2>1
<1>6. ASSUME NEW b \in Buffers, NEW v \in Values, Fill(b, v)
      PROVE  UnionOK'
  <2>a. \A u \in Threads : Busy(u) => buf[u] # b /\ dst[u] # b
    BY <1>6 DEF Fill, Users
  <2>1. UnionOK'
    BY <1>6, <2>a DEF Fill, Overwritten, UnionOK, NotWild, TypeOK, CallOK, ExclusionOK, AliveOK, MutexOK, FlagOK,
        InTransit, LoadOK, CopyOK, Loading, Reading, Copying, Inside
  <2>. QED
    BY <2>1
<1>7. ASSUME NEW b \in Buffers, NEW c \in Buffers, Swap(b, c)
      PROVE  UnionOK'
  <2>a. \A u \in Threads : Busy(u) => buf[u] # b /\ dst[u] # b
    BY <1>7 DEF Swap, Users
  <2>b. \A u \in Threads : Busy(u) => buf[u] # c /\ dst[u] # c
    BY <1>7 DEF Swap, Users
  <2>1. UnionOK'
    BY <1>7, <2>a, <2>b DEF Swap, UnionOK, NotWild, TypeOK, CallOK, ExclusionOK, AliveOK, MutexOK,
        FlagOK, InTransit, LoadOK, CopyOK, Loading, Reading, Copying, Inside
  <2>. QED
    BY <2>1
<1>8. ASSUME NEW b \in Buffers, Destroy(b)
      PROVE  UnionOK'
  <2>a. \A u \in Threads : Busy(u) => buf[u] # b /\ dst[u] # b
    BY <1>8 DEF Destroy, Users
  <2>1. UnionOK'
    BY <1>8, <2>a DEF Destroy, UnionOK, NotWild, TypeOK, CallOK, ExclusionOK, AliveOK, MutexOK,
        FlagOK, InTransit, LoadOK, CopyOK, Loading, Reading, Copying, Inside
  <2>. QED
    BY <2>1
<1>. QED
  BY <1>1, <1>2, <1>3, <1>4, <1>5, <1>6, <1>7, <1>8 DEF OwnerStep

\* So does every step of the specification.
LEMMA NextUnion ==
    ASSUME Inv, Inv', UnionOK, Regular, [Next]_vars
    PROVE  UnionOK'
<1>1. CASE UNCHANGED vars
  BY <1>1 DEF UnionOK, NotWild, InTransit, vars, data, heap, call
<1>2. CASE OwnerStep
  BY <1>2, OwnerStepUnion
<1>3. ASSUME NEW th \in Threads, BeginStep(th) PROVE UnionOK'
  BY <1>3, BeginStepUnion
<1>4. ASSUME NEW th \in Threads, Step(th) PROVE UnionOK'
  BY <1>4, LoadStepUnion, AccessStepUnion, CopyStepUnion DEF Step
<1>. QED
  BY <1>1, <1>2, <1>3, <1>4 DEF Next

-----------------------------------------------------------------------------
(* So is, besides, that the content is where the flag says.                 *)

\* That holds in the initial states, where nothing is alive.
LEMMA InitContent == Init => HeldOK /\ SourceOK
BY DEF Init, HeldOK, SourceOK, Busy

\* Loading preserves what is said of contents.
LEMMA LoadStepContent ==
    ASSUME Inv, Inv', HeldOK, SourceOK, Unshared, Sensible, NEW th \in Threads, LoadStep(th)
    PROVE  HeldOK' /\ SourceOK'
<1>. USE BufferAssumption DEF Ops, Inv, Core, Shape, Goto, Busy, call, data, heap, Inside, Loading,
    Reading, Copying, Contents
<1>1. CASE CheckInCore(th)
  <2>1. HeldOK'
    BY <1>1 DEF CheckInCore, HeldOK, SourceOK, Settled, Held, Value, TypeOK, CallOK, ExclusionOK,
        AliveOK, MutexOK, FlagOK, InTransit, LoadOK, CopyOK
  <2>2. SourceOK'
    BY <1>1 DEF CheckInCore, SourceOK, HeldOK, Settled, Held, Value, TypeOK, CallOK, ExclusionOK,
        AliveOK, MutexOK, FlagOK, InTransit, LoadOK, CopyOK
  <2>. QED
    BY <2>1, <2>2
<1>2. CASE Lock(th)
  <2>1. HeldOK'
    BY <1>2 DEF Lock, HeldOK, SourceOK, Settled, Held, Value, TypeOK, CallOK, ExclusionOK, AliveOK,
        MutexOK, FlagOK, InTransit, LoadOK, CopyOK
  <2>2. SourceOK'
    BY <1>2 DEF Lock, SourceOK, HeldOK, Settled, Held, Value, TypeOK, CallOK, ExclusionOK, AliveOK,
        MutexOK, FlagOK, InTransit, LoadOK, CopyOK
  <2>. QED
    BY <2>1, <2>2
<1>3. CASE Recheck(th)
  <2>1. HeldOK'
    BY <1>3 DEF Recheck, HeldOK, SourceOK, Settled, Held, Value, TypeOK, CallOK, ExclusionOK,
        AliveOK, MutexOK, FlagOK, InTransit, LoadOK, CopyOK
  <2>2. SourceOK'
    BY <1>3 DEF Recheck, SourceOK, HeldOK, Settled, Held, Value, TypeOK, CallOK, ExclusionOK,
        AliveOK, MutexOK, FlagOK, InTransit, LoadOK, CopyOK
  <2>. QED
    BY <2>1, <2>2
<1>4. CASE TakeInfo(th)
  <2>1. HeldOK'
    BY <1>4 DEF TakeInfo, HeldOK, SourceOK, Settled, Held, Value, TypeOK, CallOK, ExclusionOK,
        AliveOK, MutexOK, FlagOK, InTransit, LoadOK, CopyOK
  <2>2. SourceOK'
    BY <1>4 DEF TakeInfo, SourceOK, HeldOK, Settled, Held, Value, TypeOK, CallOK, ExclusionOK,
        AliveOK, MutexOK, FlagOK, InTransit, LoadOK, CopyOK
  <2>. QED
    BY <2>1, <2>2
<1>5. CASE AllocateForLoad(th)
  <2>1. HeldOK'
    BY <1>5 DEF AllocateForLoad, HeldOK, SourceOK, Settled, Held, Value, TypeOK, CallOK,
        ExclusionOK, AliveOK, MutexOK, FlagOK, InTransit, LoadOK, CopyOK
  <2>2. SourceOK'
    BY <1>5 DEF AllocateForLoad, SourceOK, HeldOK, Settled, Held, Value, TypeOK, CallOK,
        ExclusionOK, AliveOK, MutexOK, FlagOK, InTransit, LoadOK, CopyOK
  <2>. QED
    BY <2>1, <2>2
<1>6. CASE ReadValues(th)
  <2>1. HeldOK'
    BY <1>6 DEF ReadValues, HeldOK, SourceOK, Settled, Held, Value, TypeOK, CallOK, ExclusionOK,
        AliveOK, MutexOK, FlagOK, InTransit, LoadOK, CopyOK
  <2>2. SourceOK'
    BY <1>6 DEF ReadValues, SourceOK, HeldOK, Settled, Held, Value, TypeOK, CallOK, ExclusionOK,
        AliveOK, MutexOK, FlagOK, InTransit, LoadOK, CopyOK
  <2>. QED
    BY <2>1, <2>2
<1>7. CASE ClearFlag(th)
  <2>1. HeldOK'
    BY <1>7 DEF ClearFlag, HeldOK, SourceOK, Settled, Held, Value, TypeOK, CallOK, ExclusionOK,
        AliveOK, MutexOK, FlagOK, InTransit, LoadOK, CopyOK
  <2>2. SourceOK'
    BY <1>7 DEF ClearFlag, SourceOK, HeldOK, Settled, Held, Value, TypeOK, CallOK, ExclusionOK,
        AliveOK, MutexOK, FlagOK, InTransit, LoadOK, CopyOK
  <2>. QED
    BY <2>1, <2>2
<1>8. CASE Unlock(th)
  <2>1. HeldOK'
    BY <1>8 DEF Unlock, HeldOK, SourceOK, Settled, Held, Value, TypeOK, CallOK, ExclusionOK,
        AliveOK, MutexOK, FlagOK, InTransit, LoadOK, CopyOK
  <2>2. SourceOK'
    BY <1>8 DEF Unlock, SourceOK, HeldOK, Settled, Held, Value, TypeOK, CallOK, ExclusionOK,
        AliveOK, MutexOK, FlagOK, InTransit, LoadOK, CopyOK
  <2>. QED
    BY <2>1, <2>2
<1>9. CASE LoadThrows(th)
  <2>1. HeldOK'
    BY <1>9 DEF LoadThrows, HeldOK, Settled, Held, Value, TypeOK, CallOK
  <2>2. SourceOK'
    BY <1>9 DEF LoadThrows, SourceOK, TypeOK, CallOK
  <2>. QED
    BY <2>1, <2>2
<1>. QED
  BY <1>1, <1>2, <1>3, <1>4, <1>5, <1>6, <1>7, <1>8, <1>9 DEF LoadStep

\* The access that follows preserves what is said of contents.
LEMMA AccessStepContent ==
    ASSUME Inv, Inv', HeldOK, SourceOK, Unshared, Sensible, NEW th \in Threads, AccessStep(th)
    PROVE  HeldOK' /\ SourceOK'
<1>. USE BufferAssumption DEF Ops, Inv, Core, Shape, Goto, Busy, call, data, heap, Inside, Loading,
    Reading, Copying, Contents
<1>1. CASE Access(th)
  <2>1. HeldOK'
    BY <1>1 DEF Access, HeldOK, SourceOK, Settled, Held, Value, TypeOK, CallOK, ExclusionOK,
        AliveOK, MutexOK, FlagOK, InTransit, LoadOK, CopyOK
  <2>2. SourceOK'
    BY <1>1 DEF Access, SourceOK, HeldOK, Settled, Held, Value, TypeOK, CallOK, ExclusionOK,
        AliveOK, MutexOK, FlagOK, InTransit, LoadOK, CopyOK
  <2>. QED
    BY <2>1, <2>2
<1>2. CASE Store(th)
  <2>1. HeldOK'
    BY <1>2 DEF Store, Overwritten, HeldOK, SourceOK, Settled, Held, Value, TypeOK, CallOK, ExclusionOK, AliveOK,
        MutexOK, FlagOK, InTransit, LoadOK, CopyOK
  <2>2. SourceOK'
    BY <1>2 DEF Store, Overwritten, SourceOK, HeldOK, Settled, Held, Value, TypeOK, CallOK, ExclusionOK, AliveOK,
        MutexOK, FlagOK, InTransit, LoadOK, CopyOK
  <2>. QED
    BY <2>1, <2>2
<1>3. CASE LockNew(th)
  <2>1. HeldOK'
    BY <1>3 DEF LockNew, HeldOK, SourceOK, Settled, Held, Value, TypeOK, CallOK, ExclusionOK,
        AliveOK, MutexOK, FlagOK, InTransit, LoadOK, CopyOK
  <2>2. SourceOK'
    BY <1>3 DEF LockNew, SourceOK, HeldOK, Settled, Held, Value, TypeOK, CallOK, ExclusionOK,
        AliveOK, MutexOK, FlagOK, InTransit, LoadOK, CopyOK
  <2>. QED
    BY <2>1, <2>2
<1>4. CASE NewArray(th)
  <2>1. HeldOK'
    BY <1>4 DEF NewArray, HeldOK, SourceOK, Settled, Held, Value, TypeOK, CallOK, ExclusionOK,
        AliveOK, MutexOK, FlagOK, InTransit, LoadOK, CopyOK
  <2>2. SourceOK'
    BY <1>4 DEF NewArray, SourceOK, HeldOK, Settled, Held, Value, TypeOK, CallOK, ExclusionOK,
        AliveOK, MutexOK, FlagOK, InTransit, LoadOK, CopyOK
  <2>. QED
    BY <2>1, <2>2
<1>. QED
  BY <1>1, <1>2, <1>3, <1>4 DEF AccessStep

\* Copying preserves what is said of contents.
LEMMA CopyStepContent ==
    ASSUME Inv, Inv', HeldOK, SourceOK, Unshared, Sensible, NEW th \in Threads, CopyStep(th)
    PROVE  HeldOK' /\ SourceOK'
<1>. USE BufferAssumption DEF Ops, Inv, Core, Shape, Goto, Busy, call, data, heap, Inside, Loading,
    Reading, Copying, Contents
<1>1. CASE DropOwn(th)
  <2>1. HeldOK'
    BY <1>1 DEF DropOwn, HeldOK, SourceOK, Settled, Held, Value, TypeOK, CallOK, ExclusionOK,
        AliveOK, MutexOK, FlagOK, InTransit, LoadOK, CopyOK
  <2>2. SourceOK'
    BY <1>1 DEF DropOwn, SourceOK, HeldOK, Settled, Held, Value, TypeOK, CallOK, ExclusionOK,
        AliveOK, MutexOK, FlagOK, InTransit, LoadOK, CopyOK
  <2>. QED
    BY <2>1, <2>2
<1>2. CASE Decide(th)
  <2>1. HeldOK'
    BY <1>2 DEF Decide, HeldOK, SourceOK, Settled, Held, Value, TypeOK, CallOK, ExclusionOK,
        AliveOK, MutexOK, FlagOK, InTransit, LoadOK, CopyOK
  <2>2. SourceOK'
    BY <1>2 DEF Decide, SourceOK, HeldOK, Settled, Held, Value, TypeOK, CallOK, ExclusionOK,
        AliveOK, MutexOK, FlagOK, InTransit, LoadOK, CopyOK
  <2>. QED
    BY <2>1, <2>2
<1>3. CASE CopyFlag(th)
  <2>1. HeldOK'
    BY <1>3 DEF CopyFlag, HeldOK, SourceOK, Settled, Held, Value, TypeOK, CallOK, ExclusionOK,
        AliveOK, MutexOK, FlagOK, InTransit, LoadOK, CopyOK
  <2>2. SourceOK'
    BY <1>3 DEF CopyFlag, SourceOK, HeldOK, Settled, Held, Value, TypeOK, CallOK, ExclusionOK,
        AliveOK, MutexOK, FlagOK, InTransit, LoadOK, CopyOK
  <2>. QED
    BY <2>1, <2>2
<1>4. CASE CopyInfo(th)
  <2>1. HeldOK'
    BY <1>4 DEF CopyInfo, HeldOK, SourceOK, Settled, Held, Value, TypeOK, CallOK, ExclusionOK,
        AliveOK, MutexOK, FlagOK, InTransit, LoadOK, CopyOK
  <2>2. SourceOK'
    BY <1>4 DEF CopyInfo, SourceOK, HeldOK, Settled, Held, Value, TypeOK, CallOK, ExclusionOK,
        AliveOK, MutexOK, FlagOK, InTransit, LoadOK, CopyOK
  <2>. QED
    BY <2>1, <2>2
<1>5. CASE CopyCells(th)
  <2>1. HeldOK'
    <3>. DEFINE d == dst[th]
                b == buf[th]
    <3>1. /\ d \in Buffers /\ b \in Buffers /\ d # b /\ alive[b] /\ ~mOutOfCore[b] /\ ~mOutOfCore[d]
          /\ op[th] \in {"assign", "construct"}
      BY <1>5 DEF CopyCells, TypeOK, CallOK, AliveOK, CopyOK
    <3>2. \A u \in Threads \ {th} : Busy(u) => buf[u] # d /\ dst[u] # d /\ dst[u] # b
      BY <1>5, <3>1 DEF CopyCells, TypeOK, CallOK, ExclusionOK
    <3>3. Settled(b)
      BY <1>5, <3>1, <3>2 DEF CopyCells, Settled, CallOK
    <3>4. Value(b) = logical[b]
      BY <1>5, <3>1, <3>3 DEF CopyCells, HeldOK, Held
    <3>5. mPtr[b] = "null" => mPtr[d] = "null"
      BY <1>5, <3>1 DEF CopyCells, SourceOK, CallOK, CopyOK
    <3>6. Value(d)' = logical'[d]
      BY <1>5, <3>1, <3>4, <3>5 DEF CopyCells, Value, TypeOK
    <3>7. ASSUME NEW c \in Buffers \ {d}, Settled(c)' PROVE Settled(c)
      BY <1>5, <3>1, <3>7 DEF CopyCells, Settled, TypeOK, CallOK
    <3>8. ASSUME NEW c \in Buffers \ {d} PROVE Value(c)' = Value(c) /\ logical'[c] = logical[c]
      BY <1>5, <3>1, <3>8 DEF CopyCells, Value, TypeOK
    <3>. QED
      BY <1>5, <3>1, <3>6, <3>7, <3>8 DEF CopyCells, HeldOK, Held, TypeOK
  <2>2. SourceOK'
    BY <1>5 DEF CopyCells, SourceOK, HeldOK, Settled, Held, Value, TypeOK, CallOK, ExclusionOK,
        AliveOK, MutexOK, FlagOK, InTransit, LoadOK, CopyOK
  <2>. QED
    BY <2>1, <2>2
<1>. QED
  BY <1>1, <1>2, <1>3, <1>4, <1>5 DEF CopyStep

\* Entering a call preserves what is said of contents.
LEMMA BeginStepContent ==
    ASSUME Inv, Inv', HeldOK, SourceOK, Unshared, Sensible, NEW th \in Threads, BeginStep(th)
    PROVE  HeldOK' /\ SourceOK'
<1>. USE BufferAssumption DEF Ops, Inv, Core, Shape, Enter, MayRead, MayWrite, MayCopy, Owners,
    Users, Unshared, Sensible, Busy, call, data, heap, Inside, Loading, Reading, Copying, Contents
<1>1. ASSUME NEW b \in Buffers, BeginAt(th, b)
      PROVE  HeldOK' /\ SourceOK'
  <2>1. HeldOK'
    BY <1>1 DEF BeginAt, HeldOK, SourceOK, Settled, Held, Value, TypeOK, CallOK, ExclusionOK,
        AliveOK, MutexOK, FlagOK, InTransit, LoadOK, CopyOK
  <2>2. SourceOK'
    BY <1>1 DEF BeginAt, SourceOK, HeldOK, Settled, Held, Value, TypeOK, CallOK, ExclusionOK,
        AliveOK, MutexOK, FlagOK, InTransit, LoadOK, CopyOK
  <2>. QED
    BY <2>1, <2>2
<1>2. ASSUME NEW b \in Buffers, BeginData(th, b)
      PROVE  HeldOK' /\ SourceOK'
  <2>1. HeldOK'
    BY <1>2 DEF BeginData, HeldOK, SourceOK, Settled, Held, Value, TypeOK, CallOK, ExclusionOK,
        AliveOK, MutexOK, FlagOK, InTransit, LoadOK, CopyOK
  <2>2. SourceOK'
    BY <1>2 DEF BeginData, SourceOK, HeldOK, Settled, Held, Value, TypeOK, CallOK, ExclusionOK,
        AliveOK, MutexOK, FlagOK, InTransit, LoadOK, CopyOK
  <2>. QED
    BY <2>1, <2>2
<1>3. ASSUME NEW b \in Buffers, NEW v \in Values, BeginSet(th, b, v)
      PROVE  HeldOK' /\ SourceOK'
  <2>1. HeldOK'
    BY <1>3 DEF BeginSet, HeldOK, SourceOK, Settled, Held, Value, TypeOK, CallOK, ExclusionOK,
        AliveOK, MutexOK, FlagOK, InTransit, LoadOK, CopyOK
  <2>2. SourceOK'
    BY <1>3 DEF BeginSet, SourceOK, HeldOK, Settled, Held, Value, TypeOK, CallOK, ExclusionOK,
        AliveOK, MutexOK, FlagOK, InTransit, LoadOK, CopyOK
  <2>. QED
    BY <2>1, <2>2
<1>4. ASSUME NEW d \in Buffers, NEW b \in Buffers, BeginAssign(th, d, b)
      PROVE  HeldOK' /\ SourceOK'
  <2>1. HeldOK'
    BY <1>4 DEF BeginAssign, HeldOK, SourceOK, Settled, Held, Value, TypeOK, CallOK, ExclusionOK,
        AliveOK, MutexOK, FlagOK, InTransit, LoadOK, CopyOK
  <2>2. SourceOK'
    BY <1>4 DEF BeginAssign, SourceOK, HeldOK, Settled, Held, Value, TypeOK, CallOK, ExclusionOK,
        AliveOK, MutexOK, FlagOK, InTransit, LoadOK, CopyOK
  <2>. QED
    BY <2>1, <2>2
<1>5. ASSUME NEW d \in Buffers, NEW b \in Buffers, BeginConstruct(th, d, b)
      PROVE  HeldOK' /\ SourceOK'
  <2>1. HeldOK'
    BY <1>5 DEF BeginConstruct, HeldOK, SourceOK, Settled, Held, Value, TypeOK, CallOK, ExclusionOK,
        AliveOK, MutexOK, FlagOK, InTransit, LoadOK, CopyOK
  <2>2. SourceOK'
    BY <1>5 DEF BeginConstruct, SourceOK, HeldOK, Settled, Held, Value, TypeOK, CallOK, ExclusionOK,
        AliveOK, MutexOK, FlagOK, InTransit, LoadOK, CopyOK
  <2>. QED
    BY <2>1, <2>2
<1>. QED
  BY <1>1, <1>2, <1>3, <1>4, <1>5 DEF BeginStep

\* An operation of an owner preserves what is said of contents.
LEMMA OwnerStepContent ==
    ASSUME Inv, Inv', HeldOK, SourceOK, Unshared, Sensible, OwnerStep
    PROVE  HeldOK' /\ SourceOK'
<1>. USE BufferAssumption DEF Ops, Inv, Core, Shape, MayWrite, Empty, Busy, call, data, heap,
    Inside, Loading, Reading, Copying, Contents
<1>1. ASSUME NEW b \in Buffers, NEW v \in Values, ConstructValue(b, v)
      PROVE  HeldOK' /\ SourceOK'
  <2>a. \A u \in Threads : Busy(u) => buf[u] # b /\ dst[u] # b
    BY <1>1 DEF ConstructValue, Construct, Users
  <2>1. HeldOK'
    BY <1>1, <2>a DEF ConstructValue, Construct, HeldOK, SourceOK, Settled, Held, Value, TypeOK,
        CallOK, ExclusionOK, AliveOK, MutexOK, FlagOK, InTransit, LoadOK, CopyOK
  <2>2. SourceOK'
    BY <1>1, <2>a DEF ConstructValue, Construct, SourceOK, HeldOK, Settled, Held, Value, TypeOK,
        CallOK, ExclusionOK, AliveOK, MutexOK, FlagOK, InTransit, LoadOK, CopyOK
  <2>. QED
    BY <2>1, <2>2
<1>2. ASSUME NEW b \in Buffers, ConstructDefault(b)
      PROVE  HeldOK' /\ SourceOK'
  <2>a. \A u \in Threads : Busy(u) => buf[u] # b /\ dst[u] # b
    BY <1>2 DEF ConstructDefault, Construct, Users
  <2>1. HeldOK'
    BY <1>2, <2>a DEF ConstructDefault, Construct, HeldOK, SourceOK, Settled, Held, Value, TypeOK,
        CallOK, ExclusionOK, AliveOK, MutexOK, FlagOK, InTransit, LoadOK, CopyOK
  <2>2. SourceOK'
    BY <1>2, <2>a DEF ConstructDefault, Construct, SourceOK, HeldOK, Settled, Held, Value, TypeOK,
        CallOK, ExclusionOK, AliveOK, MutexOK, FlagOK, InTransit, LoadOK, CopyOK
  <2>. QED
    BY <2>1, <2>2
<1>3. ASSUME NEW b \in Buffers, ConstructPartial(b)
      PROVE  HeldOK' /\ SourceOK'
  <2>a. \A u \in Threads : Busy(u) => buf[u] # b /\ dst[u] # b
    BY <1>3 DEF ConstructPartial, Construct, Users
  <2>1. HeldOK'
    BY <1>3, <2>a DEF ConstructPartial, Construct, HeldOK, SourceOK, Settled, Held, Value, TypeOK,
        CallOK, ExclusionOK, AliveOK, MutexOK, FlagOK, InTransit, LoadOK, CopyOK
  <2>2. SourceOK'
    BY <1>3, <2>a DEF ConstructPartial, Construct, SourceOK, HeldOK, Settled, Held, Value, TypeOK,
        CallOK, ExclusionOK, AliveOK, MutexOK, FlagOK, InTransit, LoadOK, CopyOK
  <2>. QED
    BY <2>1, <2>2
<1>4. ASSUME NEW b \in Buffers, NEW v \in Values, AttachToFile(b, v)
      PROVE  HeldOK' /\ SourceOK'
  <2>a. \A u \in Threads : Busy(u) => buf[u] # b /\ dst[u] # b
    BY <1>4 DEF AttachToFile, Users
  <2>1. HeldOK'
    BY <1>4, <2>a DEF AttachToFile, HeldOK, SourceOK, Settled, Held, Value, TypeOK, CallOK,
        ExclusionOK, AliveOK, MutexOK, FlagOK, InTransit, LoadOK, CopyOK
  <2>2. SourceOK'
    BY <1>4, <2>a DEF AttachToFile, SourceOK, HeldOK, Settled, Held, Value, TypeOK, CallOK,
        ExclusionOK, AliveOK, MutexOK, FlagOK, InTransit, LoadOK, CopyOK
  <2>. QED
    BY <2>1, <2>2
<1>5. ASSUME NEW b \in Buffers, Allocate(b)
      PROVE  HeldOK' /\ SourceOK'
  <2>a. \A u \in Threads : Busy(u) => buf[u] # b /\ dst[u] # b
    BY <1>5 DEF Allocate, Users
  <2>1. HeldOK'
    BY <1>5, <2>a DEF Allocate, HeldOK, SourceOK, Settled, Held, Value, TypeOK, CallOK, ExclusionOK,
        AliveOK, MutexOK, FlagOK, InTransit, LoadOK, CopyOK
  <2>2. SourceOK'
    BY <1>5, <2>a DEF Allocate, SourceOK, HeldOK, Settled, Held, Value, TypeOK, CallOK, ExclusionOK,
        AliveOK, MutexOK, FlagOK, InTransit, LoadOK, CopyOK
  <2>. QED
    BY <2>1, <2>2
<1>6. ASSUME NEW b \in Buffers, NEW v \in Values, Fill(b, v)
      PROVE  HeldOK' /\ SourceOK'
  <2>a. \A u \in Threads : Busy(u) => buf[u] # b /\ dst[u] # b
    BY <1>6 DEF Fill, Users
  <2>1. HeldOK'
    BY <1>6, <2>a DEF Fill, Overwritten, Sensible, HeldOK, SourceOK, Settled, Held, Value, TypeOK, CallOK,
        ExclusionOK, AliveOK, MutexOK, FlagOK, InTransit, LoadOK, CopyOK
  <2>2. SourceOK'
    BY <1>6, <2>a DEF Fill, Overwritten, Sensible, SourceOK, HeldOK, Settled, Held, Value, TypeOK, CallOK,
        ExclusionOK, AliveOK, MutexOK, FlagOK, InTransit, LoadOK, CopyOK
  <2>. QED
    BY <2>1, <2>2
<1>7. ASSUME NEW b \in Buffers, NEW c \in Buffers, Swap(b, c)
      PROVE  HeldOK' /\ SourceOK'
  <2>a. \A u \in Threads : Busy(u) => buf[u] # b /\ dst[u] # b
    BY <1>7 DEF Swap, Users
  <2>b. \A u \in Threads : Busy(u) => buf[u] # c /\ dst[u] # c
    BY <1>7 DEF Swap, Users
  <2>1. HeldOK'
    BY <1>7, <2>a, <2>b DEF Swap, HeldOK, SourceOK, Settled, Held, Value, TypeOK, CallOK,
        ExclusionOK, AliveOK, MutexOK, FlagOK, InTransit, LoadOK, CopyOK
  <2>2. SourceOK'
    BY <1>7, <2>a, <2>b DEF Swap, SourceOK, HeldOK, Settled, Held, Value, TypeOK, CallOK,
        ExclusionOK, AliveOK, MutexOK, FlagOK, InTransit, LoadOK, CopyOK
  <2>. QED
    BY <2>1, <2>2
<1>8. ASSUME NEW b \in Buffers, Destroy(b)
      PROVE  HeldOK' /\ SourceOK'
  <2>a. \A u \in Threads : Busy(u) => buf[u] # b /\ dst[u] # b
    BY <1>8 DEF Destroy, Users
  <2>1. HeldOK'
    BY <1>8, <2>a DEF Destroy, HeldOK, SourceOK, Settled, Held, Value, TypeOK, CallOK, ExclusionOK,
        AliveOK, MutexOK, FlagOK, InTransit, LoadOK, CopyOK
  <2>2. SourceOK'
    BY <1>8, <2>a DEF Destroy, SourceOK, HeldOK, Settled, Held, Value, TypeOK, CallOK, ExclusionOK,
        AliveOK, MutexOK, FlagOK, InTransit, LoadOK, CopyOK
  <2>. QED
    BY <2>1, <2>2
<1>. QED
  BY <1>1, <1>2, <1>3, <1>4, <1>5, <1>6, <1>7, <1>8 DEF OwnerStep

\* So does every step of the specification.
LEMMA NextContent ==
    ASSUME Inv, Inv', HeldOK, SourceOK, Unshared, Sensible, [Next]_vars
    PROVE  HeldOK' /\ SourceOK'
<1>1. CASE UNCHANGED vars
  BY <1>1 DEF HeldOK, SourceOK, Settled, Held, Value, Busy, vars, data, heap, call
<1>2. CASE OwnerStep
  BY <1>2, OwnerStepContent
<1>3. ASSUME NEW th \in Threads, BeginStep(th) PROVE HeldOK' /\ SourceOK'
  BY <1>3, BeginStepContent
<1>4. ASSUME NEW th \in Threads, Step(th) PROVE HeldOK' /\ SourceOK'
  BY <1>4, LoadStepContent, AccessStepContent, CopyStepContent DEF Step
<1>. QED
  BY <1>1, <1>2, <1>3, <1>4 DEF Next

-----------------------------------------------------------------------------
(* Theorems                                                                *)

\* Type correctness, for any number of threads and buffers, whatever the
\* client does and whatever fails.
THEOREM TypeSafe == Spec => []TypeOK
<1>1. Core => TypeOK
  BY DEF Core
<1>. QED
  BY InitCore, NextCore, <1>1, PTL DEF Spec

\* Nobody waits for a spin mutex that is held outside its critical section:
\* its scoped lock is released on every way out of doLoad() and allocate(),
\* by exception too.
THEOREM MutexInside == Spec => []MutexHeldInside
<1>1. Core => MutexHeldInside
  BY DEF Core
<1>. QED
  BY InitCore, NextCore, <1>1, PTL DEF Spec

\* doLoad() reads a buffer's file in one thread at a time, whatever the
\* client does and whatever fails.
THEOREM LoadExclusive == Spec => []OneLoader
<1>1. ASSUME Core PROVE OneLoader
  <2>. SUFFICES ASSUME NEW b \in Buffers PROVE Cardinality(Loaders(b)) <= 1
    BY DEF OneLoader
  <2>1. Loaders(b) \subseteq {mMutex[b]}
    BY <1>1 DEF Core, MutexOK, Inside, Loaders
  <2>2. IsFiniteSet({mMutex[b]}) /\ Cardinality({mMutex[b]}) = 1
    BY FS_Singleton
  <2>. QED
    BY <2>1, <2>2, FS_Subset
<1>. QED
  BY InitCore, NextCore, <1>1, PTL DEF Spec

\* LeafBuffer.h's "for delayed loading to be threadsafe": whatever the
\* threads do, a pointer of the union is followed only as what it is, but for
\* a buffer whose file could not be read.
THEOREM UnionSafe == ASSUME Unshared PROVE Spec => FollowsUnion
<1>1. ASSUME Inv, [Next]_vars PROVE [wild' => \E b \in Buffers : Broken(b)]_vars
  BY <1>1, OnlyBrokenIsWild
<1>2. Inv /\ [Next]_vars => Inv'
  BY NextInv
<1>. QED
  BY <1>1, <1>2, InitInv, PTL DEF Spec, FollowsUnion

\* So every pointer is followed as what it is, as long as files can be read.
THEOREM NeverWild == ASSUME Regular PROVE Spec => []NotWild
<1>1. UnionOK => NotWild
  BY DEF UnionOK
<1>2. Init => Inv /\ UnionOK
  BY InitInv, InitUnion
<1>3. Inv /\ UnionOK /\ [Next]_vars => (Inv /\ UnionOK)'
  BY NextInv, NextUnion DEF Regular
<1>. QED
  BY <1>1, <1>2, <1>3, PTL DEF Spec

\* at(), operator[] and setValue() find the content that the file or the
\* last writer gave the buffer, in whichever thread it was loaded, also when
\* reading other buffers has failed.
THEOREM ReadsCorrect == ASSUME Unshared, Sensible PROVE Spec => []ReadsLogical
<1>1. ASSUME Inv, HeldOK PROVE ReadsLogical
  <2>. SUFFICES ASSUME NEW th \in Threads, pc[th] = "access"
                PROVE  mPtr[buf[th]] # "info" /\ Value(buf[th]) = logical[buf[th]]
    BY DEF ReadsLogical
  <2>1. /\ buf[th] \in Buffers /\ alive[buf[th]] /\ ~mOutOfCore[buf[th]]
        /\ op[th] \in {"at", "data", "set"}
    BY <1>1 DEF Inv, Core, Shape, TypeOK, Ops, CallOK, AliveOK, LoadOK, Busy, Copying
  <2>2. Settled(buf[th])
    BY <1>1, <2>1, BufferAssumption
    DEF Inv, Core, Shape, TypeOK, CallOK, ExclusionOK, Settled, Busy
  <2>. QED
    BY <1>1, <2>1, <2>2 DEF Inv, Shape, FlagOK, HeldOK, Held
<1>2. Init => Inv /\ HeldOK /\ SourceOK
  BY InitInv, InitContent
<1>3. ASSUME Inv, HeldOK, SourceOK, [Next]_vars PROVE (Inv /\ HeldOK /\ SourceOK)'
  BY <1>3, NextInv, NextContent
<1>4. Inv /\ HeldOK /\ SourceOK /\ [Next]_vars => (Inv /\ HeldOK /\ SourceOK)'
  BY <1>3
<1>. QED
  BY <1>1, <1>2, <1>4, PTL DEF Spec
=============================================================================
