----------------------------- MODULE LeafBuffer -----------------------------
(***************************************************************************)
(* tree::LeafBuffer (openvdb/tree/LeafBuffer.h): the voxel array of a leaf *)
(* node, read from a memory-mapped file when it is first accessed.         *)
(*                                                                         *)
(* A step of the model is an access to a shared field.  The values of a    *)
(* buffer are one abstract content.  A const member function may run       *)
(* beside other const ones on the same buffer; a non-const one has its     *)
(* buffer for itself.                                                      *)
(***************************************************************************)
EXTENDS Integers, FiniteSets

CONSTANTS
    Threads,
    Buffers,
    Values,     \* contents of a buffer
    Zero,       \* sZero: what at() returns for an unallocated buffer
    Garbage,    \* content of an array nobody has written yet
    Unallocated,\* content of a buffer without an array, in memory or in a file
    Uses,       \* what the environment does besides the regular uses, see below
    None        \* "no thread", "no buffer"

\* "loadFails"   reading from the file may throw an exception;
\* "copyShared"  a buffer may be copied while other threads read it;
\* "fillLazy"    fill() may be called on a buffer that is still in its file;
\* "copyEmpty"   an unallocated buffer may be assigned to another one.
AllUses == {"loadFails", "copyShared", "fillLazy", "copyEmpty"}

Ops == {"at", "data", "set", "assign", "construct"}

Calls == [op : Ops, buf : Buffers, dst : Buffers \cup {None}, arg : Values]

ASSUME BufferAssumption ==
    /\ Zero \in Values
    /\ Garbage \notin Values
    /\ Unallocated \notin Values \cup {Garbage}
    /\ None \notin Threads \cup Buffers \cup Values \cup {Garbage, Unallocated} \cup Calls
    /\ Uses \subseteq AllUses

Contents == Values \cup {Garbage}

VARIABLES
    alive,        \* constructed and not yet destroyed, by buffer
    mPtr,         \* the union: "null", mData to an "array", mFileInfo to an "info"
    mOutOfCore,
    mMutex,       \* thread holding the spin mutex, or None
    cells,        \* content of the array, if there is one
    stored,       \* content the file info leads to, if there is one
    arrays,       \* number of arrays on the heap
    infos,        \* number of FileInfo objects on the heap
    pc, op,       \* what each thread is executing
    buf, dst,     \* its const argument and its exclusive one
    arg,          \* its value argument
    wild,         \* an array was taken for a FileInfo or the reverse
    logical       \* history: the content the operations so far should give

heap == <<arrays, infos>>
data == <<alive, mPtr, mOutOfCore, cells, stored>>
call == <<op, buf, dst, arg>>
vars == <<data, mMutex, heap, pc, call, wild, logical>>

TypeOK ==
    /\ alive \in [Buffers -> BOOLEAN]
    /\ mPtr \in [Buffers -> {"null", "array", "info"}]
    /\ mOutOfCore \in [Buffers -> BOOLEAN]
    /\ mMutex \in [Buffers -> Threads \cup {None}]
    /\ cells \in [Buffers -> Contents]
    /\ stored \in [Buffers -> Contents]
    /\ arrays \in Int
    /\ infos \in Int
    /\ pc \in [Threads -> {"idle", "check", "lock", "recheck", "take", "allocate", "read",
                           "clear", "unlock", "access", "lockNew", "new",
                           "drop", "decide", "flag", "info", "cells"}]
    /\ op \in [Threads -> Ops]
    /\ buf \in [Threads -> Buffers \cup {None}]
    /\ dst \in [Threads -> Buffers \cup {None}]
    /\ arg \in [Threads -> Values]
    /\ wild \in BOOLEAN
    /\ logical \in [Buffers -> Contents \cup {Unallocated}]

Init ==
    /\ alive = [b \in Buffers |-> FALSE]
    /\ mPtr = [b \in Buffers |-> "null"]
    /\ mOutOfCore = [b \in Buffers |-> FALSE]
    /\ mMutex = [b \in Buffers |-> None]
    /\ cells = [b \in Buffers |-> Garbage]
    /\ stored = [b \in Buffers |-> Garbage]
    /\ arrays = 0
    /\ infos = 0
    /\ pc = [th \in Threads |-> "idle"]
    /\ op = [th \in Threads |-> "at"]
    /\ buf = [th \in Threads |-> None]
    /\ dst = [th \in Threads |-> None]
    /\ arg = [th \in Threads |-> Zero]
    /\ wild = FALSE
    /\ logical = [b \in Buffers |-> Unallocated]

Empty(b) == mPtr[b] = "null" \/ mOutOfCore[b]

\* The content of a buffer in memory.
Value(b) == IF mPtr[b] = "null" THEN Unallocated ELSE cells[b]

\* A write to a buffer that has no array is ignored.
Overwritten(c, v) == IF c = Unallocated THEN c ELSE v

-----------------------------------------------------------------------------
(* Who may call what                                                       *)

Busy(th) == pc[th] # "idle"

Users(b) == {th \in Threads : Busy(th) /\ b \in {buf[th], dst[th]}}

\* Threads whose call leaves no room for a const call on b.
Owners(b) ==
    {th \in Users(b) :
        \/ dst[th] = b
        \/ op[th] \in {"assign", "construct"} /\ "copyShared" \notin Uses}

MayRead(b) == alive[b] /\ Owners(b) = {}
MayWrite(b) == alive[b] /\ Users(b) = {}
MayCopy(b) == IF "copyShared" \in Uses THEN MayRead(b) ELSE MayWrite(b)

Enter(th, o, b, d, v, at) ==
    /\ ~Busy(th) /\ ~wild
    /\ op' = [op EXCEPT ![th] = o]
    /\ buf' = [buf EXCEPT ![th] = b]
    /\ dst' = [dst EXCEPT ![th] = d]
    /\ arg' = [arg EXCEPT ![th] = v]
    /\ pc' = [pc EXCEPT ![th] = at]

Goto(th, at) ==
    /\ ~wild
    /\ pc' = [pc EXCEPT ![th] = at]
    /\ UNCHANGED call

BeginAt(th, b) ==
    /\ MayRead(b) /\ Enter(th, "at", b, None, Zero, "check")
    /\ UNCHANGED <<data, mMutex, heap, wild, logical>>

BeginData(th, b) ==
    /\ MayRead(b) /\ Enter(th, "data", b, None, Zero, "check")
    /\ UNCHANGED <<data, mMutex, heap, wild, logical>>

BeginSet(th, b, v) ==
    /\ MayWrite(b) /\ Enter(th, "set", b, b, v, "check")
    /\ UNCHANGED <<data, mMutex, heap, wild, logical>>

-----------------------------------------------------------------------------
(* loadValues(), doLoad()                                                  *)

\* Two unlocked looks at mOutOfCore, in loadValues() and in doLoad(): one
\* after the other is as good as the last one.
CheckInCore(th) ==
    /\ pc[th] = "check"
    /\ Goto(th, IF mOutOfCore[buf[th]] THEN "lock" ELSE "access")
    /\ UNCHANGED <<data, mMutex, heap, wild, logical>>

\* Mutant: the mutex is not waited for.
LockAlways(th) ==
    /\ pc[th] = "lock"
    /\ mMutex' = [mMutex EXCEPT ![buf[th]] = th]
    /\ Goto(th, "recheck")
    /\ UNCHANGED <<data, heap, wild, logical>>

Lock(th) ==
    /\ pc[th] = "lock" /\ mMutex[buf[th]] = None
    /\ mMutex' = [mMutex EXCEPT ![buf[th]] = th]
    /\ Goto(th, "recheck")
    /\ UNCHANGED <<data, heap, wild, logical>>

\* Mutant: no second look at the flag under the mutex.
RecheckNot(th) ==
    /\ pc[th] = "recheck"
    /\ Goto(th, "take")
    /\ UNCHANGED <<data, mMutex, heap, wild, logical>>

\* Mutant: the mutex is not released when somebody else has loaded.
RecheckKeepsLock(th) ==
    /\ pc[th] = "recheck"
    /\ Goto(th, IF mOutOfCore[buf[th]] THEN "take" ELSE "access")
    /\ UNCHANGED <<data, mMutex, heap, wild, logical>>

Recheck(th) ==
    /\ pc[th] = "recheck"
    /\ IF mOutOfCore[buf[th]]
       THEN Goto(th, "take") /\ UNCHANGED mMutex
       ELSE Goto(th, "access") /\ mMutex' = [mMutex EXCEPT ![buf[th]] = None]
    /\ UNCHANGED <<data, heap, wild, logical>>

\* A unique_ptr takes the FileInfo (if the union holds one) and mData is
\* cleared.
TakeInfo(th) ==
    /\ pc[th] = "take"
    /\ mPtr' = [mPtr EXCEPT ![buf[th]] = "null"]
    /\ wild' = (mPtr[buf[th]] # "info")
    /\ Goto(th, "allocate")
    /\ UNCHANGED <<alive, mOutOfCore, cells, stored, mMutex, heap, logical>>

\* Mutant: the flag is cleared before the values are there.
AllocateForLoadClears(th) ==
    /\ pc[th] = "allocate"
    /\ mPtr' = [mPtr EXCEPT ![buf[th]] = "array"]
    /\ mOutOfCore' = [mOutOfCore EXCEPT ![buf[th]] = FALSE]
    /\ cells' = [cells EXCEPT ![buf[th]] = Garbage]
    /\ arrays' = arrays + 1
    /\ Goto(th, "read")
    /\ UNCHANGED <<alive, stored, mMutex, infos, wild, logical>>

AllocateForLoad(th) ==
    /\ pc[th] = "allocate"
    /\ mPtr' = [mPtr EXCEPT ![buf[th]] = "array"]
    /\ cells' = [cells EXCEPT ![buf[th]] = Garbage]
    /\ arrays' = arrays + 1
    /\ Goto(th, "read")
    /\ UNCHANGED <<alive, mOutOfCore, stored, mMutex, infos, wild, logical>>

ReadValues(th) ==
    /\ pc[th] = "read"
    /\ cells' = [cells EXCEPT ![buf[th]] = stored[buf[th]]]
    /\ Goto(th, "clear")
    /\ UNCHANGED <<alive, mPtr, mOutOfCore, stored, mMutex, heap, wild, logical>>

\* Mutant: the mutex is not released by an exception.
LoadThrowsLocked(th) ==
    /\ "loadFails" \in Uses
    /\ pc[th] = "read"
    /\ infos' = infos - 1
    /\ Goto(th, "idle")
    /\ UNCHANGED <<data, mMutex, arrays, wild, logical>>

\* Mutant: the flag is cleared by an exception.
LoadThrowsInCore(th) ==
    /\ "loadFails" \in Uses
    /\ pc[th] = "read"
    /\ infos' = infos - 1
    /\ mMutex' = [mMutex EXCEPT ![buf[th]] = None]
    /\ mOutOfCore' = [mOutOfCore EXCEPT ![buf[th]] = FALSE]
    /\ Goto(th, "idle")
    /\ UNCHANGED <<alive, mPtr, cells, stored, arrays, wild, logical>>

\* createBuffer(), the mask or the values throw: the unique_ptr and the
\* scoped lock are released, the flag and the array stay.
LoadThrows(th) ==
    /\ "loadFails" \in Uses
    /\ pc[th] = "read"
    /\ infos' = infos - 1
    /\ mMutex' = [mMutex EXCEPT ![buf[th]] = None]
    /\ Goto(th, "idle")
    /\ UNCHANGED <<data, arrays, wild, logical>>

ClearFlag(th) ==
    /\ pc[th] = "clear"
    /\ mOutOfCore' = [mOutOfCore EXCEPT ![buf[th]] = FALSE]
    /\ Goto(th, "unlock")
    /\ UNCHANGED <<alive, mPtr, cells, stored, mMutex, heap, wild, logical>>

\* Mutant: the FileInfo is not deleted.
UnlockKeepsInfo(th) ==
    /\ pc[th] = "unlock"
    /\ mMutex' = [mMutex EXCEPT ![buf[th]] = None]
    /\ Goto(th, "access")
    /\ UNCHANGED <<data, heap, wild, logical>>

\* The unique_ptr deletes the FileInfo, then the scoped lock is released.
Unlock(th) ==
    /\ pc[th] = "unlock"
    /\ infos' = infos - 1
    /\ mMutex' = [mMutex EXCEPT ![buf[th]] = None]
    /\ Goto(th, "access")
    /\ UNCHANGED <<data, arrays, wild, logical>>

-----------------------------------------------------------------------------
(* The access that follows loadValues()                                    *)

\* at() ends here; data() goes on when there is no array.
Access(th) ==
    /\ pc[th] = "access" /\ op[th] \in {"at", "data"}
    /\ Goto(th, IF op[th] = "data" /\ mPtr[buf[th]] = "null" THEN "lockNew" ELSE "idle")
    /\ UNCHANGED <<data, mMutex, heap, wild, logical>>

\* setValue() says nothing when there is no array: LeafNode::setValueOn(),
\* setValueOff() and setValueOnly() call it without allocate().
Store(th) ==
    /\ pc[th] = "access" /\ op[th] = "set"
    /\ cells' = [cells EXCEPT ![buf[th]] = IF mPtr[buf[th]] = "null" THEN @ ELSE arg[th]]
    /\ logical' = [logical EXCEPT ![buf[th]] = Overwritten(@, arg[th])]
    /\ Goto(th, "idle")
    /\ UNCHANGED <<alive, mPtr, mOutOfCore, stored, mMutex, heap, wild>>

LockNew(th) ==
    /\ pc[th] = "lockNew" /\ mMutex[buf[th]] = None
    /\ mMutex' = [mMutex EXCEPT ![buf[th]] = th]
    /\ Goto(th, "new")
    /\ UNCHANGED <<data, heap, wild, logical>>

\* A fresh array holds nothing in particular.
NewArray(th) ==
    /\ pc[th] = "new"
    /\ mPtr' = [mPtr EXCEPT ![buf[th]] = "array"]
    /\ IF mPtr[buf[th]] = "null"
       THEN /\ cells' = [cells EXCEPT ![buf[th]] = Garbage]
            /\ logical' = [logical EXCEPT ![buf[th]] = Garbage]
            /\ arrays' = arrays + 1
       ELSE UNCHANGED <<cells, logical, arrays>>
    /\ mMutex' = [mMutex EXCEPT ![buf[th]] = None]
    /\ Goto(th, "idle")
    /\ UNCHANGED <<alive, mOutOfCore, stored, infos, wild>>

-----------------------------------------------------------------------------
(* operator=() and the copy constructor: d from b                          *)

BeginAssign(th, d, b) ==
    /\ d # b /\ MayWrite(d) /\ MayCopy(b)
    /\ "copyEmpty" \in Uses \/ mPtr[b] # "null"
    /\ Enter(th, "assign", b, d, Zero, "drop")
    /\ UNCHANGED <<data, mMutex, heap, wild, logical>>

\* detachFromFile(), or deallocate() if the other buffer is out of core.
DropOwn(th) ==
    LET d == dst[th]
        detach == mOutOfCore[d]
        free == ~mOutOfCore[d] /\ mOutOfCore[buf[th]] /\ mPtr[d] # "null"
    IN  /\ pc[th] = "drop"
        /\ mPtr' = [mPtr EXCEPT ![d] = IF detach \/ free THEN "null" ELSE @]
        /\ mOutOfCore' = [mOutOfCore EXCEPT ![d] = FALSE]
        /\ infos' = IF detach THEN infos - 1 ELSE infos
        /\ arrays' = IF free THEN arrays - 1 ELSE arrays
        /\ wild' = (detach /\ mPtr[d] # "info")
        /\ Goto(th, "decide")
        /\ UNCHANGED <<alive, cells, stored, mMutex, logical>>

\* The copy constructor takes the flag first.
BeginConstruct(th, d, b) ==
    /\ ~alive[d] /\ Users(d) = {} /\ MayCopy(b)
    /\ Enter(th, "construct", b, d, Zero, "decide")
    /\ alive' = [alive EXCEPT ![d] = TRUE]
    /\ mPtr' = [mPtr EXCEPT ![d] = "null"]
    /\ mOutOfCore' = [mOutOfCore EXCEPT ![d] = mOutOfCore[b]]
    /\ UNCHANGED <<cells, stored, mMutex, heap, wild, logical>>

Decide(th) ==
    /\ pc[th] = "decide"
    /\ Goto(th, IF ~mOutOfCore[buf[th]] THEN "cells"
                ELSE IF op[th] = "assign" THEN "flag" ELSE "info")
    /\ UNCHANGED <<data, mMutex, heap, wild, logical>>

\* The other buffer's flag is read once more.
CopyFlag(th) ==
    /\ pc[th] = "flag"
    /\ mOutOfCore' = [mOutOfCore EXCEPT ![dst[th]] = mOutOfCore[buf[th]]]
    /\ Goto(th, "info")
    /\ UNCHANGED <<alive, mPtr, cells, stored, mMutex, heap, wild, logical>>

CopyInfo(th) ==
    /\ pc[th] = "info"
    /\ wild' = (mPtr[buf[th]] # "info")
    /\ mPtr' = [mPtr EXCEPT ![dst[th]] = "info"]
    /\ stored' = [stored EXCEPT ![dst[th]] = stored[buf[th]]]
    /\ infos' = infos + 1
    /\ logical' = [logical EXCEPT ![dst[th]] = logical[buf[th]]]
    /\ Goto(th, "idle")
    /\ UNCHANGED <<alive, mOutOfCore, cells, mMutex, arrays>>

\* A buffer without an array gives nothing: the copy keeps what it has.
CopyCells(th) ==
    LET copies == mPtr[buf[th]] # "null"
        allocates == copies /\ mPtr[dst[th]] = "null"
    IN  /\ pc[th] = "cells"
        /\ mPtr' = [mPtr EXCEPT ![dst[th]] = IF allocates THEN "array" ELSE @]
        /\ cells' = [cells EXCEPT ![dst[th]] = IF copies THEN cells[buf[th]] ELSE @]
        /\ arrays' = IF allocates THEN arrays + 1 ELSE arrays
        /\ logical' = [logical EXCEPT ![dst[th]] = logical[buf[th]]]
        /\ Goto(th, "idle")
        /\ UNCHANGED <<alive, mOutOfCore, stored, mMutex, infos, wild>>

-----------------------------------------------------------------------------
(* Operations that have their buffers for themselves                       *)

Construct(b, ptr, v) ==
    /\ ~wild /\ ~alive[b] /\ Users(b) = {}
    /\ alive' = [alive EXCEPT ![b] = TRUE]
    /\ mPtr' = [mPtr EXCEPT ![b] = ptr]
    /\ mOutOfCore' = [mOutOfCore EXCEPT ![b] = FALSE]
    /\ cells' = [cells EXCEPT ![b] = v]
    /\ arrays' = IF ptr = "array" THEN arrays + 1 ELSE arrays
    /\ logical' = [logical EXCEPT ![b] = IF ptr = "array" THEN v ELSE Unallocated]
    /\ UNCHANGED <<stored, infos, mMutex, pc, call, wild>>

ConstructValue(b, v) == Construct(b, "array", v)
ConstructDefault(b) == Construct(b, "array", Garbage)
ConstructPartial(b) == Construct(b, "null", Garbage)

\* Mutant: the FileInfo is left without the positions in the file.
AttachToFileNowhere(b, v) ==
    /\ ~wild /\ MayWrite(b)
    /\ mPtr[b] = "null" /\ ~mOutOfCore[b]
    /\ mOutOfCore' = [mOutOfCore EXCEPT ![b] = TRUE]
    /\ mPtr' = [mPtr EXCEPT ![b] = "info"]
    /\ stored' = [stored EXCEPT ![b] = None]
    /\ infos' = infos + 1
    /\ logical' = [logical EXCEPT ![b] = v]
    /\ UNCHANGED <<alive, cells, arrays, mMutex, pc, call, wild>>

\* LeafNode::readBuffers() with delayed loading, of a leaf made by
\* readTopology(), whose buffer is not allocated.
AttachToFile(b, v) ==
    /\ ~wild /\ MayWrite(b)
    /\ mPtr[b] = "null" /\ ~mOutOfCore[b]
    /\ mOutOfCore' = [mOutOfCore EXCEPT ![b] = TRUE]
    /\ mPtr' = [mPtr EXCEPT ![b] = "info"]
    /\ stored' = [stored EXCEPT ![b] = v]
    /\ infos' = infos + 1
    /\ logical' = [logical EXCEPT ![b] = v]
    /\ UNCHANGED <<alive, cells, arrays, mMutex, pc, call, wild>>

\* allocate(): a buffer that is out of core has its union set already.
Allocate(b) ==
    /\ ~wild /\ MayWrite(b) /\ mPtr[b] = "null"
    /\ mPtr' = [mPtr EXCEPT ![b] = "array"]
    /\ cells' = [cells EXCEPT ![b] = Garbage]
    /\ arrays' = arrays + 1
    /\ logical' = [logical EXCEPT ![b] = Garbage]
    /\ UNCHANGED <<alive, mOutOfCore, stored, infos, mMutex, pc, call, wild>>

\* Detached from its file, the buffer has no array left to fill.
Fill(b, v) ==
    /\ ~wild /\ MayWrite(b)
    /\ "fillLazy" \in Uses \/ ~mOutOfCore[b]
    /\ wild' = (mOutOfCore[b] /\ mPtr[b] # "info")
    /\ mPtr' = [mPtr EXCEPT ![b] = IF mOutOfCore[b] THEN "null" ELSE @]
    /\ mOutOfCore' = [mOutOfCore EXCEPT ![b] = FALSE]
    /\ infos' = IF mOutOfCore[b] THEN infos - 1 ELSE infos
    /\ cells' = [cells EXCEPT ![b] = IF Empty(b) THEN @ ELSE v]
    /\ logical' = [logical EXCEPT ![b] = Overwritten(@, v)]
    /\ UNCHANGED <<alive, stored, arrays, mMutex, pc, call>>

Swap(b, c) ==
    LET Swapped(f) == [f EXCEPT ![b] = f[c], ![c] = f[b]]
    IN  /\ ~wild /\ b # c /\ MayWrite(b) /\ MayWrite(c)
        /\ mPtr' = Swapped(mPtr)
        /\ mOutOfCore' = Swapped(mOutOfCore)
        /\ cells' = Swapped(cells)
        /\ stored' = Swapped(stored)
        /\ logical' = Swapped(logical)
        /\ UNCHANGED <<alive, heap, mMutex, pc, call, wild>>

Destroy(b) ==
    /\ ~wild /\ MayWrite(b)
    /\ alive' = [alive EXCEPT ![b] = FALSE]
    /\ wild' = (mOutOfCore[b] /\ mPtr[b] # "info")
    /\ mPtr' = [mPtr EXCEPT ![b] = "null"]
    /\ mOutOfCore' = [mOutOfCore EXCEPT ![b] = FALSE]
    /\ infos' = IF mOutOfCore[b] THEN infos - 1 ELSE infos
    /\ arrays' = IF ~Empty(b) THEN arrays - 1 ELSE arrays
    /\ UNCHANGED <<cells, stored, mMutex, pc, call, logical>>

-----------------------------------------------------------------------------

BeginStep(th) ==
    \E b \in Buffers :
        \/ BeginAt(th, b)
        \/ BeginData(th, b)
        \/ \E v \in Values : BeginSet(th, b, v)
        \/ \E d \in Buffers : BeginAssign(th, d, b) \/ BeginConstruct(th, d, b)

LoadStep(th) ==
    \/ CheckInCore(th) \/ Lock(th) \/ Recheck(th) \/ TakeInfo(th) \/ AllocateForLoad(th)
    \/ ReadValues(th) \/ LoadThrows(th) \/ ClearFlag(th) \/ Unlock(th)

AccessStep(th) == Access(th) \/ Store(th) \/ LockNew(th) \/ NewArray(th)

CopyStep(th) == DropOwn(th) \/ Decide(th) \/ CopyFlag(th) \/ CopyInfo(th) \/ CopyCells(th)

Step(th) == LoadStep(th) \/ AccessStep(th) \/ CopyStep(th)

OwnerStep ==
    \E b \in Buffers :
        \/ \E v \in Values : ConstructValue(b, v) \/ AttachToFile(b, v) \/ Fill(b, v)
        \/ ConstructDefault(b)
        \/ ConstructPartial(b)
        \/ Allocate(b)
        \/ \E c \in Buffers : Swap(b, c)
        \/ Destroy(b)

Next == OwnerStep \/ \E th \in Threads : BeginStep(th) \/ Step(th)

\* A thread that has begun a call goes on with it.  The spin mutex need not
\* be fair: a buffer is loaded or allocated once, then nobody asks for it.
Fairness == \A th \in Threads : WF_vars(Step(th))

Spec == Init /\ [][Next]_vars /\ Fairness

-----------------------------------------------------------------------------
(* Properties                                                              *)

\* Threads that hold the FileInfo of b in doLoad()'s unique_ptr.
Loaders(b) ==
    {th \in Threads : buf[th] = b /\ pc[th] \in {"allocate", "read", "clear", "unlock"}}

\* What a load that threw leaves: the flag of a file, the array in the union.
Broken(b) == mOutOfCore[b] /\ mPtr[b] = "array" /\ Loaders(b) = {}

\* No pointer of the union is followed as what it is not, but for what a failed
\* load has left behind: mOutOfCore tells what the union holds, also while a
\* thread is loading and others look.
FollowsUnion == [][wild' => \E b \in Buffers : Broken(b)]_vars

\* So none is, as long as files can be read.
NotWild == ~wild

\* A thread that has seen the buffer in core, whoever loaded it, reads the
\* content the file or the last writer gave it: never a half-read array.
ReadsLogical ==
    \A th \in Threads : pc[th] = "access" =>
        mPtr[buf[th]] # "info" /\ Value(buf[th]) = logical[buf[th]]

\* Every array and every FileInfo on the heap is held by one buffer, or by
\* the thread that is loading it: none is lost, none is deleted twice.
NoLeak == ~wild =>
    /\ arrays = Cardinality({b \in Buffers : mPtr[b] = "array"})
    /\ infos = Cardinality({b \in Buffers : mPtr[b] = "info"})
                 + Cardinality(UNION {Loaders(b) : b \in Buffers})

\* A buffer's file is read by one thread at a time, under the mutex.
OneLoader == \A b \in Buffers : Cardinality(Loaders(b)) <= 1

\* Whoever holds a buffer's spin mutex is between taking and releasing it,
\* where nothing is waited for: a waiting thread waits for one that goes on,
\* also when reading the file has thrown.
Inside == {"recheck", "take", "allocate", "read", "clear", "unlock", "new"}
MutexHeldInside ==
    \A b \in Buffers : mMutex[b] # None => buf[mMutex[b]] = b /\ pc[mMutex[b]] \in Inside

\* No copy is being made into b.
Settled(b) == \A th \in Threads : Busy(th) /\ dst[th] = b => op[th] = "set"

\* The content of b, in its file or in memory.
Held(b) == IF mOutOfCore[b] THEN stored[b] ELSE Value(b)

ContentOf(b) == IF alive[b] /\ Settled(b) THEN Held(b) ELSE None

CallOf(th) ==
    IF ~Busy(th) THEN None
    ELSE [op |-> op[th], buf |-> buf[th], dst |-> dst[th], arg |-> arg[th]]

Promise == INSTANCE BufferContents WITH
    content <- [b \in Buffers |-> ContentOf(b)],
    current <- [th \in Threads |-> CallOf(th)]

\* Delayed loading, whoever does it, and the way buffers are copied are not to
\* be seen in the contents of buffers.
KeepsContents == Promise!Spec

\* Every call returns, by exception or not: nobody waits for ever for the spin
\* mutex.  (A call that follows a wrong pointer may do anything.)
CallReturns == \A th \in Threads : Busy(th) ~> (~Busy(th) \/ wild)

(* Promises of the source that the code breaks.                            *)

\* What doLoad() asserts: the union it takes is a FileInfo with a mapping.
LoadFindsFileInfo == \A th \in Threads : pc[th] = "take" => mPtr[buf[th]] = "info"

\* "Set the i'th value of this buffer to the specified value" (LeafBuffer.h:116):
\* what was set is what at() returns next.
At(b) == IF mPtr[b] = "null" THEN Zero ELSE cells[b]
WritesArrive ==
    [][\A th \in Threads : Store(th) => At(buf[th])' = arg[th]]_vars
=============================================================================
