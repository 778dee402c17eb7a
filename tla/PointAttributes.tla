-------------------------- MODULE PointAttributes --------------------------
(***************************************************************************)
(* One attribute of the leaves of a point grid (openvdb/points):           *)
(* AttributeSet shares its arrays with copies of the set and makes them    *)
(* unique when it writes; TypedAttributeArray is uniform or not and loaded *)
(* from a page of a file when it is first accessed; the arrays of a page   *)
(* share it (StreamCompression).                                           *)
(*                                                                         *)
(* Const calls on a set may run in several threads at once; a non-const    *)
(* one has its set for itself, but not the array, which other sets share.  *)
(* A step of the model is an access to shared fields.  What happens to an  *)
(* array that only one set holds, under its non-const call, is one step.   *)
(***************************************************************************)
EXTENDS Integers

CONSTANTS
    Threads,
    Sets,         \* attribute sets, one per leaf
    Arrays,       \* places for arrays on the heap
    Pages,        \* places for pages on the heap
    Size,         \* elements of an array
    Values,
    Zero,         \* what a new array is filled with
    Garbage,      \* content of memory nobody has written yet
    Bytes,        \* the union holds a number of bytes, not a page handle
    MaxFailures,  \* bound: times that reading a page throws
    None          \* "no thread", "no array", a null pointer

Elements == 1..Size

Data == [Elements -> Values \cup {Garbage}]

\* A page handle; its index and size lead to a slice of the page.
Handle == [page : Pages, slice : Data]

Calls ==
    [op : {"get", "expand", "compact"}, set : Sets, element : {1}, value : {Zero}]
        \cup [op : {"fill", "collapse"}, set : Sets, element : {1}, value : Values]
        \cup [op : {"set"}, set : Sets, element : Elements, value : Values]

ASSUME PointAssumption ==
    /\ Size \in Nat \ {0} /\ MaxFailures \in Nat
    /\ Zero \in Values /\ Garbage \notin Values
    /\ None \notin Threads \cup Sets \cup Arrays \cup Pages \cup Data \cup Handle \cup Calls
    /\ Bytes \notin {None} \cup Handle

VARIABLES
    mAttrs,      \* AttributeSet: its array (a shared_ptr), or None
    array,       \* fields of the arrays
    mMutex,      \* spin mutex of each array: thread holding it, or None
    page,        \* fields of the pages
    pageMutex,   \* Page::mMutex: thread holding it, or None
    pc,          \* where each thread is
    call,        \* its operation and arguments
    at,          \* the array it is working on, or None
    new,         \* a copy it has made and nobody holds yet, or None
    failures,
    wild         \* a null pointer was dereferenced, or Bytes destroyed as a pointer

locks == <<mMutex, pageMutex>>
thread == <<pc, call, at, new>>
vars == <<mAttrs, array, page, locks, thread, failures, wild>>

ArrayFields ==
    [mIsUniform : BOOLEAN, mOutOfCore : BOOLEAN, mUsePagedRead : BOOLEAN,
     partial : BOOLEAN,  \* PARTIALREAD of mFlags
     mPageHandle : Handle \cup {Bytes, None}, mData : Data \cup {None}]

\* mInfo holds nothing, the page's header, or its place in the file as well.
PageFields == [mInfo : {"none", "header", "file"}, mData : {"null", "raw", "loaded"}]

TypeOK ==
    /\ mAttrs \in [Sets -> Arrays \cup {None}]
    /\ array \in [Arrays -> ArrayFields]
    /\ mMutex \in [Arrays -> Threads \cup {None}]
    /\ page \in [Pages -> PageFields]
    /\ pageMutex \in [Pages -> Threads \cup {None}]
    /\ pc \in [Threads -> {"idle", "check", "lock", "recheck", "page", "lockPage", "recheckPage",
                           "allocate", "read", "copyOut", "clear", "access",
                           "copyLock", "copyFlags", "copyHandle", "copyData", "assign"}]
    /\ call \in [Threads -> Calls \cup {None}]
    /\ at \in [Threads -> Arrays \cup {None}]
    /\ new \in [Threads -> Arrays \cup {None}]
    /\ failures \in 0..MaxFailures
    /\ wild \in BOOLEAN

\* An array with one element for all.
Uniform(v) == [e \in Elements |-> IF e = 1 THEN v ELSE Garbage]

\* Mutant: off by one.
FullFromZero(v) == [e \in 0..Size - 1 |-> v]

Full(v) == [e \in Elements |-> v]

\* getUnsafe()
Get(data, isUniform, e) == data[IF isUniform THEN 1 ELSE e]

\* What create() makes.
Created ==
    [mIsUniform |-> TRUE, mOutOfCore |-> FALSE, mUsePagedRead |-> FALSE, partial |-> FALSE,
     mPageHandle |-> None, mData |-> Uniform(Zero)]

Unused == [Created EXCEPT !.mData = None]

Init ==
    /\ mAttrs = [s \in Sets |-> None]
    /\ array = [a \in Arrays |-> Unused]
    /\ mMutex = [a \in Arrays |-> None]
    /\ page = [p \in Pages |-> [mInfo |-> "none", mData |-> "null"]]
    /\ pageMutex = [p \in Pages |-> None]
    /\ pc = [th \in Threads |-> "idle"]
    /\ call = [th \in Threads |-> None]
    /\ at = [th \in Threads |-> None]
    /\ new = [th \in Threads |-> None]
    /\ failures = 0
    /\ wild = FALSE

-----------------------------------------------------------------------------
(* Who may call what                                                       *)

Busy(th) == pc[th] # "idle"

Users(s) == {th \in Threads : Busy(th) /\ call[th].set = s}

Writers(s) == {th \in Users(s) : call[th].op # "get"}

\* Between readMetadata() and the end of reading its buffers an array is
\* only read on or destroyed.
MidRead(a) == array[a].partial \/ array[a].mUsePagedRead

Present(s) == mAttrs[s] # None /\ ~MidRead(mAttrs[s])

MayRead(s) == ~wild /\ Present(s) /\ Writers(s) = {}
MayWrite(s) == ~wild /\ Present(s) /\ Users(s) = {}

\* shared_ptr: the sets that hold an array, and a place nobody holds.
Holders(a) == {s \in Sets : mAttrs[s] = a}
Free(a) == Holders(a) = {} /\ \A th \in Threads : new[th] # a

\* The arrays after set s lets go of its array.
Released(s) ==
    IF mAttrs[s] # None /\ Holders(mAttrs[s]) = {s}
    THEN [array EXCEPT ![mAttrs[s]] = Unused]
    ELSE array

\* ~AttributeArray() destroys the union as a page handle, unless the array
\* was partially read.
DestroysBytes(s) ==
    LET a == mAttrs[s]
    IN  a # None /\ Holders(a) = {s} /\ array[a].mPageHandle = Bytes /\ ~array[a].partial

Enter(th, c, p) ==
    /\ ~Busy(th)
    /\ call' = [call EXCEPT ![th] = c]
    /\ at' = [at EXCEPT ![th] = mAttrs[c.set]]
    /\ pc' = [pc EXCEPT ![th] = p]

Here(th) == array[at[th]].mPageHandle
PageOf(th) == Here(th).page

Goto(th, p) ==
    /\ ~wild
    /\ pc' = [pc EXCEPT ![th] = p]

Return(th) ==
    /\ ~wild
    /\ pc' = [pc EXCEPT ![th] = "idle"]
    /\ call' = [call EXCEPT ![th] = None]
    /\ at' = [at EXCEPT ![th] = None]
    /\ UNCHANGED new

\* get(), a handle, operator==() or writing to a file.
BeginRead(th, s) ==
    /\ MayRead(s)
    /\ Enter(th, [op |-> "get", set |-> s, element |-> 1, value |-> Zero], "check")
    /\ UNCHANGED <<mAttrs, array, page, locks, new, failures, wild>>

-----------------------------------------------------------------------------
(* AttributeSet::makeUnique(), TypedAttributeArray::copy()                 *)

\* fill() needs no data.  The others load them, or have had a handle load
\* them as collapse() and expand() do not.
Start(op) == IF op = "fill" THEN "access" ELSE "check"

\* Mutant: shared arrays are not copied.
BeginWriteShared(th, c) ==
    /\ c.op # "get" /\ MayWrite(c.set)
    /\ Enter(th, c, Start(c.op))
    /\ UNCHANGED <<mAttrs, array, page, locks, new, failures, wild>>

\* A non-const call begins with AttributeSet::get(), which copies an array
\* that others hold as well.
BeginWrite(th, c) ==
    /\ c.op # "get" /\ MayWrite(c.set)
    /\ Enter(th, c, IF Holders(mAttrs[c.set]) = {c.set} THEN Start(c.op) ELSE "copyLock")
    /\ UNCHANGED <<mAttrs, array, page, locks, new, failures, wild>>

\* Mutant: the source is not locked.
CopyLockNot(th) ==
    /\ pc[th] = "copyLock"
    /\ Goto(th, "copyFlags")
    /\ UNCHANGED <<mAttrs, array, page, locks, call, at, new, failures, wild>>

CopyLock(th) ==
    /\ pc[th] = "copyLock" /\ mMutex[at[th]] = None
    /\ mMutex' = [mMutex EXCEPT ![at[th]] = th]
    /\ Goto(th, "copyFlags")
    /\ UNCHANGED <<mAttrs, array, page, pageMutex, call, at, new, failures, wild>>

\* The base class takes the flags, then the handle, if there is one.
CopyFlags(th) ==
    /\ pc[th] = "copyFlags"
    /\ \E a \in Arrays :
        /\ Free(a)
        /\ array' = [array EXCEPT ![a] =
                        [array[at[th]] EXCEPT !.mPageHandle = None, !.mData = None]]
        /\ new' = [new EXCEPT ![th] = a]
    /\ Goto(th, "copyHandle")
    /\ UNCHANGED <<mAttrs, page, locks, call, at, failures, wild>>

CopyHandle(th) ==
    /\ pc[th] = "copyHandle"
    /\ array' = [array EXCEPT ![new[th]].mPageHandle = Here(th)]
    /\ Goto(th, "copyData")
    /\ UNCHANGED <<mAttrs, page, locks, call, at, new, failures, wild>>

\* The derived class: the data, if the copy is not out of core.
CopyData(th) ==
    /\ pc[th] = "copyData"
    /\ IF array[new[th]].mOutOfCore
       THEN UNCHANGED <<array, wild>>
       ELSE /\ array' = [array EXCEPT ![new[th]].mData = array[at[th]].mData]
            /\ wild' = (array[at[th]].mData = None)
    /\ mMutex' = [mMutex EXCEPT ![at[th]] = None]
    /\ Goto(th, "assign")
    /\ UNCHANGED <<mAttrs, page, pageMutex, call, at, new, failures>>

\* The set holds the copy and lets go of the shared array.
Assign(th) ==
    LET s == call[th].set
    IN  /\ pc[th] = "assign"
        /\ mAttrs' = [mAttrs EXCEPT ![s] = new[th]]
        /\ array' = Released(s)
        /\ wild' = DestroysBytes(s)
        /\ at' = [at EXCEPT ![th] = new[th]]
        /\ new' = [new EXCEPT ![th] = None]
        /\ Goto(th, Start(call[th].op))
        /\ UNCHANGED <<page, locks, call, failures>>

-----------------------------------------------------------------------------
(* TypedAttributeArray::doLoad(), PageHandle::read(), Page::doLoad()       *)

CheckInCore(th) ==
    /\ pc[th] = "check"
    /\ Goto(th, IF array[at[th]].mOutOfCore THEN "lock" ELSE "access")
    /\ UNCHANGED <<mAttrs, array, page, locks, call, at, new, failures, wild>>

Lock(th) ==
    /\ pc[th] = "lock" /\ mMutex[at[th]] = None
    /\ mMutex' = [mMutex EXCEPT ![at[th]] = th]
    /\ Goto(th, "recheck")
    /\ UNCHANGED <<mAttrs, array, page, pageMutex, call, at, new, failures, wild>>

\* Mutant: the mutex is kept when another thread has loaded the array.
RecheckKeepsLock(th) ==
    /\ pc[th] = "recheck"
    /\ Goto(th, IF array[at[th]].mOutOfCore THEN "page" ELSE "access")
    /\ UNCHANGED <<mAttrs, array, page, locks, call, at, new, failures, wild>>

\* doLoadUnsafe() looks again.  The page handle must be there.
Recheck(th) ==
    /\ pc[th] = "recheck"
    /\ IF array[at[th]].mOutOfCore
       THEN /\ Goto(th, "page")
            /\ wild' = (Here(th) \notin Handle)
            /\ UNCHANGED mMutex
       ELSE /\ Goto(th, "access")
            /\ mMutex' = [mMutex EXCEPT ![at[th]] = None]
            /\ UNCHANGED wild
    /\ UNCHANGED <<mAttrs, array, page, pageMutex, call, at, new, failures>>

\* Mutant: the flag is cleared before the data are there.
CheckPageClears(th) ==
    /\ pc[th] = "page"
    /\ Goto(th, IF page[PageOf(th)].mInfo = "none" THEN "copyOut" ELSE "lockPage")
    /\ array' = [array EXCEPT ![at[th]].mOutOfCore = FALSE]
    /\ UNCHANGED <<mAttrs, page, locks, call, at, new, failures, wild>>

\* Page::buffer(): two unlocked looks, as good as the last one.
CheckPage(th) ==
    /\ pc[th] = "page"
    /\ Goto(th, IF page[PageOf(th)].mInfo = "none" THEN "copyOut" ELSE "lockPage")
    /\ UNCHANGED <<mAttrs, array, page, locks, call, at, new, failures, wild>>

LockPage(th) ==
    /\ pc[th] = "lockPage" /\ pageMutex[PageOf(th)] = None
    /\ pageMutex' = [pageMutex EXCEPT ![PageOf(th)] = th]
    /\ Goto(th, "recheckPage")
    /\ UNCHANGED <<mAttrs, array, page, mMutex, call, at, new, failures, wild>>

\* Mutant: no second look under the mutex of the page.
RecheckPageNot(th) ==
    /\ pc[th] = "recheckPage"
    /\ Goto(th, "allocate")
    /\ UNCHANGED <<mAttrs, array, page, locks, call, at, new, failures, wild>>

RecheckPage(th) ==
    /\ pc[th] = "recheckPage"
    /\ IF page[PageOf(th)].mInfo = "none"
       THEN /\ Goto(th, "copyOut")
            /\ pageMutex' = [pageMutex EXCEPT ![PageOf(th)] = None]
       ELSE Goto(th, "allocate") /\ UNCHANGED pageMutex
    /\ UNCHANGED <<mAttrs, array, page, mMutex, call, at, new, failures, wild>>

\* The compressed bytes are read, then decompress() or copy() allocates.
AllocatePage(th) ==
    /\ pc[th] = "allocate"
    /\ page' = [page EXCEPT ![PageOf(th)].mData = "raw"]
    /\ Goto(th, "read")
    /\ UNCHANGED <<mAttrs, array, locks, call, at, new, failures, wild>>

\* The data are there, mInfo is reset, the mutex released.
ReadPage(th) ==
    /\ pc[th] = "read"
    /\ page' = [page EXCEPT ![PageOf(th)] = [mInfo |-> "none", mData |-> "loaded"]]
    /\ pageMutex' = [pageMutex EXCEPT ![PageOf(th)] = None]
    /\ Goto(th, "copyOut")
    /\ UNCHANGED <<mAttrs, array, mMutex, call, at, new, failures, wild>>

\* Mutant: the exception leaves the mutex of the page locked.
LoadThrowsLocked(th) ==
    /\ failures < MaxFailures
    /\ pc[th] \in {"allocate", "read"}
    /\ failures' = failures + 1
    /\ mMutex' = [mMutex EXCEPT ![at[th]] = None]
    /\ Return(th)
    /\ UNCHANGED <<mAttrs, array, page, pageMutex, wild>>

\* Mutant: mInfo is moved out before the page is read, and lost when it throws.
LoadThrowsWithoutInfo(th) ==
    /\ failures < MaxFailures
    /\ pc[th] \in {"allocate", "read"}
    /\ failures' = failures + 1
    /\ page' = [page EXCEPT ![PageOf(th)].mInfo = "none"]
    /\ pageMutex' = [pageMutex EXCEPT ![PageOf(th)] = None]
    /\ mMutex' = [mMutex EXCEPT ![at[th]] = None]
    /\ Return(th)
    /\ UNCHANGED <<mAttrs, array, wild>>

\* createBuffer() or the decompression throws: both scoped locks go, the
\* array and the page remain to be loaded.
LoadThrows(th) ==
    /\ failures < MaxFailures
    /\ pc[th] \in {"allocate", "read"}
    /\ failures' = failures + 1
    /\ pageMutex' = [pageMutex EXCEPT ![PageOf(th)] = None]
    /\ mMutex' = [mMutex EXCEPT ![at[th]] = None]
    /\ Return(th)
    /\ UNCHANGED <<mAttrs, array, page, wild>>

\* PageHandle::read() copies the slice of the page, which becomes mData.
CopyOut(th) ==
    LET p == page[PageOf(th)]
    IN  /\ pc[th] = "copyOut"
        /\ array' = [array EXCEPT ![at[th]].mData =
                        IF p.mData = "loaded" THEN Here(th).slice ELSE Full(Garbage)]
        /\ wild' = (p.mData = "null")
        /\ Goto(th, "clear")
        /\ UNCHANGED <<mAttrs, page, locks, call, at, new, failures>>

\* The handle is reset, the flag cleared, the mutex released.
ClearFlag(th) ==
    /\ pc[th] = "clear"
    /\ array' = [array EXCEPT ![at[th]].mOutOfCore = FALSE, ![at[th]].mPageHandle = None]
    /\ mMutex' = [mMutex EXCEPT ![at[th]] = None]
    /\ Goto(th, "access")
    /\ UNCHANGED <<mAttrs, page, pageMutex, call, at, new, failures, wild>>

-----------------------------------------------------------------------------
(* The access itself                                                       *)

AccessAs(th, ops) == pc[th] = "access" /\ call[th].op \in ops

Read(th) ==
    /\ AccessAs(th, {"get"})
    /\ wild' = (array[at[th]].mData = None)
    /\ Return(th)
    /\ UNCHANGED <<mAttrs, array, page, locks, failures>>

\* expand(): every element gets the value of the uniform array.
Expanded(f) ==
    IF f.mIsUniform
    THEN [f EXCEPT !.mIsUniform = FALSE, !.mOutOfCore = FALSE,
                   !.mPageHandle = IF f.mOutOfCore THEN None ELSE @,
                   !.mData = IF @ = None THEN Full(Garbage) ELSE Full(@[1])]
    ELSE f

\* collapse(value): a uniform array keeps its memory, if it has any.
Collapsed(f, v) ==
    IF f.mIsUniform
    THEN [f EXCEPT !.mData = IF @ = None THEN None ELSE Uniform(v)]
    ELSE [f EXCEPT !.mIsUniform = TRUE, !.mOutOfCore = FALSE,
                   !.mPageHandle = IF f.mOutOfCore THEN None ELSE @,
                   !.mData = Uniform(v)]

\* Mutant: fill() does not detach.
FilledAttached(f, v) ==
    [f EXCEPT !.mData = IF f.mIsUniform THEN Uniform(v) ELSE Full(v)]

\* fill(value): detached from its file without loading.
Filled(f, v) ==
    [f EXCEPT !.mOutOfCore = FALSE,
              !.mPageHandle = IF f.mOutOfCore THEN None ELSE @,
              !.mData = IF f.mIsUniform THEN Uniform(v) ELSE Full(v)]

\* compact(): collapsed if all elements are the same.
Compacted(f) ==
    IF ~f.mIsUniform /\ f.mData # None /\ \A e \in Elements : f.mData[e] = f.mData[1]
    THEN Collapsed(f, f.mData[1])
    ELSE f

\* set(): expanded first.
WithElement(f, e, v) ==
    LET g == Expanded(f)
    IN  [g EXCEPT !.mData = IF @ = None THEN None ELSE [@ EXCEPT ![e] = v]]

Update(th, fields, needsData) ==
    /\ wild' = (needsData /\ array[at[th]].mData = None)
    /\ array' = [array EXCEPT ![at[th]] = fields]
    /\ Return(th)
    /\ UNCHANGED <<mAttrs, page, locks, failures>>

SetElement(th) ==
    /\ AccessAs(th, {"set"})
    /\ Update(th, WithElement(array[at[th]], call[th].element, call[th].value), TRUE)

Fill(th) ==
    /\ AccessAs(th, {"fill"})
    /\ Update(th, Filled(array[at[th]], call[th].value), FALSE)

Collapse(th) ==
    /\ AccessAs(th, {"collapse"})
    /\ Update(th, Collapsed(array[at[th]], call[th].value), array[at[th]].mIsUniform)

Expand(th) ==
    /\ AccessAs(th, {"expand"})
    /\ Update(th, Expanded(array[at[th]]), array[at[th]].mIsUniform)

Compact(th) ==
    /\ AccessAs(th, {"compact"})
    /\ Update(th, Compacted(array[at[th]]), ~array[at[th]].mIsUniform)

-----------------------------------------------------------------------------
(* Leaves come, go and are read from files                                 *)

Absent(s) == ~wild /\ mAttrs[s] = None /\ Users(s) = {}
Vacant(s) == ~wild /\ mAttrs[s] # None /\ Users(s) = {}

Create(s) ==
    /\ Absent(s)
    /\ \E a \in Arrays :
        /\ Free(a)
        /\ array' = [array EXCEPT ![a] = Created]
        /\ mAttrs' = [mAttrs EXCEPT ![s] = a]
    /\ UNCHANGED <<page, locks, thread, failures, wild>>

\* A copy of a set, of another leaf's or a copied grid's, shares its arrays.
Share(s, t) ==
    /\ Absent(s) /\ MayRead(t)
    /\ mAttrs' = [mAttrs EXCEPT ![s] = mAttrs[t]]
    /\ UNCHANGED <<array, page, locks, thread, failures, wild>>

\* replace() puts another set's array in the place of the own one.
Replace(s, t) ==
    /\ s # t /\ MayWrite(s) /\ MayRead(t)
    /\ mAttrs' = [mAttrs EXCEPT ![s] = mAttrs[t]]
    /\ array' = IF mAttrs[t] = mAttrs[s] THEN array ELSE Released(s)
    /\ wild' = (mAttrs[t] # mAttrs[s] /\ DestroysBytes(s))
    /\ UNCHANGED <<page, locks, thread, failures>>

\* Also of a leaf whose reading was broken off.
Destroy(s) ==
    /\ Vacant(s)
    /\ mAttrs' = [mAttrs EXCEPT ![s] = None]
    /\ array' = Released(s)
    /\ wild' = DestroysBytes(s)
    /\ UNCHANGED <<page, locks, thread, failures>>

\* The union holds the number of bytes from here on.
ReadMetadata(s, isUniform, paged) ==
    /\ Absent(s)
    /\ \E a \in Arrays :
        /\ Free(a)
        /\ mAttrs' = [mAttrs EXCEPT ![s] = a]
        /\ array' = [array EXCEPT ![a] =
                        [Created EXCEPT !.mIsUniform = isUniform, !.mUsePagedRead = paged,
                                        !.partial = TRUE, !.mPageHandle = Bytes]]
    /\ UNCHANGED <<page, locks, thread, failures, wild>>

Stored(isUniform) == IF isUniform THEN {Uniform(v) : v \in Values} ELSE [Elements -> Values]

Referenced(p) ==
    \E a \in Arrays : array[a].mPageHandle \in Handle /\ array[a].mPageHandle.page = p

\* The pass over the sizes: createHandle() takes the current page or reads
\* the header of the next one.
ReadSizes(s, p, slice) ==
    LET a == mAttrs[s]
    IN  /\ Vacant(s) /\ array[a].partial /\ array[a].mUsePagedRead
        /\ slice \in Stored(array[a].mIsUniform)
        /\ IF Referenced(p)
           THEN page[p].mInfo = "header" /\ UNCHANGED page
           ELSE page' = [page EXCEPT ![p] = [mInfo |-> "header", mData |-> "null"]]
        /\ array' = [array EXCEPT ![a].partial = FALSE,
                                  ![a].mPageHandle = [page |-> p, slice |-> slice]]
        /\ UNCHANGED <<mAttrs, locks, thread, failures, wild>>

\* The pass over the buffers of a memory-mapped file: the first array of a
\* page notes where the page is.
ReadDelayed(s) ==
    LET a == mAttrs[s]
        p == array[a].mPageHandle.page
    IN  /\ Vacant(s) /\ array[a].mUsePagedRead /\ ~array[a].partial
        /\ page' = IF page[p].mInfo = "header" THEN [page EXCEPT ![p].mInfo = "file"] ELSE page
        /\ array' = [array EXCEPT ![a].mUsePagedRead = FALSE, ![a].mOutOfCore = TRUE,
                                  ![a].mData = None]
        /\ UNCHANGED <<mAttrs, locks, thread, failures, wild>>

\* readBuffers(), without pages.  Pages of a stream that is not memory-mapped
\* are read on the spot: the array is left like this, whatever its handle is.
ReadPlain(s, data) ==
    LET a == mAttrs[s]
    IN  /\ Vacant(s) /\ array[a].partial /\ ~array[a].mUsePagedRead
        /\ data \in Stored(array[a].mIsUniform)
        /\ array' = [array EXCEPT ![a].partial = FALSE, ![a].mPageHandle = None,
                                  ![a].mData = data]
        /\ UNCHANGED <<mAttrs, page, locks, thread, failures, wild>>

-----------------------------------------------------------------------------

BeginStep(th) ==
    \/ \E s \in Sets : BeginRead(th, s)
    \/ \E c \in Calls : BeginWrite(th, c)

CopyStep(th) == CopyLock(th) \/ CopyFlags(th) \/ CopyHandle(th) \/ CopyData(th) \/ Assign(th)

LoadStep(th) ==
    \/ CheckInCore(th) \/ Lock(th) \/ Recheck(th)
    \/ CheckPage(th) \/ LockPage(th) \/ RecheckPage(th) \/ AllocatePage(th) \/ ReadPage(th)
    \/ LoadThrows(th) \/ CopyOut(th) \/ ClearFlag(th)

AccessStep(th) ==
    Read(th) \/ SetElement(th) \/ Fill(th) \/ Collapse(th) \/ Expand(th) \/ Compact(th)

Step(th) == CopyStep(th) \/ LoadStep(th) \/ AccessStep(th)

OwnerStep ==
    \E s \in Sets :
        \/ Create(s)
        \/ \E t \in Sets : Share(s, t) \/ Replace(s, t)
        \/ Destroy(s)
        \/ \E u, paged \in BOOLEAN : ReadMetadata(s, u, paged)
        \/ \E p \in Pages, slice \in Data : ReadSizes(s, p, slice)
        \/ ReadDelayed(s)
        \/ \E data \in Data : ReadPlain(s, data)

Next == OwnerStep \/ \E th \in Threads : BeginStep(th) \/ Step(th)

\* A thread that has begun a call goes on with it.
Fairness == \A th \in Threads : WF_vars(Step(th))

Spec == Init /\ [][Next]_vars /\ Fairness

-----------------------------------------------------------------------------
(* Properties                                                              *)

\* No null pointer is dereferenced, and no number of bytes destroyed as the
\* page handle the union also may be, in whatever state of being read a leaf
\* is dropped.
NotWild == ~wild

\* Who comes to access an array, whoever loaded it, finds it in memory and
\* still held by the set it got it from.
AccessSafe ==
    \A th \in Threads : pc[th] = "access" =>
        /\ at[th] = mAttrs[call[th].set]
        /\ call[th].op # "fill" => ~array[at[th]].mOutOfCore /\ array[at[th]].mData # None

\* A thread that changes an array is alone with it: no other set holds it
\* and no other thread reads, loads or copies it (copy on write).
WritesAlone ==
    \A th \in Threads : pc[th] = "access" /\ call[th].op # "get" =>
        /\ Holders(at[th]) = {call[th].set}
        /\ \A u \in Threads \ {th} : at[u] # at[th]

\* The arrays of a page read from it once it is complete; it is not loaded a
\* second time under them.
PageComplete == \A th \in Threads : pc[th] = "copyOut" => page[PageOf(th)].mData = "loaded"

\* The thread that holds the mutex which th waits for, if it waits for one.
Awaited(th) ==
    CASE pc[th] \in {"lock", "copyLock"} -> mMutex[at[th]]
      [] pc[th] = "lockPage" -> pageMutex[PageOf(th)]
      [] OTHER -> None

\* No thread spins on a mutex for ever because of the locks themselves: a
\* mutex that is waited for is held by a thread inside its call, also after
\* an exception; whoever holds that of a page waits for nobody, and whoever
\* holds that of an array waits for that of a page at most.
LockOrder ==
    \A th \in Threads :
        LET u == Awaited(th)
        IN  u # None =>
                /\ Busy(u)
                /\ Awaited(u) = None \/ (pc[th] # "lockPage" /\ pc[u] = "lockPage")

\* Refinement: each set has values of its own, whichever arrays are shared,
\* uniform or out of core.  A call that returns has had its effect, and that
\* on no other set; one that throws has had none.
Content(s) ==
    IF Present(s)
    THEN LET f == array[mAttrs[s]]
             data == IF f.mOutOfCore THEN f.mPageHandle.slice ELSE f.mData
         IN  [e \in Elements |-> IF data = None THEN Garbage ELSE Get(data, f.mIsUniform, e)]
    ELSE None

Contents == INSTANCE PointValues WITH content <- [s \in Sets |-> Content(s)]

SetsHaveValues == Contents!Spec

\* Whoever holds the mutex of an array releases it, by exception or not:
\* loading takes the mutex of the page under it.  (A call may wait for ever
\* for a spin mutex that others go on taking.)
MutexReleased == \A th \in Threads, a \in Arrays : mMutex[a] = th ~> (mMutex[a] # th \/ wild)
=============================================================================
