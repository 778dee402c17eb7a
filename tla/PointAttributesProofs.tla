----------------------- MODULE PointAttributesProofs -----------------------
(***************************************************************************)
(* Sharing, copy on write and delayed loading of attribute arrays are      *)
(* sound for any number of threads, leaves, arrays, pages, elements and    *)
(* values: the invariant Inv is inductive, and every set has values of its *)
(* own (PointValues).                                                      *)
(***************************************************************************)
EXTENDS PointAttributes, TLAPS

Loading == {"page", "lockPage", "recheckPage", "allocate", "read", "copyOut", "clear"}
HoldsPage == {"recheckPage", "allocate", "read"}
Accessing == {"check", "lock", "recheck", "access"} \cup Loading
HasNew == {"copyHandle", "copyData", "assign"}
Copying == {"copyLock", "copyFlags"} \cup HasNew
HoldsArray == {"recheck", "copyFlags", "copyHandle", "copyData"} \cup Loading

\* An array that can be used: its data are in memory or in the file.
Sound(f) ==
    /\ ~f.partial /\ ~f.mUsePagedRead /\ f.mPageHandle # Bytes
    /\ f.mOutOfCore => f.mPageHandle \in Handle /\ f.mPageHandle.slice \in Stored(f.mIsUniform)
    /\ ~f.mOutOfCore => f.mData \in Stored(f.mIsUniform)

\* An array that is being read: the union says how far.
Reading(f) ==
    /\ ~f.mOutOfCore
    /\ f.partial => f.mPageHandle = Bytes
    /\ ~f.partial =>
           /\ f.mUsePagedRead
           /\ f.mPageHandle \in Handle /\ f.mPageHandle.slice \in Stored(f.mIsUniform)

\* The values of the elements, from memory or from the file.
Row(f) ==
    [e \in Elements |-> Get(IF f.mOutOfCore THEN f.mPageHandle.slice ELSE f.mData, f.mIsUniform, e)]

\* A call in progress works on the array of its set, or on a copy of it.
CallOK ==
    \A th \in Threads :
        /\ ~Busy(th) => call[th] = None /\ at[th] = None
        /\ Busy(th) =>
               /\ call[th] \in Calls
               /\ at[th] \in Arrays /\ at[th] = mAttrs[call[th].set]
               /\ ~MidRead(at[th])
        /\ pc[th] \in Copying => call[th].op # "get"
        /\ new[th] # None <=> pc[th] \in HasNew

\* A non-const call has its set for itself.
ExclusionOK ==
    \A th, u \in Threads :
        th # u /\ Busy(th) /\ Busy(u) /\ call[th].op # "get" => call[th].set # call[u].set

\* Once past makeUnique() it has the array for itself as well.
UniqueOK ==
    \A th \in Threads : pc[th] \in Accessing /\ call[th].op # "get" =>
        \A s \in Sets : mAttrs[s] = at[th] => s = call[th].set

\* Nobody else knows of a copy.
NewOK ==
    \A th \in Threads : new[th] # None =>
        /\ \A s \in Sets : mAttrs[s] # new[th]
        /\ \A u \in Threads \ {th} : new[u] # new[th]

MutexOK ==
    \A th \in Threads :
        /\ pc[th] \in HoldsArray => mMutex[at[th]] = th
        /\ pc[th] \in HoldsPage => pageMutex[PageOf(th)] = th

\* The arrays that sets hold are usable or being read, and only the usable
\* ones are shared.
HeldOK ==
    \A s \in Sets : mAttrs[s] # None =>
        LET f == array[mAttrs[s]]
        IN  IF MidRead(mAttrs[s])
            THEN Reading(f) /\ \A t \in Sets : mAttrs[t] = mAttrs[s] => t = s
            ELSE Sound(f)

\* A page somebody refers to has its data once its mInfo is gone, and mInfo
\* leads to the file once an array is out of core.
PageOK ==
    \A a \in Arrays : array[a].mPageHandle \in Handle =>
        LET p == page[array[a].mPageHandle.page]
        IN  /\ p.mInfo = "none" => p.mData = "loaded"
            /\ array[a].mOutOfCore => p.mInfo # "header"

LoadOK ==
    \A th \in Threads :
        /\ pc[th] \in Loading => array[at[th]].mOutOfCore
        /\ pc[th] \in {"allocate", "read"} => page[PageOf(th)].mInfo # "none"
        /\ pc[th] = "copyOut" => page[PageOf(th)].mInfo = "none"
        /\ pc[th] = "clear" => array[at[th]].mData = Here(th).slice
        /\ pc[th] = "access" /\ call[th].op # "fill" => ~array[at[th]].mOutOfCore

CopyOK ==
    \A th \in Threads :
        /\ pc[th] = "copyHandle" =>
               array[new[th]] = [array[at[th]] EXCEPT !.mPageHandle = None, !.mData = None]
        /\ pc[th] = "copyData" =>
               array[new[th]] = [array[at[th]] EXCEPT !.mData = None]
        /\ pc[th] = "assign" =>
               Sound(array[new[th]]) /\ Row(array[new[th]]) = Row(array[at[th]])

Inv ==
    /\ TypeOK /\ CallOK /\ ExclusionOK /\ UniqueOK /\ NewOK /\ MutexOK
    /\ HeldOK /\ PageOK /\ LoadOK /\ CopyOK /\ NotWild

-----------------------------------------------------------------------------
(* The values of an array                                                  *)

\* The kinds of memory are different from each other and from null.
LEMMA Kinds ==
    /\ None \notin Data /\ None \notin Handle /\ Bytes \notin Handle /\ Bytes # None
    /\ None \notin Threads /\ None \notin Arrays /\ None \notin Sets /\ None \notin Calls
    /\ 1 \in Elements /\ Zero \in Values
  BY PointAssumption DEF Elements

\* A handle leads to a slice of a page.
LEMMA HandleFields ==
    /\ \A h \in Handle : h.page \in Pages /\ h.slice \in Data
    /\ \A p \in Pages, d \in Data : [page |-> p, slice |-> d] \in Handle
  BY DEF Handle

\* What an array or a file can hold are data.
LEMMA DataKinds ==
    /\ \A v \in Values \cup {Garbage} : Uniform(v) \in Data /\ Full(v) \in Data
    /\ \A u \in BOOLEAN : Stored(u) \subseteq Data
    /\ \A v \in Values : Uniform(v) \in Stored(TRUE) /\ Full(v) \in Stored(FALSE)
<1>1. \A v \in Values \cup {Garbage} : Uniform(v) \in Data /\ Full(v) \in Data
  BY DEF Uniform, Full, Data
<1>2. \A u \in BOOLEAN : Stored(u) \subseteq Data
  <2> SUFFICES ASSUME NEW u \in BOOLEAN, NEW d \in Stored(u) PROVE d \in Data
    OBVIOUS
  <2>1. CASE u
    BY <1>1, <2>1 DEF Stored
  <2>2. CASE ~u
    BY <2>2 DEF Stored, Data
  <2>. QED
    BY <2>1, <2>2
<1>3. \A v \in Values : Uniform(v) \in Stored(TRUE) /\ Full(v) \in Stored(FALSE)
  BY DEF Stored, Full
<1>. QED
  BY <1>1, <1>2, <1>3

\* The fields of an array have their types, and setting them keeps them.
LEMMA Fields ==
    ASSUME NEW f \in ArrayFields
    PROVE  /\ f.mIsUniform \in BOOLEAN /\ f.mOutOfCore \in BOOLEAN
           /\ f.mUsePagedRead \in BOOLEAN /\ f.partial \in BOOLEAN
           /\ f.mPageHandle \in Handle \cup {Bytes, None} /\ f.mData \in Data \cup {None}
  BY DEF ArrayFields

\* A usable array has a value of the type for every element.
LEMMA RowTyped ==
    ASSUME NEW f \in ArrayFields, Sound(f)
    PROVE  Row(f) \in [Elements -> Values]
<1>. DEFINE data == IF f.mOutOfCore THEN f.mPageHandle.slice ELSE f.mData
<1>1. data \in Stored(f.mIsUniform) /\ f.mIsUniform \in BOOLEAN
  BY Fields DEF Sound
<1>. SUFFICES ASSUME NEW e \in Elements PROVE Get(data, f.mIsUniform, e) \in Values
  BY DEF Row
<1>. HIDE DEF data
<1>2. CASE f.mIsUniform
  <2>1. PICK v \in Values : data = Uniform(v)
    BY <1>1, <1>2 DEF Stored
  <2>. QED
    BY <2>1, <1>2, Kinds DEF Get, Uniform
<1>3. CASE ~f.mIsUniform
  BY <1>1, <1>3 DEF Stored, Get
<1>. QED
  BY <1>2, <1>3

\* What a write makes of an array: it is in memory and detached or as before.
Fits(f, g) ==
    /\ g \in ArrayFields /\ Sound(g) /\ ~g.mOutOfCore
    /\ g.mPageHandle \in {f.mPageHandle, None}

\* expand() fills the elements with the value of the uniform array.
LEMMA ExpandedFits ==
    ASSUME NEW f \in ArrayFields, Sound(f), ~f.mOutOfCore
    PROVE  Fits(f, Expanded(f)) /\ Row(Expanded(f)) = Row(f) /\ ~Expanded(f).mIsUniform
<1>1. CASE ~f.mIsUniform
  BY <1>1 DEF Expanded, Fits
<1>2. CASE f.mIsUniform
  <2>1. PICK v \in Values : f.mData = Uniform(v)
    BY <1>2 DEF Sound, Stored
  <2>2. f.mData # None /\ f.mData[1] = v
    BY <2>1, DataKinds, Kinds DEF Uniform
  <2>3. Expanded(f) = [f EXCEPT !.mIsUniform = FALSE, !.mOutOfCore = FALSE, !.mData = Full(v)]
    BY <1>2, <2>2 DEF Expanded, ArrayFields
  <2>4. Expanded(f) \in ArrayFields
    BY <2>3, DataKinds DEF ArrayFields
  <2>5. /\ Expanded(f).mIsUniform = FALSE /\ Expanded(f).mOutOfCore = FALSE
        /\ Expanded(f).mData = Full(v) /\ Expanded(f).mPageHandle = f.mPageHandle
        /\ Expanded(f).partial = f.partial /\ Expanded(f).mUsePagedRead = f.mUsePagedRead
    BY <2>3 DEF ArrayFields
  <2>6. Fits(f, Expanded(f))
    BY <2>4, <2>5, DataKinds DEF Fits, Sound
  <2>7. Row(Expanded(f)) = Row(f)
    BY <2>1, <2>5, <1>2, Kinds DEF Row, Get, Full, Uniform
  <2>. QED
    BY <2>5, <2>6, <2>7
<1>. QED
  BY <1>1, <1>2

\* collapse() leaves one value for all elements.
LEMMA CollapsedFits ==
    ASSUME NEW f \in ArrayFields, Sound(f), ~f.mOutOfCore, NEW v \in Values
    PROVE  Fits(f, Collapsed(f, v)) /\ Row(Collapsed(f, v)) = [e \in Elements |-> v]
<1>1. f.mData # None
  BY DataKinds, Kinds, Fields DEF Sound
<1>2. Collapsed(f, v) = [f EXCEPT !.mIsUniform = TRUE, !.mOutOfCore = FALSE, !.mData = Uniform(v)]
  BY <1>1 DEF Collapsed, ArrayFields
<1>3. Collapsed(f, v) \in ArrayFields
  BY <1>2, DataKinds DEF ArrayFields
<1>4. /\ Collapsed(f, v).mIsUniform = TRUE /\ Collapsed(f, v).mOutOfCore = FALSE
      /\ Collapsed(f, v).mData = Uniform(v) /\ Collapsed(f, v).mPageHandle = f.mPageHandle
      /\ Collapsed(f, v).partial = f.partial /\ Collapsed(f, v).mUsePagedRead = f.mUsePagedRead
  BY <1>2 DEF ArrayFields
<1>5. Fits(f, Collapsed(f, v))
  BY <1>3, <1>4, DataKinds DEF Fits, Sound
<1>6. Row(Collapsed(f, v)) = [e \in Elements |-> v]
  BY <1>4, Kinds DEF Row, Get, Uniform
<1>. QED
  BY <1>5, <1>6

\* fill() does so whether the array is uniform or not, in memory or not.
LEMMA FilledFits ==
    ASSUME NEW f \in ArrayFields, Sound(f), NEW v \in Values
    PROVE  Fits(f, Filled(f, v)) /\ Row(Filled(f, v)) = [e \in Elements |-> v]
<1>. DEFINE g == Filled(f, v)
            d == IF f.mIsUniform THEN Uniform(v) ELSE Full(v)
<1>1. /\ g.mIsUniform = f.mIsUniform /\ g.mOutOfCore = FALSE /\ g.mData = d
      /\ g.mPageHandle \in {f.mPageHandle, None}
      /\ g.partial = f.partial /\ g.mUsePagedRead = f.mUsePagedRead
  BY DEF Filled, ArrayFields
<1>2. d \in Stored(f.mIsUniform) /\ d \in Data
  BY DataKinds, Fields
<1>3. g \in ArrayFields
  BY <1>2 DEF Filled, ArrayFields
<1>4. Fits(f, g)
  BY <1>1, <1>2, <1>3, Kinds DEF Fits, Sound
<1>5. Row(g) = [e \in Elements |-> v]
  BY <1>1, Kinds DEF Row, Get, Full, Uniform
<1>. QED
  BY <1>4, <1>5

\* compact() changes no value.
LEMMA CompactedFits ==
    ASSUME NEW f \in ArrayFields, Sound(f), ~f.mOutOfCore
    PROVE  Fits(f, Compacted(f)) /\ Row(Compacted(f)) = Row(f)
<1>1. CASE ~f.mIsUniform /\ f.mData # None /\ \A e \in Elements : f.mData[e] = f.mData[1]
  <2>1. f.mData[1] \in Values
    BY <1>1, Kinds DEF Sound, Stored
  <2>2. Compacted(f) = Collapsed(f, f.mData[1])
    BY <1>1 DEF Compacted
  <2>3. Row(f) = [e \in Elements |-> f.mData[1]]
    BY <1>1 DEF Row, Get
  <2>. QED
    BY <2>1, <2>2, <2>3, CollapsedFits
<1>2. CASE ~(~f.mIsUniform /\ f.mData # None /\ \A e \in Elements : f.mData[e] = f.mData[1])
  <2>1. Compacted(f) = f
    BY <1>2 DEF Compacted
  <2>. QED
    BY <2>1 DEF Fits
<1>. QED
  BY <1>1, <1>2

\* set() changes the value of one element.
LEMMA WithElementFits ==
    ASSUME NEW f \in ArrayFields, Sound(f), ~f.mOutOfCore, NEW e \in Elements, NEW v \in Values
    PROVE  /\ Fits(f, WithElement(f, e, v))
           /\ Row(WithElement(f, e, v)) = [Row(f) EXCEPT ![e] = v]
<1>. DEFINE g == Expanded(f)
            h == WithElement(f, e, v)
<1>1. Fits(f, g) /\ Row(g) = Row(f) /\ g.mIsUniform = FALSE /\ g \in ArrayFields
  BY ExpandedFits, Fields DEF Fits
<1>2. g.mData \in [Elements -> Values] /\ g.mData # None
  BY <1>1, DataKinds, Kinds DEF Fits, Sound, Stored
<1>. DEFINE d == [g.mData EXCEPT ![e] = v]
<1>3. d \in [Elements -> Values] /\ d \in Stored(FALSE) /\ d \in Data
  BY <1>2, DataKinds DEF Stored
<1>4. h = [g EXCEPT !.mData = d]
  BY <1>1, <1>2 DEF WithElement, ArrayFields
<1>. HIDE DEF g, d, h
<1>5. /\ h.mIsUniform = FALSE /\ h.mOutOfCore = g.mOutOfCore /\ h.mData = d
      /\ h.mPageHandle = g.mPageHandle
      /\ h.partial = g.partial /\ h.mUsePagedRead = g.mUsePagedRead
      /\ h \in ArrayFields
  BY <1>1, <1>3, <1>4 DEF ArrayFields
<1>6. Fits(f, h)
  BY <1>1, <1>3, <1>5 DEF Fits, Sound
<1>7. Row(h) = [Row(g) EXCEPT ![e] = v]
  BY <1>1, <1>2, <1>5, Kinds DEF Row, Get, Fits, d
<1>. QED
  BY <1>1, <1>6, <1>7 DEF g, h

-----------------------------------------------------------------------------
(* The invariant is inductive.                                             *)

LEMMA InitInv == Init => Inv
<1>. SUFFICES ASSUME Init PROVE Inv
  OBVIOUS
<1>. USE DEF Init, Busy
<1>1. Unused \in ArrayFields /\ Unused.mPageHandle = None
  BY DataKinds, Kinds DEF Unused, Created, ArrayFields
<1>2. TypeOK
  <2>1. array \in [Arrays -> ArrayFields] /\ page \in [Pages -> PageFields]
    BY <1>1 DEF PageFields
  <2>2. failures \in 0..MaxFailures
    BY PointAssumption
  <2>5. wild \in BOOLEAN
    BY Zenon
  <2>3. /\ mAttrs \in [Sets -> Arrays \cup {None}] /\ mMutex \in [Arrays -> Threads \cup {None}]
        /\ pageMutex \in [Pages -> Threads \cup {None}]
    OBVIOUS
  <2>4. /\ call \in [Threads -> Calls \cup {None}] /\ at \in [Threads -> Arrays \cup {None}]
        /\ new \in [Threads -> Arrays \cup {None}]
    OBVIOUS
  <2>. QED
    BY <2>1, <2>2, <2>3, <2>4, <2>5 DEF TypeOK
<1>3. CallOK /\ ExclusionOK /\ UniqueOK /\ NewOK /\ MutexOK
  BY DEF CallOK, ExclusionOK, UniqueOK, NewOK, MutexOK, Copying, HasNew, HoldsArray, HoldsPage,
      Loading, Accessing
<1>4. HeldOK /\ PageOK /\ LoadOK /\ CopyOK /\ NotWild
  BY <1>1, Kinds DEF HeldOK, PageOK, LoadOK, CopyOK, NotWild, Loading
<1>. QED
  BY <1>2, <1>3, <1>4 DEF Inv

\* A call in progress has a usable array that its set holds.
LEMMA AtWork ==
    ASSUME Inv, NEW th \in Threads, Busy(th)
    PROVE  /\ call[th] \in Calls /\ call[th].set \in Sets
           /\ at[th] \in Arrays /\ at[th] = mAttrs[call[th].set]
           /\ ~MidRead(at[th])
           /\ array[at[th]] \in ArrayFields /\ Sound(array[at[th]])
<1>1. call[th] \in Calls /\ at[th] \in Arrays /\ at[th] = mAttrs[call[th].set] /\ ~MidRead(at[th])
  BY DEF Inv, CallOK
<1>2. call[th].set \in Sets
  BY <1>1 DEF Calls
<1>3. array[at[th]] \in ArrayFields
  BY <1>1 DEF Inv, TypeOK
<1>4. Sound(array[at[th]])
  BY <1>1, <1>2, Kinds DEF Inv, HeldOK
<1>. QED
  BY <1>1, <1>2, <1>3, <1>4

\* Two threads that hold the mutex of an array are one.
LEMMA OneHolder ==
    ASSUME Inv, NEW th \in Threads, NEW u \in Threads, at[th] = at[u],
           pc[th] \in HoldsArray, pc[u] \in HoldsArray
    PROVE  th = u
  BY DEF Inv, MutexOK

\* So are two that hold the mutex of a page.
LEMMA OnePageHolder ==
    ASSUME Inv, NEW th \in Threads, NEW u \in Threads, PageOf(th) = PageOf(u),
           pc[th] \in HoldsPage, pc[u] \in HoldsPage
    PROVE  th = u
  BY DEF Inv, MutexOK

\* A thread that is loading has a page to load from.
LEMMA Loader ==
    ASSUME Inv, NEW th \in Threads, pc[th] \in Loading
    PROVE  /\ array[at[th]].mOutOfCore
           /\ Here(th) \in Handle /\ PageOf(th) \in Pages /\ Here(th).slice \in Data
           /\ Here(th).slice \in Stored(array[at[th]].mIsUniform)
           /\ page[PageOf(th)] \in PageFields
           /\ page[PageOf(th)].mInfo = "none" => page[PageOf(th)].mData = "loaded"
<1>1. Busy(th)
  BY DEF Busy, Loading
<1>2. array[at[th]].mOutOfCore
  BY DEF Inv, LoadOK
<1>3. Here(th) \in Handle /\ Here(th).slice \in Stored(array[at[th]].mIsUniform) /\ at[th] \in Arrays
  BY <1>1, <1>2, AtWork DEF Sound, Here
<1>4. PageOf(th) \in Pages /\ Here(th).slice \in Data
  BY <1>3, HandleFields DEF PageOf
<1>5. page[PageOf(th)] \in PageFields
  BY <1>4 DEF Inv, TypeOK
<1>6. page[PageOf(th)].mInfo = "none" => page[PageOf(th)].mData = "loaded"
  BY <1>3 DEF Inv, PageOK, PageOf, Here
<1>. QED
  BY <1>2, <1>3, <1>4, <1>5, <1>6

\* A thread that changes an array is the only one to work on it.
LEMMA Alone ==
    ASSUME Inv, NEW th \in Threads, pc[th] \in Accessing, call[th].op # "get",
           NEW u \in Threads, u # th, Busy(u)
    PROVE  at[u] # at[th]
<1>1. Busy(th)
  BY DEF Busy, Accessing, Loading
<1>2. call[u].set \in Sets /\ at[u] = mAttrs[call[u].set]
  BY AtWork
<1>3. call[th].set # call[u].set
  BY <1>1 DEF Inv, ExclusionOK
<1>. QED
  BY <1>2, <1>3 DEF Inv, UniqueOK

\* No call works on an unfinished copy.
LEMMA NewApart ==
    ASSUME Inv, NEW th \in Threads, new[th] # None, NEW u \in Threads, Busy(u)
    PROVE  new[th] \in Arrays /\ at[u] # new[th]
<1>1. call[u].set \in Sets /\ at[u] = mAttrs[call[u].set]
  BY AtWork
<1>. QED
  BY <1>1 DEF Inv, NewOK, TypeOK

\* Looking at the flags and taking the locks.
LEMMA LookInv ==
    ASSUME Inv, NEW th \in Threads,
           \/ CheckInCore(th) \/ Lock(th) \/ Recheck(th)
           \/ CheckPage(th) \/ LockPage(th) \/ RecheckPage(th)
    PROVE  Inv'
<1>. USE DEF Goto, Busy, MidRead, Here, PageOf, Loading, Accessing, Copying, HasNew, HoldsArray,
    HoldsPage, locks
<1>1. CASE CheckInCore(th)
  <2>1. TypeOK' /\ NotWild'
    BY <1>1 DEF CheckInCore, Inv, TypeOK, NotWild
  <2>2. CallOK'
    BY <1>1 DEF CheckInCore, Inv, CallOK, TypeOK
  <2>3. ExclusionOK' /\ UniqueOK' /\ NewOK'
    BY <1>1 DEF CheckInCore, Inv, ExclusionOK, UniqueOK, NewOK, TypeOK
  <2>4. MutexOK'
    BY <1>1 DEF CheckInCore, Inv, MutexOK, TypeOK
  <2>5. HeldOK'
    BY <1>1 DEF CheckInCore, Inv, HeldOK, TypeOK
  <2>6. PageOK'
    BY <1>1 DEF CheckInCore, Inv, PageOK, TypeOK
  <2>7. LoadOK'
    BY <1>1 DEF CheckInCore, Inv, LoadOK, TypeOK
  <2>8. CopyOK'
    BY <1>1 DEF CheckInCore, Inv, CopyOK, TypeOK
  <2>. QED
    BY <2>1, <2>2, <2>3, <2>4, <2>5, <2>6, <2>7, <2>8 DEF Inv
<1>2. CASE Lock(th)
  <2>1. TypeOK' /\ NotWild'
    BY <1>2 DEF Lock, Inv, TypeOK, NotWild
  <2>2. CallOK'
    BY <1>2 DEF Lock, Inv, CallOK, TypeOK
  <2>3. ExclusionOK' /\ UniqueOK' /\ NewOK'
    BY <1>2 DEF Lock, Inv, ExclusionOK, UniqueOK, NewOK, TypeOK
  <2>4. MutexOK'
    <3>. SUFFICES ASSUME NEW u \in Threads
                  PROVE  /\ pc'[u] \in HoldsArray => mMutex'[at'[u]] = u
                         /\ pc'[u] \in HoldsPage => pageMutex'[PageOf(u)'] = u
      BY DEF MutexOK
    <3>1. pc'[u] \in HoldsArray => mMutex'[at'[u]] = u
      <4>1. at[th] \in Arrays /\ (Busy(u) => at[u] \in Arrays) /\ u # None
        BY <1>2, AtWork, Kinds DEF Lock
      <4>2. CASE u = th
        BY <1>2, <4>1, <4>2 DEF Lock, Inv, TypeOK
      <4>3. CASE u # th
        BY <1>2, <4>1, <4>3 DEF Lock, Inv, TypeOK, MutexOK
      <4>. QED
        BY <4>2, <4>3
    <3>2. pc'[u] \in HoldsPage => pageMutex'[PageOf(u)'] = u
      BY <1>2 DEF Lock, Inv, TypeOK, MutexOK
    <3>. QED
      BY <3>1, <3>2
  <2>5. HeldOK'
    BY <1>2 DEF Lock, Inv, HeldOK, TypeOK
  <2>6. PageOK'
    BY <1>2 DEF Lock, Inv, PageOK, TypeOK
  <2>7. LoadOK'
    BY <1>2 DEF Lock, Inv, LoadOK, TypeOK
  <2>8. CopyOK'
    BY <1>2 DEF Lock, Inv, CopyOK, TypeOK
  <2>. QED
    BY <2>1, <2>2, <2>3, <2>4, <2>5, <2>6, <2>7, <2>8 DEF Inv
<1>3. CASE Recheck(th)
  <2>1. TypeOK' /\ NotWild'
    BY <1>3, AtWork, Kinds DEF Sound, Recheck, Inv, TypeOK, NotWild
  <2>2. CallOK'
    BY <1>3 DEF Recheck, Inv, CallOK, TypeOK
  <2>3. ExclusionOK' /\ UniqueOK' /\ NewOK'
    BY <1>3 DEF Recheck, Inv, ExclusionOK, UniqueOK, NewOK, TypeOK
  <2>4. MutexOK'
    <3>. SUFFICES ASSUME NEW u \in Threads
                  PROVE  /\ pc'[u] \in HoldsArray => mMutex'[at'[u]] = u
                         /\ pc'[u] \in HoldsPage => pageMutex'[PageOf(u)'] = u
      BY DEF MutexOK
    <3>1. pc'[u] \in HoldsArray => mMutex'[at'[u]] = u
      <4>1. at[th] \in Arrays /\ (Busy(u) => at[u] \in Arrays)
        BY <1>3, AtWork DEF Recheck
      <4>2. CASE u = th
        BY <1>3, <4>1, <4>2 DEF Recheck, Inv, TypeOK, MutexOK
      <4>3. CASE u # th
        <5>1. pc[u] \in HoldsArray => at[u] # at[th] /\ mMutex[at[u]] = u
          BY <1>3, <4>3, OneHolder DEF Recheck, Inv, MutexOK
        <5>. QED
          BY <1>3, <4>1, <4>3, <5>1 DEF Recheck, Inv, TypeOK
      <4>. QED
        BY <4>2, <4>3
    <3>2. pc'[u] \in HoldsPage => pageMutex'[PageOf(u)'] = u
      BY <1>3 DEF Recheck, Inv, TypeOK, MutexOK
    <3>. QED
      BY <3>1, <3>2
  <2>5. HeldOK'
    BY <1>3 DEF Recheck, Inv, HeldOK, TypeOK
  <2>6. PageOK'
    BY <1>3 DEF Recheck, Inv, PageOK, TypeOK
  <2>7. LoadOK'
    BY <1>3 DEF Recheck, Inv, LoadOK, TypeOK
  <2>8. CopyOK'
    BY <1>3 DEF Recheck, Inv, CopyOK, TypeOK
  <2>. QED
    BY <2>1, <2>2, <2>3, <2>4, <2>5, <2>6, <2>7, <2>8 DEF Inv
<1>4. CASE CheckPage(th)
  <2>1. TypeOK' /\ NotWild'
    BY <1>4 DEF CheckPage, Inv, TypeOK, NotWild
  <2>2. CallOK'
    BY <1>4 DEF CheckPage, Inv, CallOK, TypeOK
  <2>3. ExclusionOK' /\ UniqueOK' /\ NewOK'
    BY <1>4 DEF CheckPage, Inv, ExclusionOK, UniqueOK, NewOK, TypeOK
  <2>4. MutexOK'
    BY <1>4 DEF CheckPage, Inv, MutexOK, TypeOK
  <2>5. HeldOK'
    BY <1>4 DEF CheckPage, Inv, HeldOK, TypeOK
  <2>6. PageOK'
    BY <1>4 DEF CheckPage, Inv, PageOK, TypeOK
  <2>7. LoadOK'
    <3>1. pc' = [pc EXCEPT ![th] = IF page[PageOf(th)].mInfo = "none" THEN "copyOut" ELSE "lockPage"]
      BY <1>4 DEF CheckPage
    <3>2. UNCHANGED <<array, page, at, call>>
      BY <1>4 DEF CheckPage
    <3>3. pc[th] = "page" /\ DOMAIN pc = Threads
      BY <1>4 DEF CheckPage, Inv, TypeOK
    <3>4. LoadOK /\ array[at[th]].mOutOfCore
      BY <3>3, Loader DEF Inv
    <3>. QED
      BY <3>1, <3>2, <3>3, <3>4 DEF LoadOK
  <2>8. CopyOK'
    BY <1>4 DEF CheckPage, Inv, CopyOK, TypeOK
  <2>. QED
    BY <2>1, <2>2, <2>3, <2>4, <2>5, <2>6, <2>7, <2>8 DEF Inv
<1>5. CASE LockPage(th)
  <2>1. TypeOK' /\ NotWild'
    BY <1>5, Loader DEF LockPage, Inv, TypeOK, NotWild
  <2>2. CallOK'
    BY <1>5 DEF LockPage, Inv, CallOK, TypeOK
  <2>3. ExclusionOK' /\ UniqueOK' /\ NewOK'
    BY <1>5 DEF LockPage, Inv, ExclusionOK, UniqueOK, NewOK, TypeOK
  <2>4. MutexOK'
    <3>. SUFFICES ASSUME NEW u \in Threads
                  PROVE  /\ pc'[u] \in HoldsArray => mMutex'[at'[u]] = u
                         /\ pc'[u] \in HoldsPage => pageMutex'[PageOf(u)'] = u
      BY DEF MutexOK
    <3>1. pc'[u] \in HoldsArray => mMutex'[at'[u]] = u
      BY <1>5 DEF LockPage, Inv, TypeOK, MutexOK
    <3>2. pc'[u] \in HoldsPage => pageMutex'[PageOf(u)'] = u
      <4>1. PageOf(th) \in Pages /\ u # None
        BY <1>5, Loader, Kinds DEF LockPage
      <4>2. PageOf(u)' = PageOf(u)
        BY <1>5 DEF LockPage
      <4>3. pc[u] \in HoldsPage => pageMutex[PageOf(u)] = u
        BY DEF Inv, MutexOK
      <4>4. /\ pageMutex \in [Pages -> Threads \cup {None}] /\ pageMutex[PageOf(th)] = None
            /\ pageMutex' = [pageMutex EXCEPT ![PageOf(th)] = th]
            /\ pc' = [pc EXCEPT ![th] = "recheckPage"] /\ pc[th] = "lockPage"
        BY <1>5 DEF LockPage, Inv, TypeOK
      <4>5. pc \in [Threads -> {"idle", "check", "lock", "recheck", "page", "lockPage", "recheckPage",
                           "allocate", "read", "copyOut", "clear", "access",
                           "copyLock", "copyFlags", "copyHandle", "copyData", "assign"}]
        BY DEF Inv, TypeOK
      <4>. HIDE DEF PageOf
      <4>6. CASE u = th
        BY <4>1, <4>2, <4>4, <4>6
      <4>7. CASE u # th
        <5>1. pc'[u] = pc[u]
          BY <4>4, <4>5, <4>7
        <5>. QED
          BY <4>1, <4>2, <4>3, <4>4, <4>7, <5>1
      <4>. QED
        BY <4>6, <4>7
    <3>. QED
      BY <3>1, <3>2
  <2>5. HeldOK'
    BY <1>5 DEF LockPage, Inv, HeldOK, TypeOK
  <2>6. PageOK'
    BY <1>5 DEF LockPage, Inv, PageOK, TypeOK
  <2>7. LoadOK'
    BY <1>5 DEF LockPage, Inv, LoadOK, TypeOK
  <2>8. CopyOK'
    BY <1>5 DEF LockPage, Inv, CopyOK, TypeOK
  <2>. QED
    BY <2>1, <2>2, <2>3, <2>4, <2>5, <2>6, <2>7, <2>8 DEF Inv
<1>6. CASE RecheckPage(th)
  <2>1. TypeOK' /\ NotWild'
    BY <1>6, Loader DEF RecheckPage, Inv, TypeOK, NotWild
  <2>2. CallOK'
    BY <1>6 DEF RecheckPage, Inv, CallOK, TypeOK
  <2>3. ExclusionOK' /\ UniqueOK' /\ NewOK'
    BY <1>6 DEF RecheckPage, Inv, ExclusionOK, UniqueOK, NewOK, TypeOK
  <2>4. MutexOK'
    BY <1>6, Loader DEF RecheckPage, Inv, MutexOK, TypeOK
  <2>5. HeldOK'
    BY <1>6 DEF RecheckPage, Inv, HeldOK, TypeOK
  <2>6. PageOK'
    BY <1>6 DEF RecheckPage, Inv, PageOK, TypeOK
  <2>7. LoadOK'
    <3>1. pc' = [pc EXCEPT ![th] = IF page[PageOf(th)].mInfo = "none" THEN "copyOut" ELSE "allocate"]
      BY <1>6 DEF RecheckPage
    <3>2. UNCHANGED <<array, page, at, call>>
      BY <1>6 DEF RecheckPage
    <3>3. pc[th] = "recheckPage" /\ DOMAIN pc = Threads
      BY <1>6 DEF RecheckPage, Inv, TypeOK
    <3>4. LoadOK /\ array[at[th]].mOutOfCore
      BY <3>3, Loader DEF Inv
    <3>. QED
      BY <3>1, <3>2, <3>3, <3>4 DEF LoadOK
  <2>8. CopyOK'
    BY <1>6 DEF RecheckPage, Inv, CopyOK, TypeOK
  <2>. QED
    BY <2>1, <2>2, <2>3, <2>4, <2>5, <2>6, <2>7, <2>8 DEF Inv
<1>. QED
  BY <1>1, <1>2, <1>3, <1>4, <1>5, <1>6

\* A step that changes the array a thread works on, when nobody else relies
\* on how its values are stored.
LEMMA ChangeInv ==
    ASSUME Inv, NEW th \in Threads, pc[th] \in {"copyOut", "clear", "access"},
           NEW g \in ArrayFields, Sound(g), g.mPageHandle \in {Here(th), None},
           g.mOutOfCore => array[at[th]].mOutOfCore,
           array' = [array EXCEPT ![at[th]] = g],
           NEW p \in {"clear", "access", "idle"}, pc' = [pc EXCEPT ![th] = p],
           IF p = "idle"
           THEN call' = [call EXCEPT ![th] = None] /\ at' = [at EXCEPT ![th] = None]
           ELSE UNCHANGED <<call, at>>,
           p = "clear" => /\ pc[th] = "copyOut" /\ g.mOutOfCore
                          /\ g.mData = g.mPageHandle.slice,
           p = "access" => pc[th] = "clear" /\ ~g.mOutOfCore,
           mMutex' = IF p = "access" THEN [mMutex EXCEPT ![at[th]] = None] ELSE mMutex,
           \A u \in Threads : u # th /\ Busy(u) /\ at[u] = at[th] =>
               pc[u] \notin HoldsArray /\ Row(g) = Row(array[at[th]]),
           UNCHANGED <<mAttrs, page, pageMutex, new, failures>>, wild' = FALSE
    PROVE  Inv'
<1>. DEFINE a == at[th]
<1>1. /\ Busy(th) /\ a \in Arrays /\ a = mAttrs[call[th].set] /\ call[th].set \in Sets
      /\ Sound(array[a]) /\ array[a] \in ArrayFields /\ new[th] = None
  <2>1. Busy(th)
    BY DEF Busy
  <2>2. new[th] = None
    BY DEF Inv, CallOK, HasNew
  <2>. QED
    BY <2>1, <2>2, AtWork
<1>2. array'[a] = g /\ \A b \in Arrays : b # a => array'[b] = array[b]
  BY <1>1 DEF Inv, TypeOK
<1>3. \A b \in Arrays : MidRead(b)' = MidRead(b)
  BY <1>1, <1>2 DEF MidRead, Sound
<1>4. \A u \in Threads : new[u] # None => new[u] \in Arrays /\ new[u] # a
  BY <1>1, NewApart
<1>5. \A u \in Threads : u # th => pc'[u] = pc[u] /\ at'[u] = at[u] /\ call'[u] = call[u]
  BY DEF Inv, TypeOK
<1>6. /\ pc'[th] = p
      /\ IF p = "idle" THEN call'[th] = None /\ at'[th] = None
                       ELSE call'[th] = call[th] /\ at'[th] = a
  BY DEF Inv, TypeOK
<1>7. \A u \in Threads : u # th /\ Busy(u) /\ at[u] # a =>
          at[u] \in Arrays /\ array'[at'[u]] = array[at[u]] /\ mMutex'[at'[u]] = mMutex[at[u]]
  BY <1>1, <1>2, <1>5, AtWork DEF Inv, TypeOK
<1>8. TypeOK' /\ NotWild'
  <2>1. array' \in [Arrays -> ArrayFields] /\ mMutex' \in [Arrays -> Threads \cup {None}]
    BY DEF Inv, TypeOK
  <2>2. /\ pc' \in [Threads -> {"idle", "check", "lock", "recheck", "page", "lockPage",
                               "recheckPage", "allocate", "read", "copyOut", "clear", "access",
                               "copyLock", "copyFlags", "copyHandle", "copyData", "assign"}]
        /\ call' \in [Threads -> Calls \cup {None}] /\ at' \in [Threads -> Arrays \cup {None}]
    BY DEF Inv, TypeOK
  <2>3. wild' \in BOOLEAN
    BY Zenon
  <2>. QED
    BY <2>1, <2>2, <2>3 DEF Inv, TypeOK, NotWild
<1>. HIDE DEF a
<1>9. CallOK'
  <2>. SUFFICES ASSUME NEW u \in Threads
                PROVE  (/\ ~Busy(u) => call[u] = None /\ at[u] = None
                        /\ Busy(u) =>
                              /\ call[u] \in Calls
                              /\ at[u] \in Arrays /\ at[u] = mAttrs[call[u].set]
                              /\ ~MidRead(at[u])
                        /\ pc[u] \in Copying => call[u].op # "get"
                        /\ new[u] # None <=> pc[u] \in HasNew)'
    BY DEF CallOK
  <2>1. CASE u = th
    BY <1>1, <1>3, <1>6, <2>1 DEF Inv, CallOK, Busy, Copying, HasNew
  <2>2. CASE u # th
    BY <1>3, <1>5, <2>2 DEF Inv, CallOK, Busy, Copying, HasNew
  <2>. QED
    BY <2>1, <2>2
<1>10. ExclusionOK' /\ UniqueOK' /\ NewOK'
  <2>1. ExclusionOK'
    BY <1>1, <1>5, <1>6 DEF Inv, ExclusionOK, Busy
  <2>2. UniqueOK'
    BY <1>1, <1>5, <1>6 DEF Inv, UniqueOK, Accessing, Loading, a
  <2>3. NewOK'
    BY DEF Inv, NewOK
  <2>. QED
    BY <2>1, <2>2, <2>3
<1>11. HeldOK'
  BY <1>1, <1>2, <1>3 DEF Inv, HeldOK, MidRead, Sound, TypeOK
<1>12. PageOK'
  BY <1>1, <1>2, Kinds DEF Inv, PageOK, Here, a
<1>13. MutexOK'
  <2>. SUFFICES ASSUME NEW u \in Threads
                PROVE  /\ pc'[u] \in HoldsArray => mMutex'[at'[u]] = u
                       /\ pc'[u] \in HoldsPage => pageMutex'[PageOf(u)'] = u
    BY DEF MutexOK
  <2>1. CASE u = th
    BY <1>6, <2>1 DEF Inv, MutexOK, HoldsArray, HoldsPage, Loading, a
  <2>2. CASE u # th
    <3>1. pc[u] \in HoldsArray => Busy(u) /\ at[u] # a
      BY <2>2 DEF HoldsArray, Loading, Busy, a
    <3>2. pc[u] \in HoldsPage => pc[u] \in HoldsArray
      BY DEF HoldsPage, HoldsArray, Loading
    <3>3. pc[u] \in HoldsArray => PageOf(u)' = PageOf(u)
      BY <1>7, <2>2, <3>1 DEF PageOf, Here
    <3>. QED
      BY <1>5, <1>7, <2>2, <3>1, <3>2, <3>3 DEF Inv, MutexOK
  <2>. QED
    BY <2>1, <2>2
<1>14. LoadOK'
  <2>. SUFFICES ASSUME NEW u \in Threads
                PROVE  (/\ pc[u] \in Loading => array[at[u]].mOutOfCore
                        /\ pc[u] \in {"allocate", "read"} => page[PageOf(u)].mInfo # "none"
                        /\ pc[u] = "copyOut" => page[PageOf(u)].mInfo = "none"
                        /\ pc[u] = "clear" => array[at[u]].mData = Here(u).slice
                        /\ pc[u] = "access" /\ call[u].op # "fill" => ~array[at[u]].mOutOfCore)'
    BY DEF LoadOK
  <2>1. CASE u = th
    BY <1>2, <1>6, <2>1 DEF Loading, Here, a
  <2>2. CASE u # th /\ at[u] = a
    <3>1. Busy(u) => pc[u] \notin Loading
      BY <2>2 DEF HoldsArray, a
    <3>2. pc[u] \notin Loading
      BY <3>1 DEF Busy, Loading
    <3>. QED
      BY <1>2, <1>5, <2>2, <3>2 DEF Inv, LoadOK, Loading, a
  <2>3. CASE u # th /\ at[u] # a
    <3>1. pc[u] \in Loading \cup {"access"} => Busy(u)
      BY DEF Busy, Loading
    <3>2. pc[u] \in Loading \cup {"access"} =>
              array'[at'[u]] = array[at[u]] /\ Here(u)' = Here(u) /\ PageOf(u)' = PageOf(u)
      BY <1>7, <2>3, <3>1 DEF PageOf, Here
    <3>. QED
      BY <1>5, <2>3, <3>2 DEF Inv, LoadOK, Loading
  <2>. QED
    BY <2>1, <2>2, <2>3
<1>15. CopyOK'
  <2>. SUFFICES ASSUME NEW u \in Threads
                PROVE  /\ pc'[u] = "copyHandle" =>
                              array'[new'[u]] =
                                  [array'[at'[u]] EXCEPT !.mPageHandle = None, !.mData = None]
                       /\ pc'[u] = "copyData" =>
                              array'[new'[u]] = [array'[at'[u]] EXCEPT !.mData = None]
                       /\ pc'[u] = "assign" =>
                              /\ Sound(array'[new'[u]])
                              /\ Row(array'[new'[u]]) = Row(array'[at'[u]])
    BY DEF CopyOK
  <2>1. CASE pc'[u] \notin HasNew
    BY <2>1 DEF HasNew
  <2>2. CASE pc'[u] \in HasNew
    <3>1. u # th /\ pc[u] \in HasNew /\ Busy(u) /\ pc'[u] = pc[u] /\ at'[u] = at[u]
      BY <1>5, <1>6, <2>2 DEF HasNew, Busy
    <3>2. new[u] # None
      BY <3>1 DEF Inv, CallOK
    <3>3. array'[new'[u]] = array[new[u]]
      BY <1>2, <1>4, <3>2
    <3>4. CASE at[u] = a
      <4>1. pc[u] = "assign" /\ Row(g) = Row(array[a])
        BY <3>1, <3>4 DEF HoldsArray, HasNew, a
      <4>. QED
        BY <1>2, <3>1, <3>3, <3>4, <4>1 DEF Inv, CopyOK, Sound
    <3>5. CASE at[u] # a
      <4>1. array'[at'[u]] = array[at[u]]
        BY <1>7, <3>1, <3>5
      <4>. QED
        BY <3>1, <3>3, <4>1 DEF Inv, CopyOK, Sound
    <3>. QED
      BY <3>4, <3>5
  <2>. QED
    BY <2>1, <2>2
<1>. QED
  BY <1>8, <1>9, <1>10, <1>11, <1>12, <1>13, <1>14, <1>15 DEF Inv

\* Loading a page, or failing to.
LEMMA PageInv ==
    ASSUME Inv, NEW th \in Threads, AllocatePage(th) \/ ReadPage(th) \/ LoadThrows(th)
    PROVE  Inv'
<1>. USE DEF Goto, Busy, MidRead, Here, PageOf, Loading, Accessing, Copying, HasNew, HoldsArray,
    HoldsPage, locks
<1>0. pc \in [Threads -> {"idle", "check", "lock", "recheck", "page", "lockPage", "recheckPage",
                     "allocate", "read", "copyOut", "clear", "access",
                     "copyLock", "copyFlags", "copyHandle", "copyData", "assign"}]
  BY DEF Inv, TypeOK
<1>1. CASE AllocatePage(th)
  <2>1. TypeOK' /\ NotWild'
    BY <1>1, Loader DEF PageFields, AllocatePage, Inv, TypeOK, NotWild
  <2>2. CallOK'
    BY <1>1 DEF AllocatePage, Inv, CallOK, TypeOK
  <2>3. ExclusionOK' /\ UniqueOK' /\ NewOK'
    BY <1>1 DEF AllocatePage, Inv, ExclusionOK, UniqueOK, NewOK, TypeOK
  <2>4. MutexOK'
    BY <1>1 DEF AllocatePage, Inv, MutexOK, TypeOK
  <2>5. HeldOK'
    BY <1>1 DEF AllocatePage, Inv, HeldOK, TypeOK
  <2>6. PageOK'
    BY <1>1, Loader DEF PageFields, LoadOK, AllocatePage, Inv, PageOK, TypeOK
  <2>7. LoadOK'
    <3>. SUFFICES ASSUME NEW u \in Threads
                  PROVE  /\ pc'[u] \in Loading => array'[at'[u]].mOutOfCore
                         /\ pc'[u] \in {"allocate", "read"} => page'[PageOf(u)'].mInfo # "none"
                         /\ pc'[u] = "copyOut" => page'[PageOf(u)'].mInfo = "none"
                         /\ pc'[u] = "clear" => array'[at'[u]].mData = (Here(u)').slice
                         /\ pc'[u] = "access" /\ call'[u].op # "fill" => ~array'[at'[u]].mOutOfCore
      BY DEF LoadOK
    <3>1. /\ Here(u)' = Here(u) /\ PageOf(u)' = PageOf(u) /\ array' = array /\ at' = at /\ call' = call
          /\ PageOf(th) \in Pages /\ page[PageOf(th)] \in PageFields
          /\ (pc[u] \in Loading => PageOf(u) \in Pages)
      BY <1>1, Loader DEF AllocatePage
    <3>2. pc'[u] \in Loading => array'[at'[u]].mOutOfCore
      BY <1>1, <1>0, <3>1 DEF AllocatePage, Inv, LoadOK
    <3>3. pc'[u] = "clear" => array'[at'[u]].mData = (Here(u)').slice
      BY <1>1, <1>0, <3>1 DEF AllocatePage, Inv, LoadOK
    <3>4. pc'[u] = "access" /\ call'[u].op # "fill" => ~array'[at'[u]].mOutOfCore
      BY <1>1, <1>0, <3>1 DEF AllocatePage, Inv, LoadOK
    <3>5. /\ u # th /\ pc[u] \in {"allocate", "read"} => page[PageOf(u)].mInfo # "none"
          /\ pc[th] \in {"allocate", "read"} => page[PageOf(th)].mInfo # "none"
          /\ u # th /\ pc[u] = "copyOut" => page[PageOf(u)].mInfo = "none"
          /\ u # th => pc'[u] = pc[u]
          /\ pc[u] \in {"allocate", "read", "copyOut"} => PageOf(u) \in Pages
          /\ page \in [Pages -> PageFields]
      BY <1>1, <1>0, <3>1 DEF AllocatePage, Inv, LoadOK, TypeOK
    <3>6. pc'[u] \in {"allocate", "read"} => page'[PageOf(u)'].mInfo # "none"
      <4>. HIDE DEF PageOf, Here
      <4>. QED
        BY <1>1, <1>0, <3>1, <3>5 DEF AllocatePage, PageFields
    <3>7. pc'[u] = "copyOut" => page'[PageOf(u)'].mInfo = "none"
      <4>. HIDE DEF PageOf, Here
      <4>. QED
        BY <1>1, <1>0, <3>1, <3>5 DEF AllocatePage, PageFields
    <3>. QED
      BY <3>2, <3>3, <3>4, <3>6, <3>7
  <2>8. CopyOK'
    BY <1>1 DEF AllocatePage, Inv, CopyOK, TypeOK
  <2>. QED
    BY <2>1, <2>2, <2>3, <2>4, <2>5, <2>6, <2>7, <2>8 DEF Inv
<1>2. CASE ReadPage(th)
  <2>1. TypeOK' /\ NotWild'
    BY <1>2, Loader DEF PageFields, ReadPage, Inv, TypeOK, NotWild
  <2>2. CallOK'
    BY <1>2 DEF ReadPage, Inv, CallOK, TypeOK
  <2>3. ExclusionOK' /\ UniqueOK' /\ NewOK'
    BY <1>2 DEF ReadPage, Inv, ExclusionOK, UniqueOK, NewOK, TypeOK
  <2>4. MutexOK'
    <3>. SUFFICES ASSUME NEW u \in Threads
                  PROVE  /\ pc'[u] \in HoldsArray => mMutex'[at'[u]] = u
                         /\ pc'[u] \in HoldsPage => pageMutex'[PageOf(u)'] = u
      BY DEF MutexOK
    <3>1. pc'[u] \in HoldsArray => mMutex'[at'[u]] = u
      BY <1>2 DEF ReadPage, Inv, TypeOK, MutexOK
    <3>2. pc'[u] \in HoldsPage => pageMutex'[PageOf(u)'] = u
      <4>1. PageOf(th) \in Pages
        BY <1>2, Loader DEF ReadPage
      <4>2. pc[u] \in HoldsPage /\ u # th => PageOf(u) # PageOf(th) /\ pageMutex[PageOf(u)] = u
        BY <1>2, OnePageHolder DEF ReadPage, Inv, MutexOK
      <4>3. CASE u = th
        BY <1>2, <1>0, <4>3 DEF ReadPage, Return
      <4>4. CASE u # th
        <5>1. pc[u] \in HoldsPage => PageOf(u) \in Pages
          BY Loader
        <5>2. /\ pc'[u] = pc[u] /\ (pc[u] \in HoldsPage => PageOf(u)' = PageOf(u))
              /\ pageMutex' = [pageMutex EXCEPT ![PageOf(th)] = None]
          BY <1>2, <1>0, <4>4 DEF ReadPage, Return
        <5>3. pageMutex \in [Pages -> Threads \cup {None}]
          BY DEF Inv, TypeOK
        <5>. HIDE DEF PageOf, HoldsPage
        <5>. QED
          BY <4>1, <4>2, <4>4, <5>1, <5>2, <5>3
      <4>. QED
        BY <4>3, <4>4
    <3>. QED
      BY <3>1, <3>2
  <2>5. HeldOK'
    BY <1>2 DEF ReadPage, Inv, HeldOK, TypeOK
  <2>6. PageOK'
    BY <1>2, Loader DEF PageFields, ReadPage, Inv, PageOK, TypeOK
  <2>7. LoadOK'
    <3>. SUFFICES ASSUME NEW u \in Threads
                  PROVE  /\ pc'[u] \in Loading => array'[at'[u]].mOutOfCore
                         /\ pc'[u] \in {"allocate", "read"} => page'[PageOf(u)'].mInfo # "none"
                         /\ pc'[u] = "copyOut" => page'[PageOf(u)'].mInfo = "none"
                         /\ pc'[u] = "clear" => array'[at'[u]].mData = (Here(u)').slice
                         /\ pc'[u] = "access" /\ call'[u].op # "fill" => ~array'[at'[u]].mOutOfCore
      BY DEF LoadOK
    <3>1. /\ Here(u)' = Here(u) /\ PageOf(u)' = PageOf(u) /\ array' = array /\ at' = at /\ call' = call
          /\ PageOf(th) \in Pages /\ page[PageOf(th)] \in PageFields
          /\ (pc[u] \in Loading => PageOf(u) \in Pages)
      BY <1>2, Loader DEF ReadPage
    <3>2. pc'[u] \in Loading => array'[at'[u]].mOutOfCore
      BY <1>2, <1>0, <3>1 DEF ReadPage, Inv, LoadOK
    <3>3. pc'[u] = "clear" => array'[at'[u]].mData = (Here(u)').slice
      BY <1>2, <1>0, <3>1 DEF ReadPage, Inv, LoadOK
    <3>4. pc'[u] = "access" /\ call'[u].op # "fill" => ~array'[at'[u]].mOutOfCore
      BY <1>2, <1>0, <3>1 DEF ReadPage, Inv, LoadOK
    <3>5. /\ u # th /\ pc[u] \in {"allocate", "read"} => page[PageOf(u)].mInfo # "none"
          /\ pc[th] \in {"allocate", "read"} => page[PageOf(th)].mInfo # "none"
          /\ u # th /\ pc[u] = "copyOut" => page[PageOf(u)].mInfo = "none"
          /\ u # th => pc'[u] = pc[u]
          /\ pc[u] \in {"allocate", "read", "copyOut"} => PageOf(u) \in Pages
          /\ page \in [Pages -> PageFields]
      BY <1>2, <1>0, <3>1 DEF ReadPage, Inv, LoadOK, TypeOK
    <3>6. pc'[u] \in {"allocate", "read"} => page'[PageOf(u)'].mInfo # "none"
      <4>1. u # th /\ pc[u] \in {"allocate", "read"} => PageOf(u) # PageOf(th)
        BY <1>2, OnePageHolder DEF ReadPage
      <4>. HIDE DEF PageOf, Here
      <4>. QED
        BY <1>2, <1>0, <3>1, <3>5, <4>1 DEF ReadPage, PageFields
    <3>7. pc'[u] = "copyOut" => page'[PageOf(u)'].mInfo = "none"
      <4>. HIDE DEF PageOf, Here
      <4>. QED
        BY <1>2, <1>0, <3>1, <3>5 DEF ReadPage, PageFields
    <3>. QED
      BY <3>2, <3>3, <3>4, <3>6, <3>7
  <2>8. CopyOK'
    BY <1>2 DEF ReadPage, Inv, CopyOK, TypeOK
  <2>. QED
    BY <2>1, <2>2, <2>3, <2>4, <2>5, <2>6, <2>7, <2>8 DEF Inv
<1>3. CASE LoadThrows(th)
  <2>1. TypeOK' /\ NotWild'
    <3>1. failures' \in 0..MaxFailures
      BY <1>3, PointAssumption DEF LoadThrows, Inv, TypeOK
    <3>2. /\ pc' = [pc EXCEPT ![th] = "idle"] /\ call' = [call EXCEPT ![th] = None]
          /\ at' = [at EXCEPT ![th] = None] /\ UNCHANGED <<mAttrs, array, page, new, wild>>
          /\ pageMutex' = [pageMutex EXCEPT ![PageOf(th)] = None]
          /\ mMutex' = [mMutex EXCEPT ![at[th]] = None]
      BY <1>3 DEF LoadThrows, Return
    <3>. HIDE DEF PageOf
    <3>. QED
      BY <3>1, <3>2 DEF Inv, TypeOK, NotWild
  <2>2. CallOK'
    BY <1>3, Loader DEF Return, LoadThrows, Inv, CallOK, TypeOK
  <2>3. ExclusionOK' /\ UniqueOK' /\ NewOK'
    BY <1>3, Kinds DEF Return, LoadThrows, Inv, ExclusionOK, UniqueOK, NewOK, TypeOK
  <2>4. MutexOK'
    <3>. SUFFICES ASSUME NEW u \in Threads
                  PROVE  /\ pc'[u] \in HoldsArray => mMutex'[at'[u]] = u
                         /\ pc'[u] \in HoldsPage => pageMutex'[PageOf(u)'] = u
      BY DEF MutexOK
    <3>1. pc'[u] \in HoldsArray => mMutex'[at'[u]] = u
      <4>1. at[th] \in Arrays /\ (Busy(u) => at[u] \in Arrays)
        BY <1>3, AtWork DEF LoadThrows
      <4>2. CASE u = th
        BY <1>3, <1>0, <4>2 DEF LoadThrows, Return
      <4>3. CASE u # th
        <5>1. pc[u] \in HoldsArray => at[u] # at[th] /\ mMutex[at[u]] = u
          BY <1>3, <4>3, OneHolder DEF LoadThrows, Inv, MutexOK
        <5>. QED
          BY <1>3, <4>1, <4>3, <5>1 DEF LoadThrows, Return, Inv, TypeOK
      <4>. QED
        BY <4>2, <4>3
    <3>2. pc'[u] \in HoldsPage => pageMutex'[PageOf(u)'] = u
      <4>1. PageOf(th) \in Pages
        BY <1>3, Loader DEF LoadThrows
      <4>2. pc[u] \in HoldsPage /\ u # th => PageOf(u) # PageOf(th) /\ pageMutex[PageOf(u)] = u
        BY <1>3, OnePageHolder DEF LoadThrows, Inv, MutexOK
      <4>3. CASE u = th
        BY <1>3, <1>0, <4>3 DEF LoadThrows, Return
      <4>4. CASE u # th
        <5>1. pc[u] \in HoldsPage => PageOf(u) \in Pages
          BY Loader
        <5>2. /\ pc'[u] = pc[u] /\ (pc[u] \in HoldsPage => PageOf(u)' = PageOf(u))
              /\ pageMutex' = [pageMutex EXCEPT ![PageOf(th)] = None]
          BY <1>3, <1>0, <4>4 DEF LoadThrows, Return
        <5>3. pageMutex \in [Pages -> Threads \cup {None}]
          BY DEF Inv, TypeOK
        <5>. HIDE DEF PageOf, HoldsPage
        <5>. QED
          BY <4>1, <4>2, <4>4, <5>1, <5>2, <5>3
      <4>. QED
        BY <4>3, <4>4
    <3>. QED
      BY <3>1, <3>2
  <2>5. HeldOK'
    BY <1>3 DEF Return, LoadThrows, Inv, HeldOK, TypeOK
  <2>6. PageOK'
    BY <1>3 DEF Return, LoadThrows, Inv, PageOK, TypeOK
  <2>7. LoadOK'
    BY <1>3 DEF Return, LoadThrows, Inv, LoadOK, TypeOK
  <2>8. CopyOK'
    BY <1>3 DEF Return, LoadThrows, Inv, CopyOK, TypeOK
  <2>. QED
    BY <2>1, <2>2, <2>3, <2>4, <2>5, <2>6, <2>7, <2>8 DEF Inv
<1>. QED
  BY <1>1, <1>2, <1>3

\* The slice of the page becomes the array's data.
LEMMA CopyOutInv ==
    ASSUME Inv, NEW th \in Threads, CopyOut(th)
    PROVE  Inv'
<1>. DEFINE f == array[at[th]]
            g == [f EXCEPT !.mData = Here(th).slice]
<1>1. /\ pc[th] = "copyOut" /\ pc[th] \in Loading /\ pc[th] \in HoldsArray /\ Busy(th)
      /\ page[PageOf(th)].mData = "loaded"
  BY Loader DEF CopyOut, Loading, HoldsArray, Busy, Inv, LoadOK
<1>2. f \in ArrayFields /\ Sound(f) /\ at[th] \in Arrays
  BY <1>1, AtWork
<1>3. f.mOutOfCore /\ Here(th) \in Handle /\ Here(th).slice \in Data
  BY <1>1, Loader
<1>4. /\ g \in ArrayFields /\ g.mOutOfCore = f.mOutOfCore /\ g.mPageHandle = f.mPageHandle
      /\ g.mIsUniform = f.mIsUniform /\ g.partial = f.partial /\ g.mUsePagedRead = f.mUsePagedRead
      /\ g.mData = Here(th).slice
  BY <1>2, <1>3 DEF ArrayFields
<1>5. Sound(g) /\ Row(g) = Row(f)
  BY <1>2, <1>3, <1>4 DEF Sound, Row
<1>6. array' = [array EXCEPT ![at[th]] = g]
  BY <1>1, <1>2, <1>3, <1>4 DEF CopyOut, Inv, TypeOK, ArrayFields
<1>7. \A u \in Threads : u # th /\ Busy(u) /\ at[u] = at[th] => pc[u] \notin HoldsArray
  BY <1>1, OneHolder
<1>8. /\ pc' = [pc EXCEPT ![th] = "clear"] /\ mMutex' = mMutex
      /\ UNCHANGED <<call, at, mAttrs, page, pageMutex, new, failures>>
  BY DEF CopyOut, Goto, locks
<1>9. wild' = FALSE
  <2>1. wild' = (page[PageOf(th)].mData = "null")
    BY Zenon DEF CopyOut
  <2>2. page[PageOf(th)].mData # "null"
    BY <1>1
  <2>. QED
    BY <2>1, <2>2, Zenon
<1>10. g.mPageHandle = Here(th) /\ g.mData = g.mPageHandle.slice /\ g.mOutOfCore
  BY <1>3, <1>4 DEF Here
<1>. HIDE DEF f, g
<1>. QED
  BY <1>1, <1>2, <1>4, <1>5, <1>6, <1>7, <1>8, <1>9, <1>10, ChangeInv DEF f

\* The handle is dropped once the data are in memory.
LEMMA ClearFlagInv ==
    ASSUME Inv, NEW th \in Threads, ClearFlag(th)
    PROVE  Inv'
<1>. DEFINE f == array[at[th]]
            g == [f EXCEPT !.mOutOfCore = FALSE, !.mPageHandle = None]
<1>1. pc[th] = "clear" /\ pc[th] \in Loading /\ pc[th] \in HoldsArray /\ Busy(th)
  BY DEF ClearFlag, Loading, HoldsArray, Busy
<1>2. f \in ArrayFields /\ Sound(f) /\ at[th] \in Arrays
  BY <1>1, AtWork
<1>3. /\ f.mOutOfCore /\ Here(th) \in Handle /\ f.mData = Here(th).slice
      /\ Here(th).slice \in Stored(f.mIsUniform)
  BY <1>1, Loader DEF Inv, LoadOK
<1>4. /\ g \in ArrayFields /\ g.mOutOfCore = FALSE /\ g.mPageHandle = None
      /\ g.mIsUniform = f.mIsUniform /\ g.partial = f.partial /\ g.mUsePagedRead = f.mUsePagedRead
      /\ g.mData = f.mData
  BY <1>2 DEF ArrayFields
<1>5. Sound(g)
  BY <1>2, <1>3, <1>4, Kinds DEF Sound
<1>6. Row(g) = Row(f)
  BY <1>3, <1>4 DEF Row, Here
<1>7. array' = [array EXCEPT ![at[th]] = g]
  BY <1>2 DEF ClearFlag, Inv, TypeOK, ArrayFields
<1>8. \A u \in Threads : u # th /\ Busy(u) /\ at[u] = at[th] => pc[u] \notin HoldsArray
  BY <1>1, OneHolder
<1>9. /\ pc' = [pc EXCEPT ![th] = "access"] /\ mMutex' = [mMutex EXCEPT ![at[th]] = None]
      /\ UNCHANGED <<call, at, mAttrs, page, pageMutex, new, failures>>
  BY DEF ClearFlag, Goto
<1>11. wild' = FALSE
  BY Zenon DEF ClearFlag, Inv, NotWild, TypeOK
<1>10. g.mPageHandle \in {Here(th), None} /\ (g.mOutOfCore => f.mOutOfCore)
  BY <1>4
<1>. HIDE DEF f, g
<1>. QED
  BY <1>1, <1>4, <1>5, <1>6, <1>7, <1>8, <1>9, <1>10, <1>11, ChangeInv DEF f

\* A write: alone with its array, a thread leaves it in memory.
LEMMA UpdateInv ==
    ASSUME Inv, NEW th \in Threads, pc[th] = "access", call[th].op # "get",
           NEW g, Fits(array[at[th]], g), array' = [array EXCEPT ![at[th]] = g],
           Return(th), UNCHANGED <<mAttrs, page, locks, failures>>, wild' = FALSE
    PROVE  Inv'
<1>1. g \in ArrayFields /\ Sound(g) /\ ~g.mOutOfCore /\ g.mPageHandle \in {Here(th), None}
  BY DEF Fits, Here
<1>2. \A u \in Threads : u # th /\ Busy(u) => at[u] # at[th]
  BY Alone DEF Accessing
<1>3. /\ pc' = [pc EXCEPT ![th] = "idle"] /\ call' = [call EXCEPT ![th] = None]
      /\ at' = [at EXCEPT ![th] = None] /\ mMutex' = mMutex /\ pageMutex' = pageMutex
      /\ UNCHANGED <<mAttrs, page, new, failures>>
  BY DEF Return, locks
<1>. QED
  BY <1>1, <1>2, <1>3, ChangeInv

\* A thread comes to access an array that is usable, and in memory unless
\* fill() is to detach it.
LEMMA Ready ==
    ASSUME Inv, NEW th \in Threads, pc[th] = "access"
    PROVE  LET f == array[at[th]]
           IN  /\ f \in ArrayFields /\ Sound(f) /\ at[th] \in Arrays /\ call[th] \in Calls
               /\ call[th].op # "fill" => ~f.mOutOfCore /\ f.mData # None
<1>1. Busy(th)
  BY DEF Busy
<1>2. /\ array[at[th]] \in ArrayFields /\ Sound(array[at[th]]) /\ at[th] \in Arrays
      /\ call[th] \in Calls
  BY <1>1, AtWork
<1>3. call[th].op # "fill" => ~array[at[th]].mOutOfCore
  BY DEF Inv, LoadOK
<1>4. ~array[at[th]].mOutOfCore => array[at[th]].mData # None
  BY <1>2, DataKinds, Kinds, Fields DEF Sound
<1>. QED
  BY <1>2, <1>3, <1>4

\* A write makes of the values of the array what PointValues says.
LEMMA WriteStep ==
    ASSUME Inv, NEW th \in Threads,
           SetElement(th) \/ Fill(th) \/ Collapse(th) \/ Expand(th) \/ Compact(th)
    PROVE  \E g : /\ Fits(array[at[th]], g) /\ array' = [array EXCEPT ![at[th]] = g]
                  /\ Row(g) = Contents!Effect(call[th], Row(array[at[th]]))
                  /\ pc[th] = "access" /\ call[th].op # "get"
                  /\ Return(th) /\ UNCHANGED <<mAttrs, page, locks, failures>> /\ wild' = FALSE
<1>. DEFINE f == array[at[th]]
            c == call[th]
<1>1. pc[th] = "access"
  BY DEF SetElement, Fill, Collapse, Expand, Compact, AccessAs
<1>2. /\ f \in ArrayFields /\ Sound(f) /\ c \in Calls
      /\ c.op # "fill" => ~f.mOutOfCore /\ f.mData # None
  BY <1>1, Ready
<1>3. c.element \in Elements /\ c.value \in Values
  BY <1>2, Kinds DEF Calls
<1>. HIDE DEF f, c
<1>4. CASE SetElement(th)
  <2>1. c.op = "set" /\ Update(th, WithElement(f, c.element, c.value), TRUE)
    BY <1>4 DEF SetElement, AccessAs, f, c
  <2>. DEFINE g == WithElement(f, c.element, c.value)
  <2>2. Fits(f, g) /\ Row(g) = [Row(f) EXCEPT ![c.element] = c.value]
    BY <1>2, <1>3, <2>1, WithElementFits
  <2>3. /\ array' = [array EXCEPT ![at[th]] = g] /\ Return(th) /\ wild' = FALSE
        /\ UNCHANGED <<mAttrs, page, locks, failures>>
    BY <1>2, <1>4, <2>1 DEF SetElement, Update, f, c
  <2>. HIDE DEF g
  <2>. QED
    BY <1>1, <2>1, <2>2, <2>3 DEF Contents!Effect, Contents!Elements, Elements, f, c
<1>5. CASE Fill(th)
  <2>1. c.op = "fill"
    BY <1>5 DEF Fill, AccessAs, c
  <2>. DEFINE g == Filled(f, c.value)
  <2>2. Fits(f, g) /\ Row(g) = [e \in Elements |-> c.value]
    BY <1>2, <1>3, FilledFits
  <2>3. /\ array' = [array EXCEPT ![at[th]] = g] /\ Return(th) /\ wild' = FALSE
        /\ UNCHANGED <<mAttrs, page, locks, failures>>
    BY <1>5 DEF Fill, Update, f, c
  <2>. HIDE DEF g
  <2>. QED
    BY <1>1, <2>1, <2>2, <2>3 DEF Contents!Effect, Contents!Elements, Elements, f, c
<1>6. CASE Collapse(th)
  <2>1. c.op = "collapse"
    BY <1>6 DEF Collapse, AccessAs, c
  <2>. DEFINE g == Collapsed(f, c.value)
  <2>2. Fits(f, g) /\ Row(g) = [e \in Elements |-> c.value]
    BY <1>2, <1>3, <2>1, CollapsedFits
  <2>3. /\ array' = [array EXCEPT ![at[th]] = g] /\ Return(th) /\ wild' = FALSE
        /\ UNCHANGED <<mAttrs, page, locks, failures>>
    BY <1>2, <2>1, <1>6 DEF Collapse, Update, f, c
  <2>. HIDE DEF g
  <2>. QED
    BY <1>1, <2>1, <2>2, <2>3 DEF Contents!Effect, Contents!Elements, Elements, f, c
<1>7. CASE Expand(th)
  <2>1. c.op = "expand"
    BY <1>7 DEF Expand, AccessAs, c
  <2>. DEFINE g == Expanded(f)
  <2>2. Fits(f, g) /\ Row(g) = Row(f)
    BY <1>2, <2>1, ExpandedFits
  <2>3. /\ array' = [array EXCEPT ![at[th]] = g] /\ Return(th) /\ wild' = FALSE
        /\ UNCHANGED <<mAttrs, page, locks, failures>>
    BY <1>2, <2>1, <1>7 DEF Expand, Update, f
  <2>. HIDE DEF g
  <2>. QED
    BY <1>1, <2>1, <2>2, <2>3 DEF Contents!Effect, Contents!Elements, Elements, f, c
<1>8. CASE Compact(th)
  <2>1. c.op = "compact"
    BY <1>8 DEF Compact, AccessAs, c
  <2>. DEFINE g == Compacted(f)
  <2>2. Fits(f, g) /\ Row(g) = Row(f)
    BY <1>2, <2>1, CompactedFits
  <2>3. /\ array' = [array EXCEPT ![at[th]] = g] /\ Return(th) /\ wild' = FALSE
        /\ UNCHANGED <<mAttrs, page, locks, failures>>
    BY <1>2, <2>1, <1>8 DEF Compact, Update, f
  <2>. HIDE DEF g
  <2>. QED
    BY <1>1, <2>1, <2>2, <2>3 DEF Contents!Effect, Contents!Elements, Elements, f, c
<1>. QED
  BY <1>4, <1>5, <1>6, <1>7, <1>8

\* The accesses.
LEMMA AccessInv ==
    ASSUME Inv, NEW th \in Threads, AccessStep(th)
    PROVE  Inv'
<1>. USE DEF Goto, Busy, MidRead, Here, PageOf, Loading, Accessing, Copying, HasNew, HoldsArray,
    HoldsPage, locks, Return
<1>1. CASE Read(th)
  <2>1. TypeOK' /\ NotWild'
    BY <1>1, Ready DEF AccessAs, Read, Inv, TypeOK, NotWild
  <2>2. CallOK'
    BY <1>1 DEF AccessAs, Read, Inv, CallOK, TypeOK
  <2>3. ExclusionOK' /\ UniqueOK' /\ NewOK'
    BY <1>1, Kinds DEF AccessAs, Read, Inv, ExclusionOK, UniqueOK, NewOK, TypeOK
  <2>4. MutexOK'
    BY <1>1 DEF Read, Inv, MutexOK, TypeOK
  <2>5. HeldOK'
    BY <1>1 DEF Read, Inv, HeldOK, TypeOK
  <2>6. PageOK'
    BY <1>1 DEF Read, Inv, PageOK, TypeOK
  <2>7. LoadOK'
    BY <1>1 DEF Read, Inv, LoadOK, TypeOK
  <2>8. CopyOK'
    BY <1>1 DEF Read, Inv, CopyOK, TypeOK
  <2>. QED
    BY <2>1, <2>2, <2>3, <2>4, <2>5, <2>6, <2>7, <2>8 DEF Inv
<1>2. CASE SetElement(th) \/ Fill(th) \/ Collapse(th) \/ Expand(th) \/ Compact(th)
  <2>1. PICK g : /\ Fits(array[at[th]], g) /\ array' = [array EXCEPT ![at[th]] = g]
                 /\ pc[th] = "access" /\ call[th].op # "get"
                 /\ Return(th) /\ UNCHANGED <<mAttrs, page, locks, failures>> /\ wild' = FALSE
    BY <1>2, WriteStep
  <2>. QED
    BY <2>1, UpdateInv
<1>. QED
  BY <1>1, <1>2 DEF AccessStep

\* The calls begin.
LEMMA BeginReadInv ==
    ASSUME Inv, NEW th \in Threads, NEW s \in Sets, BeginRead(th, s)
    PROVE  Inv'
<1>. USE DEF Goto, Busy, MidRead, Here, PageOf, Loading, Accessing, Copying, HasNew, HoldsArray,
    HoldsPage, locks, thread, Enter
<1>0. /\ mAttrs[s] \in Arrays /\ ~MidRead(mAttrs[s]) /\ new[th] = None
      /\ [op |-> "get", set |-> s, element |-> 1, value |-> Zero] \in Calls
      /\ \A u \in Threads : Busy(u) /\ call[u].set = s => call[u].op = "get"
  <2>1. mAttrs[s] \in Arrays /\ ~MidRead(mAttrs[s])
    BY DEF BeginRead, MayRead, Present, Inv, TypeOK
  <2>2. new[th] = None
    BY DEF BeginRead, Inv, CallOK
  <2>3. [op |-> "get", set |-> s, element |-> 1, value |-> Zero] \in Calls
    BY Kinds DEF Calls
  <2>4. \A u \in Threads : Busy(u) /\ call[u].set = s => call[u].op = "get"
    BY DEF BeginRead, MayRead, Writers, Users
  <2>. QED
    BY <2>1, <2>2, <2>3, <2>4
<1>. DEFINE c == [op |-> "get", set |-> s, element |-> 1, value |-> Zero]
<1>1. /\ pc[th] = "idle" /\ pc' = [pc EXCEPT ![th] = "check"] /\ call' = [call EXCEPT ![th] = c]
      /\ at' = [at EXCEPT ![th] = mAttrs[s]]
      /\ UNCHANGED <<mAttrs, array, page, mMutex, pageMutex, new, failures, wild>>
      /\ c.set = s /\ c.op = "get" /\ c \in Calls
  BY <1>0 DEF BeginRead
<1>. HIDE DEF c
<1>2. TypeOK' /\ NotWild'
  BY <1>0, <1>1 DEF Inv, TypeOK, NotWild
<1>3. CallOK'
  BY <1>0, <1>1 DEF Inv, CallOK, TypeOK
<1>4. ExclusionOK'
  BY <1>0, <1>1 DEF Inv, ExclusionOK, TypeOK
<1>5. UniqueOK'
  BY <1>0, <1>1 DEF Inv, UniqueOK, TypeOK
<1>6. NewOK'
  BY <1>0, <1>1 DEF Inv, NewOK
<1>7. MutexOK'
  BY <1>0, <1>1 DEF Inv, MutexOK, TypeOK
<1>8. HeldOK'
  BY <1>0, <1>1 DEF Inv, HeldOK
<1>9. PageOK'
  BY <1>0, <1>1 DEF Inv, PageOK
<1>10. LoadOK'
  BY <1>0, <1>1 DEF Inv, LoadOK, TypeOK
<1>11. CopyOK'
  BY <1>0, <1>1 DEF Inv, CopyOK, TypeOK
<1>. QED
  BY <1>2, <1>3, <1>4, <1>5, <1>6, <1>7, <1>8, <1>9, <1>10, <1>11 DEF Inv

\* A non-const call finds no other call on its set.
LEMMA BeginWriteInv ==
    ASSUME Inv, NEW th \in Threads, NEW c \in Calls, BeginWrite(th, c)
    PROVE  Inv'
<1>. USE DEF Goto, Busy, MidRead, Here, PageOf, Loading, Accessing, Copying, HasNew, HoldsArray,
    HoldsPage, locks, thread, Enter
<1>. DEFINE p == IF Holders(mAttrs[c.set]) = {c.set} THEN Start(c.op) ELSE "copyLock"
<1>0. /\ c.set \in Sets /\ c.op # "get" /\ mAttrs[c.set] \in Arrays /\ ~MidRead(mAttrs[c.set])
      /\ new[th] = None
      /\ \A u \in Threads : Busy(u) => call[u].set # c.set
  <2>1. c.set \in Sets
    BY DEF Calls
  <2>2. c.op # "get" /\ mAttrs[c.set] \in Arrays /\ ~MidRead(mAttrs[c.set])
    BY <2>1 DEF BeginWrite, MayWrite, Present, Inv, TypeOK
  <2>3. new[th] = None
    BY DEF BeginWrite, Inv, CallOK
  <2>4. \A u \in Threads : Busy(u) => call[u].set # c.set
    BY DEF BeginWrite, MayWrite, Users
  <2>. QED
    BY <2>1, <2>2, <2>3, <2>4
<1>1. /\ p \in {"check", "access", "copyLock"}
      /\ p \in {"check", "access"} => \A s \in Sets : mAttrs[s] = mAttrs[c.set] => s = c.set
      /\ p = "access" => c.op = "fill"
  BY DEF Start, Holders
<1>2. /\ pc[th] = "idle" /\ pc' = [pc EXCEPT ![th] = p] /\ call' = [call EXCEPT ![th] = c]
      /\ at' = [at EXCEPT ![th] = mAttrs[c.set]]
      /\ UNCHANGED <<mAttrs, array, page, mMutex, pageMutex, new, failures, wild>>
  BY DEF BeginWrite
<1>. HIDE DEF p
<1>3. TypeOK' /\ NotWild'
  BY <1>0, <1>1, <1>2 DEF Inv, TypeOK, NotWild
<1>4. CallOK'
  BY <1>0, <1>1, <1>2 DEF Inv, CallOK, TypeOK
<1>5. ExclusionOK'
  BY <1>0, <1>1, <1>2 DEF Inv, ExclusionOK, TypeOK
<1>6. UniqueOK'
  BY <1>0, <1>1, <1>2 DEF Inv, UniqueOK, TypeOK
<1>7. NewOK'
  BY <1>0, <1>1, <1>2 DEF Inv, NewOK
<1>8. MutexOK'
  BY <1>0, <1>1, <1>2 DEF Inv, MutexOK, TypeOK
<1>9. HeldOK'
  BY <1>0, <1>1, <1>2 DEF Inv, HeldOK
<1>10. PageOK'
  BY <1>0, <1>1, <1>2 DEF Inv, PageOK
<1>11. LoadOK'
  BY <1>0, <1>1, <1>2 DEF Inv, LoadOK, TypeOK
<1>12. CopyOK'
  BY <1>0, <1>1, <1>2 DEF Inv, CopyOK, TypeOK
<1>. QED
  BY <1>3, <1>4, <1>5, <1>6, <1>7, <1>8, <1>9, <1>10, <1>11, <1>12 DEF Inv

\* A step that changes a copy nobody else knows of.
LEMMA CopyChange ==
    ASSUME Inv, NEW th \in Threads, pc[th] \in {"copyFlags", "copyHandle", "copyData"},
           NEW n \in Arrays, Holders(n) = {}, \A u \in Threads : u # th => new[u] # n,
           NEW g \in ArrayFields, array' = [array EXCEPT ![n] = g],
           NEW p \in HasNew, pc' = [pc EXCEPT ![th] = p], new' = [new EXCEPT ![th] = n],
           g.mPageHandle \in {None, Here(th)}, g.mOutOfCore = array[at[th]].mOutOfCore,
           p = "copyHandle" => g = [array[at[th]] EXCEPT !.mPageHandle = None, !.mData = None],
           p = "copyData" => g = [array[at[th]] EXCEPT !.mData = None],
           p = "assign" => Sound(g) /\ Row(g) = Row(array[at[th]]),
           mMutex' = IF p = "assign" THEN [mMutex EXCEPT ![at[th]] = None] ELSE mMutex,
           UNCHANGED <<mAttrs, page, pageMutex, call, at, failures>>, wild' = FALSE
    PROVE  Inv'
<1>1. /\ Busy(th) /\ at[th] \in Arrays /\ array[at[th]] \in ArrayFields /\ Sound(array[at[th]])
      /\ pc[th] \in HoldsArray /\ pc[th] \in Copying
  <2>1. Busy(th) /\ pc[th] \in HoldsArray /\ pc[th] \in Copying
    BY DEF Busy, HoldsArray, Copying, HasNew
  <2>. QED
    BY <2>1, AtWork
<1>2. array'[n] = g /\ \A b \in Arrays : b # n => array'[b] = array[b]
  BY DEF Inv, TypeOK
<1>3. \A s \in Sets : mAttrs[s] # n
  BY DEF Holders
<1>4. \A u \in Threads : Busy(u) => at[u] \in Arrays /\ at[u] # n /\ array'[at'[u]] = array[at[u]]
  BY <1>2, <1>3, AtWork
<1>5. \A u \in Threads : u # th => pc'[u] = pc[u] /\ new'[u] = new[u]
  BY DEF Inv, TypeOK
<1>6. pc'[th] = p /\ new'[th] = n /\ n # None
  BY Kinds DEF Inv, TypeOK
<1>7. \A s \in Sets : mAttrs[s] # None => array'[mAttrs[s]] = array[mAttrs[s]]
  BY <1>2, <1>3 DEF Inv, TypeOK
<1>8. TypeOK' /\ NotWild'
  <2>1. /\ array' \in [Arrays -> ArrayFields] /\ mMutex' \in [Arrays -> Threads \cup {None}]
        /\ new' \in [Threads -> Arrays \cup {None}]
    BY DEF Inv, TypeOK
  <2>2. pc' \in [Threads -> {"idle", "check", "lock", "recheck", "page", "lockPage",
                               "recheckPage", "allocate", "read", "copyOut", "clear", "access",
                               "copyLock", "copyFlags", "copyHandle", "copyData", "assign"}]
    BY DEF Inv, TypeOK, HasNew
  <2>3. wild' \in BOOLEAN
    BY Zenon
  <2>. QED
    BY <2>1, <2>2, <2>3 DEF Inv, TypeOK, NotWild
<1>9. CallOK'
  <2>. SUFFICES ASSUME NEW u \in Threads
                PROVE  (/\ ~Busy(u) => call[u] = None /\ at[u] = None
                        /\ Busy(u) =>
                              /\ call[u] \in Calls
                              /\ at[u] \in Arrays /\ at[u] = mAttrs[call[u].set]
                              /\ ~MidRead(at[u])
                        /\ pc[u] \in Copying => call[u].op # "get"
                        /\ new[u] # None <=> pc[u] \in HasNew)'
    BY DEF CallOK
  <2>1. CASE u = th
    BY <1>1, <1>4, <1>6, <2>1 DEF Inv, CallOK, Busy, Copying, HasNew, MidRead
  <2>2. CASE u # th
    BY <1>4, <1>5, <2>2 DEF Inv, CallOK, Busy, Copying, HasNew, MidRead
  <2>. QED
    BY <2>1, <2>2
<1>10. ExclusionOK'
  BY <1>1, <1>5, <1>6 DEF Inv, ExclusionOK, Busy
<1>11. UniqueOK'
  BY <1>5, <1>6 DEF Inv, UniqueOK, Accessing, Loading, HasNew
<1>12. NewOK'
  BY <1>3, <1>5, <1>6 DEF Inv, NewOK
<1>13. MutexOK'
  <2>. SUFFICES ASSUME NEW u \in Threads
                PROVE  /\ pc'[u] \in HoldsArray => mMutex'[at'[u]] = u
                       /\ pc'[u] \in HoldsPage => pageMutex'[PageOf(u)'] = u
    BY DEF MutexOK
  <2>1. CASE u = th
    BY <1>1, <1>6, <2>1 DEF Inv, MutexOK, HoldsArray, HoldsPage, Loading, HasNew
  <2>2. CASE u # th
    <3>1. pc[u] \in HoldsArray => Busy(u) /\ at[u] # at[th]
      BY <1>1, <2>2, OneHolder DEF HoldsArray, Loading, HasNew, Busy
    <3>2. pc[u] \in HoldsPage => pc[u] \in HoldsArray
      BY DEF HoldsPage, HoldsArray, Loading
    <3>3. pc[u] \in HoldsArray => PageOf(u)' = PageOf(u) /\ mMutex'[at'[u]] = mMutex[at[u]]
      BY <1>1, <1>4, <2>2, <3>1 DEF PageOf, Here, Inv, TypeOK
    <3>. QED
      BY <1>5, <2>2, <3>1, <3>2, <3>3 DEF Inv, MutexOK
  <2>. QED
    BY <2>1, <2>2
<1>14. HeldOK'
  BY <1>7 DEF Inv, HeldOK, MidRead, Sound, Reading
<1>15. PageOK'
  <2>. SUFFICES ASSUME NEW b \in Arrays, array'[b].mPageHandle \in Handle
                PROVE  LET h == page[array'[b].mPageHandle.page]
                       IN  /\ h.mInfo = "none" => h.mData = "loaded"
                           /\ array'[b].mOutOfCore => h.mInfo # "header"
    BY DEF PageOK
  <2>1. CASE b # n
    BY <1>2, <2>1 DEF Inv, PageOK
  <2>2. CASE b = n
    BY <1>1, <1>2, <2>2, Kinds DEF Inv, PageOK, Here
  <2>. QED
    BY <2>1, <2>2
<1>16. LoadOK'
  <2>. SUFFICES ASSUME NEW u \in Threads
                PROVE  (/\ pc[u] \in Loading => array[at[u]].mOutOfCore
                        /\ pc[u] \in {"allocate", "read"} => page[PageOf(u)].mInfo # "none"
                        /\ pc[u] = "copyOut" => page[PageOf(u)].mInfo = "none"
                        /\ pc[u] = "clear" => array[at[u]].mData = Here(u).slice
                        /\ pc[u] = "access" /\ call[u].op # "fill" => ~array[at[u]].mOutOfCore)'
    BY DEF LoadOK
  <2>1. CASE u = th
    BY <1>6, <2>1 DEF Loading, HasNew
  <2>2. CASE u # th
    <3>1. pc[u] \in Loading \cup {"access"} => Busy(u)
      BY DEF Busy, Loading
    <3>2. pc[u] \in Loading \cup {"access"} =>
              array'[at'[u]] = array[at[u]] /\ Here(u)' = Here(u) /\ PageOf(u)' = PageOf(u)
      BY <1>4, <3>1 DEF PageOf, Here
    <3>. QED
      BY <1>5, <2>2, <3>2 DEF Inv, LoadOK, Loading
  <2>. QED
    BY <2>1, <2>2
<1>17. CopyOK'
  <2>. SUFFICES ASSUME NEW u \in Threads
                PROVE  /\ pc'[u] = "copyHandle" =>
                              array'[new'[u]] =
                                  [array'[at'[u]] EXCEPT !.mPageHandle = None, !.mData = None]
                       /\ pc'[u] = "copyData" =>
                              array'[new'[u]] = [array'[at'[u]] EXCEPT !.mData = None]
                       /\ pc'[u] = "assign" =>
                              /\ Sound(array'[new'[u]])
                              /\ Row(array'[new'[u]]) = Row(array'[at'[u]])
    BY DEF CopyOK
  <2>1. CASE pc'[u] \notin HasNew
    BY <2>1 DEF HasNew
  <2>2. CASE u = th
    <3>1. array'[at'[th]] = array[at[th]]
      BY <1>1, <1>4
    <3>2. array'[new'[th]] = g /\ pc'[th] = p
      BY <1>2, <1>6
    <3>. QED
      BY <2>2, <3>1, <3>2 DEF Sound
  <2>3. CASE pc'[u] \in HasNew /\ u # th
    <3>1. pc[u] \in HasNew /\ Busy(u) /\ pc'[u] = pc[u]
      BY <1>5, <2>3 DEF HasNew, Busy
    <3>2. new[u] # None /\ new[u] # n /\ new[u] \in Arrays
      BY <2>3, <3>1 DEF Inv, CallOK, TypeOK
    <3>3. array'[new'[u]] = array[new[u]] /\ array'[at'[u]] = array[at[u]]
      BY <1>2, <1>4, <1>5, <2>3, <3>1, <3>2
    <3>. QED
      BY <3>1, <3>3 DEF Inv, CopyOK, Sound
  <2>. QED
    BY <2>1, <2>2, <2>3
<1>. QED
  BY <1>8, <1>9, <1>10, <1>11, <1>12, <1>13, <1>14, <1>15, <1>16, <1>17 DEF Inv

\* The source of a copy is locked.
LEMMA CopyLockInv ==
    ASSUME Inv, NEW th \in Threads, CopyLock(th)
    PROVE  Inv'
<1>. USE DEF Goto, Busy, MidRead, Here, PageOf, Loading, Accessing, Copying, HasNew, HoldsArray,
    HoldsPage, locks
<1>0. CopyLock(th)
  OBVIOUS
<1>1. CASE CopyLock(th)
  <2>1. TypeOK' /\ NotWild'
    <3>1. pc' = [pc EXCEPT ![th] = "copyFlags"] /\ mMutex' = [mMutex EXCEPT ![at[th]] = th]
          /\ UNCHANGED <<mAttrs, array, page, pageMutex, call, at, new, failures, wild>>
      BY <1>1 DEF CopyLock
    <3>. QED
      BY <3>1 DEF Inv, TypeOK, NotWild
  <2>2. CallOK'
    BY <1>1 DEF CopyLock, Inv, CallOK, TypeOK
  <2>3. ExclusionOK' /\ UniqueOK' /\ NewOK'
    BY <1>1 DEF CopyLock, Inv, ExclusionOK, UniqueOK, NewOK, TypeOK
  <2>4. MutexOK'
    <3>. SUFFICES ASSUME NEW u \in Threads
                  PROVE  /\ pc'[u] \in HoldsArray => mMutex'[at'[u]] = u
                         /\ pc'[u] \in HoldsPage => pageMutex'[PageOf(u)'] = u
      BY DEF MutexOK
    <3>1. pc'[u] \in HoldsArray => mMutex'[at'[u]] = u
      <4>1. at[th] \in Arrays /\ (Busy(u) => at[u] \in Arrays) /\ u # None
        BY <1>1, AtWork, Kinds DEF CopyLock
      <4>2. CASE u = th
        BY <1>1, <4>1, <4>2 DEF CopyLock, Inv, TypeOK
      <4>3. CASE u # th
        BY <1>1, <4>1, <4>3 DEF CopyLock, Inv, TypeOK, MutexOK
      <4>. QED
        BY <4>2, <4>3
    <3>2. pc'[u] \in HoldsPage => pageMutex'[PageOf(u)'] = u
      BY <1>1 DEF CopyLock, Inv, TypeOK, MutexOK
    <3>. QED
      BY <3>1, <3>2
  <2>5. HeldOK'
    BY <1>1 DEF CopyLock, Inv, HeldOK, TypeOK
  <2>6. PageOK'
    BY <1>1 DEF CopyLock, Inv, PageOK, TypeOK
  <2>7. LoadOK'
    BY <1>1 DEF CopyLock, Inv, LoadOK, TypeOK
  <2>8. CopyOK'
    BY <1>1 DEF CopyLock, Inv, CopyOK, TypeOK
  <2>. QED
    BY <2>1, <2>2, <2>3, <2>4, <2>5, <2>6, <2>7, <2>8 DEF Inv
<1>. QED
  BY <1>0, <1>1

\* A thread that makes a copy.
LEMMA Copier ==
    ASSUME Inv, NEW th \in Threads, pc[th] \in {"copyHandle", "copyData"}
    PROVE  /\ new[th] \in Arrays /\ Holders(new[th]) = {}
           /\ \A u \in Threads : u # th => new[u] # new[th]
           /\ new[th] # None /\ new[th] # at[th]
<1>1. new[th] # None /\ Busy(th)
  BY DEF Inv, CallOK, HasNew, Busy
<1>. QED
  BY <1>1, NewApart DEF Inv, NewOK, Holders

\* The flags go into a place on the heap that nobody uses.
LEMMA CopyFlagsInv ==
    ASSUME Inv, NEW th \in Threads, CopyFlags(th)
    PROVE  Inv'
<1>1. PICK a \in Arrays :
          /\ Free(a)
          /\ array' = [array EXCEPT ![a] =
                          [array[at[th]] EXCEPT !.mPageHandle = None, !.mData = None]]
          /\ new' = [new EXCEPT ![th] = a]
  BY DEF CopyFlags
<1>. DEFINE f == array[at[th]]
            g == [f EXCEPT !.mPageHandle = None, !.mData = None]
<1>2. /\ pc[th] = "copyFlags" /\ pc' = [pc EXCEPT ![th] = "copyHandle"] /\ mMutex' = mMutex
      /\ UNCHANGED <<mAttrs, page, pageMutex, call, at, failures>>
  BY DEF CopyFlags, Goto, locks
<1>3. wild' = FALSE
  BY Zenon DEF CopyFlags, Inv, NotWild, TypeOK
<1>4. f \in ArrayFields
  <2>1. Busy(th)
    BY <1>2 DEF Busy
  <2>. QED
    BY <2>1, AtWork
<1>5. g \in ArrayFields /\ g.mPageHandle = None /\ g.mOutOfCore = f.mOutOfCore
  BY <1>4 DEF ArrayFields
<1>6. Holders(a) = {} /\ \A u \in Threads : u # th => new[u] # a
  BY <1>1 DEF Free
<1>7. "copyHandle" \in HasNew
  BY DEF HasNew
<1>. HIDE DEF g
<1>. QED
  BY <1>1, <1>2, <1>3, <1>5, <1>6, <1>7, CopyChange DEF g

\* The handle is copied, for an array that is out of core.
LEMMA CopyHandleInv ==
    ASSUME Inv, NEW th \in Threads, CopyHandle(th)
    PROVE  Inv'
<1>. DEFINE f == array[at[th]]
            n == new[th]
            g == [array[n] EXCEPT !.mPageHandle = Here(th)]
<1>1. /\ pc[th] = "copyHandle" /\ pc' = [pc EXCEPT ![th] = "copyData"] /\ mMutex' = mMutex
      /\ UNCHANGED <<mAttrs, page, pageMutex, call, at, new, failures>>
  BY DEF CopyHandle, Goto, locks
<1>2. wild' = FALSE
  BY Zenon DEF CopyHandle, Inv, NotWild, TypeOK
<1>3. f \in ArrayFields
  <2>1. Busy(th)
    BY <1>1 DEF Busy
  <2>. QED
    BY <2>1, AtWork
<1>4. /\ n \in Arrays /\ Holders(n) = {}
      /\ \A u \in Threads : u # th => new[u] # n
  BY <1>1, Copier
<1>5. array[n] = [f EXCEPT !.mPageHandle = None, !.mData = None]
  BY <1>1 DEF Inv, CopyOK
<1>6. g = [f EXCEPT !.mData = None]
  BY <1>3, <1>5 DEF ArrayFields, Here
<1>7. g \in ArrayFields /\ g.mPageHandle = Here(th) /\ g.mOutOfCore = f.mOutOfCore
  BY <1>3, <1>6 DEF ArrayFields, Here
<1>8. array' = [array EXCEPT ![n] = g] /\ new' = [new EXCEPT ![th] = n]
  BY <1>1, <1>4 DEF CopyHandle, Inv, TypeOK
<1>9. "copyData" \in HasNew
  BY DEF HasNew
<1>. HIDE DEF f, g, n
<1>. QED
  BY <1>1, <1>2, <1>4, <1>6, <1>7, <1>8, <1>9, CopyChange DEF f

\* The data are copied, for an array that is in memory.
LEMMA CopyDataInv ==
    ASSUME Inv, NEW th \in Threads, CopyData(th)
    PROVE  Inv'
<1>. DEFINE f == array[at[th]]
            n == new[th]
            g == IF f.mOutOfCore THEN array[n] ELSE [array[n] EXCEPT !.mData = f.mData]
<1>1. /\ pc[th] = "copyData" /\ pc' = [pc EXCEPT ![th] = "assign"]
      /\ mMutex' = [mMutex EXCEPT ![at[th]] = None]
      /\ UNCHANGED <<mAttrs, page, pageMutex, call, at, new, failures>>
  BY DEF CopyData, Goto
<1>2. f \in ArrayFields /\ Sound(f)
  <2>1. Busy(th)
    BY <1>1 DEF Busy
  <2>. QED
    BY <2>1, AtWork
<1>3. /\ n \in Arrays /\ Holders(n) = {}
      /\ \A u \in Threads : u # th => new[u] # n
  BY <1>1, Copier
<1>4. array[n] = [f EXCEPT !.mData = None]
  BY <1>1 DEF Inv, CopyOK
<1>5. /\ g \in ArrayFields /\ g.mIsUniform = f.mIsUniform /\ g.mOutOfCore = f.mOutOfCore
      /\ g.mUsePagedRead = f.mUsePagedRead /\ g.partial = f.partial
      /\ g.mPageHandle = f.mPageHandle /\ (~f.mOutOfCore => g.mData = f.mData)
  BY <1>2, <1>4 DEF ArrayFields
<1>6. Sound(g) /\ Row(g) = Row(f)
  BY <1>5, <1>2 DEF Sound, Row
<1>7. ~f.mOutOfCore => f.mData # None
  BY <1>2, DataKinds, Kinds, Fields DEF Sound
<1>8. wild' = FALSE
  <2>0. array[n].mOutOfCore = f.mOutOfCore
    BY <1>2, <1>4 DEF ArrayFields
  <2>1. CASE f.mOutOfCore
    BY <2>0, <2>1, Zenon DEF CopyData, Inv, NotWild, TypeOK
  <2>2. CASE ~f.mOutOfCore
    <3>1. wild' = (f.mData = None)
      BY <2>0, <2>2, Zenon DEF CopyData
    <3>. QED
      BY <3>1, <1>7, <2>2, Zenon
  <2>. QED
    BY <2>1, <2>2
<1>9. array' = [array EXCEPT ![n] = g] /\ new' = [new EXCEPT ![th] = n]
  <2>1. array[n].mOutOfCore = f.mOutOfCore
    BY <1>2, <1>4 DEF ArrayFields
  <2>. QED
    BY <1>1, <1>3, <1>4, <2>1 DEF CopyData, Inv, TypeOK
<1>10. "assign" \in HasNew /\ g.mPageHandle \in {None, Here(th)}
  BY <1>5 DEF HasNew, Here
<1>. HIDE DEF f, g, n
<1>. QED
  BY <1>1, <1>3, <1>5, <1>6, <1>8, <1>9, <1>10, CopyChange DEF f

\* Letting go of an array: it is freed if no other set holds it.
LEMMA ReleasedFacts ==
    ASSUME Inv, NEW s \in Sets
    PROVE  /\ Released(s) \in [Arrays -> ArrayFields]
           /\ \A a \in Arrays : \/ Released(s)[a] = array[a]
                                \/ Released(s)[a] = Unused /\ Holders(a) = {s}
           /\ ~DestroysBytes(s)
<1>1. Unused \in ArrayFields
  BY DataKinds, Kinds DEF Unused, Created, ArrayFields
<1>2. array \in [Arrays -> ArrayFields] /\ mAttrs[s] \in Arrays \cup {None}
  BY DEF Inv, TypeOK
<1>3. Released(s) \in [Arrays -> ArrayFields]
  BY <1>1, <1>2 DEF Released
<1>4. \A a \in Arrays : \/ Released(s)[a] = array[a]
                        \/ Released(s)[a] = Unused /\ Holders(a) = {s}
  <2>. HIDE DEF Holders, Unused
  <2>. QED
    BY <1>2 DEF Released
<1>5. ~DestroysBytes(s)
  <2>1. CASE mAttrs[s] = None
    BY <2>1 DEF DestroysBytes
  <2>2. CASE mAttrs[s] # None
    <3>1. array[mAttrs[s]].mPageHandle = Bytes => array[mAttrs[s]].partial
      BY <2>2, Kinds DEF Inv, HeldOK, Sound, Reading, MidRead
    <3>. QED
      BY <3>1 DEF DestroysBytes
  <2>. QED
    BY <2>1, <2>2
<1>. QED
  BY <1>3, <1>4, <1>5

\* The arrays that sets hold, after one set has got another.
LEMMA HeldAfter ==
    ASSUME Inv, NEW s \in Sets, NEW x \in Arrays \cup {None},
           mAttrs' = [mAttrs EXCEPT ![s] = x],
           \A t \in Sets : t # s /\ mAttrs[t] # None => array'[mAttrs[t]] = array[mAttrs[t]],
           x # None => \/ Sound(array'[x])
                       \/ Reading(array'[x]) /\ \A t \in Sets : t # s => mAttrs[t] # x
    PROVE  HeldOK'
<1>. SUFFICES ASSUME NEW q \in Sets, mAttrs'[q] # None
              PROVE  IF MidRead(mAttrs[q])'
                     THEN Reading(array'[mAttrs'[q]]) /\ \A t \in Sets : mAttrs'[t] = mAttrs'[q] => t = q
                     ELSE Sound(array'[mAttrs'[q]])
  BY DEF HeldOK
<1>1. mAttrs'[s] = x /\ \A t \in Sets : t # s => mAttrs'[t] = mAttrs[t]
  BY DEF Inv, TypeOK
<1>2. MidRead(mAttrs[q])' = (array'[mAttrs'[q]].partial \/ array'[mAttrs'[q]].mUsePagedRead)
  BY DEF MidRead
<1>3. \A f : Sound(f) => ~(f.partial \/ f.mUsePagedRead)
  BY DEF Sound
<1>4. \A f : Reading(f) => f.partial \/ f.mUsePagedRead
  BY DEF Reading
<1>5. CASE q = s
  BY <1>1, <1>2, <1>3, <1>4, <1>5
<1>6. CASE q # s
  <2>1. mAttrs'[q] = mAttrs[q] /\ array'[mAttrs'[q]] = array[mAttrs[q]]
    BY <1>1, <1>6
  <2>2. IF MidRead(mAttrs[q])
        THEN Reading(array[mAttrs[q]]) /\ \A t \in Sets : mAttrs[t] = mAttrs[q] => t = q
        ELSE Sound(array[mAttrs[q]])
    BY <1>6, <2>1 DEF Inv, HeldOK
  <2>3. CASE MidRead(mAttrs[q])
    <3>1. Reading(array'[mAttrs'[q]]) /\ \A t \in Sets : mAttrs[t] = mAttrs[q] => t = q
      BY <2>1, <2>2, <2>3
    <3>2. mAttrs[q] # x
      BY <1>3, <1>4, <1>6, <2>1, <3>1
    <3>. QED
      BY <1>1, <1>2, <1>4, <1>6, <2>1, <3>1, <3>2
  <2>4. CASE ~MidRead(mAttrs[q])
    BY <1>2, <1>3, <2>1, <2>2, <2>4
  <2>. QED
    BY <2>3, <2>4
<1>. QED
  BY <1>5, <1>6

\* No new handle to a page.
LEMMA PagesKept ==
    ASSUME Inv, page' = page,
           \A a \in Arrays : array'[a] = array[a] \/ array'[a].mPageHandle \notin Handle
    PROVE  PageOK'
  BY DEF Inv, PageOK

\* A step on a set that no call is using.
LEMMA OwnerChange ==
    ASSUME Inv, NEW s \in Sets, Users(s) = {}, NEW x \in Arrays \cup {None},
           mAttrs' = [mAttrs EXCEPT ![s] = x],
           array' \in [Arrays -> ArrayFields], page' \in [Pages -> PageFields],
           \A u \in Threads : Busy(u) =>
               /\ array'[at[u]] = array[at[u]]
               /\ pc[u] \in Accessing /\ call[u].op # "get" => x # at[u],
           \A u \in Threads : new[u] # None => array'[new[u]] = array[new[u]] /\ x # new[u],
           \A u \in Threads : pc[u] \in Loading =>
               (page'[PageOf(u)].mInfo = "none" <=> page[PageOf(u)].mInfo = "none"),
           HeldOK', PageOK', UNCHANGED <<locks, thread, failures>>, wild' = FALSE
    PROVE  Inv'
<1>1. UNCHANGED <<mMutex, pageMutex, pc, call, at, new, failures>>
  BY DEF locks, thread
<1>2. \A u \in Threads : Busy(u) =>
          /\ call[u].set \in Sets /\ call[u].set # s /\ at[u] = mAttrs'[call[u].set]
          /\ array'[at'[u]] = array[at[u]] /\ MidRead(at[u])' = MidRead(at[u])
          /\ Here(u)' = Here(u) /\ PageOf(u)' = PageOf(u)
  <2>. SUFFICES ASSUME NEW u \in Threads, Busy(u)
                PROVE  /\ call[u].set \in Sets /\ call[u].set # s /\ at[u] = mAttrs'[call[u].set]
                       /\ array'[at'[u]] = array[at[u]] /\ MidRead(at[u])' = MidRead(at[u])
                       /\ Here(u)' = Here(u) /\ PageOf(u)' = PageOf(u)
    OBVIOUS
  <2>1. call[u].set \in Sets /\ at[u] = mAttrs[call[u].set]
    BY AtWork
  <2>2. call[u].set # s
    BY DEF Users
  <2>3. mAttrs'[call[u].set] = mAttrs[call[u].set]
    BY <2>1, <2>2 DEF Inv, TypeOK
  <2>. QED
    BY <1>1, <2>1, <2>2, <2>3 DEF Here, PageOf, MidRead
<1>4. TypeOK' /\ NotWild'
  <2>1. mAttrs' \in [Sets -> Arrays \cup {None}]
    BY DEF Inv, TypeOK
  <2>2. wild' \in BOOLEAN
    BY Zenon
  <2>. QED
    BY <1>1, <2>1, <2>2 DEF Inv, TypeOK, NotWild
<1>5. CallOK'
  BY <1>1, <1>2 DEF Inv, CallOK, Busy
<1>6. ExclusionOK'
  BY <1>1 DEF Inv, ExclusionOK, Busy
<1>7. UniqueOK'
  <2>1. \A u \in Threads : pc[u] \in Accessing => Busy(u)
    BY DEF Accessing, Loading, Busy
  <2>. QED
    BY <1>1, <2>1 DEF Inv, UniqueOK, TypeOK
<1>8. NewOK'
  BY <1>1 DEF Inv, NewOK, TypeOK
<1>9. \A u \in Threads : /\ pc[u] \in HoldsPage => pc[u] \in HoldsArray
                         /\ pc[u] \in HoldsArray => Busy(u)
                         /\ pc[u] \in Loading \cup {"access"} => Busy(u)
                         /\ pc[u] \in HasNew => Busy(u)
  BY DEF HoldsPage, HoldsArray, Loading, Busy, HasNew
<1>10. MutexOK'
  BY <1>1, <1>2, <1>9 DEF Inv, MutexOK
<1>11. LoadOK'
  BY <1>1, <1>2, <1>9 DEF Inv, LoadOK, Loading
<1>12. CopyOK'
  <2>. SUFFICES ASSUME NEW u \in Threads
                PROVE  /\ pc'[u] = "copyHandle" =>
                              array'[new'[u]] =
                                  [array'[at'[u]] EXCEPT !.mPageHandle = None, !.mData = None]
                       /\ pc'[u] = "copyData" =>
                              array'[new'[u]] = [array'[at'[u]] EXCEPT !.mData = None]
                       /\ pc'[u] = "assign" =>
                              /\ Sound(array'[new'[u]])
                              /\ Row(array'[new'[u]]) = Row(array'[at'[u]])
    BY DEF CopyOK
  <2>1. CASE pc[u] \notin HasNew
    BY <1>1, <2>1 DEF HasNew
  <2>2. CASE pc[u] \in HasNew
    <3>1. array'[new'[u]] = array[new[u]] /\ array'[at'[u]] = array[at[u]] /\ pc'[u] = pc[u]
      BY <1>1, <1>2, <1>9, <2>2 DEF Inv, CallOK
    <3>. QED
      BY <3>1 DEF Inv, CopyOK, Sound
  <2>. QED
    BY <2>1, <2>2
<1>. QED
  BY <1>4, <1>5, <1>6, <1>7, <1>8, <1>10, <1>11, <1>12 DEF Inv

\* A set lets go of a shared array and holds its copy.
LEMMA AssignInv ==
    ASSUME Inv, NEW th \in Threads, Assign(th)
    PROVE  Inv'
<1>. DEFINE s == call[th].set
            n == new[th]
            p == Start(call[th].op)
<1>1. /\ pc[th] = "assign" /\ pc' = [pc EXCEPT ![th] = p]
      /\ mAttrs' = [mAttrs EXCEPT ![s] = n] /\ array' = Released(s)
      /\ at' = [at EXCEPT ![th] = n] /\ new' = [new EXCEPT ![th] = None]
      /\ UNCHANGED <<page, mMutex, pageMutex, call, failures>>
  BY DEF Assign, Goto, locks
<1>2. wild' = FALSE
  <2>1. wild' = DestroysBytes(s)
    BY Zenon DEF Assign
  <2>2. ~DestroysBytes(s)
    <3>1. Busy(th)
      BY <1>1 DEF Busy
    <3>2. s \in Sets
      BY <3>1, AtWork
    <3>. QED
      BY <3>2, ReleasedFacts
  <2>3. DestroysBytes(s) \in BOOLEAN
    BY Zenon DEF DestroysBytes
  <2>. HIDE DEF s
  <2>. QED
    BY <2>1, <2>2, <2>3, Zenon
<1>3. /\ Busy(th) /\ s \in Sets /\ call[th] \in Calls /\ call[th].op # "get" /\ n # None
  <2>1. Busy(th)
    BY <1>1 DEF Busy
  <2>2. call[th].op # "get" /\ n # None
    BY <1>1 DEF Inv, CallOK, Copying, HasNew
  <2>. QED
    BY <2>1, <2>2, AtWork
<1>4. /\ n \in Arrays /\ Holders(n) = {} /\ Sound(array[n])
      /\ \A u \in Threads : Busy(u) => at[u] # n
      /\ \A u \in Threads : u # th => new[u] # n
  <2>1. n \in Arrays /\ \A u \in Threads : Busy(u) => at[u] # n
    BY <1>3, NewApart
  <2>2. Holders(n) = {} /\ \A u \in Threads : u # th => new[u] # n
    BY <1>3 DEF Inv, NewOK, Holders
  <2>3. Sound(array[n])
    BY <1>1 DEF Inv, CopyOK
  <2>. QED
    BY <2>1, <2>2, <2>3
<1>5. /\ array' \in [Arrays -> ArrayFields]
      /\ \A b \in Arrays : array'[b] = array[b] \/ (array'[b] = Unused /\ Holders(b) = {s})
  BY <1>1, <1>3, ReleasedFacts
<1>6. p \in {"check", "access"} /\ (p = "access" => call[th].op = "fill")
  BY DEF Start
<1>. HIDE DEF p, n, s
<1>7. array'[n] = array[n]
  BY <1>3, <1>4, <1>5
<1>8. \A u \in Threads : new[u] # None => array'[new[u]] = array[new[u]]
  <2>. SUFFICES ASSUME NEW u \in Threads, new[u] # None PROVE array'[new[u]] = array[new[u]]
    OBVIOUS
  <2>1. new[u] \in Arrays /\ Holders(new[u]) = {}
    BY <1>3, NewApart DEF Inv, NewOK, Holders
  <2>. QED
    BY <1>3, <1>5, <2>1
<1>9. /\ mAttrs'[s] = n /\ \A t \in Sets : t # s => mAttrs'[t] = mAttrs[t]
      /\ pc'[th] = p /\ at'[th] = n /\ new'[th] = None
      /\ \A u \in Threads : u # th => pc'[u] = pc[u] /\ at'[u] = at[u] /\ new'[u] = new[u]
  BY <1>1, <1>3 DEF Inv, TypeOK
<1>10. \A t \in Sets : t # s /\ mAttrs[t] # None => array'[mAttrs[t]] = array[mAttrs[t]]
  <2>. SUFFICES ASSUME NEW t \in Sets, t # s, mAttrs[t] # None
                PROVE  array'[mAttrs[t]] = array[mAttrs[t]]
    OBVIOUS
  <2>1. mAttrs[t] \in Arrays /\ t \in Holders(mAttrs[t])
    BY DEF Inv, TypeOK, Holders
  <2>. QED
    BY <1>5, <2>1
<1>11. \A u \in Threads : u # th /\ Busy(u) =>
          /\ call[u].set \in Sets /\ call[u].set # s /\ at[u] \in Arrays
          /\ at[u] = mAttrs[call[u].set]
          /\ array'[at'[u]] = array[at[u]] /\ MidRead(at[u])' = MidRead(at[u])
          /\ Here(u)' = Here(u) /\ PageOf(u)' = PageOf(u)
  <2>. SUFFICES ASSUME NEW u \in Threads, u # th, Busy(u)
                PROVE  /\ call[u].set \in Sets /\ call[u].set # s /\ at[u] \in Arrays
                       /\ at[u] = mAttrs[call[u].set]
                       /\ array'[at'[u]] = array[at[u]] /\ MidRead(at[u])' = MidRead(at[u])
                       /\ Here(u)' = Here(u) /\ PageOf(u)' = PageOf(u)
    OBVIOUS
  <2>1. call[u].set \in Sets /\ at[u] = mAttrs[call[u].set] /\ at[u] \in Arrays
    BY AtWork
  <2>2. call[u].set # s
    BY <1>3 DEF Inv, ExclusionOK, s
  <2>3. array'[at'[u]] = array[at[u]]
    BY <1>9, <1>10, <2>1, <2>2, Kinds
  <2>. QED
    BY <2>1, <2>2, <2>3 DEF Here, PageOf, MidRead
<1>12. TypeOK' /\ NotWild'
  <2>1. /\ mAttrs' \in [Sets -> Arrays \cup {None}] /\ at' \in [Threads -> Arrays \cup {None}]
        /\ new' \in [Threads -> Arrays \cup {None}]
    BY <1>1, <1>4 DEF Inv, TypeOK
  <2>2. pc' \in [Threads -> {"idle", "check", "lock", "recheck", "page", "lockPage",
                               "recheckPage", "allocate", "read", "copyOut", "clear", "access",
                               "copyLock", "copyFlags", "copyHandle", "copyData", "assign"}]
    BY <1>1, <1>6 DEF Inv, TypeOK
  <2>3. wild' \in BOOLEAN
    BY <1>2, Zenon
  <2>. QED
    BY <1>1, <1>2, <1>5, <2>1, <2>2, <2>3 DEF Inv, TypeOK, NotWild
<1>13. CallOK'
  <2>. SUFFICES ASSUME NEW u \in Threads
                PROVE  /\ ~Busy(u)' => call'[u] = None /\ at'[u] = None
                       /\ Busy(u)' =>
                              /\ call'[u] \in Calls
                              /\ at'[u] \in Arrays /\ at'[u] = mAttrs'[call'[u].set]
                              /\ ~array'[at'[u]].partial /\ ~array'[at'[u]].mUsePagedRead
                       /\ pc'[u] \in Copying => call'[u].op # "get"
                       /\ new'[u] # None <=> pc'[u] \in HasNew
    BY DEF CallOK, MidRead
  <2>1. CASE u = th
    <3>1. ~array'[n].partial /\ ~array'[n].mUsePagedRead
      BY <1>4, <1>7 DEF Sound
    <3>. QED
      BY <1>1, <1>3, <1>4, <1>6, <1>9, <2>1, <3>1 DEF Busy, Copying, HasNew, s
  <2>2. CASE u # th
    <3>1. Busy(u)' = Busy(u)
      BY <1>9, <2>2 DEF Busy
    <3>. QED
      BY <1>1, <1>9, <1>11, <2>2, <3>1 DEF Inv, CallOK, MidRead
  <2>. QED
    BY <2>1, <2>2
<1>14. ExclusionOK'
  BY <1>1, <1>3, <1>9 DEF Inv, ExclusionOK, Busy
<1>15. UniqueOK'
  <2>. SUFFICES ASSUME NEW u \in Threads, pc'[u] \in Accessing, call'[u].op # "get",
                       NEW t \in Sets, mAttrs'[t] = at'[u]
                PROVE  t = call'[u].set
    BY DEF UniqueOK
  <2>1. CASE u = th
    BY <1>1, <1>4, <1>9, <2>1 DEF Holders, s
  <2>2. CASE u # th
    <3>1. Busy(u)
      BY <1>9, <2>2 DEF Busy, Accessing, Loading
    <3>. QED
      BY <1>1, <1>4, <1>9, <2>2, <3>1 DEF Inv, UniqueOK
  <2>. QED
    BY <2>1, <2>2
<1>16. NewOK'
  BY <1>4, <1>9 DEF Inv, NewOK
<1>17. MutexOK'
  <2>. SUFFICES ASSUME NEW u \in Threads
                PROVE  /\ pc'[u] \in HoldsArray => mMutex'[at'[u]] = u
                       /\ pc'[u] \in HoldsPage => pageMutex'[PageOf(u)'] = u
    BY DEF MutexOK
  <2>1. CASE u = th
    BY <1>6, <1>9, <2>1 DEF HoldsArray, HoldsPage, Loading
  <2>2. CASE u # th
    <3>1. (pc[u] \in HoldsArray \/ pc[u] \in HoldsPage) => Busy(u)
      BY DEF HoldsArray, HoldsPage, Loading, Busy
    <3>. QED
      BY <1>1, <1>9, <1>11, <2>2, <3>1 DEF Inv, MutexOK
  <2>. QED
    BY <2>1, <2>2
<1>18. HeldOK'
  BY <1>1, <1>3, <1>4, <1>7, <1>10, HeldAfter
<1>19. PageOK'
  <2>1. Unused.mPageHandle \notin Handle
    BY Kinds DEF Unused, Created
  <2>2. \A b \in Arrays : array'[b] = array[b] \/ array'[b].mPageHandle \notin Handle
    BY <1>5, <2>1
  <2>. QED
    BY <1>1, <2>2, PagesKept
<1>20. LoadOK'
  <2>. SUFFICES ASSUME NEW u \in Threads
                PROVE  (/\ pc[u] \in Loading => array[at[u]].mOutOfCore
                        /\ pc[u] \in {"allocate", "read"} => page[PageOf(u)].mInfo # "none"
                        /\ pc[u] = "copyOut" => page[PageOf(u)].mInfo = "none"
                        /\ pc[u] = "clear" => array[at[u]].mData = Here(u).slice
                        /\ pc[u] = "access" /\ call[u].op # "fill" => ~array[at[u]].mOutOfCore)'
    BY DEF LoadOK
  <2>1. CASE u = th
    BY <1>1, <1>6, <1>9, <2>1 DEF Loading
  <2>2. CASE u # th
    <3>1. pc[u] \in Loading \cup {"access"} => Busy(u)
      BY DEF Busy, Loading
    <3>. QED
      BY <1>1, <1>9, <1>11, <2>2, <3>1 DEF Inv, LoadOK, Loading
  <2>. QED
    BY <2>1, <2>2
<1>21. CopyOK'
  <2>. SUFFICES ASSUME NEW u \in Threads
                PROVE  /\ pc'[u] = "copyHandle" =>
                              array'[new'[u]] =
                                  [array'[at'[u]] EXCEPT !.mPageHandle = None, !.mData = None]
                       /\ pc'[u] = "copyData" =>
                              array'[new'[u]] = [array'[at'[u]] EXCEPT !.mData = None]
                       /\ pc'[u] = "assign" =>
                              /\ Sound(array'[new'[u]])
                              /\ Row(array'[new'[u]]) = Row(array'[at'[u]])
    BY DEF CopyOK
  <2>1. CASE pc'[u] \notin HasNew
    BY <2>1 DEF HasNew
  <2>2. CASE pc'[u] \in HasNew
    <3>1. u # th /\ pc'[u] = pc[u] /\ Busy(u) /\ new[u] # None
      BY <1>6, <1>9, <2>2 DEF Inv, CallOK, HasNew, Busy
    <3>2. array'[new'[u]] = array[new[u]] /\ array'[at'[u]] = array[at[u]]
      BY <1>8, <1>9, <1>11, <3>1
    <3>. QED
      BY <3>1, <3>2 DEF Inv, CopyOK, Sound
  <2>. QED
    BY <2>1, <2>2
<1>. QED
  BY <1>12, <1>13, <1>14, <1>15, <1>16, <1>17, <1>18, <1>19, <1>20, <1>21 DEF Inv

\* Nobody works on a place on the heap that is free.
LEMMA FreeApart ==
    ASSUME Inv, NEW a \in Arrays, Free(a)
    PROVE  /\ \A s \in Sets : mAttrs[s] # a
           /\ \A u \in Threads : (Busy(u) => at[u] # a) /\ new[u] # a
<1>1. \A s \in Sets : mAttrs[s] # a
  BY DEF Free, Holders
<1>. QED
  BY <1>1, AtWork DEF Free

\* A set that has no array takes one from the heap.
LEMMA TakeInv ==
    ASSUME Inv, NEW s \in Sets, Absent(s), NEW a \in Arrays, Free(a), NEW g \in ArrayFields,
           Sound(g) \/ Reading(g), g.mPageHandle \notin Handle,
           array' = [array EXCEPT ![a] = g], mAttrs' = [mAttrs EXCEPT ![s] = a],
           UNCHANGED <<page, locks, thread, failures, wild>>
    PROVE  Inv'
<1>1. wild' = FALSE
  BY Zenon DEF Inv, NotWild, TypeOK
<1>2. Users(s) = {}
  BY DEF Absent
<1>3. array'[a] = g /\ \A b \in Arrays : b # a => array'[b] = array[b]
  BY DEF Inv, TypeOK
<1>4. \A u \in Threads : Busy(u) =>
          /\ array'[at[u]] = array[at[u]]
          /\ pc[u] \in Accessing /\ call[u].op # "get" => a # at[u]
  BY <1>3, FreeApart, AtWork
<1>5. \A u \in Threads : new[u] # None => array'[new[u]] = array[new[u]] /\ a # new[u]
  BY <1>3, FreeApart DEF Inv, TypeOK
<1>6. HeldOK'
  <2>1. \A t \in Sets : t # s /\ mAttrs[t] # None => array'[mAttrs[t]] = array[mAttrs[t]]
    BY <1>3, FreeApart DEF Inv, TypeOK
  <2>2. \A t \in Sets : mAttrs[t] # a
    BY FreeApart
  <2>. QED
    BY <1>3, <2>1, <2>2, HeldAfter
<1>7. PageOK'
  BY <1>3, PagesKept
<1>8. array' \in [Arrays -> ArrayFields] /\ page' \in [Pages -> PageFields] /\ page' = page
  BY DEF Inv, TypeOK
<1>9. \A u \in Threads : pc[u] \in Loading =>
          (page'[PageOf(u)].mInfo = "none" <=> page[PageOf(u)].mInfo = "none")
  BY <1>8
<1>10. a \in Arrays \cup {None} /\ UNCHANGED <<locks, thread, failures>>
  OBVIOUS
<1>. QED
  BY <1>1, <1>2, <1>4, <1>5, <1>6, <1>7, <1>8, <1>9, <1>10, OwnerChange

\* A new array for a new leaf.
LEMMA CreateInv ==
    ASSUME Inv, NEW s \in Sets, Create(s)
    PROVE  Inv'
<1>1. Created \in ArrayFields /\ Sound(Created) /\ Created.mPageHandle \notin Handle
  <2>1. Created \in ArrayFields
    BY DataKinds, Kinds DEF Created, ArrayFields
  <2>. QED
    BY <2>1, DataKinds, Kinds DEF Created, Sound
<1>. QED
  BY <1>1, TakeInv DEF Create

\* The metadata of an array are read: it is partial, and holds no handle.
LEMMA ReadMetadataInv ==
    ASSUME Inv, NEW s \in Sets, NEW b \in BOOLEAN, NEW paged \in BOOLEAN, ReadMetadata(s, b, paged)
    PROVE  Inv'
<1>. DEFINE g == [Created EXCEPT !.mIsUniform = b, !.mUsePagedRead = paged,
                                 !.partial = TRUE, !.mPageHandle = Bytes]
<1>1. Created \in ArrayFields
  BY DataKinds, Kinds DEF Created, ArrayFields
<1>2. g \in ArrayFields
  BY <1>1 DEF ArrayFields
<1>3. g.partial = TRUE /\ g.mPageHandle = Bytes /\ g.mOutOfCore = FALSE
  BY DEF Created
<1>4. Reading(g) /\ g.mPageHandle \notin Handle
  BY <1>3, Kinds DEF Reading
<1>5. PICK a \in Arrays : /\ Free(a) /\ mAttrs' = [mAttrs EXCEPT ![s] = a]
                          /\ array' = [array EXCEPT ![a] = g]
  BY DEF ReadMetadata
<1>6. Absent(s) /\ UNCHANGED <<page, locks, thread, failures, wild>>
  BY DEF ReadMetadata
<1>. HIDE DEF g
<1>. QED
  BY <1>2, <1>4, <1>5, <1>6, TakeInv

\* A set takes the array of another one that is not being written, and lets
\* go of its own.
LEMMA TakeOverInv ==
    ASSUME Inv, NEW s \in Sets, Users(s) = {}, NEW t \in Sets, t # s, MayRead(t),
           mAttrs' = [mAttrs EXCEPT ![s] = mAttrs[t]],
           array' = array \/ array' = Released(s),
           UNCHANGED <<page, locks, thread, failures>>, wild' = FALSE
    PROVE  Inv'
<1>. DEFINE x == mAttrs[t]
<1>1. /\ x \in Arrays /\ x # None /\ Sound(array[x])
      /\ \A u \in Threads : Busy(u) /\ call[u].set = t => call[u].op = "get"
  <2>1. x \in Arrays /\ x # None
    BY DEF MayRead, Present, Inv, TypeOK
  <2>2. Sound(array[x])
    BY <2>1 DEF MayRead, Present, Inv, HeldOK
  <2>3. \A u \in Threads : Busy(u) /\ call[u].set = t => call[u].op = "get"
    BY DEF MayRead, Writers, Users
  <2>. QED
    BY <2>1, <2>2, <2>3
<1>. HIDE DEF x
<1>2. /\ array' \in [Arrays -> ArrayFields]
      /\ \A b \in Arrays : array'[b] = array[b] \/ (array'[b] = Unused /\ Holders(b) = {s})
  BY ReleasedFacts DEF Inv, TypeOK
<1>3. \A q \in Sets : q # s /\ mAttrs[q] # None => array'[mAttrs[q]] = array[mAttrs[q]]
  <2>. SUFFICES ASSUME NEW q \in Sets, q # s, mAttrs[q] # None
                PROVE  array'[mAttrs[q]] = array[mAttrs[q]]
    OBVIOUS
  <2>1. mAttrs[q] \in Arrays /\ q \in Holders(mAttrs[q])
    BY DEF Inv, TypeOK, Holders
  <2>. QED
    BY <1>2, <2>1
<1>4. \A u \in Threads : Busy(u) =>
          /\ array'[at[u]] = array[at[u]]
          /\ pc[u] \in Accessing /\ call[u].op # "get" => x # at[u]
  <2>. SUFFICES ASSUME NEW u \in Threads, Busy(u)
                PROVE  /\ array'[at[u]] = array[at[u]]
                       /\ pc[u] \in Accessing /\ call[u].op # "get" => x # at[u]
    OBVIOUS
  <2>1. call[u].set \in Sets /\ at[u] = mAttrs[call[u].set] /\ at[u] # None /\ call[u].set # s
    BY AtWork, Kinds DEF Users
  <2>2. pc[u] \in Accessing /\ call[u].op # "get" => x # at[u]
    BY <1>1 DEF Inv, UniqueOK, x
  <2>. QED
    BY <1>3, <2>1, <2>2
<1>5. \A u \in Threads : new[u] # None => array'[new[u]] = array[new[u]] /\ x # new[u]
  <2>. SUFFICES ASSUME NEW u \in Threads, new[u] # None
                PROVE  array'[new[u]] = array[new[u]] /\ x # new[u]
    OBVIOUS
  <2>1. new[u] \in Arrays /\ Holders(new[u]) = {} /\ x # new[u]
    BY DEF Inv, TypeOK, NewOK, Holders, x
  <2>. QED
    BY <1>2, <2>1
<1>6. HeldOK'
  <2>1. array'[x] = array[x]
    BY <1>1, <1>3 DEF x
  <2>. QED
    BY <1>1, <1>3, <2>1, HeldAfter DEF x
<1>7. PageOK'
  <2>1. Unused.mPageHandle \notin Handle
    BY Kinds DEF Unused, Created
  <2>. QED
    BY <1>2, <2>1, PagesKept
<1>8. page' \in [Pages -> PageFields] /\ page' = page
  BY DEF Inv, TypeOK
<1>9. mAttrs' = [mAttrs EXCEPT ![s] = x]
  BY DEF x
<1>10. \A u \in Threads : pc[u] \in Loading =>
          (page'[PageOf(u)].mInfo = "none" <=> page[PageOf(u)].mInfo = "none")
  BY <1>8
<1>11. x \in Arrays \cup {None}
  BY <1>1
<1>. QED
  BY <1>2, <1>4, <1>5, <1>6, <1>7, <1>8, <1>9, <1>10, <1>11, OwnerChange

\* A copied set shares the array.
LEMMA ShareInv ==
    ASSUME Inv, NEW s \in Sets, NEW t \in Sets, Share(s, t)
    PROVE  Inv'
<1>1. s # t /\ Users(s) = {}
  BY DEF Share, Absent, MayRead, Present
<1>2. wild' = FALSE
  BY Zenon DEF Share, Inv, NotWild, TypeOK
<1>. QED
  BY <1>1, <1>2, TakeOverInv DEF Share

\* replace() shares the array of the other set.
LEMMA ReplaceInv ==
    ASSUME Inv, NEW s \in Sets, NEW t \in Sets, Replace(s, t)
    PROVE  Inv'
<1>1. s # t /\ Users(s) = {} /\ MayRead(t)
  BY DEF Replace, MayWrite
<1>2. wild' = FALSE
  <2>1. ~DestroysBytes(s)
    BY ReleasedFacts
  <2>. QED
    BY <2>1, Zenon DEF Replace
<1>3. array' = array \/ array' = Released(s)
  BY DEF Replace
<1>. QED
  BY <1>1, <1>2, <1>3, TakeOverInv DEF Replace

\* A set drops its array.
LEMMA DestroyInv ==
    ASSUME Inv, NEW s \in Sets, Destroy(s)
    PROVE  Inv'
<1>1. /\ Users(s) = {} /\ mAttrs' = [mAttrs EXCEPT ![s] = None] /\ array' = Released(s)
      /\ page' = page
  BY DEF Destroy, Vacant
<1>2. wild' = FALSE
  <2>1. wild' = DestroysBytes(s)
    BY Zenon DEF Destroy
  <2>2. ~DestroysBytes(s)
    BY ReleasedFacts
  <2>3. DestroysBytes(s) \in BOOLEAN
    BY Zenon DEF DestroysBytes
  <2>. QED
    BY <2>1, <2>2, <2>3, Zenon
<1>3. /\ array' \in [Arrays -> ArrayFields]
      /\ \A b \in Arrays : array'[b] = array[b] \/ (array'[b] = Unused /\ Holders(b) = {s})
  BY <1>1, ReleasedFacts
<1>4. \A q \in Sets : q # s /\ mAttrs[q] # None => array'[mAttrs[q]] = array[mAttrs[q]]
  <2>. SUFFICES ASSUME NEW q \in Sets, q # s, mAttrs[q] # None
                PROVE  array'[mAttrs[q]] = array[mAttrs[q]]
    OBVIOUS
  <2>1. mAttrs[q] \in Arrays /\ q \in Holders(mAttrs[q])
    BY DEF Inv, TypeOK, Holders
  <2>. QED
    BY <1>3, <2>1
<1>5. \A u \in Threads : Busy(u) =>
          /\ array'[at[u]] = array[at[u]]
          /\ pc[u] \in Accessing /\ call[u].op # "get" => None # at[u]
  <2>. SUFFICES ASSUME NEW u \in Threads, Busy(u)
                PROVE  array'[at[u]] = array[at[u]] /\ None # at[u]
    OBVIOUS
  <2>1. call[u].set \in Sets /\ at[u] = mAttrs[call[u].set] /\ at[u] # None /\ call[u].set # s
    BY <1>1, AtWork, Kinds DEF Users
  <2>. QED
    BY <1>4, <2>1
<1>6. \A u \in Threads : new[u] # None => array'[new[u]] = array[new[u]] /\ None # new[u]
  <2>. SUFFICES ASSUME NEW u \in Threads, new[u] # None PROVE array'[new[u]] = array[new[u]]
    OBVIOUS
  <2>1. new[u] \in Arrays /\ Holders(new[u]) = {}
    BY DEF Inv, TypeOK, NewOK, Holders
  <2>. QED
    BY <1>3, <2>1
<1>7. HeldOK'
  BY <1>1, <1>4, HeldAfter
<1>8. PageOK'
  <2>1. Unused.mPageHandle \notin Handle
    BY Kinds DEF Unused, Created
  <2>. QED
    BY <1>1, <1>3, <2>1, PagesKept
<1>9. page' \in [Pages -> PageFields]
  BY <1>1 DEF Inv, TypeOK
<1>10. \A u \in Threads : pc[u] \in Loading =>
          (page'[PageOf(u)].mInfo = "none" <=> page[PageOf(u)].mInfo = "none")
  BY <1>1
<1>11. UNCHANGED <<locks, thread, failures>>
  BY DEF Destroy
<1>. QED
  BY <1>1, <1>2, <1>3, <1>5, <1>6, <1>7, <1>8, <1>9, <1>10, <1>11, OwnerChange

\* An array is read on: only its set knows of it.
LEMMA ReadOnInv ==
    ASSUME Inv, NEW s \in Sets, Vacant(s), MidRead(mAttrs[s]), NEW g \in ArrayFields,
           Sound(g) \/ Reading(g),
           array' = [array EXCEPT ![mAttrs[s]] = g], mAttrs' = mAttrs,
           page' \in [Pages -> PageFields], PageOK',
           \A u \in Threads : pc[u] \in Loading =>
               (page'[PageOf(u)].mInfo = "none" <=> page[PageOf(u)].mInfo = "none"),
           UNCHANGED <<locks, thread, failures, wild>>
    PROVE  Inv'
<1>. DEFINE a == mAttrs[s]
<1>1. a \in Arrays /\ a # None /\ Users(s) = {} /\ \A t \in Sets : t # s => mAttrs[t] # a
  <2>1. a \in Arrays /\ a # None /\ Users(s) = {}
    BY DEF Vacant, Inv, TypeOK
  <2>. QED
    BY <2>1 DEF Inv, HeldOK
<1>2. wild' = FALSE
  BY Zenon DEF Inv, NotWild, TypeOK
<1>3. array'[a] = g /\ \A b \in Arrays : b # a => array'[b] = array[b]
  BY <1>1 DEF Inv, TypeOK
<1>4. array' \in [Arrays -> ArrayFields] /\ mAttrs' = [mAttrs EXCEPT ![s] = a]
  BY DEF Inv, TypeOK
<1>5. \A u \in Threads : Busy(u) => at[u] # a /\ at[u] \in Arrays
  BY AtWork
<1>6. \A u \in Threads : new[u] # None => new[u] # a /\ new[u] \in Arrays
  BY DEF Inv, NewOK, TypeOK
<1>. HIDE DEF a
<1>7. \A u \in Threads : Busy(u) =>
          /\ array'[at[u]] = array[at[u]]
          /\ pc[u] \in Accessing /\ call[u].op # "get" => a # at[u]
  BY <1>3, <1>5
<1>8. \A u \in Threads : new[u] # None => array'[new[u]] = array[new[u]] /\ a # new[u]
  BY <1>3, <1>6
<1>9. HeldOK'
  <2>1. \A t \in Sets : t # s /\ mAttrs[t] # None => array'[mAttrs[t]] = array[mAttrs[t]]
    BY <1>1, <1>3 DEF Inv, TypeOK
  <2>2. a # None => \/ Sound(array'[a])
                    \/ Reading(array'[a]) /\ \A t \in Sets : t # s => mAttrs[t] # a
    BY <1>1, <1>3
  <2>. QED
    BY <1>1, <1>4, <2>1, <2>2, HeldAfter
<1>10. a \in Arrays \cup {None} /\ UNCHANGED <<locks, thread, failures>>
  BY <1>1
<1>. QED
  BY <1>1, <1>2, <1>4, <1>7, <1>8, <1>9, <1>10, OwnerChange

\* The array that is read on, before the step.
LEMMA MidReadFacts ==
    ASSUME Inv, NEW s \in Sets, Vacant(s), MidRead(mAttrs[s])
    PROVE  /\ mAttrs[s] \in Arrays /\ array[mAttrs[s]] \in ArrayFields
           /\ Reading(array[mAttrs[s]])
<1>1. mAttrs[s] \in Arrays /\ mAttrs[s] # None
  BY DEF Vacant, Inv, TypeOK
<1>. QED
  BY <1>1 DEF Inv, TypeOK, HeldOK

\* The array gets a handle to its slice of a page.
LEMMA ReadSizesInv ==
    ASSUME Inv, NEW s \in Sets, NEW p \in Pages, NEW slice \in Data, ReadSizes(s, p, slice)
    PROVE  Inv'
<1>. DEFINE a == mAttrs[s]
            h == [page |-> p, slice |-> slice]
            g == [array[a] EXCEPT !.partial = FALSE, !.mPageHandle = h]
<1>1. /\ Vacant(s) /\ MidRead(a) /\ slice \in Stored(array[a].mIsUniform)
      /\ array[a].mUsePagedRead
      /\ UNCHANGED <<mAttrs, locks, thread, failures, wild>>
  BY DEF ReadSizes, MidRead
<1>2. a \in Arrays /\ array[a] \in ArrayFields /\ Reading(array[a])
  BY <1>1, MidReadFacts
<1>3. array' = [array EXCEPT ![a] = g]
  BY <1>2 DEF ReadSizes, Inv, TypeOK
<1>4. h \in Handle /\ h.slice = slice /\ h.page = p
  BY HandleFields
<1>. HIDE DEF h
<1>5. /\ g \in ArrayFields /\ g.partial = FALSE /\ g.mPageHandle = h /\ g.mOutOfCore = FALSE
      /\ g.mUsePagedRead = array[a].mUsePagedRead /\ g.mIsUniform = array[a].mIsUniform
  <2>1. array[a].mOutOfCore = FALSE
    BY <1>2, Fields DEF Reading
  <2>. QED
    BY <1>2, <1>4, <2>1 DEF ArrayFields
<1>6. Reading(g)
  BY <1>1, <1>4, <1>5 DEF Reading
<1>7. /\ page' \in [Pages -> PageFields]
      /\ \A q \in Pages : page'[q] = page[q] \/ (q = p /\ ~Referenced(p))
      /\ page'[p].mInfo = "header"
  <2>1. page \in [Pages -> PageFields]
    BY DEF Inv, TypeOK
  <2>2. CASE Referenced(p)
    BY <2>1, <2>2 DEF ReadSizes
  <2>3. CASE ~Referenced(p)
    <3>1. page' = [page EXCEPT ![p] = [mInfo |-> "header", mData |-> "null"]]
      BY <2>3 DEF ReadSizes
    <3>2. [mInfo |-> "header", mData |-> "null"] \in PageFields
      BY DEF PageFields
    <3>. QED
      BY <2>1, <2>3, <3>1, <3>2
  <2>. QED
    BY <2>2, <2>3
<1>. HIDE DEF g, a
<1>8. array'[a] = g /\ \A b \in Arrays : b # a => array'[b] = array[b]
  BY <1>2, <1>3 DEF Inv, TypeOK
<1>9. PageOK'
  <2>. SUFFICES ASSUME NEW b \in Arrays, array'[b].mPageHandle \in Handle
                PROVE  /\ page'[array'[b].mPageHandle.page].mInfo = "none" =>
                              page'[array'[b].mPageHandle.page].mData = "loaded"
                       /\ array'[b].mOutOfCore => page'[array'[b].mPageHandle.page].mInfo # "header"
    BY DEF PageOK
  <2>1. CASE b = a
    BY <1>4, <1>5, <1>7, <1>8, <2>1
  <2>2. CASE b # a
    <3>1. array'[b] = array[b]
      BY <1>8, <2>2
    <3>2. array[b].mPageHandle.page \in Pages
      BY <3>1, HandleFields
    <3>3. page'[array[b].mPageHandle.page] = page[array[b].mPageHandle.page]
      BY <1>7, <3>1, <3>2 DEF Referenced
    <3>. QED
      BY <3>1, <3>3 DEF Inv, PageOK
  <2>. QED
    BY <2>1, <2>2
<1>10. \A u \in Threads : pc[u] \in Loading =>
          (page'[PageOf(u)].mInfo = "none" <=> page[PageOf(u)].mInfo = "none")
  <2>. SUFFICES ASSUME NEW u \in Threads, pc[u] \in Loading
                PROVE  page'[PageOf(u)] = page[PageOf(u)]
    OBVIOUS
  <2>1. Busy(u)
    BY DEF Busy, Loading
  <2>2. at[u] \in Arrays /\ Here(u) \in Handle
    BY <2>1, AtWork DEF Inv, LoadOK, Sound, Here
  <2>3. PageOf(u) \in Pages /\ Referenced(PageOf(u))
    BY <2>2, HandleFields DEF PageOf, Here, Referenced
  <2>. QED
    BY <1>7, <2>3
<1>. QED
  BY <1>1, <1>3, <1>5, <1>6, <1>7, <1>9, <1>10, ReadOnInv DEF a

\* The array is out of core from now on, and its page knows its place.
LEMMA ReadDelayedInv ==
    ASSUME Inv, NEW s \in Sets, ReadDelayed(s)
    PROVE  Inv'
<1>. DEFINE a == mAttrs[s]
            p == array[a].mPageHandle.page
            g == [array[a] EXCEPT !.mUsePagedRead = FALSE, !.mOutOfCore = TRUE, !.mData = None]
<1>1. /\ Vacant(s) /\ MidRead(a) /\ array[a].mUsePagedRead /\ ~array[a].partial
      /\ page' = IF page[p].mInfo = "header" THEN [page EXCEPT ![p].mInfo = "file"] ELSE page
      /\ UNCHANGED <<mAttrs, locks, thread, failures, wild>>
  BY DEF ReadDelayed, MidRead
<1>2. a \in Arrays /\ array[a] \in ArrayFields /\ Reading(array[a])
  BY <1>1, MidReadFacts
<1>3. array' = [array EXCEPT ![a] = g]
  BY <1>2 DEF ReadDelayed, Inv, TypeOK
<1>4. array[a].mPageHandle \in Handle /\ array[a].mPageHandle.slice \in Stored(array[a].mIsUniform)
  BY <1>1, <1>2 DEF Reading
<1>5. /\ g \in ArrayFields /\ g.partial = array[a].partial
      /\ g.mPageHandle = array[a].mPageHandle /\ g.mOutOfCore = TRUE
      /\ g.mUsePagedRead = FALSE /\ g.mIsUniform = array[a].mIsUniform
  BY <1>2 DEF ArrayFields
<1>6. Sound(g)
  BY <1>1, <1>4, <1>5, Kinds DEF Sound
<1>7. p \in Pages
  BY <1>4, HandleFields
<1>. HIDE DEF p
<1>8. /\ page' \in [Pages -> PageFields]
      /\ \A q \in Pages : /\ page'[q].mInfo = "none" <=> page[q].mInfo = "none"
                          /\ page'[q].mInfo = "header" => page[q].mInfo = "header"
                          /\ page'[q].mData = page[q].mData
      /\ page'[p].mInfo # "header"
  <2>1. page \in [Pages -> PageFields]
    BY DEF Inv, TypeOK
  <2>2. CASE page[p].mInfo = "header"
    <3>1. page' = [page EXCEPT ![p].mInfo = "file"]
      BY <1>1, <2>2
    <3>2. page' \in [Pages -> PageFields]
      BY <1>7, <2>1, <3>1 DEF PageFields
    <3>3. /\ page'[p].mInfo = "file" /\ page'[p].mData = page[p].mData
          /\ \A q \in Pages : q # p => page'[q] = page[q]
      BY <1>7, <2>1, <3>1 DEF PageFields
    <3>. QED
      BY <2>2, <3>2, <3>3
  <2>3. CASE page[p].mInfo # "header"
    BY <1>1, <2>1, <2>3
  <2>. QED
    BY <2>2, <2>3
<1>. HIDE DEF g, a
<1>9. array'[a] = g /\ \A b \in Arrays : b # a => array'[b] = array[b]
  BY <1>2, <1>3 DEF Inv, TypeOK
<1>10. PageOK'
  <2>. SUFFICES ASSUME NEW b \in Arrays, array'[b].mPageHandle \in Handle
                PROVE  /\ page'[array'[b].mPageHandle.page].mInfo = "none" =>
                              page'[array'[b].mPageHandle.page].mData = "loaded"
                       /\ array'[b].mOutOfCore => page'[array'[b].mPageHandle.page].mInfo # "header"
    BY DEF PageOK
  <2>1. array'[b].mPageHandle = array[b].mPageHandle
    BY <1>5, <1>9
  <2>2. array[b].mPageHandle.page \in Pages
    BY <2>1, HandleFields
  <2>3. CASE b = a
    BY <1>8, <2>1, <2>2, <2>3 DEF Inv, PageOK, p
  <2>4. CASE b # a
    BY <1>8, <1>9, <2>1, <2>2, <2>4 DEF Inv, PageOK
  <2>. QED
    BY <2>3, <2>4
<1>11. \A u \in Threads : pc[u] \in Loading =>
          (page'[PageOf(u)].mInfo = "none" <=> page[PageOf(u)].mInfo = "none")
  <2>. SUFFICES ASSUME NEW u \in Threads, pc[u] \in Loading PROVE PageOf(u) \in Pages
    BY <1>8
  <2>1. Busy(u)
    BY DEF Busy, Loading
  <2>2. Here(u) \in Handle
    BY <2>1, AtWork DEF Inv, LoadOK, Sound, Here
  <2>. QED
    BY <2>2, HandleFields DEF PageOf
<1>. QED
  BY <1>1, <1>3, <1>5, <1>6, <1>8, <1>10, <1>11, ReadOnInv DEF a

\* The array has its data at once.
LEMMA ReadPlainInv ==
    ASSUME Inv, NEW s \in Sets, NEW data \in Data, ReadPlain(s, data)
    PROVE  Inv'
<1>. DEFINE a == mAttrs[s]
            g == [array[a] EXCEPT !.partial = FALSE, !.mPageHandle = None, !.mData = data]
<1>1. /\ Vacant(s) /\ MidRead(a) /\ ~array[a].mUsePagedRead
      /\ data \in Stored(array[a].mIsUniform)
      /\ UNCHANGED <<mAttrs, page, locks, thread, failures, wild>>
  BY DEF ReadPlain, MidRead
<1>2. a \in Arrays /\ array[a] \in ArrayFields /\ Reading(array[a])
  BY <1>1, MidReadFacts
<1>3. array' = [array EXCEPT ![a] = g]
  BY <1>2 DEF ReadPlain, Inv, TypeOK
<1>4. /\ g \in ArrayFields /\ g.partial = FALSE /\ g.mPageHandle = None /\ g.mData = data
      /\ g.mOutOfCore = array[a].mOutOfCore
      /\ g.mUsePagedRead = array[a].mUsePagedRead /\ g.mIsUniform = array[a].mIsUniform
  BY <1>2 DEF ArrayFields
<1>5. Sound(g)
  BY <1>1, <1>2, <1>4, Kinds DEF Sound, Reading
<1>. HIDE DEF g, a
<1>6. \A b \in Arrays : array'[b] = array[b] \/ array'[b].mPageHandle \notin Handle
  BY <1>2, <1>3, <1>4, Kinds DEF Inv, TypeOK
<1>7. PageOK'
  BY <1>1, <1>6, PagesKept
<1>8. page' \in [Pages -> PageFields]
  BY <1>1 DEF Inv, TypeOK
<1>9. \A u \in Threads : pc[u] \in Loading =>
          (page'[PageOf(u)].mInfo = "none" <=> page[PageOf(u)].mInfo = "none")
  BY <1>1
<1>. QED
  BY <1>1, <1>3, <1>4, <1>5, <1>7, <1>8, <1>9, ReadOnInv DEF a

\* Every step keeps the invariant.
LEMMA StepInv ==
    ASSUME Inv, [Next]_vars
    PROVE  Inv'
<1>1. ASSUME NEW th \in Threads, BeginStep(th) PROVE Inv'
  BY <1>1, BeginReadInv, BeginWriteInv DEF BeginStep
<1>2. ASSUME NEW th \in Threads, CopyStep(th) PROVE Inv'
  BY <1>2, CopyLockInv, CopyFlagsInv, CopyHandleInv, CopyDataInv, AssignInv DEF CopyStep
<1>3. ASSUME NEW th \in Threads, LoadStep(th) PROVE Inv'
  BY <1>3, LookInv, PageInv, CopyOutInv, ClearFlagInv DEF LoadStep
<1>4. ASSUME NEW th \in Threads, AccessStep(th) PROVE Inv'
  BY <1>4, AccessInv
<1>5. ASSUME OwnerStep PROVE Inv'
  <2>1. PICK s \in Sets :
            \/ Create(s)
            \/ \E t \in Sets : Share(s, t) \/ Replace(s, t)
            \/ Destroy(s)
            \/ \E u, paged \in BOOLEAN : ReadMetadata(s, u, paged)
            \/ \E p \in Pages, slice \in Data : ReadSizes(s, p, slice)
            \/ ReadDelayed(s)
            \/ \E data \in Data : ReadPlain(s, data)
    BY <1>5 DEF OwnerStep
  <2>2. CASE Create(s) \/ Destroy(s) \/ ReadDelayed(s)
    BY <2>2, CreateInv, DestroyInv, ReadDelayedInv
  <2>3. ASSUME NEW t \in Sets, Share(s, t) \/ Replace(s, t) PROVE Inv'
    BY <2>3, ShareInv, ReplaceInv
  <2>4. ASSUME NEW u \in BOOLEAN, NEW paged \in BOOLEAN, ReadMetadata(s, u, paged) PROVE Inv'
    BY <2>4, ReadMetadataInv
  <2>5. ASSUME NEW p \in Pages, NEW slice \in Data, ReadSizes(s, p, slice) PROVE Inv'
    BY <2>5, ReadSizesInv
  <2>6. ASSUME NEW data \in Data, ReadPlain(s, data) PROVE Inv'
    BY <2>6, ReadPlainInv
  <2>. QED
    BY <2>1, <2>2, <2>3, <2>4, <2>5, <2>6
<1>6. CASE UNCHANGED vars
  <2>1. wild' = FALSE
    BY <1>6, Zenon DEF vars, Inv, NotWild, TypeOK
  <2>2. UNCHANGED <<mAttrs, array, page, mMutex, pageMutex, pc, call, at, new, failures>>
    BY <1>6 DEF vars, locks, thread
  <2>3. wild' \in BOOLEAN
    BY <2>1, Zenon
  <2>4. TypeOK' /\ NotWild'
    BY <2>1, <2>2, <2>3 DEF Inv, TypeOK, NotWild
  <2>5. CallOK' /\ ExclusionOK' /\ UniqueOK' /\ NewOK' /\ MutexOK'
    BY <2>2 DEF Inv, CallOK, ExclusionOK, UniqueOK, NewOK, MutexOK, Busy, MidRead, PageOf, Here
  <2>6. HeldOK' /\ PageOK' /\ LoadOK'
    BY <2>2 DEF Inv, HeldOK, PageOK, LoadOK, MidRead, PageOf, Here
  <2>7. CopyOK'
    BY <2>2 DEF Inv, CopyOK
  <2>. QED
    BY <2>4, <2>5, <2>6, <2>7 DEF Inv
<1>. QED
  BY <1>1, <1>2, <1>3, <1>4, <1>5, <1>6 DEF Next, Step

-----------------------------------------------------------------------------
(* Theorems                                                                *)

\* The strengthened invariant holds of every behaviour.
THEOREM InvHolds == Spec => []Inv
  BY InitInv, StepInv, PTL DEF Spec

\* The fields of arrays, pages and calls have their types, whoever shares them.
THEOREM TypeCorrect == Spec => []TypeOK
<1>1. Inv => TypeOK
  BY DEF Inv
<1>. QED
  BY <1>1, InvHolds, PTL

\* No null pointer is followed, and a number of bytes is never destroyed as a
\* page handle, however far the reading of a leaf had got.
THEOREM NeverWild == Spec => []NotWild
<1>1. Inv => NotWild
  BY DEF Inv
<1>. QED
  BY <1>1, InvHolds, PTL

\* What a thread comes to access is in memory and still the array of its set,
\* whoever loaded it and whatever became of the sets that shared it.
THEOREM AccessIsSafe == Spec => []AccessSafe
<1>1. Inv => AccessSafe
  <2>. SUFFICES ASSUME Inv, NEW th \in Threads, pc[th] = "access"
                PROVE  /\ at[th] = mAttrs[call[th].set]
                       /\ call[th].op # "fill" => ~array[at[th]].mOutOfCore /\ array[at[th]].mData # None
    BY DEF AccessSafe
  <2>1. Busy(th)
    BY DEF Busy
  <2>. QED
    BY <2>1, AtWork, Ready
<1>. QED
  BY <1>1, InvHolds, PTL

\* Copy on write: a thread that changes an array is alone with it.
THEOREM CopyOnWrite == Spec => []WritesAlone
<1>1. Inv => WritesAlone
  <2>. SUFFICES ASSUME Inv, NEW th \in Threads, pc[th] = "access", call[th].op # "get"
                PROVE  /\ Holders(at[th]) = {call[th].set}
                       /\ \A u \in Threads \ {th} : at[u] # at[th]
    BY DEF WritesAlone
  <2>1. pc[th] \in Accessing /\ Busy(th)
    BY DEF Accessing, Busy
  <2>2. at[th] \in Arrays /\ at[th] = mAttrs[call[th].set] /\ call[th].set \in Sets
    BY <2>1, AtWork
  <2>3. Holders(at[th]) = {call[th].set}
    BY <2>1, <2>2 DEF Inv, UniqueOK, Holders
  <2>4. ASSUME NEW u \in Threads \ {th} PROVE at[u] # at[th]
    <3>1. CASE Busy(u)
      BY <2>1, <3>1, Alone
    <3>2. CASE ~Busy(u)
      BY <2>2, <3>2, Kinds DEF Inv, CallOK
    <3>. QED
      BY <3>1, <3>2
  <2>. QED
    BY <2>3, <2>4
<1>. QED
  BY <1>1, InvHolds, PTL

\* Nobody copies from a page that is not complete, or begins to load again
\* while somebody copies.
THEOREM PagesComplete == Spec => []PageComplete
<1>1. Inv => PageComplete
  <2>. SUFFICES ASSUME Inv, NEW th \in Threads, pc[th] = "copyOut"
                PROVE  page[PageOf(th)].mData = "loaded"
    BY DEF PageComplete
  <2>1. pc[th] \in Loading /\ page[PageOf(th)].mInfo = "none"
    BY DEF Loading, Inv, LoadOK
  <2>. QED
    BY <2>1, Loader
<1>. QED
  BY <1>1, InvHolds, PTL

-----------------------------------------------------------------------------
(* The order of the locks                                                  *)

\* A mutex is held by a thread inside the statements it guards, and a thread
\* holds one page at most (the converse of MutexOK).
HolderOK ==
    /\ \A a \in Arrays : mMutex[a] # None =>
           at[mMutex[a]] = a /\ pc[mMutex[a]] \in HoldsArray
    /\ \A p \in Pages : pageMutex[p] # None => pc[pageMutex[p]] \in HoldsPage
    /\ \A p, r \in Pages : pageMutex[p] # None /\ pageMutex[p] = pageMutex[r] => p = r

\* At first nobody holds a mutex.
LEMMA InitHolder == Init => HolderOK
  BY DEF Init, HolderOK

\* A step of a thread that takes or releases no mutex and stays where it may
\* hold those it has.
LEMMA HoldersStay ==
    ASSUME Inv, HolderOK, NEW th \in Threads, UNCHANGED locks,
           \/ UNCHANGED pc
           \/ \E q : pc' = [pc EXCEPT ![th] = q] /\ (pc[th] \in HoldsArray => q \in HoldsArray)
                                                /\ (pc[th] \in HoldsPage => q \in HoldsPage),
           pc[th] \in HoldsArray => at'[th] = at[th],
           \A u \in Threads \ {th} : at'[u] = at[u]
    PROVE  HolderOK'
<1>1. mMutex' = mMutex /\ pageMutex' = pageMutex
  BY DEF locks
<1>2. ASSUME NEW u \in Threads
      PROVE  /\ pc[u] \in HoldsArray => pc'[u] \in HoldsArray /\ at'[u] = at[u]
             /\ pc[u] \in HoldsPage => pc'[u] \in HoldsPage
  BY DEF Inv, TypeOK
<1>3. \A a \in Arrays : mMutex[a] \in Threads \cup {None}
  BY DEF Inv, TypeOK
<1>4. \A p \in Pages : pageMutex[p] \in Threads \cup {None}
  BY DEF Inv, TypeOK
<1>. QED
  BY <1>1, <1>2, <1>3, <1>4 DEF HolderOK

\* makeUnique() takes the mutex of the array it copies.
LEMMA CopyHolder ==
    ASSUME Inv, HolderOK, NEW th \in Threads, CopyStep(th)
    PROVE  HolderOK'
<1>. USE DEF Goto, locks
<1>1. CASE CopyLock(th)
  BY <1>1, Kinds DEF CopyLock, HolderOK, HoldsArray, HoldsPage, Inv, TypeOK
<1>2. CASE CopyFlags(th)
  BY <1>2, HoldersStay DEF CopyFlags, HoldsArray, HoldsPage
<1>3. CASE CopyHandle(th)
  BY <1>3, HoldersStay DEF CopyHandle, HoldsArray, HoldsPage
<1>4. CASE CopyData(th)
  BY <1>4, Kinds DEF CopyData, HolderOK, HoldsArray, HoldsPage, Inv, TypeOK
<1>5. CASE Assign(th)
  BY <1>5, HoldersStay DEF Assign, HoldsArray, HoldsPage, Loading, Inv, TypeOK
<1>. QED
  BY <1>1, <1>2, <1>3, <1>4, <1>5 DEF CopyStep

\* doLoad() takes the mutex of the array, then that of the page; an exception
\* releases both.
LEMMA LoadHolder ==
    ASSUME Inv, HolderOK, NEW th \in Threads, LoadStep(th)
    PROVE  HolderOK'
<1>. USE DEF Goto, locks, HoldsArray, HoldsPage, Loading
<1>1. CASE CheckInCore(th)
  BY <1>1, HoldersStay DEF CheckInCore
<1>2. CASE Lock(th)
  BY <1>2, Kinds DEF Lock, HolderOK, Inv, TypeOK
<1>3. CASE Recheck(th)
  BY <1>3, Kinds DEF Recheck, HolderOK, Inv, TypeOK
<1>4. CASE CheckPage(th)
  BY <1>4, HoldersStay DEF CheckPage
<1>5. CASE LockPage(th)
  BY <1>5, Kinds DEF LockPage, HolderOK, Inv, TypeOK
<1>6. CASE RecheckPage(th)
  BY <1>6, Kinds, Loader DEF RecheckPage, HolderOK, MutexOK, Inv, TypeOK
<1>7. CASE AllocatePage(th)
  BY <1>7, HoldersStay DEF AllocatePage
<1>8. CASE ReadPage(th)
  BY <1>8, Kinds, Loader DEF ReadPage, HolderOK, MutexOK, Inv, TypeOK
<1>9. CASE LoadThrows(th)
  BY <1>9, Kinds, Loader DEF LoadThrows, Return, HolderOK, MutexOK, Inv, TypeOK
<1>10. CASE CopyOut(th)
  BY <1>10, HoldersStay DEF CopyOut
<1>11. CASE ClearFlag(th)
  BY <1>11, Kinds DEF ClearFlag, HolderOK, Inv, TypeOK
<1>. QED
  BY <1>1, <1>2, <1>3, <1>4, <1>5, <1>6, <1>7, <1>8, <1>9, <1>10, <1>11 DEF LoadStep

\* Every step keeps the mutexes with those inside.
LEMMA StepHolder ==
    ASSUME Inv, HolderOK, [Next]_vars
    PROVE  HolderOK'
<1>1. ASSUME NEW th \in Threads, BeginStep(th) PROVE HolderOK'
  <2>1. /\ UNCHANGED locks /\ pc[th] = "idle"
        /\ \E q : pc' = [pc EXCEPT ![th] = q]
        /\ \A u \in Threads \ {th} : at'[u] = at[u]
    BY <1>1 DEF BeginStep, BeginRead, BeginWrite, Enter, Busy, Inv, TypeOK
  <2>. QED
    BY <2>1, HoldersStay DEF HoldsArray, HoldsPage, Loading
<1>2. ASSUME NEW th \in Threads, AccessStep(th) PROVE HolderOK'
  <2>1. /\ UNCHANGED locks /\ pc[th] = "access"
        /\ pc' = [pc EXCEPT ![th] = "idle"]
        /\ at' = [at EXCEPT ![th] = None]
    BY <1>2 DEF AccessStep, Read, SetElement, Fill, Collapse, Expand, Compact, AccessAs, Update,
        Return
  <2>2. \A u \in Threads \ {th} : at'[u] = at[u]
    BY <2>1 DEF Inv, TypeOK
  <2>3. pc[th] \notin HoldsArray /\ pc[th] \notin HoldsPage
    BY <2>1 DEF HoldsArray, HoldsPage, Loading
  <2>. QED
    BY <2>1, <2>2, <2>3, HoldersStay
<1>3. CASE OwnerStep
  <2>1. UNCHANGED <<locks, thread>>
    BY <1>3 DEF OwnerStep, Create, Share, Replace, Destroy, ReadMetadata, ReadSizes, ReadDelayed,
        ReadPlain
  <2>. QED
    BY <2>1 DEF HolderOK, locks, thread
<1>4. CASE UNCHANGED vars
  BY <1>4 DEF HolderOK, vars, locks, thread
<1>. QED
  BY <1>1, <1>2, <1>3, <1>4, CopyHolder, LoadHolder DEF Next, Step

\* The locks are taken in one order, that of an array before that of a page,
\* and given back by whoever leaves: nobody waits in a circle.
THEOREM LocksOrdered == Spec => []LockOrder
<1>1. ASSUME Inv, HolderOK PROVE LockOrder
  <2>. SUFFICES ASSUME NEW th \in Threads, Awaited(th) # None
                PROVE  /\ Busy(Awaited(th))
                       /\ \/ Awaited(Awaited(th)) = None
                          \/ pc[th] # "lockPage" /\ pc[Awaited(th)] = "lockPage"
    BY DEF LockOrder
  <2>1. CASE pc[th] \in {"lock", "copyLock"}
    <3>1. Awaited(th) = mMutex[at[th]] /\ at[th] \in Arrays
      BY <1>1, <2>1, AtWork DEF Awaited, Busy
    <3>2. pc[Awaited(th)] \in HoldsArray
      BY <1>1, <3>1 DEF HolderOK
    <3>. QED
      BY <2>1, <3>2 DEF Awaited, Busy, HoldsArray, Loading
  <2>2. CASE pc[th] = "lockPage"
    <3>1. Awaited(th) = pageMutex[PageOf(th)] /\ PageOf(th) \in Pages
      BY <1>1, <2>2, Loader DEF Awaited, Loading
    <3>2. pc[Awaited(th)] \in HoldsPage
      BY <1>1, <3>1 DEF HolderOK
    <3>. QED
      BY <3>2 DEF Awaited, Busy, HoldsPage
  <2>. QED
    BY <2>1, <2>2 DEF Awaited
<1>2. Spec => []HolderOK
  BY InitHolder, StepHolder, InvHolds, PTL DEF Spec
<1>. QED
  BY <1>1, <1>2, InvHolds, PTL

-----------------------------------------------------------------------------
(* Every step is one of PointValues, or not to be seen.                    *)

\* The values that an array stands for.
ContentOf(f) ==
    IF f.partial \/ f.mUsePagedRead THEN None
    ELSE LET data == IF f.mOutOfCore THEN f.mPageHandle.slice ELSE f.mData
         IN  [e \in Elements |-> IF data = None THEN Garbage ELSE Get(data, f.mIsUniform, e)]

\* The values of a set are those of its array.
LEMMA ContentNow ==
    ASSUME NEW s \in Sets
    PROVE  /\ Content(s) = IF mAttrs[s] = None THEN None ELSE ContentOf(array[mAttrs[s]])
           /\ Content(s)' = IF mAttrs'[s] = None THEN None ELSE ContentOf(array'[mAttrs'[s]])
           /\ mAttrs[s] = None => ~Present(s)
           /\ mAttrs[s] # None => MidRead(mAttrs[s]) = ~Present(s)
<1>1. Content(s) = IF mAttrs[s] = None THEN None ELSE ContentOf(array[mAttrs[s]])
  BY DEF Content, Present, MidRead, ContentOf
<1>2. Content(s)' = IF mAttrs'[s] = None THEN None ELSE ContentOf(array'[mAttrs'[s]])
  BY DEF Content, Present, MidRead, ContentOf
<1>3. /\ mAttrs[s] = None => ~Present(s)
      /\ mAttrs[s] # None => MidRead(mAttrs[s]) = ~Present(s)
  BY DEF Present, MidRead
<1>. QED
  BY <1>1, <1>2, <1>3

\* A usable array has values, and one that is being read has none.
LEMMA ContentOfSound ==
    ASSUME NEW f \in ArrayFields, Sound(f)
    PROVE  ContentOf(f) = Row(f) /\ Row(f) \in Contents!Rows /\ Row(f) # None
<1>1. Row(f) \in [Elements -> Values]
  BY RowTyped
<1>2. Row(f) # None
  <2>1. Row(f) \in Data
    BY <1>1 DEF Data
  <2>. QED
    BY <2>1, Kinds
<1>3. ContentOf(f) = Row(f)
  <2>1. /\ f.mOutOfCore \in BOOLEAN /\ f.mIsUniform \in BOOLEAN
        /\ f.mOutOfCore => f.mPageHandle.slice # None
        /\ ~f.mOutOfCore => f.mData # None
    BY Fields, DataKinds, Kinds DEF Sound
  <2>. QED
    BY <2>1 DEF ContentOf, Row, Sound
<1>. QED
  BY <1>1, <1>2, <1>3 DEF Contents!Rows, Contents!Elements, Elements

LEMMA ContentOfReading ==
    ASSUME NEW f, Reading(f)
    PROVE  ContentOf(f) = None
  BY DEF ContentOf, Reading

\* So a set has values when its array can be used.
LEMMA ContentIs ==
    ASSUME Inv, NEW s \in Sets
    PROVE  /\ Present(s) =>
                  /\ mAttrs[s] \in Arrays /\ array[mAttrs[s]] \in ArrayFields
                  /\ Sound(array[mAttrs[s]])
                  /\ Content(s) = Row(array[mAttrs[s]]) /\ Content(s) # None
           /\ ~Present(s) => Content(s) = None
<1>1. CASE mAttrs[s] = None
  BY <1>1, ContentNow
<1>2. CASE mAttrs[s] # None
  <2>1. mAttrs[s] \in Arrays /\ array[mAttrs[s]] \in ArrayFields
    BY <1>2 DEF Inv, TypeOK
  <2>2. IF MidRead(mAttrs[s]) THEN Reading(array[mAttrs[s]]) ELSE Sound(array[mAttrs[s]])
    BY <1>2 DEF Inv, HeldOK
  <2>3. Content(s) = ContentOf(array[mAttrs[s]]) /\ MidRead(mAttrs[s]) = ~Present(s)
    BY <1>2, ContentNow
  <2>4. CASE MidRead(mAttrs[s])
    BY <2>2, <2>3, <2>4, ContentOfReading
  <2>5. CASE ~MidRead(mAttrs[s])
    BY <2>1, <2>2, <2>3, <2>5, ContentOfSound
  <2>. QED
    BY <2>4, <2>5
<1>. QED
  BY <1>1, <1>2

\* A step that leaves every set its values and every thread its call.
LEMMA Unseen ==
    ASSUME \A s \in Sets : Content(s)' = Content(s), UNCHANGED <<call, failures>>
    PROVE  UNCHANGED Contents!vars
<1>1. [s \in Sets |-> Content(s)]' = [s \in Sets |-> Content(s)]
  OBVIOUS
<1>. QED
  BY <1>1 DEF Contents!vars

\* A step that changes only arrays no set holds.
LEMMA ArraysKept ==
    ASSUME mAttrs' = mAttrs,
           \A s \in Sets : mAttrs[s] # None =>
               ContentOf(array'[mAttrs[s]]) = ContentOf(array[mAttrs[s]])
    PROVE  \A s \in Sets : Content(s)' = Content(s)
<1>. SUFFICES ASSUME NEW s \in Sets PROVE Content(s)' = Content(s)
  OBVIOUS
<1>. HIDE DEF Content
<1>. QED
  BY ContentNow

\* The array of a call is changed, and with it the values of its set only.
LEMMA ArrayChanged ==
    ASSUME Inv, NEW th \in Threads, Busy(th), mAttrs' = mAttrs,
           NEW g \in ArrayFields, Sound(g), array' = [array EXCEPT ![at[th]] = g]
    PROVE  /\ \A s \in Sets : mAttrs[s] # at[th] => Content(s)' = Content(s)
           /\ \A s \in Sets : mAttrs[s] = at[th] => Content(s)' = Row(g)
<1>1. at[th] \in Arrays /\ call[th].set \in Sets /\ mAttrs[call[th].set] = at[th]
  BY AtWork
<1>2. array'[at[th]] = g /\ \A b \in Arrays : b # at[th] => array'[b] = array[b]
  BY <1>1 DEF Inv, TypeOK
<1>3. \A s \in Sets : mAttrs[s] \in Arrays \cup {None}
  BY DEF Inv, TypeOK
<1>4. ContentOf(g) = Row(g)
  BY ContentOfSound
<1>5. ASSUME NEW s \in Sets, mAttrs[s] # at[th] PROVE Content(s)' = Content(s)
  BY <1>2, <1>3, <1>5, ContentNow
<1>6. ASSUME NEW s \in Sets, mAttrs[s] = at[th] PROVE Content(s)' = Row(g)
  <2>1. mAttrs'[s] = at[th] /\ at[th] # None
    BY <1>1, <1>6, Kinds
  <2>2. Content(s)' = ContentOf(array'[mAttrs'[s]])
    BY <2>1, ContentNow
  <2>. QED
    BY <1>2, <1>4, <2>1, <2>2
<1>. QED
  BY <1>5, <1>6

\* Arrays that other sets hold stay when a set lets go of its own.
LEMMA ReleasedKeeps ==
    ASSUME Inv, NEW s \in Sets, NEW q \in Sets, q # s, mAttrs[q] # None
    PROVE  Released(s)[mAttrs[q]] = array[mAttrs[q]]
<1>1. mAttrs[q] \in Arrays /\ q \in Holders(mAttrs[q])
  BY DEF Inv, TypeOK, Holders
<1>. QED
  BY <1>1, ReleasedFacts

\* A call begins when the values of its set are there.
LEMMA BeginMaps ==
    ASSUME Inv, NEW th \in Threads, BeginStep(th)
    PROVE  \E c \in Calls : Contents!Begin(th, c)
<1>1. PICK c \in Calls : /\ ~Busy(th) /\ Present(c.set) /\ call' = [call EXCEPT ![th] = c]
                         /\ UNCHANGED <<mAttrs, array, failures>>
  <2>1. CASE \E s \in Sets : BeginRead(th, s)
    <3>1. PICK s \in Sets : BeginRead(th, s)
      BY <2>1
    <3>. DEFINE c == [op |-> "get", set |-> s, element |-> 1, value |-> Zero]
    <3>2. c \in Calls /\ c.set = s
      BY DEF Calls
    <3>3. /\ ~Busy(th) /\ Present(c.set) /\ call' = [call EXCEPT ![th] = c]
          /\ UNCHANGED <<mAttrs, array, failures>>
      BY <3>1, <3>2 DEF BeginRead, MayRead, Enter
    <3>. HIDE DEF c
    <3>. QED
      BY <3>2, <3>3
  <2>2. CASE \E c \in Calls : BeginWrite(th, c)
    BY <2>2 DEF BeginWrite, MayWrite, Enter
  <2>. QED
    BY <2>1, <2>2 DEF BeginStep
<1>2. call[th] = None /\ c.set \in Sets
  BY <1>1 DEF Inv, CallOK, Calls
<1>3. Content(c.set) # None
  BY <1>1, <1>2, ContentIs
<1>4. \A s \in Sets : Content(s)' = Content(s)
  BY <1>1, ArraysKept
<1>5. [s \in Sets |-> Content(s)]' = [s \in Sets |-> Content(s)]
  BY <1>4
<1>. QED
  BY <1>1, <1>2, <1>3, <1>5 DEF Contents!Begin

\* Looking for the data of an array, and getting those of a page.
LEMMA LookMaps ==
    ASSUME Inv, NEW th \in Threads,
           \/ CheckInCore(th) \/ Lock(th) \/ Recheck(th) \/ CheckPage(th) \/ LockPage(th)
           \/ RecheckPage(th) \/ AllocatePage(th) \/ ReadPage(th) \/ CopyLock(th)
    PROVE  UNCHANGED Contents!vars
<1>1. UNCHANGED <<mAttrs, array, call, failures>>
  BY DEF CheckInCore, Lock, Recheck, CheckPage, LockPage, RecheckPage, AllocatePage, ReadPage, CopyLock
<1>. QED
  BY <1>1, ArraysKept, Unseen

\* The data of an array change while its values are those of the page.
LEMMA CopyOutMaps ==
    ASSUME Inv, NEW th \in Threads, CopyOut(th)
    PROVE  UNCHANGED Contents!vars
<1>. DEFINE f == array[at[th]]
            d == IF page[PageOf(th)].mData = "loaded" THEN Here(th).slice ELSE Full(Garbage)
            g == [f EXCEPT !.mData = d]
<1>1. Busy(th) /\ f.mOutOfCore
  BY Loader DEF CopyOut, Busy, Loading
<1>2. f \in ArrayFields /\ at[th] \in Arrays
  BY <1>1, AtWork
<1>3. /\ array' = [array EXCEPT ![at[th]] = g]
      /\ UNCHANGED <<mAttrs, call, failures>>
  BY <1>2 DEF CopyOut, Inv, TypeOK
<1>. HIDE DEF d
<1>4. ContentOf(g) = ContentOf(f)
  <2>1. /\ g.partial = f.partial /\ g.mUsePagedRead = f.mUsePagedRead
        /\ g.mOutOfCore = f.mOutOfCore /\ g.mPageHandle = f.mPageHandle
        /\ g.mIsUniform = f.mIsUniform
    BY <1>2 DEF ArrayFields
  <2>. HIDE DEF f, g
  <2>. QED
    BY <1>1, <2>1 DEF ContentOf
<1>. HIDE DEF g
<1>5. array'[at[th]] = g /\ \A b \in Arrays : b # at[th] => array'[b] = array[b]
  BY <1>2, <1>3 DEF Inv, TypeOK
<1>6. \A s \in Sets : mAttrs[s] # None => mAttrs[s] \in Arrays
  BY DEF Inv, TypeOK
<1>7. \A s \in Sets : mAttrs[s] # None => ContentOf(array'[mAttrs[s]]) = ContentOf(array[mAttrs[s]])
  BY <1>4, <1>5, <1>6
<1>. QED
  BY <1>3, <1>7, ArraysKept, Unseen

\* From here on they are those in memory.
LEMMA ClearFlagMaps ==
    ASSUME Inv, NEW th \in Threads, ClearFlag(th)
    PROVE  UNCHANGED Contents!vars
<1>. DEFINE f == array[at[th]]
            g == [f EXCEPT !.mOutOfCore = FALSE, !.mPageHandle = None]
<1>1. Busy(th) /\ f.mOutOfCore /\ f.mData = f.mPageHandle.slice
  <2>1. pc[th] = "clear" /\ pc[th] \in Loading /\ Busy(th)
    BY DEF ClearFlag, Busy, Loading
  <2>. QED
    BY <2>1 DEF Inv, LoadOK, Here
<1>2. f \in ArrayFields /\ at[th] \in Arrays
  BY <1>1, AtWork
<1>3. /\ array' = [array EXCEPT ![at[th]] = g]
      /\ UNCHANGED <<mAttrs, call, failures>>
  BY <1>2 DEF ClearFlag, Inv, TypeOK
<1>4. ContentOf(g) = ContentOf(f)
  <2>1. /\ g.partial = f.partial /\ g.mUsePagedRead = f.mUsePagedRead
        /\ g.mOutOfCore = FALSE /\ g.mData = f.mData /\ g.mIsUniform = f.mIsUniform
    BY <1>2 DEF ArrayFields
  <2>. HIDE DEF f, g
  <2>. QED
    BY <1>1, <2>1 DEF ContentOf
<1>. HIDE DEF g
<1>5. array'[at[th]] = g /\ \A b \in Arrays : b # at[th] => array'[b] = array[b]
  BY <1>2, <1>3 DEF Inv, TypeOK
<1>6. \A s \in Sets : mAttrs[s] # None => mAttrs[s] \in Arrays
  BY DEF Inv, TypeOK
<1>7. \A s \in Sets : mAttrs[s] # None => ContentOf(array'[mAttrs[s]]) = ContentOf(array[mAttrs[s]])
  BY <1>4, <1>5, <1>6
<1>. QED
  BY <1>3, <1>7, ArraysKept, Unseen

\* A copy in the making is nobody's.
LEMMA CopyMaps ==
    ASSUME Inv, NEW th \in Threads, CopyFlags(th) \/ CopyHandle(th) \/ CopyData(th)
    PROVE  UNCHANGED Contents!vars
<1>1. UNCHANGED <<mAttrs, call, failures>>
  BY DEF CopyFlags, CopyHandle, CopyData
<1>2. \A s \in Sets : mAttrs[s] # None => array'[mAttrs[s]] = array[mAttrs[s]]
  <2>. SUFFICES ASSUME NEW s \in Sets, mAttrs[s] # None PROVE array'[mAttrs[s]] = array[mAttrs[s]]
    OBVIOUS
  <2>1. mAttrs[s] \in Arrays /\ array \in [Arrays -> ArrayFields]
    BY DEF Inv, TypeOK
  <2>2. CASE CopyFlags(th)
    <3>1. PICK a \in Arrays :
              /\ Free(a)
              /\ array' = [array EXCEPT ![a] =
                              [array[at[th]] EXCEPT !.mPageHandle = None, !.mData = None]]
      BY <2>2 DEF CopyFlags
    <3>2. mAttrs[s] # a
      BY <3>1 DEF Free, Holders
    <3>. QED
      BY <2>1, <3>1, <3>2
  <2>3. CASE CopyHandle(th) \/ CopyData(th)
    <3>1. pc[th] \in {"copyHandle", "copyData"}
      BY <2>3 DEF CopyHandle, CopyData
    <3>2. mAttrs[s] # new[th]
      BY <3>1, Copier DEF Holders
    <3>. QED
      BY <2>1, <2>3, <3>2 DEF CopyHandle, CopyData
  <2>. QED
    BY <2>2, <2>3
<1>. QED
  BY <1>1, <1>2, ArraysKept, Unseen

\* The copy has the values of the array it takes the place of.
LEMMA AssignMaps ==
    ASSUME Inv, NEW th \in Threads, Assign(th)
    PROVE  UNCHANGED Contents!vars
<1>. DEFINE s == call[th].set
            n == new[th]
<1>1. /\ pc[th] = "assign" /\ Busy(th) /\ mAttrs' = [mAttrs EXCEPT ![s] = n]
      /\ array' = Released(s) /\ UNCHANGED <<call, failures>>
  BY DEF Assign, Busy
<1>2. /\ s \in Sets /\ mAttrs[s] = at[th] /\ at[th] # None /\ n # None
      /\ Sound(array[at[th]]) /\ array[at[th]] \in ArrayFields
  <2>1. n # None
    BY <1>1 DEF Inv, CallOK, HasNew
  <2>. QED
    BY <1>1, <2>1, AtWork, Kinds
<1>3. n \in Arrays /\ Holders(n) = {} /\ array[n] \in ArrayFields
  BY <1>2 DEF Inv, TypeOK, NewOK, Holders
<1>4. Sound(array[n]) /\ Row(array[n]) = Row(array[at[th]])
  BY <1>1 DEF Inv, CopyOK
<1>5. array'[n] = array[n]
  BY <1>1, <1>2, <1>3, ReleasedFacts
<1>6. ContentOf(array[n]) = ContentOf(array[at[th]])
  BY <1>2, <1>3, <1>4, ContentOfSound
<1>. HIDE DEF s, n
<1>7. mAttrs'[s] = n /\ \A q \in Sets : q # s => mAttrs'[q] = mAttrs[q]
  BY <1>1, <1>2 DEF Inv, TypeOK
<1>8. ASSUME NEW q \in Sets PROVE Content(q)' = Content(q)
  <2>1. CASE q = s
    <3>1. /\ Content(q) = ContentOf(array[at[th]])
          /\ Content(q)' = ContentOf(array'[mAttrs'[q]])
      BY <1>2, <1>7, <2>1, ContentNow
    <3>. QED
      BY <1>5, <1>6, <1>7, <2>1, <3>1
  <2>2. CASE q # s
    BY <1>1, <1>2, <1>7, <2>2, ReleasedKeeps, ContentNow
  <2>. QED
    BY <2>1, <2>2
<1>. QED
  BY <1>1, <1>8, Unseen

\* A call that throws.
LEMMA ThrowMaps ==
    ASSUME Inv, NEW th \in Threads, LoadThrows(th)
    PROVE  Contents!Fail(th)
<1>1. /\ Busy(th) /\ failures' = failures + 1 /\ call' = [call EXCEPT ![th] = None]
      /\ UNCHANGED <<mAttrs, array>>
  BY DEF LoadThrows, Return, Busy
<1>2. call[th] # None
  BY <1>1, AtWork, Kinds
<1>3. \A s \in Sets : Content(s)' = Content(s)
  BY <1>1, ArraysKept
<1>4. [s \in Sets |-> Content(s)]' = [s \in Sets |-> Content(s)]
  BY <1>3
<1>. QED
  BY <1>1, <1>2, <1>4 DEF Contents!Fail

\* A call that returns has had its effect on its set and on no other one.
LEMMA AccessMaps ==
    ASSUME Inv, NEW th \in Threads, AccessStep(th)
    PROVE  Contents!Finish(th)
<1>. DEFINE c == call[th]
<1>1. pc[th] = "access" /\ Busy(th)
  BY DEF AccessStep, Read, SetElement, Fill, Collapse, Expand, Compact, AccessAs, Busy
<1>2. /\ c \in Calls /\ c # None /\ c.set \in Sets /\ mAttrs[c.set] = at[th]
      /\ at[th] \in Arrays /\ at[th] # None /\ array[at[th]] \in ArrayFields
      /\ Sound(array[at[th]])
  BY <1>1, AtWork, Kinds
<1>3. Content(c.set) = Row(array[at[th]])
  <2>. DEFINE s == c.set
  <2>1. Content(s) = ContentOf(array[at[th]])
    BY <1>2, ContentNow
  <2>. QED
    BY <1>2, <2>1, ContentOfSound
<1>4. /\ call' = [call EXCEPT ![th] = None] /\ failures' = failures
      /\ \A s \in Sets :
             Content(s)' = IF s = c.set THEN Contents!Effect(c, Content(s)) ELSE Content(s)
  <2>1. CASE Read(th)
    <3>1. /\ c.op = "get" /\ call' = [call EXCEPT ![th] = None]
          /\ UNCHANGED <<failures, mAttrs, array>>
      BY <2>1 DEF Read, AccessAs, Return
    <3>2. \A s \in Sets : Content(s)' = Content(s)
      BY <3>1, ArraysKept
    <3>3. \A row : Contents!Effect(c, row) = row
      BY <3>1 DEF Contents!Effect
    <3>. QED
      BY <3>1, <3>2, <3>3
  <2>2. CASE SetElement(th) \/ Fill(th) \/ Collapse(th) \/ Expand(th) \/ Compact(th)
    <3>1. PICK g : /\ Fits(array[at[th]], g) /\ array' = [array EXCEPT ![at[th]] = g]
                   /\ Row(g) = Contents!Effect(c, Row(array[at[th]]))
                   /\ c.op # "get"
                   /\ Return(th) /\ UNCHANGED <<mAttrs, failures>>
      BY <2>2, WriteStep
    <3>2. g \in ArrayFields /\ Sound(g)
      BY <3>1 DEF Fits
    <3>3. /\ \A s \in Sets : mAttrs[s] # at[th] => Content(s)' = Content(s)
          /\ \A s \in Sets : mAttrs[s] = at[th] => Content(s)' = Row(g)
      BY <1>1, <3>1, <3>2, ArrayChanged
    <3>4. \A s \in Sets : mAttrs[s] = at[th] <=> s = c.set
      <4>1. pc[th] \in Accessing
        BY <1>1 DEF Accessing
      <4>. QED
        BY <1>2, <3>1, <4>1 DEF Inv, UniqueOK
    <3>5. call' = [call EXCEPT ![th] = None]
      BY <3>1 DEF Return
    <3>. QED
      BY <1>3, <3>1, <3>3, <3>4, <3>5
  <2>. QED
    BY <2>1, <2>2 DEF AccessStep
<1>5. [s \in Sets |-> Content(s)]' =
          [[s \in Sets |-> Content(s)] EXCEPT ![c.set] = Contents!Effect(c, @)]
  BY <1>2, <1>4
<1>. QED
  BY <1>2, <1>4, <1>5 DEF Contents!Finish

\* After a step on one set only its values have changed.
LEMMA OthersKept ==
    ASSUME Inv, NEW s \in Sets, \A q \in Sets : q # s => mAttrs'[q] = mAttrs[q],
           \A q \in Sets : q # s /\ mAttrs[q] # None => array'[mAttrs[q]] = array[mAttrs[q]]
    PROVE  \A q \in Sets : q # s => Content(q)' = Content(q)
<1>. SUFFICES ASSUME NEW q \in Sets, q # s PROVE Content(q)' = Content(q)
  OBVIOUS
<1>. HIDE DEF Content
<1>. QED
  BY ContentNow

\* What a set without values gets is values, or still none.
LEMMA ComesMaps ==
    ASSUME Inv, Inv', NEW s \in Sets, ~Present(s), UNCHANGED <<call, failures>>,
           \A q \in Sets : q # s => Content(q)' = Content(q)
    PROVE  (\E row \in Contents!Rows : Contents!Appear(s, row)) \/ Contents!Vanish(s)
<1>1. Content(s) = None
  BY ContentIs
<1>2. Content(s)' = None \/ Content(s)' \in Contents!Rows
  <2>1. CASE mAttrs'[s] = None
    BY <2>1, ContentNow
  <2>2. CASE mAttrs'[s] # None
    <3>1. array'[mAttrs'[s]] \in ArrayFields
      BY <2>2 DEF Inv, TypeOK
    <3>2. Reading(array'[mAttrs'[s]]) \/ Sound(array'[mAttrs'[s]])
      BY <2>2 DEF Inv, HeldOK
    <3>3. Content(s)' = ContentOf(array'[mAttrs'[s]])
      BY <2>2, ContentNow
    <3>. QED
      BY <3>1, <3>2, <3>3, ContentOfSound, ContentOfReading
  <2>. QED
    BY <2>1, <2>2
<1>. DEFINE row == Content(s)'
<1>3. [q \in Sets |-> Content(q)]' = [[q \in Sets |-> Content(q)] EXCEPT ![s] = row]
  OBVIOUS
<1>. HIDE DEF row
<1>4. CASE row = None
  BY <1>3, <1>4 DEF Contents!Vanish
<1>5. CASE row \in Contents!Rows
  BY <1>1, <1>3, <1>5 DEF Contents!Appear
<1>. QED
  BY <1>2, <1>4, <1>5 DEF row

\* Leaves are created and read.
LEMMA ReadingMaps ==
    ASSUME Inv, Inv', NEW s \in Sets,
           \/ Create(s)
           \/ \E u, paged \in BOOLEAN : ReadMetadata(s, u, paged)
           \/ \E p \in Pages, slice \in Data : ReadSizes(s, p, slice)
           \/ ReadDelayed(s)
           \/ \E data \in Data : ReadPlain(s, data)
    PROVE  (\E row \in Contents!Rows : Contents!Appear(s, row)) \/ Contents!Vanish(s)
<1>1. UNCHANGED <<call, failures>>
  BY DEF Create, ReadMetadata, ReadSizes, ReadDelayed, ReadPlain, thread
<1>2. ASSUME Absent(s), NEW a \in Arrays, NEW g, Free(a), array' = [array EXCEPT ![a] = g],
             mAttrs' = [mAttrs EXCEPT ![s] = a]
      PROVE  ~Present(s) /\ \A q \in Sets : q # s => Content(q)' = Content(q)
  <2>1. /\ \A q \in Sets : q # s => mAttrs'[q] = mAttrs[q]
        /\ \A q \in Sets : q # s /\ mAttrs[q] # None => array'[mAttrs[q]] = array[mAttrs[q]]
    BY <1>2, FreeApart DEF Inv, TypeOK
  <2>2. ~Present(s)
    BY <1>2 DEF Absent, Present
  <2>. QED
    BY <2>1, <2>2, OthersKept
<1>3. ASSUME Vacant(s), MidRead(mAttrs[s]), mAttrs' = mAttrs,
             \A b \in Arrays : b # mAttrs[s] => array'[b] = array[b]
      PROVE  ~Present(s) /\ \A q \in Sets : q # s => Content(q)' = Content(q)
  <2>1. \A q \in Sets : q # s => mAttrs[q] # mAttrs[s]
    BY <1>3 DEF Vacant, Inv, HeldOK
  <2>2. \A q \in Sets : q # s /\ mAttrs[q] # None => array'[mAttrs[q]] = array[mAttrs[q]]
    BY <1>3, <2>1 DEF Inv, TypeOK
  <2>3. ~Present(s)
    BY <1>3 DEF Present
  <2>. QED
    BY <1>3, <2>2, <2>3, OthersKept
<1>4. CASE Create(s) \/ \E u, paged \in BOOLEAN : ReadMetadata(s, u, paged)
  <2>1. PICK a \in Arrays : \E g : /\ Absent(s) /\ Free(a) /\ array' = [array EXCEPT ![a] = g]
                                   /\ mAttrs' = [mAttrs EXCEPT ![s] = a]
    BY <1>4 DEF Create, ReadMetadata
  <2>2. ~Present(s) /\ \A q \in Sets : q # s => Content(q)' = Content(q)
    BY <1>2, <2>1
  <2>. QED
    BY <1>1, <2>2, ComesMaps
<1>5. CASE \/ \E p \in Pages, slice \in Data : ReadSizes(s, p, slice)
           \/ ReadDelayed(s)
           \/ \E data \in Data : ReadPlain(s, data)
  <2>1. Vacant(s) /\ MidRead(mAttrs[s]) /\ mAttrs' = mAttrs
    BY <1>5 DEF ReadSizes, ReadDelayed, ReadPlain, MidRead
  <2>2. \A b \in Arrays : b # mAttrs[s] => array'[b] = array[b]
    BY <1>5 DEF ReadSizes, ReadDelayed, ReadPlain, Inv, TypeOK
  <2>3. ~Present(s) /\ \A q \in Sets : q # s => Content(q)' = Content(q)
    BY <1>3, <2>1, <2>2
  <2>. QED
    BY <1>1, <2>3, ComesMaps
<1>. QED
  BY <1>4, <1>5

\* A set that shares the array of another one has its values.
LEMMA SharingMaps ==
    ASSUME Inv, NEW s \in Sets, NEW t \in Sets, Share(s, t) \/ Replace(s, t)
    PROVE  Contents!CopyOf(s, t)
<1>1. /\ s # t /\ mAttrs[t] # None /\ mAttrs' = [mAttrs EXCEPT ![s] = mAttrs[t]]
      /\ array' = array \/ array' = Released(s)
      /\ UNCHANGED <<call, failures>>
  BY DEF Share, Replace, Absent, MayRead, Present, thread
<1>2. \A q \in Sets : q # s /\ mAttrs[q] # None => array'[mAttrs[q]] = array[mAttrs[q]]
  BY <1>1, ReleasedKeeps
<1>3. mAttrs'[s] = mAttrs[t] /\ \A q \in Sets : q # s => mAttrs'[q] = mAttrs[q]
  BY <1>1 DEF Inv, TypeOK
<1>4. \A q \in Sets : q # s => Content(q)' = Content(q)
  BY <1>2, <1>3, OthersKept
<1>5. Content(s)' = Content(t)
  BY <1>1, <1>2, <1>3, ContentNow
<1>6. [q \in Sets |-> Content(q)]' =
          [[q \in Sets |-> Content(q)] EXCEPT ![s] = [q \in Sets |-> Content(q)][t]]
  BY <1>4, <1>5
<1>. QED
  BY <1>1, <1>6 DEF Contents!CopyOf

\* A leaf goes, with its values only.
LEMMA DestroyMaps ==
    ASSUME Inv, NEW s \in Sets, Destroy(s)
    PROVE  Contents!Vanish(s)
<1>1. /\ mAttrs' = [mAttrs EXCEPT ![s] = None] /\ array' = Released(s)
      /\ UNCHANGED <<call, failures>>
  BY DEF Destroy, thread
<1>2. mAttrs'[s] = None /\ \A q \in Sets : q # s => mAttrs'[q] = mAttrs[q]
  BY <1>1 DEF Inv, TypeOK
<1>3. \A q \in Sets : q # s /\ mAttrs[q] # None => array'[mAttrs[q]] = array[mAttrs[q]]
  BY <1>1, ReleasedKeeps
<1>4. \A q \in Sets : q # s => Content(q)' = Content(q)
  BY <1>2, <1>3, OthersKept
<1>5. Content(s)' = None
  BY <1>2, ContentNow
<1>6. [q \in Sets |-> Content(q)]' = [[q \in Sets |-> Content(q)] EXCEPT ![s] = None]
  BY <1>4, <1>5
<1>. QED
  BY <1>1, <1>6 DEF Contents!Vanish

\* Every step of the arrays is one of the values.
LEMMA StepMaps ==
    ASSUME Inv, Inv', [Next]_vars
    PROVE  [Contents!Next]_Contents!vars
<1>1. ASSUME NEW th \in Threads, BeginStep(th) \/ Step(th)
      PROVE  [Contents!Next]_Contents!vars
  <2>1. CASE BeginStep(th)
    <3>1. \E c \in Calls : Contents!Begin(th, c)
      BY <2>1, BeginMaps
    <3>. QED
      BY <3>1 DEF Contents!Next
  <2>2. CASE CopyStep(th) \/ (LoadStep(th) /\ ~LoadThrows(th))
    <3>1. UNCHANGED Contents!vars
      BY <2>2, LookMaps, CopyOutMaps, ClearFlagMaps, CopyMaps, AssignMaps DEF CopyStep, LoadStep
    <3>. QED
      BY <3>1
  <2>3. CASE LoadThrows(th)
    <3>1. Contents!Fail(th)
      BY <2>3, ThrowMaps
    <3>. QED
      BY <3>1 DEF Contents!Next
  <2>4. CASE AccessStep(th)
    <3>1. Contents!Finish(th)
      BY <2>4, AccessMaps
    <3>. QED
      BY <3>1 DEF Contents!Next
  <2>. QED
    BY <1>1, <2>1, <2>2, <2>3, <2>4 DEF Step
<1>2. ASSUME OwnerStep PROVE [Contents!Next]_Contents!vars
  <2>1. PICK s \in Sets :
            \/ Create(s)
            \/ \E t \in Sets : Share(s, t) \/ Replace(s, t)
            \/ Destroy(s)
            \/ \E u, paged \in BOOLEAN : ReadMetadata(s, u, paged)
            \/ \E p \in Pages, slice \in Data : ReadSizes(s, p, slice)
            \/ ReadDelayed(s)
            \/ \E data \in Data : ReadPlain(s, data)
    BY <1>2 DEF OwnerStep
  <2>2. ASSUME NEW t \in Sets, Share(s, t) \/ Replace(s, t) PROVE [Contents!Next]_Contents!vars
    <3>1. Contents!CopyOf(s, t)
      BY <2>2, SharingMaps
    <3>. QED
      BY <3>1 DEF Contents!Next
  <2>3. CASE Destroy(s)
    <3>1. Contents!Vanish(s)
      BY <2>3, DestroyMaps
    <3>. QED
      BY <3>1 DEF Contents!Next
  <2>4. CASE \/ Create(s)
             \/ \E u, paged \in BOOLEAN : ReadMetadata(s, u, paged)
             \/ \E p \in Pages, slice \in Data : ReadSizes(s, p, slice)
             \/ ReadDelayed(s)
             \/ \E data \in Data : ReadPlain(s, data)
    <3>1. (\E row \in Contents!Rows : Contents!Appear(s, row)) \/ Contents!Vanish(s)
      BY <2>4, ReadingMaps
    <3>. QED
      BY <3>1 DEF Contents!Next
  <2>. QED
    BY <2>1, <2>2, <2>3, <2>4
<1>3. CASE UNCHANGED vars
  <2>1. UNCHANGED <<mAttrs, array, call, failures>>
    BY <1>3 DEF vars, thread
  <2>2. UNCHANGED Contents!vars
    BY <2>1, ArraysKept, Unseen
  <2>. QED
    BY <2>2
<1>. QED
  BY <1>1, <1>2, <1>3 DEF Next

\* Refinement: however arrays are shared, copied, loaded and compacted, every set
\* has values of its own, and a call does to them what it says or, if it throws,
\* nothing.
THEOREM ValuesAreOwn == Spec => SetsHaveValues
<1>1. Init => Contents!Init
  <2>. SUFFICES ASSUME Init PROVE [s \in Sets |-> Content(s)] = [s \in Sets |-> None]
    BY DEF Init, Contents!Init
  <2>. QED
    BY DEF Init, Content, Present
<1>2. Inv /\ Inv' /\ [Next]_vars => [Contents!Next]_Contents!vars
  BY StepMaps
<1>. QED
  BY <1>1, <1>2, InvHolds, PTL DEF Spec, SetsHaveValues, Contents!Spec
=============================================================================
