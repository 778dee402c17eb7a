------------------------- MODULE LeafContentsProofs -------------------------
(***************************************************************************)
(* Leaf buffers keep the promise of BufferContents: loading changes no     *)
(* content, in whichever thread and however often it fails, and a call     *)
(* that ends has done to the contents what it says.                        *)
(***************************************************************************)
EXTENDS LeafBufferProofs

content == [b \in Buffers |-> ContentOf(b)]
current == [th \in Threads |-> CallOf(th)]

\* What the steps below know of the state before and after.
Good == Inv /\ SourceOK

-----------------------------------------------------------------------------
(* What is seen of a step.                                                 *)

\* The content of a buffer is that of its flag, if nobody copies into it.
LEMMA ContentIs ==
    ASSUME NEW b \in Buffers
    PROVE  /\ content[b] = IF alive[b] /\ Settled(b) THEN Held(b) ELSE None
           /\ content'[b] = IF alive'[b] /\ Settled(b)' THEN Held(b)' ELSE None
BY DEF content, ContentOf

\* No buffer has the content "no content".
LEMMA HeldTyped ==
    ASSUME TypeOK, NEW b \in Buffers
    PROVE  Held(b) \in Contents \cup {Unallocated} /\ Held(b) # None
BY BufferAssumption DEF TypeOK, Held, Value, Contents

\* A call is no "no call".
LEMMA CallIs ==
    ASSUME Inv, NEW th \in Threads
    PROVE  /\ ~Busy(th) => current[th] = None
           /\ Busy(th) =>
                  /\ current[th] = [op |-> op[th], buf |-> buf[th], dst |-> dst[th], arg |-> arg[th]]
                  /\ current[th] \in Promise!Calls
                  /\ current[th] # None
<1>1. ~Busy(th) => current[th] = None
  BY DEF current, CallOf
<1>2. SUFFICES ASSUME Busy(th)
      PROVE  /\ current[th] = [op |-> op[th], buf |-> buf[th], dst |-> dst[th], arg |-> arg[th]]
             /\ current[th] \in Promise!Calls /\ current[th] # None
  BY <1>1
<1>3. current[th] = [op |-> op[th], buf |-> buf[th], dst |-> dst[th], arg |-> arg[th]]
  BY <1>2 DEF current, CallOf
<1>4. /\ op[th] \in Ops /\ arg[th] \in Values
      /\ buf[th] \in Buffers /\ dst[th] \in Buffers \cup {None}
      /\ op[th] \in {"at", "data"} => dst[th] = None
      /\ op[th] = "set" => dst[th] = buf[th]
      /\ op[th] \in {"assign", "construct"} => dst[th] \in Buffers \ {buf[th]}
  BY <1>2 DEF Inv, Core, TypeOK, CallOK
<1>5. current[th] \in Calls
  BY <1>3, <1>4 DEF Calls
<1>6. current[th] \in Promise!Calls
  BY <1>3, <1>4 DEF Ops, Promise!Calls, Promise!Copies
<1>. QED
  BY <1>3, <1>5, <1>6, BufferAssumption

\* Calls of other threads are not touched by a step of th.
LEMMA OthersIn ==
    ASSUME Inv, NEW th \in Threads, NEW at,
           pc' = [pc EXCEPT ![th] = at], UNCHANGED call
    PROVE  /\ \A u \in Threads \ {th} : CallOf(u)' = CallOf(u)
           /\ at # "idle" /\ Busy(th) => current' = current
           /\ at = "idle" => current' = [current EXCEPT ![th] = None]
<1>1. /\ pc'[th] = at /\ \A u \in Threads \ {th} : pc'[u] = pc[u]
      /\ UNCHANGED <<op, buf, dst, arg>>
  BY DEF Inv, Core, TypeOK, call
<1>2. \A u \in Threads \ {th} : CallOf(u)' = CallOf(u)
  BY <1>1 DEF CallOf, Busy
<1>3. at # "idle" /\ Busy(th) => CallOf(th)' = CallOf(th)
  BY <1>1 DEF CallOf, Busy
<1>4. at = "idle" => CallOf(th)' = None
  BY <1>1 DEF CallOf, Busy
<1>. QED
  BY <1>2, <1>3, <1>4 DEF current

\* A step inside a call is not seen, if the content stays what it is where
\* somebody may rely on it.
LEMMA Internal ==
    ASSUME Inv, NEW th \in Threads, Busy(th), NEW at, at # "idle",
           pc' = [pc EXCEPT ![th] = at], UNCHANGED call, alive' = alive,
           \A b \in Buffers : alive[b] /\ Settled(b) => Held(b)' = Held(b)
    PROVE  UNCHANGED <<content, current>>
<1>1. current' = current
  BY OthersIn
<1>2. /\ \A u \in Threads : Busy(u)' <=> Busy(u)
      /\ UNCHANGED <<op, dst>>
  BY DEF Inv, Core, TypeOK, Busy, call
<1>3. \A b \in Buffers : Settled(b)' <=> Settled(b)
  BY <1>2 DEF Settled
<1>4. \A b \in Buffers : ContentOf(b)' = ContentOf(b)
  BY <1>3 DEF ContentOf
<1>. QED
  BY <1>1, <1>4 DEF content

\* Whom a call in progress leaves alone.
LEMMA Mine ==
    ASSUME Inv, NEW th \in Threads, Busy(th)
    PROVE  /\ buf[th] \in Buffers /\ alive[buf[th]] /\ Settled(buf[th])
           /\ op[th] \in {"at", "data", "set", "assign", "construct"}
           /\ op[th] \in {"assign", "construct"} =>
                  dst[th] \in Buffers /\ dst[th] # buf[th] /\ alive[dst[th]] /\ ~Settled(dst[th])
           /\ \A u \in Threads \ {th} : Busy(u) /\ dst[th] \in Buffers => dst[u] # dst[th]
<1>1. /\ buf[th] \in Buffers /\ alive[buf[th]]
      /\ op[th] \in {"at", "data", "set", "assign", "construct"}
      /\ op[th] \in {"assign", "construct"} => dst[th] \in Buffers /\ dst[th] # buf[th]
      /\ dst[th] \in Buffers => alive[dst[th]]
      /\ dst[th] = buf[th] => op[th] = "set"
  BY BufferAssumption DEF Inv, Core, Shape, TypeOK, Ops, CallOK, AliveOK
<1>2. \A u \in Threads \ {th} : Busy(u) /\ dst[th] \in Buffers => dst[u] # dst[th]
  BY DEF Inv, Shape, ExclusionOK
<1>3. \A u \in Threads \ {th} : Busy(u) /\ dst[u] \in Buffers => dst[u] # buf[th]
  BY DEF Inv, Shape, ExclusionOK
<1>4. Settled(buf[th])
  BY <1>1, <1>3, BufferAssumption DEF Settled
<1>. QED
  BY <1>1, <1>2, <1>4 DEF Settled

\* The end of a call: the target of a copy has a content from now on, and
\* everything else is seen as before, where it is.
LEMMA Ends ==
    ASSUME Inv, NEW th \in Threads, Busy(th),
           pc' = [pc EXCEPT ![th] = "idle"], UNCHANGED call, alive' = alive
    PROVE  /\ current[th].op = op[th] /\ current[th].buf = buf[th]
           /\ current[th].dst = dst[th] /\ current[th].arg = arg[th]
           /\ Promise!Return(th)
           /\ \A b \in Buffers : Settled(b)' <=> (Settled(b) \/ b = dst[th])
<1>1. /\ current[th].op = op[th] /\ current[th].buf = buf[th]
      /\ current[th].dst = dst[th] /\ current[th].arg = arg[th]
      /\ current[th] # None
  <2>1. current[th] = [op |-> op[th], buf |-> buf[th], dst |-> dst[th], arg |-> arg[th]]
    BY CallIs
  <2>2. current[th] # None
    BY CallIs
  <2>. QED
    BY <2>1, <2>2
<1>2. current' = [current EXCEPT ![th] = None]
  BY OthersIn
<1>3. Promise!Return(th)
  BY <1>1, <1>2 DEF Promise!Return, current
<1>4. /\ ~Busy(th)' /\ \A u \in Threads \ {th} : Busy(u)' <=> Busy(u)
      /\ dst' = dst /\ op' = op
  BY DEF Inv, Core, TypeOK, Busy, call
<1>5. ASSUME NEW b \in Buffers PROVE Settled(b)' <=> (Settled(b) \/ b = dst[th])
  <2>1. CASE b # dst[th]
    BY <1>4, <2>1 DEF Settled
  <2>2. CASE b = dst[th]
    <3>1. \A u \in Threads : ~(Busy(u)' /\ dst'[u] = b)
      BY <1>4, <2>2, Mine
    <3>. QED
      BY <2>2, <3>1 DEF Settled
  <2>. QED
    BY <2>1, <2>2
<1>. QED
  BY <1>1, <1>3, <1>5

\* A call that ends without effect on contents, by returning or by throwing.
LEMMA NoEffect ==
    ASSUME Inv, NEW th \in Threads, Busy(th), op[th] \in {"at", "data", "set"},
           pc' = [pc EXCEPT ![th] = "idle"], UNCHANGED call, alive' = alive,
           \A b \in Buffers : alive[b] /\ Settled(b) => Held(b)' = Held(b)
    PROVE  /\ Promise!Throw(th)
           /\ op[th] = "at" => Promise!Finish(th)
           /\ op[th] = "data" /\ Held(buf[th]) # Unallocated => Promise!Finish(th)
           /\ content' = content
<1>1. current[th].op = op[th] /\ Promise!Return(th)
  BY Ends
<1>2. \A b \in Buffers : Settled(b)' <=> Settled(b)
  <2>1. dst[th] \in Buffers => dst[th] = buf[th]
    BY BufferAssumption DEF Inv, Core, CallOK
  <2>2. Settled(buf[th])
    BY Mine
  <2>3. \A b \in Buffers : Settled(b)' <=> (Settled(b) \/ b = dst[th])
    BY Ends
  <2>. QED
    BY <2>1, <2>2, <2>3
<1>3. content' = content
  BY <1>2 DEF content, ContentOf
<1>4. ~Promise!Copies(current[th])
  BY <1>1 DEF Promise!Copies
<1>5. Promise!Throw(th)
  BY <1>1, <1>3, <1>4 DEF Promise!Throw, content, current
<1>6. ASSUME op[th] = "at" PROVE Promise!Finish(th)
  BY <1>1, <1>3, <1>6 DEF Promise!Finish, Promise!Copies, content, current
<1>7. ASSUME op[th] = "data", Held(buf[th]) # Unallocated PROVE Promise!Finish(th)
  <2>. PICK b \in Buffers : b = buf[th] /\ alive[b] /\ Settled(b)
    BY Mine
  <2>1. content[b] # Unallocated /\ current[th].buf = b
    BY <1>7, ContentIs, Ends
  <2>2. content' = [content EXCEPT ![b] = IF @ = Unallocated THEN Garbage ELSE @]
    BY <1>3, <2>1 DEF content
  <2>. QED
    BY <1>1, <1>7, <2>1, <2>2 DEF Promise!Finish, Promise!Copies, content, current
<1>. QED
  BY <1>3, <1>5, <1>6, <1>7

-----------------------------------------------------------------------------
(* The steps of a call.                                                    *)

\* Loading is not seen, unless it throws.
LEMMA LoadMaps ==
    ASSUME Good, NEW th \in Threads, LoadStep(th)
    PROVE  Promise!Throw(th) \/ UNCHANGED <<content, current>>
<1>. USE DEF Good, Goto
<1>a. Busy(th) /\ buf[th] \in Buffers
  BY DEF LoadStep, CheckInCore, Lock, Recheck, TakeInfo, AllocateForLoad, ReadValues, LoadThrows,
      ClearFlag, Unlock, Busy, Inv, Core, CallOK
<1>1. CASE CheckInCore(th) \/ Lock(th) \/ Recheck(th) \/ Unlock(th)
  <2>1. UNCHANGED data
    BY <1>1 DEF CheckInCore, Lock, Recheck, Unlock
  <2>2. \A b \in Buffers : Held(b)' = Held(b)
    BY <2>1 DEF data, Held, Value
  <2>3. PICK at \in {"lock", "access", "recheck", "take"} :
            pc' = [pc EXCEPT ![th] = at] /\ UNCHANGED call
    BY <1>1 DEF CheckInCore, Lock, Recheck, Unlock
  <2>. QED
    BY <1>a, <2>1, <2>2, <2>3, Internal DEF data
<1>2. CASE TakeInfo(th) \/ AllocateForLoad(th) \/ ReadValues(th)
  <2>1. mOutOfCore[buf[th]] /\ UNCHANGED <<alive, mOutOfCore, stored>>
    BY <1>2 DEF TakeInfo, AllocateForLoad, ReadValues, Inv, Shape, LoadOK
  <2>2. \A b \in Buffers \ {buf[th]} : UNCHANGED <<mPtr[b], cells[b]>>
    BY <1>2 DEF TakeInfo, AllocateForLoad, ReadValues, Inv, Core, TypeOK
  <2>3. \A b \in Buffers : Held(b)' = Held(b)
    BY <2>1, <2>2 DEF Held, Value
  <2>4. PICK at \in {"allocate", "read", "clear"} :
            pc' = [pc EXCEPT ![th] = at] /\ UNCHANGED call
    BY <1>2 DEF TakeInfo, AllocateForLoad, ReadValues
  <2>. QED
    BY <1>a, <2>1, <2>3, <2>4, Internal
<1>3. CASE ClearFlag(th)
  <2>1. /\ mOutOfCore[buf[th]] /\ mPtr[buf[th]] = "array"
        /\ cells[buf[th]] = stored[buf[th]]
    BY <1>3 DEF ClearFlag, Inv, Shape, LoadOK, SourceOK
  <2>2. \A b \in Buffers : Held(b)' = Held(b)
    BY <1>3, <2>1 DEF ClearFlag, Held, Value, Inv, Core, TypeOK
  <2>. QED
    BY <1>3, <1>a, <2>2, Internal DEF ClearFlag
<1>4. CASE LoadThrows(th)
  <2>1. op[th] \in {"at", "data", "set"}
    BY <1>4, <1>a DEF LoadThrows, Inv, Core, TypeOK, Ops, CallOK, Copying
  <2>2. \A b \in Buffers : Held(b)' = Held(b)
    BY <1>4 DEF LoadThrows, data, Held, Value
  <2>. QED
    BY <1>4, <1>a, <2>1, <2>2, NoEffect DEF LoadThrows, data
<1>. QED
  BY <1>1, <1>2, <1>3, <1>4 DEF LoadStep

\* at() and data() give what is there, or an array nobody has written;
\* setValue() writes its value, if there is an array.
LEMMA AccessMaps ==
    ASSUME Good, NEW th \in Threads, AccessStep(th)
    PROVE  Promise!Finish(th) \/ UNCHANGED <<content, current>>
<1>. USE DEF Good, Goto
<1>a. Busy(th)
  BY DEF AccessStep, Access, Store, LockNew, NewArray, Busy
<1>b. buf[th] \in Buffers /\ alive[buf[th]] /\ Settled(buf[th])
  BY <1>a, Mine
<1>1. CASE Access(th) \/ LockNew(th)
  <2>1. UNCHANGED data /\ \A b \in Buffers : Held(b)' = Held(b)
    BY <1>1 DEF Access, LockNew, data, Held, Value
  <2>2. PICK at \in {"lockNew", "idle", "new"} :
            /\ pc' = [pc EXCEPT ![th] = at] /\ UNCHANGED call
            /\ at = "idle" => op[th] \in {"at", "data"}
    BY <1>1 DEF Access, LockNew
  <2>3. CASE at = "idle"
    <3>1. op[th] = "data" => Held(buf[th]) # Unallocated
      BY <1>1, <1>b, <2>2, <2>3, BufferAssumption
      DEF Access, LockNew, Held, Value, Inv, Core, Shape, TypeOK, LoadOK, Contents
    <3>. QED
      BY <1>a, <2>1, <2>2, <2>3, <3>1, NoEffect DEF data
  <2>4. CASE at # "idle"
    BY <1>a, <2>1, <2>2, <2>4, Internal DEF data
  <2>. QED
    BY <2>3, <2>4
<1>2. CASE Store(th)
  <2>. PICK b \in Buffers : b = buf[th]
    BY <1>b
  <2>1. /\ op[th] = "set" /\ dst[th] = b /\ ~mOutOfCore[b] /\ ~wild
        /\ alive' = alive
    BY <1>2, <1>a DEF Store, Inv, Core, Shape, CallOK, LoadOK
  <2>2. /\ current[th].op = "set" /\ current[th].buf = b /\ current[th].arg = arg[th]
        /\ Promise!Return(th)
        /\ \A c \in Buffers : Settled(c)' <=> (Settled(c) \/ c = b)
    BY <1>2, <1>a, <1>b, <2>1, Ends DEF Store
  <2>3. /\ Held(b)' = Overwritten(Held(b), arg[th])
        /\ \A c \in Buffers \ {b} : Held(c)' = Held(c)
    BY <1>2, <1>b, <2>1, BufferAssumption
    DEF Store, Overwritten, Held, Value, Inv, Core, TypeOK, Contents
  <2>4. content' = [content EXCEPT ![b] = Promise!Overwritten(@, arg[th])]
    BY <1>b, <2>1, <2>2, <2>3 DEF content, ContentOf, Overwritten, Promise!Overwritten
  <2>. QED
    BY <2>2, <2>4 DEF Promise!Finish, Promise!Copies, content, current
<1>3. CASE NewArray(th)
  <2>. PICK b \in Buffers : b = buf[th]
    BY <1>b
  <2>1. /\ op[th] = "data" /\ dst[th] = None /\ ~mOutOfCore[b] /\ mPtr[b] \in {"null", "array"}
        /\ UNCHANGED <<alive, mOutOfCore, stored>>
    BY <1>3, <1>a, <1>b DEF NewArray, Inv, Core, Shape, TypeOK, CallOK, LoadOK, FlagOK
  <2>2. /\ current[th].op = "data" /\ current[th].buf = b
        /\ Promise!Return(th)
        /\ \A c \in Buffers : Settled(c)' <=> Settled(c)
    BY <1>3, <1>a, <2>1, Ends, BufferAssumption DEF NewArray
  <2>3. CASE mPtr[b] = "array"
    <3>1. \A c \in Buffers : Held(c)' = Held(c)
      BY <1>3, <1>b, <2>1, <2>3 DEF NewArray, Held, Value, Inv, Core, TypeOK
    <3>2. Held(b) # Unallocated
      BY <1>b, <2>1, <2>3, BufferAssumption DEF Held, Value, Inv, Core, TypeOK, Contents
    <3>. QED
      BY <1>3, <1>a, <2>1, <3>1, <3>2, NoEffect DEF NewArray
  <2>4. CASE mPtr[b] = "null"
    <3>1. /\ Held(b) = Unallocated /\ Held(b)' = Garbage
          /\ \A c \in Buffers \ {b} : Held(c)' = Held(c)
      BY <1>3, <1>b, <2>1, <2>4 DEF NewArray, Held, Value, Inv, Core, TypeOK
    <3>2. content[b] = Unallocated
      BY <1>b, <3>1, ContentIs
    <3>3. content' = [content EXCEPT ![b] = Garbage]
      BY <1>b, <2>1, <2>2, <3>1 DEF content, ContentOf
    <3>. QED
      BY <2>2, <3>2, <3>3 DEF Promise!Finish, Promise!Copies, content, current
  <2>. QED
    BY <2>1, <2>3, <2>4
<1>. QED
  BY <1>1, <1>2, <1>3 DEF AccessStep

\* A copy is seen when it is there, and then it is that of its source.
LEMMA CopyMaps ==
    ASSUME Good, NEW th \in Threads, CopyStep(th)
    PROVE  Promise!Finish(th) \/ UNCHANGED <<content, current>>
<1>. USE DEF Good, Goto
<1>a. Busy(th) /\ op[th] \in {"assign", "construct"}
  BY DEF CopyStep, DropOwn, Decide, CopyFlag, CopyInfo, CopyCells, Busy, Inv, Core, TypeOK, Ops,
      CallOK, Reading, Loading
<1>c. PICK b \in Buffers, d \in Buffers : b = buf[th] /\ d = dst[th]
  BY <1>a, Mine
<1>b. alive[b] /\ Settled(b) /\ d # b /\ alive[d] /\ ~Settled(d)
  BY <1>a, <1>c, Mine
<1>1. CASE DropOwn(th) \/ Decide(th) \/ CopyFlag(th)
  <2>1. /\ UNCHANGED <<alive, stored, cells>>
        /\ \A c \in Buffers \ {d} : UNCHANGED <<mPtr[c], mOutOfCore[c]>>
    BY <1>1, <1>b, <1>c DEF DropOwn, Decide, CopyFlag, data, Inv, Core, TypeOK
  <2>2. \A c \in Buffers : alive[c] /\ Settled(c) => Held(c)' = Held(c)
    BY <1>b, <1>c, <2>1 DEF Held, Value
  <2>3. PICK at \in {"decide", "flag", "info", "cells"} :
            pc' = [pc EXCEPT ![th] = at] /\ UNCHANGED call
    BY <1>1 DEF DropOwn, Decide, CopyFlag
  <2>. QED
    BY <1>a, <2>1, <2>2, <2>3, Internal
<1>2. CASE CopyInfo(th) \/ CopyCells(th)
  <2>1. /\ Held(d)' = Held(b)
        /\ \A c \in Buffers \ {d} : Held(c)' = Held(c)
    <3>1. CASE CopyInfo(th)
      <4>1. mOutOfCore[b] /\ mOutOfCore[d]
        BY <3>1, <1>c DEF CopyInfo, Inv, Shape, CopyOK
      <4>. QED
        BY <3>1, <1>b, <1>c, <4>1 DEF CopyInfo, Held, Value, Inv, Core, TypeOK
    <3>2. CASE CopyCells(th)
      <4>1. ~mOutOfCore[b] /\ ~mOutOfCore[d] /\ (mPtr[b] = "null" => mPtr[d] = "null")
        BY <3>2, <1>a, <1>c DEF CopyCells, Inv, Shape, CopyOK, SourceOK
      <4>. QED
        BY <3>2, <1>b, <1>c, <4>1 DEF CopyCells, Held, Value, Inv, Core, TypeOK
    <3>. QED
      BY <1>2, <3>1, <3>2
  <2>2. alive' = alive /\ pc' = [pc EXCEPT ![th] = "idle"] /\ UNCHANGED call
    BY <1>2 DEF CopyInfo, CopyCells
  <2>3. /\ current[th].op = op[th] /\ current[th].buf = b /\ current[th].dst = d
        /\ Promise!Return(th)
        /\ \A c \in Buffers : Settled(c)' <=> (Settled(c) \/ c = d)
    BY <1>a, <1>b, <1>c, <2>2, Ends
  <2>4. content[b] = Held(b)
    BY <1>b, <1>c, ContentIs
  <2>5. content' = [content EXCEPT ![d] = content[b]]
    BY <1>b, <1>c, <2>1, <2>2, <2>3, <2>4 DEF content, ContentOf
  <2>. QED
    BY <1>a, <2>3, <2>5 DEF Promise!Finish, Promise!Copies, content, current
<1>. QED
  BY <1>1, <1>2 DEF CopyStep

-----------------------------------------------------------------------------
(* Entering a call.                                                        *)

\* Calls that are not there keep nobody from anything.
LEMMA Unused ==
    ASSUME Inv, NEW b \in Buffers
    PROVE  Users(b) = {} => Promise!Unused(b) /\ Settled(b)
<1>. SUFFICES ASSUME Users(b) = {} PROVE Promise!Unused(b) /\ Settled(b)
  OBVIOUS
<1>1. \A u \in Threads : Busy(u) => buf[u] # b /\ dst[u] # b
  BY DEF Users
<1>2. ASSUME NEW u \in Threads, current[u] # None
      PROVE  b \notin {current[u].buf, current[u].dst}
  <2>1. Busy(u)
    BY <1>2, CallIs
  <2>2. current[u] = [op |-> op[u], buf |-> buf[u], dst |-> dst[u], arg |-> arg[u]]
    BY <2>1, CallIs
  <2>. QED
    BY <1>1, <2>1, <2>2
<1>. QED
  BY <1>1, <1>2 DEF Settled, Promise!Unused, current

\* What is seen of a call that is entered, of whatever kind.
LEMMA Enters ==
    ASSUME Inv, Inv', NEW th \in Threads, NEW o \in Ops, NEW b \in Buffers,
           NEW d \in Buffers \cup {None}, NEW v \in Values, NEW at,
           Enter(th, o, b, d, v, at), Busy(th)'
    PROVE  /\ current[th] = None
           /\ current' = [current EXCEPT ![th] = [op |-> o, buf |-> b, dst |-> d, arg |-> v]]
           /\ [op |-> o, buf |-> b, dst |-> d, arg |-> v] \in Promise!Calls
           /\ \A c \in Buffers : Settled(c)' <=> (Settled(c) /\ (c = d => o = "set"))
<1>1. /\ ~Busy(th) /\ \A u \in Threads \ {th} : Busy(u)' <=> Busy(u)
      /\ op' = [op EXCEPT ![th] = o] /\ buf' = [buf EXCEPT ![th] = b]
      /\ dst' = [dst EXCEPT ![th] = d] /\ arg' = [arg EXCEPT ![th] = v]
  BY DEF Enter, Busy, Inv, Core, TypeOK
<1>2. /\ op'[th] = o /\ buf'[th] = b /\ dst'[th] = d /\ arg'[th] = v
      /\ \A u \in Threads \ {th} :
             op'[u] = op[u] /\ buf'[u] = buf[u] /\ dst'[u] = dst[u] /\ arg'[u] = arg[u]
  BY <1>1 DEF Inv, Core, TypeOK
<1>3. current[th] = None
  BY <1>1, CallIs
<1>4. current' = [current EXCEPT ![th] = [op |-> o, buf |-> b, dst |-> d, arg |-> v]]
  BY <1>1, <1>2 DEF current, CallOf
<1>5. [op |-> o, buf |-> b, dst |-> d, arg |-> v] \in Promise!Calls
  <2>1. /\ o \in {"at", "data"} => d = None
        /\ o = "set" => d = b
        /\ o \in {"assign", "construct"} => d \in Buffers \ {b}
    BY <1>2 DEF Inv, Core, CallOK
  <2>. QED
    BY <2>1 DEF Promise!Calls, Promise!Copies, Ops
<1>6. \A c \in Buffers : Settled(c)' <=> (Settled(c) /\ (c = d => o = "set"))
  BY <1>1, <1>2 DEF Settled
<1>. QED
  BY <1>3, <1>4, <1>5, <1>6

\* Entering a call is seen as that.
LEMMA BeginMaps ==
    ASSUME Inv, Inv', NEW th \in Threads, BeginStep(th), Unshared
    PROVE  \E c \in Promise!Calls : Promise!Begin(th, c)
<1>1. ASSUME NEW b \in Buffers, NEW d \in {None, b}, NEW v \in Values, NEW o \in {"at", "data", "set"},
             o = "set" => d = b, o # "set" => d = None, MayRead(b), Enter(th, o, b, d, v, "check"),
             UNCHANGED data
      PROVE  \E c \in Promise!Calls : Promise!Begin(th, c)
  <2>. DEFINE c == [op |-> o, buf |-> b, dst |-> d, arg |-> v]
  <2>1. o \in Ops /\ Busy(th)' /\ d \in Buffers \cup {None}
    BY <1>1 DEF Ops, Enter, Busy, Inv, Core, TypeOK
  <2>2. /\ current[th] = None /\ current' = [current EXCEPT ![th] = c]
        /\ c \in Promise!Calls
        /\ \A e \in Buffers : Settled(e)' <=> (Settled(e) /\ (e = d => o = "set"))
    BY <1>1, <2>1, Enters
  <2>3. \A e \in Buffers : Settled(e)' <=> Settled(e)
    BY <1>1, <2>2, BufferAssumption
  <2>4. \A e \in Buffers : Held(e)' = Held(e) /\ alive'[e] = alive[e]
    BY <1>1 DEF data, Held, Value
  <2>5. content' = content
    BY <2>3, <2>4 DEF content, ContentOf
  <2>6. alive[b] /\ Settled(b)
    BY <1>1, Unshared DEF MayRead, Owners, Users, Settled, Inv, Core, TypeOK, Ops
  <2>7. content[b] # None
    BY <2>6, ContentIs, HeldTyped DEF Inv, Core
  <2>8. ~Promise!Copies(c) /\ c.buf = b
    BY <1>1 DEF Promise!Copies
  <2>. QED
    BY <2>2, <2>5, <2>7, <2>8 DEF Promise!Begin, content, current
<1>2. ASSUME NEW d \in Buffers, NEW b \in Buffers, BeginAssign(th, d, b) \/ BeginConstruct(th, d, b)
      PROVE  \E c \in Promise!Calls : Promise!Begin(th, c)
  <2>1. PICK o \in {"assign", "construct"} :
            /\ Enter(th, o, b, d, Zero, IF o = "assign" THEN "drop" ELSE "decide")
            /\ o = "construct" <=> ~alive[d]
    BY <1>2 DEF BeginAssign, BeginConstruct, MayWrite
  <2>. DEFINE c == [op |-> o, buf |-> b, dst |-> d, arg |-> Zero]
  <2>2. o \in Ops /\ Busy(th)' /\ d \in Buffers \cup {None} /\ Zero \in Values
    BY <2>1, BufferAssumption DEF Ops, Enter, Busy, Inv, Core, TypeOK
  <2>3. /\ current[th] = None /\ current' = [current EXCEPT ![th] = c]
        /\ c \in Promise!Calls
        /\ \A e \in Buffers : Settled(e)' <=> (Settled(e) /\ (e = d => o = "set"))
    BY <2>1, <2>2, Enters
  <2>4. Users(d) = {} /\ Users(b) = {} /\ alive[b]
    BY <1>2 DEF BeginAssign, BeginConstruct, MayWrite, MayCopy, Unshared
  <2>5. Promise!Unused(d) /\ Settled(d) /\ Settled(b)
    BY <2>4, Unused
  <2>6. content[b] # None /\ (content[d] = None <=> ~alive[d])
    BY <2>4, <2>5, ContentIs, HeldTyped DEF Inv, Core
  <2>7. \A e \in Buffers \ {d} : Held(e)' = Held(e) /\ alive'[e] = alive[e]
    BY <1>2 DEF BeginAssign, BeginConstruct, data, Held, Value, Inv, Core, TypeOK
  <2>8. \A e \in Buffers \ {d} : Settled(e)' <=> Settled(e)
    BY <2>3
  <2>9. ~Settled(d)'
    BY <2>1, <2>3
  <2>10. content' = [content EXCEPT ![d] = None]
    BY <2>7, <2>8, <2>9 DEF content, ContentOf
  <2>11. Promise!Copies(c) /\ c.buf = b /\ c.dst = d /\ c.op = o
    BY DEF Promise!Copies
  <2>. QED
    BY <2>1, <2>3, <2>5, <2>6, <2>10, <2>11 DEF Promise!Begin, content, current
<1>3. ASSUME NEW b \in Buffers,
             BeginAt(th, b) \/ BeginData(th, b) \/ \E v \in Values : BeginSet(th, b, v)
      PROVE  \E c \in Promise!Calls : Promise!Begin(th, c)
  <2>1. CASE BeginAt(th, b)
    BY <1>1, <2>1, BufferAssumption DEF BeginAt
  <2>2. CASE BeginData(th, b)
    BY <1>1, <2>2, BufferAssumption DEF BeginData
  <2>3. ASSUME NEW v \in Values, BeginSet(th, b, v)
        PROVE  \E c \in Promise!Calls : Promise!Begin(th, c)
    <3>1. MayRead(b)
      BY <2>3 DEF BeginSet, MayWrite, MayRead, Owners
    <3>. QED
      BY <1>1, <2>3, <3>1 DEF BeginSet
  <2>. QED
    BY <1>3, <2>1, <2>2, <2>3
<1>. QED
  BY <1>2, <1>3 DEF BeginStep

-----------------------------------------------------------------------------
(* Operations that have their buffers for themselves.                      *)

\* Where no call is entered or left, and one buffer is changed.
LEMMA OwnerSees ==
    ASSUME Inv, NEW b \in Buffers, NEW x, Users(b) = {}, UNCHANGED <<pc, call>>,
           \A c \in Buffers \ {b} : Held(c)' = Held(c) /\ alive'[c] = alive[c],
           x = IF alive'[b] THEN Held(b)' ELSE None
    PROVE  /\ content' = [content EXCEPT ![b] = x] /\ current' = current
           /\ Promise!Unused(b)
           /\ alive[b] => content[b] = Held(b) /\ content[b] # None
           /\ ~alive[b] => content[b] = None
<1>1. Promise!Unused(b) /\ Settled(b)
  BY Unused
<1>2. \A c \in Buffers : Settled(c)' <=> Settled(c)
  BY DEF Settled, Busy, call
<1>3. current' = current
  BY DEF current, CallOf, Busy, call
<1>4. content' = [content EXCEPT ![b] = x]
  BY <1>1, <1>2 DEF content, ContentOf
<1>. QED
  BY <1>1, <1>3, <1>4, ContentIs, HeldTyped DEF Inv, Core

\* Buffers come and go.
LEMMA ConstructMaps ==
    ASSUME Inv, NEW b \in Buffers, NEW ptr \in {"null", "array"}, NEW v \in Contents,
           Construct(b, ptr, v)
    PROVE  \E x \in Contents \cup {Unallocated} : Promise!Appear(b, x)
<1>1. \A c \in Buffers \ {b} : Held(c)' = Held(c) /\ alive'[c] = alive[c]
  BY DEF Construct, Held, Value, Inv, Core, TypeOK
<1>2. /\ ~alive[b] /\ alive'[b] /\ Users(b) = {} /\ UNCHANGED <<pc, call>>
      /\ Held(b)' = (IF ptr = "null" THEN Unallocated ELSE v)
  BY DEF Construct, Held, Value, Inv, Core, TypeOK
<1>3. PICK x \in Contents \cup {Unallocated} : x = Held(b)'
  BY <1>2
<1>4. /\ content' = [content EXCEPT ![b] = x] /\ current' = current
      /\ Promise!Unused(b) /\ content[b] = None
  BY <1>1, <1>2, <1>3, OwnerSees
<1>. QED
  BY <1>4 DEF Promise!Appear, content, current

\* A destroyed buffer has no content left.
LEMMA DestroyMaps ==
    ASSUME Inv, NEW b \in Buffers, Destroy(b)
    PROVE  Promise!Vanish(b)
<1>1. \A c \in Buffers \ {b} : Held(c)' = Held(c) /\ alive'[c] = alive[c]
  BY DEF Destroy, Held, Value, Inv, Core, TypeOK
<1>2. alive[b] /\ ~alive'[b] /\ Users(b) = {} /\ UNCHANGED <<pc, call>>
  BY DEF Destroy, MayWrite, Inv, Core, TypeOK
<1>3. /\ content' = [content EXCEPT ![b] = None] /\ current' = current
      /\ Promise!Unused(b) /\ content[b] # None
  BY <1>1, <1>2, OwnerSees
<1>. QED
  BY <1>3 DEF Promise!Vanish, content, current

\* What an owner gives its buffer is seen at once, if there is an array.
LEMMA FillMaps ==
    ASSUME Inv, Sensible, NEW b \in Buffers, NEW v \in Values, Fill(b, v)
    PROVE  Promise!Fill(b, v)
<1>1. \A c \in Buffers \ {b} : Held(c)' = Held(c) /\ alive'[c] = alive[c]
  BY DEF Fill, Held, Value, Inv, Core, TypeOK
<1>2. alive[b] /\ alive'[b] /\ Users(b) = {} /\ UNCHANGED <<pc, call>>
  BY DEF Fill, MayWrite, Inv, Core, TypeOK
<1>3. Held(b)' = Overwritten(Held(b), v)
  BY BufferAssumption
  DEF Fill, Overwritten, Sensible, Empty, Held, Value, Inv, Core, TypeOK, Contents
<1>4. /\ content' = [content EXCEPT ![b] = Overwritten(Held(b), v)] /\ current' = current
      /\ Promise!Unused(b) /\ content[b] # None /\ content[b] = Held(b)
  BY <1>1, <1>2, <1>3, OwnerSees
<1>. QED
  BY <1>4 DEF Promise!Fill, Promise!Overwritten, Overwritten, content, current

\* Only a buffer that is in core has neither an array nor a file.
LEMMA AllocateMaps ==
    ASSUME Inv, NEW b \in Buffers, NEW v \in Contents,
           \/ Allocate(b) /\ v = Garbage
           \/ v \in Values /\ AttachToFile(b, v)
    PROVE  Promise!Allocate(b, v)
<1>1. \A c \in Buffers \ {b} : Held(c)' = Held(c) /\ alive'[c] = alive[c]
  BY DEF Allocate, AttachToFile, Held, Value, Inv, Core, TypeOK
<1>2. alive[b] /\ alive'[b] /\ Users(b) = {} /\ UNCHANGED <<pc, call>>
  BY DEF Allocate, AttachToFile, MayWrite, Inv, Core, TypeOK
<1>3. ~InTransit(b) /\ ~mOutOfCore[b]
  BY <1>2 DEF Allocate, AttachToFile, Users, Busy, InTransit, Loading, Inv, Shape, FlagOK
<1>4. Held(b) = Unallocated /\ Held(b)' = v
  BY <1>3 DEF Allocate, AttachToFile, Held, Value, Inv, Core, TypeOK
<1>5. /\ content' = [content EXCEPT ![b] = v] /\ current' = current
      /\ Promise!Unused(b) /\ content[b] = Unallocated
  BY <1>1, <1>2, <1>4, OwnerSees
<1>. QED
  BY <1>5 DEF Promise!Allocate, content, current

\* Two buffers exchange their contents, wherever these are.
LEMMA SwapMaps ==
    ASSUME Inv, NEW b \in Buffers, NEW c \in Buffers, Swap(b, c)
    PROVE  Promise!Swap(b, c)
<1>1. /\ b # c /\ alive[b] /\ alive[c] /\ Users(b) = {} /\ Users(c) = {}
      /\ UNCHANGED <<alive, pc, call>>
  BY DEF Swap, MayWrite
<1>2. /\ Held(b)' = Held(c) /\ Held(c)' = Held(b)
      /\ \A e \in Buffers \ {b, c} : Held(e)' = Held(e)
  BY DEF Swap, Held, Value, Inv, Core, TypeOK
<1>3. Promise!Unused(b) /\ Promise!Unused(c) /\ Settled(b) /\ Settled(c)
  BY <1>1, Unused
<1>4. /\ content[b] = Held(b) /\ content[c] = Held(c)
      /\ content[b] # None /\ content[c] # None
  BY <1>1, <1>3, ContentIs, HeldTyped DEF Inv, Core
<1>5. current' = current /\ \A e \in Buffers : Settled(e)' <=> Settled(e)
  BY <1>1 DEF current, CallOf, Settled, Busy, call
<1>6. content' = [content EXCEPT ![b] = content[c], ![c] = content[b]]
  BY <1>1, <1>2, <1>3, <1>4, <1>5 DEF content, ContentOf
<1>. QED
  BY <1>3, <1>4, <1>5, <1>6 DEF Promise!Swap, content, current

\* Of an owner's operations each is one of the promise.
LEMMA OwnerMaps ==
    ASSUME Inv, Sensible, OwnerStep
    PROVE  Promise!Next
<1>1. PICK b \in Buffers :
          \/ \E v \in Values : ConstructValue(b, v) \/ AttachToFile(b, v) \/ Fill(b, v)
          \/ ConstructDefault(b) \/ ConstructPartial(b)
          \/ Allocate(b)
          \/ \E c \in Buffers : Swap(b, c)
          \/ Destroy(b)
  BY DEF OwnerStep
<1>2. CASE \/ \E v \in Values : ConstructValue(b, v)
           \/ ConstructDefault(b) \/ ConstructPartial(b)
  <2>1. \E x \in Contents \cup {Unallocated} : Promise!Appear(b, x)
    BY <1>2, ConstructMaps DEF ConstructValue, ConstructDefault, ConstructPartial, Contents
  <2>. QED
    BY <2>1 DEF Promise!Next, Contents
<1>3. ASSUME NEW v \in Values, Fill(b, v) PROVE Promise!Next
  BY <1>3, FillMaps DEF Promise!Next
<1>4. CASE Allocate(b)
  BY <1>4, AllocateMaps DEF Promise!Next, Contents
<1>7. ASSUME NEW v \in Values, AttachToFile(b, v) PROVE Promise!Next
  BY <1>7, AllocateMaps DEF Promise!Next, Contents
<1>5. ASSUME NEW c \in Buffers, Swap(b, c) PROVE Promise!Next
  BY <1>5, SwapMaps DEF Promise!Next
<1>6. CASE Destroy(b)
  BY <1>6, DestroyMaps DEF Promise!Next
<1>. QED
  BY <1>1, <1>2, <1>3, <1>4, <1>5, <1>6, <1>7

\* Every step is one of the promise, or is not seen.
LEMMA StepMaps ==
    ASSUME Good, Inv', Unshared, Sensible, [Next]_vars
    PROVE  [Promise!Next]_Promise!vars
<1>. USE DEF Good
<1>1. CASE UNCHANGED vars
  <2>1. UNCHANGED <<content, current>>
    BY <1>1 DEF vars, data, call, content, current, ContentOf, Settled, Held, Value, CallOf, Busy
  <2>. QED
    BY <2>1 DEF Promise!vars, content, current
<1>2. CASE OwnerStep
  BY <1>2, OwnerMaps
<1>3. ASSUME NEW th \in Threads, BeginStep(th) PROVE Promise!Next
  BY <1>3, BeginMaps DEF Promise!Next
<1>4. ASSUME NEW th \in Threads, Step(th) PROVE [Promise!Next]_Promise!vars
  <2>1. Promise!Throw(th) \/ Promise!Finish(th) \/ UNCHANGED <<content, current>>
    BY <1>4, LoadMaps, AccessMaps, CopyMaps DEF Step
  <2>2. CASE Promise!Throw(th) \/ Promise!Finish(th)
    BY <2>2 DEF Promise!Next
  <2>3. CASE UNCHANGED <<content, current>>
    BY <2>3 DEF Promise!vars, content, current
  <2>. QED
    BY <2>1, <2>2, <2>3
<1>. QED
  BY <1>1, <1>2, <1>3, <1>4 DEF Next

-----------------------------------------------------------------------------

\* Refinement: whoever loads a buffer, and whether or not its file can be read,
\* a buffer has one content all the time, that calls change when they end.
THEOREM ContentsKept == ASSUME Unshared, Sensible PROVE Spec => KeepsContents
<1>1. Init => Promise!Init
  <2>. SUFFICES ASSUME Init
                PROVE  content = [b \in Buffers |-> None] /\ current = [th \in Threads |-> None]
    BY DEF Promise!Init, content, current
  <2>. QED
    BY DEF Init, content, current, ContentOf, CallOf, Busy
<1>2. Init => Inv /\ HeldOK /\ SourceOK
  BY InitInv, InitContent
<1>3. ASSUME Inv, HeldOK, SourceOK, [Next]_vars
      PROVE  (Inv /\ HeldOK /\ SourceOK)' /\ [Promise!Next]_Promise!vars
  <2>1. Inv'
    BY <1>3, NextInv
  <2>2. HeldOK' /\ SourceOK'
    BY <1>3, <2>1, NextContent
  <2>3. [Promise!Next]_Promise!vars
    BY <1>3, <2>1, StepMaps DEF Good
  <2>. QED
    BY <2>1, <2>2, <2>3
<1>4. Inv /\ HeldOK /\ SourceOK /\ [Next]_vars
        => (Inv /\ HeldOK /\ SourceOK)' /\ [Promise!Next]_Promise!vars
  BY <1>3
<1>. QED
  BY <1>1, <1>2, <1>4, PTL DEF Spec, KeepsContents, Promise!Spec
=============================================================================
