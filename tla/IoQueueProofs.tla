--------------------------- MODULE IoQueueProofs ---------------------------
(***************************************************************************)
(* The safety of io::Queue for any number of workers, pollers, tasks and   *)
(* notifiers, whether or not notifiers throw.                              *)
(***************************************************************************)
EXTENDS IoQueue, FiniteSetTheorems, TLAPS

\* IDs are given out once; the one in hand is not spawned before its turn.
ClientOK ==
    /\ \A t \in Tasks : t >= mNextId => task[t] = "none"
    /\ pc # "idle" => taskId \in Tasks /\ taskId < mNextId
    /\ pc \in {"wait", "asleep", "announce", "spawn"} => task[taskId] = "none"
    /\ pc = "count" => task[taskId] # "none"
    /\ life # "alive" => pc = "idle"

\* A busy worker runs a task of its own.
WorkerOK ==
    \A w \in Workers : wpc[w] # "idle" =>
        /\ wtask[w] \in Tasks /\ task[wtask[w]] = "running"
        /\ \A u \in Workers : u # w /\ wpc[u] # "idle" => wtask[u] # wtask[w]

\* The iteration over the notifiers is under the mutex.
MutexOK ==
    \A w \in Workers :
        /\ wpc[w] = "call" => mNotifierMutex = w
        /\ wleft[w] # {} => wpc[w] = "call"

\* Between the look at the capacity and the hand-over only this thread makes
\* the queue grow.
RoomOK == pc \in {"announce", "spawn"} => Cardinality(Unfinished) < mCapacity

FreedOK == life = "freed" => Unfinished = {}

\* A final status in the registry is the outcome of the task.
StatusOK ==
    /\ \A t \in Tasks : mStatus[t] \in Final => mStatus[t] = outcome[t]
    /\ \A q \in Pollers : rpc[q] = "erase" => rid[q] \in Tasks /\ outcome[rid[q]] \in polled[rid[q]]

Known(t) == mStatus[t] = outcome[t] \/ outcome[t] \in notified[t] \cup polled[t]

\* From SetFinal() on, the outcome is on file or known to somebody.
KnownOK ==
    /\ \A t \in Tasks : task[t] = "none" => outcome[t] = None
    /\ \A t \in Tasks : task[t] = "finished" => outcome[t] \in Final /\ Known(t)
    /\ \A w \in Workers :
           /\ wpc[w] = "write" => outcome[wtask[w]] = None
           /\ wpc[w] \notin {"idle", "write"} => outcome[wtask[w]] \in Final
           /\ wpc[w] \in {"lock", "call", "erase", "uncount"} => Known(wtask[w])
           /\ wpc[w] = "erase" \/ (wpc[w] = "call" /\ wleft[w] = {}) =>
                  outcome[wtask[w]] \in notified[wtask[w]]
    /\ \A t \in Tasks : task[t] = "spawned" => outcome[t] = None

Inv ==
    /\ TypeOK /\ ClientOK /\ WorkerOK /\ MutexOK /\ NoCallAfterRemoval
    /\ CountExact /\ RoomOK /\ FreedOK /\ StatusOK /\ KnownOK

-----------------------------------------------------------------------------
(* The invariant is inductive.                                             *)

\* Sets of tasks are finite.
LEMMA FiniteTasks ==
    ASSUME NEW S \in SUBSET Tasks
    PROVE  IsFiniteSet(S) /\ Cardinality(S) \in Nat
<1>1. IsFiniteSet(Tasks)
  BY QueueAssumption, FS_Interval DEF Tasks
<1>. QED
  BY <1>1, FS_Subset, FS_CardinalityType

\* The sets that mNumTasks counts, and their sizes.
LEMMA CountedSets ==
    /\ IsFiniteSet(Unfinished) /\ Cardinality(Unfinished) \in Nat
    /\ IsFiniteSet(Dropped) /\ Cardinality(Dropped) \in Nat
BY FiniteTasks DEF Unfinished, Dropped

\* setCapacity() keeps the capacity a natural number.
LEMMA MaxOfTwo == ASSUME NEW n \in Nat PROVE Max({1, n}) \in Nat
BY DEF Max

\* The invariant holds in the initial states.
LEMMA InitInv == Init => Inv
<1>. SUFFICES ASSUME Init PROVE Inv
  OBVIOUS
<1>. USE QueueAssumption DEF Init, Tasks, Notifiers
<1>1. TypeOK
  BY DEF TypeOK, Status, Final
<1>2. Unfinished = {} /\ Dropped = {}
  BY DEF Unfinished, Dropped
<1>3. CountExact /\ RoomOK /\ FreedOK
  BY <1>2, FS_EmptySet DEF CountExact, RoomOK, FreedOK
<1>4. ClientOK /\ WorkerOK /\ MutexOK /\ NoCallAfterRemoval /\ StatusOK /\ KnownOK
  BY DEF ClientOK, WorkerOK, MutexOK, NoCallAfterRemoval, StatusOK, KnownOK, Final
<1>. QED
  BY <1>1, <1>3, <1>4 DEF Inv

\* Taking an ID preserves the invariant.
LEMMA BeginWriteInv ==
    ASSUME Inv, BeginWrite
    PROVE  Inv'
<1>. USE QueueAssumption DEF Inv, Tasks, Notifiers, Final, registry, client, workers, pollers
<1>1. CASE BeginWrite
  <2>1. TypeOK' /\ ClientOK'
    BY <1>1 DEF BeginWrite, TypeOK, ClientOK, WorkerOK, Status
  <2>2. WorkerOK' /\ MutexOK' /\ NoCallAfterRemoval'
    BY <1>1 DEF BeginWrite, WorkerOK, MutexOK, NoCallAfterRemoval, TypeOK, ClientOK
  <2>3. CountExact' /\ RoomOK' /\ FreedOK'
    <3>1. Unfinished' = Unfinished /\ Dropped' = Dropped
      BY <1>1 DEF BeginWrite, Unfinished, Dropped, TypeOK
    <3>. QED
      BY <1>1, <3>1, CountedSets DEF BeginWrite, CountExact, RoomOK, FreedOK, TypeOK, ClientOK
  <2>4. StatusOK' /\ KnownOK'
    BY <1>1 DEF BeginWrite, StatusOK, KnownOK, Known, TypeOK, ClientOK, WorkerOK, MutexOK
  <2>. QED
    BY <2>1, <2>2, <2>3, <2>4
<1>. QED
  BY <1>1

\* So does setCapacity().
LEMMA SetCapacityInv ==
    ASSUME Inv, NEW n \in Capacities, SetCapacity(n)
    PROVE  Inv'
<1>. USE QueueAssumption DEF Inv, Tasks, Notifiers, Final, registry, client, workers, pollers
<1>1. CASE SetCapacity(n)
  <2>1. TypeOK' /\ ClientOK'
    BY <1>1, MaxOfTwo DEF SetCapacity, TypeOK, ClientOK, WorkerOK, Status
  <2>2. WorkerOK' /\ MutexOK' /\ NoCallAfterRemoval'
    BY <1>1 DEF SetCapacity, WorkerOK, MutexOK, NoCallAfterRemoval, TypeOK, ClientOK
  <2>3. CountExact' /\ RoomOK' /\ FreedOK'
    <3>1. Unfinished' = Unfinished /\ Dropped' = Dropped
      BY <1>1 DEF SetCapacity, Unfinished, Dropped, TypeOK
    <3>. QED
      BY <1>1, <3>1, CountedSets DEF SetCapacity, CountExact, RoomOK, FreedOK, TypeOK, ClientOK
  <2>4. StatusOK' /\ KnownOK'
    BY <1>1 DEF SetCapacity, StatusOK, KnownOK, Known, TypeOK, ClientOK, WorkerOK, MutexOK
  <2>. QED
    BY <2>1, <2>2, <2>3, <2>4
<1>. QED
  BY <1>1

\* So do the steps of writeGridVec().
LEMMA WriteStepInv ==
    ASSUME Inv, WriteStep
    PROVE  Inv'
<1>. USE QueueAssumption DEF Inv, Tasks, Notifiers, Final, registry, client, workers, pollers
<1>1. CASE CheckCapacity
  <2>1. TypeOK' /\ ClientOK'
    BY <1>1 DEF CheckCapacity, TypeOK, ClientOK, WorkerOK, Status
  <2>2. WorkerOK' /\ MutexOK' /\ NoCallAfterRemoval'
    BY <1>1 DEF CheckCapacity, WorkerOK, MutexOK, NoCallAfterRemoval, TypeOK, ClientOK
  <2>3. CountExact' /\ RoomOK' /\ FreedOK'
    <3>1. Unfinished' = Unfinished /\ Dropped' = Dropped
      BY <1>1 DEF CheckCapacity, Unfinished, Dropped, TypeOK
    <3>. QED
      BY <1>1, <3>1, CountedSets DEF CheckCapacity, CountExact, RoomOK, FreedOK, TypeOK,
          ClientOK, CanEnqueue
  <2>4. StatusOK' /\ KnownOK'
    BY <1>1 DEF CheckCapacity, StatusOK, KnownOK, Known, TypeOK, ClientOK, WorkerOK, MutexOK
  <2>. QED
    BY <2>1, <2>2, <2>3, <2>4
<1>2. CASE WakeUp
  <2>1. TypeOK' /\ ClientOK'
    BY <1>2 DEF WakeUp, TypeOK, ClientOK, WorkerOK, Status
  <2>2. WorkerOK' /\ MutexOK' /\ NoCallAfterRemoval'
    BY <1>2 DEF WakeUp, WorkerOK, MutexOK, NoCallAfterRemoval, TypeOK, ClientOK
  <2>3. CountExact' /\ RoomOK' /\ FreedOK'
    <3>1. Unfinished' = Unfinished /\ Dropped' = Dropped
      BY <1>2 DEF WakeUp, Unfinished, Dropped, TypeOK
    <3>. QED
      BY <1>2, <3>1, CountedSets DEF WakeUp, CountExact, RoomOK, FreedOK, TypeOK, ClientOK
  <2>4. StatusOK' /\ KnownOK'
    BY <1>2 DEF WakeUp, StatusOK, KnownOK, Known, TypeOK, ClientOK, WorkerOK, MutexOK
  <2>. QED
    BY <2>1, <2>2, <2>3, <2>4
<1>3. CASE TimeOut
  <2>1. TypeOK' /\ ClientOK'
    BY <1>3 DEF TimeOut, TypeOK, ClientOK, WorkerOK, Status
  <2>2. WorkerOK' /\ MutexOK' /\ NoCallAfterRemoval'
    BY <1>3 DEF TimeOut, WorkerOK, MutexOK, NoCallAfterRemoval, TypeOK, ClientOK
  <2>3. CountExact' /\ RoomOK' /\ FreedOK'
    <3>1. Unfinished' = Unfinished /\ Dropped' = Dropped
      BY <1>3 DEF TimeOut, Unfinished, Dropped, TypeOK
    <3>. QED
      BY <1>3, <3>1, CountedSets DEF TimeOut, CountExact, RoomOK, FreedOK, TypeOK, ClientOK
  <2>4. StatusOK' /\ KnownOK'
    BY <1>3 DEF TimeOut, StatusOK, KnownOK, Known, TypeOK, ClientOK, WorkerOK, MutexOK
  <2>. QED
    BY <2>1, <2>2, <2>3, <2>4
<1>4. CASE SetPending
  <2>1. TypeOK' /\ ClientOK'
    BY <1>4 DEF SetPending, TypeOK, ClientOK, WorkerOK, Status
  <2>2. WorkerOK' /\ MutexOK' /\ NoCallAfterRemoval'
    BY <1>4 DEF SetPending, WorkerOK, MutexOK, NoCallAfterRemoval, TypeOK, ClientOK
  <2>3. CountExact' /\ RoomOK' /\ FreedOK'
    <3>1. Unfinished' = Unfinished /\ Dropped' = Dropped
      BY <1>4 DEF SetPending, Unfinished, Dropped, TypeOK
    <3>. QED
      BY <1>4, <3>1, CountedSets DEF SetPending, CountExact, RoomOK, FreedOK, TypeOK, ClientOK
  <2>4. StatusOK' /\ KnownOK'
    BY <1>4 DEF SetPending, StatusOK, KnownOK, Known, TypeOK, ClientOK, WorkerOK, MutexOK
  <2>. QED
    BY <2>1, <2>2, <2>3, <2>4
<1>5. CASE Spawn
  <2>1. TypeOK' /\ ClientOK'
    BY <1>5 DEF Spawn, TypeOK, ClientOK, WorkerOK, Status
  <2>2. WorkerOK' /\ MutexOK' /\ NoCallAfterRemoval'
    BY <1>5 DEF Spawn, WorkerOK, MutexOK, NoCallAfterRemoval, TypeOK, ClientOK
  <2>3. CountExact' /\ RoomOK' /\ FreedOK'
    <3>1. taskId \in Tasks /\ taskId \notin Unfinished /\ pc = "spawn" /\ life # "freed"
      BY <1>5 DEF Spawn, ClientOK, Unfinished
    <3>2. Unfinished' = Unfinished \cup {taskId}
      BY <1>5, <3>1 DEF Spawn, Unfinished, TypeOK
    <3>3. Dropped' = Dropped
      BY <1>5, <3>1 DEF Spawn, Dropped, ClientOK, TypeOK
    <3>4. Cardinality(Unfinished') = Cardinality(Unfinished) + 1
      BY <3>1, <3>2, CountedSets, FS_AddElement
    <3>. QED
      BY <1>5, <3>1, <3>3, <3>4, CountedSets DEF Spawn, CountExact, RoomOK, FreedOK, TypeOK
  <2>4. StatusOK' /\ KnownOK'
    BY <1>5 DEF Spawn, StatusOK, KnownOK, Known, TypeOK, ClientOK, WorkerOK, MutexOK
  <2>. QED
    BY <2>1, <2>2, <2>3, <2>4
<1>6. CASE CountAndReturn
  <2>1. TypeOK' /\ ClientOK'
    BY <1>6 DEF CountAndReturn, TypeOK, ClientOK, WorkerOK, Status
  <2>2. WorkerOK' /\ MutexOK' /\ NoCallAfterRemoval'
    BY <1>6 DEF CountAndReturn, WorkerOK, MutexOK, NoCallAfterRemoval, TypeOK, ClientOK
  <2>3. CountExact' /\ RoomOK' /\ FreedOK'
    <3>1. Unfinished' = Unfinished /\ Dropped' = Dropped
      BY <1>6 DEF CountAndReturn, Unfinished, Dropped, TypeOK
    <3>. QED
      BY <1>6, <3>1, CountedSets DEF CountAndReturn, CountExact, RoomOK, FreedOK, TypeOK,
          ClientOK
  <2>4. StatusOK' /\ KnownOK'
    BY <1>6 DEF CountAndReturn, StatusOK, KnownOK, Known, TypeOK, ClientOK, WorkerOK, MutexOK
  <2>. QED
    BY <2>1, <2>2, <2>3, <2>4
<1>. QED
  BY <1>1, <1>2, <1>3, <1>4, <1>5, <1>6 DEF WriteStep

\* So do the steps of a worker.
LEMMA WorkerStepInv ==
    ASSUME Inv, NEW w \in Workers, WorkerStep(w)
    PROVE  Inv'
<1>. USE QueueAssumption DEF Inv, Tasks, Notifiers, Final, registry, client, workers, pollers
<1>1. ASSUME NEW t \in Tasks, StartTask(w, t)
      PROVE  Inv'
  <2>1. TypeOK' /\ ClientOK'
    BY <1>1 DEF StartTask, TypeOK, ClientOK, WorkerOK, Status
  <2>2. WorkerOK' /\ MutexOK' /\ NoCallAfterRemoval'
    BY <1>1 DEF StartTask, WorkerOK, MutexOK, NoCallAfterRemoval, TypeOK, ClientOK
  <2>3. CountExact' /\ RoomOK' /\ FreedOK'
    <3>1. Unfinished' = Unfinished /\ Dropped' = Dropped
      BY <1>1 DEF StartTask, Unfinished, Dropped, TypeOK
    <3>. QED
      BY <1>1, <3>1, CountedSets DEF StartTask, CountExact, RoomOK, FreedOK, TypeOK, ClientOK
  <2>4. StatusOK' /\ KnownOK'
    BY <1>1 DEF StartTask, StatusOK, KnownOK, Known, TypeOK, ClientOK, WorkerOK, MutexOK
  <2>. QED
    BY <2>1, <2>2, <2>3, <2>4
<1>2. ASSUME NEW s \in Final, EndWrite(w, s)
      PROVE  Inv'
  <2>1. TypeOK' /\ ClientOK'
    BY <1>2 DEF EndWrite, TypeOK, ClientOK, WorkerOK, Status
  <2>2. WorkerOK' /\ MutexOK' /\ NoCallAfterRemoval'
    BY <1>2 DEF EndWrite, WorkerOK, MutexOK, NoCallAfterRemoval, TypeOK, ClientOK
  <2>3. CountExact' /\ RoomOK' /\ FreedOK'
    <3>1. Unfinished' = Unfinished /\ Dropped' = Dropped
      BY <1>2 DEF EndWrite, Unfinished, Dropped, TypeOK
    <3>. QED
      BY <1>2, <3>1, CountedSets DEF EndWrite, CountExact, RoomOK, FreedOK, TypeOK, ClientOK
  <2>4. StatusOK' /\ KnownOK'
    <3>1. wtask[w] \in Tasks /\ task[wtask[w]] = "running" /\ outcome[wtask[w]] = None
      BY <1>2 DEF EndWrite, WorkerOK, KnownOK
    <3>2. outcome' = [outcome EXCEPT ![wtask[w]] = s] /\ outcome \in [Tasks -> Final \cup {None}]
      BY <1>2 DEF EndWrite, TypeOK
    <3>3. StatusOK'
      BY <1>2, <3>1, <3>2 DEF EndWrite, StatusOK, TypeOK
    <3>4. ASSUME NEW v \in Workers PROVE KnownOK!3!(v)'
      BY <1>2, <3>1, <3>2 DEF EndWrite, KnownOK, Known, TypeOK, WorkerOK, MutexOK
    <3>5. KnownOK!1' /\ KnownOK!2' /\ KnownOK!4'
      BY <1>2, <3>1, <3>2 DEF EndWrite, KnownOK, Known, TypeOK
    <3>. QED
      BY <3>3, <3>4, <3>5 DEF KnownOK
  <2>. QED
    BY <2>1, <2>2, <2>3, <2>4
<1>3. CASE SetFinal(w)
  <2>1. TypeOK' /\ ClientOK'
    <3>1. wtask[w] \in Tasks /\ task[wtask[w]] = "running"
      BY <1>3 DEF SetFinal, WorkerOK
    <3>2. TypeOK'
      BY <1>3, <3>1 DEF SetFinal, EntryFree, TypeOK, NoCallAfterRemoval, KnownOK, Status
    <3>3. ClientOK'
      BY <1>3, <3>1 DEF SetFinal, TypeOK, ClientOK
    <3>. QED
      BY <3>2, <3>3
  <2>2. WorkerOK' /\ MutexOK' /\ NoCallAfterRemoval'
    BY <1>3 DEF SetFinal, EntryFree, WorkerOK, MutexOK, NoCallAfterRemoval, TypeOK, ClientOK
  <2>3. CountExact' /\ RoomOK' /\ FreedOK'
    <3>1. Unfinished' = Unfinished /\ Dropped' = Dropped
      BY <1>3 DEF SetFinal, EntryFree, Unfinished, Dropped, TypeOK
    <3>. QED
      BY <1>3, <3>1, CountedSets DEF SetFinal, EntryFree, CountExact, RoomOK, FreedOK, TypeOK,
          ClientOK
  <2>4. StatusOK' /\ KnownOK'
    BY <1>3 DEF SetFinal, EntryFree, StatusOK, KnownOK, Known, TypeOK, ClientOK, WorkerOK,
        MutexOK
  <2>. QED
    BY <2>1, <2>2, <2>3, <2>4
<1>4. CASE LockNotifiers(w)
  <2>1. TypeOK' /\ ClientOK'
    <3>1. wtask[w] \in Tasks /\ task[wtask[w]] = "running"
      BY <1>4 DEF LockNotifiers, WorkerOK
    <3>2. TypeOK'
      <4>1. CASE mNotifiers = {}
        BY <1>4, <4>1 DEF LockNotifiers, TypeOK, Status
      <4>2. CASE mNotifiers # {}
        <5>1. /\ wpc' = [wpc EXCEPT ![w] = "call"]
              /\ wleft' = [wleft EXCEPT ![w] = mNotifiers]
              /\ mNotifierMutex' = w
          BY <1>4, <4>2 DEF LockNotifiers
        <5>. QED
          BY <1>4, <5>1 DEF LockNotifiers, TypeOK, Status
      <4>. QED
        BY <4>1, <4>2
    <3>3. ClientOK'
      BY <1>4, <3>1 DEF LockNotifiers, TypeOK, ClientOK
    <3>. QED
      BY <3>2, <3>3
  <2>2. WorkerOK' /\ MutexOK' /\ NoCallAfterRemoval'
    <3>1. CASE mNotifiers = {}
      BY <1>4, <3>1 DEF LockNotifiers, WorkerOK, MutexOK, NoCallAfterRemoval, TypeOK
    <3>2. CASE mNotifiers # {}
      <4>1. /\ wpc[w] = "lock" /\ mNotifierMutex = None
            /\ wpc' = [wpc EXCEPT ![w] = "call"]
            /\ wleft' = [wleft EXCEPT ![w] = mNotifiers]
            /\ mNotifierMutex' = w
            /\ UNCHANGED <<mNotifiers, wtask, task>>
        BY <1>4, <3>2 DEF LockNotifiers
      <4>2. WorkerOK'
        BY <4>1 DEF WorkerOK, TypeOK
      <4>3. MutexOK' /\ NoCallAfterRemoval'
        BY <4>1 DEF MutexOK, NoCallAfterRemoval, TypeOK
      <4>. QED
        BY <4>2, <4>3
    <3>. QED
      BY <3>1, <3>2
  <2>3. CountExact' /\ RoomOK' /\ FreedOK'
    <3>1. Unfinished' = Unfinished /\ Dropped' = Dropped
      BY <1>4 DEF LockNotifiers, Unfinished, Dropped, TypeOK
    <3>. QED
      BY <1>4, <3>1, CountedSets DEF LockNotifiers, CountExact, RoomOK, FreedOK, TypeOK,
          ClientOK
  <2>4. StatusOK' /\ KnownOK'
    BY <1>4 DEF LockNotifiers, StatusOK, KnownOK, Known, TypeOK, ClientOK, WorkerOK, MutexOK
  <2>. QED
    BY <2>1, <2>2, <2>3, <2>4
<1>5. CASE CallNotifier(w)
  <2>1. TypeOK' /\ ClientOK'
    <3>1. wtask[w] \in Tasks /\ task[wtask[w]] = "running"
      BY <1>5 DEF CallNotifier, WorkerOK
    <3>2. TypeOK'
      BY <1>5, <3>1 DEF CallNotifier, TypeOK, NoCallAfterRemoval, KnownOK, Status
    <3>3. ClientOK'
      BY <1>5, <3>1 DEF CallNotifier, TypeOK, ClientOK
    <3>. QED
      BY <3>2, <3>3
  <2>2. WorkerOK' /\ MutexOK' /\ NoCallAfterRemoval'
    BY <1>5 DEF CallNotifier, WorkerOK, MutexOK, NoCallAfterRemoval, TypeOK, ClientOK
  <2>3. CountExact' /\ RoomOK' /\ FreedOK'
    <3>1. Unfinished' = Unfinished /\ Dropped' = Dropped
      BY <1>5 DEF CallNotifier, Unfinished, Dropped, TypeOK
    <3>. QED
      BY <1>5, <3>1, CountedSets DEF CallNotifier, CountExact, RoomOK, FreedOK, TypeOK, ClientOK
  <2>4. StatusOK' /\ KnownOK'
    BY <1>5 DEF CallNotifier, StatusOK, KnownOK, Known, TypeOK, ClientOK, WorkerOK, MutexOK
  <2>. QED
    BY <2>1, <2>2, <2>3, <2>4
<1>6. CASE NotifierThrows(w)
  <2>1. TypeOK' /\ ClientOK'
    <3>1. wtask[w] \in Tasks /\ task[wtask[w]] = "running"
      BY <1>6 DEF NotifierThrows, WorkerOK
    <3>2. TypeOK'
      BY <1>6, <3>1 DEF NotifierThrows, TypeOK, NoCallAfterRemoval, KnownOK, Status
    <3>3. ClientOK'
      BY <1>6, <3>1 DEF NotifierThrows, TypeOK, ClientOK
    <3>. QED
      BY <3>2, <3>3
  <2>2. WorkerOK' /\ MutexOK' /\ NoCallAfterRemoval'
    BY <1>6 DEF NotifierThrows, WorkerOK, MutexOK, NoCallAfterRemoval, TypeOK, ClientOK
  <2>3. CountExact' /\ RoomOK' /\ FreedOK'
    <3>. DEFINE t == wtask[w]
    <3>1. t \in Unfinished /\ t \notin Dropped /\ t \in Tasks
      BY <1>6 DEF NotifierThrows, WorkerOK, Unfinished, Dropped
    <3>2. Unfinished' = Unfinished \ {t}
      BY <1>6, <3>1 DEF NotifierThrows, Unfinished, TypeOK
    <3>3. Dropped' = Dropped \cup {t}
      BY <1>6, <3>1 DEF NotifierThrows, Dropped, TypeOK
    <3>4. /\ Cardinality(Unfinished') = Cardinality(Unfinished) - 1
          /\ Cardinality(Dropped') = Cardinality(Dropped) + 1
      BY <3>1, <3>2, <3>3, CountedSets, FS_AddElement, FS_RemoveElement
    <3>. QED
      <4>1. CountExact'
        <5>1. mNumTasks' = mNumTasks /\ pc' = pc
          BY <1>6 DEF NotifierThrows
        <5>2. Cardinality(Unfinished') + Cardinality(Dropped')
                = Cardinality(Unfinished) + Cardinality(Dropped)
          BY <3>4, CountedSets
        <5>3. /\ Cardinality(Unfinished') \in Int /\ Cardinality(Dropped') \in Int
              /\ Cardinality(Unfinished) \in Int /\ Cardinality(Dropped) \in Int
          BY <3>4, CountedSets
        <5>4. mNumTasks = Cardinality(Unfinished) + Cardinality(Dropped) - (IF pc = "count" THEN 1 ELSE 0)
          BY DEF CountExact
        <5>. QED
          BY <5>1, <5>2, <5>3, <5>4 DEF CountExact
      <4>2. RoomOK' /\ FreedOK'
        BY <1>6, <3>1, <3>4, CountedSets DEF NotifierThrows, RoomOK, FreedOK, TypeOK
      <4>. QED
        BY <4>1, <4>2
  <2>4. StatusOK' /\ KnownOK'
    BY <1>6 DEF NotifierThrows, StatusOK, KnownOK, Known, TypeOK, ClientOK, WorkerOK, MutexOK
  <2>. QED
    BY <2>1, <2>2, <2>3, <2>4
<1>7. CASE UnlockNotifiers(w)
  <2>1. TypeOK' /\ ClientOK'
    BY <1>7 DEF UnlockNotifiers, TypeOK, ClientOK, WorkerOK, Status
  <2>2. WorkerOK' /\ MutexOK' /\ NoCallAfterRemoval'
    BY <1>7 DEF UnlockNotifiers, WorkerOK, MutexOK, NoCallAfterRemoval, TypeOK, ClientOK
  <2>3. CountExact' /\ RoomOK' /\ FreedOK'
    <3>1. Unfinished' = Unfinished /\ Dropped' = Dropped
      BY <1>7 DEF UnlockNotifiers, Unfinished, Dropped, TypeOK
    <3>. QED
      BY <1>7, <3>1, CountedSets DEF UnlockNotifiers, CountExact, RoomOK, FreedOK, TypeOK,
          ClientOK
  <2>4. StatusOK' /\ KnownOK'
    BY <1>7 DEF UnlockNotifiers, StatusOK, KnownOK, Known, TypeOK, ClientOK, WorkerOK, MutexOK
  <2>. QED
    BY <2>1, <2>2, <2>3, <2>4
<1>8. CASE EraseStatus(w)
  <2>1. TypeOK' /\ ClientOK'
    BY <1>8 DEF EraseStatus, EntryFree, TypeOK, ClientOK, WorkerOK, Status
  <2>2. WorkerOK' /\ MutexOK' /\ NoCallAfterRemoval'
    BY <1>8 DEF EraseStatus, EntryFree, WorkerOK, MutexOK, NoCallAfterRemoval, TypeOK, ClientOK
  <2>3. CountExact' /\ RoomOK' /\ FreedOK'
    <3>1. Unfinished' = Unfinished /\ Dropped' = Dropped
      BY <1>8 DEF EraseStatus, EntryFree, Unfinished, Dropped, TypeOK
    <3>. QED
      BY <1>8, <3>1, CountedSets DEF EraseStatus, EntryFree, CountExact, RoomOK, FreedOK,
          TypeOK, ClientOK
  <2>4. StatusOK' /\ KnownOK'
    BY <1>8 DEF EraseStatus, EntryFree, StatusOK, KnownOK, Known, TypeOK, ClientOK, WorkerOK,
        MutexOK
  <2>. QED
    BY <2>1, <2>2, <2>3, <2>4
<1>9. CASE Uncount(w)
  <2>1. TypeOK' /\ ClientOK'
    BY <1>9 DEF Uncount, TypeOK, ClientOK, WorkerOK, Status
  <2>2. WorkerOK' /\ MutexOK' /\ NoCallAfterRemoval'
    BY <1>9 DEF Uncount, WorkerOK, MutexOK, NoCallAfterRemoval, TypeOK, ClientOK
  <2>3. CountExact' /\ RoomOK' /\ FreedOK'
    <3>. DEFINE t == wtask[w]
    <3>1. t \in Unfinished /\ t \notin Dropped /\ t \in Tasks
      BY <1>9 DEF Uncount, WorkerOK, Unfinished, Dropped
    <3>2. Unfinished' = Unfinished \ {t} /\ Dropped' = Dropped
      BY <1>9, <3>1 DEF Uncount, Unfinished, Dropped, TypeOK
    <3>3. Cardinality(Unfinished') = Cardinality(Unfinished) - 1
      BY <3>1, <3>2, CountedSets, FS_RemoveElement
    <3>. QED
      BY <1>9, <3>1, <3>2, <3>3, CountedSets DEF Uncount, CountExact, RoomOK, FreedOK, TypeOK
  <2>4. StatusOK' /\ KnownOK'
    BY <1>9 DEF Uncount, StatusOK, KnownOK, Known, TypeOK, ClientOK, WorkerOK, MutexOK
  <2>. QED
    BY <2>1, <2>2, <2>3, <2>4
<1>. QED
  BY <1>1, <1>2, <1>3, <1>4, <1>5, <1>6, <1>7, <1>8, <1>9 DEF WorkerStep

\* So does (de)registering notifiers.
LEMMA NotifierStepInv ==
    ASSUME Inv, NotifierStep
    PROVE  Inv'
<1>. USE QueueAssumption DEF Inv, Tasks, Notifiers, Final, registry, client, workers, pollers
<1>1. CASE AddNotifier
  <2>1. TypeOK' /\ ClientOK'
    BY <1>1 DEF AddNotifier, TypeOK, ClientOK, WorkerOK, Status
  <2>2. WorkerOK' /\ MutexOK' /\ NoCallAfterRemoval'
    BY <1>1 DEF AddNotifier, WorkerOK, MutexOK, NoCallAfterRemoval, TypeOK, ClientOK
  <2>3. CountExact' /\ RoomOK' /\ FreedOK'
    <3>1. Unfinished' = Unfinished /\ Dropped' = Dropped
      BY <1>1 DEF AddNotifier, Unfinished, Dropped, TypeOK
    <3>. QED
      BY <1>1, <3>1, CountedSets DEF AddNotifier, CountExact, RoomOK, FreedOK, TypeOK, ClientOK
  <2>4. StatusOK' /\ KnownOK'
    BY <1>1 DEF AddNotifier, StatusOK, KnownOK, Known, TypeOK, ClientOK, WorkerOK, MutexOK
  <2>. QED
    BY <2>1, <2>2, <2>3, <2>4
<1>2. ASSUME NEW n \in mNotifiers, RemoveNotifier(n)
      PROVE  Inv'
  <2>1. TypeOK' /\ ClientOK'
    BY <1>2 DEF RemoveNotifier, TypeOK, ClientOK, WorkerOK, Status
  <2>2. WorkerOK' /\ MutexOK' /\ NoCallAfterRemoval'
    <3>1. WorkerOK'
      BY <1>2 DEF RemoveNotifier, WorkerOK, TypeOK
    <3>2. MutexOK'
      BY <1>2 DEF RemoveNotifier, MutexOK, TypeOK
    <3>3. NoCallAfterRemoval'
      BY <1>2 DEF RemoveNotifier, MutexOK, NoCallAfterRemoval, TypeOK
    <3>. QED
      BY <3>1, <3>2, <3>3
  <2>3. CountExact' /\ RoomOK' /\ FreedOK'
    <3>1. Unfinished' = Unfinished /\ Dropped' = Dropped
      BY <1>2 DEF RemoveNotifier, Unfinished, Dropped, TypeOK
    <3>. QED
      BY <1>2, <3>1, CountedSets DEF RemoveNotifier, CountExact, RoomOK, FreedOK, TypeOK,
          ClientOK
  <2>4. StatusOK' /\ KnownOK'
    BY <1>2 DEF RemoveNotifier, StatusOK, KnownOK, Known, TypeOK, ClientOK, WorkerOK, MutexOK
  <2>. QED
    BY <2>1, <2>2, <2>3, <2>4
<1>3. CASE ClearNotifiers
  <2>1. TypeOK' /\ ClientOK'
    BY <1>3 DEF ClearNotifiers, TypeOK, ClientOK, WorkerOK, Status
  <2>2. WorkerOK' /\ MutexOK' /\ NoCallAfterRemoval'
    <3>1. ASSUME NEW w \in Workers PROVE wleft[w] = {}
      BY <1>3 DEF ClearNotifiers, MutexOK, TypeOK
    <3>2. NoCallAfterRemoval'
      BY <1>3, <3>1 DEF ClearNotifiers, NoCallAfterRemoval
    <3>3. WorkerOK' /\ MutexOK'
      BY <1>3 DEF ClearNotifiers, WorkerOK, MutexOK
    <3>. QED
      BY <3>2, <3>3
  <2>3. CountExact' /\ RoomOK' /\ FreedOK'
    <3>1. Unfinished' = Unfinished /\ Dropped' = Dropped
      BY <1>3 DEF ClearNotifiers, Unfinished, Dropped, TypeOK
    <3>. QED
      BY <1>3, <3>1, CountedSets DEF ClearNotifiers, CountExact, RoomOK, FreedOK, TypeOK,
          ClientOK
  <2>4. StatusOK' /\ KnownOK'
    BY <1>3 DEF ClearNotifiers, StatusOK, KnownOK, Known, TypeOK, ClientOK, WorkerOK, MutexOK
  <2>. QED
    BY <2>1, <2>2, <2>3, <2>4
<1>. QED
  BY <1>1, <1>2, <1>3 DEF NotifierStep

\* So does status().
LEMMA PollerStepInv ==
    ASSUME Inv, NEW q \in Pollers, PollerStep(q)
    PROVE  Inv'
<1>. USE QueueAssumption DEF Inv, Tasks, Notifiers, Final, registry, client, workers, pollers
<1>1. ASSUME NEW t \in Tasks, PollFind(q, t)
      PROVE  Inv'
  <2>1. TypeOK' /\ ClientOK'
    BY <1>1 DEF PollFind, TypeOK, ClientOK, WorkerOK, Status
  <2>2. WorkerOK' /\ MutexOK' /\ NoCallAfterRemoval'
    BY <1>1 DEF PollFind, WorkerOK, MutexOK, NoCallAfterRemoval, TypeOK, ClientOK
  <2>3. CountExact' /\ RoomOK' /\ FreedOK'
    <3>1. Unfinished' = Unfinished /\ Dropped' = Dropped
      BY <1>1 DEF PollFind, Unfinished, Dropped, TypeOK
    <3>. QED
      BY <1>1, <3>1, CountedSets DEF PollFind, CountExact, RoomOK, FreedOK, TypeOK, ClientOK
  <2>4. StatusOK' /\ KnownOK'
    BY <1>1 DEF PollFind, StatusOK, KnownOK, Known, TypeOK, ClientOK, WorkerOK, MutexOK
  <2>. QED
    BY <2>1, <2>2, <2>3, <2>4
<1>2. CASE PollErase(q)
  <2>1. TypeOK' /\ ClientOK'
    BY <1>2 DEF PollErase, TypeOK, ClientOK, WorkerOK, Status
  <2>2. WorkerOK' /\ MutexOK' /\ NoCallAfterRemoval'
    BY <1>2 DEF PollErase, WorkerOK, MutexOK, NoCallAfterRemoval, TypeOK, ClientOK
  <2>3. CountExact' /\ RoomOK' /\ FreedOK'
    <3>1. Unfinished' = Unfinished /\ Dropped' = Dropped
      BY <1>2 DEF PollErase, Unfinished, Dropped, TypeOK
    <3>. QED
      BY <1>2, <3>1, CountedSets DEF PollErase, CountExact, RoomOK, FreedOK, TypeOK, ClientOK
  <2>4. StatusOK' /\ KnownOK'
    BY <1>2 DEF PollErase, StatusOK, KnownOK, Known, TypeOK, ClientOK, WorkerOK, MutexOK
  <2>. QED
    BY <2>1, <2>2, <2>3, <2>4
<1>. QED
  BY <1>1, <1>2 DEF PollerStep

\* So does the destructor: with no producer left, a count of 0 is exact.
LEMMA DestroyInv ==
    ASSUME Inv, BeginDestroy \/ FinishDestroy
    PROVE  Inv'
<1>. USE QueueAssumption DEF Inv, Tasks, Notifiers, Final, registry, client, workers, pollers
<1>1. CASE BeginDestroy
  <2>1. TypeOK' /\ ClientOK'
    BY <1>1 DEF BeginDestroy, TypeOK, ClientOK, WorkerOK, Status
  <2>2. WorkerOK' /\ MutexOK' /\ NoCallAfterRemoval'
    BY <1>1 DEF BeginDestroy, WorkerOK, MutexOK, NoCallAfterRemoval, TypeOK, ClientOK
  <2>3. CountExact' /\ RoomOK' /\ FreedOK'
    <3>1. Unfinished' = Unfinished /\ Dropped' = Dropped
      BY <1>1 DEF BeginDestroy, Unfinished, Dropped, TypeOK
    <3>. QED
      BY <1>1, <3>1, CountedSets DEF BeginDestroy, CountExact, RoomOK, FreedOK, TypeOK, ClientOK
  <2>4. StatusOK' /\ KnownOK'
    BY <1>1 DEF BeginDestroy, StatusOK, KnownOK, Known, TypeOK, ClientOK, WorkerOK, MutexOK
  <2>. QED
    BY <2>1, <2>2, <2>3, <2>4
<1>2. CASE FinishDestroy
  <2>1. TypeOK' /\ ClientOK'
    BY <1>2 DEF FinishDestroy, TypeOK, ClientOK, WorkerOK, Status
  <2>2. WorkerOK' /\ MutexOK' /\ NoCallAfterRemoval'
    BY <1>2 DEF FinishDestroy, WorkerOK, MutexOK, NoCallAfterRemoval, TypeOK, ClientOK
  <2>3. CountExact' /\ RoomOK' /\ FreedOK'
    <3>1. Unfinished' = Unfinished /\ Dropped' = Dropped
      BY <1>2 DEF FinishDestroy, Unfinished, Dropped, TypeOK
    <3>. QED
      <4>1. pc = "idle" /\ mNumTasks <= 0
        BY <1>2 DEF FinishDestroy, ClientOK
      <4>2. CountExact' /\ RoomOK'
        BY <1>2, <3>1, <4>1 DEF FinishDestroy, CountExact, RoomOK
      <4>3. Cardinality(Unfinished) = 0
        BY <4>1, CountedSets DEF CountExact, TypeOK
      <4>4. Unfinished = {}
        BY <4>3, CountedSets, FS_EmptySet
      <4>. QED
        BY <3>1, <4>2, <4>4 DEF FreedOK
  <2>4. StatusOK' /\ KnownOK'
    BY <1>2 DEF FinishDestroy, StatusOK, KnownOK, Known, TypeOK, ClientOK, WorkerOK, MutexOK
  <2>. QED
    BY <2>1, <2>2, <2>3, <2>4
<1>. QED
  BY <1>1, <1>2

\* So does every step of the specification.
LEMMA NextInv == ASSUME Inv, [Next]_vars PROVE Inv'
<1>1. CASE UNCHANGED vars
  BY <1>1 DEF Inv, TypeOK, ClientOK, WorkerOK, MutexOK, NoCallAfterRemoval, CountExact, RoomOK,
      FreedOK, StatusOK, KnownOK, Known, Unfinished, Dropped,
      vars, registry, client, workers, pollers
<1>. QED
  BY <1>1, BeginWriteInv, SetCapacityInv, WriteStepInv, WorkerStepInv, NotifierStepInv,
      PollerStepInv, DestroyInv DEF Next, Finished

-----------------------------------------------------------------------------
(* Theorems                                                                *)

\* The invariant holds throughout.
LEMMA AlwaysInv == Spec => []Inv
BY InitInv, NextInv, PTL DEF Spec

\* Type correctness.
THEOREM TypeSafe == Spec => []TypeOK
<1>1. Inv => TypeOK
  BY DEF Inv
<1>. QED
  BY AlwaysInv, <1>1, PTL

\* mNumTasks, though incremented after the task was handed over, is exact up
\* to that one task, and keeps counting those whose notifier threw.
THEOREM CountSafe == Spec => []CountExact
<1>1. Inv => CountExact
  BY DEF Inv
<1>. QED
  BY AlwaysInv, <1>1, PTL

\* The destructor frees the queue's data only when no task will touch it.
THEOREM FreedSafe == Spec => []FreedQueueUnused
<1>1. Inv => FreedQueueUnused
  BY DEF Inv, FreedOK, WorkerOK, FreedQueueUnused, Unfinished
<1>. QED
  BY AlwaysInv, <1>1, PTL

\* A notifier is not called after removeNotifier() or clearNotifiers().
THEOREM RemovalSafe == Spec => []NoCallAfterRemoval
<1>1. Inv => NoCallAfterRemoval
  BY DEF Inv
<1>. QED
  BY AlwaysInv, <1>1, PTL

\* The outcome of a finished task is on file or was told.
THEOREM OutcomeSafe == Spec => []OutcomeNotLost
<1>1. Inv => OutcomeNotLost
  BY DEF Inv, KnownOK, Known, OutcomeNotLost
<1>. QED
  BY AlwaysInv, <1>1, PTL

\* Only Spawn makes the number of unfinished tasks grow, and it does so while
\* there is room.
LEMMA AdmitStep ==
    ASSUME Inv, [Next]_vars, Cardinality(Unfinished') > Cardinality(Unfinished)
    PROVE  Cardinality(Unfinished') <= mCapacity
<1>1. ASSUME Unfinished' \subseteq Unfinished PROVE FALSE
  <2>1. Cardinality(Unfinished') <= Cardinality(Unfinished) /\ Cardinality(Unfinished') \in Nat
    BY <1>1, CountedSets, FS_Subset, FS_CardinalityType
  <2>. QED
    BY <2>1, CountedSets
<1>2. CASE Spawn
  <2>1. taskId \in Tasks /\ taskId \notin Unfinished
    BY <1>2 DEF Inv, ClientOK, Spawn, Unfinished
  <2>2. Unfinished' = Unfinished \cup {taskId}
    BY <1>2, <2>1 DEF Inv, TypeOK, Spawn, Unfinished
  <2>3. Cardinality(Unfinished') = Cardinality(Unfinished) + 1
    BY <2>1, <2>2, CountedSets, FS_AddElement
  <2>. QED
    BY <1>2, <2>3, CountedSets DEF Inv, RoomOK, Spawn, TypeOK
<1>3. CASE \E w \in Workers : WorkerStep(w)
  <2>1. PICK w \in Workers : WorkerStep(w)
    BY <1>3
  <2>2. ASSUME NEW t \in Tasks, t \in Unfinished' PROVE t \in Unfinished
    BY <2>1, <2>2 DEF Inv, TypeOK, Unfinished, WorkerStep, StartTask, EndWrite, SetFinal,
        LockNotifiers, CallNotifier, NotifierThrows, UnlockNotifiers, EraseStatus, Uncount
  <2>. QED
    BY <1>1, <2>2 DEF Unfinished
<1>4. CASE UNCHANGED task
  BY <1>1, <1>4 DEF Unfinished
<1>. QED
  BY <1>2, <1>3, <1>4 DEF Next, BeginWrite, WriteStep, CheckCapacity, WakeUp, TimeOut, SetPending,
      CountAndReturn, SetCapacity, NotifierStep, AddNotifier, RemoveNotifier, ClearNotifiers,
      PollerStep, PollFind, PollErase, BeginDestroy, FinishDestroy, Finished, vars

\* The queue never admits a task beyond the capacity in force.
THEOREM AdmitSafe == Spec => AdmitWithinCapacity
<1>1. Inv /\ [Next]_vars =>
        [Cardinality(Unfinished') > Cardinality(Unfinished)
            => Cardinality(Unfinished') <= mCapacity]_vars
  BY AdmitStep
<1>. QED
  BY AlwaysInv, <1>1, PTL DEF Spec, AdmitWithinCapacity

-----------------------------------------------------------------------------
(* Nobody waits for everybody.                                             *)

\* A running task has a worker, the mutex is held by a worker that calls
\* notifiers, and the destructor has no status() call beside it.
ProgressOK ==
    /\ \A t \in Tasks : task[t] = "running" =>
           \E w \in Workers : wpc[w] # "idle" /\ wtask[w] = t
    /\ mNotifierMutex # None => wpc[mNotifierMutex] = "call"
    /\ life # "alive" => \A q \in Pollers : rpc[q] = "idle"

\* It holds in the initial states.
LEMMA InitProgress == Init => ProgressOK
BY DEF Init, ProgressOK

\* The steps of a worker preserve it: whoever leaves its task finishes or drops
\* the task, and whoever leaves the notifiers releases the mutex.
LEMMA WorkerProgress ==
    ASSUME Inv, ProgressOK, NEW w \in Workers, WorkerStep(w)
    PROVE  ProgressOK'
<1>. USE QueueAssumption DEF Inv, Tasks, Final, registry, client, workers, pollers
<1>1. ASSUME NEW t \in Tasks, StartTask(w, t) PROVE ProgressOK'
  BY <1>1 DEF StartTask, ProgressOK, TypeOK, WorkerOK, MutexOK
<1>2. ASSUME NEW s \in Final, EndWrite(w, s) PROVE ProgressOK'
  BY <1>2 DEF EndWrite, ProgressOK, TypeOK, WorkerOK, MutexOK
<1>3. CASE SetFinal(w)
  BY <1>3 DEF SetFinal, ProgressOK, TypeOK, WorkerOK, MutexOK
<1>4. CASE LockNotifiers(w)
  BY <1>4 DEF LockNotifiers, ProgressOK, TypeOK, WorkerOK, MutexOK
<1>5. CASE CallNotifier(w)
  BY <1>5 DEF CallNotifier, ProgressOK, TypeOK, WorkerOK, MutexOK
<1>6. CASE NotifierThrows(w)
  BY <1>6 DEF NotifierThrows, ProgressOK, TypeOK, WorkerOK, MutexOK
<1>7. CASE UnlockNotifiers(w)
  BY <1>7 DEF UnlockNotifiers, ProgressOK, TypeOK, WorkerOK, MutexOK
<1>8. CASE EraseStatus(w)
  BY <1>8 DEF EraseStatus, ProgressOK, TypeOK, WorkerOK, MutexOK
<1>9. CASE Uncount(w)
  BY <1>9 DEF Uncount, ProgressOK, TypeOK, WorkerOK, MutexOK
<1>. QED
  BY <1>1, <1>2, <1>3, <1>4, <1>5, <1>6, <1>7, <1>8, <1>9 DEF WorkerStep

\* So does every step of the specification.
LEMMA NextProgress == ASSUME Inv, ProgressOK, [Next]_vars PROVE ProgressOK'
<1>. USE DEF registry, client, workers, pollers
<1>1. CASE WriteStep
  BY <1>1 DEF WriteStep, CheckCapacity, WakeUp, TimeOut, SetPending, Spawn, CountAndReturn,
      ProgressOK, Inv, TypeOK, ClientOK
<1>2. CASE \E w \in Workers : WorkerStep(w)
  BY <1>2, WorkerProgress
<1>3. CASE \E q \in Pollers : PollerStep(q)
  BY <1>3 DEF PollerStep, PollFind, PollErase, ProgressOK, Inv, TypeOK
<1>4. CASE BeginDestroy \/ FinishDestroy
  BY <1>4 DEF BeginDestroy, FinishDestroy, ProgressOK
<1>5. CASE BeginWrite \/ (\E n \in Capacities : SetCapacity(n)) \/ NotifierStep
  BY <1>5 DEF BeginWrite, SetCapacity, NotifierStep, AddNotifier, RemoveNotifier, ClearNotifiers,
      ProgressOK
<1>6. CASE UNCHANGED vars
  BY <1>6 DEF vars, ProgressOK
<1>. QED
  BY <1>1, <1>2, <1>3, <1>4, <1>5, <1>6 DEF Next, Finished

\* A worker with a task can go on, or the holder of the mutex can, or a
\* status() call has the entry.
LEMMA BusyGoesOn ==
    ASSUME Inv, ProgressOK, NEW w \in Workers, wpc[w] # "idle"
    PROVE  (\E v \in Workers : CanGoOn(v)) \/ \E q \in Pollers : rpc[q] = "erase"
<1>1. CASE wpc[w] \in {"write", "call", "uncount"}
  BY <1>1 DEF CanGoOn
<1>2. CASE wpc[w] \in {"status", "erase"}
  BY <1>2 DEF CanGoOn, EntryFree
<1>3. CASE wpc[w] = "lock" /\ mNotifierMutex = None
  BY <1>3 DEF CanGoOn
<1>4. CASE wpc[w] = "lock" /\ mNotifierMutex # None
  BY <1>4 DEF CanGoOn, Inv, TypeOK, ProgressOK
<1>. QED
  BY <1>1, <1>2, <1>3, <1>4 DEF Inv, TypeOK

\* There is no deadlock among workers, pollers and the destructor, with any
\* positive number of workers.
THEOREM NoDeadlock ==
    ASSUME Workers # {}
    PROVE  Spec => []WaitsForWork
<1>1. ASSUME Inv, ProgressOK PROVE WaitsForWork
  <2>1. ASSUME Unfinished # {}
        PROVE  (\E w \in Workers : CanGoOn(w)) \/ \E q \in Pollers : rpc[q] = "erase"
    <3>1. PICK t \in Tasks : task[t] \in {"spawned", "running"}
      BY <2>1 DEF Unfinished
    <3>2. CASE \A w \in Workers : wpc[w] = "idle"
      BY <1>1, <3>1, <3>2 DEF CanGoOn, ProgressOK
    <3>. QED
      BY <1>1, <3>2, BusyGoesOn
  <2>2. ASSUME life = "closing", mNumTasks > 0, Dropped = {}
        PROVE  \E w \in Workers : CanGoOn(w)
    <3>1. pc = "idle" /\ \A q \in Pollers : rpc[q] = "idle"
      BY <1>1, <2>2 DEF Inv, ClientOK, ProgressOK
    <3>2. mNumTasks = Cardinality(Unfinished)
      BY <1>1, <2>2, <3>1, CountedSets, FS_EmptySet DEF Inv, CountExact
    <3>3. Unfinished # {}
      BY <2>2, <3>2, FS_EmptySet
    <3>. QED
      BY <2>1, <3>1, <3>3
  <2>. QED
    BY <2>1, <2>2 DEF WaitsForWork
<1>2. Spec => []ProgressOK
  BY InitProgress, NextProgress, AlwaysInv, PTL DEF Spec
<1>. QED
  BY AlwaysInv, <1>1, <1>2, PTL
=============================================================================
