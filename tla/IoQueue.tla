------------------------------ MODULE IoQueue ------------------------------
(***************************************************************************)
(* io::Queue (openvdb/io/Queue.cc): asynchronous output of grids.          *)
(*                                                                         *)
(* One client thread calls writeGrid() and the setters and destroys the    *)
(* queue; TBB workers run the output tasks; any number of other threads    *)
(* call status() and (de)register notifiers.  A step of the model is an    *)
(* access to one piece of shared state.  Time is abstract: a timeout may   *)
(* strike whenever the waiting thread wakes up.                            *)
(***************************************************************************)
EXTENDS Integers, FiniteSets, FiniteSetsExt

CONSTANTS
    Workers,        \* TBB worker threads
    Pollers,        \* threads that call status()
    MaxTasks,       \* bound: how many times writeGrid() is called
    MaxNotifiers,   \* bound: how many times addNotifier() is called
    Capacities,     \* arguments given to the constructor and setCapacity()
    MayThrow,       \* whether a notifier may throw an exception
    None            \* "no thread", "no task"

Final == {"SUCCEEDED", "FAILED"}

ASSUME QueueAssumption ==
    /\ MaxTasks \in Nat
    /\ MaxNotifiers \in Nat
    /\ Capacities \subseteq Nat
    /\ MayThrow \in BOOLEAN
    /\ None \notin Workers \cup Pollers \cup Nat \cup Final

Tasks == 1..MaxTasks
Notifiers == 1..MaxNotifiers
Status == Final \cup {"UNKNOWN", "PENDING"}

VARIABLES
    mNumTasks,        \* tbb::atomic<Int32>
    mCapacity,
    mNextId,
    mStatus,          \* concurrent_hash_map: "UNKNOWN" stands for no entry
    mNotifiers,       \* keys of the notifier map
    mNextNotifierId,
    mNotifierMutex,   \* worker holding the mutex, or None
    pc,               \* where the client thread is in writeGridVec()/enqueue()
    taskId,           \* its local task ID
    task,             \* state of each OutputTask
    wpc,              \* where each worker is in OutputTask::execute()
    wtask,            \* the task it runs
    wleft,            \* notifiers its loop has still to call
    rpc,              \* where each poller is in status()
    rid,              \* the task it asked for
    life,             \* of the queue object: "alive", "closing", "freed"
    outcome,          \* history: how each write ended
    notified,         \* history: statuses given to notifiers, by task
    polled            \* history: final statuses returned by status(), by task

registry == <<mStatus, mNotifiers, mNextNotifierId, mNotifierMutex>>
client == <<mCapacity, mNextId, pc, taskId>>
workers == <<wpc, wtask, wleft, outcome, notified>>
pollers == <<rpc, rid, polled>>
vars == <<mNumTasks, registry, client, task, workers, pollers, life>>

TypeOK ==
    /\ mNumTasks \in Int
    /\ mCapacity \in Nat
    /\ mNextId \in 1..(MaxTasks + 1)
    /\ mStatus \in [Tasks -> Status]
    /\ mNotifiers \subseteq Notifiers
    /\ mNextNotifierId \in 1..(MaxNotifiers + 1)
    /\ mNotifierMutex \in Workers \cup {None}
    /\ pc \in {"idle", "wait", "asleep", "announce", "spawn", "count"}
    /\ taskId \in Tasks \cup {None}
    /\ task \in [Tasks -> {"none", "spawned", "running", "finished", "dropped"}]
    /\ wpc \in [Workers -> {"idle", "write", "status", "lock", "call", "erase", "uncount"}]
    /\ wtask \in [Workers -> Tasks \cup {None}]
    /\ wleft \in [Workers -> SUBSET Notifiers]
    /\ rpc \in [Pollers -> {"idle", "erase"}]
    /\ rid \in [Pollers -> Tasks \cup {None}]
    /\ life \in {"alive", "closing", "freed"}
    /\ outcome \in [Tasks -> Final \cup {None}]
    /\ notified \in [Tasks -> SUBSET Final]
    /\ polled \in [Tasks -> SUBSET Final]

\* The constructor takes any capacity, 0 included (setCapacity() does not).
Init ==
    /\ mNumTasks = 0
    /\ mCapacity \in Capacities
    /\ mNextId = 1
    /\ mStatus = [t \in Tasks |-> "UNKNOWN"]
    /\ mNotifiers = {}
    /\ mNextNotifierId = 1
    /\ mNotifierMutex = None
    /\ pc = "idle"
    /\ taskId = None
    /\ task = [t \in Tasks |-> "none"]
    /\ wpc = [w \in Workers |-> "idle"]
    /\ wtask = [w \in Workers |-> None]
    /\ wleft = [w \in Workers |-> {}]
    /\ rpc = [q \in Pollers |-> "idle"]
    /\ rid = [q \in Pollers |-> None]
    /\ life = "alive"
    /\ outcome = [t \in Tasks |-> None]
    /\ notified = [t \in Tasks |-> {}]
    /\ polled = [t \in Tasks |-> {}]

-----------------------------------------------------------------------------
(* The client thread: writeGridVec() and Impl::enqueue()                   *)

\* Mutant: off by one.
CanEnqueueOneMore == mNumTasks <= mCapacity

CanEnqueue == mNumTasks < mCapacity

BeginWrite ==
    /\ life = "alive" /\ pc = "idle"
    /\ mNextId <= MaxTasks                                        \* bound
    /\ taskId' = mNextId
    /\ mNextId' = mNextId + 1
    /\ pc' = "wait"
    /\ UNCHANGED <<mNumTasks, mCapacity, registry, task, workers, pollers, life>>

CheckCapacity ==
    /\ pc = "wait"
    /\ pc' = IF CanEnqueue THEN "announce" ELSE "asleep"
    /\ UNCHANGED <<mNumTasks, mCapacity, mNextId, taskId,
                   registry, task, workers, pollers, life>>

WakeUp ==
    /\ pc = "asleep"
    /\ pc' = "wait"
    /\ UNCHANGED <<mNumTasks, mCapacity, mNextId, taskId,
                   registry, task, workers, pollers, life>>

\* Mutant: a queue that gives up a task also uncounts it.
TimeOutUncounts ==
    /\ pc = "asleep"
    /\ pc' = "idle"
    /\ taskId' = None
    /\ mNumTasks' = mNumTasks - 1
    /\ UNCHANGED <<mCapacity, mNextId, registry, task, workers, pollers, life>>

\* Mutant: the clock is restarted at each round, so the limit is never reached.
TimeOutNever == FALSE

\* The clock is read after the sleep and before the next look at the
\* capacity.  The exception destroys the task; its ID is not used again.
TimeOut ==
    /\ pc = "asleep"
    /\ pc' = "idle"
    /\ taskId' = None
    /\ UNCHANGED <<mNumTasks, mCapacity, mNextId,
                   registry, task, workers, pollers, life>>

SetPending ==
    /\ pc = "announce"
    /\ mStatus' = [mStatus EXCEPT ![taskId] = "PENDING"]
    /\ pc' = "spawn"
    /\ UNCHANGED <<mNumTasks, mCapacity, mNextId, taskId,
                   mNotifiers, mNextNotifierId, mNotifierMutex, task, workers, pollers, life>>

Spawn ==
    /\ pc = "spawn"
    /\ task' = [task EXCEPT ![taskId] = "spawned"]
    /\ pc' = "count"
    /\ UNCHANGED <<mNumTasks, mCapacity, mNextId, taskId,
                   registry, workers, pollers, life>>

\* Mutant: the status is set to PENDING after the task was handed to TBB.
CountAndReturnPending ==
    /\ pc = "count"
    /\ mNumTasks' = mNumTasks + 1
    /\ mStatus' = [mStatus EXCEPT ![taskId] = "PENDING"]
    /\ taskId' = None
    /\ pc' = "idle"
    /\ UNCHANGED <<mCapacity, mNextId, mNotifiers, mNextNotifierId, mNotifierMutex,
                   task, workers, pollers, life>>

CountAndReturn ==
    /\ pc = "count"
    /\ mNumTasks' = mNumTasks + 1
    /\ taskId' = None
    /\ pc' = "idle"
    /\ UNCHANGED <<mCapacity, mNextId, registry, task, workers, pollers, life>>

\* mCapacity is a plain integer: only the client thread may set it.
SetCapacity(n) ==
    /\ life = "alive" /\ pc = "idle"
    /\ mCapacity' = Max({1, n})
    /\ UNCHANGED <<mNumTasks, mNextId, pc, taskId,
                   registry, task, workers, pollers, life>>

-----------------------------------------------------------------------------
(* Workers: OutputTask::execute() and Impl::setStatusWithNotification()    *)

StartTask(w, t) ==
    /\ wpc[w] = "idle" /\ task[t] = "spawned"
    /\ task' = [task EXCEPT ![t] = "running"]
    /\ wtask' = [wtask EXCEPT ![w] = t]
    /\ wpc' = [wpc EXCEPT ![w] = "write"]
    /\ UNCHANGED <<mNumTasks, registry, client, wleft, outcome, notified, pollers, life>>

\* Mutant: the local status starts as UNKNOWN and not as FAILED.
EndWriteUnknown(w, s) ==
    /\ wpc[w] = "write"
    /\ outcome' = [outcome EXCEPT ![wtask[w]] = IF s = "FAILED" THEN "UNKNOWN" ELSE s]
    /\ wpc' = [wpc EXCEPT ![w] = "status"]
    /\ UNCHANGED <<mNumTasks, registry, client, task, wtask, wleft, notified, pollers, life>>

\* Archive::write() returns, or throws and the exception is swallowed.
EndWrite(w, s) ==
    /\ wpc[w] = "write"
    /\ outcome' = [outcome EXCEPT ![wtask[w]] = s]
    /\ wpc' = [wpc EXCEPT ![w] = "status"]
    /\ UNCHANGED <<mNumTasks, registry, client, task, wtask, wleft, notified, pollers, life>>

\* A status() call that holds the entry (between its find and its erase)
\* keeps writers of the entry out.
EntryFree(t) == \A q \in Pollers : rpc[q] = "erase" => rid[q] # t

SetFinal(w) ==
    /\ wpc[w] = "status" /\ EntryFree(wtask[w])
    /\ mStatus' = [mStatus EXCEPT ![wtask[w]] = outcome[wtask[w]]]
    /\ wpc' = [wpc EXCEPT ![w] = "lock"]
    /\ UNCHANGED <<mNumTasks, mNotifiers, mNextNotifierId, mNotifierMutex, client, task,
                   wtask, wleft, outcome, notified, pollers, life>>

\* Mutant: the entry is erased whether or not somebody was notified.
LockNotifiersErase(w) ==
    /\ wpc[w] = "lock" /\ mNotifierMutex = None
    /\ wpc' = [wpc EXCEPT ![w] = IF mNotifiers = {} THEN "erase" ELSE "call"]
    /\ wleft' = [wleft EXCEPT ![w] = mNotifiers]
    /\ mNotifierMutex' = IF mNotifiers = {} THEN None ELSE w
    /\ UNCHANGED <<mNumTasks, mStatus, mNotifiers, mNextNotifierId, client, task,
                   wtask, outcome, notified, pollers, life>>

\* Mutant: a task nobody is notified of is not uncounted.
LockNotifiersReturn(w) ==
    /\ wpc[w] = "lock" /\ mNotifierMutex = None
    /\ IF mNotifiers = {}
       THEN /\ wpc' = [wpc EXCEPT ![w] = "idle"]
            /\ wtask' = [wtask EXCEPT ![w] = None]
            /\ task' = [task EXCEPT ![wtask[w]] = "finished"]
            /\ UNCHANGED <<mNotifierMutex, wleft>>
       ELSE /\ wpc' = [wpc EXCEPT ![w] = "call"]
            /\ wleft' = [wleft EXCEPT ![w] = mNotifiers]
            /\ mNotifierMutex' = w
            /\ UNCHANGED <<wtask, task>>
    /\ UNCHANGED <<mNumTasks, mStatus, mNotifiers, mNextNotifierId, client,
                   outcome, notified, pollers, life>>

\* With no notifier registered the mutex is taken and released at once.
LockNotifiers(w) ==
    /\ wpc[w] = "lock" /\ mNotifierMutex = None
    /\ IF mNotifiers = {}
       THEN /\ wpc' = [wpc EXCEPT ![w] = "uncount"]
            /\ UNCHANGED <<mNotifierMutex, wleft>>
       ELSE /\ wpc' = [wpc EXCEPT ![w] = "call"]
            /\ wleft' = [wleft EXCEPT ![w] = mNotifiers]
            /\ mNotifierMutex' = w
    /\ UNCHANGED <<mNumTasks, mStatus, mNotifiers, mNextNotifierId, client, task,
                   wtask, outcome, notified, pollers, life>>

\* The map is iterated in the order of the notifiers' IDs.
CallNotifier(w) ==
    /\ wpc[w] = "call" /\ wleft[w] # {}
    /\ notified' = [notified EXCEPT ![wtask[w]] = @ \cup {outcome[wtask[w]]}]
    /\ wleft' = [wleft EXCEPT ![w] = @ \ {Min(@)}]
    /\ UNCHANGED <<mNumTasks, registry, client, task, wpc, wtask, outcome, pollers, life>>

\* Mutant: the exception leaves the mutex locked.
NotifierThrowsLocked(w) ==
    /\ MayThrow
    /\ wpc[w] = "call" /\ wleft[w] # {}
    /\ notified' = [notified EXCEPT ![wtask[w]] = @ \cup {outcome[wtask[w]]}]
    /\ task' = [task EXCEPT ![wtask[w]] = "dropped"]
    /\ wleft' = [wleft EXCEPT ![w] = {}]
    /\ wtask' = [wtask EXCEPT ![w] = None]
    /\ wpc' = [wpc EXCEPT ![w] = "idle"]
    /\ UNCHANGED <<mNumTasks, registry, client, outcome, pollers, life>>

\* Nothing between the notifier and TBB's scheduler catches its exception:
\* the mutex is released and the rest of the handler is skipped.
NotifierThrows(w) ==
    /\ MayThrow
    /\ wpc[w] = "call" /\ wleft[w] # {}
    /\ notified' = [notified EXCEPT ![wtask[w]] = @ \cup {outcome[wtask[w]]}]
    /\ mNotifierMutex' = None
    /\ task' = [task EXCEPT ![wtask[w]] = "dropped"]
    /\ wleft' = [wleft EXCEPT ![w] = {}]
    /\ wtask' = [wtask EXCEPT ![w] = None]
    /\ wpc' = [wpc EXCEPT ![w] = "idle"]
    /\ UNCHANGED <<mNumTasks, mStatus, mNotifiers, mNextNotifierId, client, outcome, pollers, life>>

UnlockNotifiers(w) ==
    /\ wpc[w] = "call" /\ wleft[w] = {}
    /\ mNotifierMutex' = None
    /\ wpc' = [wpc EXCEPT ![w] = "erase"]
    /\ UNCHANGED <<mNumTasks, mStatus, mNotifiers, mNextNotifierId, client, task,
                   wtask, wleft, outcome, notified, pollers, life>>

EraseStatus(w) ==
    /\ wpc[w] = "erase" /\ EntryFree(wtask[w])
    /\ mStatus' = [mStatus EXCEPT ![wtask[w]] = "UNKNOWN"]
    /\ wpc' = [wpc EXCEPT ![w] = "uncount"]
    /\ UNCHANGED <<mNumTasks, mNotifiers, mNextNotifierId, mNotifierMutex, client, task,
                   wtask, wleft, outcome, notified, pollers, life>>

Uncount(w) ==
    /\ wpc[w] = "uncount"
    /\ mNumTasks' = mNumTasks - 1
    /\ task' = [task EXCEPT ![wtask[w]] = "finished"]
    /\ wtask' = [wtask EXCEPT ![w] = None]
    /\ wpc' = [wpc EXCEPT ![w] = "idle"]
    /\ UNCHANGED <<registry, client, wleft, outcome, notified, pollers, life>>

-----------------------------------------------------------------------------
(* Other threads: notifiers and status()                                   *)

AddNotifier ==
    /\ life = "alive" /\ mNotifierMutex = None
    /\ mNextNotifierId <= MaxNotifiers                            \* bound
    /\ mNotifiers' = mNotifiers \cup {mNextNotifierId}
    /\ mNextNotifierId' = mNextNotifierId + 1
    /\ UNCHANGED <<mNumTasks, mStatus, mNotifierMutex, client, task, workers, pollers, life>>

\* Mutant: the mutex is not taken.
RemoveNotifierUnlocked(n) ==
    /\ life = "alive"
    /\ mNotifiers' = mNotifiers \ {n}
    /\ UNCHANGED <<mNumTasks, mStatus, mNextNotifierId, mNotifierMutex,
                   client, task, workers, pollers, life>>

RemoveNotifier(n) ==
    /\ life = "alive" /\ mNotifierMutex = None
    /\ mNotifiers' = mNotifiers \ {n}
    /\ UNCHANGED <<mNumTasks, mStatus, mNextNotifierId, mNotifierMutex,
                   client, task, workers, pollers, life>>

ClearNotifiers ==
    /\ life = "alive" /\ mNotifierMutex = None
    /\ mNotifiers' = {}
    /\ UNCHANGED <<mNumTasks, mStatus, mNextNotifierId, mNotifierMutex,
                   client, task, workers, pollers, life>>

\* status() of an unfinished or unknown task changes nothing.
PollFind(q, t) ==
    /\ life = "alive" /\ rpc[q] = "idle"
    /\ mStatus[t] \in Final
    /\ rid' = [rid EXCEPT ![q] = t]
    /\ rpc' = [rpc EXCEPT ![q] = "erase"]
    /\ polled' = [polled EXCEPT ![t] = @ \cup {mStatus[t]}]
    /\ UNCHANGED <<mNumTasks, registry, client, task, workers, life>>

\* Of two pollers that found the entry, the later one erases nothing.
PollErase(q) ==
    /\ rpc[q] = "erase"
    /\ mStatus' = [mStatus EXCEPT ![rid[q]] = "UNKNOWN"]
    /\ rid' = [rid EXCEPT ![q] = None]
    /\ rpc' = [rpc EXCEPT ![q] = "idle"]
    /\ UNCHANGED <<mNumTasks, mNotifiers, mNextNotifierId, mNotifierMutex,
                   client, task, workers, polled, life>>

-----------------------------------------------------------------------------
(* The destructor.  Its caller sees to it that no other member function is *)
(* running.                                                                *)

BeginDestroy ==
    /\ life = "alive" /\ pc = "idle"
    /\ \A q \in Pollers : rpc[q] = "idle"
    /\ life' = "closing"
    /\ UNCHANGED <<mNumTasks, registry, client, task, workers, pollers>>

\* Mutant: the destructor waits while more than one task is queued.
FinishDestroyEarly ==
    /\ life = "closing" /\ mNumTasks <= 1
    /\ life' = "freed"
    /\ UNCHANGED <<mNumTasks, registry, client, task, workers, pollers>>

FinishDestroy ==
    /\ life = "closing" /\ mNumTasks <= 0
    /\ life' = "freed"
    /\ UNCHANGED <<mNumTasks, registry, client, task, workers, pollers>>

\* The program may stop once the queue is gone.
Finished ==
    /\ life = "freed"
    /\ \A w \in Workers : wpc[w] = "idle"
    /\ UNCHANGED vars

-----------------------------------------------------------------------------

WriteStep ==
    CheckCapacity \/ WakeUp \/ TimeOut \/ SetPending \/ Spawn \/ CountAndReturn

WorkerStep(w) ==
    \/ \E t \in Tasks : StartTask(w, t)
    \/ \E s \in Final : EndWrite(w, s)
    \/ SetFinal(w)
    \/ LockNotifiers(w)
    \/ CallNotifier(w)
    \/ NotifierThrows(w)
    \/ UnlockNotifiers(w)
    \/ EraseStatus(w)
    \/ Uncount(w)

NotifierStep == AddNotifier \/ (\E n \in mNotifiers : RemoveNotifier(n)) \/ ClearNotifiers

PollerStep(q) == (\E t \in Tasks : PollFind(q, t)) \/ PollErase(q)

Next ==
    \/ BeginWrite
    \/ WriteStep
    \/ \E n \in Capacities : SetCapacity(n)
    \/ \E w \in Workers : WorkerStep(w)
    \/ NotifierStep
    \/ \E q \in Pollers : PollerStep(q)
    \/ BeginDestroy
    \/ FinishDestroy
    \/ Finished

\* Threads keep running; TBB runs enqueued tasks without anyone waiting for
\* them; write() and the notifiers return; the clock of a sleeping producer
\* reaches its timeout (TimeOut is enabled again at every round of the loop).
Fairness ==
    /\ WF_vars(WriteStep)
    /\ SF_vars(TimeOut)
    /\ \A w \in Workers : WF_vars(WorkerStep(w))
    /\ \A q \in Pollers : WF_vars(PollErase(q))
    /\ WF_vars(FinishDestroy)

Spec == Init /\ [][Next]_vars /\ Fairness

-----------------------------------------------------------------------------
(* Properties                                                              *)

Unfinished == {t \in Tasks : task[t] \in {"spawned", "running"}}
Dropped == {t \in Tasks : task[t] = "dropped"}

\* mNumTasks counts the tasks handed to TBB and not finished, less the one
\* whose ++mNumTasks enqueue() has still to execute (it follows the call to
\* task::enqueue()), plus those a throwing notifier kept from --mNumTasks.
CountExact ==
    mNumTasks = Cardinality(Unfinished) + Cardinality(Dropped) - (IF pc = "count" THEN 1 ELSE 0)

\* "The maximum number of tasks allowed in the queue": handing a task to TBB
\* never makes the number of unfinished tasks exceed the capacity in force,
\* although the check and the hand-over are separate steps and the count is
\* taken after the hand-over.
AdmitWithinCapacity ==
    [][Cardinality(Unfinished') > Cardinality(Unfinished)
            => Cardinality(Unfinished') <= mCapacity]_vars

\* The outcome of a finished task is still in the registry or was given to a
\* notifier or to a status() call: registering and removing notifiers and
\* polling while tasks finish never lets it slip between the two.
OutcomeNotLost ==
    \A t \in Tasks : task[t] = "finished" =>
        \/ mStatus[t] = outcome[t]
        \/ outcome[t] \in notified[t] \cup polled[t]

\* Once removeNotifier() or clearNotifiers() has returned no worker calls the
\* notifier any more, so that its owner may destroy it.
NoCallAfterRemoval == \A w \in Workers : wleft[w] \subseteq mNotifiers

\* When the destructor is past its wait no task can touch the queue's data:
\* none waits to be run, none is in execute().
FreedQueueUnused ==
    life = "freed" => Unfinished = {} /\ \A w \in Workers : wpc[w] = "idle"

CanGoOn(w) ==
    \/ wpc[w] = "idle" /\ \E t \in Tasks : task[t] = "spawned"
    \/ wpc[w] \in {"write", "call", "uncount"}
    \/ wpc[w] \in {"status", "erase"} /\ EntryFree(wtask[w])
    \/ wpc[w] = "lock" /\ mNotifierMutex = None

\* Nobody waits for everybody: as long as a task is unfinished some worker can
\* take a step, or a status() call is about to let go of the entry a worker
\* waits for; and a destructor that waits for its queue to drain waits for a
\* worker that can go on, unless an exception of a notifier kept a task in the
\* count.
WaitsForWork ==
    /\ Unfinished # {} =>
           (\E w \in Workers : CanGoOn(w)) \/ \E q \in Pollers : rpc[q] = "erase"
    /\ life = "closing" /\ mNumTasks > 0 => Dropped # {} \/ \E w \in Workers : CanGoOn(w)

\* writeGrid() returns or throws: it does not wait for ever, whatever the
\* capacity and however long the queue stays full.
WriteReturns == pc # "idle" ~> pc = "idle"

\* The destructor comes back, unless an exception of a notifier has kept a task
\* in the count.
DestructorUnblocked == life = "closing" ~> life = "freed" \/ Dropped # {}

\* "Block until all queued tasks complete": the destructor comes back once they
\* have, whether or not a notifier throws.
DestructorReturns == life = "closing" ~> life = "freed"

\* The queue keeps the promises of the task ledger: an entry of the registry
\* that holds a final status never goes back to "PENDING", nothing is
\* forgotten untold, nobody is told two different stories, and each accepted
\* task gets a final status.
Ledger ==
    INSTANCE TaskLedger WITH
        stage <- [t \in Tasks |->
            CASE mStatus[t] = "PENDING" -> "pending"
              [] mStatus[t] \in Final -> "done"
              [] OTHER -> IF task[t] = "none" THEN "new" ELSE "gone"],
        result <- [t \in Tasks |->
            CASE mStatus[t] \in Final -> mStatus[t]
              [] mStatus[t] = "UNKNOWN" /\ task[t] # "none" -> outcome[t]
              [] OTHER -> None],
        told <- [t \in Tasks |-> notified[t] \cup polled[t]]

LedgerSpec == Ledger!Spec
=============================================================================
