--------------------------- MODULE IoLedgerProofs ---------------------------
(***************************************************************************)
(* io::Queue does to each task what the ledger allows, in every step, for  *)
(* any number of workers, pollers, tasks and notifiers.  (That accepted    *)
(* tasks do get a result is left to TLC: it needs the fairness.)           *)
(***************************************************************************)
EXTENDS IoQueueProofs

\* Which entry of the registry goes with which place in a task's life: it is
\* "PENDING" from SetPending() to SetFinal(), and never again.
RegistryOK ==
    /\ \A t \in Tasks : task[t] = "none" /\ ~(pc = "spawn" /\ taskId = t) => mStatus[t] = "UNKNOWN"
    /\ pc = "spawn" => mStatus[taskId] = "PENDING"
    /\ \A t \in Tasks : task[t] = "spawned" => mStatus[t] = "PENDING"
    /\ \A t \in Tasks : task[t] \in {"finished", "dropped"} => mStatus[t] # "PENDING"
    /\ \A w \in Workers :
           /\ wpc[w] \in {"write", "status"} => mStatus[wtask[w]] = "PENDING"
           /\ wpc[w] \notin {"idle", "write", "status"} => mStatus[wtask[w]] # "PENDING"
    /\ \A q \in Pollers :
           rpc[q] = "erase" => task[rid[q]] # "none" /\ mStatus[rid[q]] # "PENDING"

LInv == Inv /\ RegistryOK

\* No entry, no task: what the client and TBB start from.
LEMMA InitRegistry == Init => RegistryOK
BY QueueAssumption DEF Init, RegistryOK

\* The client announces a task before it hands it over, and no one touches
\* the entry in between.
LEMMA ClientRegistry ==
    ASSUME LInv, BeginWrite \/ WriteStep \/ (\E n \in Capacities : SetCapacity(n))
    PROVE  RegistryOK'
<1>. USE QueueAssumption DEF LInv, Inv, registry, client, workers, pollers
<1>1. CASE BeginWrite
  BY <1>1 DEF BeginWrite, RegistryOK, TypeOK
<1>2. CASE CheckCapacity
  BY <1>2 DEF CheckCapacity, RegistryOK, TypeOK
<1>3. CASE WakeUp
  BY <1>3 DEF WakeUp, RegistryOK, TypeOK
<1>4. CASE TimeOut
  BY <1>4 DEF TimeOut, RegistryOK, TypeOK
<1>5. CASE SetPending
  BY <1>5 DEF SetPending, RegistryOK, TypeOK, ClientOK, WorkerOK, StatusOK
<1>6. CASE Spawn
  BY <1>6 DEF Spawn, RegistryOK, TypeOK, ClientOK, WorkerOK, StatusOK
<1>7. CASE CountAndReturn
  BY <1>7 DEF CountAndReturn, RegistryOK, TypeOK
<1>8. CASE \E n \in Capacities : SetCapacity(n)
  BY <1>8 DEF SetCapacity, RegistryOK, TypeOK
<1>. QED
  BY <1>1, <1>2, <1>3, <1>4, <1>5, <1>6, <1>7, <1>8 DEF WriteStep

\* A worker's task is its own, so that nobody else changes the entry from
\* "PENDING".
LEMMA WorkerRegistry ==
    ASSUME LInv, NEW w \in Workers, WorkerStep(w)
    PROVE  RegistryOK'
<1>. USE QueueAssumption DEF LInv, Inv, registry, client, workers, pollers
<1>1. ASSUME NEW t \in Tasks, StartTask(w, t) PROVE RegistryOK'
  BY <1>1 DEF StartTask, RegistryOK, TypeOK, ClientOK, WorkerOK, StatusOK
<1>2. ASSUME NEW s \in Final, EndWrite(w, s) PROVE RegistryOK'
  BY <1>2 DEF EndWrite, RegistryOK, TypeOK, WorkerOK
<1>3. CASE SetFinal(w)
  BY <1>3 DEF SetFinal, EntryFree, RegistryOK, TypeOK, ClientOK, WorkerOK, StatusOK, KnownOK, Final
<1>4. CASE LockNotifiers(w)
  BY <1>4 DEF LockNotifiers, RegistryOK, TypeOK
<1>5. CASE CallNotifier(w)
  BY <1>5 DEF CallNotifier, RegistryOK, TypeOK
<1>6. CASE NotifierThrows(w)
  BY <1>6 DEF NotifierThrows, RegistryOK, TypeOK, ClientOK, WorkerOK, StatusOK
<1>7. CASE UnlockNotifiers(w)
  BY <1>7 DEF UnlockNotifiers, RegistryOK, TypeOK
<1>8. CASE EraseStatus(w)
  BY <1>8 DEF EraseStatus, EntryFree, RegistryOK, TypeOK, ClientOK, WorkerOK, StatusOK
<1>9. CASE Uncount(w)
  BY <1>9 DEF Uncount, RegistryOK, TypeOK, ClientOK, WorkerOK, StatusOK
<1>. QED
  BY <1>1, <1>2, <1>3, <1>4, <1>5, <1>6, <1>7, <1>8, <1>9 DEF WorkerStep

\* The other threads and the destructor only ever erase final statuses.
LEMMA OtherRegistry ==
    ASSUME LInv,
           NotifierStep \/ (\E q \in Pollers : PollerStep(q)) \/ BeginDestroy \/ FinishDestroy
    PROVE  RegistryOK'
<1>. USE QueueAssumption DEF LInv, Inv, registry, client, workers, pollers
<1>1. CASE NotifierStep
  BY <1>1 DEF NotifierStep, AddNotifier, RemoveNotifier, ClearNotifiers, RegistryOK
<1>2. ASSUME NEW q \in Pollers, NEW t \in Tasks, PollFind(q, t) PROVE RegistryOK'
  BY <1>2 DEF PollFind, RegistryOK, TypeOK, Final
<1>3. ASSUME NEW q \in Pollers, PollErase(q) PROVE RegistryOK'
  BY <1>3 DEF PollErase, RegistryOK, TypeOK, ClientOK, WorkerOK, StatusOK
<1>4. CASE BeginDestroy \/ FinishDestroy
  BY <1>4 DEF BeginDestroy, FinishDestroy, RegistryOK
<1>. QED
  BY <1>1, <1>2, <1>3, <1>4 DEF PollerStep

\* The strengthened invariant holds throughout.
LEMMA AlwaysLInv == Spec => []LInv
<1>1. Init => LInv
  BY InitInv, InitRegistry DEF LInv
<1>2. LInv /\ [Next]_vars => LInv'
  <2>. SUFFICES ASSUME LInv, [Next]_vars PROVE LInv'
    OBVIOUS
  <2>1. Inv'
    BY NextInv DEF LInv
  <2>2. CASE UNCHANGED vars
    BY <2>1, <2>2 DEF LInv, RegistryOK, vars, registry, client, workers, pollers
  <2>. QED
    BY <2>1, <2>2, ClientRegistry, WorkerRegistry, OtherRegistry DEF LInv, Next, Finished
<1>. QED
  BY <1>1, <1>2, PTL DEF Spec

-----------------------------------------------------------------------------
(* The ledger, task by task.                                               *)

Stage(t) ==
    CASE mStatus[t] = "PENDING" -> "pending"
      [] mStatus[t] \in Final -> "done"
      [] OTHER -> IF task[t] = "none" THEN "new" ELSE "gone"

Result(t) ==
    CASE mStatus[t] \in Final -> mStatus[t]
      [] mStatus[t] = "UNKNOWN" /\ task[t] # "none" -> outcome[t]
      [] OTHER -> None

Told(t) == notified[t] \cup polled[t]

\* A step that leaves every page as it is is a stutter of the ledger.
LEMMA SamePages ==
    ASSUME \A t \in Tasks : Stage(t)' = Stage(t) /\ Result(t)' = Result(t) /\ Told(t)' = Told(t)
    PROVE  UNCHANGED Ledger!vars
BY DEF Stage, Result, Told, Ledger!vars

\* What the steps of the ledger say of the pages of the other tasks.
LEMMA LedgerStep ==
    ASSUME NEW t \in Tasks,
           \A u \in Tasks \ {t} :
               Stage(u)' = Stage(u) /\ Result(u)' = Result(u) /\ Told(u)' = Told(u),
           \/ /\ Stage(t) = "new" /\ Stage(t)' = "pending"
              /\ Result(t)' = Result(t) /\ Told(t)' = Told(t)
           \/ /\ Stage(t) = "pending" /\ Stage(t)' = "done"
              /\ Result(t)' \in Final /\ Told(t)' = Told(t)
           \/ /\ Stage(t) \in {"done", "gone"} /\ Stage(t)' = Stage(t)
              /\ Result(t)' = Result(t) /\ Told(t)' = Told(t) \cup {Result(t)}
           \/ /\ Stage(t) = "done" /\ Told(t) # {} /\ Stage(t)' = "gone"
              /\ Result(t)' = Result(t) /\ Told(t)' = Told(t)
    PROVE  Ledger!Next
<1>. DEFINE st == [u \in Tasks |-> Stage(u)]
            re == [u \in Tasks |-> Result(u)]
            to == [u \in Tasks |-> Told(u)]
<1>1. CASE /\ Stage(t) = "new" /\ Stage(t)' = "pending"
           /\ Result(t)' = Result(t) /\ Told(t)' = Told(t)
  <2>1. st[t] = "new" /\ st' = [st EXCEPT ![t] = "pending"] /\ re' = re /\ to' = to
    BY <1>1
  <2>2. Ledger!Accept(t)
    BY <2>1 DEF Ledger!Accept, Stage, Result, Told
  <2>. QED
    BY <2>2 DEF Ledger!Next
<1>2. CASE /\ Stage(t) = "pending" /\ Stage(t)' = "done"
           /\ Result(t)' \in Final /\ Told(t)' = Told(t)
  <2>1. /\ st[t] = "pending" /\ st' = [st EXCEPT ![t] = "done"]
        /\ re' = [re EXCEPT ![t] = Result(t)'] /\ to' = to
    BY <1>2
  <2>2. PICK s \in Final : s = Result(t)'
    BY <1>2
  <2>3. re' = [re EXCEPT ![t] = s]
    BY <2>1, <2>2
  <2>4. Ledger!Complete(t, s)
    BY <2>1, <2>3 DEF Ledger!Complete, Stage, Result, Told
  <2>. QED
    BY <2>4 DEF Ledger!Next
<1>3. CASE /\ Stage(t) \in {"done", "gone"} /\ Stage(t)' = Stage(t)
           /\ Result(t)' = Result(t) /\ Told(t)' = Told(t) \cup {Result(t)}
  <2>1. /\ st[t] \in {"done", "gone"} /\ st' = st /\ re' = re
        /\ to' = [to EXCEPT ![t] = @ \cup {re[t]}]
    BY <1>3
  <2>2. Ledger!Tell(t)
    BY <2>1 DEF Ledger!Tell, Stage, Result, Told
  <2>. QED
    BY <2>2 DEF Ledger!Next
<1>4. CASE /\ Stage(t) = "done" /\ Told(t) # {} /\ Stage(t)' = "gone"
           /\ Result(t)' = Result(t) /\ Told(t)' = Told(t)
  <2>1. /\ st[t] = "done" /\ to[t] # {} /\ st' = [st EXCEPT ![t] = "gone"] /\ re' = re /\ to' = to
    BY <1>4
  <2>2. Ledger!Forget(t)
    BY <2>1 DEF Ledger!Forget, Stage, Result, Told
  <2>. QED
    BY <2>2 DEF Ledger!Next
<1>. QED
  BY <1>1, <1>2, <1>3, <1>4

\* The client changes the ledger only when it announces a task.
LEMMA ClientMaps ==
    ASSUME LInv, BeginWrite \/ WriteStep \/ (\E n \in Capacities : SetCapacity(n))
    PROVE  [Ledger!Next]_Ledger!vars
<1>. USE QueueAssumption DEF LInv, Inv, registry, client, workers, pollers
<1>1. CASE SetPending
  <2>1. PICK t \in Tasks : t = taskId /\ task[t] = "none" /\ mStatus[t] = "UNKNOWN"
    BY <1>1 DEF SetPending, ClientOK, RegistryOK
  <2>2. mStatus' = [mStatus EXCEPT ![t] = "PENDING"] /\ UNCHANGED <<task, outcome, notified, polled>>
    BY <1>1, <2>1 DEF SetPending
  <2>3. \A u \in Tasks \ {t} :
            Stage(u)' = Stage(u) /\ Result(u)' = Result(u) /\ Told(u)' = Told(u)
    BY <2>1, <2>2 DEF Stage, Result, Told, TypeOK
  <2>4. /\ Stage(t) = "new" /\ Stage(t)' = "pending"
        /\ Result(t)' = Result(t) /\ Told(t)' = Told(t)
    BY <2>1, <2>2 DEF Stage, Result, Told, TypeOK, Final
  <2>. QED
    BY <2>1, <2>3, <2>4, LedgerStep
<1>2. CASE Spawn
  <2>1. PICK t \in Tasks : t = taskId /\ mStatus[t] = "PENDING"
    BY <1>2 DEF Spawn, ClientOK, RegistryOK
  <2>2. task' = [task EXCEPT ![t] = "spawned"] /\ UNCHANGED <<mStatus, outcome, notified, polled>>
    BY <1>2, <2>1 DEF Spawn
  <2>3. \A u \in Tasks : Stage(u)' = Stage(u) /\ Result(u)' = Result(u) /\ Told(u)' = Told(u)
    BY <2>1, <2>2 DEF Stage, Result, Told, TypeOK
  <2>. QED
    BY <2>3, SamePages
<1>3. CASE \/ BeginWrite \/ CheckCapacity \/ WakeUp \/ TimeOut \/ CountAndReturn
           \/ \E n \in Capacities : SetCapacity(n)
  <2>1. UNCHANGED <<mStatus, task, outcome, notified, polled>>
    BY <1>3 DEF BeginWrite, CheckCapacity, WakeUp, TimeOut, CountAndReturn, SetCapacity
  <2>. QED
    BY <2>1, SamePages DEF Stage, Result, Told
<1>. QED
  BY <1>1, <1>2, <1>3 DEF WriteStep

\* A worker completes its task, tells the notifiers, and lets the entry go
\* only after somebody was told.
LEMMA WorkerMaps ==
    ASSUME LInv, NEW w \in Workers, WorkerStep(w)
    PROVE  [Ledger!Next]_Ledger!vars
<1>. USE QueueAssumption DEF LInv, Inv, registry, client, workers, pollers
<1>. DEFINE Same(u) == Stage(u)' = Stage(u) /\ Result(u)' = Result(u) /\ Told(u)' = Told(u)
<1>1. ASSUME NEW u \in Tasks, StartTask(w, u) PROVE \A v \in Tasks : Same(v)
  BY <1>1 DEF StartTask, Stage, Result, Told, TypeOK
<1>2. ASSUME NEW s \in Final, EndWrite(w, s) PROVE \A v \in Tasks : Same(v)
  <2>1. PICK t \in Tasks : t = wtask[w] /\ mStatus[t] = "PENDING"
    BY <1>2 DEF EndWrite, WorkerOK, RegistryOK
  <2>2. outcome' = [outcome EXCEPT ![t] = s] /\ UNCHANGED <<mStatus, task, notified, polled>>
    BY <1>2, <2>1 DEF EndWrite
  <2>. QED
    BY <2>1, <2>2 DEF Stage, Result, Told, TypeOK, Final
<1>3. CASE SetFinal(w)
  <2>1. PICK t \in Tasks : t = wtask[w] /\ mStatus[t] = "PENDING" /\ outcome[t] \in Final
    BY <1>3 DEF SetFinal, WorkerOK, RegistryOK, KnownOK
  <2>2. mStatus' = [mStatus EXCEPT ![t] = outcome[t]] /\ UNCHANGED <<task, outcome, notified, polled>>
    BY <1>3, <2>1 DEF SetFinal
  <2>3. \A u \in Tasks \ {t} : Same(u)
    BY <2>1, <2>2 DEF Stage, Result, Told, TypeOK
  <2>4. mStatus'[t] = outcome[t] /\ outcome[t] # "PENDING"
    BY <2>1, <2>2 DEF TypeOK, Final
  <2>5. Stage(t) = "pending" /\ Stage(t)' = "done" /\ Told(t)' = Told(t)
    BY <2>1, <2>2, <2>4 DEF Stage, Told, Final
  <2>6. Result(t)' \in Final
    BY <2>1, <2>4 DEF Result, Final
  <2>. QED
    BY <2>1, <2>3, <2>5, <2>6, LedgerStep
<1>4. CASE CallNotifier(w) \/ NotifierThrows(w)
  <2>1. PICK t \in Tasks :
        /\ t = wtask[w] /\ mStatus[t] # "PENDING" /\ outcome[t] \in Final
        /\ task[t] = "running" /\ (mStatus[t] \in Final => mStatus[t] = outcome[t])
    BY <1>4 DEF CallNotifier, NotifierThrows, WorkerOK, RegistryOK, KnownOK, StatusOK
  <2>2. /\ notified' = [notified EXCEPT ![t] = @ \cup {outcome[t]}]
        /\ task' = task \/ task' = [task EXCEPT ![t] = "dropped"]
        /\ UNCHANGED <<mStatus, outcome, polled>>
    BY <1>4, <2>1 DEF CallNotifier, NotifierThrows
  <2>3. \A u \in Tasks \ {t} : Same(u)
    BY <2>1, <2>2 DEF Stage, Result, Told, TypeOK
  <2>4. Stage(t) \in {"done", "gone"} /\ Result(t) = outcome[t]
    BY <2>1 DEF Stage, Result, TypeOK, Status
  <2>5. task'[t] # "none"
    BY <2>1, <2>2 DEF TypeOK
  <2>6. Stage(t)' = Stage(t) /\ Result(t)' = Result(t)
    BY <2>1, <2>2, <2>5 DEF Stage, Result
  <2>7. Told(t)' = Told(t) \cup {Result(t)}
    BY <2>1, <2>2, <2>4 DEF Told, TypeOK
  <2>. QED
    BY <2>1, <2>3, <2>4, <2>6, <2>7, LedgerStep
<1>5. CASE EraseStatus(w)
  <2>1. PICK t \in Tasks :
        /\ t = wtask[w] /\ mStatus[t] # "PENDING" /\ outcome[t] \in notified[t]
        /\ task[t] = "running" /\ (mStatus[t] \in Final => mStatus[t] = outcome[t])
    BY <1>5 DEF EraseStatus, WorkerOK, RegistryOK, KnownOK, StatusOK
  <2>2. mStatus' = [mStatus EXCEPT ![t] = "UNKNOWN"] /\ UNCHANGED <<task, outcome, notified, polled>>
    BY <1>5, <2>1 DEF EraseStatus
  <2>3. \A u \in Tasks \ {t} : Same(u)
    BY <2>1, <2>2 DEF Stage, Result, Told, TypeOK
  <2>4. mStatus'[t] = "UNKNOWN"
    BY <2>1, <2>2 DEF TypeOK
  <2>5. Stage(t)' = "gone" /\ Result(t)' = outcome[t] /\ Told(t)' = Told(t) /\ Told(t) # {}
    BY <2>1, <2>2, <2>4 DEF Stage, Result, Told, Final
  <2>6. CASE mStatus[t] \in Final
    <3>1. Stage(t) = "done" /\ Result(t) = outcome[t]
      BY <2>1, <2>6 DEF Stage, Result
    <3>. QED
      BY <2>1, <2>3, <2>5, <3>1, LedgerStep
  <2>7. CASE mStatus[t] \notin Final
    <3>1. Stage(t) = "gone" /\ Result(t) = outcome[t]
      BY <2>1, <2>7 DEF Stage, Result, TypeOK, Status
    <3>. QED
      BY <2>3, <2>5, <3>1, SamePages
  <2>. QED
    BY <2>6, <2>7
<1>6. CASE LockNotifiers(w) \/ UnlockNotifiers(w)
  <2>. QED
    BY <1>6, SamePages DEF LockNotifiers, UnlockNotifiers, Stage, Result, Told
<1>7. CASE Uncount(w)
  <2>1. PICK t \in Tasks : t = wtask[w] /\ task[t] = "running"
    BY <1>7 DEF Uncount, WorkerOK
  <2>2. task' = [task EXCEPT ![t] = "finished"] /\ UNCHANGED <<mStatus, outcome, notified, polled>>
    BY <1>7, <2>1 DEF Uncount
  <2>3. \A u \in Tasks : Same(u)
    BY <2>1, <2>2 DEF Stage, Result, Told, TypeOK
  <2>. QED
    BY <2>3, SamePages
<1>. QED
  BY <1>1, <1>2, <1>3, <1>4, <1>5, <1>6, <1>7, SamePages DEF WorkerStep

\* status() tells and lets the entry go; of two that found the entry the
\* later one lets nothing go.
LEMMA PollerMaps ==
    ASSUME LInv, NEW q \in Pollers, PollerStep(q)
    PROVE  [Ledger!Next]_Ledger!vars
<1>. USE QueueAssumption DEF LInv, Inv, registry, client, workers, pollers
<1>. DEFINE Same(u) == Stage(u)' = Stage(u) /\ Result(u)' = Result(u) /\ Told(u)' = Told(u)
<1>1. ASSUME NEW t \in Tasks, PollFind(q, t) PROVE Ledger!Next
  <2>1. /\ mStatus[t] \in Final
        /\ polled' = [polled EXCEPT ![t] = @ \cup {mStatus[t]}]
        /\ UNCHANGED <<mStatus, task, outcome, notified>>
    BY <1>1 DEF PollFind
  <2>2. \A u \in Tasks \ {t} : Same(u)
    BY <2>1 DEF Stage, Result, Told, TypeOK
  <2>3. Stage(t) = "done" /\ Result(t) = mStatus[t]
    BY <2>1 DEF Stage, Result, Final
  <2>4. Stage(t)' = Stage(t) /\ Result(t)' = Result(t)
    BY <2>1 DEF Stage, Result
  <2>5. Told(t)' = Told(t) \cup {Result(t)}
    BY <2>1, <2>3 DEF Told, TypeOK
  <2>. QED
    BY <2>2, <2>3, <2>4, <2>5, LedgerStep
<1>2. CASE PollErase(q)
  <2>1. PICK t \in Tasks :
        /\ t = rid[q] /\ mStatus[t] # "PENDING" /\ outcome[t] \in polled[t]
        /\ task[t] # "none" /\ (mStatus[t] \in Final => mStatus[t] = outcome[t])
    BY <1>2 DEF PollErase, RegistryOK, StatusOK
  <2>2. mStatus' = [mStatus EXCEPT ![t] = "UNKNOWN"] /\ UNCHANGED <<task, outcome, notified, polled>>
    BY <1>2, <2>1 DEF PollErase
  <2>3. \A u \in Tasks \ {t} : Same(u)
    BY <2>1, <2>2 DEF Stage, Result, Told, TypeOK
  <2>4. mStatus'[t] = "UNKNOWN"
    BY <2>1, <2>2 DEF TypeOK
  <2>5. Stage(t)' = "gone" /\ Result(t)' = outcome[t] /\ Told(t)' = Told(t) /\ Told(t) # {}
    BY <2>1, <2>2, <2>4 DEF Stage, Result, Told, Final
  <2>6. CASE mStatus[t] \in Final
    <3>1. Stage(t) = "done" /\ Result(t) = outcome[t]
      BY <2>1, <2>6 DEF Stage, Result
    <3>. QED
      BY <2>1, <2>3, <2>5, <3>1, LedgerStep
  <2>7. CASE mStatus[t] \notin Final
    <3>1. Stage(t) = "gone" /\ Result(t) = outcome[t]
      BY <2>1, <2>7 DEF Stage, Result, TypeOK, Status
    <3>. QED
      BY <2>3, <2>5, <3>1, SamePages
  <2>. QED
    BY <2>6, <2>7
<1>. QED
  BY <1>1, <1>2 DEF PollerStep

-----------------------------------------------------------------------------

\* Whatever workers, notifiers and status() calls do and in whichever order:
\* a task is accepted and completed once, its result is kept until somebody
\* was told, all who are told are told the same, and what was forgotten does
\* not come back.
THEOREM QueueKeepsLedger == Spec => Ledger!Init /\ [][Ledger!Next]_Ledger!vars
<1>1. Init => Ledger!Init
  BY QueueAssumption DEF Init, Ledger!Init, Final, Tasks
<1>2. LInv /\ [Next]_vars => [Ledger!Next]_Ledger!vars
  <2>. SUFFICES ASSUME LInv, [Next]_vars PROVE [Ledger!Next]_Ledger!vars
    OBVIOUS
  <2>1. CASE NotifierStep \/ BeginDestroy \/ FinishDestroy \/ Finished \/ UNCHANGED vars
    <3>1. UNCHANGED <<mStatus, task, outcome, notified, polled>>
      BY <2>1 DEF NotifierStep, AddNotifier, RemoveNotifier, ClearNotifiers, BeginDestroy,
          FinishDestroy, Finished, vars, registry, client, workers, pollers
    <3>. QED
      BY <3>1, SamePages DEF Stage, Result, Told
  <2>. QED
    BY <2>1, ClientMaps, WorkerMaps, PollerMaps DEF Next
<1>. QED
  BY <1>1, <1>2, AlwaysLInv, PTL DEF Spec
=============================================================================
