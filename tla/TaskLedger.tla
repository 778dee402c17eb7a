----------------------------- MODULE TaskLedger -----------------------------
(***************************************************************************)
(* What io::Queue promises its clients about each task (io/Queue.h): a     *)
(* task that is accepted is run, once; its result is kept until somebody   *)
(* has been told; everybody who is told is told the same; a result that    *)
(* was forgotten does not come back.                                       *)
(***************************************************************************)
CONSTANTS Tasks, Final, None

VARIABLES
    stage,      \* "new", "pending", "done" (result on file), "gone"
    result,     \* how the task ended
    told        \* the results given out, to notifiers or to status() calls

vars == <<stage, result, told>>

Init ==
    /\ stage = [t \in Tasks |-> "new"]
    /\ result = [t \in Tasks |-> None]
    /\ told = [t \in Tasks |-> {}]

Accept(t) ==
    /\ stage[t] = "new"
    /\ stage' = [stage EXCEPT ![t] = "pending"]
    /\ UNCHANGED <<result, told>>

Complete(t, s) ==
    /\ stage[t] = "pending"
    /\ stage' = [stage EXCEPT ![t] = "done"]
    /\ result' = [result EXCEPT ![t] = s]
    /\ UNCHANGED told

Tell(t) ==
    /\ stage[t] \in {"done", "gone"}
    /\ told' = [told EXCEPT ![t] = @ \cup {result[t]}]
    /\ UNCHANGED <<stage, result>>

Forget(t) ==
    /\ stage[t] = "done" /\ told[t] # {}
    /\ stage' = [stage EXCEPT ![t] = "gone"]
    /\ UNCHANGED <<result, told>>

Next ==
    \E t \in Tasks :
        Accept(t) \/ (\E s \in Final : Complete(t, s)) \/ Tell(t) \/ Forget(t)

Spec ==
    /\ Init /\ [][Next]_vars
    /\ \A t \in Tasks : WF_vars(\E s \in Final : Complete(t, s))
=============================================================================
