----------------------------- MODULE PointValues -----------------------------
(***************************************************************************)
(* What the attributes of points promise their users: every leaf's         *)
(* attribute set has values of its own, and a call that returns has done   *)
(* to the values of its set what it says, all at once.  Sharing arrays,    *)
(* copying them when one set writes, delayed loading and compaction are    *)
(* not to be seen.                                                         *)
(***************************************************************************)
EXTENDS Integers

CONSTANTS
    Threads,
    Sets,      \* attribute sets, one per leaf
    Size,      \* elements of an attribute
    Values,
    Calls,     \* records of an operation, a set, an element and a value
    None       \* "no values": the leaf does not exist or is being read; "no call"

Elements == 1..Size

Rows == [Elements -> Values]

VARIABLES
    content,   \* the values of an attribute, by set
    call,      \* the call each thread is executing
    failures   \* the calls that threw

vars == <<content, call, failures>>

Init ==
    /\ content = [s \in Sets |-> None]
    /\ call = [th \in Threads |-> None]
    /\ failures = 0

\* What a call makes of the values of its set.
Effect(c, row) ==
    CASE c.op = "set" -> [row EXCEPT ![c.element] = c.value]
      [] c.op \in {"fill", "collapse"} -> [e \in Elements |-> c.value]
      [] c.op \in {"get", "expand", "compact"} -> row

Begin(th, c) ==
    /\ call[th] = None /\ content[c.set] # None
    /\ call' = [call EXCEPT ![th] = c]
    /\ UNCHANGED <<content, failures>>

Finish(th) ==
    /\ call[th] # None
    /\ content' = [content EXCEPT ![call[th].set] = Effect(call[th], @)]
    /\ call' = [call EXCEPT ![th] = None]
    /\ UNCHANGED failures

Fail(th) ==
    /\ call[th] # None
    /\ call' = [call EXCEPT ![th] = None]
    /\ failures' = failures + 1
    /\ UNCHANGED content

\* A new leaf, or one that has been read.
Appear(s, row) ==
    /\ content[s] = None
    /\ content' = [content EXCEPT ![s] = row]
    /\ UNCHANGED <<call, failures>>

CopyOf(s, t) ==
    /\ content' = [content EXCEPT ![s] = content[t]]
    /\ UNCHANGED <<call, failures>>

Vanish(s) ==
    /\ content' = [content EXCEPT ![s] = None]
    /\ UNCHANGED <<call, failures>>

Next ==
    \/ \E th \in Threads : (\E c \in Calls : Begin(th, c)) \/ Finish(th) \/ Fail(th)
    \/ \E s \in Sets :
        \/ \E row \in Rows : Appear(s, row)
        \/ \E t \in Sets : CopyOf(s, t)
        \/ Vanish(s)

Spec == Init /\ [][Next]_vars
=============================================================================
