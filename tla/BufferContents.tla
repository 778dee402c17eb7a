--------------------------- MODULE BufferContents ---------------------------
(***************************************************************************)
(* What tree::LeafBuffer promises its users: a buffer has a content, which *)
(* changes only when a call that changes it ends, all at once.  That the   *)
(* content may still be in a file, and that some thread reads it from      *)
(* there, is not to be seen.                                               *)
(***************************************************************************)
CONSTANTS Threads, Buffers, Values, Garbage, Unallocated, None

VARIABLES
    content,   \* by buffer; None: there is no such buffer, or a copy is being made into it
    current    \* the call each thread is in

vars == <<content, current>>

Copies(c) == c.op \in {"assign", "construct"}

\* buf is the buffer read, dst the one that is written.
Calls ==
    {c \in [op : {"at", "data", "set", "assign", "construct"},
            buf : Buffers, dst : Buffers \cup {None}, arg : Values] :
        /\ c.op \in {"at", "data"} => c.dst = None
        /\ c.op = "set" => c.dst = c.buf
        /\ Copies(c) => c.dst \in Buffers \ {c.buf}}

\* A buffer without an array ignores what is written.
Overwritten(c, v) == IF c = Unallocated THEN c ELSE v

Unused(b) ==
    \A th \in Threads : current[th] # None => b \notin {current[th].buf, current[th].dst}

Init ==
    /\ content = [b \in Buffers |-> None]
    /\ current = [th \in Threads |-> None]

\* The target of a copy has no content until the copy is there.
Begin(th, c) ==
    /\ current[th] = None /\ content[c.buf] # None
    /\ Copies(c) => Unused(c.dst) /\ (content[c.dst] = None <=> c.op = "construct")
    /\ current' = [current EXCEPT ![th] = c]
    /\ content' = IF Copies(c) THEN [content EXCEPT ![c.dst] = None] ELSE content

Return(th) ==
    /\ current[th] # None
    /\ current' = [current EXCEPT ![th] = None]

\* The pointer data() returns needs an array: without one there is a new one,
\* that nobody has written.
Finish(th) ==
    LET c == current[th]
    IN  /\ Return(th)
        /\ CASE c.op = "at" -> UNCHANGED content
             [] c.op = "data" ->
                  content' = [content EXCEPT ![c.buf] = IF @ = Unallocated THEN Garbage ELSE @]
             [] c.op = "set" ->
                  content' = [content EXCEPT ![c.buf] = Overwritten(@, c.arg)]
             [] Copies(c) -> content' = [content EXCEPT ![c.dst] = content[c.buf]]

\* A call that reads the file may throw, without effect on the content.
Throw(th) ==
    /\ Return(th) /\ ~Copies(current[th])
    /\ UNCHANGED content

-----------------------------------------------------------------------------
(* Operations that have their buffers for themselves                       *)

\* Construction, with an array or without.
Appear(b, v) ==
    /\ content[b] = None /\ Unused(b)
    /\ content' = [content EXCEPT ![b] = v]
    /\ UNCHANGED current

Vanish(b) ==
    /\ content[b] # None /\ Unused(b)
    /\ content' = [content EXCEPT ![b] = None]
    /\ UNCHANGED current

Fill(b, v) ==
    /\ content[b] # None /\ Unused(b)
    /\ content' = [content EXCEPT ![b] = Overwritten(@, v)]
    /\ UNCHANGED current

\* allocate(), or reading the leaf from a file.
Allocate(b, v) ==
    /\ content[b] = Unallocated /\ Unused(b)
    /\ content' = [content EXCEPT ![b] = v]
    /\ UNCHANGED current

Swap(b, c) ==
    /\ None \notin {content[b], content[c]} /\ Unused(b) /\ Unused(c)
    /\ content' = [content EXCEPT ![b] = content[c], ![c] = content[b]]
    /\ UNCHANGED current

Next ==
    \/ \E th \in Threads : (\E c \in Calls : Begin(th, c)) \/ Finish(th) \/ Throw(th)
    \/ \E b \in Buffers :
        \/ \E v \in Values \cup {Garbage, Unallocated} : Appear(b, v)
        \/ \E v \in Values : Fill(b, v)
        \/ \E v \in Values \cup {Garbage} : Allocate(b, v)
        \/ Vanish(b)
        \/ \E c \in Buffers : Swap(b, c)

Spec == Init /\ [][Next]_vars
=============================================================================
