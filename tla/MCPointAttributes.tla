------------------------- MODULE MCPointAttributes -------------------------
(* Threads, leaves and places on the heap are interchangeable. *)
EXTENDS PointAttributes, TLC

Symmetry == Permutations(Threads) \cup Permutations(Sets) \cup Permutations(Arrays)

Own == CHOOSE home \in [Sets -> Arrays] : \A s, t \in Sets : home[s] = home[t] => s = t
Common == CHOOSE home \in [Sets -> Arrays] : \A s, t \in Sets : home[s] = home[t]

\* Leaves that were read from one page of a memory-mapped file; they may
\* share an array, as those of a copied grid do.
InitRead ==
    \E home \in {Own, Common}, p \in Pages :
        /\ mAttrs = home
        /\ array = [a \in Arrays |->
                       IF Holders(a) = {} THEN Unused
                       ELSE [Created EXCEPT !.mOutOfCore = TRUE, !.mData = None,
                                            !.mPageHandle = [page |-> p, slice |-> Uniform(Zero)]]]
        /\ page = [q \in Pages |-> [mInfo |-> "file", mData |-> "null"]]
        /\ mMutex = [a \in Arrays |-> None]
        /\ pageMutex = [q \in Pages |-> None]
        /\ pc = [th \in Threads |-> "idle"]
        /\ call = [th \in Threads |-> None]
        /\ at = [th \in Threads |-> None]
        /\ new = [th \in Threads |-> None]
        /\ failures = 0
        /\ wild = FALSE

\* From then on they are read and written.
SpecRead == InitRead /\ [][\E th \in Threads : BeginStep(th) \/ Step(th)]_vars /\ Fairness
=============================================================================
