------------------------- MODULE TreeAccessorProofs -------------------------
(***************************************************************************)
(* Proofs that the registries and the caches of TreeAccessor are right,    *)
(* for any number of trees, accessors and nodes.  TInv is inductive        *)
(* whatever callers do: a registry holds the accessors of its tree, and a  *)
(* cached key is that of the cached node's region, also where the node has *)
(* moved to another tree.  IInv, that caches are on the path from the      *)
(* root, is inductive as long as callers delete no node that an accessor   *)
(* caches: what a tree clears is what its registry holds, and an accessor  *)
(* that is not cleared caches nodes of other trees only.                   *)
(***************************************************************************)
EXTENDS TreeAccessor, TLAPS

IInv == TypeOK /\ RegistryExact /\ CachedOnPath

\* CachedOnPath of one accessor.
OnPath(r, ns) ==
  /\ (r.node0 = None) = (r.key0 = None)
  /\ (r.node1 = None) = (r.key1 = None)
  /\ r.node0 # None => r.node0 = Leaf(r.tree, r.key0) /\ r.node0 \in ns
  /\ r.node1 # None => r.node1 = <<r.tree, r.key1>> /\ r.node1 \in ns

LEMMA PathEach == CachedOnPath <=> \A a \in Accessors: Born(a) => OnPath(acc[a], nodes)
BY DEF CachedOnPath, OnPath

\* Places are tuples of two kinds, and no pointer is one.
LEMMA InternalPlace ==
  ASSUME NEW p \in Internals
  PROVE  p[1] \in Trees /\ p[2] \in Keys /\ p = <<p[1], p[2]>>
BY DEF Internals

LEMMA CoordPair ==
  ASSUME NEW c \in Coords
  PROVE  c[1] \in Keys /\ c[2] \in Slots /\ c = <<c[1], c[2]>>
BY AccessorAssumption DEF AccessorAssumption

LEMMA LeafPlace ==
  ASSUME NEW p \in Leaves
  PROVE  /\ p[1] \in Trees /\ p = <<p[1], p[2], p[3]>>
         /\ <<p[2], p[3]>> \in Coords /\ p[2] \in Keys
<1> PICK t \in Trees, c \in Coords: p = <<t, c[1], c[2]>>  BY DEF Leaves
<1> QED  BY CoordPair

LEMMA Apart == \A p \in Internals: p \notin Leaves
<1> SUFFICES ASSUME NEW p \in Internals, p \in Leaves PROVE FALSE  OBVIOUS
<1>1. p = <<p[1], p[2]>>  BY InternalPlace
<1>2. p = <<p[1], p[2], p[3]>>  BY LeafPlace
<1>3. DOMAIN p = 1..2  BY <1>1
<1>4. DOMAIN p = 1..3  BY <1>2
<1> QED  BY <1>3, <1>4

LEMMA NoneApart == None \notin Trees \cup Keys \cup Coords \cup Internals \cup Leaves
BY AccessorAssumption DEF AccessorAssumption, Places

LEMMA LeafOf ==
  ASSUME NEW t \in Trees, NEW c \in Coords
  PROVE  /\ Leaf(t, c) \in Leaves /\ Internal(t, c) \in Internals
         /\ Under(Internal(t, c), c) = Leaf(t, c)
BY CoordPair DEF Leaf, Leaves, Internal, Internals, Under

-----------------------------------------------------------------------------
(* What keeps a cache on its path.                                         *)

LEMMA ClearedPath ==
  ASSUME NEW t \in Trees \cup {None}, NEW ns
  PROVE  Fresh(t) \in Accessor /\ Fresh(t).tree = t /\ OnPath(Fresh(t), ns)
BY DEF Fresh, Accessor, Pointers, OnPath

LEMMA Insert1Path ==
  ASSUME NEW r \in Accessor, NEW ns, NEW c \in Coords, r.tree \in Trees, OnPath(r, ns),
         Internal(r.tree, c) \in ns
  PROVE  LET n == Insert1(r, c, Internal(r.tree, c))
         IN n \in Accessor /\ n.tree = r.tree /\ n.key1 = c[1] /\ OnPath(n, ns)
<1> DEFINE p == Internal(r.tree, c)
           n == Insert1(r, c, p)
<1>1. p \in Internals /\ c[1] \in Keys  BY LeafOf, CoordPair
<1>2. /\ n \in Accessor /\ n.tree = r.tree /\ n.key1 = c[1] /\ n.node1 = p
      /\ n.key0 = r.key0 /\ n.node0 = r.node0
  BY <1>1 DEF Insert1, Accessor
<1>3. p # None /\ c[1] # None  BY <1>1, NoneApart
<1>4. p = <<r.tree, c[1]>>  BY DEF Internal
<1> HIDE DEF p, n
<1>5. OnPath(n, ns)  BY <1>2, <1>3, <1>4 DEF OnPath, p
<1> QED  BY <1>2, <1>5 DEF p, n

LEMMA Insert0Path ==
  ASSUME NEW r \in Accessor, NEW ns, NEW c \in Coords, r.tree \in Trees, OnPath(r, ns),
         Leaf(r.tree, c) \in ns
  PROVE  LET n == Insert0(r, c, Leaf(r.tree, c))
         IN n \in Accessor /\ n.tree = r.tree /\ OnPath(n, ns)
<1> DEFINE p == Leaf(r.tree, c)
           n == Insert0(r, c, p)
<1>1. p \in Leaves  BY LeafOf
<1>2. /\ n \in Accessor /\ n.tree = r.tree /\ n.key0 = c /\ n.node0 = p
      /\ n.key1 = r.key1 /\ n.node1 = r.node1
  BY <1>1 DEF Insert0, Accessor
<1>3. p # None /\ c # None  BY <1>1, NoneApart
<1> HIDE DEF n
<1>4. OnPath(n, ns)  BY <1>2, <1>3 DEF OnPath
<1> QED  BY <1>2, <1>4 DEF n

\* A cached internal node that covers c is the one a descent finds.
LEMMA Hashed1 ==
  ASSUME NEW r \in Accessor, NEW ns, NEW c \in Coords, OnPath(r, ns), IsHashed1(r, c)
  PROVE  r.node1 = Internal(r.tree, c) /\ r.node1 \in ns
<1>1. c[1] # None  BY CoordPair, NoneApart
<1> QED  BY <1>1 DEF OnPath, IsHashed1, Internal

LEMMA Descended0Path ==
  ASSUME NEW r \in Accessor, NEW ns, NEW c \in Coords, r.tree \in Trees, OnPath(r, ns)
  PROVE  LET n == Descended0(r, c, Leaf(r.tree, c), ns)
         IN n \in Accessor /\ n.tree = r.tree /\ OnPath(n, ns)
BY Insert0Path DEF Descended0

LEMMA Descended1Path ==
  ASSUME NEW r \in Accessor, NEW ns, NEW c \in Coords, r.tree \in Trees, OnPath(r, ns)
  PROVE  LET n == Descended1(r, c, Internal(r.tree, c), ns)
         IN n \in Accessor /\ n.tree = r.tree /\ OnPath(n, ns)
<1> DEFINE p == Internal(r.tree, c)
           m == Insert1(r, c, p)
<1>1. CASE p \notin ns  BY <1>1 DEF Descended1
<1>2. CASE p \in ns
  <2>1. m \in Accessor /\ m.tree = r.tree /\ OnPath(m, ns)  BY <1>2, Insert1Path
  <2>2. Under(p, c) = Leaf(m.tree, c)  BY <2>1, LeafOf
  <2>3. Descended1(r, c, p, ns) = Descended0(m, c, Leaf(m.tree, c), ns)
    BY <1>2, <2>2 DEF Descended1
  <2> HIDE DEF m
  <2> QED  BY <2>1, <2>3, Descended0Path
<1> QED  BY <1>1, <1>2

LEMMA AccessedPath ==
  ASSUME NEW r \in Accessor, NEW ns, NEW c \in Coords, r.tree \in Trees, OnPath(r, ns)
  PROVE  LET n == Accessed(r, c, ns)
         IN n \in Accessor /\ n.tree = r.tree /\ OnPath(n, ns)
<1>1. CASE IsHashed0(r, c)  BY <1>1 DEF Accessed
<1>2. CASE ~IsHashed0(r, c) /\ IsHashed1(r, c)
  <2>1. Under(r.node1, c) = Leaf(r.tree, c)  BY <1>2, Hashed1, LeafOf
  <2> QED  BY <1>2, <2>1, Descended0Path DEF Accessed
<1>3. CASE ~IsHashed0(r, c) /\ ~IsHashed1(r, c)
  BY <1>3, Descended1Path DEF Accessed
<1> QED  BY <1>1, <1>2, <1>3

-----------------------------------------------------------------------------
(* What a step has to show.                                                *)

LEMMA Kept ==
  ASSUME IInv, UNCHANGED <<alive, registry>>, tile' \in Places \cup {None},
         nodes' \subseteq Places, Closed(nodes'), \A p \in nodes': p[1] \in alive,
         acc' \in [Accessors -> Accessor \cup {Unborn}],
         \A a \in Accessors: /\ Born(a) <=> acc'[a] # Unborn
                             /\ Born(a) => acc'[a].tree = acc[a].tree /\ OnPath(acc'[a], nodes')
  PROVE  IInv'
<1>1. TypeOK'  BY DEF IInv, TypeOK
<1>2. \A a \in Accessors: Born(a)' <=> Born(a)  BY DEF Born
<1>3. RegistryExact'  BY <1>2 DEF IInv, RegistryExact
<1>4. \A a \in Accessors: Born(a)' => OnPath(acc'[a], nodes')  BY <1>2
<1>5. CachedOnPath'  BY <1>4 DEF CachedOnPath, OnPath
<1> QED  BY <1>1, <1>3, <1>5 DEF IInv

\* One accessor changes, and nodes are added.
LEMMA KeptByOne ==
  ASSUME IInv, UNCHANGED <<alive, registry>>, tile' \in Places \cup {None},
         nodes' \subseteq Places, Closed(nodes'), \A p \in nodes': p[1] \in alive,
         NEW a \in Accessors, Born(a), NEW r \in Accessor, r.tree = acc[a].tree, OnPath(r, nodes'),
         acc' = [acc EXCEPT ![a] = r],
         \A b \in Accessors: Born(b) => /\ acc[b].node0 \in nodes => acc[b].node0 \in nodes'
                                        /\ acc[b].node1 \in nodes => acc[b].node1 \in nodes'
  PROVE  IInv'
<1>1. acc \in [Accessors -> Accessor \cup {Unborn}]  BY DEF IInv, TypeOK
<1>2. ASSUME NEW b \in Accessors, Born(b)  PROVE OnPath(acc[b], nodes')
  <2>1. OnPath(acc[b], nodes)  BY <1>2, PathEach DEF IInv
  <2> QED  BY <1>2, <2>1 DEF OnPath
<1>3. r # Unborn  BY AccessorAssumption DEF AccessorAssumption
<1>4. acc' \in [Accessors -> Accessor \cup {Unborn}]  BY <1>1
<1>5. ASSUME NEW b \in Accessors
      PROVE  /\ Born(b) <=> acc'[b] # Unborn
             /\ Born(b) => acc'[b].tree = acc[b].tree /\ OnPath(acc'[b], nodes')
  <2>1. CASE b = a  BY <1>1, <1>3, <2>1
  <2>2. CASE b # a  BY <1>1, <1>2, <2>2 DEF Born
  <2> QED  BY <2>1, <2>2
<1> QED  BY <1>4, <1>5, Kept

\* No pointer leads to a node of that set: nothing to retarget.
LEMMA RetargetedSame ==
  ASSUME NEW accs \in [Accessors -> Accessor \cup {Unborn}], NEW fate,
         \A a \in Accessors: accs[a] # Unborn =>
           accs[a].node0 \notin DOMAIN fate /\ accs[a].node1 \notin DOMAIN fate
  PROVE  Retargeted(accs, fate) = accs
<1>1. ASSUME NEW a \in Accessors, accs[a] # Unborn
      PROVE  [accs[a] EXCEPT !.node0 = IF @ \in DOMAIN fate THEN fate[@] ELSE @,
                             !.node1 = IF @ \in DOMAIN fate THEN fate[@] ELSE @] = accs[a]
  <2>1. accs[a] \in Accessor  BY <1>1
  <2> QED  BY <1>1, <2>1 DEF Accessor
<1> QED  BY <1>1 DEF Retargeted

LEMMA AccType ==
  ASSUME IInv
  PROVE  /\ acc \in [Accessors -> Accessor \cup {Unborn}]
         /\ \A a \in Accessors: Born(a) => /\ acc[a] \in Accessor /\ OnPath(acc[a], nodes)
                                           /\ acc[a].tree \in Trees \cup {None}
<1>1. acc \in [Accessors -> Accessor \cup {Unborn}]  BY DEF IInv, TypeOK
<1>2. \A a \in Accessors: Born(a) => acc[a] \in Accessor  BY <1>1 DEF Born
<1>3. \A a \in Accessors: Born(a) => OnPath(acc[a], nodes)  BY PathEach DEF IInv
<1> QED  BY <1>1, <1>2, <1>3 DEF Accessor

LEMMA UsableTree ==
  ASSUME IInv, NEW a \in Accessors, NEW c \in Coords, Usable(a, c)
  PROVE  /\ Born(a) /\ acc[a] \in Accessor /\ OnPath(acc[a], nodes)
         /\ acc[a].tree \in Trees /\ acc[a].tree \in alive
<1>1. Born(a) /\ acc[a].tree # None  BY DEF Usable
<1> QED  BY <1>1, AccType DEF IInv, RegistryExact

\* Cached nodes are in the tree of the accessor.
LEMMA CachedTree ==
  ASSUME NEW r \in Accessor, NEW ns, OnPath(r, ns)
  PROVE  /\ r.node0 # None => r.node0[1] = r.tree
         /\ r.node1 # None => r.node1[1] = r.tree
BY DEF OnPath, Leaf

\* Clearing the accessors of a tree leaves pointers into other trees only.
LEMMA ClearedAllOK ==
  ASSUME IInv, NEW t \in Trees
  PROVE  /\ ClearedAll(t) \in [Accessors -> Accessor \cup {Unborn}]
         /\ \A a \in Accessors:
              /\ Born(a) <=> ClearedAll(t)[a] # Unborn
              /\ Born(a) => /\ ClearedAll(t)[a] \in Accessor
                            /\ ClearedAll(t)[a].tree = acc[a].tree
                            /\ OnPath(ClearedAll(t)[a], nodes)
                            /\ ClearedAll(t)[a] = IF acc[a].tree = t THEN Fresh(t) ELSE acc[a]
<1> DEFINE f == ClearedAll(t)
<1>1. \A a \in Accessors: a \in registry[t] <=> Born(a) /\ acc[a].tree = t
  BY DEF IInv, RegistryExact
<1>2. \A a \in Accessors: f[a] = IF Born(a) /\ acc[a].tree = t THEN Fresh(t) ELSE acc[a]
  BY <1>1 DEF ClearedAll, Cleared
<1>3. Fresh(t) \in Accessor /\ Fresh(t).tree = t /\ OnPath(Fresh(t), nodes) /\ Fresh(t) # Unborn
  BY ClearedPath, AccessorAssumption DEF AccessorAssumption
<1>4. f = [a \in Accessors |-> f[a]]  BY DEF ClearedAll
<1> HIDE DEF f
<1>5. ASSUME NEW a \in Accessors
      PROVE  /\ f[a] \in Accessor \cup {Unborn}
             /\ Born(a) <=> f[a] # Unborn
             /\ Born(a) => /\ f[a] \in Accessor /\ f[a].tree = acc[a].tree
                           /\ OnPath(f[a], nodes)
                           /\ f[a] = IF acc[a].tree = t THEN Fresh(t) ELSE acc[a]
  <2>1. CASE Born(a) /\ acc[a].tree = t  BY <1>2, <1>3, <2>1
  <2>2. CASE ~(Born(a) /\ acc[a].tree = t)
    <3>1. f[a] = acc[a]  BY <1>2, <2>2
    <3> QED  BY <2>2, <3>1, AccType DEF Born
  <2> QED  BY <2>1, <2>2
<1>6. f \in [Accessors -> Accessor \cup {Unborn}]  BY <1>4, <1>5
<1> QED  BY <1>5, <1>6 DEF f

\* What is done to the nodes of one tree does not touch the caches that are left.
LEMMA RebuiltPath ==
  ASSUME IInv, NEW t \in Trees, NEW a \in Accessors, Born(a), NEW fate,
         \A p \in DOMAIN fate: p \in Places /\ p[1] = t
  PROVE  /\ ClearedAll(t)[a].node0 \notin DOMAIN fate
         /\ ClearedAll(t)[a].node1 \notin DOMAIN fate
<1> DEFINE r == ClearedAll(t)[a]
<1>1. r \in Accessor /\ OnPath(r, nodes)
      /\ r = IF acc[a].tree = t THEN Fresh(t) ELSE acc[a]  BY ClearedAllOK
<1>2. CASE r.tree = t
  <2>1. r = Fresh(t)  BY <1>1, <1>2
  <2>2. r.node0 = None /\ r.node1 = None  BY <2>1 DEF Fresh
  <2> QED  BY <2>2, NoneApart DEF Places
<1>3. CASE r.tree # t
  BY <1>1, <1>3, CachedTree, NoneApart DEF Places
<1> QED  BY <1>2, <1>3

LEMMA KeptByTree ==
  ASSUME IInv, UNCHANGED <<alive, registry>>, tile' = None, NEW t \in Trees, NEW fate,
         \A p \in DOMAIN fate: p \in Places /\ p[1] = t,
         nodes' \subseteq Places, Closed(nodes'), \A p \in nodes': p[1] \in alive,
         \A p \in nodes: p[1] # t => p \in nodes',
         acc' = Retargeted(ClearedAll(t), fate)
  PROVE  IInv'
<1>1. ClearedAll(t) \in [Accessors -> Accessor \cup {Unborn}]  BY ClearedAllOK
<1>2. ASSUME NEW a \in Accessors, ClearedAll(t)[a] # Unborn
      PROVE  ClearedAll(t)[a].node0 \notin DOMAIN fate /\ ClearedAll(t)[a].node1 \notin DOMAIN fate
  BY <1>2, ClearedAllOK, RebuiltPath
<1>3. acc' = ClearedAll(t)  BY <1>1, <1>2, RetargetedSame
<1>4. ASSUME NEW a \in Accessors, Born(a)
      PROVE  OnPath(ClearedAll(t)[a], nodes')
  <2> DEFINE r == ClearedAll(t)[a]
  <2>1. r \in Accessor /\ OnPath(r, nodes)
        /\ r = IF acc[a].tree = t THEN Fresh(t) ELSE acc[a]  BY <1>4, ClearedAllOK
  <2>2. CASE acc[a].tree = t  BY <2>1, <2>2, ClearedPath
  <2>3. CASE acc[a].tree # t
    <3>1. r = acc[a]  BY <2>1, <2>3
    <3>2. /\ r.node0 \in nodes => r.node0 \in nodes'
          /\ r.node1 \in nodes => r.node1 \in nodes'
      <4>1. None \notin nodes  BY NoneApart DEF IInv, TypeOK, Places
      <4>2. /\ r.node0 # None => r.node0[1] # t
            /\ r.node1 # None => r.node1[1] # t
        BY <2>1, <2>3, <3>1, CachedTree
      <4> QED  BY <4>1, <4>2
    <3> HIDE DEF r
    <3>3. OnPath(r, nodes')  BY <2>1, <3>2 DEF OnPath
    <3> QED  BY <3>3 DEF r
  <2> QED  BY <2>2, <2>3
<1> QED  BY <1>1, <1>3, <1>4, ClearedAllOK, Kept

\* No accessor changes, and what they cache stays.
LEMMA KeptByAll ==
  ASSUME IInv, UNCHANGED <<alive, registry, acc>>, tile' \in Places \cup {None},
         nodes' \subseteq Places, Closed(nodes'), \A p \in nodes': p[1] \in alive,
         \A b \in Accessors: Born(b) => /\ acc[b].node0 \in nodes => acc[b].node0 \in nodes'
                                        /\ acc[b].node1 \in nodes => acc[b].node1 \in nodes'
  PROVE  IInv'
<1>1. ASSUME NEW b \in Accessors, Born(b)  PROVE OnPath(acc[b], nodes')
  <2>1. OnPath(acc[b], nodes)  BY <1>1, PathEach DEF IInv
  <2> QED  BY <1>1, <2>1 DEF OnPath
<1>2. acc' \in [Accessors -> Accessor \cup {Unborn}]  BY DEF IInv, TypeOK
<1> QED  BY <1>1, <1>2, Kept DEF Born

\* An accessor that comes, goes or changes its tree.
LEMMA KeptByMove ==
  ASSUME IInv, UNCHANGED <<alive, nodes>>, tile' = None, NEW a \in Accessors,
         NEW r \in Accessor \cup {Unborn}, acc' = [acc EXCEPT ![a] = r],
         r # Unborn => r.tree \in alive \cup {None} /\ OnPath(r, nodes),
         registry' \in [Trees -> SUBSET Accessors],
         \A t \in Trees: registry'[t] = IF r # Unborn /\ r.tree = t THEN registry[t] \cup {a}
                                                                  ELSE registry[t] \ {a}
  PROVE  IInv'
<1>1. acc \in [Accessors -> Accessor \cup {Unborn}]  BY DEF IInv, TypeOK
<1>2. acc' \in [Accessors -> Accessor \cup {Unborn}] /\ acc'[a] = r
      /\ \A b \in Accessors \ {a}: acc'[b] = acc[b]  BY <1>1
<1>3. TypeOK'  BY <1>2 DEF IInv, TypeOK, Closed
<1>4. RegistryExact'
  <2>1. ASSUME NEW t \in Trees  PROVE registry'[t] = {b \in Accessors: Born(b)' /\ acc'[b].tree = t}
    <3>1. registry[t] = {b \in Accessors: Born(b) /\ acc[b].tree = t}  BY DEF IInv, RegistryExact
    <3> QED  BY <1>2, <3>1 DEF Born
  <2>2. ASSUME NEW b \in Accessors, Born(b)'  PROVE acc'[b].tree \in alive' \cup {None}
    BY <1>2, <2>2 DEF IInv, RegistryExact, Born
  <2> QED  BY <2>1, <2>2 DEF RegistryExact
<1>5. \A b \in Accessors: Born(b)' => OnPath(acc'[b], nodes')
  BY <1>2, PathEach DEF IInv, Born
<1>6. CachedOnPath'  BY <1>5 DEF CachedOnPath, OnPath
<1> QED  BY <1>3, <1>4, <1>6 DEF IInv

-----------------------------------------------------------------------------
(* The steps.                                                              *)

LEMMA InitOK == Init => IInv
BY NoneApart DEF Init, IInv, TypeOK, Closed, RegistryExact, CachedOnPath, Born

LEMMA AttachedOK ==
  ASSUME TypeOK, RegistryExact, NEW a \in Accessors, ~Born(a), NEW t \in Trees \cup {None}
  PROVE  /\ Attached(a, t) \in [Trees -> SUBSET Accessors]
         /\ \A u \in Trees: Attached(a, t)[u] = IF t = u THEN registry[u] \cup {a} ELSE registry[u] \ {a}
<1>1. registry \in [Trees -> SUBSET Accessors]  BY DEF TypeOK
<1>2. \A u \in Trees: a \notin registry[u]  BY DEF RegistryExact
<1>3. CASE t = None  BY <1>1, <1>2, <1>3, NoneApart DEF Attached
<1>4. CASE t # None  BY <1>1, <1>2, <1>4 DEF Attached
<1> QED  BY <1>3, <1>4

LEMMA ConstructOK ==
  ASSUME IInv, NEW a \in Accessors, NEW t \in Trees, Construct(a, t)
  PROVE  IInv'
<1> DEFINE r == Fresh(t)
<1>1. r \in Accessor /\ r.tree = t /\ OnPath(r, nodes) /\ r # Unborn
  BY ClearedPath, AccessorAssumption DEF AccessorAssumption
<1>2. /\ registry' \in [Trees -> SUBSET Accessors]
      /\ \A u \in Trees: registry'[u] = IF t = u THEN registry[u] \cup {a} ELSE registry[u] \ {a}
  BY AttachedOK DEF Construct, IInv
<1>3. acc' = [acc EXCEPT ![a] = r] /\ UNCHANGED <<alive, nodes>> /\ tile' = None /\ t \in alive
  BY DEF Construct
<1> HIDE DEF r
<1> QED  BY <1>1, <1>2, <1>3, KeptByMove

LEMMA CopyConstructOK ==
  ASSUME IInv, NEW a \in Accessors, NEW b \in Accessors, CopyConstruct(a, b)
  PROVE  IInv'
<1> DEFINE r == acc[b]
<1>1. /\ acc' = [acc EXCEPT ![a] = r] /\ UNCHANGED <<alive, nodes>> /\ tile' = None
      /\ registry' = Attached(a, r.tree) /\ ~Born(a) /\ Born(b)
  BY DEF CopyConstruct
<1>2. r \in Accessor /\ OnPath(r, nodes) /\ r # Unborn /\ r.tree \in Trees \cup {None}
      /\ r.tree \in alive \cup {None}
  BY <1>1, AccType DEF IInv, RegistryExact, Born
<1>3. /\ registry' \in [Trees -> SUBSET Accessors]
      /\ \A u \in Trees: registry'[u] = IF r.tree = u THEN registry[u] \cup {a} ELSE registry[u] \ {a}
  BY <1>1, <1>2, AttachedOK DEF IInv
<1> HIDE DEF r
<1> QED  BY <1>1, <1>2, <1>3, KeptByMove

LEMMA AssignOK ==
  ASSUME IInv, NEW a \in Accessors, NEW b \in Accessors, Assign(a, b)
  PROVE  IInv'
<1> DEFINE r == acc[b]
<1>1. /\ acc' = [acc EXCEPT ![a] = r] /\ UNCHANGED <<alive, nodes>> /\ tile' = None
      /\ Born(a) /\ Born(b)
      /\ registry' = [t \in Trees |->
           (registry[t] \ {x \in {a}: acc[a].tree = t}) \cup {x \in {a}: r.tree = t}]
  BY DEF Assign
<1>2. r \in Accessor /\ OnPath(r, nodes) /\ r # Unborn /\ r.tree \in alive \cup {None}
  BY <1>1, AccType DEF IInv, RegistryExact, Born
<1>3. /\ registry \in [Trees -> SUBSET Accessors]
      /\ \A t \in Trees: a \in registry[t] <=> acc[a].tree = t
  BY <1>1 DEF IInv, TypeOK, RegistryExact
<1> HIDE DEF r
<1>4. /\ registry' \in [Trees -> SUBSET Accessors]
      /\ \A u \in Trees: registry'[u] = IF r.tree = u THEN registry[u] \cup {a} ELSE registry[u] \ {a}
  BY <1>1, <1>3
<1> QED  BY <1>1, <1>2, <1>4, KeptByMove

LEMMA DestroyOK ==
  ASSUME IInv, NEW a \in Accessors, Destroy(a)
  PROVE  IInv'
<1>1. /\ acc' = [acc EXCEPT ![a] = Unborn] /\ UNCHANGED <<alive, nodes>> /\ tile' = None
      /\ Born(a) /\ registry' = [t \in Trees |-> registry[t] \ {x \in {a}: acc[a].tree = t}]
  BY DEF Destroy
<1>2. /\ registry \in [Trees -> SUBSET Accessors]
      /\ \A t \in Trees: a \in registry[t] <=> acc[a].tree = t
  BY <1>1 DEF IInv, TypeOK, RegistryExact
<1>3. /\ registry' \in [Trees -> SUBSET Accessors]
      /\ \A u \in Trees: registry'[u] = registry[u] \ {a}
  BY <1>1, <1>2
<1> QED  BY <1>1, <1>3, KeptByMove

\* Calls that only read the tree.
LEMMA KeptByRead ==
  ASSUME IInv, NEW a \in Accessors, Born(a), NEW r \in Accessor, r.tree = acc[a].tree,
         OnPath(r, nodes), acc' = [acc EXCEPT ![a] = r], tile' = None,
         UNCHANGED <<nodes, alive, registry>>
  PROVE  IInv'
<1>1. nodes' \subseteq Places /\ Closed(nodes') /\ \A p \in nodes': p[1] \in alive
  BY DEF IInv, TypeOK
<1> QED  BY <1>1, KeptByOne

LEMMA ClearAccessorOK ==
  ASSUME IInv, NEW a \in Accessors, ClearAccessor(a)
  PROVE  IInv'
<1>1. Born(a) /\ acc' = [acc EXCEPT ![a] = Fresh(acc[a].tree)] /\ tile' = None
      /\ UNCHANGED <<nodes, alive, registry>>
  BY DEF ClearAccessor, Cleared
<1>2. acc[a].tree \in Trees \cup {None}  BY <1>1, AccType
<1> QED  BY <1>1, <1>2, ClearedPath, KeptByRead

LEMMA EraseNodeOK ==
  ASSUME IInv, NEW a \in Accessors, NEW level \in 0..1, EraseNode(a, level)
  PROVE  IInv'
<1> DEFINE r == IF level = 0 THEN [acc[a] EXCEPT !.key0 = None, !.node0 = None]
                ELSE [acc[a] EXCEPT !.key1 = None, !.node1 = None]
<1>1. Born(a) /\ acc' = [acc EXCEPT ![a] = r] /\ tile' = None
      /\ UNCHANGED <<nodes, alive, registry>>
  BY DEF EraseNode
<1>2. acc[a] \in Accessor /\ OnPath(acc[a], nodes)  BY <1>1, AccType
<1>3. r \in Accessor /\ r.tree = acc[a].tree  BY <1>2 DEF Accessor, Pointers
<1>4. OnPath(r, nodes)
  <2>1. CASE level = 0
    <3>1. r = [acc[a] EXCEPT !.key0 = None, !.node0 = None]  BY <2>1
    <3>2. /\ r.key0 = None /\ r.node0 = None /\ r.key1 = acc[a].key1 /\ r.node1 = acc[a].node1
      BY <1>2, <3>1 DEF Accessor
    <3> HIDE DEF r
    <3>3. OnPath(r, nodes)  BY <1>2, <1>3, <3>2 DEF OnPath
    <3> QED  BY <3>3 DEF r
  <2>2. CASE level # 0
    <3>1. r = [acc[a] EXCEPT !.key1 = None, !.node1 = None]  BY <2>2
    <3>2. /\ r.key1 = None /\ r.node1 = None /\ r.key0 = acc[a].key0 /\ r.node0 = acc[a].node0
      BY <1>2, <3>1 DEF Accessor
    <3> HIDE DEF r
    <3>3. OnPath(r, nodes)  BY <1>2, <1>3, <3>2 DEF OnPath
    <3> QED  BY <3>3 DEF r
  <2> QED  BY <2>1, <2>2
<1> HIDE DEF r
<1> QED  BY <1>1, <1>3, <1>4, KeptByRead

LEMMA ReadOK ==
  ASSUME IInv, NEW a \in Accessors, NEW c \in Coords, Read(a, c)
  PROVE  IInv'
<1>1. Usable(a, c) /\ acc' = [acc EXCEPT ![a] = Accessed(acc[a], c, nodes)] /\ tile' = None
      /\ UNCHANGED <<nodes, alive, registry>>
  BY DEF Read
<1>2. Born(a) /\ acc[a] \in Accessor /\ OnPath(acc[a], nodes) /\ acc[a].tree \in Trees
  BY <1>1, UsableTree
<1> QED  BY <1>1, <1>2, AccessedPath, KeptByRead

LEMMA ProbeNodeOK ==
  ASSUME IInv, NEW a \in Accessors, NEW c \in Coords, ProbeNode(a, c)
  PROVE  IInv'
<1> DEFINE p == Internal(acc[a].tree, c)
           r == IF ~IsHashed1(acc[a], c) /\ p \in nodes THEN Insert1(acc[a], c, p) ELSE acc[a]
<1>1. Usable(a, c) /\ acc' = [acc EXCEPT ![a] = r] /\ tile' = None
      /\ UNCHANGED <<nodes, alive, registry>>
  BY DEF ProbeNode
<1>2. Born(a) /\ acc[a] \in Accessor /\ OnPath(acc[a], nodes) /\ acc[a].tree \in Trees
  BY <1>1, UsableTree
<1>3. r \in Accessor /\ r.tree = acc[a].tree /\ OnPath(r, nodes)  BY <1>2, Insert1Path
<1> HIDE DEF r
<1> QED  BY <1>1, <1>2, <1>3, KeptByRead

\* The places on the way to a coordinate.
LEMMA Way ==
  ASSUME NEW t \in Trees, NEW c \in Coords
  PROVE  /\ Internal(t, c) \in Places /\ Internal(t, c)[1] = t /\ Internal(t, c) \notin Leaves
         /\ Leaf(t, c) \in Places /\ Leaf(t, c)[1] = t /\ Leaf(t, c) \notin Internals
         /\ Internal(t, c) = <<Leaf(t, c)[1], Leaf(t, c)[2]>>
<1>1. Internal(t, c) \in Internals /\ Leaf(t, c) \in Leaves  BY LeafOf
<1>2. Internal(t, c)[1] = t  BY DEF Internal
<1>3. Leaf(t, c)[1] = t /\ Internal(t, c) = <<Leaf(t, c)[1], Leaf(t, c)[2]>>  BY DEF Internal, Leaf
<1> QED  BY <1>1, <1>2, <1>3, Apart DEF Places

LEMMA WholeWay ==
  ASSUME NEW ns, Closed(ns), NEW t \in Trees, NEW c \in Coords
  PROVE  /\ Closed(ns \cup {Internal(t, c), Leaf(t, c)})
         /\ Internal(t, c) \in ns => Closed(ns \cup {Leaf(t, c)})
         /\ Closed(ns \cup {Internal(t, c)})
BY Way DEF Closed

LEMMA PathPlaces ==
  ASSUME IInv, NEW a \in Accessors, NEW c \in Coords, Usable(a, c)
  PROVE  /\ \A p \in Path(acc[a], c): p \in Places /\ p[1] = acc[a].tree
         /\ Closed(nodes \cup Path(acc[a], c))
<1> DEFINE r == acc[a]
<1>1. Born(a) /\ r \in Accessor /\ OnPath(r, nodes) /\ r.tree \in Trees  BY UsableTree
<1>2. Closed(nodes)  BY DEF IInv, TypeOK
<1>3. CASE IsHashed0(r, c)
  <2>1. Path(r, c) = {}  BY <1>3 DEF Path
  <2> QED  BY <1>2, <2>1 DEF Closed
<1>4. CASE ~IsHashed0(r, c) /\ IsHashed1(r, c)
  <2>1. r.node1 = Internal(r.tree, c) /\ r.node1 \in nodes  BY <1>1, <1>4, Hashed1
  <2>2. Path(r, c) = {Leaf(r.tree, c)}  BY <1>1, <1>4, <2>1, LeafOf DEF Path
  <2> QED  BY <1>1, <1>2, <2>1, <2>2, Way, WholeWay
<1>5. CASE ~IsHashed0(r, c) /\ ~IsHashed1(r, c)
  <2>1. Path(r, c) = {Internal(r.tree, c), Leaf(r.tree, c)}  BY <1>5 DEF Path
  <2> QED  BY <1>1, <1>2, <2>1, Way, WholeWay
<1> QED  BY <1>3, <1>4, <1>5

\* Nodes are added on the way to c, and the accessor descends to them.
LEMMA KeptByDescent ==
  ASSUME IInv, NEW a \in Accessors, NEW c \in Coords, Usable(a, c),
         NEW new \in SUBSET Path(acc[a], c), Closed(nodes \cup new), nodes' = nodes \cup new,
         acc' = [acc EXCEPT ![a] = Accessed(acc[a], c, nodes')], tile' = None,
         UNCHANGED <<alive, registry>>
  PROVE  IInv'
<1>1. Born(a) /\ acc[a] \in Accessor /\ OnPath(acc[a], nodes) /\ acc[a].tree \in Trees
      /\ acc[a].tree \in alive
  BY UsableTree
<1>2. \A p \in new: p \in Places /\ p[1] = acc[a].tree  BY PathPlaces
<1>3. nodes' \subseteq Places /\ Closed(nodes') /\ \A p \in nodes': p[1] \in alive
  BY <1>1, <1>2 DEF IInv, TypeOK
<1>4. OnPath(acc[a], nodes')  BY <1>1 DEF OnPath
<1> DEFINE r == Accessed(acc[a], c, nodes')
<1>5. r \in Accessor /\ r.tree = acc[a].tree /\ OnPath(r, nodes')  BY <1>1, <1>4, AccessedPath
<1>6. acc' = [acc EXCEPT ![a] = r]  OBVIOUS
<1> HIDE DEF r
<1> QED  BY <1>1, <1>3, <1>5, <1>6, KeptByOne

LEMMA WriteOK ==
  ASSUME IInv, NEW a \in Accessors, NEW c \in Coords, Write(a, c)
  PROVE  IInv'
BY KeptByDescent DEF Write, Writable

LEMMA TouchLeafOK ==
  ASSUME IInv, NEW a \in Accessors, NEW c \in Coords, TouchLeaf(a, c)
  PROVE  IInv'
<1>1. Usable(a, c)  BY DEF TouchLeaf, Writable
<1>2. Closed(nodes \cup Path(acc[a], c))  BY <1>1, PathPlaces
<1> QED  BY <1>1, <1>2, KeptByDescent DEF TouchLeaf

-----------------------------------------------------------------------------
(* Deletions that callers answer for.                                      *)

LEMMA Uncached ==
  ASSUME Careful, IInv, NEW gone, MayDelete(gone), NEW a \in Accessors, Born(a)
  PROVE  acc[a].node0 \notin gone /\ acc[a].node1 \notin gone
BY DEF MayDelete, Caches

\* What KeptByOne and KeptByAll ask of such a deletion.
LEMMA KeptByDelete ==
  ASSUME Careful, IInv, UNCHANGED <<alive, registry>>, tile' \in Places \cup {None},
         NEW gone, MayDelete(gone), NEW new,
         \A p \in new: p \in Places /\ p[1] \in alive,
         nodes' = (nodes \ gone) \cup new, Closed(nodes'),
         \/ acc' = Retargeted(acc, Deleted(gone))
         \/ \E a \in Accessors, r \in Accessor:
              /\ Born(a) /\ r.tree = acc[a].tree /\ OnPath(r, nodes')
              /\ r.node0 \notin gone /\ r.node1 \notin gone
              /\ acc' = Retargeted([acc EXCEPT ![a] = r], Deleted(gone))
  PROVE  IInv'
<1>1. nodes' \subseteq Places /\ \A p \in nodes': p[1] \in alive  BY DEF IInv, TypeOK
<1>2. \A b \in Accessors: Born(b) => acc[b].node0 \notin gone /\ acc[b].node1 \notin gone
  BY Uncached
<1>3. \A b \in Accessors: Born(b) => /\ acc[b].node0 \in nodes => acc[b].node0 \in nodes'
                                     /\ acc[b].node1 \in nodes => acc[b].node1 \in nodes'
  BY <1>2
<1>4. DOMAIN Deleted(gone) = gone  BY DEF Deleted
<1>5. acc \in [Accessors -> Accessor \cup {Unborn}]  BY AccType
<1>6. CASE acc' = Retargeted(acc, Deleted(gone))
  <2>1. Retargeted(acc, Deleted(gone)) = acc  BY <1>2, <1>4, <1>5, RetargetedSame DEF Born
  <2> QED  BY <1>1, <1>3, <1>6, <2>1, KeptByAll
<1>7. ASSUME NEW a \in Accessors, NEW r \in Accessor, Born(a), r.tree = acc[a].tree,
             OnPath(r, nodes'), r.node0 \notin gone, r.node1 \notin gone,
             acc' = Retargeted([acc EXCEPT ![a] = r], Deleted(gone))
      PROVE  IInv'
  <2> DEFINE f == [acc EXCEPT ![a] = r]
  <2>1. f \in [Accessors -> Accessor \cup {Unborn}]  BY <1>5
  <2>2. \A b \in Accessors: f[b] # Unborn => f[b].node0 \notin gone /\ f[b].node1 \notin gone
    BY <1>2, <1>5, <1>7 DEF Born
  <2> HIDE DEF f
  <2>3. Retargeted(f, Deleted(gone)) = f  BY <1>4, <2>1, <2>2, RetargetedSame
  <2>4. acc' = [acc EXCEPT ![a] = r]  BY <1>7, <2>3 DEF f
  <2> QED  BY <1>1, <1>3, <1>7, <2>4, KeptByOne
<1> QED  BY <1>6, <1>7

LEMMA TopOf ==
  ASSUME NEW r \in Accessor, NEW ns, NEW c \in Coords, r.tree \in Trees, OnPath(r, ns)
  PROVE  (IF IsHashed1(r, c) THEN r.node1 ELSE Internal(r.tree, c)) = Internal(r.tree, c)
BY Hashed1

LEMMA Inserted1 ==
  ASSUME NEW r \in Accessor, NEW c \in Coords, r.tree \in Trees
  PROVE  LET n == Insert1(r, c, Internal(r.tree, c))
         IN n.node0 = r.node0 /\ n.node1 = Internal(r.tree, c)
BY DEF Insert1, Accessor

LEMMA Inserted0 ==
  ASSUME NEW r \in Accessor, NEW c \in Coords, r.tree \in Trees
  PROVE  LET n == Insert0(r, c, Leaf(r.tree, c))
         IN n.node1 = r.node1 /\ n.node0 = Leaf(r.tree, c)
BY DEF Insert0, Accessor

LEMMA AddLeafOK ==
  ASSUME Careful, IInv, NEW a \in Accessors, NEW c \in Coords, AddLeaf(a, c)
  PROVE  IInv'
<1> DEFINE r == acc[a]
           p == Internal(r.tree, c)
           l == Leaf(r.tree, c)
           n == Insert1(r, c, p)
           gone == {l} \cap nodes
<1>1. Usable(a, c)  BY DEF AddLeaf, Writable
<1>2. Born(a) /\ r \in Accessor /\ OnPath(r, nodes) /\ r.tree \in Trees /\ r.tree \in alive
  BY <1>1, UsableTree
<1>3. (IF IsHashed1(r, c) THEN r.node1 ELSE p) = p /\ Under(p, c) = l
  BY <1>2, TopOf, LeafOf
<1>4. /\ MayDelete(gone) /\ nodes' = nodes \cup {p, l} /\ tile' = None
      /\ acc' = Retargeted([acc EXCEPT ![a] = n], Deleted(gone)) /\ UNCHANGED <<alive, registry>>
  BY <1>3 DEF AddLeaf
<1>5. p \in Places /\ p[1] = r.tree /\ p \notin Leaves /\ l \in Places /\ l[1] = r.tree /\ l \in Leaves
  BY <1>2, Way, LeafOf
<1>6. Closed(nodes')  BY <1>2, <1>4, WholeWay DEF IInv, TypeOK
<1>7. OnPath(r, nodes')  BY <1>2, <1>4 DEF OnPath
<1>8. n \in Accessor /\ n.tree = r.tree /\ OnPath(n, nodes')
  BY <1>2, <1>4, <1>7, Insert1Path
<1>9. n.node0 \notin gone /\ n.node1 \notin gone
  BY <1>2, <1>4, <1>5, Uncached, Inserted1
<1>10. nodes' = (nodes \ gone) \cup {p, l}  BY <1>4
<1>11. \A q \in {p, l}: q \in Places /\ q[1] \in alive  BY <1>2, <1>5
<1> HIDE DEF n, gone, p, l, r
<1>12. r.tree = acc[a].tree  BY DEF r
<1> QED  BY <1>2, <1>4, <1>6, <1>8, <1>9, <1>10, <1>11, <1>12, KeptByDelete

\* What a tile covers leaves a closed tree behind.
LEMMA CoveredOK ==
  ASSUME Closed(nodes), nodes \subseteq Places, NEW t \in Trees, NEW c \in Coords
  PROVE  /\ Covered(1, Leaf(t, c)) = {Leaf(t, c)} \cap nodes
         /\ Closed((nodes \ Covered(1, Leaf(t, c))) \cup {Internal(t, c)})
         /\ Closed(nodes \ Covered(2, Internal(t, c)))
<1> DEFINE p == Internal(t, c)
           l == Leaf(t, c)
<1>1. p \in Internals /\ p \notin Leaves /\ l \in Leaves  BY Way, LeafOf
<1>2. Covered(1, l) = {l} \cap nodes  BY <1>1 DEF Covered, Branch
<1>3. Covered(2, p) = ({p} \cup {q \in Leaves: q[1] = p[1] /\ q[2] = p[2]}) \cap nodes
  BY <1>1 DEF Covered, Branch
<1>4. \A q \in Leaves: <<q[1], q[2]>> \notin Leaves
  <2>1. \A q \in Leaves: <<q[1], q[2]>> \in Internals  BY LeafPlace DEF Internals
  <2> QED  BY <2>1, Apart
<1>5. Closed((nodes \ Covered(1, l)) \cup {p})  BY <1>1, <1>2, <1>4 DEF Closed
<1>6. Closed(nodes \ Covered(2, p))
  <2> SUFFICES ASSUME NEW q \in nodes \ Covered(2, p), q \in Leaves
               PROVE  <<q[1], q[2]>> \in nodes \ Covered(2, p)
    BY DEF Closed
  <2>1. <<q[1], q[2]>> \in nodes  BY DEF Closed
  <2>2. <<q[1], q[2]>> \notin Leaves  BY <1>4
  <2>3. <<q[1], q[2]>> # p
    <3> SUFFICES ASSUME <<q[1], q[2]>> = p  PROVE FALSE  OBVIOUS
    <3>1. q[1] = p[1] /\ q[2] = p[2]  OBVIOUS
    <3> QED  BY <1>3, <3>1
  <2> QED  BY <1>3, <2>1, <2>2, <2>3
<1> QED  BY <1>2, <1>5, <1>6

LEMMA AddTileOK ==
  ASSUME Careful, IInv, NEW a \in Accessors, NEW c \in Coords, NEW level \in 0..2,
         AddTile(a, level, c)
  PROVE  IInv'
<1> DEFINE r == acc[a]
           p == Internal(r.tree, c)
           l == Leaf(r.tree, c)
           n == Insert1(r, c, p)
           m == Insert0(n, c, l)
<1>1. Usable(a, c)  BY DEF AddTile, Writable
<1>2. Born(a) /\ r \in Accessor /\ OnPath(r, nodes) /\ r.tree \in Trees /\ r.tree \in alive
  BY <1>1, UsableTree
<1>3. (IF IsHashed1(r, c) THEN r.node1 ELSE p) = p /\ Under(p, c) = l
  BY <1>2, TopOf, LeafOf
<1>4. p \in Places /\ p[1] = r.tree /\ p \notin Leaves /\ l \in Places /\ l[1] = r.tree
      /\ l \in Leaves /\ l \notin Internals /\ p \in Internals
  BY <1>2, Way, LeafOf
<1>5. Closed(nodes) /\ nodes \subseteq Places  BY DEF IInv, TypeOK
<1>6. UNCHANGED <<alive, registry>> /\ tile' \in Places \cup {None}
  <2>1. tile' = IF level = 0 THEN None ELSE IF level = 2 THEN p ELSE l  BY <1>3 DEF AddTile
  <2> QED  BY <1>4, <2>1 DEF AddTile
<1>a. ASSUME NEW top, top = p
      PROVE  LET place == IF level = 2 THEN top ELSE Under(top, c)
                 gone == IF level = 2 /\ IsHashed1(r, c) THEN {} ELSE Covered(level, place)
             IN /\ MayDelete(gone)
                /\ nodes' = (nodes \ gone) \cup
                     IF level = 0 THEN {top, place} ELSE IF level = 1 THEN {top} ELSE {}
                /\ acc' = Retargeted([acc EXCEPT ![a] =
                     IF level = 0 THEN Insert0(Insert1(r, c, top), c, place)
                     ELSE IF level = 1 THEN Insert1(r, c, top) ELSE r], Deleted(gone))
  BY <1>a, <1>3 DEF AddTile
<1>7. CASE level = 0
  <2>1. /\ MayDelete({}) /\ nodes' = (nodes \ {}) \cup {p, l}
        /\ acc' = Retargeted([acc EXCEPT ![a] = m], Deleted({}))
    BY <1>3, <1>a, <1>7 DEF Covered
  <2>2. Closed(nodes')  BY <1>2, <1>5, <2>1, WholeWay
  <2>3. OnPath(r, nodes')  BY <1>2, <2>1 DEF OnPath
  <2>4. n \in Accessor /\ n.tree = r.tree /\ OnPath(n, nodes')
    BY <1>2, <2>1, <2>3, Insert1Path
  <2> HIDE DEF n
  <2>5. m \in Accessor /\ m.tree = r.tree /\ OnPath(m, nodes')
    BY <1>2, <2>1, <2>4, Insert0Path
  <2>6. \A q \in {p, l}: q \in Places /\ q[1] \in alive  BY <1>2, <1>4
  <2> HIDE DEF m, p, l
  <2> QED  BY <1>2, <1>6, <2>1, <2>2, <2>5, <2>6, KeptByDelete
<1>8. CASE level = 1
  <2> DEFINE gone == Covered(1, l)
  <2>1. /\ MayDelete(gone) /\ nodes' = (nodes \ gone) \cup {p}
        /\ acc' = Retargeted([acc EXCEPT ![a] = n], Deleted(gone))
    BY <1>3, <1>a, <1>8
  <2>2. gone = {l} \cap nodes /\ Closed(nodes')  BY <1>2, <1>5, <2>1, CoveredOK
  <2>3. r.node0 \notin gone /\ r.node1 \notin gone  BY <1>2, <2>1, Uncached
  <2>4. OnPath(r, nodes')  BY <1>2, <2>1, <2>3 DEF OnPath
  <2>5. n \in Accessor /\ n.tree = r.tree /\ OnPath(n, nodes')
    BY <1>2, <2>1, <2>4, Insert1Path
  <2>6. n.node0 \notin gone /\ n.node1 \notin gone  BY <1>2, <1>4, <2>2, <2>3, Inserted1
  <2>7. \A q \in {p}: q \in Places /\ q[1] \in alive  BY <1>2, <1>4
  <2> HIDE DEF n, p, l, gone
  <2> QED  BY <1>2, <1>6, <2>1, <2>2, <2>5, <2>6, <2>7, KeptByDelete
<1>9. CASE level = 2
  <2> DEFINE gone == IF IsHashed1(r, c) THEN {} ELSE Covered(2, p)
             new == {}
  <2>1. /\ MayDelete(gone) /\ nodes' = (nodes \ gone) \cup new
        /\ acc' = Retargeted([acc EXCEPT ![a] = r], Deleted(gone))
    <3>1. gone = IF level = 2 /\ IsHashed1(r, c) THEN {} ELSE Covered(level, p)  BY <1>9
    <3> HIDE DEF gone
    <3>2. MayDelete(gone)  BY <1>a, <1>9, <3>1
    <3>3. nodes' = (nodes \ gone) \cup new  BY <1>a, <1>9, <3>1
    <3> DEFINE cached == IF level = 0 THEN Insert0(Insert1(r, c, p), c, p)
                         ELSE IF level = 1 THEN Insert1(r, c, p) ELSE r
    <3>a. cached = r  BY <1>9
    <3>b. acc' = Retargeted([acc EXCEPT ![a] = cached], Deleted(gone))
      <4> SUFFICES ASSUME NEW top, top = p
                   PROVE  acc' = Retargeted([acc EXCEPT ![a] =
                            IF level = 0 THEN Insert0(Insert1(r, c, top), c, top)
                            ELSE IF level = 1 THEN Insert1(r, c, top) ELSE r], Deleted(gone))
        OBVIOUS
      <4>1. (IF level = 2 THEN top ELSE Under(top, c)) = top  BY <1>9
      <4> QED  BY <1>a, <1>9, <3>1, <4>1
    <3> HIDE DEF cached
    <3>4. acc' = Retargeted([acc EXCEPT ![a] = r], Deleted(gone))  BY <3>a, <3>b
    <3> QED  BY <3>2, <3>3, <3>4
  <2>2. Closed(nodes')
    <3>1. Closed(nodes \ Covered(2, p))  BY <1>2, <1>5, CoveredOK
    <3>2. nodes' = nodes \/ nodes' = nodes \ Covered(2, p)  BY <2>1
    <3> QED  BY <1>5, <3>1, <3>2
  <2>3. r.node0 \notin gone /\ r.node1 \notin gone  BY <1>2, <2>1, Uncached
  <2>4. OnPath(r, nodes')  BY <1>2, <2>1, <2>3 DEF OnPath
  <2>5. \A q \in new: q \in Places /\ q[1] \in alive  OBVIOUS
  <2>6. r \in Accessor /\ r.tree = acc[a].tree /\ Born(a)  BY <1>2
  <2> HIDE DEF gone, r, p, l, n, m, new
  <2> QED  BY <1>6, <2>1, <2>2, <2>3, <2>4, <2>5, <2>6, KeptByDelete
<1> QED  BY <1>7, <1>8, <1>9

-----------------------------------------------------------------------------
(* Calls of a tree.                                                        *)

LEMMA TreeGrows ==
  ASSUME IInv, NEW t \in Trees, NEW c \in Coords, t \in alive,
         NEW new \in SUBSET {Internal(t, c), Leaf(t, c)}, Closed(nodes \cup new),
         nodes' = nodes \cup new, tile' = None, UNCHANGED <<alive, registry, acc>>
  PROVE  IInv'
<1>1. \A p \in new: p \in Places /\ p[1] = t  BY Way
<1>2. nodes' \subseteq Places /\ Closed(nodes') /\ \A p \in nodes': p[1] \in alive
  BY <1>1 DEF IInv, TypeOK
<1> QED  BY <1>2, KeptByAll

LEMMA TreeWriteOK ==
  ASSUME IInv, NEW t \in Trees, NEW c \in Coords, TreeWrite(t, c)
  PROVE  IInv'
BY TreeGrows DEF TreeWrite

LEMMA TreeTouchLeafOK ==
  ASSUME IInv, NEW t \in Trees, NEW c \in Coords, TreeTouchLeaf(t, c)
  PROVE  IInv'
<1>1. Closed(nodes \cup {Internal(t, c), Leaf(t, c)})  BY WholeWay DEF IInv, TypeOK
<1> QED  BY <1>1, TreeGrows DEF TreeTouchLeaf

LEMMA TreeAddLeafOK ==
  ASSUME Careful, IInv, NEW t \in Trees, NEW c \in Coords, TreeAddLeaf(t, c)
  PROVE  IInv'
<1> DEFINE new == {Internal(t, c), Leaf(t, c)}
           gone == {Leaf(t, c)} \cap nodes
<1>1. /\ t \in alive /\ MayDelete(gone) /\ nodes' = nodes \cup new
      /\ acc' = Retargeted(acc, Deleted(gone)) /\ tile' = None /\ UNCHANGED <<alive, registry>>
  BY DEF TreeAddLeaf
<1>2. Closed(nodes')  BY <1>1, WholeWay DEF IInv, TypeOK
<1>3. nodes' = (nodes \ gone) \cup new  BY <1>1
<1>4. \A p \in new: p \in Places /\ p[1] \in alive  BY <1>1, Way
<1> HIDE DEF new, gone
<1> QED  BY <1>1, <1>2, <1>3, <1>4, KeptByDelete

LEMMA TreeAddTileOK ==
  ASSUME Careful, IInv, NEW t \in Trees, NEW c \in Coords, NEW level \in 0..2,
         TreeAddTile(t, level, c)
  PROVE  IInv'
<1> DEFINE place == IF level = 2 THEN Internal(t, c) ELSE Leaf(t, c)
           gone == Covered(level, place)
           new == IF level = 0 THEN {Internal(t, c), place}
                  ELSE IF level = 1 THEN {Internal(t, c)} ELSE {}
<1>1. /\ t \in alive /\ MayDelete(gone) /\ nodes' = (nodes \ gone) \cup new
      /\ acc' = Retargeted(acc, Deleted(gone)) /\ UNCHANGED <<alive, registry>>
      /\ tile' = IF level = 0 THEN None ELSE place
  BY DEF TreeAddTile
<1>2. Closed(nodes) /\ nodes \subseteq Places  BY DEF IInv, TypeOK
<1>3. \A p \in new: p \in Places /\ p[1] \in alive  BY <1>1, Way
<1>4. tile' \in Places \cup {None}  BY <1>1, Way
<1>5. Closed(nodes')
  <2>1. CASE level = 0
    <3>1. gone = {} /\ new = {Internal(t, c), Leaf(t, c)}  BY <2>1 DEF Covered
    <3> HIDE DEF gone, new
    <3>2. nodes' = nodes \cup {Internal(t, c), Leaf(t, c)}  BY <1>1, <3>1
    <3>3. Closed(nodes \cup {Internal(t, c), Leaf(t, c)})  BY <1>2, WholeWay
    <3> QED  BY <3>2, <3>3
  <2>2. CASE level = 1
    <3>1. gone = Covered(1, Leaf(t, c)) /\ new = {Internal(t, c)}  BY <2>2
    <3> QED  BY <1>1, <1>2, <3>1, CoveredOK
  <2>3. CASE level = 2
    <3>1. nodes' = nodes \ Covered(2, Internal(t, c))  BY <1>1, <2>3
    <3>2. Closed(nodes \ Covered(2, Internal(t, c)))  BY <1>2, CoveredOK
    <3> QED  BY <3>1, <3>2
  <2> QED  BY <2>1, <2>2, <2>3
<1> HIDE DEF gone, new
<1> QED  BY <1>1, <1>3, <1>4, <1>5, KeptByDelete

LEMMA BranchPlaces ==
  ASSUME NEW p \in Places
  PROVE  \A q \in Branch(p): q \in Places /\ q[1] = p[1]
BY DEF Branch, Places

\* A closed tree less a branch is closed.
LEMMA BranchCut ==
  ASSUME NEW ns \in SUBSET Places, Closed(ns), NEW p \in Places
  PROVE  Closed(ns \ Branch(p))
<1> SUFFICES ASSUME NEW q \in ns \ Branch(p), q \in Leaves
             PROVE  <<q[1], q[2]>> \in ns \ Branch(p)
  BY DEF Closed
<1>1. <<q[1], q[2]>> \in ns  BY DEF Closed
<1>2. <<q[1], q[2]>> \notin Leaves
  <2>1. <<q[1], q[2]>> \in Internals  BY LeafPlace DEF Internals
  <2> QED  BY <2>1, Apart
<1>3. <<q[1], q[2]>> \notin Branch(p)
  <2>1. CASE p \in Leaves
    <3>1. Branch(p) = {p}  BY <2>1 DEF Branch
    <3> QED  BY <1>2, <2>1, <3>1
  <2>2. CASE p \notin Leaves
    <3>1. Branch(p) = {p} \cup {x \in Leaves: x[1] = p[1] /\ x[2] = p[2]}  BY <2>2 DEF Branch
    <3>2. <<q[1], q[2]>> # p
      <4> SUFFICES ASSUME <<q[1], q[2]>> = p  PROVE FALSE  OBVIOUS
      <4>1. q[1] = p[1] /\ q[2] = p[2]  OBVIOUS
      <4> QED  BY <3>1, <4>1
    <3> QED  BY <1>2, <3>1, <3>2
  <2> QED  BY <2>1, <2>2
<1> QED  BY <1>1, <1>3

LEMMA StealNodeOK ==
  ASSUME IInv, NEW t \in Trees, NEW p \in Places, StealNode(t, p)
  PROVE  IInv'
<1> DEFINE fate == [q \in Branch(p) \cap nodes |-> Away]
<1>1. /\ p[1] = t /\ nodes' = nodes \ (IF p \in nodes THEN Branch(p) ELSE {})
      /\ acc' = Retargeted(ClearedAll(t), fate) /\ tile' = None /\ UNCHANGED <<alive, registry>>
  BY DEF StealNode
<1>2. nodes \subseteq Places /\ Closed(nodes) /\ \A q \in nodes: q[1] \in alive
  BY DEF IInv, TypeOK
<1>3. \A q \in Branch(p): q \in Places /\ q[1] = t  BY <1>1, BranchPlaces
<1>4. DOMAIN fate = Branch(p) \cap nodes  OBVIOUS
<1>5. Closed(nodes')  BY <1>1, <1>2, BranchCut
<1>6. /\ nodes' \subseteq Places /\ \A q \in nodes': q[1] \in alive
      /\ \A q \in nodes: q[1] # t => q \in nodes'
  BY <1>1, <1>2, <1>3
<1>7. \A q \in DOMAIN fate: q \in Places /\ q[1] = t  BY <1>3, <1>4
<1> HIDE DEF fate
<1> QED  BY <1>1, <1>5, <1>6, <1>7, KeptByTree

LEMMA StealNodesOK ==
  ASSUME IInv, NEW t \in Trees, NEW level \in 0..1, StealNodes(t, level)
  PROVE  IInv'
<1> DEFINE taken == IF level = 0 THEN InTree(t) \cap Leaves ELSE InTree(t)
           fate == [q \in taken |-> Away]
<1>1. /\ nodes' = nodes \ taken /\ acc' = Retargeted(ClearedAll(t), fate) /\ tile' = None
      /\ UNCHANGED <<alive, registry>>
  BY DEF StealNodes
<1>2. nodes \subseteq Places /\ Closed(nodes) /\ \A q \in nodes: q[1] \in alive
  BY DEF IInv, TypeOK
<1>3. taken \subseteq nodes /\ \A q \in taken: q[1] = t  BY DEF InTree
<1>4. Closed(nodes')
  <2> SUFFICES ASSUME NEW q \in nodes', q \in Leaves  PROVE <<q[1], q[2]>> \in nodes'
    BY DEF Closed
  <2>1. q \in nodes /\ q[1] # t  BY <1>1 DEF InTree
  <2>2. <<q[1], q[2]>> \in nodes  BY <1>2, <2>1 DEF Closed
  <2>3. <<q[1], q[2]>>[1] # t  BY <2>1
  <2> QED  BY <1>1, <1>3, <2>2, <2>3
<1>5. DOMAIN fate = taken  OBVIOUS
<1> HIDE DEF fate, taken
<1>6. \A q \in DOMAIN fate: q \in Places /\ q[1] = t  BY <1>2, <1>3, <1>5
<1>7. /\ nodes' \subseteq Places /\ \A q \in nodes': q[1] \in alive
      /\ \A q \in nodes: q[1] # t => q \in nodes'
  BY <1>1, <1>2, <1>3
<1> QED  BY <1>1, <1>4, <1>6, <1>7, KeptByTree

\* A tree made anew.
LEMMA ReplacedOK ==
  ASSUME NEW t \in Trees, NEW ns \in Shapes(t), nodes \subseteq Places, Closed(nodes),
         t \in alive, \A q \in nodes: q[1] \in alive
  PROVE  /\ Replaced(t, ns) \subseteq Places /\ Closed(Replaced(t, ns))
         /\ \A q \in Replaced(t, ns): q[1] \in alive
         /\ \A q \in Places: q[1] # t => (q \in Replaced(t, ns) <=> q \in nodes)
<1>1. ns \subseteq Places /\ Closed(ns) /\ \A q \in ns: q[1] = t  BY DEF Shapes
<1>2. \A q: q \in Replaced(t, ns) <=> (q \in nodes /\ q[1] # t) \/ q \in ns
  BY DEF Replaced, InTree
<1>3. ASSUME NEW q \in Replaced(t, ns), q \in Leaves  PROVE <<q[1], q[2]>> \in Replaced(t, ns)
  <2>1. CASE q \in ns  BY <1>1, <1>2, <1>3, <2>1 DEF Closed
  <2>2. CASE q \in nodes /\ q[1] # t
    <3>1. <<q[1], q[2]>> \in nodes  BY <1>3, <2>2 DEF Closed
    <3>2. <<q[1], q[2]>>[1] # t  BY <2>2
    <3> QED  BY <1>2, <3>1, <3>2
  <2> QED  BY <1>2, <2>1, <2>2
<1>4. Closed(Replaced(t, ns))  BY <1>3 DEF Closed
<1> QED  BY <1>1, <1>2, <1>4

LEMMA RebuildOK ==
  ASSUME IInv, NEW t \in Trees, NEW ns \in Shapes(t), Rebuild(t, ns)
  PROVE  IInv'
<1> DEFINE gone == InTree(t) \ ns
<1>1. /\ t \in alive /\ nodes' = Replaced(t, ns) /\ tile' = None /\ UNCHANGED <<alive, registry>>
      /\ acc' = Retargeted(ClearedAll(t), Deleted(gone))
  BY DEF Rebuild
<1>2. nodes \subseteq Places /\ Closed(nodes) /\ \A q \in nodes: q[1] \in alive
  BY DEF IInv, TypeOK
<1>3. DOMAIN Deleted(gone) = gone  BY DEF Deleted
<1>4. \A q \in DOMAIN Deleted(gone): q \in Places /\ q[1] = t  BY <1>2, <1>3 DEF InTree
<1>5. /\ nodes' \subseteq Places /\ Closed(nodes') /\ \A q \in nodes': q[1] \in alive
      /\ \A q \in nodes: q[1] # t => q \in nodes'
  BY <1>1, <1>2, ReplacedOK
<1> HIDE DEF gone
<1> QED  BY <1>1, <1>4, <1>5, KeptByTree

LEMMA ClearOK ==
  ASSUME IInv, NEW t \in Trees, Clear(t)
  PROVE  IInv'
<1>1. {} \in Shapes(t)  BY DEF Shapes, Closed
<1> QED  BY <1>1, RebuildOK DEF Clear

\* The shape of a tree without the nodes of another.
LEMMA EmptiedOK ==
  ASSUME NEW o \in Trees, NEW ns, Closed(ns)
  PROVE  Closed({q \in ns: q[1] # o})
<1> SUFFICES ASSUME NEW q \in ns, q[1] # o, q \in Leaves
             PROVE  <<q[1], q[2]>> \in ns /\ <<q[1], q[2]>>[1] # o
  BY DEF Closed
<1> QED  BY DEF Closed

\* The nodes after merge() and combine().
LEMMA EmptiedNodes ==
  ASSUME TypeOK, NEW t \in Trees, NEW o \in Trees, t # o, t \in alive, NEW ns \in Shapes(t),
         nodes' = Replaced(t, ns) \ InTree(o)
  PROVE  /\ nodes' \subseteq Places /\ Closed(nodes') /\ \A q \in nodes': q[1] \in alive
         /\ \A q \in nodes: q[1] \notin {t, o} => q \in nodes'
<1>1. nodes \subseteq Places /\ Closed(nodes) /\ \A q \in nodes: q[1] \in alive
  BY DEF TypeOK
<1> DEFINE ms == Replaced(t, ns)
<1>2. /\ ms \subseteq Places /\ Closed(ms) /\ \A q \in ms: q[1] \in alive
      /\ \A q \in Places: q[1] # t => (q \in ms <=> q \in nodes)
  BY <1>1, ReplacedOK
<1>3. nodes' = ms \ InTree(o)  OBVIOUS
<1> HIDE DEF ms
<1>4. nodes' = {q \in ms: q[1] # o}  BY <1>1, <1>2, <1>3 DEF InTree
<1>5. Closed(nodes')  BY <1>2, <1>4, EmptiedOK
<1> QED  BY <1>1, <1>2, <1>4, <1>5

\* A cache of a third tree is left alone.
LEMMA ThirdTree ==
  ASSUME IInv, NEW t, NEW o, \A q \in nodes: q[1] \notin {t, o} => q \in nodes',
         NEW a \in Accessors, Born(a), acc[a].tree \notin {t, o}
  PROVE  OnPath(acc[a], nodes')
<1>1. acc[a] \in Accessor /\ OnPath(acc[a], nodes)  BY AccType
<1>2. None \notin nodes  BY NoneApart DEF IInv, TypeOK, Places
<1>3. /\ acc[a].node0 # None => acc[a].node0[1] \notin {t, o}
      /\ acc[a].node1 # None => acc[a].node1[1] \notin {t, o}
  BY <1>1, CachedTree
<1> QED  BY <1>1, <1>3 DEF OnPath

LEMMA MergeOK ==
  ASSUME IInv, NEW t \in Trees, NEW o \in Trees, Merge(t, o)
  PROVE  IInv'
<1>1. /\ t \in alive /\ t # o /\ tile' = None /\ UNCHANGED <<alive, registry>>
      /\ \E ns \in Shapes(t): nodes' = Replaced(t, ns) \ InTree(o)
      /\ acc' = [a \in Accessors |-> IF a \in registry[o] THEN Cleared(acc[a]) ELSE ClearedAll(t)[a]]
  BY DEF Merge
<1>2. /\ nodes' \subseteq Places /\ Closed(nodes') /\ \A q \in nodes': q[1] \in alive
      /\ \A q \in nodes: q[1] \notin {t, o} => q \in nodes'
  BY <1>1, EmptiedNodes DEF IInv
<1>3. \A a \in Accessors: a \in registry[o] <=> Born(a) /\ acc[a].tree = o
  BY DEF IInv, RegistryExact
<1>4. Fresh(o) # Unborn /\ Fresh(o) \in Accessor
  BY ClearedPath, AccessorAssumption DEF AccessorAssumption
<1>5. ASSUME NEW a \in Accessors
      PROVE  /\ acc'[a] \in Accessor \cup {Unborn}
             /\ Born(a) <=> acc'[a] # Unborn
             /\ Born(a) => acc'[a].tree = acc[a].tree /\ OnPath(acc'[a], nodes')
  <2>1. CASE Born(a) /\ acc[a].tree = o
    <3>1. acc'[a] = Fresh(o)  BY <1>1, <1>3, <2>1 DEF Cleared
    <3> QED  BY <1>4, <2>1, <3>1, ClearedPath
  <2>2. CASE Born(a) /\ acc[a].tree # o
    <3>1. acc'[a] = ClearedAll(t)[a]  BY <1>1, <1>3, <2>2
    <3>2. /\ acc'[a] = IF acc[a].tree = t THEN Fresh(t) ELSE acc[a]
          /\ acc'[a] # Unborn /\ acc'[a] \in Accessor /\ acc'[a].tree = acc[a].tree
      BY <2>2, <3>1, ClearedAllOK
    <3>3. OnPath(acc'[a], nodes')
      <4>1. CASE acc[a].tree = t  BY <3>2, <4>1, ClearedPath
      <4>2. CASE acc[a].tree # t  BY <1>2, <2>2, <3>2, <4>2, ThirdTree
      <4> QED  BY <4>1, <4>2
    <3> QED  BY <2>2, <3>2, <3>3
  <2>3. CASE ~Born(a)
    <3>1. acc'[a] = ClearedAll(t)[a]  BY <1>1, <1>3, <2>3
    <3> QED  BY <2>3, <3>1, ClearedAllOK
  <2> QED  BY <2>1, <2>2, <2>3
<1>6. acc' \in [Accessors -> Accessor \cup {Unborn}]  BY <1>1, <1>5
<1> QED  BY <1>1, <1>2, <1>5, <1>6, Kept

LEMMA CombineOK ==
  ASSUME Careful, IInv, NEW t \in Trees, NEW o \in Trees, NEW prune \in BOOLEAN, Combine(t, o, prune)
  PROVE  IInv'
<1> DEFINE fate == [p \in InTree(o) |-> IF At(t, p) \in nodes THEN Freed ELSE At(t, p)]
           both == InTree(t) \cup {At(t, p): p \in InTree(o)}
<1>1. /\ t \in alive /\ t # o /\ MayDelete(InTree(o)) /\ tile' = None /\ UNCHANGED <<alive, registry>>
      /\ \E ns \in Shapes(t):
           /\ nodes' = Replaced(t, ns) \ InTree(o)
           /\ acc' = Retargeted(Retargeted(ClearedAll(t), fate), Deleted(both \ ns))
  BY DEF Combine
<1>2. PICK ns \in Shapes(t):
        /\ nodes' = Replaced(t, ns) \ InTree(o)
        /\ acc' = Retargeted(Retargeted(ClearedAll(t), fate), Deleted(both \ ns))
  BY <1>1
<1>3. /\ nodes' \subseteq Places /\ Closed(nodes') /\ \A q \in nodes': q[1] \in alive
      /\ \A q \in nodes: q[1] \notin {t, o} => q \in nodes'
  BY <1>1, <1>2, EmptiedNodes DEF IInv
<1>4. ClearedAll(t) \in [Accessors -> Accessor \cup {Unborn}]  BY ClearedAllOK
<1>5. InTree(o) \subseteq nodes /\ nodes \subseteq Places /\ InTree(t) \subseteq nodes
      /\ (\A p \in InTree(t): p[1] = t) /\ (\A p \in InTree(o): p[1] = o)
  BY DEF InTree, IInv, TypeOK
<1>6. DOMAIN fate = InTree(o)  OBVIOUS
<1> HIDE DEF fate
<1>7. ASSUME NEW a \in Accessors, Born(a)
      PROVE  ClearedAll(t)[a].node0 \notin InTree(o) /\ ClearedAll(t)[a].node1 \notin InTree(o)
  <2>1. acc[a].node0 \notin InTree(o) /\ acc[a].node1 \notin InTree(o)  BY <1>1, <1>7, Uncached
  <2>2. ClearedAll(t)[a] = IF acc[a].tree = t THEN Fresh(t) ELSE acc[a]  BY <1>7, ClearedAllOK
  <2>3. Fresh(t).node0 = None /\ Fresh(t).node1 = None  BY DEF Fresh
  <2>4. None \notin InTree(o)  BY <1>5, NoneApart DEF Places
  <2> QED  BY <2>1, <2>2, <2>3, <2>4
<1>8. Retargeted(ClearedAll(t), fate) = ClearedAll(t)
  BY <1>4, <1>6, <1>7, ClearedAllOK, RetargetedSame
<1>9. \A p \in both \ ns: p \in Places /\ p[1] = t
  <2> SUFFICES ASSUME NEW p \in InTree(o)  PROVE At(t, p) \in Places /\ At(t, p)[1] = t
    BY <1>5
  <2>1. CASE p \in Internals
    <3>1. p = <<p[1], p[2]>> /\ p[2] \in Keys  BY <2>1, InternalPlace
    <3>2. At(t, p) = <<t, p[2]>>  BY <3>1 DEF At
    <3> QED  BY <3>1, <3>2 DEF Places, Internals
  <2>2. CASE p \in Leaves
    <3>1. p = <<p[1], p[2], p[3]>> /\ <<p[2], p[3]>> \in Coords  BY <2>2, LeafPlace
    <3>2. At(t, p) = <<t, p[2], p[3]>>  BY <3>1 DEF At
    <3>3. At(t, p) \in Leaves
      <4>1. At(t, p) = <<t, <<p[2], p[3]>>[1], <<p[2], p[3]>>[2]>>  BY <3>2
      <4> QED  BY <3>1, <4>1 DEF Leaves
    <3> QED  BY <3>2, <3>3 DEF Places
  <2> QED  BY <1>5, <2>1, <2>2 DEF Places
<1>10. DOMAIN Deleted(both \ ns) = both \ ns  BY DEF Deleted
<1> HIDE DEF both
<1>11. ASSUME NEW a \in Accessors, Born(a)
       PROVE  /\ ClearedAll(t)[a].node0 \notin both \ ns
              /\ ClearedAll(t)[a].node1 \notin both \ ns
  BY <1>9, <1>10, <1>11, RebuiltPath
<1>12. acc' = ClearedAll(t)
  BY <1>2, <1>4, <1>8, <1>10, <1>11, ClearedAllOK, RetargetedSame
<1>13. ASSUME NEW a \in Accessors, Born(a)
       PROVE  OnPath(ClearedAll(t)[a], nodes')
  <2> DEFINE r == ClearedAll(t)[a]
  <2>1. /\ r \in Accessor /\ OnPath(r, nodes) /\ r.tree = acc[a].tree
        /\ r = IF acc[a].tree = t THEN Fresh(t) ELSE acc[a]
    BY <1>13, ClearedAllOK
  <2>2. CASE acc[a].tree = t  BY <2>1, <2>2, ClearedPath
  <2>3. CASE acc[a].tree = o
    <3>1. r.node0 \notin InTree(o) /\ r.node1 \notin InTree(o)  BY <1>7, <1>13
    <3>2. r.node0 # None => r.node0 \in nodes /\ r.node0[1] = o  BY <2>1, <2>3, CachedTree DEF OnPath
    <3>3. r.node1 # None => r.node1 \in nodes /\ r.node1[1] = o  BY <2>1, <2>3, CachedTree DEF OnPath
    <3>4. r.node0 = None /\ r.node1 = None  BY <3>1, <3>2, <3>3 DEF InTree
    <3> HIDE DEF r
    <3>5. OnPath(r, nodes')  BY <2>1, <3>4 DEF OnPath
    <3> QED  BY <3>5 DEF r
  <2>4. CASE acc[a].tree \notin {t, o}  BY <1>3, <1>13, <2>1, <2>4, ThirdTree
  <2> QED  BY <2>2, <2>3, <2>4
<1> QED  BY <1>1, <1>3, <1>4, <1>12, <1>13, ClearedAllOK, Kept

LEMMA DestroyTreeOK ==
  ASSUME IInv, NEW t \in Trees, DestroyTree(t)
  PROVE  IInv'
<1>1. /\ alive' = alive \ {t} /\ nodes' = nodes \ InTree(t) /\ tile' = None
      /\ acc' = [a \in Accessors |-> IF a \in registry[t] THEN Fresh(None) ELSE acc[a]]
      /\ registry' = [registry EXCEPT ![t] = {}]
  BY DEF DestroyTree
<1>2. nodes \subseteq Places /\ Closed(nodes) /\ (\A q \in nodes: q[1] \in alive)
      /\ alive \subseteq Trees /\ registry \in [Trees -> SUBSET Accessors]
      /\ acc \in [Accessors -> Accessor \cup {Unborn}]
  BY DEF IInv, TypeOK
<1>3. nodes' = {q \in nodes: q[1] # t}  BY <1>1 DEF InTree
<1>4. Closed(nodes') /\ nodes' \subseteq Places /\ \A q \in nodes': q[1] \in alive'
  BY <1>1, <1>2, <1>3, EmptiedOK
<1>5. \A a \in Accessors: a \in registry[t] <=> Born(a) /\ acc[a].tree = t
  BY DEF IInv, RegistryExact
<1>6. Fresh(None) \in Accessor /\ Fresh(None).tree = None /\ OnPath(Fresh(None), nodes')
      /\ Fresh(None) # Unborn
  BY ClearedPath, AccessorAssumption DEF AccessorAssumption
<1>7. ASSUME NEW a \in Accessors
      PROVE  acc'[a] = IF Born(a) /\ acc[a].tree = t THEN Fresh(None) ELSE acc[a]
  BY <1>1, <1>5
<1>8. acc' \in [Accessors -> Accessor \cup {Unborn}]  BY <1>1, <1>2, <1>6
<1>9. registry' \in [Trees -> SUBSET Accessors]  BY <1>1, <1>2
<1>10. TypeOK'  BY <1>1, <1>2, <1>4, <1>8, <1>9 DEF TypeOK
<1>11. \A a \in Accessors: Born(a)' <=> Born(a)  BY <1>6, <1>7 DEF Born
<1>12. RegistryExact'
  <2>1. ASSUME NEW u \in Trees  PROVE registry'[u] = {a \in Accessors: Born(a)' /\ acc'[a].tree = u}
    <3>1. registry[u] = {a \in Accessors: Born(a) /\ acc[a].tree = u}  BY DEF IInv, RegistryExact
    <3>2. u # None /\ t # None  BY NoneApart
    <3>3. CASE u = t  BY <1>1, <1>2, <1>6, <1>7, <1>11, <3>2, <3>3
    <3>4. CASE u # t
      <4>1. registry'[u] = registry[u]  BY <1>1, <1>2, <3>4
      <4>2. \A a \in Accessors: Born(a) => (acc'[a].tree = u <=> acc[a].tree = u)
        BY <1>6, <1>7, <3>2, <3>4
      <4> QED  BY <1>11, <3>1, <4>1, <4>2
    <3> QED  BY <3>3, <3>4
  <2>2. ASSUME NEW a \in Accessors, Born(a)'  PROVE acc'[a].tree \in alive' \cup {None}
    <3>1. acc[a].tree \in alive \cup {None}  BY <1>11, <2>2 DEF IInv, RegistryExact
    <3> QED  BY <1>1, <1>6, <1>7, <3>1, <1>11, <2>2
  <2> QED  BY <2>1, <2>2 DEF RegistryExact
<1>13. ASSUME NEW a \in Accessors, Born(a)'  PROVE OnPath(acc'[a], nodes')
  <2>1. CASE acc[a].tree = t  BY <1>6, <1>7, <1>11, <1>13, <2>1
  <2>2. CASE acc[a].tree # t
    <3>1. \A q \in nodes: q[1] \notin {t, t} => q \in nodes'  BY <1>3
    <3> QED  BY <1>7, <1>11, <1>13, <2>2, <3>1, ThirdTree
  <2> QED  BY <2>1, <2>2
<1>14. CachedOnPath'  BY <1>13 DEF CachedOnPath, OnPath
<1> QED  BY <1>10, <1>12, <1>14 DEF IInv

-----------------------------------------------------------------------------
(* Whatever callers delete.                                                *)

\* The key cached with a node is the one of the node's region, also where the
\* node has moved to another tree.
Keyed(r) ==
  /\ r.node0 \in Leaves => r.key0 = <<r.node0[2], r.node0[3]>>
  /\ r.node1 \in Internals => r.key1 = r.node1[2]

KeysMatch == \A a \in Accessors: Born(a) => Keyed(acc[a])

\* Inductive without any assumption on the callers.
TInv == TypeOK /\ RegistryExact /\ KeysMatch

\* Accessors of the same trees as now, whatever they cache.
Follows(accs) ==
  /\ accs \in [Accessors -> Accessor \cup {Unborn}]
  /\ \A a \in Accessors: /\ Born(a) <=> accs[a] # Unborn
                         /\ Born(a) => accs[a].tree = acc[a].tree /\ Keyed(accs[a])

LEMMA PointersApart ==
  /\ \A p \in Pointers: p \notin Leaves /\ p \notin Internals
  /\ Unborn \notin Accessor /\ Pointers = {None, Freed, Away}
BY AccessorAssumption DEF AccessorAssumption, Pointers, Places

LEMMA TFacts ==
  ASSUME TInv
  PROVE  /\ nodes \subseteq Places /\ Closed(nodes) /\ (\A p \in nodes: p[1] \in alive)
         /\ alive \subseteq Trees /\ acc \in [Accessors -> Accessor \cup {Unborn}]
         /\ \A a \in Accessors: Born(a) => /\ acc[a] \in Accessor /\ Keyed(acc[a])
                                           /\ acc[a].tree \in alive \cup {None}
BY DEF TInv, TypeOK, RegistryExact, KeysMatch, Born

LEMMA TKept ==
  ASSUME TInv, UNCHANGED <<alive, registry>>, tile' \in Places \cup {None},
         nodes' \subseteq Places, Closed(nodes'), \A p \in nodes': p[1] \in alive, Follows(acc')
  PROVE  TInv'
<1>1. TypeOK'  BY DEF TInv, TypeOK, Follows
<1>2. \A a \in Accessors: /\ Born(a)' <=> Born(a)
                          /\ Born(a) => acc'[a].tree = acc[a].tree /\ Keyed(acc'[a])
  BY DEF Born, Follows
<1>3. RegistryExact'  BY <1>2 DEF TInv, RegistryExact
<1>4. KeysMatch'  BY <1>2 DEF KeysMatch, Keyed
<1> QED  BY <1>1, <1>3, <1>4 DEF TInv

LEMMA FollowsNow == ASSUME TInv PROVE Follows(acc)
BY TFacts DEF Follows, Born

LEMMA FollowsOne ==
  ASSUME TInv, NEW a \in Accessors, Born(a), NEW r \in Accessor, r.tree = acc[a].tree, Keyed(r)
  PROVE  Follows([acc EXCEPT ![a] = r])
BY TFacts, PointersApart DEF Follows, Born

LEMMA KeyedFresh ==
  ASSUME NEW t \in Trees \cup {None}
  PROVE  Fresh(t) \in Accessor /\ Fresh(t).tree = t /\ Keyed(Fresh(t)) /\ Fresh(t) # Unborn
<1>1. Fresh(t) \in Accessor /\ Fresh(t).tree = t  BY DEF Fresh, Accessor, Pointers
<1>2. Fresh(t).node0 = None /\ Fresh(t).node1 = None  BY DEF Fresh
<1> QED  BY <1>1, <1>2, NoneApart, PointersApart DEF Keyed

LEMMA FollowsCleared ==
  ASSUME TInv, NEW t \in Trees
  PROVE  Follows(ClearedAll(t))
<1>1. \A a \in Accessors: a \in registry[t] <=> Born(a) /\ acc[a].tree = t
  BY DEF TInv, RegistryExact
<1>2. \A a \in Accessors:
        ClearedAll(t)[a] = IF Born(a) /\ acc[a].tree = t THEN Fresh(t) ELSE acc[a]
  BY <1>1 DEF ClearedAll, Cleared
<1>3. ClearedAll(t) = [a \in Accessors |-> ClearedAll(t)[a]]  BY DEF ClearedAll
<1>4. \A a \in Accessors: ClearedAll(t)[a] \in Accessor \cup {Unborn}
  BY <1>2, KeyedFresh, TFacts
<1>5. ClearedAll(t) \in [Accessors -> Accessor \cup {Unborn}]  BY <1>3, <1>4
<1>6. ASSUME NEW a \in Accessors
      PROVE  /\ Born(a) <=> ClearedAll(t)[a] # Unborn
             /\ Born(a) => ClearedAll(t)[a].tree = acc[a].tree /\ Keyed(ClearedAll(t)[a])
  <2>1. CASE Born(a) /\ acc[a].tree = t  BY <1>2, <2>1, KeyedFresh
  <2>2. CASE ~(Born(a) /\ acc[a].tree = t)
    <3>1. ClearedAll(t)[a] = acc[a]  BY <1>2, <2>2
    <3> QED  BY <3>1, TFacts DEF Born
  <2> QED  BY <2>1, <2>2
<1> QED  BY <1>5, <1>6 DEF Follows

\* A node that moves keeps its region.
LEMMA Moved ==
  ASSUME NEW t \in Trees
  PROVE  /\ \A p \in Leaves: /\ At(t, p) \in Leaves /\ At(t, p) \notin Internals
                             /\ At(t, p)[2] = p[2] /\ At(t, p)[3] = p[3]
         /\ \A p \in Internals: /\ At(t, p) \in Internals /\ At(t, p) \notin Leaves
                                /\ At(t, p)[2] = p[2]
<1>1. ASSUME NEW p \in Leaves
      PROVE  At(t, p) \in Leaves /\ At(t, p)[2] = p[2] /\ At(t, p)[3] = p[3]
  <2>1. p = <<p[1], p[2], p[3]>> /\ <<p[2], p[3]>> \in Coords  BY LeafPlace
  <2>2. At(t, p) = <<t, p[2], p[3]>>  BY <2>1 DEF At
  <2>3. At(t, p) = <<t, <<p[2], p[3]>>[1], <<p[2], p[3]>>[2]>>  BY <2>2
  <2> QED  BY <2>1, <2>2, <2>3 DEF Leaves
<1>2. ASSUME NEW p \in Internals
      PROVE  At(t, p) \in Internals /\ At(t, p)[2] = p[2]
  <2>1. p = <<p[1], p[2]>> /\ p[2] \in Keys  BY InternalPlace
  <2>2. At(t, p) = <<t, p[2]>>  BY <2>1 DEF At
  <2> QED  BY <2>1, <2>2 DEF Internals
<1> QED  BY <1>1, <1>2, Apart

\* Where a node may go: it is deleted, given away or moved to another tree.
Fates(p) == {Freed, Away} \cup {At(t, p): t \in Trees}

LEMMA FollowsRetargeted ==
  ASSUME NEW accs, Follows(accs), NEW fate, \A p \in DOMAIN fate: p \in Places /\ fate[p] \in Fates(p)
  PROVE  Follows(Retargeted(accs, fate))
<1> DEFINE f == Retargeted(accs, fate)
           n0(r) == IF r.node0 \in DOMAIN fate THEN fate[r.node0] ELSE r.node0
           n1(r) == IF r.node1 \in DOMAIN fate THEN fate[r.node1] ELSE r.node1
           new(r) == [r EXCEPT !.node0 = n0(r), !.node1 = n1(r)]
<1>1. \A a \in Accessors: f[a] = IF accs[a] = Unborn THEN Unborn ELSE new(accs[a])
  BY DEF Retargeted
<1>2. f = [a \in Accessors |-> f[a]]  BY DEF Retargeted
<1>3. accs \in [Accessors -> Accessor \cup {Unborn}]  BY DEF Follows
<1>4. ASSUME NEW r \in Accessor, Keyed(r)
      PROVE  new(r) \in Accessor /\ new(r).tree = r.tree /\ Keyed(new(r))
  <2>1. r.node0 \in Leaves \cup Pointers /\ r.node1 \in Internals \cup Pointers
    BY DEF Accessor
  <2>2. n0(r) \in Leaves \cup Pointers
        /\ (n0(r) \in Leaves => r.key0 = <<n0(r)[2], n0(r)[3]>>)
    <3>1. CASE r.node0 \in DOMAIN fate
      <4>1. r.node0 \in Leaves /\ n0(r) \in Fates(r.node0)
        BY <2>1, <3>1, PointersApart DEF Places
      <4> HIDE DEF n0
      <4>2. CASE n0(r) \in {Freed, Away}  BY <4>2, PointersApart
      <4>3. CASE \E t \in Trees: n0(r) = At(t, r.node0)  BY <1>4, <4>1, <4>3, Moved DEF Keyed
      <4> QED  BY <4>1, <4>2, <4>3 DEF Fates
    <3>2. CASE r.node0 \notin DOMAIN fate
      <4>1. n0(r) = r.node0  BY <3>2
      <4> HIDE DEF n0
      <4> QED  BY <1>4, <2>1, <4>1 DEF Keyed
    <3> QED  BY <3>1, <3>2
  <2>3. n1(r) \in Internals \cup Pointers
        /\ (n1(r) \in Internals => r.key1 = n1(r)[2])
    <3>1. CASE r.node1 \in DOMAIN fate
      <4>1. r.node1 \in Internals /\ n1(r) \in Fates(r.node1)
        BY <2>1, <3>1, PointersApart DEF Places
      <4> HIDE DEF n1
      <4>2. CASE n1(r) \in {Freed, Away}  BY <4>2, PointersApart
      <4>3. CASE \E t \in Trees: n1(r) = At(t, r.node1)  BY <1>4, <4>1, <4>3, Moved DEF Keyed
      <4> QED  BY <4>1, <4>2, <4>3 DEF Fates
    <3>2. CASE r.node1 \notin DOMAIN fate
      <4>1. n1(r) = r.node1  BY <3>2
      <4> HIDE DEF n1
      <4> QED  BY <1>4, <2>1, <4>1 DEF Keyed
    <3> QED  BY <3>1, <3>2
  <2> HIDE DEF n0, n1
  <2>4. /\ new(r) \in Accessor /\ new(r).tree = r.tree
        /\ new(r).node0 = n0(r) /\ new(r).node1 = n1(r)
        /\ new(r).key0 = r.key0 /\ new(r).key1 = r.key1
    BY <2>2, <2>3 DEF Accessor
  <2> QED  BY <2>2, <2>3, <2>4 DEF Keyed
<1> HIDE DEF f, new
<1>5. ASSUME NEW a \in Accessors
      PROVE  /\ f[a] \in Accessor \cup {Unborn}
             /\ Born(a) <=> f[a] # Unborn
             /\ Born(a) => f[a].tree = acc[a].tree /\ Keyed(f[a])
  BY <1>1, <1>3, <1>4, PointersApart DEF Follows
<1>6. f \in [Accessors -> Accessor \cup {Unborn}]  BY <1>2, <1>5
<1> QED  BY <1>5, <1>6 DEF Follows, f

LEMMA FollowsDeleted ==
  ASSUME NEW accs, Follows(accs), NEW gone \in SUBSET Places
  PROVE  Follows(Retargeted(accs, Deleted(gone)))
BY FollowsRetargeted DEF Deleted, Fates

-----------------------------------------------------------------------------
(* The steps of accessors, whatever callers delete.                        *)

LEMMA KeyedInsert1 ==
  ASSUME NEW r \in Accessor, Keyed(r), NEW u \in Trees, NEW c \in Coords
  PROVE  LET n == Insert1(r, c, Internal(u, c))
         IN n \in Accessor /\ n.tree = r.tree /\ Keyed(n)
<1> DEFINE p == Internal(u, c)
           n == Insert1(r, c, p)
<1>1. p \in Internals /\ c[1] \in Keys /\ p[2] = c[1]  BY LeafOf, CoordPair DEF Internal
<1> HIDE DEF p
<1>2. /\ n \in Accessor /\ n.tree = r.tree /\ n.key1 = c[1] /\ n.node1 = p
      /\ n.key0 = r.key0 /\ n.node0 = r.node0
  BY <1>1 DEF Insert1, Accessor
<1> QED  BY <1>1, <1>2 DEF Keyed, p

LEMMA KeyedInsert0 ==
  ASSUME NEW r \in Accessor, Keyed(r), NEW u \in Trees, NEW c \in Coords
  PROVE  LET n == Insert0(r, c, Leaf(u, c))
         IN n \in Accessor /\ n.tree = r.tree /\ Keyed(n)
<1> DEFINE p == Leaf(u, c)
           n == Insert0(r, c, p)
<1>1. p \in Leaves /\ p[2] = c[1] /\ p[3] = c[2] /\ c = <<c[1], c[2]>>
  BY LeafOf, CoordPair DEF Leaf
<1> HIDE DEF p
<1>2. /\ n \in Accessor /\ n.tree = r.tree /\ n.key0 = c /\ n.node0 = p
      /\ n.key1 = r.key1 /\ n.node1 = r.node1
  BY <1>1 DEF Insert0, Accessor
<1> QED  BY <1>1, <1>2 DEF Keyed, p

\* A call starts from the root of the accessor's tree or from a node that covers
\* the coordinate, be it of another tree.
LEMMA StartOf ==
  ASSUME TInv, NEW a \in Accessors, NEW c \in Coords, Usable(a, c)
  PROVE  /\ Born(a) /\ acc[a] \in Accessor /\ Keyed(acc[a]) /\ acc[a].tree \in alive
         /\ acc[a].tree \in Trees
         /\ IsHashed1(acc[a], c) => \E u \in alive: acc[a].node1 = Internal(u, c)
                                                    /\ Internal(u, c) \in nodes
<1>1. Born(a) /\ acc[a].tree # None /\ Defined(acc[a], c)  BY DEF Usable
<1>2. acc[a] \in Accessor /\ Keyed(acc[a]) /\ acc[a].tree \in alive /\ alive \subseteq Trees
  BY <1>1, TFacts
<1>3. ASSUME IsHashed1(acc[a], c)
      PROVE  \E u \in alive: acc[a].node1 = Internal(u, c) /\ Internal(u, c) \in nodes
  <2>1. acc[a].node1 \in nodes /\ acc[a].key1 = c[1]  BY <1>1, <1>3 DEF Defined, IsHashed1
  <2>2. acc[a].node1 \in Places /\ acc[a].node1 \in Internals \cup Pointers
    BY <1>2, <2>1, TFacts DEF Accessor
  <2>3. acc[a].node1 \in Internals  BY <2>2, PointersApart DEF Places
  <2>4. acc[a].node1 = <<acc[a].node1[1], c[1]>> /\ acc[a].node1[1] \in alive
    BY <1>2, <2>1, <2>3, InternalPlace, TFacts DEF Keyed
  <2> QED  BY <2>1, <2>4 DEF Internal
<1> QED  BY <1>1, <1>2, <1>3

LEMMA TopPlace ==
  ASSUME TInv, NEW a \in Accessors, NEW c \in Coords, Usable(a, c)
  PROVE  \E u \in alive: (IF IsHashed1(acc[a], c) THEN acc[a].node1 ELSE Internal(acc[a].tree, c))
                           = Internal(u, c)
BY StartOf

LEMMA KeyedDescended0 ==
  ASSUME NEW r \in Accessor, Keyed(r), NEW ns, NEW u \in Trees, NEW c \in Coords
  PROVE  LET n == Descended0(r, c, Leaf(u, c), ns)
         IN n \in Accessor /\ n.tree = r.tree /\ Keyed(n)
BY KeyedInsert0 DEF Descended0

LEMMA KeyedAccessed ==
  ASSUME TInv, NEW ns, NEW a \in Accessors, NEW c \in Coords, Usable(a, c)
  PROVE  LET n == Accessed(acc[a], c, ns)
         IN n \in Accessor /\ n.tree = acc[a].tree /\ Keyed(n)
<1> DEFINE r == acc[a]
<1>1. r \in Accessor /\ Keyed(r) /\ r.tree \in Trees /\ alive \subseteq Trees  BY StartOf, TFacts
<1>2. CASE IsHashed0(r, c)  BY <1>1, <1>2 DEF Accessed
<1>3. CASE ~IsHashed0(r, c) /\ IsHashed1(r, c)
  <2>1. PICK u \in alive: r.node1 = Internal(u, c)  BY <1>3, StartOf
  <2>2. Accessed(r, c, ns) = Descended0(r, c, Leaf(u, c), ns)
    BY <1>1, <1>3, <2>1, LeafOf DEF Accessed
  <2> QED  BY <1>1, <2>2, KeyedDescended0
<1>4. CASE ~IsHashed0(r, c) /\ ~IsHashed1(r, c)
  <2> DEFINE p == Internal(r.tree, c)
             m == Insert1(r, c, p)
  <2>1. Accessed(r, c, ns) = IF p \in ns THEN Descended0(m, c, Leaf(r.tree, c), ns) ELSE r
    BY <1>1, <1>4, LeafOf DEF Accessed, Descended1
  <2>2. m \in Accessor /\ m.tree = r.tree /\ Keyed(m)  BY <1>1, KeyedInsert1
  <2> HIDE DEF m
  <2> QED  BY <1>1, <2>1, <2>2, KeyedDescended0
<1> QED  BY <1>2, <1>3, <1>4

\* The nodes on the way, in whichever tree they are.
LEMMA WayPlaces ==
  ASSUME TInv, NEW a \in Accessors, NEW c \in Coords, Usable(a, c)
  PROVE  /\ \A p \in Path(acc[a], c): p \in Places /\ p[1] \in alive
         /\ Closed(nodes \cup Path(acc[a], c))
<1> DEFINE r == acc[a]
<1>1. r.tree \in alive /\ alive \subseteq Trees /\ Closed(nodes)  BY StartOf, TFacts
<1>2. CASE IsHashed0(r, c)
  <2>1. Path(r, c) = {}  BY <1>2 DEF Path
  <2> QED  BY <1>1, <2>1 DEF Closed
<1>3. CASE ~IsHashed0(r, c) /\ IsHashed1(r, c)
  <2>1. PICK u \in alive: r.node1 = Internal(u, c) /\ Internal(u, c) \in nodes  BY <1>3, StartOf
  <2>2. Path(r, c) = {Leaf(u, c)}  BY <1>1, <1>3, <2>1, LeafOf DEF Path
  <2> QED  BY <1>1, <2>1, <2>2, Way, WholeWay
<1>4. CASE ~IsHashed0(r, c) /\ ~IsHashed1(r, c)
  <2>1. Path(r, c) = {Internal(r.tree, c), Leaf(r.tree, c)}  BY <1>4 DEF Path
  <2>2. Closed(nodes \cup {Internal(r.tree, c), Leaf(r.tree, c)})  BY <1>1, WholeWay
  <2>3. \A p \in {Internal(r.tree, c), Leaf(r.tree, c)}: p \in Places /\ p[1] = r.tree
    BY <1>1, Way
  <2> QED  BY <1>1, <2>1, <2>2, <2>3
<1> QED  BY <1>2, <1>3, <1>4

LEMMA ReadsKeep ==
  ASSUME TInv, NEW a \in Accessors,
         \/ ClearAccessor(a) \/ \E level \in 0..1: EraseNode(a, level)
         \/ \E c \in Coords: Read(a, c) \/ ProbeNode(a, c)
  PROVE  TInv'
<1>1. ASSUME NEW r \in Accessor, Born(a), r.tree = acc[a].tree, Keyed(r), tile' = None,
             acc' = [acc EXCEPT ![a] = r], UNCHANGED <<nodes, alive, registry>>
      PROVE  TInv'
  <2>1. nodes' \subseteq Places /\ Closed(nodes') /\ \A p \in nodes': p[1] \in alive
    BY <1>1, TFacts
  <2>2. Follows(acc')  BY <1>1, FollowsOne
  <2> QED  BY <1>1, <2>1, <2>2, TKept
<1>2. CASE ClearAccessor(a)
  <2>1. Born(a) /\ acc[a].tree \in Trees \cup {None}  BY <1>2, TFacts DEF ClearAccessor
  <2> QED  BY <1>1, <1>2, <2>1, KeyedFresh DEF ClearAccessor, Cleared
<1>3. ASSUME NEW level \in 0..1, EraseNode(a, level)  PROVE TInv'
  <2> DEFINE r == IF level = 0 THEN [acc[a] EXCEPT !.key0 = None, !.node0 = None]
                  ELSE [acc[a] EXCEPT !.key1 = None, !.node1 = None]
  <2>1. Born(a) /\ acc[a] \in Accessor /\ Keyed(acc[a])  BY <1>3, TFacts DEF EraseNode
  <2>2. r \in Accessor /\ r.tree = acc[a].tree  BY <2>1 DEF Accessor, Pointers
  <2>3. Keyed(r)
    <3>1. CASE level = 0
      <4>1. r.node0 = None /\ r.node1 = acc[a].node1 /\ r.key1 = acc[a].key1
        BY <2>1, <3>1 DEF Accessor
      <4> HIDE DEF r
      <4>2. Keyed(r)  BY <2>1, <4>1, NoneApart DEF Keyed
      <4> QED  BY <4>2 DEF r
    <3>2. CASE level # 0
      <4>1. r.node1 = None /\ r.node0 = acc[a].node0 /\ r.key0 = acc[a].key0
        BY <2>1, <3>2 DEF Accessor
      <4> HIDE DEF r
      <4>2. Keyed(r)  BY <2>1, <4>1, NoneApart DEF Keyed
      <4> QED  BY <4>2 DEF r
    <3> QED  BY <3>1, <3>2
  <2>4. acc' = [acc EXCEPT ![a] = r] /\ tile' = None /\ UNCHANGED <<nodes, alive, registry>>
    BY <1>3 DEF EraseNode
  <2> HIDE DEF r
  <2> QED  BY <1>1, <2>1, <2>2, <2>3, <2>4
<1>4. ASSUME NEW c \in Coords, Read(a, c)  PROVE TInv'
  <2>1. Usable(a, c) /\ Born(a)  BY <1>4 DEF Read, Usable
  <2> QED  BY <1>1, <1>4, <2>1, KeyedAccessed DEF Read
<1>5. ASSUME NEW c \in Coords, ProbeNode(a, c)  PROVE TInv'
  <2> DEFINE p == Internal(acc[a].tree, c)
             r == IF ~IsHashed1(acc[a], c) /\ p \in nodes THEN Insert1(acc[a], c, p) ELSE acc[a]
  <2>1. Usable(a, c) /\ acc' = [acc EXCEPT ![a] = r] /\ tile' = None
        /\ UNCHANGED <<nodes, alive, registry>>
    BY <1>5 DEF ProbeNode
  <2>2. Born(a) /\ acc[a] \in Accessor /\ Keyed(acc[a]) /\ acc[a].tree \in Trees
    BY <2>1, StartOf
  <2>3. r \in Accessor /\ r.tree = acc[a].tree /\ Keyed(r)  BY <2>2, KeyedInsert1
  <2> HIDE DEF r
  <2> QED  BY <1>1, <2>1, <2>2, <2>3
<1> QED  BY <1>2, <1>3, <1>4, <1>5

LEMMA WritesKeep ==
  ASSUME TInv, NEW a \in Accessors, NEW c \in Coords, Write(a, c) \/ TouchLeaf(a, c)
  PROVE  TInv'
<1>1. /\ Usable(a, c) /\ tile' = None /\ UNCHANGED <<alive, registry>>
      /\ acc' = [acc EXCEPT ![a] = Accessed(acc[a], c, nodes')]
      /\ \E new \in SUBSET Path(acc[a], c): nodes' = nodes \cup new /\ Closed(nodes')
  BY WayPlaces DEF Write, TouchLeaf, Writable
<1>2. \A p \in Path(acc[a], c): p \in Places /\ p[1] \in alive  BY <1>1, WayPlaces
<1>3. nodes' \subseteq Places /\ Closed(nodes') /\ \A p \in nodes': p[1] \in alive
  BY <1>1, <1>2, TFacts
<1>4. Follows(acc')  BY <1>1, KeyedAccessed, FollowsOne, StartOf
<1> QED  BY <1>1, <1>3, <1>4, TKept

LEMMA AddLeafKeeps ==
  ASSUME TInv, NEW a \in Accessors, NEW c \in Coords, AddLeaf(a, c)
  PROVE  TInv'
<1>1. Usable(a, c) /\ tile' = None /\ UNCHANGED <<alive, registry>>  BY DEF AddLeaf, Writable
<1>2. PICK u \in alive:
        (IF IsHashed1(acc[a], c) THEN acc[a].node1 ELSE Internal(acc[a].tree, c)) = Internal(u, c)
  BY <1>1, TopPlace
<1>3. u \in Trees /\ Under(Internal(u, c), c) = Leaf(u, c)  BY TFacts, LeafOf
<1>4. /\ nodes' = nodes \cup {Internal(u, c), Leaf(u, c)}
      /\ acc' = Retargeted([acc EXCEPT ![a] = Insert1(acc[a], c, Internal(u, c))],
                           Deleted({Leaf(u, c)} \cap nodes))
  BY <1>2, <1>3 DEF AddLeaf
<1>5. nodes' \subseteq Places /\ Closed(nodes') /\ \A p \in nodes': p[1] \in alive
  <2>1. Closed(nodes')  BY <1>3, <1>4, WholeWay, TFacts
  <2>2. \A p \in {Internal(u, c), Leaf(u, c)}: p \in Places /\ p[1] = u  BY <1>3, Way
  <2> QED  BY <1>4, <2>1, <2>2, TFacts
<1>6. Born(a) /\ acc[a] \in Accessor /\ Keyed(acc[a])  BY <1>1, StartOf
<1>7. Follows([acc EXCEPT ![a] = Insert1(acc[a], c, Internal(u, c))])
  BY <1>3, <1>6, KeyedInsert1, FollowsOne
<1>8. {Leaf(u, c)} \cap nodes \subseteq Places  BY TFacts
<1>9. Follows(acc')  BY <1>4, <1>7, <1>8, FollowsDeleted
<1> QED  BY <1>1, <1>5, <1>9, TKept

\* What addTile() leaves, of a tree or of an accessor.
LEMMA TileNodes ==
  ASSUME TInv, NEW u \in alive, NEW c \in Coords, NEW level \in 0..2, NEW gone,
         gone = Covered(level, IF level = 2 THEN Internal(u, c) ELSE Leaf(u, c))
           \/ (level = 2 /\ gone = {}),
         nodes' = (nodes \ gone) \cup
           (IF level = 0 THEN {Internal(u, c), Leaf(u, c)}
            ELSE IF level = 1 THEN {Internal(u, c)} ELSE {})
  PROVE  /\ nodes' \subseteq Places /\ Closed(nodes') /\ \A p \in nodes': p[1] \in alive
         /\ gone \subseteq Places
<1>1. nodes \subseteq Places /\ Closed(nodes) /\ (\A p \in nodes: p[1] \in alive) /\ u \in Trees
  BY TFacts
<1>2. /\ Internal(u, c) \in Places /\ Internal(u, c)[1] = u
      /\ Leaf(u, c) \in Places /\ Leaf(u, c)[1] = u
  BY <1>1, Way
<1>3. gone \subseteq Places  BY <1>1 DEF Covered
<1>4. Closed(nodes')
  <2>1. CASE level = 0
    <3>1. gone = {}  BY <2>1 DEF Covered
    <3> QED  BY <1>1, <2>1, <3>1, WholeWay
  <2>2. CASE level = 1
    <3>1. gone = Covered(1, Leaf(u, c))  BY <2>2
    <3>2. nodes' = (nodes \ gone) \cup {Internal(u, c)}  BY <2>2
    <3>3. Closed((nodes \ Covered(1, Leaf(u, c))) \cup {Internal(u, c)})  BY <1>1, CoveredOK
    <3> QED  BY <3>1, <3>2, <3>3
  <2>3. CASE level = 2
    <3>1. nodes' = nodes \ gone /\ (gone = {} \/ gone = Covered(2, Internal(u, c)))  BY <2>3
    <3> QED  BY <1>1, <3>1, CoveredOK
  <2> QED  BY <2>1, <2>2, <2>3
<1> QED  BY <1>1, <1>2, <1>3, <1>4

LEMMA AddTileKeeps ==
  ASSUME TInv, NEW a \in Accessors, NEW c \in Coords, NEW level \in 0..2, AddTile(a, level, c)
  PROVE  TInv'
<1> DEFINE r == acc[a]
<1>1. Usable(a, c) /\ UNCHANGED <<alive, registry>>  BY DEF AddTile, Writable
<1>2. PICK u \in alive:
        (IF IsHashed1(r, c) THEN r.node1 ELSE Internal(r.tree, c)) = Internal(u, c)
  BY <1>1, TopPlace
<1>3. u \in Trees /\ Under(Internal(u, c), c) = Leaf(u, c)  BY TFacts, LeafOf
<1> DEFINE place == IF level = 2 THEN Internal(u, c) ELSE Leaf(u, c)
           gone == IF level = 2 /\ IsHashed1(r, c) THEN {} ELSE Covered(level, place)
           new == IF level = 0 THEN {Internal(u, c), place}
                  ELSE IF level = 1 THEN {Internal(u, c)} ELSE {}
           cached == IF level = 0 THEN Insert0(Insert1(r, c, Internal(u, c)), c, place)
                     ELSE IF level = 1 THEN Insert1(r, c, Internal(u, c)) ELSE r
<1>4. /\ nodes' = (nodes \ gone) \cup new
      /\ acc' = Retargeted([acc EXCEPT ![a] = cached], Deleted(gone))
      /\ tile' = IF level = 0 THEN None ELSE place
  BY <1>2, <1>3 DEF AddTile
<1>5. Born(a) /\ r \in Accessor /\ Keyed(r)  BY <1>1, StartOf
<1>6. cached \in Accessor /\ cached.tree = r.tree /\ Keyed(cached)
  <2> DEFINE m == Insert1(r, c, Internal(u, c))
  <2>1. m \in Accessor /\ m.tree = r.tree /\ Keyed(m)  BY <1>3, <1>5, KeyedInsert1
  <2> HIDE DEF m
  <2>2. CASE level = 0
    <3>1. cached = Insert0(m, c, Leaf(u, c))  BY <2>2 DEF m
    <3> HIDE DEF cached
    <3> QED  BY <1>3, <2>1, <3>1, KeyedInsert0
  <2>3. CASE level # 0
    <3>1. cached \in {m, r}  BY <2>3 DEF m
    <3> HIDE DEF cached
    <3> QED  BY <1>5, <2>1, <3>1
  <2> QED  BY <2>2, <2>3
<1>7. /\ nodes' \subseteq Places /\ Closed(nodes') /\ \A p \in nodes': p[1] \in alive
      /\ gone \subseteq Places
  <2>1. gone = Covered(level, place) \/ (level = 2 /\ gone = {})  OBVIOUS
  <2>2. nodes' = (nodes \ gone) \cup
          (IF level = 0 THEN {Internal(u, c), Leaf(u, c)}
           ELSE IF level = 1 THEN {Internal(u, c)} ELSE {})
    BY <1>4
  <2> HIDE DEF gone
  <2> QED  BY <2>1, <2>2, TileNodes
<1>8. tile' \in Places \cup {None}  BY <1>3, <1>4, Way
<1> HIDE DEF cached, gone
<1>9. Follows([acc EXCEPT ![a] = cached])  BY <1>5, <1>6, FollowsOne
<1>10. Follows(acc')  BY <1>4, <1>7, <1>9, FollowsDeleted
<1> QED  BY <1>1, <1>7, <1>8, <1>10, TKept

\* An accessor that comes, goes or changes its tree.
LEMMA MovesKeep ==
  ASSUME TInv, UNCHANGED <<alive, nodes>>, tile' = None, NEW a \in Accessors,
         NEW r \in Accessor \cup {Unborn}, acc' = [acc EXCEPT ![a] = r],
         r # Unborn => r.tree \in alive \cup {None} /\ Keyed(r),
         registry' \in [Trees -> SUBSET Accessors],
         \A t \in Trees: registry'[t] = IF r # Unborn /\ r.tree = t THEN registry[t] \cup {a}
                                                                  ELSE registry[t] \ {a}
  PROVE  TInv'
<1>1. acc \in [Accessors -> Accessor \cup {Unborn}]  BY TFacts
<1>2. acc' \in [Accessors -> Accessor \cup {Unborn}] /\ acc'[a] = r
      /\ \A b \in Accessors \ {a}: acc'[b] = acc[b]  BY <1>1
<1>3. TypeOK'  BY <1>2 DEF TInv, TypeOK, Closed
<1>4. RegistryExact'
  <2>1. ASSUME NEW t \in Trees  PROVE registry'[t] = {b \in Accessors: Born(b)' /\ acc'[b].tree = t}
    <3>1. registry[t] = {b \in Accessors: Born(b) /\ acc[b].tree = t}  BY DEF TInv, RegistryExact
    <3> QED  BY <1>2, <3>1 DEF Born
  <2>2. ASSUME NEW b \in Accessors, Born(b)'  PROVE acc'[b].tree \in alive' \cup {None}
    BY <1>2, <2>2 DEF TInv, RegistryExact, Born
  <2> QED  BY <2>1, <2>2 DEF RegistryExact
<1>5. KeysMatch'
  <2>1. \A b \in Accessors: acc'[b] # Unborn => Keyed(acc'[b])  BY <1>2 DEF TInv, KeysMatch, Born
  <2> QED  BY <2>1 DEF KeysMatch, Born, Keyed
<1> QED  BY <1>3, <1>4, <1>5 DEF TInv

LEMMA ComesAndGoes ==
  ASSUME TInv, NEW a \in Accessors,
         \/ \E t \in Trees: Construct(a, t)
         \/ \E b \in Accessors: CopyConstruct(a, b) \/ Assign(a, b)
         \/ Destroy(a)
  PROVE  TInv'
<1>1. ASSUME NEW t \in Trees, Construct(a, t)  PROVE TInv'
  <2>1. Fresh(t) \in Accessor /\ Fresh(t).tree = t /\ Keyed(Fresh(t)) /\ Fresh(t) # Unborn
    BY KeyedFresh
  <2>2. /\ registry' \in [Trees -> SUBSET Accessors]
        /\ \A u \in Trees: registry'[u] = IF t = u THEN registry[u] \cup {a} ELSE registry[u] \ {a}
    BY <1>1, AttachedOK DEF Construct, TInv
  <2>3. acc' = [acc EXCEPT ![a] = Fresh(t)] /\ UNCHANGED <<alive, nodes>> /\ tile' = None /\ t \in alive
    BY <1>1 DEF Construct
  <2> QED  BY <2>1, <2>2, <2>3, MovesKeep
<1>2. ASSUME NEW b \in Accessors, CopyConstruct(a, b)  PROVE TInv'
  <2> DEFINE r == acc[b]
  <2>1. /\ acc' = [acc EXCEPT ![a] = r] /\ UNCHANGED <<alive, nodes>> /\ tile' = None
        /\ registry' = Attached(a, r.tree) /\ ~Born(a) /\ Born(b)
    BY <1>2 DEF CopyConstruct
  <2>2. r \in Accessor /\ Keyed(r) /\ r # Unborn /\ r.tree \in alive \cup {None}
        /\ r.tree \in Trees \cup {None}
    BY <2>1, TFacts DEF Born
  <2>3. /\ registry' \in [Trees -> SUBSET Accessors]
        /\ \A u \in Trees: registry'[u] = IF r.tree = u THEN registry[u] \cup {a} ELSE registry[u] \ {a}
    BY <2>1, <2>2, AttachedOK DEF TInv
  <2> HIDE DEF r
  <2> QED  BY <2>1, <2>2, <2>3, MovesKeep
<1>3. ASSUME NEW b \in Accessors, Assign(a, b)  PROVE TInv'
  <2> DEFINE r == acc[b]
  <2>1. /\ acc' = [acc EXCEPT ![a] = r] /\ UNCHANGED <<alive, nodes>> /\ tile' = None
        /\ Born(a) /\ Born(b)
        /\ registry' = [t \in Trees |->
             (registry[t] \ {x \in {a}: acc[a].tree = t}) \cup {x \in {a}: r.tree = t}]
    BY <1>3 DEF Assign
  <2>2. r \in Accessor /\ Keyed(r) /\ r # Unborn /\ r.tree \in alive \cup {None}
    BY <2>1, TFacts DEF Born
  <2>3. /\ registry \in [Trees -> SUBSET Accessors]
        /\ \A t \in Trees: a \in registry[t] <=> acc[a].tree = t
    BY <2>1 DEF TInv, TypeOK, RegistryExact
  <2> HIDE DEF r
  <2>4. /\ registry' \in [Trees -> SUBSET Accessors]
        /\ \A u \in Trees: registry'[u] = IF r.tree = u THEN registry[u] \cup {a} ELSE registry[u] \ {a}
    BY <2>1, <2>3
  <2> QED  BY <2>1, <2>2, <2>4, MovesKeep
<1>4. CASE Destroy(a)
  <2>1. /\ acc' = [acc EXCEPT ![a] = Unborn] /\ UNCHANGED <<alive, nodes>> /\ tile' = None
        /\ Born(a) /\ registry' = [t \in Trees |-> registry[t] \ {x \in {a}: acc[a].tree = t}]
    BY <1>4 DEF Destroy
  <2>2. /\ registry \in [Trees -> SUBSET Accessors]
        /\ \A t \in Trees: a \in registry[t] <=> acc[a].tree = t
    BY <2>1 DEF TInv, TypeOK, RegistryExact
  <2>3. /\ registry' \in [Trees -> SUBSET Accessors]
        /\ \A u \in Trees: registry'[u] = registry[u] \ {a}
    BY <2>1, <2>2
  <2> QED  BY <2>1, <2>3, MovesKeep
<1> QED  BY <1>1, <1>2, <1>3, <1>4

-----------------------------------------------------------------------------
(* The steps of trees, whatever callers delete.                            *)

LEMMA TreeWritesKeep ==
  ASSUME TInv, NEW t \in Trees, NEW c \in Coords,
         \/ TreeWrite(t, c) \/ TreeTouchLeaf(t, c) \/ TreeAddLeaf(t, c)
         \/ \E level \in 0..2: TreeAddTile(t, level, c)
  PROVE  TInv'
<1>1. nodes \subseteq Places /\ Closed(nodes) /\ (\A p \in nodes: p[1] \in alive)  BY TFacts
<1>2. CASE TreeWrite(t, c) \/ TreeTouchLeaf(t, c) \/ TreeAddLeaf(t, c)
  <2>1. /\ t \in alive /\ tile' = None /\ UNCHANGED <<alive, registry>> /\ Closed(nodes')
        /\ \E new \in SUBSET {Internal(t, c), Leaf(t, c)}: nodes' = nodes \cup new
        /\ acc' = acc \/ acc' = Retargeted(acc, Deleted({Leaf(t, c)} \cap nodes))
    <3>1. CASE TreeWrite(t, c)  BY <3>1 DEF TreeWrite
    <3>2. CASE TreeTouchLeaf(t, c)
      <4>1. /\ t \in alive /\ nodes' = nodes \cup {Internal(t, c), Leaf(t, c)} /\ tile' = None
            /\ UNCHANGED <<alive, registry, acc>>
        BY <3>2 DEF TreeTouchLeaf
      <4>2. Closed(nodes \cup {Internal(t, c), Leaf(t, c)})  BY <1>1, WholeWay
      <4> QED  BY <4>1, <4>2
    <3>3. CASE TreeAddLeaf(t, c)
      <4>1. /\ t \in alive /\ nodes' = nodes \cup {Internal(t, c), Leaf(t, c)} /\ tile' = None
            /\ acc' = Retargeted(acc, Deleted({Leaf(t, c)} \cap nodes))
            /\ UNCHANGED <<alive, registry>>
        BY <3>3 DEF TreeAddLeaf
      <4>2. Closed(nodes \cup {Internal(t, c), Leaf(t, c)})  BY <1>1, WholeWay
      <4> QED  BY <4>1, <4>2
    <3> QED  BY <1>2, <3>1, <3>2, <3>3
  <2>2. nodes' \subseteq Places /\ \A p \in nodes': p[1] \in alive  BY <1>1, <2>1, Way
  <2>3. {Leaf(t, c)} \cap nodes \subseteq Places  BY <1>1
  <2>4. Follows(acc')  BY <2>1, <2>3, FollowsNow, FollowsDeleted
  <2> QED  BY <2>1, <2>2, <2>4, TKept
<1>3. ASSUME NEW level \in 0..2, TreeAddTile(t, level, c)  PROVE TInv'
  <2> DEFINE place == IF level = 2 THEN Internal(t, c) ELSE Leaf(t, c)
             gone == Covered(level, place)
  <2>1. /\ t \in alive /\ UNCHANGED <<alive, registry>>
        /\ nodes' = (nodes \ gone) \cup
             (IF level = 0 THEN {Internal(t, c), Leaf(t, c)}
              ELSE IF level = 1 THEN {Internal(t, c)} ELSE {})
        /\ acc' = Retargeted(acc, Deleted(gone))
        /\ tile' = IF level = 0 THEN None ELSE place
    BY <1>3 DEF TreeAddTile
  <2>2. tile' \in Places \cup {None}  BY <2>1, Way
  <2> HIDE DEF gone
  <2>3. /\ nodes' \subseteq Places /\ Closed(nodes') /\ \A p \in nodes': p[1] \in alive
        /\ gone \subseteq Places
    BY <2>1, TileNodes DEF gone
  <2>4. Follows(acc')  BY <2>1, <2>3, FollowsNow, FollowsDeleted
  <2> QED  BY <2>1, <2>2, <2>3, <2>4, TKept
<1> QED  BY <1>2, <1>3

LEMMA StealsKeep ==
  ASSUME TInv, NEW t \in Trees,
         \/ \E p \in Places: StealNode(t, p)
         \/ \E level \in 0..1: StealNodes(t, level)
  PROVE  TInv'
<1>1. nodes \subseteq Places /\ Closed(nodes) /\ (\A p \in nodes: p[1] \in alive)  BY TFacts
<1>2. ASSUME NEW taken \in SUBSET Places, nodes' = nodes \ taken, Closed(nodes'), tile' = None,
             UNCHANGED <<alive, registry>>,
             acc' = Retargeted(ClearedAll(t), [q \in taken |-> Away])
      PROVE  TInv'
  <2>1. \A p \in taken: [q \in taken |-> Away][p] \in Fates(p)  BY DEF Fates
  <2>2. Follows(acc')  BY <1>2, <2>1, FollowsCleared, FollowsRetargeted
  <2> QED  BY <1>1, <1>2, <2>2, TKept
<1>3. ASSUME NEW p \in Places, StealNode(t, p)  PROVE TInv'
  <2> DEFINE taken == Branch(p) \cap nodes
  <2>1. taken \in SUBSET Places /\ Closed(nodes \ Branch(p))  BY <1>1, BranchCut
  <2>2. p \notin nodes => taken = {}
    <3> SUFFICES ASSUME p \notin nodes, NEW q \in taken  PROVE FALSE  OBVIOUS
    <3>1. CASE p \in Leaves  BY <3>1 DEF Branch
    <3>2. CASE p \notin Leaves
      <4>1. p \in Internals /\ p = <<p[1], p[2]>>  BY <3>2, InternalPlace DEF Places
      <4>2. q \in Leaves /\ q[1] = p[1] /\ q[2] = p[2] /\ q \in nodes  BY <3>2 DEF Branch
      <4>3. <<q[1], q[2]>> \in nodes  BY <1>1, <4>2 DEF Closed
      <4> QED  BY <4>1, <4>2, <4>3
    <3> QED  BY <3>1, <3>2
  <2>3. nodes' = nodes \ taken /\ Closed(nodes')  BY <1>1, <1>3, <2>1, <2>2 DEF StealNode
  <2>4. /\ tile' = None /\ UNCHANGED <<alive, registry>>
        /\ acc' = Retargeted(ClearedAll(t), [q \in taken |-> Away])
    BY <1>3 DEF StealNode
  <2> HIDE DEF taken
  <2> QED  BY <1>2, <2>1, <2>3, <2>4
<1>4. ASSUME NEW level \in 0..1, StealNodes(t, level)  PROVE TInv'
  <2> DEFINE taken == IF level = 0 THEN InTree(t) \cap Leaves ELSE InTree(t)
  <2>1. /\ nodes' = nodes \ taken /\ acc' = Retargeted(ClearedAll(t), [q \in taken |-> Away])
        /\ tile' = None /\ UNCHANGED <<alive, registry>>
    BY <1>4 DEF StealNodes
  <2>2. taken \in SUBSET Places /\ \A q \in taken: q[1] = t  BY <1>1 DEF InTree
  <2>3. Closed(nodes')
    <3> SUFFICES ASSUME NEW q \in nodes', q \in Leaves  PROVE <<q[1], q[2]>> \in nodes'
      BY DEF Closed
    <3>1. q \in nodes /\ q[1] # t  BY <2>1 DEF InTree
    <3>2. <<q[1], q[2]>> \in nodes  BY <1>1, <3>1 DEF Closed
    <3>3. <<q[1], q[2]>>[1] # t  BY <3>1
    <3> QED  BY <2>1, <2>2, <3>2, <3>3
  <2> HIDE DEF taken
  <2> QED  BY <1>2, <2>1, <2>2, <2>3
<1> QED  BY <1>3, <1>4

LEMMA RebuildKeeps ==
  ASSUME TInv, NEW t \in Trees, NEW ns \in Shapes(t), Rebuild(t, ns)
  PROVE  TInv'
<1>1. /\ t \in alive /\ nodes' = Replaced(t, ns) /\ tile' = None /\ UNCHANGED <<alive, registry>>
      /\ acc' = Retargeted(ClearedAll(t), Deleted(InTree(t) \ ns))
  BY DEF Rebuild
<1>2. nodes' \subseteq Places /\ Closed(nodes') /\ \A p \in nodes': p[1] \in alive
  BY <1>1, TFacts, ReplacedOK
<1>3. InTree(t) \ ns \subseteq Places  BY TFacts DEF InTree
<1>4. Follows(acc')  BY <1>1, <1>3, FollowsCleared, FollowsDeleted
<1> QED  BY <1>1, <1>2, <1>4, TKept

LEMMA MergeKeeps ==
  ASSUME TInv, NEW t \in Trees, NEW o \in Trees, Merge(t, o)
  PROVE  TInv'
<1>1. /\ t \in alive /\ t # o /\ tile' = None /\ UNCHANGED <<alive, registry>>
      /\ \E ns \in Shapes(t): nodes' = Replaced(t, ns) \ InTree(o)
      /\ acc' = [a \in Accessors |-> IF a \in registry[o] THEN Cleared(acc[a]) ELSE ClearedAll(t)[a]]
  BY DEF Merge
<1>2. nodes' \subseteq Places /\ Closed(nodes') /\ \A q \in nodes': q[1] \in alive
  BY <1>1, EmptiedNodes DEF TInv
<1>3. acc' = [a \in Accessors |-> IF a \in registry[o] THEN ClearedAll(o)[a] ELSE ClearedAll(t)[a]]
  BY <1>1 DEF ClearedAll
<1>4. Follows(ClearedAll(t)) /\ Follows(ClearedAll(o))  BY FollowsCleared
<1>5. Follows(acc')  BY <1>3, <1>4 DEF Follows
<1> QED  BY <1>1, <1>2, <1>5, TKept

LEMMA CombineKeeps ==
  ASSUME TInv, NEW t \in Trees, NEW o \in Trees, NEW prune \in BOOLEAN, Combine(t, o, prune)
  PROVE  TInv'
<1> DEFINE fate == [p \in InTree(o) |-> IF At(t, p) \in nodes THEN Freed ELSE At(t, p)]
           both == InTree(t) \cup {At(t, p): p \in InTree(o)}
<1>1. /\ t \in alive /\ t # o /\ tile' = None /\ UNCHANGED <<alive, registry>>
      /\ \E ns \in Shapes(t):
           /\ nodes' = Replaced(t, ns) \ InTree(o)
           /\ acc' = Retargeted(Retargeted(ClearedAll(t), fate), Deleted(both \ ns))
  BY DEF Combine
<1>2. PICK ns \in Shapes(t):
        /\ nodes' = Replaced(t, ns) \ InTree(o)
        /\ acc' = Retargeted(Retargeted(ClearedAll(t), fate), Deleted(both \ ns))
  BY <1>1
<1>3. nodes' \subseteq Places /\ Closed(nodes') /\ \A q \in nodes': q[1] \in alive
  BY <1>1, <1>2, EmptiedNodes DEF TInv
<1>4. InTree(o) \subseteq Places /\ InTree(t) \subseteq Places  BY TFacts DEF InTree
<1>5. \A p \in DOMAIN fate: p \in Places /\ fate[p] \in Fates(p)  BY <1>4 DEF Fates
<1>6. both \subseteq Places  BY <1>4, Moved DEF Places
<1> HIDE DEF fate, both
<1>7. Follows(Retargeted(ClearedAll(t), fate))  BY <1>5, FollowsCleared, FollowsRetargeted
<1>8. Follows(acc')  BY <1>2, <1>6, <1>7, FollowsDeleted
<1> QED  BY <1>1, <1>3, <1>8, TKept

LEMMA DestroyTreeKeeps ==
  ASSUME TInv, NEW t \in Trees, DestroyTree(t)
  PROVE  TInv'
<1>1. /\ alive' = alive \ {t} /\ nodes' = nodes \ InTree(t) /\ tile' = None
      /\ acc' = [a \in Accessors |-> IF a \in registry[t] THEN Fresh(None) ELSE acc[a]]
      /\ registry' = [registry EXCEPT ![t] = {}]
  BY DEF DestroyTree
<1>2. nodes \subseteq Places /\ Closed(nodes) /\ (\A q \in nodes: q[1] \in alive)
      /\ alive \subseteq Trees /\ registry \in [Trees -> SUBSET Accessors]
      /\ acc \in [Accessors -> Accessor \cup {Unborn}]
  BY DEF TInv, TypeOK
<1>3. nodes' = {q \in nodes: q[1] # t}  BY <1>1 DEF InTree
<1>4. Closed(nodes') /\ nodes' \subseteq Places /\ \A q \in nodes': q[1] \in alive'
  BY <1>1, <1>2, <1>3, EmptiedOK
<1>5. \A a \in Accessors: a \in registry[t] <=> Born(a) /\ acc[a].tree = t
  BY DEF TInv, RegistryExact
<1>6. Fresh(None) \in Accessor /\ Fresh(None).tree = None /\ Keyed(Fresh(None))
      /\ Fresh(None) # Unborn
  BY KeyedFresh
<1>7. ASSUME NEW a \in Accessors
      PROVE  acc'[a] = IF Born(a) /\ acc[a].tree = t THEN Fresh(None) ELSE acc[a]
  BY <1>1, <1>5
<1>8. acc' \in [Accessors -> Accessor \cup {Unborn}]  BY <1>1, <1>2, <1>6
<1>9. TypeOK'  BY <1>1, <1>2, <1>4, <1>8 DEF TypeOK
<1>10. \A a \in Accessors: Born(a)' <=> Born(a)  BY <1>6, <1>7 DEF Born
<1>11. RegistryExact'
  <2>1. ASSUME NEW u \in Trees  PROVE registry'[u] = {a \in Accessors: Born(a)' /\ acc'[a].tree = u}
    <3>1. registry[u] = {a \in Accessors: Born(a) /\ acc[a].tree = u}  BY DEF TInv, RegistryExact
    <3>2. u # None /\ t # None  BY NoneApart
    <3>3. CASE u = t  BY <1>1, <1>2, <1>6, <1>7, <1>10, <3>2, <3>3
    <3>4. CASE u # t
      <4>1. registry'[u] = registry[u]  BY <1>1, <1>2, <3>4
      <4>2. \A a \in Accessors: Born(a) => (acc'[a].tree = u <=> acc[a].tree = u)
        BY <1>6, <1>7, <3>2, <3>4
      <4> QED  BY <1>10, <3>1, <4>1, <4>2
    <3> QED  BY <3>3, <3>4
  <2>2. ASSUME NEW a \in Accessors, Born(a)'  PROVE acc'[a].tree \in alive' \cup {None}
    <3>1. acc[a].tree \in alive \cup {None}  BY <1>10, <2>2 DEF TInv, RegistryExact
    <3> QED  BY <1>1, <1>6, <1>7, <3>1, <1>10, <2>2
  <2> QED  BY <2>1, <2>2 DEF RegistryExact
<1>12. KeysMatch'
  <2>1. \A a \in Accessors: Born(a) => Keyed(acc'[a])  BY <1>6, <1>7, TFacts
  <2> QED  BY <1>10, <2>1 DEF KeysMatch, Keyed
<1> QED  BY <1>9, <1>11, <1>12 DEF TInv

LEMMA TInvStep == TInv /\ [Next]_vars => TInv'
<1> SUFFICES ASSUME TInv, [Next]_vars  PROVE TInv'  OBVIOUS
<1>1. ASSUME NEW a \in Accessors, AccessorStep(a)  PROVE TInv'
  <2>1. ASSUME NEW c \in Coords, \/ Write(a, c) \/ TouchLeaf(a, c) \/ AddLeaf(a, c)
                                 \/ \E level \in 0..2: AddTile(a, level, c)
        PROVE  TInv'
    BY <2>1, WritesKeep, AddLeafKeeps, AddTileKeeps
  <2> QED  BY <1>1, <2>1, ComesAndGoes, ReadsKeep DEF AccessorStep
<1>2. ASSUME NEW t \in Trees, TreeStep(t)  PROVE TInv'
  <2>1. CASE Prune(t) \/ VoxelizeActiveTiles(t) \/ Rework(t)
    BY <2>1, RebuildKeeps DEF Prune, VoxelizeActiveTiles, Rework
  <2>2. CASE Clear(t)
    <3>1. {} \in Shapes(t)  BY DEF Shapes, Closed
    <3> QED  BY <2>2, <3>1, RebuildKeeps DEF Clear
  <2>3. ASSUME NEW o \in Trees, Merge(t, o) \/ \E prune \in BOOLEAN: Combine(t, o, prune)
        PROVE  TInv'
    BY <2>3, MergeKeeps, CombineKeeps
  <2> QED  BY <1>2, <2>1, <2>2, <2>3, TreeWritesKeep, StealsKeep, DestroyTreeKeeps DEF TreeStep
<1>3. CASE UNCHANGED vars
  BY <1>3 DEF vars, TInv, TypeOK, Closed, RegistryExact, KeysMatch, Keyed, Born
<1> QED  BY <1>1, <1>2, <1>3 DEF Next

LEMMA TInvHolds == Spec => []TInv
<1>1. Init => TInv
  BY DEF Init, TInv, TypeOK, Closed, RegistryExact, KeysMatch, Born
<1> QED  BY <1>1, TInvStep, PTL DEF Spec

-----------------------------------------------------------------------------
(* The theorems.                                                           *)

LEMMA StepOK == Careful /\ IInv /\ [Next]_vars => IInv'
<1> SUFFICES ASSUME Careful, IInv, [Next]_vars  PROVE IInv'  OBVIOUS
<1>1. ASSUME NEW a \in Accessors, AccessorStep(a)  PROVE IInv'
  <2>1. CASE \E t \in Trees: Construct(a, t)  BY <2>1, ConstructOK
  <2>2. CASE \E b \in Accessors: CopyConstruct(a, b) \/ Assign(a, b)
    BY <2>2, CopyConstructOK, AssignOK
  <2>3. CASE Destroy(a) \/ ClearAccessor(a)  BY <2>3, DestroyOK, ClearAccessorOK
  <2>4. CASE \E level \in 0..1: EraseNode(a, level)  BY <2>4, EraseNodeOK
  <2>5. ASSUME NEW c \in Coords,
               \/ Read(a, c) \/ ProbeNode(a, c) \/ Write(a, c) \/ TouchLeaf(a, c) \/ AddLeaf(a, c)
               \/ \E level \in 0..2: AddTile(a, level, c)
        PROVE  IInv'
    BY <2>5, ReadOK, ProbeNodeOK, WriteOK, TouchLeafOK, AddLeafOK, AddTileOK
  <2> QED  BY <1>1, <2>1, <2>2, <2>3, <2>4, <2>5 DEF AccessorStep
<1>2. ASSUME NEW t \in Trees, TreeStep(t)  PROVE IInv'
  <2>1. ASSUME NEW c \in Coords,
               \/ TreeWrite(t, c) \/ TreeTouchLeaf(t, c) \/ TreeAddLeaf(t, c)
               \/ \E level \in 0..2: TreeAddTile(t, level, c)
        PROVE  IInv'
    BY <2>1, TreeWriteOK, TreeTouchLeafOK, TreeAddLeafOK, TreeAddTileOK
  <2>2. CASE \E p \in Places: StealNode(t, p)  BY <2>2, StealNodeOK
  <2>3. CASE \E level \in 0..1: StealNodes(t, level)  BY <2>3, StealNodesOK
  <2>4. CASE Prune(t) \/ VoxelizeActiveTiles(t) \/ Rework(t)
    BY <2>4, RebuildOK DEF Prune, VoxelizeActiveTiles, Rework
  <2>5. CASE Clear(t)  BY <2>5, ClearOK
  <2>6. ASSUME NEW o \in Trees, Merge(t, o) \/ \E prune \in BOOLEAN: Combine(t, o, prune)
        PROVE  IInv'
    BY <2>6, MergeOK, CombineOK
  <2>7. CASE DestroyTree(t)  BY <2>7, DestroyTreeOK
  <2> QED  BY <1>2, <2>1, <2>2, <2>3, <2>4, <2>5, <2>6, <2>7 DEF TreeStep
<1>3. CASE UNCHANGED vars
  BY <1>3 DEF vars, IInv, TypeOK, Closed, RegistryExact, CachedOnPath, Born
<1> QED  BY <1>1, <1>2, <1>3 DEF Next

LEMMA IInvHolds ==
  ASSUME Careful
  PROVE  Spec => []IInv
<1>1. Init => IInv  BY InitOK
<1>2. IInv /\ [Next]_vars => IInv'  BY StepOK
<1> QED  BY <1>1, <1>2, PTL DEF Spec

\* Leaves hang in internal nodes of existing trees; accessors and registries are
\* of their types, for any number of trees, accessors and nodes, also where callers
\* delete nodes that accessors cache.
THEOREM TypeSafe == Spec => []TypeOK
<1>1. TInv => TypeOK  BY DEF TInv
<1> QED  BY <1>1, TInvHolds, PTL

\* Through any sequence of constructions, copies, assignments and destructions, an
\* accessor is in the registry of its tree and in no other, whatever it caches.
THEOREM RegistrySafe == Spec => []RegistryExact
<1>1. TInv => RegistryExact  BY DEF TInv
<1> QED  BY <1>1, TInvHolds, PTL

\* No accessor holds a pointer to a deleted or moved node, or to one that a descent
\* from the root would not reach, if callers leave cached nodes to the calls that
\* clear the accessors.
THEOREM CacheSafe ==
  ASSUME Careful
  PROVE  Spec => []CachedOnPath
<1>1. IInv => CachedOnPath  BY DEF IInv
<1> QED  BY <1>1, IInvHolds, PTL

-----------------------------------------------------------------------------
(* Tiles in place of leaves.                                               *)

LEMMA TileSet ==
  ASSUME TInv, NEW t \in Trees, NEW c \in Coords,
         nodes' = (nodes \ Covered(1, Leaf(t, c))) \cup {Internal(t, c)}, tile' = Leaf(t, c)
  PROVE  tile' \notin nodes' /\ <<tile'[1], tile'[2]>> \in nodes'
<1>1. Covered(1, Leaf(t, c)) = {Leaf(t, c)} \cap nodes  BY CoveredOK, TFacts
<1>2. Leaf(t, c) # Internal(t, c)  BY Way, LeafOf
<1>3. <<Leaf(t, c)[1], Leaf(t, c)[2]>> = Internal(t, c)  BY Way
<1> QED  BY <1>1, <1>2, <1>3

\* The tile goes where the descent started, be that a node of another tree.
LEMMA AddTileSets ==
  ASSUME TInv, NEW a \in Accessors, NEW c \in Coords, NEW level \in 0..2,
         AddTile(a, level, c), tile' \in Leaves
  PROVE  tile' \notin nodes' /\ <<tile'[1], tile'[2]>> \in nodes'
<1> DEFINE r == acc[a]
<1>1. Usable(a, c)  BY DEF AddTile, Writable
<1>2. PICK u \in alive:
        (IF IsHashed1(r, c) THEN r.node1 ELSE Internal(r.tree, c)) = Internal(u, c)
  BY <1>1, TopPlace
<1> DEFINE p == Internal(u, c)
<1>3. u \in Trees  BY TFacts
<1>4. p \notin Leaves /\ None \notin Leaves /\ Under(p, c) = Leaf(u, c)
  BY <1>3, Way, LeafOf, NoneApart
<1>5. tile' = IF level = 0 THEN None ELSE IF level = 2 THEN p ELSE Under(p, c)
  BY <1>2 DEF AddTile
<1>6. level = 1  BY <1>4, <1>5
<1>7. nodes' = (nodes \ Covered(1, Under(p, c))) \cup {p}  BY <1>2, <1>6 DEF AddTile
<1> QED  BY <1>3, <1>4, <1>5, <1>6, <1>7, TileSet

LEMMA TreeAddTileSets ==
  ASSUME TInv, NEW t \in Trees, NEW c \in Coords, NEW level \in 0..2,
         TreeAddTile(t, level, c), tile' \in Leaves
  PROVE  tile' \notin nodes' /\ <<tile'[1], tile'[2]>> \in nodes'
<1>1. Internal(t, c) \notin Leaves /\ None \notin Leaves  BY Way, NoneApart
<1>2. tile' = IF level = 0 THEN None ELSE IF level = 2 THEN Internal(t, c) ELSE Leaf(t, c)
  BY DEF TreeAddTile
<1>3. level = 1  BY <1>1, <1>2
<1>4. nodes' = (nodes \ Covered(1, Leaf(t, c))) \cup {Internal(t, c)}  BY <1>3 DEF TreeAddTile
<1> QED  BY <1>2, <1>3, <1>4, TileSet

LEMMA TileStep ==
  ASSUME TInv, Next, tile' \in Leaves
  PROVE  tile' \notin nodes' /\ <<tile'[1], tile'[2]>> \in nodes'
<1>1. tile' # None  BY NoneApart
<1>2. CASE \E a \in Accessors: AccessorStep(a)
  <2>1. PICK a \in Accessors, c \in Coords, level \in 0..2: AddTile(a, level, c)
    BY <1>1, <1>2 DEF AccessorStep, Construct, CopyConstruct, Assign, Destroy, ClearAccessor,
       EraseNode, Read, ProbeNode, Write, TouchLeaf, AddLeaf
  <2> QED  BY <2>1, AddTileSets
<1>3. CASE \E t \in Trees: TreeStep(t)
  <2>1. PICK t \in Trees, c \in Coords, level \in 0..2: TreeAddTile(t, level, c)
    BY <1>1, <1>3 DEF TreeStep, TreeWrite, TreeTouchLeaf, TreeAddLeaf, StealNode, StealNodes,
       Prune, VoxelizeActiveTiles, Clear, Rework, Rebuild, Merge, Combine, DestroyTree
  <2> QED  BY <2>1, TreeAddTileSets
<1> QED  BY <1>2, <1>3 DEF Next

\* A tile that a call puts in the place of a leaf is there afterwards, below a
\* node, also where the accessor descended from a node of another tree.
THEOREM AddTileSafe == Spec => AddTileReplacesLeaf
<1>1. TInv /\ [Next]_vars =>
        [tile' \in Leaves => tile' \notin nodes' /\ <<tile'[1], tile'[2]>> \in nodes']_vars
  BY TileStep DEF vars
<1> QED  BY <1>1, TInvHolds, PTL DEF Spec, AddTileReplacesLeaf
=============================================================================
