------------------------ MODULE TreeTraversal_proofs ------------------------
(***************************************************************************)
(* Theorems about TreeTraversal, for trees of any size: the types, the     *)
(* order and the depth of the nodes that a loop is given, that none is     *)
(* missing at its end, and that it comes to its end; and that it           *)
(* implements Enumeration.                                                 *)
(***************************************************************************)
EXTENDS TreeTraversal, WellFoundedInduction, FiniteSetTheorems, SequenceTheorems, TLAPS

\* A set of natural numbers has a least element.
LEMMA LeastNatural ==
  ASSUME NEW T \in SUBSET Nat, T # {}
  PROVE  \E m \in T : \A n \in T : m <= n
<1> DEFINE R == {ss \in Nat \X Nat : ss[1] < ss[2]}
<1>1. IsWellFoundedOn(R, Nat)
  BY NatLessThanWellFounded DEF OpToRel
<1>2. PICK m \in T : \A n \in T : ~(<<n, m>> \in R)
  BY <1>1, WFMin
<1>3. ASSUME NEW n \in T PROVE m <= n
  <2>1. <<n, m>> \in Nat \X Nat /\ <<n, m>>[1] = n /\ <<n, m>>[2] = m
    OBVIOUS
  <2>2. ~(n < m)
    BY <1>2, <2>1
  <2> QED BY <2>2
<1> QED BY <1>3

-----------------------------------------------------------------------------
(* The tree. *)

\* The nodes are numbered from the root, and a parent comes before its children.
LEMMA TreeShape ==
  ASSUME parent \in Trees
  PROVE  /\ \E size \in Nat \ {0} : Node = 1 .. size /\ DOMAIN parent = 2 .. size
         /\ Node \in SUBSET Nat /\ 1 \in Node /\ DOMAIN parent = Node \ {1}
         /\ \A n \in Node \ {1} : parent[n] \in Node /\ parent[n] < n /\ n > 1
         /\ IsFiniteSet(Node)
<1>1. PICK size \in 1 .. MaxNodes :
        parent \in {p \in [2 .. size -> 1 .. size - 1] : \A m \in 2 .. size : p[m] < m}
  BY DEF Trees
<1>2. size \in Nat \ {0} /\ MaxNodes \in Nat
  BY <1>1, BoundAssumption
<1>3. DOMAIN parent = 2 .. size /\ \A m \in 2 .. size : parent[m] \in 1 .. size - 1 /\ parent[m] < m
  BY <1>1
<1>4. Node = 1 .. size
  BY <1>2, <1>3 DEF Node
<1>5. IsFiniteSet(Node)
  BY <1>2, <1>4, FS_Interval
<1> QED BY <1>2, <1>3, <1>4, <1>5

\* The equation that defines the ancestors has a solution.
LEMMA AncestorsExist ==
  ASSUME parent \in Trees
  PROVE  \E f : f = [n \in Node |-> IF n = 1 THEN {1} ELSE {n} \cup f[parent[n]]]
<1>1. PICK size \in Nat \ {0} : Node = 1 .. size /\ DOMAIN parent = 2 .. size
  BY TreeShape
<1>2. \A n \in Node \ {1} : parent[n] \in Node /\ parent[n] < n /\ n > 1
  BY TreeShape
<1> DEFINE Solves(f, k) == \A n \in 1 .. k : f[n] = IF n = 1 THEN {1} ELSE {n} \cup f[parent[n]]
           Bad == {k \in 1 .. size : ~ \E f : Solves(f, k)}
<1>3. Bad = {}
  <2> SUFFICES ASSUME Bad # {} PROVE FALSE
    OBVIOUS
  <2>1. Bad \in SUBSET Nat
    OBVIOUS
  <2>2. PICK k \in Bad : \A j \in Bad : k <= j
    BY <2>1, LeastNatural
  <2>3. k \in 1 .. size /\ ~ \E f : Solves(f, k)
    BY <2>2
  <2>4. CASE k = 1
    <3> DEFINE f == [n \in 1 .. 1 |-> {1}]
    <3>1. Solves(f, 1)
      BY DEF Solves
    <3> QED BY <2>3, <2>4, <3>1
  <2>5. CASE k # 1
    <3>1. PICK f : Solves(f, k - 1)
      <4>1. k - 1 \in 1 .. size /\ ~(k <= k - 1)
        BY <2>3, <2>5
      <4>2. k - 1 \notin Bad
        BY <2>2, <4>1
      <4> HIDE DEF Solves
      <4> QED BY <4>1, <4>2
    <3> DEFINE g == [n \in 1 .. k |-> IF n = k THEN {k} \cup f[parent[k]] ELSE f[n]]
    <3>2. ASSUME NEW n \in 1 .. k
          PROVE  g[n] = IF n = 1 THEN {1} ELSE {n} \cup g[parent[n]]
      <4>1. n = 1 \/ (parent[n] \in 1 .. k /\ parent[n] # k /\ g[parent[n]] = f[parent[n]])
        BY <1>1, <1>2, <2>3
      <4>2. CASE n = k
        BY <2>5, <4>1, <4>2
      <4>3. CASE n # k
        <5>1. n \in 1 .. k - 1 /\ g[n] = f[n]
          BY <2>3, <4>3
        <5> QED BY <3>1, <4>1, <5>1 DEF Solves
      <4> QED BY <4>2, <4>3
    <3>3. Solves(g, k)
      BY <3>2 DEF Solves
    <3> QED BY <2>3, <3>3
  <2> QED BY <2>4, <2>5
<1>4. PICK f : Solves(f, size)
  <2>1. size \in 1 .. size
    BY <1>1
  <2> HIDE DEF Solves
  <2> QED BY <1>3, <2>1
<1> DEFINE g == [n \in Node |-> f[n]]
<1>5. \A n \in Node : g[n] = IF n = 1 THEN {1} ELSE {n} \cup g[parent[n]]
  BY <1>1, <1>2, <1>4 DEF Solves
<1>6. g = [n \in Node |-> IF n = 1 THEN {1} ELSE {n} \cup g[parent[n]]]
  <2> DEFINE h == [n \in Node |-> IF n = 1 THEN {1} ELSE {n} \cup g[parent[n]]]
  <2>1. DOMAIN g = Node /\ DOMAIN h = Node /\ \A n \in Node : g[n] = h[n]
    BY <1>5
  <2>2. g = h
    <3> HIDE DEF h
    <3>1. g = [n \in DOMAIN g |-> g[n]]
      OBVIOUS
    <3>2. h = [n \in DOMAIN h |-> h[n]]
      BY DEF h
    <3> HIDE DEF g
    <3> QED BY <2>1, <3>1, <3>2
  <2> QED BY <2>2
<1> HIDE DEF g
<1> QED BY <1>6

\* The ancestors of a node, from those of its parent.
LEMMA AncestorsDef ==
  ASSUME parent \in Trees
  PROVE  /\ Ancestors[1] = {1}
         /\ \A n \in Node \ {1} : Ancestors[n] = {n} \cup Ancestors[parent[n]]
<1>1. Ancestors = [n \in Node |-> IF n = 1 THEN {1} ELSE {n} \cup Ancestors[parent[n]]]
  BY AncestorsExist DEF Ancestors
<1>2. \A n \in Node : Ancestors[n] = IF n = 1 THEN {1} ELSE {n} \cup Ancestors[parent[n]]
  BY <1>1
<1>3. 1 \in Node
  BY TreeShape
<1> QED BY <1>2, <1>3
\* The relations of ancestors: a node is its own, they come before it, and those
\* of an ancestor are among them.
LEMMA AncestorsOrder ==
  ASSUME parent \in Trees, NEW n \in Node
  PROVE  /\ n \in Ancestors[n]
         /\ Ancestors[n] \subseteq Node
         /\ \A m \in Ancestors[n] : m <= n /\ Ancestors[m] \subseteq Ancestors[n]
<1> DEFINE Good(k) == /\ k \in Ancestors[k] /\ Ancestors[k] \subseteq Node
                      /\ \A m \in Ancestors[k] : m <= k /\ Ancestors[m] \subseteq Ancestors[k]
           Bad == {k \in Node : ~Good(k)}
<1>1. Node \in SUBSET Nat /\ 1 \in Node
      /\ \A k \in Node \ {1} : parent[k] \in Node /\ parent[k] < k
  BY TreeShape
<1>2. Ancestors[1] = {1} /\ \A k \in Node \ {1} : Ancestors[k] = {k} \cup Ancestors[parent[k]]
  BY AncestorsDef
<1>3. Bad = {}
  <2> SUFFICES ASSUME Bad # {} PROVE FALSE
    OBVIOUS
  <2>1. PICK k \in Bad : \A j \in Bad : k <= j
    <3>1. Bad \in SUBSET Nat
      BY <1>1
    <3> HIDE DEF Bad
    <3> QED BY <3>1, LeastNatural
  <2>2. k \in Node /\ ~Good(k)
    BY <2>1
  <2>3. CASE k = 1
    BY <1>1, <1>2, <2>2, <2>3
  <2>4. CASE k # 1
    <3> DEFINE p == parent[k]
    <3>1. p \in Node /\ p < k /\ k \in Nat /\ p \in Nat /\ Ancestors[k] = {k} \cup Ancestors[p]
      BY <1>1, <1>2, <2>2, <2>4
    <3>2. Good(p)
      <4>1. p \notin Bad
        BY <2>1, <3>1
      <4> HIDE DEF Good
      <4> QED BY <3>1, <4>1
    <3> HIDE DEF p
    <3>3. ASSUME NEW m \in Ancestors[k] PROVE m <= k /\ Ancestors[m] \subseteq Ancestors[k]
      <4>1. CASE m = k
        BY <3>1, <4>1
      <4>2. CASE m # k
        <5>1. m \in Ancestors[p] /\ m \in Nat
          BY <1>1, <3>1, <3>2, <4>2
        <5> QED BY <3>1, <3>2, <5>1
      <4> QED BY <4>1, <4>2
    <3>4. Good(k)
      BY <2>2, <3>1, <3>2, <3>3
    <3> QED BY <2>2, <3>4
  <2> QED BY <2>3, <2>4
<1>4. Good(n)
  <2> HIDE DEF Good
  <2> QED BY <1>3
<1> QED BY <1>4

\* Of siblings only one can be an ancestor of a node.
LEMMA OneSibling ==
  ASSUME parent \in Trees, NEW n \in Node, NEW s \in DOMAIN parent, NEW t \in DOMAIN parent,
         parent[s] = parent[t], s \in Ancestors[n], t \in Ancestors[n]
  PROVE  s = t
<1> DEFINE Good(k) == s \in Ancestors[k] /\ t \in Ancestors[k] => s = t
           Bad == {k \in Node : ~Good(k)}
<1>1. Node \in SUBSET Nat /\ DOMAIN parent = Node \ {1}
      /\ \A k \in Node \ {1} : parent[k] \in Node /\ parent[k] < k
  BY TreeShape
<1>2. Ancestors[1] = {1} /\ \A k \in Node \ {1} : Ancestors[k] = {k} \cup Ancestors[parent[k]]
  BY AncestorsDef
<1>3. Bad = {}
  <2> SUFFICES ASSUME Bad # {} PROVE FALSE
    OBVIOUS
  <2>1. PICK k \in Bad : \A j \in Bad : k <= j
    <3>1. Bad \in SUBSET Nat
      BY <1>1
    <3> HIDE DEF Bad
    <3> QED BY <3>1, LeastNatural
  <2>2. k \in Node /\ s \in Ancestors[k] /\ t \in Ancestors[k] /\ s # t
    BY <2>1
  <2>3. k # 1
    BY <1>1, <1>2, <2>2
  <2> DEFINE p == parent[k]
  <2>4. p \in Node /\ p < k /\ k \in Nat /\ p \in Nat /\ Ancestors[k] = {k} \cup Ancestors[p]
    BY <1>1, <1>2, <2>2, <2>3
  <2>5. \A m \in Ancestors[p] : m <= p
    BY <2>4, AncestorsOrder
  <2>6. s \in Nat /\ t \in Nat /\ parent[s] < s /\ parent[t] < t
    BY <1>1
  <2>7. CASE s = k
    BY <2>2, <2>4, <2>5, <2>6, <2>7
  <2>8. CASE t = k
    BY <2>2, <2>4, <2>5, <2>6, <2>8
  <2>9. CASE s # k /\ t # k
    <3>1. p \in Bad
      BY <2>2, <2>4, <2>9
    <3>2. k <= p
      BY <2>1, <3>1
    <3> QED BY <2>4, <3>2
  <2> QED BY <2>7, <2>8, <2>9
<1>4. Good(n)
  <2> HIDE DEF Good
  <2> QED BY <1>3
<1> QED BY <1>4

\* What is below a node is below one of its children.
LEMMA ThroughChild ==
  ASSUME parent \in Trees, NEW p \in Node, NEW n \in Node, p \in Ancestors[n], n # p
  PROVE  \E c \in Kids(p) : c \in Ancestors[n]
<1> DEFINE Good(k) == p \in Ancestors[k] /\ k # p => \E c \in Kids(p) : c \in Ancestors[k]
           Bad == {k \in Node : ~Good(k)}
<1>1. Node \in SUBSET Nat /\ DOMAIN parent = Node \ {1}
      /\ \A k \in Node \ {1} : parent[k] \in Node /\ parent[k] < k
  BY TreeShape
<1>2. Ancestors[1] = {1} /\ \A k \in Node \ {1} : Ancestors[k] = {k} \cup Ancestors[parent[k]]
  BY AncestorsDef
<1>3. Bad = {}
  <2> SUFFICES ASSUME Bad # {} PROVE FALSE
    OBVIOUS
  <2>1. PICK k \in Bad : \A j \in Bad : k <= j
    <3>1. Bad \in SUBSET Nat
      BY <1>1
    <3> HIDE DEF Bad
    <3> QED BY <3>1, LeastNatural
  <2>2. k \in Node /\ p \in Ancestors[k] /\ k # p /\ ~ \E c \in Kids(p) : c \in Ancestors[k]
    BY <2>1
  <2>3. k # 1
    BY <1>2, <2>2
  <2> DEFINE q == parent[k]
  <2>4. q \in Node /\ q < k /\ k \in Nat /\ q \in Nat /\ Ancestors[k] = {k} \cup Ancestors[q]
    BY <1>1, <1>2, <2>2, <2>3
  <2>5. CASE q = p
    <3>1. k \in Kids(p) /\ k \in Ancestors[k]
      BY <1>1, <2>2, <2>3, <2>4, <2>5 DEF Kids
    <3> QED BY <2>2, <3>1
  <2>6. CASE q # p
    <3>1. q \in Bad
      BY <2>2, <2>4, <2>6
    <3>2. k <= q
      BY <2>1, <3>1
    <3> QED BY <2>4, <3>2
  <2> QED BY <2>5, <2>6
<1>4. Good(n)
  <2> HIDE DEF Good
  <2> QED BY <1>3
<1> QED BY <1>4
-----------------------------------------------------------------------------
(* What comes before a node, what is below it, and how deep it lies. *)

Prior == [m \in Node |-> {n \in Node : Before(n, m)}]
Branch == [m \in Node |-> {n \in Node : m \in Ancestors[n]}]
Height == [m \in Node |-> Cardinality(Ancestors[m])]

\* The least of some nodes.
LEMMA SmallestNode ==
  ASSUME parent \in Trees, NEW nodes \in SUBSET Node, nodes # {}
  PROVE  Smallest(nodes) \in nodes /\ \A m \in nodes : Smallest(nodes) <= m
<1>1. nodes \in SUBSET Nat
  BY TreeShape
<1>2. \E n \in nodes : \A m \in nodes : n <= m
  BY <1>1, LeastNatural
<1> QED BY <1>2 DEF Smallest

\* A node is one deeper than its parent.
LEMMA HeightOfChild ==
  ASSUME parent \in Trees, NEW n \in Node \ {1}
  PROVE  Height[n] = Height[parent[n]] + 1 /\ Height[parent[n]] \in Nat
<1>1. parent[n] \in Node /\ parent[n] < n /\ n \in Nat /\ IsFiniteSet(Node)
  BY TreeShape
<1>2. Ancestors[n] = Ancestors[parent[n]] \cup {n}
  BY AncestorsDef
<1>3. \A m \in Ancestors[parent[n]] : m <= parent[n]
  BY <1>1, AncestorsOrder
<1>4. n \notin Ancestors[parent[n]]
  BY <1>1, <1>3, TreeShape
<1>5. IsFiniteSet(Ancestors[parent[n]])
  BY <1>1, AncestorsOrder, FS_Subset
<1>6. Cardinality(Ancestors[n]) = Cardinality(Ancestors[parent[n]]) + 1
  BY <1>2, <1>4, <1>5, FS_AddElement
<1>7. Cardinality(Ancestors[parent[n]]) \in Nat
  BY <1>5, FS_CardinalityType
<1> QED BY <1>1, <1>6, <1>7 DEF Height

\* A node is no deeper than what is below it.
LEMMA HeightBelow ==
  ASSUME parent \in Trees, NEW m \in Node, NEW n \in Branch[m]
  PROVE  n \in Node /\ Height[m] \in Nat /\ Height[n] \in Nat /\ Height[m] <= Height[n]
<1>1. n \in Node /\ m \in Ancestors[n]
  BY DEF Branch
<1>2. Ancestors[m] \subseteq Ancestors[n] /\ Ancestors[n] \subseteq Node /\ IsFiniteSet(Node)
  BY <1>1, AncestorsOrder, TreeShape
<1>3. IsFiniteSet(Ancestors[n])
  BY <1>2, FS_Subset
<1>4. /\ IsFiniteSet(Ancestors[m]) /\ Cardinality(Ancestors[m]) <= Cardinality(Ancestors[n])
      /\ Cardinality(Ancestors[m]) \in Nat /\ Cardinality(Ancestors[n]) \in Nat
  BY <1>2, <1>3, FS_Subset, FS_CardinalityType
<1> QED BY <1>1, <1>4 DEF Height

\* What comes before the first child of a: what comes before a, and a.
LEMMA FirstChild ==
  ASSUME parent \in Trees, NEW a \in Node, Kids(a) # {}
  PROVE  /\ Smallest(Kids(a)) \in Node \ {1}
         /\ parent[Smallest(Kids(a))] = a
         /\ Prior[Smallest(Kids(a))] = Prior[a] \cup {a}
<1> DEFINE k == Smallest(Kids(a))
<1>1. Kids(a) \in SUBSET Node /\ DOMAIN parent = Node \ {1} /\ Node \in SUBSET Nat
  BY TreeShape DEF Kids
<1>2. k \in Kids(a) /\ \A m \in Kids(a) : k <= m
  BY <1>1, SmallestNode
<1>3. k \in Node \ {1} /\ parent[k] = a /\ k \in DOMAIN parent
  BY <1>1, <1>2 DEF Kids
<1>4. a < k /\ a \in Nat /\ k \in Nat
  BY <1>1, <1>3, TreeShape
<1> HIDE DEF k
<1>5. Ancestors[k] = {k} \cup Ancestors[a]
  BY <1>3, AncestorsDef
<1>6. a \in Ancestors[a] /\ \A m \in Ancestors[a] : m <= a
  BY AncestorsOrder
<1>7. ASSUME NEW n \in Node, Before(n, k) PROVE Before(n, a) \/ n = a
  <2>1. CASE n # k /\ n \in Ancestors[k]
    BY <1>5, <2>1 DEF Before
  <2>2. ASSUME NEW s \in DOMAIN parent, NEW t \in DOMAIN parent, parent[s] = parent[t], s < t,
               s \in Ancestors[n], t \in Ancestors[k]
        PROVE  Before(n, a)
    <3>1. t # k
      <4>1. CASE t = k
        <5>1. s \in Kids(a)
          BY <1>3, <2>2, <4>1 DEF Kids
        <5>2. k <= s /\ s \in Nat
          BY <1>1, <1>2, <5>1
        <5> QED BY <1>4, <2>2, <4>1, <5>2
      <4> QED BY <4>1
    <3>2. t \in Ancestors[a]
      BY <1>5, <2>2, <3>1
    <3> QED BY <2>2, <3>2 DEF Before
  <2> QED BY <1>7, <2>1, <2>2 DEF Before
<1>8. ASSUME NEW n \in Node, Before(n, a) PROVE Before(n, k)
  <2>1. CASE n # a /\ n \in Ancestors[a]
    <3>1. n # k
      BY <1>4, <1>6, <2>1
    <3> QED BY <1>5, <2>1, <3>1 DEF Before
  <2>2. ASSUME NEW s \in DOMAIN parent, NEW t \in DOMAIN parent, parent[s] = parent[t], s < t,
               s \in Ancestors[n], t \in Ancestors[a]
        PROVE  Before(n, k)
    BY <1>5, <2>2 DEF Before
  <2> QED BY <1>8, <2>1, <2>2 DEF Before
<1>9. Before(a, k)
  BY <1>4, <1>5, <1>6 DEF Before
<1>10. Prior[k] = Prior[a] \cup {a}
  BY <1>3, <1>7, <1>8, <1>9 DEF Prior
<1> QED BY <1>3, <1>10 DEF k

\* What comes before the next sibling of a: what comes before a, and what is
\* below it.
LEMMA NextSibling ==
  ASSUME parent \in Trees, NEW a \in Node \ {1}, YoungerSiblings(a) # {}
  PROVE  /\ Smallest(YoungerSiblings(a)) \in Node \ {1}
         /\ parent[Smallest(YoungerSiblings(a))] = parent[a]
         /\ Prior[Smallest(YoungerSiblings(a))] = Prior[a] \cup Branch[a]
<1> DEFINE b == Smallest(YoungerSiblings(a))
           p == parent[a]
<1>1. YoungerSiblings(a) \in SUBSET Node /\ DOMAIN parent = Node \ {1} /\ Node \in SUBSET Nat
  BY TreeShape DEF YoungerSiblings
<1>2. b \in YoungerSiblings(a) /\ \A m \in YoungerSiblings(a) : b <= m
  BY <1>1, SmallestNode
<1>3. b \in Node \ {1} /\ parent[b] = p /\ b > a /\ b \in Nat /\ a \in Nat
  BY <1>1, <1>2 DEF YoungerSiblings
<1>4. p \in Node /\ p < a /\ p \in Nat
  BY <1>1, TreeShape
<1> HIDE DEF b, p
<1>5. Ancestors[a] = {a} \cup Ancestors[p] /\ Ancestors[b] = {b} \cup Ancestors[p]
  BY <1>3, AncestorsDef DEF p
<1>6. p \in Ancestors[p] /\ \A m \in Ancestors[p] : m <= p /\ m \in Nat
  BY <1>1, <1>4, AncestorsOrder
<1>7. a \in DOMAIN parent /\ b \in DOMAIN parent /\ parent[a] = p
  BY <1>1, <1>3 DEF p
<1>8. ASSUME NEW n \in Node, Before(n, b) PROVE Before(n, a) \/ a \in Ancestors[n]
  <2>1. CASE n # b /\ n \in Ancestors[b]
    <3>1. n \in Ancestors[p]
      BY <1>5, <2>1
    <3>2. n # a
      BY <1>3, <1>4, <1>6, <3>1
    <3> QED BY <1>5, <3>1, <3>2 DEF Before
  <2>2. ASSUME NEW s \in DOMAIN parent, NEW t \in DOMAIN parent, parent[s] = parent[t], s < t,
               s \in Ancestors[n], t \in Ancestors[b]
        PROVE  Before(n, a) \/ a \in Ancestors[n]
    <3>1. CASE t = b
      <4>1. parent[s] = p /\ s \in Nat
        BY <1>1, <1>3, <2>2, <3>1
      <4>2. CASE s > a
        <5>1. s \in YoungerSiblings(a)
          BY <1>7, <4>1, <4>2 DEF YoungerSiblings
        <5>2. b <= s
          BY <1>2, <5>1
        <5> QED BY <1>3, <2>2, <3>1, <4>1, <5>2
      <4>3. CASE s < a
        <5>1. a \in Ancestors[a]
          BY <1>5
        <5> QED BY <1>7, <2>2, <4>1, <4>3, <5>1 DEF Before
      <4> QED BY <1>3, <2>2, <4>1, <4>2, <4>3
    <3>2. CASE t # b
      <4>1. t \in Ancestors[a]
        BY <1>5, <2>2, <3>2
      <4> QED BY <2>2, <4>1 DEF Before
    <3> QED BY <3>1, <3>2
  <2> QED BY <1>8, <2>1, <2>2 DEF Before
<1>9. ASSUME NEW n \in Node, Before(n, a) PROVE Before(n, b)
  <2>1. CASE n # a /\ n \in Ancestors[a]
    <3>1. n \in Ancestors[p]
      BY <1>5, <2>1
    <3>2. n # b
      BY <1>3, <1>4, <1>6, <3>1
    <3> QED BY <1>5, <3>1, <3>2 DEF Before
  <2>2. ASSUME NEW s \in DOMAIN parent, NEW t \in DOMAIN parent, parent[s] = parent[t], s < t,
               s \in Ancestors[n], t \in Ancestors[a]
        PROVE  Before(n, b)
    <3>1. CASE t = a
      <4>1. parent[s] = parent[b] /\ b \in Ancestors[b]
        BY <1>3, <1>5, <1>7, <2>2, <3>1
      <4>2. s < b
        <5>1. s \in Nat
          BY <1>1
        <5> QED BY <1>3, <2>2, <3>1, <5>1
      <4> QED BY <1>7, <2>2, <4>1, <4>2 DEF Before
    <3>2. CASE t # a
      <4>1. t \in Ancestors[b]
        BY <1>5, <2>2, <3>2
      <4> QED BY <2>2, <4>1 DEF Before
    <3> QED BY <3>1, <3>2
  <2> QED BY <1>9, <2>1, <2>2 DEF Before
<1>10. ASSUME NEW n \in Node, a \in Ancestors[n] PROVE Before(n, b)
  <2>1. parent[a] = parent[b] /\ a < b /\ b \in Ancestors[b]
    BY <1>3, <1>5, <1>7
  <2> QED BY <1>7, <1>10, <2>1 DEF Before
<1>11. Prior[b] = Prior[a] \cup Branch[a]
  BY <1>3, <1>8, <1>9, <1>10 DEF Prior, Branch
<1> QED BY <1>3, <1>11 DEF b, p

\* A last sibling and what is below it end what is below its parent.
LEMMA LastSibling ==
  ASSUME parent \in Trees, NEW a \in Node \ {1}, YoungerSiblings(a) = {}
  PROVE  Prior[a] \cup Branch[a] = Prior[parent[a]] \cup Branch[parent[a]]
<1> DEFINE p == parent[a]
<1>1. DOMAIN parent = Node \ {1} /\ Node \in SUBSET Nat /\ a \in DOMAIN parent
  BY TreeShape
<1>2. p \in Node /\ p < a /\ p \in Nat /\ a \in Nat
  BY <1>1, TreeShape
<1> HIDE DEF p
<1>3. Ancestors[a] = {a} \cup Ancestors[p]
  BY AncestorsDef DEF p
<1>4. p \in Ancestors[p] /\ \A m \in Ancestors[p] : m <= p
  BY <1>2, AncestorsOrder
<1>5. \A n \in Node : \A m \in Ancestors[n] : Ancestors[m] \subseteq Ancestors[n]
  BY AncestorsOrder
<1>6. ASSUME NEW n \in Node, Before(n, a) PROVE Before(n, p) \/ p \in Ancestors[n]
  <2>1. CASE n # a /\ n \in Ancestors[a]
    <3>1. n \in Ancestors[p]
      BY <1>3, <2>1
    <3> QED BY <1>4, <3>1 DEF Before
  <2>2. ASSUME NEW s \in DOMAIN parent, NEW t \in DOMAIN parent, parent[s] = parent[t], s < t,
               s \in Ancestors[n], t \in Ancestors[a]
        PROVE  Before(n, p) \/ p \in Ancestors[n]
    <3>1. CASE t = a
      <4>1. parent[s] = p /\ s \in Node \ {1}
        BY <1>1, <2>2, <3>1 DEF p
      <4>2. Ancestors[s] = {s} \cup Ancestors[p]
        BY <4>1, AncestorsDef
      <4> QED BY <1>4, <1>5, <2>2, <4>2
    <3>2. CASE t # a
      <4>1. t \in Ancestors[p]
        BY <1>3, <2>2, <3>2
      <4> QED BY <2>2, <4>1 DEF Before
    <3> QED BY <3>1, <3>2
  <2> QED BY <1>6, <2>1, <2>2 DEF Before
<1>7. ASSUME NEW n \in Node, a \in Ancestors[n] PROVE p \in Ancestors[n]
  BY <1>3, <1>4, <1>5, <1>7
<1>8. ASSUME NEW n \in Node, Before(n, p) PROVE Before(n, a)
  <2>1. CASE n # p /\ n \in Ancestors[p]
    <3>1. n # a
      BY <1>2, <1>4, <2>1
    <3> QED BY <1>3, <2>1, <3>1 DEF Before
  <2>2. ASSUME NEW s \in DOMAIN parent, NEW t \in DOMAIN parent, parent[s] = parent[t], s < t,
               s \in Ancestors[n], t \in Ancestors[p]
        PROVE  Before(n, a)
    BY <1>3, <2>2 DEF Before
  <2> QED BY <1>8, <2>1, <2>2 DEF Before
<1>9. ASSUME NEW n \in Node, p \in Ancestors[n] PROVE Before(n, a) \/ a \in Ancestors[n]
  <2>1. CASE n = p
    BY <1>2, <1>3, <1>4, <2>1 DEF Before
  <2>2. CASE n # p
    <3>1. PICK c \in Kids(p) : c \in Ancestors[n]
      BY <1>2, <1>9, <2>2, ThroughChild
    <3>2. c \in DOMAIN parent /\ parent[c] = p /\ c \in Nat
      BY <1>1, <3>1 DEF Kids
    <3>3. ~(c > a)
      BY <3>2 DEF YoungerSiblings, p
    <3>4. CASE c < a
      <4>1. a \in Ancestors[a] /\ parent[c] = parent[a]
        BY <1>3, <3>2 DEF p
      <4> QED BY <1>1, <3>1, <3>2, <3>4, <4>1 DEF Before
    <3> QED BY <1>2, <3>1, <3>2, <3>3, <3>4
  <2> QED BY <2>1, <2>2
<1>10. Prior[a] \cup Branch[a] = Prior[p] \cup Branch[p]
  BY <1>2, <1>6, <1>7, <1>8, <1>9 DEF Prior, Branch
<1> QED BY <1>10 DEF p

\* Nothing below a node comes before it, and a node is below itself.
LEMMA BranchApart ==
  ASSUME parent \in Trees, NEW a \in Node
  PROVE  Prior[a] \cap Branch[a] = {} /\ a \in Branch[a] /\ a \notin Prior[a]
<1>1. Node \in SUBSET Nat /\ DOMAIN parent = Node \ {1}
  BY TreeShape
<1>2. \A n \in Node : n \in Ancestors[n] /\ \A m \in Ancestors[n] : m <= n /\ Ancestors[m] \subseteq Ancestors[n]
  BY AncestorsOrder
<1>3. ASSUME NEW n \in Node, Before(n, a), a \in Ancestors[n] PROVE FALSE
  <2>1. CASE n # a /\ n \in Ancestors[a]
    <3>1. n <= a /\ a <= n /\ n \in Nat /\ a \in Nat
      BY <1>1, <1>2, <1>3, <2>1
    <3> QED BY <2>1, <3>1
  <2>2. ASSUME NEW s \in DOMAIN parent, NEW t \in DOMAIN parent, parent[s] = parent[t], s < t,
               s \in Ancestors[n], t \in Ancestors[a]
        PROVE  FALSE
    <3>1. t \in Ancestors[n]
      BY <1>2, <1>3, <2>2
    <3>2. s = t
      BY <2>2, <3>1, OneSibling
    <3>3. s \in Nat
      BY <1>1
    <3> QED BY <2>2, <3>2, <3>3
  <2> QED BY <1>3, <2>1, <2>2 DEF Before
<1>4. a \in Branch[a]
  BY <1>2 DEF Branch
<1>5. Prior[a] \cap Branch[a] = {}
  BY <1>3 DEF Prior, Branch
<1> QED BY <1>4, <1>5

\* What is below a node is below what that is below.
LEMMA BranchWithin ==
  ASSUME parent \in Trees, NEW m \in Node, NEW n \in Branch[m]
  PROVE  /\ Branch[n] \subseteq Branch[m]
         /\ \A c \in Node \ {1} : parent[c] = n => c \in Branch[m]
         /\ n # m => n # 1 /\ parent[n] \in Branch[m]
<1>1. n \in Node /\ m \in Ancestors[n]
  BY DEF Branch
<1>2. \A k \in Node : \A j \in Ancestors[k] : Ancestors[j] \subseteq Ancestors[k]
  BY AncestorsOrder
<1>3. Branch[n] \subseteq Branch[m]
  BY <1>1, <1>2 DEF Branch
<1>4. ASSUME NEW c \in Node \ {1}, parent[c] = n PROVE c \in Branch[m]
  <2>1. Ancestors[c] = {c} \cup Ancestors[n]
    BY <1>4, AncestorsDef
  <2> QED BY <1>1, <2>1 DEF Branch
<1>5. ASSUME n # m PROVE n # 1 /\ parent[n] \in Branch[m]
  <2>1. n # 1
    BY <1>1, <1>5, AncestorsDef
  <2>2. Ancestors[n] = {n} \cup Ancestors[parent[n]] /\ parent[n] \in Node
    BY <1>1, <2>1, AncestorsDef, TreeShape
  <2> QED BY <1>1, <1>5, <2>1, <2>2 DEF Branch
<1> QED BY <1>3, <1>4, <1>5

\* A node without children has only itself below it.
LEMMA Childless ==
  ASSUME parent \in Trees, NEW a \in Node, Kids(a) = {}
  PROVE  Branch[a] = {a}
<1>1. \A n \in Node : a \in Ancestors[n] => n = a
  BY ThroughChild
<1>2. a \in Ancestors[a]
  BY AncestorsOrder
<1> QED BY <1>1, <1>2 DEF Branch
-----------------------------------------------------------------------------
(* The invariant. *)

Seen == {given[i][1] : i \in 1 .. Len(given)}

\* Every variable but depth, whose type follows from where the cursor is.
Types ==
  /\ parent \in Trees
  /\ start \in Node /\ at \in Branch[start]
  /\ state \in {"Start", "Down", "Right", "Done"}
  /\ depth = Height[at] - Height[start]
  /\ calling \in BOOLEAN
  /\ caller \in {"mapc", "do", "iter"}
  /\ props \in {"node", "depth", "property", "vector"}
  /\ nils \subseteq Node
  /\ given \in Seq(Node \X Nat)
  /\ over \in {"no", "end", "left"}
  /\ calling => over = "no"

\* The nodes given are in order, below the start, and none before the last of
\* them is missing.
InOrder ==
  /\ \A j \in 1 .. Len(given) : \A i \in 1 .. j - 1 : given[i][1] \in Prior[given[j][1]]
  /\ \A i \in 1 .. Len(given) : given[i][2] = Height[given[i][1]] - Height[start]
  /\ Seen \subseteq Branch[start]
  /\ given # <<>> => Prior[given[Len(given)][1]] \cap Branch[start] \subseteq Seen

\* Where the cursor is tells which nodes were given.
CursorTells ==
  over # "end" =>
    /\ state = "Start" => at = start /\ Seen = {}
    /\ state = "Down" => Seen = (Prior[at] \cap Branch[start]) \cup {at}
    /\ state = "Right" => Seen = (Prior[at] \cap Branch[start]) \cup Branch[at]
    /\ state = "Done" => Seen = Branch[start]

AllAtEnd == over = "end" /\ TellsEnd => Seen = Branch[start]

TreeInv == Types /\ InOrder /\ CursorTells /\ AllAtEnd

\* A tree that does not change keeps what is defined by it.
LEMMA SameTree ==
  ASSUME UNCHANGED parent
  PROVE  /\ Node' = Node /\ Ancestors' = Ancestors
         /\ Prior' = Prior /\ Branch' = Branch /\ Height' = Height
<1>1. Node' = Node
  BY DEF Node
<1>2. Ancestors' = Ancestors
  BY DEF Ancestors, Node
<1> QED BY <1>1, <1>2 DEF Prior, Branch, Height, Before

\* The invariant holds before the first call.
LEMMA TreeInit == Init => TreeInv
<1> SUFFICES ASSUME Init PROVE TreeInv
  OBVIOUS
<1>1. parent \in Trees /\ start \in Node /\ at = start /\ given = <<>> /\ Len(given) = 0
  BY EmptySeq DEF Init
<1>2. at \in Branch[start]
  BY <1>1, BranchApart
<1>3. Height[at] \in Nat
  BY <1>1, <1>2, HeightBelow
<1>4. depth = Height[at] - Height[start]
  BY <1>1, <1>3 DEF Init
<1>5. Seen = {}
  BY <1>1 DEF Seen
<1>6. Types
  <2>1. /\ state = "Start" /\ calling = FALSE /\ over = "no" /\ caller \in {"mapc", "do", "iter"}
        /\ props \in {"node", "depth", "property", "vector"} /\ nils \subseteq Node
    BY DEF Init
  <2>2. given \in Seq(Node \X Nat)
    BY <1>1, EmptySeq
  <2> QED BY <1>1, <1>2, <1>4, <2>1, <2>2 DEF Types
<1>7. InOrder
  BY <1>1, <1>5 DEF InOrder
<1>8. CursorTells /\ AllAtEnd
  BY <1>1, <1>5 DEF Init, CursorTells, AllAtEnd
<1> QED BY <1>6, <1>7, <1>8 DEF TreeInv

\* A step that gives the loop the next node.
Giving(n) ==
  /\ over = "no"
  /\ Give(n, Height[n] - Height[start])
  /\ Prior[n] \cap Branch[start] = Seen
  /\ UNCHANGED <<parent, start, caller, props, nils>>

\* The first step gives the start.
LEMMA StartGives ==
  ASSUME TreeInv, Start
  PROVE  at = start /\ at' = at /\ state = "Start" /\ state' = "Down" /\ Giving(at)
<1>1. /\ calling /\ state = "Start" /\ state' = "Down" /\ over = "no"
      /\ UNCHANGED <<parent, start, at, depth, caller, props, nils>>
      /\ at = start /\ Seen = {} /\ Give(at, depth) /\ depth = Height[at] - Height[start]
  BY DEF Start, TreeInv, Types, CursorTells
<1>2. Prior[at] \cap Branch[start] = Seen
  BY <1>1, BranchApart DEF TreeInv, Types
<1> QED BY <1>1, <1>2 DEF Giving

\* A step down gives the first child.
LEMMA DownGives ==
  ASSUME TreeInv, Down, CanGotoFirstChild
  PROVE  \E n \in Branch[start] :
           /\ at' = n /\ state' = "Down" /\ Giving(n)
           /\ depth' = Height[n] - Height[start] /\ depth' = depth + 1
<1>1. /\ calling /\ state = "Down" /\ over = "no"
      /\ UNCHANGED <<parent, start, caller, props, nils>>
      /\ Seen = (Prior[at] \cap Branch[start]) \cup {at}
  BY DEF Down, TreeInv, Types, CursorTells
<1>2. parent \in Trees /\ start \in Node /\ at \in Branch[start]
  BY DEF TreeInv, Types
<1>3. at \in Node /\ Height[at] \in Nat /\ Height[start] \in Nat
  BY <1>2, HeightBelow
<1> DEFINE k == Smallest(Kids(at))
<1>4. at' = k /\ depth' = depth + 1 /\ Give(k, depth + 1) /\ state' = "Down"
  BY <1>1 DEF Down, Deeper
<1>5. k \in Node \ {1} /\ parent[k] = at /\ Prior[k] = Prior[at] \cup {at}
  BY <1>2, <1>3, FirstChild DEF CanGotoFirstChild
<1> HIDE DEF k
<1>6. k \in Branch[start]
  BY <1>2, <1>5, BranchWithin
<1>7. depth + 1 = Height[k] - Height[start]
  <2>1. Height[k] = Height[at] + 1
    BY <1>2, <1>5, HeightOfChild
  <2> QED BY <1>3, <2>1 DEF TreeInv, Types
<1>8. Prior[k] \cap Branch[start] = Seen
  BY <1>1, <1>2, <1>5
<1> QED BY <1>1, <1>4, <1>6, <1>7, <1>8 DEF Giving

\* A step to the right gives the next sibling.
LEMMA RightGives ==
  ASSUME TreeInv, Right, CanGotoNextSibling
  PROVE  \E n \in Branch[start] :
           /\ at' = n /\ state' = "Down" /\ Giving(n)
           /\ depth' = Height[n] - Height[start] /\ depth' = depth
<1>1. /\ calling /\ state = "Right" /\ over = "no"
      /\ UNCHANGED <<parent, start, caller, props, nils>>
      /\ Seen = (Prior[at] \cap Branch[start]) \cup Branch[at]
  BY DEF Right, TreeInv, Types, CursorTells
<1>2. parent \in Trees /\ start \in Node /\ at \in Branch[start]
  BY DEF TreeInv, Types
<1>3. at \in Node /\ Height[at] \in Nat /\ Height[start] \in Nat
  BY <1>2, HeightBelow
<1>4. /\ at \in Node \ {1} /\ parent[at] \in Branch[start]
      /\ Height[at] = Height[parent[at]] + 1 /\ Height[parent[at]] \in Nat
  BY <1>2, <1>3, BranchWithin, HeightOfChild DEF CanGotoNextSibling
<1> DEFINE b == Smallest(YoungerSiblings(at))
<1>5. at' = b /\ depth' = depth /\ Give(b, depth) /\ state' = "Down"
  BY <1>1 DEF Right, AfterSibling
<1>6. b \in Node \ {1} /\ parent[b] = parent[at] /\ Prior[b] = Prior[at] \cup Branch[at]
  BY <1>2, <1>4, NextSibling DEF CanGotoNextSibling
<1> HIDE DEF b
<1>7. b \in Branch[start]
  BY <1>2, <1>4, <1>6, BranchWithin DEF CanGotoNextSibling
<1>8. depth = Height[b] - Height[start]
  <2>1. Height[b] = Height[parent[at]] + 1
    BY <1>2, <1>6, HeightOfChild
  <2> QED BY <1>3, <1>4, <2>1 DEF TreeInv, Types
<1>9. Prior[b] \cap Branch[start] = Seen
  BY <1>1, <1>2, <1>6, BranchWithin
<1> QED BY <1>1, <1>5, <1>7, <1>8, <1>9 DEF Giving

\* What a loop makes of the next node.
LEMMA GiveNext ==
  ASSUME TreeInv, NEW n \in Branch[start], Giving(n)
  PROVE  /\ InOrder' /\ given' \in Seq(Node \X Nat) /\ calling' = FALSE
         /\ AllAtEnd'
         /\ \/ over' = "no" /\ Seen' = Seen \cup {n}
            \/ over' = "end"
<1> USE DEF Giving
<1>0. /\ Node' = Node /\ Prior' = Prior /\ Branch' = Branch /\ Height' = Height
      /\ parent \in Trees /\ start \in Node /\ given \in Seq(Node \X Nat)
  BY SameTree DEF TreeInv, Types
<1>1. n \in Node /\ Height[n] - Height[start] \in Nat
  BY <1>0, HeightBelow
<1>2. CASE caller = "iter" /\ IterCurrentNode(n) = "nil"
  <2>1. over' = "end" /\ given' = given /\ calling' = FALSE
    BY <1>2 DEF Give
  <2>2. ~TellsEnd'
    BY <1>2 DEF TellsEnd, IterCurrentNode, CurrentNode, Get
  <2>3. InOrder'
    BY <1>0, <2>1 DEF TreeInv, InOrder, Seen
  <2> QED BY <1>0, <2>1, <2>2, <2>3 DEF AllAtEnd
<1>3. CASE ~(caller = "iter" /\ IterCurrentNode(n) = "nil")
  <2> DEFINE item == <<n, Height[n] - Height[start]>>
             size == Len(given)
  <2>1. given' = Append(given, item) /\ over' = "no" /\ calling' = FALSE
    BY <1>3 DEF Give
  <2>2. item \in Node \X Nat /\ item[1] = n /\ item[2] = Height[n] - Height[start]
    BY <1>1
  <2> HIDE DEF item
  <2>3. /\ given' \in Seq(Node \X Nat) /\ Len(given') = size + 1 /\ size \in Nat
        /\ given'[size + 1] = item /\ \A i \in 1 .. size : given'[i] = given[i]
        /\ given' # <<>>
    BY <1>0, <2>1, <2>2, AppendProperties
  <2> HIDE DEF size
  <2>4. \A i \in 1 .. Len(given') : i \in 1 .. size \/ i = size + 1
    BY <2>3
  <2>5. Seen' = Seen \cup {n}
    <3>1. Seen' = {given'[i][1] : i \in 1 .. size + 1}
      BY <2>3 DEF Seen
    <3>2. \A i \in 1 .. size : i \in 1 .. size + 1
      BY <2>3
    <3>3. size + 1 \in 1 .. size + 1
      BY <2>3
    <3>4. Seen = {given[i][1] : i \in 1 .. size}
      BY DEF Seen, size
    <3> QED BY <2>2, <2>3, <2>4, <3>1, <3>2, <3>3, <3>4
  <2>6. ASSUME NEW j \in 1 .. Len(given'), NEW i \in 1 .. j - 1
        PROVE  given'[i][1] \in Prior[given'[j][1]]
    <3>1. CASE j \in 1 .. size
      <4>1. i \in 1 .. size /\ given'[i] = given[i] /\ given'[j] = given[j]
        BY <2>3, <3>1
      <4> QED BY <3>1, <4>1 DEF TreeInv, InOrder, size
    <3>2. CASE j = size + 1
      <4>1. i \in 1 .. size /\ given'[i] = given[i]
        BY <2>3, <3>2
      <4>2. given[i][1] \in Seen
        BY <4>1 DEF Seen, size
      <4> QED BY <2>2, <2>3, <3>2, <4>1, <4>2
    <3> QED BY <2>4, <3>1, <3>2
  <2>7. ASSUME NEW i \in 1 .. Len(given')
        PROVE  given'[i][2] = Height[given'[i][1]] - Height[start]
    <3>1. CASE i \in 1 .. size
      BY <2>3, <3>1 DEF TreeInv, InOrder, size
    <3>2. CASE i = size + 1
      BY <2>2, <2>3, <3>2
    <3> QED BY <2>4, <3>1, <3>2
  <2>8. Seen' \subseteq Branch[start]
    BY <2>5 DEF TreeInv, InOrder
  <2>9. Prior[given'[Len(given')][1]] \cap Branch[start] \subseteq Seen'
    BY <2>2, <2>3, <2>5
  <2>10. InOrder'
    BY <1>0, <2>6, <2>7, <2>8, <2>9 DEF InOrder
  <2>11. AllAtEnd'
    BY <2>1 DEF AllAtEnd
  <2> QED BY <2>1, <2>3, <2>5, <2>10, <2>11
<1> QED BY <1>2, <1>3

\* The first child, or none.
LEMMA DownStep ==
  ASSUME TreeInv, Down
  PROVE  TreeInv'
<1>1. /\ calling /\ state = "Down" /\ over = "no"
      /\ UNCHANGED <<parent, start, caller, props, nils>>
      /\ Seen = (Prior[at] \cap Branch[start]) \cup {at}
  BY DEF Down, TreeInv, Types, CursorTells
<1>2. /\ Node' = Node /\ Prior' = Prior /\ Branch' = Branch /\ Height' = Height
      /\ parent \in Trees /\ start \in Node /\ at \in Branch[start]
  BY <1>1, SameTree DEF TreeInv, Types
<1>3. at \in Node /\ Height[at] \in Nat /\ Height[start] \in Nat
  BY <1>2, HeightBelow
<1>4. CASE CanGotoFirstChild
  <2>1. PICK k \in Branch[start] : /\ at' = k /\ state' = "Down" /\ Giving(k)
                                   /\ depth' = Height[k] - Height[start]
    BY <1>4, DownGives
  <2>2. Prior[k] \cap Branch[start] = Seen
    BY <2>1 DEF Giving
  <2>3. /\ InOrder' /\ given' \in Seq(Node \X Nat) /\ calling' = FALSE /\ AllAtEnd'
        /\ (over' = "no" /\ Seen' = Seen \cup {k}) \/ over' = "end"
    BY <2>1, GiveNext
  <2>4. Types'
    BY <1>1, <1>2, <2>1, <2>3 DEF TreeInv, Types
  <2>5. CursorTells'
    BY <1>1, <1>2, <2>1, <2>2, <2>3 DEF CursorTells
  <2> QED BY <2>3, <2>4, <2>5 DEF TreeInv
<1>5. CASE ~CanGotoFirstChild
  <2>1. state' = "Right" /\ UNCHANGED <<at, depth, calling, given, over>>
    BY <1>5 DEF Down, NoChild
  <2>2. Branch[at] = {at}
    BY <1>2, <1>3, <1>5, Childless DEF CanGotoFirstChild
  <2>3. Seen' = Seen
    BY <2>1 DEF Seen
  <2>4. Types' /\ InOrder' /\ AllAtEnd'
    BY <1>1, <1>2, <2>1, <2>3 DEF TreeInv, Types, InOrder, AllAtEnd, TellsEnd
  <2>5. CursorTells'
    BY <1>1, <1>2, <2>1, <2>2, <2>3 DEF CursorTells
  <2> QED BY <2>4, <2>5 DEF TreeInv
<1> QED BY <1>4, <1>5

\* The next sibling, or up, or the end.
LEMMA RightStep ==
  ASSUME TreeInv, Right
  PROVE  TreeInv'
<1>1. /\ calling /\ state = "Right" /\ over = "no"
      /\ UNCHANGED <<parent, start, caller, props, nils>>
      /\ Seen = (Prior[at] \cap Branch[start]) \cup Branch[at]
  BY DEF Right, TreeInv, Types, CursorTells
<1>2. /\ Node' = Node /\ Prior' = Prior /\ Branch' = Branch /\ Height' = Height
      /\ parent \in Trees /\ start \in Node /\ at \in Branch[start]
  BY <1>1, SameTree DEF TreeInv, Types
<1>3. at \in Node /\ Height[at] \in Nat /\ Height[start] \in Nat
  BY <1>2, HeightBelow
<1>4. at # start => /\ at \in Node \ {1} /\ parent[at] \in Branch[start]
                    /\ Height[at] = Height[parent[at]] + 1 /\ Height[parent[at]] \in Nat
  BY <1>2, <1>3, BranchWithin, HeightOfChild
<1>5. CASE CanGotoNextSibling
  <2>1. PICK b \in Branch[start] : /\ at' = b /\ state' = "Down" /\ Giving(b)
                                   /\ depth' = Height[b] - Height[start]
    BY <1>5, RightGives
  <2>2. Prior[b] \cap Branch[start] = Seen
    BY <2>1 DEF Giving
  <2>3. /\ InOrder' /\ given' \in Seq(Node \X Nat) /\ calling' = FALSE /\ AllAtEnd'
        /\ (over' = "no" /\ Seen' = Seen \cup {b}) \/ over' = "end"
    BY <2>1, GiveNext
  <2>4. Types'
    BY <1>1, <1>2, <2>1, <2>3 DEF TreeInv, Types
  <2>5. CursorTells'
    BY <1>1, <1>2, <2>1, <2>2, <2>3 DEF CursorTells
  <2> QED BY <2>3, <2>4, <2>5 DEF TreeInv
<1>6. CASE ~CanGotoNextSibling /\ CanGotoParent
  <2> DEFINE p == parent[at]
  <2>1. at' = p /\ depth' = depth - 1 /\ UNCHANGED <<state, calling, given, over>>
    BY <1>6 DEF Right
  <2>2. at # start /\ YoungerSiblings(at) = {}
    BY <1>6 DEF CanGotoNextSibling, CanGotoParent
  <2>3. Prior[at] \cup Branch[at] = Prior[p] \cup Branch[p]
    BY <1>2, <1>4, <2>2, LastSibling
  <2>4. p \in Branch[start] /\ Height[at] = Height[p] + 1 /\ Height[p] \in Nat
    BY <1>4, <2>2
  <2> HIDE DEF p
  <2>5. Branch[at] \subseteq Branch[start] /\ Branch[p] \subseteq Branch[start]
    BY <1>2, <2>4, BranchWithin
  <2>6. Seen' = Seen /\ Seen = (Prior[p] \cap Branch[start]) \cup Branch[p]
    BY <1>1, <2>1, <2>3, <2>5 DEF Seen
  <2>7. depth' = Height[p] - Height[start]
    <3>1. depth = Height[at] - Height[start]
      BY DEF TreeInv, Types
    <3>2. depth = (Height[p] + 1) - Height[start]
      BY <2>4, <3>1
    <3>3. depth - 1 = Height[p] - Height[start]
      BY <1>3, <2>4, <3>2
    <3> QED BY <2>1, <3>3
  <2>8. Types' /\ InOrder' /\ AllAtEnd'
    BY <1>1, <1>2, <2>1, <2>4, <2>6, <2>7 DEF TreeInv, Types, InOrder, AllAtEnd, TellsEnd
  <2>9. CursorTells'
    BY <1>1, <1>2, <2>1, <2>6 DEF CursorTells
  <2> QED BY <2>8, <2>9 DEF TreeInv
<1>7. CASE ~CanGotoNextSibling /\ ~CanGotoParent
  <2>1. state' = "Done" /\ UNCHANGED <<at, depth, calling, given, over>>
    BY <1>7 DEF Right
  <2>2. at = start
    BY <1>7 DEF CanGotoParent
  <2>3. Seen' = Seen /\ Seen = Branch[start]
    BY <1>1, <1>2, <2>1, <2>2, BranchApart DEF Seen
  <2>4. Types' /\ InOrder' /\ AllAtEnd'
    BY <1>1, <1>2, <2>1, <2>3 DEF TreeInv, Types, InOrder, AllAtEnd, TellsEnd
  <2>5. CursorTells'
    BY <1>1, <1>2, <2>1, <2>3 DEF CursorTells
  <2> QED BY <2>4, <2>5 DEF TreeInv
<1> QED BY <1>5, <1>6, <1>7

\* The start itself comes first.
LEMMA StartStep ==
  ASSUME TreeInv, Start
  PROVE  TreeInv'
<1>1. /\ at = start /\ at' = at /\ state' = "Down" /\ Giving(at)
      /\ UNCHANGED <<parent, start, depth, caller, props, nils>>
  BY StartGives DEF Start
<1>2. /\ Node' = Node /\ Prior' = Prior /\ Branch' = Branch /\ Height' = Height
      /\ parent \in Trees /\ start \in Node /\ at \in Branch[start]
  BY <1>1, SameTree DEF TreeInv, Types
<1>3. Prior[at] \cap Branch[start] = Seen
  BY <1>1 DEF Giving
<1>4. /\ InOrder' /\ given' \in Seq(Node \X Nat) /\ calling' = FALSE /\ AllAtEnd'
      /\ (over' = "no" /\ Seen' = Seen \cup {at}) \/ over' = "end"
  BY <1>1, <1>2, GiveNext
<1>5. Types'
  BY <1>1, <1>2, <1>4 DEF TreeInv, Types
<1>6. CursorTells'
  BY <1>1, <1>2, <1>3, <1>4 DEF CursorTells
<1> QED BY <1>4, <1>5, <1>6 DEF TreeInv

\* Every step preserves the invariant.
LEMMA TreeStep == TreeInv /\ [Next]_vars => TreeInv'
<1> SUFFICES ASSUME TreeInv, [Next]_vars PROVE TreeInv'
  OBVIOUS
<1>1. CASE Call \/ Leave \/ Done \/ UNCHANGED vars
  <2>1. UNCHANGED <<parent, start, at, state, depth, caller, props, nils, given>>
    BY <1>1 DEF Call, Leave, Done, vars
  <2>2. Node' = Node /\ Prior' = Prior /\ Branch' = Branch /\ Height' = Height /\ Seen' = Seen
    BY <2>1, SameTree DEF Seen
  <2>3. calling' \in BOOLEAN /\ over' \in {"no", "end", "left"} /\ (calling' => over' = "no")
    <3>1. calling \in BOOLEAN /\ over \in {"no", "end", "left"} /\ (calling => over = "no")
      BY DEF TreeInv, Types
    <3>2. CASE Call
      BY <3>2 DEF Call
    <3>3. CASE Leave
      <4>1. calling' = FALSE /\ over' = "left"
        BY <3>1, <3>3 DEF Leave
      <4> QED BY <4>1
    <3>4. CASE Done
      <4>1. calling' = FALSE /\ over' = "end"
        BY <3>4 DEF Done
      <4> QED BY <4>1
    <3>5. CASE UNCHANGED vars
      <4>1. calling' = calling /\ over' = over
        BY <3>5 DEF vars
      <4> QED BY <3>1, <4>1
    <3> QED BY <1>1, <3>2, <3>3, <3>4, <3>5
  <2>4. Types' /\ InOrder'
    BY <2>1, <2>2, <2>3 DEF TreeInv, Types, InOrder
  <2>5. CursorTells'
    BY <1>1, <2>1, <2>2 DEF TreeInv, CursorTells, Call, Leave, Done, vars
  <2>6. AllAtEnd'
    BY <1>1, <2>1, <2>2 DEF TreeInv, Types, CursorTells, AllAtEnd, TellsEnd, Call, Leave, Done, vars
  <2> QED BY <2>4, <2>5, <2>6 DEF TreeInv
<1>2. CASE Start
  BY <1>2, StartStep
<1>3. CASE Down
  BY <1>3, DownStep
<1>4. CASE Right
  BY <1>4, RightStep
<1> QED BY <1>1, <1>2, <1>3, <1>4 DEF Next
\* A loop is never given a node twice.
LEMMA NoneTwice ==
  ASSUME TreeInv, NEW i \in 1 .. Len(given), NEW j \in 1 .. Len(given), i # j
  PROVE  given[i][1] # given[j][1]
<1>1. parent \in Trees /\ given \in Seq(Node \X Nat) /\ Len(given) \in Nat
  BY LenProperties DEF TreeInv, Types
<1>2. \A k \in 1 .. Len(given) : given[k][1] \in Node
  <2>1. \A k \in 1 .. Len(given) : given[k] \in Node \X Nat
    BY <1>1, ElementOfSeq
  <2> QED BY <2>1
<1>3. \A n \in Node : n \notin Prior[n]
  BY <1>1, BranchApart
<1>4. \A k \in 1 .. Len(given) : \A l \in 1 .. k - 1 : given[l][1] \in Prior[given[k][1]]
  BY DEF TreeInv, InOrder
<1>5. i \in 1 .. j - 1 \/ j \in 1 .. i - 1
  BY <1>1
<1> QED BY <1>2, <1>3, <1>4, <1>5

\* It was given as many items as it saw nodes.
LEMMA AsManyAsSeen ==
  ASSUME TreeInv
  PROVE  Len(given) = Cardinality(Seen)
<1> DEFINE f == [i \in 1 .. Len(given) |-> given[i][1]]
<1>1. Len(given) \in Nat
  BY LenProperties DEF TreeInv, Types
<1>2. IsFiniteSet(1 .. Len(given)) /\ Cardinality(1 .. Len(given)) = Len(given)
  <2>1. CASE Len(given) = 0
    BY <1>1, <2>1, FS_Interval
  <2>2. CASE Len(given) # 0
    BY <1>1, <2>2, FS_Interval
  <2> QED BY <2>1, <2>2
<1>3. f \in [1 .. Len(given) -> Seen]
  BY DEF Seen
<1>4. \A i, j \in 1 .. Len(given) : f[i] = f[j] => i = j
  BY NoneTwice
<1>5. \A n \in Seen : \E i \in 1 .. Len(given) : f[i] = n
  BY DEF Seen
<1>6. f \in Bijection(1 .. Len(given), Seen)
  <2> HIDE DEF f
  <2> QED BY <1>3, <1>4, <1>5 DEF Bijection, Injection, Surjection, IsInjective
<1> QED BY <1>2, <1>6, FS_Bijection DEF ExistsBijection

-----------------------------------------------------------------------------
(* The theorems. *)

\* What is below the start.
LEMMA BelowIsBranch ==
  ASSUME TreeInv
  PROVE  /\ Below = Branch[start]
         /\ \A n \in Node : DepthOf(n) = Height[n] - Height[start]
         /\ \A n, m \in Node : Before(n, m) <=> n \in Prior[m]
BY DEF Below, Branch, DepthOf, Height, Prior, TreeInv, Types

\* The invariant holds in every state.
LEMMA TreeAlways == Spec => []TreeInv
BY TreeInit, TreeStep, PTL DEF Spec

\* The types follow from the invariant: the cursor is never above the start.
LEMMA TypesHold ==
  ASSUME TreeInv
  PROVE  TypeOK
<1>1. parent \in Trees /\ start \in Node /\ at \in Branch[start] /\ depth = Height[at] - Height[start]
  BY DEF TreeInv, Types
<1>2. at \in Node /\ depth \in Nat
  <2>1. /\ at \in Node /\ Height[start] \in Nat /\ Height[at] \in Nat
        /\ Height[start] <= Height[at]
    BY <1>1, HeightBelow
  <2>2. Height[at] - Height[start] \in Nat
    BY <2>1
  <2> QED BY <1>1, <2>1, <2>2
<1> QED BY <1>1, <1>2 DEF TreeInv, Types, TypeOK

\* Every variable keeps its type; the depth of DepthFirstIterator, a usize that
\* traverse counts down wherever it goes up, never falls below zero.
THEOREM TraversalTypeCorrect == Spec => []TypeOK
<1>1. TreeInv => TypeOK
  BY TypesHold
<1> QED BY <1>1, TreeAlways, PTL

\* What a loop was given is depth-first pre-order, with the depth of each node
\* below the start, and skips nothing: everything that comes before the last
\* node given was given.
GivenInPreOrder ==
  LET seen == {given[i][1] : i \in DOMAIN given}
  IN /\ \A i, j \in DOMAIN given : i < j => Before(given[i][1], given[j][1])
     /\ \A i \in DOMAIN given : given[i][2] = DepthOf(given[i][1])
     /\ seen \subseteq Below
     /\ given # <<>> =>
          \A n \in Below : Before(n, Last(given)[1]) => n \in seen

\* What the loops of tsc are given comes in depth-first pre-order, each node with
\* its depth below the start, and nothing is skipped.
THEOREM AlwaysInPreOrder == Spec => []GivenInPreOrder
<1>1. TreeInv => GivenInPreOrder
  <2> SUFFICES ASSUME TreeInv PROVE GivenInPreOrder
    OBVIOUS
  <2>1. given \in Seq(Node \X Nat) /\ Len(given) \in Nat /\ DOMAIN given = 1 .. Len(given)
    BY LenProperties DEF TreeInv, Types
  <2>2. \A i \in DOMAIN given : given[i][1] \in Node
    <3>1. \A k \in 1 .. Len(given) : given[k] \in Node \X Nat
      BY <2>1, ElementOfSeq
    <3> QED BY <2>1, <3>1
  <2>3. /\ Below = Branch[start]
        /\ \A n \in Node : DepthOf(n) = Height[n] - Height[start]
        /\ \A n, m \in Node : Before(n, m) <=> n \in Prior[m]
    BY BelowIsBranch
  <2>4. \A i, j \in DOMAIN given : i < j => Before(given[i][1], given[j][1])
    <3> SUFFICES ASSUME NEW i \in DOMAIN given, NEW j \in DOMAIN given, i < j
                 PROVE  Before(given[i][1], given[j][1])
      OBVIOUS
    <3>1. i \in 1 .. j - 1 /\ j \in 1 .. Len(given)
      BY <2>1
    <3>2. given[i][1] \in Prior[given[j][1]]
      BY <3>1 DEF TreeInv, InOrder
    <3> QED BY <2>2, <2>3, <3>2
  <2>5. \A i \in DOMAIN given : given[i][2] = DepthOf(given[i][1])
    BY <2>1, <2>2, <2>3 DEF TreeInv, InOrder
  <2>6. Seen = {given[i][1] : i \in DOMAIN given}
    BY <2>1 DEF Seen
  <2>7. Seen \subseteq Below
    BY <2>3 DEF TreeInv, InOrder
  <2>8. ASSUME given # <<>>, NEW n \in Below, Before(n, Last(given)[1]) PROVE n \in Seen
    <3>1. Len(given) \in DOMAIN given
      BY <2>1, <2>8, EmptySeq
    <3>2. Last(given) = given[Len(given)]
      BY DEF Last
    <3>3. n \in Node
      BY DEF Below
    <3>4. n \in Prior[given[Len(given)][1]] \cap Branch[start]
      BY <2>2, <2>3, <2>8, <3>1, <3>2, <3>3
    <3> QED BY <2>8, <3>4 DEF TreeInv, InOrder
  <2> QED BY <2>4, <2>5, <2>6, <2>7, <2>8 DEF GivenInPreOrder
<1> QED BY <1>1, TreeAlways, PTL

\* A loop that was not left early, and is not the generator of a property that
\* may be nil, was given every node below its start.
EndIsComplete == over = "end" /\ TellsEnd => Len(given) = Cardinality(Below)

\* A loop that comes to its end was given every node below its start, once.
THEOREM EndAlwaysComplete == Spec => []EndIsComplete
<1>1. TreeInv => EndIsComplete
  BY AsManyAsSeen, BelowIsBranch DEF TreeInv, AllAtEnd, EndIsComplete
<1> QED BY <1>1, TreeAlways, PTL
-----------------------------------------------------------------------------
(* The traversal is an enumeration. *)

Item(n) == <<n, Height[n] - Height[start]>>

\* The items to give, those given, and their order, in the terms of the
\* invariant.
LEMMA ListingFacts ==
  ASSUME TreeInv
  PROVE  /\ Items = {Item(n) : n \in Branch[start]}
         /\ Listing!Given = {Item(n) : n \in Seen}
         /\ \A n, m \in Branch[start] : <<Item(n), Item(m)>> \in Earlier <=> n \in Prior[m]
<1>1. /\ Below = Branch[start]
      /\ \A n \in Node : DepthOf(n) = Height[n] - Height[start]
      /\ \A n, m \in Node : Before(n, m) <=> n \in Prior[m]
  BY BelowIsBranch
<1>2. Branch[start] \subseteq Node
  BY <1>1 DEF Below
<1>3. Items = {Item(n) : n \in Branch[start]}
  BY <1>1, <1>2 DEF Items, Item
<1>4. Listing!Given = {Item(n) : n \in Seen}
  <2>1. DOMAIN given = 1 .. Len(given) /\ \A i \in 1 .. Len(given) : given[i] \in Node \X Nat
    BY LenProperties, ElementOfSeq DEF TreeInv, Types
  <2>2. \A i \in 1 .. Len(given) : given[i] = Item(given[i][1])
    BY <2>1 DEF TreeInv, InOrder, Item
  <2> QED BY <2>1, <2>2 DEF Listing!Given, Seen
<1>5. ASSUME NEW n \in Branch[start], NEW m \in Branch[start]
      PROVE  <<Item(n), Item(m)>> \in Earlier <=> n \in Prior[m]
  <2> DEFINE pair == <<Item(n), Item(m)>>
  <2>1. pair \in Items \X Items /\ pair[1][1] = n /\ pair[2][1] = m
    BY <1>3 DEF Item
  <2>2. pair \in Earlier <=> Before(pair[1][1], pair[2][1])
    BY <2>1 DEF Earlier
  <2> QED BY <1>1, <1>2, <2>1, <2>2
<1> QED BY <1>3, <1>4, <1>5

\* What is to be given does not change.
LEMMA SameListing ==
  ASSUME UNCHANGED <<parent, start>>
  PROVE  Items' = Items /\ Earlier' = Earlier
<1>1. Node' = Node /\ Ancestors' = Ancestors
  BY SameTree
<1>2. Items' = Items
  BY <1>1 DEF Items, Below, DepthOf
<1> QED BY <1>1, <1>2 DEF Earlier, Before

\* A step that gives a node gives the next item, or leaves for a nil.
LEMMA GivingEnumerates ==
  ASSUME TreeInv, NEW n \in Branch[start], Giving(n)
  PROVE  Listing!GiveNext \/ Listing!LeaveEarly
<1>1. /\ over = "no" /\ UNCHANGED <<Items, Earlier>>
      /\ Give(n, Height[n] - Height[start]) /\ Prior[n] \cap Branch[start] = Seen
      /\ UNCHANGED <<parent, start, caller, props, nils>>
  BY SameListing DEF Giving
<1>2. CASE caller = "iter" /\ IterCurrentNode(n) = "nil"
  <2>1. over' = "end" /\ given' = given
    BY <1>1, <1>2 DEF Give
  <2>2. ~TellsEnd'
    BY <1>1, <1>2 DEF TellsEnd, IterCurrentNode, CurrentNode, Get
  <2> QED BY <1>1, <2>1, <2>2 DEF Listing!LeaveEarly
<1>3. CASE ~(caller = "iter" /\ IterCurrentNode(n) = "nil")
  <2>1. given' = Append(given, Item(n)) /\ over' = "no"
    BY <1>1, <1>3 DEF Give, Item
  <2>2. n \notin Prior[n] /\ Seen \subseteq Branch[start]
    <3>1. n \in Node
      BY BelowIsBranch DEF Below
    <3> QED BY <3>1, BranchApart DEF TreeInv, Types, InOrder
  <2>3. \A m \in Branch[start] : Item(m) \in Listing!Given <=> m \in Seen
    BY <2>2, ListingFacts DEF Item
  <2>4. Item(n) \in Items \ Listing!Given
    BY <1>1, <2>2, <2>3, ListingFacts
  <2>5. ASSUME NEW item \in Items
        PROVE  <<item, Item(n)>> \in Earlier <=> item \in Listing!Given
    <3>1. PICK m \in Branch[start] : item = Item(m)
      BY ListingFacts
    <3>2. <<item, Item(n)>> \in Earlier <=> m \in Prior[n]
      BY <3>1, ListingFacts
    <3> QED BY <1>1, <2>3, <3>1, <3>2
  <2> QED BY <1>1, <2>1, <2>4, <2>5 DEF Listing!GiveNext
<1> QED BY <1>2, <1>3

\* Every step gives the next item, ends, leaves, or changes nothing of that.
LEMMA EnumerationStep ==
  ASSUME TreeInv, [Next]_vars
  PROVE  [Listing!EnumerationNext]_Listing!enumeration
<1>1. UNCHANGED <<Items, Earlier>> /\ TellsEnd' = TellsEnd
  <2>1. UNCHANGED <<parent, start, caller, props, nils>>
    BY DEF Next, Call, Start, Down, Right, Done, Leave, vars
  <2> QED BY <2>1, SameListing DEF TellsEnd
<1>2. CASE UNCHANGED <<given, over>>
  BY <1>1, <1>2 DEF Listing!enumeration
<1>3. CASE Start
  <2>1. Giving(start) /\ start \in Branch[start]
    BY <1>3, StartGives, BranchApart DEF TreeInv, Types
  <2> QED BY <2>1, GivingEnumerates DEF Listing!EnumerationNext
<1>4. CASE Down
  <2>1. CASE CanGotoFirstChild
    BY <1>4, <2>1, DownGives, GivingEnumerates DEF Listing!EnumerationNext
  <2>2. CASE ~CanGotoFirstChild
    BY <1>2, <1>4, <2>2 DEF Down
  <2> QED BY <2>1, <2>2
<1>5. CASE Right
  <2>1. CASE CanGotoNextSibling
    BY <1>5, <2>1, RightGives, GivingEnumerates DEF Listing!EnumerationNext
  <2>2. CASE ~CanGotoNextSibling
    BY <1>2, <1>5, <2>2 DEF Right
  <2> QED BY <2>1, <2>2
<1>6. CASE Done
  <2>1. over = "no" /\ Seen = Branch[start] /\ over' = "end" /\ UNCHANGED given
    BY <1>6 DEF Done, TreeInv, Types, CursorTells
  <2>2. Listing!Given = Items
    BY <2>1, ListingFacts
  <2> QED BY <1>1, <2>1, <2>2
          DEF Listing!EnumerationNext, Listing!EndWithAll, Listing!LeaveEarly
<1>7. CASE Leave
  <2>1. over = "no" /\ over' = "left" /\ UNCHANGED given
    BY <1>7 DEF Leave
  <2> QED BY <1>1, <2>1 DEF Listing!EnumerationNext, Listing!LeaveEarly
<1>8. CASE Call \/ UNCHANGED vars
  BY <1>2, <1>8 DEF Call, vars
<1> QED BY <1>3, <1>4, <1>5, <1>6, <1>7, <1>8 DEF Next

\* The traversal implements Enumeration: whatever the tree, a loop is given the
\* nodes below its start with their depths in depth-first pre-order, one after
\* the other, and comes to its end with the last of them.
THEOREM TraversalEnumerates == Spec => Enumerates
<1>1. Init => Listing!EnumerationInit
  BY DEF Init, Listing!EnumerationInit
<1>2. TreeInv /\ [Next]_vars => [Listing!EnumerationNext]_Listing!enumeration
  BY EnumerationStep
<1> QED BY <1>1, <1>2, TreeAlways, PTL DEF Spec, Enumerates, Listing!EnumerationSpec
-----------------------------------------------------------------------------
(* The traversal ends: what is left to do. *)

\* How far the cursor is from its end, by its state.
Rank == IF state \in {"Start", "Down"} THEN 2 ELSE IF state = "Right" THEN 1 ELSE 0

\* Three for each node not yet given, one for each level that the cursor has to
\* go up, and what is left of the call and of the loop.
Remaining ==
  3 * (Cardinality(Below) - Len(given)) + depth + Rank
    + (IF calling THEN 0 ELSE 1) + (IF over = "no" THEN 3 ELSE 0)

\* The numbers that it is made of.
Numbers ==
  /\ Cardinality(Below) - Len(given) \in Nat
  /\ Cardinality(Below) \in Nat /\ Len(given) \in Nat
  /\ depth \in Nat /\ Rank \in Nat /\ Remaining \in Nat

LEMMA RemainingParts ==
  ASSUME TreeInv
  PROVE  Numbers
<1>1. Below \subseteq Node /\ IsFiniteSet(Node)
  BY TreeShape DEF TreeInv, Types, Below
<1>2. IsFiniteSet(Below) /\ Cardinality(Below) \in Nat
  BY <1>1, FS_Subset, FS_CardinalityType
<1>3. Seen \subseteq Below
  BY BelowIsBranch DEF TreeInv, InOrder
<1>4. Cardinality(Seen) <= Cardinality(Below)
  BY <1>2, <1>3, FS_Subset
<1>5. Len(given) \in Nat /\ Len(given) <= Cardinality(Below)
  BY <1>4, AsManyAsSeen, LenProperties DEF TreeInv, Types
<1>6. Cardinality(Below) - Len(given) \in Nat
  BY <1>2, <1>5
<1>7. depth \in Nat
  BY TypesHold DEF TypeOK
<1>8. Remaining \in Nat
  <2>1. Rank \in Nat /\ (IF calling THEN 0 ELSE 1) \in Nat /\ (IF over = "no" THEN 3 ELSE 0) \in Nat
    BY DEF Rank
  <2> QED BY <1>6, <1>7, <2>1 DEF Remaining
<1> QED BY <1>2, <1>5, <1>6, <1>7, <1>8 DEF Numbers, Rank

\* The nodes below the start stay the same.
LEMMA SameBelow ==
  ASSUME UNCHANGED <<parent, start>>
  PROVE  Cardinality(Below)' = Cardinality(Below)
<1>1. Node' = Node /\ Ancestors' = Ancestors
  BY SameTree
<1> QED BY <1>1 DEF Below

\* The cursor gains at most one step by going down or to a sibling.
GainsOne == depth' + Rank' <= depth + Rank + 1

\* Giving a node leaves three less to do, and a new call; a nil ends the loop.
LEMMA GivingDescends ==
  ASSUME TreeInv, Numbers, Numbers', NEW n \in Branch[start], Giving(n), calling, GainsOne
  PROVE  Remaining' < Remaining
<1>1. /\ Cardinality(Below) \in Nat /\ Len(given) \in Nat /\ Len(given') \in Nat
      /\ depth \in Nat /\ depth' \in Nat /\ Rank \in Nat /\ Rank' \in Nat
  BY DEF Numbers
<1>2. Cardinality(Below)' = Cardinality(Below)
  BY SameBelow DEF Giving
<1>3. over = "no" /\ ~calling'
  BY DEF Giving, Give
<1>4. PICK x \in Nat, r \in Nat : x = depth' /\ r = Rank'
  BY <1>1
<1> DEFINE c == Cardinality(Below)
           g == Len(given)
           d == depth + Rank
           e == x + r
<1>5. c \in Nat /\ g \in Nat /\ d \in Nat /\ e \in Nat /\ e <= d + 1
  <2>1. c \in Nat /\ g \in Nat /\ d \in Nat /\ e \in Nat
    BY <1>1
  <2>2. e <= d + 1
    BY <1>4 DEF GainsOne
  <2> QED BY <2>1, <2>2
<1>6. Remaining = 3 * (c - g) + d + 3
  <2>1. Remaining = 3 * (c - g) + depth + Rank + 0 + 3
    BY <1>3 DEF Remaining
  <2> QED BY <1>1, <2>1
<1>7. CASE over' = "no" /\ Len(given') = g + 1
  <2>1. Remaining' = 3 * (c - (g + 1)) + x + r + 1 + 3
    BY <1>2, <1>3, <1>4, <1>7 DEF Remaining
  <2>2. Remaining' = 3 * (c - (g + 1)) + e + 4
    BY <1>1, <2>1
  <2> HIDE DEF c, g, d, e
  <2> QED BY <1>5, <1>6, <2>2
<1>8. CASE over' # "no" /\ given' = given
  <2>1. Remaining' = 3 * (c - g) + x + r + 1 + 0
    BY <1>2, <1>3, <1>4, <1>8 DEF Remaining
  <2>2. Remaining' = 3 * (c - g) + e + 1
    BY <1>1, <2>1
  <2> HIDE DEF c, g, d, e
  <2> QED BY <1>5, <1>6, <2>2
<1>9. \/ over' # "no" /\ given' = given
      \/ over' = "no" /\ Len(given') = Len(given) + 1
  <2>1. given \in Seq(Node \X Nat) /\ <<n, Height[n] - Height[start]>> \in Node \X Nat
    BY HeightBelow DEF TreeInv, Types
  <2> QED BY <1>3, <2>1, AppendProperties DEF Giving, Give
<1> QED BY <1>7, <1>8, <1>9

\* Every step leaves less to do.
LEMMA StepDescends ==
  ASSUME TreeInv, Numbers, Numbers', Next
  PROVE  Remaining' < Remaining
<1>1. /\ Cardinality(Below) - Len(given) \in Nat /\ depth \in Nat /\ depth' \in Nat
      /\ Rank \in Nat /\ Rank' \in Nat
  BY DEF Numbers
<1> DEFINE left == 3 * (Cardinality(Below) - Len(given))
<1>2. Cardinality(Below)' = Cardinality(Below)
  <2>1. UNCHANGED <<parent, start>>
    BY DEF Next, Call, Start, Down, Right, Done, Leave
  <2> QED BY <2>1, SameBelow
<1>3. left \in Nat /\ (given' = given => left' = left)
  BY <1>1, <1>2
<1>4. Remaining = left + depth + Rank + (IF calling THEN 0 ELSE 1) + (IF over = "no" THEN 3 ELSE 0)
  BY DEF Remaining
<1>5. Remaining' = left' + depth' + Rank' + (IF calling' THEN 0 ELSE 1) + (IF over' = "no" THEN 3 ELSE 0)
  BY DEF Remaining
<1> HIDE DEF left
<1>6. CASE Start
  <2>1. calling /\ depth' = depth /\ Rank = 2 /\ Rank' = 2
    BY <1>6 DEF Start, Rank
  <2>2. Giving(start) /\ start \in Branch[start]
    BY <1>6, StartGives, BranchApart DEF TreeInv, Types
  <2> QED BY <1>1, <2>1, <2>2, GivingDescends DEF GainsOne
<1>7. CASE Down
  <2>1. calling /\ Rank = 2
    BY <1>7 DEF Down, Rank
  <2>2. CASE CanGotoFirstChild
    <3>1. PICK n \in Branch[start] : state' = "Down" /\ Giving(n) /\ depth' = depth + 1
      BY <1>7, <2>2, DownGives
    <3>2. Rank' = 2
      BY <3>1 DEF Rank
    <3> QED BY <1>1, <2>1, <3>1, <3>2, GivingDescends DEF GainsOne
  <2>3. CASE ~CanGotoFirstChild
    <3>1. Rank' = 1 /\ UNCHANGED <<depth, calling, given, over>>
      BY <1>7, <2>3 DEF Down, NoChild, Rank
    <3> QED BY <1>1, <1>3, <1>4, <1>5, <2>1, <3>1
  <2> QED BY <2>2, <2>3
<1>8. CASE Right
  <2>1. calling /\ Rank = 1
    BY <1>8 DEF Right, Rank
  <2>2. CASE CanGotoNextSibling
    <3>1. PICK n \in Branch[start] : state' = "Down" /\ Giving(n) /\ depth' = depth
      BY <1>8, <2>2, RightGives
    <3>2. Rank' = 2
      BY <3>1 DEF Rank
    <3> QED BY <1>1, <2>1, <3>1, <3>2, GivingDescends DEF GainsOne
  <2>3. CASE ~CanGotoNextSibling /\ CanGotoParent
    <3>1. Rank' = 1 /\ depth' = depth - 1 /\ UNCHANGED <<calling, given, over>>
      BY <1>8, <2>3 DEF Right, Rank
    <3> QED BY <1>1, <1>3, <1>4, <1>5, <2>1, <3>1
  <2>4. CASE ~CanGotoNextSibling /\ ~CanGotoParent
    <3>1. Rank' = 0 /\ UNCHANGED <<depth, calling, given, over>>
      BY <1>8, <2>4 DEF Right, Rank
    <3> QED BY <1>1, <1>3, <1>4, <1>5, <2>1, <3>1
  <2> QED BY <2>2, <2>3, <2>4
<1>9. CASE Done
  <2>1. calling /\ ~calling' /\ over = "no" /\ over' = "end" /\ UNCHANGED <<depth, given, state>>
    BY <1>9 DEF Done, TreeInv, Types
  <2>2. Rank' = Rank
    BY <2>1 DEF Rank
  <2> QED BY <1>1, <1>3, <1>4, <1>5, <2>1, <2>2
<1>10. CASE Call
  <2>1. ~calling /\ calling' /\ UNCHANGED <<depth, given, state, over>>
    BY <1>10 DEF Call
  <2>2. Rank' = Rank
    BY <2>1 DEF Rank
  <2> QED BY <1>1, <1>3, <1>4, <1>5, <2>1, <2>2
<1>11. CASE Leave
  <2>1. over = "no" /\ over' = "left" /\ UNCHANGED <<depth, given, state, calling>>
    BY <1>11 DEF Leave
  <2>2. Rank' = Rank
    BY <2>1 DEF Rank
  <2> QED BY <1>1, <1>3, <1>4, <1>5, <2>1, <2>2
<1> QED BY <1>6, <1>7, <1>8, <1>9, <1>10, <1>11 DEF Next

\* What is left to do, at first six and three for each node.
Descends == Remaining' < Remaining
AtFirst == Remaining = 3 * Cardinality(Below) + 6

\* A loop over any tree, in Rust or in Lisp, ends after at most as many steps as
\* is left to do at first: each step of the cursor, each call of next and each
\* end leaves less to do, and what is left is a natural number.  (That the steps
\* are taken is what fairness adds.)
THEOREM TraversalDescends ==
  Spec => AtFirst /\ [](Remaining \in Nat) /\ [][Descends]_vars
<1>1. Init => AtFirst
  <2> SUFFICES ASSUME Init PROVE AtFirst
    OBVIOUS
  <2>1. Cardinality(Below) \in Nat
    BY TreeInit, RemainingParts DEF Numbers
  <2>2. given = <<>> /\ depth = 0 /\ state = "Start" /\ ~calling /\ over = "no"
    BY DEF Init
  <2>3. Len(given) = 0 /\ Rank = 2
    BY <2>2, EmptySeq DEF Rank
  <2> QED BY <2>1, <2>2, <2>3 DEF AtFirst, Remaining
<1>2. TreeInv => Numbers
  BY RemainingParts
<1>3. Numbers => Remaining \in Nat
  BY DEF Numbers
<1>4. TreeInv /\ Numbers /\ Numbers' /\ [Next]_vars => [Descends]_vars
  BY StepDescends DEF Descends
<1> QED BY <1>1, <1>2, <1>3, <1>4, TreeAlways, PTL DEF Spec
=============================================================================
