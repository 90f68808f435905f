---------------------------- MODULE TreeTraversal ----------------------------
(***************************************************************************)
(* The depth-first traversal of a syntax tree in the Rust module of the    *)
(* package tsc (src/cursor.rs), and the three loops that drive it:         *)
(* tsc--traverse-mapc in Rust, tsc-traverse-do and the generator of        *)
(* tsc-traverse-iter in tsc.el.                                            *)
(*                                                                         *)
(* A tree is a function from its nodes, but the root 1, to their parents.  *)
(* Siblings are ordered as their numbers; a number says nothing else about *)
(* where in the traversal a node comes.  The cursor belongs to the         *)
(* tree-sitter library: it starts at a node and never leaves what is below *)
(* that node.                                                              *)
(***************************************************************************)
EXTENDS Integers, Sequences, SequencesExt, FiniteSets

CONSTANT MaxNodes \* bound on the nodes of a tree

ASSUME BoundAssumption == MaxNodes \in Nat \ {0}

VARIABLES
  parent,  \* the tree
  start,   \* the node that the traversal starts from
  at,      \* the node of the cursor
  state,   \* the TraversalState
  depth,   \* the depth of the cursor, below the start
  calling, \* whether a call of next is on its way
  caller,  \* the loop: "mapc", "do" or "iter"
  props,   \* what it asks for: nodes, the depth, a property, several
  nils,    \* the nodes whose property is nil
  given,   \* the nodes the loop was given, each with its depth (history)
  over     \* whether the loop is at its "end", was "left" early, or goes on

vars == <<parent, start, at, state, depth, calling, caller, props, nils, given, over>>

-----------------------------------------------------------------------------
(* The tree, and the cursor. *)

Node == {1} \cup DOMAIN parent
Smallest(nodes) == CHOOSE n \in nodes : \A m \in nodes : n <= m

Kids(n) == {m \in DOMAIN parent : parent[m] = n}
YoungerSiblings(n) == {m \in DOMAIN parent : m > n /\ parent[m] = parent[n]}

CanGotoFirstChild == Kids(at) # {}
CanGotoNextSibling == at # start /\ YoungerSiblings(at) # {}
CanGotoParent == at # start

-----------------------------------------------------------------------------
(* DepthFirstIterator *)

\* get: one property of a node.
Get(n) == IF n \in nils THEN "nil" ELSE "value"

\* _current_node: the node, a vector of properties, or one property.
CurrentNode(n) == IF props = "property" THEN Get(n) ELSE "value"

\* _iter_current_node: the depth is the iterator's, also within a vector.
IterCurrentNode(n) == IF props = "depth" THEN "value" ELSE CurrentNode(n)

\* The loop gets the node of the cursor, or what it asked for.  The loop in
\* Rust goes by the iterator; tsc-traverse-iter takes nil for the end.
Give(n, d) ==
  /\ calling' = FALSE
  /\ IF caller = "iter" /\ IterCurrentNode(n) = "nil"
     THEN over' = "end" /\ UNCHANGED given
     ELSE given' = Append(given, <<n, d>>) /\ UNCHANGED over

\* The loop asks for the next node.
Call ==
  /\ over = "no"
  /\ ~calling
  /\ calling' = TRUE
  /\ UNCHANGED <<parent, start, at, state, depth, caller, props, nils, given, over>>

Start ==
  /\ calling /\ state = "Start"
  /\ state' = "Down"
  /\ Give(at, depth)
  /\ UNCHANGED <<parent, start, at, depth, caller, props, nils>>

\* Mutant: the depth of a first child is that of its parent.
DeeperNot == depth

\* The depth of a first child.
Deeper == depth + 1

\* Mutant: a node without children is tried again.
NoChildAgain == "Down"

\* Where a node without children leads.
NoChild == "Right"

Down ==
  /\ calling /\ state = "Down"
  /\ IF CanGotoFirstChild
     THEN /\ at' = Smallest(Kids(at))
          /\ depth' = Deeper
          /\ Give(at', depth')
          /\ UNCHANGED state
     ELSE /\ state' = NoChild
          /\ UNCHANGED <<at, depth, calling, given, over>>
  /\ UNCHANGED <<parent, start, caller, props, nils>>

\* Mutant: what is below a sibling is passed over.
AfterSiblingRight == "Right"

\* What follows a move to a sibling.
AfterSibling == "Down"

Right ==
  /\ calling /\ state = "Right"
  /\ IF CanGotoNextSibling
     THEN /\ at' = Smallest(YoungerSiblings(at))
          /\ state' = AfterSibling
          /\ Give(at', depth)
          /\ UNCHANGED depth
     ELSE IF CanGotoParent
     THEN /\ at' = parent[at]
          /\ depth' = depth - 1
          /\ UNCHANGED <<state, calling, given, over>>
     ELSE /\ state' = "Done"
          /\ UNCHANGED <<at, depth, calling, given, over>>
  /\ UNCHANGED <<parent, start, caller, props, nils>>

\* next returns nothing, and the loop ends.
Done ==
  /\ calling /\ state = "Done"
  /\ calling' = FALSE
  /\ over' = "end"
  /\ UNCHANGED <<parent, start, at, state, depth, caller, props, nils, given>>

\* The body of the loop signals an error, or the generator is closed.
Leave ==
  /\ over = "no"
  /\ ~calling
  /\ over' = "left"
  /\ UNCHANGED <<parent, start, at, state, depth, calling, caller, props, nils, given>>

Trees == UNION {{p \in [2 .. n -> 1 .. n - 1] : \A m \in 2 .. n : p[m] < m} :
                  n \in 1 .. MaxNodes}

\* DepthFirstIterator::new, in each of the loops.
Init ==
  /\ parent \in Trees
  /\ start \in Node
  /\ at = start
  /\ state = "Start"
  /\ depth = 0
  /\ calling = FALSE
  /\ caller \in {"mapc", "do", "iter"}
  /\ props \in {"node", "depth", "property", "vector"}
  /\ caller = "do" => props = "vector"
  /\ nils \in SUBSET Node
  /\ props # "property" => nils = {}
  /\ given = <<>>
  /\ over = "no"

Next == Call \/ Start \/ Down \/ Right \/ Done \/ Leave

Spec == Init /\ [][Next]_vars

\* A call that was begun goes on, and the loop goes round.
Fairness == WF_vars(Call) /\ WF_vars(Start \/ Down \/ Right \/ Done)

FairSpec == Spec /\ Fairness
-----------------------------------------------------------------------------

\* The chain of nodes from n up to the root.
Ancestors ==
  LET up[n \in Node] == IF n = 1 THEN {1} ELSE {n} \cup up[parent[n]]
  IN up

\* "Depth-first pre-order": a node comes before those below it, and what is
\* below an older sibling before what is below a younger one.
Before(n, m) ==
  \/ n # m /\ n \in Ancestors[m]
  \/ \E s, t \in DOMAIN parent : /\ parent[s] = parent[t] /\ s < t
                                 /\ s \in Ancestors[n] /\ t \in Ancestors[m]

Below == {n \in Node : start \in Ancestors[n]}
DepthOf(n) == Cardinality(Ancestors[n]) - Cardinality(Ancestors[start])

\* Every variable holds a value of its type: the depth, a usize, never falls
\* below zero although it is counted down wherever the cursor goes up.
TypeOK ==
  /\ parent \in Trees
  /\ start \in Node /\ at \in Node
  /\ state \in {"Start", "Down", "Right", "Done"}
  /\ depth \in Nat
  /\ calling \in BOOLEAN
  /\ caller \in {"mapc", "do", "iter"}
  /\ props \in {"node", "depth", "property", "vector"}
  /\ nils \subseteq Node
  /\ given \in Seq(Node \X Nat)
  /\ over \in {"no", "end", "left"}

\* Whether the loop can tell its last node from its end.
TellsEnd == caller # "iter" \/ props # "property" \/ nils = {}

\* The nodes below the start, each with its depth, and their order.
Items == {<<n, DepthOf(n)>> : n \in Below}
Earlier == {pair \in Items \X Items : Before(pair[1][1], pair[2][1])}

\* A loop is an enumeration of the nodes below its start in depth-first
\* pre-order, each given once, with its depth, after all that come before it,
\* and at its end all.  The generator of a property that may be nil, which
\* takes nil for the end, may leave early.
Listing == INSTANCE Enumeration WITH
  items <- Items,
  earlier <- Earlier,
  over <- IF over = "end" /\ ~TellsEnd THEN "left" ELSE over
Enumerates == Listing!EnumerationSpec

\* Every traversal comes to its end, or is left.
Ends == <>(over # "no")

\* "the iterator yields only that property each iteration": the generator of a
\* property yields it for every node below its start.
YieldsEveryNode == over = "end" => Len(given) = Cardinality(Below)

=============================================================================
