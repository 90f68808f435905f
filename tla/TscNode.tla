------------------------------ MODULE TscNode ------------------------------
(* Trees and nodes: the functions of src/tree.rs, src/node.rs and lang.rs. *)
EXTENDS TscObjects

CONSTANTS
  KindCount, \* the node types of a language
  ErrorKind, \* the type id of an error, beyond them
  Abi,       \* the ABI version of each language
  MinAbi, MaxAbi, \* the versions that can be loaded
  Children   \* bound on the children of a node

ASSUME NodeAssumption ==
  /\ KindCount \in Nat \ {0} /\ Children \in Nat
  /\ ErrorKind \in Nat /\ ErrorKind >= KindCount
  /\ Abi \in [Language -> Nat] /\ MinAbi \in Nat /\ MaxAbi \in Nat

-----------------------------------------------------------------------------
(* lang.rs *)

Supported(l) == MinAbi <= Abi[l] /\ Abi[l] <= MaxAbi

\* _load_language: a language of another ABI is not registered.
LoadLanguage(l) ==
  IF Supported(l)
  THEN /\ loaded' = loaded \cup {l}
       /\ Result("ok")
       /\ UNCHANGED <<parser, query, tree, obj, cell, stack>>
  ELSE Plain("failed")

\* The node types, by their ids.
NodeTypes == [id \in 0 .. KindCount - 1 |-> id]

\* A language that Lisp holds was loaded; its information is looked up in the
\* registry.
LangInfo(l) ==
  /\ l \in loaded
  /\ Plain("ok")

\* lisp_type: the type of an error is no type of the language.
TypeIsKnown(l, id) == id = ErrorKind \/ (l \in loaded /\ id \in DOMAIN NodeTypes)

-----------------------------------------------------------------------------
(* tree.rs *)

TreeRead(h) ==
  /\ Is("tree", h)
  /\ IF CanRead(obj[h].tree) THEN Plain("ok") ELSE Panics

\* changed_ranges reads two trees, which may be one.
ChangedRanges(h, g) ==
  /\ Is("tree", h) /\ Is("tree", g)
  /\ IF CanRead(obj[h].tree) /\ CanRead(obj[g].tree) THEN Plain("ok") ELSE Panics

\* root_node
RootNode(h) ==
  /\ Is("tree", h)
  /\ IF CanRead(obj[h].tree) THEN Make("node", h) ELSE Panics

Editable(t) == CanWrite(t)

\* edit_tree
EditTree(h) ==
  /\ Is("tree", h)
  /\ LET t == obj[h].tree
     IN IF Editable(t)
        THEN /\ tree[t].edits < MaxEdits
             /\ tree' = [tree EXCEPT ![t].edits = @ + 1]
             /\ Result("ok")
             /\ UNCHANGED <<loaded, parser, query, obj, cell, stack>>
        ELSE Panics

\* _clone_tree: another reference to the same tree.
CloneTree(h) == Is("tree", h) /\ Make("tree", h)

-----------------------------------------------------------------------------
(* node.rs *)

\* The functions that return a property of a node; id is its type id.
NodeProperty(h, id) ==
  /\ Is("node", h)
  /\ IF ~CanRead(h) THEN Refused
     ELSE IF CanRead(obj[h].tree) /\ TypeIsKnown(tree[obj[h].in].lang, id)
     THEN Plain("ok") ELSE Panics

\* node_eq compares the nodes and looks at no tree.
NodeEq(h, g) ==
  /\ Is("node", h) /\ Is("node", g)
  /\ IF CanRead(h) /\ CanRead(g) THEN Plain("ok") ELSE Refused

\* The functions that return another node, or nil.
NodeNavigation(h) ==
  /\ Is("node", h)
  /\ IF ~CanRead(h) THEN Refused
     ELSE IF ~CanRead(obj[h].tree) THEN Panics
     ELSE Make("node", h) \/ Plain("ok")

\* edit_node writes the node, and takes its tree for writing.
EditNode(h) ==
  /\ Is("node", h)
  /\ IF ~CanWrite(h) THEN Refused
     ELSE IF Editable(obj[h].tree) THEN Plain("ok") ELSE Panics

\* mapc_children calls back for each child, with the node and its tree held.
MapcChildren(h) ==
  /\ Is("node", h)
  /\ IF ~CanRead(h) THEN Refused
     ELSE IF ~CanRead(obj[h].tree) THEN Panics
     ELSE Begin(Frame("mapc", h)) \/ Plain("ok")

\* The function of mapc_children has returned: on to the next child, if any.
ChildReturns ==
  /\ Running({"mapc"})
  /\ \/ Top.at + 1 < Children /\ Continue([Top EXCEPT !.at = @ + 1])
     \/ EndPlain("ok")

\* It has signalled or thrown.
ChildFails == Running({"mapc"}) /\ EndPlain("failed")
=============================================================================
