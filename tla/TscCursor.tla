----------------------------- MODULE TscCursor -----------------------------
(* Cursors and iterators: the functions of src/cursor.rs.                  *)
(* How an iterator goes through a tree is in TreeTraversal.                *)
EXTENDS TscNode

CONSTANTS
  ResetElsewhere, \* whether a cursor may be reset to a node of another tree
  MaxVisits       \* bound on the nodes that a traversal gives

ASSUME CursorAssumption == ResetElsewhere \in BOOLEAN /\ MaxVisits \in Nat

TreeOrNode(h) == Is("tree", h) \/ Is("node", h)

\* A node is only borrowed as long as the walk begins.
Walkable(h) ==
  /\ CanRead(obj[h].tree)
  /\ Is("node", h) => CanRead(h)

\* make_cursor and _iter
MakeCursor(kind, h) ==
  /\ kind \in {"cursor", "iter"}
  /\ TreeOrNode(h)
  /\ IF Walkable(h) THEN Make(kind, h) ELSE Panics

\* current_field_id, current_field, and _current_node of one or several
\* properties; id is the type id of the node.
CursorProperty(h, id) ==
  /\ Is("cursor", h)
  /\ IF ~CanRead(h) THEN Refused
     ELSE IF CanRead(obj[h].tree) /\ TypeIsKnown(tree[obj[h].in].lang, id)
     THEN Plain("ok") ELSE Panics

\* _current_node without properties: a node, which keeps the cursor's tree.
CurrentNode(h) ==
  /\ Is("cursor", h)
  /\ IF ~CanRead(h) THEN Refused
     ELSE IF CanRead(obj[h].tree) THEN Make("node", h) ELSE Panics

\* goto_first_child, goto_parent, goto_next_sibling, goto_first_child_for_byte:
\* the tree stays the same.
CursorWalk(h) ==
  /\ Is("cursor", h)
  /\ IF ~CanWrite(h) THEN Refused
     ELSE IF CanRead(obj[h].tree) THEN Plain("ok") ELSE Panics

\* reset_cursor: the cursor points where the node does, and keeps the tree it
\* kept.
ResetCursor(h, g) ==
  /\ Is("cursor", h) /\ Is("node", g)
  /\ ResetElsewhere \/ obj[g].in = obj[h].in
  /\ IF ~CanWrite(h) \/ ~CanRead(g) THEN Refused
     ELSE IF ~CanRead(obj[h].tree) \/ ~CanRead(obj[g].tree) THEN Panics
     ELSE /\ obj' = [obj EXCEPT ![h].in = obj[g].in]
          /\ Result("ok")
          /\ UNCHANGED <<loaded, parser, query, tree, cell, stack>>

\* _iter_close
IterClose(h) ==
  /\ Is("iter", h)
  /\ IF CanWrite(h) THEN Plain("ok") ELSE Refused

\* _iter_next, and _iter_next_node or _iter_current_node of properties or at the
\* end.
IterStep(h) ==
  /\ Is("iter", h)
  /\ IF ~CanWrite(h) THEN Refused
     ELSE IF CanRead(obj[h].tree) THEN Plain("ok") ELSE Panics

\* _iter_next_node and _iter_current_node without properties.
IterNode(h) ==
  /\ Is("iter", h)
  /\ IF ~CanWrite(h) THEN Refused
     ELSE IF CanRead(obj[h].tree) THEN Make("node", h) ELSE Panics

\* _traverse_mapc has an iterator of its own, which keeps the tree and holds
\* no RefCell while the function is called.
TraverseMapc(h) ==
  /\ TreeOrNode(h)
  /\ IF Walkable(h) THEN Begin(Frame("traverse", h)) ELSE Panics

\* The function of _traverse_mapc has returned: on to the next node.
VisitReturns ==
  /\ Running({"traverse"})
  /\ IF ~CanRead(Top.tree) THEN EndPlain("panic")
     ELSE \/ Top.at + 1 < MaxVisits /\ Continue([Top EXCEPT !.at = @ + 1])
          \/ EndPlain("ok")

\* It has signalled or thrown.
VisitFails == Running({"traverse"}) /\ EndPlain("failed")
=============================================================================
