----------------------------- MODULE TscObjects -----------------------------
(***************************************************************************)
(* What the functions of the Rust module of tsc share: the objects that    *)
(* Lisp holds, the trees they refer to, and the flags of the RefCells that *)
(* a function sets for as long as it reads or writes an object.            *)
(*                                                                         *)
(* Emacs calls one function of the module at a time, but a function that   *)
(* calls Lisp back (an input, text or child function, a tag assigner) is   *)
(* suspended meanwhile, and Lisp may call any function, on any object.     *)
(* stack holds the suspended functions, the innermost last; Lisp runs in   *)
(* every state.                                                            *)
(*                                                                         *)
(* Handle names the objects of Lisp that refer to a tree: Shared<Tree>     *)
(* objects, nodes, cursors and iterators.  Each keeps its tree by a        *)
(* reference count (field tree) and points into a tree (field in).         *)
(***************************************************************************)
EXTENDS TscTypes, FiniteSets

CONSTANTS
  Handle,     \* the objects that may exist at a time
  Tree,       \* the trees that may exist at a time
  Language,   \* the languages that may be loaded
  None,       \* no object, tree, language or result
  MaxDepth,   \* bound on the functions that are suspended at a time
  MaxEdits    \* bound on the edits of a tree

\* The names of objects, trees and languages are distinct.
ASSUME NamesAssumption ==
  /\ None \notin Handle \cup Tree \cup Language
  /\ Handle \cap Tree = {}
  /\ \A c \in Handle \cup Tree : c \notin {"parser", "query", "queryCursor"}
  /\ None \notin {"parser", "query", "queryCursor"}

ASSUME BoundsAssumption == MaxDepth \in Nat /\ MaxEdits \in Nat

VARIABLES
  loaded,  \* the languages in the registry LANG_INFOS
  parser,  \* the language of the parser
  query,   \* the query: its tags, and its disabled captures
  tree,    \* each tree: its language, its edits, the text it was parsed from
  obj,     \* each object
  cell,    \* the flag of each RefCell: -1 written, n read n times
  stack,   \* the suspended functions
  outcome, \* how the last call ended
  answer   \* what the last call of a query returned

state == <<loaded, parser, query, tree, obj, cell, stack>>
vars == <<loaded, parser, query, tree, obj, cell, stack, outcome, answer>>

Cell == Handle \cup Tree \cup {"parser", "query", "queryCursor"}
Kind == {"tree", "node", "cursor", "iter"}
Object == [kind : Kind, tree : Tree, in : Tree]
Parsed == [lang : Language, edits : 0 .. MaxEdits, text : Seq(Nat)]

ASSUME NoneAssumption == None \notin Object /\ None \notin Parsed

Is(kind, h) == obj[h] # None /\ obj[h].kind = kind

-----------------------------------------------------------------------------
(* Results.  A RefCell that is in use makes a function signal an error     *)
(* ("refused") where its arguments are converted, and panic where the code *)
(* itself borrows; emacs-module-rs signals the panic.                      *)

Result(o) == outcome' = o /\ answer' = None

\* A call that changes nothing.
Plain(o) == Result(o) /\ UNCHANGED state
Refused == Plain("refused")
Panics == Plain("panic")

CanRead(c) == cell[c] >= 0
CanWrite(c) == cell[c] = 0

-----------------------------------------------------------------------------
(* Objects and trees. *)

FreeHandles == {h \in Handle : obj[h] = None}
FreeTrees == {t \in Tree : tree[t] = None}

\* A wrapper around a place in the tree that object h points into: it keeps
\* the tree that h keeps (RNode::new, RCursor::new with clone_tree).
Wrapper(kind, h) == [kind |-> kind, tree |-> obj[h].tree, in |-> obj[h].in]

\* Lisp gets a new object.
Make(kind, h) ==
  /\ \E new \in FreeHandles : obj' = [obj EXCEPT ![new] = Wrapper(kind, h)]
  /\ Result("ok")
  /\ UNCHANGED <<loaded, parser, query, tree, cell, stack>>

\* Lisp gets a new tree.
MakeTree(lang, text) ==
  \E t \in FreeTrees, new \in FreeHandles :
    /\ tree' = [tree EXCEPT ![t] = [lang |-> lang, edits |-> 0, text |-> text]]
    /\ obj' = [obj EXCEPT ![new] = [kind |-> "tree", tree |-> t, in |-> t]]

\* The garbage collector finalizes an object that Lisp let go of and that is
\* no argument of a suspended function; a tree goes with the last object that
\* keeps it.
Collect(h) ==
  /\ obj[h] # None
  /\ \A i \in DOMAIN stack : stack[i].arg # h
  /\ obj' = [obj EXCEPT ![h] = None]
  /\ tree' = [t \in Tree |->
                IF \E g \in Handle : obj'[g] # None /\ obj'[g].tree = t
                THEN tree[t] ELSE None]
  /\ Result("ok")
  /\ UNCHANGED <<loaded, parser, query, cell, stack>>

-----------------------------------------------------------------------------
(* Suspended functions. *)

Queries == {"matches", "captures", "captures_1"}

\* The call of function fn on object h: at counts what it has gone through,
\* kept and items are what it has gathered, failed the first callback that failed (0 for
\* none), seen the edits of the tree when the call began.
Frame(fn, h) ==
  [fn |-> fn, arg |-> h,
   tree |-> IF h = None THEN None ELSE obj[h].tree,
   in |-> IF h = None THEN None ELSE obj[h].in,
   seen |-> IF h = None THEN 0 ELSE tree[obj[h].in].edits,
   at |-> 0, kept |-> <<>>, items |-> <<>>, failed |-> 0, truth |-> {}]

\* Mutant: the children of a node are gone through as the matches of a query
\* are, with the node copied and its tree let go of.
ReadsNoTree(f) ==
  CASE f.fn = "parse" -> {f.tree} \ {None}
    [] f.fn = "mapc" -> {f.arg}
    [] f.fn \in Queries -> {"query", f.arg}
    [] OTHER -> {}

\* What a suspended function reads: the old tree of a parse, the node whose
\* children are gone through with its tree, the query and the node it runs on.
\* A traversal and a query keep their tree and do not hold its RefCell.
Reads(f) ==
  CASE f.fn = "parse" -> {f.tree} \ {None}
    [] f.fn = "mapc" -> {f.arg, f.tree}
    [] f.fn \in Queries -> {"query", f.arg}
    [] OTHER -> {}

\* What it writes.
Writes(f) ==
  CASE f.fn = "parse" -> {"parser"}
    [] f.fn \in Queries -> {"queryCursor"}
    [] OTHER -> {}

Taken(f) ==
  [c \in Cell |-> IF c \in Writes(f) THEN -1
                  ELSE IF c \in Reads(f) THEN cell[c] + 1 ELSE cell[c]]

\* Mutant: what is written stays locked.
LetGoOfReads(f) ==
  [c \in Cell |-> IF c \in Reads(f) THEN cell[c] - 1 ELSE cell[c]]

\* However a function ends, its borrows end with it.
LetGo(f) ==
  [c \in Cell |-> IF c \in Writes(f) THEN 0
                  ELSE IF c \in Reads(f) THEN cell[c] - 1 ELSE cell[c]]

Top == stack[Len(stack)]
Below == SubSeq(stack, 1, Len(stack) - 1)
Running(fns) == stack # <<>> /\ Top.fn \in fns

\* A function takes what it borrows and calls back for the first time.
Begin(f) ==
  /\ Len(stack) < MaxDepth
  /\ stack' = Append(stack, f)
  /\ cell' = Taken(f)
  /\ Result("ok")
  /\ UNCHANGED <<loaded, parser, query, tree, obj>>

\* It calls back again, having come to f.
Continue(f) ==
  /\ stack' = Append(Below, f)
  /\ Result("ok")
  /\ UNCHANGED <<loaded, parser, query, tree, obj, cell>>

\* It ends.
End == stack' = Below /\ cell' = LetGo(Top)

\* It ends and makes nothing.
EndPlain(o) ==
  /\ End
  /\ Result(o)
  /\ UNCHANGED <<loaded, parser, query, tree, obj>>
=============================================================================
