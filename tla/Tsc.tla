-------------------------------- MODULE Tsc --------------------------------
(***************************************************************************)
(* The Rust module of tsc as Lisp sees it: every function may be called at *)
(* any time, also by the Lisp code that a suspended function called back.  *)
(***************************************************************************)
EXTENDS TscCursor, TscParser, TscQuery

\* Positions from Lisp, 0 included, for the functions that take them.
Vectors == {<<<<1, 2>>, <<2, 3>>>>, <<<<1, 3>>, <<2, 3>>>>, <<<<0, 1>>>>}

Init ==
  /\ loaded = {}
  /\ parser = None
  /\ query = None
  /\ tree = [t \in Tree |-> None]
  /\ obj = [h \in Handle |-> None]
  /\ cell = [c \in Cell |-> 0]
  /\ stack = <<>>
  /\ outcome = "ok"
  /\ answer = None

LanguageCall == \E l \in Language : LoadLanguage(l) \/ LangInfo(l)

TreeCall ==
  \/ \E h \in Handle : TreeRead(h) \/ RootNode(h) \/ EditTree(h) \/ CloneTree(h)
  \/ \E h, g \in Handle : ChangedRanges(h, g)

NodeCall ==
  \/ \E h \in Handle, id \in 0 .. KindCount - 1 \cup {ErrorKind} : NodeProperty(h, id)
  \/ \E h, g \in Handle : NodeEq(h, g)
  \/ \E h \in Handle : NodeNavigation(h) \/ EditNode(h) \/ MapcChildren(h)
  \/ ChildReturns \/ ChildFails

CursorCall ==
  \/ \E h \in Handle : MakeCursor("cursor", h) \/ MakeCursor("iter", h)
  \/ \E h \in Handle, id \in 0 .. KindCount - 1 \cup {ErrorKind} : CursorProperty(h, id)
  \/ \E h \in Handle : CurrentNode(h) \/ CursorWalk(h)
  \/ \E h \in Handle : IterClose(h) \/ IterStep(h) \/ IterNode(h)
  \/ \E h, g \in Handle : ResetCursor(h, g)
  \/ \E h \in Handle : TraverseMapc(h)
  \/ VisitReturns \/ VisitFails

ParserCall ==
  \/ \E l \in Language : SetLanguage(l)
  \/ ParserLanguage \/ ResetParser \/ ParseString
  \/ \E vectors \in Vectors : SetIncludedRanges(vectors)
  \/ \E h \in Handle \cup {None} : ParseChunks(h)
  \/ InputReturns \/ InputFails

QueryCall ==
  \/ \E l \in Language : MakeQuery(l)
  \/ TagReturns(None) \/ (Running({"make_query"}) /\ TagReturns(Top.at + 1)) \/ TagFails
  \/ QueryRead \/ SetRange
  \/ \E c \in Capture : DisableCapture(c)
  \/ \E fn \in Queries, h \in Handle, truth \in SUBSET Candidate : RunQuery(fn, h, truth)
  \/ TextReturns \/ TextFails

Next ==
  \/ LanguageCall \/ TreeCall \/ NodeCall \/ CursorCall \/ ParserCall \/ QueryCall
  \/ \E h \in Handle : Collect(h)

Spec == Init /\ [][Next]_vars

-----------------------------------------------------------------------------

FrameType ==
  [fn : {"parse", "mapc", "traverse", "make_query"} \cup Queries,
   arg : Handle \cup {None}, tree : Tree \cup {None}, in : Tree \cup {None},
   seen : Nat, at : Nat, kept : Seq({None} \cup Nat),
   items : Seq([match : Candidate, tag : {None} \cup Capture]), failed : Nat, truth : SUBSET Nat]

\* Every variable holds a value of its type.  Whatever refers to a language
\* refers to one that is registered, whatever refers to a tree to one that
\* exists, and a query has a tag for each capture.
TypeOK ==
  /\ loaded \subseteq {l \in Language : MinAbi <= Abi[l] /\ Abi[l] <= MaxAbi}
  /\ parser \in loaded \cup {None}
  /\ query \in Query \cup {None}
  /\ query # None =>
       \A c \in Capture : query.tags[c] = c \/ (query.tags[c] = None /\ c \in query.disabled)
  /\ tree \in [Tree -> [lang : loaded, edits : 0 .. MaxEdits, text : Seq(Nat)] \cup {None}]
  /\ obj \in [Handle -> Object \cup {None}]
  /\ \A h \in Handle : obj[h] # None => tree[obj[h].tree] # None
  /\ cell \in [Cell -> Int]
  /\ stack \in Seq(FrameType)
  /\ outcome \in {"ok", "refused", "panic", "unset", "failed"}

\* The suspended functions that hold a RefCell for reading, or for writing.
Readers(c) == {i \in DOMAIN stack : c \in Reads(stack[i])}
Writers(c) == {i \in DOMAIN stack : c \in Writes(stack[i])}

\* The flag of each RefCell tells exactly which suspended functions hold it,
\* so that none is left locked by a function that ended, by an error or not.
FlagsTell ==
  \A c \in Cell :
    \/ Writers(c) = {} /\ cell[c] = Cardinality(Readers(c))
    \/ Cardinality(Writers(c)) = 1 /\ Readers(c) = {} /\ cell[c] = -1

\* "by keeping a ref-counted reference to the underlying tree": each object
\* keeps the tree it points into.
KeepsItsTree == \A h \in Handle : obj[h] # None => obj[h].tree = obj[h].in

\* The old tree of a parse and the tree of a node whose children are gone
\* through are not edited before the function has ended.
HeldTreesUnedited ==
  \A i \in DOMAIN stack :
    stack[i].fn \in {"parse", "mapc"} /\ stack[i].in # None =>
      /\ tree[stack[i].in] # None
      /\ tree[stack[i].in].edits = stack[i].seen

\* A tree that a parse returned was parsed from the whole text, each character
\* once and in order, although the text came in chunks of bytes and the input
\* function may have failed.
TreesAreWhole == \A t \in Tree : tree[t] # None => tree[t].text = WholeText

\* What a query returned is what it found with the true texts: every item is a
\* match, none is missing that came before the first failure of the text
\* function, each has the tag of its capture and none of a disabled one, and
\* they come in the order found or in that of their patterns.
AnswersAreTrue ==
  answer # None =>
    LET found == {answer.items[i].match : i \in DOMAIN answer.items}
    IN /\ found = {k \in answer.truth : /\ Yields(answer.fn, k)
                                        /\ answer.failed = 0 \/ k < answer.failed}
       /\ Len(answer.items) = Cardinality(found)
       /\ \A i \in DOMAIN answer.items :
            LET c == CaptureOf[answer.items[i].match]
            IN answer.items[i].tag = IF c \in query.disabled THEN None ELSE c
       /\ \A i, j \in DOMAIN answer.items :
            LET k == answer.items[i].match  m == answer.items[j].match
            IN i < j => IF answer.fn = "captures_1" THEN PatternOf[k] <= PatternOf[m]
                        ELSE k < m

\* Only a suspended function can keep another from running: a call is refused
\* only inside a callback, and a borrow panics only while a suspended function
\* reads the tree of an object that Lisp holds, so that outside of callbacks
\* nothing panics but a parse without a language.
RefusalsExplained ==
  [][/\ outcome' = "refused" => stack # <<>>
     /\ outcome' = "panic" =>
          \E h \in Handle : obj[h] # None /\ Readers(obj[h].tree) # {}
     /\ outcome' = "unset" => parser = None]_vars
=============================================================================
