----------------------------- MODULE Tsc_proofs -----------------------------
(***************************************************************************)
(* Theorems about Tsc, for any number of objects, trees, languages and     *)
(* suspended functions: the flags of the RefCells, the trees that          *)
(* suspended functions hold, the calls that are refused, the answers of    *)
(* queries, and what callbacks leave alone.                                *)
(***************************************************************************)
EXTENDS Tsc, FiniteSetTheorems, SequenceTheorems, TLAPS

-----------------------------------------------------------------------------
(* Sequences. *)

\* The innermost element of a stack, and the ones below it.
LEMMA Innermost ==
  ASSUME NEW S, NEW fs \in Seq(S), fs # <<>>
  PROVE  /\ Len(fs) \in Nat \ {0}
         /\ fs[Len(fs)] \in S
         /\ SubSeq(fs, 1, Len(fs) - 1) \in Seq(S)
         /\ Len(SubSeq(fs, 1, Len(fs) - 1)) = Len(fs) - 1
         /\ \A i \in 1 .. Len(fs) - 1 : SubSeq(fs, 1, Len(fs) - 1)[i] = fs[i]
<1>1. Len(fs) \in Nat \ {0}
  BY EmptySeq
<1>2. fs[Len(fs)] \in S
  BY <1>1, ElementOfSeq
<1> DEFINE n == Len(fs) - 1
<1>3. n \in Nat /\ \A i \in 1 .. n : fs[i] \in S
  BY <1>1, ElementOfSeq
<1> HIDE DEF n
<1>4. /\ SubSeq(fs, 1, n) \in Seq(S)
      /\ Len(SubSeq(fs, 1, n)) = IF 1 <= n THEN n - 1 + 1 ELSE 0
      /\ \A i \in 1 .. n - 1 + 1 : SubSeq(fs, 1, n)[i] = fs[1 + i - 1]
  BY <1>3, SubSeqProperties
<1>5. Len(SubSeq(fs, 1, n)) = n /\ \A i \in 1 .. n : SubSeq(fs, 1, n)[i] = fs[i]
  BY <1>3, <1>4
<1> QED BY <1>1, <1>2, <1>4, <1>5 DEF n

\* Another element put on the ones below the innermost.
LEMMA Replaced ==
  ASSUME NEW S, NEW fs \in Seq(S), fs # <<>>, NEW f \in S
  PROVE  LET gs == Append(SubSeq(fs, 1, Len(fs) - 1), f)
         IN /\ gs \in Seq(S)
            /\ Len(gs) = Len(fs)
            /\ \A i \in 1 .. Len(fs) - 1 : gs[i] = fs[i]
            /\ gs[Len(fs)] = f
<1> DEFINE n == Len(fs) - 1
           below == SubSeq(fs, 1, n)
<1>1. /\ n \in Nat /\ Len(fs) = n + 1
      /\ below \in Seq(S) /\ Len(below) = n
      /\ \A i \in 1 .. n : below[i] = fs[i]
  BY Innermost
<1> HIDE DEF n, below
<1>2. /\ Append(below, f) \in Seq(S)
      /\ Len(Append(below, f)) = n + 1
      /\ \A i \in 1 .. n : Append(below, f)[i] = below[i]
      /\ Append(below, f)[n + 1] = f
  BY <1>1, AppendProperties
<1> QED BY <1>1, <1>2 DEF n, below

-----------------------------------------------------------------------------
(* How a step moves the stack and the flags. *)

\* What every frame tells of its arguments.
FramesHold ==
  \A i \in DOMAIN stack :
    LET f == stack[i]
    IN /\ f.fn \in {"mapc", "traverse"} \cup Queries => f.arg # None
       /\ f.arg = None => f.tree = None /\ f.in = None
       /\ f.arg # None => /\ obj[f.arg] # None
                          /\ obj[f.arg].tree = f.tree
                          /\ f.in = f.tree

Unmoved == cell' = cell /\ stack' = stack

\* What _make_query has gathered: a tag of each capture gone through, nil for
\* those that are then disabled.
TagsOf(f) ==
  f.fn = "make_query" =>
    /\ f.at \in Nat /\ f.at < Captures
    /\ Len(f.kept) = f.at
    /\ f.truth \subseteq 1 .. f.at
    /\ \A c \in 1 .. f.at : f.kept[c] = c \/ (f.kept[c] = None /\ c \in f.truth)

Suspends(f) ==
  /\ f \in FrameType
  /\ TagsOf(f)
  /\ stack' = Append(stack, f)
  /\ cell' = Taken(f)
  /\ \A c \in Writes(f) : CanWrite(c)
  /\ \A c \in Reads(f) : CanRead(c)
  /\ f.arg # None => obj[f.arg] # None /\ f.tree = obj[f.arg].tree /\ f.in = obj[f.arg].in
                     /\ f.seen = tree[obj[f.arg].in].edits
  /\ f.arg = None => f.tree = None /\ f.in = None /\ f.fn \in {"parse", "make_query"}
  /\ f.kept = <<>>
  /\ f.fn = "parse" => f.at = 0 /\ parser # None
  /\ f.fn \in Queries => query # None /\ f.at \in Candidate
  /\ UNCHANGED <<tree, obj, query>>

\* A parse asks again, or has come to the next chunk.
GoesOn(f) ==
  \/ f.at = Top.at /\ f.kept = Top.kept
  \/ /\ Chunk(Top) # <<>>
     /\ f.at = Top.at + ByteLength(Chunk(Top))
     /\ f.kept = Top.kept \o Chunk(Top)

Resumes(f) ==
  /\ stack # <<>>
  /\ f \in FrameType
  /\ f.fn = Top.fn /\ f.arg = Top.arg /\ f.tree = Top.tree /\ f.in = Top.in
  /\ f.seen = Top.seen
  /\ f.fn = "parse" => GoesOn(f)
  /\ TagsOf(Top) => TagsOf(f)
  /\ f.fn \in Queries => query # None /\ f.at \in Candidate
  /\ stack' = Append(Below, f)
  /\ cell' = cell
  /\ UNCHANGED <<tree, obj, query>>

Ends == stack # <<>> /\ End

Moves == Unmoved \/ (\E f : Suspends(f)) \/ (\E f : Resumes(f)) \/ Ends
-----------------------------------------------------------------------------
(* Frames. *)

Fns == {"parse", "mapc", "traverse", "make_query"} \cup Queries

\* What the types say of an object that exists.
LEMMA ObjectFacts ==
  ASSUME TypeOK, NEW h \in Handle, obj[h] # None
  PROVE  /\ obj[h] \in Object
         /\ obj[h].tree \in Tree /\ obj[h].in \in Tree
         /\ obj[h].kind \in Kind
         /\ tree[obj[h].tree] # None
         /\ tree[obj[h].tree] \in [lang : loaded, edits : 0 .. MaxEdits, text : Seq(Nat)]
  BY DEF TypeOK, Object

\* The frame of a call on an object.
LEMMA FrameFacts ==
  ASSUME TypeOK, KeepsItsTree, NEW h \in Handle, obj[h] # None, NEW fn \in Fns
  PROVE  /\ Frame(fn, h) \in FrameType
         /\ Frame(fn, h).fn = fn /\ Frame(fn, h).arg = h
         /\ Frame(fn, h).tree = obj[h].tree /\ Frame(fn, h).in = obj[h].in
         /\ Frame(fn, h).seen = tree[obj[h].in].edits
         /\ Frame(fn, h).kept = <<>> /\ Frame(fn, h).at = 0
<1>1. h # None
  BY NamesAssumption
<1>2. tree[obj[h].in].edits \in Nat
  BY ObjectFacts, BoundsAssumption DEF KeepsItsTree
<1>3. <<>> \in Seq({None} \cup Nat) /\ <<>> \in Seq([match : Candidate, tag : {None} \cup Capture])
  OBVIOUS
<1> QED BY <1>1, <1>2, <1>3, ObjectFacts DEF Frame, FrameType, Fns

\* The frame of a call without one.
LEMMA BareFrameFacts ==
  ASSUME NEW fn \in {"parse", "make_query"}
  PROVE  /\ Frame(fn, None) \in FrameType
         /\ Frame(fn, None).fn = fn /\ Frame(fn, None).arg = None
         /\ Frame(fn, None).tree = None /\ Frame(fn, None).in = None
         /\ Frame(fn, None).kept = <<>> /\ Frame(fn, None).at = 0
<1>1. <<>> \in Seq({None} \cup Nat) /\ <<>> \in Seq([match : Candidate, tag : {None} \cup Capture])
  OBVIOUS
<1> QED BY <1>1 DEF Frame, FrameType

\* Which flags a frame concerns.
LEMMA ReadsAndWrites ==
  ASSUME NEW f
  PROVE  /\ f.fn = "parse" => Reads(f) = {f.tree} \ {None} /\ Writes(f) = {"parser"}
         /\ f.fn = "mapc" => Reads(f) = {f.arg, f.tree} /\ Writes(f) = {}
         /\ f.fn \in Queries => Reads(f) = {"query", f.arg} /\ Writes(f) = {"queryCursor"}
         /\ f.fn \in {"traverse", "make_query"} => Reads(f) = {} /\ Writes(f) = {}
  BY DEF Reads, Writes, Queries

\* The innermost suspended function is a frame of the stack.
LEMMA TopFacts ==
  ASSUME TypeOK, stack # <<>>
  PROVE  /\ Top \in FrameType
         /\ Len(stack) \in DOMAIN stack /\ Top = stack[Len(stack)]
<1>1. stack \in Seq(FrameType)
  BY DEF TypeOK
<1> QED BY <1>1, Innermost DEF Top

-----------------------------------------------------------------------------
(* Every call moves the stack in one of the five ways. *)

\* mapc_children suspends itself at its first child, or leaves the stack.
LEMMA MapcMoves ==
  ASSUME TypeOK, KeepsItsTree, NEW h \in Handle, MapcChildren(h)
  PROVE  Moves
<1>1. obj[h] # None
  BY DEF MapcChildren, Is
<1>2. CASE CanRead(h) /\ CanRead(obj[h].tree) /\ Begin(Frame("mapc", h))
  <2>1. Suspends(Frame("mapc", h))
    BY <1>1, <1>2, FrameFacts, ReadsAndWrites, NamesAssumption DEF Suspends, TagsOf, Begin, Fns, Queries
  <2> QED BY <2>1 DEF Moves
<1>3. CASE Plain("ok") \/ Refused \/ Panics
  BY <1>3 DEF Moves, Unmoved, Plain, Refused, Panics, state
<1> QED BY <1>2, <1>3 DEF MapcChildren

\* _traverse_mapc suspends itself at the node it starts from.
LEMMA TraverseMoves ==
  ASSUME TypeOK, KeepsItsTree, NEW h \in Handle, TraverseMapc(h)
  PROVE  Moves
<1>1. obj[h] # None
  BY DEF TraverseMapc, TreeOrNode, Is
<1>2. CASE Begin(Frame("traverse", h))
  <2>1. Suspends(Frame("traverse", h))
    BY <1>1, <1>2, FrameFacts, ReadsAndWrites, NamesAssumption DEF Suspends, TagsOf, Begin, Fns, Queries
  <2> QED BY <2>1 DEF Moves
<1>3. CASE Panics
  BY <1>3 DEF Moves, Unmoved, Plain, Panics, state
<1> QED BY <1>2, <1>3 DEF TraverseMapc

\* parse_chunks suspends itself with nothing gathered.
LEMMA ParseMoves ==
  ASSUME TypeOK, KeepsItsTree, NEW h \in Handle \cup {None}, ParseChunks(h)
  PROVE  Moves
<1>1. CASE /\ CanWrite("parser") /\ parser # None
           /\ h # None => CanRead(obj[h].tree)
           /\ Begin(Frame("parse", h))
  <2>1. CASE h = None
    <3>1. Suspends(Frame("parse", h))
      BY <1>1, <2>1, BareFrameFacts, ReadsAndWrites DEF Suspends, TagsOf, Begin, Queries
    <3> QED BY <3>1 DEF Moves
  <2>2. CASE h \in Handle
    <3>1. h # None /\ obj[h] # None
      BY <2>2, NamesAssumption DEF ParseChunks, Is
    <3>2. Suspends(Frame("parse", h))
      BY <1>1, <2>2, <3>1, FrameFacts, ReadsAndWrites DEF Suspends, TagsOf, Begin, Fns, Queries
    <3> QED BY <3>2 DEF Moves
  <2> QED BY <2>1, <2>2
<1>2. CASE Refused \/ NoLanguage
  BY <1>2 DEF Moves, Unmoved, Plain, Refused, NoLanguage, state
<1> QED BY <1>1, <1>2 DEF ParseChunks

\* The queries suspend themselves at their first candidate.
LEMMA QueryMoves ==
  ASSUME TypeOK, KeepsItsTree, NEW fn \in Queries, NEW h \in Handle, NEW truth \in SUBSET Candidate,
         RunQuery(fn, h, truth)
  PROVE  Moves
<1>1. obj[h] # None
  BY DEF RunQuery, Is
<1> DEFINE f == [Frame(fn, h) EXCEPT !.truth = truth]
<1>2. CASE /\ CanWrite("queryCursor") /\ CanRead("query") /\ CanRead(h)
           /\ \E j \in NextOf(fn, 0) : Begin([f EXCEPT !.at = j])
  <2>1. PICK j \in NextOf(fn, 0) : Begin([f EXCEPT !.at = j])
    BY <1>2
  <2> DEFINE g == [f EXCEPT !.at = j]
  <2>2. j \in Candidate /\ j \in Nat /\ truth \subseteq Nat
    BY QueryAssumption DEF NextOf, After, Candidate
  <2>3. Frame(fn, h) \in FrameType
    BY <1>1, FrameFacts DEF Fns
  <2>4. /\ g \in FrameType
        /\ g.fn = fn /\ g.arg = h /\ g.tree = obj[h].tree /\ g.in = obj[h].in
        /\ g.seen = tree[obj[h].in].edits /\ g.kept = <<>> /\ g.at = j
    BY <1>1, <2>2, <2>3, FrameFacts DEF FrameType, Fns
  <2> HIDE DEF g
  <2>5. Begin(g)
    BY <2>1 DEF g
  <2>6. Suspends(g)
    BY <1>1, <1>2, <2>2, <2>4, <2>5, ReadsAndWrites, NamesAssumption
       DEF Suspends, TagsOf, Begin, RunQuery, Queries
  <2> QED BY <2>6 DEF Moves
<1>3. CASE Refused \/ Panics \/ UNCHANGED state
  BY <1>3 DEF Moves, Unmoved, Plain, Refused, Panics, state
<1> QED BY <1>2, <1>3 DEF RunQuery

\* _make_query suspends itself with no tag gathered.
LEMMA MakeQueryMoves ==
  ASSUME NEW l \in Language, MakeQuery(l)
  PROVE  Moves
<1>1. CASE Begin(Frame("make_query", None))
  <2> DEFINE f == Frame("make_query", None)
  <2>1. f.at = 0 /\ f.kept = <<>> /\ f.truth = {}
    BY DEF Frame
  <2>2. TagsOf(f)
    BY <2>1, QueryAssumption DEF TagsOf
  <2>3. Suspends(Frame("make_query", None))
    BY <1>1, <2>2, BareFrameFacts, ReadsAndWrites DEF Suspends, Begin, Queries
  <2> QED BY <2>3 DEF Moves
<1>2. CASE Plain("failed")
  BY <1>2 DEF Moves, Unmoved, Plain, state
<1> QED BY <1>1, <1>2 DEF MakeQuery

\* What a call goes through changes the frame, and not its arguments.
LEMMA FrameAt ==
  ASSUME NEW f \in FrameType, NEW at \in Nat
  PROVE  LET g == [f EXCEPT !.at = at]
         IN /\ g \in FrameType
            /\ g.fn = f.fn /\ g.arg = f.arg /\ g.tree = f.tree /\ g.in = f.in /\ g.seen = f.seen
            /\ g.at = at
  BY DEF FrameType

\* A capture more has its tag.
LEMMA FrameTagged ==
  ASSUME NEW f \in FrameType, NEW tag \in {None, f.at + 1}
  PROVE  LET g == [f EXCEPT !.at = @ + 1, !.kept = Tagged(f, tag),
                            !.truth = IF tag = None THEN @ \cup {f.at + 1} ELSE @]
         IN /\ g \in FrameType
            /\ g.fn = f.fn /\ g.arg = f.arg /\ g.tree = f.tree /\ g.in = f.in /\ g.seen = f.seen
            /\ TagsOf(f) => TagsOf(g) \/ g.at >= Captures
            /\ TagsOf(f) /\ f.fn = "make_query" /\ g.at >= Captures =>
                 [tags |-> g.kept, disabled |-> g.truth] \in
                   {q \in Query : \A c \in Capture :
                      q.tags[c] = c \/ (q.tags[c] = None /\ c \in q.disabled)}
<1> DEFINE kept == Tagged(f, tag)
           disabled == IF tag = None THEN f.truth \cup {f.at + 1} ELSE f.truth
           at == f.at + 1
           g == [f EXCEPT !.at = at, !.kept = kept, !.truth = disabled]
<1>1. f.at \in Nat /\ f.kept \in Seq({None} \cup Nat) /\ tag \in {None} \cup Nat
  BY DEF FrameType
<1>2. /\ kept \in Seq({None} \cup Nat)
      /\ Len(kept) = Len(f.kept) + 1
      /\ \A c \in 1 .. Len(f.kept) : kept[c] = f.kept[c]
      /\ kept[Len(f.kept) + 1] = tag
  BY <1>1, AppendProperties DEF Tagged
<1>3. disabled \in SUBSET Nat /\ f.truth \subseteq disabled
  BY <1>1 DEF FrameType
<1>4. at \in Nat
  BY <1>1
<1>5. ASSUME TagsOf(f), f.fn = "make_query"
      PROVE  /\ Len(kept) = at /\ disabled \subseteq 1 .. at
             /\ \A c \in 1 .. at : kept[c] = c \/ (kept[c] = None /\ c \in disabled)
             /\ f.at < Captures
  <2>1. /\ Len(f.kept) = f.at /\ f.truth \subseteq 1 .. f.at /\ f.at < Captures
        /\ \A c \in 1 .. f.at : f.kept[c] = c \/ (f.kept[c] = None /\ c \in f.truth)
    BY <1>5 DEF TagsOf
  <2>2. tag = at \/ (tag = None /\ at \in disabled)
    OBVIOUS
  <2>3. \A c \in 1 .. at : c \in 1 .. f.at \/ c = at
    BY <1>1
  <2>4. disabled \subseteq 1 .. at
    BY <1>1, <2>1
  <2>5. Len(kept) = at
    BY <1>2, <2>1
  <2>6. \A c \in 1 .. at : kept[c] = c \/ (kept[c] = None /\ c \in disabled)
    <3> TAKE c \in 1 .. at
    <3>1. CASE c \in 1 .. f.at
      BY <1>2, <1>3, <2>1, <3>1
    <3>2. CASE c = at
      <4>1. kept[c] = tag
        BY <1>2, <2>1, <3>2
      <4> QED BY <2>2, <3>2, <4>1
    <3> QED BY <2>3, <3>1, <3>2
  <2> QED BY <2>1, <2>4, <2>5, <2>6
<1> HIDE DEF kept, disabled, at
<1>6. /\ g \in FrameType
      /\ g.fn = f.fn /\ g.arg = f.arg /\ g.tree = f.tree /\ g.in = f.in /\ g.seen = f.seen
      /\ g.at = at /\ g.kept = kept /\ g.truth = disabled
  BY <1>2, <1>3, <1>4 DEF FrameType
<1>7. TagsOf(f) => TagsOf(g) \/ g.at >= Captures
  BY <1>4, <1>5, <1>6, QueryAssumption DEF TagsOf
<1>8. ASSUME TagsOf(f), f.fn = "make_query", g.at >= Captures
      PROVE  [tags |-> g.kept, disabled |-> g.truth] \in
               {q \in Query : \A c \in Capture :
                  q.tags[c] = c \/ (q.tags[c] = None /\ c \in q.disabled)}
  <2> DEFINE q == [tags |-> kept, disabled |-> disabled]
  <2>1. at = Captures
    BY <1>1, <1>4, <1>5, <1>6, <1>8, QueryAssumption DEF at
  <2>2. kept \in [Capture -> Capture \cup {None}]
    BY <1>2, <1>5, <1>8, <2>1 DEF Capture
  <2>3. q \in Query
    BY <1>5, <1>8, <2>1, <2>2 DEF Query, Capture
  <2>4. \A c \in Capture : q.tags[c] = c \/ (q.tags[c] = None /\ c \in q.disabled)
    BY <1>5, <1>8, <2>1 DEF Capture
  <2> QED BY <1>6, <2>3, <2>4
<1> QED BY <1>6, <1>7, <1>8 DEF kept, disabled, at

\* A function that ends.
LEMMA EndMoves ==
  ASSUME TypeOK, NEW fns, Running(fns), End
  PROVE  Moves
  BY DEF Moves, Ends, Running

\* A function that goes on with another frame of the same call.
LEMMA ContinueMoves ==
  ASSUME TypeOK, stack # <<>>, NEW f \in FrameType,
         f.fn = Top.fn, f.arg = Top.arg, f.tree = Top.tree, f.in = Top.in, f.seen = Top.seen,
         f.fn = "parse" => GoesOn(f),
         f.fn = "make_query" => (TagsOf(Top) => TagsOf(f)),
         f.fn \in Queries => query # None /\ f.at \in Candidate,
         Continue(f)
  PROVE  Moves
<1>1. TagsOf(Top) => TagsOf(f)
  BY DEF TagsOf
<1> QED BY <1>1 DEF Moves, Resumes, Continue

\* A function called for each child or node returns or fails.
LEMMA ChildMoves ==
  ASSUME TypeOK, ChildReturns \/ ChildFails \/ VisitReturns \/ VisitFails
  PROVE  Moves
<1>1. Running({"mapc"}) \/ Running({"traverse"})
  BY DEF ChildReturns, ChildFails, VisitReturns, VisitFails
<1>2. CASE End
  BY <1>1, <1>2, EndMoves
<1>3. CASE Continue([Top EXCEPT !.at = @ + 1])
  <2> DEFINE f == [Top EXCEPT !.at = @ + 1]
  <2>1. stack # <<>> /\ Top \in FrameType
    BY <1>1, TopFacts DEF Running
  <2>2. Top.at + 1 \in Nat
    BY <2>1 DEF FrameType
  <2>3. /\ f \in FrameType
        /\ f.fn = Top.fn /\ f.arg = Top.arg /\ f.tree = Top.tree /\ f.in = Top.in
        /\ f.seen = Top.seen
    BY <2>1, <2>2, FrameAt
  <2> HIDE DEF f
  <2>4. Continue(f)
    BY <1>3 DEF f
  <2>5. f.fn # "parse" /\ f.fn # "make_query" /\ f.fn \notin Queries
    BY <1>1, <2>3 DEF Running, Queries
  <2> QED BY <2>1, <2>3, <2>4, <2>5, ContinueMoves
<1> QED BY <1>2, <1>3 DEF ChildReturns, ChildFails, VisitReturns, VisitFails, EndPlain

\* The tag assigner returns or fails.
LEMMA TagMoves ==
  ASSUME TypeOK, NEW tag \in {None, Top.at + 1}, TagReturns(tag) \/ TagFails
  PROVE  Moves
<1>1. Running({"make_query"})
  BY DEF TagReturns, TagFails
<1>2. CASE End
  BY <1>1, <1>2, EndMoves
<1>3. CASE TagReturns(tag) /\ ~End
  <2> DEFINE f == [Top EXCEPT !.at = @ + 1, !.kept = Tagged(Top, tag),
                              !.truth = IF tag = None THEN @ \cup {Top.at + 1} ELSE @]
  <2>1. stack # <<>> /\ Top \in FrameType
    BY <1>1, TopFacts DEF Running
  <2>2. /\ f \in FrameType
        /\ f.fn = Top.fn /\ f.arg = Top.arg /\ f.tree = Top.tree /\ f.in = Top.in
        /\ f.seen = Top.seen
        /\ TagsOf(Top) => TagsOf(f) \/ f.at >= Captures
    BY <2>1, FrameTagged, Zenon
  <2> HIDE DEF f
  <2>3. Continue(f) /\ f.at < Captures
    BY <1>3 DEF TagReturns, f
  <2>4. f.fn # "parse" /\ f.fn \notin Queries
    BY <1>1, <2>2 DEF Running, Queries
  <2>5. f.at \in Nat /\ ~(f.at >= Captures)
    BY <2>2, <2>3, QueryAssumption DEF FrameType
  <2> QED BY <2>1, <2>2, <2>3, <2>4, <2>5, ContinueMoves
<1> QED BY <1>2, <1>3 DEF TagFails, EndPlain

\* The item of a candidate, with a query that has been made.
LEMMA ItemType ==
  ASSUME TypeOK, query # None, NEW k \in Candidate
  PROVE  Item(k) \in [match : Candidate, tag : {None} \cup Capture]
<1>1. CaptureOf[k] \in Capture
  BY QueryAssumption DEF Candidate, Capture
<1>2. query.tags[CaptureOf[k]] \in {CaptureOf[k], None}
  BY <1>1 DEF TypeOK
<1> QED BY <1>1, <1>2 DEF Item

\* The search of a query goes on to the next candidate or ends.
LEMMA SearchMoves ==
  ASSUME TypeOK, query # None, Running(Queries), NEW f \in FrameType, Search(f),
         f.fn = Top.fn, f.arg = Top.arg, f.tree = Top.tree, f.in = Top.in, f.seen = Top.seen
  PROVE  Moves
<1>1. CASE End
  BY <1>1, EndMoves
<1>2. ASSUME NEW j \in NextOf(f.fn, f.at), Continue([f EXCEPT !.at = j])
      PROVE  Moves
  <2> DEFINE g == [f EXCEPT !.at = j]
  <2>1. j \in Nat /\ j \in Candidate
    BY DEF NextOf, After, Candidate
  <2>2. /\ g \in FrameType
        /\ g.fn = Top.fn /\ g.arg = Top.arg /\ g.tree = Top.tree /\ g.in = Top.in
        /\ g.seen = Top.seen /\ g.at = j
    BY <2>1 DEF FrameType
  <2> HIDE DEF g
  <2>3. Continue(g) /\ stack # <<>> /\ Top.fn \in Queries
    BY <1>2 DEF g, Running
  <2> QED BY <2>1, <2>2, <2>3, ContinueMoves DEF Queries
<1> QED BY <1>1, <1>2 DEF Search

\* A candidate is decided, and the search goes on or ends.
LEMMA DecideMoves ==
  ASSUME TypeOK, query # None, Running(Queries), NEW f \in FrameType, NEW matches, Decide(f, matches),
         f.at \in Candidate,
         f.fn = Top.fn, f.arg = Top.arg, f.tree = Top.tree, f.in = Top.in, f.seen = Top.seen
  PROVE  Moves
<1>1. CASE Search(f)
  BY <1>1, SearchMoves
<1>2. CASE EndPlain("failed")
  BY <1>2, EndMoves DEF EndPlain
<1>3. CASE Search([f EXCEPT !.items = Append(@, Item(f.at))])
  <2> DEFINE items == Append(f.items, Item(f.at))
             g == [f EXCEPT !.items = items]
  <2>1. items \in Seq([match : Candidate, tag : {None} \cup Capture])
    BY ItemType, AppendProperties DEF FrameType
  <2>2. g = [f EXCEPT !.items = Append(@, Item(f.at))]
    OBVIOUS
  <2> HIDE DEF items
  <2>3. /\ g \in FrameType
        /\ g.fn = Top.fn /\ g.arg = Top.arg /\ g.tree = Top.tree /\ g.in = Top.in
        /\ g.seen = Top.seen
    BY <2>1 DEF FrameType
  <2> HIDE DEF g
  <2> QED BY <1>3, <2>2, <2>3, SearchMoves
<1> QED BY <1>1, <1>2, <1>3 DEF Decide

-----------------------------------------------------------------------------
(* The text, in bytes and in characters. *)

\* The characters of the buffer are numbered.
LEMMA CharsFacts ==
  /\ Chars \in Nat
  /\ \A b \in DOMAIN Text : Text[b] \in 1 .. Chars
<1>1. CASE Text = <<>>
  BY <1>1 DEF Chars
<1>2. CASE Text # <<>>
  <2>1. /\ Len(Text) \in Nat \ {0} /\ DOMAIN Text = 1 .. Len(Text)
        /\ \A b \in DOMAIN Text : Text[b] \in Nat \ {0}
    BY <1>2, TextAssumption, EmptySeq
  <2>2. Chars \in Nat \ {0} /\ Chars = Text[Len(Text)]
    BY <1>2, <2>1 DEF Chars
  <2> DEFINE all == {b \in DOMAIN Text : Text[b] < Chars + 1}
             n == ByteStart(Chars + 1)
  <2>3. all = 1 .. n
    BY <2>2, TextAssumption
  <2>4. Len(Text) \in all
    BY <2>1, <2>2
  <2> HIDE DEF n
  <2>5. n \in Int => \A b \in DOMAIN Text : b \in 1 .. n
    BY <2>1, <2>3, <2>4
  <2>6. IsFiniteSet(all) /\ n \in Int
    <3>1. IsFiniteSet(DOMAIN Text)
      BY <2>1, FS_Interval
    <3> QED BY <3>1, FS_Subset, FS_CardinalityType DEF n, ByteStart
  <2> QED BY <2>1, <2>2, <2>3, <2>5, <2>6
<1> QED BY <1>1, <1>2

\* Positions lie in the buffer or right after it, and come in order.
LEMMA PositionFacts ==
  ASSUME NEW bytepos \in Int
  PROVE  ByteToPosition(bytepos) \in 1 .. Chars + 1
  BY CharsFacts, TextAssumption DEF ByteToPosition

\* A byte position for Lisp is a natural number.
LEMMA UsizeFacts ==
  ASSUME NEW offset \in Nat
  PROVE  BytePos(offset) \in Nat
  BY SizeAssumption, TextAssumption DEF BytePos

\* A chunk is a sequence of characters of the buffer.
LEMMA ChunkFacts ==
  ASSUME NEW f, f.at \in Nat
  PROVE  /\ Chunk(f) \in Seq(Nat)
         /\ LET beg == ByteToPosition(AtLeastOne(BytePos(f.at)))
                end == ByteToPosition(AtLeastOne(BytePos(f.at)) + ChunkSize)
            IN /\ beg \in 1 .. Chars + 1 /\ end \in 1 .. Chars + 1
               /\ Len(Chunk(f)) = IF beg <= end - 1 THEN end - beg ELSE 0
               /\ \A i \in 1 .. end - beg : Chunk(f)[i] = beg + i - 1
<1> DEFINE begByte == AtLeastOne(BytePos(f.at))
           beg == ByteToPosition(begByte)
           end == ByteToPosition(begByte + ChunkSize)
<1>1. begByte \in Int /\ begByte + ChunkSize \in Int
  <2>1. BytePos(f.at) \in Nat
    BY UsizeFacts
  <2> QED BY <2>1, SizeAssumption DEF AtLeastOne
<1>2. beg \in 1 .. Chars + 1 /\ end \in 1 .. Chars + 1
  BY <1>1, PositionFacts
<1>3. Chunk(f) = SubSeq(WholeText, beg, end - 1)
  BY DEF Chunk, BufferInput, Substring
<1> HIDE DEF beg, end, begByte
<1>4. Chars \in Nat
  BY CharsFacts
<1>5. beg \in Int /\ end - 1 \in Int /\ \A i \in beg .. end - 1 : WholeText[i] = i /\ WholeText[i] \in Nat
  BY <1>2, <1>4 DEF WholeText
<1>6. /\ Chunk(f) \in Seq(Nat)
      /\ Len(Chunk(f)) = IF beg <= end - 1 THEN end - 1 - beg + 1 ELSE 0
      /\ \A i \in 1 .. end - 1 - beg + 1 : Chunk(f)[i] = WholeText[beg + i - 1]
  BY <1>3, <1>5, SubSeqProperties
<1>7. Len(Chunk(f)) = IF beg <= end - 1 THEN end - beg ELSE 0
  BY <1>2, <1>4, <1>6
<1>8. ASSUME NEW i \in 1 .. end - beg PROVE Chunk(f)[i] = beg + i - 1
  <2>1. i \in 1 .. end - 1 - beg + 1 /\ beg + i - 1 \in beg .. end - 1
    BY <1>2, <1>4
  <2> QED BY <1>5, <1>6, <2>1
<1> QED BY <1>2, <1>6, <1>7, <1>8 DEF beg, end, begByte

\* A chunk has a length.
LEMMA ByteLengthType == ASSUME NEW chunk PROVE ByteLength(chunk) \in Nat
<1>1. IsFiniteSet(DOMAIN Text)
  BY TextAssumption, FS_Interval
<1> QED BY <1>1, FS_Subset, FS_CardinalityType DEF ByteLength

\* What a parse has become with another chunk.
LEMMA FrameChunked ==
  ASSUME NEW f \in FrameType
  PROVE  LET g == [f EXCEPT !.at = @ + ByteLength(Chunk(f)), !.kept = @ \o Chunk(f)]
         IN /\ g \in FrameType
            /\ g.fn = f.fn /\ g.arg = f.arg /\ g.tree = f.tree /\ g.in = f.in /\ g.seen = f.seen
            /\ g.at = f.at + ByteLength(Chunk(f)) /\ g.kept = f.kept \o Chunk(f)
<1> DEFINE kept == f.kept \o Chunk(f)
           at == f.at + ByteLength(Chunk(f))
<1>1. f.at \in Nat /\ f.kept \in Seq({None} \cup Nat)
  BY DEF FrameType
<1>2. Chunk(f) \in Seq({None} \cup Nat)
  BY <1>1, ChunkFacts
<1>3. kept \in Seq({None} \cup Nat)
  BY <1>1, <1>2, ConcatProperties
<1>4. at \in Nat
  BY <1>1, ByteLengthType
<1> HIDE DEF kept, at
<1>5. LET g == [f EXCEPT !.at = at, !.kept = kept]
      IN /\ g \in FrameType
         /\ g.fn = f.fn /\ g.arg = f.arg /\ g.tree = f.tree /\ g.in = f.in /\ g.seen = f.seen
         /\ g.at = at /\ g.kept = kept
  BY <1>3, <1>4 DEF FrameType
<1> QED BY <1>5 DEF kept, at

\* What a function has become with a callback that failed.
LEMMA FrameFailed ==
  ASSUME NEW f \in FrameType, NEW failed \in Nat
  PROVE  LET g == [f EXCEPT !.failed = failed]
         IN /\ g \in FrameType
            /\ g.fn = f.fn /\ g.arg = f.arg /\ g.tree = f.tree /\ g.in = f.in /\ g.seen = f.seen
            /\ g.at = f.at /\ g.kept = f.kept /\ g.items = f.items /\ g.truth = f.truth
            /\ g.failed = failed
  BY DEF FrameType

-----------------------------------------------------------------------------
(* Steps of callbacks. *)

\* The input function of a parse returns or fails.
LEMMA InputMoves ==
  ASSUME TypeOK, InputReturns \/ InputFails
  PROVE  Moves
<1>1. Running({"parse"})
  BY DEF InputReturns, InputFails
<1>2. stack # <<>> /\ Top \in FrameType
  BY <1>1, TopFacts DEF Running
<1>3. CASE End
  BY <1>1, <1>3, EndMoves
<1>4. CASE /\ Chunk(Top) # <<>>
           /\ Continue([Top EXCEPT !.at = @ + ByteLength(Chunk(Top)), !.kept = @ \o Chunk(Top)])
  <2> DEFINE f == [Top EXCEPT !.at = @ + ByteLength(Chunk(Top)), !.kept = @ \o Chunk(Top)]
  <2>1. /\ f \in FrameType
        /\ f.fn = Top.fn /\ f.arg = Top.arg /\ f.tree = Top.tree /\ f.in = Top.in
        /\ f.seen = Top.seen
        /\ f.at = Top.at + ByteLength(Chunk(Top)) /\ f.kept = Top.kept \o Chunk(Top)
    BY <1>2, FrameChunked, Zenon
  <2> HIDE DEF f
  <2>2. Continue(f)
    BY <1>4 DEF f
  <2>3. GoesOn(f)
    BY <1>4, <2>1 DEF GoesOn
  <2>4. f.fn # "make_query" /\ f.fn \notin Queries
    BY <1>1, <2>1 DEF Running, Queries
  <2> QED BY <1>2, <2>1, <2>2, <2>3, <2>4, ContinueMoves
<1>5. CASE Continue([Top EXCEPT !.failed = Top.at + 1])
  <2> DEFINE failed == Top.at + 1
             f == [Top EXCEPT !.failed = failed]
  <2>1. failed \in Nat
    BY <1>2 DEF FrameType
  <2> HIDE DEF failed
  <2>2. /\ f \in FrameType
        /\ f.fn = Top.fn /\ f.arg = Top.arg /\ f.tree = Top.tree /\ f.in = Top.in
        /\ f.seen = Top.seen /\ f.at = Top.at /\ f.kept = Top.kept
    BY <1>2, <2>1, FrameFailed, Zenon
  <2>3. Continue(f)
    BY <1>5 DEF failed
  <2> HIDE DEF f
  <2>4. GoesOn(f)
    BY <2>2 DEF GoesOn
  <2>5. f.fn # "make_query" /\ f.fn \notin Queries
    BY <1>1, <2>2 DEF Running, Queries
  <2> QED BY <1>2, <2>2, <2>3, <2>4, <2>5, ContinueMoves
<1> QED BY <1>3, <1>4, <1>5 DEF InputReturns, InputFails, EndParse, EndPlain

\* What the frame of a query tells of the query.
QueriesRun ==
  \A i \in DOMAIN stack : stack[i].fn \in Queries => query # None /\ stack[i].at \in Candidate

\* The text function of a query returns or fails.
LEMMA TextMoves ==
  ASSUME TypeOK, QueriesRun, TextReturns \/ TextFails
  PROVE  Moves
<1>1. Running(Queries)
  BY DEF TextReturns, TextFails
<1>2. stack # <<>> /\ Top \in FrameType /\ query # None /\ Top.at \in Candidate
  BY <1>1, TopFacts DEF Running, QueriesRun
<1>3. CASE TextReturns
  BY <1>1, <1>2, <1>3, DecideMoves DEF TextReturns
<1>4. CASE TextFails
  <2> DEFINE failed == IF Top.failed = 0 THEN Top.at ELSE Top.failed
             f == [Top EXCEPT !.failed = failed]
  <2>1. failed \in Nat
    BY <1>2 DEF FrameType
  <2>2. Decide(f, TRUE) \/ Decide(f, FALSE)
    BY <1>4 DEF TextFails
  <2> HIDE DEF failed
  <2>3. /\ f \in FrameType /\ f.at = Top.at
        /\ f.fn = Top.fn /\ f.arg = Top.arg /\ f.tree = Top.tree /\ f.in = Top.in
        /\ f.seen = Top.seen
    BY <1>2, <2>1, FrameFailed, Zenon
  <2> HIDE DEF f
  <2> QED BY <1>1, <1>2, <2>2, <2>3, DecideMoves
<1> QED BY <1>3, <1>4

\* Every step leaves the stack, suspends, resumes or ends a function.
LEMMA NextMoves ==
  ASSUME TypeOK, KeepsItsTree, QueriesRun, [Next]_vars
  PROVE  Moves
<1> USE DEF Moves, Unmoved
<1>1. CASE LanguageCall
  BY <1>1 DEF LanguageCall, LoadLanguage, LangInfo, Plain, state
<1>2. CASE TreeCall
  BY <1>2 DEF TreeCall, TreeRead, ChangedRanges, RootNode, EditTree, CloneTree, Make, Plain, Panics, state
<1>3. CASE NodeCall
  <2>1. CASE ChildReturns \/ ChildFails
    BY <2>1, ChildMoves
  <2>2. CASE \E h \in Handle : MapcChildren(h)
    BY <2>2, MapcMoves
  <2>3. CASE \E h \in Handle : \/ \E id \in 0 .. KindCount - 1 \cup {ErrorKind} : NodeProperty(h, id)
                               \/ \E g \in Handle : NodeEq(h, g)
                               \/ NodeNavigation(h) \/ EditNode(h)
    BY <2>3 DEF NodeProperty, NodeEq, NodeNavigation, EditNode, Make, Plain, Refused, Panics, state
  <2> QED BY <1>3, <2>1, <2>2, <2>3 DEF NodeCall
<1>4. CASE CursorCall
  <2>1. CASE VisitReturns \/ VisitFails
    BY <2>1, ChildMoves
  <2>2. CASE \E h \in Handle : TraverseMapc(h)
    BY <2>2, TraverseMoves
  <2>3. CASE \E h \in Handle : \/ \E kind \in {"cursor", "iter"} : MakeCursor(kind, h)
                               \/ \E id \in 0 .. KindCount - 1 \cup {ErrorKind} : CursorProperty(h, id)
                               \/ CurrentNode(h) \/ CursorWalk(h)
    BY <2>3 DEF MakeCursor, CursorProperty, CurrentNode, CursorWalk, Make, Plain, Refused, Panics, state
  <2>4. CASE \E h \in Handle : \/ IterClose(h) \/ IterStep(h) \/ IterNode(h)
                               \/ \E g \in Handle : ResetCursor(h, g)
    BY <2>4 DEF IterClose, IterStep, IterNode, ResetCursor, Make, Plain, Refused, Panics, state
  <2> QED BY <1>4, <2>1, <2>2, <2>3, <2>4 DEF CursorCall
<1>5. CASE ParserCall
  <2>1. CASE InputReturns \/ InputFails
    BY <2>1, InputMoves
  <2>2. CASE \E h \in Handle \cup {None} : ParseChunks(h)
    BY <2>2, ParseMoves
  <2>3. CASE \/ \E l \in Language : SetLanguage(l)
             \/ ParserLanguage \/ ResetParser \/ ParseString
             \/ \E vectors \in Vectors : SetIncludedRanges(vectors)
    BY <2>3 DEF SetLanguage, ParserLanguage, ResetParser, ParseString, SetIncludedRanges, Plain,
                Refused, NoLanguage, Panics, state
  <2> QED BY <1>5, <2>1, <2>2, <2>3 DEF ParserCall
<1>6. CASE QueryCall
  <2>1. CASE TextReturns \/ TextFails
    BY <2>1, TextMoves
  <2>2. CASE TagReturns(None) \/ TagFails
    BY <2>2, TagMoves
  <2>3. CASE Running({"make_query"}) /\ TagReturns(Top.at + 1)
    BY <2>3, TagMoves
  <2>4. CASE \E l \in Language : MakeQuery(l)
    BY <2>4, MakeQueryMoves
  <2>5. CASE \E fn \in Queries, h \in Handle, truth \in SUBSET Candidate : RunQuery(fn, h, truth)
    BY <2>5, QueryMoves
  <2>6. CASE QueryRead \/ SetRange \/ \E c \in Capture : DisableCapture(c)
    BY <2>6 DEF QueryRead, SetRange, DisableCapture, Plain, Refused, state
  <2> QED BY <1>6, <2>1, <2>2, <2>3, <2>4, <2>5, <2>6 DEF QueryCall
<1>7. CASE \E h \in Handle : Collect(h)
  BY <1>7 DEF Collect
<1>8. CASE UNCHANGED vars
  BY <1>8 DEF vars
<1> QED BY <1>1, <1>2, <1>3, <1>4, <1>5, <1>6, <1>7, <1>8 DEF Next

-----------------------------------------------------------------------------
(* What a step does to the trees and the objects. *)

NewObject ==
  /\ \E kind \in Kind, h \in Handle :
       /\ obj[h] # None
       /\ \E new \in FreeHandles : obj' = [obj EXCEPT ![new] = Wrapper(kind, h)]
  /\ UNCHANGED <<tree, cell, stack>>

NewTree ==
  \E text :
    /\ MakeTree(parser, text)
    /\ \/ parser # None /\ text = WholeText
       \/ /\ Running({"parse"}) /\ text = Top.kept
          /\ Top.failed = 0 /\ Chunk(Top) = <<>>

Edited == \E h \in Handle : EditTree(h) /\ Editable(obj[h].tree)

Reset ==
  /\ \E h, g \in Handle :
       /\ Is("cursor", h) /\ Is("node", g)
       /\ ResetElsewhere \/ obj[g].in = obj[h].in
       /\ obj' = [obj EXCEPT ![h].in = obj[g].in]
  /\ UNCHANGED <<tree, cell, stack>>

Effects ==
  \/ UNCHANGED <<tree, obj>>
  \/ NewObject
  \/ NewTree
  \/ Edited
  \/ Reset
  \/ \E h \in Handle : Collect(h)

\* A new object is the only effect of Make.
LEMMA MakeEffect ==
  ASSUME NEW kind \in Kind, NEW h \in Handle, obj[h] # None, Make(kind, h)
  PROVE  Effects
  BY DEF Effects, NewObject, Make

\* What a step may do to the trees and the objects.
LEMMA NextEffects ==
  ASSUME TypeOK, [Next]_vars
  PROVE  Effects
<1> USE DEF Effects
<1>1. CASE LanguageCall
  BY <1>1 DEF LanguageCall, LoadLanguage, LangInfo, Plain, state
<1>2. CASE TreeCall
  <2>1. CASE \E h \in Handle : RootNode(h) \/ CloneTree(h)
    BY <2>1, MakeEffect DEF RootNode, CloneTree, Is, Kind, Plain, Panics, state
  <2>2. CASE \E h \in Handle : EditTree(h)
    BY <2>2 DEF Edited, EditTree, Plain, Panics, state
  <2>3. CASE \E h \in Handle : TreeRead(h) \/ \E g \in Handle : ChangedRanges(h, g)
    BY <2>3 DEF TreeRead, ChangedRanges, Plain, Panics, state
  <2> QED BY <1>2, <2>1, <2>2, <2>3 DEF TreeCall
<1>3. CASE NodeCall
  <2>1. CASE ChildReturns \/ ChildFails
    BY <2>1 DEF ChildReturns, ChildFails, EndPlain, Continue
  <2>2. CASE \E h \in Handle : NodeNavigation(h)
    BY <2>2, MakeEffect DEF NodeNavigation, Is, Kind, Plain, Refused, Panics, state
  <2>3. CASE \E h \in Handle : \/ \E id \in 0 .. KindCount - 1 \cup {ErrorKind} : NodeProperty(h, id)
                               \/ \E g \in Handle : NodeEq(h, g)
                               \/ MapcChildren(h) \/ EditNode(h)
    BY <2>3 DEF NodeProperty, NodeEq, MapcChildren, EditNode, Begin, Plain, Refused, Panics, state
  <2> QED BY <1>3, <2>1, <2>2, <2>3 DEF NodeCall
<1>4. CASE CursorCall
  <2>1. CASE VisitReturns \/ VisitFails
    BY <2>1 DEF VisitReturns, VisitFails, EndPlain, Continue
  <2>2. CASE \E h \in Handle : \/ MakeCursor("cursor", h) \/ MakeCursor("iter", h)
                               \/ CurrentNode(h) \/ IterNode(h)
    BY <2>2, MakeEffect DEF MakeCursor, CurrentNode, IterNode, TreeOrNode, Is, Kind, Plain, Refused,
                            Panics, state
  <2>3. CASE \E h \in Handle : \/ \E id \in 0 .. KindCount - 1 \cup {ErrorKind} : CursorProperty(h, id)
                               \/ CursorWalk(h) \/ IterClose(h) \/ IterStep(h) \/ TraverseMapc(h)
    BY <2>3 DEF CursorProperty, CursorWalk, IterClose, IterStep, TraverseMapc, Begin, Plain, Refused,
                Panics, state
  <2>4. CASE \E h, g \in Handle : ResetCursor(h, g)
    BY <2>4 DEF ResetCursor, Reset, Plain, Refused, Panics, state
  <2> QED BY <1>4, <2>1, <2>2, <2>3, <2>4 DEF CursorCall
<1>5. CASE ParserCall
  <2>1. CASE InputReturns
    <3>1. CASE Chunk(Top) = <<>> /\ EndParse(Top)
      <4>1. CASE Top.failed # 0
        BY <3>1, <4>1 DEF EndParse, EndPlain
      <4>2. CASE Top.failed = 0
        BY <2>1, <3>1, <4>2 DEF InputReturns, EndParse, NewTree
      <4> QED BY <4>1, <4>2
    <3> QED BY <2>1, <3>1 DEF InputReturns, Continue
  <2>2. CASE InputFails
    <3> DEFINE failed == Top.at + 1
               f == [Top EXCEPT !.failed = failed]
    <3>1. Top \in FrameType /\ failed \in Nat /\ failed # 0
      BY <2>2, TopFacts DEF InputFails, Running, FrameType
    <3> HIDE DEF failed
    <3>2. f.failed # 0
      BY <3>1, FrameFailed, Zenon
    <3>3. Continue(f) \/ EndParse(f)
      BY <2>2 DEF InputFails, failed
    <3> HIDE DEF f
    <3> QED BY <3>2, <3>3 DEF EndParse, EndPlain, Continue
  <2>3. CASE ParseString
    BY <2>3 DEF ParseString, NewTree, Plain, Refused, NoLanguage, Panics, state
  <2>4. CASE \E h \in Handle \cup {None} : ParseChunks(h)
    BY <2>4 DEF ParseChunks, Begin, Plain, Refused, NoLanguage, Panics, state
  <2>5. CASE \/ \E l \in Language : SetLanguage(l)
             \/ ParserLanguage \/ ResetParser
             \/ \E vectors \in Vectors : SetIncludedRanges(vectors)
    BY <2>5 DEF SetLanguage, ParserLanguage, ResetParser, SetIncludedRanges, Plain, Refused, state
  <2> QED BY <1>5, <2>1, <2>2, <2>3, <2>4, <2>5 DEF ParserCall
<1>6. CASE QueryCall
  <2>1. CASE TextReturns \/ TextFails
    BY <2>1 DEF TextReturns, TextFails, Decide, Search, EndPlain, Continue
  <2>2. CASE \E tag : TagReturns(tag)
    BY <2>2 DEF TagReturns, Continue
  <2>3. CASE TagFails \/ \E l \in Language : MakeQuery(l)
    BY <2>3 DEF TagFails, MakeQuery, EndPlain, Begin, Plain, state
  <2>4. CASE \E fn \in Queries, h \in Handle, truth \in SUBSET Candidate : RunQuery(fn, h, truth)
    BY <2>4 DEF RunQuery, Begin, Plain, Refused, Panics, state
  <2>5. CASE QueryRead \/ SetRange \/ \E c \in Capture : DisableCapture(c)
    BY <2>5 DEF QueryRead, SetRange, DisableCapture, Plain, Refused, state
  <2> QED BY <1>6, <2>1, <2>2, <2>3, <2>4, <2>5 DEF QueryCall
<1>7. CASE \E h \in Handle : Collect(h)
  BY <1>7
<1>8. CASE UNCHANGED vars
  BY <1>8 DEF vars
<1> QED BY <1>1, <1>2, <1>3, <1>4, <1>5, <1>6, <1>7, <1>8 DEF Next

-----------------------------------------------------------------------------
(* The stack after a step. *)

\* The frames after a step are those before it, the new innermost one, or the
\* innermost one that goes on.
LEMMA StackSteps ==
  ASSUME TypeOK, Moves
  PROVE  /\ stack' \in Seq(FrameType)
         /\ DOMAIN stack' = 1 .. Len(stack')
         /\ \A i \in DOMAIN stack' :
              \/ /\ i \in DOMAIN stack /\ stack'[i] = stack[i]
              \/ i = Len(stack) + 1 /\ Suspends(stack'[i])
              \/ i = Len(stack) /\ i \in DOMAIN stack /\ Top = stack[i] /\ Resumes(stack'[i])
<1>1. stack \in Seq(FrameType) /\ DOMAIN stack = 1 .. Len(stack) /\ Len(stack) \in Nat
  BY DEF TypeOK
<1>2. CASE Unmoved
  BY <1>1, <1>2 DEF Unmoved
<1>3. ASSUME NEW f, Suspends(f)
      PROVE  /\ stack' \in Seq(FrameType)
             /\ Len(stack') = Len(stack) + 1
             /\ \A i \in 1 .. Len(stack) : stack'[i] = stack[i]
             /\ stack'[Len(stack) + 1] = f
  <2>1. f \in FrameType /\ stack' = Append(stack, f)
    BY <1>3 DEF Suspends
  <2> QED BY <1>1, <2>1, AppendProperties
<1>4. CASE \E f : Suspends(f)
  BY <1>1, <1>3, <1>4
<1>5. ASSUME NEW f, Resumes(f)
      PROVE  /\ stack' \in Seq(FrameType)
             /\ Len(stack') = Len(stack)
             /\ \A i \in 1 .. Len(stack) - 1 : stack'[i] = stack[i]
             /\ stack'[Len(stack)] = f
             /\ Len(stack) \in DOMAIN stack
  <2>1. f \in FrameType /\ stack # <<>> /\ stack' = Append(SubSeq(stack, 1, Len(stack) - 1), f)
    BY <1>5 DEF Resumes, Below
  <2>2. LET gs == Append(SubSeq(stack, 1, Len(stack) - 1), f)
        IN /\ gs \in Seq(FrameType)
           /\ Len(gs) = Len(stack)
           /\ \A i \in 1 .. Len(stack) - 1 : gs[i] = stack[i]
           /\ gs[Len(stack)] = f
    BY <1>1, <2>1, Replaced, Zenon
  <2>3. Len(stack) \in DOMAIN stack
    BY <2>1, TopFacts
  <2> QED BY <2>1, <2>2, <2>3, Zenon
<1>6. CASE \E f : Resumes(f)
  <2>1. PICK f : Resumes(f)
    BY <1>6
  <2>2. \A n \in Nat : \A i \in 1 .. n : i = n \/ i \in 1 .. n - 1
    OBVIOUS
  <2>3. \A i \in 1 .. Len(stack) : i = Len(stack) \/ i \in 1 .. Len(stack) - 1
    BY <1>1, <2>2
  <2>4. DOMAIN stack' = 1 .. Len(stack)
    BY <1>5, <2>1
  <2>5. \A i \in DOMAIN stack' :
          \/ i \in DOMAIN stack /\ stack'[i] = stack[i]
          \/ i = Len(stack) /\ i \in DOMAIN stack /\ Top = stack[i] /\ Resumes(stack'[i])
    <3> TAKE i \in DOMAIN stack'
    <3>1. CASE i = Len(stack)
      BY <1>5, <2>1, <3>1 DEF Top
    <3>2. CASE i \in 1 .. Len(stack) - 1
      <4>1. i \in DOMAIN stack
        BY <1>1, <2>4
      <4> QED BY <1>5, <2>1, <3>2, <4>1
    <3> QED BY <2>3, <2>4, <3>1, <3>2
  <2> QED BY <1>5, <2>1, <2>4, <2>5
<1>7. CASE Ends
  <2>1. stack # <<>> /\ stack' = SubSeq(stack, 1, Len(stack) - 1)
    BY <1>7 DEF Ends, End, Below
  <2>2. /\ stack' \in Seq(FrameType) /\ Len(stack') = Len(stack) - 1
        /\ \A i \in 1 .. Len(stack) - 1 : stack'[i] = stack[i]
    BY <1>1, <2>1, Innermost
  <2>3. DOMAIN stack' = 1 .. Len(stack) - 1
    BY <2>2
  <2> QED BY <1>1, <2>2, <2>3
<1> QED BY <1>2, <1>4, <1>6, <1>7 DEF Moves

\* The flags stay numbers.
LEMMA CellType ==
  ASSUME TypeOK, Moves
  PROVE  cell' \in [Cell -> Int]
  BY DEF TypeOK, Moves, Unmoved, Suspends, Resumes, Ends, End, Taken, LetGo

-----------------------------------------------------------------------------
(* The invariant. *)

\* Before a parse is suspended its parser is given a language.
ParsersSet == \A i \in DOMAIN stack : stack[i].fn = "parse" => parser # None

\* What a parse has gathered are characters.
TextGathered == \A i \in DOMAIN stack : stack[i].fn = "parse" => stack[i].kept \in Seq(Nat)

TagsGathered == \A i \in DOMAIN stack : TagsOf(stack[i])

Inv ==
  TypeOK /\ KeepsItsTree /\ QueriesRun /\ FramesHold /\ ParsersSet /\ TextGathered /\ TagsGathered

\* The invariant holds before the first call.
LEMMA InitInv == Init => Inv
<1> SUFFICES ASSUME Init PROVE Inv
  OBVIOUS
<1>1. stack = <<>> /\ DOMAIN stack = {} /\ stack \in Seq(FrameType)
  BY DEF Init
<1>2. cell \in [Cell -> Int]
  BY DEF Init
<1>3. TypeOK
  BY <1>1, <1>2 DEF Init, TypeOK
<1> QED BY <1>1, <1>3 DEF Init, Inv, KeepsItsTree, QueriesRun, FramesHold, ParsersSet, TextGathered, TagsGathered

\* A query has a tag of each capture.
QueryOK ==
  /\ query \in Query \cup {None}
  /\ query # None =>
       \A c \in Capture : query.tags[c] = c \/ (query.tags[c] = None /\ c \in query.disabled)

\* No language is unloaded, and the parser keeps having one once it had one.
LEMMA ParserKept ==
  ASSUME Inv, [Next]_vars
  PROVE  /\ loaded \subseteq loaded'
         /\ loaded' \subseteq {l \in Language : MinAbi <= Abi[l] /\ Abi[l] <= MaxAbi}
         /\ parser' \in loaded' \cup {None}
         /\ parser # None => parser' # None
         /\ parser' = parser \/ CanWrite("parser")
<1> USE DEF Inv
<1>1. /\ loaded \subseteq {l \in Language : MinAbi <= Abi[l] /\ Abi[l] <= MaxAbi}
      /\ parser \in loaded \cup {None}
  BY DEF TypeOK
<1>2. CASE \E l \in Language : LoadLanguage(l)
  BY <1>1, <1>2 DEF LoadLanguage, Supported, Plain, state
<1>3. CASE \E l \in Language : SetLanguage(l)
  BY <1>1, <1>3, NamesAssumption DEF SetLanguage, Refused, Plain, state
<1>4. CASE UNCHANGED <<loaded, parser>>
  BY <1>1, <1>4
<1>5. ASSUME LanguageCall PROVE UNCHANGED <<loaded, parser>> \/ \E l \in Language : LoadLanguage(l)
  BY <1>5 DEF LanguageCall, LangInfo, Plain, state
<1>6. TreeCall => UNCHANGED <<loaded, parser>>
  BY DEF TreeCall, TreeRead, ChangedRanges, RootNode, EditTree, CloneTree, Make, Plain, Panics, state
<1>7. NodeCall => UNCHANGED <<loaded, parser>>
  BY DEF NodeCall, NodeProperty, NodeEq, NodeNavigation, EditNode, MapcChildren, ChildReturns,
         ChildFails, Begin, Continue, EndPlain, Make, Plain, Refused, Panics, state
<1>8. CursorCall => UNCHANGED <<loaded, parser>>
  BY DEF CursorCall, MakeCursor, CursorProperty, CurrentNode, CursorWalk, IterClose, IterStep,
         IterNode, ResetCursor, TraverseMapc, VisitReturns, VisitFails, Begin, Continue, EndPlain,
         Make, Plain, Refused, Panics, state
<1>9. ASSUME ParserCall PROVE UNCHANGED <<loaded, parser>> \/ \E l \in Language : SetLanguage(l)
  BY <1>9 DEF ParserCall, ParserLanguage, ResetParser, ParseString, SetIncludedRanges, ParseChunks,
         InputReturns, InputFails, EndParse, Begin, Continue, EndPlain, Plain, Refused, NoLanguage, Panics, state
<1>10. QueryCall => UNCHANGED <<loaded, parser>>
  BY DEF QueryCall, MakeQuery, TagReturns, TagFails, QueryRead, SetRange, DisableCapture, RunQuery,
         TextReturns, TextFails, Decide, Search, Begin, Continue, EndPlain, Plain, Refused, Panics, state
<1>11. (\E h \in Handle : Collect(h)) => UNCHANGED <<loaded, parser>>
  BY DEF Collect
<1> QED BY <1>2, <1>3, <1>4, <1>5, <1>6, <1>7, <1>8, <1>9, <1>10, <1>11 DEF Next, vars

\* A query keeps a tag of each capture, and is never lost.
LEMMA QueryKept ==
  ASSUME Inv, [Next]_vars
  PROVE  /\ QueryOK' /\ (query # None => query' # None)
         /\ query' = query \/ CanWrite("query")
<1> USE DEF Inv
<1>1. QueryOK
  BY DEF TypeOK, QueryOK
<1>2. CASE UNCHANGED query
  BY <1>1, <1>2 DEF QueryOK
<1>3. ASSUME NEW c \in Capture, DisableCapture(c)
      PROVE QueryOK' /\ query' # None /\ (query' = query \/ CanWrite("query"))
  <2>1. CASE Refused
    BY <1>1, <1>3, <2>1 DEF DisableCapture, Refused, Plain, state, QueryOK
  <2>2. CASE CanWrite("query") /\ query' = [query EXCEPT !.disabled = @ \cup {c}]
    <3>1. query \in Query
      BY <1>1, <1>3 DEF DisableCapture, QueryOK
    <3> DEFINE disabled == query.disabled \cup {c}
    <3>2. disabled \in SUBSET Capture /\ query.disabled \subseteq disabled
      BY <3>1 DEF Query
    <3>3. query' = [query EXCEPT !.disabled = disabled]
      BY <2>2
    <3> HIDE DEF disabled
    <3>4. query' \in Query /\ query'.tags = query.tags /\ query'.disabled = disabled
      BY <3>1, <3>2, <3>3 DEF Query
    <3>5. query' # None
      BY <3>4, NoQueryAssumption
    <3>6. query # None
      BY <1>3 DEF DisableCapture
    <3> QED BY <1>1, <2>2, <3>2, <3>4, <3>5, <3>6 DEF QueryOK
  <2> QED BY <1>3, <2>1, <2>2 DEF DisableCapture
<1>4. ASSUME NEW tag \in {None, Top.at + 1}, TagReturns(tag), ~UNCHANGED query
      PROVE  QueryOK' /\ query' # None /\ CanWrite("query")
  <2> DEFINE f == [Top EXCEPT !.at = @ + 1, !.kept = Tagged(Top, tag),
                              !.truth = IF tag = None THEN @ \cup {Top.at + 1} ELSE @]
  <2>1. Running({"make_query"})
    BY <1>4 DEF TagReturns
  <2>2. Top \in FrameType /\ Top.fn = "make_query" /\ TagsOf(Top)
    BY <2>1, TopFacts DEF Running, TagsGathered
  <2>3. /\ f \in FrameType
        /\ f.at >= Captures =>
             [tags |-> f.kept, disabled |-> f.truth] \in
               {q \in Query : \A c \in Capture :
                  q.tags[c] = c \/ (q.tags[c] = None /\ c \in q.disabled)}
    BY <2>2, FrameTagged, Zenon
  <2> HIDE DEF f
  <2>4. /\ ~(f.at < Captures) /\ query' = [tags |-> f.kept, disabled |-> f.truth]
        /\ CanWrite("query")
    BY <1>4 DEF TagReturns, Continue, CanWrite, f
  <2>5. f.at >= Captures
    BY <2>3, <2>4, QueryAssumption DEF FrameType
  <2>6. query' \in {q \in Query : \A c \in Capture :
                     q.tags[c] = c \/ (q.tags[c] = None /\ c \in q.disabled)}
    BY <2>3, <2>4, <2>5
  <2> QED BY <2>4, <2>6, NoQueryAssumption DEF QueryOK
<1>5. LanguageCall => UNCHANGED query
  BY DEF LanguageCall, LoadLanguage, LangInfo, Plain, state
<1>6. TreeCall => UNCHANGED query
  BY DEF TreeCall, TreeRead, ChangedRanges, RootNode, EditTree, CloneTree, Make, Plain, Panics, state
<1>7. NodeCall => UNCHANGED query
  BY DEF NodeCall, NodeProperty, NodeEq, NodeNavigation, EditNode, MapcChildren, ChildReturns,
         ChildFails, Begin, Continue, EndPlain, Make, Plain, Refused, Panics, state
<1>8. CursorCall => UNCHANGED query
  BY DEF CursorCall, MakeCursor, CursorProperty, CurrentNode, CursorWalk, IterClose, IterStep,
         IterNode, ResetCursor, TraverseMapc, VisitReturns, VisitFails, Begin, Continue, EndPlain,
         Make, Plain, Refused, Panics, state
<1>9. ParserCall => UNCHANGED query
  BY DEF ParserCall, SetLanguage, ParserLanguage, ResetParser, ParseString, SetIncludedRanges, ParseChunks,
         InputReturns, InputFails, EndParse, Begin, Continue, EndPlain, Plain, Refused, NoLanguage, Panics, state
<1>10. QueryCall => \/ UNCHANGED query \/ \E c \in Capture : DisableCapture(c)
                    \/ \E tag \in {None, Top.at + 1} : TagReturns(tag)
  BY DEF QueryCall, MakeQuery, TagFails, QueryRead, SetRange, RunQuery,
         TextReturns, TextFails, Decide, Search, Begin, Continue, EndPlain, Plain, Refused, Panics, state
<1>11. (\E h \in Handle : Collect(h)) => UNCHANGED query
  BY DEF Collect
<1> QED BY <1>2, <1>3, <1>4, <1>5, <1>6, <1>7, <1>8, <1>9, <1>10, <1>11 DEF Next, vars

\* How a call ends is one of the five ways.
LEMMA OutcomeKept ==
  ASSUME Inv, [Next]_vars
  PROVE  outcome' \in {"ok", "refused", "panic", "unset", "failed"}
<1> USE DEF Inv, Result
<1>1. outcome \in {"ok", "refused", "panic", "unset", "failed"}
  BY DEF TypeOK
<1>5. LanguageCall => outcome' \in {"ok", "refused", "panic", "unset", "failed"}
  BY DEF LanguageCall, LoadLanguage, LangInfo, Plain
<1>6. TreeCall => outcome' \in {"ok", "refused", "panic", "unset", "failed"}
  BY DEF TreeCall, TreeRead, ChangedRanges, RootNode, EditTree, CloneTree, Make, Plain, Panics
<1>7. NodeCall => outcome' \in {"ok", "refused", "panic", "unset", "failed"}
  BY DEF NodeCall, NodeProperty, NodeEq, NodeNavigation, EditNode, MapcChildren, ChildReturns,
         ChildFails, Begin, Continue, EndPlain, Make, Plain, Refused, Panics
<1>8. CursorCall => outcome' \in {"ok", "refused", "panic", "unset", "failed"}
  BY DEF CursorCall, MakeCursor, CursorProperty, CurrentNode, CursorWalk, IterClose, IterStep,
         IterNode, ResetCursor, TraverseMapc, VisitReturns, VisitFails, Begin, Continue, EndPlain,
         Make, Plain, Refused, Panics
<1>9. ParserCall => outcome' \in {"ok", "refused", "panic", "unset", "failed"}
  BY DEF ParserCall, SetLanguage, ParserLanguage, ResetParser, ParseString, SetIncludedRanges, ParseChunks,
         InputReturns, InputFails, EndParse, Begin, Continue, EndPlain, Plain, Refused, NoLanguage, Panics
<1>10. QueryCall => outcome' \in {"ok", "refused", "panic", "unset", "failed"}
  BY DEF QueryCall, MakeQuery, TagReturns, TagFails, QueryRead, SetRange, DisableCapture, RunQuery, Answers,
         TextReturns, TextFails, Decide, Search, Begin, Continue, EndPlain, Plain, Refused, Panics
<1>11. (\E h \in Handle : Collect(h)) => outcome' \in {"ok", "refused", "panic", "unset", "failed"}
  BY DEF Collect
<1> QED BY <1>1, <1>5, <1>6, <1>7, <1>8, <1>9, <1>10, <1>11 DEF Next, vars

\* The objects and the trees that they keep.
ObjectsOK ==
  /\ tree \in [Tree -> [lang : loaded, edits : 0 .. MaxEdits, text : Seq(Nat)] \cup {None}]
  /\ obj \in [Handle -> Object \cup {None}]
  /\ \A h \in Handle : obj[h] # None => tree[obj[h].tree] # None

\* Every object that is there after a step, and was there before, keeps its
\* tree, and so does every object that a suspended function was called on.
LEMMA ObjectsKept ==
  ASSUME Inv, ~ResetElsewhere, Effects,
         loaded \subseteq loaded', loaded' \subseteq Language, parser \in loaded \cup {None}
  PROVE  /\ ObjectsOK' /\ KeepsItsTree'
         /\ \A i \in DOMAIN stack :
              stack[i].arg # None =>
                obj'[stack[i].arg] # None /\ obj'[stack[i].arg].tree = obj[stack[i].arg].tree
<1> DEFINE Args == {h \in Handle : \E i \in DOMAIN stack : stack[i].arg = h}
           Records == [lang : loaded, edits : 0 .. MaxEdits, text : Seq(Nat)]
           Grown == [lang : loaded', edits : 0 .. MaxEdits, text : Seq(Nat)]
           Goal == /\ ObjectsOK' /\ KeepsItsTree'
                   /\ \A h \in Args : obj'[h] # None /\ obj'[h].tree = obj[h].tree
<1>1. /\ tree \in [Tree -> Records \cup {None}] /\ obj \in [Handle -> Object \cup {None}]
      /\ \A h \in Handle : obj[h] # None => tree[obj[h].tree] # None
      /\ Records \subseteq Grown /\ Grown \subseteq Parsed
      /\ KeepsItsTree
  BY DEF Inv, TypeOK, Parsed
<1>2. \A i \in DOMAIN stack : stack[i].arg # None => stack[i].arg \in Args
  <2> TAKE i \in DOMAIN stack
  <2>1. stack[i] \in FrameType
    BY DEF Inv, TypeOK
  <2> QED BY <2>1 DEF FrameType
<1> SUFFICES Goal
  BY <1>2
<1>3. \A h \in Args : obj[h] # None
  BY NamesAssumption DEF Inv, FramesHold
<1>4. None \notin Object /\ None \notin Grown
  BY <1>1, NoneAssumption
<1>5. CASE UNCHANGED <<tree, obj>>
  BY <1>1, <1>3, <1>5 DEF ObjectsOK, KeepsItsTree
<1>6. CASE NewObject
  <2>1. PICK kind \in Kind, h \in Handle, new \in FreeHandles :
          obj[h] # None /\ obj' = [obj EXCEPT ![new] = Wrapper(kind, h)]
    BY <1>6 DEF NewObject
  <2>2. tree' = tree /\ new \in Handle /\ obj[new] = None
    BY <1>6 DEF NewObject, FreeHandles
  <2>3. Wrapper(kind, h) \in Object /\ Wrapper(kind, h).tree = obj[h].tree
        /\ Wrapper(kind, h).in = obj[h].in
    BY <1>1, <2>1 DEF Wrapper, Object
  <2> QED BY <1>1, <1>3, <2>1, <2>2, <2>3 DEF ObjectsOK, KeepsItsTree
<1>7. CASE NewTree
  <2>1. PICK text : MakeTree(parser, text) /\ parser # None /\ text \in Seq(Nat)
    <3>1. PICK text : /\ MakeTree(parser, text)
                      /\ \/ parser # None /\ text = WholeText
                         \/ Running({"parse"}) /\ text = Top.kept
      BY <1>7 DEF NewTree
    <3>2. CASE parser # None /\ text = WholeText
      <4>1. WholeText \in Seq(Nat)
        BY CharsFacts DEF WholeText
      <4> QED BY <3>1, <3>2, <4>1
    <3>3. CASE Running({"parse"}) /\ text = Top.kept
      <4>1. parser # None /\ Top.kept \in Seq(Nat)
        BY <3>3, TopFacts DEF Inv, Running, ParsersSet, TextGathered
      <4> QED BY <3>1, <3>3, <4>1
    <3> QED BY <3>1, <3>2, <3>3
  <2>2. PICK t \in FreeTrees, new \in FreeHandles :
          /\ tree' = [tree EXCEPT ![t] = [lang |-> parser, edits |-> 0, text |-> text]]
          /\ obj' = [obj EXCEPT ![new] = [kind |-> "tree", tree |-> t, in |-> t]]
    BY <2>1 DEF MakeTree
  <2>3. t \in Tree /\ tree[t] = None /\ new \in Handle /\ obj[new] = None
    BY DEF FreeTrees, FreeHandles
  <2>4. [lang |-> parser, edits |-> 0, text |-> text] \in Grown
    BY <2>1, BoundsAssumption
  <2>5. [kind |-> "tree", tree |-> t, in |-> t] \in Object
    BY <2>3 DEF Object, Kind
  <2>6. \A h \in Handle : obj[h] # None => obj[h].tree # t
    BY <1>1, <2>3
  <2>7. ObjectsOK'
    <3>1. tree' \in [Tree -> Grown \cup {None}] /\ obj' \in [Handle -> Object \cup {None}]
      BY <1>1, <2>2, <2>4, <2>5
    <3>2. ASSUME NEW h \in Handle, obj'[h] # None PROVE tree'[obj'[h].tree] # None
      <4>1. CASE h = new
        BY <1>1, <1>4, <2>2, <2>3, <2>4, <4>1
      <4>2. CASE h # new
        BY <1>1, <2>2, <2>3, <2>6, <3>2, <4>2 DEF Object
      <4> QED BY <4>1, <4>2
    <3> QED BY <3>1, <3>2 DEF ObjectsOK
  <2>8. KeepsItsTree'
    BY <1>1, <2>2, <2>3 DEF KeepsItsTree
  <2>9. \A h \in Args : obj'[h] # None /\ obj'[h].tree = obj[h].tree
    BY <1>1, <1>3, <2>2, <2>3
  <2> QED BY <2>7, <2>8, <2>9
<1>8. CASE Edited
  <2>1. PICK h \in Handle : EditTree(h) /\ Editable(obj[h].tree)
    BY <1>8 DEF Edited
  <2> DEFINE t == obj[h].tree
             edits == tree[t].edits + 1
  <2>2. /\ t \in Tree /\ tree[t] \in Records
        /\ tree[t].edits < MaxEdits
        /\ tree' = [tree EXCEPT ![t].edits = @ + 1]
        /\ obj' = obj
    BY <2>1, ObjectFacts DEF Inv, EditTree, Is
  <2>3. edits \in 0 .. MaxEdits
    BY <2>2, BoundsAssumption
  <2>4. tree' = [tree EXCEPT ![t] = [tree[t] EXCEPT !.edits = edits]]
    BY <1>1, <2>2
  <2> HIDE DEF edits, t
  <2>5. [tree[t] EXCEPT !.edits = edits] \in Records
    BY <2>2, <2>3
  <2>6. tree' \in [Tree -> Grown \cup {None}] /\ \A u \in Tree : tree[u] # None => tree'[u] # None
    BY <1>1, <1>4, <2>2, <2>4, <2>5
  <2>7. \A g \in Handle : obj[g] # None => obj[g].tree \in Tree
    BY <1>1 DEF Object
  <2> QED BY <1>1, <1>3, <2>2, <2>6, <2>7 DEF ObjectsOK, KeepsItsTree
<1>9. CASE Reset
  <2>1. PICK h \in Handle, g \in Handle :
          /\ Is("cursor", h) /\ Is("node", g)
          /\ obj[g].in = obj[h].in
          /\ obj' = [obj EXCEPT ![h].in = obj[g].in]
    BY <1>9 DEF Reset
  <2>2. obj[h] \in Object
    BY <1>1, <2>1 DEF Is
  <2>3. obj' = obj
    BY <1>1, <2>1, <2>2 DEF Object
  <2>4. tree' = tree
    BY <1>9 DEF Reset
  <2> QED BY <1>1, <1>3, <2>3, <2>4 DEF ObjectsOK, KeepsItsTree
<1>10. CASE \E h \in Handle : Collect(h)
  <2>1. PICK h \in Handle : Collect(h)
    BY <1>10
  <2>2. /\ obj' = [obj EXCEPT ![h] = None]
        /\ tree' = [t \in Tree |->
                      IF \E g \in Handle : obj'[g] # None /\ obj'[g].tree = t
                      THEN tree[t] ELSE None]
        /\ h \notin Args
    BY <2>1 DEF Collect
  <2>3. obj' \in [Handle -> Object \cup {None}]
        /\ \A g \in Handle : obj'[g] # None => obj'[g] = obj[g]
    BY <1>1, <2>2
  <2>4. tree' \in [Tree -> Grown \cup {None}]
    BY <1>1, <2>2
  <2>5. \A g \in Handle : obj'[g] # None => tree'[obj'[g].tree] # None
    <3> TAKE g \in Handle
    <3> HAVE obj'[g] # None
    <3>1. obj'[g] = obj[g] /\ obj[g].tree \in Tree /\ tree[obj[g].tree] # None
      BY <1>1, <2>3 DEF Object
    <3> QED BY <2>2, <3>1
  <2>6. \A g \in Args : obj'[g] # None /\ obj'[g].tree = obj[g].tree
    BY <1>1, <1>3, <2>2
  <2> QED BY <1>1, <2>3, <2>4, <2>5, <2>6 DEF ObjectsOK, KeepsItsTree
<1> QED BY <1>5, <1>6, <1>7, <1>8, <1>9, <1>10 DEF Effects
\* What is known of the frames stays true.
LEMMA FramesKept ==
  ASSUME Inv, Moves, QueryOK',
         query # None => query' # None, parser # None => parser' # None,
         \A i \in DOMAIN stack :
           stack[i].arg # None =>
             obj'[stack[i].arg] # None /\ obj'[stack[i].arg].tree = obj[stack[i].arg].tree
  PROVE  QueriesRun' /\ FramesHold' /\ ParsersSet' /\ TextGathered' /\ TagsGathered'
<1> DEFINE Good(f) ==
             /\ f.fn \in Queries => query' # None /\ f.at \in Candidate
             /\ f.fn = "parse" => parser' # None /\ f.kept \in Seq(Nat)
             /\ TagsOf(f)
             /\ f.fn \in {"mapc", "traverse"} \cup Queries => f.arg # None
             /\ f.arg = None => f.tree = None /\ f.in = None
             /\ f.arg # None => /\ obj'[f.arg] # None
                                /\ obj'[f.arg].tree = f.tree
                                /\ f.in = f.tree
<1>1. \A i \in DOMAIN stack : Good(stack[i])
  BY DEF Inv, QueriesRun, FramesHold, ParsersSet, TextGathered, TagsGathered
<1>2. ASSUME NEW f, Suspends(f) PROVE Good(f)
  <2>1. f.arg # None => f.arg \in Handle /\ obj[f.arg].in = obj[f.arg].tree
    BY <1>2 DEF Suspends, FrameType, Inv, KeepsItsTree
  <2>2. <<>> \in Seq(Nat)
    OBVIOUS
  <2>3. f.fn \in {"mapc", "traverse"} \cup Queries => f.arg # None
    BY <1>2 DEF Suspends, Queries
  <2> QED BY <1>2, <2>1, <2>2, <2>3 DEF Suspends
<1>3. ASSUME NEW f, Resumes(f), Top \in FrameType, Good(Top) PROVE Good(f)
  <2>1. f.fn = "parse" => f.kept \in Seq(Nat)
    <3>1. ASSUME f.fn = "parse" PROVE f.kept \in Seq(Nat)
      <4>1. Chunk(Top) \in Seq(Nat)
        BY <1>3, ChunkFacts DEF FrameType
      <4>2. Top.kept \in Seq(Nat)
        BY <1>3, <3>1 DEF Resumes
      <4>3. Top.kept \o Chunk(Top) \in Seq(Nat)
        BY <4>1, <4>2, ConcatProperties
      <4> QED BY <1>3, <3>1, <4>2, <4>3 DEF Resumes, GoesOn
    <3> QED BY <3>1
  <2> QED BY <1>3, <2>1 DEF Resumes
<1>4. \A i \in DOMAIN stack' : Good(stack'[i])
  <2> TAKE i \in DOMAIN stack'
  <2>1. CASE i \in DOMAIN stack /\ stack'[i] = stack[i]
    BY <1>1, <2>1
  <2>2. CASE Suspends(stack'[i])
    BY <1>2, <2>2
  <2>3. CASE i \in DOMAIN stack /\ Top = stack[i] /\ Resumes(stack'[i])
    <3>1. Top \in FrameType
      BY <2>3, TopFacts DEF Resumes, Inv
    <3> HIDE DEF Good
    <3> QED BY <1>1, <1>3, <2>3, <3>1
  <2> HIDE DEF Good
  <2> QED BY <2>1, <2>2, <2>3, StackSteps DEF Inv
<1> QED BY <1>4 DEF QueriesRun, FramesHold, ParsersSet, TextGathered, TagsGathered

\* The invariant is inductive, as long as cursors are reset to nodes of their
\* own trees only.
LEMMA NextInv == ASSUME Inv, ~ResetElsewhere, [Next]_vars PROVE Inv'
<1>1. Moves /\ Effects
  BY NextMoves, NextEffects DEF Inv
<1>2. /\ loaded \subseteq loaded'
      /\ loaded' \subseteq {l \in Language : MinAbi <= Abi[l] /\ Abi[l] <= MaxAbi}
      /\ parser' \in loaded' \cup {None}
      /\ parser # None => parser' # None
  BY ParserKept
<1>3. QueryOK' /\ (query # None => query' # None)
  BY QueryKept
<1>4. /\ ObjectsOK' /\ KeepsItsTree'
      /\ \A i \in DOMAIN stack :
           stack[i].arg # None =>
             obj'[stack[i].arg] # None /\ obj'[stack[i].arg].tree = obj[stack[i].arg].tree
  BY <1>1, <1>2, ObjectsKept DEF Inv, TypeOK
<1>5. QueriesRun' /\ FramesHold' /\ ParsersSet' /\ TextGathered' /\ TagsGathered'
  BY <1>1, <1>2, <1>3, <1>4, FramesKept DEF Inv
<1>6. cell' \in [Cell -> Int] /\ stack' \in Seq(FrameType)
  BY <1>1, CellType, StackSteps DEF Inv
<1>7. outcome' \in {"ok", "refused", "panic", "unset", "failed"}
  BY OutcomeKept
<1>8. TypeOK'
  BY <1>2, <1>3, <1>4, <1>6, <1>7 DEF TypeOK, ObjectsOK, QueryOK
<1> QED BY <1>4, <1>5, <1>8 DEF Inv

\* The inductive invariant holds in every state.
THEOREM Invariant == ~ResetElsewhere /\ Spec => []Inv
<1> SUFFICES ASSUME ~ResetElsewhere PROVE Spec => []Inv
  OBVIOUS
<1>1. Inv /\ [Next]_vars => Inv'
  BY NextInv
<1> QED BY <1>1, InitInv, PTL DEF Spec

\* Every variable holds a value of its type: languages are registered, trees
\* exist as long as an object or a suspended function refers to them, and a
\* query has a tag of each capture (src/lang.rs, src/types.rs, src/query.rs).
THEOREM TypeCorrect == ~ResetElsewhere /\ Spec => []TypeOK
<1>1. Inv => TypeOK
  BY DEF Inv
<1> QED BY <1>1, Invariant, PTL

\* As long as cursors are reset to nodes of their own trees only, each object
\* keeps the tree it points into (clone_tree in src/types.rs).
THEOREM TreesKept == ~ResetElsewhere /\ Spec => []KeepsItsTree
<1>1. Inv => KeepsItsTree
  BY DEF Inv
<1> QED BY <1>1, Invariant, PTL
-----------------------------------------------------------------------------
(* The flags of the RefCells. *)

\* A function reads nothing that it writes.
LEMMA Borrows ==
  ASSUME NEW f \in FrameType, f.fn \in {"mapc"} \cup Queries => f.arg # None
  PROVE  /\ Reads(f) \subseteq Cell \cup {None} /\ Writes(f) \subseteq {"parser", "queryCursor"}
         /\ Reads(f) \cap Writes(f) = {}
  BY NamesAssumption DEF FrameType, Reads, Writes, Cell, Queries

\* What holds a flag is counted.
LEMMA HoldersFinite ==
  ASSUME TypeOK, NEW c
  PROVE  /\ IsFiniteSet(Readers(c)) /\ IsFiniteSet(Writers(c))
         /\ Len(stack) \in Nat /\ DOMAIN stack = 1 .. Len(stack)
         /\ Len(stack) + 1 \notin Readers(c) \cup Writers(c)
<1>1. Len(stack) \in Nat /\ DOMAIN stack = 1 .. Len(stack)
  BY DEF TypeOK
<1>2. IsFiniteSet(DOMAIN stack)
  BY <1>1, FS_Interval
<1>3. Readers(c) \subseteq DOMAIN stack /\ Writers(c) \subseteq DOMAIN stack
  BY DEF Readers, Writers
<1>4. IsFiniteSet(Readers(c)) /\ IsFiniteSet(Writers(c))
  BY <1>2, <1>3, FS_Subset
<1> QED BY <1>1, <1>3, <1>4

\* The function that suspends holds what it borrows.
LEMMA FlagsTaken ==
  ASSUME Inv, FlagsTell, NEW f, Suspends(f)
  PROVE  FlagsTell'
<1> DEFINE n == Len(stack) + 1
<1>1. /\ f \in FrameType /\ stack' = Append(stack, f) /\ cell' = Taken(f)
      /\ \A c \in Writes(f) : CanWrite(c)
      /\ \A c \in Reads(f) : CanRead(c)
      /\ Reads(f) \cap Writes(f) = {}
  <2>1. f.fn \in {"mapc"} \cup Queries => f.arg # None
    BY DEF Suspends, Queries
  <2> QED BY <2>1, Borrows DEF Suspends
<1>2. /\ stack \in Seq(FrameType) /\ Len(stack) \in Nat /\ DOMAIN stack = 1 .. Len(stack)
      /\ cell \in [Cell -> Int]
  BY DEF Inv, TypeOK
<1>3. /\ DOMAIN stack' = DOMAIN stack \cup {n}
      /\ \A i \in DOMAIN stack : stack'[i] = stack[i]
      /\ stack'[n] = f /\ n \notin DOMAIN stack
  <2>1. /\ stack' \in Seq(FrameType) /\ Len(stack') = Len(stack) + 1
        /\ \A i \in 1 .. Len(stack) : stack'[i] = stack[i]
        /\ stack'[Len(stack) + 1] = f
    BY <1>1, <1>2, AppendProperties
  <2> QED BY <1>2, <2>1
<1> SUFFICES ASSUME NEW c \in Cell
             PROVE  \/ Writers(c)' = {} /\ cell'[c] = Cardinality(Readers(c)')
                    \/ Cardinality(Writers(c)') = 1 /\ Readers(c)' = {} /\ cell'[c] = -1
  BY DEF FlagsTell
<1>4. /\ Readers(c)' = IF c \in Reads(f) THEN Readers(c) \cup {n} ELSE Readers(c)
      /\ Writers(c)' = IF c \in Writes(f) THEN Writers(c) \cup {n} ELSE Writers(c)
  BY <1>3 DEF Readers, Writers
<1>5. /\ IsFiniteSet(Readers(c)) /\ IsFiniteSet(Writers(c)) /\ n \notin Readers(c) /\ n \notin Writers(c)
      /\ Cardinality(Readers(c)) \in Nat /\ Cardinality(Writers(c)) \in Nat
  BY HoldersFinite, FS_CardinalityType DEF Inv
<1>6. \/ Writers(c) = {} /\ cell[c] = Cardinality(Readers(c))
      \/ Cardinality(Writers(c)) = 1 /\ Readers(c) = {} /\ cell[c] = -1
  BY DEF FlagsTell
<1> HIDE DEF n
<1>7. CASE c \in Writes(f)
  <2>1. cell[c] = 0 /\ cell'[c] = -1 /\ c \notin Reads(f)
    BY <1>1, <1>7 DEF CanWrite, Taken
  <2>2. Writers(c) = {} /\ Cardinality(Readers(c)) = 0
    BY <1>6, <2>1
  <2>3. Readers(c) = {}
    BY <1>5, <2>2, FS_EmptySet
  <2>4. Cardinality(Writers(c)') = 1
    BY <1>4, <1>7, <2>2, FS_Singleton
  <2> QED BY <1>4, <2>1, <2>3, <2>4
<1>8. CASE c \in Reads(f)
  <2>1. cell[c] >= 0 /\ cell'[c] = cell[c] + 1 /\ c \notin Writes(f)
    BY <1>1, <1>8 DEF CanRead, Taken
  <2>2. Writers(c) = {} /\ cell[c] = Cardinality(Readers(c))
    BY <1>6, <2>1
  <2>3. Cardinality(Readers(c) \cup {n}) = Cardinality(Readers(c)) + 1
    BY <1>5, FS_AddElement
  <2> QED BY <1>4, <1>8, <2>1, <2>2, <2>3
<1>9. CASE c \notin Reads(f) \cup Writes(f)
  <2>1. cell'[c] = cell[c]
    BY <1>1, <1>9 DEF Taken
  <2> QED BY <1>4, <1>6, <1>9, <2>1
<1> QED BY <1>7, <1>8, <1>9

\* The function that ends lets go of what it borrowed.
LEMMA FlagsLetGo ==
  ASSUME Inv, FlagsTell, Ends
  PROVE  FlagsTell'
<1> DEFINE n == Len(stack)
<1>1. /\ stack # <<>> /\ stack' = SubSeq(stack, 1, Len(stack) - 1) /\ cell' = LetGo(Top)
      /\ Top \in FrameType /\ n \in DOMAIN stack /\ Top = stack[n]
  BY TopFacts DEF Ends, End, Below, Inv
<1>2. /\ stack \in Seq(FrameType) /\ Len(stack) \in Nat /\ DOMAIN stack = 1 .. Len(stack)
      /\ cell \in [Cell -> Int]
  BY DEF Inv, TypeOK
<1>3. /\ DOMAIN stack' = DOMAIN stack \ {n}
      /\ \A i \in DOMAIN stack' : stack'[i] = stack[i]
  <2>1. /\ stack' \in Seq(FrameType) /\ Len(stack') = Len(stack) - 1
        /\ \A i \in 1 .. Len(stack) - 1 : stack'[i] = stack[i]
    BY <1>1, <1>2, Innermost
  <2>2. DOMAIN stack' = 1 .. Len(stack) - 1
    BY <2>1
  <2>3. \A m \in Nat : 1 .. m - 1 = (1 .. m) \ {m}
    OBVIOUS
  <2> QED BY <1>2, <2>1, <2>2, <2>3
<1>4. Reads(Top) \cap Writes(Top) = {}
  <2>1. Top.fn \in {"mapc"} \cup Queries => Top.arg # None
    BY <1>1 DEF Inv, FramesHold
  <2> QED BY <1>1, <2>1, Borrows
<1> SUFFICES ASSUME NEW c \in Cell
             PROVE  \/ Writers(c)' = {} /\ cell'[c] = Cardinality(Readers(c)')
                    \/ Cardinality(Writers(c)') = 1 /\ Readers(c)' = {} /\ cell'[c] = -1
  BY DEF FlagsTell
<1>5. Readers(c)' = Readers(c) \ {n} /\ Writers(c)' = Writers(c) \ {n}
  BY <1>3 DEF Readers, Writers
<1>6. (n \in Readers(c) <=> c \in Reads(Top)) /\ (n \in Writers(c) <=> c \in Writes(Top))
  BY <1>1 DEF Readers, Writers
<1>7. /\ IsFiniteSet(Readers(c)) /\ IsFiniteSet(Writers(c))
      /\ Cardinality(Readers(c)) \in Nat /\ Cardinality(Writers(c)) \in Nat
  BY HoldersFinite, FS_CardinalityType DEF Inv
<1>8. \/ Writers(c) = {} /\ cell[c] = Cardinality(Readers(c))
      \/ Cardinality(Writers(c)) = 1 /\ Readers(c) = {} /\ cell[c] = -1
  BY DEF FlagsTell
<1> HIDE DEF n
<1>9. CASE c \in Writes(Top)
  <2>1. cell'[c] = 0 /\ n \in Writers(c)
    BY <1>1, <1>6, <1>9 DEF LetGo
  <2>2. Cardinality(Writers(c)) = 1 /\ Readers(c) = {}
    BY <1>8, <2>1
  <2>3. /\ IsFiniteSet(Writers(c) \ {n})
        /\ Cardinality(Writers(c) \ {n}) = 0
    BY <1>7, <2>1, <2>2, FS_RemoveElement
  <2>4. Writers(c)' = {}
    BY <1>5, <2>3, FS_EmptySet
  <2>5. Cardinality(Readers(c)') = 0
    BY <1>5, <2>2, FS_EmptySet
  <2> QED BY <2>1, <2>4, <2>5
<1>10. CASE c \in Reads(Top)
  <2>1. cell'[c] = cell[c] - 1 /\ n \in Readers(c)
    BY <1>1, <1>4, <1>6, <1>10 DEF LetGo
  <2>2. Writers(c) = {} /\ cell[c] = Cardinality(Readers(c))
    BY <1>8, <2>1
  <2>3. Cardinality(Readers(c) \ {n}) = Cardinality(Readers(c)) - 1
    BY <1>7, <2>1, FS_RemoveElement
  <2> QED BY <1>5, <2>1, <2>2, <2>3
<1>11. CASE c \notin Reads(Top) \cup Writes(Top)
  <2>1. cell'[c] = cell[c] /\ n \notin Readers(c) /\ n \notin Writers(c)
    BY <1>1, <1>6, <1>11 DEF LetGo
  <2> QED BY <1>5, <1>8, <2>1
<1> QED BY <1>9, <1>10, <1>11

\* The function that goes on holds what it held.
LEMMA FlagsSame ==
  ASSUME Inv, FlagsTell, NEW f, Resumes(f)
  PROVE  FlagsTell'
<1>1. Reads(f) = Reads(Top) /\ Writes(f) = Writes(Top)
  BY DEF Resumes, Reads, Writes
<1>2. /\ stack \in Seq(FrameType) /\ DOMAIN stack = 1 .. Len(stack) /\ Len(stack) \in Nat
      /\ stack # <<>> /\ f \in FrameType
      /\ stack' = Append(SubSeq(stack, 1, Len(stack) - 1), f)
      /\ Len(stack) \in DOMAIN stack /\ Top = stack[Len(stack)]
  BY TopFacts DEF Resumes, Below, Inv, TypeOK
<1>3. LET gs == Append(SubSeq(stack, 1, Len(stack) - 1), f)
      IN /\ gs \in Seq(FrameType)
         /\ Len(gs) = Len(stack)
         /\ \A i \in 1 .. Len(stack) - 1 : gs[i] = stack[i]
         /\ gs[Len(stack)] = f
  BY <1>2, Replaced, Zenon
<1>4. /\ stack' \in Seq(FrameType) /\ Len(stack') = Len(stack)
      /\ \A i \in 1 .. Len(stack) - 1 : stack'[i] = stack[i]
      /\ stack'[Len(stack)] = f
  BY <1>2, <1>3, Zenon
<1>5. \A n \in Nat : \A i \in 1 .. n : i = n \/ i \in 1 .. n - 1
  OBVIOUS
<1>6. \A i \in DOMAIN stack : Reads(stack'[i]) = Reads(stack[i]) /\ Writes(stack'[i]) = Writes(stack[i])
  BY <1>1, <1>2, <1>4, <1>5
<1>7. DOMAIN stack' = DOMAIN stack
  <2>1. stack' \in Seq(FrameType) /\ Len(stack') = Len(stack)
    BY <1>4
  <2>2. DOMAIN stack' = 1 .. Len(stack')
    BY <2>1
  <2> QED BY <1>2, <2>1, <2>2
<1>8. \A c : Readers(c)' = Readers(c) /\ Writers(c)' = Writers(c)
  BY <1>6, <1>7 DEF Readers, Writers
<1>9. cell' = cell
  BY DEF Resumes
<1> QED BY <1>8, <1>9 DEF FlagsTell

\* Each move changes the flags as it changes who holds them.
LEMMA FlagsKept == ASSUME Inv, FlagsTell, Moves PROVE FlagsTell'
<1>1. CASE Unmoved
  BY <1>1 DEF Unmoved, FlagsTell, Readers, Writers
<1> QED BY <1>1, FlagsTaken, FlagsSame, FlagsLetGo DEF Moves

\* The flag of each RefCell tells exactly which suspended functions hold it:
\* the borrows of src/parser.rs:84-112, src/node.rs:178-198, src/query.rs:157-230
\* end with the function, however it ends.
THEOREM FlagsCorrect == ~ResetElsewhere /\ Spec => []FlagsTell
<1> SUFFICES ASSUME ~ResetElsewhere PROVE Spec => []FlagsTell
  OBVIOUS
<1>1. Init => FlagsTell
  <2> SUFFICES ASSUME Init PROVE FlagsTell
    OBVIOUS
  <2>1. stack = <<>> /\ \A c \in Cell : cell[c] = 0
    BY DEF Init
  <2>2. \A c : Readers(c) = {} /\ Writers(c) = {}
    BY <2>1 DEF Readers, Writers
  <2> QED BY <2>1, <2>2, FS_EmptySet DEF FlagsTell
<1>2. Inv /\ FlagsTell /\ [Next]_vars => FlagsTell'
  BY FlagsKept, NextMoves DEF Inv
<1>3. ~ResetElsewhere /\ Spec => []Inv
  BY Invariant
<1> QED BY <1>1, <1>2, <1>3, PTL DEF Spec
-----------------------------------------------------------------------------
(* Trees that suspended functions hold, and the calls that are refused. *)

\* No suspended function writes an object or a tree, so that they can always be
\* read, and written unless a suspended function reads them.
LEMMA TreeFlags ==
  ASSUME TypeOK, FlagsTell, NEW t \in Handle \cup Tree
  PROVE  CanRead(t) /\ (CanWrite(t) <=> Readers(t) = {})
<1>1. t \in Cell /\ t \notin {"parser", "queryCursor"}
  BY NamesAssumption DEF Cell
<1>2. Writers(t) = {}
  BY <1>1 DEF Writers, Writes
<1>3. IsFiniteSet(Readers(t)) /\ Cardinality(Readers(t)) \in Nat
  BY HoldersFinite, FS_CardinalityType
<1>4. Cardinality(Readers(t)) = 0 <=> Readers(t) = {}
  BY <1>3, FS_EmptySet
<1>5. Cardinality({}) = 0
  BY FS_EmptySet
<1>6. cell[t] = Cardinality(Readers(t))
  BY <1>1, <1>2, <1>5 DEF FlagsTell
<1> QED BY <1>3, <1>4, <1>6 DEF CanRead, CanWrite

\* Without a suspended function no RefCell is in use.
LEMMA IdleFlags ==
  ASSUME FlagsTell, stack = <<>>, NEW c \in Cell
  PROVE  CanRead(c) /\ CanWrite(c)
<1>1. Readers(c) = {} /\ Writers(c) = {}
  BY DEF Readers, Writers
<1>2. Cardinality({}) = 0
  BY FS_EmptySet
<1>3. \/ Writers(c) = {} /\ cell[c] = Cardinality(Readers(c))
      \/ Cardinality(Writers(c)) = 1
  BY DEF FlagsTell
<1>4. cell[c] = 0
  BY <1>1, <1>2, <1>3
<1> QED BY <1>4 DEF CanRead, CanWrite

\* A tree that a suspended parse or mapc reads is not edited.
LEMMA HeldKept ==
  ASSUME Inv, FlagsTell, HeldTreesUnedited, [Next]_vars, ~ResetElsewhere
  PROVE  HeldTreesUnedited'
<1>1. Moves /\ Effects
  BY NextMoves, NextEffects DEF Inv
<1>2. /\ ObjectsOK' /\ KeepsItsTree'
      /\ \A i \in DOMAIN stack :
           stack[i].arg # None =>
             obj'[stack[i].arg] # None /\ obj'[stack[i].arg].tree = obj[stack[i].arg].tree
  BY <1>1, ParserKept, ObjectsKept DEF Inv, TypeOK
<1> DEFINE Held(f) == f.fn \in {"parse", "mapc"} /\ f.in # None
           Same(f) == Held(f) => tree'[f.in] # None /\ tree'[f.in].edits = f.seen
<1>3. ASSUME NEW i \in DOMAIN stack, Held(stack[i])
      PROVE  /\ stack[i].in \in Tree /\ tree[stack[i].in] # None
             /\ tree[stack[i].in].edits = stack[i].seen
             /\ stack[i].arg \in Handle /\ stack[i].arg # None
             /\ obj[stack[i].arg] # None /\ obj[stack[i].arg].tree = stack[i].in
             /\ stack[i].in \in Reads(stack[i])
  <2>1. stack[i] \in FrameType
    BY DEF Inv, TypeOK
  <2>2. stack[i].arg # None
    BY <1>3 DEF Inv, FramesHold
  <2>3. obj[stack[i].arg] # None /\ obj[stack[i].arg].tree = stack[i].tree /\ stack[i].in = stack[i].tree
    BY <2>2 DEF Inv, FramesHold
  <2>4. stack[i].in \in Tree /\ stack[i].arg \in Handle
    BY <1>3, <2>1, <2>2 DEF FrameType
  <2>5. tree[stack[i].in] # None /\ tree[stack[i].in].edits = stack[i].seen
    BY <1>3 DEF HeldTreesUnedited
  <2>6. stack[i].in \in Reads(stack[i])
    BY <1>3, <2>3, ReadsAndWrites
  <2> QED BY <2>2, <2>3, <2>4, <2>5, <2>6
<1>4. ASSUME NEW i \in DOMAIN stack PROVE Same(stack[i])
  <2> SUFFICES ASSUME Held(stack[i])
               PROVE  tree'[stack[i].in] # None /\ tree'[stack[i].in].edits = stack[i].seen
    OBVIOUS
  <2> DEFINE t == stack[i].in
  <2>1. /\ t \in Tree /\ tree[t] # None /\ tree[t].edits = stack[i].seen
        /\ stack[i].arg \in Handle /\ stack[i].arg # None
        /\ obj[stack[i].arg].tree = t /\ t \in Reads(stack[i])
    BY <1>3
  <2>2. obj'[stack[i].arg] # None /\ obj'[stack[i].arg].tree = t
    BY <1>2, <2>1
  <2> HIDE DEF t
  <2>3. tree'[t] # None
    BY <1>2, <2>1, <2>2 DEF ObjectsOK
  <2>4. tree \in [Tree -> [lang : loaded, edits : 0 .. MaxEdits, text : Seq(Nat)] \cup {None}]
    BY DEF Inv, TypeOK
  <2>5. CASE UNCHANGED <<tree, obj>> \/ NewObject \/ Reset
    BY <2>1, <2>5 DEF NewObject, Reset, t
  <2>6. CASE NewTree
    <3>1. PICK u \in FreeTrees : \E r : tree' = [tree EXCEPT ![u] = r]
      BY <2>6 DEF NewTree, MakeTree
    <3>2. u # t
      BY <2>1 DEF FreeTrees
    <3> QED BY <2>1, <2>3, <2>4, <3>1, <3>2 DEF t
  <2>7. CASE Edited
    <3>1. PICK h \in Handle : EditTree(h) /\ Editable(obj[h].tree)
      BY <2>7 DEF Edited
    <3>2. obj[h].tree \in Tree /\ tree' = [tree EXCEPT ![obj[h].tree].edits = @ + 1]
      BY <3>1, ObjectFacts DEF EditTree, Is, Inv
    <3>3. i \in Readers(t)
      BY <2>1 DEF Readers
    <3>4. t # obj[h].tree
      BY <2>1, <3>1, <3>2, <3>3, TreeFlags DEF Editable, Inv
    <3> QED BY <2>1, <2>3, <2>4, <3>2, <3>4 DEF t
  <2>8. CASE \E h \in Handle : Collect(h)
    <3>1. \A u \in Tree : tree'[u] = tree[u] \/ tree'[u] = None
      BY <2>8 DEF Collect
    <3> QED BY <2>1, <2>3, <3>1 DEF t
  <2> QED BY <1>1, <2>5, <2>6, <2>7, <2>8 DEF Effects
<1>5. ASSUME NEW f, Suspends(f) PROVE Same(f)
  <2>1. f.in # None =>
          f.arg \in Handle /\ f.arg # None /\ obj[f.arg] # None /\ f.in = obj[f.arg].in
          /\ f.seen = tree[f.in].edits /\ tree' = tree
    BY <1>5 DEF Suspends, FrameType
  <2>2. f.in # None => obj[f.arg].in = obj[f.arg].tree /\ tree[obj[f.arg].tree] # None
    BY <2>1 DEF Inv, KeepsItsTree, TypeOK
  <2> QED BY <2>1, <2>2
<1>6. ASSUME NEW f, Resumes(f), Same(Top) PROVE Same(f)
  BY <1>6 DEF Resumes
<1>7. \A i \in DOMAIN stack' : Same(stack'[i])
  <2> TAKE i \in DOMAIN stack'
  <2> HIDE DEF Same
  <2>1. CASE i \in DOMAIN stack /\ stack'[i] = stack[i]
    BY <1>4, <2>1
  <2>2. CASE Suspends(stack'[i])
    BY <1>5, <2>2
  <2>3. CASE i \in DOMAIN stack /\ Top = stack[i] /\ Resumes(stack'[i])
    BY <1>4, <1>6, <2>3
  <2> QED BY <1>1, <2>1, <2>2, <2>3, StackSteps DEF Inv
<1> QED BY <1>7 DEF HeldTreesUnedited

\* A tree is not edited while a parse reads it as its old tree, nor while the
\* children of one of its nodes are gone through (src/tree.rs:63, src/node.rs:184).
THEOREM HeldTreesCorrect == ~ResetElsewhere /\ Spec => []HeldTreesUnedited
<1> SUFFICES ASSUME ~ResetElsewhere PROVE Spec => []HeldTreesUnedited
  OBVIOUS
<1>1. Init => HeldTreesUnedited
  BY DEF Init, HeldTreesUnedited
<1>2. Inv /\ FlagsTell /\ HeldTreesUnedited /\ [Next]_vars => HeldTreesUnedited'
  BY HeldKept
<1>3. ~ResetElsewhere /\ Spec => []Inv
  BY Invariant
<1>4. ~ResetElsewhere /\ Spec => []FlagsTell
  BY FlagsCorrect
<1> QED BY <1>1, <1>2, <1>3, <1>4, PTL DEF Spec
\* A refusal or a panic of a call, in the words of RefusalsExplained.
Explained ==
  /\ outcome' = "refused" => stack # <<>>
  /\ outcome' = "panic" => \E h \in Handle : obj[h] # None /\ Readers(obj[h].tree) # {}
  /\ outcome' = "unset" => parser = None

\* Lisp knows the type of every node, so that no property of one panics.
LEMMA TypesKnown ==
  ASSUME Inv, NEW h \in Handle, obj[h] # None, NEW id \in 0 .. KindCount - 1 \cup {ErrorKind}
  PROVE  TypeIsKnown(tree[obj[h].in].lang, id)
<1>1. tree[obj[h].in].lang \in loaded
  BY ObjectFacts DEF Inv, KeepsItsTree
<1>2. id = ErrorKind \/ id \in DOMAIN NodeTypes
  BY DEF NodeTypes
<1> QED BY <1>1, <1>2 DEF TypeIsKnown

\* A step that is refused or panics has a reason.
LEMMA CallsExplained ==
  ASSUME Inv, FlagsTell, Next
  PROVE  Explained
<1> USE DEF Result
<1>1. ASSUME NEW c \in Cell, ~CanRead(c) \/ ~CanWrite(c) PROVE stack # <<>>
  BY <1>1, IdleFlags
<1>2. /\ \A t \in Handle \cup Tree : CanRead(t) /\ (CanWrite(t) <=> Readers(t) = {})
      /\ \A h \in Handle : obj[h] # None => obj[h].tree \in Tree
      /\ {"parser", "query", "queryCursor"} \cup Handle \cup Tree = Cell
  <2>1. TypeOK
    BY DEF Inv
  <2> QED BY <2>1, TreeFlags, ObjectFacts DEF Cell
<1>3. LanguageCall => Explained
  BY DEF LanguageCall, LoadLanguage, LangInfo, Plain, Explained
<1>4. ASSUME TreeCall PROVE Explained
  <2>1. ASSUME NEW h \in Handle, TreeRead(h) \/ RootNode(h) \/ CloneTree(h) PROVE Explained
    BY <1>2, <2>1 DEF TreeRead, RootNode, CloneTree, Is, Make, Plain, Panics, Explained
  <2>2. ASSUME NEW h \in Handle, EditTree(h) PROVE Explained
    BY <1>2, <2>2 DEF EditTree, Is, Editable, Plain, Panics, Explained
  <2>3. ASSUME NEW h \in Handle, NEW g \in Handle, ChangedRanges(h, g) PROVE Explained
    BY <1>2, <2>3 DEF ChangedRanges, Is, Plain, Panics, Explained
  <2> QED BY <1>4, <2>1, <2>2, <2>3 DEF TreeCall
<1>5. ASSUME NodeCall PROVE Explained
  <2>1. ASSUME NEW h \in Handle, NEW id \in 0 .. KindCount - 1 \cup {ErrorKind}, NodeProperty(h, id)
        PROVE  Explained
    BY <1>1, <1>2, <2>1, TypesKnown DEF NodeProperty, Is, Plain, Refused, Panics, Explained
  <2>2. ASSUME NEW h \in Handle, NEW g \in Handle, NodeEq(h, g) PROVE Explained
    BY <1>1, <1>2, <2>2 DEF NodeEq, Plain, Refused, Explained
  <2>3. ASSUME NEW h \in Handle, NodeNavigation(h) PROVE Explained
    BY <1>1, <1>2, <2>3 DEF NodeNavigation, Is, Make, Plain, Refused, Panics, Explained
  <2>4. ASSUME NEW h \in Handle, EditNode(h) PROVE Explained
    BY <1>1, <1>2, <2>4 DEF EditNode, Is, Editable, Plain, Refused, Panics, Explained
  <2>5. ASSUME NEW h \in Handle, MapcChildren(h) PROVE Explained
    BY <1>1, <1>2, <2>5 DEF MapcChildren, Is, Begin, Plain, Refused, Panics, Explained
  <2>6. ChildReturns \/ ChildFails => Explained
    BY DEF ChildReturns, ChildFails, Continue, EndPlain, Explained
  <2> QED BY <1>5, <2>1, <2>2, <2>3, <2>4, <2>5, <2>6 DEF NodeCall
<1>6. ASSUME CursorCall PROVE Explained
  <2>1. ASSUME NEW h \in Handle, NEW id \in 0 .. KindCount - 1 \cup {ErrorKind}, CursorProperty(h, id)
        PROVE  Explained
    BY <1>1, <1>2, <2>1, TypesKnown DEF CursorProperty, Is, Plain, Refused, Panics, Explained
  <2>2. ASSUME NEW h \in Handle, CurrentNode(h) \/ CursorWalk(h) PROVE Explained
    BY <1>1, <1>2, <2>2 DEF CurrentNode, CursorWalk, Is, Make, Plain, Refused, Panics, Explained
  <2>3. ASSUME NEW h \in Handle, IterClose(h) \/ IterStep(h) \/ IterNode(h) PROVE Explained
    BY <1>1, <1>2, <2>3 DEF IterClose, IterStep, IterNode, Is, Make, Plain, Refused, Panics, Explained
  <2>4. ASSUME NEW h \in Handle, NEW g \in Handle, ResetCursor(h, g) PROVE Explained
    BY <1>1, <1>2, <2>4 DEF ResetCursor, Is, Plain, Refused, Panics, Explained
  <2>5. \A h \in Handle : TreeOrNode(h) => Walkable(h)
    BY <1>2 DEF TreeOrNode, Walkable, Is
  <2>6. ASSUME NEW h \in Handle,
               TraverseMapc(h) \/ MakeCursor("cursor", h) \/ MakeCursor("iter", h)
        PROVE  Explained
    BY <2>5, <2>6 DEF TraverseMapc, MakeCursor, Begin, Make, Plain, Panics, Explained
  <2>7. ASSUME VisitReturns PROVE Explained
    <3>1. Top.tree \in Tree
      <4>1. /\ Top.fn = "traverse" /\ Top \in FrameType
            /\ Len(stack) \in DOMAIN stack /\ Top = stack[Len(stack)]
        BY <2>7, TopFacts DEF VisitReturns, Running, Inv
      <4>2. Top.arg # None /\ Top.arg \in Handle /\ obj[Top.arg] # None /\ obj[Top.arg].tree = Top.tree
        BY <4>1 DEF Inv, FramesHold, FrameType
      <4> QED BY <1>2, <4>2
    <3> QED BY <1>2, <2>7, <3>1 DEF VisitReturns, Continue, EndPlain, Explained
  <2>8. VisitFails => Explained
    BY DEF VisitFails, EndPlain, Explained
  <2> QED BY <1>6, <2>1, <2>2, <2>3, <2>4, <2>6, <2>7, <2>8 DEF CursorCall
<1>7. ASSUME ParserCall PROVE Explained
  <2>1. ASSUME NEW l \in Language, SetLanguage(l) PROVE Explained
    BY <1>1, <1>2, <2>1 DEF SetLanguage, Plain, Refused, Explained
  <2>2. ASSUME ParserLanguage \/ ResetParser \/ ParseString PROVE Explained
    BY <1>1, <1>2, <2>2 DEF ParserLanguage, ResetParser, ParseString, Plain, Refused, NoLanguage, Panics, Explained
  <2>3. ASSUME NEW vectors \in Vectors, SetIncludedRanges(vectors) PROVE Explained
    BY <1>1, <1>2, <2>3 DEF SetIncludedRanges, Plain, Refused, Explained
  <2>4. ASSUME NEW h \in Handle \cup {None}, ParseChunks(h) PROVE Explained
    <3>1. h # None => CanRead(obj[h].tree)
      BY <1>2, <2>4 DEF ParseChunks, Is
    <3> QED BY <1>1, <1>2, <2>4, <3>1 DEF ParseChunks, Begin, Plain, Refused, NoLanguage, Panics, Explained
  <2>5. InputReturns \/ InputFails => Explained
    BY DEF InputReturns, InputFails, EndParse, Continue, EndPlain, Explained
  <2> QED BY <1>7, <2>1, <2>2, <2>3, <2>4, <2>5 DEF ParserCall
<1>8. ASSUME QueryCall PROVE Explained
  <2>1. ASSUME NEW l \in Language, MakeQuery(l) PROVE Explained
    BY <2>1 DEF MakeQuery, Begin, Plain, Explained
  <2>2. (\E tag : TagReturns(tag)) \/ TagFails => Explained
    BY DEF TagReturns, TagFails, Continue, EndPlain, Explained
  <2>3. ASSUME QueryRead \/ SetRange \/ \E c \in Capture : DisableCapture(c) PROVE Explained
    BY <1>1, <1>2, <2>3 DEF QueryRead, SetRange, DisableCapture, Plain, Refused, Explained
  <2>4. ASSUME NEW fn \in Queries, NEW h \in Handle, NEW truth \in SUBSET Candidate, RunQuery(fn, h, truth)
        PROVE  Explained
    BY <1>1, <1>2, <2>4 DEF RunQuery, Is, Begin, Answers, Plain, Refused, Panics, Explained
  <2>5. TextReturns \/ TextFails => Explained
    BY DEF TextReturns, TextFails, Decide, Search, Answers, Continue, EndPlain, Explained
  <2> QED BY <1>8, <2>1, <2>2, <2>3, <2>4, <2>5 DEF QueryCall
<1>9. (\E h \in Handle : Collect(h)) => Explained
  BY DEF Collect, Explained
<1> QED BY <1>3, <1>4, <1>5, <1>6, <1>7, <1>8, <1>9 DEF Next

\* Only a suspended function keeps another from running; a borrow panics only
\* while a suspended function reads the tree of an object, and otherwise only
\* a parse without a language does
\* (src/parser.rs:90, src/tree.rs:63, src/query.rs:166).
THEOREM RefusalsCorrect == ~ResetElsewhere /\ Spec => RefusalsExplained
<1> SUFFICES ASSUME ~ResetElsewhere PROVE Spec => RefusalsExplained
  OBVIOUS
<1>1. Inv /\ FlagsTell /\ [Next]_vars => [Explained]_vars
  BY CallsExplained
<1>2. ~ResetElsewhere /\ Spec => []Inv
  BY Invariant
<1>3. ~ResetElsewhere /\ Spec => []FlagsTell
  BY FlagsCorrect
<1> QED BY <1>1, <1>2, <1>3, PTL DEF Spec, RefusalsExplained, Explained

-----------------------------------------------------------------------------
(* The answers of queries. *)

\* What a query has gathered before candidate n: each match among the
\* candidates so far whose text was read before the first failure, once, in
\* order, with its tag.
ItemsGathered(f, n) ==
  LET Matches(k) == k \in f.truth /\ Yields(f.fn, k) /\ k < n /\ (f.failed = 0 \/ k < f.failed)
  IN /\ \A i \in DOMAIN f.items : Matches(f.items[i].match) /\ f.items[i] = Item(f.items[i].match)
     /\ \A k \in f.truth : Matches(k) => \E i \in DOMAIN f.items : f.items[i].match = k
     /\ \A i, j \in DOMAIN f.items : i < j => f.items[i].match < f.items[j].match

\* A query whose text function runs.
Searching(f) ==
  f.fn \in Queries =>
    /\ f.truth \subseteq Candidate /\ Yields(f.fn, f.at) /\ f.failed < f.at
    /\ ItemsGathered(f, f.at)

QueriesSearch == \A i \in DOMAIN stack : Searching(stack[i])

\* A sequence has the elements of another, each once, and in order.
Reorders(fn, s, items) ==
  /\ Len(s) \in Nat /\ DOMAIN s = 1 .. Len(s)
  /\ ToSet(s) = ToSet(items)
  /\ \A i, j \in DOMAIN s : i # j => s[i] # s[j]
  /\ fn # "captures_1" => s = items
  /\ fn = "captures_1" =>
       \A i, j \in DOMAIN s : i < j => PatternOf[s[i].match] <= PatternOf[s[j].match]

\* A query may return nothing but what it gathered, in another order.
LEMMA OrderedElements ==
  ASSUME NEW S, NEW fn, NEW items \in Seq(S), NEW s \in Ordered(fn, items),
         \A i, j \in DOMAIN items : i # j => items[i] # items[j]
  PROVE  Reorders(fn, s, items)
<1> USE DEF Reorders
<1>1. CASE fn # "captures_1"
  BY <1>1 DEF Ordered
<1>2. CASE fn = "captures_1"
  <2> DEFINE T == ToSet(items)
             m == Cardinality(T)
             D == DOMAIN items
  <2>1. /\ s \in [1 .. m -> T]
        /\ \A i, j \in 1 .. m : i # j => s[i] # s[j]
        /\ \A i, j \in DOMAIN s : i < j => PatternOf[s[i].match] <= PatternOf[s[j].match]
    BY <1>2 DEF Ordered, SetToSeqs
  <2>2. items \in Surjection(D, T)
    BY DEF ToSet, Surjection
  <2>3. IsFiniteSet(D)
    <3>1. D = 1 .. Len(items) /\ Len(items) \in Int /\ 1 \in Int
      OBVIOUS
    <3> QED BY <3>1, FS_Interval
  <2>4. IsFiniteSet(T)
    BY <2>2, <2>3, FS_Surjection
  <2>5. m \in Nat
    BY <2>4, FS_CardinalityType
  <2> HIDE DEF T
  <2>6. s \in Injection(1 .. m, T)
    BY <2>1 DEF Injection, IsInjective
  <2>7. Cardinality(1 .. m) = m
    <3> HIDE DEF m
    <3>1. m \in Int /\ 1 \in Int
      BY <2>5
    <3>2. Cardinality(1 .. m) = IF 1 > m THEN 0 ELSE m - 1 + 1
      BY <3>1, FS_Interval
    <3> QED BY <2>5, <3>2
  <2>8. s \in Surjection(1 .. m, T)
    BY <2>4, <2>6, <2>7, FS_Injection
  <2> HIDE DEF m
  <2>9. ToSet(s) = T
    BY <2>8 DEF ToSet, Surjection
  <2>10. s \in Seq(T) /\ Len(s) = m /\ DOMAIN s = 1 .. m
    BY <2>1, <2>5, SeqDef
  <2> QED BY <1>2, <2>1, <2>5, <2>9, <2>10 DEF T
<1> QED BY <1>1, <1>2

\* What is returned when no candidate is left is the true answer.
LEMMA TrueAnswer ==
  ASSUME TypeOK, query # None, UNCHANGED query,
         NEW f, f.items \in Seq([match : Candidate, tag : {None} \cup Capture]),
         f.truth \subseteq Candidate, f.failed \in Nat,
         NEW n \in Nat, ItemsGathered(f, n), \A k \in f.truth : Yields(f.fn, k) => k < n,
         Answers(f, f.items)
  PROVE  AnswersAreTrue'
<1> DEFINE I == [match : Candidate, tag : {None} \cup Capture]
           items == f.items
<1>1. PICK s \in Ordered(f.fn, items) :
        answer' = [fn |-> f.fn, items |-> s, truth |-> f.truth, failed |-> f.failed]
  BY DEF Answers
<1>2. /\ \A i \in DOMAIN items :
           LET k == items[i].match
           IN k \in f.truth /\ Yields(f.fn, k) /\ (f.failed = 0 \/ k < f.failed) /\ items[i] = Item(k)
      /\ \A k \in f.truth : Yields(f.fn, k) /\ (f.failed = 0 \/ k < f.failed) =>
           \E i \in DOMAIN items : items[i].match = k
      /\ \A i, j \in DOMAIN items : i < j => items[i].match < items[j].match
  BY DEF ItemsGathered
<1>3. /\ items \in Seq(I) /\ DOMAIN items = 1 .. Len(items) /\ Len(items) \in Nat
      /\ \A i \in DOMAIN items : items[i] \in I /\ items[i].match \in Candidate /\ items[i].match \in Nat
  <2>1. items \in Seq(I) /\ DOMAIN items = 1 .. Len(items) /\ Len(items) \in Nat
    OBVIOUS
  <2>2. \A i \in DOMAIN items : items[i] \in I
    BY <2>1, ElementOfSeq
  <2>3. \A i \in DOMAIN items : items[i].match \in Candidate
    BY <2>2
  <2>4. \A k \in Candidate : k \in Nat
    BY DEF Candidate
  <2> QED BY <2>1, <2>2, <2>3, <2>4
<1> HIDE DEF items, I
<1>4. \A i, j \in DOMAIN items : i # j => items[i].match # items[j].match
  <2> SUFFICES ASSUME NEW i \in DOMAIN items, NEW j \in DOMAIN items, i # j
               PROVE  items[i].match # items[j].match
    OBVIOUS
  <2>1. i < j \/ j < i
    <3>1. i \in 1 .. Len(items) /\ j \in 1 .. Len(items)
      BY <1>3, Zenon
    <3> QED BY <3>1
  <2>2. items[i].match < items[j].match \/ items[j].match < items[i].match
    BY <1>2, <2>1, Zenon
  <2>3. items[i].match \in Nat /\ items[j].match \in Nat
    BY <1>3, Zenon
  <2> QED BY <2>2, <2>3
<1>5. /\ Len(s) \in Nat /\ DOMAIN s = 1 .. Len(s)
      /\ ToSet(s) = ToSet(items)
      /\ \A i, j \in DOMAIN s : i # j => s[i] # s[j]
      /\ f.fn # "captures_1" => s = items
      /\ f.fn = "captures_1" =>
           \A i, j \in DOMAIN s : i < j => PatternOf[s[i].match] <= PatternOf[s[j].match]
  <2>1. \A i, j \in DOMAIN items : i # j => items[i] # items[j]
    BY <1>4
  <2>2. items \in Seq(I)
    BY <1>3
  <2>3. Reorders(f.fn, s, items)
    BY <1>1, <2>1, <2>2, OrderedElements
  <2> QED BY <2>3, Zenon DEF Reorders
<1>6. \A i \in DOMAIN s : \E j \in DOMAIN items : s[i] = items[j]
  BY <1>5 DEF ToSet
<1>7. \A j \in DOMAIN items : \E i \in DOMAIN s : s[i] = items[j]
  BY <1>5 DEF ToSet
<1> DEFINE found == {s[i].match : i \in DOMAIN s}
           order == [i \in DOMAIN s |-> s[i].match]
<1>8. found = {k \in f.truth : Yields(f.fn, k) /\ (f.failed = 0 \/ k < f.failed)}
  <2>1. ASSUME NEW k \in found
        PROVE  k \in f.truth /\ Yields(f.fn, k) /\ (f.failed = 0 \/ k < f.failed)
    BY <1>2, <1>6
  <2>2. ASSUME NEW k \in f.truth, Yields(f.fn, k) /\ (f.failed = 0 \/ k < f.failed)
        PROVE  k \in found
    BY <1>2, <1>7, <2>2
  <2> QED BY <2>1, <2>2
<1>9. Len(s) = Cardinality(found)
  <2>1. \A i, j \in DOMAIN s : i # j => s[i].match # s[j].match
    BY <1>4, <1>5, <1>6
  <2>2. order \in Bijection(DOMAIN s, found)
    BY <2>1 DEF Bijection, Injection, IsInjective, Surjection
  <2>3. ExistsBijection(DOMAIN s, found)
    BY <2>2 DEF ExistsBijection
  <2> HIDE DEF found
  <2>4. IsFiniteSet(DOMAIN s) /\ Cardinality(DOMAIN s) = Len(s)
    <3>1. 1 \in Int /\ Len(s) \in Int
      BY <1>5
    <3>2. /\ IsFiniteSet(1 .. Len(s))
          /\ Cardinality(1 .. Len(s)) = IF 1 > Len(s) THEN 0 ELSE Len(s) - 1 + 1
      BY <3>1, FS_Interval
    <3> QED BY <1>5, <3>2
  <2> QED BY <2>3, <2>4, FS_Bijection
<1>10. ASSUME NEW i \in DOMAIN s
       PROVE  LET c == CaptureOf[s[i].match]
              IN s[i].tag = IF c \in query.disabled THEN None ELSE c
  <2>1. PICK j \in DOMAIN items : s[i] = items[j]
    BY <1>6
  <2> DEFINE k == s[i].match
             c == CaptureOf[k]
  <2>2. k \in Candidate /\ s[i] = Item(k)
    BY <1>2, <1>3, <2>1
  <2>3. c \in Capture
    BY <2>2, QueryAssumption DEF Candidate, Capture
  <2> HIDE DEF k
  <2>4. query.tags[c] = c \/ (query.tags[c] = None /\ c \in query.disabled)
    BY <2>3 DEF TypeOK
  <2> QED BY <2>2, <2>4 DEF Item, k
<1>11. \A i, j \in DOMAIN s :
         i < j => IF f.fn = "captures_1" THEN PatternOf[s[i].match] <= PatternOf[s[j].match]
                  ELSE s[i].match < s[j].match
  BY <1>2, <1>5
<1> HIDE DEF found, order
<1>12. /\ answer'.fn = f.fn /\ answer'.items = s /\ answer'.truth = f.truth
       /\ answer'.failed = f.failed /\ query' = query
  BY <1>1
<1> QED BY <1>8, <1>9, <1>10, <1>11, <1>12 DEF AnswersAreTrue, Yields, found

\* The search goes on to the next match, having left none out, or returns.
LEMMA SearchOn ==
  ASSUME TypeOK, query # None, stack # <<>>, NEW f \in FrameType, f.fn \in Queries, f.at \in Candidate,
         f.truth \subseteq Candidate, f.failed <= f.at, ItemsGathered(f, f.at + 1), Search(f)
  PROVE  \/ \E g : Searching(g) /\ stack' = Append(Below, g) /\ query' = query /\ answer' = None
         \/ stack' = Below /\ query' = query /\ AnswersAreTrue'
<1>1. f.at \in Nat /\ f.failed \in Nat
  BY DEF FrameType
<1>2. \A k \in Candidate : k \in Nat
  BY DEF Candidate
<1>3. ASSUME NEW j \in NextOf(f.fn, f.at), Continue([f EXCEPT !.at = j])
      PROVE  \E g : Searching(g) /\ stack' = Append(Below, g) /\ query' = query /\ answer' = None
  <2> DEFINE g == [f EXCEPT !.at = j]
  <2>1. j \in Candidate /\ j > f.at /\ Yields(f.fn, j)
    BY <1>3 DEF NextOf, After
  <2>2. \A k \in Candidate : k > f.at /\ Yields(f.fn, k) => j <= k
    BY <1>3 DEF NextOf, After
  <2>3. /\ g.fn = f.fn /\ g.at = j /\ g.truth = f.truth /\ g.items = f.items /\ g.failed = f.failed
    BY DEF FrameType
  <2>4. stack' = Append(Below, g) /\ query' = query /\ answer' = None
    BY <1>3 DEF Continue, Result
  <2> HIDE DEF g
  <2>5. \A k \in f.truth : Yields(f.fn, k) => (k < j <=> k < f.at + 1)
    BY <1>1, <1>2, <2>1, <2>2
  <2>6. f.failed < j
    BY <1>1, <1>2, <2>1
  <2>7. ItemsGathered(g, j)
    BY <2>3, <2>5 DEF ItemsGathered
  <2> QED BY <2>1, <2>3, <2>4, <2>6, <2>7 DEF Searching
<1>4. ASSUME After(f.fn, f.at) = {}, Answers(f, f.items), End, query' = query
      PROVE  stack' = Below /\ query' = query /\ AnswersAreTrue'
  <2>1. \A k \in f.truth : Yields(f.fn, k) => k < f.at + 1
    BY <1>1, <1>2, <1>4 DEF After
  <2>2. f.items \in Seq([match : Candidate, tag : {None} \cup Capture]) /\ f.at + 1 \in Nat
    BY <1>1 DEF FrameType
  <2> QED BY <1>1, <1>4, <2>1, <2>2, TrueAnswer DEF End
<1> QED BY <1>3, <1>4 DEF Search

\* A candidate that has been decided is gathered if it matches.
LEMMA Decided ==
  ASSUME TypeOK, query # None, stack # <<>>, NEW f \in FrameType, f.fn \in Queries, f.at \in Candidate,
         f.truth \subseteq Candidate, Yields(f.fn, f.at), f.failed <= f.at, ItemsGathered(f, f.at),
         NEW matches \in BOOLEAN, f.failed = 0 => (matches <=> f.at \in f.truth), Decide(f, matches)
  PROVE  \/ \E g : Searching(g) /\ stack' = Append(Below, g) /\ query' = query /\ answer' = None
         \/ stack' = Below /\ query' = query /\ (answer' = None \/ AnswersAreTrue')
<1>1. f.at \in Nat /\ f.failed \in Nat /\ f.items \in Seq([match : Candidate, tag : {None} \cup Capture])
  BY DEF FrameType
<1>2. \A k \in f.truth : k \in Nat
  BY DEF Candidate
<1>3. CASE ~matches
  <2>1. \A k \in f.truth : /\ k < f.at => k < f.at + 1
                           /\ (f.failed = 0 \/ k < f.failed) /\ k < f.at + 1 => k < f.at
    BY <1>1, <1>2, <1>3
  <2>2. ItemsGathered(f, f.at + 1)
    BY <2>1 DEF ItemsGathered
  <2>3. Search(f)
    BY <1>3 DEF Decide
  <2> QED BY <2>2, <2>3, SearchOn
<1>4. CASE matches /\ f.failed # 0
  BY <1>4 DEF Decide, Pending, EndPlain, End, Result
<1>5. CASE matches /\ f.failed = 0
  <2> DEFINE items == Append(f.items, Item(f.at))
             g == [f EXCEPT !.items = items]
  <2>1. Search(g)
    BY <1>5 DEF Decide, Pending
  <2>2. /\ items \in Seq([match : Candidate, tag : {None} \cup Capture])
        /\ DOMAIN f.items = 1 .. Len(f.items) /\ Len(f.items) \in Nat
        /\ DOMAIN items = 1 .. Len(f.items) + 1
        /\ \A i \in 1 .. Len(f.items) : items[i] = f.items[i]
        /\ items[Len(f.items) + 1] = Item(f.at)
    BY <1>1, ItemType, AppendProperties
  <2>3. Item(f.at).match = f.at
    BY DEF Item
  <2> HIDE DEF items
  <2>4. /\ g \in FrameType
        /\ g.fn = f.fn /\ g.at = f.at /\ g.truth = f.truth /\ g.items = items /\ g.failed = f.failed
    BY <2>2 DEF FrameType
  <2> HIDE DEF g
  <2>5. ItemsGathered(g, f.at + 1)
    <3>1. \A i \in 1 .. Len(f.items) + 1 : i \in DOMAIN f.items \/ i = Len(f.items) + 1
      BY <2>2
    <3>2. f.at \in f.truth
      BY <1>5
    <3>3. ASSUME NEW i \in DOMAIN items
          PROVE  LET k == items[i].match
                 IN k \in f.truth /\ Yields(f.fn, k) /\ k < f.at + 1 /\ items[i] = Item(k)
      <4>1. CASE i \in DOMAIN f.items
        <5>1. items[i] = f.items[i]
          BY <2>2, <4>1
        <5>2. LET k == f.items[i].match
              IN k \in f.truth /\ Yields(f.fn, k) /\ k < f.at /\ f.items[i] = Item(k)
          BY <4>1 DEF ItemsGathered
        <5> QED BY <1>1, <1>2, <5>1, <5>2
      <4>2. CASE i = Len(f.items) + 1
        BY <1>1, <2>2, <2>3, <3>2, <4>2
      <4> QED BY <2>2, <3>1, <4>1, <4>2
    <3>4. ASSUME NEW k \in f.truth, Yields(f.fn, k), k < f.at + 1
          PROVE  \E i \in DOMAIN items : items[i].match = k
      <4>1. CASE k < f.at
        <5>1. PICK i \in DOMAIN f.items : f.items[i].match = k
          BY <1>5, <3>4, <4>1 DEF ItemsGathered
        <5>2. i \in DOMAIN items /\ items[i] = f.items[i]
          BY <2>2
        <5> QED BY <5>1, <5>2
      <4>2. CASE k = f.at
        <5>1. Len(f.items) + 1 \in DOMAIN items
          BY <2>2
        <5> QED BY <2>2, <2>3, <4>2, <5>1
      <4> QED BY <1>1, <1>2, <3>4, <4>1, <4>2
    <3>5. ASSUME NEW i \in DOMAIN items, NEW j \in DOMAIN items, i < j
          PROVE  items[i].match < items[j].match
      <4>1. i \in DOMAIN f.items
        BY <2>2, <3>5
      <4>2. items[i] = f.items[i]
        BY <2>2, <4>1
      <4>3. CASE j \in DOMAIN f.items
        BY <2>2, <3>5, <4>1, <4>2, <4>3 DEF ItemsGathered
      <4>4. CASE j = Len(f.items) + 1
        BY <2>2, <2>3, <4>1, <4>2, <4>4 DEF ItemsGathered
      <4> QED BY <2>2, <3>1, <4>3, <4>4
    <3> QED BY <1>5, <2>4, <3>3, <3>4, <3>5 DEF ItemsGathered
  <2> QED BY <1>1, <1>5, <2>1, <2>4, <2>5, SearchOn
<1> QED BY <1>3, <1>4, <1>5

\* A query that begins has gathered nothing, and there is nothing before its
\* first candidate.
LEMMA QueryBegins ==
  ASSUME TypeOK, KeepsItsTree, NEW fn \in Queries, NEW h \in Handle, NEW truth \in SUBSET Candidate,
         RunQuery(fn, h, truth)
  PROVE  /\ query' = query
         /\ \/ \E g : Searching(g) /\ stack' = Append(stack, g) /\ answer' = None
            \/ stack' = stack /\ (answer' = None \/ AnswersAreTrue')
<1> DEFINE f == [Frame(fn, h) EXCEPT !.truth = truth]
<1>1. obj[h] # None /\ query # None
  BY DEF RunQuery, Is
<1>2. /\ f.fn = fn /\ f.truth = truth /\ f.items = <<>> /\ f.failed = 0
      /\ \A j : LET g == [f EXCEPT !.at = j]
                IN g.fn = fn /\ g.truth = truth /\ g.items = <<>> /\ g.failed = 0 /\ g.at = j
  BY DEF Frame
<1>3. CASE Refused \/ Panics
  BY <1>3 DEF Refused, Panics, Plain, Result, state
<1> HIDE DEF f
<1>4. \A k \in Candidate : k \in Nat /\ k > 0
  BY DEF Candidate
<1>5. ASSUME NEW j \in NextOf(fn, 0), Begin([f EXCEPT !.at = j])
      PROVE  /\ query' = query
             /\ \E g : Searching(g) /\ stack' = Append(stack, g) /\ answer' = None
  <2> DEFINE g == [f EXCEPT !.at = j]
  <2>1. j \in Candidate /\ Yields(fn, j) /\ \A k \in Candidate : Yields(fn, k) => j <= k
    BY <1>4 DEF NextOf, After
  <2>2. g.fn = fn /\ g.truth = truth /\ g.items = <<>> /\ g.failed = 0 /\ g.at = j
    BY <1>2
  <2>3. query' = query /\ stack' = Append(stack, g) /\ answer' = None
    BY <1>5 DEF Begin, Result
  <2> HIDE DEF g
  <2>4. \A k \in truth : Yields(fn, k) => ~(k < j)
    BY <1>4, <2>1
  <2>5. ItemsGathered(g, j)
    BY <2>2, <2>4 DEF ItemsGathered
  <2>6. Searching(g)
    BY <1>4, <2>1, <2>2, <2>5 DEF Searching
  <2> QED BY <2>3, <2>6
<1>6. CASE After(fn, 0) = {} /\ Answers(f, <<>>) /\ UNCHANGED state
  <2>1. query' = query /\ stack' = stack
    BY <1>6 DEF state
  <2>2. \A k \in truth : ~Yields(fn, k)
    BY <1>4, <1>6 DEF After
  <2>3. ItemsGathered(f, 0)
    BY <1>2, <2>2 DEF ItemsGathered
  <2>4. <<>> \in Seq([match : Candidate, tag : {None} \cup Capture])
    OBVIOUS
  <2>5. /\ f.items \in Seq([match : Candidate, tag : {None} \cup Capture])
        /\ f.truth \subseteq Candidate /\ f.failed \in Nat /\ 0 \in Nat
        /\ \A k \in f.truth : Yields(f.fn, k) => k < 0
        /\ Answers(f, f.items)
    BY <1>2, <1>6, <2>2, <2>4
  <2>6. AnswersAreTrue'
    BY <1>1, <2>1, <2>3, <2>5, TrueAnswer
  <2> QED BY <2>1, <2>6
<1> QED BY <1>3, <1>5, <1>6 DEF RunQuery, f

\* The text function returns or fails.
LEMMA TextDecides ==
  ASSUME TypeOK, QueriesRun, QueriesSearch, TextReturns \/ TextFails
  PROVE  /\ stack # <<>> /\ query' = query
         /\ \/ \E g : Searching(g) /\ stack' = Append(Below, g) /\ answer' = None
            \/ stack' = Below /\ (answer' = None \/ AnswersAreTrue')
<1>1. Running(Queries)
  BY DEF TextReturns, TextFails
<1>2. stack # <<>> /\ Top \in FrameType /\ query # None /\ Top.at \in Candidate /\ Top.fn \in Queries
  BY <1>1, TopFacts DEF Running, QueriesRun
<1>3. /\ Top.truth \subseteq Candidate /\ Yields(Top.fn, Top.at) /\ Top.failed < Top.at
      /\ ItemsGathered(Top, Top.at)
  BY <1>2, TopFacts DEF QueriesSearch, Searching
<1>4. Top.at \in Nat /\ Top.failed \in Nat /\ Top.at > 0
  BY <1>2 DEF FrameType, Candidate
<1>5. CASE TextReturns
  <2>1. Top.failed <= Top.at
    BY <1>3, <1>4
  <2> DEFINE matches == Top.at \in Top.truth
  <2>2. matches \in BOOLEAN /\ Decide(Top, matches)
    BY <1>5 DEF TextReturns
  <2>3. \/ \E g : Searching(g) /\ stack' = Append(Below, g) /\ query' = query /\ answer' = None
        \/ stack' = Below /\ query' = query /\ (answer' = None \/ AnswersAreTrue')
    BY <1>2, <1>3, <2>1, <2>2, Decided
  <2> QED BY <1>2, <2>3
<1>6. CASE TextFails
  <2> DEFINE failed == IF Top.failed = 0 THEN Top.at ELSE Top.failed
             f == [Top EXCEPT !.failed = failed]
  <2>1. failed \in Nat /\ failed <= Top.at /\ failed # 0
    BY <1>3, <1>4
  <2>2. PICK matches \in BOOLEAN : Decide(f, matches)
    BY <1>6 DEF TextFails
  <2>3. \A k \in Top.truth : k < Top.at => (Top.failed = 0 \/ k < Top.failed <=> failed = 0 \/ k < failed)
    BY <1>4, <2>1
  <2> HIDE DEF failed
  <2>4. /\ f \in FrameType /\ f.at = Top.at /\ f.fn = Top.fn /\ f.items = Top.items
        /\ f.truth = Top.truth /\ f.failed = failed
    BY <1>2, <2>1, FrameFailed, Zenon
  <2> HIDE DEF f
  <2>5. ItemsGathered(f, f.at)
    BY <1>3, <2>3, <2>4 DEF ItemsGathered
  <2> QED BY <1>2, <1>3, <2>1, <2>2, <2>4, <2>5, Decided
<1> QED BY <1>5, <1>6

\* A step of no query.
Other ==
  /\ answer' = None
  /\ query' = query \/ CanWrite("query")
  /\ \/ stack' = stack
     \/ \E g : g.fn \notin Queries /\ stack' = Append(stack, g)
     \/ \E g : g.fn \notin Queries /\ stack # <<>> /\ stack' = Append(Below, g)
     \/ stack # <<>> /\ stack' = Below

\* Suspending a function that is no query, or going on with it.
LEMMA OtherBegins ==
  ASSUME NEW fn \in {"parse", "mapc", "traverse", "make_query"}, NEW h, Begin(Frame(fn, h))
  PROVE  Other
<1> DEFINE f == Frame(fn, h)
<1>1. f.fn \notin Queries
  BY DEF Frame, Queries
<1> HIDE DEF f
<1>2. Begin(f)
  BY DEF f
<1> QED BY <1>1, <1>2 DEF Other, Begin, Result

LEMMA OtherContinues ==
  ASSUME NEW f, f.fn \notin Queries, stack # <<>>, Continue(f)
  PROVE  Other
  BY DEF Other, Continue, Result

\* Every step is one of a query or another.
LEMMA QuerySteps ==
  ASSUME TypeOK, Next
  PROVE  \/ Other \/ TextReturns \/ TextFails
         \/ \E fn \in Queries, h \in Handle, truth \in SUBSET Candidate : RunQuery(fn, h, truth)
<1>1. ASSUME NEW fns, fns \in {{"mapc"}, {"traverse"}, {"parse"}, {"make_query"}}, Running(fns)
      PROVE  stack # <<>> /\ Top \in FrameType /\ Top.fn \notin Queries
  BY <1>1, TopFacts DEF Running, Queries
<1>2. LanguageCall => Other
  BY DEF LanguageCall, LoadLanguage, LangInfo, Plain, Result, state, Other
<1>3. TreeCall => Other
  BY DEF TreeCall, TreeRead, ChangedRanges, RootNode, EditTree, CloneTree, Make, Plain, Panics, Result,
         state, Other
<1>4. ASSUME NEW o, EndPlain(o), stack # <<>> PROVE Other
  BY <1>4 DEF EndPlain, End, Result, Other
<1>5. ASSUME NEW fns, fns \in {{"mapc"}, {"traverse"}}, Running(fns),
             Continue([Top EXCEPT !.at = @ + 1])
      PROVE  Other
  <2> DEFINE f == [Top EXCEPT !.at = @ + 1]
  <2>1. stack # <<>> /\ Top \in FrameType /\ Top.fn \notin Queries
    BY <1>1, <1>5
  <2>2. f.fn = Top.fn
    BY <2>1 DEF FrameType
  <2> HIDE DEF f
  <2>3. Continue(f)
    BY <1>5 DEF f
  <2> QED BY <2>1, <2>2, <2>3, OtherContinues
<1>6. ASSUME NodeCall PROVE Other
  <2>1. CASE ChildReturns \/ ChildFails
    BY <1>1, <1>4, <1>5, <2>1 DEF ChildReturns, ChildFails
  <2>2. CASE \E h \in Handle : MapcChildren(h)
    BY <2>2, OtherBegins DEF MapcChildren, Plain, Refused, Panics, Result, state, Other
  <2>3. CASE \E h \in Handle : \/ \E id \in 0 .. KindCount - 1 \cup {ErrorKind} : NodeProperty(h, id)
                               \/ \E g \in Handle : NodeEq(h, g)
                               \/ NodeNavigation(h) \/ EditNode(h)
    BY <2>3 DEF NodeProperty, NodeEq, NodeNavigation, EditNode, Make, Plain, Refused, Panics, Result,
                state, Other
  <2> QED BY <1>6, <2>1, <2>2, <2>3 DEF NodeCall
<1>7. ASSUME CursorCall PROVE Other
  <2>1. CASE VisitReturns \/ VisitFails
    BY <1>1, <1>4, <1>5, <2>1 DEF VisitReturns, VisitFails
  <2>2. CASE \E h \in Handle : TraverseMapc(h)
    BY <2>2, OtherBegins DEF TraverseMapc, Plain, Refused, Panics, Result, state, Other
  <2>3. CASE \E h \in Handle : \/ \E kind \in {"cursor", "iter"} : MakeCursor(kind, h)
                               \/ \E id \in 0 .. KindCount - 1 \cup {ErrorKind} : CursorProperty(h, id)
                               \/ CurrentNode(h) \/ CursorWalk(h)
    BY <2>3 DEF MakeCursor, CursorProperty, CurrentNode, CursorWalk, Make, Plain, Refused, Panics, Result,
                state, Other
  <2>4. CASE \E h \in Handle : \/ IterClose(h) \/ IterStep(h) \/ IterNode(h)
                               \/ \E g \in Handle : ResetCursor(h, g)
    BY <2>4 DEF IterClose, IterStep, IterNode, ResetCursor, Make, Plain, Refused, Panics, Result, state,
                Other
  <2> QED BY <1>7, <2>1, <2>2, <2>3, <2>4 DEF CursorCall
<1>8. ASSUME ParserCall PROVE Other
  <2>1. ASSUME NEW f, EndParse(f), stack # <<>> PROVE Other
    BY <1>4, <2>1 DEF EndParse, End, Result, Other
  <2>2. CASE InputReturns
    <3> DEFINE f == [Top EXCEPT !.at = @ + ByteLength(Chunk(Top)), !.kept = @ \o Chunk(Top)]
    <3>1. stack # <<>> /\ Top \in FrameType /\ Top.fn \notin Queries
      BY <1>1, <2>2 DEF InputReturns
    <3>2. f.fn = Top.fn
      BY <3>1 DEF FrameType
    <3> HIDE DEF f
    <3>3. Continue(f) \/ EndParse(Top)
      BY <2>2 DEF InputReturns, f
    <3> QED BY <2>1, <3>1, <3>2, <3>3, OtherContinues
  <2>3. CASE InputFails
    <3> DEFINE f == [Top EXCEPT !.failed = Top.at + 1]
    <3>1. stack # <<>> /\ Top \in FrameType /\ Top.fn \notin Queries
      BY <1>1, <2>3 DEF InputFails
    <3>2. f.fn = Top.fn
      BY <3>1 DEF FrameType
    <3> HIDE DEF f
    <3>3. Continue(f) \/ EndParse(f)
      BY <2>3 DEF InputFails, f
    <3> QED BY <2>1, <3>1, <3>2, <3>3, OtherContinues
  <2>4. CASE \E h \in Handle \cup {None} : ParseChunks(h)
    BY <2>4, OtherBegins DEF ParseChunks, Plain, Refused, NoLanguage, Panics, Result, state, Other
  <2>5. CASE \/ \E l \in Language : SetLanguage(l)
             \/ ParserLanguage \/ ResetParser \/ ParseString
             \/ \E vectors \in Vectors : SetIncludedRanges(vectors)
    BY <2>5 DEF SetLanguage, ParserLanguage, ResetParser, ParseString, SetIncludedRanges, Plain,
                Refused, NoLanguage, Panics, Result, state, Other
  <2> QED BY <1>8, <2>2, <2>3, <2>4, <2>5 DEF ParserCall
<1>9. ASSUME NEW tag, TagReturns(tag) PROVE Other
  <2> DEFINE f == [Top EXCEPT !.at = @ + 1, !.kept = Tagged(Top, tag),
                              !.truth = IF tag = None THEN @ \cup {Top.at + 1} ELSE @]
  <2>1. stack # <<>> /\ Top \in FrameType /\ Top.fn \notin Queries
    BY <1>1, <1>9 DEF TagReturns
  <2>2. f.fn = Top.fn
    BY <2>1 DEF FrameType
  <2>3. CASE f.at < Captures
    <3>1. Continue(f)
      BY <1>9, <2>3 DEF TagReturns
    <3> HIDE DEF f
    <3> QED BY <2>1, <2>2, <3>1, OtherContinues
  <2>4. CASE ~(f.at < Captures)
    <3>1. (UNCHANGED query \/ cell["query"] = 0) /\ End /\ Result("ok")
      BY <1>9, <2>4 DEF TagReturns
    <3> QED BY <2>1, <3>1 DEF Other, End, Result, CanWrite
  <2> QED BY <2>3, <2>4
<1>10. (\E l \in Language : MakeQuery(l)) => Other
  BY OtherBegins DEF MakeQuery, Plain, Result, state, Other
<1>11. TagFails => Other
  BY <1>1, <1>4 DEF TagFails
<1>12. QueryRead \/ SetRange \/ (\E c \in Capture : DisableCapture(c)) => Other
  BY DEF QueryRead, SetRange, DisableCapture, Plain, Refused, Result, state, Other
<1>13. (\E h \in Handle : Collect(h)) => Other
  BY DEF Collect, Result, Other
<1> QED BY <1>2, <1>3, <1>6, <1>7, <1>8, <1>9, <1>10, <1>11, <1>12, <1>13 DEF Next, QueryCall

\* The query is not changed while one of its searches is suspended.
LEMMA SearchedUnchanged ==
  ASSUME TypeOK, FlagsTell, CanWrite("query"), NEW i \in DOMAIN stack
  PROVE  stack[i].fn \notin Queries
<1>1. Writers("query") = {}
  BY DEF Writers, Writes
<1>2. IsFiniteSet(Readers("query")) /\ Cardinality(Readers("query")) \in Nat
  BY HoldersFinite, FS_CardinalityType
<1>3. cell["query"] = Cardinality(Readers("query"))
  <2>1. "query" \in Cell /\ Cardinality({}) = 0
    BY FS_EmptySet DEF Cell
  <2> QED BY <1>1, <2>1 DEF FlagsTell
<1>4. Readers("query") = {}
  BY <1>2, <1>3, FS_EmptySet DEF CanWrite
<1> QED BY <1>4 DEF Readers, Reads, Queries

\* The frames that a step leaves are searching if the one it puts on top is.
LEMMA FramesSearch ==
  ASSUME TypeOK, QueriesSearch, query' = query \/ \A i \in DOMAIN stack : stack[i].fn \notin Queries,
         NEW g, Searching(g)',
         \/ stack' = stack
         \/ stack' = Append(stack, g)
         \/ stack # <<>> /\ stack' = Append(Below, g)
         \/ stack # <<>> /\ stack' = Below
  PROVE  QueriesSearch'
<1> SUFFICES ASSUME NEW i \in DOMAIN stack' PROVE Searching(stack[i])'
  BY DEF QueriesSearch
<1>1. PICK f : f = stack'[i]
  OBVIOUS
<1>2. f = g \/ \E j \in DOMAIN stack : f = stack[j]
  <2>1. stack \in Seq(FrameType) /\ DOMAIN stack = 1 .. Len(stack) /\ Len(stack) \in Nat
    BY DEF TypeOK
  <2>2. CASE stack' = stack
    BY <1>1, <2>2
  <2>3. CASE stack' = Append(stack, g)
    BY <1>1, <2>1, <2>3
  <2>4. CASE stack # <<>> /\ (stack' = Below \/ stack' = Append(Below, g))
    <3> DEFINE m == Len(stack) - 1
    <3>1. /\ Below \in Seq(FrameType) /\ m \in Nat /\ m <= Len(stack) /\ Len(Below) = m
          /\ \A j \in 1 .. m : Below[j] = stack[j]
      BY <2>1, <2>4, Innermost DEF Below
    <3> HIDE DEF m
    <3>2. CASE stack' = Below
      BY <1>1, <2>1, <3>1, <3>2
    <3>3. CASE stack' = Append(Below, g)
      <4>1. i \in 1 .. m + 1
        BY <3>1, <3>3
      <4>2. CASE i = m + 1
        BY <1>1, <3>1, <3>3, <4>2
      <4>3. CASE i \in 1 .. m
        <5>1. stack'[i] = Below[i]
          BY <3>1, <3>3, <4>3
        <5> QED BY <1>1, <2>1, <3>1, <4>3, <5>1
      <4> QED BY <3>1, <4>1, <4>2, <4>3
    <3> QED BY <2>4, <3>2, <3>3
  <2> QED BY <2>2, <2>3, <2>4
<1> USE DEF Searching, ItemsGathered, Yields, Item
<1>3. Searching(f)'
  <2>1. CASE f = g
    BY <2>1
  <2>2. ASSUME NEW j \in DOMAIN stack, f = stack[j] PROVE Searching(f)'
    BY <2>2 DEF QueriesSearch
  <2> QED BY <1>2, <2>1, <2>2
<1> QED BY <1>1, <1>3

\* The searches of queries and their answers stay true.
LEMMA AnswersKept ==
  ASSUME Inv, FlagsTell, QueriesSearch, AnswersAreTrue, [Next]_vars
  PROVE  QueriesSearch' /\ AnswersAreTrue'
<1>1. TypeOK /\ KeepsItsTree /\ QueriesRun
  BY DEF Inv
<1>2. answer' = None => AnswersAreTrue'
  BY DEF AnswersAreTrue
<1>3. ASSUME NEW g, Searching(g), query' = query PROVE Searching(g)'
  BY <1>3 DEF Searching, ItemsGathered, Yields, Item
<1>4. ASSUME NEW g, g.fn \notin Queries PROVE Searching(g)'
  BY <1>4 DEF Searching
<1>5. PICK none : none.fn \notin Queries
  <2>1. [fn |-> "parse"].fn \notin Queries
    BY DEF Queries
  <2> QED BY <2>1
<1>6. CASE Other
  <2>1. query' = query \/ \A i \in DOMAIN stack : stack[i].fn \notin Queries
    BY <1>1, <1>6, SearchedUnchanged DEF Other
  <2>2. QueriesSearch'
    BY <1>1, <1>4, <1>5, <1>6, <2>1, FramesSearch DEF Other
  <2> QED BY <1>2, <1>6, <2>2 DEF Other
<1>7. CASE TextReturns \/ TextFails
  <2>1. /\ stack # <<>> /\ query' = query
        /\ \/ \E g : Searching(g) /\ stack' = Append(Below, g) /\ answer' = None
           \/ stack' = Below /\ (answer' = None \/ AnswersAreTrue')
    BY <1>1, <1>7, TextDecides
  <2>2. QueriesSearch'
    BY <1>1, <1>3, <1>4, <1>5, <2>1, FramesSearch
  <2> QED BY <1>2, <2>1, <2>2
<1>8. ASSUME NEW fn \in Queries, NEW h \in Handle, NEW truth \in SUBSET Candidate,
             RunQuery(fn, h, truth)
      PROVE  QueriesSearch' /\ AnswersAreTrue'
  <2>1. /\ query' = query
        /\ \/ \E g : Searching(g) /\ stack' = Append(stack, g) /\ answer' = None
           \/ stack' = stack /\ (answer' = None \/ AnswersAreTrue')
    BY <1>1, <1>8, QueryBegins
  <2>2. QueriesSearch'
    BY <1>1, <1>3, <1>4, <1>5, <2>1, FramesSearch
  <2> QED BY <1>2, <2>1, <2>2
<1>9. CASE UNCHANGED vars
  <2>1. query' = query /\ stack' = stack /\ answer' = answer
    BY <1>9 DEF vars
  <2>2. QueriesSearch'
    BY <1>1, <1>3, <1>4, <1>5, <2>1, FramesSearch
  <2>3. AnswersAreTrue'
    BY <2>1 DEF AnswersAreTrue, Yields
  <2> QED BY <2>2, <2>3
<1> QED BY <1>1, <1>6, <1>7, <1>8, <1>9, QuerySteps

\* What a query returned is what it found with the true texts, complete up to
\* the first failure of the text function and in order, for any candidates and
\* captures and whatever Lisp calls while the text function runs
\* (src/query.rs:157-230).
THEOREM AnswersCorrect == ~ResetElsewhere /\ Spec => []AnswersAreTrue
<1> SUFFICES ASSUME ~ResetElsewhere PROVE Spec => []AnswersAreTrue
  OBVIOUS
<1>1. Init => QueriesSearch /\ AnswersAreTrue
  BY DEF Init, QueriesSearch, AnswersAreTrue
<1>2. Inv /\ FlagsTell /\ QueriesSearch /\ AnswersAreTrue /\ [Next]_vars
        => QueriesSearch' /\ AnswersAreTrue'
  BY AnswersKept
<1>3. ~ResetElsewhere /\ Spec => []Inv
  BY Invariant
<1>4. ~ResetElsewhere /\ Spec => []FlagsTell
  BY FlagsCorrect
<1> QED BY <1>1, <1>2, <1>3, <1>4, PTL DEF Spec
-----------------------------------------------------------------------------
(* What Lisp can do meanwhile. *)

Suspended(fns) == {i \in DOMAIN stack : stack[i].fn \in fns}

\* A parser parses one text at a time, and has a language; a query cursor is
\* in one search.
OneAtATime ==
  /\ \A i, j \in Suspended({"parse"}) : i = j
  /\ \A i, j \in Suspended(Queries) : i = j
  /\ Suspended({"parse"}) # {} => parser # None
  /\ Suspended(Queries) # {} => query # None

\* No callback changes the language of a parse, or the captures of a search.
Undisturbed ==
  /\ Suspended({"parse"}) # {} => parser' = parser
  /\ Suspended(Queries) # {} => query' = query

\* A suspended function that writes an object is alone with it.
LEMMA WritesAlone ==
  ASSUME TypeOK, FlagsTell, NEW c \in Cell, NEW i \in Writers(c)
  PROVE  ~CanWrite(c) /\ \A j \in Writers(c) : i = j
<1>1. Cardinality(Writers(c)) = 1 /\ cell[c] = -1
  BY DEF FlagsTell
<1>2. IsFiniteSet(Writers(c))
  BY HoldersFinite
<1> QED BY <1>1, <1>2, FS_Singleton DEF CanWrite
\* The suspended parses and searches are those that write the parser and the
\* query cursor.
LEMMA SuspendedWrite ==
  ASSUME TypeOK
  PROVE  Suspended({"parse"}) = Writers("parser") /\ Suspended(Queries) = Writers("queryCursor")
<1>1. ASSUME NEW i \in DOMAIN stack
      PROVE  /\ stack[i].fn \in {"parse"} <=> "parser" \in Writes(stack[i])
             /\ stack[i].fn \in Queries <=> "queryCursor" \in Writes(stack[i])
  BY DEF Writes, Queries
<1> QED BY <1>1 DEF Suspended, Writers

\* So there is one of each at most.
LEMMA Single ==
  ASSUME TypeOK, FlagsTell
  PROVE  /\ \A i, j \in Suspended({"parse"}) : i = j
         /\ \A i, j \in Suspended(Queries) : i = j
         /\ Suspended({"parse"}) # {} => ~CanWrite("parser")
         /\ Suspended(Queries) # {} => ~CanWrite("query")
<1>1. "parser" \in Cell /\ "queryCursor" \in Cell
  BY DEF Cell
<1>2. CanWrite("query") => Suspended(Queries) = {}
  BY SearchedUnchanged DEF Suspended
<1> QED BY <1>1, <1>2, WritesAlone, SuspendedWrite

\* The functions that Lisp calls while a parse or a search is suspended leave
\* it alone: none parses with its parser or searches with its cursor, none
\* gives the parser another language (src/parser.rs:29, 84-112), none disables
\* a capture of the query (src/query.rs:120, 157-230).  A query that is made
\* meanwhile is another object, which the model does not follow then.
THEOREM CallbacksUndisturbing ==
  ~ResetElsewhere /\ Spec => []OneAtATime /\ [][Undisturbed]_vars
<1> SUFFICES ASSUME ~ResetElsewhere PROVE Spec => []OneAtATime /\ [][Undisturbed]_vars
  OBVIOUS
<1>1. Inv /\ FlagsTell /\ [Next]_vars => Undisturbed
  BY Single, ParserKept, QueryKept DEF Undisturbed, Inv
<1>2. Inv /\ FlagsTell => OneAtATime
  BY Single DEF OneAtATime, Suspended, Inv, ParsersSet, QueriesRun
<1>3. ~ResetElsewhere /\ Spec => []Inv
  BY Invariant
<1>4. ~ResetElsewhere /\ Spec => []FlagsTell
  BY FlagsCorrect
<1> QED BY <1>1, <1>2, <1>3, <1>4, PTL DEF Spec
=============================================================================
