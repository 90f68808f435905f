------------------------------ MODULE TscQuery ------------------------------
(***************************************************************************)
(* Queries: the functions of src/query.rs.                                 *)
(*                                                                         *)
(* A query has captures 1 .. Captures.  The library finds candidates       *)
(* 1 .. MaxMatches in this order, each with one capture, and asks for the  *)
(* text of a candidate to decide whether it matches; truth holds those     *)
(* that do.                                                                *)
(***************************************************************************)
EXTENDS TscNode, SequencesExt

CONSTANTS
  Captures,   \* the captures of a query
  MaxMatches, \* the candidates
  CaptureOf,  \* the capture of each candidate
  PatternOf   \* the index of its pattern

ASSUME QueryAssumption ==
  /\ Captures \in Nat \ {0} /\ MaxMatches \in Nat
  /\ CaptureOf \in [1 .. MaxMatches -> 1 .. Captures]
  /\ PatternOf \in [1 .. MaxMatches -> Nat]

Candidate == 1 .. MaxMatches
Capture == 1 .. Captures
Query == [tags : [Capture -> Capture \cup {None}], disabled : SUBSET Capture]

ASSUME NoQueryAssumption == None \notin Query

-----------------------------------------------------------------------------

\* Mutant: a capture without a tag is left out of the tags.
TaggedSome(f, tag) == IF tag = None THEN f.kept ELSE Append(f.kept, tag)

\* capture_tags holds a tag of each capture, nil for those that are disabled.
Tagged(f, tag) == Append(f.kept, tag)

\* _make_query: the source may be invalid; otherwise the tag assigner is
\* called for each capture.
MakeQuery(l) ==
  /\ l \in loaded
  /\ Begin(Frame("make_query", None)) \/ Plain("failed")

\* The tag assigner has returned a tag, that of the capture or nil; after the
\* last the query is made.  Lisp goes on with it, unless a suspended function
\* reads the query it has, or with that one.  (One query is followed.)
TagReturns(tag) ==
  /\ Running({"make_query"})
  /\ LET f == [Top EXCEPT !.at = @ + 1, !.kept = Tagged(Top, tag),
                          !.truth = IF tag = None THEN @ \cup {Top.at + 1} ELSE @]
     IN IF f.at < Captures
        THEN Continue(f)
        ELSE /\ \/ cell["query"] = 0 /\ query' = [tags |-> f.kept, disabled |-> f.truth]
                \/ UNCHANGED query
             /\ End
             /\ Result("ok")
             /\ UNCHANGED <<loaded, parser, tree, obj>>

TagFails == Running({"make_query"}) /\ EndPlain("failed")

\* The functions that return what a query is made of.
QueryRead ==
  /\ query # None
  /\ IF CanRead("query") THEN Plain("ok") ELSE Refused

\* _disable_capture
DisableCapture(c) ==
  /\ query # None
  /\ IF CanWrite("query")
     THEN /\ query' = [query EXCEPT !.disabled = @ \cup {c}]
          /\ Result("ok")
          /\ UNCHANGED <<loaded, parser, tree, obj, cell, stack>>
     ELSE Refused

\* _query_cursor_set_byte_range, _query_cursor_set_point_range
SetRange == IF CanWrite("queryCursor") THEN Plain("ok") ELSE Refused

-----------------------------------------------------------------------------
(* _query_cursor_matches, _query_cursor_captures, _query_cursor_captures_1 *)

\* A candidate whose capture is disabled is a match without captures.
Yields(fn, k) == fn = "matches" \/ CaptureOf[k] \notin query.disabled

\* The candidates that come after k.
After(fn, k) == {j \in Candidate : j > k /\ Yields(fn, j)}

\* The candidate that comes next, if any.
NextOf(fn, k) == {j \in After(fn, k) : \A i \in After(fn, k) : j <= i}

\* What is returned for a candidate: its tag, if its capture is not disabled.
Item(k) ==
  [match |-> k,
   tag |-> IF CaptureOf[k] \in query.disabled THEN None
           ELSE query.tags[CaptureOf[k]]]

\* _query_cursor_captures_1 sorts by pattern, and the sort is not stable.
Ordered(fn, items) ==
  IF fn # "captures_1" THEN {items}
  ELSE {s \in SetToSeqs(ToSet(items)) :
          \A i, j \in DOMAIN s : i < j => PatternOf[s[i].match] <= PatternOf[s[j].match]}

\* The items are returned.
Answers(f, items) ==
  /\ outcome' = "ok"
  /\ \E s \in Ordered(f.fn, items) :
       answer' = [fn |-> f.fn, items |-> s, truth |-> f.truth, failed |-> f.failed]

RunQuery(fn, h, truth) ==
  /\ fn \in Queries
  /\ query # None
  /\ Is("node", h)
  /\ IF ~CanWrite("queryCursor") \/ ~CanRead("query") \/ ~CanRead(h) THEN Refused
     ELSE IF ~CanRead(obj[h].tree) THEN Panics
     ELSE LET f == [Frame(fn, h) EXCEPT !.truth = truth]
          IN \/ After(fn, 0) = {} /\ Answers(f, <<>>) /\ UNCHANGED state
             \/ \E j \in NextOf(fn, 0) : Begin([f EXCEPT !.at = j])

\* Mutant: an error of the text function is looked for only at the end.
PendingNever(f) == FALSE

\* The error of the text function is looked for when there is a match.
Pending(f) == f.failed # 0

\* The search goes on: the next candidate's text is asked for, or the items
\* are returned, even if an error is pending.
Search(f) ==
  \/ \E j \in NextOf(f.fn, f.at) : Continue([f EXCEPT !.at = j])
  \/ /\ After(f.fn, f.at) = {}
     /\ Answers(f, f.items)
     /\ End
     /\ UNCHANGED <<loaded, parser, query, tree, obj>>

\* The text of the candidate has been seen, and says whether it matches.
Decide(f, matches) ==
  IF ~matches THEN Search(f)
  ELSE IF Pending(f) THEN EndPlain("failed")
  ELSE Search([f EXCEPT !.items = Append(@, Item(f.at))])

TextReturns == Running(Queries) /\ Decide(Top, Top.at \in Top.truth)

\* The text function has failed: the candidate is decided by an empty text.
TextFails ==
  /\ Running(Queries)
  /\ LET f == [Top EXCEPT !.failed = IF @ = 0 THEN Top.at ELSE @]
     IN Decide(f, TRUE) \/ Decide(f, FALSE)
=============================================================================
