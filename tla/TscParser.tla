----------------------------- MODULE TscParser -----------------------------
(* The functions of src/parser.rs.                                         *)
EXTENDS TscNode

\* set_language
SetLanguage(l) ==
  /\ l \in loaded
  /\ IF CanWrite("parser")
     THEN /\ parser' = l
          /\ Result("ok")
          /\ UNCHANGED <<loaded, query, tree, obj, cell, stack>>
     ELSE Refused

\* language
ParserLanguage == IF CanRead("parser") THEN Plain("ok") ELSE Refused

\* _reset_parser
ResetParser == IF CanWrite("parser") THEN Plain("ok") ELSE Refused

\* The library takes ranges that are in order and do not overlap.
InOrder(ranges) ==
  /\ \A i \in DOMAIN ranges : ranges[i].start <= ranges[i].end
  /\ \A i \in 1 .. Len(ranges) - 1 : ranges[i].end <= ranges[i + 1].start

\* set_included_ranges
SetIncludedRanges(vectors) ==
  IF ~CanWrite("parser") THEN Refused
  ELSE IF InOrder([i \in DOMAIN vectors |-> LispRange(vectors[i])])
  THEN Plain("ok") ELSE Plain("failed")

\* Without a language the library returns no tree, which the code unwraps.
NoLanguage == Plain("unset")

\* parse_string
ParseString ==
  IF ~CanWrite("parser") THEN Refused
  ELSE IF parser = None THEN NoLanguage
  ELSE /\ MakeTree(parser, WholeText)
       /\ Result("ok")
       /\ UNCHANGED <<loaded, parser, query, cell, stack>>

\* parse_chunks, with the object of an old tree or none.
ParseChunks(h) ==
  /\ h # None => Is("tree", h)
  /\ IF ~CanWrite("parser") THEN Refused
     ELSE IF h # None /\ ~CanRead(obj[h].tree) THEN Refused
     ELSE IF parser = None THEN NoLanguage
     ELSE Begin(Frame("parse", h))

\* The parser asks for the text from this byte on.
Chunk(f) == BufferInput(BytePos(f.at))

\* The text is at its end, or seems to be: the tree is returned, or dropped
\* for the error of the input function.
EndParse(f) ==
  IF f.failed # 0 \* input_error is set
  THEN EndPlain("failed")
  ELSE /\ MakeTree(parser, f.kept)
       /\ End
       /\ Result("ok")
       /\ UNCHANGED <<loaded, parser, query>>

\* The input function has returned a chunk, the empty one at the end.
InputReturns ==
  /\ Running({"parse"})
  /\ IF Chunk(Top) = <<>>
     THEN EndParse(Top)
     ELSE Continue([Top EXCEPT !.at = @ + ByteLength(Chunk(Top)),
                               !.kept = @ \o Chunk(Top)])

\* It has signalled or thrown: the parser is given an empty chunk, and may ask
\* again or take it for the end.
InputFails ==
  /\ Running({"parse"})
  /\ LET f == [Top EXCEPT !.failed = Top.at + 1]
     IN Continue(f) \/ EndParse(f)
=============================================================================
