------------------------------ MODULE TscTypes ------------------------------
(***************************************************************************)
(* Positions as the Rust module of tsc converts them between Lisp and the  *)
(* tree-sitter library (src/types.rs), and the input function of tsc.el,   *)
(* which answers a byte position with a chunk of the buffer.               *)
(*                                                                         *)
(* The buffer is a sequence of bytes, each given as the number of the      *)
(* character it belongs to: <<1, 2, 2, 3>> is a character of one byte, one *)
(* of two bytes and one of one.                                            *)
(***************************************************************************)
EXTENDS Integers, Sequences, FiniteSets

CONSTANTS
  Text,      \* the buffer
  ChunkSize, \* tsc--buffer-input-chunk-size
  UsizeSize  \* how many values a usize has

Chars == IF Text = <<>> THEN 0 ELSE Text[Len(Text)]

\* How many bytes come before a character.
ByteStart(char) == Cardinality({b \in DOMAIN Text : Text[b] < char})

\* Every character has a byte, and the bytes of the characters before one are
\* the first bytes of the buffer.
ASSUME TextAssumption ==
  /\ Text \in Seq(Nat \ {0})
  /\ \A char \in 1 .. Chars : \E b \in DOMAIN Text : Text[b] = char
  /\ \A char \in 1 .. Chars + 1 :
       {b \in DOMAIN Text : Text[b] < char} = 1 .. ByteStart(char)

\* A chunk holds at least the widest character, and a usize every position.
ASSUME SizeAssumption ==
  /\ ChunkSize \in Nat \ {0}
  /\ \A b \in DOMAIN Text : b + ChunkSize \in DOMAIN Text => Text[b + ChunkSize] # Text[b]
  /\ UsizeSize \in Nat
  /\ Len(Text) + ChunkSize + 1 < UsizeSize

\* Mutant: the 0-based offset is handed to Lisp as it is.
BytePosSame(offset) == offset

\* Emacs counts bytes from 1.  An offset of the library never is the largest
\* usize; a position 0 from Lisp wraps round in a release build.
BytePos(offset) == (offset + 1) % UsizeSize

Offset(bytepos) == (bytepos - 1) % UsizeSize

\* A range is a vector of positions; points are counted alike, from line 1.
LispRange(vector) == [start |-> Offset(vector[1]), end |-> Offset(vector[2])]

-----------------------------------------------------------------------------

WholeText == [i \in 1 .. Chars |-> i]

\* The position of the character that a byte belongs to, point-max for the
\* byte after the last, and nothing beyond it.
ByteToPosition(bytepos) ==
  IF bytepos \in 1 .. Len(Text) THEN Text[bytepos] ELSE Chars + 1

AtLeastOne(bytepos) == IF bytepos < 1 THEN 1 ELSE bytepos

\* The characters from position beg up to position end.
Substring(beg, end) == SubSeq(WholeText, beg, end - 1)

\* tsc--buffer-input: a chunk may end in the middle of a character, which is
\* then left to the next one.
BufferInput(bytepos) ==
  LET begByte == AtLeastOne(bytepos)
  IN Substring(ByteToPosition(begByte), ByteToPosition(begByte + ChunkSize))

\* The number of bytes of a chunk.
ByteLength(chunk) ==
  Cardinality({b \in DOMAIN Text : \E i \in DOMAIN chunk : chunk[i] = Text[b]})
=============================================================================
