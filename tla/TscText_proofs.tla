--------------------------- MODULE TscText_proofs ---------------------------
(***************************************************************************)
(* A parse gathers the whole text and comes to its end, and positions keep *)
(* their meaning between Lisp and the library: theorems about Tsc for      *)
(* every text, every width of its characters, every size of the chunks     *)
(* that holds the widest of them and every width of an integer.            *)
(***************************************************************************)
EXTENDS Tsc_proofs

-----------------------------------------------------------------------------
(* Bytes and characters. *)

\* The bytes before a character are the first of the buffer.
LEMMA StartFacts ==
  ASSUME NEW char \in 1 .. Chars + 1
  PROVE  /\ ByteStart(char) \in Nat /\ ByteStart(char) <= Len(Text)
         /\ \A b \in DOMAIN Text : Text[b] < char <=> b <= ByteStart(char)
<1>1. Len(Text) \in Nat /\ DOMAIN Text = 1 .. Len(Text)
  BY TextAssumption
<1> DEFINE before == {b \in DOMAIN Text : Text[b] < char}
           n == ByteStart(char)
<1>2. before = 1 .. n
  BY TextAssumption
<1>3. IsFiniteSet(DOMAIN Text) /\ Cardinality(DOMAIN Text) = Len(Text)
  <2>1. IsFiniteSet(1 .. Len(Text))
        /\ Cardinality(1 .. Len(Text)) = IF 1 > Len(Text) THEN 0 ELSE Len(Text) - 1 + 1
    <3>1. 1 \in Int /\ Len(Text) \in Int
      BY <1>1
    <3> QED BY <3>1, FS_Interval, Zenon
  <2> QED BY <1>1, <2>1
<1>4. IsFiniteSet(before) /\ Cardinality(before) <= Cardinality(DOMAIN Text)
  BY <1>3, FS_Subset
<1>5. n \in Nat /\ n <= Len(Text)
  BY <1>3, <1>4, FS_CardinalityType DEF ByteStart
<1> HIDE DEF n
<1>6. \A b \in DOMAIN Text : Text[b] < char <=> b <= n
  BY <1>1, <1>2, <1>5
<1> QED BY <1>5, <1>6 DEF n

\* The first byte of a character is of this character.
LEMMA FirstByte ==
  ASSUME NEW char \in 1 .. Chars
  PROVE  ByteStart(char) + 1 \in DOMAIN Text /\ Text[ByteStart(char) + 1] = char
<1>1. /\ Chars \in Nat /\ Len(Text) \in Nat /\ DOMAIN Text = 1 .. Len(Text)
      /\ \A b \in DOMAIN Text : Text[b] \in 1 .. Chars
  BY CharsFacts, TextAssumption
<1> DEFINE n == ByteStart(char)
<1>2. PICK b \in DOMAIN Text : Text[b] = char
  BY TextAssumption
<1>3. n \in Nat /\ \A c \in DOMAIN Text : Text[c] < char <=> c <= n
  BY <1>1, StartFacts
<1> HIDE DEF n
<1>4. n < b /\ n + 1 \in DOMAIN Text
  BY <1>1, <1>2, <1>3
<1> DEFINE m == Text[n + 1]
<1>5. m \in 1 .. Chars /\ m >= char
  BY <1>1, <1>3, <1>4
<1>6. ASSUME m > char PROVE FALSE
  <2> DEFINE k == ByteStart(m)
  <2>1. m \in 1 .. Chars + 1
    BY <1>1, <1>5
  <2> HIDE DEF m
  <2>2. k \in Nat /\ \A c \in DOMAIN Text : Text[c] < m <=> c <= k
    BY <2>1, StartFacts
  <2> HIDE DEF k
  <2>3. Text[b] < m
    BY <1>1, <1>2, <1>6
  <2>4. b <= k
    BY <2>2, <2>3
  <2>5. n + 1 <= k
    BY <1>1, <1>3, <1>4, <2>2, <2>4
  <2>6. Text[n + 1] < m
    BY <1>4, <2>2, <2>5
  <2> QED BY <1>5, <2>6 DEF m
<1> QED BY <1>4, <1>5, <1>6 DEF n

\* After the last character comes no byte.
LEMMA LastByte == ByteStart(Chars + 1) = Len(Text)
<1>1. /\ Chars \in Nat /\ Len(Text) \in Nat /\ DOMAIN Text = 1 .. Len(Text)
      /\ \A b \in DOMAIN Text : Text[b] \in 1 .. Chars
  BY CharsFacts, TextAssumption
<1> DEFINE n == ByteStart(Chars + 1)
<1>2. n \in Nat /\ n <= Len(Text) /\ \A b \in DOMAIN Text : Text[b] < Chars + 1 <=> b <= n
  BY <1>1, StartFacts
<1> HIDE DEF n
<1>3. CASE Len(Text) = 0
  BY <1>2, <1>3 DEF n
<1>4. CASE Len(Text) # 0
  <2>1. Len(Text) \in DOMAIN Text /\ Text[Len(Text)] < Chars + 1
    BY <1>1, <1>4
  <2> QED BY <1>1, <1>2, <2>1 DEF n
<1> QED BY <1>3, <1>4

\* From the first byte of a character on, or from the end, comes this character.
LEMMA StartToPosition ==
  ASSUME NEW char \in 1 .. Chars + 1
  PROVE  ByteToPosition(ByteStart(char) + 1) = char
<1>1. Chars \in Nat /\ Len(Text) \in Nat /\ DOMAIN Text = 1 .. Len(Text)
  BY CharsFacts, TextAssumption
<1>2. CASE char \in 1 .. Chars
  BY <1>1, <1>2, FirstByte DEF ByteToPosition
<1>3. CASE char = Chars + 1
  <2>1. ByteStart(char) + 1 \notin 1 .. Len(Text)
    BY <1>1, <1>3, LastByte
  <2> QED BY <1>3, <2>1 DEF ByteToPosition
<1> QED BY <1>1, <1>2, <1>3

-----------------------------------------------------------------------------
(* Chunks. *)

\* A parse has gathered the characters 1 .. n, and all of their bytes.
Gathered(f, n) ==
  /\ n \in 0 .. Chars
  /\ f.kept \in Seq(Nat) /\ Len(f.kept) = n
  /\ \A i \in 1 .. n : f.kept[i] = i
  /\ f.at = ByteStart(n + 1)

\* The chunk that is then asked for begins with the next character, and is
\* empty at the end only.
LEMMA NextChunk ==
  ASSUME NEW f, NEW n, Gathered(f, n)
  PROVE  \E end \in n + 1 .. Chars + 1 :
           /\ Chunk(f) \in Seq(Nat) /\ Len(Chunk(f)) = end - n - 1
           /\ \A i \in 1 .. end - n - 1 : Chunk(f)[i] = n + i
           /\ n < Chars => end > n + 1
<1>1. Chars \in Nat /\ Len(Text) \in Nat /\ DOMAIN Text = 1 .. Len(Text) /\ ChunkSize \in Nat \ {0}
  BY CharsFacts, TextAssumption, SizeAssumption
<1>2. n \in 0 .. Chars /\ n + 1 \in 1 .. Chars + 1 /\ f.at = ByteStart(n + 1)
  BY <1>1 DEF Gathered
<1>3. /\ f.at \in Nat /\ f.at <= Len(Text)
      /\ \A b \in DOMAIN Text : Text[b] < n + 1 <=> b <= f.at
  BY <1>2, StartFacts
<1>4. BytePos(f.at) = f.at + 1
  <2>1. f.at + 1 \in 0 .. UsizeSize - 1 /\ UsizeSize \in Nat
    BY <1>1, <1>3, SizeAssumption
  <2> QED BY <2>1 DEF BytePos
<1>5. AtLeastOne(BytePos(f.at)) = f.at + 1
  BY <1>3, <1>4 DEF AtLeastOne
<1> DEFINE last == f.at + 1 + ChunkSize
           beg == ByteToPosition(f.at + 1)
           end == ByteToPosition(last)
<1>6. beg = n + 1
  BY <1>2, StartToPosition
<1>7. /\ Chunk(f) \in Seq(Nat)
      /\ end \in 1 .. Chars + 1
      /\ Len(Chunk(f)) = IF beg <= end - 1 THEN end - beg ELSE 0
      /\ \A i \in 1 .. end - beg : Chunk(f)[i] = beg + i - 1
  BY <1>3, <1>5, ChunkFacts
<1> HIDE DEF beg
<1>8. end >= n + 1 /\ (n < Chars => end > n + 1)
  <2>1. CASE last \in 1 .. Len(Text)
    <3>1. end = Text[last]
      BY <2>1 DEF ByteToPosition
    <3>2. ~(last <= f.at) /\ last \in DOMAIN Text
      BY <1>1, <1>3, <2>1
    <3>3. end >= n + 1
      BY <1>2, <1>3, <1>7, <3>1, <3>2
    <3>4. f.at + 1 \in DOMAIN Text /\ f.at + 1 + ChunkSize \in DOMAIN Text
      BY <1>1, <1>3, <2>1
    <3>5. Text[f.at + 1] # Text[last]
      BY <3>4, SizeAssumption
    <3>6. n < Chars => Text[f.at + 1] = n + 1
      <4>1. n < Chars => n + 1 \in 1 .. Chars
        BY <1>1, <1>2
      <4> QED BY <1>2, <4>1, FirstByte
    <3> HIDE DEF last, end
    <3> QED BY <1>2, <1>7, <3>1, <3>3, <3>5, <3>6
  <2>2. CASE last \notin 1 .. Len(Text)
    <3>1. end = Chars + 1
      BY <2>2 DEF ByteToPosition
    <3> QED BY <1>1, <1>2, <3>1
  <2> QED BY <2>1, <2>2
<1> HIDE DEF end
<1>9. end \in n + 1 .. Chars + 1
  BY <1>1, <1>2, <1>7, <1>8
<1>10. Len(Chunk(f)) = end - n - 1
  BY <1>1, <1>2, <1>6, <1>7, <1>9
<1>11. \A i \in 1 .. end - n - 1 : Chunk(f)[i] = n + i
  BY <1>1, <1>2, <1>6, <1>7, <1>9
<1> QED BY <1>7, <1>8, <1>9, <1>10, <1>11

\* The bytes of the chunk are those from its first character to its last.
LEMMA ChunkBytes ==
  ASSUME NEW f, NEW n, Gathered(f, n), NEW end \in n + 1 .. Chars + 1,
         Len(Chunk(f)) = end - n - 1, Chunk(f) \in Seq(Nat),
         \A i \in 1 .. end - n - 1 : Chunk(f)[i] = n + i
  PROVE  f.at + ByteLength(Chunk(f)) = ByteStart(end)
<1>1. /\ Chars \in Nat /\ Len(Text) \in Nat /\ DOMAIN Text = 1 .. Len(Text)
      /\ \A b \in DOMAIN Text : Text[b] \in 1 .. Chars
  BY CharsFacts, TextAssumption
<1>2. n \in 0 .. Chars /\ n + 1 \in 1 .. Chars + 1 /\ f.at = ByteStart(n + 1) /\ end \in 1 .. Chars + 1
  BY <1>1 DEF Gathered
<1> DEFINE m == ByteStart(end)
           bytes == {b \in DOMAIN Text : \E i \in DOMAIN Chunk(f) : Chunk(f)[i] = Text[b]}
<1>3. /\ f.at \in Nat /\ f.at <= Len(Text)
      /\ \A b \in DOMAIN Text : Text[b] < n + 1 <=> b <= f.at
  BY <1>2, StartFacts
<1>4. /\ m \in Nat /\ m <= Len(Text)
      /\ \A b \in DOMAIN Text : Text[b] < end <=> b <= m
  BY <1>2, StartFacts
<1>5. DOMAIN Chunk(f) = 1 .. end - n - 1
  BY <1>1, <1>2
<1>6. ASSUME NEW b \in DOMAIN Text
      PROVE  (\E i \in DOMAIN Chunk(f) : Chunk(f)[i] = Text[b]) <=> (n + 1 <= Text[b] /\ Text[b] < end)
  <2>1. Text[b] \in Nat
    BY <1>1
  <2>2. ASSUME n + 1 <= Text[b], Text[b] < end
        PROVE  \E i \in DOMAIN Chunk(f) : Chunk(f)[i] = Text[b]
    <3>1. Text[b] - n \in 1 .. end - n - 1
      BY <1>1, <1>2, <2>1, <2>2
    <3>2. Chunk(f)[Text[b] - n] = n + (Text[b] - n)
      BY <3>1
    <3>3. n + (Text[b] - n) = Text[b]
      BY <1>2, <2>1
    <3> QED BY <1>5, <3>1, <3>2, <3>3
  <2>3. ASSUME NEW i \in DOMAIN Chunk(f), Chunk(f)[i] = Text[b]
        PROVE  n + 1 <= Text[b] /\ Text[b] < end
    <3>1. i \in 1 .. end - n - 1 /\ Text[b] = n + i
      BY <1>5, <2>3
    <3> QED BY <1>1, <1>2, <3>1
  <2> QED BY <2>2, <2>3
<1> HIDE DEF m
<1>7. f.at <= m
  <2>1. CASE f.at = 0
    BY <1>4, <2>1
  <2>2. CASE f.at # 0
    <3>1. f.at \in DOMAIN Text /\ Text[f.at] < n + 1
      BY <1>1, <1>3, <2>2
    <3>2. Text[f.at] < end
      BY <1>1, <1>2, <3>1
    <3> QED BY <1>4, <3>1, <3>2
  <2> QED BY <2>1, <2>2
<1>8. \A b \in DOMAIN Text : b \in bytes <=> f.at < b /\ b <= m
  <2> TAKE b \in DOMAIN Text
  <2>1. b \in bytes <=> (n + 1 <= Text[b] /\ Text[b] < end)
    BY <1>6
  <2>2. n + 1 <= Text[b] <=> ~(Text[b] < n + 1)
    BY <1>1, <1>2
  <2>3. ~(b <= f.at) <=> f.at < b
    BY <1>1, <1>3
  <2> HIDE DEF bytes
  <2> QED BY <1>3, <1>4, <2>1, <2>2, <2>3
<1> DEFINE a == f.at + 1
<1>9. bytes = a .. m
  <2>1. bytes \subseteq DOMAIN Text
    OBVIOUS
  <2> HIDE DEF bytes
  <2>2. ASSUME NEW b \in bytes PROVE b \in a .. m
    BY <1>1, <1>3, <1>4, <1>8, <2>1, <2>2
  <2>3. ASSUME NEW b \in a .. m PROVE b \in bytes
    <3>1. b \in Int /\ f.at < b /\ b <= m /\ b \in DOMAIN Text
      BY <1>1, <1>3, <1>4, <2>3
    <3> QED BY <1>8, <3>1
  <2> QED BY <2>2, <2>3
<1>10. Cardinality(a .. m) = IF a > m THEN 0 ELSE m - a + 1
  <2>1. a \in Int /\ m \in Int
    BY <1>3, <1>4
  <2> HIDE DEF a
  <2> QED BY <2>1, FS_Interval, Zenon
<1>11. ByteLength(Chunk(f)) = Cardinality(bytes)
  BY DEF ByteLength
<1> HIDE DEF bytes
<1>12. ByteLength(Chunk(f)) = m - f.at
  BY <1>3, <1>4, <1>7, <1>9, <1>10, <1>11
<1> QED BY <1>3, <1>4, <1>12 DEF m
\* A parse that asked for a chunk and goes on has gathered it.
LEMMA ChunkGathered ==
  ASSUME NEW f, NEW g, NEW n, Gathered(f, n),
         g.at = f.at + ByteLength(Chunk(f)), g.kept = f.kept \o Chunk(f)
  PROVE  \E m \in 0 .. Chars : Gathered(g, m)
<1>1. PICK end \in n + 1 .. Chars + 1 :
           /\ Chunk(f) \in Seq(Nat) /\ Len(Chunk(f)) = end - n - 1
           /\ \A i \in 1 .. end - n - 1 : Chunk(f)[i] = n + i
  BY NextChunk
<1>2. Chars \in Nat /\ n \in 0 .. Chars
  BY CharsFacts DEF Gathered
<1>3. g.at = ByteStart(end)
  BY <1>1, ChunkBytes
<1> DEFINE chunk == Chunk(f)
           m == end - 1
           kept == f.kept \o chunk
<1>4. f.kept \in Seq(Nat) /\ Len(f.kept) = n /\ \A i \in 1 .. n : f.kept[i] = i
  BY DEF Gathered
<1>5. m \in 0 .. Chars /\ m + 1 = end /\ n <= m
  BY <1>1, <1>2
<1>6. chunk \in Seq(Nat) /\ Len(chunk) = m - n /\ \A i \in 1 .. m - n : chunk[i] = n + i
  <2>1. end - n - 1 = m - n
    BY <1>1, <1>2
  <2> QED BY <1>1, <2>1
<1> HIDE DEF m, chunk
<1>7. /\ kept \in Seq(Nat) /\ Len(kept) = Len(f.kept) + Len(chunk)
      /\ \A i \in 1 .. Len(f.kept) + Len(chunk) :
           kept[i] = IF i <= Len(f.kept) THEN f.kept[i] ELSE chunk[i - Len(f.kept)]
  <2> DEFINE old == f.kept
  <2>1. old \in Seq(Nat)
    BY <1>4
  <2> HIDE DEF old
  <2>2. /\ old \o chunk \in Seq(Nat) /\ Len(old \o chunk) = Len(old) + Len(chunk)
        /\ \A i \in 1 .. Len(old) + Len(chunk) :
             (old \o chunk)[i] = IF i <= Len(old) THEN old[i] ELSE chunk[i - Len(old)]
    BY <1>6, <2>1, ConcatProperties, Zenon
  <2> QED BY <2>2 DEF old
<1> HIDE DEF kept
<1>8. Len(kept) = m
  BY <1>2, <1>4, <1>5, <1>6, <1>7
<1>9. ASSUME NEW i \in 1 .. m PROVE kept[i] = i
  <2>1. kept[i] = IF i <= n THEN f.kept[i] ELSE chunk[i - n]
    BY <1>2, <1>4, <1>5, <1>6, <1>7
  <2>2. CASE i <= n
    BY <1>2, <1>4, <1>5, <2>1, <2>2
  <2>3. CASE ~(i <= n)
    <3>1. i - n \in 1 .. m - n /\ n + (i - n) = i
      BY <1>2, <1>5, <2>3
    <3> QED BY <1>6, <2>1, <2>3, <3>1
  <2> QED BY <2>2, <2>3
<1>10. Gathered(g, m)
  BY <1>3, <1>5, <1>7, <1>8, <1>9 DEF Gathered, kept, chunk
<1> QED BY <1>5, <1>10

\* A parse that was given an empty chunk has gathered the whole text.
LEMMA AllGathered ==
  ASSUME NEW f, NEW n, Gathered(f, n), Chunk(f) = <<>>
  PROVE  f.kept = WholeText
<1>1. Chars \in Nat /\ n \in 0 .. Chars /\ f.kept \in Seq(Nat) /\ Len(f.kept) = n
      /\ \A i \in 1 .. n : f.kept[i] = i
  BY CharsFacts DEF Gathered
<1>2. PICK end \in n + 1 .. Chars + 1 : Len(Chunk(f)) = end - n - 1 /\ (n < Chars => end > n + 1)
  BY NextChunk
<1>3. end - n - 1 = 0
  BY <1>2
<1>4. n = Chars
  BY <1>1, <1>2, <1>3
<1>5. WholeText \in Seq(Nat) /\ Len(WholeText) = Chars /\ \A i \in 1 .. Chars : WholeText[i] = i
  BY <1>1 DEF WholeText
<1> QED BY <1>1, <1>4, <1>5, SeqEqual

-----------------------------------------------------------------------------
(* The invariant. *)

ParsesGather ==
  \A i \in DOMAIN stack : stack[i].fn = "parse" => \E n \in 0 .. Chars : Gathered(stack[i], n)

\* Each move of the stack keeps what the parses have gathered.
LEMMA ParsesKept ==
  ASSUME TypeOK, Moves, ParsesGather
  PROVE  ParsesGather'
<1> DEFINE Good(f) == f.fn = "parse" => \E n \in 0 .. Chars : Gathered(f, n)
<1>1. ASSUME NEW f, Suspends(f) PROVE Good(f)
  <2>1. f.fn = "parse" => f.at = 0 /\ f.kept = <<>>
    BY <1>1 DEF Suspends
  <2>2. Chars \in Nat /\ 1 \in 1 .. Chars + 1
    BY CharsFacts
  <2>3. ByteStart(1) = 0
    <3>1. \A b \in DOMAIN Text : ~(Text[b] < 1)
      BY TextAssumption
    <3>2. {b \in DOMAIN Text : Text[b] < 1} = {}
      BY <3>1
    <3> QED BY <3>2, FS_EmptySet DEF ByteStart
  <2>4. <<>> \in Seq(Nat) /\ Len(<<>>) = 0
    OBVIOUS
  <2>5. 0 \in 0 .. Chars /\ 0 + 1 = 1 /\ 1 .. 0 = {}
    BY <2>2
  <2>6. f.fn = "parse" => Gathered(f, 0)
    BY <2>1, <2>3, <2>4, <2>5 DEF Gathered
  <2> QED BY <2>5, <2>6
<1>2. ASSUME NEW f, Resumes(f), Good(Top) PROVE Good(f)
  <2> SUFFICES ASSUME f.fn = "parse" PROVE \E n \in 0 .. Chars : Gathered(f, n)
    OBVIOUS
  <2>1. GoesOn(f) /\ Top.fn = "parse"
    BY <1>2 DEF Resumes
  <2>2. PICK n \in 0 .. Chars : Gathered(Top, n)
    BY <1>2, <2>1
  <2>3. CASE f.at = Top.at /\ f.kept = Top.kept
    BY <2>2, <2>3 DEF Gathered
  <2>4. CASE f.at = Top.at + ByteLength(Chunk(Top)) /\ f.kept = Top.kept \o Chunk(Top)
    BY <2>2, <2>4, ChunkGathered
  <2> QED BY <2>1, <2>3, <2>4 DEF GoesOn
<1>3. \A i \in DOMAIN stack' : Good(stack'[i])
  <2> TAKE i \in DOMAIN stack'
  <2>1. i \in DOMAIN stack => Good(stack[i])
    BY DEF ParsesGather
  <2> HIDE DEF Good
  <2> QED BY <1>1, <1>2, <2>1, StackSteps
<1> QED BY <1>3 DEF ParsesGather

\* A tree that a step makes has the whole text.
LEMMA WholeKept ==
  ASSUME Inv, ParsesGather, TreesAreWhole, Effects
  PROVE  TreesAreWhole'
<1>1. tree \in [Tree -> [lang : loaded, edits : 0 .. MaxEdits, text : Seq(Nat)] \cup {None}]
  BY DEF Inv, TypeOK
<1>2. CASE UNCHANGED tree
  BY <1>2 DEF TreesAreWhole
<1>3. CASE NewTree
  <2>1. PICK text : /\ MakeTree(parser, text)
                    /\ \/ parser # None /\ text = WholeText
                       \/ Running({"parse"}) /\ text = Top.kept /\ Chunk(Top) = <<>>
    BY <1>3 DEF NewTree
  <2>2. text = WholeText
    <3>1. CASE Running({"parse"}) /\ text = Top.kept /\ Chunk(Top) = <<>>
      <4>1. Top.fn = "parse" /\ Len(stack) \in DOMAIN stack /\ Top = stack[Len(stack)]
        BY <3>1, TopFacts DEF Running, Inv
      <4>2. PICK n \in 0 .. Chars : Gathered(Top, n)
        BY <4>1 DEF ParsesGather
      <4> QED BY <3>1, <4>2, AllGathered
    <3> QED BY <2>1, <3>1
  <2>3. PICK t \in FreeTrees :
          tree' = [tree EXCEPT ![t] = [lang |-> parser, edits |-> 0, text |-> text]]
    BY <2>1 DEF MakeTree
  <2>4. t \in Tree
    BY DEF FreeTrees
  <2> QED BY <1>1, <2>2, <2>3, <2>4 DEF TreesAreWhole
<1>4. CASE Edited
  <2>1. PICK h \in Handle : EditTree(h) /\ Editable(obj[h].tree)
    BY <1>4 DEF Edited
  <2> DEFINE t == obj[h].tree
  <2>2. t \in Tree /\ tree[t] # None /\ tree' = [tree EXCEPT ![t].edits = @ + 1]
        /\ tree[t] \in [lang : loaded, edits : 0 .. MaxEdits, text : Seq(Nat)]
    BY <2>1, ObjectFacts DEF EditTree, Is, Inv
  <2> HIDE DEF t
  <2>3. tree'[t].text = tree[t].text /\ \A u \in Tree : u # t => tree'[u] = tree[u]
    BY <1>1, <2>2
  <2> QED BY <2>2, <2>3 DEF TreesAreWhole
<1>5. CASE \E h \in Handle : Collect(h)
  <2>1. \A t \in Tree : tree'[t] = tree[t] \/ tree'[t] = None
    BY <1>5 DEF Collect
  <2> QED BY <2>1 DEF TreesAreWhole
<1> QED BY <1>2, <1>3, <1>4, <1>5 DEF Effects, NewObject, Reset

\* What the parses have gathered, at every moment.
LEMMA AlwaysGather == ~ResetElsewhere /\ Spec => []ParsesGather
<1> SUFFICES ASSUME ~ResetElsewhere PROVE Spec => []ParsesGather
  OBVIOUS
<1>1. Init => ParsesGather
  BY DEF Init, ParsesGather
<1>2. Inv /\ ParsesGather /\ [Next]_vars => ParsesGather'
  BY NextMoves, ParsesKept DEF Inv
<1>3. ~ResetElsewhere /\ Spec => []Inv
  BY Invariant
<1> QED BY <1>1, <1>2, <1>3, PTL DEF Spec

\* Every tree that a parse returned was parsed from the whole text
\* (src/parser.rs:84-112, src/types.rs:97-105, tsc--buffer-input in tsc.el).
THEOREM TextsCorrect == ~ResetElsewhere /\ Spec => []TreesAreWhole
<1> SUFFICES ASSUME ~ResetElsewhere PROVE Spec => []TreesAreWhole
  OBVIOUS
<1>1. Init => TreesAreWhole
  BY DEF Init, TreesAreWhole
<1>2. Inv /\ ParsesGather /\ TreesAreWhole /\ [Next]_vars => TreesAreWhole'
  BY NextEffects, WholeKept DEF Inv
<1>3. ~ResetElsewhere /\ Spec => []Inv
  BY Invariant
<1>4. ~ResetElsewhere /\ Spec => []ParsesGather
  BY AlwaysGather
<1> QED BY <1>1, <1>2, <1>3, <1>4, PTL DEF Spec
-----------------------------------------------------------------------------
(* How a parse comes to the end. *)

\* What a parse has gone through is a part of the text.
PartsOfText == \A i \in Suspended({"parse"}) : stack[i].at \in 0 .. Len(Text)

\* When the input function returns, the parse has come further, or ends because
\* it is at the end of the text.
Advances ==
  InputReturns =>
    \/ Len(stack') = Len(stack) /\ Top.at < Top'.at
    \/ stack' = Below /\ Top.at = Len(Text)

\* A chunk that is not empty brings the parse further.
LEMMA ChunkAdvances ==
  ASSUME NEW f, NEW n, Gathered(f, n)
  PROVE  /\ f.at \in 0 .. Len(Text)
         /\ Chunk(f) = <<>> => f.at = Len(Text)
         /\ Chunk(f) # <<>> => f.at < f.at + ByteLength(Chunk(f))
<1>1. PICK end \in n + 1 .. Chars + 1 :
           /\ Chunk(f) \in Seq(Nat) /\ Len(Chunk(f)) = end - n - 1
           /\ \A i \in 1 .. end - n - 1 : Chunk(f)[i] = n + i
           /\ n < Chars => end > n + 1
  BY NextChunk
<1>2. /\ Chars \in Nat /\ n \in 0 .. Chars /\ f.at = ByteStart(n + 1)
      /\ n + 1 \in 1 .. Chars + 1 /\ end \in 1 .. Chars + 1
  BY <1>1, CharsFacts DEF Gathered
<1>3. f.at \in Nat /\ f.at <= Len(Text) /\ Len(Text) \in Nat
  BY <1>2, StartFacts, TextAssumption
<1>4. ASSUME Chunk(f) = <<>> PROVE f.at = Len(Text)
  <2>1. end - n - 1 = 0
    BY <1>1, <1>4
  <2>2. n = Chars
    BY <1>1, <1>2, <2>1
  <2> QED BY <1>2, <2>2, LastByte
<1>5. ASSUME Chunk(f) # <<>> PROVE f.at < f.at + ByteLength(Chunk(f))
  <2>1. Len(Chunk(f)) # 0
    BY <1>1, <1>5, EmptySeq
  <2>2. n + 1 < end /\ n + 1 \in 1 .. Chars
    BY <1>1, <1>2, <2>1
  <2>3. f.at + 1 \in DOMAIN Text /\ Text[f.at + 1] = n + 1
    BY <1>2, <2>2, FirstByte
  <2>4. f.at + 1 <= ByteStart(end) /\ ByteStart(end) \in Nat
    BY <1>2, <2>2, <2>3, StartFacts
  <2>5. f.at + ByteLength(Chunk(f)) = ByteStart(end)
    BY <1>1, ChunkBytes
  <2> QED BY <1>3, <2>4, <2>5
<1> QED BY <1>3, <1>4, <1>5

\* The input function returns a chunk, or the empty one.
LEMMA InputAdvances ==
  ASSUME TypeOK, ParsesGather
  PROVE  Advances
<1> SUFFICES ASSUME InputReturns
             PROVE  \/ Len(stack') = Len(stack) /\ Top.at < Top'.at
                    \/ stack' = Below /\ Top.at = Len(Text)
  BY DEF Advances
<1>1. /\ stack \in Seq(FrameType) /\ stack # <<>> /\ Top.fn = "parse"
      /\ Len(stack) \in DOMAIN stack /\ Top = stack[Len(stack)]
  BY TopFacts DEF InputReturns, Running, TypeOK, Top
<1>2. PICK n \in 0 .. Chars : Gathered(Top, n)
  BY <1>1 DEF ParsesGather
<1>3. CASE Chunk(Top) = <<>>
  <2>1. stack' = Below
    BY <1>3 DEF InputReturns, EndParse, EndPlain, End
  <2> QED BY <1>2, <1>3, <2>1, ChunkAdvances
<1>4. CASE Chunk(Top) # <<>>
  <2> DEFINE f == [Top EXCEPT !.at = @ + ByteLength(Chunk(Top)), !.kept = @ \o Chunk(Top)]
  <2>1. stack' = Append(SubSeq(stack, 1, Len(stack) - 1), f)
    BY <1>4 DEF InputReturns, Continue, Below
  <2>2. Top \in FrameType
    BY <1>1
  <2>3. f \in FrameType /\ f.at = Top.at + ByteLength(Chunk(Top))
    BY <2>2, FrameChunked, Zenon
  <2> HIDE DEF f
  <2>4. LET gs == Append(SubSeq(stack, 1, Len(stack) - 1), f)
        IN Len(gs) = Len(stack) /\ gs[Len(stack)] = f
    BY <1>1, <2>3, Replaced, Zenon
  <2>5. Len(stack') = Len(stack) /\ Top' = f
    BY <2>1, <2>4 DEF Top
  <2> QED BY <1>2, <1>4, <2>3, <2>5, ChunkAdvances
<1> QED BY <1>3, <1>4
\* A parse comes to the end: each chunk that the input function returns brings
\* it further in the text, and it ends only there, so that it needs at most as
\* many chunks as there are bytes, and the empty one (src/parser.rs:84-112,
\* tsc--buffer-input in tsc.el).
THEOREM ParsesEnd ==
  ~ResetElsewhere /\ Spec => []PartsOfText /\ [][Advances]_vars
<1> SUFFICES ASSUME ~ResetElsewhere PROVE Spec => []PartsOfText /\ [][Advances]_vars
  OBVIOUS
<1>1. ParsesGather => PartsOfText
  BY ChunkAdvances DEF ParsesGather, PartsOfText, Suspended
<1>2. Inv /\ ParsesGather => Advances
  BY InputAdvances DEF Inv
<1>3. ~ResetElsewhere /\ Spec => []Inv
  BY Invariant
<1>4. ~ResetElsewhere /\ Spec => []ParsesGather
  BY AlwaysGather
<1> QED BY <1>1, <1>2, <1>3, <1>4, PTL DEF Spec
-----------------------------------------------------------------------------
(* Positions between Lisp and the library. *)

\* A position from Lisp as the library takes it, counted from 1: 0 comes after
\* every other.
AsTaken(bytepos) == IF bytepos = 0 THEN UsizeSize ELSE bytepos

\* What the conversion of a position gives.
LEMMA OffsetTaken ==
  ASSUME NEW bytepos \in 0 .. UsizeSize - 1
  PROVE  Offset(bytepos) = AsTaken(bytepos) - 1 /\ Offset(bytepos) \in 0 .. UsizeSize - 1
<1>1. UsizeSize \in Nat /\ 0 < UsizeSize
  BY SizeAssumption, TextAssumption
<1>2. CASE bytepos = 0
  <2>1. (-1) % UsizeSize = UsizeSize - 1
    BY <1>1
  <2> QED BY <1>1, <1>2, <2>1 DEF Offset, AsTaken
<1>3. CASE bytepos # 0
  <2>1. bytepos - 1 \in 0 .. UsizeSize - 1
    BY <1>1, <1>3
  <2>2. (bytepos - 1) % UsizeSize = bytepos - 1
    BY <1>1, <2>1
  <2> QED BY <1>1, <1>3, <2>1, <2>2 DEF Offset, AsTaken
<1> QED BY <1>2, <1>3

\* Every position but 0 comes back to Lisp as it was given, and so does every
\* offset of the library but the largest usize (src/types.rs:86-97).
THEOREM PositionsComeBack ==
  /\ \A bytepos \in 1 .. UsizeSize - 1 : BytePos(Offset(bytepos)) = bytepos
  /\ \A offset \in 0 .. UsizeSize - 2 : Offset(BytePos(offset)) = offset
<1>1. UsizeSize \in Nat /\ 0 < UsizeSize
  BY SizeAssumption, TextAssumption
<1>2. ASSUME NEW offset \in 0 .. UsizeSize - 2
      PROVE  BytePos(offset) = offset + 1 /\ offset + 1 \in 1 .. UsizeSize - 1
  <2>1. offset + 1 \in 0 .. UsizeSize - 1 /\ offset + 1 \in 1 .. UsizeSize - 1
    BY <1>1, <1>2
  <2> QED BY <1>1, <2>1 DEF BytePos
<1>3. ASSUME NEW bytepos \in 1 .. UsizeSize - 1 PROVE Offset(bytepos) = bytepos - 1
  BY <1>1, OffsetTaken DEF AsTaken
<1>4. ASSUME NEW bytepos \in 1 .. UsizeSize - 1 PROVE BytePos(Offset(bytepos)) = bytepos
  <2>1. bytepos - 1 \in 0 .. UsizeSize - 2 /\ (bytepos - 1) + 1 = bytepos
    BY <1>1
  <2> QED BY <1>2, <1>3, <2>1
<1>5. ASSUME NEW offset \in 0 .. UsizeSize - 2 PROVE Offset(BytePos(offset)) = offset
  <2>1. Offset(offset + 1) = (offset + 1) - 1
    BY <1>2, <1>3
  <2> QED BY <1>1, <1>2, <2>1
<1> QED BY <1>4, <1>5

\* The library takes ranges exactly if Lisp gave them in order, where 0 stands
\* for a position after every other: a range that starts at 0 is refused unless
\* it ends there, one that ends at 0 is taken as going to the end
\* (src/types.rs:97, 137-143, src/parser.rs:132-142).
THEOREM RangesTaken ==
  ASSUME NEW vectors \in Seq((0 .. UsizeSize - 1) \X (0 .. UsizeSize - 1))
  PROVE  InOrder([i \in DOMAIN vectors |-> LispRange(vectors[i])]) <=>
           /\ \A i \in DOMAIN vectors : AsTaken(vectors[i][1]) <= AsTaken(vectors[i][2])
           /\ \A i \in 1 .. Len(vectors) - 1 :
                AsTaken(vectors[i][2]) <= AsTaken(vectors[i + 1][1])
<1> DEFINE ranges == [i \in DOMAIN vectors |-> LispRange(vectors[i])]
<1>1. UsizeSize \in Nat /\ 0 < UsizeSize /\ Len(vectors) \in Nat
      /\ DOMAIN vectors = 1 .. Len(vectors)
  BY SizeAssumption, TextAssumption
<1>2. ASSUME NEW p \in 0 .. UsizeSize - 1, NEW q \in 0 .. UsizeSize - 1
      PROVE  Offset(p) <= Offset(q) <=> AsTaken(p) <= AsTaken(q)
  <2>1. Offset(p) = AsTaken(p) - 1 /\ Offset(q) = AsTaken(q) - 1
    BY OffsetTaken
  <2>2. AsTaken(p) \in Int /\ AsTaken(q) \in Int
    BY <1>1 DEF AsTaken
  <2> QED BY <2>1, <2>2
<1>3. ASSUME NEW i \in DOMAIN vectors
      PROVE  vectors[i][1] \in 0 .. UsizeSize - 1 /\ vectors[i][2] \in 0 .. UsizeSize - 1
  <2>1. vectors[i] \in (0 .. UsizeSize - 1) \X (0 .. UsizeSize - 1)
    BY <1>1
  <2> QED BY <2>1
<1>4. /\ Len(ranges) = Len(vectors) /\ DOMAIN ranges = DOMAIN vectors
      /\ \A i \in DOMAIN vectors : /\ ranges[i].start = Offset(vectors[i][1])
                                   /\ ranges[i].end = Offset(vectors[i][2])
  BY <1>1 DEF LispRange
<1> HIDE DEF ranges
<1>5. \A i \in 1 .. Len(vectors) - 1 : i \in DOMAIN vectors /\ i + 1 \in DOMAIN vectors
  BY <1>1
<1>6. ASSUME NEW i \in DOMAIN vectors
      PROVE  ranges[i].start <= ranges[i].end <=> AsTaken(vectors[i][1]) <= AsTaken(vectors[i][2])
  <2>1. ranges[i].start = Offset(vectors[i][1]) /\ ranges[i].end = Offset(vectors[i][2])
    BY <1>4
  <2> QED BY <1>2, <1>3, <2>1
<1>7. ASSUME NEW i \in 1 .. Len(vectors) - 1
      PROVE  ranges[i].end <= ranges[i + 1].start
               <=> AsTaken(vectors[i][2]) <= AsTaken(vectors[i + 1][1])
  <2>1. i \in DOMAIN vectors /\ i + 1 \in DOMAIN vectors
    BY <1>5
  <2>2. ranges[i].end = Offset(vectors[i][2]) /\ ranges[i + 1].start = Offset(vectors[i + 1][1])
    BY <1>4, <2>1
  <2> QED BY <1>2, <1>3, <2>1, <2>2
<1>8. InOrder(ranges) <=>
        /\ \A i \in DOMAIN vectors : ranges[i].start <= ranges[i].end
        /\ \A i \in 1 .. Len(vectors) - 1 : ranges[i].end <= ranges[i + 1].start
  BY <1>4 DEF InOrder
<1> QED BY <1>6, <1>7, <1>8 DEF ranges
=============================================================================
