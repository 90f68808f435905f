------------------------ MODULE EatOutputFeed_proofs ------------------------
(***************************************************************************)
(* That the output queue keeps the promise of OutputFeed, for all          *)
(* latencies and any number of chunks, and that a terminal deleted in      *)
(* order has shown all.                                                    *)
(***************************************************************************)
EXTENDS EatOutput_proofs

-----------------------------------------------------------------------------
(* Every chunk is in one place: queued, with a running drain, or shown. *)

Held ==
  [k \in 0 .. 3 |-> IF k = 0 THEN pending
                    ELSE IF k = 3 THEN shown
                    ELSE IF k <= Len(frames) THEN frames[k].rest ELSE <<>>]

\* The i-th chunk of h[k] is one of the first n, its sequence is the k-th and
\* its place there the i-th.
Placed(h, n, where, nth, k) ==
  \A i \in 1 .. Len(h[k]) :
    h[k][i] \in 1 .. n /\ h[k][i] \in Chunk /\ where[h[k][i]] = k /\ nth[h[k][i]] = i

\* The sequences of h have no chunk in common, and none twice.
Apart(h, n) == \E where, nth : \A k \in 0 .. 3 : Placed(h, n, where, nth, k)

\* Holding less.
LEMMA ApartLess ==
  ASSUME NEW h, NEW g, NEW n, Apart(h, n),
         \A k \in 0 .. 3 : g[k] = h[k] \/ g[k] = <<>>
  PROVE  Apart(g, n)
<1>1. PICK where, nth : \A k \in 0 .. 3 : Placed(h, n, where, nth, k)
  BY DEF Apart
<1>2. ASSUME NEW k \in 0 .. 3 PROVE Placed(g, n, where, nth, k)
  <2>1. CASE g[k] = h[k]
    BY <1>1, <2>1 DEF Placed
  <2>2. CASE g[k] = <<>>
    <3>1. Len(g[k]) = 0
      BY <2>2, EmptySeq
    <3> QED BY <3>1 DEF Placed
  <2> QED BY <2>1, <2>2
<1> QED BY <1>2 DEF Apart

\* A new chunk is queued.
LEMMA ApartPush ==
  ASSUME NEW h, NEW g, NEW n \in Nat, n + 1 \in Chunk, Apart(h, n),
         h[0] \in Seq(Chunk), g[0] = <<n + 1>> \o h[0], \A k \in 1 .. 3 : g[k] = h[k]
  PROVE  Apart(g, n + 1)
<1>1. PICK where, nth : \A k \in 0 .. 3 : Placed(h, n, where, nth, k)
  BY DEF Apart
<1> DEFINE c == n + 1
           old == h[0]
           newWhere == [d \in Chunk |-> IF d = c THEN 0 ELSE where[d]]
           newNth == [d \in Chunk |-> IF d = c THEN 1
                                      ELSE IF where[d] = 0 THEN nth[d] + 1 ELSE nth[d]]
<1>2. Len(old) \in Nat /\ c \in Chunk
  BY LenProperties
<1>3. ASSUME NEW k \in 1 .. 3 PROVE Placed(g, c, newWhere, newNth, k)
  <2>1. g[k] = h[k] /\ Placed(h, n, where, nth, k)
    BY <1>1
  <2>2. ASSUME NEW i \in 1 .. Len(h[k])
        PROVE  /\ h[k][i] \in 1 .. c /\ h[k][i] \in Chunk
               /\ newWhere[h[k][i]] = k /\ newNth[h[k][i]] = i
    <3> DEFINE d == h[k][i]
    <3>1. d \in 1 .. n /\ d \in Chunk /\ where[d] = k /\ nth[d] = i
      BY <2>1 DEF Placed
    <3> HIDE DEF d
    <3>2. d # c /\ d \in 1 .. c
      BY <3>1
    <3>3. newWhere[d] = k /\ newNth[d] = i
      BY <3>1, <3>2
    <3> QED BY <3>1, <3>2, <3>3 DEF d
  <2> QED BY <2>1, <2>2 DEF Placed
<1>4. Placed(g, c, newWhere, newNth, 0)
  <2>1. /\ Len(g[0]) = Len(old) + 1
        /\ g[0][1] = c
        /\ \A i \in 2 .. Len(old) + 1 : g[0][i] = old[i - 1]
    <3>1. <<c>> \in Seq(Chunk) /\ Len(<<c>>) = 1 /\ <<c>>[1] = c /\ old \in Seq(Chunk)
      BY <1>2
    <3> DEFINE new == <<c>>
    <3>2. new \in Seq(Chunk) /\ Len(new) = 1 /\ new[1] = c /\ old \in Seq(Chunk)
      BY <3>1
    <3> HIDE DEF new, old
    <3>3. /\ Len(new \o old) = Len(new) + Len(old)
          /\ \A i \in 1 .. Len(new) + Len(old) :
               (new \o old)[i] = IF i <= Len(new) THEN new[i] ELSE old[i - Len(new)]
      BY <3>2, ConcatProperties
    <3>4. g[0] = new \o old
      BY DEF new, old
    <3> QED BY <1>2, <3>2, <3>3, <3>4
  <2>2. ASSUME NEW i \in 1 .. Len(g[0])
        PROVE  /\ g[0][i] \in 1 .. c /\ g[0][i] \in Chunk
               /\ newWhere[g[0][i]] = 0 /\ newNth[g[0][i]] = i
    <3>1. CASE i = 1
      <4>1. newWhere[c] = 0 /\ newNth[c] = 1 /\ c \in 1 .. c
        BY <1>2
      <4> QED BY <1>2, <2>1, <3>1, <4>1
    <3>2. CASE i # 1
      <4> DEFINE j == i - 1
                 d == old[j]
      <4>1. j \in 1 .. Len(old) /\ g[0][i] = d /\ i = j + 1
        BY <1>2, <2>1, <3>2
      <4>2. d \in 1 .. n /\ d \in Chunk /\ where[d] = 0 /\ nth[d] = j
        BY <1>1, <4>1 DEF Placed
      <4> HIDE DEF d, j
      <4>3. d # c /\ d \in 1 .. c
        BY <4>2
      <4>4. newWhere[d] = 0 /\ newNth[d] = j + 1
        BY <4>2, <4>3
      <4> QED BY <4>1, <4>2, <4>3, <4>4
    <3> QED BY <3>1, <3>2
  <2> QED BY <2>2 DEF Placed
<1>5. \A k \in 0 .. 3 : Placed(g, c, newWhere, newNth, k)
  BY <1>3, <1>4
<1> HIDE DEF newWhere, newNth
<1> QED BY <1>5 DEF Apart

\* A drain takes the queue over.
LEMMA ApartTake ==
  ASSUME NEW h, NEW g, NEW n, Apart(h, n), NEW m \in 1 .. 2, h[0] \in Seq(Chunk),
         g[0] = <<>>, g[m] = Reverse(h[0]), \A k \in 1 .. 3 \ {m} : g[k] = h[k]
  PROVE  Apart(g, n)
<1>1. PICK where, nth : \A k \in 0 .. 3 : Placed(h, n, where, nth, k)
  BY DEF Apart
<1> DEFINE old == h[0]
           size == Len(old)
           newWhere == [d \in Chunk |-> IF where[d] = 0 THEN m ELSE where[d]]
           newNth == [d \in Chunk |-> IF where[d] = 0 THEN size - nth[d] + 1 ELSE nth[d]]
<1>2. /\ Len(Reverse(old)) = size /\ size \in Nat
      /\ \A i \in 1 .. size : Reverse(old)[i] = old[size - i + 1]
  BY ReverseType, LenProperties DEF Reverse
<1>3. ASSUME NEW k \in 1 .. 3 \ {m} PROVE Placed(g, n, newWhere, newNth, k)
  <2>1. g[k] = h[k] /\ Placed(h, n, where, nth, k)
    BY <1>1
  <2>2. ASSUME NEW i \in 1 .. Len(h[k])
        PROVE  newWhere[h[k][i]] = k /\ newNth[h[k][i]] = i
    <3> DEFINE d == h[k][i]
    <3>1. d \in Chunk /\ where[d] = k /\ nth[d] = i
      BY <2>1 DEF Placed
    <3> HIDE DEF d
    <3>2. newWhere[d] = k /\ newNth[d] = i
      BY <3>1
    <3> QED BY <3>2 DEF d
  <2> HIDE DEF newWhere, newNth
  <2> QED BY <2>1, <2>2 DEF Placed
<1>4. Placed(g, n, newWhere, newNth, m)
  <2>1. ASSUME NEW i \in 1 .. size
        PROVE  /\ g[m][i] \in 1 .. n /\ g[m][i] \in Chunk
               /\ newWhere[g[m][i]] = m /\ newNth[g[m][i]] = i
    <3> DEFINE j == size - i + 1
               d == old[j]
    <3>1. j \in 1 .. Len(old) /\ g[m][i] = d /\ i = size - j + 1
      <4>1. i \in Nat /\ i >= 1 /\ i <= size /\ size \in Nat /\ g[m] = Reverse(old)
        BY <1>2
      <4>2. g[m][i] = old[size - i + 1]
        BY <1>2, <4>1
      <4> HIDE DEF old
      <4>3. j \in 1 .. size /\ i = size - j + 1
        <5> HIDE DEF size
        <5> QED BY <4>1
      <4> QED BY <4>2, <4>3
    <3>2. d \in 1 .. n /\ d \in Chunk /\ where[d] = 0 /\ nth[d] = j
      BY <1>1, <3>1 DEF Placed
    <3> HIDE DEF d, j
    <3>3. newWhere[d] = m /\ newNth[d] = size - j + 1
      BY <3>2
    <3> QED BY <3>1, <3>2, <3>3
  <2>2. Len(g[m]) = size
    BY <1>2
  <2> HIDE DEF newWhere, newNth, size
  <2> QED BY <2>1, <2>2 DEF Placed
<1>5. Placed(g, n, newWhere, newNth, 0)
  <2>1. Len(g[0]) = 0
    BY EmptySeq
  <2> QED BY <2>1 DEF Placed
<1>6. \A k \in 0 .. 3 : Placed(g, n, newWhere, newNth, k)
  <2> HIDE DEF newWhere, newNth
  <2>1. \A k \in 0 .. 3 : k = 0 \/ k = m \/ k \in 1 .. 3 \ {m}
    OBVIOUS
  <2> QED BY <1>3, <1>4, <1>5, <2>1
<1> HIDE DEF newWhere, newNth
<1> QED BY <1>6 DEF Apart

\* A drain gives the terminal its next chunk.
LEMMA ApartShow ==
  ASSUME NEW h, NEW g, NEW n, Apart(h, n), NEW m \in 1 .. 2,
         h[m] \in Seq(Chunk), h[m] # <<>>, h[3] \in Seq(Chunk),
         g[m] = Tail(h[m]), g[3] = Append(h[3], Head(h[m])),
         \A k \in 0 .. 2 \ {m} : g[k] = h[k]
  PROVE  /\ Apart(g, n)
         /\ Head(h[m]) \in 1 .. n
         /\ \A j \in 1 .. Len(h[3]) : h[3][j] # Head(h[m])
<1>1. PICK where, nth : \A k \in 0 .. 3 : Placed(h, n, where, nth, k)
  BY DEF Apart
<1> DEFINE c == Head(h[m])
           s == h[3]
           newWhere == [d \in Chunk |-> IF d = c THEN 3 ELSE where[d]]
           newNth == [d \in Chunk |-> IF d = c THEN Len(s) + 1
                                      ELSE IF where[d] = m THEN nth[d] - 1 ELSE nth[d]]
<1>2. /\ c \in Chunk /\ Len(h[m]) \in Nat \ {0} /\ Len(g[m]) = Len(h[m]) - 1
      /\ \A i \in 1 .. Len(g[m]) : g[m][i] = h[m][i + 1]
  BY HeadTailProperties, EmptySeq
<1>3. c = h[m][1] /\ 1 \in 1 .. Len(h[m])
  BY <1>2
<1>4. c \in 1 .. n /\ where[c] = m /\ nth[c] = 1
  BY <1>1, <1>3 DEF Placed
<1>5. Len(g[3]) = Len(s) + 1 /\ Len(s) \in Nat /\ g[3][Len(s) + 1] = c
      /\ \A j \in 1 .. Len(s) : g[3][j] = s[j]
  BY <1>2, AppendProperties, LenProperties
<1>6. ASSUME NEW k \in 0 .. 2 \ {m} PROVE Placed(g, n, newWhere, newNth, k)
  <2>1. g[k] = h[k] /\ Placed(h, n, where, nth, k)
    BY <1>1
  <2>2. ASSUME NEW i \in 1 .. Len(h[k])
        PROVE  newWhere[h[k][i]] = k /\ newNth[h[k][i]] = i
    <3> DEFINE d == h[k][i]
    <3>1. d \in Chunk /\ where[d] = k /\ nth[d] = i
      BY <2>1 DEF Placed
    <3> HIDE DEF d, c
    <3>2. d # c
      BY <1>4, <3>1
    <3>3. newWhere[d] = k /\ newNth[d] = i
      BY <3>1, <3>2
    <3> QED BY <3>3 DEF d
  <2> HIDE DEF newWhere, newNth
  <2> QED BY <2>1, <2>2 DEF Placed
<1>7. Placed(g, n, newWhere, newNth, m)
  <2>1. ASSUME NEW i \in 1 .. Len(g[m])
        PROVE  /\ g[m][i] \in 1 .. n /\ g[m][i] \in Chunk
               /\ newWhere[g[m][i]] = m /\ newNth[g[m][i]] = i
    <3> DEFINE j == i + 1
               d == h[m][j]
    <3>1. j \in 1 .. Len(h[m]) /\ j # 1 /\ g[m][i] = d /\ i = j - 1
      BY <1>2
    <3>2. d \in 1 .. n /\ d \in Chunk /\ where[d] = m /\ nth[d] = j
      BY <1>1, <3>1 DEF Placed
    <3> HIDE DEF d, j, c
    <3>3. d # c
      BY <1>4, <3>1, <3>2
    <3>4. newWhere[d] = m /\ newNth[d] = j - 1
      BY <3>2, <3>3
    <3> QED BY <3>1, <3>2, <3>4
  <2> HIDE DEF newWhere, newNth
  <2> QED BY <2>1 DEF Placed
<1>8. ASSUME NEW j \in 1 .. Len(s)
      PROVE  /\ s[j] # c /\ s[j] \in 1 .. n /\ s[j] \in Chunk
             /\ newWhere[s[j]] = 3 /\ newNth[s[j]] = j
  <2> DEFINE d == s[j]
  <2>1. d \in 1 .. n /\ d \in Chunk /\ where[d] = 3 /\ nth[d] = j
    BY <1>1 DEF Placed
  <2> HIDE DEF d, c
  <2>2. d # c
    BY <1>4, <2>1
  <2>3. newWhere[d] = 3 /\ newNth[d] = j
    BY <2>1, <2>2
  <2> QED BY <2>1, <2>2, <2>3 DEF d
<1>9. Placed(g, n, newWhere, newNth, 3)
  <2>1. ASSUME NEW i \in 1 .. Len(g[3])
        PROVE  /\ g[3][i] \in 1 .. n /\ g[3][i] \in Chunk
               /\ newWhere[g[3][i]] = 3 /\ newNth[g[3][i]] = i
    <3>1. CASE i = Len(s) + 1
      <4>1. newWhere[c] = 3 /\ newNth[c] = Len(s) + 1
        BY <1>2
      <4> QED BY <1>2, <1>4, <1>5, <3>1, <4>1
    <3>2. CASE i # Len(s) + 1
      <4>1. i \in 1 .. Len(s) /\ g[3][i] = s[i]
        BY <1>5, <3>2
      <4> HIDE DEF newWhere, newNth
      <4> QED BY <1>8, <4>1
    <3> QED BY <3>1, <3>2
  <2> HIDE DEF newWhere, newNth
  <2> QED BY <2>1 DEF Placed
<1>10. \A k \in 0 .. 3 : Placed(g, n, newWhere, newNth, k)
  <2> HIDE DEF newWhere, newNth
  <2>1. \A k \in 0 .. 3 : k = 3 \/ k = m \/ k \in 0 .. 2 \ {m}
    OBVIOUS
  <2> QED BY <1>6, <1>7, <1>9, <2>1
<1>11. Apart(g, n)
  <2> HIDE DEF newWhere, newNth
  <2> QED BY <1>10 DEF Apart
<1> QED BY <1>4, <1>8, <1>11
-----------------------------------------------------------------------------
(* The steps. *)

UniqueInv == Apart(Held, received)

\* A buffer whose process is deleted or killed has no terminal.
GoneInv == process \in {"deleted", "killed"} => ~terminal

FeedInv == OutputInv /\ OrderInv /\ UniqueInv /\ GoneInv

\* What the parts of Held are.
LEMMA HeldType ==
  ASSUME OutputInv
  PROVE  /\ pending \in Seq(Chunk) /\ shown \in Seq(Chunk) /\ frames \in Seq(Frame)
         /\ Len(frames) \in 0 .. 2 /\ received \in Nat
         /\ Held[0] = pending /\ Held[3] = shown
         /\ \A k \in 1 .. 2 : /\ Held[k] = IF k <= Len(frames) THEN frames[k].rest ELSE <<>>
                              /\ k <= Len(frames) => frames[k] \in Frame
<1>1. Len(frames) \in 0 .. 2
  <2> DEFINE n == Len(frames)
  <2>1. n \in Nat
    BY RestType
  <2>2. n <= 2
    BY DEF OutputInv, TypeOK
  <2> HIDE DEF n
  <2>3. n \in 0 .. 2
    BY <2>1, <2>2
  <2> QED BY <2>3 DEF n
<1>2. \A k \in 1 .. 2 : k <= Len(frames) => frames[k] \in Frame
  <2> SUFFICES ASSUME NEW k \in 1 .. 2, k <= Len(frames) PROVE frames[k] \in Frame
    OBVIOUS
  <2>1. k \in 1 .. Len(frames)
    BY <1>1
  <2> QED BY <2>1, ElementOfSeq DEF OutputInv, TypeOK
<1> QED BY <1>1, <1>2, RestType DEF Held, OutputInv, TypeOK

\* Replacing the rest of the innermost drain.
LEMMA HeldReplaced ==
  ASSUME OutputInv, frames # <<>>, NEW f \in Frame, frames' = Front(frames) \o <<f>>
  PROVE  /\ Len(frames) \in 1 .. 2 /\ Len(frames') = Len(frames)
         /\ Held[Len(frames)] = Last(frames).rest /\ Held'[Len(frames)] = f.rest
         /\ \A k \in 1 .. 2 \ {Len(frames)} : Held'[k] = Held[k]
<1>1. Len(frames) \in 1 .. 2
  BY HeldType, RestType
<1>2. /\ Len(frames') = Len(frames) /\ frames' # <<>> /\ Last(frames') = f
      /\ \A i \in 1 .. Len(frames) - 1 : frames'[i] = frames[i]
  BY HeldType, ReplaceInnermost
<1>3. frames'[Len(frames)] = f
  BY <1>2 DEF Last
<1>4. Held[Len(frames)] = Last(frames).rest
  <2> DEFINE n == Len(frames)
  <2>1. n \in 1 .. 2 /\ n <= n
    BY <1>1
  <2>2. \A k \in 1 .. 2 : Held[k] = IF k <= n THEN frames[k].rest ELSE <<>>
    BY HeldType
  <2> HIDE DEF n
  <2>3. Held[n] = frames[n].rest
    BY <2>1, <2>2
  <2> QED BY <2>3 DEF Last, n
<1>5. \A k \in 1 .. 2 : Held'[k] = IF k <= Len(frames') THEN frames'[k].rest ELSE <<>>
  BY DEF Held
<1>6. Held'[Len(frames)] = f.rest
  BY <1>1, <1>2, <1>3, <1>5
<1>7. ASSUME NEW k \in 1 .. 2 \ {Len(frames)} PROVE Held'[k] = Held[k]
  <2>1. CASE k <= Len(frames)
    <3>1. k \in 1 .. Len(frames) - 1
      BY <1>1, <1>7, <2>1
    <3> QED BY <1>2, <1>5, <3>1, HeldType
  <2>2. CASE ~(k <= Len(frames))
    BY <1>2, <1>5, <2>2, HeldType
  <2> QED BY <2>1, <2>2
<1> QED BY <1>1, <1>2, <1>4, <1>6, <1>7

\* The innermost drain is dropped.
LEMMA HeldDropped ==
  ASSUME OutputInv, frames # <<>>, frames' = Front(frames), UNCHANGED <<pending, shown>>
  PROVE  \A k \in 0 .. 3 : Held'[k] = Held[k] \/ Held'[k] = <<>>
<1>1. Len(frames) \in 1 .. 2
  BY HeldType, RestType
<1>2. Len(frames') = Len(frames) - 1 /\ \A i \in 1 .. Len(frames) - 1 : frames'[i] = frames[i]
  BY HeldType, InnermostFrame
<1>3. \A k \in 1 .. 2 : Held'[k] = Held[k] \/ Held'[k] = <<>>
  <2> SUFFICES ASSUME NEW k \in 1 .. 2 PROVE Held'[k] = Held[k] \/ Held'[k] = <<>>
    OBVIOUS
  <2>0. Held'[k] = IF k <= Len(frames') THEN frames'[k].rest ELSE <<>>
    BY DEF Held
  <2>1. CASE k <= Len(frames')
    <3>1. k \in 1 .. Len(frames) - 1 /\ k <= Len(frames)
      BY <1>1, <1>2, <2>1
    <3> QED BY <1>2, <2>0, <2>1, <3>1, HeldType
  <2>2. CASE ~(k <= Len(frames'))
    BY <2>0, <2>2
  <2> QED BY <2>1, <2>2
<1>4. Held'[0] = Held[0] /\ Held'[3] = Held[3]
  BY DEF Held
<1>5. \A k \in 0 .. 3 : k = 0 \/ k = 3 \/ k \in 1 .. 2
  OBVIOUS
<1> QED BY <1>3, <1>4, <1>5

\* All drains are dropped.
LEMMA HeldEnded ==
  ASSUME frames' = <<>>, pending' = pending \/ pending' = <<>>, UNCHANGED shown
  PROVE  \A k \in 0 .. 3 : Held'[k] = Held[k] \/ Held'[k] = <<>>
<1>1. Len(frames') = 0
  BY EmptySeq
<1>2. \A k \in 1 .. 2 : Held'[k] = <<>>
  BY <1>1 DEF Held
<1>3. (Held'[0] = Held[0] \/ Held'[0] = <<>>) /\ Held'[3] = Held[3]
  BY DEF Held
<1>4. \A k \in 0 .. 3 : k = 0 \/ k = 3 \/ k \in 1 .. 2
  OBVIOUS
<1> QED BY <1>2, <1>3, <1>4

\* A drain that starts holds what was in the queue.
LEMMA HeldDrained ==
  ASSUME OutputInv, NEW caller \in {"filter", "timer", "sentinel"}, NEW queue \in Seq(Chunk),
         Drain(caller, queue), frames = <<>> \/ Len(frames) = 1, UNCHANGED shown,
         NEW h, NEW n, Apart(h, n), h[0] = queue, \A k \in 1 .. 3 : h[k] = Held[k]
  PROVE  Apart(Held', n)
<1>1. CASE queue = <<>>
  <2>1. pending' = <<>> /\ UNCHANGED frames
    BY <1>1 DEF Drain
  <2>2. Held'[0] = <<>> /\ \A k \in 1 .. 3 : Held'[k] = h[k]
    BY <2>1 DEF Held
  <2>3. \A k \in 0 .. 3 : k = 0 \/ k \in 1 .. 3
    OBVIOUS
  <2> QED BY <1>1, <2>2, <2>3, ApartLess
<1>2. CASE queue # <<>>
  <2> DEFINE f == [caller |-> caller, rest |-> Queue(queue), waits |-> FALSE]
             m == Len(frames) + 1
  <2>1. f \in Frame /\ f.rest = Reverse(queue)
    BY ReverseType DEF Frame, Queue
  <2>2. pending' = <<>> /\ frames' = Append(frames, f)
    BY <1>2 DEF Drain
  <2>3. Len(frames) \in 0 .. 1 /\ m \in 1 .. 2
    BY HeldType, EmptySeq
  <2> HIDE DEF f
  <2>4. /\ Len(frames') = m /\ frames'[m] = f
        /\ \A i \in 1 .. Len(frames) : frames'[i] = frames[i]
    BY <2>1, <2>2, AppendProperties, HeldType
  <2> HIDE DEF m
  <2>5. \A k \in 1 .. 2 : Held'[k] = IF k <= Len(frames') THEN frames'[k].rest ELSE <<>>
    BY DEF Held
  <2>6. Held'[0] = <<>> /\ Held'[3] = Held[3] /\ Held'[m] = Reverse(queue)
    BY <2>1, <2>2, <2>3, <2>4, <2>5 DEF Held
  <2>7. ASSUME NEW k \in 1 .. 3 \ {m} PROVE Held'[k] = h[k]
    <3>1. CASE k = 3
      BY <2>6, <3>1
    <3>2. CASE k \in 1 .. Len(frames)
      <4>1. k \in 1 .. 2 /\ k <= Len(frames) /\ k <= Len(frames')
        BY <2>3, <2>4, <3>2 DEF m
      <4> QED BY <2>4, <2>5, <3>2, <4>1, HeldType
    <3>3. CASE k # 3 /\ k \notin 1 .. Len(frames)
      <4>1. k \in 1 .. 2 /\ ~(k <= Len(frames)) /\ ~(k <= m)
        BY <2>3, <2>7, <3>3 DEF m
      <4> QED BY <2>4, <2>5, <4>1, HeldType
    <3> QED BY <3>1, <3>2, <3>3
  <2> QED BY <2>3, <2>6, <2>7, ApartTake
<1> QED BY <1>1, <1>2

\* A chunk that is shown leaves the number of drains as it is.
LEMMA ChunkKeepsFrames ==
  ASSUME OutputInv, ProcessChunk
  PROVE  Ending' = Ending
<1> DEFINE l == Last(frames)
<1>1. frames # <<>> /\ l.rest # <<>> /\ UNCHANGED <<terminal, aborted>>
  BY DEF ProcessChunk
<1>2. PICK waits \in BOOLEAN :
        frames' = Front(frames) \o <<[l EXCEPT !.rest = Tail(@), !.waits = waits]>>
  BY DEF ProcessChunk
<1>3. l \in Frame
  BY <1>1, InnermostFrame, HeldType
<1>4. [l EXCEPT !.rest = Tail(@), !.waits = waits] \in Frame
  <2>1. Tail(l.rest) \in Seq(Chunk)
    BY <1>1, <1>3, HeadTailProperties DEF Frame
  <2> QED BY <1>3, <2>1 DEF Frame
<1>5. Len(frames') = Len(frames)
  BY <1>1, <1>2, <1>4, HeldReplaced
<1> QED BY <1>1, <1>5 DEF Ending

\* The sentinel finds at most one drain.
LEMMA SentinelOnOne ==
  ASSUME OutputInv, Sentinel
  PROVE  frames = <<>> \/ Len(frames) = 1
<1>1. Len(frames) \in Nat /\ (Len(frames) = 0 => frames = <<>>)
  BY HeldType, EmptySeq
<1>2. DOMAIN frames = 1 .. Len(frames)
  BY HeldType, LenProperties
<1>3. Len(frames) # 2
  BY <1>1, <1>2 DEF Sentinel, OutputInv, TypeOK
<1>4. Len(frames) <= 2
  BY DEF OutputInv, TypeOK
<1> QED BY <1>1, <1>3, <1>4, OneFrame

\* A terminal that is gone stays gone, and what ends a drain early is recorded.
LEMMA EndingStays ==
  ASSUME OutputInv, [Next]_vars
  PROVE  (Ending => Ending') /\ (received' # received => Ending' = Ending)
<1>1. CASE UNCHANGED <<frames, terminal, aborted>>
  BY <1>1 DEF Ending
<1>2. ASSUME NEW caller \in {"filter", "timer", "sentinel"}, NEW queue \in Seq(Chunk),
             Drain(caller, queue), UNCHANGED <<terminal, aborted>>,
             frames = <<>> \/ (caller = "sentinel" /\ Len(frames) = 1)
      PROVE  (Ending => Ending') /\ (frames = <<>> => Ending' = Ending)
  <2>1. CASE frames' = frames
    BY <1>2, <2>1 DEF Ending
  <2>2. CASE frames' # frames
    <3> DEFINE f == [caller |-> caller, rest |-> Queue(queue), waits |-> FALSE]
    <3>1. f \in Frame
      BY ReverseType DEF Frame, Queue
    <3>2. frames' = Append(frames, f)
      BY <1>2, <2>2 DEF Drain
    <3> HIDE DEF f
    <3>3. Len(frames') = Len(frames) + 1
      BY <3>1, <3>2, AppendProperties, HeldType
    <3>4. frames = <<>> => ~(Len(frames) > 1) /\ ~(Len(frames') > 1)
      BY <3>3, EmptySeq
    <3>5. Len(frames) > 1 => Len(frames') > 1
      BY <3>3, HeldType
    <3> QED BY <1>2, <3>4, <3>5 DEF Ending
  <2> QED BY <2>1, <2>2
<1>3. CASE Filter
  <2> DEFINE queue == <<received + 1>> \o pending
  <2>1. CASE Drain("filter", queue) /\ ~Busy
    <3>1. frames = <<>>
      <4>1. process # "stuck"
        BY <1>3 DEF Filter, OutputInv, SentinelLast
      <4> QED BY <2>1, <4>1, FirstTimeType
    <3>2. queue \in Seq(Chunk)
      <4>1. received + 1 \in Chunk
        BY <1>3, LatencyAssumption DEF Filter, Chunk, OutputInv, TypeOK, Bounded
      <4>2. <<received + 1>> \in Seq(Chunk) /\ pending \in Seq(Chunk)
        BY <4>1, HeldType
      <4> QED BY <4>2, ConcatProperties
    <3>3. UNCHANGED <<terminal, aborted>>
      BY <1>3 DEF Filter
    <3> HIDE DEF queue
    <3> QED BY <1>2, <2>1, <3>1, <3>2, <3>3
  <2>2. CASE frames' = frames
    BY <1>1, <1>3, <2>2 DEF Filter
  <2> QED BY <1>3, <2>1, <2>2 DEF Filter
<1>4. CASE TimerFires
  <2>1. frames = <<>> /\ pending \in Seq(Chunk)
    BY <1>4, HeldType DEF TimerFires, OutputInv, StampTells, Nil
  <2> QED BY <1>2, <1>4, <2>1 DEF TimerFires
<1>5. ASSUME NEW f \in Frame, frames # <<>>, frames' = Front(frames) \o <<f>>,
             UNCHANGED <<terminal, aborted>>
      PROVE  Ending' = Ending
  <2>1. Len(frames') = Len(frames)
    BY <1>5, HeldReplaced
  <2> QED BY <1>5, <2>1 DEF Ending
<1>6. CASE ProcessChunk
  <2>1. Ending' = Ending
    BY <1>6, ChunkKeepsFrames
  <2> QED BY <2>1
<1>7. CASE EndWait
  <2>1. frames # <<>> /\ UNCHANGED <<received, terminal, aborted>>
        /\ frames' = Front(frames) \o <<[Last(frames) EXCEPT !.waits = FALSE]>>
    BY <1>7 DEF EndWait
  <2>2. Last(frames) \in Frame
    BY <2>1, InnermostFrame, HeldType
  <2>3. [Last(frames) EXCEPT !.waits = FALSE] \in Frame
    BY <2>2 DEF Frame
  <2> QED BY <1>5, <2>1, <2>3
<1>8. CASE EndRound
  <2>1. frames # <<>> /\ UNCHANGED <<received, aborted>>
    BY <1>8 DEF EndRound
  <2>2. CASE More
    <3>1. frames' = Front(frames) \o <<[Last(frames) EXCEPT !.rest = Queue(pending)]>>
          /\ UNCHANGED terminal
      BY <1>8, <2>2 DEF EndRound
    <3>2. Last(frames) \in Frame
      BY <2>1, InnermostFrame, HeldType
    <3>3. [Last(frames) EXCEPT !.rest = Queue(pending)] \in Frame
      BY <3>2, ReverseType, HeldType DEF Frame, Queue
    <3> QED BY <1>5, <2>1, <3>1, <3>3
  <2>3. CASE ~More /\ Last(frames).caller = "sentinel"
    BY <1>8, <2>1, <2>3 DEF EndRound, Ended, Ending
  <2>4. CASE ~More /\ Last(frames).caller # "sentinel"
    <3>1. UNCHANGED terminal
      BY <1>8, <2>4 DEF EndRound
    <3>2. ~(Len(frames) > 1)
      <4>1. Len(frames) # 2
        BY <2>4 DEF OutputInv, TypeOK, Last
      <4> QED BY <4>1, HeldType
    <3> QED BY <2>1, <3>1, <3>2 DEF Ending
  <2> QED BY <2>2, <2>3, <2>4
<1>9. CASE Sentinel
  <2>1. CASE Left
    <3>1. Drain("sentinel", pending) /\ UNCHANGED <<received, terminal, aborted>>
      BY <1>9, <2>1 DEF Sentinel
    <3>2. frames = <<>> \/ Len(frames) = 1
      BY <1>9, SentinelOnOne
    <3>3. pending \in Seq(Chunk)
      BY HeldType
    <3> QED BY <1>2, <3>1, <3>2, <3>3
  <2>2. CASE ~Left
    BY <1>9, <2>2 DEF Sentinel, Ended, Ending
  <2> QED BY <2>1, <2>2
<1>10. CASE AnswerFails
  BY <1>10 DEF AnswerFails, Ending
<1>11. CASE KillBuffer
  BY <1>11 DEF KillBuffer, Ending
<1>12. CASE Write \/ ProcessDies \/ Tick \/ UNCHANGED vars
  BY <1>1, <1>12 DEF Write, ProcessDies, Tick, vars
<1> QED
  BY <1>3, <1>4, <1>6, <1>7, <1>8, <1>9, <1>10, <1>11, <1>12 DEF Next

\* The chunk that is shown comes from the innermost drain, and was not shown.
LEMMA ChunkShown ==
  ASSUME OutputInv, Apart(Held, received), ProcessChunk
  PROVE  /\ Apart(Held', received')
         /\ Head(Last(frames).rest) \in 1 .. received
         /\ \A j \in 1 .. Len(shown) : shown[j] # Head(Last(frames).rest)
         /\ shown' = Append(shown, Head(Last(frames).rest))
         /\ UNCHANGED <<received, terminal, aborted>>
<1> DEFINE l == Last(frames)
           m == Len(frames)
<1>1. /\ frames # <<>> /\ l.rest # <<>> /\ shown' = Append(shown, Head(l.rest))
      /\ UNCHANGED <<received, pending, terminal, aborted>>
  BY DEF ProcessChunk
<1>2. PICK waits \in BOOLEAN :
        frames' = Front(frames) \o <<[l EXCEPT !.rest = Tail(@), !.waits = waits]>>
  BY DEF ProcessChunk
<1> DEFINE f == [l EXCEPT !.rest = Tail(@), !.waits = waits]
<1>3. l \in Frame
  BY <1>1, InnermostFrame, HeldType
<1>4. l.rest \in Seq(Chunk) /\ f \in Frame /\ f.rest = Tail(l.rest)
  <2>1. l.rest \in Seq(Chunk)
    BY <1>3 DEF Frame
  <2>2. Tail(l.rest) \in Seq(Chunk)
    BY <1>1, <2>1, HeadTailProperties
  <2> QED BY <1>3, <2>1, <2>2 DEF Frame
<1>5. frames' = Front(frames) \o <<f>>
  BY <1>2
<1> HIDE DEF f
<1>6. /\ m \in 1 .. 2 /\ Held[m] = l.rest /\ Held'[m] = Tail(l.rest)
      /\ \A k \in 1 .. 2 \ {m} : Held'[k] = Held[k]
  BY <1>1, <1>4, <1>5, HeldReplaced
<1> HIDE DEF l, m
<1>7. /\ Held'[0] = Held[0] /\ Held[3] = shown /\ shown \in Seq(Chunk)
      /\ Held'[3] = Append(shown, Head(l.rest))
  BY <1>1, HeldType DEF Held
<1>8. \A k \in 0 .. 2 \ {m} : Held'[k] = Held[k]
  <2>1. \A k \in 0 .. 2 \ {m} : k = 0 \/ k \in 1 .. 2 \ {m}
    OBVIOUS
  <2> QED BY <1>6, <1>7, <2>1
<1>9. /\ Apart(Held', received)
      /\ Head(l.rest) \in 1 .. received
      /\ \A j \in 1 .. Len(shown) : shown[j] # Head(l.rest)
  <2>1. /\ Held[m] \in Seq(Chunk) /\ Held[m] # <<>> /\ Held[3] \in Seq(Chunk)
        /\ Held'[m] = Tail(Held[m]) /\ Held'[3] = Append(Held[3], Head(Held[m]))
    BY <1>1, <1>4, <1>6, <1>7
  <2>2. /\ Apart(Held', received)
        /\ Head(Held[m]) \in 1 .. received
        /\ \A j \in 1 .. Len(Held[3]) : Held[3][j] # Head(Held[m])
    BY <1>6, <1>8, <2>1, ApartShow
  <2> QED BY <1>6, <1>7, <2>2
<1> QED BY <1>1, <1>9 DEF l

\* Every chunk stays in one place.
LEMMA UniqueStep ==
  ASSUME OutputInv, UniqueInv, [Next]_vars
  PROVE  UniqueInv'
<1>0. Apart(Held, received)
  BY DEF UniqueInv
<1>a. SUFFICES Apart(Held', received')
  BY DEF UniqueInv
<1>1. ASSUME UNCHANGED received, \A k \in 0 .. 3 : Held'[k] = Held[k] \/ Held'[k] = <<>>
      PROVE  Apart(Held', received')
  BY <1>0, <1>1, ApartLess
<1>2. CASE UNCHANGED <<received, pending, frames, shown>>
  BY <1>0, <1>2 DEF Held
<1>3. CASE Filter
  <2> DEFINE c == received + 1
             queue == <<c>> \o pending
             h == [Held EXCEPT ![0] = queue]
  <2>1. received' = c /\ UNCHANGED shown
    BY <1>3 DEF Filter
  <2>2. c \in Chunk /\ received \in Nat
    <3>1. c \in Chunk
      BY <1>3, LatencyAssumption DEF Filter, Chunk, OutputInv, TypeOK, Bounded
    <3> QED BY <3>1, HeldType
  <2>3. queue \in Seq(Chunk)
    <3>1. <<c>> \in Seq(Chunk) /\ pending \in Seq(Chunk)
      BY <2>2, HeldType
    <3> QED BY <3>1, ConcatProperties
  <2>4. h[0] = queue /\ \A k \in 1 .. 3 : h[k] = Held[k]
    BY DEF Held
  <2>5. Apart(h, c)
    <3>1. Held[0] = pending /\ pending \in Seq(Chunk)
      BY HeldType
    <3> HIDE DEF h
    <3> QED BY <1>0, <2>2, <2>4, <3>1, ApartPush
  <2> HIDE DEF h, queue
  <2>6. CASE Drain("filter", queue) /\ ~Busy
    <3>1. frames = <<>>
      <4>1. process # "stuck"
        BY <1>3 DEF Filter, OutputInv, SentinelLast
      <4> QED BY <2>6, <4>1, FirstTimeType
    <3> QED BY <2>1, <2>3, <2>4, <2>5, <2>6, <3>1, HeldDrained
  <2>7. CASE pending' = queue /\ frames' = frames
    <3>1. \A k \in 0 .. 3 : Held'[k] = h[k]
      <4>1. Held'[0] = queue /\ \A k \in 1 .. 3 : Held'[k] = Held[k]
        BY <2>1, <2>7 DEF Held
      <4>2. \A k \in 0 .. 3 : k = 0 \/ k \in 1 .. 3
        OBVIOUS
      <4> QED BY <2>4, <4>1, <4>2
    <3> QED BY <2>1, <2>5, <3>1, ApartLess
  <2> QED BY <1>3, <2>6, <2>7 DEF Filter, queue
<1>4. ASSUME NEW caller \in {"filter", "timer", "sentinel"}, Drain(caller, pending),
             frames = <<>> \/ Len(frames) = 1, UNCHANGED <<received, shown>>
      PROVE  Apart(Held', received')
  <2>1. pending \in Seq(Chunk) /\ Held[0] = pending
    BY HeldType
  <2>2. \A k \in 1 .. 3 : Held[k] = Held[k]
    OBVIOUS
  <2> QED BY <1>0, <1>4, <2>1, <2>2, HeldDrained
<1>5. CASE TimerFires
  <2>1. frames = <<>>
    BY <1>5 DEF TimerFires, OutputInv, StampTells, Nil
  <2> QED BY <1>4, <1>5, <2>1 DEF TimerFires
<1>6. CASE ProcessChunk
  BY <1>0, <1>6, ChunkShown
<1>7. CASE EndWait
  <2> DEFINE f == [Last(frames) EXCEPT !.waits = FALSE]
             n == Len(frames)
  <2>1. frames # <<>> /\ UNCHANGED <<received, pending, shown>> /\ frames' = Front(frames) \o <<f>>
    BY <1>7 DEF EndWait
  <2>2. Last(frames) \in Frame
    BY <2>1, InnermostFrame, HeldType
  <2>3. f \in Frame /\ f.rest = Last(frames).rest
    BY <2>2 DEF Frame
  <2> HIDE DEF f
  <2>4. Held'[n] = Held[n] /\ \A k \in 1 .. 2 \ {n} : Held'[k] = Held[k]
    BY <2>1, <2>3, HeldReplaced
  <2>5. Held'[0] = Held[0] /\ Held'[3] = Held[3]
    BY <2>1 DEF Held
  <2> HIDE DEF n
  <2>6. \A k \in 0 .. 3 : k = 0 \/ k = 3 \/ k = n \/ k \in 1 .. 2 \ {n}
    OBVIOUS
  <2> QED BY <1>1, <2>1, <2>4, <2>5, <2>6
<1>8. CASE EndRound
  <2>1. frames # <<>> /\ UNCHANGED <<received, shown>> /\ Last(frames).rest = <<>>
    BY <1>8 DEF EndRound
  <2>2. CASE More
    <3> DEFINE f == [Last(frames) EXCEPT !.rest = Queue(pending)]
               m == Len(frames)
    <3>1. frames' = Front(frames) \o <<f>> /\ pending' = <<>>
      BY <1>8, <2>2 DEF EndRound
    <3>2. Last(frames) \in Frame
      BY <2>1, InnermostFrame, HeldType
    <3>3. f \in Frame /\ f.rest = Reverse(pending)
      BY <3>2, ReverseType, HeldType DEF Frame, Queue
    <3> HIDE DEF f
    <3>4. /\ m \in 1 .. 2 /\ Held'[m] = Reverse(Held[0])
          /\ \A k \in 1 .. 2 \ {m} : Held'[k] = Held[k]
      BY <2>1, <3>1, <3>3, HeldReplaced, HeldType
    <3>5. Held'[0] = <<>> /\ Held'[3] = Held[3] /\ Held[0] \in Seq(Chunk)
      BY <2>1, <3>1, HeldType DEF Held
    <3> HIDE DEF m
    <3>6. \A k \in 1 .. 3 \ {m} : Held'[k] = Held[k]
      <4>1. \A k \in 1 .. 3 \ {m} : k = 3 \/ k \in 1 .. 2 \ {m}
        OBVIOUS
      <4> QED BY <3>4, <3>5, <4>1
    <3> QED BY <1>0, <2>1, <3>4, <3>5, <3>6, ApartTake
  <2>3. CASE ~More /\ Last(frames).caller = "sentinel"
    <3>1. frames' = <<>> /\ UNCHANGED pending
      BY <1>8, <2>3 DEF EndRound, Ended
    <3> QED BY <1>1, <2>1, <3>1, HeldEnded
  <2>4. CASE ~More /\ Last(frames).caller # "sentinel"
    <3>1. frames' = Front(frames) /\ UNCHANGED pending
      BY <1>8, <2>4 DEF EndRound
    <3> QED BY <1>1, <2>1, <3>1, HeldDropped
  <2> QED BY <2>2, <2>3, <2>4
<1>9. CASE Sentinel
  <2>1. CASE Left
    <3>1. Drain("sentinel", pending) /\ UNCHANGED <<received, shown>>
      BY <1>9, <2>1 DEF Sentinel
    <3> QED BY <1>4, <1>9, <3>1, SentinelOnOne
  <2>2. CASE ~Left
    <3>1. frames' = <<>> /\ UNCHANGED <<pending, received, shown>>
      BY <1>9, <2>2 DEF Sentinel, Ended
    <3> QED BY <1>1, <3>1, HeldEnded
  <2> QED BY <2>1, <2>2
<1>10. CASE AnswerFails
  <2>1. frames # <<>> /\ frames' = Front(frames) /\ UNCHANGED <<received, pending, shown>>
    BY <1>10 DEF AnswerFails
  <2> QED BY <1>1, <2>1, HeldDropped
<1>11. CASE KillBuffer
  <2>1. frames' = <<>> /\ pending' = <<>> /\ UNCHANGED <<received, shown>>
    BY <1>11 DEF KillBuffer
  <2> QED BY <1>1, <2>1, HeldEnded
<1>12. CASE Write \/ ProcessDies \/ Tick \/ UNCHANGED vars
  BY <1>2, <1>12 DEF Write, ProcessDies, Tick, vars
<1> QED
  BY <1>3, <1>5, <1>6, <1>7, <1>8, <1>9, <1>10, <1>11, <1>12 DEF Next

\* Only a terminal that was deleted or killed has a process that is.
LEMMA GoneStep ==
  ASSUME OutputInv, GoneInv, [Next]_vars
  PROVE  GoneInv'
<1>1. CASE UNCHANGED <<process, terminal>>
  BY <1>1 DEF GoneInv
<1>2. CASE EndRound \/ Sentinel
  BY <1>1, <1>2 DEF GoneInv, EndRound, Sentinel, Ended
<1>3. CASE ProcessDies \/ AnswerFails \/ KillBuffer
  BY <1>1, <1>3 DEF GoneInv, ProcessDies, AnswerFails, KillBuffer
<1>4. CASE Filter \/ TimerFires
  BY <1>1, <1>4 DEF Filter, TimerFires
<1>5. CASE Write \/ ProcessChunk \/ EndWait \/ Tick \/ UNCHANGED vars
  BY <1>1, <1>5 DEF Write, ProcessChunk, EndWait, Tick, vars
<1> QED BY <1>2, <1>3, <1>4, <1>5 DEF Next

\* The length of the chunks up to n.
LEMMA UptoLen ==
  ASSUME NEW n \in Nat
  PROVE  Len(Upto(n)) = n
<1>1. \A i \in 1 .. n : i \in Nat
  OBVIOUS
<1>2. Upto(n) \in Seq(Nat)
  BY <1>1, IsASeq DEF Upto
<1>3. DOMAIN Upto(n) = 1 .. Len(Upto(n)) /\ Len(Upto(n)) \in Nat
  BY <1>2, LenProperties
<1>4. DOMAIN Upto(n) = 1 .. n
  BY DEF Upto
<1> DEFINE k == Len(Upto(n))
<1>5. 1 .. n = 1 .. k /\ k \in Nat
  BY <1>3, <1>4
<1> HIDE DEF k
<1>6. k = n
  <2>1. k \in 1 .. k \/ k = 0
    BY <1>5
  <2>2. n \in 1 .. n \/ n = 0
    OBVIOUS
  <2>3. k <= n
    BY <1>5, <2>1
  <2>4. n <= k
    BY <1>5, <2>2
  <2> QED BY <1>5, <2>3, <2>4
<1> QED BY <1>6 DEF k

\* While no drain is cut short, the next chunk shown is the next one received.
LEMMA NextInOrder ==
  ASSUME OutputInv, OrderInv, ~Ending, ProcessChunk
  PROVE  Head(Last(frames).rest) = Len(shown) + 1 /\ Len(shown) < received
<1> DEFINE r == frames[1].rest
           s == shown \o r
           n == Len(shown)
           q == Reverse(pending)
<1>1. frames # <<>> /\ Last(frames).rest # <<>>
  BY DEF ProcessChunk
<1>2. Len(frames) = 1
  <2> DEFINE k == Len(frames)
  <2>1. k \in Nat /\ k # 0 /\ ~(k > 1)
    BY <1>1, RestType DEF Ending
  <2> HIDE DEF k
  <2>2. k = 1
    BY <2>1
  <2> QED BY <2>2 DEF k
<1>3. Last(frames).rest = r /\ Rest = r
  BY <1>1, <1>2 DEF Last, Rest
<1>4. shown \in Seq(Chunk) /\ r \in Seq(Chunk) /\ q \in Seq(Chunk) /\ r # <<>>
  BY <1>1, <1>3, RestType
<1>5. s \o q = Upto(received)
  BY <1>3 DEF OrderInv
<1> HIDE DEF r, q
<1>6. /\ Len(shown) \in Nat /\ Len(r) \in Nat \ {0} /\ Len(q) \in Nat
      /\ s \in Seq(Chunk) /\ Len(s) = Len(shown) + Len(r)
      /\ \A i \in 1 .. Len(shown) + Len(r) :
           s[i] = IF i <= Len(shown) THEN shown[i] ELSE r[i - Len(shown)]
  BY <1>4, ConcatProperties, LenProperties, EmptySeq
<1>7. n + 1 \in 1 .. n + Len(r) /\ ~(n + 1 <= n) /\ (n + 1) - n = 1
  BY <1>6
<1>8. s[n + 1] = r[1]
  BY <1>6, <1>7
<1> HIDE DEF s
<1>9. /\ Len(s \o q) = Len(s) + Len(q)
      /\ \A i \in 1 .. Len(s) + Len(q) : (s \o q)[i] = IF i <= Len(s) THEN s[i] ELSE q[i - Len(s)]
  BY <1>4, <1>6, ConcatProperties
<1>10. n + 1 \in 1 .. Len(s) + Len(q) /\ n + 1 <= Len(s)
  BY <1>6
<1>11. (s \o q)[n + 1] = r[1]
  BY <1>8, <1>9, <1>10
<1>12. Len(Upto(received)) = received
  BY UptoLen, RestType
<1>13. received = Len(s) + Len(q)
  BY <1>5, <1>9, <1>12
<1>14. n + 1 \in 1 .. received
  BY <1>10, <1>13
<1>15. r[1] = n + 1
  BY <1>5, <1>11, <1>14 DEF Upto
<1>16. Head(r) = r[1]
  BY <1>4
<1> QED BY <1>3, <1>6, <1>14, <1>15, <1>16, RestType

\* Every step is one that OutputFeed allows.
LEMMA FeedStep == FeedInv /\ [Next]_vars => [Feed!FeedNext]_(Feed!feed)
<1> SUFFICES ASSUME FeedInv, [Next]_vars PROVE Feed!FeedNext \/ UNCHANGED Feed!feed
  BY Zenon
<1>1. (Ending => Ending') /\ (received' # received => Ending' = Ending)
  BY EndingStays DEF FeedInv
<1>2. CASE UNCHANGED <<received, shown>>
  <2>1. Ending \in BOOLEAN /\ Ending' \in BOOLEAN
    BY DEF Ending
  <2>2. CASE Ending' = Ending
    BY <1>2, <2>2 DEF Feed!feed
  <2>3. CASE Ending' = TRUE
    BY <1>2, <2>3 DEF Feed!FeedNext, Feed!End
  <2> QED BY <1>1, <2>1, <2>2, <2>3
<1>3. CASE Filter
  <2>1. received' = received + 1 /\ shown' = shown /\ received \in Nat
    BY <1>3, RestType DEF Filter, FeedInv
  <2>2. Ending' = Ending
    BY <1>1, <2>1
  <2> QED BY <2>1, <2>2 DEF Feed!FeedNext, Feed!Receive
<1>4. CASE ProcessChunk
  <2> DEFINE c == Head(Last(frames).rest)
  <2>1. /\ c \in 1 .. received /\ \A j \in 1 .. Len(shown) : shown[j] # c
        /\ shown' = Append(shown, c) /\ UNCHANGED <<received, terminal, aborted>>
    BY <1>4, ChunkShown DEF FeedInv, UniqueInv
  <2>2. CASE Ending
    <3>1. DOMAIN shown = 1 .. Len(shown)
      BY HeldType, LenProperties DEF FeedInv
    <3>2. Ending' = Ending
      BY <1>1, <2>2 DEF Ending
    <3> HIDE DEF c
    <3> QED BY <2>1, <2>2, <3>1, <3>2 DEF Feed!FeedNext, Feed!ShowLate
  <2>3. CASE ~Ending
    <3>1. c = Len(shown) + 1 /\ Len(shown) < received
      BY <1>4, <2>3, NextInOrder DEF FeedInv
    <3>2. Ending' = Ending
      BY <1>4, <2>3, ChunkKeepsFrames DEF FeedInv
    <3> HIDE DEF c
    <3> QED BY <2>1, <3>1, <3>2 DEF Feed!FeedNext, Feed!ShowNext
  <2> QED BY <2>2, <2>3
<1>5. CASE Write \/ ProcessDies \/ TimerFires \/ AnswerFails \/ EndWait \/ EndRound \/ Sentinel
           \/ KillBuffer \/ Tick \/ UNCHANGED vars
  <2>1. UNCHANGED <<received, shown>>
    BY <1>5 DEF Write, ProcessDies, TimerFires, AnswerFails, EndWait, EndRound, Sentinel,
                KillBuffer, Tick, vars
  <2> QED BY <1>2, <2>1
<1> QED BY <1>3, <1>4, <1>5 DEF Next

\* All parts of the invariant hold at the start.
LEMMA FeedInit == Init => FeedInv /\ Feed!FeedInit
<1> SUFFICES ASSUME Init PROVE FeedInv /\ Feed!FeedInit
  OBVIOUS
<1>1. OutputInv
  BY OutputInit
<1>2. OrderInv
  BY OrderInit
<1>3. GoneInv
  BY DEF Init, GoneInv
<1>4. UniqueInv
  <2>1. \A k \in 0 .. 3 : Held[k] = <<>>
    <3>1. Len(frames) = 0
      BY EmptySeq DEF Init
    <3>2. \A k \in 0 .. 3 : k <= Len(frames) => k = 0
      BY <3>1
    <3> QED BY <3>2 DEF Init, Held
  <2>2. \A k \in 0 .. 3 : Len(Held[k]) = 0
    BY <2>1, EmptySeq
  <2>3. Placed(Held, received, <<>>, <<>>, 0) /\ \A k \in 0 .. 3 : Placed(Held, received, <<>>, <<>>, k)
    BY <2>2 DEF Placed
  <2> QED BY <2>3 DEF UniqueInv, Apart
<1>5. ~Ending
  BY EmptySeq DEF Init, Ending
<1>6. Feed!FeedInit
  BY <1>5 DEF Init, Feed!FeedInit, Ending
<1> QED BY <1>1, <1>2, <1>3, <1>4, <1>6 DEF FeedInv

\* Every step keeps the invariant.
LEMMA FeedInvStep == FeedInv /\ [Next]_vars => FeedInv'
<1> SUFFICES ASSUME FeedInv, [Next]_vars PROVE FeedInv'
  OBVIOUS
<1>1. OutputInv' /\ OrderInv'
  BY OutputStep, OrderStep DEF FeedInv
<1>2. UniqueInv'
  BY UniqueStep DEF FeedInv
<1>3. GoneInv'
  BY GoneStep DEF FeedInv
<1> QED BY <1>1, <1>2, <1>3 DEF FeedInv
-----------------------------------------------------------------------------
(* What follows. *)

\* eat--filter, the drains and the sentinel implement the promise of OutputFeed,
\* in every order in which Emacs runs them: each chunk is processed once, and in
\* the order received until the terminal ends.
THEOREM QueueImplementsFeed == Spec => FeedSpec
<1> QED BY FeedInit, FeedInvStep, FeedStep, PTL DEF Spec, FeedSpec, Feed!FeedSpec

\* A sentinel that deletes the terminal outside of a drain, after no error, has
\* let it process every chunk.
THEOREM FinalOutputAlwaysShown == Spec => FinalOutputShown
<1> DEFINE Shows == (process' = "deleted" /\ ~Ending
                       /\ (frames = <<>> \/ frames[1].caller = "sentinel"))
                      => (unread = 0 /\ Len(shown) = received)
<1>1. FeedInv /\ [Next]_vars => [Shows]_vars
  <2> SUFFICES ASSUME FeedInv, [Next]_vars, process' = "deleted", ~Ending,
                      frames = <<>> \/ frames[1].caller = "sentinel"
               PROVE  unread = 0 /\ Len(shown) = received
    BY DEF Shows
  <2>1. process # "deleted"
    BY DEF Ending, FeedInv, GoneInv
  <2>2. unread = 0 /\ pending = <<>> /\ Rest = <<>>
    <3>1. CASE EndRound
      <4>1. frames # <<>> /\ Last(frames).rest = <<>> /\ ~More /\ Last(frames).caller = "sentinel"
        BY <2>1, <3>1 DEF EndRound
      <4>2. Len(frames) = 1
        <5> DEFINE k == Len(frames)
        <5>1. k \in Nat /\ k # 0 /\ ~(k > 1)
          BY <4>1, RestType DEF Ending, FeedInv
        <5> HIDE DEF k
        <5>2. k = 1
          BY <5>1
        <5> QED BY <5>2 DEF k
      <4>3. unread = 0
        BY <4>1 DEF FeedInv, OutputInv, SentinelLast
      <4> QED BY <4>1, <4>2, <4>3 DEF More, Rest, Last
    <3>2. CASE Sentinel
      <4>1. ~Left /\ unread = 0 /\ \A i \in DOMAIN frames : frames[i].caller # "sentinel"
        BY <2>1, <3>2 DEF Sentinel
      <4>2. frames = <<>>
        <5>1. CASE frames # <<>>
          <6>1. Len(frames) = 1
            BY <3>2, <5>1, SentinelOnOne DEF FeedInv
          <6>2. 1 \in DOMAIN frames
            BY <6>1, HeldType, LenProperties DEF FeedInv
          <6> QED BY <4>1, <5>1, <6>2
        <5> QED BY <5>1
      <4> QED BY <4>1, <4>2 DEF Left, Rest
    <3>3. CASE ProcessDies \/ AnswerFails \/ KillBuffer
      BY <2>1, <3>3 DEF ProcessDies, AnswerFails, KillBuffer
    <3>4. CASE Write \/ Filter \/ TimerFires \/ ProcessChunk \/ EndWait \/ Tick \/ UNCHANGED vars
      BY <2>1, <3>4 DEF Write, Filter, TimerFires, ProcessChunk, EndWait, Tick, vars
    <3> QED BY <3>1, <3>2, <3>3, <3>4 DEF Next
  <2>3. shown = Upto(received)
    <3>1. shown \in Seq(Chunk) /\ shown \o <<>> = shown
      BY HeldType, ConcatEmptySeq DEF FeedInv
    <3>2. (shown \o <<>>) \o <<>> = Upto(received)
      BY <2>2, ReverseEmpty DEF FeedInv, OrderInv
    <3> QED BY <3>1, <3>2
  <2>4. Len(Upto(received)) = received
    BY UptoLen, RestType DEF FeedInv
  <2> QED BY <2>2, <2>3, <2>4
<1> QED BY <1>1, FeedInit, FeedInvStep, PTL DEF Spec, FinalOutputShown

=============================================================================
