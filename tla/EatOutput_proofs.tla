-------------------------- MODULE EatOutput_proofs --------------------------
(***************************************************************************)
(* Theorems about EatOutput, for all latencies and any number of chunks:   *)
(* that none is stranded, late, lost or out of order, and that what waits  *)
(* comes nearer to be shown.                                               *)
(***************************************************************************)
EXTENDS EatOutput, SequenceTheorems, TLAPS

-----------------------------------------------------------------------------
(* Sequences: the innermost drain, and the queue. *)

\* The innermost drain, and those it lies on.
LEMMA InnermostFrame ==
  ASSUME NEW fs \in Seq(Frame), fs # <<>>
  PROVE  /\ Last(fs) \in Frame
         /\ Front(fs) \in Seq(Frame)
         /\ Len(Front(fs)) = Len(fs) - 1
         /\ \A i \in 1 .. Len(fs) - 1 : Front(fs)[i] = fs[i]
<1>1. Len(fs) \in Nat \ {0}
  BY EmptySeq
<1>2. Last(fs) \in Frame
  BY <1>1, ElementOfSeq DEF Last
<1>3. \A i \in 1 .. Len(fs) - 1 : fs[i] \in Frame
  BY <1>1, ElementOfSeq
<1> DEFINE n == Len(fs) - 1
<1>4. n \in Int /\ 1 \in Int /\ n \in Nat /\ \A i \in 1 .. n : fs[i] \in Frame
  BY <1>1, <1>3
<1> HIDE DEF n
<1>5. /\ SubSeq(fs, 1, n) \in Seq(Frame)
      /\ Len(SubSeq(fs, 1, n)) = IF 1 <= n THEN n - 1 + 1 ELSE 0
      /\ \A i \in 1 .. n - 1 + 1 : SubSeq(fs, 1, n)[i] = fs[1 + i - 1]
  BY <1>4, SubSeqProperties
<1>6. Len(SubSeq(fs, 1, n)) = n /\ \A i \in 1 .. n : SubSeq(fs, 1, n)[i] = fs[i]
  BY <1>4, <1>5
<1> QED BY <1>2, <1>5, <1>6 DEF Front, n

\* Replacing the innermost frame.
LEMMA ReplaceInnermost ==
  ASSUME NEW fs \in Seq(Frame), fs # <<>>, NEW f \in Frame
  PROVE  /\ Front(fs) \o <<f>> \in Seq(Frame)
         /\ Len(Front(fs) \o <<f>>) = Len(fs)
         /\ Front(fs) \o <<f>> # <<>>
         /\ Last(Front(fs) \o <<f>>) = f
         /\ \A i \in 1 .. Len(fs) - 1 : (Front(fs) \o <<f>>)[i] = fs[i]
<1> DEFINE gs == Front(fs) \o <<f>>
<1>1. Len(fs) \in Nat \ {0}
  BY EmptySeq
<1>2. <<f>> \in Seq(Frame) /\ Len(<<f>>) = 1 /\ <<f>>[1] = f
  OBVIOUS
<1>3. /\ gs \in Seq(Frame)
      /\ Len(gs) = Len(fs)
      /\ \A i \in 1 .. Len(fs) : gs[i] = IF i <= Len(fs) - 1 THEN Front(fs)[i]
                                          ELSE <<f>>[i - (Len(fs) - 1)]
  BY <1>1, <1>2, InnermostFrame, ConcatProperties
<1>4. gs[Len(fs)] = f /\ \A i \in 1 .. Len(fs) - 1 : gs[i] = fs[i]
  BY <1>1, <1>2, <1>3, InnermostFrame
<1> HIDE DEF gs
<1>5. gs # <<>>
  BY <1>1, <1>3, EmptySeq
<1> QED BY <1>3, <1>4, <1>5 DEF gs, Last

\* Of one or two frames there is one unless there are two.
LEMMA OneFrame ==
  ASSUME NEW n \in Nat, n <= 2, n # 2
  PROVE  n = 0 \/ n = 1
  OBVIOUS

\* The queue turned round.
LEMMA ReverseType ==
  ASSUME NEW q \in Seq(Chunk)
  PROVE  Reverse(q) \in Seq(Chunk) /\ Len(Reverse(q)) = Len(q)
<1>1. Len(q) \in Nat /\ \A i \in 1 .. Len(q) : q[i] \in Chunk
  BY ElementOfSeq
<1>2. \A i \in 1 .. Len(q) : q[Len(q) - i + 1] \in Chunk
  BY <1>1
<1>3. [i \in 1 .. Len(q) |-> q[Len(q) - i + 1]] \in Seq(Chunk)
  BY <1>1, <1>2, IsASeq
<1> QED BY <1>1, <1>3, LenProperties DEF Reverse

-----------------------------------------------------------------------------
(* Types, and when the timer is set. *)

Bounded == unread \in 0 .. MaxChunks /\ unread + received <= MaxChunks

\* What the time stamp and the timer say of the queue.  It is what keeps the
\* filter and the timer out of a running drain.  (A drain on which the sentinel
\* got stuck has lost the stamp, but nothing is left to read then.)
StampTells ==
  /\ frames # <<>> => timer = Nil /\ (first = Draining \/ process = "stuck")
  /\ frames = <<>> => first # Draining
  /\ frames = <<>> /\ pending = <<>> => first = Nil /\ timer = Nil

\* The sentinel comes last: all is read when it drains the queue.
SentinelLast ==
  /\ process = "stuck" => unread = 0 /\ timer = Nil
  /\ frames # <<>> /\ Last(frames).caller = "sentinel" => process = "dead" /\ unread = 0

OutputInv ==
  TypeOK /\ Bounded /\ StampTells /\ SentinelLast /\ NoChunkStranded /\ DeadlineKept

\* The invariant holds before the process writes.
LEMMA OutputInit == Init => OutputInv
<1> SUFFICES ASSUME Init PROVE OutputInv
  OBVIOUS
<1>1. <<>> \in Seq(Chunk) /\ <<>> \in Seq(Frame) /\ Len(<<>>) = 0
  BY EmptySeq
<1>2. TypeOK
  <2>1. Len(frames) <= 2 /\ Len(frames) # 2
    BY <1>1 DEF Init
  <2>2. frames \in Seq(Frame) /\ pending \in Seq(Chunk) /\ shown \in Seq(Chunk)
    BY <1>1 DEF Init
  <2>3. /\ process = "live" /\ unread \in 0 .. MaxChunks /\ received \in 0 .. MaxChunks
        /\ first = Nil /\ timer = Nil
    BY LatencyAssumption DEF LatencyAssumption, Init
  <2>4. terminal \in BOOLEAN /\ aborted \in BOOLEAN
    BY Zenon DEF Init
  <2> QED BY <2>1, <2>2, <2>3, <2>4 DEF TypeOK
<1>3. Bounded /\ StampTells /\ SentinelLast /\ NoChunkStranded /\ DeadlineKept
  BY LatencyAssumption DEF LatencyAssumption, Init, Bounded, StampTells, SentinelLast,
     NoChunkStranded, DeadlineKept, Nil, Draining
<1> QED BY <1>2, <1>3 DEF OutputInv

\* The age of the first chunk, when no drain runs.
LEMMA FirstTimeType ==
  ASSUME OutputInv, ~Busy, process # "stuck"
  PROVE  /\ frames = <<>>
         /\ FirstTime \in 0 .. MaxLatency
         /\ MaxLatency - FirstTime > 0 =>
              TimeLeft \in 0 .. MaxLatency /\ FirstTime + TimeLeft <= MaxLatency
<1>1. MaxLatency \in Nat /\ MinLatency \in Nat
  BY LatencyAssumption DEF LatencyAssumption
<1>2. first # Draining
  BY DEF Busy, FirstTime, Nil, Draining
<1>3. frames = <<>>
  BY <1>2 DEF OutputInv, StampTells
<1>4. FirstTime \in 0 .. MaxLatency
  BY <1>1, <1>2 DEF FirstTime, OutputInv, TypeOK, Nil, Draining
<1> QED BY <1>1, <1>3, <1>4 DEF TimeLeft

\* A drain starts: at top level, or on another when the sentinel starts it.
LEMMA DrainKeeps ==
  ASSUME OutputInv, NEW caller \in {"filter", "timer", "sentinel"}, NEW queue \in Seq(Chunk),
         frames = <<>> \/ (Len(frames) = 1 /\ caller = "sentinel" /\ queue # <<>>
                            /\ frames[1].caller # "sentinel"),
         caller = "sentinel" => process' = "dead" /\ unread' = 0,
         process' # "stuck",
         Drain(caller, queue)
  PROVE  /\ pending' \in Seq(Chunk) /\ frames' \in Seq(Frame)
         /\ first' \in {Nil, Draining} \cup (0 .. MaxLatency)
         /\ timer' \in {Nil} \cup (0 .. MaxLatency)
         /\ Len(frames') <= 2
         /\ Len(frames') = 2 => frames'[2].caller = "sentinel"
                                /\ frames'[1].caller # "sentinel"
         /\ StampTells' /\ SentinelLast' /\ NoChunkStranded' /\ DeadlineKept'
<1>0. <<>> \in Seq(Chunk) /\ frames \in Seq(Frame) /\ Len(frames) \in Nat
  BY EmptySeq DEF OutputInv, TypeOK
<1>1. timer' = Nil /\ pending' = <<>>
  BY DEF Drain
<1>2. CASE queue = <<>>
  <2>1. frames = <<>> /\ frames' = <<>> /\ first' = Nil
    BY <1>2 DEF Drain
  <2> QED BY <1>0, <1>1, <2>1, EmptySeq
        DEF StampTells, SentinelLast, NoChunkStranded, DeadlineKept, Nil, Draining
<1>3. CASE queue # <<>>
  <2> DEFINE f == [caller |-> caller, rest |-> Queue(queue), waits |-> FALSE]
  <2>1. f \in Frame
    BY ReverseType DEF Frame, Queue
  <2>2. first' = Draining /\ frames' = Append(frames, f)
    BY <1>3 DEF Drain
  <2>3. f.caller = caller
    OBVIOUS
  <2> HIDE DEF f
  <2>4. /\ frames' \in Seq(Frame) /\ frames' # <<>>
        /\ Len(frames') = Len(frames) + 1 /\ frames'[Len(frames) + 1] = f
        /\ Last(frames') = f
        /\ \A i \in 1 .. Len(frames) : frames'[i] = frames[i]
    BY <1>0, <2>1, <2>2, AppendProperties DEF Last
  <2>6. ASSUME Len(frames) = 1, caller = "sentinel", frames[1].caller # "sentinel"
        PROVE  /\ Len(frames') = 2 /\ frames'[2].caller = "sentinel"
               /\ frames'[1].caller # "sentinel"
    <3>1. Len(frames') = 2 /\ frames'[2] = f /\ frames'[1] = frames[1]
      BY <2>4, <2>6
    <3> QED BY <2>3, <2>6, <3>1
  <2>7. Len(frames') <= 2
        /\ (Len(frames') = 2 => frames'[2].caller = "sentinel"
                                /\ frames'[1].caller # "sentinel")
    <3>1. CASE frames = <<>>
      <4>1. Len(frames') = 1
        BY <2>4, <3>1, EmptySeq
      <4> QED BY <4>1
    <3>2. CASE Len(frames) = 1 /\ caller = "sentinel" /\ frames[1].caller # "sentinel"
      <4>1. Len(frames') = 2
        BY <2>6, <3>2
      <4> QED BY <2>6, <3>2, <4>1
    <3> QED BY <3>1, <3>2
  <2>8. SentinelLast'
    BY <2>3, <2>4 DEF SentinelLast
  <2> QED BY <1>0, <1>1, <2>2, <2>4, <2>7, <2>8
        DEF StampTells, NoChunkStranded, DeadlineKept
<1> QED BY <1>2, <1>3

\* The innermost frame is replaced by one of the same caller.
LEMMA ReplaceKeeps ==
  ASSUME OutputInv, frames # <<>>, NEW f \in Frame, f.caller = Last(frames).caller,
         frames' = Front(frames) \o <<f>>, UNCHANGED <<process, unread, timer>>,
         first' = Draining \/ process' = "stuck"
  PROVE  /\ frames' \in Seq(Frame) /\ frames' # <<>>
         /\ Len(frames') <= 2
         /\ Len(frames') = 2 => frames'[2].caller = "sentinel"
                                /\ frames'[1].caller # "sentinel"
         /\ StampTells' /\ SentinelLast' /\ NoChunkStranded' /\ DeadlineKept'
<1>1. frames \in Seq(Frame) /\ Len(frames) <= 2
      /\ (Len(frames) = 2 => frames[2].caller = "sentinel" /\ frames[1].caller # "sentinel")
      /\ timer = Nil
  BY DEF OutputInv, TypeOK, StampTells
<1>2. /\ frames' \in Seq(Frame) /\ frames' # <<>> /\ Len(frames') = Len(frames)
      /\ Last(frames') = f
      /\ \A i \in 1 .. Len(frames) - 1 : frames'[i] = frames[i]
  BY <1>1, ReplaceInnermost
<1>3. Len(frames') = 2 => frames'[2].caller = "sentinel" /\ frames'[1].caller # "sentinel"
  <2> SUFFICES ASSUME Len(frames') = 2
               PROVE  frames'[2].caller = "sentinel" /\ frames'[1].caller # "sentinel"
    OBVIOUS
  <2>1. frames'[2] = f /\ frames[2] = Last(frames) /\ frames'[1] = frames[1]
    BY <1>2 DEF Last
  <2> QED BY <1>1, <1>2, <2>1
<1>4. SentinelLast'
  BY <1>2 DEF OutputInv, SentinelLast
<1> QED BY <1>1, <1>2, <1>3, <1>4 DEF StampTells, NoChunkStranded, DeadlineKept

\* The terminal is deleted.
LEMMA EndedKeeps ==
  ASSUME OutputInv, Ended, pending = <<>>,
         UNCHANGED <<pending, unread, received, shown, aborted>>
  PROVE  OutputInv'
<1>1. <<>> \in Seq(Chunk) /\ <<>> \in Seq(Frame) /\ Len(<<>>) = 0
  BY EmptySeq
<1>2. /\ process' = "deleted" /\ terminal' = FALSE /\ frames' = <<>>
      /\ first' = Nil /\ timer' = Nil
  BY DEF Ended
<1>3. TypeOK'
  <2>1. Len(frames') = 0
    BY <1>1, <1>2
  <2>2. Len(frames') <= 2 /\ Len(frames') # 2
    BY <2>1
  <2> QED BY <1>1, <1>2, <2>2 DEF OutputInv, TypeOK
<1>4. Bounded' /\ StampTells' /\ SentinelLast' /\ NoChunkStranded' /\ DeadlineKept'
  BY <1>2 DEF OutputInv, Bounded, StampTells, SentinelLast, NoChunkStranded,
     DeadlineKept, Nil, Draining
<1> QED BY <1>3, <1>4 DEF OutputInv

\* Every step preserves the invariant.
LEMMA OutputStep == OutputInv /\ [Next]_vars => OutputInv'
<1> SUFFICES ASSUME OutputInv, [Next]_vars PROVE OutputInv'
  OBVIOUS
<1> USE DEF OutputInv
<1>0. /\ MaxLatency \in Nat /\ MinLatency \in Nat /\ MaxChunks \in Nat
      /\ unread \in Nat /\ received \in Nat
  BY LatencyAssumption DEF LatencyAssumption, TypeOK
<1>1. CASE Write
  BY <1>0, <1>1 DEF Write, TypeOK, Bounded, StampTells, SentinelLast, NoChunkStranded,
     DeadlineKept
<1>2. CASE ProcessDies
  BY <1>2 DEF ProcessDies, TypeOK, Bounded, StampTells, SentinelLast, NoChunkStranded,
     DeadlineKept
<1>3. CASE Filter
  <2> DEFINE queue == <<received + 1>> \o pending
  <2>1. received + 1 \in Chunk
    BY <1>0, <1>3 DEF Filter, Bounded, Chunk
  <2>2. queue \in Seq(Chunk) /\ queue # <<>>
    <3>1. <<received + 1>> \in Seq(Chunk) /\ <<received + 1>> # <<>> /\ pending \in Seq(Chunk)
      BY <2>1 DEF TypeOK
    <3> QED BY <3>1, ConcatProperties, ConcatEqualIffEmpty, ConcatSimplifications
  <2>3. unread' \in 0 .. MaxChunks /\ received' \in 0 .. MaxChunks
        /\ unread' + received' <= MaxChunks
        /\ UNCHANGED <<process, shown, terminal, aborted>>
        /\ process # "stuck" /\ (frames # <<>> => Last(frames).caller # "sentinel")
    BY <1>0, <1>3 DEF Filter, Bounded, SentinelLast
  <2> HIDE DEF queue
  <2>4. CASE Busy
    <3>1. pending' = queue /\ timer' = Nil /\ UNCHANGED <<first, frames>>
      BY <1>3, <2>4 DEF Filter, queue
    <3>2. frames # <<>>
      BY <2>4 DEF Busy, FirstTime, StampTells, Nil, Draining
    <3> QED BY <2>2, <2>3, <3>1, <3>2
          DEF TypeOK, Bounded, StampTells, SentinelLast, NoChunkStranded, DeadlineKept
  <2>5. CASE ~Busy /\ MaxLatency - FirstTime <= 0
    <3>1. Drain("filter", queue) /\ frames = <<>>
      BY <1>3, <2>3, <2>5, FirstTimeType DEF Filter, queue
    <3> QED BY <2>2, <2>3, <3>1, DrainKeeps DEF TypeOK, Bounded
  <2>6. CASE ~Busy /\ ~(MaxLatency - FirstTime <= 0)
    <3>1. pending' = queue /\ timer' = TimeLeft /\ first' = FirstTime /\ UNCHANGED frames
      BY <1>3, <2>6 DEF Filter, Schedule, queue
    <3>2. frames = <<>> /\ FirstTime \in 0 .. MaxLatency
          /\ TimeLeft \in 0 .. MaxLatency /\ FirstTime + TimeLeft <= MaxLatency
      BY <1>0, <2>3, <2>6, FirstTimeType
    <3>3. TypeOK'
      BY <2>2, <2>3, <3>1, <3>2 DEF TypeOK
    <3>4. first' # Draining /\ timer' # Nil /\ first' \in 0 .. MaxLatency
          /\ first' + timer' <= MaxLatency
      BY <1>0, <3>1, <3>2 DEF Nil, Draining
    <3>5. Bounded' /\ StampTells' /\ SentinelLast' /\ NoChunkStranded' /\ DeadlineKept'
      BY <2>2, <2>3, <3>1, <3>2, <3>4
        DEF Bounded, StampTells, SentinelLast, NoChunkStranded, DeadlineKept
    <3> QED BY <3>3, <3>5
  <2> QED BY <2>4, <2>5, <2>6
<1>4. CASE TimerFires
  <2>1. /\ Drain("timer", pending)
        /\ UNCHANGED <<process, unread, received, shown, terminal, aborted>>
    BY <1>4 DEF TimerFires
  <2>2. frames = <<>>
    BY <1>4 DEF TimerFires, StampTells, Nil
  <2>3. process' # "stuck"
    BY <1>4, <2>1 DEF TimerFires, SentinelLast, Nil
  <2> QED BY <2>1, <2>2, <2>3, DrainKeeps DEF TypeOK, Bounded
<1>5. CASE ProcessChunk
  <2> DEFINE l == Last(frames)
  <2>1. /\ frames # <<>> /\ l.rest # <<>> /\ shown' = Append(shown, Head(l.rest))
        /\ UNCHANGED <<process, unread, received, pending, first, timer, terminal, aborted>>
    BY <1>5 DEF ProcessChunk
  <2>2. PICK waits \in BOOLEAN :
          frames' = Front(frames) \o <<[l EXCEPT !.rest = Tail(@), !.waits = waits]>>
    BY <1>5 DEF ProcessChunk
  <2> DEFINE f == [l EXCEPT !.rest = Tail(@), !.waits = waits]
  <2>3. l \in Frame
    BY <2>1, InnermostFrame DEF TypeOK
  <2>4. Head(l.rest) \in Chunk /\ Tail(l.rest) \in Seq(Chunk)
    BY <2>1, <2>3, HeadTailProperties DEF Frame
  <2>5. f \in Frame /\ f.caller = l.caller
    BY <2>3, <2>4 DEF Frame
  <2>6. shown' \in Seq(Chunk)
    BY <2>1, <2>4, AppendProperties DEF TypeOK
  <2>7. first' = Draining \/ process' = "stuck"
    BY <2>1 DEF StampTells
  <2> HIDE DEF f
  <2>8. frames' = Front(frames) \o <<f>>
    BY <2>2 DEF f
  <2> QED BY <2>1, <2>5, <2>6, <2>7, <2>8, ReplaceKeeps DEF TypeOK, Bounded
<1>6. CASE EndWait
  <2> DEFINE l == Last(frames)
             f == [l EXCEPT !.waits = FALSE]
  <2>1. /\ frames # <<>> /\ frames' = Front(frames) \o <<f>>
        /\ UNCHANGED <<process, unread, received, pending, first, timer, shown, terminal,
                       aborted>>
    BY <1>6 DEF EndWait
  <2>2. l \in Frame
    BY <2>1, InnermostFrame DEF TypeOK
  <2>3. f \in Frame /\ f.caller = l.caller
    BY <2>2 DEF Frame
  <2>4. first' = Draining \/ process' = "stuck"
    BY <2>1 DEF StampTells
  <2> HIDE DEF f
  <2> QED BY <2>1, <2>3, <2>4, ReplaceKeeps DEF TypeOK, Bounded
<1>7. CASE EndRound
  <2>1. frames # <<>> /\ UNCHANGED <<unread, received, shown, aborted>>
    BY <1>7 DEF EndRound
  <2>2. CASE More
    <3> DEFINE l == Last(frames)
               f == [l EXCEPT !.rest = Queue(pending)]
    <3>1. /\ frames' = Front(frames) \o <<f>> /\ pending' = <<>> /\ first' = Draining
          /\ UNCHANGED <<process, timer, terminal>>
      BY <1>7, <2>2 DEF EndRound
    <3>2. l \in Frame
      BY <2>1, InnermostFrame DEF TypeOK
    <3>3. f \in Frame /\ f.caller = l.caller
      BY <3>2, ReverseType DEF Frame, Queue, TypeOK
    <3> HIDE DEF f
    <3>4. <<>> \in Seq(Chunk)
      BY EmptySeq
    <3> QED BY <2>1, <3>1, <3>3, <3>4, ReplaceKeeps DEF TypeOK, Bounded
  <2>3. CASE ~More /\ Last(frames).caller = "sentinel"
    <3>1. Ended /\ UNCHANGED pending /\ pending = <<>>
      BY <1>7, <2>3 DEF EndRound, More
    <3> QED BY <2>1, <3>1, EndedKeeps
  <2>4. CASE ~More /\ Last(frames).caller # "sentinel"
    <3>1. /\ frames' = Front(frames) /\ first' = Nil /\ pending = <<>>
          /\ UNCHANGED <<process, pending, timer, terminal>>
      BY <1>7, <2>4 DEF EndRound, More
    <3>2. Len(frames) = 1
      <4>1. Len(frames) \in Nat \ {0}
        BY <2>1, EmptySeq DEF TypeOK
      <4>2. Len(frames) # 2
        BY <2>4 DEF TypeOK, Last
      <4>3. Len(frames) <= 2
        BY DEF TypeOK
      <4> QED BY <4>1, <4>2, <4>3, OneFrame
    <3>3. frames' = <<>>
      BY <3>1, <3>2, SubSeqEmpty DEF Front
    <3>4. <<>> \in Seq(Frame) /\ Len(<<>>) = 0
      BY EmptySeq
    <3>5. timer = Nil
      BY <2>1 DEF StampTells
    <3> QED BY <2>1, <3>1, <3>3, <3>4, <3>5
          DEF TypeOK, Bounded, StampTells, SentinelLast, NoChunkStranded, DeadlineKept,
              Nil, Draining
  <2> QED BY <2>2, <2>3, <2>4
<1>8. CASE Sentinel
  <2>1. UNCHANGED <<unread, received, shown, aborted>> /\ process = "dead" /\ unread = 0
    BY <1>8 DEF Sentinel
  <2>2. CASE Left
    <3>1. Drain("sentinel", pending) /\ UNCHANGED <<process, terminal>> /\ pending # <<>>
      BY <1>8, <2>2 DEF Sentinel, Left
    <3>2. frames = <<>> \/ (Len(frames) = 1 /\ frames[1].caller # "sentinel")
      <4>1. Len(frames) \in Nat /\ (Len(frames) = 0 => frames = <<>>)
        BY EmptySeq DEF TypeOK
      <4>2. DOMAIN frames = 1 .. Len(frames)
        BY LenProperties DEF TypeOK
      <4>3. Len(frames) # 2
        BY <1>8, <4>1, <4>2 DEF Sentinel, TypeOK
      <4>4. Len(frames) <= 2
        BY DEF TypeOK
      <4>5. Len(frames) = 0 \/ Len(frames) = 1
        BY <4>1, <4>3, <4>4, OneFrame
      <4>6. Len(frames) = 1 => frames[1].caller # "sentinel"
        BY <1>8, <4>2 DEF Sentinel
      <4> QED BY <4>1, <4>5, <4>6
    <3> QED BY <2>1, <3>1, <3>2, DrainKeeps DEF TypeOK, Bounded
  <2>3. CASE ~Left
    BY <1>8, <2>1, <2>3, EndedKeeps DEF Sentinel, Left
  <2> QED BY <2>2, <2>3
<1>9. CASE KillBuffer
  <2>1. <<>> \in Seq(Chunk)
    BY EmptySeq
  <2>2. /\ frames = <<>> /\ process' = "killed" /\ terminal' = FALSE /\ pending' = <<>>
        /\ first' = Nil /\ timer' = Nil /\ unread' = 0
        /\ UNCHANGED <<received, frames, shown, aborted>>
    BY <1>9 DEF KillBuffer
  <2>3. TypeOK'
    <3>1. 0 \in 0 .. MaxChunks
      BY <1>0
    <3> QED BY <2>1, <2>2, <3>1 DEF TypeOK
  <2>4. Bounded'
    BY <1>0, <2>2 DEF TypeOK, Bounded
  <2>5. StampTells' /\ SentinelLast' /\ NoChunkStranded' /\ DeadlineKept'
    BY <2>2 DEF StampTells, SentinelLast, NoChunkStranded, DeadlineKept, Nil, Draining
  <2> QED BY <2>3, <2>4, <2>5
<1>10. CASE Tick
  <2>1. UNCHANGED <<process, unread, received, pending, frames, shown, terminal, aborted>>
    BY <1>10 DEF Tick
  <2>2. /\ first' = IF first \in 0 .. MaxLatency - 1 THEN first + 1 ELSE first
        /\ timer' = IF timer > 0 THEN timer - 1 ELSE timer
    BY <1>10 DEF Tick
  <2>3. /\ first' \in {Nil, Draining} \cup (0 .. MaxLatency)
        /\ timer' \in {Nil} \cup (0 .. MaxLatency)
        /\ (first' = Draining) = (first = Draining) /\ (first' = Nil) = (first = Nil)
        /\ (timer' = Nil) = (timer = Nil)
    BY <1>0, <2>2 DEF TypeOK, Nil, Draining
  <2>4. DeadlineKept'
    BY <1>0, <2>2, <2>3 DEF TypeOK, DeadlineKept, Nil, Draining
  <2> QED
    BY <2>1, <2>3, <2>4 DEF TypeOK, Bounded, StampTells, SentinelLast, NoChunkStranded
<1>11. CASE AnswerFails
  <2>1. /\ frames # <<>> /\ frames' = Front(frames) /\ first' = Nil /\ aborted' = TRUE
        /\ process' = IF Last(frames).caller = "sentinel" THEN "stuck" ELSE process
        /\ UNCHANGED <<unread, received, pending, timer, shown, terminal>>
    BY <1>11 DEF AnswerFails
  <2>2. timer = Nil
    BY <2>1 DEF StampTells
  <2>3. /\ frames' \in Seq(Frame) /\ Len(frames') = Len(frames) - 1
        /\ Len(frames) \in Nat \ {0} /\ Len(frames) <= 2
        /\ \A i \in 1 .. Len(frames) - 1 : frames'[i] = frames[i]
    BY <2>1, InnermostFrame, EmptySeq DEF TypeOK
  <2>4. frames' # <<>> => Len(frames') = 1 /\ Len(frames) = 2
    BY <2>3, EmptySeq
  <2>5. frames' # <<>> => /\ Last(frames).caller = "sentinel"
                          /\ Last(frames').caller # "sentinel"
    BY <2>3, <2>4 DEF TypeOK, Last
  <2>6. TypeOK'
    <3>1. process' \in {"live", "dead", "deleted", "stuck", "killed"}
      BY <2>1 DEF TypeOK
    <3>2. Len(frames') <= 2 /\ Len(frames') # 2
      BY <2>3
    <3> QED BY <2>1, <2>3, <3>1, <3>2 DEF TypeOK
  <2>7. StampTells'
    BY <2>1, <2>2, <2>5 DEF StampTells, Nil, Draining
  <2>8. SentinelLast'
    BY <2>1, <2>2, <2>5 DEF SentinelLast
  <2> QED BY <2>1, <2>2, <2>6, <2>7, <2>8 DEF Bounded, NoChunkStranded, DeadlineKept
<1>12. CASE UNCHANGED vars
  BY <1>12 DEF vars, TypeOK, Bounded, StampTells, SentinelLast, NoChunkStranded,
     DeadlineKept
<1> QED
  BY <1>1, <1>2, <1>3, <1>4, <1>5, <1>6, <1>7, <1>8, <1>9, <1>10, <1>11, <1>12 DEF Next

\* Every variable holds a value of its type, and only the sentinel's drain
\* interrupts another.
THEOREM OutputTypeCorrect == Spec => []TypeOK
<1>1. OutputInv => TypeOK
  BY DEF OutputInv
<1> QED BY OutputInit, OutputStep, <1>1, PTL DEF Spec

\* No chunk waits with nothing to process it.
THEOREM NoChunkEverStranded == Spec => []NoChunkStranded
<1>1. OutputInv => NoChunkStranded
  BY DEF OutputInv
<1> QED BY OutputInit, OutputStep, <1>1, PTL DEF Spec

\* The timer is due by the maximum latency, for all latencies, also a minimum
\* that exceeds the maximum.
THEOREM DeadlineAlwaysKept == Spec => []DeadlineKept
<1>1. OutputInv => DeadlineKept
  BY DEF OutputInv
<1> QED BY OutputInit, OutputStep, <1>1, PTL DEF Spec
-----------------------------------------------------------------------------
(* The order of the chunks. *)

Upto(n) == [i \in 1 .. n |-> i]

\* One more chunk.
LEMMA UptoSucc ==
  ASSUME NEW n \in Nat, n + 1 \in Chunk
  PROVE  Upto(n) \in Seq(Chunk) /\ Upto(n + 1) = Upto(n) \o <<n + 1>>
<1>0. MaxChunks \in Nat /\ n + 1 <= MaxChunks
  BY LatencyAssumption DEF LatencyAssumption, Chunk
<1>1. Upto(n) \in Seq(Chunk) /\ Len(Upto(n)) = n /\ \A i \in 1 .. n : Upto(n)[i] = i
  <2>1. \A i \in 1 .. n : i \in Chunk
    BY <1>0 DEF Chunk
  <2>2. Upto(n) \in Seq(Chunk)
    BY <2>1, IsASeq DEF Upto
  <2> QED BY <2>2, LenProperties DEF Upto
<1>2. Upto(n + 1) \in Seq(Chunk) /\ Len(Upto(n + 1)) = n + 1
      /\ \A i \in 1 .. n + 1 : Upto(n + 1)[i] = i
  <2>1. \A i \in 1 .. n + 1 : i \in Chunk
    BY <1>0 DEF Chunk
  <2>2. Upto(n + 1) \in Seq(Chunk)
    BY <2>1, IsASeq DEF Upto
  <2> QED BY <2>2, LenProperties DEF Upto
<1>3. <<n + 1>> \in Seq(Chunk) /\ Len(<<n + 1>>) = 1 /\ <<n + 1>>[1] = n + 1
  OBVIOUS
<1> DEFINE s == Upto(n) \o <<n + 1>>
<1>4. /\ s \in Seq(Chunk) /\ Len(s) = n + 1
      /\ \A i \in 1 .. n + 1 : s[i] = IF i <= n THEN Upto(n)[i] ELSE <<n + 1>>[i - n]
  BY <1>1, <1>3, ConcatProperties
<1>5. \A i \in 1 .. n + 1 : s[i] = i
  <2> SUFFICES ASSUME NEW i \in 1 .. n + 1 PROVE s[i] = i
    OBVIOUS
  <2> HIDE DEF s
  <2>1. CASE i <= n
    BY <1>1, <1>4, <2>1
  <2>2. CASE i = n + 1
    BY <1>3, <1>4, <2>2
  <2> QED BY <2>1, <2>2
<1> HIDE DEF s
<1>6. Upto(n + 1) = s
  BY <1>2, <1>4, <1>5, SeqEqual
<1> QED BY <1>1, <1>6 DEF s

\* An empty queue.
LEMMA ReverseEmpty == Reverse(<<>>) = <<>>
<1>1. <<>> \in Seq(Chunk) /\ Len(<<>>) = 0
  BY EmptySeq
<1> QED BY <1>1, ReverseType, EmptySeq

\* What is pushed on the queue comes last when it is reversed.
LEMMA ReversePush ==
  ASSUME NEW q \in Seq(Chunk), NEW c \in Chunk
  PROVE  Reverse(<<c>> \o q) = Reverse(q) \o <<c>>
<1> DEFINE p == <<c>> \o q
           r == Reverse(q) \o <<c>>
           n == Len(q)
<1>0. n \in Nat
  BY LenProperties
<1>1. <<c>> \in Seq(Chunk) /\ Len(<<c>>) = 1 /\ <<c>>[1] = c
  OBVIOUS
<1>2. /\ p \in Seq(Chunk) /\ Len(p) = n + 1
      /\ \A i \in 1 .. n + 1 : p[i] = IF i <= 1 THEN <<c>>[i] ELSE q[i - 1]
  BY <1>0, <1>1, ConcatProperties
<1>3. Reverse(q) \in Seq(Chunk) /\ Len(Reverse(q)) = n
      /\ \A i \in 1 .. n : Reverse(q)[i] = q[n - i + 1]
  BY ReverseType DEF Reverse
<1>4. /\ r \in Seq(Chunk) /\ Len(r) = n + 1
      /\ \A i \in 1 .. n + 1 : r[i] = IF i <= n THEN Reverse(q)[i] ELSE <<c>>[i - n]
  BY <1>0, <1>1, <1>3, ConcatProperties
<1> HIDE DEF p, r
<1>5. Reverse(p) \in Seq(Chunk) /\ Len(Reverse(p)) = n + 1
      /\ \A i \in 1 .. n + 1 : Reverse(p)[i] = p[(n + 1) - i + 1]
  BY <1>2, ReverseType DEF Reverse
<1>6. \A i \in 1 .. n + 1 : Reverse(p)[i] = r[i]
  <2> SUFFICES ASSUME NEW i \in 1 .. n + 1 PROVE Reverse(p)[i] = r[i]
    OBVIOUS
  <2> HIDE DEF n
  <2>1. CASE i <= n
    <3>1. (n + 1) - i + 1 \in 1 .. n + 1 /\ ~((n + 1) - i + 1 <= 1)
          /\ ((n + 1) - i + 1) - 1 = n - i + 1 /\ i \in 1 .. n
      BY <1>0, <2>1
    <3>2. Reverse(p)[i] = q[n - i + 1]
      BY <1>2, <1>5, <3>1
    <3> QED BY <1>3, <1>4, <2>1, <3>1, <3>2
  <2>2. CASE i = n + 1
    <3>1. (n + 1) - i + 1 = 1 /\ 1 \in 1 .. n + 1 /\ i - n = 1 /\ ~(i <= n)
      BY <1>0, <2>2
    <3>2. Reverse(p)[i] = p[1]
      BY <1>5, <3>1
    <3>3. p[1] = c
      BY <1>1, <1>2, <3>1
    <3>4. r[i] = <<c>>[1]
      BY <1>4, <3>1
    <3> QED BY <1>1, <3>2, <3>3, <3>4
  <2> QED BY <1>0, <2>1, <2>2
<1>7. Reverse(p) = r
  BY <1>0, <1>4, <1>5, <1>6, SeqEqual
<1> QED BY <1>7 DEF p, r

\* What the outermost drain still holds.
Rest == IF frames = <<>> THEN <<>> ELSE frames[1].rest

OrderInv == ~Ending => (shown \o Rest) \o Reverse(pending) = Upto(received)

\* The sequences that OrderInv is about.
LEMMA RestType ==
  ASSUME OutputInv
  PROVE  /\ shown \in Seq(Chunk) /\ Rest \in Seq(Chunk) /\ pending \in Seq(Chunk)
         /\ Reverse(pending) \in Seq(Chunk) /\ <<>> \in Seq(Chunk)
         /\ Len(frames) \in Nat /\ (Len(frames) = 0) = (frames = <<>>)
         /\ received \in Nat
<1>1. shown \in Seq(Chunk) /\ pending \in Seq(Chunk) /\ frames \in Seq(Frame)
      /\ received \in Nat
  BY LatencyAssumption DEF LatencyAssumption, OutputInv, TypeOK
<1>2. <<>> \in Seq(Chunk) /\ Len(frames) \in Nat /\ (Len(frames) = 0) = (frames = <<>>)
  BY <1>1, EmptySeq
<1>3. ASSUME frames # <<>> PROVE frames[1].rest \in Seq(Chunk)
  <2>1. 1 \in 1 .. Len(frames)
    BY <1>2, <1>3
  <2>2. frames[1] \in Frame
    BY <1>1, <2>1, ElementOfSeq
  <2> QED BY <2>2 DEF Frame
<1> QED BY <1>1, <1>2, <1>3, ReverseType DEF Rest

\* A drain that starts at top level takes over the queue as it came.
LEMMA DrainOrder ==
  ASSUME NEW queue \in Seq(Chunk), NEW caller \in {"filter", "timer", "sentinel"},
         shown \in Seq(Chunk), frames = <<>>, Drain(caller, queue), shown' = shown
  PROVE  (shown' \o Rest') \o Reverse(pending') = shown \o Reverse(queue)
<1>0. pending' = <<>> /\ <<>> \in Seq(Chunk) /\ Reverse(queue) \in Seq(Chunk)
  BY EmptySeq, ReverseType DEF Drain
<1>1. Rest' = Reverse(queue)
  <2>1. CASE queue = <<>>
    BY <2>1, ReverseEmpty DEF Drain, Rest
  <2>2. CASE queue # <<>>
    <3> DEFINE f == [caller |-> caller, rest |-> Queue(queue), waits |-> FALSE]
    <3>1. frames' = Append(<<>>, f)
      BY <2>2 DEF Drain
    <3>2. f.rest = Reverse(queue)
      BY DEF Queue
    <3> HIDE DEF f
    <3>3. frames' = <<f>>
      BY <3>1
    <3> QED BY <3>2, <3>3 DEF Rest
  <2> QED BY <2>1, <2>2
<1>2. shown \o Reverse(queue) \in Seq(Chunk)
  BY <1>0, ConcatProperties
<1> QED BY <1>0, <1>1, <1>2, ReverseEmpty, ConcatEmptySeq

\* At most one drain runs when the terminal does not end: the innermost is the
\* outermost, before and after the step.
LEMMA SingleFrame ==
  ASSUME OutputInv, frames # <<>>, NEW f \in Frame, ~Ending',
         frames' = Front(frames) \o <<f>>, UNCHANGED <<terminal, aborted>>
  PROVE  ~Ending /\ Last(frames) = frames[1] /\ Rest = frames[1].rest /\ Rest' = f.rest
<1>1. frames \in Seq(Frame)
  BY DEF OutputInv, TypeOK
<1>2. Len(frames') = Len(frames) /\ frames' # <<>> /\ Last(frames') = f
  BY <1>1, ReplaceInnermost
<1>3. Len(frames) = 1
  BY <1>2, RestType DEF Ending
<1> QED BY <1>2, <1>3 DEF Ending, Last, Rest

\* Every step preserves the order of the chunks.
LEMMA OrderStep == OutputInv /\ OrderInv /\ [Next]_vars => OrderInv'
<1> SUFFICES ASSUME OutputInv, OrderInv, [Next]_vars, ~Ending'
             PROVE  (shown' \o Rest') \o Reverse(pending') = Upto(received')
  BY DEF OrderInv
<1>0. /\ shown \in Seq(Chunk) /\ Rest \in Seq(Chunk) /\ pending \in Seq(Chunk)
      /\ Reverse(pending) \in Seq(Chunk) /\ <<>> \in Seq(Chunk)
      /\ received \in Nat
  BY RestType
<1>1. ASSUME UNCHANGED <<received, pending, frames, shown, terminal, aborted>>
      PROVE  (shown' \o Rest') \o Reverse(pending') = Upto(received')
  BY <1>1 DEF OrderInv, Ending, Rest
<1>2. ASSUME frames = <<>>, ~Ending
      PROVE  shown \o Reverse(pending) = Upto(received)
  <2>1. Rest = <<>> /\ shown \o <<>> = shown
    BY <1>0, <1>2, ConcatEmptySeq DEF Rest
  <2> QED BY <1>2, <2>1 DEF OrderInv
<1>3. CASE Write
  BY <1>1, <1>3 DEF Write
<1>4. CASE ProcessDies
  BY <1>1, <1>4 DEF ProcessDies
<1>5. CASE Filter
  <2> DEFINE c == received + 1
             queue == <<c>> \o pending
  <2>1. c \in Chunk
    BY <1>0, <1>5, LatencyAssumption
      DEF LatencyAssumption, Filter, Chunk, OutputInv, TypeOK, Bounded
  <2>2. received' = c /\ UNCHANGED <<shown, terminal, aborted>>
    BY <1>5 DEF Filter
  <2>3. /\ Reverse(queue) = Reverse(pending) \o <<c>>
        /\ Upto(c) = Upto(received) \o <<c>>
    BY <1>0, <2>1, ReversePush, UptoSucc
  <2>4. <<c>> \in Seq(Chunk) /\ queue \in Seq(Chunk)
    <3>1. <<c>> \in Seq(Chunk)
      BY <2>1
    <3> QED BY <1>0, <3>1, ConcatProperties
  <2>5. CASE pending' = queue /\ frames' = frames
    <3>1. ~Ending /\ Rest' = Rest
      BY <2>2, <2>5 DEF Ending, Rest
    <3> DEFINE s == shown \o Rest
               last == <<c>>
               old == Reverse(pending)
    <3>2. s \in Seq(Chunk) /\ s \o Reverse(pending) = Upto(received)
      BY <1>0, <3>1, ConcatProperties DEF OrderInv
    <3>3. (shown' \o Rest') \o Reverse(pending') = s \o (old \o last)
      BY <2>2, <2>3, <2>5, <3>1
    <3>4. last \in Seq(Chunk) /\ old \in Seq(Chunk) /\ s \in Seq(Chunk)
      BY <1>0, <2>4, <3>2
    <3>5. Upto(received') = Upto(received) \o last
      BY <2>2, <2>3
    <3>6. s \o old = Upto(received)
      BY <3>2
    <3> HIDE DEF s, last, old
    <3>7. s \o (old \o last) = (s \o old) \o last
      BY <3>4, ConcatAssociative
    <3> QED BY <3>3, <3>5, <3>6, <3>7
  <2>6. CASE Drain("filter", queue) /\ frames = <<>>
    <3>1. ~Ending
      BY <2>2, <2>6, EmptySeq DEF Ending
    <3>2. (shown' \o Rest') \o Reverse(pending') = shown \o Reverse(queue)
      BY <1>0, <2>2, <2>4, <2>6, DrainOrder
    <3>3. shown \o (Reverse(pending) \o <<c>>) = (shown \o Reverse(pending)) \o <<c>>
      BY <1>0, <2>4, ConcatAssociative
    <3> QED BY <1>2, <2>2, <2>3, <2>6, <3>1, <3>2, <3>3
  <2>7. (pending' = queue /\ frames' = frames)
        \/ (Drain("filter", queue) /\ ~Busy /\ process # "stuck")
    BY <1>5 DEF Filter, OutputInv, SentinelLast
  <2> QED BY <2>5, <2>6, <2>7, FirstTimeType
<1>6. ASSUME NEW caller \in {"filter", "timer", "sentinel"}, Drain(caller, pending),
             frames = <<>>, UNCHANGED <<received, shown, terminal, aborted>>
      PROVE  (shown' \o Rest') \o Reverse(pending') = Upto(received')
  <2>1. ~Ending
    BY <1>6, EmptySeq DEF Ending
  <2>2. (shown' \o Rest') \o Reverse(pending') = shown \o Reverse(pending)
    BY <1>0, <1>6, DrainOrder
  <2> QED BY <1>2, <1>6, <2>1, <2>2
<1>7. CASE TimerFires
  <2>1. frames = <<>>
    BY <1>7 DEF TimerFires, OutputInv, StampTells, Nil
  <2> QED BY <1>6, <1>7, <2>1 DEF TimerFires
<1>8. CASE ProcessChunk
  <2> DEFINE l == Last(frames)
  <2>1. /\ frames # <<>> /\ l.rest # <<>> /\ shown' = Append(shown, Head(l.rest))
        /\ UNCHANGED <<received, pending, terminal, aborted>>
    BY <1>8 DEF ProcessChunk
  <2>2. PICK waits \in BOOLEAN :
          frames' = Front(frames) \o <<[l EXCEPT !.rest = Tail(@), !.waits = waits]>>
    BY <1>8 DEF ProcessChunk
  <2> DEFINE f == [l EXCEPT !.rest = Tail(@), !.waits = waits]
  <2>3. l \in Frame
    BY <2>1, InnermostFrame DEF OutputInv, TypeOK
  <2>4. Head(l.rest) \in Chunk /\ Tail(l.rest) \in Seq(Chunk)
    BY <2>1, <2>3, HeadTailProperties DEF Frame
  <2>5. f \in Frame /\ f.rest = Tail(l.rest)
    BY <2>3, <2>4 DEF Frame
  <2>6. frames' = Front(frames) \o <<f>>
    BY <2>2
  <2> HIDE DEF f
  <2>7. ~Ending /\ Rest = l.rest /\ Rest' = Tail(l.rest)
    BY <2>1, <2>5, <2>6, SingleFrame
  <2> DEFINE h == Head(l.rest)
             t == Tail(l.rest)
  <2>8. l.rest = <<h>> \o t
    <3>1. l.rest \in Seq(Chunk) /\ l.rest # <<>>
      BY <2>1, <2>3 DEF Frame
    <3> QED BY <3>1
  <2>9. <<h>> \in Seq(Chunk) /\ t \in Seq(Chunk) /\ Append(shown, h) = shown \o <<h>>
    BY <1>0, <2>4, AppendIsConcat
  <2> HIDE DEF h, t
  <2>10. (shown \o <<h>>) \o t = shown \o (<<h>> \o t)
    BY <1>0, <2>9, ConcatAssociative
  <2>11. shown' \o Rest' = shown \o Rest
    BY <2>1, <2>7, <2>8, <2>9, <2>10 DEF h, t
  <2> QED BY <2>1, <2>7, <2>11 DEF OrderInv
<1>9. CASE EndWait
  <2> DEFINE l == Last(frames)
             f == [l EXCEPT !.waits = FALSE]
  <2>1. /\ frames # <<>> /\ frames' = Front(frames) \o <<f>>
        /\ UNCHANGED <<received, pending, shown, terminal, aborted>>
    BY <1>9 DEF EndWait
  <2>2. l \in Frame
    BY <2>1, InnermostFrame DEF OutputInv, TypeOK
  <2>3. f \in Frame /\ f.rest = l.rest
    BY <2>2 DEF Frame
  <2> HIDE DEF f
  <2>4. ~Ending /\ Rest' = Rest
    BY <2>1, <2>3, SingleFrame
  <2> QED BY <2>1, <2>4 DEF OrderInv
<1>10. CASE EndRound
  <2>1. frames # <<>> /\ Last(frames).rest = <<>> /\ UNCHANGED <<received, shown, aborted>>
    BY <1>10 DEF EndRound
  <2>2. CASE More
    <3> DEFINE l == Last(frames)
               f == [l EXCEPT !.rest = Queue(pending)]
    <3>1. /\ frames' = Front(frames) \o <<f>> /\ pending' = <<>> /\ UNCHANGED terminal
      BY <1>10, <2>2 DEF EndRound
    <3>2. l \in Frame
      BY <2>1, InnermostFrame DEF OutputInv, TypeOK
    <3>3. f \in Frame /\ f.rest = Reverse(pending)
      BY <1>0, <3>2 DEF Frame, Queue
    <3> HIDE DEF f
    <3>4. ~Ending /\ Rest = <<>> /\ Rest' = Reverse(pending)
      BY <2>1, <3>1, <3>3, SingleFrame
    <3>5. shown \o <<>> = shown /\ shown \o Reverse(pending) \in Seq(Chunk)
      BY <1>0, ConcatEmptySeq, ConcatProperties
    <3>6. (shown \o Reverse(pending)) \o <<>> = shown \o Reverse(pending)
      BY <3>5, ConcatEmptySeq
    <3>7. (shown' \o Rest') \o Reverse(pending') = shown \o Reverse(pending)
      BY <2>1, <3>1, <3>4, <3>6, ReverseEmpty
    <3> QED BY <2>1, <3>4, <3>5, <3>7 DEF OrderInv
  <2>3. CASE ~More /\ Last(frames).caller = "sentinel"
    BY <1>10, <2>3 DEF EndRound, Ended, Ending
  <2>4. CASE ~More /\ Last(frames).caller # "sentinel"
    <3>1. frames' = Front(frames) /\ pending = <<>> /\ UNCHANGED <<pending, terminal>>
      BY <1>10, <2>4 DEF EndRound, More
    <3>2. Len(frames) = 1
      <4>1. Len(frames) \in Nat /\ Len(frames) # 0
        BY <2>1, RestType
      <4>2. Len(frames) # 2
        BY <2>4 DEF OutputInv, TypeOK, Last
      <4>3. Len(frames) <= 2
        BY DEF OutputInv, TypeOK
      <4> QED BY <4>1, <4>2, <4>3, OneFrame
    <3>3. frames' = <<>>
      BY <3>1, <3>2, SubSeqEmpty DEF Front
    <3>4. ~Ending /\ Rest = <<>> /\ Rest' = <<>>
      BY <2>1, <3>1, <3>2, <3>3 DEF Ending, Last, Rest
    <3> QED BY <2>1, <3>1, <3>4 DEF OrderInv
  <2> QED BY <2>2, <2>3, <2>4
<1>11. CASE Sentinel
  <2>1. CASE Left
    <3>1. Drain("sentinel", pending) /\ UNCHANGED <<received, shown, terminal, aborted>>
          /\ pending # <<>>
      BY <1>11, <2>1 DEF Sentinel, Left
    <3>2. frames = <<>>
      <4> DEFINE f == [caller |-> "sentinel", rest |-> Queue(pending), waits |-> FALSE]
      <4>1. frames' = Append(frames, f)
        BY <3>1 DEF Drain
      <4>2. f \in Frame
        BY <1>0, ReverseType DEF Frame, Queue
      <4> HIDE DEF f
      <4>3. Len(frames') = Len(frames) + 1
        BY <4>1, <4>2, AppendProperties DEF OutputInv, TypeOK
      <4>4. Len(frames') <= 1
        <5>1. Len(frames') \in Nat
          BY <4>3, RestType
        <5> QED BY <5>1 DEF Ending
      <4> QED BY <4>3, <4>4, RestType
    <3> QED BY <1>6, <3>1, <3>2
  <2>2. CASE ~Left
    BY <1>11, <2>2 DEF Sentinel, Ended, Ending
  <2> QED BY <2>1, <2>2
<1>12. CASE KillBuffer
  BY <1>12 DEF KillBuffer, Ending
<1>13. CASE Tick
  BY <1>1, <1>13 DEF Tick
<1>14. CASE AnswerFails
  BY <1>14 DEF AnswerFails, Ending
<1>15. CASE UNCHANGED vars
  BY <1>1, <1>15 DEF vars
<1> QED
  BY <1>3, <1>4, <1>5, <1>7, <1>8, <1>9, <1>10, <1>11, <1>12, <1>13, <1>14, <1>15 DEF Next

\* Nothing is read at the start.
LEMMA OrderInit == Init => OrderInv
<1> SUFFICES ASSUME Init PROVE (shown \o Rest) \o Reverse(pending) = Upto(received)
  BY DEF OrderInv
<1>1. shown = <<>> /\ Rest = <<>> /\ Reverse(pending) = <<>> /\ received = 0
  BY ReverseEmpty DEF Init, Rest
<1>2. <<>> \in Seq(Chunk) /\ <<>> \o <<>> = <<>>
  BY EmptySeq, ConcatEmptySeq
<1>3. Upto(0) = <<>>
  <2>1. Upto(0) \in Seq(Chunk) /\ Len(Upto(0)) = 0
    BY IsASeq, LenProperties DEF Upto
  <2> QED BY <2>1, EmptySeq
<1> QED BY <1>1, <1>2, <1>3

\* Until the end of the process cuts a drain short, the chunks it was given,
\* those the drain holds and those queued are all that were read, in order.
THEOREM NothingEverLostOrReordered == Spec => []NothingLostOrReordered
<1>1. Init => OrderInv
  BY OrderInit
<1>2. OutputInv /\ OrderInv => NothingLostOrReordered
  BY DEF OrderInv, NothingLostOrReordered, Rest, Upto
<1> QED BY OutputInit, OutputStep, OrderStep, <1>1, <1>2, PTL DEF Spec
-----------------------------------------------------------------------------
(* How a chunk comes nearer to the terminal.  What fairness must still give   *)
(* is that the timer, the clock and a drain go on.                            *)

\* A chunk that was read is still to be shown.
Waiting == ~Ending /\ Len(shown) < received

\* How far the next chunk is from being shown: the rest of the latency before a
\* drain begins, the wait for the process and the next round of the queue in it.
Phase ==
  IF frames = <<>> THEN 3 + MaxLatency - first
  ELSE IF Last(frames).waits THEN 2
  ELSE IF Last(frames).rest = <<>> THEN 1
  ELSE 0

\* Something is there to go on with: a timer that is due or can come nearer, a
\* wait to end, a chunk, or a round of the queue.
CanGo ==
  IF frames = <<>>
  THEN pending # <<>> /\ (timer = 0 \/ first + 1 \in 0 .. MaxLatency)
  ELSE Last(frames).waits \/ Last(frames).rest # <<>> \/ pending # <<>>

\* The steps that bring the next chunk nearer.
Helps ==
  \/ TimerFires \/ ProcessChunk \/ EndWait \/ EndRound
  \/ Tick /\ frames = <<>> /\ timer # 0

NotFarther ==
  \/ Len(shown') > Len(shown)
  \/ Len(shown') = Len(shown) /\ Phase' <= Phase

Nearer == NotFarther /\ ~(Len(shown') = Len(shown) /\ Phase' = Phase)

\* Until the terminal ends, the chunks shown, held and queued are those read.
LEMMA ChunksCounted ==
  ASSUME OutputInv, OrderInv, ~Ending
  PROVE  /\ Len(shown) \in Nat
         /\ Rest = <<>> /\ pending = <<>> => Len(shown) = received
         /\ frames # <<>> => Rest = Last(frames).rest
<1>1. /\ shown \in Seq(Chunk) /\ Rest \in Seq(Chunk) /\ pending \in Seq(Chunk)
      /\ Len(frames) \in Nat /\ (Len(frames) = 0) = (frames = <<>>) /\ received \in Nat
  BY RestType
<1>2. Len(shown) \in Nat
  BY <1>1, LenProperties
<1>3. ASSUME Rest = <<>>, pending = <<>> PROVE Len(shown) = received
  <2>1. (shown \o <<>>) \o <<>> = Upto(received)
    BY <1>3, ReverseEmpty DEF OrderInv
  <2>2. shown = Upto(received)
    BY <1>1, <2>1, ConcatEmptySeq
  <2>3. Len(Upto(received)) = received
    <3>1. Upto(received) \in Seq(1 .. received)
      BY <1>1, IsASeq DEF Upto
    <3> QED BY <1>1, <3>1, LenProperties DEF Upto
  <2> QED BY <2>2, <2>3
<1>4. ASSUME frames # <<>> PROVE Rest = Last(frames).rest
  <2>1. PICK n \in Nat : n = Len(frames)
    BY <1>1
  <2>2. n # 0
    BY <1>1, <1>4, <2>1
  <2>3. ~(n > 1)
    BY <2>1 DEF Ending
  <2>4. n = 1
    BY <2>2, <2>3
  <2> QED BY <1>4, <2>1, <2>4 DEF Rest, Last
<1> QED BY <1>2, <1>3, <1>4

\* A chunk that waits can go on, at a distance that is a natural number.
LEMMA WaitingGoes ==
  ASSUME OutputInv, OrderInv, Waiting
  PROVE  /\ CanGo
         /\ Phase \in 0 .. MaxLatency + 3
         /\ frames = <<>> => first \in 0 .. MaxLatency /\ Phase = 3 + MaxLatency - first
<1>0. MaxLatency \in Nat /\ received \in Nat /\ ~Ending
  BY LatencyAssumption, RestType DEF LatencyAssumption, Waiting
<1>1. CASE frames = <<>>
  <2>1. pending # <<>>
    BY <1>0, <1>1, ChunksCounted DEF Waiting, Rest
  <2>2. timer # Nil
    BY <1>0, <1>1, <2>1 DEF OutputInv, NoChunkStranded, Ending
  <2>3. first \in 0 .. MaxLatency /\ timer \in 0 .. MaxLatency /\ first + timer <= MaxLatency
    BY <2>2 DEF OutputInv, DeadlineKept, TypeOK
  <2>4. timer = 0 \/ first + 1 \in 0 .. MaxLatency
    BY <1>0, <2>3
  <2>5. Phase = 3 + MaxLatency - first
    BY <1>1 DEF Phase
  <2>6. 3 + MaxLatency - first \in 0 .. MaxLatency + 3
    BY <1>0, <2>3
  <2> QED BY <1>1, <2>1, <2>3, <2>4, <2>5, <2>6 DEF CanGo
<1>2. CASE frames # <<>>
  <2>1. Last(frames).rest # <<>> \/ pending # <<>>
    BY <1>0, <1>2, ChunksCounted DEF Waiting
  <2>2. Phase \in 0 .. 2
    BY <1>2 DEF Phase
  <2> QED BY <1>0, <1>2, <2>1, <2>2 DEF CanGo
<1> QED BY <1>1, <1>2

\* A drain that begins has its first chunk at hand.
LEMMA DrainGoes ==
  ASSUME frames = <<>>, NEW queue \in Seq(Chunk), queue # <<>>, NEW caller, Drain(caller, queue)
  PROVE  Phase' = 0
<1> DEFINE f == [caller |-> caller, rest |-> Queue(queue), waits |-> FALSE]
<1>1. frames' = Append(<<>>, f)
  BY DEF Drain
<1>2. f.waits = FALSE /\ f.rest # <<>>
  <2>1. Len(queue) # 0
    BY EmptySeq
  <2>2. Reverse(queue) # <<>>
    BY <2>1, ReverseType, EmptySeq
  <2> QED BY <2>2 DEF Queue
<1> HIDE DEF f
<1>3. frames' = <<f>>
  BY <1>1
<1>4. frames' # <<>> /\ Last(frames') = f
  BY <1>3 DEF Last
<1> QED BY <1>2, <1>4 DEF Phase

\* The next round of a drain, or the chunk after a wait.
LEMMA ReplaceGoes ==
  ASSUME OutputInv, frames # <<>>, NEW f \in Frame, frames' = Front(frames) \o <<f>>,
         f.waits = FALSE
  PROVE  Phase' = IF f.rest = <<>> THEN 1 ELSE 0
<1>1. frames' # <<>> /\ Last(frames') = f
  BY ReplaceInnermost DEF OutputInv, TypeOK
<1> QED BY <1>1 DEF Phase

\* A drain begins, from the timer, the filter or the sentinel.
LEMMA BeginNears ==
  ASSUME OutputInv, OrderInv, Waiting, frames = <<>>, UNCHANGED shown,
         NEW queue \in Seq(Chunk), queue # <<>>, NEW caller, Drain(caller, queue)
  PROVE  Nearer
<1>1. Phase' = 0
  BY DrainGoes
<1>2. first \in 0 .. MaxLatency /\ Phase = 3 + MaxLatency - first /\ MaxLatency \in Nat
  BY WaitingGoes, LatencyAssumption DEF LatencyAssumption
<1>3. 0 < 3 + MaxLatency - first
  BY <1>2
<1>4. Phase' <= Phase /\ Phase' # Phase
  BY <1>1, <1>2, <1>3
<1> QED BY <1>4 DEF Nearer, NotFarther

\* The helpful steps bring the next chunk nearer.
LEMMA HelpStep ==
  ASSUME OutputInv, OrderInv, Waiting, Helps
  PROVE  Nearer
<1>0. /\ shown \in Seq(Chunk) /\ pending \in Seq(Chunk) /\ frames \in Seq(Frame)
      /\ Len(shown) \in Nat /\ ~Ending /\ MaxLatency \in Nat
  BY RestType, ChunksCounted, LatencyAssumption
     DEF LatencyAssumption, OutputInv, TypeOK, Waiting
<1>1. CASE TimerFires
  <2>1. frames = <<>>
    BY <1>1 DEF TimerFires, OutputInv, StampTells, Nil
  <2>2. pending # <<>>
    BY <2>1, WaitingGoes DEF CanGo
  <2>3. Drain("timer", pending) /\ UNCHANGED shown
    BY <1>1 DEF TimerFires
  <2> QED BY <1>0, <2>1, <2>2, <2>3, BeginNears
<1>2. CASE ProcessChunk
  <2>1. shown' = Append(shown, Head(Last(frames).rest)) /\ frames # <<>> /\ Last(frames).rest # <<>>
    BY <1>2 DEF ProcessChunk
  <2>2. Last(frames) \in Frame
    BY <1>0, <2>1, InnermostFrame
  <2>3. Head(Last(frames).rest) \in Chunk
    BY <2>1, <2>2, HeadTailProperties DEF Frame
  <2>4. Len(shown') = Len(shown) + 1
    BY <1>0, <2>1, <2>3, AppendProperties
  <2> QED BY <1>0, <2>4 DEF Nearer, NotFarther
<1>3. CASE EndWait
  <2> DEFINE l == Last(frames)
             f == [l EXCEPT !.waits = FALSE]
  <2>1. frames # <<>> /\ l.waits /\ frames' = Front(frames) \o <<f>> /\ UNCHANGED shown
    BY <1>3 DEF EndWait
  <2>2. l \in Frame
    BY <1>0, <2>1, InnermostFrame
  <2>3. f \in Frame /\ f.waits = FALSE
    BY <2>2 DEF Frame
  <2>4. Phase = 2
    BY <2>1 DEF Phase
  <2> HIDE DEF f
  <2>5. Phase' = 1 \/ Phase' = 0
    BY <2>1, <2>3, ReplaceGoes
  <2> QED BY <2>1, <2>4, <2>5 DEF Nearer, NotFarther
<1>4. CASE EndRound
  <2> DEFINE l == Last(frames)
             f == [l EXCEPT !.rest = Queue(pending)]
  <2>1. frames # <<>> /\ ~l.waits /\ l.rest = <<>> /\ UNCHANGED shown
    BY <1>4 DEF EndRound
  <2>2. pending # <<>>
    BY <2>1, WaitingGoes DEF CanGo
  <2>3. frames' = Front(frames) \o <<f>>
    BY <1>4, <2>2 DEF EndRound, More
  <2>4. l \in Frame /\ l.waits = FALSE
    BY <1>0, <2>1, InnermostFrame DEF Frame
  <2>5. Queue(pending) \in Seq(Chunk) /\ Queue(pending) # <<>>
    BY <1>0, <2>2, ReverseType, EmptySeq DEF Queue
  <2>6. f \in Frame /\ f.waits = FALSE /\ f.rest # <<>>
    BY <2>4, <2>5 DEF Frame
  <2>7. Phase = 1
    BY <2>1 DEF Phase
  <2> HIDE DEF f
  <2>8. Phase' = 0
    BY <2>1, <2>3, <2>6, ReplaceGoes
  <2> QED BY <2>1, <2>7, <2>8 DEF Nearer, NotFarther
<1>5. CASE Tick /\ frames = <<>> /\ timer # 0
  <2>1. first \in 0 .. MaxLatency /\ first + 1 \in 0 .. MaxLatency
        /\ Phase = 3 + MaxLatency - first
    BY <1>5, WaitingGoes DEF CanGo
  <2>2. first' = first + 1 /\ frames' = <<>> /\ UNCHANGED shown
    BY <1>0, <1>5, <2>1 DEF Tick
  <2>3. Phase' = 3 + MaxLatency - (first + 1)
    BY <2>2 DEF Phase
  <2> QED BY <1>0, <2>1, <2>2, <2>3 DEF Nearer, NotFarther
<1> QED BY <1>1, <1>2, <1>3, <1>4, <1>5 DEF Helps

\* The others leave it where it is: output that arrives postpones the timer,
\* but not the end of the latency.
LEMMA DistanceStep ==
  ASSUME OutputInv, OrderInv, Waiting, ~Ending', [Next]_vars
  PROVE  NotFarther
<1>0. /\ shown \in Seq(Chunk) /\ pending \in Seq(Chunk) /\ frames \in Seq(Frame)
      /\ Len(shown) \in Nat /\ ~Ending /\ MaxLatency \in Nat /\ received \in Nat
      /\ Phase \in Int
  BY RestType, ChunksCounted, WaitingGoes, LatencyAssumption
     DEF LatencyAssumption, OutputInv, TypeOK, Waiting
<1>1. Nearer => NotFarther
  BY DEF Nearer
<1>2. ASSUME UNCHANGED <<frames, first, shown>> PROVE NotFarther
  <2>1. Phase' = Phase
    BY <1>2 DEF Phase
  <2> QED BY <1>0, <1>2, <2>1 DEF NotFarther
<1>3. CASE Helps
  BY <1>1, <1>3, HelpStep
<1>4. CASE Write \/ ProcessDies \/ UNCHANGED vars
  BY <1>2, <1>4 DEF Write, ProcessDies, vars
<1>5. CASE Filter
  <2> DEFINE queue == <<received + 1>> \o pending
  <2>1. UNCHANGED shown
    BY <1>5 DEF Filter
  <2>2. queue \in Seq(Chunk) /\ queue # <<>>
    <3>1. received + 1 \in Chunk
      BY <1>0, <1>5, LatencyAssumption DEF LatencyAssumption, Filter, OutputInv, Bounded, Chunk
    <3>2. <<received + 1>> \in Seq(Chunk) /\ <<received + 1>> # <<>>
      BY <3>1
    <3> QED BY <1>0, <3>2, ConcatProperties, ConcatEqualIffEmpty, ConcatSimplifications
  <2>3. CASE Busy
    BY <1>2, <1>5, <2>1, <2>3 DEF Filter
  <2>4. CASE ~Busy /\ MaxLatency - FirstTime <= 0
    <3>1. Drain("filter", queue)
      BY <1>5, <2>4 DEF Filter
    <3>2. frames = <<>>
      BY <1>5, <2>4, FirstTimeType DEF Filter, OutputInv, SentinelLast
    <3> HIDE DEF queue
    <3> QED BY <1>1, <2>1, <2>2, <3>1, <3>2, BeginNears
  <2>5. CASE ~Busy /\ ~(MaxLatency - FirstTime <= 0)
    <3>1. first' = FirstTime /\ UNCHANGED frames
      BY <1>5, <2>5 DEF Filter, Schedule
    <3>2. frames = <<>>
      BY <1>5, <2>5, FirstTimeType DEF Filter, OutputInv, SentinelLast
    <3>3. first \in 0 .. MaxLatency
      BY <3>2, WaitingGoes
    <3>4. FirstTime = first
      BY <3>3 DEF FirstTime, Nil
    <3> QED BY <1>2, <2>1, <3>1, <3>4
  <2> QED BY <2>3, <2>4, <2>5
<1>6. CASE Sentinel
  <2>1. CASE frames = <<>>
    <3>1. pending # <<>>
      BY <2>1, WaitingGoes DEF CanGo
    <3>2. Drain("sentinel", pending) /\ UNCHANGED shown
      BY <1>6, <3>1 DEF Sentinel, Left
    <3> QED BY <1>0, <1>1, <2>1, <3>1, <3>2, BeginNears
  <2>2. CASE frames # <<>> /\ Left
    <3>1. Drain("sentinel", pending) /\ pending # <<>>
      BY <1>6, <2>2 DEF Sentinel, Left
    <3>2. PICK f : frames' = Append(frames, f)
      BY <3>1 DEF Drain
    <3>3. Len(frames') > 1
      <4>1. Len(frames) \in Nat \ {0}
        BY <1>0, <2>2, EmptySeq
      <4>2. Len(frames') = Len(frames) + 1
        BY <1>0, <3>2
      <4> QED BY <4>1, <4>2
    <3> QED BY <3>3 DEF Ending
  <2>3. CASE ~Left
    BY <1>6, <2>3 DEF Sentinel, Ended, Ending
  <2> QED BY <2>1, <2>2, <2>3
<1>7. CASE KillBuffer
  BY <1>7 DEF KillBuffer, Ending
<1>8. CASE AnswerFails
  BY <1>8 DEF AnswerFails, Ending
<1>9. CASE Tick
  <2>1. UNCHANGED <<frames, shown>> /\ first' \in {first, first + 1}
    BY <1>9 DEF Tick
  <2>2. CASE frames # <<>>
    <3>1. Phase' = Phase
      BY <2>1, <2>2 DEF Phase
    <3> QED BY <1>0, <2>1, <3>1 DEF NotFarther
  <2>3. CASE frames = <<>>
    <3>1. first \in 0 .. MaxLatency /\ Phase = 3 + MaxLatency - first
      BY <2>3, WaitingGoes
    <3>2. Phase' = 3 + MaxLatency - first'
      BY <2>1, <2>3 DEF Phase
    <3>3. 3 + MaxLatency - first' <= 3 + MaxLatency - first
      <4>1. CASE first' = first
        BY <1>0, <3>1, <4>1
      <4>2. CASE first' = first + 1
        BY <1>0, <3>1, <4>2
      <4> QED BY <2>1, <4>1, <4>2
    <3> QED BY <1>0, <2>1, <3>1, <3>2, <3>3 DEF NotFarther
  <2> QED BY <2>2, <2>3
<1> QED BY <1>3, <1>4, <1>5, <1>6, <1>7, <1>8, <1>9 DEF Next, Helps

\* Until the terminal ends, the next chunk that was read and not shown can
\* always go on, no step puts it farther off (in particular no further output
\* does), and the timer, the clock and the drain each bring it nearer: it is
\* shown after at most MaxLatency + 4 of their steps.
THEOREM OutputComesNearer ==
  Spec => /\ [](Waiting => CanGo /\ Phase \in 0 .. MaxLatency + 3)
          /\ [][Waiting /\ ~Ending' => NotFarther /\ (Helps => Nearer)]_vars
<1> DEFINE Goes == Waiting => CanGo /\ Phase \in 0 .. MaxLatency + 3
           Comes == Waiting /\ ~Ending' => NotFarther /\ (Helps => Nearer)
<1>1. OutputInv /\ OrderInv => Goes
  BY WaitingGoes
<1>2. OutputInv /\ OrderInv /\ [Next]_vars => [Comes]_vars
  BY DistanceStep, HelpStep
<1> HIDE DEF Goes, Comes
<1>3. Spec => []Goes /\ [][Comes]_vars
  BY OutputInit, OutputStep, OrderInit, OrderStep, <1>1, <1>2, PTL DEF Spec
<1> QED BY <1>3 DEF Goes, Comes
=============================================================================
