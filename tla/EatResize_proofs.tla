-------------------------- MODULE EatResize_proofs --------------------------
(***************************************************************************)
(* Theorems about EatResize, for any windows, sizes and delay: the types,  *)
(* the agreement of the program's size with the emulator's, the handle of  *)
(* the pending resize, the size that a settled terminal has, and that it   *)
(* implements SettledSize.                                                 *)
(***************************************************************************)
EXTENDS EatResize, WellFoundedInduction, TLAPS

\* A set of natural numbers has a least element.
LEMMA LeastNatural ==
  ASSUME NEW T \in SUBSET Nat, T # {}
  PROVE  \E m \in T : \A n \in T : m <= n
<1> DEFINE R == {ss \in Nat \X Nat : ss[1] < ss[2]}
<1>1. IsWellFoundedOn(R, Nat)
  BY NatLessThanWellFounded DEF OpToRel
<1>2. PICK m \in T : \A n \in T : ~(<<n, m>> \in R)
  BY <1>1, WFMin
<1>3. ASSUME NEW n \in T PROVE m <= n
  <2>1. <<n, m>> \in Nat \X Nat /\ <<n, m>>[1] = n /\ <<n, m>>[2] = m
    OBVIOUS
  <2>2. ~(n < m)
    BY <1>2, <2>1
  <2> QED BY <2>2
<1> QED BY <1>3

\* The size of a visible terminal is the size of one of its windows.
LEMMA SmallestType ==
  ASSUME shown \in [Window -> 0 .. MaxSize], Visible
  PROVE  Smallest \in 1 .. MaxSize
<1>1. Sizes \in SUBSET Nat /\ Sizes \subseteq 1 .. MaxSize /\ Sizes # {}
  BY SizeAssumption DEF Sizes, Visible
<1>2. \E s \in Sizes : \A r \in Sizes : s <= r
  BY <1>1, LeastNatural
<1> QED BY <1>1, <1>2 DEF Smallest

\* A new timer has an identity of its own.
LEMMA NextIdType ==
  ASSUME FreeIds # {}
  PROVE  NextId \in TimerId /\ NextId # NoTimer
<1>1. FreeIds \in SUBSET Nat /\ FreeIds \subseteq TimerId /\ NoTimer \notin FreeIds
  BY TimerAssumption DEF FreeIds
<1>2. \E id \in FreeIds : \A other \in FreeIds : id <= other
  BY <1>1, LeastNatural
<1> QED BY <1>1, <1>2 DEF NextId

-----------------------------------------------------------------------------
(* The invariant. *)

\* At most one resize is pending.
OneTimer == \A s, t \in timers : s = t

ResizeInv == TypeOK /\ PtyAgrees /\ PendingIsHeld /\ OneTimer /\ NoStaleSize

\* The invariant holds before the terminal is made.
LEMMA ResizeInit == Init => ResizeInv
<1> SUFFICES ASSUME Init PROVE ResizeInv
  OBVIOUS
<1>1. MaxSize \in Nat /\ Delay \in Nat /\ MaxChanges \in Nat
  BY SizeAssumption, DelayAssumption
<1>2. TypeOK
  <2>1. (term # 0) = (status \in {"live", "dead", "stuck"})
    BY DEF Init
  <2>2. /\ shown \in [Window -> 0 .. MaxSize]
        /\ term \in 0 .. MaxSize /\ pty \in 0 .. MaxSize
        /\ quiet \in 0 .. Delay /\ changes \in 0 .. MaxChanges
    BY <1>1 DEF Init
  <2>3. /\ unseen \in BOOLEAN /\ asked \in BOOLEAN /\ printed \in BOOLEAN /\ noted \in BOOLEAN
        /\ status \in {"absent", "live", "dead", "left", "stuck"}
        /\ delay \in {0, Delay}
        /\ timers \subseteq [id : TimerId, left : 0 .. Delay]
        /\ held \in TimerId \cup {NoTimer}
    BY DEF Init
  <2> QED BY <2>1, <2>2, <2>3 DEF TypeOK
<1>3. PtyAgrees /\ PendingIsHeld /\ OneTimer /\ NoStaleSize
  BY DEF Init, PtyAgrees, PendingIsHeld, OneTimer, NoStaleSize, Holding
<1> QED BY <1>2, <1>3 DEF ResizeInv

\* The timers after a resize was put off, and after it was cancelled.
LEMMA Pending ==
  ASSUME ResizeInv
  PROVE  /\ Cancelled = {}
         /\ CancelResizeTimer => timers' = {} /\ held' = NoTimer
         /\ ScheduleResize /\ FreeIds # {} =>
              /\ timers' = {[id |-> NextId, left |-> delay]}
              /\ held' = NextId /\ held' # NoTimer /\ held' \in TimerId
              /\ timers' \subseteq [id : TimerId, left : 0 .. Delay]
<1>1. Cancelled = {}
  BY DEF ResizeInv, PendingIsHeld, Cancelled
<1>2. CancelResizeTimer => timers' = {} /\ held' = NoTimer
  BY <1>1 DEF CancelResizeTimer
<1>3. ASSUME ScheduleResize, FreeIds # {}
      PROVE  /\ timers' = {[id |-> NextId, left |-> delay]}
             /\ held' = NextId /\ held' # NoTimer /\ held' \in TimerId
             /\ timers' \subseteq [id : TimerId, left : 0 .. Delay]
  <2>1. delay \in 0 .. Delay
    BY DelayAssumption DEF ResizeInv, TypeOK
  <2> QED BY <1>1, <1>3, <2>1, NextIdType DEF ScheduleResize
<1> QED BY <1>1, <1>2, <1>3

\* What the timers and their handle come to.
TimersKept ==
  \/ UNCHANGED <<timers, held>>
  \/ timers' = {} /\ held' = NoTimer
  \/ \E left \in 0 .. Delay : timers' = {[id |-> held', left |-> left]} /\ held' \in TimerId

\* The parts of the invariant that are about timers.
LEMMA TimersInv ==
  ASSUME ResizeInv, TimersKept
  PROVE  /\ PendingIsHeld' /\ OneTimer'
         /\ timers' \subseteq [id : TimerId, left : 0 .. Delay]
         /\ held' \in TimerId \cup {NoTimer}
<1>1. CASE UNCHANGED <<timers, held>>
  BY <1>1 DEF ResizeInv, TypeOK, PendingIsHeld, OneTimer, Holding
<1>2. CASE timers' = {} /\ held' = NoTimer
  BY <1>2 DEF PendingIsHeld, OneTimer, Holding
<1>3. ASSUME NEW left \in 0 .. Delay, timers' = {[id |-> held', left |-> left]}, held' \in TimerId
      PROVE  /\ PendingIsHeld' /\ OneTimer'
             /\ timers' \subseteq [id : TimerId, left : 0 .. Delay]
             /\ held' \in TimerId \cup {NoTimer}
  BY <1>3 DEF PendingIsHeld, OneTimer, Holding
<1> QED BY <1>1, <1>2, <1>3 DEF TimersKept
-----------------------------------------------------------------------------
(* The steps. *)

\* What the sizes of the emulator and of the program come to.
SizesKept ==
  \/ UNCHANGED <<term, pty>>
  \/ term' \in 1 .. MaxSize /\ pty' = term'
  \/ term' = 0 /\ pty' = 0

\* The parts of the type that no other invariant is about.
RestOfType ==
  /\ shown \in [Window -> 0 .. MaxSize]
  /\ unseen \in BOOLEAN
  /\ status \in {"absent", "live", "dead", "left", "stuck"}
  /\ (term # 0) = (status \in {"live", "dead", "stuck"})
  /\ delay \in {0, Delay}
  /\ asked \in BOOLEAN
  /\ quiet \in 0 .. Delay
  /\ printed \in BOOLEAN /\ noted \in BOOLEAN
  /\ changes \in 0 .. MaxChanges

\* The type, the sizes and the timers, from what a step did to each.
LEMMA StepInv ==
  ASSUME ResizeInv, RestOfType', SizesKept, TimersKept, NoStaleSize'
  PROVE  ResizeInv'
<1>1. /\ PendingIsHeld' /\ OneTimer'
      /\ timers' \subseteq [id : TimerId, left : 0 .. Delay]
      /\ held' \in TimerId \cup {NoTimer}
  BY TimersInv
<1>2. PtyAgrees' /\ term' \in 0 .. MaxSize /\ pty' \in 0 .. MaxSize
  BY SizeAssumption DEF ResizeInv, TypeOK, PtyAgrees, SizesKept
<1>3. TypeOK'
  BY <1>1, <1>2 DEF RestOfType, TypeOK
<1> QED BY <1>1, <1>2, <1>3 DEF ResizeInv

\* The constants are natural numbers.
LEMMA Bounds == MaxSize \in Nat /\ Delay \in Nat /\ MaxChanges \in Nat /\ DefaultSize \in 1 .. MaxSize
  BY SizeAssumption, DelayAssumption DEF Size

\* Windows and the delay are changed.
LEMMA UserSteps ==
  ASSUME ResizeInv, ChangeWindows \/ Customize
  PROVE  ResizeInv'
<1>1. RestOfType'
  <2>1. UNCHANGED <<status, term, asked, quiet>>
    BY DEF ChangeWindows, Customize
  <2>2. printed' \in BOOLEAN /\ noted' \in BOOLEAN /\ unseen' \in BOOLEAN
    BY DEF ChangeWindows, Customize, Silent, ResizeInv, TypeOK
  <2>3. shown' \in [Window -> 0 .. MaxSize] /\ delay' \in {0, Delay}
    BY DEF ChangeWindows, Customize, ResizeInv, TypeOK
  <2>4. changes' \in 0 .. MaxChanges
    <3>1. changes \in 0 .. MaxChanges /\ changes < MaxChanges /\ changes' = changes + 1
      BY DEF ChangeWindows, Customize, ResizeInv, TypeOK
    <3> QED BY <3>1, Bounds
  <2> QED BY <2>1, <2>2, <2>3, <2>4 DEF RestOfType, ResizeInv, TypeOK
<1>2. SizesKept /\ TimersKept
  BY DEF ChangeWindows, Customize, SizesKept, TimersKept
<1>3. NoStaleSize'
  BY DEF ResizeInv, NoStaleSize, ChangeWindows, Customize, Visible, Sizes, Smallest
<1> QED BY <1>1, <1>2, <1>3, StepInv

\* Redisplay asks for a size.
LEMMA AdjustStep ==
  ASSUME ResizeInv, Adjust
  PROVE  ResizeInv'
<1>1. CASE ~(status = "live" /\ Visible)
  <2>1. RestOfType' /\ SizesKept /\ TimersKept
    BY <1>1 DEF ResizeInv, TypeOK, RestOfType, Adjust, NotResized, Silent, SizesKept, TimersKept
  <2>2. NoStaleSize'
    BY <1>1 DEF Adjust, NoStaleSize, Visible, Sizes
  <2> QED BY <2>1, <2>2, StepInv
<1>2. CASE status = "live" /\ Visible /\ Synchronous
  <2>1. term' = Smallest /\ pty' = Smallest /\ UNCHANGED <<timers, held, quiet, shown, status, delay, changes>>
    BY <1>2 DEF Adjust, Resized, Take
  <2>2. Smallest \in 1 .. MaxSize
    BY <1>2, SmallestType DEF ResizeInv, TypeOK
  <2>3. unseen' \in BOOLEAN /\ asked' \in BOOLEAN /\ printed' \in BOOLEAN /\ noted' \in BOOLEAN
    BY <1>2 DEF Adjust, Resized
  <2>4. RestOfType'
    BY <1>2, <2>1, <2>2, <2>3 DEF ResizeInv, TypeOK, RestOfType
  <2>5. SizesKept /\ TimersKept
    BY <2>1, <2>2 DEF SizesKept, TimersKept
  <2>6. NoStaleSize'
    BY <2>1 DEF NoStaleSize, Smallest, Sizes
  <2> QED BY <2>4, <2>5, <2>6, StepInv
<1>3. CASE status = "live" /\ Visible /\ ~Synchronous
  <2>1. /\ FreeIds # {} /\ ScheduleResize /\ UNCHANGED <<term, pty, shown, status, delay, changes>>
        /\ unseen' \in BOOLEAN /\ asked' \in BOOLEAN /\ printed' \in BOOLEAN /\ noted' \in BOOLEAN
    BY <1>3 DEF Adjust, NotResized, Silent
  <2>2. /\ timers' = {[id |-> NextId, left |-> delay]}
        /\ held' = NextId /\ held' # NoTimer /\ held' \in TimerId
    BY <2>1, Pending
  <2>3. delay \in 0 .. Delay /\ quiet' = 0
    BY <2>1, Bounds DEF ResizeInv, TypeOK, ScheduleResize
  <2>4. TimersKept /\ SizesKept
    BY <2>1, <2>2, <2>3 DEF TimersKept, SizesKept
  <2>5. RestOfType'
    BY <2>1, <2>3, Bounds DEF ResizeInv, TypeOK, RestOfType
  <2>6. NoStaleSize'
    BY <2>2 DEF NoStaleSize
  <2> QED BY <2>4, <2>5, <2>6, StepInv
<1> QED BY <1>1, <1>2, <1>3

\* The pending resize is applied.
LEMMA FireStep ==
  ASSUME ResizeInv, FireTimer
  PROVE  ResizeInv'
<1>1. PICK t \in timers : Apply(t)
  BY DEF FireTimer
<1>2. /\ UNCHANGED <<shown, unseen, status, delay, asked, changes, quiet>>
      /\ printed' \in BOOLEAN /\ noted' \in BOOLEAN
  BY <1>1 DEF FireTimer, Apply, Resized, NotResized, Silent
<1>3. timers' = {} /\ held' = NoTimer
  BY <1>1 DEF Apply, ResizeInv, OneTimer
<1>4. TimersKept
  BY <1>3 DEF TimersKept
<1>5. CASE status = "live" /\ Visible
  <2>1. term' = Smallest /\ pty' = Smallest
    BY <1>1, <1>5 DEF Apply, Resized, NotResized, Take, ResizeInv, TypeOK, PtyAgrees
  <2>2. Smallest \in 1 .. MaxSize
    BY <1>5, SmallestType DEF ResizeInv, TypeOK
  <2>3. RestOfType' /\ SizesKept
    BY <1>2, <1>5, <2>1, <2>2 DEF ResizeInv, TypeOK, RestOfType, SizesKept
  <2>4. NoStaleSize'
    BY <1>2, <2>1 DEF NoStaleSize, Smallest, Sizes
  <2> QED BY <1>4, <2>3, <2>4, StepInv
<1>6. CASE ~(status = "live" /\ Visible)
  <2>1. UNCHANGED <<term, pty>>
    BY <1>1, <1>6 DEF Apply, NotResized
  <2>2. RestOfType' /\ SizesKept
    BY <1>2, <2>1 DEF ResizeInv, TypeOK, RestOfType, SizesKept
  <2>3. NoStaleSize'
    BY <1>2, <1>6 DEF NoStaleSize, Visible, Sizes
  <2> QED BY <1>4, <2>2, <2>3, StepInv
<1> QED BY <1>5, <1>6
\* A terminal is started, and whatever was pending is cancelled.
LEMMA StartSteps ==
  ASSUME ResizeInv, StartTerminal \/ StartHidden
  PROVE  ResizeInv'
<1>1. CancelResizeTimer /\ Silent /\ asked' = FALSE /\ status' = "live" /\ UNCHANGED <<delay, quiet, changes>>
  BY DEF StartTerminal, StartHidden
<1>2. TimersKept
  BY <1>1, Pending DEF TimersKept
<1>3. NoStaleSize'
  BY <1>1 DEF NoStaleSize
<1>4. shown' \in [Window -> 0 .. MaxSize] /\ unseen' \in BOOLEAN /\ term' \in 1 .. MaxSize /\ pty' = term'
  <2>1. CASE StartHidden
    BY <2>1, Bounds DEF StartHidden, Take, ResizeInv, TypeOK
  <2>2. CASE StartTerminal
    <3>1. shown \in [Window -> 0 .. MaxSize] /\ unseen \in BOOLEAN
      BY DEF ResizeInv, TypeOK
    <3>2. PICK w \in Window, size \in Size : shown' = [shown EXCEPT ![w] = size]
      BY <2>2 DEF StartTerminal
    <3>3. shown' \in [Window -> 0 .. MaxSize]
      BY <3>1, <3>2, Bounds DEF Size
    <3>4. PICK v \in Window : shown'[v] # 0 /\ Take(shown'[v])
      BY <2>2 DEF StartTerminal
    <3>5. term' \in 1 .. MaxSize /\ pty' = term'
      BY <3>3, <3>4, Bounds DEF Take
    <3>6. unseen' \in BOOLEAN
      BY <2>2, <3>1 DEF StartTerminal
    <3> QED BY <3>3, <3>5, <3>6
  <2> QED BY <2>1, <2>2
<1>5. SizesKept
  BY <1>4 DEF SizesKept
<1>6. RestOfType'
  <2>1. term' # 0
    BY <1>4, Bounds
  <2> QED BY <1>1, <1>4, <2>1 DEF RestOfType, ResizeInv, TypeOK, Silent
<1> QED BY <1>2, <1>3, <1>5, <1>6, StepInv

\* The process prints, ends, or cannot be answered.
LEMMA ProcessSteps ==
  ASSUME ResizeInv, Output \/ ProcessDies \/ DrainFails
  PROVE  ResizeInv'
<1>1. UNCHANGED <<shown, unseen, term, pty, delay, timers, held, asked, quiet, changes>>
  BY DEF Output, ProcessDies, DrainFails
<1>2. SizesKept /\ TimersKept
  BY <1>1 DEF SizesKept, TimersKept
<1>3. /\ printed' \in BOOLEAN /\ noted' \in BOOLEAN
      /\ status \in {"live", "dead"} /\ status' \in {"live", "dead", "stuck"}
      /\ status' = "live" => status = "live"
  BY DEF Output, ProcessDies, DrainFails, Silent
<1>4. RestOfType'
  BY <1>1, <1>3 DEF RestOfType, ResizeInv, TypeOK
<1>5. NoStaleSize'
  BY <1>1, <1>3 DEF ResizeInv, NoStaleSize, Visible, Sizes, Smallest
<1> QED BY <1>2, <1>4, <1>5, StepInv

\* The terminal goes.
LEMMA EndSteps ==
  ASSUME ResizeInv, Sentinel \/ KillBuffer
  PROVE  ResizeInv'
<1>1. term' = 0 /\ pty' = 0 /\ status' \in {"absent", "left"} /\ UNCHANGED <<delay, asked, quiet, changes>>
  BY DEF Sentinel, KillBuffer
<1>2. CancelResizeTimer \/ UNCHANGED <<timers, held>>
  BY DEF Sentinel, KillBuffer
<1>3. SizesKept /\ TimersKept
  BY <1>1, <1>2, Pending DEF SizesKept, TimersKept
<1>4. shown' \in [Window -> 0 .. MaxSize] /\ unseen' \in BOOLEAN /\ printed' \in BOOLEAN /\ noted' \in BOOLEAN
  <2>1. shown' = [w \in Window |-> 0] \/ UNCHANGED shown
    BY DEF Sentinel, KillBuffer
  <2>2. [w \in Window |-> 0] \in [Window -> 0 .. MaxSize]
    BY Bounds
  <2>3. shown \in [Window -> 0 .. MaxSize] /\ unseen \in BOOLEAN
    BY DEF ResizeInv, TypeOK
  <2>4. unseen' \in BOOLEAN /\ printed' \in BOOLEAN /\ noted' \in BOOLEAN
    BY <2>3 DEF Sentinel, KillBuffer, Silent
  <2> QED BY <2>1, <2>2, <2>3, <2>4
<1>5. RestOfType'
  BY <1>1, <1>4 DEF RestOfType, ResizeInv, TypeOK
<1>6. NoStaleSize'
  BY <1>1 DEF NoStaleSize
<1> QED BY <1>3, <1>5, <1>6, StepInv

\* Time passes: the pending resize keeps its identity.
LEMMA TickStep ==
  ASSUME ResizeInv, Tick
  PROVE  ResizeInv'
<1>1. UNCHANGED <<shown, unseen, status, term, pty, delay, held, asked, changes>> /\ Silent
  BY DEF Tick
<1>2. SizesKept
  BY <1>1 DEF SizesKept
<1>3. quiet' \in 0 .. Delay
  <2>1. quiet \in 0 .. Delay /\ quiet' = IF quiet < Delay THEN quiet + 1 ELSE quiet
    BY DEF Tick, ResizeInv, TypeOK
  <2> QED BY <2>1, Bounds
<1>4. TimersKept
  <2>1. CASE timers = {}
    <3>1. timers' = {} /\ held' = NoTimer
      BY <2>1, <1>1 DEF Tick, ResizeInv, TypeOK, PendingIsHeld
    <3> QED BY <3>1 DEF TimersKept
  <2>2. CASE timers # {}
    <3>1. PICK t \in timers : timers = {t}
      BY <2>2 DEF ResizeInv, OneTimer
    <3>2. t \in [id : TimerId, left : 0 .. Delay] /\ t.id = held
      BY <3>1 DEF ResizeInv, TypeOK, PendingIsHeld, Holding
    <3>3. t.left \in 0 .. Delay /\ held \in TimerId
      BY <3>2
    <3> DEFINE left == IF t.left > 0 THEN t.left - 1 ELSE 0
    <3>4. left \in 0 .. Delay
      BY <3>3, Bounds
    <3>5. [t EXCEPT !.left = left] = [id |-> held, left |-> left]
      BY <3>2
    <3>6. timers' = {[t EXCEPT !.left = left]}
      BY <3>1 DEF Tick
    <3>7. timers' = {[id |-> held', left |-> left]} /\ held' \in TimerId
      BY <3>3, <3>5, <3>6, <1>1
    <3> QED BY <3>4, <3>7 DEF TimersKept
  <2> QED BY <2>1, <2>2
<1>5. RestOfType'
  BY <1>1, <1>3 DEF RestOfType, ResizeInv, TypeOK, Silent
<1>6. NoStaleSize'
  BY <1>1 DEF ResizeInv, NoStaleSize, Visible, Sizes, Smallest
<1> QED BY <1>2, <1>4, <1>5, <1>6, StepInv

\* Every step preserves the invariant.
LEMMA ResizeStep == ResizeInv /\ [Next]_vars => ResizeInv'
<1> SUFFICES ASSUME ResizeInv, [Next]_vars PROVE ResizeInv'
  OBVIOUS
<1>1. CASE ChangeWindows \/ Customize
  BY <1>1, UserSteps
<1>2. CASE Adjust
  BY <1>2, AdjustStep
<1>3. CASE FireTimer
  BY <1>3, FireStep
<1>4. CASE StartTerminal \/ StartHidden
  BY <1>4, StartSteps
<1>5. CASE Output \/ ProcessDies \/ DrainFails
  BY <1>5, ProcessSteps
<1>6. CASE Sentinel \/ KillBuffer
  BY <1>6, EndSteps
<1>7. CASE Tick
  BY <1>7, TickStep
<1>8. CASE UNCHANGED vars
  BY <1>8 DEF vars, ResizeInv, TypeOK, PtyAgrees, PendingIsHeld, OneTimer, NoStaleSize,
              Holding, Visible, Sizes, Smallest
<1> QED BY <1>1, <1>2, <1>3, <1>4, <1>5, <1>6, <1>7, <1>8 DEF Next
-----------------------------------------------------------------------------
(* What follows. *)

\* The variables of my/eat--debounced-window-size keep their types.
THEOREM ResizeTypeCorrect == Spec => []TypeOK
<1>1. ResizeInv => TypeOK
  BY DEF ResizeInv
<1> QED BY <1>1, ResizeInit, ResizeStep, PTL DEF Spec

\* The program is always told the size of its emulator: every resize of
\* eat--adjust-process-window-size reaches both.
THEOREM PtyAlwaysAgrees == Spec => []PtyAgrees
<1>1. ResizeInv => PtyAgrees
  BY DEF ResizeInv
<1> QED BY <1>1, ResizeInit, ResizeStep, PTL DEF Spec

\* my/eat--resize-timer always holds the timer that will run, so that
\* my/eat--cancel-resize-timer cancels it.
THEOREM PendingAlwaysHeld == Spec => []PendingIsHeld
<1>1. ResizeInv => PendingIsHeld
  BY DEF ResizeInv
<1> QED BY <1>1, ResizeInit, ResizeStep, PTL DEF Spec

\* A terminal that redisplay asked and that waits for no timer has the size of
\* its windows, for any number of windows, any delay and any changes of it.
THEOREM NoSizeEverStale == Spec => []NoStaleSize
<1>1. ResizeInv => NoStaleSize
  BY DEF ResizeInv
<1> QED BY <1>1, ResizeInit, ResizeStep, PTL DEF Spec

-----------------------------------------------------------------------------
(* When a terminal is resized. *)

\* What is left to a pending resize is what is left of the quiet time.
QuietLeft == \A t \in timers : t.left + quiet = Delay

\* Every step keeps it: a request starts both, and time counts both.
LEMMA QuietStep ==
  ASSUME ResizeInv, QuietLeft, [Next]_vars
  PROVE  QuietLeft'
<1>1. /\ quiet \in 0 .. Delay /\ delay \in {0, Delay} /\ Delay \in Nat \ {0}
      /\ \A t \in timers : t \in [id : TimerId, left : 0 .. Delay] /\ t.left \in 0 .. Delay
  BY DelayAssumption DEF ResizeInv, TypeOK
<1>2. CASE timers' \subseteq timers /\ quiet' = quiet
  BY <1>2 DEF QuietLeft
<1>3. CASE ScheduleResize /\ delay # 0
  <2>1. /\ timers' = Cancelled \cup {[id |-> NextId, left |-> Delay]} /\ quiet' = 0
    BY <1>1, <1>3 DEF ScheduleResize
  <2>2. Cancelled = {}
    BY DEF Cancelled, ResizeInv, PendingIsHeld
  <2>3. \A t \in timers' : t.left = Delay
    BY <2>1, <2>2
  <2> QED BY <1>1, <2>1, <2>3 DEF QuietLeft
<1>4. CASE Tick
  <2>1. /\ timers' = {[t EXCEPT !.left = IF @ > 0 THEN @ - 1 ELSE 0] : t \in timers}
        /\ quiet' = IF quiet < Delay THEN quiet + 1 ELSE quiet
    BY <1>4 DEF Tick
  <2>2. ASSUME NEW t \in timers
        PROVE  [t EXCEPT !.left = IF @ > 0 THEN @ - 1 ELSE 0].left + quiet' = Delay
    <3>1. t.left \in 0 .. Delay /\ t.left + quiet = Delay
      BY <1>1 DEF QuietLeft
    <3>2. [t EXCEPT !.left = IF @ > 0 THEN @ - 1 ELSE 0].left = IF t.left > 0 THEN t.left - 1 ELSE 0
      BY <1>1
    <3>3. (IF t.left > 0 THEN t.left - 1 ELSE 0) + quiet' = Delay
      BY <1>1, <2>1, <3>1
    <3> QED BY <3>2, <3>3
  <2> QED BY <2>1, <2>2 DEF QuietLeft
<1>5. CASE Adjust
  <2>1. (timers' \subseteq timers /\ quiet' = quiet) \/ (ScheduleResize /\ delay # 0)
    <3>1. CASE status = "live" /\ Visible /\ ~Synchronous
      <4>1. ScheduleResize /\ delay # 0
        BY <1>1, <1>5, <3>1 DEF Adjust, Synchronous
      <4> QED BY <4>1
    <3>2. CASE ~(status = "live" /\ Visible /\ ~Synchronous)
      <4>1. timers' = timers /\ quiet' = quiet
        BY <1>5, <3>2 DEF Adjust
      <4> QED BY <4>1
    <3> QED BY <3>1, <3>2
  <2> QED BY <1>2, <1>3, <2>1
<1>6. CASE FireTimer
  BY <1>2, <1>6 DEF FireTimer, Apply
<1>7. CASE StartTerminal \/ StartHidden \/ Sentinel \/ KillBuffer
  <2>1. timers' \subseteq timers /\ quiet' = quiet
    BY <1>7 DEF StartTerminal, StartHidden, Sentinel, KillBuffer, CancelResizeTimer, Cancelled
  <2> QED BY <1>2, <2>1
<1>8. CASE ChangeWindows \/ Output \/ ProcessDies \/ DrainFails \/ Customize \/ UNCHANGED vars
  <2>1. timers' = timers /\ quiet' = quiet
    BY <1>8 DEF ChangeWindows, Output, ProcessDies, DrainFails, Customize, vars
  <2> QED BY <1>2, <2>1
<1> QED BY <1>4, <1>5, <1>6, <1>7, <1>8 DEF Next

\* With a delay only the timer resizes a terminal whose process runs.
LEMMA OnlyTheTimer ==
  ASSUME ResizeInv, [Next]_vars, status = "live", status' = "live", term' # term, delay # 0
  PROVE  FireTimer
<1>1. ~Adjust
  <2>1. delay = Delay /\ ~Synchronous
    BY DelayAssumption DEF ResizeInv, TypeOK, Synchronous
  <2> QED BY <2>1 DEF Adjust, NotResized
<1>2. ~(ChangeWindows \/ Output \/ ProcessDies \/ DrainFails \/ Customize \/ Tick \/ UNCHANGED vars)
  BY DEF ChangeWindows, Output, ProcessDies, DrainFails, Customize, Tick, vars
<1>3. ~(StartTerminal \/ StartHidden \/ Sentinel \/ KillBuffer)
  BY DEF StartTerminal, StartHidden, Sentinel, KillBuffer
<1> QED BY <1>1, <1>2, <1>3 DEF Next

\* With a delay, a running terminal is resized only when no request came for
\* that long: a burst of window changes reaches the program as one.
ResizeSettled ==
  [][(status = "live" /\ status' = "live" /\ term' # term /\ delay # 0)
       => quiet >= Delay]_vars

\* With a delay, a running terminal is only resized when no request came for that
\* long, for any delay (my/eat--schedule-resize cancels the earlier timer).
THEOREM ResizeAlwaysSettled == Spec => ResizeSettled
<1> DEFINE Settled == (status = "live" /\ status' = "live" /\ term' # term /\ delay # 0)
                         => quiet >= Delay
<1>1. Init => QuietLeft
  BY DEF Init, QuietLeft
<1>2. ResizeInv /\ QuietLeft /\ [Next]_vars => QuietLeft'
  BY QuietStep
<1>3. ResizeInv /\ QuietLeft /\ [Next]_vars => [Settled]_vars
  <2> SUFFICES ASSUME ResizeInv, QuietLeft, [Next]_vars,
                      status = "live", status' = "live", term' # term, delay # 0
               PROVE  quiet >= Delay
    OBVIOUS
  <2>1. PICK t \in timers : t.left = 0
    BY OnlyTheTimer DEF FireTimer
  <2>2. quiet \in 0 .. Delay /\ t.left + quiet = Delay
    BY DEF QuietLeft, ResizeInv, TypeOK
  <2> QED BY <2>1, <2>2, DelayAssumption
<1> QED BY <1>1, <1>2, <1>3, ResizeInit, ResizeStep, PTL DEF Spec, ResizeSettled

\* A visible terminal that redisplay asked and that has not the size of its
\* windows waits for the one timer, and what is left to that is what the delay
\* leaves of the time since the last request: the resize is late by nothing.
StaleIsDue ==
  (status = "live" /\ asked /\ Visible /\ ~unseen /\ term # Smallest)
    => \E t \in timers : t.id = held /\ t.left + quiet = Delay

THEOREM StaleSizeAlwaysDue == Spec => []StaleIsDue
<1>1. Init => QuietLeft
  BY DEF Init, QuietLeft
<1>2. ResizeInv /\ QuietLeft /\ [Next]_vars => QuietLeft'
  BY QuietStep
<1>3. ResizeInv /\ QuietLeft => StaleIsDue
  <2> SUFFICES ASSUME ResizeInv, QuietLeft, status = "live", asked, Visible, ~unseen,
                      term # Smallest
               PROVE  \E t \in timers : t.id = held /\ t.left + quiet = Delay
    BY DEF StaleIsDue
  <2>1. held # NoTimer
    BY DEF ResizeInv, NoStaleSize
  <2>2. PICK t \in timers : t.id = held
    BY <2>1 DEF ResizeInv, PendingIsHeld, Holding
  <2> QED BY <2>2 DEF QuietLeft
<1> QED BY <1>1, <1>2, <1>3, ResizeInit, ResizeStep, PTL DEF Spec

-----------------------------------------------------------------------------
(* The promise of a debounced resize. *)

\* What the windows want depends on them alone.
Wanted == IF Visible THEN Smallest ELSE 0

LEMMA WantedKept == ASSUME UNCHANGED shown PROVE Wanted' = Wanted
  BY DEF Wanted, Visible, Smallest, Sizes

LEMMA WantedVisible == ASSUME ResizeInv PROVE (Wanted # 0 <=> Visible)
<1>1. CASE Visible
  <2>1. Smallest \in 1 .. MaxSize
    BY <1>1, SmallestType DEF ResizeInv, TypeOK
  <2> QED BY <1>1, <2>1, Bounds DEF Wanted
<1>2. CASE ~Visible
  BY <1>2 DEF Wanted
<1> QED BY <1>1, <1>2

SettlingStep == [Settling!SettledNext]_Settling!settling

\* Redisplay makes a request, or a resize at once.
LEMMA AdjustSettles ==
  ASSUME ResizeInv, Adjust
  PROVE  SettlingStep
<1> USE DEF SettlingStep, Settling!SettledNext, Settling!settling
<1>0. Wanted' = Wanted /\ (Wanted # 0 <=> Visible) /\ UNCHANGED <<status, delay>>
  BY WantedKept, WantedVisible DEF Adjust
<1>1. CASE ~(status = "live" /\ Visible)
  <2>1. UNCHANGED <<term, pty, timers, quiet>>
    BY <1>1 DEF Adjust, NotResized
  <2> QED BY <1>0, <2>1 DEF Wanted, Synchronous
<1>2. CASE status = "live" /\ Visible /\ Synchronous
  <2>1. term' = Wanted /\ pty' = Wanted /\ UNCHANGED <<timers, quiet>>
    BY <1>2 DEF Adjust, Resized, Take, Wanted
  <2> QED BY <1>0, <1>2, <2>1 DEF Settling!ResizeAtOnce, Settling!Conform, Wanted, Synchronous
<1>3. CASE status = "live" /\ Visible /\ ~Synchronous
  <2>1. timers' # {} /\ quiet' = 0 /\ UNCHANGED <<term, pty>>
    BY <1>3 DEF Adjust, ScheduleResize, NotResized
  <2> QED BY <1>0, <1>3, <2>1 DEF Settling!Request, Wanted, Synchronous
<1> QED BY <1>1, <1>2, <1>3

\* The timer that is due finds the quiet time over.
LEMMA FireSettles ==
  ASSUME ResizeInv, QuietLeft, FireTimer
  PROVE  SettlingStep
<1>0. Wanted' = Wanted /\ (Wanted # 0 <=> Visible) /\ UNCHANGED <<status, delay, quiet>>
  BY WantedKept, WantedVisible DEF FireTimer, Apply
<1>1. PICK t \in timers : t.left = 0 /\ Apply(t)
  BY DEF FireTimer
<1>2. quiet >= Delay
  <2>1. quiet \in 0 .. Delay /\ t.left + quiet = Delay
    BY DEF QuietLeft, ResizeInv, TypeOK
  <2> QED BY <1>1, <2>1, DelayAssumption
<1>3. timers # {} /\ timers' = {}
  BY <1>1 DEF Apply, ResizeInv, OneTimer
<1>4. IF status = "live" /\ Wanted # 0 THEN term' = Wanted /\ pty' = Wanted
      ELSE UNCHANGED <<term, pty>>
  BY <1>0, <1>1 DEF Apply, Resized, NotResized, Take, Wanted, ResizeInv, TypeOK, PtyAgrees
<1> QED BY <1>0, <1>2, <1>3, <1>4
        DEF SettlingStep, Settling!SettledNext, Settling!Settle, Settling!Conform, Wanted, Synchronous

\* A start and an end cancel what is pending, or leave it to a buffer without a
\* process.
LEMMA StartEndSettles ==
  ASSUME ResizeInv, ResizeInv', StartTerminal \/ StartHidden \/ ProcessDies \/ Sentinel \/ KillBuffer
  PROVE  SettlingStep
<1>1. pty' = term' /\ UNCHANGED <<delay, quiet>>
  BY DEF ResizeInv, PtyAgrees, StartTerminal, StartHidden, ProcessDies, Sentinel, KillBuffer
<1>2. timers' = {} \/ (UNCHANGED timers /\ status' # "live")
  BY Pending DEF StartTerminal, StartHidden, ProcessDies, Sentinel, KillBuffer
<1>3. status # "live" \/ status' # "live"
  BY DEF StartTerminal, StartHidden, ProcessDies, Sentinel, KillBuffer
<1> QED BY <1>1, <1>2, <1>3
        DEF SettlingStep, Settling!SettledNext, Settling!StartOrEnd, Synchronous

\* Of every step.
LEMMA StepSettles ==
  ASSUME ResizeInv, QuietLeft, ResizeInv', [Next]_vars
  PROVE  SettlingStep
<1> USE DEF SettlingStep, Settling!SettledNext, Settling!settling
<1>1. CASE ChangeWindows
  BY <1>1 DEF ChangeWindows, Settling!WindowsChange, Synchronous
<1>2. CASE Customize
  <2>1. Wanted' = Wanted /\ UNCHANGED <<status, term, pty, timers, quiet>>
    BY <1>2, WantedKept DEF Customize
  <2> QED BY <2>1 DEF Settling!Switch, Wanted
<1>3. CASE Tick
  <2>1. Wanted' = Wanted /\ UNCHANGED <<status, term, pty, delay>>
    BY <1>3, WantedKept DEF Tick
  <2>2. (timers' = {}) = (timers = {}) /\ quiet' \in {quiet, quiet + 1}
    BY <1>3 DEF Tick
  <2> QED BY <2>1, <2>2 DEF Settling!TimePasses, Wanted, Synchronous
<1>4. CASE Output \/ DrainFails \/ UNCHANGED vars
  <2>1. Wanted' = Wanted /\ UNCHANGED <<term, pty, timers, quiet, delay>>
    BY <1>4, WantedKept DEF Output, DrainFails, vars
  <2>2. (status' = "live") = (status = "live")
    BY <1>4 DEF Output, DrainFails, vars
  <2> QED BY <2>1, <2>2 DEF Wanted, Synchronous
<1>5. CASE Adjust
  BY <1>5, AdjustSettles
<1>6. CASE FireTimer
  BY <1>6, FireSettles
<1>7. CASE StartTerminal \/ StartHidden \/ ProcessDies \/ Sentinel \/ KillBuffer
  BY <1>7, StartEndSettles
<1> QED BY <1>1, <1>2, <1>3, <1>4, <1>5, <1>6, <1>7 DEF Next

\* The debounced resizing implements its promise, for any number of windows, any
\* sizes and any delay.
THEOREM ResizeSettlesSize == Spec => SizeSettles
<1>1. Init => QuietLeft
  BY DEF Init, QuietLeft
<1>2. ResizeInv /\ QuietLeft /\ [Next]_vars => QuietLeft'
  BY QuietStep
<1>3. Init => Settling!SettledInit
  BY DEF Init, Settling!SettledInit
<1>4. ResizeInv /\ QuietLeft /\ ResizeInv' /\ [Next]_vars => [Settling!SettledNext]_Settling!settling
  BY StepSettles DEF SettlingStep
<1> QED BY <1>1, <1>2, <1>3, <1>4, ResizeInit, ResizeStep, PTL
        DEF Spec, SizeSettles, Settling!SettledSpec
=============================================================================
